------------------------- MODULE ConformanceChecks --------------------------
(***************************************************************************)
(* The conformance harness over small workflows: what the reference loop   *)
(* keeps, what the differ may excuse, and the two engines against each     *)
(* other.  Evaluated by TLC at start-up.                                   *)
(***************************************************************************)
LOCAL INSTANCE NetShape
LOCAL INSTANCE Differ
LOCAL INSTANCE StackReference

-----------------------------------------------------------------------------
\* Workflows of four nodes: an OR input with two producers, a fork into a join, a join before
\* and behind another, two producers on one input of a join.
LOCAL Four == 1 .. 4
LOCAL Free == [count |-> {}, list |-> {}]
LOCAL Wirings ==
  {<<<<1, 0, 2, 0>>, <<1, 0, 3, 0>>, <<2, 0, 4, 0>>, <<3, 0, 4, 0>>>>,
   <<<<1, 0, 2, 0>>, <<1, 1, 3, 0>>, <<2, 0, 4, 0>>, <<3, 0, 4, 1>>>>,
   <<<<1, 0, 2, 0>>, <<1, 0, 3, 0>>, <<2, 0, 3, 1>>, <<3, 0, 4, 0>>, <<1, 1, 4, 1>>>>,
   <<<<1, 0, 4, 0>>, <<1, 0, 2, 0>>, <<2, 0, 4, 0>>, <<1, 1, 3, 0>>, <<3, 0, 4, 1>>>>}
LOCAL Requirements ==
  {Free, [count |-> {2}, list |-> {}], [count |-> {}, list |-> {<<0>>}], [count |-> {}, list |-> {<<0, 1>>}]}
LOCAL Describe(wiring, required) ==
  [nodes |-> [x \in Four |->
     [name |-> x, id |-> x, pos |-> <<x, x>>, onError |-> "stopWorkflow", inputs |-> 2, outputs |-> 2,
      required |-> IF x = 4 \/ (x = 3 /\ <<1, 1, 4, 1>> \in Entries(wiring)) THEN required ELSE Free,
      refs |-> <<>>, rounds |-> {}, calls |-> {}, steps |-> <<>>, deadline |-> FALSE, retries |-> {}, loop |-> FALSE]],
   connections |-> wiring, tools |-> <<>>, starts |-> <<1>>]
LOCAL Described == {Describe(w, r) : w \in Wirings, r \in Requirements}

LOCAL Connections(d) == Entries(d.connections)
LOCAL Wired(d, x) == {c[2] : c \in {e \in Connections(d) : e[1] = x}}
LOCAL Fills(d) == {f \in [Four -> SUBSET {0, 1}] : \A x \in Four : f[x] \subseteq Wired(d, x)}
LOCAL Does(ending, fills) == [attempts |-> <<ending>>, fills |-> <<fills>>, always |-> FALSE, asks |-> <<>>]
LOCAL Plan(fills) ==
  [does |-> [x \in Four |-> Does("items", fills[x])], destination |-> {}, filter |-> {}, cancel |-> {}, limit |-> 99]

-----------------------------------------------------------------------------
\* The net's own game, one unit of budget, each run filling the outputs the plan says.
LOCAL CanFire(t, m) ==
  /\ \A p \in DOMAIN t.take : m[p] >= (IF t.take[p] = 0 THEN 1 ELSE t.take[p])
  /\ \A p \in t.read : m[p] > 0
  /\ \A p \in t.not : m[p] = 0
LOCAL Fire(t, m, b) ==
  [p \in DOMAIN m |->
     (IF p \in DOMAIN t.take THEN IF t.take[p] = 0 THEN 0 ELSE m[p] - t.take[p] ELSE m[p])
     + (IF p \in b THEN 1 ELSE 0)]
RECURSIVE OverFrom(_, _, _)
LOCAL OverFrom(net, open, over) ==
  LET next == [m \in open |-> {Fire(u.t, m, u.put) : u \in {v \in net : CanFire(v.t, m)}}]
  IN  IF open = {} THEN over
      ELSE OverFrom(net, UNION {next[m] : m \in open}, over \cup {m \in open : next[m] = {}})
LOCAL Finals(a, fills) ==
  OverFrom({[t |-> t, put |-> Puts(a, a.node[t.name[1]], t, fills[t.name[1]])] : t \in Net(a)}, {InitialMarking(a, 1)}, {})

LOCAL Options == [profile |-> "v1", rounds |-> {}, calls |-> {}, trigger |-> {}]
LOCAL PendingRoles == {"in-data", "in-empty", "edge-data", "edge-empty", "ready", "hasdata"}
LOCAL Absent == [order |-> 0, status |-> "", source |-> <<>>, out |-> <<>>, dispatched |-> FALSE]

\* What the net ran, as run data: its n-th run of a node is n8n's n-th, which only counts compare.
LOCAL NetEngine(a, m, n8n) ==
  LET ran == {x \in Four : m[Done(x)] > 0}
      RunsHere(x) == [i \in 1 .. m[Done(x)] |-> IF i <= RunsOf(n8n.runs, x) THEN n8n.runs[x][i] ELSE Absent]
  IN  [runs |-> [x \in ran |-> RunsHere(x)], waiting |-> <<>>, outcome |-> "completed",
       stranded |-> {p[1] : p \in {q \in OfRole(a, PendingRoles) : m[q] > 0}}]

LOCAL Explained(d, n8n, net) ==
  LET facts == Facts(n8n, net, {<<c[1], c[3]>> : c \in Connections(d)}, {})
  IN  \A e \in RunDataDifferences(n8n.runs, net.runs) \cup WaitingDifferences(n8n.waiting, <<>>) : DataRow(e, facts) # 0
ASSUME EveryCountIsExplained ==
  \A d \in Described :
    LET a == Analysed(d, Options)
    IN  \A fills \in Fills(d) :
          LET n8n == Played(d, Plan(fills))
          IN  \A m \in Finals(a, fills) : Explained(d, n8n, NetEngine(a, m, n8n))

-----------------------------------------------------------------------------
(***************************************************************************)
(* The reference loop on its own: 1 feeds the agent 2, which calls the     *)
(* tool 4 and feeds 3.                                                     *)
(***************************************************************************)
LOCAL AgentNode(x, policy, retries) ==
  [name |-> x, id |-> x, pos |-> <<x, x>>, onError |-> policy, inputs |-> 1, outputs |-> 1, required |-> Free,
   refs |-> <<>>, rounds |-> {}, calls |-> {}, steps |-> <<>>, deadline |-> FALSE, retries |-> retries, loop |-> FALSE]
LOCAL AgentFlow(policy, retries) ==
  [nodes |-> [x \in Four |-> IF x \in {2, 4} THEN AgentNode(x, policy[x], retries) ELSE AgentNode(x, "stopWorkflow", {})],
   connections |-> <<<<1, 0, 2, 0>>, <<2, 0, 3, 0>>>>, tools |-> <<<<4, 2>>>>, starts |-> <<1>>]
LOCAL AgentFlows ==
  {AgentFlow(policy, retries) : policy \in [{2, 4} -> {"stopWorkflow", "continueRegularOutput", ""}], retries \in {{}, {3}}}
LOCAL Attempts == {<<"items">>, <<"throw">>, <<"throw", "soft", "items">>, <<"null">>, <<"wait">>}
LOCAL Requests == {<<>>, <<<<4>>>>, <<<<4, 4>>, <<4>>>>}
LOCAL AgentPlans ==
  {[does |-> [x \in Four |->
      [attempts |-> IF x = 2 THEN agent ELSE IF x = 4 THEN tool ELSE <<"items">>, fills |-> <<{0}>>, always |-> always,
       asks |-> IF x = 2 THEN asks ELSE <<>>]],
    destination |-> {}, filter |-> {}, cancel |-> {}, limit |-> 99]
     : agent \in Attempts, tool \in Attempts, always \in BOOLEAN, asks \in Requests}
LOCAL EngineOf(s) ==
  [runs |-> s.runs, stack |-> s.stack, waiting |-> s.waiting, last |-> s.last, outcome |-> s.over, budget |-> 1,
   trace |-> s.trace, stranded |-> {}, error |-> s.over = "halted", paused |-> s.over = "paused", thrown |-> FALSE]

\* The reference engine passes its own gate whatever an agent, its tools and its retries do: it
\* starts nothing before what fed it finished (gates/happens-before.ts), and differs in nothing
\* from itself, so a failing verdict is about the net.
ASSUME ReferencePassesItself ==
  \A d \in AgentFlows : \A p \in AgentPlans :
    LET engine == EngineOf(Played(d, p))
    IN  Unordered(engine) = {} /\ Verdict(engine, engine, Connections(d), {}) = "pass"

\* A round is answered before its agent is called again (planEngineRequest stacks the agent under
\* its tools): between two calls of the agent's run, every slot the request reserved has run, or
\* its tool gave nothing; and a loop that ended by itself left no slot unanswered.
LOCAL Answered(runs, k) == runs[k[1]][k[2] + 1].status # ""
ASSUME RoundsAreAnswered ==
  \A d \in AgentFlows : \A p \in {q \in AgentPlans : q.does[4].attempts # <<"null">> \/ q.does[4].always} :
    LET s == Played(d, p)
        Slots == {k \in Activations(s.runs) : TaskOf(s.runs, k).dispatched}
        CallsOfAgent == Marks(s.trace, "start", <<2, 0>>)
    IN  /\ s.over = "" => \A k \in Slots : Answered(s.runs, k)
        /\ \A k \in Slots : Marks(s.trace, "finish", k) # {} \/ s.over # ""
        /\ p.does[2].attempts = <<"items">> /\ s.over = "" => Cardinality(CallsOfAgent) = 1 + Len(p.does[2].asks)
        /\ \A k \in Slots : \A i \in Marks(s.trace, "start", k) :
             Min(CallsOfAgent) < i /\ (s.over = "" => \E j \in CallsOfAgent : i < j)

-----------------------------------------------------------------------------
(***************************************************************************)
(* A join of two inputs, its arrivals in order: how the waiting entries    *)
(* pair them.                                                              *)
(***************************************************************************)
LOCAL Join == Describe(<<<<1, 0, 4, 0>>, <<2, 0, 4, 1>>>>, Free)
LOCAL Arrivals == UNION {[1 .. n -> {0, 1}] : n \in 1 .. 6}
LOCAL Arrived(seq) ==
  LET Spot(i) == [to |-> 4, inp |-> seq[i], slot |-> {<<<<1, i, 0>>>>}, source |-> <<1, i>>, run |-> {}, resumed |-> 0, actions |-> <<>>]
  IN  FoldLeft(LAMBDA s, i : EnqueueArrival(Join, s, Spot(i)), [stack |-> <<>>, waiting |-> <<>>], [i \in DOMAIN seq |-> i])
LOCAL HeldBy(slots) == {slots[i] : i \in DOMAIN slots} \ {Null}
LOCAL Kept(s) ==
  UNION {HeldBy(s.stack[i].data) : i \in DOMAIN s.stack}
  \cup UNION {UNION {HeldBy(w.entries[k].data) : k \in DOMAIN w.entries} : w \in Elements(s.waiting)}
LOCAL Lead(seq, i) == LET On(inp) == Cardinality({j \in 1 .. i : seq[j] = inp}) IN On(0) - On(1)
LOCAL Far(seq, i) == IF Lead(seq, i) < 0 THEN -Lead(seq, i) ELSE Lead(seq, i)
LOCAL RunsAhead(seq) ==
  \E i, j \in DOMAIN seq :
    i < j /\ Far(seq, i) < Far(seq, i - 1) /\ Far(seq, j) > Far(seq, j - 1) /\ \A h \in i .. j - 1 : Far(seq, h) > 0

\* n8n numbers a new waiting entry by how many there are (waitingIndexFor), so an arrival on the
\* input that is ahead, after a pairing took an entry from below, takes a number in use or one
\* below it: 0, 0, 1, 0 loses the second arrival on input 0, and with three entries the order goes.
\* Whenever that does not happen nothing is lost, and the k-th arrivals of the inputs pair.
LOCAL OnInput(seq, inp) == SelectSeq([i \in DOMAIN seq |-> i], LAMBDA i : seq[i] = inp)
ASSUME ArrivalsPairInOrder ==
  /\ Kept(Arrived(<<0, 0, 1, 0>>)) = {{<<<<1, i, 0>>>>} : i \in {1, 3, 4}}
  /\ \A seq \in {a \in Arrivals : ~RunsAhead(a)} :
        LET s == Arrived(seq)
            paired == Reverse(s.stack)
        IN   /\ Cardinality(Kept(s)) = Len(seq)
             /\ Len(paired) = Min({Len(OnInput(seq, 0)), Len(OnInput(seq, 1))})
             /\ \A k \in DOMAIN paired : \A inp \in {0, 1} : paired[k].data[inp + 1] = {<<<<1, OnInput(seq, inp)[k], 0>>>>}

-----------------------------------------------------------------------------
(***************************************************************************)
(* What the differ may excuse.                                             *)
(***************************************************************************)
LOCAL Result(o) == [order |-> 0, status |-> "success", source |-> <<>>, out |-> o, dispatched |-> FALSE]
LOCAL Histories == {f \in [{1, 2} -> {<<>>, <<"a">>, <<"b">>, <<"a", "b">>, <<"b", "a">>, <<"a", "a">>}] : TRUE}
LOCAL RunsAs(h) == [x \in {y \in {1, 2} : h[y] # <<>>} |-> [i \in DOMAIN h[x] |-> Result(h[x][i])]]
LOCAL Left(h, waits) ==
  [runs |-> RunsAs(h), stack |-> <<>>, error |-> FALSE, paused |-> FALSE,
   waiting |-> IF waits = {} THEN <<>> ELSE <<[node |-> Min(waits), entries |-> [k \in {0} |-> [data |-> <<>>, source |-> <<>>]]]>>]
LOCAL Side(h, outcome, stranded) ==
  [runs |-> RunsAs(h), stack |-> <<>>, waiting |-> <<>>, error |-> outcome = "halted", paused |-> FALSE,
   outcome |-> outcome, stranded |-> stranded]

\* A result is excused only as the same results in another order, an error never; a node that ran
\* less on the net only behind a stranded join or a destination, and one that ran more only behind
\* a join n8n left waiting or a stranded one, or on a net that stopped late (data-rules.ts).
ASSUME ResultsAreNotExcused ==
  \A l, r \in Histories : \A waits \in {{}, {1}}, outcome \in {"completed", "halted"}, stranded \in {{}, {2}}, to \in {{}, {2}} :
    LET net == Side(r, outcome, stranded)
        found == CompareData(Left(l, waits), net, {<<1, 2>>}, to).differences
        Behind(x, roots) == x \in roots \/ (x = 2 /\ 1 \in roots)
        Covered(e) == e.row # 0
    IN  \A e \in {f \in found : Covered(f)} :
          LET x == e.d.node
              fewer == e.d.at = <<"runs">> /\ Len(r[x]) < Len(l[x])
              more == e.d.at = <<"runs">> /\ Len(r[x]) > Len(l[x])
          IN  /\ e.d.at \notin {<<"error">>, <<"paused">>}
              /\ e.d.at[1] = "run" => IsPermutation(l[x], r[x])
              /\ fewer => Behind(x, stranded) \/ to # {}
              /\ more => Behind(x, waits) \/ Behind(x, stranded) \/ x \in to \/ outcome = "halted"

LOCAL Three == {<<1, 0>>, <<2, 0>>, <<3, 0>>}
LOCAL Orders == UNION {{f \in [1 .. n -> Three] : IsInjective(f)} : n \in 1 .. 3}
LOCAL Contexts ==
  {[budget |-> budget, permuted |-> permuted, stranded |-> stranded, starved |-> {}, joins |-> joins, edges |-> edges,
    stopped |-> FALSE, to |-> {}, ors |-> {}]
     : budget \in {1, 2}, permuted \in {{}, {1}}, stranded \in {{}, {2}}, joins \in {{}, {<<3, 0>>}},
       edges \in {{}, {<<<<1, 0>>, <<2, 0>>>>}, {<<<<1, 0>>, <<2, 0>>>>, <<<<2, 0>>, <<3, 0>>>>}}}

\* Two activations that swapped are reported as one that moved against the other, and a pair whose
\* one fed the other is never put down to concurrency (attribution/order.ts).
ASSUME InversionsAreReported ==
  \A l, r \in Orders :
    LET Swapped(a, b) == b \in MovedAgainst(l, r, a)
    IN  /\ \A a, b \in Three : Swapped(a, b) => {a, b} \cap Moved(l, r) # {} /\ Swapped(b, a)
        /\ \A a \in Moved(l, r) : MovedAgainst(l, r, a) = {} => Elements(l) # Elements(r)
        /\ \A c \in Contexts : \A a \in Moved(l, r) :
             AttributeMove(a, MovedAgainst(l, r, a), c) = Concurrency =>
               c.budget > 1 /\ \A b \in MovedAgainst(l, r, a) : a \notin Reached(c.edges, b) /\ b \notin Reached(c.edges, a)

=============================================================================
