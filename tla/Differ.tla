------------------------------- MODULE Differ -------------------------------
(***************************************************************************)
(* The differ of the conformance harness: two engines run one workflow,    *)
(* and what they left is compared -- the data, what happened before what,  *)
(* and the order -- each difference attributed to a row of                 *)
(* docs/divergences.md or to none.                                         *)
(*                                                                         *)
(* What an engine leaves is [runs, stack, waiting, last, outcome, budget,  *)
(* trace, stranded, error, paused, thrown]; runs, stack, waiting and trace are as *)
(* StackReference keeps them.  An activation is <<node, run>>; node 0 is a *)
(* difference that is about no node.                                       *)
(***************************************************************************)
EXTENDS Integers, Sequences, FiniteSets, SequencesExt

Elements(s) == {s[i] : i \in DOMAIN s}
First(rules) == LET apply == SelectSeq(rules, LAMBDA r : r[2]) IN IF apply = <<>> THEN {} ELSE {Head(apply)[1]}
Reached(arcs, x) ==
  LET walk[n \in 0 .. Cardinality(arcs)] ==
        IF n = 0 THEN {a[2] : a \in {b \in arcs : b[1] = x}}
        ELSE LET before == walk[n - 1] IN before \cup {a[2] : a \in {b \in arcs : b[1] \in before}}
  IN  walk[Cardinality(arcs)]

-----------------------------------------------------------------------------
(***************************************************************************)
(* runData: per node, the number of runs, and each run without its timing. *)
(***************************************************************************)
Comparable(task) == [out |-> task.out, source |-> task.source, status |-> task.status]
IsPermutation(s, t) ==
  /\ Len(s) = Len(t)
  /\ \A v \in Elements(s) : Cardinality({i \in DOMAIN s : s[i] = v}) = Cardinality({i \in DOMAIN t : t[i] = v})

CountDiffers(l, r) ==
  {x \in DOMAIN l \cup DOMAIN r : x \notin DOMAIN l \cap DOMAIN r \/ Len(l[x]) # Len(r[x])}
Differing(l, r, x) == {i \in DOMAIN l[x] : Comparable(l[x][i]) # Comparable(r[x][i])}
Compared(runs) == [i \in DOMAIN runs |-> Comparable(runs[i])]
Permuted(l, r) ==
  {x \in (DOMAIN l \cup DOMAIN r) \ CountDiffers(l, r) :
     Differing(l, r, x) # {} /\ Len(l[x]) > 1 /\ IsPermutation(Compared(l[x]), Compared(r[x]))}
RunDataDifferences(l, r) ==
  {[node |-> x, at |-> <<"runs">>] : x \in CountDiffers(l, r)}
  \cup UNION {{[node |-> x, at |-> <<"run", i>>] : i \in Differing(l, r, x)}
              : x \in (DOMAIN l \cup DOMAIN r) \ CountDiffers(l, r)}

\* What is left to resume from: the names on the stack, or else what each entry holds, and
\* the waiting entries node by node.
Shape(entry) == [node |-> entry.node, data |-> entry.data, source |-> entry.source]
StackDifferences(l, r) ==
  LET named == {i \in DOMAIN l \cap DOMAIN r : l[i].node # r[i].node}
      At(x) == [node |-> x, at |-> <<"state", "stack">>]
  IN  IF Len(l) # Len(r) THEN {At(0)}
      ELSE IF named # {} THEN {At(l[CHOOSE i \in named : \A j \in named : i <= j].node)}
      ELSE {At(l[i].node) : i \in {j \in DOMAIN l : Shape(l[j]) # Shape(r[j])}}
Held(waiting, x, field) ==
  {[k \in DOMAIN w.entries |-> w.entries[k][field]] : w \in {v \in Elements(waiting) : v.node = x}}
WaitingDifferences(l, r) ==
  LET nodes == {w.node : w \in Elements(l) \cup Elements(r)}
  IN  UNION {{[node |-> x, at |-> <<"state", f>>] : f \in {g \in {"data", "source"} : Held(l, x, g) # Held(r, x, g)}}
             : x \in nodes}
ContractDifferences(l, r) ==
  {[node |-> 0, at |-> <<field>>] : field \in {f \in {"error", "paused"} : l[f] # r[f]}}

-----------------------------------------------------------------------------
(***************************************************************************)
(* Which row excuses a difference of data: the first that applies.         *)
(***************************************************************************)
Closure(roots, arcs) == roots \cup UNION {Reached(arcs, x) : x \in roots}
StoppedOutcomes == {"halted", "paused", "cancelled"}
RunsOf(runs, x) == IF x \in DOMAIN runs THEN Len(runs[x]) ELSE 0

\* arcs are the workflow's connections between nodes; to is its destination node, if any.
Facts(n8n, net, arcs, to) ==
  LET starved == {w.node : w \in Elements(n8n.waiting)}
  IN  [permuted |-> Permuted(n8n.runs, net.runs), stranded |-> net.stranded,
       strandedClosure |-> Closure(net.stranded, arcs), starved |-> starved,
       starvedClosure |-> Closure(starved, arcs), countDiffers |-> CountDiffers(n8n.runs, net.runs),
       n8n |-> n8n.runs, net |-> net.runs, stopped |-> net.outcome \in StoppedOutcomes, to |-> to]

\* 0 when no row covers it.
DataRow(d, facts) ==
  LET x == d.node
      countLike == x \in facts.countDiffers \/ d.at[1] = "state"
      n8nRuns == RunsOf(facts.n8n, x)
      netRuns == RunsOf(facts.net, x)
      row == First(<<<<11, x # 0 /\ x \in facts.permuted>>,
                     <<2, x # 0 /\ countLike /\ x \in facts.strandedClosure>>,
                     <<1, x # 0 /\ countLike /\ x \in facts.starvedClosure /\ netRuns >= n8nRuns>>,
                     <<13, facts.to # {} /\ countLike /\ (x = 0 \/ netRuns < n8nRuns \/ x \in facts.to)>>,
                     <<17, facts.stopped /\ x # 0 /\ netRuns > n8nRuns>>,
                     <<17, facts.stopped /\ countLike /\ x = 0>>>>)
  IN  IF row = {} THEN 0 ELSE CHOOSE k \in row : TRUE

CompareData(n8n, net, arcs, to) ==
  LET facts == Facts(n8n, net, arcs, to)
      found == RunDataDifferences(n8n.runs, net.runs) \cup StackDifferences(n8n.stack, net.stack)
               \cup WaitingDifferences(n8n.waiting, net.waiting) \cup ContractDifferences(n8n, net)
      attributed == {[d |-> d, row |-> DataRow(d, facts)] : d \in found}
  IN  [differences |-> attributed, unattributed |-> {d \in attributed : d.row = 0}, permuted |-> facts.permuted,
       stranded |-> facts.strandedClosure, starved |-> facts.starvedClosure]

-----------------------------------------------------------------------------
(***************************************************************************)
(* Happens-before: a run's source finishes before it starts.  A tool's     *)
(* dispatched run is not an edge: its agent is not finished.               *)
(***************************************************************************)
Activations(runs) == UNION {{<<x, i - 1>> : i \in DOMAIN runs[x]} : x \in DOMAIN runs}
TaskOf(runs, k) == runs[k[1]][k[2] + 1]
Edges(runs) ==
  UNION {UNION {{<<p, k, i>> : p \in TaskOf(runs, k).source[i]} : i \in DOMAIN TaskOf(runs, k).source}
         : k \in {a \in Activations(runs) : ~TaskOf(runs, a).dispatched}}

Marks(trace, kind, k) == {i \in DOMAIN trace : trace[i] = <<kind>> \o k}
Ordered(trace, e) ==
  LET started(k) == Marks(trace, "start", k)
      finished(k) == Marks(trace, "finish", k)
      begins == CHOOSE i \in started(e[2]) : \A j \in started(e[2]) : i <= j
      ends == CHOOSE i \in finished(e[1]) : \A j \in finished(e[1]) : i >= j
  IN  IF started(e[1]) = {} \/ started(e[2]) = {} THEN "absent"
      ELSE IF finished(e[1]) = {} THEN "unfinished"
      ELSE IF ends < begins THEN "ok" ELSE "inverted"

Unordered(engine) == {e \in Edges(engine.runs) : Ordered(engine.trace, e) # "ok"}
Weakened(n8n, net) == {e \in Edges(n8n.runs) \cap Edges(net.runs) : Ordered(net.trace, e) = "inverted"}
Respected(n8n, net) == Unordered(n8n) \cup Unordered(net) \cup Weakened(n8n, net) = {}

-----------------------------------------------------------------------------
(***************************************************************************)
(* The order the activations ran in, rank by rank.                         *)
(***************************************************************************)
ExecutionOrder(runs) ==
  SetToSortSeq(Activations(runs),
    LAMBDA a, b : \/ TaskOf(runs, a).order < TaskOf(runs, b).order
                  \/ /\ TaskOf(runs, a).order = TaskOf(runs, b).order
                     /\ (a[1] < b[1] \/ (a[1] = b[1] /\ a[2] < b[2])))
Rank(seq, k) == CHOOSE i \in DOMAIN seq : seq[i] = k
MovedAgainst(l, r, k) ==
  IF k \notin Elements(l) \cap Elements(r) THEN {}
  ELSE {o \in (Elements(l) \cap Elements(r)) \ {k} : (Rank(l, o) < Rank(l, k)) # (Rank(r, o) < Rank(r, k))}
Moved(l, r) ==
  {k \in Elements(l) \cup Elements(r) : k \notin Elements(l) \cap Elements(r) \/ Rank(l, k) # Rank(r, k)}
RanOnlyIn(here, there) == Elements(here) \ Elements(there)

\* Nodes with an input that several connections feed, a connection being <<from, out, to, inp>>.
OrInputNodes(connections) ==
  {c[3] : c \in {b \in connections : \E e \in connections \ {b} : e[3] = b[3] /\ e[4] = b[4]}}
JoinActivations(runs) == {k \in Activations(runs) : Len(TaskOf(runs, k).source) > 1}

Context(n8n, net, data, ors, to) ==
  [budget |-> net.budget, permuted |-> data.permuted, stranded |-> data.stranded, starved |-> data.starved,
   joins |-> JoinActivations(n8n.runs) \cup JoinActivations(net.runs),
   edges |-> {<<e[1], e[2]>> : e \in Edges(n8n.runs) \cup Edges(net.runs)},
   stopped |-> net.outcome \in StoppedOutcomes, to |-> to, ors |-> ors]

Divergence(row) == [kind |-> "divergence", row |-> row]
Unattributed == [kind |-> "unattributed", row |-> 0]
Concurrency == [kind |-> "concurrency", row |-> 0]
Unnamed == [kind |-> "unnamed", row |-> 5]

OneSidedRow(x, byNet, c) ==
  First(<<<<2, x \in c.stranded>>, <<1, byNet /\ x \in c.starved>>,
          <<13, ~byNet /\ c.to # {}>>, <<17, byNet /\ c.stopped>>>>)
AttributeOneSided(x, byNet, c) ==
  IF OneSidedRow(x, byNet, c) = {} THEN Unattributed ELSE Divergence(CHOOSE k \in OneSidedRow(x, byNet, c) : TRUE)

Independent(c, a, b) == a \notin Reached(c.edges, b) /\ b \notin Reached(c.edges, a)
AttributeMove(k, against, c) ==
  LET involved == {k} \cup against
      passed == {o \in against : o[1] \in c.permuted}
      row == First(<<<<0, c.budget > 1 /\ \A o \in against : Independent(c, k, o)>>,
                     <<11, k[1] \in c.permuted>>, <<12, involved \cap c.joins # {}>>,
                     <<11, passed # {} /\ passed = against>>, <<20, \E o \in involved : o[1] \in c.ors>>,
                     <<2, \E o \in involved : o[1] \in c.stranded>>>>)
  IN  CASE row = {} -> Unnamed [] row = {0} -> Concurrency [] OTHER -> Divergence(CHOOSE r \in row : TRUE)

\* The last node to run: one-sided for a reason, or the order.
AttributeLast(n8n, net, c) ==
  LET names == n8n.last \cup net.last
      Sides(x) == {side \in {TRUE, FALSE} : x \in DOMAIN (IF side THEN net ELSE n8n).runs}
      causes == First([i \in 1 .. 2 |->
                        LET last == IF i = 1 THEN n8n.last ELSE net.last
                            rows == UNION {OneSidedRow(x, CHOOSE s \in Sides(x) : TRUE, c)
                                           : x \in {y \in last : Cardinality(Sides(y)) = 1}}
                        IN  <<rows, rows # {}>>])
  IN  IF n8n.last = net.last THEN {}
      ELSE IF causes # {} THEN {Divergence(CHOOSE r \in UNION causes : TRUE)}
      ELSE IF n8n.last = {} \/ net.last = {} \/ \E x \in names : Cardinality(Sides(x)) # 2 THEN {Unattributed}
      ELSE {Divergence(IF c.budget > 1 THEN 16 ELSE 5)}

CompareOrdering(n8n, net, data, ors, to) ==
  LET l == ExecutionOrder(n8n.runs)
      r == ExecutionOrder(net.runs)
      c == Context(n8n, net, data, ors, to)
      Attribute(k) == CASE k \in RanOnlyIn(l, r) -> AttributeOneSided(k[1], FALSE, c)
                        [] k \in RanOnlyIn(r, l) -> AttributeOneSided(k[1], TRUE, c)
                        [] OTHER -> AttributeMove(k, MovedAgainst(l, r, k), c)
  IN  [moves |-> {<<k, Attribute(k)>> : k \in Moved(l, r)}, last |-> AttributeLast(n8n, net, c)]

\* diffFixture: what passes is the same, and what fails is a difference no row explains.
Verdict(n8n, net, connections, to) ==
  LET arcs == {<<c[1], c[3]>> : c \in connections}
      data == CompareData(n8n, net, arcs, to)
      order == CompareOrdering(n8n, net, data, OrInputNodes(connections), to)
      reasons == {m[2] : m \in order.moves} \cup order.last
  IN  IF ~Respected(n8n, net) \/ n8n.thrown # net.thrown \/ Unattributed \in reasons \/ data.unattributed # {} THEN "fail"
      ELSE IF data.differences = {} /\ reasons = {} THEN "pass" ELSE "divergent"

=============================================================================
