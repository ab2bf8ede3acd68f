--------------------------- MODULE NetShapeChecks ---------------------------
(***************************************************************************)
(* The compiled net over small workflows of three nodes: what the code     *)
(* asserts of it, what its comments promise, and how every run of it can   *)
(* end.  Evaluated by TLC at start-up.                                     *)
(***************************************************************************)
LOCAL INSTANCE NetShape

LOCAL Three == 1 .. 3
LOCAL Free == [count |-> {}, list |-> {}]
LOCAL Plain ==
  [onError |-> "stopWorkflow", inputs |-> 2, outputs |-> 2, required |-> Free, refs |-> <<>>, rounds |-> {}, calls |-> {},
   steps |-> <<>>, deadline |-> FALSE, retries |-> {}, loop |-> FALSE]
\* What one node of a workflow is like: each feature the gadget has a part for.
LOCAL Features ==
  {Plain,
   [Plain EXCEPT !.retries = {2}, !.onError = "continueRegularOutput"],
   [Plain EXCEPT !.steps = <<"retry", "route">>, !.deadline = TRUE],
   [Plain EXCEPT !.steps = <<"stop">>, !.refs = <<1, 2>>, !.onError = "continueRegularOutput"],
   [Plain EXCEPT !.required = [count |-> {2}, list |-> {}]],
   [Plain EXCEPT !.required = [count |-> {}, list |-> {<<0>>}], !.refs = <<3>>, !.loop = TRUE]}
LOCAL ANode(x, feature) ==
  [name |-> x, id |-> x, pos |-> <<x, x>>, onError |-> feature.onError, inputs |-> feature.inputs,
   outputs |-> feature.outputs, required |-> feature.required, refs |-> feature.refs, rounds |-> feature.rounds,
   calls |-> feature.calls, steps |-> feature.steps, deadline |-> feature.deadline, retries |-> feature.retries,
   loop |-> feature.loop]
LOCAL Describe(features, connections, tools) ==
  [nodes |-> [x \in Three |-> ANode(x, features[x])], connections |-> SetToSeq(connections),
   tools |-> SetToSeq(tools), starts |-> <<1>>]
LOCAL Options == [profile |-> "v1", rounds |-> {}, calls |-> {2}, trigger |-> {}]
LOCAL Featured(x, feature) == [y \in Three |-> IF y = x THEN feature ELSE Plain]

\* A join, an OR input, a fork that closes a cycle, a chain whose tail feeds itself, a join and
\* an OR input partly fed by a node nothing reaches, a trigger in a cycle, and four outputs.
LOCAL Wirings ==
  {{<<1, 0, 2, 0>>, <<1, 0, 3, 0>>, <<2, 1, 3, 1>>},
   {<<1, 0, 2, 0>>, <<1, 1, 3, 0>>, <<2, 0, 3, 0>>},
   {<<1, 0, 2, 0>>, <<2, 0, 3, 0>>, <<2, 1, 3, 1>>, <<3, 0, 2, 0>>},
   {<<1, 0, 2, 1>>, <<2, 0, 3, 0>>, <<3, 0, 3, 0>>},
   {<<1, 0, 2, 0>>, <<1, 1, 2, 1>>, <<3, 0, 2, 0>>}, {<<1, 0, 2, 0>>, <<3, 0, 2, 1>>}, {<<1, 0, 2, 0>>, <<3, 0, 2, 0>>},
   {<<1, 0, 2, 0>>, <<2, 0, 1, 0>>, <<2, 1, 1, 1>>},
   {<<3, 0, 2, 0>>, <<3, 1, 2, 1>>, <<1, 0, 2, 1>>, <<2, 0, 1, 1>>}}
LOCAL Wide == {<<1, 0, 2, 0>>, <<2, 0, 3, 0>>, <<2, 1, 3, 0>>, <<2, 2, 3, 1>>}
LOCAL Described ==
  {Describe(Featured(x, feature), E, {}) : x \in {2, 3}, feature \in Features, E \in Wirings}
  \cup {Describe(Featured(3, feature), E, {<<3, 2>>}) :
          feature \in Features, E \in {{<<1, 0, 3, 0>>}, {<<1, 0, 3, 0>>, <<1, 1, 3, 1>>, <<3, 0, 1, 0>>}}}
  \cup {Describe(Featured(2, [feature EXCEPT !.outputs = 4]), Wide \cup {<<2, 3, x, 0>>}, {}) :
          feature \in Features, x \in {1, 3}}
LOCAL Workflows == {d \in Described : Refusals(d, Options) = {} /\ ~TriggerRefused(Analysed(d, Options))}
LOCAL Analyses == {Analysed(d, Options) : d \in Workflows}

-----------------------------------------------------------------------------
\* compile() asserts it (compile/mapping.ts): every place of the net is mapped once, and so is
\* every transition.  derived-places.ts: asking the inputs or asking the roles is the same.
ASSUME MappedOnce ==
  \A a \in Analyses :
    /\ ~MapRefused(a)
    /\ UNION JoinReadyPlaces(a) = JoinInputPlaces(a) /\ RunningPlaces(a) = OfRole(a, {"running"})

LOCAL Held(weight, S) == FoldSet(LAMBDA p, n : n + weight[p], 0, S)
LOCAL Conserves(a, weight) ==
  \A t \in Net(a) : LET taken == Held(weight, DOMAIN t.take)
                    IN IF t.outs = {} THEN taken = 0 ELSE \A b \in t.outs : Held(weight, b) = taken
LOCAL Weighing(a, S) == [p \in NetPlaces(a) |-> IF p \in S THEN 1 ELSE 0]

\* Every unit of the budget is on _budget or held by exactly one attempt, waiting to be
\* retried, routed or tool round being asked for; every idle token is on its node's idle
\* place or is its one run; and an input's slot is free or holds one arrival.  Each is what
\* one of the net's places is for, and a branch that forgets it would leak the unit.
LOCAL BudgetHolders(f) ==
  LET outputs == Connected(f)
      o == CHOOSE p \in outputs : TRUE
      chain == DOMAIN f.steps
  IN  {Running(f, k) : k \in chain \cup {1}} \cup {RunningFailed(f), Retry(f), RoutedReq(f)}
      \cup {Failed(f, k) : k \in chain} \cup {TimedOut(f, k) : k \in chain}
      \cup (IF Split(f) THEN {OkOf(f, o), RoutedOf(f, o)} ELSE {Routed(f)})
LOCAL RunHolders(f) == {Idle(f), RunningFailed(f)} \cup {Running(f, k) : k \in DOMAIN f.steps \cup {1}}
LOCAL SlotHolders(f, i) == {FreeOf(f, i), ReadySlot(f, i, "data"), ReadySlot(f, i, "empty")}
LOCAL Facts(a) == {a.node[x] : x \in DOMAIN a.node}

ASSUME UnitsAreConserved ==
  \A a \in Analyses :
    /\ Conserves(a, Weighing(a, {Budget} \cup UNION {BudgetHolders(f) : f \in Facts(a)}))
    /\ \A f \in Facts(a) :
         /\ Conserves(a, Weighing(a, RunHolders(f)))
         /\ Slotted(f) => \A i \in Inputs(f) : Conserves(a, Weighing(a, SlotHolders(f, i)))

\* compose.ts: every transition that could move a pending activation on inhibits on _halt, so
\* a halted run quiesces with each arrival where it was delivered; a start inhibits on _pause too.
LOCAL PendingRoles == {"in-data", "in-empty", "edge-data", "edge-empty", "ready", "hasdata", "in-tool", "retry", "queue"}
ASSUME HaltStopsEveryArrival ==
  \A a \in Analyses :
    LET pending == OfRole(a, PendingRoles)
    IN  \A t \in Net(a) :
          /\ DOMAIN t.take \cap pending # {} => Halt \in t.not
          /\ Budget \in DOMAIN t.take => {Halt, Pause} \subseteq t.not

\* The net's Out specs are checked by libpetri when an action has run: what a structural
\* action puts out is one branch of its transition, whatever the outputs carry.
ASSUME ActionsPutOneBranch ==
  \A a \in Analyses : \A x \in DOMAIN a.node :
    LET f == a.node[x]
    IN  \A t \in Gadget(a, f), filled \in SUBSET Connected(f) :
          IF t.outs = {} THEN Puts(a, f, t, filled) = {} ELSE Puts(a, f, t, filled) \in t.outs

\* A marking fits the net: its tokens are on places the net has, one unit a node, one thing a
\* slot, and an execution can take its first step at once.
LOCAL CanFire(t, m) ==
  /\ \A p \in DOMAIN t.take : m[p] >= (IF t.take[p] = 0 THEN 1 ELSE t.take[p])
  /\ \A p \in t.read : m[p] > 0
  /\ \A p \in t.not : m[p] = 0
ASSUME MarkingFits ==
  \A a \in Analyses :
    LET m == InitialMarking(a, 1)
    IN  /\ \A f \in Facts(a) :
             /\ DOMAIN SeedNode(a, f) \cup {Skipped(y) : y \in a.seeded} \subseteq NetPlaces(a)
             /\ Slotted(f) => \A i \in Inputs(f) : Held(m, SlotHolders(f, i) \cap NetPlaces(a)) = 1
        /\ {t.name[1] : t \in {u \in Net(a) : u.role \in {"start", "start-unmet"} /\ CanFire(u, m)}}
             \subseteq {a.trigger} \cup {x \in DOMAIN a.node : ~a.node[x].reachable}

-----------------------------------------------------------------------------
(***************************************************************************)
(* The token game on an acyclic net: every marking it reaches.             *)
(***************************************************************************)
LOCAL Fire(t, m, b) ==
  [p \in DOMAIN m |->
     (IF p \in DOMAIN t.take THEN IF t.take[p] = 0 THEN 0 ELSE m[p] - t.take[p] ELSE m[p])
     + (IF p \in b THEN 1 ELSE 0)]
LOCAL After(net, m) ==
  {Fire(t, m, b) : <<t, b>> \in UNION {{t} \X (IF t.outs = {} THEN {{}} ELSE t.outs) : t \in {u \in net : CanFire(u, m)}}}
LOCAL Longest == 60
LOCAL Reached(net, first) ==
  LET level[i \in 0 .. Longest] ==
        IF i = 0 THEN [seen |-> {first}, new |-> {first}]
        ELSE LET before == level[i - 1]
                 next == UNION {After(net, m) : m \in before.new}
             IN  [seen |-> before.seen \cup next, new |-> next \ before.seen]
  IN  level[Longest].seen

\* A run that neither halts nor pauses completes: nothing is left to move on, the budget and
\* every idle token are back, and each node the trigger reaches is done or skipped, not both.
LOCAL EndsClean(a, m) ==
  /\ \A p \in OfRole(a, PendingRoles) : m[p] = 0
  /\ m[Budget] = 1
  /\ \A f \in Facts(a) :
       /\ m[Idle(f)] = 1
       /\ f.reachable /\ f.form # "tool" =>
            (m[Done(f.name)] > 0) = ~(Skipped(f.name) \in DOMAIN m /\ m[Skipped(f.name)] > 0)
\* Two edges into one input of a join may strand a round of it, which verify reports by itself,
\* and a node that reads the done marker of a join it feeds waits for ever.
LOCAL FedOnce(f) == Slotted(f) => \A i \in Inputs(f) : Cardinality(Feeds(f, i)) <= 1
LOCAL ReadsUpstream(a, f) ==
  \A y \in f.guarded : f.name \notin ObservableFrom({y}, UNION {g.incoming : g \in Facts(a)})
LOCAL Played ==
  {a \in Analyses : \A f \in Facts(a) : ~f.cyclic /\ f.tools = {} /\ FedOnce(f) /\ ReadsUpstream(a, f)}
ASSUME RunsEndClean ==
  \A a \in Played :
    LET net == Net(a)
    IN  \A m \in Reached(net, InitialMarking(a, 1)) :
          m[Halt] + m[Pause] > 0 \/ EndsClean(a, m) \/ \E t \in net : CanFire(t, m)

\* k-safety.ts, for positional pairing: "sound above k = 1 only if every node fires at most once
\* per execution".  With the budget compile() grants of the two asked for, no input ever holds
\* two arrivals, no node runs twice at once or starts again once it is done.
LOCAL FiresOnce(a, m) ==
  \A f \in Facts(a) :
    /\ m[Done(f.name)] + Held(m, {Running(f, k) : k \in DOMAIN f.steps \cup {1}}) <= 1
    /\ \A p \in DOMAIN m : p[1] = f.name /\ p \in EdgeDataPlaces(a) \cup JoinInputPlaces(a) => m[p] <= 1
ASSUME RunsOnceAboveOne ==
  \A a \in Played :
    EffectiveBudget(a, {2}) > 1 => \A m \in Reached(Net(a), InitialMarking(a, 2)) : FiresOnce(a, m)

=============================================================================
