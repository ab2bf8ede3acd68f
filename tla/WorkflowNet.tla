----------------------------- MODULE WorkflowNet -----------------------------
(***************************************************************************)
(* The net of one v1 workflow execution: the per-node gadgets              *)
(* (compiler/gadget), composed over the shared places _budget, _halt and   *)
(* _pause, as the executor plays it.                                       *)
(*                                                                         *)
(* A transition is two steps: it takes its input tokens when it fires and  *)
(* its outputs land when its action completes, in a later cycle, and it is *)
(* at most once in flight.  Between the two the token is in no place.      *)
(* Priorities are left out: they choose among enabled transitions, so      *)
(* every order they allow is a behaviour here.                             *)
(*                                                                         *)
(* One activation of a node is a pair <<x, r>>, its r-th run; stage[<<x, r>>]  *)
(* says which place, or which action in flight, holds its token.           *)
(***************************************************************************)
EXTENDS WorkflowGraph

CONSTANTS
  RequestedBudget,  \* k, before the k-safety rule
  MaxRuns,          \* bound: runs of one node the model follows
  StopWorkflow,     \* nodes with onError = stopWorkflow: their outcome can halt
  Retries,          \* node -> maxTries - 1; 0 without retryOnFail
  MayWait,          \* bound: nodes whose run may set waitTill
  MayStop,          \* bound: nodes whose run may stop (destination, timeout)
  MayFail,          \* bound: nodes whose run may fail
  MayAbort          \* whether the host may abort the execution

ASSUME NetAssumption ==
  /\ RequestedBudget \in Nat \ {0} /\ MaxRuns \in Nat \ {0}
  /\ StopWorkflow \subseteq Nodes /\ Retries \in [Nodes -> Nat]
  /\ MayWait \subseteq Nodes /\ MayStop \subseteq Nodes /\ MayFail \subseteq Nodes
  /\ MayAbort \in BOOLEAN

VARIABLES
  budget,    \* tokens on _budget
  halt,      \* whether _halt is marked
  pause,     \* whether _pause is marked
  closed,    \* whether the executor was closed by an abort: nothing fires any more
  idle,      \* node -> tokens on X/idle
  tries,     \* node -> tokens on X/tries
  stage,     \* activation -> where its token is
  data,      \* edge -> tokens on its data place (0: the trigger's synthetic X/in)
  empty,     \* edge -> tokens on its empty place
  arming,    \* the <<edge, variant>> arms in flight
  free,      \* join slot -> tokens on X/free_i
  ready,     \* <<join slot, variant>> -> arrivals resting on X/ready_i
  hasdata,   \* node -> tokens on X/hasdata
  arrived,   \* OR node -> tokens on X/ready_i, the round's deliveries
  ran,       \* OR node -> tokens on X/ran_i
  skipping,  \* nodes whose X_skip is in flight
  skipped    \* node -> tokens on X/skipped

control == <<halt, pause, closed>>
runSide == <<budget, idle, tries, stage>>
inputSide == <<data, empty, arming, free, ready, hasdata, arrived, ran>>
skipSide == <<skipping, skipped>>
vars == <<control, runSide, inputSide, skipSide>>

Variants == {"data", "empty"}
Runs == 1 .. MaxRuns
Activations == Nodes \X Runs

\* Stages that hold a unit of the concurrency budget, in a place or in flight.
UnitStages == {"starting", "running", "executing", "routed", "refunding",
               "retry", "retrying", "exhausting"}

\* Stages in which the node is the one run its X/idle allows.
BusyStages == {"starting", "running", "executing", "retrying"}

Stages == UnitStages \cup {"none", "done", "waiting", "stopped", "halted"}

Started(x) == {r \in Runs : stage[<<x, r>>] # "none"}
IsDone(x) == \E r \in Runs : stage[<<x, r>>] = "done"

JoinNodes == {x \in Nodes : Forms[x] \in {"join", "choose-branch"}}
SlotsOf == [x \in Nodes |-> IF x \in JoinNodes THEN {<<x, i>> : i \in InputIndexes[x]} ELSE {}]
Slots == UNION {SlotsOf[x] : x \in JoinNodes}
SlotOf(e) == <<Conn[e].to, Conn[e].inp>>

\* Edges whose tokens an arm moves onto the consumer's slot; the rest are X/in itself.
ArmedEdges == {e \in Edges : Forms[Conn[e].to] # "direct"}

InPlaces(x) == IF Incoming(x) = {} /\ x = Trigger THEN {0} ELSE Incoming(x)

\* k, after the k-safety rule.
Units == EffectiveBudget(RequestedBudget)

\* An OR round is over when every empty-capable producer delivered once.
Round == [x \in Nodes |-> Cardinality(Incoming(x) \cap TreeEdges)]

Minus(f, S) == [k \in DOMAIN f |-> IF k \in S THEN f[k] - 1 ELSE f[k]]
Plus(f, S) == [k \in DOMAIN f |-> IF k \in S THEN f[k] + 1 ELSE f[k]]

-----------------------------------------------------------------------------
(***************************************************************************)
(* The initial marking: the shared one, then the trigger's activation.     *)
(***************************************************************************)

\* A slot every producer of which is unreachable starts filled with an empty.
SeedEmpty(p) ==
  LET into == {e \in Edges : SlotOf(e) = p}
  IN  /\ p[1] \in Reachable /\ into # {}
      /\ \A e \in into : Conn[e].from \notin Reachable

UnreachableProducers(x) ==
  Cardinality({e \in Incoming(x) \cap TreeEdges : Conn[e].from \notin Reachable})

TriggerIs(x, form) == x = Trigger /\ Forms[x] = form
TriggerSlots == SlotsOf[Trigger]

Init ==
  /\ budget = Units
  /\ halt = FALSE /\ pause = FALSE /\ closed = FALSE
  /\ idle = [x \in Nodes |-> 1]
  /\ tries = Retries
  /\ stage = [a \in Activations |-> "none"]
  /\ data = [e \in Edges \cup {0} |->
               IF Forms[Trigger] = "direct" /\ e \in InPlaces(Trigger) THEN 1 ELSE 0]
  /\ empty = [e \in Edges |-> 0]
  /\ arming = {}
  /\ free = [p \in Slots |-> IF SeedEmpty(p) \/ p \in TriggerSlots THEN 0 ELSE 1]
  /\ ready = [q \in Slots \X Variants |->
                IF \/ q[1] \in TriggerSlots /\ q[2] = "data"
                   \/ q[1] \notin TriggerSlots /\ SeedEmpty(q[1]) /\ q[2] = "empty"
                  THEN 1 ELSE 0]
  /\ hasdata = [x \in Nodes |-> IF TriggerIs(x, "or") \/ TriggerIs(x, "join") THEN 1 ELSE 0]
  /\ arrived = [x \in Nodes |->
                  IF Forms[x] = "or" /\ x \in Reachable THEN UnreachableProducers(x) ELSE 0]
  /\ ran = [x \in Nodes |-> 0]
  /\ skipping = {}
  /\ skipped = [x \in Nodes |-> IF x \in SeededSkipped THEN 1 ELSE 0]

-----------------------------------------------------------------------------
(***************************************************************************)
(* The arcs every gadget shares.  Work in progress is delivered whatever   *)
(* the run's state; arms, skips and last tries stop at a halt; new starts  *)
(* and retries at a pause as well.  An aborted executor fires nothing.     *)
(***************************************************************************)

DeliveringUnpaused == ~closed /\ ~pause
Delivering == ~closed

DecidingHalted == ~closed
Deciding == ~closed /\ ~halt

StartingPaused == Deciding
Starting == Deciding /\ ~pause

RefundForgotten == UNCHANGED budget
Refund == budget' = budget + 1

-----------------------------------------------------------------------------
(***************************************************************************)
(* X_start and X_start_unmet_k.                                            *)
(***************************************************************************)

\* One arrival per slot of x, whichever variant each slot holds.
Arrivals(x) == {v \in [SlotsOf[x] -> Variants] : \A p \in SlotsOf[x] : ready[<<p, v[p]>>] > 0}
TakenFrom(v) == {<<p, v[p]>> : p \in DOMAIN v}
RequiredData(x, v) == \A p \in SlotsOf[x] : p[2] \in Required[x] => v[p] = "data"

\* all(X/hasdata): one start answers every data arrival of its slots.
ClearOneHasdata(x) == hasdata' = Minus(hasdata, {x})
ClearHasdata(x) == hasdata' = [hasdata EXCEPT ![x] = 0]

TakeActivation(x) ==
  \/ /\ Forms[x] = "direct"
     /\ \E e \in InPlaces(x) : data[e] > 0 /\ data' = Minus(data, {e})
     /\ UNCHANGED <<ready, hasdata>>
  \/ /\ Forms[x] = "or"
     /\ hasdata[x] > 0 /\ hasdata' = Minus(hasdata, {x})
     /\ UNCHANGED <<data, ready>>
  \/ /\ Forms[x] = "join"
     /\ hasdata[x] > 0 /\ ClearHasdata(x)
     /\ \E v \in Arrivals(x) : ready' = Minus(ready, TakenFrom(v))
     /\ UNCHANGED data
  \/ /\ Forms[x] = "choose-branch"
     /\ \E v \in Arrivals(x) : RequiredData(x, v) /\ ready' = Minus(ready, TakenFrom(v))
     /\ UNCHANGED <<data, hasdata>>

\* X_start reads every guarded reference's done, a twin reads one reference's skipped.
ReferencesMet(x) == \A y \in Guarded[x] : IsDone(y)
ReferenceUnmet(x) == \E y \in Guarded[x] : skipped[y] > 0

Start(x, r) ==
  /\ Starting
  /\ budget > 0 /\ idle[x] > 0
  /\ r \notin Started(x) /\ 1 .. (r - 1) \subseteq Started(x)
  /\ ReferencesMet(x) \/ ReferenceUnmet(x)
  /\ TakeActivation(x)
  /\ budget' = budget - 1
  /\ idle' = Minus(idle, {x})
  /\ stage' = [stage EXCEPT ![<<x, r>>] = "starting"]
  /\ UNCHANGED <<control, tries, empty, arming, free, arrived, ran, skipSide>>

\* The start's outputs: X/running, the OR round's ran marker, the join slots' refunds.
StartLands(x, r) ==
  /\ stage[<<x, r>>] = "starting"
  /\ stage' = [stage EXCEPT ![<<x, r>>] = "running"]
  /\ ran' = IF Forms[x] = "or" THEN Plus(ran, {x}) ELSE ran
  /\ free' = Plus(free, SlotsOf[x])
  /\ UNCHANGED <<control, budget, idle, tries, data, empty, arming, ready, hasdata, arrived, skipSide>>

-----------------------------------------------------------------------------
(***************************************************************************)
(* X_run and its outcomes, X_done, and the retry gadget.                   *)
(***************************************************************************)

Run(x, r) ==
  /\ Delivering
  /\ stage[<<x, r>>] = "running"
  /\ stage' = [stage EXCEPT ![<<x, r>>] = "executing"]
  /\ UNCHANGED <<control, budget, idle, tries, inputSide, skipSide>>

\* X_run and X_exhausted offer the same outcomes; only X_run holds X/idle.
Settling(x, r) == stage[<<x, r>>] \in {"executing", "exhausting"}
ReleaseIdle(x, r) == idle' = IF stage[<<x, r>>] = "executing" THEN Plus(idle, {x}) ELSE idle
Settle(x, r, s) == stage' = [stage EXCEPT ![<<x, r>>] = s]

(***************************************************************************)
(* A successful run: data on every edge of a live output; of the others,   *)
(* empties from an acyclic producer and nothing but a nil token, which a   *)
(* sink drops, from one inside a cycle.  In its last modelled run a node   *)
(* sends nothing round a cycle.                                            *)
(***************************************************************************)
DataEdges(x, live) == {e \in Outgoing(x) : Conn[e].out \in live}
EmptyEdges(x, live) == IF x \in Cyclic THEN {} ELSE Outgoing(x) \ DataEdges(x, live)
LastRun(r, live, x) == r = MaxRuns => DataEdges(x, live) \subseteq TreeEdges

RunSucceeds(x, r, live) ==
  /\ Settling(x, r) /\ LastRun(r, live, x)
  /\ data' = Plus(data, DataEdges(x, live))
  /\ empty' = Plus(empty, EmptyEdges(x, live))
  /\ Settle(x, r, "routed") /\ ReleaseIdle(x, r)
  /\ UNCHANGED <<control, budget, tries, arming, free, ready, hasdata, arrived, ran, skipSide>>

RunRetries(x, r) ==
  /\ x \in MayFail /\ Retries[x] > 0
  /\ stage[<<x, r>>] = "executing"
  /\ Settle(x, r, "retry") /\ ReleaseIdle(x, r)
  /\ UNCHANGED <<control, budget, tries, inputSide, skipSide>>

RunHalts(x, r) ==
  /\ Settling(x, r) /\ x \in StopWorkflow \cap MayFail
  /\ Settle(x, r, "halted") /\ ReleaseIdle(x, r)
  /\ halt' = TRUE /\ Refund
  /\ UNCHANGED <<pause, closed, tries, inputSide, skipSide>>

RunPauses(x, r, s) ==
  /\ Settling(x, r)
  /\ \/ s = "waiting" /\ x \in MayWait
     \/ s = "stopped" /\ x \in MayStop
  /\ Settle(x, r, s) /\ ReleaseIdle(x, r)
  /\ pause' = TRUE /\ Refund
  /\ UNCHANGED <<halt, closed, tries, inputSide, skipSide>>

\* X_done refunds the unit one cycle after the edge tokens landed.
Done(x, r) ==
  /\ Delivering
  /\ stage[<<x, r>>] = "routed" /\ \A q \in Runs : stage[<<x, q>>] # "refunding"
  /\ Settle(x, r, "refunding")
  /\ UNCHANGED <<control, budget, idle, tries, inputSide, skipSide>>

DoneLands(x, r) ==
  /\ stage[<<x, r>>] = "refunding"
  /\ Settle(x, r, "done") /\ Refund
  /\ UNCHANGED <<control, idle, tries, inputSide, skipSide>>

\* The two ways out of X/retry: X_retry_wait takes a try, X_exhausted inhibits on one.
TryAssumed(x) == TRUE
TryLeft(x) == tries[x] > 0

RetryWait(x, r) ==
  /\ Starting
  /\ stage[<<x, r>>] = "retry" /\ TryLeft(x) /\ idle[x] > 0
  /\ Settle(x, r, "retrying")
  /\ tries' = Minus(tries, {x}) /\ idle' = Minus(idle, {x})
  /\ UNCHANGED <<control, budget, inputSide, skipSide>>

RetryLands(x, r) ==
  /\ stage[<<x, r>>] = "retrying"
  /\ Settle(x, r, "running")
  /\ UNCHANGED <<control, budget, idle, tries, inputSide, skipSide>>

Exhausted(x, r) ==
  /\ Deciding
  /\ stage[<<x, r>>] = "retry" /\ ~TryLeft(x)
  /\ \A q \in Runs : stage[<<x, q>>] # "exhausting"
  /\ Settle(x, r, "exhausting")
  /\ UNCHANGED <<control, budget, idle, tries, inputSide, skipSide>>

-----------------------------------------------------------------------------
(***************************************************************************)
(* The arms: an edge token onto its OR round or its join slot.             *)
(***************************************************************************)

\* A join slot takes one arrival at a time; an OR round takes every delivery.
SlotTakenUnasked(e) == free' = IF SlotOf(e) \in Slots THEN [free EXCEPT ![SlotOf(e)] = 0] ELSE free
TakeSlot(e) ==
  IF SlotOf(e) \in Slots
    THEN free[SlotOf(e)] > 0 /\ free' = Minus(free, {SlotOf(e)})
    ELSE UNCHANGED free

Arm(e, v) ==
  /\ Deciding
  /\ <<e, v>> \notin arming
  /\ IF v = "data" THEN data[e] > 0 /\ data' = Minus(data, {e}) /\ UNCHANGED empty
                   ELSE empty[e] > 0 /\ empty' = Minus(empty, {e}) /\ UNCHANGED data
  /\ TakeSlot(e)
  /\ arming' = arming \cup {<<e, v>>}
  /\ UNCHANGED <<control, runSide, ready, hasdata, arrived, ran, skipSide>>

\* The data arrivals X/hasdata counts: an OR round's and a generic join's.
CountsOrDataOnly(e, v) == v = "data" /\ Forms[Conn[e].to] = "or"
CountsData(e, v) == v = "data" /\ Forms[Conn[e].to] \in {"or", "join"}

\* Only a tree edge counts towards an OR round.
ArmLands(e, v) ==
  LET x == Conn[e].to IN
  /\ <<e, v>> \in arming
  /\ arming' = arming \ {<<e, v>>}
  /\ ready' = IF SlotOf(e) \in Slots THEN Plus(ready, {<<SlotOf(e), v>>}) ELSE ready
  /\ arrived' = IF Forms[x] = "or" /\ e \in TreeEdges THEN Plus(arrived, {x}) ELSE arrived
  /\ hasdata' = IF CountsData(e, v) THEN Plus(hasdata, {x}) ELSE hasdata
  /\ UNCHANGED <<control, runSide, data, empty, free, ran, skipSide>>

-----------------------------------------------------------------------------
(***************************************************************************)
(* X_skip per form, and the OR round's X_clear.                            *)
(***************************************************************************)

EmptyCapable(p) == \E e \in TreeEdges : SlotOf(e) = p

\* canSkip: an empty token can arrive where it decides the activation.
HasSkip(x) ==
  CASE Forms[x] = "direct" -> Incoming(x) \cap TreeEdges # {}
    [] Forms[x] = "or" -> TRUE
    [] Forms[x] = "join" -> \E p \in SlotsOf[x] : EmptyCapable(p)
    [] OTHER -> \E p \in SlotsOf[x] : p[2] \in Required[x] /\ EmptyCapable(p)

(***************************************************************************)
(* An OR round whose producers all delivered and whose runs have started   *)
(* and landed: X/idle is read, because a start in flight has taken hasdata *)
(* and not yet marked ran.                                                 *)
(***************************************************************************)
RoundOver(x) == arrived[x] >= Round[x] /\ hasdata[x] = 0 /\ idle[x] > 0

TakeEmpties(x) ==
  \/ /\ Forms[x] = "direct"
     /\ \E e \in Incoming(x) : empty[e] > 0 /\ empty' = Minus(empty, {e})
     /\ UNCHANGED <<ready, arrived>>
  \/ /\ Forms[x] = "or"
     /\ RoundOver(x) /\ ran[x] = 0
     /\ arrived' = [arrived EXCEPT ![x] = @ - Round[x]]
     /\ UNCHANGED <<empty, ready>>
  \/ /\ Forms[x] = "join"
     /\ hasdata[x] = 0
     /\ \E v \in Arrivals(x) : ready' = Minus(ready, TakenFrom(v))
     /\ UNCHANGED <<empty, arrived>>
  \/ /\ Forms[x] = "choose-branch"
     /\ \E v \in Arrivals(x) : ~RequiredData(x, v) /\ ready' = Minus(ready, TakenFrom(v))
     /\ UNCHANGED <<empty, arrived>>

Skip(x) ==
  /\ Deciding
  /\ HasSkip(x) /\ x \notin skipping
  /\ TakeEmpties(x)
  /\ skipping' = skipping \cup {x}
  /\ UNCHANGED <<control, runSide, data, arming, free, hasdata, ran, skipped>>

SkipLands(x) ==
  /\ x \in skipping
  /\ skipping' = skipping \ {x}
  /\ skipped' = Plus(skipped, {x})
  /\ empty' = IF x \in SkipForwards THEN Plus(empty, Outgoing(x) \cap TreeEdges) ELSE empty
  /\ free' = Plus(free, SlotsOf[x])
  /\ UNCHANGED <<control, runSide, data, arming, ready, hasdata, arrived, ran>>

Clear(x) ==
  /\ Deciding
  /\ Forms[x] = "or"
  /\ RoundOver(x) /\ ran[x] > 0
  /\ arrived' = [arrived EXCEPT ![x] = @ - Round[x]]
  /\ ran' = [ran EXCEPT ![x] = 0]
  /\ UNCHANGED <<control, runSide, data, empty, arming, free, ready, hasdata, skipSide>>

-----------------------------------------------------------------------------

\* host.abortSignal closes the executor: what is in flight finishes, nothing fires.
Abort ==
  /\ MayAbort /\ ~closed
  /\ closed' = TRUE
  /\ UNCHANGED <<halt, pause, runSide, inputSide, skipSide>>

Fire ==
  \/ \E x \in Nodes, r \in Runs : Start(x, r) \/ Run(x, r) \/ Done(x, r) \/ RetryWait(x, r) \/ Exhausted(x, r)
  \/ \E e \in ArmedEdges, v \in Variants : Arm(e, v)
  \/ \E x \in Nodes : Skip(x) \/ Clear(x)

Land ==
  \/ \E x \in Nodes, r \in Runs :
       \/ StartLands(x, r)
       \/ \E live \in SUBSET Outputs(x) : RunSucceeds(x, r, live)
       \/ RunRetries(x, r)
       \/ RunHalts(x, r)
       \/ \E s \in {"waiting", "stopped"} : RunPauses(x, r, s)
       \/ DoneLands(x, r)
       \/ RetryLands(x, r)
  \/ \E e \in ArmedEdges, v \in Variants : ArmLands(e, v)
  \/ \E x \in Nodes : SkipLands(x)

Next == Fire \/ Land \/ Abort

Spec == Init /\ [][Next]_vars

(***************************************************************************)
(* What the executor leaves when nothing is enabled and nothing in flight, *)
(* said of the marking.  Rest only stutters: with TLC's deadlock check on, *)
(* a state where nothing is enabled and which is not Quiescent is reported *)
(* as a deadlock; that a quiescent one enables nothing is QuiescentIsStill. *)
(***************************************************************************)
InFlight == {"starting", "executing", "refunding", "retrying", "exhausting"}

TokenRests(x, r) ==
  LET s == stage[<<x, r>>] IN
  /\ s \notin InFlight
  /\ s \in {"running", "routed"} => ~Delivering
  /\ s = "retry" => IF TryLeft(x) THEN ~Starting \/ idle[x] = 0 ELSE ~Deciding

\* What X_start, an arm, X_skip and X_clear find on the input side.
Takeable(x) ==
  \/ Forms[x] = "direct" /\ \E e \in InPlaces(x) : data[e] > 0
  \/ Forms[x] = "or" /\ hasdata[x] > 0
  \/ Forms[x] = "join" /\ hasdata[x] > 0 /\ Arrivals(x) # {}
  \/ Forms[x] = "choose-branch" /\ \E v \in Arrivals(x) : RequiredData(x, v)

Startable(x) ==
  /\ Takeable(x) /\ ~(Runs \subseteq Started(x))
  /\ budget > 0 /\ idle[x] > 0 /\ (ReferencesMet(x) \/ ReferenceUnmet(x))

Armable(e, v) ==
  /\ IF v = "data" THEN data[e] > 0 ELSE empty[e] > 0
  /\ SlotOf(e) \in Slots => free[SlotOf(e)] > 0

Skippable(x) ==
  /\ HasSkip(x)
  /\ \/ Forms[x] = "direct" /\ \E e \in Incoming(x) : empty[e] > 0
     \/ Forms[x] = "or" /\ RoundOver(x) /\ ran[x] = 0
     \/ Forms[x] = "join" /\ hasdata[x] = 0 /\ Arrivals(x) # {}
     \/ Forms[x] = "choose-branch" /\ \E v \in Arrivals(x) : ~RequiredData(x, v)

Clearable(x) == Forms[x] = "or" /\ RoundOver(x) /\ ran[x] > 0

Quiescent ==
  /\ arming = {} /\ skipping = {}
  /\ \A x \in Nodes, r \in Runs : TokenRests(x, r)
  /\ Starting => \A x \in Nodes : ~Startable(x)
  /\ Deciding => /\ \A e \in ArmedEdges, v \in Variants : ~Armable(e, v)
                 /\ \A x \in Nodes : ~Skippable(x) /\ ~Clearable(x)

Rest == Quiescent /\ UNCHANGED vars

\* The executor's loop fires while anything is enabled, every action completes, and a
\* run ends only at rest.
FairSpec == Init /\ [][Next \/ Rest]_vars /\ WF_vars(Fire \/ Land)

-----------------------------------------------------------------------------
(***************************************************************************)
(* Properties.                                                             *)
(***************************************************************************)

TypeOK ==
  /\ budget \in Nat /\ halt \in BOOLEAN /\ pause \in BOOLEAN /\ closed \in BOOLEAN
  /\ idle \in [Nodes -> Nat] /\ tries \in [Nodes -> Nat]
  /\ stage \in [Activations -> Stages]
  /\ data \in [Edges \cup {0} -> Nat] /\ empty \in [Edges -> Nat]
  /\ arming \subseteq ArmedEdges \X Variants
  /\ free \in [Slots -> Nat] /\ ready \in [Slots \X Variants -> Nat]
  /\ hasdata \in [Nodes -> Nat] /\ arrived \in [Nodes -> Nat] /\ ran \in [Nodes -> Nat]
  /\ skipping \subseteq Nodes /\ skipped \in [Nodes -> Nat]

(***************************************************************************)
(* _budget + running + retry + routed = k (ADR 0004): a unit taken by a    *)
(* start is back exactly once, by done, halt, wait or stop, however many   *)
(* retries the activation went through and whatever was paused meanwhile.  *)
(***************************************************************************)
Holders == {a \in Activations : stage[a] \in UnitStages}
BudgetConserved == budget + Cardinality(Holders) = Units

\* A node executes one activation at a time: X/idle is its mutex, given back when
\* the attempt settles and never by the exhausted try, which does not hold it.
RunsIn(x, S) == {r \in Runs : stage[<<x, r>>] \in S}
OneRunPerNode == \A x \in Nodes : idle[x] + Cardinality(RunsIn(x, BusyStages)) = 1

(***************************************************************************)
(* A join slot is free, filled once, on its way to being filled, or on its *)
(* way to being free: a second producer's token waits on its edge place.   *)
(***************************************************************************)
Refunding(x) == Cardinality(RunsIn(x, {"starting"}))
                + (IF x \in skipping THEN 1 ELSE 0)
SlotHoldsOneArrival ==
  \A p \in Slots :
    free[p] + ready[<<p, "data">>] + ready[<<p, "empty">>] + Refunding(p[1])
      + Cardinality({a \in arming : SlotOf(a[1]) = p}) = 1

\* Skipping a generic join consumes no data arrival, in any order of its arms:
\* X_skip cannot tell the variants apart, only X/hasdata keeps it out.
SkipTakesNoData ==
  [][\A x \in (skipping' \ skipping) : \A p \in SlotsOf[x] :
       Forms[x] = "join" => ready'[<<p, "data">>] = ready[<<p, "data">>]]_vars

(***************************************************************************)
(* Dead path elimination decides a node one way: it runs or is skipped,    *)
(* never both, and at most once unless an OR gives it a run per delivery.  *)
(* Nodes downstream of a cycle or of an OR node are fed once per run.      *)
(***************************************************************************)
FedOnce == {x \in Nodes : \A y \in WalkBack({x}) \ {x} : y \notin Cyclic /\ Forms[y] # "or"}
SkipCount(x) == skipped[x] + (IF x \in skipping THEN 1 ELSE 0)
DecidedOneWay ==
  \A x \in FedOnce \ Cyclic :
    /\ SkipCount(x) > 0 => Started(x) = {}
    /\ SkipCount(x) <= 1
    /\ Forms[x] # "or" => Cardinality(Started(x)) <= 1

\* The k-safety rule: once some node has run twice, its runs never overlap
\* another's, because outputs are paired by position.
RepeatsRunAlone ==
  (\E x \in Nodes : Cardinality(Started(x)) > 1) => Cardinality(Holders) <= 1

\* Once halted, what has arrived stays where it is: it is the pending stack that is
\* written back, and a node is not skipped or started behind the failure's back.
HaltKeepsArrivals ==
  [][halt => /\ \A e \in DOMAIN data : data'[e] >= data[e]
             /\ \A e \in Edges : empty'[e] >= empty[e]
             /\ \A q \in DOMAIN ready : ready'[q] >= ready[q]
             /\ \A x \in Nodes : hasdata'[x] >= hasdata[x] /\ arrived'[x] >= arrived[x]]_vars

(***************************************************************************)
(* The net implements Execution: its k is the bound on what is held, X/idle *)
(* the node's mutex, X/tries its retries, and whichever of _halt, _pause   *)
(* and an abort comes first ends all starting and retrying, while what is  *)
(* in flight still settles.                                                *)
(***************************************************************************)
Life(s) ==
  CASE s = "none" -> "pending"
    [] s \in BusyStages -> "running"
    [] s \in UnitStages \ BusyStages -> "held"
    [] s = "done" -> "done"
    [] OTHER -> "aside"

Exec == INSTANCE Execution WITH
  Limit <- Units, life <- [a \in Activations |-> Life(stage[a])],
  stopping <- halt \/ pause \/ closed

ImplementsExecution == Exec!Spec

(***************************************************************************)
(* The premise of codec/encode.ts's assertDrained: a pause or a completion *)
(* leaves no activation between two places, no empty a direct node or an   *)
(* OR round has not taken, and a retry only where the pause caught it.     *)
(***************************************************************************)
QuiescentIsDrained ==
  (~halt /\ ~closed /\ Quiescent) =>
    /\ \A a \in Activations : stage[a] \in {"none", "done", "waiting", "stopped", "retry"}
    /\ ~pause => \A a \in Activations : stage[a] # "retry"
    /\ \A e \in Edges : Forms[Conn[e].to] = "direct" => empty[e] = 0
    /\ \A e \in Edges : Forms[Conn[e].to] = "or" => data[e] = 0 /\ empty[e] = 0

(***************************************************************************)
(* A run that ends by itself strands nothing: every arrival was consumed,  *)
(* every OR round is closed and every slot is free again.                  *)
(***************************************************************************)
CompletesClean ==
  (~halt /\ ~pause /\ ~closed /\ Quiescent) =>
    /\ \A a \in Activations : stage[a] \in {"none", "done"}
    /\ \A e \in DOMAIN data : data[e] = 0
    /\ \A e \in Edges : empty[e] = 0
    /\ \A p \in Slots : p[1] \in Reachable => free[p] = 1
    /\ \A x \in Nodes \cap Reachable : hasdata[x] = 0 /\ arrived[x] = 0 /\ ran[x] = 0

\* Every node somebody listens to is decided, under the executor's own fairness,
\* unless the run was halted, paused or aborted first.
EveryNodeDecided ==
  <>(\/ halt \/ pause \/ closed
     \/ \A x \in SkipObservers \cap Reachable : IsDone(x) \/ skipped[x] > 0)

=============================================================================
