----------------------------- MODULE SettlementNet -----------------------------
(***************************************************************************)
(* The engineV2 net of one execution, run by the executor with the actions *)
(* compiler/actions/settlement.ts binds to it, and the rows                *)
(* conformance/v2/net-run.ts reads back from its firings.  Nothing else    *)
(* schedules: any enabled transition may fire next.  A step's outcome, and *)
(* which output slots it fills, is the environment's choice.               *)
(***************************************************************************)
EXTENDS SettlementReference

CONSTANTS Graphs,     \* from a name to an analysed graph (V2Graph!Analysed)
          MaxPasses   \* bound: a batch node that ran this many steps fills its loop slot no more

(* The validator accepts a graph before the net is built from it (analysis/engine-v2/shape.ts). *)
ASSUME GraphsAssumption == \A x \in DOMAIN Graphs : IsAccepted(Graphs[x])

VARIABLES w,          \* the graph this execution runs
          marking,    \* the net's token counts
          count,      \* rows per node, counts of the action binder's Rows
          rows        \* the rows read back

vars == <<w, marking, count, rows>>
g == Graphs[w]

Init ==
    /\ w \in DOMAIN Graphs
    /\ marking = InitialMarking(g)
    /\ count = NoRows(g)
    /\ rows = [k \in {} |-> [status |-> "queued", filled |-> {}]]

LatestKey(n) == <<n, count[n] - 1>>
IsRunning(n) == marking[Running(n)] > 0

OpenRow(n, status) ==
    /\ count' = [count EXCEPT ![n] = @ + 1]
    /\ rows' = [k \in DOMAIN rows \cup {<<n, count[n]>>} |->
                  IF k = <<n, count[n]>> THEN [status |-> status, filled |-> {}] ELSE rows[k]]

SetRow(n, status, filled) ==
    /\ rows' = [rows EXCEPT ![LatestKey(n)] = [status |-> status, filled |-> filled]]
    /\ UNCHANGED count

(* X_start, B_start_entry and B_start_back. *)
Start(n, back) ==
    /\ back \in Pairs(g, n)
    /\ IsEnabled(StartOf(g, n, back), marking)
    /\ marking' = Fire(StartOf(g, n, back), marking, {Running(n)}, {})
    /\ OpenRow(n, "running")
    /\ UNCHANGED w

(* X_skip, B_skip_entry and B_skip_back; the trigger has none. *)
Skip(n, back) ==
    /\ n # g.trigger
    /\ back \in Pairs(g, n)
    /\ IsEnabled(SkipOf(g, n, back), marking)
    /\ marking' = Fire(SkipOf(g, n, back), marking, SkipPlaces(g, n), {})
    /\ OpenRow(n, "skipped")
    /\ UNCHANGED w

(* X_run completing.  Under split routing the slots are filled by the routes. *)
Complete(n, filled) ==
    /\ IsRunning(n)
    /\ filled \in Fillings(g, n)
    /\ IsSplit(g, n) => filled = {}
    /\ IsBatch(g, n) /\ LoopSlot \in filled => count[n] < MaxPasses
    /\ marking' = Fire(RunOf(g, n), marking, RunPlaces(g, n, filled), {})
    /\ SetRow(n, "completed", filled)
    /\ UNCHANGED w

(* X_run failing. *)
Fail(n) ==
    /\ IsRunning(n)
    /\ n # g.trigger
    /\ marking' = Fire(RunOf(g, n), marking, FailPlaces(g, n), {})
    /\ SetRow(n, "failed", {})
    /\ UNCHANGED w

(* X_route_o: one slot of a split node. *)
Route(n, o, isFilled) ==
    /\ IsSplit(g, n)
    /\ IsEnabled(RouteOf(g, n, o), marking)
    /\ marking' = Fire(RouteOf(g, n, o), marking, SlotPlaces(SlotEdges(g, n, o), isFilled), {})
    /\ SetRow(n, "completed", rows[LatestKey(n)].filled \cup (IF isFilled THEN {o} ELSE {}))
    /\ UNCHANGED w

StartStep == \E n \in g.nodes : \E back \in BOOLEAN : Start(n, back)
SkipStep == \E n \in g.nodes : \E back \in BOOLEAN : Skip(n, back)
CompleteStep == \E n \in g.nodes : \E filled \in Fillings(g, n) : Complete(n, filled)
FailStep == \E n \in g.nodes : Fail(n)
RouteStep == \E n \in g.nodes : \E o \in Slots(g, n) : \E isFilled \in BOOLEAN : Route(n, o, isFilled)

Next == StartStep \/ SkipStep \/ CompleteStep \/ FailStep \/ RouteStep

(* The executor fires while anything is enabled, and every step ends. *)
Spec == Init /\ [][Next]_vars /\ WF_vars(Next)

-----------------------------------------------------------------------------
Halted == marking[Halt] > 0
RoutesPending == \E p \in DOMAIN marking : p[1] = "ok" /\ marking[p] > 0

TypeOK ==
    /\ w \in DOMAIN Graphs
    /\ marking \in [Places(g) -> Nat]
    /\ count \in [g.nodes -> Nat]

(* A row set is read only between firings, with no route pending (net-run.ts's points).  *)
(* Decoding the rows of any point replays to the very marking the net is in, whatever    *)
(* order the firings had, and so does the frontier alone: of a loop its first pass and   *)
(* the last two.                                                                         *)
FrontierIsEnough ==
    ~RoutesPending => {DecodeStepRows(g, rows), DecodeFrontier(g, FrontierOf(g, rows))}
                        = {[marking |-> marking, count |-> count]}

(* What the net plans next is what engine v2's own rule decides from the rows, and the    *)
(* net is drained exactly when n8n counts every step it expects as settled.              *)
PlanIsTheReference ==
    ~RoutesPending /\ DOMAIN rows # {} =>
      LET plan == PlanFromMarking(g, [marking |-> marking, count |-> count])
          drained == (\A n \in g.nodes : ~IsRunning(n)) /\ plan.toQueue \cup plan.toSkip = {}
      IN /\ plan = ReferenceAnswer(g, rows)
         /\ ~Halted => (drained <=> ReferenceFinished(g, rows))

(* The terminal row of a loop is its last: once a loop has ended, nothing of it is in     *)
(* flight and nothing of it can start again.                                              *)
EndedLoopsStay ==
    \A b \in BatchesOf(g) : marking[Ended(b)] > 0 =>
      /\ marking[Ended(b)] = 1
      /\ \A n \in Members(g, b) : ~IsRunning(n)
      /\ \A e \in g.edges : g.class[e] \in {"intra", "back"} /\ g.loop[e.to] = b => marking[Arrived(e)] = 0

(* Outside a failure every step the graph owes is settled in the end. *)
EveryStepSettles == <>(Halted \/ ReferenceFinished(g, rows))
=============================================================================
