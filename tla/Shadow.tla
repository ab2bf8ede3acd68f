--------------------------------- MODULE Shadow ---------------------------------
(***************************************************************************)
(* Shadow mode (settlement/shadow.ts): one settlement policy answers, a    *)
(* second runs beside it, and each call is reported with both answers.     *)
(* A policy here is what it reads and answers at a moment of the store;    *)
(* the order within an answer's two lists is left out.                     *)
(*                                                                         *)
(* A side of a call is [answer, rows, reads]: {} for an answer that was    *)
(* thrown, the rows it read, from key to row, and how often it read.  kept *)
(* is what the call before it left for this graph object: {} or the pair   *)
(* of the rows each side had read.                                         *)
(*                                                                         *)
(* Behind it, the differential, which compares the two sides offline.      *)
(***************************************************************************)
EXTENDS SettlementPolicy

\* registerSettlementPolicy: who answers and who is compared, per mode; a mode that reports
\* needs a listener.
Modes == {"primary", "shadow", "primary-shadowed"}
Sides(mode, ours, theirs) ==
  CASE mode = "primary" -> [primary |-> ours, candidate |-> {}]
    [] mode = "shadow" -> [primary |-> theirs, candidate |-> {ours}]
    [] OTHER -> [primary |-> ours, candidate |-> {theirs}]
Registers(mode, listens, readsBack) == mode \in Modes /\ (mode = "primary" \/ listens) /\ readsBack

NamedRace(one, other) ==
  LET Has(status) == \E rows \in {one, other} : \E k \in DOMAIN rows : rows[k].status = status
  IN  CASE Has("failed") -> "failure" [] ~Has("failed") /\ Has("cancelled") -> "cancel" [] OTHER -> "none"

\* A row both sides read, and read differently.
Skew(one, other) == \E k \in DOMAIN one \cap DOMAIN other : one[k] # other[k]

\* Which side's isFinished answered from the snapshot its decideSuccessors had read.
Reused(p, c) ==
  CASE p.reads = 0 -> "primary" [] p.reads # 0 /\ c.reads = 0 /\ c.answer # {} -> "candidate" [] OTHER -> "none"

RowsOf(side, name, reused, kept) ==
  IF reused = name THEN IF kept = {} THEN << >> ELSE (CHOOSE k \in kept : TRUE)[name] ELSE side.rows

\* What a call leaves for the next one on its graph object.
Kept(method, p, c) == IF method = "decideSuccessors" THEN {[primary |-> p.rows, candidate |-> c.rows]} ELSE {}

\* One call, the primary having answered.
ReportOf(method, p, c, kept) ==
  LET reused == IF method = "decideSuccessors" THEN "none" ELSE Reused(p, c)
      primaryRows == RowsOf(p, "primary", reused, kept)
      candidateRows == RowsOf(c, "candidate", reused, kept)
      race == NamedRace(primaryRows, candidateRows)
      reusedSaid == IF reused = "primary" THEN p.answer ELSE c.answer
      verdict == CASE c.answer = {} -> "candidate-threw"
                   [] c.answer = p.answer -> "agree"
                   [] OTHER -> IF race # "none" THEN "race"
                               ELSE IF reused # "none" /\ reusedSaid = {FALSE} THEN "stale" ELSE "disagree"
  IN  [verdict |-> verdict, race |-> IF verdict = "race" THEN race ELSE "none", reused |-> reused,
       skew |-> Skew(primaryRows, candidateRows), primaryRows |-> primaryRows, candidateRows |-> candidateRows]

\* The report of a call, and the answer the handler gets; a primary that throws is not compared.
Shadowed(method, p, c, kept) ==
  [answer |-> p.answer, report |-> IF p.answer = {} THEN {} ELSE {ReportOf(method, p, c, kept)},
   kept |-> IF p.answer = {} THEN kept ELSE Kept(method, p, c)]
-----------------------------------------------------------------------------
(***************************************************************************)
(* The differential (conformance/v2/differential.ts): at a row set that    *)
(* the reference's loop reaches, and over whole runs, the net's side and   *)
(* engine v2's say the same.  A decoder that refuses is a disagreement.    *)
(***************************************************************************)
NetPlanAt(g, rows) == The({IF d = Refused THEN Refused ELSE PlanFromMarking(g, d) : d \in {DecodeStepRows(g, rows)}})

\* compareState: the planner's answer is R(S).
CompareState(g, rows) == NetPlanAt(g, rows) = ReferenceAnswer(g, rows)

\* compareScoped: narrowed to a settled step, it is what the step's handler decides.
CompareScoped(g, rows, settled, net) ==
  net # Refused /\ ScopePlan(net, PolicyCandidates(g, settled, rows))
                     = IF HasFailed(rows) THEN NothingPlanned ELSE HandlerPlan(g, rows, settled)

\* compareFinished: without a failed row, nothing owed means n8n's count is met.
CompareFinished(g, rows, net) == net # Refused /\ (~HasFailed(rows) => (OwesNothing(rows, net) <=> ReferenceFinished(g, rows)))

\* compareFrontier: the frontier, with the settled row, answers as all the rows do.
CompareFrontier(g, rows, settled) ==
  LET frontier == FrontierOf(g, rows)
      read == [k \in DOMAIN frontier \cup settled |-> rows[k]]
      whole == NetPlanAt(g, rows)
  IN  /\ DecodeFrontier(g, frontier) = DecodeStepRows(g, rows)
      /\ FinishedFromRows(frontier, PlanAt(g, frontier)) = FinishedFromRows(rows, whole)
      /\ \A k \in settled : DecideFromRows(g, k, read, PlanAt(g, read)) = DecideFromRows(g, k, rows, whole)

\* runV2 under a behaviour: a run of the net is its marking and the rows read off what it wrote.
NetStart(g) == [marking |-> InitialMarking(g), rows |-> << >>]
PutRow(rows, k, row) == [x \in DOMAIN rows \cup {k} |-> IF x = k THEN row ELSE rows[x]]
Opening(g, s, n, t, places, status) ==
  IF ~IsEnabled(t, s.marking) THEN {}
  ELSE {[marking |-> Fire(t, s.marking, places, {}),
         rows |-> PutRow(s.rows, <<n, Cardinality(PassesOf(s.rows, n))>>, [status |-> status, filled |-> {}])]}

\* A slot is filled when every live its edges write was written; a loop goes on unless it ended.
SlotWritten(g, n, o, written) == {Live(x) : x \in Targets(SlotEdges(g, n, o))} \subseteq written
FilledBy(g, n, written) ==
  CASE IsBatch(g, n) -> IF Ended(n) \notin written THEN {LoopSlot}
                        ELSE {o \in {DoneSlot} \cap Slots(g, n) : SlotWritten(g, n, o, written)}
    [] IsSplit(g, n) -> {}
    [] OTHER -> {o \in Slots(g, n) : SlotWritten(g, n, o, written)}

\* outcomePolicy: the trigger fills slot 0, every other step does what the reference's does.
NetOutcome(g, does, key) ==
  IF NodeOf(key) = g.trigger THEN [status |-> "completed", filled |-> {0}] ELSE Outcome(g, does, key)
RunFired(g, does, s, n) ==
  LET key == <<n, Latest(s.rows, n)>>
      o == NetOutcome(g, does, key)
      written == IF o.status = "failed" THEN FailPlaces(g, n) ELSE RunPlaces(g, n, o.filled)
  IN  [marking |-> Fire(RunOf(g, n), s.marking, written, {}),
       rows |-> PutRow(s.rows, key, [status |-> IF Halt \in written THEN "failed" ELSE "completed",
                                     filled |-> IF Halt \in written THEN {} ELSE FilledBy(g, n, written)])]
Routed(g, does, s, n, o) ==
  LET key == <<n, Latest(s.rows, n)>>
      written == SlotPlaces(SlotEdges(g, n, o), o \in NetOutcome(g, does, key).filled)
  IN  [marking |-> Fire(RouteOf(g, n, o), s.marking, written, {}),
       rows |-> IF SlotWritten(g, n, o, written) THEN [s.rows EXCEPT ![key].filled = @ \cup {o}] ELSE s.rows]

NextFirings(g, does, s) ==
  UNION {Opening(g, s, n, StartOf(g, n, back), {Running(n)}, "running") : <<n, back>> \in {p \in g.nodes \X BOOLEAN : p[2] \in Pairs(g, p[1])}}
  \cup UNION {Opening(g, s, n, SkipOf(g, n, back), SkipPlaces(g, n), "skipped") :
                <<n, back>> \in {p \in (g.nodes \ {g.trigger}) \X BOOLEAN : p[2] \in Pairs(g, p[1])}}
  \cup {RunFired(g, does, s, n) : n \in {x \in g.nodes : s.marking[Running(x)] > 0}}
  \cup {Routed(g, does, s, r[1], r[2]) :
          r \in UNION {{n} \X {o \in Slots(g, n) : IsSplit(g, n) /\ s.marking[Ok(n, o)] > 0} : n \in g.nodes}}

\* comparePoint, where no route is pending: the rows decode to the executor's marking, and plan what
\* it has enabled.
RoutesFired(g, s) == \A n \in g.nodes : IsSplit(g, n) => \A o \in Slots(g, n) : s.marking[Ok(n, o)] = 0
ExecutorPlan(g, s) ==
  PlanFromMarking(g, [marking |-> s.marking, count |-> [n \in g.nodes |-> Cardinality(PassesOf(s.rows, n))]])
ComparePoint(g, s) ==
  \E d \in {DecodeStepRows(g, s.rows)} :
    d # Refused /\ d.marking = s.marking /\ PlanFromMarking(g, d) = ExecutorPlan(g, s)

\* compareRuns: the two ends agree; without a failure so does every step, and the count; with one,
\* every step both decided.
DecidedQueued(row) == row.status # "skipped"
SameSlots(g, n, one, other) == one.filled \cap Slots(g, n) = other.filled \cap Slots(g, n)
SameStep(g, k, one, other) ==
  one.status = other.status /\ (one.status = "completed" => SameSlots(g, NodeOf(k), one, other))
CompareRuns(g, reference, net) ==
  LET both == DOMAIN reference.rows \cap DOMAIN net.rows
      halted == net.marking[Halt] > 0
      Ran(row) == row.status \in {"completed", "failed"}
  IN  /\ reference.end # "running"
      /\ halted <=> reference.end = "failed"
      /\ \A k \in DOMAIN net.rows : net.rows[k].status # "running"
      /\ ~halted => /\ DOMAIN net.rows = DOMAIN reference.rows
                    /\ \A k \in both : SameStep(g, k, net.rows[k], reference.rows[k])
                    /\ SettledSteps(net.rows) = ExpectedSteps(g, net.rows)
      /\ halted => \A k \in both :
                     /\ DecidedQueued(net.rows[k]) = DecidedQueued(reference.rows[k])
                     /\ Ran(net.rows[k]) /\ Ran(reference.rows[k]) => SameStep(g, k, net.rows[k], reference.rows[k])
=============================================================================
