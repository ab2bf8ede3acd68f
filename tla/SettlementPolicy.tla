---------------------------- MODULE SettlementPolicy ----------------------------
(***************************************************************************)
(* The net-backed settlement policy (src/settlement/) as pure operators:   *)
(* which keys a snapshot reads, what it decides from the rows it read, and *)
(* whether the execution owes no further step.  The reads themselves are   *)
(* steps of module Settlement.                                             *)
(***************************************************************************)
EXTENDS SettlementReference, Integers

NothingPlanned == [toQueue |-> {}, toSkip |-> {}]
NoRow == -1

(* The latest pass of each of `nodes`, NoRow for one without rows (readLatest). *)
ReadLatest(rows, nodes) == [n \in nodes |-> IF HasRow(rows, n) THEN Latest(rows, n) ELSE NoRow]
ReadByKeys(rows, keys) == [k \in keys \cap DOMAIN rows |-> rows[k]]

(* scopedPasses and probePass, for a batch node that was at pass `last`. *)
ScopedPasses(last) ==
    IF last < 0 THEN {0} ELSE IF last <= 2 THEN 0 .. (last + 1) ELSE {0, last - 1, last, last + 1}
ProbePass(last) == IF last < 0 THEN 1 ELSE last + 2

ProbeKeys(g, batchLatest) == {<<b, ProbePass(batchLatest[b])>> : b \in BatchesOf(g)}

ScopedKeys(g, batchLatest, settled) ==
    {<<n, 0>> : n \in {x \in g.nodes : ~InLoop(g, x)}}
      \cup UNION {Members(g, b) \X ScopedPasses(batchLatest[b]) : b \in BatchesOf(g)}
      \cup ProbeKeys(g, batchLatest) \cup settled

(* readLatestSnapshot: the keys of its second read, given each node's latest pass. *)
OlderKeys(g, latest, settled) ==
    LET known == {n \in DOMAIN latest : latest[n] # NoRow}
    IN FrontierKeys(g, [n \in known |-> latest[n]])
         \cup {k \in settled : NodeOf(k) \in known /\ PassOf(k) < latest[NodeOf(k)]}

(* namedRace. *)
WasCancelled(rows) == (\E k \in DOMAIN rows : rows[k].status = "cancelled") /\ ~HasFailed(rows)

(* candidateKeys: as the reference's, but a key exists when its node's latest row reaches it. *)
PolicyCandidates(g, settled, rows) ==
    LET exists(k) == HasRow(rows, NodeOf(k)) /\ PassOf(k) <= Latest(rows, NodeOf(k))
    IN {k \in {TargetKey(g, e, PassOf(settled)) :
                 e \in {x \in OutOf(NodeOf(settled), g.edges) :
                          IsBatch(g, NodeOf(settled)) /\ settled \in DOMAIN rows
                            => BatchStepDecides(g, x, rows[settled])}} : ~exists(k)}

ScopePlanWhole(plan, candidates) == plan
ScopePlan(plan, candidates) ==
    [toQueue |-> plan.toQueue \cap candidates, toSkip |-> plan.toSkip \cap candidates]

(* planAt, or Refused where the decoder throws. *)
PlanAt(g, rows) ==
    The({IF d = Refused THEN Refused ELSE PlanFromMarking(g, d) : d \in {DecodeFrontier(g, rows)}})

\* The answer to a settlement, given the plan of the rows it read.
DecideFromRows(g, settled, rows, plan) ==
    IF WasCancelled(rows) THEN NothingPlanned
    ELSE IF plan = Refused THEN Refused ELSE ScopePlan(plan, PolicyCandidates(g, settled, rows))

(* isFinished of scope.ts: no failed row, every row settled, nothing left to plan. *)
OwesNothingNew(rows, plan) == ~HasFailed(rows) /\ plan = NothingPlanned
OwesNothing(rows, plan) ==
    /\ ~HasFailed(rows)
    /\ \A k \in DOMAIN rows : rows[k].status \in SettledStatuses
    /\ plan = NothingPlanned

\* The answers to isFinished, given the plan of the rows: one, or none where the decoder throws.
FinishedFromRows(rows, plan) ==
    IF WasCancelled(rows) THEN {FALSE}
    ELSE IF plan = Refused THEN {} ELSE {OwesNothing(rows, plan)}

WithDecided(rows, decided) ==
    [k \in DOMAIN rows \cup decided.toQueue \cup decided.toSkip |->
       IF k \in DOMAIN rows THEN rows[k]
       ELSE [status |-> IF k \in decided.toQueue THEN "queued" ELSE "skipped", filled |-> {}]]

\* The same from the rows a decision was taken from, with what it decided; a step to queue is
\* unsettled, and nothing is decoded.
FinishedAfterDecision(g, rows, decided) ==
    IF decided.toQueue # {} THEN {FALSE}
    ELSE UNION {FinishedFromRows(all, PlanAt(g, all)) : all \in {WithDecided(rows, decided)}}
=============================================================================
