---------------------------- MODULE SettlementProofs ----------------------------
(***************************************************************************)
(* Proofs about the settlements of an execution of engine v2 (Settlement), *)
(* for any graphs and however the handlers interleave.                     *)
(*                                                                         *)
(* Nothing is asked of the decoder: what a settlement decides from the     *)
(* rows it read may be anything.  So these are the guarantees of the       *)
(* handlers and the stores themselves: who owes a row its next status, who *)
(* owes the execution its end, and that neither is taken back.             *)
(***************************************************************************)
EXTENDS Settlement, TLAPS

RowStatuses == {"queued", "running", "waiting"} \cup SettledStatuses
FailPhases == {"fail", "failRows", "failEnd"}
Phases == FailPhases \cup {"guard", "latest", "keyed", "again", "againKeyed", "create", "isFinished", "freshLatest",
                           "freshKeyed", "freshAgain", "freshAgainKeyed", "outcome", "endFailed", "endCompleted",
                           "refresh"}

\* The shape of the stores: what they hold is records, whatever is in their other fields.
Shaped ==
    /\ execution \in LiveStatuses \cup {"completed", "failed", "cancelled"}
    /\ cancel \in {"none", "won", "over"}
    /\ \A k \in DOMAIN rows : "status" \in DOMAIN rows[k] /\ rows[k].status \in RowStatuses
    /\ \A k \in DOMAIN handling : "phase" \in DOMAIN handling[k] /\ Phase(k) \in Phases

\* Every unsettled row is owed its next status by the one who holds it: a queued row by its
\* announcement, a running one by its worker, a waiting one by its resume.  After a failure
\* claimStep takes an announcement and leaves the row.
RowsAreHeld ==
    /\ DOMAIN working \subseteq DOMAIN rows
    /\ \A k \in DOMAIN rows :
         /\ rows[k].status = "queued" => Event("ready", k) \in queue \/ HasFailed(rows)
         /\ rows[k].status = "running" <=> k \in DOMAIN working
         /\ rows[k].status = "waiting" => Event("resume", k) \in queue

\* A failed row is owed the end of the execution by its own settlement.
FailureIsHandled ==
    \A k \in DOMAIN rows : rows[k].status = "failed" =>
      \/ Event("settled", k) \in queue
      \/ k \in DOMAIN handling /\ Phase(k) \in FailPhases
      \/ ~IsLiveExecution

\* A settlement that ends the execution as failed saw a failed row, and an execution that is
\* over as failed or as cancelled has one, or was cancelled.
EndsAreTrue ==
    /\ \A k \in DOMAIN handling :
         /\ Phase(k) \in FailPhases \cup {"endFailed"} => HasFailed(rows)
         /\ Phase(k) = "failRows" => ~IsLiveExecution
    /\ execution = "failed" => HasFailed(rows)
    /\ execution = "cancelled" => cancel # "none"
    /\ cancel # "none" => ~IsLiveExecution

Owed == Shaped /\ RowsAreHeld /\ FailureIsHandled /\ EndsAreTrue

-----------------------------------------------------------------------------
(***************************************************************************)
(* What the operators on the stores keep.                                  *)
(***************************************************************************)
LEMMA EventsDiffer ==
  \A type1, type2, k1, k2 : Event(type1, k1) = Event(type2, k2) <=> type1 = type2 /\ k1 = k2
BY DEF Event

\* The store after a step: rows only come, a settled row is never written again, and each row
\* has a status.
RowsOnlyGrow ==
    /\ \A k \in DOMAIN rows : k \in DOMAIN rows' /\ (rows[k].status \in SettledStatuses => rows'[k] = rows[k])
    /\ \A k \in DOMAIN rows' : "status" \in DOMAIN rows'[k] /\ rows'[k].status \in RowStatuses

LEMMA FailuresStay ==
  ASSUME RowsOnlyGrow PROVE HasFailed(rows) => HasFailed(rows')
BY DEF RowsOnlyGrow, HasFailed, SettledStatuses

LEMMA SameRows ==
  ASSUME Shaped, rows' = rows PROVE RowsOnlyGrow
BY DEF Shaped, RowsOnlyGrow

\* One row changed, which was not settled.
LEMMA OneRowChanges ==
  ASSUME Shaped, NEW k \in DOMAIN rows, rows[k].status \notin SettledStatuses,
         NEW status \in RowStatuses, SetStatus(k, status)
  PROVE  /\ RowsOnlyGrow /\ DOMAIN rows' = DOMAIN rows
         /\ rows'[k].status = status
         /\ \A x \in DOMAIN rows : x # k => rows'[x] = rows[x]
<1>1. DOMAIN rows' = DOMAIN rows
  BY DEF SetStatus
<1>2. \A x \in DOMAIN rows : x # k => rows'[x] = rows[x]
  BY DEF SetStatus
<1>3. "status" \in DOMAIN rows[k]
  BY DEF Shaped
<1>4. rows'[k] = [rows[k] EXCEPT !.status = status]
  BY DEF SetStatus
<1>5. rows'[k].status = status /\ "status" \in DOMAIN rows'[k]
  BY <1>3, <1>4
<1> QED
  BY <1>1, <1>2, <1>5 DEF RowsOnlyGrow, Shaped

LEMMA CancelledStore ==
  ASSUME Shaped, rows' = CancelledPending
  PROVE  /\ RowsOnlyGrow /\ DOMAIN rows' = DOMAIN rows
         /\ \A k \in DOMAIN rows : IF rows[k].status \in {"queued", "waiting"} THEN rows'[k].status = "cancelled"
                                   ELSE rows'[k] = rows[k]
<1>1. DOMAIN rows' = DOMAIN rows
  BY DEF CancelledPending
<1>2. ASSUME NEW k \in DOMAIN rows, rows[k].status \in {"queued", "waiting"}
      PROVE  rows'[k].status = "cancelled" /\ "status" \in DOMAIN rows'[k]
  <2>1. "status" \in DOMAIN rows[k]
    BY DEF Shaped
  <2>2. rows'[k] = [rows[k] EXCEPT !.status = "cancelled"]
    BY <1>2 DEF CancelledPending
  <2> QED
    BY <2>1, <2>2
<1>3. \A k \in DOMAIN rows : rows[k].status \notin {"queued", "waiting"} => rows'[k] = rows[k]
  BY DEF CancelledPending
<1>4. RowsOnlyGrow
  BY <1>1, <1>2, <1>3 DEF RowsOnlyGrow, Shaped, RowStatuses, SettledStatuses
<1> QED
  BY <1>1, <1>2, <1>3, <1>4

\* What a settlement does to the settlements: it goes on to one of `phases`, or it is over.
Advances(k, phases) ==
    /\ k \in DOMAIN handling
    /\ DOMAIN handling' \subseteq DOMAIN handling
    /\ \A x \in DOMAIN handling : x # k => x \in DOMAIN handling' /\ handling'[x] = handling[x]
    /\ k \in DOMAIN handling' => "phase" \in DOMAIN handling'[k] /\ Phase(k)' \in phases

LEMMA GoingOn ==
  ASSUME Shaped, NEW k \in DOMAIN handling, NEW phase, Goto(k, phase)
  PROVE  Advances(k, {phase}) /\ k \in DOMAIN handling'
<1>1. "phase" \in DOMAIN handling[k]
  BY DEF Shaped
<1>2. handling'[k] = [handling[k] EXCEPT !.phase = phase] /\ DOMAIN handling' = DOMAIN handling
  BY DEF Goto
<1>3. \A x \in DOMAIN handling : x # k => handling'[x] = handling[x]
  BY DEF Goto
<1> QED
  BY <1>1, <1>2, <1>3 DEF Advances, Phase

LEMMA BeingOver ==
  ASSUME Shaped, NEW k \in DOMAIN handling, handling' = Without(handling, k)
  PROVE  Advances(k, {}) /\ DOMAIN handling' = DOMAIN handling \ {k}
BY DEF Advances, Without

LEMMA AdvancesWiden ==
  ASSUME NEW k, NEW phases, NEW more, Advances(k, phases), phases \subseteq more
  PROVE  Advances(k, more)
BY DEF Advances

-----------------------------------------------------------------------------
(***************************************************************************)
(* Every step keeps what is owed, one lemma per action.                    *)
(***************************************************************************)
LEMMA InitOwed == Init => Owed
<1> SUFFICES ASSUME Init PROVE Owed
  OBVIOUS
<1>1. /\ DOMAIN rows = {TriggerKey} /\ DOMAIN working = {} /\ DOMAIN handling = {}
      /\ rows[TriggerKey].status = "completed" /\ "status" \in DOMAIN rows[TriggerKey]
      /\ execution = "running" /\ cancel = "none"
  BY DEF Init
<1> QED
  BY <1>1 DEF Owed, Shaped, RowsAreHeld, FailureIsHandled, EndsAreTrue, LiveStatuses, RowStatuses, SettledStatuses,
              IsLiveExecution

\* A settlement that only thinks: it reads, or takes a decision of its own.
Thinks(k, phases) ==
    /\ Advances(k, phases)
    /\ Phase(k) \notin FailPhases
    /\ phases \subseteq Phases \ {"failRows"}
    /\ phases \cap (FailPhases \cup {"endFailed"}) # {} => HasFailed(rows)
    /\ UNCHANGED <<rows, queue, working, cancel>>

LEMMA ThinkingOwed ==
  ASSUME Owed, NEW k, NEW phases, Thinks(k, phases), UNCHANGED execution
  PROVE  Owed'
<1>1. Shaped'
  BY DEF Owed, Shaped, Thinks, Advances, Phase
<1>2. RowsAreHeld'
  BY DEF Owed, RowsAreHeld, Thinks
<1>3. FailureIsHandled'
  BY DEF Owed, FailureIsHandled, Thinks, Advances, Phase, IsLiveExecution
<1>4. EndsAreTrue'
  <2>1. ASSUME NEW x \in DOMAIN handling', Phase(x)' \in FailPhases \cup {"endFailed"}
        PROVE  HasFailed(rows)'
    <3>1. CASE x = k
      BY <2>1, <3>1 DEF Thinks, Advances
    <3>2. CASE x # k
      BY <2>1, <3>2 DEF Thinks, Advances, Phase, Owed, EndsAreTrue
    <3> QED
      BY <3>1, <3>2
  <2>2. ASSUME NEW x \in DOMAIN handling', Phase(x)' = "failRows" PROVE ~IsLiveExecution'
    BY <2>2 DEF Thinks, Advances, Phase, Owed, EndsAreTrue, IsLiveExecution
  <2>3. UNCHANGED <<execution, rows, cancel>>
    BY DEF Thinks
  <2> QED
    BY <2>1, <2>2, <2>3 DEF Owed, EndsAreTrue, IsLiveExecution
<1> QED
  BY <1>1, <1>2, <1>3, <1>4 DEF Owed

LEMMA GuardOwed ==
  ASSUME Owed, NEW k \in DOMAIN handling, Guard(k) PROVE Owed' /\ RowsOnlyGrow
<1> DEFINE phase == IF HasFailed(rows) THEN "fail" ELSE "latest"
<1>1. Goto(k, phase) /\ Phase(k) = "guard" /\ UNCHANGED <<w, rows, execution, queue, working, cancel>>
  BY DEF Guard
<1>2. Advances(k, {phase})
  BY <1>1, GoingOn DEF Owed
<1>3. Thinks(k, {phase})
  BY <1>1, <1>2 DEF Thinks, Phases, FailPhases
<1> QED
  BY <1>1, <1>3, ThinkingOwed, SameRows DEF Owed

LEMMA ReadOutcomeOwed ==
  ASSUME Owed, NEW k \in DOMAIN handling, ReadOutcome(k) PROVE Owed' /\ RowsOnlyGrow
<1> DEFINE phase == IF HasFailed(rows) THEN "endFailed" ELSE "endCompleted"
<1>1. Goto(k, phase) /\ Phase(k) = "outcome" /\ UNCHANGED <<w, rows, execution, queue, working, cancel>>
  BY DEF ReadOutcome
<1>2. Advances(k, {phase})
  BY <1>1, GoingOn DEF Owed
<1>3. Thinks(k, {phase})
  BY <1>1, <1>2 DEF Thinks, Phases, FailPhases
<1> QED
  BY <1>1, <1>3, ThinkingOwed, SameRows DEF Owed

\* The phases a read, a decision or isFinished leads to.
CalmPhases == Phases \ (FailPhases \cup {"endFailed"})

LEMMA GoingCalm ==
  ASSUME Shaped, NEW k \in DOMAIN handling, NEW phase \in CalmPhases, Goto(k, phase)
  PROVE  Advances(k, CalmPhases)
<1>1. Advances(k, {phase})
  BY GoingOn
<1>2. {phase} \subseteq CalmPhases
  OBVIOUS
<1> QED
  BY <1>1, <1>2, AdvancesWiden

LEMMA CalmOwed ==
  ASSUME Owed, NEW k, Advances(k, CalmPhases), Phase(k) \notin FailPhases,
         UNCHANGED <<rows, execution, queue, working, cancel>>
  PROVE  Owed' /\ RowsOnlyGrow
<1>1. Thinks(k, CalmPhases)
  BY DEF Thinks, CalmPhases, FailPhases
<1> QED
  BY <1>1, ThinkingOwed, SameRows DEF Owed

LEMMA ReadBatchesOwed ==
  ASSUME Owed, NEW k \in DOMAIN handling, ReadBatches(k) PROVE Owed' /\ RowsOnlyGrow
<1> DEFINE latest == ReadLatest(rows, BatchesOf(g))
           phase == IF Phase(k) = "latest" THEN "keyed" ELSE "freshKeyed"
<1>1. /\ handling' = [handling EXCEPT ![k].latest = latest, ![k].phase = phase]
      /\ Phase(k) \in {"latest", "freshLatest"} /\ UNCHANGED <<w, rows, execution, queue, working, cancel>>
  BY DEF ReadBatches, Reading
<1>2. "phase" \in DOMAIN handling[k]
  BY DEF Owed, Shaped
<1> HIDE DEF latest
<1>3. Advances(k, CalmPhases)
  BY <1>1, <1>2 DEF Advances, CalmPhases, Phases, FailPhases, Phase
<1> QED
  BY <1>1, <1>3, CalmOwed DEF FailPhases

\* An answer to isFinished, or none.
LEMMA AnsweringAdvances ==
  ASSUME Shaped, NEW k \in DOMAIN handling, NEW answers, AnswerFinished(k, answers)
  PROVE  Advances(k, CalmPhases)
<1>1. CASE handling' = Without(handling, k)
  BY <1>1, BeingOver, AdvancesWiden
<1>2. ASSUME NEW phase \in {"outcome", "refresh"}, Goto(k, phase) PROVE Advances(k, CalmPhases)
  BY <1>2, GoingCalm DEF CalmPhases, Phases, FailPhases
<1> QED
  BY <1>1, <1>2 DEF AnswerFinished

\* What a settlement does with the rows it read, whatever they are.
LEMMA UsingRowsAdvances ==
  ASSUME Shaped, NEW k \in DOMAIN handling, NEW found, UseRows(k, found) PROVE Advances(k, CalmPhases)
<1>1. PICK plan : IF Phase(k) \in {"keyed", "againKeyed"} THEN Decide(k, found, plan)
                  ELSE AnswerFinished(k, FinishedFromRows(found, plan))
  BY DEF UseRows
<1>2. "phase" \in DOMAIN handling[k]
  BY DEF Shaped
<1>3. ASSUME Decide(k, found, plan) PROVE Advances(k, CalmPhases)
  <2> DEFINE decided == DecideFromRows(g, k, found, plan)
  <2>1. handling' = IF decided = Refused THEN Without(handling, k)
                    ELSE [handling EXCEPT ![k].phase = "create", ![k].rows = found, ![k].decided = decided]
    BY <1>3 DEF Decide
  <2> HIDE DEF decided
  <2>2. CASE decided = Refused
    BY <2>1, <2>2, BeingOver, AdvancesWiden
  <2>3. CASE decided # Refused
    BY <1>2, <2>1, <2>3 DEF Advances, CalmPhases, Phases, FailPhases, Phase
  <2> QED
    BY <2>2, <2>3
<1> QED
  BY <1>1, <1>3, AnsweringAdvances

LEMMA ReadKeyedOwed ==
  ASSUME Owed, NEW k \in DOMAIN handling, ReadKeyed(k) PROVE Owed' /\ RowsOnlyGrow
<1>1. Phase(k) \in {"keyed", "freshKeyed"} /\ UNCHANGED <<w, rows, execution, queue, working, cancel>>
  BY DEF ReadKeyed, Reading
<1>2. PICK found : \/ Goto(k, IF Phase(k) = "keyed" THEN "again" ELSE "freshAgain")
                   \/ UseRows(k, found)
  BY DEF ReadKeyed
<1>3. ASSUME NEW phase \in {"again", "freshAgain"}, Goto(k, phase) PROVE Advances(k, CalmPhases)
  BY <1>3, GoingCalm DEF Owed, CalmPhases, Phases, FailPhases
<1>4. Advances(k, CalmPhases)
  BY <1>2, <1>3, UsingRowsAdvances DEF Owed
<1> QED
  BY <1>1, <1>4, CalmOwed DEF FailPhases

LEMMA ReadAllLatestOwed ==
  ASSUME Owed, NEW k \in DOMAIN handling, ReadAllLatest(k) PROVE Owed' /\ RowsOnlyGrow
<1> DEFINE latest == ReadLatest(rows, g.nodes)
           found == ReadByKeys(rows, {<<n, latest[n]>> : n \in g.nodes})
<1>1. /\ handling' = [handling EXCEPT
           ![k] = [@ EXCEPT !.latest = latest, !.rows = found,
                            !.phase = IF @ = "again" THEN "againKeyed" ELSE "freshAgainKeyed"]]
      /\ Phase(k) \in {"again", "freshAgain"} /\ UNCHANGED <<w, rows, execution, queue, working, cancel>>
  BY DEF ReadAllLatest, Reading
<1>2. "phase" \in DOMAIN handling[k]
  BY DEF Owed, Shaped
<1> HIDE DEF latest, found
<1>3. Advances(k, CalmPhases)
  BY <1>1, <1>2 DEF Advances, CalmPhases, Phases, FailPhases, Phase
<1> QED
  BY <1>1, <1>3, CalmOwed DEF FailPhases

LEMMA ReadOlderOwed ==
  ASSUME Owed, NEW k \in DOMAIN handling, ReadOlder(k) PROVE Owed' /\ RowsOnlyGrow
<1>1. Phase(k) \in {"againKeyed", "freshAgainKeyed"} /\ UNCHANGED <<w, rows, execution, queue, working, cancel>>
  BY DEF ReadOlder, Reading
<1>2. PICK found : UseRows(k, found)
  BY DEF ReadOlder
<1> QED
  BY <1>1, <1>2, UsingRowsAdvances, CalmOwed DEF Owed, FailPhases

LEMMA IsFinishedOwed ==
  ASSUME Owed, NEW k \in DOMAIN handling, IsFinishedKept(k) \/ IsFinishedEvicted(k) PROVE Owed' /\ RowsOnlyGrow
<1>1. Phase(k) = "isFinished" /\ UNCHANGED <<w, rows, execution, queue, working, cancel>>
  BY DEF IsFinishedKept, IsFinishedEvicted
<1>2. CASE IsFinishedKept(k)
  <2>1. PICK answers : AnswerFinished(k, answers)
    BY <1>2 DEF IsFinishedKept
  <2> QED
    BY <1>1, <2>1, AnsweringAdvances, CalmOwed DEF Owed, FailPhases
<1>3. CASE IsFinishedEvicted(k)
  <2>1. Goto(k, "freshLatest")
    BY <1>3 DEF IsFinishedEvicted
  <2> QED
    BY <1>1, <2>1, GoingCalm, CalmOwed DEF Owed, CalmPhases, Phases, FailPhases
<1> QED
  BY <1>2, <1>3

\* A worker settles or suspends its row, and announces a failure or owes a resume.
LEMMA WorkerOwed ==
  ASSUME Owed, NEW k \in DOMAIN rows, rows[k].status = "running",
         RowsOnlyGrow, DOMAIN rows' = DOMAIN rows,
         \A x \in DOMAIN rows : x # k => rows'[x] = rows[x],
         working' = Without(working, k),
         rows'[k].status \notin {"queued", "running"},
         rows'[k].status = "waiting" => Event("resume", k) \in queue',
         rows'[k].status = "failed" => Event("settled", k) \in queue',
         queue \subseteq queue',
         UNCHANGED <<execution, handling, cancel>>
  PROVE  Owed'
<1>1. HasFailed(rows) => HasFailed(rows')
  BY FailuresStay
<1>2. Shaped'
  BY DEF Owed, Shaped, RowsOnlyGrow, Phase
<1>3. DOMAIN working' = DOMAIN working \ {k}
  BY DEF Without
<1>4. RowsAreHeld'
  BY <1>1, <1>3 DEF Owed, RowsAreHeld
<1>5. FailureIsHandled'
  BY DEF Owed, FailureIsHandled, Phase, IsLiveExecution
<1>6. EndsAreTrue'
  BY <1>1 DEF Owed, EndsAreTrue, Phase, IsLiveExecution
<1> QED
  BY <1>2, <1>4, <1>5, <1>6 DEF Owed

LEMMA ClaimOwed ==
  ASSUME Owed, NEW k \in DOMAIN rows, Claim(k) PROVE Owed' /\ RowsOnlyGrow
<1>1. /\ queue' = queue \ {Event("ready", k)}
      /\ UNCHANGED <<w, execution, handling, cancel>>
  BY DEF Claim
<1>2. \A x : Event("resume", x) \in queue => Event("resume", x) \in queue'
  BY <1>1, EventsDiffer
<1>3. \A x : Event("settled", x) \in queue => Event("settled", x) \in queue'
  BY <1>1, EventsDiffer
<1>4. \A x : x # k /\ Event("ready", x) \in queue => Event("ready", x) \in queue'
  BY <1>1, EventsDiffer
<1>5. CASE rows[k].status = "queued" /\ ~HasFailed(rows)
  <2>1. SetStatus(k, "running") /\ working' = With(working, k, "claimed")
    BY <1>5 DEF Claim
  <2>2. /\ RowsOnlyGrow /\ DOMAIN rows' = DOMAIN rows /\ rows'[k].status = "running"
        /\ \A x \in DOMAIN rows : x # k => rows'[x] = rows[x]
    BY <1>5, <2>1, OneRowChanges DEF Owed, SettledStatuses, RowStatuses
  <2>3. HasFailed(rows) => HasFailed(rows')
    BY <2>2, FailuresStay
  <2>4. DOMAIN working' = DOMAIN working \cup {k}
    BY <2>1 DEF With
  <2>5. Shaped'
    BY <1>1, <2>2 DEF Owed, Shaped, RowsOnlyGrow, Phase
  <2>6. RowsAreHeld'
    BY <1>2, <1>4, <2>2, <2>3, <2>4 DEF Owed, RowsAreHeld
  <2>7. FailureIsHandled'
    BY <1>1, <1>3, <2>2 DEF Owed, FailureIsHandled, Phase, IsLiveExecution
  <2>8. EndsAreTrue'
    BY <1>1, <2>3 DEF Owed, EndsAreTrue, Phase, IsLiveExecution
  <2> QED
    BY <2>2, <2>5, <2>6, <2>7, <2>8 DEF Owed
<1>6. CASE ~(rows[k].status = "queued" /\ ~HasFailed(rows))
  <2>1. UNCHANGED <<rows, working>>
    BY <1>6 DEF Claim
  <2>2. Shaped'
    BY <1>1, <2>1 DEF Owed, Shaped, Phase
  <2>3. RowsAreHeld'
    BY <1>2, <1>4, <1>6, <2>1 DEF Owed, RowsAreHeld
  <2>4. FailureIsHandled'
    BY <1>1, <1>3, <2>1 DEF Owed, FailureIsHandled, Phase, IsLiveExecution
  <2>5. EndsAreTrue'
    BY <1>1, <2>1 DEF Owed, EndsAreTrue, Phase, IsLiveExecution
  <2> QED
    BY <2>1, <2>2, <2>3, <2>4, <2>5, SameRows DEF Owed
<1> QED
  BY <1>5, <1>6

LEMMA LoadExecutionOwed ==
  ASSUME Owed, NEW k \in DOMAIN working, LoadExecution(k) PROVE Owed' /\ RowsOnlyGrow
<1>1. k \in DOMAIN rows /\ rows[k].status = "running"
  BY DEF Owed, RowsAreHeld
<1>2. CASE IsLiveExecution
  <2>1. DOMAIN working' = DOMAIN working /\ UNCHANGED <<rows, queue, execution, handling, cancel>>
    BY <1>2 DEF LoadExecution
  <2>2. Owed'
    BY <2>1 DEF Owed, Shaped, RowsAreHeld, FailureIsHandled, EndsAreTrue, Phase, IsLiveExecution
  <2> QED
    BY <2>1, <2>2, SameRows DEF Owed
<1>3. CASE ~IsLiveExecution
  <2>1. /\ working' = Without(working, k) /\ SetStatus(k, "cancelled")
        /\ UNCHANGED <<queue, execution, handling, cancel>>
    BY <1>3 DEF LoadExecution
  <2>2. /\ RowsOnlyGrow /\ DOMAIN rows' = DOMAIN rows /\ rows'[k].status = "cancelled"
        /\ \A x \in DOMAIN rows : x # k => rows'[x] = rows[x]
    BY <1>1, <2>1, OneRowChanges DEF Owed, SettledStatuses, RowStatuses
  <2> QED
    BY <1>1, <2>1, <2>2, WorkerOwed
<1> QED
  BY <1>2, <1>3

LEMMA CompleteOwed ==
  ASSUME Owed, NEW k \in DOMAIN working, NEW filled, Complete(k, filled) PROVE Owed' /\ RowsOnlyGrow
<1>1. k \in DOMAIN rows /\ rows[k].status = "running"
  BY DEF Owed, RowsAreHeld
<1>2. /\ rows' = [rows EXCEPT ![k] = [status |-> "completed", filled |-> filled]]
      /\ working' = Without(working, k) /\ queue' = queue \cup {Event("settled", k)}
      /\ UNCHANGED <<execution, handling, cancel>>
  BY DEF Complete
<1>3. /\ DOMAIN rows' = DOMAIN rows /\ rows'[k].status = "completed" /\ "status" \in DOMAIN rows'[k]
      /\ \A x \in DOMAIN rows : x # k => rows'[x] = rows[x]
  BY <1>1, <1>2
<1>4. RowsOnlyGrow
  BY <1>1, <1>3 DEF RowsOnlyGrow, Owed, Shaped, SettledStatuses, RowStatuses
<1> QED
  BY <1>1, <1>2, <1>3, <1>4, WorkerOwed

LEMMA FailOwed ==
  ASSUME Owed, NEW k \in DOMAIN working, Fail(k) PROVE Owed' /\ RowsOnlyGrow
<1>1. k \in DOMAIN rows /\ rows[k].status = "running"
  BY DEF Owed, RowsAreHeld
<1>2. /\ SetStatus(k, "failed")
      /\ working' = Without(working, k) /\ queue' = queue \cup {Event("settled", k)}
      /\ UNCHANGED <<execution, handling, cancel>>
  BY DEF Fail
<1>3. /\ RowsOnlyGrow /\ DOMAIN rows' = DOMAIN rows /\ rows'[k].status = "failed"
      /\ \A x \in DOMAIN rows : x # k => rows'[x] = rows[x]
  BY <1>1, <1>2, OneRowChanges DEF Owed, SettledStatuses, RowStatuses
<1> QED
  BY <1>1, <1>2, <1>3, WorkerOwed

LEMMA SuspendOwed ==
  ASSUME Owed, NEW k \in DOMAIN working, Suspend(k) PROVE Owed' /\ RowsOnlyGrow
<1>1. k \in DOMAIN rows /\ rows[k].status = "running"
  BY DEF Owed, RowsAreHeld
<1>2. /\ SetStatus(k, "waiting")
      /\ working' = Without(working, k) /\ queue' = queue \cup {Event("resume", k)}
      /\ UNCHANGED <<execution, handling, cancel>>
  BY DEF Suspend
<1>3. /\ RowsOnlyGrow /\ DOMAIN rows' = DOMAIN rows /\ rows'[k].status = "waiting"
      /\ \A x \in DOMAIN rows : x # k => rows'[x] = rows[x]
  BY <1>1, <1>2, OneRowChanges DEF Owed, SettledStatuses, RowStatuses
<1> QED
  BY <1>1, <1>2, <1>3, WorkerOwed

LEMMA ResumeOwed ==
  ASSUME Owed, NEW k \in DOMAIN rows, Resume(k) PROVE Owed' /\ RowsOnlyGrow
<1>1. UNCHANGED <<execution, working, handling, cancel>>
  BY DEF Resume
<1>2. CASE rows[k].status = "waiting"
  <2>1. SetStatus(k, "queued") /\ queue' = (queue \ {Event("resume", k)}) \cup {Event("ready", k)}
    BY <1>2 DEF Resume
  <2>2. /\ RowsOnlyGrow /\ DOMAIN rows' = DOMAIN rows /\ rows'[k].status = "queued"
        /\ \A x \in DOMAIN rows : x # k => rows'[x] = rows[x]
    BY <1>2, <2>1, OneRowChanges DEF Owed, SettledStatuses, RowStatuses
  <2>3. HasFailed(rows) => HasFailed(rows')
    BY <2>2, FailuresStay
  <2>4. /\ \A x : Event("ready", x) \in queue \/ x = k => Event("ready", x) \in queue'
        /\ \A x : Event("settled", x) \in queue => Event("settled", x) \in queue'
        /\ \A x : x # k /\ Event("resume", x) \in queue => Event("resume", x) \in queue'
    BY <2>1, EventsDiffer
  <2>5. Shaped'
    BY <1>1, <2>2 DEF Owed, Shaped, RowsOnlyGrow, Phase
  <2>6. RowsAreHeld'
    BY <1>1, <1>2, <2>2, <2>3, <2>4 DEF Owed, RowsAreHeld
  <2>7. FailureIsHandled'
    BY <1>1, <2>2, <2>4 DEF Owed, FailureIsHandled, Phase, IsLiveExecution
  <2>8. EndsAreTrue'
    BY <1>1, <2>3 DEF Owed, EndsAreTrue, Phase, IsLiveExecution
  <2> QED
    BY <2>2, <2>5, <2>6, <2>7, <2>8 DEF Owed
<1>3. CASE rows[k].status # "waiting"
  <2>1. rows' = rows /\ queue' = queue \ {Event("resume", k)}
    BY <1>3 DEF Resume
  <2>2. /\ \A x : Event("ready", x) \in queue => Event("ready", x) \in queue'
        /\ \A x : Event("settled", x) \in queue => Event("settled", x) \in queue'
        /\ \A x : x # k /\ Event("resume", x) \in queue => Event("resume", x) \in queue'
    BY <2>1, EventsDiffer
  <2>3. Shaped'
    BY <1>1, <2>1 DEF Owed, Shaped, Phase
  <2>4. RowsAreHeld'
    BY <1>1, <1>3, <2>1, <2>2 DEF Owed, RowsAreHeld
  <2>5. FailureIsHandled'
    BY <1>1, <2>1, <2>2 DEF Owed, FailureIsHandled, Phase, IsLiveExecution
  <2>6. EndsAreTrue'
    BY <1>1, <2>1 DEF Owed, EndsAreTrue, Phase, IsLiveExecution
  <2> QED
    BY <2>1, <2>3, <2>4, <2>5, <2>6, SameRows DEF Owed
<1> QED
  BY <1>2, <1>3

\* The execution stays as it is once it is over.
StaysOver == ~IsLiveExecution => execution' = execution

LEMMA CancelOnRequestOwed ==
  ASSUME Owed, CancelOnRequest PROVE Owed' /\ RowsOnlyGrow
<1>1. /\ execution' = "cancelled" /\ cancel' = "won" /\ ~IsLiveExecution'
      /\ UNCHANGED <<rows, queue, working, handling>>
  BY DEF CancelOnRequest, IsLiveExecution, LiveStatuses
<1>2. Owed'
  BY <1>1 DEF Owed, Shaped, RowsAreHeld, FailureIsHandled, EndsAreTrue, Phase
<1> QED
  BY <1>1, <1>2, SameRows DEF Owed

\* The pending rows are cancelled, by whoever ends the execution.
LEMMA CancellingRowsAreHeld ==
  ASSUME Owed, rows' = CancelledPending, UNCHANGED <<queue, working>>
  PROVE  RowsAreHeld' /\ RowsOnlyGrow
<1>1. /\ RowsOnlyGrow /\ DOMAIN rows' = DOMAIN rows
      /\ \A k \in DOMAIN rows : IF rows[k].status \in {"queued", "waiting"} THEN rows'[k].status = "cancelled"
                                ELSE rows'[k] = rows[k]
  BY CancelledStore DEF Owed
<1>2. HasFailed(rows) => HasFailed(rows')
  BY <1>1, FailuresStay
<1> QED
  BY <1>1, <1>2 DEF Owed, RowsAreHeld

\* No row becomes a failed one when the pending rows are cancelled.
LEMMA CancellingFailsNone ==
  ASSUME Owed, rows' = CancelledPending, NEW k \in DOMAIN rows', rows'[k].status = "failed"
  PROVE  k \in DOMAIN rows /\ rows[k].status = "failed"
BY CancelledStore DEF Owed

LEMMA CancelPendingOwed ==
  ASSUME Owed, CancelPending PROVE Owed' /\ RowsOnlyGrow
<1>1. /\ rows' = CancelledPending /\ cancel = "won" /\ cancel' = "over"
      /\ UNCHANGED <<execution, queue, working, handling>>
  BY DEF CancelPending
<1>2. RowsAreHeld' /\ RowsOnlyGrow
  BY <1>1, CancellingRowsAreHeld
<1>3. HasFailed(rows) => HasFailed(rows')
  BY <1>2, FailuresStay
<1>4. Shaped'
  BY <1>1, <1>2 DEF Owed, Shaped, RowsOnlyGrow, Phase
<1>5. FailureIsHandled'
  BY <1>1, CancellingFailsNone DEF Owed, FailureIsHandled, Phase, IsLiveExecution
<1>6. EndsAreTrue'
  BY <1>1, <1>3 DEF Owed, EndsAreTrue, Phase, IsLiveExecution
<1> QED
  BY <1>2, <1>4, <1>5, <1>6 DEF Owed

LEMMA HandleOwed ==
  ASSUME Owed, NEW k \in DOMAIN rows, Handle(k) PROVE Owed' /\ RowsOnlyGrow
<1>1. queue' = queue \ {Event("settled", k)} /\ UNCHANGED <<w, rows, execution, working, cancel>>
  BY DEF Handle
<1>2. /\ \A x : Event("ready", x) \in queue => Event("ready", x) \in queue'
      /\ \A x : x # k /\ Event("settled", x) \in queue => Event("settled", x) \in queue'
      /\ \A x : Event("resume", x) \in queue => Event("resume", x) \in queue'
  BY <1>1, EventsDiffer
<1>3. RowsAreHeld'
  BY <1>1, <1>2 DEF Owed, RowsAreHeld
<1>4. CASE ~IsLiveExecution
  <2>1. handling' = handling
    BY <1>4 DEF Handle
  <2>2. Shaped' /\ FailureIsHandled' /\ EndsAreTrue'
    BY <1>1, <1>4, <2>1 DEF Owed, Shaped, FailureIsHandled, EndsAreTrue, Phase, IsLiveExecution
  <2> QED
    BY <1>1, <1>3, <2>2, SameRows DEF Owed
<1>5. CASE IsLiveExecution
  <2> DEFINE phase == IF rows[k].status = "failed" THEN "fail" ELSE "guard"
  <2>1. handling' = With(handling, k, Settlement(phase))
    BY <1>5 DEF Handle
  <2>2. /\ DOMAIN handling' = DOMAIN handling \cup {k} /\ handling'[k] = Settlement(phase)
        /\ \A x \in DOMAIN handling : x # k => handling'[x] = handling[x]
    BY <2>1 DEF With
  <2>3. "phase" \in DOMAIN handling'[k] /\ handling'[k].phase = phase
    BY <2>2 DEF Settlement
  <2>4. Shaped'
    BY <1>1, <2>2, <2>3 DEF Owed, Shaped, Phase, Phases, FailPhases
  <2>5. FailureIsHandled'
    BY <1>1, <1>2, <2>2, <2>3 DEF Owed, FailureIsHandled, Phase, FailPhases, IsLiveExecution
  <2>6. phase = "fail" => HasFailed(rows)
    BY DEF HasFailed
  <2>7. EndsAreTrue'
    BY <1>1, <2>2, <2>3, <2>6 DEF Owed, EndsAreTrue, Phase, FailPhases, IsLiveExecution
  <2> QED
    BY <1>1, <1>3, <2>4, <2>5, <2>7, SameRows DEF Owed
<1> QED
  BY <1>4, <1>5

LEMMA FailExecutionOwed ==
  ASSUME Owed, NEW k \in DOMAIN handling, FailExecution(k) PROVE Owed' /\ RowsOnlyGrow /\ StaysOver
<1>1. Phase(k) \in FailPhases /\ HasFailed(rows) /\ UNCHANGED <<w, queue, working, cancel>>
  BY DEF FailExecution, FailPhases, Owed, EndsAreTrue
\* The rows first, or second.
<1>2. ASSUME Phase(k) # "failEnd", rows' = CancelledPending, execution' = execution,
             handling' = IF Phase(k) = "fail" THEN [handling EXCEPT ![k].phase = "failEnd"] ELSE Without(handling, k)
      PROVE  Owed' /\ RowsOnlyGrow /\ StaysOver
  <2>1. RowsAreHeld' /\ RowsOnlyGrow
    BY <1>1, <1>2, CancellingRowsAreHeld
  <2>2. HasFailed(rows')
    BY <1>1, <2>1, FailuresStay
  <2>3. Advances(k, {"failEnd"}) /\ (Phase(k) = "fail" => k \in DOMAIN handling')
    BY <1>2, GoingOn, BeingOver, AdvancesWiden DEF Owed, Goto
  <2>4. Shaped'
    BY <1>1, <1>2, <2>1, <2>3 DEF Owed, Shaped, RowsOnlyGrow, Advances, Phase, Phases, FailPhases
  <2>5. Phase(k) = "failRows" => ~IsLiveExecution
    BY DEF Owed, EndsAreTrue
  <2>6. FailureIsHandled'
    BY <1>1, <1>2, <2>3, <2>5, CancellingFailsNone
       DEF Owed, FailureIsHandled, Advances, Phase, FailPhases, IsLiveExecution
  <2>7. EndsAreTrue'
    BY <1>1, <1>2, <2>2, <2>3 DEF Owed, EndsAreTrue, Advances, Phase, FailPhases, IsLiveExecution
  <2> QED
    BY <1>2, <2>1, <2>4, <2>6, <2>7 DEF Owed, StaysOver
\* The execution first, or second.
<1>3. ASSUME Phase(k) # "failRows", rows' = rows, execution' = IF IsLiveExecution THEN "failed" ELSE execution,
             handling' = IF Phase(k) = "fail" THEN [handling EXCEPT ![k].phase = "failRows"] ELSE Without(handling, k)
      PROVE  Owed' /\ RowsOnlyGrow /\ StaysOver
  <2>1. Advances(k, {"failRows"})
    BY <1>3, GoingOn, BeingOver, AdvancesWiden DEF Owed, Goto
  <2>2. ~IsLiveExecution' /\ StaysOver
    BY <1>3 DEF IsLiveExecution, LiveStatuses, StaysOver
  <2>3. RowsAreHeld'
    BY <1>1, <1>3 DEF Owed, RowsAreHeld
  <2>4. Shaped'
    BY <1>1, <1>3, <2>1 DEF Owed, Shaped, Advances, Phase, Phases, FailPhases
  <2>5. FailureIsHandled'
    BY <2>2 DEF FailureIsHandled
  <2>6. EndsAreTrue'
    BY <1>1, <1>3, <2>1, <2>2 DEF Owed, EndsAreTrue, Advances, Phase, FailPhases
  <2> QED
    BY <1>3, <2>2, <2>3, <2>4, <2>5, <2>6, SameRows DEF Owed
<1> QED
  BY <1>2, <1>3 DEF FailExecution

\* A settlement that is not failing the execution is over, and leaves it in `status`.
LEMMA EndingOwed ==
  ASSUME Owed, NEW k \in DOMAIN handling, Phase(k) \notin FailPhases, handling' = Without(handling, k),
         UNCHANGED <<rows, queue, working, cancel>>,
         execution' \in LiveStatuses \cup {"completed", "failed"} \cup {execution},
         StaysOver,
         execution' = "failed" /\ IsLiveExecution => HasFailed(rows)
  PROVE  Owed' /\ RowsOnlyGrow
<1>1. Advances(k, {})
  BY BeingOver DEF Owed
<1>2. Shaped'
  BY <1>1 DEF Owed, Shaped, Advances, Phase
<1>3. RowsAreHeld'
  BY DEF Owed, RowsAreHeld
<1>4. ~IsLiveExecution => ~IsLiveExecution'
  BY DEF StaysOver, IsLiveExecution
<1>5. FailureIsHandled'
  BY <1>1, <1>4 DEF Owed, FailureIsHandled, Advances, Phase
<1>6. execution' = "failed" => HasFailed(rows)
  BY DEF Owed, EndsAreTrue, StaysOver
<1>7. execution' = "cancelled" => cancel # "none"
  BY DEF Owed, EndsAreTrue, LiveStatuses
<1>8. EndsAreTrue'
  BY <1>1, <1>4, <1>6, <1>7 DEF Owed, EndsAreTrue, Advances, Phase
<1> QED
  BY <1>2, <1>3, <1>5, <1>8, SameRows DEF Owed

LEMMA FinishExecutionOwed ==
  ASSUME Owed, NEW k \in DOMAIN handling, FinishExecution(k) PROVE Owed' /\ RowsOnlyGrow /\ StaysOver
<1>1. /\ Phase(k) \in {"endFailed", "endCompleted"}
      /\ execution' = IF ~IsLiveExecution THEN execution
                      ELSE IF Phase(k) = "endFailed" THEN "failed" ELSE "completed"
      /\ handling' = Without(handling, k)
      /\ UNCHANGED <<w, rows, queue, working, cancel>>
  BY DEF FinishExecution
<1>2. Phase(k) = "endFailed" => HasFailed(rows)
  BY DEF Owed, EndsAreTrue
<1>3. StaysOver
  BY <1>1 DEF StaysOver
<1> QED
  BY <1>1, <1>2, <1>3, EndingOwed DEF FailPhases

LEMMA RefreshLiveStatusOwed ==
  ASSUME Owed, NEW k \in DOMAIN handling, RefreshLiveStatus(k) PROVE Owed' /\ RowsOnlyGrow /\ StaysOver
<1>1. /\ Phase(k) = "refresh" /\ handling' = Without(handling, k)
      /\ UNCHANGED <<w, rows, queue, working, cancel>>
      /\ execution' \in {"running", "waiting", execution}
      /\ ~IsLiveExecution => execution' = execution
  BY DEF RefreshLiveStatus
<1>2. execution' = "failed" => ~IsLiveExecution
  BY <1>1 DEF IsLiveExecution, LiveStatuses
<1> QED
  BY <1>1, <1>2, EndingOwed DEF FailPhases, LiveStatuses, StaysOver

LEMMA CreateStepsOwed ==
  ASSUME Owed, NEW k \in DOMAIN handling, CreateSteps(k) PROVE Owed' /\ RowsOnlyGrow
<1> DEFINE decided == handling[k].decided
           fresh == IF HasFailed(rows) THEN {} ELSE (decided.toQueue \cup decided.toSkip) \ DOMAIN rows
           queued == fresh \cap decided.toQueue
           created == [toQueue |-> queued, toSkip |-> fresh \ queued]
<1>1. /\ Phase(k) = "create"
      /\ rows' = WithDecided(rows, created)
      /\ queue' = queue \cup {Event("ready", x) : x \in queued} \cup {Event("settled", x) : x \in fresh \ queued}
      /\ handling' = IF queued # {} THEN Without(handling, k) ELSE [handling EXCEPT ![k].phase = "isFinished"]
      /\ UNCHANGED <<w, execution, working, cancel>>
  BY DEF CreateSteps
<1>2. fresh \cap DOMAIN rows = {} /\ queued \subseteq fresh
  OBVIOUS
<1>3. \A x \in queued : Event("ready", x) \in queue'
  BY <1>1
<1>4. created.toQueue = queued /\ created.toSkip = fresh \ queued
  OBVIOUS
<1> HIDE DEF fresh, queued, created
<1>5. rows' = [x \in DOMAIN rows \cup fresh |->
                 IF x \in DOMAIN rows THEN rows[x]
                 ELSE [status |-> IF x \in queued THEN "queued" ELSE "skipped", filled |-> {}]]
  BY <1>1, <1>2, <1>4 DEF WithDecided
<1>6. /\ DOMAIN rows' = DOMAIN rows \cup fresh
      /\ \A x \in DOMAIN rows : rows'[x] = rows[x]
      /\ \A x \in fresh : /\ "status" \in DOMAIN rows'[x]
                          /\ rows'[x].status = IF x \in queued THEN "queued" ELSE "skipped"
  BY <1>2, <1>5
<1>7. RowsOnlyGrow
  BY <1>6 DEF RowsOnlyGrow, Owed, Shaped, RowStatuses, SettledStatuses
<1>8. HasFailed(rows) => HasFailed(rows')
  BY <1>7, FailuresStay
<1>9. Advances(k, {"isFinished"})
  BY <1>1, GoingOn, BeingOver, AdvancesWiden DEF Owed, Goto
<1>10. Shaped'
  BY <1>1, <1>7, <1>9 DEF Owed, Shaped, RowsOnlyGrow, Advances, Phase, Phases, FailPhases
<1>11. RowsAreHeld'
  BY <1>1, <1>2, <1>3, <1>6, <1>8 DEF Owed, RowsAreHeld
<1>12. FailureIsHandled'
  BY <1>1, <1>6, <1>9 DEF Owed, FailureIsHandled, Advances, Phase, FailPhases, IsLiveExecution
<1>13. EndsAreTrue'
  BY <1>1, <1>8, <1>9 DEF Owed, EndsAreTrue, Advances, Phase, FailPhases, IsLiveExecution
<1> QED
  BY <1>7, <1>10, <1>11, <1>12, <1>13 DEF Owed

\* Every step keeps what is owed, and takes back neither a settled row nor an execution that is over.
LEMMA StepOwed ==
  ASSUME Owed, [Next]_vars PROVE Owed' /\ RowsOnlyGrow /\ StaysOver
<1>1. ASSUME UNCHANGED vars PROVE Owed' /\ RowsOnlyGrow /\ StaysOver
  <2>1. UNCHANGED <<w, rows, execution, queue, working, handling, cancel>>
    BY <1>1 DEF vars
  <2>2. Owed'
    BY <2>1 DEF Owed, Shaped, RowsAreHeld, FailureIsHandled, EndsAreTrue, Phase, IsLiveExecution
  <2> QED
    BY <2>1, <2>2, SameRows DEF Owed, StaysOver
<1>2. ASSUME ReadyStep PROVE Owed' /\ RowsOnlyGrow /\ StaysOver
  <2>1. PICK k \in DOMAIN rows : Claim(k) \/ Resume(k)
    BY <1>2 DEF ReadyStep
  <2>2. execution' = execution
    BY <2>1 DEF Claim, Resume
  <2> QED
    BY <2>1, <2>2, ClaimOwed, ResumeOwed DEF StaysOver
<1>3. ASSUME WorkingStep PROVE Owed' /\ RowsOnlyGrow /\ StaysOver
  <2>1. PICK k \in DOMAIN working : LoadExecution(k) \/ Fail(k) \/ Suspend(k)
                                      \/ \E filled \in Fillings(g, NodeOf(k)) : Complete(k, filled)
    BY <1>3 DEF WorkingStep
  <2>2. execution' = execution
    BY <2>1 DEF LoadExecution, Fail, Suspend, Complete
  <2> QED
    BY <2>1, <2>2, LoadExecutionOwed, FailOwed, SuspendOwed, CompleteOwed DEF StaysOver
<1>4. ASSUME HandleStep PROVE Owed' /\ RowsOnlyGrow /\ StaysOver
  <2>1. PICK k \in DOMAIN rows : Handle(k)
    BY <1>4 DEF HandleStep
  <2>2. execution' = execution
    BY <2>1 DEF Handle
  <2> QED
    BY <2>1, <2>2, HandleOwed DEF StaysOver
<1>5. ASSUME DecideStep PROVE Owed' /\ RowsOnlyGrow /\ StaysOver
  <2>1. PICK k \in DOMAIN handling : Guard(k) \/ ReadBatches(k) \/ ReadKeyed(k) \/ ReadAllLatest(k)
                                       \/ ReadOlder(k) \/ CreateSteps(k)
    BY <1>5 DEF DecideStep
  <2>2. execution' = execution
    BY <2>1 DEF Guard, ReadBatches, ReadKeyed, ReadAllLatest, ReadOlder, CreateSteps
  <2> QED
    BY <2>1, <2>2, GuardOwed, ReadBatchesOwed, ReadKeyedOwed, ReadAllLatestOwed, ReadOlderOwed, CreateStepsOwed
       DEF StaysOver
<1>6. ASSUME EndStep PROVE Owed' /\ RowsOnlyGrow /\ StaysOver
  <2>1. PICK k \in DOMAIN handling : FailExecution(k) \/ IsFinishedKept(k) \/ IsFinishedEvicted(k)
                                       \/ ReadOutcome(k) \/ FinishExecution(k) \/ RefreshLiveStatus(k)
    BY <1>6 DEF EndStep
  <2>2. IsFinishedKept(k) \/ IsFinishedEvicted(k) \/ ReadOutcome(k) => execution' = execution
    BY DEF IsFinishedKept, IsFinishedEvicted, ReadOutcome
  <2> QED
    BY <2>1, <2>2, FailExecutionOwed, IsFinishedOwed, ReadOutcomeOwed, FinishExecutionOwed, RefreshLiveStatusOwed
       DEF StaysOver
<1>7. ASSUME CancelStep PROVE Owed' /\ RowsOnlyGrow /\ StaysOver
  <2>1. StaysOver
    BY <1>7 DEF CancelStep, CancelOnRequest, CancelPending, StaysOver
  <2> QED
    BY <1>7, <2>1, CancelOnRequestOwed, CancelPendingOwed DEF CancelStep
<1> QED
  BY <1>1, <1>2, <1>3, <1>4, <1>5, <1>6, <1>7 DEF Next

LEMMA AlwaysOwed == Spec => []Owed
<1>1. Owed /\ [Next]_vars => Owed'
  BY StepOwed
<1> QED
  BY InitOwed, <1>1, PTL DEF Spec

-----------------------------------------------------------------------------
(***************************************************************************)
(* What the handlers guarantee.                                            *)
(***************************************************************************)
\* A row that has settled is never written again, whatever worker, resume, cancellation or
\* settlement still holds its key (the memory stores' claim, complete, fail, suspend, resume and
\* cancel); and an execution that is over keeps the status it ended with, although several
\* settlements and a cancellation may each be about to end it (finishExecution).
SettledIsFinal ==
    /\ \A k \in DOMAIN rows : rows[k].status \in SettledStatuses => k \in DOMAIN rows' /\ rows'[k] = rows[k]
    /\ ~IsLiveExecution => execution' = execution

\* Settled rows and ended executions stay as they are, for any graphs and interleaving.
THEOREM SettledStays == Spec => [][SettledIsFinal]_vars
<1>1. Owed /\ [Next]_vars => SettledIsFinal
  BY StepOwed DEF SettledIsFinal, RowsOnlyGrow, StaysOver
<1> QED
  BY AlwaysOwed, <1>1, PTL DEF Spec

\* When every event is handled and every step has ended no row is left running or waiting, and
\* one is left queued only after a failure: a step that suspended behind failExecution is
\* resumed into an announcement claimStep refuses.
NothingIsLeft ==
    IsIdle => \A k \in DOMAIN rows : \/ rows[k].status \in SettledStatuses
                                     \/ rows[k].status = "queued" /\ HasFailed(rows)

\* No row is left behind by the handlers.
THEOREM IdleLeavesNothing == Spec => []NothingIsLeft
<1>1. Owed => NothingIsLeft
  BY DEF Owed, Shaped, RowsAreHeld, NothingIsLeft, IsIdle, RowStatuses
<1> QED
  BY AlwaysOwed, <1>1, PTL

\* The execution has ended, and as it should have, whenever a step failed, a cancellation was
\* asked for, or it is over at all: what IdleIsOver says of every idle state is left to the
\* decoder only where every step went well and nothing was cancelled.
MustHaveEnded == ~IsLiveExecution \/ HasFailed(rows) \/ cancel # "none"

\* An idle execution that had a reason to end has ended, with the outcome it should have.
THEOREM IdleHasEnded == Spec => [](MustHaveEnded => IdleIsOver)
<1>1. Owed => (MustHaveEnded => IdleIsOver)
  <2> SUFFICES ASSUME Owed, IsIdle, ~IsLiveExecution \/ HasFailed(rows) \/ cancel # "none"
               PROVE  \/ execution = "completed"
                      \/ execution = "failed" /\ HasFailed(rows)
                      \/ execution = "cancelled" /\ cancel = "over"
    BY DEF MustHaveEnded, IdleIsOver
  <2>1. HasFailed(rows) => ~IsLiveExecution
    BY DEF Owed, FailureIsHandled, IsIdle, HasFailed
  <2>2. ~IsLiveExecution
    BY <2>1 DEF Owed, EndsAreTrue
  <2>3. execution \in {"completed", "failed", "cancelled"}
    BY <2>2 DEF Owed, Shaped, IsLiveExecution
  <2>4. execution = "failed" => HasFailed(rows)
    BY DEF Owed, EndsAreTrue
  <2>5. execution = "cancelled" => cancel = "over"
    BY DEF Owed, EndsAreTrue, Shaped, IsIdle
  <2> QED
    BY <2>3, <2>4, <2>5
<1> QED
  BY AlwaysOwed, <1>1, PTL
=============================================================================
