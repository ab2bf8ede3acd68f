------------------------------- MODULE Settlement -------------------------------
(***************************************************************************)
(* One execution of engine v2 settled by the net-backed policy: the row    *)
(* store, the queues between n8n's handlers, and the policy's reads, which *)
(* are separate awaits, so that any number of settlements interleave.      *)
(* The stores are conformance/v2/memory-stores.ts, the handlers n8n's own  *)
(* as tasks/v2-handler-leg.mts drives them and patches/n8n/0003 shows them.*)
(*                                                                         *)
(* A settlement is one StepSettledHandler.handle: an entry of `handling`,  *)
(* whose phase is the await it stands before.  An event is handed over     *)
(* once.  What a step does is the environment's choice.                    *)
(***************************************************************************)
EXTENDS SettlementPolicy

CONSTANTS Graphs,     \* from a name to an analysed graph
          MaxPasses,  \* bound: a batch node that ran this many steps fills its loop slot no more
          Suspenders, \* the nodes whose step may suspend before it completes
          Fallible,   \* the nodes whose step may fail
          Cancels,    \* the graphs whose execution may be cancelled on request
          Evicts      \* the graphs the compile cache may drop inside a settlement

VARIABLES w,          \* the graph of this execution
          rows,       \* the step store: from a step key to its row
          execution,  \* the execution's status
          queue,      \* pending events: "ready", "settled" or "resume" with a step key
          working,    \* steps claimed and not settled: "claimed" until the execution is loaded
          handling,   \* settlements in progress
          cancel      \* the cancel on request: "none", "won" (rows not yet cancelled) or "over"

vars == <<w, rows, execution, queue, working, handling, cancel>>
g == Graphs[w]

LiveStatuses == {"running", "waiting"}
IsLiveExecution == execution \in LiveStatuses
Event(type, key) == [type |-> type, key |-> key]
TriggerKey == <<g.trigger, 0>>

\* A settlement as its handler holds it: the phase, the latest passes its first read found,
\* the rows its last read found, and what it decided from them.
Settlement(phase) == [phase |-> phase, latest |-> << >>, rows |-> << >>, decided |-> NothingPlanned]

(* ExecutionStartHandler: the trigger's row is completed at birth, slot 0 filled. *)
Init ==
    /\ w \in DOMAIN Graphs
    /\ rows = [k \in {TriggerKey} |-> [status |-> "completed", filled |-> {0}]]
    /\ execution = "running"
    /\ queue = {Event("settled", TriggerKey)}
    /\ working = << >>
    /\ handling = << >>
    /\ cancel = "none"

With(f, k, v) == [x \in DOMAIN f \cup {k} |-> IF x = k THEN v ELSE f[x]]
Without(f, k) == [x \in DOMAIN f \ {k} |-> f[x]]
Phase(k) == handling[k].phase
Goto(k, phase) == handling' = [handling EXCEPT ![k].phase = phase]
SetStatus(k, status) == rows' = [rows EXCEPT ![k].status = status]
(* cancelPendingSteps *)
CancelledPending ==
    [k \in DOMAIN rows |->
       IF rows[k].status \in {"queued", "waiting"} THEN [rows[k] EXCEPT !.status = "cancelled"] ELSE rows[k]]

-----------------------------------------------------------------------------
(***************************************************************************)
(* StepReadyHandler: claim, load the execution, run, settle.               *)
(***************************************************************************)
(* claimStep: a row is claimed from queued only, and never after a failure. *)
Claim(k) ==
    /\ Event("ready", k) \in queue
    /\ queue' = queue \ {Event("ready", k)}
    /\ IF rows[k].status = "queued" /\ ~HasFailed(rows)
         THEN SetStatus(k, "running") /\ working' = With(working, k, "claimed")
         ELSE UNCHANGED <<rows, working>>
    /\ UNCHANGED <<w, execution, handling, cancel>>

(* A step claimed before the execution ended is cancelled. *)
LoadExecution(k) ==
    /\ working[k] = "claimed"
    /\ IF IsLiveExecution
         THEN working' = [working EXCEPT ![k] = "executing"] /\ UNCHANGED rows
         ELSE working' = Without(working, k) /\ SetStatus(k, "cancelled")
    /\ UNCHANGED <<w, execution, queue, handling, cancel>>

MayLoop(k) == PassOf(k) + 1 < MaxPasses

(* completeStep, then step:settled. *)
Complete(k, filled) ==
    /\ working[k] = "executing"
    /\ filled \in Fillings(g, NodeOf(k))
    /\ IsBatch(g, NodeOf(k)) /\ LoopSlot \in filled => MayLoop(k)
    /\ rows' = [rows EXCEPT ![k] = [status |-> "completed", filled |-> filled]]
    /\ working' = Without(working, k)
    /\ queue' = queue \cup {Event("settled", k)}
    /\ UNCHANGED <<w, execution, handling, cancel>>

(* failStep, then step:settled. *)
Fail(k) ==
    /\ working[k] = "executing"
    /\ NodeOf(k) \in Fallible
    /\ SetStatus(k, "failed")
    /\ working' = Without(working, k)
    /\ queue' = queue \cup {Event("settled", k)}
    /\ UNCHANGED <<w, execution, handling, cancel>>

(* suspendStep: the row waits and owes a resume. *)
Suspend(k) ==
    /\ working[k] = "executing"
    /\ NodeOf(k) \in Suspenders
    /\ SetStatus(k, "waiting")
    /\ working' = Without(working, k)
    /\ queue' = queue \cup {Event("resume", k)}
    /\ UNCHANGED <<w, execution, handling, cancel>>

(* resumeStep: waiting back to queued, announced again; a row cancelled meanwhile is left alone. *)
Resume(k) ==
    /\ Event("resume", k) \in queue
    /\ IF rows[k].status = "waiting"
         THEN SetStatus(k, "queued") /\ queue' = (queue \ {Event("resume", k)}) \cup {Event("ready", k)}
         ELSE UNCHANGED rows /\ queue' = queue \ {Event("resume", k)}
    /\ UNCHANGED <<w, execution, working, handling, cancel>>

-----------------------------------------------------------------------------
(***************************************************************************)
(* CancelExecutionService: end the execution, then cancel its pending rows.*)
(***************************************************************************)
CancelOnRequest ==
    /\ w \in Cancels
    /\ cancel = "none"
    /\ IsLiveExecution
    /\ execution' = "cancelled"
    /\ cancel' = "won"
    /\ UNCHANGED <<w, rows, queue, working, handling>>

CancelPending ==
    /\ cancel = "won"
    /\ rows' = CancelledPending
    /\ cancel' = "over"
    /\ UNCHANGED <<w, execution, queue, working, handling>>

-----------------------------------------------------------------------------
(***************************************************************************)
(* StepSettledHandler.                                                     *)
(***************************************************************************)
(* The settled step and its execution are loaded; one that is over is left alone. *)
Handle(k) ==
    /\ Event("settled", k) \in queue
    /\ queue' = queue \ {Event("settled", k)}
    /\ handling' = IF ~IsLiveExecution THEN handling
                   ELSE With(handling, k, Settlement(IF rows[k].status = "failed" THEN "fail" ELSE "guard"))
    /\ UNCHANGED <<w, rows, execution, working, cancel>>

(* hasFailedSteps, before anything is planned. *)
Guard(k) ==
    /\ Phase(k) = "guard"
    /\ Goto(k, IF HasFailed(rows) THEN "fail" ELSE "latest")
    /\ UNCHANGED <<w, rows, execution, queue, working, cancel>>

(* failExecution: the pending rows are cancelled and the execution ends, in n8n's order or the other. *)
FailExecution(k) ==
    /\ Phase(k) \in {"fail", "failRows", "failEnd"}
    /\ \/ /\ Phase(k) # "failEnd"
          /\ rows' = CancelledPending
          /\ handling' = IF Phase(k) = "fail" THEN [handling EXCEPT ![k].phase = "failEnd"] ELSE Without(handling, k)
          /\ UNCHANGED execution
       \/ /\ Phase(k) # "failRows"
          /\ execution' = IF IsLiveExecution THEN "failed" ELSE execution
          /\ handling' = IF Phase(k) = "fail" THEN [handling EXCEPT ![k].phase = "failRows"] ELSE Without(handling, k)
          /\ UNCHANGED rows
    /\ UNCHANGED <<w, queue, working, cancel>>

(* readSnapshot, first read: the latest row of each batch node. *)
Reading(k, phases) == Phase(k) \in phases
ReadBatches(k) ==
    /\ Reading(k, {"latest", "freshLatest"})
    /\ handling' = [handling EXCEPT ![k].latest = ReadLatest(rows, BatchesOf(g)),
                                    ![k].phase = IF Phase(k) = "latest" THEN "keyed" ELSE "freshKeyed"]
    /\ UNCHANGED <<w, rows, execution, queue, working, cancel>>

SettledKey(k) == IF Phase(k) \in {"keyed", "againKeyed"} THEN {k} ELSE {}

(* What a settlement does with the rows its last read found, or the ones it kept.  A row set *)
(* the decoder refuses rejects the policy's answer, and with it the handler, which leaves   *)
(* the settlement undone.                                                                   *)
Decide(k, found, plan) ==
    LET decided == DecideFromRows(g, k, found, plan)
    IN handling' = IF decided = Refused THEN Without(handling, k)
                   ELSE [handling EXCEPT ![k].phase = "create", ![k].rows = found, ![k].decided = decided]

AnswerFinished(k, answers) ==
    IF answers = {} THEN handling' = Without(handling, k)
    ELSE Goto(k, IF TRUE \in answers THEN "outcome" ELSE "refresh")

UseRows(k, found) ==
    \E plan \in {PlanAt(g, found)} :
      IF Phase(k) \in {"keyed", "againKeyed"} THEN Decide(k, found, plan)
      ELSE AnswerFinished(k, FinishedFromRows(found, plan))

(* readSnapshot, second read: every key the snapshot needs, and the probe. *)
ReadKeyed(k) ==
    /\ Reading(k, {"keyed", "freshKeyed"})
    /\ \E found \in {ReadByKeys(rows, ScopedKeys(g, handling[k].latest, SettledKey(k)))} :
          IF ProbeKeys(g, handling[k].latest) \cap DOMAIN found # {}
            THEN Goto(k, IF Phase(k) = "keyed" THEN "again" ELSE "freshAgain")
            ELSE UseRows(k, found)
    /\ UNCHANGED <<w, rows, execution, queue, working, cancel>>

(* readLatestSnapshot, after an overrun: each node's latest row, then the older keys. *)
ReadAllLatest(k) ==
    /\ Reading(k, {"again", "freshAgain"})
    /\ LET latest == ReadLatest(rows, g.nodes)
       IN handling' = [handling EXCEPT
            ![k] = [@ EXCEPT !.latest = latest,
                             !.rows = ReadByKeys(rows, {<<n, latest[n]>> : n \in g.nodes}),
                             !.phase = IF @ = "again" THEN "againKeyed" ELSE "freshAgainKeyed"]]
    /\ UNCHANGED <<w, rows, execution, queue, working, cancel>>

ReadOlder(k) ==
    /\ Reading(k, {"againKeyed", "freshAgainKeyed"})
    /\ \E older \in {ReadByKeys(rows, OlderKeys(g, handling[k].latest, SettledKey(k)))}, first \in {handling[k].rows} :
         \E found \in {[x \in DOMAIN first \cup DOMAIN older |-> IF x \in DOMAIN first THEN first[x] ELSE older[x]]} :
           UseRows(k, found)
    /\ UNCHANGED <<w, rows, execution, queue, working, cancel>>

SilentCreateSteps(k) ==
    LET decided == handling[k].decided
        fresh == IF HasFailed(rows) THEN {} ELSE (decided.toQueue \cup decided.toSkip) \ DOMAIN rows
        queued == fresh \cap decided.toQueue
    IN /\ Phase(k) = "create"
       /\ rows' = WithDecided(rows, [toQueue |-> queued, toSkip |-> fresh \ queued])
       /\ queue' = queue \cup {Event("ready", x) : x \in queued}
       /\ handling' = IF queued # {} THEN Without(handling, k) ELSE [handling EXCEPT ![k].phase = "isFinished"]
       /\ UNCHANGED <<w, execution, working, cancel>>
(* createSteps: a key is inserted once, and none after a failure.  Each new row is then      *)
(* announced, a publish per row.  One step: an event published later is to every other      *)
(* handler an event not yet taken from the queue, which may wait for as long.               *)
CreateSteps(k) ==
    LET decided == handling[k].decided
        fresh == IF HasFailed(rows) THEN {} ELSE (decided.toQueue \cup decided.toSkip) \ DOMAIN rows
        queued == fresh \cap decided.toQueue
    IN /\ Phase(k) = "create"
       /\ rows' = WithDecided(rows, [toQueue |-> queued, toSkip |-> fresh \ queued])
       /\ queue' = queue \cup {Event("ready", x) : x \in queued} \cup {Event("settled", x) : x \in fresh \ queued}
       /\ handling' = IF queued # {} THEN Without(handling, k) ELSE [handling EXCEPT ![k].phase = "isFinished"]
       /\ UNCHANGED <<w, execution, working, cancel>>

(* isFinished: from the snapshot the decision kept, or read afresh when the entry is another. *)
IsFinishedKept(k) ==
    /\ Phase(k) = "isFinished"
    /\ \E answers \in {FinishedAfterDecision(g, handling[k].rows, handling[k].decided)} : AnswerFinished(k, answers)
    /\ UNCHANGED <<w, rows, execution, queue, working, cancel>>

IsFinishedEvicted(k) ==
    /\ w \in Evicts
    /\ Phase(k) = "isFinished"
    /\ Goto(k, "freshLatest")
    /\ UNCHANGED <<w, rows, execution, queue, working, cancel>>

(* finishExecutionIfDone: hasFailedSteps, then finishExecution's compare-and-set. *)
ReadOutcome(k) ==
    /\ Phase(k) = "outcome"
    /\ Goto(k, IF HasFailed(rows) THEN "endFailed" ELSE "endCompleted")
    /\ UNCHANGED <<w, rows, execution, queue, working, cancel>>

FinishExecution(k) ==
    /\ Phase(k) \in {"endFailed", "endCompleted"}
    /\ execution' = IF ~IsLiveExecution THEN execution
                    ELSE IF Phase(k) = "endFailed" THEN "failed" ELSE "completed"
    /\ handling' = Without(handling, k)
    /\ UNCHANGED <<w, rows, queue, working, cancel>>

(* refreshLiveStatus, on a settlement that ended nothing. *)
RefreshLiveStatus(k) ==
    LET some(statuses) == \E x \in DOMAIN rows : rows[x].status \in statuses
    IN /\ Phase(k) = "refresh"
       /\ execution' = IF ~IsLiveExecution THEN execution
                       ELSE IF some({"queued", "running"}) THEN "running"
                       ELSE IF some({"waiting"}) THEN "waiting" ELSE execution
       /\ handling' = Without(handling, k)
       /\ UNCHANGED <<w, rows, queue, working, cancel>>

-----------------------------------------------------------------------------
ReadyStep == \E k \in DOMAIN rows : Claim(k) \/ Resume(k)
WorkingStep == \E k \in DOMAIN working : LoadExecution(k) \/ Fail(k) \/ Suspend(k)
                                           \/ \E filled \in Fillings(g, NodeOf(k)) : Complete(k, filled)
DecideStep == \E k \in DOMAIN handling : Guard(k) \/ ReadBatches(k) \/ ReadKeyed(k) \/ ReadAllLatest(k)
                                           \/ ReadOlder(k) \/ CreateSteps(k)
EndStep == \E k \in DOMAIN handling : FailExecution(k) \/ IsFinishedKept(k) \/ IsFinishedEvicted(k)
                                        \/ ReadOutcome(k) \/ FinishExecution(k) \/ RefreshLiveStatus(k)
HandleStep == \E k \in DOMAIN rows : Handle(k)
CancelStep == CancelOnRequest \/ CancelPending

Next == ReadyStep \/ WorkingStep \/ HandleStep \/ DecideStep \/ EndStep \/ CancelStep

Spec == Init /\ [][Next]_vars

-----------------------------------------------------------------------------
IsCancelled == \E k \in DOMAIN rows : rows[k].status = "cancelled"
Deciding == {"keyed", "againKeyed"}

(* However the handlers interleave, every row in the store was due: the rows its edges    *)
(* come from have settled, and it was recorded as skipped exactly when none of them made  *)
(* it live.  A read of half a pass, or of rows of two instants, would break this.         *)
EveryRowIsEarned ==
    \A k \in DOMAIN rows \ {TriggerKey} :
      /\ \A e \in EdgesOfStep(g, k) : ~IsPending(g, rows, e, PassOf(k))
      /\ rows[k].status = "skipped" <=> ~\E e \in EdgesOfStep(g, k) : IsLive(g, rows, e, PassOf(k))

(* A settlement that is about to end the execution as done is right, and an execution that *)
(* completed stays so: every row is settled and none failed, no settlement holds a step to *)
(* create, and the count n8n expects is met.                                               *)
SaidFinishedIsTrue ==
    execution = "completed" \/ (\E k \in DOMAIN handling : Phase(k) \in {"outcome", "endCompleted"}) =>
      /\ \A k \in DOMAIN rows : rows[k].status \in SettledStatuses \ {"failed"}
      /\ ReferenceFinished(g, rows)
      /\ \A k \in DOMAIN handling : Phase(k) = "create" =>
            handling[k].decided.toQueue \cup handling[k].decided.toSkip \subseteq DOMAIN rows

(* A decision taken from one snapshot, which reads only the keys a loop's frontier needs,  *)
(* is the one engine v2's rule takes from every row there is at that instant.  One taken   *)
(* after an overrun reads twice, and decides nothing the rule does not.                    *)
DecisionIsTheReference ==
    [][\A k \in DOMAIN handling \cap DOMAIN handling' :
         Phase(k) \in Deciding /\ handling'[k].phase = "create" /\ ~HasFailed(rows) /\ ~IsCancelled =>
           LET due == DecideSuccessors(g, k, rows)
               decided == handling'[k].decided
           IN /\ Phase(k) = "keyed" => decided = due
              /\ decided.toQueue \ DOMAIN rows \subseteq due.toQueue
              /\ decided.toSkip \ DOMAIN rows \subseteq due.toSkip]_vars

IsIdle == queue = {} /\ DOMAIN working \cup DOMAIN handling = {} /\ cancel # "won"

(* When every event is handled and every step has ended, the execution has ended too, and  *)
(* as completed unless a step failed or it was cancelled: no two settlements each leave    *)
(* the last decision, or the last word, to the other.                                      *)
IdleIsOver ==
    IsIdle => \/ execution = "completed"
              \/ execution = "failed" /\ HasFailed(rows)
              \/ execution = "cancelled" /\ cancel = "over"
=============================================================================
