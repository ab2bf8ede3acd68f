------------------------------- MODULE Attempts -------------------------------
(***************************************************************************)
(* What an X_run firing does while it is in flight: the asynchronous       *)
(* attempts of scheduler/run-loop.ts and exhaust.ts, several nodes at once, *)
(* over the execution-global fields they share with n8n.                   *)
(*                                                                         *)
(* An action below is one turn of the event loop: the code between two     *)
(* awaits.  Every node has one activation, whose token the net moves       *)
(* (gadget/run.ts, failure-chain.ts); its try i is the pair <<n, i>>, and  *)
(* the try after the last is the after-loop handling: X_exhausted, or the  *)
(* terminal step of an onFailure chain.                                    *)
(*                                                                         *)
(* A deadline makes the net drop a firing whose code goes on running, so   *)
(* the token and the try it started are separate state.                    *)
(***************************************************************************)
EXTENDS Integers, FiniteSets

CONSTANTS
  Nodes,         \* node names
  None,          \* undefined
  K,             \* the effective budget
  Retries,       \* node -> tries after the first
  Retrying,      \* nodes with a retry gadget
  Chained,       \* nodes with an onFailure chain
  Deadlined,     \* nodes whose policy has a timeoutMs
  StopWorkflow,  \* nodes whose error policy, or whose chain's last step, stops the workflow
  Destination,   \* the destination node of a partial execution, as a set
  MayStop,       \* bound: nodes the host may stop before, or filter out
  MayWait,       \* bound: nodes whose code may set waitTill
  MayFail,       \* bound: nodes whose run or output may throw, or answer an error item
  MayAnswerNull, \* bound: nodes whose output may be null
  MayOpen,       \* bound: nodes that may register a close function
  MayReject      \* bound: nodes one of whose lifecycle hooks may reject

Outcomes == {"ok", "retry", "halt", "waiting", "stopped"}
Claims == {"none", "claimed", "foreign"}

ASSUME AttemptsAssumption ==
  /\ IsFiniteSet(Nodes) /\ K \in Nat \ {0}
  /\ Retries \in [Nodes -> Nat]
  /\ Retrying \subseteq Nodes /\ Chained \subseteq Nodes \ Retrying
  /\ \A n \in Nodes \ (Retrying \cup Chained) : Retries[n] = 0
  /\ Deadlined \subseteq Chained
  /\ StopWorkflow \subseteq Nodes /\ Destination \subseteq Nodes
  /\ None \notin Nodes \cup Outcomes \cup Claims \cup {"success", "error"}
  /\ None \notin Nodes \X Nat

VARIABLES
  budget,       \* tokens on _budget
  halt,         \* whether _halt is marked
  pause,        \* whether _pause is marked
  token,        \* node -> where its activation is
  try,          \* node -> the try its token stands for
  reason,       \* node -> what its last failed try failed of
  step,         \* try -> what its code is awaiting
  outcome,      \* try -> the outcome its code has decided on
  before,       \* try -> waitTillBefore, as the try read it
  claim,        \* try -> its memoised answer to the wait probe
  waitTill,     \* runExecutionData.waitTill: the try whose node set it, or None
  waitingNode,  \* state.waitingNode
  status,       \* try -> executionStatus of the task data it upserted, None without one
  leftover,     \* state.leftoverError: the try whose error it is, or None
  haltError,    \* state.haltError, likewise
  fatal,        \* whether state.fatal is set: run() will reject
  closeFn,      \* state.closeFunction: the try that registered it, or None
  abandoned,    \* state.abandoned: the tries a deadline disowned
  rejected      \* history: the tries a lifecycle hook of which rejected

netSide == <<budget, halt, pause, token, try, reason>>
codeSide == <<step, outcome>>
waitSide == <<before, claim, waitTill, waitingNode>>
written == <<status, leftover, haltError, fatal, closeFn>>
vars == <<netSide, codeSide, waitSide, written, abandoned, rejected>>

Tries == UNION {{<<n, i>> : i \in 0 .. (Retries[n] + 1)} : n \in Nodes}
AfterLoop(a) == a[2] = Retries[a[1]] + 1
Current(n) == <<n, try[n]>>

InCode == {"before", "working", "posting", "handling", "after", "afterError"}
Tokens == {"input", "running", "flying", "timedout", "failed", "routed",
           "done", "halt", "waiting", "stopped"}

Init ==
  /\ budget = K /\ halt = FALSE /\ pause = FALSE
  /\ token = [n \in Nodes |-> "input"]
  /\ try = [n \in Nodes |-> 0]
  /\ reason = [n \in Nodes |-> None]
  /\ step = [a \in Tries |-> "idle"]
  /\ outcome = [a \in Tries |-> None]
  /\ before = [a \in Tries |-> None]
  /\ claim = [a \in Tries |-> None]
  /\ waitTill = None /\ waitingNode = None
  /\ status = [a \in Tries |-> None]
  /\ leftover = None /\ haltError = None /\ fatal = FALSE /\ closeFn = None
  /\ abandoned = {} /\ rejected = {}

-----------------------------------------------------------------------------
(***************************************************************************)
(* The wait claim (wait-claim.ts) and the ends of a turn.                  *)
(***************************************************************************)

\* observeWait: whether n put the execution to wait, given what its try read before.
ObservedByAnyone(n, read) ==
  CASE waitTill = None -> "none"
    [] waitTill # None /\ (waitingNode = n \/ waitTill # read) -> "claimed"
    [] OTHER -> "foreign"
Observed(n, read) ==
  CASE waitTill = None -> "none"
    [] waitTill # None /\ waitingNode = n -> "claimed"
    [] waitTill # None /\ waitingNode = None /\ waitTill # read -> "claimed"
    [] OTHER -> "foreign"

\* The first probe of a try decides and takes the claim; later ones read it.
Probed(a, read) == IF claim[a] = None THEN Observed(a[1], read) ELSE claim[a]
Probe(a, read) ==
  /\ claim' = [claim EXCEPT ![a] = Probed(a, read)]
  /\ waitingNode' = IF Probed(a, read) = "claimed" THEN a[1] ELSE waitingNode

\* What the try that produced the failure read; a deadline's failure carries nothing.
CarriedRead(n) == IF reason[n] = "timeout" THEN None ELSE before[<<n, try[n] - 1>>]
ReadOf(a) == IF AfterLoop(a) THEN CarriedRead(a[1]) ELSE before[a]

Awaits(a, s) == step' = [step EXCEPT ![a] = s]
Decides(a, o) == outcome' = [outcome EXCEPT ![a] = o]
Ends(a, o) == Awaits(a, "over") /\ Decides(a, o)

HaltBranchOfChain(n) == n \in Chained
HasHaltBranch(n) == n \in StopWorkflow \cup Chained
CanRetry(a) == a[1] \in Retrying \cup Chained /\ ~AfterLoop(a)

\* isAbandoned: whether the deadline funnel registered this try.
DisownedInRun(a) == a \in abandoned /\ step[a] = "working"
Disowned(a) == a \in abandoned

\* recordedOutcome: a claimed wait before the destination before the routing.
RecordedOutcome(n, c) ==
  IF c = "claimed" THEN "waiting" ELSE IF n \in Destination THEN "stopped" ELSE "ok"

-----------------------------------------------------------------------------
(***************************************************************************)
(* The net around the code: start, deposit, the retry and deadline         *)
(* transitions.  X/idle is left out, a node having one activation.         *)
(***************************************************************************)

Start(n) ==
  /\ ~halt /\ ~pause /\ budget > 0
  /\ token[n] = "input"
  /\ budget' = budget - 1
  /\ token' = [token EXCEPT ![n] = "running"]
  /\ UNCHANGED <<halt, pause, try, reason, codeSide, waitSide, written, abandoned, rejected>>

\* The outputs of an action that ended land, unless the deadline took the firing.
Lands(n) ==
  LET o == outcome[Current(n)] IN
  /\ token[n] = "flying" /\ step[Current(n)] = "over"
  /\ token' = [token EXCEPT ![n] = CASE o = "ok" -> "routed" [] o = "retry" -> "failed" [] OTHER -> o]
  /\ halt' = (halt \/ o = "halt")
  /\ pause' = (pause \/ o \in {"waiting", "stopped"})
  /\ budget' = IF o \in {"halt", "waiting", "stopped"} THEN budget + 1 ELSE budget
  /\ try' = IF o = "retry" THEN [try EXCEPT ![n] = @ + 1] ELSE try
  /\ UNCHANGED <<reason, codeSide, waitSide, written, abandoned, rejected>>

\* X_done: the two-phase refund.
Done(n) ==
  /\ token[n] = "routed"
  /\ token' = [token EXCEPT ![n] = "done"]
  /\ budget' = budget + 1
  /\ UNCHANGED <<halt, pause, try, reason, codeSide, waitSide, written, abandoned, rejected>>

\* Whether the firing of n's token runs under a deadline: the after-loop handling does not.
DeadlineOfAny(n) == ~AfterLoop(Current(n))
DeadlineOfAnswered(n) == n \in Deadlined /\ ~AfterLoop(Current(n)) /\ step[Current(n)] # "working"
Deadline(n) == n \in Deadlined /\ ~AfterLoop(Current(n))

\* IO-013: the firing is abandoned, its input token forwarded; its code keeps running.
Expire(n) ==
  /\ Deadline(n)
  /\ token[n] = "flying" /\ step[Current(n)] # "over"
  /\ token' = [token EXCEPT ![n] = "timedout"]
  /\ UNCHANGED <<budget, halt, pause, try, reason, codeSide, waitSide, written, abandoned, rejected>>

\* The deadline funnel: inhibited by a halt, not by a pause.
Funnel(n) ==
  /\ ~halt
  /\ token[n] = "timedout"
  /\ abandoned' = abandoned \cup {Current(n)}
  /\ token' = [token EXCEPT ![n] = "failed"]
  /\ try' = [try EXCEPT ![n] = @ + 1]
  /\ reason' = [reason EXCEPT ![n] = "timeout"]
  /\ UNCHANGED <<budget, halt, pause, codeSide, waitSide, written, rejected>>

\* X_retry_wait, or a retry step: the next try's run, while there is one.
RetryWait(n) ==
  /\ ~halt /\ ~pause
  /\ token[n] = "failed" /\ ~AfterLoop(Current(n))
  /\ token' = [token EXCEPT ![n] = "running"]
  /\ UNCHANGED <<budget, halt, pause, try, reason, codeSide, waitSide, written, abandoned, rejected>>

\* X_exhausted, or a terminal step: the wait is probed first, with the failed try's reading.
Exhaust(n) ==
  LET a == Current(n) IN
  /\ ~halt
  /\ token[n] = "failed" /\ AfterLoop(a)
  /\ token' = [token EXCEPT ![n] = "flying"]
  /\ Probe(a, ReadOf(a))
  /\ Awaits(a, IF reason[n] = "soft" THEN "posting" ELSE "handling")
  /\ UNCHANGED <<budget, halt, pause, try, reason, outcome, before, waitTill, written, abandoned, rejected>>

-----------------------------------------------------------------------------
(***************************************************************************)
(* The turns of attempt().                                                 *)
(***************************************************************************)

Takes(n) == token[n] = "running" /\ token' = [token EXCEPT ![n] = "flying"]

\* enterAttempt, first try: stopped before it ran, dropped by the run filter, or entered.
Enter(n) ==
  LET a == <<n, 0>> IN
  /\ try[n] = 0 /\ Takes(n)
  /\ \/ n \in MayStop /\ Ends(a, "stopped") /\ UNCHANGED leftover
     \/ n \in MayStop /\ Ends(a, "ok") /\ leftover' = None
     \/ Awaits(a, "before") /\ UNCHANGED <<outcome, leftover>>
  /\ UNCHANGED <<budget, halt, pause, try, reason, waitSide, status, haltError, fatal, closeFn, abandoned, rejected>>

\* A later try enters and calls the node in one turn.
Reenter(n) ==
  LET a == Current(n) IN
  /\ try[n] > 0 /\ Takes(n)
  /\ before' = [before EXCEPT ![a] = waitTill]
  /\ Awaits(a, "working")
  /\ UNCHANGED <<budget, halt, pause, try, reason, outcome, claim, waitTill, waitingNode, written, abandoned, rejected>>

\* nodeExecuteBefore resolves: waitTill is read and the node is called, disowned or not.
Call(a) ==
  /\ step[a] = "before"
  /\ before' = [before EXCEPT ![a] = waitTill]
  /\ Awaits(a, "working")
  /\ UNCHANGED <<netSide, outcome, claim, waitTill, waitingNode, written, abandoned, rejected>>

\* The node's own code puts the execution to wait.  Bound: it does not do so again
\* once another try has read the value it set.
NodeSetsWait(a) ==
  /\ a[1] \in MayWait /\ step[a] = "working"
  /\ \A b \in Tries : before[b] # a
  /\ waitTill' = a
  /\ UNCHANGED <<netSide, codeSide, before, claim, waitingNode, written, abandoned, rejected>>

\* The catch of attempt(): nothing, a retry, or the recording of the error.
Fails(a, cause) ==
  \/ Disowned(a) /\ Ends(a, "ok") /\ UNCHANGED <<reason, claim, waitingNode>>
  \/ /\ ~Disowned(a) /\ CanRetry(a)
     /\ Ends(a, "retry")
     /\ reason' = [reason EXCEPT ![a[1]] = cause]
     /\ UNCHANGED <<claim, waitingNode>>
  \/ /\ ~Disowned(a) /\ ~CanRetry(a)
     /\ Probe(a, ReadOf(a)) /\ Awaits(a, "handling")
     /\ UNCHANGED <<outcome, reason>>

\* runNode throws.
Throws(a) ==
  /\ step[a] = "working" /\ a[1] \in MayFail
  /\ Fails(a, "error")
  /\ UNCHANGED <<budget, halt, pause, token, try, before, waitTill, written, abandoned, rejected>>

\* runNode answers: the wait is claimed in this turn, before anything else is decided.
Answers(a) ==
  /\ step[a] = "working"
  /\ Probe(a, before[a])
  /\ \/ Disowned(a) /\ Ends(a, "ok") /\ UNCHANGED reason
     \/ /\ ~Disowned(a) /\ CanRetry(a) /\ a[1] \in MayFail
        /\ Ends(a, "retry") /\ reason' = [reason EXCEPT ![a[1]] = "soft"]
     \/ ~Disowned(a) /\ Awaits(a, "posting") /\ UNCHANGED <<outcome, reason>>
  /\ UNCHANGED <<budget, halt, pause, token, try, before, waitTill, written, abandoned, rejected>>

\* createTaskData stamps what the global field says; a foreign claim corrects it.
Status(a) == IF waitTill # None /\ claim[a] # "foreign" THEN "waiting" ELSE "success"

RecordsNothingEver(a) == a[1] \in MayAnswerNull
RecordsNothing(a) == a[1] \in MayAnswerNull /\ claim[a] # "claimed"

(***************************************************************************)
(* finishSuccess: the output is recorded; no output and no claim records   *)
(* nothing; no output of a claimed try throws on its way to the record.    *)
(***************************************************************************)
FinishSuccess(a) ==
  /\ leftover' = None
  /\ \/ /\ status' = [status EXCEPT ![a] = Status(a)]
        /\ Awaits(a, "after") /\ Decides(a, RecordedOutcome(a[1], claim[a]))
        /\ UNCHANGED <<reason, claim, waitingNode>>
     \/ /\ RecordsNothing(a)
        /\ Ends(a, "ok") /\ UNCHANGED <<status, reason, claim, waitingNode>>
     \/ /\ a[1] \in MayAnswerNull /\ ~RecordsNothing(a)
        /\ Fails(a, "error") /\ UNCHANGED status

\* processNodeOutput resolves, the close function first unless the try was disowned, or
\* rejects: in the node's try and in the after-loop handling alike, as a failed run does.
LastCloseFn(a) == closeFn' \in {closeFn} \cup (IF a[1] \in MayOpen THEN {a} ELSE {})
Posted(a) ==
  /\ step[a] = "posting"
  /\ \/ /\ Disowned(a)
        /\ Ends(a, "ok")
        /\ UNCHANGED <<reason, claim, waitingNode, closeFn, leftover, status>>
     \/ /\ a[1] \in MayFail
        /\ Fails(a, "error")
        /\ UNCHANGED <<closeFn, leftover, status>>
     \/ ~Disowned(a) /\ LastCloseFn(a) /\ FinishSuccess(a)
  /\ UNCHANGED <<budget, halt, pause, token, try, before, waitTill, haltError, fatal, abandoned, rejected>>

\* A successful record's nodeExecuteAfter resolves, or rejects inside the node's try.
Recorded(a) ==
  /\ step[a] = "after"
  /\ \/ Awaits(a, "over") /\ UNCHANGED <<outcome, reason, claim, waitingNode, rejected>>
     \/ a[1] \in MayReject /\ rejected' = rejected \cup {a} /\ Fails(a, "error")
  /\ UNCHANGED <<budget, halt, pause, token, try, before, waitTill, written, abandoned>>

\* guarded: what the body rejects with ends the execution.
IsFatal(a) ==
  /\ rejected' = rejected \cup {a} /\ fatal' = TRUE
  /\ haltError' = IF haltError = None THEN a ELSE haltError
  /\ Ends(a, IF HasHaltBranch(a[1]) THEN "halt" ELSE "stopped")

HookRejects(a) ==
  /\ step[a] \in {"before", "handling", "afterError"} /\ a[1] \in MayReject
  /\ IsFatal(a)
  /\ UNCHANGED <<netSide, waitSide, status, leftover, closeFn, abandoned>>

\* handleNodeExecutionError records the error and stops, or continues with an output.
Handled(a) ==
  /\ step[a] = "handling"
  /\ status' = [status EXCEPT ![a] = "error"]
  /\ \/ /\ a[1] \in StopWorkflow
        /\ haltError' = IF haltError = None THEN a ELSE haltError
        /\ Ends(a, "halt") /\ UNCHANGED leftover
     \/ /\ a[1] \notin StopWorkflow
        /\ leftover' = a
        /\ Awaits(a, "afterError") /\ Decides(a, RecordedOutcome(a[1], claim[a]))
        /\ UNCHANGED haltError
  /\ UNCHANGED <<netSide, waitSide, fatal, closeFn, abandoned, rejected>>

\* nodeExecuteAfter of a recorded failure resolves.
ErrorRecorded(a) ==
  /\ step[a] = "afterError"
  /\ Awaits(a, "over")
  /\ UNCHANGED <<netSide, outcome, waitSide, written, abandoned, rejected>>

-----------------------------------------------------------------------------

Executor(n) ==
  \/ Start(n) \/ Lands(n) \/ Done(n) \/ Expire(n) \/ Funnel(n)
  \/ RetryWait(n) \/ Exhaust(n) \/ Enter(n) \/ Reenter(n)

\* Turns the host's own promises resolve, and those only the node's code does.
HostTurn(a) ==
  Call(a) \/ Posted(a) \/ Recorded(a) \/ HookRejects(a) \/ Handled(a) \/ ErrorRecorded(a)
NodeTurn(a) == NodeSetsWait(a) \/ Throws(a) \/ Answers(a)

Next ==
  \/ \E n \in Nodes : Executor(n)
  \/ \E a \in Tries : HostTurn(a) \/ NodeTurn(a)

Spec == Init /\ [][Next]_vars

(***************************************************************************)
(* The executor fires what is enabled and its timers elapse; the host's    *)
(* hooks and output processing come back.  A node's run need not.          *)
(***************************************************************************)
FairSpec ==
  /\ Spec
  /\ \A n \in Nodes : WF_vars(Executor(n))
  /\ \A a \in Tries : WF_vars(HostTurn(a))

-----------------------------------------------------------------------------
(***************************************************************************)
(* Properties.                                                             *)
(***************************************************************************)

TypeOK ==
  /\ budget \in Nat /\ halt \in BOOLEAN /\ pause \in BOOLEAN
  /\ token \in [Nodes -> Tokens]
  /\ try \in [Nodes -> Nat] /\ \A n \in Nodes : Current(n) \in Tries
  /\ reason \in [Nodes -> {None, "error", "soft", "timeout"}]
  /\ step \in [Tries -> InCode \cup {"idle", "over"}]
  /\ outcome \in [Tries -> Outcomes \cup {None}]
  /\ before \in [Tries -> Tries \cup {None}]
  /\ claim \in [Tries -> Claims \cup {None}]
  /\ waitTill \in Tries \cup {None} /\ waitingNode \in Nodes \cup {None}
  /\ status \in [Tries -> {None, "success", "waiting", "error"}]
  /\ leftover \in Tries \cup {None} /\ haltError \in Tries \cup {None}
  /\ closeFn \in Tries \cup {None} /\ fatal \in BOOLEAN
  /\ abandoned \subseteq Tries /\ rejected \subseteq Tries

\* Nothing is in flight and no transition is enabled: the executor's run() returns.
Quiescent ==
  \A n \in Nodes :
    /\ token[n] \notin {"running", "flying", "routed"}
    /\ token[n] = "input" => halt \/ pause
    /\ token[n] = "timedout" => halt
    /\ token[n] = "failed" => halt \/ (pause /\ ~AfterLoop(Current(n)))

(***************************************************************************)
(* The wait is claimed by one node, whichever finish while it is set: two  *)
(* on the waiting branch would both be pushed back and run again on        *)
(* resume.                                                                 *)
(***************************************************************************)
OneClaimant == \A n \in Nodes : token[n] = "waiting" => waitingNode = n

\* A claim is kept across the claimant's retries and a null output: the execution ends
\* paused on the node that waits, unless it halts or the claim was a disowned try's.
ClaimIsKept ==
  (Quiescent /\ waitingNode # None /\ ~halt /\ \A a \in abandoned : a[1] # waitingNode) =>
    pause /\ token[waitingNode] \in {"waiting", "failed"}

\* A run is recorded once, by its last try, however many failed before it.  A hook that
\* rejects behind a record sends a successful run to be tried again, that run and no other,
\* and an error once recorded is final.  (A deadline inside nodeExecuteAfter may add the
\* try it cut short.)
RecordedOnce ==
  \A n \in Nodes \ Deadlined : \A a, b \in Tries :
    (a[1] = n /\ b[1] = n /\ a[2] < b[2] /\ status[a] # None /\ status[b] # None) =>
      a \in rejected /\ status[a] # "error"

\* A halt error is what ends a run: the net halts on every one, and on nothing else.
ErrorEndsRun == Quiescent => (halt <=> haltError # None)

\* A try the deadline disowned writes nothing more to n8n, whatever it was awaiting.
AbandonedIsSilent ==
  [][/\ \A a \in abandoned : status'[a] = status[a]
     /\ closeFn' # closeFn => closeFn' \notin abandoned
     /\ leftover' # leftover => leftover' \notin abandoned
     /\ haltError' # haltError => haltError' \notin abandoned]_vars

\* A deadline frees its node from a run that never answers: the token always settles.
DeadlineSettles ==
  \A n \in Deadlined :
    (token[n] = "running") ~> (halt \/ pause \/ token[n] \in {"routed", "done", "waiting", "stopped"})

-----------------------------------------------------------------------------
(***************************************************************************)
(* What the source says of these fields, and the code does not always do.  *)
(***************************************************************************)

\* A claimed wait takes the waiting branch: the node that claimed it re-runs on resume.
ClaimantWaits ==
  (Quiescent /\ waitingNode # None /\ ~halt) => token[waitingNode] \in {"waiting", "failed"}

\* A run that answers after its deadline took the firing stops there, and certainly does
\* not go on to record once run() has returned.
LateRunStops ==
  [][Quiescent => \A n \in Nodes :
       (token[n] = "timedout" /\ step[Current(n)] = "working") => step'[Current(n)] # "posting"]_vars

=============================================================================
