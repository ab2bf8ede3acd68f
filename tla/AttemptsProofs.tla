---------------------------- MODULE AttemptsProofs ----------------------------
(***************************************************************************)
(* Theorems about the asynchronous attempts: for any nodes, tries, bounds  *)
(* and budget.                                                             *)
(***************************************************************************)
EXTENDS Attempts, TLAPS

LEMMA TryOf ==
  ASSUME NEW n \in Nodes, NEW i
  PROVE  <<n, i>> \in Tries <=> i \in Nat /\ i <= Retries[n] + 1
BY AttemptsAssumption DEF Tries

LEMMA TryParts ==
  ASSUME NEW a \in Tries
  PROVE  /\ a = <<a[1], a[2]>> /\ a[1] \in Nodes
         /\ a[2] \in Nat /\ a[2] <= Retries[a[1]] + 1
BY AttemptsAssumption DEF Tries

LEMMA NextTry ==
  ASSUME NEW n \in Nodes, NEW i, <<n, i>> \in Tries, ~AfterLoop(<<n, i>>)
  PROVE  i + 1 \in Nat /\ <<n, i + 1>> \in Tries
<1>1. i \in Nat /\ i <= Retries[n] + 1 /\ i # Retries[n] + 1 /\ Retries[n] \in Nat
  BY TryOf, AttemptsAssumption DEF AfterLoop
<1> QED
  BY <1>1, TryOf

LEMMA NoneIsNoTry == None \notin Tries
BY AttemptsAssumption DEF Tries

LEMMA FirstTry == \A n \in Nodes : <<n, 0>> \in Tries /\ ~AfterLoop(<<n, 0>>)
BY AttemptsAssumption, TryOf DEF AfterLoop

-----------------------------------------------------------------------------
(***************************************************************************)
(* Type correctness.  The try a token stands for exists because only a try *)
(* with a successor decides to retry, or is under a deadline; what lands   *)
(* is an outcome because no code is over before it has decided one.        *)
(***************************************************************************)
RetriesHaveNext == \A a \in Tries : outcome[a] = "retry" => ~AfterLoop(a)
DeadlinesHaveNext ==
  \A n \in Nodes : token[n] = "timedout" => n \in Deadlined /\ ~AfterLoop(Current(n))
OverIsDecided ==
  \A a \in Tries : step[a] \in {"after", "afterError", "over"} => outcome[a] \in Outcomes
TypeInv == TypeOK /\ RetriesHaveNext /\ DeadlinesHaveNext /\ OverIsDecided

\* The turns below change no more than these of the shared state.
LEMMA ProbeType ==
  ASSUME TypeOK, NEW a \in Tries, NEW read, Probe(a, read)
  PROVE  /\ claim' \in [Tries -> Claims \cup {None}]
         /\ waitingNode' \in Nodes \cup {None}
<1>1. Probed(a, read) \in Claims \cup {None}
  BY DEF Probed, Observed, Claims, TypeOK
<1> QED
  BY <1>1, TryParts DEF Probe, TypeOK

LEMMA EndsType ==
  ASSUME TypeInv, NEW a \in Tries, NEW o \in Outcomes, Ends(a, o), UNCHANGED <<token, try>>,
         o = "retry" => ~AfterLoop(a)
  PROVE  /\ step' \in [Tries -> InCode \cup {"idle", "over"}]
         /\ outcome' \in [Tries -> Outcomes \cup {None}]
         /\ RetriesHaveNext' /\ OverIsDecided' /\ DeadlinesHaveNext'
BY DEF Ends, Awaits, Decides, TypeInv, TypeOK, RetriesHaveNext, OverIsDecided, DeadlinesHaveNext,
       AfterLoop, Current

LEMMA AwaitsType ==
  ASSUME TypeInv, NEW a \in Tries, NEW s \in InCode \cup {"over"}, Awaits(a, s),
         UNCHANGED outcome, s \in {"after", "afterError", "over"} => outcome[a] \in Outcomes
  PROVE  /\ step' \in [Tries -> InCode \cup {"idle", "over"}]
         /\ RetriesHaveNext' /\ OverIsDecided'
BY DEF Awaits, TypeInv, TypeOK, RetriesHaveNext, OverIsDecided, AfterLoop

\* A failure ends the try, or sends it to the error handling.
LEMMA FailsType ==
  ASSUME TypeInv, NEW a \in Tries, NEW cause \in {"error", "soft"}, Fails(a, cause),
         UNCHANGED <<token, try>>
  PROVE  /\ step' \in [Tries -> InCode \cup {"idle", "over"}]
         /\ outcome' \in [Tries -> Outcomes \cup {None}]
         /\ reason' \in [Nodes -> {None, "error", "soft", "timeout"}]
         /\ claim' \in [Tries -> Claims \cup {None}]
         /\ waitingNode' \in Nodes \cup {None}
         /\ RetriesHaveNext' /\ OverIsDecided' /\ DeadlinesHaveNext'
<1>1. CASE Disowned(a) /\ Ends(a, "ok") /\ UNCHANGED <<reason, claim, waitingNode>>
  BY <1>1, EndsType DEF Outcomes, TypeInv, TypeOK
<1>2. CASE /\ CanRetry(a) /\ Ends(a, "retry") /\ UNCHANGED <<claim, waitingNode>>
           /\ reason' = [reason EXCEPT ![a[1]] = cause]
  BY <1>2, EndsType DEF Outcomes, CanRetry, TypeInv, TypeOK
<1>3. CASE /\ Probe(a, ReadOf(a)) /\ Awaits(a, "handling") /\ UNCHANGED <<outcome, reason>>
  <2>1. DeadlinesHaveNext'
    BY DEF TypeInv, DeadlinesHaveNext, AfterLoop, Current
  <2>2. /\ step' \in [Tries -> InCode \cup {"idle", "over"}]
        /\ RetriesHaveNext' /\ OverIsDecided'
    BY <1>3, AwaitsType DEF InCode
  <2> QED
    BY <1>3, <2>1, <2>2, ProbeType DEF TypeInv, TypeOK
<1> QED
  BY <1>1, <1>2, <1>3 DEF Fails

LEMMA InitType == Init => TypeInv
<1> SUFFICES ASSUME Init PROVE TypeInv
  OBVIOUS
<1>1. K \in Nat /\ \A n \in Nodes : Current(n) \in Tries
  BY AttemptsAssumption, FirstTry DEF Init, Current
<1>2. TypeOK
  BY <1>1 DEF Init, TypeOK, Tokens
<1>3. RetriesHaveNext /\ DeadlinesHaveNext /\ OverIsDecided
  BY AttemptsAssumption DEF Init, RetriesHaveNext, DeadlinesHaveNext, OverIsDecided, Outcomes
<1> QED
  BY <1>2, <1>3 DEF TypeInv

\* The net's own steps.
LEMMA NetTypeStep ==
  ASSUME TypeInv, NEW n \in Nodes,
         Start(n) \/ Lands(n) \/ Done(n) \/ Expire(n) \/ Funnel(n) \/ RetryWait(n)
  PROVE  TypeInv'
<1> USE DEF TypeInv, TypeOK, RetriesHaveNext, DeadlinesHaveNext, OverIsDecided, codeSide, waitSide,
        written, AfterLoop, Current
<1>1. CASE Start(n)
  BY <1>1 DEF Start, Tokens
<1>2. CASE Lands(n)
  <2> DEFINE o == outcome[Current(n)]
  <2>1. o \in Outcomes /\ (o = "retry" => ~AfterLoop(Current(n)))
    BY <1>2 DEF Lands
  <2>2. token' \in [Nodes -> Tokens]
    BY <1>2, <2>1 DEF Lands, Outcomes, Tokens
  <2>3. o = "retry" => try[n] + 1 \in Nat /\ <<n, try[n] + 1>> \in Tries
    BY <2>1, NextTry
  <2>4. try' \in [Nodes -> Nat] /\ \A x \in Nodes : <<x, try'[x]>> \in Tries
    BY <1>2, <2>3 DEF Lands
  <2>5. budget' \in Nat /\ halt' \in BOOLEAN /\ pause' \in BOOLEAN
    BY <1>2 DEF Lands
  <2>6. token'[n] # "timedout" /\ \A x \in Nodes \ {n} : token'[x] = token[x] /\ try'[x] = try[x]
    BY <1>2, <2>1 DEF Lands, Outcomes
  <2> QED
    BY <1>2, <2>2, <2>4, <2>5, <2>6 DEF Lands
<1>3. CASE Done(n)
  BY <1>3 DEF Done, Tokens
<1>4. CASE Expire(n)
  BY <1>4 DEF Expire, Deadline, Tokens
<1>5. CASE Funnel(n)
  <2>1. try[n] + 1 \in Nat /\ <<n, try[n] + 1>> \in Tries
    BY <1>5, NextTry DEF Funnel
  <2> QED
    BY <1>5, <2>1 DEF Funnel, Tokens
<1>6. CASE RetryWait(n)
  BY <1>6 DEF RetryWait, Tokens
<1> QED
  BY <1>1, <1>2, <1>3, <1>4, <1>5, <1>6

\* The turns of the code.
LEMMA CodeTypeStep ==
  ASSUME TypeInv, NEW n \in Nodes, NEW a \in Tries,
         Exhaust(n) \/ Enter(n) \/ Reenter(n) \/ HostTurn(a) \/ NodeTurn(a)
  PROVE  TypeInv'
<1> USE DEF codeSide, waitSide, written, netSide
<1>t. Current(n) \in Tries /\ a[1] \in Nodes
  BY TryParts DEF TypeInv, TypeOK
<1>1. CASE Exhaust(n)
  <2>1. DeadlinesHaveNext'
    BY <1>1 DEF Exhaust, TypeInv, TypeOK, DeadlinesHaveNext, AfterLoop, Current
  <2>2. /\ step' \in [Tries -> InCode \cup {"idle", "over"}]
        /\ RetriesHaveNext' /\ OverIsDecided'
    BY <1>1, <1>t, AwaitsType DEF Exhaust, InCode
  <2>3. /\ claim' \in [Tries -> Claims \cup {None}]
        /\ waitingNode' \in Nodes \cup {None}
    BY <1>1, <1>t, ProbeType DEF Exhaust, TypeInv
  <2> QED
    BY <1>1, <2>1, <2>2, <2>3 DEF Exhaust, TypeInv, TypeOK, Tokens, Current
<1>2. CASE Enter(n)
  <2> DEFINE b == <<n, 0>>
  <2>1. b \in Tries /\ ~AfterLoop(b) /\ b = Current(n)
    BY <1>2, FirstTry DEF Enter, Current
  <2>2. token' \in [Nodes -> Tokens] /\ DeadlinesHaveNext'
    BY <1>2 DEF Enter, Takes, TypeInv, TypeOK, Tokens, DeadlinesHaveNext, AfterLoop, Current
  <2>3. /\ step' \in [Tries -> InCode \cup {"idle", "over"}]
        /\ outcome' \in [Tries -> Outcomes \cup {None}]
        /\ RetriesHaveNext' /\ OverIsDecided'
    <3>1. CASE \E o \in {"stopped", "ok"} : Ends(b, o)
      BY <2>1, <3>1 DEF Ends, Awaits, Decides, TypeInv, TypeOK, RetriesHaveNext, OverIsDecided,
                        Outcomes
    <3>2. CASE Awaits(b, "before") /\ UNCHANGED outcome
      BY <2>1, <3>2, AwaitsType DEF InCode, TypeInv, TypeOK
    <3> QED
      BY <1>2, <3>1, <3>2 DEF Enter
  <2> QED
    BY <1>2, <2>2, <2>3 DEF Enter, TypeInv, TypeOK, Current
<1>3. CASE Reenter(n)
  <2>1. token' \in [Nodes -> Tokens] /\ DeadlinesHaveNext'
    BY <1>3 DEF Reenter, Takes, TypeInv, TypeOK, Tokens, DeadlinesHaveNext, AfterLoop, Current
  <2>2. /\ step' \in [Tries -> InCode \cup {"idle", "over"}]
        /\ RetriesHaveNext' /\ OverIsDecided'
    BY <1>3, <1>t, AwaitsType DEF Reenter, InCode
  <2>3. before' \in [Tries -> Tries \cup {None}]
    BY <1>3 DEF Reenter, TypeInv, TypeOK
  <2> QED
    BY <1>3, <2>1, <2>2, <2>3 DEF Reenter, TypeInv, TypeOK, Current
<1>d. UNCHANGED <<token, try>> => DeadlinesHaveNext' /\ \A x \in Nodes : Current(x)' \in Tries
  BY DEF TypeInv, TypeOK, DeadlinesHaveNext, AfterLoop, Current
<1>4. CASE Call(a)
  <2>1. /\ step' \in [Tries -> InCode \cup {"idle", "over"}]
        /\ RetriesHaveNext' /\ OverIsDecided'
    BY <1>4, AwaitsType DEF Call, InCode
  <2>2. before' \in [Tries -> Tries \cup {None}]
    BY <1>4 DEF Call, TypeInv, TypeOK
  <2> QED
    BY <1>4, <1>d, <2>1, <2>2 DEF Call, TypeInv, TypeOK
<1>5. CASE NodeSetsWait(a)
  BY <1>5, <1>d DEF NodeSetsWait, TypeInv, TypeOK, RetriesHaveNext, OverIsDecided, AfterLoop
<1>6. CASE Throws(a)
  BY <1>6, <1>d, FailsType DEF Throws, TypeInv, TypeOK
<1>7. CASE Answers(a)
  <2>1. /\ claim' \in [Tries -> Claims \cup {None}]
        /\ waitingNode' \in Nodes \cup {None}
    BY <1>7, ProbeType DEF Answers, TypeInv
  <2>2. CASE Ends(a, "ok") /\ UNCHANGED reason
    <3>1. "ok" \in Outcomes /\ UNCHANGED <<token, try>>
      BY <1>7 DEF Answers, Outcomes
    <3>2. /\ step' \in [Tries -> InCode \cup {"idle", "over"}]
          /\ outcome' \in [Tries -> Outcomes \cup {None}]
          /\ RetriesHaveNext' /\ OverIsDecided' /\ DeadlinesHaveNext'
      BY <2>2, <3>1, EndsType
    <3> QED
      BY <1>7, <1>d, <2>1, <2>2, <3>2 DEF Answers, TypeInv, TypeOK
  <2>3. CASE CanRetry(a) /\ Ends(a, "retry") /\ reason' = [reason EXCEPT ![a[1]] = "soft"]
    BY <1>7, <1>d, <2>1, <2>3, EndsType DEF Answers, Outcomes, CanRetry, TypeInv, TypeOK
  <2>4. CASE Awaits(a, "posting") /\ UNCHANGED <<outcome, reason>>
    <3>1. /\ step' \in [Tries -> InCode \cup {"idle", "over"}]
          /\ RetriesHaveNext' /\ OverIsDecided'
      BY <2>4, AwaitsType DEF InCode
    <3> QED
      BY <1>7, <1>d, <2>1, <2>4, <3>1 DEF Answers, TypeInv, TypeOK
  <2> QED
    BY <1>7, <2>2, <2>3, <2>4 DEF Answers
<1>8. CASE Posted(a)
  <2> DEFINE Rest == /\ step' \in [Tries -> InCode \cup {"idle", "over"}]
                     /\ outcome' \in [Tries -> Outcomes \cup {None}]
                     /\ reason' \in [Nodes -> {None, "error", "soft", "timeout"}]
                     /\ claim' \in [Tries -> Claims \cup {None}]
                     /\ waitingNode' \in Nodes \cup {None}
                     /\ RetriesHaveNext' /\ OverIsDecided'
  <2>1. /\ leftover' \in Tries \cup {None} /\ closeFn' \in Tries \cup {None}
        /\ status' \in [Tries -> {None, "success", "waiting", "error"}]
    BY <1>8 DEF Posted, LastCloseFn, FinishSuccess, Status, TypeInv, TypeOK
  <2>2. ASSUME Ends(a, "ok"), UNCHANGED <<reason, claim, waitingNode>> PROVE Rest
    BY <1>8, <2>2, EndsType DEF Posted, Outcomes, TypeInv, TypeOK
  <2>3. ASSUME Awaits(a, "after"), Decides(a, RecordedOutcome(a[1], claim[a])),
               UNCHANGED <<reason, claim, waitingNode>>
        PROVE  Rest
    BY <2>3 DEF Awaits, Decides, RecordedOutcome, Outcomes, InCode, TypeInv, TypeOK,
                RetriesHaveNext, OverIsDecided, AfterLoop
  <2>4. ASSUME Fails(a, "error") PROVE Rest
    BY <1>8, <2>4, FailsType DEF Posted
  <2>5. Rest
    BY <1>8, <2>2, <2>3, <2>4 DEF Posted, FinishSuccess
  <2> HIDE DEF Rest
  <2> QED
    BY <1>8, <1>d, <2>1, <2>5 DEF Rest, Posted, TypeInv, TypeOK
<1>9. CASE Recorded(a)
  <2>1. CASE Awaits(a, "over") /\ UNCHANGED <<outcome, reason, claim, waitingNode, rejected>>
    <3>1. outcome[a] \in Outcomes
      BY <1>9 DEF Recorded, TypeInv, OverIsDecided
    <3>2. /\ step' \in [Tries -> InCode \cup {"idle", "over"}]
          /\ RetriesHaveNext' /\ OverIsDecided'
      BY <2>1, <3>1, AwaitsType
    <3> QED
      BY <1>9, <1>d, <2>1, <3>2 DEF Recorded, TypeInv, TypeOK
  <2>2. CASE rejected' = rejected \cup {a} /\ Fails(a, "error")
    BY <1>9, <1>d, <2>2, FailsType DEF Recorded, TypeInv, TypeOK
  <2> QED
    BY <1>9, <2>1, <2>2 DEF Recorded
<1>10. CASE HookRejects(a)
  BY <1>10, <1>d, EndsType DEF HookRejects, IsFatal, Outcomes, TypeInv, TypeOK
<1>11. CASE Handled(a)
  <2>1. /\ step' \in [Tries -> InCode \cup {"idle", "over"}]
        /\ outcome' \in [Tries -> Outcomes \cup {None}]
        /\ RetriesHaveNext' /\ OverIsDecided'
    <3>1. CASE Ends(a, "halt") /\ a[1] \in StopWorkflow
      <4>1. "halt" \in Outcomes /\ UNCHANGED <<token, try>>
        BY <1>11 DEF Handled, Outcomes
      <4> QED
        BY <3>1, <4>1, EndsType
    <3>2. CASE Awaits(a, "afterError") /\ Decides(a, RecordedOutcome(a[1], claim[a]))
      <4>1. /\ RecordedOutcome(a[1], claim[a]) \in Outcomes
            /\ RecordedOutcome(a[1], claim[a]) # "retry"
        BY DEF RecordedOutcome, Outcomes
      <4>2. try' = try
        BY <1>11 DEF Handled
      <4> QED
        BY <3>2, <4>1, <4>2 DEF Awaits, Decides, InCode, TypeInv, TypeOK, RetriesHaveNext,
                                OverIsDecided, AfterLoop
    <3> QED
      BY <1>11, <3>1, <3>2 DEF Handled
  <2> QED
    BY <1>11, <1>d, <2>1 DEF Handled, TypeInv, TypeOK
<1>12. CASE ErrorRecorded(a)
  <2>1. outcome[a] \in Outcomes
    BY <1>12 DEF ErrorRecorded, TypeInv, OverIsDecided
  <2>2. /\ step' \in [Tries -> InCode \cup {"idle", "over"}]
        /\ RetriesHaveNext' /\ OverIsDecided'
    BY <1>12, <2>1, AwaitsType DEF ErrorRecorded
  <2> QED
    BY <1>12, <1>d, <2>2 DEF ErrorRecorded, TypeInv, TypeOK
<1> QED
  BY <1>1, <1>2, <1>3, <1>4, <1>5, <1>6, <1>7, <1>8, <1>9, <1>10, <1>11, <1>12
     DEF HostTurn, NodeTurn

LEMMA TypeStep == TypeInv /\ [Next]_vars => TypeInv'
<1> SUFFICES ASSUME TypeInv, [Next]_vars PROVE TypeInv'
  OBVIOUS
<1>1. ASSUME NEW n \in Nodes, Executor(n) PROVE TypeInv'
  <2>1. Current(n) \in Tries
    BY DEF TypeInv, TypeOK
  <2> QED
    BY <1>1, <2>1, NetTypeStep, CodeTypeStep DEF Executor
<1>2. ASSUME NEW a \in Tries, HostTurn(a) \/ NodeTurn(a) PROVE TypeInv'
  BY <1>2, TryParts, CodeTypeStep
<1>3. CASE UNCHANGED vars
  BY <1>3 DEF vars, netSide, codeSide, waitSide, written, TypeInv, TypeOK, RetriesHaveNext,
              DeadlinesHaveNext, OverIsDecided, AfterLoop, Current
<1> QED
  BY <1>1, <1>2, <1>3 DEF Next

\* Every field holds what it may, and the try a token stands for is one the node has.
THEOREM TypeCorrect == Spec => []TypeOK
<1>1. TypeInv => TypeOK
  BY DEF TypeInv
<1> QED
  BY <1>1, InitType, TypeStep, PTL DEF Spec

-----------------------------------------------------------------------------
(***************************************************************************)
(* The wait has one claimant: a claim is decided once per try, its holder  *)
(* is waitingNode as long as it stands, and only a claimed try ends in the *)
(* outcome that moves the token to waiting.                                *)
(***************************************************************************)
ClaimantIsWaitingNode == \A a \in Tries : claim[a] = "claimed" => waitingNode = a[1]
WaitingIsClaimed == \A a \in Tries : outcome[a] = "waiting" => claim[a] = "claimed"
ClaimInv == ClaimantIsWaitingNode /\ WaitingIsClaimed /\ OneClaimant

\* A probe takes the claim only where nobody has it.
LEMMA ProbeClaims ==
  ASSUME TypeInv, ClaimInv, NEW a \in Tries, NEW read, Probe(a, read)
  PROVE  /\ ClaimantIsWaitingNode'
         /\ \A b \in Tries : claim[b] = "claimed" => claim'[b] = "claimed"
         /\ waitingNode # None => waitingNode' = waitingNode
<1>1. \A b \in Tries : claim'[b] = IF b = a THEN Probed(a, read) ELSE claim[b]
  BY DEF Probe, TypeInv, TypeOK
<1>2. claim[a] = "claimed" => Probed(a, read) = "claimed"
  BY AttemptsAssumption DEF Probed, Claims
<1>3. Probed(a, read) = "claimed" => waitingNode \in {None, a[1]} /\ waitingNode' = a[1]
  <2>1. Observed(a[1], read) = "claimed" => waitingNode \in {None, a[1]}
    BY DEF Observed
  <2> QED
    BY <2>1 DEF Probe, Probed, ClaimInv, ClaimantIsWaitingNode
<1>4. Probed(a, read) # "claimed" => waitingNode' = waitingNode
  BY DEF Probe
<1>5. \A b \in Tries : b[1] # None
  BY TryParts, AttemptsAssumption
<1> QED
  BY <1>1, <1>2, <1>3, <1>4, <1>5 DEF ClaimInv, ClaimantIsWaitingNode

\* A turn that leaves the tokens alone, keeps the claims and decides no wait but a claimed one.
LEMMA ClaimsStand ==
  ASSUME TypeInv, ClaimInv, ClaimantIsWaitingNode', UNCHANGED token,
         \A b \in Tries : claim[b] = "claimed" => claim'[b] = "claimed",
         waitingNode # None => waitingNode' = waitingNode,
         \A b \in Tries : outcome'[b] = "waiting" => outcome[b] = "waiting" \/ claim'[b] = "claimed"
  PROVE  ClaimInv'
<1>1. \A n \in Nodes : n # None
  BY AttemptsAssumption
<1>2. OneClaimant'
  BY <1>1 DEF ClaimInv, OneClaimant
<1> QED
  BY <1>2 DEF ClaimInv, WaitingIsClaimed

LEMMA FailsKeepsClaims ==
  ASSUME TypeInv, ClaimInv, NEW a \in Tries, NEW cause, Fails(a, cause), UNCHANGED token
  PROVE  ClaimInv'
<1>1. \A b \in Tries : outcome'[b] = "waiting" => outcome[b] = "waiting"
  BY DEF Fails, Ends, Decides, TypeInv, TypeOK
<1>2. CASE UNCHANGED <<claim, waitingNode>>
  BY <1>1, <1>2, ClaimsStand DEF ClaimInv, ClaimantIsWaitingNode
<1>3. CASE Probe(a, ReadOf(a))
  BY <1>1, <1>3, ProbeClaims, ClaimsStand
<1> QED
  BY <1>2, <1>3 DEF Fails

LEMMA ClaimStep ==
  ASSUME TypeInv, ClaimInv, [Next]_vars
  PROVE  ClaimInv'
<1> USE DEF codeSide, waitSide, netSide
<1>k. UNCHANGED <<claim, waitingNode>> => ClaimantIsWaitingNode'
  BY DEF ClaimInv, ClaimantIsWaitingNode
<1>n. ASSUME NEW n \in Nodes, NEW s \in Tokens \ {"waiting"}, token' = [token EXCEPT ![n] = s],
             UNCHANGED <<claim, waitingNode>>,
             \A b \in Tries : outcome'[b] = "waiting" => outcome[b] = "waiting"
      PROVE  ClaimInv'
  BY <1>n, <1>k DEF ClaimInv, WaitingIsClaimed, OneClaimant, TypeInv, TypeOK
<1>1. ASSUME NEW n \in Nodes,
             Start(n) \/ Done(n) \/ Expire(n) \/ Funnel(n) \/ RetryWait(n)
      PROVE  ClaimInv'
  BY <1>1, <1>n DEF Start, Done, Expire, Funnel, RetryWait, Tokens
<1>2. ASSUME NEW n \in Nodes, Lands(n) PROVE ClaimInv'
  <2>1. Current(n) \in Tries /\ Current(n)[1] = n
    BY DEF TypeInv, TypeOK, Current
  <2>2. token'[n] = "waiting" => outcome[Current(n)] = "waiting"
    BY <1>2 DEF Lands, TypeInv, TypeOK
  <2>3. OneClaimant'
    BY <1>2, <2>1, <2>2 DEF Lands, TypeInv, TypeOK, ClaimInv, ClaimantIsWaitingNode,
                            WaitingIsClaimed, OneClaimant
  <2> QED
    BY <1>2, <1>k, <2>3 DEF Lands, ClaimInv, WaitingIsClaimed
<1>3. ASSUME NEW n \in Nodes, Exhaust(n) PROVE ClaimInv'
  <2>1. Current(n) \in Tries /\ Probe(Current(n), ReadOf(Current(n)))
    BY <1>3 DEF Exhaust, TypeInv, TypeOK
  <2>2. \A m \in Nodes : token'[m] = "waiting" => token[m] = "waiting" /\ m # None
    BY <1>3, AttemptsAssumption DEF Exhaust, TypeInv, TypeOK
  <2>3. OneClaimant' /\ WaitingIsClaimed'
    BY <1>3, <2>1, <2>2, ProbeClaims DEF Exhaust, ClaimInv, OneClaimant, WaitingIsClaimed
  <2> QED
    BY <2>1, <2>3, ProbeClaims DEF ClaimInv
<1>4. ASSUME NEW n \in Nodes, Enter(n) \/ Reenter(n) PROVE ClaimInv'
  <2>1. <<n, 0>> \in Tries
    BY FirstTry
  <2>2. \A b \in Tries : outcome'[b] = "waiting" => outcome[b] = "waiting"
    BY <1>4, <2>1 DEF Enter, Reenter, Ends, Decides, TypeInv, TypeOK
  <2> QED
    BY <1>4, <1>n, <2>2 DEF Enter, Reenter, Takes, Tokens
<1>5. ASSUME NEW a \in Tries, NodeTurn(a) PROVE ClaimInv'
  <2>1. CASE NodeSetsWait(a)
    BY <2>1, <1>k, ClaimsStand DEF NodeSetsWait
  <2>2. CASE Throws(a)
    BY <2>2, FailsKeepsClaims DEF Throws
  <2>3. CASE Answers(a)
    <3>1. \A b \in Tries : outcome'[b] = "waiting" => outcome[b] = "waiting"
      BY <2>3 DEF Answers, Ends, Decides, TypeInv, TypeOK
    <3> QED
      BY <2>3, <3>1, ProbeClaims, ClaimsStand DEF Answers
  <2> QED
    BY <1>5, <2>1, <2>2, <2>3 DEF NodeTurn
<1>6. ASSUME NEW a \in Tries, HostTurn(a) PROVE ClaimInv'
  <2>w. RecordedOutcome(a[1], claim[a]) = "waiting" => claim[a] = "claimed"
    BY DEF RecordedOutcome
  <2>d. ASSUME UNCHANGED <<token, claim, waitingNode>>,
               outcome' = outcome \/ Decides(a, RecordedOutcome(a[1], claim[a]))
                 \/ \E o \in Outcomes \ {"waiting"} : Decides(a, o)
        PROVE  ClaimInv'
    <3>1. \A b \in Tries : outcome'[b] = "waiting" => outcome[b] = "waiting" \/ claim'[b] = "claimed"
      BY <2>d, <2>w DEF Decides, TypeInv, TypeOK
    <3> QED
      BY <2>d, <3>1, <1>k, ClaimsStand
  <2>1. CASE Posted(a)
    <3>1. CASE Fails(a, "error")
      BY <2>1, <3>1, FailsKeepsClaims DEF Posted
    <3> QED
      BY <2>1, <2>d, <3>1 DEF Posted, FinishSuccess, Ends, Outcomes
  <2>2. CASE Recorded(a)
    <3>1. CASE Fails(a, "error")
      BY <2>2, <3>1, FailsKeepsClaims DEF Recorded
    <3> QED
      BY <2>2, <2>d, <3>1 DEF Recorded
  <2>3. CASE Call(a) \/ HookRejects(a) \/ Handled(a) \/ ErrorRecorded(a)
    BY <2>3, <2>d DEF Call, HookRejects, IsFatal, Handled, ErrorRecorded, Ends, Outcomes
  <2> QED
    BY <1>6, <2>1, <2>2, <2>3 DEF HostTurn
<1>7. CASE UNCHANGED vars
  BY <1>7 DEF vars, ClaimInv, ClaimantIsWaitingNode, WaitingIsClaimed, OneClaimant
<1> QED
  BY <1>1, <1>2, <1>3, <1>4, <1>5, <1>6, <1>7 DEF Next, Executor

\* However many nodes finish while waitTill is set, one of them takes the waiting branch.
THEOREM WaitHasOneClaimant == Spec => []OneClaimant
<1>1. Init => ClaimInv
  BY AttemptsAssumption
     DEF Init, ClaimInv, ClaimantIsWaitingNode, WaitingIsClaimed, OneClaimant, Outcomes, Claims
<1>2. TypeInv /\ ClaimInv /\ [Next]_vars => ClaimInv'
  BY ClaimStep
<1>3. ClaimInv => OneClaimant
  BY DEF ClaimInv
<1> QED
  BY <1>1, <1>2, <1>3, InitType, TypeStep, PTL DEF Spec

-----------------------------------------------------------------------------
(***************************************************************************)
(* Who owns the code.  A try that is still awaiting something is the one   *)
(* its node's token stands for, unless a deadline took the firing, and it  *)
(* is disowned as soon as the token moves on.  Errors are handled by tries *)
(* that cannot be retried, which have no deadline.                         *)
(***************************************************************************)
Owned(a) == token[a[1]] = "flying" /\ Current(a[1]) = a
TimedOut(a) == token[a[1]] = "timedout" /\ Current(a[1]) = a
HasDeadline(a) == a[1] \in Deadlined /\ ~AfterLoop(a)
InCodeIsOwned == \A a \in Tries : step[a] \in InCode => Owned(a) \/ TimedOut(a) \/ a \in abandoned
HandlingIsLast == \A a \in Tries : step[a] \in {"handling", "afterError"} => ~CanRetry(a)
AbandonedHadDeadline == \A a \in abandoned : HasDeadline(a)
OwnInv == InCodeIsOwned /\ HandlingIsLast /\ AbandonedHadDeadline

\* Errors are handled where no deadline is, so by the owner of the token.
LEMMA OwnedWithoutDeadline ==
  ASSUME TypeInv, OwnInv, NEW a \in Tries, step[a] \in InCode, ~HasDeadline(a)
  PROVE  Owned(a)
<1>1. a \notin abandoned
  BY DEF OwnInv, AbandonedHadDeadline
<1>2. ~TimedOut(a)
  BY TryParts DEF TypeInv, DeadlinesHaveNext, TimedOut, HasDeadline
<1> QED
  BY <1>1, <1>2 DEF OwnInv, InCodeIsOwned

LEMMA HandlingIsOwned ==
  ASSUME TypeInv, OwnInv, NEW a \in Tries, step[a] \in {"handling", "afterError"}
  PROVE  ~HasDeadline(a) /\ Owned(a)
<1>1. ~HasDeadline(a)
  BY AttemptsAssumption DEF OwnInv, HandlingIsLast, HasDeadline, CanRetry
<1> QED
  BY <1>1, OwnedWithoutDeadline DEF InCode

\* A step of the net takes a token away from code that is over, or a deadline does.
LEMMA TokenMoveOwned ==
  ASSUME TypeInv, OwnInv, NEW n \in Nodes, UNCHANGED step, abandoned \subseteq abandoned',
         token[n] = "flying" =>
           step[Current(n)] = "over" \/ (token'[n] = "timedout" /\ try'[n] = try[n]),
         token[n] = "timedout" => Current(n) \in abandoned',
         \A m \in Nodes \ {n} : token'[m] = token[m] /\ try'[m] = try[m]
  PROVE  InCodeIsOwned' /\ HandlingIsLast'
<1>1. \A a \in Tries : a[1] \in Nodes
  BY TryParts
<1>2. ASSUME NEW a \in Tries, step[a] \in InCode, a \notin abandoned'
      PROVE  token'[a[1]] \in {"flying", "timedout"} /\ <<a[1], try'[a[1]]>> = a
  <2>1. Owned(a) \/ TimedOut(a)
    BY <1>2 DEF OwnInv, InCodeIsOwned
  <2>2. CASE a[1] = n
    BY <1>2, <2>1, <2>2 DEF Owned, TimedOut, Current, InCode
  <2>3. CASE a[1] # n
    BY <1>1, <2>1, <2>3 DEF Owned, TimedOut, Current
  <2> QED
    BY <2>2, <2>3
<1> QED
  BY <1>2 DEF OwnInv, InCodeIsOwned, HandlingIsLast, Owned, TimedOut, Current, AfterLoop, CanRetry

\* A turn of code that was running already.
LEMMA TurnOwned ==
  ASSUME TypeInv, OwnInv, NEW a \in Tries, NEW s, Awaits(a, s), step[a] \in InCode,
         UNCHANGED <<token, try, abandoned>>, s \in {"handling", "afterError"} => ~CanRetry(a)
  PROVE  OwnInv'
<1>1. \A b \in Tries : step'[b] = IF b = a THEN s ELSE step[b]
  BY DEF Awaits, TypeInv, TypeOK
<1> QED
  BY <1>1 DEF OwnInv, InCodeIsOwned, HandlingIsLast, AbandonedHadDeadline, Owned, TimedOut, Current,
              HasDeadline, AfterLoop, CanRetry

\* A turn that puts the token of its node in flight.
LEMMA EntryOwned ==
  ASSUME TypeInv, OwnInv, NEW n \in Nodes, NEW s, Awaits(Current(n), s),
         token[n] \notin {"flying", "timedout"}, token' = [token EXCEPT ![n] = "flying"],
         UNCHANGED <<try, abandoned>>,
         s \in {"handling", "afterError"} => ~CanRetry(Current(n))
  PROVE  OwnInv'
<1>1. Current(n) \in Tries
  BY DEF TypeInv, TypeOK
<1>2. \A b \in Tries : step'[b] = IF b = Current(n) THEN s ELSE step[b]
  BY <1>1 DEF Awaits, TypeInv, TypeOK
<1>3. \A m \in Nodes : token'[m] = IF m = n THEN "flying" ELSE token[m]
  BY DEF TypeInv, TypeOK
<1>4. \A b \in Tries : b[1] \in Nodes
  BY TryParts
<1>5. InCodeIsOwned'
  <2>1. ASSUME NEW b \in Tries, step'[b] \in InCode, b \notin abandoned
        PROVE  token'[b[1]] \in {"flying", "timedout"} /\ <<b[1], try'[b[1]]>> = b
    <3>1. CASE b = Current(n)
      BY <3>1, <1>3 DEF Current
    <3>2. CASE b # Current(n)
      BY <2>1, <3>2, <1>2, <1>3, <1>4 DEF OwnInv, InCodeIsOwned, Owned, TimedOut, Current
    <3> QED
      BY <3>1, <3>2
  <2> QED
    BY <2>1 DEF InCodeIsOwned, Owned, TimedOut, Current
<1> QED
  BY <1>2, <1>5 DEF OwnInv, HandlingIsLast, AbandonedHadDeadline, HasDeadline, AfterLoop, CanRetry

LEMMA OwnStep ==
  ASSUME TypeInv, OwnInv, [Next]_vars
  PROVE  OwnInv'
<1> USE DEF codeSide, netSide, Ends
<1>a. UNCHANGED abandoned => AbandonedHadDeadline'
  BY DEF OwnInv, AbandonedHadDeadline, HasDeadline, AfterLoop
<1>1. ASSUME NEW n \in Nodes, Start(n) \/ Done(n) \/ RetryWait(n) \/ Lands(n) \/ Expire(n)
      PROVE  OwnInv'
  <2>1. /\ token[n] = "flying" =>
             step[Current(n)] = "over" \/ (token'[n] = "timedout" /\ try'[n] = try[n])
        /\ token[n] # "timedout"
        /\ \A m \in Nodes \ {n} : token'[m] = token[m] /\ try'[m] = try[m]
        /\ UNCHANGED <<step, abandoned>>
    BY <1>1 DEF Start, Done, RetryWait, Lands, Expire, Current, TypeInv, TypeOK
  <2> QED
    BY <1>a, <2>1, TokenMoveOwned DEF OwnInv
<1>2. ASSUME NEW n \in Nodes, Funnel(n) PROVE OwnInv'
  <2>1. InCodeIsOwned' /\ HandlingIsLast'
    <3>1. /\ token[n] # "flying" /\ UNCHANGED step
          /\ abandoned \subseteq abandoned' /\ Current(n) \in abandoned'
          /\ \A m \in Nodes \ {n} : token'[m] = token[m] /\ try'[m] = try[m]
      BY <1>2 DEF Funnel, TypeInv, TypeOK
    <3> QED
      BY <3>1, TokenMoveOwned
  <2>2. HasDeadline(Current(n))
    BY <1>2 DEF Funnel, TypeInv, DeadlinesHaveNext, HasDeadline, Current
  <2>3. AbandonedHadDeadline'
    BY <1>2, <2>2 DEF Funnel, OwnInv, AbandonedHadDeadline, HasDeadline, AfterLoop
  <2> QED
    BY <2>1, <2>3 DEF OwnInv
<1>3. ASSUME NEW n \in Nodes, Exhaust(n) PROVE OwnInv'
  <2>1. ~CanRetry(Current(n))
    BY <1>3 DEF Exhaust, CanRetry
  <2> QED
    BY <1>3, <2>1, EntryOwned DEF Exhaust
<1>4. ASSUME NEW n \in Nodes, Enter(n) \/ Reenter(n) PROVE OwnInv'
  <2>1. /\ token[n] \notin {"flying", "timedout"} /\ token' = [token EXCEPT ![n] = "flying"]
        /\ UNCHANGED <<try, abandoned>>
        /\ \E s \in {"over", "before", "working"} : Awaits(Current(n), s)
    BY <1>4 DEF Enter, Reenter, Takes, Current
  <2> QED
    BY <2>1, EntryOwned
<1>5. ASSUME NEW a \in Tries, HostTurn(a) \/ NodeTurn(a) PROVE OwnInv'
  <2>1. CASE NodeSetsWait(a)
    BY <1>a, <2>1 DEF NodeSetsWait, OwnInv, InCodeIsOwned, HandlingIsLast, Owned, TimedOut, Current,
                      AfterLoop, CanRetry
  <2> DEFINE Goes == \E s : Awaits(a, s) /\ (s = "handling" => ~CanRetry(a)) /\ s # "afterError"
  <2>2. ASSUME Fails(a, "error") PROVE Goes
    BY <2>2 DEF Fails
  <2>3. CASE Throws(a) \/ Recorded(a) \/ Posted(a)
    <3>1. UNCHANGED <<token, try, abandoned>> /\ step[a] \in InCode
      BY <2>3 DEF Throws, Recorded, Posted, InCode
    <3>2. Goes
      BY <2>3, <2>2 DEF Throws, Recorded, Posted, FinishSuccess
    <3> QED
      BY <3>1, <3>2, TurnOwned
  <2>4. CASE Answers(a) \/ Call(a) \/ HookRejects(a) \/ ErrorRecorded(a)
    <3>1. UNCHANGED <<token, try, abandoned>> /\ step[a] \in InCode
      BY <2>4 DEF Answers, Call, HookRejects, ErrorRecorded, InCode
    <3>2. \E s \in {"over", "working", "posting"} : Awaits(a, s)
      BY <2>4 DEF Answers, Call, HookRejects, IsFatal, ErrorRecorded
    <3> QED
      BY <3>1, <3>2, TurnOwned
  <2>5. CASE Handled(a)
    <3>1. UNCHANGED <<token, try, abandoned>> /\ step[a] \in InCode /\ ~CanRetry(a)
      BY <2>5 DEF Handled, InCode, OwnInv, HandlingIsLast
    <3>2. \E s : Awaits(a, s)
      BY <2>5 DEF Handled
    <3> QED
      BY <3>1, <3>2, TurnOwned
  <2> QED
    BY <1>5, <2>1, <2>3, <2>4, <2>5 DEF HostTurn, NodeTurn
<1>6. CASE UNCHANGED vars
  BY <1>6 DEF vars, OwnInv, InCodeIsOwned, HandlingIsLast, AbandonedHadDeadline, Owned, TimedOut,
              Current, HasDeadline, AfterLoop, CanRetry
<1> QED
  BY <1>1, <1>2, <1>3, <1>4, <1>5, <1>6 DEF Next, Executor

LEMMA InitOwn == Init => OwnInv
BY DEF Init, OwnInv, InCodeIsOwned, HandlingIsLast, AbandonedHadDeadline, InCode

\* What a step may write to the fields n8n reads: never for a try that was disowned before.
LEMMA SilentStep ==
  ASSUME Deadlined \cap MayReject = {}, TypeInv, OwnInv, [Next]_vars
  PROVE  /\ \A a \in abandoned : status'[a] = status[a]
         /\ closeFn' # closeFn => closeFn' \notin abandoned
         /\ leftover' # leftover => leftover' \notin abandoned
         /\ haltError' # haltError => haltError' \notin abandoned
<1> DEFINE Silent == /\ \A a \in abandoned : status'[a] = status[a]
                     /\ closeFn' # closeFn => closeFn' \notin abandoned
                     /\ leftover' # leftover => leftover' \notin abandoned
                     /\ haltError' # haltError => haltError' \notin abandoned
<1> USE DEF written
<1>n. None \notin abandoned
  BY NoneIsNoTry DEF TypeInv, TypeOK
<1>1. ASSUME NEW n \in Nodes, Executor(n) PROVE Silent
  BY <1>1, <1>n DEF Executor, Start, Lands, Done, Expire, Funnel, RetryWait, Exhaust, Enter, Reenter
<1>2. ASSUME NEW a \in Tries, NodeTurn(a) \/ Call(a) \/ Recorded(a) \/ ErrorRecorded(a) PROVE Silent
  BY <1>2 DEF NodeTurn, NodeSetsWait, Throws, Answers, Call, Recorded, ErrorRecorded
<1>3. ASSUME NEW a \in Tries, Posted(a) PROVE Silent
  <2>1. CASE a \in abandoned
    BY <1>3, <2>1 DEF Posted, Disowned
  <2>2. CASE a \notin abandoned
    BY <1>3, <1>n, <2>2 DEF Posted, LastCloseFn, FinishSuccess, TypeInv, TypeOK
  <2> QED
    BY <2>1, <2>2
<1>4. ASSUME NEW a \in Tries, HookRejects(a) PROVE Silent
  <2>1. a \notin abandoned
    BY <1>4 DEF HookRejects, OwnInv, AbandonedHadDeadline, HasDeadline
  <2> QED
    BY <1>4, <2>1 DEF HookRejects, IsFatal
<1>5. ASSUME NEW a \in Tries, Handled(a) PROVE Silent
  <2>1. a \notin abandoned
    BY <1>5, HandlingIsOwned DEF Handled, OwnInv, AbandonedHadDeadline
  <2> QED
    BY <1>5, <2>1 DEF Handled, TypeInv, TypeOK
<1>6. CASE UNCHANGED vars
  BY <1>6 DEF vars
<1> QED
  BY <1>1, <1>2, <1>3, <1>4, <1>5, <1>6 DEF Next, HostTurn

\* A node whose deadline passed may answer whenever it likes: unless its own lifecycle hooks
\* reject, nothing it does reaches the execution any more.
THEOREM DisownedIsSilent ==
  ASSUME Deadlined \cap MayReject = {}
  PROVE  Spec => AbandonedIsSilent
<1>1. TypeInv /\ OwnInv /\ [Next]_vars => OwnInv'
  BY OwnStep
<1>2. TypeInv /\ OwnInv /\ [Next]_vars =>
        [/\ \A a \in abandoned : status'[a] = status[a]
         /\ closeFn' # closeFn => closeFn' \notin abandoned
         /\ leftover' # leftover => leftover' \notin abandoned
         /\ haltError' # haltError => haltError' \notin abandoned]_vars
  BY SilentStep
<1> QED
  BY <1>1, <1>2, InitType, InitOwn, TypeStep, PTL DEF Spec, AbandonedIsSilent

-----------------------------------------------------------------------------
(***************************************************************************)
(* A run is recorded once: no try has a record that its node has not come  *)
(* to, and a record no hook rejected behind, or an error, is its node's    *)
(* last: the token has settled with it and never goes back.                *)
(***************************************************************************)
SettledTokens == {"flying", "routed", "done", "halt", "waiting", "stopped"}
Settles(a) ==
  /\ Current(a[1]) = a /\ token[a[1]] \in SettledTokens
  /\ step[a] \in {"after", "afterError", "over"} /\ outcome[a] \in Outcomes \ {"retry"}
IsFinal(a) == status[a] = "error" \/ (status[a] # None /\ a \notin rejected)
RecordSettles == \A a \in Tries : (a[1] \notin Deadlined /\ IsFinal(a)) => Settles(a)
RecordsBehind == \A a \in Tries : (a[1] \notin Deadlined /\ status[a] # None) => a[2] <= try[a[1]]
AfterIsSuccess == \A a \in Tries : step[a] = "after" => status[a] # "error"

LEMMA BehindStep ==
  ASSUME TypeInv, OwnInv, RecordsBehind, [Next]_vars
  PROVE  RecordsBehind'
<1> USE DEF codeSide, netSide, written, InCode
<1>1. \A n \in Nodes : try[n] \in Nat /\ try'[n] \in Nat /\ try'[n] >= try[n]
  <2>1. ASSUME NEW m \in Nodes, Executor(m) PROVE try' = try \/ try' = [try EXCEPT ![m] = @ + 1]
    BY <2>1 DEF Executor, Start, Lands, Done, Expire, Funnel, RetryWait, Exhaust, Enter, Reenter
  <2>2. ASSUME NEW a \in Tries, HostTurn(a) \/ NodeTurn(a) PROVE try' = try
    BY <2>2 DEF HostTurn, NodeTurn, NodeSetsWait, Throws, Answers, Call, Posted, Recorded, HookRejects,
                Handled, ErrorRecorded
  <2>3. try' = try \/ \E m \in Nodes : try' = [try EXCEPT ![m] = @ + 1]
    BY <2>1, <2>2 DEF Next, vars
  <2> QED
    BY <2>3 DEF TypeInv, TypeOK
<1>2. ASSUME NEW a \in Tries, a[1] \notin Deadlined, status'[a] # status[a] PROVE a[2] = try[a[1]]
  <2>1. \A n \in Nodes : Executor(n) => status' = status
    BY DEF Executor, Start, Lands, Done, Expire, Funnel, RetryWait, Exhaust, Enter, Reenter
  <2>2. PICK b \in Tries : HostTurn(b) \/ NodeTurn(b)
    BY <1>2, <2>1 DEF Next, vars
  <2>3. (Posted(b) \/ Handled(b)) /\ b = a
    BY <1>2, <2>2 DEF HostTurn, NodeTurn, NodeSetsWait, Throws, Answers, Call, Posted, FinishSuccess, Recorded,
                      HookRejects, IsFatal, Handled, ErrorRecorded, TypeInv, TypeOK
  <2>4. Owned(a)
    BY <1>2, <2>3, OwnedWithoutDeadline DEF Posted, Handled, HasDeadline
  <2> QED
    BY <2>4 DEF Owned, Current
<1>3. \A a \in Tries : a[1] \in Nodes /\ a[2] \in Nat
  BY TryParts
<1>4. ASSUME NEW a \in Tries, a[1] \notin Deadlined, status'[a] # None PROVE a[2] <= try'[a[1]]
  <2>1. a[2] <= try[a[1]]
    BY <1>1, <1>2, <1>3, <1>4 DEF RecordsBehind
  <2> QED
    BY <1>1, <1>3, <2>1
<1> QED
  BY <1>4 DEF RecordsBehind

LEMMA AfterStep ==
  ASSUME TypeInv, AfterIsSuccess, [Next]_vars
  PROVE  AfterIsSuccess'
<1> USE DEF codeSide, netSide, written
\* No turn but the recording of an output leads to "after".
<1>a. ASSUME NEW a \in Tries, status' = status, NEW s, s # "after",
             step' = step \/ Awaits(a, s)
      PROVE  AfterIsSuccess'
  BY <1>a DEF AfterIsSuccess, Awaits, TypeInv, TypeOK
<1>f. ASSUME NEW a \in Tries, NEW cause, Fails(a, cause), status' = status PROVE AfterIsSuccess'
  BY <1>a, <1>f DEF Fails, Ends
<1>1. ASSUME NEW n \in Nodes, Executor(n) PROVE AfterIsSuccess'
  <2>1. Current(n) \in Tries /\ <<n, 0>> \in Tries /\ status' = status
    BY <1>1, FirstTry DEF Executor, Start, Lands, Done, Expire, Funnel, RetryWait, Exhaust, Enter, Reenter,
                          TypeInv, TypeOK
  <2>2. \/ step' = step
        \/ \E a \in Tries, s \in {"posting", "handling", "over", "before", "working"} : Awaits(a, s)
    BY <1>1, <2>1 DEF Executor, Start, Lands, Done, Expire, Funnel, RetryWait, Exhaust, Enter, Reenter, Ends
  <2> QED
    BY <1>a, <2>1, <2>2
<1>2. ASSUME NEW a \in Tries, HostTurn(a) \/ NodeTurn(a) PROVE AfterIsSuccess'
  <2>1. CASE NodeTurn(a)
    BY <1>a, <1>f, <2>1 DEF NodeTurn, NodeSetsWait, Throws, Answers, Ends
  <2>2. CASE Posted(a)
    <3>1. CASE /\ status' = [status EXCEPT ![a] = Status(a)] /\ Awaits(a, "after")
      BY <3>1 DEF AfterIsSuccess, Awaits, Status, TypeInv, TypeOK
    <3>2. CASE Fails(a, "error") /\ status' = status
      BY <1>f, <3>2
    <3>3. CASE Ends(a, "ok") /\ status' = status
      BY <1>a, <3>3 DEF Ends
    <3> QED
      BY <2>2, <3>1, <3>2, <3>3 DEF Posted, FinishSuccess
  <2>3. CASE Handled(a)
    <3>1. \E s \in {"over", "afterError"} : Awaits(a, s)
      BY <2>3 DEF Handled, Ends
    <3> QED
      BY <2>3, <3>1 DEF Handled, Awaits, AfterIsSuccess, TypeInv, TypeOK
  <2>4. CASE Recorded(a)
    BY <1>a, <1>f, <2>4 DEF Recorded
  <2>5. CASE Call(a) \/ HookRejects(a) \/ ErrorRecorded(a)
    BY <1>a, <2>5 DEF Call, HookRejects, IsFatal, ErrorRecorded, Ends
  <2> QED
    BY <1>2, <2>1, <2>2, <2>3, <2>4, <2>5 DEF HostTurn
<1>3. CASE UNCHANGED vars
  BY <1>3 DEF vars, AfterIsSuccess
<1> QED
  BY <1>1, <1>2, <1>3 DEF Next

LEMMA RecordStep ==
  ASSUME TypeInv, OwnInv, RecordSettles, AfterIsSuccess, [Next]_vars
  PROVE  RecordSettles'
<1> USE DEF codeSide, netSide, written, InCode
<1>t. \A a \in Tries : a[1] \in Nodes
  BY TryParts
<1>o. ASSUME NEW a \in Tries, step[a] \in InCode, a[1] \notin Deadlined PROVE Owned(a)
  BY <1>o, OwnedWithoutDeadline DEF HasDeadline
\* The node of a turn that is not settled has no record, and the others keep theirs.
<1>c. ASSUME NEW a \in Tries, step[a] \in {"before", "working", "posting", "handling"},
             UNCHANGED <<token, try, status, rejected>>,
             \A b \in Tries \ {a} : step'[b] = step[b] /\ outcome'[b] = outcome[b]
      PROVE  RecordSettles'
  BY <1>c DEF RecordSettles, IsFinal, Settles, Current
\* A turn in which a hook rejects: its try settles, or no longer stands.
<1>h. ASSUME NEW a \in Tries, rejected' = rejected \cup {a},
             UNCHANGED <<token, try, status>>,
             \A b \in Tries \ {a} : step'[b] = step[b] /\ outcome'[b] = outcome[b],
             \/ status[a] # "error"
             \/ step'[a] = "over" /\ outcome'[a] \in Outcomes \ {"retry"}
      PROVE  RecordSettles'
  BY <1>h DEF RecordSettles, IsFinal, Settles, Current
\* A turn that records.
<1>r. ASSUME NEW a \in Tries, step[a] \in {"posting", "handling"}, Owned(a) \/ a[1] \in Deadlined,
             UNCHANGED <<token, try, rejected>>,
             \A b \in Tries \ {a} :
               step'[b] = step[b] /\ outcome'[b] = outcome[b] /\ status'[b] = status[b],
             step'[a] \in {"after", "afterError", "over"}, outcome'[a] \in Outcomes \ {"retry"}
      PROVE  RecordSettles'
  BY <1>r DEF RecordSettles, IsFinal, Settles, Current, Owned, SettledTokens
\* A step of the net, or the entry of a try that is not settled.
<1>n. ASSUME NEW n \in Nodes, UNCHANGED <<status, rejected>>,
             \A b \in Tries : b[1] # n => step'[b] = step[b] /\ outcome'[b] = outcome[b],
             \A m \in Nodes \ {n} : token'[m] = token[m] /\ try'[m] = try[m],
             \/ token[n] \notin SettledTokens
             \/ n \in Deadlined
             \/ UNCHANGED <<step, outcome, try>> /\ token'[n] \in SettledTokens
      PROVE  RecordSettles'
  <2>1. ASSUME NEW a \in Tries, a[1] \notin Deadlined, IsFinal(a) PROVE Settles(a)'
    <3>1. Settles(a)
      BY <2>1 DEF RecordSettles
    <3>2. CASE a[1] # n
      BY <1>n, <1>t, <3>1, <3>2 DEF Settles, Current
    <3>3. CASE a[1] = n
      BY <1>n, <2>1, <3>1, <3>3 DEF Settles, Current
    <3> QED
      BY <3>2, <3>3
  <2> QED
    BY <1>n, <2>1 DEF RecordSettles, IsFinal
<1>1. ASSUME NEW n \in Nodes, Start(n) \/ Done(n) \/ Expire(n) \/ Funnel(n) \/ RetryWait(n)
      PROVE  RecordSettles'
  <2>1. \A m \in Nodes \ {n} : token'[m] = token[m] /\ try'[m] = try[m]
    BY <1>1 DEF Start, Done, Expire, Funnel, RetryWait, TypeInv, TypeOK
  <2>2. \/ token[n] \notin SettledTokens
        \/ n \in Deadlined
        \/ token'[n] \in SettledTokens /\ try' = try
    BY <1>1 DEF Start, Done, Expire, Deadline, Funnel, RetryWait, SettledTokens, TypeInv, TypeOK
  <2>3. UNCHANGED <<status, rejected, step, outcome>>
    BY <1>1 DEF Start, Done, Expire, Funnel, RetryWait
  <2> QED
    BY <1>n, <2>1, <2>2, <2>3
<1>2. ASSUME NEW n \in Nodes, Lands(n) PROVE RecordSettles'
  <2>1. /\ \A m \in Nodes \ {n} : token'[m] = token[m] /\ try'[m] = try[m]
        /\ UNCHANGED <<status, rejected, step, outcome>>
    BY <1>2 DEF Lands, TypeInv, TypeOK
  <2>2. outcome[Current(n)] \in Outcomes
    BY <1>2 DEF Lands, TypeInv, TypeOK, OverIsDecided
  <2>3. CASE outcome[Current(n)] # "retry"
    <3>1. token'[n] \in SettledTokens /\ try' = try
      BY <1>2, <2>2, <2>3 DEF Lands, SettledTokens, Outcomes, TypeInv, TypeOK
    <3> QED
      BY <1>n, <2>1, <3>1
  <2>4. CASE outcome[Current(n)] = "retry"
    <3>1. \A a \in Tries : a[1] = n => ~Settles(a)
      BY <2>4 DEF Settles
    <3> QED
      BY <1>t, <2>1, <3>1 DEF RecordSettles, IsFinal, Settles, Current
  <2> QED
    BY <2>3, <2>4
<1>3. ASSUME NEW n \in Nodes, Exhaust(n) \/ Enter(n) \/ Reenter(n) PROVE RecordSettles'
  <2>1. /\ \A m \in Nodes \ {n} : token'[m] = token[m] /\ try'[m] = try[m]
        /\ UNCHANGED <<status, rejected>> /\ token[n] \notin SettledTokens
    BY <1>3 DEF Exhaust, Enter, Reenter, Takes, SettledTokens, TypeInv, TypeOK
  <2>2. \A b \in Tries : b[1] # n => step'[b] = step[b] /\ outcome'[b] = outcome[b]
    BY <1>3 DEF Exhaust, Enter, Reenter, Ends, Awaits, Decides, Current, TypeInv, TypeOK
  <2> QED
    BY <1>n, <2>1, <2>2
<1>4. ASSUME NEW a \in Tries, HostTurn(a) \/ NodeTurn(a) PROVE RecordSettles'
  <2>f. ASSUME NEW cause, Fails(a, cause)
        PROVE  \A b \in Tries \ {a} : step'[b] = step[b] /\ outcome'[b] = outcome[b]
    BY <2>f DEF Fails, Ends, Awaits, Decides, TypeInv, TypeOK
  <2>1. CASE NodeSetsWait(a)
    BY <2>1 DEF NodeSetsWait, RecordSettles, IsFinal, Settles, Current
  <2>2. CASE Throws(a)
    BY <1>c, <2>2, <2>f DEF Throws
  <2>3. CASE Answers(a)
    <3>1. \A b \in Tries \ {a} : step'[b] = step[b] /\ outcome'[b] = outcome[b]
      BY <2>3 DEF Answers, Ends, Awaits, Decides, TypeInv, TypeOK
    <3> QED
      BY <1>c, <2>3, <3>1 DEF Answers
  <2>4. CASE Call(a)
    <3>1. \A b \in Tries \ {a} : step'[b] = step[b] /\ outcome'[b] = outcome[b]
      BY <2>4 DEF Call, Awaits, TypeInv, TypeOK
    <3> QED
      BY <1>c, <2>4, <3>1 DEF Call
  <2>5. CASE Posted(a)
    <3>1. CASE Fails(a, "error") /\ UNCHANGED status
      BY <1>c, <2>5, <3>1, <2>f DEF Posted
    <3>2. CASE Ends(a, "ok") /\ UNCHANGED status
      <4>1. \A b \in Tries \ {a} : step'[b] = step[b] /\ outcome'[b] = outcome[b]
        BY <3>2 DEF Ends, Awaits, Decides, TypeInv, TypeOK
      <4> QED
        BY <1>c, <2>5, <3>2, <4>1 DEF Posted
    <3>3. CASE /\ status' = [status EXCEPT ![a] = Status(a)]
               /\ Awaits(a, "after") /\ Decides(a, RecordedOutcome(a[1], claim[a]))
      <4>1. \A b \in Tries \ {a} :
              step'[b] = step[b] /\ outcome'[b] = outcome[b] /\ status'[b] = status[b]
        BY <3>3 DEF Awaits, Decides, TypeInv, TypeOK
      <4>2. step'[a] = "after" /\ outcome'[a] \in Outcomes \ {"retry"}
        BY <3>3 DEF Awaits, Decides, RecordedOutcome, Outcomes, TypeInv, TypeOK
      <4> QED
        BY <1>o, <1>r, <2>5, <4>1, <4>2 DEF Posted
    <3> QED
      BY <2>5, <3>1, <3>2, <3>3 DEF Posted, FinishSuccess
  <2>6. CASE Recorded(a) \/ ErrorRecorded(a) \/ HookRejects(a)
    <3>1. CASE Recorded(a) /\ rejected' = rejected \cup {a} /\ Fails(a, "error")
      BY <1>h, <2>f, <3>1 DEF Recorded, AfterIsSuccess
    <3>2. CASE HookRejects(a)
      <4>1. /\ \A b \in Tries \ {a} : step'[b] = step[b] /\ outcome'[b] = outcome[b]
            /\ step'[a] = "over" /\ outcome'[a] \in Outcomes \ {"retry"}
        BY <3>2 DEF HookRejects, IsFatal, Ends, Awaits, Decides, Outcomes, TypeInv, TypeOK
      <4> QED
        BY <1>h, <3>2, <4>1 DEF HookRejects, IsFatal
    <3>3. CASE Awaits(a, "over") /\ UNCHANGED <<outcome, rejected, token, try, status>>
      BY <2>6, <3>3 DEF Recorded, ErrorRecorded, HookRejects, Awaits, RecordSettles, IsFinal, Settles, Current,
                        TypeInv, TypeOK
    <3> QED
      BY <2>6, <3>1, <3>2, <3>3 DEF Recorded, ErrorRecorded
  <2>7. CASE Handled(a)
    <3>1. Owned(a)
      BY <2>7, HandlingIsOwned DEF Handled
    <3>2. \A b \in Tries \ {a} :
            step'[b] = step[b] /\ outcome'[b] = outcome[b] /\ status'[b] = status[b]
      BY <2>7 DEF Handled, Ends, Awaits, Decides, TypeInv, TypeOK
    <3>3. step'[a] \in {"over", "afterError"} /\ outcome'[a] \in Outcomes \ {"retry"}
      BY <2>7 DEF Handled, Ends, Awaits, Decides, RecordedOutcome, Outcomes, TypeInv, TypeOK
    <3> QED
      BY <1>r, <2>7, <3>1, <3>2, <3>3 DEF Handled
  <2> QED
    BY <1>4, <2>1, <2>2, <2>3, <2>4, <2>5, <2>6, <2>7 DEF HostTurn, NodeTurn
<1>5. CASE UNCHANGED vars
  BY <1>5 DEF vars, RecordSettles, IsFinal, Settles, Current
<1> QED
  BY <1>1, <1>2, <1>3, <1>4, <1>5 DEF Next, Executor

\* A node without a deadline has one record, however often it was tried, unless a hook that
\* rejected behind a record sent it to be tried again.
THEOREM RunsAreRecordedOnce == Spec => []RecordedOnce
<1> DEFINE Inv == RecordSettles /\ RecordsBehind /\ AfterIsSuccess
<1>1. Init => Inv
  BY AttemptsAssumption DEF Init, RecordSettles, IsFinal, RecordsBehind, AfterIsSuccess
<1>2. TypeInv /\ OwnInv /\ Inv /\ [Next]_vars => OwnInv' /\ Inv'
  BY OwnStep, RecordStep, BehindStep, AfterStep
<1>3. TypeInv /\ Inv => RecordedOnce
  <2> SUFFICES ASSUME TypeInv, Inv, NEW n \in Nodes \ Deadlined, NEW a \in Tries, NEW b \in Tries,
                      a[1] = n, b[1] = n, a[2] < b[2], status[a] # None, status[b] # None
               PROVE  a \in rejected /\ status[a] # "error"
    BY DEF RecordedOnce
  <2>1. b[2] <= try[n] /\ try[n] \in Nat /\ a[2] \in Nat /\ b[2] \in Nat
    BY TryParts DEF RecordsBehind, TypeInv, TypeOK
  <2>2. Settles(a) => a[2] = try[n]
    BY DEF Settles, Current
  <2> QED
    BY <2>1, <2>2 DEF RecordSettles, IsFinal
<1> QED
  BY <1>1, <1>2, <1>3, InitType, InitOwn, TypeStep, PTL DEF Spec

-----------------------------------------------------------------------------
(***************************************************************************)
(* The net halts on every halt error, and on nothing else.  The first      *)
(* error is written by a try that owns its token and is over at once: the  *)
(* token stays in flight until the outcome lands and marks _halt.          *)
(***************************************************************************)
HooksCanHalt == MayReject \subseteq (StopWorkflow \cup Chained) \ Deadlined
HaltHasError ==
  /\ halt => haltError # None
  /\ \A a \in Tries : outcome[a] = "halt" => haltError # None
AboutToHalt(a) == Owned(a) /\ step[a] = "over" /\ outcome[a] = "halt"
ErrorHalts == haltError # None => halt \/ AboutToHalt(haltError)
ErrorInv == HaltHasError /\ ErrorHalts

\* A try about to halt stays so until its outcome lands.
LEMMA StaysAboutToHalt ==
  ASSUME TypeInv, NEW b \in Tries, AboutToHalt(b), [Next]_vars
  PROVE  halt' \/ AboutToHalt(b)'
<1> USE DEF codeSide, netSide, Ends, Awaits, Decides
<1>b. b[1] \in Nodes /\ token[b[1]] = "flying" /\ Current(b[1]) = b
  BY TryParts DEF AboutToHalt, Owned
<1>1. ASSUME NEW n \in Nodes, Lands(n) PROVE halt' \/ AboutToHalt(b)'
  <2>1. CASE n = b[1]
    BY <1>1, <1>b, <2>1 DEF Lands, AboutToHalt
  <2>2. CASE n # b[1]
    BY <1>1, <1>b, <2>2 DEF Lands, AboutToHalt, Owned, Current, TypeInv, TypeOK
  <2> QED
    BY <2>1, <2>2
<1>2. ASSUME NEW n \in Nodes, Start(n) \/ Done(n) \/ Expire(n) \/ Funnel(n) \/ RetryWait(n)
      PROVE  AboutToHalt(b)'
  <2>1. n # b[1]
    BY <1>2, <1>b DEF Start, Done, Expire, Funnel, RetryWait, AboutToHalt
  <2> QED
    BY <1>2, <1>b, <2>1
       DEF Start, Done, Expire, Funnel, RetryWait, AboutToHalt, Owned, Current, TypeInv, TypeOK
<1>3. ASSUME NEW n \in Nodes, Exhaust(n) \/ Enter(n) \/ Reenter(n) PROVE AboutToHalt(b)'
  <2>1. n # b[1]
    BY <1>3, <1>b DEF Exhaust, Enter, Reenter, Takes
  <2>2. Current(n) # b
    BY <2>1 DEF Current
  <2> QED
    BY <1>3, <1>b, <2>1, <2>2
       DEF Exhaust, Enter, Reenter, Takes, AboutToHalt, Owned, Current, TypeInv, TypeOK
<1>4. ASSUME NEW a \in Tries, HostTurn(a) \/ NodeTurn(a) PROVE AboutToHalt(b)'
  <2>1. a # b
    BY <1>4 DEF HostTurn, NodeTurn, NodeSetsWait, Throws, Answers, Call, Posted, Recorded, HookRejects,
                Handled, ErrorRecorded, AboutToHalt
  <2>2. UNCHANGED <<token, try>>
    BY <1>4 DEF HostTurn, NodeTurn, NodeSetsWait, Throws, Answers, Call, Posted, Recorded, HookRejects,
                Handled, ErrorRecorded
  <2>f. ASSUME NEW cause, Fails(a, cause) PROVE step'[b] = step[b] /\ outcome'[b] = outcome[b]
    BY <2>f, <2>1 DEF Fails, TypeInv, TypeOK
  <2>3. CASE NodeTurn(a) \/ Call(a) \/ Handled(a) \/ ErrorRecorded(a) \/ HookRejects(a)
    <3>1. step'[b] = step[b] /\ outcome'[b] = outcome[b]
      BY <2>1, <2>f, <2>3 DEF NodeTurn, NodeSetsWait, Throws, Answers, Call, Handled, ErrorRecorded,
                              HookRejects, IsFatal, TypeInv, TypeOK
    <3> QED
      BY <2>2, <3>1 DEF AboutToHalt, Owned, Current
  <2>4. CASE Posted(a) \/ Recorded(a)
    <3>1. step'[b] = step[b] /\ outcome'[b] = outcome[b]
      BY <2>1, <2>f, <2>4 DEF Posted, FinishSuccess, Recorded, TypeInv, TypeOK
    <3> QED
      BY <2>2, <3>1 DEF AboutToHalt, Owned, Current
  <2> QED
    BY <1>4, <2>3, <2>4 DEF HostTurn
<1>5. CASE UNCHANGED vars
  BY <1>5 DEF vars, AboutToHalt, Owned, Current
<1> QED
  BY <1>1, <1>2, <1>3, <1>4, <1>5 DEF Next, Executor

LEMMA ErrorStep ==
  ASSUME HooksCanHalt, TypeInv, OwnInv, ErrorInv, [Next]_vars
  PROVE  ErrorInv'
<1> USE DEF codeSide, netSide, written
<1>h. haltError # None => haltError \in Tries
  BY DEF TypeInv, TypeOK
\* Steps that leave the error as it is.
<1>k. ASSUME UNCHANGED haltError, halt' => halt \/ haltError # None,
             halt => halt',
             \A b \in Tries : outcome'[b] = "halt" => outcome[b] = "halt"
      PROVE  ErrorInv'
  BY <1>h, <1>k, StaysAboutToHalt DEF ErrorInv, HaltHasError, ErrorHalts
\* Turns that write one where there is none, and decide to halt.
<1>w. ASSUME NEW a \in Tries, Owned(a), Ends(a, "halt"), UNCHANGED <<token, try, halt>>,
             haltError' = IF haltError = None THEN a ELSE haltError
      PROVE  ErrorInv'
  <2>1. haltError' # None
    BY <1>w, NoneIsNoTry
  <2>2. AboutToHalt(a)'
    BY <1>w DEF AboutToHalt, Owned, Current, Ends, Awaits, Decides, TypeInv, TypeOK
  <2>3. ErrorHalts'
    BY <1>h, <1>w, <2>2, StaysAboutToHalt DEF ErrorInv, ErrorHalts
  <2> QED
    BY <2>1, <2>3 DEF ErrorInv, HaltHasError
<1>1. ASSUME NEW n \in Nodes, Lands(n) PROVE ErrorInv'
  <2>1. outcome[Current(n)] = "halt" => haltError # None
    BY DEF ErrorInv, HaltHasError, TypeInv, TypeOK
  <2> QED
    BY <1>1, <1>k, <2>1 DEF Lands
<1>2. ASSUME NEW n \in Nodes,
             Start(n) \/ Done(n) \/ Expire(n) \/ Funnel(n) \/ RetryWait(n) \/ Exhaust(n) \/ Enter(n)
               \/ Reenter(n)
      PROVE  ErrorInv'
  <2>1. \A b \in Tries : outcome'[b] = "halt" => outcome[b] = "halt"
    BY <1>2, FirstTry DEF Start, Done, Expire, Funnel, RetryWait, Exhaust, Enter, Reenter, Ends, Decides,
                          TypeInv, TypeOK
  <2> QED
    BY <1>2, <1>k, <2>1 DEF Start, Done, Expire, Funnel, RetryWait, Exhaust, Enter, Reenter
<1>3. ASSUME NEW a \in Tries, HostTurn(a) \/ NodeTurn(a) PROVE ErrorInv'
  <2>f. ASSUME NEW cause, Fails(a, cause) PROVE \A b \in Tries : outcome'[b] = "halt" => outcome[b] = "halt"
    BY <2>f DEF Fails, Ends, Decides, TypeInv, TypeOK
  <2>1. CASE NodeTurn(a) \/ Call(a) \/ ErrorRecorded(a)
    <3>1. \A b \in Tries : outcome'[b] = "halt" => outcome[b] = "halt"
      BY <2>1, <2>f DEF NodeTurn, NodeSetsWait, Throws, Answers, Call, ErrorRecorded, Ends, Decides,
                        TypeInv, TypeOK
    <3> QED
      BY <1>k, <2>1, <3>1 DEF NodeTurn, NodeSetsWait, Throws, Answers, Call, ErrorRecorded
  <2>2. CASE Posted(a) \/ Recorded(a)
    <3>1. \A b \in Tries : outcome'[b] = "halt" => outcome[b] = "halt"
      BY <2>2, <2>f DEF Posted, FinishSuccess, Recorded, Ends, Decides, RecordedOutcome, TypeInv, TypeOK
    <3> QED
      BY <1>k, <2>2, <3>1 DEF Posted, Recorded
  <2>3. CASE HookRejects(a)
    <3>1. HasHaltBranch(a[1]) /\ ~HasDeadline(a)
      BY <2>3 DEF HookRejects, HooksCanHalt, HasHaltBranch, HasDeadline
    <3>2. Owned(a)
      BY <2>3, <3>1, OwnedWithoutDeadline DEF HookRejects, InCode
    <3> QED
      BY <1>w, <2>3, <3>1, <3>2 DEF HookRejects, IsFatal
  <2>4. CASE Handled(a)
    <3>1. Owned(a)
      BY <2>4, HandlingIsOwned DEF Handled
    <3>2. CASE a[1] \in StopWorkflow
      BY <1>w, <2>4, <3>1, <3>2 DEF Handled
    <3>3. CASE a[1] \notin StopWorkflow
      <4>1. \A b \in Tries : outcome'[b] = "halt" => outcome[b] = "halt"
        BY <2>4, <3>3 DEF Handled, Decides, RecordedOutcome, TypeInv, TypeOK
      <4> QED
        BY <1>k, <2>4, <3>3, <4>1 DEF Handled
    <3> QED
      BY <3>2, <3>3
  <2> QED
    BY <1>3, <2>1, <2>2, <2>3, <2>4 DEF HostTurn
<1>4. CASE UNCHANGED vars
  BY <1>4, <1>k DEF vars
<1> QED
  BY <1>1, <1>2, <1>3, <1>4 DEF Next, Executor

\* Where every node whose hooks reject can halt, and has no deadline: an execution that stops
\* has halted exactly when an error is there to report.
THEOREM ErrorsEndRuns ==
  ASSUME HooksCanHalt
  PROVE  Spec => []ErrorEndsRun
<1>1. Init => ErrorInv
  BY AttemptsAssumption DEF Init, ErrorInv, HaltHasError, ErrorHalts, Outcomes
<1>2. TypeInv /\ OwnInv /\ ErrorInv /\ [Next]_vars => OwnInv' /\ ErrorInv'
  BY OwnStep, ErrorStep
<1>3. TypeInv /\ ErrorInv => ErrorEndsRun
  <2> SUFFICES ASSUME TypeInv, ErrorInv, Quiescent, haltError # None PROVE halt
    BY DEF ErrorInv, HaltHasError, ErrorEndsRun
  <2>1. haltError[1] \in Nodes
    BY TryParts DEF TypeInv, TypeOK
  <2> QED
    BY <2>1 DEF ErrorInv, ErrorHalts, AboutToHalt, Owned, Quiescent
<1> QED
  BY <1>1, <1>2, <1>3, InitType, InitOwn, TypeStep, PTL DEF Spec

-----------------------------------------------------------------------------
(***************************************************************************)
(* A claim is kept.  Tries to come are idle and have no claim yet, so the  *)
(* next try of the claimant claims again; whatever phase it is in, it can  *)
(* only end waiting, retried, halted, or disowned.                         *)
(***************************************************************************)
ComingAreIdle ==
  \A a \in Tries :
    (a[2] > try[a[1]] \/ (Current(a[1]) = a /\ token[a[1]] \in {"input", "running", "failed"})) =>
      step[a] = "idle"
ClaimedLate == \A a \in Tries : step[a] \in {"idle", "before", "working"} => claim[a] = None
ClaimantHasClaim ==
  waitingNode # None => /\ waitTill # None
                        /\ \E a \in Tries : a[1] = waitingNode /\ claim[a] = "claimed"
WaitingIsPaused == \A n \in Nodes : token[n] = "waiting" => pause
WillWait(a) ==
  \/ step[a] \in {"before", "working"}
  \/ step[a] \in {"posting", "handling"} /\ claim[a] = "claimed"
  \/ step[a] \in {"after", "afterError"} /\ claim[a] = "claimed" /\ outcome[a] = "waiting"
  \/ step[a] = "over" /\ outcome[a] \in {"waiting", "retry", "halt"}
Stands(n) ==
  \/ token[n] \in {"running", "failed", "timedout", "waiting"}
  \/ token[n] = "flying" /\ WillWait(Current(n))
NothingDisowned(n) == \A a \in abandoned : a[1] # n
ClaimantStands ==
  \A n \in Nodes : (waitingNode = n /\ ~halt /\ NothingDisowned(n)) => Stands(n)
Phases == ComingAreIdle /\ ClaimedLate
KeepInv == Phases /\ ClaimantHasClaim /\ WaitingIsPaused /\ ClaimantStands

LEMMA PhaseStep ==
  ASSUME TypeInv, Phases, [Next]_vars
  PROVE  Phases'
<1> USE DEF codeSide, netSide, waitSide, Phases
<1>t. \A a \in Tries : a = <<a[1], a[2]>> /\ a[1] \in Nodes /\ a[2] \in Nat
  BY TryParts
<1>y. \A n \in Nodes : try[n] \in Nat
  BY DEF TypeInv, TypeOK
\* A token moves where the next try is idle.
<1>m. ASSUME NEW n \in Nodes, UNCHANGED <<step, claim>>,
             \A m \in Nodes \ {n} : token'[m] = token[m] /\ try'[m] = try[m],
             \/ try'[n] = try[n] + 1
             \/ try'[n] = try[n] /\ token'[n] \notin {"input", "running", "failed"}
             \/ try'[n] = try[n] /\ token[n] \in {"input", "running", "failed"}
      PROVE  Phases'
  <2>1. ASSUME NEW a \in Tries,
               \/ a[2] > try'[a[1]]
               \/ <<a[1], try'[a[1]]>> = a /\ token'[a[1]] \in {"input", "running", "failed"}
        PROVE  step[a] = "idle"
    <3>1. CASE a[1] # n
      BY <1>m, <1>t, <2>1, <3>1 DEF ComingAreIdle, Current
    <3>2. CASE a[1] = n /\ try'[n] = try[n] + 1
      <4>1. a[2] > try[n]
        BY <1>t, <1>y, <2>1, <3>2
      <4> QED
        BY <3>2, <4>1 DEF ComingAreIdle
    <3>3. CASE a[1] = n /\ try'[n] = try[n]
      BY <1>m, <1>t, <1>y, <2>1, <3>3 DEF ComingAreIdle, Current
    <3> QED
      BY <1>m, <3>1, <3>2, <3>3
  <2> QED
    BY <1>m, <2>1 DEF ComingAreIdle, ClaimedLate, Current
\* A try enters the code.
<1>e. ASSUME NEW n \in Nodes, NEW s, Awaits(Current(n), s), token' = [token EXCEPT ![n] = "flying"],
             token[n] \in {"running", "failed"}, UNCHANGED try,
             \A a \in Tries \ {Current(n)} : claim'[a] = claim[a],
             s \in {"idle", "before", "working"} => UNCHANGED claim
      PROVE  Phases'
  <2>1. Current(n) \in Tries /\ step[Current(n)] = "idle" /\ claim[Current(n)] = None
    BY <1>e DEF TypeInv, TypeOK, ComingAreIdle, ClaimedLate, Current
  <2>2. \A a \in Tries : step'[a] = IF a = Current(n) THEN s ELSE step[a]
    BY <1>e, <2>1 DEF Awaits, TypeInv, TypeOK
  <2>3. \A m \in Nodes : token'[m] = IF m = n THEN "flying" ELSE token[m]
    BY <1>e DEF TypeInv, TypeOK
  <2>4. \A a \in Tries : a[2] > try[a[1]] => a # Current(a[1]) /\ a # Current(n)
    BY <1>y, <1>t DEF Current
  <2>5. ComingAreIdle'
    BY <1>e, <1>t, <2>2, <2>3, <2>4 DEF ComingAreIdle, Current
  <2>6. ClaimedLate'
    BY <1>e, <2>1, <2>2 DEF ClaimedLate
  <2> QED
    BY <2>5, <2>6
\* A turn of a try that was in the code.
<1>c. ASSUME NEW a \in Tries, NEW s, Awaits(a, s), step[a] \in InCode, UNCHANGED <<token, try>>,
             \A b \in Tries \ {a} : claim'[b] = claim[b],
             \/ s \notin {"idle", "before", "working"}
             \/ s = "working" /\ step[a] = "before" /\ UNCHANGED claim
      PROVE  Phases'
  <2>1. \A b \in Tries : step'[b] = IF b = a THEN s ELSE step[b]
    BY <1>c DEF Awaits, TypeInv, TypeOK
  <2>2. step[a] # "idle"
    BY <1>c DEF InCode
  <2> QED
    BY <1>c, <2>1, <2>2 DEF ComingAreIdle, ClaimedLate, Current
<1>1. ASSUME NEW n \in Nodes, Start(n) \/ Done(n) \/ Expire(n) \/ Funnel(n) \/ RetryWait(n) \/ Lands(n)
      PROVE  Phases'
  <2>1. UNCHANGED <<step, claim>> /\ \A m \in Nodes \ {n} : token'[m] = token[m] /\ try'[m] = try[m]
    BY <1>1 DEF Start, Done, Expire, Funnel, RetryWait, Lands, TypeInv, TypeOK
  <2>2. CASE Start(n) \/ Done(n) \/ Expire(n) \/ Funnel(n) \/ RetryWait(n)
    <3>1. \/ try'[n] = try[n] + 1
          \/ try'[n] = try[n] /\ token'[n] \notin {"input", "running", "failed"}
          \/ try'[n] = try[n] /\ token[n] \in {"input", "running", "failed"}
      BY <2>2 DEF Start, Done, Expire, Funnel, RetryWait, TypeInv, TypeOK
    <3> QED
      BY <1>m, <2>1, <3>1
  <2>3. CASE Lands(n)
    <3>1. outcome[Current(n)] \in Outcomes
      BY <2>3 DEF Lands, TypeInv, TypeOK, OverIsDecided
    <3>2. \/ try'[n] = try[n] + 1
          \/ try'[n] = try[n] /\ token'[n] \notin {"input", "running", "failed"}
      BY <2>3, <3>1 DEF Lands, Outcomes, TypeInv, TypeOK
    <3> QED
      BY <1>m, <2>1, <3>2
  <2> QED
    BY <1>1, <2>2, <2>3
<1>2. ASSUME NEW n \in Nodes, Exhaust(n) \/ Enter(n) \/ Reenter(n) PROVE Phases'
  <2>1. CASE Exhaust(n)
    <3>1. \A a \in Tries \ {Current(n)} : claim'[a] = claim[a]
      BY <2>1 DEF Exhaust, Probe, TypeInv, TypeOK
    <3>2. \E s \in {"posting", "handling"} : Awaits(Current(n), s)
      BY <2>1 DEF Exhaust
    <3> QED
      BY <1>e, <2>1, <3>1, <3>2 DEF Exhaust
  <2>2. CASE Enter(n)
    BY <1>e, <2>2 DEF Enter, Takes, Ends, Current
  <2>3. CASE Reenter(n)
    BY <1>e, <2>3 DEF Reenter, Takes
  <2> QED
    BY <1>2, <2>1, <2>2, <2>3
<1>3. ASSUME NEW a \in Tries, HostTurn(a) \/ NodeTurn(a) PROVE Phases'
  <2>p. ASSUME NEW read, Probe(a, read) PROVE \A b \in Tries \ {a} : claim'[b] = claim[b]
    BY <2>p DEF Probe, TypeInv, TypeOK
  <2>f. ASSUME NEW cause, Fails(a, cause)
        PROVE  /\ \A b \in Tries \ {a} : claim'[b] = claim[b]
               /\ \E s \in {"over", "handling"} : Awaits(a, s)
    BY <2>f, <2>p DEF Fails, Ends
  <2>1. CASE NodeSetsWait(a)
    BY <2>1 DEF NodeSetsWait, ComingAreIdle, ClaimedLate, Current
  <2>2. CASE Call(a)
    BY <1>c, <2>2 DEF Call, InCode
  <2>3. CASE Throws(a) \/ Answers(a) \/ Posted(a) \/ Recorded(a)
    <3>1. UNCHANGED <<token, try>> /\ step[a] \in InCode
      BY <2>3 DEF Throws, Answers, Posted, Recorded, InCode
    <3>2. /\ \A b \in Tries \ {a} : claim'[b] = claim[b]
          /\ \E s \in {"over", "posting", "handling", "after"} : Awaits(a, s)
      <4>1. CASE Throws(a)
        BY <2>f, <4>1 DEF Throws
      <4>2. CASE Answers(a)
        BY <2>p, <4>2 DEF Answers, Ends
      <4>3. CASE Posted(a)
        BY <2>f, <4>3 DEF Posted, FinishSuccess, Ends
      <4>4. CASE Recorded(a)
        BY <2>f, <4>4 DEF Recorded
      <4> QED
        BY <2>3, <4>1, <4>2, <4>3, <4>4
    <3> QED
      BY <1>c, <3>1, <3>2
  <2>4. CASE HookRejects(a) \/ Handled(a) \/ ErrorRecorded(a)
    <3>1. UNCHANGED <<token, try, claim>> /\ step[a] \in InCode
      BY <2>4 DEF HookRejects, Handled, ErrorRecorded, InCode
    <3>2. \E s \in {"over", "afterError"} : Awaits(a, s)
      BY <2>4 DEF HookRejects, IsFatal, Handled, ErrorRecorded, Ends
    <3> QED
      BY <1>c, <3>1, <3>2
  <2> QED
    BY <1>3, <2>1, <2>2, <2>3, <2>4 DEF HostTurn, NodeTurn
<1>4. CASE UNCHANGED vars
  BY <1>4 DEF vars, ComingAreIdle, ClaimedLate, Current
<1> QED
  BY <1>1, <1>2, <1>3, <1>4 DEF Next, Executor

\* What a probe tells of the claimant, before and after.
LEMMA ProbeResult ==
  ASSUME TypeInv, ClaimInv, ClaimantHasClaim, NEW a \in Tries, NEW read, Probe(a, read),
         UNCHANGED waitTill
  PROVE  /\ ClaimantHasClaim'
         /\ (claim[a] \in {None, "claimed"} /\ waitingNode' = a[1]) => claim'[a] = "claimed"
         /\ waitingNode' # waitingNode => waitingNode' = a[1] /\ claim'[a] = "claimed"
<1>1. claim'[a] = Probed(a, read)
  BY DEF Probe, TypeInv, TypeOK
<1>2. a[1] # None
  BY TryParts, AttemptsAssumption
<1>3. Probed(a, read) = "claimed" => waitTill # None
  BY <1>2 DEF Probed, Observed, ClaimInv, ClaimantIsWaitingNode, ClaimantHasClaim
<1>4. (claim[a] = None /\ waitingNode = a[1]) => Probed(a, read) = "claimed"
  BY <1>2 DEF Probed, Observed, ClaimantHasClaim
<1>5. waitingNode' = IF Probed(a, read) = "claimed" THEN a[1] ELSE waitingNode
  BY DEF Probe
<1>6. claim[a] = "claimed" => Probed(a, read) = "claimed"
  BY AttemptsAssumption DEF Probed, Claims
<1>7. ClaimantHasClaim'
  <2>1. CASE Probed(a, read) = "claimed"
    BY <1>1, <1>3, <1>5, <2>1 DEF ClaimantHasClaim
  <2>2. CASE Probed(a, read) # "claimed"
    <3>1. \A b \in Tries : claim[b] = "claimed" => claim'[b] = "claimed"
      BY ProbeClaims
    <3> QED
      BY <1>5, <2>2, <3>1 DEF ClaimantHasClaim
  <2> QED
    BY <2>1, <2>2
<1> QED
  BY <1>1, <1>4, <1>5, <1>6, <1>7

LEMMA FailsStands ==
  ASSUME TypeInv, ClaimInv, ClaimantHasClaim, NEW a \in Tries, NEW cause, Fails(a, cause),
         a \notin abandoned, waitingNode' = a[1], UNCHANGED waitTill,
         claim[a] = None \/ (waitingNode = a[1] => claim[a] = "claimed")
  PROVE  WillWait(a)'
<1>1. CASE Ends(a, "retry")
  BY <1>1 DEF Ends, Awaits, Decides, WillWait, TypeInv, TypeOK
<1>2. CASE Probe(a, ReadOf(a)) /\ Awaits(a, "handling")
  <2>1. claim'[a] = "claimed"
    BY <1>2, ProbeResult
  <2> QED
    BY <1>2, <2>1 DEF Awaits, WillWait, TypeInv, TypeOK
<1> QED
  BY <1>1, <1>2 DEF Fails, Disowned

\* A turn of the claimant's own code, in the try its token stands for.
LEMMA ClaimantTurn ==
  ASSUME MayReject \subseteq StopWorkflow \cup Chained,
         TypeInv, ClaimInv, Phases, ClaimantHasClaim,
         NEW a \in Tries, HostTurn(a) \/ NodeTurn(a),
         a \notin abandoned, waitingNode' = a[1], waitingNode = a[1] => WillWait(a)
  PROVE  WillWait(a)'
<1> USE DEF Ends, Awaits, Decides, codeSide, netSide, waitSide
<1>w. waitingNode = a[1] =>
        /\ step[a] \in {"posting", "handling", "after", "afterError"} => claim[a] = "claimed"
        /\ step[a] \in {"after", "afterError"} => outcome[a] = "waiting"
  BY DEF WillWait
<1>f. step[a] = "working" => claim[a] = None
  BY DEF Phases, ClaimedLate
<1>1. CASE NodeSetsWait(a) \/ Call(a)
  BY <1>1 DEF NodeSetsWait, Call, WillWait, TypeInv, TypeOK
<1>2. CASE Throws(a)
  BY <1>2, <1>f, FailsStands DEF Throws
<1>3. CASE Answers(a)
  <2>1. claim'[a] = "claimed"
    BY <1>3, <1>f, ProbeResult DEF Answers
  <2> QED
    BY <1>3, <2>1 DEF Answers, Disowned, WillWait, TypeInv, TypeOK
<1>4. CASE Posted(a)
  <2>1. CASE Fails(a, "error")
    BY <1>4, <2>1, <1>w, FailsStands DEF Posted
  <2>2. CASE ~Fails(a, "error")
    <3>1. UNCHANGED <<claim, waitingNode>> /\ claim[a] = "claimed"
      BY <1>4, <2>2, <1>w DEF Posted, FinishSuccess
    <3> QED
      BY <1>4, <2>2, <3>1 DEF Posted, FinishSuccess, Disowned, RecordsNothing, RecordedOutcome, WillWait,
                              TypeInv, TypeOK
  <2> QED
    BY <2>1, <2>2
<1>5. CASE Recorded(a)
  <2>1. CASE Fails(a, "error")
    BY <1>5, <2>1, <1>w, FailsStands DEF Recorded
  <2>2. CASE Awaits(a, "over") /\ UNCHANGED <<outcome, waitingNode>>
    BY <1>5, <2>2, <1>w DEF Recorded, WillWait, TypeInv, TypeOK
  <2> QED
    BY <1>5, <2>1, <2>2 DEF Recorded
<1>6. CASE HookRejects(a)
  BY <1>6 DEF HookRejects, IsFatal, HasHaltBranch, WillWait, TypeInv, TypeOK
<1>7. CASE Handled(a)
  BY <1>7, <1>w DEF Handled, RecordedOutcome, WillWait, TypeInv, TypeOK
<1>8. CASE ErrorRecorded(a)
  BY <1>8, <1>w DEF ErrorRecorded, WillWait, TypeInv, TypeOK
<1> QED
  BY <1>1, <1>2, <1>3, <1>4, <1>5, <1>6, <1>7, <1>8 DEF HostTurn, NodeTurn

\* A step that changes no claim but by a probe keeps one behind waitingNode.
LEMMA HasClaimStep ==
  ASSUME TypeInv, ClaimInv, ClaimantHasClaim, [Next]_vars
  PROVE  ClaimantHasClaim'
<1> USE DEF codeSide, netSide, waitSide
<1>u. (UNCHANGED <<claim, waitingNode>> /\ (waitTill # None => waitTill' # None)) => ClaimantHasClaim'
  BY DEF ClaimantHasClaim
<1>1. ASSUME NEW n \in Nodes, Executor(n) PROVE ClaimantHasClaim'
  <2>1. CASE Exhaust(n)
    <3>1. Current(n) \in Tries
      BY DEF TypeInv, TypeOK
    <3> QED
      BY <2>1, <3>1, ProbeResult DEF Exhaust
  <2>2. CASE ~Exhaust(n)
    BY <1>1, <1>u, <2>2
       DEF Executor, Start, Lands, Done, Expire, Funnel, RetryWait, Enter, Reenter
  <2> QED
    BY <2>1, <2>2
<1>2. ASSUME NEW a \in Tries, HostTurn(a) \/ NodeTurn(a) PROVE ClaimantHasClaim'
  <2>f. ASSUME NEW cause, Fails(a, cause), UNCHANGED waitTill PROVE ClaimantHasClaim'
    BY <2>f, <1>u, ProbeResult DEF Fails
  <2>1. CASE Throws(a) \/ Posted(a) \/ Recorded(a)
    BY <2>1, <2>f, <1>u DEF Throws, Posted, FinishSuccess, Recorded
  <2>2. CASE Answers(a)
    BY <2>2, ProbeResult DEF Answers
  <2>3. CASE NodeSetsWait(a)
    BY <2>3, <1>u, NoneIsNoTry DEF NodeSetsWait
  <2>4. CASE Call(a) \/ HookRejects(a) \/ Handled(a) \/ ErrorRecorded(a)
    BY <2>4, <1>u DEF Call, HookRejects, Handled, ErrorRecorded
  <2> QED
    BY <1>2, <2>1, <2>2, <2>3, <2>4 DEF HostTurn, NodeTurn
<1>3. CASE UNCHANGED vars
  BY <1>3, <1>u DEF vars
<1> QED
  BY <1>1, <1>2, <1>3 DEF Next

LEMMA PausedStep ==
  ASSUME TypeInv, WaitingIsPaused, [Next]_vars
  PROVE  WaitingIsPaused'
<1> USE DEF netSide
<1>1. ASSUME NEW n \in Nodes, Executor(n) PROVE WaitingIsPaused'
  <2>1. CASE Lands(n)
    BY <2>1 DEF Lands, WaitingIsPaused, TypeInv, TypeOK
  <2>2. CASE ~Lands(n)
    BY <1>1, <2>2
       DEF Executor, Start, Done, Expire, Funnel, RetryWait, Exhaust, Enter, Reenter, Takes,
           WaitingIsPaused, TypeInv, TypeOK
  <2> QED
    BY <2>1, <2>2
<1>2. ASSUME NEW a \in Tries, HostTurn(a) \/ NodeTurn(a) PROVE WaitingIsPaused'
  BY <1>2 DEF HostTurn, NodeTurn, NodeSetsWait, Throws, Answers, Call, Posted, Recorded, HookRejects,
              Handled, ErrorRecorded, WaitingIsPaused
<1>3. CASE UNCHANGED vars
  BY <1>3 DEF vars, WaitingIsPaused
<1> QED
  BY <1>1, <1>2, <1>3 DEF Next

LEMMA StandsStep ==
  ASSUME MayReject \subseteq StopWorkflow \cup Chained,
         TypeInv, ClaimInv, OwnInv, KeepInv, [Next]_vars,
         NEW n \in Nodes, waitingNode' = n, ~halt', NothingDisowned(n)'
  PROVE  Stands(n)'
<1> USE DEF codeSide, netSide, waitSide, KeepInv
<1>t. \A a \in Tries : a[1] \in Nodes
  BY TryParts
<1>y. TypeOK /\ Current(n) \in Tries /\ Current(n)[1] = n
  BY DEF TypeInv, TypeOK, Current
\* Where nothing of n changes, it stands if it did.
<1>k. ASSUME waitingNode = n, ~halt, NothingDisowned(n),
             token'[n] = token[n], try'[n] = try[n],
             step'[Current(n)] = step[Current(n)], outcome'[Current(n)] = outcome[Current(n)],
             claim'[Current(n)] = claim[Current(n)]
      PROVE  Stands(n)'
  BY <1>k DEF ClaimantStands, Stands, WillWait, Current
<1>1. ASSUME NEW m \in Nodes,
             Start(m) \/ Lands(m) \/ Done(m) \/ Expire(m) \/ Funnel(m) \/ RetryWait(m)
      PROVE  Stands(n)'
  <2>1. waitingNode = n /\ ~halt /\ NothingDisowned(n) /\ UNCHANGED <<step, outcome, claim>>
    <3>1. UNCHANGED <<step, outcome, claim, waitingNode>>
      BY <1>1 DEF Start, Lands, Done, Expire, Funnel, RetryWait
    <3>h. halt => halt'
      BY <1>1, <1>y DEF Start, Lands, Done, Expire, Funnel, RetryWait, TypeOK
    <3>2. abandoned \subseteq abandoned'
      BY <1>1 DEF Start, Lands, Done, Expire, Funnel, RetryWait
    <3> QED
      BY <3>1, <3>2, <3>h DEF NothingDisowned
  <2>2. Stands(n)
    BY <2>1 DEF ClaimantStands
  <2>3. CASE m # n
    <3>1. token'[n] = token[n] /\ try'[n] = try[n]
      BY <1>1, <1>y, <2>3 DEF Start, Lands, Done, Expire, Funnel, RetryWait, TypeOK
    <3> QED
      BY <1>k, <2>1, <3>1
  <2>4. CASE m = n /\ Lands(n)
    <3>1. outcome[Current(n)] \in {"waiting", "retry", "halt"}
      BY <2>2, <2>4 DEF Lands, Stands, WillWait
    <3> QED
      BY <1>y, <2>4, <3>1 DEF Lands, Stands, TypeOK
  <2>5. CASE m = n /\ Funnel(n)
    BY <1>y, <2>5 DEF Funnel, NothingDisowned
  <2>6. CASE m = n /\ (Start(n) \/ Done(n) \/ Expire(n) \/ RetryWait(n))
    BY <1>y, <2>2, <2>6 DEF Start, Done, Expire, RetryWait, Stands, TypeOK
  <2> QED
    BY <1>1, <2>3, <2>4, <2>5, <2>6
<1>2. ASSUME NEW m \in Nodes, Exhaust(m) \/ Enter(m) \/ Reenter(m) PROVE Stands(n)'
  <2>1. Current(m) \in Tries /\ Current(m)[1] = m /\ step[Current(m)] = "idle" /\ claim[Current(m)] = None
    BY <1>2, <1>y DEF Exhaust, Enter, Reenter, Takes, TypeOK, Phases, ComingAreIdle, ClaimedLate, Current
  <2>2. ~halt /\ NothingDisowned(n)
    BY <1>2 DEF Exhaust, Enter, Reenter, NothingDisowned
  <2>3. Exhaust(m) => waitingNode = n \/ (m = n /\ claim'[Current(n)] = "claimed")
    BY <2>1, ProbeResult DEF Exhaust
  <2>4. CASE m # n
    <3>1. waitingNode = n
      BY <1>2, <2>3, <2>4 DEF Enter, Reenter
    <3>2. Current(n) # Current(m) /\ token'[n] = token[n] /\ try'[n] = try[n]
      BY <1>2, <1>y, <2>4 DEF Exhaust, Enter, Reenter, Takes, Current, TypeOK
    <3>3. /\ step'[Current(n)] = step[Current(n)] /\ outcome'[Current(n)] = outcome[Current(n)]
          /\ claim'[Current(n)] = claim[Current(n)]
      BY <1>2, <1>y, <3>2 DEF Exhaust, Enter, Reenter, Ends, Awaits, Decides, Probe, Current, TypeOK
    <3> QED
      BY <1>k, <2>2, <3>1, <3>2, <3>3
  <2>5. CASE m = n /\ Exhaust(n)
    <3>1. claim'[Current(n)] = "claimed"
      BY <2>1, <2>5, ProbeResult DEF Exhaust
    <3> QED
      BY <1>y, <2>5, <3>1 DEF Exhaust, Awaits, Stands, WillWait, Current, TypeOK
  <2>6. CASE m = n /\ Reenter(n)
    BY <1>y, <2>6 DEF Reenter, Takes, Awaits, Stands, WillWait, Current, TypeOK
  <2>7. CASE m = n /\ Enter(n)
    <3>1. \A a \in Tries : a[1] = n => step[a] = "idle"
      <4>1. ASSUME NEW a \in Tries, a[1] = n PROVE a[2] > try[n] \/ a = Current(n)
        BY <2>7, <4>1, TryParts DEF Enter, Current
      <4> QED
        BY <2>7, <4>1 DEF Enter, Takes, Phases, ComingAreIdle, Current
    <3>2. \A a \in Tries : a[1] = n => claim[a] # "claimed"
      BY <3>1, AttemptsAssumption DEF Phases, ClaimedLate, Claims
    <3> QED
      BY <2>7, <3>2, AttemptsAssumption DEF Enter, ClaimantHasClaim
  <2> QED
    BY <1>2, <2>4, <2>5, <2>6, <2>7
<1>3. ASSUME NEW a \in Tries, HostTurn(a) \/ NodeTurn(a) PROVE Stands(n)'
  <2>1. /\ UNCHANGED <<token, try, abandoned, halt>> /\ step[a] \in InCode
    BY <1>3 DEF HostTurn, NodeTurn, NodeSetsWait, Throws, Answers, Call, Posted, Recorded, HookRejects,
                Handled, ErrorRecorded, InCode
  <2>2. CASE a[1] # n
    <3>p. ASSUME NEW read, Probe(a, read), UNCHANGED waitTill PROVE waitingNode = n
      BY <2>2, <3>p, ProbeResult
    <3>f. ASSUME NEW cause, Fails(a, cause), UNCHANGED waitTill PROVE waitingNode = n
      BY <3>p, <3>f DEF Fails
    <3>1. waitingNode = n
      BY <1>3, <3>p, <3>f
         DEF HostTurn, NodeTurn, NodeSetsWait, Throws, Answers, Call, Posted, FinishSuccess, Recorded,
             HookRejects, Handled, ErrorRecorded
    <3>2. Current(n) # a
      BY <1>y, <2>2
    <3>g. ASSUME NEW cause, Fails(a, cause)
          PROVE  /\ step'[Current(n)] = step[Current(n)] /\ outcome'[Current(n)] = outcome[Current(n)]
                 /\ claim'[Current(n)] = claim[Current(n)]
      BY <1>y, <3>2, <3>g DEF Fails, Ends, Awaits, Decides, Probe, TypeOK
    <3>3. /\ step'[Current(n)] = step[Current(n)] /\ outcome'[Current(n)] = outcome[Current(n)]
          /\ claim'[Current(n)] = claim[Current(n)]
      <4>1. CASE NodeTurn(a)
        BY <1>y, <3>2, <3>g, <4>1
           DEF NodeTurn, NodeSetsWait, Throws, Answers, Ends, Awaits, Decides, Probe, TypeOK
      <4>2. CASE Posted(a) \/ Recorded(a)
        BY <1>y, <3>2, <3>g, <4>2
           DEF Posted, FinishSuccess, Recorded, Ends, Awaits, Decides, TypeOK
      <4>3. CASE Call(a) \/ HookRejects(a) \/ Handled(a) \/ ErrorRecorded(a)
        BY <1>y, <3>2, <4>3
           DEF Call, HookRejects, IsFatal, Handled, ErrorRecorded, Ends, Awaits, Decides, TypeOK
      <4> QED
        BY <1>3, <4>1, <4>2, <4>3 DEF HostTurn
    <3> QED
      BY <1>k, <2>1, <3>1, <3>3 DEF NothingDisowned
  <2>3. CASE a[1] = n
    <3>1. a \notin abandoned
      BY <2>1, <2>3 DEF NothingDisowned
    <3>2. Owned(a) \/ TimedOut(a)
      BY <2>1, <3>1 DEF OwnInv, InCodeIsOwned
    <3>3. CASE TimedOut(a)
      BY <2>1, <2>3, <3>3 DEF TimedOut, Stands
    <3>4. CASE Owned(a)
      <4>1. waitingNode = n => WillWait(a)
        BY <2>1, <2>3, <3>4 DEF ClaimantStands, NothingDisowned, Stands, Owned
      <4>2. WillWait(a)'
        BY <1>3, <2>3, <3>1, <4>1, ClaimantTurn
      <4> QED
        BY <2>1, <2>3, <3>4, <4>2 DEF Owned, Stands, Current
    <3> QED
      BY <3>2, <3>3, <3>4
  <2> QED
    BY <2>2, <2>3
<1>4. CASE UNCHANGED vars
  BY <1>4, <1>k DEF vars, NothingDisowned, Current
<1> QED
  BY <1>1, <1>2, <1>3, <1>4 DEF Next, Executor

LEMMA KeepStep ==
  ASSUME MayReject \subseteq StopWorkflow \cup Chained,
         TypeInv, ClaimInv, OwnInv, KeepInv, [Next]_vars
  PROVE  KeepInv'
<1>1. ClaimantStands'
  BY StandsStep DEF ClaimantStands
<1> QED
  BY <1>1, PhaseStep, HasClaimStep, PausedStep DEF KeepInv

\* Where every node whose hooks reject can halt: once a node has claimed the wait and no try of
\* it was disowned, an execution that stops without halting is paused, and the node is there.
THEOREM ClaimsAreKept ==
  ASSUME MayReject \subseteq StopWorkflow \cup Chained
  PROVE  Spec => []ClaimIsKept
<1>1. Init => ClaimInv /\ KeepInv
  <2> SUFFICES ASSUME Init PROVE ClaimInv /\ KeepInv
    OBVIOUS
  <2>1. \A n \in Nodes : n # None
    BY AttemptsAssumption
  <2> QED
    BY <2>1, AttemptsAssumption
       DEF Init, ClaimInv, ClaimantIsWaitingNode, WaitingIsClaimed, OneClaimant, KeepInv, Phases,
           ComingAreIdle, ClaimedLate, ClaimantHasClaim, WaitingIsPaused, ClaimantStands, Outcomes, Claims
<1>2. TypeInv /\ ClaimInv /\ OwnInv /\ KeepInv /\ [Next]_vars => ClaimInv' /\ OwnInv' /\ KeepInv'
  BY ClaimStep, OwnStep, KeepStep
<1>3. TypeInv /\ KeepInv => ClaimIsKept
  <2> SUFFICES ASSUME TypeInv, KeepInv, Quiescent, waitingNode # None, ~halt,
                      \A a \in abandoned : a[1] # waitingNode
               PROVE  pause /\ token[waitingNode] \in {"waiting", "failed"}
    BY DEF ClaimIsKept
  <2>1. waitingNode \in Nodes
    BY DEF TypeInv, TypeOK
  <2>2. Stands(waitingNode)
    BY <2>1 DEF KeepInv, ClaimantStands, NothingDisowned
  <2> QED
    BY <2>1, <2>2 DEF Quiescent, Stands, KeepInv, WaitingIsPaused
<1> QED
  BY <1>1, <1>2, <1>3, InitType, InitOwn, TypeStep, PTL DEF Spec

=============================================================================
