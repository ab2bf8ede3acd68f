-------------------------- MODULE AgentRoundProofs --------------------------
(***************************************************************************)
(* Theorems about the agent round: for any wiring of agents and tools, any *)
(* budgets and any number of calls.                                        *)
(***************************************************************************)
EXTENDS RoundCodec, FiniteSetTheorems, WellFoundedInduction, TLAPS

-----------------------------------------------------------------------------
(***************************************************************************)
(* Type correctness: no count of tokens goes below zero.                   *)
(***************************************************************************)
LEMMA AddOne ==
  ASSUME NEW f \in [Agents -> Nat], NEW a
  PROVE  [f EXCEPT ![a] = @ + 1] \in [Agents -> Nat]
<1>1. ASSUME a \in Agents PROVE f[a] + 1 \in Nat
  BY <1>1
<1> QED
  BY <1>1, Zenon

LEMMA TakeOne ==
  ASSUME NEW f \in [Agents -> Nat], NEW a, f[a] > 0
  PROVE  [f EXCEPT ![a] = @ + -1] \in [Agents -> Nat]
<1>1. ASSUME a \in Agents PROVE f[a] + -1 \in Nat
  BY <1>1
<1> QED
  BY <1>1, Zenon

LEMMA MoveType ==
  ASSUME TypeOK, NEW x, NEW s \in Stages, Moves(x, s)
  PROVE  at' \in [Acts -> Stages]
BY DEF TypeOK, Moves

LEMMA IdleType ==
  ASSUME TypeOK, NEW n, Takes(n) \/ Releases(n)
  PROVE  idle' \in [Nodes -> BOOLEAN]
BY DEF TypeOK, Takes, Releases

LEMMA RequeueType ==
  ASSUME TypeOK, NEW x \in Acts, NEW left, Requeues(x, left)
  PROVE  queue' \subseteq Acts /\ drained' \in [Agents -> Nat]
<1>1. [drained EXCEPT ![node[x]] = @ + 1] \in [Agents -> Nat]
  BY AddOne DEF TypeOK
<1> QED
  BY <1>1 DEF TypeOK, Requeues, Adds

\* The marking of the round is well typed: no token is taken that is not there.
THEOREM TypeCorrect == Spec => []TypeOK
<1>1. Init => TypeOK
  <2> SUFFICES ASSUME Init PROVE TypeOK
    OBVIOUS
  <2>1. at \in [Acts -> Stages]
    BY DEF Init, Stages, OutStages
  <2>2. node \in [Acts -> Nodes \cup {None}]
    BY AgentAssumption DEF Init
  <2>3. asker \in [Calls -> Acts \cup {None}] /\ actions \in [Acts -> SUBSET Calls]
    BY DEF Init
  <2> QED
    BY <2>1, <2>2, <2>3, AgentAssumption DEF Init, TypeOK
<1>2. TypeOK /\ [Next]_vars => TypeOK'
  <2> SUFFICES ASSUME TypeOK, [Next]_vars PROVE TypeOK'
    OBVIOUS
  <2>1. ASSUME NEW x \in Acts, Start(x) PROVE TypeOK'
    <3>1. at' \in [Acts -> Stages] /\ idle' \in [Nodes -> BOOLEAN]
      BY <2>1, MoveType, IdleType DEF Start, Stages, OutStages
    <3> QED
      BY <2>1, <3>1 DEF Start, TypeOK, Takes, control, roundSide
  <2>2. ASSUME NEW x \in Acts, Run(x) PROVE TypeOK'
    <3>1. at' \in [Acts -> Stages]
      BY <2>2, MoveType DEF Run, Stages, OutStages
    <3> QED
      BY <2>2, <3>1 DEF Run, TypeOK, control, roundSide
  <2>3. ASSUME NEW x \in Acts, RunSucceeds(x) PROVE TypeOK'
    <3>1. at' \in [Acts -> Stages] /\ idle' \in [Nodes -> BOOLEAN]
      BY <2>3, MoveType, IdleType DEF RunSucceeds, Landing, Stages
    <3>2. response' \in [Agents -> Nat]
      BY <2>3, AddOne DEF RunSucceeds, Responds, Adds, TypeOK
    <3> QED
      BY <2>3, <3>1, <3>2 DEF RunSucceeds, TypeOK, control
  <2>4. ASSUME NEW x \in Acts, RunHalts(x) PROVE TypeOK'
    <3>1. at' \in [Acts -> Stages] /\ idle' \in [Nodes -> BOOLEAN]
      BY <2>4, MoveType, IdleType DEF RunHalts, Landing, Stages, OutStages
    <3> QED
      BY <2>4, <3>1 DEF RunHalts, TypeOK, roundSide
  <2>5. ASSUME NEW x \in Acts, RunPauses(x) PROVE TypeOK'
    <3>1. at' \in [Acts -> Stages] /\ idle' \in [Nodes -> BOOLEAN]
      BY <2>5, MoveType, IdleType DEF RunPauses, Landing, Stages, OutStages
    <3> QED
      BY <2>5, <3>1 DEF RunPauses, TypeOK, roundSide
  <2>6. ASSUME NEW x \in Acts, NEW S \in SUBSET Unasked, NEW f \in Requests(node[x], S),
               RunRequests(x, S, f)
        PROVE  TypeOK'
    <3>1. idle' \in [Nodes -> BOOLEAN]
      BY <2>6, IdleType DEF RunRequests, Landing
    <3>2. at' \in [Acts -> Stages]
      BY <2>6 DEF RunRequests, TypeOK, Stages, OutStages
    <3>3. f \in [S -> Nodes] /\ S \subseteq Calls
      BY AgentAssumption DEF Requests, ToolsOf, Unasked
    <3>4. node' \in [Acts -> Nodes \cup {None}]
      BY <2>6, <3>3 DEF RunRequests, TypeOK
    <3>5. asker' \in [Calls -> Acts \cup {None}] /\ actions' \in [Acts -> SUBSET Calls]
      BY <2>6, <3>3 DEF RunRequests, TypeOK
    <3> QED
      BY <2>6, <3>1, <3>2, <3>4, <3>5 DEF RunRequests, TypeOK, control
  <2>7. ASSUME NEW x \in Acts, Done(x) PROVE TypeOK'
    BY <2>7 DEF Done, TypeOK, control, roundSide
  <2>8. ASSUME NEW x \in Acts, DoneReq(x) PROVE TypeOK'
    <3>1. at' \in [Acts -> Stages]
      BY <2>8, MoveType DEF DoneReq, Stages, OutStages
    <3>2. queue' \subseteq Acts /\ drained' \in [Agents -> Nat]
      BY <2>8, RequeueType DEF DoneReq
    <3> QED
      BY <2>8, <3>1, <3>2 DEF DoneReq, TypeOK, control
  <2>9. ASSUME NEW x \in Acts, NEW c \in Calls, Dispatch(x, c) PROVE TypeOK'
    <3>1. at' \in [Acts -> Stages]
      BY <2>9, MoveType DEF Dispatch, Stages, OutStages
    <3>2. queue' \subseteq Acts /\ drained' \in [Agents -> Nat]
      BY <2>9, RequeueType DEF Dispatch
    <3>3. outstanding' \in [Agents -> Nat] /\ calls' \in [Agents -> Nat]
      BY <2>9, AddOne, TakeOne DEF Dispatch, Adds, TypeOK
    <3> QED
      BY <2>9, <3>1, <3>2, <3>3 DEF Dispatch, TypeOK, control
  <2>10. ASSUME NEW a \in Agents, Collect(a) PROVE TypeOK'
    <3>1. outstanding' \in [Agents -> Nat] /\ response' \in [Agents -> Nat]
      BY <2>10, TakeOne DEF Collect, Adds, TypeOK
    <3> QED
      BY <2>10, <3>1 DEF Collect, TypeOK, control
  <2>11. ASSUME NEW x \in Acts, Resume(x) PROVE TypeOK'
    <3>1. at' \in [Acts -> Stages] /\ idle' \in [Nodes -> BOOLEAN]
      BY <2>11, MoveType, IdleType DEF Resume, Stages, OutStages
    <3>2. drained' \in [Agents -> Nat] /\ rounds' \in [Agents -> Nat]
      BY <2>11, TakeOne DEF Resume, Complete, RoundLeft, Adds, TypeOK
    <3> QED
      BY <2>11, <3>1, <3>2 DEF Resume, Takes, TypeOK, control
  <2>12. ASSUME NEW x \in Acts, NEW y \in Acts, CallsOut(x, y) PROVE TypeOK'
    <3>1. idle' \in [Nodes -> BOOLEAN]
      BY <2>12, IdleType DEF CallsOut
    <3>2. at' \in [Acts -> Stages]
      BY <2>12 DEF CallsOut, TypeOK, Stages, OutStages
    <3> QED
      BY <2>12, <3>1, <3>2 DEF CallsOut, Takes, TypeOK, control
  <2>13. ASSUME NEW x \in Acts, RoundsOut(x) PROVE TypeOK'
    <3>1. at' \in [Acts -> Stages]
      BY <2>13, MoveType DEF RoundsOut, Stages, OutStages
    <3>2. drained' \in [Agents -> Nat]
      BY <2>13, TakeOne DEF RoundsOut, Complete, Adds, TypeOK
    <3> QED
      BY <2>13, <3>1, <3>2 DEF RoundsOut, TypeOK
  <2>14. ASSUME Cancel PROVE TypeOK'
    BY <2>14 DEF Cancel, TypeOK, roundSide
  <2>15. ASSUME UNCHANGED vars PROVE TypeOK'
    BY <2>15 DEF vars, control, roundSide, TypeOK
  <2> QED
    BY <2>1, <2>2, <2>3, <2>4, <2>5, <2>6, <2>7, <2>8, <2>9, <2>10, <2>11, <2>12, <2>13, <2>14, <2>15
       DEF Next, Fire, Land
<1> QED
  BY <1>1, <1>2, PTL DEF Spec

-----------------------------------------------------------------------------
(***************************************************************************)
(* The join: what a round waits for is what it still expects.              *)
(***************************************************************************)

\* A call belongs to a round as soon as it is asked for; whoever asked is a
\* started activation of an agent.
Belongs ==
  \A c \in Calls :
    /\ at[c] # "none" => asker[c] # None
    /\ asker[c] # None => at[asker[c]] # "none" /\ node[asker[c]] \in Agents

\* A step that neither asks for, dispatches nor answers a call.
Quiet ==
  /\ \A x \in Acts : at'[x] \in OutStages <=> at[x] \in OutStages
  /\ \A x \in Acts : at'[x] = "none" <=> at[x] = "none"
  /\ UNCHANGED <<node, asker>>

SameOut == \A a \in Agents : OutOf(a)' = OutOf(a)

LEMMA QuietKeeps ==
  ASSUME TypeOK, Belongs, Quiet
  PROVE  Belongs' /\ SameOut
<1>1. \A c \in Calls : c \in Acts /\ (asker[c] # None => asker[c] \in Acts)
  BY DEF TypeOK, Acts
<1>2. Belongs'
  BY <1>1 DEF Belongs, Quiet
<1>3. SameOut
  BY <1>1 DEF SameOut, Quiet, OutOf
<1> QED
  BY <1>2, <1>3

LEMMA MoveIsQuiet ==
  ASSUME TypeOK, NEW x \in Acts, NEW s \in OutStages, at[x] \in OutStages, Moves(x, s),
         UNCHANGED <<node, asker>>
  PROVE  Quiet
BY DEF TypeOK, Moves, Quiet, OutStages

LEMMA OutIsFinite == \A a \in Agents : IsFiniteSet(OutOf(a)) /\ Cardinality(OutOf(a)) \in Nat
<1> TAKE a \in Agents
<1>1. OutOf(a) \subseteq Calls
  BY DEF OutOf
<1> QED
  BY <1>1, AgentAssumption, FS_Subset, FS_CardinalityType

\* An agent's request: its calls are queued, none is out.
LEMMA RequestKeeps ==
  ASSUME TypeOK, Belongs, NEW x \in Acts, NEW S \in SUBSET Unasked,
         NEW f \in Requests(node[x], S), node[x] \in Agents, at[x] = "flying",
         RunRequests(x, S, f)
  PROVE  Belongs' /\ SameOut
<1>1. /\ S \subseteq Calls /\ x \notin S /\ \A y \in S : at[y] = "none"
  BY DEF Unasked
<1>2. /\ at' = [y \in Acts |-> IF y = x THEN "request" ELSE IF y \in S THEN "queued" ELSE at[y]]
      /\ node' = [y \in Acts |-> IF y \in S THEN f[y] ELSE node[y]]
      /\ asker' = [c \in Calls |-> IF c \in S THEN x ELSE asker[c]]
  BY DEF RunRequests
<1>3. \A c \in Calls : c \in Acts /\ (asker[c] # None => asker[c] \in Acts)
  BY DEF TypeOK, Acts
<1>4. x # None
  BY AgentAssumption DEF Acts
<1>5. \A c \in Calls : asker[c] # None => asker[c] \notin S
  BY <1>1 DEF Belongs
<1>6. ASSUME NEW c \in Calls
      PROVE  /\ at'[c] # "none" => asker'[c] # None
             /\ asker'[c] # None => at'[asker'[c]] # "none" /\ node'[asker'[c]] \in Agents
  <2>1. CASE c \in S
    BY <2>1, <1>1, <1>2, <1>4
  <2>2. CASE c \notin S
    <3>1. asker'[c] = asker[c]
      BY <2>2, <1>2
    <3>2. at'[c] # "none" => asker'[c] # None
      BY <3>1, <2>2, <1>2, <1>3 DEF Belongs
    <3>3. asker[c] # None => at'[asker[c]] # "none" /\ node'[asker[c]] \in Agents
      BY <1>2, <1>3, <1>5 DEF Belongs
    <3> QED
      BY <3>1, <3>2, <3>3
  <2> QED
    BY <2>1, <2>2
<1>7. Belongs'
  BY <1>6 DEF Belongs
<1>8. ASSUME NEW a \in Agents, NEW c \in Calls
      PROVE  (asker'[c] # None /\ node'[asker'[c]] = a /\ at'[c] \in OutStages)
               <=> (asker[c] # None /\ node[asker[c]] = a /\ at[c] \in OutStages)
  <2>1. CASE c \in S
    BY <2>1, <1>1, <1>2, <1>3 DEF OutStages
  <2>2. CASE c \notin S
    <3>1. asker'[c] = asker[c]
      BY <2>2, <1>2
    <3>2. at'[c] \in OutStages <=> at[c] \in OutStages
      BY <2>2, <1>2, <1>3 DEF OutStages
    <3>3. asker[c] # None => node'[asker[c]] = node[asker[c]]
      BY <1>2, <1>3, <1>5
    <3> QED
      BY <3>1, <3>2, <3>3
  <2> QED
    BY <2>1, <2>2
<1>9. SameOut
  BY <1>8 DEF SameOut, OutOf
<1> QED
  BY <1>7, <1>9

\* A call that is dispatched or answered moves in or out of one agent's set.
LEMMA CallMoves ==
  ASSUME TypeOK, Belongs, NEW c \in Calls, NEW s \in Stages \ {"none"}, at[c] # "none", Moves(c, s),
         UNCHANGED <<node, asker>>
  PROVE  /\ Belongs'
         /\ \E b \in Agents :
              /\ b = node[asker[c]]
              /\ \A a \in Agents \ {b} : OutOf(a)' = OutOf(a)
              /\ OutOf(b)' = IF s \in OutStages THEN OutOf(b) \cup {c} ELSE OutOf(b) \ {c}
<1>1. /\ asker[c] # None /\ asker[c] \in Acts /\ node[asker[c]] \in Agents
      /\ at' = [at EXCEPT ![c] = s] /\ c \in Acts
  BY DEF TypeOK, Belongs, Moves, Acts
<1>2. \A y \in Acts : y # c => at'[y] = at[y]
  BY <1>1 DEF TypeOK
<1>3. at'[c] = s
  BY <1>1 DEF TypeOK
<1>4. \A d \in Calls : d \in Acts /\ (asker[d] # None => asker[d] \in Acts)
  BY DEF TypeOK, Acts
<1>5. Belongs'
  BY <1>1, <1>2, <1>3, <1>4 DEF Belongs
<1>6. PICK b \in Agents : b = node[asker[c]]
  BY <1>1
<1>7. \A a \in Agents \ {b} : OutOf(a)' = OutOf(a)
  BY <1>2, <1>4, <1>6 DEF OutOf
<1>8. ASSUME NEW d \in Calls, d # c PROVE d \in OutOf(b)' <=> d \in OutOf(b)
  BY <1>2, <1>4, <1>8 DEF OutOf
<1>9. c \in OutOf(b)' <=> s \in OutStages
  BY <1>1, <1>3, <1>6 DEF OutOf
<1>10. OutOf(b)' \subseteq Calls /\ OutOf(b) \subseteq Calls
  BY DEF OutOf
<1>11. OutOf(b)' = IF s \in OutStages THEN OutOf(b) \cup {c} ELSE OutOf(b) \ {c}
  BY <1>8, <1>9, <1>10
<1> QED
  BY <1>5, <1>6, <1>7, <1>11

\* Belongs and JoinAccounts are inductive together.
LEMMA JoinHolds == Spec => [](Belongs /\ JoinAccounts)
<1>1. Init => Belongs /\ JoinAccounts
  <2> SUFFICES ASSUME Init PROVE Belongs /\ JoinAccounts
    OBVIOUS
  <2>1. \A c \in Calls : asker[c] = None /\ at[c] = "none"
    BY AgentAssumption DEF Init, Acts
  <2>2. \A a \in Agents : OutOf(a) = {}
    BY <2>1 DEF OutOf
  <2> QED
    <3>1. Belongs
      BY <2>1 DEF Belongs
    <3>2. \A a \in Agents : Cardinality(OutOf(a)) = 0
      BY <2>2, FS_EmptySet
    <3>3. \A a \in Agents : outstanding[a] = 0 /\ response[a] = 0
      BY DEF Init
    <3> QED
      BY <3>1, <3>2, <3>3 DEF JoinAccounts
<1>2. TypeOK /\ Belongs /\ JoinAccounts /\ [Next]_vars => Belongs' /\ JoinAccounts'
  <2> SUFFICES ASSUME TypeOK, Belongs, JoinAccounts, [Next]_vars PROVE Belongs' /\ JoinAccounts'
    OBVIOUS
  <2>1. ASSUME Quiet, UNCHANGED <<outstanding, response>> PROVE Belongs' /\ JoinAccounts'
    BY <2>1, QuietKeeps DEF SameOut, JoinAccounts
  <2>2. ASSUME NEW x \in Acts, Start(x) \/ Run(x) \/ RunHalts(x) \/ RunPauses(x) \/ DoneReq(x)
                                \/ Resume(x) \/ RoundsOut(x)
        PROVE  Belongs' /\ JoinAccounts'
    <3>1. PICK s \in OutStages : at[x] \in OutStages /\ Moves(x, s)
      BY <2>2 DEF Start, Run, RunHalts, RunPauses, DoneReq, Resume, RoundsOut, Landing, OutStages
    <3>2. UNCHANGED <<node, asker, outstanding, response>>
      BY <2>2 DEF Start, Run, RunHalts, RunPauses, DoneReq, Resume, RoundsOut, roundSide
    <3> QED
      BY <3>1, <3>2, <2>1, MoveIsQuiet
  <2>3. ASSUME NEW x \in Acts, RunSucceeds(x) PROVE Belongs' /\ JoinAccounts'
    <3>1. at[x] \in OutStages /\ Moves(x, "answered") /\ UNCHANGED <<node, asker, outstanding>>
      BY <2>3 DEF RunSucceeds, Landing, OutStages
    <3>2. CASE x \notin Calls
      <4>1. UNCHANGED response
        BY <3>2, <2>3 DEF RunSucceeds, Responds
      <4>2. \A c \in Calls : c \in Acts /\ (asker[c] # None => asker[c] \in Acts) /\ at'[c] = at[c]
        BY <3>1, <3>2 DEF Moves, TypeOK, Acts
      <4>3. Belongs'
        BY <3>1, <4>2 DEF Belongs, Moves, TypeOK
      <4>4. SameOut
        BY <3>1, <4>2 DEF SameOut, OutOf
      <4> QED
        BY <3>1, <4>1, <4>3, <4>4 DEF SameOut, JoinAccounts
    <3>3. CASE x \in Calls
      <4>1. "answered" \in Stages \ {"none"} /\ "answered" \notin OutStages /\ at[x] # "none"
        BY <3>1 DEF Stages, OutStages
      <4>2. /\ Belongs'
            /\ \E b \in Agents :
                 /\ b = node[asker[x]]
                 /\ \A a \in Agents \ {b} : OutOf(a)' = OutOf(a)
                 /\ OutOf(b)' = OutOf(b) \ {x}
        BY <3>1, <3>3, <4>1, CallMoves
      <4> PICK b \in Agents :
                 /\ b = node[asker[x]]
                 /\ \A a \in Agents \ {b} : OutOf(a)' = OutOf(a)
                 /\ OutOf(b)' = OutOf(b) \ {x}
        BY <4>2
      <4>3. x \in OutOf(b)
        BY <3>1, <3>3, <4>1 DEF OutOf, Belongs
      <4>4. Cardinality(OutOf(b)') = Cardinality(OutOf(b)) - 1
        <5>1. IsFiniteSet(OutOf(b)) /\ OutOf(b)' = OutOf(b) \ {x}
          BY OutIsFinite
        <5>2. Cardinality(OutOf(b) \ {x}) = Cardinality(OutOf(b)) - 1
          BY <5>1, <4>3, FS_RemoveElement
        <5> QED
          BY <5>1, <5>2
      <4>5. response' = [response EXCEPT ![b] = @ + 1]
        BY <2>3, <3>3 DEF RunSucceeds, Responds, Adds
      <4>6. response'[b] = response[b] + 1 /\ \A a \in Agents \ {b} : response'[a] = response[a]
        BY <4>2, <4>5 DEF TypeOK
      <4>7. Cardinality(OutOf(b)) \in Nat /\ response[b] \in Nat
        BY <4>2, OutIsFinite DEF TypeOK
      <4>8. outstanding'[b] = response'[b] + Cardinality(OutOf(b)')
        BY <3>1, <4>2, <4>4, <4>6, <4>7 DEF JoinAccounts
      <4>9. ASSUME NEW a \in Agents, a # b PROVE outstanding'[a] = response'[a] + Cardinality(OutOf(a)')
        BY <4>9, <3>1, <4>2, <4>6 DEF JoinAccounts
      <4> QED
        BY <4>2, <4>8, <4>9 DEF JoinAccounts
    <3> QED
      BY <3>2, <3>3
  <2>4. ASSUME NEW x \in Acts, NEW S \in SUBSET Unasked, NEW f \in Requests(node[x], S),
               RunRequests(x, S, f)
        PROVE  Belongs' /\ JoinAccounts'
    <3>1. Belongs' /\ SameOut
      BY <2>4, RequestKeeps DEF RunRequests
    <3>2. UNCHANGED <<outstanding, response>>
      BY <2>4 DEF RunRequests
    <3> QED
      BY <3>1, <3>2 DEF SameOut, JoinAccounts
  <2>5. ASSUME NEW x \in Acts, Done(x) PROVE Belongs' /\ JoinAccounts'
    <3>1. Quiet /\ UNCHANGED <<outstanding, response>>
      BY <2>5 DEF Done, Quiet, roundSide
    <3> QED
      BY <3>1, <2>1
  <2>6. ASSUME NEW x \in Acts, NEW c \in Calls, Dispatch(x, c) PROVE Belongs' /\ JoinAccounts'
    <3>1. /\ at[c] = "queued" /\ asker[c] = x /\ Moves(c, "input")
          /\ UNCHANGED <<node, asker, response>>
          /\ outstanding' = [outstanding EXCEPT ![node[x]] = @ + 1]
      BY <2>6 DEF Dispatch, Pending, Asked, Adds
    <3>2. "input" \in Stages \ {"none"} /\ "input" \in OutStages /\ at[c] \notin OutStages
      BY <3>1 DEF Stages, OutStages
    <3>3. /\ Belongs'
          /\ \E b \in Agents :
               /\ b = node[x]
               /\ \A a \in Agents \ {b} : OutOf(a)' = OutOf(a)
               /\ OutOf(b)' = OutOf(b) \cup {c}
      BY <3>1, <3>2, CallMoves
    <3> PICK b \in Agents :
               /\ b = node[x]
               /\ \A a \in Agents \ {b} : OutOf(a)' = OutOf(a)
               /\ OutOf(b)' = OutOf(b) \cup {c}
      BY <3>3
    <3>4. c \notin OutOf(b)
      BY <3>2 DEF OutOf
    <3>5. Cardinality(OutOf(b)') = Cardinality(OutOf(b)) + 1
      BY <3>3, <3>4, OutIsFinite, FS_AddElement
    <3>6. /\ outstanding'[b] = outstanding[b] + 1
          /\ \A a \in Agents \ {b} : outstanding'[a] = outstanding[a]
      BY <3>1, <3>3 DEF TypeOK
    <3>7. Cardinality(OutOf(b)) \in Nat /\ response[b] \in Nat
      BY <3>3, OutIsFinite DEF TypeOK
    <3>8. outstanding'[b] = response'[b] + Cardinality(OutOf(b)')
      BY <3>1, <3>3, <3>5, <3>6, <3>7 DEF JoinAccounts
    <3>9. ASSUME NEW a \in Agents, a # b
          PROVE  outstanding'[a] = response'[a] + Cardinality(OutOf(a)')
      BY <3>9, <3>1, <3>3, <3>6 DEF JoinAccounts
    <3> QED
      BY <3>3, <3>8, <3>9 DEF JoinAccounts
  <2>7. ASSUME NEW a \in Agents, Collect(a) PROVE Belongs' /\ JoinAccounts'
    <3>1. Quiet
      BY <2>7 DEF Collect, Quiet
    <3>2. Belongs' /\ SameOut
      BY <3>1, QuietKeeps
    <3>3. /\ outstanding'[a] = outstanding[a] - 1 /\ response'[a] = response[a] - 1
          /\ \A b \in Agents : b # a => outstanding'[b] = outstanding[b] /\ response'[b] = response[b]
      BY <2>7 DEF Collect, Adds, TypeOK
    <3>4. \A b \in Agents : Cardinality(OutOf(b)) \in Nat /\ response[b] \in Nat
      BY OutIsFinite DEF TypeOK
    <3> QED
      BY <3>2, <3>3, <3>4 DEF SameOut, JoinAccounts
  <2>8. ASSUME NEW x \in Acts, NEW y \in Acts, CallsOut(x, y) PROVE Belongs' /\ JoinAccounts'
    <3>1. Quiet
      BY <2>8 DEF CallsOut, Quiet, Pending, Asked, OutStages, Acts
    <3> QED
      BY <2>8, <3>1, <2>1 DEF CallsOut
  <2>9. ASSUME Cancel \/ UNCHANGED vars PROVE Belongs' /\ JoinAccounts'
    <3>1. Quiet /\ UNCHANGED <<outstanding, response>>
      BY <2>9 DEF Cancel, vars, Quiet, roundSide
    <3> QED
      BY <3>1, <2>1
  <2> QED
    BY <2>2, <2>3, <2>4, <2>5, <2>6, <2>7, <2>8, <2>9 DEF Next, Fire, Land
<1> QED
  BY <1>1, <1>2, TypeCorrect, PTL DEF Spec

\* A/outstanding is what the round waits for, whoever shares a tool with
\* whom and however deep agents nest: every answer is counted once, for the
\* agent that asked, and A_resume and the two exits read the whole of it.
THEOREM JoinIsCounted == Spec => []JoinAccounts
BY JoinHolds, PTL

-----------------------------------------------------------------------------
(***************************************************************************)
(* One round per agent.  X/idle keeps an agent to one run, but a request   *)
(* gives it back while the round is open: what keeps a second round away   *)
(* is that nobody else can call the agent.                                 *)
(***************************************************************************)

\* No agent is called by two: a sub-agent has one caller, that names it once in a
\* request, and an agent has one arrival on its main input.
OneCaller ==
  /\ \A t \in Agents \cap Tools : Len(AgentsOf[t]) = 1 /\ t \in AskedOnce
  /\ \A m, n \in Mains : Home[m] = Home[n] => m = n

\* A call runs on a tool of the agent that asked, an arrival on its own agent.
Placed ==
  /\ \A m \in Mains : node[m] = Home[m] /\ at[m] \notin {"none", "queued", "dropped"}
  /\ \A c \in Calls : at[c] # "none" => node[c] \in ToolsOf(node[asker[c]])
  /\ \A x \in Acts : at[x] \in {"request", "round"} \/ actions[x] # {} => node[x] \in Agents
  /\ \A x \in Acts : at[x] \in {"none", "queued", "input", "dropped"} => actions[x] = {}

\* A call that is not answered keeps open the round that asked for it, and only a round
\* that fails gives calls up.
Waits ==
  /\ \A x \in Acts : \A c \in actions[x] : asker[c] = x /\ at[c] # "none"
  /\ \A c \in Calls : at[c] \in Unfinished =>
       at[asker[c]] \in {"request", "round"} /\ c \in actions[asker[c]]
  /\ \A c \in Calls : at[c] = "dropped" =>
       at[asker[c]] \in {"overrun", "failing", "answered", "halted"}

\* An agent has one unfinished activation.
OneUnfinished ==
  \A x, y \in Acts :
    at[x] \in Unfinished /\ at[y] \in Unfinished /\ node[x] = node[y] /\ node[x] \in Agents => x = y

\* A/drained is marked when the agent's open round has left A/queue, with no call of it
\* left to dispatch.
DrainedAccounts ==
  /\ \A x \in queue : at[x] = "round"
  /\ \A x \in Acts : at[x] = "round" /\ x \notin queue => Pending(x) = {}
  /\ \A a \in Agents : drained[a] > 0 =>
       drained[a] = 1 /\ \E x \in Acts : at[x] = "round" /\ node[x] = a /\ x \notin queue

Alone == Placed /\ Waits /\ OneUnfinished /\ DrainedAccounts

\* The caller of a sub-agent is the only agent it is wired to.
LEMMA CallerIsOne ==
  ASSUME OneCaller, NEW t \in Agents, NEW a, t \in ToolsOf(a)
  PROVE  Len(AgentsOf[t]) = 1 /\ a = AgentsOf[t][1] /\ t \in AskedOnce
<1>1. t \in Agents \cap Tools /\ \E i \in DOMAIN AgentsOf[t] : AgentsOf[t][i] = a
  BY DEF ToolsOf
<1>2. AgentsOf[t] \in Seq(Agents) /\ Len(AgentsOf[t]) = 1 /\ t \in AskedOnce
  BY <1>1, AgentAssumption DEF OneCaller
<1>3. DOMAIN AgentsOf[t] = {1}
  BY <1>2
<1> QED
  BY <1>1, <1>2, <1>3

\* Facts about a state's activations that every step needs.
LEMMA Actors ==
  ASSUME TypeOK, Belongs
  PROVE  /\ \A c \in Calls : c \in Acts /\ (at[c] # "none" => asker[c] \in Acts)
         /\ \A x \in Acts : actions[x] \subseteq Calls
         /\ \A x \in Acts : at[x] \in Stages
BY DEF TypeOK, Belongs, Acts

\* A step of one activation's run that opens and closes no round.
LEMMA RunKeeps ==
  ASSUME TypeOK, Belongs, Alone, NEW x \in Acts, NEW s \in OutStages \cup {"answered"},
         Moves(x, s), UNCHANGED <<node, asker, actions, queue, drained>>,
         at[x] \in {"input", "running", "overrun", "flying", "failing"},
         s \in {"running", "flying", "failing", "halted", "held", "answered"},
         at[x] \in {"overrun", "failing"} => s \in {"failing", "halted", "answered"}
  PROVE  Alone'
<1>1. \A y \in Acts : y # x => at'[y] = at[y]
  BY DEF Moves, TypeOK
<1>2. at'[x] = s
  BY DEF Moves, TypeOK
<1>3. \A c \in Calls : c \in Acts /\ (at[c] # "none" => asker[c] \in Acts)
  BY Actors
<1>4. \A y \in Acts : at'[y] \in Unfinished => at[y] \in Unfinished
  BY <1>1, <1>2 DEF Unfinished, OutStages
<1>5. \A y \in Acts : at'[y] = "round" <=> at[y] = "round"
  BY <1>1, <1>2
<1>6. Placed'
  <2>1. \A m \in Mains : m \in Acts /\ node'[m] = Home[m] /\ at'[m] \notin {"none", "queued", "dropped"}
    BY <1>1, <1>2 DEF Alone, Placed, Acts
  <2>2. \A c \in Calls : at'[c] # "none" => node'[c] \in ToolsOf(node'[asker'[c]])
    BY <1>1, <1>3 DEF Alone, Placed
  <2>3. \A y \in Acts : at'[y] \in {"request", "round"} \/ actions'[y] # {} => node'[y] \in Agents
    BY <1>1, <1>2 DEF Alone, Placed
  <2>4. \A y \in Acts : at'[y] \in {"none", "queued", "input", "dropped"} => actions'[y] = {}
    BY <1>1, <1>2 DEF Alone, Placed
  <2> QED
    BY <2>1, <2>2, <2>3, <2>4 DEF Placed, ToolsOf
<1>7. Waits'
  <2>1. \A y \in Acts : \A c \in actions'[y] : asker'[c] = y /\ at'[c] # "none"
    BY <1>1, <1>2, Actors DEF Alone, Waits
  <2>2. \A c \in Calls : at'[c] \in Unfinished =>
          at'[asker'[c]] \in {"request", "round"} /\ c \in actions'[asker'[c]]
    BY <1>1, <1>3, <1>4 DEF Alone, Waits, Unfinished, OutStages
  <2>3. \A c \in Calls : at'[c] = "dropped" =>
          at'[asker'[c]] \in {"overrun", "failing", "answered", "halted"}
    BY <1>1, <1>2, <1>3 DEF Alone, Waits
  <2> QED
    BY <2>1, <2>2, <2>3 DEF Waits, Unfinished, OutStages
<1>8. OneUnfinished'
  <2>1. \A y, z \in Acts :
          at'[y] \in Unfinished /\ at'[z] \in Unfinished /\ node'[y] = node'[z] /\ node'[y] \in Agents => y = z
    BY <1>4 DEF Alone, OneUnfinished
  <2> QED
    BY <2>1 DEF OneUnfinished, Unfinished, OutStages
<1>9. DrainedAccounts'
  <2>1. \A y \in Acts : Pending(y)' = Pending(y)
    BY <1>1, <1>2, <1>3 DEF Pending, Asked
  <2> QED
    BY <1>5, <2>1 DEF Alone, DrainedAccounts, TypeOK
<1> QED
  BY <1>6, <1>7, <1>8, <1>9 DEF Alone

\* A complete round has every answer it asked for.
LEMMA CompleteIsWhole ==
  ASSUME TypeOK, Belongs, JoinAccounts, Alone, NEW x \in Acts, at[x] = "round", Complete(node[x])
  PROVE  /\ x \notin queue /\ node[x] \in Agents /\ drained[node[x]] = 1
         /\ \A c \in Calls : asker[c] = x => at[c] \notin Unfinished
         /\ \A c \in actions[x] : at[c] = "answered"
<1>1. node[x] \in Agents
  BY DEF Alone, Placed
<1>2. drained[node[x]] = 1 /\ \E y \in Acts : at[y] = "round" /\ node[y] = node[x] /\ y \notin queue
  BY <1>1 DEF Alone, DrainedAccounts, Complete
<1>3. x \notin queue
  BY <1>1, <1>2 DEF Alone, OneUnfinished, Unfinished, OutStages
<1>4. Pending(x) = {}
  BY <1>3 DEF Alone, DrainedAccounts
<1>5. OutOf(node[x]) = {}
  <2>1. IsFiniteSet(OutOf(node[x])) /\ Cardinality(OutOf(node[x])) \in Nat
    BY <1>1, OutIsFinite
  <2>2. outstanding[node[x]] = response[node[x]] + Cardinality(OutOf(node[x]))
    BY <1>1 DEF JoinAccounts
  <2>3. outstanding[node[x]] = 0 /\ response[node[x]] \in Nat
    BY <1>1 DEF Complete, TypeOK
  <2>4. Cardinality(OutOf(node[x])) = 0
    BY <2>1, <2>2, <2>3
  <2> QED
    BY <2>1, <2>4, FS_EmptySet
<1>6. x # None
  BY AgentAssumption DEF Acts
<1>7. ASSUME NEW c \in Calls, asker[c] = x PROVE at[c] \notin Unfinished
  <2>1. at[c] \notin OutStages
    BY <1>5, <1>6, <1>7 DEF OutOf
  <2>2. at[c] # "queued"
    BY <1>4, <1>7 DEF Pending, Asked
  <2> QED
    BY <2>1, <2>2 DEF Unfinished
<1>8. ASSUME NEW c \in actions[x] PROVE at[c] = "answered"
  <2>1. c \in Calls /\ c \in Acts /\ at[c] \in Stages
    BY Actors
  <2>2. asker[c] = x /\ at[c] # "none"
    BY DEF Alone, Waits
  <2>3. at[c] \notin Unfinished
    BY <1>7, <2>1, <2>2
  <2>4. at[c] # "dropped"
    BY <2>1, <2>2 DEF Alone, Waits
  <2> QED
    BY <2>1, <2>2, <2>3, <2>4 DEF Stages, Unfinished
<1> QED
  BY <1>1, <1>2, <1>3, <1>7, <1>8

\* A_resume and A_rounds_out: a complete round is left.
LEMMA LeaveKeeps ==
  ASSUME TypeOK, Belongs, JoinAccounts, Alone, NEW x \in Acts, at[x] = "round", Complete(node[x]),
         NEW s \in {"running", "held"}, Moves(x, s), Adds(drained, node[x], -1),
         UNCHANGED <<node, asker, actions, queue>>
  PROVE  Alone'
<1>1. \A y \in Acts : y # x => at'[y] = at[y]
  BY DEF Moves, TypeOK
<1>2. at'[x] = s
  BY DEF Moves, TypeOK
<1>3. \A c \in Calls : c \in Acts /\ (at[c] # "none" => asker[c] \in Acts)
  BY Actors
<1>4. \A y \in Acts : at'[y] \in Unfinished => at[y] \in Unfinished
  BY <1>1, <1>2 DEF Unfinished, OutStages
<1>5. /\ x \notin queue /\ node[x] \in Agents /\ drained[node[x]] = 1
      /\ \A c \in Calls : asker[c] = x => at[c] \notin Unfinished
      /\ \A c \in actions[x] : at[c] = "answered"
  BY CompleteIsWhole
<1>6. Placed'
  <2>1. \A m \in Mains : m \in Acts /\ node'[m] = Home[m] /\ at'[m] \notin {"none", "queued", "dropped"}
    BY <1>1, <1>2 DEF Alone, Placed, Acts
  <2>2. \A c \in Calls : at'[c] # "none" => node'[c] \in ToolsOf(node'[asker'[c]])
    BY <1>1, <1>3 DEF Alone, Placed
  <2>3. \A y \in Acts : at'[y] \in {"request", "round"} \/ actions'[y] # {} => node'[y] \in Agents
    BY <1>1, <1>2 DEF Alone, Placed
  <2>4. \A y \in Acts : at'[y] \in {"none", "queued", "input", "dropped"} => actions'[y] = {}
    BY <1>1, <1>2 DEF Alone, Placed
  <2> QED
    BY <2>1, <2>2, <2>3, <2>4 DEF Placed, ToolsOf
<1>7. Waits'
  <2>1. \A y \in Acts : \A c \in actions'[y] : asker'[c] = y /\ at'[c] # "none"
    BY <1>1, <1>2, Actors DEF Alone, Waits
  <2>2. \A c \in Calls : at'[c] \in Unfinished =>
          at'[asker'[c]] \in {"request", "round"} /\ c \in actions'[asker'[c]]
    BY <1>1, <1>3, <1>4, <1>5 DEF Alone, Waits, Unfinished, OutStages
  <2>3. \A c \in Calls : at'[c] = "dropped" =>
          at'[asker'[c]] \in {"overrun", "failing", "answered", "halted"}
    BY <1>1, <1>2, <1>3 DEF Alone, Waits
  <2> QED
    BY <2>1, <2>2, <2>3 DEF Waits, Unfinished, OutStages
<1>8. OneUnfinished'
  <2>1. \A y, z \in Acts :
          at'[y] \in Unfinished /\ at'[z] \in Unfinished /\ node'[y] = node'[z] /\ node'[y] \in Agents => y = z
    BY <1>4 DEF Alone, OneUnfinished
  <2> QED
    BY <2>1 DEF OneUnfinished, Unfinished, OutStages
<1>9. DrainedAccounts'
  <2>1. \A y \in Acts : Pending(y)' = Pending(y)
    BY <1>1, <1>2, <1>3 DEF Pending, Asked, Moves
  <2>2. /\ drained'[node[x]] = 0
        /\ \A a \in Agents : a # node[x] => drained'[a] = drained[a]
    BY <1>5 DEF Adds, TypeOK
  <2>3. \A y \in queue' : at'[y] = "round"
    BY <1>1, <1>5 DEF Alone, DrainedAccounts, TypeOK
  <2>4. \A y \in Acts : at'[y] = "round" /\ y \notin queue' => Pending(y)' = {}
    BY <1>1, <1>2, <2>1 DEF Alone, DrainedAccounts
  <2>5. ASSUME NEW a \in Agents, drained'[a] > 0
        PROVE  drained'[a] = 1 /\ \E y \in Acts : at'[y] = "round" /\ node'[y] = a /\ y \notin queue'
    <3>1. a # node[x] /\ drained'[a] = drained[a]
      BY <2>2, <2>5
    <3>2. drained[a] = 1 /\ \E y \in Acts : at[y] = "round" /\ node[y] = a /\ y \notin queue
      BY <2>5, <3>1 DEF Alone, DrainedAccounts
    <3> QED
      BY <1>1, <3>1, <3>2
  <2> QED
    BY <2>3, <2>4, <2>5 DEF DrainedAccounts
<1> QED
  BY <1>6, <1>7, <1>8, <1>9 DEF Alone

\* A_done_req and A_dispatch: the request goes back onto A/queue or the round is drained.
LEMMA RequeueKeeps ==
  ASSUME TypeOK, Alone, NEW x \in Acts, at'[x] = "round", node[x] \in Agents,
         drained[node[x]] = 0, Requeues(x, Pending(x)'), node' = node,
         \A y \in Acts : y # x => (at'[y] = "round" <=> at[y] = "round"),
         \A y \in Acts : y # x => Pending(y)' = Pending(y)
  PROVE  DrainedAccounts'
<1>1. \A y \in queue' : y # x => y \in queue /\ y \in Acts
  BY DEF Requeues, TypeOK
<1>2. \A y \in queue' : at'[y] = "round"
  BY <1>1 DEF Alone, DrainedAccounts
<1>3. \A y \in Acts : at'[y] = "round" /\ y \notin queue' => Pending(y)' = {}
  BY DEF Alone, DrainedAccounts, Requeues
<1>4. ASSUME NEW a \in Agents, drained'[a] > 0
      PROVE  drained'[a] = 1 /\ \E y \in Acts : at'[y] = "round" /\ node'[y] = a /\ y \notin queue'
  <2>1. CASE a = node[x]
    <3>1. drained' = [drained EXCEPT ![a] = @ + 1] /\ queue' = queue \ {x}
      BY <1>4, <2>1 DEF Requeues, Adds
    <3> QED
      BY <2>1, <3>1 DEF TypeOK
  <2>2. CASE a # node[x]
    <3>1. drained'[a] = drained[a]
      BY <2>2 DEF Requeues, Adds, TypeOK
    <3>2. drained[a] = 1 /\ \E y \in Acts : at[y] = "round" /\ node[y] = a /\ y \notin queue
      BY <1>4, <3>1 DEF Alone, DrainedAccounts
    <3>3. PICK y \in Acts : at[y] = "round" /\ node[y] = a /\ y \notin queue
      BY <3>2
    <3>4. y # x /\ at'[y] = "round" /\ y \notin queue'
      BY <2>2, <3>3 DEF Requeues
    <3> QED
      BY <3>1, <3>2, <3>3, <3>4
  <2> QED
    BY <2>1, <2>2
<1> QED
  BY <1>2, <1>3, <1>4 DEF DrainedAccounts

LEMMA NoneDrained ==
  ASSUME TypeOK, Alone, NEW x \in Acts, at[x] = "request" \/ (at[x] = "round" /\ x \in queue)
  PROVE  node[x] \in Agents /\ drained[node[x]] = 0
<1>1. node[x] \in Agents
  BY DEF Alone, Placed
<1>2. \A y \in Acts : at[y] = "round" /\ node[y] = node[x] => y = x
  BY <1>1 DEF Alone, OneUnfinished, Unfinished, OutStages
<1>3. ~(drained[node[x]] > 0)
  BY <1>1, <1>2 DEF Alone, DrainedAccounts
<1> QED
  BY <1>1, <1>3 DEF TypeOK

LEMMA DoneReqKeeps ==
  ASSUME TypeOK, Belongs, Alone, NEW x \in Acts, DoneReq(x)
  PROVE  Alone'
<1>1. /\ at[x] = "request" /\ Moves(x, "round") /\ Requeues(x, Pending(x))
      /\ UNCHANGED <<node, asker, actions>>
  BY DEF DoneReq
<1>2. at'[x] = "round" /\ \A y \in Acts : y # x => at'[y] = at[y]
  BY <1>1 DEF Moves, TypeOK
<1>3. \A c \in Calls : c \in Acts /\ (at[c] # "none" => asker[c] \in Acts)
  BY Actors
<1>4. \A y \in Acts : at'[y] \in Unfinished <=> at[y] \in Unfinished
  BY <1>1, <1>2 DEF Unfinished, OutStages
<1>5. Placed'
  <2>1. \A m \in Mains : m \in Acts /\ node'[m] = Home[m] /\ at'[m] \notin {"none", "queued", "dropped"}
    BY <1>1, <1>2 DEF Alone, Placed, Acts
  <2>2. \A c \in Calls : at'[c] # "none" => node'[c] \in ToolsOf(node'[asker'[c]])
    BY <1>1, <1>2, <1>3 DEF Alone, Placed
  <2>3. \A y \in Acts : at'[y] \in {"request", "round"} \/ actions'[y] # {} => node'[y] \in Agents
    BY <1>1, <1>2 DEF Alone, Placed
  <2>4. \A y \in Acts : at'[y] \in {"none", "queued", "input", "dropped"} => actions'[y] = {}
    BY <1>1, <1>2 DEF Alone, Placed
  <2> QED
    BY <2>1, <2>2, <2>3, <2>4 DEF Placed, ToolsOf
<1>6. Waits'
  <2>1. \A y \in Acts : \A c \in actions'[y] : asker'[c] = y /\ at'[c] # "none"
    BY <1>1, <1>2, Actors DEF Alone, Waits
  <2>2. \A c \in Calls : at'[c] \in Unfinished =>
          at'[asker'[c]] \in {"request", "round"} /\ c \in actions'[asker'[c]]
    BY <1>1, <1>2, <1>3, <1>4 DEF Alone, Waits, Unfinished, OutStages
  <2>3. \A c \in Calls : at'[c] = "dropped" =>
          at'[asker'[c]] \in {"overrun", "failing", "answered", "halted"}
    BY <1>1, <1>2, <1>3 DEF Alone, Waits
  <2> QED
    BY <2>1, <2>2, <2>3 DEF Waits, Unfinished, OutStages
<1>7. OneUnfinished'
  <2>1. \A y, z \in Acts :
          at'[y] \in Unfinished /\ at'[z] \in Unfinished /\ node'[y] = node'[z] /\ node'[y] \in Agents => y = z
    BY <1>1, <1>4 DEF Alone, OneUnfinished
  <2> QED
    BY <2>1 DEF OneUnfinished, Unfinished, OutStages
<1>8. DrainedAccounts'
  <2>1. \A y \in Acts : Pending(y)' = Pending(y)
    BY <1>1, <1>2, <1>3 DEF Pending, Asked
  <2>2. node[x] \in Agents /\ drained[node[x]] = 0
    BY <1>1, NoneDrained
  <2> QED
    BY <1>1, <1>2, <2>1, <2>2, RequeueKeeps
<1> QED
  BY <1>5, <1>6, <1>7, <1>8 DEF Alone

LEMMA DispatchKeeps ==
  ASSUME TypeOK, Belongs, Alone, NEW x \in Acts, NEW c \in Calls, Dispatch(x, c)
  PROVE  Alone'
<1>1. /\ x \in queue /\ at[x] = "round" /\ c \in Pending(x) /\ at[c] = "queued" /\ asker[c] = x
      /\ Moves(c, "input") /\ Requeues(x, Pending(x) \ {c}) /\ UNCHANGED <<node, asker, actions>>
  BY DEF Dispatch, Pending, Asked, Alone, DrainedAccounts
<1>2. c \in Acts /\ at'[c] = "input" /\ \A y \in Acts : y # c => at'[y] = at[y]
  BY <1>1 DEF Moves, TypeOK, Acts
<1>3. \A d \in Calls : d \in Acts /\ (at[d] # "none" => asker[d] \in Acts)
  BY Actors
<1>4. \A y \in Acts : at'[y] \in Unfinished <=> at[y] \in Unfinished
  BY <1>1, <1>2 DEF Unfinished, OutStages
<1>5. Placed'
  <2>1. \A m \in Mains : m \in Acts /\ node'[m] = Home[m] /\ at'[m] \notin {"none", "queued", "dropped"}
    BY <1>1, <1>2 DEF Alone, Placed, Acts
  <2>2. \A d \in Calls : at'[d] # "none" => node'[d] \in ToolsOf(node'[asker'[d]])
    BY <1>1, <1>2, <1>3 DEF Alone, Placed
  <2>3. \A y \in Acts : at'[y] \in {"request", "round"} \/ actions'[y] # {} => node'[y] \in Agents
    BY <1>1, <1>2 DEF Alone, Placed
  <2>4. \A y \in Acts : at'[y] \in {"none", "queued", "input", "dropped"} => actions'[y] = {}
    BY <1>1, <1>2 DEF Alone, Placed
  <2> QED
    BY <2>1, <2>2, <2>3, <2>4 DEF Placed, ToolsOf
<1>6. Waits'
  <2>1. \A y \in Acts : \A d \in actions'[y] : asker'[d] = y /\ at'[d] # "none"
    BY <1>1, <1>2, Actors DEF Alone, Waits
  <2>2. \A d \in Calls : at'[d] \in Unfinished =>
          at'[asker'[d]] \in {"request", "round"} /\ d \in actions'[asker'[d]]
    BY <1>1, <1>2, <1>3, <1>4 DEF Alone, Waits, Unfinished, OutStages
  <2>3. \A d \in Calls : at'[d] = "dropped" =>
          at'[asker'[d]] \in {"overrun", "failing", "answered", "halted"}
    BY <1>1, <1>2, <1>3 DEF Alone, Waits
  <2> QED
    BY <2>1, <2>2, <2>3 DEF Waits, Unfinished, OutStages
<1>7. OneUnfinished'
  <2>1. \A y, z \in Acts :
          at'[y] \in Unfinished /\ at'[z] \in Unfinished /\ node'[y] = node'[z] /\ node'[y] \in Agents => y = z
    BY <1>1, <1>4 DEF Alone, OneUnfinished
  <2> QED
    BY <2>1 DEF OneUnfinished, Unfinished, OutStages
<1>8. DrainedAccounts'
  <2>1. \A y \in Acts : y # x => Pending(y)' = Pending(y)
    BY <1>1, <1>2, <1>3 DEF Pending, Asked
  <2>2. Pending(x)' = Pending(x) \ {c}
    BY <1>1, <1>2, <1>3 DEF Pending, Asked
  <2>3. \A y \in Acts : at'[y] = "round" <=> at[y] = "round"
    BY <1>1, <1>2
  <2>4. node[x] \in Agents /\ drained[node[x]] = 0
    BY <1>1, NoneDrained
  <2> QED
    BY <1>1, <2>1, <2>2, <2>3, <2>4, RequeueKeeps
<1> QED
  BY <1>5, <1>6, <1>7, <1>8 DEF Alone

\* A round that fails gives up the calls it has not dispatched; nothing of it is out.
LEMMA CallsOutKeeps ==
  ASSUME TypeOK, Belongs, JoinAccounts, Alone, NEW x \in Acts, NEW y \in Acts, CallsOut(x, y)
  PROVE  Alone'
<1>1. /\ at[x] = "round" /\ y \in queue /\ node[y] = node[x] /\ outstanding[node[x]] = 0
      /\ at' = [z \in Acts |-> IF z = x THEN "overrun" ELSE IF z \in Pending(y) THEN "dropped" ELSE at[z]]
      /\ queue' = queue \ {y} /\ UNCHANGED <<node, asker, actions, drained>>
  BY DEF CallsOut, CallsSpent
<1>2. node[x] \in Agents /\ y = x
  BY <1>1 DEF Alone, Placed, DrainedAccounts, OneUnfinished, Unfinished, OutStages
<1>3. OutOf(node[x]) = {}
  <2>1. IsFiniteSet(OutOf(node[x])) /\ Cardinality(OutOf(node[x])) \in Nat
    BY <1>2, OutIsFinite
  <2>2. outstanding[node[x]] = response[node[x]] + Cardinality(OutOf(node[x])) /\ response[node[x]] \in Nat
    BY <1>2 DEF JoinAccounts, TypeOK
  <2>3. Cardinality(OutOf(node[x])) = 0
    BY <1>1, <2>1, <2>2
  <2> QED
    BY <2>1, <2>3, FS_EmptySet
<1>4. /\ \A c \in Calls : c \in Acts /\ (at[c] # "none" => asker[c] \in Acts)
      /\ x # None
  BY Actors, AgentAssumption DEF Acts
<1>5. /\ \A c \in Pending(x) : c \in Calls /\ asker[c] = x /\ at[c] = "queued" /\ at'[c] = "dropped"
      /\ at'[x] = "overrun"
      /\ \A z \in Acts : z # x /\ z \notin Pending(x) => at'[z] = at[z]
  BY <1>1, <1>2, <1>4 DEF Pending, Asked
<1>6. \A z \in Acts : at'[z] \in Unfinished => at[z] \in Unfinished /\ z \notin Pending(x)
  BY <1>1, <1>2, <1>5 DEF Unfinished, OutStages
<1>7. \A c \in Calls : asker[c] = x => at'[c] \notin Unfinished
  <2> SUFFICES ASSUME NEW c \in Calls, asker[c] = x, at'[c] \in Unfinished PROVE FALSE
    OBVIOUS
  <2>1. at[c] \in Unfinished /\ c \notin Pending(x)
    BY <1>4, <1>6
  <2>2. at[c] \in OutStages
    BY <2>1 DEF Pending, Asked, Unfinished
  <2> QED
    BY <1>3, <1>4, <2>2 DEF OutOf
<1>8. Placed'
  <2>1. \A m \in Mains : m \in Acts /\ node'[m] = Home[m] /\ at'[m] \notin {"none", "queued", "dropped"}
    BY <1>1, <1>2, <1>5 DEF Alone, Placed, Acts
  <2>2. \A c \in Calls : at'[c] # "none" => node'[c] \in ToolsOf(node'[asker'[c]])
    BY <1>1, <1>4, <1>5 DEF Alone, Placed
  <2>3. \A z \in Acts : at'[z] \in {"request", "round"} \/ actions'[z] # {} => node'[z] \in Agents
    BY <1>1, <1>5 DEF Alone, Placed
  <2>4. \A z \in Acts : at'[z] \in {"none", "queued", "input", "dropped"} => actions'[z] = {}
    BY <1>1, <1>4, <1>5 DEF Alone, Placed
  <2> QED
    BY <2>1, <2>2, <2>3, <2>4 DEF Placed, ToolsOf
<1>9. Waits'
  <2>1. \A z \in Acts : \A c \in actions'[z] : asker'[c] = z /\ at'[c] # "none"
    BY <1>1, <1>5, Actors DEF Alone, Waits
  <2>2. \A c \in Calls : at'[c] \in Unfinished =>
          at'[asker'[c]] \in {"request", "round"} /\ c \in actions'[asker'[c]]
    <3> SUFFICES ASSUME NEW c \in Calls, at'[c] \in Unfinished
                 PROVE  at'[asker[c]] \in {"request", "round"} /\ c \in actions[asker[c]]
      BY <1>1
    <3>1. at[asker[c]] \in {"request", "round"} /\ c \in actions[asker[c]] /\ asker[c] \in Acts
      BY <1>4, <1>6 DEF Alone, Waits, Unfinished, OutStages
    <3>2. asker[c] # x /\ asker[c] \notin Pending(x)
      BY <1>5, <1>7, <3>1
    <3> QED
      BY <1>5, <3>1, <3>2
  <2>3. \A c \in Calls : at'[c] = "dropped" =>
          at'[asker'[c]] \in {"overrun", "failing", "answered", "halted"}
    BY <1>1, <1>4, <1>5 DEF Alone, Waits
  <2> QED
    BY <2>1, <2>2, <2>3 DEF Waits, Unfinished, OutStages
<1>10. OneUnfinished'
  <2>1. \A u, z \in Acts :
          at'[u] \in Unfinished /\ at'[z] \in Unfinished /\ node'[u] = node'[z] /\ node'[u] \in Agents => u = z
    BY <1>1, <1>6 DEF Alone, OneUnfinished
  <2> QED
    BY <2>1 DEF OneUnfinished, Unfinished, OutStages
<1>11. DrainedAccounts'
  <2>1. \A z \in Acts : at'[z] = "round" <=> at[z] = "round" /\ z # x
    BY <1>1, <1>5
  <2>2. \A z \in Acts : z # x => Pending(z)' = Pending(z)
    BY <1>1, <1>4, <1>5 DEF Pending, Asked
  <2>3. drained[node[x]] = 0
    BY <1>1, <1>2, NoneDrained
  <2>4. \A z \in queue' : at'[z] = "round"
    BY <1>1, <1>2, <2>1 DEF Alone, DrainedAccounts, TypeOK
  <2>5. \A z \in Acts : at'[z] = "round" /\ z \notin queue' => Pending(z)' = {}
    BY <1>1, <1>2, <2>1, <2>2 DEF Alone, DrainedAccounts
  <2>6. \A a \in Agents : drained'[a] > 0 =>
          drained'[a] = 1 /\ \E z \in Acts : at'[z] = "round" /\ node'[z] = a /\ z \notin queue'
    BY <1>1, <1>2, <2>1, <2>3 DEF Alone, DrainedAccounts
  <2> QED
    BY <2>4, <2>5, <2>6 DEF DrainedAccounts
<1> QED
  BY <1>8, <1>9, <1>10, <1>11 DEF Alone

\* A request is the step that could let an agent be called twice.
LEMMA RequestIsAlone ==
  ASSUME TypeOK, Belongs, Alone, OneCaller, NEW x \in Acts, NEW S \in SUBSET Unasked,
         NEW f \in Requests(node[x], S), RunRequests(x, S, f)
  PROVE  Alone'
<1>1. /\ node[x] \in Agents /\ at[x] = "flying"
      /\ at' = [y \in Acts |-> IF y = x THEN "request" ELSE IF y \in S THEN "queued" ELSE at[y]]
      /\ node' = [y \in Acts |-> IF y \in S THEN f[y] ELSE node[y]]
      /\ asker' = [c \in Calls |-> IF c \in S THEN x ELSE asker[c]]
      /\ actions' = [actions EXCEPT ![x] = S]
      /\ UNCHANGED <<queue, drained>>
  BY DEF RunRequests
<1>2. /\ S \subseteq Calls /\ x \notin S /\ \A c \in S : at[c] = "none" /\ c \in Acts
      /\ Mains \cap S = {} /\ None \notin Acts
  BY <1>1, AgentAssumption DEF Unasked, Acts
<1>3. /\ \A c \in S : f[c] \in ToolsOf(node[x])
      /\ \A c, d \in S : f[c] = f[d] /\ f[c] \in AskedOnce => c = d
  BY DEF Requests
<1>4. /\ at'[x] = "request" /\ node'[x] = node[x] /\ actions'[x] = S
      /\ \A c \in S : at'[c] = "queued" /\ node'[c] = f[c] /\ asker'[c] = x
      /\ \A y \in Acts : y \notin S => node'[y] = node[y]
      /\ \A y \in Acts : y # x => actions'[y] = actions[y]
      /\ \A y \in Acts : y # x /\ y \notin S => at'[y] = at[y]
      /\ \A c \in Calls : c \notin S => asker'[c] = asker[c]
  BY <1>1, <1>2 DEF TypeOK
<1>5. \A c \in Calls : c \in Acts /\ (at[c] # "none" => asker[c] \in Acts /\ asker[c] \notin S)
  BY Actors, <1>2 DEF Belongs
<1>6. \A c \in S : actions[c] = {}
  BY <1>2 DEF Alone, Placed
<1>7. Placed'
  <2>1. \A m \in Mains : m \in Acts /\ node'[m] = Home[m] /\ at'[m] \notin {"none", "queued", "dropped"}
    BY <1>2, <1>4 DEF Alone, Placed, Acts
  <2>2. ASSUME NEW c \in Calls, at'[c] # "none" PROVE node'[c] \in ToolsOf(node'[asker'[c]])
    <3>1. CASE c \in S
      BY <3>1, <1>3, <1>4
    <3>2. CASE c \notin S
      <4>1. at[c] # "none" /\ node'[c] = node[c] /\ asker'[c] = asker[c]
        BY <1>1, <1>4, <1>5, <2>2, <3>2
      <4>2. node'[asker[c]] = node[asker[c]]
        BY <1>4, <1>5, <4>1
      <4> QED
        BY <4>1, <4>2 DEF Alone, Placed
    <3> QED
      BY <3>1, <3>2
  <2>3. \A y \in Acts : at'[y] \in {"request", "round"} \/ actions'[y] # {} => node'[y] \in Agents
    BY <1>1, <1>4, <1>6 DEF Alone, Placed
  <2>4. \A y \in Acts : at'[y] \in {"none", "queued", "input", "dropped"} => actions'[y] = {}
    BY <1>2, <1>4, <1>6 DEF Alone, Placed
  <2> QED
    BY <2>1, <2>2, <2>3, <2>4 DEF Placed, ToolsOf
<1>8. Waits'
  <2>1. ASSUME NEW y \in Acts, NEW c \in actions'[y] PROVE asker'[c] = y /\ at'[c] # "none"
    <3>1. CASE y = x
      BY <3>1, <2>1, <1>4
    <3>2. CASE y # x
      <4>1. c \in actions[y] /\ c \in Calls /\ asker[c] = y /\ at[c] # "none"
        BY <3>2, <2>1, <1>4, Actors DEF Alone, Waits
      <4>2. c \notin S /\ c \in Acts
        BY <4>1, <1>2, <1>5
      <4> QED
        BY <4>1, <4>2, <1>4
    <3> QED
      BY <3>1, <3>2
  <2>2. ASSUME NEW c \in Calls, at'[c] \in Unfinished
        PROVE  at'[asker'[c]] \in {"request", "round"} /\ c \in actions'[asker'[c]]
    <3>1. CASE c \in S
      BY <3>1, <1>4
    <3>2. CASE c \notin S
      <4>1. at[c] \in Unfinished /\ at[c] # "none" /\ asker'[c] = asker[c]
        BY <1>1, <1>4, <1>5, <2>2, <3>2 DEF Unfinished, OutStages
      <4>2. at[asker[c]] \in {"request", "round"} /\ c \in actions[asker[c]]
        BY <4>1 DEF Alone, Waits
      <4>3. asker[c] \in Acts /\ asker[c] \notin S /\ asker[c] # x
        BY <1>1, <1>5, <4>1, <4>2
      <4> QED
        BY <1>4, <4>1, <4>2, <4>3
    <3> QED
      BY <3>1, <3>2
  <2>3. ASSUME NEW c \in Calls, at'[c] = "dropped"
        PROVE  at'[asker'[c]] \in {"overrun", "failing", "answered", "halted"}
    <3>1. c \notin S /\ at[c] = "dropped" /\ asker'[c] = asker[c]
      BY <1>1, <1>4, <1>5, <2>3
    <3>2. asker[c] \in Acts /\ asker[c] \notin S /\ at[asker[c]] \in {"overrun", "failing", "answered", "halted"}
      BY <1>5, <3>1 DEF Alone, Waits
    <3> QED
      BY <1>1, <1>4, <3>1, <3>2
  <2> QED
    BY <2>1, <2>2, <2>3 DEF Waits, Unfinished, OutStages
<1>9. OneUnfinished'
  <2>1. \A y \in Acts : y \notin S => (at'[y] \in Unfinished <=> at[y] \in Unfinished)
    BY <1>1, <1>4 DEF Unfinished, OutStages
  <2>2. ASSUME NEW c \in S, NEW y \in Acts, y \notin S, at[y] \in Unfinished, f[c] = node[y], f[c] \in Agents
        PROVE  FALSE
    <3>1. f[c] \in Tools /\ node[x] = AgentsOf[f[c]][1]
      BY <1>3, <2>2, CallerIsOne DEF ToolsOf
    <3>2. y \notin Mains
      BY <3>1, <2>2, AgentAssumption DEF Alone, Placed
    <3>3. y \in Calls /\ at[y] # "none"
      BY <3>2, <2>2 DEF Acts, Unfinished, OutStages
    <3>4. /\ asker[y] \in Acts /\ at[asker[y]] \in {"request", "round"}
          /\ node[y] \in ToolsOf(node[asker[y]])
      BY <1>5, <2>2, <3>3 DEF Alone, Waits, Placed
    <3>5. node[asker[y]] = node[x]
      BY <2>2, <3>1, <3>4, CallerIsOne
    <3>6. asker[y] = x
      BY <1>1, <3>4, <3>5 DEF Alone, OneUnfinished, Unfinished, OutStages
    <3> QED
      BY <1>1, <3>4, <3>6
  <2>3. ASSUME NEW c \in S, NEW d \in S, f[c] = f[d], f[c] \in Agents PROVE c = d
    BY <1>3, <2>3, CallerIsOne
  <2>4. ASSUME NEW y \in Acts, NEW z \in Acts, at'[y] \in Unfinished, at'[z] \in Unfinished,
               node'[y] = node'[z], node'[y] \in Agents
        PROVE  y = z
    <3>1. CASE y \in S /\ z \in S
      BY <3>1, <2>3, <2>4, <1>4
    <3>2. CASE y \in S /\ z \notin S
      BY <3>2, <2>1, <2>2, <2>4, <1>4
    <3>3. CASE y \notin S /\ z \in S
      BY <3>3, <2>1, <2>2, <2>4, <1>4
    <3>4. CASE y \notin S /\ z \notin S
      BY <3>4, <2>1, <2>4, <1>4 DEF Alone, OneUnfinished
    <3> QED
      BY <3>1, <3>2, <3>3, <3>4
  <2> QED
    BY <2>4 DEF OneUnfinished, Unfinished, OutStages
<1>10. DrainedAccounts'
  <2>1. \A y \in Acts : at'[y] = "round" <=> at[y] = "round"
    BY <1>1, <1>2, <1>4
  <2>2. \A y \in Acts : at[y] = "round" => y # x /\ y \notin S /\ node'[y] = node[y]
    BY <1>1, <1>2, <1>4
  <2>3. ASSUME NEW y \in Acts, at[y] = "round" PROVE Pending(y)' = Pending(y)
    <3>1. y # x
      BY <2>2, <2>3
    <3>2. ASSUME NEW c \in Calls
          PROVE  (asker'[c] = y /\ at'[c] = "queued") <=> (asker[c] = y /\ at[c] = "queued")
      <4>1. CASE c \in S
        BY <1>2, <1>4, <3>1, <4>1
      <4>2. CASE c \notin S
        BY <1>1, <1>4, <1>5, <4>2
      <4> QED
        BY <4>1, <4>2
    <3> QED
      BY <3>2 DEF Pending, Asked
  <2>4. \A y \in queue' : at'[y] = "round"
    BY <1>1, <2>1 DEF Alone, DrainedAccounts, TypeOK
  <2>5. \A y \in Acts : at'[y] = "round" /\ y \notin queue' => Pending(y)' = {}
    BY <1>1, <2>1, <2>3 DEF Alone, DrainedAccounts
  <2>6. \A a \in Agents : drained'[a] > 0 =>
          drained'[a] = 1 /\ \E y \in Acts : at'[y] = "round" /\ node'[y] = a /\ y \notin queue'
    BY <1>1, <2>1, <2>2 DEF Alone, DrainedAccounts
  <2> QED
    BY <2>4, <2>5, <2>6 DEF DrainedAccounts
<1> QED
  BY <1>7, <1>8, <1>9, <1>10 DEF Alone

\* The invariant behind the three theorems below.
LEMMA AloneHolds ==
  ASSUME OneCaller
  PROVE  Spec => []Alone
<1>1. Init => Alone
  <2> SUFFICES ASSUME Init PROVE Alone
    OBVIOUS
  <2>1. /\ \A m \in Mains : m \in Acts /\ at[m] = "input" /\ node[m] = Home[m]
        /\ \A c \in Calls : c \in Acts /\ c \notin Mains /\ at[c] = "none"
        /\ \A x \in Acts : actions[x] = {} /\ at[x] \in {"input", "none"}
        /\ queue = {} /\ \A a \in Agents : drained[a] = 0
    BY AgentAssumption DEF Init, Acts
  <2>2. Placed
    BY <2>1 DEF Placed
  <2>3. Waits
    BY <2>1 DEF Waits, Unfinished, OutStages
  <2>4. OneUnfinished
    BY <2>1 DEF OneUnfinished, OneCaller, Acts, Unfinished, OutStages
  <2>5. DrainedAccounts
    BY <2>1 DEF DrainedAccounts
  <2> QED
    BY <2>2, <2>3, <2>4, <2>5 DEF Alone
<1>2. TypeOK /\ Belongs /\ JoinAccounts /\ Alone /\ [Next]_vars => Alone'
  <2> SUFFICES ASSUME TypeOK, Belongs, JoinAccounts, Alone, [Next]_vars PROVE Alone'
    OBVIOUS
  <2>1. ASSUME NEW x \in Acts,
               Start(x) \/ Run(x) \/ RunSucceeds(x) \/ RunHalts(x) \/ RunPauses(x)
        PROVE  Alone'
    <3>1. PICK s \in OutStages \cup {"answered"} :
            /\ Moves(x, s)
            /\ at[x] \in {"input", "running", "overrun", "flying", "failing"}
            /\ s \in {"running", "flying", "failing", "halted", "held", "answered"}
            /\ at[x] \in {"overrun", "failing"} => s \in {"failing", "halted", "answered"}
      BY <2>1 DEF Start, Run, RunSucceeds, RunHalts, RunPauses, Landing, OutStages
    <3>2. UNCHANGED <<node, asker, actions, queue, drained>>
      BY <2>1 DEF Start, Run, RunSucceeds, RunHalts, RunPauses, roundSide
    <3> QED
      BY <3>1, <3>2, RunKeeps
  <2>2. ASSUME NEW x \in Acts, NEW S \in SUBSET Unasked, NEW f \in Requests(node[x], S),
               RunRequests(x, S, f)
        PROVE  Alone'
    BY <2>2, RequestIsAlone
  <2>3. ASSUME NEW x \in Acts, DoneReq(x) PROVE Alone'
    BY <2>3, DoneReqKeeps
  <2>4. ASSUME NEW x \in Acts, NEW c \in Calls, Dispatch(x, c) PROVE Alone'
    BY <2>4, DispatchKeeps
  <2>5. ASSUME NEW x \in Acts, Resume(x) PROVE Alone'
    BY <2>5, LeaveKeeps DEF Resume
  <2>6. ASSUME NEW x \in Acts, RoundsOut(x) PROVE Alone'
    BY <2>6, LeaveKeeps DEF RoundsOut
  <2>7. ASSUME NEW x \in Acts, NEW y \in Acts, CallsOut(x, y) PROVE Alone'
    BY <2>7, CallsOutKeeps
  <2>8. ASSUME UNCHANGED <<at, node, asker, actions, queue, drained>> PROVE Alone'
    BY <2>8 DEF Alone, Placed, Waits, OneUnfinished, DrainedAccounts, Pending, Asked, ToolsOf,
                Unfinished, OutStages
  <2>9. ASSUME NEW x \in Acts, Done(x) PROVE Alone'
    BY <2>8, <2>9 DEF Done, roundSide
  <2>10. ASSUME NEW a \in Agents, Collect(a) PROVE Alone'
    BY <2>8, <2>10 DEF Collect
  <2>11. ASSUME Cancel \/ UNCHANGED vars PROVE Alone'
    BY <2>8, <2>11 DEF Cancel, vars, roundSide
  <2> QED
    BY <2>1, <2>2, <2>3, <2>4, <2>5, <2>6, <2>7, <2>9, <2>10, <2>11 DEF Next, Fire, Land
<1> QED
  BY <1>1, <1>2, TypeCorrect, JoinHolds, PTL DEF Spec

\* No second round of an agent opens while one is open, though X/idle, the only mutex of
\* the net, is free between a request and the re-entry.
THEOREM RoundsAreAlone ==
  ASSUME OneCaller
  PROVE  Spec => []OneRoundPerAgent
<1>1. Alone => OneRoundPerAgent
  <2> SUFFICES ASSUME Alone, NEW a \in Agents PROVE Cardinality(LiveRounds(a)) <= 1
    BY DEF OneRoundPerAgent
  <2>1. \A x, y \in LiveRounds(a) : x = y
    BY DEF Alone, OneUnfinished, LiveRounds, Unfinished, OutStages
  <2>2. CASE LiveRounds(a) = {}
    BY <2>2, FS_EmptySet
  <2>3. CASE LiveRounds(a) # {}
    <3>1. PICK x \in LiveRounds(a) : TRUE
      BY <2>3
    <3>2. LiveRounds(a) = {x}
      BY <2>1, <3>1
    <3>3. Cardinality({x}) = 1
      BY FS_Singleton
    <3> QED
      BY <3>2, <3>3
  <2> QED
    BY <2>2, <2>3
<1> QED
  BY <1>1, AloneHolds, PTL

\* An agent re-enters with every answer of its request and no other.
THEOREM RoundsAreWhole ==
  ASSUME OneCaller
  PROVE  Spec => ResumesWhole
<1>1. TypeOK /\ Belongs /\ JoinAccounts /\ Alone /\ [Next]_vars =>
        [\A x \in Acts : at[x] = "round" /\ at'[x] = "running" =>
           \A c \in actions[x] : at[c] = "answered"]_vars
  <2> SUFFICES ASSUME TypeOK, Belongs, JoinAccounts, Alone, Next,
                      NEW x \in Acts, at[x] = "round", at'[x] = "running"
               PROVE  \A c \in actions[x] : at[c] = "answered"
    OBVIOUS
  <2>1. Resume(x)
    <3>1. \A y \in Acts, s \in Stages : Moves(y, s) => x = y /\ s = "running"
      BY DEF Moves, TypeOK
    <3>2. ASSUME NEW y \in Acts,
                 Start(y) \/ Run(y) \/ RunSucceeds(y) \/ RunHalts(y) \/ RunPauses(y) \/ DoneReq(y)
                 \/ RoundsOut(y)
          PROVE  FALSE
      <4>1. PICK s \in Stages : Moves(y, s) /\ (s = "running" => at[y] = "input")
        BY <3>2 DEF Start, Run, RunSucceeds, RunHalts, RunPauses, DoneReq, RoundsOut, Stages, OutStages
      <4> QED
        BY <3>1, <4>1
    <3>3. ASSUME NEW y \in Acts, NEW c \in Calls, Dispatch(y, c) PROVE FALSE
      BY <3>1, <3>3 DEF Dispatch, Acts, Stages, OutStages
    <3>4. ASSUME NEW y \in Acts, Done(y) PROVE FALSE
      BY <3>4 DEF Done
    <3>5. ASSUME NEW y \in Acts, NEW S, NEW f, RunRequests(y, S, f) PROVE FALSE
      BY <3>5 DEF RunRequests
    <3>6. ASSUME NEW y \in Acts, NEW z \in Acts, CallsOut(y, z) PROVE FALSE
      BY <3>6 DEF CallsOut
    <3>7. ASSUME NEW a \in Agents, Collect(a) PROVE FALSE
      BY <3>7 DEF Collect
    <3>8. ASSUME Cancel PROVE FALSE
      BY <3>8 DEF Cancel
    <3>9. ASSUME NEW y \in Acts, Resume(y) PROVE Resume(x)
      BY <3>1, <3>9 DEF Resume, Stages, OutStages
    <3> QED
      BY <3>2, <3>3, <3>4, <3>5, <3>6, <3>7, <3>8, <3>9 DEF Next, Fire, Land
  <2> QED
    BY <2>1, CompleteIsWhole DEF Resume
<1> QED
  BY <1>1, TypeCorrect, JoinHolds, AloneHolds, PTL DEF Spec, ResumesWhole

-----------------------------------------------------------------------------
(***************************************************************************)
(* What is written of an open round is read back as that round.            *)
(***************************************************************************)

\* The numbers are well-founded: a nonempty set of them has a least one.
LEMMA LeastIndex ==
  ASSUME NEW T \in SUBSET Nat, T # {}
  PROVE  \E i \in T : \A j \in T : i <= j
<1>1. IsWellFoundedOn(OpToRel(<, Nat), Nat)
  BY NatLessThanWellFounded
<1>2. PICK i \in T : \A j \in T : ~(<<j, i>> \in OpToRel(<, Nat))
  BY <1>1, WFMin, Zenon
<1>3. \A j \in T : ~(j < i)
  BY <1>2 DEF OpToRel
<1> QED
  BY <1>3

LEMMA StackShape ==
  ASSUME NEW x \in Stack
  PROVE  x \in Acts /\ at[x] \in Unfinished
<1>1. CASE x \in Pushed
  BY <1>1 DEF Pushed, Unfinished, OutStages
<1>2. CASE x \notin Pushed
  <2>1. PICK n \in Nodes : x \in ActivationsOf(n) \cup RoundEntriesOf(n) \cup InputSide(n)
    BY <1>2, Zenon DEF Stack
  <2>2. CASE x \in ActivationsOf(n) \cup InputSide(n)
    BY <2>2 DEF ActivationsOf, InputSide, Lies, Unfinished, OutStages
  <2>3. CASE x \in RoundEntriesOf(n)
    BY <2>3 DEF RoundEntriesOf, Lies, Acts, Unfinished, OutStages
  <2> QED
    BY <2>1, <2>2, <2>3
<1> QED
  BY <1>1, <1>2

LEMMA StackHas ==
  ASSUME NEW n \in Nodes, NEW x \in ActivationsOf(n) \cup RoundEntriesOf(n) \cup InputSide(n)
  PROVE  x \in Stack
BY Zenon DEF Stack

\* Everything unfinished is written, and nothing else.
LEMMA StackIsUnfinished ==
  ASSUME TypeOK, Belongs, Alone, AtRest, ~CutOff
  PROVE  \A x \in Acts : x \in Stack <=> at[x] \in Unfinished
<1>1. \A x \in Acts : at[x] \notin {"flying", "failing", "request", "overrun"}
  BY DEF AtRest, Quiescent, CutOff
<1>2. \A c \in Calls : c \in Acts /\ (at[c] # "none" => asker[c] \in Acts)
  BY Actors
<1>3. ASSUME NEW x \in Acts, at[x] \in Unfinished PROVE node[x] \in Nodes
  <2>1. CASE x \in Mains
    BY <2>1, AgentAssumption DEF Alone, Placed
  <2>2. CASE x \in Calls
    BY <1>3, <2>2, AgentAssumption DEF Alone, Placed, ToolsOf, Unfinished, OutStages
  <2> QED
    BY <2>1, <2>2 DEF Acts
<1>4. ASSUME NEW x \in Acts, at[x] \in Unfinished PROVE x \in Stack
  <2>1. node[x] \in Nodes
    BY <1>3, <1>4
  <2>2. CASE at[x] = "queued"
    <3>1. x \in Calls
      BY <2>2 DEF Alone, Placed, Acts
    <3>2. at[asker[x]] = "round" /\ asker[x] \in Acts
      BY <1>1, <1>2, <2>2, <3>1 DEF Alone, Waits, Unfinished
    <3>3. x \in Pending(asker[x])
      BY <2>2, <3>1 DEF Pending, Asked
    <3>4. asker[x] \in queue /\ node[asker[x]] \in Nodes
      BY <1>3, <3>2, <3>3 DEF Alone, DrainedAccounts, Unfinished, OutStages
    <3>5. x \in RoundEntriesOf(node[asker[x]])
      BY <2>2, <3>1, <3>4 DEF RoundEntriesOf
    <3> QED
      BY <3>4, <3>5, StackHas
  <2>3. CASE at[x] # "queued"
    <3>1. at[x] \in {"halted", "held", "running", "round", "input"}
      BY <1>1, <1>4, <2>3 DEF Unfinished, OutStages
    <3>2. at[x] = "halted" \/ x \in ActivationsOf(node[x]) \cup RoundEntriesOf(node[x]) \cup InputSide(node[x])
      BY <3>1 DEF ActivationsOf, RoundEntriesOf, InputSide, Lies, Acts
    <3>3. at[x] = "halted" => x \in Stack
      BY DEF Stack, Pushed
    <3> QED
      BY <2>1, <3>2, <3>3, StackHas
  <2> QED
    BY <2>2, <2>3
<1> QED
  BY <1>4, StackShape

\* The decoder hands a call to the agent whose round waits for it.
LEMMA OwnerIsAsker ==
  ASSUME TypeOK, Belongs, Alone, OneCaller, AtRest, ~CutOff, ~Contested,
         NEW again \in SUBSET Unread, NEW y \in Acts, at[y] = "round", NEW c \in Unanswered(y)
  PROVE  OwnerOf(node[c], again) = {node[y]}
<1> DEFINE t == node[c]
           asking == {i \in DOMAIN AgentsOf[t] : Names(AgentsOf[t][i], t, again)}
<1>1. c \in Calls /\ asker[c] = y /\ at[c] \in Unfinished /\ c \in actions[y] /\ node[y] \in Agents
  BY Actors DEF Unanswered, Alone, Waits, Placed
<1>2. t \in Tools /\ \E i \in DOMAIN AgentsOf[t] : AgentsOf[t][i] = node[y]
  BY <1>1 DEF Alone, Placed, ToolsOf, Unfinished, OutStages
<1>3. AgentsOf[t] \in Seq(Agents) /\ DOMAIN AgentsOf[t] \subseteq Nat
  BY <1>2, AgentAssumption
<1>4. CASE Len(AgentsOf[t]) = 1
  <2>1. DOMAIN AgentsOf[t] = {1}
    BY <1>3, <1>4
  <2> QED
    BY <1>2, <1>4, <2>1 DEF OwnerOf
<1>5. CASE Len(AgentsOf[t]) # 1
  <2>1. y \in Stack /\ y \in ResumeOf(node[y], again)
    BY <1>1, StackIsUnfinished DEF ResumeOf, Resumes, IsRoundResume, Unfinished, OutStages
  <2>2. ASSUME NEW z \in Acts, z \in Stack, NEW d \in actions[z], node[d] = t PROVE z = y
    <3>1. at[z] \in {"round", "held", "running", "halted"}
      BY <2>2, StackIsUnfinished DEF Unfinished, OutStages, Alone, Placed, AtRest, Quiescent, CutOff
    <3> QED
      BY <1>1, <2>2, <3>1 DEF Contested
  <2>3. \A i \in DOMAIN AgentsOf[t] : i \in asking <=> AgentsOf[t][i] = node[y]
    <3> SUFFICES ASSUME NEW i \in DOMAIN AgentsOf[t]
                 PROVE  Names(AgentsOf[t][i], t, again) <=> AgentsOf[t][i] = node[y]
      OBVIOUS
    <3>1. Stack \subseteq Acts
      BY StackShape
    <3>2. ASSUME Names(AgentsOf[t][i], t, again) PROVE AgentsOf[t][i] = node[y]
      BY <2>2, <3>1, <3>2 DEF Names, ResumeOf, Resumes
    <3>3. ASSUME AgentsOf[t][i] = node[y] PROVE Names(AgentsOf[t][i], t, again)
      BY <1>1, <2>1, <3>3 DEF Names
    <3> QED
      BY <3>2, <3>3
  <2>4. asking # {} /\ asking \subseteq Nat
    BY <1>2, <1>3, <2>3
  <2>5. PICK first \in asking : \A j \in asking : first <= j
    BY <2>4, LeastIndex
  <2>6. OwnerOf(t, again) = {AgentsOf[t][i] : i \in {j \in asking : \A k \in asking : j <= k}}
    BY <1>5 DEF OwnerOf
  <2>7. \A k \in asking : AgentsOf[t][k] = node[y]
    BY <2>3
  <2> QED
    BY <2>5, <2>6, <2>7
<1> QED
  BY <1>4, <1>5

\* The calls dispatched again into a round are those of the round that had not ended.
LEMMA PendingIsUnanswered ==
  ASSUME TypeOK, Belongs, Alone, OneCaller, AtRest, ~CutOff, ~Contested,
         NEW again \in SUBSET Unread, NEW x \in Acts, at[x] \in Unfinished, node[x] \in Agents
  PROVE  {c \in ToolCalls(again) : OwnerOf(node[c], again) = {node[x]}} =
           IF at[x] = "round" THEN Unanswered(x) \ Resumes(again) ELSE {}
<1>1. ASSUME NEW c \in ToolCalls(again), OwnerOf(node[c], again) = {node[x]}
      PROVE  at[x] = "round" /\ c \in Unanswered(x) \ Resumes(again)
  <2>1. c \in Stack /\ c \notin Resumes(again) /\ node[c] \in Tools
    BY DEF ToolCalls
  <2>2. c \in Acts
    BY <2>1, StackShape
  <2>3. at[c] \in Unfinished
    BY <2>1, <2>2, StackIsUnfinished
  <2>4. c \in Calls
    BY <2>1, <2>2, AgentAssumption DEF Alone, Placed, Acts
  <2>5. asker[c] \in Acts /\ at[asker[c]] = "round" /\ c \in actions[asker[c]]
    BY <2>3, <2>4, Actors DEF Alone, Waits, CutOff, Unfinished, OutStages
  <2>6. c \in Unanswered(asker[c])
    BY <2>3, <2>5 DEF Unanswered
  <2>7. node[asker[c]] = node[x]
    BY <1>1, <2>5, <2>6, OwnerIsAsker
  <2>8. asker[c] = x
    BY <2>5, <2>7 DEF Alone, OneUnfinished, Unfinished, OutStages
  <2> QED
    BY <2>1, <2>5, <2>6, <2>8
<1>2. ASSUME at[x] = "round", NEW c \in Unanswered(x) \ Resumes(again)
      PROVE  c \in ToolCalls(again) /\ OwnerOf(node[c], again) = {node[x]}
  <2>1. c \in Calls /\ c \in Acts /\ at[c] \in Unfinished
    BY Actors DEF Unanswered
  <2>2. c \in Stack /\ node[c] \in Tools
    BY <2>1, StackIsUnfinished DEF Alone, Placed, ToolsOf, Unfinished, OutStages
  <2>3. OwnerOf(node[c], again) = {node[x]}
    BY <1>2, OwnerIsAsker
  <2> QED
    BY <2>2, <2>3 DEF ToolCalls
<1> QED
  BY <1>1, <1>2

\* An execution that stops inside a round resumes in that round, with the calls that had
\* not ended, for any nesting of agents and any tools shared between them.
THEOREM RoundsComeBack ==
  ASSUME OneCaller
  PROVE  Spec => []RoundsAreKept
<1>1. TypeOK /\ Belongs /\ Alone => RoundsAreKept
  <2> SUFFICES ASSUME TypeOK, Belongs, Alone, AtRest, ~Contested, ~CutOff,
                      NEW again \in SUBSET Unread
               PROVE  /\ \A x \in Acts : at[x] = "round" =>
                           [resume |-> x, pending |-> Unanswered(x) \ Resumes(again),
                            answers |-> IF x \in Calls THEN {node[asker[x]]} ELSE {}] \in Rounds(again)
                      /\ \A x \in Acts : at[x] \in {"input", "running", "held", "halted"} =>
                           IF x \in Resumes(again) THEN node[x] \in Drained(again)
                           ELSE x \in Mains => x \in Entered(again)
                      /\ \A r \in Rounds(again) : \A x \in {r.resume} \cup r.pending : at[x] \in Unfinished
    BY DEF RoundsAreKept
  <2> DEFINE Round(x) == [resume |-> x,
                          pending |-> {c \in ToolCalls(again) : OwnerOf(node[c], again) = {node[x]}},
                          answers |-> IF node[x] \in Tools THEN OwnerOf(node[x], again) ELSE {}]
  <2>1. Stack \subseteq Acts
    BY StackShape
  <2>2. \A t \in Agents \cap Tools : OwnerOf(t, again) = {AgentsOf[t][1]}
    BY DEF OneCaller, OwnerOf
  <2>3. ASSUME NEW x \in Resumes(again) PROVE Round(x) \in Rounds(again)
    <3>1. node[x] \in Agents
      BY DEF Resumes, IsRoundResume
    <3>2. Claimed(x, again)
      BY <2>2, <3>1 DEF Claimed
    <3> QED
      BY <3>2 DEF Rounds
  <2>4. ASSUME NEW x \in Acts, at[x] = "round"
        PROVE  [resume |-> x, pending |-> Unanswered(x) \ Resumes(again),
                answers |-> IF x \in Calls THEN {node[asker[x]]} ELSE {}] \in Rounds(again)
    <3>1. at[x] \in Unfinished /\ node[x] \in Agents
      BY <2>4 DEF Alone, Placed, Unfinished, OutStages
    <3>2. x \in Resumes(again)
      BY <2>4, <3>1, StackIsUnfinished DEF Resumes, IsRoundResume
    <3>3. Round(x).pending = Unanswered(x) \ Resumes(again)
      BY <2>4, <3>1, PendingIsUnanswered
    <3>4. (IF node[x] \in Tools THEN OwnerOf(node[x], again) ELSE {}) =
            (IF x \in Calls THEN {node[asker[x]]} ELSE {})
      <4>1. CASE x \in Calls
        <5>1. node[x] \in Tools /\ node[x] \in ToolsOf(node[asker[x]])
          BY <2>4, <4>1 DEF Alone, Placed, ToolsOf
        <5>2. node[asker[x]] = AgentsOf[node[x]][1]
          BY <3>1, <5>1, CallerIsOne
        <5> QED
          BY <2>2, <3>1, <4>1, <5>1, <5>2
      <4>2. CASE x \notin Calls
        BY <4>2, AgentAssumption DEF Alone, Placed, Acts
      <4> QED
        BY <4>1, <4>2
    <3>5. Round(x) = [resume |-> x, pending |-> Unanswered(x) \ Resumes(again),
                      answers |-> IF x \in Calls THEN {node[asker[x]]} ELSE {}]
      BY <3>3, <3>4
    <3> QED
      BY <2>3, <3>2, <3>5
  <2>5. ASSUME NEW x \in Acts, at[x] \in {"input", "running", "held", "halted"}
        PROVE  IF x \in Resumes(again) THEN node[x] \in Drained(again)
               ELSE x \in Mains => x \in Entered(again)
    <3>1. at[x] \in Unfinished /\ x \in Stack
      BY <2>5, StackIsUnfinished DEF Unfinished, OutStages
    <3>2. CASE x \in Resumes(again)
      <4>1. node[x] \in Agents
        BY <3>2 DEF Resumes, IsRoundResume
      <4>2. Round(x).pending = {}
        BY <2>5, <3>1, <4>1, PendingIsUnanswered
      <4>3. Round(x) \in {s \in Rounds(again) : s.pending = {}} /\ Round(x).resume = x
        BY <2>3, <3>2, <4>2
      <4> QED
        BY <3>2, <4>3 DEF Drained
    <3>3. CASE x \notin Resumes(again)
      <4>1. ASSUME x \in Mains PROVE node[x] \notin Tools
        BY <4>1, AgentAssumption DEF Alone, Placed
      <4> QED
        BY <3>1, <3>3, <4>1 DEF Entered, ToolCalls
    <3> QED
      BY <3>2, <3>3
  <2>6. ASSUME NEW r \in Rounds(again), NEW x \in {r.resume} \cup r.pending PROVE at[x] \in Unfinished
    <3>1. x \in Stack
      BY DEF Rounds, Resumes, ToolCalls
    <3> QED
      BY <2>1, <3>1, StackIsUnfinished
  <2> QED
    BY <2>4, <2>5, <2>6
<1> QED
  BY <1>1, TypeCorrect, JoinHolds, AloneHolds, PTL

=============================================================================
