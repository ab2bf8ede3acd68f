--------------------------- MODULE ExecutionProofs ---------------------------
(***************************************************************************)
(* WorkflowNet implements Execution: every step of the net is a step of    *)
(* its activations' lives or changes none.  What Execution demands of a    *)
(* beginning or a retry follows from two invariants of the net: a unit on  *)
(* _budget means fewer than k are held, a token on X/idle that no run of X *)
(* is running.                                                             *)
(***************************************************************************)
EXTENDS WorkflowNetProofs

lives == [a \in Activations |-> Life(stage[a])]

LEMMA LifeValues ==
  ASSUME NEW s \in Stages
  PROVE  /\ Life(s) = "pending" <=> s = "none"
         /\ Life(s) = "running" <=> s \in BusyStages
         /\ Life(s) = "held" <=> s \in UnitStages \ BusyStages
         /\ Life(s) = "done" <=> s = "done"
         /\ Life(s) = "aside" <=> s \in {"waiting", "stopped", "halted"}
BY DEF Life, Stages, UnitStages, BusyStages

LEMMA LivesMove ==
  ASSUME TypeOK, NEW x \in Nodes, NEW r \in Runs, NEW s \in Stages,
         stage' = [stage EXCEPT ![<<x, r>>] = s]
  PROVE  lives' = [lives EXCEPT ![<<x, r>>] = Life(s)]
<1>1. \A a \in Activations : stage'[a] = IF a = <<x, r>> THEN s ELSE stage[a]
  BY DEF TypeOK
<1>2. lives' = [a \in Activations |-> Life(stage'[a])]
  BY DEF lives
<1>3. lives' = [a \in Activations |-> IF a = <<x, r>> THEN Life(s) ELSE Life(stage[a])]
  BY <1>1, <1>2
<1> QED
  BY <1>3 DEF lives

\* A step that leaves an activation's life as it was leaves all of them.
LEMMA LivesStay ==
  ASSUME TypeOK, NEW x \in Nodes, NEW r \in Runs, NEW s \in Stages,
         stage' = [stage EXCEPT ![<<x, r>>] = s], Life(s) = Life(stage[<<x, r>>])
  PROVE  lives' = lives
<1>1. \A a \in Activations : Life(stage'[a]) = Life(stage[a])
  BY DEF TypeOK, Activations
<1> QED
  BY <1>1 DEF lives

LEMMA LivesAt ==
  ASSUME NEW x \in Nodes, NEW r \in Runs
  PROVE  lives[<<x, r>>] = Life(stage[<<x, r>>])
BY DEF lives, Activations

LEMMA SameCardinality == \A S : Exec!Cardinality(S) = Cardinality(S)
BY DEF Exec!Cardinality, Cardinality

LEMMA HoldingIsHolders ==
  ASSUME TypeOK
  PROVE  Exec!Holding = Holders
<1>1. \A a \in Activations : Life(stage[a]) \in {"running", "held"} <=> stage[a] \in UnitStages
  <2> SUFFICES ASSUME NEW a \in Activations
               PROVE  Life(stage[a]) \in {"running", "held"} <=> stage[a] \in UnitStages
    OBVIOUS
  <2>1. stage[a] \in Stages
    BY DEF TypeOK
  <2> QED
    BY <2>1, LifeValues DEF UnitStages, BusyStages
<1> QED
  BY <1>1 DEF Exec!Holding, Exec!Activations, Activations, Holders

\* A token on X/idle: no run of X is running.
LEMMA IdleMeansNoneRunning ==
  ASSUME TypeOK, OneRunPerNode, NEW x \in Nodes, idle[x] > 0
  PROVE  Exec!NoneRunning(x)
<1>1. IsFiniteSet(RunsIn(x, BusyStages))
  BY FiniteRuns, FS_Subset DEF RunsIn
<1>2. Cardinality(RunsIn(x, BusyStages)) = 0
  BY <1>1, FS_CardinalityType DEF OneRunPerNode, TypeOK
<1>3. RunsIn(x, BusyStages) = {}
  BY <1>1, <1>2, FS_EmptySet
<1>4. ASSUME NEW r \in Runs PROVE Life(stage[<<x, r>>]) # "running"
  <2>1. stage[<<x, r>>] \in Stages /\ stage[<<x, r>>] \notin BusyStages
    BY <1>3 DEF TypeOK, RunsIn, Activations
  <2> QED
    BY <2>1, LifeValues
<1> QED
  BY <1>4 DEF Exec!NoneRunning, Activations

-----------------------------------------------------------------------------

LEMMA InitImplements == Init => Exec!Init
<1> SUFFICES ASSUME Init PROVE Exec!Init
  OBVIOUS
<1>1. \A a \in Activations : Life(stage[a]) = "pending"
  <2>1. \A a \in Activations : stage[a] = "none"
    BY DEF Init
  <2>2. Life("none") = "pending"
    BY LifeValues DEF Stages
  <2> QED
    BY <2>1, <2>2
<1>2. tries \in [Nodes -> Nat]
  BY NetAssumption DEF Init
<1>3. (halt \/ pause \/ closed) = FALSE
  BY DEF Init
<1> QED
  BY <1>1, <1>2, <1>3 DEF Exec!Init, Exec!Activations, Activations

stops == halt \/ pause \/ closed
Still == UNCHANGED <<tries, stops>>

\* A step of the net that leaves the lives, the tries and the flags is a stutter.
LEMMA Stutters ==
  ASSUME lives' = lives, Still
  PROVE  UNCHANGED Exec!vars
BY DEF Exec!vars, lives, stops, Still, Activations, Exec!Activations

\* An activation's life moves as one of Execution's actions moves it.
LEMMA LivesBecome ==
  ASSUME TypeOK, NEW x \in Nodes, NEW r \in Runs, NEW s \in Stages,
         stage' = [stage EXCEPT ![<<x, r>>] = s]
  PROVE  Exec!Becomes(x, r, Life(s))
<1>1. lives' = [lives EXCEPT ![<<x, r>>] = Life(s)]
  BY LivesMove
<1> QED
  BY <1>1 DEF Exec!Becomes, lives, Activations, Exec!Activations

\* A landing or a routing that keeps the life, the tries and the flags.
LEMMA StageStutters ==
  ASSUME TypeOK, NEW x \in Nodes, NEW r \in Runs, NEW s \in Stages, Still,
         stage' = [stage EXCEPT ![<<x, r>>] = s], Life(s) = Life(stage[<<x, r>>])
  PROVE  UNCHANGED Exec!vars
BY LivesStay, Stutters

Implemented == Exec!Next \/ UNCHANGED Exec!vars

LEMMA StepImplements ==
  ASSUME TypeOK, BudgetConserved, OneRunPerNode, [Next]_vars
  PROVE  Implemented
<1> USE DEF control, runSide, inputSide, skipSide
<1>t. \A x \in Nodes, r \in Runs : stage[<<x, r>>] \in Stages
  BY DEF TypeOK, Activations
<1>n. ASSUME NEW x \in Nodes, NEW r \in Runs,
             \/ Exec!Begin(x, r) \/ Exec!Rest(x, r) \/ Exec!Retry(x, r)
             \/ Exec!Finish(x, r) \/ Exec!SetAside(x, r)
      PROVE  Implemented
  BY <1>n DEF Implemented, Exec!Next
<1>s. ASSUME UNCHANGED stage, Still PROVE Implemented
  <2>1. lives' = lives
    BY <1>s DEF lives
  <2> QED
    BY <1>s, <2>1, Stutters DEF Implemented
<1>v. /\ Stages = UnitStages \cup {"none", "done", "waiting", "stopped", "halted"}
      /\ \A s \in {"starting", "running", "executing", "retrying"} : s \in Stages /\ Life(s) = "running"
      /\ \A s \in {"routed", "refunding", "retry", "exhausting"} : s \in Stages /\ Life(s) = "held"
      /\ \A s \in {"waiting", "stopped", "halted"} : s \in Stages /\ Life(s) = "aside"
      /\ "done" \in Stages /\ Life("done") = "done"
  BY LifeValues DEF Stages, UnitStages, BusyStages
<1>1. ASSUME NEW x \in Nodes, NEW r \in Runs, Start(x, r) PROVE Implemented
  <2>1. Exec!Becomes(x, r, "running")
    <3>1. "starting" \in Stages /\ Life("starting") = "running"
      BY LifeValues DEF Stages, UnitStages, BusyStages
    <3>2. stage' = [stage EXCEPT ![<<x, r>>] = "starting"]
      BY <1>1 DEF Start
    <3>3. Exec!Becomes(x, r, Life("starting"))
      BY <3>1, <3>2, LivesBecome
    <3> QED
      BY <3>1, <3>3
  <2>2. Cardinality(Exec!Holding) < Units
    <3>1. budget > 0 /\ budget \in Nat
      BY <1>1 DEF Start, TypeOK
    <3>2. IsFiniteSet(Holders)
      BY FiniteActivations, FS_Subset DEF Holders
    <3>3. Cardinality(Holders) \in Nat
      BY <3>2, FS_CardinalityType
    <3> QED
      BY <3>1, <3>3, HoldingIsHolders, UnitsType DEF BudgetConserved
  <2>3. Exec!NoneRunning(x)
    BY <1>1, IdleMeansNoneRunning DEF Start
  <2>4. lives[<<x, r>>] = "pending"
    <3>1. stage[<<x, r>>] = "none"
      BY <1>1 DEF Start, Started
    <3> QED
      BY <3>1, <1>t, LivesAt, LifeValues
  <2>5. \A q \in Runs : q < r => lives[<<x, q>>] # "pending"
    <3> SUFFICES ASSUME NEW q \in Runs, q < r PROVE lives[<<x, q>>] # "pending"
      OBVIOUS
    <3>1. stage[<<x, q>>] # "none"
      BY <1>1 DEF Start, Started, Runs
    <3> QED
      BY <3>1, <1>t, LivesAt, LifeValues
  <2>6. ~stops /\ Still
    BY <1>1 DEF Start, Starting, Deciding, stops, Still
  <2>8. Exec!Begin(x, r)
    BY <2>1, <2>2, <2>3, <2>4, <2>5, <2>6, SameCardinality
       DEF Exec!Begin, stops, Still, lives
  <2> QED
    BY <2>8, <1>n
<1>2. ASSUME NEW x \in Nodes, NEW r \in Runs, StartLands(x, r) PROVE Implemented
  <2>1. stage[<<x, r>>] = "starting" /\ stage' = [stage EXCEPT ![<<x, r>>] = "running"] /\ Still
    BY <1>2 DEF StartLands, Settle, Still, stops
  <2>2. Life("running") = Life("starting") /\ "running" \in Stages
    BY <1>v
  <2> QED
    BY <2>1, <2>2, StageStutters DEF Implemented
<1>3. ASSUME NEW x \in Nodes, NEW r \in Runs, Run(x, r) PROVE Implemented
  <2>1. stage[<<x, r>>] = "running" /\ stage' = [stage EXCEPT ![<<x, r>>] = "executing"] /\ Still
    BY <1>3 DEF Run, Settle, Still, stops
  <2>2. Life("executing") = Life("running") /\ "executing" \in Stages
    BY <1>v
  <2> QED
    BY <2>1, <2>2, StageStutters DEF Implemented
<1>4. ASSUME NEW x \in Nodes, NEW r \in Runs, NEW live \in SUBSET Outputs(x), RunSucceeds(x, r, live)
      PROVE  Implemented
  <2>1. Still /\ stage' = [stage EXCEPT ![<<x, r>>] = "routed"]
    BY <1>4 DEF RunSucceeds, Settle, Still, stops
  <2>2. stage[<<x, r>>] \in {"executing", "exhausting"}
    BY <1>4 DEF RunSucceeds, Settling
  <2>3. CASE stage[<<x, r>>] = "executing"
    <3>1. Exec!Rest(x, r)
      BY <2>1, <2>3, <1>v, LivesAt, LivesBecome DEF Exec!Rest, Still, stops, lives
    <3> QED
      BY <3>1, <1>n
  <2>4. CASE stage[<<x, r>>] = "exhausting"
    BY <2>1, <2>4, <1>v, StageStutters DEF Implemented
  <2> QED
    BY <2>2, <2>3, <2>4
<1>5. ASSUME NEW x \in Nodes, NEW r \in Runs, RunRetries(x, r) PROVE Implemented
  <2>1. /\ Still /\ stage' = [stage EXCEPT ![<<x, r>>] = "retry"]
        /\ stage[<<x, r>>] = "executing"
    BY <1>5 DEF RunRetries, Settle, Still, stops
  <2>2. Exec!Rest(x, r)
    BY <2>1, <1>v, LivesAt, LivesBecome DEF Exec!Rest, Still, stops, lives
  <2> QED
    BY <2>2, <1>n
<1>6. ASSUME NEW x \in Nodes, NEW r \in Runs, NEW s \in {"halted", "waiting", "stopped"},
             Settling(x, r), stage' = [stage EXCEPT ![<<x, r>>] = s], stops' = TRUE, tries' = tries
      PROVE  Implemented
  <2>1. lives[<<x, r>>] \in {"running", "held"}
    BY <1>6, <1>v, LivesAt DEF Settling
  <2>2. Exec!Becomes(x, r, "aside")
    <3>1. s \in Stages /\ Life(s) = "aside"
      BY <1>v
    <3>2. Exec!Becomes(x, r, Life(s))
      BY <1>6, <3>1, LivesBecome
    <3> QED
      BY <3>1, <3>2
  <2>3. Exec!SetAside(x, r)
    BY <1>6, <2>1, <2>2 DEF Exec!SetAside, stops, lives
  <2> QED
    BY <2>3, <1>n
<1>7. ASSUME NEW x \in Nodes, NEW r \in Runs, RunHalts(x, r) PROVE Implemented
  <2>1. stops' = TRUE
    BY <1>7 DEF RunHalts, stops
  <2> QED
    BY <1>6, <1>7, <2>1 DEF RunHalts, Settle
<1>8. ASSUME NEW x \in Nodes, NEW r \in Runs, NEW s \in {"waiting", "stopped"}, RunPauses(x, r, s)
      PROVE  Implemented
  <2>1. stops' = TRUE
    BY <1>8 DEF RunPauses, stops
  <2> QED
    BY <1>6, <1>8, <2>1 DEF RunPauses, Settle
<1>9. ASSUME NEW x \in Nodes, NEW r \in Runs, Done(x, r) PROVE Implemented
  <2>1. stage[<<x, r>>] = "routed" /\ stage' = [stage EXCEPT ![<<x, r>>] = "refunding"] /\ Still
    BY <1>9 DEF Done, Settle, Still, stops
  <2>2. Life("refunding") = Life("routed") /\ "refunding" \in Stages
    BY <1>v
  <2> QED
    BY <2>1, <2>2, StageStutters DEF Implemented
<1>10. ASSUME NEW x \in Nodes, NEW r \in Runs, DoneLands(x, r) PROVE Implemented
  <2>1. /\ Still /\ stage' = [stage EXCEPT ![<<x, r>>] = "done"]
        /\ stage[<<x, r>>] = "refunding"
    BY <1>10 DEF DoneLands, Settle, Still, stops
  <2>2. Exec!Finish(x, r)
    BY <2>1, <1>v, LivesAt, LivesBecome DEF Exec!Finish, Still, stops, lives
  <2> QED
    BY <2>2, <1>n
<1>11. ASSUME NEW x \in Nodes, NEW r \in Runs, RetryWait(x, r) PROVE Implemented
  <2>1. /\ ~stops /\ UNCHANGED stops /\ stage[<<x, r>>] = "retry"
        /\ stage' = [stage EXCEPT ![<<x, r>>] = "retrying"]
    BY <1>11 DEF RetryWait, Settle, Starting, Deciding, stops
  <2>2. tries[x] > 0 /\ tries' = [tries EXCEPT ![x] = @ - 1]
    BY <1>11 DEF RetryWait, TryLeft, Minus, TypeOK
  <2>3. Exec!NoneRunning(x)
    BY <1>11, IdleMeansNoneRunning DEF RetryWait
  <2>4. lives[<<x, r>>] = "held" /\ Exec!Becomes(x, r, "running")
    BY <2>1, <1>v, LivesAt, LivesBecome
  <2>5. Exec!Retry(x, r)
    BY <2>1, <2>2, <2>3, <2>4 DEF Exec!Retry, stops, lives
  <2> QED
    BY <2>5, <1>n
<1>12. ASSUME NEW x \in Nodes, NEW r \in Runs, RetryLands(x, r) PROVE Implemented
  <2>1. stage[<<x, r>>] = "retrying" /\ stage' = [stage EXCEPT ![<<x, r>>] = "running"] /\ Still
    BY <1>12 DEF RetryLands, Settle, Still, stops
  <2>2. Life("running") = Life("retrying") /\ "running" \in Stages
    BY <1>v
  <2> QED
    BY <2>1, <2>2, StageStutters DEF Implemented
<1>13. ASSUME NEW x \in Nodes, NEW r \in Runs, Exhausted(x, r) PROVE Implemented
  <2>1. stage[<<x, r>>] = "retry" /\ stage' = [stage EXCEPT ![<<x, r>>] = "exhausting"] /\ Still
    BY <1>13 DEF Exhausted, Settle, Still, stops
  <2>2. Life("exhausting") = Life("retry") /\ "exhausting" \in Stages
    BY <1>v
  <2> QED
    BY <2>1, <2>2, StageStutters DEF Implemented
<1>14. ASSUME NEW e \in ArmedEdges, NEW v \in Variants, Arm(e, v) \/ ArmLands(e, v)
       PROVE  Implemented
  <2>1. UNCHANGED stage /\ Still
    BY <1>14 DEF Arm, ArmLands, Still, stops
  <2> QED
    BY <2>1, <1>s
<1>15. ASSUME NEW x \in Nodes, Skip(x) \/ SkipLands(x) \/ Clear(x) PROVE Implemented
  <2>1. UNCHANGED stage /\ Still
    BY <1>15 DEF Skip, SkipLands, Clear, Still, stops
  <2> QED
    BY <2>1, <1>s
<1>16. CASE Abort
  <2>1. lives' = lives
    BY <1>16 DEF Abort, lives
  <2>2. Exec!Abort
    BY <1>16, <2>1 DEF Abort, Exec!Abort, lives
  <2> QED
    BY <2>2 DEF Implemented, Exec!Next
<1>17. CASE UNCHANGED vars
  <2>1. UNCHANGED stage /\ Still
    BY <1>17 DEF vars, Still, stops
  <2> QED
    BY <2>1, <1>s
<1> QED
  BY <1>1, <1>2, <1>3, <1>4, <1>5, <1>7, <1>8, <1>9, <1>10, <1>11, <1>12, <1>13,
     <1>14, <1>15, <1>16, <1>17 DEF Next, Fire, Land

\* The net keeps what an execution promises, for every workflow, every k and
\* every run number: at most k activations held, one running per node, runs in
\* order and ended once, and no start or retry after a halt, a pause or an abort.
THEOREM NetImplementsExecution == Spec => ImplementsExecution
<1>1. Init => Exec!Init
  BY InitImplements
<1>2. TypeOK /\ BudgetConserved /\ OneRunPerNode /\ [Next]_vars => [Exec!Next]_(Exec!vars)
  BY StepImplements DEF Implemented
<1> QED
  BY <1>1, <1>2, TypeCorrect, BudgetIsConserved, NodeMutex, PTL
     DEF Spec, ImplementsExecution, Exec!Spec

=============================================================================
