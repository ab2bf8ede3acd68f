-------------------------- MODULE WorkflowNetProofs --------------------------
(***************************************************************************)
(* Theorems about the net of a v1 execution: type correctness, and what    *)
(* its steps conserve.                                                     *)
(***************************************************************************)
EXTENDS WorkflowNet, TLAPS, FiniteSetTheorems, WellFoundedInduction

Bit(b) == IF b THEN 1 ELSE 0

\* Two finite sets that differ at most in a.
LEMMA CardinalityDiffersAt ==
  ASSUME NEW S, NEW T, NEW a, IsFiniteSet(S),
         \A d : d # a => (d \in S <=> d \in T)
  PROVE  /\ IsFiniteSet(T)
         /\ Cardinality(S) \in Nat /\ Cardinality(T) \in Nat
         /\ Cardinality(T) + Bit(a \in S) = Cardinality(S) + Bit(a \in T)
<1>1. S \ {a} = T \ {a}
  OBVIOUS
<1>2. /\ IsFiniteSet(S \ {a})
      /\ Cardinality(S \ {a}) = IF a \in S THEN Cardinality(S) - 1 ELSE Cardinality(S)
  BY FS_RemoveElement
<1>3. /\ T \subseteq (T \ {a}) \cup {a}
      /\ IsFiniteSet((T \ {a}) \cup {a})
  BY <1>1, <1>2, FS_AddElement
<1>4. IsFiniteSet(T)
  BY <1>3, FS_Subset
<1>5. Cardinality(T \ {a}) = IF a \in T THEN Cardinality(T) - 1 ELSE Cardinality(T)
  BY <1>4, FS_RemoveElement
<1>6. Cardinality(S) \in Nat /\ Cardinality(T) \in Nat
  BY <1>4, FS_CardinalityType
<1> QED
  BY <1>1, <1>2, <1>4, <1>5, <1>6 DEF Bit

\* What moving tokens does to a marking.
LEMMA PlusType ==
  ASSUME NEW D, NEW f \in [D -> Nat], NEW S
  PROVE  Plus(f, S) \in [D -> Nat]
BY DEF Plus

LEMMA MinusType ==
  ASSUME NEW D, NEW f \in [D -> Nat], NEW S, \A k \in S : f[k] > 0
  PROVE  Minus(f, S) \in [D -> Nat]
<1>1. \A k \in D : f[k] > 0 => f[k] - 1 \in Nat
  OBVIOUS
<1> QED
  BY <1>1 DEF Minus

LEMMA TakeOneType ==
  ASSUME NEW D, NEW f \in [D -> Nat], NEW k, f[k] > 0
  PROVE  Minus(f, {k}) \in [D -> Nat]
<1>1. \A j \in {k} : f[j] > 0
  OBVIOUS
<1> QED
  BY <1>1, MinusType

LEMMA UnitsType == Units \in Nat
BY GraphAssumption, NetAssumption DEF Units, EffectiveBudget

LEMMA RoundType == \A x \in Nodes : Round[x] \in Nat
<1> SUFFICES ASSUME NEW x \in Nodes PROVE Round[x] \in Nat
  OBVIOUS
<1>1. Incoming(x) \cap TreeEdges \subseteq Edges
  BY DEF Incoming
<1>2. IsFiniteSet(Incoming(x) \cap TreeEdges)
  BY <1>1, GraphAssumption, FS_Subset
<1> QED
  BY <1>2, FS_CardinalityType DEF Round

LEMMA UnreachableType == \A x \in Nodes : UnreachableProducers(x) \in Nat
<1> SUFFICES ASSUME NEW x \in Nodes PROVE UnreachableProducers(x) \in Nat
  OBVIOUS
<1> DEFINE S == {e \in Incoming(x) \cap TreeEdges : Conn[e].from \notin Reachable}
<1>1. S \subseteq Edges
  BY DEF Incoming
<1>2. IsFiniteSet(S)
  BY <1>1, GraphAssumption, FS_Subset
<1> QED
  BY <1>2, FS_CardinalityType DEF UnreachableProducers

-----------------------------------------------------------------------------

LEMMA InitTypeOK == Init => TypeOK
<1> SUFFICES ASSUME Init PROVE TypeOK
  OBVIOUS
<1>1. budget \in Nat
  BY UnitsType DEF Init
<1>2. tries \in [Nodes -> Nat]
  BY NetAssumption DEF Init
<1>3. stage \in [Activations -> Stages]
  BY DEF Init, Stages
<1>4. arrived \in [Nodes -> Nat]
  BY UnreachableType DEF Init
<1> QED
  BY <1>1, <1>2, <1>3, <1>4 DEF Init, TypeOK

LEMMA StageType ==
  ASSUME TypeOK, NEW x \in Nodes, NEW r \in Runs, NEW s \in Stages
  PROVE  [stage EXCEPT ![<<x, r>>] = s] \in [Activations -> Stages]
BY DEF TypeOK

\* Taking one arrival of each slot takes only arrivals that are there.
LEMMA TakenType ==
  ASSUME TypeOK, NEW x, NEW v \in Arrivals(x)
  PROVE  Minus(ready, TakenFrom(v)) \in [Slots \X Variants -> Nat]
<1>1. \A k \in TakenFrom(v) : ready[k] > 0
  BY DEF Arrivals, TakenFrom
<1> QED
  BY <1>1, MinusType DEF TypeOK

LEMMA TypeStep == TypeOK /\ [Next]_vars => TypeOK'
<1> SUFFICES ASSUME TypeOK, [Next]_vars PROVE TypeOK'
  OBVIOUS
<1> USE DEF control, runSide, inputSide, skipSide
<1>1. ASSUME NEW x \in Nodes, NEW r \in Runs, Start(x, r) PROVE TypeOK'
  <2>1. budget' \in Nat /\ idle' \in [Nodes -> Nat] /\ stage' \in [Activations -> Stages]
    <3>1. idle' \in [Nodes -> Nat]
      BY <1>1, MinusType DEF Start, TypeOK
    <3>2. stage' \in [Activations -> Stages]
      BY <1>1, StageType DEF Start, Stages, UnitStages
    <3>3. budget' \in Nat
      <4>1. budget \in Nat /\ budget > 0 /\ budget' = budget - 1
        BY <1>1 DEF Start, TypeOK
      <4> QED
        BY <4>1
    <3> QED
      BY <3>1, <3>2, <3>3
  <2>t. TakeActivation(x) /\ x \in DOMAIN hasdata
    BY <1>1 DEF Start, TypeOK
  <2>2. data' \in [Edges \cup {0} -> Nat]
    <3>1. \A e \in InPlaces(x) : data[e] > 0 => Minus(data, {e}) \in [Edges \cup {0} -> Nat]
      BY TakeOneType DEF TypeOK
    <3>2. data \in [Edges \cup {0} -> Nat]
      BY DEF TypeOK
    <3> QED
      BY <2>t, <3>1, <3>2 DEF TakeActivation
  <2>3. hasdata' \in [Nodes -> Nat]
    <3>1. hasdata \in [Nodes -> Nat]
      BY DEF TypeOK
    <3>2. hasdata[x] > 0 => Minus(hasdata, {x}) \in [Nodes -> Nat]
      BY <3>1, TakeOneType
    <3>3. ClearHasdata(x) => hasdata' \in [Nodes -> Nat]
      BY <3>1 DEF ClearHasdata
    <3> QED
      BY <2>t, <3>1, <3>2, <3>3 DEF TakeActivation
  <2>4. \A v \in Arrivals(x) : Minus(ready, TakenFrom(v)) \in [Slots \X Variants -> Nat]
    BY TakenType
  <2>5. ready' \in [Slots \X Variants -> Nat]
    BY <1>1, <2>4 DEF Start, TakeActivation, TypeOK
  <2> QED
    BY <1>1, <2>1, <2>2, <2>3, <2>5 DEF Start, TypeOK
<1>2. ASSUME NEW x \in Nodes, NEW r \in Runs, StartLands(x, r) PROVE TypeOK'
  <2>1. stage' \in [Activations -> Stages]
    BY <1>2, StageType DEF StartLands, Stages, UnitStages
  <2>2. ran' \in [Nodes -> Nat] /\ free' \in [Slots -> Nat]
    BY <1>2, PlusType DEF StartLands, TypeOK
  <2> QED
    BY <1>2, <2>1, <2>2 DEF StartLands, TypeOK
<1>3. ASSUME NEW x \in Nodes, NEW r \in Runs, Run(x, r) PROVE TypeOK'
  <2>1. stage' \in [Activations -> Stages]
    BY <1>3, StageType DEF Run, Stages, UnitStages
  <2> QED
    BY <1>3, <2>1 DEF Run, TypeOK
<1>4. ASSUME NEW x \in Nodes, NEW r \in Runs, NEW live \in SUBSET Outputs(x), RunSucceeds(x, r, live)
      PROVE  TypeOK'
  <2>1. stage' \in [Activations -> Stages]
    BY <1>4, StageType DEF RunSucceeds, Settle, Stages, UnitStages
  <2>2. idle' \in [Nodes -> Nat]
    BY <1>4, PlusType DEF RunSucceeds, ReleaseIdle, TypeOK
  <2>3. data' \in [Edges \cup {0} -> Nat] /\ empty' \in [Edges -> Nat]
    BY <1>4, PlusType DEF RunSucceeds, TypeOK
  <2> QED
    BY <1>4, <2>1, <2>2, <2>3 DEF RunSucceeds, TypeOK
<1>5. ASSUME NEW x \in Nodes, NEW r \in Runs, RunRetries(x, r) PROVE TypeOK'
  <2>1. stage' \in [Activations -> Stages]
    BY <1>5, StageType DEF RunRetries, Settle, Stages, UnitStages
  <2>2. idle' \in [Nodes -> Nat]
    BY <1>5, PlusType DEF RunRetries, ReleaseIdle, TypeOK
  <2> QED
    BY <1>5, <2>1, <2>2 DEF RunRetries, TypeOK
<1>6. ASSUME NEW x \in Nodes, NEW r \in Runs, RunHalts(x, r) PROVE TypeOK'
  <2>1. stage' \in [Activations -> Stages]
    BY <1>6, StageType DEF RunHalts, Settle, Stages, UnitStages
  <2>2. idle' \in [Nodes -> Nat]
    BY <1>6, PlusType DEF RunHalts, ReleaseIdle, TypeOK
  <2> QED
    BY <1>6, <2>1, <2>2 DEF RunHalts, Refund, TypeOK
<1>7. ASSUME NEW x \in Nodes, NEW r \in Runs, NEW s \in {"waiting", "stopped"}, RunPauses(x, r, s)
      PROVE  TypeOK'
  <2>1. stage' \in [Activations -> Stages]
    BY <1>7, StageType DEF RunPauses, Settle, Stages, UnitStages
  <2>2. idle' \in [Nodes -> Nat]
    BY <1>7, PlusType DEF RunPauses, ReleaseIdle, TypeOK
  <2> QED
    BY <1>7, <2>1, <2>2 DEF RunPauses, Refund, TypeOK
<1>8. ASSUME NEW x \in Nodes, NEW r \in Runs, Done(x, r) PROVE TypeOK'
  <2>1. stage' \in [Activations -> Stages]
    BY <1>8, StageType DEF Done, Settle, Stages, UnitStages
  <2> QED
    BY <1>8, <2>1 DEF Done, TypeOK
<1>9. ASSUME NEW x \in Nodes, NEW r \in Runs, DoneLands(x, r) PROVE TypeOK'
  <2>1. stage' \in [Activations -> Stages]
    BY <1>9, StageType DEF DoneLands, Settle, Stages, UnitStages
  <2> QED
    BY <1>9, <2>1 DEF DoneLands, Refund, TypeOK
<1>10. ASSUME NEW x \in Nodes, NEW r \in Runs, RetryWait(x, r) PROVE TypeOK'
  <2>1. stage' \in [Activations -> Stages]
    BY <1>10, StageType DEF RetryWait, Settle, Stages, UnitStages
  <2>2. tries' \in [Nodes -> Nat] /\ idle' \in [Nodes -> Nat]
    BY <1>10, MinusType DEF RetryWait, TryLeft, TypeOK
  <2> QED
    BY <1>10, <2>1, <2>2 DEF RetryWait, TypeOK
<1>11. ASSUME NEW x \in Nodes, NEW r \in Runs, RetryLands(x, r) PROVE TypeOK'
  <2>1. stage' \in [Activations -> Stages]
    BY <1>11, StageType DEF RetryLands, Settle, Stages, UnitStages
  <2> QED
    BY <1>11, <2>1 DEF RetryLands, TypeOK
<1>12. ASSUME NEW x \in Nodes, NEW r \in Runs, Exhausted(x, r) PROVE TypeOK'
  <2>1. stage' \in [Activations -> Stages]
    BY <1>12, StageType DEF Exhausted, Settle, Stages, UnitStages
  <2> QED
    BY <1>12, <2>1 DEF Exhausted, TypeOK
<1>13. ASSUME NEW e \in ArmedEdges, NEW v \in Variants, Arm(e, v) PROVE TypeOK'
  <2>1. data' \in [Edges \cup {0} -> Nat] /\ empty' \in [Edges -> Nat]
    BY <1>13, MinusType DEF Arm, TypeOK
  <2>2. free' \in [Slots -> Nat]
    BY <1>13, MinusType DEF Arm, TakeSlot, TypeOK
  <2> QED
    BY <1>13, <2>1, <2>2 DEF Arm, TypeOK
<1>14. ASSUME NEW e \in ArmedEdges, NEW v \in Variants, ArmLands(e, v) PROVE TypeOK'
  <2>1. ready' \in [Slots \X Variants -> Nat]
    BY <1>14, PlusType DEF ArmLands, TypeOK
  <2>2. arrived' \in [Nodes -> Nat] /\ hasdata' \in [Nodes -> Nat]
    BY <1>14, PlusType DEF ArmLands, TypeOK
  <2> QED
    BY <1>14, <2>1, <2>2 DEF ArmLands, TypeOK
<1>15. ASSUME NEW x \in Nodes, Skip(x) PROVE TypeOK'
  <2>1. empty' \in [Edges -> Nat]
    <3>1. \A e \in Incoming(x) : empty[e] > 0 => Minus(empty, {e}) \in [Edges -> Nat]
      BY TakeOneType DEF TypeOK
    <3> QED
      BY <1>15, <3>1 DEF Skip, TakeEmpties, TypeOK
  <2>2. arrived' \in [Nodes -> Nat]
    <3>1. arrived[x] >= Round[x] => arrived[x] - Round[x] \in Nat
      BY RoundType DEF TypeOK
    <3> QED
      BY <1>15, <3>1 DEF Skip, TakeEmpties, RoundOver, TypeOK
  <2>3. \A v \in Arrivals(x) : Minus(ready, TakenFrom(v)) \in [Slots \X Variants -> Nat]
    BY TakenType
  <2>4. ready' \in [Slots \X Variants -> Nat]
    BY <1>15, <2>3 DEF Skip, TakeEmpties, TypeOK
  <2> QED
    BY <1>15, <2>1, <2>2, <2>4 DEF Skip, TypeOK
<1>16. ASSUME NEW x \in Nodes, SkipLands(x) PROVE TypeOK'
  <2>1. skipped' \in [Nodes -> Nat] /\ free' \in [Slots -> Nat] /\ empty' \in [Edges -> Nat]
    BY <1>16, PlusType DEF SkipLands, TypeOK
  <2> QED
    BY <1>16, <2>1 DEF SkipLands, TypeOK
<1>17. ASSUME NEW x \in Nodes, Clear(x) PROVE TypeOK'
  <2>1. arrived[x] >= Round[x] => arrived[x] - Round[x] \in Nat
    BY RoundType DEF TypeOK
  <2>2. arrived' \in [Nodes -> Nat] /\ ran' \in [Nodes -> Nat]
    BY <1>17, <2>1 DEF Clear, RoundOver, TypeOK
  <2> QED
    BY <1>17, <2>2 DEF Clear, TypeOK
<1>18. CASE Abort
  BY <1>18 DEF Abort, TypeOK
<1>19. CASE UNCHANGED vars
  BY <1>19 DEF vars, TypeOK
<1> QED
  BY <1>1, <1>2, <1>3, <1>4, <1>5, <1>6, <1>7, <1>8, <1>9, <1>10, <1>11, <1>12,
     <1>13, <1>14, <1>15, <1>16, <1>17, <1>18, <1>19 DEF Next, Fire, Land

\* Every reachable marking is well formed: no place ever holds a negative count.
THEOREM TypeCorrect == Spec => []TypeOK
<1>1. Init => TypeOK
  BY InitTypeOK
<1>2. TypeOK /\ [Next]_vars => TypeOK'
  BY TypeStep
<1> QED
  BY <1>1, <1>2, PTL DEF Spec

-----------------------------------------------------------------------------
(***************************************************************************)
(* What a step does to one activation: it moves from one stage to another, *)
(* its unit goes to or comes from _budget, its X/idle likewise.  Budget    *)
(* conservation and the node's mutex follow from this summary of Next.     *)
(***************************************************************************)
Moves(x, r, s) ==
  /\ stage' = [stage EXCEPT ![<<x, r>>] = s]
  /\ budget' + Bit(s \in UnitStages) = budget + Bit(stage[<<x, r>>] \in UnitStages)
  /\ idle'[x] + Bit(s \in BusyStages) = idle[x] + Bit(stage[<<x, r>>] \in BusyStages)
  /\ \A y \in Nodes : y # x => idle'[y] = idle[y]

LEMMA StageStep ==
  ASSUME TypeOK, [Next]_vars
  PROVE  \/ UNCHANGED <<budget, idle, stage>>
         \/ \E x \in Nodes, r \in Runs, s \in Stages : Moves(x, r, s)
<1> DEFINE Moved == \E x \in Nodes, r \in Runs, s \in Stages : Moves(x, r, s)
<1> USE DEF control, runSide, inputSide, skipSide, Settle, Stages, UnitStages, BusyStages, Bit
<1>t. /\ budget \in Nat /\ idle \in [Nodes -> Nat]
  BY DEF TypeOK
<1>1. ASSUME NEW x \in Nodes, NEW r \in Runs, Start(x, r) PROVE Moved
  <2>1. stage[<<x, r>>] = "none"
    BY <1>1 DEF Start, Started
  <2>2. Moves(x, r, "starting")
    BY <1>1, <1>t, <2>1 DEF Start, Moves, Minus
  <2> QED
    BY <2>2
<1>2. ASSUME NEW x \in Nodes, NEW r \in Runs, StartLands(x, r) PROVE Moved
  <2>1. Moves(x, r, "running")
    BY <1>2, <1>t DEF StartLands, Moves
  <2> QED
    BY <2>1
<1>3. ASSUME NEW x \in Nodes, NEW r \in Runs, Run(x, r) PROVE Moved
  <2>1. Moves(x, r, "executing")
    BY <1>3, <1>t DEF Run, Moves
  <2> QED
    BY <2>1
<1>4. ASSUME NEW x \in Nodes, NEW r \in Runs, NEW live \in SUBSET Outputs(x), RunSucceeds(x, r, live)
      PROVE  Moved
  <2>1. Moves(x, r, "routed")
    BY <1>4, <1>t DEF RunSucceeds, Settling, ReleaseIdle, Plus, Moves
  <2> QED
    BY <2>1
<1>5. ASSUME NEW x \in Nodes, NEW r \in Runs, RunRetries(x, r) PROVE Moved
  <2>1. Moves(x, r, "retry")
    BY <1>5, <1>t DEF RunRetries, ReleaseIdle, Plus, Moves
  <2> QED
    BY <2>1
<1>6. ASSUME NEW x \in Nodes, NEW r \in Runs, RunHalts(x, r) PROVE Moved
  <2>1. Moves(x, r, "halted")
    BY <1>6, <1>t DEF RunHalts, Settling, Refund, ReleaseIdle, Plus, Moves
  <2> QED
    BY <2>1
<1>7. ASSUME NEW x \in Nodes, NEW r \in Runs, NEW s \in {"waiting", "stopped"}, RunPauses(x, r, s)
      PROVE  Moved
  <2>1. Moves(x, r, s)
    BY <1>7, <1>t DEF RunPauses, Settling, Refund, ReleaseIdle, Plus, Moves
  <2> QED
    BY <2>1
<1>8. ASSUME NEW x \in Nodes, NEW r \in Runs, Done(x, r) PROVE Moved
  <2>1. Moves(x, r, "refunding")
    BY <1>8, <1>t DEF Done, Moves
  <2> QED
    BY <2>1
<1>9. ASSUME NEW x \in Nodes, NEW r \in Runs, DoneLands(x, r) PROVE Moved
  <2>1. Moves(x, r, "done")
    BY <1>9, <1>t DEF DoneLands, Refund, Moves
  <2> QED
    BY <2>1
<1>10. ASSUME NEW x \in Nodes, NEW r \in Runs, RetryWait(x, r) PROVE Moved
  <2>1. Moves(x, r, "retrying")
    BY <1>10, <1>t DEF RetryWait, Minus, Moves
  <2> QED
    BY <2>1
<1>11. ASSUME NEW x \in Nodes, NEW r \in Runs, RetryLands(x, r) PROVE Moved
  <2>1. Moves(x, r, "running")
    BY <1>11, <1>t DEF RetryLands, Moves
  <2> QED
    BY <2>1
<1>12. ASSUME NEW x \in Nodes, NEW r \in Runs, Exhausted(x, r) PROVE Moved
  <2>1. Moves(x, r, "exhausting")
    BY <1>12, <1>t DEF Exhausted, Moves
  <2> QED
    BY <2>1
<1>13. ASSUME NEW e \in ArmedEdges, NEW v \in Variants, Arm(e, v) \/ ArmLands(e, v)
       PROVE  UNCHANGED <<budget, idle, stage>>
  BY <1>13 DEF Arm, ArmLands
<1>14. ASSUME NEW x \in Nodes, Skip(x) \/ SkipLands(x) \/ Clear(x)
       PROVE  UNCHANGED <<budget, idle, stage>>
  BY <1>14 DEF Skip, SkipLands, Clear
<1>15. Abort \/ UNCHANGED vars => UNCHANGED <<budget, idle, stage>>
  BY DEF Abort, vars
<1> QED
  BY <1>1, <1>2, <1>3, <1>4, <1>5, <1>6, <1>7, <1>8, <1>9, <1>10, <1>11, <1>12,
     <1>13, <1>14, <1>15 DEF Next, Fire, Land

LEMMA FiniteRuns == IsFiniteSet(Runs)
BY NetAssumption, FS_Interval DEF Runs

LEMMA FiniteActivations == IsFiniteSet(Activations)
BY GraphAssumption, FiniteRuns, FS_Product DEF Activations

\* How the holders of units, and the runs of one node in given stages, change.
LEMMA HoldersMove ==
  ASSUME TypeOK, NEW x \in Nodes, NEW r \in Runs, NEW s \in Stages,
         stage' = [stage EXCEPT ![<<x, r>>] = s]
  PROVE  /\ Cardinality(Holders) \in Nat /\ Cardinality(Holders') \in Nat
         /\ Cardinality(Holders') + Bit(stage[<<x, r>>] \in UnitStages)
              = Cardinality(Holders) + Bit(s \in UnitStages)
<1>1. IsFiniteSet(Holders)
  BY FiniteActivations, FS_Subset DEF Holders
<1>2. \A a : a # <<x, r>> => (a \in Holders <=> a \in Holders')
  BY DEF Holders, TypeOK
<1>3. <<x, r>> \in Activations
  BY DEF Activations
<1>4. /\ <<x, r>> \in Holders <=> stage[<<x, r>>] \in UnitStages
      /\ <<x, r>> \in Holders' <=> s \in UnitStages
  BY <1>3 DEF Holders, TypeOK
<1> HIDE DEF Holders
<1>5. /\ Cardinality(Holders) \in Nat /\ Cardinality(Holders') \in Nat
      /\ Cardinality(Holders') + Bit(<<x, r>> \in Holders)
           = Cardinality(Holders) + Bit(<<x, r>> \in Holders')
  BY <1>1, <1>2, CardinalityDiffersAt
<1> QED
  BY <1>4, <1>5 DEF Bit

RunsMove(x, r, s, S, y) ==
  /\ Cardinality(RunsIn(y, S)) \in Nat /\ Cardinality(RunsIn(y, S)') \in Nat
  /\ Cardinality(RunsIn(x, S)') + Bit(stage[<<x, r>>] \in S)
       = Cardinality(RunsIn(x, S)) + Bit(s \in S)
  /\ y # x => RunsIn(y, S)' = RunsIn(y, S)

LEMMA RunsInMove ==
  ASSUME TypeOK, NEW x \in Nodes, NEW r \in Runs, NEW s \in Stages, NEW S, NEW y \in Nodes,
         stage' = [stage EXCEPT ![<<x, r>>] = s]
  PROVE  RunsMove(x, r, s, S, y)
<1>1. \A z \in Nodes : IsFiniteSet(RunsIn(z, S)) /\ IsFiniteSet(RunsIn(z, S)')
  BY FiniteRuns, FS_Subset DEF RunsIn
<1>2. \A q : q # r => (q \in RunsIn(x, S) <=> q \in RunsIn(x, S)')
  BY DEF RunsIn, TypeOK, Activations
<1>3. /\ r \in RunsIn(x, S) <=> stage[<<x, r>>] \in S
      /\ r \in RunsIn(x, S)' <=> s \in S
  BY DEF RunsIn, TypeOK, Activations
<1>4. y # x => RunsIn(y, S)' = RunsIn(y, S)
  BY DEF RunsIn, TypeOK, Activations
<1>5. /\ Cardinality(RunsIn(x, S)) \in Nat /\ Cardinality(RunsIn(x, S)') \in Nat
      /\ Cardinality(RunsIn(x, S)') + Bit(r \in RunsIn(x, S))
           = Cardinality(RunsIn(x, S)) + Bit(r \in RunsIn(x, S)')
  BY <1>1, <1>2, CardinalityDiffersAt
<1>6. Cardinality(RunsIn(y, S)) \in Nat /\ Cardinality(RunsIn(y, S)') \in Nat
  BY <1>1, FS_CardinalityType
<1> QED
  BY <1>3, <1>4, <1>5, <1>6 DEF RunsMove, Bit

LEMMA BitType == \A b \in BOOLEAN : Bit(b) \in Nat
BY DEF Bit

\* A unit of the budget is on _budget or held by one activation, in every
\* execution and for every k: no sequence of retries, failures, waits, halts
\* or aborts loses one or mints one.
THEOREM BudgetIsConserved == Spec => []BudgetConserved
<1>1. Init => BudgetConserved
  <2> SUFFICES ASSUME Init PROVE BudgetConserved
    OBVIOUS
  <2>1. Holders = {}
    BY DEF Init, Holders, UnitStages
  <2>2. Cardinality(Holders) = 0
    BY <2>1, FS_EmptySet
  <2> QED
    BY <2>2, UnitsType DEF Init, BudgetConserved
<1>2. TypeOK /\ BudgetConserved /\ [Next]_vars => BudgetConserved'
  <2> SUFFICES ASSUME TypeOK, BudgetConserved, [Next]_vars PROVE BudgetConserved'
    OBVIOUS
  <2>1. CASE UNCHANGED <<budget, idle, stage>>
    <3>1. Holders' = Holders /\ budget' = budget
      BY <2>1 DEF Holders
    <3> QED
      BY <3>1 DEF BudgetConserved, Units, EffectiveBudget
  <2>2. ASSUME NEW x \in Nodes, NEW r \in Runs, NEW s \in Stages, Moves(x, r, s)
        PROVE  BudgetConserved'
    <3>1. /\ Cardinality(Holders) \in Nat /\ Cardinality(Holders') \in Nat
          /\ Cardinality(Holders') + Bit(stage[<<x, r>>] \in UnitStages)
               = Cardinality(Holders) + Bit(s \in UnitStages)
      BY <2>2, HoldersMove DEF Moves
    <3>2. budget' + Bit(s \in UnitStages) = budget + Bit(stage[<<x, r>>] \in UnitStages)
      BY <2>2 DEF Moves
    <3>3. budget \in Nat /\ budget' \in Nat
      BY TypeStep DEF TypeOK
    <3>4. Units' = Units
      BY DEF Units, EffectiveBudget
    <3> QED
      BY <3>1, <3>2, <3>3, <3>4, UnitsType DEF BudgetConserved, Bit
  <2> QED
    BY <2>1, <2>2, StageStep
<1> QED
  BY <1>1, <1>2, TypeCorrect, PTL DEF Spec

\* Two activations of one node never execute at once, and its X/idle is there
\* exactly when none does: what makes X/idle a mutex, retries included.
THEOREM NodeMutex == Spec => []OneRunPerNode
<1>1. Init => OneRunPerNode
  <2> SUFFICES ASSUME Init, NEW x \in Nodes
               PROVE  idle[x] + Cardinality(RunsIn(x, BusyStages)) = 1
    BY DEF OneRunPerNode
  <2>1. RunsIn(x, BusyStages) = {}
    BY DEF Init, RunsIn, BusyStages, Activations
  <2>2. Cardinality(RunsIn(x, BusyStages)) = 0
    BY <2>1, FS_EmptySet
  <2> QED
    BY <2>2 DEF Init
<1>2. TypeOK /\ OneRunPerNode /\ [Next]_vars => OneRunPerNode'
  <2> SUFFICES ASSUME TypeOK, OneRunPerNode, [Next]_vars, NEW y \in Nodes
               PROVE  idle'[y] + Cardinality(RunsIn(y, BusyStages)') = 1
    BY DEF OneRunPerNode, BusyStages
  <2>0. idle[y] + Cardinality(RunsIn(y, BusyStages)) = 1
    BY DEF OneRunPerNode
  <2>1. CASE UNCHANGED <<budget, idle, stage>>
    <3>1. RunsIn(y, BusyStages)' = RunsIn(y, BusyStages) /\ idle' = idle
      BY <2>1 DEF RunsIn, BusyStages
    <3> QED
      BY <2>0, <3>1
  <2>2. ASSUME NEW x \in Nodes, NEW r \in Runs, NEW s \in Stages, Moves(x, r, s)
        PROVE  idle'[y] + Cardinality(RunsIn(y, BusyStages)') = 1
    <3>1. /\ Cardinality(RunsIn(y, BusyStages)) \in Nat
          /\ Cardinality(RunsIn(y, BusyStages)') \in Nat
          /\ Cardinality(RunsIn(x, BusyStages)') + Bit(stage[<<x, r>>] \in BusyStages)
               = Cardinality(RunsIn(x, BusyStages)) + Bit(s \in BusyStages)
          /\ y # x => RunsIn(y, BusyStages)' = RunsIn(y, BusyStages)
      <4>1. stage' = [stage EXCEPT ![<<x, r>>] = s]
        BY <2>2 DEF Moves
      <4>2. RunsMove(x, r, s, BusyStages, y)
        BY <4>1, RunsInMove
      <4> QED
        BY <4>2 DEF RunsMove
    <3>2. idle[y] \in Nat /\ idle'[y] \in Nat
      BY TypeStep DEF TypeOK
    <3>3. /\ idle'[x] + Bit(s \in BusyStages) = idle[x] + Bit(stage[<<x, r>>] \in BusyStages)
          /\ y # x => idle'[y] = idle[y]
      BY <2>2 DEF Moves
    <3> QED
      BY <2>0, <3>1, <3>2, <3>3 DEF Bit
  <2> QED
    BY <2>1, <2>2, StageStep
<1> QED
  BY <1>1, <1>2, TypeCorrect, PTL DEF Spec

-----------------------------------------------------------------------------
(***************************************************************************)
(* What a halt freezes.                                                    *)
(***************************************************************************)

\* No place that holds an arrival loses one.
Kept ==
  /\ \A e \in DOMAIN data : data'[e] >= data[e]
  /\ \A e \in Edges : empty'[e] >= empty[e]
  /\ \A q \in DOMAIN ready : ready'[q] >= ready[q]
  /\ \A x \in Nodes : hasdata'[x] >= hasdata[x] /\ arrived'[x] >= arrived[x]

LEMMA PlusKeeps ==
  ASSUME NEW D, NEW f \in [D -> Nat], NEW S
  PROVE  \A k \in D : Plus(f, S)[k] >= f[k]
BY DEF Plus

\* Steps that only move an activation on keep every arrival; so do the landings.
LEMMA HaltedStepKeeps ==
  ASSUME TypeOK, [Next]_vars, halt
  PROVE  Kept
<1> USE DEF control, runSide, inputSide, skipSide
<1> DEFINE arrivals == <<data, empty, ready, hasdata, arrived>>
<1>u. ASSUME UNCHANGED arrivals PROVE Kept
  BY <1>u DEF Kept, TypeOK
<1>1. ASSUME NEW x \in Nodes, NEW r \in Runs,
             \/ StartLands(x, r) \/ Run(x, r) \/ RunRetries(x, r) \/ RunHalts(x, r)
             \/ Done(x, r) \/ DoneLands(x, r) \/ RetryLands(x, r) \/ Exhausted(x, r)
             \/ \E s \in {"waiting", "stopped"} : RunPauses(x, r, s)
      PROVE  Kept
  <2>1. UNCHANGED arrivals
    BY <1>1 DEF StartLands, Run, RunRetries, RunHalts, Done, DoneLands, RetryLands, Exhausted, RunPauses
  <2> QED
    BY <2>1, <1>u
<1>2. ASSUME NEW x \in Nodes, NEW r \in Runs, Start(x, r) \/ RetryWait(x, r) PROVE Kept
  BY <1>2 DEF Start, RetryWait, Starting, Deciding
<1>3. ASSUME NEW x \in Nodes, NEW r \in Runs, NEW live \in SUBSET Outputs(x), RunSucceeds(x, r, live)
      PROVE  Kept
  <2>1. /\ data' = Plus(data, DataEdges(x, live)) /\ empty' = Plus(empty, EmptyEdges(x, live))
        /\ UNCHANGED <<ready, hasdata, arrived>>
    BY <1>3 DEF RunSucceeds
  <2>2. /\ \A e \in DOMAIN data : data'[e] >= data[e]
        /\ \A e \in Edges : empty'[e] >= empty[e]
    BY <2>1, PlusKeeps DEF TypeOK
  <2> QED
    BY <2>1, <2>2 DEF Kept, TypeOK
<1>4. ASSUME NEW e \in ArmedEdges, NEW v \in Variants, Arm(e, v) PROVE Kept
  BY <1>4 DEF Arm, Deciding
<1>5. ASSUME NEW e \in ArmedEdges, NEW v \in Variants, ArmLands(e, v) PROVE Kept
  <2>1. UNCHANGED <<data, empty>>
    BY <1>5 DEF ArmLands
  <2>2. \A q \in DOMAIN ready : ready'[q] >= ready[q]
    BY <1>5, PlusKeeps DEF ArmLands, TypeOK
  <2>3. \A x \in Nodes : hasdata'[x] >= hasdata[x] /\ arrived'[x] >= arrived[x]
    BY <1>5, PlusKeeps DEF ArmLands, TypeOK
  <2> QED
    BY <2>1, <2>2, <2>3 DEF Kept, TypeOK
<1>6. ASSUME NEW x \in Nodes, Skip(x) \/ Clear(x) PROVE Kept
  BY <1>6 DEF Skip, Clear, Deciding
<1>7. ASSUME NEW x \in Nodes, SkipLands(x) PROVE Kept
  <2>1. UNCHANGED <<data, ready, hasdata, arrived>>
    BY <1>7 DEF SkipLands
  <2>2. \A e \in Edges : empty'[e] >= empty[e]
    BY <1>7, PlusKeeps DEF SkipLands, TypeOK
  <2> QED
    BY <2>1, <2>2 DEF Kept, TypeOK
<1>8. CASE Abort \/ UNCHANGED vars
  BY <1>8, <1>u DEF Abort, vars
<1> QED
  BY <1>1, <1>2, <1>3, <1>4, <1>5, <1>6, <1>7, <1>8 DEF Next, Fire, Land

\* From the moment the failure lands, whatever is still in flight, nothing that
\* had arrived is consumed: the pending stack written back is the one it left.
THEOREM HaltFreezesArrivals == Spec => HaltKeepsArrivals
<1>1. TypeOK /\ [Next]_vars => [halt => Kept]_vars
  BY HaltedStepKeeps
<1> QED
  BY <1>1, TypeCorrect, PTL DEF Spec, HaltKeepsArrivals, Kept

-----------------------------------------------------------------------------
(***************************************************************************)
(* Join slots.                                                             *)
(***************************************************************************)

Arriving(p) == {a \in arming : SlotOf(a[1]) = p}
HoldsOne(p) ==
  free[p] + ready[<<p, "data">>] + ready[<<p, "empty">>] + Refunding(p[1])
    + Cardinality(Arriving(p)) = 1

\* A slot belongs to one node, and only the joins have slots.
LEMMA SlotOwner ==
  ASSUME NEW p \in Slots
  PROVE  /\ p[1] \in JoinNodes /\ p \in SlotsOf[p[1]]
         /\ \A x \in Nodes : p \in SlotsOf[x] <=> p[1] = x
<1>1. PICK y \in JoinNodes : p \in SlotsOf[y]
  BY DEF Slots
<1>2. y \in Nodes
  BY DEF JoinNodes
<1>3. p[1] = y
  BY <1>1, <1>2 DEF SlotsOf
<1>4. \A x \in Nodes : p \in SlotsOf[x] => p[1] = x
  BY DEF SlotsOf
<1> QED
  BY <1>1, <1>3, <1>4

LEMMA ReadyType ==
  ASSUME TypeOK, NEW p \in Slots
  PROVE  /\ free[p] \in Nat
         /\ ready[<<p, "data">>] \in Nat /\ ready[<<p, "empty">>] \in Nat
BY DEF TypeOK, Variants

\* One arrival of each of x's slots goes; the other slots keep theirs.
LEMMA TakenEffect ==
  ASSUME TypeOK, NEW x \in Nodes, NEW v \in Arrivals(x), NEW p \in Slots,
         ready' = Minus(ready, TakenFrom(v))
  PROVE  /\ p[1] = x => ready'[<<p, "data">>] + ready'[<<p, "empty">>] + 1
                           = ready[<<p, "data">>] + ready[<<p, "empty">>]
         /\ p[1] # x => /\ ready'[<<p, "data">>] = ready[<<p, "data">>]
                        /\ ready'[<<p, "empty">>] = ready[<<p, "empty">>]
         /\ ready'[<<p, "data">>] <= ready[<<p, "data">>]
         /\ p[1] = x /\ ready[<<p, "data">>] + ready[<<p, "empty">>] <= 1
              => ready'[<<p, "data">>] = 0
<1>1. /\ v \in [SlotsOf[x] -> Variants]
      /\ \A q \in SlotsOf[x] : ready[<<q, v[q]>>] > 0
  BY DEF Arrivals
<1>2. \A w \in Variants : <<p, w>> \in TakenFrom(v) <=> p \in SlotsOf[x] /\ v[p] = w
  BY <1>1 DEF TakenFrom
<1>3. \A w \in Variants :
        /\ <<p, w>> \in DOMAIN ready
        /\ ready[<<p, w>>] \in Nat
        /\ ready'[<<p, w>>] = IF p[1] = x /\ v[p] = w THEN ready[<<p, w>>] - 1 ELSE ready[<<p, w>>]
  BY <1>2, SlotOwner DEF TypeOK, Minus
<1>4. p[1] = x => v[p] \in Variants
  BY <1>1, SlotOwner
<1>5. p[1] = x => ready[<<p, v[p]>>] > 0
  BY <1>1, SlotOwner
<1> QED
  BY <1>3, <1>4, <1>5 DEF Variants

LEMMA ArrivingFinite ==
  ASSUME TypeOK, NEW p
  PROVE  IsFiniteSet(Arriving(p))
<1>1. IsFiniteSet(ArmedEdges)
  BY GraphAssumption, FS_Subset DEF ArmedEdges
<1>2. IsFiniteSet(Variants)
  <2>1. Variants = {"data"} \cup {"empty"}
    BY DEF Variants
  <2> QED
    BY <2>1, FS_Singleton, FS_Union
<1>3. IsFiniteSet(ArmedEdges \X Variants)
  BY <1>1, <1>2, FS_Product
<1>4. Arriving(p) \subseteq ArmedEdges \X Variants
  BY DEF Arriving, TypeOK
<1> QED
  BY <1>3, <1>4, FS_Subset

LEMMA RefundingType ==
  ASSUME TypeOK, NEW x \in Nodes
  PROVE  /\ Refunding(x) \in Nat /\ Refunding(x)' \in Nat
         /\ Cardinality(RunsIn(x, {"starting"})) \in Nat
<1>1. IsFiniteSet(RunsIn(x, {"starting"})) /\ IsFiniteSet(RunsIn(x, {"starting"})')
  BY FiniteRuns, FS_Subset DEF RunsIn
<1> QED
  BY <1>1, FS_CardinalityType DEF Refunding

\* The start and its landing move the refund of x's slots; no other run step does.
LEMMA RefundingMove ==
  ASSUME TypeOK, NEW x \in Nodes, NEW r \in Runs, NEW s \in Stages, NEW y \in Nodes,
         stage' = [stage EXCEPT ![<<x, r>>] = s], skipping' = skipping
  PROVE  /\ y # x => Refunding(y)' = Refunding(y)
         /\ (stage[<<x, r>>] = "starting" <=> s = "starting") => Refunding(x)' = Refunding(x)
         /\ stage[<<x, r>>] # "starting" /\ s = "starting" => Refunding(x)' = Refunding(x) + 1
         /\ stage[<<x, r>>] = "starting" /\ s # "starting" => Refunding(x)' + 1 = Refunding(x)
<1>0. RunsMove(x, r, s, {"starting"}, x) /\ RunsMove(x, r, s, {"starting"}, y)
  BY RunsInMove
<1>1. /\ Cardinality(RunsIn(x, {"starting"})) \in Nat
      /\ Cardinality(RunsIn(x, {"starting"})') \in Nat
      /\ Cardinality(RunsIn(x, {"starting"})') + Bit(stage[<<x, r>>] \in {"starting"})
           = Cardinality(RunsIn(x, {"starting"})) + Bit(s \in {"starting"})
  BY <1>0 DEF RunsMove
<1>2. y # x => RunsIn(y, {"starting"})' = RunsIn(y, {"starting"})
  BY <1>0 DEF RunsMove
<1> QED
  BY <1>1, <1>2 DEF Refunding, Bit

\* A step that leaves the slots, the arms and the starts alone.
LEMMA SlotUntouched ==
  ASSUME TypeOK, NEW p \in Slots, HoldsOne(p),
         UNCHANGED <<free, ready, arming>>, Refunding(p[1])' = Refunding(p[1])
  PROVE  HoldsOne(p)'
BY DEF HoldsOne, Arriving

LEMMA InitHoldsOne == Init => \A p \in Slots : HoldsOne(p)
<1> SUFFICES ASSUME Init, NEW p \in Slots PROVE HoldsOne(p)
  OBVIOUS
<1>1. Arriving(p) = {} /\ RunsIn(p[1], {"starting"}) = {} /\ skipping = {}
  BY SlotOwner DEF Init, Arriving, RunsIn, Activations, JoinNodes
<1>2. Cardinality(Arriving(p)) = 0 /\ Refunding(p[1]) = 0
  BY <1>1, FS_EmptySet DEF Refunding
<1>3. free[p] + ready[<<p, "data">>] + ready[<<p, "empty">>] = 1
  BY DEF Init, Variants
<1> QED
  BY <1>2, <1>3 DEF HoldsOne

LEMMA SlotStep ==
  ASSUME TypeOK, [Next]_vars, NEW p \in Slots, HoldsOne(p)
  PROVE  HoldsOne(p)'
<1> USE DEF control, runSide, inputSide, skipSide
<1>o. /\ p[1] \in Nodes /\ p \in SlotsOf[p[1]] /\ p[1] \in JoinNodes
      /\ \A x \in Nodes : p \in SlotsOf[x] <=> p[1] = x
  BY SlotOwner DEF JoinNodes
<1>t. /\ free[p] \in Nat /\ ready[<<p, "data">>] \in Nat /\ ready[<<p, "empty">>] \in Nat
      /\ Refunding(p[1]) \in Nat /\ Cardinality(Arriving(p)) \in Nat
  BY <1>o, ReadyType, RefundingType, ArrivingFinite, FS_CardinalityType
<1>1. ASSUME NEW x \in Nodes, NEW r \in Runs, Start(x, r) PROVE HoldsOne(p)'
  <2>1. /\ stage' = [stage EXCEPT ![<<x, r>>] = "starting"] /\ skipping' = skipping
        /\ stage[<<x, r>>] = "none" /\ UNCHANGED <<free, arming>>
    BY <1>1 DEF Start, Started
  <2>2. /\ p[1] # x => Refunding(p[1])' = Refunding(p[1])
        /\ p[1] = x => Refunding(p[1])' = Refunding(p[1]) + 1
    <3>1. "starting" \in Stages
      BY DEF Stages, UnitStages
    <3>2. \A y \in Nodes : y # x => Refunding(y)' = Refunding(y)
      BY <2>1, <3>1, RefundingMove
    <3>3. Refunding(x)' = Refunding(x) + 1
      BY <2>1, <3>1, RefundingMove
    <3> QED
      BY <1>o, <3>2, <3>3
  <2>3. CASE p[1] = x
    <3>1. PICK v \in Arrivals(x) : ready' = Minus(ready, TakenFrom(v))
      BY <1>1, <1>o, <2>3 DEF Start, TakeActivation, JoinNodes
    <3>2. ready'[<<p, "data">>] + ready'[<<p, "empty">>] + 1
            = ready[<<p, "data">>] + ready[<<p, "empty">>]
      BY <2>3, <3>1, TakenEffect
    <3>3. ready'[<<p, "data">>] \in Nat /\ ready'[<<p, "empty">>] \in Nat
      BY TypeStep, ReadyType DEF TypeOK, Variants
    <3> QED
      BY <1>t, <2>1, <2>2, <2>3, <3>2, <3>3 DEF HoldsOne, Arriving
  <2>4. CASE p[1] # x
    <3>1. /\ ready'[<<p, "data">>] = ready[<<p, "data">>]
          /\ ready'[<<p, "empty">>] = ready[<<p, "empty">>]
      BY <1>1, <2>4, TakenEffect DEF Start, TakeActivation
    <3> QED
      BY <1>t, <2>1, <2>2, <2>4, <3>1 DEF HoldsOne, Arriving
  <2> QED
    BY <2>3, <2>4
<1>2. ASSUME NEW x \in Nodes, NEW r \in Runs, StartLands(x, r) PROVE HoldsOne(p)'
  <2>1. /\ stage' = [stage EXCEPT ![<<x, r>>] = "running"] /\ skipping' = skipping
        /\ stage[<<x, r>>] = "starting" /\ UNCHANGED <<ready, arming>>
        /\ free' = Plus(free, SlotsOf[x])
    BY <1>2 DEF StartLands
  <2>2. /\ p[1] # x => Refunding(p[1])' = Refunding(p[1])
        /\ p[1] = x => Refunding(p[1])' + 1 = Refunding(p[1])
    <3>1. "running" \in Stages
      BY DEF Stages, UnitStages
    <3>2. \A y \in Nodes : y # x => Refunding(y)' = Refunding(y)
      BY <2>1, <3>1, RefundingMove
    <3>3. Refunding(x)' + 1 = Refunding(x)
      BY <2>1, <3>1, RefundingMove
    <3> QED
      BY <1>o, <3>2, <3>3
  <2>3. free'[p] = IF p[1] = x THEN free[p] + 1 ELSE free[p]
    BY <1>o, <2>1 DEF Plus, TypeOK
  <2>4. Refunding(p[1])' \in Nat
    BY <1>o, RefundingType
  <2> QED
    BY <1>t, <2>1, <2>2, <2>3, <2>4 DEF HoldsOne, Arriving
<1>3. ASSUME NEW x \in Nodes, NEW r \in Runs, NEW s \in Stages,
             stage' = [stage EXCEPT ![<<x, r>>] = s], s # "starting", stage[<<x, r>>] # "starting",
             UNCHANGED <<free, ready, arming, skipping>>
      PROVE  HoldsOne(p)'
  <2>1. Refunding(p[1])' = Refunding(p[1])
    <3>1. \A y \in Nodes : y # x => Refunding(y)' = Refunding(y)
      BY <1>3, RefundingMove
    <3>2. Refunding(x)' = Refunding(x)
      BY <1>3, RefundingMove
    <3> QED
      BY <1>o, <3>1, <3>2
  <2> QED
    BY <1>3, <2>1, SlotUntouched
<1>4. ASSUME NEW x \in Nodes, NEW r \in Runs,
             \/ Run(x, r) \/ RunRetries(x, r) \/ RunHalts(x, r) \/ Done(x, r) \/ DoneLands(x, r)
             \/ RetryWait(x, r) \/ RetryLands(x, r) \/ Exhausted(x, r)
             \/ \E s \in {"waiting", "stopped"} : RunPauses(x, r, s)
             \/ \E live \in SUBSET Outputs(x) : RunSucceeds(x, r, live)
      PROVE  HoldsOne(p)'
  <2>1. UNCHANGED <<free, ready, arming, skipping>>
    BY <1>4 DEF Run, RunRetries, RunHalts, Done, DoneLands, RetryWait, RetryLands, Exhausted,
                RunPauses, RunSucceeds
  <2>2. /\ stage[<<x, r>>] # "starting"
        /\ \E s \in Stages : s # "starting" /\ stage' = [stage EXCEPT ![<<x, r>>] = s]
    BY <1>4 DEF Run, RunRetries, RunHalts, Done, DoneLands, RetryWait, RetryLands, Exhausted,
                RunPauses, RunSucceeds, Settling, Settle, Stages, UnitStages
  <2> QED
    BY <2>1, <2>2, <1>3
<1>5. ASSUME NEW e \in ArmedEdges, NEW v \in Variants, Arm(e, v) PROVE HoldsOne(p)'
  <2>1. /\ UNCHANGED <<ready, stage, skipping>> /\ arming' = arming \cup {<<e, v>>}
        /\ <<e, v>> \notin arming /\ TakeSlot(e)
    BY <1>5 DEF Arm
  <2>2. Refunding(p[1])' = Refunding(p[1])
    BY <2>1 DEF Refunding, RunsIn
  <2>3. CASE SlotOf(e) = p
    <3>1. Arriving(p)' = Arriving(p) \cup {<<e, v>>} /\ <<e, v>> \notin Arriving(p)
      BY <2>1, <2>3 DEF Arriving
    <3>2. Cardinality(Arriving(p)') = Cardinality(Arriving(p)) + 1
      BY <3>1, ArrivingFinite, FS_AddElement
    <3>3. free[p] > 0 /\ free'[p] = free[p] - 1
      BY <2>1, <2>3 DEF TakeSlot, Minus, TypeOK
    <3> QED
      BY <1>t, <2>1, <2>2, <3>2, <3>3 DEF HoldsOne
  <2>4. CASE SlotOf(e) # p
    <3>1. Arriving(p)' = Arriving(p)
      BY <2>1, <2>4 DEF Arriving
    <3>2. free'[p] = free[p]
      BY <2>1, <2>4 DEF TakeSlot, Minus, TypeOK
    <3> QED
      BY <2>1, <2>2, <3>1, <3>2 DEF HoldsOne
  <2> QED
    BY <2>3, <2>4
<1>6. ASSUME NEW e \in ArmedEdges, NEW v \in Variants, ArmLands(e, v) PROVE HoldsOne(p)'
  <2>1. /\ UNCHANGED <<free, stage, skipping>> /\ arming' = arming \ {<<e, v>>}
        /\ <<e, v>> \in arming
        /\ ready' = IF SlotOf(e) \in Slots THEN Plus(ready, {<<SlotOf(e), v>>}) ELSE ready
    BY <1>6 DEF ArmLands
  <2>2. Refunding(p[1])' = Refunding(p[1])
    BY <2>1 DEF Refunding, RunsIn
  <2>3. CASE SlotOf(e) = p
    <3>1. Arriving(p)' = Arriving(p) \ {<<e, v>>} /\ <<e, v>> \in Arriving(p)
      BY <2>1, <2>3 DEF Arriving
    <3>2. Cardinality(Arriving(p)') = Cardinality(Arriving(p)) - 1
      BY <3>1, ArrivingFinite, FS_RemoveElement
    <3>3. \A w \in Variants :
            ready'[<<p, w>>] = IF w = v THEN ready[<<p, w>>] + 1 ELSE ready[<<p, w>>]
      BY <2>1, <2>3 DEF Plus, TypeOK
    <3> QED
      BY <1>t, <2>1, <2>2, <3>2, <3>3 DEF HoldsOne, Variants
  <2>4. CASE SlotOf(e) # p
    <3>1. Arriving(p)' = Arriving(p)
      BY <2>1, <2>4 DEF Arriving
    <3>2. \A w \in Variants : ready'[<<p, w>>] = ready[<<p, w>>]
      BY <2>1, <2>4 DEF Plus, TypeOK
    <3> QED
      BY <2>1, <2>2, <3>1, <3>2 DEF HoldsOne, Variants
  <2> QED
    BY <2>3, <2>4
<1>7. ASSUME NEW x \in Nodes, Skip(x) PROVE HoldsOne(p)'
  <2>1. /\ UNCHANGED <<free, stage, arming>> /\ x \notin skipping
        /\ skipping' = skipping \cup {x} /\ TakeEmpties(x)
    BY <1>7 DEF Skip
  <2>2. /\ p[1] # x => Refunding(p[1])' = Refunding(p[1])
        /\ p[1] = x => Refunding(p[1])' = Refunding(p[1]) + 1
    BY <1>o, <2>1, RefundingType DEF Refunding, RunsIn
  <2>3. CASE p[1] = x
    <3>1. PICK v \in Arrivals(x) : ready' = Minus(ready, TakenFrom(v))
      BY <1>o, <2>1, <2>3 DEF TakeEmpties, JoinNodes
    <3>2. ready'[<<p, "data">>] + ready'[<<p, "empty">>] + 1
            = ready[<<p, "data">>] + ready[<<p, "empty">>]
      BY <2>3, <3>1, TakenEffect
    <3>3. ready'[<<p, "data">>] \in Nat /\ ready'[<<p, "empty">>] \in Nat
      BY TypeStep, ReadyType DEF TypeOK, Variants
    <3> QED
      BY <1>t, <2>1, <2>2, <2>3, <3>2, <3>3 DEF HoldsOne, Arriving
  <2>4. CASE p[1] # x
    <3>1. /\ ready'[<<p, "data">>] = ready[<<p, "data">>]
          /\ ready'[<<p, "empty">>] = ready[<<p, "empty">>]
      BY <2>1, <2>4, TakenEffect DEF TakeEmpties
    <3> QED
      BY <1>t, <2>1, <2>2, <2>4, <3>1 DEF HoldsOne, Arriving
  <2> QED
    BY <2>3, <2>4
<1>8. ASSUME NEW x \in Nodes, SkipLands(x) PROVE HoldsOne(p)'
  <2>1. /\ UNCHANGED <<ready, stage, arming>> /\ x \in skipping
        /\ skipping' = skipping \ {x} /\ free' = Plus(free, SlotsOf[x])
    BY <1>8 DEF SkipLands
  <2>2. /\ p[1] # x => Refunding(p[1])' = Refunding(p[1])
        /\ p[1] = x => Refunding(p[1])' + 1 = Refunding(p[1])
    BY <1>o, <2>1, RefundingType DEF Refunding, RunsIn
  <2>3. free'[p] = IF p[1] = x THEN free[p] + 1 ELSE free[p]
    BY <1>o, <2>1 DEF Plus, TypeOK
  <2>4. Refunding(p[1])' \in Nat
    BY <1>o, RefundingType
  <2> QED
    BY <1>t, <2>1, <2>2, <2>3, <2>4 DEF HoldsOne, Arriving
<1>9. ASSUME NEW x \in Nodes, Clear(x) PROVE HoldsOne(p)'
  BY <1>9, SlotUntouched DEF Clear, Refunding, RunsIn
<1>10. CASE Abort \/ UNCHANGED vars
  BY <1>10, SlotUntouched DEF Abort, vars, Refunding, RunsIn
<1> QED
  BY <1>1, <1>2, <1>4, <1>5, <1>6, <1>7, <1>8, <1>9, <1>10 DEF Next, Fire, Land

\* A join slot holds one arrival, is free, or has one arrival or one refund on the
\* way: no interleaving of arms, starts and skips fills a slot twice or leaks it.
THEOREM SlotsAreSound == Spec => []SlotHoldsOneArrival
<1> DEFINE AllHoldOne == \A p \in Slots : HoldsOne(p)
<1>1. Init => AllHoldOne
  BY InitHoldsOne
<1>2. TypeOK /\ AllHoldOne /\ [Next]_vars => AllHoldOne'
  <2>1. Slots' = Slots
    BY DEF Slots, SlotsOf, JoinNodes
  <2> QED
    BY <2>1, SlotStep
<1>3. AllHoldOne => SlotHoldsOneArrival
  BY DEF HoldsOne, Arriving, SlotHoldsOneArrival
<1> HIDE DEF AllHoldOne
<1> QED
  BY <1>1, <1>2, <1>3, TypeCorrect, PTL DEF Spec

-----------------------------------------------------------------------------
(***************************************************************************)
(* Skipping a join.  X/hasdata is marked whenever a slot of a generic join *)
(* holds data: X_skip inhibits on it because it cannot tell variants apart.*)
(***************************************************************************)
DataIsCounted ==
  \A p \in Slots : Forms[p[1]] = "join" /\ hasdata[p[1]] = 0 => ready[<<p, "data">>] = 0

LEMMA InitDataIsCounted == Init => DataIsCounted
<1> SUFFICES ASSUME Init, NEW p \in Slots, Forms[p[1]] = "join", hasdata[p[1]] = 0
             PROVE  ready[<<p, "data">>] = 0
  BY DEF DataIsCounted
<1>1. p[1] \in Nodes /\ (p \in TriggerSlots => p[1] = Trigger)
  BY SlotOwner, GraphAssumption DEF JoinNodes, TriggerSlots
<1>2. p \notin TriggerSlots
  BY <1>1 DEF Init, TriggerIs
<1> QED
  BY <1>2 DEF Init, Variants

LEMMA DataIsCountedStep ==
  ASSUME TypeOK, SlotHoldsOneArrival, DataIsCounted, [Next]_vars
  PROVE  DataIsCounted'
<1> USE DEF control, runSide, inputSide, skipSide
<1> SUFFICES ASSUME NEW p \in Slots, Forms[p[1]] = "join", hasdata'[p[1]] = 0
             PROVE  ready'[<<p, "data">>] = 0
  BY DEF DataIsCounted, Slots, SlotsOf, JoinNodes
<1>o. p[1] \in Nodes /\ \A x \in Nodes : p \in SlotsOf[x] <=> p[1] = x
  BY SlotOwner DEF JoinNodes
<1>t. /\ free[p] \in Nat /\ ready[<<p, "data">>] \in Nat /\ ready[<<p, "empty">>] \in Nat
      /\ Refunding(p[1]) \in Nat /\ Cardinality(Arriving(p)) \in Nat
      /\ ready'[<<p, "data">>] \in Nat
      /\ \A x \in Nodes : hasdata[x] \in Nat
  BY <1>o, ReadyType, RefundingType, ArrivingFinite, FS_CardinalityType, TypeStep DEF TypeOK, Variants
<1>c. ready[<<p, "data">>] + ready[<<p, "empty">>] <= 1
  <2>1. free[p] + ready[<<p, "data">>] + ready[<<p, "empty">>] + Refunding(p[1])
          + Cardinality(Arriving(p)) = 1
    BY DEF SlotHoldsOneArrival, Arriving
  <2> QED
    BY <1>t, <2>1
<1>u. ASSUME UNCHANGED <<ready, hasdata>> PROVE ready'[<<p, "data">>] = 0
  BY <1>u DEF DataIsCounted
<1>1. ASSUME NEW x \in Nodes, NEW r \in Runs, Start(x, r) PROVE ready'[<<p, "data">>] = 0
  <2>1. CASE p[1] = x
    <3>1. PICK v \in Arrivals(x) : ready' = Minus(ready, TakenFrom(v))
      BY <1>1, <2>1 DEF Start, TakeActivation
    <3> QED
      BY <1>c, <2>1, <3>1, TakenEffect
  <2>2. CASE p[1] # x
    <3>1. hasdata'[p[1]] = hasdata[p[1]]
      BY <1>1, <1>o, <2>2 DEF Start, TakeActivation, ClearHasdata, Minus, TypeOK
    <3>2. ready'[<<p, "data">>] = ready[<<p, "data">>]
      BY <1>1, <2>2, TakenEffect DEF Start, TakeActivation
    <3> QED
      BY <3>1, <3>2 DEF DataIsCounted
  <2> QED
    BY <2>1, <2>2
<1>2. ASSUME NEW x \in Nodes, NEW r \in Runs,
             \/ StartLands(x, r) \/ Run(x, r) \/ RunRetries(x, r) \/ RunHalts(x, r)
             \/ Done(x, r) \/ DoneLands(x, r) \/ RetryWait(x, r) \/ RetryLands(x, r)
             \/ Exhausted(x, r)
             \/ \E s \in {"waiting", "stopped"} : RunPauses(x, r, s)
             \/ \E live \in SUBSET Outputs(x) : RunSucceeds(x, r, live)
      PROVE  ready'[<<p, "data">>] = 0
  <2>1. UNCHANGED <<ready, hasdata>>
    BY <1>2 DEF StartLands, Run, RunRetries, RunHalts, Done, DoneLands, RetryWait, RetryLands,
                Exhausted, RunPauses, RunSucceeds
  <2> QED
    BY <2>1, <1>u
<1>3. ASSUME NEW e \in ArmedEdges, NEW v \in Variants, Arm(e, v) PROVE ready'[<<p, "data">>] = 0
  BY <1>3, <1>u DEF Arm
<1>4. ASSUME NEW e \in ArmedEdges, NEW v \in Variants, ArmLands(e, v)
      PROVE  ready'[<<p, "data">>] = 0
  <2>1. /\ ready' = IF SlotOf(e) \in Slots THEN Plus(ready, {<<SlotOf(e), v>>}) ELSE ready
        /\ hasdata' = IF CountsData(e, v) THEN Plus(hasdata, {Conn[e].to}) ELSE hasdata
    BY <1>4 DEF ArmLands
  <2>2. hasdata[p[1]] = 0 /\ hasdata'[p[1]] = hasdata[p[1]]
    BY <1>o, <1>t, <2>1 DEF Plus, TypeOK
  <2>3. CASE SlotOf(e) = p /\ v = "data"
    <3>1. CountsData(e, v) /\ Conn[e].to = p[1]
      BY <2>3 DEF CountsData, SlotOf
    <3>2. hasdata'[p[1]] = hasdata[p[1]] + 1
      BY <1>o, <2>1, <3>1 DEF Plus, TypeOK
    <3> QED
      BY <2>2, <3>2
  <2>4. CASE ~(SlotOf(e) = p /\ v = "data")
    <3>1. ready'[<<p, "data">>] = ready[<<p, "data">>]
      BY <2>1, <2>4 DEF Plus, TypeOK, Variants
    <3> QED
      BY <2>2, <3>1 DEF DataIsCounted
  <2> QED
    BY <2>3, <2>4
<1>5. ASSUME NEW x \in Nodes, Skip(x) PROVE ready'[<<p, "data">>] = 0
  <2>1. hasdata[p[1]] = 0
    BY <1>5 DEF Skip
  <2>2. ready'[<<p, "data">>] <= ready[<<p, "data">>]
    BY <1>5, <1>t, TakenEffect DEF Skip, TakeEmpties
  <2> QED
    BY <1>t, <2>1, <2>2 DEF DataIsCounted
<1>6. ASSUME NEW x \in Nodes, SkipLands(x) \/ Clear(x) PROVE ready'[<<p, "data">>] = 0
  BY <1>6, <1>u DEF SkipLands, Clear
<1>7. CASE Abort \/ UNCHANGED vars
  BY <1>7, <1>u DEF Abort, vars
<1> QED
  BY <1>1, <1>2, <1>3, <1>4, <1>5, <1>6, <1>7 DEF Next, Fire, Land

\* Only Skip makes a node skipping, and a generic join is skipped with no data on
\* any of its slots.
LEMMA SkipStep ==
  ASSUME TypeOK, DataIsCounted, [Next]_vars,
         NEW x \in skipping' \ skipping, NEW p \in SlotsOf[x], Forms[x] = "join"
  PROVE  ready'[<<p, "data">>] = ready[<<p, "data">>]
<1> USE DEF control, runSide, inputSide, skipSide
<1>1. x \in Nodes /\ Skip(x)
  <2>1. ASSUME NEW y \in Nodes, NEW r \in Runs,
               \/ Start(y, r) \/ StartLands(y, r) \/ Run(y, r) \/ RunRetries(y, r)
               \/ RunHalts(y, r) \/ Done(y, r) \/ DoneLands(y, r) \/ RetryWait(y, r)
               \/ RetryLands(y, r) \/ Exhausted(y, r)
               \/ \E s \in {"waiting", "stopped"} : RunPauses(y, r, s)
               \/ \E live \in SUBSET Outputs(y) : RunSucceeds(y, r, live)
        PROVE  skipping' = skipping
    BY <2>1 DEF Start, StartLands, Run, RunRetries, RunHalts, Done, DoneLands, RetryWait,
                RetryLands, Exhausted, RunPauses, RunSucceeds
  <2>2. ASSUME NEW e \in ArmedEdges, NEW v \in Variants, Arm(e, v) \/ ArmLands(e, v)
        PROVE  skipping' = skipping
    BY <2>2 DEF Arm, ArmLands
  <2>3. ASSUME NEW y \in Nodes, SkipLands(y) \/ Clear(y) PROVE x \notin skipping' \ skipping
    BY <2>3 DEF SkipLands, Clear
  <2>4. Abort \/ UNCHANGED vars => skipping' = skipping
    BY DEF Abort, vars
  <2>5. ASSUME NEW y \in Nodes, Skip(y) PROVE x = y
    BY <2>5 DEF Skip
  <2> QED
    BY <2>1, <2>2, <2>3, <2>4, <2>5 DEF Next, Fire, Land
<1>2. p \in Slots /\ p[1] = x
  BY <1>1 DEF Slots, SlotsOf
<1>3. hasdata[x] = 0 /\ \E v \in Arrivals(x) : ready' = Minus(ready, TakenFrom(v))
  BY <1>1 DEF Skip, TakeEmpties
<1>4. ready[<<p, "data">>] = 0
  BY <1>2, <1>3 DEF DataIsCounted
<1>5. ready'[<<p, "data">>] \in Nat /\ ready'[<<p, "data">>] <= ready[<<p, "data">>]
  BY <1>1, <1>2, <1>3, TakenEffect, TypeStep DEF TypeOK, Variants
<1> QED
  BY <1>4, <1>5

\* A skip can swallow no data arrival: not one that raced it through an arm, nor
\* one a twin start left behind.
THEOREM SkipIsSafe == Spec => SkipTakesNoData
<1>1. Init => DataIsCounted
  BY InitDataIsCounted
<1>2. TypeOK /\ SlotHoldsOneArrival /\ DataIsCounted /\ [Next]_vars => DataIsCounted'
  BY DataIsCountedStep
<1>3. TypeOK /\ DataIsCounted /\ [Next]_vars
        => [\A x \in (skipping' \ skipping) : \A p \in SlotsOf[x] :
              Forms[x] = "join" => ready'[<<p, "data">>] = ready[<<p, "data">>]]_vars
  BY SkipStep
<1> QED
  BY <1>1, <1>2, <1>3, TypeCorrect, SlotsAreSound, PTL DEF Spec, SkipTakesNoData

-----------------------------------------------------------------------------
(***************************************************************************)
(* What rests in a net that has come to a stop.                            *)
(***************************************************************************)

\* Quiescent is no stronger than it should be: such a net fires and lands nothing.
THEOREM QuiescentIsStill == TypeOK /\ Quiescent => ~(Fire \/ Land)
<1> SUFFICES ASSUME TypeOK, Quiescent, Fire \/ Land PROVE FALSE
  OBVIOUS
<1>t. \A x \in Nodes, r \in Runs : TokenRests(x, r)
  BY DEF Quiescent
<1>1. ASSUME NEW x \in Nodes, NEW r \in Runs, Start(x, r) PROVE FALSE
  <2>1. r \in Runs \ Started(x)
    BY <1>1 DEF Start
  <2>2. Takeable(x)
    BY <1>1 DEF Start, TakeActivation, Takeable
  <2>3. Startable(x) /\ Starting
    BY <1>1, <2>1, <2>2 DEF Start, Startable
  <2> QED
    BY <2>3 DEF Quiescent
<1>2. ASSUME NEW x \in Nodes, NEW r \in Runs, Run(x, r) \/ Done(x, r) PROVE FALSE
  BY <1>2, <1>t DEF TokenRests, Run, Done
<1>3. ASSUME NEW x \in Nodes, NEW r \in Runs, RetryWait(x, r) \/ Exhausted(x, r) PROVE FALSE
  BY <1>3, <1>t DEF TokenRests, RetryWait, Exhausted
<1>4. ASSUME NEW x \in Nodes, NEW r \in Runs,
             \/ StartLands(x, r) \/ RunRetries(x, r) \/ RunHalts(x, r) \/ DoneLands(x, r) \/ RetryLands(x, r)
             \/ \E live \in SUBSET Outputs(x) : RunSucceeds(x, r, live)
             \/ \E s \in {"waiting", "stopped"} : RunPauses(x, r, s)
      PROVE  FALSE
  <2>1. stage[<<x, r>>] \in InFlight
    BY <1>4 DEF StartLands, RunRetries, RunHalts, DoneLands, RetryLands, RunSucceeds, RunPauses, Settling, InFlight
  <2> QED
    BY <1>t, <2>1 DEF TokenRests
<1>5. ASSUME NEW e \in ArmedEdges, NEW v \in Variants, Arm(e, v) PROVE FALSE
  BY <1>5 DEF Arm, TakeSlot, Armable, Quiescent
<1>6. ASSUME NEW e \in ArmedEdges, NEW v \in Variants, ArmLands(e, v) PROVE FALSE
  BY <1>6 DEF ArmLands, Quiescent
<1>7. ASSUME NEW x \in Nodes, Skip(x) PROVE FALSE
  <2>1. Deciding /\ Skippable(x)
    BY <1>7 DEF Skip, TakeEmpties, Skippable
  <2> QED
    BY <2>1 DEF Quiescent
<1>8. ASSUME NEW x \in Nodes, Clear(x) \/ SkipLands(x) PROVE FALSE
  BY <1>8 DEF Clear, Clearable, SkipLands, Quiescent
<1> QED
  BY <1>1, <1>2, <1>3, <1>4, <1>5, <1>6, <1>7, <1>8, Zenon DEF Fire, Land

\* An empty is only ever on a tree edge, and only a halt leaves a token as halted.
EmptyOnTree == \A e \in Edges : empty[e] > 0 => e \in TreeEdges
HaltedHalts == \A a \in Activations : stage[a] = "halted" => halt

\* Tokens are put on empty places along tree edges only.
LEMMA EmptyOnTreeStep ==
  ASSUME TypeOK, EmptyOnTree, [Next]_vars
  PROVE  EmptyOnTree'
<1> USE DEF control, runSide, inputSide, skipSide
<1> SUFFICES ASSUME NEW e \in Edges, empty'[e] > 0 PROVE e \in TreeEdges
  BY DEF EmptyOnTree, TreeEdges
<1>t. empty \in [Edges -> Nat]
  BY DEF TypeOK
<1>u. ASSUME empty'[e] <= empty[e] PROVE e \in TreeEdges
  BY <1>u, <1>t, TypeStep DEF EmptyOnTree, TypeOK
<1>v. ASSUME empty' = empty PROVE e \in TreeEdges
  BY <1>v, <1>t, <1>u
<1>1. ASSUME NEW x \in Nodes, NEW r \in Runs,
             \/ Start(x, r) \/ StartLands(x, r) \/ Run(x, r) \/ RunRetries(x, r) \/ RunHalts(x, r)
             \/ Done(x, r) \/ DoneLands(x, r) \/ RetryWait(x, r) \/ RetryLands(x, r) \/ Exhausted(x, r)
             \/ \E s \in {"waiting", "stopped"} : RunPauses(x, r, s)
      PROVE  e \in TreeEdges
  BY <1>1, <1>v DEF Start, StartLands, Run, RunRetries, RunHalts, Done, DoneLands, RetryWait, RetryLands,
                    Exhausted, RunPauses
<1>2. ASSUME NEW x \in Nodes, NEW r \in Runs, NEW live \in SUBSET Outputs(x), RunSucceeds(x, r, live)
      PROVE  e \in TreeEdges
  <2>1. empty' = Plus(empty, EmptyEdges(x, live))
    BY <1>2 DEF RunSucceeds
  <2>2. e \notin EmptyEdges(x, live) => empty'[e] = empty[e]
    BY <2>1, <1>t DEF Plus
  <2>3. e \in EmptyEdges(x, live) => e \in TreeEdges
    BY DEF EmptyEdges, Outgoing, Cyclic
  <2> QED
    BY <2>2, <2>3, <1>u, <1>t
<1>3. ASSUME NEW d \in ArmedEdges, NEW v \in Variants, Arm(d, v) PROVE e \in TreeEdges
  BY <1>3, <1>t, <1>u DEF Arm, Minus
<1>4. ASSUME NEW d \in ArmedEdges, NEW v \in Variants, ArmLands(d, v) PROVE e \in TreeEdges
  BY <1>4, <1>v DEF ArmLands
<1>5. ASSUME NEW x \in Nodes, Skip(x) PROVE e \in TreeEdges
  <2>1. empty' = empty \/ \E d \in Incoming(x) : empty' = Minus(empty, {d})
    BY <1>5 DEF Skip, TakeEmpties
  <2> QED
    BY <2>1, <1>t, <1>u DEF Minus
<1>6. ASSUME NEW x \in Nodes, SkipLands(x) PROVE e \in TreeEdges
  <2>1. empty' = empty \/ empty' = Plus(empty, Outgoing(x) \cap TreeEdges)
    BY <1>6 DEF SkipLands
  <2>2. e \in TreeEdges \/ empty'[e] = empty[e]
    BY <2>1, <1>t DEF Plus
  <2> QED
    BY <2>2, <1>t, <1>u
<1>7. ASSUME NEW x \in Nodes, Clear(x) PROVE e \in TreeEdges
  BY <1>7, <1>v DEF Clear
<1>8. CASE Abort \/ UNCHANGED vars
  BY <1>8, <1>v DEF Abort, vars
<1> QED
  BY <1>1, <1>2, <1>3, <1>4, <1>5, <1>6, <1>7, <1>8, Zenon DEF Next, Fire, Land

\* Nothing takes _halt away.
LEMMA HaltedHaltsStep ==
  ASSUME TypeOK, HaltedHalts, [Next]_vars
  PROVE  HaltedHalts'
<1> USE DEF control, runSide, inputSide, skipSide, Settle
<1> SUFFICES ASSUME NEW a \in Activations, stage'[a] = "halted" PROVE halt'
  BY DEF HaltedHalts, Activations, Runs
<1>t. stage \in [Activations -> Stages]
  BY DEF TypeOK
<1>u. ASSUME stage'[a] = stage[a], halt' = halt PROVE halt'
  BY <1>u DEF HaltedHalts
<1>1. ASSUME NEW x \in Nodes, NEW r \in Runs,
             \/ Start(x, r) \/ StartLands(x, r) \/ Run(x, r) \/ RunRetries(x, r)
             \/ Done(x, r) \/ DoneLands(x, r) \/ RetryWait(x, r) \/ RetryLands(x, r) \/ Exhausted(x, r)
             \/ \E s \in {"waiting", "stopped"} : RunPauses(x, r, s)
             \/ \E live \in SUBSET Outputs(x) : RunSucceeds(x, r, live)
      PROVE  halt'
  <2>1. halt' = halt /\ \E s \in Stages \ {"halted"} : stage' = [stage EXCEPT ![<<x, r>>] = s]
    BY <1>1 DEF Start, StartLands, Run, RunRetries, Done, DoneLands, RetryWait, RetryLands, Exhausted,
                RunPauses, RunSucceeds, Stages, UnitStages
  <2>2. stage'[a] = stage[a]
    BY <2>1, <1>t
  <2> QED
    BY <2>1, <2>2, <1>u
<1>2. ASSUME NEW x \in Nodes, NEW r \in Runs, RunHalts(x, r) PROVE halt'
  BY <1>2 DEF RunHalts
<1>3. ASSUME NEW d \in ArmedEdges, NEW v \in Variants, Arm(d, v) \/ ArmLands(d, v) PROVE halt'
  BY <1>3, <1>u DEF Arm, ArmLands
<1>4. ASSUME NEW x \in Nodes, Skip(x) \/ SkipLands(x) \/ Clear(x) PROVE halt'
  BY <1>4, <1>u DEF Skip, SkipLands, Clear
<1>5. CASE Abort \/ UNCHANGED vars
  BY <1>5, <1>u DEF Abort, vars
<1> QED
  BY <1>1, <1>2, <1>3, <1>4, <1>5, Zenon DEF Next, Fire, Land

\* A retry rests in a net nothing stopped only if its node is busy, and then it does not rest.
LEMMA RestingRetry ==
  ASSUME TypeOK, OneRunPerNode, Quiescent, ~halt, ~closed, ~pause, NEW x \in Nodes, NEW r \in Runs
  PROVE  stage[<<x, r>>] # "retry"
<1> SUFFICES ASSUME stage[<<x, r>>] = "retry" PROVE FALSE
  OBVIOUS
<1>1. Starting /\ Deciding /\ Delivering
  BY DEF Starting, Deciding, Delivering
<1>2. \A q \in Runs : TokenRests(x, q)
  BY DEF Quiescent
<1>3. idle[x] = 0
  BY <1>1, <1>2 DEF TokenRests, TypeOK
<1>4. Cardinality(RunsIn(x, BusyStages)) = 1
  <2>1. idle[x] + Cardinality(RunsIn(x, BusyStages)) = 1
    BY DEF OneRunPerNode
  <2>2. Cardinality(RunsIn(x, BusyStages)) \in Nat
    BY FiniteRuns, FS_Subset, FS_CardinalityType DEF RunsIn
  <2> QED
    BY <1>3, <2>1, <2>2
<1>5. RunsIn(x, BusyStages) # {}
  BY <1>4, FS_EmptySet
<1>6. PICK q \in Runs : stage[<<x, q>>] \in BusyStages
  BY <1>5 DEF RunsIn
<1> QED
  BY <1>1, <1>2, <1>6 DEF TokenRests, InFlight, BusyStages

\* What rests, from what each rule would otherwise still do.
LEMMA RestIsDrained ==
  ASSUME TypeOK, OneRunPerNode, EmptyOnTree, HaltedHalts
  PROVE  QuiescentIsDrained
<1> SUFFICES ASSUME ~halt, ~closed, Quiescent
             PROVE  /\ \A a \in Activations : stage[a] \in {"none", "done", "waiting", "stopped", "retry"}
                    /\ ~pause => \A a \in Activations : stage[a] # "retry"
                    /\ \A e \in Edges : Forms[Conn[e].to] = "direct" => empty[e] = 0
                    /\ \A e \in Edges : Forms[Conn[e].to] = "or" => data[e] = 0 /\ empty[e] = 0
  BY DEF QuiescentIsDrained
<1>d. Deciding /\ Delivering
  BY DEF Deciding, Delivering
<1>p. \A a \in Activations : \E x \in Nodes, r \in Runs : a = <<x, r>>
  BY DEF Activations
<1>1. ASSUME NEW a \in Activations
      PROVE  stage[a] \in {"none", "done", "waiting", "stopped", "retry"}
  <2>1. PICK x \in Nodes, r \in Runs : a = <<x, r>>
    BY <1>p
  <2>2. TokenRests(x, r)
    BY DEF Quiescent
  <2>3. stage[a] \in Stages /\ stage[a] # "halted"
    BY DEF TypeOK, HaltedHalts
  <2> QED
    BY <1>d, <2>1, <2>2, <2>3 DEF TokenRests, Stages, UnitStages, InFlight
<1>2. ASSUME ~pause, NEW a \in Activations PROVE stage[a] # "retry"
  BY <1>p, <1>2, RestingRetry
<1>3. ASSUME NEW e \in Edges, Forms[Conn[e].to] = "direct" PROVE empty[e] = 0
  <2> SUFFICES ASSUME empty[e] > 0 PROVE FALSE
    BY DEF TypeOK
  <2>1. e \in TreeEdges /\ e \in Incoming(Conn[e].to) /\ Conn[e].to \in Nodes
    BY GraphAssumption DEF EmptyOnTree, Incoming
  <2>2. HasSkip(Conn[e].to)
    BY <1>3, <2>1 DEF HasSkip
  <2>3. Skippable(Conn[e].to)
    BY <1>3, <2>1, <2>2 DEF Skippable
  <2> QED
    BY <1>d, <2>1, <2>3 DEF Quiescent
<1>4. ASSUME NEW e \in Edges, Forms[Conn[e].to] = "or" PROVE data[e] = 0 /\ empty[e] = 0
  <2>1. e \in ArmedEdges
    BY <1>4 DEF ArmedEdges
  <2>2. SlotOf(e) \notin Slots
    BY <1>4, SlotOwner DEF SlotOf, JoinNodes
  <2>3. ~Armable(e, "data") /\ ~Armable(e, "empty")
    BY <1>d, <2>1 DEF Quiescent, Variants
  <2> QED
    BY <2>2, <2>3 DEF Armable, TypeOK
<1> QED
  BY <1>1, <1>2, <1>3, <1>4

\* The encoder finds only what it can write: whatever order the stop, the retries and
\* the deliveries came in, a paused or completed net holds no token between two places,
\* no untaken empty of a direct node or an OR round, and a retry only under a pause.
THEOREM RestsDrained == Spec => []QuiescentIsDrained
<1>1. Init => EmptyOnTree /\ HaltedHalts
  BY DEF Init, EmptyOnTree, HaltedHalts
<1>2. TypeOK /\ EmptyOnTree /\ [Next]_vars => EmptyOnTree'
  BY EmptyOnTreeStep
<1>3. TypeOK /\ HaltedHalts /\ [Next]_vars => HaltedHalts'
  BY HaltedHaltsStep
<1>4. TypeOK /\ OneRunPerNode /\ EmptyOnTree /\ HaltedHalts => QuiescentIsDrained
  BY RestIsDrained
<1> QED
  BY <1>1, <1>2, <1>3, <1>4, TypeCorrect, NodeMutex, PTL DEF Spec

-----------------------------------------------------------------------------
(***************************************************************************)
(* What the walks over the graph compute.                                  *)
(***************************************************************************)

\* A set of naturals that is not empty has a least element.
LEMMA LeastNat ==
  ASSUME NEW T \in SUBSET Nat, T # {}
  PROVE  \E x \in T : \A y \in T : x <= y
<1>1. PICK x \in T : \A y \in T : ~ (<<y, x>> \in OpToRel(<, Nat))
  BY NatLessThanWellFounded, WFMin, Zenon
<1>2. \A y \in T : ~ (y < x)
  BY <1>1, Zenon DEF OpToRel
<1> QED
  BY <1>2

\* Induction over the naturals, stated of the set of numbers a claim holds for.
LEMMA NatStep ==
  ASSUME NEW S, 0 \in S, \A k \in Nat : k \in S => k + 1 \in S
  PROVE  \A k \in Nat : k \in S
<1> DEFINE T == {k \in Nat : k \notin S}
<1> SUFFICES ASSUME T # {} PROVE FALSE
  OBVIOUS
<1>1. PICK x \in T : \A y \in T : x <= y
  BY LeastNat
<1>2. x \in Nat /\ x # 0 /\ x - 1 \in Nat
  BY <1>1
<1>3. x - 1 \in S
  BY <1>1, <1>2
<1>4. x \in S
  BY <1>2, <1>3
<1> QED
  BY <1>1, <1>4

Hops == Cardinality(Nodes)
Onward(R) == R \cup (Succ(R) \ {})

\* A walk is the last of a sequence of sets, each a step wider than the one before.
LEMMA WalkSteps ==
  ASSUME NEW S, Hops \in Nat
  PROVE  \E f : /\ f[0] = S \ {}
                /\ \A i \in 1 .. Hops : f[i] = Onward(f[i - 1])
                /\ Walk(S, {}) = f[Hops]
<1> DEFINE Is(f, k) == f = [i \in 0 .. k |-> IF i = 0 THEN S \ {} ELSE Onward(f[i - 1])]
           D == {k \in Nat : \E f : Is(f, k)}
<1>1. 0 \in D
  <2> DEFINE f == [i \in 0 .. 0 |-> S \ {}]
  <2>1. Is(f, 0)
    OBVIOUS
  <2> QED
    BY <2>1
<1>2. ASSUME NEW k \in Nat, k \in D PROVE k + 1 \in D
  <2>1. PICK f : Is(f, k)
    BY <1>2
  <2> DEFINE h == [i \in 0 .. k + 1 |-> IF i = 0 THEN S \ {} ELSE Onward(f[i - 1])]
  <2>2. \A i \in 0 .. k : h[i] = f[i]
    <3>1. \A i \in 0 .. k : i \in 0 .. k + 1
      OBVIOUS
    <3> QED
      BY <2>1, <3>1, Zenon
  <2>3. \A i \in 0 .. k + 1 : i # 0 => i - 1 \in 0 .. k
    OBVIOUS
  <2>4. Is(h, k + 1)
    BY <2>2, <2>3, Zenon
  <2>5. \E f1 : Is(f1, k + 1)
    <3> HIDE DEF h
    <3> QED
      BY <2>4, Zenon
  <2>6. k + 1 \in Nat
    OBVIOUS
  <2> QED
    BY <2>5, <2>6, Zenon
<1>3. \A k \in Nat : k \in D
  <2> HIDE DEF D
  <2> QED
    BY <1>1, <1>2, NatStep, Zenon
<1>4. \E f : Is(f, Hops)
  BY <1>3
<1> DEFINE g == CHOOSE f : Is(f, Hops)
<1>5. Is(g, Hops)
  BY <1>4, Zenon
<1>6. Walk(S, {}) = g[Hops]
  BY Zenon DEF Walk, Hops, Onward
<1> HIDE DEF g
<1>7. \A i \in 0 .. Hops : g[i] = IF i = 0 THEN S \ {} ELSE Onward(g[i - 1])
  BY <1>5, Zenon
<1>8. 0 \in 0 .. Hops /\ \A i \in 1 .. Hops : i \in 0 .. Hops /\ i # 0
  OBVIOUS
<1> QED
  BY <1>6, <1>7, <1>8, Zenon

Closed(R) == \A e \in Edges : Conn[e].from \in R => Conn[e].to \in R

\* A walk holds where it started and every edge out of what it holds: each step that
\* does not close it reaches another node, and there are only so many.
LEMMA WalkIsClosed ==
  ASSUME NEW S \in SUBSET Nodes
  PROVE  S \subseteq Walk(S, {}) /\ Closed(Walk(S, {})) /\ Walk(S, {}) \subseteq Nodes
<1>1. Hops \in Nat /\ IsFiniteSet(Nodes)
  BY GraphAssumption, FS_CardinalityType DEF Hops
<1>2. PICK f : /\ f[0] = S \ {}
               /\ \A i \in 1 .. Hops : f[i] = Onward(f[i - 1])
               /\ Walk(S, {}) = f[Hops]
  BY <1>1, WalkSteps
<1> DEFINE Wide(R, n) == /\ S \subseteq R /\ R \subseteq Nodes
                         /\ Closed(R) \/ Cardinality(R) > n
           D == {n \in Nat : n <= Hops => Wide(f[n], n)}
<1>3. 0 \in D
  <2>1. f[0] = S
    BY <1>2
  <2>2. Closed(S) \/ Cardinality(S) > 0
    <3>1. CASE S = {}
      BY <3>1 DEF Closed
    <3>2. CASE S # {}
      BY <3>2, <1>1, FS_Subset, FS_EmptySet, FS_CardinalityType
    <3> QED
      BY <3>1, <3>2
  <2> QED
    BY <2>1, <2>2
<1>4. ASSUME NEW n \in Nat, n \in D PROVE n + 1 \in D
  <2> SUFFICES ASSUME n + 1 <= Hops PROVE Wide(f[n + 1], n + 1)
    OBVIOUS
  <2> DEFINE R == f[n]
  <2>1. Wide(R, n)
    BY <1>1, <1>4
  <2>2. f[n + 1] = Onward(R)
    <3>1. n + 1 \in 1 .. Hops /\ (n + 1) - 1 = n
      BY <1>1
    <3> QED
      BY <1>2, <3>1
  <2> HIDE DEF R
  <2>3. \A y : y \in Onward(R) <=> y \in R \/ \E e \in Edges : Conn[e].from \in R /\ y = Conn[e].to
    BY DEF Onward, Succ
  <2>4. S \subseteq Onward(R) /\ Onward(R) \subseteq Nodes
    BY <2>1, <2>3, GraphAssumption
  <2>5. Closed(Onward(R)) \/ Cardinality(Onward(R)) > n + 1
    <3>1. CASE Closed(R)
      <4>1. Onward(R) = R
        BY <2>3, <3>1 DEF Closed
      <4> QED
        BY <3>1, <4>1
    <3>2. CASE ~Closed(R)
      <4>1. PICK e \in Edges : Conn[e].from \in R /\ Conn[e].to \notin R
        BY <3>2 DEF Closed
      <4>2. R \cup {Conn[e].to} \subseteq Onward(R)
        BY <2>3, <4>1
      <4>3. IsFiniteSet(R) /\ IsFiniteSet(Onward(R))
        BY <1>1, <2>1, <2>4, FS_Subset
      <4>4. Cardinality(R \cup {Conn[e].to}) = Cardinality(R) + 1
        BY <4>1, <4>3, FS_AddElement
      <4>5. Cardinality(R \cup {Conn[e].to}) <= Cardinality(Onward(R))
        BY <4>2, <4>3, FS_Subset
      <4>6. Cardinality(R) \in Nat /\ Cardinality(Onward(R)) \in Nat /\ Cardinality(R) > n
        BY <2>1, <3>2, <4>3, FS_CardinalityType
      <4> QED
        BY <4>4, <4>5, <4>6
    <3> QED
      BY <3>1, <3>2
  <2> QED
    BY <2>2, <2>4, <2>5
<1>5. \A n \in Nat : n \in D
  <2> HIDE DEF D
  <2> QED
    BY <1>3, <1>4, NatStep, Zenon
<1>6. Wide(f[Hops], Hops)
  BY <1>1, <1>5
<1>7. ~ (Cardinality(f[Hops]) > Hops)
  <2>1. Cardinality(f[Hops]) <= Hops /\ Cardinality(f[Hops]) \in Nat
    BY <1>1, <1>6, FS_Subset, FS_CardinalityType DEF Hops
  <2> QED
    BY <1>1, <2>1
<1> QED
  BY <1>2, <1>6, <1>7

\* What the start nodes reach.
LEMMA ReachableIsClosed ==
  /\ StartNodes \subseteq Reachable /\ Trigger \in Reachable /\ Reachable \subseteq Nodes
  /\ \A e \in Edges : Conn[e].from \in Reachable => Conn[e].to \in Reachable
BY GraphAssumption, WalkIsClosed DEF Reachable, Closed

-----------------------------------------------------------------------------
(***************************************************************************)
(* Graphs for which k is left as requested: no cycle, and no input that    *)
(* two edges feed.                                                         *)
(***************************************************************************)
Plain == Cyclic = {} /\ \A x \in Nodes : ~MultiProducer(x)

\* Two elements or more are at least two.
LEMMA TwoAreMore ==
  ASSUME NEW S, IsFiniteSet(S), NEW a \in S, NEW b \in S, a # b
  PROVE  Cardinality(S) > 1
<1>1. Cardinality({a} \cup {b}) = Cardinality({a}) + 1 /\ Cardinality({a}) = 1
  BY FS_AddElement, FS_Singleton
<1>2. {a} \cup {b} \subseteq S
  OBVIOUS
<1>3. Cardinality({a} \cup {b}) <= Cardinality(S) /\ Cardinality(S) \in Nat
  BY <1>2, FS_Subset, FS_CardinalityType
<1> QED
  BY <1>1, <1>3

\* More than one element are two that differ.
LEMMA OneOrTwo ==
  ASSUME NEW S, IsFiniteSet(S), Cardinality(S) > 1
  PROVE  \E a, b \in S : a # b
<1>1. Cardinality(S) \in Nat
  BY FS_CardinalityType
<1>2. PICK a \in S : TRUE
  BY <1>1, FS_EmptySet
<1>3. Cardinality(S \ {a}) = Cardinality(S) - 1 /\ IsFiniteSet(S \ {a})
  BY <1>2, FS_RemoveElement
<1>4. S \ {a} # {}
  BY <1>1, <1>3, FS_EmptySet
<1> QED
  BY <1>2, <1>4

\* A node has finitely many input edges and inputs, dead ones included.
LEMMA FiniteInputs ==
  ASSUME NEW x \in Nodes
  PROVE  IsFiniteSet(Incoming(x)) /\ IsFiniteSet(InputIndexes[x])
<1>1. IsFiniteSet(Incoming(x))
  BY GraphAssumption, FS_Subset DEF Incoming
<1>2. IsFiniteSet(WiredInputs(x)) /\ WiredInputs(x) \subseteq Nat
  <2> DEFINE inp == [e \in Incoming(x) |-> Conn[e].inp]
  <2>1. inp \in Surjection(Incoming(x), WiredInputs(x))
    BY DEF Surjection, WiredInputs
  <2>2. WiredInputs(x) \subseteq Nat
    BY GraphAssumption DEF WiredInputs, Incoming
  <2> HIDE DEF inp
  <2> QED
    BY <1>1, <2>1, <2>2, FS_Surjection
<1> DEFINE Below == {0 .. j : j \in WiredInputs(x)}
<1>3. IsFiniteSet(Below)
  <2> DEFINE down == [j \in WiredInputs(x) |-> 0 .. j]
  <2>1. down \in Surjection(WiredInputs(x), Below)
    BY DEF Surjection
  <2> HIDE DEF down, Below
  <2> QED
    BY <1>2, <2>1, FS_Surjection
<1>4. \A B \in Below : IsFiniteSet(B)
  BY <1>2, FS_Interval
<1>5. IsFiniteSet(UNION Below)
  BY <1>3, <1>4, FS_UNION
<1>6. DeadInputs(x) \subseteq UNION Below
  <2>1. ASSUME NEW i \in DeadInputs(x) PROVE i \in UNION Below
    <3>1. PICK j \in WiredInputs(x) : i < j
      BY DEF DeadInputs
    <3>2. i \in Nat /\ j \in Nat
      BY <1>2, GraphAssumption DEF DeadInputs
    <3>3. i \in 0 .. j
      BY <3>1, <3>2
    <3> QED
      BY <3>3
  <2> QED
    BY <2>1
<1>7. IsFiniteSet(DeadInputs(x))
  BY <1>5, <1>6, FS_Subset
<1>8. IsFiniteSet(WiredInputs(x) \cup DeadInputs(x))
  BY <1>2, <1>7, FS_Union
<1> QED
  BY <1>1, <1>8 DEF InputIndexes

\* What such a graph looks like to the gadgets.
LEMMA PlainShape ==
  ASSUME Plain
  PROVE  /\ TreeEdges = Edges
         /\ \A d, e \in Edges : SlotOf(d) = SlotOf(e) => d = e
         /\ \A x \in Nodes : Forms[x] # "or"
         /\ \A d, e \in Edges : Conn[d].to = Conn[e].to /\ Forms[Conn[d].to] = "direct" => d = e
         /\ \A e \in Edges : SlotOf(e) \in Slots <=> Conn[e].to \in JoinNodes
         /\ \A x \in JoinNodes : \E e \in Incoming(x) : SlotOf(e) \in SlotsOf[x]
<1>c. \A e \in Edges : Conn[e].from \in Nodes /\ Conn[e].to \in Nodes /\ Conn[e].inp \in Nat
  BY GraphAssumption
<1>1. TreeEdges = Edges
  <2>1. \A e \in Edges \ TreeEdges : Conn[e].from \in Cyclic
    BY <1>c DEF Cyclic
  <2> QED
    BY <2>1 DEF Plain, TreeEdges
<1>2. ASSUME NEW d \in Edges, NEW e \in Edges, SlotOf(d) = SlotOf(e) PROVE d = e
  <2> DEFINE x == Conn[d].to
             i == Conn[d].inp
             feeds == {a \in Incoming(x) : Conn[a].inp = i}
  <2>1. x \in Nodes /\ d \in feeds /\ e \in feeds /\ i \in WiredInputs(x)
    BY <1>c, <1>2 DEF SlotOf, Incoming, WiredInputs
  <2>2. IsFiniteSet(feeds)
    BY <2>1, FiniteInputs, FS_Subset
  <2>3. ~ (Cardinality(feeds) > 1)
    BY <2>1 DEF Plain, MultiProducer
  <2> HIDE DEF feeds
  <2> QED
    BY <2>1, <2>2, <2>3, TwoAreMore
<1>3. ASSUME NEW x \in Nodes PROVE Forms[x] # "or"
  <2> SUFFICES ASSUME Forms[x] = "or" PROVE FALSE
    OBVIOUS
  <2>1. Cardinality(InputIndexes[x]) <= 1 /\ Cardinality(Incoming(x) \cap TreeEdges) > 1
    BY DEF Forms, Form
  <2>2. Incoming(x) \cap TreeEdges = Incoming(x)
    BY <1>1 DEF Incoming
  <2>3. PICK d, e \in Incoming(x) : d # e
    BY <2>1, <2>2, FiniteInputs, OneOrTwo
  <2>4. Conn[d].inp \in InputIndexes[x] /\ Conn[e].inp \in InputIndexes[x]
    BY DEF InputIndexes, WiredInputs
  <2>5. Cardinality(InputIndexes[x]) \in Nat
    BY FiniteInputs, FS_CardinalityType
  <2>6. Conn[d].inp = Conn[e].inp
    BY <2>1, <2>4, <2>5, FiniteInputs, TwoAreMore
  <2> QED
    BY <1>2, <2>3, <2>6 DEF SlotOf, Incoming
<1>4. ASSUME NEW d \in Edges, NEW e \in Edges, Conn[d].to = Conn[e].to, Forms[Conn[d].to] = "direct"
      PROVE  d = e
  <2> DEFINE x == Conn[d].to
  <2>1. x \in Nodes /\ d \in Incoming(x) /\ e \in Incoming(x)
    BY <1>c, <1>4 DEF Incoming
  <2>2. Cardinality(Incoming(x)) <= 1
    BY <1>4, <2>1 DEF Forms, Form
  <2>3. Cardinality(Incoming(x)) \in Nat /\ IsFiniteSet(Incoming(x))
    BY <2>1, FiniteInputs, FS_CardinalityType
  <2> QED
    BY <2>1, <2>2, <2>3, TwoAreMore
<1>5. ASSUME NEW e \in Edges PROVE SlotOf(e) \in Slots <=> Conn[e].to \in JoinNodes
  <2>1. SlotOf(e) \in Slots => Conn[e].to \in JoinNodes
    BY SlotOwner DEF SlotOf
  <2>2. Conn[e].inp \in InputIndexes[Conn[e].to]
    BY <1>c DEF InputIndexes, WiredInputs, Incoming
  <2>3. Conn[e].to \in JoinNodes => SlotOf(e) \in Slots
    BY <1>c, <2>2 DEF SlotOf, Slots, SlotsOf
  <2> QED
    BY <2>1, <2>3
<1>6. ASSUME NEW x \in JoinNodes PROVE \E e \in Incoming(x) : SlotOf(e) \in SlotsOf[x]
  <2>1. x \in Nodes /\ Forms[x] \in {"join", "choose-branch"}
    BY DEF JoinNodes
  <2>2. Incoming(x) # {}
    <3> SUFFICES ASSUME Incoming(x) = {} PROVE FALSE
      OBVIOUS
    <3>1. InputIndexes[x] = {}
      BY <2>1 DEF InputIndexes, WiredInputs, DeadInputs
    <3>2. Cardinality(InputIndexes[x]) = 0 /\ Cardinality(Incoming(x)) = 0
      BY <3>1, FS_EmptySet
    <3>3. Incoming(x) \cap TreeEdges = {}
      OBVIOUS
    <3>4. Cardinality(Incoming(x) \cap TreeEdges) = 0
      BY <3>3, FS_EmptySet
    <3> QED
      BY <2>1, <3>2, <3>4 DEF Forms, Form
  <2>3. PICK e \in Incoming(x) : TRUE
    BY <2>2
  <2>4. Conn[e].inp \in InputIndexes[x] /\ Conn[e].to = x
    BY <2>1 DEF InputIndexes, WiredInputs, Incoming
  <2> QED
    BY <2>1, <2>4 DEF SlotOf, SlotsOf
<1> QED
  BY <1>1, <1>2, <1>3, <1>4, <1>5, <1>6

-----------------------------------------------------------------------------
(***************************************************************************)
(* The accounts of a plain graph's net: what an edge has been given covers *)
(* what is on it, in the slot it feeds, and decided of the node behind it. *)
(* Landed counts the decisions whose slots are refunded, Given those whose *)
(* tokens are on the outgoing edges.                                       *)
(***************************************************************************)
LandedStages == Stages \ {"none", "starting"}
Passed == {"routed", "refunding", "done"}

Landed(x) == Cardinality(RunsIn(x, LandedStages)) + skipped[x]
Given(x) == Cardinality(RunsIn(x, Passed)) + skipped[x]
Supply(e) == IF Conn[e].from \in Reachable THEN Given(Conn[e].from) ELSE 1

\* A node nothing reaches is never decided, any other once.
NodeAccount(x) ==
  IF x \in Reachable THEN Landed(x) + Refunding(x) <= 1
                     ELSE Started(x) = {} /\ x \notin skipping

EdgeAccount(e) ==
  LET x == Conn[e].to IN
  IF x \notin Reachable
    THEN data[e] = 0 /\ empty[e] = 0 /\ (SlotOf(e) \in Slots => free[SlotOf(e)] = 1)
    ELSE IF SlotOf(e) \in Slots
           THEN Landed(x) + data[e] + empty[e] + 1 <= Supply(e) + free[SlotOf(e)]
           ELSE Landed(x) + Refunding(x) + data[e] + empty[e] <= Supply(e)

\* The trigger's synthetic input.
SourceAccount ==
  Forms[Trigger] = "direct" /\ Incoming(Trigger) = {}
    => Landed(Trigger) + Refunding(Trigger) + data[0] <= 1

Accounts ==
  /\ \A x \in Nodes : NodeAccount(x)
  /\ \A e \in Edges : EdgeAccount(e)
  /\ SourceAccount

(***************************************************************************)
(* Where no cycle leads back, the primary start node is fed by nothing     *)
(* another start node reaches: only the primary one is given an activation.*)
(***************************************************************************)
PrimaryIsFirst == Cyclic = {} => \A e \in Incoming(Trigger) : Conn[e].from \notin Reachable

\* What is given has landed.
LEMMA CountType ==
  ASSUME TypeOK, NEW x \in Nodes
  PROVE  /\ Landed(x) \in Nat /\ Given(x) \in Nat /\ Refunding(x) \in Nat
         /\ Given(x) <= Landed(x)
<1>1. IsFiniteSet(RunsIn(x, LandedStages)) /\ IsFiniteSet(RunsIn(x, Passed))
  BY FiniteRuns, FS_Subset DEF RunsIn
<1>2. RunsIn(x, Passed) \subseteq RunsIn(x, LandedStages)
  BY DEF RunsIn, Passed, LandedStages, Stages, UnitStages
<1>3. Cardinality(RunsIn(x, Passed)) <= Cardinality(RunsIn(x, LandedStages))
  BY <1>1, <1>2, FS_Subset
<1>4. Cardinality(RunsIn(x, Passed)) \in Nat /\ Cardinality(RunsIn(x, LandedStages)) \in Nat
  BY <1>1, FS_CardinalityType
<1>5. skipped[x] \in Nat
  BY DEF TypeOK
<1> QED
  BY <1>3, <1>4, <1>5, RefundingType DEF Landed, Given

\* What moving one activation does to the counts.
LEMMA CountMove ==
  ASSUME TypeOK, NEW x \in Nodes, NEW r \in Runs, NEW s \in Stages,
         stage' = [stage EXCEPT ![<<x, r>>] = s], UNCHANGED skipSide
  PROVE  /\ Landed(x)' \in Nat /\ Given(x)' \in Nat /\ Refunding(x)' \in Nat
         /\ \A y \in Nodes : y # x => /\ Landed(y)' = Landed(y) /\ Given(y)' = Given(y)
                                      /\ Refunding(y)' = Refunding(y)
         /\ Landed(x)' + Bit(stage[<<x, r>>] \in LandedStages) = Landed(x) + Bit(s \in LandedStages)
         /\ Given(x)' + Bit(stage[<<x, r>>] \in Passed) = Given(x) + Bit(s \in Passed)
         /\ Refunding(x)' + Bit(stage[<<x, r>>] = "starting") = Refunding(x) + Bit(s = "starting")
<1>0. skipping' = skipping /\ skipped' = skipped
  BY DEF skipSide
<1>1. ASSUME NEW y \in Nodes
      PROVE  RunsMove(x, r, s, LandedStages, y) /\ RunsMove(x, r, s, Passed, y)
  BY <1>1, RunsInMove
<1>2. \A y \in Nodes : skipped[y] \in Nat
  BY DEF TypeOK
<1>3. ASSUME NEW y \in Nodes, y # x
      PROVE  /\ Landed(y)' = Landed(y) /\ Given(y)' = Given(y) /\ Refunding(y)' = Refunding(y)
  <2>1. RunsIn(y, LandedStages)' = RunsIn(y, LandedStages) /\ RunsIn(y, Passed)' = RunsIn(y, Passed)
    BY <1>1, <1>3 DEF RunsMove
  <2>2. Refunding(y)' = Refunding(y)
    BY <1>0, <1>3, RefundingMove
  <2>3. Landed(y)' = Cardinality(RunsIn(y, LandedStages)') + skipped'[y]
        /\ Given(y)' = Cardinality(RunsIn(y, Passed)') + skipped'[y]
    BY DEF Landed, Given
  <2> QED
    BY <1>0, <2>1, <2>2, <2>3 DEF Landed, Given
<1>4. /\ Cardinality(RunsIn(x, LandedStages)) \in Nat /\ Cardinality(RunsIn(x, LandedStages)') \in Nat
      /\ Cardinality(RunsIn(x, Passed)) \in Nat /\ Cardinality(RunsIn(x, Passed)') \in Nat
      /\ Cardinality(RunsIn(x, LandedStages)') + Bit(stage[<<x, r>>] \in LandedStages)
           = Cardinality(RunsIn(x, LandedStages)) + Bit(s \in LandedStages)
      /\ Cardinality(RunsIn(x, Passed)') + Bit(stage[<<x, r>>] \in Passed)
           = Cardinality(RunsIn(x, Passed)) + Bit(s \in Passed)
  BY <1>1 DEF RunsMove
<1>5. Refunding(x)' + Bit(stage[<<x, r>>] = "starting") = Refunding(x) + Bit(s = "starting")
  <2>1. Refunding(x) \in Nat /\ Refunding(x)' \in Nat
    BY RefundingType
  <2>2. /\ (stage[<<x, r>>] = "starting" <=> s = "starting") => Refunding(x)' = Refunding(x)
        /\ stage[<<x, r>>] # "starting" /\ s = "starting" => Refunding(x)' = Refunding(x) + 1
        /\ stage[<<x, r>>] = "starting" /\ s # "starting" => Refunding(x)' + 1 = Refunding(x)
    BY <1>0, RefundingMove
  <2> QED
    BY <2>1, <2>2 DEF Bit
<1>6. Landed(x)' = Cardinality(RunsIn(x, LandedStages)') + skipped'[x]
      /\ Given(x)' = Cardinality(RunsIn(x, Passed)') + skipped'[x]
  BY DEF Landed, Given
<1> HIDE DEF LandedStages, Passed
<1>7. Bit(stage[<<x, r>>] \in LandedStages) \in Nat /\ Bit(s \in LandedStages) \in Nat
      /\ Bit(stage[<<x, r>>] \in Passed) \in Nat /\ Bit(s \in Passed) \in Nat
  BY DEF Bit
<1>8. Landed(x)' + Bit(stage[<<x, r>>] \in LandedStages) = Landed(x) + Bit(s \in LandedStages)
  BY <1>0, <1>2, <1>4, <1>6, <1>7 DEF Landed
<1>9. Given(x)' + Bit(stage[<<x, r>>] \in Passed) = Given(x) + Bit(s \in Passed)
  BY <1>0, <1>2, <1>4, <1>6, <1>7 DEF Given
<1>10. Landed(x)' \in Nat /\ Given(x)' \in Nat /\ Refunding(x)' \in Nat
  BY <1>0, <1>2, <1>4, <1>6, RefundingType
<1> QED
  BY <1>3, <1>5, <1>8, <1>9, <1>10

\* The graph does not change.
LEMMA Fixed ==
  /\ Reachable' = Reachable /\ Slots' = Slots
  /\ \A x : Forms[x]' = Forms[x] /\ Incoming(x)' = Incoming(x)
BY DEF Reachable, Walk, Succ, Edges, Slots, SlotsOf, JoinNodes, Forms, Incoming

\* The accounts of an edge bound what it was given by one.
LEMMA SupplyIsOne ==
  ASSUME TypeOK, Accounts, NEW e \in Edges
  PROVE  Supply(e) \in Nat /\ Supply(e) <= 1
<1>1. Conn[e].from \in Nodes
  BY GraphAssumption
<1>2. NodeAccount(Conn[e].from)
  BY <1>1 DEF Accounts
<1> QED
  BY <1>1, <1>2, CountType DEF Supply, NodeAccount

\* What the accounts come to after a step, the graph being what it was.
LEMMA NextAccounts ==
  ASSUME \A y \in Nodes : IF y \in Reachable THEN Landed(y)' + Refunding(y)' <= 1
                                             ELSE Started(y)' = {} /\ y \notin skipping',
         \A e \in Edges :
           IF Conn[e].to \notin Reachable
             THEN data'[e] = 0 /\ empty'[e] = 0 /\ (SlotOf(e) \in Slots => free'[SlotOf(e)] = 1)
             ELSE IF SlotOf(e) \in Slots
                    THEN Landed(Conn[e].to)' + data'[e] + empty'[e] + 1 <= Supply(e)' + free'[SlotOf(e)]
                    ELSE Landed(Conn[e].to)' + Refunding(Conn[e].to)' + data'[e] + empty'[e] <= Supply(e)',
         Forms[Trigger] = "direct" /\ Incoming(Trigger) = {}
           => Landed(Trigger)' + Refunding(Trigger)' + data'[0] <= 1
  PROVE  Accounts'
<1>1. \A y \in Nodes : NodeAccount(y)'
  BY Fixed DEF NodeAccount
<1>2. \A e \in Edges : EdgeAccount(e)'
  BY Fixed DEF EdgeAccount, SlotOf
<1>3. SourceAccount'
  BY Fixed DEF SourceAccount
<1> QED
  BY <1>1, <1>2, <1>3 DEF Accounts, Edges

\* What an edge has been given after a step.
LEMMA SupplyIs ==
  ASSUME NEW e \in Edges
  PROVE  Supply(e)' = IF Conn[e].from \in Reachable THEN Given(Conn[e].from)' ELSE 1
BY Fixed DEF Supply

\* A node that finds what decides it has been given it once, and is decided for the first time.
LEMMA FirstDecision ==
  ASSUME Plain, TypeOK, Accounts, \A p \in Slots : HoldsOne(p), NEW x \in Nodes,
         \/ x \in JoinNodes /\ Arrivals(x) # {}
         \/ /\ Forms[x] = "direct"
            /\ \/ \E e \in Incoming(x) : data[e] > 0 \/ empty[e] > 0
               \/ x = Trigger /\ Incoming(x) = {} /\ data[0] > 0
  PROVE  x \in Reachable /\ Landed(x) + Refunding(x) = 0
<1>t. /\ Landed(x) \in Nat /\ Refunding(x) \in Nat
      /\ \A e \in Edges : data[e] \in Nat /\ empty[e] \in Nat
      /\ data[0] \in Nat
  BY CountType DEF TypeOK
<1>1. CASE x \in JoinNodes /\ Arrivals(x) # {}
  <2>1. PICK e \in Incoming(x) : SlotOf(e) \in SlotsOf[x]
    BY <1>1, PlainShape
  <2> DEFINE p == SlotOf(e)
  <2>2. /\ p \in Slots /\ p[1] = x /\ e \in Edges /\ Conn[e].to = x
    BY <1>1, <2>1 DEF Slots, Incoming, SlotOf
  <2>3. PICK v \in Arrivals(x) : TRUE
    BY <1>1
  <2>4. v[p] \in Variants /\ ready[<<p, v[p]>>] > 0
    BY <2>1, <2>3 DEF Arrivals
  <2>5. /\ free[p] \in Nat /\ ready[<<p, "data">>] \in Nat /\ ready[<<p, "empty">>] \in Nat
        /\ Cardinality(Arriving(p)) \in Nat
    BY <2>2, ReadyType, ArrivingFinite, FS_CardinalityType
  <2>6. free[p] + ready[<<p, "data">>] + ready[<<p, "empty">>] + Refunding(x)
          + Cardinality(Arriving(p)) = 1
    BY <2>2 DEF HoldsOne
  <2>7. free[p] = 0 /\ Refunding(x) = 0
    BY <1>t, <2>4, <2>5, <2>6 DEF Variants
  <2>8. EdgeAccount(e)
    BY <2>2 DEF Accounts
  <2>9. x \in Reachable
    BY <2>2, <2>7, <2>8 DEF EdgeAccount
  <2>10. Landed(x) + data[e] + empty[e] + 1 <= Supply(e) + free[p]
    BY <2>2, <2>8, <2>9 DEF EdgeAccount
  <2>11. Supply(e) \in Nat /\ Supply(e) <= 1
    BY <2>2, SupplyIsOne
  <2> QED
    BY <1>t, <2>2, <2>7, <2>9, <2>10, <2>11
<1>2. ASSUME Forms[x] = "direct", NEW e \in Incoming(x), data[e] > 0 \/ empty[e] > 0
      PROVE  x \in Reachable /\ Landed(x) + Refunding(x) = 0
  <2>1. e \in Edges /\ Conn[e].to = x
    BY DEF Incoming
  <2>2. SlotOf(e) \notin Slots
    BY <1>2, <2>1, PlainShape DEF JoinNodes
  <2>3. EdgeAccount(e)
    BY <2>1 DEF Accounts
  <2>4. x \in Reachable
    BY <1>2, <1>t, <2>1, <2>3 DEF EdgeAccount
  <2>5. Landed(x) + Refunding(x) + data[e] + empty[e] <= Supply(e)
    BY <2>1, <2>2, <2>3, <2>4 DEF EdgeAccount
  <2>6. Supply(e) \in Nat /\ Supply(e) <= 1
    BY <2>1, SupplyIsOne
  <2> QED
    BY <1>2, <1>t, <2>1, <2>4, <2>5, <2>6
<1>3. CASE Forms[x] = "direct" /\ x = Trigger /\ Incoming(x) = {} /\ data[0] > 0
  <2>1. Landed(x) + Refunding(x) + data[0] <= 1
    BY <1>3 DEF Accounts, SourceAccount
  <2> QED
    BY <1>3, <1>t, <2>1, ReachableIsClosed
<1> QED
  BY <1>1, <1>2, <1>3

\* X_start decides its node, and takes one token off a direct node's edge.
LEMMA StartAccounts ==
  ASSUME Plain, TypeOK, Accounts, \A p \in Slots : HoldsOne(p), NEW x \in Nodes, NEW r \in Runs,
         Start(x, r)
  PROVE  Accounts'
<1>1. /\ stage[<<x, r>>] = "none" /\ stage' = [stage EXCEPT ![<<x, r>>] = "starting"]
      /\ UNCHANGED <<empty, free, skipSide>> /\ TakeActivation(x)
  BY DEF Start, Started
<1>2. /\ \A y \in Nodes : Landed(y)' = Landed(y) /\ Given(y)' = Given(y)
      /\ \A y \in Nodes : y # x => Refunding(y)' = Refunding(y)
      /\ Refunding(x)' = Refunding(x) + 1
  <2>1. "starting" \in Stages /\ "starting" \notin LandedStages /\ "starting" \notin Passed
        /\ "none" \notin LandedStages /\ "none" \notin Passed
    BY DEF Stages, UnitStages, LandedStages, Passed
  <2>2. /\ Landed(x)' \in Nat /\ Given(x)' \in Nat /\ Refunding(x)' \in Nat
        /\ \A y \in Nodes : y # x => /\ Landed(y)' = Landed(y) /\ Given(y)' = Given(y)
                                     /\ Refunding(y)' = Refunding(y)
        /\ Landed(x)' + Bit("none" \in LandedStages) = Landed(x) + Bit("starting" \in LandedStages)
        /\ Given(x)' + Bit("none" \in Passed) = Given(x) + Bit("starting" \in Passed)
        /\ Refunding(x)' + Bit("none" = "starting") = Refunding(x) + Bit("starting" = "starting")
    BY <1>1, <2>1, CountMove
  <2>3. Landed(x) \in Nat /\ Given(x) \in Nat /\ Refunding(x) \in Nat
    BY CountType
  <2> QED
    BY <2>1, <2>2, <2>3 DEF Bit
<1>3. \/ x \in JoinNodes /\ Arrivals(x) # {} /\ data' = data
      \/ /\ Forms[x] = "direct"
         /\ \E d \in InPlaces(x) : data[d] > 0 /\ data' = Minus(data, {d})
  BY <1>1, PlainShape DEF TakeActivation, JoinNodes
<1>4. x \in Reachable /\ Landed(x) + Refunding(x) = 0
  BY <1>3, FirstDecision DEF InPlaces
<1>t. /\ \A y \in Nodes : Landed(y) \in Nat /\ Given(y) \in Nat /\ Refunding(y) \in Nat
      /\ data \in [Edges \cup {0} -> Nat] /\ empty \in [Edges -> Nat]
      /\ \A e \in Edges : Conn[e].from \in Nodes /\ Conn[e].to \in Nodes /\ e # 0
      /\ Trigger \in Nodes
  BY CountType, GraphAssumption DEF TypeOK
<1>5. ASSUME NEW y \in Nodes
      PROVE  IF y \in Reachable THEN Landed(y)' + Refunding(y)' <= 1
                                ELSE Started(y)' = {} /\ y \notin skipping'
  <2>1. NodeAccount(y)
    BY DEF Accounts
  <2>2. CASE y = x
    BY <1>2, <1>4, <1>t, <2>2
  <2>3. CASE y # x
    <3>1. Started(y)' = Started(y)
      BY <1>1, <2>3 DEF Started, TypeOK, Activations
    <3> QED
      BY <1>1, <1>2, <2>1, <2>3, <3>1 DEF NodeAccount, skipSide
  <2> QED
    BY <2>2, <2>3
<1>6. ASSUME NEW e \in Edges
      PROVE  IF Conn[e].to \notin Reachable
             THEN data'[e] = 0 /\ empty'[e] = 0 /\ (SlotOf(e) \in Slots => free'[SlotOf(e)] = 1)
             ELSE IF SlotOf(e) \in Slots
                    THEN Landed(Conn[e].to)' + data'[e] + empty'[e] + 1 <= Supply(e)' + free'[SlotOf(e)]
                    ELSE Landed(Conn[e].to)' + Refunding(Conn[e].to)' + data'[e] + empty'[e] <= Supply(e)'
  <2>1. EdgeAccount(e)
    BY DEF Accounts
  <2>2. Supply(e)' = Supply(e)
    BY <1>2, <1>t, SupplyIs DEF Supply
  <2>3. CASE Conn[e].to # x
    <3>1. data'[e] = data[e]
      BY <1>3, <1>t, <2>3 DEF Minus, InPlaces, Incoming
    <3> QED
      BY <1>1, <1>2, <1>t, <2>1, <2>2, <2>3, <3>1 DEF EdgeAccount
  <2>4. CASE Conn[e].to = x /\ x \in JoinNodes
    <3>1. SlotOf(e) \in Slots /\ data' = data
      BY <1>3, <2>4, PlainShape DEF JoinNodes
    <3> QED
      BY <1>1, <1>2, <1>4, <1>t, <2>1, <2>2, <2>4, <3>1 DEF EdgeAccount
  <2>5. CASE Conn[e].to = x /\ x \notin JoinNodes
    <3>1. SlotOf(e) \notin Slots /\ Forms[x] = "direct"
      BY <1>3, <2>5, PlainShape
    <3>2. PICK d \in InPlaces(x) : data[d] > 0 /\ data' = Minus(data, {d})
      BY <1>3, <2>5
    <3>3. d = e
      BY <2>5, <3>1, PlainShape DEF InPlaces, Incoming
    <3>4. data'[e] + 1 = data[e] /\ data'[e] \in Nat
      BY <1>t, <3>2, <3>3 DEF Minus
    <3>5. Landed(x) + Refunding(x) + data[e] + empty[e] <= Supply(e)
      BY <1>4, <2>1, <2>5, <3>1 DEF EdgeAccount
    <3>6. Supply(e) \in Nat
      BY SupplyIsOne
    <3> QED
      BY <1>1, <1>2, <1>4, <1>t, <2>2, <2>5, <3>1, <3>4, <3>5, <3>6
  <2> QED
    BY <2>3, <2>4, <2>5
<1>7. ASSUME Forms[Trigger] = "direct", Incoming(Trigger) = {}
      PROVE  Landed(Trigger)' + Refunding(Trigger)' + data'[0] <= 1
  <2>1. Landed(Trigger) + Refunding(Trigger) + data[0] <= 1
    BY <1>7 DEF Accounts, SourceAccount
  <2>2. CASE Trigger = x
    <3>1. data[0] > 0 /\ data' = Minus(data, {0})
      BY <1>3, <1>7, <2>2 DEF InPlaces, JoinNodes
    <3>2. data'[0] + 1 = data[0] /\ data'[0] \in Nat
      BY <1>t, <3>1 DEF Minus
    <3> QED
      BY <1>2, <1>t, <2>1, <2>2, <3>2
  <2>3. CASE Trigger # x
    <3>1. data'[0] = data[0]
      BY <1>3, <1>t, <2>3 DEF Minus, InPlaces, Incoming
    <3> QED
      BY <1>2, <1>t, <2>1, <2>3, <3>1
  <2> QED
    BY <2>2, <2>3
<1> QED
  BY <1>5, <1>6, <1>7, NextAccounts

\* The types the accounts are over.
LEMMA AccountTypes ==
  ASSUME TypeOK
  PROVE  /\ \A y \in Nodes : Landed(y) \in Nat /\ Given(y) \in Nat /\ Refunding(y) \in Nat
         /\ data \in [Edges \cup {0} -> Nat] /\ empty \in [Edges -> Nat] /\ free \in [Slots -> Nat]
         /\ \A e \in Edges : Conn[e].from \in Nodes /\ Conn[e].to \in Nodes /\ e # 0
         /\ Trigger \in Nodes
BY CountType, GraphAssumption DEF TypeOK

\* A node that was decided or is being decided stays so.
LEMMA StillQuiet ==
  ASSUME TypeOK, NEW x \in Nodes, NEW r \in Runs, NEW s, stage' = [stage EXCEPT ![<<x, r>>] = s],
         stage[<<x, r>>] # "none", Accounts
  PROVE  /\ x \in Reachable
         /\ \A y \in Nodes : y # x => Started(y)' = Started(y)
<1>1. r \in Started(x)
  BY DEF Started
<1>2. x \in Reachable
  BY <1>1 DEF Accounts, NodeAccount
<1>3. \A y \in Nodes : y # x => Started(y)' = Started(y)
  BY DEF Started, TypeOK, Activations
<1> QED
  BY <1>2, <1>3

\* A landed start has refunded the slots of its node.
LEMMA StartLandsAccounts ==
  ASSUME Plain, TypeOK, Accounts, NEW x \in Nodes, NEW r \in Runs, StartLands(x, r)
  PROVE  Accounts'
<1>1. /\ stage[<<x, r>>] = "starting" /\ stage' = [stage EXCEPT ![<<x, r>>] = "running"]
      /\ UNCHANGED <<data, empty, skipSide>> /\ free' = Plus(free, SlotsOf[x])
  BY DEF StartLands
<1>t. /\ \A y \in Nodes : Landed(y) \in Nat /\ Given(y) \in Nat /\ Refunding(y) \in Nat
      /\ data \in [Edges \cup {0} -> Nat] /\ empty \in [Edges -> Nat] /\ free \in [Slots -> Nat]
      /\ \A e \in Edges : Conn[e].from \in Nodes /\ Conn[e].to \in Nodes /\ e # 0
      /\ Trigger \in Nodes
  BY AccountTypes
<1>2. /\ \A y \in Nodes : Given(y)' = Given(y)
      /\ \A y \in Nodes : y # x => Refunding(y)' = Refunding(y) /\ Landed(y)' = Landed(y)
      /\ Refunding(x)' + 1 = Refunding(x) /\ Landed(x)' = Landed(x) + 1 /\ Refunding(x)' \in Nat
  <2> DEFINE s == stage[<<x, r>>]
  <2>1. "running" \in Stages /\ "running" \in LandedStages /\ "running" \notin Passed
        /\ s \notin LandedStages /\ s \notin Passed /\ s = "starting"
    BY <1>1 DEF Stages, UnitStages, LandedStages, Passed
  <2>2. /\ Landed(x)' \in Nat /\ Given(x)' \in Nat /\ Refunding(x)' \in Nat
        /\ \A y \in Nodes : y # x => /\ Landed(y)' = Landed(y) /\ Given(y)' = Given(y)
                                     /\ Refunding(y)' = Refunding(y)
        /\ Landed(x)' + Bit(s \in LandedStages) = Landed(x) + Bit("running" \in LandedStages)
        /\ Given(x)' + Bit(s \in Passed) = Given(x) + Bit("running" \in Passed)
        /\ Refunding(x)' + Bit(s = "starting") = Refunding(x) + Bit("running" = "starting")
    BY <1>1, <2>1, CountMove
  <2> QED
    BY <1>t, <2>1, <2>2 DEF Bit
<1>3. x \in Reachable /\ \A y \in Nodes : y # x => Started(y)' = Started(y)
  BY <1>1, StillQuiet
<1>4. ASSUME NEW y \in Nodes
      PROVE  IF y \in Reachable THEN Landed(y)' + Refunding(y)' <= 1
                                ELSE Started(y)' = {} /\ y \notin skipping'
  <2>1. NodeAccount(y)
    BY DEF Accounts
  <2>2. CASE y = x
    <3>1. Landed(y) + Refunding(y) <= 1
      BY <1>3, <2>1, <2>2 DEF NodeAccount
    <3>2. Landed(y)' + Refunding(y)' = Landed(y) + Refunding(y)
      BY <1>2, <1>t, <2>2
    <3> QED
      BY <1>3, <2>2, <3>1, <3>2
  <2>3. CASE y # x
    BY <1>1, <1>2, <1>3, <2>1, <2>3 DEF NodeAccount, skipSide
  <2> QED
    BY <2>2, <2>3
<1>5. ASSUME NEW e \in Edges
      PROVE  IF Conn[e].to \notin Reachable
             THEN data'[e] = 0 /\ empty'[e] = 0 /\ (SlotOf(e) \in Slots => free'[SlotOf(e)] = 1)
             ELSE IF SlotOf(e) \in Slots
                    THEN Landed(Conn[e].to)' + data'[e] + empty'[e] + 1 <= Supply(e)' + free'[SlotOf(e)]
                    ELSE Landed(Conn[e].to)' + Refunding(Conn[e].to)' + data'[e] + empty'[e] <= Supply(e)'
  <2>1. EdgeAccount(e)
    BY DEF Accounts
  <2>2. Supply(e)' = Supply(e) /\ Supply(e) \in Nat
    BY <1>2, <1>t, SupplyIs, SupplyIsOne DEF Supply
  <2>3. ASSUME SlotOf(e) \in Slots
        PROVE  free'[SlotOf(e)] = IF Conn[e].to = x THEN free[SlotOf(e)] + 1 ELSE free[SlotOf(e)]
    BY <1>1, <1>t, <2>3, SlotOwner DEF Plus, SlotOf
  <2> QED
    BY <1>1, <1>2, <1>3, <1>t, <2>1, <2>2, <2>3 DEF EdgeAccount
<1>6. ASSUME Forms[Trigger] = "direct", Incoming(Trigger) = {}
      PROVE  Landed(Trigger)' + Refunding(Trigger)' + data'[0] <= 1
  <2>1. Landed(Trigger) + Refunding(Trigger) + data[0] <= 1
    BY <1>6 DEF Accounts, SourceAccount
  <2> QED
    BY <1>1, <1>2, <1>t, <2>1
<1> QED
  BY <1>4, <1>5, <1>6, NextAccounts

\* A success gives each outgoing edge at most one token.
LEMMA RunSucceedsAccounts ==
  ASSUME Plain, TypeOK, Accounts, NEW x \in Nodes, NEW r \in Runs, NEW live, RunSucceeds(x, r, live)
  PROVE  Accounts'
<1>1. /\ stage[<<x, r>>] \in {"executing", "exhausting"}
      /\ stage' = [stage EXCEPT ![<<x, r>>] = "routed"]
      /\ UNCHANGED <<free, skipSide>>
      /\ data' = Plus(data, DataEdges(x, live)) /\ empty' = Plus(empty, EmptyEdges(x, live))
  BY DEF RunSucceeds, Settling, Settle
<1>t. /\ \A y \in Nodes : Landed(y) \in Nat /\ Given(y) \in Nat /\ Refunding(y) \in Nat
      /\ data \in [Edges \cup {0} -> Nat] /\ empty \in [Edges -> Nat] /\ free \in [Slots -> Nat]
      /\ \A e \in Edges : Conn[e].from \in Nodes /\ Conn[e].to \in Nodes /\ e # 0
      /\ Trigger \in Nodes
  BY AccountTypes
<1>2. /\ \A y \in Nodes : Refunding(y)' = Refunding(y) /\ Landed(y)' = Landed(y)
      /\ \A y \in Nodes : y # x => Given(y)' = Given(y)
      /\ Given(x)' = Given(x) + 1
  <2> DEFINE s == stage[<<x, r>>]
  <2>1. "routed" \in Stages /\ "routed" \in LandedStages /\ "routed" \in Passed
        /\ s \in LandedStages /\ s \notin Passed /\ s # "starting"
    BY <1>1 DEF Stages, UnitStages, LandedStages, Passed
  <2>2. /\ Landed(x)' \in Nat /\ Given(x)' \in Nat /\ Refunding(x)' \in Nat
        /\ \A y \in Nodes : y # x => /\ Landed(y)' = Landed(y) /\ Given(y)' = Given(y)
                                     /\ Refunding(y)' = Refunding(y)
        /\ Landed(x)' + Bit(s \in LandedStages) = Landed(x) + Bit("routed" \in LandedStages)
        /\ Given(x)' + Bit(s \in Passed) = Given(x) + Bit("routed" \in Passed)
        /\ Refunding(x)' + Bit(s = "starting") = Refunding(x) + Bit("routed" = "starting")
    BY <1>1, <2>1, CountMove
  <2> QED
    BY <1>t, <2>1, <2>2 DEF Bit
<1>3. x \in Reachable /\ \A y \in Nodes : y # x => Started(y)' = Started(y)
  BY <1>1, StillQuiet
<1>4. ASSUME NEW y \in Nodes
      PROVE  IF y \in Reachable THEN Landed(y)' + Refunding(y)' <= 1
                                ELSE Started(y)' = {} /\ y \notin skipping'
  <2>1. NodeAccount(y)
    BY DEF Accounts
  <2> QED
    BY <1>1, <1>2, <1>3, <2>1 DEF NodeAccount, skipSide
<1>5. ASSUME NEW e \in Edges
      PROVE  IF Conn[e].to \notin Reachable
             THEN data'[e] = 0 /\ empty'[e] = 0 /\ (SlotOf(e) \in Slots => free'[SlotOf(e)] = 1)
             ELSE IF SlotOf(e) \in Slots
                    THEN Landed(Conn[e].to)' + data'[e] + empty'[e] + 1 <= Supply(e)' + free'[SlotOf(e)]
                    ELSE Landed(Conn[e].to)' + Refunding(Conn[e].to)' + data'[e] + empty'[e] <= Supply(e)'
  <2>1. EdgeAccount(e)
    BY DEF Accounts
  <2>2. Supply(e) \in Nat
    BY SupplyIsOne
  <2>3. CASE Conn[e].from = x
    <3>1. Supply(e)' = Supply(e) + 1 /\ Conn[e].to \in Reachable
      BY <1>2, <1>3, <2>3, SupplyIs, ReachableIsClosed DEF Supply
    <3>2. data'[e] + empty'[e] <= data[e] + empty[e] + 1 /\ data'[e] \in Nat /\ empty'[e] \in Nat
      BY <1>1, <1>t DEF Plus, EmptyEdges
    <3> QED
      BY <1>1, <1>2, <1>t, <2>1, <2>2, <3>1, <3>2 DEF EdgeAccount
  <2>4. CASE Conn[e].from # x
    <3>1. Supply(e)' = Supply(e)
      BY <1>2, <1>t, <2>4, SupplyIs DEF Supply
    <3>2. data'[e] = data[e] /\ empty'[e] = empty[e]
      BY <1>1, <1>t, <2>4 DEF Plus, EmptyEdges, DataEdges, Outgoing
    <3> QED
      BY <1>1, <1>2, <1>t, <2>1, <3>1, <3>2 DEF EdgeAccount
  <2> QED
    BY <2>3, <2>4
<1>6. ASSUME Forms[Trigger] = "direct", Incoming(Trigger) = {}
      PROVE  Landed(Trigger)' + Refunding(Trigger)' + data'[0] <= 1
  <2>1. Landed(Trigger) + Refunding(Trigger) + data[0] <= 1
    BY <1>6 DEF Accounts, SourceAccount
  <2>2. data'[0] = data[0]
    BY <1>1, <1>t DEF Plus, DataEdges, Outgoing
  <2> QED
    BY <1>1, <1>2, <1>t, <2>1, <2>2
<1> QED
  BY <1>4, <1>5, <1>6, NextAccounts

\* The other steps of an activation give and take nothing.
LEMMA StageAccounts ==
  ASSUME Plain, TypeOK, Accounts, NEW x \in Nodes, NEW r \in Runs, NEW s \in LandedStages,
         stage[<<x, r>>] \in LandedStages, stage[<<x, r>>] \in Passed <=> s \in Passed,
         stage' = [stage EXCEPT ![<<x, r>>] = s],
         UNCHANGED <<data, empty, free, skipSide>>
  PROVE  Accounts'
<1>t. /\ \A y \in Nodes : Landed(y) \in Nat /\ Given(y) \in Nat /\ Refunding(y) \in Nat
      /\ \A e \in Edges : Conn[e].from \in Nodes /\ Conn[e].to \in Nodes /\ e # 0
      /\ Trigger \in Nodes
  BY AccountTypes
<1>1. s \in Stages /\ s # "starting" /\ stage[<<x, r>>] # "starting" /\ stage[<<x, r>>] # "none"
  BY DEF LandedStages
<1>2. \A y \in Nodes : Refunding(y)' = Refunding(y) /\ Landed(y)' = Landed(y) /\ Given(y)' = Given(y)
  <2>1. /\ Landed(x)' \in Nat /\ Given(x)' \in Nat /\ Refunding(x)' \in Nat
        /\ \A y \in Nodes : y # x => /\ Landed(y)' = Landed(y) /\ Given(y)' = Given(y)
                                     /\ Refunding(y)' = Refunding(y)
        /\ Landed(x)' + Bit(stage[<<x, r>>] \in LandedStages) = Landed(x) + Bit(s \in LandedStages)
        /\ Given(x)' + Bit(stage[<<x, r>>] \in Passed) = Given(x) + Bit(s \in Passed)
        /\ Refunding(x)' + Bit(stage[<<x, r>>] = "starting") = Refunding(x) + Bit(s = "starting")
    BY <1>1, CountMove
  <2> QED
    BY <1>t, <1>1, <2>1 DEF Bit
<1>3. x \in Reachable /\ \A y \in Nodes : y # x => Started(y)' = Started(y)
  BY <1>1, StillQuiet
<1>4. ASSUME NEW y \in Nodes
      PROVE  IF y \in Reachable THEN Landed(y)' + Refunding(y)' <= 1
                                ELSE Started(y)' = {} /\ y \notin skipping'
  <2>1. NodeAccount(y)
    BY DEF Accounts
  <2> QED
    BY <1>1, <1>2, <1>3, <2>1 DEF NodeAccount, skipSide
<1>5. ASSUME NEW e \in Edges
      PROVE  IF Conn[e].to \notin Reachable
             THEN data'[e] = 0 /\ empty'[e] = 0 /\ (SlotOf(e) \in Slots => free'[SlotOf(e)] = 1)
             ELSE IF SlotOf(e) \in Slots
                    THEN Landed(Conn[e].to)' + data'[e] + empty'[e] + 1 <= Supply(e)' + free'[SlotOf(e)]
                    ELSE Landed(Conn[e].to)' + Refunding(Conn[e].to)' + data'[e] + empty'[e] <= Supply(e)'
  <2>1. EdgeAccount(e) /\ Supply(e)' = Supply(e)
    BY <1>2, <1>t, SupplyIs DEF Accounts, Supply
  <2> QED
    BY <1>2, <1>t, <2>1 DEF EdgeAccount
<1>6. ASSUME Forms[Trigger] = "direct", Incoming(Trigger) = {}
      PROVE  Landed(Trigger)' + Refunding(Trigger)' + data'[0] <= 1
  BY <1>2, <1>6, <1>t DEF Accounts, SourceAccount
<1> QED
  BY <1>4, <1>5, <1>6, NextAccounts

\* An arm takes a token off its edge and its slot from being free.
LEMMA ArmAccounts ==
  ASSUME Plain, TypeOK, Accounts, NEW d \in ArmedEdges, NEW v \in Variants, Arm(d, v)
  PROVE  Accounts'
<1>1. /\ \/ data[d] > 0 /\ data' = Minus(data, {d}) /\ empty' = empty
         \/ empty[d] > 0 /\ empty' = Minus(empty, {d}) /\ data' = data
      /\ SlotOf(d) \in Slots => free[SlotOf(d)] > 0 /\ free' = Minus(free, {SlotOf(d)})
      /\ SlotOf(d) \notin Slots => free' = free
      /\ UNCHANGED <<stage, skipSide>> /\ d \in Edges
  BY DEF Arm, TakeSlot, runSide, ArmedEdges
<1>t. /\ \A y \in Nodes : Landed(y) \in Nat /\ Given(y) \in Nat /\ Refunding(y) \in Nat
      /\ data \in [Edges \cup {0} -> Nat] /\ empty \in [Edges -> Nat] /\ free \in [Slots -> Nat]
      /\ \A e \in Edges : Conn[e].from \in Nodes /\ Conn[e].to \in Nodes /\ e # 0
      /\ Trigger \in Nodes
  BY AccountTypes
<1>2. \A y : /\ Landed(y)' = Landed(y) /\ Given(y)' = Given(y) /\ Refunding(y)' = Refunding(y)
             /\ Started(y)' = Started(y)
  BY <1>1 DEF Landed, Given, Refunding, Started, RunsIn, LandedStages, Passed, Stages, UnitStages,
              skipSide
<1>3. ASSUME NEW y \in Nodes
      PROVE  IF y \in Reachable THEN Landed(y)' + Refunding(y)' <= 1
                                ELSE Started(y)' = {} /\ y \notin skipping'
  <2>1. NodeAccount(y)
    BY DEF Accounts
  <2> QED
    BY <1>1, <1>2, <2>1 DEF NodeAccount, skipSide
<1>4. ASSUME NEW e \in Edges
      PROVE  IF Conn[e].to \notin Reachable
             THEN data'[e] = 0 /\ empty'[e] = 0 /\ (SlotOf(e) \in Slots => free'[SlotOf(e)] = 1)
             ELSE IF SlotOf(e) \in Slots
                    THEN Landed(Conn[e].to)' + data'[e] + empty'[e] + 1 <= Supply(e)' + free'[SlotOf(e)]
                    ELSE Landed(Conn[e].to)' + Refunding(Conn[e].to)' + data'[e] + empty'[e] <= Supply(e)'
  <2>1. EdgeAccount(e)
    BY DEF Accounts
  <2>2. Supply(e)' = Supply(e) /\ Supply(e) \in Nat
    BY <1>2, <1>t, SupplyIs, SupplyIsOne DEF Supply
  <2>3. CASE e = d
    <3>1. data'[e] + empty'[e] + 1 = data[e] + empty[e] /\ data'[e] \in Nat /\ empty'[e] \in Nat
      BY <1>1, <1>t, <2>3 DEF Minus
    <3>2. Conn[e].to \in Reachable
      BY <1>1, <1>t, <2>1, <2>3 DEF EdgeAccount
    <3>3. SlotOf(e) \in Slots => free'[SlotOf(e)] + 1 = free[SlotOf(e)] /\ free'[SlotOf(e)] \in Nat
      BY <1>1, <1>t, <2>3 DEF Minus
    <3> QED
      BY <1>2, <1>t, <2>1, <2>2, <3>1, <3>2, <3>3 DEF EdgeAccount
  <2>4. CASE e # d
    <3>1. data'[e] = data[e] /\ empty'[e] = empty[e]
      BY <1>1, <1>t, <2>4 DEF Minus
    <3>2. SlotOf(e) # SlotOf(d)
      BY <1>1, <2>4, PlainShape
    <3>3. SlotOf(e) \in Slots => free'[SlotOf(e)] = free[SlotOf(e)]
      BY <1>1, <1>t, <3>2 DEF Minus
    <3> QED
      BY <1>2, <2>1, <2>2, <3>1, <3>3 DEF EdgeAccount
  <2> QED
    BY <2>3, <2>4
<1>5. ASSUME Forms[Trigger] = "direct", Incoming(Trigger) = {}
      PROVE  Landed(Trigger)' + Refunding(Trigger)' + data'[0] <= 1
  <2>1. Landed(Trigger) + Refunding(Trigger) + data[0] <= 1
    BY <1>5 DEF Accounts, SourceAccount
  <2>2. data'[0] = data[0]
    BY <1>1, <1>t DEF Minus
  <2> QED
    BY <1>2, <2>1, <2>2
<1> QED
  BY <1>3, <1>4, <1>5, NextAccounts

\* Steps on the other places.
LEMMA SameAccounts ==
  ASSUME TypeOK, Accounts, UNCHANGED <<stage, data, empty, free, skipSide>>
  PROVE  Accounts'
<1>1. \A y : /\ Landed(y)' = Landed(y) /\ Given(y)' = Given(y) /\ Refunding(y)' = Refunding(y)
             /\ Started(y)' = Started(y)
  BY DEF Landed, Given, Refunding, Started, RunsIn, LandedStages, Passed, Stages, UnitStages, skipSide
<1>2. ASSUME NEW y \in Nodes
      PROVE  IF y \in Reachable THEN Landed(y)' + Refunding(y)' <= 1
                                ELSE Started(y)' = {} /\ y \notin skipping'
  <2>1. NodeAccount(y)
    BY DEF Accounts
  <2> QED
    BY <1>1, <2>1 DEF NodeAccount, skipSide
<1>3. ASSUME NEW e \in Edges
      PROVE  IF Conn[e].to \notin Reachable
             THEN data'[e] = 0 /\ empty'[e] = 0 /\ (SlotOf(e) \in Slots => free'[SlotOf(e)] = 1)
             ELSE IF SlotOf(e) \in Slots
                    THEN Landed(Conn[e].to)' + data'[e] + empty'[e] + 1 <= Supply(e)' + free'[SlotOf(e)]
                    ELSE Landed(Conn[e].to)' + Refunding(Conn[e].to)' + data'[e] + empty'[e] <= Supply(e)'
  <2>1. EdgeAccount(e) /\ Supply(e)' = Supply(e)
    BY <1>1, SupplyIs DEF Accounts, Supply
  <2> QED
    BY <1>1, <2>1 DEF EdgeAccount
<1>4. ASSUME Forms[Trigger] = "direct", Incoming(Trigger) = {}
      PROVE  Landed(Trigger)' + Refunding(Trigger)' + data'[0] <= 1
  BY <1>1, <1>4 DEF Accounts, SourceAccount
<1> QED
  BY <1>2, <1>3, <1>4, NextAccounts

\* X_skip decides its node, and takes one empty off a direct node's edge.
LEMMA SkipAccounts ==
  ASSUME Plain, TypeOK, Accounts, \A p \in Slots : HoldsOne(p), NEW x \in Nodes, Skip(x)
  PROVE  Accounts'
<1>1. /\ UNCHANGED <<stage, data, free, skipped>> /\ x \notin skipping
      /\ skipping' = skipping \cup {x} /\ TakeEmpties(x)
  BY DEF Skip, runSide
<1>t. /\ \A y \in Nodes : Landed(y) \in Nat /\ Given(y) \in Nat /\ Refunding(y) \in Nat
      /\ data \in [Edges \cup {0} -> Nat] /\ empty \in [Edges -> Nat] /\ free \in [Slots -> Nat]
      /\ \A e \in Edges : Conn[e].from \in Nodes /\ Conn[e].to \in Nodes /\ e # 0
      /\ Trigger \in Nodes
  BY AccountTypes
<1>2. /\ \A y : Landed(y)' = Landed(y) /\ Given(y)' = Given(y) /\ Started(y)' = Started(y)
      /\ \A y \in Nodes : y # x => Refunding(y)' = Refunding(y)
      /\ Refunding(x)' = Refunding(x) + 1
  <2>2. \A y : Landed(y)' = Landed(y) /\ Given(y)' = Given(y) /\ Started(y)' = Started(y)
    BY <1>1 DEF Landed, Given, Started, RunsIn, LandedStages, Passed, Stages, UnitStages
  <2>3. \A y : Cardinality(RunsIn(y, {"starting"}))' = Cardinality(RunsIn(y, {"starting"}))
    BY <1>1 DEF RunsIn
  <2>4. Cardinality(RunsIn(x, {"starting"})) \in Nat
    BY RefundingType
  <2> QED
    BY <1>1, <2>2, <2>3, <2>4 DEF Refunding
<1>3. \/ x \in JoinNodes /\ Arrivals(x) # {} /\ empty' = empty
      \/ /\ Forms[x] = "direct"
         /\ \E d \in Incoming(x) : empty[d] > 0 /\ empty' = Minus(empty, {d})
  BY <1>1, PlainShape DEF TakeEmpties, JoinNodes
<1>4. x \in Reachable /\ Landed(x) + Refunding(x) = 0
  BY <1>3, FirstDecision
<1>5. ASSUME NEW y \in Nodes
      PROVE  IF y \in Reachable THEN Landed(y)' + Refunding(y)' <= 1
                                ELSE Started(y)' = {} /\ y \notin skipping'
  <2>1. NodeAccount(y)
    BY DEF Accounts
  <2>2. CASE y = x
    BY <1>2, <1>4, <1>t, <2>2
  <2>3. CASE y # x
    BY <1>1, <1>2, <2>1, <2>3 DEF NodeAccount
  <2> QED
    BY <2>2, <2>3
<1>6. ASSUME NEW e \in Edges
      PROVE  IF Conn[e].to \notin Reachable
             THEN data'[e] = 0 /\ empty'[e] = 0 /\ (SlotOf(e) \in Slots => free'[SlotOf(e)] = 1)
             ELSE IF SlotOf(e) \in Slots
                    THEN Landed(Conn[e].to)' + data'[e] + empty'[e] + 1 <= Supply(e)' + free'[SlotOf(e)]
                    ELSE Landed(Conn[e].to)' + Refunding(Conn[e].to)' + data'[e] + empty'[e] <= Supply(e)'
  <2>1. EdgeAccount(e)
    BY DEF Accounts
  <2>2. Supply(e)' = Supply(e)
    BY <1>2, <1>t, SupplyIs DEF Supply
  <2>3. CASE Conn[e].to # x
    <3>1. empty'[e] = empty[e]
      BY <1>3, <1>t, <2>3 DEF Minus, Incoming
    <3> QED
      BY <1>1, <1>2, <1>t, <2>1, <2>2, <2>3, <3>1 DEF EdgeAccount
  <2>4. CASE Conn[e].to = x /\ x \in JoinNodes
    <3>1. SlotOf(e) \in Slots /\ empty' = empty
      BY <1>3, <2>4, PlainShape DEF JoinNodes
    <3> QED
      BY <1>1, <1>2, <1>4, <1>t, <2>1, <2>2, <2>4, <3>1 DEF EdgeAccount
  <2>5. CASE Conn[e].to = x /\ x \notin JoinNodes
    <3>1. SlotOf(e) \notin Slots /\ Forms[x] = "direct"
      BY <1>3, <2>5, PlainShape
    <3>2. PICK d \in Incoming(x) : empty[d] > 0 /\ empty' = Minus(empty, {d})
      BY <1>3, <2>5
    <3>3. d = e
      BY <2>5, <3>1, PlainShape DEF Incoming
    <3>4. empty'[e] + 1 = empty[e] /\ empty'[e] \in Nat
      BY <1>t, <3>2, <3>3 DEF Minus
    <3>5. Landed(x) + Refunding(x) + data[e] + empty[e] <= Supply(e)
      BY <1>4, <2>1, <2>5, <3>1 DEF EdgeAccount
    <3>6. Supply(e) \in Nat
      BY SupplyIsOne
    <3> QED
      BY <1>1, <1>2, <1>4, <1>t, <2>2, <2>5, <3>1, <3>4, <3>5, <3>6
  <2> QED
    BY <2>3, <2>4, <2>5
<1>7. ASSUME Forms[Trigger] = "direct", Incoming(Trigger) = {}
      PROVE  Landed(Trigger)' + Refunding(Trigger)' + data'[0] <= 1
  <2>1. Landed(Trigger) + Refunding(Trigger) + data[0] <= 1
    BY <1>7 DEF Accounts, SourceAccount
  <2>2. Trigger # x
    BY <1>3, <1>7 DEF JoinNodes
  <2> QED
    BY <1>1, <1>2, <1>t, <2>1, <2>2
<1> QED
  BY <1>5, <1>6, <1>7, NextAccounts

\* A landed skip has refunded its slots and given each outgoing edge at most an empty.
LEMMA SkipLandsAccounts ==
  ASSUME Plain, TypeOK, Accounts, NEW x \in Nodes, SkipLands(x)
  PROVE  Accounts'
<1>1. /\ UNCHANGED <<stage, data>> /\ x \in skipping
      /\ skipping' = skipping \ {x} /\ skipped' = Plus(skipped, {x})
      /\ empty' = empty \/ empty' = Plus(empty, Outgoing(x) \cap TreeEdges)
      /\ free' = Plus(free, SlotsOf[x])
  BY DEF SkipLands, runSide
<1>t. /\ \A y \in Nodes : Landed(y) \in Nat /\ Given(y) \in Nat /\ Refunding(y) \in Nat
      /\ data \in [Edges \cup {0} -> Nat] /\ empty \in [Edges -> Nat] /\ free \in [Slots -> Nat]
      /\ \A e \in Edges : Conn[e].from \in Nodes /\ Conn[e].to \in Nodes /\ e # 0
      /\ Trigger \in Nodes
  BY AccountTypes
<1>2. /\ \A y \in Nodes : y # x => /\ Refunding(y)' = Refunding(y) /\ Landed(y)' = Landed(y)
                                   /\ Given(y)' = Given(y)
      /\ Refunding(x)' + 1 = Refunding(x) /\ Refunding(x)' \in Nat
      /\ Landed(x)' = Landed(x) + 1 /\ Given(x)' = Given(x) + 1
  <2>1. \A y : /\ Cardinality(RunsIn(y, {"starting"}))' = Cardinality(RunsIn(y, {"starting"}))
               /\ Cardinality(RunsIn(y, LandedStages))' = Cardinality(RunsIn(y, LandedStages))
               /\ Cardinality(RunsIn(y, Passed))' = Cardinality(RunsIn(y, Passed))
    BY <1>1 DEF RunsIn, LandedStages, Passed, Stages, UnitStages
  <2>2. Cardinality(RunsIn(x, {"starting"})) \in Nat
    BY RefundingType
  <2>3. /\ \A y \in Nodes : y # x => skipped'[y] = skipped[y]
        /\ skipped'[x] = skipped[x] + 1 /\ skipped[x] \in Nat
    BY <1>1 DEF Plus, TypeOK
  <2>4. /\ Cardinality(RunsIn(x, LandedStages)) \in Nat /\ Cardinality(RunsIn(x, Passed)) \in Nat
    <3>1. IsFiniteSet(RunsIn(x, LandedStages)) /\ IsFiniteSet(RunsIn(x, Passed))
      BY FiniteRuns, FS_Subset DEF RunsIn
    <3> QED
      BY <3>1, FS_CardinalityType
  <2>5. ASSUME NEW y \in Nodes, y # x
        PROVE  Refunding(y)' = Refunding(y) /\ Landed(y)' = Landed(y) /\ Given(y)' = Given(y)
    BY <1>1, <2>1, <2>3, <2>5 DEF Refunding, Landed, Given
  <2>6. Refunding(x)' + 1 = Refunding(x) /\ Refunding(x)' \in Nat
    BY <1>1, <2>1, <2>2 DEF Refunding
  <2>7. Landed(x)' = Landed(x) + 1
    BY <2>1, <2>3, <2>4 DEF Landed
  <2>8. Given(x)' = Given(x) + 1
    BY <2>1, <2>3, <2>4 DEF Given
  <2> QED
    BY <2>5, <2>6, <2>7, <2>8
<1>3. x \in Reachable /\ Started(x)' = Started(x) /\ \A y : Started(y)' = Started(y)
  BY <1>1 DEF Accounts, NodeAccount, Started
<1>4. ASSUME NEW y \in Nodes
      PROVE  IF y \in Reachable THEN Landed(y)' + Refunding(y)' <= 1
                                ELSE Started(y)' = {} /\ y \notin skipping'
  <2>1. NodeAccount(y)
    BY DEF Accounts
  <2>2. CASE y = x
    <3>1. Landed(y) + Refunding(y) <= 1
      BY <1>3, <2>1, <2>2 DEF NodeAccount
    <3>2. Landed(y)' + Refunding(y)' = Landed(y) + Refunding(y)
      BY <1>2, <1>t, <2>2
    <3> QED
      BY <1>3, <2>2, <3>1, <3>2
  <2>3. CASE y # x
    BY <1>1, <1>2, <1>3, <2>1, <2>3 DEF NodeAccount
  <2> QED
    BY <2>2, <2>3
<1>5. ASSUME NEW e \in Edges
      PROVE  IF Conn[e].to \notin Reachable
             THEN data'[e] = 0 /\ empty'[e] = 0 /\ (SlotOf(e) \in Slots => free'[SlotOf(e)] = 1)
             ELSE IF SlotOf(e) \in Slots
                    THEN Landed(Conn[e].to)' + data'[e] + empty'[e] + 1 <= Supply(e)' + free'[SlotOf(e)]
                    ELSE Landed(Conn[e].to)' + Refunding(Conn[e].to)' + data'[e] + empty'[e] <= Supply(e)'
  <2> DEFINE z == Conn[e].to
             y == Conn[e].from
  <2>1. EdgeAccount(e)
    BY DEF Accounts
  <2>2. SlotOf(e) \in Slots => free'[SlotOf(e)] = IF z = x THEN free[SlotOf(e)] + 1 ELSE free[SlotOf(e)]
    BY <1>1, <1>t, SlotOwner DEF Plus, SlotOf
  <2>3. /\ Supply(e)' = IF y = x THEN Supply(e) + 1 ELSE Supply(e)
        /\ Supply(e) \in Nat
    BY <1>2, <1>3, <1>t, SupplyIs, SupplyIsOne DEF Supply
  <2>4. /\ empty'[e] \in Nat
        /\ IF y = x THEN empty'[e] <= empty[e] + 1 ELSE empty'[e] = empty[e]
    BY <1>1, <1>t DEF Plus, Outgoing
  <2>5. empty'[e] + Supply(e) <= empty[e] + Supply(e)' /\ Supply(e)' \in Nat
    BY <1>t, <2>3, <2>4
  <2>6. CASE z \notin Reachable
    <3>1. y # x /\ z # x
      BY <1>3, <2>6, ReachableIsClosed
    <3> QED
      BY <1>1, <2>1, <2>2, <2>4, <2>6, <3>1 DEF EdgeAccount
  <2>7. CASE z \in Reachable /\ SlotOf(e) \in Slots
    <3>1. Landed(z) + data[e] + empty[e] + 1 <= Supply(e) + free[SlotOf(e)]
      BY <2>1, <2>7 DEF EdgeAccount
    <3>2. Landed(z)' + free[SlotOf(e)] = Landed(z) + free'[SlotOf(e)] /\ Landed(z)' \in Nat
      BY <1>2, <1>t, <2>2, <2>7
    <3> QED
      BY <1>1, <1>t, <2>2, <2>3, <2>4, <2>5, <2>7, <3>1, <3>2
  <2>8. CASE z \in Reachable /\ SlotOf(e) \notin Slots
    <3>1. Landed(z) + Refunding(z) + data[e] + empty[e] <= Supply(e)
      BY <2>1, <2>8 DEF EdgeAccount
    <3>2. Landed(z)' + Refunding(z)' = Landed(z) + Refunding(z)
      BY <1>2, <1>t, <2>8
    <3>3. Landed(z)' + Refunding(z)' + data'[e] + empty'[e] = Landed(z) + Refunding(z) + data[e] + empty'[e]
      BY <1>1, <3>2
    <3>4. Landed(z) + Refunding(z) + data[e] + empty'[e] <= Supply(e)'
      BY <1>t, <2>3, <2>4, <2>5, <3>1
    <3> QED
      BY <2>8, <3>3, <3>4
  <2> QED
    BY <2>6, <2>7, <2>8
<1>6. ASSUME Forms[Trigger] = "direct", Incoming(Trigger) = {}
      PROVE  Landed(Trigger)' + Refunding(Trigger)' + data'[0] <= 1
  <2>1. Landed(Trigger) + Refunding(Trigger) + data[0] <= 1
    BY <1>6 DEF Accounts, SourceAccount
  <2>2. Landed(Trigger)' + Refunding(Trigger)' = Landed(Trigger) + Refunding(Trigger)
    BY <1>2, <1>t
  <2> QED
    BY <1>1, <2>1, <2>2
<1> QED
  BY <1>4, <1>5, <1>6, NextAccounts

\* Every step keeps the accounts.
LEMMA AccountsStep ==
  ASSUME Plain, TypeOK, Accounts, \A p \in Slots : HoldsOne(p), [Next]_vars
  PROVE  Accounts'
<1> USE DEF control, runSide, inputSide, skipSide
<1>1. ASSUME NEW x \in Nodes, NEW r \in Runs, Start(x, r) PROVE Accounts'
  BY <1>1, StartAccounts
<1>2. ASSUME NEW x \in Nodes, NEW r \in Runs, StartLands(x, r) PROVE Accounts'
  BY <1>2, StartLandsAccounts
<1>3. ASSUME NEW x \in Nodes, NEW r \in Runs, NEW live \in SUBSET Outputs(x), RunSucceeds(x, r, live)
      PROVE  Accounts'
  BY <1>3, RunSucceedsAccounts
<1>4. ASSUME NEW x \in Nodes, NEW r \in Runs,
             \/ Run(x, r) \/ RunRetries(x, r) \/ RunHalts(x, r) \/ Done(x, r) \/ DoneLands(x, r)
             \/ RetryWait(x, r) \/ RetryLands(x, r) \/ Exhausted(x, r)
             \/ \E s \in {"waiting", "stopped"} : RunPauses(x, r, s)
      PROVE  Accounts'
  <2>1. UNCHANGED <<data, empty, free, skipSide>>
    BY <1>4 DEF Run, RunRetries, RunHalts, Done, DoneLands, RetryWait, RetryLands, Exhausted, RunPauses
  <2>2. /\ stage[<<x, r>>] \in LandedStages
        /\ \E s \in LandedStages : /\ stage' = [stage EXCEPT ![<<x, r>>] = s]
                                   /\ stage[<<x, r>>] \in Passed <=> s \in Passed
    BY <1>4 DEF Run, RunRetries, RunHalts, Done, DoneLands, RetryWait, RetryLands, Exhausted,
                RunPauses, Settling, Settle, LandedStages, Passed, Stages, UnitStages
  <2> QED
    BY <2>1, <2>2, StageAccounts
<1>5. ASSUME NEW e \in ArmedEdges, NEW v \in Variants, Arm(e, v) PROVE Accounts'
  BY <1>5, ArmAccounts
<1>6. ASSUME NEW e \in ArmedEdges, NEW v \in Variants, ArmLands(e, v) PROVE Accounts'
  BY <1>6, SameAccounts DEF ArmLands
<1>7. ASSUME NEW x \in Nodes, Skip(x) PROVE Accounts'
  BY <1>7, SkipAccounts
<1>8. ASSUME NEW x \in Nodes, SkipLands(x) PROVE Accounts'
  BY <1>8, SkipLandsAccounts
<1>9. ASSUME NEW x \in Nodes, Clear(x) PROVE Accounts'
  BY <1>9, SameAccounts DEF Clear
<1>10. CASE Abort \/ UNCHANGED vars
  BY <1>10, SameAccounts DEF Abort, vars
<1> QED
  BY <1>1, <1>2, <1>3, <1>4, <1>5, <1>6, <1>7, <1>8, <1>9, <1>10, Zenon DEF Next, Fire, Land

\* The initial marking: one arrival of the trigger, and an empty where nothing can come.
LEMMA InitAccounts == PrimaryIsFirst /\ Plain /\ Init => Accounts
<1> SUFFICES ASSUME PrimaryIsFirst, Plain, Init PROVE Accounts
  OBVIOUS
<1>t. /\ Trigger \in Nodes /\ Trigger \in Reachable
      /\ \A e \in Edges : Conn[e].from \in Nodes /\ Conn[e].to \in Nodes /\ e # 0
  BY GraphAssumption, ReachableIsClosed
<1>1. /\ skipping = {} /\ skipped = [x \in Nodes |-> IF x \in SeededSkipped THEN 1 ELSE 0]
      /\ stage = [a \in Activations |-> "none"] /\ empty = [e \in Edges |-> 0]
      /\ data = [e \in Edges \cup {0} |->
                   IF Forms[Trigger] = "direct" /\ e \in InPlaces(Trigger) THEN 1 ELSE 0]
      /\ free = [p \in Slots |-> IF SeedEmpty(p) \/ p \in TriggerSlots THEN 0 ELSE 1]
  BY DEF Init
<1>2. ASSUME NEW x \in Nodes
      PROVE  /\ Started(x) = {} /\ Refunding(x) = 0
             /\ x \in Reachable => Landed(x) = 0 /\ Given(x) = 0
  <2>1. /\ Started(x) = {} /\ RunsIn(x, {"starting"}) = {} /\ RunsIn(x, LandedStages) = {}
        /\ RunsIn(x, Passed) = {}
    BY <1>1 DEF Started, RunsIn, LandedStages, Passed, Activations
  <2>2. x \in Reachable => skipped[x] = 0
    BY <1>1 DEF SeededSkipped
  <2> QED
    BY <1>1, <2>1, <2>2, FS_EmptySet DEF Refunding, Landed, Given
<1>3. \A x \in Nodes : NodeAccount(x)
  BY <1>1, <1>2 DEF NodeAccount
<1>4. ASSUME NEW e \in Edges PROVE EdgeAccount(e)
  <2> DEFINE z == Conn[e].to
             p == SlotOf(e)
  <2>1. /\ empty[e] = 0 /\ p[1] = z /\ z \in Nodes /\ data[e] \in {0, 1}
        /\ data[e] = 1 => Forms[z] = "direct" /\ z = Trigger
    BY <1>1, <1>t DEF SlotOf, InPlaces, Incoming
  <2>2. CASE z \notin Reachable
    <3>1. p \in Slots => free[p] = 1
      BY <1>1, <1>t, <2>1, <2>2, SlotOwner DEF SeedEmpty, TriggerSlots
    <3> QED
      BY <1>t, <2>1, <2>2, <3>1 DEF EdgeAccount
  <2>3. CASE z \in Reachable /\ Conn[e].from \in Reachable
    <3>1. z # Trigger
      BY <2>3 DEF PrimaryIsFirst, Plain, Incoming
    <3>2. Supply(e) = 0 /\ Landed(z) = 0 /\ Refunding(z) = 0
      BY <1>2, <1>t, <2>3 DEF Supply
    <3>3. p \in Slots => free[p] = 1
      BY <1>1, <1>t, <2>1, <2>3, <3>1, SlotOwner DEF SeedEmpty, TriggerSlots
    <3> QED
      BY <2>1, <2>3, <3>1, <3>2, <3>3 DEF EdgeAccount
  <2>4. CASE z \in Reachable /\ Conn[e].from \notin Reachable
    <3>1. Supply(e) = 1 /\ Landed(z) = 0 /\ Refunding(z) = 0
      BY <1>2, <1>t, <2>4 DEF Supply
    <3>2. p \in Slots => free[p] \in {0, 1} /\ data[e] = 0
      BY <1>1, <2>1, PlainShape DEF JoinNodes
    <3> QED
      BY <2>1, <2>4, <3>1, <3>2 DEF EdgeAccount
  <2> QED
    BY <2>2, <2>3, <2>4
<1>5. SourceAccount
  <2>1. data[0] \in {0, 1} /\ Landed(Trigger) = 0 /\ Refunding(Trigger) = 0
    BY <1>1, <1>2, <1>t
  <2> QED
    BY <2>1 DEF SourceAccount
<1> QED
  BY <1>3, <1>4, <1>5 DEF Accounts

\* Accounts leave no node a second start.
LEMMA OneStart ==
  ASSUME TypeOK, Accounts, NEW x \in Nodes
  PROVE  ~ (Cardinality(Started(x)) > 1)
<1>1. NodeAccount(x)
  BY DEF Accounts
<1>2. CASE x \notin Reachable
  BY <1>1, <1>2, FS_EmptySet DEF NodeAccount
<1>3. CASE x \in Reachable
  <2> DEFINE A == RunsIn(x, LandedStages)
             B == RunsIn(x, {"starting"})
  <2>1. Started(x) = A \cup B /\ A \cap B = {}
    BY DEF Started, RunsIn, LandedStages, TypeOK, Activations
  <2>2. IsFiniteSet(A) /\ IsFiniteSet(B)
    BY FiniteRuns, FS_Subset DEF RunsIn
  <2>3. Cardinality(A) \in Nat /\ Cardinality(B) \in Nat /\ skipped[x] \in Nat
    BY <2>2, FS_CardinalityType DEF TypeOK
  <2>4. Cardinality(A) + skipped[x] + Refunding(x) <= 1 /\ Refunding(x) \in {Cardinality(B), Cardinality(B) + 1}
    BY <1>1, <1>3, <2>3 DEF NodeAccount, Landed, Refunding
  <2> HIDE DEF A, B
  <2>5. Cardinality(Started(x)) = Cardinality(A) + Cardinality(B) - Cardinality(A \cap B)
    BY <2>1, <2>2, FS_Union
  <2> QED
    BY <2>1, <2>3, <2>4, <2>5, FS_EmptySet
<1> QED
  BY <1>2, <1>3

\* One unit, or one start per node.
LEMMA RepeatsByAccounts ==
  ASSUME TypeOK, BudgetConserved, Plain => Accounts
  PROVE  RepeatsRunAlone
<1>1. CASE Plain
  BY <1>1, OneStart DEF RepeatsRunAlone
<1>2. CASE ~Plain
  <2>1. Units = 1
    BY <1>2 DEF Plain, Units, EffectiveBudget
  <2>2. IsFiniteSet(Holders)
    BY FiniteActivations, FS_Subset DEF Holders
  <2>3. Cardinality(Holders) \in Nat /\ budget \in Nat
    BY <2>2, FS_CardinalityType DEF TypeOK
  <2>4. Cardinality(Holders) <= 1
    BY <2>1, <2>3 DEF BudgetConserved
  <2> QED
    BY <2>4 DEF RepeatsRunAlone
<1> QED
  BY <1>1, <1>2

(***************************************************************************)
(* The k-safety rule is enough: whatever the graph, the requested budget,  *)
(* the failures and the order of the steps, no node runs a second time     *)
(* beside another run.  Where the rule leaves k alone no node runs twice,  *)
(* and where a node may, one unit is all there is.                         *)
(***************************************************************************)
THEOREM RepeatsAreAlone ==
  ASSUME PrimaryIsFirst
  PROVE  Spec => []RepeatsRunAlone
<1> DEFINE Settled == Plain => Accounts
           AllHoldOne == \A p \in Slots : HoldsOne(p)
<1>1. Init => Settled
  BY InitAccounts
<1>2. TypeOK /\ AllHoldOne /\ Settled /\ [Next]_vars => Settled'
  <2>1. Plain' = Plain
    BY DEF Plain, Cyclic, MultiProducer, TreeEdges, SameScc, ReachOf, Walk, Succ, Edges, Incoming,
           WiredInputs
  <2> QED
    BY <2>1, AccountsStep
<1>3. Init => AllHoldOne
  BY InitHoldsOne
<1>4. TypeOK /\ AllHoldOne /\ [Next]_vars => AllHoldOne'
  <2>1. Slots' = Slots
    BY DEF Slots, SlotsOf, JoinNodes
  <2> QED
    BY <2>1, SlotStep
<1>5. TypeOK /\ BudgetConserved /\ Settled => RepeatsRunAlone
  BY RepeatsByAccounts
<1> HIDE DEF Settled, AllHoldOne
<1> QED
  BY <1>1, <1>2, <1>3, <1>4, <1>5, TypeCorrect, BudgetIsConserved, PTL DEF Spec

\* An execution with one start node needs no such assumption: an edge from what the
\* trigger reaches back to it closes a cycle.
LEMMA OneStartNodeIsFirst ==
  ASSUME StartNodes = {Trigger}
  PROVE  PrimaryIsFirst
<1> SUFFICES ASSUME NEW e \in Incoming(Trigger), Conn[e].from \in Reachable
             PROVE  Cyclic # {}
  BY DEF PrimaryIsFirst
<1> DEFINE y == Conn[e].from
<1>1. e \in Edges /\ Conn[e].to = Trigger /\ y \in Nodes /\ Trigger \in Nodes
  BY GraphAssumption DEF Incoming
<1>2. y \in ReachOf[Trigger]
  BY <1>1 DEF ReachOf, Reachable
<1>3. y \in Walk({y}, {}) /\ Closed(Walk({y}, {}))
  BY <1>1, WalkIsClosed
<1>4. Trigger \in ReachOf[y]
  BY <1>1, <1>3 DEF Closed, ReachOf
<1>5. e \notin TreeEdges
  BY <1>1, <1>2, <1>4 DEF TreeEdges, SameScc
<1> QED
  BY <1>1, <1>5 DEF Cyclic

\* With a single start node the k-safety rule is enough whatever the rest of the graph.
THEOREM OneStartRepeatsAlone ==
  ASSUME StartNodes = {Trigger}
  PROVE  Spec => []RepeatsRunAlone
BY OneStartNodeIsFirst, RepeatsAreAlone

=============================================================================
