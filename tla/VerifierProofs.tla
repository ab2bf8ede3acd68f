---------------------------- MODULE VerifierProofs ----------------------------
(***************************************************************************)
(* Proofs about a verify command (Verifier), for any net, caps, options    *)
(* and witness.                                                            *)
(*                                                                         *)
(* A report is right because of what the search keeps: it has found only   *)
(* classes a run can reach, and of the classes it has taken it holds every *)
(* move and every target.  Where it was not cut that is all of the net;    *)
(* where it was, the shortest walk out of the expanded classes counts the  *)
(* runs of cyclic nodes within which it is.  Each verdict follows from     *)
(* what the graph, a certificate or the solver says.                       *)
(*                                                                         *)
(* Recursion is over naturals; an induction is stated of the set of the    *)
(* numbers for which its claim holds (NatStep), which has no least         *)
(* exception.                                                              *)
(***************************************************************************)
EXTENDS Verifier, FiniteSetTheorems, WellFoundedInduction, TLAPS

-----------------------------------------------------------------------------
(* A set of naturals that is not empty has a least element. *)
LEMMA LeastNat ==
  ASSUME NEW T \in SUBSET Nat, T # {}
  PROVE  \E x \in T : \A y \in T : x <= y
<1>1. PICK x \in T : \A y \in T : ~ (<<y, x>> \in OpToRel(<, Nat))
  BY NatLessThanWellFounded, WFMin, Zenon
<1>2. \A y \in T : ~ (y < x)
  BY <1>1, Zenon DEF OpToRel
<1>. QED BY <1>2

(* Induction, stated of sets. *)
LEMMA NatStep ==
  ASSUME NEW S, 0 \in S, \A k \in Nat : k \in S => k + 1 \in S
  PROVE  \A k \in Nat : k \in S
<1>. DEFINE T == {k \in Nat : k \notin S}
<1>1. SUFFICES ASSUME T # {} PROVE FALSE
  OBVIOUS
<1>2. PICK x \in T : \A y \in T : x <= y
  BY <1>1, LeastNat
<1>3. x \in Nat /\ x # 0 /\ x - 1 \in Nat
  BY <1>2
<1>4. x - 1 \in S
  BY <1>2, <1>3
<1>5. x \in S
  BY <1>3, <1>4
<1>. QED BY <1>2, <1>5

(* Min, of FiniteSetsExt, where there is a least element. *)
LEMMA MinIsLeast ==
  ASSUME NEW T \in SUBSET Nat, T # {}
  PROVE  Min(T) \in T /\ \A y \in T : Min(T) <= y
<1>1. \E x \in T : \A y \in T : x <= y
  BY LeastNat
<1>. QED BY <1>1, Zenon DEF Min

(* The greatest of a bounded set, as the least of the bounds it leaves. *)
LEMMA MaxIsGreatest ==
  ASSUME NEW b \in Nat, NEW T \in SUBSET (0 .. b), T # {}
  PROVE  Max(T) \in T /\ \A y \in T : Max(T) >= y
<1>. DEFINE U == {b - x : x \in T}
<1>1. U \in SUBSET Nat /\ U # {}
  <2>1. \A x \in T : b - x \in Nat
    OBVIOUS
  <2>2. \E x \in T : TRUE
    OBVIOUS
  <2>. QED BY <2>1, <2>2, Zenon
<1>2. PICK u \in U : \A v \in U : u <= v
  BY <1>1, LeastNat
<1>3. PICK x \in T : u = b - x
  BY <1>2
<1>4. \A y \in T : b - y \in U
  OBVIOUS
<1>5. \A y \in T : x >= y
  <2>1. TAKE y \in T
  <2>2. b - x <= b - y
    BY <1>2, <1>3, <1>4
  <2>. HIDE DEF U
  <2>. QED BY <2>2
<1>. QED BY <1>5, Zenon DEF Max

(* What is below zero is counted as none. *)
LEMMA MaxWithZero ==
  ASSUME NEW x \in Int
  PROVE  Max({0, x}) = IF x >= 0 THEN x ELSE 0
<1>1. \E y \in {0, x} : \A z \in {0, x} : y >= z
  <2>1. x \in {0, x} /\ 0 \in {0, x}
    OBVIOUS
  <2>2. CASE x >= 0
    <3>1. \A z \in {0, x} : x >= z
      BY <2>2
    <3>. QED BY <3>1, <2>1
  <2>3. CASE ~ (x >= 0)
    <3>1. \A z \in {0, x} : 0 >= z
      BY <2>3
    <3>. QED BY <3>1, <2>1
  <2>. QED BY <2>2, <2>3
<1>2. Max({0, x}) \in {0, x} /\ \A z \in {0, x} : Max({0, x}) >= z
  BY <1>1, Zenon DEF Max
<1>. QED BY <1>2

(* The order in which libpetri finds a set of classes: each once. *)
LEMMA SetToSeqLists ==
  ASSUME NEW S, IsFiniteSet(S)
  PROVE  /\ Cardinality(S) \in Nat
         /\ SetToSeq(S) \in [1 .. Cardinality(S) -> S]
         /\ IsInjective(SetToSeq(S))
         /\ \A x \in S : \E i \in 1 .. Cardinality(S) : SetToSeq(S)[i] = x
<1>1. Cardinality(S) \in Nat /\ ExistsBijection(1 .. Cardinality(S), S)
  BY FS_CardinalityType
<1>2. \E f \in [1 .. Cardinality(S) -> S] : IsInjective(f)
  BY <1>1, Zenon DEF ExistsBijection, Bijection, Injection
<1>3. SetToSeq(S) \in [1 .. Cardinality(S) -> S] /\ IsInjective(SetToSeq(S))
  BY <1>2, Zenon DEF SetToSeq
<1>4. SetToSeq(S) \in Injection(1 .. Cardinality(S), S)
  BY <1>3, Zenon DEF Injection
<1>5. IsFiniteSet(1 .. Cardinality(S)) /\ Cardinality(1 .. Cardinality(S)) = Cardinality(S)
  BY <1>1, FS_Interval
<1>6. SetToSeq(S) \in Surjection(1 .. Cardinality(S), S)
  BY <1>4, <1>5, FS_Injection, Zenon
<1>. QED BY <1>1, <1>3, <1>6, Zenon DEF Surjection

-----------------------------------------------------------------------------
(* The exploration step by step, and the walks: the recursive functions they are defined by exist. *)
Begun == [found |-> <<1>>, head |-> 0]

(* The search is a function of how many classes it has taken, and each entry a step from the one before. *)
LEMMA PoppedSteps ==
  ASSUME NEW n, Len(n.marks) \in Nat, NEW cap
  PROVE  /\ Popped(n, cap)[0] = Begun
         /\ \A i \in 1 .. Len(n.marks) : Popped(n, cap)[i] = Pop(n, cap, Popped(n, cap)[i - 1])
<1>. DEFINE Is(f, k) == f = [i \in 0 .. k |-> IF i = 0 THEN Begun ELSE Pop(n, cap, f[i - 1])]
            S == {k \in Nat : \E f : Is(f, k)}
<1>1. 0 \in S
  <2>. DEFINE f == [i \in 0 .. 0 |-> Begun]
  <2>1. Is(f, 0)
    OBVIOUS
  <2>. QED BY <2>1
<1>2. ASSUME NEW k \in Nat, k \in S PROVE k + 1 \in S
  <2>1. PICK f : Is(f, k)
    BY <1>2
  <2>. DEFINE h == [i \in 0 .. k + 1 |-> IF i = 0 THEN Begun ELSE Pop(n, cap, f[i - 1])]
  <2>2. \A i \in 0 .. k : h[i] = f[i]
    <3>1. \A i \in 0 .. k : i \in 0 .. k + 1
      OBVIOUS
    <3>. QED BY <2>1, <3>1, Zenon
  <2>3. \A i \in 0 .. k + 1 : i # 0 => i - 1 \in 0 .. k
    OBVIOUS
  <2>4. Is(h, k + 1)
    BY <2>2, <2>3
  <2>5. \E f1 : Is(f1, k + 1)
    <3>. HIDE DEF h
    <3>. QED BY <2>4, Zenon
  <2>6. k + 1 \in Nat
    OBVIOUS
  <2>. QED BY <2>5, <2>6, Zenon
<1>3. \A k \in Nat : k \in S
  <2>. HIDE DEF S
  <2>. QED BY <1>1, <1>2, NatStep, Zenon
<1>4. \E f : Is(f, Len(n.marks))
  BY <1>3
<1>5. Is(Popped(n, cap), Len(n.marks))
  BY <1>4, Zenon DEF Popped, Begun
<1>6. \A i \in 0 .. Len(n.marks) :
        Popped(n, cap)[i] = IF i = 0 THEN Begun ELSE Pop(n, cap, Popped(n, cap)[i - 1])
  BY <1>5, Zenon
<1>7. 0 \in 0 .. Len(n.marks) /\ \A i \in 1 .. Len(n.marks) : i \in 0 .. Len(n.marks) /\ i # 0
  OBVIOUS
<1>. QED BY <1>6, <1>7, Zenon

(* The classes of a net, and the moves after which the longest walk counted has ended. *)
Classes(n) == 1 .. Len(n.marks)
Top(n, most) == Len(n.marks) * (most + 1)

(* The walks are a function of their length, and each entry a move on from the one before. *)
LEMMA WalksSteps ==
  ASSUME NEW n, NEW moves, NEW most, Top(n, most) \in Nat
  PROVE  /\ Walks(n, moves, most)[0] = {<<1, 0>>}
         /\ \A i \in 1 .. Top(n, most) :
              Walks(n, moves, most)[i] = Onwards(n, moves, most, Walks(n, moves, most)[i - 1])
<1>. DEFINE Is(f, k) == f = [i \in 0 .. k |-> IF i = 0 THEN {<<1, 0>>} ELSE Onwards(n, moves, most, f[i - 1])]
            S == {k \in Nat : \E f : Is(f, k)}
<1>1. 0 \in S
  <2>. DEFINE f == [i \in 0 .. 0 |-> {<<1, 0>>}]
  <2>1. Is(f, 0)
    OBVIOUS
  <2>. QED BY <2>1
<1>2. ASSUME NEW k \in Nat, k \in S PROVE k + 1 \in S
  <2>1. PICK f : Is(f, k)
    BY <1>2
  <2>. DEFINE h == [i \in 0 .. k + 1 |-> IF i = 0 THEN {<<1, 0>>} ELSE Onwards(n, moves, most, f[i - 1])]
  <2>2. \A i \in 0 .. k : h[i] = f[i]
    <3>1. \A i \in 0 .. k : i \in 0 .. k + 1
      OBVIOUS
    <3>. QED BY <2>1, <3>1, Zenon
  <2>3. \A i \in 0 .. k + 1 : i # 0 => i - 1 \in 0 .. k
    OBVIOUS
  <2>4. Is(h, k + 1)
    BY <2>2, <2>3, Zenon
  <2>5. \E f1 : Is(f1, k + 1)
    <3>. HIDE DEF h
    <3>. QED BY <2>4, Zenon
  <2>6. k + 1 \in Nat
    OBVIOUS
  <2>. QED BY <2>5, <2>6, Zenon
<1>3. \A k \in Nat : k \in S
  <2>. HIDE DEF S
  <2>. QED BY <1>1, <1>2, NatStep, Zenon
<1>4. \E f : Is(f, Top(n, most))
  BY <1>3
<1>5. Is(Walks(n, moves, most), Top(n, most))
  BY <1>4, Zenon DEF Walks, Top
<1>6. \A i \in 0 .. Top(n, most) :
        Walks(n, moves, most)[i] = IF i = 0 THEN {<<1, 0>>} ELSE Onwards(n, moves, most, Walks(n, moves, most)[i - 1])
  BY <1>5, Zenon
<1>7. 0 \in 0 .. Top(n, most) /\ \A i \in 1 .. Top(n, most) : i \in 0 .. Top(n, most) /\ i # 0
  OBVIOUS
<1>. QED BY <1>6, <1>7, Zenon

(* One move on from every walk, within the weight allowed. *)
LEMMA OnwardsIs ==
  ASSUME NEW n, NEW moves, NEW most, NEW before, NEW y
  PROVE  y \in Onwards(n, moves, most, before)
         <=> \/ y \in before
             \/ \E v \in before, m \in moves :
                  v[1] = m[1] /\ v[2] + Weight(n, m) <= most /\ y = <<m[3], v[2] + Weight(n, m)>>
<1>. DEFINE U == {x \in before \X moves : x[1][1] = x[2][1] /\ x[1][2] + Weight(n, x[2]) <= most}
<1>1. Onwards(n, moves, most, before)
      = before \cup {<<x[2][3], x[1][2] + Weight(n, x[2])>> : x \in U}
  BY Zenon DEF Onwards
<1>2. \A x \in U : x[1] \in before /\ x[2] \in moves /\ x[1][1] = x[2][1] /\ x[1][2] + Weight(n, x[2]) <= most
  OBVIOUS
<1>3. ASSUME NEW v \in before, NEW m \in moves, v[1] = m[1], v[2] + Weight(n, m) <= most
      PROVE  <<v, m>> \in U /\ <<v, m>>[1] = v /\ <<v, m>>[2] = m
  BY <1>3
<1>4. (\E x \in U : y = <<x[2][3], x[1][2] + Weight(n, x[2])>>)
      <=> \E v \in before, m \in moves :
            v[1] = m[1] /\ v[2] + Weight(n, m) <= most /\ y = <<m[3], v[2] + Weight(n, m)>>
  <2>. HIDE DEF U
  <2>1. ASSUME NEW x \in U, y = <<x[2][3], x[1][2] + Weight(n, x[2])>>
        PROVE  \E v \in before, m \in moves :
                 v[1] = m[1] /\ v[2] + Weight(n, m) <= most /\ y = <<m[3], v[2] + Weight(n, m)>>
    BY <1>2, <2>1, Zenon
  <2>2. ASSUME NEW v \in before, NEW m \in moves,
               v[1] = m[1], v[2] + Weight(n, m) <= most, y = <<m[3], v[2] + Weight(n, m)>>
        PROVE  \E x \in U : y = <<x[2][3], x[1][2] + Weight(n, x[2])>>
    <3>1. <<v, m>> \in U /\ <<v, m>>[1] = v /\ <<v, m>>[2] = m
      BY <1>3, <2>2
    <3>. DEFINE x == <<v, m>>
    <3>2. y = <<x[2][3], x[1][2] + Weight(n, x[2])>>
      BY <3>1, <2>2
    <3>. QED BY <3>1, <3>2, Zenon
  <2>. QED BY <2>1, <2>2, Zenon
<1>. QED BY <1>1, <1>4, Zenon

(* A move weighs one where it runs a node of a cycle, and nothing elsewhere. *)
LEMMA WeightIsOneOrNone ==
  ASSUME NEW n, NEW m
  PROVE  Weight(n, m) \in {0, 1}
BY DEF Weight

(* The length to which walks are taken bounds the number of classes. *)
LEMMA TopIsNat ==
  ASSUME NEW n, IsNet(n), NEW most \in Nat
  PROVE  Top(n, most) \in Nat /\ Len(n.marks) \in Nat /\ Top(n, most) >= 1 /\ Top(n, most) >= Len(n.marks)
<1>1. Len(n.marks) \in Nat \ {0}
  BY DEF IsNet
<1>2. \A a \in Nat \ {0}, b \in Nat : a * (b + 1) \in Nat /\ a * (b + 1) >= a
  OBVIOUS
<1>3. Top(n, most) \in Nat /\ Top(n, most) >= Len(n.marks)
  BY <1>1, <1>2, Zenon DEF Top
<1>. QED BY <1>1, <1>3

(* What a walk is after so many moves: a class it is in, and a weight within the bound. *)
LEMMA WalksGrow ==
  ASSUME NEW n, IsNet(n), NEW moves \in SUBSET n.moves, NEW most \in Nat
  PROVE  /\ Walks(n, moves, most)[0] = {<<1, 0>>}
         /\ \A i \in 0 .. Top(n, most) : i + 1 \in 0 .. Top(n, most) =>
              Walks(n, moves, most)[i + 1] = Onwards(n, moves, most, Walks(n, moves, most)[i])
         /\ \A i, j \in 0 .. Top(n, most) : i <= j => Walks(n, moves, most)[i] \subseteq Walks(n, moves, most)[j]
         /\ LoopRuns(n, moves, most) = Walks(n, moves, most)[Top(n, most)]
         /\ \A i \in 0 .. Top(n, most) : \A y \in Walks(n, moves, most)[i] :
              y = <<y[1], y[2]>> /\ y[1] \in Classes(n) /\ y[2] \in 0 .. most
<1>. DEFINE top == Top(n, most)  W == Walks(n, moves, most)
<1>1. top \in Nat
  BY TopIsNat
<1>2. W[0] = {<<1, 0>>} /\ \A i \in 1 .. top : W[i] = Onwards(n, moves, most, W[i - 1])
  BY <1>1, WalksSteps
<1>. HIDE DEF W, top
<1>3. \A i \in 0 .. top : i + 1 \in 0 .. top => W[i + 1] = Onwards(n, moves, most, W[i])
  <2>1. TAKE i \in 0 .. top
  <2>2. HAVE i + 1 \in 0 .. top
  <2>3. i + 1 \in 1 .. top /\ (i + 1) - 1 = i
    BY <1>1, <2>2
  <2>. QED BY <1>2, <2>3
<1>4. \A i \in 0 .. top : i + 1 \in 0 .. top => W[i] \subseteq W[i + 1]
  <2>1. \A y : \A i \in 0 .. top : i + 1 \in 0 .. top /\ y \in W[i] => y \in Onwards(n, moves, most, W[i])
    BY OnwardsIs, Zenon
  <2>. QED BY <1>3, <2>1, Zenon
<1>5. \A k \in Nat : \A i \in 0 .. top : i + k \in 0 .. top => W[i] \subseteq W[i + k]
  <2>. DEFINE S == {k \in Nat : \A i \in 0 .. top : i + k \in 0 .. top => W[i] \subseteq W[i + k]}
  <2>1. 0 \in S
    BY <1>1
  <2>2. ASSUME NEW k \in Nat, k \in S PROVE k + 1 \in S
    <3>1. ASSUME NEW i \in 0 .. top, i + (k + 1) \in 0 .. top PROVE W[i] \subseteq W[i + (k + 1)]
      <4>1. i + k \in 0 .. top /\ (i + k) + 1 \in 0 .. top /\ i + (k + 1) = (i + k) + 1
        BY <1>1, <3>1
      <4>2. W[i] \subseteq W[i + k]
        BY <2>2, <4>1
      <4>3. W[i + k] \subseteq W[(i + k) + 1]
        BY <1>4, <4>1
      <4>. QED BY <4>1, <4>2, <4>3
    <3>. QED BY <3>1
  <2>3. \A k \in Nat : k \in S
    <3>. HIDE DEF S
    <3>. QED BY <2>1, <2>2, NatStep, Zenon
  <2>. QED BY <2>3
<1>6. \A i, j \in 0 .. top : i <= j => W[i] \subseteq W[j]
  <2>1. TAKE i, j \in 0 .. top
  <2>2. HAVE i <= j
  <2>3. j - i \in Nat /\ i + (j - i) = j
    BY <1>1, <2>2
  <2>. QED BY <1>5, <2>3
<1>. DEFINE Typed(i) == \A y \in W[i] : y = <<y[1], y[2]>> /\ y[1] \in Classes(n) /\ y[2] \in 0 .. most
<1>7. \A i \in Nat : i \in 0 .. top => Typed(i)
  <2>. DEFINE S == {i \in Nat : i \in 0 .. top => Typed(i)}
  <2>1. 0 \in S
    <3>1. <<1, 0>>[1] = 1 /\ <<1, 0>>[2] = 0
      OBVIOUS
    <3>2. 1 \in Classes(n)
      BY DEF Classes, IsNet
    <3>. QED BY <1>2, <3>1, <3>2
  <2>2. ASSUME NEW k \in Nat, k \in S PROVE k + 1 \in S
    <3>1. SUFFICES ASSUME k + 1 \in 0 .. top, NEW y \in W[k + 1]
                   PROVE y = <<y[1], y[2]>> /\ y[1] \in Classes(n) /\ y[2] \in 0 .. most
      OBVIOUS
    <3>2. k \in 0 .. top /\ Typed(k)
      BY <1>1, <2>2, <3>1
    <3>3. y \in Onwards(n, moves, most, W[k])
      BY <1>3, <3>1, <3>2
    <3>4. CASE y \in W[k]
      BY <3>2, <3>4
    <3>5. CASE \E v \in W[k], m \in moves :
                 v[1] = m[1] /\ v[2] + Weight(n, m) <= most /\ y = <<m[3], v[2] + Weight(n, m)>>
      <4>1. PICK v \in W[k], m \in moves : v[2] + Weight(n, m) <= most /\ y = <<m[3], v[2] + Weight(n, m)>>
        BY <3>5, Zenon
      <4>2. m[3] \in Classes(n)
        BY DEF IsNet, Classes
      <4>3. v[2] + Weight(n, m) \in 0 .. most
        BY <3>2, <4>1, WeightIsOneOrNone
      <4>4. y[1] = m[3] /\ y[2] = v[2] + Weight(n, m)
        BY <4>1
      <4>. QED BY <4>1, <4>2, <4>3, <4>4, Zenon
    <3>6. y \in W[k] \/ \E v \in W[k], m \in moves :
                 v[1] = m[1] /\ v[2] + Weight(n, m) <= most /\ y = <<m[3], v[2] + Weight(n, m)>>
      <4>. DEFINE B == W[k]
      <4>1. y \in Onwards(n, moves, most, B)
        BY <3>3
      <4>. HIDE DEF B
      <4>2. y \in B \/ \E v \in B, m \in moves :
                 v[1] = m[1] /\ v[2] + Weight(n, m) <= most /\ y = <<m[3], v[2] + Weight(n, m)>>
        BY <4>1, OnwardsIs
      <4>. QED BY <4>2, Zenon DEF B
    <3>. QED BY <3>4, <3>5, <3>6, Zenon
  <2>3. \A k \in Nat : k \in S
    <3>. HIDE DEF S
    <3>. QED BY <2>1, <2>2, NatStep, Zenon
  <2>. QED BY <2>3
<1>8. \A i \in 0 .. top : Typed(i)
  BY <1>1, <1>7
<1>9. LoopRuns(n, moves, most) = W[top]
  BY Zenon DEF LoopRuns, W, top, Top
<1>. QED BY <1>2, <1>3, <1>6, <1>8, <1>9, Zenon DEF W, top

-----------------------------------------------------------------------------
(* The same net with every node run free of charge, by which Reachable counts its walks. *)
Plain(n) == [n EXCEPT !.loops = {}]
PlainWalks(n) == Walks(Plain(n), n.moves, 0)

(* The net with nothing weighed: its walks are the plain reachability of classes. *)
LEMMA PlainIsNet ==
  ASSUME NEW n, IsNet(n)
  PROVE  /\ IsNet(Plain(n))
         /\ Plain(n).marks = n.marks /\ Plain(n).moves = n.moves
         /\ Top(Plain(n), 0) = Len(n.marks) /\ Classes(Plain(n)) = Classes(n)
         /\ \A m : Weight(Plain(n), m) = 0
<1>1. Plain(n).marks = n.marks /\ Plain(n).moves = n.moves /\ Plain(n).loops = {}
  BY DEF IsNet, Plain
<1>2. DOMAIN Plain(n) = DOMAIN n
  BY DEF Plain
<1>3. IsNet(Plain(n))
  BY <1>1, <1>2, Zenon DEF IsNet
<1>4. \A m : Weight(Plain(n), m) = 0
  BY <1>1 DEF Weight
<1>5. Top(Plain(n), 0) = Len(n.marks)
  <2>1. Len(n.marks) \in Nat
    BY DEF IsNet
  <2>. QED BY <1>1, <2>1 DEF Top
<1>. QED BY <1>1, <1>3, <1>4, <1>5, Zenon DEF Classes

(* Plain walks end in every class of Reachable, and in no other. *)
LEMMA PlainWalksGrow ==
  ASSUME NEW n, IsNet(n)
  PROVE  /\ PlainWalks(n)[0] = {<<1, 0>>}
         /\ \A i, j \in 0 .. Len(n.marks) : i <= j => PlainWalks(n)[i] \subseteq PlainWalks(n)[j]
         /\ Reachable(n) = {y[1] : y \in PlainWalks(n)[Len(n.marks)]}
         /\ \A i \in 0 .. Len(n.marks) : \A y \in PlainWalks(n)[i] : y[1] \in Classes(n) /\ y = <<y[1], 0>>
         /\ \A i \in 0 .. Len(n.marks) : i + 1 \in 0 .. Len(n.marks) =>
              /\ \A y \in PlainWalks(n)[i], m \in n.moves : m[1] = y[1] => <<m[3], 0>> \in PlainWalks(n)[i + 1]
              /\ \A y \in PlainWalks(n)[i + 1] :
                   \/ y \in PlainWalks(n)[i]
                   \/ \E v \in PlainWalks(n)[i], m \in n.moves : v[1] = m[1] /\ y[1] = m[3]
<1>. DEFINE P == Plain(n)  W == PlainWalks(n)  N == Len(n.marks)
<1>1. IsNet(P) /\ P.moves = n.moves /\ Top(P, 0) = N /\ Classes(P) = Classes(n) /\ \A m : Weight(P, m) = 0
  BY PlainIsNet
<1>2. n.moves \in SUBSET P.moves /\ 0 \in Nat
  BY <1>1
<1>3. W = Walks(P, n.moves, 0) /\ Reachable(n) = {y[1] : y \in LoopRuns(P, n.moves, 0)}
  BY DEF PlainWalks, Reachable, Plain
<1>. HIDE DEF P, W, N
<1>4. /\ W[0] = {<<1, 0>>}
      /\ \A i \in 0 .. N : i + 1 \in 0 .. N => W[i + 1] = Onwards(P, n.moves, 0, W[i])
      /\ \A i, j \in 0 .. N : i <= j => W[i] \subseteq W[j]
      /\ LoopRuns(P, n.moves, 0) = W[N]
      /\ \A i \in 0 .. N : \A y \in W[i] : y = <<y[1], y[2]>> /\ y[1] \in Classes(n) /\ y[2] \in 0 .. 0
  <2>. DEFINE V == Walks(P, n.moves, 0)  T == Top(P, 0)
  <2>1. /\ V[0] = {<<1, 0>>}
        /\ \A i \in 0 .. T : i + 1 \in 0 .. T => V[i + 1] = Onwards(P, n.moves, 0, V[i])
        /\ \A i, j \in 0 .. T : i <= j => V[i] \subseteq V[j]
        /\ LoopRuns(P, n.moves, 0) = V[T]
        /\ \A i \in 0 .. T : \A y \in V[i] : y = <<y[1], y[2]>> /\ y[1] \in Classes(P) /\ y[2] \in 0 .. 0
    BY <1>1, <1>2, WalksGrow
  <2>2. V = W /\ T = N
    BY <1>1, <1>3
  <2>. HIDE DEF V, T
  <2>. QED BY <1>1, <2>1, <2>2
<1>5. \A i \in 0 .. N : \A y \in W[i] : y[1] \in Classes(n) /\ y = <<y[1], 0>> /\ y[2] = 0
  BY <1>4
<1>6. ASSUME NEW i \in 0 .. N, i + 1 \in 0 .. N
      PROVE  /\ \A y \in W[i], m \in n.moves : m[1] = y[1] => <<m[3], 0>> \in W[i + 1]
             /\ \A y \in W[i + 1] :
                   y \in W[i] \/ \E v \in W[i], m \in n.moves : v[1] = m[1] /\ y[1] = m[3]
  <2>1. W[i + 1] = Onwards(P, n.moves, 0, W[i])
    BY <1>4, <1>6
  <2>2. \A y : y \in Onwards(P, n.moves, 0, W[i])
         <=> \/ y \in W[i]
             \/ \E v \in W[i], m \in n.moves :
                  v[1] = m[1] /\ v[2] + Weight(P, m) <= 0 /\ y = <<m[3], v[2] + Weight(P, m)>>
    <3>. DEFINE B == W[i]  M == n.moves
    <3>. HIDE DEF B, M
    <3>1. \A y : y \in Onwards(P, M, 0, B)
            <=> \/ y \in B
                \/ \E v \in B, m \in M :
                     v[1] = m[1] /\ v[2] + Weight(P, m) <= 0 /\ y = <<m[3], v[2] + Weight(P, m)>>
      BY OnwardsIs
    <3>. QED BY <3>1, Zenon DEF B, M
  <2>3. \A v \in W[i], m \in n.moves : v[2] + Weight(P, m) = 0 /\ v[2] + Weight(P, m) <= 0
    BY <1>1, <1>5
  <2>4. ASSUME NEW y \in W[i], NEW m \in n.moves, m[1] = y[1] PROVE <<m[3], 0>> \in W[i + 1]
    BY <2>1, <2>2, <2>3, <2>4, Zenon
  <2>5. ASSUME NEW y \in W[i + 1], y \notin W[i]
        PROVE  \E v \in W[i], m \in n.moves : v[1] = m[1] /\ y[1] = m[3]
    <3>1. y \in Onwards(P, n.moves, 0, W[i])
      BY <2>1, <2>5, Zenon
    <3>2. PICK v \in W[i], m \in n.moves : v[1] = m[1] /\ y = <<m[3], v[2] + Weight(P, m)>>
      BY <2>2, <2>5, <3>1, Zenon
    <3>3. y[1] = m[3]
      BY <3>2
    <3>. QED BY <3>2, <3>3
  <2>. QED BY <2>4, <2>5, Zenon
<1>. QED BY <1>3, <1>4, <1>5, <1>6, Zenon DEF W, N

-----------------------------------------------------------------------------
(* What has been found and popped: each class once, the initial one first, the successors  *)
(* of every class popped, and only what that many moves can reach.                         *)
Lists(n, g) ==
  /\ g.found \in Seq(Classes(n)) /\ Len(g.found) >= 1 /\ g.found[1] = 1
  /\ g.head \in 0 .. Len(g.found)
  /\ \A i, j \in 1 .. Len(g.found) : g.found[i] = g.found[j] => i = j
SuccessorsFound(n, g) ==
  \A i \in 1 .. g.head : \A m \in Leaving(n.moves, g.found[i]) :
    \E j \in 1 .. Len(g.found) : g.found[j] = m[3]
FoundBy(n, i, g) == \A j \in 1 .. Len(g.found) : <<g.found[j], 0>> \in PlainWalks(n)[i]
Explored(n, i, g) == Lists(n, g) /\ SuccessorsFound(n, g) /\ FoundBy(n, i, g)

NewOnes(n, g) == {m[3] : m \in Leaving(n.moves, g.found[g.head + 1])} \ ToSet(g.found)
ListsOnce(t, A) ==
  /\ \A i \in 1 .. Len(t) : t[i] \in A
  /\ \A i, j \in 1 .. Len(t) : t[i] = t[j] => i = j
  /\ \A x \in A : \E i \in 1 .. Len(t) : t[i] = x

(* What a step of the search adds: each new target of the class it takes, once. *)
LEMMA NewClassesAre ==
  ASSUME NEW n, IsNet(n), NEW g, Lists(n, g), g.head < Len(g.found)
  PROVE  NewClasses(n, g) \in Seq(Classes(n)) /\ ListsOnce(NewClasses(n, g), NewOnes(n, g))
<1>. DEFINE t == NewClasses(n, g)
            A == NewOnes(n, g)
            K == Cardinality(A)
<1>1. t = SetToSeq(A)
  BY Zenon DEF NewClasses, NewOnes
<1>2. A \subseteq Classes(n)
  BY DEF Leaving, IsNet, Classes, NewOnes
<1>3. IsFiniteSet(Classes(n))
  BY FS_Interval DEF IsNet, Classes
<1>4. IsFiniteSet(A)
  BY <1>2, <1>3, FS_Subset, Zenon
<1>. HIDE DEF t, A, K
<1>5. K \in Nat /\ t \in [1 .. K -> A] /\ IsInjective(t) /\ \A x \in A : \E i \in 1 .. K : t[i] = x
  BY <1>1, <1>4, SetToSeqLists, Zenon DEF K
<1>6. t \in Seq(Classes(n)) /\ Len(t) = K /\ DOMAIN t = 1 .. K
  BY <1>2, <1>5
<1>7. \A i, j \in 1 .. Len(t) : t[i] = t[j] => i = j
  BY <1>5, <1>6, Zenon DEF IsInjective
<1>8. \A i \in 1 .. Len(t) : t[i] \in A
  BY <1>5, <1>6
<1>9. \A x \in A : \E i \in 1 .. Len(t) : t[i] = x
  BY <1>5, <1>6
<1>. QED BY <1>6, <1>7, <1>8, <1>9, Zenon DEF t, A, ListsOnce

(* A step of the search keeps what is known of it (Explored). *)
LEMMA PopExplores ==
  ASSUME NEW n, IsNet(n), NEW cap, NEW g, NEW i \in 0 .. Len(n.marks), i + 1 \in 0 .. Len(n.marks),
         Explored(n, i, g)
  PROVE  Explored(n, i + 1, Pop(n, cap, g))
<1>1. PlainWalks(n)[i] \subseteq PlainWalks(n)[i + 1]
  <2>1. i <= i + 1
    OBVIOUS
  <2>. QED BY <2>1, PlainWalksGrow
<1>2. CASE Pop(n, cap, g) = g
  BY <1>1, <1>2, Zenon DEF Explored, FoundBy
<1>3. CASE Pop(n, cap, g) # g
  <2>. DEFINE f == g.found  L == Len(g.found)  h == g.head  t == NewClasses(n, g)  G == f \o t
              x == f[h + 1]
              A == {m[3] : m \in Leaving(n.moves, x)} \ ToSet(f)
  <2>1. Pop(n, cap, g) = [found |-> G, head |-> h + 1] /\ h # L
    BY <1>3 DEF Pop
  <2>2. Lists(n, g) /\ SuccessorsFound(n, g) /\ FoundBy(n, i, g)
    BY Zenon DEF Explored
  <2>3. f \in Seq(Classes(n)) /\ L \in Nat /\ L >= 1 /\ f[1] = 1 /\ h \in 0 .. L - 1
    BY <2>1, <2>2 DEF Lists
  <2>4. /\ t \in Seq(Classes(n))
        /\ \A j \in 1 .. Len(t) : t[j] \in A
        /\ \A j, k \in 1 .. Len(t) : t[j] = t[k] => j = k
        /\ \A y \in A : \E j \in 1 .. Len(t) : t[j] = y
    <3>1. g.head < Len(g.found)
      BY <2>3
    <3>2. t \in Seq(Classes(n)) /\ ListsOnce(t, A)
      BY <3>1, <2>2, NewClassesAre, Zenon DEF NewOnes
    <3>. QED BY <3>2, Zenon DEF ListsOnce
  <2>5. \A y : y \in ToSet(f) <=> \E j \in 1 .. L : f[j] = y
    BY <2>3 DEF ToSet
  <2>6. \A y : y \in A <=> (\E m \in Leaving(n.moves, x) : m[3] = y) /\ ~ \E j \in 1 .. L : f[j] = y
    BY <2>5
  <2>7. \A j, k \in 1 .. L : f[j] = f[k] => j = k
    BY <2>2 DEF Lists
  <2>8. \A j \in 1 .. h : \A m \in Leaving(n.moves, f[j]) : \E k \in 1 .. L : f[k] = m[3]
    BY <2>2 DEF SuccessorsFound
  <2>9. \A j \in 1 .. L : <<f[j], 0>> \in PlainWalks(n)[i]
    BY <2>2 DEF FoundBy
  <2>. HIDE DEF f, L, h, t, A, x
  <2>10. L = Len(f) /\ x = f[h + 1]
    BY DEF f, L, x
  <2>11. /\ G \in Seq(Classes(n)) /\ Len(G) = L + Len(t) /\ Len(t) \in Nat
         /\ \A j \in 1 .. L : G[j] = f[j] /\ j \in 1 .. Len(G)
         /\ \A j \in 1 .. Len(t) : G[L + j] = t[j] /\ L + j \in 1 .. Len(G)
    BY <2>3, <2>4, <2>10
  <2>12. \A j \in 1 .. Len(G) : j \in 1 .. L \/ (j - L \in 1 .. Len(t) /\ j = L + (j - L))
    BY <2>3, <2>11
  <2>. HIDE DEF G
  <2>13. \A j, k \in 1 .. Len(G) : G[j] = G[k] => j = k
    <3>1. \A j \in 1 .. L, k \in 1 .. Len(t) : f[j] # t[k]
      BY <2>4, <2>6
    <3>2. TAKE j, k \in 1 .. Len(G)
    <3>3. HAVE G[j] = G[k]
    <3>4. CASE j \in 1 .. L /\ k \in 1 .. L
      BY <2>7, <2>11, <3>3, <3>4
    <3>5. CASE j \in 1 .. L /\ k \notin 1 .. L
      <4>1. k - L \in 1 .. Len(t) /\ G[k] = t[k - L]
        BY <2>11, <2>12, <3>5
      <4>. QED BY <3>1, <3>3, <3>5, <4>1, <2>11
    <3>6. CASE j \notin 1 .. L /\ k \in 1 .. L
      <4>1. j - L \in 1 .. Len(t) /\ G[j] = t[j - L]
        BY <2>11, <2>12, <3>6
      <4>. QED BY <3>1, <3>3, <3>6, <4>1, <2>11
    <3>7. CASE j \notin 1 .. L /\ k \notin 1 .. L
      <4>1. j - L \in 1 .. Len(t) /\ G[j] = t[j - L] /\ k - L \in 1 .. Len(t) /\ G[k] = t[k - L]
        BY <2>11, <2>12, <3>7
      <4>2. j - L = k - L
        BY <2>4, <3>3, <4>1
      <4>. QED BY <4>2, <2>3
    <3>. QED BY <3>4, <3>5, <3>6, <3>7, Zenon
  <2>14. ASSUME NEW j \in 1 .. h + 1, NEW m \in Leaving(n.moves, G[j])
         PROVE  \E k \in 1 .. Len(G) : G[k] = m[3]
    <3>1. j \in 1 .. L /\ G[j] = f[j]
      BY <2>3, <2>11
    <3>2. (\E k \in 1 .. L : f[k] = m[3]) \/ (\E k \in 1 .. Len(t) : t[k] = m[3])
      <4>1. CASE j \in 1 .. h
        BY <2>8, <2>14, <3>1, <4>1
      <4>2. CASE j = h + 1
        <5>1. m \in Leaving(n.moves, x)
          BY <2>10, <2>14, <3>1, <4>2
        <5>. QED BY <5>1, <2>4, <2>6, Zenon
      <4>3. j \in 1 .. h \/ j = h + 1
        BY <2>3
      <4>. QED BY <4>1, <4>2, <4>3, Zenon
    <3>. QED BY <3>2, <2>11
  <2>15. ASSUME NEW j \in 1 .. Len(G) PROVE <<G[j], 0>> \in PlainWalks(n)[i + 1]
    <3>1. CASE j \in 1 .. L
      BY <1>1, <2>9, <2>11, <3>1
    <3>2. CASE j \notin 1 .. L
      <4>1. j - L \in 1 .. Len(t) /\ G[j] = t[j - L]
        BY <2>11, <2>12, <3>2
      <4>2. PICK m \in Leaving(n.moves, x) : m[3] = G[j]
        BY <2>4, <2>6, <4>1
      <4>3. m \in n.moves /\ m[1] = x
        BY DEF Leaving
      <4>4. h + 1 \in 1 .. L
        BY <2>3
      <4>5. <<x, 0>> \in PlainWalks(n)[i]
        BY <2>9, <2>10, <4>4
      <4>6. <<x, 0>>[1] = x
        OBVIOUS
      <4>7. <<m[3], 0>> \in PlainWalks(n)[i + 1]
        BY <4>3, <4>5, <4>6, PlainWalksGrow
      <4>. QED BY <4>2, <4>7
    <3>. QED BY <3>1, <3>2
  <2>16. G[1] = 1 /\ Len(G) >= 1 /\ h + 1 \in 0 .. Len(G)
    BY <2>3, <2>11
  <2>. DEFINE e == Pop(n, cap, g)
  <2>17. e.found = G /\ e.head = h + 1
    BY <2>1
  <2>. HIDE DEF e
  <2>18. Lists(n, e)
    BY <2>11, <2>13, <2>16, <2>17, Zenon DEF Lists
  <2>19. SuccessorsFound(n, e)
    BY <2>14, <2>17, Zenon DEF SuccessorsFound
  <2>20. FoundBy(n, i + 1, e)
    BY <2>15, <2>17, Zenon DEF FoundBy
  <2>. QED BY <2>18, <2>19, <2>20, Zenon DEF Explored, e
<1>. QED BY <1>2, <1>3

(* So the search ends with it. *)
LEMMA PoppedExplores ==
  ASSUME NEW n, IsNet(n), NEW cap
  PROVE  Explored(n, Len(n.marks), Popped(n, cap)[Len(n.marks)])
<1>. DEFINE N == Len(n.marks)  P == Popped(n, cap)  S == {k \in Nat : k \in 0 .. N => Explored(n, k, P[k])}
<1>1. N \in Nat /\ N >= 1
  BY DEF IsNet
<1>2. P[0] = Begun /\ \A k \in 1 .. N : P[k] = Pop(n, cap, P[k - 1])
  BY <1>1, PoppedSteps
<1>3. 0 \in S
  <2>. DEFINE g == Begun
  <2>1. g.found = <<1>> /\ g.head = 0
    BY DEF Begun
  <2>2. <<1>> \in Seq(Classes(n)) /\ Len(<<1>>) = 1 /\ <<1>>[1] = 1
    BY <1>1 DEF Classes
  <2>3. <<1, 0>> \in PlainWalks(n)[0]
    BY PlainWalksGrow
  <2>. HIDE DEF g
  <2>4. Lists(n, g)
    BY <2>1, <2>2 DEF Lists
  <2>5. SuccessorsFound(n, g)
    BY <2>1 DEF SuccessorsFound
  <2>6. FoundBy(n, 0, g)
    BY <2>1, <2>2, <2>3 DEF FoundBy
  <2>. QED BY <1>2, <2>4, <2>5, <2>6 DEF Explored, g
<1>4. ASSUME NEW k \in Nat, k \in S PROVE k + 1 \in S
  <2>1. SUFFICES ASSUME k + 1 \in 0 .. N PROVE Explored(n, k + 1, P[k + 1])
    OBVIOUS
  <2>2. k \in 0 .. N /\ k + 1 \in 1 .. N /\ (k + 1) - 1 = k
    BY <1>1, <2>1
  <2>3. Explored(n, k, P[k]) /\ P[k + 1] = Pop(n, cap, P[k])
    BY <1>2, <1>4, <2>2
  <2>. HIDE DEF P
  <2>4. Explored(n, k + 1, Pop(n, cap, P[k]))
    BY <2>1, <2>2, <2>3, PopExplores
  <2>. QED BY <2>3, <2>4
<1>5. \A k \in Nat : k \in S
  <2>. HIDE DEF S
  <2>. QED BY <1>3, <1>4, NatStep, Zenon
<1>6. N \in 0 .. N
  BY <1>1
<1>. QED BY <1>1, <1>5, <1>6

-----------------------------------------------------------------------------
(* A graph as the verdicts use it: what it found is reachable, and the classes popped are  *)
(* its first `h`, of which it holds every move.                                            *)
Holds(g, c) == \E j \in DOMAIN g.found : g.found[j] = c
IsGraphTo(n, g, h) ==
  /\ g.found \in Seq(Classes(n))
  /\ \A i, j \in DOMAIN g.found : g.found[i] = g.found[j] => i = j
  /\ \A i \in DOMAIN g.found : g.found[i] \in Reachable(n)
  /\ h \in 0 .. Len(g.found)
  /\ g.moves = {m \in n.moves : \E i \in 1 .. h : g.found[i] = m[1]}
  /\ \A i \in 1 .. h : \A m \in Leaving(n.moves, g.found[i]) : Holds(g, m[3])
  /\ g.complete \in BOOLEAN /\ g.built \in BOOLEAN
  /\ g.complete => g.built /\ h = Len(g.found)
  /\ g.built => Holds(g, 1)
IsGraph(n, g) == \E h \in Nat : IsGraphTo(n, g, h)

(* The graph the search leaves is a graph of the net (IsGraph): it holds reachable classes *)
(* only, all of them where it was not cut.                                                 *)
LEMMA StateClassGraphIs ==
  ASSUME NEW n, IsNet(n), NEW cap
  PROVE  IsGraph(n, StateClassGraph(n, cap))
<1>. DEFINE N == Len(n.marks)  e == Popped(n, cap)[N]  g == StateClassGraph(n, cap)
<1>1. Explored(n, N, e)
  BY PoppedExplores
<1>. HIDE DEF e
<1>2. /\ g.found = e.found /\ g.complete = (e.head = Len(e.found)) /\ g.built = TRUE
      /\ g.moves = {m \in n.moves : \E i \in 1 .. e.head : e.found[i] = m[1]}
  BY Zenon DEF StateClassGraph, e
<1>. HIDE DEF g
<1>3. Lists(n, e) /\ SuccessorsFound(n, e) /\ FoundBy(n, N, e)
  BY <1>1, Zenon DEF Explored
<1>4. /\ e.found \in Seq(Classes(n)) /\ Len(e.found) >= 1 /\ e.found[1] = 1
      /\ DOMAIN e.found = 1 .. Len(e.found) /\ Len(e.found) \in Nat
      /\ e.head \in 0 .. Len(e.found)
      /\ \A i, j \in DOMAIN e.found : e.found[i] = e.found[j] => i = j
  BY <1>3 DEF Lists
<1>5. ASSUME NEW i \in DOMAIN g.found PROVE g.found[i] \in Reachable(n)
  <2>1. <<g.found[i], 0>> \in PlainWalks(n)[N]
    BY <1>2, <1>3, <1>4, <1>5 DEF FoundBy
  <2>2. <<g.found[i], 0>>[1] = g.found[i]
    OBVIOUS
  <2>. QED BY <2>1, <2>2, PlainWalksGrow
<1>6. ASSUME NEW i \in 1 .. e.head, NEW m \in Leaving(n.moves, g.found[i]) PROVE Holds(g, m[3])
  <2>1. \E j \in 1 .. Len(e.found) : e.found[j] = m[3]
    BY <1>2, <1>3, <1>6, Zenon DEF SuccessorsFound
  <2>. QED BY <1>2, <1>4, <2>1, Zenon DEF Holds
<1>7. Holds(g, 1)
  <2>1. 1 \in DOMAIN g.found /\ g.found[1] = 1
    BY <1>2, <1>4
  <2>. QED BY <2>1, Zenon DEF Holds
<1>8. g.complete \in BOOLEAN /\ g.built \in BOOLEAN /\ (g.complete => g.built /\ e.head = Len(g.found))
  BY <1>2
<1>9. e.head \in Nat
  BY <1>4
<1>10. /\ g.found \in Seq(Classes(n)) /\ e.head \in 0 .. Len(g.found)
       /\ \A i, j \in DOMAIN g.found : g.found[i] = g.found[j] => i = j
       /\ g.moves = {m \in n.moves : \E i \in 1 .. e.head : g.found[i] = m[1]}
  BY <1>2, <1>4
<1>11. IsGraphTo(n, g, e.head)
  BY <1>5, <1>6, <1>7, <1>8, <1>10, Zenon DEF IsGraphTo
<1>. QED BY <1>9, <1>11, Zenon DEF IsGraph, g

(* A graph that was never built is one too, of no class. *)
LEMMA NoGraphIs ==
  ASSUME NEW n
  PROVE  IsGraph(n, NoGraph) /\ DOMAIN NoGraph.found = {} /\ ~ NoGraph.complete /\ ~ NoGraph.built
<1>1. /\ NoGraph.found = << >> /\ NoGraph.moves = {}
      /\ NoGraph.complete = FALSE /\ NoGraph.built = FALSE
  BY DEF NoGraph
<1>2. DOMAIN NoGraph.found = {} /\ NoGraph.found \in Seq(Classes(n)) /\ Len(NoGraph.found) = 0
  BY <1>1
<1>3. 1 .. 0 = {} /\ 0 \in 0 .. 0 /\ 0 \in Nat
  OBVIOUS
<1>4. NoGraph.moves = {m \in n.moves : \E i \in 1 .. 0 : NoGraph.found[i] = m[1]}
  BY <1>1, <1>3
<1>5. \A i \in 1 .. 0 : \A m \in Leaving(n.moves, NoGraph.found[i]) : Holds(NoGraph, m[3])
  BY <1>3, Zenon
<1>6. NoGraph.complete \in BOOLEAN /\ NoGraph.built \in BOOLEAN
  BY <1>1
<1>7. IsGraphTo(n, NoGraph, 0)
  BY <1>1, <1>2, <1>3, <1>4, <1>5, <1>6 DEF IsGraphTo
<1>. QED BY <1>1, <1>2, <1>3, <1>7, Zenon DEF IsGraph

(* Whatever a pass has of the net, a built graph or none, is a graph of it. *)
LEMMA ExploreIsGraph ==
  ASSUME NEW n, IsNet(n), NEW o, NEW cap
  PROVE  IsGraph(n, Explore(n, o, cap))
BY StateClassGraphIs, NoGraphIs, Zenon DEF Explore

(* A class that enables nothing is left by no move. *)
LEMMA LeavingIs ==
  ASSUME NEW n, NEW c
  PROVE  Enabled(n, c) = {} => Leaving(n.moves, c) = {}
BY DEF Enabled

(* A class the report counts as expanded was: every move from it is in the graph. *)
LEMMA ExpandedIsPopped ==
  ASSUME NEW n, NEW g, NEW h \in Nat, IsGraphTo(n, g, h), NEW i \in DOMAIN g.found, i <= ExpandedPrefix(g)
  PROVE  i \in 1 .. h
<1>1. g.found \in Seq(Classes(n)) /\ DOMAIN g.found = 1 .. Len(g.found) /\ Len(g.found) \in Nat
  BY DEF IsGraphTo
<1>2. CASE g.complete
  BY <1>1, <1>2 DEF IsGraphTo
<1>3. CASE ~ g.complete
  <2>. DEFINE T == {0} \cup {j \in DOMAIN g.found : Leaving(g.moves, g.found[j]) # {}}
  <2>1. ExpandedPrefix(g) = Max(T)
    BY <1>3 DEF ExpandedPrefix
  <2>2. T \in SUBSET (0 .. Len(g.found)) /\ T # {}
    BY <1>1
  <2>3. Max(T) \in T
    BY <1>1, <2>2, MaxIsGreatest
  <2>4. ASSUME NEW j \in DOMAIN g.found, Leaving(g.moves, g.found[j]) # {} PROVE j \in 1 .. h
    <3>1. PICK m \in g.moves : m[1] = g.found[j]
      BY <2>4 DEF Leaving
    <3>2. PICK k \in 1 .. h : g.found[k] = m[1]
      BY <3>1 DEF IsGraphTo
    <3>3. k \in DOMAIN g.found
      BY <1>1 DEF IsGraphTo
    <3>4. j = k
      BY <3>1, <3>2, <3>3 DEF IsGraphTo
    <3>. QED BY <3>4
  <2>5. \A j \in T : j <= h
    BY <2>4
  <2>6. Max(T) <= h
    BY <2>3, <2>5
  <2>. HIDE DEF T
  <2>7. Max(T) \in 0 .. Len(g.found)
    BY <2>2, <2>3
  <2>. QED BY <1>1, <2>1, <2>6, <2>7
<1>. QED BY <1>2, <1>3

(* Every move from an expanded class is in the graph, and so is where it leads. *)
LEMMA ExpandedHasAll ==
  ASSUME NEW n, NEW g, IsGraph(n, g), NEW i \in DOMAIN g.found, WasExpanded(n, g, i)
  PROVE  \A m \in Leaving(n.moves, g.found[i]) : m \in g.moves /\ m \in Leaving(g.moves, g.found[i]) /\ Holds(g, m[3])
<1>1. PICK h \in Nat : IsGraphTo(n, g, h)
  BY Zenon DEF IsGraph
<1>2. CASE Enabled(n, g.found[i]) = {}
  BY <1>2, LeavingIs
<1>3. CASE i <= ExpandedPrefix(g)
  <2>1. i \in 1 .. h
    BY <1>1, <1>3, ExpandedIsPopped
  <2>2. TAKE m \in Leaving(n.moves, g.found[i])
  <2>3. m \in n.moves /\ m[1] = g.found[i]
    BY DEF Leaving
  <2>4. m \in g.moves
    BY <1>1, <2>1, <2>3 DEF IsGraphTo
  <2>5. m \in Leaving(g.moves, g.found[i])
    BY <2>3, <2>4 DEF Leaving
  <2>6. Holds(g, m[3])
    BY <1>1, <2>1, <2>2, Zenon DEF IsGraphTo
  <2>. QED BY <2>4, <2>5, <2>6
<1>. QED BY <1>2, <1>3, Zenon DEF WasExpanded

(* At rest as the report judges it, and at rest: the one implies the other, and both are   *)
(* the same where the graph was expanded.                                                  *)
LEMMA QuiescentIsAtRest ==
  ASSUME NEW n, NEW g, IsGraph(n, g), NEW i \in DOMAIN g.found
  PROVE  /\ IsQuiescent(n, g, i) \in BOOLEAN
         /\ IsQuiescent(n, g, i) => Leaving(n.moves, g.found[i]) = {}
         /\ WasExpanded(n, g, i) => (IsQuiescent(n, g, i) <=> Leaving(n.moves, g.found[i]) = {})
<1>1. PICK h \in Nat : IsGraphTo(n, g, h)
  BY Zenon DEF IsGraph
<1>2. g.moves \subseteq n.moves
  BY <1>1 DEF IsGraphTo
<1>3. ASSUME WasExpanded(n, g, i) PROVE Leaving(g.moves, g.found[i]) = Leaving(n.moves, g.found[i])
  <2>1. \A m \in Leaving(n.moves, g.found[i]) : m \in Leaving(g.moves, g.found[i])
    BY <1>3, ExpandedHasAll
  <2>2. \A m \in Leaving(g.moves, g.found[i]) : m \in Leaving(n.moves, g.found[i])
    BY <1>2 DEF Leaving
  <2>. QED BY <2>1, <2>2
<1>. QED BY <1>3, LeavingIs, Zenon DEF IsQuiescent

(* A graph that was not cut holds every reachable class, expanded. *)
LEMMA CompleteHasAll ==
  ASSUME NEW n, IsNet(n), NEW g, IsGraph(n, g), g.complete
  PROVE  /\ g.built
         /\ \A i \in DOMAIN g.found : WasExpanded(n, g, i)
         /\ \A c \in Reachable(n) : Holds(g, c)
<1>1. PICK h \in Nat : IsGraphTo(n, g, h)
  BY Zenon DEF IsGraph
<1>2. g.built /\ Holds(g, 1)
  BY <1>1, Zenon DEF IsGraphTo
<1>3. ASSUME NEW i \in DOMAIN g.found PROVE WasExpanded(n, g, i)
  <2>1. ExpandedPrefix(g) = Len(g.found) /\ i <= Len(g.found)
    BY <1>1 DEF IsGraphTo, ExpandedPrefix
  <2>. QED BY <2>1 DEF WasExpanded
<1>. DEFINE N == Len(n.marks)  W == PlainWalks(n)  S == {k \in Nat : k \in 0 .. N => \A y \in W[k] : Holds(g, y[1])}
<1>4. 0 \in S
  <2>1. W[0] = {<<1, 0>>} /\ <<1, 0>>[1] = 1
    BY PlainWalksGrow
  <2>. QED BY <1>2, <2>1
<1>5. ASSUME NEW k \in Nat, k \in S PROVE k + 1 \in S
  <2>1. SUFFICES ASSUME k + 1 \in 0 .. N, NEW y \in W[k + 1] PROVE Holds(g, y[1])
    OBVIOUS
  <2>2. k \in 0 .. N
    BY <2>1 DEF IsNet
  <2>3. \A v \in W[k] : Holds(g, v[1])
    BY <1>5, <2>2
  <2>4. y \in W[k] \/ \E v \in W[k], m \in n.moves : v[1] = m[1] /\ y[1] = m[3]
    BY <2>1, <2>2, PlainWalksGrow
  <2>5. ASSUME NEW v \in W[k], NEW m \in n.moves, v[1] = m[1], y[1] = m[3] PROVE Holds(g, y[1])
    <3>1. PICK j \in DOMAIN g.found : g.found[j] = m[1]
      BY <2>3, <2>5, Zenon DEF Holds
    <3>2. m \in Leaving(n.moves, g.found[j])
      BY <3>1 DEF Leaving
    <3>. QED BY <1>3, <2>5, <3>2, ExpandedHasAll
  <2>. QED BY <2>3, <2>4, <2>5, Zenon
<1>6. \A k \in Nat : k \in S
  <2>. HIDE DEF S
  <2>. QED BY <1>4, <1>5, NatStep, Zenon
<1>7. N \in 0 .. N
  BY DEF IsNet
<1>8. \A y \in W[N] : Holds(g, y[1])
  BY <1>6, <1>7
<1>9. Reachable(n) = {y[1] : y \in W[N]}
  BY PlainWalksGrow
<1>. QED BY <1>2, <1>3, <1>8, <1>9

(* A class the search found is one a run can reach. *)
LEMMA FoundIsReachable ==
  ASSUME NEW n, NEW g, IsGraph(n, g)
  PROVE  \A i \in DOMAIN g.found : g.found[i] \in Reachable(n)
BY Zenon DEF IsGraph, IsGraphTo

-----------------------------------------------------------------------------
(* What the graph answers.  A class judged at rest is; one that is not judged at rest may  *)
(* be, and breaks no less for it.                                                          *)
LEMMA BreaksMore ==
  ASSUME NEW n, NEW q, NEW c, NEW a \in BOOLEAN, NEW b \in BOOLEAN, a => b, Breaks(n, q, c, a)
  PROVE  Breaks(n, q, c, b)
<1>1. CASE a = b
  BY <1>1
<1>2. CASE a = FALSE /\ b = TRUE
  <2>1. Breaks(n, q, c, FALSE)
    BY <1>2
  <2>2. Breaks(n, q, c, TRUE)
    BY <2>1 DEF Breaks, SettledRest
  <2>. QED BY <1>2, <2>2
<1>. QED BY <1>1, <1>2

RestKinds == {"whole", "completes", "rests", "decided"}
(* A question that is not about rest is broken in a class whether or not it is judged at rest. *)
LEMMA BreaksAlike ==
  ASSUME NEW n, NEW q, NEW c, NEW a \in BOOLEAN, NEW b \in BOOLEAN, q.kind \notin RestKinds
  PROVE  Breaks(n, q, c, a) => Breaks(n, q, c, b)
<1>1. Breaks(n, q, c, a) => Breaks(n, q, c, TRUE)
  BY BreaksMore
<1>2. Breaks(n, q, c, TRUE) => Breaks(n, q, c, FALSE)
  BY DEF Breaks, RestKinds
<1>3. Breaks(n, q, c, FALSE) => Breaks(n, q, c, b)
  BY BreaksMore
<1>. QED BY <1>1, <1>2, <1>3

(* What the graph says of a question is so, and it is silent only where it was cut. *)
LEMMA GraphIsRight ==
  ASSUME NEW n, IsNet(n), NEW g, IsGraph(n, g), NEW q
  PROVE  /\ GraphVerdict(n, g, q) \in {"violated", "proven", "unknown"}
         /\ GraphVerdict(n, g, q) = "violated" => BrokenIn(n, q, Reachable(n))
         /\ GraphVerdict(n, g, q) = "proven" => ~ BrokenIn(n, q, Reachable(n)) /\ g.complete
         /\ GraphVerdict(n, g, q) = "unknown" => ~ Found(n, g, q) /\ ~ g.complete
<1>1. ASSUME Found(n, g, q) PROVE BrokenIn(n, q, Reachable(n))
  <2>1. PICK i \in DOMAIN g.found : Breaks(n, q, g.found[i], IsQuiescent(n, g, i))
    BY <1>1, Zenon DEF Found
  <2>. DEFINE a == IsQuiescent(n, g, i)  b == (Leaving(n.moves, g.found[i]) = {})
  <2>2. a \in BOOLEAN /\ b \in BOOLEAN /\ (a => b)
    BY QuiescentIsAtRest
  <2>3. Breaks(n, q, g.found[i], a)
    BY <2>1
  <2>. HIDE DEF a, b
  <2>4. Breaks(n, q, g.found[i], b)
    BY <2>2, <2>3, BreaksMore
  <2>5. Breaks(n, q, g.found[i], Leaving(n.moves, g.found[i]) = {})
    BY <2>4, Zenon DEF b
  <2>. QED BY <2>5, FoundIsReachable, Zenon DEF BrokenIn
<1>2. ASSUME g.complete, ~ Found(n, g, q) PROVE ~ BrokenIn(n, q, Reachable(n))
  <2>1. SUFFICES ASSUME NEW c \in Reachable(n), Breaks(n, q, c, Leaving(n.moves, c) = {}) PROVE FALSE
    BY Zenon DEF BrokenIn
  <2>2. PICK i \in DOMAIN g.found : g.found[i] = c
    <3>1. \A x \in Reachable(n) : Holds(g, x)
      BY <1>2, CompleteHasAll
    <3>. QED BY <3>1, Zenon DEF Holds
  <2>. DEFINE a == IsQuiescent(n, g, i)  b == (Leaving(n.moves, c) = {})
  <2>3. WasExpanded(n, g, i)
    BY <1>2, CompleteHasAll
  <2>4. a \in BOOLEAN /\ b \in BOOLEAN /\ (b => a)
    <3>1. a \in BOOLEAN /\ (a <=> Leaving(n.moves, g.found[i]) = {})
      BY <2>3, QuiescentIsAtRest
    <3>. QED BY <2>2, <3>1
  <2>5. Breaks(n, q, c, b)
    BY <2>1
  <2>. HIDE DEF a, b
  <2>6. Breaks(n, q, c, a)
    BY <2>4, <2>5, BreaksMore
  <2>7. Breaks(n, q, g.found[i], IsQuiescent(n, g, i))
    BY <2>2, <2>6, Zenon DEF a
  <2>. QED BY <1>2, <2>7, Zenon DEF Found
<1>. QED BY <1>1, <1>2 DEF GraphVerdict

-----------------------------------------------------------------------------
(* The bound.  A run with fewer cyclic runs than the nearest class the graph did not       *)
(* expand stays inside what it did.                                                        *)
LEMMA ClosedIsBelowFrontier ==
  ASSUME NEW n, IsNet(n), NEW g, IsGraph(n, g), ClosedCyclicRuns(n, g) >= 1
  PROVE  /\ ClosedCyclicRuns(n, g) \in Nat /\ ClosedCyclicRuns(n, g) <= Len(g.found)
         /\ ~ g.complete
         /\ \A j \in DOMAIN g.found, k \in Nat :
              <<g.found[j], k>> \in LoopRuns(n, g.moves, Len(g.found)) /\ k <= ClosedCyclicRuns(n, g)
              => WasExpanded(n, g, j)
<1>. DEFINE near == IF g.complete \/ ~g.built \/ n.loops = {} THEN {} ELSE NearestFrontier(n, g)
            r == RunsToFrontier(n, g)
            L == Len(g.found)
            reached == LoopRuns(n, g.moves, L)
            Weights(c) == {w[2] : w \in {v \in reached : v[1] = c}}
            d == LoopDistances(n, g)
            T == {j \in DOMAIN g.found : ~WasExpanded(n, g, j) /\ g.found[j] \in DOMAIN d}
<1>1. g.moves \in SUBSET n.moves /\ g.found \in Seq(Classes(n)) /\ L \in Nat
  <2>1. PICK h \in Nat : IsGraphTo(n, g, h)
    BY Zenon DEF IsGraph
  <2>. QED BY <2>1 DEF IsGraphTo
<1>2. \A y \in reached : y = <<y[1], y[2]>> /\ y[2] \in 0 .. L
  <2>1. Top(n, L) \in 0 .. Top(n, L)
    BY <1>1, TopIsNat
  <2>2. /\ reached = Walks(n, g.moves, L)[Top(n, L)]
        /\ \A i \in 0 .. Top(n, L) : \A y \in Walks(n, g.moves, L)[i] :
             y = <<y[1], y[2]>> /\ y[1] \in Classes(n) /\ y[2] \in 0 .. L
    BY <1>1, WalksGrow
  <2>. QED BY <2>1, <2>2, Zenon
<1>3. r = IF near = {} THEN 0 ELSE Min(near)
  BY Zenon DEF RunsToFrontier
<1>4. DOMAIN d = {w[1] : w \in reached} /\ \A c \in DOMAIN d : d[c] = Min(Weights(c))
  BY Zenon DEF LoopDistances
<1>5. NearestFrontier(n, g) = {d[g.found[i]] : i \in T}
  BY Zenon DEF NearestFrontier
<1>6. ClosedCyclicRuns(n, g) = Max({0, r - 1})
  BY Zenon DEF ClosedCyclicRuns
<1>. HIDE DEF r, L, reached, d
<1>7. ASSUME NEW c \in DOMAIN d PROVE d[c] \in 0 .. L /\ \A k \in Nat : <<c, k>> \in reached => d[c] <= k
  <2>1. Weights(c) \in SUBSET Nat /\ Weights(c) \subseteq 0 .. L
    BY <1>2
  <2>2. PICK w \in reached : w[1] = c
    BY <1>4, <1>7
  <2>3. w[2] \in Weights(c)
    BY <2>2
  <2>4. \A k \in Nat : <<c, k>> \in reached => k \in Weights(c)
    <3>1. \A k \in Nat : <<c, k>>[1] = c /\ <<c, k>>[2] = k
      OBVIOUS
    <3>. QED BY <3>1, Zenon
  <2>. HIDE DEF Weights
  <2>5. Min(Weights(c)) \in Weights(c) /\ \A y \in Weights(c) : Min(Weights(c)) <= y
    BY <2>1, <2>3, MinIsLeast
  <2>6. d[c] = Min(Weights(c))
    BY <1>4, <1>7
  <2>. QED BY <2>1, <2>4, <2>5, <2>6
<1>8. \A j \in T : g.found[j] \in DOMAIN d /\ ~ WasExpanded(n, g, j)
  OBVIOUS
<1>9. near \in SUBSET Nat /\ \A x \in near : x \in 0 .. L
  <2>1. \A x \in NearestFrontier(n, g) : x \in 0 .. L
    BY <1>5, <1>7, <1>8
  <2>. QED BY <2>1
<1>. HIDE DEF T
<1>10. near # {} => Min(near) \in near /\ \A y \in near : Min(near) <= y
  BY <1>9, MinIsLeast
<1>11. r \in Nat /\ (near # {} => r \in 0 .. L)
  BY <1>3, <1>9, <1>10
<1>12. ClosedCyclicRuns(n, g) = r - 1 /\ r >= 2
  <2>1. Max({0, r - 1}) = IF r - 1 >= 0 THEN r - 1 ELSE 0
    BY <1>11, MaxWithZero
  <2>. QED BY <1>6, <1>11, <2>1
<1>13. near # {}
  BY <1>3, <1>12
<1>14. ~ g.complete /\ near = NearestFrontier(n, g)
  BY <1>13
<1>15. ASSUME NEW j \in DOMAIN g.found, NEW k \in Nat, <<g.found[j], k>> \in reached, k <= r - 1, ~ WasExpanded(n, g, j)
       PROVE  FALSE
  <2>1. <<g.found[j], k>>[1] = g.found[j]
    OBVIOUS
  <2>2. g.found[j] \in DOMAIN d
    BY <1>4, <1>15, <2>1, Zenon
  <2>3. j \in T
    BY <1>15, <2>2 DEF T
  <2>4. d[g.found[j]] \in near
    BY <1>5, <1>14, <2>3, Zenon
  <2>5. r <= d[g.found[j]]
    BY <1>3, <1>10, <1>13, <2>4
  <2>6. d[g.found[j]] \in 0 .. L /\ d[g.found[j]] <= k
    BY <1>7, <1>15, <2>2
  <2>. QED BY <1>11, <1>15, <2>5, <2>6
<1>16. r - 1 \in Nat /\ r - 1 <= L
  BY <1>1, <1>11, <1>12, <1>13
<1>17. \A j \in DOMAIN g.found, k \in Nat : <<g.found[j], k>> \in reached /\ k <= r - 1 => WasExpanded(n, g, j)
  BY <1>15, Zenon
<1>. QED BY <1>12, <1>14, <1>16, <1>17, Zenon DEF reached, L

(* Every class within the bound of a cut graph is in it, and was expanded: this is what the bound promises. *)
LEMMA WithinIsExpanded ==
  ASSUME NEW n, IsNet(n), NEW g, IsGraph(n, g), ClosedCyclicRuns(n, g) >= 1
  PROVE  \A c \in Within(n, ClosedCyclicRuns(n, g)) :
           \E i \in DOMAIN g.found : g.found[i] = c /\ WasExpanded(n, g, i)
<1>. DEFINE r == ClosedCyclicRuns(n, g)  L == Len(g.found)  A == Top(n, r)  B == Top(n, L)
            V == Walks(n, n.moves, r)  U == Walks(n, g.moves, L)  reached == LoopRuns(n, g.moves, L)
<1>1. g.moves \in SUBSET n.moves /\ n.moves \in SUBSET n.moves /\ L \in Nat
  <2>1. PICK h \in Nat : IsGraphTo(n, g, h)
    BY Zenon DEF IsGraph
  <2>. QED BY <2>1 DEF IsGraphTo
<1>2. r \in Nat /\ r <= L
  BY ClosedIsBelowFrontier
<1>3. \A j \in DOMAIN g.found, k \in Nat : <<g.found[j], k>> \in reached /\ k <= r => WasExpanded(n, g, j)
  BY ClosedIsBelowFrontier
<1>4. A \in Nat /\ B \in Nat /\ A <= B
  <2>1. A \in Nat /\ B \in Nat
    BY <1>1, <1>2, TopIsNat
  <2>2. Len(n.marks) \in Nat
    BY DEF IsNet
  <2>3. \A N, a, b \in Nat : a <= b => N * (a + 1) <= N * (b + 1)
    <3>1. TAKE N, a, b \in Nat
    <3>2. HAVE a <= b
    <3>3. N * (b + 1) = N * (a + 1) + N * (b - a)
      OBVIOUS
    <3>4. b - a \in Nat
      BY <3>2
    <3>5. N * (b - a) \in Nat /\ N * (a + 1) \in Nat
      BY <3>4
    <3>. DEFINE u == N * (b - a)  v == N * (a + 1)
    <3>. HIDE DEF u, v
    <3>6. v <= v + u
      BY <3>5 DEF u, v
    <3>. QED BY <3>3, <3>6 DEF u, v
  <2>. QED BY <1>1, <1>2, <2>1, <2>2, <2>3, Zenon DEF Top
<1>5. Holds(g, 1)
  <2>1. g.built
    <3>1. SUFFICES ASSUME ~ g.built PROVE FALSE
      OBVIOUS
    <3>2. RunsToFrontier(n, g) = 0
      BY <3>1, Zenon DEF RunsToFrontier
    <3>3. Max({0, 0 - 1}) = 0
      BY MaxWithZero
    <3>. QED BY <3>2, <3>3 DEF ClosedCyclicRuns
  <2>. QED BY <2>1, Zenon DEF IsGraph, IsGraphTo
<1>. HIDE DEF r, L
<1>6. /\ V[0] = {<<1, 0>>}
      /\ \A i \in 0 .. A : i + 1 \in 0 .. A => V[i + 1] = Onwards(n, n.moves, r, V[i])
      /\ LoopRuns(n, n.moves, r) = V[A]
      /\ \A i \in 0 .. A : \A y \in V[i] : y = <<y[1], y[2]>> /\ y[1] \in Classes(n) /\ y[2] \in 0 .. r
  BY <1>1, <1>2, WalksGrow
<1>7. /\ U[0] = {<<1, 0>>}
      /\ \A i \in 0 .. B : i + 1 \in 0 .. B => U[i + 1] = Onwards(n, g.moves, L, U[i])
      /\ \A i, j \in 0 .. B : i <= j => U[i] \subseteq U[j]
      /\ reached = U[B]
  BY <1>1, WalksGrow
<1>. HIDE DEF A, B, U, V, reached
<1>8. \A i \in 0 .. B : U[i] \subseteq reached
  <2>1. \A i \in 0 .. B : B \in 0 .. B /\ i <= B
    BY <1>4
  <2>. QED BY <1>7, <2>1
<1>. DEFINE Inside(k) == \A y \in V[k] : y \in U[k] /\ Holds(g, y[1])
            S == {k \in Nat : k \in 0 .. A => Inside(k)}
(* A walk the graph holds ends in a class it expanded. *)
<1>9. ASSUME NEW k \in 0 .. A, Inside(k), NEW y \in V[k]
      PROVE  \E j \in DOMAIN g.found : g.found[j] = y[1] /\ WasExpanded(n, g, j)
  <2>1. PICK j \in DOMAIN g.found : g.found[j] = y[1]
    BY <1>9, Zenon DEF Holds
  <2>2. y = <<y[1], y[2]>> /\ y[2] \in 0 .. r
    BY <1>6
  <2>3. k \in 0 .. B
    BY <1>4
  <2>4. y \in reached
    BY <1>8, <1>9, <2>3
  <2>5. <<g.found[j], y[2]>> \in reached /\ y[2] \in Nat /\ y[2] <= r
    BY <1>2, <2>1, <2>2, <2>4
  <2>. QED BY <1>3, <2>1, <2>5, Zenon
<1>10. 0 \in S
  <2>1. <<1, 0>>[1] = 1
    OBVIOUS
  <2>. QED BY <1>5, <1>6, <1>7, <2>1
<1>11. ASSUME NEW k \in Nat, k \in S PROVE k + 1 \in S
  <2>1. SUFFICES ASSUME k + 1 \in 0 .. A, NEW y \in V[k + 1] PROVE y \in U[k + 1] /\ Holds(g, y[1])
    OBVIOUS
  <2>2. k \in 0 .. A /\ k \in 0 .. B /\ k + 1 \in 0 .. B
    BY <1>4, <2>1
  <2>3. Inside(k)
    BY <1>11, <2>2
  <2>4. y \in Onwards(n, n.moves, r, V[k]) /\ U[k + 1] = Onwards(n, g.moves, L, U[k])
    BY <1>6, <1>7, <2>1, <2>2
  <2>. DEFINE X == V[k]  Y == U[k]  M == n.moves  G == g.moves
  <2>5. \/ y \in X
        \/ \E v \in X, m \in M : v[1] = m[1] /\ v[2] + Weight(n, m) <= r /\ y = <<m[3], v[2] + Weight(n, m)>>
    <3>1. y \in Onwards(n, M, r, X)
      BY <2>4
    <3>. HIDE DEF X, M
    <3>. QED BY <3>1, OnwardsIs
  <2>6. \A z : \/ z \in Y
               \/ \E v \in Y, m \in G : v[1] = m[1] /\ v[2] + Weight(n, m) <= L /\ z = <<m[3], v[2] + Weight(n, m)>>
             => z \in U[k + 1]
    <3>1. U[k + 1] = Onwards(n, G, L, Y)
      BY <2>4
    <3>. DEFINE Z == U[k + 1]
    <3>. HIDE DEF Y, G, Z
    <3>2. Z = Onwards(n, G, L, Y)
      BY <3>1 DEF Z
    <3>3. \A z : \/ z \in Y
                 \/ \E v \in Y, m \in G : v[1] = m[1] /\ v[2] + Weight(n, m) <= L /\ z = <<m[3], v[2] + Weight(n, m)>>
               => z \in Z
      BY <3>2, OnwardsIs
    <3>. QED BY <3>3, Zenon DEF Z
  <2>7. CASE y \in X
    BY <2>3, <2>6, <2>7
  <2>8. CASE \E v \in X, m \in M : v[1] = m[1] /\ v[2] + Weight(n, m) <= r /\ y = <<m[3], v[2] + Weight(n, m)>>
    <3>1. PICK v \in X, m \in M : v[1] = m[1] /\ v[2] + Weight(n, m) <= r /\ y = <<m[3], v[2] + Weight(n, m)>>
      BY <2>8, Zenon
    <3>2. PICK j \in DOMAIN g.found : g.found[j] = v[1] /\ WasExpanded(n, g, j)
      BY <1>9, <2>2, <2>3
    <3>3. m \in Leaving(n.moves, g.found[j])
      BY <3>1, <3>2 DEF Leaving
    <3>4. m \in G /\ Holds(g, m[3])
      BY <3>2, <3>3, ExpandedHasAll
    <3>5. v \in Y
      BY <2>3
    <3>6. v[2] + Weight(n, m) <= L
      <4>1. v[2] \in 0 .. r /\ Weight(n, m) \in {0, 1}
        BY <1>6, <2>2, WeightIsOneOrNone
      <4>. QED BY <1>1, <1>2, <3>1, <4>1
    <3>7. y \in U[k + 1]
      BY <2>6, <3>1, <3>4, <3>5, <3>6, Zenon
    <3>8. y[1] = m[3]
      BY <3>1
    <3>. QED BY <3>4, <3>7, <3>8
  <2>. QED BY <2>5, <2>7, <2>8, Zenon
<1>12. \A k \in Nat : k \in S
  <2>. HIDE DEF S
  <2>. QED BY <1>10, <1>11, NatStep, Zenon
<1>13. A \in 0 .. A /\ Inside(A)
  BY <1>4, <1>12
<1>14. Within(n, r) = {y[1] : y \in V[A]}
  BY <1>6, Zenon DEF Within
<1>. HIDE DEF Inside
<1>15. \A y \in V[A] : \E i \in DOMAIN g.found : g.found[i] = y[1] /\ WasExpanded(n, g, i)
  BY <1>9, <1>13, Zenon
<1>16. \A c \in Within(n, r) : \E i \in DOMAIN g.found : g.found[i] = c /\ WasExpanded(n, g, i)
  BY <1>14, <1>15, Zenon
<1>. QED BY <1>16, Zenon DEF r

(* What is not found in the graph breaks nowhere within the bound. *)
LEMMA BoundIsRight ==
  ASSUME NEW n, IsNet(n), NEW g, IsGraph(n, g), ClosedCyclicRuns(n, g) >= 1
  PROVE  /\ Within(n, ClosedCyclicRuns(n, g)) \subseteq Reachable(n)
         /\ \A q : ~ Found(n, g, q) => ~ BrokenIn(n, q, Within(n, ClosedCyclicRuns(n, g)))
<1>. DEFINE C == Within(n, ClosedCyclicRuns(n, g))
<1>1. \A c \in C : \E i \in DOMAIN g.found : g.found[i] = c /\ WasExpanded(n, g, i)
  BY WithinIsExpanded
<1>2. C \subseteq Reachable(n)
  BY <1>1, FoundIsReachable
<1>. HIDE DEF C
<1>3. ASSUME NEW q, NEW c \in C, Breaks(n, q, c, Leaving(n.moves, c) = {})
      PROVE  Found(n, g, q)
  <2>1. PICK i \in DOMAIN g.found : g.found[i] = c /\ WasExpanded(n, g, i)
    BY <1>1
  <2>. DEFINE a == IsQuiescent(n, g, i)  b == (Leaving(n.moves, c) = {})
  <2>2. a \in BOOLEAN /\ b \in BOOLEAN /\ (b => a)
    <3>1. a \in BOOLEAN /\ (a <=> Leaving(n.moves, g.found[i]) = {})
      BY <2>1, QuiescentIsAtRest
    <3>. QED BY <2>1, <3>1
  <2>3. Breaks(n, q, c, b)
    BY <1>3
  <2>. HIDE DEF a, b
  <2>4. Breaks(n, q, c, a)
    BY <2>2, <2>3, BreaksMore
  <2>5. Breaks(n, q, g.found[i], IsQuiescent(n, g, i))
    BY <2>1, <2>4, Zenon DEF a
  <2>. QED BY <2>5, Zenon DEF Found
<1>4. \A q : ~ Found(n, g, q) => ~ BrokenIn(n, q, C)
  BY <1>3, Zenon DEF BrokenIn
<1>. QED BY <1>2, <1>4, Zenon DEF C

-----------------------------------------------------------------------------
(* The verdicts, one kind of question at a time.                                           *)
Answers == {"violated", "proven", "bounded", "unknown"}
IsRight(n, g, q, v) ==
  /\ v \in Answers
  /\ v = "proven" => ~ BrokenIn(n, q, Reachable(n))
  /\ v = "violated" => BrokenIn(n, q, Reachable(n))
  /\ v = "bounded" => ClosedCyclicRuns(n, g) >= 1 /\ ~ BrokenIn(n, q, Within(n, ClosedCyclicRuns(n, g)))

(* What the solver closes is so. *)
LEMMA SolverIsRight ==
  ASSUME NEW n, NEW o, NEW q, q.kind \notin RestKinds
  PROVE  /\ SmtDecision(n, o, q) \in {"violated", "proven", "unknown"}
         /\ SmtDecision(n, o, q) = "proven" => ~ BrokenIn(n, q, Reachable(n))
         /\ SmtDecision(n, o, q) = "violated" => BrokenIn(n, q, Reachable(n))
<1>1. \A c : Breaks(n, q, c, FALSE) => Breaks(n, q, c, Leaving(n.moves, c) = {})
  <2>1. \A c, b : b \in BOOLEAN => (Breaks(n, q, c, FALSE) => Breaks(n, q, c, b))
    BY BreaksAlike
  <2>. QED BY <2>1
<1>2. \A c : Breaks(n, q, c, Leaving(n.moves, c) = {}) => Breaks(n, q, c, FALSE)
  <2>1. \A c, b : b \in BOOLEAN => (Breaks(n, q, c, b) => Breaks(n, q, c, FALSE))
    BY BreaksAlike
  <2>. QED BY <2>1
<1>. QED BY <1>1, <1>2, Zenon DEF SmtDecision, BrokenIn

(* A question the graph decides needs no more; one it leaves open is bounded at best. *)
LEMMA GraphFirst ==
  ASSUME NEW n, IsNet(n), NEW g, IsGraph(n, g), NEW q
  PROVE  /\ GraphVerdict(n, g, q) # "unknown" => IsRight(n, g, q, GraphVerdict(n, g, q))
         /\ IsRight(n, g, q, "unknown")
         /\ GraphVerdict(n, g, q) = "unknown" => IsRight(n, g, q, BoundedOrUnknown(n, g, "unknown"))
         /\ \A v : v # "unknown" => BoundedOrUnknown(n, g, v) = v
<1>1. IsRight(n, g, q, "unknown")
  BY DEF IsRight, Answers
<1>2. ASSUME GraphVerdict(n, g, q) = "unknown", ClosedCyclicRuns(n, g) >= 1
      PROVE  IsRight(n, g, q, "bounded")
  <2>1. ~ BrokenIn(n, q, Within(n, ClosedCyclicRuns(n, g)))
    BY <1>2, GraphIsRight, BoundIsRight
  <2>. QED BY <1>2, <2>1 DEF IsRight, Answers
<1>3. GraphVerdict(n, g, q) # "unknown" => IsRight(n, g, q, GraphVerdict(n, g, q))
  BY GraphIsRight DEF IsRight, Answers
<1>. QED BY <1>1, <1>2, <1>3, Zenon DEF BoundedOrUnknown

(* A bound or an exclusion: the graph first, then the solver. *)
LEMMA BoundVerdictIsRight ==
  ASSUME NEW n, IsNet(n), NEW g, IsGraph(n, g), NEW o, NEW q, q.kind \notin RestKinds
  PROVE  /\ IsRight(n, g, q, BoundVerdict(n, o, g, q))
         /\ BoundVerdict(n, o, g, q) = "unknown" => GraphVerdict(n, g, q) = "unknown"
<1>. DEFINE s == SmtDecision(n, o, q)
<1>1. s \in {"violated", "proven", "unknown"}
      /\ (s = "proven" => ~ BrokenIn(n, q, Reachable(n))) /\ (s = "violated" => BrokenIn(n, q, Reachable(n)))
  BY SolverIsRight
<1>. HIDE DEF s
<1>2. s # "unknown" => IsRight(n, g, q, s)
  BY <1>1 DEF IsRight, Answers
<1>3. BoundVerdict(n, o, g, q) = IF GraphVerdict(n, g, q) # "unknown" THEN GraphVerdict(n, g, q)
                                 ELSE BoundedOrUnknown(n, g, s)
  BY Zenon DEF BoundVerdict, s
<1>. QED BY <1>2, <1>3, GraphFirst

(* A node is reported dead only where the graph or the solver proved that it never runs. *)
LEMMA DeadVerdictIsRight ==
  ASSUME NEW n, IsNet(n), NEW g, IsGraph(n, g), NEW o, NEW q, q.kind = "dead"
  PROVE  /\ DeadVerdict(n, o, g, q) \in {"violated", "unknown"}
         /\ DeadVerdict(n, o, g, q) = "violated" => TrulyBroken(n, q)
<1>1. q.kind \notin RestKinds
  BY DEF RestKinds
<1>2. ASSUME GraphVerdict(n, g, q) = "proven" \/ SmtDecision(n, o, q) = "proven"
      PROVE  ~ BrokenIn(n, q, Reachable(n))
  BY <1>1, <1>2, GraphIsRight, SolverIsRight
<1>. QED BY <1>2, Zenon DEF DeadVerdict, TrulyBroken

(* A chain is broken by the failure place that is, and bounded by all of them. *)
LEMMA ChainVerdictIsRight ==
  ASSUME NEW n, IsNet(n), NEW g, IsGraph(n, g), NEW o, NEW q, q.kind = "chain"
  PROVE  /\ ChainVerdict(n, o, g, q) \in Answers
         /\ ChainVerdict(n, o, g, q) = "proven" => TrulyHolds(n, q)
         /\ ChainVerdict(n, o, g, q) = "violated" => TrulyBroken(n, q)
         /\ ChainVerdict(n, o, g, q) = "bounded" =>
              ClosedCyclicRuns(n, g) >= 1 /\ ~ BrokenIn(n, q, Within(n, ClosedCyclicRuns(n, g)))
<1>. DEFINE a(p) == AskBound(q.family, p, 1)  V(p) == BoundVerdict(n, o, g, a(p))
            verdicts == {V(p) : p \in q.places}
<1>1. \A p : IsRight(n, g, a(p), V(p))
  <2>1. \A p : a(p).kind \notin RestKinds
    BY DEF AskBound, RestKinds
  <2>. QED BY <2>1, BoundVerdictIsRight
<1>2. \A p, c, r : Breaks(n, a(p), c, r) <=> n.marks[c][p] > 1
  BY DEF Breaks, AskBound
<1>3. \A c, r : Breaks(n, q, c, r) <=> \E p \in q.places : n.marks[c][p] > 1
  BY DEF Breaks
<1>. HIDE DEF a
<1>4. \A C : BrokenIn(n, q, C) <=> \E p \in q.places : BrokenIn(n, a(p), C)
  BY <1>2, <1>3, Zenon DEF BrokenIn
<1>5. ChainVerdict(n, o, g, q) = IF q.refunded THEN "violated" ELSE WeakestVerdict(verdicts)
  BY Zenon DEF ChainVerdict, a
<1>. HIDE DEF V
<1>6. \A p \in q.places : V(p) \in Answers
  BY <1>1, Zenon DEF IsRight
<1>7. CASE q.refunded
  BY <1>5, <1>7 DEF TrulyBroken, Answers
<1>8. CASE ~ q.refunded
  <2>. DEFINE v == WeakestVerdict(verdicts)
  <2>1. /\ v \in Answers
        /\ v = "violated" => \E p \in q.places : V(p) = "violated"
        /\ v = "bounded" => \A p \in q.places : V(p) \in {"bounded", "proven"}
        /\ v = "proven" => \A p \in q.places : V(p) = "proven"
        /\ v = "bounded" => \E p \in q.places : V(p) = "bounded"
    <3>1. \A x : x \in verdicts <=> \E p \in q.places : x = V(p)
      OBVIOUS
    <3>2. \A x \in verdicts : x \in Answers
      BY <1>6
    <3>. HIDE DEF verdicts
    <3>3. /\ v \in Answers
          /\ v = "violated" => "violated" \in verdicts
          /\ v = "bounded" => "violated" \notin verdicts /\ "unknown" \notin verdicts /\ "bounded" \in verdicts
          /\ v = "proven" => "violated" \notin verdicts /\ "unknown" \notin verdicts /\ "bounded" \notin verdicts
      BY DEF WeakestVerdict, Answers
    <3>. HIDE DEF v
    <3>4. \A p \in q.places : V(p) \in verdicts
      BY <3>1, Zenon
    <3>. QED BY <3>1, <3>2, <3>3, <3>4, Zenon DEF Answers
  <2>. HIDE DEF v
  <2>2. ASSUME v = "proven" PROVE TrulyHolds(n, q)
    <3>1. ~ BrokenIn(n, q, Reachable(n))
      BY <1>1, <1>4, <2>1, <2>2, Zenon DEF IsRight
    <3>. QED BY <1>8, <3>1 DEF TrulyHolds, AtRest
  <2>3. ASSUME v = "violated" PROVE TrulyBroken(n, q)
    <3>1. BrokenIn(n, q, Reachable(n))
      BY <1>1, <1>4, <2>1, <2>3, Zenon DEF IsRight
    <3>. QED BY <3>1 DEF TrulyBroken
  <2>4. ASSUME v = "bounded"
        PROVE  ClosedCyclicRuns(n, g) >= 1 /\ ~ BrokenIn(n, q, Within(n, ClosedCyclicRuns(n, g)))
    <3>1. ClosedCyclicRuns(n, g) >= 1
      BY <1>1, <2>1, <2>4, Zenon DEF IsRight
    <3>. DEFINE C == Within(n, ClosedCyclicRuns(n, g))
    <3>2. C \subseteq Reachable(n)
      BY <3>1, BoundIsRight
    <3>. HIDE DEF C
    <3>3. \A p : ~ BrokenIn(n, a(p), Reachable(n)) => ~ BrokenIn(n, a(p), C)
      BY <3>2, Zenon DEF BrokenIn
    <3>4. ASSUME NEW p \in q.places PROVE ~ BrokenIn(n, a(p), C)
      <4>1. CASE V(p) = "proven"
        BY <1>1, <3>3, <4>1, Zenon DEF IsRight
      <4>2. CASE V(p) = "bounded"
        BY <1>1, <4>2, Zenon DEF IsRight, C
      <4>. QED BY <2>1, <2>4, <4>1, <4>2
    <3>. QED BY <1>4, <3>1, <3>4, Zenon DEF C
  <2>5. ChainVerdict(n, o, g, q) = v
    BY <1>5, <1>8, Zenon DEF v
  <2>. QED BY <2>1, <2>2, <2>3, <2>4, <2>5, Zenon
<1>. QED BY <1>7, <1>8

(* The bound on tries is the graph's or the marking's, refunds included. *)
LEMMA TriesVerdictIsRight ==
  ASSUME NEW n, IsNet(n), NEW g, IsGraph(n, g), NEW o, NEW q, q.kind = "tries"
  PROVE  /\ TriesVerdict(n, o, g, q) \in Answers
         /\ TriesVerdict(n, o, g, q) = "proven" => TrulyHolds(n, q)
         /\ TriesVerdict(n, o, g, q) = "violated" => TrulyBroken(n, q)
         /\ TriesVerdict(n, o, g, q) = "bounded" =>
              ClosedCyclicRuns(n, g) >= 1 /\ ~ BrokenIn(n, q, Within(n, ClosedCyclicRuns(n, g)))
<1>. DEFINE b == BoundVerdict(n, o, g, q)
<1>1. IsRight(n, g, q, b)
  <2>1. q.kind \notin RestKinds
    BY DEF RestKinds
  <2>. QED BY <2>1, BoundVerdictIsRight
<1>2. TriesVerdict(n, o, g, q) = IF q.refunded THEN "violated" ELSE IF b \in {"proven", "bounded"} THEN b ELSE "unknown"
  BY Zenon DEF TriesVerdict
<1>. HIDE DEF b
<1>3. CASE q.refunded
  BY <1>2, <1>3 DEF TrulyBroken, Answers
<1>4. CASE ~ q.refunded
  <2>1. TriesVerdict(n, o, g, q) = "proven" => b = "proven" /\ ~ BrokenIn(n, q, Reachable(n))
    BY <1>1, <1>2, <1>4 DEF IsRight
  <2>2. TriesVerdict(n, o, g, q) = "bounded" => b = "bounded"
    BY <1>1, <1>2, <1>4 DEF IsRight
  <2>3. TriesVerdict(n, o, g, q) \in {"proven", "bounded", "unknown"}
    BY <1>2, <1>4
  <2>4. TriesVerdict(n, o, g, q) = "proven" => TrulyHolds(n, q)
    BY <1>4, <2>1 DEF TrulyHolds, AtRest
  <2>. QED BY <1>1, <2>2, <2>3, <2>4 DEF IsRight, Answers
<1>. QED BY <1>3, <1>4

-----------------------------------------------------------------------------
(* Completion.  Whatever marker a class at rest holds, the sinks declared to the solver    *)
(* are among the roles that may rest there.                                                *)
LEMMA SinksMayRest ==
  ASSUME NEW n, NEW c
  PROVE  Pending(n, c) \subseteq OutsideSinks(n, c)
<1>. DEFINE R == RolesAt(n, c)
<1>1. CompletionSinks(n, c) \subseteq RestRolesFor(TerminalKind(R))
  <2>1. RestRoles \subseteq PauseRestRoles /\ PauseRestRoles \subseteq HaltRestRoles
    BY DEF PauseRestRoles, HaltRestRoles
  <2>2. \A x : x \in CompletionSinks(n, c)
          => x \in RestRoles \/ ("pause" \in R /\ x \in PauseRestRoles) \/ ("halt" \in R /\ x \in HaltRestRoles)
    <3>. HIDE DEF R
    <3>1. CompletionSinks(n, c) = RestRoles \cup UNION {s[2] : s \in {t \in ConditionalSinks : t[1] \in R}}
      BY Zenon DEF CompletionSinks, R
    <3>2. \A s \in ConditionalSinks : (s[1] = "pause" /\ s[2] = PauseRestRoles) \/ (s[1] = "halt" /\ s[2] = HaltRestRoles)
      BY DEF ConditionalSinks
    <3>. QED BY <3>1, <3>2
  <2>. HIDE DEF R
  <2>3. "halt" \in R => RestRolesFor(TerminalKind(R)) = HaltRestRoles
    BY DEF RestRolesFor, TerminalKind
  <2>4. "halt" \notin R /\ "pause" \in R => RestRolesFor(TerminalKind(R)) = PauseRestRoles
    BY DEF RestRolesFor, TerminalKind, TerminalRoles
  <2>5. RestRolesFor(TerminalKind(R)) \in {HaltRestRoles, PauseRestRoles, RestRoles}
    BY DEF RestRolesFor, TerminalKind
  <2>. QED BY <2>1, <2>2, <2>3, <2>4, <2>5, Zenon
<1>. QED BY <1>1 DEF Pending, OutsideSinks

(* What the solver says of the whole net is so: proven, nothing rests on work; violated, its witness does. *)
LEMMA CompletionIsRight ==
  ASSUME NEW n, NEW o, TimeIsSeen(n, o), NEW w \in SomeWitness(n)
  PROVE  /\ Completion(n, o, w) \in {"violated", "proven", "unknown"}
         /\ Completion(n, o, w) = "proven" =>
              \A c \in Reachable(n) : Leaving(n.moves, c) = {} => Pending(n, c) = {}
         /\ Completion(n, o, w) = "violated" =>
              w \in Reachable(n) /\ Leaving(n.moves, w) = {} /\ Pending(n, w) # {}
<1>1. ASSUME Completion(n, o, w) = "proven", NEW c \in Reachable(n), Leaving(n.moves, c) = {}
      PROVE  Pending(n, c) = {}
  <2>1. Witnesses(n) = {} /\ o.solver = "answers" /\ "whole" \in o.closes
    BY <1>1 DEF Completion
  <2>2. n.stuck = {}
    BY <2>1 DEF TimeIsSeen
  <2>3. Enabled(n, c) = {}
    BY <1>1, <2>2 DEF Enabled
  <2>4. OutsideSinks(n, c) = {}
    BY <2>1, <2>3, Zenon DEF Witnesses
  <2>. QED BY <2>4, SinksMayRest
<1>2. ASSUME Completion(n, o, w) = "violated"
      PROVE  w \in Reachable(n) /\ Leaving(n.moves, w) = {} /\ Pending(n, w) # {}
  <2>1. Witnesses(n) # {} /\ Pending(n, w) # {}
    BY <1>2 DEF Completion, Excused
  <2>2. w \in Witnesses(n)
    BY <2>1 DEF SomeWitness
  <2>3. w \in Reachable(n) /\ Enabled(n, w) = {}
    BY <2>2, Zenon DEF Witnesses
  <2>. QED BY <2>1, <2>3, LeavingIs
<1>3. Completion(n, o, w) \in {"violated", "proven", "unknown"}
  BY DEF Completion
<1>. QED BY <1>1, <1>2, <1>3, Zenon

(* The whole-net question, and a row of it: a row is given its own stranding only.         *)
LEMMA WholeNetVerdictIsRight ==
  ASSUME NEW n, IsNet(n), NEW g, IsGraph(n, g), NEW o, TimeIsSeen(n, o), NEW w \in SomeWitness(n),
         NEW q, q.kind \in {"whole", "completes"}, q.kind = "completes" => Completion(n, o, w) # "violated"
  PROVE  IsRight(n, g, q, WholeNetVerdict(n, o, g, q, w))
<1>. DEFINE s == Completion(n, o, w)
<1>1. s \in {"violated", "proven", "unknown"}
  BY CompletionIsRight
<1>2. s = "proven" => IsRight(n, g, q, s)
  <2>1. HAVE s = "proven"
  <2>2. \A c \in Reachable(n) : Leaving(n.moves, c) = {} => Pending(n, c) = {}
    BY <2>1, CompletionIsRight
  <2>3. \A c : Breaks(n, q, c, Leaving(n.moves, c) = {}) => Leaving(n.moves, c) = {} /\ Pending(n, c) # {}
    BY DEF Breaks
  <2>4. ~ BrokenIn(n, q, Reachable(n))
    BY <2>2, <2>3, Zenon DEF BrokenIn
  <2>. HIDE DEF s
  <2>. QED BY <2>1, <2>4 DEF IsRight, Answers
<1>3. s = "violated" => IsRight(n, g, q, s)
  <2>1. HAVE s = "violated"
  <2>2. w \in Reachable(n) /\ Leaving(n.moves, w) = {} /\ Pending(n, w) # {}
    BY <2>1, CompletionIsRight
  <2>3. q.kind = "whole"
    BY <2>1
  <2>4. Breaks(n, q, w, Leaving(n.moves, w) = {})
    BY <2>2, <2>3 DEF Breaks
  <2>5. BrokenIn(n, q, Reachable(n))
    BY <2>2, <2>4, Zenon DEF BrokenIn
  <2>. HIDE DEF s
  <2>. QED BY <2>1, <2>5 DEF IsRight, Answers
<1>4. WholeNetVerdict(n, o, g, q, w) = IF GraphVerdict(n, g, q) # "unknown" THEN GraphVerdict(n, g, q)
                                       ELSE BoundedOrUnknown(n, g, s)
  BY Zenon DEF WholeNetVerdict
<1>. HIDE DEF s
<1>5. s # "unknown" => IsRight(n, g, q, s)
  BY <1>1, <1>2, <1>3
<1>. QED BY <1>4, <1>5, GraphFirst

(* A row is violated only by a witness that strands this very place. *)
LEMMA RowVerdictIsRight ==
  ASSUME NEW n, IsNet(n), NEW g, IsGraph(n, g), NEW o, TimeIsSeen(n, o), NEW w \in SomeWitness(n),
         NEW q, q.kind = "completes"
  PROVE  IsRight(n, g, q, RowVerdict(n, o, g, q, w))
<1>1. CASE GraphVerdict(n, g, q) = "unknown" /\ Completion(n, o, w) = "violated"
  <2>1. CASE WitnessStrands(n, w, q.a)
    <3>1. w \in Reachable(n) /\ Leaving(n.moves, w) = {} /\ Pending(n, w) # {}
      BY <1>1, CompletionIsRight
    <3>2. Breaks(n, q, w, Leaving(n.moves, w) = {})
      BY <2>1, <3>1 DEF Breaks, WitnessStrands
    <3>3. BrokenIn(n, q, Reachable(n))
      BY <3>1, <3>2, Zenon DEF BrokenIn
    <3>4. IsRight(n, g, q, "violated")
      BY <3>3 DEF IsRight, Answers
    <3>. QED BY <1>1, <2>1, <3>4, Zenon DEF RowVerdict
  <2>2. CASE ~ WitnessStrands(n, w, q.a)
    BY <1>1, <2>2, GraphFirst, Zenon DEF RowVerdict
  <2>. QED BY <2>1, <2>2
<1>2. CASE ~ (GraphVerdict(n, g, q) = "unknown" /\ Completion(n, o, w) = "violated")
  <2>1. RowVerdict(n, o, g, q, w) = WholeNetVerdict(n, o, g, q, w)
    BY <1>2, Zenon DEF RowVerdict
  <2>2. CASE Completion(n, o, w) # "violated"
    BY <2>1, <2>2, WholeNetVerdictIsRight
  <2>3. CASE GraphVerdict(n, g, q) # "unknown"
    <3>1. WholeNetVerdict(n, o, g, q, w) = GraphVerdict(n, g, q)
      BY <2>3, Zenon DEF WholeNetVerdict
    <3>2. IsRight(n, g, q, GraphVerdict(n, g, q))
      BY <2>3, GraphFirst
    <3>. QED BY <2>1, <3>1, <3>2
  <2>. QED BY <1>2, <2>2, <2>3
<1>. QED BY <1>1, <1>2

(* engineV2: what is said of rests is said of some rest. *)
LEMMA SettlementVerdictIsRight ==
  ASSUME NEW n, IsNet(n), NEW g, IsGraph(n, g), NEW q, q.kind \in {"exclusive", "bound", "rests", "decided"}
  PROVE  /\ SettlementVerdict(n, g, q) \in {"violated", "proven", "unknown"}
         /\ SettlementVerdict(n, g, q) = "proven" => TrulyHolds(n, q)
         /\ SettlementVerdict(n, g, q) = "violated" => TrulyBroken(n, q)
<1>. DEFINE a == GraphVerdict(n, g, q)
<1>1. SettlementVerdict(n, g, q) = IF a = "proven" /\ AtRest(q) /\ RestClasses(n, g) = {} THEN "unknown" ELSE a
  BY Zenon DEF SettlementVerdict
<1>2. /\ a \in {"violated", "proven", "unknown"}
      /\ a = "violated" => BrokenIn(n, q, Reachable(n))
      /\ a = "proven" => ~ BrokenIn(n, q, Reachable(n)) /\ g.complete
  BY GraphIsRight
<1>. HIDE DEF a
<1>3. ASSUME a = "proven", ~ (AtRest(q) /\ RestClasses(n, g) = {}) PROVE TrulyHolds(n, q)
  <2>1. ASSUME AtRest(q) PROVE \E c \in Reachable(n) : SettledRest(n, c, Leaving(n.moves, c) = {})
    <3>1. PICK i \in DOMAIN g.found : SettledRest(n, g.found[i], IsQuiescent(n, g, i))
      BY <1>3, <2>1 DEF RestClasses
    <3>2. Leaving(n.moves, g.found[i]) = {}
      BY <3>1, QuiescentIsAtRest DEF SettledRest
    <3>3. SettledRest(n, g.found[i], Leaving(n.moves, g.found[i]) = {})
      BY <3>1, <3>2 DEF SettledRest
    <3>. QED BY <3>3, FoundIsReachable
  <2>2. q.kind \notin {"none", "dead", "chain", "tries"}
    OBVIOUS
  <2>. QED BY <1>2, <1>3, <2>1, <2>2, Zenon DEF TrulyHolds
<1>4. a = "violated" => TrulyBroken(n, q)
  BY <1>2 DEF TrulyBroken
<1>. QED BY <1>1, <1>2, <1>3, <1>4, Zenon

-----------------------------------------------------------------------------
(* The questions asked of a net of each profile. *)
V1Kinds == {"bound", "chain", "tries", "together", "dead", "whole", "completes", "none"}
V2Kinds == {"exclusive", "bound", "rests", "decided", "none"}
KindsOf(n) == IF n.profile = "engineV2" THEN V2Kinds ELSE V1Kinds

(* Every question asked is of one of the kinds of its profile. *)
LEMMA QuestionsAre ==
  ASSUME NEW n, NEW o
  PROVE  \A q \in Questions(n, o) : q.kind \in KindsOf(n)
<1>1. ASSUME NEW q \in SettlementQuestions(n) PROVE q.kind \in V2Kinds
  BY DEF SettlementQuestions, Ask, AskBound, V2Kinds
<1>2. ASSUME NEW q \in BudgetQuestions(n) \cup ActivationQuestions(n) \cup AttemptBounds(n) \cup TriesBounds(n)
      PROVE q.kind = "bound"
  BY DEF BudgetQuestions, ActivationQuestions, AttemptBounds, TriesBounds, AskBound
<1>3. ASSUME NEW q \in ChainQuestions(n) \cup TriesQuestions(n) \cup ExclusionQuestions(n) \cup DeadQuestions(n)
      PROVE q.kind \in {"chain", "tries", "together", "dead"}
  BY DEF ChainQuestions, TriesQuestions, ExclusionQuestions, DeadQuestions
<1>4. ASSUME NEW q \in CompletionQuestions(n) PROVE q.kind \in {"whole", "bound", "completes"}
  BY DEF CompletionQuestions, Ask, AskBound
<1>5. \A q \in AllQuestions(n) : q.kind \in KindsOf(n)
  <2>1. TAKE q \in AllQuestions(n)
  <2>2. CASE n.profile = "engineV2"
    BY <1>1, <2>2, Zenon DEF AllQuestions, KindsOf
  <2>3. CASE n.profile # "engineV2"
    <3>1. \/ q \in BudgetQuestions(n) \cup ActivationQuestions(n) \cup AttemptBounds(n) \cup TriesBounds(n)
          \/ q \in ChainQuestions(n) \cup TriesQuestions(n) \cup ExclusionQuestions(n) \cup DeadQuestions(n)
          \/ q \in CompletionQuestions(n)
      BY <2>3 DEF AllQuestions
    <3>2. q.kind \in V1Kinds
      BY <1>2, <1>3, <1>4, <3>1 DEF V1Kinds
    <3>. QED BY <2>3, <3>2 DEF KindsOf
  <2>. QED BY <2>2, <2>3
<1>6. \A q \in Questions(n, o) : q \in AllQuestions(n) \/ \E f : q = [kind |-> "none", family |-> f]
  BY Zenon DEF Questions
<1>7. "none" \in KindsOf(n) /\ \A f : [kind |-> "none", family |-> f].kind = "none"
  BY DEF KindsOf, V1Kinds, V2Kinds
<1>. QED BY <1>5, <1>6, <1>7

(* A verdict of a report, whatever the question. *)
Earned(n, g, q, v) ==
  /\ v \in Answers
  /\ v = "proven" => TrulyHolds(n, q)
  /\ v = "violated" => TrulyBroken(n, q)
  /\ v = "bounded" => ClosedCyclicRuns(n, g) >= 1 /\ ~ BrokenIn(n, q, Within(n, ClosedCyclicRuns(n, g)))
OpenKinds == {"none", "dead", "tries", "chain"}

(* For a question that needs no special reading, right is earned. *)
LEMMA RightIsEarned ==
  ASSUME NEW n, NEW g, NEW q, NEW v, IsRight(n, g, q, v), q.kind \in {"bound", "together", "whole", "completes"}
  PROVE  Earned(n, g, q, v)
<1>1. q.kind \notin {"none", "dead", "chain", "tries", "rests", "decided"}
  OBVIOUS
<1>. QED BY <1>1, Zenon DEF IsRight, Earned, TrulyHolds, TrulyBroken, AtRest

(* Whatever the question, the verdict is earned. *)
LEMMA VerdictIsEarned ==
  ASSUME NEW n, IsNet(n), NEW g, IsGraph(n, g), NEW o, TimeIsSeen(n, o), NEW w \in SomeWitness(n),
         NEW q, q.kind \in KindsOf(n)
  PROVE  Earned(n, g, q, Verdict(n, o, g, q, w))
<1>. DEFINE v == Verdict(n, o, g, q, w)
<1>1. CASE q.kind = "none"
  <2>1. v = "unknown"
    BY <1>1 DEF Verdict
  <2>. HIDE DEF v
  <2>. QED BY <2>1 DEF Earned, Answers, v
<1>2. CASE q.kind # "none" /\ n.profile = "engineV2"
  <2>1. v = SettlementVerdict(n, g, q) /\ q.kind \in {"exclusive", "bound", "rests", "decided"}
    BY <1>2 DEF Verdict, KindsOf, V2Kinds
  <2>. HIDE DEF v
  <2>2. /\ v \in {"violated", "proven", "unknown"}
        /\ v = "proven" => TrulyHolds(n, q)
        /\ v = "violated" => TrulyBroken(n, q)
    BY <2>1, SettlementVerdictIsRight
  <2>. QED BY <2>2 DEF Earned, Answers, v
<1>3. CASE q.kind # "none" /\ n.profile # "engineV2"
  <2>1. q.kind \in {"bound", "chain", "tries", "together", "dead", "whole", "completes"}
    BY <1>3 DEF KindsOf, V1Kinds
  <2>2. CASE q.kind \in {"bound", "together"}
    <3>1. v = BoundVerdict(n, o, g, q) /\ q.kind \notin RestKinds
      BY <1>3, <2>2 DEF Verdict, RestKinds
    <3>. HIDE DEF v
    <3>2. IsRight(n, g, q, v)
      BY <3>1, BoundVerdictIsRight
    <3>. QED BY <2>2, <3>2, RightIsEarned DEF v
  <2>3. CASE q.kind = "dead"
    <3>1. v = DeadVerdict(n, o, g, q)
      BY <1>3, <2>3 DEF Verdict
    <3>. HIDE DEF v
    <3>2. v \in {"violated", "unknown"} /\ (v = "violated" => TrulyBroken(n, q))
      BY <2>3, <3>1, DeadVerdictIsRight
    <3>. QED BY <3>2 DEF Earned, Answers, v
  <2>4. CASE q.kind = "chain"
    <3>1. v = ChainVerdict(n, o, g, q)
      BY <1>3, <2>4 DEF Verdict
    <3>. QED BY <2>4, <3>1, ChainVerdictIsRight, Zenon DEF Earned
  <2>5. CASE q.kind = "tries"
    <3>1. v = TriesVerdict(n, o, g, q)
      BY <1>3, <2>5 DEF Verdict
    <3>. QED BY <2>5, <3>1, TriesVerdictIsRight, Zenon DEF Earned
  <2>6. CASE q.kind = "whole"
    <3>1. v = WholeNetVerdict(n, o, g, q, w)
      BY <1>3, <2>6 DEF Verdict
    <3>. HIDE DEF v
    <3>2. IsRight(n, g, q, v)
      BY <2>6, <3>1, WholeNetVerdictIsRight
    <3>. QED BY <2>6, <3>2, RightIsEarned DEF v
  <2>7. CASE q.kind = "completes"
    <3>1. v = RowVerdict(n, o, g, q, w)
      BY <1>3, <2>7 DEF Verdict
    <3>. HIDE DEF v
    <3>2. IsRight(n, g, q, v)
      BY <2>7, <3>1, RowVerdictIsRight
    <3>. QED BY <2>7, <3>2, RightIsEarned DEF v
  <2>. QED BY <2>1, <2>2, <2>3, <2>4, <2>5, <2>6, <2>7, Zenon
<1>. QED BY <1>1, <1>2, <1>3

(* What stays unknown, the graph left unknown. *)
LEMMA UnknownIsOpen ==
  ASSUME NEW n, IsNet(n), NEW g, IsGraph(n, g), NEW o, NEW w,
         NEW q, q.kind \in KindsOf(n) \ OpenKinds, n.profile # "engineV2", Verdict(n, o, g, q, w) = "unknown"
  PROVE  GraphVerdict(n, g, q) = "unknown"
<1>. DEFINE a == GraphVerdict(n, g, q)
<1>1. q.kind \in {"bound", "together", "whole", "completes"}
  BY DEF KindsOf, V1Kinds, OpenKinds
<1>2. CASE q.kind \in {"bound", "together"}
  <2>1. BoundVerdict(n, o, g, q) = "unknown" /\ q.kind \notin RestKinds
    BY <1>2 DEF Verdict, RestKinds
  <2>. QED BY <2>1, BoundVerdictIsRight
<1>3. CASE q.kind \in {"whole", "completes"}
  <2>1. ASSUME a # "unknown" PROVE WholeNetVerdict(n, o, g, q, w) = a /\ RowVerdict(n, o, g, q, w) = a
    BY <2>1, Zenon DEF WholeNetVerdict, RowVerdict
  <2>2. WholeNetVerdict(n, o, g, q, w) = "unknown" \/ RowVerdict(n, o, g, q, w) = "unknown"
    BY <1>3 DEF Verdict
  <2>. QED BY <2>1, <2>2, Zenon
<1>. QED BY <1>1, <1>2, <1>3

-----------------------------------------------------------------------------
(***************************************************************************)
(* The command.  The inductive invariant: what is recorded is the report   *)
(* of one whole pass, under the cap of the stage the command is in.        *)
(***************************************************************************)
Reported(cap) == \E w \in SomeWitness(case.net) : report = RunReport(case.net, case.opts, cap, w)
FullCap == case.opts.maxClasses
FirstCap == StagedCap(case.net, case.opts)

TypeOK == case \in Cases /\ pass \in {"flags", "first", "full", "done"} /\ exit \in {-1, 0, 1, 2, 3}
PassIsWhole ==
  /\ pass = "flags" => report = NoReport /\ exit = -1
  /\ pass = "first" => Reported(FirstCap) /\ exit = -1
  /\ pass = "full" => Reported(FullCap) /\ exit = -1
  /\ pass = "done" =>
       \/ exit = 2 /\ report = NoReport
       \/ /\ exit = ExitCode(case.net, case.opts, report)
          /\ Reported(FullCap) \/ (Reported(FirstCap) /\ ~ Escalates)
IInv == TypeOK /\ PassIsWhole

(* The exit codes there are. *)
LEMMA ExitCodeIs ==
  ASSUME NEW n, NEW o, NEW r
  PROVE  ExitCode(n, o, r) \in {0, 1, 3}
BY DEF ExitCode

(* The invariant: a report is that of its pass, and the exit code that of its report. *)
LEMMA Invariance == Spec => []IInv
<1>1. Init => IInv
  BY DEF Init, IInv, TypeOK, PassIsWhole
<1>2. IInv /\ [Next]_vars => IInv'
  <2>. SUFFICES ASSUME IInv, [Next]_vars PROVE IInv'
    OBVIOUS
  <2>. USE DEF IInv, TypeOK, PassIsWhole
  <2>1. CASE UsageError
    BY <2>1 DEF UsageError
  <2>2. CASE FirstReport
    <3>1. Reported(FirstCap)'
      BY <2>2 DEF FirstReport, Reported, FirstCap
    <3>. QED BY <2>2, <3>1 DEF FirstReport
  <2>3. CASE Escalate
    <3>1. Reported(FullCap)'
      BY <2>3 DEF Escalate, Reported, FullCap
    <3>. QED BY <2>3, <3>1 DEF Escalate
  <2>4. CASE Finish
    <3>1. UNCHANGED <<case, report>>
      BY <2>4 DEF Finish
    <3>2. exit' = ExitCode(case.net, case.opts, report) /\ pass' = "done"
      BY <2>4 DEF Finish
    <3>3. Reported(FullCap) \/ (Reported(FirstCap) /\ ~ Escalates)
      BY <2>4 DEF Finish
    <3>4. (Reported(FullCap) \/ (Reported(FirstCap) /\ ~ Escalates))'
      BY <3>1, <3>3 DEF Reported, FullCap, FirstCap, Escalates
    <3>5. (exit = ExitCode(case.net, case.opts, report))'
      BY <3>1, <3>2
    <3>6. exit' \in {0, 1, 3}
      BY <3>2, ExitCodeIs
    <3>. QED BY <3>1, <3>2, <3>4, <3>5, <3>6
  <2>5. CASE UNCHANGED vars
    BY <2>5 DEF vars, Reported, FullCap, FirstCap, Escalates
  <2>. QED BY <2>1, <2>2, <2>3, <2>4, <2>5 DEF Next
<1>. QED BY <1>1, <1>2, PTL DEF Spec

-----------------------------------------------------------------------------
(* What a report records of each question. *)
LEMMA ReportIs ==
  ASSUME case \in Cases, NEW cap, Reported(cap)
  PROVE  \E w \in SomeWitness(case.net), g \in {Explore(case.net, case.opts, cap)} :
           /\ IsNet(case.net) /\ TimeIsSeen(case.net, case.opts) /\ IsGraph(case.net, g)
           /\ report.runs = ClosedCyclicRuns(case.net, g)
           /\ report.truncated <=> g.built /\ ~ g.complete
           /\ \A q \in DOMAIN report.verdicts :
                /\ q.kind \in KindsOf(case.net)
                /\ report.verdicts[q] = Verdict(case.net, case.opts, g, q, w)
                /\ Earned(case.net, g, q, report.verdicts[q])
<1>. DEFINE n == case.net  o == case.opts  g == Explore(n, o, cap)
<1>1. IsNet(n) /\ TimeIsSeen(n, o)
  BY CasesAssumption, Zenon
<1>2. IsGraph(n, g)
  BY <1>1, ExploreIsGraph
<1>3. PICK w \in SomeWitness(n) : report = RunReport(n, o, cap, w)
  BY Zenon DEF Reported
<1>. HIDE DEF n, o, g
<1>4. /\ report.runs = ClosedCyclicRuns(n, g) /\ report.truncated = (g.built /\ ~ g.complete)
      /\ report.verdicts = [q \in Questions(n, o) |-> Verdict(n, o, g, q, w)]
  BY <1>3 DEF RunReport, g
<1>5. ASSUME NEW q \in DOMAIN report.verdicts
      PROVE  /\ q.kind \in KindsOf(n) /\ report.verdicts[q] = Verdict(n, o, g, q, w)
             /\ Earned(n, g, q, report.verdicts[q])
  <2>1. q \in Questions(n, o) /\ report.verdicts[q] = Verdict(n, o, g, q, w)
    BY <1>4
  <2>2. q.kind \in KindsOf(n)
    BY <2>1, QuestionsAre
  <2>3. Earned(n, g, q, Verdict(n, o, g, q, w))
    BY <1>1, <1>2, <2>2, VerdictIsEarned
  <2>. QED BY <2>1, <2>2, <2>3
<1>. QED BY <1>1, <1>2, <1>3, <1>4, <1>5 DEF n, o, g

(* The command's position is one of its stages, and its exit code one of the documented. *)
THEOREM TypeCorrect == Spec => []TypeOK
BY Invariance, PTL DEF IInv

(* Whatever net is verified, under whatever cap, and whatever witness z3 picks: what a     *)
(* report proves holds of every class a run can reach, and what it calls violated is.      *)
THEOREM VerdictsTrue == Spec => []VerdictsAreTrue
<1>1. IInv => VerdictsAreTrue
  <2>1. SUFFICES ASSUME IInv PROVE VerdictsAreTrue
    OBVIOUS
  <2>2. ASSUME NEW cap, Reported(cap) PROVE VerdictsAreTrue
    <3>1. case \in Cases
      BY <2>1, Zenon DEF IInv, TypeOK
    <3>2. PICK w \in SomeWitness(case.net), g \in {Explore(case.net, case.opts, cap)} :
            \A q \in DOMAIN report.verdicts : Earned(case.net, g, q, report.verdicts[q])
      BY <2>2, <3>1, ReportIs, Zenon
    <3>. QED BY <3>2, Zenon DEF VerdictsAreTrue, Earned
  <2>3. ASSUME report = NoReport PROVE VerdictsAreTrue
    BY <2>3 DEF NoReport, VerdictsAreTrue
  <2>. QED BY <2>1, <2>2, <2>3 DEF IInv, TypeOK, PassIsWhole
<1>. QED BY <1>1, Invariance, PTL

(* A bounded verdict is exact wherever the graph was cut: no run with at most that many    *)
(* runs of cyclic nodes leaves the classes whose successors are known.                     *)
THEOREM BoundsTrue == Spec => []BoundsHold
<1>1. IInv => BoundsHold
  <2>1. SUFFICES ASSUME IInv PROVE BoundsHold
    OBVIOUS
  <2>2. ASSUME NEW cap, Reported(cap) PROVE BoundsHold
    <3>1. case \in Cases
      BY <2>1, Zenon DEF IInv, TypeOK
    <3>2. PICK w \in SomeWitness(case.net), g \in {Explore(case.net, case.opts, cap)} :
            /\ report.runs = ClosedCyclicRuns(case.net, g)
            /\ \A q \in DOMAIN report.verdicts : Earned(case.net, g, q, report.verdicts[q])
      BY <2>2, <3>1, ReportIs, Zenon
    <3>3. ASSUME NEW q \in DOMAIN report.verdicts, report.verdicts[q] = "bounded"
          PROVE  report.runs >= 1 /\ ~ BrokenIn(case.net, q, Within(case.net, report.runs))
      BY <3>2, <3>3, Zenon DEF Earned
    <3>4. \A q \in Counted(report, {"bounded"}) : q \in DOMAIN report.verdicts /\ report.verdicts[q] = "bounded"
      BY DEF Counted
    <3>. QED BY <3>3, <3>4, Zenon DEF BoundsHold
  <2>3. ASSUME report = NoReport PROVE BoundsHold
    BY <2>3 DEF NoReport, BoundsHold, Counted
  <2>. QED BY <2>1, <2>2, <2>3 DEF IInv, TypeOK, PassIsWhole
<1>. QED BY <1>1, Invariance, PTL

(* An exit code 0 says what it is documented to say, and the first pass under its own cap  *)
(* leaves nothing open that one pass under the full cap would have closed.                 *)
THEOREM ExitEarned == Spec => []ExitIsEarned
<1>1. ASSUME IInv, exit = 0 PROVE
        /\ Counted(report, {"violated"}) = {}
        /\ case.opts.strict => \A q \in DOMAIN report.verdicts : TrulyHolds(case.net, q)
        /\ case.net.profile = "v1" => case.opts.solver # "absent"
  <2>1. ExitCode(case.net, case.opts, report) = 0 /\ case \in Cases /\ \E cap : Reported(cap)
    BY <1>1 DEF IInv, TypeOK, PassIsWhole
  <2>2. PICK cap : Reported(cap)
    BY <2>1
  <2>3. PICK w \in SomeWitness(case.net), g \in {Explore(case.net, case.opts, cap)} :
          \A q \in DOMAIN report.verdicts : Earned(case.net, g, q, report.verdicts[q])
    BY <2>1, <2>2, ReportIs, Zenon
  <2>4. /\ Counted(report, {"violated"}) = {}
        /\ case.net.profile = "v1" => case.opts.solver # "absent"
        /\ case.opts.strict => Unproven(report) = {}
    BY <2>1 DEF ExitCode
  <2>5. ASSUME case.opts.strict, NEW q \in DOMAIN report.verdicts PROVE TrulyHolds(case.net, q)
    <3>1. report.verdicts[q] \notin {"unknown", "bounded", "violated"}
      BY <2>4, <2>5 DEF Unproven, Counted
    <3>2. report.verdicts[q] = "proven"
      BY <2>3, <3>1 DEF Earned, Answers
    <3>. QED BY <2>3, <3>2, Zenon DEF Earned
  <2>. QED BY <2>4, <2>5
<1>2. ASSUME IInv, exit \in {0, 1, 3}, NEW q \in LeftOpen
      PROVE  GraphVerdict(case.net, Explore(case.net, case.opts, FullCap), q) = "unknown"
  <2>. DEFINE n == case.net  o == case.opts  full == Explore(n, o, FullCap)
  <2>1. /\ q \in DOMAIN report.verdicts /\ report.verdicts[q] = "unknown"
        /\ n.profile = "v1" /\ q.kind \notin OpenKinds
    BY DEF LeftOpen, Counted, OpenKinds
  <2>2. case \in Cases /\ (Reported(FullCap) \/ (Reported(FirstCap) /\ ~ Escalates))
    BY <1>2 DEF IInv, TypeOK, PassIsWhole
  <2>3. ASSUME NEW cap, Reported(cap)
        PROVE  LET g == Explore(n, o, cap)
               IN /\ GraphVerdict(n, g, q) = "unknown" /\ IsGraph(n, g) /\ IsNet(n)
                  /\ report.truncated <=> g.built /\ ~ g.complete
    <3>1. PICK w \in SomeWitness(n), g \in {Explore(n, o, cap)} :
            /\ IsNet(n) /\ IsGraph(n, g)
            /\ report.truncated <=> g.built /\ ~ g.complete
            /\ \A x \in DOMAIN report.verdicts :
                 x.kind \in KindsOf(n) /\ report.verdicts[x] = Verdict(n, o, g, x, w)
      BY <2>2, <2>3, ReportIs, Zenon
    <3>2. n.profile # "engineV2" /\ q.kind \in KindsOf(n) \ OpenKinds /\ Verdict(n, o, g, q, w) = "unknown"
      BY <2>1, <3>1
    <3>. HIDE DEF n, o
    <3>3. GraphVerdict(n, g, q) = "unknown"
      BY <3>1, <3>2, UnknownIsOpen
    <3>4. g = Explore(n, o, cap)
      BY <3>1
    <3>. QED BY <3>1, <3>3, <3>4
  <2>4. CASE Reported(FullCap)
    BY <2>3, <2>4
  <2>5. CASE Reported(FirstCap) /\ ~ Escalates /\ FirstCap = FullCap
    BY <2>3, <2>5
  <2>6. CASE Reported(FirstCap) /\ ~ Escalates /\ FirstCap # FullCap
    <3>. DEFINE g == Explore(n, o, FirstCap)
    <3>1. GraphVerdict(n, g, q) = "unknown" /\ IsGraph(n, g) /\ IsNet(n) /\ (report.truncated <=> g.built /\ ~ g.complete)
      BY <2>3, <2>6
    <3>2. q \in Counted(report, {"violated", "bounded", "unknown"})
      BY <2>1 DEF Counted
    <3>3. ~ report.truncated
      BY <2>6, <3>2 DEF Escalates, WorthEscalating, FirstCap, FullCap
    <3>. HIDE DEF n, o, g
    <3>4. ~ g.complete
      BY <3>1, GraphIsRight
    <3>5. ~ g.built
      BY <3>1, <3>3, <3>4
    <3>6. ~ o.builds
      <4>1. StateClassGraph(n, EffectiveMaxClasses(FirstCap)).built = TRUE
        BY DEF StateClassGraph
      <4>. QED BY <3>5, <4>1, Zenon DEF Explore, g
    <3>7. Explore(n, o, FullCap) = NoGraph
      BY <3>6, Zenon DEF Explore
    <3>8. ~ Found(n, NoGraph, q) /\ ~ NoGraph.complete
      BY NoGraphIs, Zenon DEF Found
    <3>9. GraphVerdict(n, NoGraph, q) = "unknown"
      BY <3>8, Zenon DEF GraphVerdict
    <3>. QED BY <3>7, <3>9, Zenon DEF n, o
  <2>. QED BY <2>2, <2>4, <2>5, <2>6
<1>3. IInv => ExitIsEarned
  BY <1>1, <1>2, Zenon DEF ExitIsEarned, FullCap
<1>. QED BY <1>3, Invariance, PTL
=============================================================================
