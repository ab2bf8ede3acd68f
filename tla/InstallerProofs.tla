--------------------------- MODULE InstallerProofs ---------------------------
(***************************************************************************)
(* Proofs about the installer and the boot over the tree it keeps          *)
(* (Installer), for any number of processes, files and kills.              *)
(*                                                                         *)
(* The lock is not the code's to promise alone: a run that found a dead    *)
(* lock renames whatever is there before it knows whose it is.  So the     *)
(* proof has two halves: when the lock keeps one holder (OneHolder), and   *)
(* what the holder's writes keep while it does.                            *)
(***************************************************************************)
EXTENDS Installer, FiniteSetTheorems, WellFoundedInduction, TLAPS

-----------------------------------------------------------------------------
(***************************************************************************)
(* The invariants.                                                         *)
(***************************************************************************)
(* A backup is copied and verified for a replaced file left to do. *)
CopiesReplaced ==
    \A r \in Runs :
      /\ run[r].pc \in {"copy", "verify"} => run[r].todo \subseteq Replaced
      /\ run[r].pc = "verify" => run[r].todo # {}

NoneOdd == \A f \in Files : files[f] # "odd"

(* A run that has seen every file in a state it knows, and is still at work. *)
TrustingAt(command, pc) ==
    \/ pc \in UnderLock \ {"load"}
    \/ command = "install" /\ pc \in {"mkdir", "create", "inspect", "aside", "judge"}
Trusting(r) == TrustingAt(run[r].command, run[r].pc)

TrustIsEarned == \A r \in Runs : Trusting(r) => NoneOdd

FindersUninstall == \A r \in Runs : run[r].pc = "find" => run[r].command # "install"

-----------------------------------------------------------------------------
(* The lock: what is there has a directory; who moves a lock aside saw its holder gone. *)
LockNeedsDir == ~dir.exists => dir.lock = NoRun /\ \A r \in Runs : dir.aside[r] = NoRun

Recovering == {"aside", "judge"}
SeenIsGone ==
    \A r \in Runs :
      /\ run[r].seen # NoRun => run[r].seen # r /\ IsGone(run[r].seen)
      /\ run[r].pc \in Recovering => run[r].seen # NoRun

(* The holder's lock is there, or on its way back from the run that moved it. *)
MayPutBack(a, r) ==
    a # r /\ run[a].seen # NoRun /\ run[a].pc \in {"judge"} \cup Ended /\ dir.aside[a] \in {NoRun, r}
HoldsLock(r) == dir.lock = r \/ (dir.lock = NoRun /\ \E a \in Runs : MayPutBack(a, r))
HolderHasLock == \A r \in Runs : run[r].pc \in UnderLock => HoldsLock(r)

(* Without kills nothing is ever recovered. *)
NothingToRecover ==
    MaxKills = 0 =>
      /\ \A r \in Runs : run[r].seen = NoRun
      /\ dir.lock # NoRun => run[dir.lock].pc \in UnderLock

LockInv == LockNeedsDir /\ SeenIsGone /\ HolderHasLock /\ NothingToRecover

AtMostOneHolder == \A r, s \in Runs : run[r].pc \in UnderLock /\ run[s].pc \in UnderLock => r = s

-----------------------------------------------------------------------------
(* What the tree and the state directory say of each other, whoever was stopped where. *)
UntouchedIsStock == NoneOdd /\ ~dir.record /\ dir.journal = "none" => AllAre("stock")
DropIsSafe == "dropJournal" \notin MayFail
RecordIsTrue == DropIsSafe /\ NoneOdd /\ dir.record => AllAre("written")
BackupsAreThere == NoneOdd => BackupsNeededDamaged = {}

(* How far the holder is. *)
AllBackedUp == \A f \in Replaced : dir.backup[f] = "good"
Phase(r) ==
    /\ run[r].pc \in {"clean", "journal"} => AllAre("stock") /\ ~dir.record
    /\ run[r].pc \in {"copy", "verify"} =>
         /\ AllAre("stock") /\ ~dir.record /\ dir.journal # "none"
         /\ \A f \in Replaced \ run[r].todo : dir.backup[f] = "good"
    /\ run[r].pc = "write" =>
         /\ ~dir.record /\ dir.journal # "none" /\ AllBackedUp
         /\ \A f \in Files : files[f] = IF f \in run[r].todo THEN "stock" ELSE "written"
    /\ run[r].pc = "record" => ~dir.record /\ dir.journal # "none" /\ AllBackedUp /\ AllAre("written")
    /\ run[r].pc = "dropJournal" => dir.record /\ AllBackedUp /\ AllAre("written")
    /\ run[r].pc = "release" => dir.record /\ dir.journal = "none" /\ AllAre("written")
    /\ run[r].pc \in {"journalBack", "forget"} => run[r].todo = Files
    /\ run[r].pc = "forget" => dir.journal # "none"
    /\ run[r].pc \in {"restore", "sweep", "remove"} => (DropIsSafe => ~dir.record)
    /\ run[r].pc = "restore" => \A f \in Files \ run[r].todo : files[f] = "stock"
    /\ run[r].pc \in {"sweep", "remove", "removeJournal", "removeDir"} => AllAre("stock")
    /\ run[r].pc \in {"removeJournal", "removeDir"} => ~dir.record
    /\ run[r].pc \in {"remove", "removeJournal", "removeDir"} => ~temps

TreeInv ==
    /\ UntouchedIsStock /\ RecordIsTrue /\ BackupsAreThere /\ Loadable
    /\ \A r \in Runs : Phase(r)

-----------------------------------------------------------------------------
(***************************************************************************)
(* The orders in which files are written and restored.                     *)
(***************************************************************************)
(* Every nonempty set of naturals has a least one: of the sets 1 .. n, one is minimal. *)
LEMMA LeastNatural ==
    ASSUME NEW T \in SUBSET Nat, T # {}
    PROVE  \E m \in T : \A n \in T : m <= n
<1>. DEFINE Upto(n) == 1 .. n
            F == {Upto(n) : n \in T}
<1>. SUFFICES ASSUME \A m \in T : \E n \in T : n < m
              PROVE  FALSE
  OBVIOUS
<1>1. IsWellFoundedOn(StrictSubsetOrdering(Nat), FiniteSubsetsOf(Nat))
  BY FS_StrictSubsetOrderingWellFounded
<1>2. F \subseteq FiniteSubsetsOf(Nat) /\ F # {}
  <2>1. \A n \in T : Upto(n) \in FiniteSubsetsOf(Nat)
    BY FS_Interval DEF FiniteSubsetsOf
  <2>. QED
    BY <2>1
<1>3. PICK B \in F : \A C \in F : ~(<<C, B>> \in StrictSubsetOrdering(Nat))
  <2>. HIDE DEF F
  <2>. QED
    BY <1>1, <1>2, WFMin
<1>4. PICK m \in T : B = Upto(m)
  OBVIOUS
<1>5. PICK n \in T : n < m
  OBVIOUS
<1>6. Upto(n) \subseteq Upto(m) /\ m \in Upto(m) /\ m \notin Upto(n) /\ Upto(m) \subseteq Nat
  <2>1. m \in Nat /\ n \in Nat /\ n < m
    BY <1>5
  <2>2. \A k \in 1 .. n : k \in 1 .. m
    BY <2>1
  <2>3. m \in 1 .. m /\ m \notin 1 .. n
    BY <2>1
  <2>4. \A k \in 1 .. m : k \in Nat
    BY <2>1
  <2>. QED
    BY <2>2, <2>3, <2>4, Zenon
<1>7. <<Upto(n), Upto(m)>> \in StrictSubsetOrdering(Nat)
  <2>. HIDE DEF Upto
  <2>. QED
    BY <1>6 DEF StrictSubsetOrdering
<1>. QED
  BY <1>3, <1>4, <1>7

(* FirstOf is a file left to do, and no file before it in the order is. *)
LEMMA FirstIsLeft ==
    ASSUME NEW S, NEW order \in Seq(S), NEW todo, todo # {},
           todo \subseteq {order[i] : i \in DOMAIN order}
    PROVE  \E i \in DOMAIN order :
             /\ FirstOf(order, todo) = order[i] /\ order[i] \in todo
             /\ \A j \in 1 .. (i - 1) : order[j] \notin todo
<1>. DEFINE T == {i \in DOMAIN order : order[i] \in todo}
<1>1. DOMAIN order = 1 .. Len(order) /\ Len(order) \in Nat
  OBVIOUS
<1>2. T \in SUBSET Nat /\ T # {}
  BY <1>1
<1>3. PICK m \in T : \A n \in T : m <= n
  <2>. HIDE DEF T
  <2>. QED
    BY <1>2, LeastNatural
<1>4. \A j \in 1 .. (m - 1) : order[j] \notin todo
  BY <1>1, <1>3
<1>. QED
  BY <1>3, <1>4 DEF FirstOf

LEMMA ConcatenationIsOrdered ==
    ASSUME NEW R, NEW S, NEW a \in Seq(R), NEW b \in Seq(S)
    PROVE  /\ a \o b \in Seq(R \cup S)
           /\ DOMAIN (a \o b) = 1 .. (Len(a) + Len(b))
           /\ \A i \in DOMAIN a : i \in DOMAIN (a \o b) /\ (a \o b)[i] = a[i]
           /\ \A i \in DOMAIN b : Len(a) + i \in DOMAIN (a \o b) /\ (a \o b)[Len(a) + i] = b[i]
           /\ \A i \in DOMAIN (a \o b) : i \notin DOMAIN a => i > Len(a) /\ \A j \in DOMAIN a : j \in 1 .. (i - 1)
           /\ \A i \in DOMAIN (a \o b) : i \notin DOMAIN a => i - Len(a) \in DOMAIN b
  OBVIOUS

(* Of two disjoint orders, one after the other, a file of the second comes when none of the first is left. *)
LEMMA SecondComesLast ==
    ASSUME NEW R, NEW S, NEW a \in Seq(R), NEW b \in Seq(S), R \cap S = {},
           \A x \in R : \E i \in DOMAIN a : x = a[i],
           \A x \in S : \E i \in DOMAIN b : x = b[i],
           NEW todo \in SUBSET (R \cup S), todo # {}
    PROVE  /\ FirstOf(a \o b, todo) \in todo
           /\ FirstOf(a \o b, todo) \in S => todo \cap R = {}
<1>. DEFINE order == a \o b
<1>0. order \in Seq(R \cup S) /\ DOMAIN order = 1 .. (Len(a) + Len(b))
      /\ (\A i \in DOMAIN a : i \in DOMAIN order /\ order[i] = a[i])
      /\ (\A i \in DOMAIN b : Len(a) + i \in DOMAIN order /\ order[Len(a) + i] = b[i])
      /\ (\A i \in DOMAIN order : i \notin DOMAIN a => \A j \in DOMAIN a : j \in 1 .. (i - 1))
  BY ConcatenationIsOrdered
<1>. HIDE DEF order
<1>1. todo \subseteq {order[i] : i \in DOMAIN order}
  <2>. SUFFICES ASSUME NEW x \in todo
                PROVE  \E i \in DOMAIN order : x = order[i]
    OBVIOUS
  <2>1. CASE x \in R
    BY <1>0, <2>1
  <2>2. CASE x \in S
    <3>1. PICK i \in DOMAIN b : x = b[i]
      BY <2>2
    <3>. QED
      BY <1>0, <3>1
  <2>. QED
    BY <2>1, <2>2
<1>2. PICK i \in DOMAIN order : /\ FirstOf(order, todo) = order[i] /\ order[i] \in todo
                                /\ \A j \in 1 .. (i - 1) : order[j] \notin todo
  BY <1>0, <1>1, FirstIsLeft
<1>3. ASSUME FirstOf(order, todo) \in S PROVE todo \cap R = {}
  <2>1. i \notin DOMAIN a
    BY <1>0, <1>2, <1>3
  <2>2. \A j \in DOMAIN a : a[j] \notin todo
    BY <1>0, <1>2, <2>1
  <2>. QED
    BY <2>2
<1>. QED
  BY <1>2, <1>3 DEF order

LEMMA CreatedAreWrittenFirst ==
    ASSUME NEW todo \in SUBSET Files, todo # {}
    PROVE  /\ FirstOf(WriteOrder, todo) \in todo
           /\ FirstOf(WriteOrder, todo) \in Replaced => todo \cap Created = {}
<1>1. /\ \A x \in Created : \E i \in DOMAIN CreatedOrder : x = CreatedOrder[i]
      /\ \A x \in Replaced : \E i \in DOMAIN ReplacedOrder : x = ReplacedOrder[i]
  BY DEF Created, Replaced
<1>2. /\ CreatedOrder \in Seq(Created) /\ ReplacedOrder \in Seq(Replaced)
      /\ Created \cap Replaced = {} /\ Replaced \cap Created = {}
      /\ todo \in SUBSET (Created \cup Replaced) /\ todo \in SUBSET (Replaced \cup Created)
  BY InstallerAssumption DEF Files
<1>3. /\ FirstOf(CreatedOrder \o ReplacedOrder, todo) \in todo
      /\ FirstOf(CreatedOrder \o ReplacedOrder, todo) \in Replaced => todo \cap Created = {}
  BY <1>1, <1>2, SecondComesLast
<1>. QED
  BY <1>3 DEF WriteOrder

LEMMA ReplacedAreRestoredFirst ==
    ASSUME NEW todo \in SUBSET Files, todo # {}
    PROVE  /\ FirstOf(RestoreOrder, todo) \in todo
           /\ FirstOf(RestoreOrder, todo) \in Created => todo \cap Replaced = {}
<1>1. /\ \A x \in Created : \E i \in DOMAIN CreatedOrder : x = CreatedOrder[i]
      /\ \A x \in Replaced : \E i \in DOMAIN ReplacedOrder : x = ReplacedOrder[i]
  BY DEF Created, Replaced
<1>2. /\ CreatedOrder \in Seq(Created) /\ ReplacedOrder \in Seq(Replaced)
      /\ Created \cap Replaced = {} /\ Replaced \cap Created = {}
      /\ todo \in SUBSET (Created \cup Replaced) /\ todo \in SUBSET (Replaced \cup Created)
  BY InstallerAssumption DEF Files
<1>3. /\ FirstOf(ReplacedOrder \o CreatedOrder, todo) \in todo
      /\ FirstOf(ReplacedOrder \o CreatedOrder, todo) \in Created => todo \cap Replaced = {}
  BY <1>1, <1>2, SecondComesLast
<1>. QED
  BY <1>3 DEF RestoreOrder

LEMMA FirstReplaced ==
    ASSUME NEW todo \in SUBSET Replaced, todo # {}
    PROVE  FirstOf(ReplacedOrder, todo) \in todo
BY InstallerAssumption, FirstIsLeft DEF Replaced

-----------------------------------------------------------------------------
(***************************************************************************)
(* Types.                                                                  *)
(***************************************************************************)
Phases == {"idle"} \cup Active \cup Ended

(* The state of one run, as TypeOK has it. *)
RunStates == [command : Commands \cup {NoRun}, pc : Phases, attempt : 1 .. Attempts,
              seen : Runs \cup {NoRun}, originals : SUBSET Replaced, todo : SUBSET Files]

FileStates == {"stock", "written", "odd"}
DirStates == [exists : BOOLEAN, record : BOOLEAN, journal : {"none", "install", "uninstall"},
              lock : Runs \cup {NoRun}, backup : [Replaced -> {"none", "torn", "good"}],
              aside : [Runs -> Runs \cup {NoRun}]]

TypeInv == TypeOK /\ CopiesReplaced

LEMMA TypesUnfolded ==
    TypeOK <=> /\ files \in [Files -> FileStates] /\ temps \in BOOLEAN
               /\ dir \in DirStates /\ run \in [Runs -> RunStates]
BY DEF TypeOK, FileStates, DirStates, RunStates, Phases

LEMMA TypesUnfoldedNext ==
    TypeOK' <=> /\ files' \in [Files -> FileStates] /\ temps' \in BOOLEAN
                /\ dir' \in DirStates /\ run' \in [Runs -> RunStates]
BY DEF TypeOK, FileStates, DirStates, RunStates, Phases

LEMMA PhasesAreNamed ==
    /\ "idle" \in Phases /\ "readRecord" \in Phases /\ "readJournal" \in Phases /\ "plan" \in Phases
    /\ "find" \in Phases /\ "mkdir" \in Phases /\ "create" \in Phases /\ "inspect" \in Phases
    /\ "aside" \in Phases /\ "judge" \in Phases /\ "recheck" \in Phases /\ "clean" \in Phases
    /\ "release" \in Phases /\ "load" \in Phases /\ "sweep" \in Phases /\ "remove" \in Phases
    /\ "removeJournal" \in Phases /\ "removeDir" \in Phases /\ "journal" \in Phases /\ "copy" \in Phases
    /\ "verify" \in Phases /\ "write" \in Phases /\ "record" \in Phases /\ "dropJournal" \in Phases
    /\ "restore" \in Phases /\ "journalBack" \in Phases /\ "forget" \in Phases /\ "alreadyInstalled" \in Phases
    /\ "installed" \in Phases /\ "rolledBack" \in Phases /\ "notInstalled" \in Phases /\ "uninstalled" \in Phases
    /\ "refused" \in Phases /\ "inconsistent" \in Phases /\ "failed" \in Phases /\ "killed" \in Phases
    /\ Replaced \subseteq Files /\ Created \subseteq Files
BY DEF Phases, Active, Failable, Ended, Files

(* A step of r that moves it to p, and one that also gives it files to do. *)
LEMMA GoMoves ==
    ASSUME run \in [Runs -> RunStates], NEW r \in Runs, NEW p \in Phases, Go(r, p)
    PROVE  /\ run' \in [Runs -> RunStates]
           /\ \A s \in Runs : s # r => run'[s] = run[s]
           /\ run'[r].pc = p /\ run'[r].todo = run[r].todo /\ run'[r].seen = run[r].seen
           /\ run'[r].command = run[r].command /\ run'[r].originals = run[r].originals
BY DEF Go, RunStates

LEMMA GoForMoves ==
    ASSUME run \in [Runs -> RunStates], NEW r \in Runs, NEW p \in Phases, NEW todo \in SUBSET Files,
           GoFor(r, p, todo)
    PROVE  /\ run' \in [Runs -> RunStates]
           /\ \A s \in Runs : s # r => run'[s] = run[s]
           /\ run'[r].pc = p /\ run'[r].todo = todo /\ run'[r].seen = run[r].seen
           /\ run'[r].command = run[r].command /\ run'[r].originals = run[r].originals
<1>. DEFINE new == [run[r] EXCEPT !.pc = p, !.todo = todo]
<1>1. run' = [run EXCEPT ![r] = new]
  BY DEF GoFor
<1>2. /\ new \in RunStates /\ new.pc = p /\ new.todo = todo /\ new.seen = run[r].seen
      /\ new.command = run[r].command /\ new.originals = run[r].originals
  BY DEF RunStates
<1>. HIDE DEF new
<1>3. run' \in [Runs -> RunStates] /\ run'[r] = new /\ \A s \in Runs : s # r => run'[s] = run[s]
  BY <1>1, <1>2
<1>. QED
  BY <1>2, <1>3

LEMMA TryAgainMoves ==
    ASSUME run \in [Runs -> RunStates], NEW r \in Runs, TryAgain(r)
    PROVE  /\ run' \in [Runs -> RunStates]
           /\ \A s \in Runs : s # r => run'[s] = run[s]
           /\ run'[r].pc \in {"create", "refused"} /\ run'[r].todo = run[r].todo /\ run'[r].seen = run[r].seen
           /\ run'[r].command = run[r].command /\ run'[r].originals = run[r].originals
<1>1. CASE run[r].attempt = Attempts
  <2>1. Go(r, "refused")
    BY <1>1 DEF TryAgain
  <2>2. "refused" \in Phases
    BY DEF Phases, Ended
  <2>. QED
    BY <2>1, <2>2, GoMoves
<1>2. CASE run[r].attempt # Attempts
  <2>1. run' = [run EXCEPT ![r].pc = "create", ![r].attempt = @ + 1]
    BY <1>2 DEF TryAgain
  <2>2. "create" \in Phases /\ run[r].attempt + 1 \in 1 .. Attempts
    BY <1>2 DEF Phases, Active, RunStates, Attempts
  <2>. QED
    BY <2>1, <2>2 DEF RunStates
<1>. QED
  BY <1>1, <1>2

LEMMA TypeInit == Init => TypeInv
<1>. SUFFICES ASSUME Init PROVE TypeInv
  OBVIOUS
<1>1. files \in [Files -> FileStates] /\ temps \in BOOLEAN
  BY DEF Init, FileStates
<1>2. dir \in DirStates
  BY DEF Init, DirStates, NoDir
<1>3. run \in [Runs -> RunStates]
  BY DEF Init, RunStates, Phases, Attempts
<1>4. CopiesReplaced
  BY DEF Init, CopiesReplaced
<1>. QED
  BY <1>1, <1>2, <1>3, <1>4, TypesUnfolded DEF TypeInv

(* The edits of the state directory. *)
LEMMA DirEdits ==
    ASSUME dir \in DirStates
    PROVE  /\ NoDir \in DirStates /\ Released \in DirStates
           /\ [dir EXCEPT !.exists = TRUE] \in DirStates
           /\ [dir EXCEPT !.record = TRUE] \in DirStates /\ [dir EXCEPT !.record = FALSE] \in DirStates
           /\ [dir EXCEPT !.journal = "none"] \in DirStates
           /\ [dir EXCEPT !.journal = "install"] \in DirStates
           /\ [dir EXCEPT !.journal = "uninstall"] \in DirStates
           /\ [dir EXCEPT !.backup = NoDir.backup, !.aside = NoDir.aside] \in DirStates
           /\ [dir EXCEPT !.backup = NoDir.backup, !.aside = NoDir.aside, !.record = FALSE] \in DirStates
           /\ \A f \in Replaced : \A b \in {"torn", "good"} : [dir EXCEPT !.backup[f] = b] \in DirStates
<1>1. NoDir \in DirStates
  BY DEF DirStates, NoDir
<1>2. Released \in DirStates
  BY DEF DirStates, Released
<1>3. /\ [dir EXCEPT !.exists = TRUE] \in DirStates
      /\ [dir EXCEPT !.record = TRUE] \in DirStates /\ [dir EXCEPT !.record = FALSE] \in DirStates
  BY DEF DirStates
<1>4. /\ [dir EXCEPT !.journal = "none"] \in DirStates
      /\ [dir EXCEPT !.journal = "install"] \in DirStates
      /\ [dir EXCEPT !.journal = "uninstall"] \in DirStates
  BY DEF DirStates
<1>5. /\ NoDir.backup \in [Replaced -> {"none", "torn", "good"}]
      /\ NoDir.aside \in [Runs -> Runs \cup {NoRun}]
  BY DEF NoDir
<1>6. /\ [dir EXCEPT !.backup = NoDir.backup, !.aside = NoDir.aside] \in DirStates
      /\ [dir EXCEPT !.backup = NoDir.backup, !.aside = NoDir.aside, !.record = FALSE] \in DirStates
  BY <1>5 DEF DirStates
<1>7. \A f \in Replaced : \A b \in {"torn", "good"} : [dir EXCEPT !.backup[f] = b] \in DirStates
  BY DEF DirStates
<1>. QED
  BY <1>1, <1>2, <1>3, <1>4, <1>6, <1>7

(* A step of r that leaves it well typed, and in a phase where it has not to have files to copy. *)
MovesOn(r) ==
    /\ run' \in [Runs -> RunStates]
    /\ \A s \in Runs : s # r => run'[s] = run[s]
    /\ run'[r].pc \in {"copy", "verify"} => run'[r].todo \subseteq Replaced
    /\ run'[r].pc = "verify" => run'[r].todo # {}

LEMMA GoMovesOn ==
    ASSUME run \in [Runs -> RunStates], NEW r \in Runs
    PROVE  /\ \A p \in Phases \ {"copy", "verify"} : Go(r, p) => MovesOn(r)
           /\ \A p \in Phases \ {"copy", "verify"}, todo \in SUBSET Files : GoFor(r, p, todo) => MovesOn(r)
           /\ TryAgain(r) => MovesOn(r)
BY GoMoves, GoForMoves, TryAgainMoves DEF MovesOn

LEMMA TakesKeepsTypes ==
    ASSUME TypeInv, NEW r \in Runs, Takes(r)
    PROVE  TypeInv'
<1>0. /\ files \in [Files -> FileStates] /\ temps \in BOOLEAN
      /\ dir \in DirStates /\ run \in [Runs -> RunStates] /\ CopiesReplaced
  BY TypesUnfolded DEF TypeInv
<1>1. files' \in [Files -> FileStates] /\ temps' \in BOOLEAN /\ dir' \in DirStates
  <2>1. CASE MakeStateDir(r)
    BY <1>0, <2>1, DirEdits DEF MakeStateDir, HoldsFiles
  <2>2. CASE Create(r)
    <3>1. dir' = dir \/ dir' = [dir EXCEPT !.lock = r]
      BY <2>2 DEF Create
    <3>3. dir' \in DirStates
      BY ONLY <1>0, <3>1, r \in Runs DEF DirStates
    <3>. QED
      BY <1>0, <2>2, <3>3 DEF Create, HoldsFiles
  <2>3. CASE Inspect(r)
    BY <1>0, <2>3 DEF Inspect
  <2>4. CASE MoveAside(r)
    <3>1. /\ dir.aside \in [Runs -> Runs \cup {NoRun}]
          /\ [dir.aside EXCEPT ![r] = dir.lock] \in [Runs -> Runs \cup {NoRun}]
      BY <1>0 DEF DirStates
    <3>2. dir' = dir \/ dir' = [dir EXCEPT !.lock = NoRun, !.aside = [dir.aside EXCEPT ![r] = dir.lock]]
      BY <2>4 DEF MoveAside
    <3>3. dir' \in DirStates
      BY ONLY <1>0, <3>1, <3>2 DEF DirStates
    <3>. QED
      BY <1>0, <2>4, <3>3 DEF MoveAside, HoldsFiles
  <2>5. CASE Judge(r)
    <3>. DEFINE emptied == [dir.aside EXCEPT ![r] = NoRun]
    <3>1. /\ dir.lock \in Runs \cup {NoRun} /\ dir.aside[r] \in Runs \cup {NoRun}
          /\ emptied \in [Runs -> Runs \cup {NoRun}]
      BY <1>0 DEF DirStates
    <3>2. \/ dir' = dir \/ dir' = [dir EXCEPT !.aside = emptied]
          \/ \E lock \in {dir.lock, dir.aside[r]} : dir' = [dir EXCEPT !.lock = lock, !.aside = emptied]
      BY <2>5 DEF Judge
    <3>3. dir' \in DirStates
      BY ONLY <1>0, <3>1, <3>2 DEF DirStates
    <3>. QED
      BY <1>0, <2>5, <3>3 DEF Judge, HoldsFiles
  <2>. QED
    BY <2>1, <2>2, <2>3, <2>4, <2>5 DEF Takes
<1>2. MovesOn(r)
  <2>1. CASE MakeStateDir(r)
    BY <1>0, <2>1, GoMovesOn, PhasesAreNamed DEF MakeStateDir
  <2>2. CASE Create(r)
    BY <1>0, <2>2, GoMovesOn, PhasesAreNamed DEF Create, Locked
  <2>3. CASE Inspect(r)
    <3>1. CASE dir.lock # NoRun /\ IsStale(dir.lock) /\ run' = [run EXCEPT ![r].pc = "aside", ![r].seen = dir.lock]
      <4>. DEFINE seen == [run[r] EXCEPT !.pc = "aside", !.seen = dir.lock]
      <4>1. dir.lock \in Runs \cup {NoRun} /\ "aside" \in Phases /\ run[r] \in RunStates
        BY <1>0, PhasesAreNamed DEF DirStates
      <4>2. seen \in RunStates /\ seen.pc = "aside"
        BY <4>1 DEF RunStates
      <4>3. run' = [run EXCEPT ![r] = seen]
        BY <3>1
      <4>. HIDE DEF seen
      <4>4. run' \in [Runs -> RunStates] /\ run'[r] = seen /\ \A s \in Runs : s # r => run'[s] = run[s]
        BY ONLY <1>0, <4>2, <4>3, r \in Runs
      <4>. QED
        BY <4>2, <4>4 DEF MovesOn
    <3>. QED
      BY <1>0, <2>3, <3>1, GoMovesOn, PhasesAreNamed DEF Inspect
  <2>4. CASE MoveAside(r)
    BY <1>0, <2>4, GoMovesOn, PhasesAreNamed DEF MoveAside
  <2>5. CASE Judge(r)
    BY <1>0, <2>5, GoMovesOn, PhasesAreNamed DEF Judge
  <2>. QED
    BY <2>1, <2>2, <2>3, <2>4, <2>5 DEF Takes
<1>3. CopiesReplaced'
  BY <1>0, <1>2 DEF CopiesReplaced, MovesOn
<1>. QED
  BY <1>1, <1>2, <1>3, TypesUnfoldedNext DEF TypeInv, MovesOn

LEMMA InstallsKeepsTypes ==
    ASSUME TypeInv, NEW r \in Runs, Installs(r)
    PROVE  TypeInv'
<1>0. /\ files \in [Files -> FileStates] /\ temps \in BOOLEAN
      /\ dir \in DirStates /\ run \in [Runs -> RunStates] /\ CopiesReplaced
  BY TypesUnfolded DEF TypeInv
<1>1. files' \in [Files -> FileStates] /\ temps' \in BOOLEAN /\ dir' \in DirStates
  <2>1. CASE ReadRecord(r)
    BY <1>0, <2>1 DEF ReadRecord
  <2>2. CASE ReadJournal(r)
    BY <1>0, <2>2 DEF ReadJournal
  <2>3. CASE Plan(r)
    BY <1>0, <2>3 DEF Plan
  <2>4. CASE Recheck(r)
    BY <1>0, <2>4, DirEdits DEF Recheck, HoldsFiles
  <2>5. CASE Clean(r)
    BY <1>0, <2>5, DirEdits DEF Clean, HoldsFiles
  <2>6. CASE WriteJournal(r)
    BY <1>0, <2>6, DirEdits DEF WriteJournal, HoldsFiles
  <2>7. CASE CopyBackup(r)
    <3>1. CASE run[r].todo = {}
      BY <1>0, <2>7, <3>1 DEF CopyBackup, HoldsFiles
    <3>2. CASE run[r].todo # {}
      <4>. DEFINE f == FirstOf(ReplacedOrder, run[r].todo)
      <4>1. run[r].todo \subseteq Replaced
        BY <1>0, <2>7 DEF CopyBackup, At, CopiesReplaced
      <4>2. f \in Replaced
        BY <3>2, <4>1, FirstReplaced
      <4>3. dir' = [dir EXCEPT !.backup[f] = "torn"] /\ UNCHANGED <<files, temps>>
        BY <2>7, <3>2 DEF CopyBackup, HoldsFiles
      <4>. HIDE DEF f
      <4>. QED
        BY <1>0, <4>2, <4>3, DirEdits
    <3>. QED
      BY <3>1, <3>2
  <2>8. CASE VerifyBackup(r)
    <3>. DEFINE f == FirstOf(ReplacedOrder, run[r].todo)
    <3>1. f \in Replaced
      BY <1>0, <2>8, FirstReplaced DEF VerifyBackup, At, CopiesReplaced
    <3>2. (dir' = dir \/ dir' = [dir EXCEPT !.backup[f] = "good"]) /\ UNCHANGED <<files, temps>>
      BY <2>8 DEF VerifyBackup, HoldsFiles
    <3>. HIDE DEF f
    <3>. QED
      BY <1>0, <3>1, <3>2, DirEdits
  <2>9. CASE WriteFile(r)
    <3>. DEFINE f == FirstOf(WriteOrder, run[r].todo)
    <3>1. (files' = files \/ files' = [files EXCEPT ![f] = "written"]) /\ UNCHANGED <<temps, dir>>
      BY <2>9 DEF WriteFile
    <3>. HIDE DEF f
    <3>. QED
      BY <1>0, <3>1 DEF FileStates
  <2>10. CASE WriteRecord(r)
    BY <1>0, <2>10, DirEdits DEF WriteRecord, HoldsFiles
  <2>11. CASE DropJournal(r)
    BY <1>0, <2>11, DirEdits DEF DropJournal, HoldsFiles
  <2>12. CASE Release(r)
    BY <1>0, <2>12, DirEdits DEF Release, HoldsFiles
  <2>. QED
    BY <2>1, <2>2, <2>3, <2>4, <2>5, <2>6, <2>7, <2>8, <2>9, <2>10, <2>11, <2>12 DEF Installs
<1>2. MovesOn(r)
  <2>1. CASE ReadRecord(r)
    BY <1>0, <2>1, GoMovesOn, PhasesAreNamed DEF ReadRecord
  <2>2. CASE ReadJournal(r)
    BY <1>0, <2>2, GoMovesOn, PhasesAreNamed DEF ReadJournal
  <2>3. CASE Plan(r)
    BY <1>0, <2>3, GoMovesOn, PhasesAreNamed DEF Plan
  <2>4. CASE Recheck(r)
    BY <1>0, <2>4, GoMovesOn, PhasesAreNamed DEF Recheck
  <2>5. CASE Clean(r)
    BY <1>0, <2>5, GoMovesOn, PhasesAreNamed DEF Clean
  <2>6. CASE WriteJournal(r)
    <3>1. GoFor(r, "copy", Replaced) /\ Replaced \in SUBSET Files
      BY <2>6, PhasesAreNamed DEF WriteJournal
    <3>. QED
      BY <1>0, <3>1, GoForMoves, PhasesAreNamed DEF MovesOn
  <2>7. CASE CopyBackup(r)
    <3>1. CASE run[r].todo = {}
      BY <1>0, <2>7, <3>1, GoMovesOn, PhasesAreNamed DEF CopyBackup
    <3>2. CASE run[r].todo # {}
      <4>1. run[r].todo \subseteq Replaced
        BY <1>0, <2>7 DEF CopyBackup, At, CopiesReplaced
      <4>2. Go(r, "verify")
        BY <2>7, <3>2 DEF CopyBackup, Go
      <4>. QED
        BY <1>0, <3>2, <4>1, <4>2, GoMoves, PhasesAreNamed DEF MovesOn
    <3>. QED
      BY <3>1, <3>2
  <2>8. CASE VerifyBackup(r)
    <3>. DEFINE f == FirstOf(ReplacedOrder, run[r].todo)
                new == [run[r] EXCEPT !.pc = "copy", !.todo = @ \ {f}, !.originals = @ \cup {f}]
    <3>1. run[r].todo \subseteq Replaced /\ f \in Replaced
      BY <1>0, <2>8, FirstReplaced DEF VerifyBackup, At, CopiesReplaced
    <3>2. CASE files[f] = "stock"
      <4>1. run' = [run EXCEPT ![r] = new]
        BY <2>8, <3>2 DEF VerifyBackup
      <4>. HIDE DEF f
      <4>2. new \in RunStates /\ new.pc = "copy" /\ new.todo = run[r].todo \ {f}
        BY <1>0, <3>1, PhasesAreNamed DEF RunStates
      <4>. HIDE DEF new
      <4>3. run' \in [Runs -> RunStates] /\ run'[r] = new /\ \A s \in Runs : s # r => run'[s] = run[s]
        BY ONLY <1>0, <4>1, <4>2, r \in Runs
      <4>. QED
        BY <3>1, <4>2, <4>3 DEF MovesOn
    <3>3. CASE files[f] # "stock"
      BY <1>0, <2>8, <3>3, GoMovesOn, PhasesAreNamed DEF VerifyBackup
    <3>. QED
      BY <3>2, <3>3
  <2>9. CASE WriteFile(r)
    <3>. DEFINE left == run[r].todo \ {FirstOf(WriteOrder, run[r].todo)}
    <3>1. Go(r, "record") \/ GoFor(r, "write", left)
      BY <2>9 DEF WriteFile
    <3>2. left \in SUBSET Files
      BY <1>0 DEF RunStates
    <3>. HIDE DEF left
    <3>. QED
      BY <1>0, <3>1, <3>2, GoMovesOn, PhasesAreNamed
  <2>10. CASE WriteRecord(r)
    BY <1>0, <2>10, GoMovesOn, PhasesAreNamed DEF WriteRecord
  <2>11. CASE DropJournal(r)
    BY <1>0, <2>11, GoMovesOn, PhasesAreNamed DEF DropJournal
  <2>12. CASE Release(r)
    BY <1>0, <2>12, GoMovesOn, PhasesAreNamed DEF Release
  <2>. QED
    BY <2>1, <2>2, <2>3, <2>4, <2>5, <2>6, <2>7, <2>8, <2>9, <2>10, <2>11, <2>12 DEF Installs
<1>3. CopiesReplaced'
  BY <1>0, <1>2 DEF CopiesReplaced, MovesOn
<1>. QED
  BY <1>1, <1>2, <1>3, TypesUnfoldedNext DEF TypeInv, MovesOn

LEMMA StartMoves ==
    ASSUME run \in [Runs -> RunStates], NEW r \in Runs, NEW c \in Commands, Start(r, c)
    PROVE  /\ run' \in [Runs -> RunStates]
           /\ \A s \in Runs : s # r => run'[s] = run[s]
           /\ run'[r].pc = (IF c = "install" THEN "readRecord" ELSE "find")
           /\ run'[r].command = c /\ run'[r].seen = run[r].seen
<1>. DEFINE p == IF c = "install" THEN "readRecord" ELSE "find"
<1>1. p \in Phases
  BY DEF Phases, Active
<1>. DEFINE new == [run[r] EXCEPT !.command = c, !.pc = p]
<1>2. run' = [run EXCEPT ![r] = new]
  BY DEF Start
<1>. HIDE DEF p
<1>3. new \in RunStates /\ new.pc = p /\ new.command = c /\ new.seen = run[r].seen
  BY <1>1 DEF RunStates
<1>. HIDE DEF new
<1>4. run' \in [Runs -> RunStates] /\ run'[r] = new /\ \A s \in Runs : s # r => run'[s] = run[s]
  BY <1>2, <1>3
<1>. QED
  BY <1>3, <1>4 DEF p

LEMMA LoadMoves ==
    ASSUME run \in [Runs -> RunStates], NEW r \in Runs, NEW originals \in SUBSET Replaced,
           run' = [run EXCEPT ![r].pc = IF dir.record THEN "journalBack" ELSE "restore",
                              ![r].originals = originals, ![r].todo = Files]
    PROVE  /\ run' \in [Runs -> RunStates]
           /\ \A s \in Runs : s # r => run'[s] = run[s]
           /\ run'[r].pc = (IF dir.record THEN "journalBack" ELSE "restore")
           /\ run'[r].command = run[r].command /\ run'[r].seen = run[r].seen
           /\ run'[r].originals = originals /\ run'[r].todo = Files
<1>. DEFINE p == IF dir.record THEN "journalBack" ELSE "restore"
<1>1. p \in Phases
  BY DEF Phases, Active, Failable
<1>2. run' = [run EXCEPT ![r].pc = p, ![r].originals = originals, ![r].todo = Files]
  OBVIOUS
<1>. DEFINE new == [run[r] EXCEPT !.pc = p, !.originals = originals, !.todo = Files]
<1>. HIDE DEF p
<1>3. run[r] \in RunStates
  OBVIOUS
<1>4. /\ new \in RunStates /\ new.pc = p /\ new.command = run[r].command /\ new.seen = run[r].seen
      /\ new.originals = originals /\ new.todo = Files
  BY <1>1, <1>3 DEF RunStates
<1>5. run' = [run EXCEPT ![r] = new]
  BY <1>2
<1>. HIDE DEF new
<1>6. run \in [Runs -> RunStates] /\ r \in Runs /\ new \in RunStates
  BY <1>4
<1>7. run' \in [Runs -> RunStates]
  BY ONLY <1>5, <1>6
<1>8. run'[r] = new
  BY ONLY <1>5, <1>6
<1>9. \A s \in Runs : s # r => run'[s] = run[s]
  BY ONLY <1>5, <1>6
<1>. QED
  BY <1>4, <1>7, <1>8, <1>9 DEF p

LEMMA GivesUpMoves ==
    ASSUME run \in [Runs -> RunStates], dir \in DirStates, NEW r \in Runs, GivesUp(r)
    PROVE  /\ run' \in [Runs -> RunStates] /\ dir' \in DirStates
           /\ \A s \in Runs : s # r => run'[s] = run[s]
           /\ run'[r].pc \in {"inconsistent", "failed"} /\ run'[r].seen = run[r].seen
           /\ run'[r].command = run[r].command
           /\ dir' = [dir EXCEPT !.lock = NoRun]
<1>1. dir' = [dir EXCEPT !.lock = NoRun] /\ dir' \in DirStates
  BY DEF GivesUp, Released, DirStates
<1>2. PICK p \in {"inconsistent", "failed"} : Go(r, p)
  BY DEF GivesUp
<1>3. p \in Phases
  BY DEF Phases, Ended
<1>. QED
  BY <1>1, <1>2, <1>3, GoMoves

LEMMA UninstallsKeepsTypes ==
    ASSUME TypeInv, NEW r \in Runs, Uninstalls(r) \/ Restores(r)
    PROVE  TypeInv'
<1>0. /\ files \in [Files -> FileStates] /\ temps \in BOOLEAN
      /\ dir \in DirStates /\ run \in [Runs -> RunStates] /\ CopiesReplaced
  BY TypesUnfolded DEF TypeInv
<1>1. files' \in [Files -> FileStates] /\ temps' \in BOOLEAN /\ dir' \in DirStates
  <2>1. CASE Find(r)
    BY <1>0, <2>1 DEF Find
  <2>2. CASE LoadLeftover(r)
    BY <1>0, <2>2, DirEdits DEF LoadLeftover, HoldsFiles
  <2>3. CASE Load(r)
    BY <1>0, <2>3, DirEdits DEF Load, HoldsFiles
  <2>4. CASE WriteJournalBack(r)
    BY <1>0, <2>4, DirEdits DEF WriteJournalBack, HoldsFiles
  <2>5. CASE ForgetRecord(r)
    BY <1>0, <2>5, DirEdits DEF ForgetRecord, HoldsFiles
  <2>6. CASE RestoreFile(r)
    <3>. DEFINE f == FirstOf(RestoreOrder, run[r].todo)
    <3>1. /\ files' = files \/ files' = [files EXCEPT ![f] = "stock"]
          /\ dir' = dir \/ dir' = Released
          /\ temps' = temps
      BY <2>6 DEF RestoreFile, GivesUp
    <3>. HIDE DEF f
    <3>. QED
      BY <1>0, <3>1, DirEdits DEF FileStates
  <2>7. CASE Sweep(r)
    <3>1. (dir' = dir \/ dir' = Released) /\ temps' = FALSE /\ files' = files
      BY <2>7 DEF Sweep, GivesUp
    <3>. QED
      BY <1>0, <3>1, DirEdits
  <2>8. CASE RemoveBackups(r)
    BY <1>0, <2>8, DirEdits DEF RemoveBackups, HoldsFiles
  <2>9. CASE RemoveJournal(r)
    BY <1>0, <2>9, DirEdits DEF RemoveJournal, HoldsFiles
  <2>10. CASE RemoveDir(r)
    BY <1>0, <2>10, DirEdits DEF RemoveDir, HoldsFiles
  <2>. QED
    BY <2>1, <2>2, <2>3, <2>4, <2>5, <2>6, <2>7, <2>8, <2>9, <2>10 DEF Uninstalls, Restores
<1>2. MovesOn(r)
  <2>1. CASE Find(r)
    BY <1>0, <2>1, GoMovesOn, PhasesAreNamed DEF Find
  <2>2. CASE LoadLeftover(r)
    BY <1>0, <2>2, GoMovesOn, PhasesAreNamed DEF LoadLeftover
  <2>3. CASE Load(r)
    <3>1. CASE Go(r, "inconsistent")
      BY <1>0, <3>1, GoMovesOn, PhasesAreNamed
    <3>2. CASE run' = [run EXCEPT ![r].pc = IF dir.record THEN "journalBack" ELSE "restore",
                                  ![r].originals = NeededBackups, ![r].todo = Files]
      <4>1. NeededBackups \in SUBSET Replaced
        BY DEF NeededBackups
      <4>2. /\ run' \in [Runs -> RunStates]
            /\ \A s \in Runs : s # r => run'[s] = run[s]
            /\ run'[r].pc = (IF dir.record THEN "journalBack" ELSE "restore")
        BY <1>0, <3>2, <4>1, LoadMoves
      <4>. QED
        BY <4>2 DEF MovesOn
    <3>. QED
      BY <2>3, <3>1, <3>2 DEF Load
  <2>4. CASE WriteJournalBack(r)
    BY <1>0, <2>4, GoMovesOn, PhasesAreNamed DEF WriteJournalBack
  <2>5. CASE ForgetRecord(r)
    BY <1>0, <2>5, GoMovesOn, PhasesAreNamed DEF ForgetRecord
  <2>6. CASE RestoreFile(r)
    <3>. DEFINE left == run[r].todo \ {FirstOf(RestoreOrder, run[r].todo)}
    <3>1. Go(r, "sweep") \/ Go(r, "inconsistent") \/ Go(r, "failed") \/ GoFor(r, "restore", left)
      BY <2>6 DEF RestoreFile, GivesUp
    <3>2. left \in SUBSET Files
      BY <1>0 DEF RunStates
    <3>. HIDE DEF left
    <3>. QED
      BY <1>0, <3>1, <3>2, GoMovesOn, PhasesAreNamed
  <2>7. CASE Sweep(r)
    BY <1>0, <2>7, GoMovesOn, PhasesAreNamed DEF Sweep, GivesUp
  <2>8. CASE RemoveBackups(r)
    BY <1>0, <2>8, GoMovesOn, PhasesAreNamed DEF RemoveBackups
  <2>9. CASE RemoveJournal(r)
    BY <1>0, <2>9, GoMovesOn, PhasesAreNamed DEF RemoveJournal
  <2>10. CASE RemoveDir(r)
    BY <1>0, <2>10, GoMovesOn, PhasesAreNamed DEF RemoveDir
  <2>. QED
    BY <2>1, <2>2, <2>3, <2>4, <2>5, <2>6, <2>7, <2>8, <2>9, <2>10 DEF Uninstalls, Restores
<1>3. CopiesReplaced'
  BY <1>0, <1>2 DEF CopiesReplaced, MovesOn
<1>. QED
  BY <1>1, <1>2, <1>3, TypesUnfoldedNext DEF TypeInv, MovesOn

LEMMA StopsKeepsTypes ==
    ASSUME TypeInv, NEW r \in Runs, Fail(r) \/ Kill(r) \/ \E c \in Commands : Start(r, c)
    PROVE  TypeInv'
<1>0. /\ files \in [Files -> FileStates] /\ temps \in BOOLEAN
      /\ dir \in DirStates /\ run \in [Runs -> RunStates] /\ CopiesReplaced
  BY TypesUnfolded DEF TypeInv
<1>1. /\ files' \in [Files -> FileStates] /\ temps' \in BOOLEAN
      /\ dir' \in DirStates /\ run' \in [Runs -> RunStates]
      /\ \A s \in Runs : s # r => run'[s] = run[s]
      /\ run'[r].pc \notin {"copy", "verify"}
  <2>. USE <1>0, GoMoves, GoForMoves, GivesUpMoves, PhasesAreNamed DEF HoldsFiles
  <2>1. CASE Fail(r)
    BY <2>1 DEF Fail
  <2>2. CASE Kill(r)
    <3>1. Go(r, "killed") /\ files' = files /\ dir' = dir
      BY ONLY <2>2 DEF Kill
    <3>2. temps' \in BOOLEAN
      BY ONLY <2>2, <1>0 DEF Kill
    <3>3. run' \in [Runs -> RunStates] /\ run'[r].pc = "killed" /\ \A s \in Runs : s # r => run'[s] = run[s]
      BY ONLY <3>1, <1>0, r \in Runs, GoMoves, PhasesAreNamed
    <3>. QED
      BY ONLY <3>1, <3>2, <3>3, <1>0
  <2>3. CASE \E c \in Commands : Start(r, c)
    <3>1. PICK c \in Commands : Start(r, c)
      BY <2>3
    <3>. QED
      <4>1. /\ run' \in [Runs -> RunStates] /\ \A s \in Runs : s # r => run'[s] = run[s]
            /\ run'[r].pc = (IF c = "install" THEN "readRecord" ELSE "find")
        BY ONLY run \in [Runs -> RunStates], r \in Runs, c \in Commands, <3>1, StartMoves
      <4>2. UNCHANGED <<files, temps, dir>>
        BY ONLY <3>1 DEF Start
      <4>. QED
        BY <4>1, <4>2
  <2>. QED
    BY <2>1, <2>2, <2>3
<1>2. CopiesReplaced'
  BY <1>0, <1>1 DEF CopiesReplaced
<1>. QED
  BY <1>1, <1>2, TypesUnfoldedNext DEF TypeInv

LEMMA TamperKeepsTypes ==
    ASSUME TypeInv, NEW f \in Files, Tamper(f)
    PROVE  TypeInv'
<1>0. /\ files \in [Files -> FileStates] /\ temps \in BOOLEAN
      /\ dir \in DirStates /\ run \in [Runs -> RunStates] /\ CopiesReplaced
  BY TypesUnfolded DEF TypeInv
<1>1. files' \in [Files -> FileStates] /\ UNCHANGED <<temps, dir, run>>
  BY <1>0 DEF Tamper, FileStates
<1>2. CopiesReplaced'
  BY <1>0, <1>1 DEF CopiesReplaced
<1>. QED
  BY <1>0, <1>1, <1>2, TypesUnfoldedNext DEF TypeInv

LEMMA TypeStep == TypeInv /\ [Next]_vars => TypeInv'
<1>. SUFFICES ASSUME TypeInv, [Next]_vars PROVE TypeInv'
  OBVIOUS
<1>1. ASSUME NEW r \in Runs, Step(r) PROVE TypeInv'
  BY <1>1, TakesKeepsTypes, InstallsKeepsTypes, UninstallsKeepsTypes DEF Step
<1>2. ASSUME NEW r \in Runs, Fail(r) \/ Kill(r) \/ \E c \in Commands : Start(r, c) PROVE TypeInv'
  BY <1>2, StopsKeepsTypes
<1>3. ASSUME NEW f \in Files, Tamper(f) PROVE TypeInv'
  BY <1>3, TamperKeepsTypes
<1>4. CASE UNCHANGED vars
  BY <1>4 DEF vars, TypeInv, TypeOK, CopiesReplaced
<1>. QED
  BY <1>1, <1>2, <1>3, <1>4 DEF Next

LEMMA Typed == Spec => []TypeInv
BY TypeInit, TypeStep, PTL DEF Spec

(***************************************************************************)
(* Every variable keeps its type.  Inductive with CopiesReplaced: without  *)
(* it the backup about to be written would not be known to be one of a     *)
(* replaced file.                                                          *)
(***************************************************************************)
THEOREM TypeCorrect == Spec => []TypeOK
BY Typed, PTL DEF TypeInv

-----------------------------------------------------------------------------
(***************************************************************************)
(* What each action does, field by field.                                  *)
(***************************************************************************)
Keeps(r) == run'[r].command = run[r].command /\ run'[r].seen = run[r].seen
Goes(r, p) == Keeps(r) /\ run'[r].pc = p /\ run'[r].todo = run[r].todo
GoesFor(r, p, todo) == Keeps(r) /\ run'[r].pc = p /\ run'[r].todo = todo
DirIs(exists, record, journal, lock, backup, aside) ==
    /\ dir'.exists = exists /\ dir'.record = record /\ dir'.journal = journal
    /\ dir'.lock = lock /\ dir'.backup = backup /\ dir'.aside = aside
RestOfDir(lock, aside) == DirIs(dir.exists, dir.record, dir.journal, lock, dir.backup, aside)
Unlocks == RestOfDir(NoRun, dir.aside)

LEMMA GoIsGoing ==
    ASSUME TypeInv, NEW r \in Runs
    PROVE  /\ \A p : Go(r, p) => Goes(r, p)
           /\ \A p, todo : GoFor(r, p, todo) => GoesFor(r, p, todo)
           /\ TryAgain(r) => Goes(r, "create") \/ Goes(r, "refused")
<1>1. run \in [Runs -> RunStates]
  BY TypesUnfolded DEF TypeInv
<1>. QED
  BY <1>1 DEF Go, GoFor, TryAgain, Goes, GoesFor, Keeps, RunStates

LEMMA DirFields ==
    ASSUME TypeInv
    PROVE  /\ dir' = Released => Unlocks
           /\ dir' = dir => RestOfDir(dir.lock, dir.aside)
           /\ dir' = NoDir => DirIs(FALSE, FALSE, "none", NoRun, NoDir.backup, NoDir.aside)
<1>1. dir \in DirStates
  BY TypesUnfolded DEF TypeInv
<1>. QED
  BY <1>1 DEF Released, Unlocks, RestOfDir, DirIs, NoDir, DirStates

LEMMA GivesUpEffect ==
    ASSUME TypeInv, NEW r \in Runs, GivesUp(r)
    PROVE  Unlocks /\ (Goes(r, "inconsistent") \/ Goes(r, "failed"))
BY GoIsGoing, DirFields DEF GivesUp

LEMMA StartEffect ==
    ASSUME TypeInv, NEW r \in Runs, NEW c \in Commands, Start(r, c)
    PROVE  /\ UNCHANGED <<files, temps, dir>> /\ run[r].pc = "idle"
           /\ run'[r].command = c /\ run'[r].seen = run[r].seen
           /\ run'[r].pc = (IF c = "install" THEN "readRecord" ELSE "find")
<1>1. run \in [Runs -> RunStates]
  BY TypesUnfolded DEF TypeInv
<1>2. UNCHANGED <<files, temps, dir>> /\ run[r].pc = "idle"
  BY DEF Start, At
<1>. QED
  BY <1>1, <1>2, StartMoves

LEMMA ReadRecordEffect ==
    ASSUME TypeInv, NEW r \in Runs, ReadRecord(r)
    PROVE  /\ UNCHANGED <<files, temps, dir>> /\ run[r].pc = "readRecord"
           /\ \/ Goes(r, "readJournal") \/ Goes(r, "inconsistent")
              \/ Goes(r, "alreadyInstalled") /\ dir.record /\ AllAre("written")
BY GoIsGoing DEF ReadRecord, At

LEMMA ReadJournalEffect ==
    ASSUME TypeInv, NEW r \in Runs, ReadJournal(r)
    PROVE  /\ UNCHANGED <<files, temps, dir>> /\ run[r].pc = "readJournal"
           /\ Goes(r, "inconsistent") \/ Goes(r, "plan")
BY GoIsGoing DEF ReadJournal, At

LEMMA PlanEffect ==
    ASSUME TypeInv, NEW r \in Runs, Plan(r)
    PROVE  /\ UNCHANGED <<files, temps, dir>> /\ run[r].pc = "plan"
           /\ \/ Goes(r, "inconsistent") \/ Goes(r, "refused")
              \/ Goes(r, "mkdir") /\ AllAre("stock")
BY GoIsGoing DEF Plan, At, StockMismatches, AllAre

LEMMA FindEffect ==
    ASSUME TypeInv, NEW r \in Runs, Find(r)
    PROVE  /\ UNCHANGED <<files, temps, dir>> /\ run[r].pc = "find"
           /\ Goes(r, "mkdir") \/ Goes(r, "inconsistent") \/ Goes(r, "notInstalled")
BY GoIsGoing DEF Find, At

LEMMA MakeStateDirEffect ==
    ASSUME TypeInv, NEW r \in Runs, MakeStateDir(r)
    PROVE  /\ UNCHANGED <<files, temps>> /\ run[r].pc = "mkdir" /\ Goes(r, "create")
           /\ DirIs(TRUE, dir.record, dir.journal, dir.lock, dir.backup, dir.aside)
<1>1. dir \in DirStates
  BY TypesUnfolded DEF TypeInv
<1>. QED
  BY <1>1, GoIsGoing DEF MakeStateDir, At, HoldsFiles, DirIs, DirStates

LEMMA CreateEffect ==
    ASSUME TypeInv, NEW r \in Runs, Create(r)
    PROVE  /\ UNCHANGED <<files, temps>> /\ run[r].pc = "create"
           /\ \/ Goes(r, "failed") /\ UNCHANGED dir
              \/ Goes(r, "inspect") /\ UNCHANGED dir
              \/ /\ Goes(r, Locked(r)) /\ dir.exists /\ dir.lock = NoRun /\ RestOfDir(r, dir.aside)
<1>1. dir \in DirStates
  BY TypesUnfolded DEF TypeInv
<1>. QED
  BY <1>1, GoIsGoing DEF Create, At, HoldsFiles, RestOfDir, DirIs, DirStates

LEMMA InspectEffect ==
    ASSUME TypeInv, NEW r \in Runs, Inspect(r)
    PROVE  /\ UNCHANGED <<files, temps, dir>> /\ run[r].pc = "inspect"
           /\ \/ Goes(r, "create") \/ Goes(r, "refused")
              \/ /\ run'[r].pc = "aside" /\ run'[r].command = run[r].command
                 /\ run'[r].seen = dir.lock /\ dir.lock # NoRun /\ IsGone(dir.lock)
<1>1. run \in [Runs -> RunStates]
  BY TypesUnfolded DEF TypeInv
<1>2. ASSUME run' = [run EXCEPT ![r].pc = "aside", ![r].seen = dir.lock]
      PROVE  run'[r].pc = "aside" /\ run'[r].command = run[r].command /\ run'[r].seen = dir.lock
  BY <1>1, <1>2 DEF RunStates
<1>. QED
  BY <1>2, GoIsGoing DEF Inspect, At, IsStale

LEMMA MoveAsideEffect ==
    ASSUME TypeInv, NEW r \in Runs, MoveAside(r)
    PROVE  /\ UNCHANGED <<files, temps>> /\ run[r].pc = "aside"
           /\ \/ (Goes(r, "create") \/ Goes(r, "refused")) /\ UNCHANGED dir
              \/ /\ Goes(r, "judge") /\ dir.lock # NoRun
                 /\ RestOfDir(NoRun, [dir.aside EXCEPT ![r] = dir.lock])
<1>1. dir \in DirStates
  BY TypesUnfolded DEF TypeInv
<1>. QED
  BY <1>1, GoIsGoing DEF MoveAside, At, HoldsFiles, RestOfDir, DirIs, DirStates

LEMMA JudgeEffect ==
    ASSUME TypeInv, NEW r \in Runs, Judge(r)
    PROVE  /\ UNCHANGED <<files, temps>> /\ run[r].pc = "judge"
           /\ \/ Goes(r, "failed") /\ dir.aside[r] = NoRun /\ UNCHANGED dir
              \/ /\ Goes(r, "create") \/ Goes(r, "refused")
                 /\ dir.aside[r] # NoRun /\ dir.aside[r] = run[r].seen
                 /\ RestOfDir(dir.lock, [dir.aside EXCEPT ![r] = NoRun])
              \/ /\ Goes(r, "refused") /\ dir.aside[r] # NoRun /\ dir.aside[r] # run[r].seen
                 /\ RestOfDir(IF dir.lock = NoRun THEN dir.aside[r] ELSE dir.lock,
                              [dir.aside EXCEPT ![r] = NoRun])
<1>1. dir \in DirStates
  BY TypesUnfolded DEF TypeInv
<1>. QED
  BY <1>1, GoIsGoing DEF Judge, At, HoldsFiles, RestOfDir, DirIs, DirStates

LEMMA RecheckEffect ==
    ASSUME TypeInv, NEW r \in Runs, Recheck(r)
    PROVE  /\ UNCHANGED <<files, temps>> /\ run[r].pc = "recheck"
           /\ \/ Goes(r, "refused") /\ Unlocks
              \/ Goes(r, "clean") /\ UNCHANGED dir /\ ~dir.record /\ dir.journal = "none"
BY GoIsGoing, DirFields DEF Recheck, At, HoldsFiles

LEMMA CleanEffect ==
    ASSUME TypeInv, NEW r \in Runs, Clean(r)
    PROVE  /\ UNCHANGED files /\ run[r].pc = "clean"
           /\ \/ Goes(r, "failed") /\ ~dir.exists /\ UNCHANGED <<dir, temps>>
              \/ /\ Goes(r, "journal") /\ temps' = FALSE
                 /\ DirIs(dir.exists, dir.record, dir.journal, dir.lock, NoDir.backup, NoDir.aside)
<1>1. dir \in DirStates
  BY TypesUnfolded DEF TypeInv
<1>2. CASE dir.exists
  BY <1>1, <1>2, GoIsGoing DEF Clean, At, DirIs, DirStates
<1>3. CASE ~dir.exists
  BY <1>1, <1>3, GoIsGoing DEF Clean, At
<1>. QED
  BY <1>2, <1>3

LEMMA WriteJournalEffect ==
    ASSUME TypeInv, NEW r \in Runs, WriteJournal(r)
    PROVE  /\ UNCHANGED <<files, temps>> /\ run[r].pc = "journal" /\ GoesFor(r, "copy", Replaced)
           /\ DirIs(dir.exists, dir.record, "install", dir.lock, dir.backup, dir.aside)
<1>1. dir \in DirStates
  BY TypesUnfolded DEF TypeInv
<1>. QED
  BY <1>1, GoIsGoing DEF WriteJournal, At, HoldsFiles, DirIs, DirStates

LEMMA CopyBackupEffect ==
    ASSUME TypeInv, NEW r \in Runs, CopyBackup(r)
    PROVE  /\ UNCHANGED <<files, temps>> /\ run[r].pc = "copy"
           /\ \/ run[r].todo = {} /\ GoesFor(r, "write", Files) /\ UNCHANGED dir
              \/ \E f \in run[r].todo :
                   /\ Goes(r, "verify")
                   /\ DirIs(dir.exists, dir.record, dir.journal, dir.lock,
                            [dir.backup EXCEPT ![f] = "torn"], dir.aside)
<1>1. dir \in DirStates /\ run \in [Runs -> RunStates]
  BY TypesUnfolded DEF TypeInv
<1>2. CASE run[r].todo = {}
  BY <1>2, GoIsGoing DEF CopyBackup, At, HoldsFiles
<1>3. CASE run[r].todo # {}
  <2>. DEFINE f == FirstOf(ReplacedOrder, run[r].todo)
  <2>1. run[r].todo \subseteq Replaced
    BY DEF CopyBackup, At, TypeInv, CopiesReplaced
  <2>2. f \in run[r].todo
    BY <1>3, <2>1, FirstReplaced
  <2>3. /\ dir' = [dir EXCEPT !.backup[f] = "torn"] /\ Go(r, "verify")
        /\ UNCHANGED <<files, temps>> /\ run[r].pc = "copy"
    BY <1>3 DEF CopyBackup, At, HoldsFiles, Go
  <2>. HIDE DEF f
  <2>4. DirIs(dir.exists, dir.record, dir.journal, dir.lock, [dir.backup EXCEPT ![f] = "torn"], dir.aside)
    BY <1>1, <2>3 DEF DirIs, DirStates
  <2>. QED
    BY <2>2, <2>3, <2>4, GoIsGoing
<1>. QED
  BY <1>2, <1>3

LEMMA VerifyBackupEffect ==
    ASSUME TypeInv, NEW r \in Runs, VerifyBackup(r)
    PROVE  /\ UNCHANGED <<files, temps>> /\ run[r].pc = "verify"
           /\ \/ GoesFor(r, "restore", Files) /\ UNCHANGED dir
              \/ \E f \in run[r].todo :
                   /\ GoesFor(r, "copy", run[r].todo \ {f})
                   /\ DirIs(dir.exists, dir.record, dir.journal, dir.lock,
                            [dir.backup EXCEPT ![f] = "good"], dir.aside)
<1>1. dir \in DirStates /\ run \in [Runs -> RunStates]
  BY TypesUnfolded DEF TypeInv
<1>. DEFINE f == FirstOf(ReplacedOrder, run[r].todo)
<1>2. f \in run[r].todo
  <2>1. run[r].todo \subseteq Replaced /\ run[r].todo # {}
    BY DEF VerifyBackup, At, TypeInv, CopiesReplaced
  <2>. QED
    BY <2>1, FirstReplaced
<1>3. CASE files[f] = "stock"
  <2>1. /\ dir' = [dir EXCEPT !.backup[f] = "good"] /\ UNCHANGED <<files, temps>> /\ run[r].pc = "verify"
        /\ run' = [run EXCEPT ![r].pc = "copy", ![r].todo = @ \ {f}, ![r].originals = @ \cup {f}]
    BY <1>3 DEF VerifyBackup, At, HoldsFiles
  <2>. HIDE DEF f
  <2>2. DirIs(dir.exists, dir.record, dir.journal, dir.lock, [dir.backup EXCEPT ![f] = "good"], dir.aside)
    BY <1>1, <2>1 DEF DirIs, DirStates
  <2>3. GoesFor(r, "copy", run[r].todo \ {f})
    BY <1>1, <2>1 DEF GoesFor, Keeps, RunStates
  <2>. QED
    BY <1>2, <2>1, <2>2, <2>3
<1>4. CASE files[f] # "stock"
  BY <1>4, GoIsGoing DEF VerifyBackup, At, HoldsFiles
<1>. QED
  BY <1>3, <1>4

LEMMA WriteFileEffect ==
    ASSUME TypeInv, NEW r \in Runs, WriteFile(r)
    PROVE  /\ UNCHANGED <<temps, dir>> /\ run[r].pc = "write"
           /\ \/ run[r].todo = {} /\ Goes(r, "record") /\ UNCHANGED files
              \/ \E f \in run[r].todo :
                   /\ GoesFor(r, "write", run[r].todo \ {f}) /\ files' = [files EXCEPT ![f] = "written"]
                   /\ f \in Replaced => run[r].todo \cap Created = {}
<1>1. run[r].todo \in SUBSET Files
  BY TypesUnfolded DEF TypeInv, RunStates
<1>. QED
  BY <1>1, GoIsGoing, CreatedAreWrittenFirst DEF WriteFile, At

LEMMA WriteRecordEffect ==
    ASSUME TypeInv, NEW r \in Runs, WriteRecord(r)
    PROVE  /\ UNCHANGED <<files, temps>> /\ run[r].pc = "record" /\ Goes(r, "dropJournal")
           /\ DirIs(dir.exists, TRUE, dir.journal, dir.lock, dir.backup, dir.aside)
<1>1. dir \in DirStates
  BY TypesUnfolded DEF TypeInv
<1>. QED
  BY <1>1, GoIsGoing DEF WriteRecord, At, HoldsFiles, DirIs, DirStates

LEMMA DropJournalEffect ==
    ASSUME TypeInv, NEW r \in Runs, DropJournal(r)
    PROVE  /\ UNCHANGED <<files, temps>> /\ run[r].pc = "dropJournal" /\ Goes(r, "release")
           /\ DirIs(dir.exists, dir.record, "none", dir.lock, dir.backup, dir.aside)
<1>1. dir \in DirStates
  BY TypesUnfolded DEF TypeInv
<1>. QED
  BY <1>1, GoIsGoing DEF DropJournal, At, HoldsFiles, DirIs, DirStates

LEMMA ReleaseEffect ==
    ASSUME TypeInv, NEW r \in Runs, Release(r)
    PROVE  UNCHANGED <<files, temps>> /\ run[r].pc = "release" /\ Goes(r, "installed") /\ Unlocks
BY GoIsGoing, DirFields DEF Release, At, HoldsFiles

LEMMA LoadLeftoverEffect ==
    ASSUME TypeInv, NEW r \in Runs, LoadLeftover(r)
    PROVE  /\ UNCHANGED files /\ run[r].pc = "load" /\ ~dir.record /\ dir.journal = "none"
           /\ \/ Goes(r, "inconsistent") /\ Unlocks /\ UNCHANGED temps
              \/ /\ Goes(r, "notInstalled")
                 /\ DirIs(FALSE, FALSE, "none", NoRun, NoDir.backup, NoDir.aside) /\ temps' = FALSE
BY GoIsGoing, DirFields DEF LoadLeftover, At

LEMMA LoadEffect ==
    ASSUME TypeInv, NEW r \in Runs, Load(r)
    PROVE  /\ UNCHANGED <<files, temps>> /\ run[r].pc = "load"
           /\ dir.record \/ dir.journal # "none"
           /\ \/ Goes(r, "inconsistent") /\ Unlocks
              \/ /\ GoesFor(r, IF dir.record THEN "journalBack" ELSE "restore", Files)
                 /\ NoneOdd /\ UNCHANGED dir
<1>1. run \in [Runs -> RunStates]
  BY TypesUnfolded DEF TypeInv
<1>2. CASE NotAsLeft(dir.record) # {} \/ BackupsNeededDamaged # {}
  BY <1>2, GoIsGoing, DirFields DEF Load, At, HoldsFiles
<1>3. CASE ~(NotAsLeft(dir.record) # {} \/ BackupsNeededDamaged # {})
  <2>1. /\ run' = [run EXCEPT ![r].pc = IF dir.record THEN "journalBack" ELSE "restore",
                              ![r].originals = NeededBackups, ![r].todo = Files]
        /\ UNCHANGED <<files, temps, dir>> /\ run[r].pc = "load"
        /\ dir.record \/ dir.journal # "none"
    BY <1>3 DEF Load, At, HoldsFiles
  <2>2. NeededBackups \in SUBSET Replaced
    BY DEF NeededBackups
  <2>3. GoesFor(r, IF dir.record THEN "journalBack" ELSE "restore", Files)
    BY ONLY <1>1, <2>1, <2>2, r \in Runs, LoadMoves DEF GoesFor, Keeps
  <2>4. NoneOdd
    BY <1>3 DEF NotAsLeft, NoneOdd
  <2>. QED
    BY <2>1, <2>3, <2>4, Zenon
<1>. QED
  BY <1>2, <1>3

LEMMA WriteJournalBackEffect ==
    ASSUME TypeInv, NEW r \in Runs, WriteJournalBack(r)
    PROVE  /\ UNCHANGED <<files, temps>> /\ run[r].pc = "journalBack" /\ Goes(r, "forget")
           /\ DirIs(dir.exists, dir.record, "uninstall", dir.lock, dir.backup, dir.aside)
<1>1. dir \in DirStates
  BY TypesUnfolded DEF TypeInv
<1>. QED
  BY <1>1, GoIsGoing DEF WriteJournalBack, At, HoldsFiles, DirIs, DirStates

LEMMA ForgetRecordEffect ==
    ASSUME TypeInv, NEW r \in Runs, ForgetRecord(r)
    PROVE  /\ UNCHANGED <<files, temps>> /\ run[r].pc = "forget" /\ Goes(r, "restore")
           /\ DirIs(dir.exists, FALSE, dir.journal, dir.lock, dir.backup, dir.aside)
<1>1. dir \in DirStates
  BY TypesUnfolded DEF TypeInv
<1>. QED
  BY <1>1, GoIsGoing DEF ForgetRecord, At, HoldsFiles, DirIs, DirStates

LEMMA RestoreFileEffect ==
    ASSUME TypeInv, NEW r \in Runs, RestoreFile(r)
    PROVE  /\ UNCHANGED temps /\ run[r].pc = "restore"
           /\ \/ run[r].todo = {} /\ Goes(r, "sweep") /\ UNCHANGED <<files, dir>>
              \/ (Goes(r, "inconsistent") \/ Goes(r, "failed")) /\ UNCHANGED files /\ Unlocks
              \/ \E f \in run[r].todo :
                   /\ GoesFor(r, "restore", run[r].todo \ {f}) /\ files' = [files EXCEPT ![f] = "stock"]
                   /\ UNCHANGED dir
                   /\ f \in Created => run[r].todo \cap Replaced = {}
<1>1. run[r].todo \in SUBSET Files
  BY TypesUnfolded DEF TypeInv, RunStates
<1>. QED
  BY <1>1, GoIsGoing, GivesUpEffect, ReplacedAreRestoredFirst DEF RestoreFile, At

LEMMA RestoreFileMoves ==
    ASSUME TypeInv, NEW r \in Runs, RestoreFile(r)
    PROVE  /\ run[r].pc = "restore"
           /\ \/ Goes(r, "sweep") /\ dir' = dir
              \/ (Goes(r, "inconsistent") \/ Goes(r, "failed")) /\ Unlocks
              \/ \E todo : GoesFor(r, "restore", todo) /\ dir' = dir
BY RestoreFileEffect

LEMMA SweepEffect ==
    ASSUME TypeInv, NEW r \in Runs, Sweep(r)
    PROVE  /\ UNCHANGED files /\ run[r].pc = "sweep" /\ temps' = FALSE
           /\ \/ Goes(r, "remove") /\ UNCHANGED dir
              \/ (Goes(r, "inconsistent") \/ Goes(r, "failed")) /\ Unlocks
BY GoIsGoing, GivesUpEffect DEF Sweep, At

LEMMA RemoveBackupsEffect ==
    ASSUME TypeInv, NEW r \in Runs, RemoveBackups(r)
    PROVE  /\ UNCHANGED <<files, temps>> /\ run[r].pc = "remove" /\ Goes(r, "removeJournal")
           /\ DirIs(dir.exists, FALSE, dir.journal, dir.lock, NoDir.backup, NoDir.aside)
<1>1. dir \in DirStates
  BY TypesUnfolded DEF TypeInv
<1>. QED
  BY <1>1, GoIsGoing DEF RemoveBackups, At, HoldsFiles, DirIs, DirStates

LEMMA RemoveJournalEffect ==
    ASSUME TypeInv, NEW r \in Runs, RemoveJournal(r)
    PROVE  /\ UNCHANGED <<files, temps>> /\ run[r].pc = "removeJournal" /\ Goes(r, "removeDir")
           /\ DirIs(dir.exists, dir.record, "none", dir.lock, dir.backup, dir.aside)
<1>1. dir \in DirStates
  BY TypesUnfolded DEF TypeInv
<1>. QED
  BY <1>1, GoIsGoing DEF RemoveJournal, At, HoldsFiles, DirIs, DirStates

LEMMA RemoveDirEffect ==
    ASSUME TypeInv, NEW r \in Runs, RemoveDir(r)
    PROVE  /\ UNCHANGED <<files, temps>> /\ run[r].pc = "removeDir"
           /\ Goes(r, "rolledBack") \/ Goes(r, "uninstalled")
           /\ DirIs(FALSE, FALSE, "none", NoRun, NoDir.backup, NoDir.aside)
BY GoIsGoing, DirFields DEF RemoveDir, At, HoldsFiles

LEMMA FailEffect ==
    ASSUME TypeInv, NEW r \in Runs, Fail(r)
    PROVE  /\ UNCHANGED <<files, temps>>
           /\ run[r].pc \in MayFail \/ StateGone(r)
           /\ \/ GoesFor(r, "restore", Files) /\ UNCHANGED dir /\ run[r].pc \in RollsBack
              \/ /\ Goes(r, "inconsistent") \/ Goes(r, "failed")
                 /\ Unlocks /\ run[r].pc \in {"restore", "journalBack", "forget"}
BY GoIsGoing, GivesUpEffect DEF Fail, HoldsFiles, RollsBack, Failable

LEMMA KillEffect ==
    ASSUME TypeInv, NEW r \in Runs, Kill(r)
    PROVE  /\ UNCHANGED <<files, dir>> /\ run[r].pc \in Active /\ Goes(r, "killed")
           /\ temps' = temps \/ run[r].pc \in {"write", "restore"}
           /\ Cardinality({k \in Runs : At(k, "killed")}) < MaxKills
BY GoIsGoing DEF Kill, Writing

-----------------------------------------------------------------------------
(***************************************************************************)
(* A file in neither state is never written over.                          *)
(***************************************************************************)
TrustInv == TrustIsEarned /\ FindersUninstall

Moves(r) == Step(r) \/ Fail(r) \/ Kill(r) \/ \E c \in Commands : Start(r, c)

(* Files are written by a run that trusts all of them, one at a time. *)
LEMMA OnlyTheTrustingWrite ==
    ASSUME NEW r \in Runs, Moves(r)
    PROVE  \/ files' = files
           \/ /\ run[r].pc \in {"write", "restore"} /\ run[r].todo # {}
              /\ \E f \in {FirstOf(WriteOrder, run[r].todo), FirstOf(RestoreOrder, run[r].todo)} :
                   \E content \in {"stock", "written"} : files' = [files EXCEPT ![f] = content]
<1>1. CASE Takes(r)
  BY <1>1 DEF Takes, MakeStateDir, Create, Inspect, MoveAside, Judge, HoldsFiles
<1>2. CASE Installs(r)
  <2>1. CASE WriteFile(r)
    BY <2>1 DEF WriteFile, At
  <2>. QED
    BY <1>2, <2>1 DEF Installs, ReadRecord, ReadJournal, Plan, Recheck, Clean, WriteJournal, CopyBackup,
         VerifyBackup, WriteRecord, DropJournal, Release, HoldsFiles
<1>3. CASE Uninstalls(r)
  BY <1>3 DEF Uninstalls, Find, LoadLeftover, Load, WriteJournalBack, ForgetRecord, HoldsFiles
<1>4. CASE Restores(r)
  <2>1. CASE RestoreFile(r)
    BY <2>1 DEF RestoreFile, At
  <2>. QED
    BY <1>4, <2>1 DEF Restores, Sweep, RemoveBackups, RemoveJournal, RemoveDir, HoldsFiles
<1>5. CASE Fail(r) \/ Kill(r) \/ \E c \in Commands : Start(r, c)
  BY <1>5 DEF Fail, Kill, Start, HoldsFiles
<1>. QED
  BY <1>1, <1>2, <1>3, <1>4, <1>5 DEF Moves, Step

LEMMA OthersStay ==
    ASSUME TypeInv, NEW r \in Runs, Moves(r)
    PROVE  \A s \in Runs : s # r => run'[s] = run[s]
<1>1. run \in [Runs -> RunStates]
  BY TypesUnfolded DEF TypeInv
<1>2. CASE Takes(r)
  BY <1>1, <1>2 DEF Takes, MakeStateDir, Create, Inspect, MoveAside, Judge, Go, TryAgain
<1>3. CASE Installs(r)
  BY <1>1, <1>3 DEF Installs, ReadRecord, ReadJournal, Plan, Recheck, Clean, WriteJournal, CopyBackup,
         VerifyBackup, WriteFile, WriteRecord, DropJournal, Release, Go, GoFor
<1>4. CASE Uninstalls(r)
  BY <1>1, <1>4 DEF Uninstalls, Find, LoadLeftover, Load, WriteJournalBack, ForgetRecord, Go
<1>5. CASE Restores(r)
  BY <1>1, <1>5 DEF Restores, RestoreFile, Sweep, RemoveBackups, RemoveJournal, RemoveDir, GivesUp, Go, GoFor
<1>6. CASE Fail(r) \/ Kill(r) \/ \E c \in Commands : Start(r, c)
  BY <1>1, <1>6 DEF Fail, Kill, Start, GivesUp, Go, GoFor
<1>. QED
  BY <1>2, <1>3, <1>4, <1>5, <1>6 DEF Moves, Step

LEMMA TrustTable ==
    ASSUME NEW c
    PROVE
      /\ TrustingAt(c, "recheck") /\ TrustingAt(c, "clean") /\ TrustingAt(c, "journal")
      /\ TrustingAt(c, "copy") /\ TrustingAt(c, "verify") /\ TrustingAt(c, "write")
      /\ TrustingAt(c, "record") /\ TrustingAt(c, "dropJournal") /\ TrustingAt(c, "release")
      /\ TrustingAt(c, "journalBack") /\ TrustingAt(c, "forget") /\ TrustingAt(c, "restore")
      /\ TrustingAt(c, "sweep") /\ TrustingAt(c, "remove") /\ TrustingAt(c, "removeJournal")
      /\ TrustingAt(c, "removeDir")
      /\ (TrustingAt(c, "mkdir") <=> c = "install")
      /\ (TrustingAt(c, "create") <=> c = "install")
      /\ (TrustingAt(c, "inspect") <=> c = "install")
      /\ (TrustingAt(c, "aside") <=> c = "install") /\ (TrustingAt(c, "judge") <=> c = "install")
      /\ ~TrustingAt(c, "readRecord") /\ ~TrustingAt(c, "readJournal") /\ ~TrustingAt(c, "plan")
      /\ ~TrustingAt(c, "find") /\ ~TrustingAt(c, "load")
      /\ ~TrustingAt(c, "alreadyInstalled") /\ ~TrustingAt(c, "installed") /\ ~TrustingAt(c, "rolledBack")
      /\ ~TrustingAt(c, "notInstalled") /\ ~TrustingAt(c, "uninstalled") /\ ~TrustingAt(c, "refused")
      /\ ~TrustingAt(c, "inconsistent") /\ ~TrustingAt(c, "failed") /\ ~TrustingAt(c, "killed")
BY DEF TrustingAt, UnderLock, Active, Failable

(* A run that trusts trusted before its step, or looked at every file in it. *)
LEMMA TrustComesFromLooking ==
    ASSUME TypeInv, FindersUninstall, NEW r \in Runs, Moves(r)
    PROVE  /\ Trusting(r)' => Trusting(r) \/ NoneOdd
           /\ run'[r].pc = "find" => run'[r].command # "install"
<1>. DEFINE mine == run[r].command
            old == TrustingAt(mine, run[r].pc)
            new == TrustingAt(run'[r].command, run'[r].pc)
<1>. SUFFICES (new => old \/ NoneOdd) /\ (run'[r].pc = "find" => run'[r].command # "install")
  BY DEF Trusting
<1>0. run[r].pc = "find" => mine # "install"
  BY DEF FindersUninstall
<1>. USE DEF Goes, GoesFor, Keeps
<1>1. CASE Takes(r)
  <2>1. CASE MakeStateDir(r)
    <3>1. run[r].pc = "mkdir" /\ Goes(r, "create")
      BY <2>1, MakeStateDirEffect, Zenon
    <3>. QED
      BY <3>1, <1>0, TrustTable
  <2>2. CASE Create(r)
    BY <2>2, CreateEffect, <1>0, TrustTable DEF Locked
  <2>3. CASE Inspect(r)
    BY <2>3, InspectEffect, <1>0, TrustTable
  <2>4. CASE MoveAside(r)
    <3>1. run[r].pc = "aside" /\ (Goes(r, "create") \/ Goes(r, "refused") \/ Goes(r, "judge"))
      BY <2>4, MoveAsideEffect, Zenon
    <3>. QED
      BY <3>1, <1>0, TrustTable
  <2>5. CASE Judge(r)
    <3>1. run[r].pc = "judge" /\ (Goes(r, "failed") \/ Goes(r, "create") \/ Goes(r, "refused"))
      BY <2>5, JudgeEffect, Zenon
    <3>. QED
      BY <3>1, <1>0, TrustTable
  <2>. QED
    BY <1>1, <2>1, <2>2, <2>3, <2>4, <2>5 DEF Takes
<1>2. CASE Installs(r)
  <2>1. CASE ReadRecord(r)
    BY <2>1, ReadRecordEffect, <1>0, TrustTable
  <2>2. CASE ReadJournal(r)
    BY <2>2, ReadJournalEffect, <1>0, TrustTable
  <2>3. CASE Plan(r)
    <3>1. AllAre("stock") => NoneOdd
      BY DEF NoneOdd, AllAre
    <3>. QED
      BY <2>3, <3>1, PlanEffect, <1>0, TrustTable
  <2>4. CASE Recheck(r)
    BY <2>4, RecheckEffect, <1>0, TrustTable
  <2>5. CASE Clean(r)
    <3>1. run[r].pc = "clean" /\ (Goes(r, "failed") \/ Goes(r, "journal"))
      BY <2>5, CleanEffect, Zenon
    <3>. QED
      BY <3>1, <1>0, TrustTable
  <2>6. CASE WriteJournal(r)
    BY <2>6, WriteJournalEffect, <1>0, TrustTable
  <2>7. CASE CopyBackup(r)
    <3>1. run[r].pc = "copy" /\ run'[r].pc \in {"verify", "write"}
      BY <2>7, CopyBackupEffect, Zenon
    <3>. QED
      BY <3>1, <1>0, TrustTable
  <2>8. CASE VerifyBackup(r)
    <3>1. run[r].pc = "verify" /\ run'[r].pc \in {"restore", "copy"}
      BY <2>8, VerifyBackupEffect, Zenon
    <3>. QED
      BY <3>1, <1>0, TrustTable
  <2>9. CASE WriteFile(r)
    BY <2>9, WriteFileEffect, <1>0, TrustTable
  <2>10. CASE WriteRecord(r)
    <3>1. run[r].pc = "record" /\ run'[r].pc \in {"dropJournal"}
      BY <2>10, WriteRecordEffect, Zenon
    <3>. QED
      BY <3>1, <1>0, TrustTable
  <2>11. CASE DropJournal(r)
    BY <2>11, DropJournalEffect, <1>0, TrustTable
  <2>12. CASE Release(r)
    BY <2>12, ReleaseEffect, <1>0, TrustTable
  <2>. QED
    BY <1>2, <2>1, <2>2, <2>3, <2>4, <2>5, <2>6, <2>7, <2>8, <2>9, <2>10, <2>11, <2>12 DEF Installs
<1>3. CASE Uninstalls(r)
  <2>1. CASE Find(r)
    BY <2>1, FindEffect, <1>0, TrustTable
  <2>2. CASE LoadLeftover(r)
    <3>1. Goes(r, "inconsistent") \/ Goes(r, "notInstalled")
      BY <2>2, LoadLeftoverEffect, Zenon
    <3>. QED
      BY <3>1, <1>0, TrustTable
  <2>3. CASE Load(r)
    BY <2>3, LoadEffect, <1>0, TrustTable
  <2>4. CASE WriteJournalBack(r)
    BY <2>4, WriteJournalBackEffect, <1>0, TrustTable
  <2>5. CASE ForgetRecord(r)
    <3>1. run[r].pc = "forget" /\ run'[r].pc \in {"restore"}
      BY <2>5, ForgetRecordEffect, Zenon
    <3>. QED
      BY <3>1, <1>0, TrustTable
  <2>. QED
    BY <1>3, <2>1, <2>2, <2>3, <2>4, <2>5 DEF Uninstalls
<1>4. CASE Restores(r)
  <2>1. CASE RestoreFile(r)
    BY <2>1, RestoreFileEffect, <1>0, TrustTable
  <2>2. CASE Sweep(r)
    <3>1. run[r].pc = "sweep" /\ run'[r].pc \in {"remove", "inconsistent", "failed"}
      BY <2>2, SweepEffect, Zenon
    <3>. QED
      BY <3>1, <1>0, TrustTable
  <2>3. CASE RemoveBackups(r)
    <3>1. run[r].pc = "remove" /\ run'[r].pc \in {"removeJournal"}
      BY <2>3, RemoveBackupsEffect, Zenon
    <3>. QED
      BY <3>1, <1>0, TrustTable
  <2>4. CASE RemoveJournal(r)
    BY <2>4, RemoveJournalEffect, <1>0, TrustTable
  <2>5. CASE RemoveDir(r)
    <3>1. run[r].pc = "removeDir" /\ run'[r].pc \in {"rolledBack", "uninstalled"}
      BY <2>5, RemoveDirEffect, Zenon
    <3>. QED
      BY <3>1, <1>0, TrustTable
  <2>. QED
    BY <1>4, <2>1, <2>2, <2>3, <2>4, <2>5 DEF Restores
<1>5. CASE Fail(r)
  BY <1>5, FailEffect, <1>0, TrustTable DEF RollsBack
<1>6. CASE Kill(r)
  <2>1. Goes(r, "killed")
    BY <1>6, KillEffect, Zenon
  <2>. QED
    BY <2>1, <1>0, TrustTable
<1>7. CASE \E c \in Commands : Start(r, c)
  BY <1>7, StartEffect, <1>0, TrustTable
<1>. QED
  BY <1>1, <1>2, <1>3, <1>4, <1>5, <1>6, <1>7 DEF Moves, Step

(* While somebody trusts the files a foreign write is not one of ours. *)
LEMMA WritesAreOurs ==
    ASSUME TypeInv, TrustIsEarned, NEW r \in Runs, Moves(r)
    PROVE  NoneOdd => NoneOdd'
<1>1. files \in [Files -> FileStates]
  BY TypesUnfolded DEF TypeInv
<1>. QED
  BY <1>1, OnlyTheTrustingWrite DEF NoneOdd

LEMMA TrustStep == TypeInv /\ TrustInv /\ [Next]_vars => TrustInv'
<1>. SUFFICES ASSUME TypeInv, TrustInv, [Next]_vars
              PROVE  TrustInv'
  OBVIOUS
<1>1. ASSUME NEW r \in Runs, Moves(r)
      PROVE  TrustInv'
  <2>1. \A s \in Runs : s # r => (Trusting(s)' <=> Trusting(s)) /\ run'[s] = run[s]
    BY <1>1, OthersStay DEF Trusting
  <2>2. /\ Trusting(r)' => Trusting(r) \/ NoneOdd
        /\ run'[r].pc = "find" => run'[r].command # "install"
    BY <1>1, TrustComesFromLooking DEF TrustInv
  <2>3. NoneOdd => NoneOdd'
    BY <1>1, WritesAreOurs DEF TrustInv
  <2>. QED
    BY <2>1, <2>2, <2>3 DEF TrustInv, TrustIsEarned, FindersUninstall
<1>2. ASSUME NEW f \in Files, Tamper(f)
      PROVE  TrustInv'
  <2>1. \A r \in Runs : run'[r] = run[r] /\ run[r].pc \notin Active
    BY <1>2 DEF Tamper
  <2>2. \A r \in Runs : ~Trusting(r)'
    BY <2>1 DEF Trusting, TrustingAt, UnderLock, Active
  <2>. QED
    BY <2>1, <2>2 DEF TrustInv, TrustIsEarned, FindersUninstall
<1>3. CASE UNCHANGED vars
  BY <1>3 DEF vars, TrustInv, TrustIsEarned, FindersUninstall, Trusting, NoneOdd
<1>. QED
  BY <1>1, <1>2, <1>3 DEF Next, Moves

LEMMA Trusted == Spec => []TrustInv
<1>1. Init => TrustInv
  <2>. SUFFICES ASSUME Init
                PROVE  TrustInv
    OBVIOUS
  <2>1. \A r \in Runs : run[r].pc = "idle"
    BY DEF Init
  <2>2. \A r \in Runs : ~Trusting(r)
    BY <2>1 DEF Trusting, TrustingAt, UnderLock, Active, Failable
  <2>. QED
    BY <2>1, <2>2 DEF TrustInv, TrustIsEarned, FindersUninstall
<1>. QED
  BY <1>1, TrustStep, Typed, PTL DEF Spec

(***************************************************************************)
(* apply.ts:24: for any processes, files and kills, and whatever happens   *)
(* to the lock, no step of ours writes over a file in neither state.  A    *)
(* file is written only by a run that trusts all of them, and an odd file  *)
(* appears only while nobody trusts any.                                   *)
(***************************************************************************)
THEOREM ForeignFilesStay == Spec => ForeignIsKept
<1>1. TypeInv /\ TrustInv /\ [Next]_vars => [\A f \in Files : files[f] = "odd" => files'[f] = "odd"]_vars
  <2>. SUFFICES ASSUME TypeInv, TrustInv, Next, NEW f \in Files, files[f] = "odd"
                PROVE  files'[f] = "odd"
    BY DEF vars
  <2>1. files \in [Files -> FileStates]
    BY TypesUnfolded DEF TypeInv
  <2>2. ASSUME NEW r \in Runs, Moves(r)
        PROVE  files' = files
    <3>1. run[r].pc \in {"write", "restore"} => Trusting(r)
      BY DEF Trusting, TrustingAt, UnderLock, Active, Failable
    <3>2. ~Trusting(r)
      BY DEF TrustInv, TrustIsEarned, NoneOdd
    <3>. QED
      BY <2>2, <3>1, <3>2, OnlyTheTrustingWrite
  <2>3. ASSUME NEW g \in Files, Tamper(g)
        PROVE  files'[f] = "odd"
    BY <2>1, <2>3 DEF Tamper
  <2>. QED
    BY <2>2, <2>3 DEF Next, Moves
<1>. QED
  BY <1>1, Typed, Trusted, PTL DEF Spec, ForeignIsKept

-----------------------------------------------------------------------------
(***************************************************************************)
(* What a step does to the lock.                                           *)
(***************************************************************************)
SameSeen(r) == run'[r].seen = run[r].seen
SameLock == dir'.lock = dir.lock /\ dir'.exists = dir.exists /\ dir'.aside = dir.aside

(* Short of the lock. *)
Approaches(r) ==
    /\ run[r].pc \notin UnderLock \cup Ended \cup {"judge"} /\ run'[r].pc \notin UnderLock \cup Recovering
    /\ dir'.lock = dir.lock /\ dir'.aside = dir.aside /\ dir'.exists \in {dir.exists, TRUE}
    /\ SameSeen(r)
(* Under it, and its end. *)
Works(r) ==
    /\ run[r].pc \in UnderLock /\ run'[r].pc \in UnderLock
    /\ dir'.lock = dir.lock /\ dir'.exists = dir.exists /\ dir'.aside \in {dir.aside, NoDir.aside}
    /\ SameSeen(r)
Leaves(r) ==
    /\ run[r].pc \in UnderLock /\ run'[r].pc \in Ended
    /\ \/ dir'.lock = NoRun /\ dir'.exists = dir.exists /\ dir'.aside = dir.aside
       \/ dir'.lock = NoRun /\ ~dir'.exists /\ dir'.aside = NoDir.aside
       \/ SameLock /\ ~dir.exists
    /\ SameSeen(r)
Dies(r) ==
    /\ run[r].pc \in Active /\ run'[r].pc \in Ended /\ SameLock /\ SameSeen(r)
    /\ Cardinality({k \in Runs : At(k, "killed")}) < MaxKills
(* Its taking, and the recovery of one whose holder is gone. *)
TakesIt(r) ==
    /\ run[r].pc = "create" /\ run'[r].pc \in UnderLock
    /\ dir.exists /\ dir.lock = NoRun /\ dir'.lock = r /\ dir'.exists = dir.exists /\ dir'.aside = dir.aside
    /\ SameSeen(r)
SeesItDead(r) ==
    /\ run[r].pc = "inspect" /\ run'[r].pc = "aside" /\ SameLock
    /\ dir.lock # NoRun /\ IsGone(dir.lock) /\ run'[r].seen = dir.lock
MovesIt(r) ==
    /\ run[r].pc = "aside" /\ run'[r].pc = "judge" /\ SameSeen(r)
    /\ dir.lock # NoRun /\ dir'.lock = NoRun /\ dir'.exists = dir.exists
    /\ dir'.aside = [dir.aside EXCEPT ![r] = dir.lock]
FindsItGone(r) ==
    run[r].pc = "judge" /\ run'[r].pc \in Ended /\ SameSeen(r) /\ SameLock /\ dir.aside[r] = NoRun
DropsIt(r) ==
    /\ run[r].pc = "judge" /\ run'[r].pc \in {"create", "refused"} /\ SameSeen(r)
    /\ dir.aside[r] # NoRun /\ dir.aside[r] = run[r].seen
    /\ dir'.lock = dir.lock /\ dir'.exists = dir.exists /\ dir'.aside = [dir.aside EXCEPT ![r] = NoRun]
PutsItBack(r) ==
    /\ run[r].pc = "judge" /\ run'[r].pc = "refused" /\ SameSeen(r)
    /\ dir.aside[r] # NoRun
    /\ dir'.lock = (IF dir.lock = NoRun THEN dir.aside[r] ELSE dir.lock)
    /\ dir'.exists = dir.exists /\ dir'.aside = [dir.aside EXCEPT ![r] = NoRun]

OnTheLock(r) ==
    \/ Approaches(r) \/ Works(r) \/ Leaves(r) \/ Dies(r)
    \/ TakesIt(r) \/ SeesItDead(r) \/ MovesIt(r) \/ FindsItGone(r) \/ DropsIt(r) \/ PutsItBack(r)

LEMMA WhereTheyAre ==
    /\ "recheck" \in UnderLock /\ "clean" \in UnderLock /\ "journal" \in UnderLock
    /\ "copy" \in UnderLock /\ "verify" \in UnderLock /\ "write" \in UnderLock
    /\ "record" \in UnderLock /\ "dropJournal" \in UnderLock /\ "release" \in UnderLock
    /\ "load" \in UnderLock /\ "journalBack" \in UnderLock /\ "forget" \in UnderLock
    /\ "restore" \in UnderLock /\ "sweep" \in UnderLock /\ "remove" \in UnderLock
    /\ "removeJournal" \in UnderLock /\ "removeDir" \in UnderLock
    /\ "alreadyInstalled" \in Ended /\ "installed" \in Ended /\ "rolledBack" \in Ended
    /\ "notInstalled" \in Ended /\ "uninstalled" \in Ended /\ "refused" \in Ended
    /\ "inconsistent" \in Ended /\ "failed" \in Ended /\ "killed" \in Ended
    /\ "idle" \notin UnderLock \cup Ended /\ "readRecord" \notin UnderLock \cup Ended /\ "readJournal" \notin UnderLock \cup Ended
    /\ "plan" \notin UnderLock \cup Ended /\ "find" \notin UnderLock \cup Ended /\ "mkdir" \notin UnderLock \cup Ended
    /\ "create" \notin UnderLock \cup Ended /\ "inspect" \notin UnderLock \cup Ended /\ "aside" \notin UnderLock \cup Ended
    /\ "judge" \notin UnderLock \cup Ended
    /\ UnderLock \cap Ended = {} /\ UnderLock \cap Recovering = {} /\ Ended \cap Recovering = {}
    /\ Active \cap Ended = {} /\ UnderLock \subseteq Active
BY DEF UnderLock, Active, Failable, Ended, Recovering

LEMMA StepsOnTheLock ==
    ASSUME TypeInv, NEW r \in Runs, Moves(r)
    PROVE  OnTheLock(r)
<1>. USE DEF Goes, GoesFor, Keeps, SameSeen, SameLock, DirIs, RestOfDir, Unlocks
<1>1. CASE Takes(r)
  <2>1. CASE MakeStateDir(r)
    <3>1. run[r].pc = "mkdir" /\ SameSeen(r)
      BY <2>1, MakeStateDirEffect
    <3>2. run'[r].pc \in {"create"} /\ dir'.lock = dir.lock /\ dir'.aside = dir.aside /\ dir'.exists = TRUE
      BY <2>1, MakeStateDirEffect
    <3>3. Approaches(r)
      BY <3>1, <3>2, WhereTheyAre DEF Approaches, Recovering
    <3>. QED
      BY <3>3 DEF OnTheLock
  <2>2. CASE Create(r)
    <3>1. run[r].pc = "create" /\ SameSeen(r)
      BY <2>2, CreateEffect
    <3>2. \/ run'[r].pc \in {"failed", "inspect"} /\ SameLock
          \/ run'[r].pc \in {"recheck", "load"} /\ dir.exists /\ dir.lock = NoRun
             /\ dir'.lock = r /\ dir'.exists = dir.exists /\ dir'.aside = dir.aside
      BY <2>2, CreateEffect DEF Locked
    <3>3. Approaches(r) \/ TakesIt(r)
      BY <3>1, <3>2, WhereTheyAre DEF Approaches, TakesIt, Recovering
    <3>. QED
      BY <3>3 DEF OnTheLock
  <2>3. CASE Inspect(r)
    <3>1. run[r].pc = "inspect"
      BY <2>3, InspectEffect
    <3>2. CASE Goes(r, "create") \/ Goes(r, "refused")
      <4>1. SameSeen(r) /\ SameLock /\ run'[r].pc \in {"create", "refused"}
        BY <2>3, <3>2, InspectEffect
      <4>2. Approaches(r)
        BY <3>1, <4>1, WhereTheyAre DEF Approaches, Recovering
      <4>. QED
        BY <4>2 DEF OnTheLock
    <3>3. CASE ~(Goes(r, "create") \/ Goes(r, "refused"))
      <4>1. SeesItDead(r)
        BY <2>3, <3>1, <3>3, InspectEffect DEF SeesItDead
      <4>. QED
        BY <4>1 DEF OnTheLock
    <3>. QED
      BY <3>2, <3>3
  <2>4. CASE MoveAside(r)
    <3>1. run[r].pc = "aside" /\ SameSeen(r)
      BY <2>4, MoveAsideEffect
    <3>2. CASE run'[r].pc \in {"create", "refused"} /\ SameLock
      <4>1. Approaches(r)
        BY <3>1, <3>2, WhereTheyAre DEF Approaches, Recovering
      <4>. QED
        BY <4>1 DEF OnTheLock
    <3>3. CASE ~(run'[r].pc \in {"create", "refused"} /\ SameLock)
      <4>1. MovesIt(r)
        BY <2>4, <3>1, <3>3, MoveAsideEffect DEF MovesIt
      <4>. QED
        BY <4>1 DEF OnTheLock
    <3>. QED
      BY <3>2, <3>3
  <2>5. CASE Judge(r)
    <3>1. FindsItGone(r) \/ DropsIt(r) \/ PutsItBack(r)
      BY <2>5, JudgeEffect, WhereTheyAre DEF FindsItGone, DropsIt, PutsItBack
    <3>. QED
      BY <3>1 DEF OnTheLock
  <2>. QED
    BY <1>1, <2>1, <2>2, <2>3, <2>4, <2>5 DEF Takes
<1>2. CASE Installs(r)
  <2>1. CASE ReadRecord(r)
    <3>1. run[r].pc = "readRecord" /\ SameSeen(r)
      BY <2>1, ReadRecordEffect
    <3>2. run'[r].pc \in {"readJournal", "inconsistent", "alreadyInstalled"} /\ SameLock
      BY <2>1, ReadRecordEffect
    <3>3. Approaches(r)
      BY <3>1, <3>2, WhereTheyAre DEF Approaches, Recovering
    <3>. QED
      BY <3>3 DEF OnTheLock
  <2>2. CASE ReadJournal(r)
    <3>1. run[r].pc = "readJournal" /\ SameSeen(r)
      BY <2>2, ReadJournalEffect
    <3>2. run'[r].pc \in {"inconsistent", "plan"} /\ SameLock
      BY <2>2, ReadJournalEffect
    <3>3. Approaches(r)
      BY <3>1, <3>2, WhereTheyAre DEF Approaches, Recovering
    <3>. QED
      BY <3>3 DEF OnTheLock
  <2>3. CASE Plan(r)
    <3>1. run[r].pc = "plan" /\ SameSeen(r)
      BY <2>3, PlanEffect
    <3>2. run'[r].pc \in {"inconsistent", "refused", "mkdir"} /\ SameLock
      BY <2>3, PlanEffect
    <3>3. Approaches(r)
      BY <3>1, <3>2, WhereTheyAre DEF Approaches, Recovering
    <3>. QED
      BY <3>3 DEF OnTheLock
  <2>4. CASE Recheck(r)
    <3>1. run[r].pc = "recheck" /\ SameSeen(r)
      BY <2>4, RecheckEffect
    <3>2. \/ run'[r].pc \in {"refused"} /\ dir'.lock = NoRun /\ dir'.exists = dir.exists /\ dir'.aside = dir.aside
          \/ run'[r].pc \in {"clean"} /\ SameLock
      BY <2>4, RecheckEffect
    <3>3. Leaves(r) \/ Works(r)
      BY <3>1, <3>2, WhereTheyAre DEF Leaves, Works
    <3>. QED
      BY <3>3 DEF OnTheLock
  <2>5. CASE Clean(r)
    <3>1. run[r].pc = "clean" /\ SameSeen(r)
      BY <2>5, CleanEffect
    <3>2. \/ run'[r].pc \in {"failed"} /\ SameLock /\ ~dir.exists
          \/ run'[r].pc \in {"journal"} /\ dir'.lock = dir.lock /\ dir'.exists = dir.exists /\ dir'.aside = NoDir.aside
      BY <2>5, CleanEffect
    <3>3. Leaves(r) \/ Works(r)
      BY <3>1, <3>2, WhereTheyAre DEF Leaves, Works
    <3>. QED
      BY <3>3 DEF OnTheLock
  <2>6. CASE WriteJournal(r)
    <3>1. run[r].pc = "journal" /\ SameSeen(r)
      BY <2>6, WriteJournalEffect
    <3>2. run'[r].pc \in {"copy"} /\ SameLock
      BY <2>6, WriteJournalEffect
    <3>3. Works(r)
      BY <3>1, <3>2, WhereTheyAre DEF Works
    <3>. QED
      BY <3>3 DEF OnTheLock
  <2>7. CASE CopyBackup(r)
    <3>1. run[r].pc = "copy" /\ SameSeen(r)
      BY <2>7, CopyBackupEffect
    <3>2. run'[r].pc \in {"write", "verify"} /\ SameLock
      BY <2>7, CopyBackupEffect
    <3>3. Works(r)
      BY <3>1, <3>2, WhereTheyAre DEF Works
    <3>. QED
      BY <3>3 DEF OnTheLock
  <2>8. CASE VerifyBackup(r)
    <3>1. run[r].pc = "verify" /\ SameSeen(r)
      BY <2>8, VerifyBackupEffect
    <3>2. run'[r].pc \in {"restore", "copy"} /\ SameLock
      BY <2>8, VerifyBackupEffect
    <3>3. Works(r)
      BY <3>1, <3>2, WhereTheyAre DEF Works
    <3>. QED
      BY <3>3 DEF OnTheLock
  <2>9. CASE WriteFile(r)
    <3>1. run[r].pc = "write" /\ SameSeen(r)
      BY <2>9, WriteFileEffect
    <3>2. run'[r].pc \in {"write", "record"} /\ SameLock
      BY <2>9, WriteFileEffect
    <3>3. Works(r)
      BY <3>1, <3>2, WhereTheyAre DEF Works
    <3>. QED
      BY <3>3 DEF OnTheLock
  <2>10. CASE WriteRecord(r)
    <3>1. run[r].pc = "record" /\ SameSeen(r)
      BY <2>10, WriteRecordEffect
    <3>2. run'[r].pc \in {"dropJournal"} /\ SameLock
      BY <2>10, WriteRecordEffect
    <3>3. Works(r)
      BY <3>1, <3>2, WhereTheyAre DEF Works
    <3>. QED
      BY <3>3 DEF OnTheLock
  <2>11. CASE DropJournal(r)
    <3>1. run[r].pc = "dropJournal" /\ SameSeen(r)
      BY <2>11, DropJournalEffect
    <3>2. run'[r].pc \in {"release"} /\ SameLock
      BY <2>11, DropJournalEffect
    <3>3. Works(r)
      BY <3>1, <3>2, WhereTheyAre DEF Works
    <3>. QED
      BY <3>3 DEF OnTheLock
  <2>12. CASE Release(r)
    <3>1. run[r].pc = "release" /\ SameSeen(r)
      BY <2>12, ReleaseEffect
    <3>2. run'[r].pc \in {"installed"} /\ dir'.lock = NoRun /\ dir'.exists = dir.exists /\ dir'.aside = dir.aside
      BY <2>12, ReleaseEffect
    <3>3. Leaves(r)
      BY <3>1, <3>2, WhereTheyAre DEF Leaves
    <3>. QED
      BY <3>3 DEF OnTheLock
  <2>. QED
    BY <1>2, <2>1, <2>2, <2>3, <2>4, <2>5, <2>6, <2>7, <2>8, <2>9, <2>10, <2>11, <2>12 DEF Installs
<1>3. CASE Uninstalls(r)
  <2>1. CASE Find(r)
    <3>1. run[r].pc = "find" /\ SameSeen(r)
      BY <2>1, FindEffect
    <3>2. run'[r].pc \in {"mkdir", "inconsistent", "notInstalled"} /\ SameLock
      BY <2>1, FindEffect
    <3>3. Approaches(r)
      BY <3>1, <3>2, WhereTheyAre DEF Approaches, Recovering
    <3>. QED
      BY <3>3 DEF OnTheLock
  <2>2. CASE LoadLeftover(r)
    <3>1. run[r].pc = "load" /\ SameSeen(r)
      BY <2>2, LoadLeftoverEffect
    <3>2. \/ run'[r].pc \in {"inconsistent"} /\ dir'.lock = NoRun /\ dir'.exists = dir.exists /\ dir'.aside = dir.aside
          \/ run'[r].pc \in {"notInstalled"} /\ dir'.lock = NoRun /\ ~dir'.exists /\ dir'.aside = NoDir.aside
      BY <2>2, LoadLeftoverEffect
    <3>3. Leaves(r)
      BY <3>1, <3>2, WhereTheyAre DEF Leaves
    <3>. QED
      BY <3>3 DEF OnTheLock
  <2>3. CASE Load(r)
    <3>1. run[r].pc = "load" /\ SameSeen(r)
      BY <2>3, LoadEffect
    <3>2. \/ run'[r].pc \in {"inconsistent"} /\ dir'.lock = NoRun /\ dir'.exists = dir.exists /\ dir'.aside = dir.aside
          \/ run'[r].pc \in {"journalBack", "restore"} /\ SameLock
      BY <2>3, LoadEffect
    <3>3. Leaves(r) \/ Works(r)
      BY <3>1, <3>2, WhereTheyAre DEF Leaves, Works
    <3>. QED
      BY <3>3 DEF OnTheLock
  <2>4. CASE WriteJournalBack(r)
    <3>1. run[r].pc = "journalBack" /\ SameSeen(r)
      BY <2>4, WriteJournalBackEffect
    <3>2. run'[r].pc \in {"forget"} /\ SameLock
      BY <2>4, WriteJournalBackEffect
    <3>3. Works(r)
      BY <3>1, <3>2, WhereTheyAre DEF Works
    <3>. QED
      BY <3>3 DEF OnTheLock
  <2>5. CASE ForgetRecord(r)
    <3>1. run[r].pc = "forget" /\ SameSeen(r)
      BY <2>5, ForgetRecordEffect
    <3>2. run'[r].pc \in {"restore"} /\ SameLock
      BY <2>5, ForgetRecordEffect
    <3>3. Works(r)
      BY <3>1, <3>2, WhereTheyAre DEF Works
    <3>. QED
      BY <3>3 DEF OnTheLock
  <2>. QED
    BY <1>3, <2>1, <2>2, <2>3, <2>4, <2>5 DEF Uninstalls
<1>4. CASE Restores(r)
  <2>1. CASE RestoreFile(r)
    <3>1. run[r].pc = "restore" /\ SameSeen(r)
      BY <2>1, RestoreFileEffect
    <3>2. \/ run'[r].pc \in {"sweep", "restore"} /\ SameLock
          \/ run'[r].pc \in {"inconsistent", "failed"} /\ dir'.lock = NoRun /\ dir'.exists = dir.exists /\ dir'.aside = dir.aside
      BY <2>1, RestoreFileEffect
    <3>3. Works(r) \/ Leaves(r)
      BY <3>1, <3>2, WhereTheyAre DEF Works, Leaves
    <3>. QED
      BY <3>3 DEF OnTheLock
  <2>2. CASE Sweep(r)
    <3>1. run[r].pc = "sweep" /\ SameSeen(r)
      BY <2>2, SweepEffect
    <3>2. \/ run'[r].pc \in {"remove"} /\ SameLock
          \/ run'[r].pc \in {"inconsistent", "failed"} /\ dir'.lock = NoRun /\ dir'.exists = dir.exists /\ dir'.aside = dir.aside
      BY <2>2, SweepEffect
    <3>3. Works(r) \/ Leaves(r)
      BY <3>1, <3>2, WhereTheyAre DEF Works, Leaves
    <3>. QED
      BY <3>3 DEF OnTheLock
  <2>3. CASE RemoveBackups(r)
    <3>1. run[r].pc = "remove" /\ SameSeen(r)
      BY <2>3, RemoveBackupsEffect
    <3>2. run'[r].pc \in {"removeJournal"} /\ dir'.lock = dir.lock /\ dir'.exists = dir.exists /\ dir'.aside = NoDir.aside
      BY <2>3, RemoveBackupsEffect
    <3>3. Works(r)
      BY <3>1, <3>2, WhereTheyAre DEF Works
    <3>. QED
      BY <3>3 DEF OnTheLock
  <2>4. CASE RemoveJournal(r)
    <3>1. run[r].pc = "removeJournal" /\ SameSeen(r)
      BY <2>4, RemoveJournalEffect
    <3>2. run'[r].pc \in {"removeDir"} /\ SameLock
      BY <2>4, RemoveJournalEffect
    <3>3. Works(r)
      BY <3>1, <3>2, WhereTheyAre DEF Works
    <3>. QED
      BY <3>3 DEF OnTheLock
  <2>5. CASE RemoveDir(r)
    <3>1. run[r].pc = "removeDir" /\ SameSeen(r)
      BY <2>5, RemoveDirEffect
    <3>2. run'[r].pc \in {"rolledBack", "uninstalled"} /\ dir'.lock = NoRun /\ ~dir'.exists /\ dir'.aside = NoDir.aside
      BY <2>5, RemoveDirEffect
    <3>3. Leaves(r)
      BY <3>1, <3>2, WhereTheyAre DEF Leaves
    <3>. QED
      BY <3>3 DEF OnTheLock
  <2>. QED
    BY <1>4, <2>1, <2>2, <2>3, <2>4, <2>5 DEF Restores
<1>5. CASE Fail(r)
  <2>1. /\ SameSeen(r)
        /\ \/ run[r].pc \in RollsBack /\ run'[r].pc = "restore" /\ SameLock
           \/ /\ run[r].pc \in {"restore", "journalBack", "forget"} /\ run'[r].pc \in {"inconsistent", "failed"}
              /\ dir'.lock = NoRun /\ dir'.exists = dir.exists /\ dir'.aside = dir.aside
    BY <1>5, FailEffect
  <2>2. Works(r) \/ Leaves(r)
    BY <2>1, WhereTheyAre DEF Works, Leaves, RollsBack
  <2>. QED
    BY <2>2 DEF OnTheLock
<1>6. CASE Kill(r)
  <2>1. Dies(r)
    BY <1>6, KillEffect, WhereTheyAre DEF Dies
  <2>. QED
    BY <2>1 DEF OnTheLock
<1>7. CASE \E c \in Commands : Start(r, c)
  <2>1. /\ run[r].pc = "idle" /\ run'[r].pc \in {"readRecord", "find"}
        /\ SameSeen(r) /\ SameLock
    BY <1>7, StartEffect
  <2>2. Approaches(r)
    BY <2>1, WhereTheyAre DEF Approaches, Recovering
  <2>. QED
    BY <2>2 DEF OnTheLock
<1>. QED
  BY <1>1, <1>2, <1>3, <1>4, <1>5, <1>6, <1>7 DEF Moves, Step

-----------------------------------------------------------------------------
(***************************************************************************)
(* One holder at a time.  Two runs at work beside one that moved a lock    *)
(* aside are three, and the holder it saw gone is a fourth: with three     *)
(* processes, or no kill, there is no such run.                            *)
(***************************************************************************)
Few == Cardinality(Runs) <= 3 \/ MaxKills = 0

LEMMA FourAreTooMany ==
    ASSUME NEW a \in Runs, NEW b \in Runs, NEW c \in Runs, NEW d \in Runs,
           a # b, a # c, a # d, b # c, b # d, c # d
    PROVE  ~(Cardinality(Runs) <= 3)
<1>. DEFINE S1 == {a}
            S2 == S1 \cup {b}
            S3 == S2 \cup {c}
            S4 == S3 \cup {d}
<1>1. IsFiniteSet(S1) /\ Cardinality(S1) = 1
  BY FS_Singleton
<1>2. IsFiniteSet(S2) /\ Cardinality(S2) = 2
  BY <1>1, FS_AddElement
<1>3. IsFiniteSet(S3) /\ Cardinality(S3) = 3
  BY <1>2, FS_AddElement
<1>4. IsFiniteSet(S4) /\ Cardinality(S4) = 4
  BY <1>3, FS_AddElement
<1>5. Cardinality(S4) <= Cardinality(Runs) /\ Cardinality(Runs) \in Nat
  <2>1. S4 \subseteq Runs
    OBVIOUS
  <2>. HIDE DEF S4
  <2>. QED
    BY <2>1, FS_Subset, FS_CardinalityType, InstallerAssumption
<1>. HIDE DEF S4
<1>. QED
  BY <1>4, <1>5

(* A run at work and one that trusts its lock to a third have that third's dead holder beside them. *)
LEMMA NobodyElse ==
    ASSUME TypeInv, LockInv, Few, NEW r \in Runs, NEW s \in Runs, NEW a \in Runs,
           r # s, ~IsGone(r), ~IsGone(s), a # r, a # s, run[a].seen # NoRun
    PROVE  FALSE
<1>1. run[a].seen \in Runs
  BY TypesUnfolded DEF TypeInv, RunStates
<1>2. run[a].seen # a /\ IsGone(run[a].seen)
  BY DEF LockInv, SeenIsGone
<1>3. ~(MaxKills = 0)
  BY DEF LockInv, NothingToRecover
<1>. QED
  BY <1>1, <1>2, <1>3, FourAreTooMany DEF Few

LEMMA LockKeepsOne ==
    ASSUME TypeInv, LockInv, Few
    PROVE  AtMostOneHolder
<1>. SUFFICES ASSUME NEW r \in Runs, NEW s \in Runs, run[r].pc \in UnderLock, run[s].pc \in UnderLock, r # s
              PROVE  FALSE
  BY DEF AtMostOneHolder
<1>1. ~IsGone(r) /\ ~IsGone(s)
  BY WhereTheyAre DEF IsGone
<1>2. HoldsLock(r) /\ HoldsLock(s)
  BY DEF LockInv, HolderHasLock
<1>3. r # NoRun /\ s # NoRun
  BY InstallerAssumption DEF NoRun
<1>4. PICK a \in Runs : MayPutBack(a, r) \/ MayPutBack(a, s)
  BY <1>2, <1>3 DEF HoldsLock
<1>5. a # r /\ a # s /\ run[a].seen # NoRun
  BY <1>4, WhereTheyAre DEF MayPutBack
<1>. QED
  BY <1>1, <1>5, NobodyElse

(* Nobody else is under the lock while a run may take it or put one back. *)
LEMMA LockIsFree ==
    ASSUME TypeInv, LockInv, Few, NEW r \in Runs, run[r].pc \in {"create", "judge"}, dir.lock = NoRun,
           NEW s \in Runs, run[s].pc \in UnderLock
    PROVE  run[r].pc = "judge" /\ MayPutBack(r, s)
<1>1. ~IsGone(r) /\ ~IsGone(s) /\ r # s
  BY WhereTheyAre DEF IsGone
<1>2. PICK a \in Runs : MayPutBack(a, s)
  BY InstallerAssumption DEF LockInv, HolderHasLock, HoldsLock, NoRun
<1>3. a # s /\ run[a].seen # NoRun
  BY <1>2 DEF MayPutBack
<1>4. a = r
  BY <1>1, <1>3, NobodyElse
<1>5. "create" \notin {"judge"} \cup Ended
  BY WhereTheyAre
<1>. QED
  BY <1>2, <1>4, <1>5 DEF MayPutBack

LEMMA LockNeedsDirStep ==
    ASSUME TypeInv, LockInv, NEW r \in Runs, Moves(r)
    PROVE  LockNeedsDir'
<1>1. dir.aside \in [Runs -> Runs \cup {NoRun}] /\ NoDir.aside = [s \in Runs |-> NoRun]
  BY TypesUnfolded DEF TypeInv, DirStates, NoDir
<1>2. OnTheLock(r)
  BY StepsOnTheLock
<1>3. CASE Approaches(r)
  BY <1>1, <1>3 DEF LockInv, LockNeedsDir, Approaches
<1>4. CASE Works(r)
  BY <1>1, <1>4 DEF LockInv, LockNeedsDir, Works
<1>5. CASE Leaves(r)
  BY <1>1, <1>5 DEF LockInv, LockNeedsDir, Leaves, SameLock
<1>6. CASE Dies(r)
  BY <1>1, <1>6 DEF LockInv, LockNeedsDir, Dies, SameLock
<1>7. CASE TakesIt(r)
  BY <1>1, <1>7 DEF LockInv, LockNeedsDir, TakesIt
<1>8. CASE SeesItDead(r)
  BY <1>1, <1>8 DEF LockInv, LockNeedsDir, SeesItDead, SameLock
<1>9. CASE MovesIt(r)
  BY <1>1, <1>9 DEF LockInv, LockNeedsDir, MovesIt
<1>10. CASE FindsItGone(r)
  BY <1>1, <1>10 DEF LockInv, LockNeedsDir, FindsItGone, SameLock
<1>11. CASE DropsIt(r)
  BY <1>1, <1>11 DEF LockInv, LockNeedsDir, DropsIt
<1>12. CASE PutsItBack(r)
  BY <1>1, <1>12 DEF LockInv, LockNeedsDir, PutsItBack
<1>. QED
  BY <1>2, <1>3, <1>4, <1>5, <1>6, <1>7, <1>8, <1>9, <1>10, <1>11, <1>12 DEF OnTheLock

(* Who has ended stays where it ended. *)
LEMMA EndedStays ==
    ASSUME TypeInv, NEW r \in Runs, Moves(r), NEW s \in Runs, IsGone(s)
    PROVE  s # r /\ run'[s] = run[s] /\ IsGone(s)'
<1>1. run[r].pc \notin Ended
  <2>1. OnTheLock(r)
    BY StepsOnTheLock
  <2>. QED
    BY <2>1, WhereTheyAre DEF OnTheLock, Approaches, Works, Leaves, Dies, TakesIt, SeesItDead,
         MovesIt, FindsItGone, DropsIt, PutsItBack
<1>. QED
  BY <1>1, OthersStay DEF IsGone

LEMMA SeenIsGoneStep ==
    ASSUME TypeInv, LockInv, NEW r \in Runs, Moves(r)
    PROVE  SeenIsGone'
<1>. SUFFICES ASSUME NEW s \in Runs
              PROVE  /\ run'[s].seen # NoRun => run'[s].seen # s /\ run'[run'[s].seen].pc \in Ended
                     /\ run'[s].pc \in Recovering => run'[s].seen # NoRun
  BY DEF SeenIsGone, IsGone
<1>1. dir.lock \in Runs \cup {NoRun} /\ run[s].seen \in Runs \cup {NoRun}
  BY TypesUnfolded DEF TypeInv, DirStates, RunStates
<1>2. /\ run[s].seen # NoRun => run[s].seen # s /\ run'[run[s].seen].pc \in Ended
      /\ run[s].pc \in Recovering => run[s].seen # NoRun
  BY <1>1, EndedStays DEF LockInv, SeenIsGone, IsGone
<1>3. CASE s # r
  BY <1>2, <1>3, OthersStay
<1>4. CASE s = r
  <2>1. CASE SeesItDead(r)
    <3>1. dir.lock \in Runs /\ run'[dir.lock].pc \in Ended /\ dir.lock # r
      BY <1>1, <2>1, EndedStays DEF SeesItDead, IsGone
    <3>. QED
      BY <2>1, <3>1, <1>4 DEF SeesItDead
  <2>2. CASE MovesIt(r)
    BY <1>2, <1>4, <2>2 DEF MovesIt, SameSeen, Recovering
  <2>3. CASE ~SeesItDead(r) /\ ~MovesIt(r)
    <3>1. OnTheLock(r)
      BY StepsOnTheLock
    <3>2. run'[r].seen = run[r].seen /\ run'[r].pc \notin Recovering
      BY <2>3, <3>1, WhereTheyAre DEF OnTheLock, Approaches, Works, Leaves, Dies, TakesIt,
           FindsItGone, DropsIt, PutsItBack, SameSeen, Recovering
    <3>. QED
      BY <1>2, <1>4, <3>2
  <2>. QED
    BY <2>1, <2>2, <2>3
<1>. QED
  BY <1>3, <1>4

LEMMA NothingToRecoverStep ==
    ASSUME TypeInv, LockInv, NEW r \in Runs, Moves(r)
    PROVE  NothingToRecover'
<1>. SUFFICES ASSUME MaxKills = 0
              PROVE  /\ \A s \in Runs : run'[s].seen = NoRun
                     /\ dir'.lock # NoRun => run'[dir'.lock].pc \in UnderLock
  BY DEF NothingToRecover
<1>1. /\ \A s \in Runs : run[s].seen = NoRun
      /\ dir.lock # NoRun => run[dir.lock].pc \in UnderLock
      /\ \A s \in Runs : run[s].pc \notin Recovering
  BY DEF LockInv, NothingToRecover, SeenIsGone
<1>2. dir.lock \in Runs \cup {NoRun} /\ (~dir.exists => dir.lock = NoRun)
  BY TypesUnfolded DEF TypeInv, DirStates, LockInv, LockNeedsDir
<1>3. \A s \in Runs : s # r => run'[s] = run[s]
  BY OthersStay
<1>4. ~SeesItDead(r) /\ ~MovesIt(r) /\ ~FindsItGone(r) /\ ~DropsIt(r) /\ ~PutsItBack(r)
  <2>1. ~SeesItDead(r)
    BY <1>1, <1>2, WhereTheyAre DEF SeesItDead, IsGone
  <2>. QED
    BY <1>1, <2>1 DEF MovesIt, FindsItGone, DropsIt, PutsItBack, Recovering
<1>5. ~Dies(r)
  <2>1. Cardinality({k \in Runs : At(k, "killed")}) \in Nat
    BY FS_Subset, FS_CardinalityType, InstallerAssumption
  <2>. QED
    BY <2>1 DEF Dies
<1>6. CASE Approaches(r)
  <2>1. run'[r].seen = run[r].seen /\ dir'.lock = dir.lock /\ run[r].pc \notin UnderLock
    BY <1>6 DEF Approaches, SameSeen
  <2>. QED
    BY <2>1, <1>1, <1>2, <1>3
<1>7. CASE Works(r)
  <2>1. run'[r].seen = run[r].seen /\ dir'.lock = dir.lock /\ run'[r].pc \in UnderLock
    BY <1>7 DEF Works, SameSeen
  <2>. QED
    BY <2>1, <1>1, <1>2, <1>3
<1>8. CASE Leaves(r)
  <2>1. run'[r].seen = run[r].seen /\ dir'.lock = NoRun
    BY <1>8, <1>2 DEF Leaves, SameSeen, SameLock
  <2>. QED
    BY <2>1, <1>1, <1>2, <1>3
<1>9. CASE TakesIt(r)
  BY <1>1, <1>2, <1>3, <1>9 DEF TakesIt, SameSeen
<1>. QED
  BY <1>4, <1>5, <1>6, <1>7, <1>8, <1>9, StepsOnTheLock DEF OnTheLock

LEMMA HolderHasLockStep ==
    ASSUME TypeInv, LockInv, Few, NEW r \in Runs, Moves(r)
    PROVE  HolderHasLock'
<1>. SUFFICES ASSUME NEW s \in Runs, run'[s].pc \in UnderLock
              PROVE  HoldsLock(s)'
  BY DEF HolderHasLock
<1>1. \A q \in Runs : q # r => run'[q] = run[q]
  BY OthersStay
<1>2. AtMostOneHolder
  BY LockKeepsOne
<1>3. dir.aside \in [Runs -> Runs \cup {NoRun}] /\ NoDir.aside = [q \in Runs |-> NoRun]
  BY TypesUnfolded DEF TypeInv, DirStates, NoDir
<1>4. run[s].pc \in UnderLock => HoldsLock(s)
  BY DEF LockInv, HolderHasLock
<1>5. r # NoRun /\ s # NoRun
  BY InstallerAssumption DEF NoRun
<1>6. CASE Approaches(r)
  <2>1. s # r /\ HoldsLock(s)
    BY <1>1, <1>4, <1>6 DEF Approaches
  <2>2. \A a \in Runs : MayPutBack(a, s) => a # r
    BY <1>6 DEF Approaches, MayPutBack
  <2>. QED
    BY <2>1, <2>2, <1>1, <1>6 DEF Approaches, HoldsLock, MayPutBack
<1>7. CASE Works(r)
  <2>1. s = r /\ HoldsLock(r)
    BY <1>1, <1>2, <1>4, <1>7 DEF Works, AtMostOneHolder
  <2>2. \A a \in Runs : MayPutBack(a, r) => MayPutBack(a, r)'
    BY <1>1, <1>3, <1>7 DEF Works, MayPutBack
  <2>. QED
    BY <2>1, <2>2, <1>7 DEF Works, HoldsLock
<1>8. CASE Leaves(r)
  BY <1>1, <1>2, <1>8, WhereTheyAre DEF Leaves, AtMostOneHolder
<1>9. CASE Dies(r)
  <2>1. s # r /\ HoldsLock(s)
    BY <1>1, <1>4, <1>9, WhereTheyAre DEF Dies
  <2>2. \A a \in Runs : MayPutBack(a, s) => MayPutBack(a, s)'
    BY <1>1, <1>9 DEF Dies, MayPutBack, SameSeen, SameLock
  <2>. QED
    BY <2>1, <2>2, <1>9 DEF Dies, HoldsLock, SameLock
<1>10. CASE TakesIt(r)
  <2>1. \A q \in Runs : run[q].pc \notin UnderLock
    BY <1>10, LockIsFree DEF TakesIt
  <2>. QED
    BY <1>1, <1>10, <2>1 DEF TakesIt, HoldsLock
<1>11. CASE SeesItDead(r)
  <2>1. s # r /\ HoldsLock(s)
    BY <1>1, <1>4, <1>11, WhereTheyAre DEF SeesItDead, Recovering
  <2>2. dir.lock # NoRun
    BY <1>11 DEF SeesItDead
  <2>. QED
    BY <2>1, <2>2, <1>11 DEF HoldsLock, SeesItDead, SameLock
<1>12. CASE MovesIt(r)
  <2>1. s # r /\ HoldsLock(s)
    BY <1>1, <1>4, <1>12, WhereTheyAre DEF MovesIt, Recovering
  <2>2. dir.lock = s
    BY <2>1, <1>12 DEF HoldsLock, MovesIt
  <2>3. run[r].seen # NoRun
    BY <1>12 DEF LockInv, SeenIsGone, MovesIt, Recovering
  <2>4. MayPutBack(r, s)'
    BY <2>1, <2>2, <2>3, <1>3, <1>12 DEF MayPutBack, MovesIt, SameSeen
  <2>. QED
    BY <2>4, <1>12 DEF HoldsLock, MovesIt
<1>13. CASE FindsItGone(r)
  <2>1. s # r /\ HoldsLock(s)
    BY <1>1, <1>4, <1>13, WhereTheyAre DEF FindsItGone
  <2>2. \A a \in Runs : MayPutBack(a, s) => MayPutBack(a, s)'
    BY <1>1, <1>13 DEF FindsItGone, MayPutBack, SameSeen, SameLock
  <2>. QED
    BY <2>1, <2>2, <1>13 DEF FindsItGone, HoldsLock, SameLock
<1>14. CASE DropsIt(r)
  <2>1. s # r /\ HoldsLock(s) /\ run[s].pc \in UnderLock
    BY <1>1, <1>4, <1>14, WhereTheyAre DEF DropsIt
  <2>2. ~MayPutBack(r, s)
    <3>1. IsGone(run[r].seen)
      BY <1>14 DEF DropsIt, LockInv, SeenIsGone
    <3>. QED
      BY <2>1, <3>1, <1>14, WhereTheyAre DEF DropsIt, MayPutBack, IsGone
  <2>3. \A a \in Runs : MayPutBack(a, s) => MayPutBack(a, s)'
    BY <2>2, <1>1, <1>3, <1>14 DEF DropsIt, MayPutBack
  <2>. QED
    BY <2>1, <2>3, <1>14 DEF DropsIt, HoldsLock
<1>15. CASE PutsItBack(r)
  <2>1. s # r /\ HoldsLock(s) /\ run[s].pc \in UnderLock
    BY <1>1, <1>4, <1>15, WhereTheyAre DEF PutsItBack
  <2>2. CASE dir.lock # NoRun
    BY <2>1, <2>2, <1>15 DEF PutsItBack, HoldsLock
  <2>3. CASE dir.lock = NoRun
    <3>1. MayPutBack(r, s)
      BY <2>1, <2>3, <1>15, LockIsFree DEF PutsItBack
    <3>. QED
      BY <2>3, <3>1, <1>15 DEF PutsItBack, MayPutBack, HoldsLock
  <2>. QED
    BY <2>2, <2>3
<1>. QED
  BY <1>6, <1>7, <1>8, <1>9, <1>10, <1>11, <1>12, <1>13, <1>14, <1>15, StepsOnTheLock DEF OnTheLock

LEMMA LockInit == Init => LockInv
<1>. SUFFICES ASSUME Init
              PROVE  LockInv
  OBVIOUS
<1>1. \A r \in Runs : run[r].pc = "idle" /\ run[r].seen = NoRun
  BY DEF Init
<1>2. dir.lock = NoRun /\ \A r \in Runs : dir.aside[r] = NoRun
  BY DEF Init, NoDir
<1>. QED
  BY <1>1, <1>2, WhereTheyAre DEF LockInv, LockNeedsDir, SeenIsGone, HolderHasLock, NothingToRecover, Recovering

LEMMA LockStep == Few /\ TypeInv /\ LockInv /\ [Next]_vars => LockInv'
<1>. SUFFICES ASSUME Few, TypeInv, LockInv, [Next]_vars
              PROVE  LockInv'
  OBVIOUS
<1>1. ASSUME NEW r \in Runs, Moves(r)
      PROVE  LockInv'
  BY <1>1, LockNeedsDirStep, SeenIsGoneStep, HolderHasLockStep, NothingToRecoverStep DEF LockInv
<1>2. CASE UNCHANGED <<dir, run>>
  BY <1>2 DEF LockInv, LockNeedsDir, SeenIsGone, IsGone, HolderHasLock, HoldsLock, MayPutBack, NothingToRecover
<1>. QED
  BY <1>1, <1>2 DEF Next, Moves, Tamper, vars

(***************************************************************************)
(* lock.ts:2, 136: with at most three processes, or with none of them      *)
(* killed, one install or uninstall is under the lock at a time, for any   *)
(* files and failures.  The hypothesis cannot go: with four and a kill a   *)
(* run that trusts a lock it moved aside lets a second one in.             *)
(***************************************************************************)
THEOREM OneHolder ==
    ASSUME Few
    PROVE  Spec => []OneAtATime
<1>1. TypeInv /\ LockInv => OneAtATime
  <2>. SUFFICES ASSUME TypeInv, LockInv
                PROVE  OneAtATime
    OBVIOUS
  <2>. DEFINE H == {r \in Runs : run[r].pc \in UnderLock}
  <2>1. \A r, s \in H : r = s
    BY LockKeepsOne DEF AtMostOneHolder
  <2>2. CASE H = {}
    BY <2>2, FS_EmptySet DEF OneAtATime
  <2>3. CASE H # {}
    <3>1. PICK h \in H : H = {h}
      BY <2>1, <2>3
    <3>2. Cardinality(H) = 1
      BY <3>1, FS_Singleton
    <3>. QED
      BY <3>2 DEF OneAtATime
  <2>. QED
    BY <2>2, <2>3
<1>. QED
  BY <1>1, LockInit, LockStep, Typed, PTL DEF Spec

-----------------------------------------------------------------------------
(***************************************************************************)
(* What the holder's writes keep while it is the only one.                 *)
(***************************************************************************)
SameTree == /\ files' = files /\ dir'.record = dir.record
            /\ dir'.journal = dir.journal /\ dir'.backup = dir.backup

(* A run without the lock changes nothing of the tree, and has done nothing of the work when it gets it. *)
Waits(r) == SameTree /\ temps' = temps /\ run'[r].pc \notin UnderLock \ {"recheck", "load"}

LEMMA OnlyTheHolderChanges ==
    ASSUME TypeInv, NEW r \in Runs, Moves(r), run[r].pc \notin UnderLock
    PROVE  Waits(r)
<1>. USE DEF Goes, GoesFor, SameTree, DirIs, RestOfDir, Unlocks
<1>1. CASE Takes(r)
  <2>1. CASE MakeStateDir(r)
    <3>1. SameTree /\ temps' = temps /\ run'[r].pc \in {"create"}
      BY <2>1, MakeStateDirEffect
    <3>. QED
      BY <3>1, WhereTheyAre DEF Waits
  <2>2. CASE Create(r)
    <3>1. Locked(r) \in {"recheck", "load"}
      BY DEF Locked
    <3>2. SameTree /\ temps' = temps /\ (run'[r].pc \in {"failed", "inspect"} \/ run'[r].pc = Locked(r))
      BY <2>2, CreateEffect
    <3>. QED
      BY <3>1, <3>2, WhereTheyAre DEF Waits
  <2>3. CASE Inspect(r)
    <3>1. SameTree /\ temps' = temps /\ run'[r].pc \in {"create", "refused", "aside"}
      BY <2>3, InspectEffect
    <3>. QED
      BY <3>1, WhereTheyAre DEF Waits
  <2>4. CASE MoveAside(r)
    <3>1. SameTree /\ temps' = temps /\ run'[r].pc \in {"create", "refused", "judge"}
      BY <2>4, MoveAsideEffect
    <3>. QED
      BY <3>1, WhereTheyAre DEF Waits
  <2>5. CASE Judge(r)
    <3>1. SameTree /\ temps' = temps /\ run'[r].pc \in {"failed", "create", "refused"}
      BY <2>5, JudgeEffect
    <3>. QED
      BY <3>1, WhereTheyAre DEF Waits
  <2>. QED
    BY <1>1, <2>1, <2>2, <2>3, <2>4, <2>5 DEF Takes
<1>2. CASE Installs(r)
  <2>1. CASE ReadRecord(r)
    <3>1. SameTree /\ temps' = temps /\ run'[r].pc \in {"readJournal", "inconsistent", "alreadyInstalled"}
      BY <2>1, ReadRecordEffect
    <3>. QED
      BY <3>1, WhereTheyAre DEF Waits
  <2>2. CASE ReadJournal(r)
    <3>1. SameTree /\ temps' = temps /\ run'[r].pc \in {"inconsistent", "plan"}
      BY <2>2, ReadJournalEffect
    <3>. QED
      BY <3>1, WhereTheyAre DEF Waits
  <2>3. CASE Plan(r)
    <3>1. SameTree /\ temps' = temps /\ run'[r].pc \in {"inconsistent", "refused", "mkdir"}
      BY <2>3, PlanEffect
    <3>. QED
      BY <3>1, WhereTheyAre DEF Waits
  <2>4. CASE Recheck(r) \/ Clean(r) \/ WriteJournal(r) \/ CopyBackup(r)
             \/ VerifyBackup(r) \/ WriteFile(r) \/ WriteRecord(r) \/ DropJournal(r) \/ Release(r)
    BY <2>4, WhereTheyAre DEF Recheck, Clean, WriteJournal, CopyBackup, VerifyBackup, WriteFile, WriteRecord, DropJournal, Release, At
  <2>. QED
    BY <1>2, <2>1, <2>2, <2>3, <2>4 DEF Installs
<1>3. CASE Uninstalls(r)
  <2>1. CASE Find(r)
    <3>1. SameTree /\ temps' = temps /\ run'[r].pc \in {"mkdir", "inconsistent", "notInstalled"}
      BY <2>1, FindEffect
    <3>. QED
      BY <3>1, WhereTheyAre DEF Waits
  <2>2. CASE LoadLeftover(r) \/ Load(r) \/ WriteJournalBack(r) \/ ForgetRecord(r)
    BY <2>2, WhereTheyAre DEF LoadLeftover, Load, WriteJournalBack, ForgetRecord, At
  <2>. QED
    BY <1>3, <2>1, <2>2 DEF Uninstalls
<1>4. CASE Restores(r)
  <2>1. CASE RestoreFile(r) \/ Sweep(r)
             \/ RemoveBackups(r) \/ RemoveJournal(r) \/ RemoveDir(r)
    BY <2>1, WhereTheyAre DEF RestoreFile, Sweep, RemoveBackups, RemoveJournal, RemoveDir, At
  <2>. QED
    BY <1>4, <2>1 DEF Restores
<1>5. CASE Fail(r)
  BY <1>5, WhereTheyAre DEF Fail, Failable
<1>6. CASE Kill(r)
  <2>1. /\ SameTree /\ run'[r].pc = "killed"
        /\ temps' = temps \/ run[r].pc \in {"write", "restore"}
    BY <1>6, KillEffect
  <2>. QED
    BY <2>1, WhereTheyAre DEF Waits
<1>7. CASE \E c \in Commands : Start(r, c)
  <2>1. SameTree /\ temps' = temps /\ run'[r].pc \in {"readRecord", "find"}
    BY <1>7, StartEffect
  <2>. QED
    BY <2>1, WhereTheyAre DEF Waits
<1>. QED
  BY <1>1, <1>2, <1>3, <1>4, <1>5, <1>6, <1>7 DEF Moves, Step

LEMMA FilesStay ==
    ASSUME files' = files
    PROVE  (NoneOdd' <=> NoneOdd) /\ (Loadable' <=> Loadable) /\ \A x : AllAre(x)' <=> AllAre(x)
BY DEF NoneOdd, Loadable, AllAre

LEMMA TreeStays ==
    ASSUME SameTree, TreeInv
    PROVE  UntouchedIsStock' /\ RecordIsTrue' /\ BackupsAreThere' /\ Loadable'
<1>1. BackupsNeededDamaged' = BackupsNeededDamaged
  BY DEF SameTree, BackupsNeededDamaged, NeededBackups
<1>. QED
  BY <1>1, FilesStay DEF SameTree, TreeInv, UntouchedIsStock, RecordIsTrue, BackupsAreThere

LEMMA NoPhase ==
    ASSUME NEW r, run[r].pc \notin UnderLock \ {"recheck", "load"}
    PROVE  Phase(r)
BY WhereTheyAre DEF Phase

LEMMA PhaseStays ==
    ASSUME NEW s, SameTree, temps' = temps, run'[s] = run[s], Phase(s)
    PROVE  Phase(s)'
BY FilesStay DEF SameTree, Phase, AllBackedUp

(***************************************************************************)
(* The holder's steps, one by one.                                         *)
(***************************************************************************)
KeepsTree(r) ==
    UntouchedIsStock' /\ RecordIsTrue' /\ BackupsAreThere' /\ Loadable' /\ Phase(r)'

LEMMA HolderTrusts ==
    ASSUME TrustInv, NEW r \in Runs, run[r].pc \in UnderLock \ {"load"}
    PROVE  NoneOdd
BY DEF TrustInv, TrustIsEarned, Trusting, TrustingAt

(* A stock tree needs no backup and no record, and loads; so does a written one with all its backups. *)
LEMMA StockAfter ==
    ASSUME AllAre("stock")'
    PROVE  UntouchedIsStock' /\ BackupsAreThere' /\ Loadable'
BY DEF AllAre, UntouchedIsStock, BackupsAreThere, BackupsNeededDamaged, NeededBackups, Loadable, Files

LEMMA WrittenAfter ==
    ASSUME AllAre("written")', AllBackedUp'
    PROVE  RecordIsTrue' /\ BackupsAreThere' /\ Loadable'
BY DEF AllAre, RecordIsTrue, BackupsAreThere, BackupsNeededDamaged, NeededBackups, AllBackedUp, Loadable, Files

LEMMA LeavesTree ==
    ASSUME TreeInv, NEW r \in Runs, SameTree, run'[r].pc \notin UnderLock \ {"recheck", "load"}
    PROVE  KeepsTree(r)
<1>1. Phase(r)'
  BY WhereTheyAre DEF Phase
<1>. QED
  BY <1>1, TreeStays DEF KeepsTree

LEMMA RecheckKeeps ==
    ASSUME TypeInv, TrustInv, TreeInv, NEW r \in Runs, Recheck(r)
    PROVE  KeepsTree(r)
<1>1. SameTree /\ run[r].pc = "recheck"
  BY RecheckEffect DEF SameTree, Unlocks, RestOfDir, DirIs
<1>2. CASE run'[r].pc = "refused"
  BY <1>1, <1>2, LeavesTree, WhereTheyAre
<1>3. CASE run'[r].pc # "refused"
  <2>1. run'[r].pc = "clean" /\ ~dir.record /\ dir.journal = "none"
    BY <1>3, RecheckEffect DEF Goes
  <2>2. NoneOdd
    BY <1>1, HolderTrusts, WhereTheyAre
  <2>3. AllAre("stock")
    BY <2>1, <2>2 DEF TreeInv, UntouchedIsStock
  <2>4. Phase(r)'
    BY <1>1, <2>1, <2>3, FilesStay DEF Phase, SameTree
  <2>. QED
    BY <1>1, <2>4, TreeStays DEF KeepsTree
<1>. QED
  BY <1>2, <1>3

LEMMA CleanKeeps ==
    ASSUME TypeInv, TrustInv, TreeInv, NEW r \in Runs, Clean(r)
    PROVE  KeepsTree(r)
<1>1. files' = files /\ AllAre("stock") /\ ~dir.record
  BY CleanEffect DEF TreeInv, Phase
<1>2. CASE run'[r].pc = "failed"
  <2>1. SameTree
    BY <1>2, CleanEffect DEF SameTree, Goes
  <2>. QED
    BY <1>2, <2>1, LeavesTree, WhereTheyAre
<1>3. CASE run'[r].pc # "failed"
  <2>1. run'[r].pc = "journal" /\ ~dir'.record
    BY <1>1, <1>3, CleanEffect DEF Goes, DirIs
  <2>2. AllAre("stock")'
    BY <1>1, FilesStay
  <2>3. Phase(r)'
    BY <2>1, <2>2 DEF Phase
  <2>. QED
    BY <2>1, <2>2, <2>3, StockAfter DEF KeepsTree, RecordIsTrue
<1>. QED
  BY <1>2, <1>3

LEMMA WriteJournalKeeps ==
    ASSUME TypeInv, TrustInv, TreeInv, NEW r \in Runs, WriteJournal(r)
    PROVE  KeepsTree(r)
<1>1. files' = files /\ AllAre("stock") /\ ~dir.record
  BY WriteJournalEffect DEF TreeInv, Phase
<1>2. run'[r].pc = "copy" /\ run'[r].todo = Replaced /\ ~dir'.record /\ dir'.journal # "none"
  BY <1>1, WriteJournalEffect DEF GoesFor, DirIs
<1>3. AllAre("stock")'
  BY <1>1, FilesStay
<1>4. Phase(r)'
  BY <1>2, <1>3 DEF Phase
<1>. QED
  BY <1>2, <1>3, <1>4, StockAfter DEF KeepsTree, RecordIsTrue

LEMMA CopyBackupKeeps ==
    ASSUME TypeInv, TrustInv, TreeInv, NEW r \in Runs, CopyBackup(r)
    PROVE  KeepsTree(r)
<1>1. /\ files' = files /\ AllAre("stock") /\ ~dir.record /\ dir.journal # "none"
      /\ \A f \in Replaced \ run[r].todo : dir.backup[f] = "good"
  BY CopyBackupEffect DEF TreeInv, Phase
<1>2. AllAre("stock")' /\ dir.backup \in [Replaced -> {"none", "torn", "good"}]
  BY <1>1, FilesStay, TypesUnfolded DEF TypeInv, DirStates
<1>3. CASE run[r].todo = {} /\ GoesFor(r, "write", Files) /\ UNCHANGED dir
  <2>1. run'[r].pc = "write" /\ run'[r].todo = Files /\ dir' = dir /\ AllBackedUp'
    BY <1>1, <1>3 DEF GoesFor, AllBackedUp
  <2>2. \A f \in Files : files'[f] = "stock"
    BY <1>2 DEF AllAre
  <2>3. Phase(r)'
    BY <1>1, <2>1, <2>2 DEF Phase
  <2>. QED
    BY <1>1, <1>2, <2>1, <2>3, StockAfter DEF KeepsTree, RecordIsTrue
<1>4. ASSUME NEW f \in run[r].todo, Goes(r, "verify"),
             DirIs(dir.exists, dir.record, dir.journal, dir.lock, [dir.backup EXCEPT ![f] = "torn"], dir.aside)
      PROVE  KeepsTree(r)
  <2>1. run'[r].pc = "verify" /\ run'[r].todo = run[r].todo
    BY <1>4 DEF Goes
  <2>2. ~dir'.record /\ dir'.journal # "none" /\ \A g \in Replaced \ run[r].todo : dir'.backup[g] = "good"
    BY <1>1, <1>2, <1>4 DEF DirIs
  <2>3. Phase(r)'
    BY <1>2, <2>1, <2>2 DEF Phase
  <2>. QED
    BY <1>2, <2>2, <2>3, StockAfter DEF KeepsTree, RecordIsTrue
<1>. QED
  BY <1>3, <1>4, CopyBackupEffect

LEMMA VerifyBackupKeeps ==
    ASSUME TypeInv, TrustInv, TreeInv, NEW r \in Runs, VerifyBackup(r)
    PROVE  KeepsTree(r)
<1>1. /\ files' = files /\ AllAre("stock") /\ ~dir.record /\ dir.journal # "none"
      /\ \A f \in Replaced \ run[r].todo : dir.backup[f] = "good"
  BY VerifyBackupEffect DEF TreeInv, Phase
<1>2. AllAre("stock")' /\ dir.backup \in [Replaced -> {"none", "torn", "good"}]
  BY <1>1, FilesStay, TypesUnfolded DEF TypeInv, DirStates
<1>3. CASE GoesFor(r, "restore", Files) /\ UNCHANGED dir
  <2>1. run'[r].pc = "restore" /\ run'[r].todo = Files /\ ~dir'.record
    BY <1>1, <1>3 DEF GoesFor
  <2>2. Phase(r)'
    BY <2>1 DEF Phase
  <2>. QED
    BY <1>2, <2>1, <2>2, StockAfter DEF KeepsTree, RecordIsTrue
<1>4. ASSUME NEW f \in run[r].todo, GoesFor(r, "copy", run[r].todo \ {f}),
             DirIs(dir.exists, dir.record, dir.journal, dir.lock, [dir.backup EXCEPT ![f] = "good"], dir.aside)
      PROVE  KeepsTree(r)
  <2>1. run'[r].pc = "copy" /\ run'[r].todo = run[r].todo \ {f}
    BY <1>4 DEF GoesFor
  <2>2. /\ ~dir'.record /\ dir'.journal # "none"
        /\ \A g \in Replaced \ (run[r].todo \ {f}) : dir'.backup[g] = "good"
    BY <1>1, <1>2, <1>4 DEF DirIs
  <2>3. Phase(r)'
    BY <1>2, <2>1, <2>2 DEF Phase
  <2>. QED
    BY <1>2, <2>2, <2>3, StockAfter DEF KeepsTree, RecordIsTrue
<1>. QED
  BY <1>3, <1>4, VerifyBackupEffect

LEMMA WriteFileKeeps ==
    ASSUME TypeInv, TrustInv, TreeInv, NEW r \in Runs, WriteFile(r)
    PROVE  KeepsTree(r)
<1>1. /\ dir' = dir /\ ~dir.record /\ dir.journal # "none" /\ AllBackedUp
      /\ \A f \in Files : files[f] = IF f \in run[r].todo THEN "stock" ELSE "written"
  BY WriteFileEffect DEF TreeInv, Phase
<1>2. AllBackedUp' /\ UntouchedIsStock' /\ RecordIsTrue' /\ BackupsAreThere'
  BY <1>1 DEF AllBackedUp, UntouchedIsStock, RecordIsTrue, BackupsAreThere, BackupsNeededDamaged, NeededBackups
<1>3. files \in [Files -> FileStates] /\ run[r].todo \in SUBSET Files
  BY TypesUnfolded DEF TypeInv, RunStates
<1>4. CASE run[r].todo = {} /\ Goes(r, "record") /\ UNCHANGED files
  <2>1. run'[r].pc = "record" /\ AllAre("written")'
    BY <1>1, <1>4 DEF Goes, AllAre
  <2>2. Phase(r)'
    BY <1>1, <1>2, <2>1 DEF Phase
  <2>. QED
    BY <1>2, <2>1, <2>2, WrittenAfter DEF KeepsTree
<1>5. ASSUME NEW f \in run[r].todo, GoesFor(r, "write", run[r].todo \ {f}),
             files' = [files EXCEPT ![f] = "written"], f \in Replaced => run[r].todo \cap Created = {}
      PROVE  KeepsTree(r)
  <2>1. run'[r].pc = "write" /\ run'[r].todo = run[r].todo \ {f}
    BY <1>5 DEF GoesFor
  <2>2. \A g \in Files : files'[g] = IF g \in run[r].todo \ {f} THEN "stock" ELSE "written"
    BY <1>1, <1>3, <1>5
  <2>3. Phase(r)'
    BY <1>1, <1>2, <2>1, <2>2 DEF Phase
  <2>4. Loadable'
    <3>1. Created \subseteq Files /\ Replaced \subseteq Files /\ Created \cap Replaced = {}
      BY InstallerAssumption DEF Files
    <3>2. CASE f \in Replaced
      BY <1>5, <2>2, <3>1, <3>2 DEF Loadable
    <3>3. CASE f \notin Replaced
      BY <1>3, <1>5, <3>1, <3>3 DEF TreeInv, Loadable
    <3>. QED
      BY <3>2, <3>3
  <2>. QED
    BY <1>2, <2>3, <2>4 DEF KeepsTree
<1>. QED
  BY <1>4, <1>5, WriteFileEffect

LEMMA WriteRecordKeeps ==
    ASSUME TypeInv, TrustInv, TreeInv, NEW r \in Runs, WriteRecord(r)
    PROVE  KeepsTree(r)
<1>1. files' = files /\ AllAre("written") /\ AllBackedUp
  BY WriteRecordEffect DEF TreeInv, Phase
<1>2. run'[r].pc = "dropJournal" /\ dir'.record /\ dir'.backup = dir.backup
  BY WriteRecordEffect DEF Goes, DirIs
<1>. AllAre("written")' /\ AllBackedUp'
  BY <1>1, <1>2, FilesStay DEF AllBackedUp
<1>3. Phase(r)'
  BY <1>2 DEF Phase
<1>. QED
  BY <1>2, <1>3, WrittenAfter DEF KeepsTree, UntouchedIsStock

LEMMA DropJournalKeeps ==
    ASSUME TypeInv, TrustInv, TreeInv, NEW r \in Runs, DropJournal(r)
    PROVE  KeepsTree(r)
<1>1. files' = files /\ AllAre("written") /\ AllBackedUp /\ dir.record
  BY DropJournalEffect DEF TreeInv, Phase
<1>2. run'[r].pc = "release" /\ dir'.record = dir.record /\ dir'.journal = "none" /\ dir'.backup = dir.backup
  BY DropJournalEffect DEF Goes, DirIs
<1>. AllAre("written")' /\ AllBackedUp'
  BY <1>1, <1>2, FilesStay DEF AllBackedUp
<1>3. Phase(r)'
  BY <1>1, <1>2 DEF Phase
<1>. QED
  BY <1>1, <1>2, <1>3, WrittenAfter DEF KeepsTree, UntouchedIsStock

LEMMA ReleaseKeeps ==
    ASSUME TypeInv, TrustInv, TreeInv, NEW r \in Runs, Release(r)
    PROVE  KeepsTree(r)
<1>1. SameTree /\ run'[r].pc = "installed"
  BY ReleaseEffect DEF SameTree, Unlocks, RestOfDir, DirIs, Goes
<1>. QED
  BY <1>1, LeavesTree, WhereTheyAre

LEMMA LoadLeftoverKeeps ==
    ASSUME TypeInv, TrustInv, TreeInv, NEW r \in Runs, LoadLeftover(r)
    PROVE  KeepsTree(r)
<1>1. files' = files /\ ~dir.record /\ dir.journal = "none" /\ run'[r].pc \in {"inconsistent", "notInstalled"}
  BY LoadLeftoverEffect DEF Goes
<1>2. CASE run'[r].pc = "inconsistent"
  <2>1. SameTree
    BY <1>2, LoadLeftoverEffect DEF SameTree, Unlocks, RestOfDir, DirIs, Goes
  <2>. QED
    BY <1>2, <2>1, LeavesTree, WhereTheyAre
<1>3. CASE run'[r].pc = "notInstalled"
  <2>1. ~dir'.record
    BY <1>3, LoadLeftoverEffect DEF DirIs, Goes
  <2>2. NoneOdd' => AllAre("stock")'
    BY <1>1, FilesStay DEF TreeInv, UntouchedIsStock
  <2>3. UntouchedIsStock' /\ RecordIsTrue'
    BY <2>1, <2>2 DEF UntouchedIsStock, RecordIsTrue
  <2>4. BackupsAreThere' /\ Loadable'
    BY <1>1, <2>2, FilesStay, StockAfter DEF BackupsAreThere, TreeInv
  <2>5. Phase(r)'
    BY <1>3, WhereTheyAre DEF Phase
  <2>. QED
    BY <2>3, <2>4, <2>5 DEF KeepsTree
<1>. QED
  BY <1>1, <1>2, <1>3

LEMMA LoadKeeps ==
    ASSUME TypeInv, TrustInv, TreeInv, NEW r \in Runs, Load(r)
    PROVE  KeepsTree(r)
<1>1. SameTree
  BY LoadEffect DEF SameTree, Unlocks, RestOfDir, DirIs
<1>2. CASE Goes(r, "inconsistent") /\ Unlocks
  BY <1>1, <1>2, LeavesTree, WhereTheyAre DEF Goes
<1>3. CASE GoesFor(r, IF dir.record THEN "journalBack" ELSE "restore", Files)
  <2>1. /\ run'[r].todo = Files
        /\ dir'.record => run'[r].pc = "journalBack"
        /\ ~dir'.record => run'[r].pc = "restore"
    BY <1>1, <1>3 DEF GoesFor, SameTree
  <2>2. Phase(r)'
    BY <2>1 DEF Phase
  <2>. QED
    BY <1>1, <2>2, TreeStays DEF KeepsTree
<1>. QED
  BY <1>2, <1>3, LoadEffect

LEMMA WriteJournalBackKeeps ==
    ASSUME TypeInv, TrustInv, TreeInv, NEW r \in Runs, WriteJournalBack(r)
    PROVE  KeepsTree(r)
<1>1. files' = files /\ run[r].todo = Files
  BY WriteJournalBackEffect DEF TreeInv, Phase
<1>2. /\ run'[r].pc = "forget" /\ run'[r].todo = Files /\ dir'.journal # "none"
      /\ dir'.record = dir.record /\ dir'.backup = dir.backup
  BY <1>1, WriteJournalBackEffect DEF Goes, DirIs
<1>3. Phase(r)'
  BY <1>2 DEF Phase
<1>4. BackupsNeededDamaged' = BackupsNeededDamaged
  BY <1>1, <1>2 DEF BackupsNeededDamaged, NeededBackups
<1>. QED
  BY <1>1, <1>2, <1>3, <1>4, FilesStay DEF KeepsTree, TreeInv, UntouchedIsStock, RecordIsTrue, BackupsAreThere

LEMMA ForgetRecordKeeps ==
    ASSUME TypeInv, TrustInv, TreeInv, NEW r \in Runs, ForgetRecord(r)
    PROVE  KeepsTree(r)
<1>1. files' = files /\ run[r].todo = Files /\ dir.journal # "none"
  BY ForgetRecordEffect DEF TreeInv, Phase
<1>2. /\ run'[r].pc = "restore" /\ run'[r].todo = Files /\ dir'.journal # "none"
      /\ ~dir'.record /\ dir'.backup = dir.backup
  BY <1>1, ForgetRecordEffect DEF Goes, DirIs
<1>3. Phase(r)'
  BY <1>2 DEF Phase
<1>4. BackupsNeededDamaged' = BackupsNeededDamaged
  BY <1>1, <1>2 DEF BackupsNeededDamaged, NeededBackups
<1>. QED
  BY <1>1, <1>2, <1>3, <1>4, FilesStay DEF KeepsTree, TreeInv, UntouchedIsStock, RecordIsTrue, BackupsAreThere

LEMMA RestoreFileKeeps ==
    ASSUME TypeInv, TrustInv, TreeInv, NEW r \in Runs, RestoreFile(r)
    PROVE  KeepsTree(r)
<1>1. /\ run[r].pc = "restore" /\ (DropIsSafe => ~dir.record)
      /\ \A f \in Files \ run[r].todo : files[f] = "stock"
  BY RestoreFileEffect DEF TreeInv, Phase
<1>2. files \in [Files -> FileStates] /\ run[r].todo \in SUBSET Files
  BY TypesUnfolded DEF TypeInv, RunStates
<1>3. CASE run[r].todo = {} /\ Goes(r, "sweep") /\ UNCHANGED <<files, dir>>
  <2>1. SameTree /\ AllAre("stock")' /\ run'[r].pc = "sweep"
    BY <1>1, <1>3 DEF SameTree, AllAre, Goes
  <2>2. Phase(r)'
    BY <1>1, <2>1 DEF Phase, SameTree
  <2>. QED
    BY <2>1, <2>2, TreeStays DEF KeepsTree
<1>4. CASE (Goes(r, "inconsistent") \/ Goes(r, "failed")) /\ UNCHANGED files /\ Unlocks
  <2>1. SameTree
    BY <1>4 DEF SameTree, Unlocks, RestOfDir, DirIs
  <2>. QED
    BY <1>4, <2>1, LeavesTree, WhereTheyAre DEF Goes
<1>5. ASSUME NEW f \in run[r].todo, GoesFor(r, "restore", run[r].todo \ {f}),
             files' = [files EXCEPT ![f] = "stock"], UNCHANGED dir,
             f \in Created => run[r].todo \cap Replaced = {}
      PROVE  KeepsTree(r)
  <2>1. run'[r].pc = "restore" /\ run'[r].todo = run[r].todo \ {f} /\ dir' = dir
    BY <1>5 DEF GoesFor
  <2>2. files'[f] = "stock" /\ \A g \in Files : g # f => files'[g] = files[g]
    BY <1>2, <1>5
  <2>3. NoneOdd
    BY <1>1, HolderTrusts, WhereTheyAre
  <2>4. Phase(r)'
    <3>1. \A g \in Files \ run'[r].todo : files'[g] = "stock"
      BY <1>1, <2>1, <2>2
    <3>. QED
      BY <1>1, <2>1, <3>1 DEF Phase
  <2>5. UntouchedIsStock'
    BY <2>1, <2>2, <2>3 DEF TreeInv, UntouchedIsStock, AllAre
  <2>6. RecordIsTrue'
    BY <1>1, <2>1 DEF RecordIsTrue
  <2>7. BackupsAreThere'
    <3>1. \A g \in Replaced : files'[g] # "stock" => files[g] # "stock"
      BY <1>2, <2>2 DEF Files
    <3>2. \A g \in Replaced : files[g] # "stock" => dir.backup[g] = "good"
      BY <2>3 DEF TreeInv, BackupsAreThere, BackupsNeededDamaged, NeededBackups
    <3>. QED
      BY <2>1, <3>1, <3>2 DEF BackupsAreThere, BackupsNeededDamaged, NeededBackups
  <2>8. Loadable'
    <3>1. Created \subseteq Files /\ Replaced \subseteq Files /\ Created \cap Replaced = {}
      BY InstallerAssumption DEF Files
    <3>2. CASE f \in Created
      BY <1>1, <1>5, <2>2, <3>1, <3>2 DEF Loadable
    <3>3. CASE f \notin Created
      BY <2>2, <3>1, <3>3 DEF TreeInv, Loadable
    <3>. QED
      BY <3>2, <3>3
  <2>. QED
    BY <2>4, <2>5, <2>6, <2>7, <2>8 DEF KeepsTree
<1>. QED
  BY <1>3, <1>4, <1>5, RestoreFileEffect

LEMMA SweepKeeps ==
    ASSUME TypeInv, TrustInv, TreeInv, NEW r \in Runs, Sweep(r)
    PROVE  KeepsTree(r)
<1>1. files' = files /\ ~temps' /\ AllAre("stock") /\ (DropIsSafe => ~dir.record)
  BY SweepEffect DEF TreeInv, Phase
<1>2. SameTree
  BY SweepEffect DEF SameTree, Unlocks, RestOfDir, DirIs
<1>3. CASE Goes(r, "remove")
  <2>1. Phase(r)'
    BY <1>1, <1>2, <1>3, FilesStay DEF Phase, SameTree, Goes
  <2>. QED
    BY <1>2, <2>1, TreeStays DEF KeepsTree
<1>4. CASE Goes(r, "inconsistent") \/ Goes(r, "failed")
  BY <1>2, <1>4, LeavesTree, WhereTheyAre DEF Goes
<1>. QED
  BY <1>3, <1>4, SweepEffect

LEMMA RemoveBackupsKeeps ==
    ASSUME TypeInv, TrustInv, TreeInv, NEW r \in Runs, RemoveBackups(r)
    PROVE  KeepsTree(r)
<1>1. files' = files /\ temps' = temps /\ ~temps /\ AllAre("stock")
  BY RemoveBackupsEffect DEF TreeInv, Phase
<1>2. run'[r].pc = "removeJournal" /\ ~dir'.record /\ AllAre("stock")'
  BY <1>1, FilesStay, RemoveBackupsEffect DEF Goes, DirIs
<1>3. Phase(r)'
  BY <1>1, <1>2 DEF Phase
<1>. QED
  BY <1>2, <1>3, StockAfter DEF KeepsTree, RecordIsTrue

LEMMA RemoveJournalKeeps ==
    ASSUME TypeInv, TrustInv, TreeInv, NEW r \in Runs, RemoveJournal(r)
    PROVE  KeepsTree(r)
<1>1. files' = files /\ temps' = temps /\ ~temps /\ AllAre("stock") /\ ~dir.record
  BY RemoveJournalEffect DEF TreeInv, Phase
<1>2. run'[r].pc = "removeDir" /\ ~dir'.record /\ AllAre("stock")'
  BY <1>1, FilesStay, RemoveJournalEffect DEF Goes, DirIs
<1>3. Phase(r)'
  BY <1>1, <1>2 DEF Phase
<1>. QED
  BY <1>2, <1>3, StockAfter DEF KeepsTree, RecordIsTrue

LEMMA RemoveDirKeeps ==
    ASSUME TypeInv, TrustInv, TreeInv, NEW r \in Runs, RemoveDir(r)
    PROVE  KeepsTree(r)
<1>1. files' = files /\ AllAre("stock")
  BY RemoveDirEffect DEF TreeInv, Phase
<1>2. run'[r].pc \in {"rolledBack", "uninstalled"} /\ ~dir'.record /\ AllAre("stock")'
  BY <1>1, FilesStay, RemoveDirEffect DEF Goes, DirIs
<1>3. Phase(r)'
  BY <1>2, WhereTheyAre DEF Phase
<1>. QED
  BY <1>2, <1>3, StockAfter DEF KeepsTree, RecordIsTrue

LEMMA FailKeeps ==
    ASSUME TypeInv, TrustInv, TreeInv, NEW r \in Runs, Fail(r)
    PROVE  KeepsTree(r)
<1>1. SameTree
  BY FailEffect DEF SameTree, Unlocks, RestOfDir, DirIs
<1>2. CASE GoesFor(r, "restore", Files) /\ run[r].pc \in RollsBack
  <2>1. run[r].pc = "dropJournal" => ~DropIsSafe
    BY FailEffect DEF StateGone, DropIsSafe
  <2>2. DropIsSafe => ~dir.record
    BY <1>2, <2>1 DEF RollsBack, TreeInv, Phase
  <2>3. Phase(r)'
    BY <1>1, <1>2, <2>2 DEF Phase, SameTree, GoesFor
  <2>. QED
    BY <1>1, <2>3, TreeStays DEF KeepsTree
<1>3. CASE Goes(r, "inconsistent") \/ Goes(r, "failed")
  BY <1>1, <1>3, LeavesTree, WhereTheyAre DEF Goes
<1>. QED
  BY <1>2, <1>3, FailEffect

LEMMA KillKeeps ==
    ASSUME TypeInv, TrustInv, TreeInv, NEW r \in Runs, Kill(r)
    PROVE  KeepsTree(r)
<1>1. SameTree /\ run'[r].pc = "killed"
  BY KillEffect DEF SameTree, Goes
<1>. QED
  BY <1>1, LeavesTree, WhereTheyAre

LEMMA HolderKeepsTree ==
    ASSUME TypeInv, TrustInv, TreeInv, NEW r \in Runs, Moves(r), run[r].pc \in UnderLock
    PROVE  KeepsTree(r)
<1>1. CASE Takes(r)
  BY <1>1, WhereTheyAre DEF Takes, MakeStateDir, Create, Inspect, MoveAside, Judge, At
<1>2. CASE Installs(r)
  <2>1. ~ReadRecord(r) /\ ~ReadJournal(r) /\ ~Plan(r)
    BY WhereTheyAre DEF ReadRecord, ReadJournal, Plan, At
  <2>. QED
    BY <1>2, <2>1, RecheckKeeps, CleanKeeps, WriteJournalKeeps, CopyBackupKeeps, VerifyBackupKeeps,
       WriteFileKeeps, WriteRecordKeeps, DropJournalKeeps, ReleaseKeeps DEF Installs
<1>3. CASE Uninstalls(r)
  <2>1. ~Find(r)
    BY WhereTheyAre DEF Find, At
  <2>. QED
    BY <1>3, <2>1, LoadLeftoverKeeps, LoadKeeps, WriteJournalBackKeeps, ForgetRecordKeeps DEF Uninstalls
<1>4. CASE Restores(r)
  BY <1>4, RestoreFileKeeps, SweepKeeps, RemoveBackupsKeeps, RemoveJournalKeeps, RemoveDirKeeps DEF Restores
<1>5. CASE Fail(r)
  BY <1>5, FailKeeps
<1>6. CASE Kill(r)
  BY <1>6, KillKeeps
<1>7. CASE \E c \in Commands : Start(r, c)
  BY <1>7, WhereTheyAre DEF Start, At
<1>. QED
  BY <1>1, <1>2, <1>3, <1>4, <1>5, <1>6, <1>7 DEF Moves, Step

LEMMA NoPhaseAfter ==
    ASSUME NEW r, run'[r].pc \notin UnderLock \ {"recheck", "load"}
    PROVE  Phase(r)'
BY WhereTheyAre DEF Phase

LEMMA TreeStep ==
    ASSUME TypeInv, TrustInv, TreeInv, AtMostOneHolder, [Next]_vars
    PROVE  TreeInv'
<1>1. ASSUME NEW r \in Runs, Moves(r), run[r].pc \in UnderLock
      PROVE  TreeInv'
  <2>1. KeepsTree(r)
    BY <1>1, HolderKeepsTree
  <2>2. \A s \in Runs : s # r => Phase(s)'
    BY <1>1, OthersStay, NoPhaseAfter DEF AtMostOneHolder
  <2>. QED
    BY <2>1, <2>2 DEF KeepsTree, TreeInv
<1>2. ASSUME NEW r \in Runs, Moves(r), run[r].pc \notin UnderLock
      PROVE  TreeInv'
  <2>1. Waits(r)
    BY <1>2, OnlyTheHolderChanges
  <2>2. Phase(r)'
    BY <2>1, NoPhaseAfter DEF Waits
  <2>3. \A s \in Runs : s # r => Phase(s)'
    BY <1>2, <2>1, OthersStay, PhaseStays DEF Waits, TreeInv
  <2>. QED
    BY <2>1, <2>2, <2>3, TreeStays DEF Waits, TreeInv
<1>3. ASSUME NEW f \in Files, Tamper(f)
      PROVE  TreeInv'
  <2>1. files \in [Files -> FileStates]
    BY TypesUnfolded DEF TypeInv
  <2>2. /\ files'[f] = "odd" /\ dir' = dir
        /\ \A g \in Files : g # f => files'[g] = files[g]
    BY <1>3, <2>1 DEF Tamper
  <2>3. ~NoneOdd'
    BY <2>2 DEF NoneOdd
  <2>4. Loadable'
    BY <2>2 DEF TreeInv, Loadable, Files
  <2>5. \A r \in Runs : Phase(r)'
    BY <1>3, NoPhaseAfter, WhereTheyAre DEF Tamper
  <2>. QED
    BY <2>3, <2>4, <2>5 DEF TreeInv, UntouchedIsStock, RecordIsTrue, BackupsAreThere
<1>4. CASE UNCHANGED vars
  <2>1. SameTree /\ temps' = temps /\ run' = run
    BY <1>4 DEF vars, SameTree
  <2>. QED
    BY <2>1, TreeStays, PhaseStays DEF TreeInv
<1>. QED
  BY <1>1, <1>2, <1>3, <1>4 DEF Next, Moves

LEMMA TreeInit == Init => TreeInv
<1>. SUFFICES ASSUME Init
              PROVE  TreeInv
  OBVIOUS
<1>1. AllAre("stock") /\ ~dir.record /\ \A r \in Runs : run[r].pc = "idle"
  BY DEF Init, AllAre, NoDir
<1>2. UntouchedIsStock /\ RecordIsTrue /\ BackupsAreThere /\ Loadable
  BY <1>1 DEF AllAre, UntouchedIsStock, RecordIsTrue, BackupsAreThere, BackupsNeededDamaged, NeededBackups,
       Loadable, Files
<1>3. \A r \in Runs : Phase(r)
  BY <1>1, NoPhase, WhereTheyAre
<1>. QED
  BY <1>2, <1>3 DEF TreeInv

LEMMA OneIsOne ==
    ASSUME OneAtATime
    PROVE  AtMostOneHolder
<1>. DEFINE H == {r \in Runs : run[r].pc \in UnderLock}
<1>. SUFFICES ASSUME NEW r \in H, NEW s \in H, r # s
              PROVE  FALSE
  BY DEF AtMostOneHolder
<1>1. IsFiniteSet(H) /\ Cardinality(H) <= 1
  BY FS_Subset, InstallerAssumption DEF OneAtATime
<1>2. Cardinality({r} \cup {s}) = 2
  <2>1. IsFiniteSet({r}) /\ Cardinality({r}) = 1
    BY FS_Singleton
  <2>2. s \notin {r}
    OBVIOUS
  <2>3. Cardinality({r} \cup {s}) = Cardinality({r}) + 1
    BY <2>1, <2>2, FS_AddElement
  <2>. QED
    BY <2>1, <2>3
<1>3. {r} \cup {s} \subseteq H
  OBVIOUS
<1>4. Cardinality({r} \cup {s}) <= Cardinality(H) /\ Cardinality(H) \in Nat
  <2>. HIDE DEF H
  <2>. QED
    BY <1>1, <1>3, FS_Subset, FS_CardinalityType
<1>. HIDE DEF H
<1>. QED
  BY <1>1, <1>2, <1>4

LEMMA TreeKept == Spec /\ []OneAtATime => []TreeInv
<1>1. OneAtATime /\ TypeInv /\ TrustInv /\ TreeInv /\ [Next]_vars => TreeInv'
  BY TreeStep, OneIsOne
<1>. QED
  BY <1>1, TreeInit, Typed, Trusted, PTL DEF Spec

(***************************************************************************)
(* apply.ts:8-13: for any files, and wherever a run fails or is killed,    *)
(* a patched file never requires a file that is not there.                 *)
(***************************************************************************)
THEOREM AlwaysLoadable == Spec /\ []OneAtATime => []Loadable
<1>1. TreeInv => Loadable
  BY DEF TreeInv
<1>. QED
  BY <1>1, TreeKept, PTL

(***************************************************************************)
(* apply.ts:7-8, 22-25: unless dropping the journal fails after the record *)
(* is written, uninstall can bring back every tree a run left, stopped     *)
(* anywhere: a record is over written files, and every file that is not    *)
(* stock has a backup that can be trusted.                                 *)
(***************************************************************************)
THEOREM AlwaysRecovers ==
    ASSUME "dropJournal" \notin MayFail
    PROVE  Spec /\ []OneAtATime => []UninstallRecovers
<1>1. TypeInv /\ TreeInv => UninstallRecovers
  <2>. SUFFICES ASSUME TypeInv, TreeInv, NoneOdd
                PROVE  \/ Status = "stock"
                       \/ Status \in {"installed", "interrupted"} /\ BackupsNeededDamaged = {}
    BY DEF UninstallRecovers, NoneOdd
  <2>1. BackupsNeededDamaged = {}
    BY DEF TreeInv, BackupsAreThere
  <2>2. CASE dir.record
    <3>1. AllAre("written")
      BY <2>2 DEF TreeInv, RecordIsTrue, DropIsSafe
    <3>. QED
      BY <2>1, <2>2, <3>1 DEF Status
  <2>3. CASE ~dir.record /\ dir.journal # "none"
    BY <2>1, <2>3 DEF Status
  <2>4. CASE ~dir.record /\ dir.journal = "none"
    <3>1. AllAre("stock")
      BY <2>4 DEF TreeInv, UntouchedIsStock
    <3>2. ~SeamWithoutRecord /\ StockMismatches = {}
      BY <3>1 DEF AllAre, SeamWithoutRecord, StockMismatches, Files
    <3>. QED
      BY <2>4, <3>2 DEF Status
  <2>. QED
    BY <2>2, <2>3, <2>4
<1>. QED
  BY <1>1, Typed, TreeKept, PTL

(* Which step ends in which answer. *)
LEMMA WhoAnswers ==
    ASSUME TypeInv, NEW r \in Runs, Moves(r)
    PROVE  /\ run'[r].pc = "installed" => Release(r)
           /\ run'[r].pc = "alreadyInstalled" => ReadRecord(r)
           /\ run'[r].pc \in {"uninstalled", "rolledBack"} => RemoveDir(r)
<1>. DEFINE Silent == run'[r].pc \notin {"installed", "alreadyInstalled", "uninstalled", "rolledBack"}
<1>. USE DEF Goes, GoesFor
<1>1. CASE Takes(r)
  <2>1. CASE MakeStateDir(r)
    <3>1. Silent
      BY <2>1, MakeStateDirEffect
    <3>. QED
      BY <3>1
  <2>2. CASE Create(r)
    <3>1. Silent
      BY <2>2, CreateEffect DEF Locked
    <3>. QED
      BY <3>1
  <2>3. CASE Inspect(r)
    <3>1. Silent
      BY <2>3, InspectEffect
    <3>. QED
      BY <3>1
  <2>4. CASE MoveAside(r)
    <3>1. Silent
      BY <2>4, MoveAsideEffect
    <3>. QED
      BY <3>1
  <2>5. CASE Judge(r)
    <3>1. Silent
      BY <2>5, JudgeEffect
    <3>. QED
      BY <3>1
  <2>. QED
    BY <1>1, <2>1, <2>2, <2>3, <2>4, <2>5 DEF Takes
<1>2. CASE Installs(r)
  <2>1. CASE ReadRecord(r)
    BY <2>1, ReadRecordEffect
  <2>2. CASE ReadJournal(r)
    <3>1. Silent
      BY <2>2, ReadJournalEffect
    <3>. QED
      BY <3>1
  <2>3. CASE Plan(r)
    <3>1. Silent
      BY <2>3, PlanEffect
    <3>. QED
      BY <3>1
  <2>4. CASE Recheck(r)
    <3>1. Silent
      BY <2>4, RecheckEffect
    <3>. QED
      BY <3>1
  <2>5. CASE Clean(r)
    <3>1. Silent
      BY <2>5, CleanEffect
    <3>. QED
      BY <3>1
  <2>6. CASE WriteJournal(r)
    <3>1. Silent
      BY <2>6, WriteJournalEffect
    <3>. QED
      BY <3>1
  <2>7. CASE CopyBackup(r)
    <3>1. Silent
      BY <2>7, CopyBackupEffect
    <3>. QED
      BY <3>1
  <2>8. CASE VerifyBackup(r)
    <3>1. Silent
      BY <2>8, VerifyBackupEffect
    <3>. QED
      BY <3>1
  <2>9. CASE WriteFile(r)
    <3>1. Silent
      BY <2>9, WriteFileEffect
    <3>. QED
      BY <3>1
  <2>10. CASE WriteRecord(r)
    <3>1. Silent
      BY <2>10, WriteRecordEffect
    <3>. QED
      BY <3>1
  <2>11. CASE DropJournal(r)
    <3>1. Silent
      BY <2>11, DropJournalEffect
    <3>. QED
      BY <3>1
  <2>12. CASE Release(r)
    BY <2>12, ReleaseEffect
  <2>. QED
    BY <1>2, <2>1, <2>2, <2>3, <2>4, <2>5, <2>6, <2>7, <2>8, <2>9, <2>10, <2>11, <2>12 DEF Installs
<1>3. CASE Uninstalls(r)
  <2>1. CASE Find(r)
    <3>1. Silent
      BY <2>1, FindEffect
    <3>. QED
      BY <3>1
  <2>2. CASE LoadLeftover(r)
    <3>1. Silent
      BY <2>2, LoadLeftoverEffect
    <3>. QED
      BY <3>1
  <2>3. CASE Load(r)
    <3>1. Silent
      BY <2>3, LoadEffect
    <3>. QED
      BY <3>1
  <2>4. CASE WriteJournalBack(r)
    <3>1. Silent
      BY <2>4, WriteJournalBackEffect
    <3>. QED
      BY <3>1
  <2>5. CASE ForgetRecord(r)
    <3>1. Silent
      BY <2>5, ForgetRecordEffect
    <3>. QED
      BY <3>1
  <2>. QED
    BY <1>3, <2>1, <2>2, <2>3, <2>4, <2>5 DEF Uninstalls
<1>4. CASE Restores(r)
  <2>1. CASE RestoreFile(r)
    <3>1. Silent
      BY <2>1, RestoreFileEffect
    <3>. QED
      BY <3>1
  <2>2. CASE Sweep(r)
    <3>1. Silent
      BY <2>2, SweepEffect
    <3>. QED
      BY <3>1
  <2>3. CASE RemoveBackups(r)
    <3>1. Silent
      BY <2>3, RemoveBackupsEffect
    <3>. QED
      BY <3>1
  <2>4. CASE RemoveJournal(r)
    <3>1. Silent
      BY <2>4, RemoveJournalEffect
    <3>. QED
      BY <3>1
  <2>5. CASE RemoveDir(r)
    BY <2>5, RemoveDirEffect
  <2>. QED
    BY <1>4, <2>1, <2>2, <2>3, <2>4, <2>5 DEF Restores
<1>5. CASE Fail(r)
  BY <1>5, FailEffect
<1>6. CASE Kill(r)
  BY <1>6, KillEffect
<1>7. CASE \E c \in Commands : Start(r, c)
  BY <1>7, StartEffect
<1>. QED
  BY <1>1, <1>2, <1>3, <1>4, <1>5, <1>6, <1>7 DEF Moves, Step

(***************************************************************************)
(* apply.ts:16-20 and the sentences a command ends with, for any files:    *)
(* "installed" is said over written files and their record, "uninstalled"  *)
(* and "every file it had written was restored" over a stock tree without  *)
(* temp files or state directory.                                          *)
(***************************************************************************)
THEOREM AnswersHold == Spec /\ []OneAtATime => AnswersAreTrue
<1>. DEFINE True(r) ==
              /\ Answers(r, "installed") => AllAre("written")' /\ dir'.record /\ dir'.journal = "none"
              /\ Answers(r, "alreadyInstalled") => AllAre("written")' /\ dir'.record
              /\ Answers(r, "uninstalled") \/ Answers(r, "rolledBack") =>
                   AllAre("stock")' /\ ~temps' /\ ~dir'.exists
<1>1. TypeInv /\ TreeInv /\ [Next]_vars => [\A r \in Runs : True(r)]_vars
  <2>. SUFFICES ASSUME TypeInv, TreeInv, Next, NEW r \in Runs
                PROVE  True(r)
    OBVIOUS
  <2>1. CASE Release(r)
    <3>1. files' = files /\ AllAre("written") /\ dir.record /\ dir.journal = "none"
      BY <2>1, ReleaseEffect DEF TreeInv, Phase
    <3>2. run'[r].pc = "installed" /\ dir'.record = dir.record /\ dir'.journal = dir.journal
      BY <2>1, ReleaseEffect DEF Goes, Unlocks, RestOfDir, DirIs
    <3>. QED
      BY <3>1, <3>2, FilesStay DEF Answers
  <2>2. CASE ReadRecord(r)
    <3>1. files' = files /\ dir' = dir /\ run'[r].pc \in {"readJournal", "inconsistent", "alreadyInstalled"}
      BY <2>2, ReadRecordEffect DEF Goes
    <3>2. run'[r].pc = "alreadyInstalled" => dir.record /\ AllAre("written")
      BY <2>2, ReadRecordEffect DEF Goes
    <3>. QED
      BY <3>1, <3>2, FilesStay DEF Answers
  <2>3. CASE RemoveDir(r)
    <3>1. files' = files /\ temps' = temps /\ ~temps /\ AllAre("stock")
      BY <2>3, RemoveDirEffect DEF TreeInv, Phase
    <3>2. run'[r].pc \in {"rolledBack", "uninstalled"} /\ ~dir'.exists
      BY <2>3, RemoveDirEffect DEF Goes, DirIs
    <3>. QED
      BY <3>1, <3>2, FilesStay DEF Answers
  <2>4. CASE ~Release(r) /\ ~ReadRecord(r) /\ ~RemoveDir(r)
    <3>1. CASE Moves(r)
      BY <3>1, <2>4, WhoAnswers DEF Answers
    <3>2. CASE ~Moves(r)
      <4>1. run'[r] = run[r]
        BY <3>2, OthersStay DEF Next, Moves, Tamper
      <4>. QED
        BY <4>1 DEF Answers
    <3>. QED
      BY <3>1, <3>2
  <2>. QED
    BY <2>1, <2>2, <2>3, <2>4
<1>. QED
  BY <1>1, Typed, TreeKept, PTL DEF Spec, AnswersAreTrue

(***************************************************************************)
(* boot.ts:25-30, status.ts:205-221: over a tree the installer left, for   *)
(* any files, failures and kills, a process runs the engine only over the  *)
(* seam whole, never falls back to n8n's own loop while its hook file is   *)
(* listed, and does what status said.                                      *)
(***************************************************************************)
THEOREM BootsTrue == Spec /\ []OneAtATime => []BootsAsStatusSays
<1>1. TypeInv /\ TreeInv => BootsAsStatusSays
  <2>. SUFFICES ASSUME TypeInv, TreeInv, NEW env \in Environments
                PROVE  /\ BootOutcome(env) = "engine" /\ NoneOdd => AllAre("written")
                       /\ env.hook /\ env.engine # "unset" => BootOutcome(env) # "loop"
                       /\ Status \in {"stock", "installed"} /\ env.knobs /\ ~Mistyped(env)
                            => StatusSays(env) \in {BootOutcome(env), "none"}
    BY DEF BootsAsStatusSays, NoneOdd
  <2>. env.engine \in {"unset", "libpetri", "other"} /\ env.preload \in BOOLEAN /\ env.hook \in BOOLEAN
       /\ env.knobs \in BOOLEAN
    BY DEF Environments
  <2>1. ASSUME BootOutcome(env) = "engine", NoneOdd
        PROVE  AllAre("written")
    <3>1. HasSeam /\ CoreIsTrusted
      BY <2>1 DEF BootOutcome, PreloadRefuses, Requested, Mistyped
    <3>2. CASE dir.record
      BY <3>1, <3>2 DEF CoreIsTrusted
    <3>3. CASE ~dir.record
      <4>1. AllAre("stock")
        BY <2>1, <3>1, <3>3 DEF CoreIsTrusted, TreeInv, UntouchedIsStock
      <4>. QED
        BY <3>1, <4>1, IndexAssumption DEF HasSeam, AllAre, Files
    <3>. QED
      BY <3>2, <3>3
  <2>2. env.hook /\ env.engine # "unset" => BootOutcome(env) # "loop"
    BY DEF BootOutcome, HookRefuses, Requested, Mistyped
  <2>3. ASSUME Status \in {"stock", "installed"}, env.knobs, ~Mistyped(env)
        PROVE  StatusSays(env) \in {BootOutcome(env), "none"}
    <3>1. CASE Status = "installed"
      <4>1. dir.record /\ AllAre("written")
        BY <3>1 DEF Status
      <4>2. HasSeam /\ CoreIsTrusted
        BY <4>1, IndexAssumption DEF HasSeam, CoreIsTrusted, AllAre, Files
      <4>. QED
        BY <2>3, <3>1, <4>2 DEF StatusSays, BootOutcome, PreloadRefuses, HookRefuses, Requested, Mistyped
    <3>2. CASE Status = "stock"
      <4>1. AllAre("stock")
        BY <3>2 DEF Status, StockMismatches, AllAre
      <4>2. ~HasSeam
        BY <4>1, IndexAssumption DEF HasSeam, AllAre, Files
      <4>. QED
        BY <2>3, <3>2, <4>2 DEF StatusSays, BootOutcome, PreloadRefuses, HookRefuses, Requested, Mistyped
    <3>. QED
      BY <2>3, <3>1, <3>2
  <2>. QED
    BY <2>1, <2>2, <2>3
<1>. QED
  BY <1>1, Typed, TreeKept, PTL

(* All of it, from what keeps the lock: at most three processes, or none killed. *)
THEOREM InstallerIsSafe ==
    ASSUME Few, "dropJournal" \notin MayFail
    PROVE  Spec => [](Loadable /\ UninstallRecovers /\ BootsAsStatusSays) /\ AnswersAreTrue
BY OneHolder, AlwaysLoadable, AlwaysRecovers, BootsTrue, AnswersHold, PTL
=============================================================================
