------------------------------ MODULE Installer ------------------------------
(***************************************************************************)
(* `n8n-libpetri install` and `uninstall` (src/install/) on one n8n-core:  *)
(* processes that race for the lock of the state directory, write files    *)
(* one at a time, fail, roll back, or are killed between any two file      *)
(* operations.  One action per file operation; reads made under the lock   *)
(* with no write between them are one action.  At the end, what a process  *)
(* of n8n that boots over the tree does, which changes nothing.            *)
(*                                                                         *)
(* A file of the seam is stock (absent, when the seam creates it), written *)
(* or odd.  There is one manifest: an install from other seams, which      *)
(* install() refuses, is not modelled.  Ports of the tree, permissions and *)
(* wording are left out.                                                   *)
(***************************************************************************)
EXTENDS Naturals, FiniteSets, Sequences

CONSTANTS Runs,          \* processes, each making one command
          Commands,      \* the commands they may make
          CreatedOrder,  \* files the seam creates, in the order they are written
          ReplacedOrder, \* stock files it replaces, in theirs
          MayFail,       \* steps whose file operation may fail
          MaxKills,      \* how many processes may be killed
          MayTamper,     \* files someone else may change while no process runs
          Index          \* the replaced file that exports setWorkflowSchedulerFactory

VARIABLES files, temps, dir, run
vars == <<files, temps, dir, run>>

Created == {CreatedOrder[i] : i \in DOMAIN CreatedOrder}
Replaced == {ReplacedOrder[i] : i \in DOMAIN ReplacedOrder}
Files == Created \cup Replaced

ASSUME InstallerAssumption ==
    /\ IsFiniteSet(Runs) /\ "none" \notin Runs
    /\ CreatedOrder \in Seq(Created) /\ ReplacedOrder \in Seq(Replaced)
    /\ Created \cap Replaced = {}
    /\ MaxKills \in Nat

ASSUME IndexAssumption == Index \in Replaced

(* The first of the files left to do. *)
FirstOf(order, todo) == order[CHOOSE i \in DOMAIN order :
                                order[i] \in todo /\ \A j \in 1 .. (i - 1) : order[j] \notin todo]
NoRun == "none"
Attempts == 3

Writing == {"write", "restore"}
Failable == {"journal", "copy", "verify", "write", "record", "dropJournal", "restore", "journalBack", "forget"}
Active == {"readRecord", "readJournal", "plan", "find", "mkdir", "create", "inspect", "aside", "judge",
           "recheck", "clean", "release", "load", "sweep",
           "remove", "removeJournal", "removeDir"} \cup Failable
Ended == {"alreadyInstalled", "installed", "rolledBack", "notInstalled", "uninstalled",
          "refused", "inconsistent", "failed", "killed"}

(* The state directory: install.json, journal.json, lock, the backups, the locks moved aside. *)
NoDir == [exists |-> FALSE, record |-> FALSE, journal |-> "none", lock |-> NoRun,
          backup |-> [f \in Replaced |-> "none"], aside |-> [r \in Runs |-> NoRun]]

AllAre(content) == \A f \in Files : files[f] = content
SeamWithoutRecord == \E f \in Created : files[f] # "stock"

TypeOK ==
    /\ files \in [Files -> {"stock", "written", "odd"}]
    /\ temps \in BOOLEAN
    /\ dir \in [exists : BOOLEAN, record : BOOLEAN, journal : {"none", "install", "uninstall"},
                lock : Runs \cup {NoRun}, backup : [Replaced -> {"none", "torn", "good"}],
                aside : [Runs -> Runs \cup {NoRun}]]
    /\ run \in [Runs -> [command : Commands \cup {NoRun}, pc : {"idle"} \cup Active \cup Ended,
                         attempt : 1 .. Attempts, seen : Runs \cup {NoRun},
                         originals : SUBSET Replaced, todo : SUBSET Files]]

Init ==
    /\ files = [f \in Files |-> "stock"]
    /\ temps = FALSE
    /\ dir = NoDir
    /\ run = [r \in Runs |-> [command |-> NoRun, pc |-> "idle", attempt |-> 1, seen |-> NoRun,
                              originals |-> {}, todo |-> {}]]

At(r, pc) == run[r].pc = pc
Go(r, pc) == run' = [run EXCEPT ![r].pc = pc]
GoFor(r, pc, todo) == run' = [run EXCEPT ![r].pc = pc, ![r].todo = todo]
HoldsFiles == UNCHANGED <<files, temps>>

(* process.kill(pid, 0): a process that ended, whichever way, is gone. *)
IsGone(r) == run[r].pc \in Ended

-----------------------------------------------------------------------------
(***************************************************************************)
(* What both commands find before they ask for the lock.                   *)
(***************************************************************************)
Start(r, command) ==
    /\ At(r, "idle")
    /\ run' = [run EXCEPT ![r].command = command,
                          ![r].pc = IF command = "install" THEN "readRecord" ELSE "find"]
    /\ UNCHANGED <<files, temps, dir>>

ReadRecord(r) ==
    /\ At(r, "readRecord")
    /\ Go(r, IF ~dir.record THEN "readJournal"
             ELSE IF AllAre("written") THEN "alreadyInstalled" ELSE "inconsistent")
    /\ UNCHANGED <<files, temps, dir>>

ReadJournal(r) ==
    /\ At(r, "readJournal")
    /\ Go(r, IF dir.journal # "none" THEN "inconsistent" ELSE "plan")
    /\ UNCHANGED <<files, temps, dir>>

(* seamWithoutRecord, then planInstall: every file is the stock one. *)
StockMismatches == {f \in Files : files[f] # "stock"}

Plan(r) ==
    /\ At(r, "plan")
    /\ Go(r, IF SeamWithoutRecord THEN "inconsistent"
             ELSE IF StockMismatches # {} THEN "refused" ELSE "mkdir")
    /\ UNCHANGED <<files, temps, dir>>

Find(r) ==
    /\ At(r, "find")
    /\ Go(r, IF dir.exists THEN "mkdir" ELSE IF SeamWithoutRecord THEN "inconsistent" ELSE "notInstalled")
    /\ UNCHANGED <<files, temps, dir>>

-----------------------------------------------------------------------------
(***************************************************************************)
(* acquireLock: three attempts to create the lock; a lock whose holder is  *)
(* gone is moved aside, and put back when what moved is another lock.      *)
(***************************************************************************)
MakeStateDir(r) ==
    /\ At(r, "mkdir")
    /\ dir' = [dir EXCEPT !.exists = TRUE]
    /\ Go(r, "create")
    /\ HoldsFiles

LockedUnchecked(r) == IF run[r].command = "install" THEN "clean" ELSE "load"
Locked(r) == IF run[r].command = "install" THEN "recheck" ELSE "load"

Create(r) ==
    /\ At(r, "create")
    /\ \/ ~dir.exists /\ Go(r, "failed") /\ UNCHANGED dir
       \/ dir.exists /\ dir.lock = NoRun /\ Go(r, Locked(r)) /\ dir' = [dir EXCEPT !.lock = r]
       \/ dir.exists /\ dir.lock # NoRun /\ Go(r, "inspect") /\ UNCHANGED dir
    /\ HoldsFiles

TryAgain(r) ==
    IF run[r].attempt = Attempts THEN Go(r, "refused")
    ELSE run' = [run EXCEPT ![r].pc = "create", ![r].attempt = @ + 1]

(* readLock and holderState. *)
IsStale(holder) == IsGone(holder)

Inspect(r) ==
    /\ At(r, "inspect")
    /\ \/ dir.lock = NoRun /\ TryAgain(r)
       \/ dir.lock # NoRun /\ ~IsStale(dir.lock) /\ Go(r, "refused")
       \/ dir.lock # NoRun /\ IsStale(dir.lock) /\ run' = [run EXCEPT ![r].pc = "aside", ![r].seen = dir.lock]
    /\ UNCHANGED <<files, temps, dir>>

MoveAside(r) ==
    /\ At(r, "aside")
    /\ \/ dir.lock = NoRun /\ TryAgain(r) /\ UNCHANGED dir
       \/ dir.lock # NoRun /\ Go(r, "judge") /\ dir' = [dir EXCEPT !.lock = NoRun, !.aside[r] = dir.lock]
    /\ HoldsFiles

Judge(r) ==
    /\ At(r, "judge")
    /\ \/ dir.aside[r] = NoRun /\ Go(r, "failed") /\ UNCHANGED dir
       \/ dir.aside[r] # NoRun /\ dir.aside[r] = run[r].seen /\ TryAgain(r)
            /\ dir' = [dir EXCEPT !.aside[r] = NoRun]
       \/ dir.aside[r] # NoRun /\ dir.aside[r] # run[r].seen /\ Go(r, "refused")
            /\ dir' = [dir EXCEPT !.lock = IF @ = NoRun THEN dir.aside[r] ELSE @, !.aside[r] = NoRun]
    /\ HoldsFiles

(* release: unlinks the lock by its name, whoever holds it. *)
Released == [dir EXCEPT !.lock = NoRun]

-----------------------------------------------------------------------------
(***************************************************************************)
(* install, under the lock.                                                *)
(***************************************************************************)
Recheck(r) ==
    /\ At(r, "recheck")
    /\ IF dir.record \/ dir.journal # "none" THEN Go(r, "refused") /\ dir' = Released
                                             ELSE Go(r, "clean") /\ UNCHANGED dir
    /\ HoldsFiles

(* What a run killed before its journal left: backups, temp files, locks moved aside. *)
Clean(r) ==
    /\ At(r, "clean")
    /\ IF dir.exists
         THEN /\ dir' = [dir EXCEPT !.backup = NoDir.backup, !.aside = NoDir.aside]
              /\ temps' = FALSE
              /\ Go(r, "journal")
         ELSE Go(r, "failed") /\ UNCHANGED <<dir, temps>>
    /\ UNCHANGED files

WriteJournal(r) ==
    /\ At(r, "journal")
    /\ dir.exists
    /\ dir' = [dir EXCEPT !.journal = "install"]
    /\ GoFor(r, "copy", Replaced)
    /\ HoldsFiles

(* copyFileSync is not atomic: until it is verified a backup may be half a file. *)
CopyBackup(r) ==
    /\ At(r, "copy")
    /\ IF run[r].todo = {} THEN GoFor(r, "write", Files) /\ UNCHANGED dir
       ELSE /\ dir' = [dir EXCEPT !.backup[FirstOf(ReplacedOrder, run[r].todo)] = "torn"]
            /\ run' = [run EXCEPT ![r].pc = "verify"]
    /\ HoldsFiles

VerifyBackup(r) ==
    /\ At(r, "verify")
    /\ LET f == FirstOf(ReplacedOrder, run[r].todo)
       IN IF files[f] = "stock"
            THEN /\ dir' = [dir EXCEPT !.backup[f] = "good"]
                 /\ run' = [run EXCEPT ![r].pc = "copy", ![r].todo = @ \ {f}, ![r].originals = @ \cup {f}]
            ELSE GoFor(r, "restore", Files) /\ UNCHANGED dir
    /\ HoldsFiles

(* Created files first: the replaced ones require them. *)
WriteOrderReplacedFirst == ReplacedOrder \o CreatedOrder
WriteOrder == CreatedOrder \o ReplacedOrder

WriteFile(r) ==
    /\ At(r, "write")
    /\ IF run[r].todo = {} THEN Go(r, "record") /\ UNCHANGED files
       ELSE LET f == FirstOf(WriteOrder, run[r].todo)
            IN /\ files' = [files EXCEPT ![f] = "written"]
               /\ GoFor(r, "write", run[r].todo \ {f})
    /\ UNCHANGED <<temps, dir>>

WriteRecord(r) ==
    /\ At(r, "record")
    /\ dir.exists
    /\ dir' = [dir EXCEPT !.record = TRUE]
    /\ Go(r, "dropJournal")
    /\ HoldsFiles

DropJournal(r) ==
    /\ At(r, "dropJournal")
    /\ dir' = [dir EXCEPT !.journal = "none"]
    /\ Go(r, "release")
    /\ HoldsFiles

Release(r) ==
    /\ At(r, "release")
    /\ dir' = Released
    /\ Go(r, "installed")
    /\ HoldsFiles

-----------------------------------------------------------------------------
(***************************************************************************)
(* uninstall, under the lock.                                              *)
(***************************************************************************)
(* What driftedFiles and the hash checks of a journal's files refuse. *)
NotAsLeftDrift(recorded) == {f \in Files : recorded /\ files[f] # "written"}
NotAsLeft(recorded) ==
    {f \in Files : files[f] \notin IF recorded THEN {"written"} ELSE {"written", "stock"}}

(* A backup is needed for every replaced file that is not stock now. *)
NeededBackups == {f \in Replaced : files[f] # "stock"}
BackupsNeededDamaged == {f \in NeededBackups : dir.backup[f] # "good"}

LoadLeftover(r) ==
    /\ At(r, "load")
    /\ ~dir.record /\ dir.journal = "none"
    /\ IF SeamWithoutRecord
         THEN Go(r, "inconsistent") /\ dir' = Released /\ UNCHANGED temps
         ELSE Go(r, "notInstalled") /\ dir' = NoDir /\ temps' = FALSE
    /\ UNCHANGED files

Load(r) ==
    /\ At(r, "load")
    /\ dir.record \/ dir.journal # "none"
    /\ IF NotAsLeft(dir.record) # {} \/ BackupsNeededDamaged # {}
         THEN Go(r, "inconsistent") /\ dir' = Released
         ELSE /\ run' = [run EXCEPT ![r].pc = IF dir.record THEN "journalBack" ELSE "restore",
                                    ![r].originals = NeededBackups, ![r].todo = Files]
              /\ UNCHANGED dir
    /\ HoldsFiles

WriteJournalBack(r) ==
    /\ At(r, "journalBack")
    /\ dir.exists
    /\ dir' = [dir EXCEPT !.journal = "uninstall"]
    /\ Go(r, "forget")
    /\ HoldsFiles

ForgetRecord(r) ==
    /\ At(r, "forget")
    /\ dir' = [dir EXCEPT !.record = FALSE]
    /\ Go(r, "restore")
    /\ HoldsFiles

-----------------------------------------------------------------------------
(***************************************************************************)
(* restoreStock, by an uninstall or by the rollback of an install: the     *)
(* replaced files first, then the created ones, then the temp files and a  *)
(* check of every file; and the removal of the state directory, whose      *)
(* entries go in the order of their names: backup, install.json,           *)
(* journal.json, lock.                                                     *)
(***************************************************************************)
RestoreOrder == ReplacedOrder \o CreatedOrder

GivesUp(r) == Go(r, IF run[r].command = "install" THEN "inconsistent" ELSE "failed") /\ dir' = Released

RestoreFile(r) ==
    /\ At(r, "restore")
    /\ IF run[r].todo = {} THEN Go(r, "sweep") /\ UNCHANGED <<files, dir>>
       ELSE LET f == FirstOf(RestoreOrder, run[r].todo)
            IN IF f \in Replaced /\ files[f] # "stock" /\ f \notin run[r].originals
                 THEN GivesUp(r) /\ UNCHANGED files
                 ELSE /\ files' = [files EXCEPT ![f] = "stock"]
                      /\ GoFor(r, "restore", run[r].todo \ {f})
                      /\ UNCHANGED dir
    /\ UNCHANGED temps

SweepFilesOnly(r) ==
    /\ At(r, "sweep")
    /\ IF AllAre("stock") THEN Go(r, "remove") /\ UNCHANGED dir ELSE GivesUp(r)
    /\ HoldsFiles

Sweep(r) ==
    /\ At(r, "sweep")
    /\ temps' = FALSE
    /\ IF AllAre("stock") THEN Go(r, "remove") /\ UNCHANGED dir ELSE GivesUp(r)
    /\ UNCHANGED files

RemoveBackups(r) ==
    /\ At(r, "remove")
    /\ dir' = [dir EXCEPT !.backup = NoDir.backup, !.aside = NoDir.aside, !.record = FALSE]
    /\ Go(r, "removeJournal")
    /\ HoldsFiles

RemoveJournal(r) ==
    /\ At(r, "removeJournal")
    /\ dir' = [dir EXCEPT !.journal = "none"]
    /\ Go(r, "removeDir")
    /\ HoldsFiles

RemoveDir(r) ==
    /\ At(r, "removeDir")
    /\ dir' = NoDir
    /\ Go(r, IF run[r].command = "install" THEN "rolledBack" ELSE "uninstalled")
    /\ HoldsFiles

-----------------------------------------------------------------------------
(* A file operation fails: an install rolls back, a restore gives up and keeps the journal. *)
RollsBack == {"journal", "copy", "verify", "write", "record", "dropJournal"}
StateGone(r) == ~dir.exists /\ run[r].pc \in {"journal", "copy", "record", "journalBack"}

Fail(r) ==
    /\ run[r].pc \in Failable
    /\ run[r].pc \in MayFail \/ StateGone(r)
    /\ IF run[r].pc \in RollsBack
         THEN GoFor(r, "restore", Files) /\ UNCHANGED dir
         ELSE GivesUp(r)
    /\ HoldsFiles

(* SIGKILL between two operations; a write in flight leaves its temp file. *)
Kill(r) ==
    /\ run[r].pc \in Active
    /\ Cardinality({k \in Runs : At(k, "killed")}) < MaxKills
    /\ Go(r, "killed")
    /\ \/ UNCHANGED temps
       \/ run[r].pc \in Writing /\ run[r].todo # {} /\ temps' = TRUE
    /\ UNCHANGED <<files, dir>>

Tamper(f) ==
    /\ f \in MayTamper /\ files[f] # "odd"
    /\ \A r \in Runs : run[r].pc \notin Active
    /\ files' = [files EXCEPT ![f] = "odd"]
    /\ UNCHANGED <<temps, dir, run>>

Takes(r) == MakeStateDir(r) \/ Create(r) \/ Inspect(r) \/ MoveAside(r) \/ Judge(r)
Installs(r) ==
    \/ ReadRecord(r) \/ ReadJournal(r) \/ Plan(r) \/ Recheck(r) \/ Clean(r) \/ WriteJournal(r)
    \/ CopyBackup(r) \/ VerifyBackup(r) \/ WriteFile(r) \/ WriteRecord(r) \/ DropJournal(r) \/ Release(r)
Uninstalls(r) == Find(r) \/ LoadLeftover(r) \/ Load(r) \/ WriteJournalBack(r) \/ ForgetRecord(r)
Restores(r) == RestoreFile(r) \/ Sweep(r) \/ RemoveBackups(r) \/ RemoveJournal(r) \/ RemoveDir(r)

Step(r) == Takes(r) \/ Installs(r) \/ Uninstalls(r) \/ Restores(r)

Next ==
    \/ \E r \in Runs : Step(r) \/ Fail(r) \/ Kill(r) \/ \E c \in Commands : Start(r, c)
    \/ \E f \in Files : Tamper(f)

Spec == Init /\ [][Next]_vars

-----------------------------------------------------------------------------
(* apply.ts:8-13: stopped anywhere, a patched file never requires a file that is not there. *)
Loadable ==
    (\E f \in Replaced : files[f] = "written") => \A c \in Created : files[c] # "stock"

(* status(): the state of the tree.  An odd file without a record is not a stock one. *)
Status ==
    IF dir.record THEN IF AllAre("written") THEN "installed" ELSE "modified"
    ELSE IF dir.journal # "none" THEN "interrupted"
    ELSE IF SeamWithoutRecord THEN "orphaned"
    ELSE IF StockMismatches # {} THEN "stock-unsupported" ELSE "stock"

(***************************************************************************)
(* apply.ts:7-8, 22-25: while nobody else touches a file, no run, stopped  *)
(* anywhere, leaves a tree uninstall cannot bring back: status is stock,   *)
(* or installed or interrupted with a good backup of every file it needs.  *)
(***************************************************************************)
UninstallRecovers ==
    (\A f \in Files : files[f] # "odd") =>
        \/ Status = "stock"
        \/ Status \in {"installed", "interrupted"} /\ BackupsNeededDamaged = {}

(***************************************************************************)
(* apply.ts:16-20 and the sentences a command ends with: "installed" is    *)
(* said over written files and their record, "uninstalled" and "every file *)
(* it had written was restored" over a stock tree without temp files or    *)
(* state directory.                                                        *)
(***************************************************************************)
Answers(r, answer) == run[r].pc # answer /\ run'[r].pc = answer

AnswersAreTrue ==
    [][\A r \in Runs :
         /\ Answers(r, "installed") => AllAre("written")' /\ dir'.record /\ dir'.journal = "none"
         /\ Answers(r, "alreadyInstalled") => AllAre("written")' /\ dir'.record
         /\ Answers(r, "uninstalled") \/ Answers(r, "rolledBack") =>
              AllAre("stock")' /\ ~temps' /\ ~dir'.exists]_vars

(* apply.ts:24, status.ts: a file in neither state is never written over. *)
ForeignIsKept == [][\A f \in Files : files[f] = "odd" => files'[f] = "odd"]_vars

(* lock.ts:2, 136: one install or uninstall at a time, and of two recoveries only one wins. *)
UnderLock == Active \ {"readRecord", "readJournal", "plan", "find", "mkdir", "create", "inspect", "aside", "judge"}
OneAtATime == Cardinality({r \in Runs : run[r].pc \in UnderLock}) <= 1

-----------------------------------------------------------------------------
(***************************************************************************)
(* A process of n8n started over the tree: the preload that registers the  *)
(* scheduler (n8n/boot.ts, hook/n8n-preload.mjs), the hook file that       *)
(* confirms it, and what `n8n-libpetri status` says such a process will do *)
(* (install/status.ts).                                                    *)
(*                                                                         *)
(* A boot is one step, taken while no command of the installer runs: its   *)
(* reads do not interleave with the installer's writes.  The process is    *)
(* n8n's own command on its main thread; elsewhere the preload does        *)
(* nothing.                                                                *)
(***************************************************************************)

(* N8N_EXECUTION_ENGINE, whether NODE_OPTIONS and EXTERNAL_HOOK_FILES list us, the knobs. *)
Environments == [engine : {"unset", "libpetri", "other"}, preload : BOOLEAN, hook : BOOLEAN, knobs : BOOLEAN]

Requested(env) == env.engine = "libpetri"
Mistyped(env) == env.engine = "other"

(* Patch 0002's seam, in an n8n-core that loads. *)
HasSeam == files[Index] # "stock" /\ \A f \in Created : files[f] # "stock"

(* The checks of bootFromEnv after the seam's: a run that stopped midway, a changed file. *)
CoreIsTrustedUnrecorded == dir.record => AllAre("written")
CoreIsTrusted == IF dir.record THEN AllAre("written") ELSE dir.journal = "none"

PreloadRefuses(env) == Mistyped(env) \/ (Requested(env) /\ ~(env.knobs /\ HasSeam /\ CoreIsTrusted))

(* confirmBooted: without the preload's registration the hook refuses. *)
HookRefuses(env) == Mistyped(env) \/ (Requested(env) /\ ~env.preload)

BootOutcome(env) ==
    IF (env.preload /\ PreloadRefuses(env)) \/ (env.hook /\ HookRefuses(env)) THEN "refused"
    ELSE IF env.preload /\ Requested(env) THEN "engine" ELSE "loop"

(* renderStatus: its sentence on an n8n started from this shell, or none. *)
StatusSays(env) ==
    IF Requested(env) /\ env.preload /\ Status \in {"stock", "stock-unsupported"} THEN "refused"
    ELSE IF Requested(env) /\ ~env.preload THEN IF env.hook THEN "refused" ELSE "loop"
    ELSE IF Requested(env) /\ ~env.hook THEN "engine"
    ELSE IF Status = "installed" /\ ~Requested(env) THEN "loop"
    ELSE "none"

(***************************************************************************)
(* boot.ts:25-30 and status.ts:205-221: a process runs the engine only     *)
(* over the seam whole, as it was written; one whose hook file is listed   *)
(* never runs n8n's own loop under a setting that asks for the engine; and *)
(* over a stock or an installed tree it does what status said it would.    *)
(* Status is asked with good knobs, which it does not read, and with a     *)
(* value of the variable it knows.                                         *)
(***************************************************************************)
BootsAsStatusSays ==
    (\A r \in Runs : run[r].pc \notin Active) =>
      \A env \in Environments :
        LET outcome == BootOutcome(env)
        IN /\ outcome = "engine" /\ (\A f \in Files : files[f] # "odd") => AllAre("written")
           /\ env.hook /\ env.engine # "unset" => outcome # "loop"
           /\ Status \in {"stock", "installed"} /\ env.knobs /\ ~Mistyped(env)
                => StatusSays(env) \in {outcome, "none"}
=============================================================================
