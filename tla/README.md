# A verification project for n8n-libpetri

n8n-libpetri replaces the scheduler of n8n, a workflow engine, by a coloured
Petri net: every workflow is compiled to a net, the net is played by the
`libpetri` executor, and the transitions' actions run the nodes. These TLA+
modules model what the net and the code around it do; TLC checks them on small
workflows and TLAPS proves the properties that hold for every workflow.

Paths below are relative to `src/typescript/src` in the repository unless they
start with `docs/` or name a file of its root.

## 1. The system

### Components

| component | state it keeps | operations | what makes it right |
|---|---|---|---|
| workflow graph and analysis (`compiler/graph.ts`, `compiler/analysis`) | none: a pure function of the workflow | validation, components (Tarjan), reachability, depth, dead inputs, join forms, reference guards, skip observers, k-safety | the sets it computes are the ones the gadgets rely on |
| net composition (`compiler/compile`, `gadget`, `names`, `types`) | none: a net and its map | gadgets, names, the initial marking | every place is mapped once; a run ends clean |
| activation gadgets (`compiler/gadget`) | the marking of a node's places: idle, tries, slots, data counts, rounds, skipped | start, run, route, done, retry, exhausted, arms, skip, clear | a node is decided once and one way; units are conserved; nothing is stranded |
| attempt life cycle (`scheduler/run-loop.ts`, `exhaust.ts`, `record.ts`, ...) | per try: what it awaits, its claim on the wait; per execution: waitTill, waitingNode, haltError, closeFunction | enter, call the node, record, retry, handle an error, halt | one claimant of a wait; a disowned try is silent; one record per run |
| failure policy and chains (`compiler/policy`, `failure-chain`, `scheduler/on-failure.ts`) | the position in the chain | parse, layer, admit; a deadline, its funnel, retry and terminal steps | a chain answers every attempt and ends; a late answer does not come back |
| agent round (`gadget/agent-round.ts`, `scheduler/round.ts`, `codec/agent-round.ts`) | queued and outstanding tool calls, call and round budgets | dispatch, collect, resume, run out, write back, read again | the agent resumes once, after the last response, also across a pause |
| scheduler run and caches (`scheduler/petri-scheduler.ts`, `quiescence.ts`, `write-back.ts`, `cache.ts`) | how the run ended; compiled workflows | compile or fall back, quiesce, finish, throw | what is said of a run is what happened in it |
| marking codec (`codec`) | none: marking to n8n's stack and back | encode, decode | a round trip; what it cannot encode is empty |
| engine v2: graph and net (`compiler/analysis/engine-v2`, `gadget/settlement`, `codec/v2`) | the marking, the step rows | convert, validate, start, skip, run, route, batch; rows to marking | the plan is engine v2's own; a frontier of the rows is enough |
| engine v2: settlement (`settlement`) | step rows in a store, queues, a compile cache | decide, finish, shadow | every step settles once, whatever interleaves |
| n8n adapter and host (`n8n`) | a worker's boot state | read a workflow, boot, call n8n | the description is the workflow |
| installer (`install`) | files, a lock, a record, a journal | install, uninstall, roll back, status | recoverable after a crash at any point |
| verifier (`verify`) | a state-class graph, solver answers, a report | the property families, verdicts, exit code | verdicts are never stronger than what was explored |
| conformance (`conformance`) | recorded runs of both engines | play n8n's own loop, compare | nothing that differs is excused |
| command lines (`install/cli.ts`, `verify/cli.ts`, ...) | none | arguments, exit codes | (not modelled, but for verify's exit code) |

### How they interact

The compiler turns a graph into a net once; the scheduler loads it with an
initial marking (or a decoded one) and lets the executor play it. A transition
*fires* (takes its inputs, starts its action) and later its action completes and
its outputs *land*; it is at most once in flight (`docs/adr/0004`). An `X_run`
action is asynchronous and calls n8n through the host: it awaits lifecycle
hooks, the node's own code and the processing of its output, while other nodes'
actions do the same. All of them share the execution's `runExecutionData` and
`state`. A deadline is a timeout of the executor: it drops the firing, forwards
the input token, and the action's code keeps running with nobody waiting for it.
When nothing is enabled and nothing in flight, the scheduler encodes what is
left of the marking into n8n's own execution stack, so that n8n, or this
scheduler after a restart, can resume.

Under engine v2 n8n keeps the execution in a table of step rows and calls a
settlement policy after every step. The net-backed policy decodes the rows into
a marking, asks the net what is enabled and answers with the steps to queue and
to skip; nothing is kept between two calls but compiled nets. Several handlers
settle steps of one execution at once, and read the rows in more than one query.

The installer patches n8n's own files so that a booting n8n loads the scheduler;
the verifier compiles a workflow offline and explores the net; the conformance
harness plays n8n's loop beside the net and compares the two.

### What is hard

Interleavings of asynchronous node runs over shared fields; the order in which
deliveries and skips reach a join; a halt or a pause that arrives while siblings
are in flight; a deadline racing a late answer; a hook that fails behind a
record; the concurrency budget on its different ways back; graphs for which a
budget above one would pair the wrong arrivals; liveness of dead path
elimination, which forwards skips only where somebody looks; a round of calls
stopped half way; two settlements that each leave the join to the other; an
install killed between two files; a verdict from a graph that was cut short.
`PROJECT.json` lists these hazards at the lines where they bite, with the
properties that watch them.

## 2. The modules

| module | models | kind |
|---|---|---|
| `WorkflowGraph` | the structural analysis, by what it computes | constant operators |
| `WorkflowNet` | the net of one execution, extends `WorkflowGraph` | state machine |
| `Execution` | what an execution promises its activations: the abstract specification `WorkflowNet` implements | abstract state machine |
| `WorkflowNetProofs`, `ExecutionProofs` | theorems about `WorkflowNet`; it implements `Execution` | proofs |
| `Attempts`, `AttemptsProofs` | the asynchronous code of the firings; theorems about it | state machine, proofs |
| `AgentRound`, `AgentRoundProofs` | the rounds of tool calls of the agents; theorems about them | state machine, proofs |
| `RoundCodec` | what the codec writes and reads of open rounds, over the states of `AgentRound` | operators on states |
| `MarkingCodec` | an execution over several runs of the scheduler, extends `WorkflowNet` | state machine |
| `Analysis` | the analysis as the code computes it, over the description of a workflow | pure algorithms |
| `NetShape` | the net the compiler emits, its map, its initial marking, its action plans | pure algorithms |
| `Policy` | parsing, layering and admission of `executionPolicy`, the chain it compiles to | pure algorithms |
| `Reader` | how a live workflow, a workflow file and an engine v2 graph become a description | pure algorithms |
| `StackReference` | n8n's own loop, as `conformance/reference` plays it | pure algorithm |
| `Differ` | the comparison of a run of n8n with a run of the net | pure algorithms |
| `SchedulerRun` | the caches of compiled nets; one call of `run()` | operators on a state |
| `V2Graph` | the converter, the loop marking and the validator of engine v2 | pure algorithms |
| `SettlementGadget`, `StepRows` | the transitions of the engineV2 net; rows to marking and back | pure algorithms |
| `SettlementReference` | what engine v2 decides from the rows, and its event loop without a database | reference definition |
| `SettlementNet` | the engineV2 net played on its own | state machine |
| `SettlementNetProofs` | theorems about `SettlementNet` | proofs |
| `SettlementPolicy`, `Settlement` | the policy's decisions; the handlers of one execution over the row store | operators; state machine |
| `SettlementProofs` | theorems about `Settlement` | proofs |
| `Shadow` | the comparison of two policies, and the differential of engine v2 | operators |
| `Installer` | install and uninstall, file by file; the boot of n8n over what they leave | state machine |
| `InstallerProofs` | theorems about `Installer` | proofs |
| `Delta` | the delta codec of a seam | pure algorithm |
| `Verifier` | one `verify` command over a state-class graph and a solver | state machine |
| `VerifierProofs` | theorems about `Verifier` | proofs |
| `AnalysisChecks`, `PolicyChecks`, `NetShapeChecks`, `ConformanceChecks`, `HostChecks`, and the second part of `MCSettlementNet` | what the pure algorithms promise, as assumptions TLC evaluates over bounded inputs | checks |
| `MC*` | constants for TLC | models |

### WorkflowGraph

Connections are a function from edge ids to `[from, out, to, inp]`, as the
compiler numbers its `EdgeRef`s. `SameScc`, `Reachable`, `DeadInputs`, `Form`
(joinFormOf), `Referenced`, `Guarded`, `SkipObservable`, `SkipForwards` and
`EffectiveBudget` (kSafety) are the sets the analysis computes; the walks are
bounded by the number of nodes and written as recursive functions, so the module
can be used in proofs. `AnalysisChecks` compares them with `Analysis`, which
translates the algorithms.

### WorkflowNet

Every gadget's transitions over the marking, two actions each: `Start`,
`StartLands`, `Run`, the outcomes of a run (`RunSucceeds`, `RunRetries`,
`RunHalts`, `RunPauses`), `Done`/`DoneLands`, `RetryWait`/`RetryLands`,
`Exhausted`, `Arm`/`ArmLands`, `Skip`/`SkipLands`, `Clear`, and `Abort`.
A marking is a few functions: `stage` says where the token of a node's r-th run
is, `data` and `empty` count what rests on edges, `free`, `ready` and `hasdata`
are the places of a join, `arrived` and `ran` those of an OR round. The three
guards of the code are `Delivering` (no inhibitor: work in progress lands
whatever happens), `Deciding` (inhibited by `_halt`) and `Starting` (by `_halt`
and `_pause`). Transition priorities are left out, so every order they allow is
a behaviour, and more. `nil` tokens and the sink are one. A reference's
`start_unmet` twins are one disjunct of `Start`.

### Attempts

One action is one turn of the event loop: what the code does between two awaits.
A node's token (`token`, `try`) is the net's side; `step` says what each try's
code is awaiting. They are separate state because a deadline makes the net drop
a firing whose code goes on. The try after the last is the after-loop handling:
`X_exhausted`, or the terminal step of an `onFailure` chain. The execution-wide
fields are variables of their own: `waitTill`, `waitingNode` (the claim),
`leftover`, `haltError`, `fatal`, `closeFn`, `abandoned`; `status` is the task
data a try upserted.

The host (n8n's `runNode`, hooks, `processNodeOutput`,
`handleNodeExecutionError`) is modelled from how the scheduler uses it. Left
out: `X/idle` (one activation per node here; its mutual exclusion is
`WorkflowNet`'s), agent requests, pinned outputs (a run that answers at once),
unmet references (a run that throws), split routing, an error handler that
continues with no output, the endless-loop guard.

### AgentRound and RoundCodec

An activation (an arrival on an agent's main input, or one tool call) keeps one
name through all its runs and rounds; `at` says which place holds its token and
`asker` whose round a call belongs to. A run's request (`RunRequests`) queues
its calls; `DoneReq`, `Dispatch`, `Collect`, `Resume`, `CallsOut` and
`RoundsOut` are the transitions of `compiler/gadget/agent-round.ts` with their
actions in `scheduler/round.ts`; `Start`, `Run` and the outcomes are those of
any node, without their retries. Tools may be shared and may be agents, so
rounds nest. `outstanding`, `response`, `drained`, `rounds` and `calls` are
token counts of each agent; a tool's success goes to the agent its token names.
After an abort (`Cancel`) nothing fires and runs in flight land. The places of
a round hold tokens that name their activation, and which of several the net
takes is left open.

`RoundCodec` adds no step: over a state at rest, `Stack` is what
`codec/encode.ts` pushes of it and `Rounds` what `RoundAssembly` makes of that
stack, for every record of earlier answers decode may find. The order of the
stack is left out. A re-entry is any entry with a round in its metadata, an open
round's or that of an agent that was caught running, waits or failed after an
earlier one: `Contested` says that two of them name one tool, and the proof of
`RoundsAreKept` is what showed that the second kind is read too.

### MarkingCodec

`Play` is a step of `WorkflowNet`. When a halted, paused or aborted net is
quiescent, `Save` writes it into n8n's state, and `Load` decodes that state into
a fresh marking. `entries` is `nodeExecutionStack`, counted per node since the
order of its entries only breaks ties; `rows` are the `waitingExecution` rows of
joins, what arrived of each slot by input; `emptied` counts the `[[]]` rows of
an OR round; `recorded` is what `runData` keeps. `Stack`, `Paired`, `JoinRows`
and `OpenRound` are the encoders of `codec`, `Decoded`, `HeadOf`, `QueuedOn`,
`Deliveries` and `Unmet` its decoders. A `CodecError` of decode is a `CHOOSE`
without a witness, at which TLC stops. The old marking stays in the variables
until `Load` replaces it, so an action property of `Load` compares what was
stopped with what resumes.

Left out: split routing, the stranded rows, the order of the stack, a
destination stop (it is not resumed), the shifting of run indices. That n8n
drops a failed or waiting run from `runData` before it is redone is modelled
from how decode counts on it.

### Analysis, NetShape, Policy, Reader

These follow the code function by function and are run on generated inputs. A
name, an id or a type is a small number or a string without structure; what may
be absent is a set of at most one value; an error is a member of a set of
refusals, and where the code throws its first, the set holds those of its stage.
`Analysis` walks as the code does (the iterative Tarjan with its frames, the
depth relaxation in component order). `NetShape` emits each place and transition
of a gadget with its arcs, inhibitors, reads, outputs and priority; a name is a
tuple instead of a joined text. `NetShapeChecks` plays the token game on the
result, so a missing arc shows as a token left over, not as a difference of
text. `Reader` holds the three ways a description is made: the live adapter, the
file reader of `verify`, and the graph of engine v2.

### StackReference and Differ

`StackReference` is the loop of `conformance/reference/*.ts`: the stack, the
waiting entries and their pairing, the flush of a starved join, tools of an
agent stacked under it, retries, error outputs. `Differ` is
`conformance/differ.ts` with its gates (run data, stack, waiting entries,
contract, happens-before, ordering) and the rules that attribute what differs.
`ConformanceChecks` plays both on small workflows; the net's side there is
`NetShape` at one unit.

### SchedulerRun, Shadow

One call of `run()` is one operator from the scheduler's fields and the cache to
the same, what it answered and what it threw; a sequence of calls is a fold. The
caches map a key to a compiled net, most recent last. `Shadow` compares the
answers of two policies that each read their own moment of the rows. Its second
part is `conformance/v2/differential.ts`: a run of the settlement net read back
as rows (`Opening`, `RunFired`, `Routed`), the legs that compare the net with the
reference at one row set (`CompareState`, `CompareScoped`, `CompareFinished`,
`CompareFrontier`), the net's marking with the decoded one (`ComparePoint`), and a
whole run with a whole run (`CompareRuns`).

### V2Graph, SettlementGadget, StepRows, SettlementNet, SettlementReference

`V2Graph` runs the converter's steps in their order, each a set of refusals, then
the validator and the steps v2 cannot run. Edges are records of two nodes and
two slots. `SettlementGadget` gives the transitions of a node as sets of places
they take, read and inhibit on; `SettlementNet` fires them in any order
(`Start`, `Skip`, `Complete`, `Fail`, `Route`) and writes the row each firing
stands for. `StepRows` is `codec/v2`: `DecodeStepRows` replays rows into a
marking, `FrontierOf` keeps the rows a decode needs. `SettlementReference` is the
rule of engine v2 itself, on rows alone, and `simulate`: the event loop that
applies it, in which any pending event may be the next (`NextRuns`).

### SettlementPolicy and Settlement

`Settlement` is the row store, the queues and the handlers of one execution. A
settlement in progress is an entry of `handling` whose phase is the await it
stands before: it reads batch passes, computes keys, reads rows, reads again
when a loop overran them, decides, creates rows, asks whether it is finished.
Claims, resumes of suspended steps, failures and a cancellation on request are
actions of their own, so any number of handlers interleave at every await. The
stores are `conformance/v2/memory-stores.ts`; n8n's handlers are external and
modelled from `tasks/v2-handler-leg.mts` and `patches/n8n/0003`.

### Installer, Delta

A process is at one `pc`, and each file operation is one action that succeeds,
fails where `MayFail` allows it, or is where the process is killed. Reads made
under the lock with no write between them are one action, reads before the lock
actions of their own. A file is stock (or absent), written by us, or odd.
The boot at the end of the module adds no variable: it says what a process that
boots over the tree does and what `status` says of it.

### Verifier

A net is its state classes and the moves between them; `StateClassGraph` is what
an exploration under a cap returns, one class of the queue at a time (`Pop`).
`SmtDecision` is the solver, right on the questions it closes and silent on
others. `Walks` are the moves from the initial class within a number of runs of
cyclic nodes, from which `ClosedCyclicRuns` takes the bound a cut graph reports.
A command runs flags, a first pass, an escalation when it is worth one, and ends
with an exit code (`FirstReport`, `Escalates`, `Escalate`, `Finish`). The verdict
of each property family is an operator in the order of the code.

## 3. What is checked

| run | question | states |
|---|---|---|
| `rounds` | an OR input taken in rounds, a loop with a retry, and a join slot that a branch and the loop both feed: does k-safety keep repeated runs apart, and the slot hold one arrival? | 107,941 |
| `failure` | two branches that meet in a join and in a choose-branch node, with references, a node nothing reaches, a retry, a wait, a stop, a failure and an abort, k = 2: are units conserved, is a pause drained, does a halt freeze what is pending, is every node decided? | 46,378 |
| `attempts` | a node under a deadline beside one that retries, waits, throws, and whose hooks reject, k = 2: wait claims, disowned tries, records, halt errors | 446,638 |
| `agent` | an agent with a tool and a sub-agent that shares it, k = 2, with a wait, a halt and an abort: does a round wait for exactly what it asked for, end, and come back from a stop as it was? | 14,728 |
| `resume` | a branch, a choose-branch join, an OR round and an unreachable input, k = 2, paused, halted or aborted anywhere and resumed: does the state written lose, double or strand anything? | 79,139 |
| `net` | four engineV2 nets (a conditional diamond, a loop with a forked body, a conditional self loop, a split node): do rows replay to the marking, is the plan engine v2's own, is every step settled? | 3,183 |
| `settle` | one execution of engine v2 with handlers interleaved at every await, a suspended, a failing and a cancelled step, an evicted net: is every row due, every decision the reference's, an idle execution over? | 147,818 |
| `install` | three processes that install or uninstall, each file operation failing or killed, beside someone who changes a file: does the tree load, can uninstall bring it back, is what is answered true? | 756,572 |
| `verify` | `verify` over small nets of four classes, v1 and engineV2, under every cap, with and without a solver: is what is proved, refuted or bounded so, and the exit code earned? | 56,120 |
| `claimant`, `openRound`, `subAgent` | a statement of the source each, which the code does not keep in some order (section 6) | small |

Properties of `rounds` and `failure` (`WorkflowNet`):

* `TypeOK`: the marking is well typed; in particular no count goes negative.
* `BudgetConserved`: units on `_budget` and units held by runs add up to k.
* `SlotHoldsOneArrival`: a join slot is free, filled once, or on its way between,
  while several arrivals queue for it: checked in `rounds`, where the branch `B` and
  the loop `L`, which runs again, contend for slot 0 of the join `E`.
* `SkipTakesNoData`: a join's skip never consumes an arrival with data.
* `CompletesClean`: an execution that ends by itself leaves no arrival behind.
* `EveryNodeDecided`: each reachable, skip-observing node is eventually decided.
* `RepeatsRunAlone`: where a node may run twice the budget is one, and no two
  runs overlap.
* `QuiescentIsDrained`: whatever stopped the net, the places `codec/encode.ts`
  asserts empty are empty.
* `HaltKeepsArrivals`: after a halt no pending arrival is consumed.
* `ImplementsExecution`: the net is an `Execution` under the mapping that reads an
  activation's life off its stage (starting, running, executing and retrying are
  *running*; routed, refunding, retry and exhausting are *held*; halted, waiting
  and stopped are *aside*), k as the limit, and halt, pause or abort as stopping.

Of `attempts`:

* `OneClaimant`: one node takes the waiting branch.
* `ClaimIsKept`: the claimant's retries, null outputs and failures do not lose
  the wait.
* `RecordedOnce`: one record per run, however many tries; only a hook that rejects
  behind a record sends its run, and no other, to be tried again, and a recorded
  error is final.
* `ErrorEndsRun`: the net halts on every halt error and on nothing else.
* `AbandonedIsSilent`: a try a deadline disowned writes nothing any more.
* `DeadlineSettles`: a deadline frees its node from a run that never answers.

Of `agent`:

* `JoinAccounts`: `A/outstanding` is the calls still out plus the answers not
  collected, so the inhibitor of `A_resume` reads the whole round.
* `RoundsAreKept`: a state at rest inside a round, written and read again, gives
  each agent its round with the calls that were queued and the answers that were
  there, except for the cases of section 6.
* `ResumesWhole`: an agent re-enters when every call of its request answered.
* `RoundsEnd`: an open round is re-entered, unless the execution stops.

Of `resume`:

* `ArrivalsSurvive`: every activation the stop caught and every pending arrival
  is pending again after `Load`, whichever place held it.
* `RoundTrips`: saving at once what was resumed writes the same state.
* `DecidedAcross`: a node skipped in one session does not run in a later one,
  nor one that decode marks as skipped for its references.
* `ResumeCompletes`: a resumed execution that ends by itself leaves nothing, where
  no empty was dropped (`codec/direct.ts:62` documents that such a join strands).

Of `net`:

* `FrontierIsEnough`: decoding the rows of any point, or of each loop only its
  first and last two passes, gives the marking the net is in.
* `PlanIsTheReference`: what the net would start and skip next is what engine
  v2's rule decides from the rows, and the net is drained when the rule counts
  every step as settled.
* `EndedLoopsStay`: once a loop ended nothing of it is in flight or can start.
* `EveryStepSettles`: without a failure every step owed is settled in the end.

Of `settle`:

* `EveryRowIsEarned`: a row is there only if the rows its edges come from have
  settled, as skipped exactly when none made it live.
* `DecisionIsTheReference`: a decision from a scoped read is the rule's on every
  row of that instant.
* `SaidFinishedIsTrue`: a settlement about to end the execution is right.
* `IdleIsOver`: with nothing queued, working or handled, the execution has ended.

Of `install`: `Loadable` (a patched file never requires a missing one),
`UninstallRecovers`, `AnswersAreTrue`, `ForeignIsKept` (a file in neither state is
not written over), `BootsAsStatusSays`. Of `verify`: `VerdictsAreTrue` (proven and
refuted are so on the full net), `BoundsHold` (a bounded verdict holds for the
runs it names), `ExitIsEarned` (0 only when every question asked was answered as
the flags demand).

Each property is also run against a mutant of a definition it depends on (a
dropped guard, a missing refund, an off-by-one), listed in `PROJECT.json`, which
it must reject.

### Assumptions TLC evaluates

The pure algorithms have no behaviour to explore; what they promise is stated
over bounded inputs, in modules that a run extends, so that TLC evaluates them
before it starts. `verify` evaluates
`AnalysisChecks` and `PolicyChecks`, `install` `HostChecks`, `net` the others.

* `AnalysisChecks`: Tarjan's components are mutual reachability, emitted after
  what they reach; `WorkflowGraph`'s sets are what the walks find; depth grows
  along tree edges; the order of a file does not matter; a tool answers only its
  agents. Of the readers: node prefixes differ whatever the ids; a description
  guessed from a file is admitted by the analysis; the file reader and the live
  adapter agree; the picked start is a trigger; no wire is lost under engineV2; an
  accepted step graph describes an admitted workflow.
* `PolicyChecks`: an accepted chain answers every attempt; what is refused has a
  listed reason; no deadline or chain reaches a node that did not ask for it; a
  deadline without a chain is refused; retries are clamped.
* `NetShapeChecks`: every place and transition is mapped once; every transition
  conserves the unit; a halt inhibits every transition that moves an arrival; a
  structural action puts one branch of its output; the initial marking fits;
  played to the end, a run leaves nothing (`RunsEndClean`), and above k = 1 no
  node runs twice at once (`RunsOnceAboveOne`).
* `ConformanceChecks`: how often each node runs in n8n's loop and in the net, and
  what explains a difference; n8n's loop passes its own gates; rounds of an agent
  are answered before it is called again; arrivals pair in order unless the
  numbering of section 6 loses one; a different result, an error or an inversion
  is not excused.
* `HostChecks`: the caches keep the most recent; the replay rank follows the
  arcs; a scheduler used twice says of the second run what a new one would; over
  one moment two policies never disagree, and over two moments the shadow says so.
  `EveryOrderAgrees`: on a fan-out that meets again and on a loop, under
  behaviours that fill some slots or none, fail, suspend, leave a batch empty,
  and make one, two or four passes (a frontier keeps three), every order of the
  reference's events and every order of the net's firings visits only row sets
  where net and rule plan, decide, finish and end alike.
* `MCSettlementNet`: nothing the converter produces meets a throw site marked
  impossible; what the validator accepts is what the net and its proofs take for
  granted (`IsAccepted`: a loop is entered once and re-entered once at its batch
  node, left by its done slot alone, strongly connected, and nothing else runs in
  a circle); splicing disabled nodes joins exactly what a path through them joins, in any
  order.
* `MCInstaller`: a delta rebuilds its target, and an unchanged file inserts nothing.

### Bounds

`MaxRuns` bounds the runs of one node: in its last run a node sends nothing round
a cycle. `MayWait`, `MayStop`, `MayFail`, `MayAbort` say which nodes use which
outcome, so that a run explores the outcomes it is about rather than all on every
node. The workflows are the smallest that have each input form, a multi-producer
input, an unreachable producer, a reference, a cycle entered from outside, and a
fan-out that meets again; k = 2 is the first budget at which siblings overlap.
In `Attempts`, `MayStop` ... `MayReject` bound what each node does in the same
way, and a node stops setting `waitTill` once another try has read the value;
`MayFail` covers the node's code and the processing of its output, which is inside
the same `try`; two nodes are enough for every race over a shared field, since each such race
has a writer and a reader, and one retry is enough for a try to be neither first
nor last.
In `AgentRound`, three calls and at most two per request let a round overlap
with the round of its sub-agent and still ask again; the outer agent may
dispatch two calls and the inner one a single one, so each budget runs out in
some behaviours and not in others. `AskedOnce` keeps a request from naming one
agent twice.
In `MarkingCodec` one resume (`MaxResumes`) is enough: a second save writes a
marking of the same kind as the first, and `RoundTrips` says the same one when
nothing was played. The first session is aborted anywhere, the last one not.
In `SettlementNet` and `Settlement`, `MaxPasses` of five and four let a loop run
past the three passes a frontier keeps. `Suspenders`, `Fallible`, `Cancels` and
`Evicts` name the steps and graphs where the environment does each.
In `Installer`, three processes are one that holds the lock and two that contend
for a dead one's; two kills leave a lock and a journal behind; two created and
two replaced files have a first and a last of each kind.
In `Verifier`, four classes have a middle, a fork and a loop; every cap from one
class to all of them is tried, with a first pass of two.
The assumptions enumerate workflows of two or three nodes with up to four
connections, which have each join form, self loops and cycles of two; the net of
`NetShapeChecks` has three nodes; `RunsEndClean` leaves out cycles, agents and
inputs fed twice.

### Fairness

`WorkflowNet`: weak fairness of `Fire \/ Land`, because the executor keeps
firing while anything is enabled and the actions of these transitions complete.
An abort is never forced. `Attempts`: weak fairness of each node's net steps
(the executor and its timers) and of the turns that the host resolves (hooks,
output processing, the error handler); none of the turns that a node's own code
takes. A node's run need not come back, which is why `DeadlineSettles` is about
nodes with a deadline only.
`AgentRound`: weak fairness of `Fire \/ Land`, that is, runs come back.
`SettlementNet`: weak fairness of `Next`, for the same reason.
`Settlement`, `Installer`, `MarkingCodec` and `Verifier` state no fairness: their
properties are safety (`IdleIsOver` says of a state where nothing is left to do
that it is the end).

In `rounds`, `failure`, `agent` and `subAgent` deadlock is checked: `FairSpec` lets a
run end only by `Rest`, a step that is enabled where `Quiescent` holds. `Quiescent`
is written out, place by place, so that the proofs can use it: that it is
exactly "nothing of `Fire` and `Land` is enabled" is what the deadlock check shows
in one direction (a state that is stuck but not quiescent would be reported) and
`QuiescentIsStill` proves in the other for `WorkflowNet`. The other runs are of systems that
really end, and check no deadlock.

## 4. What is proved

`WorkflowNetProofs`, for every workflow graph, budget and bound that satisfies
`GraphAssumption` and `NetAssumption`:

* `TypeCorrect`: `TypeOK`, inductive by itself.
* `BudgetIsConserved`, `NodeMutex`: from one summary of `Next` (`StageStep`):
  each step moves one activation from one stage to another, with its unit and
  its idle token.
* `HaltFreezesArrivals`: no step of a halted net decreases a count of arrivals.
* `SlotsAreSound`: by cases on the slot's owner; `CardinalityDiffersAt` relates
  the arms in flight before and after.
* `SkipIsSafe`: needs the strengthening `DataIsCounted`: a data arrival in a slot
  is on `hasdata`, or on its way there with the arm that carries it. Without it
  the inhibitor of the skip says nothing about the slots.
* `QuiescentIsStill`: in a quiescent state no transition can fire and nothing can
  land. Each guard is refuted by one conjunct of `Quiescent`.
* `RestsDrained` (`QuiescentIsDrained`): at rest, the places `codec/encode.ts` asserts
  empty are empty. From `EmptyOnTree` (empties are only put on tree edges, whose
  targets have a skip for them) and `HaltedHalts`, with `OneRunPerNode`: a node
  whose `X/idle` is away has a run on a stage that is not at rest.
* `RepeatsAreAlone` (`RepeatsRunAlone`): where the rule of k-safety asks for one
  unit, `BudgetConserved` is enough. Elsewhere (`Plain`: no cycle, no input fed
  twice) no node runs twice, by `Accounts`: a node is decided once, and what it
  took of an edge with what rests on that edge and in its slot never exceeds what
  the source of the edge gave. That every source is reached needs the bounded
  walks of the analysis to be closed (`ReachableIsClosed`), an induction on their
  length. It assumes `PrimaryIsFirst`: where there is no cycle, nothing reachable
  feeds the primary start node. TLC finds the property violated otherwise: a
  trigger that is fed by a second, dead start node is run and is skipped, and a
  join behind it starts twice at k = 2. `OneStartRepeatsAlone` needs no assumption
  where the trigger is the only start node ("n8n starts one trigger per
  execution", `verify/shape.ts:18`).

`ExecutionProofs`, under the same assumptions:

* `NetImplementsExecution`: initial states map to initial states and each step to
  a step of `Execution` or a stutter, one case per action. `BudgetConserved` turns
  a unit on `_budget` into "fewer than k held", `OneRunPerNode` a token on
  `X/idle` into "no run of X is running"; neither is visible in a guard.

`AttemptsProofs`, for every set of nodes, tries and bounds that satisfies
`AttemptsAssumption`:

* `TypeCorrect`: strengthened by "only a try with a successor decides to retry",
  "only such a try times out" and "code that is over has decided an outcome".
* `WaitHasOneClaimant`: a claim's holder is `waitingNode` as long as it stands,
  and only a claimed try decides to wait.
* `DisownedIsSilent`: code that still awaits something is owned by its node's
  token, timed out, or disowned; errors are handled only where no deadline is.
  Assumes that the hooks of nodes with a deadline do not reject: `guarded`
  (`scheduler/outcomes.ts:64`) does not ask whether the try was disowned.
* `RunsAreRecordedOnce`: a record that no hook rejected behind, and a recorded
  error, belong to their node's last try, whose token has settled
  (`RecordSettles`). This needs that no try has a record its node has not come to
  (`RecordsBehind`) and that a try which awaits `nodeExecuteAfter` behind a success
  has recorded no error (`AfterIsSuccess`).
* `ErrorsEndRuns`: the first error is written by a try about to halt, which stays
  so until its outcome lands. Assumes that a node whose hooks reject can halt
  and has no deadline (a node that cannot halt ends as stopped instead).
* `ClaimsAreKept`: the claimant's next try is idle and without a claim, so it
  claims again; every phase of it leads to waiting, a retry, a halt, or a
  deadline.

`AgentRoundProofs`, for every wiring, budgets and finite set of calls that
satisfies `AgentAssumption`:

* `TypeCorrect`: inductive by itself.
* `JoinIsCounted`: with `Belongs` (a call that was asked for has a started asker,
  which is an agent): without it a success would not be known to answer an agent
  that counted it. Steps are quiet, or move one call in or out of one agent's
  set.
* `RoundsAreAlone`, `RoundsAreWhole` (`ResumesWhole`) and `RoundsComeBack`
  (`RoundsAreKept`), under `OneCaller`: a sub-agent is wired to one agent, which names it once in a
  request, and an agent has one arrival. Tools that are no agents may be shared
  freely, and agents nest to any depth. The assumption is about what the code
  leaves open (section 6, `gadget/run.ts:93`): without either part of it TLC finds all three
  violated, so it is where the rounds are safe and not a
  convenience. `Alone` is the invariant: a call that has not ended keeps its
  asker's round open (`Waits`), an agent has one unfinished activation
  (`OneUnfinished`), and `A/drained` is marked for the one round that left
  `A/queue` (`DrainedAccounts`). A request is the one step that could break it,
  and does not because the caller of a sub-agent is unique and has just run.
  For the codec, the stack is then exactly what is unfinished
  (`StackIsUnfinished`), and of the rounds that are read the one that names a
  call is its asker's (`OwnerIsAsker`): the least wiring index among those asking
  is an index of the asker.

`InstallerProofs`, for any processes, files, failures and kills that satisfy
`InstallerAssumption` and `IndexAssumption`:

* `TypeCorrect`: with `CopiesReplaced`: a backup is copied for a replaced file.
* `ForeignFilesStay`: unconditional. `TrustInv` says that a run past its checks
  has seen every file known, and a file becomes odd only while no run is there.
* `OneHolder`: under `Few` (at most three processes, or no kills). `LockInv` says
  that the holder's lock is in place or on its way back from the run that moved
  it, that a run moves a lock only after it saw its holder gone, and that nothing
  is recovered without a kill. A second holder needs three live processes beside
  a killed one: that is the counting at the end, and the reason for `Few` (section
  6 has the execution with four).
* `AlwaysLoadable`, `AlwaysRecovers`, `AnswersHold`, `BootsTrue`: each assumes
  `[]OneAtATime` and nothing else about the lock. `TreeInv` gives for each phase of
  the holder which files are stock, written or in between, which backups exist,
  and what the record and the journal say; and for a tree with no holder that it
  is one of those a phase can be killed in. Its steps are split by who moves: a
  step under the lock against the phase it was in, any other against a tree it
  does not touch. `AlwaysRecovers` assumes that dropping the journal does not
  fail (section 6).
* `InstallerIsSafe`: the last four from `Few` alone.

`SettlementNetProofs`, for any graphs the validator accepts (`GraphsAssumption`:
`IsAccepted`, which `AcceptedIsSound` compares with the validator itself over
small descriptions) and any number of passes:

* `TypeCorrect`, from `Balanced`, the inductive invariant of all three: along an
  edge, arrivals and rows of its target never exceed what the source has settled
  (`Given`), for a batch node over both its edges together; a row is running, on
  its way to a slot or over; the trigger is opened once. Each transition is
  reduced to the counted places it takes from and writes (`Touches`, `Changes`),
  and only then to the balance.
* `NothingRunsTwice`: outside loops along the forward edges, which have no circle,
  with a batch node standing for its whole loop; inside a loop because every set
  of members is entered from outside it (`LoopInStep`).
* `EndedLoopsHold`: what the entry edge gave covers the end, the run and both
  arrivals of the batch node, so after the end nothing is left of them; and a
  member that still lacked a row would pass the lack on along an edge out of its
  set to the back edge, which gave every pass.

`SettlementProofs`, for any graphs, and with nothing asked of the decoder (what a
settlement decides from the rows it read may be anything): what the handlers and
the stores guarantee by themselves.

* `SettledStays`: a row that has settled is never written again, and an execution
  that is over keeps its status. A worker writes without asking what its row is,
  so this needs that a row is running exactly while a worker holds it
  (`RowsAreHeld`).
* `IdleLeavesNothing`: from the other half of `RowsAreHeld`: a queued row has its
  announcement, a waiting one its resume. After a failure a queued row may stay:
  a step that suspends behind `failExecution` is resumed, and `claimStep` refuses
  it. TLC has the execution; the row owes nobody anything.
* `IdleHasEnded` (`IdleIsOver`): a failed row is owed the end of the execution by
  its own settlement, from its event through both orders of `failExecution`
  (`FailureIsHandled`), and who is about to end the execution as failed has seen a
  failed row that cannot go away (`EndsAreTrue`). So an idle execution of which a
  step failed, which was cancelled or which is over ended as it should. What is
  left to TLC of `IdleIsOver` is that an execution where every step went well does
  end, which is the decoder's to say.

`VerifierProofs`, for nets of any number of classes, and any cap, options and
witness that satisfy `CasesAssumption`: a net has an initial class and its moves
join its classes (`IsNet`); and where the solver answers for the whole net, no
class is stuck in time (`TimeIsSeen`). The second is needed: z3 does not know time,
and a stranding by time alone is one it proves absent.

* `TypeCorrect`, from `PassIsWhole`: a report is the one its pass makes of the case,
  under the cap of that pass, and the exit code the one of the report.
* `VerdictsTrue`: what the search keeps (`Explored`) is that it found only
  reachable classes, each once, and holds every move and target of those it took;
  so an uncut graph is all of the net (`CompleteHasAll`) and a class it judges at
  rest is (`QuiescentIsAtRest`). Then one lemma per family, from what the graph and
  the solver say.
* `BoundsTrue`: a walk of the net within the bound meets expanded classes only,
  since every class that was not expanded costs more runs of cyclic nodes
  (`ClosedIsBelowFrontier`), so each step of it is in the graph (`WithinIsExpanded`).
* `ExitEarned`: `Escalates` passes over a second pass only where the graph was whole
  or there was none, and then the full cap would not have said more (`UnknownIsOpen`).

The search and the walks are recursive functions over naturals. What they keep
is an induction over data; it is stated of the set of numbers for which the claim
holds, and follows from the least of its exceptions (`LeastNat`, `NatStep`), which
needs no induction theorem with an operator for a parameter. This reaches
recursion over naturals in a module without `RECURSIVE`, not the others.

Two definitions did not survive the proof as they were. A CASE whose guards overlap
is no order: TLA+ lets it choose any arm that is true, and TLC happens to take the
first. `Verdict` and `WeakestVerdict` relied on that, and so did ten definitions in
`Analysis`, `Differ`, `NetShape`, `SchedulerRun` and `StackReference`; they are IF
chains in the order of the code now. And the classes a step of the search adds
were listed in sorted order, which libpetri does not promise.

Model-checked only: `EveryNodeDecided`, `DeadlineSettles`, `RoundsEnd` and
`EveryStepSettles` (liveness), `CompletesClean` (that a node is never left half
fed is that dead path elimination ends, which is liveness over the whole graph), the
replays of `SettlementNet` (`FrontierIsEnough` and `PlanIsTheReference`, which
speak of recursive definitions over rows), the properties of `MarkingCodec` (its
counts are sums folded over sequences of rows) and those of `Settlement` but for the
part of `IdleIsOver` above (its decisions are the recursive decoder's). What the
pure algorithms promise is evaluated on bounded inputs: most are recursive over sequences and sets, or `RECURSIVE`, where
neither the provers' induction nor the least exception above is at hand.

## 5. What is not modelled

* Execution: transition priorities, token payloads, run indices, pinned outputs,
  the endless-loop guard, a destination stop in `MarkingCodec`, the stranded rows,
  the order of n8n's stack, split routing in `WorkflowNet` (`NetShape` has it).
* Agent rounds: more than one re-entry per agent in `RoundCodec`, retries of an
  agent or a tool.
* Scheduler: `scheduler/payloads.ts`, log lines, the order of diagnostics.
* Reading a workflow: node-type lookup, expression parsing (a mention of a node
  is given), the connections of a key that names no node in `V2Graph`.
* Settlement: steps are created and announced in one step (an announcement that
  comes later is to everyone else one not yet taken); the shape of the host's own
  graph beyond `Reader`, the order within
  the lists of an answer, hashes (a key is a value of its own).
* Installer: more than one manifest, locating n8n-core, manifest validation,
  permissions; a boot is one step while no command runs; a failing `rmSync` of
  the rollback.
* Verifier: libpetri and z3 are external; z3 does not know time, so the nets with
  classes stuck in time are left to the graph, and its questions on bounds, pairs
  and dead places are answered over the timed classes, where the real query is over
  the untimed net and may find a witness only that net has; the budgets of semiflows and of
  collected invariants, the causes of agent truncation, reasons and report text.
* Conformance: `Differ` compares results, not text; JUnit reports, the
  classification tables, corpora, fixtures and goldens are not modelled. Of the v2
  differential left out: the order within the lists of a plan, the report of what
  each pass entered, the ledgers, and random behaviours (a few stand for them). The net side of `EveryCountIsExplained` compares counts, at k = 1.
  Of `StackReference` left out: `resumeError`, a missing destination, an unknown
  tool, the legacy execution order.
* The command lines, `tasks/` and `scripts/`: tools beside the running system.
* Liveness of the installer's lock (a contender gives up after its attempts).

## 6. Where code and comments disagree

Found by a run:

* `claimant` (`scheduler/run-loop.ts:85`): a disowned try that answers late
  probes the wait before it is recognised as disowned and takes the claim; the
  node that did set the wait is then recorded as a normal run and the execution
  does not wait. `scheduler/wait-claim.ts:11` says a claimant takes the waiting
  branch.
* `openRound` (`codec/or-round.ts:124`): a run that waits gives `X/idle` back, and
  the clear of its round is not inhibited by a pause, so the round is spent while
  its activation is still on the stack. Encode subtracts that activation from a
  count that is already zero and clamps; decode counts it as a delivery again.
  The resumed round is one delivery ahead, and its run can end with a delivery
  stranded. The entry the host pushes for a failed OR node is
  not subtracted either, with the same effect. `codec/or-round.ts:12` calls
  encode the inverse of decode.
* `subAgent` (`codec/agent-round.ts:119`): a sub-agent whose round is open is on
  the stack as its own re-entry, and decode does not count it among the calls of
  the agent that asked for it. That agent gets `A/drained` and nothing
  outstanding, and may re-enter without the answer; the answer that arrives later
  finds nothing to be collected against. `compiler/gadget/agent-round.ts:88` says
  `A_resume` means nothing is still out.

Found while modelling. Where a property is named with a change, TLC finds it violated under that change
of a run's constants:

* `scheduler/run-loop.ts:147`: a retry reads the `waitTill` its own failed try
  set, so its claim is `foreign` at k = 1, where `scheduler/wait-claim.ts:15` and
  `:34` say this cannot happen.
* `compiler/gadget/failure-chain.ts:53`: behind a halt the deadline funnel does
  not fire, so the timed-out try is never registered as abandoned and its late
  answer goes on to record (`LateRunStops` of `Attempts`);
  `scheduler/abandoned.ts:24` says it must stop.
* `compiler/gadget/run.ts:93`: a request releases `X/idle`, so a sub-agent that
  one request names twice starts its second call while the first one's round is
  open (`OneRoundPerAgent`, with `AskedOnce` empty). The two rounds share the
  agent's places, whose tokens are paired by arrival.
  `compiler/gadget/agent-places.ts:32` and
  `docs/adr/0008-agent-tool-dispatch.md:225` say `A/idle` keeps an agent to one.
* `install/lock.ts:134`: a run that found a dead lock renames whatever is at
  `lock` before it knows whose it is; with four runs, one of them killed, two come
  to hold it (`OneAtATime`), where `:2` and `:129` promise one. And a rollback whose last
  step, dropping the journal, fails leaves a tree that reads as interrupted over
  restored files (`UninstallRecovers`, with `dropJournal` in `MayFail`).
* `scheduler/run-loop.ts:165`: a `nodeExecuteAfter` that rejects once after a
  successful record is treated as a failure of the node, and `run()` resolves;
  `scheduler/petri-scheduler.ts:50` says a rejecting hook rejects it.
* `codec/agent-round.ts:64`: of a tool that two open rounds name, `ownerOf` gives
  every pending call to the first agent in wiring order. An abort that catches an
  agent between `A_run` and `A_done_req` leaves its activation on no place the
  encoder reads: the request is lost, and so is the round of one caught between
  `A_calls_out` and `A_run_failed`; the comment at `scheduler/write-back.ts:80`
  says what was caught is encoded. `codec/agent-round.ts:75` says the calls keep
  request order, which several dispatched and unstarted tools do not.
* `compiler/analysis/references.ts:54`: a reference to a join downstream that
  another branch also feeds (T to X and to M's input 0, X to M's input 1, X reads
  M) is given a read arc, so `X_start` waits for `M/done` and M for X, and both
  strand. `README.md:367` of the repository says such references remain runtime
  expression errors. Two branches that read each other do the same.
* n8n's loop numbers a waiting entry by how many there are, so the arrivals
  0, 0, 1, 0 on a join of two lose the second on input 0
  (`ArrivalsPairInOrder`); `docs/divergences.md:80` describes pairing in order.
* `settlement/shadow.ts`: a `disagree` without `skew` can still be two moments,
  when a row was read by the later side only (`ShadowTellsTheMoment`).
* `conformance`: a run on one side only shifts the ranks behind it, so moves
  against nothing are reported, as unnamed at k = 1 and as concurrency above.
* `install/status.ts`: with a mistyped `N8N_EXECUTION_ENGINE` over an installed
  tree it says n8n runs its own loop, while the preload refuses to start; and
  with a preload but no hook it says the engine runs even when a file was
  modified. `n8n/boot.ts` loads n8n-core before it reads the record, so an
  uninstall that finishes in between leaves a process registered over a stock
  file.
* Verifier: `CHANGELOG.md:565` says a full report on loopOverItems reads proven
  and `--strict` passes, but `dead-nodes` is never `proven`, so `--strict` with
  the default properties always exits 1.
* Readers: a main connection to a sticky note is kept by the live adapter (and
  refused by the compiler) but dropped with a diagnostic by the file reader.
* `compiler/compile/derived-places.ts:70`: `runningPlaces` leaves out
  `running_failed`, which its comment (`compiler/types/output.ts:546`) includes.
* Engine v2: an execution that fails while it is cancelled, or around a suspended
  step, can be left with queued rows.

## 7. Plan

Done: the net and its refinement, the attempts, the agent round with its codec,
the marking codec, the analysis and the composed net, the policies, the readers,
the scheduler's run and caches, engine v2 (converter, net, rows, settlement,
shadow, differential), the installer, the verifier, the reference loop and the
comparison.

Left, in order:

1. What dead path elimination promises each node, as a second part of `Execution`
   (decided once: run or skipped).
2. The stranded rows and the destination filter of `write-back.ts`; payload tokens.
3. The second manifest of the installer; the goldens and ledgers of `conformance`.
4. Proofs: what `Settlement` promises under interleaved handlers (`EveryRowIsEarned`,
   `SaidFinishedIsTrue`); `JoinIsCounted` carried over a resume, for rounds of agents
   that are no tools.
