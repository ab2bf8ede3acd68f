----------------------------- MODULE AgentRound -----------------------------
(***************************************************************************)
(* The agent round (ADR 0008): an agent's run returns a request for tool   *)
(* calls, the net dispatches them, collects their responses and re-enters  *)
(* the agent.  A tool may itself be an agent, and tools may be shared.     *)
(*                                                                         *)
(* An activation is one arrival on an agent's main input, or one tool      *)
(* call; at[x] says which place holds its token, through every round it    *)
(* opens.  The attempts of one run are WorkflowNet's and Attempts' matter: *)
(* here a run takes its token and later lands one outcome.  The actions of *)
(* the other transitions await nothing, so they are one step each.         *)
(*                                                                         *)
(* Left open, as everything that only orders enabled work: priorities, the *)
(* order of the tokens of one place, and the order of a request's calls.   *)
(***************************************************************************)
EXTENDS Integers, FiniteSets, Sequences

CONSTANTS
  None,
  Nodes, Agents, Tools,   \* a node in both is an agent used as a tool
  Mains,                  \* arrivals on the agents' main inputs
  Home,                   \* arrival -> its agent
  AgentsOf,               \* tool -> the agents it is wired to, in wiring order
  Calls,                  \* bound: the tool calls the agents may ask for
  MaxAsk,                 \* bound: calls of one request
  K,                      \* the concurrency budget
  MaxRounds, MaxToolCalls,  \* agent -> its two budgets
  AskedOnce,              \* bound: agents no request names twice
  MayPause,               \* bound: nodes whose run may wait, or stop before it ran
  MayHalt,                \* bound: nodes whose run may halt the workflow
  MayCancel               \* bound: whether the host may abort

ToolsOf(a) == {t \in Tools : \E i \in DOMAIN AgentsOf[t] : AgentsOf[t][i] = a}

ASSUME AgentAssumption ==
  /\ Agents \subseteq Nodes /\ Tools \subseteq Nodes
  /\ IsFiniteSet(Calls) /\ Calls \subseteq Nat /\ IsFiniteSet(Mains)
  /\ Mains \cap Calls = {} /\ None \notin Calls \cup Mains /\ None \notin Nodes
  /\ Home \in [Mains -> Agents \ Tools]   \* a tool has no main producer
  /\ AgentsOf \in [Tools -> Seq(Agents)] /\ \A t \in Agents \cap Tools : t \notin ToolsOf(t)
  /\ K \in Nat \ {0} /\ MaxRounds \in [Agents -> Nat] /\ MaxToolCalls \in [Agents -> Nat]

VARIABLES
  budget, halt, pause, closed,
  idle,         \* node -> whether X/idle is marked
  at,           \* activation -> the place that holds its token
  node,         \* activation -> its node; None for a call not asked for yet
  asker,        \* call -> the activation whose round holds it
  actions,      \* activation -> the calls of its last request
  routed,       \* activations whose unit waits for X_done
  queue,        \* activations whose request token is on A/queue
  drained, outstanding, response,   \* agent -> tokens
  rounds, calls                     \* agent -> units left of its two budgets

control == <<halt, pause, closed>>
roundSide == <<asker, actions, queue, drained, outstanding, response, rounds, calls>>
vars == <<budget, control, idle, at, node, routed, roundSide>>

Acts == Calls \cup Mains

\* Where a call is between its dispatch and its answer; the first four keep X/idle.
OutStages == {"running", "overrun", "flying", "failing", "input", "request", "round", "held", "halted"}
Stages == OutStages \cup {"none", "queued", "answered", "dropped"}

Asked(x) == {c \in Calls : asker[c] = x}
Pending(x) == {c \in Asked(x) : at[c] = "queued"}
Unasked == {c \in Calls : at[c] = "none"}

Init ==
  /\ budget = K /\ halt = FALSE /\ pause = FALSE /\ closed = FALSE
  /\ idle = [n \in Nodes |-> TRUE]
  /\ at = [x \in Acts |-> IF x \in Mains THEN "input" ELSE "none"]
  /\ node = [x \in Acts |-> IF x \in Mains THEN Home[x] ELSE None]
  /\ asker = [c \in Calls |-> None]
  /\ actions = [x \in Acts |-> {}]
  /\ routed = {} /\ queue = {}
  /\ drained = [a \in Agents |-> 0]
  /\ outstanding = [a \in Agents |-> 0]
  /\ response = [a \in Agents |-> 0]
  /\ rounds = MaxRounds /\ calls = MaxToolCalls

-----------------------------------------------------------------------------
(***************************************************************************)
(* One activation's run.                                                   *)
(***************************************************************************)

Moves(x, s) == at' = [at EXCEPT ![x] = s]
Takes(n) == budget > 0 /\ idle[n] /\ budget' = budget - 1 /\ idle' = [idle EXCEPT ![n] = FALSE]
Releases(n) == idle' = [idle EXCEPT ![n] = TRUE]
Adds(f, a, i) == f' = [f EXCEPT ![a] = @ + i]

\* What a closed executor, a halted net and a paused one still fire.
Firing == ~closed
Progressing == ~closed /\ ~halt
Starting == ~closed /\ ~halt /\ ~pause

\* X_start, off X/in or T/in_tool.
Start(x) ==
  /\ Starting
  /\ at[x] = "input" /\ Takes(node[x])
  /\ Moves(x, "running")
  /\ UNCHANGED <<control, node, routed, roundSide>>

\* X_run, and A_run_failed off A/running_failed.
Run(x) ==
  /\ Firing
  /\ \/ at[x] = "running" /\ Moves(x, "flying")
     \/ at[x] = "overrun" /\ Moves(x, "failing")
  /\ UNCHANGED <<budget, control, idle, node, routed, roundSide>>

Landing(x) == at[x] \in {"flying", "failing"} /\ Releases(node[x])

RespondsToFirst(x) ==
  IF x \in Calls THEN Adds(response, AgentsOf[node[x]][1], 1) ELSE UNCHANGED response

\* A tool's output goes to the agent whose round dispatched it.
Responds(x) ==
  IF x \in Calls THEN Adds(response, node[asker[x]], 1) ELSE UNCHANGED response

RunSucceeds(x) ==
  /\ Landing(x) /\ Moves(x, "answered") /\ Responds(x)
  /\ routed' = routed \cup {x}
  /\ UNCHANGED <<budget, control, node, asker, actions, queue, drained, outstanding, rounds, calls>>

RunHalts(x) ==
  /\ node[x] \in MayHalt
  /\ Landing(x) /\ Moves(x, "halted")
  /\ halt' = TRUE /\ budget' = budget + 1
  /\ UNCHANGED <<pause, closed, node, routed, roundSide>>

\* X/waiting, or X/stopped of a run that did not happen.
RunPauses(x) ==
  /\ node[x] \in MayPause /\ at[x] = "flying"
  /\ Landing(x) /\ Moves(x, "held")
  /\ pause' = TRUE /\ budget' = budget + 1
  /\ UNCHANGED <<halt, closed, node, routed, roundSide>>

\* The calls of a request name tools wired to the agent (assertWired).
Requests(a, S) ==
  {f \in [S -> ToolsOf(a)] : \A c, d \in S : f[c] = f[d] /\ f[c] \in AskedOnce => c = d}
LowestOf(S, T) == \A c \in S, d \in T \ S : c < d

\* The node returned an EngineRequest; the empty one asks for nothing.
RunRequests(x, S, f) ==
  /\ node[x] \in Agents /\ at[x] = "flying" /\ Landing(x)
  /\ S \subseteq Unasked
  /\ at' = [y \in Acts |-> IF y = x THEN "request" ELSE IF y \in S THEN "queued" ELSE at[y]]
  /\ node' = [y \in Acts |-> IF y \in S THEN f[y] ELSE node[y]]
  /\ asker' = [c \in Calls |-> IF c \in S THEN x ELSE asker[c]]
  /\ actions' = [actions EXCEPT ![x] = S]
  /\ UNCHANGED <<budget, control, routed, queue, drained, outstanding, response, rounds, calls>>

\* X_done gives the unit of a success back one cycle later.
Done(x) ==
  /\ Firing
  /\ x \in routed /\ routed' = routed \ {x}
  /\ budget' = budget + 1
  /\ UNCHANGED <<control, idle, at, node, roundSide>>

-----------------------------------------------------------------------------
(***************************************************************************)
(* The round.                                                              *)
(***************************************************************************)

RequeuesAllButLast(x, left) ==
  IF Cardinality(left) <= 1
  THEN Adds(drained, node[x], 1) /\ queue' = queue \ {x}
  ELSE queue' = queue \cup {x} /\ UNCHANGED drained

\* requeue: the request goes back onto A/queue while it has calls left.
Requeues(x, left) ==
  IF left = {}
  THEN Adds(drained, node[x], 1) /\ queue' = queue \ {x}
  ELSE queue' = queue \cup {x} /\ UNCHANGED drained

DoneReq(x) ==
  /\ Firing
  /\ at[x] = "request" /\ Moves(x, "round")
  /\ budget' = budget + 1
  /\ Requeues(x, Pending(x))
  /\ UNCHANGED <<control, idle, node, asker, actions, routed, outstanding, response, rounds, calls>>

Dispatch(x, c) ==
  /\ Starting
  /\ x \in queue /\ c \in Pending(x) /\ calls[node[x]] > 0
  /\ Moves(c, "input")
  /\ Adds(calls, node[x], -1) /\ Adds(outstanding, node[x], 1)
  /\ Requeues(x, Pending(x) \ {c})
  /\ UNCHANGED <<budget, control, idle, node, asker, actions, routed, response, rounds>>

Collect(a) ==
  /\ Firing
  /\ outstanding[a] > 0 /\ response[a] > 0
  /\ Adds(outstanding, a, -1) /\ Adds(response, a, -1)
  /\ UNCHANGED <<budget, control, idle, at, node, asker, actions, routed, queue, drained, rounds, calls>>

\* Nothing left to dispatch, nothing still out.
Complete(a) == drained[a] > 0 /\ outstanding[a] = 0

RoundLeft(a) == rounds[a] > 0

Resume(x) ==
  LET a == node[x] IN
  /\ Starting
  /\ at[x] = "round" /\ Complete(a) /\ RoundLeft(a)
  /\ Takes(a) /\ Moves(x, "running")
  /\ Adds(drained, a, -1) /\ Adds(rounds, a, -1)
  /\ UNCHANGED <<control, node, asker, actions, routed, queue, outstanding, response, calls>>

CallsSpentWithRounds(a) == calls[a] = 0 /\ outstanding[a] = 0 /\ ~RoundLeft(a)

CallsSpent(a) == calls[a] = 0 /\ outstanding[a] = 0

\* The tool-call budget is spent: the re-entry fails, the request y is gone.
CallsOut(x, y) ==
  LET a == node[x] IN
  /\ Starting
  /\ at[x] = "round" /\ y \in queue /\ node[y] = a /\ CallsSpent(a)
  /\ Takes(a)
  /\ at' = [z \in Acts |-> IF z = x THEN "overrun" ELSE IF z \in Pending(y) THEN "dropped" ELSE at[z]]
  /\ queue' = queue \ {y}
  /\ UNCHANGED <<control, node, asker, actions, routed, drained, outstanding, response, rounds, calls>>

\* The round budget is spent: the re-entry stops, to be written back.
RoundsOut(x) ==
  LET a == node[x] IN
  /\ Progressing
  /\ at[x] = "round" /\ Complete(a) /\ ~RoundLeft(a)
  /\ Moves(x, "held") /\ pause' = TRUE
  /\ Adds(drained, a, -1)
  /\ UNCHANGED <<budget, halt, closed, idle, node, asker, actions, routed, queue, outstanding, response,
                 rounds, calls>>

\* host.abortSignal -> executor.close(): nothing fires any more, what flies lands.
Cancel ==
  /\ MayCancel /\ ~closed /\ closed' = TRUE
  /\ UNCHANGED <<budget, halt, pause, idle, at, node, routed, roundSide>>

Fire ==
  \/ \E x \in Acts : Start(x) \/ Run(x) \/ Done(x) \/ DoneReq(x) \/ Resume(x) \/ RoundsOut(x)
  \/ \E x \in Acts, c \in Calls : Dispatch(x, c)
  \/ \E x, y \in Acts : CallsOut(x, y)
  \/ \E a \in Agents : Collect(a)

\* The bound on requests: the lowest calls not asked for yet, at most MaxAsk.
Land ==
  \E x \in Acts :
    \/ RunSucceeds(x) \/ RunHalts(x) \/ RunPauses(x)
    \/ /\ node[x] \in Agents /\ at[x] = "flying"
       /\ \E S \in SUBSET Unasked :
            /\ Cardinality(S) <= MaxAsk /\ LowestOf(S, Unasked)
            /\ \E f \in Requests(node[x], S) : RunRequests(x, S, f)

Next == Fire \/ Land \/ Cancel

Spec == Init /\ [][Next]_vars

\* What A_resume, A_rounds_out and A_calls_out find on the round's side.
Collected(x) == at[x] = "round" /\ Complete(node[x])
Overdrawn(x) == at[x] = "round" /\ CallsSpent(node[x]) /\ \E y \in queue : node[y] = node[x]

Startable(x) ==
  /\ at[x] = "input" \/ (Collected(x) /\ RoundLeft(node[x])) \/ Overdrawn(x)
  /\ budget > 0 /\ idle[node[x]]

\* Nothing is enabled and no run is out.
Quiescent ==
  /\ \A x \in Acts : at[x] \notin {"flying", "failing"}
  /\ Firing => /\ routed = {}
               /\ \A x \in Acts : at[x] \notin {"running", "overrun", "request"}
               /\ \A a \in Agents : outstanding[a] = 0 \/ response[a] = 0
  /\ Progressing => \A x \in Acts : Collected(x) => RoundLeft(node[x])
  /\ Starting => /\ \A x \in Acts : ~Startable(x)
                 /\ \A x \in queue : calls[node[x]] = 0 \/ Pending(x) = {}

Rest == Quiescent /\ UNCHANGED vars

\* The executor fires while anything is enabled, every run lands, and an execution ends
\* only at rest.
FairSpec == Init /\ [][Next \/ Rest]_vars /\ WF_vars(Fire \/ Land)

-----------------------------------------------------------------------------
(***************************************************************************)
(* Properties.                                                             *)
(***************************************************************************)

TypeOK ==
  /\ budget \in Nat /\ halt \in BOOLEAN /\ pause \in BOOLEAN /\ closed \in BOOLEAN
  /\ idle \in [Nodes -> BOOLEAN]
  /\ at \in [Acts -> Stages] /\ node \in [Acts -> Nodes \cup {None}]
  /\ asker \in [Calls -> Acts \cup {None}] /\ actions \in [Acts -> SUBSET Calls]
  /\ routed \subseteq Acts /\ queue \subseteq Acts
  /\ drained \in [Agents -> Nat] /\ outstanding \in [Agents -> Nat] /\ response \in [Agents -> Nat]
  /\ rounds \in [Agents -> Nat] /\ calls \in [Agents -> Nat]

(***************************************************************************)
(* A/outstanding counts what the round waits for: the calls dispatched and *)
(* not answered, wherever they run, wait, failed or opened rounds of their *)
(* own, and the answers not collected yet.                                 *)
(***************************************************************************)
OutOf(a) == {c \in Calls : asker[c] # None /\ node[asker[c]] = a /\ at[c] \in OutStages}
JoinAccounts == \A a \in Agents : outstanding[a] = response[a] + Cardinality(OutOf(a))

\* "One round is live per agent" (compiler/gadget/agent-places.ts:44): X/idle is its mutex.
LiveRounds(a) == {x \in Acts : node[x] = a /\ at[x] \in {"request", "round"}}
OneRoundPerAgent == \A a \in Agents : Cardinality(LiveRounds(a)) <= 1

\* An agent re-enters a round only when every call it asked for has answered.
ResumesWhole ==
  [][\A x \in Acts : at[x] = "round" /\ at'[x] = "running" =>
       \A c \in actions[x] : at[c] = "answered"]_vars

\* An open round is re-entered, or the execution stops.
RoundsEnd == \A x \in Acts : at[x] = "round" ~> (at[x] # "round" \/ halt \/ pause \/ closed)

=============================================================================
