------------------------------ MODULE RoundCodec ------------------------------
(***************************************************************************)
(* Agent rounds in n8n's state (codec/agent-round.ts): the entries an      *)
(* execution that stopped inside a round leaves on nodeExecutionStack, and *)
(* the rounds the next session rebuilds from them.                         *)
(*                                                                         *)
(* An entry is named by its activation.  It is a re-entry if its metadata  *)
(* carries a round, whose actions are then the activation's last request:  *)
(* again is the activations, among those that asked for nothing, whose     *)
(* entry is one.  The order of the stack is left out: entries of one node  *)
(* are told apart by their activation, and an agent has one re-entry.      *)
(***************************************************************************)
EXTENDS AgentRound

-----------------------------------------------------------------------------
(***************************************************************************)
(* Encoding.                                                               *)
(***************************************************************************)

Lies(n, S) == {x \in Acts : node[x] = n /\ at[x] \in S}

\* activationsOf: waiting, stopped before its run, or caught running.
ActivationsOf(n) == Lies(n, {"held", "running"})

\* T/in_tool, A/queue and A/dispatched.
RoundEntriesOf(n) ==
  (Lies(n, {"input"}) \cap Calls)
  \cup {c \in Calls : at[c] = "queued" /\ asker[c] \in queue /\ node[asker[c]] = n}
  \cup Lies(n, {"round"})

\* encodeDirect: what rests on X/in.
InputSide(n) == Lies(n, {"input"}) \cap Mains

\* handleNodeExecutionError pushed the failed entries itself (writeBackHalt).
Pushed == {x \in Acts : at[x] = "halted"}
Stack == Pushed \cup UNION {ActivationsOf(n) \cup RoundEntriesOf(n) \cup InputSide(n) : n \in Nodes}

-----------------------------------------------------------------------------
(***************************************************************************)
(* Decoding: the stack first, then RoundAssembly over what was set aside.  *)
(***************************************************************************)

IsRoundResume(x, again) == node[x] \in Agents /\ (at[x] = "round" \/ actions[x] # {} \/ x \in again)

Resumes(again) == {x \in Stack : IsRoundResume(x, again)}
ToolCalls(again) == {x \in Stack \ Resumes(again) : node[x] \in Tools}
Entered(again) == Stack \ (Resumes(again) \cup ToolCalls(again))

ResumeOf(a, again) == {x \in Resumes(again) : node[x] = a}
Names(a, t, again) == \E x \in ResumeOf(a, again) : \E c \in actions[x] : node[c] = t

FirstAgent(t, again) == {AgentsOf[t][1]}

\* The tool's only agent, or the first whose open round names it.
OwnerOf(t, again) ==
  LET asking == {i \in DOMAIN AgentsOf[t] : Names(AgentsOf[t][i], t, again)}
  IN  IF Len(AgentsOf[t]) = 1 THEN {AgentsOf[t][1]}
      ELSE {AgentsOf[t][i] : i \in {j \in asking : \A k \in asking : j <= k}}

\* An agent that is itself a tool, whom no round claims, is reported and dropped.
Claimed(x, again) == node[x] \notin Tools \/ OwnerOf(node[x], again) # {}

\* materialise: A/dispatched, with A/queue or A/drained, per agent.
Rounds(again) ==
  {[resume |-> x,
    pending |-> {c \in ToolCalls(again) : OwnerOf(node[c], again) = {node[x]}},
    answers |-> IF node[x] \in Tools THEN OwnerOf(node[x], again) ELSE {}] :
     x \in {y \in Resumes(again) : Claimed(y, again)}}

\* The agents that re-enter, with everything collected, as soon as the net starts.
Drained(again) == {node[r.resume] : r \in {s \in Rounds(again) : s.pending = {}}}

-----------------------------------------------------------------------------
(***************************************************************************)
(* Properties.                                                             *)
(***************************************************************************)

AtRest == Quiescent /\ (halt \/ pause \/ closed)
Unfinished == OutStages \cup {"queued"}
Unanswered(x) == {c \in actions[x] : at[c] \in Unfinished}

\* The activations whose entry may or may not carry a round that asked for nothing.
Unread == {x \in Acts : at[x] \in {"held", "running", "halted"} /\ actions[x] = {}}

\* Two re-entries name one tool: the second's calls may be read as the first's.
Contested ==
  \E x, y \in Acts : x # y /\ at[x] = "round" /\ at[y] \in {"round", "held", "running", "halted"} /\
    \E c \in Unanswered(x), d \in actions[y] : node[c] = node[d]

\* A request before A_done_req, or a spent budget before A_run_failed, when the executor
\* closes: no place the encoder reads holds them.
CutOff == \E x \in Acts : at[x] \in {"request", "overrun"}

(***************************************************************************)
(* An execution that stops inside a round resumes in that round ("the      *)
(* resumed run must find the agent mid-round, not asking again",           *)
(* tests/codec/roundtrip.test.ts): it dispatches again the calls that had  *)
(* not ended and no other, answers the agent that dispatched it, and what  *)
(* was caught in a run is run again.                                       *)
(***************************************************************************)
RoundsAreKept ==
  (AtRest /\ ~Contested /\ ~CutOff) =>
    \A again \in SUBSET Unread :
      /\ \A x \in Acts : at[x] = "round" =>
           [resume |-> x, pending |-> Unanswered(x) \ Resumes(again),
            answers |-> IF x \in Calls THEN {node[asker[x]]} ELSE {}] \in Rounds(again)
      /\ \A x \in Acts : at[x] \in {"input", "running", "held", "halted"} =>
           IF x \in Resumes(again) THEN node[x] \in Drained(again)
           ELSE x \in Mains => x \in Entered(again)
      /\ \A r \in Rounds(again) : \A x \in {r.resume} \cup r.pending : at[x] \in Unfinished

(***************************************************************************)
(* An agent re-enters a round when "nothing left to dispatch, nothing      *)
(* still out" (compiler/gadget/agent-round.ts): a resumed session lets     *)
(* none re-enter while a call of its round is unanswered.                  *)
(***************************************************************************)
NothingStillOut == AtRest => \A x \in Acts : at[x] = "round" /\ node[x] \in Drained({}) => Unanswered(x) = {}

(***************************************************************************)
(* The two cases RoundsAreKept leaves out: a paused call goes back to the  *)
(* agent whose round holds it, and an aborted request is on the stack.     *)
(***************************************************************************)
SharedCallsAreKept ==
  AtRest => \A r \in Rounds({}) : \A c \in r.pending : asker[c] = r.resume
RequestsAreKept == AtRest => \A x \in Acts : at[x] = "request" => x \in Stack

=============================================================================
