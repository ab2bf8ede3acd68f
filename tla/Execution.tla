------------------------------ MODULE Execution ------------------------------
(***************************************************************************)
(* What one workflow execution promises its activations, whatever net      *)
(* carries them: at most Limit hold a unit of the concurrency at once, at  *)
(* most one of a node is running, a node's runs begin in order and each    *)
(* ends once, a retry spends a try, and once the execution is stopping     *)
(* nothing begins or runs again.                                           *)
(***************************************************************************)
EXTENDS Integers, FiniteSets

CONSTANTS
  Nodes,   \* node names
  Runs,    \* the run numbers of one node
  Limit    \* how many activations may be held at once

VARIABLES
  life,      \* activation -> pending, running, held, done or aside
  tries,     \* node -> the retries it has left
  stopping   \* whether a halt, a pause or an abort came

Activations == Nodes \X Runs
Holding == {a \in Activations : life[a] \in {"running", "held"}}
NoneRunning(x) == \A r \in Runs : life[<<x, r>>] # "running"
Becomes(x, r, s) == life' = [life EXCEPT ![<<x, r>>] = s]

Init ==
  /\ life = [a \in Activations |-> "pending"]
  /\ tries \in [Nodes -> Nat]
  /\ stopping = FALSE

Begin(x, r) ==
  /\ ~stopping /\ Cardinality(Holding) < Limit
  /\ life[<<x, r>>] = "pending" /\ NoneRunning(x)
  /\ \A q \in Runs : q < r => life[<<x, q>>] # "pending"
  /\ Becomes(x, r, "running")
  /\ UNCHANGED <<tries, stopping>>

\* Its outputs are routed, or it failed and rests for a retry.
Rest(x, r) ==
  /\ life[<<x, r>>] = "running"
  /\ Becomes(x, r, "held")
  /\ UNCHANGED <<tries, stopping>>

Retry(x, r) ==
  /\ ~stopping
  /\ life[<<x, r>>] = "held" /\ NoneRunning(x) /\ tries[x] > 0
  /\ Becomes(x, r, "running")
  /\ tries' = [tries EXCEPT ![x] = @ - 1]
  /\ UNCHANGED stopping

Finish(x, r) ==
  /\ life[<<x, r>>] = "held"
  /\ Becomes(x, r, "done")
  /\ UNCHANGED <<tries, stopping>>

\* A failure that halts, a wait or a stop: the activation ends the execution.
SetAside(x, r) ==
  /\ life[<<x, r>>] \in {"running", "held"}
  /\ Becomes(x, r, "aside")
  /\ stopping' = TRUE
  /\ UNCHANGED tries

Abort == stopping' = TRUE /\ UNCHANGED <<life, tries>>

Next ==
  \/ \E x \in Nodes, r \in Runs :
       Begin(x, r) \/ Rest(x, r) \/ Retry(x, r) \/ Finish(x, r) \/ SetAside(x, r)
  \/ Abort

vars == <<life, tries, stopping>>

Spec == Init /\ [][Next]_vars

=============================================================================
