---------------------------- MODULE MCMarkingCodec ----------------------------
(***************************************************************************)
(* Workflows for TLC that are halted, paused or aborted, and resumed.      *)
(***************************************************************************)
EXTENDS MarkingCodec, TLC

Wire(x, o, y, i) == [from |-> x, out |-> o, to |-> y, inp |-> i]
Each(S, v) == [x \in S |-> v]
With(f, x, v) == [f EXCEPT ![x] = v]

(***************************************************************************)
(* A branch to O, one through B, and an unreachable node: O runs once per  *)
(* delivery and feeds both inputs of the join M.  J joins a branch and the *)
(* unreachable node, and names B in an expression.                         *)
(***************************************************************************)
ResumeNodes == {"If", "B", "U", "O", "M", "J"}
ResumeConn ==
  1 :> Wire("If", 0, "O", 0) @@ 2 :> Wire("If", 1, "B", 0)
  @@ 3 :> Wire("B", 0, "O", 0) @@ 4 :> Wire("U", 0, "O", 0)
  @@ 5 :> Wire("O", 0, "M", 0) @@ 6 :> Wire("O", 0, "M", 1)
  @@ 7 :> Wire("If", 0, "J", 0) @@ 8 :> Wire("U", 0, "J", 1)
ResumeReferences == With(Each(ResumeNodes, {}), "J", {"B"})
ResumeRetries == With(Each(ResumeNodes, 0), "J", 1)
ResumeRequired == Each(ResumeNodes, {})

(***************************************************************************)
(* Two branches that meet on one input of a node that waits.               *)
(***************************************************************************)
WaitNodes == {"If", "A", "W"}
WaitConn ==
  1 :> Wire("If", 0, "A", 0) @@ 2 :> Wire("If", 1, "W", 0) @@ 3 :> Wire("A", 0, "W", 0)
WaitReferences == Each(WaitNodes, {})
WaitRetries == Each(WaitNodes, 0)
WaitRequired == Each(WaitNodes, {})

=============================================================================
