---------------------------- MODULE MCWorkflowNet ----------------------------
(***************************************************************************)
(* Workflows for TLC, one per configuration.                               *)
(***************************************************************************)
EXTENDS WorkflowNet, TLC

\* Edge records, and constant functions over the nodes.
Wire(x, o, y, i) == [from |-> x, out |-> o, to |-> y, inp |-> i]
Each(S, v) == [x \in S |-> v]
With(f, x, v) == [f EXCEPT ![x] = v]

(***************************************************************************)
(* Two branches and an unreachable node on one input of O, which takes     *)
(* them in rounds; branch B also enters the loop of L and X, left for the  *)
(* Merge E: its first input is fed by B itself and by the loop, so that    *)
(* two tokens contend for one slot, its second by U.                       *)
(***************************************************************************)
RoundNodes == {"If", "A", "B", "U", "O", "L", "X", "E"}
RoundConn ==
  1 :> Wire("If", 0, "A", 0) @@ 2 :> Wire("If", 1, "B", 0)
  @@ 3 :> Wire("A", 0, "O", 0) @@ 4 :> Wire("B", 0, "O", 0) @@ 5 :> Wire("U", 0, "O", 0)
  @@ 6 :> Wire("B", 0, "L", 0) @@ 7 :> Wire("L", 0, "X", 0) @@ 8 :> Wire("X", 0, "L", 0)
  @@ 9 :> Wire("L", 1, "E", 0) @@ 10 :> Wire("B", 0, "E", 0) @@ 11 :> Wire("U", 0, "E", 1)
RoundReferences == Each(RoundNodes, {})
RoundRetries == With(Each(RoundNodes, 0), "A", 1)
RoundRequired == Each(RoundNodes, {})

(***************************************************************************)
(* Two branches, A and B, that meet in M, a Merge with a third input fed   *)
(* by a node nothing reaches, U.  A names B in an expression; C, a         *)
(* choose-branch node, needs both T and B, and names U.                    *)
(***************************************************************************)
FailNodes == {"T", "A", "B", "U", "M", "C"}
FailConn ==
  1 :> Wire("T", 0, "A", 0) @@ 2 :> Wire("T", 1, "B", 0)
  @@ 3 :> Wire("A", 0, "M", 0) @@ 4 :> Wire("B", 0, "M", 1) @@ 5 :> Wire("U", 0, "M", 2)
  @@ 6 :> Wire("T", 0, "C", 0) @@ 7 :> Wire("B", 0, "C", 1)
FailReferences == With(With(Each(FailNodes, {}), "A", {"B"}), "C", {"U"})
FailRetries == With(Each(FailNodes, 0), "A", 1)
FailRequired == With(Each(FailNodes, {}), "C", {0, 1})

=============================================================================
