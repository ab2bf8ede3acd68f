---------------------------- MODULE MCAgentRound ----------------------------
(***************************************************************************)
(* Agents for TLC: "Outer" has a tool and a sub-agent, "Inner", which      *)
(* shares the tool with it.                                                *)
(***************************************************************************)
EXTENDS RoundCodec, TLC

OuterHome == 0 :> "Outer"
SharedTool == "Tool" :> <<"Outer", "Inner">> @@ "Inner" :> <<"Outer">>
RoundBudgets == "Outer" :> 2 @@ "Inner" :> 1
CallBudgets == "Outer" :> 2 @@ "Inner" :> 1

=============================================================================
