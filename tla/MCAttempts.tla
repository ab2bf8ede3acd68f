----------------------------- MODULE MCAttempts -----------------------------
(***************************************************************************)
(* Nodes for TLC: "Chain" is under a deadline and then continues, "Retry"  *)
(* has n8n's own retryOnFail, once.                                        *)
(***************************************************************************)
EXTENDS Attempts, TLC

OneRetryEach == [n \in Nodes |-> IF n = "Retry" THEN 1 ELSE 0]

=============================================================================
