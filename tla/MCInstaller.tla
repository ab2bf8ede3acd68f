----------------------------- MODULE MCInstaller -----------------------------
(***************************************************************************)
(* Two created and two replaced files: the seam's three created and four   *)
(* map files repeat the same steps.                                        *)
(***************************************************************************)
EXTENDS Installer, Delta, TLC, HostChecks

McCreated == <<"scheduler", "registry">>
McReplaced == <<"execute", "index">>

Strings(n) == UNION {[1 .. k -> {0, 1}] : k \in 0 .. n}

(* A target rebuilds to itself from the delta encoded for it, which inserts no byte it can copy. *)
ASSUME \A source \in Strings(4), target \in Strings(5) :
         ApplyDelta(source, EncodeDelta(source, target)) = target
ASSUME \A source \in Strings(4) : Len(source) >= Seed => InsertedBytes(EncodeDelta(source, source)) = 0
RunSymmetry == Permutations(Runs)
=============================================================================
