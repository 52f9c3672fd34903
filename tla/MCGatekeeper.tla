---------------------------- MODULE MCGatekeeper ----------------------------
(***************************************************************************)
(* Instances of Gatekeeper for TLC.  Capability "var" is a narrow          *)
(* environment variable, "sh" a broad command, "kv" a key-value rule.      *)
(***************************************************************************)
EXTENDS Gatekeeper, TLC

MCKindOf == [c \in Cap |-> CASE c = "var" -> "env"
                             [] c = "sh"  -> "exec"
                             [] c = "kv"  -> "kv"]
MCBroad == {"sh"}

\* Processes are interchangeable: nothing in the model tells them apart.
Symmetry == Permutations(Proc)
=============================================================================
