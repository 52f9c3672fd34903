----------------------------- MODULE MCLockfile -----------------------------
(* Instances of Lockfile for TLC. *)
EXTENDS Lockfile, TLC

\* Callers are interchangeable, and so are plugin names.
Symmetry == Permutations(Proc) \cup Permutations(Name)
=============================================================================
