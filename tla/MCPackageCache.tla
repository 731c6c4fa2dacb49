--------------------------- MODULE MCPackageCache ---------------------------
(* Small instances of PackageCache for TLC. *)
EXTENDS PackageCache, TLC

CONSTANTS b1, b2, p1, p2

Internal == [p \in Pkgs |-> "internal"]
ProcSymmetry == Permutations(Procs)
=============================================================================
