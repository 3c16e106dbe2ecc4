-------------------------- MODULE MCBedAssignment --------------------------
(* Instances of BedAssignment for TLC. *)
EXTENDS BedAssignment, TLC

Perms == Permutations(Entry) \cup Permutations(Bed) \cup Permutations(Req)
=============================================================================
