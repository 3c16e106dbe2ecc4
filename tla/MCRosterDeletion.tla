-------------------------- MODULE MCRosterDeletion --------------------------
(* Instances of RosterDeletion for TLC. *)
EXTENDS RosterDeletion, TLC

Perms == Permutations(Entry) \cup Permutations(Bed) \cup Permutations(Req)
=============================================================================
