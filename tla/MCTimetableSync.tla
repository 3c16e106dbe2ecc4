-------------------------- MODULE MCTimetableSync --------------------------
(* Instances of TimetableSync for TLC. *)
EXTENDS TimetableSync, TLC

CONSTANTS k1, k2, k3

Singles == {[keys |-> {k}, force |-> FALSE] : k \in Key}
(* Single requests for k1 and k2, and a forced one for both of them. *)
DemandK1K2 ==
    {[keys |-> {k}, force |-> FALSE] : k \in {k1, k2}} \cup {[keys |-> {k1, k2}, force |-> TRUE]}
NoCoverage == {}
OneCoverage == {{k1}}
OnlyK3 == {k3}
NoKeys == {}

JobPerms == Permutations(JobId)
=============================================================================
