-------------------------- MODULE MCGradingSummary --------------------------
(* Instances of GradingSummary for TLC. *)
EXTENDS GradingSummary, TLC

(* A form that was filled in by hand, without any details. *)
Handmade == {[status |-> "gv_reviewed", det |-> [c \in Criterion |-> None], total |-> 0,
              grade |-> "high", rank |-> "high"]}

Details == {"det"}
Others == {"status", "total", "grade", "rank"}
Fields == {Details, Others}

Perms == Permutations(Req)
=============================================================================
