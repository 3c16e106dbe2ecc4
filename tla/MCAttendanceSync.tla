-------------------------- MODULE MCAttendanceSync --------------------------
(* Instances of AttendanceSync for TLC. *)
EXTENDS AttendanceSync, TLC

CONSTANTS a1, a2, a3, s1, s2

OneStudent == [a \in Att |-> s1]

(* Two marks of one student, and one of another. *)
TwoStudents == (a1 :> s1) @@ (a2 :> s1) @@ (a3 :> s2)
=============================================================================
