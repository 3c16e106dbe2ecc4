---------------------------- MODULE SnapshotFeed ----------------------------
(***************************************************************************)
(* What the timetable synchronisation promises to the readers of the       *)
(* snapshots, with no workers, queue or lease: each class-week shows an    *)
(* answer of the adapter, and none that was given before the one it        *)
(* replaces.  TimetableSync implements this specification.                 *)
(***************************************************************************)
EXTENDS Naturals

CONSTANTS Key, MaxTime

VARIABLES snapshot, clock

Init ==
    /\ snapshot = [k \in Key |-> 0]
    /\ clock = 0

(* One class-week is published, with an answer no earlier than its last.    *)
Publish(k) ==
    /\ \E v \in snapshot[k]..clock : snapshot' = [snapshot EXCEPT ![k] = v]
    /\ UNCHANGED clock

TimePasses ==
    /\ clock < MaxTime
    /\ clock' = clock + 1
    /\ UNCHANGED snapshot

Next == (\E k \in Key : Publish(k)) \/ TimePasses

Spec == Init /\ [][Next]_<<snapshot, clock>>
=============================================================================
