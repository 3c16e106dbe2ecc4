----------------------------- MODULE BedLedger -----------------------------
(***************************************************************************)
(* What the room assignment promises about beds, without requests and      *)
(* their compensations: a bed is free, has one entry, is in the hands of   *)
(* one request, or was lost in a crash.  An entry takes a bed only out of  *)
(* the hands of a request and leaves its old one there.  BedAssignment     *)
(* implements this specification.                                          *)
(***************************************************************************)
EXTENDS Naturals

CONSTANTS Entry, Bed, NoBed

VARIABLES
    place,      \* the bed of each entry
    free,       \* the beds anyone may reserve
    hands,      \* the beds that are being moved
    crashes,
    failed      \* whether a datastore error has come

vars == <<place, free, hands, crashes, failed>>

Init ==
    /\ place = [e \in Entry |-> NoBed]
    /\ free = Bed
    /\ hands = {}
    /\ crashes = 0
    /\ failed = FALSE

Reserve(b) ==
    /\ b \in free
    /\ free' = free \ {b} /\ hands' = hands \cup {b}
    /\ UNCHANGED <<place, crashes>>

(* One student moves, to a bed that nobody else can have.                   *)
Move(e, b) ==
    /\ b \in hands
    /\ place' = [place EXCEPT ![e] = b]
    /\ hands' = (hands \ {b}) \cup ({place[e]} \ {NoBed})
    /\ UNCHANGED <<free, crashes>>

Leave(e) ==
    /\ place[e] # NoBed
    /\ place' = [place EXCEPT ![e] = NoBed]
    /\ hands' = hands \cup {place[e]}
    /\ UNCHANGED <<free, crashes>>

Return(b) ==
    /\ b \in hands
    /\ free' = free \cup {b} /\ hands' = hands \ {b}
    /\ UNCHANGED <<place, crashes>>

(* A crash loses the bed of one request, if it had one in its hands.        *)
Crash ==
    /\ crashes' = crashes + 1
    /\ hands' = hands \/ \E b \in hands : hands' = hands \ {b}
    /\ UNCHANGED <<place, free>>

(* From the first datastore error on nothing is promised.                   *)
Next ==
    \/ failed'
    \/ /\ UNCHANGED failed
       /\ \/ \E b \in Bed : Reserve(b) \/ Return(b) \/ \E e \in Entry : Move(e, b)
          \/ \E e \in Entry : Leave(e)
          \/ Crash

Spec == Init /\ [][Next]_vars
=============================================================================
