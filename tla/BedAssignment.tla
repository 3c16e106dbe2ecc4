---------------------------- MODULE BedAssignment ----------------------------
(***************************************************************************)
(* Giving beds to roster entries: src/backend/src/dormitory, the requests  *)
(* assignRoom, assignFirstAvailableBed and unassignRoom of the room        *)
(* assignment service for entries without an active contract.              *)
(*                                                                         *)
(* Beds and entries are separate documents and nothing spans them: a       *)
(* request reserves the new bed, moves the entry with a conditional        *)
(* update, then releases the old bed, and compensates when a later call    *)
(* fails.  Every action is one datastore call.  Rooms are open, so that    *)
(* the checks of a room's state pass, and the refresh of its availability  *)
(* counters is a call that can fail and changes nothing that is kept here. *)
(***************************************************************************)
EXTENDS Naturals, FiniteSets

CONSTANTS
    Entry,      \* roster entries
    Bed,        \* beds
    Req,        \* requests in flight at one time
    NoBed, NoEntry,
    Attempts,   \* the 3 of assignFirstAvailableBed
    MaxCrashes, \* bound: crashes between two calls of a request
    MaxErrors   \* bound: datastore errors inside a try block

ASSUME ConstantsAssumption ==
    /\ NoBed \notin Bed
    /\ NoEntry \notin Entry
    /\ Attempts \in Nat /\ MaxCrashes \in Nat /\ MaxErrors \in Nat

VARIABLES
    bed,        \* status of each bed: "free" or "used"
    exists,     \* the entries in the collection
    entry,      \* bed_id of each entry
    op,         \* the requests
    crashes, errors

vars == <<bed, exists, entry, op, crashes, errors>>

-----------------------------------------------------------------------------
(* A request: the entry and bed it is about, the bed it has read as the     *)
(* entry's current one, and for assignFirstAvailableBed the attempts left.  *)
IdleOp == [pc |-> "idle", e |-> NoEntry, new |-> NoBed, cur |-> NoBed,
           first |-> FALSE, left |-> 0, released |-> FALSE]

At(r, pc) == op[r].pc = pc
Goto(r, pc) == op' = [op EXCEPT ![r].pc = pc]
End(r) == op' = [op EXCEPT ![r] = IdleOp]

(* Mutant: the reservation ignores the status. *)
ReserveAny(b) == /\ b \in Bed
                 /\ bed' = [bed EXCEPT ![b] = "used"]

(* reserveBed and the release of a bed are conditional on the status. *)
Take(b) == bed[b] = "free" /\ bed' = [bed EXCEPT ![b] = "used"]
Release(b) == bed[b] = "used" /\ bed' = [bed EXCEPT ![b] = "free"]

(* Mutant: the filter names the entry only. *)
CurrentEntry(e, b) == e \in exists

(* The filter of the conditional updates of an entry. *)
EntryHas(e, b) == e \in exists /\ entry[e] = b

-----------------------------------------------------------------------------
(* assignRoom, assignFirstAvailableBed *)

Assign(r, e, b) ==
    /\ At(r, "idle")
    /\ op' = [op EXCEPT ![r] = [IdleOp EXCEPT !.pc = "read", !.e = e, !.new = b]]
    /\ UNCHANGED <<bed, exists, entry, crashes, errors>>

AssignFirst(r, e) ==
    /\ At(r, "idle")
    /\ op' = [op EXCEPT ![r] = [IdleOp EXCEPT !.pc = "find", !.e = e, !.first = TRUE,
                                              !.left = Attempts]]
    /\ UNCHANGED <<bed, exists, entry, crashes, errors>>

(* Mutant: the attempts are counted down past zero. *)
FindBedOnceMore(r) ==
    /\ At(r, "find")
    /\ \E b \in Bed : /\ bed[b] = "free"
                     /\ op' = [op EXCEPT ![r].pc = "read", ![r].new = b, ![r].left = @ - 1]
    /\ UNCHANGED <<bed, exists, entry, crashes, errors>>

(* The first free bed of the room, in an order this model leaves open. *)
FindBed(r) ==
    /\ At(r, "find")
    /\ \/ /\ op[r].left > 0
          /\ \E b \in Bed : /\ bed[b] = "free"
                            /\ op' = [op EXCEPT ![r].pc = "read", ![r].new = b, ![r].left = @ - 1]
       \/ /\ op[r].left = 0 \/ \A b \in Bed : bed[b] # "free"
          /\ End(r)
    /\ UNCHANGED <<bed, exists, entry, crashes, errors>>

AssignRead(r) ==
    /\ At(r, "read")
    /\ IF op[r].e \in exists /\ entry[op[r].e] # op[r].new
       THEN op' = [op EXCEPT ![r].pc = "reserve", ![r].cur = entry[op[r].e]]
       ELSE End(r)
    /\ UNCHANGED <<bed, exists, entry, crashes, errors>>

Reserve(r) ==
    /\ At(r, "reserve")
    /\ \/ Take(op[r].new) /\ Goto(r, "move")
       \/ /\ bed[op[r].new] # "free"
          /\ IF op[r].first THEN Goto(r, "find") ELSE End(r)
          /\ UNCHANGED bed
    /\ UNCHANGED <<exists, entry, crashes, errors>>

(* Mutant: the refused move forgets the bed it has reserved. *)
MoveAndForget(r) ==
    /\ At(r, "move")
    /\ IF EntryHas(op[r].e, op[r].cur)
       THEN /\ entry' = [entry EXCEPT ![op[r].e] = op[r].new]
            /\ Goto(r, IF op[r].cur = NoBed THEN "sync" ELSE "freeOld")
       ELSE End(r) /\ UNCHANGED entry
    /\ UNCHANGED <<bed, exists, crashes, errors>>

(* The entry moves only from where the request has read it. *)
Move(r) ==
    /\ At(r, "move")
    /\ \/ /\ EntryHas(op[r].e, op[r].cur)
          /\ entry' = [entry EXCEPT ![op[r].e] = op[r].new]
          /\ Goto(r, IF op[r].cur = NoBed THEN "sync" ELSE "freeOld")
          /\ UNCHANGED errors
       \/ /\ ~EntryHas(op[r].e, op[r].cur)
          /\ Goto(r, "undo") /\ UNCHANGED <<entry, errors>>
       \/ /\ errors < MaxErrors /\ errors' = errors + 1
          /\ Goto(r, "undo") /\ UNCHANGED entry
    /\ UNCHANGED <<bed, exists, crashes>>

(* The entry has not moved: give the reservation back. *)
UndoReserve(r) ==
    /\ At(r, "undo")
    /\ Release(op[r].new) \/ (bed[op[r].new] # "used" /\ UNCHANGED bed)
    /\ End(r)
    /\ UNCHANGED <<exists, entry, crashes, errors>>

FreeOld(r) ==
    /\ At(r, "freeOld")
    /\ \/ Release(op[r].cur) /\ Goto(r, "sync") /\ UNCHANGED errors
       \/ /\ bed[op[r].cur] # "used"
          /\ Goto(r, "back") /\ UNCHANGED <<bed, errors>>
       \/ /\ errors < MaxErrors /\ errors' = errors + 1
          /\ Goto(r, "back") /\ UNCHANGED bed
    /\ UNCHANGED <<exists, entry, crashes>>

(* syncRooms, the last call of the try block. *)
Sync(r) ==
    /\ At(r, "sync")
    /\ \/ End(r) /\ UNCHANGED errors
       \/ /\ errors < MaxErrors /\ errors' = errors + 1
          /\ Goto(r, "back")
    /\ UNCHANGED <<bed, exists, entry, crashes>>

(* The catch of assignRoom: the entry back, the new bed free, the old bed   *)
(* used, each by a conditional update whose result is not looked at.        *)
BackEntry(r) ==
    /\ At(r, "back")
    /\ entry' = IF EntryHas(op[r].e, op[r].new)
                THEN [entry EXCEPT ![op[r].e] = op[r].cur] ELSE entry
    /\ Goto(r, "backNew")
    /\ UNCHANGED <<bed, exists, crashes, errors>>

BackNew(r) ==
    /\ At(r, "backNew")
    /\ Release(op[r].new) \/ (bed[op[r].new] # "used" /\ UNCHANGED bed)
    /\ Goto(r, "backOld")
    /\ UNCHANGED <<exists, entry, crashes, errors>>

BackOld(r) ==
    /\ At(r, "backOld")
    /\ IF op[r].cur # NoBed /\ bed[op[r].cur] = "free" THEN Take(op[r].cur) ELSE UNCHANGED bed
    /\ End(r)
    /\ UNCHANGED <<exists, entry, crashes, errors>>

-----------------------------------------------------------------------------
(* unassignRoom *)

Unassign(r, e) ==
    /\ At(r, "idle")
    /\ e \in exists /\ entry[e] # NoBed
    /\ op' = [op EXCEPT ![r] = [IdleOp EXCEPT !.pc = "clear", !.e = e, !.cur = entry[e]]]
    /\ UNCHANGED <<bed, exists, entry, crashes, errors>>

Clear(r) ==
    /\ At(r, "clear")
    /\ IF EntryHas(op[r].e, op[r].cur)
       THEN entry' = [entry EXCEPT ![op[r].e] = NoBed] /\ Goto(r, "freeCur")
       ELSE End(r) /\ UNCHANGED entry
    /\ UNCHANGED <<bed, exists, crashes, errors>>

FreeCur(r) ==
    /\ At(r, "freeCur")
    /\ \/ Release(op[r].cur) /\ Goto(r, "unsync") /\ UNCHANGED errors
       \/ /\ bed[op[r].cur] # "used"
          /\ Goto(r, "restore") /\ UNCHANGED <<bed, errors>>
       \/ /\ errors < MaxErrors /\ errors' = errors + 1
          /\ Goto(r, "restore") /\ UNCHANGED bed
    /\ UNCHANGED <<exists, entry, crashes>>

UnassignSync(r) ==
    /\ At(r, "unsync")
    /\ \/ End(r) /\ UNCHANGED errors
       \/ /\ errors < MaxErrors /\ errors' = errors + 1
          /\ Goto(r, "restore")
    /\ UNCHANGED <<bed, exists, entry, crashes>>

(* The catch of unassignRoom gives the entry its bed back; the bed itself   *)
(* stays as it is, free if the failure came after its release.              *)
Restore(r) ==
    /\ At(r, "restore")
    /\ entry' = IF EntryHas(op[r].e, NoBed)
                THEN [entry EXCEPT ![op[r].e] = op[r].cur] ELSE entry
    /\ End(r)
    /\ UNCHANGED <<bed, exists, crashes, errors>>

-----------------------------------------------------------------------------
Crash(r) ==
    /\ ~At(r, "idle")
    /\ crashes < MaxCrashes /\ crashes' = crashes + 1
    /\ End(r)
    /\ UNCHANGED <<bed, exists, entry, errors>>

Init ==
    /\ bed = [b \in Bed |-> "free"]
    /\ exists = Entry
    /\ entry = [e \in Entry |-> NoBed]
    /\ op = [r \in Req |-> IdleOp]
    /\ crashes = 0
    /\ errors = 0

Step(r) ==
    \/ FindBed(r) \/ AssignRead(r) \/ Reserve(r) \/ Move(r) \/ UndoReserve(r)
    \/ FreeOld(r) \/ Sync(r) \/ BackEntry(r) \/ BackNew(r) \/ BackOld(r)
    \/ Clear(r) \/ FreeCur(r) \/ UnassignSync(r) \/ Restore(r)

Next == \E r \in Req :
    \/ Step(r)
    \/ \E e \in Entry : AssignFirst(r, e) \/ Unassign(r, e) \/ \E b \in Bed : Assign(r, e, b)
    \/ Crash(r)

Spec == Init /\ [][Next]_vars

-----------------------------------------------------------------------------
(* Properties *)

PCs == {"idle", "find", "read", "reserve", "move", "undo", "freeOld", "sync", "back", "backNew",
        "backOld", "clear", "freeCur", "unsync", "restore", "drop", "delClear", "delFree",
        "delDrop", "delSync", "delRetake", "delRestore"}

OpRecord == [pc : PCs, e : Entry \cup {NoEntry}, new : Bed \cup {NoBed},
             cur : Bed \cup {NoBed}, first : BOOLEAN, left : Nat, released : BOOLEAN]

(* Types; a request works for an entry, knows the bed it is to reserve from *)
(* its first read on, and releases a bed only if it has read one.           *)
TypeOK ==
    /\ bed \in [Bed -> {"free", "used"}]
    /\ exists \subseteq Entry
    /\ entry \in [Entry -> Bed \cup {NoBed}]
    /\ op \in [Req -> OpRecord]
    /\ \A r \in Req :
         /\ op[r].pc # "idle" => op[r].e \in Entry
         /\ op[r].pc \in {"read", "reserve", "move", "undo", "freeOld", "sync", "back", "backNew"}
              => op[r].new \in Bed
         /\ op[r].pc \in {"freeOld", "clear", "freeCur", "unsync", "restore"} => op[r].cur \in Bed
    /\ crashes \in Nat /\ errors \in Nat

(* Two entries never have the same bed, however the requests interleave and *)
(* wherever one of them crashes; a datastore error inside a request that is *)
(* rolled back is the one thing that can break it.                          *)
NoDoubleOccupancy ==
    errors = 0 => \A e, f \in exists : entry[e] = entry[f] /\ entry[e] # NoBed => e = f

(* A bed that an entry has is marked used, so that nobody else can reserve  *)
(* it: the old bed is released only after the entry has left it.            *)
OccupiedBedIsUsed ==
    errors = 0 => \A e \in exists : entry[e] # NoBed => bed[entry[e]] = "used"

(* When all requests have ended and none has crashed, no bed is marked used *)
(* without an entry: a request that lost a race gives its bed back.         *)
NoBedLost ==
    errors = 0 /\ crashes = 0 /\ (\A r \in Req : At(r, "idle")) =>
        \A b \in Bed : bed[b] = "used" => \E e \in exists : entry[e] = b

(* The bed that a request has reserved and not yet moved an entry to, or    *)
(* that an entry has left and it has not yet released.                      *)
Holding(r) ==
    IF op[r].pc \in {"move", "undo"} THEN op[r].new
    ELSE IF op[r].pc \in {"freeOld", "freeCur"} THEN op[r].cur ELSE NoBed

(* The three properties above and the order in which a bed changes hands,   *)
(* as an abstract specification: no request ever moves, releases or loses   *)
(* a bed but the one it holds, and a crash loses one bed at most.           *)
Transfers == INSTANCE BedLedger WITH
    Entry <- Entry, Bed <- Bed, NoBed <- NoBed,
    place <- entry, free <- {b \in Bed : bed[b] = "free"},
    hands <- {Holding(r) : r \in Req} \ {NoBed}, crashes <- crashes, failed <- errors > 0
ImplementsLedger == Transfers!Spec
=============================================================================
