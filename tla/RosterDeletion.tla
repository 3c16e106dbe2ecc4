--------------------------- MODULE RosterDeletion ---------------------------
(***************************************************************************)
(* Deleting roster entries while beds are assigned: deleteRosterEntry of   *)
(* the room assignment service, composed with the requests of              *)
(* BedAssignment over the same beds and entries.                           *)
(***************************************************************************)
EXTENDS BedAssignment

(* findById: without a bed the entry is dropped by its id alone. *)
Delete(r, e) ==
    /\ At(r, "idle")
    /\ e \in exists
    /\ op' = [op EXCEPT ![r] = [IdleOp EXCEPT !.e = e, !.cur = entry[e],
                                !.pc = IF entry[e] = NoBed THEN "drop" ELSE "delClear"]]
    /\ UNCHANGED <<bed, exists, entry, crashes, errors>>

Drop(r) ==
    /\ At(r, "drop")
    /\ exists' = exists \ {op[r].e}
    /\ End(r)
    /\ UNCHANGED <<bed, entry, crashes, errors>>

DeleteClear(r) ==
    /\ At(r, "delClear")
    /\ IF EntryHas(op[r].e, op[r].cur)
       THEN entry' = [entry EXCEPT ![op[r].e] = NoBed] /\ Goto(r, "delFree")
       ELSE End(r) /\ UNCHANGED entry
    /\ UNCHANGED <<bed, exists, crashes, errors>>

(* A bed that is not used is not an error here. *)
DeleteFree(r) ==
    /\ At(r, "delFree")
    /\ \/ /\ Release(op[r].cur)
          /\ op' = [op EXCEPT ![r].pc = "delDrop", ![r].released = TRUE]
          /\ UNCHANGED errors
       \/ /\ bed[op[r].cur] # "used"
          /\ Goto(r, "delDrop") /\ UNCHANGED <<bed, errors>>
       \/ /\ errors < MaxErrors /\ errors' = errors + 1
          /\ Goto(r, "delRetake") /\ UNCHANGED bed
    /\ UNCHANGED <<exists, entry, crashes>>

(* The entry is deleted if it still has no bed. *)
DeleteDrop(r) ==
    /\ At(r, "delDrop")
    /\ \/ /\ EntryHas(op[r].e, NoBed)
          /\ exists' = exists \ {op[r].e}
          /\ Goto(r, "delSync") /\ UNCHANGED errors
       \/ /\ ~EntryHas(op[r].e, NoBed)
          /\ Goto(r, "delRetake") /\ UNCHANGED <<exists, errors>>
       \/ /\ errors < MaxErrors /\ errors' = errors + 1
          /\ Goto(r, "delRetake") /\ UNCHANGED exists
    /\ UNCHANGED <<bed, entry, crashes>>

DeleteSync(r) ==
    /\ At(r, "delSync")
    /\ \/ End(r) /\ UNCHANGED errors
       \/ /\ errors < MaxErrors /\ errors' = errors + 1
          /\ Goto(r, "delRetake")
    /\ UNCHANGED <<bed, exists, entry, crashes>>

(* The catch: the bed used again if it is still free, the entry back in it  *)
(* if it still has none; neither depends on the other.                      *)
DeleteRetake(r) ==
    /\ At(r, "delRetake")
    /\ IF op[r].released /\ bed[op[r].cur] = "free" THEN Take(op[r].cur) ELSE UNCHANGED bed
    /\ Goto(r, "delRestore")
    /\ UNCHANGED <<exists, entry, crashes, errors>>

DeleteRestore(r) ==
    /\ At(r, "delRestore")
    /\ entry' = IF EntryHas(op[r].e, NoBed)
                THEN [entry EXCEPT ![op[r].e] = op[r].cur] ELSE entry
    /\ End(r)
    /\ UNCHANGED <<bed, exists, crashes, errors>>

DeleteNext == \E r \in Req :
    \/ Drop(r) \/ DeleteClear(r) \/ DeleteFree(r) \/ DeleteDrop(r) \/ DeleteSync(r)
    \/ DeleteRetake(r) \/ DeleteRestore(r)
    \/ \E e \in Entry : Delete(r, e)

DeletionSpec == Init /\ [][Next \/ DeleteNext]_vars

-----------------------------------------------------------------------------
(* "restores the assignment and occupied bed when deleting the roster entry *)
(* fails": the bed that a failed deletion gives back to its entry has not   *)
(* become the bed of another entry meanwhile.                               *)
FailedDeletionRestoresItsBed ==
    [][\A r \in Req :
         At(r, "delRestore") /\ op'[r].pc # "delRestore" /\ entry' # entry =>
           \A e \in exists : entry[e] # op[r].cur]_vars
=============================================================================
