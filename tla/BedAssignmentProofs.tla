------------------------ MODULE BedAssignmentProofs ------------------------
(***************************************************************************)
(* Theorems about BedAssignment, for every set of entries, beds and        *)
(* requests and any number of crashes: who has a bed, and that every step  *)
(* is one of BedLedger.                                                    *)
(***************************************************************************)
EXTENDS BedAssignment, TLAPS

-----------------------------------------------------------------------------
(* Type correctness *)

LEMMA IdleType ==
    /\ IdleOp \in OpRecord
    /\ IdleOp.pc = "idle"
BY DEF IdleOp, OpRecord, PCs

(* What a request is while it works: the conjuncts of TypeOK about one      *)
(* request.                                                                 *)
OpOK(o) ==
    /\ o \in OpRecord
    /\ o.pc # "idle" => o.e \in Entry
    /\ o.pc \in {"read", "reserve", "move", "undo", "freeOld", "sync", "back", "backNew"}
         => o.new \in Bed
    /\ o.pc \in {"freeOld", "clear", "freeCur", "unsync", "restore"} => o.cur \in Bed

LEMMA TypeByRequest ==
    TypeOK <=> /\ bed \in [Bed -> {"free", "used"}]
               /\ exists \subseteq Entry
               /\ entry \in [Entry -> Bed \cup {NoBed}]
               /\ op = [r \in Req |-> op[r]]
               /\ \A r \in Req : OpOK(op[r])
               /\ crashes \in Nat /\ errors \in Nat
BY DEF TypeOK, OpOK

LEMMA NewRequests ==
    ASSUME NEW e \in Entry, Attempts \in Nat
    PROVE  /\ OpOK([IdleOp EXCEPT !.pc = "find", !.e = e, !.first = TRUE, !.left = Attempts])
           /\ \A b \in Bed : /\ OpOK([IdleOp EXCEPT !.pc = "read", !.e = e, !.new = b])
                             /\ OpOK([IdleOp EXCEPT !.pc = "clear", !.e = e, !.cur = b])
BY DEF OpOK, OpRecord, IdleOp, PCs

(* A step replaces the record of one request.                               *)
LEMMA OneRequest ==
    ASSUME TypeOK, NEW r \in Req, NEW o, OpOK(o), op' = [op EXCEPT ![r] = o],
           bed' \in [Bed -> {"free", "used"}], exists' \subseteq Entry,
           entry' \in [Entry -> Bed \cup {NoBed}], crashes' \in Nat, errors' \in Nat
    PROVE  TypeOK'
<1>1. op \in [Req -> OpRecord] /\ \A q \in Req : OpOK(op[q])
  BY TypeByRequest DEF TypeOK
<1>2. op' \in [Req -> OpRecord] /\ \A q \in Req : OpOK(op'[q])
  BY <1>1 DEF OpOK
<1> QED BY <1>2 DEF TypeOK, OpOK

LEMMA EndType ==
    ASSUME TypeOK, NEW r \in Req, End(r),
           bed' \in [Bed -> {"free", "used"}], exists' \subseteq Entry,
           entry' \in [Entry -> Bed \cup {NoBed}], crashes' \in Nat, errors' \in Nat
    PROVE  TypeOK'
<1>1. OpOK(IdleOp)
  BY IdleType DEF OpOK
<1> QED BY <1>1, OneRequest DEF End

LEMMA GotoType ==
    ASSUME TypeOK, NEW r \in Req, NEW p \in PCs, Goto(r, p),
           OpOK([op[r] EXCEPT !.pc = p]),
           bed' \in [Bed -> {"free", "used"}], exists' \subseteq Entry,
           entry' \in [Entry -> Bed \cup {NoBed}], crashes' \in Nat, errors' \in Nat
    PROVE  TypeOK'
<1>1. op' = [op EXCEPT ![r] = [op[r] EXCEPT !.pc = p]]
  BY DEF Goto, TypeOK
<1> QED BY <1>1, OneRequest

(* Where a request may go from where it is.                                 *)
LEMMA Moves ==
    ASSUME NEW o, OpOK(o), o.pc # "idle"
    PROVE  /\ OpOK([o EXCEPT !.pc = "find"])
           /\ OpOK([o EXCEPT !.pc = "backOld"])
           /\ o.new \in Bed =>
                /\ OpOK([o EXCEPT !.pc = "reserve"])
                /\ OpOK([o EXCEPT !.pc = "move"])
                /\ OpOK([o EXCEPT !.pc = "undo"])
                /\ OpOK([o EXCEPT !.pc = "sync"])
                /\ OpOK([o EXCEPT !.pc = "back"])
                /\ OpOK([o EXCEPT !.pc = "backNew"])
           /\ o.new \in Bed /\ o.cur \in Bed => OpOK([o EXCEPT !.pc = "freeOld"])
           /\ o.cur \in Bed =>
                /\ OpOK([o EXCEPT !.pc = "freeCur"])
                /\ OpOK([o EXCEPT !.pc = "unsync"])
                /\ OpOK([o EXCEPT !.pc = "restore"])
BY DEF OpOK, OpRecord, PCs

LEMMA StepType ==
    ASSUME TypeOK, NEW r \in Req, Step(r)
    PROVE  TypeOK'
<1>0. /\ bed \in [Bed -> {"free", "used"}] /\ exists \subseteq Entry
      /\ entry \in [Entry -> Bed \cup {NoBed}] /\ crashes \in Nat /\ errors \in Nat
      /\ OpOK(op[r]) /\ op \in [Req -> OpRecord]
  BY TypeByRequest DEF TypeOK
<1>p. {"find", "read", "reserve", "move", "undo", "freeOld", "sync", "back", "backNew", "backOld",
       "freeCur", "unsync", "restore"} \subseteq PCs
  BY DEF PCs
<1>1. CASE FindBed(r)
  <2>1. ASSUME NEW b \in Bed,
               op' = [op EXCEPT ![r].pc = "read", ![r].new = b, ![r].left = @ - 1],
               op[r].left > 0, At(r, "find")
        PROVE  TypeOK'
    <3> DEFINE o == [op[r] EXCEPT !.pc = "read", !.new = b, !.left = @ - 1]
    <3>1. OpOK(o)
      BY <1>0, <2>1 DEF OpOK, OpRecord, PCs, At
    <3>2. op' = [op EXCEPT ![r] = o]
      BY <1>0, <2>1
    <3> HIDE DEF o
    <3> QED BY <1>0, <1>1, <3>1, <3>2, OneRequest DEF FindBed
  <2> QED BY <1>0, <1>1, <2>1, EndType DEF FindBed
<1>2. CASE AssignRead(r)
  <2>1. ASSUME At(r, "read"), op[r].e \in exists,
               op' = [op EXCEPT ![r].pc = "reserve", ![r].cur = entry[op[r].e]]
        PROVE  TypeOK'
    <3> DEFINE o == [op[r] EXCEPT !.pc = "reserve", !.cur = entry[op[r].e]]
    <3>1. OpOK(o)
      BY <1>0, <2>1 DEF OpOK, OpRecord, PCs, At
    <3>2. op' = [op EXCEPT ![r] = o]
      BY <1>0, <2>1
    <3> HIDE DEF o
    <3> QED BY <1>0, <1>2, <3>1, <3>2, OneRequest DEF AssignRead
  <2> QED BY <1>0, <1>2, <2>1, EndType DEF AssignRead
<1>3. CASE Reserve(r)
  <2>1. op[r].pc # "idle" /\ op[r].new \in Bed
    BY <1>0, <1>3 DEF Reserve, At, OpOK
  <2> QED BY <1>0, <1>3, <1>p, <2>1, Moves, GotoType, EndType DEF Reserve, Take
<1>4. CASE Move(r)
  <2>1. op[r].pc # "idle" /\ op[r].new \in Bed /\ op[r].e \in Entry
        /\ op[r].cur \in Bed \cup {NoBed}
    BY <1>0, <1>4 DEF Move, At, OpOK, OpRecord
  <2>2. entry' \in [Entry -> Bed \cup {NoBed}] /\ errors' \in Nat
    BY <1>0, <1>4, <2>1 DEF Move
  <2> QED BY <1>0, <1>4, <1>p, <2>1, <2>2, Moves, GotoType DEF Move
<1>5. CASE UndoReserve(r)
  BY <1>0, <1>5, EndType DEF UndoReserve, Release
<1>6. CASE FreeOld(r)
  <2>1. op[r].pc # "idle" /\ op[r].new \in Bed
    BY <1>0, <1>6 DEF FreeOld, At, OpOK
  <2>2. bed' \in [Bed -> {"free", "used"}] /\ errors' \in Nat
    BY <1>0, <1>6 DEF FreeOld, Release
  <2> QED BY <1>0, <1>6, <1>p, <2>1, <2>2, Moves, GotoType DEF FreeOld
<1>7. CASE Sync(r)
  <2>1. op[r].pc # "idle" /\ op[r].new \in Bed /\ errors' \in Nat
    BY <1>0, <1>7 DEF Sync, At, OpOK
  <2> QED BY <1>0, <1>7, <1>p, <2>1, Moves, GotoType, EndType DEF Sync
<1>8. CASE BackEntry(r)
  <2>1. op[r].pc # "idle" /\ op[r].new \in Bed /\ op[r].cur \in Bed \cup {NoBed}
    BY <1>0, <1>8 DEF BackEntry, At, OpOK, OpRecord
  <2>2. entry' \in [Entry -> Bed \cup {NoBed}]
    BY <1>0, <1>8, <2>1 DEF BackEntry
  <2> QED BY <1>0, <1>8, <1>p, <2>1, <2>2, Moves, GotoType DEF BackEntry
<1>9. CASE BackNew(r)
  <2>1. op[r].pc # "idle" /\ bed' \in [Bed -> {"free", "used"}]
    BY <1>0, <1>9 DEF BackNew, At, OpOK, Release
  <2> QED BY <1>0, <1>9, <1>p, <2>1, Moves, GotoType DEF BackNew
<1>10. CASE BackOld(r)
  BY <1>0, <1>10, EndType DEF BackOld, Take
<1>11. CASE Clear(r)
  <2>1. op[r].pc # "idle" /\ op[r].cur \in Bed
    BY <1>0, <1>11 DEF Clear, At, OpOK
  <2> QED BY <1>0, <1>11, <1>p, <2>1, Moves, GotoType, EndType DEF Clear
<1>12. CASE FreeCur(r)
  <2>1. op[r].pc # "idle" /\ op[r].cur \in Bed
    BY <1>0, <1>12 DEF FreeCur, At, OpOK
  <2>2. bed' \in [Bed -> {"free", "used"}] /\ errors' \in Nat
    BY <1>0, <1>12 DEF FreeCur, Release
  <2> QED BY <1>0, <1>12, <1>p, <2>1, <2>2, Moves, GotoType DEF FreeCur
<1>13. CASE UnassignSync(r)
  <2>1. op[r].pc # "idle" /\ op[r].cur \in Bed /\ errors' \in Nat
    BY <1>0, <1>13 DEF UnassignSync, At, OpOK
  <2> QED BY <1>0, <1>13, <1>p, <2>1, Moves, GotoType, EndType DEF UnassignSync
<1>14. CASE Restore(r)
  <2>1. op[r].cur \in Bed
    BY <1>0, <1>14 DEF Restore, At, OpOK
  <2> QED BY <1>0, <1>14, <2>1, EndType DEF Restore
<1> QED BY <1>1, <1>2, <1>3, <1>4, <1>5, <1>6, <1>7, <1>8, <1>9, <1>10, <1>11, <1>12, <1>13,
           <1>14 DEF Step

LEMMA InitType == Init => TypeOK
BY IdleType DEF Init, TypeOK

LEMMA NextType ==
    ASSUME TypeOK, [Next]_vars
    PROVE  TypeOK'
<1>0. /\ bed \in [Bed -> {"free", "used"}] /\ exists \subseteq Entry
      /\ entry \in [Entry -> Bed \cup {NoBed}] /\ crashes \in Nat /\ errors \in Nat
  BY DEF TypeOK
<1>1. ASSUME NEW r \in Req, NEW e \in Entry, NEW b \in Bed, Assign(r, e, b)
      PROVE  TypeOK'
  BY <1>0, <1>1, NewRequests, OneRequest, ConstantsAssumption DEF Assign
<1>2. ASSUME NEW r \in Req, NEW e \in Entry, AssignFirst(r, e)
      PROVE  TypeOK'
  BY <1>0, <1>2, NewRequests, OneRequest, ConstantsAssumption DEF AssignFirst
<1>3. ASSUME NEW r \in Req, NEW e \in Entry, Unassign(r, e)
      PROVE  TypeOK'
  <2>1. entry[e] \in Bed
    BY <1>0, <1>3 DEF Unassign
  <2> QED BY <1>0, <1>3, <2>1, NewRequests, OneRequest, ConstantsAssumption DEF Unassign
<1>4. ASSUME NEW r \in Req, Crash(r)
      PROVE  TypeOK'
  BY <1>0, <1>4, EndType DEF Crash
<1>5. CASE UNCHANGED vars
  BY <1>5 DEF vars, TypeOK
<1> QED BY <1>1, <1>2, <1>3, <1>4, <1>5, StepType DEF Next

(* The documents and the requests keep their types, and a request that      *)
(* reserves, moves or releases knows the beds it does it to.                *)
THEOREM TypeCorrect == Spec => []TypeOK
<1>1. Init => TypeOK
  BY InitType
<1>2. TypeOK /\ [Next]_vars => TypeOK'
  BY NextType
<1> QED BY <1>1, <1>2, PTL DEF Spec

-----------------------------------------------------------------------------
(* The beds are handed over                                                 *)
(*                                                                          *)
(* Between its calls a request holds at most one bed: the one it has        *)
(* reserved and not yet moved an entry to, or the one an entry has left and *)
(* that it has not yet released.  As long as no datastore error has forced  *)
(* a rollback, every used bed is held by one entry or by one request.       *)

EntriesApart == \A e, f \in exists : entry[e] = entry[f] /\ entry[e] # NoBed => e = f
RequestsApart == \A q, r \in Req : Holding(q) = Holding(r) /\ Holding(q) # NoBed => q = r
EntriesFromRequestsApart ==
    \A e \in exists, r \in Req : entry[e] # NoBed => Holding(r) # entry[e]
EntryBedsUsed == \A e \in exists : entry[e] # NoBed => bed[entry[e]] = "used"
RequestBedsUsed == \A r \in Req : Holding(r) # NoBed => bed[Holding(r)] = "used"
UsedBedsHeld ==
    crashes = 0 => \A b \in Bed : bed[b] = "used" =>
        (\E e \in exists : entry[e] = b) \/ (\E r \in Req : Holding(r) = b)
NoRollback ==
    \A r \in Req : op[r].pc \in {"idle", "find", "read", "reserve", "move", "undo", "freeOld",
                                 "sync", "clear", "freeCur", "unsync"}

Ledger ==
    /\ EntriesApart /\ RequestsApart /\ EntriesFromRequestsApart
    /\ EntryBedsUsed /\ RequestBedsUsed /\ UsedBedsHeld

IInv == TypeOK /\ (errors = 0 => NoRollback /\ Ledger)

(* What a step without an error does to the ledger: nothing, reserve a bed, *)
(* swap the bed of a request with that of an entry, release a bed, or lose  *)
(* sight of one in a crash.                                                 *)
Keeps(r) == UNCHANGED <<bed, entry>> /\ Holding(r)' = Holding(r)
Takes(r) == \E b \in Bed : /\ bed[b] = "free" /\ bed' = [bed EXCEPT ![b] = "used"]
                           /\ Holding(r) = NoBed /\ Holding(r)' = b
                           /\ UNCHANGED entry
Swaps(r) == \E e \in exists : /\ entry[e] = Holding(r)'
                              /\ entry' = [entry EXCEPT ![e] = Holding(r)]
                              /\ UNCHANGED bed
Frees(r) == /\ Holding(r) \in Bed /\ Holding(r)' = NoBed
            /\ bed' = [bed EXCEPT ![Holding(r)] = "free"]
            /\ UNCHANGED entry
Drops(r) == crashes' = crashes + 1 /\ Holding(r)' = NoBed /\ UNCHANGED <<bed, entry>>

HandOver(r) ==
    /\ UNCHANGED exists
    /\ \A q \in Req \ {r} : Holding(q)' = Holding(q)
    /\ \/ Drops(r)
       \/ crashes' = crashes /\ (Keeps(r) \/ Takes(r) \/ Swaps(r) \/ Frees(r))

LEMMA LedgerStep ==
    ASSUME TypeOK, Ledger, NEW r \in Req, HandOver(r),
           \A q \in Req : Holding(q) \in Bed \cup {NoBed}
    PROVE  Ledger'
<1> DEFINE h == [q \in Req |-> Holding(q)]
           g == [q \in Req |-> Holding(q)']
<1>0. /\ bed \in [Bed -> {"free", "used"}] /\ exists \subseteq Entry
      /\ entry \in [Entry -> Bed \cup {NoBed}] /\ crashes \in Nat
      /\ NoBed \notin Bed /\ h \in [Req -> Bed \cup {NoBed}]
  BY ConstantsAssumption DEF TypeOK
<1>h. \A q \in Req : Holding(q) = h[q] /\ Holding(q)' = g[q]
  OBVIOUS
<1>L. /\ \A e, f \in exists : entry[e] = entry[f] /\ entry[e] # NoBed => e = f
      /\ \A p, q \in Req : h[p] = h[q] /\ h[p] # NoBed => p = q
      /\ \A e \in exists, q \in Req : entry[e] # NoBed => h[q] # entry[e]
      /\ \A e \in exists : entry[e] # NoBed => bed[entry[e]] = "used"
      /\ \A q \in Req : h[q] # NoBed => bed[h[q]] = "used"
      /\ crashes = 0 => \A b \in Bed : bed[b] = "used" =>
            (\E e \in exists : entry[e] = b) \/ (\E q \in Req : h[q] = b)
  BY <1>h DEF Ledger, EntriesApart, RequestsApart, EntriesFromRequestsApart, EntryBedsUsed,
              RequestBedsUsed, UsedBedsHeld
<1>o. exists' = exists /\ \A q \in Req \ {r} : g[q] = h[q]
  BY DEF HandOver
<1>k. \/ crashes' = crashes + 1 /\ g[r] = NoBed /\ bed' = bed /\ entry' = entry
      \/ crashes' = crashes /\ bed' = bed /\ entry' = entry /\ g[r] = h[r]
      \/ crashes' = crashes /\ entry' = entry /\ h[r] = NoBed
         /\ \E b \in Bed : bed[b] = "free" /\ bed' = [bed EXCEPT ![b] = "used"] /\ g[r] = b
      \/ crashes' = crashes /\ bed' = bed
         /\ \E e \in exists : entry[e] = g[r] /\ entry' = [entry EXCEPT ![e] = h[r]]
      \/ crashes' = crashes /\ entry' = entry /\ h[r] \in Bed /\ g[r] = NoBed
         /\ bed' = [bed EXCEPT ![h[r]] = "free"]
  BY <1>h DEF HandOver, Drops, Keeps, Takes, Swaps, Frees
<1> SUFFICES /\ \A e, f \in exists : entry'[e] = entry'[f] /\ entry'[e] # NoBed => e = f
             /\ \A p, q \in Req : g[p] = g[q] /\ g[p] # NoBed => p = q
             /\ \A e \in exists, q \in Req : entry'[e] # NoBed => g[q] # entry'[e]
             /\ \A e \in exists : entry'[e] # NoBed => bed'[entry'[e]] = "used"
             /\ \A q \in Req : g[q] # NoBed => bed'[g[q]] = "used"
             /\ crashes' = 0 => \A b \in Bed : bed'[b] = "used" =>
                   (\E e \in exists : entry'[e] = b) \/ (\E q \in Req : g[q] = b)
  BY <1>h, <1>o DEF Ledger, EntriesApart, RequestsApart, EntriesFromRequestsApart,
                    EntryBedsUsed, RequestBedsUsed, UsedBedsHeld
<1> HIDE DEF h, g
<1>1. CASE crashes' = crashes + 1 /\ g[r] = NoBed /\ bed' = bed /\ entry' = entry
  BY <1>1, <1>0, <1>L, <1>o
<1>2. CASE crashes' = crashes /\ bed' = bed /\ entry' = entry /\ g[r] = h[r]
  BY <1>2, <1>0, <1>L, <1>o
<1>3. CASE crashes' = crashes /\ entry' = entry /\ h[r] = NoBed
           /\ \E b \in Bed : bed[b] = "free" /\ bed' = [bed EXCEPT ![b] = "used"] /\ g[r] = b
  BY <1>3, <1>0, <1>L, <1>o
<1>4. CASE crashes' = crashes /\ bed' = bed
           /\ \E e \in exists : entry[e] = g[r] /\ entry' = [entry EXCEPT ![e] = h[r]]
  BY <1>4, <1>0, <1>L, <1>o
<1>5. CASE crashes' = crashes /\ entry' = entry /\ h[r] \in Bed /\ g[r] = NoBed
           /\ bed' = [bed EXCEPT ![h[r]] = "free"]
  BY <1>5, <1>0, <1>L, <1>o
<1> QED BY <1>k, <1>1, <1>2, <1>3, <1>4, <1>5

LEMMA HoldingType ==
    ASSUME TypeOK
    PROVE  \A q \in Req : Holding(q) \in Bed \cup {NoBed}
BY DEF TypeOK, Holding, OpRecord

LEMMA GotoFields ==
    ASSUME TypeOK, NEW r \in Req, NEW p, Goto(r, p)
    PROVE  /\ op'[r].pc = p /\ op'[r].new = op[r].new /\ op'[r].cur = op[r].cur
           /\ \A q \in Req \ {r} : op'[q] = op[q]
BY DEF TypeOK, Goto, OpRecord

LEMMA EndFields ==
    ASSUME TypeOK, NEW r \in Req, End(r)
    PROVE  op'[r].pc = "idle" /\ \A q \in Req \ {r} : op'[q] = op[q]
BY IdleType DEF TypeOK, End

(* A step of a request, while there is nothing to roll back.                *)
LEMMA StepHandsOver ==
    ASSUME TypeOK, NoRollback, Ledger, NEW r \in Req, Step(r), errors' = errors
    PROVE  HandOver(r) /\ NoRollback'
<1>0. /\ bed \in [Bed -> {"free", "used"}] /\ exists \subseteq Entry
      /\ entry \in [Entry -> Bed \cup {NoBed}] /\ op \in [Req -> OpRecord]
      /\ OpOK(op[r]) /\ NoBed \notin Bed /\ errors \in Nat
      /\ op[r].new \in Bed \cup {NoBed} /\ op[r].cur \in Bed \cup {NoBed}
  BY TypeByRequest, ConstantsAssumption DEF TypeOK, OpRecord
<1>r. \A q \in Req : op[q].pc \in {"idle", "find", "read", "reserve", "move", "undo", "freeOld",
                                   "sync", "clear", "freeCur", "unsync"}
  BY DEF NoRollback
<1>i. op \in [Req -> OpRecord] /\ IdleOp.pc = "idle"
  BY <1>0, IdleType
<1> SUFFICES /\ UNCHANGED <<exists, crashes>>
             /\ \A q \in Req \ {r} : op'[q] = op[q]
             /\ Keeps(r) \/ Takes(r) \/ Swaps(r) \/ Frees(r)
             /\ op'[r].pc \in {"idle", "find", "read", "reserve", "move", "undo", "freeOld",
                               "sync", "clear", "freeCur", "unsync"}
  BY <1>r DEF HandOver, NoRollback, Holding
<1>1. CASE FindBed(r)
  <2>1. ASSUME NEW b \in Bed,
               op' = [op EXCEPT ![r].pc = "read", ![r].new = b, ![r].left = @ - 1]
        PROVE  op'[r].pc = "read" /\ \A q \in Req \ {r} : op'[q] = op[q]
    BY <1>0, <2>1 DEF OpRecord
  <2>2. /\ op'[r].pc \in {"read", "idle"} /\ \A q \in Req \ {r} : op'[q] = op[q]
        /\ op[r].pc = "find" /\ UNCHANGED <<bed, entry, exists, crashes>>
    BY <1>1, <2>1, EndFields DEF FindBed, At
  <2> QED BY <2>2 DEF Keeps, Holding
<1>2. CASE AssignRead(r)
  <2>1. ASSUME op' = [op EXCEPT ![r].pc = "reserve", ![r].cur = entry[op[r].e]]
        PROVE  op'[r].pc = "reserve" /\ \A q \in Req \ {r} : op'[q] = op[q]
    BY <1>0, <2>1 DEF OpRecord
  <2>2. /\ op'[r].pc \in {"reserve", "idle"} /\ \A q \in Req \ {r} : op'[q] = op[q]
        /\ op[r].pc = "read" /\ UNCHANGED <<bed, entry, exists, crashes>>
    BY <1>2, <2>1, EndFields DEF AssignRead, At
  <2> QED BY <2>2 DEF Keeps, Holding
<1>3. CASE Reserve(r)
  <2>1. op[r].new \in Bed /\ op[r].pc = "reserve" /\ UNCHANGED <<entry, exists, crashes>>
    BY <1>0, <1>3 DEF Reserve, At, OpOK
  <2>2. CASE Take(op[r].new) /\ Goto(r, "move")
    <3>1. /\ op'[r].pc = "move" /\ op'[r].new = op[r].new
          /\ \A q \in Req \ {r} : op'[q] = op[q]
      BY <2>2, GotoFields
    <3>2. Takes(r)
      BY <2>1, <2>2, <3>1 DEF Take, Takes, Holding
    <3> QED BY <2>1, <3>1, <3>2
  <2>3. CASE UNCHANGED bed /\ (Goto(r, "find") \/ End(r))
    <3>1. op'[r].pc \in {"find", "idle"} /\ \A q \in Req \ {r} : op'[q] = op[q]
      BY <2>3, GotoFields, EndFields
    <3> QED BY <2>1, <2>3, <3>1 DEF Keeps, Holding
  <2> QED BY <1>3, <2>2, <2>3 DEF Reserve
<1>4. CASE Move(r)
  <2>1. op[r].new \in Bed /\ op[r].e \in Entry
    BY <1>0, <1>4 DEF Move, At, OpOK
  <2>2. CASE EntryHas(op[r].e, op[r].cur)
             /\ Goto(r, IF op[r].cur = NoBed THEN "sync" ELSE "freeOld")
    BY <1>0, <1>4, <2>1, <2>2 DEF Move, At, Goto, EntryHas, Swaps, Holding
  <2>3. CASE Goto(r, "undo") /\ UNCHANGED entry
    BY <1>0, <1>4, <2>3 DEF Move, At, Goto, Keeps, Holding
  <2> QED BY <1>0, <1>4, <2>2, <2>3 DEF Move
<1>5. CASE UndoReserve(r)
  <2>1. op[r].new \in Bed /\ Holding(r) = op[r].new
    BY <1>0, <1>5 DEF UndoReserve, At, OpOK, Holding
  <2>2. bed[op[r].new] = "used"
    BY <1>0, <2>1 DEF Ledger, RequestBedsUsed
  <2> QED BY <1>0, <1>i, <1>5, <2>1, <2>2 DEF UndoReserve, Release, At, End, Frees, Holding
<1>6. CASE FreeOld(r)
  <2>1. op[r].cur \in Bed /\ Holding(r) = op[r].cur
    BY <1>0, <1>6 DEF FreeOld, At, OpOK, Holding
  <2>2. bed[op[r].cur] = "used"
    BY <1>0, <2>1 DEF Ledger, RequestBedsUsed
  <2>3. /\ Goto(r, "sync") /\ bed' = [bed EXCEPT ![op[r].cur] = "free"]
        /\ UNCHANGED <<entry, exists, crashes>>
    BY <1>0, <1>6, <2>2 DEF FreeOld, Release
  <2>4. op'[r].pc = "sync" /\ \A q \in Req \ {r} : op'[q] = op[q]
    BY <2>3, GotoFields
  <2> QED BY <2>1, <2>3, <2>4 DEF Frees, Holding
<1>7. CASE Sync(r)
  BY <1>0, <1>i, <1>7 DEF Sync, At, End, Keeps, Holding
<1>8. CASE BackEntry(r) \/ BackNew(r) \/ BackOld(r) \/ Restore(r)
  BY <1>r, <1>8 DEF BackEntry, BackNew, BackOld, Restore, At
<1>9. CASE Clear(r)
  <2>1. op[r].cur \in Bed /\ op[r].e \in Entry
    BY <1>0, <1>9 DEF Clear, At, OpOK
  <2>2. CASE EntryHas(op[r].e, op[r].cur)
    <3>1. /\ Goto(r, "freeCur") /\ op[r].pc = "clear" /\ UNCHANGED <<bed, exists, crashes>>
          /\ entry' = [entry EXCEPT ![op[r].e] = NoBed]
          /\ op[r].e \in exists /\ entry[op[r].e] = op[r].cur
      BY <1>9, <2>2 DEF Clear, At, EntryHas
    <3>2. /\ op'[r].pc = "freeCur" /\ op'[r].cur = op[r].cur
          /\ \A q \in Req \ {r} : op'[q] = op[q]
      BY <3>1, GotoFields
    <3>3. Holding(r) = NoBed /\ Holding(r)' = op[r].cur
      BY <3>1, <3>2 DEF Holding
    <3> QED BY <3>1, <3>2, <3>3 DEF Swaps
  <2>3. CASE ~EntryHas(op[r].e, op[r].cur)
    BY <1>0, <1>i, <1>9, <2>3 DEF Clear, At, End, Keeps, Holding
  <2> QED BY <2>2, <2>3
<1>10. CASE FreeCur(r)
  <2>1. op[r].cur \in Bed /\ Holding(r) = op[r].cur
    BY <1>0, <1>10 DEF FreeCur, At, OpOK, Holding
  <2>2. bed[op[r].cur] = "used"
    BY <1>0, <2>1 DEF Ledger, RequestBedsUsed
  <2>3. /\ Goto(r, "unsync") /\ bed' = [bed EXCEPT ![op[r].cur] = "free"]
        /\ UNCHANGED <<entry, exists, crashes>>
    BY <1>0, <1>10, <2>2 DEF FreeCur, Release
  <2>4. op'[r].pc = "unsync" /\ \A q \in Req \ {r} : op'[q] = op[q]
    BY <2>3, GotoFields
  <2> QED BY <2>1, <2>3, <2>4 DEF Frees, Holding
<1>11. CASE UnassignSync(r)
  BY <1>0, <1>i, <1>11 DEF UnassignSync, At, End, Keeps, Holding
<1> QED BY <1>1, <1>2, <1>3, <1>4, <1>5, <1>6, <1>7, <1>8, <1>9, <1>10, <1>11 DEF Step

(* So does a new request, and a crash.                                      *)
LEMMA BeginHandsOver ==
    ASSUME TypeOK, NoRollback, NEW r \in Req,
           \/ \E e \in Entry : AssignFirst(r, e) \/ Unassign(r, e) \/ \E b \in Bed : Assign(r, e, b)
           \/ Crash(r)
    PROVE  HandOver(r) /\ NoRollback'
<1>0. op \in [Req -> OpRecord] /\ crashes \in Nat /\ IdleOp.pc = "idle" /\ IdleOp \in OpRecord
  BY IdleType DEF TypeOK
<1>r. \A q \in Req : op[q].pc \in {"idle", "find", "read", "reserve", "move", "undo", "freeOld",
                                   "sync", "clear", "freeCur", "unsync"}
  BY DEF NoRollback
<1> SUFFICES /\ UNCHANGED exists
             /\ \A q \in Req \ {r} : op'[q] = op[q]
             /\ Drops(r) \/ (crashes' = crashes /\ Keeps(r))
             /\ op'[r].pc \in {"idle", "find", "read", "clear"}
  BY <1>r DEF HandOver, NoRollback, Holding
<1>1. ASSUME NEW e \in Entry, NEW b \in Bed, Assign(r, e, b)
      PROVE  /\ UNCHANGED <<bed, entry, exists, crashes>> /\ op[r].pc = "idle"
             /\ op'[r].pc = "read" /\ \A q \in Req \ {r} : op'[q] = op[q]
  BY <1>0, <1>1 DEF Assign, At, IdleOp
<1>2. ASSUME NEW e \in Entry, AssignFirst(r, e)
      PROVE  /\ UNCHANGED <<bed, entry, exists, crashes>> /\ op[r].pc = "idle"
             /\ op'[r].pc = "find" /\ \A q \in Req \ {r} : op'[q] = op[q]
  BY <1>0, <1>2 DEF AssignFirst, At, IdleOp
<1>3. ASSUME NEW e \in Entry, Unassign(r, e)
      PROVE  /\ UNCHANGED <<bed, entry, exists, crashes>> /\ op[r].pc = "idle"
             /\ op'[r].pc = "clear" /\ \A q \in Req \ {r} : op'[q] = op[q]
  BY <1>0, <1>3 DEF Unassign, At, IdleOp
<1>4. CASE Crash(r)
  <2>1. op'[r].pc = "idle" /\ \A q \in Req \ {r} : op'[q] = op[q]
    BY <1>4, EndFields DEF Crash
  <2>2. crashes' = crashes + 1 /\ UNCHANGED <<bed, entry, exists>>
    BY <1>0, <1>4 DEF Crash
  <2>3. Holding(r)' = NoBed
    BY <2>1 DEF Holding
  <2> QED BY <2>1, <2>2, <2>3 DEF Drops
<1> QED BY <1>1, <1>2, <1>3, <1>4 DEF Keeps, Holding

LEMMA ErrorsGrow ==
    ASSUME TypeOK, [Next]_vars, errors' = 0
    PROVE  errors = 0 /\ errors' = errors
<1>0. errors \in Nat
  BY DEF TypeOK
<1>1. errors' = errors \/ errors' = errors + 1
  BY DEF Next, Step, FindBed, AssignRead, Reserve, Move, UndoReserve, FreeOld, Sync, BackEntry,
         BackNew, BackOld, Clear, FreeCur, UnassignSync, Restore, Assign, AssignFirst, Unassign,
         Crash, vars
<1> QED BY <1>0, <1>1

LEMMA InitInvariant == Init => IInv
<1> SUFFICES ASSUME Init PROVE IInv
  OBVIOUS
<1>1. \A r \in Req : op[r].pc = "idle"
  BY IdleType DEF Init
<1>2. \A r \in Req : Holding(r) = NoBed
  BY <1>1 DEF Holding
<1> QED BY <1>1, <1>2, InitType DEF Init, IInv, NoRollback, Ledger, EntriesApart, RequestsApart,
           EntriesFromRequestsApart, EntryBedsUsed, RequestBedsUsed, UsedBedsHeld

LEMMA NextInvariant ==
    ASSUME IInv, [Next]_vars
    PROVE  IInv'
<1>1. TypeOK'
  BY NextType DEF IInv
<1>2. ASSUME errors' = 0
      PROVE  NoRollback' /\ Ledger'
  <2>1. TypeOK /\ NoRollback /\ Ledger /\ errors' = errors
    BY <1>2, ErrorsGrow DEF IInv
  <2>2. CASE Next
    <3>1. PICK r \in Req :
            \/ Step(r)
            \/ \E e \in Entry : AssignFirst(r, e) \/ Unassign(r, e) \/ \E b \in Bed : Assign(r, e, b)
            \/ Crash(r)
      BY <2>2 DEF Next
    <3>2. HandOver(r) /\ NoRollback'
      BY <2>1, <3>1, StepHandsOver, BeginHandsOver
    <3> QED BY <2>1, <3>2, LedgerStep, HoldingType
  <2>3. CASE UNCHANGED vars
    BY <2>1, <2>3 DEF vars, NoRollback, Ledger, EntriesApart, RequestsApart,
       EntriesFromRequestsApart, EntryBedsUsed, RequestBedsUsed, UsedBedsHeld, Holding
  <2> QED BY <2>2, <2>3
<1> QED BY <1>1, <1>2 DEF IInv

LEMMA Invariance == Spec => []IInv
BY InitInvariant, NextInvariant, PTL DEF Spec

(* However the requests interleave and wherever they crash, no two entries  *)
(* get the same bed.                                                        *)
THEOREM OccupancyTheorem == Spec => []NoDoubleOccupancy
<1>1. IInv => NoDoubleOccupancy
  BY DEF IInv, Ledger, EntriesApart, NoDoubleOccupancy
<1> QED BY <1>1, Invariance, PTL

(* A bed that an entry has is never free for somebody else.                 *)
THEOREM UsedTheorem == Spec => []OccupiedBedIsUsed
<1>1. IInv => OccupiedBedIsUsed
  BY DEF IInv, Ledger, EntryBedsUsed, OccupiedBedIsUsed
<1> QED BY <1>1, Invariance, PTL

(* Without a crash, no bed stays marked used when the requests are over.    *)
THEOREM NothingLostTheorem == Spec => []NoBedLost
<1>1. IInv => NoBedLost
  BY ConstantsAssumption DEF IInv, Ledger, UsedBedsHeld, NoBedLost, Holding, At
<1> QED BY <1>1, Invariance, PTL

-----------------------------------------------------------------------------
(* Every step is one of the abstract ledger                                 *)

InHands == {Holding(r) : r \in Req} \ {NoBed}
Free == {b \in Bed : bed[b] = "free"}

(* What the hand-over of one request does to the beds in hands.             *)
LEMMA HandsChange ==
    ASSUME TypeOK, RequestsApart, NEW r \in Req,
           \A q \in Req \ {r} : Holding(q)' = Holding(q)
    PROVE  InHands' = (InHands \ {Holding(r)}) \cup ({Holding(r)'} \ {NoBed})
<1> DEFINE h == [q \in Req |-> Holding(q)]
           g == [q \in Req |-> Holding(q)']
<1>1. \A q \in Req : Holding(q) = h[q] /\ Holding(q)' = g[q]
  OBVIOUS
<1>2. /\ InHands = {h[q] : q \in Req} \ {NoBed}
      /\ InHands' = {g[q] : q \in Req} \ {NoBed}
  BY <1>1 DEF InHands
<1>3. /\ \A q \in Req \ {r} : g[q] = h[q]
      /\ \A p, q \in Req : h[p] = h[q] /\ h[p] # NoBed => p = q
  BY <1>1 DEF RequestsApart
<1> HIDE DEF h, g
<1>4. {g[q] : q \in Req} \ {NoBed}
        = (({h[q] : q \in Req} \ {NoBed}) \ {h[r]}) \cup ({g[r]} \ {NoBed})
  BY <1>3
<1> QED BY <1>1, <1>2, <1>4

LEMMA HandOverSimulation ==
    ASSUME TypeOK, Ledger, NEW r \in Req, HandOver(r), UNCHANGED errors
    PROVE  [Transfers!Next]_(Transfers!vars)
<1> DEFINE h == Holding(r)
           g == Holding(r)'
<1>0. /\ bed \in [Bed -> {"free", "used"}] /\ exists \subseteq Entry
      /\ entry \in [Entry -> Bed \cup {NoBed}] /\ crashes \in Nat
      /\ NoBed \notin Bed /\ h \in Bed \cup {NoBed}
  BY HoldingType, ConstantsAssumption DEF TypeOK
<1>1. InHands' = (InHands \ {h}) \cup ({g} \ {NoBed})
  BY HandsChange DEF Ledger, HandOver
<1>2. h # NoBed => h \in InHands
  BY DEF InHands
<1>3. NoBed \notin InHands
  BY DEF InHands
<1>4. CASE Drops(r)
  <2>1. InHands' = InHands \ {h} /\ Free' = Free /\ UNCHANGED entry /\ crashes' = crashes + 1
    BY <1>1, <1>4 DEF Drops, Free
  <2>2. Transfers!Crash
    BY <1>2, <1>3, <2>1 DEF Transfers!Crash, InHands, Free
  <2> QED BY <2>2 DEF Transfers!Next
<1>5. CASE crashes' = crashes /\ Keeps(r)
  <2>1. InHands' = InHands /\ Free' = Free /\ UNCHANGED <<entry, crashes, errors>>
    BY <1>1, <1>2, <1>3, <1>5 DEF Keeps, Free
  <2> QED BY <2>1 DEF Transfers!vars, InHands, Free
<1>6. CASE crashes' = crashes /\ Takes(r)
  <2>1. PICK b \in Bed : /\ bed[b] = "free" /\ bed' = [bed EXCEPT ![b] = "used"]
                         /\ h = NoBed /\ g = b /\ UNCHANGED entry
    BY <1>6 DEF Takes
  <2>2. InHands' = InHands \cup {b} /\ Free' = Free \ {b} /\ b \in Free
    BY <1>0, <1>1, <1>3, <2>1 DEF Free
  <2>3. Transfers!Reserve(b)
    BY <1>6, <2>1, <2>2 DEF Transfers!Reserve, InHands, Free
  <2> QED BY <2>3 DEF Transfers!Next
<1>7. CASE crashes' = crashes /\ Swaps(r)
  <2>1. PICK e \in exists : /\ entry[e] = g /\ entry' = [entry EXCEPT ![e] = h]
                            /\ UNCHANGED bed
    BY <1>7 DEF Swaps
  <2>2. e \in Entry /\ Free' = Free
    BY <1>0, <2>1 DEF Free
  <2>3. CASE h # NoBed
    <3>1. Transfers!Move(e, h)
      BY <1>1, <1>2, <1>7, <2>1, <2>2, <2>3 DEF Transfers!Move, InHands, Free
    <3> QED BY <1>0, <2>2, <2>3, <3>1 DEF Transfers!Next
  <2>4. CASE h = NoBed /\ g # NoBed
    <3>1. InHands' = InHands \cup {entry[e]}
      BY <1>1, <1>3, <2>1, <2>4
    <3>2. Transfers!Leave(e)
      BY <1>7, <2>1, <2>2, <2>4, <3>1 DEF Transfers!Leave, InHands, Free
    <3> QED BY <2>2, <3>2 DEF Transfers!Next
  <2>5. CASE h = NoBed /\ g = NoBed
    <3>1. InHands' = InHands /\ entry' = entry
      BY <1>0, <1>1, <1>3, <2>1, <2>2, <2>5
    <3> QED BY <1>7, <2>2, <3>1 DEF Transfers!vars, InHands, Free
  <2> QED BY <2>3, <2>4, <2>5
<1>8. CASE crashes' = crashes /\ Frees(r)
  <2>1. h \in Bed /\ g = NoBed /\ bed' = [bed EXCEPT ![h] = "free"] /\ UNCHANGED entry
    BY <1>8 DEF Frees
  <2>2. InHands' = InHands \ {h} /\ Free' = Free \cup {h} /\ h \in InHands
    BY <1>0, <1>1, <1>2, <2>1 DEF Free
  <2>3. PICK b \in Bed : b = h
    BY <2>1
  <2>4. Transfers!Return(b)
    BY <1>8, <2>1, <2>2, <2>3 DEF Transfers!Return, InHands, Free
  <2> QED BY <2>4 DEF Transfers!Next
<1> QED BY <1>4, <1>5, <1>6, <1>7, <1>8 DEF HandOver

(* A datastore error ends what is promised.                                 *)
LEMMA ErrorsOnlyGrow ==
    ASSUME TypeOK, [Next]_vars
    PROVE  errors' > 0 \/ (errors = 0 /\ UNCHANGED errors)
<1>1. errors \in Nat /\ errors' \in Nat
  BY NextType DEF TypeOK
<1> QED BY <1>1, ErrorsGrow

LEMMA StepSimulation ==
    ASSUME IInv, [Next]_vars
    PROVE  [Transfers!Next]_(Transfers!vars)
<1>1. CASE errors' > 0
  BY <1>1 DEF Transfers!Next
<1>2. CASE errors = 0 /\ UNCHANGED errors /\ Next
  <2>1. TypeOK /\ NoRollback /\ Ledger
    BY <1>2 DEF IInv
  <2>2. \E r \in Req : HandOver(r)
    BY <1>2, <2>1, StepHandsOver, BeginHandsOver DEF Next
  <2> QED BY <1>2, <2>1, <2>2, HandOverSimulation
<1>3. CASE UNCHANGED vars
  <2>1. \A r \in Req : Holding(r)' = Holding(r)
    BY <1>3 DEF vars, Holding
  <2> QED BY <1>3, <2>1 DEF vars, Transfers!vars
<1> QED BY <1>1, <1>2, <1>3, ErrorsOnlyGrow DEF IInv

(* The room assignment implements the ledger: until a datastore error       *)
(* comes, each of its steps reserves a free bed, moves one student into a   *)
(* bed that nobody else has, returns one, loses one in a crash, or changes  *)
(* no bed.                                                                  *)
THEOREM LedgerTheorem == Spec => ImplementsLedger
<1>1. Init => Transfers!Init
  <2> SUFFICES ASSUME Init PROVE Transfers!Init
    OBVIOUS
  <2>1. \A r \in Req : Holding(r) = NoBed
    BY IdleType DEF Init, Holding
  <2> QED BY <2>1 DEF Init, Transfers!Init
<1>2. IInv /\ [Next]_vars => [Transfers!Next]_(Transfers!vars)
  BY StepSimulation
<1> QED BY <1>1, <1>2, Invariance, PTL DEF Spec, ImplementsLedger, Transfers!Spec
=============================================================================
