------------------------ MODULE AttendanceSyncProofs ------------------------
(***************************************************************************)
(* Theorems about AttendanceSync, for every set of marks, students and     *)
(* requests, every cap and batch, and any number of crashes.               *)
(***************************************************************************)
EXTENDS AttendanceSync, FiniteSetTheorems, TLAPS

Process == Req \cup {Timer}

(* What one request is: the conjuncts of TypeOK about it, and that a sync   *)
(* is past the creation of the record when it is to mark.                   *)
OpOK(o) ==
    /\ o \in OpRecord
    /\ o.pc \notin {"idle", "retry"} => o.a \in Att
    /\ o.pc = "mark" => record[o.a] # "none"

(* The inductive invariant.                                                 *)
IInv ==
    /\ att \in [Att -> AttDoc]
    /\ record \in [Att -> {"none", "active", "deleted"}]
    /\ open \in BOOLEAN
    /\ op \in [Process -> OpRecord]
    /\ \A p \in Process : OpOK(op[p])
    /\ marks \in Nat /\ cancels \in Nat /\ crashes \in Nat
    /\ \A a \in Att : att[a].link = "record" => record[a] # "none"

LEMMA TypeFromIInv == IInv => TypeOK
BY DEF IInv, TypeOK, OpOK, Process

-----------------------------------------------------------------------------
(* A step replaces the record of one request; records are never removed.    *)
LEMMA OneRequest ==
    ASSUME IInv, NEW p \in Process, NEW o, op' = [op EXCEPT ![p] = o], OpOK(o)',
           att' \in [Att -> AttDoc],
           \A a \in Att : att'[a].link = "record" => record'[a] # "none",
           record' \in [Att -> {"none", "active", "deleted"}],
           \A a \in Att : record[a] # "none" => record'[a] # "none",
           open' \in BOOLEAN, marks' \in Nat, cancels' \in Nat, crashes' \in Nat
    PROVE  IInv'
<1>1. op' \in [Process -> OpRecord]
  BY DEF IInv, OpOK
<1>2. ASSUME NEW q \in Process PROVE OpOK(op[q])'
  <2>1. CASE q = p
    BY <2>1 DEF IInv
  <2>2. CASE q # p
    BY <2>2 DEF IInv, OpOK, OpRecord
  <2> QED BY <2>1, <2>2
<1> QED BY <1>1, <1>2 DEF IInv

LEMMA IdleType ==
    /\ NoAtt \in AttDoc
    /\ IdleOp \in OpRecord
    /\ IdleOp.pc = "idle" /\ IdleOp.todo = {}
BY DEF NoAtt, AttDoc, IdleOp, OpRecord, PCs

(* A new request works on a mark; what it is depends on its place only.     *)
LEMMA NewRequest ==
    ASSUME NEW a \in Att, NEW c \in AttDoc,
           NEW pc \in {"checkin", "cancel", "approve", "reject", "sync"}
    PROVE  /\ OpOK([IdleOp EXCEPT !.pc = pc, !.a = a])'
           /\ OpOK([IdleOp EXCEPT !.pc = pc, !.a = a, !.copy = c])'
BY IdleType DEF OpOK, OpRecord, IdleOp, PCs

LEMMA EndStep ==
    ASSUME IInv, NEW p \in Process, End(p), att' \in [Att -> AttDoc],
           \A a \in Att : att'[a].link = "record" => record'[a] # "none",
           record' = record, open' = open, marks' = marks, cancels' = cancels,
           crashes' = crashes
    PROVE  IInv'
<1>0. PICK o : o = [IdleOp EXCEPT !.todo = op[p].todo,
                                  !.pc = IF op[p].todo = {} THEN "idle" ELSE "retry"]
  OBVIOUS
<1>1. o \in OpRecord /\ o.pc \in {"idle", "retry"}
  <2>1. op[p].todo \in SUBSET Att
    BY DEF IInv, OpRecord
  <2> QED BY <1>0, <2>1, IdleType DEF OpRecord, IdleOp, PCs
<1>2. op' = [op EXCEPT ![p] = o]
  BY <1>0 DEF End
<1>3. OpOK(o)'
  BY <1>1 DEF OpOK
<1>4. /\ record' \in [Att -> {"none", "active", "deleted"}]
      /\ \A a \in Att : record[a] # "none" => record'[a] # "none"
      /\ open' \in BOOLEAN /\ marks' \in Nat /\ cancels' \in Nat /\ crashes' \in Nat
  BY DEF IInv
<1> QED BY <1>2, <1>3, <1>4, OneRequest

(* A request goes on to another place with the same mark.                   *)
LEMMA GotoStep ==
    ASSUME IInv, NEW p \in Process, NEW pc \in PCs, Goto(p, pc),
           op[p].pc \notin {"idle", "retry"}, pc = "mark" => record'[op[p].a] # "none",
           att' \in [Att -> AttDoc],
           \A a \in Att : att'[a].link = "record" => record'[a] # "none",
           record' \in [Att -> {"none", "active", "deleted"}],
           \A a \in Att : record[a] # "none" => record'[a] # "none",
           open' = open, marks' = marks, cancels' = cancels, crashes' = crashes
    PROVE  IInv'
<1>0. PICK o : o = [op[p] EXCEPT !.pc = pc]
  OBVIOUS
<1>1. op[p] \in OpRecord /\ op[p].a \in Att
  BY DEF IInv, OpOK
<1>2. o \in OpRecord /\ o.pc = pc /\ o.a = op[p].a
  BY <1>0, <1>1 DEF OpRecord
<1>3. op' = [op EXCEPT ![p] = o]
  BY <1>0 DEF Goto, IInv
<1>4. OpOK(o)'
  BY <1>1, <1>2 DEF OpOK
<1>5. open' \in BOOLEAN /\ marks' \in Nat /\ cancels' \in Nat /\ crashes' \in Nat
  BY DEF IInv
<1> QED BY <1>3, <1>4, <1>5, OneRequest

-----------------------------------------------------------------------------
(* The invariant *)

LEMMA InitIInv == ASSUME Init PROVE IInv
BY IdleType DEF Init, IInv, OpOK, Process, NoAtt, AttDoc

LEMMA NoAttIsUnlinked == NoAtt.link # "record"
BY DEF NoAtt

(* The actions that begin a request, but for the retry loop.                *)
LEMMA BeginStep ==
    ASSUME IInv, NEW r \in Req, NEW a \in Att,
           Checkin(r, a) \/ Cancel(r, a) \/ Decide(r, a) \/ Finalize(r, a) \/ Sync(r, a)
    PROVE  IInv'
<1>1. r \in Process
  BY DEF Process
<1>2. PICK pc \in {"checkin", "cancel", "approve", "reject", "sync"}, c \in AttDoc :
        \/ op' = [op EXCEPT ![r] = [IdleOp EXCEPT !.pc = pc, !.a = a]]
        \/ op' = [op EXCEPT ![r] = [IdleOp EXCEPT !.pc = pc, !.a = a, !.copy = c]]
  <2>1. att[a] \in AttDoc
    BY DEF IInv
  <2>2. CASE Checkin(r, a)
    BY <2>1, <2>2 DEF Checkin
  <2>3. CASE Cancel(r, a)
    BY <2>1, <2>3 DEF Cancel
  <2>4. CASE Decide(r, a)
    BY <2>1, <2>4 DEF Decide
  <2>5. CASE Finalize(r, a)
    BY <2>1, <2>5 DEF Finalize
  <2>6. CASE Sync(r, a)
    BY <2>1, <2>6 DEF Sync
  <2> QED BY <2>2, <2>3, <2>4, <2>5, <2>6
<1>3. /\ att' \in [Att -> AttDoc]
      /\ record' = record /\ open' = open /\ crashes' = crashes
      /\ \A b \in Att : att'[b].link = att[b].link
      /\ marks' \in Nat /\ cancels' \in Nat
  <2>1. att[a] \in AttDoc
    BY DEF IInv
  <2>2. CASE att' = [att EXCEPT ![a].approval = "approved"]
    <3>1. [att[a] EXCEPT !.approval = "approved"] \in AttDoc
      BY <2>1 DEF AttDoc
    <3>2. att' \in [Att -> AttDoc] /\ \A b \in Att : att'[b].link = att[b].link
      BY <2>1, <2>2, <3>1 DEF IInv, AttDoc
    <3> QED BY <2>2, <3>2 DEF Checkin, Cancel, Decide, Finalize, Sync, IInv
  <2>3. CASE att' = att
    BY <2>3 DEF Checkin, Cancel, Decide, Finalize, Sync, IInv
  <2> QED BY <2>2, <2>3 DEF Checkin, Cancel, Decide, Finalize, Sync
<1>4. /\ record' \in [Att -> {"none", "active", "deleted"}]
      /\ \A b \in Att : record[b] # "none" => record'[b] # "none"
      /\ \A b \in Att : att'[b].link = "record" => record'[b] # "none"
      /\ open' \in BOOLEAN /\ crashes' \in Nat
  BY <1>3 DEF IInv
<1>5. CASE op' = [op EXCEPT ![r] = [IdleOp EXCEPT !.pc = pc, !.a = a]]
  <2>1. OpOK([IdleOp EXCEPT !.pc = pc, !.a = a])'
    BY NewRequest
  <2> QED BY <1>1, <1>3, <1>4, <1>5, <2>1, OneRequest
<1>6. CASE op' = [op EXCEPT ![r] = [IdleOp EXCEPT !.pc = pc, !.a = a, !.copy = c]]
  <2>1. OpOK([IdleOp EXCEPT !.pc = pc, !.a = a, !.copy = c])'
    BY NewRequest
  <2> QED BY <1>1, <1>3, <1>4, <1>6, <2>1, OneRequest
<1> QED BY <1>2, <1>5, <1>6

LEMMA RetryStep ==
    ASSUME IInv, RetryTick \/ RetryNext
    PROVE  IInv'
<1>1. Timer \in Process /\ op[Timer] \in OpRecord
  BY DEF Process, IInv
<1>2. PICK o : o \in OpRecord /\ op' = [op EXCEPT ![Timer] = o]
               /\ o.pc \in {"retry", "sync"} /\ (o.pc = "sync" => o.a \in Att)
  <2>1. CASE RetryTick
    <3>1. PICK S \in SUBSET Att : op' = [op EXCEPT ![Timer] = [IdleOp EXCEPT !.pc = "retry", !.todo = S]]
      BY <2>1 DEF RetryTick
    <3>2. PICK o : o = [IdleOp EXCEPT !.pc = "retry", !.todo = S]
      OBVIOUS
    <3>3. o \in OpRecord /\ o.pc = "retry"
      BY <3>2, IdleType DEF OpRecord, IdleOp, PCs
    <3> QED BY <3>1, <3>2, <3>3
  <2>2. CASE RetryNext
    <3>1. PICK a \in op[Timer].todo :
            op' = [op EXCEPT ![Timer] = [op[Timer] EXCEPT !.pc = "sync", !.a = a,
                                                          !.todo = op[Timer].todo \ {a}]]
      BY <1>1, <2>2 DEF RetryNext, IInv, OpRecord
    <3>2. op[Timer].todo \in SUBSET Att
      BY <1>1 DEF OpRecord
    <3>3. PICK o : o = [op[Timer] EXCEPT !.pc = "sync", !.a = a, !.todo = op[Timer].todo \ {a}]
      OBVIOUS
    <3>4. op' = [op EXCEPT ![Timer] = o]
      BY <3>1, <3>3
    <3>5. o \in OpRecord /\ o.pc = "sync" /\ o.a \in Att
      BY <1>1, <3>2, <3>3 DEF OpRecord, PCs
    <3> QED BY <3>4, <3>5
  <2> QED BY <2>1, <2>2
<1>3. OpOK(o)'
  BY <1>2 DEF OpOK
<1>4. /\ att' = att /\ record' = record /\ open' = open
      /\ marks' = marks /\ cancels' = cancels /\ crashes' = crashes
  BY DEF RetryTick, RetryNext
<1> QED BY <1>1, <1>2, <1>3, <1>4, OneRequest DEF IInv

(* The writes of a mark keep its type, and none but Mark links it.          *)
LEMMA WorkStep ==
    ASSUME IInv, NEW p \in Process, Step(p)
    PROVE  IInv'
<1>1. op[p] \in OpRecord
  BY DEF IInv
<1>2. op[p].pc \notin {"idle", "retry"} => op[p].a \in Att /\ att[op[p].a] \in AttDoc
  BY DEF IInv, OpOK
<1>3. op[p].copy \in AttDoc
  BY <1>1 DEF OpRecord
<1>4. CASE CheckinWrite(p)
  <2>1. op[p].a \in Att /\ att[op[p].a] \in AttDoc
    BY <1>2, <1>4 DEF CheckinWrite, At
  <2>2. /\ att' \in [Att -> AttDoc]
        /\ \A b \in Att : att'[b].link = att[b].link
    BY <1>4, <2>1 DEF CheckinWrite, AttDoc, IInv
  <2> QED BY <1>4, <2>2, EndStep DEF CheckinWrite, IInv
<1>5. CASE CancelWrite(p)
  <2>1. op[p].a \in Att /\ att[op[p].a] \in AttDoc
    BY <1>2, <1>5 DEF CancelWrite, At
  <2>2. PICK d : d = [att[op[p].a] EXCEPT
                        !.approval = IF op[p].copy.approval = "rejected" THEN @ ELSE "rejected",
                        !.present = IF op[p].copy.present THEN FALSE ELSE @]
    OBVIOUS
  <2>3. d \in AttDoc /\ d.link = att[op[p].a].link
    BY <2>1, <2>2 DEF AttDoc
  <2>4. att' = [att EXCEPT ![op[p].a] = d]
    BY <1>5, <2>1, <2>2 DEF CancelWrite, IInv, AttDoc
  <2>5. /\ att' \in [Att -> AttDoc]
        /\ \A b \in Att : att'[b].link = att[b].link
    BY <2>1, <2>3, <2>4 DEF IInv
  <2> QED BY <1>5, <2>1, <2>5, GotoStep DEF CancelWrite, IInv, At, PCs
<1>6. CASE DecideWrite(p)
  <2>1. op[p].a \in Att /\ att[op[p].a] \in AttDoc
    BY <1>2, <1>6 DEF DecideWrite, At
  <2>2. /\ att' \in [Att -> AttDoc]
        /\ \A b \in Att : att'[b].link = att[b].link
    BY <1>6, <2>1 DEF DecideWrite, AttDoc, IInv
  <2> QED BY <1>6, <2>1, <2>2, GotoStep DEF DecideWrite, IInv, At, PCs
<1>7. CASE SyncRead(p)
  <2>1. CASE End(p)
    BY <1>7, <2>1, EndStep DEF SyncRead, IInv
  <2>2. CASE Goto(p, "cap")
    BY <1>7, <2>2, GotoStep DEF SyncRead, IInv, At, PCs
  <2> QED BY <1>7, <2>1, <2>2 DEF SyncRead
<1>8. CASE CheckCap(p)
  <2>1. CASE End(p)
    BY <1>8, <2>1, EndStep DEF CheckCap, IInv
  <2>2. CASE Goto(p, "lookup")
    BY <1>8, <2>2, GotoStep DEF CheckCap, IInv, At, PCs
  <2> QED BY <1>8, <2>1, <2>2 DEF CheckCap
<1>9. CASE Lookup(p)
  <2>1. CASE Goto(p, "mark") /\ record[op[p].a] = "active"
    BY <1>9, <2>1, GotoStep DEF Lookup, IInv, At, PCs
  <2>2. CASE Goto(p, "create")
    BY <1>9, <2>2, GotoStep DEF Lookup, IInv, At, PCs
  <2> QED BY <1>9, <2>1, <2>2 DEF Lookup
<1>10. CASE Create(p)
  <2>1. CASE record' = record /\ End(p)
    BY <1>10, <2>1, EndStep DEF Create, IInv
  <2>2. CASE record' = [record EXCEPT ![op[p].a] = "active"] /\ Goto(p, "mark")
    <3>1. op[p].a \in Att
      BY <1>2, <1>10 DEF Create, At
    <3>2. /\ record' \in [Att -> {"none", "active", "deleted"}]
          /\ record'[op[p].a] # "none"
          /\ \A b \in Att : record[b] # "none" => record'[b] # "none"
      BY <2>2, <3>1 DEF IInv
    <3> QED BY <1>10, <2>2, <3>2, GotoStep DEF Create, IInv, At, PCs
  <2> QED BY <1>10, <2>1, <2>2 DEF Create
<1>11. CASE Mark(p)
  <2>1. op[p].a \in Att /\ att[op[p].a] \in AttDoc /\ record[op[p].a] # "none"
    BY <1>2, <1>11 DEF Mark, At, IInv, OpOK
  <2>2. /\ att' \in [Att -> AttDoc]
        /\ \A b \in Att : att'[b].link = "record" => att[b].link = "record" \/ b = op[p].a
    BY <1>11, <2>1 DEF Mark, AttDoc, IInv
  <2> QED BY <1>11, <2>1, <2>2, EndStep DEF Mark, IInv
<1>12. CASE RevokeRead(p)
  <2>1. op[p].a \in Att /\ att[op[p].a] \in AttDoc
    BY <1>2, <1>12 DEF RevokeRead, At
  <2>2. PICK pc \in {"unrecord", "clear"} :
          op' = [op EXCEPT ![p].copy = att[op[p].a], ![p].pc = pc]
    BY <1>12 DEF RevokeRead
  <2>3. PICK o : o = [op[p] EXCEPT !.copy = att[op[p].a], !.pc = pc]
    OBVIOUS
  <2>4. o \in OpRecord /\ o.pc = pc /\ o.a = op[p].a
    BY <1>1, <2>1, <2>3 DEF OpRecord, PCs
  <2>5. op' = [op EXCEPT ![p] = o]
    BY <2>2, <2>3 DEF IInv, OpRecord
  <2>6. OpOK(o)'
    BY <2>1, <2>2, <2>4 DEF OpOK
  <2> QED BY <1>12, <2>5, <2>6, OneRequest DEF RevokeRead, IInv
<1>13. CASE Unrecord(p)
  <2>1. /\ record' \in [Att -> {"none", "active", "deleted"}]
        /\ \A b \in Att : record[b] # "none" => record'[b] # "none"
    BY <1>13 DEF Unrecord, IInv
  <2> QED BY <1>13, <2>1, GotoStep DEF Unrecord, IInv, At, PCs
<1>14. CASE Clear(p)
  <2>1. op[p].a \in Att /\ att[op[p].a] \in AttDoc
    BY <1>2, <1>14 DEF Clear, At
  <2>2. PICK d : d = [att[op[p].a] EXCEPT
                        !.synced = IF op[p].copy.synced THEN FALSE ELSE @,
                        !.link = IF op[p].copy.link = "null" THEN @ ELSE "null"]
    OBVIOUS
  <2>3. d \in AttDoc /\ (d.link = "record" => att[op[p].a].link = "record")
    BY <2>1, <2>2 DEF AttDoc
  <2>4. att' = [att EXCEPT ![op[p].a] = d]
    BY <1>14, <2>1, <2>2 DEF Clear, IInv, AttDoc
  <2>5. /\ att' \in [Att -> AttDoc]
        /\ \A b \in Att : att'[b].link = "record" => att[b].link = "record"
    BY <2>1, <2>3, <2>4 DEF IInv
  <2> QED BY <1>14, <2>5, EndStep DEF Clear, IInv
<1> QED BY <1>4, <1>5, <1>6, <1>7, <1>8, <1>9, <1>10, <1>11, <1>12, <1>13, <1>14 DEF Step

LEMMA NextIInv == ASSUME IInv, [Next]_vars PROVE IInv'
<1>1. CASE UNCHANGED vars
  BY <1>1 DEF vars, IInv, OpOK
<1>2. ASSUME NEW r \in Req, NEW a \in Att,
             Checkin(r, a) \/ Cancel(r, a) \/ Decide(r, a) \/ Finalize(r, a) \/ Sync(r, a)
      PROVE  IInv'
  BY <1>2, BeginStep
<1>3. ASSUME NEW p \in Process, Step(p)
      PROVE  IInv'
  BY <1>3, WorkStep
<1>4. ASSUME NEW p \in Process, Crash(p)
      PROVE  IInv'
  <2>1. OpOK(IdleOp)'
    BY IdleType DEF OpOK
  <2>2. /\ op' = [op EXCEPT ![p] = IdleOp]
        /\ att' = att /\ record' = record /\ open' = open
        /\ marks' = marks /\ cancels' = cancels /\ crashes' \in Nat
    BY <1>4 DEF Crash, IInv
  <2> QED BY <2>1, <2>2, OneRequest DEF IInv
<1>5. CASE RetryTick \/ RetryNext
  BY <1>5, RetryStep
<1>6. CASE WindowEnds
  BY <1>6 DEF WindowEnds, IInv, OpOK
<1> QED BY <1>1, <1>2, <1>3, <1>4, <1>5, <1>6 DEF Next, Process

LEMMA Invariance == Spec => []IInv
BY InitIInv, NextIInv, PTL DEF Spec

-----------------------------------------------------------------------------
(* The documents keep their types, and a mark is never linked to a record   *)
(* that does not exist, wherever syncs and revocations are interrupted.     *)
THEOREM TypeCorrect == Spec => []TypeOK
BY Invariance, TypeFromIInv, PTL

LEMMA RevokedStep ==
    ASSUME Next, NEW a \in Att, record[a] = "deleted", IInv
    PROVE  record'[a] = "deleted"
<1>1. CASE \E p \in Process : Create(p)
  BY <1>1 DEF Create, KeyIsFree, IInv
<1>2. CASE \E p \in Process : Unrecord(p)
  BY <1>2 DEF Unrecord, IInv
<1>3. CASE record' = record
  BY <1>3
<1> QED
  BY <1>1, <1>2, <1>3 DEF Next, Step, Process, Checkin, Cancel, Decide, Finalize, Sync,
     CheckinWrite, CancelWrite, DecideWrite, SyncRead, CheckCap, Lookup, Mark, RevokeRead,
     Clear, Crash, RetryTick, RetryNext, WindowEnds

(* A record that was revoked stays revoked, whatever sync was under way:    *)
(* its key is taken for good.                                               *)
THEOREM RevokedTheorem == Spec => RevokedStaysRevoked
<1>1. IInv /\ [Next]_vars
        => [\A a \in Att : record[a] = "deleted" => record'[a] = "deleted"]_vars
  BY RevokedStep
<1> QED BY <1>1, Invariance, PTL DEF Spec, RevokedStaysRevoked

-----------------------------------------------------------------------------
(* The cap: two inequalities that every step keeps.  Marks that are synced  *)
(* and syncs past their check fill the cap and one place for each other     *)
(* process; an active record that no sync is about to link is paid for by a *)
(* crash or by a revocation that has ended.                                 *)

Synced(s) == {a \in Att : Owner[a] = s /\ att[a].synced}
Racing == {"lookup", "create", "mark"}
Past(s) == {p \in Process : op[p].pc \in Racing /\ Owner[op[p].a] = s}

Covered(a) == \E p \in Process : op[p].pc = "mark" /\ op[p].a = a
Orphans(s) == {a \in Att : Owner[a] = s /\ record[a] = "active" /\ ~att[a].synced /\ ~Covered(a)}
RevokePcs == {"cancel", "reject", "revoke", "unrecord", "clear"}
Revoking == {p \in Process : op[p].pc \in RevokePcs}

RoomLeft == Cap # 0 => \A s \in Student :
    Cardinality(Synced(s)) + Cardinality(Past(s)) <= Cap + Cardinality(Req)
OrphansPaid == \A s \in Student :
    Cardinality(Orphans(s)) + Cardinality(Revoking) <= crashes + cancels

LEMMA Finite ==
    /\ IsFiniteSet(Att) /\ IsFiniteSet(Process)
    /\ Cardinality(Process) = Cardinality(Req) + 1 /\ Cardinality(Req) \in Nat
<1>1. IsFiniteSet(Req) /\ IsFiniteSet(Att) /\ Timer \notin Req
  BY ConstantsAssumption
<1>2. Cardinality(Req) \in Nat
  BY <1>1, FS_CardinalityType
<1> QED BY <1>1, <1>2, FS_AddElement DEF Process

(* What a set of a finite type can do to a count.                           *)
LEMMA Smaller ==
    ASSUME NEW U, IsFiniteSet(U), NEW T \in SUBSET U, NEW S, S \subseteq T
    PROVE  Cardinality(S) \in Nat /\ Cardinality(T) \in Nat /\ Cardinality(S) <= Cardinality(T)
<1>1. IsFiniteSet(T)
  BY FS_Subset
<1>2. IsFiniteSet(S) /\ Cardinality(S) <= Cardinality(T)
  BY <1>1, FS_Subset
<1> QED BY <1>1, <1>2, FS_CardinalityType

LEMMA OneMore ==
    ASSUME NEW U, IsFiniteSet(U), NEW T \in SUBSET U, NEW x, NEW S, S \subseteq T \cup {x}
    PROVE  Cardinality(S) \in Nat /\ Cardinality(T) \in Nat /\ Cardinality(S) <= Cardinality(T) + 1
<1>1. IsFiniteSet(T) /\ Cardinality(T) \in Nat
  BY FS_Subset, FS_CardinalityType
<1>2. /\ IsFiniteSet(T \cup {x})
      /\ Cardinality(T \cup {x}) \in {Cardinality(T), Cardinality(T) + 1}
  BY <1>1, FS_AddElement
<1>3. IsFiniteSet(S) /\ Cardinality(S) <= Cardinality(T \cup {x})
  BY <1>2, FS_Subset
<1>4. Cardinality(S) \in Nat
  BY <1>3, FS_CardinalityType
<1> QED BY <1>1, <1>2, <1>3, <1>4

LEMMA OneLess ==
    ASSUME NEW U, IsFiniteSet(U), NEW T \in SUBSET U, NEW x \in T, NEW S, S \subseteq T \ {x}
    PROVE  Cardinality(S) \in Nat /\ Cardinality(T) \in Nat /\ Cardinality(S) + 1 <= Cardinality(T)
<1>1. IsFiniteSet(T) /\ Cardinality(T) \in Nat
  BY FS_Subset, FS_CardinalityType
<1>2. IsFiniteSet(T \ {x}) /\ Cardinality(T \ {x}) = Cardinality(T) - 1
  BY <1>1, FS_RemoveElement
<1>3. IsFiniteSet(S) /\ Cardinality(S) <= Cardinality(T \ {x})
  BY <1>2, FS_Subset
<1>4. Cardinality(S) \in Nat
  BY <1>3, FS_CardinalityType
<1> QED BY <1>1, <1>2, <1>3, <1>4

-----------------------------------------------------------------------------
(* The kinds of step.                                                       *)

LEMMA Subsets == ASSUME NEW s
                 PROVE  /\ Synced(s) \in SUBSET Att /\ Orphans(s) \in SUBSET Att
                        /\ Past(s) \in SUBSET Process /\ Revoking \in SUBSET Process
BY DEF Synced, Orphans, Past, Revoking

LEMMA RoomSame ==
    ASSUME RoomLeft, NEW s \in Student, Cap # 0,
           Synced(s)' \subseteq Synced(s), Past(s)' \subseteq Past(s)
    PROVE  Cardinality(Synced(s)') + Cardinality(Past(s)') <= Cap + Cardinality(Req)
<1>1. /\ Cardinality(Synced(s)') \in Nat /\ Cardinality(Synced(s)) \in Nat
      /\ Cardinality(Synced(s)') <= Cardinality(Synced(s))
  BY Finite, Subsets, Smaller
<1>2. /\ Cardinality(Past(s)') \in Nat /\ Cardinality(Past(s)) \in Nat
      /\ Cardinality(Past(s)') <= Cardinality(Past(s))
  BY Finite, Subsets, Smaller
<1>3. Cardinality(Synced(s)) + Cardinality(Past(s)) <= Cap + Cardinality(Req)
  BY DEF RoomLeft
<1>4. Cap \in Nat /\ Cardinality(Req) \in Nat
  BY ConstantsAssumption, Finite
<1> QED BY <1>1, <1>2, <1>3, <1>4

(* One sync less is past its check, one mark more is synced.                *)
LEMMA RoomUsed ==
    ASSUME RoomLeft, NEW s \in Student, Cap # 0, NEW a, NEW p \in Past(s),
           Synced(s)' \subseteq Synced(s) \cup {a}, Past(s)' \subseteq Past(s) \ {p}
    PROVE  Cardinality(Synced(s)') + Cardinality(Past(s)') <= Cap + Cardinality(Req)
<1>1. /\ Cardinality(Synced(s)') \in Nat /\ Cardinality(Synced(s)) \in Nat
      /\ Cardinality(Synced(s)') <= Cardinality(Synced(s)) + 1
  BY Finite, Subsets, OneMore
<1>2. /\ Cardinality(Past(s)') \in Nat /\ Cardinality(Past(s)) \in Nat
      /\ Cardinality(Past(s)') + 1 <= Cardinality(Past(s))
  BY Finite, Subsets, OneLess
<1>3. Cardinality(Synced(s)) + Cardinality(Past(s)) <= Cap + Cardinality(Req)
  BY DEF RoomLeft
<1>4. Cap \in Nat /\ Cardinality(Req) \in Nat
  BY ConstantsAssumption, Finite
<1> QED BY <1>1, <1>2, <1>3, <1>4

LEMMA PaidSame ==
    ASSUME OrphansPaid, NEW s \in Student,
           Orphans(s)' \subseteq Orphans(s), Revoking' \subseteq Revoking,
           crashes \in Nat, cancels \in Nat, crashes' = crashes,
           cancels' = cancels \/ cancels' = cancels + 1
    PROVE  Cardinality(Orphans(s)') + Cardinality(Revoking') <= crashes' + cancels'
<1>1. /\ Cardinality(Orphans(s)') \in Nat /\ Cardinality(Orphans(s)) \in Nat
      /\ Cardinality(Orphans(s)') <= Cardinality(Orphans(s))
  BY Finite, Subsets, Smaller
<1>2. /\ Cardinality(Revoking') \in Nat /\ Cardinality(Revoking) \in Nat
      /\ Cardinality(Revoking') <= Cardinality(Revoking)
  BY Finite, Subsets, Smaller
<1>3. Cardinality(Orphans(s)) + Cardinality(Revoking) <= crashes + cancels
  BY DEF OrphansPaid
<1> QED BY <1>1, <1>2, <1>3

(* A revocation begins, and is counted.                                     *)
LEMMA PaidBegin ==
    ASSUME OrphansPaid, NEW s \in Student, NEW r,
           Orphans(s)' \subseteq Orphans(s), Revoking' \subseteq Revoking \cup {r},
           crashes \in Nat, cancels \in Nat, crashes' = crashes, cancels' = cancels + 1
    PROVE  Cardinality(Orphans(s)') + Cardinality(Revoking') <= crashes' + cancels'
<1>1. /\ Cardinality(Orphans(s)') \in Nat /\ Cardinality(Orphans(s)) \in Nat
      /\ Cardinality(Orphans(s)') <= Cardinality(Orphans(s))
  BY Finite, Subsets, Smaller
<1>2. /\ Cardinality(Revoking') \in Nat /\ Cardinality(Revoking) \in Nat
      /\ Cardinality(Revoking') <= Cardinality(Revoking) + 1
  BY Finite, Subsets, OneMore
<1>3. Cardinality(Orphans(s)) + Cardinality(Revoking) <= crashes + cancels
  BY DEF OrphansPaid
<1> QED BY <1>1, <1>2, <1>3

(* A revocation ends, and may leave the record that it did not see.         *)
LEMMA PaidEnd ==
    ASSUME OrphansPaid, NEW s \in Student, NEW r \in Revoking, NEW a,
           Orphans(s)' \subseteq Orphans(s) \cup {a}, Revoking' \subseteq Revoking \ {r},
           crashes \in Nat, cancels \in Nat, crashes' = crashes, cancels' = cancels
    PROVE  Cardinality(Orphans(s)') + Cardinality(Revoking') <= crashes' + cancels'
<1>1. /\ Cardinality(Orphans(s)') \in Nat /\ Cardinality(Orphans(s)) \in Nat
      /\ Cardinality(Orphans(s)') <= Cardinality(Orphans(s)) + 1
  BY Finite, Subsets, OneMore
<1>2. /\ Cardinality(Revoking') \in Nat /\ Cardinality(Revoking) \in Nat
      /\ Cardinality(Revoking') + 1 <= Cardinality(Revoking)
  BY Finite, Subsets, OneLess
<1>3. Cardinality(Orphans(s)) + Cardinality(Revoking) <= crashes + cancels
  BY DEF OrphansPaid
<1> QED BY <1>1, <1>2, <1>3

LEMMA PaidCrash ==
    ASSUME OrphansPaid, NEW s \in Student, NEW a,
           Orphans(s)' \subseteq Orphans(s) \cup {a}, Revoking' \subseteq Revoking,
           crashes \in Nat, cancels \in Nat, crashes' = crashes + 1, cancels' = cancels
    PROVE  Cardinality(Orphans(s)') + Cardinality(Revoking') <= crashes' + cancels'
<1>1. /\ Cardinality(Orphans(s)') \in Nat /\ Cardinality(Orphans(s)) \in Nat
      /\ Cardinality(Orphans(s)') <= Cardinality(Orphans(s)) + 1
  BY Finite, Subsets, OneMore
<1>2. /\ Cardinality(Revoking') \in Nat /\ Cardinality(Revoking) \in Nat
      /\ Cardinality(Revoking') <= Cardinality(Revoking)
  BY Finite, Subsets, Smaller
<1>3. Cardinality(Orphans(s)) + Cardinality(Revoking) <= crashes + cancels
  BY DEF OrphansPaid
<1> QED BY <1>1, <1>2, <1>3

-----------------------------------------------------------------------------
(* A step of one process that neither gets past the check nor marks, clears *)
(* or crashes; a record that it creates is its own to mark.                 *)
CapInv == RoomLeft /\ OrphansPaid

LEMMA QuietStep ==
    ASSUME IInv, CapInv, NEW p \in Process,
           \A q \in Process : q # p => op'[q] = op[q],
           \A a \in Att : att'[a].synced = att[a].synced,
           \A a \in Att : record'[a] = "active" =>
               record[a] = "active" \/ (op'[p].pc = "mark" /\ op'[p].a = a),
           op[p].pc # "mark",
           op'[p].pc \in Racing => op[p].pc \in Racing /\ op'[p].a = op[p].a,
           crashes' = crashes,
           \/ cancels' = cancels /\ (op'[p].pc \in RevokePcs => op[p].pc \in RevokePcs)
           \/ cancels' = cancels + 1
    PROVE  CapInv'
<1>1. ASSUME NEW s \in Student
      PROVE  /\ Synced(s)' \subseteq Synced(s) /\ Past(s)' \subseteq Past(s)
             /\ Orphans(s)' \subseteq Orphans(s)
  <2>1. Synced(s)' \subseteq Synced(s)
    BY DEF Synced
  <2>2. Past(s)' \subseteq Past(s)
    BY DEF Past
  <2>3. ASSUME NEW a \in Att, Covered(a) PROVE Covered(a)'
    BY <2>3 DEF Covered
  <2>4. ASSUME NEW a \in Att, record'[a] = "active", ~Covered(a)' PROVE record[a] = "active"
    BY <2>4 DEF Covered
  <2>5. Orphans(s)' \subseteq Orphans(s)
    BY <2>3, <2>4 DEF Orphans
  <2> QED BY <2>1, <2>2, <2>5
<1>2. crashes \in Nat /\ cancels \in Nat
  BY DEF IInv
<1>3. RoomLeft'
  BY <1>1, RoomSame DEF RoomLeft, CapInv
<1>4. OrphansPaid'
  <2>1. CASE cancels' = cancels /\ (op'[p].pc \in RevokePcs => op[p].pc \in RevokePcs)
    <3>1. Revoking' \subseteq Revoking
      BY <2>1 DEF Revoking
    <3> QED BY <1>1, <1>2, <2>1, <3>1, PaidSame DEF OrphansPaid, CapInv
  <2>2. CASE cancels' = cancels + 1
    <3>1. Revoking' \subseteq Revoking \cup {p}
      BY DEF Revoking
    <3> QED BY <1>1, <1>2, <2>2, <3>1, PaidBegin DEF OrphansPaid, CapInv
  <2> QED BY <2>1, <2>2
<1> QED BY <1>3, <1>4 DEF CapInv

(* What End and Goto do to the place of a process.                          *)
LEMMA EndMoves ==
    ASSUME IInv, NEW p \in Process, End(p)
    PROVE  op'[p].pc \in {"idle", "retry"} /\ \A q \in Process : q # p => op'[q] = op[q]
<1>1. PICK o : o = [IdleOp EXCEPT !.todo = op[p].todo,
                                  !.pc = IF op[p].todo = {} THEN "idle" ELSE "retry"]
  OBVIOUS
<1>2. op' = [op EXCEPT ![p] = o]
  BY <1>1 DEF End
<1>3. o.pc \in {"idle", "retry"}
  BY <1>1 DEF IdleOp
<1> QED BY <1>2, <1>3 DEF IInv

LEMMA GotoMoves ==
    ASSUME IInv, NEW p \in Process, NEW pc, Goto(p, pc)
    PROVE  op'[p].pc = pc /\ op'[p].a = op[p].a /\ \A q \in Process : q # p => op'[q] = op[q]
BY DEF Goto, IInv, OpRecord

LEMMA BeginCap ==
    ASSUME IInv, CapInv, NEW r \in Req, NEW a \in Att,
           Checkin(r, a) \/ Cancel(r, a) \/ Decide(r, a) \/ Finalize(r, a) \/ Sync(r, a)
    PROVE  CapInv'
<1>1. r \in Process
  BY DEF Process
<1>2. /\ op[r].pc = "idle" /\ crashes' = crashes /\ record' = record
      /\ \A q \in Process : q # r => op'[q] = op[q]
      /\ \A b \in Att : att'[b].synced = att[b].synced
  BY <1>1 DEF Checkin, Cancel, Decide, Finalize, Sync, At, IInv, AttDoc
<1>3. \/ cancels' = cancels /\ op'[r].pc \in {"checkin", "approve", "sync"}
      \/ cancels' = cancels + 1 /\ op'[r].pc \in {"cancel", "reject"}
  <2>1. op \in [Process -> OpRecord]
    BY DEF IInv, OpOK
  <2>2. CASE Checkin(r, a)
    BY <1>1, <2>1, <2>2 DEF Checkin, IdleOp
  <2>3. CASE Cancel(r, a)
    BY <1>1, <2>1, <2>3 DEF Cancel, IdleOp
  <2>4. CASE Decide(r, a)
    BY <1>1, <2>1, <2>4 DEF Decide, IdleOp
  <2>5. CASE Finalize(r, a)
    BY <1>1, <2>1, <2>5 DEF Finalize, IdleOp
  <2>6. CASE Sync(r, a)
    BY <1>1, <2>1, <2>6 DEF Sync, IdleOp
  <2> QED BY <2>2, <2>3, <2>4, <2>5, <2>6
<1>4. (cancels' = cancels /\ op'[r].pc \notin RevokePcs) \/ cancels' = cancels + 1
  BY <1>3 DEF RevokePcs
<1>5. op'[r].pc \notin Racing /\ op[r].pc # "mark"
  BY <1>2, <1>3 DEF Racing
<1> QED BY <1>1, <1>2, <1>4, <1>5, QuietStep

LEMMA RetryCap ==
    ASSUME IInv, CapInv, RetryTick \/ RetryNext
    PROVE  CapInv'
<1>1. Timer \in Process
  BY DEF Process
<1>2. /\ op[Timer].pc \in {"idle", "retry"} /\ op'[Timer].pc \in {"retry", "sync"}
      /\ \A q \in Process : q # Timer => op'[q] = op[q]
  <2>1. op \in [Process -> OpRecord]
    BY DEF IInv
  <2>2. CASE RetryTick
    <3>1. PICK S : op' = [op EXCEPT ![Timer] = [IdleOp EXCEPT !.pc = "retry", !.todo = S]]
      BY <2>2 DEF RetryTick
    <3> QED BY <1>1, <2>1, <2>2, <3>1 DEF RetryTick, At, IdleOp
  <2>3. CASE RetryNext
    <3>1. PICK a \in op[Timer].todo :
            op' = [op EXCEPT ![Timer] = [op[Timer] EXCEPT !.pc = "sync", !.a = a,
                                                          !.todo = op[Timer].todo \ {a}]]
      BY <1>1, <2>1, <2>3 DEF RetryNext, OpRecord
    <3>2. PICK o : o = [op[Timer] EXCEPT !.pc = "sync", !.a = a, !.todo = op[Timer].todo \ {a}]
      OBVIOUS
    <3>3. op' = [op EXCEPT ![Timer] = o] /\ o.pc = "sync"
      BY <1>1, <2>1, <3>1, <3>2 DEF OpRecord
    <3> QED BY <1>1, <2>1, <2>3, <3>3 DEF RetryNext, At
  <2> QED BY <2>2, <2>3
<1>3. crashes' = crashes /\ cancels' = cancels /\ record' = record /\ att' = att
  BY DEF RetryTick, RetryNext
<1>4. op'[Timer].pc \notin Racing \cup RevokePcs /\ op[Timer].pc # "mark"
  BY <1>2 DEF Racing, RevokePcs
<1> QED BY <1>1, <1>2, <1>3, <1>4, QuietStep

(* The writes of a mark other than Mark and Clear.                          *)
LEMMA WriteCap ==
    ASSUME IInv, CapInv, NEW p \in Process,
           \/ CheckinWrite(p) \/ CancelWrite(p) \/ DecideWrite(p) \/ SyncRead(p)
           \/ Lookup(p) \/ Create(p) \/ RevokeRead(p) \/ Unrecord(p)
    PROVE  CapInv'
<1>1. op[p] \in OpRecord /\ crashes' = crashes /\ cancels' = cancels
  BY DEF IInv, CheckinWrite, CancelWrite, DecideWrite, SyncRead, Lookup, Create, RevokeRead, Unrecord
<1>2. CASE CheckinWrite(p)
  <2>1. op[p].pc = "checkin" /\ record' = record /\ \A b \in Att : att'[b].synced = att[b].synced
    BY <1>2 DEF CheckinWrite, At, IInv, AttDoc
  <2>2. op'[p].pc \in {"idle", "retry"} /\ \A q \in Process : q # p => op'[q] = op[q]
    BY <1>2, EndMoves DEF CheckinWrite
  <2> QED BY <1>1, <2>1, <2>2, QuietStep DEF Racing, RevokePcs
<1>3. CASE CancelWrite(p)
  <2>1. op[p].pc = "cancel" /\ record' = record /\ \A b \in Att : att'[b].synced = att[b].synced
    BY <1>3 DEF CancelWrite, At, IInv, AttDoc
  <2>2. op'[p].pc = "revoke" /\ \A q \in Process : q # p => op'[q] = op[q]
    BY <1>3, GotoMoves DEF CancelWrite
  <2> QED BY <1>1, <2>1, <2>2, QuietStep DEF Racing, RevokePcs
<1>4. CASE DecideWrite(p)
  <2>1. record' = record /\ \A b \in Att : att'[b].synced = att[b].synced
    BY <1>4, SMTT(20) DEF DecideWrite, IInv, AttDoc
  <2>2. /\ \A q \in Process : q # p => op'[q] = op[q]
        /\ \/ op[p].pc = "approve" /\ op'[p].pc = "sync"
           \/ op[p].pc = "reject" /\ op'[p].pc = "revoke"
    BY <1>4, GotoMoves DEF DecideWrite, At
  <2> QED BY <1>1, <2>1, <2>2, QuietStep DEF Racing, RevokePcs
<1>5. CASE SyncRead(p)
  <2>1. op[p].pc = "sync" /\ record' = record /\ att' = att
    BY <1>5 DEF SyncRead, At
  <2>2. op'[p].pc \in {"idle", "retry", "cap"} /\ \A q \in Process : q # p => op'[q] = op[q]
    BY <1>5, GotoMoves, EndMoves DEF SyncRead
  <2> QED BY <1>1, <2>1, <2>2, QuietStep DEF Racing, RevokePcs
<1>6. CASE Lookup(p)
  <2>1. op[p].pc = "lookup" /\ record' = record /\ att' = att
    BY <1>6 DEF Lookup, At
  <2>2. /\ op'[p].pc \in {"mark", "create"} /\ op'[p].a = op[p].a
        /\ \A q \in Process : q # p => op'[q] = op[q]
    BY <1>6, GotoMoves DEF Lookup
  <2> QED BY <1>1, <2>1, <2>2, QuietStep DEF Racing, RevokePcs
<1>7. CASE Create(p)
  <2>1. op[p].pc = "create" /\ att' = att
    BY <1>7 DEF Create, At
  <2>2. CASE record' = record /\ End(p)
    <3>1. op'[p].pc \in {"idle", "retry"} /\ \A q \in Process : q # p => op'[q] = op[q]
      BY <2>2, EndMoves
    <3> QED BY <1>1, <2>1, <2>2, <3>1, QuietStep DEF Racing, RevokePcs
  <2>3. CASE record' = [record EXCEPT ![op[p].a] = "active"] /\ Goto(p, "mark")
    <3>1. op'[p].pc = "mark" /\ op'[p].a = op[p].a /\ \A q \in Process : q # p => op'[q] = op[q]
      BY <2>3, GotoMoves
    <3>2. \A b \in Att : record'[b] = "active" => record[b] = "active" \/ op'[p].a = b
      BY <2>3, <3>1 DEF IInv
    <3> QED BY <1>1, <2>1, <3>1, <3>2, QuietStep DEF Racing, RevokePcs
  <2> QED BY <1>7, <2>2, <2>3 DEF Create
<1>8. CASE RevokeRead(p)
  <2>1. op[p].pc = "revoke" /\ record' = record /\ att' = att
    BY <1>8 DEF RevokeRead, At
  <2>2. op'[p].pc \in {"unrecord", "clear"} /\ \A q \in Process : q # p => op'[q] = op[q]
    BY <1>1, <1>8 DEF RevokeRead, IInv, OpRecord
  <2> QED BY <1>1, <2>1, <2>2, QuietStep DEF Racing, RevokePcs
<1>9. CASE Unrecord(p)
  <2>1. /\ op[p].pc = "unrecord" /\ att' = att
        /\ \A b \in Att : record'[b] = "active" => record[b] = "active"
    BY <1>9 DEF Unrecord, At, IInv
  <2>2. op'[p].pc = "clear" /\ \A q \in Process : q # p => op'[q] = op[q]
    BY <1>9, GotoMoves DEF Unrecord
  <2> QED BY <1>1, <2>1, <2>2, QuietStep DEF Racing, RevokePcs
<1> QED BY <1>2, <1>3, <1>4, <1>5, <1>6, <1>7, <1>8, <1>9

-----------------------------------------------------------------------------
(* The check, the mark, the end of a revocation and a crash.                *)

LEMMA CheckCapStep ==
    ASSUME IInv, CapInv, NEW p \in Process, CheckCap(p)
    PROVE  CapInv'
<1>1. /\ op[p].pc = "cap" /\ att' = att /\ record' = record
      /\ crashes' = crashes /\ cancels' = cancels
  BY DEF CheckCap, At
<1>2. CASE End(p)
  <2>1. op'[p].pc \in {"idle", "retry"} /\ \A q \in Process : q # p => op'[q] = op[q]
    BY <1>2, EndMoves
  <2> QED BY <1>1, <2>1, QuietStep DEF Racing, RevokePcs
<1>3. CASE Goto(p, "lookup") /\ CapAllows(Owner[op[p].a])
  <2>1. /\ op'[p].pc = "lookup" /\ op'[p].a = op[p].a
        /\ \A q \in Process : q # p => op'[q] = op[q]
    BY <1>3, GotoMoves
  <2>2. Revoking' \subseteq Revoking
    BY <2>1 DEF Revoking, RevokePcs
  <2>3. ASSUME NEW a \in Att, Covered(a) PROVE Covered(a)'
    BY <1>1, <2>1, <2>3 DEF Covered
  <2>4. ASSUME NEW s \in Student PROVE Orphans(s)' \subseteq Orphans(s)
    BY <1>1, <2>3 DEF Orphans
  <2>5. OrphansPaid'
    <3>1. crashes \in Nat /\ cancels \in Nat
      BY DEF IInv
    <3> QED BY <1>1, <2>2, <2>4, <3>1, PaidSame DEF OrphansPaid, CapInv
  <2>6. ASSUME NEW s \in Student, Cap # 0
        PROVE  Cardinality(Synced(s)') + Cardinality(Past(s)') <= Cap + Cardinality(Req)
    <3>1. Synced(s)' = Synced(s)
      BY <1>1 DEF Synced
    <3>2. CASE s = Owner[op[p].a]
      <4>1. Cardinality(Synced(s)) + 1 <= Cap
        BY <1>3, <2>6, <3>2 DEF CapAllows, SyncedPoints, Synced
      <4>2. Past(s)' \in SUBSET Process
        BY DEF Past
      <4>3. Cardinality(Past(s)') \in Nat /\ Cardinality(Past(s)') <= Cardinality(Process)
        BY <4>2, Finite, Smaller
      <4>4. Cardinality(Synced(s)) \in Nat
        BY Finite, Subsets, Smaller
      <4>5. Cap \in Nat
        BY ConstantsAssumption
      <4> QED BY <3>1, <4>1, <4>3, <4>4, <4>5, Finite
    <3>3. CASE s # Owner[op[p].a]
      <4>1. Past(s)' \subseteq Past(s)
        BY <2>1, <3>3 DEF Past
      <4> QED BY <2>6, <3>1, <4>1, RoomSame DEF CapInv
    <3> QED BY <3>2, <3>3
  <2> QED BY <2>5, <2>6 DEF CapInv, RoomLeft
<1> QED BY <1>2, <1>3 DEF CheckCap

LEMMA MarkCap ==
    ASSUME IInv, CapInv, NEW p \in Process, Mark(p)
    PROVE  CapInv'
<1>1. /\ op[p].pc = "mark" /\ op[p].a \in Att /\ record' = record
      /\ crashes' = crashes /\ cancels' = cancels
  BY DEF Mark, At, IInv, OpOK
<1>2. /\ att'[op[p].a].synced
      /\ \A b \in Att : b # op[p].a => att'[b] = att[b]
  BY <1>1 DEF Mark, IInv, AttDoc
<1>3. op'[p].pc \in {"idle", "retry"} /\ \A q \in Process : q # p => op'[q] = op[q]
  BY EndMoves DEF Mark
<1>4. ASSUME NEW s \in Student, Cap # 0
      PROVE  Cardinality(Synced(s)') + Cardinality(Past(s)') <= Cap + Cardinality(Req)
  <2>1. CASE s = Owner[op[p].a]
    <3>1. Synced(s)' \subseteq Synced(s) \cup {op[p].a}
      BY <1>2 DEF Synced
    <3>2. p \in Past(s) /\ Past(s)' \subseteq Past(s) \ {p}
      BY <1>1, <1>3, <2>1 DEF Past, Racing
    <3> QED BY <1>4, <3>1, <3>2, RoomUsed DEF CapInv
  <2>2. CASE s # Owner[op[p].a]
    <3>1. Synced(s)' \subseteq Synced(s)
      BY <1>2, <2>2 DEF Synced
    <3>2. Past(s)' \subseteq Past(s)
      BY <1>3 DEF Past, Racing
    <3> QED BY <1>4, <3>1, <3>2, RoomSame DEF CapInv
  <2> QED BY <2>1, <2>2
<1>5. Revoking' \subseteq Revoking
  BY <1>3 DEF Revoking, RevokePcs
<1>6. ASSUME NEW a \in Att, Covered(a), a # op[p].a PROVE Covered(a)'
  BY <1>3, <1>6 DEF Covered
<1>7. ASSUME NEW s \in Student PROVE Orphans(s)' \subseteq Orphans(s)
  BY <1>1, <1>2, <1>6 DEF Orphans
<1>8. OrphansPaid'
  <2>1. crashes \in Nat /\ cancels \in Nat
    BY DEF IInv
  <2> QED BY <1>1, <1>5, <1>7, <2>1, PaidSame DEF OrphansPaid, CapInv
<1> QED BY <1>4, <1>8 DEF CapInv, RoomLeft

LEMMA ClearCap ==
    ASSUME IInv, CapInv, NEW p \in Process, Clear(p)
    PROVE  CapInv'
<1>1. /\ op[p].pc = "clear" /\ op[p].a \in Att /\ record' = record
      /\ crashes' = crashes /\ cancels' = cancels
  BY DEF Clear, At, IInv, OpOK
<1>2. /\ att'[op[p].a].synced => att[op[p].a].synced
      /\ \A b \in Att : b # op[p].a => att'[b] = att[b]
  <2>1. PICK d : d = [att[op[p].a] EXCEPT
                        !.synced = IF op[p].copy.synced THEN FALSE ELSE @,
                        !.link = IF op[p].copy.link = "null" THEN @ ELSE "null"]
    OBVIOUS
  <2>2. att[op[p].a] \in AttDoc
    BY <1>1 DEF IInv
  <2>3. d.synced => att[op[p].a].synced
    BY <2>1, <2>2 DEF AttDoc
  <2>4. att' = [att EXCEPT ![op[p].a] = d]
    BY <1>1, <2>1, <2>2 DEF Clear, IInv, AttDoc
  <2> QED BY <1>1, <2>3, <2>4 DEF IInv
<1>3. op'[p].pc \in {"idle", "retry"} /\ \A q \in Process : q # p => op'[q] = op[q]
  BY EndMoves DEF Clear
<1>4. ASSUME NEW s \in Student
      PROVE  /\ Synced(s)' \subseteq Synced(s) /\ Past(s)' \subseteq Past(s)
             /\ Orphans(s)' \subseteq Orphans(s) \cup {op[p].a}
  <2>1. Synced(s)' \subseteq Synced(s)
    BY <1>2 DEF Synced
  <2>2. Past(s)' \subseteq Past(s)
    BY <1>3 DEF Past, Racing
  <2>3. ASSUME NEW a \in Att, Covered(a) PROVE Covered(a)'
    BY <1>1, <1>3, <2>3 DEF Covered
  <2>4. Orphans(s)' \subseteq Orphans(s) \cup {op[p].a}
    BY <1>1, <1>2, <2>3 DEF Orphans
  <2> QED BY <2>1, <2>2, <2>4
<1>5. p \in Revoking /\ Revoking' \subseteq Revoking \ {p}
  BY <1>1, <1>3 DEF Revoking, RevokePcs
<1>6. OrphansPaid'
  <2>1. crashes \in Nat /\ cancels \in Nat
    BY DEF IInv
  <2> QED BY <1>1, <1>4, <1>5, <2>1, PaidEnd DEF OrphansPaid, CapInv
<1>7. RoomLeft'
  BY <1>4, RoomSame DEF RoomLeft, CapInv
<1> QED BY <1>6, <1>7 DEF CapInv

LEMMA CrashCap ==
    ASSUME IInv, CapInv, NEW p \in Process, Crash(p)
    PROVE  CapInv'
<1>1. /\ att' = att /\ record' = record /\ crashes' = crashes + 1 /\ cancels' = cancels
      /\ op'[p].pc = "idle" /\ \A q \in Process : q # p => op'[q] = op[q]
  BY IdleType DEF Crash, IInv
<1>2. ASSUME NEW s \in Student
      PROVE  /\ Synced(s)' \subseteq Synced(s) /\ Past(s)' \subseteq Past(s)
             /\ Orphans(s)' \subseteq Orphans(s) \cup {op[p].a}
  <2>1. Synced(s)' \subseteq Synced(s)
    BY <1>1 DEF Synced
  <2>2. Past(s)' \subseteq Past(s)
    BY <1>1 DEF Past, Racing
  <2>3. ASSUME NEW a \in Att, Covered(a), a # op[p].a PROVE Covered(a)'
    BY <1>1, <2>3 DEF Covered
  <2>4. Orphans(s)' \subseteq Orphans(s) \cup {op[p].a}
    BY <1>1, <2>3 DEF Orphans
  <2> QED BY <2>1, <2>2, <2>4
<1>3. Revoking' \subseteq Revoking
  BY <1>1 DEF Revoking, RevokePcs
<1>4. OrphansPaid'
  <2>1. crashes \in Nat /\ cancels \in Nat
    BY DEF IInv
  <2> QED BY <1>1, <1>2, <1>3, <2>1, PaidCrash DEF OrphansPaid, CapInv
<1>5. RoomLeft'
  BY <1>2, RoomSame DEF RoomLeft, CapInv
<1> QED BY <1>4, <1>5 DEF CapInv

-----------------------------------------------------------------------------
LEMMA InitCap == ASSUME Init PROVE CapInv
<1>1. \A a \in Att : ~att[a].synced /\ record[a] = "none"
  BY DEF Init, NoAtt
<1>2. \A p \in Process : op[p].pc = "idle"
  BY IdleType DEF Init, Process
<1>3. \A s \in Student : Synced(s) = {} /\ Past(s) = {} /\ Orphans(s) = {}
  BY <1>1, <1>2 DEF Synced, Past, Orphans, Racing
<1>4. Revoking = {}
  BY <1>2 DEF Revoking, RevokePcs
<1>5. Cap \in Nat /\ crashes = 0 /\ cancels = 0
  BY ConstantsAssumption DEF Init
<1> QED BY <1>3, <1>4, <1>5, Finite, FS_EmptySet DEF CapInv, RoomLeft, OrphansPaid

LEMMA NextCap == ASSUME IInv, CapInv, [Next]_vars PROVE CapInv'
<1>1. CASE UNCHANGED vars
  BY <1>1 DEF vars, CapInv, RoomLeft, OrphansPaid, Synced, Past, Orphans, Covered, Revoking
<1>2. ASSUME NEW r \in Req, NEW a \in Att,
             Checkin(r, a) \/ Cancel(r, a) \/ Decide(r, a) \/ Finalize(r, a) \/ Sync(r, a)
      PROVE  CapInv'
  BY <1>2, BeginCap
<1>3. ASSUME NEW p \in Process, Step(p)
      PROVE  CapInv'
  BY <1>3, WriteCap, CheckCapStep, MarkCap, ClearCap DEF Step
<1>4. ASSUME NEW p \in Process, Crash(p)
      PROVE  CapInv'
  BY <1>4, CrashCap
<1>5. CASE RetryTick \/ RetryNext
  BY <1>5, RetryCap
<1>6. CASE WindowEnds
  BY <1>6 DEF WindowEnds, CapInv, RoomLeft, OrphansPaid, Synced, Past, Orphans, Covered, Revoking
<1> QED BY <1>1, <1>2, <1>3, <1>4, <1>5, <1>6 DEF Next, Process

(* The marks that syncs past their check are about: not more than these.    *)
LEMMA CapFollows == ASSUME IInv, CapInv PROVE CapHoldsUpToRaces
<1> SUFFICES ASSUME Cap # 0, NEW s \in Student
             PROVE  Cardinality({a \in Att : Owner[a] = s /\ record[a] = "active"})
                        <= Cap + Cardinality(Req) + crashes + cancels
  BY DEF CapHoldsUpToRaces
<1> DEFINE A == {a \in Att : Owner[a] = s /\ record[a] = "active"}
           P == Past(s)
           M == {op[p].a : p \in P}
<1>1. A \subseteq Synced(s) \cup M \cup Orphans(s)
  BY DEF Synced, Past, Orphans, Covered, Racing
<1>2. /\ IsFiniteSet(Synced(s)) /\ IsFiniteSet(Orphans(s)) /\ IsFiniteSet(P)
      /\ IsFiniteSet(Revoking)
  BY Finite, Subsets, FS_Subset
<1>3. IsFiniteSet(M) /\ Cardinality(M) <= Cardinality(P)
  <2> DEFINE f == [p \in P |-> op[p].a]
  <2>1. f \in [P -> M] /\ \A t \in M : \E p \in P : f[p] = t
    OBVIOUS
  <2> HIDE DEF f, M, P
  <2>2. f \in Surjection(P, M)
    BY <2>1 DEF Surjection
  <2> QED BY <1>2, <2>2, FS_Surjection DEF P
<1>4. /\ IsFiniteSet(Synced(s) \cup M)
      /\ Cardinality(Synced(s) \cup M)
           = Cardinality(Synced(s)) + Cardinality(M) - Cardinality(Synced(s) \cap M)
  BY <1>2, <1>3, FS_Union
<1>5. /\ IsFiniteSet(Synced(s) \cup M \cup Orphans(s))
      /\ Cardinality(Synced(s) \cup M \cup Orphans(s))
           = Cardinality(Synced(s) \cup M) + Cardinality(Orphans(s))
                - Cardinality((Synced(s) \cup M) \cap Orphans(s))
  BY <1>2, <1>4, FS_Union
<1>6. IsFiniteSet(Synced(s) \cap M) /\ IsFiniteSet((Synced(s) \cup M) \cap Orphans(s))
  BY <1>2, <1>4, FS_Intersection
<1>7. IsFiniteSet(A) /\ Cardinality(A) <= Cardinality(Synced(s) \cup M \cup Orphans(s))
  BY <1>1, <1>5, FS_Subset
<1>8. /\ Cardinality(Synced(s)) \in Nat /\ Cardinality(M) \in Nat /\ Cardinality(P) \in Nat
      /\ Cardinality(Orphans(s)) \in Nat /\ Cardinality(Revoking) \in Nat
      /\ Cardinality(Synced(s) \cup M) \in Nat /\ Cardinality(A) \in Nat
      /\ Cardinality(Synced(s) \cup M \cup Orphans(s)) \in Nat
      /\ Cardinality(Synced(s) \cap M) \in Nat
      /\ Cardinality((Synced(s) \cup M) \cap Orphans(s)) \in Nat
  BY <1>2, <1>3, <1>4, <1>5, <1>6, <1>7, FS_CardinalityType
<1>9. /\ Cardinality(Synced(s)) + Cardinality(P) <= Cap + Cardinality(Req)
      /\ Cardinality(Orphans(s)) + Cardinality(Revoking) <= crashes + cancels
  BY DEF CapInv, RoomLeft, OrphansPaid
<1>10. Cap \in Nat /\ Cardinality(Req) \in Nat /\ crashes \in Nat /\ cancels \in Nat
  BY Finite, ConstantsAssumption DEF IInv
<1> HIDE DEF A, P, M
<1>11. Cardinality(A) <= Cap + Cardinality(Req) + crashes + cancels
  BY <1>3, <1>4, <1>5, <1>7, <1>8, <1>9, <1>10
<1> QED BY <1>11 DEF A

(* The cap is exceeded at most by the syncs that can be between check and   *)
(* mark at one time and by the crashes and revocations in between, for any  *)
(* number of requests, marks and students.                                  *)
THEOREM CapTheorem == Spec => []CapHoldsUpToRaces
<1>1. Init => IInv /\ CapInv
  BY InitIInv, InitCap
<1>2. IInv /\ CapInv /\ [Next]_vars => (IInv /\ CapInv)'
  BY NextIInv, NextCap
<1>3. IInv /\ CapInv => CapHoldsUpToRaces
  BY CapFollows
<1> QED BY <1>1, <1>2, <1>3, PTL DEF Spec
=============================================================================
