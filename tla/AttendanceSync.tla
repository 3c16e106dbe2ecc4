---------------------------- MODULE AttendanceSync ----------------------------
(***************************************************************************)
(* From attendance to training points: src/backend/src/activity-attendance *)
(* and attendance-sessions.  A homeroom teacher marks a student present    *)
(* while the activity runs; a manager, or the finalizer when the activity  *)
(* has ended, approves the mark; a sync then creates the academic record   *)
(* that earns the points and sets the mark's synced flag.  The mark and    *)
(* the record are separate documents and nothing spans them.               *)
(*                                                                         *)
(* All marks are of one activity without a completion rule, in one         *)
(* semester; each earns one point.  Every action is one datastore call.    *)
(***************************************************************************)
EXTENDS Naturals, FiniteSets

CONSTANTS
    Att, NoMark,    \* attendance marks, absent mark
    Student, Owner, \* the student of each mark
    Req,            \* requests in flight at one time
    Timer,          \* the interval that retries what is not synced
    Watched,        \* the marks whose completion is followed
    Cap,            \* config.max_points_per_semester
    Batch,          \* the 50 of retryUnsyncedApprovedAttendance
    MaxMarks,       \* bound: marks made
    MaxCancels,     \* bound: marks cancelled or rejected
    MaxCrashes      \* bound: crashes between two calls

ASSUME ConstantsAssumption ==
    /\ Owner \in [Att -> Student] /\ NoMark \notin Att /\ Watched \subseteq Att
    /\ Timer \notin Req /\ IsFiniteSet(Req) /\ IsFiniteSet(Att)
    /\ Cap \in Nat /\ Batch \in Nat \ {0}
    /\ MaxMarks \in Nat /\ MaxCancels \in Nat /\ MaxCrashes \in Nat

VARIABLES
    att,        \* the attendance documents
    record,     \* the academic record of each mark, by its idempotency key
    open,       \* the attendance window: end_time is ahead
    op,         \* the requests, and the retry loop
    marks, cancels, crashes     \* so far

vars == <<att, record, open, op, marks, cancels, crashes>>

-----------------------------------------------------------------------------
(* approval, whether the status is present, the synced flag, what           *)
(* academic_record_id holds ("null" after a revocation), recorded_at.       *)
NoAtt == [approval |-> "none", present |-> FALSE, synced |-> FALSE, link |-> "unset", at |-> 0]

(* The mark a request is about and the copy of it that the request has      *)
(* read; the marks that the retry loop has still to visit.                  *)
IdleOp == [pc |-> "idle", a |-> NoMark, copy |-> NoAtt, todo |-> {}]

At(p, pc) == op[p].pc = pc
Goto(p, pc) == op' = [op EXCEPT ![p].pc = pc]
End(p) == op' = [op EXCEPT ![p] = [IdleOp EXCEPT
              !.todo = op[p].todo, !.pc = IF op[p].todo = {} THEN "idle" ELSE "retry"]]

Pending(a) == att[a].approval = "pending"
Unsynced(a) == att[a].approval = "approved" /\ att[a].present /\ ~att[a].synced
SyncedPoints(s) == Cardinality({a \in Att : Owner[a] = s /\ att[a].synced})

-----------------------------------------------------------------------------
(* Marking: manualCheckin, cancelManualCheckin *)

Checkin(r, a) ==
    /\ At(r, "idle") /\ open
    /\ marks < MaxMarks /\ marks' = marks + 1
    /\ op' = [op EXCEPT ![r] = [IdleOp EXCEPT !.pc = "checkin", !.a = a]]
    /\ UNCHANGED <<att, record, open, cancels, crashes>>

(* A new mark, or one that is there set back to pending, synced or not.     *)
CheckinWrite(r) ==
    /\ At(r, "checkin")
    /\ att' = [att EXCEPT ![op[r].a] = [@ EXCEPT !.approval = "pending", !.present = TRUE,
                                                 !.at = marks]]
    /\ End(r)
    /\ UNCHANGED <<record, open, marks, cancels, crashes>>

Cancel(r, a) ==
    /\ At(r, "idle") /\ open /\ att[a] # NoAtt
    /\ cancels < MaxCancels /\ cancels' = cancels + 1
    /\ op' = [op EXCEPT ![r] = [IdleOp EXCEPT !.pc = "cancel", !.a = a, !.copy = att[a]]]
    /\ UNCHANGED <<att, record, open, marks, crashes>>

(* save() writes the fields that differ from the copy. *)
CancelWrite(r) ==
    /\ At(r, "cancel")
    /\ LET a == op[r].a
           copy == op[r].copy
       IN  att' = [att EXCEPT
                      ![a].approval = IF copy.approval = "rejected" THEN @ ELSE "rejected",
                      ![a].present = IF copy.present THEN FALSE ELSE @]
    /\ Goto(r, "revoke")
    /\ UNCHANGED <<record, open, marks, cancels, crashes>>

-----------------------------------------------------------------------------
(* Deciding: approve, reject; finalizeEndedDrafts *)

Decide(r, a) ==
    /\ At(r, "idle") /\ Pending(a)
    /\ \/ op' = [op EXCEPT ![r] = [IdleOp EXCEPT !.pc = "approve", !.a = a]]
          /\ UNCHANGED cancels
       \/ /\ cancels < MaxCancels /\ cancels' = cancels + 1
          /\ op' = [op EXCEPT ![r] = [IdleOp EXCEPT !.pc = "reject", !.a = a]]
    /\ UNCHANGED <<att, record, open, marks, crashes>>

(* The mark was pending when it was read. *)
DecideWrite(r) ==
    \/ /\ At(r, "approve")
       /\ att' = [att EXCEPT ![op[r].a].approval = "approved"]
       /\ Goto(r, "sync")
       /\ UNCHANGED <<record, open, marks, cancels, crashes>>
    \/ /\ At(r, "reject")
       /\ att' = [att EXCEPT ![op[r].a].approval = "rejected"]
       /\ Goto(r, "revoke")
       /\ UNCHANGED <<record, open, marks, cancels, crashes>>

WindowEnds ==
    /\ open /\ open' = FALSE
    /\ UNCHANGED <<att, record, op, marks, cancels, crashes>>

(* One conditional update; the sync that it enqueues runs in memory.        *)
Finalize(r, a) ==
    /\ At(r, "idle") /\ ~open
    /\ Pending(a) /\ att[a].present
    /\ att' = [att EXCEPT ![a].approval = "approved"]
    /\ op' = [op EXCEPT ![r] = [IdleOp EXCEPT !.pc = "sync", !.a = a]]
    /\ UNCHANGED <<record, open, marks, cancels, crashes>>

-----------------------------------------------------------------------------
(* syncAttendanceToAcademicRecord *)

(* The endpoint that syncs one mark. *)
Sync(r, a) ==
    /\ At(r, "idle") /\ Unsynced(a)
    /\ op' = [op EXCEPT ![r] = [IdleOp EXCEPT !.pc = "sync", !.a = a]]
    /\ UNCHANGED <<att, record, open, marks, cancels, crashes>>

(* The oldest marks that are approved and not synced. *)
RetryTick ==
    /\ At(Timer, "idle")
    /\ \E a \in Att : Unsynced(a)
    /\ op' = [op EXCEPT ![Timer] = [IdleOp EXCEPT !.pc = "retry",
                !.todo = {a \in Att : Unsynced(a) /\
                            Cardinality({b \in Att : Unsynced(b) /\ att[b].at < att[a].at}) < Batch}]]
    /\ UNCHANGED <<att, record, open, marks, cancels, crashes>>

RetryNext ==
    /\ At(Timer, "retry")
    /\ \E a \in op[Timer].todo :
         /\ \A b \in op[Timer].todo : att[a].at <= att[b].at
         /\ op' = [op EXCEPT ![Timer].pc = "sync", ![Timer].a = a, ![Timer].todo = @ \ {a}]
    /\ UNCHANGED <<att, record, open, marks, cancels, crashes>>

SyncRead(p) ==
    /\ At(p, "sync")
    /\ IF Unsynced(op[p].a)
       THEN Goto(p, "cap")
       ELSE End(p)
    /\ UNCHANGED <<att, record, open, marks, cancels, crashes>>

(* Mutant: the point to be earned is not counted. *)
CapLeavesRoom(s) == Cap = 0 \/ SyncedPoints(s) <= Cap

(* A cap of zero is none. *)
CapAllows(s) == Cap = 0 \/ SyncedPoints(s) + 1 <= Cap

CheckCap(p) ==
    /\ At(p, "cap")
    /\ IF CapAllows(Owner[op[p].a]) THEN Goto(p, "lookup") ELSE End(p)
    /\ UNCHANGED <<att, record, open, marks, cancels, crashes>>

(* Mutant: no look for a record that an earlier sync has left behind. *)
LookupNothing(p) ==
    /\ At(p, "lookup")
    /\ Goto(p, "create")
    /\ UNCHANGED <<att, record, open, marks, cancels, crashes>>

(* Mutant: the mark is linked without a look at the records. *)
LookupLinks(p) ==
    /\ At(p, "lookup")
    /\ Goto(p, "mark")
    /\ UNCHANGED <<att, record, open, marks, cancels, crashes>>

(* A record that is there and not deleted is only linked. *)
Lookup(p) ==
    /\ At(p, "lookup")
    /\ Goto(p, IF record[op[p].a] = "active" THEN "mark" ELSE "create")
    /\ UNCHANGED <<att, record, open, marks, cancels, crashes>>

(* Mutant: the unique index covers only records that are not deleted. *)
KeyNotActive(a) == record[a] # "active"

(* The unique index is on the key alone: a deleted record still has it. *)
KeyIsFree(a) == record[a] = "none"

Create(p) ==
    /\ At(p, "create")
    /\ IF KeyIsFree(op[p].a)
       THEN record' = [record EXCEPT ![op[p].a] = "active"] /\ Goto(p, "mark")
       ELSE End(p) /\ UNCHANGED record
    /\ UNCHANGED <<att, open, marks, cancels, crashes>>

Mark(p) ==
    /\ At(p, "mark")
    /\ att' = [att EXCEPT ![op[p].a] = [@ EXCEPT !.synced = TRUE, !.link = "record"]]
    /\ End(p)
    /\ UNCHANGED <<record, open, marks, cancels, crashes>>

-----------------------------------------------------------------------------
(* revokeAcademicRecord *)

RevokeRead(r) ==
    /\ At(r, "revoke")
    /\ LET copy == att[op[r].a] IN
       op' = [op EXCEPT ![r].copy = copy,
                        ![r].pc = IF copy.link = "record" THEN "unrecord" ELSE "clear"]
    /\ UNCHANGED <<att, record, open, marks, cancels, crashes>>

Unrecord(r) ==
    /\ At(r, "unrecord")
    /\ record' = [record EXCEPT ![op[r].a] = "deleted"]
    /\ Goto(r, "clear")
    /\ UNCHANGED <<att, open, marks, cancels, crashes>>

Clear(r) ==
    /\ At(r, "clear")
    /\ LET a == op[r].a
           copy == op[r].copy
       IN  att' = [att EXCEPT
                      ![a].synced = IF copy.synced THEN FALSE ELSE @,
                      ![a].link = IF copy.link = "null" THEN @ ELSE "null"]
    /\ End(r)
    /\ UNCHANGED <<record, open, marks, cancels, crashes>>

-----------------------------------------------------------------------------
Crash(p) ==
    /\ ~At(p, "idle")
    /\ crashes < MaxCrashes /\ crashes' = crashes + 1
    /\ op' = [op EXCEPT ![p] = IdleOp]
    /\ UNCHANGED <<att, record, open, marks, cancels>>

Init ==
    /\ att = [a \in Att |-> NoAtt]
    /\ record = [a \in Att |-> "none"]
    /\ open = TRUE
    /\ op = [p \in Req \cup {Timer} |-> IdleOp]
    /\ marks = 0 /\ cancels = 0 /\ crashes = 0

Step(p) ==
    \/ CheckinWrite(p) \/ CancelWrite(p) \/ DecideWrite(p)
    \/ SyncRead(p) \/ CheckCap(p) \/ Lookup(p) \/ Create(p) \/ Mark(p)
    \/ RevokeRead(p) \/ Unrecord(p) \/ Clear(p)

Next ==
    \/ \E r \in Req, a \in Att :
         Checkin(r, a) \/ Cancel(r, a) \/ Decide(r, a) \/ Finalize(r, a) \/ Sync(r, a)
    \/ \E p \in Req \cup {Timer} : Step(p) \/ Crash(p)
    \/ RetryTick \/ RetryNext
    \/ WindowEnds

Spec == Init /\ [][Next]_vars

(* The interval fires each minute and datastore calls return; nobody fairly *)
(* marks, decides or calls the endpoint, and no process fairly crashes.     *)
Fairness ==
    /\ WF_vars(RetryTick) /\ WF_vars(RetryNext)
    /\ \A p \in Req \cup {Timer} : WF_vars(Step(p))

FairSpec == Spec /\ Fairness

-----------------------------------------------------------------------------
(* Properties *)

AttDoc == [approval : {"none", "pending", "approved", "rejected"}, present : BOOLEAN,
           synced : BOOLEAN, link : {"unset", "null", "record"}, at : Nat]

PCs == {"idle", "checkin", "cancel", "approve", "reject", "retry", "sync", "cap", "lookup",
        "create", "mark", "revoke", "unrecord", "clear"}

OpRecord == [pc : PCs, a : Att \cup {NoMark}, copy : AttDoc, todo : SUBSET Att]

(* Types; a request works on a mark, and a mark is linked to a record only  *)
(* if that record was created, so that a revocation finds what it deletes.  *)
TypeOK ==
    /\ att \in [Att -> AttDoc]
    /\ record \in [Att -> {"none", "active", "deleted"}]
    /\ open \in BOOLEAN
    /\ op \in [Req \cup {Timer} -> OpRecord]
    /\ \A p \in Req \cup {Timer} : op[p].pc \notin {"idle", "retry"} => op[p].a \in Att
    /\ marks \in Nat /\ cancels \in Nat /\ crashes \in Nat
    /\ \A a \in Att : att[a].link = "record" => record[a] # "none"

(* The cap is soft, and only by so much: what a student's records earn      *)
(* exceeds it at most by the syncs that can be between their check and      *)
(* their mark at one time, and by one for each crash or revocation between. *)
CapHoldsUpToRaces ==
    Cap # 0 => \A s \in Student :
        Cardinality({a \in Att : Owner[a] = s /\ record[a] = "active"})
            <= Cap + Cardinality(Req) + crashes + cancels

(* A record that was revoked stays revoked: a sync that was under way, or a *)
(* retry, does not bring it back.                                           *)
RevokedStaysRevoked ==
    [][\A a \in Att : record[a] = "deleted" => record'[a] = "deleted"]_vars

(* A sync that crashed after it created the record is completed by a retry, *)
(* if there is room below the cap and the mark is not changed meanwhile.    *)
CrashedSyncCompleted ==
    \A a \in Watched :
        Unsynced(a) /\ record[a] = "active" /\ CapAllows(Owner[a])
            ~> ~Unsynced(a) \/ record[a] # "active" \/ ~CapAllows(Owner[a])

-----------------------------------------------------------------------------
(* What a comment of the source says and its code does not do *)

(* "The persistent unsynced flag is the retry queue; this in-memory kick    *)
(* only reduces latency": a mark that is approved, and that the cap leaves  *)
(* room for, is synced though its first sync was lost.                      *)
RetryQueueServed ==
    \A a \in Att :
        Unsynced(a) /\ CapAllows(Owner[a]) ~> ~Unsynced(a) \/ ~CapAllows(Owner[a])
=============================================================================
