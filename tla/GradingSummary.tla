---------------------------- MODULE GradingSummary ----------------------------
(***************************************************************************)
(* From academic records to the conduct score of a student in a semester:  *)
(* academic-record, evaluation-detail and summaries-point.                 *)
(*                                                                         *)
(* The records are documents of their own; the summary embeds one detail   *)
(* for each criterion, and every operation on a record ends in a           *)
(* synchronisation that counts the active records again and rewrites the   *)
(* detail.  Saves of the whole array of details carry the version of the   *)
(* copy that was read (a VersionError when it has moved on); updates of    *)
(* single fields carry nothing.  Every action is one datastore call, and   *)
(* a request starts with its first one.                                    *)
(*                                                                         *)
(* Criteria are scored by count, one point for each record; scores entered *)
(* by hand, options and the conflicts between the counts of several roles  *)
(* are left out, and so are permissions other than the level of a role.    *)
(* Each role is one user, and the criteria are of one category.            *)
(***************************************************************************)
EXTENDS Integers, FiniteSets, FiniteSetsExt

CONSTANTS
    N,          \* bound: academic records that one behaviour may create
    Criterion,
    Discipline, \* the criteria whose records take points away
    Role,       \* among "student", "teacher" and "admin"
    Mark,       \* bound: the scores a review may give
    Form,       \* bound: what an update may send that is not what the client read
    Sent,       \* bound: the sets of fields that an update may send
    Req,        \* requests in flight at one time
    MaxStarts,  \* bound: requests of one behaviour
    None,       \* a score, a grade, a detail or a copy that is not there
    MaxScore,   \* max_score of each criterion
    Pass        \* the total from which a grade is "high"

Detail == [count : 0..N, sys : Nat, sv : Nat \cup {None}, gv : Nat \cup {None},
           final : Nat \cup {None}, rev : BOOLEAN, lck : BOOLEAN]

Field == {"status", "det", "total", "grade", "rank"}

Document == [status : {"draft", "sv_submitted", "gv_reviewed", "locked"},
             det : [Criterion -> Detail \cup {None}],
             total : (0..100) \cup {None},
             grade : {None, "unranked", "high", "low"},
             rank : {None, "unranked", "high", "low"}]

ASSUME ConstantsAssumption ==
    /\ N \in Nat /\ MaxStarts \in Nat /\ MaxScore \in Nat \ {0} /\ Pass \in Nat
    /\ Mark \subseteq Nat /\ Discipline \subseteq Criterion /\ Criterion # {}
    /\ Role \subseteq {"student", "teacher", "admin"} /\ Role # {}
    /\ None \notin Int \cup Detail \cup Document
    /\ Form \subseteq Document /\ Sent \subseteq SUBSET Field

VARIABLES
    rec,        \* the records, in the order in which they were created
    sum,        \* the summary document
    op,         \* the requests
    starts      \* how many have started

vars == <<rec, sum, op, starts>>

-----------------------------------------------------------------------------
(* Scores *)

(* getRoleLevel of a requester, who has a role code.                        *)
Level(role) == IF role = "admin" THEN 4 ELSE IF role = "teacher" THEN 2 ELSE 1

(* The same of a record's author, of whom the synchronisation keeps the     *)
(* name of the role only: the level of an administrator goes by the code.   *)
AuthorLevel(role) == IF role = "teacher" THEN 2 ELSE 1

Least(x, y) == IF x < y THEN x ELSE y
Most(x, y) == IF x > y THEN x ELSE y

(* Mutant: points are taken away below zero. *)
ScoreUnbounded(c, n) == IF c \in Discipline THEN MaxScore - n ELSE Least(MaxScore, n)

(* calculateCriterionScoreHelper on the path of a synchronisation. *)
Score(c, n) == IF c \in Discipline THEN Most(0, MaxScore - n) ELSE Least(MaxScore, n)

FirstOf(a, b) == IF a # None THEN a ELSE b
Resolved(d) == FirstOf(d.gv, FirstOf(d.sv, d.sys))

Kept(d) == d.rev \/ d.lck \/ d.final # None

NewDetail == [count |-> 0, sys |-> 0, sv |-> None, gv |-> None, final |-> None,
              rev |-> FALSE, lck |-> FALSE]

(* Mutant: what was reviewed is left as it is, its count too. *)
SyncDetailFrozen(c, old, n, level) ==
    IF old # None /\ Kept(old) THEN old
    ELSE [(IF old = None THEN NewDetail ELSE old) EXCEPT !.count = n, !.sys = Score(c, n)]

(* calculateSyncDetail: what was reviewed, locked or approved keeps its     *)
(* scores; else the level of the requester says whose score is written.     *)
SyncDetail(c, old, n, level) ==
    LET s == Score(c, n)
        d == [(IF old = None THEN NewDetail ELSE old) EXCEPT !.count = n, !.sys = s]
    IN  IF Kept(d) THEN d
        ELSE CASE level = 0 -> [d EXCEPT !.sv = s, !.gv = s]
               [] level = 1 -> [d EXCEPT !.sv = s]
               [] level = 2 -> [d EXCEPT !.gv = s]
               [] level > 2 -> [d EXCEPT !.final = s]

(* recomputeTotalScore, one criterion, and the sum with its category's cap. *)
Counted(c, d, locked) ==
    IF d = None \/ (~locked /\ ~Kept(d) /\ d.count = 0) THEN Score(c, 0)
    ELSE LET raw == IF locked \/ d.lck THEN FirstOf(d.final, Resolved(d))
                    ELSE IF d.rev THEN Resolved(d) ELSE d.sys
         IN  IF c \in Discipline /\ raw = 0 /\ d.count = 0 THEN MaxScore ELSE raw

TotalOf(det, status) ==
    LET t == MapThenSumSet(LAMBDA c : Counted(c, det[c], status = "locked"), Criterion)
    IN  IF t \in 0..100 THEN t ELSE IF t > 100 THEN 100 ELSE 0

Total(s) == TotalOf(s.det, s.status)

(* Mutant: the threshold of a grade is exclusive. *)
GradeAbove(s) == IF s.status # "locked" THEN "unranked"
                 ELSE IF Total(s) > Pass THEN "high" ELSE "low"

Grade(s) == IF s.status # "locked" THEN "unranked"
            ELSE IF Total(s) >= Pass THEN "high" ELSE "low"

-----------------------------------------------------------------------------
(* State *)

Active(c) == {k \in 1..N : rec[k].crit = c /\ rec[k].st = "active"}

Idle == [pc |-> "idle", kind |-> "none", role |-> "admin", c |-> None, k |-> 0, v |-> None,
         sent |-> {}, crits |-> {}, level |-> 0, seen |-> [c \in Criterion |-> 0], copy |-> None,
         fresh |-> TRUE, edited |-> FALSE, tries |-> 0, back |-> "end", alone |-> FALSE]

Init ==
    /\ rec = [k \in 1..N |-> [crit |-> CHOOSE c \in Criterion : TRUE,
                              role |-> CHOOSE x \in Role : TRUE, st |-> "none"]]
    /\ sum = [status |-> "draft", det |-> [c \in Criterion |-> None],
              total |-> None, grade |-> None, rank |-> None]
    /\ op = [r \in Req |-> Idle]
    /\ starts = 0

At(r, pc) == op[r].pc = pc
Put(r, o) == op' = [op EXCEPT ![r] = o] /\ UNCHANGED starts
Go(r, pc) == Put(r, [op[r] EXCEPT !.pc = pc])
End(r) == Put(r, Idle)

(* A request reads the summary. *)
Read(r, pc) == Put(r, [op[r] EXCEPT !.pc = pc, !.copy = sum, !.fresh = TRUE,
                                    !.edited = FALSE])

(* A request starts; those in flight are no longer alone. *)
Start(r, o) ==
    /\ At(r, "idle") /\ starts < MaxStarts
    /\ starts' = starts + 1
    /\ op' = [q \in Req |-> IF q = r
                            THEN [o EXCEPT !.alone = \A p \in Req \ {r} : At(p, "idle")]
                            ELSE [op[q] EXCEPT !.alone = FALSE]]

(* Between the read of a copy and a save that needs its version. *)
Saving == {"syncSave", "approveRecords", "approveSave", "cancelSave"}

(* Who relies on details that were read before. *)
Holding(o) == o.pc \in Saving \cup {"review"}

(* A save that increments the version puts the copies of others out of      *)
(* date; that of an edited copy also replaces details by earlier ones.      *)
SaveVersion(r, s, pc) ==
    /\ sum' = s /\ UNCHANGED starts
    /\ op' = [q \in Req |-> IF q = r THEN [op[q] EXCEPT !.pc = pc, !.copy = None, !.fresh = TRUE,
                                                     !.edited = FALSE, !.seen = Idle.seen, !.level = 0]
                            ELSE [op[q] EXCEPT !.fresh = op[q].pc \notin Saving,
                                    !.edited = @ \/ (op[r].edited /\ op[q].pc = "review")]]

ToSync(o, crits, level, back) ==
    [o EXCEPT !.pc = "syncRecords", !.crits = crits, !.level = level, !.back = back]

Resume(r) == IF op[r].back = "end" THEN End(r)
             ELSE Put(r, [op[r] EXCEPT !.pc = op[r].back, !.seen = Idle.seen, !.copy = None,
                                       !.fresh = TRUE, !.tries = 0])

Open == sum.status # "locked"

(* Bound: each insertion under way finds a record to create. *)
Unused == {k \in 1..N : rec[k].st = "none"}
Room == Cardinality(Unused) > Cardinality({r \in Req : op[r].kind \in {"increase", "create"}})

-----------------------------------------------------------------------------
(* The synchronisation of criteria: syncStudentCriterionScore for one of    *)
(* them and syncMultipleStudentCriterionScores for all                      *)

(* The level of a requester who is not given is that of the author of the   *)
(* latest record.  An update synchronises its new criterion after the old.  *)
SyncRecords(r) ==
    /\ op[r].pc \in {"syncRecords", "syncNew"}
    /\ LET new == At(r, "syncNew")
           crits == IF new THEN {op[r].c} ELSE op[r].crits
           found == UNION {Active(c) : c \in crits}
           level == IF ~new /\ op[r].level # None THEN op[r].level
                    ELSE IF found = {} THEN 0 ELSE AuthorLevel(rec[Max(found)].role)
       IN  Put(r, [op[r] EXCEPT !.pc = "syncSummary", !.crits = crits, !.level = level,
                     !.back = IF new THEN "end" ELSE @,
                     !.seen = [c \in Criterion |-> Cardinality(Active(c) \cap found)]])
    /\ UNCHANGED <<rec, sum>>

(* The summary is read again, but not the records, after a VersionError. *)
SyncSummary(r) ==
    /\ At(r, "syncSummary")
    /\ IF Open THEN Read(r, "syncSave") ELSE Resume(r)
    /\ UNCHANGED <<rec, sum>>

Synced(o) == [c \in Criterion |-> IF c \in o.crits
                                  THEN SyncDetail(c, o.copy.det[c], o.seen[c], o.level)
                                  ELSE o.copy.det[c]]

(* Mutant: the details are saved without a look at the version. *)
SyncSaveBlind(r) ==
    /\ At(r, "syncSave")
    /\ SaveVersion(r, [sum EXCEPT !.det = Synced(op[r])], "recRead")
    /\ UNCHANGED rec

SyncSave(r) ==
    /\ At(r, "syncSave")
    /\ op[r].fresh
    /\ SaveVersion(r, [sum EXCEPT !.det = Synced(op[r])], "recRead")
    /\ UNCHANGED rec

SyncConflict(r) ==
    /\ At(r, "syncSave")
    /\ ~op[r].fresh
    /\ IF op[r].tries < 2
       THEN Put(r, [op[r] EXCEPT !.pc = "syncSummary", !.tries = @ + 1, !.copy = None,
                                 !.fresh = TRUE])
       ELSE Resume(r)
    /\ UNCHANGED <<rec, sum>>

(* recomputeTotalScore writes the fields that differ from the copy it read. *)
RecomputeRead(r) ==
    /\ At(r, "recRead")
    /\ Read(r, "recSave")
    /\ UNCHANGED <<rec, sum>>

RecomputeSave(r) ==
    /\ At(r, "recSave")
    /\ LET copy == op[r].copy
       IN  sum' = [sum EXCEPT !.total = IF Total(copy) = copy.total THEN @ ELSE Total(copy),
                              !.grade = IF Grade(copy) = copy.grade THEN @ ELSE Grade(copy)]
    /\ Resume(r)
    /\ UNCHANGED rec

-----------------------------------------------------------------------------
(* Academic records *)

(* handleScoreIntent: one record more or one less.  checkSummaryLocked is   *)
(* the first read; a count that the detail does not have is synchronised.   *)
Intent(r, role, c, kind) ==
    /\ Open /\ (kind = "increase" => Room)
    /\ Start(r, [Idle EXCEPT !.pc = "intentDetail", !.kind = kind, !.role = role, !.c = c])
    /\ UNCHANGED <<rec, sum>>

IntentDetail(r) ==
    /\ At(r, "intentDetail")
    /\ LET d == sum.det[op[r].c]
       IN  Put(r, [op[r] EXCEPT !.pc = "intentCount", !.k = IF d = None THEN 0 ELSE d.count])
    /\ UNCHANGED <<rec, sum>>

IntentCount(r) ==
    /\ At(r, "intentCount")
    /\ LET o == [op[r] EXCEPT !.k = 0, !.pc = "intentRecords"]
       IN  Put(r, IF op[r].k = Cardinality(Active(op[r].c)) THEN o
                  ELSE ToSync(o, {o.c}, Level(o.role), "intentRecords"))
    /\ UNCHANGED <<rec, sum>>

(* One's own record may be taken away, and that of anyone of a lower level: *)
(* the author's role is looked up in a field that roles do not have, and    *)
(* every author counts as a student.                                        *)
Deletable(c, role) == {k \in Active(c) : rec[k].role = role \/ Level("student") < Level(role)}

IntentRecords(r) ==
    /\ At(r, "intentRecords")
    /\ LET o == op[r]
           D == Deletable(o.c, o.role)
       IN  \/ /\ o.kind = "increase"
              /\ IF Cardinality(Active(o.c)) < MaxScore THEN Go(r, "insert") ELSE End(r)
           \/ /\ o.kind = "decrease" /\ D = {}
              /\ Put(r, ToSync(o, {o.c}, Level(o.role), "end"))
           \/ /\ o.kind = "decrease"
              /\ \E k \in D : (\A j \in D : j <= k) /\ Put(r, [o EXCEPT !.pc = "delete", !.k = k])
    /\ UNCHANGED <<rec, sum>>

(* create, whose requester is not handed to the synchronisation. *)
Create(r, role, c) ==
    /\ Open /\ Room
    /\ Start(r, [Idle EXCEPT !.pc = "insert", !.kind = "create", !.role = role, !.c = c])
    /\ UNCHANGED <<rec, sum>>

Insert(r) ==
    /\ At(r, "insert")
    /\ rec' = [rec EXCEPT ![Min(Unused)] =
                 [crit |-> op[r].c, role |-> op[r].role, st |-> "active"]]
    /\ Put(r, ToSync([op[r] EXCEPT !.kind = "none"], {op[r].c},
                     IF op[r].kind = "create" THEN None ELSE Level(op[r].role), "end"))
    /\ UNCHANGED sum

(* The deletion of an intent, and forceRemove of a record that was in the   *)
(* trash when it was read; both go by the record's id alone.                *)
Purge(r, k) ==
    /\ rec[k].st = "trash"
    /\ Start(r, [Idle EXCEPT !.pc = "delete", !.kind = "purge", !.k = k])
    /\ UNCHANGED <<rec, sum>>

Delete(r) ==
    /\ At(r, "delete")
    /\ LET k == op[r].k
       IN  /\ rec' = [rec EXCEPT ![k].st = "gone"]
           /\ IF op[r].kind = "purge" /\ rec[k].st = "gone" THEN End(r)
              ELSE LET o == [op[r] EXCEPT !.k = 0, !.kind = "none"]
                   IN  Put(r, IF op[r].kind = "purge" THEN ToSync(o, {rec[k].crit}, None, "end")
                              ELSE ToSync(o, {o.c}, Level(o.role), "end"))
    /\ UNCHANGED sum

(* remove, also under a locked summary. *)
Remove(r, k) ==
    /\ rec[k].st = "active"
    /\ Start(r, [Idle EXCEPT !.pc = "trash", !.k = k])
    /\ UNCHANGED <<rec, sum>>

(* restore and update (of the criterion) read the record, then the summary; *)
(* they synchronise the criterion that they read.                           *)
Restore(r, k) ==
    /\ rec[k].st = "trash"
    /\ Start(r, [Idle EXCEPT !.pc = "checkLocked", !.kind = "restore", !.k = k,
                                !.crits = {rec[k].crit}])
    /\ UNCHANGED <<rec, sum>>

Update(r, k, c) ==
    /\ rec[k].st = "active" /\ rec[k].crit # c
    /\ Start(r, [Idle EXCEPT !.pc = "checkLocked", !.kind = "update", !.k = k, !.c = c,
                                !.crits = {rec[k].crit}])
    /\ UNCHANGED <<rec, sum>>

CheckLocked(r) ==
    /\ At(r, "checkLocked")
    /\ IF Open THEN Go(r, op[r].kind) ELSE End(r)
    /\ UNCHANGED <<rec, sum>>

RecordWrite(r) ==
    /\ op[r].pc \in {"trash", "restore", "update"}
    /\ LET k == op[r].k
           o == [op[r] EXCEPT !.k = 0]
       IN  IF rec[k].st = "gone" THEN End(r) /\ UNCHANGED rec
           ELSE /\ rec' = CASE o.pc = "trash" -> [rec EXCEPT ![k].st = "trash"]
                            [] o.pc = "restore" -> [rec EXCEPT ![k].st = "active"]
                            [] o.pc = "update" -> [rec EXCEPT ![k].crit = o.c]
                /\ Put(r, ToSync(o, IF o.pc = "trash" THEN {rec[k].crit} ELSE o.crits, None,
                                 IF o.pc = "update" THEN "syncNew" ELSE "end"))
    /\ UNCHANGED sum

-----------------------------------------------------------------------------
(* The summary *)

(* findOne synchronises every criterion before it answers. *)
View(r) ==
    /\ Open
    /\ Start(r, ToSync(Idle, Criterion, 0, "end"))
    /\ UNCHANGED <<rec, sum>>

(* update reads the status, and then writes the fields it was sent, with no *)
(* look at the version.  A client fills in its form before that: with what  *)
(* it read at the time, or with values of its own.                          *)
Edit(r, sent, form) ==
    /\ "status" \in sent => form.status # "locked"
    /\ Start(r, [Idle EXCEPT !.pc = "checkLocked", !.kind = "edit", !.sent = sent, !.copy = form])
    /\ UNCHANGED <<rec, sum>>

(* Details that an update writes go past the copies that others have read.  *)
EditWrite(r) ==
    /\ At(r, "edit")
    /\ LET form == op[r].copy
           sent == op[r].sent
       IN  /\ sum' = [sum EXCEPT
                !.status = IF "status" \in sent THEN form.status ELSE @,
                !.det = IF "det" \in sent THEN form.det ELSE @,
                !.total = IF "total" \in sent THEN form.total ELSE @,
                !.grade = IF "grade" \in sent THEN form.grade ELSE @,
                !.rank = IF "status" \in sent /\ form.status = "draft" THEN None
                         ELSE IF "rank" \in sent THEN form.rank ELSE @]
           /\ op' = [q \in Req |->
                IF q = r THEN Idle
                ELSE [op[q] EXCEPT !.edited = @ \/ ("det" \in sent /\ Holding(op[q]))]]
    /\ UNCHANGED <<rec, starts>>

(* update of evaluation-detail: a score of the student's own, or the        *)
(* teacher's review.  It finds the detail by its id, whatever the status;   *)
(* once the details were replaced, that id may belong to none of them.      *)
Review(r, role, c, v) ==
    /\ Open /\ sum.det[c] # None
    /\ Start(r, [Idle EXCEPT !.pc = "review", !.role = role, !.c = c, !.v = v, !.copy = sum])
    /\ UNCHANGED <<rec, sum>>

Reviewed(o, d) ==
    IF o.role # "student" THEN [d EXCEPT !.gv = o.v, !.rev = TRUE]
    ELSE [d EXCEPT !.sv = o.v, !.gv = IF o.copy.det[o.c].rev THEN d.gv ELSE None]

ReviewWrite(r) ==
    /\ At(r, "review")
    /\ \/ /\ op[r].edited
          /\ End(r) /\ UNCHANGED sum
       \/ /\ sum.det[op[r].c] # None
          /\ sum' = [sum EXCEPT !.det[op[r].c] = Reviewed(op[r], sum.det[op[r].c])]
          /\ Put(r, [op[r] EXCEPT !.pc = "recRead", !.copy = None, !.fresh = TRUE])
    /\ UNCHANGED rec

(* approveGrading: synchronise, read the summary and the records, and save. *)
Approve(r) ==
    /\ Start(r, LET o == [Idle EXCEPT !.pc = "approveRead"]
                IN  IF Open THEN ToSync(o, Criterion, 0, "approveRead") ELSE o)
    /\ UNCHANGED <<rec, sum>>

ApproveRead(r) ==
    /\ At(r, "approveRead")
    /\ Read(r, "approveRecords")
    /\ UNCHANGED <<rec, sum>>

ApproveRecords(r) ==
    /\ At(r, "approveRecords")
    /\ Put(r, [op[r] EXCEPT !.pc = "approveSave", !.back = "rankRead",
                            !.seen = [c \in Criterion |-> Cardinality(Active(c))]])
    /\ UNCHANGED <<rec, sum>>

(* A score of zero that the records contradict, unless a review says so. *)
ZeroConflict(o) ==
    \E c \in Criterion :
        LET d == o.copy.det[c]
        IN  /\ d # None /\ o.seen[c] > 0 /\ Score(c, o.seen[c]) > 0
            /\ Resolved(d) = 0 /\ ~(d.rev /\ d.gv = 0)

Locked(d) == IF d = None THEN None ELSE [d EXCEPT !.final = Resolved(d), !.lck = TRUE]

ApproveSave(r) ==
    /\ At(r, "approveSave")
    /\ LET o == op[r]
       IN  IF ZeroConflict(o) \/ ~o.fresh THEN End(r) /\ UNCHANGED sum
           ELSE SaveVersion(r, [sum EXCEPT !.status = IF o.copy.status = "locked" THEN @ ELSE "locked",
                                           !.det = [c \in Criterion |-> Locked(o.copy.det[c])]],
                            "recRead")
    /\ UNCHANGED rec

RankRead(r) ==
    /\ At(r, "rankRead")
    /\ Put(r, [op[r] EXCEPT !.pc = "rankSave", !.copy = sum, !.back = "end"])
    /\ UNCHANGED <<rec, sum>>

Tier(total) == IF total = None THEN "unranked" ELSE IF total >= Pass THEN "high" ELSE "low"

RankSave(r) ==
    /\ At(r, "rankSave")
    /\ sum' = [sum EXCEPT !.rank = IF op[r].copy.rank = Tier(op[r].copy.total) THEN @
                                   ELSE Tier(op[r].copy.total)]
    /\ End(r)
    /\ UNCHANGED rec

(* cancelApproval; without details its save carries no version. *)
Cancel(r) ==
    /\ ~Open
    /\ Start(r, [Idle EXCEPT !.pc = "cancelSave", !.copy = sum])
    /\ UNCHANGED <<rec, sum>>

Unlocked(d) == IF d = None THEN None ELSE [d EXCEPT !.final = None, !.lck = FALSE]

CancelSave(r) ==
    /\ At(r, "cancelSave")
    /\ LET o == op[r]
           none == \A c \in Criterion : o.copy.det[c] = None
           s == [sum EXCEPT !.status = "draft", !.rank = IF o.copy.rank = None THEN @ ELSE None]
       IN  IF none THEN sum' = s /\ Go(r, "recRead")
           ELSE IF o.fresh
           THEN SaveVersion(r, [s EXCEPT !.det = [c \in Criterion |-> Unlocked(o.copy.det[c])]],
                            "recRead")
           ELSE End(r) /\ UNCHANGED sum
    /\ UNCHANGED rec

-----------------------------------------------------------------------------
Record(r) ==
    \/ \E role \in Role, c \in Criterion :
          \/ Intent(r, role, c, "increase") \/ Intent(r, role, c, "decrease")
          \/ Create(r, role, c)
    \/ \E k \in 1..N :
          Purge(r, k) \/ Remove(r, k) \/ Restore(r, k) \/ \E c \in Criterion : Update(r, k, c)
    \/ IntentDetail(r) \/ IntentCount(r) \/ IntentRecords(r) \/ Insert(r)
    \/ Delete(r) \/ CheckLocked(r) \/ RecordWrite(r)

Summary(r) ==
    \/ \E sent \in Sent, form \in Form \cup {sum} : Edit(r, sent, form)
    \/ \E role \in Role, c \in Criterion, v \in Mark : Review(r, role, c, v)
    \/ View(r) \/ EditWrite(r) \/ ReviewWrite(r) \/ Approve(r) \/ ApproveRead(r)
    \/ ApproveRecords(r) \/ ApproveSave(r) \/ RankRead(r) \/ RankSave(r)
    \/ Cancel(r) \/ CancelSave(r)

Sync(r) ==
    \/ SyncRecords(r) \/ SyncSummary(r) \/ SyncSave(r) \/ SyncConflict(r)
    \/ RecomputeRead(r) \/ RecomputeSave(r)

Next == \E r \in Req : Record(r) \/ Summary(r) \/ Sync(r)

Spec == Init /\ [][Next]_vars

-----------------------------------------------------------------------------
(* Properties *)

(* The shape of the documents and of the requests: counts within the        *)
(* records that exist, and a total between 0 and 100.                       *)
Pcs == Saving \cup
    {"idle", "syncRecords", "syncNew", "syncSummary", "recRead", "recSave", "intentDetail",
     "intentCount", "intentRecords", "insert", "delete", "trash", "restore", "update",
     "checkLocked", "edit", "review", "approveRead", "rankRead", "rankSave"}

Backs == {"end", "intentRecords", "approveRead", "rankRead", "syncNew"}
Kinds == {"none", "increase", "decrease", "create", "purge", "restore", "update",
          "edit"}
Attempts == 0..2
Number == 0..N      \* a record, or a number of them
Counts == [Criterion -> Number]

Request ==
    [pc : Pcs, kind : Kinds,
     role : {"student", "teacher", "admin"}, c : Criterion \cup {None}, k : Number,
     v : Mark \cup {None}, sent : SUBSET Field, crits : SUBSET Criterion,
     level : Nat \cup {None}, seen : Counts, copy : Document \cup {None},
     fresh : BOOLEAN, edited : BOOLEAN, tries : Attempts,
     back : Backs, alone : BOOLEAN]

TypeOK ==
    /\ rec \in [1..N -> [crit : Criterion, role : {"student", "teacher", "admin"},
                         st : {"none", "active", "trash", "gone"}]]
    /\ sum \in Document
    /\ op \in [Req -> Request]
    /\ starts \in Nat

(* A step of r's save of details that it read before. *)
Saves(r) == At(r, "syncSave") /\ op'[r].pc # "syncSave"
SavesDetails(r) == op[r].pc \in Saving \ {"approveRecords"} /\ op'[r].pc \notin Saving

(* Synchronisations, approvals and cancellations, each with a copy of its   *)
(* own of all details, keep the details that others added since they read   *)
(* it.  A detail gets lost only to an update that sends details (which      *)
(* looks at no version), or to a save whose copy such an update went past.  *)
DetailsPersist ==
    [][\A c \in Criterion : sum.det[c] # None /\ sum'.det[c] = None =>
         \E r \in Req : \/ At(r, "edit") /\ op'[r] = Idle /\ "det" \in op[r].sent
                        \/ SavesDetails(r) /\ op[r].edited]_vars

(* calculateSyncDetail skips what is locked: a synchronisation that read an *)
(* open summary never rewrites the details of one that was locked since.    *)
SyncKeepsLockedDetails ==
    [][\A r \in Req : Saves(r) /\ sum.status = "locked" => sum'.det = sum.det]_vars

(* Whatever races left behind, a view or an operation on records that runs  *)
(* alone leaves each criterion it synchronised with the count of its active *)
(* records, and the summary with the sum of its details.                    *)
LoneRequestHeals ==
    [][\A r \in Req :
         At(r, "recSave") /\ op'[r] = Idle /\ op[r].alone /\ sum.status # "locked" =>
           /\ \A c \in op[r].crits : sum'.det[c].count = Cardinality(Active(c))
           /\ sum'.total = Total(sum') /\ sum'.grade = "unranked"]_vars

(* The same of an approval: total, grade and rank are those of the details. *)
LoneApprovalAgrees ==
    [][\A r \in Req :
         At(r, "rankSave") /\ op'[r] = Idle /\ op[r].alone =>
           /\ sum'.total = Total(sum') /\ sum'.grade = sum'.rank
           /\ \A c \in Criterion : sum'.det[c] # None => sum'.det[c].lck]_vars

(* "Cannot edit a locked summary": only an approval and its cancellation    *)
(* change the status or the details of a locked summary.                    *)
LockedSummaryIsFinal ==
    [][sum.status = "locked" /\ (sum'.status # "locked" \/ sum'.det # sum.det) =>
         \E r \in Req : At(r, "approveSave") \/ At(r, "cancelSave")]_vars
=============================================================================
