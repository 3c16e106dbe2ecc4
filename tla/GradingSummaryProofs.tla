------------------------ MODULE GradingSummaryProofs ------------------------
(***************************************************************************)
(* Proofs about GradingSummary: its types, for any number of requests,     *)
(* records and criteria; that a synchronisation never rewrites a summary   *)
(* that was locked since it was read; that no detail is dropped but by an  *)
(* update of the details, or by a save that such an update went past; and  *)
(* that a request or an approval that runs alone leaves a summary that     *)
(* agrees with its records.  The first three rest on one fact: a copy that *)
(* is still up to date was read when the summary was no more locked, and   *)
(* (if no update went past it) had no fewer details, than now.  The others *)
(* rest on what a request that is alone knows at each of its steps (Lone). *)
(***************************************************************************)
EXTENDS GradingSummary, FiniteSetTheorems, TLAPS

(* What an update sends is a document, and does not lock the summary. *)
FormOK(form, sent) == form \in Document /\ ("status" \in sent => form.status # "locked")

(* What a request has to know to take its next step. *)
Good(o) ==
    /\ o.pc \in Saving => o.copy \in Document
    /\ o.pc = "recSave" => o.copy \in Document
    /\ o.pc \in {"intentDetail", "intentCount", "intentRecords", "insert", "syncNew", "review",
                 "update"} => o.c \in Criterion
    /\ o.pc = "delete" => o.kind = "purge" \/ o.c \in Criterion
    /\ o.pc = "checkLocked" => o.kind = "restore" \/ (o.kind = "update" /\ o.c \in Criterion)
                                \/ (o.kind = "edit" /\ FormOK(o.copy, o.sent))
    /\ o.back \in {"intentRecords", "syncNew"} => o.c \in Criterion
    /\ \/ o.pc \in {"delete", "trash", "restore", "update"}
       \/ o.pc = "checkLocked" /\ o.kind # "edit"
       => o.k \in 1..N
    /\ o.pc \in {"syncSummary", "syncSave"} => o.level \in Nat
    /\ o.pc = "edit" => FormOK(o.copy, o.sent)
    /\ o.pc = "review" => o.v \in Mark

(* What it has read is still true, or its save will be refused; an update   *)
(* of the details may have gone past it.                                    *)
Current(o, s) ==
    /\ o.pc = "review" /\ ~o.edited => s.det[o.c] # None
    /\ o.pc = "syncSave" /\ o.fresh => s.status # "locked"
    /\ o.pc \in Saving /\ o.fresh /\ ~o.edited =>
          \A c \in Criterion : s.det[c] # None => o.copy.det[c] # None

IInv == TypeOK /\ \A r \in Req : Good(op[r]) /\ Current(op[r], sum)

Roles == {"student", "teacher", "admin"}

(* When a step of request r may drop a detail. *)
Drops(r) == \/ At(r, "edit") /\ op'[r] = Idle /\ "det" \in op[r].sent
            \/ SavesDetails(r) /\ op[r].edited

(* What a step of request r does: it keeps the invariant and the details,   *)
(* and leaves the other requests where they are.                            *)
Step(r) ==
    /\ IInv'
    /\ \A c \in Criterion : sum.det[c] # None /\ sum'.det[c] = None => Drops(r)
    /\ \A q \in Req \ {r} : op'[q].pc = op[q].pc

-----------------------------------------------------------------------------
(* Scores and details *)

LEMMA ScoreType == ASSUME NEW c, NEW n \in 0..N PROVE Score(c, n) \in Nat
BY ConstantsAssumption DEF Score, Most, Least

LEMMA ResolvedType == ASSUME NEW d \in Detail PROVE Resolved(d) \in Nat
BY DEF Resolved, FirstOf, Detail

LEMMA LevelType == ASSUME NEW x PROVE Level(x) \in Nat /\ AuthorLevel(x) \in Nat
BY DEF Level, AuthorLevel

LEMMA SyncDetailType ==
    ASSUME NEW c, NEW old \in Detail \cup {None}, NEW n \in 0..N, NEW level \in Nat
    PROVE  SyncDetail(c, old, n, level) \in Detail
<1> DEFINE s == Score(c, n)
           b == IF old = None THEN NewDetail ELSE old
           d == [b EXCEPT !.count = n, !.sys = s]
<1>1. s \in Nat BY ScoreType
<1>2. NewDetail \in Detail BY ConstantsAssumption DEF NewDetail, Detail
<1>3. b \in Detail BY <1>2
<1>4. d \in Detail BY <1>1, <1>3 DEF Detail
<1>5. /\ [d EXCEPT !.sv = s, !.gv = s] \in Detail
      /\ [d EXCEPT !.sv = s] \in Detail
      /\ [d EXCEPT !.gv = s] \in Detail
      /\ [d EXCEPT !.final = s] \in Detail
  BY <1>1, <1>4 DEF Detail
<1>6. level = 0 \/ level = 1 \/ level = 2 \/ level > 2 OBVIOUS
<1> HIDE DEF s, b
<1>7. SyncDetail(c, old, n, level) =
        IF Kept(d) THEN d
        ELSE CASE level = 0 -> [d EXCEPT !.sv = s, !.gv = s]
               [] level = 1 -> [d EXCEPT !.sv = s]
               [] level = 2 -> [d EXCEPT !.gv = s]
               [] level > 2 -> [d EXCEPT !.final = s]
  BY DEF SyncDetail, s, b
<1> HIDE DEF d
<1> QED BY <1>4, <1>5, <1>6, <1>7

LEMMA LockedType ==
    ASSUME NEW d \in Detail \cup {None}
    PROVE  /\ Locked(d) \in Detail \cup {None} /\ Unlocked(d) \in Detail \cup {None}
           /\ d # None => Locked(d) # None /\ Unlocked(d) # None
<1>1. CASE d = None BY <1>1 DEF Locked, Unlocked
<1>2. CASE d # None
  <2>1. d \in Detail /\ Resolved(d) \in Nat BY <1>2, ResolvedType
  <2>2. Locked(d) \in Detail BY <1>2, <2>1 DEF Locked, Detail
  <2>3. Unlocked(d) \in Detail BY <1>2, <2>1 DEF Unlocked, Detail
  <2> QED BY <2>2, <2>3, ConstantsAssumption
<1> QED BY <1>1, <1>2

LEMMA TotalType == ASSUME NEW s PROVE Total(s) \in 0..100
<1> DEFINE t == MapThenSumSet(LAMBDA c : Counted(c, s.det[c], s.status = "locked"), Criterion)
<1>1. Total(s) = IF t \in 0..100 THEN t ELSE IF t > 100 THEN 100 ELSE 0
  BY Zenon DEF Total, TotalOf
<1> HIDE DEF t
<1> QED BY <1>1

LEMMA GradeType == ASSUME NEW s PROVE Grade(s) \in {"unranked", "high", "low"}
BY DEF Grade

LEMMA CountType == ASSUME NEW S, S \subseteq 1..N PROVE Cardinality(S) \in 0..N
<1>1. IsFiniteSet(1..N) /\ Cardinality(1..N) = N
  BY FS_Interval, ConstantsAssumption
<1>2. IsFiniteSet(S) /\ Cardinality(S) <= N
  BY <1>1, FS_Subset
<1> QED BY <1>2, FS_CardinalityType, ConstantsAssumption

LEMMA ActiveType == ASSUME NEW c PROVE Active(c) \subseteq 1..N
BY DEF Active

-----------------------------------------------------------------------------
(* The kinds of steps *)

(* A request moves on; the summary may change, but it is not locked and     *)
(* none of its details appears or disappears.                               *)
LEMMA PutStep ==
    ASSUME IInv, NEW r \in Req, NEW o \in Request, Put(r, o), Good(o), Current(o, sum'),
           sum' \in Document, sum'.status = "locked" => sum.status = "locked",
           \A c \in Criterion : sum'.det[c] = None <=> sum.det[c] = None,
           rec' \in [1..N -> [crit : Criterion, role : Roles,
                              st : {"none", "active", "trash", "gone"}]]
    PROVE  Step(r)
<1>1. TypeOK' BY DEF IInv, TypeOK, Put, Roles
<1>2. op'[r] = o /\ \A q \in Req \ {r} : op'[q] = op[q]
  BY DEF IInv, TypeOK, Put
<1>3. ASSUME NEW q \in Req PROVE Good(op'[q]) /\ Current(op'[q], sum')
  <2>1. CASE q = r BY <1>2, <2>1
  <2>2. CASE q # r
    <3>1. op'[q] = op[q] /\ Good(op[q]) /\ Current(op[q], sum) BY <1>2, <2>2 DEF IInv
    <3>2. op[q].pc = "review" => op[q].c \in Criterion BY <3>1 DEF Good
    <3>3. Current(op[q], sum') BY <3>1, <3>2 DEF Current
    <3> QED BY <3>1, <3>3
  <2> QED BY <2>1, <2>2
<1>4. \A q \in Req \ {r} : op'[q].pc = op[q].pc BY <1>2
<1> QED BY <1>1, <1>3, <1>4 DEF IInv, Step

(* A request moves on and the summary stays as it is. *)
LEMMA LocalStep ==
    ASSUME IInv, NEW r \in Req, NEW o \in Request, Put(r, o), Good(o), Current(o, sum),
           UNCHANGED sum,
           rec' \in [1..N -> [crit : Criterion, role : Roles,
                              st : {"none", "active", "trash", "gone"}]]
    PROVE  Step(r)
<1>1. sum' \in Document BY DEF IInv, TypeOK
<1> QED BY <1>1, PutStep

LEMMA IdleGood == Idle \in Request /\ Good(Idle) /\ \A s : Current(Idle, s)
<1>1. 0 \in Number /\ 0 \in Attempts BY ConstantsAssumption DEF Number, Attempts
<1>2. Idle \in Request BY <1>1 DEF Idle, Request, Pcs, Kinds, Counts, Backs
<1> QED BY <1>2 DEF Idle, Good, Current, Saving

(* A request starts. *)
LEMMA StartStep ==
    ASSUME IInv, NEW r \in Req, NEW o \in Request, Start(r, o), Good(o), Current(o, sum),
           UNCHANGED <<rec, sum>>
    PROVE  Step(r)
<1> DEFINE p == \A q \in Req \ {r} : At(q, "idle")
<1>0. p \in BOOLEAN OBVIOUS
<1> HIDE DEF p
<1>1. ASSUME NEW q \in Req, NEW x \in Request, NEW b \in BOOLEAN, Good(x), Current(x, sum)
      PROVE  /\ [x EXCEPT !.alone = b] \in Request
             /\ Good([x EXCEPT !.alone = b]) /\ Current([x EXCEPT !.alone = b], sum)
  <2>1. [x EXCEPT !.alone = b] \in Request BY DEF Request
  <2>2. Good([x EXCEPT !.alone = b]) BY <1>1 DEF Request, Good
  <2>3. Current([x EXCEPT !.alone = b], sum) BY <1>1 DEF Request, Current
  <2> QED BY <2>1, <2>2, <2>3
<1>2. op' = [q \in Req |-> IF q = r THEN [o EXCEPT !.alone = p]
                           ELSE [op[q] EXCEPT !.alone = FALSE]]
  BY DEF Start, p
<1>3. ASSUME NEW q \in Req
      PROVE  op'[q] \in Request /\ Good(op'[q]) /\ Current(op'[q], sum)
  <2>1. CASE q = r BY <1>0, <1>1, <1>2, <2>1
  <2>2. CASE q # r
    <3>1. op[q] \in Request /\ Good(op[q]) /\ Current(op[q], sum) BY DEF IInv, TypeOK
    <3>2. op'[q] = [op[q] EXCEPT !.alone = FALSE] BY <1>2, <2>2
    <3> QED BY <1>1, <3>1, <3>2
  <2> QED BY <2>1, <2>2
<1>4. op' \in [Req -> Request] BY <1>2, <1>3
<1>5. starts' \in Nat BY DEF Start, IInv, TypeOK
<1>6. TypeOK' BY <1>4, <1>5 DEF IInv, TypeOK
<1>7. \A q \in Req \ {r} : op'[q].pc = op[q].pc BY <1>2 DEF IInv, TypeOK, Request
<1> QED BY <1>3, <1>6, <1>7 DEF IInv, Step

(* What is left of a request whose save was accepted. *)
Saved(o) == [o EXCEPT !.pc = "recRead", !.copy = None, !.fresh = TRUE, !.edited = FALSE,
                      !.seen = Idle.seen, !.level = 0]

LEMMA SavedGood ==
    ASSUME NEW x \in Request, Good(x)
    PROVE  /\ Saved(x) \in Request /\ Good(Saved(x)) /\ \A s : Current(Saved(x), s)
           /\ Saved(x).pc = "recRead" /\ Saved(x).alone = x.alone
           /\ Saved(x).back = x.back /\ Saved(x).crits = x.crits
<1>1. Idle.seen \in Counts BY ConstantsAssumption DEF Idle, Counts, Number
<1> DEFINE o == [x EXCEPT !.pc = "recRead", !.copy = None, !.fresh = TRUE, !.edited = FALSE,
                          !.seen = Idle.seen, !.level = 0]
<1>2. o \in Request BY <1>1 DEF Request, Pcs
<1>3. /\ o.pc = "recRead" /\ o.alone = x.alone /\ o.back = x.back /\ o.crits = x.crits
      /\ o.c = x.c
  BY DEF Request
<1>4. Saved(x) = o BY DEF Saved
<1> HIDE DEF o
<1>5. Good(o) BY <1>3 DEF Good, Saving
<1>6. \A s : Current(o, s) BY <1>3 DEF Current, Saving
<1> QED BY <1>2, <1>3, <1>4, <1>5, <1>6

(* A save under a version that is still the current one. *)
LEMMA VersionStep ==
    ASSUME IInv, NEW r \in Req, NEW s \in Document,
           SaveVersion(r, s, "recRead"), UNCHANGED rec,
           op[r].pc \in Saving \ {"approveRecords"},
           \A c \in Criterion : sum.det[c] # None /\ s.det[c] = None => op[r].edited
    PROVE  Step(r)
<1> DEFINE o == Saved(op[r])
           f(q) == op[q].pc \notin Saving
           e(q) == op[q].edited \/ (op[r].edited /\ op[q].pc = "review")
           x(q) == [op[q] EXCEPT !.fresh = f(q), !.edited = e(q)]
<1>1. \A q \in Req : op[q] \in Request /\ Good(op[q]) /\ Current(op[q], sum)
  BY DEF IInv, TypeOK
<1>2. o \in Request /\ Good(o) /\ Current(o, s) /\ o.pc = "recRead" BY <1>1, SavedGood
<1>3. op' = [q \in Req |-> IF q = r THEN o ELSE x(q)] BY DEF SaveVersion, Saved
<1>4. \A q \in Req : f(q) \in BOOLEAN /\ e(q) \in BOOLEAN BY <1>1 DEF Request
<1> HIDE DEF o
<1>5. ASSUME NEW q \in Req
      PROVE  x(q) \in Request /\ Good(x(q)) /\ Current(x(q), s) /\ x(q).pc = op[q].pc
  <2>1. op[q] \in Request /\ Good(op[q]) /\ Current(op[q], sum) BY <1>1
  <2>2. ~e(q) => ~op[q].edited /\ (op[q].pc = "review" => ~op[r].edited) BY <1>1 DEF Request
  <2>3. f(q) => op[q].pc \notin Saving OBVIOUS
  <2> DEFINE y == x(q)
  <2>4. f(q) \in BOOLEAN /\ e(q) \in BOOLEAN BY <1>4
  <2> HIDE DEF f, e
  <2>5. /\ y \in Request /\ y.pc = op[q].pc /\ y.fresh = f(q) /\ y.edited = e(q)
        /\ y.copy = op[q].copy /\ y.c = op[q].c /\ y.kind = op[q].kind /\ y.back = op[q].back
        /\ y.k = op[q].k /\ y.level = op[q].level /\ y.v = op[q].v /\ y.sent = op[q].sent
    BY <2>1, <2>4 DEF Request
  <2> HIDE DEF y
  <2>6. Good(y) BY <2>1, <2>5 DEF Good
  <2>7. y.pc = "review" => y.c \in Criterion BY <2>6 DEF Good
  <2>8. y.pc = "review" /\ ~y.edited => s.det[y.c] # None
    BY <2>1, <2>2, <2>5, <2>7 DEF Current
  <2>9. y.pc \in Saving => ~y.fresh BY <2>3, <2>5
  <2>10. Current(y, s) BY <2>8, <2>9 DEF Current, Saving
  <2> QED BY <2>5, <2>6, <2>10 DEF y
<1> HIDE DEF x
<1>6. \A q \in Req : op'[q] \in Request /\ Good(op'[q]) /\ Current(op'[q], s)
  BY <1>2, <1>3, <1>5
<1>7. op' \in [Req -> Request] BY <1>3, <1>6
<1>8. sum' = s /\ starts' = starts BY DEF SaveVersion
<1>9. TypeOK' BY <1>7, <1>8 DEF IInv, TypeOK
<1>10. \A q \in Req \ {r} : op'[q].pc = op[q].pc BY <1>3, <1>5
<1>11. SavesDetails(r) BY <1>2, <1>3 DEF SavesDetails, Saving
<1> QED BY <1>6, <1>8, <1>9, <1>10, <1>11 DEF IInv, Step, Drops

(* The end of a part of a request. *)
LEMMA ResumePut ==
    ASSUME IInv, NEW r \in Req, Resume(r)
    PROVE  \E o \in Request : Put(r, o) /\ Good(o) /\ \A s : Current(o, s)
<1> DEFINE o == [op[r] EXCEPT !.pc = op[r].back, !.seen = Idle.seen, !.copy = None,
                              !.fresh = TRUE, !.tries = 0]
<1>1. CASE op[r].back = "end" BY <1>1, IdleGood DEF Resume, End
<1>2. CASE op[r].back # "end"
  <2>1. op[r] \in Request /\ Good(op[r]) BY DEF IInv, TypeOK
  <2>2. op[r].back \in {"intentRecords", "approveRead", "rankRead", "syncNew"}
    BY <1>2, <2>1 DEF Request, Backs
  <2>3. Idle.seen \in Counts /\ 0 \in Attempts BY ConstantsAssumption DEF Idle, Counts, Number, Attempts
  <2>4. o \in Request
    <3>1. op[r].back \in Pcs BY <2>2 DEF Pcs
    <3> QED BY <2>1, <2>3, <3>1 DEF Request
  <2>5. Good(o) BY <2>1, <2>2 DEF Request, Good, Saving
  <2>6. \A s : Current(o, s) BY <2>1, <2>2 DEF Request, Current, Saving
  <2>7. Put(r, o) BY <1>2 DEF Resume
  <2> QED BY <2>4, <2>5, <2>6, <2>7
<1> QED BY <1>1, <1>2

LEMMA ToSyncGood ==
    ASSUME NEW x \in Request, NEW crits \in SUBSET Criterion, NEW level \in Nat \cup {None},
           NEW back \in {"end", "intentRecords", "approveRead", "syncNew"},
           back \in {"intentRecords", "syncNew"} => x.c \in Criterion
    PROVE  /\ ToSync(x, crits, level, back) \in Request
           /\ Good(ToSync(x, crits, level, back))
           /\ \A s : Current(ToSync(x, crits, level, back), s)
<1> DEFINE o == [x EXCEPT !.pc = "syncRecords", !.crits = crits, !.level = level, !.back = back]
<1>0. "syncRecords" \in Pcs /\ back \in Backs BY DEF Pcs, Backs
<1>1. o \in Request BY <1>0 DEF Request
<1>2. Good(o) BY DEF Request, Good, Saving
<1>3. \A s : Current(o, s) BY DEF Request, Current, Saving
<1> QED BY <1>1, <1>2, <1>3 DEF ToSync

LEMMA ReadGood ==
    ASSUME IInv, NEW r \in Req, NEW pc \in {"syncSave", "recSave", "approveRecords"}, Read(r, pc),
           pc = "syncSave" => sum.status # "locked" /\ op[r].level \in Nat,
           UNCHANGED <<rec, sum>>
    PROVE  Step(r)
<1> DEFINE o == [op[r] EXCEPT !.pc = pc, !.copy = sum, !.fresh = TRUE, !.edited = FALSE]
<1>1. op[r] \in Request /\ sum \in Document /\ Good(op[r]) BY DEF IInv, TypeOK
<1>2. o \in Request BY <1>1 DEF Request, Pcs, Saving
<1>3. Good(o) BY <1>1 DEF Request, Good, Saving
<1>4. Current(o, sum) BY <1>1 DEF Request, Current, Saving
<1>5. Put(r, o) BY DEF Read
<1> HIDE DEF o
<1>6. rec' \in [1..N -> [crit : Criterion, role : Roles, st : {"none", "active", "trash", "gone"}]]
  BY DEF IInv, TypeOK, Roles
<1> QED BY <1>2, <1>3, <1>4, <1>5, <1>6, LocalStep

LEMMA SameRecords ==
    ASSUME IInv, UNCHANGED rec
    PROVE  rec' \in [1..N -> [crit : Criterion, role : Roles,
                             st : {"none", "active", "trash", "gone"}]]
BY DEF IInv, TypeOK, Roles

-----------------------------------------------------------------------------
(* Every step of a synchronisation *)

LEMMA SyncRecordsStep == ASSUME IInv, NEW r \in Req, SyncRecords(r) PROVE Step(r)
<1> DEFINE new == At(r, "syncNew")
           crits == IF new THEN {op[r].c} ELSE op[r].crits
           found == UNION {Active(c) : c \in crits}
           level == IF ~new /\ op[r].level # None THEN op[r].level
                    ELSE IF found = {} THEN 0 ELSE AuthorLevel(rec[Max(found)].role)
           back == IF new THEN "end" ELSE op[r].back
           seen == [c \in Criterion |-> Cardinality(Active(c) \cap found)]
           o == [op[r] EXCEPT !.pc = "syncSummary", !.crits = crits, !.level = level,
                              !.back = back, !.seen = seen]
<1>1. op[r] \in Request /\ Good(op[r]) BY DEF IInv, TypeOK
<1>2. Put(r, o) /\ UNCHANGED <<rec, sum>> /\ op[r].pc \in {"syncRecords", "syncNew"}
  BY DEF SyncRecords, Put
<1>3. crits \in SUBSET Criterion BY <1>1, <1>2 DEF Request, Good, At
<1>4. level \in Nat
  <2>1. AuthorLevel(rec[Max(found)].role) \in Nat BY LevelType
  <2> HIDE DEF found, new
  <2> QED BY <1>1, <2>1 DEF Request
<1>5. back \in {"intentRecords", "syncNew"} => op[r].c \in Criterion
  BY <1>1 DEF Request, Good
<1>11. back \in Backs BY <1>1 DEF Request, Backs
<1>6. seen \in Counts
  <2>1. ASSUME NEW c \in Criterion PROVE Cardinality(Active(c) \cap found) \in 0..N
    <3>1. Active(c) \cap found \subseteq 1..N BY ActiveType
    <3> HIDE DEF found
    <3> QED BY <3>1, CountType
  <2> HIDE DEF found
  <2> QED BY <2>1 DEF Counts, Number
<1> HIDE DEF crits, level, back, seen
<1>10. "syncSummary" \in Pcs /\ level \in Nat \cup {None} BY <1>4 DEF Pcs
<1>7. o \in Request BY <1>1, <1>3, <1>6, <1>10, <1>11 DEF Request
<1>8. Good(o) BY <1>1, <1>4, <1>5 DEF Request, Good, Saving
<1>9. Current(o, sum) BY <1>1 DEF Request, Current, Saving
<1> HIDE DEF o
<1> QED BY <1>2, <1>7, <1>8, <1>9, LocalStep, SameRecords

LEMMA SyncSummaryStep == ASSUME IInv, NEW r \in Req, SyncSummary(r) PROVE Step(r)
<1>1. op[r] \in Request /\ Good(op[r]) /\ op[r].pc = "syncSummary" /\ UNCHANGED <<rec, sum>>
  BY DEF IInv, TypeOK, SyncSummary, At
<1>2. CASE Open
  <2>1. Read(r, "syncSave") BY <1>2 DEF SyncSummary
  <2>2. op[r].level \in Nat /\ sum.status # "locked" BY <1>1, <1>2 DEF Good, Open
  <2> QED BY <1>1, <2>1, <2>2, ReadGood
<1>3. CASE ~Open
  <2>1. PICK o \in Request : Put(r, o) /\ Good(o) /\ \A s : Current(o, s)
    BY <1>3, ResumePut DEF SyncSummary
  <2> QED BY <1>1, <2>1, LocalStep, SameRecords
<1> QED BY <1>2, <1>3

LEMMA SyncedType ==
    ASSUME NEW o \in Request, o.copy \in Document, o.level \in Nat
    PROVE  /\ Synced(o) \in [Criterion -> Detail \cup {None}]
           /\ \A c \in Criterion : o.copy.det[c] # None => Synced(o)[c] # None
<1>1. ASSUME NEW c \in Criterion
      PROVE  SyncDetail(c, o.copy.det[c], o.seen[c], o.level) \in Detail
  <2>1. o.copy.det[c] \in Detail \cup {None} /\ o.seen[c] \in 0..N
    BY DEF Document, Request, Counts, Number
  <2> QED BY <2>1, SyncDetailType
<1>2. \A c \in Criterion : o.copy.det[c] \in Detail \cup {None} BY DEF Document
<1>3. \A c \in Criterion : Synced(o)[c] = IF c \in o.crits
                                  THEN SyncDetail(c, o.copy.det[c], o.seen[c], o.level)
                                  ELSE o.copy.det[c]
  BY DEF Synced
<1>4. Synced(o) = [c \in Criterion |-> Synced(o)[c]] BY DEF Synced
<1> QED BY <1>1, <1>2, <1>3, <1>4, ConstantsAssumption

LEMMA SyncSaveStep == ASSUME IInv, NEW r \in Req, SyncSave(r) PROVE Step(r)
<1> DEFINE s == [sum EXCEPT !.det = Synced(op[r])]
<1>1. /\ op[r] \in Request /\ Good(op[r]) /\ Current(op[r], sum) /\ sum \in Document
      /\ op[r].pc = "syncSave" /\ op[r].fresh /\ UNCHANGED rec /\ SaveVersion(r, s, "recRead")
  BY DEF IInv, TypeOK, SyncSave, At
<1>2. op[r].copy \in Document /\ op[r].level \in Nat BY <1>1 DEF Good, Saving
<1>3. /\ Synced(op[r]) \in [Criterion -> Detail \cup {None}]
      /\ \A c \in Criterion : sum.det[c] # None /\ Synced(op[r])[c] = None => op[r].edited
  BY <1>1, <1>2, SyncedType DEF Current, Saving
<1>4. s \in Document /\ s.det = Synced(op[r]) BY <1>1, <1>3 DEF Document
<1> HIDE DEF s
<1> QED BY <1>1, <1>3, <1>4, VersionStep DEF Saving

LEMMA SyncConflictStep == ASSUME IInv, NEW r \in Req, SyncConflict(r) PROVE Step(r)
<1> DEFINE o == [op[r] EXCEPT !.pc = "syncSummary", !.tries = @ + 1, !.copy = None,
                              !.fresh = TRUE]
<1>1. op[r] \in Request /\ Good(op[r]) /\ op[r].pc = "syncSave" /\ UNCHANGED <<rec, sum>>
  BY DEF IInv, TypeOK, SyncConflict, At
<1>2. CASE op[r].tries < 2
  <2> DEFINE t == op[r].tries + 1
             x == [op[r] EXCEPT !.pc = "syncSummary", !.tries = t, !.copy = None, !.fresh = TRUE]
  <2>1. t \in Attempts BY <1>1, <1>2 DEF Request, Attempts
  <2>2. Put(r, x) BY <1>2 DEF SyncConflict
  <2> HIDE DEF t
  <2>3. x \in Request BY <1>1, <2>1 DEF Request, Pcs
  <2>4. Good(x) BY <1>1 DEF Request, Good, Saving
  <2>5. Current(x, sum) BY <1>1 DEF Request, Current, Saving
  <2> HIDE DEF x
  <2> QED BY <1>1, <2>2, <2>3, <2>4, <2>5, LocalStep, SameRecords
<1>3. CASE ~(op[r].tries < 2)
  <2>1. PICK x \in Request : Put(r, x) /\ Good(x) /\ \A s : Current(x, s)
    BY <1>3, ResumePut DEF SyncConflict
  <2> QED BY <1>1, <2>1, LocalStep, SameRecords
<1> QED BY <1>2, <1>3

LEMMA RecomputeStep ==
    ASSUME IInv, NEW r \in Req, RecomputeRead(r) \/ RecomputeSave(r) PROVE Step(r)
<1>1. CASE RecomputeRead(r) BY <1>1, ReadGood DEF RecomputeRead
<1>2. CASE RecomputeSave(r)
  <2> DEFINE t == IF Total(op[r].copy) = op[r].copy.total THEN sum.total ELSE Total(op[r].copy)
             g == IF Grade(op[r].copy) = op[r].copy.grade THEN sum.grade ELSE Grade(op[r].copy)
  <2>1. sum \in Document /\ sum' = [sum EXCEPT !.total = t, !.grade = g] /\ UNCHANGED rec
    BY <1>2 DEF IInv, TypeOK, RecomputeSave
  <2>2. t \in (0..100) \cup {None} BY <2>1, TotalType DEF Document
  <2>3. g \in {None, "unranked", "high", "low"} BY <2>1, GradeType DEF Document
  <2> HIDE DEF t, g
  <2>4. sum' \in Document /\ sum'.status = sum.status /\ sum'.det = sum.det
    BY <2>1, <2>2, <2>3 DEF Document
  <2>5. PICK o \in Request : Put(r, o) /\ Good(o) /\ \A s : Current(o, s)
    BY <1>2, ResumePut DEF RecomputeSave
  <2> QED BY <2>1, <2>4, <2>5, PutStep, SameRecords
<1> QED BY <1>1, <1>2

-----------------------------------------------------------------------------
(* Every step of an operation on records *)

LEMMA IntentStep ==
    ASSUME IInv, NEW r \in Req, NEW role \in Role, NEW c \in Criterion,
           NEW kind \in {"increase", "decrease"}, Intent(r, role, c, kind)
    PROVE  Step(r)
<1> DEFINE o == [Idle EXCEPT !.pc = "intentDetail", !.kind = kind, !.role = role, !.c = c]
<1>1. "intentDetail" \in Pcs /\ kind \in Kinds /\ role \in Roles
  BY ConstantsAssumption DEF Pcs, Kinds, Roles
<1>2. o \in Request BY <1>1, IdleGood DEF Request, Roles
<1>3. Good(o) /\ Current(o, sum) BY DEF Idle, Good, Current, Saving
<1>4. Start(r, o) /\ UNCHANGED <<rec, sum>> BY DEF Intent
<1> HIDE DEF o
<1> QED BY <1>2, <1>3, <1>4, StartStep

LEMMA CreateStep ==
    ASSUME IInv, NEW r \in Req, NEW role \in Role, NEW c \in Criterion, Create(r, role, c)
    PROVE  Step(r)
<1> DEFINE o == [Idle EXCEPT !.pc = "insert", !.kind = "create", !.role = role, !.c = c]
<1>1. "insert" \in Pcs /\ "create" \in Kinds /\ role \in Roles
  BY ConstantsAssumption DEF Pcs, Kinds, Roles
<1>2. o \in Request BY <1>1, IdleGood DEF Request, Roles
<1>3. Good(o) /\ Current(o, sum) BY DEF Idle, Good, Current, Saving
<1>4. Start(r, o) /\ UNCHANGED <<rec, sum>> BY DEF Create
<1> HIDE DEF o
<1> QED BY <1>2, <1>3, <1>4, StartStep

(* Purge, Remove, Restore and Update start with a record. *)
LEMMA PickStep ==
    ASSUME IInv, NEW r \in Req, NEW k \in 1..N,
           \/ Purge(r, k) \/ Remove(r, k) \/ Restore(r, k)
           \/ \E c \in Criterion : Update(r, k, c)
    PROVE  Step(r)
<1>1. k \in Number /\ Idle \in Request BY IdleGood, ConstantsAssumption DEF Number
<1>2. ASSUME NEW x \in Request, x.pc \in {"delete", "trash", "checkLocked"}, x.k = k,
             x.pc = "checkLocked" => x.kind = "restore" \/ (x.kind = "update" /\ x.c \in Criterion),
             x.pc = "delete" => x.kind = "purge",
             x.back = "end", Start(r, x), UNCHANGED <<rec, sum>>
      PROVE  Step(r)
  <2>1. Good(x) /\ Current(x, sum) BY <1>2 DEF Good, Current, Saving
  <2> QED BY <1>2, <2>1, StartStep
<1>3. /\ {"delete", "trash", "checkLocked"} \subseteq Pcs
      /\ {"none", "purge", "restore", "update"} \subseteq Kinds
  BY DEF Pcs, Kinds
<1>8. rec[k].crit \in Criterion BY DEF IInv, TypeOK
<1>4. CASE Purge(r, k)
  <2> DEFINE x == [Idle EXCEPT !.pc = "delete", !.kind = "purge", !.k = k]
  <2>1. x \in Request BY <1>1, <1>3 DEF Request
  <2>2. x.pc = "delete" /\ x.kind = "purge" /\ x.k = k /\ x.back = "end" BY DEF Idle
  <2>3. Start(r, x) /\ UNCHANGED <<rec, sum>> BY <1>4 DEF Purge
  <2> HIDE DEF x
  <2> QED BY <1>2, <2>1, <2>2, <2>3
<1>5. CASE Remove(r, k)
  <2> DEFINE x == [Idle EXCEPT !.pc = "trash", !.k = k]
  <2>1. x \in Request BY <1>1, <1>3 DEF Request
  <2>2. x.pc = "trash" /\ x.k = k /\ x.back = "end" BY DEF Idle
  <2>3. Start(r, x) /\ UNCHANGED <<rec, sum>> BY <1>5 DEF Remove
  <2> HIDE DEF x
  <2> QED BY <1>2, <2>1, <2>2, <2>3
<1>6. CASE Restore(r, k)
  <2> DEFINE x == [Idle EXCEPT !.pc = "checkLocked", !.kind = "restore", !.k = k,
                               !.crits = {rec[k].crit}]
  <2>1. x \in Request BY <1>1, <1>3, <1>8 DEF Request
  <2>2. x.pc = "checkLocked" /\ x.kind = "restore" /\ x.k = k /\ x.back = "end" BY DEF Idle
  <2>3. Start(r, x) /\ UNCHANGED <<rec, sum>> BY <1>6 DEF Restore
  <2> HIDE DEF x
  <2> QED BY <1>2, <2>1, <2>2, <2>3
<1>7. ASSUME NEW c \in Criterion, Update(r, k, c) PROVE Step(r)
  <2> DEFINE x == [Idle EXCEPT !.pc = "checkLocked", !.kind = "update", !.k = k, !.c = c,
                               !.crits = {rec[k].crit}]
  <2>1. x \in Request BY <1>1, <1>3, <1>8 DEF Request
  <2>2. x.pc = "checkLocked" /\ x.kind = "update" /\ x.c = c /\ x.k = k /\ x.back = "end" BY DEF Idle
  <2>3. Start(r, x) /\ UNCHANGED <<rec, sum>> BY <1>7 DEF Update
  <2> HIDE DEF x
  <2> QED BY <1>2, <2>1, <2>2, <2>3
<1> QED BY <1>4, <1>5, <1>6, <1>7

LEMMA IntentReadStep ==
    ASSUME IInv, NEW r \in Req, IntentDetail(r) \/ IntentCount(r) PROVE Step(r)
<1>1. op[r] \in Request /\ Good(op[r]) /\ sum \in Document BY DEF IInv, TypeOK
<1>2. CASE IntentDetail(r)
  <2> DEFINE d == sum.det[op[r].c]
             n == IF d = None THEN 0 ELSE d.count
             o == [op[r] EXCEPT !.pc = "intentCount", !.k = n]
  <2>1. op[r].c \in Criterion /\ Put(r, o) /\ UNCHANGED <<rec, sum>>
    BY <1>1, <1>2 DEF IntentDetail, At, Good
  <2>2. n \in Number
    <3>1. d \in Detail \cup {None} BY <1>1, <2>1 DEF Document
    <3> HIDE DEF d
    <3> QED BY <3>1, ConstantsAssumption DEF Detail, Number
  <2> HIDE DEF n
  <2>3. "intentCount" \in Pcs BY DEF Pcs
  <2>4. o \in Request BY <1>1, <2>2, <2>3 DEF Request
  <2>5. Good(o) /\ Current(o, sum) BY <1>1, <2>1 DEF Request, Good, Current, Saving
  <2> HIDE DEF o
  <2> QED BY <2>1, <2>4, <2>5, LocalStep, SameRecords
<1>3. CASE IntentCount(r)
  <2> DEFINE o == [op[r] EXCEPT !.k = 0, !.pc = "intentRecords"]
             x == ToSync(o, {o.c}, Level(o.role), "intentRecords")
  <2>1. op[r].c \in Criterion /\ UNCHANGED <<rec, sum>> /\ (Put(r, o) \/ Put(r, x))
    BY <1>1, <1>3 DEF IntentCount, At, Good
  <2>2. "intentRecords" \in Pcs /\ 0 \in Number BY ConstantsAssumption DEF Pcs, Number
  <2>3. o \in Request /\ o.c \in Criterion BY <1>1, <2>1, <2>2 DEF Request
  <2>4. Good(o) /\ Current(o, sum) BY <1>1, <2>1 DEF Request, Good, Current, Saving
  <2> HIDE DEF o
  <2>5. x \in Request /\ Good(x) /\ Current(x, sum)
    <3>1. Level(o.role) \in Nat BY LevelType
    <3> QED BY <2>3, <3>1, ToSyncGood
  <2> HIDE DEF x
  <2> QED BY <2>1, <2>3, <2>4, <2>5, LocalStep, SameRecords
<1> QED BY <1>2, <1>3

LEMMA IntentRecordsStep == ASSUME IInv, NEW r \in Req, IntentRecords(r) PROVE Step(r)
<1>1. /\ op[r] \in Request /\ Good(op[r]) /\ op[r].c \in Criterion
      /\ UNCHANGED <<rec, sum>>
  BY DEF IInv, TypeOK, IntentRecords, At, Good
<1>2. CASE Go(r, "insert")
  <2> DEFINE o == [op[r] EXCEPT !.pc = "insert"]
  <2>1. o \in Request BY <1>1 DEF Request, Pcs
  <2>2. Good(o) /\ Current(o, sum) BY <1>1 DEF Request, Good, Current, Saving
  <2>3. Put(r, o) BY <1>2 DEF Go
  <2> HIDE DEF o
  <2> QED BY <1>1, <2>1, <2>2, <2>3, LocalStep, SameRecords
<1>3. CASE End(r) BY <1>1, <1>3, IdleGood, LocalStep, SameRecords DEF End
<1>4. CASE Put(r, ToSync(op[r], {op[r].c}, Level(op[r].role), "end"))
  <2>1. Level(op[r].role) \in Nat BY LevelType
  <2> QED BY <1>1, <1>4, <2>1, ToSyncGood, LocalStep, SameRecords
<1>5. ASSUME NEW k \in Deletable(op[r].c, op[r].role),
             Put(r, [op[r] EXCEPT !.pc = "delete", !.k = k])
      PROVE  Step(r)
  <2> DEFINE o == [op[r] EXCEPT !.pc = "delete", !.k = k]
  <2>1. k \in 1..N /\ k \in Number
    BY ConstantsAssumption DEF Deletable, Active, Number
  <2>2. "delete" \in Pcs BY DEF Pcs
  <2>3. o \in Request BY <1>1, <2>1, <2>2 DEF Request
  <2>4. Good(o) /\ Current(o, sum) BY <1>1, <2>1 DEF Request, Good, Current, Saving
  <2>5. Put(r, o) BY <1>5
  <2> HIDE DEF o
  <2> QED BY <1>1, <2>3, <2>4, <2>5, LocalStep, SameRecords
<1> QED BY <1>2, <1>3, <1>4, <1>5 DEF IntentRecords

LEMMA InsertStep == ASSUME IInv, NEW r \in Req, Insert(r) PROVE Step(r)
<1> DEFINE o == [op[r] EXCEPT !.kind = "none"]
           level == IF op[r].kind = "create" THEN None ELSE Level(op[r].role)
           x == ToSync(o, {op[r].c}, level, "end")
           new == [crit |-> op[r].c, role |-> op[r].role, st |-> "active"]
<1>1. /\ op[r] \in Request /\ Good(op[r]) /\ op[r].c \in Criterion
      /\ UNCHANGED sum /\ Put(r, x) /\ rec' = [rec EXCEPT ![Min(Unused)] = new]
  BY DEF IInv, TypeOK, Insert, At, Good
<1>2. o \in Request BY <1>1 DEF Request, Kinds
<1>3. level \in Nat \cup {None} BY LevelType
<1>4. rec' \in [1..N -> [crit : Criterion, role : Roles,
                         st : {"none", "active", "trash", "gone"}]]
  <2>1. new \in [crit : Criterion, role : Roles, st : {"none", "active", "trash", "gone"}]
    BY <1>1 DEF Request, Roles
  <2> HIDE DEF new
  <2> QED BY <1>1, <2>1 DEF IInv, TypeOK, Roles
<1> HIDE DEF o, level
<1>5. x \in Request /\ Good(x) /\ Current(x, sum) BY <1>1, <1>2, <1>3, ToSyncGood
<1> HIDE DEF x
<1> QED BY <1>1, <1>4, <1>5, LocalStep

LEMMA DeleteStep == ASSUME IInv, NEW r \in Req, Delete(r) PROVE Step(r)
<1> DEFINE k == op[r].k
           o == [op[r] EXCEPT !.k = 0, !.kind = "none"]
           level == IF op[r].kind = "purge" THEN None ELSE Level(op[r].role)
           crits == IF op[r].kind = "purge" THEN {rec[k].crit} ELSE {op[r].c}
           x == ToSync(o, crits, level, "end")
<1>1. /\ op[r] \in Request /\ Good(op[r]) /\ k \in 1..N /\ UNCHANGED sum
      /\ rec' = [rec EXCEPT ![k].st = "gone"] /\ op[r].pc = "delete"
  BY DEF IInv, TypeOK, Delete, At, Good
<1>2. 0 \in Number /\ "none" \in Kinds BY ConstantsAssumption DEF Number, Kinds
<1>3. o \in Request /\ o.c = op[r].c /\ o.role = op[r].role BY <1>1, <1>2 DEF Request
<1>8. End(r) \/ Put(r, x)
  <2>1. CASE op[r].kind = "purge" BY <2>1 DEF Delete
  <2>2. CASE op[r].kind # "purge" BY <2>2, <1>3 DEF Delete
  <2> QED BY <2>1, <2>2
<1>4. level \in Nat \cup {None} BY LevelType
<1>5. crits \in SUBSET Criterion BY <1>1 DEF IInv, TypeOK, Good
<1>6. rec' \in [1..N -> [crit : Criterion, role : Roles,
                         st : {"none", "active", "trash", "gone"}]]
  BY <1>1 DEF IInv, TypeOK, Roles
<1> HIDE DEF o, level, crits
<1>7. x \in Request /\ Good(x) /\ Current(x, sum) BY <1>3, <1>4, <1>5, ToSyncGood
<1> HIDE DEF x
<1> QED BY <1>1, <1>6, <1>7, <1>8, IdleGood, LocalStep DEF End

LEMMA CheckLockedStep == ASSUME IInv, NEW r \in Req, CheckLocked(r) PROVE Step(r)
<1> DEFINE o == [op[r] EXCEPT !.pc = op[r].kind]
<1>1. /\ op[r] \in Request /\ Good(op[r]) /\ op[r].pc = "checkLocked"
      /\ UNCHANGED <<rec, sum>> /\ (Put(r, o) \/ End(r))
  BY DEF IInv, TypeOK, CheckLocked, Go, At
<1>2. /\ \/ op[r].kind = "restore" \/ (op[r].kind = "update" /\ op[r].c \in Criterion)
         \/ op[r].kind = "edit" /\ FormOK(op[r].copy, op[r].sent)
      /\ op[r].kind # "edit" => op[r].k \in 1..N
      /\ op[r].back \in {"intentRecords", "syncNew"} => op[r].c \in Criterion
  BY <1>1 DEF Good
<1>3. op[r].kind \in Pcs BY <1>2 DEF Pcs
<1>4. o \in Request BY <1>1, <1>3 DEF Request
<1>6. /\ o.pc = op[r].kind /\ o.kind = op[r].kind /\ o.c = op[r].c /\ o.k = op[r].k
      /\ o.copy = op[r].copy /\ o.sent = op[r].sent /\ o.back = op[r].back
  BY <1>1 DEF Request
<1> HIDE DEF o
<1>5. Good(o) /\ Current(o, sum) BY <1>2, <1>6 DEF Good, Current, Saving
<1> QED BY <1>1, <1>4, <1>5, IdleGood, LocalStep, SameRecords DEF End

LEMMA RecordWriteStep == ASSUME IInv, NEW r \in Req, RecordWrite(r) PROVE Step(r)
<1> DEFINE k == op[r].k
           o == [op[r] EXCEPT !.k = 0]
           back == IF op[r].pc = "update" THEN "syncNew" ELSE "end"
           crits == IF op[r].pc = "trash" THEN {rec[k].crit} ELSE op[r].crits
           x == ToSync(o, crits, None, back)
<1>1. /\ op[r] \in Request /\ Good(op[r]) /\ k \in 1..N /\ UNCHANGED sum
      /\ op[r].pc = "update" => op[r].c \in Criterion
      /\ op[r].pc \in {"trash", "restore", "update"}
  BY DEF IInv, TypeOK, RecordWrite, Good
<1>2. o \in Request /\ o.pc = op[r].pc /\ o.c = op[r].c /\ o.crits = op[r].crits
  <2>1. 0 \in Number BY ConstantsAssumption DEF Number
  <2> QED BY <1>1, <2>1 DEF Request
<1>3. CASE End(r) /\ UNCHANGED rec
  BY <1>1, <1>3, IdleGood, LocalStep, SameRecords DEF End
<1>4. CASE rec[k].st # "gone"
  <2>1. /\ Put(r, x)
        /\ rec' = CASE o.pc = "trash" -> [rec EXCEPT ![k].st = "trash"]
                    [] o.pc = "restore" -> [rec EXCEPT ![k].st = "active"]
                    [] o.pc = "update" -> [rec EXCEPT ![k].crit = o.c]
    BY <1>2, <1>4 DEF RecordWrite
  <2>2. crits \in SUBSET Criterion BY <1>1 DEF IInv, TypeOK, Request
  <2>3. /\ [rec EXCEPT ![k].st = "trash"] \in [1..N -> [crit : Criterion, role : Roles,
                         st : {"none", "active", "trash", "gone"}]]
        /\ [rec EXCEPT ![k].st = "active"] \in [1..N -> [crit : Criterion, role : Roles,
                         st : {"none", "active", "trash", "gone"}]]
        /\ o.pc = "update" =>
             [rec EXCEPT ![k].crit = o.c] \in [1..N -> [crit : Criterion, role : Roles,
                         st : {"none", "active", "trash", "gone"}]]
    BY <1>1, <1>2 DEF IInv, TypeOK, Roles
  <2>4. rec' \in [1..N -> [crit : Criterion, role : Roles,
                           st : {"none", "active", "trash", "gone"}]]
    BY <1>1, <1>2, <2>1, <2>3
  <2>5. back \in {"end", "syncNew"} /\ (back = "syncNew" => o.c \in Criterion) BY <1>1, <1>2
  <2> HIDE DEF o, back, crits
  <2>6. x \in Request /\ Good(x) /\ Current(x, sum) BY <1>2, <2>2, <2>5, ToSyncGood
  <2> HIDE DEF x
  <2> QED BY <1>1, <2>1, <2>4, <2>6, LocalStep
<1> QED BY <1>3, <1>4 DEF RecordWrite

-----------------------------------------------------------------------------
(* Every step of an operation on the summary *)

LEMMA ViewStep == ASSUME IInv, NEW r \in Req, View(r) PROVE Step(r)
<1>1. Start(r, ToSync(Idle, Criterion, 0, "end")) /\ UNCHANGED <<rec, sum>> BY DEF View
<1> QED BY <1>1, IdleGood, ToSyncGood, StartStep

LEMMA EditStep ==
    ASSUME IInv, NEW r \in Req, NEW sent \in Sent, NEW form \in Form \cup {sum},
           Edit(r, sent, form)
    PROVE  Step(r)
<1> DEFINE o == [Idle EXCEPT !.pc = "checkLocked", !.kind = "edit", !.sent = sent, !.copy = form]
<1>1. "checkLocked" \in Pcs /\ "edit" \in Kinds BY DEF Pcs, Kinds
<1>2. form \in Document /\ sent \in SUBSET Field BY ConstantsAssumption DEF IInv, TypeOK
<1>3. o \in Request BY <1>1, <1>2, IdleGood DEF Request
<1>4. FormOK(form, sent) BY <1>2 DEF Edit, FormOK
<1>5. Good(o) /\ Current(o, sum) BY <1>4 DEF Idle, Good, Current, Saving
<1>6. Start(r, o) /\ UNCHANGED <<rec, sum>> BY DEF Edit
<1> HIDE DEF o
<1> QED BY <1>3, <1>5, <1>6, StartStep

(* What an update writes is a document that it did not lock. *)
LEMMA Edited ==
    ASSUME IInv, NEW r \in Req, EditWrite(r)
    PROVE  /\ sum' \in Document
           /\ sum'.status = "locked" => sum.status = "locked"
           /\ "det" \notin op[r].sent => sum'.det = sum.det
<1> DEFINE form == op[r].copy
           sent == op[r].sent
           status == IF "status" \in sent THEN form.status ELSE sum.status
           det == IF "det" \in sent THEN form.det ELSE sum.det
           total == IF "total" \in sent THEN form.total ELSE sum.total
           grade == IF "grade" \in sent THEN form.grade ELSE sum.grade
           rank == IF "status" \in sent /\ form.status = "draft" THEN None
                   ELSE IF "rank" \in sent THEN form.rank ELSE sum.rank
<1>1. sum \in Document /\ form \in Document /\ ("status" \in sent => form.status # "locked")
  BY DEF IInv, TypeOK, EditWrite, At, Good, FormOK
<1>2. sum' = [sum EXCEPT !.status = status, !.det = det, !.total = total, !.grade = grade,
                         !.rank = rank]
  BY DEF EditWrite
<1>3. status \in {"draft", "sv_submitted", "gv_reviewed", "locked"} BY <1>1 DEF Document
<1>4. det \in [Criterion -> Detail \cup {None}] BY <1>1 DEF Document
<1>5. total \in (0..100) \cup {None} BY <1>1 DEF Document
<1>6. grade \in {None, "unranked", "high", "low"} BY <1>1 DEF Document
<1>7. rank \in {None, "unranked", "high", "low"} BY <1>1 DEF Document
<1>8. (status = "locked" => sum.status = "locked") /\ ("det" \notin sent => det = sum.det)
  BY <1>1
<1> HIDE DEF status, det, total, grade, rank
<1>9. sum' = [status |-> status, det |-> det, total |-> total, grade |-> grade, rank |-> rank]
  BY <1>1, <1>2 DEF Document
<1>10. sum' \in Document BY <1>3, <1>4, <1>5, <1>6, <1>7, <1>9 DEF Document
<1>11. sum'.status = status /\ sum'.det = det BY <1>9
<1> QED BY <1>8, <1>10, <1>11

LEMMA EditWriteStep == ASSUME IInv, NEW r \in Req, EditWrite(r) PROVE Step(r)
<1> DEFINE e(q) == op[q].edited \/ ("det" \in op[r].sent /\ Holding(op[q]))
           x(q) == [op[q] EXCEPT !.edited = e(q)]
<1>1. \A q \in Req : op[q] \in Request /\ Good(op[q]) /\ Current(op[q], sum)
  BY DEF IInv, TypeOK
<1>2. op' = [q \in Req |-> IF q = r THEN Idle ELSE x(q)] /\ UNCHANGED <<rec, starts>>
  BY DEF EditWrite
<1>3. \A q \in Req : e(q) \in BOOLEAN BY <1>1 DEF Request
<1>4. ASSUME NEW q \in Req
      PROVE  x(q) \in Request /\ Good(x(q)) /\ Current(x(q), sum') /\ x(q).pc = op[q].pc
  <2>1. op[q] \in Request /\ Good(op[q]) /\ Current(op[q], sum) BY <1>1
  <2>2. ~e(q) => ~op[q].edited BY <1>1 DEF Request
  <2>3. ~e(q) /\ op[q].pc \in Saving \cup {"review"} => sum'.det = sum.det
    BY Edited DEF Holding
  <2> DEFINE y == x(q)
  <2>4. e(q) \in BOOLEAN BY <1>3
  <2> HIDE DEF e
  <2>5. /\ y \in Request /\ y.pc = op[q].pc /\ y.fresh = op[q].fresh /\ y.edited = e(q)
        /\ y.copy = op[q].copy /\ y.c = op[q].c /\ y.kind = op[q].kind /\ y.back = op[q].back
        /\ y.k = op[q].k /\ y.level = op[q].level /\ y.v = op[q].v /\ y.sent = op[q].sent
    BY <2>1, <2>4 DEF Request
  <2> HIDE DEF y
  <2>6. Good(y) BY <2>1, <2>5 DEF Good
  <2>7. Current(y, sum') BY <2>1, <2>2, <2>3, <2>5, Edited DEF Current
  <2> QED BY <2>5, <2>6, <2>7 DEF y
<1> HIDE DEF x
<1>5. \A q \in Req : op'[q] \in Request /\ Good(op'[q]) /\ Current(op'[q], sum')
  BY <1>2, <1>4, IdleGood
<1>6. op' \in [Req -> Request] BY <1>2, <1>5
<1>7. TypeOK' BY <1>2, <1>6, Edited DEF IInv, TypeOK
<1>8. \A q \in Req \ {r} : op'[q].pc = op[q].pc BY <1>2, <1>4
<1>9. At(r, "edit") /\ op'[r] = Idle /\ ("det" \notin op[r].sent => sum'.det = sum.det)
  BY <1>2, Edited DEF EditWrite
<1> QED BY <1>5, <1>7, <1>8, <1>9 DEF IInv, Step, Drops

LEMMA ReviewStep ==
    ASSUME IInv, NEW r \in Req, NEW role \in Role, NEW c \in Criterion, NEW v \in Mark,
           Review(r, role, c, v)
    PROVE  Step(r)
<1> DEFINE o == [Idle EXCEPT !.pc = "review", !.role = role, !.c = c, !.v = v, !.copy = sum]
<1>1. "review" \in Pcs /\ role \in Roles /\ sum \in Document
  BY ConstantsAssumption DEF Pcs, Roles, IInv, TypeOK
<1>2. o \in Request BY <1>1, IdleGood DEF Request, Roles
<1>3. Start(r, o) /\ UNCHANGED <<rec, sum>> /\ sum.det[c] # None BY DEF Review
<1>4. Good(o) /\ Current(o, sum) BY <1>3 DEF Idle, Good, Current, Saving
<1> HIDE DEF o
<1> QED BY <1>2, <1>3, <1>4, StartStep

LEMMA ReviewWriteStep == ASSUME IInv, NEW r \in Req, ReviewWrite(r) PROVE Step(r)
<1> DEFINE o == op[r]
           d == sum.det[o.c]
           new == Reviewed(o, d)
           x == [op[r] EXCEPT !.pc = "recRead", !.copy = None, !.fresh = TRUE]
<1>1. /\ o \in Request /\ Good(o) /\ o.c \in Criterion /\ o.v \in Mark
      /\ sum \in Document /\ UNCHANGED rec /\ o.pc = "review"
  BY DEF IInv, TypeOK, ReviewWrite, At, Good
<1>2. CASE End(r) /\ UNCHANGED sum
  BY <1>1, <1>2, IdleGood, LocalStep, SameRecords DEF End
<1>3. CASE d # None /\ sum' = [sum EXCEPT !.det[o.c] = new] /\ Put(r, x)
  <2>1. d \in Detail /\ o.v \in Nat BY <1>1, <1>3, ConstantsAssumption DEF Document
  <2>2. new \in Detail
    <3> HIDE DEF d
    <3> QED BY <2>1 DEF Detail, Reviewed
  <2> HIDE DEF new
  <2>3. /\ sum' \in Document /\ sum'.status = sum.status
        /\ \A c \in Criterion : sum'.det[c] = IF c = o.c THEN new ELSE sum.det[c]
    BY <1>1, <1>3, <2>2 DEF Document
  <2>4. \A c \in Criterion : sum'.det[c] = None <=> sum.det[c] = None
    BY <1>1, <1>3, <2>2, <2>3, ConstantsAssumption
  <2>5. x \in Request BY <1>1 DEF Request, Pcs
  <2>6. Good(x) /\ Current(x, sum') BY <1>1 DEF Request, Good, Current, Saving
  <2> HIDE DEF x
  <2> QED BY <1>1, <1>3, <2>3, <2>4, <2>5, <2>6, PutStep, SameRecords
<1> QED BY <1>2, <1>3 DEF ReviewWrite

LEMMA ApproveStep == ASSUME IInv, NEW r \in Req, Approve(r) PROVE Step(r)
<1> DEFINE o == [Idle EXCEPT !.pc = "approveRead"]
           x == ToSync(o, Criterion, 0, "approveRead")
<1>1. "approveRead" \in Pcs BY DEF Pcs
<1>2. o \in Request BY <1>1, IdleGood DEF Request
<1>3. Good(o) /\ Current(o, sum) BY DEF Idle, Good, Current, Saving
<1>4. (Start(r, o) \/ Start(r, x)) /\ UNCHANGED <<rec, sum>> BY DEF Approve
<1> HIDE DEF o
<1>5. x \in Request /\ Good(x) /\ Current(x, sum) BY <1>2, ToSyncGood
<1> HIDE DEF x
<1> QED BY <1>2, <1>3, <1>4, <1>5, StartStep

LEMMA ApproveReadStep ==
    ASSUME IInv, NEW r \in Req, ApproveRead(r) \/ ApproveRecords(r) PROVE Step(r)
<1>1. CASE ApproveRead(r) BY <1>1, ReadGood DEF ApproveRead
<1>2. CASE ApproveRecords(r)
  <2> DEFINE seen == [c \in Criterion |-> Cardinality(Active(c))]
             o == [op[r] EXCEPT !.pc = "approveSave", !.back = "rankRead", !.seen = seen]
  <2>1. /\ op[r] \in Request /\ Good(op[r]) /\ Current(op[r], sum) /\ op[r].pc = "approveRecords"
        /\ Put(r, o) /\ UNCHANGED <<rec, sum>>
    BY <1>2 DEF IInv, TypeOK, ApproveRecords, At
  <2>2. seen \in Counts BY ActiveType, CountType DEF Counts, Number
  <2> HIDE DEF seen
  <2>3. "approveSave" \in Pcs /\ "rankRead" \in Backs BY DEF Pcs, Saving, Backs
  <2>4. o \in Request BY <2>1, <2>2, <2>3 DEF Request
  <2>5. Good(o) BY <2>1 DEF Request, Good, Saving
  <2>6. Current(o, sum) BY <2>1 DEF Request, Current, Saving
  <2> HIDE DEF o
  <2> QED BY <2>1, <2>4, <2>5, <2>6, LocalStep, SameRecords
<1> QED BY <1>1, <1>2

LEMMA ApproveSaveStep == ASSUME IInv, NEW r \in Req, ApproveSave(r) PROVE Step(r)
<1> DEFINE o == op[r]
           det == [c \in Criterion |-> Locked(o.copy.det[c])]
           status == IF o.copy.status = "locked" THEN sum.status ELSE "locked"
           s == [sum EXCEPT !.status = status, !.det = det]
<1>1. /\ o \in Request /\ Good(o) /\ Current(o, sum) /\ sum \in Document
      /\ o.pc = "approveSave" /\ UNCHANGED rec
  BY DEF IInv, TypeOK, ApproveSave, At
<1>2. CASE End(r) /\ UNCHANGED sum
  BY <1>1, <1>2, IdleGood, LocalStep, SameRecords DEF End
<1>3. CASE o.fresh /\ SaveVersion(r, s, "recRead")
  <2>1. o.copy \in Document BY <1>1 DEF Good, Saving
  <2>2. \A c \in Criterion : o.copy.det[c] \in Detail \cup {None} BY <2>1 DEF Document
  <2>3. det \in [Criterion -> Detail \cup {None}] BY <2>2, LockedType
  <2>4. \A c \in Criterion : sum.det[c] # None /\ det[c] = None => o.edited
    BY <1>1, <1>3, <2>2, LockedType DEF Current, Saving
  <2>5. status \in {"draft", "sv_submitted", "gv_reviewed", "locked"} BY <1>1 DEF Document
  <2> HIDE DEF det, status
  <2>6. s \in Document /\ s.det = det BY <1>1, <2>3, <2>5 DEF Document
  <2> HIDE DEF s
  <2> QED BY <1>1, <1>3, <2>4, <2>6, VersionStep DEF Saving
<1>4. (End(r) /\ UNCHANGED sum) \/ (o.fresh /\ SaveVersion(r, s, "recRead"))
  BY Zenon DEF ApproveSave
<1> QED BY <1>2, <1>3, <1>4

LEMMA RankStep == ASSUME IInv, NEW r \in Req, RankRead(r) \/ RankSave(r) PROVE Step(r)
<1>1. op[r] \in Request /\ Good(op[r]) /\ sum \in Document /\ UNCHANGED rec
  BY DEF IInv, TypeOK, RankRead, RankSave
<1>2. CASE RankRead(r)
  <2> DEFINE o == [op[r] EXCEPT !.pc = "rankSave", !.copy = sum, !.back = "end"]
  <2>1. "rankSave" \in Pcs /\ "end" \in Backs BY DEF Pcs, Backs
  <2>2. o \in Request BY <1>1, <2>1 DEF Request
  <2>3. Good(o) /\ Current(o, sum) BY <1>1 DEF Request, Good, Current, Saving
  <2>4. Put(r, o) /\ UNCHANGED sum BY <1>2 DEF RankRead
  <2> HIDE DEF o
  <2> QED BY <1>1, <2>2, <2>3, <2>4, LocalStep, SameRecords
<1>3. CASE RankSave(r)
  <2>1. /\ sum' \in Document /\ sum'.status = sum.status /\ sum'.det = sum.det
        /\ End(r)
    BY <1>1, <1>3 DEF RankSave, Tier, Document
  <2> QED BY <1>1, <2>1, IdleGood, PutStep, SameRecords DEF End
<1> QED BY <1>2, <1>3

LEMMA CancelStep == ASSUME IInv, NEW r \in Req, Cancel(r) PROVE Step(r)
<1> DEFINE o == [Idle EXCEPT !.pc = "cancelSave", !.copy = sum]
<1>1. "cancelSave" \in Pcs /\ sum \in Document BY DEF Pcs, Saving, IInv, TypeOK
<1>2. o \in Request BY <1>1, IdleGood DEF Request
<1>3. Good(o) /\ Current(o, sum) BY <1>1 DEF Idle, Good, Current, Saving
<1>4. Start(r, o) /\ UNCHANGED <<rec, sum>> BY DEF Cancel
<1> HIDE DEF o
<1> QED BY <1>2, <1>3, <1>4, StartStep

LEMMA CancelSaveStep == ASSUME IInv, NEW r \in Req, CancelSave(r) PROVE Step(r)
<1> DEFINE o == op[r]
           rank == IF o.copy.rank = None THEN sum.rank ELSE None
           s == [sum EXCEPT !.status = "draft", !.rank = rank]
           det == [c \in Criterion |-> Unlocked(o.copy.det[c])]
           t == [s EXCEPT !.det = det]
           x == [op[r] EXCEPT !.pc = "recRead"]
<1>1. /\ o \in Request /\ Good(o) /\ Current(o, sum) /\ sum \in Document
      /\ o.pc = "cancelSave" /\ UNCHANGED rec
  BY DEF IInv, TypeOK, CancelSave, At
<1>2. rank \in {None, "unranked", "high", "low"} BY <1>1 DEF Document
<1>3. \/ sum' = s /\ Go(r, "recRead")
      \/ o.fresh /\ SaveVersion(r, t, "recRead")
      \/ End(r) /\ UNCHANGED sum
  BY Zenon DEF CancelSave
<1> HIDE DEF rank
<1>4. s \in Document /\ s.status = "draft" /\ s.det = sum.det BY <1>1, <1>2 DEF Document
<1>5. CASE sum' = s /\ Go(r, "recRead")
  <2>1. x \in Request BY <1>1 DEF Request, Pcs
  <2>2. Good(x) /\ Current(x, s) BY <1>1 DEF Request, Good, Current, Saving
  <2>3. Put(r, x) BY <1>5 DEF Go
  <2> HIDE DEF s, x
  <2> QED BY <1>1, <1>4, <1>5, <2>1, <2>2, <2>3, PutStep, SameRecords
<1>6. CASE o.fresh /\ SaveVersion(r, t, "recRead")
  <2>1. o.copy \in Document BY <1>1 DEF Good, Saving
  <2>2. \A c \in Criterion : o.copy.det[c] \in Detail \cup {None} BY <2>1 DEF Document
  <2>3. det \in [Criterion -> Detail \cup {None}] BY <2>2, LockedType
  <2>4. \A c \in Criterion : sum.det[c] # None /\ det[c] = None => o.edited
    BY <1>1, <1>6, <2>2, LockedType DEF Current, Saving
  <2> HIDE DEF det, s
  <2>5. t \in Document /\ t.det = det BY <1>4, <2>3 DEF Document
  <2> HIDE DEF t
  <2> QED BY <1>1, <1>6, <2>4, <2>5, VersionStep DEF Saving
<1>7. CASE End(r) /\ UNCHANGED sum
  BY <1>1, <1>7, IdleGood, LocalStep, SameRecords DEF End
<1> QED BY <1>3, <1>5, <1>6, <1>7

-----------------------------------------------------------------------------
(* The theorems *)

LEMMA InitInvariant == Init => IInv
<1> SUFFICES ASSUME Init PROVE IInv OBVIOUS
<1>1. (CHOOSE c \in Criterion : TRUE) \in Criterion /\ (CHOOSE x \in Role : TRUE) \in Role
  BY ConstantsAssumption
<1> DEFINE x0 == CHOOSE x \in Role : TRUE
           c0 == CHOOSE c \in Criterion : TRUE
<1> HIDE DEF x0, c0
<1>2. rec = [k \in 1..N |-> [crit |-> c0, role |-> x0, st |-> "none"]]
  BY Zenon DEF Init, c0, x0
<1>3. c0 \in Criterion /\ x0 \in Roles
  BY <1>1, ConstantsAssumption DEF Roles, c0, x0
<1>4. rec \in [1..N -> [crit : Criterion, role : {"student", "teacher", "admin"},
                        st : {"none", "active", "trash", "gone"}]]
  BY <1>2, <1>3 DEF Roles
<1>5. sum \in Document BY DEF Init, Document
<1>6. op \in [Req -> Request] /\ \A r \in Req : op[r] = Idle
  BY IdleGood DEF Init
<1>7. starts \in Nat BY DEF Init
<1> QED BY <1>4, <1>5, <1>6, <1>7, IdleGood DEF IInv, TypeOK

LEMMA NextStep == ASSUME IInv, Next PROVE \E r \in Req : Step(r) /\ (Record(r) \/ Summary(r) \/ Sync(r))
<1>1. PICK r \in Req : Record(r) \/ Summary(r) \/ Sync(r) BY DEF Next
<1>2. CASE Record(r)
  BY <1>2, IntentStep, CreateStep, PickStep, IntentReadStep, IntentRecordsStep, InsertStep,
     DeleteStep, CheckLockedStep, RecordWriteStep DEF Record
<1>3. CASE Summary(r)
  BY <1>3, ViewStep, EditStep, EditWriteStep, ReviewStep, ReviewWriteStep, ApproveStep,
     ApproveReadStep, ApproveSaveStep, RankStep, CancelStep, CancelSaveStep DEF Summary
<1>4. CASE Sync(r)
  BY <1>4, SyncRecordsStep, SyncSummaryStep, SyncSaveStep, SyncConflictStep, RecomputeStep
  DEF Sync
<1> QED BY <1>1, <1>2, <1>3, <1>4

LEMMA NextInvariant == IInv /\ [Next]_vars => IInv'
<1>1. ASSUME IInv, Next PROVE IInv' BY <1>1, NextStep DEF Step
<1>2. ASSUME IInv, UNCHANGED vars PROVE IInv' BY <1>2 DEF vars, IInv, TypeOK
<1> QED BY <1>1, <1>2

LEMMA Invariance == Spec => []IInv
BY InitInvariant, NextInvariant, PTL DEF Spec

(* A synchronisation that has read an open summary saves or gives up.       *)
LEMMA SavesOnly ==
    ASSUME NEW r \in Req, At(r, "syncSave"), Record(r) \/ Summary(r) \/ Sync(r)
    PROVE  SyncSave(r) \/ SyncConflict(r)
<1>1. \A o : ~Start(r, o) BY DEF Start, At
<1>2. ~Record(r)
  BY <1>1 DEF Record, At, Intent, Create, Purge, Remove, Restore, Update, IntentDetail,
              IntentCount, IntentRecords, Insert, Delete, CheckLocked, RecordWrite
<1>3. ~Summary(r)
  BY <1>1 DEF Summary, At, Edit, Review, View, EditWrite, ReviewWrite, Approve, ApproveRead,
              ApproveRecords, ApproveSave, RankRead, RankSave, Cancel, CancelSave
<1> QED BY <1>2, <1>3 DEF Sync, At, SyncRecords, SyncSummary, RecomputeRead, RecomputeSave

(* Every document and every request always has the shape that TypeOK says,  *)
(* and every request has what its next step needs.                          *)
THEOREM TypeCorrect == Spec => []TypeOK
<1>1. IInv => TypeOK BY DEF IInv
<1> QED BY <1>1, Invariance, PTL

(* A synchronisation never rewrites the details of a summary that has been  *)
(* locked since it read it: the lock moved the version.                     *)
THEOREM LockedDetailsTheorem == Spec => SyncKeepsLockedDetails
<1> DEFINE A == \A r \in Req : Saves(r) /\ sum.status = "locked" => sum'.det = sum.det
<1>1. IInv /\ [Next]_vars => [A]_vars
  <2> SUFFICES ASSUME IInv, Next, NEW r \in Req, Saves(r), sum.status = "locked"
               PROVE  sum'.det = sum.det
    BY DEF A
  <2>1. PICK q \in Req : Step(q) /\ (Record(q) \/ Summary(q) \/ Sync(q)) BY NextStep
  <2>2. q = r BY <2>1 DEF Saves, Step, At
  <2>3. SyncSave(r) \/ SyncConflict(r) BY <2>1, <2>2, SavesOnly DEF Saves
  <2>4. ~SyncSave(r) BY DEF SyncSave, IInv, Current, At
  <2> QED BY <2>3, <2>4 DEF SyncConflict
<1>2. SyncKeepsLockedDetails <=> [][A]_vars BY DEF SyncKeepsLockedDetails
<1> QED BY <1>1, <1>2, Invariance, PTL DEF Spec

(* Whatever the requests write over each other, a detail once in the        *)
(* summary stays there: a save of the whole array has all that there are.   *)
(* It is lost only to an update that sends details, or to a save whose copy *)
(* such an update, which moves no version, went past.                       *)
THEOREM PersistTheorem == Spec => DetailsPersist
<1> DEFINE A == \A c \in Criterion : sum.det[c] # None /\ sum'.det[c] = None =>
                  \E r \in Req : \/ At(r, "edit") /\ op'[r] = Idle /\ "det" \in op[r].sent
                                 \/ SavesDetails(r) /\ op[r].edited
<1>1. IInv /\ [Next]_vars => [A]_vars BY NextStep DEF Step, Drops
<1>2. DetailsPersist <=> [][A]_vars BY DEF DetailsPersist
<1> QED BY <1>1, <1>2, Invariance, PTL DEF Spec

-----------------------------------------------------------------------------
(* A request that runs alone *)

(* The detail of a criterion counts its active records. *)
Healed(c) == sum.det[c] # None /\ sum.det[c].count = Cardinality(Active(c))

AllLocked ==
    sum.status = "locked" /\ \A c \in Criterion : sum.det[c] # None => sum.det[c].lck

(* What a request knows when nobody interferes: the records that it counted *)
(* and the summary that it read are still the ones that there are.          *)
Lone(o) ==
    /\ o.back = "rankRead" => o.pc \in {"approveSave", "recRead", "recSave", "rankRead"}
    /\ o.pc = "approveSave" => o.back = "rankRead"
    /\ o.pc \in {"review", "cancelSave"} => o.crits = {}
    /\ o.pc \in {"syncSummary", "syncSave"} =>
          \A c \in o.crits : o.seen[c] = Cardinality(Active(c))
    /\ o.pc \in {"recRead", "recSave"} /\ o.back # "rankRead" => \A c \in o.crits : Healed(c)
    /\ o.pc \in {"recRead", "recSave"} /\ o.back = "rankRead" => AllLocked
    /\ o.pc \in {"rankRead", "rankSave"} =>
          AllLocked /\ sum.total = Total(sum) /\ sum.grade = Grade(sum)
    /\ o.pc \in {"approveRecords", "approveSave", "recSave", "rankSave"} => o.copy = sum

LInv ==
    \A r \in Req : op[r].alone =>
        Lone(op[r]) /\ \A q \in Req \ {r} : op[q].pc = "idle"

(* A request under way moves on, or one starts. *)
Moves(r) ==
    /\ op[r].pc # "idle"
    /\ \A q \in Req \ {r} : op'[q].pc = op[q].pc /\ op'[q].alone = op[q].alone
    /\ op'[r].alone => op[r].alone /\ (Lone(op[r]) => Lone(op[r])')

Enters(r) ==
    /\ \A q \in Req \ {r} : op'[q].pc = op[q].pc /\ op'[q].alone = FALSE
    /\ op'[r].alone => \A q \in Req \ {r} : op[q].pc = "idle"
    /\ Lone(op[r])'

LEMMA MovesKeep ==
    ASSUME LInv, NEW r \in Req, Moves(r) \/ Enters(r)
    PROVE  LInv'
<1> SUFFICES ASSUME NEW p \in Req, op'[p].alone
             PROVE  Lone(op[p])' /\ \A q \in Req \ {p} : op'[q].pc = "idle"
  BY DEF LInv
<1>1. CASE Moves(r)
  <2>1. p = r
    BY <1>1 DEF Moves, LInv
  <2> QED BY <1>1, <2>1 DEF Moves, LInv
<1>2. CASE Enters(r)
  <2>1. p = r
    BY <1>2 DEF Enters
  <2> QED BY <1>2, <2>1 DEF Enters
<1> QED BY <1>1, <1>2

(* Where nothing has been read that could be out of date. *)
Plain == {"syncRecords", "syncNew", "intentDetail", "intentCount", "intentRecords", "insert",
          "delete", "trash", "restore", "update", "checkLocked", "edit", "approveRead"}

LEMMA PlainLone ==
    ASSUME NEW r \in Req, op'[r].pc \in Plain, op'[r].back # "rankRead"
    PROVE  Lone(op[r])'
BY DEF Lone, Plain

LEMMA PutMoves ==
    ASSUME TypeOK, NEW r \in Req, NEW o, Put(r, o), op[r].pc # "idle",
           o.alone => op[r].alone /\ (Lone(op[r]) => Lone(op[r])')
    PROVE  Moves(r)
BY DEF TypeOK, Put, Moves

(* The request ends, or goes on to where it knows nothing. *)
Quits(r, o) ==
    \/ o = Idle
    \/ o.alone = op[r].alone /\ o.pc \in Plain /\ o.back \in {op[r].back} \cup (Backs \ {"rankRead"})

LEMMA QuitsMoves ==
    ASSUME TypeOK, NEW r \in Req, NEW o, Put(r, o), Quits(r, o), op[r].pc # "idle",
           Lone(op[r]) => op[r].back # "rankRead"
    PROVE  Moves(r)
<1>1. op'[r] = o
  BY DEF TypeOK, Put
<1>2. CASE o = Idle
  <2>1. o.alone = FALSE
    BY <1>2 DEF Idle
  <2> QED BY <2>1, PutMoves
<1>3. CASE o # Idle
  <2>1. o.alone = op[r].alone /\ o.pc \in Plain
    BY <1>3 DEF Quits
  <2>2. Lone(op[r]) => o.back # "rankRead"
    BY <1>3 DEF Quits
  <2>3. Lone(op[r]) => Lone(op[r])'
    BY <1>1, <2>1, <2>2, PlainLone
  <2> QED BY <2>1, <2>3, PutMoves
<1> QED BY <1>2, <1>3

LEMMA PlainBack ==
    ASSUME NEW o, o.pc \in Plain \cup {"syncSummary", "syncSave"}, Lone(o)
    PROVE  o.back # "rankRead"
BY DEF Lone, Plain

LEMMA ToSyncQuits ==
    ASSUME NEW r \in Req, NEW x \in Request, x.alone = op[r].alone, NEW crits, NEW level,
           NEW back \in {"end", "intentRecords", "approveRead", "syncNew"}
    PROVE  Quits(r, ToSync(x, crits, level, back))
<1>1. LET o == ToSync(x, crits, level, back)
      IN  o.pc = "syncRecords" /\ o.back = back /\ o.alone = x.alone
  BY DEF ToSync, Request
<1> QED BY <1>1 DEF Quits, Plain, Backs

LEMMA ResumeQuits ==
    ASSUME TypeOK, NEW r \in Req, Resume(r), op[r].back # "rankRead"
    PROVE  \E o : Put(r, o) /\ Quits(r, o)
<1>1. op[r] \in Request
  BY DEF TypeOK
<1>2. CASE op[r].back = "end"
  BY <1>2 DEF Resume, End, Quits
<1>3. CASE op[r].back # "end"
  <2> DEFINE o == [op[r] EXCEPT !.pc = op[r].back, !.seen = Idle.seen, !.copy = None,
                                !.fresh = TRUE, !.tries = 0]
  <2>1. Put(r, o)
    BY <1>3 DEF Resume
  <2>2. o.pc = op[r].back /\ o.back = op[r].back /\ o.alone = op[r].alone
    BY <1>1 DEF Request
  <2>3. op[r].back \in Plain
    BY <1>1, <1>3 DEF Request, Backs, Plain
  <2> HIDE DEF o
  <2> QED BY <2>1, <2>2, <2>3 DEF Quits
<1> QED BY <1>2, <1>3

-----------------------------------------------------------------------------
(* The steps of a request on records know nothing *)

LEMMA RecordMoves ==
    ASSUME IInv, NEW r \in Req,
           \/ IntentDetail(r) \/ IntentCount(r) \/ IntentRecords(r) \/ Insert(r)
           \/ Delete(r) \/ CheckLocked(r) \/ RecordWrite(r)
    PROVE  Moves(r)
<1>1. TypeOK /\ op[r] \in Request /\ Good(op[r])
  BY DEF IInv, TypeOK
<1>2. op[r].pc \in Plain
  BY DEF IntentDetail, IntentCount, IntentRecords, Insert, Delete, CheckLocked, RecordWrite, At, Plain
<1>3. Quits(r, Idle)
  BY DEF Quits
<1>4. ASSUME NEW pc \in Plain, NEW k
      PROVE  Quits(r, [[op[r] EXCEPT !.pc = pc] EXCEPT !.k = k]) /\ Quits(r, [op[r] EXCEPT !.pc = pc])
  BY <1>1 DEF Quits, Request
<1>5. ASSUME NEW x \in Request, x.alone = op[r].alone, NEW crits, NEW level,
             NEW back \in {"end", "intentRecords", "approveRead", "syncNew"}
      PROVE  Quits(r, ToSync(x, crits, level, back))
  BY <1>5, ToSyncQuits
<1>6. 0 \in Number /\ "none" \in Kinds
  BY ConstantsAssumption DEF Number, Kinds
<1>7. SUFFICES \E o : Put(r, o) /\ Quits(r, o)
  BY <1>1, <1>2, PlainBack, QuitsMoves DEF Plain
<1>8. CASE IntentDetail(r)
  <2>1. \E k : Put(r, [[op[r] EXCEPT !.pc = "intentCount"] EXCEPT !.k = k])
    BY <1>8 DEF IntentDetail
  <2> QED BY <1>4, <2>1 DEF Plain
<1>9. CASE IntentCount(r)
  <2> DEFINE o == [[op[r] EXCEPT !.k = 0] EXCEPT !.pc = "intentRecords"]
  <2>1. Put(r, o) \/ Put(r, ToSync(o, {o.c}, Level(o.role), "intentRecords"))
    BY <1>9 DEF IntentCount
  <2>2. o \in Request /\ o.alone = op[r].alone /\ o.pc = "intentRecords" /\ o.back = op[r].back
    BY <1>1, <1>6 DEF Request, Pcs
  <2> HIDE DEF o
  <2>3. Quits(r, o)
    BY <2>2 DEF Quits, Plain
  <2> QED BY <1>5, <2>1, <2>2, <2>3
<1>10. CASE IntentRecords(r)
  <2>1. \/ Put(r, [op[r] EXCEPT !.pc = "insert"])
        \/ Put(r, Idle)
        \/ Put(r, ToSync(op[r], {op[r].c}, Level(op[r].role), "end"))
        \/ \E k : Put(r, [[op[r] EXCEPT !.pc = "delete"] EXCEPT !.k = k])
    BY <1>10 DEF IntentRecords, Go, End
  <2> QED BY <1>1, <1>3, <1>4, <1>5, <2>1 DEF Plain
<1>11. CASE Insert(r)
  <2> DEFINE o == [op[r] EXCEPT !.kind = "none"]
  <2>1. \E l, S : Put(r, ToSync(o, S, l, "end"))
    BY <1>11 DEF Insert
  <2>2. o \in Request /\ o.alone = op[r].alone
    BY <1>1, <1>6 DEF Request
  <2> HIDE DEF o
  <2> QED BY <1>5, <2>1, <2>2
<1>12. CASE Delete(r)
  <2> DEFINE o == [[op[r] EXCEPT !.k = 0] EXCEPT !.kind = "none"]
  <2>1. Put(r, Idle) \/ \E l, S : Put(r, ToSync(o, S, l, "end"))
    BY <1>12 DEF Delete, End
  <2>2. o \in Request /\ o.alone = op[r].alone
    BY <1>1, <1>6 DEF Request
  <2> HIDE DEF o
  <2> QED BY <1>3, <1>5, <2>1, <2>2
<1>13. CASE CheckLocked(r)
  <2>1. Put(r, Idle) \/ Put(r, [op[r] EXCEPT !.pc = op[r].kind])
    BY <1>13 DEF CheckLocked, Go, End
  <2>2. op[r].kind \in Plain
    BY <1>1, <1>13 DEF CheckLocked, At, Good, Plain
  <2> QED BY <1>3, <1>4, <2>1, <2>2
<1>14. CASE RecordWrite(r)
  <2> DEFINE o == [op[r] EXCEPT !.k = 0]
  <2>1. \/ Put(r, Idle)
        \/ \E S : Put(r, ToSync(o, S, None, "syncNew")) \/ Put(r, ToSync(o, S, None, "end"))
    BY <1>14 DEF RecordWrite, End
  <2>2. o \in Request /\ o.alone = op[r].alone
    BY <1>1, <1>6 DEF Request
  <2> HIDE DEF o
  <2> QED BY <1>3, <1>5, <2>1, <2>2
<1> QED BY <1>8, <1>9, <1>10, <1>11, <1>12, <1>13, <1>14

-----------------------------------------------------------------------------
(* The steps of a synchronisation and of an operation on the summary *)

LEMMA SameActive == ASSUME UNCHANGED rec PROVE \A c : Active(c)' = Active(c)
BY DEF Active

(* A read keeps what is known, and adds the copy. *)
LEMMA ReadMoves ==
    ASSUME IInv, NEW r \in Req, UNCHANGED <<rec, sum>>,
           \/ op[r].pc = "syncSummary" /\ Read(r, "syncSave")
           \/ op[r].pc = "recRead" /\ Read(r, "recSave")
           \/ op[r].pc = "approveRead" /\ Read(r, "approveRecords")
    PROVE  Moves(r)
<1>1. TypeOK /\ op[r] \in Request
  BY DEF IInv, TypeOK
<1>2. PICK pc : /\ Read(r, pc)
                /\ \/ op[r].pc = "syncSummary" /\ pc = "syncSave"
                   \/ op[r].pc = "recRead" /\ pc = "recSave"
                   \/ op[r].pc = "approveRead" /\ pc = "approveRecords"
  OBVIOUS
<1> DEFINE o == [op[r] EXCEPT !.pc = pc, !.copy = sum, !.fresh = TRUE, !.edited = FALSE]
<1>3. /\ o.pc = pc /\ o.copy = sum /\ o.alone = op[r].alone /\ o.back = op[r].back
      /\ o.crits = op[r].crits /\ o.seen = op[r].seen
  BY <1>1 DEF Request
<1>4. Put(r, o)
  BY <1>2 DEF Read
<1> HIDE DEF o
<1>5. op'[r] = o
  BY <1>1, <1>4 DEF Put, TypeOK
<1>6. ASSUME Lone(op[r]) PROVE Lone(op[r])'
  <2>1. \A c : Healed(c)' <=> Healed(c)
    BY SameActive DEF Healed
  <2>2. AllLocked' <=> AllLocked
    BY DEF AllLocked
  <2> QED BY <1>2, <1>3, <1>5, <1>6, <2>1, <2>2, SameActive DEF Lone
<1> QED BY <1>1, <1>2, <1>3, <1>4, <1>6, PutMoves

LEMMA SyncRecordsMoves == ASSUME IInv, NEW r \in Req, SyncRecords(r) PROVE Moves(r)
<1> DEFINE new == At(r, "syncNew")
           crits == IF new THEN {op[r].c} ELSE op[r].crits
           found == UNION {Active(c) : c \in crits}
           level == IF ~new /\ op[r].level # None THEN op[r].level
                    ELSE IF found = {} THEN 0 ELSE AuthorLevel(rec[Max(found)].role)
           back == IF new THEN "end" ELSE op[r].back
           seen == [c \in Criterion |-> Cardinality(Active(c) \cap found)]
           o == [op[r] EXCEPT !.pc = "syncSummary", !.crits = crits, !.level = level,
                              !.back = back, !.seen = seen]
<1>1. TypeOK /\ op[r] \in Request /\ Good(op[r])
  BY DEF IInv, TypeOK
<1>2. /\ Put(r, o) /\ UNCHANGED <<rec, sum>> /\ op[r].pc \in Plain
  BY DEF SyncRecords, Put, Plain
<1>3. crits \in SUBSET Criterion
  BY <1>1 DEF SyncRecords, Request, Good, At
<1>4. \A c \in crits : seen[c] = Cardinality(Active(c))
  <2>1. \A c \in crits : Active(c) \cap found = Active(c)
    OBVIOUS
  <2> HIDE DEF found, crits
  <2> QED BY <1>3, <2>1
<1>5. Lone(op[r]) => back # "rankRead"
  BY <1>2, PlainBack
<1> HIDE DEF crits, level, back, seen
<1>6. /\ o.pc = "syncSummary" /\ o.crits = crits /\ o.back = back /\ o.seen = seen
      /\ o.alone = op[r].alone
  BY <1>1 DEF Request
<1> HIDE DEF o
<1>7. op'[r] = o
  BY <1>1, <1>2 DEF Put, TypeOK
<1>8. Lone(op[r]) => Lone(op[r])'
  BY <1>2, <1>4, <1>5, <1>6, <1>7, SameActive DEF Lone
<1> QED BY <1>1, <1>2, <1>6, <1>8, PutMoves DEF Plain

(* A synchronisation that gives up was not that of an approval.             *)
LEMMA ResumeMoves ==
    ASSUME IInv, NEW r \in Req, Resume(r), op[r].pc \in {"syncSummary", "syncSave"}
    PROVE  Moves(r)
<1>1. TypeOK /\ op[r] \in Request
  BY DEF IInv, TypeOK
<1>2. CASE op[r].back # "rankRead"
  BY <1>1, <1>2, ResumeQuits, QuitsMoves
<1>3. CASE op[r].back = "rankRead"
  <2> DEFINE o == [op[r] EXCEPT !.pc = op[r].back, !.seen = Idle.seen, !.copy = None,
                                !.fresh = TRUE, !.tries = 0]
  <2>1. Put(r, o)
    BY <1>3 DEF Resume
  <2>2. o.alone = op[r].alone
    BY <1>1 DEF Request
  <2>3. ~Lone(op[r])
    BY <1>3, PlainBack
  <2> HIDE DEF o
  <2> QED BY <1>1, <2>1, <2>2, <2>3, PutMoves
<1> QED BY <1>2, <1>3

LEMMA SyncSummaryMoves == ASSUME IInv, NEW r \in Req, SyncSummary(r) PROVE Moves(r)
<1>1. op[r].pc = "syncSummary" /\ UNCHANGED <<rec, sum>> /\ TypeOK
  BY DEF SyncSummary, At, IInv
<1>2. CASE Open
  BY <1>1, <1>2, ReadMoves DEF SyncSummary
<1>3. CASE ~Open
  BY <1>1, <1>3, ResumeMoves DEF SyncSummary
<1> QED BY <1>2, <1>3

(* A save under a version: who has made it goes on to the totals.           *)
LEMMA SaveMoves ==
    ASSUME IInv, NEW r \in Req, NEW s, SaveVersion(r, s, "recRead"), op[r].pc # "idle", UNCHANGED rec,
           op[r].alone /\ Lone(op[r]) =>
              /\ op[r].back # "rankRead" => \A c \in op[r].crits : Healed(c)'
              /\ op[r].back = "rankRead" => AllLocked'
    PROVE  Moves(r)
<1> DEFINE o == Saved(op[r])
<1>1. op[r] \in Request /\ op \in [Req -> Request] /\ Good(op[r])
  BY DEF IInv, TypeOK
<1>2. op' = [q \in Req |->
               IF q = r THEN o
               ELSE [op[q] EXCEPT !.fresh = op[q].pc \notin Saving,
                                  !.edited = @ \/ (op[r].edited /\ op[q].pc = "review")]]
  BY DEF SaveVersion, Saved
<1>3. o.pc = "recRead" /\ o.alone = op[r].alone /\ o.back = op[r].back /\ o.crits = op[r].crits
  BY <1>1, SavedGood
<1>4. \A q \in Req \ {r} : op'[q].pc = op[q].pc /\ op'[q].alone = op[q].alone
  BY <1>1, <1>2 DEF Request
<1> HIDE DEF o
<1>5. op'[r] = o
  BY <1>2
<1>6. op[r].alone /\ Lone(op[r]) => Lone(op[r])'
  BY <1>3, <1>5 DEF Lone
<1> QED BY <1>3, <1>4, <1>5, <1>6 DEF Moves

LEMMA SyncDetailCount ==
    ASSUME NEW c, NEW old \in Detail \cup {None}, NEW n \in 0..N, NEW level \in Nat
    PROVE  SyncDetail(c, old, n, level).count = n
<1> DEFINE s == Score(c, n)
           b == IF old = None THEN NewDetail ELSE old
           d == [b EXCEPT !.count = n, !.sys = s]
<1>1. NewDetail \in Detail
  BY ConstantsAssumption DEF NewDetail, Detail
<1>2. b \in Detail
  BY <1>1
<1> HIDE DEF s, b
<1>3. d.count = n
  BY <1>2 DEF Detail
<1>4. /\ [d EXCEPT !.sv = s, !.gv = s].count = n
      /\ [d EXCEPT !.sv = s].count = n
      /\ [d EXCEPT !.gv = s].count = n
      /\ [d EXCEPT !.final = s].count = n
  BY <1>2 DEF Detail
<1>5. level = 0 \/ level = 1 \/ level = 2 \/ level > 2
  OBVIOUS
<1>6. SyncDetail(c, old, n, level) =
        IF Kept(d) THEN d
        ELSE CASE level = 0 -> [d EXCEPT !.sv = s, !.gv = s]
               [] level = 1 -> [d EXCEPT !.sv = s]
               [] level = 2 -> [d EXCEPT !.gv = s]
               [] level > 2 -> [d EXCEPT !.final = s]
  BY DEF SyncDetail, s, b
<1> HIDE DEF d
<1> QED BY <1>3, <1>4, <1>5, <1>6

LEMMA SyncSaveMoves ==
    ASSUME IInv, NEW r \in Req, SyncSave(r) \/ SyncConflict(r)
    PROVE  Moves(r)
<1>1. /\ op[r].pc = "syncSave" /\ op[r] \in Request /\ Good(op[r]) /\ sum \in Document
      /\ UNCHANGED rec /\ TypeOK
  BY DEF SyncSave, SyncConflict, At, IInv, TypeOK
<1>2. CASE SyncSave(r)
  <2> DEFINE s == [sum EXCEPT !.det = Synced(op[r])]
  <2>1. SaveVersion(r, s, "recRead") /\ sum' = s
    BY <1>2 DEF SyncSave, SaveVersion
  <2>2. op[r].copy \in Document /\ op[r].level \in Nat
    BY <1>1 DEF Good, Saving
  <2>3. sum'.det = Synced(op[r])
    BY <1>1, <2>1 DEF Document
  <2>4. ASSUME Lone(op[r]), NEW c \in op[r].crits PROVE Healed(c)'
    <3>1. c \in Criterion /\ op[r].seen[c] = Cardinality(Active(c)) /\ op[r].seen[c] \in 0..N
      BY <1>1, <2>4 DEF Lone, Request, Counts, Number
    <3>2. op[r].copy.det[c] \in Detail \cup {None}
      BY <2>2, <3>1 DEF Document
    <3>3. sum'.det[c] = SyncDetail(c, op[r].copy.det[c], op[r].seen[c], op[r].level)
      BY <2>3, <2>4, <3>1 DEF Synced
    <3>4. sum'.det[c].count = op[r].seen[c]
      BY <2>2, <3>1, <3>2, <3>3, SyncDetailCount
    <3>5. sum'.det[c] # None
      BY <2>2, <3>1, <3>2, <3>3, SyncDetailType, ConstantsAssumption
    <3> QED BY <1>1, <3>1, <3>4, <3>5, SameActive DEF Healed
  <2>5. Lone(op[r]) => op[r].back # "rankRead"
    BY <1>1, PlainBack
  <2> HIDE DEF s
  <2> QED BY <1>1, <2>1, <2>4, <2>5, SaveMoves
<1>3. CASE SyncConflict(r) /\ op[r].tries < 2
  <2> DEFINE o == [op[r] EXCEPT !.pc = "syncSummary", !.tries = op[r].tries + 1, !.copy = None,
                                !.fresh = TRUE]
  <2>1. Put(r, o) /\ UNCHANGED sum
    BY <1>3 DEF SyncConflict
  <2>2. /\ o.pc = "syncSummary" /\ o.crits = op[r].crits /\ o.back = op[r].back
        /\ o.seen = op[r].seen /\ o.alone = op[r].alone
    BY <1>1 DEF Request
  <2> HIDE DEF o
  <2>3. op'[r] = o
    BY <1>1, <2>1 DEF Put, TypeOK
  <2>4. Lone(op[r]) => Lone(op[r])'
    BY <1>1, <2>2, <2>3, SameActive DEF Lone
  <2> QED BY <1>1, <2>1, <2>2, <2>4, PutMoves
<1>4. CASE SyncConflict(r) /\ ~(op[r].tries < 2)
  BY <1>1, <1>4, ResumeMoves DEF SyncConflict
<1> QED BY <1>2, <1>3, <1>4

LEMMA SameTotal ==
    ASSUME NEW s, NEW t, s.det = t.det, s.status = t.status
    PROVE  Total(s) = Total(t) /\ Grade(s) = Grade(t)
BY DEF Total, Grade

(* What is written from an up-to-date copy are the totals of the details.   *)
LEMMA RecomputedTotals ==
    ASSUME IInv, NEW r \in Req, RecomputeSave(r)
    PROVE  /\ sum'.det = sum.det /\ sum'.status = sum.status
           /\ op[r].copy = sum => sum'.total = Total(sum') /\ sum'.grade = Grade(sum')
<1> DEFINE copy == op[r].copy
           t == IF Total(copy) = copy.total THEN sum.total ELSE Total(copy)
           g == IF Grade(copy) = copy.grade THEN sum.grade ELSE Grade(copy)
<1>1. sum \in Document /\ sum' = [sum EXCEPT !.total = t, !.grade = g]
  BY DEF IInv, TypeOK, RecomputeSave
<1>2. copy = sum => t = Total(sum) /\ g = Grade(sum)
  OBVIOUS
<1> HIDE DEF t, g
<1>3. sum'.det = sum.det /\ sum'.status = sum.status /\ sum'.total = t /\ sum'.grade = g
  BY <1>1 DEF Document
<1>4. Total(sum') = Total(sum) /\ Grade(sum') = Grade(sum)
  BY <1>3, SameTotal
<1> QED BY <1>2, <1>3, <1>4

LEMMA RecomputeSaveMoves == ASSUME IInv, NEW r \in Req, RecomputeSave(r) PROVE Moves(r)
<1>1. op[r].pc = "recSave" /\ op[r] \in Request /\ TypeOK /\ Resume(r) /\ UNCHANGED rec
  BY DEF RecomputeSave, At, IInv, TypeOK
<1>2. CASE op[r].back # "rankRead"
  BY <1>1, <1>2, ResumeQuits, QuitsMoves
<1>3. CASE op[r].back = "rankRead"
  <2> DEFINE o == [op[r] EXCEPT !.pc = op[r].back, !.seen = Idle.seen, !.copy = None,
                                !.fresh = TRUE, !.tries = 0]
  <2>1. Put(r, o)
    BY <1>1, <1>3 DEF Resume
  <2>2. o.alone = op[r].alone /\ o.pc = "rankRead" /\ o.back = "rankRead"
    BY <1>1, <1>3 DEF Request
  <2> HIDE DEF o
  <2>3. op'[r] = o
    BY <1>1, <2>1 DEF Put, TypeOK
  <2>4. ASSUME Lone(op[r]) PROVE Lone(op[r])'
    <3>1. op[r].copy = sum /\ AllLocked
      BY <1>1, <1>3, <2>4 DEF Lone
    <3>2. AllLocked' /\ sum'.total = Total(sum') /\ sum'.grade = Grade(sum')
      BY <3>1, RecomputedTotals DEF AllLocked
    <3> QED BY <2>2, <2>3, <3>2 DEF Lone
  <2> QED BY <1>1, <2>1, <2>2, <2>4, PutMoves
<1> QED BY <1>2, <1>3

LEMMA WriteMoves ==
    ASSUME IInv, NEW r \in Req, EditWrite(r) \/ ReviewWrite(r) \/ RankSave(r)
    PROVE  Moves(r)
<1>1. /\ TypeOK /\ op[r] \in Request /\ UNCHANGED rec
      /\ op[r].pc \in {"edit", "review", "rankSave"}
  BY DEF IInv, TypeOK, EditWrite, ReviewWrite, RankSave, At
<1>4. CASE EditWrite(r)
  <2>1. op' = [q \in Req |->
                 IF q = r THEN Idle
                 ELSE [op[q] EXCEPT !.edited = @ \/ ("det" \in op[r].sent /\ Holding(op[q]))]]
    BY <1>4 DEF EditWrite
  <2>2. \A q \in Req \ {r} : op'[q].pc = op[q].pc /\ op'[q].alone = op[q].alone
    BY <1>1, <2>1 DEF TypeOK, Request
  <2>3. op'[r].alone = FALSE
    BY <2>1 DEF Idle
  <2> QED BY <1>1, <2>2, <2>3 DEF Moves
<1>2. CASE Put(r, Idle)
  <2>1. Idle.alone = FALSE
    BY DEF Idle
  <2> QED BY <1>1, <1>2, <2>1, PutMoves
<1>3. CASE /\ op[r].pc = "review"
           /\ Put(r, [op[r] EXCEPT !.pc = "recRead", !.copy = None, !.fresh = TRUE])
  <2> DEFINE o == [op[r] EXCEPT !.pc = "recRead", !.copy = None, !.fresh = TRUE]
  <2>1. o.pc = "recRead" /\ o.crits = op[r].crits /\ o.back = op[r].back /\ o.alone = op[r].alone
    BY <1>1 DEF Request
  <2>2. Put(r, o)
    BY <1>3
  <2> HIDE DEF o
  <2>3. op'[r] = o
    BY <1>1, <2>2 DEF Put, TypeOK
  <2>4. Lone(op[r]) => Lone(op[r])'
    BY <1>3, <2>1, <2>3 DEF Lone
  <2> QED BY <1>1, <2>1, <2>2, <2>4, PutMoves
<1> QED BY <1>2, <1>3, <1>4 DEF ReviewWrite, RankSave, End, At

LEMMA ApproveRecordsMoves == ASSUME IInv, NEW r \in Req, ApproveRecords(r) PROVE Moves(r)
<1> DEFINE seen == [c \in Criterion |-> Cardinality(Active(c))]
           o == [op[r] EXCEPT !.pc = "approveSave", !.back = "rankRead", !.seen = seen]
<1>1. /\ TypeOK /\ op[r] \in Request /\ op[r].pc = "approveRecords"
      /\ Put(r, o) /\ UNCHANGED <<rec, sum>>
  BY DEF IInv, TypeOK, ApproveRecords, At
<1> HIDE DEF seen
<1>2. /\ o.pc = "approveSave" /\ o.back = "rankRead" /\ o.copy = op[r].copy
      /\ o.alone = op[r].alone
  BY <1>1 DEF Request
<1> HIDE DEF o
<1>3. op'[r] = o
  BY <1>1 DEF Put, TypeOK
<1>4. Lone(op[r]) => Lone(op[r])'
  BY <1>1, <1>2, <1>3 DEF Lone
<1> QED BY <1>1, <1>2, <1>4, PutMoves

LEMMA ApproveSaveMoves == ASSUME IInv, NEW r \in Req, ApproveSave(r) PROVE Moves(r)
<1> DEFINE o == op[r]
           det == [c \in Criterion |-> Locked(o.copy.det[c])]
           status == IF o.copy.status = "locked" THEN sum.status ELSE "locked"
           s == [sum EXCEPT !.status = status, !.det = det]
<1>1. /\ TypeOK /\ o \in Request /\ Good(o) /\ sum \in Document
      /\ o.pc = "approveSave" /\ UNCHANGED rec
  BY DEF IInv, TypeOK, ApproveSave, At
<1>2. CASE End(r) /\ UNCHANGED sum
  <2>1. Idle.alone = FALSE
    BY DEF Idle
  <2> QED BY <1>1, <1>2, <2>1, PutMoves DEF End
<1>3. CASE SaveVersion(r, s, "recRead")
  <2>1. sum'.status = status /\ sum'.det = det
    <3> HIDE DEF status, det
    <3> QED BY <1>1, <1>3 DEF SaveVersion, Document
  <2>2. ASSUME Lone(o) PROVE AllLocked'
    <3>1. o.copy = sum
      BY <1>1, <2>2 DEF Lone
    <3>2. sum'.status = "locked"
      BY <2>1, <3>1
    <3>3. ASSUME NEW c \in Criterion, sum'.det[c] # None PROVE sum'.det[c].lck
      <4>1. sum'.det[c] = Locked(o.copy.det[c]) /\ o.copy.det[c] \in Detail \cup {None}
        BY <1>1, <2>1, <3>1 DEF Document
      <4>2. o.copy.det[c] \in Detail /\ o.copy.det[c] # None
        BY <3>3, <4>1 DEF Locked
      <4>3. \A d \in Detail : [d EXCEPT !.final = Resolved(d), !.lck = TRUE].lck = TRUE
        BY DEF Detail
      <4> QED BY <4>1, <4>2, <4>3 DEF Locked
    <3> QED BY <3>2, <3>3 DEF AllLocked
  <2>3. Lone(o) => o.back = "rankRead"
    BY <1>1 DEF Lone
  <2> HIDE DEF s
  <2> QED BY <1>1, <1>3, <2>2, <2>3, SaveMoves
<1>4. (End(r) /\ UNCHANGED sum) \/ SaveVersion(r, s, "recRead")
  BY Zenon DEF ApproveSave
<1> QED BY <1>2, <1>3, <1>4

LEMMA RankReadMoves == ASSUME IInv, NEW r \in Req, RankRead(r) PROVE Moves(r)
<1> DEFINE o == [op[r] EXCEPT !.pc = "rankSave", !.copy = sum, !.back = "end"]
<1>1. /\ TypeOK /\ op[r] \in Request /\ op[r].pc = "rankRead"
      /\ Put(r, o) /\ UNCHANGED <<rec, sum>>
  BY DEF IInv, TypeOK, RankRead, At
<1>2. o.pc = "rankSave" /\ o.back = "end" /\ o.copy = sum /\ o.alone = op[r].alone
  BY <1>1 DEF Request
<1> HIDE DEF o
<1>3. op'[r] = o
  BY <1>1 DEF Put, TypeOK
<1>4. Lone(op[r]) => Lone(op[r])'
  BY <1>1, <1>2, <1>3 DEF Lone, AllLocked
<1> QED BY <1>1, <1>2, <1>4, PutMoves

LEMMA CancelSaveMoves == ASSUME IInv, NEW r \in Req, CancelSave(r) PROVE Moves(r)
<1>1. /\ TypeOK /\ op[r] \in Request /\ op[r].pc = "cancelSave" /\ UNCHANGED rec
  BY DEF IInv, TypeOK, CancelSave, At
<1>2. \/ Go(r, "recRead")
      \/ \E s : SaveVersion(r, s, "recRead")
      \/ End(r)
  BY DEF CancelSave
<1>3. Lone(op[r]) => op[r].crits = {} /\ op[r].back # "rankRead"
  BY <1>1 DEF Lone
<1>4. CASE Go(r, "recRead")
  <2> DEFINE o == [op[r] EXCEPT !.pc = "recRead"]
  <2>1. o.pc = "recRead" /\ o.crits = op[r].crits /\ o.back = op[r].back /\ o.alone = op[r].alone
    BY <1>1 DEF Request
  <2>2. Put(r, o)
    BY <1>4 DEF Go
  <2> HIDE DEF o
  <2>3. op'[r] = o
    BY <1>1, <2>2 DEF Put, TypeOK
  <2>4. Lone(op[r]) => Lone(op[r])'
    BY <1>3, <2>1, <2>3 DEF Lone
  <2> QED BY <1>1, <2>1, <2>2, <2>4, PutMoves
<1>5. CASE \E s : SaveVersion(r, s, "recRead")
  BY <1>1, <1>3, <1>5, SaveMoves
<1>6. CASE End(r)
  <2>1. Idle.alone = FALSE
    BY DEF Idle
  <2> QED BY <1>1, <1>6, <2>1, PutMoves DEF End
<1> QED BY <1>2, <1>4, <1>5, <1>6

(* A request that starts has read nothing that it will rely on. *)
Startable(o) ==
    \A b \in BOOLEAN :
        LET x == [o EXCEPT !.alone = b]
        IN  /\ x.alone = b /\ x.back # "rankRead"
            /\ x.pc \in Plain \/ (x.pc \in {"review", "cancelSave"} /\ x.crits = {})

LEMMA StartEnters ==
    ASSUME IInv, NEW r \in Req, NEW o, Start(r, o), Startable(o)
    PROVE  Enters(r)
<1> DEFINE p == \A q \in Req \ {r} : At(q, "idle")
<1>0. p \in BOOLEAN /\ (p => \A q \in Req \ {r} : op[q].pc = "idle")
  BY DEF At
<1> HIDE DEF p
<1>1. op' = [q \in Req |-> IF q = r THEN [o EXCEPT !.alone = p]
                           ELSE [op[q] EXCEPT !.alone = FALSE]]
  BY DEF Start, p
<1>2. \A q \in Req \ {r} : op'[q].pc = op[q].pc /\ op'[q].alone = FALSE
  BY <1>1 DEF IInv, TypeOK, Request
<1>3. /\ op'[r].alone = p /\ op'[r].back # "rankRead"
      /\ op'[r].pc \in Plain \/ (op'[r].pc \in {"review", "cancelSave"} /\ op'[r].crits = {})
  BY <1>0, <1>1 DEF Startable
<1>4. Lone(op[r])'
  BY <1>3 DEF Lone, Plain
<1> QED BY <1>0, <1>2, <1>3, <1>4 DEF Enters

LEMMA RecordEnters ==
    ASSUME IInv, NEW r \in Req, NEW role, NEW c, NEW k,
           \/ Intent(r, role, c, "increase") \/ Intent(r, role, c, "decrease")
           \/ Create(r, role, c) \/ Purge(r, k) \/ Remove(r, k) \/ Restore(r, k)
           \/ Update(r, k, c)
    PROVE  Enters(r)
<1>1. \E o : Start(r, o) /\ Startable(o)
  <2>1. CASE Intent(r, role, c, "increase") \/ Intent(r, role, c, "decrease")
    <3>1. \A kind : Startable([Idle EXCEPT !.pc = "intentDetail", !.kind = kind, !.role = role,
                                           !.c = c])
      BY DEF Startable, Idle, Plain
    <3> QED BY <2>1, <3>1 DEF Intent
  <2>2. CASE Create(r, role, c)
    <3>1. Startable([Idle EXCEPT !.pc = "insert", !.kind = "create", !.role = role, !.c = c])
      BY DEF Startable, Idle, Plain
    <3> QED BY <2>2, <3>1 DEF Create
  <2>3. CASE Purge(r, k)
    <3>1. Startable([Idle EXCEPT !.pc = "delete", !.kind = "purge", !.k = k])
      BY DEF Startable, Idle, Plain
    <3> QED BY <2>3, <3>1 DEF Purge
  <2>4. CASE Remove(r, k)
    <3>1. Startable([Idle EXCEPT !.pc = "trash", !.k = k])
      BY DEF Startable, Idle, Plain
    <3> QED BY <2>4, <3>1 DEF Remove
  <2>5. CASE Restore(r, k)
    <3>1. Startable([Idle EXCEPT !.pc = "checkLocked", !.kind = "restore", !.k = k,
                                 !.crits = {rec[k].crit}])
      BY DEF Startable, Idle, Plain
    <3> QED BY <2>5, <3>1 DEF Restore
  <2>6. CASE Update(r, k, c)
    <3>1. Startable([Idle EXCEPT !.pc = "checkLocked", !.kind = "update", !.k = k, !.c = c,
                                 !.crits = {rec[k].crit}])
      BY DEF Startable, Idle, Plain
    <3> QED BY <2>6, <3>1 DEF Update
  <2> QED BY <2>1, <2>2, <2>3, <2>4, <2>5, <2>6
<1> QED BY <1>1, StartEnters

LEMMA SummaryEnters ==
    ASSUME IInv, NEW r \in Req, NEW role, NEW c, NEW v, NEW sent, NEW form,
           View(r) \/ Edit(r, sent, form) \/ Review(r, role, c, v) \/ Approve(r) \/ Cancel(r)
    PROVE  Enters(r)
<1>1. \E o : Start(r, o) /\ Startable(o)
  <2>1. CASE View(r)
    <3>1. Startable(ToSync(Idle, Criterion, 0, "end"))
      BY DEF Startable, ToSync, Idle, Plain
    <3> QED BY <2>1, <3>1 DEF View
  <2>2. CASE Edit(r, sent, form)
    <3>1. Startable([Idle EXCEPT !.pc = "checkLocked", !.kind = "edit", !.sent = sent,
                                 !.copy = form])
      BY DEF Startable, Idle, Plain
    <3> QED BY <2>2, <3>1 DEF Edit
  <2>3. CASE Review(r, role, c, v)
    <3>1. Startable([Idle EXCEPT !.pc = "review", !.role = role, !.c = c, !.v = v, !.copy = sum])
      BY DEF Startable, Idle, Plain
    <3> QED BY <2>3, <3>1 DEF Review
  <2>4. CASE Approve(r)
    <3>1. /\ Startable([Idle EXCEPT !.pc = "approveRead"])
          /\ Startable(ToSync([Idle EXCEPT !.pc = "approveRead"], Criterion, 0, "approveRead"))
      BY DEF Startable, ToSync, Idle, Plain
    <3> QED BY <2>4, <3>1 DEF Approve
  <2>5. CASE Cancel(r)
    <3>1. Startable([Idle EXCEPT !.pc = "cancelSave", !.copy = sum])
      BY DEF Startable, Idle, Plain
    <3> QED BY <2>5, <3>1 DEF Cancel
  <2> QED BY <2>1, <2>2, <2>3, <2>4, <2>5
<1> QED BY <1>1, StartEnters

LEMMA LoneStep == ASSUME IInv, LInv, [Next]_vars PROVE LInv'
<1>1. CASE UNCHANGED vars
  BY <1>1, SameActive DEF vars, LInv, Lone, Healed, AllLocked
<1>2. ASSUME NEW r \in Req, Record(r) PROVE Moves(r) \/ Enters(r)
  BY <1>2, RecordMoves, RecordEnters DEF Record
<1>3. ASSUME NEW r \in Req, Summary(r) PROVE Moves(r) \/ Enters(r)
  <2>1. CASE \/ EditWrite(r) \/ ReviewWrite(r) \/ ApproveRecords(r) \/ ApproveSave(r)
             \/ RankRead(r) \/ RankSave(r) \/ CancelSave(r)
    BY <2>1, WriteMoves, ApproveRecordsMoves, ApproveSaveMoves, RankReadMoves, CancelSaveMoves
  <2>2. CASE ApproveRead(r)
    BY <2>2, ReadMoves DEF ApproveRead, At
  <2> QED BY <1>3, <2>1, <2>2, SummaryEnters DEF Summary
<1>4. ASSUME NEW r \in Req, Sync(r) PROVE Moves(r) \/ Enters(r)
  <2>1. CASE RecomputeRead(r)
    BY <2>1, ReadMoves DEF RecomputeRead, At
  <2> QED BY <1>4, <2>1, SyncRecordsMoves, SyncSummaryMoves, SyncSaveMoves, RecomputeSaveMoves
          DEF Sync
<1> QED BY <1>1, <1>2, <1>3, <1>4, MovesKeep DEF Next

LEMMA LoneInvariance == Spec => [](IInv /\ LInv)
<1>1. Init => LInv
  BY DEF Init, LInv, Idle
<1>2. IInv /\ LInv /\ [Next]_vars => LInv'
  BY LoneStep
<1> QED BY <1>1, <1>2, Invariance, PTL DEF Spec

(* Who has read a copy for the totals, or for the rank, only writes them.   *)
LEMMA WritesOnly ==
    ASSUME NEW r \in Req, Record(r) \/ Summary(r) \/ Sync(r)
    PROVE  /\ At(r, "recSave") => RecomputeSave(r)
           /\ At(r, "rankSave") => RankSave(r)
<1>1. At(r, "recSave") \/ At(r, "rankSave") => \A o : ~Start(r, o)
  BY DEF Start, At
<1>2. At(r, "recSave") \/ At(r, "rankSave") => ~Record(r)
  BY <1>1 DEF Record, At, Intent, Create, Purge, Remove, Restore, Update, IntentDetail,
              IntentCount, IntentRecords, Insert, Delete, CheckLocked, RecordWrite
<1>3. At(r, "recSave") \/ At(r, "rankSave") => (Summary(r) => RankSave(r))
  BY <1>1 DEF Summary, At, Edit, Review, View, EditWrite, ReviewWrite, Approve, ApproveRead,
              ApproveRecords, ApproveSave, RankRead, Cancel, CancelSave
<1>4. At(r, "recSave") \/ At(r, "rankSave") => (Sync(r) => RecomputeSave(r))
  BY DEF Sync, At, SyncRecords, SyncSummary, SyncSave, SyncConflict, RecomputeRead
<1>5. RankSave(r) => ~At(r, "recSave")
  BY DEF RankSave, At
<1>6. RecomputeSave(r) => ~At(r, "rankSave")
  BY DEF RecomputeSave, At
<1> QED BY <1>2, <1>3, <1>4, <1>5, <1>6

(* Whatever races left behind, a request that runs alone leaves each        *)
(* criterion that it synchronised with the count of its active records, and *)
(* the total with what the details add up to.                               *)
THEOREM HealsTheorem == Spec => LoneRequestHeals
<1> DEFINE A == \A r \in Req :
                  At(r, "recSave") /\ op'[r] = Idle /\ op[r].alone /\ sum.status # "locked" =>
                    /\ \A c \in op[r].crits : sum'.det[c].count = Cardinality(Active(c))
                    /\ sum'.total = Total(sum') /\ sum'.grade = "unranked"
<1>1. IInv /\ LInv /\ [Next]_vars => [A]_vars
  <2> SUFFICES ASSUME IInv, LInv, Next, NEW r \in Req, At(r, "recSave"), op'[r] = Idle,
                      op[r].alone, sum.status # "locked"
               PROVE  /\ \A c \in op[r].crits : sum'.det[c].count = Cardinality(Active(c))
                      /\ sum'.total = Total(sum') /\ sum'.grade = "unranked"
    BY DEF A
  <2>1. PICK q \in Req : Step(q) /\ (Record(q) \/ Summary(q) \/ Sync(q))
    BY NextStep
  <2>2. q = r
    BY <2>1 DEF Step, At, Idle
  <2>3. RecomputeSave(r)
    BY <2>1, <2>2, WritesOnly
  <2>4. op[r].copy = sum /\ \A c \in op[r].crits : Healed(c)
    BY DEF LInv, Lone, AllLocked, At
  <2>5. /\ sum'.det = sum.det /\ sum'.status = sum.status
        /\ sum'.total = Total(sum') /\ sum'.grade = Grade(sum')
    BY <2>3, <2>4, RecomputedTotals
  <2> QED BY <2>4, <2>5 DEF Healed, Grade
<1>2. LoneRequestHeals <=> [][A]_vars
  BY DEF LoneRequestHeals
<1> QED BY <1>1, <1>2, LoneInvariance, PTL DEF Spec

(* An approval that runs alone ends with a summary in which total, grade    *)
(* and rank are those of the details, and every detail is locked.           *)
THEOREM ApprovalTheorem == Spec => LoneApprovalAgrees
<1> DEFINE A == \A r \in Req :
                  At(r, "rankSave") /\ op'[r] = Idle /\ op[r].alone =>
                    /\ sum'.total = Total(sum') /\ sum'.grade = sum'.rank
                    /\ \A c \in Criterion : sum'.det[c] # None => sum'.det[c].lck
<1>1. IInv /\ LInv /\ [Next]_vars => [A]_vars
  <2> SUFFICES ASSUME IInv, LInv, Next, NEW r \in Req, At(r, "rankSave"), op'[r] = Idle,
                      op[r].alone
               PROVE  /\ sum'.total = Total(sum') /\ sum'.grade = sum'.rank
                      /\ \A c \in Criterion : sum'.det[c] # None => sum'.det[c].lck
    BY DEF A
  <2>1. PICK q \in Req : Step(q) /\ (Record(q) \/ Summary(q) \/ Sync(q))
    BY NextStep
  <2>2. q = r
    BY <2>1 DEF Step, At, Idle
  <2>3. RankSave(r)
    BY <2>1, <2>2, WritesOnly
  <2>4. op[r].copy = sum /\ AllLocked /\ sum.total = Total(sum) /\ sum.grade = Grade(sum)
    BY DEF LInv, Lone, At
  <2> DEFINE rank == IF op[r].copy.rank = Tier(op[r].copy.total) THEN sum.rank
                     ELSE Tier(op[r].copy.total)
  <2>5. rank = Tier(sum.total) /\ sum \in Document
    BY <2>4 DEF IInv, TypeOK
  <2>6. sum' = [sum EXCEPT !.rank = rank]
    BY <2>3 DEF RankSave
  <2> HIDE DEF rank
  <2>7. /\ sum'.det = sum.det /\ sum'.status = sum.status /\ sum'.total = sum.total
        /\ sum'.grade = sum.grade /\ sum'.rank = rank
    BY <2>5, <2>6 DEF Document
  <2>8. Total(sum') = Total(sum)
    BY <2>7, SameTotal
  <2>9. sum.grade = Tier(sum.total)
    <3>1. Total(sum) # None
      BY TotalType, ConstantsAssumption
    <3> QED BY <2>4, <3>1 DEF Grade, Tier, AllLocked
  <2> QED BY <2>4, <2>5, <2>7, <2>8, <2>9 DEF AllLocked
<1>2. LoneApprovalAgrees <=> [][A]_vars
  BY DEF LoneApprovalAgrees
<1> QED BY <1>1, <1>2, LoneInvariance, PTL DEF Spec
=============================================================================
