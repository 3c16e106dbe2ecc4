------------------------ MODULE TimetableSyncProofs ------------------------
(***************************************************************************)
(* Theorems about TimetableSync, for every set of keys, processes and ids, *)
(* every limit and any number of faults.                                   *)
(***************************************************************************)
EXTENDS TimetableSync, SequenceTheorems, FiniteSetTheorems, TLAPS

-----------------------------------------------------------------------------
(* The sequences an update of the queue builds *)

QItem == Item \cup {NullItem}

(* $pull leaves a sequence of the same elements. *)
LEMMA WithoutType ==
    ASSUME NEW S, NEW q \in Seq(S), NEW k
    PROVE  Without(q, k) \in Seq(S)
<1>1. CASE \E i \in DOMAIN q : q[i].key = k
  <2> DEFINE i == CHOOSE j \in DOMAIN q : q[j].key = k
  <2>1. i \in 1..Len(q)
    BY <1>1, LenProperties
  <2>2. SubSeq(q, 1, i - 1) \in Seq(S)
    <3>1. \A j \in 1..(i - 1) : q[j] \in S
      BY <2>1, LenProperties
    <3> QED BY <2>1, <3>1, SubSeqProperties
  <2>3. SubSeq(q, i + 1, Len(q)) \in Seq(S)
    <3>1. \A j \in (i + 1)..Len(q) : q[j] \in S
      BY <2>1, LenProperties
    <3> QED BY <2>1, <3>1, SubSeqProperties, LenProperties
  <2> QED BY <1>1, <2>2, <2>3, ConcatProperties DEF Without
<1>2. CASE ~ \E i \in DOMAIN q : q[i].key = k
  BY <1>2 DEF Without
<1> QED BY <1>1, <1>2

(* Cutting a sequence at a limit. *)
LEMMA CutType ==
    ASSUME NEW S, NEW q \in Seq(S), NEW n \in Nat, n < Len(q)
    PROVE  SubSeq(q, 1, n) \in Seq(S)
<1>1. \A j \in 1..n : q[j] \in S
  BY LenProperties
<1> QED BY <1>1, SubSeqProperties

(* Putting one element in front. *)
LEMMA PrependType ==
    ASSUME NEW S, NEW q \in Seq(S), NEW e \in S
    PROVE  <<e>> \o q \in Seq(S)
<1>1. <<e>> \in Seq(S)
  OBVIOUS
<1> QED BY <1>1, ConcatProperties

(* The items that enqueue appends. *)
LEMMA AppendedType ==
    ASSUME NEW T \in SUBSET Key, NEW order \in SetToSeqs(T),
           NEW kind \in {"demand", "scheduled"}
    PROVE  [i \in DOMAIN order |-> [key |-> order[i], kind |-> kind]] \in Seq(QItem)
<1>1. Cardinality(T) \in Nat
  BY ConstantsAssumption, FS_Subset, FS_CardinalityType
<1>2. order \in [1..Cardinality(T) -> T]
  BY DEF SetToSeqs
<1>3. [i \in 1..Cardinality(T) |-> [key |-> order[i], kind |-> kind]]
        \in [1..Cardinality(T) -> QItem]
  BY <1>2 DEF QItem, Item
<1> QED BY <1>1, <1>2, <1>3

-----------------------------------------------------------------------------
(* Type correctness *)

LEMMA IdleTypes ==
    /\ NoLease \in LeaseState
    /\ IdleDrain \in DrainState
    /\ IdleBulk \in BulkState
    /\ IdleReq \in ReqState
BY DEF NoLease, IdleDrain, IdleBulk, IdleReq, LeaseState, DrainState, BulkState, ReqState

(* recoverInterrupted keeps the types of what it writes. *)
LEMMA RecoverType ==
    ASSUME TypeOK, RecoverUpdate
    PROVE  queue' \in Seq(QItem) /\ job' \in JobState /\ lease' \in LeaseState
<1>0. queue \in Seq(QItem) /\ job \in JobState /\ lease \in LeaseState
  BY DEF TypeOK, QItem
<1>1. CASE Interrupted
  <2>1. NullItem \in QItem /\ (job.selection # NoItem => job.selection \in QItem)
    BY <1>0 DEF QItem, JobState
  <2>2. queue' \in Seq(QItem)
    BY <1>0, <1>1, <2>1, PrependType DEF RecoverUpdate
  <2>3. job' \in JobState
    BY <1>0, <1>1 DEF RecoverUpdate, JobState
  <2>4. lease' \in LeaseState
    <3>1. lease' = NoLease
      BY <1>1 DEF RecoverUpdate
    <3> QED BY <3>1, IdleTypes
  <2> QED BY <2>2, <2>3, <2>4
<1>2. CASE ~Interrupted
  BY <1>0, <1>2 DEF RecoverUpdate
<1> QED BY <1>1, <1>2

LEMMA StartedDrainType ==
    ASSUME NEW d \in DrainState
    PROVE  StartedDrain(d) \in DrainState
<1>1. \A n \in Int : [[IdleDrain EXCEPT !.pc = "read"] EXCEPT !.left = n] \in DrainState
  BY IdleTypes DEF DrainState
<1>2. QueueLimit \in Int
  BY ConstantsAssumption
<1> QED BY <1>1, <1>2 DEF StartedDrain

LEMMA NextRoundType ==
    ASSUME NEW d \in DrainState
    PROVE  NextRound(d) \in DrainState
<1>1. \A n \in Int : [[IdleDrain EXCEPT !.pc = "read"] EXCEPT !.left = n] \in DrainState
  BY IdleTypes DEF DrainState
<1>2. d.left - 1 \in Int
  BY DEF DrainState
<1> QED BY <1>1, <1>2 DEF NextRound

LEMMA InitType == Init => TypeOK
<1> SUFFICES ASSUME Init PROVE TypeOK
  OBVIOUS
<1>1. queue \in Seq(Item \cup {NullItem})
  BY DEF Init
<1>2. job \in JobState /\ lease \in LeaseState
  BY DEF Init, JobState, LeaseState, NoLease
<1> QED BY <1>1, <1>2, IdleTypes DEF Init, TypeOK

(* The steps of the drain loop. *)
LEMMA ClaimReadType ==
    ASSUME TypeOK, NEW p \in Proc, ClaimRead(p)
    PROVE  TypeOK'
<1>1. drain[p] \in DrainState
  BY DEF TypeOK
<1>2. ASSUME NEW i \in DOMAIN queue, Picks(Wanted, i), ~ScanThrows(Wanted)
      PROVE  queue[i] \in Item
  <2>1. queue[i] \in Item \cup {NullItem}
    BY <1>2 DEF TypeOK
  <2>2. CASE Matches(Wanted) = {}
    BY <1>2, <2>1, <2>2 DEF ScanThrows
  <2>3. CASE Matches(Wanted) # {}
    BY <1>2, <2>1, <2>3 DEF Picks, Matches, Wanted, NullItem
  <2> QED BY <2>2, <2>3
<1>3. drain' \in [Proc -> DrainState]
  <2>1. [IdleDrain EXCEPT !.pc = "done"] \in DrainState
        /\ [IdleDrain EXCEPT !.pc = "thrown"] \in DrainState
    BY IdleTypes DEF DrainState
  <2>2. \A e \in Item : [[drain[p] EXCEPT !.pc = "claim"] EXCEPT !.item = e] \in DrainState
    BY <1>1 DEF DrainState
  <2>3. CASE drain' = [drain EXCEPT ![p] = [IdleDrain EXCEPT !.pc = "done"]]
    BY <2>1, <2>3 DEF TypeOK
  <2>4. CASE drain' = [drain EXCEPT ![p] = [IdleDrain EXCEPT !.pc = "thrown"]]
    BY <2>1, <2>4 DEF TypeOK
  <2>5. ASSUME NEW i \in DOMAIN queue, Picks(Wanted, i), ~ScanThrows(Wanted),
               drain' = [drain EXCEPT ![p].pc = "claim", ![p].item = queue[i]]
        PROVE  drain' \in [Proc -> DrainState]
    <3>1. queue[i] \in Item
      BY <1>2, <2>5
    <3>2. drain' = [drain EXCEPT ![p] =
                      [[drain[p] EXCEPT !.pc = "claim"] EXCEPT !.item = queue[i]]]
      BY <2>5 DEF TypeOK
    <3> HIDE <2>5
    <3> QED BY <2>2, <3>1, <3>2 DEF TypeOK
  <2> QED BY <2>3, <2>4, <2>5 DEF ClaimRead
<1> QED BY <1>3 DEF ClaimRead, TypeOK, shared

LEMMA ClaimWriteType ==
    ASSUME TypeOK, NEW p \in Proc, ClaimWrite(p)
    PROVE  TypeOK'
<1> DEFINE it == drain[p].item
<1>1. drain[p] \in DrainState
  BY DEF TypeOK
<1>2. CASE it.key \in QueueKeys /\ LeaseFree
  <2>1. PICK id \in FreshIds :
          /\ queue' = Without(queue, it.key)
          /\ job' = [id |-> id, status |-> "running", selection |-> it, coverage |-> {},
                     completed |-> 0]
          /\ lease' = [owner |-> id, live |-> TRUE]
          /\ drain' = [drain EXCEPT ![p].pc = "fetch", ![p].id = id]
    BY <1>2 DEF ClaimWrite
  <2>2. id \in JobId
    BY DEF FreshIds
  <2>3. queue' \in Seq(Item \cup {NullItem})
    BY <2>1, WithoutType DEF TypeOK
  <2>4. job' \in JobState /\ lease' \in LeaseState
    BY <1>1, <2>1, <2>2 DEF JobState, LeaseState, DrainState
  <2>5. drain' \in [Proc -> DrainState]
    <3>1. [[drain[p] EXCEPT !.pc = "fetch"] EXCEPT !.id = id] \in DrainState
      BY <1>1, <2>2 DEF DrainState, ClaimWrite
    <3>2. drain' = [drain EXCEPT ![p] = [[drain[p] EXCEPT !.pc = "fetch"] EXCEPT !.id = id]]
      BY <2>1 DEF TypeOK
    <3> QED BY <3>1, <3>2 DEF TypeOK
  <2> QED BY <2>3, <2>4, <2>5 DEF ClaimWrite, TypeOK
<1>3. CASE ~(it.key \in QueueKeys /\ LeaseFree)
  <2>1. [IdleDrain EXCEPT !.pc = "done"] \in DrainState
    BY IdleTypes DEF DrainState
  <2> QED BY <1>3, <2>1 DEF ClaimWrite, TypeOK
<1> QED BY <1>2, <1>3

(* Replacing the record of one process keeps the type of the function. *)
LEMMA DrainUpdateType ==
    ASSUME TypeOK, NEW p \in Proc, NEW d \in DrainState, drain' = [drain EXCEPT ![p] = d]
    PROVE  drain' \in [Proc -> DrainState]
BY DEF TypeOK

LEMMA BulkUpdateType ==
    ASSUME TypeOK, NEW p \in Proc, NEW b \in BulkState, bulk' = [bulk EXCEPT ![p] = b]
    PROVE  bulk' \in [Proc -> BulkState]
BY DEF TypeOK

LEMMA DrainEndType ==
    ASSUME TypeOK, NEW p \in Proc, DrainEnd(p)
    PROVE  TypeOK'
<1>1. drain' \in [Proc -> DrainState]
  BY IdleTypes, DrainUpdateType DEF DrainEnd
<1>2. bulk' \in [Proc -> BulkState]
  <2>1. bulk[p] \in BulkState
    BY DEF TypeOK
  <2>2. [bulk[p] EXCEPT !.pc = "claim"] \in BulkState
    BY <2>1 DEF BulkState
  <2> QED BY <2>1, <2>2, IdleTypes, BulkUpdateType DEF DrainEnd
<1>3. cron' \in [Proc -> {"idle", "waiting", "ready"}]
  BY DEF DrainEnd, TypeOK
<1> QED BY <1>1, <1>2, <1>3 DEF DrainEnd, TypeOK, shared

LEMMA FetchDoneType ==
    ASSUME TypeOK, NEW p \in Proc, FetchDone(p)
    PROVE  TypeOK'
<1>1. drain[p] \in DrainState /\ clock \in Nat
  BY DEF TypeOK
<1>2. [[drain[p] EXCEPT !.pc = "publish"] EXCEPT !.at = clock] \in DrainState
      /\ [drain[p] EXCEPT !.pc = "fail"] \in DrainState
  BY <1>1 DEF DrainState, FetchDone
<1>3. \/ drain' = [drain EXCEPT ![p] = [[drain[p] EXCEPT !.pc = "publish"] EXCEPT !.at = clock]]
      \/ drain' = [drain EXCEPT ![p] = [drain[p] EXCEPT !.pc = "fail"]]
  BY DEF FetchDone, TypeOK
<1>4. drain' \in [Proc -> DrainState]
  BY <1>2, <1>3, DrainUpdateType
<1> QED BY <1>4 DEF FetchDone, TypeOK, shared

(* Both outcomes of the publishing transaction, and its refusal. *)
LEMMA PublishType ==
    ASSUME TypeOK, NEW p \in Proc,
           Publish(p) \/ PublishUnfinished(p) \/ PublishRefused(p)
    PROVE  TypeOK'
<1>1. drain[p] \in DrainState /\ job \in JobState /\ lease \in LeaseState
  BY DEF TypeOK
<1>2. NextRound(drain[p]) \in DrainState
      /\ [drain[p] EXCEPT !.pc = "requeue"] \in DrainState
      /\ [drain[p] EXCEPT !.pc = "fail"] \in DrainState
  <2>1. drain[p].pc = "publish"
    BY DEF Publish, PublishUnfinished, PublishRefused
  <2> QED BY <1>1, <2>1, NextRoundType DEF DrainState
<1>3. drain[p].at \in Nat /\ drain[p].item.key \in Key
  BY <1>1 DEF DrainState, Item, Publish, PublishUnfinished, PublishRefused
<1>4. CASE Publish(p)
  <2>1. drain' \in [Proc -> DrainState]
    BY <1>2, <1>4, DrainUpdateType DEF Publish
  <2>2. snapshot' \in [Key -> Nat]
    BY <1>3, <1>4 DEF Publish, TypeOK
  <2>3. job' \in JobState
    <3>1. [[job EXCEPT !.status = "succeeded"] EXCEPT !.completed = 1] \in JobState
      BY <1>1 DEF JobState
    <3> QED BY <1>4, <3>1 DEF Publish
  <2>4. status' \in [Key -> {"none", "pending", "valid", "failed"}] /\ streak' \in Nat
    <3>1. status' = [status EXCEPT ![drain[p].item.key] = "valid"]
          /\ streak' = PushStreak(drain[p].item.kind)
      BY <1>4 DEF Publish
    <3>2. \A kind : PushStreak(kind) \in Nat
      BY DEF PushStreak, TypeOK
    <3> QED BY <1>3, <3>1, <3>2 DEF TypeOK
  <2> QED BY <1>4, <2>1, <2>2, <2>3, <2>4, IdleTypes DEF Publish, TypeOK
<1>5. CASE PublishUnfinished(p)
  <2>1. drain' \in [Proc -> DrainState]
    BY <1>2, <1>5, DrainUpdateType DEF PublishUnfinished
  <2>2. snapshot' \in [Key -> Nat] /\ faults' \in Nat
    <3>1. snapshot' = [snapshot EXCEPT ![drain[p].item.key] = drain[p].at]
          /\ faults' = faults + 1
      BY <1>5 DEF PublishUnfinished
    <3> QED BY <1>3, <3>1 DEF TypeOK
  <2>3. job' \in JobState /\ lease' \in LeaseState
    BY <1>1, <1>5 DEF PublishUnfinished, JobState, LeaseState
  <2> QED BY <1>5, <2>1, <2>2, <2>3 DEF PublishUnfinished, TypeOK
<1>6. CASE PublishRefused(p)
  <2>1. \/ drain' = [drain EXCEPT ![p] = [drain[p] EXCEPT !.pc = "requeue"]]
        \/ drain' = [drain EXCEPT ![p] = [drain[p] EXCEPT !.pc = "fail"]]
    BY <1>6 DEF PublishRefused, TypeOK
  <2>2. drain' \in [Proc -> DrainState]
    BY <1>2, <2>1, DrainUpdateType
  <2> QED BY <1>6, <2>2 DEF PublishRefused, TypeOK, shared
<1> QED BY <1>4, <1>5, <1>6

LEMMA RequeueLeaseLostType ==
    ASSUME TypeOK, NEW p \in Proc, RequeueLeaseLost(p)
    PROVE  TypeOK'
<1> DEFINE it == drain[p].item
<1>1. drain[p] \in DrainState /\ job \in JobState /\ queue \in Seq(QItem)
  BY DEF TypeOK, QItem
<1>2. drain' \in [Proc -> DrainState]
  BY <1>1, NextRoundType, DrainUpdateType DEF RequeueLeaseLost
<1>3. CASE Holds(drain[p].id)
  <2> DEFINE q == IF it.key \in QueueKeys THEN queue ELSE <<it>> \o queue
  <2>1. it \in Item
    BY <1>1 DEF RequeueLeaseLost, DrainState
  <2>2. q \in Seq(QItem)
    BY <1>1, <2>1, PrependType DEF QItem
  <2>3. queue' = IF Len(q) <= QueueLimit THEN q ELSE SubSeq(q, 1, QueueLimit)
    BY <1>3 DEF RequeueLeaseLost
  <2>4. Len(q) \in Nat /\ QueueLimit \in Nat
    BY <2>2, LenProperties, ConstantsAssumption
  <2>5. queue' \in Seq(QItem)
    <3> HIDE DEF q
    <3> QED BY <2>2, <2>3, <2>4, CutType
  <2>6. job' \in JobState /\ lease' \in LeaseState
    BY <1>1, <1>3, IdleTypes DEF RequeueLeaseLost, JobState
  <2> QED BY <1>2, <1>3, <2>5, <2>6 DEF RequeueLeaseLost, TypeOK, QItem
<1>4. CASE ~Holds(drain[p].id)
  BY <1>2, <1>4 DEF RequeueLeaseLost, TypeOK
<1> QED BY <1>3, <1>4

LEMMA FailQueuedType ==
    ASSUME TypeOK, NEW p \in Proc, FailQueued(p)
    PROVE  TypeOK'
<1>1. drain[p] \in DrainState /\ job \in JobState
  BY DEF TypeOK
<1>2. drain' \in [Proc -> DrainState]
  BY <1>1, NextRoundType, DrainUpdateType DEF FailQueued
<1>3. CASE Holds(drain[p].id)
  <2>1. /\ status' = [status EXCEPT ![drain[p].item.key] = "failed"]
        /\ streak' = PushStreak(drain[p].item.kind)
        /\ job' = [job EXCEPT !.status = "failed"]
        /\ lease' = NoLease
    BY <1>3 DEF FailQueued
  <2>2. \A kind : PushStreak(kind) \in Nat
    BY DEF PushStreak, TypeOK
  <2>3. status' \in [Key -> {"none", "pending", "valid", "failed"}] /\ streak' \in Nat
    BY <2>1, <2>2 DEF TypeOK
  <2>4. job' \in JobState /\ lease' \in LeaseState
    BY <1>1, <2>1, IdleTypes DEF JobState
  <2> QED BY <1>2, <2>3, <2>4 DEF FailQueued, TypeOK
<1>4. CASE ~Holds(drain[p].id)
  BY <1>2, <1>4 DEF FailQueued, TypeOK
<1> QED BY <1>3, <1>4

LEMMA RenewalLostType ==
    ASSUME TypeOK, NEW p \in Proc, RenewalLost(p)
    PROVE  TypeOK'
<1>1. drain[p] \in DrainState /\ bulk[p] \in BulkState
  BY DEF TypeOK
<1>2. [drain[p] EXCEPT !.lost = TRUE] \in DrainState /\ [bulk[p] EXCEPT !.lost = TRUE] \in BulkState
  BY <1>1 DEF DrainState, BulkState
<1>3. \/ drain' = [drain EXCEPT ![p] = [drain[p] EXCEPT !.lost = TRUE]] /\ bulk' = bulk
      \/ bulk' = [bulk EXCEPT ![p] = [bulk[p] EXCEPT !.lost = TRUE]] /\ drain' = drain
  BY DEF RenewalLost, TypeOK
<1>4. drain' \in [Proc -> DrainState] /\ bulk' \in [Proc -> BulkState]
  BY <1>2, <1>3 DEF TypeOK
<1>5. faults' \in Nat
  BY DEF RenewalLost, TypeOK
<1> QED BY <1>4, <1>5 DEF RenewalLost, TypeOK, shared

(* Requests: the read and the write half of enqueue. *)
LEMMA EnqueueReadType ==
    ASSUME TypeOK, NEW p \in Proc, NEW keys \in SUBSET Key,
           NEW kind \in {"demand", "scheduled"}, NEW force,
           EnqueueRead(p, keys, kind, force)
    PROVE  req' \in [Proc -> ReqState]
<1>1. PICK cooling \in CoolingSets(keys, force) :
        req' = [req EXCEPT ![p] =
                  [pc |-> "write", adds |-> {k \in keys : ~Coalesced(k) /\ k \notin cooling},
                   kind |-> kind]]
  BY DEF EnqueueRead
<1> DEFINE accepted == {k \in keys : ~Coalesced(k) /\ k \notin cooling}
<1>2. accepted \in SUBSET Key
  OBVIOUS
<1> HIDE DEF accepted
<1>3. [pc |-> "write", adds |-> accepted, kind |-> kind] \in ReqState
  BY <1>2 DEF ReqState
<1> QED BY <1>1, <1>3 DEF TypeOK, accepted

LEMMA EnqueueWriteType ==
    ASSUME TypeOK, NEW p \in Proc, EnqueueWrite(p)
    PROVE  TypeOK'
<1> DEFINE new == req[p].adds \ QueueKeys
<1>1. req[p] \in ReqState /\ drain[p] \in DrainState /\ queue \in Seq(QItem)
  BY DEF TypeOK, QItem
<1>2. req' \in [Proc -> ReqState]
  BY IdleTypes DEF EnqueueWrite, TypeOK
<1>3. CASE Len(queue) + Cardinality(new) <= QueueLimit
  <2>1. PICK order \in SetToSeqs(new) :
          queue' = queue \o [i \in DOMAIN order |-> [key |-> order[i], kind |-> req[p].kind]]
    BY <1>3 DEF EnqueueWrite
  <2>2. new \in SUBSET Key /\ req[p].kind \in {"demand", "scheduled"}
    BY <1>1 DEF EnqueueWrite, ReqState
  <2>3. queue' \in Seq(QItem)
    <3> HIDE DEF new
    <3>1. [i \in DOMAIN order |-> [key |-> order[i], kind |-> req[p].kind]] \in Seq(QItem)
      BY <2>2, AppendedType
    <3> QED BY <1>1, <2>1, <3>1, ConcatProperties
  <2>4. status' \in [Key -> {"none", "pending", "valid", "failed"}]
    BY <1>3 DEF EnqueueWrite, TypeOK
  <2>5. drain' \in [Proc -> DrainState]
    BY <1>1, <1>3, StartedDrainType, DrainUpdateType DEF EnqueueWrite
  <2> QED BY <1>2, <2>3, <2>4, <2>5 DEF EnqueueWrite, TypeOK, QItem
<1>4. CASE ~(Len(queue) + Cardinality(new) <= QueueLimit)
  BY <1>2, <1>4 DEF EnqueueWrite, TypeOK
<1> QED BY <1>3, <1>4

LEMMA EnqueueType ==
    ASSUME TypeOK, NEW p \in Proc, EnqueueDemand(p) \/ EnqueueScheduled(p)
    PROVE  TypeOK'
<1>1. CASE EnqueueDemand(p)
  <2>1. PICK r \in Requests : EnqueueRead(p, r.keys, "demand", r.force)
    BY <1>1 DEF EnqueueDemand
  <2>2. r.keys \in SUBSET Key
    BY ConstantsAssumption
  <2>3. req' \in [Proc -> ReqState]
    BY <2>1, <2>2, EnqueueReadType
  <2> QED BY <1>1, <2>3 DEF EnqueueDemand, TypeOK, shared
<1>2. CASE EnqueueScheduled(p)
  <2>1. ScheduledKeys \in SUBSET Key
    BY ConstantsAssumption
  <2>2. req' \in [Proc -> ReqState]
    BY <1>2, <2>1, EnqueueReadType DEF EnqueueScheduled, TypeOK
  <2>3. cron' \in [Proc -> {"idle", "waiting", "ready"}]
    BY <1>2 DEF EnqueueScheduled, TypeOK
  <2> QED BY <1>2, <2>2, <2>3 DEF EnqueueScheduled, TypeOK, shared
<1> QED BY <1>1, <1>2

(* The three callers of recoverInterrupted. *)
LEMMA RecoveryType ==
    ASSUME TypeOK, NEW p \in Proc,
           \/ GetStatus(p) \/ Tick(p)
           \/ \E coverage \in Coverages : Start(p, coverage)
    PROVE  TypeOK'
<1>1. drain[p] \in DrainState
  BY DEF TypeOK
<1>2. CASE GetStatus(p)
  <2>1. RecoverUpdate
    BY <1>2 DEF GetStatus
  <2> QED BY <1>2, <2>1, RecoverType DEF GetStatus, TypeOK, QItem
<1>3. CASE Tick(p)
  <2>1. RecoverUpdate
    BY <1>3 DEF Tick
  <2>2. drain' \in [Proc -> DrainState]
    BY <1>1, <1>3, StartedDrainType, DrainUpdateType DEF Tick
  <2>3. cron' \in [Proc -> {"idle", "waiting", "ready"}]
    BY <1>3 DEF Tick, TypeOK
  <2> QED BY <1>3, <2>1, <2>2, <2>3, RecoverType DEF Tick, TypeOK, QItem
<1>4. ASSUME NEW coverage \in Coverages, Start(p, coverage)
      PROVE  TypeOK'
  <2>1. RecoverUpdate
    BY <1>4 DEF Start
  <2>2. drain' \in [Proc -> DrainState]
    BY <1>1, <1>4, StartedDrainType, DrainUpdateType DEF Start
  <2>3. coverage \in SUBSET Key
    BY ConstantsAssumption
  <2>4. [[IdleBulk EXCEPT !.pc = "waiting"] EXCEPT !.todo = coverage] \in BulkState
    BY <2>3, IdleTypes DEF BulkState
  <2>5. bulk' \in [Proc -> BulkState]
    BY <1>4, <2>4, BulkUpdateType DEF Start
  <2> QED BY <1>4, <2>1, <2>2, <2>5, RecoverType DEF Start, TypeOK, QItem
<1> QED BY <1>2, <1>3, <1>4

(* The steps of the bulk job. *)
LEMMA StartClaimType ==
    ASSUME TypeOK, NEW p \in Proc, StartClaim(p)
    PROVE  TypeOK'
<1>1. bulk[p] \in BulkState
  BY DEF TypeOK
<1>2. CASE job.status # "running" /\ LeaseFree
  <2>1. PICK id \in FreshIds :
          /\ job' = [id |-> id, status |-> "running", selection |-> NoItem,
                     coverage |-> bulk[p].todo, completed |-> 0]
          /\ lease' = [owner |-> id, live |-> TRUE]
          /\ bulk' = [bulk EXCEPT ![p].pc = "next", ![p].id = id]
    BY <1>2 DEF StartClaim
  <2>2. id \in JobId
    BY DEF FreshIds
  <2>3. job' \in JobState /\ lease' \in LeaseState
    BY <1>1, <2>1, <2>2 DEF JobState, LeaseState, BulkState
  <2>4. [[bulk[p] EXCEPT !.pc = "next"] EXCEPT !.id = id] \in BulkState
    BY <1>1, <2>2 DEF BulkState
  <2>5. bulk' = [bulk EXCEPT ![p] = [[bulk[p] EXCEPT !.pc = "next"] EXCEPT !.id = id]]
    BY <2>1 DEF TypeOK
  <2>6. bulk' \in [Proc -> BulkState]
    BY <2>4, <2>5, BulkUpdateType
  <2> QED BY <2>3, <2>6 DEF StartClaim, TypeOK
<1>3. CASE ~(job.status # "running" /\ LeaseFree)
  <2>1. bulk' \in [Proc -> BulkState]
    BY <1>3, IdleTypes, BulkUpdateType DEF StartClaim
  <2> QED BY <1>3, <2>1 DEF StartClaim, TypeOK
<1> QED BY <1>2, <1>3

LEMMA RunStepType ==
    ASSUME TypeOK, NEW p \in Proc,
           RunNext(p) \/ RunFetchDone(p) \/ RunPublish(p) \/ RunFailure(p) \/ RunFinish(p)
    PROVE  TypeOK'
<1>1. bulk[p] \in BulkState /\ job \in JobState /\ clock \in Nat
  BY DEF TypeOK
<1>2. \A pc \in {"finish", "publish", "fail", "next"} :
        [bulk[p] EXCEPT !.pc = pc] \in BulkState
  BY <1>1 DEF BulkState
<1>3. CASE RunNext(p)
  <2>1. \/ \E k \in bulk[p].todo : bulk' = [bulk EXCEPT ![p] =
             [[[bulk[p] EXCEPT !.pc = "fetch"] EXCEPT !.key = k] EXCEPT !.todo = bulk[p].todo \ {k}]]
        \/ bulk' = [bulk EXCEPT ![p] = IdleBulk]
        \/ bulk' = [bulk EXCEPT ![p] = [bulk[p] EXCEPT !.pc = "finish"]]
    BY <1>1, <1>3, ZenonT(60) DEF RunNext, TypeOK, BulkState
  <2>2. \A k \in bulk[p].todo :
          [[[bulk[p] EXCEPT !.pc = "fetch"] EXCEPT !.key = k] EXCEPT !.todo = bulk[p].todo \ {k}]
            \in BulkState
    BY <1>1 DEF BulkState
  <2>3. bulk' \in [Proc -> BulkState]
    BY <1>2, <2>1, <2>2, IdleTypes, BulkUpdateType
  <2> QED BY <1>3, <2>3 DEF RunNext, TypeOK, shared
<1>4. CASE RunFetchDone(p)
  <2>1. [[bulk[p] EXCEPT !.pc = "publish"] EXCEPT !.at = clock] \in BulkState
    BY <1>1 DEF BulkState
  <2>2. \/ bulk' = [bulk EXCEPT ![p] = [[bulk[p] EXCEPT !.pc = "publish"] EXCEPT !.at = clock]]
        \/ bulk' = [bulk EXCEPT ![p] = IdleBulk]
        \/ bulk' = [bulk EXCEPT ![p] = [bulk[p] EXCEPT !.pc = "fail"]]
    BY <1>4 DEF RunFetchDone, TypeOK
  <2>3. bulk' \in [Proc -> BulkState]
    BY <1>2, <2>1, <2>2, IdleTypes, BulkUpdateType
  <2> QED BY <1>4, <2>3 DEF RunFetchDone, TypeOK, shared
<1>5. CASE RunPublish(p)
  <2>1. \/ bulk' = [bulk EXCEPT ![p] = [bulk[p] EXCEPT !.pc = "next"]]
        \/ bulk' = [bulk EXCEPT ![p] = IdleBulk]
        \/ bulk' = [bulk EXCEPT ![p] = [bulk[p] EXCEPT !.pc = "fail"]]
    BY <1>5 DEF RunPublish, TypeOK
  <2>2. bulk' \in [Proc -> BulkState]
    BY <1>2, <2>1, IdleTypes, BulkUpdateType
  <2>3. bulk[p].at \in Nat
    BY <1>1 DEF BulkState
  <2>4. \/ snapshot' = [snapshot EXCEPT ![bulk[p].key] = bulk[p].at]
        \/ snapshot' = snapshot
    BY <1>5 DEF RunPublish
  <2>5. snapshot' \in [Key -> Nat]
    BY <2>3, <2>4 DEF TypeOK
  <2>6. job' = job \/ job' = [job EXCEPT !.completed = job.completed + 1]
    BY <1>1, <1>5 DEF RunPublish, JobState
  <2>7. job' \in JobState
    BY <1>1, <2>6 DEF JobState
  <2>8. faults' \in Nat
    BY <1>5 DEF RunPublish, TypeOK
  <2> QED BY <1>5, <2>2, <2>5, <2>7, <2>8 DEF RunPublish, TypeOK
<1>6. CASE RunFailure(p)
  <2>1. [[bulk[p] EXCEPT !.pc = "next"] EXCEPT !.failed = TRUE] \in BulkState
    BY <1>1 DEF BulkState
  <2>2. \/ bulk' = [bulk EXCEPT ![p] = [[bulk[p] EXCEPT !.pc = "next"] EXCEPT !.failed = TRUE]]
        \/ bulk' = [bulk EXCEPT ![p] = IdleBulk]
    BY <1>6 DEF RunFailure, TypeOK
  <2>3. bulk' \in [Proc -> BulkState]
    BY <2>1, <2>2, IdleTypes, BulkUpdateType
  <2> QED BY <1>6, <2>3 DEF RunFailure, TypeOK, shared
<1>7. CASE RunFinish(p)
  <2>1. bulk' \in [Proc -> BulkState]
    BY <1>7, IdleTypes, BulkUpdateType DEF RunFinish
  <2>2. job' \in JobState /\ lease' \in LeaseState
    <3>1. \A st \in {"failed", "succeeded"} : [job EXCEPT !.status = st] \in JobState
      BY <1>1 DEF JobState
    <3> QED BY <1>7, <3>1, IdleTypes DEF RunFinish, TypeOK
  <2> QED BY <1>7, <2>1, <2>2 DEF RunFinish, TypeOK
<1> QED BY <1>3, <1>4, <1>5, <1>6, <1>7

LEMMA EnvironmentType ==
    ASSUME TypeOK, LeaseExpires \/ TimePasses \/ \E p \in Proc : Crash(p)
    PROVE  TypeOK'
<1>1. CASE LeaseExpires
  <2>1. lease' \in LeaseState
    BY <1>1 DEF LeaseExpires, TypeOK, LeaseState
  <2> QED BY <1>1, <2>1 DEF LeaseExpires, TypeOK
<1>2. CASE TimePasses
  BY <1>2 DEF TimePasses, TypeOK, shared
<1>3. ASSUME NEW p \in Proc, Crash(p)
      PROVE  TypeOK'
  <2>1. drain' \in [Proc -> DrainState] /\ bulk' \in [Proc -> BulkState]
    BY <1>3, IdleTypes, DrainUpdateType, BulkUpdateType DEF Crash
  <2>2. req' \in [Proc -> ReqState] /\ cron' \in [Proc -> {"idle", "waiting", "ready"}]
    BY <1>3, IdleTypes DEF Crash, TypeOK
  <2> QED BY <1>3, <2>1, <2>2 DEF Crash, TypeOK, shared
<1> QED BY <1>1, <1>2, <1>3

LEMMA NextType == TypeOK /\ [Next]_vars => TypeOK'
<1> SUFFICES ASSUME TypeOK, [Next]_vars PROVE TypeOK'
  OBVIOUS
<1>1. ASSUME NEW p \in Proc, DrainStep(p) PROVE TypeOK'
  BY <1>1, ClaimReadType, ClaimWriteType, DrainEndType, FetchDoneType, PublishType,
     RequeueLeaseLostType, FailQueuedType DEF DrainStep
<1>2. ASSUME NEW p \in Proc, BulkStep(p) PROVE TypeOK'
  BY <1>2, StartClaimType, RunStepType DEF BulkStep
<1>3. CASE UNCHANGED vars
  BY <1>3 DEF vars, TypeOK
<1> QED
  BY <1>1, <1>2, <1>3, ConstantsAssumption, RenewalLostType, EnqueueWriteType, EnqueueType,
     RecoveryType, EnvironmentType DEF Next

(* Every reachable state is well typed; in particular no worker ever holds  *)
(* the null element that recoverInterrupted can leave in the queue.         *)
THEOREM TypeCorrect == Spec => []TypeOK
<1>1. Init => TypeOK
  BY InitType
<1>2. TypeOK /\ [Next]_vars => TypeOK'
  BY NextType
<1> QED BY <1>1, <1>2, PTL DEF Spec
=============================================================================
