------------------------ MODULE TimetableSyncFencing ------------------------
(***************************************************************************)
(* The lease fences the workers of TimetableSync: workers overlap only     *)
(* through faults, a result that can still be published is fresh, and so   *)
(* the synchronisation implements SnapshotFeed.                            *)
(*                                                                         *)
(* A step is one of three kinds for the workers.  A claim draws an id that *)
(* nobody holds; a publication is made by the holder of the current job,   *)
(* who then lets go; every other step keeps ids or drops them, keeps the   *)
(* snapshots, and a result is dated by the clock as it is.                 *)
(***************************************************************************)
EXTENDS TimetableSyncProofs

-----------------------------------------------------------------------------
(* The inductive invariant *)

DrainHolding == {"fetch", "publish", "requeue", "fail"}
BulkHolding == {"next", "fetch", "publish", "fail", "finish"}

(* No two loops hold one id. *)
IdsHeldOnce ==
    /\ \A p, q \in Proc : drain[p].id = drain[q].id /\ drain[p].id # NoId => p = q
    /\ \A p, q \in Proc : bulk[p].id = bulk[q].id /\ bulk[p].id # NoId => p = q
    /\ \A p, q \in Proc : drain[p].id = bulk[q].id => drain[p].id = NoId

(* A worker that has claimed has an id. *)
WorkersHaveIds ==
    /\ \A p \in Proc : drain[p].pc \in DrainHolding => drain[p].id # NoId
    /\ \A p \in Proc : bulk[p].pc \in BulkHolding => bulk[p].id # NoId

(* No answer is from the future. *)
AnswersArePast ==
    /\ \A k \in Key : snapshot[k] <= clock
    /\ \A p \in Proc : drain[p].at <= clock /\ bulk[p].at <= clock

IInv ==
    /\ TypeOK
    /\ LeaseBelongsToJob
    /\ IdsHeldOnce
    /\ WorkersHaveIds
    /\ AnswersArePast
    /\ PendingResultIsFresh
    /\ IsFiniteSet(Unleased) /\ OverlapCostsFaults

-----------------------------------------------------------------------------
(* The three kinds of step *)

(* What a step may do to a drain loop it has not claimed a job for. *)
DrainKept(d, e) ==
    /\ e.id \in {d.id, NoId}
    /\ e.pc \in DrainHolding => d.pc \in DrainHolding /\ e.id = d.id
    /\ e.pc = "publish" =>
          e.at = clock \/ (d.pc = "publish" /\ e.at = d.at /\ e.item = d.item)
    /\ e.at \in {0, clock, d.at}

BulkKept(d, e) ==
    /\ e.id \in {d.id, NoId}
    /\ e.pc \in BulkHolding => d.pc \in BulkHolding /\ e.id = d.id
    /\ e.pc = "publish" =>
          e.at = clock \/ (d.pc = "publish" /\ e.at = d.at /\ e.key = d.key)
    /\ e.at \in {0, clock, d.at}

DrainsKept == \A q \in Proc : DrainKept(drain[q], drain'[q])
BulksKept == \A q \in Proc : BulkKept(bulk[q], bulk'[q])

Keeps ==
    /\ DrainsKept /\ BulksKept
    /\ job'.id = job.id
    /\ UNCHANGED snapshot
    /\ UNCHANGED clock \/ (clock < MaxTime /\ clock' = clock + 1)

Publishes ==
    /\ DrainsKept /\ BulksKept
    /\ job'.id = job.id
    /\ UNCHANGED clock
    /\ \E p \in Proc :
         \/ /\ drain[p].pc = "publish" /\ drain[p].id = job.id
            /\ snapshot' = [snapshot EXCEPT ![drain[p].item.key] = drain[p].at]
            /\ drain'[p].pc \notin DrainHolding
         \/ /\ bulk[p].pc = "publish" /\ bulk[p].id = job.id
            /\ snapshot' = [snapshot EXCEPT ![bulk[p].key] = bulk[p].at]
            /\ bulk'[p].pc # "publish"

Claims ==
    /\ job'.id \in FreshIds
    /\ LeaseFree /\ lease' = [owner |-> job'.id, live |-> TRUE]
    /\ UNCHANGED faults
    /\ UNCHANGED <<snapshot, clock>>
    /\ \E p \in Proc :
         \/ /\ drain'[p].id = job'.id /\ drain'[p].pc = "fetch"
            /\ drain'[p].at = drain[p].at
            /\ \A q \in Proc \ {p} : drain'[q] = drain[q]
            /\ UNCHANGED bulk
         \/ /\ bulk'[p].id = job'.id /\ bulk'[p].pc = "next"
            /\ bulk'[p].at = bulk[p].at
            /\ \A q \in Proc \ {p} : bulk'[q] = bulk[q]
            /\ UNCHANGED drain

(* A loop that holds nothing. *)
Resting(d) == d.id = NoId /\ d.pc \notin DrainHolding \cup BulkHolding /\ d.at = 0

LEMMA RestingKept ==
    ASSUME NEW d, NEW e, Resting(e)
    PROVE  DrainKept(d, e) /\ BulkKept(d, e)
BY DEF Resting, DrainKept, BulkKept, DrainHolding, BulkHolding

LEMMA IdleRests ==
    /\ Resting(IdleDrain) /\ Resting(IdleBulk)
    /\ Resting([IdleDrain EXCEPT !.pc = "done"]) /\ Resting([IdleDrain EXCEPT !.pc = "thrown"])
    /\ \A d : Resting(NextRound(d))
    /\ \A d : StartedDrain(d) = d \/ Resting(StartedDrain(d))
<1>1. IdleDrain.id = NoId /\ IdleDrain.pc = "idle" /\ IdleDrain.at = 0
  BY DEF IdleDrain
<1>2. IdleBulk.id = NoId /\ IdleBulk.pc = "idle" /\ IdleBulk.at = 0
  BY DEF IdleBulk
<1>3. \A n, c : LET e == [[IdleDrain EXCEPT !.pc = c] EXCEPT !.left = n]
                IN  e.id = NoId /\ e.pc = c /\ e.at = 0
  BY <1>1, IdleTypes DEF DrainState
<1>4. \A c : LET e == [IdleDrain EXCEPT !.pc = c]
             IN  e.id = NoId /\ e.pc = c /\ e.at = 0
  BY <1>1, IdleTypes DEF DrainState
<1>5. \A d : Resting(NextRound(d))
  BY <1>3 DEF NextRound, Resting, DrainHolding, BulkHolding
<1>6. \A d : StartedDrain(d) = d \/ Resting(StartedDrain(d))
  BY <1>3 DEF StartedDrain, Resting, DrainHolding, BulkHolding
<1> QED BY <1>1, <1>2, <1>4, <1>5, <1>6 DEF Resting, DrainHolding, BulkHolding

LEMMA SelfKept == \A d : DrainKept(d, d) /\ BulkKept(d, d)
BY DEF DrainKept, BulkKept

(* One loop moves, the others stay. *)
LEMMA OneDrainMoves ==
    ASSUME TypeOK, NEW p \in Proc, NEW e, DrainKept(drain[p], e), drain' = [drain EXCEPT ![p] = e]
    PROVE  DrainsKept /\ drain'[p] = e
BY SelfKept DEF DrainsKept, TypeOK

LEMMA OneBulkMoves ==
    ASSUME TypeOK, NEW p \in Proc, NEW e, BulkKept(bulk[p], e), bulk' = [bulk EXCEPT ![p] = e]
    PROVE  BulksKept /\ bulk'[p] = e
BY SelfKept DEF BulksKept, TypeOK

LEMMA NothingMoves ==
    /\ UNCHANGED drain => DrainsKept
    /\ UNCHANGED bulk => BulksKept
BY SelfKept DEF DrainsKept, BulksKept

(* The writes of a job's outcome keep its id. *)
LEMMA JobIdKept ==
    ASSUME TypeOK
    PROVE  /\ \A s : [job EXCEPT !.status = s].id = job.id
           /\ \A n : [job EXCEPT !.completed = n].id = job.id
           /\ \A s, n : [job EXCEPT !.status = s, !.completed = n].id = job.id
           /\ RecoverUpdate => job'.id = job.id
<1>1. job \in JobState
  BY DEF TypeOK
<1>2. \A s : [job EXCEPT !.status = s].id = job.id
  BY <1>1 DEF JobState
<1> QED BY <1>1, <1>2 DEF JobState, RecoverUpdate
LEMMA ClaimReadKind ==
    ASSUME TypeOK, NEW p \in Proc, ClaimRead(p)
    PROVE  Keeps
<1>1. drain[p] \in DrainState /\ drain[p].pc = "read"
  BY DEF TypeOK, ClaimRead
<1>2. CASE \E e : Resting(e) /\ drain' = [drain EXCEPT ![p] = e]
  <2>1. DrainsKept
    BY <1>2, RestingKept, OneDrainMoves
  <2> QED BY <2>1, NothingMoves DEF ClaimRead, shared, Keeps
<1>3. CASE \E i \in DOMAIN queue :
             drain' = [drain EXCEPT ![p].pc = "claim", ![p].item = queue[i]]
  <2>1. PICK i \in DOMAIN queue :
          drain' = [drain EXCEPT ![p] = [[drain[p] EXCEPT !.pc = "claim"] EXCEPT !.item = queue[i]]]
    BY <1>3 DEF TypeOK
  <2> DEFINE e == [[drain[p] EXCEPT !.pc = "claim"] EXCEPT !.item = queue[i]]
  <2>2. e.id = drain[p].id /\ e.pc = "claim" /\ e.at = drain[p].at
    BY <1>1 DEF DrainState
  <2>3. DrainKept(drain[p], e)
    BY <2>2 DEF DrainKept, DrainHolding
  <2> HIDE DEF e
  <2>4. DrainsKept
    BY <2>1, <2>3, OneDrainMoves DEF e
  <2> QED BY <2>4, NothingMoves DEF ClaimRead, shared, Keeps
<1>4. \/ drain' = [drain EXCEPT ![p] = [IdleDrain EXCEPT !.pc = "done"]]
      \/ drain' = [drain EXCEPT ![p] = [IdleDrain EXCEPT !.pc = "thrown"]]
      \/ \E i \in DOMAIN queue :
             drain' = [drain EXCEPT ![p].pc = "claim", ![p].item = queue[i]]
  BY DEF ClaimRead
<1> QED BY <1>2, <1>3, <1>4, IdleRests

LEMMA ClaimWriteKind ==
    ASSUME TypeOK, NEW p \in Proc, ClaimWrite(p)
    PROVE  Keeps \/ Claims
<1>1. drain[p] \in DrainState
  BY DEF TypeOK
<1>2. CASE drain[p].item.key \in QueueKeys /\ LeaseFree
  <2>1. PICK id \in FreshIds :
          /\ job' = [id |-> id, status |-> "running", selection |-> drain[p].item,
                     coverage |-> {}, completed |-> 0]
          /\ lease' = [owner |-> id, live |-> TRUE]
          /\ drain' = [drain EXCEPT ![p].pc = "fetch", ![p].id = id]
    BY <1>2 DEF ClaimWrite
  <2>2. job'.id = id
    BY <2>1
  <2>3. drain' = [drain EXCEPT ![p] = [[drain[p] EXCEPT !.pc = "fetch"] EXCEPT !.id = id]]
    BY <2>1 DEF TypeOK
  <2> DEFINE e == [[drain[p] EXCEPT !.pc = "fetch"] EXCEPT !.id = id]
  <2>4. e.id = id /\ e.pc = "fetch" /\ e.at = drain[p].at
    BY <1>1 DEF DrainState
  <2> HIDE DEF e
  <2>5. drain'[p] = e /\ \A q \in Proc \ {p} : drain'[q] = drain[q]
    BY <2>3 DEF e, TypeOK
  <2> QED BY <1>2, <2>1, <2>2, <2>4, <2>5 DEF ClaimWrite, Claims
<1>3. CASE ~(drain[p].item.key \in QueueKeys /\ LeaseFree)
  <2>1. drain' = [drain EXCEPT ![p] = [IdleDrain EXCEPT !.pc = "done"]]
    BY <1>3 DEF ClaimWrite
  <2>2. DrainsKept
    BY <2>1, RestingKept, IdleRests, OneDrainMoves
  <2> QED BY <1>3, <2>2, NothingMoves DEF ClaimWrite, Keeps
<1> QED BY <1>2, <1>3

LEMMA DrainEndKind ==
    ASSUME TypeOK, NEW p \in Proc, DrainEnd(p)
    PROVE  Keeps
<1>1. bulk[p] \in BulkState
  BY DEF TypeOK
<1>2. DrainsKept
  BY RestingKept, IdleRests, OneDrainMoves DEF DrainEnd
<1>3. BulkKept(bulk[p], bulk[p]) /\ BulkKept(bulk[p], IdleBulk)
  BY SelfKept, RestingKept, IdleRests
<1>4. bulk[p].pc = "waiting" => BulkKept(bulk[p], [bulk[p] EXCEPT !.pc = "claim"])
  BY <1>1 DEF BulkKept, BulkHolding, BulkState
<1>5. \/ bulk' = [bulk EXCEPT ![p] = bulk[p]] \/ bulk' = [bulk EXCEPT ![p] = IdleBulk]
      \/ /\ bulk[p].pc = "waiting"
         /\ bulk' = [bulk EXCEPT ![p] = [bulk[p] EXCEPT !.pc = "claim"]]
  BY DEF DrainEnd
<1>6. BulksKept
  BY <1>3, <1>4, <1>5, OneBulkMoves
<1> QED BY <1>2, <1>6 DEF DrainEnd, shared, Keeps

LEMMA FetchDoneKind ==
    ASSUME TypeOK, NEW p \in Proc, FetchDone(p)
    PROVE  Keeps
<1>1. drain[p] \in DrainState /\ drain[p].pc = "fetch"
  BY DEF TypeOK, FetchDone
<1>2. DrainKept(drain[p], [[drain[p] EXCEPT !.pc = "publish"] EXCEPT !.at = clock])
  BY <1>1 DEF DrainKept, DrainHolding, DrainState
<1>3. DrainKept(drain[p], [drain[p] EXCEPT !.pc = "fail"])
  BY <1>1 DEF DrainKept, DrainHolding, DrainState
<1>4. \/ drain' = [drain EXCEPT ![p] = [[drain[p] EXCEPT !.pc = "publish"] EXCEPT !.at = clock]]
      \/ drain' = [drain EXCEPT ![p] = [drain[p] EXCEPT !.pc = "fail"]]
  BY DEF FetchDone, TypeOK
<1>5. DrainsKept
  BY <1>2, <1>3, <1>4, OneDrainMoves
<1> QED BY <1>5, NothingMoves DEF FetchDone, shared, Keeps

LEMMA RenewalLostKind ==
    ASSUME TypeOK, NEW p \in Proc, RenewalLost(p)
    PROVE  Keeps
<1>1. drain[p] \in DrainState /\ bulk[p] \in BulkState
  BY DEF TypeOK
<1>2. DrainKept(drain[p], [drain[p] EXCEPT !.lost = TRUE])
  BY <1>1 DEF DrainKept, DrainHolding, DrainState
<1>3. BulkKept(bulk[p], [bulk[p] EXCEPT !.lost = TRUE])
  BY <1>1 DEF BulkKept, BulkHolding, BulkState
<1>4. \/ drain' = [drain EXCEPT ![p] = [drain[p] EXCEPT !.lost = TRUE]] /\ UNCHANGED bulk
      \/ bulk' = [bulk EXCEPT ![p] = [bulk[p] EXCEPT !.lost = TRUE]] /\ UNCHANGED drain
  BY DEF RenewalLost, TypeOK
<1>5. DrainsKept /\ BulksKept
  BY <1>2, <1>3, <1>4, OneDrainMoves, OneBulkMoves, NothingMoves
<1> QED BY <1>5 DEF RenewalLost, shared, Keeps

LEMMA PublishKind ==
    ASSUME TypeOK, NEW p \in Proc, Publish(p) \/ PublishUnfinished(p)
    PROVE  Publishes
<1>1. drain' = [drain EXCEPT ![p] = NextRound(drain[p])]
  BY DEF Publish, PublishUnfinished
<1>2. DrainsKept /\ drain'[p].pc \notin DrainHolding
  <2>1. Resting(NextRound(drain[p])) /\ DrainKept(drain[p], NextRound(drain[p]))
    BY RestingKept, IdleRests
  <2>2. DrainsKept /\ drain'[p] = NextRound(drain[p])
    BY <1>1, <2>1, OneDrainMoves
  <2> QED BY <2>1, <2>2 DEF Resting
<1>3. job' = [job EXCEPT !.status = "succeeded", !.completed = 1]
      \/ job' = [job EXCEPT !.completed = 1]
  BY DEF Publish, PublishUnfinished
<1>4. job'.id = job.id
  <2>1. CASE job' = [job EXCEPT !.status = "succeeded", !.completed = 1]
    BY <2>1, JobIdKept
  <2>2. CASE job' = [job EXCEPT !.completed = 1]
    BY <2>2, JobIdKept
  <2> QED BY <1>3, <2>1, <2>2
<1>5. /\ drain[p].pc = "publish" /\ drain[p].id = job.id
      /\ snapshot' = [snapshot EXCEPT ![drain[p].item.key] = drain[p].at]
  BY DEF Publish, PublishUnfinished, Owned
<1>6. BulksKept /\ UNCHANGED clock
  BY NothingMoves DEF Publish, PublishUnfinished
<1> QED BY <1>2, <1>4, <1>5, <1>6 DEF Publishes

LEMMA DrainFailureKind ==
    ASSUME TypeOK, NEW p \in Proc, PublishRefused(p) \/ RequeueLeaseLost(p) \/ FailQueued(p)
    PROVE  Keeps
<1>1. drain[p] \in DrainState
  BY DEF TypeOK
<1>2. CASE PublishRefused(p)
  <2>1. \A c \in {"requeue", "fail"} : DrainKept(drain[p], [drain[p] EXCEPT !.pc = c])
    BY <1>1, <1>2 DEF DrainKept, DrainHolding, DrainState, PublishRefused
  <2>2. \E c \in {"requeue", "fail"} : drain' = [drain EXCEPT ![p] = [drain[p] EXCEPT !.pc = c]]
    BY <1>2 DEF PublishRefused, TypeOK
  <2>3. DrainsKept
    BY <2>1, <2>2, OneDrainMoves
  <2> QED BY <1>2, <2>3, NothingMoves DEF PublishRefused, shared, Keeps
<1>3. CASE RequeueLeaseLost(p) \/ FailQueued(p)
  <2>1. DrainsKept
    BY <1>3, RestingKept, IdleRests, OneDrainMoves DEF RequeueLeaseLost, FailQueued
  <2>2. job' = [job EXCEPT !.status = "failed"] \/ UNCHANGED job
    BY <1>3 DEF RequeueLeaseLost, FailQueued
  <2>3. job'.id = job.id
    BY <2>2, JobIdKept
  <2>4. UNCHANGED <<snapshot, clock, bulk>>
    BY <1>3 DEF RequeueLeaseLost, FailQueued
  <2> QED BY <2>1, <2>3, <2>4, NothingMoves DEF Keeps
<1> QED BY <1>2, <1>3
LEMMA StartClaimKind ==
    ASSUME TypeOK, NEW p \in Proc, StartClaim(p)
    PROVE  Keeps \/ Claims
<1>1. bulk[p] \in BulkState
  BY DEF TypeOK
<1>2. CASE job.status # "running" /\ LeaseFree
  <2>1. PICK id \in FreshIds :
          /\ job' = [id |-> id, status |-> "running", selection |-> NoItem,
                     coverage |-> bulk[p].todo, completed |-> 0]
          /\ lease' = [owner |-> id, live |-> TRUE]
          /\ bulk' = [bulk EXCEPT ![p].pc = "next", ![p].id = id]
    BY <1>2 DEF StartClaim
  <2>2. job'.id = id
    BY <2>1
  <2>3. bulk' = [bulk EXCEPT ![p] = [[bulk[p] EXCEPT !.pc = "next"] EXCEPT !.id = id]]
    BY <2>1 DEF TypeOK
  <2> DEFINE e == [[bulk[p] EXCEPT !.pc = "next"] EXCEPT !.id = id]
  <2>4. e.id = id /\ e.pc = "next" /\ e.at = bulk[p].at
    BY <1>1 DEF BulkState
  <2> HIDE DEF e
  <2>5. bulk'[p] = e /\ \A q \in Proc \ {p} : bulk'[q] = bulk[q]
    BY <2>3 DEF e, TypeOK
  <2> QED BY <1>2, <2>1, <2>2, <2>4, <2>5 DEF StartClaim, Claims
<1>3. CASE ~(job.status # "running" /\ LeaseFree)
  <2>1. bulk' = [bulk EXCEPT ![p] = IdleBulk]
    BY <1>3 DEF StartClaim
  <2>2. BulksKept
    BY <2>1, RestingKept, IdleRests, OneBulkMoves
  <2> QED BY <1>3, <2>2, NothingMoves DEF StartClaim, Keeps
<1> QED BY <1>2, <1>3

LEMMA RunPublishKind ==
    ASSUME TypeOK, NEW p \in Proc, RunPublish(p)
    PROVE  Keeps \/ Publishes
<1>1. bulk[p] \in BulkState /\ bulk[p].pc = "publish"
  BY DEF TypeOK, RunPublish
<1>2. \A c \in {"next", "fail"} :
        /\ BulkKept(bulk[p], [bulk[p] EXCEPT !.pc = c])
        /\ [bulk[p] EXCEPT !.pc = c].pc = c
  BY <1>1 DEF BulkKept, BulkHolding, BulkState
<1>3. CASE /\ ~bulk[p].lost /\ Owned(bulk[p].id)
           /\ snapshot' = [snapshot EXCEPT ![bulk[p].key] = bulk[p].at]
           /\ job' = [job EXCEPT !.completed = @ + 1]
           /\ bulk' = [bulk EXCEPT ![p].pc = "next"]
  <2>1. bulk' = [bulk EXCEPT ![p] = [bulk[p] EXCEPT !.pc = "next"]]
    BY <1>3 DEF TypeOK
  <2>2. BulksKept /\ bulk'[p].pc # "publish"
    BY <1>2, <2>1, OneBulkMoves
  <2>3. job'.id = job.id
    BY <1>3, JobIdKept
  <2>4. bulk[p].id = job.id
    BY <1>3 DEF Owned
  <2>5. UNCHANGED <<clock, drain>>
    BY DEF RunPublish
  <2> QED BY <1>1, <1>3, <2>2, <2>3, <2>4, <2>5, NothingMoves DEF Publishes
<1>4. CASE /\ UNCHANGED <<snapshot, job>>
           /\ \/ bulk' = [bulk EXCEPT ![p] = IdleBulk]
              \/ bulk' = [bulk EXCEPT ![p].pc = "fail"]
  <2>1. \/ bulk' = [bulk EXCEPT ![p] = IdleBulk]
        \/ bulk' = [bulk EXCEPT ![p] = [bulk[p] EXCEPT !.pc = "fail"]]
    BY <1>4 DEF TypeOK
  <2>2. BulkKept(bulk[p], IdleBulk)
    BY RestingKept, IdleRests
  <2>3. BulksKept
    BY <1>2, <2>1, <2>2, OneBulkMoves
  <2>4. UNCHANGED <<clock, drain>>
    BY DEF RunPublish
  <2> QED BY <1>4, <2>3, <2>4, NothingMoves DEF Keeps
<1> QED BY <1>3, <1>4 DEF RunPublish

LEMMA RunKind ==
    ASSUME TypeOK, NEW p \in Proc,
           RunNext(p) \/ RunFetchDone(p) \/ RunFailure(p) \/ RunFinish(p)
    PROVE  Keeps
<1>1. bulk[p] \in BulkState
  BY DEF TypeOK
<1>2. BulkKept(bulk[p], IdleBulk)
  BY RestingKept, IdleRests
<1>3. CASE RunNext(p)
  <2>1. \A k : BulkKept(bulk[p],
          [[[bulk[p] EXCEPT !.pc = "fetch"] EXCEPT !.key = k] EXCEPT !.todo = bulk[p].todo \ {k}])
    BY <1>1, <1>3 DEF RunNext, BulkKept, BulkHolding, BulkState
  <2>2. BulkKept(bulk[p], [bulk[p] EXCEPT !.pc = "finish"])
    BY <1>1, <1>3 DEF RunNext, BulkKept, BulkHolding, BulkState
  <2>3. \/ \E k \in bulk[p].todo : bulk' = [bulk EXCEPT ![p] =
             [[[bulk[p] EXCEPT !.pc = "fetch"] EXCEPT !.key = k] EXCEPT !.todo = bulk[p].todo \ {k}]]
        \/ bulk' = [bulk EXCEPT ![p] = IdleBulk]
        \/ bulk' = [bulk EXCEPT ![p] = [bulk[p] EXCEPT !.pc = "finish"]]
    BY <1>1, <1>3, ZenonT(60) DEF RunNext, TypeOK, BulkState
  <2>4. BulksKept
    BY <1>2, <2>1, <2>2, <2>3, OneBulkMoves
  <2> QED BY <1>3, <2>4, NothingMoves DEF RunNext, shared, Keeps
<1>4. CASE RunFetchDone(p)
  <2>1. BulkKept(bulk[p], [[bulk[p] EXCEPT !.pc = "publish"] EXCEPT !.at = clock])
    BY <1>1, <1>4 DEF RunFetchDone, BulkKept, BulkHolding, BulkState
  <2>2. BulkKept(bulk[p], [bulk[p] EXCEPT !.pc = "fail"])
    BY <1>1, <1>4 DEF RunFetchDone, BulkKept, BulkHolding, BulkState
  <2>3. \/ bulk' = [bulk EXCEPT ![p] = [[bulk[p] EXCEPT !.pc = "publish"] EXCEPT !.at = clock]]
        \/ bulk' = [bulk EXCEPT ![p] = IdleBulk]
        \/ bulk' = [bulk EXCEPT ![p] = [bulk[p] EXCEPT !.pc = "fail"]]
    BY <1>4 DEF RunFetchDone, TypeOK
  <2>4. BulksKept
    BY <1>2, <2>1, <2>2, <2>3, OneBulkMoves
  <2> QED BY <1>4, <2>4, NothingMoves DEF RunFetchDone, shared, Keeps
<1>5. CASE RunFailure(p)
  <2>1. BulkKept(bulk[p], [[bulk[p] EXCEPT !.pc = "next"] EXCEPT !.failed = TRUE])
    BY <1>1, <1>5 DEF RunFailure, BulkKept, BulkHolding, BulkState
  <2>2. \/ bulk' = [bulk EXCEPT ![p] = [[bulk[p] EXCEPT !.pc = "next"] EXCEPT !.failed = TRUE]]
        \/ bulk' = [bulk EXCEPT ![p] = IdleBulk]
    BY <1>5 DEF RunFailure, TypeOK
  <2>3. BulksKept
    BY <1>2, <2>1, <2>2, OneBulkMoves
  <2> QED BY <1>5, <2>3, NothingMoves DEF RunFailure, shared, Keeps
<1>6. CASE RunFinish(p)
  <2>1. BulksKept
    BY <1>2, <1>6, OneBulkMoves DEF RunFinish
  <2>2. (\E s : job' = [job EXCEPT !.status = s]) \/ UNCHANGED job
    BY <1>6 DEF RunFinish
  <2>3. job'.id = job.id
    BY <2>2, JobIdKept
  <2>4. UNCHANGED <<snapshot, clock, drain>>
    BY <1>6 DEF RunFinish
  <2> QED BY <2>1, <2>3, <2>4, NothingMoves DEF Keeps
<1> QED BY <1>3, <1>4, <1>5, <1>6

LEMMA EnqueueKind ==
    ASSUME TypeOK, NEW p \in Proc, EnqueueDemand(p) \/ EnqueueScheduled(p) \/ EnqueueWrite(p)
    PROVE  Keeps
<1>1. DrainKept(drain[p], StartedDrain(drain[p]))
  BY SelfKept, RestingKept, IdleRests
<1>2. drain' = [drain EXCEPT ![p] = StartedDrain(drain[p])] \/ UNCHANGED drain
  BY DEF EnqueueDemand, EnqueueScheduled, EnqueueWrite
<1>3. DrainsKept
  BY <1>1, <1>2, OneDrainMoves, NothingMoves
<1>4. UNCHANGED <<job, snapshot, clock, bulk>>
  BY DEF EnqueueDemand, EnqueueScheduled, EnqueueWrite, shared
<1> QED BY <1>3, <1>4, NothingMoves DEF Keeps

LEMMA RecoveryKind ==
    ASSUME TypeOK, NEW p \in Proc,
           GetStatus(p) \/ Tick(p) \/ \E coverage \in Coverages : Start(p, coverage)
    PROVE  Keeps
<1>1. bulk[p] \in BulkState
  BY DEF TypeOK
<1>2. job'.id = job.id
  BY JobIdKept DEF GetStatus, Tick, Start
<1>3. DrainKept(drain[p], StartedDrain(drain[p]))
  BY SelfKept, RestingKept, IdleRests
<1>4. drain' = [drain EXCEPT ![p] = StartedDrain(drain[p])] \/ UNCHANGED drain
  BY DEF GetStatus, Tick, Start
<1>5. DrainsKept
  BY <1>3, <1>4, OneDrainMoves, NothingMoves
<1>6. \A c : Resting([[IdleBulk EXCEPT !.pc = "waiting"] EXCEPT !.todo = c])
  <2>1. IdleBulk.id = NoId /\ IdleBulk.at = 0
    BY DEF IdleBulk
  <2> QED BY <2>1, IdleTypes DEF Resting, DrainHolding, BulkHolding, BulkState
<1>7. \/ UNCHANGED bulk
      \/ \E c : bulk' = [bulk EXCEPT ![p] = [[IdleBulk EXCEPT !.pc = "waiting"] EXCEPT !.todo = c]]
  BY DEF GetStatus, Tick, Start
<1>8. BulksKept
  BY <1>6, <1>7, RestingKept, OneBulkMoves, NothingMoves
<1>9. UNCHANGED <<snapshot, clock>>
  BY DEF GetStatus, Tick, Start
<1> QED BY <1>2, <1>5, <1>8, <1>9 DEF Keeps

LEMMA EnvironmentKind ==
    ASSUME TypeOK, LeaseExpires \/ TimePasses \/ \E p \in Proc : Crash(p)
    PROVE  Keeps
<1>1. CASE LeaseExpires
  BY <1>1, NothingMoves DEF LeaseExpires, Keeps
<1>2. CASE TimePasses
  BY <1>2, NothingMoves DEF TimePasses, shared, Keeps
<1>3. ASSUME NEW p \in Proc, Crash(p)
      PROVE  Keeps
  <2>1. DrainsKept /\ BulksKept
    BY <1>3, RestingKept, IdleRests, OneDrainMoves, OneBulkMoves DEF Crash
  <2> QED BY <1>3, <2>1 DEF Crash, shared, Keeps
<1> QED BY <1>1, <1>2, <1>3

(* Every step is of one of the three kinds. *)
LEMMA NextKind ==
    ASSUME TypeOK, [Next]_vars
    PROVE  Keeps \/ Publishes \/ Claims
<1>1. ASSUME NEW p \in Proc, DrainStep(p) PROVE Keeps \/ Publishes \/ Claims
  BY <1>1, ClaimReadKind, ClaimWriteKind, DrainEndKind, FetchDoneKind, PublishKind,
     DrainFailureKind DEF DrainStep
<1>2. ASSUME NEW p \in Proc, BulkStep(p) PROVE Keeps \/ Publishes \/ Claims
  BY <1>2, StartClaimKind, RunKind, RunPublishKind DEF BulkStep
<1>3. CASE UNCHANGED vars
  BY <1>3, NothingMoves DEF vars, Keeps
<1>4. BulkProc \subseteq Proc /\ ClientProc \subseteq Proc /\ CronProc \subseteq Proc
  BY ConstantsAssumption
<1> QED
  BY <1>1, <1>2, <1>3, <1>4, RenewalLostKind, EnqueueKind, RecoveryKind, EnvironmentKind DEF Next
-----------------------------------------------------------------------------
(* The invariant *)

LEMMA InitInvariant == Init => IInv
<1> SUFFICES ASSUME Init PROVE IInv
  OBVIOUS
<1>1. TypeOK
  BY InitType
<1>2. LeaseBelongsToJob
  BY DEF Init, LeaseBelongsToJob, NoLease
<1>3. \A p \in Proc : /\ drain[p].id = NoId /\ drain[p].pc = "idle" /\ drain[p].at = 0
                      /\ bulk[p].id = NoId /\ bulk[p].pc = "idle" /\ bulk[p].at = 0
  BY DEF Init, IdleDrain, IdleBulk
<1>4. IdsHeldOnce /\ WorkersHaveIds /\ PendingResultIsFresh
  BY <1>3 DEF IdsHeldOnce, WorkersHaveIds, PendingResultIsFresh, DrainHolding, BulkHolding
<1>5. AnswersArePast
  BY <1>3 DEF AnswersArePast, Init
<1>6. Unleased = {}
  BY <1>3 DEF Unleased, Workers
<1>7. IsFiniteSet(Unleased) /\ OverlapCostsFaults
  BY <1>6, FS_EmptySet DEF OverlapCostsFaults, Init
<1> QED BY <1>1, <1>2, <1>4, <1>5, <1>7 DEF IInv

(* The lease and the job are written together: claims set both, the writes  *)
(* of an outcome clear both, and they come from the holder of both.         *)
LEMMA LeaseStep ==
    ASSUME TypeOK, LeaseBelongsToJob, [Next]_vars
    PROVE  LeaseBelongsToJob'
<1>1. job \in JobState /\ lease \in LeaseState
  BY DEF TypeOK
<1> DEFINE Cleared == /\ lease' = NoLease
                      /\ job'.status # "running"
           Stays == lease'.owner = lease.owner /\ job'.id = job.id /\ job'.status = job.status
           Claimed == \E id \in FreshIds :
                        lease'.owner = id /\ job'.id = id /\ job'.status = "running"
<1>2. Cleared \/ Stays \/ Claimed => LeaseBelongsToJob'
  BY ConstantsAssumption DEF LeaseBelongsToJob, NoLease, FreshIds
<1>3. \A s : [job EXCEPT !.status = s].status = s
  BY <1>1 DEF JobState
<1>4. \A s, n : [job EXCEPT !.status = s, !.completed = n].status = s
  BY <1>1 DEF JobState
<1>5. RecoverUpdate => Cleared \/ Stays
  BY <1>3 DEF RecoverUpdate
<1>6. UNCHANGED <<job, lease>> => Stays
  OBVIOUS
<1>7. ASSUME NEW p \in Proc, ClaimWrite(p) \/ StartClaim(p) PROVE Stays \/ Claimed
  BY <1>7 DEF ClaimWrite, StartClaim
<1>8. ASSUME NEW p \in Proc, Publish(p) PROVE Cleared
  BY <1>4, <1>8 DEF Publish
<1>9. ASSUME NEW p \in Proc, PublishUnfinished(p) \/ RunPublish(p) \/ LeaseExpires PROVE Stays
  <2>1. \A n : /\ [job EXCEPT !.completed = n].status = job.status
               /\ [job EXCEPT !.completed = n].id = job.id
    BY <1>1 DEF JobState
  <2>2. [lease EXCEPT !.live = FALSE].owner = lease.owner
    BY <1>1 DEF LeaseState
  <2>3. CASE PublishUnfinished(p)
    BY <2>1, <2>2, <2>3, SMTT(20) DEF PublishUnfinished
  <2>4. CASE RunPublish(p)
    <3>1. UNCHANGED lease
      BY <2>4 DEF RunPublish
    <3>2. UNCHANGED job \/ job' = [job EXCEPT !.completed = @ + 1]
      BY <2>4 DEF RunPublish
    <3>3. job' = [job EXCEPT !.completed = @ + 1] =>
             job'.status = job.status /\ job'.id = job.id
      BY <1>1 DEF JobState
    <3> QED BY <3>1, <3>2, <3>3
  <2>5. CASE LeaseExpires
    BY <2>2, <2>5, SMTT(20) DEF LeaseExpires
  <2> QED BY <1>9, <2>3, <2>4, <2>5
<1>10. ASSUME NEW p \in Proc, RequeueLeaseLost(p) \/ FailQueued(p) \/ RunFinish(p)
       PROVE  Cleared \/ Stays
  BY <1>3, <1>10 DEF RequeueLeaseLost, FailQueued, RunFinish
<1>11. ASSUME NEW p \in Proc, Tick(p) \/ GetStatus(p) \/ (\E c \in Coverages : Start(p, c))
       PROVE  Cleared \/ Stays
  BY <1>5, <1>11 DEF Tick, GetStatus, Start
<1>12. ASSUME NEW p \in Proc,
              \/ ClaimRead(p) \/ DrainEnd(p) \/ FetchDone(p) \/ PublishRefused(p)
              \/ RunNext(p) \/ RunFetchDone(p) \/ RunFailure(p) \/ RenewalLost(p)
              \/ EnqueueDemand(p) \/ EnqueueScheduled(p) \/ EnqueueWrite(p) \/ Crash(p)
              \/ TimePasses
       PROVE  Stays
  BY <1>12 DEF ClaimRead, DrainEnd, FetchDone, PublishRefused, RunNext, RunFetchDone, RunFailure,
     RenewalLost, EnqueueDemand, EnqueueScheduled, EnqueueWrite, Crash, TimePasses, shared
<1>13. LeaseExpires \/ TimePasses => Stays
  <2>1. [lease EXCEPT !.live = FALSE].owner = lease.owner
    BY <1>1 DEF LeaseState
  <2> QED BY <2>1 DEF LeaseExpires, TimePasses, shared
<1>14. UNCHANGED vars => Stays
  BY DEF vars
<1> HIDE DEF Cleared, Stays, Claimed
<1>15. BulkProc \subseteq Proc /\ ClientProc \subseteq Proc /\ CronProc \subseteq Proc
  BY ConstantsAssumption
<1> QED
  BY <1>2, <1>7, <1>8, <1>9, <1>10, <1>11, <1>12, <1>13, <1>14, <1>15
  DEF Next, DrainStep, BulkStep

(* An id is held once: a claim draws one that nobody holds.                 *)
LEMMA IdsHeldOnceStep ==
    ASSUME TypeOK, TypeOK', IdsHeldOnce, [Next]_vars
    PROVE  IdsHeldOnce'
<1>1. CASE DrainsKept /\ BulksKept
  BY <1>1 DEF DrainsKept, BulksKept, DrainKept, BulkKept, IdsHeldOnce
<1>2. CASE Claims
  <2>1. \A q \in Proc : drain[q].id # job'.id /\ bulk[q].id # job'.id
    BY <1>2 DEF Claims, FreshIds, UsedIds
  <2>2. PICK p \in Proc :
          \/ /\ drain'[p].id = job'.id
             /\ \A q \in Proc \ {p} : drain'[q] = drain[q]
             /\ UNCHANGED bulk
          \/ /\ bulk'[p].id = job'.id
             /\ \A q \in Proc \ {p} : bulk'[q] = bulk[q]
             /\ UNCHANGED drain
    BY <1>2 DEF Claims
  <2> QED BY <2>1, <2>2 DEF IdsHeldOnce
<1> QED BY <1>1, <1>2, NextKind DEF Keeps, Publishes

LEMMA WorkersHaveIdsStep ==
    ASSUME TypeOK, WorkersHaveIds, [Next]_vars
    PROVE  WorkersHaveIds'
<1>1. CASE DrainsKept /\ BulksKept
  BY <1>1 DEF DrainsKept, BulksKept, DrainKept, BulkKept, WorkersHaveIds
<1>2. CASE Claims
  <2>1. job'.id # NoId
    BY <1>2, ConstantsAssumption DEF Claims, FreshIds
  <2> QED BY <1>2, <2>1 DEF Claims, WorkersHaveIds
<1> QED BY <1>1, <1>2, NextKind DEF Keeps, Publishes
(* A publication stores the answer its holder was given. *)
LEMMA AnswersArePastStep ==
    ASSUME TypeOK, TypeOK', AnswersArePast, [Next]_vars
    PROVE  AnswersArePast'
<1>1. clock \in Nat /\ clock' \in Nat
  BY DEF TypeOK
<1>2. \A p \in Proc : drain[p].at \in Nat /\ bulk[p].at \in Nat
  BY DEF TypeOK, DrainState, BulkState
<1>3. \A k \in Key : snapshot[k] \in Nat
  BY DEF TypeOK
<1>4. ASSUME DrainsKept, BulksKept, clock <= clock'
      PROVE  \A p \in Proc : drain'[p].at <= clock' /\ bulk'[p].at <= clock'
  BY <1>1, <1>2, <1>4 DEF DrainsKept, BulksKept, DrainKept, BulkKept, AnswersArePast
<1>5. CASE Keeps
  <2>1. clock <= clock' /\ UNCHANGED snapshot
    BY <1>1, <1>5 DEF Keeps
  <2> QED BY <1>1, <1>3, <1>4, <1>5, <2>1 DEF Keeps, AnswersArePast
<1>6. CASE Publishes
  <2>1. clock' = clock /\ DrainsKept /\ BulksKept
    BY <1>6 DEF Publishes
  <2>2. PICK k, v : snapshot' = [snapshot EXCEPT ![k] = v] /\ v <= clock
    BY <1>6 DEF Publishes, AnswersArePast
  <2>3. \A j \in Key : snapshot'[j] <= clock'
    BY <2>1, <2>2 DEF AnswersArePast, TypeOK
  <2> QED BY <1>1, <1>4, <2>1, <2>3 DEF AnswersArePast
<1>7. CASE Claims
  BY <1>7 DEF Claims, AnswersArePast
<1> QED BY <1>5, <1>6, <1>7, NextKind

(* Only the holder of the current job publishes, so a result that can still *)
(* be published has not been overtaken.                                     *)
LEMMA FreshStep ==
    ASSUME TypeOK, TypeOK', IdsHeldOnce, WorkersHaveIds, WorkersHaveIds', AnswersArePast,
           PendingResultIsFresh, [Next]_vars
    PROVE  PendingResultIsFresh'
<1>1. CASE Keeps
  <2>1. ASSUME NEW p \in Proc, drain'[p].pc = "publish", drain'[p].id = job'.id
        PROVE  drain'[p].id # NoId
               /\ \A k \in Key : k = drain'[p].item.key => snapshot'[k] <= drain'[p].at
    <3>1. DrainKept(drain[p], drain'[p]) /\ snapshot' = snapshot /\ job'.id = job.id
      BY <1>1 DEF Keeps, DrainsKept
    <3> QED
      BY <2>1, <3>1 DEF DrainKept, DrainHolding, WorkersHaveIds, AnswersArePast, PendingResultIsFresh
  <2>2. ASSUME NEW p \in Proc, bulk'[p].pc = "publish", bulk'[p].id = job'.id
        PROVE  bulk'[p].id # NoId
               /\ \A k \in Key : k = bulk'[p].key => snapshot'[k] <= bulk'[p].at
    <3>1. BulkKept(bulk[p], bulk'[p]) /\ snapshot' = snapshot /\ job'.id = job.id
      BY <1>1 DEF Keeps, BulksKept
    <3> QED
      BY <2>2, <3>1 DEF BulkKept, BulkHolding, WorkersHaveIds, AnswersArePast, PendingResultIsFresh
  <2> QED BY <2>1, <2>2 DEF PendingResultIsFresh
<1>2. CASE Publishes
  (* Nobody else holds the job, and the publisher lets go. *)
  <2>1. \A q \in Proc : drain'[q].pc = "publish" => drain'[q].id # job'.id
    <3> SUFFICES ASSUME NEW q \in Proc, drain'[q].pc = "publish", drain'[q].id = job'.id
                 PROVE  FALSE
      OBVIOUS
    <3>1. drain[q].pc \in DrainHolding /\ drain[q].id = job.id /\ drain'[q].pc \in DrainHolding
      BY <1>2 DEF Publishes, DrainsKept, DrainKept, DrainHolding
    <3>2. drain[q].id # NoId
      BY <3>1 DEF WorkersHaveIds
    <3> QED BY <1>2, <3>1, <3>2 DEF Publishes, IdsHeldOnce
  <2>2. \A q \in Proc : bulk'[q].pc = "publish" => bulk'[q].id # job'.id
    <3> SUFFICES ASSUME NEW q \in Proc, bulk'[q].pc = "publish", bulk'[q].id = job'.id
                 PROVE  FALSE
      OBVIOUS
    <3>1. bulk[q].pc \in BulkHolding /\ bulk[q].id = job.id
      BY <1>2 DEF Publishes, BulksKept, BulkKept, BulkHolding
    <3>2. bulk[q].id # NoId
      BY <3>1 DEF WorkersHaveIds
    <3> QED BY <1>2, <3>1, <3>2 DEF Publishes, IdsHeldOnce
  <2> QED BY <2>1, <2>2 DEF PendingResultIsFresh
<1>3. CASE Claims
  (* The new id is the claimer's, who has not fetched yet. *)
  <2>1. \A q \in Proc : drain[q].id # job'.id /\ bulk[q].id # job'.id
    BY <1>3 DEF Claims, FreshIds, UsedIds
  <2>2. \A q \in Proc : /\ drain'[q].pc = "publish" => drain'[q].id # job'.id
                        /\ bulk'[q].pc = "publish" => bulk'[q].id # job'.id
    BY <1>3, <2>1 DEF Claims
  <2> QED BY <2>2 DEF PendingResultIsFresh
<1> QED BY <1>1, <1>2, <1>3, NextKind

(* A lease that is lost belonged to nobody, or its owner has let go of it,  *)
(* or a fault took it from a worker.                                        *)
LEMMA LeaseLost ==
    ASSUME TypeOK, TypeOK', IdsHeldOnce, [Next]_vars
    PROVE  /\ UNCHANGED lease \/ LeaseFree \/ lease.owner \notin Workers' \/ faults' = faults + 1
           /\ faults \in Nat /\ faults' \in Nat /\ faults <= faults'
<1> DEFINE Lost == UNCHANGED lease \/ LeaseFree \/ lease.owner \notin Workers' \/ faults' = faults + 1
           More == UNCHANGED faults \/ faults' = faults + 1
<1>1. ASSUME NEW p \in Proc, ClaimWrite(p) \/ StartClaim(p) PROVE Lost /\ More
  BY <1>1 DEF ClaimWrite, StartClaim
<1>2. RecoverUpdate => UNCHANGED lease \/ LeaseFree
  BY DEF RecoverUpdate, Interrupted
<1>3. ASSUME NEW p \in Proc, Tick(p) \/ GetStatus(p) \/ (\E c \in Coverages : Start(p, c))
      PROVE  Lost /\ More
  BY <1>2, <1>3 DEF Tick, GetStatus, Start
<1>4. \A d : NextRound(d).id = NoId /\ IdleBulk.id = NoId
  BY IdleRests DEF Resting
<1>5. ASSUME NEW p \in Proc, drain' = [drain EXCEPT ![p] = NextRound(drain[p])], UNCHANGED bulk
      PROVE  drain[p].id \notin Workers'
  <2>1. drain'[p].id = NoId /\ \A q \in Proc \ {p} : drain'[q] = drain[q]
    BY <1>4, <1>5 DEF TypeOK
  <2> QED BY <1>5, <2>1 DEF Workers, IdsHeldOnce
<1>6. ASSUME NEW p \in Proc, bulk' = [bulk EXCEPT ![p] = IdleBulk], UNCHANGED drain
      PROVE  bulk[p].id \notin Workers'
  <2>1. bulk'[p].id = NoId /\ \A q \in Proc \ {p} : bulk'[q] = bulk[q]
    BY <1>4, <1>6 DEF TypeOK
  <2> QED BY <1>6, <2>1 DEF Workers, IdsHeldOnce
<1>7. ASSUME NEW p \in Proc, Publish(p) \/ PublishUnfinished(p) PROVE Lost /\ More
  BY <1>5, <1>7 DEF Publish, PublishUnfinished, Owned
<1>8. ASSUME NEW p \in Proc, RequeueLeaseLost(p) \/ FailQueued(p) PROVE Lost /\ More
  BY <1>5, <1>8 DEF RequeueLeaseLost, FailQueued, Holds
<1>9. ASSUME NEW p \in Proc, RunFinish(p) PROVE Lost /\ More
  BY <1>6, <1>9 DEF RunFinish, Owned
<1>10. ASSUME LeaseExpires PROVE Lost /\ More
  <2>1. CASE Alive(lease.owner)
    BY <1>10, <2>1 DEF LeaseExpires
  <2>2. CASE ~Alive(lease.owner)
    <3>1. UNCHANGED <<drain, bulk>>
      BY <1>10 DEF LeaseExpires
    <3> QED BY <1>10, <2>2, <3>1 DEF LeaseExpires, Alive, Workers
  <2> QED BY <2>1, <2>2
<1>11. ASSUME NEW p \in Proc,
              \/ ClaimRead(p) \/ DrainEnd(p) \/ FetchDone(p) \/ PublishRefused(p)
              \/ RunNext(p) \/ RunFetchDone(p) \/ RunPublish(p) \/ RunFailure(p)
              \/ RenewalLost(p) \/ EnqueueDemand(p) \/ EnqueueScheduled(p) \/ EnqueueWrite(p)
              \/ Crash(p) \/ TimePasses
       PROVE  Lost /\ More
  BY <1>11 DEF ClaimRead, DrainEnd, FetchDone, PublishRefused, RunNext, RunFetchDone, RunPublish,
     RunFailure, RenewalLost, EnqueueDemand, EnqueueScheduled, EnqueueWrite, Crash, TimePasses, shared
<1>12. TimePasses => Lost /\ More
  BY DEF TimePasses, shared
<1>13. UNCHANGED vars => Lost /\ More
  BY DEF vars
<1> HIDE DEF Lost, More
<1>14. BulkProc \subseteq Proc /\ ClientProc \subseteq Proc /\ CronProc \subseteq Proc
  BY ConstantsAssumption
<1>15. Lost /\ More
  BY <1>1, <1>3, <1>7, <1>8, <1>9, <1>10, <1>11, <1>12, <1>13, <1>14 DEF Next, DrainStep, BulkStep
<1>16. faults \in Nat /\ faults' \in Nat
  BY DEF TypeOK
<1> QED BY <1>15, <1>16 DEF Lost, More

(* A claim meets no live lease, and whoever loses one costs a fault. *)
LEMMA OverlapStep ==
    ASSUME TypeOK, TypeOK', IdsHeldOnce, [Next]_vars, IsFiniteSet(Unleased), OverlapCostsFaults
    PROVE  IsFiniteSet(Unleased)' /\ OverlapCostsFaults'
<1>1. Unleased \subseteq Workers /\ Unleased' \subseteq Workers' /\ NoId \notin Workers
  BY DEF Unleased, Workers
<1>2. LeaseFree => Unleased = Workers
  BY <1>1 DEF LeaseFree, Unleased
<1>3. Workers \subseteq Unleased \cup {lease.owner}
  BY DEF Unleased
<1>4. CASE Unleased' \subseteq Unleased
  <2>1. IsFiniteSet(Unleased') /\ Cardinality(Unleased') <= Cardinality(Unleased)
    BY <1>4, FS_Subset
  <2>2. Cardinality(Unleased) \in Nat /\ Cardinality(Unleased') \in Nat
    BY <2>1, FS_CardinalityType
  <2> QED BY <2>1, <2>2, LeaseLost DEF OverlapCostsFaults
<1>5. CASE faults' = faults + 1 /\ Unleased' \subseteq Unleased \cup {lease.owner}
  <2> DEFINE S == Unleased \cup {lease.owner}
  <2>1. IsFiniteSet(S) /\ Cardinality(S) <= Cardinality(Unleased) + 1
    <3>1. Cardinality(Unleased) \in Nat
      BY FS_CardinalityType
    <3> QED BY <3>1, FS_AddElement
  <2>2. IsFiniteSet(Unleased') /\ Cardinality(Unleased') <= Cardinality(S)
    BY <1>5, <2>1, FS_Subset
  <2>3. Cardinality(Unleased) \in Nat /\ Cardinality(Unleased') \in Nat /\ Cardinality(S) \in Nat
    BY <2>1, <2>2, FS_CardinalityType
  <2> HIDE DEF S
  <2> QED BY <1>5, <2>1, <2>2, <2>3, LeaseLost DEF OverlapCostsFaults
<1>6. CASE Claims
  <2>1. Workers' \subseteq Workers \cup {lease'.owner} /\ lease'.live
    BY <1>6 DEF Claims, Workers
  <2>2. Unleased' \subseteq Workers
    BY <2>1 DEF Unleased
  <2> QED BY <1>2, <1>4, <1>6, <2>2 DEF Claims
<1>7. CASE DrainsKept /\ BulksKept
  <2>1. Workers' \subseteq Workers
    BY <1>7 DEF DrainsKept, BulksKept, DrainKept, BulkKept, Workers
  <2>2. UNCHANGED lease => Unleased' \subseteq Unleased
    BY <2>1 DEF Unleased
  <2> QED BY <1>1, <1>2, <1>3, <1>4, <1>5, <2>1, <2>2, LeaseLost
<1> QED BY <1>6, <1>7, NextKind DEF Keeps, Publishes

LEMMA InvariantStep == IInv /\ [Next]_vars => IInv'
<1> SUFFICES ASSUME IInv, [Next]_vars PROVE IInv'
  OBVIOUS
<1>1. TypeOK'
  BY NextType DEF IInv
<1>2. WorkersHaveIds'
  BY WorkersHaveIdsStep DEF IInv
<1> QED
  BY <1>1, <1>2, LeaseStep, IdsHeldOnceStep, AnswersArePastStep, FreshStep, OverlapStep DEF IInv

LEMMA Invariance == Spec => []IInv
<1>1. Init => IInv
  BY InitInvariant
<1>2. IInv /\ [Next]_vars => IInv'
  BY InvariantStep
<1> QED BY <1>1, <1>2, PTL DEF Spec

-----------------------------------------------------------------------------
(* Theorems *)

(* The lease document and the job document never disagree about the owner.  *)
THEOREM LeaseTheorem == Spec => []LeaseBelongsToJob
<1>1. IInv => LeaseBelongsToJob
  BY DEF IInv
<1> QED BY <1>1, Invariance, PTL

(* Workers overlap only through faults: with any number of processes and of *)
(* requests, no more loops work without a live lease than faults occurred.  *)
THEOREM OverlapTheorem == Spec => []OverlapCostsFaults
<1>1. IInv => OverlapCostsFaults
  BY DEF IInv
<1> QED BY <1>1, Invariance, PTL

(* What the holder of the current job is about to publish is not older than *)
(* what is published.                                                       *)
THEOREM FreshTheorem == Spec => []PendingResultIsFresh
<1>1. IInv => PendingResultIsFresh
  BY DEF IInv
<1> QED BY <1>1, Invariance, PTL

(* A step of the synchronisation is a step of the feed or none. *)
LEMMA StepSimulation ==
    ASSUME IInv, [Next]_vars
    PROVE  [Feed!Next]_<<snapshot, clock>>
<1>1. TypeOK /\ AnswersArePast /\ PendingResultIsFresh
  BY DEF IInv
<1>2. CASE Keeps
  BY <1>2 DEF Keeps, Feed!Next, Feed!TimePasses
<1>3. CASE Publishes
  <2>1. PICK k, v :
          /\ snapshot' = [snapshot EXCEPT ![k] = v]
          /\ v \in Nat /\ v <= clock
          /\ k \in Key => snapshot[k] <= v
    <3>1. \A p \in Proc : drain[p].at \in Nat /\ bulk[p].at \in Nat
      BY <1>1 DEF TypeOK, DrainState, BulkState
    <3> QED BY <1>1, <1>3, <3>1, ZenonT(60) DEF Publishes, AnswersArePast, PendingResultIsFresh
  <2>2. UNCHANGED clock
    BY <1>3 DEF Publishes
  <2>3. CASE k \in Key
    <3>1. v \in snapshot[k]..clock
      BY <1>1, <2>1, <2>3 DEF TypeOK
    <3> QED BY <2>1, <2>2, <2>3, <3>1 DEF Feed!Next, Feed!Publish
  <2>4. CASE k \notin Key
    BY <1>1, <2>1, <2>2, <2>4 DEF TypeOK
  <2> QED BY <2>3, <2>4
<1>4. CASE Claims
  BY <1>4 DEF Claims
<1> QED BY <1>1, <1>2, <1>3, <1>4, NextKind

(* The synchronisation implements the abstract feed: the readers of the     *)
(* snapshots see answers of the adapter, and never an earlier one after a   *)
(* later one.                                                               *)
THEOREM FeedTheorem == Spec => ImplementsFeed
<1>1. Init => Feed!Init
  BY DEF Init, Feed!Init
<1>2. IInv /\ [Next]_vars => [Feed!Next]_<<snapshot, clock>>
  BY StepSimulation
<1> QED BY <1>1, <1>2, Invariance, PTL DEF Spec, ImplementsFeed, Feed!Spec
=============================================================================
