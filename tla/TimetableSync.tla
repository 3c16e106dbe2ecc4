--------------------------- MODULE TimetableSync ---------------------------
(***************************************************************************)
(* Timetable synchronisation: src/backend/src/timetable.  Every server     *)
(* process shares one MongoDB document (the state document named           *)
(* "default") that holds a queue of requested class-weeks, the current     *)
(* job, and a lease that fences its worker.  One update of that document   *)
(* is atomic; everything between two awaits of a handler is not, and any   *)
(* process may crash between them.                                         *)
(*                                                                         *)
(* Process-local control is kept per process: the drain loop               *)
(* (drainQueue / claimNext / processQueued), one bulk job (start / run),   *)
(* one enqueue between its read and its write, and the cron handler        *)
(* (scheduled).  Ids stand for the random job id and lease owner, which    *)
(* are drawn together: a new id is one that nobody holds.                  *)
(*                                                                         *)
(* A result is known by the time at which the adapter gave it.  What it    *)
(* shows may be a little older: each process has its adapter cache results *)
(* for a minute (cacheTtlMs), and that cache is not part of this model.    *)
(***************************************************************************)
EXTENDS Naturals, Sequences, FiniteSets, SequencesExt

CONSTANTS
    Key,            \* class-weeks that can be synchronised (timetableKey)
    Proc,           \* server processes
    JobId,          \* job ids
    NoKey, NoId,    \* absent key, absent id
    QueueLimit,     \* config.queueLimit
    Reserve,        \* config.interactiveReserve
    StreakLimit,    \* the 5 of claimNext
    Requests,       \* enqueue calls: [keys : SUBSET Key, force : BOOLEAN]
    ScheduledKeys,  \* coverage of the settings: what scheduled() enqueues
    Coverages,      \* coverages that start() is called with
    ClientProc,     \* bound: processes that serve enqueue calls
    BulkProc,       \* bound: processes that serve start() calls
    CronProc,       \* bound: processes whose cron handler is followed
    MaxTime,        \* bound: how far the clock goes
    MaxFaults       \* bound: crashes, stalls and datastore errors

ASSUME ConstantsAssumption ==
    /\ NoKey \notin Key
    /\ NoId \notin JobId
    /\ QueueLimit \in Nat \ {0}
    /\ Reserve \in Nat
    /\ StreakLimit \in Nat
    /\ MaxTime \in Nat
    /\ MaxFaults \in Nat
    /\ Requests \subseteq [keys : SUBSET Key, force : BOOLEAN]
    /\ ScheduledKeys \subseteq Key
    /\ Coverages \subseteq SUBSET Key
    /\ ClientProc \cup BulkProc \cup CronProc \subseteq Proc
    /\ IsFiniteSet(Key)

VARIABLES
    queue,      \* state.queue
    job,        \* state.job: id, status, selection (queued job), coverage (bulk job),
                \* completed
    lease,      \* state.lease: owner, and whether expiresAt is still ahead
    status,     \* the last entry of state.statuses for each key
    streak,     \* demand entries at the end of the terminal state.statuses
    snapshot,   \* when the adapter gave the answer published for each key
    clock,      \* time, as far as answers of the adapter are told apart by it
    drain,      \* drainQueue of each process
    bulk,       \* start / run of each process
    req,        \* an enqueue between its read and its write
    cron,       \* scheduled() of each process
    faults      \* faults so far

shared == <<queue, job, lease, status, streak>>
vars == <<queue, job, lease, status, streak, snapshot, clock, drain, bulk, req, cron, faults>>

-----------------------------------------------------------------------------
(* Data *)

Item == [key : Key, kind : {"demand", "scheduled"}]

(* What $concatArrays prepends for a job that has no selection field. *)
NullItem == [key |-> NoKey, kind |-> "null"]

NoItem == [key |-> NoKey, kind |-> "none"]
NoLease == [owner |-> NoId, live |-> FALSE]

IdleDrain == [pc |-> "idle", item |-> NoItem, id |-> NoId, at |-> 0,
              lost |-> FALSE, left |-> 0]
IdleBulk == [pc |-> "idle", id |-> NoId, todo |-> {}, key |-> NoKey, at |-> 0,
             lost |-> FALSE, failed |-> FALSE]
IdleReq == [pc |-> "idle", adds |-> {}, kind |-> "none"]

QueueKeys == {queue[i].key : i \in DOMAIN queue}
Poisoned == \E i \in DOMAIN queue : queue[i] = NullItem

UsedIds == {job.id} \cup {drain[p].id : p \in Proc} \cup {bulk[p].id : p \in Proc}
FreshIds == JobId \ UsedIds

(* Mutant: the filter of owned() without the lease owner and the job id.    *)
OwnedByAnyone(id) == id # NoId /\ job.status = "running" /\ lease.live

(* The filter of owned(): the running job and its unexpired lease. *)
Owned(id) == job.id = id /\ job.status = "running" /\ lease.owner = id /\ lease.live

(* The weaker filter of the failure and requeue writes: no expiry check. *)
Holds(id) == job.id = id /\ lease.owner = id

(* Mutant: the claim does not look at the lease. *)
LeaseUnchecked == TRUE

LeaseFree == lease.owner = NoId \/ ~lease.live

(* $pull by key; the keys of a queue are distinct (QueueKeysDistinct). *)
Without(q, k) ==
    IF \E i \in DOMAIN q : q[i].key = k
    THEN LET i == CHOOSE i \in DOMAIN q : q[i].key = k
         IN  SubSeq(q, 1, i - 1) \o SubSeq(q, i + 1, Len(q))
    ELSE q

(* The streak of demand entries after one more terminal entry.             *)
PushStreak(kind) ==
    IF kind # "demand" THEN 0 ELSE IF streak < StreakLimit THEN streak + 1 ELSE streak

-----------------------------------------------------------------------------
(* Claiming: drainQueue, claimNext *)

(* drainQueue() joins a drain that is already running. *)
StartedDrain(d) == IF d.pc = "idle" THEN [IdleDrain EXCEPT !.pc = "read", !.left = QueueLimit] ELSE d

(* The next round of the loop; the last one only ends it. *)
NextRound(d) == [IdleDrain EXCEPT !.pc = "read", !.left = d.left - 1]

(* queue.find(kind = want) || queue[0].  The scan reads a field of every    *)
(* element before the match, so it throws on a null element it meets.       *)
Matches(want) == {i \in DOMAIN queue : queue[i].kind = want}
Picks(want, i) ==
    IF Matches(want) = {} THEN i = 1
    ELSE i \in Matches(want) /\ \A j \in Matches(want) : i <= j
ScanThrows(want) ==
    \E n \in DOMAIN queue : queue[n] = NullItem /\ \A i \in Matches(want) : n < i

(* Mutant: demand always goes first. *)
WantedDemand == "demand"

Wanted == IF streak >= StreakLimit THEN "scheduled" ELSE "demand"

ClaimRead(p) ==
    /\ drain[p].pc = "read"
    /\ \/ /\ drain[p].left = 0 \/ queue = <<>>
          /\ drain' = [drain EXCEPT ![p] = [IdleDrain EXCEPT !.pc = "done"]]
       \/ /\ drain[p].left # 0 /\ ScanThrows(Wanted)
          /\ drain' = [drain EXCEPT ![p] = [IdleDrain EXCEPT !.pc = "thrown"]]
       \/ /\ drain[p].left # 0 /\ ~ScanThrows(Wanted)
          /\ \E i \in DOMAIN queue :
               /\ Picks(Wanted, i)
               /\ drain' = [drain EXCEPT ![p].pc = "claim", ![p].item = queue[i]]
    /\ UNCHANGED <<shared, snapshot, clock, bulk, req, cron, faults>>

ClaimWrite(p) ==
    /\ drain[p].pc = "claim"
    /\ LET it == drain[p].item IN
       IF it.key \in QueueKeys /\ LeaseFree
       THEN \E id \in FreshIds :
            /\ queue' = Without(queue, it.key)
            /\ job' = [id |-> id, status |-> "running", selection |-> it, coverage |-> {},
                       completed |-> 0]
            /\ lease' = [owner |-> id, live |-> TRUE]
            /\ drain' = [drain EXCEPT ![p].pc = "fetch", ![p].id = id]
       ELSE /\ drain' = [drain EXCEPT ![p] = [IdleDrain EXCEPT !.pc = "done"]]
            /\ UNCHANGED <<queue, job, lease>>
    /\ UNCHANGED <<status, streak, snapshot, clock, bulk, req, cron, faults>>

(* The promise of drainQueue settles: whoever awaited it goes on, or fails. *)
DrainEnd(p) ==
    /\ drain[p].pc \in {"done", "thrown"}
    /\ drain' = [drain EXCEPT ![p] = IdleDrain]
    /\ bulk' = [bulk EXCEPT ![p] =
            IF bulk[p].pc # "waiting" THEN bulk[p]
            ELSE IF drain[p].pc = "done" THEN [bulk[p] EXCEPT !.pc = "claim"]
            ELSE IdleBulk]
    /\ cron' = [cron EXCEPT ![p] =
            IF cron[p] # "waiting" THEN cron[p]
            ELSE IF drain[p].pc = "done" THEN "ready" ELSE "idle"]
    /\ UNCHANGED <<shared, snapshot, clock, req, faults>>

-----------------------------------------------------------------------------
(* Working: processQueued.  fetchWithRetry ends in a result or an error.    *)

FetchDone(p) ==
    /\ drain[p].pc = "fetch"
    /\ \/ drain' = [drain EXCEPT ![p].pc = "publish", ![p].at = clock]
       \/ drain' = [drain EXCEPT ![p].pc = "fail"]
    /\ UNCHANGED <<shared, snapshot, clock, bulk, req, cron, faults>>

(* The renewal timer of processQueued or run found the lease gone, or its   *)
(* update failed.  A renewal that succeeds changes nothing here.            *)
RenewalLost(p) ==
    /\ \/ /\ drain[p].pc \in {"fetch", "publish"} /\ ~drain[p].lost
          /\ IF Owned(drain[p].id) THEN faults < MaxFaults /\ faults' = faults + 1
                                   ELSE UNCHANGED faults
          /\ drain' = [drain EXCEPT ![p].lost = TRUE]
          /\ UNCHANGED bulk
       \/ /\ bulk[p].pc \in {"next", "fetch", "publish"} /\ ~bulk[p].lost
          /\ IF Owned(bulk[p].id) THEN faults < MaxFaults /\ faults' = faults + 1
                                  ELSE UNCHANGED faults
          /\ bulk' = [bulk EXCEPT ![p].lost = TRUE]
          /\ UNCHANGED drain
    /\ UNCHANGED <<shared, snapshot, clock, req, cron>>

(* The transaction that publishes the snapshot and finishes the job.        *)
Publish(p) ==
    /\ drain[p].pc = "publish" /\ ~drain[p].lost /\ Owned(drain[p].id)
    /\ LET it == drain[p].item IN
       /\ snapshot' = [snapshot EXCEPT ![it.key] = drain[p].at]
       /\ job' = [job EXCEPT !.status = "succeeded", !.completed = 1]
       /\ lease' = NoLease
       /\ status' = [status EXCEPT ![it.key] = "valid"]
       /\ streak' = PushStreak(it.kind)
    /\ drain' = [drain EXCEPT ![p] = NextRound(drain[p])]
    /\ UNCHANGED <<queue, clock, bulk, req, cron, faults>>

(* The lease runs out inside that transaction: its last update matches      *)
(* nothing, which is not checked, and the snapshot is committed all the     *)
(* same.                                                                    *)
PublishUnfinished(p) ==
    /\ drain[p].pc = "publish" /\ ~drain[p].lost /\ Owned(drain[p].id)
    /\ faults < MaxFaults /\ faults' = faults + 1
    /\ snapshot' = [snapshot EXCEPT ![drain[p].item.key] = drain[p].at]
    /\ job' = [job EXCEPT !.completed = 1]
    /\ lease' = [lease EXCEPT !.live = FALSE]
    /\ drain' = [drain EXCEPT ![p] = NextRound(drain[p])]
    /\ UNCHANGED <<queue, status, streak, clock, bulk, req, cron>>

(* Not the owner any more: ConflictException, reason LEASE_LOST.  A failed  *)
(* transaction takes the other branch of the catch.                         *)
PublishRefused(p) ==
    /\ drain[p].pc = "publish"
    /\ \/ /\ drain[p].lost \/ ~Owned(drain[p].id)
          /\ drain' = [drain EXCEPT ![p].pc = "requeue"]
          /\ UNCHANGED faults
       \/ /\ ~drain[p].lost
          /\ faults < MaxFaults /\ faults' = faults + 1
          /\ drain' = [drain EXCEPT ![p].pc = "fail"]
    /\ UNCHANGED <<shared, snapshot, clock, bulk, req, cron>>

(* requeueLeaseLost: back to the head, and the queue is cut to its limit.   *)
RequeueLeaseLost(p) ==
    /\ drain[p].pc = "requeue"
    /\ LET it == drain[p].item IN
       IF Holds(drain[p].id)
       THEN /\ queue' = LET q == IF it.key \in QueueKeys THEN queue ELSE <<it>> \o queue
                        IN  IF Len(q) <= QueueLimit THEN q ELSE SubSeq(q, 1, QueueLimit)
            /\ status' = [status EXCEPT ![it.key] = "pending"]
            /\ job' = [job EXCEPT !.status = "failed"]
            /\ lease' = NoLease
       ELSE UNCHANGED <<queue, status, job, lease>>
    /\ drain' = [drain EXCEPT ![p] = NextRound(drain[p])]
    /\ UNCHANGED <<streak, snapshot, clock, bulk, req, cron, faults>>

(* Mutant: the failure is recorded on the job only. *)
FailQueuedSilently(p) ==
    /\ drain[p].pc = "fail"
    /\ IF Holds(drain[p].id)
       THEN job' = [job EXCEPT !.status = "failed"] /\ lease' = NoLease
       ELSE UNCHANGED <<job, lease>>
    /\ drain' = [drain EXCEPT ![p] = NextRound(drain[p])]
    /\ UNCHANGED <<queue, status, streak, snapshot, clock, bulk, req, cron, faults>>

FailQueued(p) ==
    /\ drain[p].pc = "fail"
    /\ LET it == drain[p].item IN
       IF Holds(drain[p].id)
       THEN /\ status' = [status EXCEPT ![it.key] = "failed"]
            /\ streak' = PushStreak(it.kind)
            /\ job' = [job EXCEPT !.status = "failed"]
            /\ lease' = NoLease
       ELSE UNCHANGED <<status, streak, job, lease>>
    /\ drain' = [drain EXCEPT ![p] = NextRound(drain[p])]
    /\ UNCHANGED <<queue, snapshot, clock, bulk, req, cron, faults>>

-----------------------------------------------------------------------------
(* Recovery: recoverInterrupted *)

(* Mutant: only a missing lease counts as an interruption. *)
InterruptedWithoutLease == job.status = "running" /\ lease.owner = NoId

Interrupted == job.status = "running" /\ LeaseFree

(* Mutants: the lease stays; the item is prepended though it is queued;     *)
(* the missing selection itself is prepended.                               *)
RecoverKeepsLease ==
    IF Interrupted
    THEN /\ job' = [job EXCEPT !.status = "failed"]
         /\ queue' = IF job.selection.key \in QueueKeys \cup {NoKey} THEN queue
                     ELSE <<job.selection>> \o queue
         /\ UNCHANGED lease
    ELSE UNCHANGED <<job, lease, queue>>
RecoverDuplicates ==
    IF Interrupted
    THEN /\ job' = [job EXCEPT !.status = "failed"]
         /\ lease' = NoLease
         /\ queue' = IF job.selection = NoItem THEN queue ELSE <<job.selection>> \o queue
    ELSE UNCHANGED <<job, lease, queue>>
RecoverAnySelection ==
    IF Interrupted
    THEN /\ job' = [job EXCEPT !.status = "failed"]
         /\ lease' = NoLease
         /\ queue' = <<job.selection>> \o queue
    ELSE UNCHANGED <<job, lease, queue>>

(* In the pipeline a missing job.selection is not equal to null, and the    *)
(* array literal around it holds a null.                                    *)
RecoverUpdate ==
    IF Interrupted
    THEN /\ job' = [job EXCEPT !.status = "failed"]
         /\ lease' = NoLease
         /\ queue' = IF job.selection = NoItem THEN <<NullItem>> \o queue
                     ELSE IF job.selection.key \in QueueKeys THEN queue
                     ELSE <<job.selection>> \o queue
    ELSE UNCHANGED <<job, lease, queue>>

(* getStatus: recover without draining. *)
GetStatus(p) ==
    /\ Interrupted
    /\ RecoverUpdate
    /\ UNCHANGED <<status, streak, snapshot, clock, drain, bulk, req, cron, faults>>

(* scheduled, each minute: recover, then await the drain. *)
Tick(p) ==
    /\ cron[p] = "idle"
    /\ RecoverUpdate
    /\ drain' = [drain EXCEPT ![p] = StartedDrain(drain[p])]
    /\ cron' = [cron EXCEPT ![p] = "waiting"]
    /\ UNCHANGED <<status, streak, snapshot, clock, bulk, req, faults>>

-----------------------------------------------------------------------------
(* Requesting: enqueue *)

(* Keys of the job object, which outlives the job: its status is not read.  *)
RunningKeys == {job.selection.key} \cup job.coverage

Coalesced(k) == k \in QueueKeys \/ k \in RunningKeys \/ status[k] = "pending"

(* The cooldown can only hold back a key whose last entry is terminal.      *)
CoolingSets(keys, force) ==
    SUBSET {k \in keys : status[k] = "valid" \/ (force /\ status[k] = "failed")}

CountScheduled == Cardinality({i \in DOMAIN queue : queue[i].kind = "scheduled"})

(* The read half: it throws on a null element, and refuses a full queue.    *)
EnqueueRead(p, keys, kind, force) ==
    /\ req[p].pc = "idle"
    /\ ~Poisoned
    /\ \E cooling \in CoolingSets(keys, force) :
         LET accepted == {k \in keys : ~Coalesced(k) /\ k \notin cooling} IN
         /\ accepted # {}
         /\ Len(queue) + Cardinality(accepted) <= QueueLimit
         /\ kind = "scheduled" =>
                CountScheduled + Cardinality(accepted) + Reserve <= QueueLimit
         /\ req' = [req EXCEPT ![p] = [pc |-> "write", adds |-> accepted, kind |-> kind]]

EnqueueDemand(p) ==
    /\ \E r \in Requests : EnqueueRead(p, r.keys, "demand", r.force)
    /\ UNCHANGED <<shared, snapshot, clock, drain, bulk, cron, faults>>

(* The interval has elapsed, or it has not. *)
EnqueueScheduled(p) ==
    /\ cron[p] = "ready"
    /\ cron' = [cron EXCEPT ![p] = "idle"]
    /\ \/ EnqueueRead(p, ScheduledKeys, "scheduled", FALSE)
       \/ UNCHANGED req
    /\ UNCHANGED <<shared, snapshot, clock, drain, bulk, faults>>

(* The write half: what the queue does not hold by now is appended, in the  *)
(* order of the request, which is the caller's and so any order.            *)
EnqueueWrite(p) ==
    /\ req[p].pc = "write"
    /\ LET new == req[p].adds \ QueueKeys IN
       IF Len(queue) + Cardinality(new) <= QueueLimit
       THEN /\ \E order \in SetToSeqs(new) :
                 queue' = queue \o [i \in DOMAIN order |-> [key |-> order[i], kind |-> req[p].kind]]
            /\ status' = [k \in Key |-> IF k \in req[p].adds THEN "pending" ELSE status[k]]
            /\ drain' = [drain EXCEPT ![p] = StartedDrain(drain[p])]
       ELSE UNCHANGED <<queue, status, drain>>
    /\ req' = [req EXCEPT ![p] = IdleReq]
    /\ UNCHANGED <<job, lease, streak, snapshot, clock, bulk, cron, faults>>

-----------------------------------------------------------------------------
(* The bulk job: start, run *)

Start(p, coverage) ==
    /\ bulk[p].pc = "idle"
    /\ RecoverUpdate
    /\ drain' = [drain EXCEPT ![p] = StartedDrain(drain[p])]
    /\ bulk' = [bulk EXCEPT ![p] = [IdleBulk EXCEPT !.pc = "waiting", !.todo = coverage]]
    /\ UNCHANGED <<status, streak, snapshot, clock, req, cron, faults>>

StartClaim(p) ==
    /\ bulk[p].pc = "claim"
    /\ IF job.status # "running" /\ LeaseFree
       THEN \E id \in FreshIds :
            /\ job' = [id |-> id, status |-> "running", selection |-> NoItem,
                       coverage |-> bulk[p].todo, completed |-> 0]
            /\ lease' = [owner |-> id, live |-> TRUE]
            /\ bulk' = [bulk EXCEPT ![p].pc = "next", ![p].id = id]
       ELSE /\ bulk' = [bulk EXCEPT ![p] = IdleBulk]
            /\ UNCHANGED <<job, lease>>
    /\ UNCHANGED <<queue, status, streak, snapshot, clock, drain, req, cron, faults>>

(* The loop head of run: the next selection, or the final update. *)
RunNext(p) ==
    /\ bulk[p].pc = "next"
    /\ IF bulk[p].lost THEN bulk' = [bulk EXCEPT ![p] = IdleBulk]
       ELSE IF bulk[p].todo = {} THEN bulk' = [bulk EXCEPT ![p].pc = "finish"]
       ELSE \E k \in bulk[p].todo :
            bulk' = [bulk EXCEPT ![p].pc = "fetch", ![p].key = k, ![p].todo = @ \ {k}]
    /\ UNCHANGED <<shared, snapshot, clock, drain, req, cron, faults>>

RunFetchDone(p) ==
    /\ bulk[p].pc = "fetch"
    /\ \/ bulk' = [bulk EXCEPT ![p].pc = "publish", ![p].at = clock]
       \/ bulk' = [bulk EXCEPT ![p] = IF @.lost THEN IdleBulk ELSE [@ EXCEPT !.pc = "fail"]]
    /\ UNCHANGED <<shared, snapshot, clock, drain, req, cron, faults>>

RunPublish(p) ==
    /\ bulk[p].pc = "publish"
    /\ \/ /\ ~bulk[p].lost /\ Owned(bulk[p].id)
          /\ snapshot' = [snapshot EXCEPT ![bulk[p].key] = bulk[p].at]
          /\ job' = [job EXCEPT !.completed = @ + 1]
          /\ bulk' = [bulk EXCEPT ![p].pc = "next"]
          /\ UNCHANGED faults
       \/ /\ bulk[p].lost \/ ~Owned(bulk[p].id)
          /\ bulk' = [bulk EXCEPT ![p] = IdleBulk]
          /\ UNCHANGED <<snapshot, job, faults>>
       \/ /\ ~bulk[p].lost
          /\ faults < MaxFaults /\ faults' = faults + 1
          /\ bulk' = [bulk EXCEPT ![p].pc = "fail"]
          /\ UNCHANGED <<snapshot, job>>
    /\ UNCHANGED <<queue, lease, status, streak, clock, drain, req, cron>>

(* Record one failed selection, or find the lease lost. *)
RunFailure(p) ==
    /\ bulk[p].pc = "fail"
    /\ bulk' = [bulk EXCEPT ![p] =
            IF Owned(bulk[p].id) THEN [@ EXCEPT !.pc = "next", !.failed = TRUE] ELSE IdleBulk]
    /\ UNCHANGED <<shared, snapshot, clock, drain, req, cron, faults>>

RunFinish(p) ==
    /\ bulk[p].pc = "finish"
    /\ IF Owned(bulk[p].id)
       THEN /\ job' = [job EXCEPT !.status = IF bulk[p].failed THEN "failed" ELSE "succeeded"]
            /\ lease' = NoLease
       ELSE UNCHANGED <<job, lease>>
    /\ bulk' = [bulk EXCEPT ![p] = IdleBulk]
    /\ UNCHANGED <<queue, status, streak, snapshot, clock, drain, req, cron, faults>>

-----------------------------------------------------------------------------
(* Time, failures and the environment *)

Alive(id) == \E p \in Proc : drain[p].id = id \/ bulk[p].id = id

(* A lease whose worker is gone expires; one whose worker is alive expires  *)
(* only when the renewals stall.                                            *)
LeaseExpires ==
    /\ lease.owner # NoId /\ lease.live
    /\ lease' = [lease EXCEPT !.live = FALSE]
    /\ IF Alive(lease.owner) THEN faults < MaxFaults /\ faults' = faults + 1
                             ELSE UNCHANGED faults
    /\ UNCHANGED <<queue, job, status, streak, snapshot, clock, drain, bulk, req, cron>>

Crash(p) ==
    /\ faults < MaxFaults /\ faults' = faults + 1
    /\ drain' = [drain EXCEPT ![p] = IdleDrain]
    /\ bulk' = [bulk EXCEPT ![p] = IdleBulk]
    /\ req' = [req EXCEPT ![p] = IdleReq]
    /\ cron' = [cron EXCEPT ![p] = "idle"]
    /\ UNCHANGED <<shared, snapshot, clock>>

TimePasses ==
    /\ clock < MaxTime
    /\ clock' = clock + 1
    /\ UNCHANGED <<shared, snapshot, drain, bulk, req, cron, faults>>

-----------------------------------------------------------------------------
Init ==
    /\ queue = <<>>
    /\ job = [id |-> NoId, status |-> "none", selection |-> NoItem, coverage |-> {},
               completed |-> 0]
    /\ lease = NoLease
    /\ status = [k \in Key |-> "none"]
    /\ streak = 0
    /\ snapshot = [k \in Key |-> 0]
    /\ clock = 0
    /\ drain = [p \in Proc |-> IdleDrain]
    /\ bulk = [p \in Proc |-> IdleBulk]
    /\ req = [p \in Proc |-> IdleReq]
    /\ cron = [p \in Proc |-> "idle"]
    /\ faults = 0

(* What a live process does by itself once it has begun. *)
DrainStep(p) ==
    \/ ClaimRead(p) \/ ClaimWrite(p) \/ DrainEnd(p) \/ FetchDone(p)
    \/ Publish(p) \/ PublishUnfinished(p) \/ PublishRefused(p)
    \/ RequeueLeaseLost(p) \/ FailQueued(p)
BulkStep(p) ==
    \/ StartClaim(p) \/ RunNext(p) \/ RunFetchDone(p) \/ RunPublish(p)
    \/ RunFailure(p) \/ RunFinish(p)

Next ==
    \/ \E p \in Proc :
         \/ DrainStep(p) \/ BulkStep(p) \/ RenewalLost(p) \/ EnqueueWrite(p)
         \/ EnqueueScheduled(p) \/ GetStatus(p) \/ Crash(p)
    \/ \E p \in ClientProc : EnqueueDemand(p)
    \/ \E p \in BulkProc, coverage \in Coverages : Start(p, coverage)
    \/ \E p \in CronProc : Tick(p)
    \/ LeaseExpires
    \/ TimePasses

Spec == Init /\ [][Next]_vars

(* Awaited calls return (the source has an overall deadline), the cron      *)
(* handler runs each minute, and time passes: nobody fairly sends requests, *)
(* or crashes.                                                              *)
Fairness ==
    /\ \A p \in Proc :
         WF_vars(DrainStep(p)) /\ WF_vars(BulkStep(p)) /\ WF_vars(EnqueueWrite(p))
    /\ \A p \in CronProc : WF_vars(Tick(p)) /\ WF_vars(EnqueueScheduled(p))
    /\ WF_vars(LeaseExpires)

FairSpec == Spec /\ Fairness

-----------------------------------------------------------------------------
(* Properties *)

JobState ==
    [id : JobId \cup {NoId}, status : {"none", "running", "succeeded", "failed"},
     selection : Item \cup {NoItem}, coverage : SUBSET Key, completed : Nat]
LeaseState == [owner : JobId \cup {NoId}, live : BOOLEAN]
DrainState ==
    {d \in [pc : {"idle", "read", "claim", "fetch", "publish", "requeue", "fail", "done", "thrown"},
           item : Item \cup {NoItem}, id : JobId \cup {NoId}, at : Nat, lost : BOOLEAN,
           left : Int] :
        d.pc \in {"idle", "read", "done", "thrown"} \/ d.item \in Item}
BulkState ==
    [pc : {"idle", "waiting", "claim", "next", "fetch", "publish", "fail", "finish"},
     id : JobId \cup {NoId}, todo : SUBSET Key, key : Key \cup {NoKey},
     at : Nat, lost : BOOLEAN, failed : BOOLEAN]
ReqState ==
    {r \in [pc : {"idle", "write"}, adds : SUBSET Key, kind : {"none", "demand", "scheduled"}] :
        r.pc = "idle" \/ r.kind # "none"}

(* Types of the shared document and of the process-local state: a worker    *)
(* never holds the null element that a recovery can leave in the queue, and *)
(* it has an item from the claim to the last write.                         *)
TypeOK ==
    /\ queue \in Seq(Item \cup {NullItem})
    /\ job \in JobState
    /\ lease \in LeaseState
    /\ status \in [Key -> {"none", "pending", "valid", "failed"}]
    /\ streak \in Nat
    /\ snapshot \in [Key -> Nat]
    /\ clock \in Nat
    /\ drain \in [Proc -> DrainState]
    /\ bulk \in [Proc -> BulkState]
    /\ req \in [Proc -> ReqState]
    /\ cron \in [Proc -> {"idle", "waiting", "ready"}]
    /\ faults \in Nat

(* A lease belongs to the running job, and a running job has its lease:     *)
(* the branches of recoverInterrupted for a running job without a lease     *)
(* are unreachable, and no finished job leaves a lease that blocks the next.*)
LeaseBelongsToJob ==
    /\ job.status = "running" => lease.owner = job.id /\ job.id # NoId
    /\ lease.owner # NoId => job.status = "running"

(* The loops that work, known by their ids, and those without a live lease. *)
Workers == ({drain[p].id : p \in Proc} \cup {bulk[p].id : p \in Proc}) \ {NoId}
Unleased == {id \in Workers : ~(lease.live /\ lease.owner = id)}

(* Loops of all processes overlap only through faults: each one that works  *)
(* on without a live lease had its lease run out under it.  Claims, starts, *)
(* recoveries and reads of the status alone never put a second worker next  *)
(* to one whose lease is still ahead of its expiry.                         *)
OverlapCostsFaults == Cardinality(Unleased) <= faults

(* The queue holds a class-week once, whoever appends, requeues or recovers *)
(* it: enqueue filters against the queue at the write, not at the read.     *)
QueueKeysDistinct ==
    \A i, j \in DOMAIN queue :
        queue[i].key = queue[j].key /\ queue[i] # NullItem => i = j

(* The result a worker is about to publish is not older than what is        *)
(* already published, as long as the job is still its own.                  *)
PendingResultIsFresh ==
    /\ \A p \in Proc : drain[p].pc = "publish" /\ drain[p].id = job.id =>
          drain[p].id # NoId /\ \A k \in Key : k = drain[p].item.key => snapshot[k] <= drain[p].at
    /\ \A p \in Proc : bulk[p].pc = "publish" /\ bulk[p].id = job.id =>
          bulk[p].id # NoId /\ \A k \in Key : k = bulk[p].key => snapshot[k] <= bulk[p].at

(* The synchronisation implements the abstract feed: a published snapshot   *)
(* is never replaced by an answer that the adapter gave before it.  A       *)
(* worker that lost its lease while it fetched cannot overwrite what its    *)
(* successor published.                                                     *)
Feed == INSTANCE SnapshotFeed WITH Key <- Key, MaxTime <- MaxTime, snapshot <- snapshot, clock <- clock
ImplementsFeed == Feed!Spec

(* A request that was accepted is in the queue or with the running job, as  *)
(* long as nothing has failed.                                              *)
NoStrandedRequest ==
    faults = 0 => \A k \in Key : status[k] = "pending" =>
        k \in QueueKeys \/ (job.status = "running" /\ job.selection.key = k)

(* Such a request is answered with a result or a failure, unless something  *)
(* fails first.                                                             *)
RequestAnswered ==
    \A k \in Key :
        status[k] = "pending" /\ faults = 0 ~> status[k] \in {"valid", "failed"} \/ faults > 0

(* The running job ends: it finishes, fails or is recovered, also when its  *)
(* process crashed or its lease ran out.                                    *)
JobEnds == job.status = "running" ~> job.status # "running"

(* Whatever is in the queue is taken from it, in spite of crashes and lost  *)
(* leases; scheduled items are not starved by demand.                       *)
QueueServed == \A k \in Key : k \in QueueKeys ~> k \notin QueueKeys

-----------------------------------------------------------------------------
(* What tests and comments of the source say and its code does not do *)

(* "Timetable synchronization failed; recovery will follow lease expiry":   *)
(* the recovery of an interrupted job leaves a queue the worker can read.   *)
RecoveredQueueIsReadable == ~Poisoned

(* "requeues an expired demand owner and starts the shared worker": a job   *)
(* whose worker is gone, and which has published nothing, is back in the    *)
(* queue before another job takes its place.                                *)
ExpiredOwnerIsRequeued ==
    [][\A k \in Key :
          job.status = "running" /\ job.completed = 0 /\ job.selection.key = k
          /\ job'.id # job.id
          => \E i \in DOMAIN queue' : queue'[i].key = k]_vars
=============================================================================
