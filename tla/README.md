# A TLA+ verification of manager_points

The repository is a student management system: a NestJS backend (`backend/src`) over MongoDB and a
Next.js frontend. Several backend processes may run at once; they share nothing but the database.
Almost every handler is a sequence of awaited single-document calls. One such call is atomic, what
lies between two of them is not: other requests run there, and the process may stop there. The
models are about what can go wrong between the calls.

Paths in this file are relative to `src/backend/src/`.

| module | models | extends / instantiates | checked by | proofs |
|---|---|---|---|---|
| `TimetableSync` | queue, job lease and workers of the timetable synchronisation | `INSTANCE SnapshotFeed` | `MCTimetableSync` | `TimetableSyncProofs`, `TimetableSyncFencing`, `TimetableSyncQueue` |
| `SnapshotFeed` | the abstract promise of that synchronisation | | through `TimetableSync` | as above |
| `BedAssignment` | giving dormitory beds to roster entries | `INSTANCE BedLedger` | `MCBedAssignment` | `BedAssignmentProofs` |
| `BedLedger` | the abstract promise about beds | | through `BedAssignment` | as above |
| `RosterDeletion` | deleting entries, composed with the assignments | `BedAssignment` | `MCRosterDeletion` | |
| `AuthSessions` | session families, refresh tokens, revocation | | `MCAuthSessions` | `AuthSessionsProofs` |
| `AttendanceSync` | from attendance marks to academic records | | `MCAttendanceSync` | `AttendanceSyncProofs` |
| `GradingSummary` | from academic records to details, total, grade and rank of a summary | | `MCGradingSummary` | `GradingSummaryProofs` |
| `InvoicePayments` | meter readings, monthly invoices, payment, proof and review | | `MCInvoicePayments` | `InvoicePaymentsProofs` |

`TimetableSync` takes `SnapshotFeed` with `Feed == INSTANCE SnapshotFeed WITH ...`, and `BedAssignment` takes
`BedLedger` with `Transfers == INSTANCE BedLedger WITH ...`; that each implements its abstract specification is checked
and proved.

## 1. Inventory

For each component: state, operations, interactions, what is hard, what makes it correct.

**Timetable synchronisation** (`timetable/timetable-sync.service.ts`). State: one document named
`default` with the queue of class-weeks, the current job, the lease (owner, expiry) that fences its
worker, the statuses of past requests, settings and catalog; and one snapshot document per
class-week. Operations: enqueue (demand or scheduled), drain (claim, fetch, publish, requeue,
fail), the bulk job (start, run), recovery, status, the cron tick. It calls the adapter, which reads
the school's web site. Hard: several workers, leases that expire under a live worker, crashes,
late answers, a bounded queue read before it is written, starvation between two kinds of requests.
Correct when at most one worker acts for a job, an answer never replaces a later one, an accepted
request is not lost, and every job ends.

**Timetable reading** (`timetable.service.ts`, `school-timetable.adapter.ts`, `timetable.parser.ts`).
State in each process: logged-in sessions, requests in flight, a cache of results. Fetches and parses pages.
Hard: the caches of two processes disagree.

**Dormitory room assignment** (`dormitory/services/room-assignment.service.ts`). State: the status of
each bed, the bed of each roster entry, the bed of each active contract. Operations: assign, assign
the first free bed, unassign, delete an entry, reassign under a contract, suggest. Each reserves and
releases beds by conditional updates and compensates when a later call fails. Hard: races between
requests for the same bed or entry, partial failure, crashes. Correct when no two entries have a bed,
an occupied bed is marked used, and no bed is lost.

**Invoices** (`dormitory/services/invoices.service.ts`). State: one invoice for each room and month (a unique
index) with its two utilities, total, payment and the review of a proof; one meter reading for each room and
month. Operations: readings in bulk, creation, update, payment, a new proof or none, its approval,
rejection or revocation, deletion in bulk. Edits and payments load a document and save what differs from
the copy; proofs and reviews are conditional updates. Hard: an edit, a payment and a review that were decided
on the same copy, a crash between the meter and the invoice, a rejection that is sent twice. Correct when payment,
confirmation and approval agree, a payment or an approval is only undone by somebody who saw it, a
request leaves one rejection, and readings saved in peace are those of the bill.

**Dormitory administration**: contracts (create, renew, cancel, transfer: check-then-insert and an
unconditional release of the bed), rooms and beds (status changes, cached availability counters),
roster (import, identity links), room fees, maintenance, violations, buildings, reports.

**Sessions and tokens** (`auth/services/session.service.ts`, `token.service.ts`). State: a session
document per family (current and previous token, retry window, parent, revoked), token documents
that only locate a family, and legacy tokens without a family. Operations: login, fork, refresh
with rotation, upgrade of a legacy token, validation, revocation of one session, of others, of an
account, of a token. Hard: the same token refreshed twice at once, answers that are lost,
revocation while a refresh or an upgrade is under way. Correct when a family never forks, a token that
was sent can be presented, nothing is answered after a revocation and revocation is final.

**Impersonation leases** (`auth/services/impersonation.service.ts`). State: a lease document that
names an actor, a subject and a parent session. Operations: acquire, validate and renew, release,
expire. Tied to sessions by id. **Login, passwords and roles** (`auth.service.ts`,
`password.service.ts`, `rbac.service.ts`): accounts, mail, permissions; they call the two services above.

**Attendance to points** (`activity-attendance/`, `attendance-sessions/`). State: an attendance
document per student and schedule (approval, status, synced flag, link to a record) and academic
records with a unique idempotency key. Operations: manual and QR check-in, cancellation, approval,
rejection, the finalizer that approves when an activity has ended, the sync that creates the record
and sets the flag, its retry each minute, revocation. Hard: two documents without a transaction, a cap
that is checked before it is used up, in-memory kicks that are lost, a retry over a bounded batch.
Correct when a crash between the two writes is repaired, the cap holds up to the races, a
revoked record stays revoked, and an approved mark is eventually synced.

**Completion awards** (`activity-completion.service.ts`): awards by sequence number, re-evaluated on
each sync.

**Records, evaluation and summaries** (`academic-record/`, `evaluation-detail/`, `summaries-point/`). State: academic
records, each a document of its own, and a summary for each student and semester that embeds one detail for each
criterion (count, system score, the scores of student and teacher, the final score, reviewed, locked), a
total, a grade, a rank and a status (draft, submitted, reviewed, locked). Operations: intents that add or take away a
record, creation, update, trash, restore, removal; each ends in a synchronisation that counts the records and rewrites
details; view, edit, review, approval, cancellation; the total is computed again after each. Some saves carry
the version of the copy that was read, others carry nothing. Hard: the records are counted once and the
summary is read again after a conflict; a status is checked on a copy; two writers of one array. Correct when no
synchronisation touches a locked summary, no detail disappears but by an update of the details, and what races have left wrong is put right by the next
operation that runs alone. `projection.listener.ts` subscribes to events that nothing emits, and is dead.

**Activities, schedules, tasks, progress, class reports, students, classes, departments,
semesters, criteria, categories**: validated edits of single documents, some cascading deletes.
**Storage** (`core/storage/`): files, references, a lease-protected reconciliation. **System**:
backup, restore, audit log. **Notifications, mail, rate limits, PDF templates**: I/O and formatting.
**Agents, orchestrator, tasks**: a mock that inserts pending task documents. **Frontend**: a client
with its own drafts and caches, without shared state.

`PROJECT.json` lists all of these with their status, and the hazards at the lines where they bite.

## 2. Plan

Order: what is concurrent, persistent and central first.

1. `SnapshotFeed`, `TimetableSync`: done; the lease protocol is the most intricate of the system.
2. `BedAssignment`, `RosterDeletion`: done for entries without a contract, with the abstract `BedLedger`.
3. `AuthSessions`: done, with the impersonation lease abstracted.
4. `AttendanceSync`: done for activities without a completion rule.
5. `GradingSummary`: done for criteria that are scored by count. It starts where `AttendanceSync` ends, with
   records; the two are not composed, as a record of attendance is one more `Create`.
6. `InvoicePayments`: done for the utility invoices of a room.
7. `ImpersonationLeases`, composed with `AuthSessions`: acquire, renew, expire, release; one active
   lease per actor, no lease that outlives its parent.
8. `BedTransfers`, extending `BedAssignment`: contracts, `reassignActiveContract`, cancellation, the
   bed status edits. The loser of two concurrent transfers of a contract marks the old bed used again in its catch,
   without a datastore error, so transfers do not implement `BedLedger` as it stands.
9. `TimetableAdapter`, composed with `TimetableSync`: the result cache and the requests in flight of each
   process, with contents; how stale a published timetable can be.
10. `CompletionAward`, composed with `AttendanceSync`; `StorageReconciliation`.

Theorems to come: those of the new modules. Every safety property that a passing run checks has its theorem.

## 3. The models

### TimetableSync

| model | code |
|---|---|
| `queue`, `job`, `lease` | the fields of the state document; `lease.live` says whether `expiresAt` is ahead |
| `status`, `streak` | the last entry of `statuses` per key; the run of demand entries at its end |
| `snapshot`, `clock` | when the adapter gave the answer that is published per class-week; time, as far as it orders such answers |
| `drain[p]`, `bulk[p]`, `req[p]`, `cron[p]` | the local state of `drainQueue`, `start`/`run`, `enqueue` and `scheduled` in process `p` |
| `ClaimRead`, `ClaimWrite` | `claimNext`: the read that picks an item, the conditional update that takes it |
| `FetchDone`, `Publish`, `PublishUnfinished`, `PublishRefused`, `RequeueLeaseLost`, `FailQueued` | `processQueued`, by outcome |
| `RenewalLost`, `LeaseExpires` | the renewal timer and the clock |
| `GetStatus`, `Tick`, `Start` | `recoverInterrupted` and what each caller does after it |
| `EnqueueDemand`, `EnqueueScheduled`, `EnqueueWrite` | `enqueue`: the read with its refusals, the write that filters against the queue of that moment |
| `StartClaim`, `RunNext`, `RunFetchDone`, `RunPublish`, `RunFailure`, `RunFinish` | `start` and `run` |
| `Crash` | all local state of a process is lost |

The job id and lease owner are random and drawn together; a fresh id is one that neither the document
nor any process holds, which lets a small set of ids be used again. Whether a terminal status is still
cooling is a choice (`CoolingSets`): clocks are not modelled. `statuses` is taken as long enough to keep
the last entry of each key. `SnapshotFeed` has neither workers nor a lease: what is published is
never replaced by an answer that the adapter gave before it. That is what the lease promises, and not more:
each process caches the answers of its adapter for a minute (`cacheTtlMs`), so an answer given later by
another process may show a timetable that is up to a minute older. The model has no contents and does
not see this; it is listed as a hazard.

### BedAssignment and RosterDeletion

`bed` is the status of each bed, `entry` the `bed_id` of each roster entry, `op[r]` the position of a
request with what it has read. Each action is one database call of `assignRoom` (`AssignRead`,
`Reserve`, `Move`, `FreeOld`, `Sync`), of its compensations (`UndoReserve`, `BackEntry`, `BackNew`,
`BackOld`), of `assignFirstAvailableBed` (`FindBed`) or of `unassignRoom` (`Unassign`, `Clear`,
`FreeCur`, `UnassignSync`, `Restore`). `RosterDeletion` adds `deleteRosterEntry` over the same
beds. A crash ends a request between two calls; a datastore error sends it to its catch. Room status,
leadership and availability counters do not decide anything that is kept, and are left out.

`BedLedger` knows no requests: a bed is free, the place of an entry, in somebody's hands, or lost. The mapping takes
for the beds in hands what each request holds between its calls (`Holding`): a bed it has reserved and not yet moved an
entry to, or one that an entry has left and that it has not yet released. An entry only takes a bed out of the hands
of a request, and a crash loses one bed at most. From the first datastore error on nothing is promised (`failed`).

### AuthSessions

`fam` holds the session documents, `doc` the family each persisted token names, `linked` and `marked`
the `session_id` and `is_revoked` of legacy tokens, `op[r]` a request. `refreshToken` is `Refresh`,
then for a legacy token `Upgrade` and `Link`, then `FirstValidate`, `Candidate`, `RotateRead`, `Rotate`
(or `LostRead`, `Settle` for the loser of the swap), `FinalValidate`, `Answer`; a validation of a
session with a parent is followed by `CheckParent`. Every revocation ends in `RevokeRead` and `RevokeDoc`,
one document at a time as `updateMany` works. `Fail` ends any request at any point and stands for
crashes, errors, refused accounts, refused leases and expiry. `known`, `answered`, `barred` and the
field `late` are history for the properties.

### AttendanceSync

`att` holds the marks, `record` the academic record of each mark under its idempotency key, `open`
whether the window of the activity is open. `Checkin`/`CheckinWrite` and `Cancel`/`CancelWrite` are
the manual check-in, `Decide`/`DecideWrite` approve and reject, `Finalize` the finalizer, `SyncRead`,
`CheckCap`, `Lookup`, `Create`, `Mark` the sync, `RetryTick`/`RetryNext` its retry, `RevokeRead`,
`Unrecord`, `Clear` the revocation. `save()` writes only the fields that differ from the copy that was
read, which is what `CancelWrite` and `Clear` do. One activity, one semester, one point for each mark;
the set of marks queued in memory of one process is ignored, as other processes do not see it.
`Watched` names the marks that the liveness properties follow: the marks of one student are alike, so
one of them stands for all.

### GradingSummary

`rec` holds the records (criterion, role of the author, state), `sum` the summary document, `op[r]` a request.

| model | code |
|---|---|
| `Intent`, `IntentDetail`, `IntentCount`, `IntentRecords`, `Insert`, `Delete` | `handleScoreIntent` |
| `Create`, `Update`, `Remove`, `Restore`, `Purge`, `CheckLocked`, `RecordWrite` | the operations on one record |
| `SyncRecords`, `SyncSummary`, `SyncSave`, `SyncConflict` | `syncStudentCriterionScore` and its form for several criteria, with the VersionError and its retries |
| `SyncDetail`, `Score` | `calculateSyncDetail`, `calculateCriterionScoreHelper` |
| `RecomputeRead`, `RecomputeSave`, `Counted`, `Total`, `Grade` | `recomputeTotalScore` |
| `Level`, `AuthorLevel`, `Deletable` | the level of a requester, the level of an author to whom a synchronisation falls back, `canDelete` |
| `View`, `Edit`, `CheckLocked`, `EditWrite`, `Review`, `ReviewWrite` | `findOne`, `update`, and `update` of evaluation-detail |
| `Approve` to `RankSave`, `Cancel`, `CancelSave` | `approveGrading`, `cancelApproval` |

A save with a version is refused when another such save came in between: `fresh` says whether the copy is the last
version, and only saves of the whole array move it on. Updates of single fields do not, which is what the
findings are about.

`update` writes whatever its DTO accepts: status, details, total, grade and rank (the pipe strips no field of the DTO, and the
details are not validated). `Sent` bounds the sets of fields that are sent, `Form` the values a client fills in
by itself; it may also send what it read before (`Form \cup {sum}` when the request starts). Sent details go past
the copies that others hold, as `findByIdAndUpdate` moves no version: `edited` marks those copies, and also a review whose
detail may have been replaced by one with another id, which then finds nothing (`ReviewWrite`). The pages of this
repository send no details; the endpoint takes them from any client.

Whose score a synchronisation writes goes by a level. A requester who is handed over has a role code, and an administrator
level 4 (`Level`); where none is handed over (`create`, `update`, `remove`, `restore`, `forceRemove`) the author
of the latest record stands in with the name of the role alone, and `getRoleLevel` gives an administrator level 1
(`AuthorLevel`). `canDelete` reads `role.role_name`, which roles do not have, so every author counts as a
student there (`Deletable`).

A record is worth one point, a criterion earns or takes away, and one category holds all.

### InvoicePayments

`inv` is the invoice of each month of one room, with a fresh `id` for each insertion, so that a save by id
after a deletion finds nothing; `meter` the readings. `Bulk`, `BulkFind`, `BulkLast`, `BulkMeter`, `BulkSave` are
`saveBulkMeterReadings` of one room with its retries after a duplicate of the meter or the invoice; `Create`,
`Update`, `Pay`, `Proof`, `Review`, `Delete` are the loads of the requests with their refusals, and the actions ending
in `Save` (`DeleteOne` for `deleteMany`) what they write. `Billed` writes the parts that differ from the copy that was
loaded; `Reviewable` is the filter of each review, and `Fail` ends a request before any of its calls.
`alone` is history: no other request has run since this one started. The previous readings of a new invoice are
those of the last invoice of *another* month (`$ne`, not an earlier one), which is what `BulkLast` does.
`paid` stands for the status of an invoice: "Đã thanh toán" or not. The two values of old documents, "Chưa thanh toán"
and "Quá hạn", which no code writes any more, are not told apart from the unpaid one.

## 4. What the runs show

| run | instance | shows |
|---|---|---|
| `timetable_safety` | 2 processes, both serve requests, one serves a bulk job; 1 key, 5 ids, queue of 2, two moments, 1 fault | the type invariant, `LeaseBelongsToJob`, `OverlapCostsFaults`, `QueueKeysDistinct`, `PendingResultIsFresh`, `NoStrandedRequest`, and that it implements `SnapshotFeed` |
| `timetable_live` | 1 process with cron, 3 keys, queue of 2, reserve 1, streak 2, 1 fault | `JobEnds` (of queued jobs: no bulk job runs here), `QueueServed`, `RequestAnswered` |
| `timetable_poison` | 2 processes, bulk job, 1 fault | violates `RecoveredQueueIsReadable` |
| `timetable_lost` | the same | violates `ExpiredOwnerIsRequeued` |
| `bed_assignment` | 2 requests, 3 entries, 3 beds, 2 crashes, 1 error | the type invariant, `NoDoubleOccupancy`, `OccupiedBedIsUsed`, `NoBedLost`, and that it implements `BedLedger` |
| `roster_deletion` | 2 requests, 2 entries, 2 beds, no crash, no error | violates `FailedDeletionRestoresItsBed` |
| `auth` | 2 requests, a legacy family, an impersonation session under it and a login of the same account, 4 tokens | the type invariant, `NoAnswerAfterRevocation`, `OneSuccessor`, `SentTokensArePersisted`, `RevocationIsFinal` |
| `attendance` | 1 request and the retry, 3 marks of one student, cap 1, batch 3, 1 cancel, 1 crash, fairness | the type invariant, `CapHoldsUpToRaces`, `RevokedStaysRevoked`, `CrashedSyncCompleted` |
| `attendance_starved` | 3 marks of two students, batch 1, 1 crash, fairness | violates `RetryQueueServed` |
| `grading` | 2 requests of 3, 2 records, 2 criteria (one takes away), a student and an admin; an update sends the details or all else, as read or from one form filled in by hand | the type invariant, `SyncKeepsLockedDetails`, `DetailsPersist`, `LoneRequestHeals`, `LoneApprovalAgrees` |
| `grading_locked` | 2 requests of 3, 1 record, 1 criterion, a teacher | violates `LockedSummaryIsFinal` |
| `invoices` | 2 requests of 4, 2 months, readings 0 and 1, 2 bills, 1 request id | the type invariant, `PaymentAgrees`, `RejectedOnce`, `LoneSaveAgrees`, `ReversalsSawThePayment`, `ApprovalIsKept` |

Bounds. Two processes or requests are what each race needs; the third actor is the datastore. One fault is
what turns an owner into a stale owner, and two moments are needed for an old answer to differ from a
new one. Two crashes and one error cover a crash of each request and a rollback beside a live
request. Four tokens allow two rotations after the legacy token, so a replay and a lost answer both occur;
three marks at a cap of one let two of them compete for the room left by the third. A student and an administrator are the
roles with the least and the greatest level; a teacher is in `grading_locked`, and the theorems hold for all three. Three
requests, two at a time, let a synchronisation, a review and an approval meet, or two of them race and a third repair. Four
requests take an invoice through its creation, its proof and two that race over it; two months are what
previous readings and a deletion of several need, and a single request id is the one that could be
recorded twice. The proofs remove most of these bounds.

Fairness. `TimetableSync`: awaited calls return (the source has an overall deadline, database calls end
or throw), the cron decorator fires each minute, and time passes, so a lease whose worker is gone
expires. Nobody is assumed to send requests, and no fault is fair. `AttendanceSync`: the
interval fires each minute and the calls of a request that runs return. The other modules state no liveness:
nothing in their code promises that a request is sent or ends.

Deadlock is checked except in the runs of `AttendanceSync`, `GradingSummary` and `InvoicePayments`, whose bounds
on marks, crashes and requests end every behaviour. A
run that is given `errors = 0` or `faults = 0` in a property still explores behaviours with faults for
its other properties.

`NoDoubleOccupancy`, `OccupiedBedIsUsed`, `NoBedLost` and `ImplementsLedger` hold as long as no datastore error sends a
request to its rollback: `Restore` and `BackEntry`/`BackOld` write to an entry or a bed that may have
changed hands. Those are listed as hazards. They hold with any number of crashes (except that a crash may
leave a bed used by nobody).

## 5. Findings

1. **A recovered bulk job blocks the queue** (`timetable_poison`). `recoverInterrupted` tests
   `$ne: ['$job.selection', null]`, which is true when the field is missing, and concatenates
   `['$job.selection']`, which then holds a null. A bulk job has no `selection`. `claimNext` and `enqueue`
   throw on the null element, on every later call.
2. **A claim over an expired lease forgets the interrupted item** (`timetable_lost`). The filter of
   `claimNext` looks at the lease, not at the status of the job; only `recoverInterrupted` puts the item
   back, and it no longer finds it.
3. **A failed deletion can give away an occupied bed** (`roster_deletion`). The rollback retakes the bed
   only if it is free, but writes it into the entry in any case. In the trace the entry is assigned another bed while
   its deletion is under way, which makes the deletion fail; the released bed is assigned to a second entry, the
   first is unassigned, and the rollback then puts it back into the bed that the second one has.
4. **Refused marks starve the retry** (`attendance_starved`). Marks that the cap refuses stay unsynced
   and oldest; with a batch full of them a newer mark is never reached.
5. **A locked summary is changed** (`grading_locked`). The update of a summary and the review of a detail check
   the status on a copy and write by id: after an approval in between the summary is a draft again with every detail
   locked, or a detail differs from what was approved.

Two more of the kind of 5, which the models reach and for which no run is kept: a synchronisation saves the whole
array over a review that came after its read (`ReviewWrite` against `SyncSave`), and an invoice that was unpaid when a
bulk deletion read it is deleted with the payment that came in between (`DeleteOne`). In `InvoicePayments`
`ApprovalIsKept` excepts `pay`: a payment by transfer that was decided before the approval puts the review back to
pending on an invoice that is paid, and no review can finish it then.

## 6. Proofs

All theorems hold for every value of the constants that satisfies the module's `ConstantsAssumption`.

`TimetableSyncProofs.TypeCorrect`: `TypeOK` is inductive. It needs the two restrictions it states beside
plain types: a worker that has passed its claim holds an item (else a requeue could queue a value that is
none), and a request about to be written has a kind.

`TimetableSyncFencing` proves `LeaseBelongsToJob`, `OverlapCostsFaults`, `PendingResultIsFresh` and
the refinement of `SnapshotFeed`. `OverlapCostsFaults` is what the filter of the claim is for: of the loops that work
(`Workers`), all but the holder of the live lease (`Unleased`) lost theirs to a fault, so without faults
there is one worker at most. That the ids of the loops differ is no property, as they are random; it is the invariant
`IdsHeldOnce`. The inductive invariant further says that a worker past its claim has an id, that the worker of a live
lease holds it, and that no answer is ahead of the clock. For the workers there are three kinds of step: a claim, which
draws an id nobody holds; a publication, made by the owner, who then stops publishing that result; and every
other step, which keeps ids or drops them and dates results only by the clock as it is. Each action
is shown to be of one kind; each conjunct of the invariant is shown to be kept by each kind. For the overlap each action
either leaves no more workers without the lease, or is a fault and adds one, its holder (`LeaseLost`): a claim takes
the lease only when nobody has it. Freshness is kept
by a publication because the owner is the only worker with the job's id, so no other pending
result counts; and by a claim because a new id has no pending result. A step
then maps to `Publish`, `TimePasses` or a stutter.

`TimetableSyncQueue` proves `QueueKeysDistinct` and `NoStrandedRequest`. The first is inductive by what each way of
writing the queue does to its keys: `$pull` takes one out, a requeue or a recovery puts its key in front of a queue
that does not have it, and an enqueue appends what is missing from the queue at the write. A lemma each says so of any
sequence. The second needs to know that without a fault nobody has reason to requeue: whoever has claimed still owns the
job, and a running job has its worker (`Undisturbed`). A pending key is then handed from the queue to the job's
selection and on to its last status (`Carried`). Each step goes on with a claim, begins one or ends one; the steps that
are left, recoveries of a lost lease and refused updates, are shown to be impossible without a fault.

`BedAssignmentProofs` proves type correctness, `NoDoubleOccupancy`, `OccupiedBedIsUsed` and `NoBedLost`.
The properties themselves are not inductive: a request between `Reserve` and `Move` holds a bed that no
entry has. The invariant is a ledger: as long as no error has happened, no request is in a rollback, and each
bed that an entry has or a request holds is used and has exactly one of these holders. Each step hands a
bed from one holder to the next, and the ledger is kept by such a hand-over. The same hand-overs are the steps of
`BedLedger` (`ImplementsLedger`); that no two requests hold one bed is what makes a bed leave the hands when its one
holder gives it away.

`AttendanceSyncProofs` proves type correctness, with the clause that a linked record exists, and
`RevokedStaysRevoked`; for these the invariant needs that a request that is about to mark follows a record that exists.
`CapHoldsUpToRaces` is proved by counting. The cap is checked against synced marks, so those and the syncs past
the check are together at most the cap and the number of requests (`RoomLeft`): the check adds a process to the second
set, a mark moves one to the first, and a process that is checking is not past its check. An active record without
its synced mark has a sync about to mark it, or was left so by a crash or by a revocation that has ended, and these
are counted (`OrphansPaid`). Both are about cardinalities, for which the sets of marks and of requests are assumed
finite, as those of any collection and any server are.

`AuthSessionsProofs` proves all five properties of its run. The invariant has three layers, each kept by every action
with the help of those before it. `Naming` says which family each token is about: a session only names tokens
of its own, a login under way holds a family and a token that nobody else has, a refresh only carries tokens of
its family (`Good`), and documents never change their family. `Succession` adds that a token which has a successor,
as far as a session, a request or an answer still shows it, has one only, is current in no session and is the
replacement of no request; the swap is the one step that adds a pair. `Closure` says that a family to be ended by
a revocation is over, or is still in the work of that revocation, directly or through its parent; over means revoked, or marked
without ever having been linked. `NoAnswerAfterRevocation` needs this last form: the upgrade of a marked
token may create a session late, and only its refused link keeps it closed. `Init` lets every legacy family have any number of
tokens; that there are no more legacy families than tokens is the assumption this takes.

`GradingSummaryProofs` proves type correctness, `SyncKeepsLockedDetails` and `DetailsPersist`. The last says that
a detail is lost only to an update that sends details, or to a save whose copy such an update went past; requests that
save the array under its version never lose a detail to each other. One fact carries both
(`Current`): a copy that is still the last version was read when the summary was no more locked than now and, unless
an update of the details went past it, had no fewer details. Every step that locks or adds a detail either moves the
version on, or marks the copies it goes past, or keeps this for each copy. `Good` says what a request must
have read to take its next step. The proof has one lemma for each action, over three kinds of step: one that changes only the
request, one that writes the summary without its version, one that moves the version on; `EditWrite`, which marks
the copies of others, is a case of its own.

It also proves `LoneRequestHeals` and `LoneApprovalAgrees`. Their invariant is about a request that has been alone
since it started: all others are idle, and it knows the truth (`Lone`): the counts it has seen are those of the records,
its copy is the summary, the criteria it has synchronised count their records when the total is computed, and
after an approval every detail is locked. Each action of a lone request takes `Lone` from one of its steps to the
next; any other action ends the loneliness of all but the one that starts. The state that races have left when it
starts is arbitrary, which is what "heals" means.

`InvoicePaymentsProofs` proves all six properties of its run. The invariant says of each document that it is
`Consistent` (readings in order, approval, payment and confirmation agree, attempts differ), of each request what
its load has checked (`Good`), and of one that is alone that its copy is the document, that the meter holds the readings it is about
to bill, and that all others are idle (`Lone`): `LoneSaveAgrees` is false without the last. Each
action is shown to keep the invariant and to do to payment and approval only what `Respects` allows; the two action
properties follow from it.

Only model-checked: liveness, that is everything under fairness (`JobEnds`, `QueueServed`, `RequestAnswered`,
`CrashedSyncCompleted`), which the prover does not handle. The violations of section 5 are counterexamples found by
TLC and need no proof.

## 7. What is not modelled

- Contracts and transfers under a contract; bed status edits; the import of the roster; availability
  counters. Planned as `BedTransfers`.
- The impersonation lease and the expiry of sessions and tokens: covered by `Fail`, not as state.
- Clocks as such: an expiry is an event that may come at any time (for a live worker, as a fault).
- Completion rules, minimal attendance, points other than one, QR sessions, removal of a mark.
- Scores entered by hand, options and the conflicts between the counts of several roles; creation and import in bulk;
  `bulkUpsert` of details, which can push a second detail of one criterion; evaluation windows and access checks.
- Tariffs, quotas, occupants, exemption and dates of invoices, the files of proofs (`updatePaymentProof` reads the old
  file's name after it has overwritten it, so it removes none), invoices of contracts and of room fees.
- The lease of the storage reconciliation, which is not renewed; check-then-insert of contracts.
- The settings, catalog and week resolution of the timetable; parsing and scraping.
- Everything else of section 1: single-document edits, reports, files, mail, PDF. These are most of the
  backend by length; a model of them would restate their validation and filters line by line.
- The frontend, which is about two thirds of the implementation: pages, tables and forms over the same
  requests. It shares no state with the backend but through them.
