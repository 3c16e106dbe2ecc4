------------------------- MODULE TimetableSyncQueue -------------------------
(***************************************************************************)
(* The queue of TimetableSync: it holds a class-week once, and as long as  *)
(* nothing has failed an accepted request is in it or with its worker.     *)
(***************************************************************************)
EXTENDS TimetableSyncFencing

-----------------------------------------------------------------------------
(* What the updates of the document do to the keys of a queue *)

Keys(q) == {q[i].key : i \in DOMAIN q}
Distinct(q) == \A i, j \in DOMAIN q : q[i].key = q[j].key /\ q[i] # NullItem => i = j

LEMMA ItemKeys ==
    ASSUME NEW e \in QItem
    PROVE  /\ e # NullItem => e.key \in Key
           /\ NullItem.key = NoKey /\ NoKey \notin Key
BY ConstantsAssumption DEF QItem, Item, NullItem

(* $pull takes one element out and closes the gap. *)
LEMMA WithoutElements ==
    ASSUME NEW q \in Seq(QItem), NEW k, \E i \in DOMAIN q : q[i].key = k
    PROVE  \E i \in 1..Len(q) :
              /\ q[i].key = k
              /\ Without(q, k) \in Seq(QItem) /\ Len(Without(q, k)) = Len(q) - 1
              /\ \A j \in 1..(Len(q) - 1) : Without(q, k)[j] = IF j < i THEN q[j] ELSE q[j + 1]
<1> DEFINE i == CHOOSE j \in DOMAIN q : q[j].key = k
           a == SubSeq(q, 1, i - 1)
           b == SubSeq(q, i + 1, Len(q))
<1>1. i \in 1..Len(q) /\ q[i].key = k /\ Len(q) \in Nat
  BY LenProperties
<1>2. Without(q, k) = a \o b
  BY DEF Without
<1>3. \A j \in 1..Len(q) : q[j] \in QItem
  BY LenProperties
<1> HIDE DEF i
<1>4. /\ a \in Seq(QItem) /\ Len(a) = i - 1
      /\ \A j \in 1..(i - 1) : a[j] = q[j]
  <2>1. \A j \in 1..(i - 1) : q[j] \in QItem
    BY <1>1, <1>3
  <2>2. /\ a \in Seq(QItem) /\ Len(a) = IF 1 <= i - 1 THEN i - 1 - 1 + 1 ELSE 0
        /\ \A j \in 1..(i - 1 - 1 + 1) : a[j] = q[1 + j - 1]
    BY <1>1, <2>1, SubSeqProperties
  <2> HIDE DEF a
  <2> QED BY <1>1, <2>2
<1>5. /\ b \in Seq(QItem) /\ Len(b) = Len(q) - i
      /\ \A j \in 1..(Len(q) - i) : b[j] = q[i + j]
  <2>1. \A j \in (i + 1)..Len(q) : q[j] \in QItem
    BY <1>1, <1>3
  <2>2. /\ b \in Seq(QItem) /\ Len(b) = IF i + 1 <= Len(q) THEN Len(q) - (i + 1) + 1 ELSE 0
        /\ \A j \in 1..(Len(q) - (i + 1) + 1) : b[j] = q[(i + 1) + j - 1]
    BY <1>1, <2>1, SubSeqProperties
  <2> HIDE DEF b
  <2> QED BY <1>1, <2>2
<1> HIDE DEF a, b
<1>6. /\ a \o b \in Seq(QItem) /\ Len(a \o b) = Len(a) + Len(b)
      /\ \A j \in 1..(Len(a) + Len(b)) : (a \o b)[j] = IF j <= Len(a) THEN a[j] ELSE b[j - Len(a)]
  BY <1>4, <1>5, ConcatProperties
<1>7. ASSUME NEW j \in 1..(Len(q) - 1)
      PROVE  (a \o b)[j] = IF j < i THEN q[j] ELSE q[j + 1]
  <2>1. CASE j < i
    BY <1>1, <1>4, <1>5, <1>6, <2>1
  <2>2. CASE ~(j < i)
    <3>1. (a \o b)[j] = b[j - (i - 1)] /\ j - (i - 1) \in 1..(Len(q) - i)
      BY <1>1, <1>4, <1>5, <1>6, <2>2
    <3>2. b[j - (i - 1)] = q[i + (j - (i - 1))]
      BY <1>5, <3>1
    <3>3. i + (j - (i - 1)) = j + 1
      BY <1>1
    <3> QED BY <2>2, <3>1, <3>2, <3>3
  <2> QED BY <2>1, <2>2
<1>8. Len(a \o b) = Len(q) - 1
  BY <1>1, <1>4, <1>5, <1>6
<1> QED BY <1>1, <1>2, <1>6, <1>7, <1>8

LEMMA WithoutDistinct ==
    ASSUME NEW q \in Seq(QItem), NEW k, Distinct(q)
    PROVE  Distinct(Without(q, k)) /\ Keys(q) \ {k} \subseteq Keys(Without(q, k))
<1>1. CASE \E i \in DOMAIN q : q[i].key = k
  <2> DEFINE w == Without(q, k)
  <2>1. PICK i \in 1..Len(q) :
          /\ q[i].key = k
          /\ w \in Seq(QItem) /\ Len(w) = Len(q) - 1
          /\ \A j \in 1..(Len(q) - 1) : w[j] = IF j < i THEN q[j] ELSE q[j + 1]
    BY <1>1, WithoutElements
  <2>2. DOMAIN q = 1..Len(q) /\ Len(q) \in Nat /\ DOMAIN w = 1..(Len(q) - 1)
    BY <2>1, LenProperties
  <2> HIDE DEF w
  <2>3. Distinct(w)
    <3> SUFFICES ASSUME NEW m \in DOMAIN w, NEW n \in DOMAIN w, w[m].key = w[n].key,
                        w[m] # NullItem
                 PROVE  m = n
      BY DEF Distinct
    <3> DEFINE mm == IF m < i THEN m ELSE m + 1
               nn == IF n < i THEN n ELSE n + 1
    <3>1. mm \in DOMAIN q /\ nn \in DOMAIN q /\ w[m] = q[mm] /\ w[n] = q[nn]
      BY <2>1, <2>2
    <3>2. mm = nn
      <4> HIDE DEF mm, nn
      <4> QED BY <3>1 DEF Distinct
    <3> QED BY <2>2, <3>2
  <2>4. ASSUME NEW j \in DOMAIN q, q[j].key # k PROVE q[j].key \in Keys(w)
    <3>1. j # i
      BY <2>1, <2>4
    <3>2. \E m \in DOMAIN w : w[m] = q[j]
      <4>1. CASE j < i
        BY <2>1, <2>2, <4>1
      <4>2. CASE ~(j < i)
        <5>1. j - 1 \in 1..(Len(q) - 1) /\ ~(j - 1 < i) /\ (j - 1) + 1 = j
          BY <2>1, <2>2, <3>1, <4>2
        <5> QED BY <2>1, <2>2, <5>1
      <4> QED BY <4>1, <4>2
    <3> QED BY <3>2 DEF Keys
  <2> QED BY <2>3, <2>4 DEF Keys, w
<1>2. CASE ~ \E i \in DOMAIN q : q[i].key = k
  BY <1>2 DEF Without
<1> QED BY <1>1, <1>2

(* The head of a queue takes a null, or an item that the queue has not. *)
LEMMA PrependDistinct ==
    ASSUME NEW q \in Seq(QItem), NEW e \in QItem, Distinct(q), e = NullItem \/ e.key \notin Keys(q)
    PROVE  Distinct(<<e>> \o q) /\ Keys(q) \cup {e.key} \subseteq Keys(<<e>> \o q)
<1> DEFINE w == <<e>> \o q
<1>1. <<e>> \in Seq(QItem) /\ Len(<<e>>) = 1 /\ <<e>>[1] = e
  OBVIOUS
<1>2. /\ w \in Seq(QItem) /\ Len(w) = 1 + Len(q)
      /\ \A j \in 1..(1 + Len(q)) : w[j] = IF j <= 1 THEN <<e>>[j] ELSE q[j - 1]
  BY <1>1, ConcatProperties
<1>3. /\ DOMAIN q = 1..Len(q) /\ Len(q) \in Nat /\ DOMAIN w = 1..(1 + Len(q))
      /\ \A j \in 1..Len(q) : q[j] \in QItem
  BY <1>2, LenProperties
<1> HIDE DEF w
<1>4. w[1] = e /\ \A j \in 2..(1 + Len(q)) : j - 1 \in DOMAIN q /\ w[j] = q[j - 1]
  BY <1>1, <1>2, <1>3
<1>5. ASSUME NEW j \in 2..(1 + Len(q)), w[j].key = e.key, w[j] # NullItem \/ e # NullItem
      PROVE  FALSE
  <2>1. q[j - 1] \in QItem /\ w[j] = q[j - 1] /\ w[j].key \in Keys(q)
    BY <1>3, <1>4 DEF Keys
  <2> QED BY <1>5, <2>1, ItemKeys
<1>6. Distinct(w)
  <2> SUFFICES ASSUME NEW m \in DOMAIN w, NEW n \in DOMAIN w, w[m].key = w[n].key,
                      w[m] # NullItem
               PROVE  m = n
    BY DEF Distinct
  <2>1. CASE m = 1
    BY <1>3, <1>4, <1>5, <2>1
  <2>2. CASE n = 1
    BY <1>3, <1>4, <1>5, <2>2
  <2>3. CASE m # 1 /\ n # 1
    <3>1. m \in 2..(1 + Len(q)) /\ n \in 2..(1 + Len(q))
      BY <1>3, <2>3
    <3>2. m - 1 = n - 1
      BY <1>4, <3>1 DEF Distinct
    <3> QED BY <3>1, <3>2
  <2> QED BY <2>1, <2>2, <2>3
<1>7. Keys(q) \cup {e.key} \subseteq Keys(w)
  <2>1. ASSUME NEW j \in DOMAIN q PROVE q[j].key \in Keys(w)
    <3>1. j + 1 \in 2..(1 + Len(q)) /\ j + 1 \in DOMAIN w /\ (j + 1) - 1 = j
      BY <1>3
    <3> QED BY <1>4, <3>1 DEF Keys
  <2>2. e.key \in Keys(w)
    BY <1>3, <1>4 DEF Keys
  <2> QED BY <2>1, <2>2 DEF Keys
<1> QED BY <1>6, <1>7 DEF w

LEMMA CutDistinct ==
    ASSUME NEW q \in Seq(QItem), NEW n \in Nat, n < Len(q), Distinct(q)
    PROVE  Distinct(SubSeq(q, 1, n))
<1> DEFINE w == SubSeq(q, 1, n)
<1>1. DOMAIN q = 1..Len(q) /\ Len(q) \in Nat /\ \A j \in 1..n : q[j] \in QItem
  BY LenProperties
<1>2. /\ w \in Seq(QItem) /\ Len(w) = IF 1 <= n THEN n - 1 + 1 ELSE 0
      /\ \A j \in 1..(n - 1 + 1) : w[j] = q[1 + j - 1]
  BY <1>1, SubSeqProperties
<1>3. DOMAIN w = 1..Len(w)
  BY <1>2, LenProperties
<1> HIDE DEF w
<1>4. DOMAIN w \subseteq DOMAIN q /\ \A j \in DOMAIN w : w[j] = q[j]
  BY <1>1, <1>2, <1>3
<1>5. Distinct(w)
  BY <1>4 DEF Distinct
<1> QED BY <1>5 DEF w

(* What enqueue appends: the class-weeks that the queue has not, each once. *)
Appended(order, kind) == [i \in DOMAIN order |-> [key |-> order[i], kind |-> kind]]

LEMMA AppendDistinct ==
    ASSUME NEW q \in Seq(QItem), NEW T \in SUBSET Key, T \cap Keys(q) = {},
           NEW order \in SetToSeqs(T), NEW kind \in {"demand", "scheduled"}, Distinct(q)
    PROVE  LET new == Appended(order, kind)
           IN  Distinct(q \o new) /\ Keys(q) \cup T \subseteq Keys(q \o new)
<1> DEFINE new == Appended(order, kind)
           w == q \o new
           N == Cardinality(T)
<1>1. IsFiniteSet(T) /\ N \in Nat
  BY ConstantsAssumption, FS_Subset, FS_CardinalityType
<1>2. order \in [1..N -> T] /\ \A i, j \in 1..N : i # j => order[i] # order[j]
  BY DEF SetToSeqs
<1> HIDE DEF N
<1>3. new \in Seq(QItem) /\ Len(new) = N /\ \A i \in 1..N : new[i].key = order[i]
  BY <1>1, <1>2 DEF QItem, Item, Appended
<1> HIDE DEF new
<1>4. /\ w \in Seq(QItem) /\ Len(w) = Len(q) + N
      /\ \A j \in 1..(Len(q) + N) : w[j] = IF j <= Len(q) THEN q[j] ELSE new[j - Len(q)]
  <2>1. /\ w \in Seq(QItem) /\ Len(w) = Len(q) + Len(new)
        /\ \A j \in 1..(Len(q) + Len(new)) : w[j] = IF j <= Len(q) THEN q[j] ELSE new[j - Len(q)]
    BY <1>3, ConcatProperties, Zenon
  <2> QED BY <1>3, <2>1
<1>5. DOMAIN q = 1..Len(q) /\ Len(q) \in Nat /\ DOMAIN w = 1..(Len(q) + N)
  BY <1>4, LenProperties
<1> HIDE DEF w
<1>6. ASSUME NEW j \in 1..(Len(q) + N), j > Len(q)
      PROVE  j - Len(q) \in 1..N /\ w[j].key = order[j - Len(q)] /\ w[j].key \in T
  <2>1. j - Len(q) \in 1..N
    BY <1>1, <1>5, <1>6
  <2>2. w[j] = new[j - Len(q)]
    BY <1>4, <1>5, <1>6
  <2> QED BY <1>2, <1>3, <2>1, <2>2
<1>7. \A j \in 1..Len(q) : j \in DOMAIN w /\ w[j] = q[j] /\ w[j].key \in Keys(q)
  <2>1. \A j \in 1..Len(q) : q[j].key \in Keys(q)
    BY <1>5 DEF Keys
  <2>2. \A j \in 1..Len(q) : j \in DOMAIN w /\ w[j] = q[j]
    BY <1>1, <1>4, <1>5
  <2> QED BY <2>1, <2>2
<1>8. Distinct(w)
  <2> SUFFICES ASSUME NEW m \in DOMAIN w, NEW n \in DOMAIN w, w[m].key = w[n].key,
                      w[m] # NullItem
               PROVE  m = n
    BY DEF Distinct
  <2>1. CASE m <= Len(q) /\ n <= Len(q)
    BY <1>5, <1>7, <2>1 DEF Distinct
  <2>2. CASE m > Len(q) /\ n > Len(q)
    <3>1. m - Len(q) = n - Len(q)
      BY <1>2, <1>5, <1>6, <2>2
    <3> QED BY <1>1, <1>5, <3>1
  <2>3. CASE ~(m <= Len(q) <=> n <= Len(q))
    BY <1>1, <1>5, <1>6, <1>7, <2>3
  <2> QED BY <1>1, <1>5, <2>1, <2>2, <2>3
<1>9. Keys(q) \subseteq Keys(w)
  BY <1>5, <1>7 DEF Keys
<1>10. T \subseteq Keys(w)
  <2>1. order \in Surjection(1..N, T)
    <3>1. IsFiniteSet(1..N) /\ Cardinality(1..N) = N
      BY <1>1, FS_Interval
    <3>2. order \in Injection(1..N, T)
      BY <1>2 DEF Injection, IsInjective
    <3> QED BY <1>1, <3>1, <3>2, FS_Injection DEF N
  <2>2. ASSUME NEW k \in T PROVE k \in Keys(w)
    <3>1. PICK i \in 1..N : order[i] = k
      BY <2>1 DEF Surjection
    <3>2. Len(q) + i \in DOMAIN w /\ w[Len(q) + i].key = k
      <4>1. Len(q) + i \in 1..(Len(q) + N) /\ Len(q) + i > Len(q) /\ (Len(q) + i) - Len(q) = i
        BY <1>1, <1>5
      <4> QED BY <1>5, <1>6, <3>1, <4>1
    <3> QED BY <3>2 DEF Keys
  <2> QED BY <2>2
<1> QED BY <1>8, <1>9, <1>10 DEF w, new

-----------------------------------------------------------------------------
(* The queue holds a class-week once *)

LEMMA KeysOfQueue == QueueKeys = Keys(queue) /\ (QueueKeysDistinct <=> Distinct(queue))
BY DEF QueueKeys, Keys, QueueKeysDistinct, Distinct

(* A recovery prepends what the queue has not. *)
LEMMA RecoverQueue ==
    ASSUME TypeOK, Distinct(queue), RecoverUpdate
    PROVE  Distinct(queue')
<1>1. queue \in Seq(QItem) /\ job.selection \in Item \cup {NoItem}
  BY DEF TypeOK, QItem, JobState
<1>2. CASE Interrupted /\ job.selection = NoItem
  BY <1>1, <1>2, PrependDistinct DEF RecoverUpdate, QItem
<1>3. CASE Interrupted /\ job.selection # NoItem
  BY <1>1, <1>3, PrependDistinct, KeysOfQueue DEF RecoverUpdate, QItem
<1>4. CASE ~Interrupted
  BY <1>4 DEF RecoverUpdate
<1> QED BY <1>2, <1>3, <1>4

(* So does a requeue, which then cuts the tail. *)
LEMMA RequeueQueue ==
    ASSUME TypeOK, Distinct(queue), NEW p \in Proc, RequeueLeaseLost(p)
    PROVE  Distinct(queue')
<1> DEFINE it == drain[p].item
           q == IF it.key \in QueueKeys THEN queue ELSE <<it>> \o queue
<1>1. queue \in Seq(QItem) /\ it \in QItem /\ QueueLimit \in Nat
  BY ConstantsAssumption DEF TypeOK, QItem, DrainState, RequeueLeaseLost
<1>2. q \in Seq(QItem) /\ Distinct(q)
  BY <1>1, PrependDistinct, PrependType, KeysOfQueue
<1>3. \/ UNCHANGED queue
      \/ queue' = IF Len(q) <= QueueLimit THEN q ELSE SubSeq(q, 1, QueueLimit)
  BY DEF RequeueLeaseLost
<1> HIDE DEF it, q
<1>4. ~(Len(q) <= QueueLimit) => QueueLimit < Len(q)
  BY <1>1, <1>2, LenProperties
<1> QED BY <1>1, <1>2, <1>3, <1>4, CutDistinct

(* Enqueue filters against the queue that it writes. *)
LEMMA EnqueueQueue ==
    ASSUME TypeOK, Distinct(queue), NEW p \in Proc, EnqueueWrite(p)
    PROVE  /\ Distinct(queue') /\ Keys(queue) \subseteq Keys(queue')
           /\ \A k \in Key : status'[k] = "pending" =>
                  status[k] = "pending" \/ k \in Keys(queue')
<1> DEFINE new == req[p].adds \ QueueKeys
<1>1. /\ queue \in Seq(QItem) /\ req[p].adds \in SUBSET Key
      /\ req[p].kind \in {"demand", "scheduled"}
  BY DEF TypeOK, QItem, ReqState, EnqueueWrite
<1>2. CASE Len(queue) + Cardinality(new) <= QueueLimit
  <2>1. PICK order \in SetToSeqs(new) :
          queue' = queue \o Appended(order, req[p].kind)
    BY <1>2 DEF EnqueueWrite, Appended
  <2>2. Distinct(queue') /\ Keys(queue) \cup new \subseteq Keys(queue')
    <3>1. new \in SUBSET Key /\ new \cap Keys(queue) = {}
      BY <1>1, KeysOfQueue
    <3> HIDE DEF new
    <3> QED BY <1>1, <2>1, <3>1, AppendDistinct
  <2>3. \A k \in Key : status'[k] = "pending" => status[k] = "pending" \/ k \in req[p].adds
    BY <1>2 DEF EnqueueWrite
  <2> QED BY <2>2, <2>3, KeysOfQueue
<1>3. CASE ~(Len(queue) + Cardinality(new) <= QueueLimit)
  BY <1>3 DEF EnqueueWrite
<1> QED BY <1>2, <1>3

LEMMA QueueStep ==
    ASSUME TypeOK, QueueKeysDistinct, [Next]_vars
    PROVE  QueueKeysDistinct'
<1>1. Distinct(queue) /\ queue \in Seq(QItem)
  BY KeysOfQueue DEF TypeOK, QItem
<1>2. UNCHANGED queue => Distinct(queue')
  BY <1>1
<1>3. ASSUME NEW p \in Proc, ClaimWrite(p) PROVE Distinct(queue')
  BY <1>1, <1>3, WithoutDistinct DEF ClaimWrite
<1>4. ASSUME NEW p \in Proc, Tick(p) \/ GetStatus(p) \/ (\E c \in Coverages : Start(p, c))
      PROVE  Distinct(queue')
  BY <1>1, <1>4, RecoverQueue DEF Tick, GetStatus, Start
<1>5. ASSUME NEW p \in Proc,
             \/ ClaimRead(p) \/ DrainEnd(p) \/ FetchDone(p) \/ Publish(p) \/ PublishUnfinished(p)
             \/ PublishRefused(p) \/ FailQueued(p) \/ BulkStep(p) \/ RenewalLost(p)
             \/ EnqueueDemand(p) \/ EnqueueScheduled(p) \/ Crash(p) \/ LeaseExpires \/ TimePasses
      PROVE  UNCHANGED queue
  BY <1>5 DEF ClaimRead, DrainEnd, FetchDone, Publish, PublishUnfinished, PublishRefused,
     FailQueued, BulkStep, StartClaim, RunNext, RunFetchDone, RunPublish, RunFailure, RunFinish,
     RenewalLost, EnqueueDemand, EnqueueScheduled, Crash, LeaseExpires, TimePasses, shared
<1>6. LeaseExpires \/ TimePasses \/ UNCHANGED vars => UNCHANGED queue
  BY DEF LeaseExpires, TimePasses, shared, vars
<1>7. BulkProc \subseteq Proc /\ ClientProc \subseteq Proc /\ CronProc \subseteq Proc
  BY ConstantsAssumption
<1>8. Distinct(queue')
  BY <1>1, <1>2, <1>3, <1>4, <1>5, <1>6, <1>7, RequeueQueue, EnqueueQueue DEF Next, DrainStep
<1> QED BY <1>8 DEF QueueKeysDistinct, Distinct

(* The queue holds a class-week once, whoever appends, requeues or recovers *)
(* it, for every limit and any number of processes.                         *)
THEOREM QueueTheorem == Spec => []QueueKeysDistinct
<1>1. Init => QueueKeysDistinct
  BY DEF Init, QueueKeysDistinct
<1>2. IInv /\ QueueKeysDistinct /\ [Next]_vars => QueueKeysDistinct'
  BY QueueStep DEF IInv
<1> QED BY <1>1, <1>2, Invariance, PTL DEF Spec

-----------------------------------------------------------------------------
(* Nothing is stranded as long as nothing has failed *)

(* The loop holds the job and has been told nothing else. *)
DrainAtWork(p) == Owned(drain[p].id) /\ job.selection = drain[p].item
BulkAtWork(p) == Owned(bulk[p].id) /\ job.selection = NoItem
AtWork(p) == drain[p].pc \in DrainHolding \/ bulk[p].pc \in BulkHolding

(* Without faults whoever has claimed holds the job, a running job has its  *)
(* worker, and what a drain works on is the job's selection.                *)
Undisturbed ==
    /\ \A p \in Proc : drain[p].pc # "requeue" /\ drain[p].lost = FALSE /\ bulk[p].lost = FALSE
    /\ \A p \in Proc : drain[p].pc \in DrainHolding => DrainAtWork(p)
    /\ \A p \in Proc : bulk[p].pc \in BulkHolding => BulkAtWork(p)
    /\ job.status = "running" => \E p \in Proc : AtWork(p)

Carried ==
    \A k \in Key : status[k] = "pending" =>
        k \in QueueKeys \/ (job.status = "running" /\ job.selection.key = k)

SInv == faults = 0 => Undisturbed /\ Carried

(* What a step may do to a loop that it neither starts nor ends. *)
DrainGoesOn(d, e) ==
    /\ e.pc # "requeue" /\ e.lost = FALSE
    /\ e.pc \in DrainHolding <=> d.pc \in DrainHolding
    /\ e.pc \in DrainHolding => e.id = d.id /\ e.item = d.item
BulkGoesOn(d, e) ==
    /\ e.lost = FALSE
    /\ e.pc \in BulkHolding <=> d.pc \in BulkHolding
    /\ e.pc \in BulkHolding => e.id = d.id
LoopsGoOn ==
    \A q \in Proc : DrainGoesOn(drain[q], drain'[q]) /\ BulkGoesOn(bulk[q], bulk'[q])

(* The step leaves the job as it is, and what it takes from the queue or    *)
(* marks as pending is in the queue.                                        *)
GoesOn ==
    /\ LoopsGoOn
    /\ UNCHANGED lease
    /\ job'.id = job.id /\ job'.status = job.status /\ job'.selection = job.selection
    /\ Keys(queue) \subseteq Keys(queue')
    /\ \A k \in Key : status'[k] = "pending" => status[k] = "pending" \/ k \in Keys(queue')

(* A loop gets the job, which nobody has. *)
Begins ==
    /\ LeaseFree
    /\ job'.id = lease'.owner /\ job'.status = "running" /\ lease'.live = TRUE
    /\ UNCHANGED status
    /\ \E p \in Proc :
         /\ \A q \in Proc \ {p} : drain'[q] = drain[q] /\ bulk'[q] = bulk[q]
         /\ \/ /\ bulk' = bulk
               /\ drain'[p].pc = "fetch" /\ drain'[p].lost = FALSE /\ drain'[p].id = job'.id
               /\ drain'[p].item = job'.selection
               /\ Keys(queue) \ {job'.selection.key} \subseteq Keys(queue')
            \/ /\ drain' = drain
               /\ bulk'[p].pc = "next" /\ bulk'[p].lost = FALSE /\ bulk'[p].id = job'.id
               /\ job'.selection = NoItem
               /\ UNCHANGED queue

(* The holder finishes the job, and lets go. *)
Ends ==
    /\ job'.status # "running"
    /\ UNCHANGED queue
    /\ \A k \in Key : status'[k] = "pending" => status[k] = "pending" /\ k # job.selection.key
    /\ \E p \in Proc :
         /\ \A q \in Proc \ {p} : drain'[q] = drain[q] /\ bulk'[q] = bulk[q]
         /\ drain'[p].lost = FALSE /\ bulk'[p].lost = FALSE
         /\ AtWork(p)
         /\ drain'[p].pc \notin DrainHolding /\ bulk'[p].pc \notin BulkHolding

(* Two loops cannot hold one job. *)
LEMMA OnlyOneAtWork ==
    ASSUME TypeOK, IdsHeldOnce, WorkersHaveIds, Undisturbed, NEW p \in Proc, AtWork(p)
    PROVE  /\ job.status = "running" /\ lease.live /\ lease.owner # NoId
           /\ \A q \in Proc \ {p} : ~AtWork(q)
           /\ ~(drain[p].pc \in DrainHolding /\ bulk[p].pc \in BulkHolding)
<1>1. \A q \in Proc : drain[q].pc \in DrainHolding => drain[q].id = job.id /\ drain[q].id # NoId
  BY DEF Undisturbed, DrainAtWork, Owned, WorkersHaveIds
<1>2. \A q \in Proc : bulk[q].pc \in BulkHolding => bulk[q].id = job.id /\ bulk[q].id # NoId
  BY DEF Undisturbed, BulkAtWork, Owned, WorkersHaveIds
<1>3. \A q \in Proc \ {p} : ~AtWork(q)
  BY <1>1, <1>2 DEF AtWork, IdsHeldOnce
<1>4. ~(drain[p].pc \in DrainHolding /\ bulk[p].pc \in BulkHolding)
  BY <1>1, <1>2 DEF IdsHeldOnce
<1>5. job.status = "running" /\ lease.live /\ lease.owner # NoId
  BY <1>1, <1>2 DEF AtWork, Undisturbed, DrainAtWork, BulkAtWork, Owned
<1> QED BY <1>3, <1>4, <1>5

LEMMA FreeMeansNobody ==
    ASSUME TypeOK, IdsHeldOnce, WorkersHaveIds, Undisturbed, LeaseFree
    PROVE  job.status # "running" /\ \A p \in Proc : ~AtWork(p)
BY OnlyOneAtWork DEF LeaseFree, Undisturbed

LEMMA NobodyIsInterrupted ==
    ASSUME TypeOK, IdsHeldOnce, WorkersHaveIds, Undisturbed
    PROVE  ~Interrupted
BY FreeMeansNobody DEF Interrupted

(* Each kind of step keeps the invariant. *)
LEMMA GoingOnKeeps ==
    ASSUME TypeOK, Undisturbed, Carried, GoesOn
    PROVE  Undisturbed' /\ Carried'
<1>1. ASSUME NEW p \in Proc, drain'[p].pc \in DrainHolding PROVE DrainAtWork(p)'
  BY <1>1 DEF GoesOn, LoopsGoOn, DrainGoesOn, Undisturbed, DrainAtWork, Owned
<1>2. ASSUME NEW p \in Proc, bulk'[p].pc \in BulkHolding PROVE BulkAtWork(p)'
  BY <1>2 DEF GoesOn, LoopsGoOn, BulkGoesOn, Undisturbed, BulkAtWork, Owned
<1>3. job'.status = "running" => \E p \in Proc : AtWork(p)'
  BY DEF GoesOn, LoopsGoOn, DrainGoesOn, BulkGoesOn, Undisturbed, AtWork
<1>4. \A p \in Proc : drain'[p].pc # "requeue" /\ drain'[p].lost = FALSE /\ bulk'[p].lost = FALSE
  BY DEF GoesOn, LoopsGoOn, DrainGoesOn, BulkGoesOn
<1>5. Undisturbed'
  BY <1>1, <1>2, <1>3, <1>4 DEF Undisturbed
<1>6. QueueKeys' = Keys(queue')
  BY DEF QueueKeys, Keys
<1>7. Carried'
  BY <1>6, KeysOfQueue DEF GoesOn, Carried
<1> QED BY <1>5, <1>7

LEMMA BeginningKeeps ==
    ASSUME TypeOK, IdsHeldOnce, WorkersHaveIds, Undisturbed, Carried, Begins
    PROVE  Undisturbed' /\ Carried'
<1>1. job.status # "running" /\ \A q \in Proc : ~AtWork(q)
  BY FreeMeansNobody DEF Begins
<1>2. PICK p \in Proc :
         /\ \A q \in Proc \ {p} : drain'[q] = drain[q] /\ bulk'[q] = bulk[q]
         /\ \/ /\ bulk' = bulk
               /\ drain'[p].pc = "fetch" /\ drain'[p].lost = FALSE /\ drain'[p].id = job'.id
               /\ drain'[p].item = job'.selection
               /\ Keys(queue) \ {job'.selection.key} \subseteq Keys(queue')
            \/ /\ drain' = drain
               /\ bulk'[p].pc = "next" /\ bulk'[p].lost = FALSE /\ bulk'[p].id = job'.id
               /\ job'.selection = NoItem
               /\ UNCHANGED queue
  BY DEF Begins
<1>3. Owned(job.id)'
  BY DEF Begins, Owned
<1>4. \A q \in Proc : drain'[q].pc \in DrainHolding => DrainAtWork(q)'
  BY <1>1, <1>2, <1>3 DEF AtWork, DrainAtWork, Owned
<1>5. \A q \in Proc : bulk'[q].pc \in BulkHolding => BulkAtWork(q)'
  BY <1>1, <1>2, <1>3 DEF AtWork, BulkAtWork, Owned
<1>6. AtWork(p)'
  BY <1>2 DEF AtWork, DrainHolding, BulkHolding
<1>7. \A q \in Proc : drain'[q].pc # "requeue" /\ drain'[q].lost = FALSE /\ bulk'[q].lost = FALSE
  BY <1>2 DEF Undisturbed
<1>8. Undisturbed'
  BY <1>4, <1>5, <1>6, <1>7 DEF Undisturbed
<1>9. QueueKeys' = Keys(queue')
  BY DEF QueueKeys, Keys
<1>10. \A k \in Key : status'[k] = "pending" => k \in Keys(queue)
  BY <1>1, KeysOfQueue DEF Begins, Carried
<1>11. Carried'
  BY <1>2, <1>9, <1>10 DEF Begins, Carried
<1> QED BY <1>8, <1>11

LEMMA EndingKeeps ==
    ASSUME TypeOK, IdsHeldOnce, WorkersHaveIds, Undisturbed, Carried, Ends
    PROVE  Undisturbed' /\ Carried'
<1>1. PICK p \in Proc :
         /\ \A q \in Proc \ {p} : drain'[q] = drain[q] /\ bulk'[q] = bulk[q]
         /\ drain'[p].lost = FALSE /\ bulk'[p].lost = FALSE
         /\ AtWork(p)
         /\ drain'[p].pc \notin DrainHolding /\ bulk'[p].pc \notin BulkHolding
  BY DEF Ends
<1>2. \A q \in Proc \ {p} : ~AtWork(q)
  BY <1>1, OnlyOneAtWork
<1>3. \A q \in Proc : drain'[q].pc \notin DrainHolding /\ bulk'[q].pc \notin BulkHolding
  BY <1>1, <1>2 DEF AtWork
<1>4. Undisturbed'
  BY <1>1, <1>3 DEF Undisturbed, Ends, DrainHolding
<1>5. QueueKeys' = Keys(queue') /\ Keys(queue') = Keys(queue)
  BY DEF QueueKeys, Keys, Ends
<1>6. Carried'
  BY <1>5, KeysOfQueue DEF Carried, Ends
<1> QED BY <1>4, <1>6

-----------------------------------------------------------------------------
(* The kind of every step without a fault *)

(* A loop that holds nothing, and has been told nothing. *)
Quiet(d) == d.pc \notin DrainHolding \cup BulkHolding /\ d.lost = FALSE

LEMMA QuietLoops ==
    /\ Quiet(IdleDrain) /\ Quiet(IdleBulk)
    /\ Quiet([IdleDrain EXCEPT !.pc = "done"]) /\ Quiet([IdleDrain EXCEPT !.pc = "thrown"])
    /\ \A d : Quiet(NextRound(d))
    /\ \A d : StartedDrain(d) = d \/ (d.pc = "idle" /\ Quiet(StartedDrain(d)))
<1>1. IdleDrain.pc = "idle" /\ IdleDrain.lost = FALSE
  BY DEF IdleDrain
<1>2. IdleBulk.pc = "idle" /\ IdleBulk.lost = FALSE
  BY DEF IdleBulk
<1>3. \A n, c : LET e == [[IdleDrain EXCEPT !.pc = c] EXCEPT !.left = n]
                IN  e.pc = c /\ e.lost = FALSE
  BY <1>1, IdleTypes DEF DrainState
<1>4. \A c : LET e == [IdleDrain EXCEPT !.pc = c]
             IN  e.pc = c /\ e.lost = FALSE
  BY <1>1, IdleTypes DEF DrainState
<1>5. \A d : Quiet(NextRound(d))
  BY <1>3 DEF NextRound, Quiet, DrainHolding, BulkHolding
<1>6. \A d : StartedDrain(d) = d \/ (d.pc = "idle" /\ Quiet(StartedDrain(d)))
  BY <1>3 DEF StartedDrain, Quiet, DrainHolding, BulkHolding
<1> QED BY <1>1, <1>2, <1>4, <1>5, <1>6 DEF Quiet, DrainHolding, BulkHolding

LEMMA QuietGoesOn ==
    ASSUME NEW d, NEW e, Quiet(e)
    PROVE  /\ d.pc \notin DrainHolding => DrainGoesOn(d, e)
           /\ d.pc \notin BulkHolding => BulkGoesOn(d, e)
BY DEF Quiet, DrainGoesOn, BulkGoesOn, DrainHolding, BulkHolding

(* One loop moves, or none. *)
LEMMA LoopsStay ==
    ASSUME TypeOK, Undisturbed
    PROVE  \A q \in Proc : DrainGoesOn(drain[q], drain[q]) /\ BulkGoesOn(bulk[q], bulk[q])
BY DEF Undisturbed, DrainGoesOn, BulkGoesOn

LEMMA DrainMovesOn ==
    ASSUME TypeOK, Undisturbed, NEW p \in Proc, NEW e, DrainGoesOn(drain[p], e),
           drain' = [drain EXCEPT ![p] = e], UNCHANGED bulk
    PROVE  LoopsGoOn
BY LoopsStay DEF LoopsGoOn, TypeOK

LEMMA BulkMovesOn ==
    ASSUME TypeOK, Undisturbed, NEW p \in Proc, NEW e, BulkGoesOn(bulk[p], e),
           bulk' = [bulk EXCEPT ![p] = e], UNCHANGED drain
    PROVE  LoopsGoOn
BY LoopsStay DEF LoopsGoOn, TypeOK

LEMMA BothMoveOn ==
    ASSUME TypeOK, Undisturbed, NEW p \in Proc, NEW d, NEW b,
           DrainGoesOn(drain[p], d), drain' = [drain EXCEPT ![p] = d],
           BulkGoesOn(bulk[p], b), bulk' = [bulk EXCEPT ![p] = b]
    PROVE  LoopsGoOn
BY LoopsStay DEF LoopsGoOn, TypeOK

LEMMA LocalStep ==
    ASSUME LoopsGoOn, UNCHANGED shared
    PROVE  GoesOn
BY DEF GoesOn, shared

Ordinary == GoesOn \/ Begins \/ Ends

LEMMA ClaimReadGoesOn ==
    ASSUME TypeOK, Undisturbed, NEW p \in Proc, ClaimRead(p)
    PROVE  GoesOn
<1>1. drain[p] \in DrainState /\ drain[p].pc = "read"
  BY DEF TypeOK, ClaimRead
<1>2. CASE \E e : Quiet(e) /\ drain' = [drain EXCEPT ![p] = e]
  <2>1. LoopsGoOn
    BY <1>1, <1>2, QuietGoesOn, DrainMovesOn DEF ClaimRead, DrainHolding
  <2> QED BY <2>1, LocalStep DEF ClaimRead
<1>3. CASE \E i \in DOMAIN queue :
             drain' = [drain EXCEPT ![p].pc = "claim", ![p].item = queue[i]]
  <2>1. PICK i \in DOMAIN queue :
          drain' = [drain EXCEPT ![p] = [[drain[p] EXCEPT !.pc = "claim"] EXCEPT !.item = queue[i]]]
    BY <1>3 DEF TypeOK
  <2> DEFINE e == [[drain[p] EXCEPT !.pc = "claim"] EXCEPT !.item = queue[i]]
  <2>2. e.lost = drain[p].lost /\ e.pc = "claim"
    BY <1>1 DEF DrainState
  <2>3. DrainGoesOn(drain[p], e)
    BY <1>1, <2>2 DEF DrainGoesOn, DrainHolding, Undisturbed
  <2> HIDE DEF e
  <2>4. LoopsGoOn
    BY <2>1, <2>3, DrainMovesOn DEF e, ClaimRead
  <2> QED BY <2>4, LocalStep DEF ClaimRead
<1>4. \/ drain' = [drain EXCEPT ![p] = [IdleDrain EXCEPT !.pc = "done"]]
      \/ drain' = [drain EXCEPT ![p] = [IdleDrain EXCEPT !.pc = "thrown"]]
      \/ \E i \in DOMAIN queue :
             drain' = [drain EXCEPT ![p].pc = "claim", ![p].item = queue[i]]
  BY DEF ClaimRead
<1> QED BY <1>2, <1>3, <1>4, QuietLoops

LEMMA ClaimWriteOrdinary ==
    ASSUME TypeOK, Distinct(queue), Undisturbed, NEW p \in Proc, ClaimWrite(p)
    PROVE  Ordinary
<1>1. drain[p] \in DrainState /\ drain[p].pc = "claim"
  BY DEF TypeOK, ClaimWrite
<1>2. CASE drain[p].item.key \in QueueKeys /\ LeaseFree
  <2>1. PICK id \in FreshIds :
          /\ queue' = Without(queue, drain[p].item.key)
          /\ job' = [id |-> id, status |-> "running", selection |-> drain[p].item,
                     coverage |-> {}, completed |-> 0]
          /\ lease' = [owner |-> id, live |-> TRUE]
          /\ drain' = [drain EXCEPT ![p].pc = "fetch", ![p].id = id]
    BY <1>2 DEF ClaimWrite
  <2>2. /\ job'.id = id /\ job'.status = "running" /\ job'.selection = drain[p].item
        /\ lease'.owner = id /\ lease'.live = TRUE
    BY <2>1
  <2>3. drain' = [drain EXCEPT ![p] = [[drain[p] EXCEPT !.pc = "fetch"] EXCEPT !.id = id]]
    BY <2>1 DEF TypeOK
  <2> DEFINE e == [[drain[p] EXCEPT !.pc = "fetch"] EXCEPT !.id = id]
  <2>4. e.id = id /\ e.pc = "fetch" /\ e.item = drain[p].item /\ e.lost = drain[p].lost
    BY <1>1 DEF DrainState
  <2> HIDE DEF e
  <2>5. drain'[p] = e /\ \A q \in Proc \ {p} : drain'[q] = drain[q]
    BY <2>3 DEF e, TypeOK
  <2>6. Keys(queue) \ {drain[p].item.key} \subseteq Keys(queue')
    BY <2>1, WithoutDistinct DEF TypeOK, QItem
  <2>7. UNCHANGED <<bulk, status>> /\ drain[p].lost = FALSE
    BY DEF ClaimWrite, Undisturbed
  <2>8. Begins
    BY <1>2, <2>2, <2>4, <2>5, <2>6, <2>7 DEF Begins
  <2> QED BY <2>8 DEF Ordinary
<1>3. CASE ~(drain[p].item.key \in QueueKeys /\ LeaseFree)
  <2>1. drain' = [drain EXCEPT ![p] = [IdleDrain EXCEPT !.pc = "done"]]
    BY <1>3 DEF ClaimWrite
  <2>2. LoopsGoOn
    BY <1>1, <2>1, QuietLoops, QuietGoesOn, DrainMovesOn DEF ClaimWrite, DrainHolding
  <2> QED BY <1>3, <2>2, LocalStep DEF ClaimWrite, shared, Ordinary
<1> QED BY <1>2, <1>3

LEMMA DrainEndGoesOn ==
    ASSUME TypeOK, Undisturbed, NEW p \in Proc, DrainEnd(p)
    PROVE  GoesOn
<1>1. bulk[p] \in BulkState /\ drain[p].pc \notin DrainHolding
  BY DEF TypeOK, DrainEnd, DrainHolding
<1>2. DrainGoesOn(drain[p], IdleDrain)
  BY <1>1, QuietLoops, QuietGoesOn
<1>3. BulkGoesOn(bulk[p], bulk[p])
  BY LoopsStay
<1>4. bulk[p].pc = "waiting" =>
        BulkGoesOn(bulk[p], IdleBulk) /\ BulkGoesOn(bulk[p], [bulk[p] EXCEPT !.pc = "claim"])
  <2>1. bulk[p].pc = "waiting" => BulkGoesOn(bulk[p], IdleBulk)
    BY QuietLoops, QuietGoesOn DEF BulkHolding
  <2>2. bulk[p].pc = "waiting" => BulkGoesOn(bulk[p], [bulk[p] EXCEPT !.pc = "claim"])
    BY <1>1 DEF BulkGoesOn, BulkHolding, BulkState, Undisturbed
  <2> QED BY <2>1, <2>2
<1>5. \/ bulk' = [bulk EXCEPT ![p] = bulk[p]]
      \/ /\ bulk[p].pc = "waiting"
         /\ \/ bulk' = [bulk EXCEPT ![p] = [bulk[p] EXCEPT !.pc = "claim"]]
            \/ bulk' = [bulk EXCEPT ![p] = IdleBulk]
  BY DEF DrainEnd
<1>6. drain' = [drain EXCEPT ![p] = IdleDrain]
  BY DEF DrainEnd
<1>7. LoopsGoOn
  BY <1>2, <1>3, <1>4, <1>5, <1>6, BothMoveOn
<1> QED BY <1>7, LocalStep DEF DrainEnd

LEMMA FetchDoneGoesOn ==
    ASSUME TypeOK, Undisturbed, NEW p \in Proc, FetchDone(p)
    PROVE  GoesOn
<1>1. drain[p] \in DrainState /\ drain[p].pc = "fetch" /\ drain[p].lost = FALSE
  BY DEF TypeOK, FetchDone, Undisturbed
<1>2. DrainGoesOn(drain[p], [[drain[p] EXCEPT !.pc = "publish"] EXCEPT !.at = clock])
  BY <1>1 DEF DrainGoesOn, DrainHolding, DrainState
<1>3. DrainGoesOn(drain[p], [drain[p] EXCEPT !.pc = "fail"])
  BY <1>1 DEF DrainGoesOn, DrainHolding, DrainState
<1>4. \/ drain' = [drain EXCEPT ![p] = [[drain[p] EXCEPT !.pc = "publish"] EXCEPT !.at = clock]]
      \/ drain' = [drain EXCEPT ![p] = [drain[p] EXCEPT !.pc = "fail"]]
  BY DEF FetchDone, TypeOK
<1>5. LoopsGoOn
  BY <1>2, <1>3, <1>4, DrainMovesOn DEF FetchDone
<1> QED BY <1>5, LocalStep DEF FetchDone

(* The holder publishes, or records a failure: the job ends. *)
LEMMA DrainEnds ==
    ASSUME TypeOK, IdsHeldOnce, WorkersHaveIds, Undisturbed,
           NEW p \in Proc, Publish(p) \/ FailQueued(p)
    PROVE  Ends
<1> DEFINE it == drain[p].item
<1>1. /\ drain[p].pc \in DrainHolding /\ DrainAtWork(p) /\ bulk[p].lost = FALSE
      /\ job \in JobState /\ status \in [Key -> {"none", "pending", "valid", "failed"}]
  BY DEF Publish, FailQueued, Undisturbed, DrainHolding, TypeOK
<1>2. Holds(drain[p].id) /\ it = job.selection /\ job.status = "running"
  BY <1>1 DEF DrainAtWork, Owned, Holds
<1>3. job'.status # "running"
  <2>1. \A s : [job EXCEPT !.status = s].status = s
    BY <1>1 DEF JobState
  <2>2. \A s, n : [job EXCEPT !.status = s, !.completed = n].status = s
    BY <1>1 DEF JobState
  <2> QED BY <1>2, <2>1, <2>2 DEF Publish, FailQueued
<1>4. \E s \in {"valid", "failed"} : status' = [status EXCEPT ![it.key] = s]
  BY <1>2 DEF Publish, FailQueued
<1>5. \A k \in Key : status'[k] = "pending" => status[k] = "pending" /\ k # it.key
  BY <1>1, <1>4
<1>6. drain' = [drain EXCEPT ![p] = NextRound(drain[p])] /\ UNCHANGED <<bulk, queue>>
  BY DEF Publish, FailQueued
<1>7. drain'[p] = NextRound(drain[p]) /\ \A q \in Proc \ {p} : drain'[q] = drain[q]
  BY <1>6 DEF TypeOK
<1>8. drain'[p].pc \notin DrainHolding /\ drain'[p].lost = FALSE
  BY <1>7, QuietLoops DEF Quiet
<1>9. bulk[p].pc \notin BulkHolding
  BY <1>1, OnlyOneAtWork DEF AtWork
<1> QED BY <1>1, <1>2, <1>3, <1>5, <1>6, <1>7, <1>8, <1>9 DEF Ends, AtWork

(* Neither a fault nor a loss of the lease: these steps do not happen. *)
LEMMA FaultySteps ==
    ASSUME TypeOK, IdsHeldOnce, WorkersHaveIds, LeaseBelongsToJob, Undisturbed, faults' = 0
    PROVE  /\ \A p \in Proc : ~RenewalLost(p) /\ ~PublishUnfinished(p) /\ ~PublishRefused(p)
                              /\ ~RequeueLeaseLost(p) /\ ~GetStatus(p) /\ ~Crash(p)
           /\ ~LeaseExpires
<1>1. faults + 1 # faults'
  BY DEF TypeOK
<1>2. \A p \in Proc : /\ drain[p].lost = FALSE /\ bulk[p].lost = FALSE /\ drain[p].pc # "requeue"
                      /\ drain[p].pc \in DrainHolding => Owned(drain[p].id)
                      /\ bulk[p].pc \in BulkHolding => Owned(bulk[p].id)
  BY DEF Undisturbed, DrainAtWork, BulkAtWork
<1>3. \A p \in Proc : ~RenewalLost(p)
  BY <1>1, <1>2 DEF RenewalLost, DrainHolding, BulkHolding
<1>4. \A p \in Proc : ~PublishUnfinished(p) /\ ~RequeueLeaseLost(p) /\ ~Crash(p)
  BY <1>1, <1>2 DEF PublishUnfinished, RequeueLeaseLost, Crash
<1>5. \A p \in Proc : ~PublishRefused(p)
  BY <1>1, <1>2 DEF PublishRefused, DrainHolding
<1>6. \A p \in Proc : ~GetStatus(p)
  BY NobodyIsInterrupted DEF GetStatus
<1>7. ~LeaseExpires
  <2> SUFFICES ASSUME lease.owner # NoId PROVE Alive(lease.owner)
    BY <1>1 DEF LeaseExpires
  <2>1. PICK p \in Proc : AtWork(p)
    BY DEF LeaseBelongsToJob, Undisturbed
  <2> QED BY <1>2, <2>1 DEF AtWork, Alive, Owned
<1> QED BY <1>3, <1>4, <1>5, <1>6, <1>7

LEMMA StartClaimOrdinary ==
    ASSUME TypeOK, Undisturbed, NEW p \in Proc, StartClaim(p)
    PROVE  Ordinary
<1>1. bulk[p] \in BulkState /\ bulk[p].pc = "claim"
  BY DEF TypeOK, StartClaim
<1>2. CASE job.status # "running" /\ LeaseFree
  <2>1. PICK id \in FreshIds :
          /\ job' = [id |-> id, status |-> "running", selection |-> NoItem,
                     coverage |-> bulk[p].todo, completed |-> 0]
          /\ lease' = [owner |-> id, live |-> TRUE]
          /\ bulk' = [bulk EXCEPT ![p].pc = "next", ![p].id = id]
    BY <1>2 DEF StartClaim
  <2>2. /\ job'.id = id /\ job'.status = "running" /\ job'.selection = NoItem
        /\ lease'.owner = id /\ lease'.live = TRUE
    BY <2>1
  <2>3. bulk' = [bulk EXCEPT ![p] = [[bulk[p] EXCEPT !.pc = "next"] EXCEPT !.id = id]]
    BY <2>1 DEF TypeOK
  <2> DEFINE e == [[bulk[p] EXCEPT !.pc = "next"] EXCEPT !.id = id]
  <2>4. e.id = id /\ e.pc = "next" /\ e.lost = bulk[p].lost
    BY <1>1 DEF BulkState
  <2> HIDE DEF e
  <2>5. bulk'[p] = e /\ \A q \in Proc \ {p} : bulk'[q] = bulk[q]
    BY <2>3 DEF e, TypeOK
  <2>6. UNCHANGED <<drain, status, queue>> /\ bulk[p].lost = FALSE
    BY DEF StartClaim, Undisturbed
  <2>7. Begins
    BY <1>2, <2>2, <2>4, <2>5, <2>6 DEF Begins
  <2> QED BY <2>7 DEF Ordinary
<1>3. CASE ~(job.status # "running" /\ LeaseFree)
  <2>1. bulk' = [bulk EXCEPT ![p] = IdleBulk]
    BY <1>3 DEF StartClaim
  <2>2. LoopsGoOn
    BY <1>1, <2>1, QuietLoops, QuietGoesOn, BulkMovesOn DEF StartClaim, BulkHolding
  <2> QED BY <1>3, <2>2, LocalStep DEF StartClaim, shared, Ordinary
<1> QED BY <1>2, <1>3

(* The steps of a bulk job between its claim and its end. *)
LEMMA RunGoesOn ==
    ASSUME TypeOK, Undisturbed, faults' = 0, NEW p \in Proc,
           RunNext(p) \/ RunFetchDone(p) \/ RunPublish(p) \/ RunFailure(p)
    PROVE  GoesOn
<1>1. /\ bulk[p] \in BulkState /\ bulk[p].lost = FALSE /\ bulk[p].pc \in BulkHolding
      /\ Owned(bulk[p].id) /\ faults' # faults + 1
  <2>1. bulk[p].pc \in BulkHolding
    BY DEF BulkHolding, RunNext, RunFetchDone, RunPublish, RunFailure
  <2>2. faults' # faults + 1
    BY DEF TypeOK
  <2> QED BY <2>1, <2>2 DEF TypeOK, Undisturbed, BulkAtWork
<1>2. \A c \in BulkHolding : BulkGoesOn(bulk[p], [bulk[p] EXCEPT !.pc = c])
  BY <1>1 DEF BulkGoesOn, BulkState
<1>3. CASE RunNext(p)
  <2>1. \A k, t : BulkGoesOn(bulk[p], [[[bulk[p] EXCEPT !.pc = "fetch"] EXCEPT !.key = k] EXCEPT !.todo = t])
    BY <1>1 DEF BulkGoesOn, BulkState, BulkHolding
  <2>2. \/ bulk' = [bulk EXCEPT ![p] = [bulk[p] EXCEPT !.pc = "finish"]]
        \/ \E k, t : bulk' = [bulk EXCEPT ![p] =
                        [[[bulk[p] EXCEPT !.pc = "fetch"] EXCEPT !.key = k] EXCEPT !.todo = t]]
    <3>1. CASE bulk[p].todo = {}
      BY <1>1, <1>3, <3>1 DEF RunNext, TypeOK
    <3>2. CASE bulk[p].todo # {}
      <4>1. PICK k \in bulk[p].todo :
              bulk' = [bulk EXCEPT ![p].pc = "fetch", ![p].key = k, ![p].todo = @ \ {k}]
        BY <1>1, <1>3, <3>2 DEF RunNext
      <4>2. bulk' = [bulk EXCEPT ![p] =
                [[[bulk[p] EXCEPT !.pc = "fetch"] EXCEPT !.key = k] EXCEPT !.todo = bulk[p].todo \ {k}]]
        BY <1>1, <4>1 DEF TypeOK, BulkState
      <4> QED BY <4>2
    <3> QED BY <3>1, <3>2
  <2>3. UNCHANGED drain
    BY <1>3 DEF RunNext
  <2>4. LoopsGoOn
    BY <1>2, <2>1, <2>2, <2>3, BulkMovesOn DEF BulkHolding
  <2> QED BY <1>3, <2>4, LocalStep DEF RunNext
<1>4. CASE RunFetchDone(p)
  <2>1. BulkGoesOn(bulk[p], [[bulk[p] EXCEPT !.pc = "publish"] EXCEPT !.at = clock])
    BY <1>1 DEF BulkGoesOn, BulkState, BulkHolding
  <2>2. \/ bulk' = [bulk EXCEPT ![p] = [[bulk[p] EXCEPT !.pc = "publish"] EXCEPT !.at = clock]]
        \/ bulk' = [bulk EXCEPT ![p] = [bulk[p] EXCEPT !.pc = "fail"]]
    BY <1>1, <1>4 DEF RunFetchDone, TypeOK
  <2>3. UNCHANGED drain
    BY <1>4 DEF RunFetchDone
  <2>4. LoopsGoOn
    BY <1>2, <2>1, <2>2, <2>3, BulkMovesOn DEF BulkHolding
  <2> QED BY <1>4, <2>4, LocalStep DEF RunFetchDone
<1>5. CASE RunPublish(p)
  <2>1. /\ job' = [job EXCEPT !.completed = @ + 1]
        /\ bulk' = [bulk EXCEPT ![p] = [bulk[p] EXCEPT !.pc = "next"]]
        /\ UNCHANGED <<queue, lease, status, drain>>
    BY <1>1, <1>5 DEF RunPublish, TypeOK
  <2>2. job'.id = job.id /\ job'.status = job.status /\ job'.selection = job.selection
    BY <2>1 DEF TypeOK, JobState
  <2>3. LoopsGoOn
    BY <1>2, <2>1, BulkMovesOn DEF BulkHolding
  <2> QED BY <2>1, <2>2, <2>3 DEF GoesOn
<1>6. CASE RunFailure(p)
  <2>1. BulkGoesOn(bulk[p], [[bulk[p] EXCEPT !.pc = "next"] EXCEPT !.failed = TRUE])
    BY <1>1 DEF BulkGoesOn, BulkState, BulkHolding
  <2>2. bulk' = [bulk EXCEPT ![p] = [[bulk[p] EXCEPT !.pc = "next"] EXCEPT !.failed = TRUE]]
    BY <1>1, <1>6 DEF RunFailure
  <2>3. LoopsGoOn
    BY <1>6, <2>1, <2>2, BulkMovesOn DEF RunFailure
  <2> QED BY <1>6, <2>3, LocalStep DEF RunFailure
<1> QED BY <1>3, <1>4, <1>5, <1>6

LEMMA RunEnds ==
    ASSUME TypeOK, IdsHeldOnce, WorkersHaveIds, Undisturbed, NEW p \in Proc, RunFinish(p)
    PROVE  Ends
<1>1. /\ bulk[p].pc \in BulkHolding /\ BulkAtWork(p) /\ drain[p].lost = FALSE
      /\ job \in JobState
  BY DEF RunFinish, Undisturbed, BulkHolding, TypeOK
<1>2. Owned(bulk[p].id) /\ job.selection.key = NoKey
  BY <1>1 DEF BulkAtWork, NoItem
<1>3. job'.status # "running"
  <2>1. \A s : [job EXCEPT !.status = s].status = s
    BY <1>1 DEF JobState
  <2> QED BY <1>2, <2>1 DEF RunFinish
<1>4. bulk' = [bulk EXCEPT ![p] = IdleBulk] /\ UNCHANGED <<drain, queue, status>>
  BY DEF RunFinish
<1>5. /\ bulk'[p].pc \notin BulkHolding /\ bulk'[p].lost = FALSE
      /\ \A q \in Proc \ {p} : bulk'[q] = bulk[q]
  BY <1>4, QuietLoops DEF TypeOK, Quiet
<1>6. drain[p].pc \notin DrainHolding
  BY <1>1, OnlyOneAtWork DEF AtWork
<1>7. NoKey \notin Key
  BY ConstantsAssumption
<1> QED BY <1>1, <1>2, <1>3, <1>4, <1>5, <1>6, <1>7 DEF Ends, AtWork

(* Requests and recoveries start loops, and what they mark is queued. *)
LEMMA StartedGoesOn ==
    ASSUME TypeOK, Undisturbed, NEW p \in Proc
    PROVE  /\ DrainGoesOn(drain[p], StartedDrain(drain[p]))
           /\ \A c : bulk[p].pc = "idle" =>
                 BulkGoesOn(bulk[p], [[IdleBulk EXCEPT !.pc = "waiting"] EXCEPT !.todo = c])
<1>1. DrainGoesOn(drain[p], StartedDrain(drain[p]))
  BY LoopsStay, QuietLoops, QuietGoesOn DEF DrainHolding
<1>2. \A c : Quiet([[IdleBulk EXCEPT !.pc = "waiting"] EXCEPT !.todo = c])
  <2>1. IdleBulk.lost = FALSE
    BY DEF IdleBulk
  <2> QED BY <2>1, IdleTypes DEF Quiet, DrainHolding, BulkHolding, BulkState
<1> QED BY <1>1, <1>2, QuietGoesOn DEF BulkHolding

LEMMA EnqueueGoesOn ==
    ASSUME TypeOK, Distinct(queue), Undisturbed, NEW p \in Proc,
           EnqueueDemand(p) \/ EnqueueScheduled(p) \/ EnqueueWrite(p)
    PROVE  GoesOn
<1>1. CASE EnqueueDemand(p) \/ EnqueueScheduled(p)
  <2>1. UNCHANGED <<shared, drain, bulk>>
    BY <1>1 DEF EnqueueDemand, EnqueueScheduled
  <2> QED BY <2>1, LoopsStay, LocalStep DEF LoopsGoOn
<1>2. CASE EnqueueWrite(p)
  <2>1. drain' = [drain EXCEPT ![p] = StartedDrain(drain[p])] \/ UNCHANGED drain
    BY <1>2 DEF EnqueueWrite
  <2>2. UNCHANGED <<bulk, job, lease>>
    BY <1>2 DEF EnqueueWrite
  <2>3. LoopsGoOn
    BY <2>1, <2>2, StartedGoesOn, DrainMovesOn, LoopsStay DEF LoopsGoOn
  <2> QED BY <1>2, <2>2, <2>3, EnqueueQueue DEF GoesOn
<1> QED BY <1>1, <1>2

LEMMA RecoveryGoesOn ==
    ASSUME TypeOK, IdsHeldOnce, WorkersHaveIds, Undisturbed, NEW p \in Proc,
           Tick(p) \/ \E coverage \in Coverages : Start(p, coverage)
    PROVE  GoesOn
<1>1. UNCHANGED <<job, lease, queue, status>>
  BY NobodyIsInterrupted DEF Tick, Start, RecoverUpdate
<1>2. drain' = [drain EXCEPT ![p] = StartedDrain(drain[p])]
  BY DEF Tick, Start
<1>3. \/ UNCHANGED bulk
      \/ \E c : /\ bulk[p].pc = "idle"
                /\ bulk' = [bulk EXCEPT ![p] = [[IdleBulk EXCEPT !.pc = "waiting"] EXCEPT !.todo = c]]
  BY DEF Tick, Start
<1>4. LoopsGoOn
  BY <1>2, <1>3, StartedGoesOn, DrainMovesOn, BothMoveOn
<1> QED BY <1>1, <1>4, LocalStep DEF shared, GoesOn

-----------------------------------------------------------------------------
(* The invariant *)

LEMMA FaultsCount ==
    ASSUME TypeOK, [Next]_vars, faults' = 0
    PROVE  faults = 0
<1> DEFINE Counted == faults' = faults \/ faults' = faults + 1
<1>1. \A p \in Proc : DrainStep(p) => Counted
  BY DEF DrainStep, ClaimRead, ClaimWrite, DrainEnd, FetchDone, Publish, PublishUnfinished,
         PublishRefused, RequeueLeaseLost, FailQueued
<1>2. \A p \in Proc : BulkStep(p) => Counted
  BY DEF BulkStep, StartClaim, RunNext, RunFetchDone, RunPublish, RunFailure, RunFinish
<1>3. \A p \in Proc : RenewalLost(p) \/ Crash(p) => Counted
  BY DEF RenewalLost, Crash
<1>4. \A p \in Proc : EnqueueDemand(p) \/ EnqueueScheduled(p) \/ EnqueueWrite(p) => Counted
  BY DEF EnqueueDemand, EnqueueScheduled, EnqueueWrite
<1>5. \A p \in Proc : GetStatus(p) \/ Tick(p) \/ (\E coverage \in Coverages : Start(p, coverage))
        => Counted
  BY DEF GetStatus, Tick, Start
<1>6. LeaseExpires \/ TimePasses \/ UNCHANGED vars => Counted
  BY DEF LeaseExpires, TimePasses, vars
<1>7. BulkProc \subseteq Proc /\ ClientProc \subseteq Proc /\ CronProc \subseteq Proc
  BY ConstantsAssumption
<1> HIDE DEF Counted
<1>8. Counted
  BY <1>1, <1>2, <1>3, <1>4, <1>5, <1>6, <1>7 DEF Next
<1> QED BY <1>8 DEF TypeOK, Counted

(* Without a fault every step is of one of the three kinds. *)
LEMMA StepIsOrdinary ==
    ASSUME TypeOK, IdsHeldOnce, WorkersHaveIds, LeaseBelongsToJob, Distinct(queue),
           Undisturbed, faults' = 0, [Next]_vars
    PROVE  Ordinary
<1>1. ASSUME NEW p \in Proc, DrainStep(p) PROVE Ordinary
  BY <1>1, ClaimReadGoesOn, ClaimWriteOrdinary, DrainEndGoesOn, FetchDoneGoesOn, DrainEnds,
     FaultySteps DEF DrainStep, Ordinary
<1>2. ASSUME NEW p \in Proc, BulkStep(p) PROVE Ordinary
  BY <1>2, StartClaimOrdinary, RunGoesOn, RunEnds DEF BulkStep, Ordinary
<1>3. CASE UNCHANGED vars \/ TimePasses
  <2>1. UNCHANGED <<shared, drain, bulk>>
    BY <1>3 DEF vars, TimePasses, shared
  <2> QED BY <2>1, LoopsStay, LocalStep DEF LoopsGoOn, Ordinary
<1>4. BulkProc \subseteq Proc /\ ClientProc \subseteq Proc /\ CronProc \subseteq Proc
  BY ConstantsAssumption
<1> QED
  BY <1>1, <1>2, <1>3, <1>4, FaultySteps, EnqueueGoesOn, RecoveryGoesOn DEF Next, Ordinary

LEMMA StrandedStep ==
    ASSUME IInv, QueueKeysDistinct, SInv, [Next]_vars
    PROVE  SInv'
<1> SUFFICES ASSUME faults' = 0 PROVE Undisturbed' /\ Carried'
  BY DEF SInv
<1>1. Undisturbed /\ Carried
  BY FaultsCount DEF IInv, SInv
<1>2. Ordinary
  BY <1>1, StepIsOrdinary, KeysOfQueue DEF IInv
<1> QED BY <1>1, <1>2, GoingOnKeeps, BeginningKeeps, EndingKeeps DEF Ordinary, IInv

(* As long as nothing has failed, an accepted request is in the queue or    *)
(* with the worker of the running job: neither a claim, a refused claim, a  *)
(* bulk job nor a second enqueue loses it.                                  *)
THEOREM StrandedTheorem == Spec => []NoStrandedRequest
<1>1. Init => SInv
  <2> SUFFICES ASSUME Init PROVE Undisturbed /\ Carried
    BY DEF SInv
  <2>1. Undisturbed
    BY DEF Init, Undisturbed, IdleDrain, IdleBulk, DrainHolding, BulkHolding
  <2>2. Carried
    BY DEF Init, Carried
  <2> QED BY <2>1, <2>2
<1>2. IInv /\ QueueKeysDistinct /\ SInv /\ [Next]_vars => SInv'
  BY StrandedStep
<1>3. SInv => NoStrandedRequest
  BY DEF SInv, Carried, NoStrandedRequest
<1> QED BY <1>1, <1>2, <1>3, Invariance, QueueTheorem, PTL DEF Spec
=============================================================================
