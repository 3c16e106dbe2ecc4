---------------------------- MODULE InvoicePayments ----------------------------
(***************************************************************************)
(* Meter readings and monthly utility invoices of one dormitory room, and  *)
(* the payment of an invoice with a proof that staff review.               *)
(*                                                                         *)
(* An invoice is one document for each room and month (a unique index).    *)
(* Edits and payments load the document, decide on the copy, and save the  *)
(* fields that differ from it by the document's id, whatever happened in   *)
(* between; proofs and reviews are updates with a condition on what was    *)
(* read.  Every action is one datastore call; a request by id starts with  *)
(* the call that loads its invoice.                                        *)
(*                                                                         *)
(* A bill holds two utilities at a tariff of one for each unit and no      *)
(* quota; occupants, dates, notes, exemptions, the file of a proof and the *)
(* invoices of contracts and of room fees are left out.                    *)
(***************************************************************************)
EXTENDS Integers, Sequences, Functions

CONSTANTS
    Months,     \* 1..Months, the billing months
    Reading,    \* bound: the readings of a meter
    Method,     \* of payment, "transfer" among them
    Forms,      \* the bills, and so the readings, that requests ask for
    Req,        \* requests in flight at one time
    ReqId,      \* the request ids that clients give to their reviews
    MaxStarts,  \* bound: requests of one behaviour
    None        \* a reading, a method or a review that is not there

ASSUME ConstantsAssumption ==
    /\ Months \in Nat /\ MaxStarts \in Nat /\ Reading \subseteq Nat /\ 0 \in Reading
    /\ "transfer" \in Method /\ None \notin Method /\ None \notin {"pending", "approved"}

Month == 1..Months
Utility == {"elec", "water"}
Bill == [Utility -> [prev : Reading, cur : Reading]]
Readings == [Utility -> Reading]

VARIABLES
    inv,        \* the invoice of each month; its id is 0 when there is none
    meter,      \* the meter readings saved for each month
    made,       \* how many invoices were inserted
    op,         \* the requests
    starts      \* how many have started

vars == <<inv, meter, made, op, starts>>
data == <<inv, meter, made>>

-----------------------------------------------------------------------------
(* calculateUtility and the total of a bill *)

Used(bill, u) == bill[u].cur - bill[u].prev
Total(bill) == Used(bill, "elec") + Used(bill, "water")

(* Mutant: only the sum is looked at. *)
SoundSum(bill) == Total(bill) >= 0

Sound(bill) == \A u \in Utility : bill[u].prev <= bill[u].cur

ASSUME FormsAssumption == Forms \subseteq {b \in Bill : Sound(b)}

BillOf(prev, cur) == [u \in Utility |-> [prev |-> prev[u], cur |-> cur[u]]]
Prev(bill) == [u \in Utility |-> bill[u].prev]
Cur(bill) == [u \in Utility |-> bill[u].cur]

Zero == [u \in Utility |-> 0]

Invoice(id, bill) ==
    [id |-> id, bill |-> bill, total |-> Total(bill), paid |-> FALSE, confirmed |-> FALSE,
     method |-> None, proof |-> FALSE, review |-> None, attempts |-> <<>>]

NoInvoice == [Invoice(0, BillOf(Zero, Zero)) EXCEPT !.total = 0]

Exists(m) == inv[m].id # 0

-----------------------------------------------------------------------------
(* State *)

Idle == [pc |-> "idle", m |-> 0, copy |-> NoInvoice, cur |-> Zero, prev |-> Zero,
         method |-> None, act |-> None, id |-> None, left |-> {}, raced |-> FALSE,
         alone |-> FALSE]

Init ==
    /\ inv = [m \in Month |-> NoInvoice]
    /\ meter = [m \in Month |-> None]
    /\ made = 0
    /\ op = [r \in Req |-> Idle]
    /\ starts = 0

At(r, pc) == op[r].pc = pc
Put(r, o) == op' = [op EXCEPT ![r] = o] /\ UNCHANGED starts
Go(r, pc) == Put(r, [op[r] EXCEPT !.pc = pc])
End(r) == Put(r, Idle)

(* A request starts; those in flight are no longer alone. *)
Start(r, o) ==
    /\ At(r, "idle") /\ starts < MaxStarts
    /\ starts' = starts + 1
    /\ op' = [q \in Req |-> IF q = r
                            THEN [o EXCEPT !.alone = \A p \in Req \ {r} : At(p, "idle")]
                            ELSE [op[q] EXCEPT !.alone = FALSE]]
    /\ UNCHANGED data

(* The request's own invoice, unless it was deleted meanwhile. *)
Same(r) == inv[op[r].m].id = op[r].copy.id

(* The invoice of the request's month is written; nothing else is. *)
Write(r, i) == inv' = [inv EXCEPT ![op[r].m] = i] /\ UNCHANGED <<meter, made>>

(* A request ends, or fails, or the process crashes between its calls. *)
Fail(r) == ~At(r, "idle") /\ End(r) /\ UNCHANGED data

-----------------------------------------------------------------------------
(* Bills: saveBulkMeterReadings of one room, createMonthly, updateMonthly *)

(* save assigns a whole bill and writes the parts that differ from the copy. *)
Billed(i, copy, bill) ==
    [i EXCEPT !.bill = [u \in Utility |-> IF bill[u] = copy.bill[u] THEN @[u] ELSE bill[u]],
              !.total = IF Total(bill) = copy.total THEN @ ELSE Total(bill)]

Bulk(r, m, cur) == Start(r, [Idle EXCEPT !.pc = "find", !.m = m, !.cur = cur])

(* A paid invoice is refused; an existing one keeps its previous readings.  *)
BulkFind(r) ==
    /\ At(r, "find")
    /\ LET i == inv[op[r].m]
       IN  IF i.paid THEN End(r)
           ELSE Put(r, [op[r] EXCEPT !.pc = IF i.id # 0 THEN "check" ELSE "last",
                                     !.copy = i, !.prev = Prev(i.bill), !.raced = FALSE])
    /\ UNCHANGED data

(* The latest invoice of another month, later months among them. *)
BulkLast(r) ==
    /\ At(r, "last")
    /\ LET others == {m \in Month \ {op[r].m} : Exists(m)}
           Check(prev) == Put(r, [op[r] EXCEPT !.pc = "check", !.prev = prev])
       IN  \/ others = {} /\ Check(Zero)
           \/ \E m \in others : /\ \A k \in others : k <= m
                                /\ Check(Cur(inv[m].bill))
    /\ UNCHANGED data

(* Mutant: readings that are saved already are left as they are. *)
BulkMeterOnce(r) ==
    /\ At(r, "check")
    /\ Sound(BillOf(op[r].prev, op[r].cur))
    /\ LET m == op[r].m
       IN  meter' = [meter EXCEPT ![m] = IF @ = None THEN op[r].cur ELSE @]
    /\ Go(r, "save")
    /\ UNCHANGED <<inv, made>>

(* Readings below the previous ones are refused; else the meter is upserted. *)
(* Of two upserts that both found nothing one may fail, and starts again.    *)
BulkMeter(r) ==
    /\ At(r, "check")
    /\ LET m == op[r].m
           losers == {q \in Req : At(q, "check") /\ op[q].m = m /\ meter[m] = None}
       IN  IF ~Sound(BillOf(op[r].prev, op[r].cur)) THEN End(r) /\ UNCHANGED meter
           ELSE \/ /\ meter' = [meter EXCEPT ![m] = op[r].cur]
                   /\ op' = [q \in Req |-> IF q = r THEN [op[r] EXCEPT !.pc = "save", !.raced = FALSE]
                                           ELSE [op[q] EXCEPT !.raced = @ \/ q \in losers]]
                   /\ UNCHANGED starts
                \/ op[r].raced /\ Go(r, "find") /\ UNCHANGED meter
    /\ UNCHANGED <<inv, made>>

Insert(r, bill, pc) ==
    /\ inv' = [inv EXCEPT ![op[r].m] = Invoice(made + 1, bill)]
    /\ made' = made + 1
    /\ Go(r, pc)
    /\ UNCHANGED meter

(* A duplicate starts again, and then finds the invoice. *)
BulkSave(r) ==
    /\ At(r, "save")
    /\ LET o == op[r]
           bill == BillOf(o.prev, o.cur)
       IN  IF o.copy.id = 0
           THEN IF Exists(o.m) THEN Go(r, "find") /\ UNCHANGED data
                ELSE Insert(r, bill, "saved")
           ELSE IF Same(r) THEN Write(r, Billed(inv[o.m], o.copy, bill)) /\ Go(r, "saved")
           ELSE End(r) /\ UNCHANGED data

Create(r, m, bill) ==
    /\ ~Exists(m)
    /\ Start(r, [Idle EXCEPT !.pc = "create", !.m = m, !.prev = Prev(bill), !.cur = Cur(bill)])

CreateSave(r) ==
    /\ At(r, "create")
    /\ IF Exists(op[r].m) THEN End(r) /\ UNCHANGED data
       ELSE Insert(r, BillOf(op[r].prev, op[r].cur), "billed")

Load(m) == [Idle EXCEPT !.m = m, !.copy = inv[m]]

Update(r, m, bill) ==
    /\ Exists(m) /\ ~inv[m].paid
    /\ Start(r, [Load(m) EXCEPT !.pc = "update", !.prev = Prev(bill), !.cur = Cur(bill)])

UpdateSave(r) ==
    /\ At(r, "update")
    /\ LET o == op[r]
       IN  IF Same(r) THEN Write(r, Billed(inv[o.m], o.copy, BillOf(o.prev, o.cur))) /\ Go(r, "billed")
           ELSE End(r) /\ UNCHANGED data

-----------------------------------------------------------------------------
(* Payment *)

(* A transfer with a proof waits for its review; anything else is paid.     *)
Pay(r, m, method, act) ==
    /\ Exists(m) /\ ~inv[m].paid
    /\ Start(r, [Load(m) EXCEPT !.pc = "pay", !.method = method, !.act = act])

PaySave(r) ==
    /\ At(r, "pay")
    /\ LET o == op[r]
           waits == o.method = "transfer" /\ o.act = "new"
           i == [inv[o.m] EXCEPT !.method = IF o.method = o.copy.method THEN @ ELSE o.method,
                                 !.proof = @ \/ o.act = "new"]
       IN  IF ~Same(r) THEN UNCHANGED data
           ELSE Write(r, IF waits THEN [i EXCEPT !.review = "pending", !.attempts = <<>>]
                         ELSE [i EXCEPT !.paid = TRUE, !.confirmed = TRUE])
    /\ End(r)

(* updatePaymentProof: another method, and a new proof or none any more.    *)
Proof(r, m, method, act) ==
    /\ Exists(m)
    /\ act = "clear" => inv[m].review # "approved"
    /\ Start(r, [Load(m) EXCEPT !.pc = "proof", !.method = method, !.act = act])

Proven(o, i) ==
    LET j == [i EXCEPT !.method = IF o.method = None THEN @ ELSE o.method]
    IN  CASE o.act = "clear" -> [j EXCEPT !.proof = FALSE, !.review = None]
          [] o.act = "new" ->
               [j EXCEPT !.proof = TRUE, !.review = "pending",
                         !.paid = IF o.copy.paid THEN FALSE ELSE @,
                         !.confirmed = IF o.copy.paid THEN FALSE ELSE @]
          [] OTHER -> j

(* Mutant: the proof is saved by the id of its invoice alone. *)
ProofSaveById(r) ==
    /\ At(r, "proof")
    /\ IF Same(r) THEN Write(r, Proven(op[r], inv[op[r].m])) ELSE UNCHANGED data
    /\ End(r)

ProofSave(r) ==
    /\ At(r, "proof")
    /\ LET i == inv[op[r].m]
       IN  IF Same(r) /\ i.paid = op[r].copy.paid /\ i.review = op[r].copy.review
           THEN Write(r, Proven(op[r], i)) ELSE UNCHANGED data
    /\ End(r)

(* reviewPaymentProof of one invoice; the bulk form runs one for each id.   *)
Review(r, m, act, id) ==
    /\ Exists(m) /\ inv[m].method = "transfer" /\ inv[m].proof
    /\ IF act = "revoked" THEN inv[m].review = "approved" /\ inv[m].paid
       ELSE inv[m].review = "pending"
    /\ Start(r, [Load(m) EXCEPT !.pc = "review", !.act = act, !.id = id])

(* Mutants of the condition of a review: the state of the proof, the        *)
(* payment, or what this request wrote before is not looked at.             *)
ReviewableUnseen(o, i) ==
    /\ i.method = "transfer" /\ i.paid = (o.act = "revoked")
    /\ o.act = "rejected" => o.id \notin Range(i.attempts)

ReviewableUnpaidOrNot(o, i) ==
    /\ i.method = "transfer" /\ i.proof
    /\ i.review = IF o.act = "revoked" THEN "approved" ELSE "pending"
    /\ o.act = "rejected" => o.id \notin Range(i.attempts)

ReviewableTwice(o, i) ==
    /\ i.method = "transfer" /\ i.proof
    /\ IF o.act = "revoked" THEN i.review = "approved" /\ i.paid ELSE i.review = "pending" /\ ~i.paid

Reviewable(o, i) ==
    /\ i.method = "transfer" /\ i.proof
    /\ IF o.act = "revoked" THEN i.review = "approved" /\ i.paid ELSE i.review = "pending" /\ ~i.paid
    /\ o.act = "rejected" => o.id \notin Range(i.attempts)

Reviewed(o, i) ==
    CASE o.act = "approved" -> [i EXCEPT !.review = "approved", !.paid = TRUE, !.confirmed = TRUE]
      [] o.act = "revoked" -> [i EXCEPT !.review = "pending", !.paid = FALSE, !.confirmed = FALSE]
      [] o.act = "rejected" -> [i EXCEPT !.attempts = Append(@, o.id),
                                         !.paid = FALSE, !.confirmed = FALSE]

ReviewSave(r) ==
    /\ At(r, "review")
    /\ LET i == inv[op[r].m]
       IN  IF Same(r) /\ Reviewable(op[r], i) THEN Write(r, Reviewed(op[r], i)) ELSE UNCHANGED data
    /\ End(r)

-----------------------------------------------------------------------------
(* bulkDelete: what was unpaid when it was read is deleted by its id, one   *)
(* document after another.                                                  *)

Delete(r, ms) ==
    /\ \E m \in ms : Exists(m) /\ ~inv[m].paid
    /\ Start(r, [Idle EXCEPT !.pc = "delete",
                   !.left = {<<m, inv[m].id>> : m \in {k \in ms : Exists(k) /\ ~inv[k].paid}}])

DeleteOne(r) ==
    /\ At(r, "delete")
    /\ \E d \in op[r].left :
          /\ inv' = [inv EXCEPT ![d[1]] = IF @.id = d[2] THEN NoInvoice ELSE @]
          /\ IF op[r].left = {d} THEN End(r)
             ELSE Put(r, [op[r] EXCEPT !.left = @ \ {d}])
    /\ UNCHANGED <<meter, made>>

-----------------------------------------------------------------------------
Acts == {None, "new", "clear"}
Decisions == {"approved", "rejected", "revoked"}

Begin(r) ==
    \/ \E m \in Month :
          \/ \E bill \in Forms : Bulk(r, m, Cur(bill)) \/ Create(r, m, bill) \/ Update(r, m, bill)
          \/ \E method \in Method, act \in {None, "new"} : Pay(r, m, method, act)
          \/ \E method \in Method \cup {None}, act \in Acts : Proof(r, m, method, act)
          \/ \E act \in Decisions, id \in ReqId : Review(r, m, act, id)
    \/ \E ms \in SUBSET Month : Delete(r, ms)

Step(r) ==
    \/ BulkFind(r) \/ BulkLast(r) \/ BulkMeter(r) \/ BulkSave(r) \/ CreateSave(r)
    \/ UpdateSave(r) \/ PaySave(r) \/ ProofSave(r) \/ ReviewSave(r) \/ DeleteOne(r)

Next == \E r \in Req : Begin(r) \/ Step(r) \/ Fail(r)

Spec == Init /\ [][Next]_vars

-----------------------------------------------------------------------------
(* Properties *)

InvoiceType ==
    [id : Nat, bill : Bill, total : Nat, paid : BOOLEAN, confirmed : BOOLEAN,
     method : Method \cup {None}, proof : BOOLEAN, review : {None, "pending", "approved"},
     attempts : Seq(ReqId)]

Pcs == {"idle", "find", "last", "check", "save", "create", "update", "saved", "billed", "pay",
        "proof", "review", "delete"}

Request ==
    [pc : Pcs, m : 0..Months, copy : InvoiceType, cur : Readings, prev : Readings,
     method : Method \cup {None}, act : Acts \cup Decisions, id : ReqId \cup {None},
     left : SUBSET (Month \X Nat), raced : BOOLEAN, alone : BOOLEAN]

(* The shape of the documents and of the requests; no bill charges a        *)
(* negative consumption.                                                    *)
TypeOK ==
    /\ inv \in [Month -> InvoiceType]
    /\ \A m \in Month, u \in Utility : inv[m].bill[u].prev <= inv[m].bill[u].cur
    /\ meter \in [Month -> Readings \cup {None}]
    /\ made \in Nat /\ starts \in Nat
    /\ op \in [Req -> Request]

(* An approved proof is there and its invoice paid, and an invoice is paid  *)
(* exactly when somebody confirmed it, however payments, proofs and reviews *)
(* race with each other.                                                    *)
PaymentAgrees ==
    \A m \in Month :
        /\ inv[m].review = "approved" => inv[m].paid /\ inv[m].proof
        /\ inv[m].paid <=> inv[m].confirmed

(* "atomically deduplicates simultaneous reject attempts with the same      *)
(* request id": a request, repeated or raced, leaves one attempt.           *)
RejectedOnce ==
    \A m \in Month : \A j, k \in DOMAIN inv[m].attempts :
        inv[m].attempts[j] = inv[m].attempts[k] => j = k

(* A payment is only taken back by a request that saw it: what read an      *)
(* unpaid invoice never undoes a payment that came in between.              *)
ReversalsSawThePayment ==
    [][\A m \in Month :
         inv[m].paid /\ inv'[m].id = inv[m].id /\ ~inv'[m].paid =>
             \E r \in Req : op'[r] # op[r] /\ op[r].m = m /\ op[r].copy.paid]_vars

(* "does not overwrite a proof when its review state changes concurrently": *)
(* only a request that saw the approval, or a payment decided before it,    *)
(* takes an approved proof out of its approval.                             *)
ApprovalIsKept ==
    [][\A m \in Month :
         inv[m].review = "approved" /\ inv'[m].id = inv[m].id
           /\ (inv'[m].review # "approved" \/ ~inv'[m].proof) =>
             \E r \in Req : /\ op'[r] # op[r] /\ op[r].m = m
                            /\ At(r, "pay") \/ op[r].copy.review = "approved"]_vars

(* Whatever crashes and races left behind, a bill that is saved while no    *)
(* other request runs adds up, and readings saved so are those of the meter.*)
LoneSaveAgrees ==
    \A r \in Req :
        LET i == inv[op[r].m]
        IN  op[r].alone =>
              /\ At(r, "saved") \/ At(r, "billed") => i.total = Total(i.bill)
              /\ At(r, "saved") => meter[op[r].m] = Cur(i.bill)
=============================================================================
