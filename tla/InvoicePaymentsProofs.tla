------------------------ MODULE InvoicePaymentsProofs ------------------------
(***************************************************************************)
(* Proofs about InvoicePayments, for any number of months, requests and    *)
(* request ids: its types, that the states of payment, proof and review    *)
(* agree, that a rejection is recorded once, that payments and approvals   *)
(* are only undone by who saw them, and that a save that runs alone leaves *)
(* the bill and the meter in agreement.                                    *)
(***************************************************************************)
EXTENDS InvoicePayments, TLAPS

(* What every document satisfies. *)
Consistent(i) ==
    /\ \A u \in Utility : i.bill[u].prev <= i.bill[u].cur
    /\ i.review = "approved" => i.paid /\ i.proof
    /\ i.paid <=> i.confirmed
    /\ \A j, k \in DOMAIN i.attempts : i.attempts[j] = i.attempts[k] => j = k

(* What a request has to know to take its next step. *)
Good(o) ==
    /\ o.pc \notin {"idle", "delete"} => o.m \in Month
    /\ o.pc \in {"save", "create", "update"} => Sound(BillOf(o.prev, o.cur))
    /\ o.pc = "last" => o.copy.id = 0
    /\ o.pc = "update" => o.copy.id # 0
    /\ o.pc = "pay" => o.method \in Method
    /\ o.pc = "delete" => \A d \in o.left : d[2] # 0
    /\ o.pc = "proof" => (o.act = "clear" => o.copy.review # "approved")
    /\ o.pc = "review" =>
         /\ o.act \in Decisions /\ o.id \in ReqId
         /\ o.act = "revoked" => o.copy.paid /\ o.copy.review = "approved"

(* What it may rely on as long as no other request runs. *)
Lone(o, s, mt) ==
    /\ o.pc \in {"check", "save", "update"} /\ o.copy.id # 0 => o.copy = s[o.m]
    /\ o.pc = "save" => mt[o.m] = o.cur
    /\ o.pc \in {"saved", "billed"} => s[o.m].total = Total(s[o.m].bill)
    /\ o.pc = "saved" => mt[o.m] = Cur(s[o.m].bill)

IInv ==
    /\ TypeOK
    /\ \A m \in Month : Consistent(inv[m])
    /\ \A r \in Req : Good(op[r])
    /\ \A r \in Req : op[r].alone => /\ Lone(op[r], inv, meter)
                                     /\ \A q \in Req \ {r} : op[q].pc = "idle"

(* What a step of request r does to the invoices. *)
Respects(r) ==
    \A m \in Month : inv'[m].id = inv[m].id =>
        /\ inv[m].paid /\ ~inv'[m].paid =>
             op[r].pc # "idle" /\ op[r].m = m /\ op[r].copy.paid /\ op'[r] # op[r]
        /\ inv[m].review = "approved" /\ (inv'[m].review # "approved" \/ ~inv'[m].proof) =>
             /\ op[r].m = m /\ op'[r] # op[r]
             /\ op[r].pc = "pay" \/ op[r].copy.review = "approved"

Kept(r) == IInv' /\ Respects(r)

-----------------------------------------------------------------------------
(* Bills *)

LEMMA BillType ==
    ASSUME NEW prev \in Readings, NEW cur \in Readings
    PROVE  /\ BillOf(prev, cur) \in Bill
           /\ Prev(BillOf(prev, cur)) = prev /\ Cur(BillOf(prev, cur)) = cur
BY DEF Readings, Bill, BillOf, Prev, Cur

LEMMA PartsType ==
    ASSUME NEW bill \in Bill
    PROVE  Prev(bill) \in Readings /\ Cur(bill) \in Readings /\ BillOf(Prev(bill), Cur(bill)) = bill
<1>1. Prev(bill) \in Readings /\ Cur(bill) \in Readings BY DEF Readings, Bill, Prev, Cur
<1>2. \A u \in Utility : [prev |-> bill[u].prev, cur |-> bill[u].cur] = bill[u] BY DEF Bill
<1>3. BillOf(Prev(bill), Cur(bill)) = [u \in Utility |-> bill[u]] BY <1>2 DEF BillOf, Prev, Cur
<1> QED BY <1>1, <1>3 DEF Bill

LEMMA TotalType == ASSUME NEW bill \in Bill, Sound(bill) PROVE Total(bill) \in Nat
<1>1. \A u \in Utility : bill[u].prev \in Nat /\ bill[u].cur \in Nat /\ bill[u].prev <= bill[u].cur
  BY ConstantsAssumption DEF Bill, Sound
<1>2. \A u \in Utility : Used(bill, u) \in Nat BY <1>1 DEF Used
<1> QED BY <1>2 DEF Total, Utility

LEMMA ZeroType == Zero \in Readings /\ Sound(BillOf(Zero, Zero))
BY ConstantsAssumption DEF Zero, Readings, Sound, BillOf

LEMMA InvoiceGood ==
    ASSUME NEW id \in Nat, NEW bill \in Bill, Sound(bill)
    PROVE  Invoice(id, bill) \in InvoiceType /\ Consistent(Invoice(id, bill))
<1>1. Total(bill) \in Nat BY TotalType
<1>2. <<>> \in Seq(ReqId) OBVIOUS
<1>3. Invoice(id, bill) \in InvoiceType BY <1>1, <1>2 DEF Invoice, InvoiceType
<1>4. Consistent(Invoice(id, bill)) BY ConstantsAssumption DEF Invoice, Consistent, Sound
<1> QED BY <1>3, <1>4

LEMMA NoInvoiceGood == NoInvoice \in InvoiceType /\ Consistent(NoInvoice) /\ NoInvoice.id = 0
<1> DEFINE i == Invoice(0, BillOf(Zero, Zero))
<1>1. i \in InvoiceType /\ Consistent(i) BY ZeroType, BillType, InvoiceGood
<1>2. i.id = 0 BY DEF Invoice
<1> HIDE DEF i
<1>3. NoInvoice = [i EXCEPT !.total = 0] BY DEF NoInvoice, i
<1>4. NoInvoice \in InvoiceType /\ NoInvoice.id = i.id BY <1>1, <1>3 DEF InvoiceType
<1>5. Consistent(NoInvoice) BY <1>1, <1>3 DEF InvoiceType, Consistent
<1> QED BY <1>2, <1>4, <1>5

LEMMA IdleGood == Idle \in Request /\ Good(Idle) /\ ~Idle.alone
<1>1. "idle" \in Pcs /\ 0 \in 0..Months BY ConstantsAssumption DEF Pcs
<1>2. Idle \in Request BY <1>1, NoInvoiceGood, ZeroType DEF Idle, Request, Acts
<1> QED BY <1>2 DEF Idle, Good

LEMMA BilledGood ==
    ASSUME NEW i \in InvoiceType, Consistent(i), NEW copy \in InvoiceType,
           NEW bill \in Bill, Sound(bill)
    PROVE  /\ Billed(i, copy, bill) \in InvoiceType /\ Consistent(Billed(i, copy, bill))
           /\ Billed(i, copy, bill).id = i.id /\ Billed(i, copy, bill).paid = i.paid
           /\ Billed(i, copy, bill).review = i.review /\ Billed(i, copy, bill).proof = i.proof
           /\ copy = i => Billed(i, copy, bill).bill = bill
                          /\ Billed(i, copy, bill).total = Total(bill)
<1> DEFINE b == [u \in Utility |-> IF bill[u] = copy.bill[u] THEN i.bill[u] ELSE bill[u]]
           t == IF Total(bill) = copy.total THEN i.total ELSE Total(bill)
           j == [i EXCEPT !.bill = b, !.total = t]
<1>1. Billed(i, copy, bill) = j BY DEF Billed, InvoiceType
<1>2. b \in Bill BY DEF Bill, InvoiceType
<1>3. t \in Nat BY TotalType DEF InvoiceType
<1>4. \A u \in Utility : b[u].prev <= b[u].cur BY DEF Sound, Consistent
<1>5. copy = i => b = bill /\ t = Total(bill) BY DEF Bill
<1> HIDE DEF b, t
<1>6. j \in InvoiceType BY <1>2, <1>3 DEF InvoiceType
<1>7. j.bill = b /\ j.total = t BY DEF InvoiceType
<1>8. Consistent(j) BY <1>4, <1>7 DEF InvoiceType, Consistent
<1>9. j.id = i.id /\ j.paid = i.paid /\ j.review = i.review /\ j.proof = i.proof BY DEF InvoiceType
<1> QED BY <1>1, <1>5, <1>6, <1>7, <1>8, <1>9
-----------------------------------------------------------------------------
(* The kinds of steps *)

(* A request moves on, and may mark others as losers of a race. *)
LEMMA MoveStep ==
    ASSUME IInv, NEW r \in Req, op[r].pc # "idle", NEW o \in Request,
           op' \in [Req -> Request], op'[r] = o, Good(o),
           o.alone => op[r].alone /\ Lone(o, inv', meter'),
           \A q \in Req \ {r} : op'[q].pc = op[q].pc /\ op'[q].alone = op[q].alone /\ Good(op'[q]),
           inv' \in [Month -> InvoiceType], \A m \in Month : Consistent(inv'[m]),
           meter' \in [Month -> Readings \cup {None}], made' \in Nat, starts' \in Nat
    PROVE  IInv'
<1>1. TypeOK' BY DEF TypeOK, Consistent
<1>2. \A q \in Req : Good(op'[q]) OBVIOUS
<1>3. ASSUME NEW p \in Req, op'[p].alone
      PROVE  Lone(op'[p], inv', meter') /\ \A q \in Req \ {p} : op'[q].pc = "idle"
  <2>1. CASE p = r
    <3>1. \A q \in Req \ {r} : op[q].pc = "idle" BY <1>3, <2>1 DEF IInv
    <3> QED BY <1>3, <2>1, <3>1
  <2>2. CASE p # r
    <3>1. op[p].alone BY <1>3, <2>2
    <3>2. op[r].pc = "idle" BY <2>2, <3>1 DEF IInv
    <3> QED BY <3>2
  <2> QED BY <2>1, <2>2
<1> QED BY <1>1, <1>2, <1>3 DEF IInv

LEMMA PutStep ==
    ASSUME IInv, NEW r \in Req, op[r].pc # "idle", NEW o \in Request, Put(r, o), Good(o),
           o.alone => op[r].alone /\ Lone(o, inv', meter'),
           inv' \in [Month -> InvoiceType], \A m \in Month : Consistent(inv'[m]),
           meter' \in [Month -> Readings \cup {None}], made' \in Nat
    PROVE  IInv'
<1>1. op \in [Req -> Request] /\ starts \in Nat BY DEF IInv, TypeOK
<1>2. op' = [op EXCEPT ![r] = o] /\ starts' = starts BY DEF Put
<1>3. op' \in [Req -> Request] /\ op'[r] = o /\ \A q \in Req \ {r} : op'[q] = op[q]
  BY <1>1, <1>2
<1>4. \A q \in Req : Good(op[q]) BY DEF IInv
<1> QED BY <1>1, <1>2, <1>3, <1>4, MoveStep

(* The documents stay as they are. *)
LEMMA LocalStep ==
    ASSUME IInv, NEW r \in Req, op[r].pc # "idle", NEW o \in Request, Put(r, o), Good(o),
           o.alone => op[r].alone /\ Lone(o, inv, meter), UNCHANGED data
    PROVE  Kept(r)
<1>1. inv' = inv /\ meter' = meter /\ made' = made BY DEF data
<1>2. IInv' BY <1>1, PutStep DEF IInv, TypeOK
<1>3. Respects(r)
  <2> SUFFICES ASSUME NEW m \in Month
               PROVE  /\ ~(inv[m].paid /\ ~inv'[m].paid)
                      /\ inv[m].review = "approved" => inv'[m].review = "approved" /\ inv'[m].proof
    BY DEF Respects
  <2>1. Consistent(inv[m]) BY DEF IInv
  <2> QED BY <1>1, <2>1 DEF Consistent
<1> QED BY <1>2, <1>3 DEF Kept

LEMMA EndStep ==
    ASSUME IInv, NEW r \in Req, op[r].pc # "idle", End(r), UNCHANGED data
    PROVE  Kept(r)
BY IdleGood, LocalStep DEF End

(* One invoice is written, and if its payment or its approval is undone     *)
(* then the request saw it.                                                 *)
LEMMA WriteStep ==
    ASSUME IInv, NEW r \in Req, op[r].pc # "idle", NEW o \in Request, Put(r, o), Good(o),
           NEW i \in InvoiceType, Consistent(i), op[r].m \in Month,
           inv' = [inv EXCEPT ![op[r].m] = i], meter' = meter, made' \in Nat,
           o.alone => op[r].alone /\ Lone(o, inv', meter'), o.pc # op[r].pc,
           i.id = inv[op[r].m].id /\ inv[op[r].m].paid /\ ~i.paid => op[r].copy.paid,
           i.id = inv[op[r].m].id /\ inv[op[r].m].review = "approved" /\ i.review # "approved"
             => op[r].pc = "pay" \/ op[r].copy.review = "approved"
    PROVE  Kept(r)
<1>1. inv \in [Month -> InvoiceType] /\ op \in [Req -> Request] /\ TypeOK BY DEF IInv, TypeOK
<1>2. inv' \in [Month -> InvoiceType] BY <1>1
<1>3. ASSUME NEW m \in Month PROVE Consistent(inv'[m])
  <2>1. Consistent(inv[m]) BY DEF IInv
  <2>2. CASE m = op[r].m BY <1>1, <2>2
  <2>3. CASE m # op[r].m
    <3>1. inv'[m] = inv[m] BY <1>1, <2>3
    <3> QED BY <2>1, <3>1
  <2> QED BY <2>2, <2>3
<1>4. IInv' BY <1>1, <1>2, <1>3, PutStep DEF TypeOK
<1>5. op'[r] = o BY <1>1 DEF Put
<1>6. op'[r] # op[r] BY <1>5
<1>7. ASSUME NEW m \in Month, inv'[m].id = inv[m].id, m # op[r].m
      PROVE  /\ ~(inv[m].paid /\ ~inv'[m].paid)
             /\ inv[m].review = "approved" => inv'[m].review = "approved" /\ inv'[m].proof
  <2>1. Consistent(inv[m]) /\ inv'[m] = inv[m] BY <1>1, <1>7 DEF IInv
  <2> QED BY <2>1 DEF Consistent
<1>8. ASSUME NEW m \in Month, inv'[m].id = inv[m].id, m = op[r].m
      PROVE  /\ inv[m].paid /\ ~inv'[m].paid => op[r].copy.paid
             /\ inv[m].review = "approved" /\ (inv'[m].review # "approved" \/ ~inv'[m].proof) =>
                  op[r].pc = "pay" \/ op[r].copy.review = "approved"
  <2>1. inv'[m] = i BY <1>1, <1>8
  <2>2. i.review = "approved" => i.proof BY DEF Consistent
  <2> QED BY <1>8, <2>1, <2>2
<1>9. Respects(r) BY <1>6, <1>7, <1>8 DEF Respects
<1> QED BY <1>4, <1>9 DEF Kept

(* A request starts; whoever was alone is not any more. *)
LEMMA StartStep ==
    ASSUME IInv, NEW r \in Req, NEW o \in Request, Start(r, o), Good(o),
           Lone(o, inv, meter)
    PROVE  Kept(r)
<1> DEFINE p == \A q \in Req \ {r} : At(q, "idle")
<1>0. p \in BOOLEAN /\ (p => \A q \in Req \ {r} : op[q].pc = "idle") BY DEF At
<1> HIDE DEF p
<1>1. op' = [q \in Req |-> IF q = r THEN [o EXCEPT !.alone = p]
                           ELSE [op[q] EXCEPT !.alone = FALSE]]
  BY DEF Start, p
<1>2. /\ inv' = inv /\ meter' = meter /\ made' = made /\ starts' \in Nat /\ TypeOK
      /\ op \in [Req -> Request]
  BY DEF Start, data, IInv, TypeOK
<1>3. ASSUME NEW x \in Request, NEW b \in BOOLEAN, Good(x)
      PROVE  /\ [x EXCEPT !.alone = b] \in Request /\ Good([x EXCEPT !.alone = b])
             /\ [x EXCEPT !.alone = b].alone = b
             /\ [x EXCEPT !.alone = b].pc = x.pc
             /\ Lone(x, inv, meter) => Lone([x EXCEPT !.alone = b], inv, meter)
  <2>1. [x EXCEPT !.alone = b] \in Request BY DEF Request
  <2>2. Good([x EXCEPT !.alone = b]) BY <1>3 DEF Request, Good
  <2>3. Lone(x, inv, meter) => Lone([x EXCEPT !.alone = b], inv, meter) BY DEF Request, Lone
  <2> QED BY <2>1, <2>2, <2>3 DEF Request
<1>4. /\ op'[r] \in Request /\ Good(op'[r]) /\ op'[r].alone = p /\ Lone(op'[r], inv, meter)
  BY <1>0, <1>1, <1>3
<1>5. ASSUME NEW q \in Req \ {r}
      PROVE  op'[q] \in Request /\ Good(op'[q]) /\ ~op'[q].alone /\ op'[q].pc = op[q].pc
  <2>1. op[q] \in Request /\ Good(op[q]) BY <1>2 DEF IInv
  <2>2. op'[q] = [op[q] EXCEPT !.alone = FALSE] BY <1>1
  <2> QED BY <1>3, <2>1, <2>2
<1>6. op' \in [Req -> Request]
  <2>1. op' = [q \in Req |-> op'[q]] BY <1>1
  <2> QED BY <1>4, <1>5, <2>1
<1>7. TypeOK' BY <1>2, <1>6 DEF TypeOK
<1>8. IInv' BY <1>0, <1>2, <1>4, <1>5, <1>7 DEF IInv
<1>9. Respects(r)
  <2> SUFFICES ASSUME NEW m \in Month
               PROVE  /\ ~(inv[m].paid /\ ~inv'[m].paid)
                      /\ inv[m].review = "approved" => inv'[m].review = "approved" /\ inv'[m].proof
    BY DEF Respects
  <2>1. Consistent(inv[m]) BY DEF IInv
  <2> QED BY <1>2, <2>1 DEF Consistent
<1> QED BY <1>8, <1>9 DEF Kept
-----------------------------------------------------------------------------
(* The requests start *)

LEMMA StateTypes ==
    ASSUME IInv, NEW r \in Req
    PROVE  /\ op[r] \in Request /\ Good(op[r])
           /\ inv \in [Month -> InvoiceType] /\ \A m \in Month : Consistent(inv[m])
           /\ meter \in [Month -> Readings \cup {None}] /\ made \in Nat
BY DEF IInv, TypeOK

LEMMA MonthType == ASSUME NEW m \in Month PROVE m \in 0..Months
BY ConstantsAssumption DEF Month

LEMMA FormType ==
    ASSUME NEW bill \in Forms
    PROVE  bill \in Bill /\ Sound(BillOf(Prev(bill), Cur(bill)))
BY FormsAssumption, PartsType

LEMMA BulkStep ==
    ASSUME IInv, NEW r \in Req, NEW m \in Month, NEW bill \in Forms, Bulk(r, m, Cur(bill))
    PROVE  Kept(r)
<1> DEFINE c == Cur(bill)
           o == [Idle EXCEPT !.pc = "find", !.m = m, !.cur = c]
<1>1. c \in Readings /\ "find" \in Pcs BY FormType, PartsType DEF Pcs
<1> HIDE DEF c
<1>2. o \in Request BY <1>1, IdleGood, MonthType DEF Request
<1>3. Good(o) /\ Lone(o, inv, meter) BY DEF Idle, Good, Lone
<1>4. Start(r, o) BY DEF Bulk, c
<1> HIDE DEF o
<1> QED BY <1>2, <1>3, <1>4, StartStep

LEMMA CreateStep ==
    ASSUME IInv, NEW r \in Req, NEW m \in Month, NEW bill \in Forms, Create(r, m, bill)
    PROVE  Kept(r)
<1> DEFINE p == Prev(bill)
           c == Cur(bill)
           o == [Idle EXCEPT !.pc = "create", !.m = m, !.prev = p, !.cur = c]
<1>1. p \in Readings /\ c \in Readings /\ Sound(BillOf(p, c)) /\ "create" \in Pcs
  BY FormType, PartsType DEF Pcs
<1>2. Start(r, o) BY DEF Create
<1> HIDE DEF p, c
<1>3. o \in Request BY <1>1, IdleGood, MonthType DEF Request
<1>4. o.prev = p /\ o.cur = c BY DEF Idle
<1>5. Good(o) /\ Lone(o, inv, meter) BY <1>1, <1>4 DEF Idle, Good, Lone
<1> HIDE DEF o
<1> QED BY <1>2, <1>3, <1>5, StartStep

(* A request by id starts with its invoice. *)
LEMMA LoadType ==
    ASSUME IInv, NEW m \in Month
    PROVE  /\ Load(m) \in Request /\ Load(m).m = m /\ Load(m).copy = inv[m]
           /\ Load(m).pc = "idle"
<1>1. inv[m] \in InvoiceType BY DEF IInv, TypeOK
<1>2. Load(m) = [Idle EXCEPT !.m = m, !.copy = inv[m]] BY DEF Load
<1>3. Load(m) \in Request BY <1>1, <1>2, IdleGood, MonthType DEF Request
<1> QED BY <1>2, <1>3 DEF Idle

LEMMA UpdateStep ==
    ASSUME IInv, NEW r \in Req, NEW m \in Month, NEW bill \in Forms, Update(r, m, bill)
    PROVE  Kept(r)
<1> DEFINE p == Prev(bill)
           c == Cur(bill)
           l == Load(m)
           o == [l EXCEPT !.pc = "update", !.prev = p, !.cur = c]
<1>1. p \in Readings /\ c \in Readings /\ Sound(BillOf(p, c)) /\ "update" \in Pcs
  BY FormType, PartsType DEF Pcs
<1>2. Start(r, o) /\ inv[m].id # 0 BY DEF Update, Exists
<1>3. l \in Request /\ l.m = m /\ l.copy = inv[m] BY LoadType
<1> HIDE DEF p, c, l
<1>4. o \in Request BY <1>1, <1>3 DEF Request
<1>5. o.pc = "update" /\ o.m = m /\ o.copy = inv[m] /\ o.prev = p /\ o.cur = c
  BY <1>3 DEF Request
<1> HIDE DEF o
<1>6. Good(o) /\ Lone(o, inv, meter) BY <1>1, <1>2, <1>5 DEF Good, Lone
<1> QED BY <1>2, <1>4, <1>6, StartStep

LEMMA PaymentStep ==
    ASSUME IInv, NEW r \in Req, NEW m \in Month,
           \/ \E method \in Method, act \in {None, "new"} : Pay(r, m, method, act)
           \/ \E method \in Method \cup {None}, act \in Acts : Proof(r, m, method, act)
           \/ \E act \in Decisions, id \in ReqId : Review(r, m, act, id)
    PROVE  Kept(r)
<1> DEFINE l == Load(m)
<1>1. l \in Request /\ l.m = m /\ l.copy = inv[m] BY LoadType
<1>2. {"pay", "proof", "review"} \subseteq Pcs /\ {None, "new"} \subseteq Acts BY DEF Pcs, Acts
<1>3. ASSUME NEW o \in Request, Start(r, o), Good(o), o.pc \in {"pay", "proof", "review"}
      PROVE  Kept(r)
  <2>1. Lone(o, inv, meter) BY <1>3 DEF Lone
  <2> QED BY <1>3, <2>1, StartStep
<1>4. ASSUME NEW method \in Method, NEW act \in {None, "new"}, Pay(r, m, method, act)
      PROVE  Kept(r)
  <2> DEFINE o == [l EXCEPT !.pc = "pay", !.method = method, !.act = act]
  <2>1. Start(r, o) BY <1>4 DEF Pay
  <2> HIDE DEF l
  <2>2. o \in Request BY <1>1, <1>2 DEF Request
  <2>3. Good(o) /\ o.pc = "pay" BY <1>1 DEF Request, Good
  <2> HIDE DEF o
  <2> QED BY <1>3, <2>1, <2>2, <2>3
<1>5. ASSUME NEW method \in Method \cup {None}, NEW act \in Acts, Proof(r, m, method, act)
      PROVE  Kept(r)
  <2> DEFINE o == [l EXCEPT !.pc = "proof", !.method = method, !.act = act]
  <2>1. Start(r, o) /\ (act = "clear" => inv[m].review # "approved") BY <1>5 DEF Proof
  <2> HIDE DEF l
  <2>2. o \in Request BY <1>1, <1>2 DEF Request
  <2>3. Good(o) /\ o.pc = "proof" BY <1>1, <2>1 DEF Request, Good
  <2> HIDE DEF o
  <2> QED BY <1>3, <2>1, <2>2, <2>3
<1>6. ASSUME NEW act \in Decisions, NEW id \in ReqId, Review(r, m, act, id)
      PROVE  Kept(r)
  <2> DEFINE o == [l EXCEPT !.pc = "review", !.act = act, !.id = id]
  <2>1. Start(r, o) /\ (act = "revoked" => inv[m].review = "approved" /\ inv[m].paid)
    BY <1>6 DEF Review
  <2> HIDE DEF l
  <2>2. o \in Request BY <1>1, <1>2 DEF Request
  <2>3. Good(o) /\ o.pc = "review" BY <1>1, <2>1 DEF Request, Good
  <2> HIDE DEF o
  <2> QED BY <1>3, <2>1, <2>2, <2>3
<1> QED BY <1>4, <1>5, <1>6

LEMMA DeleteStep ==
    ASSUME IInv, NEW r \in Req, NEW ms \in SUBSET Month, Delete(r, ms)
    PROVE  Kept(r)
<1> DEFINE d == {<<m, inv[m].id>> : m \in {k \in ms : Exists(k) /\ ~inv[k].paid}}
           o == [Idle EXCEPT !.pc = "delete", !.left = d]
<1>1. \A m \in Month : inv[m].id \in Nat BY DEF IInv, TypeOK, InvoiceType
<1>2. d \in SUBSET (Month \X Nat) /\ "delete" \in Pcs BY <1>1 DEF Pcs
<1>6. \A x \in d : x[2] # 0 BY DEF Exists
<1>3. Start(r, o) BY DEF Delete
<1> HIDE DEF d
<1>4. o \in Request BY <1>2, IdleGood DEF Request
<1>7. o.left = d BY DEF Idle
<1>5. Good(o) /\ Lone(o, inv, meter) BY <1>6, <1>7 DEF Idle, Good, Lone
<1> HIDE DEF o
<1> QED BY <1>3, <1>4, <1>5, StartStep
-----------------------------------------------------------------------------
(* The requests go on: bills *)

LEMMA BulkFindStep == ASSUME IInv, NEW r \in Req, BulkFind(r) PROVE Kept(r)
<1> DEFINE i == inv[op[r].m]
           pc == IF i.id # 0 THEN "check" ELSE "last"
           prev == Prev(i.bill)
           o == [op[r] EXCEPT !.pc = pc, !.copy = i, !.prev = prev, !.raced = FALSE]
<1>1. op[r] \in Request /\ op[r].pc = "find" /\ op[r].m \in Month /\ UNCHANGED data
  BY StateTypes DEF BulkFind, At, Good
<1>2. i \in InvoiceType BY <1>1, StateTypes
<1>3. prev \in Readings /\ pc \in Pcs BY <1>2, PartsType DEF InvoiceType, Pcs
<1>4. End(r) \/ Put(r, o) BY DEF BulkFind
<1>5. pc = "check" \/ (pc = "last" /\ i.id = 0) OBVIOUS
<1> HIDE DEF prev, pc
<1>6. o \in Request BY <1>1, <1>2, <1>3 DEF Request
<1>7. o.pc = pc /\ o.m = op[r].m /\ o.copy = i /\ o.alone = op[r].alone BY <1>1 DEF Request
<1> HIDE DEF o
<1>8. Good(o) /\ Lone(o, inv, meter) BY <1>1, <1>5, <1>7 DEF Good, Lone
<1> QED BY <1>1, <1>4, <1>6, <1>7, <1>8, LocalStep, EndStep

LEMMA BulkLastStep == ASSUME IInv, NEW r \in Req, BulkLast(r) PROVE Kept(r)
<1>1. op[r] \in Request /\ Good(op[r]) /\ op[r].pc = "last" /\ UNCHANGED data
  BY StateTypes DEF BulkLast, At
<1>2. PICK prev \in Readings : Put(r, [op[r] EXCEPT !.pc = "check", !.prev = prev])
  <2>1. CASE Put(r, [op[r] EXCEPT !.pc = "check", !.prev = Zero]) BY <2>1, ZeroType
  <2>2. ASSUME NEW m \in Month, Put(r, [op[r] EXCEPT !.pc = "check", !.prev = Cur(inv[m].bill)])
        PROVE  \E prev \in Readings : Put(r, [op[r] EXCEPT !.pc = "check", !.prev = prev])
    <3>1. inv[m].bill \in Bill BY StateTypes DEF InvoiceType
    <3> QED BY <2>2, <3>1, PartsType
  <2> QED BY <2>1, <2>2 DEF BulkLast
<1> DEFINE o == [op[r] EXCEPT !.pc = "check", !.prev = prev]
<1>3. o \in Request BY <1>1 DEF Request, Pcs
<1>4. o.pc = "check" /\ o.m = op[r].m /\ o.copy = op[r].copy /\ o.alone = op[r].alone
  BY <1>1 DEF Request
<1>5. Put(r, o) BY <1>2
<1> HIDE DEF o
<1>6. Good(o) /\ Lone(o, inv, meter) BY <1>1, <1>4 DEF Good, Lone
<1> QED BY <1>1, <1>3, <1>4, <1>5, <1>6, LocalStep

LEMMA BulkMeterStep == ASSUME IInv, NEW r \in Req, BulkMeter(r) PROVE Kept(r)
<1> DEFINE m == op[r].m
           losers == {q \in Req : At(q, "check") /\ op[q].m = m /\ meter[m] = None}
           o == [op[r] EXCEPT !.pc = "save", !.raced = FALSE]
           x == [op[r] EXCEPT !.pc = "find"]
<1>1. /\ op[r] \in Request /\ Good(op[r]) /\ op[r].pc = "check" /\ m \in Month
      /\ inv' = inv /\ made' = made
  BY StateTypes DEF BulkMeter, At, Good
<1>2. CASE ~Sound(BillOf(op[r].prev, op[r].cur))
  BY <1>1, <1>2, EndStep DEF BulkMeter, data
<1>3. CASE /\ Sound(BillOf(op[r].prev, op[r].cur)) /\ UNCHANGED starts
           /\ meter' = [meter EXCEPT ![m] = op[r].cur]
           /\ op' = [q \in Req |-> IF q = r THEN o ELSE [op[q] EXCEPT !.raced = @ \/ q \in losers]]
  <2>1. o \in Request BY <1>1 DEF Request, Pcs
  <2>2. /\ o.pc = "save" /\ o.m = m /\ o.copy = op[r].copy /\ o.alone = op[r].alone
        /\ o.prev = op[r].prev /\ o.cur = op[r].cur
    BY <1>1 DEF Request
  <2>3. /\ meter' \in [Month -> Readings \cup {None}] /\ meter'[m] = op[r].cur
        /\ inv' \in [Month -> InvoiceType] /\ \A k \in Month : Consistent(inv'[k])
        /\ made' \in Nat /\ starts' \in Nat
    BY <1>1, <1>3, StateTypes DEF Request, IInv, TypeOK
  <2> HIDE DEF o
  <2>4. Good(o) BY <1>1, <1>3, <2>2 DEF Good
  <2>5. o.alone => op[r].alone /\ Lone(o, inv', meter')
    <3>1. op[r].alone => Lone(op[r], inv, meter) BY DEF IInv
    <3> HIDE DEF m
    <3> QED BY <1>1, <2>2, <2>3, <3>1 DEF Lone, m
  <2>6. op'[r] = o BY <1>3
  <2>7. ASSUME NEW q \in Req \ {r}
        PROVE  op'[q] \in Request /\ op'[q].pc = op[q].pc /\ op'[q].alone = op[q].alone /\ Good(op'[q])
    <3> DEFINE b == op[q].raced \/ q \in losers
               y == [op[q] EXCEPT !.raced = b]
    <3>1. op[q] \in Request /\ Good(op[q]) BY StateTypes
    <3>2. op'[q] = y /\ b \in BOOLEAN BY <1>3
    <3> HIDE DEF b
    <3>3. y \in Request BY <3>1, <3>2 DEF Request
    <3>4. Good(y) BY <3>1 DEF Good, Request
    <3>5. y.pc = op[q].pc /\ y.alone = op[q].alone BY <3>1 DEF Request
    <3> QED BY <3>2, <3>3, <3>4, <3>5
  <2>8. op' \in [Req -> Request]
    <3>1. op' = [q \in Req |-> op'[q]] BY <1>3
    <3> QED BY <2>1, <2>6, <2>7, <3>1
  <2>9. IInv' BY <1>1, <2>1, <2>3, <2>4, <2>5, <2>6, <2>7, <2>8, MoveStep
  <2>10. Respects(r)
    <3> SUFFICES ASSUME NEW k \in Month
                 PROVE  /\ ~(inv[k].paid /\ ~inv'[k].paid)
                        /\ inv[k].review = "approved" => inv'[k].review = "approved" /\ inv'[k].proof
      BY DEF Respects
    <3>1. Consistent(inv[k]) BY DEF IInv
    <3> QED BY <1>1, <3>1 DEF Consistent
  <2> QED BY <2>9, <2>10 DEF Kept
<1>4. CASE Go(r, "find") /\ UNCHANGED meter
  <2>1. x \in Request BY <1>1 DEF Request, Pcs
  <2>2. x.pc = "find" /\ x.m = m /\ x.alone = op[r].alone BY <1>1 DEF Request
  <2>3. Put(r, x) /\ UNCHANGED data BY <1>1, <1>4 DEF Go, data
  <2> HIDE DEF x
  <2>4. Good(x) /\ Lone(x, inv, meter) BY <1>1, <2>2 DEF Good, Lone
  <2> QED BY <1>1, <2>1, <2>2, <2>3, <2>4, LocalStep
<1> QED BY <1>2, <1>3, <1>4 DEF BulkMeter

(* An invoice is inserted where there was none. *)
LEMMA InsertStep ==
    ASSUME IInv, NEW r \in Req, op[r].pc \in {"save", "create"}, ~Exists(op[r].m),
           NEW pc \in {"saved", "billed"}, pc = "saved" => op[r].pc = "save",
           Insert(r, BillOf(op[r].prev, op[r].cur), pc)
    PROVE  Kept(r)
<1> DEFINE bill == BillOf(op[r].prev, op[r].cur)
           id == made + 1
           i == Invoice(id, bill)
           o == [op[r] EXCEPT !.pc = pc]
           m == op[r].m
<1>1. /\ op[r] \in Request /\ Good(op[r]) /\ m \in Month /\ made \in Nat
      /\ inv \in [Month -> InvoiceType]
  BY StateTypes DEF Good
<1>2. bill \in Bill /\ Sound(bill) /\ Cur(bill) = op[r].cur
  BY <1>1, BillType DEF Request, Good
<1>3. inv' = [inv EXCEPT ![m] = i] /\ made' = id /\ Put(r, o) /\ meter' = meter
  BY DEF Insert, Go
<1>4. id \in Nat /\ id # 0 BY <1>1
<1> HIDE DEF bill, id
<1>5. i \in InvoiceType /\ Consistent(i) BY <1>2, <1>4, InvoiceGood
<1>6. i.id = id /\ i.bill = bill /\ i.total = Total(bill) BY DEF Invoice
<1> HIDE DEF i
<1>7. o \in Request BY <1>1 DEF Request, Pcs
<1>8. o.pc = pc /\ o.m = m /\ o.alone = op[r].alone BY <1>1 DEF Request
<1>9. Good(o) BY <1>1, <1>8 DEF Good
<1>10. i.id # inv[m].id BY <1>4, <1>6 DEF Exists
<1>11. inv'[m] = i BY <1>1, <1>3
<1>12. o.alone => op[r].alone /\ Lone(o, inv', meter')
  <2>1. op[r].alone => Lone(op[r], inv, meter) BY DEF IInv
  <2>2. op[r].alone /\ pc = "saved" => meter[m] = op[r].cur BY <2>1 DEF Lone
  <2> HIDE DEF o, m
  <2> QED BY <1>2, <1>3, <1>6, <1>8, <1>11, <2>2 DEF Lone
<1> HIDE DEF o
<1> QED BY <1>1, <1>3, <1>4, <1>5, <1>7, <1>8, <1>9, <1>10, <1>12, WriteStep

(* A loaded invoice is saved with a new bill. *)
LEMMA BilledStep ==
    ASSUME IInv, NEW r \in Req, op[r].pc \in {"save", "update"}, Same(r),
           op[r].copy.id # 0,
           NEW pc \in {"saved", "billed"}, pc = "saved" => op[r].pc = "save",
           Write(r, Billed(inv[op[r].m], op[r].copy, BillOf(op[r].prev, op[r].cur))), Go(r, pc)
    PROVE  Kept(r)
<1> DEFINE bill == BillOf(op[r].prev, op[r].cur)
           m == op[r].m
           copy == op[r].copy
           i == Billed(inv[m], copy, bill)
           o == [op[r] EXCEPT !.pc = pc]
<1>1. /\ op[r] \in Request /\ Good(op[r]) /\ m \in Month /\ made \in Nat
      /\ inv \in [Month -> InvoiceType] /\ Consistent(inv[m])
  BY StateTypes DEF Good
<1>2. bill \in Bill /\ Sound(bill) /\ Cur(bill) = op[r].cur /\ copy \in InvoiceType
  BY <1>1, BillType DEF Request, Good
<1>3. inv' = [inv EXCEPT ![m] = i] /\ made' = made /\ Put(r, o) /\ meter' = meter
  BY DEF Write, Go
<1> HIDE DEF bill
<1>4. /\ i \in InvoiceType /\ Consistent(i) /\ i.id = inv[m].id /\ i.paid = inv[m].paid
      /\ i.review = inv[m].review
      /\ copy = inv[m] => i.bill = bill /\ i.total = Total(bill)
  <2>1. inv[m] \in InvoiceType BY <1>1
  <2> HIDE DEF m, copy
  <2> QED BY <1>1, <1>2, <2>1, BilledGood
<1> HIDE DEF i
<1>7. o \in Request BY <1>1 DEF Request, Pcs
<1>8. o.pc = pc /\ o.m = m /\ o.alone = op[r].alone BY <1>1 DEF Request
<1>9. Good(o) BY <1>1, <1>8 DEF Good
<1>11. inv'[m] = i BY <1>1, <1>3
<1>12. o.alone => op[r].alone /\ Lone(o, inv', meter')
  <2>1. op[r].alone => Lone(op[r], inv, meter) BY DEF IInv
  <2>2. op[r].alone => copy = inv[m] BY <2>1 DEF Lone
  <2>3. op[r].alone /\ pc = "saved" => meter[m] = op[r].cur BY <2>1 DEF Lone
  <2> HIDE DEF o, m, copy
  <2> QED BY <1>2, <1>3, <1>4, <1>8, <1>11, <2>2, <2>3 DEF Lone
<1> HIDE DEF o
<1> QED BY <1>1, <1>3, <1>4, <1>7, <1>8, <1>9, <1>12, WriteStep
LEMMA BillSaveStep ==
    ASSUME IInv, NEW r \in Req, BulkSave(r) \/ CreateSave(r) \/ UpdateSave(r)
    PROVE  Kept(r)
<1>1. op[r] \in Request /\ Good(op[r]) BY StateTypes
<1>2. CASE BulkSave(r)
  <2>1. op[r].pc = "save" BY <1>2 DEF BulkSave, At
  <2>2. CASE op[r].copy.id = 0 /\ ~Exists(op[r].m)
    <3>1. Insert(r, BillOf(op[r].prev, op[r].cur), "saved") BY <1>2, <2>2 DEF BulkSave
    <3> QED BY <2>1, <2>2, <3>1, InsertStep
  <2>3. CASE op[r].copy.id = 0 /\ Exists(op[r].m)
    <3> DEFINE o == [op[r] EXCEPT !.pc = "find"]
    <3>1. Put(r, o) /\ UNCHANGED data BY <1>2, <2>3 DEF BulkSave, Go
    <3>2. o \in Request BY <1>1 DEF Request, Pcs
    <3>3. o.pc = "find" /\ o.m = op[r].m /\ o.alone = op[r].alone BY <1>1 DEF Request
    <3> HIDE DEF o
    <3>4. Good(o) /\ Lone(o, inv, meter) BY <1>1, <2>1, <3>3 DEF Good, Lone
    <3> QED BY <2>1, <3>1, <3>2, <3>3, <3>4, LocalStep
  <2>4. CASE op[r].copy.id # 0 /\ Same(r)
    <3>1. /\ Write(r, Billed(inv[op[r].m], op[r].copy, BillOf(op[r].prev, op[r].cur)))
          /\ Go(r, "saved")
      BY <1>2, <2>4 DEF BulkSave
    <3> QED BY <2>1, <2>4, <3>1, BilledStep
  <2>5. CASE op[r].copy.id # 0 /\ ~Same(r)
    <3>1. End(r) /\ UNCHANGED data BY <1>2, <2>5 DEF BulkSave
    <3> QED BY <2>1, <3>1, EndStep
  <2> QED BY <2>2, <2>3, <2>4, <2>5
<1>3. CASE CreateSave(r)
  <2>1. op[r].pc = "create" BY <1>3 DEF CreateSave, At
  <2>2. CASE Exists(op[r].m) BY <1>3, <2>1, <2>2, EndStep DEF CreateSave
  <2>3. CASE ~Exists(op[r].m)
    <3>1. Insert(r, BillOf(op[r].prev, op[r].cur), "billed") BY <1>3, <2>3 DEF CreateSave
    <3> QED BY <2>1, <2>3, <3>1, InsertStep
  <2> QED BY <2>2, <2>3
<1>4. CASE UpdateSave(r)
  <2>1. op[r].pc = "update" BY <1>4 DEF UpdateSave, At
  <2>2. CASE Same(r)
    <3>1. /\ Write(r, Billed(inv[op[r].m], op[r].copy, BillOf(op[r].prev, op[r].cur)))
          /\ Go(r, "billed")
      BY <1>4, <2>2 DEF UpdateSave
    <3> QED BY <1>1, <2>1, <2>2, <3>1, BilledStep DEF Good
  <2>3. CASE ~Same(r) BY <1>4, <2>1, <2>3, EndStep DEF UpdateSave
  <2> QED BY <2>2, <2>3
<1> QED BY <1>2, <1>3, <1>4

-----------------------------------------------------------------------------
(* The requests go on: payments, proofs, reviews and deletions *)

(* A request ends with a write to its invoice. *)
LEMMA LastWriteStep ==
    ASSUME IInv, NEW r \in Req, op[r].pc \in {"pay", "proof", "review"}, End(r),
           NEW i \in InvoiceType, Consistent(i), Write(r, i),
           inv[op[r].m].paid /\ ~i.paid => op[r].copy.paid,
           inv[op[r].m].review = "approved" /\ i.review # "approved"
             => op[r].pc = "pay" \/ op[r].copy.review = "approved"
    PROVE  Kept(r)
<1>1. op[r].m \in Month /\ made \in Nat BY StateTypes DEF Good
<1>2. /\ inv' = [inv EXCEPT ![op[r].m] = i] /\ meter' = meter /\ made' = made
      /\ Put(r, Idle)
  BY DEF Write, End
<1>3. Idle.pc = "idle" BY DEF Idle
<1> QED BY <1>1, <1>2, <1>3, IdleGood, WriteStep

LEMMA PaySaveStep == ASSUME IInv, NEW r \in Req, PaySave(r) PROVE Kept(r)
<1> DEFINE o == op[r]
           method == IF o.method = o.copy.method THEN inv[o.m].method ELSE o.method
           proof == inv[o.m].proof \/ o.act = "new"
           i == [inv[o.m] EXCEPT !.method = method, !.proof = proof]
           w == [i EXCEPT !.review = "pending", !.attempts = <<>>]
           p == [i EXCEPT !.paid = TRUE, !.confirmed = TRUE]
<1>1. o \in Request /\ Good(o) /\ o.pc = "pay" /\ o.m \in Month /\ End(r)
  BY StateTypes DEF PaySave, At, Good
<1>2. inv[o.m] \in InvoiceType /\ Consistent(inv[o.m]) BY <1>1, StateTypes
<1>3. UNCHANGED data \/ Write(r, w) \/ Write(r, p) BY DEF PaySave
<1>4. method \in Method \cup {None} /\ proof \in BOOLEAN /\ (inv[o.m].proof => proof)
  BY <1>1, <1>2 DEF InvoiceType, Request
<1> HIDE DEF method, proof
<1>5. /\ i \in InvoiceType /\ i.bill = inv[o.m].bill /\ i.paid = inv[o.m].paid
      /\ i.confirmed = inv[o.m].confirmed /\ i.review = inv[o.m].review
      /\ i.attempts = inv[o.m].attempts /\ i.proof = proof
  BY <1>2, <1>4 DEF InvoiceType
<1> HIDE DEF i
<1>6. Consistent(i) BY <1>2, <1>4, <1>5 DEF Consistent
<1>7. w \in InvoiceType /\ p \in InvoiceType
  <2>1. <<>> \in Seq(ReqId) OBVIOUS
  <2> QED BY <1>5, <2>1 DEF InvoiceType
<1>8. Consistent(w) /\ w.paid = i.paid BY <1>5, <1>6 DEF Consistent, InvoiceType
<1>9. Consistent(p) /\ p.paid
  <2>1. /\ p.bill = i.bill /\ p.paid = TRUE /\ p.confirmed = TRUE /\ p.proof = i.proof
        /\ p.review = i.review /\ p.attempts = i.attempts
    BY <1>5 DEF InvoiceType
  <2>2. p.review = "approved" => i.proof BY <1>6, <2>1 DEF Consistent
  <2> HIDE DEF p
  <2> QED BY <1>6, <2>1, <2>2 DEF Consistent
<1> HIDE DEF w, p
<1>10. CASE UNCHANGED data BY <1>1, <1>10, EndStep
<1>11. CASE Write(r, w) BY <1>1, <1>5, <1>7, <1>8, <1>11, LastWriteStep
<1>12. CASE Write(r, p) BY <1>1, <1>5, <1>7, <1>9, <1>12, LastWriteStep
<1> QED BY <1>3, <1>10, <1>11, <1>12

LEMMA ProvenGood ==
    ASSUME NEW o \in Request, NEW i \in InvoiceType, Consistent(i),
           i.paid = o.copy.paid
    PROVE  /\ Proven(o, i) \in InvoiceType /\ Consistent(Proven(o, i))
           /\ i.paid /\ ~Proven(o, i).paid => o.copy.paid
<1> DEFINE method == IF o.method = None THEN i.method ELSE o.method
           j == [i EXCEPT !.method = method]
           c == [j EXCEPT !.proof = FALSE, !.review = None]
           paid == IF o.copy.paid THEN FALSE ELSE j.paid
           confirmed == IF o.copy.paid THEN FALSE ELSE j.confirmed
           n == [j EXCEPT !.proof = TRUE, !.review = "pending", !.paid = paid, !.confirmed = confirmed]
<1>1. method \in Method \cup {None} BY DEF Request, InvoiceType
<1> HIDE DEF method
<1>2. /\ j \in InvoiceType /\ j.bill = i.bill /\ j.paid = i.paid /\ j.confirmed = i.confirmed
      /\ j.proof = i.proof /\ j.review = i.review /\ j.attempts = i.attempts
  BY <1>1 DEF InvoiceType
<1>3. Consistent(j) BY <1>2 DEF Consistent
<1>4. \/ o.act = "clear" /\ Proven(o, i) = c
      \/ o.act = "new" /\ Proven(o, i) = n
      \/ Proven(o, i) = j
  BY DEF Proven, method
<1> HIDE DEF j
<1>5. c \in InvoiceType /\ Consistent(c)
  <2>1. c \in InvoiceType BY <1>2 DEF InvoiceType
  <2>2. /\ c.bill = j.bill /\ c.paid = j.paid /\ c.confirmed = j.confirmed /\ c.review = None
        /\ c.attempts = j.attempts
    BY <1>2 DEF InvoiceType
  <2> HIDE DEF c
  <2> QED BY <1>3, <2>1, <2>2, ConstantsAssumption DEF Consistent
<1>6. n \in InvoiceType /\ Consistent(n)
  <2>0. paid \in BOOLEAN /\ confirmed \in BOOLEAN /\ (paid <=> confirmed)
    BY <1>2, <1>3 DEF Consistent, InvoiceType
  <2> HIDE DEF paid, confirmed
  <2>1. n \in InvoiceType BY <1>2, <2>0 DEF InvoiceType
  <2>2. /\ n.bill = j.bill /\ n.paid = paid /\ n.confirmed = confirmed /\ n.review = "pending"
        /\ n.attempts = j.attempts
    BY <1>2 DEF InvoiceType
  <2> HIDE DEF n
  <2> QED BY <1>3, <2>0, <2>1, <2>2 DEF Consistent
<1> HIDE DEF c, n
<1> QED BY <1>2, <1>3, <1>4, <1>5, <1>6

LEMMA ProofSaveStep == ASSUME IInv, NEW r \in Req, ProofSave(r) PROVE Kept(r)
<1> DEFINE o == op[r]
           i == inv[o.m]
<1>1. o \in Request /\ Good(o) /\ o.pc = "proof" /\ o.m \in Month /\ End(r)
  BY StateTypes DEF ProofSave, At, Good
<1>2. i \in InvoiceType /\ Consistent(i) BY <1>1, StateTypes
<1>3. CASE i.paid = o.copy.paid /\ i.review = o.copy.review /\ Write(r, Proven(o, i))
  <2> HIDE DEF i
  <2>1. /\ Proven(o, i) \in InvoiceType /\ Consistent(Proven(o, i))
        /\ i.paid /\ ~Proven(o, i).paid => o.copy.paid
    BY <1>1, <1>2, <1>3, ProvenGood
  <2>2. i.review = "approved" => o.copy.review = "approved" BY <1>3
  <2> QED BY <1>1, <1>3, <2>1, <2>2, LastWriteStep DEF i
<1>4. CASE UNCHANGED data BY <1>1, <1>4, EndStep
<1> QED BY <1>3, <1>4 DEF ProofSave

LEMMA AppendOnce ==
    ASSUME NEW s \in Seq(ReqId), NEW id \in ReqId, id \notin Range(s),
           \A j, k \in DOMAIN s : s[j] = s[k] => j = k
    PROVE  \A j, k \in DOMAIN Append(s, id) : Append(s, id)[j] = Append(s, id)[k] => j = k
<1>1. \A j \in DOMAIN s : s[j] # id BY DEF Range
<1>2. Len(s) \in Nat /\ DOMAIN s = 1..Len(s) OBVIOUS
<1>3. DOMAIN Append(s, id) = 1..(Len(s) + 1) OBVIOUS
<1>4. \A j \in 1..Len(s) : Append(s, id)[j] = s[j] OBVIOUS
<1>5. Append(s, id)[Len(s) + 1] = id OBVIOUS
<1>6. \A j \in 1..(Len(s) + 1) : j \in 1..Len(s) \/ j = Len(s) + 1 BY <1>2
<1> QED BY <1>1, <1>2, <1>3, <1>4, <1>5, <1>6

LEMMA ReviewedGood ==
    ASSUME NEW o \in Request, o.act \in Decisions, o.id \in ReqId,
           NEW i \in InvoiceType, Consistent(i), Reviewable(o, i)
    PROVE  /\ Reviewed(o, i) \in InvoiceType /\ Consistent(Reviewed(o, i))
           /\ i.paid /\ ~Reviewed(o, i).paid => o.act = "revoked"
           /\ i.review = "approved" => o.act = "revoked"
<1>1. i.proof /\ IF o.act = "revoked" THEN i.review = "approved" /\ i.paid
                 ELSE i.review = "pending" /\ ~i.paid
  BY DEF Reviewable
<1>2. CASE o.act = "approved"
  <2> DEFINE w == [i EXCEPT !.review = "approved", !.paid = TRUE, !.confirmed = TRUE]
  <2>1. Reviewed(o, i) = w BY <1>2 DEF Reviewed
  <2>2. w \in InvoiceType BY DEF InvoiceType
  <2>3. /\ w.bill = i.bill /\ w.paid = TRUE /\ w.confirmed = TRUE /\ w.proof = i.proof
        /\ w.attempts = i.attempts
    BY DEF InvoiceType
  <2> HIDE DEF w
  <2>4. Consistent(w) BY <1>1, <2>3 DEF Consistent
  <2> QED BY <1>1, <1>2, <2>1, <2>2, <2>3, <2>4
<1>3. CASE o.act = "revoked"
  <2> DEFINE w == [i EXCEPT !.review = "pending", !.paid = FALSE, !.confirmed = FALSE]
  <2>1. Reviewed(o, i) = w BY <1>3 DEF Reviewed
  <2>2. w \in InvoiceType BY DEF InvoiceType
  <2>3. /\ w.bill = i.bill /\ w.paid = FALSE /\ w.confirmed = FALSE /\ w.review = "pending"
        /\ w.attempts = i.attempts
    BY DEF InvoiceType
  <2> HIDE DEF w
  <2>4. Consistent(w) BY <2>3 DEF Consistent
  <2> QED BY <1>3, <2>1, <2>2, <2>4
<1>4. CASE o.act = "rejected"
  <2> DEFINE a == Append(i.attempts, o.id)
             w == [i EXCEPT !.attempts = a, !.paid = FALSE, !.confirmed = FALSE]
  <2>1. Reviewed(o, i) = w BY <1>4 DEF Reviewed
  <2>2. i.attempts \in Seq(ReqId) /\ o.id \notin Range(i.attempts)
    BY <1>4 DEF InvoiceType, Reviewable
  <2>3. a \in Seq(ReqId) /\ \A j, k \in DOMAIN a : a[j] = a[k] => j = k
    <3> DEFINE s == i.attempts
    <3>1. \A j, k \in DOMAIN s : s[j] = s[k] => j = k BY DEF Consistent
    <3>2. s \in Seq(ReqId) /\ o.id \notin Range(s) BY <2>2
    <3> HIDE DEF s
    <3>3. \A j, k \in DOMAIN Append(s, o.id) : Append(s, o.id)[j] = Append(s, o.id)[k] => j = k
      BY <3>1, <3>2, AppendOnce
    <3>4. Append(s, o.id) \in Seq(ReqId) BY <3>2
    <3> QED BY <3>3, <3>4 DEF s
  <2> HIDE DEF a
  <2>4. w \in InvoiceType BY <2>3 DEF InvoiceType
  <2>5. /\ w.bill = i.bill /\ w.paid = FALSE /\ w.confirmed = FALSE /\ w.review = i.review
        /\ w.attempts = a
    BY DEF InvoiceType
  <2> HIDE DEF w
  <2>6. Consistent(w) BY <1>1, <1>4, <2>3, <2>5 DEF Consistent
  <2> QED BY <1>1, <1>4, <2>1, <2>4, <2>5, <2>6
<1> QED BY <1>2, <1>3, <1>4 DEF Decisions

LEMMA ReviewSaveStep == ASSUME IInv, NEW r \in Req, ReviewSave(r) PROVE Kept(r)
<1> DEFINE o == op[r]
           i == inv[o.m]
<1>1. o \in Request /\ Good(o) /\ o.pc = "review" /\ o.m \in Month /\ End(r)
  BY StateTypes DEF ReviewSave, At, Good
<1>2. i \in InvoiceType /\ Consistent(i) BY <1>1, StateTypes
<1>3. CASE Reviewable(o, i) /\ Write(r, Reviewed(o, i))
  <2> HIDE DEF i
  <2>1. /\ Reviewed(o, i) \in InvoiceType /\ Consistent(Reviewed(o, i))
        /\ i.paid /\ ~Reviewed(o, i).paid => o.act = "revoked"
        /\ i.review = "approved" => o.act = "revoked"
    BY <1>1, <1>2, <1>3, ReviewedGood DEF Good
  <2>2. o.act = "revoked" => o.copy.paid /\ o.copy.review = "approved" BY <1>1 DEF Good
  <2> QED BY <1>1, <1>3, <2>1, <2>2, LastWriteStep DEF i
<1>4. CASE UNCHANGED data BY <1>1, <1>4, EndStep
<1> QED BY <1>3, <1>4 DEF ReviewSave

LEMMA DeleteOneStep == ASSUME IInv, NEW r \in Req, DeleteOne(r) PROVE Kept(r)
<1>1. /\ op[r] \in Request /\ Good(op[r]) /\ op[r].pc = "delete" /\ meter' = meter /\ made' = made
      /\ inv \in [Month -> InvoiceType] /\ \A m \in Month : Consistent(inv[m])
  BY StateTypes DEF DeleteOne, At
<1>2. PICK d \in op[r].left :
        /\ inv' = [inv EXCEPT ![d[1]] = IF @.id = d[2] THEN NoInvoice ELSE @]
        /\ End(r) \/ Put(r, [op[r] EXCEPT !.left = @ \ {d}])
  BY <1>1 DEF DeleteOne
<1>3. d[1] \in Month /\ d[2] # 0 BY <1>1, <1>2 DEF Request, Good
<1>4. ASSUME NEW m \in Month
      PROVE  inv'[m] = inv[m] \/ (inv'[m] = NoInvoice /\ inv[m].id # 0)
  BY <1>1, <1>2, <1>3
<1>5. inv' \in [Month -> InvoiceType] /\ \A m \in Month : Consistent(inv'[m])
  <2>1. inv' = [m \in Month |-> inv'[m]] BY <1>1, <1>2
  <2> QED BY <1>1, <1>4, <2>1, NoInvoiceGood
<1>6. meter' \in [Month -> Readings \cup {None}] /\ made' \in Nat BY <1>1, StateTypes
<1>7. IInv'
  <2>1. CASE End(r) BY <1>1, <1>5, <1>6, <2>1, IdleGood, PutStep DEF End
  <2>2. CASE Put(r, [op[r] EXCEPT !.left = @ \ {d}])
    <3> DEFINE l == op[r].left \ {d}
               o == [op[r] EXCEPT !.left = l]
    <3>1. l \in SUBSET (Month \X Nat) /\ \A x \in l : x[2] # 0 BY <1>1 DEF Request, Good
    <3>2. Put(r, o) BY <2>2
    <3> HIDE DEF l
    <3>3. o \in Request BY <1>1, <3>1 DEF Request
    <3>4. o.pc = "delete" /\ o.left = l /\ o.alone = op[r].alone BY <1>1 DEF Request
    <3> HIDE DEF o
    <3>5. Good(o) /\ Lone(o, inv', meter') BY <3>1, <3>4 DEF Good, Lone
    <3> QED BY <1>1, <1>5, <1>6, <3>2, <3>3, <3>4, <3>5, PutStep
  <2> QED BY <1>2, <2>1, <2>2
<1>8. Respects(r)
  <2> SUFFICES ASSUME NEW m \in Month, inv'[m].id = inv[m].id
               PROVE  /\ ~(inv[m].paid /\ ~inv'[m].paid)
                      /\ inv[m].review = "approved" => inv'[m].review = "approved" /\ inv'[m].proof
    BY DEF Respects
  <2>1. inv'[m] = inv[m] BY <1>4, NoInvoiceGood
  <2> QED BY <1>1, <2>1 DEF Consistent
<1> QED BY <1>7, <1>8 DEF Kept

LEMMA FailStep == ASSUME IInv, NEW r \in Req, Fail(r) PROVE Kept(r)
BY EndStep DEF Fail, At

-----------------------------------------------------------------------------
(* The theorems *)

LEMMA InitInvariant == Init => IInv
<1> SUFFICES ASSUME Init PROVE IInv OBVIOUS
<1>1. inv \in [Month -> InvoiceType] /\ \A m \in Month : Consistent(inv[m])
  BY NoInvoiceGood DEF Init
<1>2. op \in [Req -> Request] /\ \A r \in Req : op[r] = Idle BY IdleGood DEF Init
<1>3. \A r \in Req : Good(op[r]) /\ ~op[r].alone BY <1>2, IdleGood
<1>4. TypeOK BY <1>1, <1>2 DEF Init, TypeOK, Consistent
<1> QED BY <1>1, <1>3, <1>4 DEF IInv

LEMMA NextStep == ASSUME IInv, Next PROVE \E r \in Req : Kept(r)
<1>1. PICK r \in Req : Begin(r) \/ Step(r) \/ Fail(r) BY DEF Next
<1>2. CASE Begin(r)
  BY <1>2, BulkStep, CreateStep, UpdateStep, PaymentStep, DeleteStep DEF Begin
<1>3. CASE Step(r)
  BY <1>3, BulkFindStep, BulkLastStep, BulkMeterStep, BillSaveStep, PaySaveStep, ProofSaveStep,
     ReviewSaveStep, DeleteOneStep DEF Step
<1> QED BY <1>1, <1>2, <1>3, FailStep

LEMMA NextInvariant == IInv /\ [Next]_vars => IInv'
<1>1. ASSUME IInv, Next PROVE IInv' BY <1>1, NextStep DEF Kept
<1>2. ASSUME IInv, UNCHANGED vars PROVE IInv'
  BY <1>2 DEF vars, IInv, TypeOK
<1> QED BY <1>1, <1>2

LEMMA Invariance == Spec => []IInv
BY InitInvariant, NextInvariant, PTL DEF Spec

(* Documents and requests always have the shape that TypeOK says, and no    *)
(* bill charges a negative consumption, however edits overlap.              *)
THEOREM TypeCorrect == Spec => []TypeOK
<1>1. IInv => TypeOK BY DEF IInv
<1> QED BY <1>1, Invariance, PTL

(* An approved proof is there and its invoice paid, and paid means          *)
(* confirmed, whatever races between payments, proofs and reviews.          *)
THEOREM PaymentTheorem == Spec => []PaymentAgrees
<1>1. IInv => PaymentAgrees BY DEF IInv, PaymentAgrees, Consistent
<1> QED BY <1>1, Invariance, PTL

(* A rejection that is repeated or raced is recorded once.                  *)
THEOREM RejectionTheorem == Spec => []RejectedOnce
<1>1. IInv => RejectedOnce BY DEF IInv, RejectedOnce, Consistent
<1> QED BY <1>1, Invariance, PTL

(* A bill that was saved with no other request running adds up, and         *)
(* readings saved so are those of the meter.                                *)
THEOREM LoneSaveTheorem == Spec => []LoneSaveAgrees
<1>1. IInv => LoneSaveAgrees BY DEF IInv, LoneSaveAgrees, Lone, At
<1> QED BY <1>1, Invariance, PTL

(* Only a request that saw a payment takes it back.                         *)
THEOREM ReversalTheorem == Spec => ReversalsSawThePayment
<1> DEFINE A == \A m \in Month :
                  inv[m].paid /\ inv'[m].id = inv[m].id /\ ~inv'[m].paid =>
                      \E r \in Req : op'[r] # op[r] /\ op[r].m = m /\ op[r].copy.paid
<1>1. IInv /\ [Next]_vars => [A]_vars
  <2> SUFFICES ASSUME IInv, Next PROVE A OBVIOUS
  <2>1. PICK r \in Req : Kept(r) BY NextStep
  <2> QED BY <2>1 DEF Kept, Respects
<1>2. ReversalsSawThePayment <=> [][A]_vars BY DEF ReversalsSawThePayment
<1> QED BY <1>1, <1>2, Invariance, PTL DEF Spec

(* Only a request that saw an approval, or a payment decided before it,     *)
(* undoes it.                                                               *)
THEOREM ApprovalTheorem == Spec => ApprovalIsKept
<1> DEFINE A == \A m \in Month :
                  inv[m].review = "approved" /\ inv'[m].id = inv[m].id
                    /\ (inv'[m].review # "approved" \/ ~inv'[m].proof) =>
                      \E r \in Req : /\ op'[r] # op[r] /\ op[r].m = m
                                     /\ At(r, "pay") \/ op[r].copy.review = "approved"
<1>1. IInv /\ [Next]_vars => [A]_vars
  <2> SUFFICES ASSUME IInv, Next PROVE A OBVIOUS
  <2>1. PICK r \in Req : Kept(r) BY NextStep
  <2> QED BY <2>1 DEF Kept, Respects, At
<1>2. ApprovalIsKept <=> [][A]_vars BY DEF ApprovalIsKept
<1> QED BY <1>1, <1>2, Invariance, PTL DEF Spec
=============================================================================
