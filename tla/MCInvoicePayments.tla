-------------------------- MODULE MCInvoicePayments --------------------------
(* Instances of InvoicePayments for TLC. *)
EXTENDS InvoicePayments, TLC

Elec == [prev |-> 0, cur |-> 1]
Same0 == [prev |-> 0, cur |-> 0]
BillForms == {("elec" :> Elec) @@ ("water" :> Same0), ("elec" :> Same0) @@ ("water" :> Elec)}

Perms == Permutations(Req)
=============================================================================
