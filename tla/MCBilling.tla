----------------------------- MODULE MCBilling -----------------------------
(* Billing with two provider transactions of one subscription and two      *)
(* invoices: the first is paid in part by one payment and settled by both, *)
(* and leaves the second open. A term is over at the end of the clock. The *)
(* judgements of Reconciliation are asked in every state.                  *)
EXTENDS Reconciliation

CONSTANTS s1, t1, t2

MCInvoiceSub == [i \in Invoices |-> s1]
MCTotal == [i \in Invoices |-> IF i = 1 THEN 4 ELSE 2]
MCAmount == [t \in Txns |-> 2]

(* Callbacks of t1 carry the subscription, with and without its            *)
(* correlation id, and a later one reverses t1; t2 may come unattached and *)
(* be attached by the next callback.                                       *)
Callback(t, s, corr, status) ==
  [kind |-> "record", txn |-> t, sub |-> s, corr |-> corr, status |-> status]
MCCallbacks ==
  {Callback(t1, s1, NoCorr, "PENDING"), Callback(t1, s1, s1, "PENDING"),
   Callback(t1, s1, NoCorr, "REVERSED"),
   Callback(t2, s1, NoCorr, "PENDING"), Callback(t2, NoSub, NoCorr, "INITIATED")}
=============================================================================
