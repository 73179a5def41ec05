--------------------------- MODULE Reconciliation ---------------------------
(***************************************************************************)
(* The two judgements the system makes of a payment and its subscription:  *)
(* what the customer is entitled to, and what POST /api/net/reconcile      *)
(* reports when the network is compared with it. Both read the clock       *)
(* themselves, and both are asked in every state that billing can reach.   *)
(***************************************************************************)
EXTENDS Billing

(* What the network tells of a customer: authorized or not, in a session   *)
(* or not, and whether the last accounting is over ten minutes old.        *)
NetworkReports == [authorized : BOOLEAN, session : BOOLEAN, stale : BOOLEAN]

Running(s) == subscription[s].active /\ subscription[s].expiry > now

(* deriveEntitlement(): the payment is judged before the subscription.     *)
Entitlement(t) ==
  LET status == payment[t].status s == payment[t].sub IN
    CASE status = "ABSENT" \/ s = NoSub -> "INACTIVE"
      [] status \in {"REVERSED", "REFUNDED", "FAILED"} -> "SUSPENDED"
      [] status \in {"INITIATED", "PENDING"} /\ s # NoSub -> "PENDING"
      [] OTHER -> IF Running(s) THEN "ACTIVE"
                  ELSE IF subscription[s].active THEN "EXPIRED" ELSE "INACTIVE"

(* Mutant of FinanciallyValid: whatever has not failed is valid.           *)
NotFailed(status) == status \notin {"FAILED", "REVERSED", "REFUNDED"}

FinanciallyValid(status) == status \in {"VERIFIED", "SETTLED"}

(* reconcilePaymentAccess(): the codes of the issues.                      *)
Issues(t, network) ==
  LET status == payment[t].status valid == FinanciallyValid(status) s == payment[t].sub IN
  {code \in {"PAID_BUT_NOT_AUTHORIZED", "NETWORK_ACCESS_WITHOUT_VALID_PAYMENT",
             "REVERSED_PAYMENT_STILL_AUTHORIZED", "STALE_ACCOUNTING"} :
     CASE code = "PAID_BUT_NOT_AUTHORIZED" -> valid /\ Running(s) /\ ~network.authorized
       [] code = "NETWORK_ACCESS_WITHOUT_VALID_PAYMENT" -> ~valid /\ network.authorized
       [] code = "REVERSED_PAYMENT_STILL_AUTHORIZED" -> status = "REVERSED" /\ network.authorized
       [] OTHER -> Running(s) /\ network.session /\ network.stale}

-----------------------------------------------------------------------------
(* Properties                                                              *)

Attached == {t \in Txns : payment[t].status # "ABSENT" /\ payment[t].sub # NoSub}
Access == {"NETWORK_ACCESS_WITHOUT_VALID_PAYMENT", "REVERSED_PAYMENT_STILL_AUTHORIZED"}

(* The two judgements agree, whichever transactions have committed and     *)
(* whatever the network tells: who is entitled and not authorized is       *)
(* reported, and no one else; who is authorized on a payment that suspends *)
(* or awaits the entitlement is reported, and no one else. Access that     *)
(* outlives a paid term is therefore reported as consistent.               *)
ReportMatchesEntitlement ==
  \A t \in Attached, network \in NetworkReports :
    LET issues == Issues(t, network) entitlement == Entitlement(t) IN
      /\ "PAID_BUT_NOT_AUTHORIZED" \in issues <=>
           entitlement = "ACTIVE" /\ ~network.authorized
      /\ issues \cap Access # {} <=>
           entitlement \in {"SUSPENDED", "PENDING"} /\ network.authorized
=============================================================================
