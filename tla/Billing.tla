------------------------------ MODULE Billing ------------------------------
(***************************************************************************)
(* Payment callbacks, verification against the provider, and activation of *)
(* the paid subscription: three requests that each run one PostgreSQL      *)
(* transaction. A step takes a row lock or commits; what a transaction     *)
(* writes is visible at its commit, and nothing of it after a rollback.    *)
(***************************************************************************)
EXTENDS Integers, FiniteSetsExt, StateTables
LOCAL INSTANCE Relation

CONSTANTS
  Clients,          \* concurrent requests
  Txns,             \* (provider, provider_transaction_id) keys
  Subs,             \* subscriptions; each has its customer and correlation id
  Invoices,         \* invoices as naturals, in "due_at nulls last, created_at" order
  InvoiceSub,       \* the subscription of an invoice
  Total,            \* its total_minor
  Amount,           \* amount_minor of a transaction
  Price,            \* price_minor of the plan
  Validity,         \* validity_seconds of the plan, in ticks
  Callbacks,        \* the payment events recordPaymentEvent is called with
  GivenCorrs,       \* correlation ids that the other requests carry
  MaxTime,          \* bound on the clock
  NoSub, NoCorr,    \* null subscription_id and correlationId
  Foreign,          \* a correlation id that is no subscription's
  Nobody            \* an unlocked row

Records == [kind : {"record"}, txn : Txns, sub : Subs \cup {NoSub},
            corr : Subs \cup {NoCorr, Foreign}, status : PaymentStates]
Verifications == [kind : {"verify"}, txn : Txns, sub : Subs, corr : GivenCorrs]
Activations == [kind : {"activate"}, txn : Txns, corr : GivenCorrs, at : 0..MaxTime]

ASSUME BillingAssumption ==
  /\ Callbacks \subseteq Records
  /\ Invoices \subseteq Nat /\ InvoiceSub \in [Invoices -> Subs] /\ Total \in [Invoices -> Nat]
  /\ Amount \in [Txns -> Nat] /\ Price \in Nat /\ Validity \in Nat \ {0} /\ MaxTime \in Nat
  /\ GivenCorrs \subseteq Subs \cup {NoCorr, Foreign}
  /\ NoSub \notin Subs /\ {NoCorr, Foreign} \cap Subs = {} /\ NoCorr # Foreign
  /\ Nobody \notin Clients

VARIABLES
  payment,       \* net_payments by key: status, sub, corr, applied (activation_applied_at)
  subscription,  \* net_subscriptions: active, expiry, version (entitlement_version)
  authorization, \* net_authorizations: state, version (policy_version); 0: no row
  invoice,       \* net_invoices: paid, status
  allocation,    \* net_invoice_payments
  event,         \* net_events of type subscription.activated
  now,           \* the wall clock
  pc, req,       \* where each transaction stands, and its request
  paymentLock,   \* FOR UPDATE on a payment
  subLock,       \* FOR UPDATE on a subscription
  inserting      \* who has inserted a key of net_payments and not committed

vars == <<payment, subscription, authorization, invoice, allocation, event, now,
          pc, req, paymentLock, subLock, inserting>>
tables == <<payment, subscription, authorization, invoice, allocation, event>>
locks == <<paymentLock, subLock, inserting>>

(* The rows that the tables start with; a payment and an authorization    *)
(* have none yet.                                                          *)
NoPayment == [status |-> "ABSENT", sub |-> NoSub, corr |-> NoCorr, applied |-> FALSE]
NoAuthorization == [state |-> "ABSENT", version |-> 0]
Issued == [paid |-> 0, status |-> "ISSUED"]
NoRequest == [kind |-> "none"]

Init ==
  /\ payment = [t \in Txns |-> NoPayment]
  /\ subscription = [s \in Subs |-> [active |-> FALSE, expiry |-> 0, version |-> 1]]
  /\ authorization = [s \in Subs |-> NoAuthorization]
  /\ invoice = [i \in Invoices |-> Issued]
  /\ allocation = {} /\ event = {} /\ now = 0
  /\ pc = [c \in Clients |-> "idle"] /\ req = [c \in Clients |-> NoRequest]
  /\ paymentLock = [t \in Txns |-> Nobody] /\ inserting = [t \in Txns |-> Nobody]
  /\ subLock = [s \in Subs |-> Nobody]

-----------------------------------------------------------------------------
(* Transactions and locks                                                  *)

(* BEGIN. The activation time is read before any lock is waited for.       *)
Begin(c, r) ==
  /\ pc[c] = "idle"
  /\ r.kind = "activate" => r.at = now
  /\ pc' = [pc EXCEPT ![c] = "payment"]
  /\ req' = [req EXCEPT ![c] = r]
  /\ UNCHANGED <<tables, locks, now>>

(* COMMIT or ROLLBACK: every lock of the transaction is released.          *)
End(c) ==
  /\ pc' = [pc EXCEPT ![c] = "idle"]
  /\ req' = [req EXCEPT ![c] = NoRequest]
  /\ paymentLock' = [t \in Txns |-> IF paymentLock[t] = c THEN Nobody ELSE paymentLock[t]]
  /\ inserting' = [t \in Txns |-> IF inserting[t] = c THEN Nobody ELSE inserting[t]]
  /\ subLock' = [s \in Subs |-> IF subLock[s] = c THEN Nobody ELSE subLock[s]]
  /\ UNCHANGED now

Rollback(c) == End(c) /\ UNCHANGED tables

Txn(c) == req[c].txn
Goto(c, label) == pc' = [pc EXCEPT ![c] = label] /\ UNCHANGED <<req, now, tables>>

(* The subscription row a transaction goes on to lock.                     *)
SubOf(c) == IF req[c].kind = "record" THEN req[c].sub ELSE payment[Txn(c)].sub

(* select ... from net_payments ... for update                             *)
LockPayment(c) ==
  /\ pc[c] = "payment"
  /\ payment[Txn(c)].status # "ABSENT"
  /\ paymentLock[Txn(c)] = Nobody
  /\ paymentLock' = [paymentLock EXCEPT ![Txn(c)] = c]
  /\ Goto(c, IF req[c].kind = "record" THEN "merge" ELSE "subscription")
  /\ UNCHANGED <<subLock, inserting>>

(* No such row is committed: a record goes on to insert it.                *)
MissPayment(c) ==
  /\ pc[c] = "payment"
  /\ payment[Txn(c)].status = "ABSENT"
  /\ IF req[c].kind = "record"
     THEN /\ Goto(c, IF req[c].corr = NoCorr /\ req[c].sub # NoSub THEN "subscription" ELSE "insert")
          /\ UNCHANGED locks
     ELSE Rollback(c)

(* select ... from net_subscriptions ... for update                        *)
LockSubscription(c) ==
  /\ pc[c] = "subscription"
  /\ SubOf(c) # NoSub
  /\ subLock[SubOf(c)] = Nobody
  /\ subLock' = [subLock EXCEPT ![SubOf(c)] = c]
  /\ Goto(c, IF req[c].kind = "record" THEN "insert" ELSE req[c].kind)
  /\ UNCHANGED <<paymentLock, inserting>>

(* "Payment is not attached to a subscription"; the join finds no row.     *)
NoSubscription(c) ==
  /\ pc[c] = "subscription"
  /\ SubOf(c) = NoSub
  /\ Rollback(c)

-----------------------------------------------------------------------------
(* recordPaymentEvent                                                      *)

(* mergePaymentState: an unchanged status returns the row as it is, before *)
(* anything of the new event is stored; an illegal move throws.            *)
MayMerge(t, r) ==
  /\ {payment[t].sub, r.sub} \subseteq Subs => payment[t].sub = r.sub
  /\ r.corr \in {NoCorr, payment[t].corr}
  /\ PaymentMayMove(payment[t].status, r.status)

(* The event names the subscription of a payment that had none.            *)
Attaches(c) ==
  payment[Txn(c)].sub = NoSub /\ req[c].sub # NoSub /\ MayMerge(Txn(c), req[c])

(* Attaching checks the foreign key, as an insert does.                    *)
Merge(c) ==
  /\ pc[c] = "merge"
  /\ Attaches(c) => subLock[req[c].sub] \in {Nobody, c}
  /\ IF MayMerge(Txn(c), req[c])
     THEN /\ payment' = [payment EXCEPT ![Txn(c)].status = req[c].status,
                                        ![Txn(c)].sub = IF @ = NoSub THEN req[c].sub ELSE @]
          /\ End(c)
          /\ UNCHANGED <<subscription, authorization, invoice, allocation, event>>
     ELSE Rollback(c)

(* The unique index: wait for an uncommitted insert of the key, fail on a  *)
(* committed one. The row then needs its subscription's foreign key.       *)
Insert(c) ==
  /\ pc[c] = "insert"
  /\ inserting[Txn(c)] = Nobody
  /\ IF payment[Txn(c)].status # "ABSENT"
     THEN Rollback(c)
     ELSE /\ inserting' = [inserting EXCEPT ![Txn(c)] = c]
          /\ Goto(c, "foreignKey")
          /\ UNCHANGED <<paymentLock, subLock>>

(* correlationId: the given one, else the subscription's, else a new one.  *)
CorrelationFor(r) ==
  IF r.corr # NoCorr THEN r.corr ELSE IF r.sub # NoSub THEN r.sub ELSE Foreign

(* The foreign key check waits for a FOR UPDATE lock on the subscription.   *)
CommitInsert(c) ==
  /\ pc[c] = "foreignKey"
  /\ req[c].sub # NoSub => subLock[req[c].sub] \in {Nobody, c}
  /\ payment' = [payment EXCEPT ![Txn(c)] =
       [status |-> req[c].status, sub |-> req[c].sub,
        corr |-> CorrelationFor(req[c]), applied |-> FALSE]]
  /\ End(c)
  /\ UNCHANGED <<subscription, authorization, invoice, allocation, event>>

-----------------------------------------------------------------------------
(* verifyPaymentEvent                                                      *)

OpenInvoices(s) ==
  {i \in Invoices : InvoiceSub[i] = s /\ invoice[i].status \notin {"CANCELLED", "REFUNDED", "PAID"}}

(* order by due_at nulls last, created_at limit 1: a set of at most one.   *)
FirstOpen(s) == {i \in OpenInvoices(s) : \A j \in OpenInvoices(s) : i <= j}

(* Mutant of Settle: any allocation closes its invoice.                    *)
SettleAsPaid(t, s) ==
  /\ allocation' = allocation \cup (FirstOpen(s) \X {t})
  /\ invoice' = [i \in Invoices |->
       IF i \in FirstOpen(s) THEN [paid |-> invoice[i].paid + Amount[t], status |-> "PAID"]
       ELSE invoice[i]]

(* A payment may not exceed what the first open invoice still asks, and    *)
(* an allocation must be positive.                                         *)
Settleable(t, s) ==
  \A i \in FirstOpen(s) : Amount[t] <= Total[i] - invoice[i].paid /\ Amount[t] > 0

Settle(t, s) ==
  /\ allocation' = allocation \cup (FirstOpen(s) \X {t})
  /\ invoice' = [i \in Invoices |->
       IF i \in FirstOpen(s) /\ <<i, t>> \notin allocation
       THEN LET paid == invoice[i].paid + Amount[t] IN
            [paid |-> paid, status |-> IF paid = Total[i] THEN "PAID" ELSE "PARTIALLY_PAID"]
       ELSE invoice[i]]

(* Mutant of MayVerify: whatever has become of the payment is overwritten. *)
MayVerifyAnyStatus(t, r) ==
  /\ r.sub = payment[t].sub
  /\ Amount[t] = Price
  /\ r.corr \in {NoCorr, payment[t].corr}
  /\ Settleable(t, payment[t].sub)

(* The provider's answer matches the row, which is still to be verified;   *)
(* an already verified one is returned as it is.                           *)
MayVerify(t, r) ==
  /\ r.sub = payment[t].sub
  /\ Amount[t] = Price
  /\ r.corr \in {NoCorr, payment[t].corr}
  /\ payment[t].status \in {"INITIATED", "PENDING"}
  /\ Settleable(t, payment[t].sub)

Verify(c) ==
  /\ pc[c] = "verify"
  /\ IF MayVerify(Txn(c), req[c])
     THEN /\ payment' = [payment EXCEPT ![Txn(c)].status = "VERIFIED"]
          /\ Settle(Txn(c), SubOf(c))
          /\ End(c)
          /\ UNCHANGED <<subscription, authorization, event>>
     ELSE Rollback(c)

-----------------------------------------------------------------------------
(* activateVerifiedPayment                                                 *)

(* Mutant of Later: a new term starts now and forgets what was left.       *)
FromNow(x, y) == y

Later(x, y) == IF x > y THEN x ELSE y

(* Mutant of MayActivate: activation_applied_at is not looked at.          *)
MayActivateAgain(t, r) ==
  /\ r.corr \in {NoCorr, payment[t].corr}
  /\ payment[t].corr = payment[t].sub
  /\ payment[t].status \in {"VERIFIED", "SETTLED"}
  /\ Amount[t] = Price

(* The payment, correlation and price checks, and the idempotent return.   *)
MayActivate(t, r) ==
  /\ r.corr \in {NoCorr, payment[t].corr}
  /\ payment[t].corr = payment[t].sub
  /\ ~payment[t].applied
  /\ payment[t].status \in {"VERIFIED", "SETTLED"}
  /\ Amount[t] = Price

Activate(c) ==
  /\ pc[c] = "activate"
  /\ IF MayActivate(Txn(c), req[c])
     THEN LET s == SubOf(c) version == subscription[s].version + 1 IN
       /\ subscription' = [subscription EXCEPT ![s] =
            [active |-> TRUE, version |-> version,
             expiry |-> Later(subscription[s].expiry, req[c].at) + Validity]]
       /\ authorization' = [authorization EXCEPT ![s] = [state |-> "PENDING", version |-> version]]
       /\ event' = event \cup {[txn |-> Txn(c), sub |-> s, version |-> version]}
       /\ payment' = [payment EXCEPT ![Txn(c)].applied = TRUE]
       /\ End(c)
       /\ UNCHANGED <<invoice, allocation>>
     ELSE Rollback(c)

-----------------------------------------------------------------------------
(* The environment                                                         *)

(* An error, a lost connection or a crash before COMMIT is processed. An   *)
(* answer lost after COMMIT leaves the commit: the client just asks again. *)
Fail(c) ==
  /\ pc[c] # "idle"
  /\ Rollback(c)

(* d holds what c waits for.                                               *)
WaitsFor(c, d) ==
  /\ c # d
  /\ \/ pc[c] = "payment" /\ paymentLock[Txn(c)] = d
     \/ pc[c] = "insert" /\ inserting[Txn(c)] = d
     \/ /\ pc[c] = "subscription" /\ SubOf(c) \in Subs
        /\ subLock[SubOf(c)] = d
     \/ /\ \/ pc[c] = "foreignKey" /\ req[c].sub \in Subs
           \/ pc[c] = "merge" /\ Attaches(c)
        /\ subLock[req[c].sub] = d

(* Mutant of DeadlockVictim: waits are never broken.                       *)
NoVictim(c) == FALSE /\ Rollback(c)

(* PostgreSQL aborts a transaction that waits for itself.                  *)
DeadlockVictim(c) ==
  /\ TransitiveClosure([p \in Clients \X Clients |-> WaitsFor(p[1], p[2])], Clients)[c, c]
  /\ Rollback(c)

Tick == /\ now < MaxTime
        /\ now' = now + 1
        /\ UNCHANGED <<tables, locks, pc, req>>

Step(c) ==
  \/ LockPayment(c) \/ MissPayment(c) \/ LockSubscription(c) \/ NoSubscription(c)
  \/ Merge(c) \/ Insert(c) \/ CommitInsert(c) \/ Verify(c) \/ Activate(c)
  \/ DeadlockVictim(c)

Next == \/ \E c \in Clients : Step(c) \/ Fail(c)
        \/ \E c \in Clients, r \in Callbacks \cup Verifications \cup Activations : Begin(c, r)
        \/ Tick

Spec == Init /\ [][Next]_vars
(* A lock wait ends: PostgreSQL queues the waiters of a row, so a waiter   *)
(* whose row becomes free again and again is served. Requests and failures *)
(* owe nothing.                                                            *)
FairSpec == Spec /\ \A c \in Clients : SF_vars(Step(c))

-----------------------------------------------------------------------------
(* Properties                                                              *)

(* Every variable has its type.                                            *)
TypeOK ==
  /\ payment \in [Txns -> [status : PaymentStates \cup {"ABSENT"}, sub : Subs \cup {NoSub},
                            corr : Subs \cup {NoCorr, Foreign}, applied : BOOLEAN]]
  /\ subscription \in [Subs -> [active : BOOLEAN, expiry : Nat, version : Nat]]
  /\ authorization \in [Subs -> [state : {"ABSENT", "PENDING"}, version : Nat]]
  /\ invoice \in [Invoices -> [paid : Nat, status : {"ISSUED", "PARTIALLY_PAID", "PAID"}]]
  /\ allocation \subseteq Invoices \X Txns
  /\ event \subseteq [txn : Txns, sub : Subs, version : Nat]
  /\ now \in 0..MaxTime
  /\ pc \in [Clients -> {"idle", "payment", "merge", "subscription", "insert",
                         "foreignKey", "verify", "activate"}]
  /\ req \in [Clients -> {NoRequest} \cup Callbacks \cup Verifications \cup Activations]
  /\ paymentLock \in [Txns -> Clients \cup {Nobody}]
  /\ subLock \in [Subs -> Clients \cup {Nobody}]
  /\ inserting \in [Txns -> Clients \cup {Nobody}]

Applied(s) == {t \in Txns : payment[t].applied /\ payment[t].sub = s}

(* However often and however concurrently a payment is activated, it moves *)
(* the entitlement version by exactly one, with one event that names it,   *)
(* and the authorization carries the version of the last activation.       *)
EachPaymentActivatesOnce ==
  \A s \in Subs :
    /\ subscription[s].version = 1 + Cardinality(Applied(s))
    /\ authorization[s].version = IF Applied(s) = {} THEN 0 ELSE subscription[s].version
    /\ {e.version : e \in {e \in event : e.sub = s}} = 2..subscription[s].version
    /\ {e.txn : e \in {e \in event : e.sub = s}} = Applied(s)
    /\ Cardinality({e \in event : e.sub = s}) = Cardinality(Applied(s))

(* No concurrent activation loses another's time: every payment applied    *)
(* to a subscription has moved its expiry by the full validity it bought.  *)
EveryPaymentBuysItsValidity ==
  \A s \in Subs : subscription[s].expiry >= Validity * Cardinality(Applied(s))

Allocated(i) == MapThenSumSet(LAMBDA a : Amount[a[2]], {a \in allocation : a[1] = i})

(* An invoice's paid_minor is the sum of the payments allocated to it, it  *)
(* is never overpaid, and its status says whether it is settled.           *)
InvoicesBalance ==
  \A i \in Invoices :
    /\ invoice[i].paid = Allocated(i)
    /\ invoice[i].paid <= Total[i]
    /\ invoice[i].status = "PAID" => invoice[i].paid = Total[i]
    /\ invoice[i].status = "ISSUED" => invoice[i].paid = 0

(* Money is spent once: a payment settles at most one invoice, of its own  *)
(* subscription, and only a payment that was verified settles or activates *)
(* anything.                                                               *)
MoneySpentOnce ==
  \A t \in Txns :
    LET settled == {a[1] : a \in {a \in allocation : a[2] = t}} IN
      /\ Cardinality(settled) <= 1
      /\ \A i \in settled : InvoiceSub[i] = payment[t].sub
      /\ settled # {} \/ payment[t].applied =>
           payment[t].status \in {"VERIFIED", "SETTLED", "REVERSED", "REFUNDED"}

(* Every request is answered: no set of transactions waits for ever.       *)
EveryTransactionEnds == \A c \in Clients : pc[c] # "idle" ~> pc[c] = "idle"
=============================================================================
