--------------------------- MODULE Billing_proofs ---------------------------
(***************************************************************************)
(* Theorems about Billing and Reconciliation for every number of requests, *)
(* payments, subscriptions and invoices, and every price and validity.     *)
(***************************************************************************)
EXTENDS Reconciliation, FiniteSetTheorems, TLAPS

Requests == Callbacks \cup Verifications \cup Activations

(* What a request has found on its way: it is of the kind its place asks   *)
(* for; a row that was read or locked has not gone since; the row that it  *)
(* is about to insert is still missing, because its key is its own.        *)
FoundOnTheWay(c) ==
  /\ pc[c] # "idle" => req[c] \in Requests
  /\ pc[c] \in {"merge", "insert", "foreignKey"} => req[c].kind = "record"
  /\ pc[c] = "verify" => req[c].kind = "verify"
  /\ pc[c] = "activate" => req[c].kind = "activate"
  /\ pc[c] \in {"merge", "verify", "activate"} => payment[Txn(c)].status # "ABSENT"
  /\ pc[c] = "subscription" /\ req[c].kind # "record" => payment[Txn(c)].status # "ABSENT"
  /\ pc[c] \in {"verify", "activate"} => payment[Txn(c)].sub \in Subs
  /\ pc[c] = "foreignKey" => inserting[Txn(c)] = c /\ payment[Txn(c)].status = "ABSENT"

RequestInv == \A c \in Clients : FoundOnTheWay(c)

-----------------------------------------------------------------------------
(* Requests and transactions                                               *)

(* What the fields of a request are.                                       *)
LEMMA RequestFields ==
  ASSUME NEW r \in Requests
  PROVE  /\ r.txn \in Txns /\ r.kind \in {"record", "verify", "activate"}
         /\ r.kind = "record" => r \in Callbacks /\ r.sub \in Subs \cup {NoSub} /\ r.status \in PaymentStates
                                   /\ r.corr \in Subs \cup {NoCorr, Foreign}
         /\ r.kind = "verify" => r.sub \in Subs
         /\ r.kind = "activate" => r.at \in Nat
BY BillingAssumption DEF Requests, Records, Verifications, Activations

(* The end of a transaction keeps the types of what it touches.            *)
LEMMA EndTypes ==
  ASSUME TypeOK, NEW c \in Clients, End(c)
  PROVE  /\ now' \in 0..MaxTime
         /\ pc' \in [Clients -> {"idle", "payment", "merge", "subscription", "insert",
                                 "foreignKey", "verify", "activate"}]
         /\ req' \in [Clients -> {NoRequest} \cup Callbacks \cup Verifications \cup Activations]
         /\ paymentLock' \in [Txns -> Clients \cup {Nobody}]
         /\ subLock' \in [Subs -> Clients \cup {Nobody}]
         /\ inserting' \in [Txns -> Clients \cup {Nobody}]
BY DEF TypeOK, End

(* The end of a transaction that has removed no payment, detached none,    *)
(* and left alone the keys that others insert, does not disturb them.      *)
LEMMA EndKeepsRequests ==
  ASSUME TypeOK, RequestInv, NEW c \in Clients, End(c),
         \A t \in Txns : payment[t].status # "ABSENT" =>
                          /\ payment'[t].status # "ABSENT"
                          /\ payment[t].sub \in Subs => payment'[t].sub \in Subs,
         \A d \in Clients \ {c} : pc[d] = "foreignKey" => payment'[Txn(d)] = payment[Txn(d)]
  PROVE  RequestInv'
<1> SUFFICES ASSUME NEW d \in Clients PROVE FoundOnTheWay(d)'
  BY DEF RequestInv
<1>1. CASE d = c
  BY <1>1 DEF End, FoundOnTheWay, TypeOK
<1>2. CASE d # c
  <2>1. pc'[d] = pc[d] /\ req'[d] = req[d] /\ FoundOnTheWay(d)
    BY <1>2 DEF End, TypeOK, RequestInv
  <2>2. CASE pc[d] = "idle"
    BY <2>1, <2>2 DEF FoundOnTheWay
  <2>3. CASE pc[d] # "idle"
    <3>1. req[d] \in Requests /\ req[d].txn \in Txns
      BY <2>1, <2>3, RequestFields DEF FoundOnTheWay
    <3>2. inserting[req[d].txn] = d => inserting'[req[d].txn] = d
      BY <1>2, <3>1 DEF End, TypeOK
    <3>3. QED
      BY <1>2, <2>1, <2>3, <3>1, <3>2 DEF FoundOnTheWay, Txn
  <2>4. QED
    BY <2>2, <2>3
<1>3. QED
  BY <1>1, <1>2

(* A rollback leaves the tables, and so every other request.               *)
LEMMA RollbackKeeps ==
  ASSUME TypeOK, RequestInv, NEW c \in Clients, Rollback(c)
  PROVE  TypeOK' /\ RequestInv'
<1>1. End(c) /\ UNCHANGED tables
  BY DEF Rollback
<1>2. TypeOK'
  BY <1>1, EndTypes DEF TypeOK, tables
<1>3. RequestInv'
  BY <1>1, EndKeepsRequests DEF tables
<1>4. QED
  BY <1>2, <1>3

(* A step that only moves one request on, with what it has found.          *)
LEMMA MovingOnKeeps ==
  ASSUME TypeOK, RequestInv, NEW c \in Clients, NEW label, Goto(c, label),
         label \in {"merge", "subscription", "insert", "foreignKey", "verify", "activate"},
         \A d \in Clients \ {c}, t \in Txns : inserting[t] = d => inserting'[t] = d,
         FoundOnTheWay(c)',
         /\ paymentLock' \in [Txns -> Clients \cup {Nobody}]
         /\ subLock' \in [Subs -> Clients \cup {Nobody}]
         /\ inserting' \in [Txns -> Clients \cup {Nobody}]
  PROVE  TypeOK' /\ RequestInv'
<1>1. TypeOK'
  BY DEF TypeOK, Goto, tables
<1>2. ASSUME NEW d \in Clients PROVE FoundOnTheWay(d)'
  <2>1. CASE d = c
    BY <2>1
  <2>2. CASE d # c
    <3>1. pc'[d] = pc[d] /\ req' = req /\ payment' = payment /\ FoundOnTheWay(d)
      BY <2>2 DEF Goto, tables, TypeOK, RequestInv
    <3>2. pc[d] = "foreignKey" => req[d].txn \in Txns
      BY <3>1, RequestFields DEF FoundOnTheWay
    <3>3. QED
      BY <2>2, <3>1, <3>2 DEF FoundOnTheWay, Txn
  <2>3. QED
    BY <2>1, <2>2
<1>3. QED
  BY <1>1, <1>2 DEF RequestInv

-----------------------------------------------------------------------------
(* Types                                                                   *)

(* A request is begun.                                                     *)
LEMMA BeginKeeps ==
  ASSUME TypeOK, RequestInv, NEW c \in Clients, NEW r \in Requests, Begin(c, r)
  PROVE  TypeOK' /\ RequestInv'
<1>1. pc' = [pc EXCEPT ![c] = "payment"] /\ req' = [req EXCEPT ![c] = r]
  BY DEF Begin
<1>2. UNCHANGED <<tables, locks, now>>
  BY DEF Begin
<1>3. TypeOK'
  BY <1>1, <1>2 DEF TypeOK, tables, locks, Requests
<1>4. ASSUME NEW d \in Clients PROVE FoundOnTheWay(d)'
  <2>1. CASE d = c
    BY <1>1, <1>2, <2>1 DEF FoundOnTheWay, TypeOK, tables, locks
  <2>2. CASE d # c
    <3>1. pc'[d] = pc[d] /\ req'[d] = req[d] /\ payment' = payment /\ inserting' = inserting /\ FoundOnTheWay(d)
      BY <1>1, <1>2, <2>2 DEF TypeOK, RequestInv, tables, locks
    <3>2. QED
      BY <3>1 DEF FoundOnTheWay, Txn
  <2>3. QED
    BY <2>1, <2>2
<1>5. QED
  BY <1>3, <1>4 DEF RequestInv

(* Locks, and the insertion of a key.                                      *)
LEMMA LockingKeeps ==
  ASSUME TypeOK, RequestInv, NEW c \in Clients,
         LockPayment(c) \/ MissPayment(c) \/ LockSubscription(c) \/ Insert(c)
  PROVE  TypeOK' /\ RequestInv'
<1> DEFINE t == Txn(c)
<1>1. pc[c] # "idle" /\ FoundOnTheWay(c)
  BY DEF LockPayment, MissPayment, LockSubscription, Insert, RequestInv
<1>2. req[c] \in Requests /\ t \in Txns /\ req[c].kind \in {"record", "verify", "activate"}
  BY <1>1, RequestFields DEF FoundOnTheWay, Txn
<1>3. CASE LockPayment(c)
  <2> DEFINE label == IF req[c].kind = "record" THEN "merge" ELSE "subscription"
  <2>1. /\ Goto(c, label) /\ pc[c] = "payment" /\ payment[t].status # "ABSENT"
        /\ paymentLock' = [paymentLock EXCEPT ![t] = c] /\ UNCHANGED <<subLock, inserting>>
    BY <1>3 DEF LockPayment
  <2>2. FoundOnTheWay(c)'
    BY <1>1, <1>2, <2>1 DEF FoundOnTheWay, Goto, tables, Txn, TypeOK
  <2>3. /\ paymentLock' \in [Txns -> Clients \cup {Nobody}]
        /\ subLock' \in [Subs -> Clients \cup {Nobody}]
        /\ inserting' \in [Txns -> Clients \cup {Nobody}]
    BY <1>2, <2>1 DEF TypeOK
  <2>4. QED
    BY <2>1, <2>2, <2>3, MovingOnKeeps
<1>4. CASE MissPayment(c)
  <2>1. CASE req[c].kind = "record"
    <3> DEFINE label == IF req[c].corr = NoCorr /\ req[c].sub # NoSub THEN "subscription" ELSE "insert"
    <3>1. Goto(c, label) /\ UNCHANGED locks
      BY <1>4, <2>1 DEF MissPayment
    <3>2. FoundOnTheWay(c)'
      BY <1>1, <1>2, <2>1, <3>1 DEF FoundOnTheWay, Goto, tables, locks, Txn, TypeOK
    <3>3. /\ paymentLock' \in [Txns -> Clients \cup {Nobody}]
          /\ subLock' \in [Subs -> Clients \cup {Nobody}]
          /\ inserting' \in [Txns -> Clients \cup {Nobody}]
      BY <3>1 DEF TypeOK, locks
    <3>4. inserting' = inserting
      BY <3>1 DEF locks
    <3>5. QED
      BY <3>1, <3>2, <3>3, <3>4, MovingOnKeeps
  <2>2. CASE req[c].kind # "record"
    BY <1>4, <2>2, RollbackKeeps DEF MissPayment
  <2>3. QED
    BY <2>1, <2>2
<1>5. CASE LockSubscription(c)
  <2> DEFINE label == IF req[c].kind = "record" THEN "insert" ELSE req[c].kind
  <2>1. /\ Goto(c, label) /\ pc[c] = "subscription" /\ SubOf(c) # NoSub
        /\ subLock' = [subLock EXCEPT ![SubOf(c)] = c] /\ UNCHANGED <<paymentLock, inserting>>
    BY <1>5 DEF LockSubscription
  <2>2. SubOf(c) \in Subs
    BY <1>2, <2>1, RequestFields DEF SubOf, TypeOK, Txn
  <2>3. FoundOnTheWay(c)'
    BY <1>1, <1>2, <2>1, <2>2 DEF FoundOnTheWay, Goto, tables, Txn, TypeOK, SubOf
  <2>4. /\ paymentLock' \in [Txns -> Clients \cup {Nobody}]
        /\ subLock' \in [Subs -> Clients \cup {Nobody}]
        /\ inserting' \in [Txns -> Clients \cup {Nobody}]
    BY <2>1, <2>2 DEF TypeOK
  <2>5. label \in {"insert", "verify", "activate"}
    BY <1>2
  <2>6. QED
    BY <2>1, <2>3, <2>4, <2>5, MovingOnKeeps
<1>6. CASE Insert(c)
  <2>1. CASE payment[t].status # "ABSENT"
    BY <1>6, <2>1, RollbackKeeps DEF Insert
  <2>2. CASE payment[t].status = "ABSENT"
    <3>1. /\ Goto(c, "foreignKey") /\ pc[c] = "insert" /\ inserting[t] = Nobody
          /\ inserting' = [inserting EXCEPT ![t] = c] /\ UNCHANGED <<paymentLock, subLock>>
      BY <1>6, <2>2 DEF Insert
    <3>2. FoundOnTheWay(c)'
      BY <1>1, <1>2, <2>2, <3>1 DEF FoundOnTheWay, Goto, tables, Txn, TypeOK
    <3>3. /\ paymentLock' \in [Txns -> Clients \cup {Nobody}]
          /\ subLock' \in [Subs -> Clients \cup {Nobody}]
          /\ inserting' \in [Txns -> Clients \cup {Nobody}]
      BY <1>2, <3>1 DEF TypeOK
    <3>4. \A d \in Clients \ {c}, u \in Txns : inserting[u] = d => inserting'[u] = d
      BY <1>2, <3>1, BillingAssumption DEF TypeOK
    <3>5. QED
      BY <3>1, <3>2, <3>3, <3>4, MovingOnKeeps
  <2>3. QED
    BY <2>1, <2>2
<1>7. QED
  BY <1>3, <1>4, <1>5, <1>6

(* What a transaction that commits does to its payment: it inserts the row *)
(* that it announced, moves its status along the table of transitions, or  *)
(* verifies or applies it.                                                 *)
PaymentMoves(c, row) ==
  /\ payment' = [payment EXCEPT ![Txn(c)] = row]
  /\ row \in [status : PaymentStates, sub : Subs \cup {NoSub},
              corr : Subs \cup {NoCorr, Foreign}, applied : BOOLEAN]
  /\ \/ payment[Txn(c)].status = "ABSENT" /\ inserting[Txn(c)] = c
     \/ /\ payment[Txn(c)].status # "ABSENT"
        /\ payment[Txn(c)].sub \in Subs => row.sub = payment[Txn(c)].sub

(* A commit moves one payment, and disturbs nobody who waits for it.       *)
LEMMA CommitKeepsRequests ==
  ASSUME TypeOK, RequestInv, NEW c \in Clients, req[c] \in Requests, End(c), NEW row, PaymentMoves(c, row),
         \A d \in Clients \ {c} : pc[d] = "foreignKey" => Txn(d) # Txn(c)
  PROVE  RequestInv'
<1>1. Txn(c) \in Txns
  BY RequestFields DEF Txn
<1>2. /\ \A t \in Txns \ {Txn(c)} : payment'[t] = payment[t]
      /\ payment'[Txn(c)].status # "ABSENT"
      /\ payment[Txn(c)].status # "ABSENT" =>
           (payment[Txn(c)].sub \in Subs => payment'[Txn(c)].sub \in Subs)
  BY <1>1 DEF PaymentMoves, TypeOK, PaymentStates
<1>3. ASSUME NEW d \in Clients \ {c}, pc[d] = "foreignKey"
      PROVE  payment'[Txn(d)] = payment[Txn(d)]
  <2>1. Txn(d) \in Txns
    BY <1>3, RequestFields DEF RequestInv, FoundOnTheWay, Txn
  <2>2. QED
    BY <1>2, <1>3, <2>1
<1>4. QED
  BY <1>2, <1>3, EndKeepsRequests

(* Nobody else is about to insert the key of a transaction that commits:   *)
(* its row is there, or is being inserted by this one.                     *)
LEMMA KeyIsOnesOwn ==
  ASSUME RequestInv, NEW c \in Clients, NEW d \in Clients \ {c}, pc[d] = "foreignKey",
         inserting[Txn(c)] = c \/ payment[Txn(c)].status # "ABSENT"
  PROVE  Txn(d) # Txn(c)
BY DEF RequestInv, FoundOnTheWay

(* Which row a commit leaves.                                              *)
MergedRow(c) ==
  [payment[Txn(c)] EXCEPT !.status = req[c].status, !.sub = IF @ = NoSub THEN req[c].sub ELSE @]
InsertedRow(c) ==
  [status |-> req[c].status, sub |-> req[c].sub, corr |-> CorrelationFor(req[c]), applied |-> FALSE]
VerifiedRow(c) == [payment[Txn(c)] EXCEPT !.status = "VERIFIED"]
AppliedRow(c) == [payment[Txn(c)] EXCEPT !.applied = TRUE]

(* Each of the four commits moves one payment, or is a rollback.           *)
LEMMA CommitMoves ==
  ASSUME TypeOK, RequestInv, NEW c \in Clients
  PROVE  /\ Merge(c) =>
              \/ Rollback(c)
              \/ /\ End(c) /\ PaymentMoves(c, MergedRow(c))
                 /\ PaymentMayMove(payment[Txn(c)].status, req[c].status)
                 /\ UNCHANGED <<subscription, authorization, invoice, allocation, event>>
         /\ CommitInsert(c) =>
              /\ End(c) /\ PaymentMoves(c, InsertedRow(c)) /\ payment[Txn(c)].status = "ABSENT"
              /\ UNCHANGED <<subscription, authorization, invoice, allocation, event>>
         /\ Verify(c) =>
              \/ Rollback(c)
              \/ /\ End(c) /\ PaymentMoves(c, VerifiedRow(c))
                 /\ MayVerify(Txn(c), req[c]) /\ Settle(Txn(c), payment[Txn(c)].sub)
                 /\ UNCHANGED <<subscription, authorization, event>>
         /\ Activate(c) =>
              \/ Rollback(c)
              \/ /\ End(c) /\ PaymentMoves(c, AppliedRow(c))
                 /\ MayActivate(Txn(c), req[c]) /\ UNCHANGED <<invoice, allocation>>
<1> USE DEF PaymentMoves
<1> DEFINE row == payment[Txn(c)]
<1>0. ASSUME pc[c] # "idle"
      PROVE  FoundOnTheWay(c) /\ req[c] \in Requests /\ Txn(c) \in Txns
  BY <1>0, RequestFields DEF RequestInv, FoundOnTheWay, Txn
<1>r. ASSUME Txn(c) \in Txns, row.status # "ABSENT"
      PROVE  row \in [status : PaymentStates, sub : Subs \cup {NoSub},
                      corr : Subs \cup {NoCorr, Foreign}, applied : BOOLEAN]
  BY <1>r DEF TypeOK
<1>1. ASSUME Merge(c), ~Rollback(c)
      PROVE  /\ End(c) /\ PaymentMoves(c, MergedRow(c))
             /\ PaymentMayMove(payment[Txn(c)].status, req[c].status)
             /\ UNCHANGED <<subscription, authorization, invoice, allocation, event>>
  <2>1. /\ pc[c] = "merge" /\ req[c].kind = "record" /\ Txn(c) \in Txns
        /\ payment[Txn(c)].status # "ABSENT"
        /\ req[c].status \in PaymentStates /\ req[c].sub \in Subs \cup {NoSub}
    BY <1>0, <1>1, RequestFields DEF Merge, FoundOnTheWay
  <2>2. /\ payment' = [payment EXCEPT ![Txn(c)].status = req[c].status,
                                    ![Txn(c)].sub = IF @ = NoSub THEN req[c].sub ELSE @]
        /\ PaymentMayMove(payment[Txn(c)].status, req[c].status) /\ End(c)
        /\ UNCHANGED <<subscription, authorization, invoice, allocation, event>>
    BY <1>1 DEF Merge, MayMerge
  <2>3. payment' = [payment EXCEPT ![Txn(c)] = MergedRow(c)]
    BY <2>1, <2>2 DEF MergedRow, TypeOK
  <2>4. /\ MergedRow(c) \in [status : PaymentStates, sub : Subs \cup {NoSub},
                            corr : Subs \cup {NoCorr, Foreign}, applied : BOOLEAN]
        /\ payment[Txn(c)].sub \in Subs => MergedRow(c).sub = payment[Txn(c)].sub
    BY <1>r, <2>1, BillingAssumption DEF MergedRow
  <2>5. QED
    BY <2>1, <2>2, <2>3, <2>4
<1>2. ASSUME CommitInsert(c)
      PROVE  /\ End(c) /\ PaymentMoves(c, InsertedRow(c)) /\ payment[Txn(c)].status = "ABSENT"
             /\ UNCHANGED <<subscription, authorization, invoice, allocation, event>>
  <2>1. /\ pc[c] = "foreignKey" /\ Txn(c) \in Txns /\ inserting[Txn(c)] = c
        /\ req[c].status \in PaymentStates /\ req[c].sub \in Subs \cup {NoSub}
        /\ req[c].corr \in Subs \cup {NoCorr, Foreign}
    BY <1>0, <1>2, RequestFields DEF CommitInsert, FoundOnTheWay
  <2>2. payment[Txn(c)].status = "ABSENT"
    BY <1>0, <1>2 DEF FoundOnTheWay, CommitInsert
  <2>3. InsertedRow(c) \in [status : PaymentStates, sub : Subs \cup {NoSub},
                            corr : Subs \cup {NoCorr, Foreign}, applied : BOOLEAN]
    BY <2>1 DEF InsertedRow, CorrelationFor
  <2>4. /\ payment' = [payment EXCEPT ![Txn(c)] = InsertedRow(c)] /\ End(c)
        /\ UNCHANGED <<subscription, authorization, invoice, allocation, event>>
    BY <1>2 DEF CommitInsert, InsertedRow
  <2>5. QED
    BY <2>1, <2>2, <2>3, <2>4
<1>3. ASSUME Verify(c), ~Rollback(c)
      PROVE  /\ End(c) /\ PaymentMoves(c, VerifiedRow(c))
             /\ MayVerify(Txn(c), req[c]) /\ Settle(Txn(c), payment[Txn(c)].sub)
             /\ UNCHANGED <<subscription, authorization, event>>
  <2>1. pc[c] = "verify" /\ req[c].kind = "verify" /\ Txn(c) \in Txns /\ payment[Txn(c)].status # "ABSENT"
    BY <1>0, <1>3 DEF Verify, FoundOnTheWay
  <2>2. "VERIFIED" \in PaymentStates
    BY DEF PaymentStates
  <2>3. VerifiedRow(c) \in [status : PaymentStates, sub : Subs \cup {NoSub},
                            corr : Subs \cup {NoCorr, Foreign}, applied : BOOLEAN]
    BY <1>r, <2>1, <2>2 DEF VerifiedRow
  <2>4. /\ payment' = [payment EXCEPT ![Txn(c)].status = "VERIFIED"] /\ End(c)
        /\ MayVerify(Txn(c), req[c]) /\ Settle(Txn(c), payment[Txn(c)].sub)
        /\ UNCHANGED <<subscription, authorization, event>>
    BY <1>3, <2>1 DEF Verify, SubOf
  <2>5. payment' = [payment EXCEPT ![Txn(c)] = VerifiedRow(c)]
    BY <2>1, <2>4 DEF VerifiedRow, TypeOK
  <2>6. VerifiedRow(c).sub = payment[Txn(c)].sub
    BY <1>r, <2>1 DEF VerifiedRow
  <2>7. QED
    BY <2>1, <2>3, <2>4, <2>5, <2>6
<1>4. ASSUME Activate(c), ~Rollback(c)
      PROVE  /\ End(c) /\ PaymentMoves(c, AppliedRow(c))
             /\ MayActivate(Txn(c), req[c]) /\ UNCHANGED <<invoice, allocation>>
  <2>1. pc[c] = "activate" /\ Txn(c) \in Txns /\ payment[Txn(c)].status # "ABSENT"
    BY <1>0, <1>4 DEF Activate, FoundOnTheWay
  <2>2. /\ AppliedRow(c) \in [status : PaymentStates, sub : Subs \cup {NoSub},
                             corr : Subs \cup {NoCorr, Foreign}, applied : BOOLEAN]
        /\ AppliedRow(c).sub = payment[Txn(c)].sub
    BY <1>r, <2>1 DEF AppliedRow
  <2>3. /\ payment' = [payment EXCEPT ![Txn(c)].applied = TRUE] /\ End(c)
        /\ MayActivate(Txn(c), req[c]) /\ UNCHANGED <<invoice, allocation>>
    BY <1>4 DEF Activate
  <2>4. payment' = [payment EXCEPT ![Txn(c)] = AppliedRow(c)]
    BY <2>1, <2>3 DEF AppliedRow, TypeOK
  <2>5. QED
    BY <2>1, <2>2, <2>3, <2>4
<1>5. QED
  BY <1>1, <1>2, <1>3, <1>4

(* A commit leaves a payment of its type.                                  *)
LEMMA PaymentsKeepTheirType ==
  ASSUME TypeOK, NEW c \in Clients, NEW row, PaymentMoves(c, row)
  PROVE  payment' \in [Txns -> [status : PaymentStates \cup {"ABSENT"}, sub : Subs \cup {NoSub},
                                corr : Subs \cup {NoCorr, Foreign}, applied : BOOLEAN]]
<1>1. row \in [status : PaymentStates \cup {"ABSENT"}, sub : Subs \cup {NoSub},
               corr : Subs \cup {NoCorr, Foreign}, applied : BOOLEAN]
  BY DEF PaymentMoves
<1>2. QED
  BY <1>1 DEF PaymentMoves, TypeOK

(* Every commit keeps the types, and disturbs no other request.            *)
LEMMA CommitsKeep ==
  ASSUME TypeOK, RequestInv, NEW c \in Clients,
         Merge(c) \/ CommitInsert(c) \/ Verify(c) \/ Activate(c)
  PROVE  TypeOK' /\ RequestInv'
<1>1. pc[c] # "idle" /\ FoundOnTheWay(c) /\ req[c] \in Requests /\ Txn(c) \in Txns
  BY RequestFields DEF Merge, CommitInsert, Verify, Activate, RequestInv, FoundOnTheWay, Txn
<1>2. CASE Rollback(c)
  BY <1>2, RollbackKeeps
<1>3. ASSUME NEW row, PaymentMoves(c, row), End(c)
      PROVE  RequestInv'
  <2>1. inserting[Txn(c)] = c \/ payment[Txn(c)].status # "ABSENT"
    BY <1>3 DEF PaymentMoves
  <2>2. \A d \in Clients \ {c} : pc[d] = "foreignKey" => Txn(d) # Txn(c)
    BY <2>1, KeyIsOnesOwn
  <2>3. QED
    BY <1>1, <1>3, <2>2, CommitKeepsRequests
<1>4. CASE (Merge(c) \/ CommitInsert(c)) /\ ~Rollback(c)
  <2>1. PICK row : /\ PaymentMoves(c, row) /\ End(c)
                   /\ UNCHANGED <<subscription, authorization, invoice, allocation, event>>
    BY <1>4, CommitMoves
  <2>2. TypeOK'
    BY <2>1, EndTypes, PaymentsKeepTheirType DEF TypeOK
  <2>3. QED
    BY <1>3, <2>1, <2>2
<1>5. CASE Verify(c) /\ ~Rollback(c)
  <2>1. /\ PaymentMoves(c, VerifiedRow(c)) /\ End(c) /\ Settle(Txn(c), payment[Txn(c)].sub)
        /\ UNCHANGED <<subscription, authorization, event>>
    BY <1>5, CommitMoves
  <2>2. FirstOpen(payment[Txn(c)].sub) \subseteq Invoices
    BY DEF FirstOpen, OpenInvoices
  <2>3. allocation' \subseteq Invoices \X Txns
    BY <1>1, <2>1, <2>2 DEF Settle, TypeOK
  <2>4. invoice' \in [Invoices -> [paid : Nat, status : {"ISSUED", "PARTIALLY_PAID", "PAID"}]]
    <3>1. Amount[Txn(c)] \in Nat
      BY <1>1, BillingAssumption
    <3>2. QED
      BY <2>1, <3>1 DEF Settle, TypeOK
  <2>5. TypeOK'
    BY <2>1, <2>3, <2>4, EndTypes, PaymentsKeepTheirType DEF TypeOK
  <2>6. QED
    BY <1>3, <2>1, <2>5
<1>6. CASE Activate(c) /\ ~Rollback(c)
  <2>1. /\ PaymentMoves(c, AppliedRow(c)) /\ End(c) /\ MayActivate(Txn(c), req[c])
        /\ UNCHANGED <<invoice, allocation>>
    BY <1>6, CommitMoves
  <2>2. pc[c] = "activate" /\ req[c].kind = "activate" /\ payment[Txn(c)].sub \in Subs /\ req[c].at \in Nat
    BY <1>1, <1>6, RequestFields DEF Activate, FoundOnTheWay
  <2> DEFINE s == payment[Txn(c)].sub
             version == subscription[s].version + 1
             term == [active |-> TRUE, version |-> version,
                      expiry |-> Later(subscription[s].expiry, req[c].at) + Validity]
  <2>3. /\ subscription' = [subscription EXCEPT ![s] = term]
        /\ authorization' = [authorization EXCEPT ![s] = [state |-> "PENDING", version |-> version]]
        /\ event' = event \cup {[txn |-> Txn(c), sub |-> s, version |-> version]}
    BY <1>6, <2>1, <2>2 DEF Activate, SubOf
  <2>4. version \in Nat /\ term \in [active : BOOLEAN, expiry : Nat, version : Nat]
    BY <2>2, BillingAssumption DEF TypeOK, Later
  <2> HIDE DEF version, term
  <2>5. /\ subscription' \in [Subs -> [active : BOOLEAN, expiry : Nat, version : Nat]]
        /\ authorization' \in [Subs -> [state : {"ABSENT", "PENDING"}, version : Nat]]
        /\ event' \subseteq [txn : Txns, sub : Subs, version : Nat]
    BY <1>1, <2>2, <2>3, <2>4 DEF TypeOK
  <2>6. TypeOK'
    BY <2>1, <2>5, EndTypes, PaymentsKeepTheirType DEF TypeOK
  <2>7. QED
    BY <1>3, <2>1, <2>6
<1>7. QED
  BY <1>2, <1>4, <1>5, <1>6

(* Every variable keeps its type, and every request what it has found.     *)
THEOREM BillingTypes == Spec => [](TypeOK /\ RequestInv)
<1>1. Init => TypeOK /\ RequestInv
  <2> SUFFICES ASSUME Init PROVE TypeOK /\ RequestInv
    OBVIOUS
  <2>1. TypeOK
    BY BillingAssumption DEF Init, TypeOK, NoPayment, NoAuthorization, Issued
  <2>2. RequestInv
    BY DEF Init, RequestInv, FoundOnTheWay
  <2>3. QED
    BY <2>1, <2>2
<1>2. TypeOK /\ RequestInv /\ [Next]_vars => (TypeOK /\ RequestInv)'
  <2> SUFFICES ASSUME TypeOK, RequestInv, [Next]_vars PROVE TypeOK' /\ RequestInv'
    OBVIOUS
  <2>1. CASE UNCHANGED vars
    BY <2>1 DEF vars, TypeOK, RequestInv, FoundOnTheWay, Txn
  <2>2. ASSUME NEW c \in Clients,
               LockPayment(c) \/ MissPayment(c) \/ LockSubscription(c) \/ Insert(c)
        PROVE  TypeOK' /\ RequestInv'
    BY <2>2, LockingKeeps
  <2>3. ASSUME NEW c \in Clients, Merge(c) \/ CommitInsert(c) \/ Verify(c) \/ Activate(c)
        PROVE  TypeOK' /\ RequestInv'
    BY <2>3, CommitsKeep
  <2>4. ASSUME NEW c \in Clients, NoSubscription(c) \/ DeadlockVictim(c) \/ Fail(c)
        PROVE  TypeOK' /\ RequestInv'
    <3>1. Rollback(c)
      BY <2>4 DEF NoSubscription, DeadlockVictim, Fail
    <3>2. QED
      BY <3>1, RollbackKeeps
  <2>5. ASSUME NEW c \in Clients, NEW r \in Callbacks \cup Verifications \cup Activations, Begin(c, r)
        PROVE  TypeOK' /\ RequestInv'
    BY <2>5, BeginKeeps DEF Requests
  <2>6. CASE Tick
    BY <2>6, BillingAssumption DEF Tick, tables, locks, TypeOK, RequestInv, FoundOnTheWay, Txn
  <2>7. QED
    BY <2>1, <2>2, <2>3, <2>4, <2>5, <2>6 DEF Next, Step
<1>3. QED
  BY <1>1, <1>2, PTL DEF Spec

-----------------------------------------------------------------------------
(* Money                                                                   *)

Spent == {"VERIFIED", "SETTLED", "REVERSED", "REFUNDED"}

(* MoneySpentOnce without the cardinality: two allocations of a payment    *)
(* are the same, and what was allocated or applied stays spent, for the    *)
(* same subscription.                                                      *)
MoneyInv ==
  /\ \A a, b \in allocation : a[2] = b[2] => a[1] = b[1]
  /\ \A a \in allocation : /\ payment[a[2]].status \in Spent
                           /\ InvoiceSub[a[1]] = payment[a[2]].sub
  /\ \A t \in Txns : payment[t].applied => payment[t].status \in Spent

(* A payment that moves keeps what was spent spent, if nothing new is      *)
(* allocated.                                                              *)
LEMMA SpentStaysSpent ==
  ASSUME TypeOK, MoneyInv, NEW c \in Clients, Txn(c) \in Txns,
         NEW row, PaymentMoves(c, row), allocation' = allocation,
         payment[Txn(c)].status \in Spent => row.status \in Spent,
         row.applied => row.status \in Spent
  PROVE  MoneyInv'
<1>1. payment'[Txn(c)] = row /\ \A t \in Txns \ {Txn(c)} : payment'[t] = payment[t]
  BY DEF PaymentMoves, TypeOK
<1>2. ASSUME NEW a \in allocation
      PROVE  payment'[a[2]].status \in Spent /\ InvoiceSub[a[1]] = payment'[a[2]].sub
  <2>1. a[1] \in Invoices /\ a[2] \in Txns
    BY DEF TypeOK
  <2>2. CASE a[2] # Txn(c)
    BY <1>1, <2>1, <2>2 DEF MoneyInv
  <2>3. CASE a[2] = Txn(c)
    <3>1. payment[Txn(c)].status \in Spent /\ InvoiceSub[a[1]] = payment[Txn(c)].sub
      BY <2>3 DEF MoneyInv
    <3>2. payment[Txn(c)].status # "ABSENT" /\ payment[Txn(c)].sub \in Subs
      BY <2>1, <3>1, BillingAssumption DEF Spent
    <3>3. row.sub = payment[Txn(c)].sub
      BY <3>2 DEF PaymentMoves
    <3>4. QED
      BY <1>1, <2>3, <3>1, <3>3
  <2>4. QED
    BY <2>2, <2>3
<1>3. ASSUME NEW t \in Txns, payment'[t].applied PROVE payment'[t].status \in Spent
  BY <1>1, <1>3 DEF MoneyInv
<1>4. QED
  BY <1>2, <1>3 DEF MoneyInv

(* What is not a commit leaves the tables.                                 *)
LEMMA OthersLeaveMoney ==
  ASSUME MoneyInv, UNCHANGED tables
  PROVE  MoneyInv'
BY DEF MoneyInv, tables

(* A verification allocates the whole payment, which was not spent, to one *)
(* invoice at most.                                                        *)
LEMMA VerificationSpends ==
  ASSUME TypeOK, MoneyInv, NEW c \in Clients, Txn(c) \in Txns,
         PaymentMoves(c, VerifiedRow(c)),
         MayVerify(Txn(c), req[c]), Settle(Txn(c), payment[Txn(c)].sub)
  PROVE  MoneyInv'
<1> DEFINE t == Txn(c)
           open == FirstOpen(payment[Txn(c)].sub)
<1>0. payment[t] \in [status : PaymentStates \cup {"ABSENT"}, sub : Subs \cup {NoSub},
                      corr : Subs \cup {NoCorr, Foreign}, applied : BOOLEAN]
  BY DEF TypeOK
<1>1. payment'[t] = VerifiedRow(c) /\ \A u \in Txns \ {t} : payment'[u] = payment[u]
  BY DEF PaymentMoves, TypeOK
<1>2. payment'[t].status = "VERIFIED" /\ payment'[t].sub = payment[t].sub
  BY <1>0, <1>1 DEF VerifiedRow
<1>3. payment[t].status \notin Spent
  BY DEF MayVerify, Spent
<1>4. \A a \in allocation : a[1] \in Invoices /\ a[2] \in Txns /\ a[2] # t
  BY <1>3 DEF MoneyInv, TypeOK
<1>5. /\ \A i \in open : i \in Invoices /\ InvoiceSub[i] = payment[t].sub
      /\ \A i, j \in open : i <= j
  BY DEF FirstOpen, OpenInvoices
<1>6. \A i, j \in open : i = j
  <2>1. \A i \in open : i \in Nat
    BY <1>5, BillingAssumption
  <2>2. \A i, j \in Nat : i <= j /\ j <= i => i = j
    OBVIOUS
  <2> HIDE DEF open
  <2>3. QED
    BY <1>5, <2>1, <2>2
<1>7. allocation' = allocation \cup (open \X {t})
  BY DEF Settle
<1>8. \A a \in allocation' : a \in allocation \/ (a[1] \in open /\ a[2] = t)
  BY <1>7
<1> HIDE DEF t, open
<1>9. \A a, b \in allocation' : a[2] = b[2] => a[1] = b[1]
  BY <1>4, <1>6, <1>8 DEF MoneyInv
<1>10. ASSUME NEW a \in allocation'
       PROVE  payment'[a[2]].status \in Spent /\ InvoiceSub[a[1]] = payment'[a[2]].sub
  <2>1. CASE a \in allocation
    BY <1>1, <1>4, <2>1 DEF MoneyInv
  <2>2. CASE a[1] \in open /\ a[2] = t
    BY <1>2, <1>5, <2>2 DEF Spent
  <2>3. QED
    BY <1>8, <2>1, <2>2
<1>11. ASSUME NEW u \in Txns, payment'[u].applied PROVE payment'[u].status \in Spent
  <2>1. CASE u = t
    BY <1>2, <2>1 DEF Spent
  <2>2. CASE u # t
    BY <1>1, <1>11, <2>2 DEF MoneyInv
  <2>3. QED
    BY <2>1, <2>2
<1>12. QED
  BY <1>9, <1>10, <1>11 DEF MoneyInv

LEMMA MoneyStarts == Init => MoneyInv
BY DEF Init, MoneyInv, NoPayment

LEMMA MoneyHolds ==
  ASSUME TypeOK, RequestInv, MoneyInv, [Next]_vars
  PROVE  MoneyInv'
<1>1. CASE UNCHANGED tables
  BY <1>1, OthersLeaveMoney
<1>2. ASSUME NEW c \in Clients, Merge(c) \/ CommitInsert(c) \/ Verify(c) \/ Activate(c),
             ~Rollback(c)
      PROVE  MoneyInv'
  <2>1. FoundOnTheWay(c) /\ req[c] \in Requests /\ Txn(c) \in Txns
    BY <1>2, RequestFields DEF Merge, CommitInsert, Verify, Activate, RequestInv, FoundOnTheWay, Txn
  <2>2. payment[Txn(c)] \in [status : PaymentStates \cup {"ABSENT"}, sub : Subs \cup {NoSub},
                             corr : Subs \cup {NoCorr, Foreign}, applied : BOOLEAN]
    BY <2>1 DEF TypeOK
  <2>3. CASE Merge(c)
    <3>1. /\ PaymentMoves(c, MergedRow(c)) /\ allocation' = allocation
          /\ PaymentMayMove(payment[Txn(c)].status, req[c].status)
      BY <1>2, <2>3, CommitMoves
    <3>2. MergedRow(c).status = req[c].status /\ MergedRow(c).applied = payment[Txn(c)].applied
      BY <2>2 DEF MergedRow
    <3>3. payment[Txn(c)].status \in Spent => req[c].status \in Spent
      BY <3>1 DEF PaymentMayMove, PaymentTransitions, Spent
    <3>4. QED
      BY <2>1, <3>1, <3>2, <3>3, SpentStaysSpent DEF MoneyInv
  <2>4. CASE CommitInsert(c)
    <3>1. /\ PaymentMoves(c, InsertedRow(c)) /\ allocation' = allocation
          /\ payment[Txn(c)].status = "ABSENT"
      BY <2>4, CommitMoves
    <3>2. InsertedRow(c).applied = FALSE /\ "ABSENT" \notin Spent
      BY DEF InsertedRow, Spent
    <3>3. QED
      BY <2>1, <3>1, <3>2, SpentStaysSpent
  <2>5. CASE Verify(c)
    BY <1>2, <2>1, <2>5, CommitMoves, VerificationSpends
  <2>6. CASE Activate(c)
    <3>1. /\ PaymentMoves(c, AppliedRow(c)) /\ allocation' = allocation
          /\ MayActivate(Txn(c), req[c])
      BY <1>2, <2>6, CommitMoves
    <3>2. AppliedRow(c).status = payment[Txn(c)].status
      BY <2>2 DEF AppliedRow
    <3>3. payment[Txn(c)].status \in Spent
      BY <3>1 DEF MayActivate, Spent
    <3>4. QED
      BY <2>1, <3>1, <3>2, <3>3, SpentStaysSpent
  <2>7. QED
    BY <1>2, <2>3, <2>4, <2>5, <2>6
<1>3. ASSUME NEW c \in Clients, Step(c) \/ Fail(c)
      PROVE  MoneyInv'
  <2>1. CASE Rollback(c)
    BY <1>1, <2>1 DEF Rollback
  <2>2. CASE LockPayment(c) \/ MissPayment(c) \/ LockSubscription(c) \/ Insert(c)
    BY <1>1, <2>2 DEF LockPayment, MissPayment, LockSubscription, Insert, Goto, Rollback
  <2>3. CASE (Merge(c) \/ CommitInsert(c) \/ Verify(c) \/ Activate(c)) /\ ~Rollback(c)
    BY <1>2, <2>3
  <2>4. CASE NoSubscription(c) \/ DeadlockVictim(c) \/ Fail(c)
    BY <1>1, <2>4 DEF NoSubscription, DeadlockVictim, Fail, Rollback
  <2>5. QED
    BY <1>3, <2>1, <2>2, <2>3, <2>4 DEF Step
<1>4. CASE \/ \E c \in Clients, r \in Callbacks \cup Verifications \cup Activations : Begin(c, r)
           \/ Tick \/ UNCHANGED vars
  BY <1>1, <1>4 DEF Begin, Tick, vars, tables
<1>5. QED
  BY <1>3, <1>4 DEF Next

(* Money is spent once, for every number of requests that overlap.         *)
THEOREM PaymentsAreSpentOnce == Spec => []MoneySpentOnce
<1>1. Init => MoneyInv
  BY MoneyStarts
<1>2. TypeOK /\ RequestInv /\ MoneyInv /\ [Next]_vars => MoneyInv'
  BY MoneyHolds
<1>3. MoneyInv => MoneySpentOnce
  <2> SUFFICES ASSUME MoneyInv, NEW t \in Txns,
                      NEW settled, settled = {a[1] : a \in {a \in allocation : a[2] = t}}
               PROVE  /\ Cardinality(settled) <= 1
                      /\ \A i \in settled : InvoiceSub[i] = payment[t].sub
                      /\ settled # {} \/ payment[t].applied => payment[t].status \in Spent
    BY DEF MoneySpentOnce, Spent
  <2>1. \A i, j \in settled : i = j
    BY DEF MoneyInv
  <2>2. Cardinality(settled) <= 1
    <3>1. CASE settled = {}
      BY <3>1, FS_EmptySet
    <3>2. CASE settled # {}
      <4>1. PICK i : settled = {i}
        BY <2>1, <3>2
      <4>2. QED
        BY <4>1, FS_Singleton
    <3>3. QED
      BY <3>1, <3>2
  <2>3. QED
    BY <2>2 DEF MoneyInv
<1>4. QED
  BY <1>1, <1>2, <1>3, BillingTypes, PTL DEF Spec

-----------------------------------------------------------------------------
(* Activations                                                             *)

EventsOf(s) == {e \in event : e.sub = s}

(* EachPaymentActivatesOnce and EveryPaymentBuysItsValidity of one         *)
(* subscription; the sets that are counted are finite.                     *)
TermInv(s) ==
  /\ IsFiniteSet(Applied(s)) /\ IsFiniteSet(EventsOf(s))
  /\ subscription[s].version = 1 + Cardinality(Applied(s))
  /\ Cardinality(EventsOf(s)) = Cardinality(Applied(s))
  /\ authorization[s].version = IF Applied(s) = {} THEN 0 ELSE subscription[s].version
  /\ {e.version : e \in EventsOf(s)} = 2..subscription[s].version
  /\ {e.txn : e \in EventsOf(s)} = Applied(s)
  /\ subscription[s].expiry >= Validity * Cardinality(Applied(s))

(* A payment is applied to a subscription that it is attached to, so that  *)
(* attaching a payment later applies nothing.                              *)
ActivationInv ==
  /\ \A s \in Subs : TermInv(s)
  /\ \A t \in Txns : payment[t].applied => payment[t].sub \in Subs

(* Who applies nothing leaves every term as it is.                         *)
LEMMA TermStays ==
  ASSUME ActivationInv, UNCHANGED <<subscription, authorization, event>>,
         \A t \in Txns : /\ payment'[t].applied <=> payment[t].applied
                         /\ payment[t].applied => payment'[t].sub = payment[t].sub
  PROVE  ActivationInv'
<1>1. ASSUME NEW s \in Subs PROVE TermInv(s)'
  <2>1. Applied(s)' = Applied(s) /\ EventsOf(s)' = EventsOf(s)
    BY DEF Applied, EventsOf, ActivationInv
  <2>2. TermInv(s)
    BY DEF ActivationInv
  <2> QED BY <2>1, <2>2 DEF TermInv
<1>2. \A t \in Txns : payment'[t].applied => payment'[t].sub \in Subs
  BY DEF ActivationInv
<1> QED BY <1>1, <1>2 DEF ActivationInv

LEMMA TablesKeepTerms ==
  ASSUME ActivationInv, UNCHANGED tables
  PROVE  ActivationInv'
  BY TermStays DEF tables

(* An activation adds one payment, one event with the next version, and a  *)
(* whole validity.                                                         *)
LEMMA ActivationCounts ==
  ASSUME TypeOK, RequestInv, MoneyInv, ActivationInv, NEW c \in Clients, Activate(c), ~Rollback(c)
  PROVE  ActivationInv'
<1>1. /\ req[c] \in Requests /\ Txn(c) \in Txns /\ req[c].at \in Nat
      /\ payment[Txn(c)].sub \in Subs /\ req[c].kind = "activate"
  BY RequestFields DEF Activate, RequestInv, FoundOnTheWay, Txn
<1>2. PICK t \in Txns, s \in Subs : t = Txn(c) /\ s = payment[t].sub
  BY <1>1
<1>3. PICK version : version = subscription[s].version + 1
  OBVIOUS
<1>4. PICK e : e = [txn |-> t, sub |-> s, version |-> version]
  OBVIOUS
<1>5. PICK expiry : expiry = Later(subscription[s].expiry, req[c].at) + Validity
  OBVIOUS
<1>6. /\ subscription' = [subscription EXCEPT ![s] =
                            [active |-> TRUE, version |-> version, expiry |-> expiry]]
      /\ authorization' = [authorization EXCEPT ![s] = [state |-> "PENDING", version |-> version]]
      /\ event' = event \cup {e} /\ MayActivate(t, req[c])
  BY <1>1, <1>2, <1>3, <1>4, <1>5 DEF Activate, SubOf
<1>7. /\ payment' = [payment EXCEPT ![t].applied = TRUE] /\ ~payment[t].applied
  BY <1>1, <1>2, <1>6 DEF Activate, MayActivate
<1>8. /\ payment'[t].applied /\ payment'[t].sub = s
      /\ \A u \in Txns \ {t} : payment'[u] = payment[u]
  BY <1>2, <1>7 DEF TypeOK
<1>9. Applied(s)' = Applied(s) \cup {t} /\ t \notin Applied(s)
  BY <1>7, <1>8 DEF Applied
<1>10. EventsOf(s)' = EventsOf(s) \cup {e} /\ e.txn = t /\ e.version = version
  BY <1>4, <1>6 DEF EventsOf
<1>11. TermInv(s)
  BY DEF ActivationInv
<1>12. e \notin EventsOf(s)
  BY <1>9, <1>10, <1>11 DEF TermInv
<1>13. PICK n \in Nat : n = Cardinality(Applied(s))
  BY <1>11, FS_CardinalityType DEF TermInv
<1>14. /\ IsFiniteSet(Applied(s)') /\ IsFiniteSet(EventsOf(s)')
       /\ Cardinality(Applied(s)') = n + 1 /\ Cardinality(EventsOf(s)') = n + 1
  BY <1>9, <1>10, <1>11, <1>12, <1>13, FS_AddElement DEF TermInv
<1>15. version = n + 2 /\ subscription[s].version = n + 1 /\ subscription[s].expiry \in Nat
  BY <1>3, <1>11, <1>13 DEF TermInv, TypeOK
<1>16. /\ subscription'[s].version = n + 2 /\ subscription'[s].expiry = expiry
       /\ authorization'[s].version = n + 2
  BY <1>6, <1>15 DEF TypeOK
<1>17. expiry >= Validity * (n + 1)
  <2>1. Validity \in Nat /\ Validity * (n + 1) = Validity * n + Validity /\ Validity * n \in Nat
    BY BillingAssumption
  <2>2. subscription[s].expiry >= Validity * n
    BY <1>11, <1>13 DEF TermInv
  <2>3. expiry >= subscription[s].expiry + Validity
    BY <1>1, <1>5, <1>15, <2>1 DEF Later
  <2>4. expiry \in Nat
    BY <1>1, <1>5, <1>15, <2>1 DEF Later
  <2> QED BY <1>15, <2>1, <2>2, <2>3, <2>4
<1>18. TermInv(s)'
  <2>1. {f.version : f \in EventsOf(s)'} = 2..n + 2
    <3>1. {f.version : f \in EventsOf(s)'} = {f.version : f \in EventsOf(s)} \cup {version}
      BY <1>10
    <3>2. {f.version : f \in EventsOf(s)} = 2..n + 1
      BY <1>11, <1>15 DEF TermInv
    <3> QED BY <1>15, <3>1, <3>2
  <2>2. {f.txn : f \in EventsOf(s)'} = Applied(s)'
    <3>1. {f.txn : f \in EventsOf(s)'} = {f.txn : f \in EventsOf(s)} \cup {t}
      BY <1>10
    <3> QED BY <1>9, <1>11, <3>1 DEF TermInv
  <2>3. Applied(s)' # {}
    BY <1>9
  <2>4. subscription'[s].version = 1 + (n + 1)
    BY <1>16
  <2> QED BY <1>14, <1>16, <1>17, <2>1, <2>2, <2>3, <2>4 DEF TermInv
<1>19. ASSUME NEW r \in Subs, r # s PROVE TermInv(r)'
  <2>1. Applied(r)' = Applied(r)
    BY <1>2, <1>8, <1>19 DEF Applied
  <2>2. EventsOf(r)' = EventsOf(r)
    BY <1>4, <1>6, <1>19 DEF EventsOf
  <2>3. subscription'[r] = subscription[r] /\ authorization'[r] = authorization[r]
    BY <1>6, <1>19 DEF TypeOK
  <2>4. TermInv(r)
    BY DEF ActivationInv
  <2> QED BY <2>1, <2>2, <2>3, <2>4 DEF TermInv
<1>20. \A u \in Txns : payment'[u].applied => payment'[u].sub \in Subs
  BY <1>8 DEF ActivationInv
<1> QED BY <1>18, <1>19, <1>20 DEF ActivationInv

(* A payment that is recorded, merged or verified is applied as before.    *)
LEMMA CommitsApplyNothing ==
  ASSUME TypeOK, RequestInv, MoneyInv, ActivationInv, NEW c \in Clients,
         Merge(c) \/ CommitInsert(c) \/ Verify(c), ~Rollback(c)
  PROVE  ActivationInv'
<1>1. Txn(c) \in Txns
  BY RequestFields DEF Merge, CommitInsert, Verify, RequestInv, FoundOnTheWay, Txn
<1>2. PICK t \in Txns : t = Txn(c)
  BY <1>1
<1>3. payment[t] \in [status : PaymentStates \cup {"ABSENT"}, sub : Subs \cup {NoSub},
                      corr : Subs \cup {NoCorr, Foreign}, applied : BOOLEAN]
  BY DEF TypeOK
<1>4. payment[t].applied => payment[t].status # "ABSENT" /\ payment[t].sub \in Subs
  BY DEF MoneyInv, ActivationInv, Spent
<1>5. \E row : /\ PaymentMoves(c, row) /\ row.applied = payment[t].applied
               /\ UNCHANGED <<subscription, authorization, event>>
  <2>1. CASE Merge(c)
    <3>1. PaymentMoves(c, MergedRow(c)) /\ UNCHANGED <<subscription, authorization, event>>
      BY <2>1, CommitMoves
    <3>2. MergedRow(c).applied = payment[t].applied
      BY <1>2, <1>3 DEF MergedRow
    <3> QED BY <3>1, <3>2
  <2>2. CASE CommitInsert(c)
    <3>1. /\ PaymentMoves(c, InsertedRow(c)) /\ UNCHANGED <<subscription, authorization, event>>
          /\ payment[t].status = "ABSENT"
      BY <1>2, <2>2, CommitMoves
    <3>2. InsertedRow(c).applied = FALSE /\ payment[t].applied = FALSE
      BY <1>3, <1>4, <3>1 DEF InsertedRow
    <3> QED BY <3>1, <3>2
  <2>3. CASE Verify(c)
    <3>1. PaymentMoves(c, VerifiedRow(c)) /\ UNCHANGED <<subscription, authorization, event>>
      BY <2>3, CommitMoves
    <3>2. VerifiedRow(c).applied = payment[t].applied
      BY <1>2, <1>3 DEF VerifiedRow
    <3> QED BY <3>1, <3>2
  <2> QED BY <2>1, <2>2, <2>3
<1>6. PICK row : /\ PaymentMoves(c, row) /\ row.applied = payment[t].applied
                 /\ UNCHANGED <<subscription, authorization, event>>
  BY <1>5
<1>7. payment'[t] = row /\ \A u \in Txns \ {t} : payment'[u] = payment[u]
  BY <1>2, <1>6 DEF PaymentMoves, TypeOK
<1>8. payment[t].applied => row.sub = payment[t].sub
  BY <1>2, <1>4, <1>6, BillingAssumption DEF PaymentMoves
<1> QED BY <1>6, <1>7, <1>8, TermStays

(* What does not commit leaves the tables.                                 *)
LEMMA CommitOrNothing ==
  ASSUME [Next]_vars
  PROVE  \/ UNCHANGED tables
         \/ \E c \in Clients : ~Rollback(c) /\ (Merge(c) \/ CommitInsert(c) \/ Verify(c) \/ Activate(c))
<1>1. ASSUME NEW c \in Clients, Step(c) \/ Fail(c)
      PROVE  \/ UNCHANGED tables
             \/ ~Rollback(c) /\ (Merge(c) \/ CommitInsert(c) \/ Verify(c) \/ Activate(c))
  <2>1. CASE Rollback(c)
    BY <2>1 DEF Rollback
  <2>2. CASE LockPayment(c) \/ MissPayment(c) \/ LockSubscription(c) \/ Insert(c)
    BY <2>2 DEF LockPayment, MissPayment, LockSubscription, Insert, Goto, Rollback
  <2>3. CASE NoSubscription(c) \/ DeadlockVictim(c) \/ Fail(c)
    BY <2>3 DEF NoSubscription, DeadlockVictim, Fail, Rollback
  <2> QED BY <1>1, <2>1, <2>2, <2>3 DEF Step
<1>2. CASE \/ \E c \in Clients, r \in Callbacks \cup Verifications \cup Activations : Begin(c, r)
           \/ Tick \/ UNCHANGED vars
  BY <1>2 DEF Begin, Tick, vars, tables
<1> QED BY <1>1, <1>2 DEF Next

LEMMA ActivationHolds ==
  ASSUME TypeOK, RequestInv, MoneyInv, ActivationInv, [Next]_vars
  PROVE  ActivationInv'
<1>1. CASE UNCHANGED tables
  BY <1>1, TablesKeepTerms
<1>2. ASSUME NEW c \in Clients, ~Rollback(c),
             Merge(c) \/ CommitInsert(c) \/ Verify(c) \/ Activate(c)
      PROVE  ActivationInv'
  BY <1>2, ActivationCounts, CommitsApplyNothing
<1> QED BY <1>1, <1>2, CommitOrNothing

LEMMA ActivationStarts == Init => ActivationInv
<1> SUFFICES ASSUME Init PROVE ActivationInv
  OBVIOUS
<1>1. ASSUME NEW s \in Subs PROVE TermInv(s)
  <2>1. Applied(s) = {} /\ EventsOf(s) = {}
    BY DEF Init, Applied, EventsOf, NoPayment
  <2>2. IsFiniteSet({}) /\ Cardinality({}) = 0
    BY FS_EmptySet
  <2>3. /\ subscription[s].version = 1 /\ subscription[s].expiry = 0 /\ authorization[s].version = 0
    BY DEF Init, NoAuthorization
  <2>4. Validity * 0 = 0
    BY BillingAssumption
  <2> QED BY <2>1, <2>2, <2>3, <2>4 DEF TermInv
<1>2. \A t \in Txns : ~payment[t].applied
  BY DEF Init, NoPayment
<1> QED BY <1>1, <1>2 DEF ActivationInv

(* Every payment activates once: it moves the entitlement version by one,  *)
(* with one event, whatever requests overlap, repeat or fail.              *)
THEOREM PaymentsActivateOnce == Spec => []EachPaymentActivatesOnce
<1>1. Init => MoneyInv /\ ActivationInv
  BY MoneyStarts, ActivationStarts
<1>2. TypeOK /\ RequestInv /\ MoneyInv /\ ActivationInv /\ [Next]_vars => (MoneyInv /\ ActivationInv)'
  BY MoneyHolds, ActivationHolds
<1>3. ActivationInv => EachPaymentActivatesOnce
  BY DEF ActivationInv, TermInv, EventsOf, EachPaymentActivatesOnce
<1> QED BY <1>1, <1>2, <1>3, BillingTypes, PTL DEF Spec

(* No activation loses the time that another one has bought.               *)
THEOREM NoValidityIsLost == Spec => []EveryPaymentBuysItsValidity
<1>1. Init => MoneyInv /\ ActivationInv
  BY MoneyStarts, ActivationStarts
<1>2. TypeOK /\ RequestInv /\ MoneyInv /\ ActivationInv /\ [Next]_vars => (MoneyInv /\ ActivationInv)'
  BY MoneyHolds, ActivationHolds
<1>3. ActivationInv => EveryPaymentBuysItsValidity
  BY DEF ActivationInv, TermInv, EveryPaymentBuysItsValidity
<1> QED BY <1>1, <1>2, <1>3, BillingTypes, PTL DEF Spec

-----------------------------------------------------------------------------
(* Sums over finite sets                                                   *)

(* A property of subsets, given as the set of those that have it, holds of *)
(* all finite ones if it holds of each whose proper subsets have it.       *)
LEMMA SubsetInduction ==
  ASSUME NEW S, IsFiniteSet(S), NEW Good,
         ASSUME NEW T \in SUBSET S, \A U \in SUBSET T : U # T => U \in Good
         PROVE  T \in Good
  PROVE  \A T \in SUBSET S : T \in Good
<1> SUFFICES ASSUME NEW V \in SUBSET S, V \notin Good PROVE FALSE
  OBVIOUS
<1>1. PICK Bad : Bad = {T \in SUBSET S : T \notin Good}
  OBVIOUS
<1>2. PICK R : R = StrictSubsetOrdering(S)
  OBVIOUS
<1>3. PICK F : F = FiniteSubsetsOf(S)
  OBVIOUS
<1>4. IsWellFoundedOn(R, F)
  BY <1>2, <1>3, FS_StrictSubsetOrderingWellFounded
<1>5. F = SUBSET S
  BY <1>3, FS_FiniteSubsetsOfFinite
<1>6. V \in Bad /\ Bad \subseteq F
  BY <1>1, <1>5
<1>7. \E T \in Bad : \A U \in Bad : ~(<<U, T>> \in R)
  BY <1>4, <1>6, WFMin
<1>8. PICK T \in Bad : \A U \in Bad : ~(<<U, T>> \in R)
  BY <1>7
<1>9. \A U \in SUBSET T : U # T => U \in Good
  BY <1>1, <1>2, <1>8 DEF StrictSubsetOrdering
<1> QED BY <1>1, <1>8, <1>9

Chosen(s) == CHOOSE x \in s : TRUE

(* g adds up the weights of every subset of S, taking out one element at a *)
(* time.                                                                   *)
SumStep(W, g, s) == IF s = {} THEN 0 ELSE W[Chosen(s)] + g[s \ {Chosen(s)}]
IsSum(W, g, S) == g = [s \in SUBSET S |-> SumStep(W, g, s)]

LEMMA ChosenIn == \A s : s # {} => Chosen(s) \in s
  BY DEF Chosen

LEMMA SumIsUnique ==
  ASSUME NEW W, NEW S, IsFiniteSet(S), NEW g, NEW h, NEW T \in SUBSET S,
         IsSum(W, g, S), IsSum(W, h, T)
  PROVE  \A s \in SUBSET T : g[s] = h[s]
<1> DEFINE Good == {s \in SUBSET T : g[s] = h[s]}
<1>1. ASSUME NEW s \in SUBSET T, \A u \in SUBSET s : u # s => u \in Good
      PROVE  s \in Good
  <2>1. g[s] = SumStep(W, g, s) /\ h[s] = SumStep(W, h, s)
    BY DEF IsSum
  <2>2. CASE s = {}
    BY <2>1, <2>2 DEF SumStep
  <2>3. CASE s # {}
    <3>1. s \ {Chosen(s)} \in SUBSET s /\ s \ {Chosen(s)} # s
      BY <2>3, ChosenIn
    <3>2. g[s \ {Chosen(s)}] = h[s \ {Chosen(s)}]
      BY <1>1, <3>1
    <3> QED BY <2>1, <2>3, <3>2 DEF SumStep
  <2> QED BY <2>2, <2>3
<1>2. IsFiniteSet(T)
  BY FS_Subset
<1> HIDE DEF Good
<1>3. \A s \in SUBSET T : s \in Good
  BY <1>1, <1>2, SubsetInduction
<1> QED BY <1>3 DEF Good

LEMMA SumExists ==
  ASSUME NEW W, NEW S, IsFiniteSet(S)
  PROVE  \E g : IsSum(W, g, S)
<1> DEFINE Good == {T \in SUBSET S : \E g : IsSum(W, g, T)}
<1>1. ASSUME NEW T \in SUBSET S, \A U \in SUBSET T : U # T => U \in Good
      PROVE  T \in Good
  <2> DEFINE Of(U) == CHOOSE g : IsSum(W, g, U)
             v == [U \in SUBSET T |-> Of(U)[U]]
             g == [s \in SUBSET T |-> SumStep(W, v, s)]
  <2>1. ASSUME NEW U \in SUBSET T, U # T
        PROVE  IsSum(W, Of(U), U)
    BY <1>1, <2>1
  <2>2. ASSUME NEW s \in SUBSET T, s # T
        PROVE  v[s] = SumStep(W, v, s)
    <3>1. v[s] = SumStep(W, Of(s), s)
      BY <2>1, <2>2 DEF IsSum
    <3>2. CASE s = {}
      BY <3>1, <3>2 DEF SumStep
    <3>3. CASE s # {}
      <4> DEFINE u == s \ {Chosen(s)}
      <4>1. u \in SUBSET s /\ u # T /\ u \in SUBSET T
        BY <3>3, ChosenIn
      <4>2. IsFiniteSet(s)
        BY FS_Subset
      <4>3. IsSum(W, Of(s), s) /\ IsSum(W, Of(u), u)
        BY <2>1, <2>2, <4>1
      <4> HIDE DEF Of, u
      <4>4. Of(s)[u] = Of(u)[u]
        BY <4>1, <4>2, <4>3, SumIsUnique
      <4>5. v[u] = Of(u)[u]
        BY <4>1
      <4> QED BY <3>1, <3>3, <4>4, <4>5 DEF SumStep, u
    <3> QED BY <3>2, <3>3
  <2>3. ASSUME NEW s \in SUBSET T
        PROVE  SumStep(W, v, s) = SumStep(W, g, s)
    <3>1. CASE s = {}
      BY <3>1 DEF SumStep
    <3>2. CASE s # {}
      <4> DEFINE u == s \ {Chosen(s)}
      <4>1. u \in SUBSET T /\ u # T
        BY <3>2, ChosenIn
      <4>2. v[u] = SumStep(W, v, u) /\ g[u] = SumStep(W, v, u)
        BY <2>2, <4>1
      <4> QED BY <3>2, <4>2 DEF SumStep
    <3> QED BY <3>1, <3>2
  <2>4. IsSum(W, g, T)
    BY <2>3 DEF IsSum
  <2> QED BY <2>4
<1> HIDE DEF Good
<1>2. S \in Good
  BY <1>1, SubsetInduction
<1> QED BY <1>2 DEF Good

LEMMA SumIsNat ==
  ASSUME NEW S, IsFiniteSet(S), NEW W, \A x \in S : W[x] \in Nat, NEW g, IsSum(W, g, S)
  PROVE  \A s \in SUBSET S : g[s] \in Nat
<1> DEFINE Good == {s \in SUBSET S : g[s] \in Nat}
<1>1. ASSUME NEW s \in SUBSET S, \A u \in SUBSET s : u # s => u \in Good
      PROVE  s \in Good
  <2>1. g[s] = SumStep(W, g, s)
    BY DEF IsSum
  <2>2. CASE s = {}
    BY <2>1, <2>2 DEF SumStep
  <2>3. CASE s # {}
    <3>1. Chosen(s) \in S /\ s \ {Chosen(s)} \in SUBSET s /\ s \ {Chosen(s)} # s
      BY <2>3, ChosenIn
    <3>2. g[s \ {Chosen(s)}] \in Nat
      BY <1>1, <3>1
    <3> QED BY <2>1, <2>3, <3>1, <3>2 DEF SumStep
  <2> QED BY <2>2, <2>3
<1> HIDE DEF Good
<1>2. \A s \in SUBSET S : s \in Good
  BY <1>1, SubsetInduction
<1> QED BY <1>2 DEF Good

(* It does not matter in which order they are taken out.                   *)
LEMMA SumOfOneMore ==
  ASSUME NEW S, IsFiniteSet(S), NEW W, \A x \in S : W[x] \in Nat, NEW g, IsSum(W, g, S),
         NEW A \in SUBSET S, NEW a \in S \ A
  PROVE  g[A \cup {a}] = g[A] + W[a]
<1> DEFINE Good == {s \in SUBSET S : \A y \in S \ s : g[s \cup {y}] = g[s] + W[y]}
<1>0. \A s \in SUBSET S : g[s] \in Nat /\ g[s] = SumStep(W, g, s)
  BY SumIsNat DEF IsSum
<1>1. ASSUME NEW s \in SUBSET S, \A u \in SUBSET s : u # s => u \in Good
      PROVE  s \in Good
  <2> SUFFICES ASSUME NEW y \in S \ s PROVE g[s \cup {y}] = g[s] + W[y]
    OBVIOUS
  <2>1. PICK x : x = Chosen(s \cup {y})
    OBVIOUS
  <2>2. x \in s \cup {y}
    BY <2>1, ChosenIn
  <2>3. g[s \cup {y}] = W[x] + g[(s \cup {y}) \ {x}]
    BY <1>0, <2>1 DEF SumStep
  <2>4. CASE x = y
    <3>1. (s \cup {y}) \ {x} = s
      BY <2>4
    <3>2. g[s \cup {y}] = W[y] + g[s]
      BY <2>3, <2>4, <3>1
    <3>3. g[s] \in Nat /\ W[y] \in Nat
      BY <1>0
    <3> HIDE DEF Good
    <3> QED BY <3>2, <3>3
  <2>5. CASE x # y
    <3>1. PICK u : u = s \ {x}
      OBVIOUS
    <3>2. /\ x \in s /\ u \in Good /\ u \cup {x} = s /\ (s \cup {y}) \ {x} = u \cup {y}
          /\ x \in S \ u /\ y \in S \ u /\ u \in SUBSET S
      BY <1>1, <2>2, <2>5, <3>1
    <3>3. g[u \cup {x}] = g[u] + W[x] /\ g[u \cup {y}] = g[u] + W[y]
      BY <3>2
    <3>4. g[s] = g[u] + W[x] /\ g[s \cup {y}] = W[x] + (g[u] + W[y])
      BY <2>3, <3>2, <3>3
    <3>5. g[u] \in Nat /\ W[x] \in Nat /\ W[y] \in Nat
      BY <1>0, <3>2
    <3> HIDE DEF Good
    <3> QED BY <3>4, <3>5
  <2> QED BY <2>4, <2>5
<1> HIDE DEF Good
<1>2. \A s \in SUBSET S : s \in Good
  BY <1>1, SubsetInduction
<1>3. \A s \in SUBSET S : \A y \in S \ s : g[s \cup {y}] = g[s] + W[y]
  BY <1>2 DEF Good
<1> QED BY <1>3

-----------------------------------------------------------------------------
(* Invoices                                                                *)

AllocationsOf(i) == {a \in allocation : a[1] = i}

(* What a set of allocations adds up to.                                   *)
Paid(A) == MapThenSumSet(LAMBDA a : Amount[a[2]], A)

LEMMA AllocatedIsPaid == \A i : Allocated(i) = Paid(AllocationsOf(i))
  BY DEF Allocated, Paid, AllocationsOf

LEMMA AllocatedWillBePaid == \A i : Allocated(i)' = Paid(AllocationsOf(i)')
<1>1. (\A i : Allocated(i) = Paid(AllocationsOf(i)))'
  BY AllocatedIsPaid, PTL
<1> QED BY <1>1

Weights == [a \in Invoices \X Txns |-> Amount[a[2]]]

LEMMA PaidIsASum ==
  ASSUME NEW A \in SUBSET (Invoices \X Txns), IsFiniteSet(A)
  PROVE  \E g : IsSum(Weights, g, A) /\ Paid(A) = g[A]
<1> DEFINE Iter(f) == [s \in SUBSET A |-> IF s = {} THEN 0
                                          ELSE LET x == CHOOSE x \in s : TRUE
                                               IN  Amount[x[2]] + f[s \ {x}]]
<1>1. Paid(A) = (CHOOSE f : f = Iter(f))[A]
  BY DEF Paid, MapThenSumSet, MapThenFoldSet
<1>2. ASSUME NEW f, NEW s \in SUBSET A
      PROVE  Iter(f)[s] = SumStep(Weights, f, s)
  <2>1. CASE s = {}
    BY <2>1 DEF SumStep
  <2>2. CASE s # {}
    <3>1. Chosen(s) \in Invoices \X Txns
      BY <2>2, ChosenIn
    <3>2. Weights[Chosen(s)] = Amount[Chosen(s)[2]]
      BY <3>1 DEF Weights
    <3>3. Iter(f)[s] = Amount[Chosen(s)[2]] + f[s \ {Chosen(s)}]
      BY <2>2 DEF Chosen
    <3> QED BY <2>2, <3>2, <3>3 DEF SumStep
  <2> QED BY <2>1, <2>2
<1>3. \A f : Iter(f) = [s \in SUBSET A |-> SumStep(Weights, f, s)]
  BY <1>2
<1>4. PICK g : IsSum(Weights, g, A)
  BY SumExists
<1> HIDE DEF Iter
<1>5. g = Iter(g)
  BY <1>3, <1>4 DEF IsSum
<1>6. PICK h : h = (CHOOSE f : f = Iter(f))
  OBVIOUS
<1>7. h = Iter(h)
  BY <1>5, <1>6
<1>8. IsSum(Weights, h, A)
  BY <1>3, <1>7 DEF IsSum
<1> QED BY <1>1, <1>6, <1>8

LEMMA NothingPaid == Paid({}) = 0
<1>1. PICK g : IsSum(Weights, g, {}) /\ Paid({}) = g[{}]
  BY PaidIsASum, FS_EmptySet
<1> QED BY <1>1 DEF IsSum, SumStep

LEMMA OneMorePaid ==
  ASSUME NEW A \in SUBSET (Invoices \X Txns), IsFiniteSet(A), NEW a \in Invoices \X Txns, a \notin A
  PROVE  Paid(A \cup {a}) = Paid(A) + Amount[a[2]]
<1>1. PICK B : B = A \cup {a}
  OBVIOUS
<1>2. IsFiniteSet(B) /\ B \in SUBSET (Invoices \X Txns) /\ A \in SUBSET B /\ a \in B \ A
  BY <1>1, FS_AddElement
<1>3. PICK g : IsSum(Weights, g, B) /\ Paid(B) = g[B]
  BY <1>2, PaidIsASum
<1>4. PICK h : IsSum(Weights, h, A) /\ Paid(A) = h[A]
  BY PaidIsASum
<1>5. g[A] = h[A]
  BY <1>2, <1>3, <1>4, SumIsUnique
<1>6. \A x \in B : Weights[x] \in Nat
  BY <1>2, BillingAssumption DEF Weights
<1>7. g[A \cup {a}] = g[A] + Weights[a]
  BY <1>2, <1>3, <1>6, SumOfOneMore, SMTT(20)
<1>8. Weights[a] = Amount[a[2]]
  BY DEF Weights
<1> QED BY <1>1, <1>3, <1>4, <1>5, <1>7, <1>8

(* InvoicesBalance of one invoice.                                         *)
Balanced(i) ==
  /\ invoice[i].paid = Allocated(i)
  /\ invoice[i].paid <= Total[i]
  /\ invoice[i].status = "PAID" => invoice[i].paid = Total[i]
  /\ invoice[i].status = "ISSUED" => invoice[i].paid = 0

BalanceInv == IsFiniteSet(allocation) /\ \A i \in Invoices : Balanced(i)

(* An invoice that is not touched stays balanced.                          *)
LEMMA UntouchedStaysBalanced ==
  ASSUME NEW i \in Invoices, Balanced(i), invoice'[i] = invoice[i],
         AllocationsOf(i)' = AllocationsOf(i)
  PROVE  Balanced(i)'
<1>1. Allocated(i)' = Paid(AllocationsOf(i)')
  BY AllocatedWillBePaid
<1>2. Allocated(i)' = Allocated(i)
  BY <1>1, AllocatedIsPaid
<1> QED BY <1>2 DEF Balanced

(* A verified payment settles at most the first open invoice of its        *)
(* subscription, by an allocation that was not there.                      *)
LEMMA SettlingBalances ==
  ASSUME TypeOK, MoneyInv, BalanceInv, NEW t \in Txns, NEW r,
         MayVerify(t, r), Settle(t, payment[t].sub)
  PROVE  BalanceInv'
<1>1. PICK s : s = payment[t].sub
  OBVIOUS
<1>2. \A i, j \in FirstOpen(s) : i = j
  <2>1. \A i, j \in FirstOpen(s) : i <= j /\ j <= i /\ i \in Invoices /\ j \in Invoices
    BY DEF FirstOpen, OpenInvoices
  <2>2. \A i, j \in Nat : i <= j /\ j <= i => i = j
    OBVIOUS
  <2> QED BY <2>1, <2>2, BillingAssumption
<1>3. \A i \in Invoices : <<i, t>> \notin allocation
  BY DEF MoneyInv, MayVerify, Spent
<1>4. CASE FirstOpen(s) = {}
  <2>1. allocation' = allocation /\ \A i \in Invoices : invoice'[i] = invoice[i]
    BY <1>1, <1>4 DEF Settle
  <2>2. \A i \in Invoices : AllocationsOf(i)' = AllocationsOf(i)
    BY <2>1 DEF AllocationsOf
  <2> QED BY <2>1, <2>2, UntouchedStaysBalanced DEF BalanceInv
<1>5. ASSUME NEW i \in FirstOpen(s) PROVE BalanceInv'
  <2>1. FirstOpen(s) = {i} /\ i \in Invoices /\ invoice[i].status # "PAID"
    BY <1>2, <1>5 DEF FirstOpen, OpenInvoices
  <2>2. PICK paid : paid = invoice[i].paid + Amount[t]
    OBVIOUS
  <2>3. /\ allocation' = allocation \cup {<<i, t>>}
        /\ invoice' = [j \in Invoices |->
             IF j \in FirstOpen(s) /\ <<j, t>> \notin allocation
             THEN LET sum == invoice[j].paid + Amount[t] IN
                  [paid |-> sum, status |-> IF sum = Total[j] THEN "PAID" ELSE "PARTIALLY_PAID"]
             ELSE invoice[j]]
    BY <1>1, <2>1 DEF Settle
  <2>4. /\ invoice'[i] = [paid |-> paid, status |-> IF paid = Total[i] THEN "PAID" ELSE "PARTIALLY_PAID"]
        /\ \A j \in Invoices \ {i} : invoice'[j] = invoice[j]
    BY <1>3, <2>1, <2>2, <2>3
  <2>5. Amount[t] \in Nat /\ Total[i] \in Nat /\ invoice[i].paid \in Nat /\ Amount[t] <= Total[i] - invoice[i].paid
    BY <1>1, <2>1, BillingAssumption DEF TypeOK, MayVerify, Settleable
  <2>6. Allocated(i)' = Paid(AllocationsOf(i)')
    BY AllocatedWillBePaid
  <2>7. AllocationsOf(i)' = AllocationsOf(i) \cup {<<i, t>>} /\ <<i, t>> \notin AllocationsOf(i)
    BY <1>3, <2>1, <2>3 DEF AllocationsOf
  <2>8. IsFiniteSet(AllocationsOf(i)) /\ AllocationsOf(i) \in SUBSET (Invoices \X Txns)
    BY FS_Subset DEF AllocationsOf, BalanceInv, TypeOK
  <2>9. Allocated(i)' = Allocated(i) + Amount[t]
    <3>1. PICK a : a = <<i, t>>
      OBVIOUS
    <3>2. a \in Invoices \X Txns /\ a[2] = t
      BY <2>1, <3>1
    <3>3. Paid(AllocationsOf(i) \cup {a}) = Paid(AllocationsOf(i)) + Amount[a[2]]
      BY <2>7, <2>8, <3>1, <3>2, OneMorePaid
    <3> QED BY <2>6, <2>7, <3>1, <3>2, <3>3, AllocatedIsPaid
  <2>10. Balanced(i)'
    BY <2>1, <2>2, <2>4, <2>5, <2>9 DEF BalanceInv, Balanced
  <2>11. ASSUME NEW j \in Invoices \ {i} PROVE Balanced(j)'
    <3>1. AllocationsOf(j)' = AllocationsOf(j)
      BY <2>3 DEF AllocationsOf
    <3> QED BY <2>4, <3>1, UntouchedStaysBalanced DEF BalanceInv
  <2>12. IsFiniteSet(allocation')
    BY <2>3, FS_AddElement DEF BalanceInv
  <2> QED BY <2>10, <2>11, <2>12 DEF BalanceInv
<1> QED BY <1>4, <1>5

LEMMA BalanceHolds ==
  ASSUME TypeOK, RequestInv, MoneyInv, BalanceInv, [Next]_vars
  PROVE  BalanceInv'
<1>1. ASSUME UNCHANGED <<invoice, allocation>> PROVE BalanceInv'
  <2>1. \A i : AllocationsOf(i)' = AllocationsOf(i)
    BY <1>1 DEF AllocationsOf
  <2> QED BY <1>1, <2>1, UntouchedStaysBalanced DEF BalanceInv
<1>2. ASSUME NEW c \in Clients, ~Rollback(c), Verify(c) PROVE BalanceInv'
  <2>1. MayVerify(Txn(c), req[c]) /\ Settle(Txn(c), payment[Txn(c)].sub)
    BY <1>2, CommitMoves
  <2>2. Txn(c) \in Txns
    BY <1>2, RequestFields DEF Verify, RequestInv, FoundOnTheWay, Txn
  <2> QED BY <2>1, <2>2, SettlingBalances
<1>3. ASSUME NEW c \in Clients, ~Rollback(c), Merge(c) \/ CommitInsert(c) \/ Activate(c)
      PROVE  BalanceInv'
  <2>1. UNCHANGED <<invoice, allocation>>
    BY <1>3, CommitMoves
  <2> QED BY <1>1, <2>1
<1>4. CASE UNCHANGED tables
  BY <1>1, <1>4 DEF tables
<1> QED BY <1>2, <1>3, <1>4, CommitOrNothing

LEMMA BalanceStarts == Init => BalanceInv
<1> SUFFICES ASSUME Init PROVE BalanceInv
  OBVIOUS
<1>1. allocation = {} /\ IsFiniteSet(allocation)
  BY FS_EmptySet DEF Init
<1>2. ASSUME NEW i \in Invoices PROVE Balanced(i)
  <2>1. AllocationsOf(i) = {}
    BY <1>1 DEF AllocationsOf
  <2>2. Allocated(i) = 0
    BY <2>1, AllocatedIsPaid, NothingPaid
  <2>3. invoice[i] = Issued /\ Total[i] \in Nat
    BY BillingAssumption DEF Init
  <2> QED BY <2>2, <2>3 DEF Balanced, Issued
<1> QED BY <1>1, <1>2 DEF BalanceInv

(* The books balance: what an invoice says was paid is what the payments   *)
(* allocated to it add up to, never more than its total, and its status    *)
(* follows from the two.                                                   *)
THEOREM InvoicesAreBalanced == Spec => []InvoicesBalance
<1>1. Init => MoneyInv /\ BalanceInv
  BY MoneyStarts, BalanceStarts
<1>2. TypeOK /\ RequestInv /\ MoneyInv /\ BalanceInv /\ [Next]_vars => (MoneyInv /\ BalanceInv)'
  BY MoneyHolds, BalanceHolds
<1>3. BalanceInv => InvoicesBalance
  BY DEF BalanceInv, Balanced, InvoicesBalance
<1> QED BY <1>1, <1>2, <1>3, BillingTypes, PTL DEF Spec

-----------------------------------------------------------------------------
(* The two judgements                                                      *)

(* deriveEntitlement and reconcilePaymentAccess agree in every state that  *)
(* billing can reach, whatever the network tells.                          *)
THEOREM JudgementsAgree == Spec => []ReportMatchesEntitlement
<1>1. TypeOK => ReportMatchesEntitlement
  <2> SUFFICES ASSUME TypeOK, NEW t \in Attached, NEW network \in NetworkReports
               PROVE  /\ "PAID_BUT_NOT_AUTHORIZED" \in Issues(t, network) <=>
                           Entitlement(t) = "ACTIVE" /\ ~network.authorized
                      /\ Issues(t, network) \cap Access # {} <=>
                           Entitlement(t) \in {"SUSPENDED", "PENDING"} /\ network.authorized
    BY DEF ReportMatchesEntitlement
  <2> DEFINE status == payment[t].status
  <2>1. /\ t \in Txns /\ status \in PaymentStates /\ payment[t].sub # NoSub
        /\ network.authorized \in BOOLEAN
    BY DEF Attached, TypeOK, NetworkReports
  <2>2. "PAID_BUT_NOT_AUTHORIZED" \in Issues(t, network) <=>
          status \in {"VERIFIED", "SETTLED"} /\ Running(payment[t].sub) /\ ~network.authorized
    BY DEF Issues, FinanciallyValid
  <2>3. Issues(t, network) \cap Access # {} <=>
          status \notin {"VERIFIED", "SETTLED"} /\ network.authorized
    BY DEF Issues, FinanciallyValid, Access
  <2>4. /\ Entitlement(t) = "ACTIVE" <=>
             status \in {"VERIFIED", "SETTLED"} /\ Running(payment[t].sub)
        /\ Entitlement(t) \in {"SUSPENDED", "PENDING"} <=> status \notin {"VERIFIED", "SETTLED"}
    BY <2>1 DEF Entitlement, PaymentStates
  <2>5. QED
    BY <2>2, <2>3, <2>4
<1>2. QED
  BY <1>1, BillingTypes, PTL
=============================================================================
