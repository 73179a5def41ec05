SPECIFICATION FairSpec
CONSTANTS
  s1 = s1
  t1 = t1
  t2 = t2
  Clients = {c1, c2}
  Txns = {t1, t2}
  Subs = {s1}
  Invoices = {1, 2}
  InvoiceSub <- MCInvoiceSub
  Total <- MCTotal
  Amount <- MCAmount
  Price = 2
  Validity = 1
  Callbacks <- MCCallbacks
  GivenCorrs = {NoCorr, s1}
  MaxTime = 1
  NoSub = NoSub
  NoCorr = NoCorr
  Foreign = Foreign
  Nobody = Nobody
INVARIANTS EachPaymentActivatesOnce EveryPaymentBuysItsValidity InvoicesBalance MoneySpentOnce ReportMatchesEntitlement
PROPERTIES EveryTransactionEnds
