# Jaslyn in TLA+

Models, model checks and proofs of the parts of Jaslyn that carry its logic: the
approval queue, the agent runtime and the stores behind it; the billing, RADIUS
accounting, reconciliation, session disconnection and provider adapters of Jaslyn
Net; operator accounts and API keys; the communication centre and the pages that
show it and the network; and the JasLang interpreter. Paths are relative to the
repository (`src/` below is the repository's own source directory).

## 1. The system and its parts

| Part | State it keeps | Operations | Who else touches it |
| --- | --- | --- | --- |
| Approval store, `src/benchmark/approval-store.mjs` | `approvals.json`, a lock directory, the records of each instance | `load`, `create`, `decide`, `claimApproved`, expiry, trimming | every request builds its own instance; processes share the file |
| Agent runtime, `src/benchmark/runtime.mjs`, `provider-registry.mjs`, `concurrent-engine.mjs`, `tool-protocol.mjs` | one run: iteration, health cache, executed call keys, tool results | `run`, `fanout`, failover, `executeApprovedApproval` | creates approvals, appends to run history and memory |
| Run history and memory, `run-store.mjs`, `memory.mjs` | a JSON file and a lock directory each | `append`, `remember`, `load`, `list` | called at the end of every run |
| Approval route, `app/api/approvals/[id]/route.js` | none | decide, then execute what was approved | store and runtime |
| Billing, `src/net/payments.mjs`, `lifecycle.mjs`, `db.mjs`, migrations 001-005 | payments, subscriptions, authorizations, invoices, allocations, events | `recordPaymentEvent`, `verifyPaymentEvent`, `activateVerifiedPayment` | callbacks, operators and provider, each in one transaction |
| RADIUS accounting, `src/net/accounting.mjs`, `radius/accounting-server.mjs` | accounting events and sessions | receive, persist, respond | the NAS over UDP |
| RADIUS codec, `src/net/radius/codec.mjs` | one datagram being parsed | `parseRadiusPacket`, `verifyAccountingRequest`, `getAccountingEvent` | the accounting server, before anything is stored |
| State tables and reconciliation, `src/net/state.mjs`, `reconcile.mjs` | none | `transition`, `deriveEntitlement`, `reconcilePaymentAccess`, `createCommand`, `applyCommandResult`, `reconcileDesiredActual` | billing uses the payment table; `POST /api/net/reconcile` the report |
| Session disconnection, `app/api/net/sessions/disconnect/route.js`, `src/net/providers/mikrotik-rest.mjs` | sessions on the router | remove, then poll the lists until the session is gone | operators; clients that come and go |
| Omada adapter, `src/net/providers/omada-openapi.mjs` | the access token | `authenticate`, `request`, `getPagedData` | no route shares one: `src/net/runtime.mjs:27` builds an adapter for each call; its cached token and `tokenPromise` are for callers that share it |
| Operator accounts, `src/net/auth.mjs`, migration 006 | users, sessions | `registerOperator`, `authenticateOperator`, `createSession`, `getSession`, `revokeSession` | the `app/api/auth` routes |
| API keys, `python/jaslyn_tools.py`, `src/bridge/python-runner.mjs` | `api_keys` in SQLite | create, list, revoke, verify, each in a worker process | `app/api/keys`, `app/api/run`, `app/api/chat` |
| Communication centre, `src/communication/store.mjs`, migration 007 | conversations, members, messages, read marks | `createConversation`, `createMessage`, `markConversationRead` | the `app/api/communication` routes |
| Communication page, `app/communications/page.jsx` | what is selected and what is shown | load, select, send | those routes |
| Network dashboard, `app/net/page.jsx`, the overview and health routes | the evidence on the screen | a refresh at mount and every 15 s | the network provider |
| JasLang, `python/jaslang.py` | program, steps, the Python stack | `run`, `execute_block`, `invoke` | one interpreter per program |
| Policy, self-hosted provider, memory tools, catalog, static pages, scripts | none, or files of one process | pure functions, reads, start-up | |

What is hard in them:

* **Concurrency on files.** Approvals are read, changed and rewritten whole; the
  mutual exclusion is a directory, and `load()` writes without it.
* **Concurrency on rows.** Billing and messages rely on row locks and unique
  indexes; accounts rely on a check that no index backs.
* **Requests that overlap an await.** A password is verified between the check of
  the lock and the failure count; a token is renewed while others use it; a tool
  runs between the consumption of its approval and the history record.
* **Failure.** A process dies holding a lock; a lock is taken for too long; a write
  fails, or succeeds and the release after it fails; a transaction rolls back or is
  a deadlock victim; a tool outlives its timeout; an answer 200 is not what was
  asked for.
* **Delivery.** Datagrams and callbacks are lost, repeated and reordered; a router
  acts and its answer is lost; answers reach a page in an order that is not the
  order of its requests.
* **Bytes.** Lengths in a datagram are whatever the sender wrote.
* **Control flow.** The agent loop and the interpreter have limits that must stop
  whatever they are given, and signals that leave several levels at once.

`PROJECT.json` lists each hazard at its line, with the properties that watch it.

What makes each part correct: an approval is granted before it is claimed,
claimed once, and not forgotten in between; an approved action is executed at most once and the history does not
invent success; an agent run repeats no side effect, runs nothing the policy denies
and ends; a payment is applied once and buys its full time, an invoice balances;
an answered accounting event is persisted and a session shows what its events say;
a lock bounds the wrong passwords; messages are numbered without gaps; a refused
request is retried with a newer token; an acknowledged record is in its file; a
datagram is read as the bytes it has; what is reported as disconnected is gone; a
revoked key admits nobody; a page shows what it names; JasLang's blocks nest.

## 2. The modules

| Module | Models | State and actions against the code |
| --- | --- | --- |
| `ApprovalLifecycle` | the abstract promise of the approval store | `status` and `wins` per approval; no file, lock or clock |
| `ApprovalStore` | `JsonApprovalStore` and its callers | an actor is one call on one instance; a step is what runs between two file system awaits. `file` is the JSON, `records` is `this.records`, `lock` who made the directory. `LoadRead`/`LoadPersist` are `load()` without the lock, `Acquire` ... `Release` the steps of `#mutate()` |
| `ApprovedExecution` | the approval route and `executeApprovedApproval()` | `pc`/`target` per request; composed with the lifecycle by `INSTANCE ApprovalLifecycle`. A call of the store may be refused as busy or fail before its write (`ClaimFails`), fail in the release after it (`DecideUnreleased`, `ClaimUnreleased`), or leave the lock to nobody (`LockLeft`, `orphaned`) |
| `AgentRun` | `BenchmarkRuntime.run()` and `fanout()` | one run: candidates, health cache, call queue, executed keys, result counts, history record; an answer is its calls, whether some are malformed, and whether it has a summary, steps, or a request for approval |
| `AppendStore` | `JsonRunStore` and `JsonMemory`, which are the same code | a writer is one request with its own instance. `Open` is `initialize()`, `MakeLock`/`GiveUp` the loop of `#acquireLock()`, `Reload` ... `RemoveLock` the body of `append()` and its `finally`. `log` is history only |
| `StateTables`, `Billing` | the transition table; the three payment transactions | a step takes a row lock or commits; `paymentLock`, `subLock`, `inserting` are the locks of PostgreSQL, what a transaction writes appears at its commit. What names a subscription waits for its row (`Insert`, and `Merge` when it attaches one) |
| `Accounting` | NAS, network, message handlers, the accounting transaction | datagrams stay deliverable, so loss, copies and reordering are choices of delivery; the event row, the session row and the response are separate steps |
| `RadiusCodec` | parsing, verification and the event of one datagram | one step per turn of the attribute loop; a byte is a small number and sizes are parameters; a digest is the term of its inputs; `OptionalAttrs` are the attributes whose length is checked only if they are there |
| `Reconciliation` | `deriveEntitlement`, `reconcilePaymentAccess` | operators over the variables of `Billing`, which it extends: they are asked in every state that billing reaches |
| `SessionDisconnect` | the disconnect route and the MikroTik adapter under it | `stand` is where a request is, `online` what the router has; both lists are asked for at once and arrive in any order. A request whose type does not go with its id names `NoSession` |
| `Accounts` | registration, login, lockout, sessions and their use | one step per statement or transaction; scrypt runs in between; `FindSession` and `Touch` are the two statements of `getSession()` |
| `Conversations` | conversations, messages, read marks | the sequence function, the insert that waits on the unique index, the commit |
| `ApiKeys` | the key tools, their worker processes and the routes that wait | `Spawn`, `Run` (one committed statement), `Exit`/`WorkerFails`, `Reply` |
| `CommunicationsPage` | the page of the communication centre | `loads[k]` counts the calls of `loadConversation(k)` under way; none is aborted |
| `Dashboard` | `refresh()` of the page, `GET /api/net/overview` and `/health` | a refresh is one call; the overview probes the health first and reads the lists later, if the configured `source` has sessions |
| `OmadaProvider` | the token and paged reads of an Omada adapter and the callers that share it | `tokenPromise` is `fetching`; a step is what runs between two awaits. `ReceiveNoList` is an answer 200 of which `asList()` makes no row, or one |
| `JasLang` | control of the interpreter | the Python stack is a sequence of activations of `execute_block()`; a line is its kind of statement; conditions and array lengths are free, any expression may fail, and the condition of a `while` may call (`CallInCondition`) |
| `*_proofs` | theorems about the module they are named after; `Access_proofs` about `Accounts` and `ApiKeys`, `Console_proofs` about the five modules that `MCConsole` adds up, `ApprovedExecution_proofs` also about `AppendStore`, `Accounting_proofs` also about `RadiusCodec` | section 5 |
| `MC*` | instances for TLC | small sets, programs, callbacks, answers, datagrams |

Components that share no state and call each other only through an answer that
both models already leave open are checked in one run as a **sum**:
`MCApprovedExecution` (with the file its histories go to), `MCAccounting` (with the
codec), `MCAccounts` (with the keys) and `MCConsole` (messages, page, dashboard,
disconnection, Omada). One component takes steps while the others are in their
initial states. Each invariant is then asked in every state of its own component,
and nothing is lost, because no step of one could enable or disable a step of
another. Fairness stays that of each component alone: in its initial state none of
its fair actions is enabled (they belong to requests that have begun, or to a page
that is open), so a component that is not running owes nothing.

A definition named "Mutant of X" is a faulty form of X that shows that a property
depends on X; nothing else refers to it.

How they interact: the runtime creates approvals, the route decides and claims
them. `ApprovedExecution` uses the lifecycle, not the store. The store implements
the lifecycle only **up to** the race of `load()` (run `approval_store`), so
`ExecutedAtMostOnce` speaks of the system where that race does not happen; with it
an approval can be claimed, and hence executed, twice (run `approval_replay`).
Accounting and billing share the tables of Jaslyn Net but no row both write.

## 3. The runs

| Run | Question | Bounds | States |
| --- | --- | --- | --- |
| `approval_store` | Does the store implement the lifecycle, and does every call return? | 2 callers, 2 approvals, 2 records, TTL and clock 1, 1 crash | 273,792 |
| `approval_replay` | Is an approval consumed only once? **No**: code bug | the same | until violated |
| `agent_run` | Does a run end, repeat no side effect, and record what happened? | 2 providers, 4 calls (free, protected, denied, unknown tool), 8 answers, 3 iterations | 6,687 |
| `agent_failover` | Does a run give up only if no provider would answer? **No**: code bug | the same | until violated |
| `agent_verified` | Is a run with a blocked tool unverified? **No**: code bug | the same | until violated |
| `approved_execution` | Is an approved action executed once and recorded truly, and a grant pursued? Is an acknowledged record in the file, and does every append end? | 2 requests, 2 approvals, 1 failure; 3 writers, 2 records, 2 faults | 26,770 |
| `billing` | Do concurrent callbacks, verifications and activations keep money and time straight, and do entitlement and report agree? | 2 clients, 2 payments, 1 subscription, 2 invoices, validity 1, clock 1 | 217,909 |
| `accounting` | Is every answer backed by a write, whatever the network does? Does the parser read exactly the datagram? | 1 session of 3 events, 2 handlers, 1 failure, clock 1; every list of up to two attributes or fragments, alone or after a complete request, with the declared length one off either way | 74,620 |
| `radius_signed` | Is a request with a Message-Authenticator accepted? **No**: code bug | the same datagrams | until violated |
| `accounts` | What gets past the lock, when do accounts share an address, does a revoked key admit anyone? | 2 clients, 1 address, 2 accounts, 2 sessions, limit 2; 2 callers, 2 keys and an unknown one, 2 dead workers | 540,245 |
| `console` | Are messages numbered and dated consistently? Does the page show what it names, the dashboard the network? Is what is reported as disconnected gone? Do refused reads end with a newer token and a whole list? | 2 clients, 3 users in 2 organizations, 2 messages; 3 conversations listed, 2 loads of each; 4 sources, 2 refreshes, 1 change, 1 loss; 2 operators, 2 sessions, 2 polls, 1 fault; 2 callers, lists of 3 and 4 rows, 2 pages of 2, 2 revocations | 322,367 |
| `jaslang` | Do the blocks of every program nest, and does it end? | every program of 1 to 4 lines over 8 kinds, 8 longer ones, 12 steps, depth 6 | 16,291 |

Why the bounds are enough: each of these hazards needs two actors, so two callers,
handlers or requests show it; a third only queues behind them. Three writers of a
file that keeps two records make the bound bite while two of them overlap, and two
faults let one leave the lock behind and another fail. With two approvals and room
for two records, `approval_store` never trims its file; a third approval is beyond
what TLC reaches in minutes. Trimming is covered by `LifecycleIsImplemented`, which
is proved for every number of approvals and records, and by `ApprovedExecution`,
where the lifecycle drops any oldest prefix. One failure strands a grant, and one
that leaves the lock behind every later grant, too. Two payments and two invoices
make a partial payment, an exact settlement and the choice of the next open invoice.
Three events per session order a `Start`, an `Interim-Update` with larger counters
and a `Stop` with smaller ones in all ways. In the codec a header has two bytes, an
integer and an authenticator one: every comparison of the loop has then a body that
meets it, one below and one above. Three conversations and two loads of each let an
answer be overtaken by that of another conversation and by one of its own. One
hotspot and one PPPoE session make both lists matter; two polls are a first and a
last. Lists of three and four rows end with a short page and fill the last page
allowed. A clock of one or two ticks puts every deadline before or after any step.
Where a theorem exists, the bound is only the model checker's.

The four runs that fail say what the code does and a document, comment or test
says otherwise:

* `approval_replay`: `load()` (`approval-store.mjs:28`) writes its whole snapshot
  without the lock. It can overwrite "consumed" with the "approved" it read
  before, and the approval is claimed again.
* `agent_failover`: `ProviderRegistry.list()` drops `reason()`, and every candidate
  but the explicitly requested one comes from `list()`.
* `agent_verified`: `verifyOutcome()` forgets blocked calls unless the last answer
  asks for approval.
* `radius_signed`: `verifyAccountingRequest()` (`codec.mjs:133`) computes the
  Message-Authenticator over the packet with the Request Authenticator in it, which
  in turn is a digest over the Message-Authenticator. A client that signs in the
  only order possible is rejected; `README.md:76` promises the opposite.

### Fairness

Weak fairness of a handler's own steps stands for "its awaits settle": the file
system answers, timers fire, a provider, tool or router resolves or is timed out
(`AppendStep`, `DisconnectStep`, `CallStep`, `Progress`). The interval of the
dashboard fires (`Interval`). Strong fairness is used where the code queues on
something that becomes free again and again: `Billing` and `Conversations`
(PostgreSQL serves the waiters of a row or of an index entry in the end) and
`Accounting` (a request that is sent again and again is received in the end).
`MCAccounting` adds that the codec, a synchronous function, does not keep the NAS
from its first send for ever. `Accounts`, `ApiKeys`, `CommunicationsPage` and
`RadiusCodec` have no liveness property in a run; a Python worker has no timeout
(`python-runner.mjs:5`), so nothing promises that a route that waits for one
answers. The clock, crashes, failures, new requests, changes of the network and
revocations are never fair.

`CHECK_DEADLOCK FALSE` is set where the model stops on purpose: a run, a program or
the list of a session's events ends, or every bound is used up.

## 4. What the properties leave open

These are effects of the code that no property forbids. They are in the models
unless it says so. Four of them contradict a promise of the repository, which is
quoted; no run states these promises, because the lines named show the divergence
without a model.

* A grant is stranded when the process dies between `decide()` and `claimApproved()`,
  when the release of the decision fails after its write, or when the claim finds the
  store busy or cannot read or write its file. The record does not expire, deciding
  again is refused (line 73), nothing executes it, although the message of
  `approval-store.mjs:152` says "retry the approval decision". `GrantIsPursued` says
  that nothing else strands a grant, and `EveryGrantIsClaimed` excuses those that are.
* A tool that is withdrawn after the approval is noticed only after the approval was
  consumed (`runtime.mjs:132-135`): nothing is executed and nothing is appended, although
  `README.md:59` says that approved actions are "claimed once, executed from the
  persisted action record, and written to run history". `StartedIsRecorded` is about
  actions that were started.
* The history variable `raced` of `ApprovalStore` is set whenever `load()` writes a
  snapshot that the file has moved on from or while a mutation is under way, two
  overlapping `load()` calls included: `ClaimedOnceUnlessRaced` and
  `ImplementsLifecycle` excuse slightly more than the race that does harm.
* An answer that asks for approval and has only malformed tool calls is not blocked:
  they count as calls at `runtime.mjs:68` and are dropped at line 74.
* A tool that completed is recorded as failed when the append of its success
  throws. `HistoryIsTrue` allows this direction only.
* A payment that exceeds what the first open invoice still asks can never be
  verified, even if a later invoice would take it; a callback that repeats the
  status of an unattached payment does not attach it; a payment that carries a
  foreign correlation id can be verified but never activated.
* A payment reversed after activation keeps its time and authorization.
  The callback route always records `PENDING`; a reversal reaches the tables only
  through `recordPaymentEvent()` itself, which the run does.
* Two idle interim updates with equal counters have one fingerprint: the second
  counts as a duplicate and does not move `last_accounting_at`.
* Access that outlives a paid term is reported as consistent: the report compares
  the payment with the network and asks for the term only where access is missing
  (`reconcile.mjs:7`), although `docs/architecture.md:37` calls it a comparison of
  "financial, entitlement and network state". `ReportMatchesEntitlement` states it
  as the code has it.
* An answer of the router that is 200 without rows (empty, or not JSON, see
  `mikrotik-rest.mjs:58`) counts as an empty list: a disconnection is then "verified"
  although the session is there, and `docs/architecture.md:44` says that disconnects
  "are verified against the router after execution". `VerifiedIsGone` excuses exactly
  this. A removal whose answer is lost is a 502 although the session is gone, and so is
  its retry, and so is a request whose type does not go with its id.
* An answer 200 of the Omada controller, or of what stands before it, that is empty,
  not JSON or without `result.data` counts as a page with no row or one
  (`omada-openapi.mjs:127`) and ends the list; `getPagedData()` returns what it has.
  `ListsAreComplete` excuses exactly a call that was answered so. A list that changes
  between two pages is read inconsistently; the model has a list that does not change.
* An answer for a conversation that is no longer selected is shown when it comes in
  last, and `send()` posts to the selected one. `ShownIsSelected` excuses it, and a
  load that failed, and nothing else.
* A refresh that fails leaves the older evidence on the dashboard (`page.jsx:96`), beside
  a LIVE mark, and one that was slow may put older evidence back, although line 129 of
  the same file says that "stale evidence is not presented as live".
  `DashboardCatchesUp` asks only that the page comes right in the end. The health of the
  database, which the overview and health routes also report, is left out of the model.
* A lock directory of the run store or the memory that was left behind stays for
  ever: every later append is rejected. `EveryAppendEnds` says that it is rejected.
* Two registrations of one address that overlap both succeed; the unique index is
  per organization and each registration founds one. `AccountsAreDistinct` says
  that this is the only way.
* The lock of an account does not stop logins that are already verifying a
  password, and a wrong password whose UPDATE fails (`auth.mjs:92`) is not counted, nor
  is it one of the guesses of the property. `GuessesAreBounded` says how many get
  through.
* `markConversationRead()` moves a mark back for an older message and clears it
  for an unknown number.
* A `while` without a line in its body never ticks: `EveryProgramEnds` excludes
  it. An `else if` branch is never executed. A `break` or `continue` in a function
  leaves the function and acts on a loop of its caller. The condition of a `while` may
  call in the model, once each time it is evaluated; a call in any other expression is
  a line of its own, and an expression with several calls as many lines.

## 5. What is proved

TLAPS checks the following for every value of the constants, under the assumptions
named in the modules, which TLC evaluates in the runs: `BoundsAssumption` and
`ActorsAssumption` (approval store), `ExecutionAssumption`, `StoreAssumption`,
`AgentAssumption`, `BillingAssumption`, `ReportAssumption` (accounting),
`CodecAssumption`, `AccountsAssumption`, `KeysAssumption`, `ConversationsAssumption`,
`PageAssumption`, `DashboardAssumption`, `DisconnectAssumption`, `OmadaAssumption`,
`JasLangAssumption`. They say that counts are natural numbers, that names which stand
for nobody or nothing are no actors, and which shape an input has (a report is a
sequence of packets, a body a sequence of bytes). A safety property whose constants
are left open is stated of every system of this shape, however many actors it has.

Every invariant that a run checks is also the statement of a theorem.

| Theorem | Says | Argument |
| --- | --- | --- |
| `TypeCorrect` | types of `ApprovalStore` | inductive as it stands |
| `GrantedBeforeClaimed` | `OnlyGrantedClaimed`, races and crashes included | `GrantInv`: whatever snapshot shows "approved" or "consumed" (file, instance, or about to be written) belongs to an approval whose grant has reached the file, or to the caller that is about to write it |
| `SingleClaim` | `ClaimedOnceUnlessRaced` | `LockInv` (a caller in its critical section made the lock) gives one writer; `ClaimInv`: until a race, the file, every snapshot under the lock and every `load()` that the file has not outrun know of all claims; `KnownIds` keeps new identifiers fresh |
| `LifecycleIsImplemented` | `ImplementsLifecycle` | `RefInv`: until a race, the file is within its bound and holds only what was created (`FileInv`), and every copy that is about to be written, but by a `load()` that the file has outrun, is the file with some approvals expired, or what the mutator of its caller has made of it (`CopyInv`). Then each step that writes is one step of `ApprovalLifecycle`, one that does not is a stutter, and the race itself is where the property ends |
| `ExecutionTypes` | types of `ApprovedExecution` | inductive as it stands |
| `ExecutedOnce` | `ExecutedAtMostOnce` | `ExecutionInv`: a claimed approval is consumed for good (`ClaimedInv`), so at most one request comes to own it, and only an owner starts the tool (`OwnerInv`) |
| `HistoryOfApprovedActions` | `HistoryIsTrue` | the same invariant: the history has nothing of an approval whose owner has not appended, and "completed" is appended by an owner whose tool resolved |
| `StartsAreRecorded` | `StartedIsRecorded` | `RecordedInv`: what was started is in the history, excused, or named by a request that is still going to append it |
| `GrantsArePursued` | `GrantIsPursued` | inductive with the types: only a decision makes a grant, and its request goes on to the claim in the same step; only that request claims it, and if it fails or dies the grant is stranded |
| `StoreTypes` | types of `AppendStore` | inductive as it stands |
| `FileTellsTheStory` | `FileTellsTheOutcome` | `StoreInv`: who is between `mkdir` and `rm` made the lock; what the holder is about to write is the newest of the history and its own record; a record is in the history exactly from the rename on. Lemmas `NewestKeepsTheLast`, `NewestOfAppend`: dropping the oldest before and after a push keeps what dropping them once keeps |
| `SideEffectsAreOnceAndAllowed` | `SideEffectsOnceAndAllowed` | `RunInv`: the queue holds each call once, and none that ran (`QueueInv`); what ran was seen and is allowed. Lemma `FreshIsFresh`: the fold that filters the calls of an answer keeps each new one once and none that was seen |
| `HistoryIsTrue` | `HistoryTellsTheRun` | the same invariant: every call seen waits or is counted in one of three counters (`CountInv`), and the status says which of them moved (`StatusInv`) |
| `BillingTypes` | types of `Billing` | with `RequestInv`: the row that a transaction has read is still there, the one it inserts is still missing, because the key in the unique index is its own |
| `PaymentsAreSpentOnce` | `MoneySpentOnce` | `MoneyInv`, the property without the cardinality; `CommitMoves`: each of the four commits is a rollback or moves one payment; the table of transitions never leads out of what was spent |
| `PaymentsActivateOnce`, `NoValidityIsLost` | `EachPaymentActivatesOnce`, `EveryPaymentBuysItsValidity` | `ActivationInv`: per subscription the events are as many as the version counts, one for each payment applied to it, and the expiry is at least the validity times their number (`TermInv`); a payment that is not attached has applied nothing. The lock on the subscription makes version and expiry move together |
| `InvoicesAreBalanced` | `InvoicesBalance` | `BalanceInv`; one more allocation adds its amount to the sum (`SumOfOneMore`), by induction over finite sets |
| `JudgementsAgree` | `ReportMatchesEntitlement` | case analysis over the types of `BillingTypes` |
| `AccountingTypeCorrect` | types, with those of packets in work | `Busy` |
| `WriteBeforeAnswer` | `AnsweredIsPersisted` | a handler that is about to respond finds its event in the table; rows are never removed |
| `SessionsReflectTheirEvents` | `SessionReflectsItsEvents` | `InsertInv`: only one transaction at a time inserts an event, and only one that has no row; lemma `MergedReflects`: merging one more event keeps a row equal to what its events say |
| `ParserReadsTheDatagram` | `ParserIsExact` | `ParseInv`: what was read encodes to the bytes up to `offset`, and where the whole can be divided into attributes the rest can (`PrefixInv`); how far the handler has come says what it found (`FoundInv`). Lemmas on `FlattenSeq` and `Divisible`, both functions that are defined by recursion: there is one, it is unique, and one more attribute appends its bytes |
| `AccessTypes` | `TypesOK` of accounts and keys | inductive as it stands |
| `OneAccountForAnAddress` | `AccountsAreDistinct` | `DistinctInv`: but for the addresses whose registrations overlapped, an address is registered once, and who is about to insert one is the only one and has found it free |
| `GuessingIsSlow` | `GuessesAreBounded` | `GuessInv`: the row counts the guesses and is locked from the limit on; those guesses, with the requests that have passed the check and are verifying while the lock holds, fit into the lock periods up to the end of the last lock (`Covered`); an account that does not exist has not been guessed at (`RowInv`) |
| `RevokedKeysStayOut` | `RevocationHolds` | `KeysInv`: a key is created by one worker, which finds it absent (`SuppliedInv`); what is barred stays revoked, and what a worker found valid was not barred (`BarredInv`); of all workers and answers one has revoked a key (`RevokedInv`) |
| `ConsoleTypes` | `TypesOK` of the five console modules | inductive, with the answers on their way |
| `NumbersHaveNoGap`, `ListIsOrderedByItsMessages` | `SequencesAreContiguous`, `ListShowsLastMessage` | `NumbersInv`: the committed numbers are 1 to their count, and the one that a transaction holds in the unique index is the next one |
| `PageIsHonest` | `ShownIsSelected` | inductive together with the types |
| `RetriesAreWorthIt` | `RetryUsesNewerToken` | `OmadaInv`: a request that waits for a token was refused only with issued ones, all older than the one it will get, and one about to send holds a token newer than every one it was refused with (`LuggageInv`); a renewal is owed only while there is no token and none is asked for (`RenewalsInv`) |
| `ReturnedListsAreComplete` | `ListsAreComplete` | `ReadInv`: what was read is all pages before the next one, unless an answer 200 without a list came in between, which is remembered (`listless`) and is the one exception of the property |
| `DisconnectedIsGone` | `VerifiedIsGone` | `EvidenceInv`: once the list of its type has come with rows and without it, the session is gone, and those that are gone do not come back; 200 is answered after both lists only |
| `ConsoleIsSafe` | types and all invariants of `console`, of the sum that the run checks; that of the lists with its one exception | a step of the sum is a step of one component and a stutter of the others |
| `InterpreterTypes` | `TypeOK` of `JasLang` | part of `JasInv` below: that a line number is one needs to know what `find_end()` returns |
| `BlocksAreNested` | `BlocksNest` | `JasInv`: every activation stands at a line of its block which lies in the function that it runs (`FrameOk`), and ends before the block it was entered from (`Follows`). The theory of blocks: the depth of openers and ends adds up (`DepthAdds`), a block ends at the first line where it is zero (`FindEndIs`), what is opened inside ends inside (`InnerEndsFirst`), so going to the next line, past a block, or into a branch changes no function (`SameScope`), and signals only shorten the stack (`CutIsOk`, `MoveIsOk`) |

Most properties are not inductive because what matters is in flight: the snapshot an
instance is about to write, the request that has claimed and not yet started, the
handler between insert and commit, the answer of a list that was asked for too early.
The invariants are the properties extended to those.

Where a definition folds over a set or a sequence (the sum of an invoice, the calls
of an answer, the bytes of attributes), the induction is over the finite sets or the
numbers themselves: a set of counterexamples that is not empty has a least one
(`LeastNumber`, `SubsetInduction`, from the well-foundedness of the subset order). The
induction theorems of the library, which take a predicate, cannot be used by the
provers at hand.

Only model-checked: liveness (`EveryCallReturns`, `EveryRunEnds`,
`EveryGrantIsClaimed`, `EveryAppendEnds`, `EveryTransactionEnds`,
`EveryEventIsAnswered`, `EveryPostIsAnswered`, `EveryNetworkCallEnds`,
`DashboardCatchesUp`, `EveryProgramEnds`), which needs fairness and hence ENABLED,
beyond these provers; and the four violations. Most type invariants are proved and
not repeated in the runs. The full types of `AgentRun` (`TypeOK`) are neither
checked nor proved as a whole; `WorkTypes` has the part that its theorems need.

## 6. What is not modelled, and why

* The self-hosted provider: its health and answers are those of any provider of
  `AgentRun`. Scripts and start-up; the static pages; the catalog, `runs` and
  `providers` routes, which read only.
* `compileNetworkPolicy`, `compileRadiusMikrotik` and `reconcileDesiredActual`
  convert one input into one output: a model would say the same thing twice.
  `createCommand` and `applyCommandResult` are called by tests only; `StateTables`
  has their table.
* The memory tools of `python/jaslyn_tools.py`: single SQLite statements, no two of
  which depend on each other. Language detection and the model server.
* The gate of the disconnect route: it imports `hasSecret` from `src/net/auth.mjs`,
  which does not export it, so the route cannot run as it stands;
  `SessionDisconnect` is the handler behind the gate. The same import is in the
  routes for accounting ingestion and for the payment callback, verification and
  activation; for these the functions they call are modelled, which the accounting
  server and the tests call too. `app/api/net/catalog/route.js:36` does not parse.
* In the codec: the decoding of text, and attributes that are only copied into the
  event. Collisions of digests: they are terms, equal when their inputs are.
* In the MikroTik and Omada adapters: the mapping of rows to fields.
* The search field of the communication page, which hides rows of the list but
  selects nothing.
* Row locks, unique indexes, deadlock detection, the NAS and the controller are
  modelled from how the code uses them.
* Values of JasLang (an expression has one or fails), message texts, prompts, passwords and hashes.
* Organizations: only `registerOperator()` inserts users, each in an organization
  of its own; users that share one are provisioned outside the code (`OrgOf`), and
  their `status` is always `ACTIVE`.

## 7. Plan

The order followed: approval store and its abstract lifecycle, agent run, execution
of approved actions, billing, accounting, JasLang, accounts, messages, Omada; then
the append stores, the codec, reconciliation, API keys, disconnection and the two
pages; then the proofs, component by component, until every invariant of the runs had
a theorem. What is left is to state more than the runs do:

1. Action properties that follow from the invariants: that no decision, consumption,
   revocation or disconnection is taken back.
2. The sums of `MCApprovedExecution`, `MCAccounting` and `MCAccounts`, as
   `ConsoleIsSafe` has it for `MCConsole`.
3. That `EventOk` accepts exactly the packets whose event the accounting can store.
