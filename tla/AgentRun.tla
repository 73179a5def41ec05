------------------------------ MODULE AgentRun ------------------------------
(***************************************************************************)
(* BenchmarkRuntime.run(): an agent loop that asks a provider what to do,  *)
(* fails over to the next one, and runs, blocks or refuses the tool calls  *)
(* of the answer, until an answer has no new call. Providers, tools and    *)
(* the three JSON stores fail or time out as they like.                    *)
(***************************************************************************)
EXTENDS Integers, SequencesExt

CONSTANTS
  Registered,      \* provider ids in the order of their registration
  Tools,           \* names of the registered tools
  Denied,          \* policy.deny
  Protected,       \* policy.approvalRequired and tools with requiresApproval
  Calls,           \* call keys: a tool name and its input
  Tool,            \* Tool[c]: the tool named by call c
  Answers,         \* what provider.reason() may return, normalized
  MaxIterations,   \* maxIterations
  NoProvider,      \* no providerId is given
  None             \* no answer yet, no history record yet

(* ProviderRegistry.register()                                             *)
Providers == Range(Registered)

ASSUME AgentAssumption ==
  /\ Registered \in Seq(Providers) /\ Registered # <<>>
  /\ MaxIterations \in Nat \ {0}
  /\ NoProvider \notin Providers
  /\ \A a \in Answers : /\ a.calls \in Seq(Calls)
                        /\ {a.malformed, a.needsApproval, a.says, a.steps} \subseteq BOOLEAN

VARIABLES
  pc,          \* where run() stands
  requested,   \* options.providerId
  reliable,    \* environment: providers that are healthy and answer in time
  index,       \* the candidate #reasonWithFailover() is at
  iteration,
  health,      \* healthCache
  answer,      \* finalReasoning
  stepped,     \* some answer so far proposed steps
  queue,       \* the new calls of this iteration still to handle
  seen,        \* executedCallKeys
  runs,        \* runs[c]: times tool.execute() was called for c
  outcome,     \* how many tool results are ok, failed and blocked
  approvals,   \* calls stored in the approval queue
  status,
  exhausted,   \* history: #reasonWithFailover() found no provider
  record       \* what runStore.append() stored of this run

vars == <<pc, requested, reliable, index, iteration, health, answer, stepped, queue, seen,
          runs, outcome, approvals, status, exhausted, record>>
given == <<requested, reliable>>
search == <<index, health, exhausted>>
heard == <<answer, stepped>>
work == <<queue, runs, outcome, approvals>>

Init ==
  /\ pc = "idle"
  /\ requested = NoProvider /\ reliable \in SUBSET Providers
  /\ index = 1 /\ iteration = 1
  /\ health = [p \in Providers |-> "unknown"]
  /\ answer = None /\ stepped = FALSE
  /\ queue = <<>> /\ seen = {} /\ runs = [c \in Calls |-> 0]
  /\ outcome = [completed |-> 0, failed |-> 0, blocked |-> 0]
  /\ approvals = {} /\ status = "completed" /\ exhausted = FALSE
  /\ record = None

(* #providerCandidates: the requested provider first, if there is one.     *)
Candidates ==
  IF requested = NoProvider THEN Registered
  ELSE <<requested>> \o SelectSeq(Registered, LAMBDA p : p # requested)

(* registry.list() drops the reason() function of what it returns; only    *)
(* registry.get(), used for the requested provider, keeps it.              *)
HasReason(p) == p = requested

Start(p) ==
  /\ pc = "idle"
  /\ requested' = p
  /\ pc' = "provider"
  /\ UNCHANGED <<reliable, search, iteration, heard, work, seen, status, record>>

-----------------------------------------------------------------------------
(* #reasonWithFailover                                                     *)

Searching == pc = "provider" /\ index <= Len(Candidates)
Candidate == Candidates[index]

(* provider.health() resolves, or rejects or times out.                    *)
CheckHealth(up) ==
  /\ Searching
  /\ health[Candidate] = "unknown"
  /\ Candidate \in reliable => up
  /\ health' = [health EXCEPT ![Candidate] = IF up THEN "up" ELSE "down"]
  /\ UNCHANGED <<pc, given, index, exhausted, iteration, heard, work, seen, status, record>>

(* A provider that failed once is not tried again in this run.             *)
SkipUnhealthy ==
  /\ Searching
  /\ health[Candidate] = "down"
  /\ index' = index + 1
  /\ UNCHANGED <<pc, given, health, exhausted, iteration, heard, work, seen, status, record>>

(* Mutant of ReasonFails: the provider is asked again after a while.       *)
ReasonRetries ==
  /\ Searching
  /\ health[Candidate] = "up"
  /\ Candidate \in reliable => ~HasReason(Candidate)
  /\ health' = [health EXCEPT ![Candidate] = "unknown"]
  /\ UNCHANGED <<pc, given, index, exhausted, iteration, heard, work, seen, status, record>>

(* provider.reason() rejects, times out, or is not a function.             *)
ReasonFails ==
  /\ Searching
  /\ health[Candidate] = "up"
  /\ Candidate \in reliable => ~HasReason(Candidate)
  /\ health' = [health EXCEPT ![Candidate] = "down"]
  /\ index' = index + 1
  /\ UNCHANGED <<pc, given, exhausted, iteration, heard, work, seen, status, record>>

(* Mutant of Fresh: only the duplicates within one answer are dropped.     *)
FreshInAnswer(calls) ==
  FoldLeft(LAMBDA fresh, c : IF c \in Range(fresh) THEN fresh ELSE Append(fresh, c), <<>>, calls)

(* dedupeCalls and the executedCallKeys filter: the calls whose key is new *)
(* to this run, once each, in the order of the answer.                     *)
Fresh(calls) ==
  FoldLeft(LAMBDA fresh, c : IF c \in seen \cup Range(fresh) THEN fresh ELSE Append(fresh, c),
           <<>>, calls)

(* An answer: blocked on an approval of its own, final, or new tool calls. *)
(* dedupeCalls drops malformed calls, but they count as calls before that. *)
Reason(a) ==
  /\ Searching
  /\ health[Candidate] = "up" /\ HasReason(Candidate)
  /\ answer' = a /\ stepped' = (stepped \/ a.steps)
  /\ IF a.needsApproval /\ a.calls = <<>> /\ ~a.malformed
     THEN pc' = "verify" /\ status' = "blocked" /\ UNCHANGED <<queue, seen>>
     ELSE /\ pc' = IF Fresh(a.calls) = <<>> THEN "verify" ELSE "tools"
          /\ queue' = Fresh(a.calls)
          /\ seen' = seen \cup Range(a.calls)
          /\ UNCHANGED status
  /\ UNCHANGED <<given, search, iteration, runs, outcome, approvals, record>>

(* "All Jaslyn providers failed" goes to the catch block of run().         *)
NoProviderLeft ==
  /\ pc = "provider"
  /\ index > Len(Candidates)
  /\ pc' = "caught" /\ status' = "failed" /\ exhausted' = TRUE
  /\ UNCHANGED <<given, index, health, iteration, heard, work, seen, record>>

-----------------------------------------------------------------------------
(* The tool calls of one answer                                            *)

AtCall(c) == pc = "tools" /\ queue # <<>> /\ c = Head(queue)

Result(kind) ==
  /\ outcome' = [outcome EXCEPT ![kind] = @ + 1]
  /\ status' = IF kind = "completed" THEN status ELSE kind
  /\ queue' = Tail(queue)
  /\ UNCHANGED <<pc, given, search, iteration, heard, seen, record>>

UnknownTool(c) ==
  /\ AtCall(c)
  /\ Tool[c] \notin Tools
  /\ Result("failed")
  /\ UNCHANGED <<runs, approvals>>

Deny(c) ==
  /\ AtCall(c)
  /\ Tool[c] \in Tools \cap Denied
  /\ Result("blocked")
  /\ UNCHANGED <<runs, approvals>>

(* A protected call is stored for a decision, not executed.                *)
RequestApproval(c) ==
  /\ AtCall(c)
  /\ Tool[c] \in (Tools \cap Protected) \ Denied
  /\ approvals' = approvals \cup {c}
  /\ Result("blocked")
  /\ UNCHANGED runs

(* approvalStore.create() throws: the run fails with the calls it has.     *)
RequestFails(c) ==
  /\ AtCall(c)
  /\ Tool[c] \in (Tools \cap Protected) \ Denied
  /\ pc' = "caught" /\ status' = "failed"
  /\ UNCHANGED <<given, search, iteration, heard, work, seen, record>>

(* tool.execute() resolves, or it rejects or outlives toolTimeoutMs.       *)
Execute(c, kind) ==
  /\ AtCall(c)
  /\ Tool[c] \in Tools \ (Denied \cup Protected)
  /\ runs' = [runs EXCEPT ![c] = @ + 1]
  /\ Result(kind)
  /\ UNCHANGED approvals

NextIteration ==
  /\ pc = "tools" /\ queue = <<>>
  /\ IF iteration < MaxIterations
     THEN iteration' = iteration + 1 /\ pc' = "provider" /\ index' = 1
     ELSE pc' = "verify" /\ UNCHANGED <<iteration, index>>
  /\ UNCHANGED <<given, health, exhausted, heard, work, seen, status, record>>

-----------------------------------------------------------------------------
(* Verification, memory, history                                           *)

(* Mutant of VerifyOutcome: failed tools are overlooked.                   *)
VerifyOutcomeBySummary == answer.says \/ stepped

(* verifyOutcome(): looks at blocked calls only if the last answer asked   *)
(* for an approval. It counts the steps of all answers. There is an answer.*)
VerifyOutcome ==
  /\ ~(answer.needsApproval /\ outcome.blocked > 0)
  /\ outcome.failed = 0
  /\ answer.says \/ stepped

(* verifyOutcome, then memory.remember(); if that throws, run() rejects.   *)
Remember(stored) ==
  /\ pc = "verify"
  /\ status' = IF ~VerifyOutcome /\ status = "completed" THEN "unverified" ELSE status
  /\ pc' = IF stored THEN "append" ELSE "rejected"
  /\ UNCHANGED <<given, search, iteration, heard, work, seen, record>>

Run(verified, failed) ==
  [status |-> status, verified |-> verified, completed |-> outcome.completed,
   failed |-> failed, blocked |-> outcome.blocked]

(* runStore.append() of the run, or of the catch block; if it throws,      *)
(* run() rejects.                                                          *)
AppendRun(stored) ==
  /\ pc \in {"append", "caught"}
  /\ pc' = IF stored THEN "done" ELSE "rejected"
  /\ record' = IF ~stored THEN None
               ELSE IF pc = "append" THEN Run(VerifyOutcome, outcome.failed)
               ELSE Run(FALSE, outcome.failed + 1)
  /\ UNCHANGED <<given, search, iteration, heard, work, seen, status>>

(* What the history says of a fanout that the providers ok answered.       *)
FanoutRun(ok) ==
  [status |-> IF ok # {} THEN "completed" ELSE "failed", verified |-> ok # {},
   completed |-> Cardinality(ok), failed |-> Cardinality(Providers \ ok), blocked |-> 0]

(* run() with fanout: ConcurrentEngine asks every provider once, by        *)
(* registry.get(); at least the reliable ones answer. Nothing is executed. *)
Fanout(ok, stored) ==
  /\ pc = "idle"
  /\ reliable \subseteq ok /\ ok \subseteq Providers
  /\ status' = FanoutRun(ok).status
  /\ pc' = IF stored THEN "done" ELSE "rejected"
  /\ record' = IF stored THEN FanoutRun(ok) ELSE None
  /\ UNCHANGED <<given, search, iteration, heard, work, seen>>

Step ==
  \/ \E up \in BOOLEAN : CheckHealth(up)
  \/ SkipUnhealthy \/ ReasonFails \/ NoProviderLeft
  \/ \E a \in Answers : Reason(a)
  \/ \E c \in Calls : UnknownTool(c) \/ Deny(c) \/ RequestApproval(c) \/ RequestFails(c)
  \/ \E c \in Calls, kind \in {"completed", "failed"} : Execute(c, kind)
  \/ NextIteration
  \/ \E stored \in BOOLEAN : Remember(stored) \/ AppendRun(stored)

Next == \/ \E p \in Providers \cup {NoProvider} : Start(p)
        \/ \E ok \in SUBSET Providers, stored \in BOOLEAN : Fanout(ok, stored)
        \/ Step

Spec == Init /\ [][Next]_vars

(* Every await of run() settles: providers and tools have their timeouts,  *)
(* the stores their lock timeouts.                                         *)
FairSpec == Spec /\ WF_vars(Step)
-----------------------------------------------------------------------------
(* Properties                                                              *)

Counts == [completed : Nat, failed : Nat, blocked : Nat]

(* Every variable has its type.                                            *)
TypeOK ==
  /\ pc \in {"idle", "provider", "tools", "verify", "append", "caught", "done", "rejected"}
  /\ requested \in Providers \cup {NoProvider} /\ reliable \subseteq Providers
  /\ index \in 1..Len(Registered) + 1 /\ iteration \in 1..MaxIterations
  /\ health \in [Providers -> {"unknown", "up", "down"}]
  /\ answer \in Answers \cup {None} /\ stepped \in BOOLEAN
  /\ queue \in Seq(Calls) /\ seen \subseteq Calls
  /\ runs \in [Calls -> Nat] /\ outcome \in Counts
  /\ approvals \subseteq Calls /\ exhausted \in BOOLEAN
  /\ status \in {"completed", "failed", "blocked", "unverified"}

(* Whatever the providers answer, however often they repeat a call and in  *)
(* whichever iteration, a tool runs at most once for the same input, and   *)
(* never when the policy denies it or asks for an approval; and a call is  *)
(* stored for approval only if the policy asks for it.                     *)
SideEffectsOnceAndAllowed ==
  \A c \in Calls :
    /\ runs[c] <= 1
    /\ runs[c] > 0 => Tool[c] \in Tools \ (Denied \cup Protected)
    /\ c \in approvals => runs[c] = 0 /\ Tool[c] \in Protected \ Denied

(* The history record accounts for the run: every call that was new is     *)
(* counted once, "completed" means that something was verified and nothing *)
(* failed or was blocked, and a verified run has no failed tool.           *)
HistoryTellsTheRun ==
  record # None =>
    /\ record.status = "completed" => record.verified /\ record.blocked = 0
    /\ record.status = "failed" => record.failed > 0
    /\ record.verified /\ answer # None => record.failed = 0
    /\ status # "failed" /\ answer # None =>
         record.completed + record.failed + record.blocked = Cardinality(seen)
    /\ answer # None => record.completed <= Cardinality({c \in Calls : runs[c] > 0})

(* A run returns or rejects: neither an agent that keeps asking for tools  *)
(* nor a failing provider, tool or store keeps it going.                   *)
EveryRunEnds == pc = "provider" ~> pc \in {"done", "rejected"}

(* "runtime fails over to the next provider when the primary errors", and  *)
(* "skips an unhealthy provider before reasoning" (resilience.test.mjs): a *)
(* run gives up only when no registered provider would have answered.      *)
FailsOverWhenPossible == exhausted => reliable = {}

(* "runtime blocks approval-required tools without approval": a run with a *)
(* blocked tool is not verified (runtime.test.mjs).                        *)
BlockedIsNotVerified == record # None /\ record.blocked > 0 => ~record.verified
=============================================================================
