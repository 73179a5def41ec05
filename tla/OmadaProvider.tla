--------------------------- MODULE OmadaProvider ---------------------------
(***************************************************************************)
(* OmadaOpenApiProvider: callers that share one adapter read paged lists.  *)
(* The access token is cached, fetched by one request at a time that all   *)
(* callers wait for, and renewed when the controller answers 401. A step   *)
(* is what runs between two awaits.                                        *)
(***************************************************************************)
EXTENDS Integers, FiniteSets

CONSTANTS
  Callers,      \* concurrent calls of getPagedData() on one adapter
  ListSizes,    \* how many rows the list may have
  PageSize,     \* pageSize
  MaxPages,     \* the page limit: 100
  MaxRevocations, \* bound on the times the controller drops tokens
  MaxAgings,    \* bound on the cached tokens that come close to their expiry
  MaxFailures   \* bound on the requests that fail for any other reason

ASSUME OmadaAssumption ==
  /\ ListSizes \subseteq Nat /\ ListSizes # {}
  /\ {MaxRevocations, MaxAgings, MaxFailures} \subseteq Nat
  /\ {PageSize, MaxPages} \subseteq Nat \ {0}

NoToken == 0

VARIABLES
  size,         \* environment: the rows of the list that is read
  accessToken,  \* the cached token, NoToken if there is none
  current,      \* Date.now() < tokenExpiresAt - 60000
  fetching,     \* there is a tokenPromise
  issued,       \* tokens the controller has issued, numbered from 1
  accepted,     \* environment: the tokens the controller accepts
  phase,           \* where each caller stands
  held,         \* the token of its Authorization header
  retry,        \* the retry parameter of request()
  page, rows,   \* the page it is at, and the rows it has got
  listless,     \* history: it has been answered 200 without a list
  refused,      \* history: the tokens its current page got 401 for
  renewals,     \* history: token requests sent
  rejections, agings, failures, \* history: 401s, agings, other failures
  revocations                   \* history: times the controller dropped tokens

omadaVars == <<size, accessToken, current, fetching, issued, accepted, phase, held, retry, page, rows,
          listless, refused, renewals, rejections, agings, failures, revocations>>
cache == <<accessToken, current>>
progress == <<page, rows, listless>>
counters == <<rejections, agings, failures>>
controller == <<size, accepted, revocations>>

OmadaInit ==
  /\ size \in ListSizes
  /\ accessToken = NoToken /\ current = FALSE /\ fetching = FALSE
  /\ issued = 0 /\ accepted = {}
  /\ phase = [c \in Callers |-> "idle"] /\ held = [c \in Callers |-> NoToken]
  /\ retry = [c \in Callers |-> TRUE]
  /\ page = [c \in Callers |-> 1] /\ rows = [c \in Callers |-> 0]
  /\ listless = [c \in Callers |-> FALSE]
  /\ refused = [c \in Callers |-> {}]
  /\ renewals = 0 /\ rejections = 0 /\ agings = 0 /\ failures = 0
  /\ revocations = 0

Enter(c, label) == phase' = [phase EXCEPT ![c] = label]

-----------------------------------------------------------------------------
(* authenticate()                                                          *)

(* Joins the token request under way, or sends one.                        *)
AwaitToken(c, label) ==
  /\ Enter(c, label)
  /\ fetching' = TRUE
  /\ renewals' = IF fetching THEN renewals ELSE renewals + 1

Cached == accessToken # NoToken /\ current

(* request(): the cached token, or a new one.                              *)
Authenticate(c) ==
  /\ phase[c] = "authenticate"
  /\ IF Cached
     THEN /\ held' = [held EXCEPT ![c] = accessToken]
          /\ Enter(c, "send")
          /\ UNCHANGED <<fetching, renewals>>
     ELSE AwaitToken(c, "awaitToken") /\ UNCHANGED held
  /\ UNCHANGED <<cache, issued, controller, retry, progress, refused, counters>>

(* The controller drops and adds tokens.                                   *)
Drop(dropped, added) ==
  /\ accepted' = (accepted \ dropped) \cup added
  /\ dropped # {} => revocations < MaxRevocations
  /\ revocations' = IF dropped = {} THEN revocations ELSE revocations + 1

(* The token arrives: it is cached, tokenPromise is cleared, and everyone  *)
(* who awaits it goes on. Issuing it may invalidate older ones.            *)
TokenArrives(revoked) ==
  /\ fetching
  /\ Drop(revoked, {issued + 1})
  /\ issued' = issued + 1
  /\ accessToken' = issued' /\ current' = TRUE /\ fetching' = FALSE
  /\ held' = [c \in Callers |-> IF phase[c] = "awaitToken" THEN issued' ELSE held[c]]
  /\ phase' = [c \in Callers |-> CASE phase[c] = "awaitToken" -> "send"
                                [] phase[c] = "awaitRenewal" -> "authenticate"
                                [] OTHER -> phase[c]]
  /\ UNCHANGED <<size, retry, progress, refused, renewals, counters>>

(* It fails, and so does everyone who awaits it.                           *)
TokenFails ==
  /\ fetching
  /\ failures < MaxFailures
  /\ failures' = failures + 1
  /\ fetching' = FALSE
  /\ phase' = [c \in Callers |->
       IF phase[c] \in {"awaitToken", "awaitRenewal"} THEN "failed" ELSE phase[c]]
  /\ UNCHANGED <<cache, issued, controller, held, retry, progress, refused, renewals,
                 rejections, agings>>

-----------------------------------------------------------------------------
(* request() and getPagedData()                                            *)

StartCall(c) ==
  /\ phase[c] = "idle"
  /\ Enter(c, "authenticate")
  /\ UNCHANGED <<cache, fetching, issued, controller, held, retry, progress, refused,
                 renewals, counters>>

RowsOf(n) == LET before == (n - 1) * PageSize IN
  IF size <= before THEN 0
  ELSE IF size - before < PageSize THEN size - before ELSE PageSize

(* Mutant of IsLast: a page of n rows may be full and the last one, too.   *)
IsLastIfFull(n) == n <= PageSize

IsLast(n) == n < PageSize

(* n rows are added: a short page returns, the last one allowed throws.    *)
AddRows(c, n) ==
  /\ rows' = [rows EXCEPT ![c] = @ + n]
  /\ page' = [page EXCEPT ![c] = @ + 1]
  /\ Enter(c, IF IsLast(n) THEN "done"
             ELSE IF page[c] = MaxPages THEN "failed" ELSE "authenticate")
  /\ held' = [held EXCEPT ![c] = NoToken]
  /\ retry' = [retry EXCEPT ![c] = TRUE]
  /\ refused' = [refused EXCEPT ![c] = {}]
  /\ UNCHANGED <<cache, fetching, issued, controller, renewals, counters>>

(* The controller sends the page.                                          *)
Receive(c) ==
  /\ phase[c] = "send"
  /\ held[c] \in accepted
  /\ AddRows(c, RowsOf(page[c]))
  /\ UNCHANGED listless

(* A 200 answer without a list under result.data, as of a proxy: asList()  *)
(* makes no row of nothing, and one row of anything that is no list.       *)
ReceiveNoList(c) ==
  /\ phase[c] = "send"
  /\ \E n \in {0, 1} : AddRows(c, n)
  /\ listless' = [listless EXCEPT ![c] = TRUE]

(* Mutant of Reject: tries again with what the cache holds.                *)
RejectKeepingToken(c) ==
  /\ phase[c] = "send"
  /\ held[c] \notin accepted
  /\ rejections' = rejections + 1
  /\ refused' = [refused EXCEPT ![c] = @ \cup {held[c]}]
  /\ held' = [held EXCEPT ![c] = NoToken]
  /\ Enter(c, IF retry[c] THEN "authenticate" ELSE "failed")
  /\ retry' = [retry EXCEPT ![c] = FALSE]
  /\ UNCHANGED <<cache, fetching, issued, controller, progress, renewals, agings, failures>>

(* Mutant of Reject: the request is sent again as long as it is refused,   *)
(* with whatever token the cache holds.                                    *)
RejectRetryingAlways(c) ==
  /\ phase[c] = "send"
  /\ held[c] \notin accepted
  /\ held' = [held EXCEPT ![c] = NoToken]
  /\ refused' = [refused EXCEPT ![c] = @ \cup {held[c]}]
  /\ Enter(c, "authenticate")
  /\ UNCHANGED <<cache, fetching, issued, controller, retry, progress, renewals, counters>>

(* HTTP 401: once per page, the cache is cleared and a new token awaited   *)
(* before the request is sent again; the second time it throws.            *)
Reject(c) ==
  /\ phase[c] = "send"
  /\ held[c] \notin accepted
  /\ rejections' = rejections + 1
  /\ refused' = [refused EXCEPT ![c] = @ \cup {held[c]}]
  /\ held' = [held EXCEPT ![c] = NoToken]
  /\ IF retry[c]
     THEN /\ accessToken' = NoToken /\ current' = FALSE
          /\ retry' = [retry EXCEPT ![c] = FALSE]
          /\ AwaitToken(c, "awaitRenewal")
     ELSE /\ Enter(c, "failed")
          /\ UNCHANGED <<cache, retry, fetching, renewals>>
  /\ UNCHANGED <<issued, controller, progress, agings, failures>>

(* A timeout, another HTTP status, an errorCode: the call throws.          *)
RequestFails(c) ==
  /\ phase[c] = "send"
  /\ failures < MaxFailures
  /\ failures' = failures + 1
  /\ Enter(c, "failed")
  /\ UNCHANGED <<cache, fetching, issued, controller, held, retry, progress, refused, renewals,
                 rejections, agings>>

-----------------------------------------------------------------------------
(* The environment                                                         *)

(* The cached token has less than a minute left.                           *)
Age ==
  /\ current
  /\ agings < MaxAgings
  /\ agings' = agings + 1
  /\ current' = FALSE
  /\ UNCHANGED <<accessToken, fetching, issued, controller, phase, held, retry, progress, refused,
                 renewals, rejections, failures>>

(* The controller no longer accepts a token: it expired or was revoked.    *)
Revoke(t) ==
  /\ t \in accepted
  /\ Drop({t}, {})
  /\ UNCHANGED <<size, cache, fetching, issued, phase, held, retry, progress, refused, renewals,
                 counters>>

CallStep(c) == Authenticate(c) \/ Receive(c) \/ Reject(c)

OmadaNext ==
  \/ \E c \in Callers : StartCall(c) \/ CallStep(c) \/ ReceiveNoList(c) \/ RequestFails(c)
  \/ \E revoked \in SUBSET accepted : TokenArrives(revoked)
  \/ TokenFails \/ Age
  \/ \E t \in accepted : Revoke(t)

OmadaSpec == OmadaInit /\ [][OmadaNext]_omadaVars

(* Requests are answered or time out after timeoutMs, token requests too.  *)
TokenSettles == TokenFails \/ \E revoked \in SUBSET accepted : TokenArrives(revoked)
OmadaFairness == WF_omadaVars(TokenSettles) /\ \A c \in Callers : WF_omadaVars(CallStep(c))

-----------------------------------------------------------------------------
(* Properties                                                              *)

(* Every variable has its type.                                            *)
OmadaTypeOK ==
  /\ accessToken \in 0..issued /\ current \in BOOLEAN /\ fetching \in BOOLEAN
  /\ issued \in Nat /\ accepted \subseteq 1..issued
  /\ phase \in [Callers -> {"idle", "authenticate", "awaitToken", "awaitRenewal", "send",
                         "done", "failed"}]
  /\ size \in ListSizes
  /\ held \in [Callers -> 0..issued] /\ retry \in [Callers -> BOOLEAN]
  /\ page \in [Callers -> 1..MaxPages + 1] /\ rows \in [Callers -> Nat]
  /\ listless \in [Callers -> BOOLEAN]
  /\ refused \in [Callers -> SUBSET (1..issued)]
  /\ {renewals, rejections, agings, failures, revocations} \subseteq Nat

(* The retry is worth its name: whoever else clears or renews the shared   *)
(* token meanwhile, a page that was refused is sent again with a token     *)
(* issued later, and only once; and a token is requested only because      *)
(* there was none, the last one aged, was refused, or could not be         *)
(* fetched.                                                                *)
RetryUsesNewerToken ==
  /\ \A c \in Callers :
       /\ phase[c] = "send" => held[c] # NoToken /\ \A t \in refused[c] : held[c] > t
       /\ Cardinality(refused[c]) <= 2
  /\ renewals <= 1 + agings + rejections + failures

(* A list that getPagedData returns is the whole list, whatever tokens are *)
(* refused between its pages, or it was answered 200 without a list: that  *)
(* ends a list like a short page, and the caller cannot tell (line 127).   *)
(* A list that fills the last page allowed is never returned.              *)
ListsAreComplete ==
  \A c \in Callers :
    phase[c] = "done" /\ ~listless[c] => rows[c] = size /\ size < MaxPages * PageSize

(* Every call ends, however often tokens are refused.                      *)
EveryCallEnds ==
  \A c \in Callers : phase[c] = "authenticate" ~> phase[c] \in {"done", "failed"}
=============================================================================
