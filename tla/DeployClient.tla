---------------------------- MODULE DeployClient ----------------------------
(***************************************************************************)
(* The calls to deploy-service: DeployServiceClient and                     *)
(* CommandServiceClient (_request_with_retry) with the token manager that   *)
(* all of them share (app/core/token_manager.py).                           *)
(*                                                                          *)
(* A request is an asyncio task: what it does between two awaits is one     *)
(* action.  It awaits the manager's lock, the token endpoint and the        *)
(* upstream call; the other tasks run meanwhile.  get_token holds the lock  *)
(* while it refreshes; the refresh after a 401 does not take it.            *)
(***************************************************************************)
EXTENDS Integers, Sequences, FiniteSets

CONSTANTS
  Tasks,         \* the requests in flight
  Free,          \* the lock's holder when nobody holds it
  Lifetime,      \* expires_in of a token
  Buffer,        \* how long before its expiry a token is given up (30 s)
  FetchTime,     \* the longest a token takes from its issue to its arrival
  CachedToken,   \* DEPLOY_SERVICE_TOKEN is set
  MaxTime,       \* bound of the clock
  MaxRevocations \* bound: how often deploy-service rejects what it issued

ASSUME DeployAssumption ==
  /\ Free \notin Tasks
  /\ Lifetime \in Nat /\ Buffer \in Nat /\ FetchTime \in Nat
  /\ FetchTime <= Buffer
  /\ CachedToken \in BOOLEAN
  /\ MaxTime \in Nat /\ MaxRevocations \in Nat

VARIABLES
  now,
  \* deploy-service
  expiry,       \* the tokens issued so far: expiry[t] is when token t expires
  revoked,      \* tokens it rejects before they expire
  revocations,
  executed,     \* task -> how often its request was carried out
  \* the token manager
  token,        \* _token, 0 when it is empty
  expireAt,     \* _expire_at
  lock,         \* _lock: the task that holds it, or Free
  \* the tasks
  pc,           \* task -> what it awaits
  attempt,      \* task -> which of its two sends it is at
  header,       \* task -> the token in its Authorization header
  inflight,     \* task -> the token on its way to it from the endpoint
  rejected,     \* task -> the token a 401 was answered to
  answer        \* task -> its response

service == <<expiry, revoked, revocations>>
manager == <<token, expireAt, lock>>
task == <<pc, attempt, header, inflight, rejected, answer>>
vars == <<now, service, executed, manager, task>>

NoToken == 0
Steps == {"idle", "lock", "fetch", "reply", "send", "done"}
\* "auth_error" is AuthException (401), "upstream_error" DeployServiceError
\* (502), "transport_error" an httpx error nothing handles (500).
Answers == {"none", "ok", "auth_error", "upstream_error", "transport_error"}

Issued == 1..Len(expiry)
Live(t) == t \in Issued /\ t \notin revoked /\ now < expiry[t]

\* The cached token was issued before the service started; _expire_at is 0
\* whether there is one or not.
Init ==
  /\ now = 0
  /\ expiry = IF CachedToken THEN <<Lifetime>> ELSE <<>>
  /\ revoked = {}
  /\ revocations = 0
  /\ executed = [c \in Tasks |-> 0]
  /\ token = IF CachedToken THEN 1 ELSE NoToken
  /\ expireAt = 0
  /\ lock = Free
  /\ pc = [c \in Tasks |-> "idle"]
  /\ attempt = [c \in Tasks |-> 1]
  /\ header = [c \in Tasks |-> NoToken]
  /\ inflight = [c \in Tasks |-> NoToken]
  /\ rejected = [c \in Tasks |-> NoToken]
  /\ answer = [c \in Tasks |-> "none"]

-----------------------------------------------------------------------------
(* TokenManager                                                             *)

Goto(c, step) == pc' = [pc EXCEPT ![c] = step]
Respond(c, a) == Goto(c, "done") /\ answer' = [answer EXCEPT ![c] = a]
HandOut(c, t) == Goto(c, "send") /\ header' = [header EXCEPT ![c] = t]

\* _is_expired
Expired == now >= expireAt

\* Slip: get_token refreshes without the lock.
GetTokenUnlocked(c) ==
  /\ UNCHANGED lock
  /\ IF token = NoToken \/ Expired
       THEN Goto(c, "fetch") /\ UNCHANGED header
       ELSE HandOut(c, token)

\* get_token once the lock is taken: a token that is good is handed out, and
\* the lock released, without an await; otherwise the refresh begins.
GetToken(c) ==
  IF token = NoToken \/ Expired
    THEN Goto(c, "fetch") /\ lock' = c /\ UNCHANGED header
    ELSE HandOut(c, token) /\ UNCHANGED lock

\* An asyncio.Lock is not taken past the tasks that wait for it.
MayAcquire(c) == lock = Free /\ \A b \in Tasks \ {c} : pc[b] # "lock"

\* _headers of the first attempt.
Begin(c) ==
  /\ pc[c] = "idle"
  /\ IF MayAcquire(c) THEN GetToken(c) ELSE Goto(c, "lock") /\ UNCHANGED <<lock, header>>
  /\ UNCHANGED <<now, service, executed, token, expireAt, attempt, inflight, rejected, answer>>

\* A task that waited gets the lock.  Which one is left open.
Acquire(c) ==
  /\ pc[c] = "lock" /\ lock = Free
  /\ GetToken(c)
  /\ UNCHANGED <<now, service, executed, token, expireAt, attempt, inflight, rejected, answer>>

\* refresh, as far as the token endpoint: it issues a token ...
Issue(c) ==
  /\ pc[c] = "fetch"
  /\ expiry' = Append(expiry, now + Lifetime)
  /\ inflight' = [inflight EXCEPT ![c] = Len(expiry) + 1]
  /\ Goto(c, "reply")
  /\ UNCHANGED <<now, revoked, revocations, executed, manager, attempt, header, rejected, answer>>

\* Slip: the expiry is stored without the buffer.
FullLifetime == now + Lifetime
\* _expire_at of a token that arrives now.
TrustedUntil == now + Lifetime - Buffer

\* Slip: a refresh leaves a token alone that has not expired.
ReceiveIfExpired(c) ==
  /\ pc[c] = "reply"
  /\ IF lock # c /\ ~Expired THEN UNCHANGED <<token, expireAt>>
     ELSE token' = inflight[c] /\ expireAt' = TrustedUntil
  /\ IF lock = c
       THEN lock' = Free /\ HandOut(c, inflight[c])
       ELSE Goto(c, "lock") /\ UNCHANGED <<lock, header>>
  /\ inflight' = [inflight EXCEPT ![c] = NoToken]
  /\ UNCHANGED <<now, service, executed, attempt, rejected, answer>>

\* ... and when it arrives the manager stores it, whatever it has by then.
\* Inside get_token the lock is released and the token handed out.  After a
\* 401 get_token follows, which takes the lock.
Receive(c) ==
  /\ pc[c] = "reply"
  /\ token' = inflight[c] /\ expireAt' = TrustedUntil
  /\ \/ lock = c /\ lock' = Free /\ HandOut(c, inflight[c])
     \/ lock # c /\ MayAcquire(c) /\ now < TrustedUntil /\ HandOut(c, inflight[c]) /\ UNCHANGED lock
     \/ lock # c /\ MayAcquire(c) /\ now >= TrustedUntil /\ Goto(c, "fetch") /\ lock' = c /\ UNCHANGED header
     \/ lock # c /\ ~MayAcquire(c) /\ Goto(c, "lock") /\ UNCHANGED <<lock, header>>
  /\ inflight' = [inflight EXCEPT ![c] = NoToken]
  /\ UNCHANGED <<now, service, executed, attempt, rejected, answer>>

\* Slip: an exception leaves the lock taken.
KeepLock(c) == lock
\* The "async with" of get_token releases the lock whatever happens.
ReleaseLock(c) == IF lock = c THEN Free ELSE lock

\* The endpoint answers something else than 200, or not at all: the exception
\* leaves refresh.
FetchFails(c) ==
  /\ pc[c] \in {"fetch", "reply"}
  /\ \E a \in {"auth_error", "transport_error"} : Respond(c, a)
  /\ lock' = ReleaseLock(c)
  /\ inflight' = [inflight EXCEPT ![c] = NoToken]
  /\ UNCHANGED <<now, service, executed, token, expireAt, attempt, header, rejected>>

-----------------------------------------------------------------------------
(* _request_with_retry                                                      *)

Execute(c) == executed' = [executed EXCEPT ![c] = @ + 1]

\* deploy-service accepts the token and carries the request out.
Accepted(c) ==
  /\ pc[c] = "send" /\ Live(header[c])
  /\ Execute(c) /\ Respond(c, "ok")
  /\ UNCHANGED <<now, service, manager, attempt, header, inflight, rejected>>

\* _raise_for_error: an error other than a 401 is answered, by deploy-service or
\* by a proxy before it.  It may have carried the request out all the same.
ErrorAnswered(c) ==
  /\ pc[c] = "send"
  /\ (Live(header[c]) /\ Execute(c)) \/ UNCHANGED executed
  /\ Respond(c, "upstream_error")
  /\ UNCHANGED <<now, service, manager, attempt, header, inflight, rejected>>

\* Slip: a failed connection is tried again as well, three times in all.
TransportRetried(c) ==
  /\ pc[c] = "send"
  /\ (Live(header[c]) /\ Execute(c)) \/ UNCHANGED executed
  /\ IF attempt[c] < 3
       THEN attempt' = [attempt EXCEPT ![c] = @ + 1] /\ UNCHANGED <<pc, answer>>
       ELSE Respond(c, "transport_error") /\ UNCHANGED attempt
  /\ UNCHANGED <<now, service, manager, header, inflight, rejected>>

\* The connection fails, before or after the request was carried out.
TransportFails(c) ==
  /\ pc[c] = "send"
  /\ (Live(header[c]) /\ Execute(c)) \/ UNCHANGED executed
  /\ Respond(c, "transport_error")
  /\ UNCHANGED <<now, service, manager, attempt, header, inflight, rejected>>

\* 401: refresh at once, without the lock, and try once more.
Unauthorized(c) ==
  /\ pc[c] = "send" /\ ~Live(header[c]) /\ attempt[c] = 1
  /\ attempt' = [attempt EXCEPT ![c] = 2]
  /\ rejected' = [rejected EXCEPT ![c] = header[c]]
  /\ Goto(c, "fetch")
  /\ UNCHANGED <<now, service, executed, manager, header, inflight, answer>>

\* Slip: the retry is refreshed for as well.
UnauthorizedForever(c) ==
  /\ pc[c] = "send" /\ ~Live(header[c]) /\ attempt[c] = 2
  /\ rejected' = [rejected EXCEPT ![c] = header[c]]
  /\ Goto(c, "fetch")
  /\ UNCHANGED <<now, service, executed, manager, attempt, header, inflight, answer>>

\* A 401 to the retry is the answer.
UnauthorizedAgain(c) ==
  /\ pc[c] = "send" /\ ~Live(header[c]) /\ attempt[c] = 2
  /\ Respond(c, "upstream_error")
  /\ UNCHANGED <<now, service, executed, manager, attempt, header, inflight, rejected>>

TaskStep(c) ==
  \/ Acquire(c) \/ Issue(c) \/ Receive(c) \/ FetchFails(c)
  \/ Accepted(c) \/ ErrorAnswered(c) \/ TransportFails(c)
  \/ Unauthorized(c) \/ UnauthorizedAgain(c)

-----------------------------------------------------------------------------
(* The environment                                                          *)

\* When the token in flight to a task was issued.
IssuedAt(c) == expiry[inflight[c]] - Lifetime

\* Time passes; no answer of the token endpoint takes longer than FetchTime.
Tick ==
  /\ now < MaxTime
  /\ \A c \in Tasks : pc[c] = "reply" => now < IssuedAt(c) + FetchTime
  /\ now' = now + 1
  /\ UNCHANGED <<service, executed, manager, task>>

\* deploy-service forgets what it issued (a restart with another key).
Revoke ==
  /\ revocations < MaxRevocations
  /\ revoked' = Issued
  /\ revocations' = revocations + 1
  /\ UNCHANGED <<now, expiry, executed, manager, task>>

Next ==
  \/ \E c \in Tasks : Begin(c) \/ TaskStep(c)
  \/ Tick \/ Revoke

Spec == Init /\ [][Next]_vars

\* The event loop runs every task that is ready, and every call ends: the
\* clients set a timeout.  Requests may never come, time may stand still.
FairSpec == Spec /\ \A c \in Tasks : WF_vars(TaskStep(c))

-----------------------------------------------------------------------------
(* Properties                                                               *)

\* The type invariant of the tasks, the manager and deploy-service.
TypeOK ==
  /\ now \in 0..MaxTime
  /\ expiry \in Seq(Nat)
  /\ revoked \subseteq Issued
  /\ revocations \in 0..MaxRevocations
  /\ executed \in [Tasks -> Nat]
  /\ token \in {NoToken} \cup Issued
  /\ expireAt \in Int
  /\ lock \in Tasks \cup {Free}
  /\ pc \in [Tasks -> Steps]
  /\ attempt \in [Tasks -> {1, 2}]
  /\ header \in [Tasks -> {NoToken} \cup Issued]
  /\ inflight \in [Tasks -> {NoToken} \cup Issued]
  /\ rejected \in [Tasks -> {NoToken} \cup Issued]
  /\ answer \in [Tasks -> Answers]

\* A request is carried out at most once, retry included, exactly once when it
\* is answered as a success, and never when no token could be had: triggering,
\* retrying and cancelling pipelines and running commands are not idempotent.
\* An upstream or a transport error leaves open whether it was carried out.
ExecutedAtMostOnce ==
  \A c \in Tasks :
    /\ executed[c] <= 1
    /\ answer[c] = "ok" => executed[c] = 1
    /\ answer[c] = "auth_error" => executed[c] = 0

\* The retry never carries the token that has just been rejected, whatever
\* other tasks stored in the manager between the refresh and the resend.
RetryUsesAnotherToken ==
  \A c \in Tasks : (pc[c] = "send" /\ attempt[c] = 2) => header[c] # rejected[c]

\* The manager never trusts a token longer than deploy-service does, although
\* the lifetime is counted from the arrival and refreshes overtake one another.
TrustEndsBeforeExpiry == token # NoToken => expireAt <= expiry[token]

\* A cold start fetches one token, however many requests come at once: until a
\* first token runs out, is rejected or cannot be had, no other is asked for.
ColdStartFetchesOnce ==
  (/\ ~CachedToken /\ revocations = 0 /\ now < Lifetime - Buffer
   /\ \A c \in Tasks : answer[c] \notin {"auth_error", "transport_error"})
    => Len(expiry) <= 1

\* The lock is held by a task that is fetching a token, and by no other: no
\* failure leaves it taken.
LockHeldByFetcher == \A c \in Tasks : lock = c => pc[c] \in {"fetch", "reply"}

\* Every request is answered: no failed fetch blocks those that wait for it.
EveryRequestAnswered == \A c \in Tasks : pc[c] # "idle" ~> pc[c] = "done"

-----------------------------------------------------------------------------
(* The promise of a call, and that it is kept                               *)

\* The token a request is on its way with.
Carried == [c \in Tasks |-> IF pc[c] = "send" THEN header[c] ELSE NoToken]

Promise == INSTANCE DeliveryPromise
  WITH issued <- Issued, carried <- Carried, refused <- rejected, delivered <- executed, outcome <- answer

\* Each call keeps its promise, whatever the others do to the token they
\* share: it goes out at most twice, the second time only after a 401 and with
\* another token; a success was carried out, a failure to authenticate was not,
\* any other error leaves that open; and nothing happens behind the answer.
KeepsPromise == Promise!Spec
=============================================================================
