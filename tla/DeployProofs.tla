---------------------------- MODULE DeployProofs ----------------------------
(***************************************************************************)
(* What the deploy-service clients promise, for any number of requests, any *)
(* lifetime of tokens and any buffer.                                       *)
(***************************************************************************)
EXTENDS DeployClient, TLAPS

\* What a step of task c leaves to the others: their places and what they hold.
Alone(c) ==
  \A e \in Tasks \ {c} :
    /\ pc'[e] = pc[e] /\ attempt'[e] = attempt[e] /\ header'[e] = header[e]
    /\ inflight'[e] = inflight[e] /\ rejected'[e] = rejected[e] /\ answer'[e] = answer[e]
    /\ executed'[e] = executed[e]

-----------------------------------------------------------------------------
(* Type correctness                                                         *)

\* The initial states have their types, with and without a cached token.
LEMMA InitTypeOK == Init => TypeOK
<1> SUFFICES ASSUME Init PROVE TypeOK
  OBVIOUS
<1>1. expiry \in Seq(Nat) /\ token \in {NoToken} \cup Issued
  BY DeployAssumption DEF Init, Issued, NoToken
<1> QED
  BY <1>1, DeployAssumption DEF Init, TypeOK, Steps, Answers, NoToken

\* Issuing adds one token and leaves the others alone.
LEMMA IssueAppends ==
  ASSUME TypeOK, NEW c \in Tasks, Issue(c)
  PROVE  /\ expiry' \in Seq(Nat) /\ Len(expiry') = Len(expiry) + 1
         /\ \A t \in Issued : expiry'[t] = expiry[t]
         /\ expiry'[Len(expiry) + 1] = now + Lifetime
         /\ Issued \subseteq Issued' /\ Len(expiry) + 1 \in Issued'
<1>1. expiry \in Seq(Nat) /\ now + Lifetime \in Nat
  BY DeployAssumption DEF TypeOK
<1>2. expiry' = Append(expiry, now + Lifetime)
  BY DEF Issue
<1> QED
  BY <1>1, <1>2 DEF Issued

\* Handing out a token, or starting to fetch one, keeps the types.
LEMMA GetTokenTyped ==
  ASSUME TypeOK, NEW c \in Tasks, GetToken(c)
  PROVE  /\ pc' \in [Tasks -> Steps] /\ lock' \in Tasks \cup {Free}
         /\ header' \in [Tasks -> {NoToken} \cup Issued]
  BY DEF TypeOK, GetToken, HandOut, Goto, Steps

\* Carrying out a request counts.
LEMMA ExecuteTyped ==
  ASSUME TypeOK, NEW c \in Tasks, Execute(c)
  PROVE  executed' \in [Tasks -> Nat]
<1>1. executed \in [Tasks -> Nat] /\ executed[c] + 1 \in Nat
  BY DEF TypeOK
<1> QED
  BY <1>1 DEF Execute

\* Every step keeps the types.
LEMMA NextTypeOK == TypeOK /\ [Next]_vars => TypeOK'
<1> SUFFICES ASSUME TypeOK, [Next]_vars PROVE TypeOK'
  OBVIOUS
<1>1. ASSUME NEW c \in Tasks, Begin(c) PROVE TypeOK'
  <2>1. /\ pc' \in [Tasks -> Steps] /\ lock' \in Tasks \cup {Free}
        /\ header' \in [Tasks -> {NoToken} \cup Issued]
    <3>1. CASE MayAcquire(c)
      BY <1>1, <3>1, GetTokenTyped DEF Begin
    <3>2. CASE ~MayAcquire(c)
      BY <1>1, <3>2 DEF Begin, Goto, Steps, TypeOK
    <3> QED
      BY <3>1, <3>2
  <2> QED
    BY <1>1, <2>1 DEF Begin, TypeOK, Issued, service
<1>2. ASSUME NEW c \in Tasks, Acquire(c) PROVE TypeOK'
  BY <1>2, GetTokenTyped DEF Acquire, TypeOK, Issued, service
<1>3. ASSUME NEW c \in Tasks, Issue(c) PROVE TypeOK'
  <2>1. /\ expiry' \in Seq(Nat) /\ Issued \subseteq Issued' /\ Len(expiry) + 1 \in Issued'
    BY <1>3, IssueAppends
  <2> QED
    BY <1>3, <2>1 DEF Issue, TypeOK, Goto, Steps, manager
<1>4. ASSUME NEW c \in Tasks, Receive(c) PROVE TypeOK'
  <2>1. expireAt' \in Int
    BY <1>4, DeployAssumption DEF Receive, TrustedUntil, TypeOK
  <2>2. /\ pc' \in [Tasks -> Steps] /\ lock' \in Tasks \cup {Free}
        /\ header' \in [Tasks -> {NoToken} \cup Issued]
    BY <1>4 DEF Receive, HandOut, Goto, Steps, TypeOK
  <2> QED
    BY <1>4, <2>1, <2>2 DEF Receive, TypeOK, Issued, service
<1>5. ASSUME NEW c \in Tasks, FetchFails(c) PROVE TypeOK'
  BY <1>5 DEF FetchFails, Respond, Goto, ReleaseLock, Steps, Answers, TypeOK, Issued, service
<1>6. ASSUME NEW c \in Tasks, Accepted(c) PROVE TypeOK'
  <2>1. executed' \in [Tasks -> Nat]
    BY <1>6, ExecuteTyped DEF Accepted, TypeOK
  <2>2. pc' \in [Tasks -> Steps] /\ answer' \in [Tasks -> Answers]
    BY <1>6 DEF Accepted, Respond, Goto, Steps, Answers, TypeOK
  <2> QED
    BY <1>6, <2>1, <2>2 DEF Accepted, TypeOK, Issued, service, manager
<1>7. ASSUME NEW c \in Tasks, ErrorAnswered(c) \/ TransportFails(c) PROVE TypeOK'
  <2>1. executed' \in [Tasks -> Nat]
    BY <1>7, ExecuteTyped DEF ErrorAnswered, TransportFails, TypeOK
  <2>2. pc' \in [Tasks -> Steps] /\ answer' \in [Tasks -> Answers]
    BY <1>7 DEF ErrorAnswered, TransportFails, Respond, Goto, Steps, Answers, TypeOK
  <2> QED
    BY <1>7, <2>1, <2>2 DEF ErrorAnswered, TransportFails, TypeOK, Issued, service, manager
<1>8. ASSUME NEW c \in Tasks, Unauthorized(c) PROVE TypeOK'
  BY <1>8 DEF Unauthorized, Goto, Steps, TypeOK, Issued, service, manager
<1>9. ASSUME NEW c \in Tasks, UnauthorizedAgain(c) PROVE TypeOK'
  BY <1>9 DEF UnauthorizedAgain, Respond, Goto, Steps, Answers, TypeOK, Issued, service, manager
<1>10. CASE Tick
  BY <1>10, DeployAssumption DEF Tick, TypeOK, Issued, service, manager, task
<1>11. CASE Revoke
  BY <1>11, DeployAssumption DEF Revoke, TypeOK, Issued, manager, task
<1>12. CASE UNCHANGED vars
  BY <1>12 DEF TypeOK, Issued, vars, service, manager, task
<1> QED
  BY <1>1, <1>2, <1>3, <1>4, <1>5, <1>6, <1>7, <1>8, <1>9, <1>10, <1>11, <1>12 DEF Next, TaskStep

\* The requests, the manager and deploy-service keep their types, whatever the
\* tokens do.
THEOREM TypeCorrect == Spec => []TypeOK
<1>1. Init => TypeOK
  BY InitTypeOK
<1>2. TypeOK /\ [Next]_vars => TypeOK'
  BY NextTypeOK
<1> QED
  BY <1>1, <1>2, PTL DEF Spec

-----------------------------------------------------------------------------
(* Whose step it is                                                         *)

\* What holds of the tasks while nobody moves but the clock or deploy-service.
Quiet == UNCHANGED <<executed, manager, task>>

\* A task that moves leaves the others where they are.
LEMMA TaskAlone ==
  ASSUME TypeOK, NEW c \in Tasks, Begin(c) \/ TaskStep(c)
  PROVE  Alone(c)
<1> USE DEF TypeOK, Alone
<1>1. CASE Begin(c)
  BY <1>1 DEF Begin, GetToken, HandOut, Goto
<1>2. CASE Acquire(c)
  BY <1>2 DEF Acquire, GetToken, HandOut, Goto
<1>3. CASE Issue(c)
  BY <1>3 DEF Issue, Goto
<1>4. CASE Receive(c)
  BY <1>4 DEF Receive, HandOut, Goto
<1>5. CASE FetchFails(c)
  BY <1>5 DEF FetchFails, Respond, Goto
<1>6. CASE Accepted(c)
  BY <1>6 DEF Accepted, Execute, Respond, Goto
<1>7. CASE ErrorAnswered(c) \/ TransportFails(c)
  BY <1>7 DEF ErrorAnswered, TransportFails, Execute, Respond, Goto
<1>8. CASE Unauthorized(c) \/ UnauthorizedAgain(c)
  BY <1>8 DEF Unauthorized, UnauthorizedAgain, Respond, Goto
<1> QED
  BY <1>1, <1>2, <1>3, <1>4, <1>5, <1>6, <1>7, <1>8 DEF TaskStep

\* A step is the one of a task, or of no task.
LEMMA WhoMoves ==
  ASSUME TypeOK, [Next]_vars
  PROVE  \/ \E c \in Tasks : (Begin(c) \/ TaskStep(c)) /\ Alone(c)
         \/ Quiet
<1>1. CASE Tick \/ Revoke \/ UNCHANGED vars
  BY <1>1 DEF Tick, Revoke, Quiet, vars
<1> QED
  BY <1>1, TaskAlone DEF Next

-----------------------------------------------------------------------------
(* The lock                                                                 *)

\* The task that moves takes the lock only to fetch, and gives it back when it
\* has fetched; another one's lock is left alone.
LEMMA LockStep ==
  ASSUME TypeOK, LockHeldByFetcher, NEW c \in Tasks, Begin(c) \/ TaskStep(c)
  PROVE  /\ lock' = c => pc'[c] \in {"fetch", "reply"}
         /\ lock' # c => lock' = lock \/ lock' = Free
<1> USE DEF TypeOK, LockHeldByFetcher
<1>0. c # Free
  BY DeployAssumption
<1>1. CASE Begin(c)
  BY <1>0, <1>1 DEF Begin, GetToken, HandOut, Goto
<1>2. CASE Acquire(c)
  BY <1>0, <1>2 DEF Acquire, GetToken, HandOut, Goto
<1>3. CASE Issue(c)
  BY <1>3 DEF Issue, Goto, manager
<1>4. CASE Receive(c)
  BY <1>0, <1>4 DEF Receive, HandOut, Goto
<1>5. CASE FetchFails(c)
  BY <1>0, <1>5 DEF FetchFails, ReleaseLock
<1>6. CASE Accepted(c) \/ ErrorAnswered(c) \/ TransportFails(c)
  BY <1>6 DEF Accepted, ErrorAnswered, TransportFails, Respond, Goto, manager
<1>7. CASE Unauthorized(c) \/ UnauthorizedAgain(c)
  BY <1>7 DEF Unauthorized, UnauthorizedAgain, Respond, Goto, manager
<1> QED
  BY <1>1, <1>2, <1>3, <1>4, <1>5, <1>6, <1>7 DEF TaskStep

\* So whoever holds the lock is fetching.
LEMMA NextLock == TypeOK /\ LockHeldByFetcher /\ [Next]_vars => LockHeldByFetcher'
<1> SUFFICES ASSUME TypeOK, LockHeldByFetcher, [Next]_vars, NEW e \in Tasks, lock' = e
             PROVE  pc'[e] \in {"fetch", "reply"}
  BY DEF LockHeldByFetcher
<1>1. ASSUME NEW c \in Tasks, Begin(c) \/ TaskStep(c), Alone(c)
      PROVE  pc'[e] \in {"fetch", "reply"}
  <2>1. CASE e = c
    BY <1>1, <2>1, LockStep
  <2>2. CASE e # c
    <3>1. e # Free /\ lock = e
      BY <1>1, <2>2, LockStep, DeployAssumption
    <3> QED
      BY <1>1, <2>2, <3>1 DEF Alone, LockHeldByFetcher
  <2> QED
    BY <2>1, <2>2
<1>2. CASE Quiet
  BY <1>2 DEF Quiet, manager, task, LockHeldByFetcher
<1> QED
  BY <1>1, <1>2, WhoMoves

\* Only a task that is fetching a token holds the lock: no failure leaves it
\* taken.
THEOREM LockIsNeverLost == Spec => []LockHeldByFetcher
<1>1. Init => LockHeldByFetcher
  BY DeployAssumption DEF Init, LockHeldByFetcher
<1>2. TypeOK /\ LockHeldByFetcher /\ [Next]_vars => LockHeldByFetcher'
  BY NextLock
<1> QED
  BY <1>1, <1>2, TypeCorrect, PTL DEF Spec

-----------------------------------------------------------------------------
(* At most one execution                                                    *)

\* A task is answered, and carried out, with its last step only.
Unanswered(c) == pc[c] # "done" => executed[c] = 0 /\ answer[c] = "none"
\* What the three conjuncts of ExecutedAtMostOnce say of one task.
Once(c) ==
  /\ executed[c] <= 1
  /\ answer[c] = "ok" => executed[c] = 1
  /\ answer[c] = "auth_error" => executed[c] = 0
OnceInv == \A c \in Tasks : Unanswered(c) /\ Once(c)

\* The step of the task itself.
LEMMA OnceStep ==
  ASSUME TypeOK, NEW c \in Tasks, Unanswered(c), Once(c), Begin(c) \/ TaskStep(c)
  PROVE  Unanswered(c)' /\ Once(c)'
<1> USE DEF TypeOK, Unanswered, Once
<1>1. CASE Begin(c)
  BY <1>1 DEF Begin
<1>2. CASE Acquire(c)
  BY <1>2 DEF Acquire
<1>3. CASE Issue(c)
  BY <1>3 DEF Issue
<1>4. CASE Receive(c)
  BY <1>4 DEF Receive
<1>5. CASE FetchFails(c)
  BY <1>5 DEF FetchFails, Respond, Goto
<1>6. CASE Accepted(c)
  BY <1>6 DEF Accepted, Execute, Respond, Goto
<1>7. CASE ErrorAnswered(c) \/ TransportFails(c)
  BY <1>7 DEF ErrorAnswered, TransportFails, Execute, Respond, Goto
<1>8. CASE Unauthorized(c)
  BY <1>8 DEF Unauthorized
<1>9. CASE UnauthorizedAgain(c)
  BY <1>9 DEF UnauthorizedAgain, Respond, Goto
<1> QED
  BY <1>1, <1>2, <1>3, <1>4, <1>5, <1>6, <1>7, <1>8, <1>9 DEF TaskStep

\* The invariant of all tasks.
LEMMA NextOnce == TypeOK /\ OnceInv /\ [Next]_vars => OnceInv'
<1> SUFFICES ASSUME TypeOK, OnceInv, [Next]_vars, NEW e \in Tasks
             PROVE  Unanswered(e)' /\ Once(e)'
  BY DEF OnceInv
<1>1. Unanswered(e) /\ Once(e)
  BY DEF OnceInv
<1>2. ASSUME NEW c \in Tasks, Begin(c) \/ TaskStep(c), Alone(c)
      PROVE  Unanswered(e)' /\ Once(e)'
  <2>1. CASE e = c
    BY <1>1, <1>2, <2>1, OnceStep
  <2>2. CASE e # c
    BY <1>1, <1>2, <2>2 DEF Alone, Unanswered, Once
  <2> QED
    BY <2>1, <2>2
<1>3. CASE Quiet
  BY <1>1, <1>3 DEF Quiet, task, Unanswered, Once
<1> QED
  BY <1>2, <1>3, WhoMoves

\* It holds of every behaviour.
LEMMA OnceInvariant == Spec => []OnceInv
<1>1. Init => OnceInv
  BY DEF Init, OnceInv, Unanswered, Once
<1>2. TypeOK /\ OnceInv /\ [Next]_vars => OnceInv'
  BY NextOnce
<1> QED
  BY <1>1, <1>2, TypeCorrect, PTL DEF Spec

\* No request is carried out twice; a success was carried out, a failure to
\* authenticate was not.
THEOREM RequestsAreNotRepeated == Spec => []ExecutedAtMostOnce
<1>1. OnceInv => ExecutedAtMostOnce
  BY DEF OnceInv, Once, ExecutedAtMostOnce
<1> QED
  BY <1>1, OnceInvariant, PTL

-----------------------------------------------------------------------------
(* Tokens on their way                                                      *)

\* A token in flight was issued no longer than FetchTime ago, and nobody has
\* it yet: neither the manager, nor a header, nor a 401.
InFlight(c) ==
  pc[c] = "reply" =>
    /\ inflight[c] \in Issued /\ now <= IssuedAt(c) + FetchTime
    /\ inflight[c] # token
    /\ \A e \in Tasks :
         /\ inflight[c] # header[e] /\ inflight[c] # rejected[e]
         /\ e # c => inflight[c] # inflight[e]
FlightInv == \A c \in Tasks : InFlight(c)

\* Issuing puts a token in flight that nobody can have yet.
LEMMA IssueFlight ==
  ASSUME TypeOK, FlightInv, NEW c \in Tasks, Issue(c)
  PROVE  FlightInv'
<1> DEFINE new == Len(expiry) + 1
<1>1. /\ \A t \in Issued : expiry'[t] = expiry[t]
      /\ expiry'[new] = now + Lifetime /\ Issued \subseteq Issued' /\ new \in Issued'
  BY IssueAppends
<1>2. new \notin Issued /\ new # NoToken
  BY DEF Issued, NoToken, TypeOK
<1>3. /\ inflight' = [inflight EXCEPT ![c] = new] /\ pc' = [pc EXCEPT ![c] = "reply"]
      /\ now' = now /\ token' = token /\ header' = header /\ rejected' = rejected
  BY DEF Issue, Goto, manager
<1>4. \A e \in Tasks : inflight[e] # new /\ header[e] # new /\ rejected[e] # new
  BY <1>2 DEF TypeOK
<1>5. token # new
  BY <1>2 DEF TypeOK
<1>6. InFlight(c)'
  <2>1. inflight'[c] = new
    BY <1>3 DEF TypeOK
  <2>2. now' <= (IssuedAt(c) + FetchTime)'
    BY <1>1, <1>3, <2>1, DeployAssumption DEF IssuedAt, TypeOK
  <2>3. \A e \in Tasks \ {c} : inflight'[e] = inflight[e]
    BY <1>3 DEF TypeOK
  <2> QED
    BY <1>1, <1>3, <1>4, <1>5, <2>1, <2>2, <2>3 DEF InFlight
<1>7. ASSUME NEW b \in Tasks \ {c} PROVE InFlight(b)'
  <2>1. inflight'[b] = inflight[b] /\ pc'[b] = pc[b]
    BY <1>3, <1>7 DEF TypeOK
  <2>2. InFlight(b)
    BY <1>7 DEF FlightInv
  <2>3. ASSUME pc'[b] = "reply" PROVE now' <= (IssuedAt(b) + FetchTime)'
    BY <1>1, <1>3, <2>1, <2>2, <2>3 DEF IssuedAt, InFlight
  <2>4. ASSUME pc'[b] = "reply", NEW e \in Tasks PROVE e # b => inflight'[b] # inflight'[e]
    BY <1>3, <1>4, <1>7, <2>1, <2>2, <2>4 DEF InFlight, TypeOK
  <2> QED
    BY <1>1, <1>3, <2>1, <2>2, <2>3, <2>4 DEF InFlight
<1> QED
  BY <1>6, <1>7 DEF FlightInv

\* What every other step of a task does to the tokens: none is put in flight,
\* and what was in flight to somebody else is handed to nobody.
LEMMA TaskFlight ==
  ASSUME TypeOK, FlightInv, NEW c \in Tasks, Begin(c) \/ TaskStep(c), ~Issue(c), Alone(c)
  PROVE  FlightInv'
<1>1. /\ now' = now /\ expiry' = expiry
      /\ inflight'[c] = inflight[c] \/ inflight'[c] = NoToken
      /\ pc'[c] # "reply"
      /\ token' = token \/ (pc[c] = "reply" /\ token' = inflight[c])
      /\ \/ header'[c] = header[c] \/ header'[c] = token
         \/ pc[c] = "reply" /\ header'[c] = inflight[c]
      /\ rejected'[c] = rejected[c] \/ rejected'[c] = header[c]
  <2> USE DEF TypeOK
  <2>1. CASE Begin(c)
    BY <2>1 DEF Begin, GetToken, HandOut, Goto, service
  <2>2. CASE Acquire(c)
    BY <2>2 DEF Acquire, GetToken, HandOut, Goto, service
  <2>3. CASE Receive(c)
    BY <2>3 DEF Receive, HandOut, Goto, service
  <2>4. CASE FetchFails(c)
    BY <2>4 DEF FetchFails, Respond, Goto, service
  <2>5. CASE Accepted(c) \/ ErrorAnswered(c) \/ TransportFails(c)
    BY <2>5 DEF Accepted, ErrorAnswered, TransportFails, Respond, Goto, service, manager
  <2>6. CASE Unauthorized(c) \/ UnauthorizedAgain(c)
    BY <2>6 DEF Unauthorized, UnauthorizedAgain, Respond, Goto, service, manager
  <2> QED
    BY <2>1, <2>2, <2>3, <2>4, <2>5, <2>6 DEF TaskStep
<1>2. SUFFICES ASSUME NEW b \in Tasks \ {c}, pc'[b] = "reply" PROVE InFlight(b)'
  BY <1>1 DEF FlightInv, InFlight
<1>3. /\ inflight'[b] = inflight[b] /\ pc[b] = "reply" /\ InFlight(b)
  BY <1>2 DEF Alone, FlightInv
<1>4. inflight[b] \in Issued' /\ now' <= (IssuedAt(b) + FetchTime)'
  BY <1>1, <1>3 DEF InFlight, Issued, IssuedAt
<1>5. inflight[b] # token'
  BY <1>1, <1>2, <1>3 DEF InFlight
<1>6. ASSUME NEW e \in Tasks
      PROVE  /\ inflight[b] # header'[e] /\ inflight[b] # rejected'[e]
             /\ e # b => inflight[b] # inflight'[e]
  <2>1. CASE e = c
    <3>1. inflight[b] # NoToken
      BY <1>3 DEF InFlight, Issued, NoToken
    <3> QED
      BY <1>1, <1>3, <2>1, <3>1 DEF InFlight
  <2>2. CASE e # c
    BY <1>3, <2>2 DEF Alone, InFlight
  <2> QED
    BY <2>1, <2>2
<1> QED
  BY <1>3, <1>4, <1>5, <1>6 DEF InFlight

\* The clock does not outrun what is in flight, and a rejection leaves it alone.
LEMMA NextFlight == TypeOK /\ FlightInv /\ [Next]_vars => FlightInv'
<1> SUFFICES ASSUME TypeOK, FlightInv, [Next]_vars PROVE FlightInv'
  OBVIOUS
<1>1. ASSUME NEW c \in Tasks, Begin(c) \/ TaskStep(c) PROVE FlightInv'
  BY <1>1, IssueFlight, TaskFlight, TaskAlone
<1>2. CASE Tick
  <2> SUFFICES ASSUME NEW c \in Tasks, pc[c] = "reply" PROVE InFlight(c)'
    BY <1>2 DEF FlightInv, InFlight, Tick, task
  <2>1. InFlight(c) /\ now < IssuedAt(c) + FetchTime /\ now' = now + 1
    BY <1>2 DEF FlightInv, Tick
  <2>2. IssuedAt(c) + FetchTime \in Int
    BY <2>1, DeployAssumption DEF InFlight, IssuedAt, Issued, TypeOK
  <2>3. now' <= IssuedAt(c) + FetchTime
    BY <2>1, <2>2 DEF TypeOK
  <2> QED
    BY <1>2, <2>1, <2>3 DEF InFlight, Tick, IssuedAt, Issued, service, manager, task
<1>3. CASE Revoke
  BY <1>3 DEF Revoke, FlightInv, InFlight, IssuedAt, Issued, manager, task
<1>4. CASE UNCHANGED vars
  BY <1>4 DEF FlightInv, InFlight, IssuedAt, Issued, vars, service, manager, task
<1> QED
  BY <1>1, <1>2, <1>3, <1>4 DEF Next

\* It holds of every behaviour.
LEMMA FlightInvariant == Spec => []FlightInv
<1>1. Init => FlightInv
  BY DEF Init, FlightInv, InFlight
<1>2. TypeOK /\ FlightInv /\ [Next]_vars => FlightInv'
  BY NextFlight
<1> QED
  BY <1>1, <1>2, TypeCorrect, PTL DEF Spec

-----------------------------------------------------------------------------
(* How long a token is trusted                                              *)

\* What arrives now was issued at most FetchTime ago, and the buffer covers it.
LEMMA NextTrust ==
  TypeOK /\ FlightInv /\ TrustEndsBeforeExpiry /\ [Next]_vars => TrustEndsBeforeExpiry'
<1> SUFFICES ASSUME TypeOK, FlightInv, TrustEndsBeforeExpiry, [Next]_vars PROVE TrustEndsBeforeExpiry'
  OBVIOUS
<1>1. ASSUME NEW c \in Tasks, Receive(c) PROVE TrustEndsBeforeExpiry'
  <2>1. /\ inflight[c] \in Issued /\ now <= expiry[inflight[c]] - Lifetime + FetchTime
    BY <1>1 DEF FlightInv, InFlight, IssuedAt, Receive
  <2>2. /\ token' = inflight[c] /\ expireAt' = now + Lifetime - Buffer /\ expiry' = expiry
    BY <1>1 DEF Receive, TrustedUntil, service
  <2>3. expiry[inflight[c]] \in Nat /\ now \in Nat
    BY <2>1 DEF TypeOK, Issued
  <2>4. now + Lifetime - Buffer <= expiry[inflight[c]]
    BY <2>1, <2>3, DeployAssumption
  <2> QED
    BY <2>2, <2>4 DEF TrustEndsBeforeExpiry
<1>2. ASSUME NEW c \in Tasks, Issue(c) PROVE TrustEndsBeforeExpiry'
  <2>1. token' = token /\ expireAt' = expireAt
    BY <1>2 DEF Issue, manager
  <2>2. token # NoToken => expiry'[token] = expiry[token]
    BY <1>2, IssueAppends DEF TypeOK
  <2> QED
    BY <2>1, <2>2 DEF TrustEndsBeforeExpiry
<1>3. ASSUME NEW c \in Tasks, Begin(c) \/ TaskStep(c), ~Receive(c), ~Issue(c)
      PROVE  UNCHANGED <<token, expireAt, expiry>>
  BY <1>3 DEF TaskStep, Begin, Acquire, FetchFails, Accepted, ErrorAnswered, TransportFails, Unauthorized,
     UnauthorizedAgain, manager, service
<1>4. CASE Tick \/ Revoke \/ UNCHANGED vars
  BY <1>4 DEF Tick, Revoke, vars, service, manager, TrustEndsBeforeExpiry
<1>5. CASE UNCHANGED <<token, expireAt, expiry>>
  BY <1>5 DEF TrustEndsBeforeExpiry
<1> QED
  BY <1>1, <1>2, <1>3, <1>4, <1>5 DEF Next

\* The manager gives a token up no later than deploy-service does.
THEOREM TrustIsShorterThanLife == Spec => []TrustEndsBeforeExpiry
<1>1. Init => TrustEndsBeforeExpiry
  BY DeployAssumption DEF Init, TrustEndsBeforeExpiry, NoToken
<1>2. TypeOK /\ FlightInv /\ TrustEndsBeforeExpiry /\ [Next]_vars => TrustEndsBeforeExpiry'
  BY NextTrust
<1> QED
  BY <1>1, <1>2, TypeCorrect, FlightInvariant, PTL DEF Spec

-----------------------------------------------------------------------------
(* The retry                                                                *)

\* A task that has refreshed after a 401 finds another token in the manager as
\* long as it waits for the lock, and has another one in its header.
Retry(c) ==
  /\ pc[c] = "idle" => attempt[c] = 1
  /\ (pc[c] = "lock" /\ attempt[c] = 2) => token # rejected[c]
  /\ (pc[c] = "send" /\ attempt[c] = 2) => header[c] # rejected[c]
RetryInv == \A c \in Tasks : Retry(c)

\* The step of the task itself.
LEMMA RetryStep ==
  ASSUME TypeOK, FlightInv, NEW c \in Tasks, Retry(c), Begin(c) \/ TaskStep(c)
  PROVE  Retry(c)'
<1> USE DEF TypeOK, Retry
<1>1. CASE Begin(c)
  BY <1>1 DEF Begin, GetToken, HandOut, Goto
<1>2. CASE Acquire(c)
  BY <1>2 DEF Acquire, GetToken, HandOut, Goto
<1>3. CASE Issue(c)
  BY <1>3 DEF Issue, Goto
<1>4. CASE Receive(c)
  <2>1. inflight[c] # rejected[c] /\ attempt' = attempt /\ rejected' = rejected
    BY <1>4 DEF Receive, FlightInv, InFlight
  <2>2. /\ pc'[c] \in {"send", "lock", "fetch"} /\ token' = inflight[c]
        /\ pc'[c] = "send" => header'[c] = inflight[c]
    BY <1>4 DEF Receive, HandOut, Goto
  <2> QED
    BY <2>1, <2>2
<1>5. CASE FetchFails(c)
  BY <1>5 DEF FetchFails, Respond, Goto
<1>6. CASE Accepted(c) \/ ErrorAnswered(c) \/ TransportFails(c)
  BY <1>6 DEF Accepted, ErrorAnswered, TransportFails, Respond, Goto
<1>7. CASE Unauthorized(c) \/ UnauthorizedAgain(c)
  BY <1>7 DEF Unauthorized, UnauthorizedAgain, Respond, Goto
<1> QED
  BY <1>1, <1>2, <1>3, <1>4, <1>5, <1>6, <1>7 DEF TaskStep

\* Another task stores only what it has just been given.
LEMMA TokenStep ==
  ASSUME TypeOK, NEW c \in Tasks, Begin(c) \/ TaskStep(c)
  PROVE  token' = token \/ (pc[c] = "reply" /\ token' = inflight[c])
  BY DEF TaskStep, Begin, Acquire, Issue, Receive, FetchFails, Accepted, ErrorAnswered, TransportFails,
     Unauthorized, UnauthorizedAgain, manager

\* The invariant of all tasks.
LEMMA NextRetry == TypeOK /\ FlightInv /\ RetryInv /\ [Next]_vars => RetryInv'
<1> SUFFICES ASSUME TypeOK, FlightInv, RetryInv, [Next]_vars, NEW e \in Tasks PROVE Retry(e)'
  BY DEF RetryInv
<1>1. Retry(e)
  BY DEF RetryInv
<1>2. ASSUME NEW c \in Tasks, Begin(c) \/ TaskStep(c), Alone(c) PROVE Retry(e)'
  <2>1. CASE e = c
    BY <1>1, <1>2, <2>1, RetryStep
  <2>2. CASE e # c
    <3>1. token' = token \/ token' # rejected[e]
      BY <1>2, TokenStep DEF FlightInv, InFlight
    <3> QED
      BY <1>1, <1>2, <2>2, <3>1 DEF Alone, Retry
  <2> QED
    BY <2>1, <2>2
<1>3. CASE Quiet
  BY <1>1, <1>3 DEF Quiet, manager, task, Retry
<1> QED
  BY <1>2, <1>3, WhoMoves

\* The second send never carries the token that was just rejected.
THEOREM RetriesHaveAnotherToken == Spec => []RetryUsesAnotherToken
<1>1. Init => RetryInv
  BY DEF Init, RetryInv, Retry
<1>2. TypeOK /\ FlightInv /\ RetryInv /\ [Next]_vars => RetryInv'
  BY NextRetry
<1>3. RetryInv => RetryUsesAnotherToken
  BY DEF RetryInv, Retry, RetryUsesAnotherToken
<1> QED
  BY <1>1, <1>2, <1>3, TypeCorrect, FlightInvariant, PTL DEF Spec

-----------------------------------------------------------------------------
(* A cold start                                                             *)

\* The premise of ColdStartFetchesOnce.
Cold ==
  /\ ~CachedToken /\ revocations = 0 /\ now < Lifetime - Buffer
  /\ \A c \in Tasks : answer[c] \notin {"auth_error", "transport_error"}

\* During it one token is issued, at most, and it stays good; who fetches it
\* holds the lock, so nobody else does, and nobody is refused.
OneToken ==
  /\ Len(expiry) <= 1 /\ revoked = {}
  /\ \A t \in Issued : expiry[t] >= Lifetime
  /\ token # NoToken => expireAt >= Lifetime - Buffer
OneFetch ==
  /\ \A c \in Tasks :
       /\ pc[c] \in {"fetch", "reply"} => lock = c /\ token = NoToken
       /\ pc[c] = "fetch" => Len(expiry) = 0
       /\ pc[c] = "send" => header[c] \in Issued
  /\ token = NoToken => Len(expiry) = 0 \/ \E c \in Tasks : pc[c] = "reply"
ColdInv == Cold => OneToken /\ OneFetch

\* A start that is still cold was cold before.
LEMMA ColdBefore ==
  ASSUME TypeOK, OnceInv, [Next]_vars, Cold'
  PROVE  Cold
<1>1. revocations = 0
  <2>1. ASSUME NEW c \in Tasks, Begin(c) \/ TaskStep(c) PROVE revocations' = revocations
    BY <2>1 DEF TaskStep, Begin, Acquire, Issue, Receive, FetchFails, Accepted, ErrorAnswered, TransportFails,
       Unauthorized, UnauthorizedAgain, service
  <2>2. CASE Revoke
    BY <2>2 DEF Revoke, Cold, TypeOK
  <2> QED
    BY <2>1, <2>2 DEF Next, Cold, Tick, vars, service
<1>2. now <= now' /\ now \in Int /\ now' \in Int
  <2>1. ASSUME NEW c \in Tasks, Begin(c) \/ TaskStep(c) PROVE now' = now
    BY <2>1 DEF TaskStep, Begin, Acquire, Issue, Receive, FetchFails, Accepted, ErrorAnswered, TransportFails,
       Unauthorized, UnauthorizedAgain
  <2> QED
    BY <2>1 DEF Next, Tick, Revoke, vars, TypeOK
<1>3. now < Lifetime - Buffer
  BY <1>2, DeployAssumption DEF Cold
<1>4. ASSUME NEW e \in Tasks PROVE answer[e] \notin {"auth_error", "transport_error"}
  <2>1. ASSUME NEW c \in Tasks, Begin(c) \/ TaskStep(c), Alone(c)
        PROVE  answer[e] = answer'[e] \/ answer[e] = "none"
    <3>1. CASE e = c
      <4>1. pc[c] # "done"
        BY <2>1 DEF TaskStep, Begin, Acquire, Issue, Receive, FetchFails, Accepted, ErrorAnswered,
           TransportFails, Unauthorized, UnauthorizedAgain
      <4> QED
        BY <3>1, <4>1 DEF OnceInv, Unanswered
    <3>2. CASE e # c
      BY <2>1, <3>2 DEF Alone
    <3> QED
      BY <3>1, <3>2
  <2>2. CASE Quiet
    BY <2>2 DEF Quiet, task, Cold
  <2> QED
    BY <2>1, <2>2, WhoMoves DEF Cold
<1> QED
  BY <1>1, <1>3, <1>4 DEF Cold

\* Whoever has the lock for the first time fetches the first token; later the
\* token is there and good.
LEMMA ColdGetToken ==
  ASSUME TypeOK, Cold, OneToken, OneFetch, NEW c \in Tasks, lock = Free, GetToken(c)
  PROVE  \/ token = NoToken /\ Len(expiry) = 0 /\ pc' = [pc EXCEPT ![c] = "fetch"] /\ lock' = c
            /\ header' = header
         \/ token \in Issued /\ pc' = [pc EXCEPT ![c] = "send"] /\ lock' = lock
            /\ header' = [header EXCEPT ![c] = token]
<1>1. \A e \in Tasks : pc[e] \notin {"fetch", "reply"}
  BY DeployAssumption DEF OneFetch
<1>2. token = NoToken => Len(expiry) = 0
  BY <1>1 DEF OneFetch
<1>3. token # NoToken => token \in Issued /\ ~Expired
  BY DeployAssumption DEF Expired, Cold, OneToken, TypeOK
<1> QED
  BY <1>2, <1>3 DEF GetToken, HandOut, Goto

\* What follows from it for the task and for the others.
LEMMA ColdHeaders ==
  ASSUME TypeOK, Cold, OneToken, OneFetch, NEW c \in Tasks, Begin(c) \/ Acquire(c)
  PROVE  OneToken' /\ OneFetch'
<1>1. UNCHANGED <<now, expiry, revoked, token, expireAt>>
  BY DEF Begin, Acquire, service
<1>2. OneToken'
  BY <1>1 DEF OneToken, Issued
<1>3. CASE ~MayAcquire(c) /\ Begin(c)
  <2>1. pc[c] = "idle" /\ pc' = [pc EXCEPT ![c] = "lock"] /\ lock' = lock /\ header' = header
    BY <1>3 DEF Begin, Goto
  <2> QED
    BY <1>1, <1>2, <2>1 DEF OneFetch, Issued, TypeOK
<1>4. CASE lock = Free /\ GetToken(c)
  <2>0. pc[c] # "reply"
    BY DEF Begin, Acquire
  <2>1. \A e \in Tasks : pc[e] \notin {"fetch", "reply"}
    BY <1>4, DeployAssumption DEF OneFetch
  <2>2. CASE token = NoToken /\ Len(expiry) = 0 /\ pc' = [pc EXCEPT ![c] = "fetch"] /\ lock' = c
             /\ header' = header
    BY <1>1, <1>2, <2>1, <2>2 DEF OneFetch, Issued, TypeOK
  <2>3. CASE token \in Issued /\ pc' = [pc EXCEPT ![c] = "send"] /\ lock' = lock
             /\ header' = [header EXCEPT ![c] = token]
    BY <1>1, <1>2, <2>1, <2>3 DEF OneFetch, Issued, TypeOK, NoToken
  <2> QED
    BY <1>4, <2>2, <2>3, ColdGetToken
<1> QED
  BY <1>3, <1>4 DEF Begin, Acquire, MayAcquire

\* The fetch of the first token: it is issued and it arrives.
LEMMA ColdFetch ==
  ASSUME TypeOK, FlightInv, Cold, OneToken, OneFetch, NEW c \in Tasks, Issue(c) \/ Receive(c)
  PROVE  OneToken' /\ OneFetch'
<1>1. lock = c /\ token = NoToken
  BY DEF OneFetch, Issue, Receive
<1>2. \A e \in Tasks \ {c} : pc[e] \notin {"fetch", "reply"}
  BY <1>1 DEF OneFetch
<1>3. CASE Issue(c)
  <2>1. Len(expiry) = 0 /\ Issued = {}
    BY <1>3 DEF Issue, OneFetch, Issued
  <2>2. Len(expiry') = 1 /\ Issued' = {1} /\ expiry'[1] = now + Lifetime
    <3>1. expiry' = Append(expiry, now + Lifetime) /\ now + Lifetime \in Nat /\ expiry \in Seq(Nat)
      BY <1>3, DeployAssumption DEF Issue, TypeOK
    <3>2. Len(expiry') = 1 /\ expiry'[1] = now + Lifetime
      BY <3>1, <2>1
    <3> QED
      BY <3>2 DEF Issued
  <2>3. now + Lifetime >= Lifetime
    BY DeployAssumption DEF TypeOK
  <2>4. /\ pc' = [pc EXCEPT ![c] = "reply"] /\ lock' = lock /\ token' = token
        /\ expireAt' = expireAt /\ header' = header /\ revoked' = revoked
    BY <1>3 DEF Issue, Goto, manager
  <2>5. OneToken'
    BY <1>1, <2>2, <2>3, <2>4 DEF OneToken
  <2>6. OneFetch'
    BY <1>1, <1>2, <2>1, <2>4 DEF OneFetch, TypeOK
  <2> QED
    BY <2>5, <2>6
<1>4. CASE Receive(c)
  <2>1. /\ token' = inflight[c] /\ expireAt' = now + Lifetime - Buffer
        /\ expiry' = expiry /\ revoked' = revoked
        /\ pc' = [pc EXCEPT ![c] = "send"] /\ header' = [header EXCEPT ![c] = inflight[c]]
    BY <1>1, <1>4 DEF Receive, TrustedUntil, HandOut, Goto, service
  <2>2. inflight[c] \in Issued /\ inflight[c] # NoToken
    BY <1>4 DEF FlightInv, InFlight, Receive, Issued, NoToken
  <2>3. now + Lifetime - Buffer >= Lifetime - Buffer
    BY DeployAssumption DEF TypeOK
  <2>4. OneToken'
    BY <2>1, <2>3 DEF OneToken, Issued
  <2>5. OneFetch'
    BY <1>2, <2>1, <2>2 DEF OneFetch, Issued, TypeOK
  <2> QED
    BY <2>4, <2>5
<1> QED
  BY <1>3, <1>4

\* A start that stays cold: nobody is refused, and nothing else disturbs it.
LEMMA NextCold == TypeOK /\ OnceInv /\ FlightInv /\ ColdInv /\ [Next]_vars => ColdInv'
<1> SUFFICES ASSUME TypeOK, OnceInv, FlightInv, ColdInv, [Next]_vars, Cold'
             PROVE  OneToken' /\ OneFetch'
  BY DEF ColdInv
<1>1. Cold /\ OneToken /\ OneFetch
  BY ColdBefore DEF ColdInv
<1>2. ASSUME NEW c \in Tasks, Begin(c) \/ Acquire(c) PROVE OneToken' /\ OneFetch'
  BY <1>1, <1>2, ColdHeaders
<1>3. ASSUME NEW c \in Tasks, Issue(c) \/ Receive(c) PROVE OneToken' /\ OneFetch'
  BY <1>1, <1>3, ColdFetch
<1>4. ASSUME NEW c \in Tasks, FetchFails(c) PROVE FALSE
  <2>1. answer'[c] \in {"auth_error", "transport_error"}
    BY <1>4 DEF FetchFails, Respond, TypeOK
  <2> QED
    BY <2>1 DEF Cold
<1>5. ASSUME NEW c \in Tasks, Accepted(c) \/ ErrorAnswered(c) \/ TransportFails(c)
      PROVE  OneToken' /\ OneFetch'
  <2>1. /\ UNCHANGED <<expiry, revoked, token, expireAt, lock, header>>
        /\ pc[c] = "send" /\ pc' = [pc EXCEPT ![c] = "done"]
    BY <1>5 DEF Accepted, ErrorAnswered, TransportFails, Respond, Goto, service, manager
  <2> QED
    BY <1>1, <2>1 DEF OneToken, OneFetch, Issued, TypeOK
<1>6. ASSUME NEW c \in Tasks, Unauthorized(c) \/ UnauthorizedAgain(c) PROVE FALSE
  <2>1. pc[c] = "send" /\ ~Live(header[c])
    BY <1>6 DEF Unauthorized, UnauthorizedAgain
  <2>2. header[c] \in Issued /\ expiry[header[c]] >= Lifetime /\ revoked = {}
    BY <1>1, <2>1 DEF OneFetch, OneToken
  <2>3. expiry[header[c]] \in Nat /\ now < expiry[header[c]]
    BY <1>1, <2>2, DeployAssumption DEF Cold, TypeOK, Issued
  <2> QED
    BY <2>1, <2>2, <2>3 DEF Live
<1>7. CASE Tick \/ UNCHANGED vars
  BY <1>1, <1>7 DEF Tick, vars, service, manager, task, OneToken, OneFetch, Issued
<1>8. CASE Revoke
  BY <1>8 DEF Revoke, Cold, TypeOK
<1> QED
  BY <1>2, <1>3, <1>4, <1>5, <1>6, <1>7, <1>8 DEF Next, TaskStep

\* However many requests come at once, a cold start fetches one token.
THEOREM ColdStartsFetchOnce == Spec => []ColdStartFetchesOnce
<1>1. Init => ColdInv
  BY DEF Init, ColdInv, Cold, OneToken, OneFetch, Issued, NoToken
<1>2. TypeOK /\ OnceInv /\ FlightInv /\ ColdInv /\ [Next]_vars => ColdInv'
  BY NextCold
<1>3. ColdInv => ColdStartFetchesOnce
  BY DEF ColdInv, Cold, OneToken, ColdStartFetchesOnce
<1> QED
  BY <1>1, <1>2, <1>3, TypeCorrect, OnceInvariant, FlightInvariant, PTL DEF Spec

-----------------------------------------------------------------------------
(* The promise is kept                                                      *)

\* What is sent is a token that was issued, and the second attempt is the one
\* that has seen a 401.
Sent(c) ==
  /\ pc[c] = "send" => header[c] \in Issued
  /\ attempt[c] = 1 <=> rejected[c] = NoToken
SentInv == \A c \in Tasks : Sent(c)

\* Issued tokens are numbers from 1 on, and stay issued.
LEMMA IssuedGrows ==
  ASSUME TypeOK, [Next]_vars
  PROVE  Issued \subseteq Issued' /\ NoToken \notin Issued /\ NoToken \notin Issued'
<1>1. NoToken \notin Issued /\ NoToken \notin Issued'
  BY DEF Issued, NoToken
<1>2. ASSUME NEW c \in Tasks, Issue(c) PROVE Issued \subseteq Issued'
  BY <1>2, IssueAppends
<1>3. ASSUME expiry' = expiry PROVE Issued \subseteq Issued'
  <2>1. Issued' = Issued
    BY <1>3, Zenon DEF Issued
  <2> QED
    BY <2>1
<1>4. ASSUME NEW c \in Tasks, Begin(c) \/ TaskStep(c) PROVE Issue(c) \/ expiry' = expiry
  BY <1>4 DEF TaskStep, Begin, Acquire, Receive, FetchFails, Accepted, ErrorAnswered, TransportFails, Unauthorized,
              UnauthorizedAgain, service
<1>5. CASE Tick \/ Revoke \/ UNCHANGED vars
  BY <1>1, <1>3, <1>5 DEF Tick, Revoke, vars, service
<1> QED
  BY <1>1, <1>2, <1>3, <1>4, <1>5 DEF Next

\* A task that comes to send has been handed a token.
LEMMA HandedOut ==
  ASSUME TypeOK, FlightInv, NEW c \in Tasks, Begin(c) \/ Acquire(c) \/ Receive(c), pc'[c] = "send"
  PROVE  header'[c] \in Issued
<1> USE DEF TypeOK
<1>1. CASE Begin(c) \/ Acquire(c)
  BY <1>1 DEF Begin, Acquire, GetToken, HandOut, Goto
<1>2. CASE Receive(c)
  <2>1. inflight[c] \in Issued
    BY <1>2 DEF Receive, FlightInv, InFlight
  <2>2. header'[c] = inflight[c]
    BY <1>2 DEF Receive, HandOut, Goto
  <2> QED
    BY <2>1, <2>2
<1> QED
  BY <1>1, <1>2

LEMMA SentStep ==
  ASSUME TypeOK, FlightInv, NEW c \in Tasks, Sent(c), Begin(c) \/ TaskStep(c), Issued \subseteq Issued',
         NoToken \notin Issued
  PROVE  Sent(c)'
<1> USE DEF TypeOK, Sent
<1>1. CASE Begin(c) \/ Acquire(c) \/ Receive(c)
  <2>1. attempt' = attempt /\ rejected' = rejected
    BY <1>1 DEF Begin, Acquire, Receive
  <2>2. pc'[c] = "send" => header'[c] \in Issued
    BY <1>1, HandedOut
  <2> QED
    BY <2>1, <2>2
<1>2. CASE Issue(c)
  BY <1>2 DEF Issue, Goto
<1>3. CASE FetchFails(c)
  BY <1>3 DEF FetchFails, Respond, Goto
<1>4. CASE Accepted(c) \/ ErrorAnswered(c) \/ TransportFails(c) \/ UnauthorizedAgain(c)
  BY <1>4 DEF Accepted, ErrorAnswered, TransportFails, UnauthorizedAgain, Respond, Goto
<1>5. CASE Unauthorized(c)
  BY <1>5 DEF Unauthorized, Goto
<1> QED
  BY <1>1, <1>2, <1>3, <1>4, <1>5 DEF TaskStep

LEMMA NextSent == TypeOK /\ FlightInv /\ SentInv /\ [Next]_vars => SentInv'
<1> SUFFICES ASSUME TypeOK, FlightInv, SentInv, [Next]_vars, NEW e \in Tasks PROVE Sent(e)'
  BY DEF SentInv
<1>1. Sent(e)
  BY DEF SentInv
<1>2. Issued \subseteq Issued' /\ NoToken \notin Issued
  BY IssuedGrows
<1>3. ASSUME NEW c \in Tasks, Begin(c) \/ TaskStep(c), Alone(c) PROVE Sent(e)'
  <2>1. CASE e = c
    BY <1>1, <1>2, <1>3, <2>1, SentStep
  <2>2. CASE e # c
    BY <1>1, <1>2, <1>3, <2>2 DEF Alone, Sent
  <2> QED
    BY <2>1, <2>2
<1>4. CASE Quiet
  BY <1>1, <1>2, <1>4 DEF Quiet, task, Sent
<1> QED
  BY <1>3, <1>4, WhoMoves

\* What is on its way changes with the task that moves only.
LEMMA CarriedStep ==
  ASSUME TypeOK, NEW c \in Tasks, Alone(c)
  PROVE  Carried' = [Carried EXCEPT ![c] = IF pc'[c] = "send" THEN header'[c] ELSE NoToken]
BY DEF Carried, Alone

\* A task that is not about to send has nothing on its way.
LEMMA OneCarried ==
  ASSUME TypeOK, NEW c \in Tasks, Alone(c)
  PROVE  /\ pc'[c] = "send" => Carried' = [Carried EXCEPT ![c] = header'[c]]
         /\ pc'[c] # "send" => Carried' = [Carried EXCEPT ![c] = NoToken]
         /\ (pc'[c] # "send" /\ pc[c] # "send") => Carried' = Carried
         /\ pc[c] = "send" => Carried[c] = header[c]
         /\ pc[c] # "send" => Carried[c] = NoToken
<1>1. Carried' = [Carried EXCEPT ![c] = IF pc'[c] = "send" THEN header'[c] ELSE NoToken]
  BY CarriedStep
<1>2. Carried[c] = IF pc[c] = "send" THEN header[c] ELSE NoToken
  BY DEF Carried
<1>3. Carried = [e \in Tasks |-> IF pc[e] = "send" THEN header[e] ELSE NoToken]
  BY DEF Carried
<1> QED
  BY <1>1, <1>2, <1>3

\* The step of a task is one of its call: a token that is handed out is sent, a
\* first 401 is a refusal, and whatever answers the task answers the call.
LEMMA OwnStepPromised ==
  ASSUME TypeOK, [Next]_vars, FlightInv, NEW c \in Tasks, Begin(c) \/ TaskStep(c), Alone(c),
         Unanswered(c), Sent(c), Sent(c)', Retry(c)'
  PROVE  Promise!Next \/ UNCHANGED Promise!promise
<1>1. Issued \subseteq Issued' /\ NoToken \notin Issued /\ NoToken \notin Issued'
  BY IssuedGrows
<1>2. pc[c] = "send" => Carried[c] # NoToken /\ Carried[c] = header[c]
  BY <1>1, OneCarried DEF Sent
<1>3. pc[c] # "send" => Carried[c] = NoToken
  BY OneCarried
<1>4. CASE Begin(c) \/ Acquire(c) \/ Receive(c)
  <2>1. /\ UNCHANGED <<expiry, rejected, executed, answer, attempt>>
        /\ pc[c] \notin {"send", "done"}
    BY <1>4 DEF Begin, Acquire, Receive, service
  <2>2. Issued' = Issued
    BY <2>1, Zenon DEF Issued
  <2>3. CASE pc'[c] = "send"
    <3>1. Carried' = [Carried EXCEPT ![c] = header'[c]]
      BY <2>3, OneCarried
    <3>2. header'[c] \in Issued
      BY <1>4, <2>3, HandedOut
    <3>3. header'[c] # rejected[c]
      <4>1. CASE attempt'[c] = 2
        BY <2>1, <2>3, <4>1 DEF Retry
      <4>2. CASE attempt'[c] = 1
        BY <1>1, <2>1, <3>2, <4>2 DEF Sent
      <4> QED
        BY <2>1, <4>1, <4>2 DEF TypeOK
    <3>4. answer[c] = "none" /\ Carried[c] = NoToken
      BY <1>3, <2>1 DEF Unanswered
    <3>5. Promise!Send(c)
      BY <2>1, <2>2, <3>1, <3>2, <3>3, <3>4 DEF Promise!Send, Promise!Unanswered
    <3> QED
      BY <3>5 DEF Promise!Next
  <2>4. CASE pc'[c] # "send"
    <3>1. Carried' = Carried
      BY <2>1, <2>4, OneCarried
    <3> QED
      BY <2>1, <2>2, <3>1 DEF Promise!promise
  <2> QED
    BY <2>3, <2>4
<1>5. CASE Issue(c)
  <2>1. UNCHANGED <<rejected, executed, answer>> /\ pc[c] # "send" /\ pc'[c] # "send"
    BY <1>5 DEF Issue, Goto, TypeOK
  <2>2. Carried' = Carried
    BY <2>1, OneCarried
  <2>3. Promise!Issue
    BY <1>1, <2>1, <2>2 DEF Promise!Issue
  <2> QED
    BY <2>3 DEF Promise!Next
<1>6. CASE Unauthorized(c)
  <2>1. /\ UNCHANGED <<expiry, executed, answer>> /\ pc[c] = "send" /\ pc'[c] # "send"
        /\ rejected' = [rejected EXCEPT ![c] = header[c]] /\ attempt[c] = 1
    BY <1>6 DEF Unauthorized, Goto, TypeOK, service
  <2>2. Carried' = [Carried EXCEPT ![c] = NoToken]
    BY <2>1, OneCarried
  <2>3. Issued' = Issued
    BY <2>1, Zenon DEF Issued
  <2>4. rejected[c] = NoToken /\ answer[c] = "none"
    BY <2>1 DEF Sent, Unanswered
  <2>5. Promise!Refuse(c)
    BY <1>2, <2>1, <2>2, <2>3, <2>4 DEF Promise!Refuse, Promise!Underway, Promise!Unanswered
  <2> QED
    BY <2>5 DEF Promise!Next
<1>7. CASE \/ FetchFails(c) \/ Accepted(c) \/ ErrorAnswered(c) \/ TransportFails(c)
         \/ UnauthorizedAgain(c)
  <2>1. UNCHANGED <<expiry, rejected>> /\ pc'[c] = "done" /\ pc[c] # "done"
    BY <1>7 DEF FetchFails, Accepted, ErrorAnswered, TransportFails, UnauthorizedAgain, Respond, Goto, TypeOK, service
  <2>2. Carried' = [Carried EXCEPT ![c] = NoToken]
    BY <2>1, OneCarried
  <2>3. Issued' = Issued
    BY <2>1, Zenon DEF Issued
  <2>4. answer[c] = "none"
    BY <2>1 DEF Unanswered
  <2>5. ASSUME NEW answers, NEW a \in answers, Respond(c, a)
        PROVE  Promise!Answer(c, answers)
    BY <2>1, <2>2, <2>3, <2>5 DEF Promise!Answer, Respond
  <2>6. CASE executed' = [executed EXCEPT ![c] = @ + 1] /\ pc[c] = "send"
              /\ \E a \in {"ok", "upstream_error", "transport_error"} : Respond(c, a)
    <3>1. Promise!Answer(c, {"ok", "upstream_error", "transport_error"})
      BY <2>5, <2>6
    <3>2. Promise!Deliver(c)
      BY <1>2, <2>4, <2>6, <3>1 DEF Promise!Deliver, Promise!Underway, Promise!Unanswered
    <3> QED
      BY <3>2 DEF Promise!Next
  <2>7. CASE executed' = executed /\ pc[c] = "send"
              /\ \E a \in {"upstream_error", "transport_error"} : Respond(c, a)
    <3>1. Promise!Answer(c, {"upstream_error", "transport_error"})
      BY <2>5, <2>7
    <3>2. Promise!Fail(c)
      BY <1>2, <2>4, <2>7, <3>1 DEF Promise!Fail, Promise!Underway, Promise!Unanswered
    <3> QED
      BY <3>2 DEF Promise!Next
  <2>8. CASE executed' = executed /\ pc[c] # "send"
              /\ \E a \in {"auth_error", "transport_error"} : Respond(c, a)
    <3>1. Promise!Answer(c, {"auth_error", "transport_error"})
      BY <2>5, <2>8
    <3>2. Promise!Fail(c)
      BY <1>3, <2>4, <2>8, <3>1 DEF Promise!Fail, Promise!Underway, Promise!Unanswered
    <3> QED
      BY <3>2 DEF Promise!Next
  <2>9. CASE FetchFails(c)
    BY <2>8, <2>9 DEF FetchFails
  <2>10. CASE Accepted(c)
    BY <2>6, <2>10 DEF Accepted, Execute
  <2>11. CASE ErrorAnswered(c) \/ TransportFails(c)
    BY <2>6, <2>7, <2>11 DEF ErrorAnswered, TransportFails, Execute
  <2>12. CASE UnauthorizedAgain(c)
    BY <2>7, <2>12 DEF UnauthorizedAgain
  <2> QED
    BY <1>7, <2>9, <2>10, <2>11, <2>12
<1> QED
  BY <1>4, <1>5, <1>6, <1>7 DEF TaskStep

LEMMA NextIsPromised ==
  ASSUME TypeOK, OnceInv, FlightInv, RetryInv, SentInv, [Next]_vars
  PROVE  [Promise!Next]_(Promise!promise)
<1>1. RetryInv' /\ SentInv'
  BY NextRetry, NextSent
<1>2. ASSUME NEW c \in Tasks, Begin(c) \/ TaskStep(c), Alone(c)
      PROVE  Promise!Next \/ UNCHANGED Promise!promise
  <2>1. Unanswered(c) /\ Sent(c) /\ Sent(c)' /\ Retry(c)'
    BY <1>1 DEF OnceInv, SentInv, RetryInv
  <2> QED
    BY <1>2, <2>1, OwnStepPromised
<1>3. CASE Quiet
  <2>1. UNCHANGED <<pc, header, rejected, executed, answer>>
    BY <1>3 DEF Quiet, task
  <2>2. Carried' = Carried
    BY <2>1, Zenon DEF Carried
  <2>3. Issued \subseteq Issued' /\ NoToken \notin Issued'
    BY IssuedGrows
  <2>4. Promise!Issue
    BY <2>1, <2>2, <2>3 DEF Promise!Issue
  <2> QED
    BY <2>4 DEF Promise!Next
<1> QED
  BY <1>2, <1>3, WhoMoves

LEMMA InitIsPromised == Init => Promise!Init
<1> SUFFICES ASSUME Init PROVE Promise!Init
  OBVIOUS
<1>1. NoToken \notin Issued
  BY DEF Issued, NoToken
<1>2. Carried = [c \in Tasks |-> NoToken]
  BY DEF Init, Carried
<1>3. rejected = [c \in Tasks |-> NoToken] /\ executed = [c \in Tasks |-> 0] /\ answer = [c \in Tasks |-> "none"]
  BY DEF Init
<1> QED
  BY <1>1, <1>2, <1>3, Zenon DEF Promise!Init

\* DeployClient implements DeliveryPromise: with any number of requests, the
\* lock and the refreshes of the token manager, and the tokens deploy-service
\* rejects, every step is a step of the promised calls or none.
THEOREM CallsKeepTheirPromise == Spec => KeepsPromise
<1>1. Init => Promise!Init
  BY InitIsPromised
<1>2. Init => RetryInv
  BY DEF Init, RetryInv, Retry
<1>3. Init => SentInv
  BY DEF Init, SentInv, Sent
<1>4. TypeOK /\ FlightInv /\ RetryInv /\ [Next]_vars => RetryInv'
  BY NextRetry
<1>5. TypeOK /\ FlightInv /\ SentInv /\ [Next]_vars => SentInv'
  BY NextSent
<1>6. TypeOK /\ OnceInv /\ FlightInv /\ RetryInv /\ SentInv /\ [Next]_vars
        => [Promise!Next]_(Promise!promise)
  BY NextIsPromised
<1> QED
  BY <1>1, <1>2, <1>3, <1>4, <1>5, <1>6, TypeCorrect, OnceInvariant, FlightInvariant, PTL
     DEF Spec, KeepsPromise, Promise!Spec
=============================================================================
