------------------------------ MODULE Service -------------------------------
(***************************************************************************)
(* The life of a request in the service: the middleware that gives it an    *)
(* id (app/core/logging.py), the dependencies and the handler FastAPI runs   *)
(* for its route (app/api/v1), and the answer it gets                       *)
(* (app/core/exceptions.py).                                                *)
(*                                                                          *)
(* One event loop runs all handlers; code between two awaits is one step.   *)
(* What is synchronous is not awaited: the list routes call the Kubernetes  *)
(* API on the loop and hold it meanwhile.  The node routes hand the call to *)
(* a worker thread, and a synchronous dependency runs on a thread as well,  *)
(* so get_deploy_token_manager interleaves with itself.                     *)
(*                                                                          *)
(* Routes, by how they wait: "health" waits for nothing, "read" calls a     *)
(* cluster on the loop, "node" calls a cluster on a worker thread,          *)
(* "upstream" awaits deploy-service.                                        *)
(***************************************************************************)
EXTENDS Integers, FiniteSets

CONSTANTS
  Requests,   \* the requests
  Header,     \* request -> the X-Coordination-ID it carries
  NoHeader,   \* it has none
  Blank,      \* it has one that is empty
  Clusters,   \* the registered clusters
  Silent,     \* clusters that take connections and never answer
  Workers,    \* threads of the executor asyncio.to_thread uses
  NoManager,  \* _deploy_token_manager = None
  NoId        \* no id in the body, or no header in the response

Named == {Header[r] : r \in Requests} \ {NoHeader, Blank}

ASSUME ServiceAssumption ==
  /\ Silent \subseteq Clusters
  /\ Workers \in Nat \ {0}
  /\ NoManager \notin Requests
  /\ Named \cap Requests = {}
  /\ NoId \notin Named \cup Requests
  /\ {NoHeader, Blank, NoId} \cap Requests = {}
  /\ NoId # Blank

VARIABLES
  pc,        \* request -> where it is
  call,      \* request -> its route, and the cluster it is for, until its handler ends
  id,        \* request -> request.state.request_id
  current,   \* RequestIdFilter._current_request_id
  manager,   \* _deploy_token_manager, named by the request that made it
  outcome,   \* request -> how its handler ended
  answer,    \* request -> the ids its response carries
  since      \* history: request -> the ids given out since its own, its own first

vars == <<pc, call, id, current, manager, outcome, answer, since>>

Calls == [route : {"health", "upstream"}, cluster : {NoId}]
           \cup [route : {"read", "node"}, cluster : Clusters]
NoCall == [route |-> "none", cluster |-> NoId]

\* A generated id is named by the request it is generated for.
Ids == Named \cup Requests
Steps == {"new", "arrived", "check", "build", "handler", "queued",
          "calling", "working", "awaiting", "leaving", "done"}
\* "handled" is a result or an error of the app, "plain" an answer without the
\* app's envelope, "crash" an exception nobody expects.
Outcomes == {"none", "handled", "plain", "crash"}

NoAnswer == [id |-> NoId, echo |-> NoId, crashed |-> FALSE]

Init ==
  /\ pc = [r \in Requests |-> "new"]
  /\ call = [r \in Requests |-> NoCall]
  /\ id = [r \in Requests |-> NoId]
  /\ current = NoId
  /\ manager = NoManager
  /\ outcome = [r \in Requests |-> "none"]
  /\ answer = [r \in Requests |-> NoAnswer]
  /\ since = [r \in Requests |-> {}]

Goto(r, step) == pc' = [pc EXCEPT ![r] = step]

\* A call of the Kubernetes API on the loop keeps everything else off it.
LoopFree == \A r \in Requests : pc[r] # "calling"

-----------------------------------------------------------------------------
(* The middleware                                                           *)

\* A client connects.
Arrive(r) ==
  /\ pc[r] = "new"
  /\ \E c \in Calls : call' = [call EXCEPT ![r] = c]
  /\ Goto(r, "arrived")
  /\ UNCHANGED <<id, current, manager, outcome, answer, since>>

\* Slip: only an absent header gets a generated id.
RequestIdUnlessAbsent(r) == IF Header[r] = NoHeader THEN r ELSE Header[r]
\* coordination_id or str(uuid.uuid4())
RequestId(r) == IF Header[r] \in {NoHeader, Blank} THEN r ELSE Header[r]

\* The ids a line of a request in service may show.
Note(r) ==
  since' = [q \in Requests |-> IF q = r \/ since[q] # {} THEN since[q] \cup {RequestId(r)} ELSE {}]

\* Slip: generated ids are kept out of the log filter.
DispatchNamedOnly(r) ==
  /\ pc[r] = "arrived" /\ LoopFree
  /\ id' = [id EXCEPT ![r] = RequestId(r)]
  /\ current' = IF Header[r] \in Named THEN Header[r] ELSE current
  /\ Note(r)
  /\ Goto(r, IF call[r].route = "upstream" THEN "check" ELSE "handler")
  /\ UNCHANGED <<call, manager, outcome, answer>>

\* dispatch up to call_next.  The app runs in a task of its own, so other
\* requests come in before the handler starts.
Dispatch(r) ==
  /\ pc[r] = "arrived" /\ LoopFree
  /\ id' = [id EXCEPT ![r] = RequestId(r)]
  /\ current' = RequestId(r)
  /\ Note(r)
  /\ Goto(r, IF call[r].route = "upstream" THEN "check" ELSE "handler")
  /\ UNCHANGED <<call, manager, outcome, answer>>

-----------------------------------------------------------------------------
(* get_deploy_token_manager, on a thread.  What it returns is the global, read *)
(* once more.                                                               *)

\* Slip: the test is left out.
CheckManagerAlways(r) ==
  /\ pc[r] = "check"
  /\ Goto(r, "build")
  /\ UNCHANGED <<call, id, current, manager, outcome, answer, since>>

CheckManager(r) ==
  /\ pc[r] = "check"
  /\ Goto(r, IF manager = NoManager THEN "build" ELSE "handler")
  /\ UNCHANGED <<call, id, current, manager, outcome, answer, since>>

StoreManager(r) ==
  /\ pc[r] = "build"
  /\ manager' = r
  /\ Goto(r, "handler")
  /\ UNCHANGED <<call, id, current, outcome, answer, since>>

-----------------------------------------------------------------------------
(* The handlers                                                             *)

Working == {r \in Requests : pc[r] = "working"}

End(r, how) ==
  /\ outcome' = [outcome EXCEPT ![r] = how]
  /\ call' = [call EXCEPT ![r] = NoCall]
  /\ Goto(r, "leaving")
  /\ UNCHANGED <<id, current, manager, answer, since>>

\* Slip: the node routes call the cluster on the loop as well.
HandleInline(r) ==
  /\ pc[r] = "handler" /\ LoopFree
  /\ \/ call[r].route \in {"read", "node"} /\ Goto(r, "calling")
     \/ call[r].route = "upstream" /\ Goto(r, "awaiting")
  /\ UNCHANGED <<call, id, current, manager, outcome, answer, since>>

\* The handler up to the call it makes.
Handle(r) ==
  /\ pc[r] = "handler" /\ LoopFree
  /\ \/ call[r].route = "read" /\ Goto(r, "calling")
     \/ call[r].route = "node" /\ Goto(r, "queued")
     \/ call[r].route = "upstream" /\ Goto(r, "awaiting")
  /\ UNCHANGED <<call, id, current, manager, outcome, answer, since>>

\* The health check answers at once, without an envelope.
HandleHealth(r) ==
  /\ pc[r] = "handler" /\ LoopFree
  /\ call[r].route = "health"
  /\ End(r, "plain")

\* No call is made: the token has not the scope or has expired, the cluster is
\* unknown, the drain is a dry run; or there is no token or no valid body, for
\* which the app has no handler of its own.  Routes to deploy-service take their
\* manager before they look at the token.
Refuse(r) ==
  /\ pc[r] = "handler" /\ LoopFree
  /\ call[r].route # "health"
  /\ \E how \in {"handled", "plain"} : End(r, how)

\* Slip: the calls take turns on one lock.
TakeWorkerAlone(r) ==
  /\ pc[r] = "queued"
  /\ Working = {}
  /\ Goto(r, "working")
  /\ UNCHANGED <<call, id, current, manager, outcome, answer, since>>

\* A thread of the executor takes the call up.
TakeWorker(r) ==
  /\ pc[r] = "queued"
  /\ Cardinality(Working) < Workers
  /\ Goto(r, "working")
  /\ UNCHANGED <<call, id, current, manager, outcome, answer, since>>

Endings == {"handled", "crash"}

\* The cluster answers, with a result or an error, or something unexpected is
\* raised.  No call has a timeout: a silent cluster keeps its caller.
ClusterAnswers(r) ==
  /\ pc[r] \in {"calling", "working"}
  /\ call[r].cluster \notin Silent
  /\ \E how \in Endings : End(r, how)

\* deploy-service answers or the client's timeout ends the wait.
UpstreamAnswers(r) ==
  /\ pc[r] = "awaiting" /\ LoopFree
  /\ \E how \in Endings : End(r, how)

-----------------------------------------------------------------------------
(* The answer                                                               *)

\* X-Coordination-ID is echoed when the client sent the header.  An exception
\* no handler expects is answered outside the middleware, without it.
Echo(r) == IF Header[r] = NoHeader \/ outcome[r] = "crash" THEN NoId ELSE id[r]

\* Slip: the envelope takes the id that is current.
EnvelopeCurrent(r) ==
  [id |-> IF outcome[r] = "plain" THEN NoId ELSE current,
   echo |-> Echo(r), crashed |-> outcome[r] = "crash"]
\* The envelope carries the id of the request.
Envelope(r) ==
  [id |-> IF outcome[r] = "plain" THEN NoId ELSE id[r],
   echo |-> Echo(r), crashed |-> outcome[r] = "crash"]

\* The response goes out.
Leave(r) ==
  /\ pc[r] = "leaving" /\ LoopFree
  /\ answer' = [answer EXCEPT ![r] = Envelope(r)]
  /\ Goto(r, "done")
  /\ outcome' = [outcome EXCEPT ![r] = "none"]
  /\ since' = [since EXCEPT ![r] = {}]
  /\ UNCHANGED <<call, id, current, manager>>

Serve(r) ==
  \/ Dispatch(r)
  \/ CheckManager(r) \/ StoreManager(r)
  \/ Handle(r) \/ HandleHealth(r) \/ Refuse(r)
  \/ TakeWorker(r) \/ ClusterAnswers(r) \/ UpstreamAnswers(r)
  \/ Leave(r)

Next == \E r \in Requests : Arrive(r) \/ Serve(r)

Spec == Init /\ [][Next]_vars

\* The loop and the executor take what waits in the order it came, threads run,
\* and who is not silent answers.  Nobody has to send a request.
FairSpec == Spec /\ \A r \in Requests : WF_vars(Serve(r))

-----------------------------------------------------------------------------
(* Properties                                                               *)

\* The type invariant of the requests and of what they share.
TypeOK ==
  /\ pc \in [Requests -> Steps]
  /\ call \in [Requests -> Calls \cup {NoCall}]
  /\ id \in [Requests -> Ids \cup {NoId}]
  /\ current \in Ids \cup {NoId}
  /\ manager \in Requests \cup {NoManager}
  /\ outcome \in [Requests -> Outcomes]
  /\ answer \in [Requests -> [id : Ids \cup {NoId}, echo : Ids \cup {NoId}, crashed : BOOLEAN]]
  /\ since \in [Requests -> SUBSET Ids]

\* However requests interleave, a body that carries an id carries the one its
\* client sent, or one that no other answer has; and a client that sent the
\* header reads in it the id of the body, unless the handler crashed.
AnswersCarryOwnId ==
  \A r \in Requests : pc[r] = "done" =>
    /\ answer[r].id # NoId =>
         /\ Header[r] \in Named => answer[r].id = Header[r]
         /\ \A q \in Requests \ {r} :
              answer[q].id = answer[r].id => Header[r] \in Named /\ Header[q] = Header[r]
         /\ answer[r].echo \in {NoId, answer[r].id}
    /\ answer[r].echo # NoId <=> Header[r] # NoHeader /\ ~answer[r].crashed

\* What a log line may show: while a request is served, on the loop or on a
\* thread, every line it writes shows its id or the id of a request that came
\* later, never that of an earlier one.
LinesShowOwnOrLater ==
  \A r \in Requests : since[r] # {} => current \in since[r]

\* The requests whose test found no manager have stored theirs.
Settled == manager # NoManager /\ \A r \in Requests : pc[r] # "build"

\* Only first requests that overlap can make a second token manager: once one
\* is stored and nobody is about to store another, it is the one of the process.
ManagerSettles == [][Settled => Settled' /\ manager' = manager]_vars

LoopHeldForGood ==
  \E q \in Requests : call[q].route = "read" /\ pc[q] = "calling" /\ call[q].cluster \in Silent
WorkersHeldForGood ==
  Cardinality({q \in Working : call[q].cluster \in Silent}) = Workers

\* Every request is answered, health checks included, whatever the clusters of
\* node requests do.  It waits for good in three cases only: its own cluster is
\* silent, a list request holds the loop for a silent cluster, or as many node
\* requests as there are threads wait for silent clusters and it needs one.
RequestsAnswered ==
  \A r \in Requests : pc[r] = "arrived" ~>
    \/ pc[r] = "done"
    \/ call[r].cluster \in Silent
    \/ LoopHeldForGood
    \/ call[r].route = "node" /\ WorkersHeldForGood
=============================================================================
