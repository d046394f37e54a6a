# cluster-service in TLA+

cluster-service (`app/`) is a FastAPI service in front of Kubernetes clusters
and of another service, deploy-service. It cordons, uncordons and drains nodes,
edits their labels, annotations and taints, forwards pipelines and commands to
deploy-service, and serves a page that follows the log of a command. This
directory holds TLA+ models of the parts where order, failure and concurrency
matter, TLC runs that check them on small instances, abstract specifications of a
drain and of a call of deploy-service that the detailed ones are shown to
implement, and TLAPS proofs of every safety property of the seven modelled
components, for every number of requests, nodes, pods, keys, accounts and log
entries.

Paths below are relative to the repository (`app/...`, `CONTEXT.md`);
`PROJECT.json` maps every definition to the lines it models.

- [1. The system](#1-the-system)
- [2. The modules](#2-the-modules)
- [3. The runs](#3-the-runs)
- [4. The proofs](#4-the-proofs)
- [5. Assumptions about the surroundings](#5-assumptions-about-the-surroundings)
- [6. Where the code and its documentation disagree](#6-where-the-code-and-its-documentation-disagree)
- [7. What is not modelled](#7-what-is-not-modelled)
- [8. Plan](#8-plan)

## 1. The system

The service keeps almost nothing in memory: its state is in the API server of
each cluster, in deploy-service, in the browser, and in the requests that are
under way. Three kinds of concurrency meet in it. The routes that change a node
hand their work to a worker thread (`asyncio.to_thread`), so any number of them
interleave at their calls of the Kubernetes API. The calls of deploy-service
are coroutines on one event loop and interleave at their awaits. The third is
easily overlooked: FastAPI runs synchronous dependencies in a thread pool of its
own.

| Component | State | Operations | Talks to | What is hard | What makes it correct |
|---|---|---|---|---|---|
| Node drain (`node_service.py: drain`) | a listing, the pods still to evict, the time waited; lost in a crash | cordon, list, classify, refuse or evict one by one, wait | API server | the cluster changes between the listing, each eviction and each poll; other drains and uncordons; errors after half of the evictions | a refusal removes nothing; a 200 covers every pod; "emptied" is true; only permitted pods are removed; the wait is bounded |
| Cordon and uncordon (`cordon`, `uncordon`, `cordon_many`, `uncordon_many`) | the queue of a batch, the readiness it was judged on, its results | read or list, gate, patch | API server | readiness and nodes change before their turn; one of several patches fails | each node is reported once and truly; one node never ends a batch; the gate works |
| Labels, annotations, taints (`label_node`, `annotate_node`, `taint_node`) | the taints read | merge patch, or read, change and write | API server, with the kubelet, the node controller and kubectl as other writers | a read-modify-write without a version | nobody's write to another key is undone; answers show the write |
| deploy-service clients (`clients/`, `core/token_manager.py`) | one token, its expiry and a lock, shared by all requests | get and refresh a token, send, retry once after a 401 | deploy-service | refreshes overtake one another; the token endpoint fails under the lock; commands and pipelines are not idempotent | at most one execution; the retry has a new token; no stale trust; no lost lock |
| Log viewer (`core/log_viewer_template.py`, trace route) | cursor, interval, failures of one page | poll, render, back off, stop, go to the login | trace route, through it deploy-service | answers fail or refuse, the log grows while it is read | the page shows the log, and stops exactly when it should |
| Authentication (`core/security.py`, `core/dependencies.py`, `services/auth_service.py`) | none: the token carries the scopes | log in, check | `users.json` | scopes and accounts change while tokens live | a permission that was taken away is gone after the lifetime of a token |
| Request ids and logging (`core/logging.py`, `core/exceptions.py`) | one class attribute, one id per request | set per request, read per log line, put into the answer | every request | the attribute is shared by interleaved requests | answers carry their own id; log lines never an earlier request's |
| Running of requests (`api/v1/*.py`) | the event loop, the executor's threads, the shared token manager | dependencies, handler, call, answer | API servers, deploy-service | list routes hold the loop; calls of clusters have no timeout; the manager is made on first use, in threads | who is answered although a cluster is silent; one manager in the end |
| Command, pipeline and inventory services, cluster, node and pod reads | none | reshape one answer | API server, deploy-service | nothing beyond the running of the request and the clients | see section 7 |
| Repositories, kube client, error mapping, configuration, models | none | read a file, build a client, look up a code | file system | nothing | see section 7 |

The components meet in five places. A drain and the four cordon routes write
the same flag, `spec.unschedulable`: `Drain` has uncordons as a step of its
cluster. A batch uses the patch and the reads of the single routes: `Cordoning`
holds both. The log viewer polls a route that goes through the token manager:
`LogViewer` has its failure to authenticate as an answer. Every request passes
through the middleware and one of the ways to wait of `Service`; its "node"
routes are what `Drain`, `Cordoning` and `NodeMetadata` detail, its "upstream"
routes what `DeployClient` does. The guarantees of `DeployClient` are those of
one token manager; `Service` says when there is one. The tokens of `Sessions` are
what the page of `LogViewer` polls with.

The hazards this list leads to are in `PROJECT.json` ("hazards"), each at the
line where it bites and with the properties that would notice it.

## 2. The modules

Every module has the same layout: constants with a named assumption, variables
in groups (the surroundings, the requests, the history that only properties
read), one action per call to the outside and outcome, the surroundings'
actions, the properties. What a thread computes between two calls belongs to
the earlier call, because it reads nothing that is shared. A definition
introduced by "Slip:" is a plausible mistake in the definition after it; no
specification uses it, `PROJECT.json` ("mutants") says which property notices
it when it is put in place.

**PodRules** is the pure part of a drain: `Skipped`, `Blocked`, `Eligible` and
the options that lift a block. A pod is the set of the traits the code reads
(mirror annotation, completed phase, DaemonSet owner, any owner, emptyDir),
a request the set of its switched-on options. `no_grace` is
`grace_period_seconds = 0`.

**Drain** is `POST .../drain`. `Cordon`, `ListPods`, `Evict`, `EvictGone` (404),
`EvictRefused` (429), `Poll`, `Sleep` are the calls in the order of the code;
`CallFails` is an error without effect, `AnswerLost` a call that took effect
and whose answer did not arrive; `Crash` ends the process with every drain in
it. The order of evictions is left open (the API server chooses the order of a
listing). Time exists only inside the wait: `elapsed` grows by the sleep and by
the length of each listing. The cluster binds, completes and terminates pods
(`Bind`, `Complete`, `Terminate`) and anybody may uncordon. The service knows a
pod by name; the model gives pods a `uid` as well, to say which pod an eviction
or a poll really concerned.

**DrainPromise** is what a drain promises its caller, with no word of API calls,
listings or polls: it decides once which pods have to go, or refuses; it takes on
those pods and no others, each once; success means that it has seen to all of
them; after its answer it does nothing more. `Drain` maps its state to it
(`Stage`, `PlanOf`, `LeftOf`, `RemovedBy`), `KeepsPromise` is the claim.
`Fail` may have removed one more pod: a call whose answer was lost.

**Cordoning** is the two single and the two batch routes. The names of a body go
through `Names` (stripped, blanks dropped, repeated ones dropped) and then
through the loop. `GatePasses` lets a node through that the listing did not
have. `Settle` records an outcome in a batch and answers in a single call;
`ClusterError` ends either. Nodes join, leave and change their Ready condition.

**NodeMetadata** is the three PATCH routes. `MergePatch` is what a patch with
one null per removed key does to a map, `NewTaints` the list computed from an
earlier read. Which of two contradictory orders (set and remove one key) wins
differs between the two, as in the code. `writer` and `meddled` are history:
who last named a key, and whether somebody else wrote to the field since the
request's last call of the API.

**DeployClient** is `_request_with_retry` of both clients and the token manager.
An action is what a task does between two awaits. `get_token` holds the lock
across the fetch; the `refresh` after a 401 does not take it, so several can be
under way (`Receive` stores whatever arrives). A token is a number in order of
issue, `expiry` when it runs out. deploy-service may reject tokens early
(`Revoke`). `Accepted` is a success, `ErrorAnswered` any other 4xx or 5xx
(`_raise_for_error`), from deploy-service or from a proxy before it, and
`TransportFails` no answer at all: after either of the last two the request may
have been carried out or not.

**DeliveryPromise** is what a call promises its caller, with no word of manager,
lock or clock: it is on its way with a token that was issued, may be refused with it
once, is sent again with another one only; it is delivered at most once; a success was
delivered, a failure to authenticate was not, and any other error may come with
or without the effect; the answer ends the call. `DeployClient` maps
its state to it (`Carried`), `KeepsPromise` is the claim.

**LogViewer** is `refresh` of the page, the trace route and the session. A slice
of the log runs from the cursor to some later offset; `whole` says whether
deploy-service always sends all there is. Logs are made of lines and of blanks
that are no line (the code expects them: "server may bump it even with zero
lines"). `Login`, `CookieExpires` and `EditUsers` are the life of a session:
`users.json` is read again by each login, tokens keep the scopes they were given.

**Service** is the life of a request: `Dispatch` of the middleware, the
dependencies, `Handle`, the answer. Code between two awaits is one step; a
request that calls a cluster on the loop is `calling`, and until it is answered
`LoopFree` keeps everything else off the loop. Routes differ by how they wait:
`health` does not, `read` (`list_nodes`, `list_pods`) calls on the loop, `node`
(the nine routes of `nodes.py`) on one of `Workers` threads, `upstream` awaits deploy-service.
`CheckManager` and `StoreManager` are the two halves of
`get_deploy_token_manager`, in a thread; a manager is named by the request that
made it. Clusters in `Silent` take a connection and never answer. `Refuse` ends a
request without a call; with the framework's own error it has no envelope
("plain"), and "crash" is an exception that is answered outside the middleware.
A generated id is the request itself, so two generated ones are different.
`since` is history: the ids given out since a request's own.

**Sessions** is who may call what: edits of `users.json`, `POST /token` and
`POST /login`, which read it anew, and the two dependencies that check a token
(header only; header, else cookie). A token is not looked up when it is used.
A token is accepted up to and including its last instant, as the JWT library
does; a browser drops the cookie when `max_age` is over. `was` is history: which
record stood in the file when. `secret` in a token is history too: the password
of its login.

`MCDrain`, `MCCordoning`, `MCDeployClient`, `MCNodeMetadata`, `MCService` and
`MCSessions` give the constants small values; `LogViewer` needs no module for that.
`DrainProofs`, `CordoningProofs`, `NodeMetadataProofs`, `DeployProofs`,
`LogViewerProofs`, `ServiceProofs` and `SessionsProofs` hold the theorems,
`NatRecursion` the facts about recursive functions that two of them need.

## 3. The runs

| Run | Question | Result |
|---|---|---|
| `drain_one` | One drain, every way through the classification, every option | holds |
| `drain_two` | Two drains of one node, uncordons, a crash, names used again; does each keep the abstract promise? | holds |
| `cordoning` | A batch and another request while nodes come, go and change | holds |
| `node_metadata` | Two requests and other writers on one node | holds |
| `deploy_client` | Three requests, tokens that run out or are rejected | holds |
| `deploy_live` | Is every request answered, starting from a configured token, and is the abstract promise kept on the way? | holds |
| `log_viewer` | A page on a growing log, with failures and sessions that end | holds |
| `service` | Three requests, one silent cluster: ids, the token manager, who waits for whom | holds |
| `sessions` | Edits of `users.json` while tokens live: how stale can a permission be? | holds |
| `no_attempt` | A cluster-level error: "no node was attempted" | violated |
| `lost_taint` | A taint that was set stays until somebody names it | violated |
| `redirect` | Only who is not logged in is sent to the login page | violated |

Deadlock is not checked: requests end, the model has no new ones, and the
bounds stop the surroundings (`sessions` alone never stops: a route can always be
called). That requests do not get stuck is what the four liveness properties say
instead.

### Properties

*Drain.* `RefusalRemovesNothing`: a 400 has removed no pod. `RefusalUnlocks`:
retrying with the options the refusal names is not refused on the same pods, and none
of the options is superfluous. `RemovesOnlyPermitted`: of the pods it listed a
drain removes those its options permit (a pod that took over a name after the
listing may be hit; see section 6 for completed pods).
`SuccessCommitsEveryTarget`: after a 200 every pod to be removed is gone or
terminating and stays so. `EmptiedMeansTargetsGone`: `node_emptied` means that
these very pods are gone although the wait compares names: a pod that comes
back under its name on the node can only delay the answer.
`EmptiedNodeHoldsNoWork`: on a node nobody has uncordoned since, it means that
nothing is left but what drains skip; this is why the cordon precedes the
listing. `WaitBudgetHonoured`: no pod is given up on before the budget is
spent, and the overshoot is below one sleep and one listing.
`EveryDrainAnswers`: the wait ends though pods may never terminate.

`KeepsPromise`: each drain implements `DrainPromise`, so it relates the answer to
every removal before it and forbids any after it.

*Cordoning.* `ResultsCoverTheBatch`: every node a body names is reported once.
`ResultsTellTheTruth`: a success took effect, a node said to be missing or not
ready was not touched. `OneNodeNeverAborts`: a batch is ended by failures of
the cluster only. `PatchedNodesAreAsAsked`: requests that agree do not undo one
another. `QuietUncordonIsReady`: while the cluster holds still the gate lets no
unready node through, though a batch is judged on one listing.

*NodeMetadata.* `MergedWritesStand`: the last one to name a label or annotation
has its way. `AnswerShowsTheWrite`: a 200 shows what was asked for, unless
somebody wrote to the field between the patch and the read after it.
`QuietTaintsKeepTheRest`: without such a meddler a taint request changes what it
names and nothing else.

*DeployClient.* `ExecutedAtMostOnce`: no request is carried out twice, a success was
carried out, a failure to authenticate was not (an upstream or a transport
error leaves it open); `RetryUsesAnotherToken`: the second send
never carries the token just refused, whatever other tasks stored meanwhile;
`TrustEndsBeforeExpiry`: the manager gives a token up no later than
deploy-service does, though it counts the lifetime from the arrival;
`ColdStartFetchesOnce`; `LockHeldByFetcher`: no failure leaves the lock taken;
`EveryRequestAnswered`. `KeepsPromise`: each call implements `DeliveryPromise`. It
puts the first two together and adds that a call is sent
twice only after a 401, never a third time, and that nothing follows its answer.

*LogViewer.* `ShownIsTheLog`: no line is lost, repeated or misnumbered.
`FinishedShowsAll`: a finished page shows the log to its end, if deploy-service
does not cut its answers short (the page itself stops at the first terminal
status whatever the slice holds). `StoppedForAReason`: polling is given up for
a lasting reason only, after failures only when so many came in a row.
`EndedIsFollowed`: no page polls for ever once its command has ended.

*Service.* `AnswersCarryOwnId`: a body carries the client's id or one that is
nobody else's, and the echoed header agrees with it, although the attribute that
log lines read is overwritten meanwhile. `LinesShowOwnOrLater`: that attribute is
the id of the request in service or of one that came later, never of an earlier
one; it is all that can be relied on when reading a log (section 6).
`ManagerSettles`: only first requests that overlap can make a second token
manager; then one remains for good. `RequestsAnswered`: a request is kept waiting
for good in three cases only: by its own cluster, by a list route that holds the
loop for a silent cluster, or by as many node routes of silent clusters as there
are threads.

*Sessions.* `AccessWasGranted`: a call that is accepted was permitted by one
record that stood in `users.json`, with the password that was used and all the
scopes needed, no longer ago than the lifetime of a token. What is taken away is gone
after that time, even if it is given again to somebody else in between.

### Bounds, and why they are enough

- `drain_one`: two pod names, one registered node and one name the API server
  does not know, five kinds of pods (unmanaged; managed; managed with emptyDir;
  DaemonSet with emptyDir; mirror), the option sets that lift none, one or both
  of the blocks, use deletion, and give no grace. Two pods are enough for a
  blocked one beside an eligible one, in either order. `Budget = 3`, a sleep of
  2 and listings of 0 or 1 reach the deadline exactly and past it. `MaxUid = 2`
  lets every name be used again once.
- `drain_two`: two drains and two pods of two kinds on one node, no option. The
  second drain is what makes evictions of one hit pods of the other. The wait
  is short since `drain_one` explores it. Drains and pod names are
  interchangeable, hence the symmetry.
- `cordoning`: the batch has two different names, one of them twice and padded, or a
  single name, or a blank; the other request is an uncordon or a batch uncordon of
  one node. Two changes of the cluster (`MaxEvents`) are needed for a node
  that leaves and joins, or joins and is assessed, during one request.
- `node_metadata`: two keys, so that a request can name one and leave one; two
  values, so that a set can overwrite; bodies that set, remove and set, do both
  to one key, and name nothing; two writes of the cluster.
- `deploy_client`: three tasks are needed for one that holds the lock, one that
  waits and one that refreshes after a 401 without it. Tokens live 4 units, the buffer is
  2, a fetch takes up to 1, the clock runs to 4, so that tokens reach both the
  buffer and their end; one rejection. `deploy_live` has two tasks and no symmetry (TLC does
  not support it with liveness) and starts from `DEPLOY_SERVICE_TOKEN`; two are enough
  for one to store a token between the 401 and the retry of the other.
- `service`: three requests, one per kind of header (none, one, an empty one),
  each with any route; two are needed to overlap, the third to be kept waiting by both.
  Two threads, so that one silent cluster does not take all; one silent cluster
  and one that answers.
- `sessions`: accounts, clients and tokens do not affect one another, so one of each is
  enough; two passwords and two scopes, so that one can be changed or taken and
  the other stay. Two edits take something away and give it back;
  a lifetime of 1 and a clock of 3 let a token outlive an edit and end.
- `log_viewer`: three failures, three intervals, a log of three entries of
  which the third passes the cap, one change of the session or of the trust, two visits. The
  constants of the code (5 failures, 6 intervals of 5 s) only repeat the loop.

### Fairness

- `Drain`: weak fairness of each drain's own steps. The thread runs, and each call of
  the API server ends. The service sets no timeout on the Kubernetes client, so
  the second is an assumption about the connection, not a consequence of the
  code. Nothing is assumed of the cluster, not even that pods terminate.
- `DeployClient`: weak fairness of each task once its request has come. The event loop
  runs what is ready, and every call has a timeout (10 s at `token_manager.py:81`,
  30 s in the clients). The clock need not advance.
- `Service`: weak fairness of each request once it has arrived. The loop and the
  executor take what waits in order of arrival and threads run, so a step that
  stays possible is taken; a cluster that is not silent answers, and
  deploy-service answers or the client's timeout ends the wait, which is
  `EveryRequestAnswered` of `DeployClient`. A silent cluster is not assumed to answer.
- `LogViewer`: weak fairness of the page's steps: timers fire, fetches end.
  Nobody has to log in or reload, the log need not grow.

## 4. The proofs

The eight modules with theorems are checked by TLAPS without any assumption but
the named ones of the modules: `DrainAssumption` and
`NoPodAssumption` (the constants have their types; the poll interval is not 0;
NoPod is not a pod), `CordoningAssumption` (Blank is no node, bodies are
lists of names), `MetadataAssumption` (Absent is no value, Other no request,
bodies have the shape of a body), `DeployAssumption` (Free is no task, times are
natural numbers, a fetch takes no longer than the buffer), `ViewerAssumption`
(limits are not 0), `ServiceAssumption` (ids that clients send are not
generated ones, there is a thread) and `SessionsAssumption` (a lifetime is not 0).
Numbers of drains, nodes, pods, templates, options, keys, values, tasks, requests, threads, clusters
and accounts, the lengths of bodies and of logs, the budget, the limits and the times are arbitrary.

**Drain.** `TypeCorrect` first. None of the promises of a 200 is inductive: they
speak of an answer given long ago, while pods keep changing. The inductive
invariant is `DrainInv`, a conjunction over drains of

- `Control`: which values of `pc`, `todo`, `answer` go together;
- `OwnRemovals`: what a drain has removed is in its past: nothing before the listing was
  accepted;
- `ListingHolds`: uids in a listing are old ones, and an entry that is still alive
  still sits where it was listed, so that the name comparison can only err on the safe side;
- `Committed`: a target that is no longer to be evicted is gone or terminating;
- `Emptied`: an answer without leftovers means that no target is alive;
- `Kept`: while the cordon is held, the node is unschedulable;
- `Covered`: while it is held, every pod on the node that is not skipped is a
  target that is still alive. It is established by the listing, because the
  cordon came first, and kept because no such pod can be bound since.

A step of the drain itself is handled case by case (`ListPodsKeepsInv`,
`EvictKeepsInv`, `WaitKeepsInv`, `FailureKeepsInv`); of a step of anybody else
`PodStep` says all that is needed (a pod keeps its node and its traits, except
that it may complete, terminates for good, and a new one gets a new uid). Then
`RefusedDrainsRemoveNothing`, `SuccessfulDrainsAreCommitted`,
`EmptiedNodesHaveNoTarget`, `EmptiedNodesHoldNoWork`, `DrainsRemoveOnlyPermitted`
follow. `WaitsHonourTheBudget` and `RefusalsTellEverything` have an inductive
invariant of their own, `AnswerInv` (the wait so far stays below its limit; the
answer of a refused drain is the refusal of the listing it still has).

`DrainsKeepTheirPromise` is the step simulation. `Moves` says what a step can be
to the promise of one drain; every action of a drain is shown to be one of these
for the drain that takes it (`OwnStepMoves`, by cases) and nothing for the others
(`OthersUntouched`), since a promise depends on a drain's own variables and
removals only. The plan is read off the listing, which must not change after
the decision; that an answer of 200 leaves nothing to do comes from `Control`.

**Cordoning.** `NamesGather` says what `Names` makes of a body of any length: the
names it gives that are not blank, each once. The queue of a batch and its
results are then the names, cut where the loop is (`Progress`), which is
`BatchIsCovered` when the queue is empty. The inductive invariant `IInv` adds
what each place of a request means for what it has done (`Control`), that a batch
has recorded what it has patched, each under a name of its own (`Recorded`,
`Truthful`, for `ResultsAreTrue`), that only failures of the cluster end it
(`Unaborted`, for `BatchesGoOn`), and, while the cluster holds still, that a patched node has the
flag of one of those that patched it (`Written`, for `PatchesLast`) and that what a
request goes by is what the nodes are (`Judged`, for `GateHolds`, which is a property
of steps).

**NodeMetadata.** `TypeCorrect`; `MergesLoseNoWrite` from `MergeInv` (who is
recorded as the writer of a key does name it, and the key has what it asks);
`AnswersShowTheWrite` and `QuietTaintRequestsKeepTheRest` from `QuietInv` (a
taint request that is about to patch and that nobody meddled with still has the
node's taints in hand; one that is about to read again finds what it wrote).

**DeployClient.** `TypeCorrect`; `LockIsNeverLost`, which is inductive together
with the types. The other promises depend on what is on its way:

- `OnceInv`: a task that has no answer yet has not been carried out, which with what
  each answer means gives `RequestsAreNotRepeated`;
- `FlightInv`: a token in flight to a task is its alone, was issued no more than
  `FetchTime` ago and is not in the manager yet. Since `FetchTime <= Buffer`, the
  lifetime that is counted from its arrival ends no later than the real one
  (`TrustIsShorterThanLife`), whichever refresh arrives last;
- `RetryInv`: once the refresh after a 401 has arrived, the manager has another token
  than the refused one; what replaces it comes from a flight, hence is nobody's yet
  (`RetriesHaveAnotherToken`);
- `SentInv`: what is sent was issued, and the second attempt is the one that saw a 401;
- `ColdInv`: until a first token runs out, is refused or cannot be had, whoever
  fetches holds the lock, and the one token stays good (`ColdStartsFetchOnce`). It needs
  `ColdBefore`: a start that is still cold was cold before.

`CallsKeepTheirPromise` is the step simulation, from the first four: the step of a
task is one step of its call (`OwnStepPromised`), the others' calls do not move
(`Alone`), tokens are only ever added (`IssuedGrows`).

**LogViewer.** What matters about slices is said once, about `Lines`: a slice that is one
entry longer has what that entry makes of it (`SliceGrows`); the lines up to
an offset and those behind it, numbered on, are the lines of the whole (`LinesJoin`); what
is appended to a log later does not change a slice of it (`LinesLast`). The inductive
invariant `IInv` needs, beside the four properties,

- `Arriving`: the slice that is on its way was cut where the page still is; if it has a
  terminal status, the command has ended, and a whole slice holds all there is, which
  lasts because an ended command logs nothing more;
- `Counted`: the failures that were counted are the latest answers, so that
  MAX_FAILURES of them are a streak;
- `Paged`: the timer runs, or there is a reason why not.

There is one lemma per action, with one step per conjunct. `NoLineIsLost` is `LinesJoin`
when a slice is taken in and `LinesLast` when the log grows; `NothingFollowsTheEnd`
and `NobodyStopsEarly` come from `Arriving` and `Counted`.

**Recursive functions.** `Names` and `Lines` are functions of how much of a list has been
seen. The provers cannot use the library's induction theorems, whose
parameter is an operator; `NatRecursion` states induction and recursion over sets and
functions instead (`InductionUpTo`, `RecursionOnNat`) and derives them from the
least counterexample (`LeastNat`), which a well-founded order on the naturals has.

**Service.** `ServiceTypeCorrect`; `IdInv`, the inductive invariant, says that a
request keeps the id of its dispatch until it is answered, that an answer is made
of it, and that the attribute is among the ids given out since. `AnswersAreAttributed`
follows with `RequestIdIsId` (generated ids are not shared), `LinesAreNeverStale`
directly. `TheManagerSettles` is a property of one step: `Settled` leaves nobody who
would store.

**Sessions.** `SessionsTypeCorrect`; `SessionsInv` strengthens `AccessWasGranted`
with `TokensStem` (every token held has scopes and a password that stood in
`users.json` when it was issued, which was its lifetime before its end) and
`NowInHistory` (what stands now is in the history). A call is accepted no later
than the token's end, which is where the bound comes from (`PermissionsEnd`).

**Only model-checked**: the four liveness properties (`EveryDrainAnswers`,
`EveryRequestAnswered`, `EndedIsFollowed`, `RequestsAnswered`), since the provers have no
rule for fairness and `ENABLED`. The findings are counterexamples TLC finds.

**How far the prover can be trusted.** tlapm 1.4.5 gives its SMT solver an axiom about
lengths that is too strong: a domain `1..n` and a length `n` are equated even for
functions that are no sequences, so an obligation that has both `Len` and a function
with another domain can be proved from a contradiction. The proofs keep the two
apart (`HIDE`), and each obligation with `Len` in it has also been proved with that axiom
weakened to sequences.

## 5. Assumptions about the surroundings

Code outside the repository is modelled from how the service uses it; these
definitions are marked external.

- The API server applies a patch or an eviction at one moment; the scheduler binds
  nothing to a node once `spec.unschedulable` is set. (The real scheduler sees
  it a moment later: a pod bound in that gap would be on the node after the listing.)
- A removal without grace takes the pod away at once, another one marks it as
  terminating until the kubelet is done; a terminating pod is never revived.
- The Python client sends a dict as a strategic merge patch: maps are merged,
  null deletes a key, `spec.taints` is a list that is replaced.
- A 401 says that the token is not accepted, and comes before anything is carried
  out; nothing is carried out with a token that is not accepted. Of any other
  error nothing is assumed: it may be answered before or after the request was
  carried out.
- A token arrives no later after its issue than the buffer lasts (`FetchTime <=
  Buffer`). The code makes this likely and not certain: its 10 s (`token_manager.py:81`)
  bound each phase of the fetch and not the whole, and a list route that holds the
  event loop delays the arrival further, against a buffer of 30 s.
- deploy-service may stop or start accepting the credentials of this service, and an
  operator may edit `users.json`, at any time (`TrustChanges`, `EditUsers`).
- A waiter of `asyncio.Lock` is not overtaken by a newcomer; which waiter is next is left
  open, the lock's own order is one of the choices.
- deploy-service cuts and numbers the lines of a log (`Lines`: from the cursor to some
  later offset, counted on, blanks without a number), and writes no more to it once
  the command has ended.
- A JWT that verifies is one the service issued, and is accepted while `now <= exp`
  (python-jose); a password matches only its own hash; an edit of `users.json`
  replaces the file at once.
- Starlette runs a synchronous dependency in a thread, the app behind
  `BaseHTTPMiddleware` in a task of its own, an exception without a handler outside
  the middleware; `asyncio.to_thread` uses a bounded executor and queues the rest.

## 6. Where the code and its documentation disagree

Three runs end in a counterexample, each against a sentence of the repository:

- `no_attempt`: a cluster-level failure in mid-batch drops the results so far
  (`node_service.py:344`); the description of the route gives "since no node was
  attempted" as the reason for an error response (`nodes.py:162-165`).
- `lost_taint`: two taint requests that name different taints: the later patch
  deletes what the earlier one set (`node_service.py:622`, against `nodes.py:382-383`).
- `redirect`: deploy-service refuses the credentials of this service, the
  viewer takes the 401 for a missing login and sends a user who is logged in
  to the login page (`log_viewer_template.py:424`).

### Other divergences

Met while reading or in a counterexample, without a run of their own:

- A pod that completes after the listing is evicted (`node_service.py:478`), although
  completed pods are said never to be touched (`CONTEXT.md:27-30`).
- A node that registers after the listing of a batch is uncordoned without having
  been seen Ready (`node_service.py:330`, against `nodes.py:196-197`).
- "every log line includes `request_id` from `X-Coordination-ID`" (`README.md:10`,
  `README.md:186-190`): the line shows the id of the request that came last
  (`logging.py:75`), which is the writer's only while requests do not overlap.
- The list routes hold the event loop for as long as a cluster takes
  (`clusters.py:87`, `pods.py:73`), health checks included, which the comment on
  the batch routes says must not happen (`nodes.py:236-239`).
- The token manager is called a singleton (`deploy.py:36`, `command.py:50`); first
  requests that overlap can have one each.
- `X-Coordination-ID` is "echoed back in the response header" (`README.md:194`),
  but not with a 500 for an unexpected exception; an empty header gets the
  generated id, though ids that are generated are said not to be added
  (`logging.py:59-62`). Ids are not passed on to deploy-service or to clusters,
  although `README.md:194` speaks of propagating them across services.
- The "unified response shape" (`README.md:11`) is not that of errors the framework
  answers itself: a missing token and an invalid body.
- `DEPLOY_SERVICE_TOKEN` is never sent: `_expire_at` starts at 0
  (`token_manager.py:28`), so the first `get_token` replaces it, though
  `config.py:51` calls it "Optional initial/cached token". `deploy_live` starts from one.
- A refused drain says that the node is unchanged (`exceptions.py:372-373`); it has been cordoned.
- `config.py:41-43` and `kubernetes_models.py:81-85` speak of a 504 when the wait
  runs out; the answer is a 200 with `still_terminating`.
- `token_manager.py:49-50` says that `refresh` checks the lock as well; it does not.
- A label or annotation request that names nothing answers 200 with an empty
  map, also for a node that does not exist, where "current labels" are promised.
- `deploy.py:76` says "Raises 409"; an error of deploy-service becomes a 502.
- `dry_run` of a drain is described as "Validate"; nothing is looked up.
- An API exception with status 0 (TLS) is not cluster-level in a batch.
- A key that is both set and removed is removed as a label, set as a taint.
- `taint_node` writes taints back without `timeAdded`.

## 7. What is not modelled

- *Repositories and the kube client*: files are read per call; a failure is the
  failure of the request, before its first action here. A client with a token and a CA
  writes a file that is never deleted (`kube_client.py:110`), but such clients come from
  `JsonClusterRepository`, which no route uses.
- *Reads of clusters, nodes and pods*: their waiting is in `Service`; the
  reshaping of nodes and the filters of `list_pods` are comprehensions
  over one listing, without state.
- *Command, pipeline and inventory services*: each operation is one request of
  `DeployClient`, with its answer reshaped.
- *Error mapping*: tables from codes of deploy-service to codes of this service.
  Errors are modelled where they are raised.
- *Configuration and models*: settings read once, and data shapes.
- *Cryptography* is taken to be perfect. `verify`, `my-scopes` and
  `hash-password` change no state. `safe_next_path` is string handling.
- A missing or half-written `users.json` (a 404 or a 500 of the login).
- In modelled parts: lookup of the cluster before a route's work (a 404 before
  any call; `Refuse` of `Service`), log lines, texts of errors, `forced_deletion`
  (a copy of an option), namespaces (part of a pod's name here), the size
  banner and the theme of the page.
- `app/static/docs-assets/` holds two minified JavaScript bundles (Swagger UI and
  ReDoc), the only JavaScript files of the repository. They are third-party
  viewers of the API description and no part of the service, which is written in Python; no
  definition maps to them.

## 8. Plan

Done: every component of section 1 whose state is worth modelling, with runs and
proofs; `DrainPromise` and `DeliveryPromise` with their refinements. No safety
property of a run is without a theorem.

Next, in this order:

1. A lower bound for a finished drain: which steps of others can make
   `still_terminating` wrong, as an action property.
2. An abstract viewer (what a reader of the page is promised) that `LogViewer` implements.
3. Error mapping as operators, against the tables in `docs/`.
