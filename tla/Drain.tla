------------------------------- MODULE Drain --------------------------------
(***************************************************************************)
(* POST /api/v1/clusters/{cluster}/nodes/{node}/drain.                      *)
(*                                                                          *)
(* Every request runs NodeService.drain on a worker thread of its own       *)
(* (asyncio.to_thread), so drains interleave with one another, with other   *)
(* calls of the service (an uncordon) and with the cluster, at every call   *)
(* to the API server.  The model has one action per API call of a drain;    *)
(* what the thread computes between two calls is part of the earlier one,   *)
(* since it reads nothing that is shared.                                   *)
(*                                                                          *)
(* A pod is known to the service by its namespace and name, here one value  *)
(* of Pods.  The cluster tells apart successive pods of one name by a uid;  *)
(* the code never reads the uid, the model keeps it to say which pod a      *)
(* step really hit.                                                         *)
(***************************************************************************)
EXTENDS Integers, FiniteSets, PodRules

CONSTANTS
  Drains,        \* the drain requests
  Nodes,         \* node names a request may carry
  Registered,    \* the nodes the API server knows
  Pods,          \* pod names (namespace/name)
  Templates,     \* the sets of traits a pod can be created with
  OptionSets,    \* the sets of options a request can carry
  Budget,        \* DRAIN_DEFAULT_TIMEOUT_SECONDS
  PollInterval,  \* the sleep between two polls, in the unit of Budget
  CallTime,      \* the longest a listing takes, in the unit of Budget
  MaxUid,        \* bound: how many pods of one name are ever created
  NoPod          \* what a name that no pod has is mapped to

ASSUME DrainAssumption ==
  /\ Registered \subseteq Nodes
  /\ Templates \subseteq SUBSET PodTraits
  /\ OptionSets \subseteq SUBSET DrainOptions
  /\ Budget \in Nat /\ CallTime \in Nat /\ MaxUid \in Nat
  /\ PollInterval \in Nat \ {0}

VARIABLES
  \* the cluster, owned by the API server
  unschedulable,  \* node -> spec.unschedulable
  pod,            \* pod name -> the pod that has the name, or NoPod
  uid,            \* pod name -> uid of the last pod created with the name
  \* the drains
  pc,             \* drain -> where its thread is
  target,         \* drain -> node_name
  options,        \* drain -> the options switched on
  listing,        \* drain -> pod_list, what step 2 saw
  todo,           \* drain -> the pods of pods_to_evict still to be evicted
  elapsed,        \* drain -> time since the wait began
  answer,         \* drain -> the response
  \* history, read by properties only
  removals,       \* the removals the API server accepted
  held            \* drain -> its cordon has not been undone since it made it

cluster == <<unschedulable, pod, uid>>
thread  == <<target, options, listing, todo, elapsed>>
history == <<removals, held>>
vars    == <<cluster, pc, thread, answer, history>>

Pod == [node : Nodes, traits : SUBSET PodTraits, terminating : BOOLEAN]
ASSUME NoPodAssumption == NoPod \notin Pod

Listed == [name : Pods, uid : Nat, traits : SUBSET PodTraits]

Steps == {"idle", "cordon", "list", "evict", "poll", "sleep", "done"}
Kinds == {"none", "dry_run", "ok", "blocked", "not_found", "pdb", "api_error", "unreachable", "lost"}
Answer == [kind : Kinds, still : SUBSET Pods, required : SUBSET DrainOptions]

\* answer.kind "ok" is the 200 with still_terminating = still (node_emptied is
\* still = {}); "blocked" is the 400 with required_options = required; "pdb" is
\* the 409 of an eviction refused by a disruption budget; "lost" is a request
\* whose process died under it.
NoAnswer == [kind |-> "none", still |-> {}, required |-> {}]
Reply(kind) == [NoAnswer EXCEPT !.kind = kind]

OnNode(p, n) == pod[p] # NoPod /\ pod[p].node = n

\* Slip: the skip test is forgotten when the pods to evict are collected.
ToEvictUnblocked(items, opts) == {r \in items : ~Blocked(r.traits, opts)}

\* pods_to_evict, the pods of a listing that its options let a drain remove.
ToEvict(items, opts) == {r \in items : Eligible(r.traits, opts)}
Targets(d) == ToEvict(listing[d], options[d])
\* The pod of a listing entry still exists.
Alive(r) == pod[r.name] # NoPod /\ uid[r.name] = r.uid

Init ==
  /\ unschedulable \in [Registered -> BOOLEAN]
  /\ pod \in [Pods -> {NoPod} \cup
                [node : Registered, traits : Templates, terminating : {FALSE}]]
  /\ uid = [p \in Pods |-> IF pod[p] = NoPod THEN 0 ELSE 1]
  /\ pc = [d \in Drains |-> "idle"]
  /\ target \in [Drains -> Nodes]
  /\ options \in [Drains -> OptionSets]
  /\ listing = [d \in Drains |-> {}]
  /\ todo = [d \in Drains |-> {}]
  /\ elapsed = [d \in Drains |-> 0]
  /\ answer = [d \in Drains |-> NoAnswer]
  /\ removals = {}
  /\ held = [d \in Drains |-> FALSE]

-----------------------------------------------------------------------------
(* The drain's steps                                                        *)

Goto(d, step) == pc' = [pc EXCEPT ![d] = step]
Respond(d, a) == Goto(d, "done") /\ answer' = [answer EXCEPT ![d] = a]

\* The route: a dry run is answered before the cluster is even looked up;
\* otherwise the drain goes to its thread.
Receive(d) ==
  /\ pc[d] = "idle"
  /\ \/ Respond(d, Reply("dry_run"))
     \/ Goto(d, "cordon") /\ UNCHANGED answer
  /\ UNCHANGED <<cluster, thread, history>>

\* Step 1, the patch of spec.unschedulable.
MarkCordoned(d) ==
  /\ target[d] \in Registered
  /\ unschedulable' = [unschedulable EXCEPT ![target[d]] = TRUE]
  /\ held' = [held EXCEPT ![d] = TRUE]

Cordon(d) ==
  /\ pc[d] = "cordon"
  /\ MarkCordoned(d)
  /\ Goto(d, "list")
  /\ UNCHANGED <<pod, uid, thread, answer, removals>>

CordonNotFound(d) ==
  /\ pc[d] = "cordon"
  /\ target[d] \notin Registered
  /\ Respond(d, Reply("not_found"))
  /\ UNCHANGED <<cluster, thread, history>>

\* The API server removes the pod that has the name now, at once when
\* no grace is given, otherwise by marking it as terminating.
Remove(d, p) ==
  /\ pod[p] # NoPod
  /\ pod' = [pod EXCEPT ![p] = IF "no_grace" \in options[d] THEN NoPod
                               ELSE [@ EXCEPT !.terminating = TRUE]]
  /\ removals' = removals \cup {[drain |-> d, name |-> p, uid |-> uid[p],
                                 node |-> pod[p].node]}

\* Steps 2 and 3: list the node's pods, classify them, refuse if any blocks.
PodsOn(n) ==
  {[name |-> p, uid |-> uid[p], traits |-> pod[p].traits] : p \in {q \in Pods : OnNode(q, n)}}

\* Slip: the refusal stops at the first blocked pod.
RefusalOfFirst(items, opts) ==
  LET first == CHOOSE r \in items : Blocked(r.traits, opts) IN
  [NoAnswer EXCEPT !.kind = "blocked",
     !.required = RequiredOptions(BlockReasons(first.traits, opts))]

\* DrainBlockedException: every option any blocked pod needs.
Refusal(items, opts) ==
  [NoAnswer EXCEPT !.kind = "blocked",
     !.required = RequiredOptions(UNION {BlockReasons(r.traits, opts) :
                                           r \in {s \in items : Blocked(s.traits, opts)}})]

Refuses(items, opts) == \E r \in items : Blocked(r.traits, opts)

\* Slip: pods are evicted while the listing is classified, so that a blocked
\* pod further down refuses a drain that has begun.
ListPodsEvicting(d) ==
  /\ pc[d] = "list" /\ Refuses(PodsOn(target[d]), options[d])
  /\ listing' = [listing EXCEPT ![d] = PodsOn(target[d])]
  /\ \E r \in ToEvict(PodsOn(target[d]), options[d]) : Remove(d, r.name)
  /\ Respond(d, Refusal(PodsOn(target[d]), options[d]))
  /\ UNCHANGED <<unschedulable, uid, target, options, todo, elapsed, held>>

ListPods(d) ==
  /\ pc[d] = "list"
  /\ listing' = [listing EXCEPT ![d] = PodsOn(target[d])]
  /\ IF Refuses(PodsOn(target[d]), options[d])
       THEN Respond(d, Refusal(PodsOn(target[d]), options[d])) /\ UNCHANGED todo
       ELSE /\ todo' = [todo EXCEPT ![d] = ToEvict(PodsOn(target[d]), options[d])]
            /\ Goto(d, "evict")
            /\ UNCHANGED answer
  /\ UNCHANGED <<cluster, target, options, elapsed, history>>

\* Step 4, one call for each pod.
Evict(d) ==
  /\ pc[d] = "evict"
  /\ \E r \in todo[d] :
       /\ Remove(d, r.name)
       /\ todo' = [todo EXCEPT ![d] = @ \ {r}]
  /\ UNCHANGED <<unschedulable, uid, pc, target, options, listing, elapsed, answer, held>>

\* A 404 is a pod already gone.
EvictGone(d) ==
  /\ pc[d] = "evict"
  /\ \E r \in todo[d] :
       /\ pod[r.name] = NoPod
       /\ todo' = [todo EXCEPT ![d] = @ \ {r}]
  /\ UNCHANGED <<cluster, pc, target, options, listing, elapsed, answer, history>>

\* Slip: the refused pod is passed over and the drain goes on.
EvictRefusedPassedOver(d) ==
  /\ pc[d] = "evict"
  /\ "disable_eviction" \notin options[d]
  /\ \E r \in todo[d] : /\ pod[r.name] # NoPod
                        /\ todo' = [todo EXCEPT ![d] = @ \ {r}]
  /\ UNCHANGED <<cluster, pc, target, options, listing, elapsed, answer, history>>

\* A disruption budget can refuse an eviction, never a deletion.
EvictRefused(d) ==
  /\ pc[d] = "evict"
  /\ "disable_eviction" \notin options[d]
  /\ \E r \in todo[d] : pod[r.name] # NoPod
  /\ Respond(d, Reply("pdb"))
  /\ UNCHANGED <<cluster, thread, history>>

\* Step 5: with nothing evicted there is nothing to wait for.
StartWait(d) ==
  /\ pc[d] = "evict" /\ todo[d] = {}
  /\ IF Targets(d) = {}
       THEN Respond(d, Reply("ok")) /\ UNCHANGED elapsed
       ELSE /\ \E t \in 0..CallTime : elapsed' = [elapsed EXCEPT ![d] = t]
            /\ Goto(d, "poll")
            /\ UNCHANGED answer
  /\ UNCHANGED <<cluster, target, options, listing, todo, history>>

\* Slip: a pod that is terminating is taken for gone.
StillRunning(d) == {r.name : r \in {s \in Targets(d) : /\ OnNode(s.name, target[d])
                                                        /\ ~pod[s.name].terminating}}
\* Slip: the answer carries the entries of the listing, not their names.
StillPresentEntries(d) == {s \in Targets(d) : OnNode(s.name, target[d])}
\* The targets still on the node.  Pods are compared by name.
StillPresent(d) == {r.name : r \in {s \in Targets(d) : OnNode(s.name, target[d])}}

\* Slip: the budget is over only once it is exceeded.
ExceedsBudget(t) == t > Budget
\* The deadline test of the wait.
BudgetSpent(t) == t >= Budget

\* One listing and the deadline test after it.
Poll(d) ==
  /\ pc[d] = "poll"
  /\ IF StillPresent(d) = {} \/ BudgetSpent(elapsed[d])
       THEN Respond(d, [Reply("ok") EXCEPT !.still = StillPresent(d)])
       ELSE Goto(d, "sleep") /\ UNCHANGED answer
  /\ UNCHANGED <<cluster, thread, history>>

\* Slip: the deadline is computed again on every turn of the loop.
SleepRestarting(d) ==
  /\ pc[d] = "sleep"
  /\ \E t \in 0..CallTime : elapsed' = [elapsed EXCEPT ![d] = t]
  /\ Goto(d, "poll")
  /\ UNCHANGED <<cluster, target, options, listing, todo, answer, history>>

\* The sleep, and the time the next listing takes.
Sleep(d) ==
  /\ pc[d] = "sleep"
  /\ \E t \in 0..CallTime : elapsed' = [elapsed EXCEPT ![d] = @ + PollInterval + t]
  /\ Goto(d, "poll")
  /\ UNCHANGED <<cluster, target, options, listing, todo, answer, history>>

\* Slip: a failed listing is read as an empty one.
CallFailsUnnoticed(d) ==
  /\ pc[d] = "list"
  /\ Respond(d, Reply("ok"))
  /\ UNCHANGED <<cluster, thread, history>>

\* An API call answered with an error, or not answered, and without effect.
CallFails(d) ==
  /\ \/ pc[d] \in {"cordon", "list", "poll"}
     \/ pc[d] = "evict" /\ todo[d] # {}
  /\ \E kind \in {"api_error", "unreachable"} : Respond(d, Reply(kind))
  /\ UNCHANGED <<cluster, thread, history>>

\* A call that took effect and whose answer was lost.
AnswerLost(d) ==
  /\ \/ pc[d] = "cordon" /\ MarkCordoned(d) /\ UNCHANGED <<pod, removals>>
     \/ /\ pc[d] = "evict"
        /\ \E r \in todo[d] : Remove(d, r.name)
        /\ UNCHANGED <<unschedulable, held>>
  /\ Respond(d, Reply("unreachable"))
  /\ UNCHANGED <<uid, thread>>

DrainStep(d) ==
  \/ Cordon(d) \/ CordonNotFound(d) \/ ListPods(d)
  \/ Evict(d) \/ EvictGone(d) \/ EvictRefused(d)
  \/ StartWait(d) \/ Poll(d) \/ Sleep(d)
  \/ CallFails(d) \/ AnswerLost(d)

\* The service's process dies with every drain in it; nothing is persisted.
Crash ==
  LET running == {d \in Drains : pc[d] \notin {"idle", "done"}} IN
  /\ running # {}
  /\ pc' = [d \in Drains |-> IF d \in running THEN "done" ELSE pc[d]]
  /\ answer' = [d \in Drains |-> IF d \in running THEN Reply("lost") ELSE answer[d]]
  /\ UNCHANGED <<cluster, thread, history>>

-----------------------------------------------------------------------------
(* The cluster                                                              *)

\* An uncordon of the node, by this service or by anybody else.
Uncordon(n) ==
  /\ unschedulable[n]
  /\ unschedulable' = [unschedulable EXCEPT ![n] = FALSE]
  /\ held' = [d \in Drains |-> held[d] /\ target[d] # n]
  /\ UNCHANGED <<pod, uid, pc, thread, answer, removals>>

\* A pod is created and bound to a node; only a DaemonSet's or a mirror pod
\* lands on a node that is unschedulable.
Bind(p) ==
  /\ pod[p] = NoPod /\ uid[p] < MaxUid
  /\ uid' = [uid EXCEPT ![p] = @ + 1]
  /\ \E n \in Registered, traits \in Templates :
       /\ unschedulable[n] => {"daemonset", "mirror"} \cap traits # {}
       /\ pod' = [pod EXCEPT ![p] = [node |-> n, traits |-> traits, terminating |-> FALSE]]
  /\ UNCHANGED <<unschedulable, pc, thread, answer, history>>

\* A pod's containers exit for good.
Complete(p) ==
  /\ pod[p] # NoPod /\ "completed" \notin pod[p].traits
  /\ pod' = [pod EXCEPT ![p].traits = @ \cup {"completed"}]
  /\ UNCHANGED <<unschedulable, uid, pc, thread, answer, history>>

\* A terminating pod is gone.  Nothing says it ever will be.
Terminate(p) ==
  /\ pod[p] # NoPod /\ pod[p].terminating
  /\ pod' = [pod EXCEPT ![p] = NoPod]
  /\ UNCHANGED <<unschedulable, uid, pc, thread, answer, history>>

ClusterStep ==
  \/ \E n \in Registered : Uncordon(n)
  \/ \E p \in Pods : Bind(p) \/ Complete(p) \/ Terminate(p)

Next ==
  \/ \E d \in Drains : Receive(d) \/ DrainStep(d)
  \/ Crash
  \/ ClusterStep

Spec == Init /\ [][Next]_vars

\* The threads run and the API server answers or drops the connection; nothing
\* is assumed of the cluster: pods may never terminate.
FairSpec == Spec /\ \A d \in Drains : WF_vars(DrainStep(d))
-----------------------------------------------------------------------------
(* Properties                                                               *)

\* The type invariant of drain and of the cluster it acts on.
TypeOK ==
  /\ unschedulable \in [Registered -> BOOLEAN]
  /\ pod \in [Pods -> Pod \cup {NoPod}]
  /\ uid \in [Pods -> Nat]
  /\ pc \in [Drains -> Steps]
  /\ target \in [Drains -> Nodes]
  /\ options \in [Drains -> SUBSET DrainOptions]
  /\ listing \in [Drains -> SUBSET Listed]
  /\ todo \in [Drains -> SUBSET Listed]
  /\ elapsed \in [Drains -> Nat]
  /\ answer \in [Drains -> Answer]
  /\ removals \subseteq [drain : Drains, name : Pods, uid : Nat, node : Nodes]
  /\ held \in [Drains -> BOOLEAN]

\* A drain that is refused because of a protected pod has removed no pod at
\* all: "the check runs before any pod is evicted" (DrainBlockedException).
RefusalRemovesNothing ==
  \A d \in Drains : answer[d].kind = "blocked" => \A x \in removals : x.drain # d

\* One refusal tells the caller everything: with the required options added
\* the listing it was based on is not refused, and each of them is needed.
RefusalUnlocks ==
  \A d \in Drains : answer[d].kind = "blocked" =>
    /\ ~Refuses(listing[d], options[d] \cup answer[d].required)
    /\ \A o \in answer[d].required :
         Refuses(listing[d], options[d] \cup (answer[d].required \ {o}))

\* A 200 commits the whole node: every pod the drain had to remove is gone or
\* terminating, whatever other drains, uncordons and pods of the same name did
\* in between ("a partially drained node is a failed drain, not a partial
\* success", CONTEXT.md).
SuccessCommitsEveryTarget ==
  \A d \in Drains : answer[d].kind = "ok" =>
    \A r \in Targets(d) : Alive(r) => pod[r.name].terminating

\* node_emptied = true: the very pods the drain listed and had to remove are
\* gone, although the wait compares names only.
EmptiedMeansTargetsGone ==
  \A d \in Drains : (answer[d].kind = "ok" /\ answer[d].still = {}) =>
    \A r \in Targets(d) : ~Alive(r)

\* node_emptied = true on a node nobody has uncordoned since: no pod is left on
\* it but those a drain always skips.  It needs the cordon to come before the
\* listing: a pod bound between the two would be in neither.
EmptiedNodeHoldsNoWork ==
  \A d \in Drains : (answer[d].kind = "ok" /\ answer[d].still = {} /\ held[d]) =>
    \A p \in Pods : OnNode(p, target[d]) => Skipped(pod[p].traits)

\* A pod of its listing that a drain removed was one its options let it
\* remove: skipped pods never, protected ones only with their option.
RemovesOnlyPermitted ==
  \A x \in removals : \A r \in listing[x.drain] :
    (r.name = x.name /\ r.uid = x.uid) =>
      Eligible(r.traits, options[x.drain])

\* The wait honours its budget on both sides: it gives up on a pod only when
\* the budget is spent, and overshoots by less than one sleep and one call.
WaitBudgetHonoured ==
  \A d \in Drains :
    /\ answer[d].still # {} => elapsed[d] >= Budget
    /\ elapsed[d] < Budget + PollInterval + CallTime

\* Every drain that reaches its thread is answered, though pods may terminate
\* never and come back for ever.
EveryDrainAnswers ==
  \A d \in Drains : pc[d] = "cordon" ~> pc[d] = "done"

-----------------------------------------------------------------------------
(* The promise of a drain, and that it is kept                              *)

\* The stage of the promise a drain is at.
Stage(d) ==
  IF pc[d] \in {"idle", "cordon", "list"} THEN "asked"
  ELSE IF pc[d] \in {"evict", "poll", "sleep"} THEN "at_work"
  ELSE IF answer[d].kind = "dry_run" THEN "checked"
  ELSE IF answer[d].kind = "blocked" THEN "refused"
  ELSE IF answer[d].kind # "ok" THEN "failed"
  ELSE IF answer[d].still = {} THEN "emptied" ELSE "pending"

Names(items) == {r.name : r \in items}
PlanOf(d) == IF answer[d].kind = "blocked" THEN {} ELSE Names(Targets(d))
LeftOf(d) == Names(todo[d])
RemovedBy(d) == {x.name : x \in {y \in removals : y.drain = d}}

Stages == [d \in Drains |-> Stage(d)]
Plans == [d \in Drains |-> PlanOf(d)]
Remaining == [d \in Drains |-> LeftOf(d)]
RemovedNames == [d \in Drains |-> RemovedBy(d)]

Promise == INSTANCE DrainPromise
  WITH stage <- Stages, plan <- Plans, left <- Remaining, removed <- RemovedNames

\* A drain keeps its promise, whatever other drains and the cluster do: one
\* decision before the first removal, every pod of it seen to before a 200, no
\* pod beyond it, and nothing after the answer.
KeepsPromise == Promise!Spec
=============================================================================
