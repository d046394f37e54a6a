----------------------------- MODULE DrainProofs ----------------------------
(***************************************************************************)
(* Proofs about Drain, for any number of drains, nodes and pods, any        *)
(* templates, options and times: facts about its operators, its invariants, *)
(* and that it implements DrainPromise.                                     *)
(***************************************************************************)
EXTENDS Drain, TLAPS

(* Facts about the operators of the model                                   *)

\* The options a refusal asks for are options of a drain.
LEMMA RequiredAreOptions ==
  ASSUME NEW why, why \subseteq Reasons
  PROVE  RequiredOptions(why) \subseteq DrainOptions
<1>1. UnblockingOption["unmanaged"] \in DrainOptions
  BY DEF UnblockingOption, DrainOptions
<1>2. UnblockingOption["emptydir"] \in DrainOptions
  BY DEF UnblockingOption, DrainOptions
<1> QED
  BY <1>1, <1>2 DEF RequiredOptions, Reasons

\* A refusal is an answer.
LEMMA RefusalIsAnswer ==
  ASSUME NEW items, NEW opts
  PROVE  Refusal(items, opts) \in Answer /\ Refusal(items, opts).kind = "blocked"
<1> DEFINE why == UNION {BlockReasons(r.traits, opts) :
                           r \in {s \in items : Blocked(s.traits, opts)}}
<1>1. why \subseteq Reasons
  BY DEF BlockReasons
<1>2. RequiredOptions(why) \subseteq DrainOptions
  BY <1>1, RequiredAreOptions
<1> QED
  BY <1>2 DEF Refusal, NoAnswer, Answer, Kinds

\* Every reply is an answer without leftovers.
LEMMA ReplyIsAnswer ==
  ASSUME NEW kind \in Kinds
  PROVE  /\ Reply(kind) \in Answer
         /\ Reply(kind).kind = kind
         /\ Reply(kind).still = {}
  BY DEF Reply, NoAnswer, Answer

\* What a listing returns is a set of entries, one for each pod of the node.
LEMMA PodsOnIsListing ==
  ASSUME TypeOK, NEW n
  PROVE  PodsOn(n) \subseteq Listed
  BY DEF PodsOn, OnNode, Listed, TypeOK, Pod

\* The targets of a drain are entries of its listing.
LEMMA ToEvictSubset ==
  ASSUME NEW items, NEW opts
  PROVE  ToEvict(items, opts) \subseteq items
  BY DEF ToEvict

-----------------------------------------------------------------------------
(* Type correctness                                                         *)

\* The initial states have their types.
LEMMA InitTypeOK == Init => TypeOK
<1> SUFFICES ASSUME Init PROVE TypeOK
  OBVIOUS
<1>1. pod \in [Pods -> Pod \cup {NoPod}]
  BY DrainAssumption DEF Init, Pod
<1>2. NoAnswer \in Answer
  BY DEF NoAnswer, Answer, Kinds
<1> QED
  BY <1>1, <1>2, DrainAssumption DEF Init, TypeOK, Steps

\* Every step keeps them.
LEMMA NextTypeOK == TypeOK /\ [Next]_vars => TypeOK'
<1> SUFFICES ASSUME TypeOK, [Next]_vars PROVE TypeOK'
  OBVIOUS
<1> USE DEF TypeOK
<1>1. ASSUME NEW d \in Drains, Receive(d) PROVE TypeOK'
  BY <1>1, ReplyIsAnswer DEF Receive, Respond, Goto, Steps, Kinds, cluster, thread, history
<1>2. ASSUME NEW d \in Drains, Cordon(d) PROVE TypeOK'
  BY <1>2 DEF Cordon, MarkCordoned, Goto, Steps, thread
<1>3. ASSUME NEW d \in Drains, CordonNotFound(d) PROVE TypeOK'
  BY <1>3, ReplyIsAnswer DEF CordonNotFound, Respond, Goto, Steps, Kinds, cluster, thread, history
<1>4. ASSUME NEW d \in Drains, ListPods(d) PROVE TypeOK'
  <2> DEFINE items == PodsOn(target[d])
  <2>1. items \subseteq Listed /\ ToEvict(items, options[d]) \subseteq Listed
    BY PodsOnIsListing, ToEvictSubset
  <2>2. Refusal(items, options[d]) \in Answer
    BY RefusalIsAnswer
  <2> QED
    BY <1>4, <2>1, <2>2 DEF ListPods, Respond, Goto, Steps, cluster, history
<1>5. ASSUME NEW d \in Drains, NEW p \in Pods, Remove(d, p)
      PROVE  /\ pod' \in [Pods -> Pod \cup {NoPod}]
             /\ removals' \subseteq [drain : Drains, name : Pods, uid : Nat, node : Nodes]
  <2>1. pod[p] \in Pod
    BY <1>5 DEF Remove
  <2>2. [pod[p] EXCEPT !.terminating = TRUE] \in Pod
    BY <2>1 DEF Pod
  <2>3. [drain |-> d, name |-> p, uid |-> uid[p], node |-> pod[p].node]
          \in [drain : Drains, name : Pods, uid : Nat, node : Nodes]
    BY <2>1 DEF Pod
  <2> QED
    BY <1>5, <2>2, <2>3 DEF Remove
<1>6. ASSUME NEW d \in Drains, Evict(d) PROVE TypeOK'
  <2> PICK r \in todo[d] : Remove(d, r.name) /\ todo' = [todo EXCEPT ![d] = @ \ {r}]
    BY <1>6 DEF Evict
  <2>1. r.name \in Pods
    BY DEF Listed
  <2> QED
    BY <1>5, <1>6, <2>1 DEF Evict
<1>7. ASSUME NEW d \in Drains, EvictGone(d) PROVE TypeOK'
  BY <1>7 DEF EvictGone, cluster, history
<1>8. ASSUME NEW d \in Drains, EvictRefused(d) PROVE TypeOK'
  BY <1>8, ReplyIsAnswer DEF EvictRefused, Respond, Goto, Steps, Kinds, cluster, thread, history
<1>9. ASSUME NEW d \in Drains, StartWait(d) PROVE TypeOK'
  BY <1>9, ReplyIsAnswer, DrainAssumption
     DEF StartWait, Respond, Goto, Steps, Kinds, cluster, history
<1>10. ASSUME NEW d \in Drains, Poll(d) PROVE TypeOK'
  <2>1. StillPresent(d) \subseteq Pods
    BY ToEvictSubset DEF StillPresent, Targets, Listed
  <2>2. [Reply("ok") EXCEPT !.still = StillPresent(d)] \in Answer
    BY <2>1, ReplyIsAnswer DEF Answer, Kinds
  <2> QED
    BY <1>10, <2>2 DEF Poll, Respond, Goto, Steps, cluster, thread, history
<1>11. ASSUME NEW d \in Drains, Sleep(d) PROVE TypeOK'
  BY <1>11, DrainAssumption DEF Sleep, Goto, Steps, cluster, history
<1>12. ASSUME NEW d \in Drains, CallFails(d) PROVE TypeOK'
  BY <1>12, ReplyIsAnswer DEF CallFails, Respond, Goto, Steps, Kinds, cluster, thread, history
<1>13. ASSUME NEW d \in Drains, AnswerLost(d) PROVE TypeOK'
  <2>1. Reply("unreachable") \in Answer
    BY ReplyIsAnswer DEF Kinds
  <2>2. CASE pc[d] = "cordon" /\ MarkCordoned(d) /\ UNCHANGED <<pod, removals>>
    BY <1>13, <2>1, <2>2 DEF AnswerLost, MarkCordoned, Respond, Goto, Steps, thread
  <2>3. CASE \E r \in todo[d] : Remove(d, r.name) /\ UNCHANGED <<unschedulable, held>>
    <3> PICK r \in todo[d] : Remove(d, r.name)
      BY <2>3
    <3>1. r.name \in Pods
      BY DEF Listed
    <3> QED
      BY <1>5, <1>13, <2>1, <2>3, <3>1 DEF AnswerLost, Respond, Goto, Steps, thread
  <2> QED
    BY <1>13, <2>2, <2>3 DEF AnswerLost
<1>14. CASE Crash
  BY <1>14, ReplyIsAnswer DEF Crash, Steps, Kinds, cluster, thread, history
<1>15. ASSUME NEW n \in Registered, Uncordon(n) PROVE TypeOK'
  BY <1>15 DEF Uncordon, thread
<1>16. ASSUME NEW p \in Pods, Bind(p) PROVE TypeOK'
  BY <1>16, DrainAssumption DEF Bind, thread, history, Pod
<1>17. ASSUME NEW p \in Pods, Complete(p) PROVE TypeOK'
  BY <1>17 DEF Complete, thread, history, Pod, PodTraits
<1>18. ASSUME NEW p \in Pods, Terminate(p) PROVE TypeOK'
  BY <1>18 DEF Terminate, thread, history
<1>19. CASE UNCHANGED vars
  BY <1>19 DEF vars, cluster, thread, history
<1> QED
  BY <1>1, <1>2, <1>3, <1>4, <1>6, <1>7, <1>8, <1>9, <1>10, <1>11, <1>12, <1>13,
     <1>14, <1>15, <1>16, <1>17, <1>18, <1>19 DEF Next, DrainStep, ClusterStep

\* The state of drains and cluster keeps its types.
THEOREM TypeCorrect == Spec => []TypeOK
<1>1. Init => TypeOK
  BY InitTypeOK
<1>2. TypeOK /\ [Next]_vars => TypeOK'
  BY NextTypeOK
<1> QED
  BY <1>1, <1>2, PTL DEF Spec
-----------------------------------------------------------------------------
(* How a step moves the pods, and which drain it moves                      *)

\* A name keeps its pod, loses it, or gets a new pod with the next uid; a pod
\* stays on its node, keeps its traits, and never stops terminating.  No new
\* pod that a drain would act on lands on an unschedulable node.
PodEvolves(p) ==
  \/ pod'[p] = NoPod /\ uid'[p] = uid[p]
  \/ /\ pod[p] # NoPod /\ pod'[p] # NoPod /\ uid'[p] = uid[p]
     /\ pod'[p].node = pod[p].node
     /\ pod[p].traits \subseteq pod'[p].traits
     /\ pod[p].terminating => pod'[p].terminating
  \/ /\ pod[p] = NoPod /\ pod'[p] # NoPod /\ uid'[p] = uid[p] + 1
     /\ unschedulable[pod'[p].node] => Skipped(pod'[p].traits)

\* An accepted removal moves one pod, which is then terminating or gone.
LEMMA RemoveEvolves ==
  ASSUME TypeOK, NEW d \in Drains, NEW q \in Pods, Remove(d, q), uid' = uid
  PROVE  /\ \A p \in Pods : PodEvolves(p)
         /\ pod'[q] = NoPod \/ pod'[q].terminating
<1>1. pod[q] \in Pod
  BY DEF TypeOK, Remove
<1>2. /\ [pod[q] EXCEPT !.terminating = TRUE] \in Pod
      /\ [pod[q] EXCEPT !.terminating = TRUE].node = pod[q].node
      /\ [pod[q] EXCEPT !.terminating = TRUE].traits = pod[q].traits
      /\ [pod[q] EXCEPT !.terminating = TRUE].terminating
  BY <1>1 DEF Pod
<1>3. pod'[q] = NoPod \/ pod'[q] = [pod[q] EXCEPT !.terminating = TRUE]
  BY DEF Remove, TypeOK
<1>4. \A p \in Pods \ {q} : pod'[p] = pod[p]
  BY DEF Remove, TypeOK
<1>5. PodEvolves(q)
  BY <1>2, <1>3, NoPodAssumption DEF PodEvolves, Remove
<1>6. \A p \in Pods \ {q} : PodEvolves(p)
  BY <1>4 DEF PodEvolves
<1> QED
  BY <1>2, <1>3, <1>5, <1>6

\* Pods evolve in these ways only, whoever takes the step.
LEMMA PodStep ==
  ASSUME TypeOK, [Next]_vars
  PROVE  \A p \in Pods : PodEvolves(p)
<1>1. CASE UNCHANGED <<pod, uid>>
  BY <1>1 DEF PodEvolves
<1>2. ASSUME NEW d \in Drains, Receive(d) \/ DrainStep(d) PROVE \A p \in Pods : PodEvolves(p)
  <2>1. CASE Evict(d) \/ AnswerLost(d)
    <3>1. UNCHANGED <<pod, uid>> \/ \E r \in todo[d] : Remove(d, r.name) /\ UNCHANGED uid
      BY <2>1 DEF Evict, AnswerLost
    <3>2. \A r \in todo[d] : r.name \in Pods
      BY DEF TypeOK, Listed
    <3> QED
      BY <1>1, <3>1, <3>2, RemoveEvolves
  <2>2. CASE ~(Evict(d) \/ AnswerLost(d))
    <3>1. UNCHANGED <<pod, uid>>
      BY <1>2, <2>2 DEF DrainStep, Receive, Cordon, CordonNotFound, ListPods, EvictGone,
         EvictRefused, StartWait, Poll, Sleep, CallFails, cluster
    <3> QED
      BY <1>1, <3>1
  <2> QED
    BY <2>1, <2>2
<1>3. CASE Crash
  BY <1>1, <1>3 DEF Crash, cluster
<1>4. ASSUME NEW n \in Registered, Uncordon(n) PROVE UNCHANGED <<pod, uid>>
  BY <1>4 DEF Uncordon
<1>5. ASSUME NEW q \in Pods, Bind(q) PROVE \A p \in Pods : PodEvolves(p)
  <2> PICK n \in Registered, traits \in Templates :
        /\ unschedulable[n] => {"daemonset", "mirror"} \cap traits # {}
        /\ pod' = [pod EXCEPT ![q] = [node |-> n, traits |-> traits, terminating |-> FALSE]]
    BY <1>5 DEF Bind
  <2> DEFINE new == [node |-> n, traits |-> traits, terminating |-> FALSE]
  <2>1. new \in Pod /\ new.node = n /\ new.traits = traits
    BY DrainAssumption DEF Pod
  <2>2. unschedulable[n] => Skipped(traits)
    BY DEF Skipped
  <2>3. pod'[q] = new /\ uid'[q] = uid[q] + 1 /\ pod[q] = NoPod
    BY <1>5 DEF Bind, TypeOK
  <2>4. PodEvolves(q)
    BY <2>1, <2>2, <2>3, NoPodAssumption DEF PodEvolves
  <2>5. \A p \in Pods \ {q} : pod'[p] = pod[p] /\ uid'[p] = uid[p]
    BY <1>5 DEF Bind, TypeOK
  <2> QED
    BY <2>4, <2>5 DEF PodEvolves
<1>6. ASSUME NEW q \in Pods, Complete(q) PROVE \A p \in Pods : PodEvolves(p)
  <2> DEFINE new == [pod[q] EXCEPT !.traits = @ \cup {"completed"}]
  <2>1. pod[q] \in Pod
    BY <1>6 DEF Complete, TypeOK
  <2>2. /\ new \in Pod /\ new.node = pod[q].node
        /\ pod[q].traits \subseteq new.traits /\ new.terminating = pod[q].terminating
    BY <2>1 DEF Pod, PodTraits
  <2>3. pod'[q] = new /\ uid' = uid /\ \A p \in Pods \ {q} : pod'[p] = pod[p]
    BY <1>6 DEF Complete, TypeOK
  <2>4. PodEvolves(q)
    BY <2>1, <2>2, <2>3, NoPodAssumption DEF PodEvolves
  <2> QED
    BY <2>3, <2>4 DEF PodEvolves
<1>7. ASSUME NEW q \in Pods, Terminate(q) PROVE \A p \in Pods : PodEvolves(p)
  BY <1>7 DEF Terminate, TypeOK, PodEvolves
<1>8. CASE UNCHANGED vars
  BY <1>1, <1>8 DEF vars, cluster
<1> QED
  BY <1>1, <1>2, <1>3, <1>4, <1>5, <1>6, <1>7, <1>8 DEF Next, ClusterStep

\* What a step of somebody else leaves as it is for drain d.
Untouched(d) ==
  /\ pc'[d] = pc[d] /\ listing'[d] = listing[d] /\ todo'[d] = todo[d]
  /\ answer'[d] = answer[d] /\ elapsed'[d] = elapsed[d]
  /\ removals \subseteq removals'
  /\ \A x \in removals' \ removals : x.drain # d
  /\ held'[d] => held[d]

\* What a crash does to drain d.
Dies(d) ==
  /\ pc'[d] = "done" /\ answer'[d].kind = "lost" /\ answer'[d].still = {}
  /\ listing'[d] = listing[d] /\ todo'[d] = todo[d] /\ elapsed'[d] = elapsed[d]
  /\ removals' = removals /\ held' = held

\* No step changes what was requested.
LEMMA RequestIsFixed ==
  ASSUME [Next]_vars
  PROVE  target' = target /\ options' = options
  BY DEF Next, DrainStep, ClusterStep, Receive, Cordon, CordonNotFound, ListPods, Evict,
     EvictGone, EvictRefused, StartWait, Poll, Sleep, CallFails, AnswerLost, Crash, Uncordon,
     Bind, Complete, Terminate, thread, vars

\* A step of one drain leaves the others alone.
LEMMA OthersUntouched ==
  ASSUME TypeOK, NEW d \in Drains, NEW e \in Drains \ {d}, Receive(e) \/ DrainStep(e)
  PROVE  Untouched(d)
<1> USE DEF TypeOK
<1>1. CASE Receive(e) \/ Cordon(e) \/ CordonNotFound(e) \/ ListPods(e) \/ EvictGone(e)
  BY <1>1 DEF Receive, Cordon, CordonNotFound, ListPods, EvictGone, MarkCordoned, Respond,
     Goto, Untouched, cluster, thread, history
<1>2. CASE EvictRefused(e) \/ StartWait(e) \/ Poll(e) \/ Sleep(e) \/ CallFails(e)
  BY <1>2 DEF EvictRefused, StartWait, Poll, Sleep, CallFails, Respond,
     Goto, Untouched, cluster, thread, history
<1>3. CASE Evict(e)
  BY <1>3 DEF Evict, Remove, Untouched
<1>4. CASE AnswerLost(e)
  <2>1. pc'[d] = pc[d] /\ answer'[d] = answer[d] /\ UNCHANGED thread
    BY <1>4 DEF AnswerLost, Respond, Goto
  <2>2. CASE MarkCordoned(e) /\ UNCHANGED removals
    BY <2>1, <2>2 DEF MarkCordoned, Untouched, thread
  <2>3. CASE (\E r \in todo[e] : Remove(e, r.name)) /\ UNCHANGED held
    BY <2>1, <2>3 DEF Remove, Untouched, thread
  <2> QED
    BY <1>4, <2>2, <2>3 DEF AnswerLost
<1> QED
  BY <1>1, <1>2, <1>3, <1>4 DEF DrainStep

\* From the point of view of drain d a step is its own, a crash, or a step that
\* leaves it alone.
LEMMA WhoMoves ==
  ASSUME TypeOK, [Next]_vars, NEW d \in Drains
  PROVE  Receive(d) \/ DrainStep(d) \/ Dies(d) \/ Untouched(d)
<1>1. ASSUME NEW e \in Drains \ {d}, Receive(e) \/ DrainStep(e) PROVE Untouched(d)
  BY <1>1, OthersUntouched
<1>2. CASE Crash
  <2>1. Reply("lost").kind = "lost" /\ Reply("lost").still = {}
    BY ReplyIsAnswer DEF Kinds
  <2> QED
    BY <1>2, <2>1 DEF Crash, Dies, Untouched, cluster, thread, history
<1>3. CASE ClusterStep
  BY <1>3 DEF ClusterStep, Uncordon, Bind, Complete, Terminate, Untouched, thread, history
<1>4. CASE UNCHANGED vars
  BY <1>4 DEF vars, Untouched, cluster, thread, history
<1> QED
  BY <1>1, <1>2, <1>3, <1>4 DEF Next
-----------------------------------------------------------------------------
(* The inductive invariant                                                  *)

Early(d) == pc[d] \in {"idle", "cordon", "list"}
Ok(d) == answer[d].kind = "ok"
Acting(d) == pc[d] \in {"evict", "poll", "sleep"} \/ Ok(d)

\* Control: what the thread's place says of its local variables.
Control(d) ==
  /\ pc[d] # "done" => answer[d].kind = "none" /\ answer[d].still = {}
  /\ Early(d) => listing[d] = {} /\ todo[d] = {}
  /\ todo[d] \subseteq Targets(d)
  /\ (pc[d] \in {"poll", "sleep"} \/ Ok(d)) => todo[d] = {}

\* A drain has removed nothing before it has listed, nor when it refuses, and
\* only pods with the name of a target otherwise.
OwnRemovals(d) ==
  /\ (Early(d) \/ answer[d].kind = "blocked") => \A x \in removals : x.drain # d
  /\ \A x \in removals : x.drain = d => \E r \in Targets(d) : r.name = x.name

\* A listing has one entry per name, of a pod that is either still the one
\* listed, on the same node and with at least the same traits, or gone for good.
ListingHolds(d) ==
  /\ \A r, s \in listing[d] : r.name = s.name => r = s
  /\ \A r \in listing[d] :
       /\ r.uid <= uid[r.name]
       /\ Alive(r) => pod[r.name].node = target[d] /\ r.traits \subseteq pod[r.name].traits

\* Every target that is not to be evicted any more is gone or terminating.
Committed(d) ==
  Acting(d) => \A r \in Targets(d) \ todo[d] : Alive(r) => pod[r.name].terminating

Emptied(d) == (Ok(d) /\ answer[d].still = {}) => \A r \in Targets(d) : ~Alive(r)

Kept(d) == held[d] => target[d] \in Registered /\ unschedulable[target[d]]

\* While the cordon holds, what is on the node was listed, or is skipped.
NodeCovered(d) ==
  \A p \in Pods : OnNode(p, target[d]) =>
    Skipped(pod[p].traits) \/ \E r \in Targets(d) : r.name = p /\ Alive(r)
Covered(d) == (Acting(d) /\ held[d]) => NodeCovered(d)

\* The drain's own part of the invariant, and the invariant.
OwnInv(d) ==
  /\ Control(d) /\ OwnRemovals(d) /\ ListingHolds(d) /\ Committed(d)
  /\ Emptied(d) /\ Kept(d) /\ Covered(d)
DrainInv == \A d \in Drains : OwnInv(d)

\* The inductive invariant holds when no drain has begun.
LEMMA InitDrainInv == Init => DrainInv
<1> SUFFICES ASSUME Init, NEW d \in Drains PROVE OwnInv(d)
  BY DEF DrainInv
<1>1. pc[d] = "idle" /\ answer[d].kind = "none" /\ answer[d].still = {}
  BY DEF Init, NoAnswer
<1> QED
  BY <1>1 DEF Init, OwnInv, Control, OwnRemovals, ListingHolds, Committed, Emptied, Kept,
     Covered, Early, Ok, Acting

\* A listing that is kept stays true, its dead pods stay dead and its
\* terminating ones terminating.
LEMMA ListingKept ==
  ASSUME TypeOK, [Next]_vars, NEW d \in Drains, ListingHolds(d), listing'[d] = listing[d]
  PROVE  /\ ListingHolds(d)'
         /\ Targets(d)' = Targets(d)
         /\ \A r \in listing[d] :
              Alive(r)' => Alive(r) /\ (pod[r.name].terminating => pod'[r.name].terminating)
<1>1. target' = target /\ options' = options
  BY RequestIsFixed
<1>2. Targets(d)' = Targets(d)
  BY <1>1 DEF Targets
<1>3. ASSUME NEW r \in listing[d]
      PROVE  /\ r.uid <= uid'[r.name]
             /\ Alive(r)' => /\ Alive(r)
                             /\ pod[r.name].terminating => pod'[r.name].terminating
                             /\ pod'[r.name].node = target[d]
                             /\ r.traits \subseteq pod'[r.name].traits
  <2>1. r.name \in Pods /\ r.uid \in Nat /\ uid[r.name] \in Nat
    BY DEF TypeOK, Listed
  <2>2. PodEvolves(r.name)
    BY <2>1, PodStep
  <2>3. /\ r.uid <= uid[r.name]
        /\ Alive(r) => pod[r.name].node = target[d] /\ r.traits \subseteq pod[r.name].traits
    BY DEF ListingHolds
  <2> QED
    BY <2>1, <2>2, <2>3 DEF PodEvolves, Alive
<1> QED
  BY <1>1, <1>2, <1>3 DEF ListingHolds

\* A cordon that is held is in force: whoever undoes it ends it.
LEMMA KeptStep ==
  ASSUME TypeOK, [Next]_vars, NEW d \in Drains, Kept(d), held'[d] => held[d]
  PROVE  Kept(d)'
<1>1. target' = target
  BY RequestIsFixed
<1>2. CASE UNCHANGED unschedulable
  BY <1>1, <1>2 DEF Kept
<1>3. ASSUME NEW e \in Drains, MarkCordoned(e) PROVE Kept(d)'
  BY <1>1, <1>3 DEF Kept, MarkCordoned, TypeOK
<1>4. ASSUME NEW n \in Registered, Uncordon(n) PROVE Kept(d)'
  BY <1>1, <1>4 DEF Kept, Uncordon, TypeOK
<1>5. ASSUME NEW e \in Drains, Receive(e) \/ DrainStep(e), ~MarkCordoned(e)
      PROVE  UNCHANGED unschedulable
  BY <1>5 DEF DrainStep, Receive, Cordon, CordonNotFound, ListPods, Evict, EvictGone,
     EvictRefused, StartWait, Poll, Sleep, CallFails, AnswerLost, cluster
<1>6. (Crash \/ \E p \in Pods : Bind(p) \/ Complete(p) \/ Terminate(p))
        => UNCHANGED unschedulable
  BY DEF Crash, Bind, Complete, Terminate, cluster
<1> QED
  BY <1>2, <1>3, <1>4, <1>5, <1>6 DEF Next, ClusterStep, vars, cluster

\* While it is in force no step brings work to the node: what is bound to it is
\* skipped by every drain.
LEMMA CoveredKept ==
  ASSUME TypeOK, TypeOK', [Next]_vars, NEW d \in Drains, Kept(d), ListingHolds(d),
         held[d], listing'[d] = listing[d], NodeCovered(d)
  PROVE  NodeCovered(d)'
<1>1. target' = target /\ Targets(d)' = Targets(d)
  BY RequestIsFixed, ListingKept
<1> SUFFICES ASSUME NEW p \in Pods, pod'[p] # NoPod, pod'[p].node = target[d], ~Skipped(pod'[p].traits)
             PROVE  \E r \in Targets(d) : r.name = p /\ Alive(r)'
  BY <1>1 DEF NodeCovered, OnNode
<1>2. PodEvolves(p)
  BY PodStep
<1>3. unschedulable[target[d]]
  BY DEF Kept
<1>4. /\ pod[p] # NoPod /\ uid'[p] = uid[p] /\ pod'[p].node = pod[p].node
      /\ pod[p].traits \subseteq pod'[p].traits
  BY <1>2, <1>3 DEF PodEvolves
<1>5. ~Skipped(pod[p].traits)
  BY <1>4 DEF Skipped
<1>6. PICK r \in Targets(d) : r.name = p /\ Alive(r)
  BY <1>4, <1>5 DEF NodeCovered, OnNode
<1>7. Alive(r)'
  BY <1>4, <1>6 DEF Alive
<1> QED
  BY <1>6, <1>7

\* Somebody else's step, or the end of the process, leaves a drain's part of
\* the invariant true.
LEMMA OthersKeepInv ==
  ASSUME TypeOK, TypeOK', [Next]_vars, DrainInv, NEW d \in Drains, Untouched(d) \/ Dies(d)
  PROVE  OwnInv(d)'
<1>1. /\ Control(d) /\ OwnRemovals(d) /\ ListingHolds(d) /\ Committed(d)
      /\ Emptied(d) /\ Kept(d) /\ Covered(d)
  BY DEF DrainInv, OwnInv
<1>2. listing'[d] = listing[d] /\ todo'[d] = todo[d] /\ (held'[d] => held[d])
  BY DEF Untouched, Dies
<1>3. target' = target /\ options' = options /\ Targets(d)' = Targets(d)
  BY <1>1, <1>2, RequestIsFixed, ListingKept
<1>4. \/ pc'[d] = pc[d] /\ answer'[d] = answer[d]
      \/ pc'[d] = "done" /\ answer'[d].kind = "lost"
  BY DEF Untouched, Dies
<1>5. Control(d)'
  BY <1>1, <1>2, <1>3, <1>4 DEF Control, Early, Ok
<1>6. OwnRemovals(d)'
  BY <1>1, <1>3, <1>4 DEF OwnRemovals, Early, Untouched, Dies
<1>7. ListingHolds(d)' /\ Kept(d)'
  BY <1>1, <1>2, ListingKept, KeptStep
<1>8. \A r \in Targets(d) : r \in listing[d]
  BY ToEvictSubset DEF Targets
<1>9. Committed(d)' /\ Emptied(d)'
  BY <1>1, <1>2, <1>3, <1>4, <1>8, ListingKept DEF Committed, Emptied, Acting, Ok
<1>10. Covered(d)'
  BY <1>1, <1>2, <1>4, CoveredKept DEF Covered, Acting, Ok
<1> QED
  BY <1>5, <1>6, <1>7, <1>9, <1>10 DEF OwnInv

\* A step that ends the drain without a 200 or a refusal.
LEMMA FailureKeepsInv ==
  ASSUME TypeOK, [Next]_vars, NEW d \in Drains, OwnInv(d),
         NEW kind \in Kinds \ {"ok", "blocked", "none"}, Respond(d, Reply(kind)),
         listing' = listing, todo' = todo, Kept(d)',
         \A x \in removals' : x.drain = d => x \in removals \/ \E r \in todo[d] : r.name = x.name
  PROVE  OwnInv(d)'
<1>1. pc'[d] = "done" /\ answer'[d] = Reply(kind)
  BY DEF Respond, Goto, TypeOK
<1>2. ~Early(d)' /\ ~Ok(d)' /\ ~Acting(d)' /\ answer'[d].kind # "blocked"
  BY <1>1, ReplyIsAnswer DEF Early, Ok, Acting
<1>3. ListingHolds(d)' /\ Targets(d)' = Targets(d)
  BY ListingKept DEF OwnInv
<1>4. Control(d)'
  BY <1>1, <1>2, <1>3 DEF Control, OwnInv
<1>5. OwnRemovals(d)'
  BY <1>2, <1>3 DEF OwnRemovals, Control, OwnInv
<1> QED
  BY <1>2, <1>3, <1>4, <1>5 DEF OwnInv, Committed, Emptied, Covered

\* A step of the drain that leaves the cluster, the listing and the removals
\* alone, on its way through steps 4 and 5 or to the 200.
LEMMA ProgressKeepsInv ==
  ASSUME TypeOK, TypeOK', [Next]_vars, NEW d \in Drains, OwnInv(d), Acting(d), pc[d] # "done",
         listing' = listing, held' = held,
         todo'[d] \subseteq todo[d], pc'[d] \in {"poll", "sleep", "done"} => todo'[d] = {},
         \/ pc'[d] \in {"evict", "poll", "sleep"} /\ answer' = answer
         \/ pc'[d] = "done" /\ answer'[d].kind = "ok",
         \A x \in removals' : x.drain = d => x \in removals \/ \E r \in todo[d] : r.name = x.name,
         \A r \in todo[d] \ todo'[d] : Alive(r)' => pod'[r.name].terminating,
         Emptied(d)'
  PROVE  OwnInv(d)'
<1>1. ListingHolds(d)' /\ Targets(d)' = Targets(d)
  BY ListingKept DEF OwnInv
<1>2. Kept(d)'
  BY KeptStep DEF OwnInv
<1>3. ~Early(d) /\ ~Early(d)'
  BY DEF Early, Acting, Control, OwnInv, Ok
<1>4. answer[d].kind = "none" /\ answer[d].still = {}
  BY DEF OwnInv, Control
<1>5. Control(d)'
  BY <1>1, <1>3, <1>4 DEF OwnInv, Control, Ok
<1>6. OwnRemovals(d)'
  BY <1>1, <1>3, <1>4 DEF OwnInv, OwnRemovals, Control
<1>7. \A r \in Targets(d) : r \in listing[d]
  BY ToEvictSubset DEF Targets
<1>8. Committed(d)'
  BY <1>1, <1>7, ListingKept DEF OwnInv, Committed
<1>9. Covered(d)'
  BY CoveredKept DEF OwnInv, Covered
<1> QED
  BY <1>1, <1>2, <1>5, <1>6, <1>8, <1>9 DEF OwnInv

\* Step 2: the listing is true when it is made, and covers the node.
LEMMA ListPodsKeepsInv ==
  ASSUME TypeOK, TypeOK', [Next]_vars, NEW d \in Drains, OwnInv(d), ListPods(d)
  PROVE  OwnInv(d)'
<1> DEFINE items == PodsOn(target[d])
<1>1. /\ target' = target /\ options' = options /\ pod' = pod /\ uid' = uid
      /\ unschedulable' = unschedulable /\ removals' = removals /\ held' = held
  BY RequestIsFixed DEF ListPods, cluster, history
<1>2. listing'[d] = items
  BY DEF ListPods, TypeOK
<1>3. /\ Targets(d)' = ToEvict(items, options[d])
      /\ \A r \in Targets(d)' : r \in items
  BY <1>1, <1>2, ToEvictSubset DEF Targets
<1>4. Early(d) /\ answer[d].kind = "none" /\ answer[d].still = {} /\ todo[d] = {}
  BY DEF ListPods, Early, OwnInv, Control
<1>5. \A x \in removals : x.drain # d
  BY <1>4 DEF OwnInv, OwnRemovals
<1>6. ListingHolds(d)'
  <2>1. \A r \in items : /\ r.name \in Pods /\ OnNode(r.name, target[d])
                         /\ r.uid = uid[r.name] /\ r.traits = pod[r.name].traits
    BY DEF PodsOn
  <2>2. \A r, s \in items : r.name = s.name => r = s
    BY DEF PodsOn
  <2>3. \A r \in items : r.uid <= uid[r.name]
    BY <2>1 DEF TypeOK
  <2> QED
    BY <1>1, <1>2, <2>1, <2>2, <2>3 DEF ListingHolds, OnNode
<1>7. Kept(d)'
  BY <1>1 DEF OwnInv, Kept
<1>8. CASE Refuses(items, options[d])
  <2>1. pc'[d] = "done" /\ answer'[d].kind = "blocked" /\ todo' = todo
    BY <1>8, RefusalIsAnswer DEF ListPods, Respond, Goto, TypeOK
  <2>2. Control(d)' /\ OwnRemovals(d)'
    BY <1>1, <1>4, <1>5, <2>1 DEF Control, OwnRemovals, Early, Ok
  <2>3. ~Acting(d)' /\ ~Ok(d)'
    BY <2>1 DEF Acting, Ok
  <2> QED
    BY <1>6, <1>7, <2>2, <2>3 DEF OwnInv, Committed, Emptied, Covered
<1>9. CASE ~Refuses(items, options[d])
  <2>1. pc'[d] = "evict" /\ answer' = answer /\ todo'[d] = Targets(d)'
    BY <1>3, <1>9 DEF ListPods, Goto, TypeOK
  <2>2. Control(d)' /\ OwnRemovals(d)'
    BY <1>1, <1>4, <1>5, <2>1 DEF Control, OwnRemovals, Early, Ok
  <2>3. Committed(d)' /\ Emptied(d)'
    BY <1>4, <2>1 DEF Committed, Emptied, Ok
  <2>4. ASSUME NEW p \in Pods, OnNode(p, target[d]), ~Skipped(pod[p].traits)
        PROVE  \E r \in Targets(d)' : r.name = p /\ Alive(r)
    <3> DEFINE r == [name |-> p, uid |-> uid[p], traits |-> pod[p].traits]
    <3>1. r \in items
      BY <2>4 DEF PodsOn
    <3>2. Eligible(r.traits, options[d])
      BY <1>9, <2>4, <3>1 DEF Refuses, Blocked, Eligible
    <3>3. r \in Targets(d)'
      BY <1>3, <3>1, <3>2 DEF ToEvict
    <3>4. r.name = p /\ Alive(r)
      BY <2>4 DEF Alive, OnNode
    <3> QED
      BY <3>3, <3>4
  <2>5. NodeCovered(d)'
    BY <1>1, <2>4 DEF NodeCovered, OnNode, Alive
  <2> QED
    BY <1>6, <1>7, <2>2, <2>3, <2>5 DEF OwnInv, Covered
<1> QED
  BY <1>8, <1>9

\* Step 4: the pod that has the target's name is terminating or gone after it.
LEMMA EvictKeepsInv ==
  ASSUME TypeOK, TypeOK', [Next]_vars, NEW d \in Drains, OwnInv(d), Evict(d) \/ EvictGone(d)
  PROVE  OwnInv(d)'
<1>1. /\ pc' = pc /\ pc[d] = "evict" /\ listing' = listing /\ answer' = answer /\ held' = held
      /\ answer[d].kind = "none"
  BY DEF Evict, EvictGone, history, OwnInv, Control
<1>2. PICK r \in todo[d] : /\ todo'[d] = todo[d] \ {r}
                           /\ \/ Remove(d, r.name) /\ uid' = uid
                              \/ pod'[r.name] = NoPod /\ removals' = removals
  BY DEF Evict, EvictGone, TypeOK, cluster, history
<1>3. r.name \in Pods
  BY DEF TypeOK, Listed
<1>4. Alive(r)' => pod'[r.name].terminating
  BY <1>2, <1>3, RemoveEvolves DEF Alive
<1>5. \A x \in removals' : x.drain = d => x \in removals \/ \E s \in todo[d] : s.name = x.name
  BY <1>2 DEF Remove
<1>6. Emptied(d)' /\ Acting(d)
  BY <1>1 DEF Emptied, Ok, Acting
<1>7. /\ todo'[d] \subseteq todo[d] /\ pc'[d] = "evict"
      /\ \A s \in todo[d] \ todo'[d] : Alive(s)' => pod'[s.name].terminating
  BY <1>1, <1>2, <1>4
<1> QED
  BY <1>1, <1>5, <1>6, <1>7, ProgressKeepsInv

\* Step 5: names that are not on the node are targets that are gone.
LEMMA WaitKeepsInv ==
  ASSUME TypeOK, TypeOK', [Next]_vars, NEW d \in Drains, OwnInv(d),
         StartWait(d) \/ Poll(d) \/ Sleep(d)
  PROVE  OwnInv(d)'
<1>1. /\ listing' = listing /\ todo' = todo /\ held' = held /\ removals' = removals
      /\ pod' = pod /\ uid' = uid
  BY DEF StartWait, Poll, Sleep, cluster, thread, history
<1>2. pc[d] \in {"evict", "poll", "sleep"} /\ todo[d] = {} /\ answer[d].kind = "none"
  BY DEF StartWait, Poll, Sleep, OwnInv, Control
<1>3. target' = target /\ Targets(d)' = Targets(d)
  BY ListingKept, <1>1, RequestIsFixed DEF OwnInv
<1>4. \/ pc'[d] \in {"poll", "sleep"} /\ answer' = answer
      \/ pc'[d] = "done" /\ answer'[d] = Reply("ok") /\ Targets(d) = {}
      \/ pc'[d] = "done" /\ answer'[d] = [Reply("ok") EXCEPT !.still = StillPresent(d)]
  BY DEF StartWait, Poll, Sleep, Respond, Goto, TypeOK
<1>5. /\ Reply("ok").kind = "ok"
      /\ [Reply("ok") EXCEPT !.still = StillPresent(d)].kind = "ok"
      /\ [Reply("ok") EXCEPT !.still = StillPresent(d)].still = StillPresent(d)
  BY DEF Reply, NoAnswer
<1>6. ASSUME StillPresent(d) = {}, NEW r \in Targets(d) PROVE ~Alive(r)
  <2>1. r \in listing[d]
    BY ToEvictSubset DEF Targets
  <2>2. ~OnNode(r.name, target[d])
    BY <1>6 DEF StillPresent
  <2> QED
    BY <2>1, <2>2 DEF OnNode, Alive, OwnInv, ListingHolds
<1>7. Emptied(d)'
  <2> SUFFICES ASSUME answer'[d].kind = "ok", answer'[d].still = {}, NEW r \in Targets(d)
               PROVE  ~Alive(r)'
    BY <1>3 DEF Emptied, Ok
  <2>1. StillPresent(d) = {}
    BY <1>2, <1>4, <1>5
  <2> QED
    BY <1>1, <1>6, <2>1 DEF Alive
<1>8. Acting(d) /\ pc[d] # "done"
  BY <1>2 DEF Acting
<1> QED
  BY <1>1, <1>2, <1>4, <1>5, <1>7, <1>8, ProgressKeepsInv

\* The steps of a drain keep its own part of the invariant.
LEMMA OwnStepKeepsInv ==
  ASSUME TypeOK, TypeOK', [Next]_vars, NEW d \in Drains, OwnInv(d), Receive(d) \/ DrainStep(d)
  PROVE  OwnInv(d)'
<1> USE DEF Kinds
<1>1. CASE Receive(d)
  <2>1. /\ listing' = listing /\ todo' = todo /\ removals' = removals /\ held' = held
    BY <1>1 DEF Receive, thread, history
  <2>2. Kept(d)'
    BY <2>1, KeptStep DEF OwnInv
  <2>3. CASE Respond(d, Reply("dry_run"))
    BY <2>1, <2>2, <2>3, FailureKeepsInv
  <2>4. CASE Goto(d, "cordon") /\ UNCHANGED answer
    <3>1. pc'[d] = "cordon" /\ pc[d] = "idle" /\ answer' = answer
      BY <1>1, <2>4 DEF Goto, TypeOK, Receive
    <3>2. ListingHolds(d)' /\ Targets(d)' = Targets(d)
      BY <2>1, ListingKept DEF OwnInv
    <3> QED
      BY <2>1, <2>2, <3>1, <3>2 DEF OwnInv, Control, OwnRemovals, Committed, Emptied, Covered,
         Early, Ok, Acting
  <2> QED
    BY <1>1, <2>3, <2>4 DEF Receive
<1>2. ASSUME MarkCordoned(d) PROVE Kept(d)'
  BY <1>2, RequestIsFixed DEF Kept, MarkCordoned, TypeOK
<1>3. CASE Cordon(d)
  <2>1. /\ listing' = listing /\ todo' = todo /\ removals' = removals /\ answer' = answer
        /\ pc'[d] = "list" /\ pc[d] = "cordon"
    BY <1>3 DEF Cordon, thread, Goto, TypeOK
  <2>2. Kept(d)'
    BY <1>2, <1>3 DEF Cordon
  <2>3. ListingHolds(d)' /\ Targets(d)' = Targets(d)
    BY <2>1, ListingKept DEF OwnInv
  <2> QED
    BY <2>1, <2>2, <2>3 DEF OwnInv, Control, OwnRemovals, Committed, Emptied, Covered,
       Early, Ok, Acting
<1>4. CASE CordonNotFound(d) \/ EvictRefused(d) \/ CallFails(d)
  <2>1. /\ listing' = listing /\ todo' = todo /\ removals' = removals /\ held' = held
        /\ \E kind \in {"not_found", "pdb", "api_error", "unreachable"} : Respond(d, Reply(kind))
    BY <1>4 DEF CordonNotFound, EvictRefused, CallFails, thread, history
  <2>2. Kept(d)'
    BY <2>1, KeptStep DEF OwnInv
  <2> QED
    BY <2>1, <2>2, FailureKeepsInv
<1>5. CASE ListPods(d)
  BY <1>5, ListPodsKeepsInv
<1>6. CASE Evict(d) \/ EvictGone(d)
  BY <1>6, EvictKeepsInv
<1>7. CASE StartWait(d) \/ Poll(d) \/ Sleep(d)
  BY <1>7, WaitKeepsInv
<1>8. CASE AnswerLost(d)
  <2>1. listing' = listing /\ todo' = todo /\ Respond(d, Reply("unreachable"))
    BY <1>8 DEF AnswerLost, thread
  <2>2. CASE MarkCordoned(d) /\ UNCHANGED removals
    BY <1>2, <2>1, <2>2, FailureKeepsInv
  <2>3. CASE (\E r \in todo[d] : Remove(d, r.name)) /\ UNCHANGED held
    <3>1. Kept(d)'
      BY <2>3, KeptStep DEF OwnInv
    <3>2. \A x \in removals' : x.drain = d => x \in removals \/ \E r \in todo[d] : r.name = x.name
      BY <2>3 DEF Remove
    <3> QED
      BY <2>1, <3>1, <3>2, FailureKeepsInv
  <2> QED
    BY <1>8, <2>2, <2>3 DEF AnswerLost
<1> QED
  BY <1>1, <1>3, <1>4, <1>5, <1>6, <1>7, <1>8 DEF DrainStep

\* Every step keeps the inductive invariant.
LEMMA NextDrainInv == TypeOK /\ TypeOK' /\ DrainInv /\ [Next]_vars => DrainInv'
<1> SUFFICES ASSUME TypeOK, TypeOK', DrainInv, [Next]_vars, NEW d \in Drains PROVE OwnInv(d)'
  BY DEF DrainInv
<1>1. OwnInv(d)
  BY DEF DrainInv
<1>2. CASE Receive(d) \/ DrainStep(d)
  BY <1>1, <1>2, OwnStepKeepsInv
<1>3. CASE Untouched(d) \/ Dies(d)
  BY <1>3, OthersKeepInv
<1> QED
  BY <1>2, <1>3, WhoMoves

\* The inductive invariant holds in every state of every behaviour.
LEMMA DrainInvariant == Spec => [](TypeOK /\ DrainInv)
<1>1. Init => TypeOK /\ DrainInv
  BY InitTypeOK, InitDrainInv
<1>2. TypeOK /\ DrainInv /\ [Next]_vars => TypeOK' /\ DrainInv'
  BY NextTypeOK, NextDrainInv
<1> QED
  BY <1>1, <1>2, PTL DEF Spec

-----------------------------------------------------------------------------
(* The properties                                                           *)

\* A drain that is refused has removed nothing.
THEOREM RefusedDrainsRemoveNothing == Spec => []RefusalRemovesNothing
<1>1. DrainInv => RefusalRemovesNothing
  BY DEF DrainInv, OwnInv, OwnRemovals, RefusalRemovesNothing
<1> QED
  BY <1>1, DrainInvariant, PTL

\* A drain that answers 200 leaves every pod it had to remove gone or
\* terminating.
THEOREM SuccessfulDrainsAreCommitted == Spec => []SuccessCommitsEveryTarget
<1>1. DrainInv => SuccessCommitsEveryTarget
  BY DEF DrainInv, OwnInv, Control, Committed, Acting, Ok, SuccessCommitsEveryTarget
<1> QED
  BY <1>1, DrainInvariant, PTL

\* When node_emptied is true the pods that had to be removed are gone.
THEOREM EmptiedNodesHaveNoTarget == Spec => []EmptiedMeansTargetsGone
<1>1. DrainInv => EmptiedMeansTargetsGone
  BY DEF DrainInv, OwnInv, Emptied, Ok, EmptiedMeansTargetsGone
<1> QED
  BY <1>1, DrainInvariant, PTL

\* When node_emptied is true and the cordon still holds, nothing is left on
\* the node but what drains skip.
THEOREM EmptiedNodesHoldNoWork == Spec => []EmptiedNodeHoldsNoWork
<1>1. DrainInv => EmptiedNodeHoldsNoWork
  BY DEF DrainInv, OwnInv, Emptied, Covered, NodeCovered, Acting, Ok, EmptiedNodeHoldsNoWork
<1> QED
  BY <1>1, DrainInvariant, PTL

\* A drain removes a pod it has listed only if its options permit it.
THEOREM DrainsRemoveOnlyPermitted == Spec => []RemovesOnlyPermitted
<1>1. TypeOK /\ DrainInv => RemovesOnlyPermitted
  <2> SUFFICES ASSUME TypeOK, DrainInv, NEW x \in removals, NEW r \in listing[x.drain],
                      r.name = x.name
               PROVE  Eligible(r.traits, options[x.drain])
    BY DEF RemovesOnlyPermitted
  <2>1. x.drain \in Drains
    BY DEF TypeOK
  <2>2. PICK s \in Targets(x.drain) : s.name = x.name
    BY <2>1 DEF DrainInv, OwnInv, OwnRemovals
  <2>3. s \in listing[x.drain] /\ Eligible(s.traits, options[x.drain])
    BY DEF Targets, ToEvict
  <2>4. s = r
    BY <2>1, <2>2, <2>3 DEF DrainInv, OwnInv, ListingHolds
  <2> QED
    BY <2>3, <2>4
<1> QED
  BY <1>1, DrainInvariant, PTL

-----------------------------------------------------------------------------
(* The wait and the refusal                                                 *)

\* Before the wait no time counts; a drain sleeps only while budget is left, so
\* that one sleep and one listing is all it can overshoot by.
WaitInv(d) ==
  /\ pc[d] \in {"idle", "cordon", "list", "evict"} => elapsed[d] = 0
  /\ pc[d] = "sleep" => elapsed[d] < Budget
  /\ answer[d].still # {} => elapsed[d] >= Budget
  /\ elapsed[d] < Budget + PollInterval + CallTime

\* What a refusal was computed from is still there to be compared with.
RefusalInv(d) ==
  answer[d].kind = "blocked" => answer[d].required = Refusal(listing[d], options[d]).required

AnswerInv == \A d \in Drains : WaitInv(d) /\ RefusalInv(d)

\* Every step keeps what is known of the wait and of the refusals.
LEMMA NextAnswerInv == TypeOK /\ DrainInv /\ AnswerInv /\ [Next]_vars => AnswerInv'
<1> SUFFICES ASSUME TypeOK, DrainInv, AnswerInv, [Next]_vars, NEW d \in Drains
             PROVE  WaitInv(d)' /\ RefusalInv(d)'
  BY DEF AnswerInv
<1>1. /\ WaitInv(d) /\ RefusalInv(d)
      /\ pc[d] # "done" => answer[d].kind = "none" /\ answer[d].still = {}
  BY DEF AnswerInv, DrainInv, OwnInv, Control
<1>2. target' = target /\ options' = options
  BY RequestIsFixed
<1>3. elapsed[d] \in Nat /\ Budget \in Nat /\ CallTime \in Nat /\ PollInterval \in Nat \ {0}
  BY DrainAssumption DEF TypeOK
<1>4. \A kind : Reply(kind).kind = kind /\ Reply(kind).still = {}
  BY DEF Reply, NoAnswer
<1>5. ASSUME UNCHANGED <<elapsed, listing>>, pc[d] \in Steps \ {"done"},
             NEW kind \in Kinds \ {"blocked"}, Respond(d, Reply(kind))
      PROVE  WaitInv(d)' /\ RefusalInv(d)'
  <2>1. pc'[d] = "done" /\ answer'[d].kind = kind /\ answer'[d].still = {}
    BY <1>4, <1>5 DEF Respond, Goto, TypeOK
  <2> QED
    BY <1>1, <1>5, <2>1 DEF WaitInv, RefusalInv
<1>6. CASE Receive(d) \/ DrainStep(d)
  <2>1. CASE Receive(d) \/ CordonNotFound(d) \/ EvictRefused(d) \/ CallFails(d) \/ AnswerLost(d)
    <3>1. UNCHANGED <<elapsed, listing>> /\ pc[d] \in Steps \ {"done"}
      BY <2>1 DEF Receive, CordonNotFound, EvictRefused, CallFails, AnswerLost, thread, Steps
    <3>2. \/ \E kind \in Kinds \ {"blocked"} : Respond(d, Reply(kind))
          \/ pc'[d] = "cordon" /\ pc[d] = "idle" /\ answer' = answer
      BY <2>1 DEF Receive, CordonNotFound, EvictRefused, CallFails, AnswerLost, Kinds, Goto, TypeOK
    <3> QED
      BY <1>1, <1>2, <1>5, <3>1, <3>2 DEF WaitInv, RefusalInv
  <2>2. CASE Cordon(d) \/ Evict(d) \/ EvictGone(d)
    <3>1. /\ UNCHANGED <<elapsed, listing, answer>>
          /\ pc'[d] \in {"list", "evict"} /\ pc[d] \in {"cordon", "evict"}
      BY <2>2 DEF Cordon, Evict, EvictGone, thread, Goto, TypeOK
    <3> QED
      BY <1>1, <1>2, <3>1 DEF WaitInv, RefusalInv
  <2>3. CASE ListPods(d)
    <3>1. pc[d] = "list" /\ elapsed' = elapsed /\ listing'[d] = PodsOn(target[d])
      BY <2>3 DEF ListPods, TypeOK
    <3>2. \/ pc'[d] = "done" /\ answer'[d] = Refusal(listing'[d], options[d])
          \/ pc'[d] = "evict" /\ answer' = answer
      BY <2>3, <3>1 DEF ListPods, Respond, Goto, TypeOK
    <3>3. Refusal(listing'[d], options[d]).still = {}
      BY DEF Refusal, NoAnswer
    <3> QED
      BY <1>1, <1>2, <3>1, <3>2, <3>3 DEF WaitInv, RefusalInv
  <2>4. CASE StartWait(d)
    <3>1. pc[d] = "evict" /\ listing' = listing
      BY <2>4 DEF StartWait
    <3>2. CASE elapsed' = elapsed /\ Respond(d, Reply("ok"))
      BY <1>5, <3>1, <3>2 DEF Kinds, Steps
    <3>3. CASE pc'[d] = "poll" /\ answer' = answer /\ elapsed'[d] \in 0..CallTime
      BY <1>1, <1>2, <1>3, <3>1, <3>3 DEF WaitInv, RefusalInv
    <3> QED
      BY <2>4, <3>2, <3>3 DEF StartWait, Goto, TypeOK
  <2>5. CASE Poll(d)
    <3>1. pc[d] = "poll" /\ UNCHANGED <<elapsed, listing>>
      BY <2>5 DEF Poll, thread
    <3>2. CASE /\ StillPresent(d) = {} \/ BudgetSpent(elapsed[d])
               /\ Respond(d, [Reply("ok") EXCEPT !.still = StillPresent(d)])
      <4>1. pc'[d] = "done" /\ answer'[d].kind = "ok" /\ answer'[d].still = StillPresent(d)
        BY <3>2 DEF Respond, Goto, TypeOK, Reply, NoAnswer
      <4> QED
        BY <1>1, <3>1, <3>2, <4>1 DEF WaitInv, RefusalInv, BudgetSpent
    <3>3. CASE ~BudgetSpent(elapsed[d]) /\ pc'[d] = "sleep" /\ answer' = answer
      BY <1>1, <1>2, <1>3, <3>1, <3>3 DEF WaitInv, RefusalInv, BudgetSpent
    <3> QED
      BY <2>5, <3>2, <3>3 DEF Poll, Goto, TypeOK
  <2>6. CASE Sleep(d)
    <3>1. /\ pc[d] = "sleep" /\ pc'[d] = "poll" /\ UNCHANGED <<listing, answer>>
          /\ \E t \in 0..CallTime : elapsed'[d] = elapsed[d] + PollInterval + t
      BY <2>6 DEF Sleep, Goto, TypeOK
    <3> QED
      BY <1>1, <1>2, <1>3, <3>1 DEF WaitInv, RefusalInv
  <2> QED
    BY <1>6, <2>1, <2>2, <2>3, <2>4, <2>5, <2>6 DEF DrainStep
<1>7. CASE Untouched(d)
  BY <1>1, <1>2, <1>7 DEF Untouched, WaitInv, RefusalInv
<1>8. CASE Dies(d)
  BY <1>1, <1>8 DEF Dies, WaitInv, RefusalInv
<1> QED
  BY <1>6, <1>7, <1>8, WhoMoves

\* Wait and refusals are as described in every state of every behaviour.
LEMMA AnswerInvariant == Spec => []AnswerInv
<1>1. Init => AnswerInv
  BY DrainAssumption DEF Init, AnswerInv, WaitInv, RefusalInv, NoAnswer
<1>2. TypeOK /\ DrainInv /\ AnswerInv /\ [Next]_vars => AnswerInv'
  BY NextAnswerInv
<1> QED
  BY <1>1, <1>2, DrainInvariant, PTL DEF Spec

\* The wait gives up on a pod only when the budget is spent, and overshoots it
\* by less than one sleep and one listing.
THEOREM WaitsHonourTheBudget == Spec => []WaitBudgetHonoured
<1>1. AnswerInv => WaitBudgetHonoured
  BY DEF AnswerInv, WaitInv, WaitBudgetHonoured
<1> QED
  BY <1>1, AnswerInvariant, PTL

\* The required options of a refusal lift it, and none of them can be left out.
THEOREM RefusalsTellEverything == Spec => []RefusalUnlocks
<1>1. AnswerInv => RefusalUnlocks
  <2> SUFFICES ASSUME AnswerInv, NEW d \in Drains, answer[d].kind = "blocked"
               PROVE  /\ ~Refuses(listing[d], options[d] \cup answer[d].required)
                      /\ \A o \in answer[d].required :
                           Refuses(listing[d], options[d] \cup (answer[d].required \ {o}))
    BY DEF RefusalUnlocks
  <2> DEFINE items == listing[d]
             opts == options[d]
             blocked == {r \in items : Blocked(r.traits, opts)}
             why == UNION {BlockReasons(r.traits, opts) : r \in blocked}
             required == answer[d].required
  <2>1. required = RequiredOptions(why)
    BY DEF AnswerInv, RefusalInv, Refusal, NoAnswer
  <2>2. ~Refuses(items, opts \cup required)
    <3> SUFFICES ASSUME NEW r \in items, Blocked(r.traits, opts \cup required) PROVE FALSE
      BY DEF Refuses
    <3>1. PICK w : w \in BlockReasons(r.traits, opts) /\ UnblockingOption[w] \notin required
      <4>1. PICK w : w \in BlockReasons(r.traits, opts \cup required)
        BY DEF Blocked
      <4>2. w \in BlockReasons(r.traits, opts) /\ UnblockingOption[w] \notin required
        BY <4>1 DEF BlockReasons
      <4> QED
        BY <4>2
    <3>2. r \in blocked
      BY <3>1 DEF Blocked
    <3>3. w \in why
      BY <3>1, <3>2
    <3> QED
      BY <2>1, <3>1, <3>3 DEF RequiredOptions
  <2>3. ASSUME NEW o \in required PROVE Refuses(items, opts \cup (required \ {o}))
    <3>1. PICK w \in why : o = UnblockingOption[w]
      BY <2>1 DEF RequiredOptions
    <3>2. PICK r \in blocked : w \in BlockReasons(r.traits, opts)
      OBVIOUS
    <3>3. w \in BlockReasons(r.traits, opts \cup (required \ {o}))
      BY <3>1, <3>2 DEF BlockReasons
    <3> QED
      BY <3>2, <3>3 DEF Refuses, Blocked
  <2> QED
    BY <2>2, <2>3
<1> QED
  BY <1>1, AnswerInvariant, PTL

-----------------------------------------------------------------------------
(* Drain implements DrainPromise: a step is first described for the one     *)
(* drain that takes it, then for all.                                       *)

\* A step that the promise does not see in drain d.
Same(d) ==
  /\ Stage(d)' = Stage(d) /\ PlanOf(d)' = PlanOf(d)
  /\ LeftOf(d)' = LeftOf(d) /\ RemovedBy(d)' = RemovedBy(d)

\* What a step of its own can be to the promise of drain d.
DoesNothing(d) ==
  /\ Stage(d) = "asked" /\ Stage(d)' \in {"checked", "refused"}
  /\ PlanOf(d)' = PlanOf(d) /\ LeftOf(d)' = LeftOf(d) /\ RemovedBy(d)' = RemovedBy(d)
Decides(d) ==
  /\ Stage(d) = "asked" /\ Stage(d)' = "at_work"
  /\ PlanOf(d)' \subseteq Pods /\ LeftOf(d)' = PlanOf(d)' /\ RemovedBy(d)' = RemovedBy(d)
SeesTo(d, p) ==
  /\ Stage(d) = "at_work" /\ Stage(d)' = Stage(d)
  /\ p \in LeftOf(d) /\ LeftOf(d)' = LeftOf(d) \ {p}
  /\ RemovedBy(d)' \in {RemovedBy(d), RemovedBy(d) \cup {p}}
  /\ PlanOf(d)' = PlanOf(d)
Succeeds(d) ==
  /\ Stage(d) = "at_work" /\ LeftOf(d) = {}
  /\ Stage(d)' = "emptied" \/ (Stage(d)' = "pending" /\ PlanOf(d) # {})
  /\ PlanOf(d)' = PlanOf(d) /\ LeftOf(d)' = LeftOf(d) /\ RemovedBy(d)' = RemovedBy(d)
Fails(d) ==
  /\ Stage(d) \in {"asked", "at_work"} /\ Stage(d)' = "failed"
  /\ \/ RemovedBy(d)' = RemovedBy(d)
     \/ \E p \in LeftOf(d) : RemovedBy(d)' = RemovedBy(d) \cup {p}
  /\ PlanOf(d)' = PlanOf(d) /\ LeftOf(d)' = LeftOf(d)

Moves(d) ==
  \/ Same(d) \/ DoesNothing(d) \/ Decides(d) \/ Succeeds(d) \/ Fails(d)
  \/ \E p \in Pods : SeesTo(d, p)

-----------------------------------------------------------------------------
(* One drain                                                                *)

\* What leaves a drain alone leaves its promise alone.
LEMMA UntouchedIsSame ==
  ASSUME NEW d \in Drains, Untouched(d), UNCHANGED <<target, options>>
  PROVE  Same(d)
<1>1. RemovedBy(d)' = RemovedBy(d)
  BY DEF Untouched, RemovedBy
<1> QED
  BY <1>1 DEF Untouched, Same, Stage, PlanOf, LeftOf, Names, Targets, ToEvict

\* An answer that a drain gives, seen as a stage.
LEMMA AnswerIsStage ==
  ASSUME TypeOK, NEW d \in Drains, NEW a, Respond(d, a)
  PROVE  /\ pc'[d] = "done" /\ answer'[d] = a
         /\ Stage(d)' = (IF a.kind = "dry_run" THEN "checked"
                         ELSE IF a.kind = "blocked" THEN "refused"
                         ELSE IF a.kind # "ok" THEN "failed"
                         ELSE IF a.still = {} THEN "emptied" ELSE "pending")
<1>1. pc'[d] = "done" /\ answer'[d] = a
  BY DEF TypeOK, Respond, Goto
<1> QED
  BY <1>1 DEF Stage

\* Names of the parts a drain keeps are kept with them.
LEMMA KeptParts ==
  ASSUME NEW d \in Drains, UNCHANGED <<target, options>>
  PROVE  /\ (listing'[d] = listing[d] /\ answer[d].kind # "blocked"
              /\ answer'[d].kind # "blocked") => PlanOf(d)' = PlanOf(d)
         /\ todo'[d] = todo[d] => LeftOf(d)' = LeftOf(d)
         /\ removals' = removals => RemovedBy(d)' = RemovedBy(d)
  BY DEF PlanOf, LeftOf, RemovedBy, Names, Targets, ToEvict

\* A drain that fails before its call took effect.
LEMMA FailureFails ==
  ASSUME TypeOK, NEW d \in Drains, OwnInv(d),
         NEW kind \in {"not_found", "pdb", "api_error", "unreachable", "lost"},
         pc[d] \in {"cordon", "list", "evict", "poll", "sleep"}, Respond(d, Reply(kind)),
         UNCHANGED thread, UNCHANGED history
  PROVE  Fails(d)
<1>1. Reply(kind).kind = kind
  BY ReplyIsAnswer DEF Kinds
<1>2. Stage(d)' = "failed" /\ answer'[d].kind = kind
  BY <1>1, AnswerIsStage
<1>3. Stage(d) \in {"asked", "at_work"}
  BY DEF Stage
<1>4. answer[d].kind = "none"
  BY DEF OwnInv, Control
<1> QED
  BY <1>2, <1>3, <1>4, KeptParts DEF Fails, thread, history

\* The removals of a drain that removes a pod.
LEMMA RemoveAddsName ==
  ASSUME NEW d \in Drains, NEW p \in Pods, Remove(d, p)
  PROVE  RemovedBy(d)' = RemovedBy(d) \cup {p}
<1> DEFINE new == [drain |-> d, name |-> p, uid |-> uid[p], node |-> pod[p].node]
<1>1. removals' = removals \cup {new}
  BY DEF Remove
<1>2. new.drain = d /\ new.name = p
  OBVIOUS
<1> HIDE DEF new
<1> QED
  BY <1>1, <1>2 DEF RemovedBy

\* The names left once an entry is seen to: no other entry has its name.
LEMMA OneNameLess ==
  ASSUME TypeOK, NEW d \in Drains, OwnInv(d), NEW r \in todo[d],
         todo' = [todo EXCEPT ![d] = @ \ {r}]
  PROVE  LeftOf(d)' = LeftOf(d) \ {r.name} /\ r.name \in LeftOf(d)
<1>1. todo'[d] = todo[d] \ {r}
  BY DEF TypeOK
<1>2. \A s \in todo[d] : s.name = r.name => s = r
  BY ToEvictSubset DEF OwnInv, Control, ListingHolds, Targets
<1> QED
  BY <1>1, <1>2 DEF LeftOf, Names

\* Before the listing a drain is asked, and plans nothing.
LEMMA EarlyHasNoPlan ==
  ASSUME NEW d \in Drains, OwnInv(d), Early(d)
  PROVE  /\ Stage(d) = "asked" /\ PlanOf(d) = {} /\ LeftOf(d) = {}
         /\ answer[d].kind = "none"
  BY DEF OwnInv, Control, Early, Stage, PlanOf, LeftOf, Names, Targets, ToEvict
\* What each step of a drain is to its promise.
LEMMA OwnStepMoves ==
  ASSUME TypeOK, NEW d \in Drains, OwnInv(d), Receive(d) \/ DrainStep(d)
  PROVE  Moves(d)
<1> USE DEF TypeOK
<1>1. CASE Receive(d)
  <2>1. Early(d) /\ UNCHANGED thread /\ UNCHANGED history
    BY <1>1 DEF Receive, Early
  <2>2. CASE Respond(d, Reply("dry_run"))
    <3>1. Stage(d)' = "checked" /\ answer'[d].kind = "dry_run"
      BY <2>2, AnswerIsStage, ReplyIsAnswer DEF Kinds
    <3> QED
      BY <2>1, <3>1, EarlyHasNoPlan, KeptParts DEF Moves, DoesNothing, thread, history
  <2>3. CASE Goto(d, "cordon") /\ UNCHANGED answer
    <3>1. Stage(d)' = "asked"
      BY <2>3 DEF Goto, Stage
    <3> QED
      BY <2>1, <2>3, <3>1, EarlyHasNoPlan, KeptParts DEF Moves, Same, thread, history
  <2> QED
    BY <1>1, <2>2, <2>3 DEF Receive
<1>2. CASE Cordon(d)
  <2>1. Stage(d)' = "asked" /\ Early(d)
    BY <1>2 DEF Cordon, Goto, Stage, Early
  <2> QED
    BY <1>2, <2>1, EarlyHasNoPlan, KeptParts DEF Cordon, Moves, Same, thread
<1>3. CASE CordonNotFound(d)
  BY <1>3, FailureFails DEF CordonNotFound, Moves
<1>4. CASE ListPods(d)
  <2> DEFINE items == PodsOn(target[d])
  <2>1. Early(d) /\ listing'[d] = items /\ UNCHANGED <<target, options, removals>>
    BY <1>4 DEF ListPods, Early, history
  <2>2. CASE Refuses(items, options[d])
    <3>1. Respond(d, Refusal(items, options[d])) /\ todo' = todo
      BY <1>4, <2>2 DEF ListPods
    <3>2. Stage(d)' = "refused" /\ answer'[d].kind = "blocked"
      BY <3>1, AnswerIsStage, RefusalIsAnswer
    <3>3. PlanOf(d)' = {}
      BY <3>2 DEF PlanOf
    <3> QED
      BY <2>1, <3>1, <3>2, <3>3, EarlyHasNoPlan, KeptParts DEF Moves, DoesNothing
  <2>3. CASE ~Refuses(items, options[d])
    <3>1. /\ todo'[d] = ToEvict(items, options[d]) /\ pc'[d] = "evict"
          /\ answer' = answer
      BY <1>4, <2>3 DEF ListPods, Goto
    <3>2. Stage(d)' = "at_work"
      BY <3>1 DEF Stage
    <3>3. PlanOf(d)' = Names(ToEvict(items, options[d])) /\ LeftOf(d)' = PlanOf(d)'
      BY <2>1, <3>1, EarlyHasNoPlan DEF PlanOf, LeftOf, Targets, Names
    <3>4. Names(ToEvict(items, options[d])) \subseteq Pods
      BY PodsOnIsListing, ToEvictSubset DEF Names, Listed
    <3> QED
      BY <2>1, <3>2, <3>3, <3>4, EarlyHasNoPlan, KeptParts DEF Moves, Decides
  <2> QED
    BY <2>2, <2>3
<1>5. CASE Evict(d)
  <2>1. PICK r \in todo[d] : Remove(d, r.name) /\ todo' = [todo EXCEPT ![d] = @ \ {r}]
    BY <1>5 DEF Evict
  <2>2. r.name \in Pods
    BY DEF Listed
  <2>3. LeftOf(d)' = LeftOf(d) \ {r.name} /\ r.name \in LeftOf(d)
    BY <2>1, OneNameLess
  <2>4. RemovedBy(d)' = RemovedBy(d) \cup {r.name}
    BY <2>1, <2>2, RemoveAddsName
  <2>5. PlanOf(d)' = PlanOf(d) /\ Stage(d)' = Stage(d) /\ Stage(d) = "at_work"
    BY <1>5 DEF Evict, PlanOf, Targets, ToEvict, Stage
  <2> QED
    BY <2>2, <2>3, <2>4, <2>5 DEF Moves, SeesTo
<1>6. CASE EvictGone(d)
  <2>1. PICK r \in todo[d] : todo' = [todo EXCEPT ![d] = @ \ {r}]
    BY <1>6 DEF EvictGone
  <2>2. r.name \in Pods
    BY DEF Listed
  <2>3. LeftOf(d)' = LeftOf(d) \ {r.name} /\ r.name \in LeftOf(d)
    BY <2>1, OneNameLess
  <2>4. RemovedBy(d)' = RemovedBy(d)
    BY <1>6 DEF EvictGone, history, RemovedBy
  <2>5. PlanOf(d)' = PlanOf(d) /\ Stage(d)' = Stage(d) /\ Stage(d) = "at_work"
    BY <1>6 DEF EvictGone, PlanOf, Targets, ToEvict, Stage
  <2> QED
    BY <2>2, <2>3, <2>4, <2>5 DEF Moves, SeesTo
<1>7. CASE EvictRefused(d)
  BY <1>7, FailureFails DEF EvictRefused, Moves
<1>8. CASE StartWait(d)
  <2>1. /\ Stage(d) = "at_work" /\ LeftOf(d) = {} /\ answer[d].kind = "none"
        /\ UNCHANGED <<listing, todo, target, options, removals>>
    BY <1>8 DEF StartWait, Stage, LeftOf, Names, OwnInv, Control, history
  <2>2. CASE Targets(d) = {}
    <3>1. Respond(d, Reply("ok"))
      BY <1>8, <2>2 DEF StartWait
    <3>2. Stage(d)' = "emptied" /\ answer'[d].kind = "ok"
      BY <3>1, AnswerIsStage, ReplyIsAnswer DEF Kinds
    <3> QED
      BY <2>1, <3>2, KeptParts DEF Moves, Succeeds
  <2>3. CASE Targets(d) # {}
    <3>1. pc'[d] = "poll" /\ answer' = answer
      BY <1>8, <2>3 DEF StartWait, Goto
    <3>2. Stage(d)' = "at_work"
      BY <3>1 DEF Stage
    <3> QED
      BY <2>1, <3>1, <3>2, KeptParts DEF Moves, Same
  <2> QED
    BY <2>2, <2>3
<1>9. CASE Poll(d)
  <2>1. /\ Stage(d) = "at_work" /\ LeftOf(d) = {} /\ answer[d].kind = "none"
        /\ UNCHANGED <<listing, todo, target, options, removals>>
    BY <1>9 DEF Poll, Stage, LeftOf, Names, OwnInv, Control, history, thread
  <2>2. CASE Goto(d, "sleep") /\ UNCHANGED answer
    <3>1. Stage(d)' = "at_work"
      BY <2>2 DEF Goto, Stage
    <3> QED
      BY <2>1, <2>2, <3>1, KeptParts DEF Moves, Same
  <2>3. CASE Respond(d, [Reply("ok") EXCEPT !.still = StillPresent(d)])
    <3> DEFINE a == [Reply("ok") EXCEPT !.still = StillPresent(d)]
    <3>1. a.kind = "ok" /\ a.still = StillPresent(d)
      BY DEF Reply, NoAnswer
    <3>2. Respond(d, a)
      BY <2>3
    <3> HIDE DEF a
    <3>3. /\ answer'[d].kind = "ok"
          /\ Stage(d)' = (IF a.still = {} THEN "emptied" ELSE "pending")
      BY <3>1, <3>2, AnswerIsStage
    <3>4. StillPresent(d) # {} => PlanOf(d) # {}
      BY <2>1 DEF StillPresent, PlanOf, Names
    <3> QED
      BY <2>1, <3>1, <3>3, <3>4, KeptParts DEF Moves, Succeeds
  <2> QED
    BY <1>9, <2>2, <2>3 DEF Poll
<1>10. CASE Sleep(d)
  <2>1. Stage(d)' = Stage(d)
    BY <1>10 DEF Sleep, Goto, Stage
  <2> QED
    BY <1>10, <2>1 DEF Sleep, Moves, Same, PlanOf, LeftOf, RemovedBy, Names, Targets, ToEvict, history
<1>11. CASE CallFails(d)
  <2>1. PICK kind \in {"api_error", "unreachable"} : Respond(d, Reply(kind))
    BY <1>11 DEF CallFails
  <2> QED
    BY <1>11, <2>1, FailureFails DEF CallFails, Moves
<1>12. CASE AnswerLost(d)
  <2>1. pc[d] \in {"cordon", "evict"} /\ Respond(d, Reply("unreachable")) /\ UNCHANGED thread
    BY <1>12 DEF AnswerLost
  <2>2. CASE UNCHANGED removals
    <3>1. Reply("unreachable").kind = "unreachable"
      BY ReplyIsAnswer DEF Kinds
    <3>2. Stage(d)' = "failed" /\ answer'[d].kind = "unreachable"
      BY <2>1, <3>1, AnswerIsStage
    <3>3. Stage(d) \in {"asked", "at_work"} /\ answer[d].kind = "none"
      BY <2>1 DEF Stage, OwnInv, Control
    <3> QED
      BY <2>1, <2>2, <3>2, <3>3, KeptParts DEF Moves, Fails, thread
  <2>3. CASE \E r \in todo[d] : Remove(d, r.name)
    <3>1. PICK r \in todo[d] : Remove(d, r.name)
      BY <2>3
    <3>2. r.name \in Pods /\ r.name \in LeftOf(d)
      BY DEF Listed, LeftOf, Names
    <3>3. RemovedBy(d)' = RemovedBy(d) \cup {r.name}
      BY <3>1, <3>2, RemoveAddsName
    <3>4. Reply("unreachable").kind = "unreachable"
      BY ReplyIsAnswer DEF Kinds
    <3>5. Stage(d)' = "failed" /\ answer'[d].kind = "unreachable"
      BY <2>1, <3>4, AnswerIsStage
    <3>6. Stage(d) \in {"asked", "at_work"} /\ answer[d].kind = "none"
      BY <2>1 DEF Stage, OwnInv, Control
    <3> QED
      BY <2>1, <3>2, <3>3, <3>5, <3>6, KeptParts DEF Moves, Fails, thread
  <2> QED
    BY <1>12, <2>2, <2>3 DEF AnswerLost
<1> QED
  BY <1>1, <1>2, <1>3, <1>4, <1>5, <1>6, <1>7, <1>8, <1>9, <1>10, <1>11, <1>12 DEF DrainStep
-----------------------------------------------------------------------------
(* All drains                                                               *)

\* Functions that differ at one place only are each other's EXCEPT.
LEMMA OnePlace ==
  ASSUME NEW d \in Drains, \A e \in Drains \ {d} : Same(e)
  PROVE  /\ Stages' = [Stages EXCEPT ![d] = Stage(d)']
         /\ Plans' = [Plans EXCEPT ![d] = PlanOf(d)']
         /\ Remaining' = [Remaining EXCEPT ![d] = LeftOf(d)']
         /\ RemovedNames' = [RemovedNames EXCEPT ![d] = RemovedBy(d)']
<1>1. \A e \in Drains \ {d} : Stage(e)' = Stage(e)
  BY DEF Same
<1>2. \A e \in Drains \ {d} : PlanOf(e)' = PlanOf(e)
  BY DEF Same
<1>3. \A e \in Drains \ {d} : LeftOf(e)' = LeftOf(e)
  BY DEF Same
<1>4. \A e \in Drains \ {d} : RemovedBy(e)' = RemovedBy(e)
  BY DEF Same
<1>5. Stages' = [Stages EXCEPT ![d] = Stage(d)']
  BY <1>1 DEF Stages
<1>6. Plans' = [Plans EXCEPT ![d] = PlanOf(d)']
  BY <1>2 DEF Plans
<1>7. Remaining' = [Remaining EXCEPT ![d] = LeftOf(d)']
  BY <1>3 DEF Remaining
<1>8. RemovedNames' = [RemovedNames EXCEPT ![d] = RemovedBy(d)']
  BY <1>4 DEF RemovedNames
<1> QED
  BY <1>5, <1>6, <1>7, <1>8

\* A part that is the same at the place as well is the same function.
LEMMA NoPlace ==
  ASSUME NEW d \in Drains, \A e \in Drains \ {d} : Same(e)
  PROVE  /\ Stage(d)' = Stage(d) => Stages' = Stages
         /\ PlanOf(d)' = PlanOf(d) => Plans' = Plans
         /\ LeftOf(d)' = LeftOf(d) => Remaining' = Remaining
         /\ RemovedBy(d)' = RemovedBy(d) => RemovedNames' = RemovedNames
  BY DEF Same, Stages, Plans, Remaining, RemovedNames

\* A step of one drain is a step of the promise, or one it does not see.
LEMMA MoveIsPromised ==
  ASSUME NEW d \in Drains, Moves(d), \A e \in Drains \ {d} : Same(e)
  PROVE  [Promise!Next]_(Promise!promise)
<1>1. /\ Stages[d] = Stage(d) /\ Plans[d] = PlanOf(d)
      /\ Remaining[d] = LeftOf(d) /\ RemovedNames[d] = RemovedBy(d)
  BY DEF Stages, Plans, Remaining, RemovedNames
<1>2. CASE Same(d)
  BY <1>2, NoPlace DEF Same, Promise!promise
<1>3. CASE DoesNothing(d)
  <2>1. Promise!DoNothing(d)
    BY <1>1, <1>3, OnePlace, NoPlace DEF DoesNothing, Promise!DoNothing, Promise!Become
  <2> QED
    BY <2>1 DEF Promise!Next
<1>4. CASE Decides(d)
  <2>1. Promise!Decide(d)
    BY <1>1, <1>4, OnePlace, NoPlace DEF Decides, Promise!Decide, Promise!Become
  <2> QED
    BY <2>1 DEF Promise!Next
<1>5. CASE Succeeds(d)
  <2>1. Promise!Succeed(d)
    BY <1>1, <1>5, OnePlace, NoPlace DEF Succeeds, Promise!Succeed, Promise!Become
  <2> QED
    BY <2>1 DEF Promise!Next
<1>6. CASE Fails(d)
  <2>1. Promise!Fail(d)
    BY <1>1, <1>6, OnePlace, NoPlace DEF Fails, Promise!Fail, Promise!Become, Promise!Answered
  <2> QED
    BY <2>1 DEF Promise!Next
<1>7. ASSUME NEW p \in Pods, SeesTo(d, p) PROVE Promise!Next
  <2>1. Promise!SeeTo(d, p)
    BY <1>1, <1>7, OnePlace, NoPlace DEF SeesTo, Promise!SeeTo
  <2> QED
    BY <2>1 DEF Promise!Next
<1> QED
  BY <1>2, <1>3, <1>4, <1>5, <1>6, <1>7 DEF Moves

\* A crash fails all running drains together.
LEMMA CrashIsPromised ==
  ASSUME TypeOK, DrainInv, Crash
  PROVE  Promise!Next
<1> DEFINE running == {d \in Drains : pc[d] \notin {"idle", "done"}}
<1>1. UNCHANGED <<listing, todo, options, removals>>
  BY DEF Crash, thread, history
<1>2. ASSUME NEW d \in running
      PROVE  Stage(d)' = "failed" /\ Stage(d) \notin Promise!Answered /\ PlanOf(d)' = PlanOf(d)
  <2>1. Reply("lost").kind = "lost"
    BY ReplyIsAnswer DEF Kinds
  <2>2. pc'[d] = "done" /\ answer'[d].kind = "lost"
    BY <2>1 DEF Crash
  <2>3. answer[d].kind = "none" /\ pc[d] \in Steps \ {"idle", "done"}
    BY DEF DrainInv, OwnInv, Control, TypeOK
  <2> QED
    BY <1>1, <2>2, <2>3 DEF Stage, Steps, Promise!Answered, PlanOf, Targets, ToEvict
<1>3. ASSUME NEW d \in Drains \ running
      PROVE  Stage(d)' = Stage(d) /\ PlanOf(d)' = PlanOf(d)
  <2>1. pc'[d] = pc[d] /\ answer'[d] = answer[d]
    BY DEF Crash
  <2> QED
    BY <1>1, <2>1 DEF Stage, PlanOf, Targets, ToEvict
<1>4. Plans' = Plans
  BY <1>2, <1>3 DEF Plans
<1>5. Remaining' = Remaining /\ RemovedNames' = RemovedNames
  BY <1>1 DEF Remaining, RemovedNames, LeftOf, RemovedBy
<1>6. Stages' = [d \in Drains |-> IF d \in running THEN "failed" ELSE Stages[d]]
  BY <1>2, <1>3 DEF Stages
<1>7. \A d \in running : Stages[d] \notin Promise!Answered
  BY <1>2 DEF Stages
<1>8. running \in SUBSET {d \in Drains : Stages[d] \notin Promise!Answered}
  BY <1>7
<1>9. Promise!FailTogether
  BY <1>4, <1>5, <1>6, <1>8 DEF Promise!FailTogether
<1> QED
  BY <1>9 DEF Promise!Next

\* Every step is one of the promise or one it does not see.
LEMMA NextIsPromised ==
  ASSUME TypeOK, DrainInv, [Next]_vars
  PROVE  [Promise!Next]_(Promise!promise)
<1>1. ASSUME NEW d \in Drains, Receive(d) \/ DrainStep(d)
      PROVE  [Promise!Next]_(Promise!promise)
  <2>1. Moves(d)
    BY <1>1, OwnStepMoves DEF DrainInv
  <2>2. \A e \in Drains \ {d} : Untouched(e)
    BY <1>1, OthersUntouched
  <2>3. \A e \in Drains \ {d} : Same(e)
    BY <2>2, UntouchedIsSame, RequestIsFixed
  <2> QED
    BY <2>1, <2>3, MoveIsPromised
<1>2. CASE Crash
  BY <1>2, CrashIsPromised
<1>3. CASE ClusterStep \/ UNCHANGED vars
  <2>1. UNCHANGED <<pc, listing, todo, options, answer, removals>>
    BY <1>3 DEF ClusterStep, Uncordon, Bind, Complete, Terminate, vars, thread, history
  <2> QED
    BY <2>1 DEF Promise!promise, Stages, Plans, Remaining, RemovedNames, Stage, PlanOf,
       LeftOf, RemovedBy, Names, Targets, ToEvict
<1> QED
  BY <1>1, <1>2, <1>3 DEF Next

\* The initial states are those of the promise.
LEMMA InitIsPromised == Init => Promise!Init
<1> SUFFICES ASSUME Init PROVE Promise!Init
  OBVIOUS
<1>1. NoAnswer.kind = "none"
  BY DEF NoAnswer
<1>2. \A d \in Drains : /\ Stage(d) = "asked" /\ PlanOf(d) = {}
                        /\ LeftOf(d) = {} /\ RemovedBy(d) = {}
  BY <1>1 DEF Init, Stage, PlanOf, LeftOf, RemovedBy, Names, Targets, ToEvict
<1> QED
  BY <1>2 DEF Promise!Init, Stages, Plans, Remaining, RemovedNames

\* A drain keeps its promise, for any number of drains, pods and nodes.
THEOREM DrainsKeepTheirPromise == Spec => KeepsPromise
<1>1. Init => Promise!Init
  BY InitIsPromised
<1>2. TypeOK /\ DrainInv /\ [Next]_vars => [Promise!Next]_(Promise!promise)
  BY NextIsPromised
<1> QED
  BY <1>1, <1>2, DrainInvariant, PTL DEF Spec, KeepsPromise, Promise!Spec
=============================================================================
