----------------------------- MODULE Cordoning ------------------------------
(***************************************************************************)
(* Cordon and uncordon, of one node and of a batch:                         *)
(* POST .../nodes/{node}/cordon, .../nodes/{node}/uncordon,                 *)
(* .../nodes:cordon and .../nodes:uncordon.                                 *)
(*                                                                          *)
(* Every request runs on a worker thread.  It interleaves at its API calls  *)
(* with other requests and with the cluster, where nodes join, leave and    *)
(* change their Ready condition.  There is one action per API call and      *)
(* outcome; the readiness gate of an uncordon is judged on an earlier read. *)
(***************************************************************************)
EXTENDS Integers, SequencesExt

CONSTANTS
  Requests,   \* the requests
  Nodes,      \* node names
  Blank,      \* the name that is empty once it is stripped
  Bodies,     \* the lists of raw names a batch may carry
  MaxEvents   \* bound: how often the cluster changes under the requests

ASSUME CordoningAssumption ==
  /\ Blank \notin Nodes
  /\ Bodies \subseteq Seq([name : Nodes \cup {Blank}, padded : BOOLEAN])
  /\ MaxEvents \in Nat

VARIABLES
  \* the cluster
  registered,     \* the nodes the API server has
  condition,      \* node -> status of its Ready condition
  unschedulable,  \* node -> spec.unschedulable
  events,         \* how often the cluster has changed
  \* the requests
  pc,             \* request -> where its thread is
  op,             \* request -> the endpoint called
  body,           \* request -> the names in the request
  queue,          \* request -> nodes the loop has still to act on
  statuses,       \* request -> node -> the readiness it was judged on
  results,        \* request -> BatchNodeResults so far
  answer,         \* request -> the response
  \* history, read by properties only
  patched,        \* request -> nodes a patch of it took effect on
  quiet           \* request -> no node has changed since it was received

cluster == <<registered, condition, unschedulable, events>>
request == <<op, body, queue, statuses, results>>
vars == <<cluster, pc, request, answer, patched, quiet>>

Ops == {"cordon", "uncordon", "cordon_many", "uncordon_many"}
Conditions == {"True", "False", "Unknown", "absent"}

\* Slip: readiness is inferred from the absence of a bad condition.
NodeStatusUnlessFalse(c) == IF c = "False" THEN "NotReady" ELSE "Ready"
\* _node_status: the condition is three-valued, and may not be there yet.
NodeStatus(c) ==
  CASE c = "True" -> "Ready"
    [] c = "False" -> "NotReady"
    [] OTHER -> "Unknown"

Outcomes == {"success", "NODE_NOT_FOUND", "NODE_NOT_READY", "KUBE_ERROR"}
\* "cluster_error" is the error envelope of an unreachable API server or of
\* credentials it rejects; "done" is the 200 that carries results.
Answers == {"none", "done", "cluster_error"} \cup Outcomes

IsBatch(r) == op[r] \in {"cordon_many", "uncordon_many"}
Uncordons(r) == op[r] \in {"uncordon", "uncordon_many"}

-----------------------------------------------------------------------------
(* The names of a batch                                                     *)

\* Slip: names are made unique before they are stripped.
NamesUniqueFirst(raw) ==
  LET kept[i \in 0..Len(raw)] ==
        IF i = 0 THEN <<>>
        ELSE IF raw[i].name = Blank \/ Contains(SubSeq(raw, 1, i - 1), raw[i]) THEN kept[i - 1]
        ELSE Append(kept[i - 1], raw[i].name)
  IN kept[Len(raw)]

\* BatchNodeRequest._strip_node_names drops the names that are blank, and
\* dict.fromkeys those that are there already.
Names(raw) ==
  LET kept[i \in 0..Len(raw)] ==
        IF i = 0 THEN <<>>
        ELSE IF raw[i].name = Blank \/ Contains(kept[i - 1], raw[i].name) THEN kept[i - 1]
        ELSE Append(kept[i - 1], raw[i].name)
  IN kept[Len(raw)]

Init ==
  /\ registered \in SUBSET Nodes
  /\ condition \in [Nodes -> Conditions]
  /\ unschedulable \in [Nodes -> BOOLEAN]
  /\ \A n \in Nodes \ registered : condition[n] = "absent" /\ ~unschedulable[n]
  /\ events = 0
  /\ pc = [r \in Requests |-> "idle"]
  /\ op \in [Requests -> Ops]
  /\ body \in [Requests -> Bodies]
  /\ \A r \in Requests : ~IsBatch(r) => Len(body[r]) = 1 /\ body[r][1].name # Blank
  /\ queue = [r \in Requests |-> <<>>]
  /\ statuses = [r \in Requests |-> [n \in Nodes |-> "missing"]]
  /\ results = [r \in Requests |-> <<>>]
  /\ answer = [r \in Requests |-> "none"]
  /\ patched = [r \in Requests |-> {}]
  /\ quiet = [r \in Requests |-> FALSE]

-----------------------------------------------------------------------------
(* The requests                                                             *)

Goto(r, step) == pc' = [pc EXCEPT ![r] = step]
Respond(r, a) == Goto(r, "done") /\ answer' = [answer EXCEPT ![r] = a]

\* Only an uncordon reads first, and a batch with no name left reads nothing.
Receive(r) ==
  /\ pc[r] = "idle"
  /\ queue' = [queue EXCEPT ![r] = Names(body[r])]
  /\ Goto(r, IF Uncordons(r) /\ Names(body[r]) # <<>> THEN "read" ELSE "patch")
  /\ quiet' = [quiet EXCEPT ![r] = TRUE]
  /\ UNCHANGED <<cluster, op, body, statuses, results, answer, patched>>

\* Slip: the text of the condition is taken for the status.
JudgementRaw(n) == IF n \in registered THEN condition[n] ELSE "missing"

\* What a node is judged on: its status, or that it is not there.
Judgement(n) == IF n \in registered THEN NodeStatus(condition[n]) ELSE "missing"

\* uncordon: one node is read, and refused unless it is Ready.
ReadNode(r) ==
  /\ pc[r] = "read" /\ ~IsBatch(r)
  /\ LET n == Head(queue[r]) IN
       /\ statuses' = [statuses EXCEPT ![r][n] = Judgement(n)]
       /\ \/ Judgement(n) = "Ready" /\ Goto(r, "patch") /\ UNCHANGED answer
          \/ Judgement(n) = "missing" /\ Respond(r, "NODE_NOT_FOUND")
          \/ Judgement(n) \in {"NotReady", "Unknown"} /\ Respond(r, "NODE_NOT_READY")
  /\ UNCHANGED <<cluster, op, body, queue, results, patched, quiet>>

\* uncordon_many: one listing for the whole batch.
ListNodes(r) ==
  /\ pc[r] = "read" /\ IsBatch(r)
  /\ statuses' = [statuses EXCEPT ![r] = [n \in Nodes |-> Judgement(n)]]
  /\ Goto(r, "patch")
  /\ UNCHANGED <<cluster, op, body, queue, results, answer, patched, quiet>>

\* The read fails, for whatever reason: no node has been touched.
ReadFails(r) ==
  /\ pc[r] = "read"
  /\ \/ Respond(r, "cluster_error")
     \/ Respond(r, "KUBE_ERROR")
  /\ UNCHANGED <<cluster, request, patched, quiet>>

\* The gate of the batch loop: a node missing from the listing passes it.
GatePasses(r, n) == Uncordons(r) => statuses[r][n] \in {"Ready", "missing"}

\* Slip: a node that is not Ready ends the batch.
SettleAborting(r, outcome) ==
  IF IsBatch(r) /\ outcome # "NODE_NOT_READY"
    THEN /\ results' = [results EXCEPT ![r] = Append(@, [node |-> Head(queue[r]), outcome |-> outcome])]
         /\ queue' = [queue EXCEPT ![r] = Tail(@)]
         /\ UNCHANGED <<pc, answer>>
    ELSE Respond(r, outcome) /\ UNCHANGED <<results, queue>>

\* How one node's outcome is settled: a batch records it and goes on, a single
\* call answers with it.
Settle(r, outcome) ==
  IF IsBatch(r)
    THEN /\ results' = [results EXCEPT ![r] = Append(@, [node |-> Head(queue[r]), outcome |-> outcome])]
         /\ queue' = [queue EXCEPT ![r] = Tail(@)]
         /\ UNCHANGED <<pc, answer>>
    ELSE Respond(r, IF outcome = "success" THEN "done" ELSE outcome)
         /\ UNCHANGED <<results, queue>>

Acting(r) == pc[r] = "patch" /\ queue[r] # <<>>

RefuseNotReady(r) ==
  /\ Acting(r) /\ ~GatePasses(r, Head(queue[r]))
  /\ Settle(r, "NODE_NOT_READY")
  /\ UNCHANGED <<cluster, op, body, statuses, patched, quiet>>

Patches(r) == Acting(r) /\ GatePasses(r, Head(queue[r]))

\* Slip: the flag of the patch is taken over from the node.
ApplyUnchanged(r) ==
  /\ Head(queue[r]) \in registered
  /\ patched' = [patched EXCEPT ![r] = @ \cup {Head(queue[r])}]
  /\ UNCHANGED cluster

\* The patch takes effect: last writer wins, nothing is compared.
Apply(r) ==
  /\ Head(queue[r]) \in registered
  /\ unschedulable' = [unschedulable EXCEPT ![Head(queue[r])] = ~Uncordons(r)]
  /\ patched' = [patched EXCEPT ![r] = @ \cup {Head(queue[r])}]
  /\ UNCHANGED <<registered, condition, events>>

PatchNode(r) ==
  /\ Patches(r) /\ Apply(r)
  /\ Settle(r, "success")
  /\ UNCHANGED <<op, body, statuses, quiet>>

PatchNotFound(r) ==
  /\ Patches(r) /\ Head(queue[r]) \notin registered
  /\ Settle(r, "NODE_NOT_FOUND")
  /\ UNCHANGED <<cluster, op, body, statuses, patched, quiet>>

\* The API server fails on this node, before or after it applied the patch.
PatchError(r) ==
  /\ Patches(r)
  /\ Apply(r) \/ UNCHANGED <<cluster, patched>>
  /\ Settle(r, "KUBE_ERROR")
  /\ UNCHANGED <<op, body, statuses, quiet>>

\* Slip: a failure of the connection goes unnoticed, and the batch goes on.
ClusterErrorRecorded(r) ==
  /\ Patches(r)
  /\ Apply(r) \/ UNCHANGED <<cluster, patched>>
  /\ Settle(r, "success")
  /\ UNCHANGED <<op, body, statuses, quiet>>

\* No connection, or 401 or 403: the request ends, whatever it has done so far.
ClusterError(r) ==
  /\ Patches(r)
  /\ Apply(r) \/ UNCHANGED <<cluster, patched>>
  /\ Respond(r, "cluster_error")
  /\ UNCHANGED <<request, quiet>>

\* The end of the batch loop.
Finish(r) ==
  /\ pc[r] = "patch" /\ queue[r] = <<>>
  /\ Respond(r, "done")
  /\ UNCHANGED <<cluster, request, patched, quiet>>

RequestStep(r) ==
  \/ Receive(r) \/ ReadNode(r) \/ ListNodes(r) \/ ReadFails(r)
  \/ RefuseNotReady(r) \/ PatchNode(r) \/ PatchNotFound(r)
  \/ PatchError(r) \/ ClusterError(r) \/ Finish(r)

-----------------------------------------------------------------------------
(* The cluster                                                              *)

ClusterChanges ==
  /\ events < MaxEvents
  /\ events' = events + 1
  /\ quiet' = [r \in Requests |-> FALSE]
  /\ UNCHANGED <<pc, request, answer, patched>>

\* A node registers: schedulable, and not assessed yet.
Join(n) ==
  /\ n \notin registered
  /\ registered' = registered \cup {n}
  /\ ClusterChanges
  /\ UNCHANGED <<condition, unschedulable>>

\* A node object is deleted, and its cordon with it.
Leave(n) ==
  /\ n \in registered
  /\ registered' = registered \ {n}
  /\ condition' = [condition EXCEPT ![n] = "absent"]
  /\ unschedulable' = [unschedulable EXCEPT ![n] = FALSE]
  /\ ClusterChanges

\* The kubelet reports, or the node controller gives up on it.
Assess(n, c) ==
  /\ n \in registered /\ c \in Conditions \ {"absent", condition[n]}
  /\ condition' = [condition EXCEPT ![n] = c]
  /\ ClusterChanges
  /\ UNCHANGED <<registered, unschedulable>>

Next ==
  \/ \E r \in Requests : RequestStep(r)
  \/ \E n \in Nodes : Join(n) \/ Leave(n) \/ \E c \in Conditions : Assess(n, c)

Spec == Init /\ [][Next]_vars

-----------------------------------------------------------------------------
(* Properties                                                               *)

\* The type invariant of the requests and of the nodes they act on.
TypeOK ==
  /\ registered \subseteq Nodes
  /\ condition \in [Nodes -> Conditions]
  /\ unschedulable \in [Nodes -> BOOLEAN]
  /\ events \in 0..MaxEvents
  /\ pc \in [Requests -> {"idle", "read", "patch", "done"}]
  /\ op \in [Requests -> Ops]
  /\ body \in [Requests -> Bodies]
  /\ queue \in [Requests -> Seq(Nodes)]
  /\ statuses \in [Requests -> [Nodes -> {"Ready", "NotReady", "Unknown", "missing"}]]
  /\ results \in [Requests -> Seq([node : Nodes, outcome : Outcomes])]
  /\ answer \in [Requests -> Answers]
  /\ patched \in [Requests -> SUBSET Nodes]
  /\ quiet \in [Requests -> BOOLEAN]

\* The nodes a body names, without the padding and the blanks.
Named(r) == {body[r][i].name : i \in DOMAIN body[r]} \ {Blank}

\* A batch that answers 200 reports on every node it names exactly once,
\* however the name was padded or repeated, so results can be keyed by name.
ResultsCoverTheBatch ==
  \A r \in Requests : (IsBatch(r) /\ answer[r] = "done") =>
    /\ {results[r][i].node : i \in DOMAIN results[r]} = Named(r)
    /\ \A i, j \in DOMAIN results[r] : results[r][i].node = results[r][j].node => i = j

\* What is reported of a node is what happened to it: a success took effect,
\* and a node reported missing or not ready was not touched by the request.
ResultsTellTheTruth ==
  \A r \in Requests : \A i \in DOMAIN results[r] :
    LET result == results[r][i] IN
      /\ result.outcome = "success" => result.node \in patched[r]
      /\ result.outcome \in {"NODE_NOT_FOUND", "NODE_NOT_READY"} => result.node \notin patched[r]

\* One node never aborts a batch: only a failure of the cluster, or of the
\* listing before any node was touched, ends it without results.
OneNodeNeverAborts ==
  \A r \in Requests : IsBatch(r) =>
    /\ answer[r] \in {"none", "done", "cluster_error", "KUBE_ERROR"}
    /\ answer[r] = "KUBE_ERROR" => patched[r] = {} /\ results[r] = <<>>

\* Requests do not undo one another by accident: as long as the node object is
\* not replaced, a node that only cordons have patched is unschedulable, one
\* that only uncordons have patched is schedulable.
PatchedNodesAreAsAsked ==
  \A r \in Requests : \A n \in patched[r] :
    (quiet[r] /\ \A s \in Requests : n \in patched[s] => Uncordons(s) = Uncordons(r))
      => unschedulable[n] = ~Uncordons(r)

\* The readiness gate does its work while the cluster holds still: no node is
\* then uncordoned that is not Ready when it is patched, though the whole batch
\* is judged on one listing and missing nodes pass the gate.
QuietUncordonIsReady ==
  [][\A r \in Requests : \A n \in patched'[r] \ patched[r] :
       (Uncordons(r) /\ quiet[r]) => condition[n] = "True"]_vars

-----------------------------------------------------------------------------
(* What the documentation says, and the code does not do                    *)

\* "Per-node outcomes are reported in results, so a failed node never hides the
\* nodes that succeeded"; a cluster-level failure is an error response "since no
\* node was attempted" (app/api/v1/nodes.py:160-165).
ClusterErrorMeansNoAttempt ==
  \A r \in Requests : (IsBatch(r) /\ answer[r] = "cluster_error") =>
    \A i \in DOMAIN results[r] : results[r][i].outcome # "success"
=============================================================================
