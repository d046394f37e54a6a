---------------------------- MODULE NodeMetadata ----------------------------
(***************************************************************************)
(* The labels, annotations and taints of a node:                            *)
(* PATCH .../nodes/{node}/labels, .../annotations and .../taints.           *)
(*                                                                          *)
(* Requests run on worker threads and interleave at their API calls.  A     *)
(* patch of labels or annotations names its keys and is merged by the API   *)
(* server.  The taints of a node are one list to it: they are read, changed *)
(* and written back whole, with nothing to tell whether they changed        *)
(* meanwhile.  Every answer is read again after the patch.                  *)
(***************************************************************************)
EXTENDS Integers

CONSTANTS
  Requests,   \* the requests
  Keys,       \* keys of labels and annotations; (key, effect) of taints
  Values,     \* what a key may be set to
  Absent,     \* in place of a value: the key is not there
  Other,      \* whoever else writes to the node
  Bodies,     \* the bodies a request may carry
  MaxEvents   \* bound: how often the cluster writes to the node

Maps == [Keys -> Values \cup {Absent}]

ASSUME MetadataAssumption ==
  /\ Absent \notin Values
  /\ Other \notin Requests
  /\ Bodies \subseteq [set : Maps, remove : SUBSET Keys]
  /\ MaxEvents \in Nat

VARIABLES
  \* the node
  registered,  \* the API server has it
  meta,        \* field -> its keys and their values
  events,      \* how often the cluster has written to it
  \* the requests
  pc,          \* request -> where its thread is
  field,       \* request -> the endpoint called
  body,        \* request -> what it sets and removes
  view,        \* request -> the taints it has read
  answer,      \* request -> the response
  shown,       \* request -> the map in the response
  \* history, read by properties only
  writer,      \* field -> key -> who last named it in a write
  meddled      \* request -> its field was written by another since its last call

node == <<registered, meta, events>>
vars == <<node, pc, field, body, view, answer, shown, writer, meddled>>

Fields == {"labels", "annotations", "taints"}
Answers == {"none", "ok", "NODE_NOT_FOUND", "KUBE_ERROR"}
Nothing == [k \in Keys |-> Absent]

\* The keys a request names, and whether there are any.
Named(r) == body[r].remove \cup {k \in Keys : body[r].set[k] # Absent}

-----------------------------------------------------------------------------
(* What is written                                                          *)

\* Slip: a removed key is sent as an empty string.
MergePatchBlank(old, b) ==
  [k \in Keys |-> IF k \in b.remove THEN "" ELSE IF b.set[k] # Absent THEN b.set[k] ELSE old[k]]

\* Slip: the map in the patch replaces the one of the node.
MergePatchWhole(old, b) ==
  [k \in Keys |-> IF k \in b.remove THEN Absent ELSE b.set[k]]

\* The merge of a patch with one null per removed key.  A key that is both set
\* and removed is removed.
MergePatch(old, b) ==
  [k \in Keys |-> IF k \in b.remove THEN Absent ELSE IF b.set[k] # Absent THEN b.set[k] ELSE old[k]]

\* Slip: the list starts from the taints that are set.
NewTaintsOnly(read, b) == [k \in Keys |-> b.set[k]]

\* new_taints: of the taints read, some are removed, then some are set.  A
\* taint that is both removed and set is set.
NewTaints(read, b) ==
  [k \in Keys |-> IF b.set[k] # Absent THEN b.set[k] ELSE IF k \in b.remove THEN Absent ELSE read[k]]

\* The field of the node once the patch of r is applied.
Patched(r) ==
  IF field[r] = "taints" THEN NewTaints(view[r], body[r])
                         ELSE MergePatch(meta[field[r]], body[r])

-----------------------------------------------------------------------------
(* The requests                                                             *)

Init ==
  /\ registered = TRUE
  /\ meta \in [Fields -> Maps]
  /\ events = 0
  /\ pc = [r \in Requests |-> "idle"]
  /\ field \in [Requests -> Fields]
  /\ body \in [Requests -> Bodies]
  /\ view = [r \in Requests |-> Nothing]
  /\ answer = [r \in Requests |-> "none"]
  /\ shown = [r \in Requests |-> Nothing]
  /\ writer = [f \in Fields |-> [k \in Keys |-> Other]]
  /\ meddled = [r \in Requests |-> FALSE]

Goto(r, step) == pc' = [pc EXCEPT ![r] = step]
Respond(r, a) == Goto(r, "done") /\ answer' = [answer EXCEPT ![r] = a]
Show(r, map) == Respond(r, "ok") /\ shown' = [shown EXCEPT ![r] = map]

\* Taints are read first; labels and annotations are patched at once, and a
\* request that names no key is answered with an empty map.
Receive(r) ==
  /\ pc[r] = "idle"
  /\ \/ field[r] = "taints" /\ Goto(r, "read") /\ UNCHANGED <<answer, shown>>
     \/ field[r] # "taints" /\ Named(r) # {} /\ Goto(r, "patch") /\ UNCHANGED <<answer, shown>>
     \/ field[r] # "taints" /\ Named(r) = {} /\ Show(r, Nothing)
  /\ UNCHANGED <<node, field, body, view, writer, meddled>>

\* taint_node reads the taints it starts from; if it has none to change they
\* are the answer.
ReadTaints(r) ==
  /\ pc[r] = "read" /\ registered
  /\ view' = [view EXCEPT ![r] = meta["taints"]]
  /\ IF Named(r) = {} THEN Show(r, meta["taints"]) ELSE Goto(r, "patch") /\ UNCHANGED <<answer, shown>>
  /\ meddled' = [meddled EXCEPT ![r] = FALSE]
  /\ UNCHANGED <<node, field, body, writer>>

\* Field f is written: everybody else who works on it is told, unless done.
Meddle(f, r) ==
  meddled' = [s \in Requests |->
    IF s = r THEN FALSE ELSE meddled[s] \/ (field[s] = f /\ pc[s] # "done")]

\* The API server applies the patch of r.
Apply(r) ==
  /\ registered
  /\ meta' = [meta EXCEPT ![field[r]] = Patched(r)]
  /\ writer' = [writer EXCEPT ![field[r]] = [k \in Keys |-> IF k \in Named(r) THEN r ELSE @[k]]]
  /\ Meddle(field[r], r)

Patch(r) ==
  /\ pc[r] = "patch" /\ Apply(r)
  /\ Goto(r, "fetch")
  /\ UNCHANGED <<registered, events, field, body, view, answer, shown>>

\* Slip: the answer is what was read before the patch.
FetchedEarlier(r) == view[r]
\* _fetch_node_labels, _fetch_node_annotations, and the second read of the taints.
Fetched(r) == meta[field[r]]

Fetch(r) ==
  /\ pc[r] = "fetch" /\ registered
  /\ Show(r, Fetched(r))
  /\ UNCHANGED <<node, field, body, view, writer, meddled>>

NotFound(r) ==
  /\ pc[r] \in {"read", "patch", "fetch"} /\ ~registered
  /\ Respond(r, "NODE_NOT_FOUND")
  /\ UNCHANGED <<node, field, body, view, shown, writer, meddled>>

\* A call fails, or its answer is lost: a patch may have been applied.
CallFails(r) ==
  /\ pc[r] \in {"read", "patch", "fetch"}
  /\ \/ pc[r] = "patch" /\ Apply(r)
     \/ UNCHANGED <<meta, writer, meddled>>
  /\ Respond(r, "KUBE_ERROR")
  /\ UNCHANGED <<registered, events, field, body, view, shown>>

RequestStep(r) ==
  Receive(r) \/ ReadTaints(r) \/ Patch(r) \/ Fetch(r) \/ NotFound(r) \/ CallFails(r)

-----------------------------------------------------------------------------
(* The cluster                                                              *)

ClusterWrites ==
  /\ events < MaxEvents
  /\ events' = events + 1
  /\ UNCHANGED <<pc, field, body, view, answer, shown>>

\* The node controller, the kubelet or kubectl write one key.
WriteKey(f, k, v) ==
  /\ registered /\ meta[f][k] # v
  /\ meta' = [meta EXCEPT ![f][k] = v]
  /\ writer' = [writer EXCEPT ![f][k] = Other]
  /\ Meddle(f, Other)
  /\ ClusterWrites
  /\ UNCHANGED registered

\* The node object is deleted with all it carries, or registers again.
Replace ==
  /\ registered' = ~registered
  /\ meta' = [f \in Fields |-> Nothing]
  /\ writer' = [f \in Fields |-> [k \in Keys |-> Other]]
  /\ meddled' = [r \in Requests |-> meddled[r] \/ pc[r] # "done"]
  /\ ClusterWrites

Next ==
  \/ \E r \in Requests : RequestStep(r)
  \/ \E f \in Fields, k \in Keys, v \in Values \cup {Absent} : WriteKey(f, k, v)
  \/ Replace

Spec == Init /\ [][Next]_vars

-----------------------------------------------------------------------------
(* Properties                                                               *)

\* The type invariant of the node and of the requests that patch it.
TypeOK ==
  /\ registered \in BOOLEAN
  /\ meta \in [Fields -> Maps]
  /\ events \in 0..MaxEvents
  /\ pc \in [Requests -> {"idle", "read", "patch", "fetch", "done"}]
  /\ field \in [Requests -> Fields]
  /\ body \in [Requests -> Bodies]
  /\ view \in [Requests -> Maps]
  /\ answer \in [Requests -> Answers]
  /\ shown \in [Requests -> Maps]
  /\ writer \in [Fields -> [Keys -> Requests \cup {Other}]]
  /\ meddled \in [Requests -> BOOLEAN]

\* What a request asks of a key it names: removal wins over labels and
\* annotations, setting wins over taints.
Wanted(r, k) ==
  IF field[r] # "taints" /\ k \in body[r].remove THEN Absent ELSE body[r].set[k]

\* The last one who names a label or an annotation has its way: no request
\* undoes what another one did to a key it does not name.
MergedWritesStand ==
  \A f \in {"labels", "annotations"}, k \in Keys :
    writer[f][k] # Other => meta[f][k] = Wanted(writer[f][k], k)

\* A taint request that nobody meddled with between its read and its patch
\* leaves the taints it does not name alone and gives the others what it asks,
\* also when the answer of the patch is lost.
QuietTaintsKeepTheRest ==
  [][\A r \in Requests :
       (field[r] = "taints" /\ ~meddled[r] /\ pc[r] = "patch" /\ pc'[r] # "patch") =>
         \A k \in Keys :
           meta'["taints"][k] # meta["taints"][k] => k \in Named(r) /\ meta'["taints"][k] = Wanted(r, k)]_vars

\* A 200 shows what was asked for, unless somebody wrote to the same field
\* between the patch and the read that follows it; of a node that was replaced
\* in between nothing is promised.
AnswerShowsTheWrite ==
  \A r \in Requests : (answer[r] = "ok" /\ ~meddled[r]) =>
    \A k \in Named(r) : shown[r][k] = Wanted(r, k)

-----------------------------------------------------------------------------
(* What the documentation says, and the code does not do                    *)

\* "set to add/overwrite taints (...), remove to delete taints by key+effect"
\* (app/api/v1/nodes.py:382-383): a taint that was set stays until somebody who
\* names it changes it.
TaintWritesStand ==
  \A k \in Keys : writer["taints"][k] # Other => meta["taints"][k] = Wanted(writer["taints"][k], k)
=============================================================================
