------------------------ MODULE NodeMetadataProofs -------------------------
(***************************************************************************)
(* Proofs about NodeMetadata, for any number of requests, keys and values,  *)
(* any bodies, and a cluster that writes as often as it likes.              *)
(***************************************************************************)
EXTENDS NodeMetadata, TLAPS

\* What is written to the keys a request names is what it asks for, and the
\* taints it does not name are taken over from the ones it has read.
LEMMA PatchedIsWanted ==
  ASSUME TypeOK, NEW r \in Requests, NEW k \in Keys
  PROVE  /\ k \in Named(r) => Patched(r)[k] = Wanted(r, k)
         /\ k \notin Named(r) =>
              Patched(r)[k] = IF field[r] = "taints" THEN view[r][k] ELSE meta[field[r]][k]
  BY DEF TypeOK, Patched, NewTaints, MergePatch, Named, Wanted

\* A patch turns a map into a map.
LEMMA PatchedIsMap ==
  ASSUME TypeOK, NEW r \in Requests
  PROVE  Patched(r) \in Maps
<1>1. field[r] \in Fields /\ meta[field[r]] \in Maps /\ view[r] \in Maps
  BY DEF TypeOK
<1>2. body[r].set \in Maps
  BY MetadataAssumption DEF TypeOK
<1> QED
  BY <1>1, <1>2 DEF Patched, NewTaints, MergePatch, Maps

-----------------------------------------------------------------------------
(* Type correctness                                                         *)

\* A patch that the API server applies keeps the types of what it writes.
LEMMA ApplyTypeOK ==
  ASSUME TypeOK, NEW r \in Requests, Apply(r)
  PROVE  /\ meta' \in [Fields -> Maps]
         /\ writer' \in [Fields -> [Keys -> Requests \cup {Other}]]
         /\ meddled' \in [Requests -> BOOLEAN]
<1>1. meta' \in [Fields -> Maps]
  BY PatchedIsMap DEF Apply, TypeOK
<1>2. field[r] \in Fields /\ writer[field[r]] \in [Keys -> Requests \cup {Other}]
  BY DEF TypeOK
<1>3. writer' \in [Fields -> [Keys -> Requests \cup {Other}]]
  BY <1>2 DEF Apply, TypeOK
<1>4. meddled' \in [Requests -> BOOLEAN]
  BY DEF Apply, Meddle, TypeOK
<1> QED
  BY <1>1, <1>3, <1>4

\* The map of no key is a map.
LEMMA NothingIsMap == Nothing \in Maps
  BY DEF Nothing, Maps

\* The initial states have their types.
LEMMA InitTypeOK == Init => TypeOK
  BY NothingIsMap, MetadataAssumption DEF Init, TypeOK, Answers

\* Every step keeps them.
LEMMA NextTypeOK == TypeOK /\ [Next]_vars => TypeOK'
<1> SUFFICES ASSUME TypeOK, [Next]_vars PROVE TypeOK'
  OBVIOUS
<1>1. ASSUME NEW r \in Requests, Receive(r) PROVE TypeOK'
  <2>1. /\ pc' \in [Requests -> {"idle", "read", "patch", "fetch", "done"}]
        /\ answer' \in [Requests -> Answers]
        /\ shown' \in [Requests -> Maps]
    <3>1. CASE UNCHANGED <<answer, shown>> /\ (Goto(r, "read") \/ Goto(r, "patch"))
      BY <3>1 DEF TypeOK, Goto
    <3>2. CASE Show(r, Nothing)
      BY <3>2, NothingIsMap DEF TypeOK, Show, Respond, Goto, Answers
    <3> QED
      BY <1>1, <3>1, <3>2 DEF Receive
  <2> QED
    BY <1>1, <2>1 DEF TypeOK, Receive, node
<1>2. ASSUME NEW r \in Requests, ReadTaints(r) PROVE TypeOK'
  <2>1. meta["taints"] \in Maps
    BY DEF TypeOK, Fields
  <2> QED
    BY <1>2, <2>1 DEF TypeOK, ReadTaints, Show, Respond, Goto, Answers, node
<1>3. ASSUME NEW r \in Requests, Patch(r) PROVE TypeOK'
  BY <1>3, ApplyTypeOK DEF TypeOK, Patch, Goto
<1>4. ASSUME NEW r \in Requests, Fetch(r) PROVE TypeOK'
  BY <1>4 DEF TypeOK, Fetch, Fetched, Show, Respond, Goto, Answers, node
<1>5. ASSUME NEW r \in Requests, NotFound(r) PROVE TypeOK'
  BY <1>5 DEF TypeOK, NotFound, Respond, Goto, Answers, node
<1>6. ASSUME NEW r \in Requests, CallFails(r) PROVE TypeOK'
  <2>1. /\ meta' \in [Fields -> Maps]
        /\ writer' \in [Fields -> [Keys -> Requests \cup {Other}]]
        /\ meddled' \in [Requests -> BOOLEAN]
    BY <1>6, ApplyTypeOK DEF CallFails, TypeOK
  <2> QED
    BY <1>6, <2>1 DEF TypeOK, CallFails, Respond, Goto, Answers
<1>7. ASSUME NEW f \in Fields, NEW k \in Keys, NEW v \in Values \cup {Absent}, WriteKey(f, k, v)
      PROVE  TypeOK'
  <2>1. meta' \in [Fields -> Maps]
    BY <1>7 DEF WriteKey, TypeOK, Maps
  <2>2. writer' \in [Fields -> [Keys -> Requests \cup {Other}]]
    BY <1>7 DEF WriteKey, TypeOK
  <2>3. meddled' \in [Requests -> BOOLEAN]
    BY <1>7 DEF WriteKey, Meddle, TypeOK
  <2>4. events' \in 0..MaxEvents
    BY <1>7, MetadataAssumption DEF WriteKey, ClusterWrites, TypeOK
  <2> QED
    BY <1>7, <2>1, <2>2, <2>3, <2>4 DEF TypeOK, WriteKey, ClusterWrites
<1>8. CASE Replace
  BY <1>8, NothingIsMap, MetadataAssumption DEF TypeOK, Replace, ClusterWrites
<1>9. CASE UNCHANGED vars
  BY <1>9 DEF TypeOK, vars, node
<1> QED
  BY <1>1, <1>2, <1>3, <1>4, <1>5, <1>6, <1>7, <1>8, <1>9 DEF Next, RequestStep

\* The node and the requests keep their types (TypeOK).
THEOREM TypeCorrect == Spec => []TypeOK
  BY InitTypeOK, NextTypeOK, PTL DEF Spec

-----------------------------------------------------------------------------
(* Merge patches                                                            *)

\* The last writer of a key works on that field and names that key.
WritersNamed ==
  \A f \in Fields, k \in Keys :
    writer[f][k] # Other => field[writer[f][k]] = f /\ k \in Named(writer[f][k])

\* What merge patches keep, besides their types.
MergeInv == TypeOK /\ WritersNamed /\ MergedWritesStand

\* A patch keeps it: what is written to a named key is what its writer wants,
\* and the merge leaves the other keys alone.
LEMMA ApplyMerge ==
  ASSUME MergeInv, NEW r \in Requests, Apply(r), UNCHANGED <<field, body>>
  PROVE  WritersNamed' /\ MergedWritesStand'
<1> USE DEF MergeInv
<1>1. /\ field[r] \in Fields /\ meta \in [Fields -> Maps]
      /\ writer \in [Fields -> [Keys -> Requests \cup {Other}]]
  BY DEF TypeOK
<1>2. ASSUME NEW f \in Fields, NEW k \in Keys
      PROVE  writer'[f][k] = IF f = field[r] /\ k \in Named(r) THEN r ELSE writer[f][k]
  BY <1>1 DEF Apply
<1>3. ASSUME NEW f \in Fields, NEW k \in Keys
      PROVE  meta'[f][k] = IF f = field[r] THEN Patched(r)[k] ELSE meta[f][k]
  BY <1>1 DEF Apply
<1>4. WritersNamed'
  BY <1>2 DEF WritersNamed, Named
<1>5. MergedWritesStand'
  <2> SUFFICES ASSUME NEW f \in {"labels", "annotations"}, NEW k \in Keys, writer'[f][k] # Other
               PROVE  meta'[f][k] = Wanted(writer'[f][k], k)
    BY DEF MergedWritesStand, Wanted
  <2>1. f \in Fields
    BY DEF Fields
  <2>2. CASE f = field[r] /\ k \in Named(r)
    BY <1>2, <1>3, <2>1, <2>2, PatchedIsWanted
  <2>3. CASE f = field[r] /\ k \notin Named(r)
    <3>1. Patched(r)[k] = meta[f][k]
      BY <2>3, PatchedIsWanted
    <3> QED
      BY <1>2, <1>3, <2>1, <2>3, <3>1 DEF MergedWritesStand
  <2>4. CASE f # field[r]
    BY <1>2, <1>3, <2>1, <2>4 DEF MergedWritesStand
  <2> QED
    BY <2>2, <2>3, <2>4
<1> QED
  BY <1>4, <1>5

\* Initially nobody has written.
LEMMA InitMerge == Init => MergeInv
  BY InitTypeOK DEF Init, MergeInv, WritersNamed, MergedWritesStand, Fields

\* Every step keeps it.
LEMMA NextMerge == MergeInv /\ [Next]_vars => MergeInv'
<1> SUFFICES ASSUME MergeInv, [Next]_vars PROVE MergeInv'
  OBVIOUS
<1>1. TypeOK'
  BY NextTypeOK DEF MergeInv
<1>2. ASSUME UNCHANGED <<meta, writer, field, body>> PROVE WritersNamed' /\ MergedWritesStand'
  BY <1>2 DEF MergeInv, WritersNamed, MergedWritesStand, Named, Wanted
<1>3. ASSUME NEW r \in Requests, RequestStep(r) PROVE WritersNamed' /\ MergedWritesStand'
  <2>1. CASE Receive(r) \/ ReadTaints(r) \/ Fetch(r) \/ NotFound(r)
    BY <1>2, <2>1 DEF Receive, ReadTaints, Fetch, NotFound, node
  <2>2. CASE Patch(r)
    BY <2>2, ApplyMerge DEF Patch
  <2>3. CASE CallFails(r)
    BY <1>2, <2>3, ApplyMerge DEF CallFails
  <2> QED
    BY <1>3, <2>1, <2>2, <2>3 DEF RequestStep
<1>4. ASSUME NEW f \in Fields, NEW k \in Keys, NEW v \in Values \cup {Absent}, WriteKey(f, k, v)
      PROVE  WritersNamed' /\ MergedWritesStand'
  <2>1. /\ writer \in [Fields -> [Keys -> Requests \cup {Other}]] /\ meta \in [Fields -> [Keys -> Values \cup {Absent}]]
        /\ WritersNamed /\ MergedWritesStand
    BY DEF MergeInv, TypeOK, Maps
  <2>2. ASSUME NEW g \in Fields, NEW j \in Keys
        PROVE  writer'[g][j] = Other \/ (writer'[g][j] = writer[g][j] /\ meta'[g][j] = meta[g][j])
    BY <1>4, <2>1 DEF WriteKey
  <2>3. UNCHANGED <<field, body>>
    BY <1>4 DEF WriteKey, ClusterWrites
  <2> QED
    BY <2>1, <2>2, <2>3 DEF WritersNamed, MergedWritesStand, Named, Wanted, Fields
<1>5. CASE Replace
  <2>1. \A f \in Fields, k \in Keys : writer'[f][k] = Other
    BY <1>5 DEF Replace
  <2> QED
    BY <1>1, <2>1 DEF MergeInv, WritersNamed, MergedWritesStand, Fields
<1>6. CASE UNCHANGED vars
  <2>1. UNCHANGED <<meta, writer, field, body>>
    BY <1>6 DEF vars, node
  <2> QED
    BY <1>1, <1>2, <2>1 DEF MergeInv
<1> QED
  BY <1>1, <1>3, <1>4, <1>5, <1>6 DEF Next, MergeInv

\* No request undoes what another one did to a label or an annotation it does
\* not name (MergedWritesStand), however their calls interleave.
THEOREM MergesLoseNoWrite == Spec => []MergedWritesStand
<1>1. MergeInv => MergedWritesStand
  BY DEF MergeInv
<1> QED
  BY <1>1, InitMerge, NextMerge, PTL DEF Spec

-----------------------------------------------------------------------------
(* Answers, and taints that nobody meddles with                             *)

\* As long as nobody meddles, the taints a request starts from are the ones of
\* the node when it patches them ...
QuietView(r) ==
  (pc[r] = "patch" /\ field[r] = "taints" /\ ~meddled[r]) => view[r] = meta["taints"]

\* ... what it asked for is there when it reads again ...
QuietFetch(r) ==
  (pc[r] = "fetch" /\ ~meddled[r]) => \A k \in Named(r) : meta[field[r]][k] = Wanted(r, k)

\* ... and in the answer, which is given once.
QuietAnswer(r) ==
  /\ answer[r] = "ok" => pc[r] = "done"
  /\ (answer[r] = "ok" /\ ~meddled[r]) => \A k \in Named(r) : shown[r][k] = Wanted(r, k)

\* Together they are kept by every step.
QuietInv(r) == QuietView(r) /\ QuietFetch(r) /\ QuietAnswer(r)

\* What a step that is not the request's own may do to its field: nothing, or
\* it is told, or it is done and does not care.
Told(r) ==
  \/ meddled'[r] = meddled[r] /\ meta'[field[r]] = meta[field[r]]
  \/ meddled'[r]
  \/ meddled'[r] = meddled[r] /\ pc[r] = "done"

\* A request keeps its part under the steps of everybody else.
LEMMA OthersKeepQuiet ==
  ASSUME TypeOK, NEW r \in Requests, QuietInv(r), Told(r), UNCHANGED <<field, body>>,
         pc'[r] = pc[r], view'[r] = view[r], answer'[r] = answer[r], shown'[r] = shown[r]
  PROVE  QuietInv(r)'
<1>1. QuietView(r)'
  BY DEF QuietInv, QuietView, Told
<1>2. QuietFetch(r)'
  BY DEF QuietInv, QuietFetch, Told, Named, Wanted
<1>3. QuietAnswer(r)'
  BY DEF QuietInv, QuietAnswer, Told, Named, Wanted
<1> QED
  BY <1>1, <1>2, <1>3 DEF QuietInv

\* A patch tells everybody else who works on the same field.
LEMMA PatchTells ==
  ASSUME TypeOK, NEW r \in Requests, NEW s \in Requests, s # r, Apply(s)
  PROVE  Told(r)
<1>1. meddled'[r] = (meddled[r] \/ (field[r] = field[s] /\ pc[r] # "done"))
  BY DEF Apply, Meddle
<1>2. field[r] # field[s] => meta'[field[r]] = meta[field[r]]
  BY DEF TypeOK, Apply
<1> QED
  BY <1>1, <1>2 DEF TypeOK, Told

\* Initially no request has read or been answered.
LEMMA InitQuiet == Init => \A r \in Requests : QuietInv(r)
  BY DEF Init, QuietInv, QuietView, QuietFetch, QuietAnswer

\* A request's own steps keep its part.
LEMMA OwnStepQuiet ==
  ASSUME TypeOK, NEW r \in Requests, QuietInv(r), RequestStep(r)
  PROVE  QuietInv(r)'
<1> USE DEF QuietInv, QuietView, QuietFetch, QuietAnswer
<1>1. CASE Receive(r)
  <2>1. CASE field[r] = "taints" /\ Goto(r, "read") /\ UNCHANGED <<answer, shown>>
    BY <1>1, <2>1 DEF Receive, Goto, TypeOK
  <2>2. CASE field[r] # "taints" /\ Goto(r, "patch") /\ UNCHANGED <<answer, shown>>
    BY <1>1, <2>2 DEF Receive, Goto, TypeOK
  <2>3. CASE Named(r) = {} /\ Show(r, Nothing)
    BY <1>1, <2>3 DEF Receive, Show, Respond, Goto, TypeOK, Named
  <2> QED
    BY <1>1, <2>1, <2>2, <2>3 DEF Receive
<1>2. CASE ReadTaints(r)
  <2>1. CASE Named(r) = {} /\ Show(r, meta["taints"])
    BY <1>2, <2>1 DEF ReadTaints, Show, Respond, Goto, TypeOK, Named
  <2>2. CASE Goto(r, "patch") /\ UNCHANGED <<answer, shown>>
    BY <1>2, <2>2 DEF ReadTaints, Goto, TypeOK, node
  <2> QED
    BY <1>2, <2>1, <2>2 DEF ReadTaints
<1>3. CASE Patch(r)
  <2>1. \A k \in Named(r) : meta'[field[r]][k] = Wanted(r, k)
    <3>1. meta'[field[r]] = Patched(r)
      BY <1>3 DEF Patch, Apply, TypeOK
    <3>2. Named(r) \subseteq Keys
      BY MetadataAssumption DEF TypeOK, Named
    <3> QED
      BY <3>1, <3>2, PatchedIsWanted
  <2>2. pc'[r] = "fetch" /\ UNCHANGED <<field, body, answer, shown>>
    BY <1>3 DEF Patch, Goto, TypeOK
  <2>3. answer[r] # "ok"
    BY <1>3 DEF Patch
  <2> QED
    BY <2>1, <2>2, <2>3 DEF Named, Wanted
<1>4. CASE Fetch(r)
  BY <1>4 DEF Fetch, Fetched, Show, Respond, Goto, TypeOK, Named, Wanted
<1>5. CASE NotFound(r)
  BY <1>5 DEF NotFound, Respond, Goto, TypeOK
<1>6. CASE CallFails(r)
  BY <1>6 DEF CallFails, Respond, Goto, TypeOK
<1> QED
  BY <1>1, <1>2, <1>3, <1>4, <1>5, <1>6 DEF RequestStep

\* Every step keeps every part.
LEMMA NextQuiet ==
  ASSUME TypeOK, \A r \in Requests : QuietInv(r), [Next]_vars
  PROVE  \A r \in Requests : QuietInv(r)'
<1> TAKE r \in Requests
<1>1. ASSUME NEW s \in Requests, RequestStep(s) PROVE QuietInv(r)'
  <2>1. CASE s = r
    BY <1>1, <2>1, OwnStepQuiet
  <2>2. CASE s # r
    <3>1. /\ pc'[r] = pc[r] /\ view'[r] = view[r] /\ answer'[r] = answer[r] /\ shown'[r] = shown[r]
          /\ UNCHANGED <<field, body>>
      BY <1>1, <2>2 DEF RequestStep, Receive, ReadTaints, Patch, Fetch, NotFound, CallFails,
           Show, Respond, Goto, TypeOK
    <3>2. Told(r)
      BY <1>1, <2>2, PatchTells
         DEF RequestStep, Receive, ReadTaints, Patch, Fetch, NotFound, CallFails, Told, node, TypeOK
    <3> QED
      BY <3>1, <3>2, OthersKeepQuiet
  <2> QED
    BY <2>1, <2>2
<1>2. ASSUME NEW f \in Fields, NEW k \in Keys, NEW v \in Values \cup {Absent}, WriteKey(f, k, v)
      PROVE  QuietInv(r)'
  <2>1. meddled'[r] = (meddled[r] \/ (field[r] = f /\ pc[r] # "done"))
    BY <1>2, MetadataAssumption DEF WriteKey, Meddle
  <2>2. field[r] # f => meta'[field[r]] = meta[field[r]]
    BY <1>2 DEF WriteKey, TypeOK
  <2>3. Told(r)
    BY <2>1, <2>2 DEF Told, TypeOK
  <2> QED
    BY <1>2, <2>3, OthersKeepQuiet DEF WriteKey, ClusterWrites
<1>3. CASE Replace
  <2>1. Told(r)
    BY <1>3 DEF Replace, Told, TypeOK
  <2> QED
    BY <1>3, <2>1, OthersKeepQuiet DEF Replace, ClusterWrites
<1>4. CASE UNCHANGED vars
  <2>1. Told(r)
    BY <1>4 DEF Told, vars, node
  <2> QED
    BY <1>4, <2>1, OthersKeepQuiet DEF vars, node
<1> QED
  BY <1>1, <1>2, <1>3, <1>4 DEF Next

\* A 200 shows what was asked for unless somebody else wrote to the field
\* between the patch and the read that follows it (AnswerShowsTheWrite).
THEOREM AnswersShowTheWrite == Spec => []AnswerShowsTheWrite
<1> DEFINE Quiet == \A r \in Requests : QuietInv(r)
<1>1. Init => TypeOK /\ Quiet
  BY InitTypeOK, InitQuiet
<1>2. (TypeOK /\ Quiet) /\ [Next]_vars => (TypeOK /\ Quiet)'
  BY NextTypeOK, NextQuiet
<1>3. Quiet => AnswerShowsTheWrite
  BY DEF QuietInv, QuietAnswer, AnswerShowsTheWrite
<1> QED
  BY <1>1, <1>2, <1>3, PTL DEF Spec

\* What a single step may do to the taints under the invariant.
LEMMA QuietPatch ==
  ASSUME TypeOK, \A r \in Requests : QuietInv(r), [Next]_vars,
         NEW r \in Requests, field[r] = "taints", ~meddled[r], pc[r] = "patch", pc'[r] # "patch",
         NEW k \in Keys, meta'["taints"][k] # meta["taints"][k]
  PROVE  k \in Named(r) /\ meta'["taints"][k] = Wanted(r, k)
<1>1. RequestStep(r)
  <2>1. ASSUME NEW s \in Requests, RequestStep(s), s # r PROVE FALSE
    BY <2>1 DEF RequestStep, Receive, ReadTaints, Patch, Fetch, NotFound, CallFails,
         Show, Respond, Goto, TypeOK
  <2>2. ~(\E f \in Fields, j \in Keys, v \in Values \cup {Absent} : WriteKey(f, j, v))
    BY DEF WriteKey, ClusterWrites
  <2>3. ~Replace /\ ~UNCHANGED vars
    BY DEF Replace, ClusterWrites, vars
  <2> QED
    BY <2>1, <2>2, <2>3 DEF Next
<1>2. Apply(r)
  BY <1>1 DEF RequestStep, Receive, ReadTaints, Patch, Fetch, NotFound, CallFails, node
<1>3. meta'["taints"][k] = Patched(r)[k]
  BY <1>2 DEF Apply, TypeOK
<1>4. view[r] = meta["taints"]
  BY DEF QuietInv, QuietView
<1> QED
  BY <1>3, <1>4, PatchedIsWanted

\* A taint request that nobody meddled with leaves the taints it does not name
\* alone (QuietTaintsKeepTheRest).
THEOREM QuietTaintRequestsKeepTheRest == Spec => QuietTaintsKeepTheRest
<1> DEFINE Quiet == \A r \in Requests : QuietInv(r)
<1>1. Init => TypeOK /\ Quiet
  BY InitTypeOK, InitQuiet
<1>2. (TypeOK /\ Quiet) /\ [Next]_vars => (TypeOK /\ Quiet)'
  BY NextTypeOK, NextQuiet
<1>3. (TypeOK /\ Quiet) /\ [Next]_vars =>
        [\A r \in Requests :
           (field[r] = "taints" /\ ~meddled[r] /\ pc[r] = "patch" /\ pc'[r] # "patch") =>
             \A k \in Keys :
               meta'["taints"][k] # meta["taints"][k] => k \in Named(r) /\ meta'["taints"][k] = Wanted(r, k)]_vars
  BY QuietPatch
<1> QED
  BY <1>1, <1>2, <1>3, PTL DEF Spec, QuietTaintsKeepTheRest
=============================================================================
