--------------------------- MODULE ServiceProofs ----------------------------
(***************************************************************************)
(* Proofs about Service, for any number of requests, with any headers, any  *)
(* clusters and any number of worker threads.                               *)
(***************************************************************************)
EXTENDS Service, TLAPS

\* The id a request is given is an id, and not shared unless clients ask for it.
LEMMA RequestIdIsId ==
  ASSUME NEW r \in Requests
  PROVE  /\ RequestId(r) \in Ids /\ RequestId(r) # NoId
         /\ Header[r] \in Named => RequestId(r) = Header[r]
         /\ \A q \in Requests \ {r} :
              RequestId(q) = RequestId(r) => Header[r] \in Named /\ Header[q] = Header[r]
<1>1. \A q \in Requests : Header[q] \in Named \/ Header[q] \in {NoHeader, Blank}
  BY DEF Named
<1>2. \A q \in Requests : /\ Header[q] \in Named => RequestId(q) = Header[q]
                          /\ Header[q] \notin Named => RequestId(q) = q
  BY <1>1 DEF RequestId, Named
<1> QED
  BY <1>1, <1>2, ServiceAssumption DEF Ids

-----------------------------------------------------------------------------
(* Type correctness                                                         *)

\* The initial states have their types.
LEMMA InitTypeOK == Init => TypeOK
  BY DEF Init, TypeOK, Steps, Outcomes, NoAnswer

\* Ending a handler keeps the types.
LEMMA EndTypeOK ==
  ASSUME TypeOK, NEW r \in Requests, NEW how \in Outcomes, End(r, how)
  PROVE  TypeOK'
  BY DEF TypeOK, End, Goto, Steps

\* Every step keeps them.
LEMMA NextTypeOK == TypeOK /\ [Next]_vars => TypeOK'
<1> SUFFICES ASSUME TypeOK, [Next]_vars PROVE TypeOK'
  OBVIOUS
<1>1. ASSUME NEW r \in Requests, Arrive(r) PROVE TypeOK'
  BY <1>1 DEF Arrive, Goto, TypeOK, Steps
<1>2. ASSUME NEW r \in Requests, Dispatch(r) PROVE TypeOK'
  <2>1. RequestId(r) \in Ids
    BY RequestIdIsId
  <2>2. since' \in [Requests -> SUBSET Ids]
    BY <1>2, <2>1 DEF Dispatch, Note, TypeOK
  <2> QED
    BY <1>2, <2>1, <2>2 DEF Dispatch, Goto, TypeOK, Steps
<1>3. ASSUME NEW r \in Requests, CheckManager(r) \/ StoreManager(r) PROVE TypeOK'
  BY <1>3 DEF CheckManager, StoreManager, Goto, TypeOK, Steps
<1>4. ASSUME NEW r \in Requests, Handle(r) \/ TakeWorker(r) PROVE TypeOK'
  BY <1>4 DEF Handle, TakeWorker, Goto, TypeOK, Steps
<1>5. ASSUME NEW r \in Requests,
             HandleHealth(r) \/ Refuse(r) \/ ClusterAnswers(r) \/ UpstreamAnswers(r)
      PROVE  TypeOK'
  <2>1. \E how \in Outcomes : End(r, how)
    BY <1>5 DEF HandleHealth, Refuse, ClusterAnswers, UpstreamAnswers, Endings, Outcomes
  <2> QED
    BY <2>1, EndTypeOK
<1>6. ASSUME NEW r \in Requests, Leave(r) PROVE TypeOK'
  <2>1. Envelope(r) \in [id : Ids \cup {NoId}, echo : Ids \cup {NoId}, crashed : BOOLEAN]
    BY DEF Envelope, Echo, TypeOK
  <2> QED
    BY <1>6, <2>1 DEF Leave, Goto, TypeOK, Steps, Outcomes
<1>7. CASE UNCHANGED vars
  BY <1>7 DEF vars, TypeOK
<1> QED
  BY <1>1, <1>2, <1>3, <1>4, <1>5, <1>6, <1>7 DEF Next, Serve

\* Requests and what they share keep their types.
THEOREM ServiceTypeCorrect == Spec => []TypeOK
<1>1. Init => TypeOK
  BY InitTypeOK
<1>2. TypeOK /\ [Next]_vars => TypeOK'
  BY NextTypeOK
<1> QED
  BY <1>1, <1>2, PTL DEF Spec

-----------------------------------------------------------------------------
(* Ids                                                                      *)

\* A request keeps the id it was dispatched with, and its answer, if any, is
\* made of it.
IdOf(r) == pc[r] \notin {"new", "arrived"} => id[r] = RequestId(r)
AnswerOf(r) ==
  /\ pc[r] # "done" => answer[r] = NoAnswer
  /\ pc[r] = "done" =>
       /\ answer[r].id \in {NoId, RequestId(r)}
       /\ answer[r].echo = IF Header[r] = NoHeader \/ answer[r].crashed
                             THEN NoId ELSE RequestId(r)

\* The inductive invariant.
IdInv == (\A r \in Requests : IdOf(r) /\ AnswerOf(r)) /\ LinesShowOwnOrLater

\* The inductive invariant holds at the start.
LEMMA InitIdInv == Init => IdInv
  BY DEF Init, IdInv, IdOf, AnswerOf, LinesShowOwnOrLater

\* A step that moves one request between two steps of its service, and gives no
\* id and no answer, keeps the invariant.
LEMMA MoveKeepsIdInv ==
  ASSUME TypeOK, IdInv, NEW r \in Requests, NEW step, Goto(r, step),
         pc[r] \notin {"new", "arrived", "done"} \/ step = "arrived",
         step # "done", pc[r] # "done",
         UNCHANGED <<id, current, answer, since>>
  PROVE  IdInv'
<1>1. \A q \in Requests : pc'[q] = IF q = r THEN step ELSE pc[q]
  BY DEF Goto, TypeOK
<1>2. \A q \in Requests : IdOf(q)' /\ AnswerOf(q)'
  BY <1>1 DEF IdInv, IdOf, AnswerOf, RequestId
<1>3. LinesShowOwnOrLater'
  BY DEF IdInv, LinesShowOwnOrLater
<1> QED
  BY <1>2, <1>3 DEF IdInv

\* Every step keeps it.
LEMMA NextIdInv == TypeOK /\ IdInv /\ [Next]_vars => IdInv'
<1> SUFFICES ASSUME TypeOK, IdInv, [Next]_vars PROVE IdInv'
  OBVIOUS
<1>1. ASSUME NEW r \in Requests, Arrive(r) PROVE IdInv'
  BY <1>1, MoveKeepsIdInv DEF Arrive
<1>2. ASSUME NEW r \in Requests, Dispatch(r) PROVE IdInv'
  <2>1. \A q \in Requests : /\ id'[q] = IF q = r THEN RequestId(r) ELSE id[q]
                            /\ pc'[q] # pc[q] => q = r
                            /\ answer'[q] = answer[q]
    BY <1>2 DEF Dispatch, Goto, TypeOK
  <2>2. pc[r] = "arrived" /\ pc'[r] \in {"check", "handler"}
    BY <1>2 DEF Dispatch, Goto, TypeOK
  <2>3. \A q \in Requests : IdOf(q)' /\ AnswerOf(q)'
    BY <2>1, <2>2 DEF IdInv, IdOf, AnswerOf, RequestId
  <2>4. \A q \in Requests : since'[q] # {} => RequestId(r) \in since'[q]
    BY <1>2 DEF Dispatch, Note
  <2>5. LinesShowOwnOrLater'
    BY <1>2, <2>4 DEF Dispatch, LinesShowOwnOrLater
  <2> QED
    BY <2>3, <2>5 DEF IdInv
<1>3. ASSUME NEW r \in Requests, CheckManager(r) \/ StoreManager(r) \/ Handle(r) \/ TakeWorker(r)
      PROVE  IdInv'
  <2>1. \E step \in Steps \ {"done"} : Goto(r, step)
    BY <1>3 DEF CheckManager, StoreManager, Handle, TakeWorker, Steps
  <2>2. pc[r] \notin {"new", "arrived", "done"} /\ UNCHANGED <<id, current, answer, since>>
    BY <1>3 DEF CheckManager, StoreManager, Handle, TakeWorker
  <2> QED
    BY <2>1, <2>2, MoveKeepsIdInv
<1>4. ASSUME NEW r \in Requests,
             HandleHealth(r) \/ Refuse(r) \/ ClusterAnswers(r) \/ UpstreamAnswers(r)
      PROVE  IdInv'
  <2>1. Goto(r, "leaving") /\ UNCHANGED <<id, current, answer, since>>
    BY <1>4 DEF HandleHealth, Refuse, ClusterAnswers, UpstreamAnswers, End
  <2>2. pc[r] \notin {"new", "arrived", "done"}
    BY <1>4 DEF HandleHealth, Refuse, ClusterAnswers, UpstreamAnswers
  <2> QED
    BY <2>1, <2>2, MoveKeepsIdInv
<1>5. ASSUME NEW r \in Requests, Leave(r) PROVE IdInv'
  <2>1. \A q \in Requests : /\ pc'[q] = IF q = r THEN "done" ELSE pc[q]
                            /\ answer'[q] = IF q = r THEN Envelope(r) ELSE answer[q]
                            /\ id'[q] = id[q]
    BY <1>5 DEF Leave, Goto, TypeOK
  <2>2. pc[r] = "leaving" /\ id[r] = RequestId(r)
    BY <1>5 DEF Leave, IdInv, IdOf
  <2>3. /\ Envelope(r).id \in {NoId, RequestId(r)}
        /\ Envelope(r).echo = IF Header[r] = NoHeader \/ Envelope(r).crashed
                                THEN NoId ELSE RequestId(r)
    BY <2>2 DEF Envelope, Echo
  <2>4. \A q \in Requests : IdOf(q)' /\ AnswerOf(q)'
    BY <2>1, <2>2, <2>3 DEF IdInv, IdOf, AnswerOf, RequestId
  <2>5. LinesShowOwnOrLater'
    BY <1>5 DEF Leave, IdInv, LinesShowOwnOrLater, TypeOK
  <2> QED
    BY <2>4, <2>5 DEF IdInv
<1>6. CASE UNCHANGED vars
  BY <1>6 DEF vars, IdInv, IdOf, AnswerOf, RequestId, LinesShowOwnOrLater
<1> QED
  BY <1>1, <1>2, <1>3, <1>4, <1>5, <1>6 DEF Next, Serve

\* The inductive invariant holds in every state of every behaviour.
LEMMA IdInvariant == Spec => []IdInv
<1>1. Init => TypeOK /\ IdInv
  BY InitTypeOK, InitIdInv
<1>2. TypeOK /\ IdInv /\ [Next]_vars => TypeOK' /\ IdInv'
  BY NextTypeOK, NextIdInv
<1> QED
  BY <1>1, <1>2, PTL DEF Spec

\* Every answer carries the id of its own request, however requests interleave.
THEOREM AnswersAreAttributed == Spec => []AnswersCarryOwnId
<1>1. IdInv => AnswersCarryOwnId
  <2> SUFFICES ASSUME IdInv, NEW r \in Requests, pc[r] = "done"
               PROVE  /\ answer[r].id # NoId =>
                           /\ Header[r] \in Named => answer[r].id = Header[r]
                           /\ \A q \in Requests \ {r} : answer[q].id = answer[r].id =>
                                Header[r] \in Named /\ Header[q] = Header[r]
                           /\ answer[r].echo \in {NoId, answer[r].id}
                      /\ answer[r].echo # NoId <=> Header[r] # NoHeader /\ ~answer[r].crashed
    BY DEF AnswersCarryOwnId
  <2>1. \A q \in Requests : answer[q].id \in {NoId, RequestId(q)}
    BY DEF IdInv, AnswerOf, NoAnswer
  <2>2. answer[r].echo = IF Header[r] = NoHeader \/ answer[r].crashed THEN NoId ELSE RequestId(r)
    BY DEF IdInv, AnswerOf
  <2> QED
    BY <2>1, <2>2, RequestIdIsId
<1> QED
  BY <1>1, IdInvariant, PTL

\* No line of a request ever shows the id of an earlier one.
THEOREM LinesAreNeverStale == Spec => []LinesShowOwnOrLater
<1>1. IdInv => LinesShowOwnOrLater
  BY DEF IdInv
<1> QED
  BY <1>1, IdInvariant, PTL

-----------------------------------------------------------------------------
(* The token manager                                                        *)

\* Once it is settled the manager of the process stays.
THEOREM TheManagerSettles == Spec => ManagerSettles
<1>1. TypeOK /\ [Next]_vars => (Settled => Settled' /\ manager' = manager)
  <2> SUFFICES ASSUME TypeOK, [Next]_vars, Settled PROVE Settled' /\ manager' = manager
    OBVIOUS
  <2> USE DEF Settled
  <2>1. ASSUME NEW r \in Requests, NEW step, Goto(r, step), step # "build", manager' = manager
        PROVE  Settled' /\ manager' = manager
    BY <2>1 DEF Goto, TypeOK
  <2>2. ASSUME NEW r \in Requests, Arrive(r) \/ Dispatch(r) \/ CheckManager(r)
        PROVE  Settled' /\ manager' = manager
    BY <2>1, <2>2 DEF Arrive, Dispatch, CheckManager
  <2>3. ASSUME NEW r \in Requests, StoreManager(r) PROVE FALSE
    BY <2>3 DEF StoreManager
  <2>4. ASSUME NEW r \in Requests, Handle(r) \/ TakeWorker(r) \/ Leave(r)
        PROVE  Settled' /\ manager' = manager
    BY <2>1, <2>4 DEF Handle, TakeWorker, Leave
  <2>5. ASSUME NEW r \in Requests,
               HandleHealth(r) \/ Refuse(r) \/ ClusterAnswers(r) \/ UpstreamAnswers(r)
        PROVE  Settled' /\ manager' = manager
    BY <2>1, <2>5 DEF HandleHealth, Refuse, ClusterAnswers, UpstreamAnswers, End
  <2>6. CASE UNCHANGED vars
    BY <2>6 DEF vars
  <2> QED
    BY <2>2, <2>3, <2>4, <2>5, <2>6 DEF Next, Serve
<1>2. TypeOK /\ [Next]_vars => [Settled => Settled' /\ manager' = manager]_vars
  BY <1>1
<1> QED
  BY <1>2, ServiceTypeCorrect, PTL DEF Spec, ManagerSettles
=============================================================================
