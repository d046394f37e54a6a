--------------------------- MODULE CordoningProofs --------------------------
(***************************************************************************)
(* Cordoning, proved for any number of requests and nodes and for bodies of *)
(* any length: what the names of a batch are, the invariants, and what the  *)
(* readiness gate is worth.                                                 *)
(***************************************************************************)
EXTENDS Cordoning, NatRecursion

-----------------------------------------------------------------------------
(* The names of a batch                                                     *)

RawNames == Seq([name : Nodes \cup {Blank}, padded : BOOLEAN])

\* What one turn of the loop over the raw names keeps.
Keep(raw, i, sofar) ==
  IF raw[i].name = Blank \/ Contains(sofar, raw[i].name) THEN sofar
  ELSE Append(sofar, raw[i].name)

LEMMA KeepTyped ==
  ASSUME NEW raw \in RawNames, NEW i \in 1..Len(raw), NEW s \in Seq(Nodes)
  PROVE  Keep(raw, i, s) \in Seq(Nodes)
<1>1. raw[i].name \in Nodes \cup {Blank}
  <2> DEFINE Entries == [name : Nodes \cup {Blank}, padded : BOOLEAN]
  <2>1. raw \in Seq(Entries)
    BY DEF RawNames
  <2>2. raw[i] \in Entries
    <3> HIDE DEF Entries
    <3> QED
      BY <2>1
  <2> QED
    BY <2>2
<1>2. CASE raw[i].name = Blank \/ Contains(s, raw[i].name)
  BY <1>2 DEF Keep
<1>3. CASE ~ (raw[i].name = Blank \/ Contains(s, raw[i].name))
  <2>1. raw[i].name \in Nodes
    BY <1>1, <1>3
  <2>2. Append(s, raw[i].name) \in Seq(Nodes)
    BY <2>1
  <2> QED
    BY <1>3, <2>2 DEF Keep
<1> QED
  BY <1>2, <1>3

\* The names are what a loop over the raw names has kept in the end.
LEMMA NamesLoop ==
  ASSUME NEW raw \in RawNames
  PROVE  \E f : /\ f[0] = <<>>
                /\ \A i \in 1..Len(raw) : f[i - 1] \in Seq(Nodes) /\ f[i] = Keep(raw, i, f[i - 1])
                /\ Names(raw) = f[Len(raw)]
<1> DEFINE n == Len(raw)
           Kept == Seq(Nodes)
           Follows(f) == f = [i \in 0..n |->
             IF i = 0 THEN <<>>
             ELSE IF raw[i].name = Blank \/ Contains(f[i - 1], raw[i].name) THEN f[i - 1]
             ELSE Append(f[i - 1], raw[i].name)]
           Chosen == CHOOSE f : Follows(f)
           turn == [p \in Nat \X Kept |-> IF p[1] \in 1..n THEN Keep(raw, p[1], p[2]) ELSE p[2]]
<1>1. n \in Nat
  BY DEF RawNames
<1>2. <<>> \in Kept
  OBVIOUS
<1>3. \A i \in 1..n, s \in Kept : Keep(raw, i, s) \in Kept
  BY KeepTyped
<1>4. Names(raw) = Chosen[n]
  BY Zenon DEF Names
<1>5. \A f : Follows(f) <=> f = [i \in 0..n |-> IF i = 0 THEN <<>> ELSE Keep(raw, i, f[i - 1])]
  BY Zenon DEF Keep
<1> HIDE DEF n, Kept, Follows
<1>6. turn \in [Nat \X Kept -> Kept]
  BY <1>3
<1>7. \E f : Follows(f)
  <2>1. PICK f \in [0..n -> Kept] : FollowsStep(f, <<>>, turn, n)
    <3> HIDE DEF turn
    <3> QED
      BY <1>1, <1>2, <1>6, RecursionOnNat
  <2>2. f = [i \in 0..n |-> IF i = 0 THEN <<>> ELSE turn[<<i, f[i - 1]>>]]
    BY <2>1 DEF FollowsStep
  <2>3. \A i \in 0..n : i # 0 => turn[<<i, f[i - 1]>>] = Keep(raw, i, f[i - 1])
    BY <1>1, <2>1
  <2>4. f = [i \in 0..n |-> IF i = 0 THEN <<>> ELSE Keep(raw, i, f[i - 1])]
    <3> HIDE DEF turn
    <3> QED
      BY <2>2, <2>3
  <2> QED
    BY <1>5, <2>4
<1>8. Follows(Chosen)
  BY <1>7, Zenon
<1> HIDE DEF Chosen
<1>9. Chosen = [i \in 0..n |-> IF i = 0 THEN <<>> ELSE Keep(raw, i, Chosen[i - 1])]
  BY <1>5, <1>8, Zenon
<1>10. Chosen[0] = <<>> /\ \A i \in 1..n : Chosen[i] = Keep(raw, i, Chosen[i - 1])
  BY <1>1, <1>9
<1>11. \A i \in 1..n : Chosen[i - 1] \in Kept
  <2> DEFINE T == {i \in 0..n : Chosen[i] \in Kept}
  <2>1. 0 \in T
    BY <1>1, <1>2, <1>10
  <2>2. \A i \in 1..n : i - 1 \in T => i \in T
    BY <1>3, <1>10
  <2>3. 0..n \subseteq T
    <3> HIDE DEF T
    <3> QED
      BY <1>1, <2>1, <2>2, InductionUpTo
  <2> QED
    BY <1>1, <2>3
<1> QED
  BY <1>4, <1>10, <1>11 DEF n, Kept

\* s names each node that the first i raw names give, once.
Gathers(raw, i, s) ==
  /\ s \in Seq(Nodes)
  /\ \A j, k \in 1..Len(s) : s[j] = s[k] => j = k
  /\ \A j \in 1..Len(s) : \E k \in 1..i : raw[k].name = s[j]
  /\ \A k \in 1..i : raw[k].name # Blank => \E j \in 1..Len(s) : s[j] = raw[k].name

LEMMA KeepGathers ==
  ASSUME NEW raw \in RawNames, NEW i \in 1..Len(raw), NEW s, Gathers(raw, i - 1, s)
  PROVE  Gathers(raw, i, Keep(raw, i, s))
<1> DEFINE x == raw[i].name
<1>1. /\ s \in Seq(Nodes)
      /\ \A j, k \in 1..Len(s) : s[j] = s[k] => j = k
      /\ \A j \in 1..Len(s) : \E k \in 1..(i - 1) : raw[k].name = s[j]
      /\ \A k \in 1..(i - 1) : raw[k].name # Blank => \E j \in 1..Len(s) : s[j] = raw[k].name
  BY DEF Gathers
<1>2. i \in Nat /\ i \in 1..i /\ 1..(i - 1) \subseteq 1..i /\ \A k \in 1..i : k # i => k \in 1..(i - 1)
  BY DEF RawNames
<1>3. Keep(raw, i, s) \in Seq(Nodes)
  BY <1>1, KeepTyped
<1>4. CASE x = Blank \/ \E j \in 1..Len(s) : s[j] = x
  <2>1. Keep(raw, i, s) = s
    BY <1>4 DEF Keep, Contains
  <2>2. \A j \in 1..Len(s) : \E k \in 1..i : raw[k].name = s[j]
    BY <1>1, <1>2
  <2>3. \A k \in 1..i : raw[k].name # Blank => \E j \in 1..Len(s) : s[j] = raw[k].name
    BY <1>1, <1>2, <1>4
  <2> QED
    BY <1>1, <2>1, <2>2, <2>3 DEF Gathers
<1>5. CASE x # Blank /\ \A j \in 1..Len(s) : s[j] # x
  <2> DEFINE t == Append(s, x)
  <2>1. Keep(raw, i, s) = t
    BY <1>5 DEF Keep, Contains
  <2>2. /\ t \in Seq(Nodes) /\ Len(t) = Len(s) + 1 /\ Len(s) \in Nat
        /\ t[Len(s) + 1] = x /\ \A j \in 1..Len(s) : t[j] = s[j]
    BY <1>1, <1>3, <2>1
  <2>3. \A j \in 1..Len(t) : j \in 1..Len(s) \/ j = Len(s) + 1
    BY <2>2
  <2>4. \A j \in 1..Len(s) : j \in 1..Len(t)
    BY <2>2
  <2>5. Len(s) + 1 \in 1..Len(t)
    BY <2>2
  <2> HIDE DEF t, x
  <2>6. ASSUME NEW j \in 1..Len(t), NEW k \in 1..Len(t), t[j] = t[k]
        PROVE  j = k
    <3>1. CASE j \in 1..Len(s) /\ k \in 1..Len(s)
      BY <1>1, <2>2, <2>6, <3>1
    <3>2. CASE j \in 1..Len(s) /\ k = Len(s) + 1
      BY <1>5, <2>2, <2>6, <3>2
    <3>3. CASE j = Len(s) + 1 /\ k \in 1..Len(s)
      BY <1>5, <2>2, <2>6, <3>3
    <3>4. CASE j = Len(s) + 1 /\ k = Len(s) + 1
      BY <3>4
    <3> QED
      BY <2>3, <3>1, <3>2, <3>3, <3>4
  <2>7. \A j \in 1..Len(t) : \E k \in 1..i : raw[k].name = t[j]
    <3>1. \A j \in 1..Len(s) : \E k \in 1..i : raw[k].name = s[j]
      BY <1>1, <1>2
    <3> QED
      BY <1>2, <2>2, <2>3, <3>1 DEF x
  <2>8. \A k \in 1..i : raw[k].name # Blank => \E j \in 1..Len(t) : t[j] = raw[k].name
    <3>1. \A k \in 1..(i - 1) : raw[k].name # Blank => \E j \in 1..Len(t) : t[j] = raw[k].name
      BY <1>1, <2>2, <2>4
    <3> QED
      BY <1>2, <2>2, <2>5, <3>1 DEF x
  <2> QED
    BY <2>1, <2>2, <2>6, <2>7, <2>8 DEF Gathers
<1> QED
  BY <1>4, <1>5

\* Names gives each node the body names, however padded or repeated, once.
THEOREM NamesGather ==
  ASSUME NEW raw \in RawNames
  PROVE  Gathers(raw, Len(raw), Names(raw))
<1>1. PICK f : /\ f[0] = <<>>
               /\ \A i \in 1..Len(raw) : f[i - 1] \in Seq(Nodes) /\ f[i] = Keep(raw, i, f[i - 1])
               /\ Names(raw) = f[Len(raw)]
  BY NamesLoop
<1> DEFINE T == {i \in 0..Len(raw) : Gathers(raw, i, f[i])}
<1>2. Len(raw) \in Nat
  BY DEF RawNames
<1>3. Gathers(raw, 0, <<>>)
  BY DEF Gathers
<1>4. 0 \in T
  BY <1>1, <1>2, <1>3
<1>5. ASSUME NEW i \in 1..Len(raw), i - 1 \in T
      PROVE  i \in T
  <2>1. Gathers(raw, i - 1, f[i - 1])
    BY <1>5
  <2>2. Gathers(raw, i, f[i])
    BY <1>1, <2>1, KeepGathers
  <2> QED
    BY <1>2, <2>2
<1>6. 0..Len(raw) \subseteq T
  <2> HIDE DEF T
  <2> QED
    BY <1>2, <1>4, <1>5, InductionUpTo
<1> QED
  BY <1>1, <1>2, <1>6

-----------------------------------------------------------------------------
(* The inductive invariant                                                  *)

\* A list of names, cut: some are reported on, the rest still to be acted on.
Cut(reported, rest, names) ==
  /\ Len(reported) + Len(rest) = Len(names)
  /\ \A i \in 1..Len(reported) : reported[i].node = names[i]
  /\ \A j \in 1..Len(rest) : rest[j] = names[Len(reported) + j]

\* Results and queue are the names of the body, cut where the loop is.
Progress(r) == pc[r] # "idle" => Cut(results[r], queue[r], Names(body[r]))

\* Nothing is done before the loop, nothing is recorded of a single node, and
\* a batch answers 200 when its loop is over.
Control(r) ==
  /\ pc[r] \in {"idle", "read"} => results[r] = <<>> /\ patched[r] = {}
  /\ ~IsBatch(r) => results[r] = <<>>
  /\ pc[r] # "done" => answer[r] = "none"
  /\ (IsBatch(r) /\ answer[r] = "done") => queue[r] = <<>>

\* The loop has recorded what it has patched.
Recorded(r) == pc[r] = "patch" =>
  \A n \in patched[r] : \E i \in 1..Len(results[r]) : results[r][i].node = n

Truthful(r) == \A i \in 1..Len(results[r]) :
  /\ results[r][i].outcome = "success" => results[r][i].node \in patched[r]
  /\ results[r][i].outcome \in {"NODE_NOT_FOUND", "NODE_NOT_READY"} => results[r][i].node \notin patched[r]

Unaborted(r) == IsBatch(r) =>
  /\ answer[r] \in {"none", "done", "cluster_error", "KUBE_ERROR"}
  /\ answer[r] = "KUBE_ERROR" => patched[r] = {} /\ results[r] = <<>>

Own(r) == Progress(r) /\ Control(r) /\ Recorded(r) /\ Truthful(r) /\ Unaborted(r)

\* While no node changes, what an uncordon goes by is what the nodes are.
Judged(r) == (pc[r] = "patch" /\ Uncordons(r) /\ quiet[r] /\ queue[r] # <<>>) =>
  IF IsBatch(r) THEN \A n \in Nodes : statuses[r][n] = Judgement(n)
  ELSE statuses[r][Head(queue[r])] = Judgement(Head(queue[r]))

\* While no node changes, the flag of a patched node is what one of those that
\* patched it has asked for.
Written(r) == quiet[r] => \A n \in patched[r] :
  \E s \in Requests : n \in patched[s] /\ unschedulable[n] = ~Uncordons(s)

IInv == TypeOK /\ \A r \in Requests : Own(r) /\ Judged(r) /\ Written(r)

-----------------------------------------------------------------------------
(* Types                                                                    *)

Results == [node : Nodes, outcome : Outcomes]

LEMMA BodyNames ==
  ASSUME TypeOK, NEW r \in Requests
  PROVE  /\ Names(body[r]) \in Seq(Nodes)
         /\ Gathers(body[r], Len(body[r]), Names(body[r]))
<1>1. body[r] \in RawNames
  BY CordoningAssumption DEF TypeOK, RawNames
<1> QED
  BY <1>1, NamesGather DEF Gathers

LEMMA HeadAndTail ==
  ASSUME NEW q \in Seq(Nodes), q # <<>>
  PROVE  /\ Len(q) \in Nat \ {0}
         /\ Head(q) \in Nodes /\ Head(q) = q[1]
         /\ Tail(q) \in Seq(Nodes) /\ Len(Tail(q)) = Len(q) - 1
         /\ \A i \in 1..(Len(q) - 1) : Tail(q)[i] = q[i + 1]
OBVIOUS

LEMMA HeadTyped ==
  ASSUME TypeOK, NEW r \in Requests, queue[r] # <<>>
  PROVE  Head(queue[r]) \in Nodes
<1>1. queue[r] \in Seq(Nodes)
  BY DEF TypeOK
<1> QED
  BY <1>1, HeadAndTail

LEMMA SettleTyped ==
  ASSUME TypeOK, NEW r \in Requests, Acting(r), NEW o \in Outcomes, Settle(r, o)
  PROVE  /\ queue' \in [Requests -> Seq(Nodes)]
         /\ results' \in [Requests -> Seq(Results)]
         /\ pc' \in [Requests -> {"idle", "read", "patch", "done"}]
         /\ answer' \in [Requests -> Answers]
<1>1. /\ queue[r] \in Seq(Nodes) /\ results[r] \in Seq(Results) /\ Head(queue[r]) \in Nodes
      /\ Tail(queue[r]) \in Seq(Nodes)
  BY HeadAndTail DEF TypeOK, Acting, Results
<1>2. CASE IsBatch(r)
  <2> DEFINE entry == [node |-> Head(queue[r]), outcome |-> o]
  <2>1. entry \in Results
    BY <1>1 DEF Results
  <2>2. /\ results' = [results EXCEPT ![r] = Append(results[r], entry)]
        /\ queue' = [queue EXCEPT ![r] = Tail(queue[r])]
        /\ pc' = pc /\ answer' = answer
    BY <1>2 DEF Settle
  <2> HIDE DEF entry
  <2>3. Append(results[r], entry) \in Seq(Results)
    BY <1>1, <2>1
  <2> QED
    BY <1>1, <2>2, <2>3 DEF TypeOK, Results
<1>3. CASE ~IsBatch(r)
  BY <1>3 DEF Settle, Respond, Goto, TypeOK, Answers, Outcomes, Results
<1> QED
  BY <1>2, <1>3

LEMMA ApplyTyped ==
  ASSUME TypeOK, NEW r \in Requests, Acting(r), Apply(r) \/ UNCHANGED <<cluster, patched>>
  PROVE  /\ unschedulable' \in [Nodes -> BOOLEAN] /\ patched' \in [Requests -> SUBSET Nodes]
         /\ registered' = registered /\ condition' = condition /\ events' = events
<1>1. Head(queue[r]) \in Nodes
  BY HeadTyped DEF Acting
<1>2. CASE Apply(r)
  <2>1. (~Uncordons(r)) \in BOOLEAN
    BY DEF Uncordons
  <2> QED
    BY <1>1, <1>2, <2>1 DEF Apply, TypeOK
<1>3. CASE UNCHANGED <<cluster, patched>>
  BY <1>3 DEF cluster, TypeOK
<1> QED
  BY <1>2, <1>3

LEMMA JudgementTyped ==
  ASSUME TypeOK, NEW n \in Nodes
  PROVE  Judgement(n) \in {"Ready", "NotReady", "Unknown", "missing"}
BY DEF Judgement, NodeStatus

LEMMA ChangesTyped ==
  ASSUME TypeOK, ClusterChanges
  PROVE  /\ events' \in 0..MaxEvents /\ quiet' \in [Requests -> BOOLEAN]
         /\ op' = op /\ body' = body /\ queue' = queue /\ statuses' = statuses
         /\ results' = results /\ pc' = pc /\ answer' = answer /\ patched' = patched
<1>1. MaxEvents \in Nat
  BY CordoningAssumption
<1>2. events \in 0..MaxEvents
  BY DEF TypeOK
<1>3. events' \in 0..MaxEvents
  BY <1>1, <1>2 DEF ClusterChanges
<1> QED
  BY <1>3 DEF ClusterChanges, request

\* Every step keeps the types.
LEMMA NextTypeOK == TypeOK /\ [Next]_vars => TypeOK'
<1> SUFFICES ASSUME TypeOK, [Next]_vars PROVE TypeOK'
  OBVIOUS
<1>1. ASSUME NEW r \in Requests, Receive(r) PROVE TypeOK'
  <2>1. Names(body[r]) \in Seq(Nodes)
    BY BodyNames
  <2> QED
    BY <1>1, <2>1 DEF Receive, Goto, TypeOK, cluster
<1>2. ASSUME NEW r \in Requests, ReadNode(r) PROVE TypeOK'
  <2>1. statuses' \in [Requests -> [Nodes -> {"Ready", "NotReady", "Unknown", "missing"}]]
    <3> DEFINE n == Head(queue[r])
    <3>1. statuses' = [statuses EXCEPT ![r][n] = Judgement(n)]
      BY <1>2 DEF ReadNode
    <3>2. n \in Nodes => Judgement(n) \in {"Ready", "NotReady", "Unknown", "missing"}
      BY JudgementTyped
    <3> HIDE DEF n
    <3> QED
      BY <3>1, <3>2 DEF TypeOK
  <2>2. pc' \in [Requests -> {"idle", "read", "patch", "done"}] /\ answer' \in [Requests -> Answers]
    BY <1>2 DEF ReadNode, Respond, Goto, TypeOK, Answers, Outcomes
  <2> QED
    BY <1>2, <2>1, <2>2 DEF ReadNode, TypeOK, cluster
<1>3. ASSUME NEW r \in Requests, ListNodes(r) PROVE TypeOK'
  <2>1. [n \in Nodes |-> Judgement(n)] \in [Nodes -> {"Ready", "NotReady", "Unknown", "missing"}]
    BY JudgementTyped
  <2>2. statuses' \in [Requests -> [Nodes -> {"Ready", "NotReady", "Unknown", "missing"}]]
    BY <1>3, <2>1 DEF ListNodes, TypeOK
  <2> QED
    BY <1>3, <2>2 DEF ListNodes, Goto, TypeOK, cluster
<1>4. ASSUME NEW r \in Requests, ReadFails(r) PROVE TypeOK'
  BY <1>4 DEF ReadFails, Respond, Goto, TypeOK, cluster, request, Answers, Outcomes
<1>5. ASSUME NEW r \in Requests, RefuseNotReady(r) PROVE TypeOK'
  <2>1. Acting(r) /\ Settle(r, "NODE_NOT_READY") /\ "NODE_NOT_READY" \in Outcomes
    BY <1>5 DEF RefuseNotReady, Outcomes
  <2> QED
    BY <1>5, <2>1, SettleTyped DEF RefuseNotReady, TypeOK, cluster, Results
<1>6. ASSUME NEW r \in Requests, PatchNode(r) PROVE TypeOK'
  <2>1. Acting(r) /\ Settle(r, "success") /\ "success" \in Outcomes /\ Apply(r)
    BY <1>6 DEF PatchNode, Patches, Outcomes
  <2> QED
    BY <1>6, <2>1, SettleTyped, ApplyTyped DEF PatchNode, TypeOK, Results
<1>7. ASSUME NEW r \in Requests, PatchNotFound(r) PROVE TypeOK'
  <2>1. Acting(r) /\ Settle(r, "NODE_NOT_FOUND") /\ "NODE_NOT_FOUND" \in Outcomes
    BY <1>7 DEF PatchNotFound, Patches, Outcomes
  <2> QED
    BY <1>7, <2>1, SettleTyped DEF PatchNotFound, TypeOK, cluster, Results
<1>8. ASSUME NEW r \in Requests, PatchError(r) PROVE TypeOK'
  <2>1. Acting(r) /\ Settle(r, "KUBE_ERROR") /\ "KUBE_ERROR" \in Outcomes
        /\ (Apply(r) \/ UNCHANGED <<cluster, patched>>)
    BY <1>8 DEF PatchError, Patches, Outcomes
  <2> QED
    BY <1>8, <2>1, SettleTyped, ApplyTyped DEF PatchError, TypeOK, Results
<1>9. ASSUME NEW r \in Requests, ClusterError(r) PROVE TypeOK'
  <2>1. Acting(r) /\ (Apply(r) \/ UNCHANGED <<cluster, patched>>)
    BY <1>9 DEF ClusterError, Patches
  <2> QED
    BY <1>9, <2>1, ApplyTyped DEF ClusterError, Respond, Goto, TypeOK, request, Answers
<1>10. ASSUME NEW r \in Requests, Finish(r) PROVE TypeOK'
  BY <1>10 DEF Finish, Respond, Goto, TypeOK, cluster, request, Answers
<1>11. ASSUME NEW n \in Nodes, Join(n) PROVE TypeOK'
  <2>1. ClusterChanges
    BY <1>11 DEF Join
  <2> QED
    BY <1>11, <2>1, ChangesTyped DEF Join, TypeOK
<1>12. ASSUME NEW n \in Nodes, Leave(n) PROVE TypeOK'
  <2>1. ClusterChanges
    BY <1>12 DEF Leave
  <2> QED
    BY <1>12, <2>1, ChangesTyped DEF Leave, TypeOK, Conditions
<1>13. ASSUME NEW n \in Nodes, NEW c \in Conditions, Assess(n, c) PROVE TypeOK'
  <2>1. ClusterChanges
    BY <1>13 DEF Assess
  <2> QED
    BY <1>13, <2>1, ChangesTyped DEF Assess, TypeOK
<1>14. CASE UNCHANGED vars
  BY <1>14 DEF vars, TypeOK, cluster, request
<1> QED
  BY <1>1, <1>2, <1>3, <1>4, <1>5, <1>6, <1>7, <1>8, <1>9, <1>10, <1>11, <1>12, <1>13, <1>14
  DEF Next, RequestStep

-----------------------------------------------------------------------------
(* What a request keeps of its own                                          *)

\* A turn of the loop moves the cut on by one.
LEMMA CutMoves ==
  ASSUME NEW names \in Seq(Nodes), NEW done \in Seq(Results), NEW rest \in Seq(Nodes), rest # <<>>,
         Cut(done, rest, names), NEW entry \in Results, entry.node = Head(rest)
  PROVE  Cut(Append(done, entry), Tail(rest), names)
<1> DEFINE more == Append(done, entry)
           less == Tail(rest)
<1>1. /\ Len(rest) \in Nat \ {0} /\ Head(rest) = rest[1]
      /\ Len(less) = Len(rest) - 1 /\ \A i \in 1..(Len(rest) - 1) : less[i] = rest[i + 1]
  BY HeadAndTail
<1>2. /\ Len(done) \in Nat /\ Len(more) = Len(done) + 1
      /\ more[Len(done) + 1] = entry /\ \A i \in 1..Len(done) : more[i] = done[i]
  OBVIOUS
<1>3. /\ Len(done) + Len(rest) = Len(names)
      /\ \A i \in 1..Len(done) : done[i].node = names[i]
      /\ \A j \in 1..Len(rest) : rest[j] = names[Len(done) + j]
  BY DEF Cut
<1> HIDE DEF more, less
<1>4. ASSUME NEW i \in 1..Len(more) PROVE more[i].node = names[i]
  <2>1. CASE i \in 1..Len(done)
    BY <1>2, <1>3, <2>1
  <2>2. CASE i = Len(done) + 1
    <3>1. 1 \in 1..Len(rest)
      BY <1>1
    <3>2. rest[1] = names[Len(done) + 1]
      BY <1>3, <3>1
    <3> QED
      BY <1>1, <1>2, <2>2, <3>2
  <2> QED
    BY <1>2, <2>1, <2>2
<1>5. ASSUME NEW j \in 1..Len(less) PROVE less[j] = names[Len(more) + j]
  <2>1. j \in 1..(Len(rest) - 1) /\ j + 1 \in 1..Len(rest) /\ j \in Nat
    BY <1>1
  <2>2. rest[j + 1] = names[Len(done) + (j + 1)]
    BY <1>3, <2>1
  <2>3. Len(done) + (j + 1) = Len(more) + j
    BY <1>2, <2>1
  <2> QED
    BY <1>1, <2>1, <2>2, <2>3
<1>6. Len(more) + Len(less) = Len(names)
  <2>1. Len(done) \in Nat /\ Len(rest) \in Nat /\ Len(more) = Len(done) + 1 /\ Len(less) = Len(rest) - 1
    BY <1>1, <1>2
  <2>2. Len(done) + Len(rest) = Len(names)
    BY <1>3
  <2> QED
    BY <2>1, <2>2
<1> QED
  BY <1>4, <1>5, <1>6 DEF Cut, more, less

\* The head of the queue has not been reported on.
LEMMA HeadIsNew ==
  ASSUME TypeOK, NEW r \in Requests, Progress(r), pc[r] # "idle", queue[r] # <<>>
  PROVE  \A i \in 1..Len(results[r]) : results[r][i].node # Head(queue[r])
<1> DEFINE names == Names(body[r])
           done == results[r]
           rest == queue[r]
<1>1. /\ names \in Seq(Nodes)
      /\ \A j, k \in 1..Len(names) : names[j] = names[k] => j = k
  BY BodyNames DEF Gathers
<1>2. done \in Seq(Results) /\ rest \in Seq(Nodes)
  BY DEF TypeOK, Results
<1>3. Len(rest) \in Nat \ {0} /\ Head(rest) = rest[1]
  BY <1>2, HeadAndTail
<1>4. /\ Len(done) + Len(rest) = Len(names)
      /\ \A i \in 1..Len(done) : done[i].node = names[i]
      /\ \A j \in 1..Len(rest) : rest[j] = names[Len(done) + j]
  BY DEF Progress, Cut
<1> HIDE DEF names, done, rest
<1>5. Len(done) \in Nat /\ Len(done) + 1 \in 1..Len(names) /\ 1 \in 1..Len(rest)
  BY <1>2, <1>3, <1>4
<1>6. Head(rest) = names[Len(done) + 1]
  BY <1>3, <1>4, <1>5
<1>7. ASSUME NEW i \in 1..Len(done) PROVE done[i].node # Head(rest)
  <2>1. i \in 1..Len(names) /\ i # Len(done) + 1
    BY <1>5
  <2>2. names[i] # names[Len(done) + 1]
    BY <1>1, <1>5, <2>1
  <2> QED
    BY <1>4, <1>6, <2>2
<1> QED
  BY <1>7 DEF done, rest

\* A request that a step leaves alone keeps what it has.
LEMMA OwnFrame ==
  ASSUME NEW r \in Requests, Own(r),
         pc'[r] = pc[r], op'[r] = op[r], body'[r] = body[r], queue'[r] = queue[r],
         results'[r] = results[r], answer'[r] = answer[r], patched'[r] = patched[r]
  PROVE  Own(r)'
BY DEF Own, Progress, Control, Recorded, Truthful, Unaborted, IsBatch

\* A step that settles a node: patched grows by that node at most, and not
\* when the node is reported missing or not ready.
LEMMA SettleKeepsOwn ==
  ASSUME TypeOK, NEW r \in Requests, Own(r), Acting(r), NEW o \in Outcomes, Settle(r, o),
         op' = op, body' = body,
         patched'[r] \in {patched[r], patched[r] \cup {Head(queue[r])}},
         o = "success" => Head(queue[r]) \in patched'[r],
         o \in {"NODE_NOT_FOUND", "NODE_NOT_READY"} => patched'[r] = patched[r]
  PROVE  Own(r)'
<1>1. /\ pc[r] = "patch" /\ queue[r] # <<>>
      /\ queue[r] \in Seq(Nodes) /\ results[r] \in Seq(Results) /\ Head(queue[r]) \in Nodes
  BY HeadTyped DEF Acting, TypeOK, Results
<1>2. CASE IsBatch(r)
  <2> DEFINE entry == [node |-> Head(queue[r]), outcome |-> o]
             done == results[r]
             more == Append(done, entry)
  <2>1. /\ results'[r] = more /\ queue'[r] = Tail(queue[r])
        /\ pc' = pc /\ answer' = answer
    BY <1>2 DEF Settle, TypeOK
  <2>2. entry \in Results /\ entry.node = Head(queue[r]) /\ entry.outcome = o
    BY <1>1 DEF Results
  <2>3. Names(body[r]) \in Seq(Nodes) /\ Cut(done, queue[r], Names(body[r]))
    BY <1>1, BodyNames DEF Own, Progress
  <2>4. \A i \in 1..Len(done) : done[i].node # Head(queue[r])
    BY <1>1, HeadIsNew DEF Own
  <2>5. IsBatch(r)' /\ answer'[r] = "none" /\ pc'[r] = "patch" /\ body'[r] = body[r]
    BY <1>1, <1>2, <2>1 DEF Own, Control, IsBatch
  <2>6. \A n \in patched[r] : \E i \in 1..Len(done) : done[i].node = n
    BY <1>1 DEF Own, Recorded
  <2>7. \A i \in 1..Len(done) :
          /\ done[i].outcome = "success" => done[i].node \in patched[r]
          /\ done[i].outcome \in {"NODE_NOT_FOUND", "NODE_NOT_READY"} => done[i].node \notin patched[r]
    BY DEF Own, Truthful
  <2>8. done \in Seq(Results)
    BY <1>1
  <2> HIDE DEF entry, done
  <2>9. Cut(more, Tail(queue[r]), Names(body[r]))
    BY <1>1, <2>2, <2>3, <2>8, CutMoves
  <2>10. /\ Len(done) \in Nat /\ Len(more) = Len(done) + 1
         /\ more[Len(done) + 1] = entry /\ \A i \in 1..Len(done) : more[i] = done[i]
    BY <2>2, <2>8
  <2> HIDE DEF more
  <2>11. Progress(r)'
    BY <2>1, <2>5, <2>9 DEF Progress
  <2>12. Recorded(r)'
    <3>1. \A i \in 1..Len(done) : i \in 1..Len(more) /\ more[i].node = done[i].node
      BY <2>10
    <3>2. Len(done) + 1 \in 1..Len(more) /\ more[Len(done) + 1].node = Head(queue[r])
      BY <2>2, <2>10
    <3>3. \A n \in patched'[r] : n \in patched[r] \/ n = Head(queue[r])
      OBVIOUS
    <3>4. \A n \in patched'[r] : \E i \in 1..Len(more) : more[i].node = n
      BY <2>6, <3>1, <3>2, <3>3
    <3> QED
      BY <2>1, <3>4 DEF Recorded
  <2>13. Truthful(r)'
    <3>1. ASSUME NEW i \in 1..Len(more)
          PROVE  /\ more[i].outcome = "success" => more[i].node \in patched'[r]
                 /\ more[i].outcome \in {"NODE_NOT_FOUND", "NODE_NOT_READY"} => more[i].node \notin patched'[r]
      <4>1. CASE i \in 1..Len(done)
        <5>1. more[i] = done[i] /\ done[i].node # Head(queue[r])
          BY <2>4, <2>10, <4>1
        <5>2. done[i].node \in patched'[r] <=> done[i].node \in patched[r]
          BY <5>1
        <5> QED
          BY <2>7, <4>1, <5>1, <5>2
      <4>2. CASE i = Len(done) + 1
        <5>1. more[i].outcome = o /\ more[i].node = Head(queue[r])
          BY <2>2, <2>10, <4>2
        <5>2. Head(queue[r]) \notin patched[r]
          BY <2>4, <2>6
        <5> QED
          BY <5>1, <5>2
      <4> QED
        BY <2>10, <4>1, <4>2
    <3> QED
      BY <2>1, <3>1 DEF Truthful
  <2>14. Control(r)' /\ Unaborted(r)'
    BY <2>5 DEF Control, Unaborted
  <2> QED
    BY <2>11, <2>12, <2>13, <2>14 DEF Own
<1>3. CASE ~IsBatch(r)
  <2>1. /\ results' = results /\ queue' = queue
        /\ pc'[r] = "done" /\ results[r] = <<>> /\ ~IsBatch(r)'
    BY <1>3 DEF Settle, Respond, Goto, TypeOK, Own, Control, IsBatch
  <2>2. Progress(r)'
    BY <1>1, <2>1 DEF Own, Progress
  <2>3. Truthful(r)'
    <3>1. Len(results'[r]) = 0
      BY <2>1
    <3> QED
      BY <3>1 DEF Truthful
  <2> QED
    BY <2>1, <2>2, <2>3 DEF Own, Control, Recorded, Unaborted
<1> QED
  BY <1>2, <1>3

\* Every step of a request keeps what is its own.
LEMMA OwnStep ==
  ASSUME TypeOK, NEW r \in Requests, Own(r), RequestStep(r)
  PROVE  Own(r)'
<1>1. CASE Receive(r)
  <2> DEFINE names == Names(body[r])
  <2>1. /\ queue'[r] = names /\ pc'[r] \in {"read", "patch"}
        /\ body' = body /\ op' = op /\ results'[r] = <<>> /\ patched'[r] = {} /\ answer'[r] = "none"
    BY <1>1 DEF Receive, Goto, TypeOK, Own, Control
  <2>2. names \in Seq(Nodes)
    BY BodyNames
  <2>3. Cut(<<>>, names, names)
    <3> HIDE DEF names
    <3> QED
      BY <2>2 DEF Cut
  <2>4. Progress(r)'
    BY <2>1, <2>3 DEF Progress
  <2>5. Control(r)' /\ Recorded(r)' /\ Unaborted(r)'
    BY <2>1 DEF Control, Recorded, Unaborted, IsBatch
  <2>6. Truthful(r)'
    <3>1. Len(results'[r]) = 0
      BY <2>1
    <3> QED
      BY <3>1 DEF Truthful
  <2> QED
    BY <2>4, <2>5, <2>6 DEF Own
<1>2. CASE ReadNode(r) \/ ListNodes(r) \/ ReadFails(r)
  <2>1. /\ pc[r] = "read" /\ pc'[r] \in {"patch", "done"}
        /\ queue' = queue /\ body' = body /\ op' = op
        /\ results' = results /\ patched' = patched
    BY <1>2 DEF ReadNode, ListNodes, ReadFails, Goto, Respond, TypeOK, request
  <2>2. results[r] = <<>> /\ patched[r] = {}
    BY <2>1 DEF Own, Control
  <2>3. pc'[r] = "patch" => answer'[r] = "none"
    BY <1>2, <2>1 DEF ReadNode, ListNodes, ReadFails, Goto, Respond, TypeOK, Own, Control
  <2>4. answer'[r] # "done" /\ (IsBatch(r) => answer'[r] \in {"none", "cluster_error", "KUBE_ERROR"})
    BY <1>2, <2>1 DEF ReadNode, ListNodes, ReadFails, Goto, Respond, TypeOK, Own, Control
  <2>5. Progress(r)'
    BY <2>1 DEF Own, Progress
  <2>6. Truthful(r)'
    <3>1. Len(results'[r]) = 0
      BY <2>1, <2>2
    <3> QED
      BY <3>1 DEF Truthful
  <2>7. Control(r)' /\ Recorded(r)' /\ Unaborted(r)'
    BY <2>1, <2>2, <2>3, <2>4 DEF Control, Recorded, Unaborted, IsBatch
  <2> QED
    BY <2>5, <2>6, <2>7 DEF Own
<1>3. CASE RefuseNotReady(r)
  <2>1. /\ Acting(r) /\ Settle(r, "NODE_NOT_READY") /\ op' = op /\ body' = body /\ patched' = patched
        /\ "NODE_NOT_READY" \in Outcomes
    BY <1>3 DEF RefuseNotReady, Outcomes
  <2> QED
    BY <2>1, SettleKeepsOwn
<1>4. CASE PatchNode(r)
  <2>1. /\ Acting(r) /\ Settle(r, "success") /\ op' = op /\ body' = body
        /\ patched'[r] = patched[r] \cup {Head(queue[r])} /\ "success" \in Outcomes
    BY <1>4 DEF PatchNode, Patches, Apply, Outcomes, TypeOK
  <2> QED
    BY <2>1, SettleKeepsOwn
<1>5. CASE PatchNotFound(r)
  <2>1. /\ Acting(r) /\ Settle(r, "NODE_NOT_FOUND") /\ op' = op /\ body' = body /\ patched' = patched
        /\ "NODE_NOT_FOUND" \in Outcomes
    BY <1>5 DEF PatchNotFound, Patches, Outcomes
  <2> QED
    BY <2>1, SettleKeepsOwn
<1>6. CASE PatchError(r)
  <2>1. /\ Acting(r) /\ Settle(r, "KUBE_ERROR") /\ op' = op /\ body' = body
        /\ patched'[r] \in {patched[r], patched[r] \cup {Head(queue[r])}}
        /\ "KUBE_ERROR" \in Outcomes
    BY <1>6 DEF PatchError, Patches, Apply, Outcomes, TypeOK
  <2> QED
    BY <2>1, SettleKeepsOwn
<1>7. CASE ClusterError(r)
  <2>1. /\ Acting(r) /\ pc[r] = "patch" /\ queue[r] # <<>> /\ pc'[r] = "done" /\ answer'[r] = "cluster_error"
        /\ op' = op /\ body' = body /\ queue' = queue /\ results' = results
        /\ patched'[r] \in {patched[r], patched[r] \cup {Head(queue[r])}}
    BY <1>7 DEF ClusterError, Patches, Acting, Apply, Respond, Goto, TypeOK, request
  <2>2. \A i \in 1..Len(results[r]) : results[r][i].node # Head(queue[r])
    BY <2>1, HeadIsNew DEF Own
  <2>3. Truthful(r)'
    BY <2>1, <2>2 DEF Own, Truthful
  <2>4. Progress(r)'
    BY <2>1 DEF Own, Progress
  <2>5. Control(r)' /\ Recorded(r)' /\ Unaborted(r)'
    BY <2>1 DEF Own, Control, Recorded, Unaborted, IsBatch
  <2> QED
    BY <2>3, <2>4, <2>5 DEF Own
<1>8. CASE Finish(r)
  <2>1. /\ pc[r] = "patch" /\ queue[r] = <<>> /\ pc'[r] = "done" /\ answer'[r] = "done"
        /\ op' = op /\ body' = body /\ queue' = queue /\ results' = results /\ patched' = patched
    BY <1>8 DEF Finish, Respond, Goto, TypeOK, request
  <2>2. Progress(r)' /\ Truthful(r)'
    BY <2>1 DEF Own, Progress, Truthful
  <2>3. Control(r)' /\ Recorded(r)' /\ Unaborted(r)'
    BY <2>1 DEF Own, Control, Recorded, Unaborted, IsBatch
  <2> QED
    BY <2>2, <2>3 DEF Own
<1> QED
  BY <1>1, <1>2, <1>3, <1>4, <1>5, <1>6, <1>7, <1>8 DEF RequestStep

\* Requests share nothing but the cluster.
LEMMA OthersFrame ==
  ASSUME TypeOK, NEW r \in Requests, RequestStep(r), NEW s \in Requests, s # r
  PROVE  /\ pc'[s] = pc[s] /\ queue'[s] = queue[s] /\ statuses'[s] = statuses[s]
         /\ results'[s] = results[s] /\ answer'[s] = answer[s]
         /\ patched'[s] = patched[s] /\ quiet'[s] = quiet[s]
<1>1. CASE Receive(r) \/ ReadNode(r) \/ ListNodes(r) \/ ReadFails(r) \/ Finish(r)
  BY <1>1 DEF Receive, ReadNode, ListNodes, ReadFails, Finish, Goto, Respond, TypeOK, request
<1>2. CASE RefuseNotReady(r) \/ PatchNode(r) \/ PatchNotFound(r) \/ PatchError(r)
  <2>1. /\ \E o \in Outcomes : Settle(r, o)
        /\ Apply(r) \/ patched' = patched
        /\ quiet' = quiet /\ statuses' = statuses
    BY <1>2 DEF RefuseNotReady, PatchNode, PatchNotFound, PatchError, Outcomes
  <2>2. PICK o \in Outcomes : Settle(r, o)
    BY <2>1
  <2>3. pc'[s] = pc[s] /\ queue'[s] = queue[s] /\ results'[s] = results[s] /\ answer'[s] = answer[s]
    BY <2>2 DEF Settle, Respond, Goto, TypeOK
  <2>4. patched'[s] = patched[s]
    BY <2>1 DEF Apply, TypeOK
  <2> QED
    BY <2>1, <2>3, <2>4
<1>3. CASE ClusterError(r)
  BY <1>3 DEF ClusterError, Apply, Goto, Respond, TypeOK, request
<1> QED
  BY <1>1, <1>2, <1>3 DEF RequestStep

\* No request changes what the readiness gate looks at, or what was asked.
LEMMA RequestsFrame ==
  ASSUME NEW r \in Requests, RequestStep(r)
  PROVE  registered' = registered /\ condition' = condition /\ op' = op /\ body' = body
BY DEF RequestStep, Receive, ReadNode, ListNodes, ReadFails, RefuseNotReady, PatchNode, PatchNotFound,
       PatchError, ClusterError, Finish, Apply, cluster, request

-----------------------------------------------------------------------------
(* What a request goes by, and what it has written                          *)

LEMMA JudgedStep ==
  ASSUME TypeOK, NEW r \in Requests, Own(r), Judged(r), RequestStep(r)
  PROVE  Judged(r)'
<1>1. registered' = registered /\ condition' = condition /\ op' = op
  BY RequestsFrame
<1>2. \A n : Judgement(n)' = Judgement(n)
  BY <1>1 DEF Judgement
<1>3. CASE Receive(r)
  <2>1. queue'[r] = Names(body[r]) /\ (pc'[r] = "patch" => ~(Uncordons(r) /\ Names(body[r]) # <<>>))
    BY <1>3 DEF Receive, Goto, TypeOK
  <2> QED
    BY <1>1, <2>1 DEF Judged, Uncordons
<1>4. CASE ReadNode(r)
  <2>1. queue' = queue /\ ~IsBatch(r) /\ ~IsBatch(r)'
    BY <1>1, <1>4 DEF ReadNode, IsBatch
  <2>2. ASSUME queue[r] # <<>>
        PROVE  statuses'[r][Head(queue[r])] = Judgement(Head(queue[r]))
    <3> DEFINE n == Head(queue[r])
    <3>1. n \in Nodes
      BY <2>2, HeadTyped
    <3>2. statuses' = [statuses EXCEPT ![r][n] = Judgement(n)]
      BY <1>4 DEF ReadNode
    <3> HIDE DEF n
    <3>3. statuses'[r][n] = Judgement(n)
      BY <3>1, <3>2 DEF TypeOK
    <3> QED
      BY <3>3 DEF n
  <2> QED
    BY <1>2, <2>1, <2>2 DEF Judged
<1>5. CASE ListNodes(r)
  BY <1>1, <1>2, <1>5 DEF ListNodes, Judged, TypeOK, IsBatch
<1>6. CASE ReadFails(r) \/ ClusterError(r) \/ Finish(r)
  BY <1>6 DEF ReadFails, ClusterError, Finish, Respond, Goto, Judged, TypeOK
<1>7. CASE RefuseNotReady(r) \/ PatchNode(r) \/ PatchNotFound(r) \/ PatchError(r)
  <2>1. /\ \E o \in Outcomes : Settle(r, o)
        /\ pc[r] = "patch" /\ queue[r] # <<>> /\ quiet' = quiet /\ statuses' = statuses
    BY <1>7 DEF RefuseNotReady, PatchNode, PatchNotFound, PatchError, Patches, Acting, Outcomes
  <2>2. IF IsBatch(r) THEN pc' = pc ELSE pc'[r] = "done"
    BY <2>1 DEF Settle, Respond, Goto, TypeOK
  <2> QED
    BY <1>1, <1>2, <2>1, <2>2 DEF Judged, IsBatch, Uncordons
<1> QED
  BY <1>3, <1>4, <1>5, <1>6, <1>7 DEF RequestStep

\* A step that touches neither a request nor the nodes it goes by.
LEMMA JudgedFrame ==
  ASSUME NEW r \in Requests, Judged(r), registered' = registered, condition' = condition,
         op' = op, pc'[r] = pc[r], queue'[r] = queue[r], statuses'[r] = statuses[r], quiet'[r] = quiet[r]
  PROVE  Judged(r)'
<1>1. \A n : Judgement(n)' = Judgement(n)
  BY DEF Judgement
<1> QED
  BY <1>1 DEF Judged, Uncordons, IsBatch

\* A request patches the head of its queue, with the flag it is asked for, or
\* it leaves the flags of all nodes alone.
LEMMA WritesOne ==
  ASSUME TypeOK, NEW r \in Requests, RequestStep(r)
  PROVE  \/ Patches(r) /\ Apply(r) /\ quiet' = quiet
         \/ unschedulable' = unschedulable /\ patched' = patched
BY DEF RequestStep, Receive, ReadNode, ListNodes, ReadFails, RefuseNotReady, PatchNode, PatchNotFound,
       PatchError, ClusterError, Finish, cluster, request

LEMMA WrittenStep ==
  ASSUME TypeOK, NEW r \in Requests, RequestStep(r), \A t \in Requests : Own(t) /\ Written(t)
  PROVE  \A t \in Requests : Written(t)'
<1>1. op' = op
  BY RequestsFrame
<1>2. ASSUME NEW t \in Requests, quiet'[t], ~quiet[t]
      PROVE  patched'[t] = {}
  <2>1. Receive(r) /\ t = r
    <3>1. t = r
      BY <1>2, OthersFrame
    <3>2. Receive(r) \/ quiet' = quiet
      BY DEF RequestStep, Receive, ReadNode, ListNodes, ReadFails, RefuseNotReady, PatchNode,
             PatchNotFound, PatchError, ClusterError, Finish
    <3> QED
      BY <1>2, <3>1, <3>2
  <2> QED
    BY <2>1 DEF Receive, Own, Control
<1>3. CASE Patches(r) /\ Apply(r)
  <2> DEFINE n == Head(queue[r])
  <2>1. n \in Nodes
    BY <1>3, HeadTyped DEF Patches, Acting
  <2>2. /\ unschedulable' = [unschedulable EXCEPT ![n] = ~Uncordons(r)]
        /\ patched' = [patched EXCEPT ![r] = patched[r] \cup {n}]
    BY <1>3 DEF Apply
  <2> HIDE DEF n
  <2>3. unschedulable'[n] = ~Uncordons(r) /\ n \in patched'[r]
    BY <2>1, <2>2 DEF TypeOK
  <2>4. /\ \A m \in Nodes : m # n => unschedulable'[m] = unschedulable[m]
        /\ \A t \in Requests : patched[t] \subseteq patched'[t] /\ patched'[t] \subseteq patched[t] \cup {n}
    BY <2>2 DEF TypeOK
  <2>5. ASSUME NEW t \in Requests, quiet'[t], NEW m \in patched'[t]
        PROVE  \E s \in Requests : m \in patched'[s] /\ unschedulable'[m] = ~Uncordons(s)'
    <3>1. CASE m = n
      BY <1>1, <2>3, <3>1 DEF Uncordons
    <3>2. CASE m # n
      <4>1. m \in patched[t] /\ m \in Nodes
        BY <2>4, <3>2 DEF TypeOK
      <4>2. quiet[t]
        BY <1>2, <2>5, <4>1
      <4>3. PICK s \in Requests : m \in patched[s] /\ unschedulable[m] = ~Uncordons(s)
        BY <4>1, <4>2 DEF Written
      <4> QED
        BY <1>1, <2>4, <3>2, <4>1, <4>3 DEF Uncordons
    <3> QED
      BY <3>1, <3>2
  <2> QED
    BY <2>5 DEF Written
<1>4. CASE unschedulable' = unschedulable /\ patched' = patched
  BY <1>1, <1>2, <1>4 DEF Written, Uncordons
<1> QED
  BY <1>3, <1>4, WritesOne

-----------------------------------------------------------------------------
(* The invariant, and what follows                                          *)

LEMMA InitIInv == Init => IInv
<1> SUFFICES ASSUME Init PROVE IInv
  OBVIOUS
<1>1. 0 \in 0..MaxEvents
  <2>1. MaxEvents \in Nat
    BY CordoningAssumption
  <2> QED
    BY <2>1
<1>2. TypeOK
  BY <1>1 DEF Init, TypeOK, Answers
<1>3. ASSUME NEW r \in Requests PROVE Own(r)
  <2>1. Len(results[r]) = 0
    BY DEF Init
  <2> QED
    BY <2>1 DEF Init, Own, Progress, Control, Recorded, Truthful, Unaborted
<1>4. ASSUME NEW r \in Requests PROVE Judged(r) /\ Written(r)
  BY DEF Init, Judged, Written
<1> QED
  BY <1>2, <1>3, <1>4 DEF IInv

LEMMA NextIInv == IInv /\ [Next]_vars => IInv'
<1> SUFFICES ASSUME IInv, [Next]_vars PROVE IInv'
  OBVIOUS
<1>1. TypeOK /\ \A r \in Requests : Own(r) /\ Judged(r) /\ Written(r)
  BY DEF IInv
<1>2. TypeOK'
  BY <1>1, NextTypeOK
<1>3. ASSUME NEW r \in Requests, RequestStep(r)
      PROVE  \A s \in Requests : Own(s)' /\ Judged(s)' /\ Written(s)'
  <2>1. registered' = registered /\ condition' = condition /\ op' = op /\ body' = body
    BY <1>3, RequestsFrame
  <2>2. Own(r)' /\ Judged(r)'
    BY <1>1, <1>3, OwnStep, JudgedStep
  <2>3. ASSUME NEW s \in Requests, s # r PROVE Own(s)' /\ Judged(s)'
    <3>1. /\ pc'[s] = pc[s] /\ queue'[s] = queue[s] /\ statuses'[s] = statuses[s]
          /\ results'[s] = results[s] /\ answer'[s] = answer[s]
          /\ patched'[s] = patched[s] /\ quiet'[s] = quiet[s]
      BY <1>1, <1>3, <2>3, OthersFrame
    <3>2. Own(s)'
      BY <1>1, <2>1, <3>1, OwnFrame
    <3>3. Judged(s)'
      BY <1>1, <2>1, <3>1, JudgedFrame
    <3> QED
      BY <3>2, <3>3
  <2>4. \A s \in Requests : Written(s)'
    BY <1>1, <1>3, WrittenStep
  <2> QED
    BY <2>2, <2>3, <2>4
<1>4. ASSUME ClusterChanges
      PROVE  \A s \in Requests : Own(s)' /\ Judged(s)' /\ Written(s)'
  <2>1. /\ op' = op /\ body' = body /\ queue' = queue /\ statuses' = statuses
        /\ results' = results /\ pc' = pc /\ answer' = answer /\ patched' = patched
    BY <1>1, <1>4, ChangesTyped
  <2>2. \A s \in Requests : ~quiet'[s]
    BY <1>4 DEF ClusterChanges
  <2>3. \A s \in Requests : Own(s)'
    BY <1>1, <2>1, OwnFrame
  <2> QED
    BY <2>2, <2>3 DEF Judged, Written
<1>5. CASE UNCHANGED vars
  <2>1. /\ registered' = registered /\ condition' = condition /\ unschedulable' = unschedulable
        /\ op' = op /\ body' = body /\ queue' = queue /\ statuses' = statuses
        /\ results' = results /\ pc' = pc /\ answer' = answer /\ patched' = patched /\ quiet' = quiet
    BY <1>5 DEF vars, cluster, request
  <2>2. \A s \in Requests : Own(s)'
    BY <1>1, <2>1, OwnFrame
  <2>3. \A s \in Requests : Judged(s)'
    BY <1>1, <2>1, JudgedFrame
  <2>4. \A s \in Requests : Written(s)'
    BY <1>1, <2>1 DEF Written, Uncordons
  <2> QED
    BY <1>2, <2>2, <2>3, <2>4 DEF IInv
<1>6. ASSUME Next PROVE IInv'
  <2>1. (\E r \in Requests : RequestStep(r)) \/ ClusterChanges
    BY <1>6 DEF Next, Join, Leave, Assess
  <2> QED
    BY <1>2, <1>3, <1>4, <2>1 DEF IInv
<1> QED
  BY <1>5, <1>6

LEMMA Invariance == Spec => []IInv
<1> QED
  BY InitIInv, NextIInv, PTL DEF Spec

\* The types of the requests and of the nodes they act on.
THEOREM TypeCorrect == Spec => []TypeOK
<1>1. IInv => TypeOK
  BY DEF IInv
<1> QED
  BY <1>1, Invariance, PTL

\* A batch that answers 200 reports on each node it names, once: its queue is
\* empty, so its results are the names.
THEOREM BatchIsCovered == Spec => []ResultsCoverTheBatch
<1>1. ASSUME IInv PROVE ResultsCoverTheBatch
  <2>1. SUFFICES ASSUME NEW r \in Requests, IsBatch(r), answer[r] = "done"
                 PROVE  /\ {results[r][i].node : i \in DOMAIN results[r]} = Named(r)
                        /\ \A i, j \in DOMAIN results[r] : results[r][i].node = results[r][j].node => i = j
    BY DEF ResultsCoverTheBatch
  <2>2. TypeOK /\ Own(r)
    BY <1>1 DEF IInv
  <2> DEFINE names == Names(body[r])
             done == results[r]
             raw == body[r]
  <2>3. queue[r] = <<>> /\ pc[r] # "idle"
    BY <2>1, <2>2 DEF Own, Control
  <2>4. Cut(done, <<>>, names)
    BY <2>2, <2>3 DEF Own, Progress
  <2>5. names \in Seq(Nodes) /\ Gathers(raw, Len(raw), names)
    BY <2>2, BodyNames
  <2>6. done \in Seq(Results)
    BY <2>2 DEF TypeOK, Results
  <2>7. raw \in RawNames
    BY <2>2, CordoningAssumption DEF TypeOK, RawNames
  <2>8. Blank \notin Nodes
    BY CordoningAssumption
  <2>9. Named(r) = {raw[i].name : i \in DOMAIN raw} \ {Blank}
    BY DEF Named
  <2> HIDE DEF names, done, raw
  <2>10. /\ Len(done) = Len(names) /\ \A i \in 1..Len(done) : done[i].node = names[i]
         /\ DOMAIN done = 1..Len(done) /\ DOMAIN names = 1..Len(names) /\ DOMAIN raw = 1..Len(raw)
    <3>1. Len(done) + Len(<<>>) = Len(names) /\ \A i \in 1..Len(done) : done[i].node = names[i]
      BY <2>4 DEF Cut
    <3>2. Len(<<>>) = 0
      OBVIOUS
    <3>3. Len(done) = Len(names)
      BY <2>5, <2>6, <3>1, <3>2
    <3>4. DOMAIN done = 1..Len(done) /\ DOMAIN names = 1..Len(names)
      BY <2>5, <2>6
    <3>5. DOMAIN raw = 1..Len(raw)
      BY <2>7 DEF RawNames
    <3> QED
      BY <3>1, <3>3, <3>4, <3>5
  <2>11. \A j \in 1..Len(names) : names[j] \in Nodes
    BY <2>5
  <2>12. {done[i].node : i \in DOMAIN done} \subseteq Named(r)
    <3>1. ASSUME NEW i \in DOMAIN done
          PROVE  done[i].node \in Named(r)
      <4>1. i \in 1..Len(names) /\ done[i].node = names[i]
        BY <2>10
      <4>2. PICK k \in 1..Len(raw) : raw[k].name = names[i]
        BY <2>5, <4>1 DEF Gathers
      <4>3. names[i] # Blank
        BY <2>8, <2>11, <4>1
      <4> QED
        BY <2>9, <2>10, <4>1, <4>2, <4>3
    <3> QED
      BY <3>1
  <2>13. Named(r) \subseteq {done[i].node : i \in DOMAIN done}
    <3>1. ASSUME NEW k \in 1..Len(raw), raw[k].name # Blank
          PROVE  \E i \in DOMAIN done : done[i].node = raw[k].name
      <4>1. PICK j \in 1..Len(names) : names[j] = raw[k].name
        BY <2>5, <3>1 DEF Gathers
      <4> QED
        BY <2>10, <4>1
    <3> QED
      BY <2>9, <2>10, <3>1
  <2>14. \A i, j \in DOMAIN done : done[i].node = done[j].node => i = j
    BY <2>5, <2>10 DEF Gathers
  <2> QED
    BY <2>12, <2>13, <2>14 DEF done
<1> QED
  BY <1>1, Invariance, PTL

\* A success is reported of a node the request has patched, and a node it
\* reports missing or not ready it has not.
THEOREM ResultsAreTrue == Spec => []ResultsTellTheTruth
<1>1. ASSUME IInv PROVE ResultsTellTheTruth
  <2>1. ASSUME NEW r \in Requests PROVE DOMAIN results[r] = 1..Len(results[r])
    <3>1. results[r] \in Seq(Results)
      BY <1>1 DEF IInv, TypeOK, Results
    <3> QED
      BY <3>1
  <2> QED
    BY <1>1, <2>1 DEF IInv, Own, Truthful, ResultsTellTheTruth
<1> QED
  BY <1>1, Invariance, PTL

\* Nothing that happens to one node ends a batch.
THEOREM BatchesGoOn == Spec => []OneNodeNeverAborts
<1>1. IInv => OneNodeNeverAborts
  BY DEF IInv, Own, Unaborted, OneNodeNeverAborts
<1> QED
  BY <1>1, Invariance, PTL

\* A patched node is as all that patched it have asked, if they agree.
THEOREM PatchesLast == Spec => []PatchedNodesAreAsAsked
<1>1. IInv => PatchedNodesAreAsAsked
  BY DEF IInv, Written, PatchedNodesAreAsAsked
<1> QED
  BY <1>1, Invariance, PTL

\* While the cluster holds still, only Ready nodes are uncordoned.
THEOREM GateHolds == Spec => QuietUncordonIsReady
<1>1. ASSUME IInv, [Next]_vars
      PROVE  [\A r \in Requests : \A n \in patched'[r] \ patched[r] :
                (Uncordons(r) /\ quiet[r]) => condition[n] = "True"]_vars
  <2>1. SUFFICES ASSUME Next, NEW r \in Requests, NEW n \in patched'[r] \ patched[r],
                        Uncordons(r), quiet[r]
                 PROVE  condition[n] = "True"
    BY <1>1
  <2>2. TypeOK /\ Own(r) /\ Judged(r)
    BY <1>1 DEF IInv
  <2>3. PICK s \in Requests : RequestStep(s)
    BY <2>1 DEF Next, Join, Leave, Assess, ClusterChanges
  <2>4. s = r
    BY <2>1, <2>2, <2>3, OthersFrame
  <2>5. Patches(r) /\ Apply(r)
    BY <2>1, <2>2, <2>3, <2>4, WritesOne
  <2>6. n = Head(queue[r]) /\ n \in registered /\ n \in Nodes
    BY <2>1, <2>2, <2>5, HeadTyped DEF Apply, TypeOK, Patches, Acting
  <2>7. statuses[r][n] = Judgement(n)
    BY <2>1, <2>2, <2>5, <2>6 DEF Judged, Patches, Acting
  <2>8. statuses[r][n] \in {"Ready", "missing"}
    BY <2>1, <2>5, <2>6 DEF Patches, GatePasses
  <2> QED
    BY <2>6, <2>7, <2>8 DEF Judgement, NodeStatus
<1> QED
  BY <1>1, Invariance, PTL DEF Spec, QuietUncordonIsReady
=============================================================================
