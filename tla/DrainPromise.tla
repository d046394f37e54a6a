---------------------------- MODULE DrainPromise ----------------------------
(***************************************************************************)
(* What a drain promises its caller, with no word of how: it decides once   *)
(* which pods have to go, or refuses and touches none; it takes on those    *)
(* pods and no others, each of them once; it answers with success only when *)
(* it has seen to all of them; and after its answer it does nothing more.   *)
(* It may fail at any time, and a call of it that failed may still have     *)
(* taken effect.                                                            *)
(***************************************************************************)
CONSTANTS
  Drains,  \* the drain requests
  Pods     \* pod names

VARIABLES
  stage,    \* drain -> how far it is
  plan,     \* drain -> the pods it decided on
  left,     \* drain -> those of them it has not seen to
  removed   \* drain -> those it removed itself

promise == <<stage, plan, left, removed>>

Answered == {"checked", "refused", "emptied", "pending", "failed"}

Init ==
  /\ stage = [d \in Drains |-> "asked"]
  /\ plan = [d \in Drains |-> {}]
  /\ left = [d \in Drains |-> {}]
  /\ removed = [d \in Drains |-> {}]

Become(d, s) == stage' = [stage EXCEPT ![d] = s]

\* A dry run, or a node with a pod that must not go.
DoNothing(d) ==
  /\ stage[d] = "asked"
  /\ \E s \in {"checked", "refused"} : Become(d, s)
  /\ UNCHANGED <<plan, left, removed>>

Decide(d) ==
  /\ stage[d] = "asked"
  /\ Become(d, "at_work")
  /\ \E chosen \in SUBSET Pods :
       /\ plan' = [plan EXCEPT ![d] = chosen]
       /\ left' = [left EXCEPT ![d] = chosen]
  /\ UNCHANGED removed

\* A pod of the plan is removed, or found gone.
SeeTo(d, p) ==
  /\ stage[d] = "at_work" /\ p \in left[d]
  /\ left' = [left EXCEPT ![d] = @ \ {p}]
  /\ removed' \in {removed, [removed EXCEPT ![d] = @ \cup {p}]}
  /\ UNCHANGED <<stage, plan>>

\* Nothing of the plan is left to do; pods may still be terminating.
Succeed(d) ==
  /\ stage[d] = "at_work" /\ left[d] = {}
  /\ \/ Become(d, "emptied")
     \/ plan[d] # {} /\ Become(d, "pending")
  /\ UNCHANGED <<plan, left, removed>>

\* One drain fails, with the effect of its last call or without.
Fail(d) ==
  /\ stage[d] \notin Answered
  /\ Become(d, "failed")
  /\ \/ UNCHANGED removed
     \/ \E p \in left[d] : removed' = [removed EXCEPT ![d] = @ \cup {p}]
  /\ UNCHANGED <<plan, left>>

\* All that have begun fail together.
FailTogether ==
  /\ \E lost \in SUBSET {d \in Drains : stage[d] \notin Answered} :
       stage' = [d \in Drains |-> IF d \in lost THEN "failed" ELSE stage[d]]
  /\ UNCHANGED <<plan, left, removed>>

Next ==
  \/ \E d \in Drains : \/ DoNothing(d) \/ Decide(d) \/ Succeed(d) \/ Fail(d)
                       \/ \E p \in Pods : SeeTo(d, p)
  \/ FailTogether

Spec == Init /\ [][Next]_promise
=============================================================================
