-------------------------- MODULE DeliveryPromise ---------------------------
(***************************************************************************)
(* What a call of deploy-service promises its caller, with no word of the   *)
(* manager, its lock or its clock: the call is sent with a token that was   *)
(* issued, and sent again only after that token was refused, once, and with *)
(* another one; it is delivered at most once, and is when it is answered    *)
(* "ok", never when it is answered "auth_error"; any other error leaves     *)
(* that open; and after the answer it does nothing more.                    *)
(***************************************************************************)
EXTENDS Naturals

CONSTANTS
  Tasks,   \* the calls
  NoToken  \* in place of a token

VARIABLES
  issued,     \* the tokens there are
  carried,    \* call -> the token it is on its way with
  refused,    \* call -> the token it was refused with
  delivered,  \* call -> how often it was carried out
  outcome     \* call -> its answer

promise == <<issued, carried, refused, delivered, outcome>>

Init ==
  /\ NoToken \notin issued
  /\ carried = [c \in Tasks |-> NoToken]
  /\ refused = [c \in Tasks |-> NoToken]
  /\ delivered = [c \in Tasks |-> 0]
  /\ outcome = [c \in Tasks |-> "none"]

\* More tokens; those there are stay what they are.
Issue ==
  /\ issued \subseteq issued' /\ NoToken \notin issued'
  /\ UNCHANGED <<carried, refused, delivered, outcome>>

Unanswered(c) == outcome[c] = "none"
Underway(c) == Unanswered(c) /\ carried[c] # NoToken

Send(c) ==
  /\ Unanswered(c) /\ carried[c] = NoToken
  /\ \E t \in issued \ {refused[c]} : carried' = [carried EXCEPT ![c] = t]
  /\ UNCHANGED <<issued, refused, delivered, outcome>>

\* The first refusal is not the answer.
Refuse(c) ==
  /\ Underway(c) /\ refused[c] = NoToken
  /\ refused' = [refused EXCEPT ![c] = carried[c]]
  /\ carried' = [carried EXCEPT ![c] = NoToken]
  /\ UNCHANGED <<issued, delivered, outcome>>

Answer(c, answers) ==
  /\ outcome' \in {[outcome EXCEPT ![c] = a] : a \in answers}
  /\ carried' = [carried EXCEPT ![c] = NoToken]
  /\ UNCHANGED <<issued, refused>>

\* It is carried out, though the caller may not hear of it.
Deliver(c) ==
  /\ Underway(c)
  /\ delivered' = [delivered EXCEPT ![c] = @ + 1]
  /\ Answer(c, {"ok", "upstream_error", "transport_error"})

\* It is not carried out, with the error of whoever failed.
Fail(c) ==
  /\ Unanswered(c)
  /\ \/ Underway(c) /\ Answer(c, {"upstream_error", "transport_error"})
     \/ ~Underway(c) /\ Answer(c, {"auth_error", "transport_error"})
  /\ UNCHANGED delivered

Next == Issue \/ \E c \in Tasks : Send(c) \/ Refuse(c) \/ Deliver(c) \/ Fail(c)

Spec == Init /\ [][Next]_promise
=============================================================================
