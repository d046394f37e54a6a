---------------------------- MODULE MCCordoning -----------------------------
(***************************************************************************)
(* Cordoning for TLC: a batch and another request on two nodes.  One of the *)
(* bodies repeats a node under a padded name, one is blank.                 *)
(***************************************************************************)
EXTENDS Cordoning

CONSTANTS r1, r2, n1, n2, blank

TwoRequests == {r1, r2}
OneRequest == {r1}
TwoNodes == {n1, n2}

Raw(n) == [name |-> n, padded |-> FALSE]
Padded(n) == [name |-> n, padded |-> TRUE]

MCBodies == {<<Raw(n1)>>, <<Raw(blank)>>, <<Padded(n1), Raw(n2), Raw(n1)>>}

\* The first request is a batch, the second one is not the same cordon again.
\* A node that is registered has been assessed; both nodes are schedulable or
\* neither is.
MCInit ==
  /\ Init
  /\ IsBatch(r1) /\ \A r \in Requests \ {r1} : op[r] # "cordon_many" /\ body[r] = <<Raw(n1)>>
  /\ \A n \in registered : condition[n] \in {"True", "Unknown"}
  /\ \A m, n \in registered : unschedulable[m] = unschedulable[n]

MCSpec == MCInit /\ [][Next]_vars
=============================================================================
