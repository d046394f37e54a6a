--------------------------- MODULE MCNodeMetadata ---------------------------
(***************************************************************************)
(* NodeMetadata for TLC: two requests on two keys.  The bodies set, remove, *)
(* do both to one key, and name nothing.                                    *)
(***************************************************************************)
EXTENDS NodeMetadata, TLC

CONSTANTS r1, r2, k1, k2, v1, v2

TwoRequests == {r1, r2}
TwoKeys == {k1, k2}
TwoValues == {v1, v2}
Symmetry == Permutations(TwoRequests)

MCBodies ==
  {[set |-> [Nothing EXCEPT ![k1] = v1], remove |-> {}],
   [set |-> [Nothing EXCEPT ![k2] = v1], remove |-> {k1}],
   [set |-> [Nothing EXCEPT ![k1] = v2], remove |-> {k1}],
   [set |-> Nothing, remove |-> {}]}

\* The node starts bare or with one key, the same in its three fields.
MCInit ==
  /\ Init
  /\ \A f \in Fields : meta[f] = meta["taints"]
  /\ meta["taints"][k2] = Absent /\ meta["taints"][k1] # v2
MCSpec == MCInit /\ [][Next]_vars
=============================================================================
