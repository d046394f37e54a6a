------------------------------ MODULE MCDrain -------------------------------
(***************************************************************************)
(* Drain for TLC, in two sizes: one drain in a cluster that has a pod of    *)
(* each way through the classification, and two drains that share a node.   *)
(***************************************************************************)
EXTENDS Drain, TLC

CONSTANTS d1, d2, n1, n2, p1, p2

OneDrain == {d1}
TwoDrains == {d1, d2}
TwoPods == {p1, p2}
\* n2 is a name the API server does not know.
TwoNodes == {n1, n2}
OneRegistered == {n1}

AllTemplates == {{}, {"owned"}, {"owned", "emptydir"}, {"owned", "daemonset", "emptydir"}, {"mirror"}}
AllOptionSets == {{}, {"force"}, {"delete_emptydir_data", "disable_eviction"},
                  {"force", "delete_emptydir_data", "no_grace"}}

FewTemplates == {{}, {"owned"}}
NoOptions == {{}}

Symmetry == Permutations(TwoDrains) \cup Permutations(TwoPods)
=============================================================================
