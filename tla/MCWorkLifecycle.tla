---------------------------- MODULE MCWorkLifecycle ----------------------------
(* WorkLifecycle on small workspaces. *)
EXTENDS WorkLifecycle, TLC

CONSTANTS n1, n2, w1, w2, l1, l2, o1

\* The one obligation, if there is one, is served by the first node.
MCServes == [n \in Nodes |-> IF n = n1 THEN Obligations ELSE {}]

MCSymmetry == Permutations(LeaseIds)
=============================================================================
