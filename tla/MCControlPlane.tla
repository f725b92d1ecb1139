---------------------------- MODULE MCControlPlane ----------------------------
(* ControlPlane on two processes and two command ids. *)
EXTENDS ControlPlane, TLC

CONSTANTS p1, p2, i1, i2, v, w, plan, receipt

\* Two-event batches that agree with themselves.
MCPairs == { <<[ident |-> i, value |-> x], [ident |-> j, value |-> x]>> : i, j \in Idents, x \in Values }

\* Those and the one-event batches.
MCBatches == MCPairs \cup { <<f>> : f \in Facts }

MCSymmetry == Permutations(Procs) \cup Permutations(CmdIds) \cup Permutations(Values)
=============================================================================
