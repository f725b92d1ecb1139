-------------------------- MODULE MCExecutionGate --------------------------
EXTENDS ExecutionGate, TLC

CONSTANTS c1, c2, r1, r2, n1

\* Two requests of one node; the calls may share a request.
MCNodeOf == [r \in {r1, r2} |-> n1]
MCMayAsk == (c1 :> {r1}) @@ (c2 :> {r1, r2})
=============================================================================
