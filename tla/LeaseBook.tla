------------------------------- MODULE LeaseBook -------------------------------
(***************************************************************************)
(* What the reducer promises about execution leases, without nodes,        *)
(* budgets or decisions: a lease is handed out once, under the active      *)
(* policy version, with a token above all its node ever had; its terms     *)
(* never change; it ends for good; and none outlives the version it was    *)
(* given under, though versions may come back.                             *)
(***************************************************************************)
EXTENDS Integers

CONSTANTS Nodes, LeaseIds, Versions, MaxToken, NoLease

VARIABLES
    book,   \* per id: the lease handed out under it, or NoLease
    policy  \* the version of the active policy

vars == <<book, policy>>

Init == book = [l \in LeaseIds |-> NoLease] /\ policy \in Versions

Given == {l \in LeaseIds : book[l] # NoLease}

End(ended) == [l \in LeaseIds |-> IF l \in ended THEN [book[l] EXCEPT !.standing = "ENDED"] ELSE book[l]]

HandOut(l, n, token) ==
    /\ l \notin Given
    /\ \A k \in Given : book[k].node = n => book[k].token < token
    /\ book' = [book EXCEPT ![l] = [node |-> n, token |-> token, policy |-> policy, standing |-> "LIVE"]]
    /\ UNCHANGED policy

TakeBack(ended) ==
    /\ book' = End(ended)
    /\ UNCHANGED policy

\* A policy of another version ends every lease there is: the live ones were given under the present.
\* One of the same version ends none.
Activate(v) ==
    /\ policy' = v
    /\ book' = IF v = policy THEN book ELSE End(Given)

Next ==
    \/ \E l \in LeaseIds, n \in Nodes, token \in 1..MaxToken : HandOut(l, n, token)
    \/ \E ended \in SUBSET Given : TakeBack(ended)
    \/ \E v \in Versions : Activate(v)

Spec == Init /\ [][Next]_vars
=============================================================================
