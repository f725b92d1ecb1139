------------------------- MODULE MCReleaseEvidence -------------------------
EXTENDS ReleaseEvidence, TLC

CONSTANTS o1, o2, e1, e2, a1, a2, t1, t2, k1, k2, ann, ann2, bob, eve

Receipt(row, t, q) == [row |-> row, target |-> t, quality |-> q]

\* Complete, partial, mixed and unusable sets of receipts.
MCReceiptSets ==
    {{Receipt(k1, t1, "GOOD"), Receipt(k2, t1, "GOOD")},
     {Receipt(k1, t1, "GOOD"), Receipt(k1, t2, "GOOD")},
     {Receipt(k1, t1, "GOOD"), Receipt(k2, t1, "WEAK")},
     {Receipt(k2, t1, "GOOD"), Receipt(k1, t1, "FAILED")}}

Contract(mandatory, mode, k, min) == [mandatory |-> mandatory, mode |-> mode, k |-> k, min |-> min]
MCContracts ==
    {Contract({k1}, "ALL_OF", 0, 1), Contract({k1}, "ANY_OF", 1, 1), Contract({}, "K_OF_N", 1, 1)}

MCWaivers ==
    {[obligation |-> o2, policy |-> 0, objective |-> 0, issued |-> 0, expires |-> 1,
      approver |-> ann, signed |-> TRUE, risk |-> "LOW"]}

Says(p, expires) == [principal |-> p, role |-> "lead", signed |-> TRUE, inScope |-> TRUE,
                     issued |-> 0, expires |-> expires]
Set(t, rs) == [required |-> 2, requester |-> eve, policy |-> 0, target |-> t, records |-> rs]
MCApprovalSets ==
    {Set(t1, <<Says(ann, 2), Says(ann2, 2)>>), Set(t1, <<Says(bob, 2), Says(eve, 2)>>), Set(t1, <<Says(ann, 2)>>)}

\* Waivers with signatures, without, and not at all; the last two with one contract.
MCWaiverRules == [allow : {TRUE}, sign : BOOLEAN] \cup [allow : {FALSE}, sign : {TRUE}]
MCInit ==
    /\ Init
    /\ waiverRules # [allow |-> TRUE, sign |-> TRUE] => contract[o1] = Contract({k1}, "ALL_OF", 0, 1)
MCSpec == MCInit /\ [][Next]_vars

MCInvalidations == {<<{e1}, {}>>, <<{}, {o1}>>, <<{}, {o2}>>}
MCAssessmentLists == {<<a1>>, <<a2>>, <<a1, a2>>, <<a2, a1>>}
MCSymmetry == Permutations({a1, a2})
MCFirstApprovals == {Set(t, <<Says(ann, 2), Says(bob, 1)>>) : t \in {t1, t2}}
MCDirectory == [p \in {ann, ann2, bob, eve} |-> "lead"]
MCAuthorityOf == (ann :> ann) @@ (ann2 :> ann) @@ (bob :> bob) @@ (eve :> eve)
=============================================================================
