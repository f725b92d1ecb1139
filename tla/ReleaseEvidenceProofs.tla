------------------------ MODULE ReleaseEvidenceProofs ------------------------
(***************************************************************************)
(* Theorems about ReleaseEvidence for any obligations, evidence, contracts, *)
(* receipts, waivers and bounds: however the governing world moves, what   *)
(* counts as satisfied is satisfied under the present one, and a release   *)
(* is ready only when its obligations are earned and its waivers approved. *)
(***************************************************************************)
EXTENDS ReleaseEvidence, FiniteSetTheorems, WellFoundedInduction, TLAPS

-----------------------------------------------------------------------------
(* What a verdict says of the checks behind it.                            *)

\* A set of numbers has a least one.
LEMMA LeastNumber ==
    ASSUME NEW N \in SUBSET Nat, N # {}
    PROVE  \E n \in N : \A m \in N : n <= m
<1>1. PICK n \in N : \A m \in N : ~ (<<m, n>> \in OpToRel(<, Nat))
    BY NatLessThanWellFounded, WFMin
<1>2. \A m \in N : ~ (m < n)
    BY <1>1 DEF OpToRel
<1>. QED
    BY <1>2

\* Either every check has passed, or the verdict is that of a check that has not.
LEMMA FirstVerdict ==
    ASSUME NEW checks, NEW v, DOMAIN checks \in SUBSET Nat
    PROVE  \/ FirstFailing(checks, v) = v /\ \A i \in DOMAIN checks : checks[i] = "PASSED"
           \/ \E i \in DOMAIN checks : FirstFailing(checks, v) = checks[i] /\ checks[i] # "PASSED"
<1>. DEFINE failing == {i \in DOMAIN checks : checks[i] # "PASSED"}
<1>1. CASE failing = {}
    BY <1>1 DEF FirstFailing
<1>2. CASE failing # {}
    <2>1. \E i \in failing : \A j \in failing : i <= j
        BY <1>2, LeastNumber
    <2>. DEFINE first == CHOOSE i \in failing : \A j \in failing : i <= j
    <2>2. first \in failing
        BY <2>1
    <2>3. FirstFailing(checks, v) = checks[first]
        BY <1>2 DEF FirstFailing
    <2>. QED
        BY <2>2, <2>3
<1>. QED
    BY <1>1, <1>2

\* A READY release has passed the checks on its draft, its obligations and its assessments.
LEMMA ReadyMeans ==
    ASSUME NEW slip, evaluate_release(slip) = "READY"
    PROVE  /\ draft.current
           /\ \A o \in Scope : ObligationCleared(o)
           /\ \A i \in 1..Len(draft.assessments) : AssessmentBound(draft.assessments[i])
           /\ UNION {AssessedBy(draft.assessments[i]) : i \in 1..Len(draft.assessments)} = NonWaived
<1>. DEFINE checks == ReleaseChecks(slip)
<1>1. DOMAIN checks = 1..10
    BY DEF ReleaseChecks
<1>2. /\ checks[1] # "READY" /\ checks[2] # "READY" /\ checks[3] # "READY" /\ checks[4] # "READY"
      /\ checks[5] # "READY" /\ checks[6] # "READY" /\ checks[7] # "READY" /\ checks[8] # "READY"
      /\ checks[9] # "READY" /\ checks[10] # "READY"
    BY DEF ReleaseChecks, Check
<1>3. \A i \in 1..10 : checks[i] = "PASSED"
    <2>. HIDE DEF checks
    <2>1. \A i \in 1..10 : checks[i] # "READY"
        BY <1>2
    <2>. QED
        BY <1>1, <2>1, FirstVerdict DEF evaluate_release, checks
<1>4. checks[1] = "PASSED" /\ checks[5] = "PASSED" /\ checks[8] = "PASSED" /\ checks[9] = "PASSED"
    BY <1>3
<1>. QED
    BY <1>4 DEF ReleaseChecks, Check

\* A VALID approval is signed, runs at this time and is not the requester's.
LEMMA ApprovalMeans ==
    ASSUME NEW a, NEW i
    PROVE  /\ Approval(a, i) # "PASSED"
           /\ Approval(a, i) = "VALID" =>
                /\ a.records[i].signed /\ clock < a.records[i].expires
                /\ a.records[i].principal # a.requester
<1>. DEFINE checks == ApprovalChecks(a, i)
<1>1. DOMAIN checks = 1..7
    BY DEF ApprovalChecks
<1>2. \A j \in 1..7 : checks[j] # "VALID"
    BY DEF ApprovalChecks, Check
<1>3. Approval(a, i) # "PASSED" /\ (Approval(a, i) = "VALID" => \A j \in 1..7 : checks[j] = "PASSED")
    <2>. HIDE DEF checks
    <2>. QED
        BY <1>1, <1>2, FirstVerdict DEF Approval, checks
<1>4. (\A j \in 1..7 : checks[j] = "PASSED") =>
          checks[1] = "PASSED" /\ checks[3] = "PASSED" /\ checks[6] = "PASSED"
    OBVIOUS
<1>5. checks[1] = "PASSED" /\ checks[3] = "PASSED" /\ checks[6] = "PASSED" =>
          /\ a.records[i].signed /\ clock < a.records[i].expires
          /\ a.records[i].principal # a.requester
    BY DEF ApprovalChecks, Check
<1>. QED
    BY <1>3, <1>4, <1>5

\* A VALID set has a VALID approval in every place and enough persons behind them.
LEMMA ApprovalSetMeans ==
    ASSUME NEW a, Len(a.records) \in Nat, NEW required, validate_approval_set(a, required) = "VALID"
    PROVE  /\ \A i \in 1..Len(a.records) : Approval(a, i) = "VALID"
           /\ Cardinality({Authority(a.records[i].principal) : i \in 1..Len(a.records)}) >= required
<1>. DEFINE n == Len(a.records)
            authorities == {Authority(a.records[i].principal) : i \in 1..n}
            head == Check(a.required = required /\ a.requester # None, "INVALID_SCOPE")
            each(i) == Check(Approval(a, i) = "VALID", Approval(a, i))
            middle == [i \in 1..n |-> each(i)]
            last == Check(Cardinality(authorities) >= required, "INSUFFICIENT")
            checks == <<head>> \o middle \o <<last>>
            S == {head, last} \cup {each(i) : i \in 1..n}
<1>1. head # "VALID" /\ last # "VALID" /\ \A i \in 1..n : each(i) # "VALID"
    BY DEF Check
<1>2. FirstFailing(checks, "VALID") = "VALID"
    BY DEF validate_approval_set, ApprovalSetChecks
<1>3. /\ (last = "PASSED") => Cardinality(authorities) >= required
      /\ \A i \in 1..n : each(i) = "PASSED" => Approval(a, i) = "VALID"
    BY ApprovalMeans DEF Check
<1>. HIDE DEF head, each, last, n
<1>4. n \in Nat
    BY DEF n
<1>5. middle \in Seq(S) /\ Len(middle) = n
    BY <1>4
<1>6. <<head>> \in Seq(S) /\ <<last>> \in Seq(S)
    OBVIOUS
<1>. HIDE DEF S
<1>7. /\ DOMAIN checks = 1..(n + 2)
      /\ checks[1] = head /\ checks[n + 2] = last
      /\ \A i \in 1..n : checks[i + 1] = each(i)
    <2>1. \A i \in 1..n : middle[i] = each(i)
        OBVIOUS
    <2>. HIDE DEF middle
    <2>. QED
        BY <1>4, <1>5, <1>6, <2>1
<1>. HIDE DEF checks
<1>8. \A k \in 1..(n + 2) : checks[k] # "VALID"
    <2>. SUFFICES ASSUME NEW k \in 1..(n + 2) PROVE checks[k] # "VALID"
        OBVIOUS
    <2>1. k = 1 \/ k = n + 2 \/ (k - 1 \in 1..n /\ k = (k - 1) + 1)
        BY <1>4
    <2>. QED
        BY <1>1, <1>7, <2>1
<1>9. \A k \in 1..(n + 2) : checks[k] = "PASSED"
    BY <1>2, <1>4, <1>7, <1>8, FirstVerdict
<1>10. last = "PASSED" /\ \A i \in 1..n : each(i) = "PASSED"
    <2>1. 1 \in 1..(n + 2) /\ n + 2 \in 1..(n + 2) /\ \A i \in 1..n : i + 1 \in 1..(n + 2)
        BY <1>4
    <2>. QED
        BY <1>7, <1>9, <2>1
<1>. QED
    BY <1>3, <1>10 DEF n

-----------------------------------------------------------------------------
(* The inductive invariant.                                                *)

\* An obligation is satisfied by recorded evidence only.
Recorded ==
    /\ evidence = [e \in EvidenceIds |-> evidence[e]]
    /\ status \in [Obligations -> ObligationStatus]
    /\ satisfiedBy \in [Obligations -> EvidenceIds \cup {None}]
    /\ \A o \in Worked : status[o] = "SATISFIED" =>
           satisfiedBy[o] \in EvidenceIds /\ evidence[satisfiedBy[o]] # None

IInv == Recorded /\ SatisfiedIsGoverned

\* At the beginning nothing is satisfied.
LEMMA InitInv == Init => IInv
BY DEF Init, IInv, Recorded, SatisfiedIsGoverned, Obligations, ObligationStatus

\* Nothing an obligation is satisfied by, and nothing that governs it, changes.
Untouched == UNCHANGED <<duties, evidence, snapshot, objective, policy>>

\* Steps that touch neither keep the invariant.
LEMMA UntouchedInv == IInv /\ Untouched => IInv'
BY DEF Untouched, duties, IInv, Recorded, SatisfiedIsGoverned

\* Accepted evidence goes where there was none: no satisfied obligation refers to it yet.
LEMMA EvidenceAcceptedInv ==
    ASSUME IInv, NEW e \in EvidenceIds, NEW o, NEW rs, NEW deps, EvidenceAccepted(e, o, rs, deps)
    PROVE  IInv'
<1>1. /\ evidence[e] = None /\ UNCHANGED <<duties, snapshot, objective, policy>>
      /\ \E c : evidence' = [evidence EXCEPT ![e] = c]
    BY DEF EvidenceAccepted, world
<1>2. \A d \in EvidenceIds : evidence[d] # None => evidence'[d] = evidence[d]
    BY <1>1 DEF IInv, Recorded
<1>3. Recorded'
    BY <1>1, <1>2 DEF IInv, Recorded, duties, EvidenceAccepted
<1>4. SatisfiedIsGoverned'
    BY <1>1, <1>2 DEF IInv, Recorded, SatisfiedIsGoverned, duties
<1>. QED
    BY <1>3, <1>4 DEF IInv

\* An obligation is satisfied by a closure that stands in the present world.
LEMMA ObligationSatisfiedInv ==
    ASSUME IInv, NEW o \in Worked, NEW e \in EvidenceIds, NEW a, ObligationSatisfied(o, e, a)
    PROVE  IInv'
<1>1. /\ evidence[e] # None /\ evidence[e].obligation = o
      /\ evidence[e].snapshot = snapshot /\ evidence[e].objective = objective /\ evidence[e].policy = policy
      /\ status' = [status EXCEPT ![o] = "SATISFIED"] /\ satisfiedBy' = [satisfiedBy EXCEPT ![o] = e]
      /\ UNCHANGED <<evidence, snapshot, objective, policy>>
    BY DEF ObligationSatisfied, ClosureStands, world, record
<1>2. Recorded'
    BY <1>1 DEF IInv, Recorded, Obligations, ObligationStatus
<1>3. SatisfiedIsGoverned'
    BY <1>1 DEF IInv, Recorded, SatisfiedIsGoverned, Obligations
<1>. QED
    BY <1>2, <1>3 DEF IInv

\* A governing revision leaves nothing satisfied, whatever of the world it moves.
LEMMA RevisedInv == IInv /\ Revised => IInv'
<1>1. ASSUME IInv, Revised PROVE \A o \in Obligations : status'[o] = "STALE"
    BY <1>1 DEF Revised, MarkInvalidation
<1>2. ASSUME IInv, Revised PROVE Recorded'
    BY <1>2, <1>1 DEF IInv, Recorded, Revised, MarkInvalidation, record, ObligationStatus, Obligations
<1>3. ASSUME IInv, Revised PROVE SatisfiedIsGoverned'
    BY <1>3, <1>1 DEF SatisfiedIsGoverned, Obligations
<1>. QED
    BY <1>2, <1>3 DEF IInv

\* An invalidation reopens what it names and leaves the rest as it was.
LEMMA EvidenceInvalidatedInv ==
    ASSUME IInv, NEW es, NEW os, EvidenceInvalidated(es, os) PROVE IInv'
<1>1. /\ status' = [o \in Obligations |-> IF o \in os THEN "STALE" ELSE status[o]]
      /\ UNCHANGED <<satisfiedBy, evidence, snapshot, objective, policy>>
    BY DEF EvidenceInvalidated, MarkInvalidation, world, record
<1>2. \A o \in Worked : status'[o] = "SATISFIED" => status[o] = "SATISFIED"
    BY <1>1 DEF Obligations
<1>3. Recorded'
    BY <1>1, <1>2 DEF IInv, Recorded, ObligationStatus
<1>4. SatisfiedIsGoverned'
    BY <1>1, <1>2 DEF IInv, SatisfiedIsGoverned
<1>. QED
    BY <1>3, <1>4 DEF IInv

\* Every step keeps the invariant.
LEMMA NextInv == IInv /\ [Next]_vars => IInv'
<1> SUFFICES ASSUME IInv, [Next]_vars PROVE IInv'
    OBVIOUS
<1>1. CASE Record
    <2>1. ASSUME NEW a, NEW e, NEW accepts, NEW signed, AssessmentCreated(a, e, accepts, signed) PROVE Untouched
        BY <2>1 DEF AssessmentCreated, Untouched, world
    <2>2. ASSUME NEW s, ApprovalRecorded(s) PROVE Untouched
        BY <2>2 DEF ApprovalRecorded, Untouched, world
    <2>. QED
        BY <1>1, <2>1, <2>2, UntouchedInv, EvidenceAcceptedInv, ObligationSatisfiedInv DEF Record
<1>2. CASE Move
    <2>1. ASSUME NEW t, DeltaRecorded(t) PROVE Untouched
        BY <2>1 DEF DeltaRecorded, Untouched, record
    <2>2. ASSUME Tick PROVE Untouched
        BY <2>2 DEF Tick, Untouched, world, record
    <2>3. ASSUME NEW t, RolledBack(t) PROVE IInv'
        BY <2>3, RevisedInv DEF RolledBack
    <2>4. ASSUME ObjectiveRevised PROVE IInv'
        BY <2>4, RevisedInv DEF ObjectiveRevised
    <2>5. ASSUME NEW v, NEW rules, PolicyActivated(v, rules) PROVE IInv'
        BY <2>5, RevisedInv DEF PolicyActivated
    <2>. QED
        BY <1>2, <2>1, <2>2, <2>3, <2>4, <2>5, UntouchedInv, EvidenceInvalidatedInv DEF Move
<1>3. CASE Release
    BY <1>3, UntouchedInv DEF Release, Drafted, ReleaseEvaluated, Untouched, world, record
<1>4. CASE UNCHANGED vars
    BY <1>4, UntouchedInv DEF vars, Untouched, world, record
<1>. QED
    BY <1>1, <1>2, <1>3, <1>4 DEF Next

-----------------------------------------------------------------------------
\* Whatever moves underneath, a satisfied obligation has a closure accepted for it under the
\* present objective, policy and snapshot (_revision_change_invalidations, _mark_invalidation).
THEOREM SatisfiedAlwaysGoverned == Spec => []SatisfiedIsGoverned
<1>1. IInv => SatisfiedIsGoverned
    BY DEF IInv
<1>. QED
    BY <1>1, InitInv, NextInv, PTL DEF Spec

-----------------------------------------------------------------------------
(* What a release that becomes READY stands on.                            *)

\* Contracts are given, worked obligations are never waived and waived ones never worked on, and
\* the approvals are a set that was recorded.
Kinds ==
    /\ contract \in [Worked -> Contracts]
    /\ \A o \in Worked : status[o] # "WAIVED"
    /\ \A o \in Waived : status[o] \in {"WAIVED", "STALE"}
    /\ approvals \in ApprovalSets \cup FirstApprovals

LEMMA KindsInit == Init => Kinds
BY ReleaseEvidenceAssumption DEF Init, Kinds, Obligations

\* The statuses an invalidation leaves keep the kind of their obligation.
LEMMA MarkedKinds ==
    ASSUME Kinds, NEW es, NEW os, MarkInvalidation(es, os), UNCHANGED <<contract, approvals>> PROVE Kinds'
BY DEF Kinds, MarkInvalidation, Obligations

LEMMA KindsNext == IInv /\ Kinds /\ [Next]_vars => Kinds'
<1> SUFFICES ASSUME Recorded, Kinds, [Next]_vars PROVE Kinds'
    BY DEF IInv
<1>1. CASE UNCHANGED <<contract, status, approvals>>
    BY <1>1 DEF Kinds
<1>2. ASSUME NEW o \in Worked, NEW e, NEW a, ObligationSatisfied(o, e, a) PROVE Kinds'
    <2>1. status' = [status EXCEPT ![o] = "SATISFIED"] /\ UNCHANGED <<contract, approvals>>
        BY <1>2 DEF ObligationSatisfied, Event, record
    <2>. QED
        BY <2>1, ReleaseEvidenceAssumption DEF Kinds, Recorded, Obligations
<1>3. ASSUME NEW s \in ApprovalSets, ApprovalRecorded(s) PROVE Kinds'
    BY <1>3 DEF ApprovalRecorded, Event, duties, Kinds
<1>4. ASSUME NEW es, NEW os, EvidenceInvalidated(es, os) PROVE Kinds'
    BY <1>4, MarkedKinds DEF EvidenceInvalidated, Event, record
<1>5. ASSUME \/ ObjectiveRevised \/ \E v \in 0..MaxPolicy, rules \in WaiverRules : PolicyActivated(v, rules)
             \/ \E t \in Targets : RolledBack(t) PROVE Kinds'
    BY <1>5, MarkedKinds DEF ObjectiveRevised, PolicyActivated, RolledBack, Revised, Event, record
<1>. QED
    BY <1>1, <1>2, <1>3, <1>4, <1>5
       DEF Next, Record, Move, Release, EvidenceAccepted, AssessmentCreated, DeltaRecorded, Tick,
           Drafted, ReleaseEvaluated, Event, duties, record, vars

\* What the invariants say of the state a release is judged in.
Judged == Recorded /\ Kinds

\* Only an evaluation makes a release READY.
LEMMA BecomesReadyMeans ==
    ASSUME [Next]_vars, BecomesReady PROVE \E slip : evaluate_release(slip) = "READY"
<1>1. verdict' # verdict => \E slip : verdict' = evaluate_release(slip)
    BY DEF Next, Record, Move, Release, EvidenceAccepted, AssessmentCreated, ObligationSatisfied,
           ApprovalRecorded, EvidenceInvalidated, ObjectiveRevised, PolicyActivated, RolledBack,
           DeltaRecorded, Tick, Drafted, ReleaseEvaluated, Event, vars
<1>. QED
    BY <1>1 DEF BecomesReady

\* A composed contract has its mandatory rows and as many of the alternatives as it asks for.
LEMMA ComposedMeans ==
    ASSUME NEW k \in Contracts, NEW receipts, Composed(k, receipts)
    PROVE  LET met == {row \in Rows : Cardinality({r \in receipts : Counts(r, row)}) >= k.min}
           IN k.mandatory \subseteq met /\ Cardinality(met \ k.mandatory) >= Alternatives(k)
<1>. DEFINE met == {row \in Rows : Cardinality({r \in receipts : Counts(r, row)}) >= k.min}
<1>1. /\ k.mandatory \subseteq met
      /\ k.mode = "ALL_OF" => met = Rows
      /\ k.mode = "ANY_OF" => met \ k.mandatory # {}
      /\ k.mode = "K_OF_N" => Cardinality(met \ k.mandatory) >= k.k
      /\ k.mode \in {"ALL_OF", "ANY_OF", "K_OF_N"}
    BY ReleaseEvidenceAssumption DEF Composed
<1>2. IsFiniteSet(met \ k.mandatory)
    <2>1. met \ k.mandatory \in SUBSET Rows
        OBVIOUS
    <2>. QED
        BY <2>1, FS_Subset, ReleaseEvidenceAssumption
<1>3. Cardinality(met \ k.mandatory) \in Nat /\ (met \ k.mandatory # {} => Cardinality(met \ k.mandatory) >= 1)
    <2>. HIDE DEF met
    <2>1. Cardinality(met \ k.mandatory) \in Nat
        BY <1>2, FS_CardinalityType
    <2>2. met \ k.mandatory # {} => Cardinality(met \ k.mandatory) # 0
        BY <1>2, FS_EmptySet
    <2>. QED
        BY <2>1, <2>2
<1>. HIDE DEF met
<1>4. Cardinality(met \ k.mandatory) >= Alternatives(k)
    BY <1>1, <1>3 DEF Alternatives
<1>. QED
    BY <1>1, <1>4 DEF met

\* A release is READY only when every worked obligation is earned in this very state: fresh evidence
\* for its target, the rows its contract asks for, and a signed assessment that accepts it.
THEOREM ReadyAlwaysEarned == Spec => ReadyIsEarned
<1>. DEFINE Earned(o) ==
        LET c == evidence[satisfiedBy[o]] IN
        /\ c.target = target /\ c.policy = policy /\ c.objective = objective /\ draft.current
        /\ contract[o].mandatory \subseteq RowsMet(o)
        /\ Cardinality(RowsMet(o) \ contract[o].mandatory) >= Alternatives(contract[o])
        /\ \E i \in 1..Len(draft.assessments) :
               LET a == assessment[draft.assessments[i]]
               IN a.evidence = satisfiedBy[o] /\ a.accepts /\ a.signed /\ a.target = target
<1>1. ASSUME Judged, [Next]_vars, BecomesReady, NEW o \in Worked PROVE Earned(o)
    <2>1. PICK slip : evaluate_release(slip) = "READY"
        BY <1>1, BecomesReadyMeans
    <2>2. o \in NonWaived /\ o \in Scope
        BY <1>1 DEF Judged, Kinds, Recorded, NonWaived, Scope, Obligations, ObligationStatus
    <2>3. ObligationCleared(o) /\ status[o] # "WAIVED"
        BY <1>1, <2>1, <2>2, ReadyMeans DEF Judged, Kinds
    <2>. DEFINE c == evidence[satisfiedBy[o]]
    <2>4. is_fresh(c, {}) /\ Composed(contract[o], c.receipts)
        BY <2>3 DEF ObligationCleared
    <2>5. c.target = target /\ c.policy = policy /\ c.objective = objective
        <3>1. Holds(c, "TARGET_SNAPSHOT") /\ Holds(c, "POLICY") /\ Holds(c, "OBJECTIVE_REVISION")
            BY <2>4 DEF is_fresh, FRESHNESS_FLOOR
        <3>. QED
            BY <3>1 DEF Holds
    <2>6. /\ contract[o].mandatory \subseteq RowsMet(o)
          /\ Cardinality(RowsMet(o) \ contract[o].mandatory) >= Alternatives(contract[o])
        <3>1. contract[o] \in Contracts
            BY <1>1 DEF Judged, Kinds
        <3>2. RowsMet(o) = {row \in Rows : Cardinality({r \in c.receipts : Counts(r, row)}) >= contract[o].min}
            BY DEF RowsMet, Counts
        <3>. QED
            BY <2>4, <3>1, <3>2, ComposedMeans
    <2>7. \E i \in 1..Len(draft.assessments) :
              LET a == assessment[draft.assessments[i]]
              IN a.evidence = satisfiedBy[o] /\ a.accepts /\ a.signed /\ a.target = target
        <3>1. PICK i \in 1..Len(draft.assessments) : o \in AssessedBy(draft.assessments[i])
            BY <2>1, <2>2, ReadyMeans
        <3>2. AssessmentBound(draft.assessments[i])
            BY <2>1, ReadyMeans
        <3>3. satisfiedBy[o] = assessment[draft.assessments[i]].evidence
            BY <3>1 DEF AssessedBy
        <3>. QED
            BY <3>2, <3>3 DEF AssessmentBound, AssessmentStands
    <2>8. draft.current
        BY <2>1, ReadyMeans
    <2>. QED
        BY <2>5, <2>6, <2>7, <2>8
<1>2. IInv /\ Kinds /\ [Next]_vars => [BecomesReady => \A o \in Worked : Earned(o)]_vars
    BY <1>1 DEF Judged, IInv
<1>. QED
    BY <1>2, InitInv, NextInv, KindsInit, KindsNext, PTL DEF Spec, ReadyIsEarned

\* A release is READY with a waived obligation only under a policy that takes waivers, while one runs
\* whose approver the policy names; and, where the policy asks for signatures, a quorum of different
\* persons approves it, none of them the requester by name (validate_waiver, validate_approval_set).
THEOREM WaiverAlwaysHasQuorum == Spec => WaiverHasQuorum
<1>. DEFINE valid == {i \in 1..Len(approvals.records) :
                          /\ approvals.records[i].signed /\ clock < approvals.records[i].expires
                          /\ approvals.records[i].principal # approvals.requester}
            Running(o) ==
                \E w \in draft.waivers :
                    /\ w.obligation = o /\ w.issued <= clock /\ clock < w.expires /\ w.risk # "CRITICAL"
                    /\ AuthorityOf[w.approver] \in Approvers /\ (waiverRules.sign => w.signed)
            Quorate == Cardinality({AuthorityOf[approvals.records[i].principal] : i \in valid}) >= Quorum
            Covered(o) == /\ waiverRules.allow
                          /\ Running(o)
                          /\ waiverRules.sign => Quorate
<1>1. ASSUME Judged, [Next]_vars, BecomesReady, NEW o \in Waived PROVE Covered(o)
    <2>1. PICK slip : evaluate_release(slip) = "READY"
        BY <1>1, BecomesReadyMeans
    <2>2. o \in Scope /\ status[o] # "SATISFIED"
        BY <1>1 DEF Judged, Kinds, Scope, Obligations
    <2>3. status[o] = "WAIVED" /\ Cardinality(WaiversFor(o)) = 1 /\ \A w \in WaiversFor(o) : validate_waiver(w)
        BY <2>1, <2>2, ReadyMeans DEF ObligationCleared
    <2>4. PICK w \in WaiversFor(o) : validate_waiver(w)
        <3>1. WaiversFor(o) # {}
            BY <2>3, FS_EmptySet
        <3>. QED
            BY <2>3, <3>1
    <2>5. waiverRules.allow /\ Running(o)
        BY <2>4 DEF WaiversFor, validate_waiver, Authority
    <2>6. ASSUME waiverRules.sign PROVE Quorate
        <3>1. validate_approval_set(approvals, Quorum) = "VALID"
            BY <2>4, <2>6 DEF validate_waiver
        <3>2. Len(approvals.records) \in Nat
            BY <1>1, ReleaseEvidenceAssumption DEF Judged, Kinds
        <3>3. /\ \A i \in 1..Len(approvals.records) : Approval(approvals, i) = "VALID"
              /\ Cardinality({Authority(approvals.records[i].principal) : i \in 1..Len(approvals.records)}) >= Quorum
            BY <3>1, <3>2, ApprovalSetMeans
        <3>4. valid = 1..Len(approvals.records)
            BY <3>3, ApprovalMeans
        <3>5. {AuthorityOf[approvals.records[i].principal] : i \in valid}
                  = {Authority(approvals.records[i].principal) : i \in 1..Len(approvals.records)}
            BY <3>4 DEF Authority
        <3>. QED
            BY <3>3, <3>5
    <2>. QED
        BY <2>5, <2>6
<1>2. IInv /\ Kinds /\ [Next]_vars => [BecomesReady => \A o \in Waived : Covered(o)]_vars
    BY <1>1 DEF Judged, IInv
<1>. QED
    BY <1>2, InitInv, NextInv, KindsInit, KindsNext, PTL DEF Spec, WaiverHasQuorum
=============================================================================
