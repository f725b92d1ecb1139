--------------------------- MODULE ReleaseEvidence ---------------------------
(***************************************************************************)
(* What a release stands on: evidence closures, assessments, waivers and   *)
(* their approval sets, as the reducer records them, obligations as the    *)
(* reducer closes and reopens them, and evaluate_release over the state.   *)
(* The governing world (target, workspace snapshot, objective, policy)     *)
(* moves underneath, time passes, and a release is drafted from one state  *)
(* and judged in a later one.                                              *)
(*                                                                         *)
(* No event takes an obligation to IN_PROGRESS or WAIVED and no event      *)
(* writes the profiles, principals and provenance the evaluator reads, so  *)
(* a behaviour starts from a state that holds them, as the conformance     *)
(* tests build it.  The environment and the dependencies of a receipt are  *)
(* those of its target; contract and plan keep their first revision.       *)
(***************************************************************************)
EXTENDS Integers, Sequences, FiniteSets

CONSTANTS
    Worked, Waived,   \* obligations in progress, and obligations a waiver covers
    EvidenceIds, AssessmentIds,
    AssessmentLists,  \* lists of assessments a release may name
    DependencySets,   \* how a closure says what it depends on: WHOLE, LISTED or LOOSE
    Targets, FirstTarget, \* target snapshots, and the one at the beginning
    Rows,             \* the rows of an acceptance contract
    Contracts,        \* contracts: [mandatory, mode, k, min, dims]
    ReceiptSets,      \* sets of receipts a closure may be made of: [row, target, quality]
    Waivers,          \* waivers on record
    ApprovalSets, FirstApprovals, \* approval sets that may be recorded for them, or are at first
    Directory,        \* per principal: its role
    AuthorityOf,      \* per principal: the person behind it
    Approvers,        \* persons who may approve waivers
    Quorum,           \* approval quorum for waivers
    WaiverRules,      \* what a policy may say of waivers: [allow, sign], whether it takes any and
                      \* whether it asks for signature and approvals
    MaxWaiverTtl, MaxClock,
    Invalidations,    \* pairs of evidence ids and obligations an invalidation may name
    MaxEvents, MaxRevisions, \* bounds: events of a behaviour, governing revisions among them
    MaxPolicy,        \* bound: policy versions are 0..MaxPolicy
    None

ObligationStatus == {"IN_PROGRESS", "SATISFIED", "WAIVED", "STALE"}
FRESHNESS_FLOOR == {"TARGET_SNAPSHOT", "OBJECTIVE_REVISION", "POLICY", "DEPENDENT_ARTIFACTS"}
Slips == {"NONE", "SCOPE", "ENVIRONMENT", "PROVENANCE", "POLICY"}
Obligations == Worked \cup Waived

ASSUME ReleaseEvidenceAssumption ==
    /\ Worked \cap Waived = {} /\ Quorum \in Nat \ {0} /\ MaxEvents \in Nat /\ FirstTarget \in Targets
    /\ Invalidations \subseteq (SUBSET EvidenceIds) \X (SUBSET Obligations)
    /\ WaiverRules \subseteq [allow : BOOLEAN, sign : BOOLEAN]
    /\ None \notin EvidenceIds \cup AssessmentIds \cup Targets
    /\ IsFiniteSet(Rows) /\ \A k \in Contracts : k.mode \in {"ALL_OF", "ANY_OF", "K_OF_N"}
    /\ \A a \in ApprovalSets \cup FirstApprovals : Len(a.records) \in Nat /\ DOMAIN a.records = 1..Len(a.records)

VARIABLES
    target, snapshot, objective, policy, \* the governing world, the policy by its version
    waiverRules, \* what the active policy says of waivers
    clock,
    contract,    \* per worked obligation: its acceptance contract
    status, satisfiedBy,
    evidence,    \* per evidence id: its closure, or None
    assessment,  \* per assessment id: what it says, or None
    approvals,   \* the approval set the waivers refer to
    invalidated, \* evidence ids named by a recorded invalidation
    draft,       \* the release under construction, or None
    verdict,     \* what the evaluation came to, or None
    events, revisions \* events so far, and governing revisions among them

world  == <<target, snapshot, objective, policy, waiverRules>>
record == <<evidence, assessment, approvals>>
duties == <<status, satisfiedBy>>
vars == <<world, clock, contract, duties, record, invalidated, draft, verdict, events, revisions>>

Init ==
    /\ target = FirstTarget /\ snapshot = 0 /\ objective = 0 /\ policy = 0 /\ clock = 0
    /\ waiverRules \in WaiverRules
    /\ contract \in [Worked -> Contracts]
    /\ status = [o \in Obligations |-> IF o \in Worked THEN "IN_PROGRESS" ELSE "WAIVED"]
    /\ satisfiedBy = [o \in Obligations |-> None]
    /\ evidence = [e \in EvidenceIds |-> None] /\ assessment = [a \in AssessmentIds |-> None]
    /\ approvals \in FirstApprovals /\ invalidated = {} /\ draft = None /\ verdict = None
    /\ events = 0 /\ revisions = 0

-----------------------------------------------------------------------------
(* Approval sets.                                                          *)

\* A check comes to PASSED, or to the verdict of its failure.
Check(ok, v) == IF ok THEN "PASSED" ELSE v

\* The verdict of the first check that fails.
FirstFailing(checks, otherwise) ==
    LET failing == {i \in DOMAIN checks : checks[i] # "PASSED"}
    IN IF failing = {} THEN otherwise
       ELSE checks[CHOOSE i \in failing : \A j \in failing : i <= j]

\* A bug to be caught: each principal is counted, whoever stands behind it.
AuthorityByName(p) == p

Authority(p) == AuthorityOf[p]

\* One approval, given those before it in the set.
ApprovalChecks(a, i) ==
    LET r == a.records[i]
        before == {a.records[j].principal : j \in 1..(i - 1)}
    IN <<Check(r.signed, "INVALID_SIGNATURE"),
         Check(r.inScope, "INVALID_SCOPE"),
         Check(r.issued <= clock /\ clock < r.expires, "EXPIRED"),
         Check(Directory[r.principal] = r.role, "INVALID_SCOPE"),
         Check(r.principal \notin before, "DUPLICATE_PRINCIPAL"),
         Check(r.principal # a.requester, "INVALID_SCOPE"),
         Check(\A p \in before : Authority(p) # Authority(r.principal), "DUPLICATE_PRINCIPAL")>>

Approval(a, i) == FirstFailing(ApprovalChecks(a, i), "VALID")

ApprovalSetChecks(a, required) ==
    LET authorities == {Authority(a.records[i].principal) : i \in 1..Len(a.records)}
    IN <<Check(a.required = required /\ a.requester # None, "INVALID_SCOPE")>>
       \o [i \in 1..Len(a.records) |-> Check(Approval(a, i) = "VALID", Approval(a, i))]
       \o <<Check(Cardinality(authorities) >= required, "INSUFFICIENT")>>

validate_approval_set(a, required) ==
    IF required < 1 THEN "INSUFFICIENT" ELSE FirstFailing(ApprovalSetChecks(a, required), "VALID")

\* A waiver of the current objective and policy, in its time, by an approver the policy names, where
\* the policy takes waivers; signed and with its quorum if the policy asks for signatures; never
\* for a critical obligation.
validate_waiver(w) ==
    /\ w.policy = policy /\ w.objective = objective
    /\ w.issued <= clock /\ clock < w.expires /\ w.expires - w.issued <= MaxWaiverTtl
    /\ Authority(w.approver) \in Approvers
    /\ waiverRules.allow
    /\ waiverRules.sign =>
           /\ w.signed /\ approvals.policy = policy /\ approvals.target = target
           /\ validate_approval_set(approvals, Quorum) = "VALID"
    /\ w.risk # "CRITICAL"

-----------------------------------------------------------------------------
(* Freshness and composition of evidence.                                  *)

\* One dimension of is_fresh; a dependency set that names nothing and is not bound to a whole
\* snapshot leaves the question open, which counts as not fresh.
Holds(c, dim) ==
    CASE dim = "TARGET_SNAPSHOT" -> c.target = target
      [] dim = "WORKSPACE_SNAPSHOT" -> c.snapshot = snapshot
      [] dim = "EVENT_HEAD" -> c.id \notin invalidated
      [] dim = "OBJECTIVE_REVISION" -> c.objective = objective
      [] dim = "POLICY" -> c.policy = policy
      [] dim = "DEPENDENT_ARTIFACTS" -> c.deps = "WHOLE" \/ (c.deps = "LISTED" /\ c.target = target)

\* The dimensions asked for, and the floor in any case.
is_fresh(c, dims) == \A dim \in dims \cup FRESHNESS_FLOOR : Holds(c, dim)

\* A bug to be caught: a receipt for another target counts.
CountsAnyTarget(r, row) == r.row = row /\ r.quality = "GOOD"

\* A receipt counts for a row when it passes, is signed by an admissible verifier and was made
\* for the current target and its dependencies.
Counts(r, row) == r.row = row /\ r.quality = "GOOD" /\ r.target = target

\* evaluate_evidence_composition: mandatory rows always; then all rows, or enough alternatives.
Composed(k, receipts) ==
    LET met == {row \in Rows : Cardinality({r \in receipts : Counts(r, row)}) >= k.min}
    IN /\ k.mandatory \subseteq met
       /\ CASE k.mode = "ALL_OF" -> met = Rows
            [] k.mode = "ANY_OF" -> met \ k.mandatory # {}
            [] k.mode = "K_OF_N" -> Cardinality(met \ k.mandatory) >= k.k

\* What EVIDENCE_ACCEPTED asks of a closure, and OBLIGATION_SATISFIED again: made for the present
\* world, every receipt a signed PASS over its own dependencies, and the contract composed.
ClosureStands(c) ==
    /\ c.target = target /\ c.snapshot = snapshot /\ c.objective = objective /\ c.policy = policy
    /\ \A r \in c.receipts : r.quality \in {"GOOD", "WEAK", "OTHER_DEPS"}
    /\ Composed(contract[c.obligation], c.receipts) /\ is_fresh(c, {})

\* The assessment accepts this evidence in the present world, and its signature is on record.
AssessmentStands(a, e) ==
    /\ assessment[a].evidence = e /\ assessment[a].accepts /\ assessment[a].signed
    /\ assessment[a].target = target /\ assessment[a].snapshot = snapshot /\ assessment[a].policy = policy

-----------------------------------------------------------------------------
(* What the reducer records.                                               *)

\* An event: the state a draft was made from is no longer the current one.  A behaviour is followed
\* up to its first evaluation.
Event ==
    /\ events < MaxEvents /\ events' = events + 1 /\ verdict = None
    /\ draft' = IF draft = None THEN None ELSE [draft EXCEPT !.current = FALSE]
    /\ UNCHANGED <<clock, contract, verdict>>

EvidenceAccepted(e, o, rs, deps) ==
    LET c == [id |-> e, obligation |-> o, receipts |-> rs, deps |-> deps,
              target |-> target, snapshot |-> snapshot, objective |-> objective, policy |-> policy]
    IN /\ Event /\ evidence[e] = None /\ ClosureStands(c)
       /\ evidence' = [evidence EXCEPT ![e] = c]
       /\ UNCHANGED <<world, revisions, duties, assessment, approvals, invalidated>>

AssessmentCreated(a, e, accepts, signed) ==
    /\ Event /\ assessment[a] = None /\ evidence[e] # None
    /\ assessment' = [assessment EXCEPT ![a] = [evidence |-> e, accepts |-> accepts, signed |-> signed,
                          target |-> target, snapshot |-> snapshot, policy |-> policy]]
    /\ UNCHANGED <<world, revisions, duties, evidence, approvals, invalidated>>

ObligationSatisfied(o, e, a) ==
    /\ Event /\ status[o] \in {"IN_PROGRESS", "SATISFIED"} /\ satisfiedBy[o] \in {None, e}
    /\ evidence[e] # None /\ assessment[a] # None
    /\ evidence[e].obligation = o /\ ClosureStands(evidence[e]) /\ AssessmentStands(a, e)
    /\ status' = [status EXCEPT ![o] = "SATISFIED"] /\ satisfiedBy' = [satisfiedBy EXCEPT ![o] = e]
    /\ UNCHANGED <<world, revisions, record, invalidated>>

\* APPROVAL_RECORDED replaces the approval set by the one it carries, unjudged.
ApprovalRecorded(s) ==
    /\ Event /\ approvals' = s
    /\ UNCHANGED <<world, revisions, duties, evidence, assessment, invalidated>>

\* A bug to be caught: the evidence is marked, the obligations stay as they are.
MarkedOnly(es, os) == invalidated' = invalidated \cup es /\ UNCHANGED status

\* _mark_invalidation: evidence is marked, obligations that have a way to STALE take it.
MarkInvalidation(es, os) ==
    /\ invalidated' = invalidated \cup es
    /\ status' = [o \in Obligations |-> IF o \in os THEN "STALE" ELSE status[o]]

\* A governing revision concerns every obligation and the evidence that satisfied it.
Revised ==
    /\ revisions < MaxRevisions /\ revisions' = revisions + 1
    /\ MarkInvalidation({satisfiedBy[o] : o \in Obligations} \ {None}, Obligations)
    /\ UNCHANGED <<satisfiedBy, record>>

\* The caller says what is invalid: obligations are not derived from evidence, nor evidence from them.
EvidenceInvalidated(es, os) ==
    /\ Event /\ MarkInvalidation(es, os)
    /\ UNCHANGED <<world, revisions, satisfiedBy, record>>

ObjectiveRevised ==
    /\ Event /\ Revised /\ objective' = objective + 1
    /\ UNCHANGED <<target, snapshot, policy, waiverRules>>

\* Any version may be activated, the one in force as well, with other rules.
PolicyActivated(v, rules) ==
    /\ Event /\ Revised
    /\ policy' = v /\ waiverRules' = rules
    /\ UNCHANGED <<target, snapshot, objective>>

RolledBack(t) ==
    /\ Event /\ Revised
    /\ target' = t /\ snapshot' = snapshot + 1
    /\ UNCHANGED <<objective, policy, waiverRules>>

\* VERIFIED_WORKSPACE_DELTA_RECORDED with a snapshot moves the target and reopens nothing.
DeltaRecorded(t) ==
    /\ Event /\ t # target /\ target' = t
    /\ UNCHANGED <<snapshot, objective, policy, waiverRules, revisions, duties, record, invalidated>>

Tick ==
    /\ clock < MaxClock /\ clock' = clock + 1 /\ verdict = None
    /\ UNCHANGED <<world, contract, duties, record, invalidated, draft, verdict, events, revisions>>

-----------------------------------------------------------------------------
(* evaluate_release.                                                       *)

\* A release drafted from the present state.
Drafted(ws, as) ==
    /\ draft = None /\ verdict = None
    /\ draft' = [waivers |-> ws, assessments |-> as, current |-> TRUE]
    /\ UNCHANGED <<world, clock, contract, duties, record, invalidated, verdict, events, revisions>>

\* The obligations that are neither cancelled nor superseded.
Scope == {o \in Obligations : status[o] \notin {"CANCELLED", "SUPERSEDED"}}
NonWaived == {o \in Scope : status[o] # "WAIVED"}

\* The waivers of the draft for an obligation.
WaiversFor(o) == {w \in draft.waivers : w.obligation = o}

ObligationCleared(o) ==
    IF status[o] = "WAIVED"
    THEN waiverRules.allow /\ Cardinality(WaiversFor(o)) = 1 /\ (\A w \in WaiversFor(o) : validate_waiver(w))
    ELSE /\ status[o] = "SATISFIED" /\ satisfiedBy[o] # None
         /\ LET c == evidence[satisfiedBy[o]]
            IN is_fresh(c, {}) /\ Composed(contract[o], c.receipts)

\* The nonwaived obligations an assessment is about.
AssessedBy(a) == {o \in NonWaived : assessment[a] # None /\ satisfiedBy[o] = assessment[a].evidence}

AssessmentBound(a) ==
    /\ Cardinality(AssessedBy(a)) = 1
    /\ AssessmentStands(a, assessment[a].evidence)

\* The checks in their order; slip is what its author got wrong beside waivers and assessments.
ReleaseChecks(slip) ==
    LET as == draft.assessments
        once == \A i, j \in 1..Len(as) : as[i] = as[j] => i = j
    IN <<Check(draft.current, "NOT_EVALUABLE"),
         Check(slip # "POLICY", "NOT_EVALUABLE"),
         Check(slip # "ENVIRONMENT", "BLOCKED"),
         Check(slip # "SCOPE", "NOT_EVALUABLE"),
         Check(\A o \in Scope : ObligationCleared(o), "BLOCKED"),
         Check(\A w \in draft.waivers : status[w.obligation] = "WAIVED", "NOT_EVALUABLE"),
         Check(once /\ (\A i \in 1..Len(as) : assessment[as[i]] # None), "NOT_EVALUABLE"),
         Check(\A i \in 1..Len(as) : AssessmentBound(as[i]), "BLOCKED"),
         Check(/\ Cardinality(UNION {AssessedBy(as[i]) : i \in 1..Len(as)}) = Len(as)
               /\ UNION {AssessedBy(as[i]) : i \in 1..Len(as)} = NonWaived, "NOT_EVALUABLE"),
         Check(slip # "PROVENANCE", "NOT_EVALUABLE")>>

evaluate_release(slip) == FirstFailing(ReleaseChecks(slip), "READY")

\* RELEASE_EVALUATED: the reducer derives the evaluation anew from the state it applies to.
ReleaseEvaluated(slip) ==
    /\ draft # None /\ verdict' = evaluate_release(slip)
    /\ draft' = None
    /\ UNCHANGED <<world, clock, contract, duties, record, invalidated, events, revisions>>

-----------------------------------------------------------------------------
Record ==
    \/ \E e \in EvidenceIds, o \in Worked, rs \in ReceiptSets, deps \in DependencySets :
           EvidenceAccepted(e, o, rs, deps)
    \/ \E a \in AssessmentIds, e \in EvidenceIds, accepts, signed \in BOOLEAN :
           (accepts \/ signed) /\ AssessmentCreated(a, e, accepts, signed)
    \/ \E o \in Worked, e \in EvidenceIds, a \in AssessmentIds : ObligationSatisfied(o, e, a)
    \/ \E s \in ApprovalSets : ApprovalRecorded(s)

Move ==
    \/ \E i \in Invalidations : EvidenceInvalidated(i[1], i[2])
    \/ ObjectiveRevised
    \/ \E v \in 0..MaxPolicy, rules \in WaiverRules : PolicyActivated(v, rules)
    \/ \E t \in Targets : RolledBack(t) \/ DeltaRecorded(t)
    \/ Tick

Release ==
    \/ \E ws \in SUBSET Waivers, as \in AssessmentLists : Drafted(ws, as)
    \/ \E slip \in Slips : ReleaseEvaluated(slip)

Next == Record \/ Move \/ Release
Spec == Init /\ [][Next]_vars

-----------------------------------------------------------------------------
\* Whatever the world did since, an obligation that counts as satisfied has a closure accepted for
\* it under the present objective, policy and workspace snapshot: governing revisions reopen it.
SatisfiedIsGoverned ==
    \A o \in Worked : status[o] = "SATISFIED" =>
        /\ evidence[satisfiedBy[o]].obligation = o
        /\ evidence[satisfiedBy[o]].objective = objective /\ evidence[satisfiedBy[o]].policy = policy
        /\ evidence[satisfiedBy[o]].snapshot = snapshot

BecomesReady == verdict' # verdict /\ verdict' = "READY"

\* The rows of a contract met by good receipts for the present target alone.
RowsMet(o) ==
    {row \in Rows : Cardinality({r \in evidence[satisfiedBy[o]].receipts :
                       r.row = row /\ r.quality = "GOOD" /\ r.target = target}) >= contract[o].min}

\* How many of the rows that are not mandatory a contract asks for.
Alternatives(k) ==
    CASE k.mode = "ALL_OF" -> Cardinality(Rows \ k.mandatory)
      [] k.mode = "ANY_OF" -> 1
      [] k.mode = "K_OF_N" -> k.k

\* A release is ready only when every worked obligation has a closure made for the target, policy
\* and objective of this very state, with the mandatory rows and enough of the alternatives met,
\* and a signed assessment that accepts it and was made for this target: no combination of late
\* assessments, moved targets and drafts from another state gets past the evaluator.
ReadyIsEarned ==
    [][BecomesReady => \A o \in Worked :
        LET c == evidence[satisfiedBy[o]] IN
        /\ c.target = target /\ c.policy = policy /\ c.objective = objective /\ draft.current
        /\ contract[o].mandatory \subseteq RowsMet(o)
        /\ Cardinality(RowsMet(o) \ contract[o].mandatory) >= Alternatives(contract[o])
        /\ \E i \in 1..Len(draft.assessments) :
               LET a == assessment[draft.assessments[i]]
               IN a.evidence = satisfiedBy[o] /\ a.accepts /\ a.signed /\ a.target = target]_vars

\* A release is ready with a waived obligation only under a policy that takes waivers, and while one
\* runs whose approver the policy names; and, under a policy that asks for signatures, a quorum of
\* different persons, none of them the requester by name, approves it at that time.  Under any
\* other policy the named approver is all there is.
WaiverHasQuorum ==
    [][BecomesReady => \A o \in Waived :
        /\ waiverRules.allow
        /\ \E w \in draft.waivers :
            /\ w.obligation = o /\ w.issued <= clock /\ clock < w.expires /\ w.risk # "CRITICAL"
            /\ AuthorityOf[w.approver] \in Approvers /\ (waiverRules.sign => w.signed)
        /\ waiverRules.sign =>
            LET valid == {i \in 1..Len(approvals.records) :
                              /\ approvals.records[i].signed /\ clock < approvals.records[i].expires
                              /\ approvals.records[i].principal # approvals.requester}
            IN Cardinality({AuthorityOf[approvals.records[i].principal] : i \in valid}) >= Quorum]_vars

\* What the design says of invalidated evidence, and the evaluator does not keep: evidence that an
\* event has invalidated does not carry a release.
InvalidatedNeverReady ==
    [][BecomesReady => \A o \in Worked : satisfiedBy[o] \notin invalidated]_vars
=============================================================================
