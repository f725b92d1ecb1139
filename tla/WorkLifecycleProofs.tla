------------------------- MODULE WorkLifecycleProofs -------------------------
(***************************************************************************)
(* Theorems about WorkLifecycle for all values of its constants.  TypeOK,  *)
(* PolicyBound and LeaseBacked together are inductive; the refinement of   *)
(* LeaseBook and the action properties rest on them.                       *)
(***************************************************************************)
EXTENDS WorkLifecycle, TLAPS

IInv == TypeOK /\ PolicyBound /\ LeaseBacked

\* What the leases see of a step that is not about them: decisions and reservations are only added.
Backing ==
    /\ granted \subseteq granted'
    /\ \A n \in Nodes : reservation[n] = "RESERVED" => reservation'[n] = "RESERVED"
    /\ UNCHANGED <<policy, leases>>

-----------------------------------------------------------------------------
(* Lemmas about the helpers.                                               *)

\* Reopening keeps every node within the statuses of the machine.
LEMMA ReopenType ==
    ASSUME NEW st \in [Nodes -> WorkNodeStatus \cup {"ABSENT"}], NEW ns
    PROVE  Reopen(st, ns) \in [Nodes -> WorkNodeStatus \cup {"ABSENT"}]
BY DEF Reopen, WorkNodeStatus

\* An obligation that is on record cannot be satisfied or waived from PENDING.
LEMMA NoClosing ==
    ASSUME NEW to \in {"SATISFIED", "WAIVED"}
    PROVE  <<"PENDING", to>> \notin ObligationSteps /\ <<"ABSENT", to>> \notin ObligationSteps
BY DEF ObligationSteps

-----------------------------------------------------------------------------
(* Types.                                                                  *)

\* The initial workspace is well typed.
LEMMA TypeInit == Init => TypeOK
BY WorkLifecycleAssumption DEF Init, TypeOK, BudgetState

\* Every event about governing objects keeps the types.
LEMMA TypeGoverning == TypeOK /\ Governing => TypeOK'
<1> SUFFICES ASSUME TypeOK, Governing PROVE TypeOK'
    OBVIOUS
<1> USE WorkLifecycleAssumption
<1>1. CASE UNCHANGED vars
    BY <1>1 DEF TypeOK, vars, governance, duties, admission, execution
<1>2. ASSUME ObjectiveRevised, objective < MaxRevision PROVE TypeOK'
    BY <1>2, ReopenType DEF ObjectiveRevised, Offered, TypeOK, duties, admission, execution
<1>3. ASSUME NEW v \in 1..MaxPolicy, PolicyActivated(v) PROVE TypeOK'
    <2>1. leases' \in [LeaseIds -> Leases \cup {NoLease}]
        BY <1>3 DEF PolicyActivated, RevokeOthers, TypeOK, Leases, LeaseState, ActiveLeases
    <2>. QED BY <1>3, <2>1, ReopenType DEF PolicyActivated, TypeOK, duties, execution
<1>4. ASSUME NEW to \in 1..MaxSnapshot, WorkspaceRolledBack(to) PROVE TypeOK'
    BY <1>4, ReopenType DEF WorkspaceRolledBack, TypeOK, duties, admission, execution
<1>5. ASSUME NEW nodes \in [Nodes -> GraphStatuses \cup {"ABSENT"}], NEW lineage,
             WorkgraphRevised(nodes, lineage), lineage = GraphObjective
      PROVE  TypeOK'
    <2>1. nodes \in [Nodes -> WorkNodeStatus \cup {"ABSENT"}]
        OBVIOUS
    <2>. QED BY <1>5, <2>1, ReopenType DEF WorkgraphRevised, Offered, TypeOK, governance, duties, admission, execution
<1>6. ASSUME NEW o \in Obligations, ObligationCreated(o) PROVE TypeOK'
    BY <1>6 DEF ObligationCreated, TypeOK, governance, admission, execution
<1>7. ASSUME NEW o \in Obligations, NEW revision \in 1..2, AcceptanceContractRevised(o, revision),
             revision = contract[o] + 1 /\ Insertable(contract[o], 0, revision)
      PROVE  TypeOK'
    <2>1. contract' \in [Obligations -> 0..1]
        BY <1>7 DEF AcceptanceContractRevised, Offered, Insertable, TypeOK
    <2>. QED BY <1>7, <2>1, ReopenType DEF AcceptanceContractRevised, Offered, TypeOK, governance, admission, execution
<1>8. ASSUME NEW o \in Obligations, NEW to \in {"SATISFIED", "WAIVED"}, ObligationClosed(o, to)
      PROVE  UNCHANGED vars
    BY <1>8, NoClosing DEF ObligationClosed, Offered, TypeOK
<1>. QED
    BY <1>1, <1>2, <1>3, <1>4, <1>5, <1>6, <1>7, <1>8
    DEF Governing, ObjectiveRevised, WorkgraphRevised, AcceptanceContractRevised, Offered

\* Every event about reservations and leases of a node keeps the types.
LEMMA TypeLeasing ==
    ASSUME TypeOK, NEW n \in Nodes, Leasing(n)
    PROVE  TypeOK'
<1> USE WorkLifecycleAssumption
<1>1. CASE UNCHANGED vars
    BY <1>1 DEF TypeOK, vars, governance, duties, admission, execution
<1>2. CASE BudgetReserved(n)
    BY <1>1, <1>2 DEF BudgetReserved, Offered, TypeOK, BudgetState, governance, duties, execution
<1>3. ASSUME NEW to \in {"SETTLED", "RELEASED", "EXPIRED"}, BudgetEnded(n, to)
      PROVE  UNCHANGED vars
    BY <1>3 DEF BudgetEnded, Offered, Insertable
<1>4. ASSUME NEW l \in LeaseIds, NEW w \in Workers, NEW token \in 1..MaxToken,
             LeaseIssued(l, n, w, token), leases[l] = NoLease /\ Admissible(n, w, token)
      PROVE  TypeOK'
    <2>1. leases' \in [LeaseIds -> Leases \cup {NoLease}]
        BY <1>4 DEF LeaseIssued, Offered, TypeOK, Leases, LeaseState
    <2>. QED BY <1>4, <2>1 DEF LeaseIssued, Offered, TypeOK, governance, duties, execution
<1>. QED
    BY <1>1, <1>2, <1>3, <1>4 DEF Leasing, LeaseIssued, Offered

\* Every event about the execution of a node keeps the types.
LEMMA TypeExecuting ==
    ASSUME TypeOK, NEW n \in Nodes, Executing(n)
    PROVE  TypeOK'
<1> USE WorkLifecycleAssumption
<1>1. CASE UNCHANGED vars
    BY <1>1 DEF TypeOK, vars, governance, duties, admission, execution
<1>2. ASSUME NEW to \in WorkNodeStatus, Move(n, to) PROVE status' \in [Nodes -> WorkNodeStatus \cup {"ABSENT"}]
    BY <1>2 DEF Move, TypeOK
<1>3. ASSUME NEW to \in WorkNodeStatus, Move(n, to),
             UNCHANGED <<governance, worker, duties, admission, execution>>
      PROVE  TypeOK'
    BY <1>2, <1>3 DEF TypeOK, governance, duties, admission, execution
<1>4. ASSUME NEW w \in Workers, WorkAssigned(n, w) PROVE TypeOK'
    <2>1. "ASSIGNED" \in WorkNodeStatus
        BY DEF WorkNodeStatus
    <2>. QED BY <1>1, <1>2, <1>4, <2>1 DEF WorkAssigned, Offered, TypeOK, governance, duties, admission, execution
<1>5. ASSUME NEW other \in Nodes, NEW w \in Workers, AuthorizationGranted(n, other, w) PROVE TypeOK'
    <2>1. "AUTHORIZED" \in WorkNodeStatus
        BY DEF WorkNodeStatus
    <2>2. Decision(w) \in Decisions
        BY DEF Decision, Decisions, TypeOK
    <2>. QED BY <1>1, <1>2, <1>5, <2>1, <2>2 DEF AuthorizationGranted, Offered, TypeOK, governance, duties, execution
<1>6. ASSUME NEW other \in Nodes, NEW w \in Workers, ExecutionStarted(n, other, w) PROVE TypeOK'
    <2>1. "EXECUTING" \in WorkNodeStatus
        BY DEF WorkNodeStatus
    <2>. QED BY <1>1, <1>2, <1>6, <2>1 DEF ExecutionStarted, Offered, TypeOK, governance, duties, admission
<1>7. CASE AuthorizationDenied(n)
    BY <1>1, <1>3, <1>7 DEF AuthorizationDenied, Offered, WorkNodeStatus
<1>8. ASSUME NEW to \in {"OBSERVING", "CANCELLED"}, NEW carriesResult, ExecutionEnded(n, to, carriesResult)
      PROVE  TypeOK'
    BY <1>1, <1>3, <1>8 DEF ExecutionEnded, Offered, WorkNodeStatus
<1>9. CASE MutationObserved(n)
    BY <1>1, <1>9 DEF MutationObserved
<1>10. CASE VerificationStarted(n)
    BY <1>1, <1>3, <1>10 DEF VerificationStarted, Offered, WorkNodeStatus
<1>11. ASSUME NEW to \in {"COMPLETED", "FAILED"}, VerificationCompleted(n, to) PROVE TypeOK'
    BY <1>1, <1>3, <1>11 DEF VerificationCompleted, Offered, WorkNodeStatus
<1>12. CASE WorkFailed(n) \/ WorkCancelled(n) \/ BoundaryViolation(n)
    BY <1>1, <1>3, <1>12 DEF WorkFailed, WorkCancelled, BoundaryViolation, Work, Offered, WorkNodeStatus
<1>13. CASE InDoubtDeclared(n)
    BY <1>13 DEF InDoubtDeclared, TypeOK, governance, duties, admission
<1>14. ASSUME NEW to \in WorkNodeStatus, InDoubtResolved(n, to) PROVE TypeOK'
    BY <1>1, <1>2, <1>14 DEF InDoubtResolved, Offered, TypeOK, governance, duties, admission
<1>15. CASE EvidenceInvalidated({n})
    BY <1>15, ReopenType DEF EvidenceInvalidated, TypeOK, governance, duties, admission, execution
<1>. QED
    BY <1>4, <1>5, <1>6, <1>7, <1>8, <1>9, <1>10, <1>11, <1>12, <1>13, <1>14, <1>15 DEF Executing

\* The end of a lease and a quiescence proof keep the types.
LEMMA TypeEnding ==
    ASSUME TypeOK, NEW l \in LeaseIds, NEW to \in {"EXPIRED", "REVOKED"},
           QuiescenceProven(l) \/ LeaseEnded(l, to)
    PROVE  TypeOK'
<1>1. CASE UNCHANGED vars
    BY <1>1 DEF TypeOK, vars, governance, duties, admission, execution
<1>2. CASE QuiescenceProven(l)
    BY <1>1, <1>2 DEF QuiescenceProven, Offered, TypeOK, governance, duties, admission
<1>3. CASE LeaseEnded(l, to)
    <2>1. CASE l \in ActiveLeases /\ ~UNCHANGED vars
        <3>1. leases' \in [LeaseIds -> Leases \cup {NoLease}]
            BY <1>3, <2>1 DEF LeaseEnded, Offered, TypeOK, ActiveLeases, Leases, LeaseState
        <3>. QED BY <1>3, <2>1, <3>1 DEF LeaseEnded, Offered, TypeOK, governance, duties, execution
    <2>. QED BY <1>1, <1>3, <2>1 DEF LeaseEnded, Offered
<1>. QED BY <1>2, <1>3

\* No event breaks a type.
LEMMA TypeStep == TypeOK /\ [Next]_vars => TypeOK'
<1> SUFFICES ASSUME TypeOK, [Next]_vars PROVE TypeOK'
    OBVIOUS
<1>1. CASE UNCHANGED vars
    BY <1>1 DEF TypeOK, vars, governance, duties, admission, execution
<1>2. ASSUME NEW l \in LeaseIds, QuiescenceProven(l) \/ \E to \in {"EXPIRED", "REVOKED"} : LeaseEnded(l, to)
      PROVE  TypeOK'
    BY <1>2, TypeEnding
<1>. QED BY <1>1, <1>2, TypeGoverning, TypeLeasing, TypeExecuting DEF Next

\* TypeOK, for every workspace: among other things no event ever takes an obligation out of PENDING,
\* and no acceptance contract ever gets past its first revision.
THEOREM TypeCorrect == Spec => []TypeOK
BY TypeInit, TypeStep, PTL DEF Spec

-----------------------------------------------------------------------------
(* Leases, what they were issued under and what pays for them.             *)

\* A step activates a policy, issues a lease, ends a lease, or is one the leases do not notice.
LEMMA LeaseSeesStep ==
    ASSUME TypeOK, [Next]_vars
    PROVE  \/ \E v \in 1..MaxPolicy : PolicyActivated(v)
           \/ \E l \in LeaseIds, n \in Nodes, w \in Workers, token \in 1..MaxToken :
                  leases[l] = NoLease /\ Admissible(n, w, token) /\ LeaseIssued(l, n, w, token)
           \/ \E l \in ActiveLeases, to \in {"EXPIRED", "REVOKED"} : LeaseEnded(l, to)
           \/ Backing
<1>1. CASE UNCHANGED vars
    BY <1>1 DEF vars, governance, admission, Backing
<1>2. CASE Governing /\ ~\E v \in 1..MaxPolicy : PolicyActivated(v)
    <2>1. CASE ObjectiveRevised
        BY <1>1, <2>1 DEF ObjectiveRevised, Offered, admission, Backing
    <2>2. ASSUME NEW to, WorkspaceRolledBack(to) PROVE Backing
        BY <2>2 DEF WorkspaceRolledBack, admission, Backing
    <2>3. ASSUME NEW nodes, NEW lineage, WorkgraphRevised(nodes, lineage), ~UNCHANGED vars PROVE Backing
        BY <2>3 DEF WorkgraphRevised, Offered, governance, admission, Backing
    <2>4. ASSUME NEW o, ObligationCreated(o) PROVE Backing
        BY <2>4 DEF ObligationCreated, governance, admission, Backing
    <2>5. ASSUME NEW o, NEW revision, AcceptanceContractRevised(o, revision), ~UNCHANGED vars PROVE Backing
        BY <2>5 DEF AcceptanceContractRevised, Offered, governance, admission, Backing
    <2>6. ASSUME NEW o, NEW to, ObligationClosed(o, to), ~UNCHANGED vars PROVE Backing
        BY <2>6 DEF ObligationClosed, Offered, governance, admission, Backing
    <2>. QED BY <1>1, <1>2, <2>1, <2>2, <2>3, <2>4, <2>5, <2>6 DEF Governing
<1>3. ASSUME NEW n \in Nodes, Leasing(n), ~UNCHANGED vars
      PROVE  \/ Backing
             \/ \E l \in LeaseIds, w \in Workers, token \in 1..MaxToken :
                    leases[l] = NoLease /\ Admissible(n, w, token) /\ LeaseIssued(l, n, w, token)
    <2>1. CASE BudgetReserved(n)
        BY <1>3, <2>1 DEF BudgetReserved, Offered, TypeOK, governance, Backing
    <2>2. ASSUME NEW to \in {"SETTLED", "RELEASED", "EXPIRED"}, BudgetEnded(n, to) PROVE FALSE
        BY <1>3, <2>2 DEF BudgetEnded, Offered, Insertable
    <2>. QED BY <1>3, <2>1, <2>2 DEF Leasing, LeaseIssued, Offered
<1>4. ASSUME NEW n \in Nodes, Executing(n), ~UNCHANGED vars PROVE Backing
    <2>1. ASSUME NEW other, NEW w, AuthorizationGranted(n, other, w) PROVE Backing
        BY <1>4, <2>1 DEF AuthorizationGranted, Offered, governance, Backing
    <2>2. ASSUME NEW other, NEW w, WorkAssigned(n, w) \/ ExecutionStarted(n, other, w) PROVE Backing
        BY <1>4, <2>2 DEF WorkAssigned, ExecutionStarted, Offered, governance, admission, Backing
    <2>3. CASE AuthorizationDenied(n) \/ MutationObserved(n) \/ VerificationStarted(n) \/ InDoubtDeclared(n)
               \/ EvidenceInvalidated({n})
        BY <1>4, <2>3
        DEF AuthorizationDenied, MutationObserved, VerificationStarted, InDoubtDeclared, EvidenceInvalidated,
            Offered, governance, admission, Backing
    <2>4. ASSUME NEW to, NEW carriesResult,
                 ExecutionEnded(n, to, carriesResult) \/ VerificationCompleted(n, to) \/ InDoubtResolved(n, to)
          PROVE  Backing
        BY <1>4, <2>4
        DEF ExecutionEnded, VerificationCompleted, InDoubtResolved, Offered, governance, admission, Backing
    <2>5. CASE WorkFailed(n) \/ WorkCancelled(n) \/ BoundaryViolation(n)
        BY <1>4, <2>5 DEF WorkFailed, WorkCancelled, BoundaryViolation, Work, Offered, governance, admission, Backing
    <2>. QED BY <1>4, <2>1, <2>2, <2>3, <2>4, <2>5 DEF Executing
<1>5. ASSUME NEW l \in LeaseIds, QuiescenceProven(l), ~UNCHANGED vars PROVE Backing
    BY <1>5 DEF QuiescenceProven, Offered, governance, admission, Backing
<1>6. ASSUME NEW l \in LeaseIds, NEW to \in {"EXPIRED", "REVOKED"}, LeaseEnded(l, to), ~UNCHANGED vars
      PROVE  l \in ActiveLeases
    BY <1>6 DEF LeaseEnded, Offered
<1>. QED BY <1>1, <1>2, <1>3, <1>4, <1>5, <1>6 DEF Next

\* The leases ACTIVE after an activation: those that were and have the new version.
LEMMA ActiveAfterActivation ==
    ASSUME TypeOK, NEW v \in 1..MaxPolicy, PolicyActivated(v)
    PROVE  ActiveLeases' = {l \in ActiveLeases : leases[l].policy = v}
           /\ \A l \in ActiveLeases' : leases'[l] = leases[l]
<1>1. leases' = RevokeOthers(v)
    BY DEF PolicyActivated
<1>2. ASSUME NEW l \in LeaseIds PROVE
        /\ leases[l] # NoLease => leases[l] \in Leases
        /\ l \notin ActiveLeases \/ leases[l].policy = v => leases'[l] = leases[l]
        /\ l \in ActiveLeases /\ leases[l].policy # v => leases'[l].state = "REVOKED"
    BY <1>1 DEF RevokeOthers, TypeOK, Leases, ActiveLeases
<1>. QED BY <1>2 DEF ActiveLeases

\* The leases ACTIVE after one is issued: that one and those that were.
LEMMA ActiveAfterIssue ==
    ASSUME TypeOK, NEW l \in LeaseIds, NEW n \in Nodes, NEW w \in Workers, NEW token \in 1..MaxToken,
           leases[l] = NoLease, Admissible(n, w, token), LeaseIssued(l, n, w, token)
    PROVE  /\ ActiveLeases' \subseteq ActiveLeases \cup {l}
           /\ \A k \in LeaseIds \ {l} : leases'[k] = leases[k]
           /\ leases'[l] = [node |-> n, worker |-> w, token |-> token, policy |-> policy,
                            objective |-> objective, state |-> "ACTIVE"]
           /\ UNCHANGED <<policy, granted, reservation>>
BY DEF LeaseIssued, Offered, TypeOK, ActiveLeases, governance

\* The leases ACTIVE after one has ended: the others.
LEMMA ActiveAfterEnd ==
    ASSUME TypeOK, NEW l \in ActiveLeases, NEW to \in {"EXPIRED", "REVOKED"}, LeaseEnded(l, to)
    PROVE  /\ ActiveLeases' \subseteq ActiveLeases \ {l}
           /\ \A k \in LeaseIds \ {l} : leases'[k] = leases[k]
           /\ leases'[l] = [leases[l] EXCEPT !.state = to]
           /\ UNCHANGED <<policy, granted, reservation>>
<1>1. <<"ACTIVE", to>> \in LeaseSteps
    BY DEF LeaseSteps
<1>2. leases' = [leases EXCEPT ![l].state = to] /\ UNCHANGED <<policy, granted, reservation>>
    BY <1>1 DEF LeaseEnded, Offered, governance
<1>3. l \in LeaseIds /\ leases[l] \in Leases
    BY DEF ActiveLeases, TypeOK
<1>4. leases'[l].state = to
    BY <1>2, <1>3 DEF TypeOK, Leases
<1>. QED BY <1>2, <1>3, <1>4 DEF ActiveLeases, TypeOK

\* Nothing that happens between two activations leaves a lease of another version ACTIVE.
LEMMA PolicyBoundStep ==
    ASSUME TypeOK, PolicyBound, [Next]_vars
    PROVE  PolicyBound'
<1>1. ASSUME NEW v \in 1..MaxPolicy, PolicyActivated(v) PROVE PolicyBound'
    <2>1. policy' = v
        BY <1>1 DEF PolicyActivated
    <2>. QED BY <1>1, <2>1, ActiveAfterActivation DEF PolicyBound
<1>2. ASSUME NEW l \in LeaseIds, NEW n \in Nodes, NEW w \in Workers, NEW token \in 1..MaxToken,
             leases[l] = NoLease, Admissible(n, w, token), LeaseIssued(l, n, w, token)
      PROVE  PolicyBound'
    <2>1. /\ ActiveLeases' \subseteq ActiveLeases \cup {l}
          /\ \A k \in LeaseIds \ {l} : leases'[k] = leases[k]
          /\ leases'[l] = [node |-> n, worker |-> w, token |-> token, policy |-> policy,
                           objective |-> objective, state |-> "ACTIVE"]
          /\ UNCHANGED <<policy, granted, reservation>>
        BY <1>2, ActiveAfterIssue
    <2>2. leases'[l].policy = policy
        BY <2>1
    <2>3. \A k \in ActiveLeases : k \in LeaseIds
        BY DEF ActiveLeases
    <2>. QED BY <2>1, <2>2, <2>3 DEF PolicyBound
<1>3. ASSUME NEW l \in ActiveLeases, NEW to \in {"EXPIRED", "REVOKED"}, LeaseEnded(l, to) PROVE PolicyBound'
    BY <1>3, ActiveAfterEnd DEF PolicyBound, ActiveLeases
<1>4. CASE Backing
    BY <1>4 DEF Backing, PolicyBound, ActiveLeases
<1>. QED BY <1>1, <1>2, <1>3, <1>4, LeaseSeesStep

\* What a lease was issued against stays on record as long as it is ACTIVE.
LEMMA LeaseBackedStep ==
    ASSUME TypeOK, LeaseBacked, [Next]_vars
    PROVE  LeaseBacked'
<1>1. ASSUME NEW v \in 1..MaxPolicy, PolicyActivated(v) PROVE LeaseBacked'
    <2>1. UNCHANGED <<granted, reservation>>
        BY <1>1 DEF PolicyActivated
    <2>. QED BY <1>1, <2>1, ActiveAfterActivation DEF LeaseBacked
<1>2. ASSUME NEW l \in LeaseIds, NEW n \in Nodes, NEW w \in Workers, NEW token \in 1..MaxToken,
             leases[l] = NoLease, Admissible(n, w, token), LeaseIssued(l, n, w, token)
      PROVE  LeaseBacked'
    <2>1. /\ ActiveLeases' \subseteq ActiveLeases \cup {l}
          /\ \A k \in LeaseIds \ {l} : leases'[k] = leases[k]
          /\ leases'[l] = [node |-> n, worker |-> w, token |-> token, policy |-> policy,
                           objective |-> objective, state |-> "ACTIVE"]
          /\ UNCHANGED <<policy, granted, reservation>>
        BY <1>2, ActiveAfterIssue
    <2>2. Decision(w) \in granted /\ reservation[n] = "RESERVED"
        BY <1>2 DEF Admissible
    <2>3. Decision(w).worker = w /\ Decision(w).policy = policy
        BY DEF Decision
    <2>4. leases'[l].node = n /\ leases'[l].worker = w /\ leases'[l].policy = policy
        BY <2>1
    <2>5. \A k \in ActiveLeases : k \in LeaseIds
        BY DEF ActiveLeases
    <2>6. \A k \in ActiveLeases \ {l} :
              /\ reservation'[leases'[k].node] = "RESERVED"
              /\ \E d \in granted' : d.worker = leases'[k].worker /\ d.policy = leases'[k].policy
        BY <2>1, <2>5 DEF LeaseBacked
    <2>7. /\ reservation'[leases'[l].node] = "RESERVED"
          /\ \E d \in granted' : d.worker = leases'[l].worker /\ d.policy = leases'[l].policy
        BY <2>1, <2>2, <2>3, <2>4
    <2>8. \A k \in ActiveLeases' : k = l \/ k \in ActiveLeases \ {l}
        BY <2>1
    <2>. QED BY <2>6, <2>7, <2>8 DEF LeaseBacked
<1>3. ASSUME NEW l \in ActiveLeases, NEW to \in {"EXPIRED", "REVOKED"}, LeaseEnded(l, to) PROVE LeaseBacked'
    <2>1. /\ ActiveLeases' \subseteq ActiveLeases \ {l}
          /\ \A k \in LeaseIds \ {l} : leases'[k] = leases[k]
          /\ UNCHANGED <<policy, granted, reservation>>
        BY <1>3, ActiveAfterEnd
    <2>2. \A k \in ActiveLeases' : k \in ActiveLeases /\ leases'[k] = leases[k]
        BY <2>1 DEF ActiveLeases
    <2>. QED BY <2>1, <2>2 DEF LeaseBacked
<1>4. CASE Backing
    <2>1. ActiveLeases' = ActiveLeases /\ leases' = leases
        BY <1>4 DEF Backing, ActiveLeases
    <2>2. \A l \in ActiveLeases : leases[l].node \in Nodes
        BY DEF ActiveLeases, TypeOK, Leases
    <2>. QED BY <1>4, <2>1, <2>2 DEF Backing, LeaseBacked
<1>. QED BY <1>1, <1>2, <1>3, <1>4, LeaseSeesStep

\* The initial workspace has no leases.
LEMMA NoLeasesYet == Init => ActiveLeases = {}
BY DEF Init, ActiveLeases

\* TypeOK, PolicyBound and LeaseBacked hold together in every reachable state.
THEOREM Inductive == Spec => []IInv
<1>1. Init => IInv
    BY TypeInit, NoLeasesYet DEF IInv, PolicyBound, LeaseBacked
<1>2. IInv /\ [Next]_vars => IInv'
    BY TypeStep, PolicyBoundStep, LeaseBackedStep DEF IInv
<1>. QED BY <1>1, <1>2, PTL DEF Spec

\* No lease is ever ACTIVE that names another policy version than the active one.
THEOREM PolicyBoundAlways == Spec => []PolicyBound
BY Inductive, PTL DEF IInv

\* Every ACTIVE lease has its reservation and a decision that allowed it.
THEOREM LeaseBackedAlways == Spec => []LeaseBacked
BY Inductive, PTL DEF IInv

-----------------------------------------------------------------------------
(* Revisions of the objective and of the policy.                           *)

\* A reopened node is not at work and not done: from there the machines lead back to READY.
LEMMA ReopenedStatus ==
    ASSUME NEW ns, NEW n \in Nodes, n \in ns
    PROVE  Reopen(status, ns)[n] \notin {"ASSIGNED", "AUTHORIZED", "COMPLETED"}
<1>1. \A s \in {"ASSIGNED", "AUTHORIZED", "COMPLETED"} : <<s, "READY">> \in NodeSteps
    BY DEF NodeSteps
<1>. QED BY <1>1 DEF Reopen

\* Only the two revisions change the objective or the policy, and both reopen what they affect.
LEMMA RevisionStep ==
    ASSUME [Next]_vars, objective' # objective \/ policy' # policy
    PROVE  status' = Reopen(status, Affected(Known))
<1>1. ~UNCHANGED governance
    BY DEF governance
<1>2. \A m \in Nodes : ~Leasing(m)
    BY <1>1 DEF Leasing, BudgetReserved, BudgetEnded, LeaseIssued, Offered, vars
<1>3. \A m \in Nodes : ~Executing(m)
    BY <1>1
    DEF Executing, WorkAssigned, AuthorizationGranted, AuthorizationDenied, ExecutionStarted, ExecutionEnded,
        MutationObserved, VerificationStarted, VerificationCompleted, WorkFailed, WorkCancelled,
        BoundaryViolation, Work, InDoubtDeclared, InDoubtResolved, EvidenceInvalidated, Offered, vars
<1>4. \A l \in LeaseIds, to \in {"EXPIRED", "REVOKED"} : ~QuiescenceProven(l) /\ ~LeaseEnded(l, to)
    BY <1>1 DEF QuiescenceProven, LeaseEnded, Offered, vars
<1>5. Governing
    BY <1>1, <1>2, <1>3, <1>4 DEF Next, vars
<1>6. ObjectiveRevised \/ \E v \in 1..MaxPolicy : PolicyActivated(v)
    BY <1>1, <1>5
    DEF Governing, WorkspaceRolledBack, WorkgraphRevised, ObligationCreated, AcceptanceContractRevised,
        ObligationClosed, Offered, vars, governance
<1>. QED BY <1>1, <1>6 DEF ObjectiveRevised, PolicyActivated, Offered, vars

\* No revision of the objective or the policy leaves affected work assigned, authorized or completed.
THEOREM RevisionReopensAlways == Spec => RevisionReopens
<1>1. [Next]_vars =>
          [objective' # objective \/ policy' # policy =>
               \A n \in Affected(Known) : status'[n] \notin {"ASSIGNED", "AUTHORIZED", "COMPLETED"}]_vars
    BY RevisionStep, ReopenedStatus DEF Affected
<1>. QED BY <1>1, PTL DEF Spec, RevisionReopens

-----------------------------------------------------------------------------
(* The leases are a LeaseBook.                                             *)

\* What LeaseBook sees of a lease.
LEMMA EntryOf ==
    ASSUME NEW lease \in Leases
    PROVE  /\ lease # NoLease /\ Entry(lease) # NoLease /\ Entry(lease) \in Entries
           /\ Entry(lease) = [node |-> lease.node, token |-> lease.token, policy |-> lease.policy,
                              standing |-> IF lease.state = "ACTIVE" THEN "LIVE" ELSE "ENDED"]
<1>1. lease # NoLease
    BY NoLeaseAssumption
<1>2. Entry(lease) = [node |-> lease.node, token |-> lease.token, policy |-> lease.policy,
                      standing |-> IF lease.state = "ACTIVE" THEN "LIVE" ELSE "ENDED"]
    BY <1>1 DEF Entry
<1>3. lease.node \in Nodes /\ lease.token \in Nat /\ lease.policy \in Nat
    BY WorkLifecycleAssumption DEF Leases
<1>4. Entry(lease) \in Entries
    BY <1>2, <1>3 DEF Entries
<1>. QED BY <1>1, <1>2, <1>4, NoLeaseAssumption

\* The book has a lease under the ids the state has one under.
LEMMA SameGiven ==
    ASSUME TypeOK
    PROVE  Book!Given = {l \in LeaseIds : leases[l] # NoLease}
<1>1. \A l \in LeaseIds : Entry(leases[l]) # NoLease <=> leases[l] # NoLease
    BY EntryOf DEF TypeOK, Entry
<1>. QED BY <1>1 DEF Book!Given

\* The leases a step ends are ended in the book, if they were ACTIVE or not.
LEMMA EndedEntry ==
    ASSUME NEW lease \in Leases, NEW ended \in Leases,
           ended = [lease EXCEPT !.state = ended.state], ended.state # "ACTIVE"
    PROVE  Entry(ended) = [Entry(lease) EXCEPT !.standing = "ENDED"]
<1>1. ended.node = lease.node /\ ended.token = lease.token /\ ended.policy = lease.policy
    BY DEF Leases
<1>. QED BY <1>1, EntryOf

\* An activation is LeaseBook's: the ACTIVE leases name the present version, so one under another
\* version ends every lease and one under the same version ends none.
LEMMA BookActivation ==
    ASSUME TypeOK, TypeOK', PolicyBound, NEW v \in 1..MaxPolicy, PolicyActivated(v)
    PROVE  Book!Activate(v)
<1>1. policy' = v /\ leases' = RevokeOthers(v)
    BY DEF PolicyActivated
<1>2. \A l \in ActiveLeases : leases[l].policy = policy
    BY DEF PolicyBound
<1>3. CASE v = policy
    <2>1. leases' = leases
        BY <1>1, <1>2, <1>3 DEF RevokeOthers, TypeOK
    <2>. QED BY <1>1, <1>3, <2>1 DEF Book!Activate, Entry
<1>4. CASE v # policy
    <2>1. ASSUME NEW l \in LeaseIds, leases[l] # NoLease
          PROVE  Entry(leases'[l]) = [Entry(leases[l]) EXCEPT !.standing = "ENDED"]
        <3>1. leases[l] \in Leases /\ (leases'[l] \in Leases \/ leases'[l] = NoLease)
            BY <2>1 DEF TypeOK
        <3>2. CASE l \in ActiveLeases
            <4>1. leases'[l] = [leases[l] EXCEPT !.state = "REVOKED"]
                BY <1>1, <1>2, <1>4, <3>2 DEF RevokeOthers
            <4>2. leases'[l] \in Leases /\ leases'[l].state = "REVOKED"
                BY <3>1, <4>1 DEF Leases, LeaseState
            <4>. QED BY <3>1, <4>1, <4>2, EndedEntry
        <3>3. CASE l \notin ActiveLeases
            <4>1. leases'[l] = leases[l] /\ leases[l].state # "ACTIVE"
                BY <1>1, <2>1, <3>3 DEF RevokeOthers, ActiveLeases
            <4>2. leases[l] = [leases[l] EXCEPT !.state = leases[l].state]
                BY <3>1 DEF Leases
            <4>. QED BY <3>1, <4>1, <4>2, EndedEntry
        <3>. QED BY <3>2, <3>3
    <2>2. ASSUME NEW l \in LeaseIds, leases[l] = NoLease PROVE Entry(leases'[l]) = Entry(leases[l])
        BY <1>1, <2>2 DEF RevokeOthers, ActiveLeases
    <2>3. [l \in LeaseIds |-> Entry(leases'[l])] =
              [l \in LeaseIds |-> IF l \in Book!Given
                                  THEN [Entry(leases[l]) EXCEPT !.standing = "ENDED"] ELSE Entry(leases[l])]
        BY <2>1, <2>2, SameGiven
    <2>. QED BY <1>1, <1>4, <2>3 DEF Book!Activate, Book!End, Entry
<1>. QED BY <1>3, <1>4

\* An issued lease is handed out: under the active policy, with a token above all of its node.
LEMMA BookIssue ==
    ASSUME TypeOK, TypeOK', NEW l \in LeaseIds, NEW n \in Nodes, NEW w \in Workers, NEW token \in 1..MaxToken,
           leases[l] = NoLease, Admissible(n, w, token), LeaseIssued(l, n, w, token)
    PROVE  Book!HandOut(l, n, token)
<1>1. /\ \A k \in LeaseIds \ {l} : leases'[k] = leases[k]
      /\ leases'[l] = [node |-> n, worker |-> w, token |-> token, policy |-> policy,
                       objective |-> objective, state |-> "ACTIVE"]
      /\ policy' = policy
    BY ActiveAfterIssue
<1>2. l \notin Book!Given
    BY SameGiven
<1>3. ASSUME NEW k \in Book!Given, Entry(leases[k]).node = n PROVE Entry(leases[k]).token < token
    <2>1. k \in LeaseIds /\ leases[k] \in Leases /\ leases[k] # NoLease
        BY SameGiven DEF TypeOK
    <2>2. leases[k].node = n /\ Entry(leases[k]).token = leases[k].token
        BY <1>3, <2>1, EntryOf
    <2>. QED BY <2>1, <2>2 DEF Admissible, Tokens
<1>4. Entry(leases'[l]) = [node |-> n, token |-> token, policy |-> policy, standing |-> "LIVE"]
    <2>1. leases'[l] \in Leases
        BY <1>1 DEF Leases, LeaseState, TypeOK
    <2>. QED BY <1>1, <2>1, EntryOf
<1>5. [k \in LeaseIds |-> Entry(leases'[k])] =
          [[k \in LeaseIds |-> Entry(leases[k])] EXCEPT
               ![l] = [node |-> n, token |-> token, policy |-> policy, standing |-> "LIVE"]]
    BY <1>1, <1>4
<1>6. \A k \in Book!Given : [m \in LeaseIds |-> Entry(leases[m])][k] = Entry(leases[k])
    BY DEF Book!Given
<1>. QED BY <1>1, <1>2, <1>3, <1>5, <1>6 DEF Book!HandOut, Entry

\* The end of a lease takes it back.
LEMMA BookEnd ==
    ASSUME TypeOK, TypeOK', NEW l \in ActiveLeases, NEW to \in {"EXPIRED", "REVOKED"}, LeaseEnded(l, to)
    PROVE  Book!TakeBack({l}) /\ {l} \subseteq Book!Given
<1>1. /\ \A k \in LeaseIds \ {l} : leases'[k] = leases[k]
      /\ leases'[l] = [leases[l] EXCEPT !.state = to]
      /\ policy' = policy
    BY ActiveAfterEnd
<1>2. l \in LeaseIds /\ leases[l] \in Leases /\ leases[l] # NoLease
    BY DEF ActiveLeases, TypeOK
<1>3. Entry(leases'[l]) = [Entry(leases[l]) EXCEPT !.standing = "ENDED"]
    <2>1. leases'[l] \in Leases /\ leases'[l].state = to
        BY <1>1, <1>2 DEF Leases, LeaseState
    <2>. QED BY <1>1, <1>2, <2>1, EndedEntry
<1>4. [k \in LeaseIds |-> Entry(leases'[k])] =
          [k \in LeaseIds |-> IF k \in {l}
                              THEN [Entry(leases[k]) EXCEPT !.standing = "ENDED"] ELSE Entry(leases[k])]
    BY <1>1, <1>3
<1>. QED BY <1>1, <1>2, <1>4, SameGiven DEF Book!TakeBack, Book!End, Entry

\* Every step of the reducer is a step of LeaseBook or leaves the book as it is.
LEMMA BookStep ==
    ASSUME IInv, [Next]_vars
    PROVE  [Book!Next]_(Book!vars)
<1> TypeOK /\ PolicyBound /\ TypeOK'
    BY TypeStep DEF IInv
<1>1. ASSUME NEW v \in 1..MaxPolicy, PolicyActivated(v) PROVE Book!Next
    BY <1>1, BookActivation DEF Book!Next
<1>2. ASSUME NEW l \in LeaseIds, NEW n \in Nodes, NEW w \in Workers, NEW token \in 1..MaxToken,
             leases[l] = NoLease, Admissible(n, w, token), LeaseIssued(l, n, w, token)
      PROVE  Book!Next
    BY <1>2, BookIssue DEF Book!Next
<1>3. ASSUME NEW l \in ActiveLeases, NEW to \in {"EXPIRED", "REVOKED"}, LeaseEnded(l, to) PROVE Book!Next
    BY <1>3, BookEnd DEF Book!Next
<1>4. CASE Backing
    BY <1>4 DEF Backing, Book!vars, Entry
<1>. QED BY <1>1, <1>2, <1>3, <1>4, LeaseSeesStep

\* The leases the reducer keeps are a LeaseBook, for every workspace.
THEOREM Refinement == Spec => KeepsTheBook
<1>1. Init => Book!Init
    BY WorkLifecycleAssumption DEF Init, Book!Init, Entry
<1>. QED BY <1>1, BookStep, Inductive, PTL DEF Spec, KeepsTheBook, Book!Spec

-----------------------------------------------------------------------------
(* What a LeaseBook promises, of the leases of the reducer.                *)

\* No two leases of a node carry the same token, ended ones included.
Fenced ==
    \A k, l \in LeaseIds :
        (/\ leases[k] # NoLease /\ leases[l] # NoLease
         /\ leases[k].node = leases[l].node /\ leases[k].token = leases[l].token) => k = l

\* The step of a lease that was handed out: its terms stay, and once ended it stays ended.
Kept(l) ==
    leases[l] # NoLease =>
        /\ leases'[l] # NoLease
        /\ leases'[l].node = leases[l].node /\ leases'[l].token = leases[l].token
        /\ leases'[l].policy = leases[l].policy
        /\ (leases[l].state # "ACTIVE" => leases'[l].state # "ACTIVE")

\* A step of the book hands out one lease with a token above its node's, or keeps the terms of all.
LEMMA BookKeeps ==
    ASSUME TypeOK, TypeOK', [Book!Next]_(Book!vars)
    PROVE  /\ \A l \in LeaseIds : Kept(l)
           /\ \/ \A l \in LeaseIds : leases[l] = NoLease => leases'[l] = NoLease
              \/ \E l \in LeaseIds :
                     /\ \A k \in LeaseIds \ {l} : leases[k] = NoLease => leases'[k] = NoLease
                     /\ \A k \in LeaseIds : (leases[k] # NoLease /\ leases[k].node = leases'[l].node) =>
                                                leases[k].token < leases'[l].token
<1>. DEFINE before(l) == Entry(leases[l])
            after(l) == Entry(leases'[l])
            Standing(lease) == IF lease.state = "ACTIVE" THEN "LIVE" ELSE "ENDED"
            Seen(lease, entry) ==
                /\ entry.node = lease.node /\ entry.token = lease.token
                /\ entry.policy = lease.policy /\ entry.standing = Standing(lease)
<1>1. ASSUME NEW l \in LeaseIds
      PROVE  /\ before(l) = NoLease <=> leases[l] = NoLease
             /\ after(l) = NoLease <=> leases'[l] = NoLease
             /\ (leases[l] # NoLease => Seen(leases[l], before(l)) /\ before(l) \in Entries)
             /\ (leases'[l] # NoLease => Seen(leases'[l], after(l)))
    <2>1. /\ (leases[l] # NoLease => leases[l] \in Leases)
          /\ (leases'[l] # NoLease => leases'[l] \in Leases)
        BY DEF TypeOK
    <2>2. /\ (leases[l] = NoLease => before(l) = NoLease)
          /\ (leases'[l] = NoLease => after(l) = NoLease)
        BY DEF Entry
    <2>3. ASSUME leases[l] # NoLease
          PROVE  before(l) # NoLease /\ Seen(leases[l], before(l)) /\ before(l) \in Entries
        <3>1. before(l) # NoLease
            BY <2>1, <2>3, EntryOf
        <3>2. before(l) = [node |-> leases[l].node, token |-> leases[l].token, policy |-> leases[l].policy,
                           standing |-> Standing(leases[l])]
            BY <2>3 DEF Entry
        <3>3. before(l) \in Entries
            BY <2>1, <2>3, EntryOf
        <3>. QED
            BY <3>1, <3>2, <3>3
    <2>4. ASSUME leases'[l] # NoLease PROVE after(l) # NoLease /\ Seen(leases'[l], after(l))
        <3>1. after(l) # NoLease
            BY <2>1, <2>4, EntryOf
        <3>2. after(l) = [node |-> leases'[l].node, token |-> leases'[l].token, policy |-> leases'[l].policy,
                          standing |-> Standing(leases'[l])]
            BY <2>4 DEF Entry
        <3>. QED
            BY <3>1, <3>2
    <2>. QED
        BY <2>2, <2>3, <2>4
<1>2. Book!Given = {l \in LeaseIds : before(l) # NoLease}
    BY DEF Book!Given
<1>. HIDE DEF before, after
<1>3. ASSUME \A l \in LeaseIds : after(l) = before(l)
      PROVE  /\ \A l \in LeaseIds : Kept(l)
             /\ \A l \in LeaseIds : leases[l] = NoLease => leases'[l] = NoLease
    BY <1>1, <1>3 DEF Kept
<1>4. ASSUME NEW ended \in SUBSET Book!Given,
             \A l \in LeaseIds : after(l) = IF l \in ended THEN [before(l) EXCEPT !.standing = "ENDED"] ELSE before(l)
      PROVE  /\ \A l \in LeaseIds : Kept(l)
             /\ \A l \in LeaseIds : leases[l] = NoLease => leases'[l] = NoLease
    <2>1. ASSUME NEW l \in LeaseIds, l \in ended PROVE Kept(l) /\ leases[l] # NoLease
        <3>1. leases[l] # NoLease /\ after(l) = [before(l) EXCEPT !.standing = "ENDED"]
            BY <1>1, <1>2, <1>4, <2>1
        <3>2. /\ after(l).node = before(l).node /\ after(l).token = before(l).token
              /\ after(l).policy = before(l).policy /\ after(l).standing = "ENDED"
            BY <1>1, <3>1
        <3>3. before(l) \in Entries
            BY <1>1, <3>1
        <3>4. after(l) \in Entries
            BY <3>1, <3>3 DEF Entries
        <3>5. leases'[l] # NoLease
            BY <1>1, <3>4, NoLeaseAssumption
        <3>. QED
            BY <1>1, <3>1, <3>2, <3>5 DEF Kept
    <2>2. ASSUME NEW l \in LeaseIds, l \notin ended PROVE Kept(l) /\ (leases[l] = NoLease => leases'[l] = NoLease)
        BY <1>1, <1>4, <2>2 DEF Kept
    <2>. QED
        BY <2>1, <2>2
<1>5. ASSUME NEW l \in LeaseIds, NEW n \in Nodes, NEW token \in 1..MaxToken, Book!HandOut(l, n, token)
      PROVE  /\ \A k \in LeaseIds : Kept(k)
             /\ \A k \in LeaseIds \ {l} : leases[k] = NoLease => leases'[k] = NoLease
             /\ \A k \in LeaseIds : leases[k] # NoLease /\ leases[k].node = leases'[l].node =>
                                        leases[k].token < leases'[l].token
    <2>1. /\ before(l) = NoLease
          /\ \A k \in LeaseIds \ {l} : after(k) = before(k)
          /\ after(l) = [node |-> n, token |-> token, policy |-> policy, standing |-> "LIVE"]
          /\ \A k \in LeaseIds : before(k) # NoLease /\ before(k).node = n => before(k).token < token
        BY <1>2, <1>5 DEF Book!HandOut, before, after
    <2>2. after(l) \in Entries
        BY <2>1, WorkLifecycleAssumption DEF Entries, TypeOK
    <2>3. leases'[l] # NoLease /\ leases'[l].node = n /\ leases'[l].token = token
        BY <1>1, <2>1, <2>2, NoLeaseAssumption
    <2>4. \A k \in LeaseIds \ {l} : Kept(k) /\ (leases[k] = NoLease => leases'[k] = NoLease)
        BY <1>1, <2>1 DEF Kept
    <2>5. Kept(l)
        BY <1>1, <2>1 DEF Kept
    <2>6. ASSUME NEW k \in LeaseIds, leases[k] # NoLease, leases[k].node = n PROVE leases[k].token < token
        BY <1>1, <2>1, <2>6
    <2>. QED
        BY <2>3, <2>4, <2>5, <2>6
<1>6. ASSUME NEW v \in 1..MaxPolicy, Book!Activate(v)
      PROVE  /\ \A l \in LeaseIds : Kept(l)
             /\ \A l \in LeaseIds : leases[l] = NoLease => leases'[l] = NoLease
    <2>1. CASE v = policy
        BY <1>3, <1>6, <2>1 DEF Book!Activate, before, after
    <2>2. CASE v # policy
        BY <1>4, <1>6, <2>2 DEF Book!Activate, Book!End, before, after
    <2>. QED BY <2>1, <2>2
<1>7. ASSUME NEW ended \in SUBSET Book!Given, Book!TakeBack(ended)
      PROVE  /\ \A l \in LeaseIds : Kept(l)
             /\ \A l \in LeaseIds : leases[l] = NoLease => leases'[l] = NoLease
    BY <1>4, <1>7 DEF Book!TakeBack, Book!End, before, after
<1>8. CASE UNCHANGED Book!vars
    BY <1>3, <1>8 DEF Book!vars, before, after
<1>. QED
    BY <1>5, <1>6, <1>7, <1>8 DEF Book!Next

\* A token above all of the node's is none of them.
LEMMA FencedStep ==
    ASSUME TypeOK, TypeOK', Fenced, [Book!Next]_(Book!vars)
    PROVE  Fenced'
<1>. SUFFICES ASSUME NEW k \in LeaseIds, NEW l \in LeaseIds, leases'[k] # NoLease, leases'[l] # NoLease,
                     leases'[k].node = leases'[l].node, leases'[k].token = leases'[l].token, k # l
              PROVE  FALSE
    BY DEF Fenced
<1>1. Kept(k) /\ Kept(l)
    BY BookKeeps
<1>2. \/ leases[k] # NoLease /\ leases[l] # NoLease
      \/ leases[k] # NoLease /\ leases[k].token < leases'[l].token
      \/ leases[l] # NoLease /\ leases[l].token < leases'[k].token
    BY <1>1, BookKeeps DEF Kept
<1>3. leases'[k].token \in Nat /\ leases'[l].token \in Nat
    BY WorkLifecycleAssumption DEF TypeOK, Leases
<1>. QED
    BY <1>1, <1>2, <1>3 DEF Kept, Fenced

\* The fencing tokens of a node never repeat, and a lease's terms and its end are for good, whatever
\* nodes, graphs, policies and objectives go through (LEASE_ISSUED, LEASE_REVOKED, LEASE_EXPIRED):
\* this follows from the book alone, of which every step of the reducer is a step.
THEOREM TokensFence == Spec => []Fenced /\ [][\A l \in LeaseIds : Kept(l)]_vars
<1>1. Init => Fenced
    BY DEF Init, Fenced
<1>2. IInv /\ IInv' /\ [Next]_vars /\ Fenced => Fenced'
    BY BookStep, FencedStep DEF IInv
<1>3. IInv /\ IInv' /\ [Next]_vars => [\A l \in LeaseIds : Kept(l)]_vars
    BY BookStep, BookKeeps DEF IInv
<1>. QED
    BY <1>1, <1>2, <1>3, Inductive, PTL DEF Spec
=============================================================================
