---------------------------- MODULE WorkLifecycle ----------------------------
(***************************************************************************)
(* ReferenceReducer.reduce seen from the objects whose life cycles it      *)
(* drives: work nodes, execution leases, obligations, reservations and     *)
(* execution generations.  One action per event type; any client may       *)
(* submit any event at any time, and an event whose handler raises leaves  *)
(* the state as it was.  The state starts where a workspace has been set   *)
(* up: an objective, an active policy, a target snapshot and a work graph. *)
(***************************************************************************)
EXTENDS Integers, FiniteSets

CONSTANTS
    Nodes,          \* work node ids
    Workers,        \* worker identities
    LeaseIds,       \* execution lease ids
    Obligations,    \* obligation ids
    Serves,         \* per node: the obligations it serves, primary or listed
    Funded,         \* bound: nodes whose budget lineage is given a reservation
    GraphStatuses,  \* statuses a submitted work graph may give its nodes
    MaxRevision,    \* bound: objective revisions
    MaxPolicy,      \* bound: policy version strings
    MaxSnapshot,    \* bound: workspace snapshots
    MaxToken,       \* bound: fencing tokens
    NoWorker, NoLease

WorkNodeStatus == {"PENDING", "READY", "BLOCKED", "ASSIGNED", "AUTHORIZED", "EXECUTING", "OBSERVING",
                   "VERIFYING", "COMPLETED", "FAILED", "IN_DOUBT", "CANCELLED"}
LeaseState  == {"ACTIVE", "CONSUMED", "EXPIRED", "REVOKED", "CANCELLED", "ORPHANED"}
BudgetState == {"NONE", "RESERVED", "SETTLED", "RELEASED", "EXPIRED"}

ASSUME WorkLifecycleAssumption ==
    /\ Serves \in [Nodes -> SUBSET Obligations]
    /\ GraphStatuses \subseteq WorkNodeStatus /\ Funded \subseteq Nodes
    /\ MaxRevision \in Nat \ {0} /\ MaxPolicy \in Nat \ {0}
    /\ MaxSnapshot \in Nat \ {0} /\ MaxToken \in Nat
    /\ NoWorker \notin Workers

(***************************************************************************)
(* The machines of state-machines.v6.0.1.json, as sets of legal steps.     *)
(***************************************************************************)
NodeSteps ==
    ({"PENDING"}    \X {"READY", "CANCELLED"}) \cup
    ({"READY"}      \X {"ASSIGNED", "BLOCKED", "CANCELLED"}) \cup
    ({"BLOCKED"}    \X {"READY", "CANCELLED"}) \cup
    ({"ASSIGNED"}   \X {"AUTHORIZED", "READY", "CANCELLED"}) \cup
    ({"AUTHORIZED"} \X {"EXECUTING", "READY", "CANCELLED"}) \cup
    ({"EXECUTING"}  \X {"OBSERVING", "FAILED", "IN_DOUBT", "CANCELLED"}) \cup
    ({"OBSERVING"}  \X {"VERIFYING", "FAILED", "IN_DOUBT", "CANCELLED"}) \cup
    ({"VERIFYING"}  \X {"COMPLETED", "FAILED", "IN_DOUBT", "CANCELLED"}) \cup
    ({"COMPLETED"}  \X {"READY"}) \cup
    ({"FAILED"}     \X {"READY", "IN_DOUBT", "CANCELLED"}) \cup
    ({"IN_DOUBT"}   \X {"READY", "FAILED", "CANCELLED"})

LeaseSteps ==
    ({"ACTIVE"} \X {"CONSUMED", "EXPIRED", "REVOKED", "CANCELLED", "ORPHANED"}) \cup
    ({"CANCELLED", "EXPIRED", "REVOKED"} \X {"ORPHANED"})

\* The steps out of PENDING; no event of the program has READY or BLOCKED as its target.
ObligationSteps == {"PENDING"} \X {"READY", "BLOCKED", "CANCELLED", "SUPERSEDED"}

(***************************************************************************)
(* The objective revision the work graph names.  WORKGRAPH_REVISED compares *)
(* a new graph's lineage with the old one's, so it is fixed for good: in a *)
(* store grown from genesis it is the revision called GENESIS.             *)
(***************************************************************************)
GraphObjective == 1

Leases == [ node : Nodes, worker : Workers, token : 1..MaxToken, policy : 1..MaxPolicy,
            objective : 1..MaxRevision, state : LeaseState ]
\* The snapshot of a decision is left out: a lease is held to it by its own field, which its issuer
\* fills in, never by the workspace's.
Decisions == [worker : Workers, policy : 1..MaxPolicy]
\* A lease as LeaseBook sees it.
Entries == [node : Nodes, token : Nat, policy : Nat, standing : {"LIVE", "ENDED"}]

ASSUME NoLeaseAssumption == NoLease \notin Leases /\ NoLease \notin Entries

VARIABLES
    objective,    \* number of the latest objective revision
    policy,       \* version of the active policy
    snapshot,     \* the workspace snapshot the workspace is at
    status,       \* per node of the graph: its status; ABSENT: not in the graph
    worker,       \* per node: the assigned worker, kept across graph revisions
    obligation,   \* per obligation: its status, or ABSENT
    contract,     \* per obligation: the revision of its acceptance contract, 0 before the first
    granted,      \* the ALLOW decisions, as far as a lease depends on them
    reservation,  \* per node: the budget reservation of its lineage
    leases,       \* per id: the lease record
    generation,   \* per node: the worker of its execution generation, or NoWorker
    observed,     \* nodes whose observation is recorded
    proven,       \* leases with a recorded quiescence proof
    doubt         \* nodes with an open in-doubt record

governance == <<objective, policy, snapshot>>
duties     == <<obligation, contract>>
admission  == <<granted, reservation, leases>>
execution  == <<generation, observed, proven, doubt>>
vars == <<governance, status, worker, duties, admission, execution>>

Init ==
    /\ objective = 1 /\ policy = 1 /\ snapshot = 1
    /\ status \in [Nodes -> GraphStatuses]
    /\ worker = [n \in Nodes |-> NoWorker]
    /\ obligation = [o \in Obligations |-> "ABSENT"]
    /\ contract = [o \in Obligations |-> 0] /\ granted = {}
    /\ reservation = [n \in Nodes |-> "NONE"]
    /\ leases = [l \in LeaseIds |-> NoLease]
    /\ generation = [n \in Nodes |-> NoWorker]
    /\ observed = {} /\ proven = {} /\ doubt = {}

-----------------------------------------------------------------------------
\* An event is applied, or its handler raises and the transaction is rolled back.
Offered(accepted, effect) == IF accepted THEN effect ELSE UNCHANGED vars

\* apply_machine: the aggregate is known, and the step legal or none at all.
Movable(n, to) == status[n] # "ABSENT" /\ (status[n] = to \/ <<status[n], to>> \in NodeSteps)

Move(n, to) == status' = [status EXCEPT ![n] = to]

\* A bug to be caught: the record is put in the map whatever is there.
Overwritable(old, none, new) == old = none \/ new # none

\* fmap_insert_immutable: a known identity keeps its content.
Insertable(old, none, new) == old = none \/ old = new

\* _mark_invalidation: back to READY whatever may legally go there.
Reopen(st, ns) ==
    [n \in Nodes |-> IF n \in ns /\ <<st[n], "READY">> \in NodeSteps THEN "READY" ELSE st[n]]

Known == {o \in Obligations : obligation[o] # "ABSENT"}

\* _affected_by_obligations: nodes of the current graph serving one of them.
Affected(os) == {n \in Nodes : status[n] # "ABSENT" /\ Serves[n] \cap os # {}}

ActiveLeases == {l \in LeaseIds : leases[l] # NoLease /\ leases[l].state = "ACTIVE"}

Tokens(n) == {leases[l].token : l \in {k \in LeaseIds : leases[k] # NoLease /\ leases[k].node = n}}

-----------------------------------------------------------------------------
(* Governing objects: objective, policy, work graph, obligations.          *)

\* A bug to be caught: the revision is recorded and nothing is invalidated.
ReviseQuietly ==
    Offered(objective < MaxRevision,
            /\ objective' = objective + 1
            /\ UNCHANGED <<policy, snapshot, status, worker, duties, admission, execution>>)

ObjectiveRevised ==
    Offered(objective < MaxRevision,
            /\ objective' = objective + 1
            /\ status' = Reopen(status, Affected(Known))
            /\ UNCHANGED <<policy, snapshot, worker, duties, admission, execution>>)

\* A bug to be caught: leases are left to the next admission to reject.
KeepLeases(v) == leases

\* Activation revokes the ACTIVE leases of every other policy version.
RevokeOthers(v) ==
    [l \in LeaseIds |-> IF l \in ActiveLeases /\ leases[l].policy # v
                        THEN [leases[l] EXCEPT !.state = "REVOKED"] ELSE leases[l]]

\* An activated policy bears any version: a new one, that of the policy it replaces, or one that was
\* replaced before.  The version alone says which leases are revoked.
PolicyActivated(v) ==
    /\ policy' = v
    /\ leases' = RevokeOthers(v)
    /\ status' = Reopen(status, Affected(Known))
    /\ UNCHANGED <<objective, snapshot, worker, duties, granted, reservation, execution>>

WorkspaceRolledBack(to) ==
    /\ snapshot' = to
    /\ status' = Reopen(status, Affected(Known))
    /\ UNCHANGED <<objective, policy, worker, duties, admission, execution>>

\* A graph of another lineage is refused; one of the same lineage replaces every status, and
\* the nodes the previous graph had for a known obligation are then reopened.
WorkgraphRevised(nodes, lineage) ==
    Offered(lineage = GraphObjective,
            /\ status' = Reopen(nodes, Affected(Known))
            /\ UNCHANGED <<governance, worker, duties, admission, execution>>)

\* Created again with the same content it is accepted: no event moves it out of PENDING.
ObligationCreated(o) ==
    /\ obligation' = [obligation EXCEPT ![o] = "PENDING"]
    /\ UNCHANGED <<governance, status, worker, contract, admission, execution>>

\* The next revision is due, and goes through the insertion that keeps the first: only a first
\* revision is ever accepted.  It reopens the work for its obligation.
AcceptanceContractRevised(o, revision) ==
    Offered(revision = contract[o] + 1 /\ Insertable(contract[o], 0, revision),
            /\ contract' = [contract EXCEPT ![o] = revision]
            /\ status' = Reopen(status, Affected({o} \cap Known))
            /\ UNCHANGED <<governance, worker, obligation, admission, execution>>)

\* OBLIGATION_SATISFIED and WAIVER_GRANTED.
ObligationClosed(o, to) ==
    Offered(obligation[o] # "ABSENT" /\ <<obligation[o], to>> \in ObligationSteps,
            /\ obligation' = [obligation EXCEPT ![o] = to]
            /\ UNCHANGED <<governance, status, worker, contract, admission, execution>>)

EvidenceInvalidated(ns) ==
    /\ status' = Reopen(status, ns)
    /\ UNCHANGED <<governance, worker, duties, admission, execution>>

-----------------------------------------------------------------------------
(* Assignment and authorization.                                           *)

WorkAssigned(n, w) ==
    Offered(Movable(n, "ASSIGNED"),
            /\ Move(n, "ASSIGNED")
            /\ worker' = [worker EXCEPT ![n] = w]
            /\ UNCHANGED <<governance, duties, admission, execution>>)

\* The decision a worker can be given now, and the one a lease of his needs now.
Decision(w) == [worker |-> w, policy |-> policy]

Candidates(w) == {n \in Nodes : worker[n] = w /\ status[n] \in {"READY", "ASSIGNED", "AUTHORIZED"}}

\* _submit derives lineage and frontier from the one candidate of the decision's worker, which
\* must be the node the decision is about; the node moved is the aggregate the command names.
AuthorizationGranted(n, target, w) ==
    Offered(Candidates(w) = {target} /\ Movable(n, "AUTHORIZED"),
            /\ Move(n, "AUTHORIZED")
            /\ granted' = granted \cup {Decision(w)}
            /\ UNCHANGED <<governance, worker, duties, reservation, leases, execution>>)

AuthorizationDenied(n) ==
    Offered(Movable(n, "READY"),
            /\ Move(n, "READY")
            /\ UNCHANGED <<governance, worker, duties, admission, execution>>)

-----------------------------------------------------------------------------
(* Budget reservations and execution leases.                               *)

BudgetReserved(n) ==
    Offered(n \in Funded /\ Insertable(reservation[n], "NONE", "RESERVED"),
            /\ reservation' = [reservation EXCEPT ![n] = "RESERVED"]
            /\ UNCHANGED <<governance, status, worker, duties, granted, leases, execution>>)

\* A bug to be caught: a reservation may be rewritten, and its leases stay as they are.
EndAlone(n, to) ==
    Offered(reservation[n] = "RESERVED",
            /\ reservation' = [reservation EXCEPT ![n] = to]
            /\ UNCHANGED <<governance, status, worker, duties, granted, leases, execution>>)

\* BUDGET_SETTLED, BUDGET_RELEASED, BUDGET_RESERVATION_EXPIRED: the new version of the record
\* goes through the same immutable insertion as the first.
BudgetEnded(n, to) ==
    Offered(reservation[n] = "RESERVED" /\ Insertable(reservation[n], "NONE", to),
            /\ reservation' = [reservation EXCEPT ![n] = to]
            /\ leases' = [l \in LeaseIds |->
                   IF l \in ActiveLeases /\ leases[l].node = n
                   THEN [leases[l] EXCEPT !.state = IF to = "SETTLED" THEN "CONSUMED" ELSE "REVOKED"]
                   ELSE leases[l]]
            /\ UNCHANGED <<governance, status, worker, duties, granted, execution>>)

\* A bug to be caught: only the tokens of ACTIVE leases are compared.
AdmissibleByActive(n, w, token) ==
    /\ status[n] # "ABSENT" /\ worker[n] \in {NoWorker, w}
    /\ reservation[n] = "RESERVED"
    /\ Decision(w) \in granted
    /\ \A l \in ActiveLeases : leases[l].node = n => leases[l].token < token

\* validate_execution_lease and the fencing check.
Admissible(n, w, token) ==
    /\ status[n] # "ABSENT" /\ worker[n] \in {NoWorker, w}
    /\ reservation[n] = "RESERVED"
    /\ Decision(w) \in granted
    /\ \A t \in Tokens(n) : t < token

LeaseIssued(l, n, w, token) ==
    Offered(leases[l] = NoLease /\ Admissible(n, w, token),
            /\ leases' = [leases EXCEPT ![l] =
                   [node |-> n, worker |-> w, token |-> token, policy |-> policy,
                    objective |-> objective, state |-> "ACTIVE"]]
            /\ UNCHANGED <<governance, status, worker, duties, granted, reservation, execution>>)

\* LEASE_EXPIRED and LEASE_REVOKED.
LeaseEnded(l, to) ==
    Offered(l \in ActiveLeases /\ <<"ACTIVE", to>> \in LeaseSteps,
            /\ leases' = [leases EXCEPT ![l].state = to]
            /\ UNCHANGED <<governance, status, worker, duties, granted, reservation, execution>>)

QuiescenceProven(l) ==
    Offered(l \in ActiveLeases,
            /\ proven' = proven \cup {l}
            /\ UNCHANGED <<governance, status, worker, duties, admission, generation, observed, doubt>>)

-----------------------------------------------------------------------------
(* Execution.                                                              *)

\* validate_execution_generation: a previous generation is ACTIVE, and stays so; the generation
\* is of the graph's objective revision, which must be the latest.
Startable(n, g) ==
    /\ Movable(n, "EXECUTING")
    /\ status[g] # "ABSENT" /\ generation[g] = NoWorker /\ objective = GraphObjective

\* The node moved is the aggregate of the command, the generation is for the node of the payload.
ExecutionStarted(n, g, w) ==
    Offered(Startable(n, g),
            /\ Move(n, "EXECUTING")
            /\ generation' = [generation EXCEPT ![g] = w]
            /\ UNCHANGED <<governance, worker, duties, admission, observed, proven, doubt>>)

\* EXECUTION_COMPLETED and EXECUTION_CANCELLED: an outcome that carries a work result is refused,
\* the handler reads a field work results do not have.
ExecutionEnded(n, to, carriesResult) ==
    Offered(Movable(n, to) /\ ~carriesResult,
            /\ Move(n, to)
            /\ UNCHANGED <<governance, worker, duties, admission, execution>>)

\* The observation is not among the objects the reducer reads from a payload.
MutationObserved(n) == UNCHANGED vars

VerificationStarted(n) ==
    Offered(Movable(n, "VERIFYING"),
            /\ Move(n, "VERIFYING")
            /\ UNCHANGED <<governance, worker, duties, admission, execution>>)

\* Refused: no observation a result could be about is ever recorded.
VerificationCompleted(n, to) ==
    Offered(Movable(n, to) /\ n \in observed,
            /\ Move(n, to)
            /\ UNCHANGED <<governance, worker, duties, admission, execution>>)

\* WORK_FAILED, WORK_CANCELLED and BOUNDARY_VIOLATION_DETECTED.
Work(n, to) ==
    Offered(Movable(n, to),
            /\ Move(n, to)
            /\ UNCHANGED <<governance, worker, duties, admission, execution>>)

WorkFailed(n)        == Work(n, "FAILED")
WorkCancelled(n)     == Work(n, "CANCELLED")
BoundaryViolation(n) == Work(n, "IN_DOUBT")

\* The record alone: the node does not move.
InDoubtDeclared(n) ==
    /\ doubt' = doubt \cup {n}
    /\ UNCHANGED <<governance, status, worker, duties, admission, generation, observed, proven>>

\* The payload says where the node goes; that it was in doubt is not asked.
InDoubtResolved(n, to) ==
    Offered(Movable(n, to),
            /\ Move(n, to)
            /\ doubt' = doubt \ {n}
            /\ UNCHANGED <<governance, worker, duties, admission, generation, observed, proven>>)

-----------------------------------------------------------------------------
Governing ==
    \/ ObjectiveRevised
    \/ \E v \in 1..MaxPolicy : PolicyActivated(v)
    \/ \E to \in 1..MaxSnapshot : WorkspaceRolledBack(to)
    \/ \E nodes \in [Nodes -> GraphStatuses \cup {"ABSENT"}], lineage \in 1..MaxRevision :
           WorkgraphRevised(nodes, lineage)
    \/ \E o \in Obligations :
           \/ ObligationCreated(o)
           \/ \E revision \in 1..2 : AcceptanceContractRevised(o, revision)
           \/ \E to \in {"SATISFIED", "WAIVED"} : ObligationClosed(o, to)

Leasing(n) ==
    \/ BudgetReserved(n)
    \/ \E to \in {"SETTLED", "RELEASED", "EXPIRED"} : BudgetEnded(n, to)
    \/ \E l \in LeaseIds, w \in Workers, token \in 1..MaxToken : LeaseIssued(l, n, w, token)

Executing(n) ==
    \/ \E w \in Workers : WorkAssigned(n, w)
    \/ \E other \in Nodes, w \in Workers :
           AuthorizationGranted(n, other, w) \/ ExecutionStarted(n, other, w)
    \/ AuthorizationDenied(n)
    \/ \E to \in {"OBSERVING", "CANCELLED"}, carriesResult \in BOOLEAN :
           ExecutionEnded(n, to, carriesResult)
    \/ MutationObserved(n) \/ VerificationStarted(n)
    \/ \E to \in {"COMPLETED", "FAILED"} : VerificationCompleted(n, to)
    \/ WorkFailed(n) \/ WorkCancelled(n) \/ BoundaryViolation(n)
    \/ InDoubtDeclared(n)
    \/ \E to \in WorkNodeStatus : InDoubtResolved(n, to)
    \/ EvidenceInvalidated({n})

Next ==
    \/ Governing
    \/ \E n \in Nodes : Leasing(n) \/ Executing(n)
    \/ \E l \in LeaseIds :
           QuiescenceProven(l) \/ \E to \in {"EXPIRED", "REVOKED"} : LeaseEnded(l, to)

Spec == Init /\ [][Next]_vars

-----------------------------------------------------------------------------
(* What holds.                                                             *)

\* Types; among them that no event takes an obligation out of PENDING and that a contract keeps
\* its first revision.
TypeOK ==
    /\ objective \in 1..MaxRevision /\ policy \in 1..MaxPolicy /\ snapshot \in 1..MaxSnapshot
    /\ status \in [Nodes -> WorkNodeStatus \cup {"ABSENT"}]
    /\ worker \in [Nodes -> Workers \cup {NoWorker}]
    /\ obligation \in [Obligations -> {"ABSENT", "PENDING"}]
    /\ contract \in [Obligations -> 0..1]
    /\ granted \subseteq Decisions
    /\ reservation \in [Nodes -> BudgetState]
    /\ leases \in [LeaseIds -> Leases \cup {NoLease}]
    /\ generation \in [Nodes -> Workers \cup {NoWorker}]
    /\ observed \subseteq Nodes /\ proven \subseteq LeaseIds /\ doubt \subseteq Nodes

\* No lease is ACTIVE that names another policy version than the active one, whatever was activated
\* after it was issued, versions that come back among them, and whatever was issued in between.  (Of
\* a policy replaced by one of the same version it says nothing: RevokeOthers looks at versions.)
PolicyBound == \A l \in ActiveLeases : leases[l].policy = policy

\* Money backs every running lease: as long as a lease is ACTIVE, the reservation of its node is
\* RESERVED and a decision allowing its worker under its policy is on record.
LeaseBacked ==
    \A l \in ActiveLeases :
        /\ reservation[leases[l].node] = "RESERVED"
        /\ \E d \in granted : d.worker = leases[l].worker /\ d.policy = leases[l].policy

Entry(lease) ==
    IF lease = NoLease THEN NoLease
    ELSE [node |-> lease.node, token |-> lease.token, policy |-> lease.policy,
          standing |-> IF lease.state = "ACTIVE" THEN "LIVE" ELSE "ENDED"]

Book == INSTANCE LeaseBook WITH
    Versions <- 1..MaxPolicy,
    policy <- policy,
    book   <- [l \in LeaseIds |-> Entry(leases[l])]

\* The leases are the book of LeaseBook: tokens of a node only grow, terms never change, a lease that
\* ended stays ended, also when the version it was issued under is activated again, and an activation
\* under another version leaves none of them ACTIVE.
KeepsTheBook == Book!Spec

\* Every revision of the objective and of the policy version reaches the work: right after it, no node
\* that serves a known obligation is still assigned, authorized or completed under the old one.
RevisionReopens ==
    [][objective' # objective \/ policy' # policy =>
           \A n \in Affected(Known) : status'[n] \notin {"ASSIGNED", "AUTHORIZED", "COMPLETED"}]_vars
=============================================================================
