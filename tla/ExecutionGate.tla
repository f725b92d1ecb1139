---------------------------- MODULE ExecutionGate ----------------------------
(***************************************************************************)
(* ExecutionGate.execute_lifecycle: preflight, admission, start, process,  *)
(* quiescence, outcome and cleanup of calls that run side by side, while   *)
(* clients append events, policies change, leases are revoked, keys and    *)
(* workers lose their trust, time passes and gate processes die.  The gate *)
(* appends the events of one outcome one by one, each on the head it read  *)
(* last; an event the control plane does not apply raises.                 *)
(***************************************************************************)
EXTENDS Integers, Sequences, FiniteSets

CONSTANTS
    Calls, Requests, Nodes,
    NodeOf,         \* per request: its work node
    MayAsk,         \* per call: the requests it may be made with
    PostCheckHolds, \* whether the check after admission can hold, see Validated
    MayCrash,       \* bound: calls whose process may die
    MaxDisturbances,\* bound: how often the world around the calls interferes in a behaviour
    None

EventTypes == {"EXECUTION_STARTED", "LEASE_REVOKED", "IN_DOUBT_DECLARED", "WORK_FAILED",
    "BUDGET_RELEASED", "QUIESCENCE_PROVEN", "MUTATION_OBSERVED", "EVIDENCE_ACCEPTED",
    "ASSESSMENT_CREATED", "EXECUTION_COMPLETED"}
Points == {"NEW", "ADMIT", "READ", "CHECK", "START", "SPAWN", "RUN", "JUDGE", "LOAD", "COMMIT", "FAIL", "DONE"}
Signers == {"ISSUER", "WORKER", "BOUNDARY"}

ASSUME ExecutionGateAssumption ==
    /\ NodeOf \in [Requests -> Nodes] /\ MayCrash \subseteq Calls
    /\ MaxDisturbances \in Nat /\ PostCheckHolds \in BOOLEAN
    /\ MayAsk \in [Calls -> SUBSET Requests] /\ None \notin Requests

VARIABLES
    pc,         \* per call: where execute_lifecycle stands
    request,    \* per call: the authorized request it was made with
    todo,       \* per call: the events it has still to append
    cleaning,   \* calls inside the except block
    fresh,      \* calls for which the head they last read is still the head
    anchored,   \* requests with nothing but their own events since they were bound to a state
    authority,  \* per request: NEW, VALID, or VOID while a policy of another version is active
    node,       \* per node: its status
    lease,      \* per request: its execution lease
    generation, \* per node: the request whose execution was started
    proven,     \* requests with a recorded quiescence proof
    doubt,      \* nodes with an in-doubt record
    nonce, row, \* per request: the runtime's nonce and reservation row
    expired,    \* requests whose nonce and reservation have run out
    trust,      \* keys and attestations that are current
    proc,       \* per call: NONE, RUNNING, SURVIVOR (of its group) or GONE
    cancelled,  \* calls whose worker was told to cancel
    failed,     \* history: calls that recorded WORK_FAILED
    disturbed   \* how often the world has interfered

gate      == <<pc, todo, cleaning, failed>>
world     == <<request, trust, expired>>
canonical == <<authority, node, lease, generation, proven, doubt>>
runtime   == <<nonce, row>>
os        == <<proc, cancelled>>
vars == <<gate, fresh, world, anchored, canonical, runtime, os, disturbed>>

Init ==
    /\ pc = [c \in Calls |-> "NEW"] /\ request \in [Calls -> Requests] /\ (\A c \in Calls : request[c] \in MayAsk[c])
    /\ todo = [c \in Calls |-> <<>>] /\ cleaning = {} /\ fresh = {} /\ failed = {}
    /\ anchored = {}
    /\ authority = [r \in Requests |-> "NEW"] /\ node = [n \in Nodes |-> "READY"]
    /\ lease = [r \in Requests |-> "NONE"] /\ generation = [n \in Nodes |-> None]
    /\ proven = {} /\ doubt = {}
    /\ nonce = [r \in Requests |-> "ISSUED"] /\ row = [r \in Requests |-> "NONE"]
    /\ expired = {} /\ trust = Signers
    /\ proc = [c \in Calls |-> "NONE"] /\ cancelled = {} /\ disturbed = 0

-----------------------------------------------------------------------------
Node(c) == NodeOf[request[c]]

ActiveOn(n) == {r \in Requests : NodeOf[r] = n /\ lease[r] = "ACTIVE"}

Goto(c, p) == pc' = [pc EXCEPT ![c] = p]

\* The call raises outside the try block, or out of it: nothing is cleaned up any more.
Raise(c) ==
    /\ Goto(c, "DONE") /\ fresh' = fresh \ {c}
    /\ UNCHANGED <<todo, cleaning, failed, world, anchored, canonical, runtime, os>>

\* The decision behind the request is one under the version of the active policy.
Decided(r) == authority[r] = "VALID"

\* verify_authorization_lease, as far as it can change between preflight and admission: of the
\* policy it compares the version.
Authorized(r) == Decided(r) /\ "ISSUER" \in trust /\ r \notin expired

\* The worker's attestation is on record and its signature current.
WorkerAttested == "WORKER" \in trust

\* The boundary can attest quiescence: its key verifies.
Attestable == "BOUNDARY" \in trust

\* Since the state the request is bound to, only its own authorization and reservation followed.
Untouched(r) == r \in anchored

\* _preflight: only this request's events since its anchor, no ACTIVE lease of its node, a
\* decision that still validates, an attested worker and a current authorization lease.
Preflight(c) ==
    /\ pc[c] = "NEW" /\ authority[request[c]] # "NEW"
    /\ IF /\ Untouched(request[c]) /\ ActiveOn(Node(c)) = {}
          /\ WorkerAttested /\ Authorized(request[c])
       THEN /\ Goto(c, "ADMIT")
            /\ UNCHANGED <<todo, cleaning, failed, fresh, world, anchored, canonical, runtime, os>>
       ELSE Raise(c)

\* A bug to be caught: admission trusts the preflight's look at the node's leases.
AdmissibleAsSeen(r) ==
    /\ Authorized(r) /\ lease[r] = "NONE"
    /\ row[r] = "NONE" /\ nonce[r] = "ISSUED"

\* What _admit looks at again under the write lock.
Admissible(r) ==
    /\ Authorized(r) /\ ActiveOn(NodeOf[r]) = {} /\ lease[r] = "NONE"
    /\ row[r] = "NONE" /\ nonce[r] = "ISSUED"

\* _admit: reservation row, nonce, LEASE_ISSUED and EXECUTION_INTENT in one transaction.
Admit(c) ==
    LET r == request[c] IN
    /\ pc[c] = "ADMIT"
    /\ IF Admissible(r)
       THEN /\ Goto(c, "READ") /\ fresh' = {} /\ anchored' = anchored \cap {r}
            /\ lease' = [lease EXCEPT ![r] = "ACTIVE"]
            /\ nonce' = [nonce EXCEPT ![r] = "CONSUMED"] /\ row' = [row EXCEPT ![r] = "RESERVED"]
            /\ UNCHANGED <<todo, cleaning, failed, world, authority, node, generation, proven, doubt, os>>
       ELSE Raise(c)

\* _verify_budget_reservation: the canonical reservation never ends, the row and the time may.
Funded(r) == row[r] = "RESERVED" /\ r \notin expired

\* validate_execution_lease, called with the state after LEASE_ISSUED, compares the lease with
\* that state's head: as written it cannot hold.  The gate's tests put True in its place.
Validated(r) == lease[r] = "ACTIVE" /\ PostCheckHolds

\* The state read after the admission, which the generation will be bound to, and what is checked
\* in it, outside the try block.  If others have appended events, a policy of the version in force
\* may be among them whose profiles the decision is not of.
Read(c) ==
    LET r == request[c] IN
    /\ pc[c] = "READ"
    /\ \/ /\ Validated(r) /\ Decided(r)
          /\ Goto(c, "CHECK") /\ fresh' = fresh \cup {c}
          /\ UNCHANGED <<todo, cleaning, failed, world, anchored, canonical, runtime, os>>
       \/ (Validated(r) /\ Decided(r) => ~Untouched(r)) /\ Raise(c)

\* A bug to be caught: the process is spawned first, the start recorded afterwards.
BeginUnrecorded(c) == Goto(c, "SPAWN")

\* EXECUTION_STARTED is to be recorded before the process is spawned.
Begin(c) == Goto(c, "START")

\* The runtime rows, and boundary.enter, which may refuse as well; still outside the try block.
Check(c) ==
    /\ pc[c] = "CHECK"
    /\ \/ /\ Funded(request[c]) /\ nonce[request[c]] = "CONSUMED" /\ Begin(c)
          /\ UNCHANGED <<todo, cleaning, failed, fresh, world, anchored, canonical, runtime, os>>
       \/ Raise(c)

-----------------------------------------------------------------------------
\* Anything appended to the history: other calls' heads are stale, other requests' anchors lost.
Appended(heads, bound) == fresh' = heads /\ anchored' = anchored \cap bound

\* A bug to be caught: the generation is bound to whatever the state is when it is recorded.
StartableRebased(c) == node[Node(c)] \in {"AUTHORIZED", "EXECUTING"} /\ generation[Node(c)] = None

\* A bug to be caught: whether the node has been executed already is not looked at.
StartableAgain(c) == c \in fresh /\ node[Node(c)] \in {"AUTHORIZED", "EXECUTING"}

\* validate_execution_generation: the state the generation was bound to is still the present
\* one, and the node has had no generation.
Startable(c) ==
    /\ c \in fresh
    /\ node[Node(c)] \in {"AUTHORIZED", "EXECUTING"} /\ generation[Node(c)] = None

\* The first commit_events, inside the try block.
Start(c) ==
    /\ pc[c] = "START"
    /\ IF Startable(c)
       THEN /\ Goto(c, "SPAWN") /\ Appended({}, {request[c]})
            /\ node' = [node EXCEPT ![Node(c)] = "EXECUTING"]
            /\ generation' = [generation EXCEPT ![Node(c)] = request[c]]
            /\ UNCHANGED <<todo, cleaning, failed, world, authority, lease, proven, doubt, runtime, os>>
       ELSE /\ Goto(c, "FAIL")
            /\ UNCHANGED <<todo, cleaning, failed, fresh, world, anchored, canonical, runtime, os>>

\* SubprocessWorker.execute: the reservation is looked at again, the lease is not; a cancelled
\* worker refuses, and the boundary may refuse for reasons of its own.
Spawn(c) ==
    /\ pc[c] = "SPAWN"
    /\ \/ /\ Funded(request[c]) /\ c \notin cancelled
          /\ Goto(c, "RUN") /\ proc' = [proc EXCEPT ![c] = "RUNNING"]
       \/ Goto(c, "FAIL") /\ UNCHANGED proc
    /\ UNCHANGED <<todo, cleaning, failed, fresh, world, anchored, canonical, runtime, cancelled>>

\* A bug to be caught: no deadline.
NoDeadline(c) == FALSE

\* _run_from_gate past its deadline: the whole process group is killed.
Deadline(c) == pc[c] = "RUN" /\ Goto(c, "JUDGE") /\ proc' = [proc EXCEPT ![c] = "GONE"]

\* The leader exits, by itself or killed with its group; by itself, it may leave others behind.
Exit(c, to) ==
    /\ pc[c] = "RUN" /\ (to = "GONE" \/ proc[c] = "RUNNING")
    /\ Goto(c, "JUDGE") /\ proc' = [proc EXCEPT ![c] = to]

\* Another executable is seen in the process tree: kill and raise.
Unidentified(c) == pc[c] = "RUN" /\ Goto(c, "FAIL") /\ proc' = [proc EXCEPT ![c] = "GONE"]

RunLeaves == UNCHANGED <<todo, cleaning, failed, fresh, world, anchored, canonical, runtime, cancelled>>

RunEnds(c) ==
    /\ Deadline(c) \/ Unidentified(c) \/ \E to \in {"GONE", "SURVIVOR"} : Exit(c, to)
    /\ RunLeaves

\* A bug to be caught: the leader's end is taken for the group's.
LeaderGone(c) == proc[c] # "RUNNING"

\* killpg(pid, 0) finds nobody.
Quiescent(c) == proc[c] = "GONE"

\* boundary.kill hits every pid in _active_pids.  The run of its own call has returned and taken
\* its pid out; which of the calls still running share the boundary is left open.
Kill ==
    \E hit \in SUBSET {c \in Calls : pc[c] = "RUN"} :
        proc' = [c \in Calls |-> IF c \in hit THEN "GONE" ELSE proc[c]]

\* A bug to be caught: the failure is recorded before the lease is given up.
FailureFirst(r) ==
    <<"WORK_FAILED">> \o (IF lease[r] = "ACTIVE" THEN <<"LEASE_REVOKED">> ELSE <<>>) \o <<"BUDGET_RELEASED">>

\* A bug to be caught: the cleanup ends with the lease.
CleanupLeaseOnly(r) == IF lease[r] = "ACTIVE" THEN <<"LEASE_REVOKED">> ELSE <<>>

\* The events of the except block, from the state loaded there: an ACTIVE lease is given up first.
CleanupEvents(r) ==
    IF lease[r] = "ACTIVE" THEN <<"LEASE_REVOKED", "WORK_FAILED", "BUDGET_RELEASED">>
                           ELSE <<"WORK_FAILED", "BUDGET_RELEASED">>

DoubtEvents(r) ==
    IF lease[r] = "ACTIVE" THEN <<"LEASE_REVOKED", "IN_DOUBT_DECLARED", "WORK_FAILED", "BUDGET_RELEASED">>
                           ELSE <<"IN_DOUBT_DECLARED", "WORK_FAILED", "BUDGET_RELEASED">>

OutcomeEvents ==
    <<"QUIESCENCE_PROVEN", "MUTATION_OBSERVED", "EVIDENCE_ACCEPTED", "ASSESSMENT_CREATED", "EXECUTION_COMPLETED">>

\* Quiescence, proof and outcome; attest raises when the boundary's key is not trusted.
Judge(c) ==
    /\ pc[c] = "JUDGE"
    /\ IF Quiescent(c) /\ ~Attestable
       THEN Goto(c, "FAIL") /\ UNCHANGED <<todo, proc>>
       ELSE /\ Goto(c, "LOAD")
            /\ todo' = [todo EXCEPT ![c] = IF Quiescent(c) THEN OutcomeEvents ELSE DoubtEvents(request[c])]
            /\ IF Quiescent(c) THEN UNCHANGED proc ELSE Kill
    /\ UNCHANGED <<cleaning, failed, fresh, world, anchored, canonical, runtime, cancelled>>

\* The except block, up to its commit_events.
Fail(c) ==
    /\ pc[c] = "FAIL" /\ Kill
    /\ Goto(c, "LOAD") /\ cleaning' = cleaning \cup {c}
    /\ todo' = [todo EXCEPT ![c] = CleanupEvents(request[c])]
    /\ UNCHANGED <<failed, fresh, world, anchored, canonical, runtime, cancelled>>

\* commit_events reads the state its next event is chained on.
Load(c) ==
    /\ pc[c] = "LOAD" /\ Goto(c, "COMMIT") /\ fresh' = fresh \cup {c}
    /\ UNCHANGED <<todo, cleaning, failed, world, anchored, canonical, runtime, os>>

\* Which of the gate's events the reducer takes.  Observations are not recorded, so no evidence
\* can refer to one, and a reservation's record is insert-only.
Applicable(c, e) ==
    \/ e \in {"IN_DOUBT_DECLARED", "MUTATION_OBSERVED"}
    \/ e = "LEASE_REVOKED" /\ lease[request[c]] = "ACTIVE"
    \/ e = "QUIESCENCE_PROVEN" /\ lease[request[c]] = "ACTIVE" /\ Attestable
    \/ e = "WORK_FAILED" /\ node[Node(c)] \in {"EXECUTING", "FAILED"}

\* One round of commit_events: STALE_HEAD and refusals raise, what was appended before stays.  No
\* batch gets to its end, a BUDGET_RELEASED or an EXECUTION_COMPLETED that is applied.
Commit(c) ==
    LET e == Head(todo[c])
        r == request[c]
    IN
    /\ pc[c] = "COMMIT"
    /\ IF c \in fresh /\ Applicable(c, e)
       THEN /\ Goto(c, "LOAD") /\ todo' = [todo EXCEPT ![c] = Tail(@)] /\ Appended({}, {})
            /\ lease' = IF e = "LEASE_REVOKED" THEN [lease EXCEPT ![r] = "REVOKED"] ELSE lease
            /\ node' = IF e = "WORK_FAILED" THEN [node EXCEPT ![Node(c)] = "FAILED"] ELSE node
            /\ failed' = IF e = "WORK_FAILED" THEN failed \cup {c} ELSE failed
            /\ proven' = IF e = "QUIESCENCE_PROVEN" THEN proven \cup {r} ELSE proven
            /\ doubt' = IF e = "IN_DOUBT_DECLARED" THEN doubt \cup {Node(c)} ELSE doubt
            /\ UNCHANGED <<cleaning, world, authority, generation, runtime, os>>
       ELSE /\ Goto(c, IF c \in cleaning THEN "DONE" ELSE "FAIL")
            /\ todo' = [todo EXCEPT ![c] = <<>>] /\ fresh' = fresh \ {c}
            /\ UNCHANGED <<cleaning, failed, world, anchored, canonical, runtime, os>>

\* What the gate's own thread does.
Proceed(c) ==
    \/ Preflight(c) \/ Admit(c) \/ Read(c) \/ Check(c) \/ Start(c) \/ Spawn(c)
    \/ Judge(c) \/ Fail(c) \/ Load(c) \/ Commit(c)

Step(c) == Proceed(c) \/ RunEnds(c)

-----------------------------------------------------------------------------
\* The gate's process dies; bwrap's --die-with-parent takes the processes with it.
Crash(c) ==
    /\ c \in MayCrash /\ pc[c] \notin {"NEW", "DONE"} /\ Goto(c, "DONE") /\ fresh' = fresh \ {c}
    /\ todo' = [todo EXCEPT ![c] = <<>>]
    /\ proc' = [proc EXCEPT ![c] = IF @ = "NONE" THEN @ ELSE "GONE"]
    /\ UNCHANGED <<cleaning, failed, world, anchored, canonical, runtime, cancelled>>

\* A decision allows the request and its reservation is recorded; the node is (still) AUTHORIZED.
Authorize(r) ==
    /\ authority[r] = "NEW" /\ node[NodeOf[r]] \in {"READY", "AUTHORIZED"}
    /\ authority' = [authority EXCEPT ![r] = "VALID"]
    /\ node' = [node EXCEPT ![NodeOf[r]] = "AUTHORIZED"] /\ fresh' = {} /\ anchored' = {r}
    /\ UNCHANGED <<gate, world, lease, generation, proven, doubt, runtime, os>>

\* A policy of the version in force leaves decisions and leases as they are.  One of another version
\* voids what was decided under the present one, revokes its ACTIVE leases, and may bring back
\* decisions of its own.  Either reopens the work that is not running.
PolicyActivated ==
    LET given == {r \in Requests : authority[r] # "NEW"}
        void  == {r \in given : authority[r] = "VOID"}
    IN
    /\ given # {}
    /\ \E voided \in {void} \cup {v \in SUBSET given : given \ void \subseteq v} :
          /\ authority' = [r \in Requests |-> CASE r \in voided -> "VOID" [] r \in given -> "VALID" [] OTHER -> "NEW"]
          /\ lease' = [r \in Requests |-> IF lease[r] = "ACTIVE" /\ r \in voided THEN "REVOKED" ELSE lease[r]]
    /\ node' = [n \in Nodes |-> IF node[n] \in {"AUTHORIZED", "FAILED"} THEN "READY" ELSE node[n]]
    /\ Appended({}, {})
    /\ UNCHANGED <<gate, world, generation, proven, doubt, runtime, os>>

\* LEASE_REVOKED or LEASE_EXPIRED, submitted by somebody else.
LeaseEnded(r) ==
    /\ lease[r] = "ACTIVE" /\ lease' = [lease EXCEPT ![r] = "REVOKED"] /\ Appended({}, {})
    /\ UNCHANGED <<gate, world, authority, node, generation, proven, doubt, runtime, os>>

\* Any other event of any other client.
Unrelated ==
    /\ Appended({}, {}) /\ UNCHANGED <<gate, world, canonical, runtime, os>>

\* SQLiteBudgetAllocator.release.
RowReleased(r) ==
    /\ row[r] = "RESERVED" /\ row' = [row EXCEPT ![r] = "ENDED"]
    /\ UNCHANGED <<gate, fresh, world, anchored, canonical, nonce, os>>

Expire(r) ==
    /\ r \notin expired /\ expired' = expired \cup {r}
    /\ UNCHANGED <<gate, fresh, request, trust, anchored, canonical, runtime, os>>

\* A key is revoked or rotated out, a worker's attestation withdrawn.
Distrust(k) ==
    /\ k \in trust /\ trust' = trust \ {k}
    /\ UNCHANGED <<gate, fresh, request, expired, anchored, canonical, runtime, os>>

\* SubprocessWorker.cancel: the pid is known to the worker only when its run has returned.
Cancel(c) ==
    /\ c \notin cancelled /\ cancelled' = cancelled \cup {c}
    /\ proc' = IF proc[c] = "SURVIVOR" THEN [proc EXCEPT ![c] = "GONE"] ELSE proc
    /\ UNCHANGED <<gate, fresh, world, anchored, canonical, runtime>>

SurvivorEnds(c) ==
    /\ proc[c] = "SURVIVOR" /\ proc' = [proc EXCEPT ![c] = "GONE"]
    /\ UNCHANGED <<gate, fresh, world, anchored, canonical, runtime, cancelled>>

Disturb ==
    \/ \E c \in Calls : Crash(c) \/ Cancel(c)
    \/ \E r \in Requests : LeaseEnded(r) \/ RowReleased(r) \/ Expire(r)
    \/ \E k \in Signers : Distrust(k)
    \/ PolicyActivated \/ Unrelated

Next ==
    \/ \E c \in Calls : Step(c) /\ UNCHANGED disturbed
    \/ \E c \in Calls : SurvivorEnds(c) /\ UNCHANGED disturbed
    \/ \E r \in Requests : Authorize(r) /\ UNCHANGED disturbed
    \/ disturbed < MaxDisturbances /\ disturbed' = disturbed + 1 /\ Disturb

\* A call is a thread that goes on; a process need not end, its deadline comes.
Fairness ==
    \A c \in Calls :
        /\ WF_vars(Proceed(c) /\ UNCHANGED disturbed)
        /\ WF_vars(Deadline(c) /\ RunLeaves /\ UNCHANGED disturbed)

Spec == Init /\ [][Next]_vars /\ Fairness

-----------------------------------------------------------------------------
Live(c) == proc[c] \in {"RUNNING", "SURVIVOR"}

\* Types; among them that a call with events to append is at a point where it appends them.
TypeOK ==
    /\ pc \in [Calls -> Points] /\ request \in [Calls -> Requests]
    /\ \A c \in Calls : todo[c] \in Seq(EventTypes) /\ (pc[c] = "COMMIT" => todo[c] # <<>>)
    /\ cleaning \subseteq Calls /\ fresh \subseteq Calls /\ failed \subseteq Calls
    /\ trust \subseteq Signers
    /\ anchored \subseteq Requests /\ expired \subseteq Requests /\ proven \subseteq Requests
    /\ authority \in [Requests -> {"NEW", "VALID", "VOID"}]
    /\ node \in [Nodes -> {"READY", "AUTHORIZED", "EXECUTING", "FAILED"}]
    /\ lease \in [Requests -> {"NONE", "ACTIVE", "REVOKED"}]
    /\ generation \in [Nodes -> Requests \cup {None}] /\ doubt \subseteq Nodes
    /\ nonce \in [Requests -> {"ISSUED", "CONSUMED"}] /\ row \in [Requests -> {"NONE", "RESERVED", "ENDED"}]
    /\ proc \in [Calls -> {"NONE", "RUNNING", "SURVIVOR", "GONE"}] /\ cancelled \subseteq Calls
    /\ disturbed \in 0 .. MaxDisturbances

\* However preflights and admissions of two requests of a node interleave, at most one of them
\* holds an ACTIVE lease (the second look at the leases in _admit).
OneActivePerNode == \A n \in Nodes : Cardinality(ActiveOn(n)) <= 1

\* However leases are revoked and given again, no two calls have processes on one node: the
\* node's generation is recorded before the first and never replaced (execute_lifecycle).
OneProcessPerNode == \A c, d \in Calls : Live(c) /\ Live(d) /\ Node(c) = Node(d) => c = d

\* A process has its durable start behind it: lease, nonce and generation of its request are
\* recorded, so that a crash leaves no process nobody knows of.
SpawnRecorded ==
    \A c \in Calls : proc[c] # "NONE" =>
        /\ generation[Node(c)] # None
        /\ nonce[request[c]] = "CONSUMED" /\ lease[request[c]] # "NONE"

\* A recorded quiescence proof means that nothing of the process group runs.
ProvenMeansGone == \A c \in Calls : request[c] \in proven => ~Live(c)

\* Work the gate has declared failed holds no ACTIVE lease, whatever was appended between the
\* events of the cleanup (order of the events in the except block).
FailedHasNoLease == \A c \in failed : lease[request[c]] # "ACTIVE"

\* A start is recorded only under an ACTIVE lease and a decision of the active version, although
\* the reducer looks at neither: any event since the admission makes it refuse the generation.
StartsUnderLease ==
    [][\A n \in Nodes : generation'[n] # generation[n] =>
           lease[generation'[n]] = "ACTIVE" /\ authority[generation'[n]] = "VALID"]_vars

\* Every call comes to an end, whatever it meets.
EveryGateCallEnds == \A c \in Calls : pc[c] \notin {"NEW", "DONE"} ~> pc[c] = "DONE"

-----------------------------------------------------------------------------
(* What the documents say and the gate does not do.                        *)

\* "A failure after step 6 cancels the lease and appends WorkFailed/LeaseRevoked": a call that
\* was admitted and has ended without crashing holds no ACTIVE lease.
StrandedLease ==
    \A c \in Calls \ MayCrash : pc[c] = "DONE" /\ generation[Node(c)] = None => lease[request[c]] # "ACTIVE"
=============================================================================
