------------------------- MODULE ExecutionGateProofs -------------------------
(***************************************************************************)
(* Theorems about ExecutionGate for any number of calls, requests, nodes,  *)
(* crashes and disturbances: every safety property its runs check.  That   *)
(* every call ends rests on fairness and stays with TLC.                   *)
(***************************************************************************)
EXTENDS ExecutionGate, FiniteSetTheorems, TLAPS

-----------------------------------------------------------------------------
(* The inductive invariant.                                                *)

\* What a call may still have to append: the rest of an outcome, of an in-doubt declaration or of
\* a cleanup.  The last event of each is one the reducer refuses.
Failures == {<<"WORK_FAILED", "BUDGET_RELEASED">>, <<"IN_DOUBT_DECLARED", "WORK_FAILED", "BUDGET_RELEASED">>}
Remaining == Failures \cup
    {<<>>, OutcomeEvents,
     <<"MUTATION_OBSERVED", "EVIDENCE_ACCEPTED", "ASSESSMENT_CREATED", "EXECUTION_COMPLETED">>,
     <<"EVIDENCE_ACCEPTED", "ASSESSMENT_CREATED", "EXECUTION_COMPLETED">>,
     <<"LEASE_REVOKED", "WORK_FAILED", "BUDGET_RELEASED">>,
     <<"LEASE_REVOKED", "IN_DOUBT_DECLARED", "WORK_FAILED", "BUDGET_RELEASED">>,
     <<"BUDGET_RELEASED">>}

Planned == todo \in [Calls -> Remaining]
Plans == \A c \in Calls :
    todo[c] \in Remaining /\ (todo[c] # <<>> <=> pc[c] \in {"LOAD", "COMMIT"})

\* At most one ACTIVE lease of a node, element by element.
OneLease == \A r, s \in Requests :
    lease[r] = "ACTIVE" /\ lease[s] = "ACTIVE" /\ NodeOf[r] = NodeOf[s] => r = s

\* A call between admission and its end, or with a process, has spent its nonce and had its lease.
Paid == \A c \in Calls :
    pc[c] \notin {"NEW", "ADMIT", "DONE"} \/ proc[c] # "NONE" =>
        nonce[request[c]] = "CONSUMED" /\ lease[request[c]] # "NONE"

\* Where a call can have a process.
Spawned == \A c \in Calls :
    /\ pc[c] \in {"NEW", "ADMIT", "READ", "CHECK", "START", "SPAWN"} => proc[c] = "NONE"
    /\ pc[c] = "RUN" => proc[c] \in {"RUNNING", "GONE"}

\* A call that is about to spawn or has spawned is the one that recorded its node's generation.
Started(c) == pc[c] = "SPAWN" \/ proc[c] # "NONE"
Starts ==
    /\ \A c \in Calls : Started(c) => generation[Node(c)] # None
    /\ \A c, d \in Calls : Started(c) /\ Started(d) /\ Node(c) = Node(d) => c = d

\* As long as the head a call read after its admission is the head, its lease and decision stand.
Current == \A c \in fresh :
    pc[c] \in {"CHECK", "START"} => lease[request[c]] = "ACTIVE" /\ authority[request[c]] = "VALID"

\* A proof of quiescence is appended, or has been, by a call whose process group is gone.
Quiet ==
    /\ \A c \in Calls : todo[c] = OutcomeEvents => proc[c] = "GONE"
    /\ \A r \in proven : \E c \in Calls : request[c] = r /\ proc[c] = "GONE"

\* With no LEASE_REVOKED left to append before WORK_FAILED, the lease has been revoked.
Failing == \A c \in Calls : todo[c] \in Failures \/ c \in failed => lease[request[c]] = "REVOKED"

IInv == TypeOK /\ Planned /\ Plans /\ OneLease /\ Paid /\ Spawned /\ Starts /\ Current /\ Quiet /\ Failing

-----------------------------------------------------------------------------
(* Lemmas about the events of a call.                                      *)

\* What remains to be appended is a sequence of events.
LEMMA RemainingType == Remaining \subseteq Seq(EventTypes)
BY DEF Remaining, Failures, OutcomeEvents, EventTypes

\* Nothing left to append is no plan, and an outcome is no declaration of failure.
LEMMA PlansApart ==
    /\ <<>> \in Remaining /\ OutcomeEvents \in Remaining /\ OutcomeEvents # <<>>
    /\ <<>> \notin Failures /\ OutcomeEvents \notin Failures
BY DEF Remaining, Failures, OutcomeEvents

\* The cleanup starts with the revocation exactly if the lease is ACTIVE.
LEMMA CleanupPlan ==
    ASSUME NEW r
    PROVE  /\ CleanupEvents(r) \in Remaining \ {<<>>, OutcomeEvents}
           /\ DoubtEvents(r) \in Remaining \ {<<>>, OutcomeEvents}
           /\ lease[r] = "ACTIVE" => CleanupEvents(r) \notin Failures /\ DoubtEvents(r) \notin Failures
<1>1. CASE lease[r] = "ACTIVE"
    <2>1. CleanupEvents(r) = <<"LEASE_REVOKED", "WORK_FAILED", "BUDGET_RELEASED">>
        BY <1>1 DEF CleanupEvents
    <2>2. DoubtEvents(r) = <<"LEASE_REVOKED", "IN_DOUBT_DECLARED", "WORK_FAILED", "BUDGET_RELEASED">>
        BY <1>1 DEF DoubtEvents
    <2>. QED BY <2>1, <2>2 DEF Remaining, Failures, OutcomeEvents
<1>2. CASE lease[r] # "ACTIVE"
    <2>1. CleanupEvents(r) = <<"WORK_FAILED", "BUDGET_RELEASED">>
        BY <1>2 DEF CleanupEvents
    <2>2. DoubtEvents(r) = <<"IN_DOUBT_DECLARED", "WORK_FAILED", "BUDGET_RELEASED">>
        BY <1>2 DEF DoubtEvents
    <2>. QED BY <1>2, <2>1, <2>2 DEF Remaining, Failures, OutcomeEvents
<1>. QED BY <1>1, <1>2

\* Appending an event the reducer takes leaves something to append.
LEMMA NextEvent ==
    ASSUME NEW s \in Remaining, s # <<>>,
           Head(s) \in {"IN_DOUBT_DECLARED", "MUTATION_OBSERVED", "LEASE_REVOKED", "QUIESCENCE_PROVEN", "WORK_FAILED"}
    PROVE  /\ Tail(s) \in Remaining \ {<<>>, OutcomeEvents}
           /\ Tail(s) \in Failures => s \in Failures \/ Head(s) = "LEASE_REVOKED"
           /\ Head(s) = "WORK_FAILED" => s \in Failures
           /\ Head(s) = "QUIESCENCE_PROVEN" => s = OutcomeEvents
           /\ Head(s) = "LEASE_REVOKED" => s \notin Failures
<1>1. CASE s = <<"WORK_FAILED", "BUDGET_RELEASED">>
    BY <1>1 DEF Remaining, Failures, OutcomeEvents
<1>2. CASE s = <<"IN_DOUBT_DECLARED", "WORK_FAILED", "BUDGET_RELEASED">>
    BY <1>2 DEF Remaining, Failures, OutcomeEvents
<1>3. CASE s = OutcomeEvents
    BY <1>3 DEF Remaining, Failures, OutcomeEvents
<1>4. CASE s = <<"MUTATION_OBSERVED", "EVIDENCE_ACCEPTED", "ASSESSMENT_CREATED", "EXECUTION_COMPLETED">>
    BY <1>4 DEF Remaining, Failures, OutcomeEvents
<1>5. CASE s = <<"EVIDENCE_ACCEPTED", "ASSESSMENT_CREATED", "EXECUTION_COMPLETED">>
    BY <1>5 DEF Remaining, Failures, OutcomeEvents
<1>6. CASE s = <<"LEASE_REVOKED", "WORK_FAILED", "BUDGET_RELEASED">>
    BY <1>6 DEF Remaining, Failures, OutcomeEvents
<1>7. CASE s = <<"LEASE_REVOKED", "IN_DOUBT_DECLARED", "WORK_FAILED", "BUDGET_RELEASED">>
    BY <1>7 DEF Remaining, Failures, OutcomeEvents
<1>8. CASE s = <<"BUDGET_RELEASED">>
    BY <1>8 DEF Remaining, Failures, OutcomeEvents
<1>. QED
    BY <1>1, <1>2, <1>3, <1>4, <1>5, <1>6, <1>7, <1>8 DEF Remaining, Failures

\* The beginning.
LEMMA InitInv == Init => IInv
<1> SUFFICES ASSUME Init PROVE IInv
    OBVIOUS
<1>1. TypeOK
    BY ExecutionGateAssumption DEF Init, TypeOK, Points, Signers, EventTypes
<1>2. Planned /\ Plans
    BY PlansApart DEF Init, Planned, Plans
<1>. QED
    BY <1>1, <1>2 DEF Init, IInv, OneLease, Paid, Spawned, Starts, Started, Current, Quiet, Failing,
                      Failures, OutcomeEvents

\* A call that raises with nothing left to append.
LEMMA RaiseInv == ASSUME NEW c \in Calls, IInv, Raise(c), pc[c] \in {"NEW", "ADMIT", "READ", "CHECK"}, disturbed' \in 0 .. MaxDisturbances PROVE IInv'
<1>. USE ExecutionGateAssumption DEF gate, world, canonical, runtime, os, Raise, Goto
<1>1. Plans'
    BY DEF IInv, TypeOK, Plans
<1>2. TypeOK'
    BY <1>1, RemainingType DEF IInv, Plans, TypeOK, Points
<1>3. Planned'
    BY DEF IInv, Planned
<1>4. OneLease'
    BY DEF IInv, TypeOK, OneLease
<1>5. Paid'
    BY DEF IInv, TypeOK, Paid
<1>6. Spawned'
    BY DEF IInv, TypeOK, Spawned
<1>7. Starts'
    BY DEF IInv, TypeOK, Starts, Started, Node
<1>8. Current'
    BY DEF IInv, TypeOK, Current
<1>9. Quiet'
    BY DEF IInv, TypeOK, Quiet
<1>10. Failing'
    BY DEF IInv, TypeOK, Failing
<1>. QED
    BY <1>1, <1>2, <1>3, <1>4, <1>5, <1>6, <1>7, <1>8, <1>9, <1>10 DEF IInv

\* Preflight.
LEMMA PreflightInv == ASSUME NEW c \in Calls, IInv, Preflight(c), disturbed' \in 0 .. MaxDisturbances PROVE IInv'
<1>1. CASE Raise(c)
    BY <1>1, RaiseInv DEF Preflight
<1>2. CASE ~Raise(c)
    <2>. USE <1>2
    <2>. USE ExecutionGateAssumption DEF gate, world, canonical, runtime, os, Preflight, Goto
    <2>1. Plans'
        BY DEF IInv, TypeOK, Plans
    <2>2. TypeOK'
        <3>1. (pc \in [Calls -> Points])'
            BY DEF IInv, TypeOK, Points
        <3>. QED
            BY <2>1, RemainingType, <3>1 DEF IInv, Plans, TypeOK
    <2>3. Planned'
        BY DEF IInv, Planned
    <2>4. OneLease'
        BY DEF IInv, TypeOK, OneLease
    <2>5. Paid'
        BY DEF IInv, TypeOK, Paid
    <2>6. Spawned'
        BY DEF IInv, TypeOK, Spawned
    <2>7. Starts'
        BY DEF IInv, TypeOK, Starts, Started, Node
    <2>8. Current'
        BY DEF IInv, TypeOK, Current
    <2>9. Quiet'
        BY DEF IInv, TypeOK, Quiet
    <2>10. Failing'
        BY DEF IInv, TypeOK, Failing
    <2>. QED
        BY <2>1, <2>2, <2>3, <2>4, <2>5, <2>6, <2>7, <2>8, <2>9, <2>10 DEF IInv
<1>. QED
    BY <1>1, <1>2

\* Admission.
LEMMA AdmitInv == ASSUME NEW c \in Calls, IInv, Admit(c), disturbed' \in 0 .. MaxDisturbances PROVE IInv'
<1>1. CASE Raise(c)
    BY <1>1, RaiseInv DEF Admit
<1>2. CASE ~Raise(c)
    <2>. USE <1>2
    <2>. USE ExecutionGateAssumption DEF gate, world, canonical, runtime, os, Admit, Goto, Admissible
    <2>1. Plans'
        BY DEF IInv, TypeOK, Plans
    <2>2. TypeOK'
        <3>1. (pc \in [Calls -> Points])'
            BY DEF IInv, TypeOK, Points
        <3>2. (lease \in [Requests -> {"NONE", "ACTIVE", "REVOKED"}])'
            BY DEF IInv, TypeOK, Points
        <3>3. (nonce \in [Requests -> {"ISSUED", "CONSUMED"}])'
            BY DEF IInv, TypeOK, Points
        <3>4. (row \in [Requests -> {"NONE", "RESERVED", "ENDED"}])'
            BY DEF IInv, TypeOK, Points
        <3>. QED
            BY <2>1, RemainingType, <3>1, <3>2, <3>3, <3>4 DEF IInv, Plans, TypeOK
    <2>3. Planned'
        BY DEF IInv, Planned
    <2>4. OneLease'
        BY DEF IInv, TypeOK, OneLease, ActiveOn
    <2>5. Paid'
        BY DEF IInv, TypeOK, Paid
    <2>6. Spawned'
        BY DEF IInv, TypeOK, Spawned
    <2>7. Starts'
        <3>1. \A d \in Calls : Started(d)' => Started(d)
            BY DEF IInv, TypeOK, Started
        <3>2. generation' = generation /\ request' = request
            OBVIOUS
        <3>. QED
            BY <3>1, <3>2 DEF IInv, Starts, Node
    <2>8. Current'
        BY DEF IInv, TypeOK, Current
    <2>9. Quiet'
        BY DEF IInv, TypeOK, Quiet
    <2>10. Failing'
        BY DEF IInv, TypeOK, Failing
    <2>. QED
        BY <2>1, <2>2, <2>3, <2>4, <2>5, <2>6, <2>7, <2>8, <2>9, <2>10 DEF IInv
<1>. QED
    BY <1>1, <1>2

\* The state read after the admission.
LEMMA ReadInv == ASSUME NEW c \in Calls, IInv, Read(c), disturbed' \in 0 .. MaxDisturbances PROVE IInv'
<1>1. CASE Raise(c)
    BY <1>1, RaiseInv DEF Read
<1>2. CASE ~Raise(c)
    <2>. USE <1>2
    <2>. USE ExecutionGateAssumption DEF gate, world, canonical, runtime, os, Read, Goto, Validated, Decided
    <2>1. Plans'
        BY DEF IInv, TypeOK, Plans
    <2>2. TypeOK'
        BY <2>1, RemainingType DEF IInv, Plans, TypeOK, Points
    <2>3. Planned'
        BY DEF IInv, Planned
    <2>4. OneLease'
        BY DEF IInv, TypeOK, OneLease
    <2>5. Paid'
        BY DEF IInv, TypeOK, Paid
    <2>6. Spawned'
        BY DEF IInv, TypeOK, Spawned
    <2>7. Starts'
        BY DEF IInv, TypeOK, Starts, Started, Node
    <2>8. Current'
        BY DEF IInv, TypeOK, Current
    <2>9. Quiet'
        BY DEF IInv, TypeOK, Quiet
    <2>10. Failing'
        BY DEF IInv, TypeOK, Failing
    <2>. QED
        BY <2>1, <2>2, <2>3, <2>4, <2>5, <2>6, <2>7, <2>8, <2>9, <2>10 DEF IInv
<1>. QED
    BY <1>1, <1>2

\* The last checks before the start.
LEMMA CheckInv == ASSUME NEW c \in Calls, IInv, Check(c), disturbed' \in 0 .. MaxDisturbances PROVE IInv'
<1>1. CASE Raise(c)
    BY <1>1, RaiseInv DEF Check
<1>2. CASE ~Raise(c)
    <2>. USE <1>2
    <2>. USE ExecutionGateAssumption DEF gate, world, canonical, runtime, os, Check, Goto, Begin
    <2>1. Plans'
        BY DEF IInv, TypeOK, Plans
    <2>2. TypeOK'
        BY <2>1, RemainingType DEF IInv, Plans, TypeOK, Points
    <2>3. Planned'
        BY DEF IInv, Planned
    <2>4. OneLease'
        BY DEF IInv, TypeOK, OneLease
    <2>5. Paid'
        BY DEF IInv, TypeOK, Paid
    <2>6. Spawned'
        BY DEF IInv, TypeOK, Spawned
    <2>7. Starts'
        BY DEF IInv, TypeOK, Starts, Started, Node
    <2>8. Current'
        BY DEF IInv, TypeOK, Current
    <2>9. Quiet'
        BY DEF IInv, TypeOK, Quiet
    <2>10. Failing'
        BY DEF IInv, TypeOK, Failing
    <2>. QED
        BY <2>1, <2>2, <2>3, <2>4, <2>5, <2>6, <2>7, <2>8, <2>9, <2>10 DEF IInv
<1>. QED
    BY <1>1, <1>2

\* The recorded start.
LEMMA StartInv == ASSUME NEW c \in Calls, IInv, Start(c), disturbed' \in 0 .. MaxDisturbances PROVE IInv'
<1>. USE ExecutionGateAssumption DEF gate, world, canonical, runtime, os, Start, Goto, Startable, Appended, Node
<1>1. Plans'
    BY DEF IInv, TypeOK, Plans
<1>2. TypeOK'
    <2>1. (pc \in [Calls -> Points])'
        <3>1. \E p \in Points : pc' = [pc EXCEPT ![c] = p]
            BY DEF Points
        <3>. QED
            BY <3>1 DEF IInv, TypeOK
    <2>2. (node \in [Nodes -> {"READY", "AUTHORIZED", "EXECUTING", "FAILED"}])'
        BY DEF IInv, TypeOK, Points
    <2>3. (generation \in [Nodes -> Requests \cup {None}])'
        BY DEF IInv, TypeOK, Points
    <2>. QED
        BY <1>1, RemainingType, <2>1, <2>2, <2>3 DEF IInv, Plans, TypeOK
<1>3. Planned'
    BY DEF IInv, Planned
<1>4. OneLease'
    BY DEF IInv, TypeOK, OneLease
<1>5. Paid'
    BY DEF IInv, TypeOK, Paid
<1>6. Spawned'
    BY DEF IInv, TypeOK, Spawned
<1>7. Starts'
    <2>1. CASE Startable(c)
        <3>1. generation[Node(c)] = None /\ (\A d \in Calls \ {c} : Started(d)' => Started(d))
            BY <2>1 DEF IInv, TypeOK, Started
        <3>2. request' = request /\ generation'[Node(c)] # None
              /\ \A n \in Nodes : generation[n] # None => generation'[n] # None
            BY <2>1 DEF IInv, TypeOK
        <3>3. \A d \in Calls : Node(d) \in Nodes
            BY DEF IInv, TypeOK
        <3>4. \A d \in Calls : Started(d)' => generation'[Node(d)] # None
            BY <3>1, <3>2, <3>3 DEF IInv, Starts
        <3>5. \A d \in Calls : Started(d)' /\ Node(d) = Node(c) => d = c
            BY <3>1 DEF IInv, Starts
        <3>. QED
            BY <3>1, <3>2, <3>4, <3>5 DEF IInv, Starts
    <2>2. CASE ~Startable(c)
        <3>1. (\A d \in Calls : Started(d)' => Started(d)) /\ UNCHANGED <<generation, request>>
            BY <2>2 DEF IInv, TypeOK, Started
        <3>. QED
            BY <3>1 DEF IInv, Starts, Node
    <2>. QED
        BY <2>1, <2>2
<1>8. Current'
    BY DEF IInv, TypeOK, Current
<1>9. Quiet'
    BY DEF IInv, TypeOK, Quiet
<1>10. Failing'
    BY DEF IInv, TypeOK, Failing
<1>. QED
    BY <1>1, <1>2, <1>3, <1>4, <1>5, <1>6, <1>7, <1>8, <1>9, <1>10 DEF IInv

\* The spawn.
LEMMA SpawnInv == ASSUME NEW c \in Calls, IInv, Spawn(c), disturbed' \in 0 .. MaxDisturbances PROVE IInv'
<1>. USE ExecutionGateAssumption DEF gate, world, canonical, runtime, os, Spawn, Goto
<1>1. Plans'
    BY DEF IInv, TypeOK, Plans
<1>2. TypeOK'
    <2>1. (pc \in [Calls -> Points])'
        BY DEF IInv, TypeOK, Points
    <2>2. (proc \in [Calls -> {"NONE", "RUNNING", "SURVIVOR", "GONE"}])'
        BY DEF IInv, TypeOK, Points
    <2>. QED
        BY <1>1, RemainingType, <2>1, <2>2 DEF IInv, Plans, TypeOK
<1>3. Planned'
    BY DEF IInv, Planned
<1>4. OneLease'
    BY DEF IInv, TypeOK, OneLease
<1>5. Paid'
    BY DEF IInv, TypeOK, Paid
<1>6. Spawned'
    BY DEF IInv, TypeOK, Spawned
<1>7. Starts'
    BY DEF IInv, TypeOK, Starts, Started, Node
<1>8. Current'
    BY DEF IInv, TypeOK, Current
<1>9. Quiet'
    <2>1. \A d \in Calls : todo'[d] = OutcomeEvents => proc'[d] = "GONE"
        BY DEF IInv, TypeOK, Spawned, Quiet
    <2>2. ASSUME NEW q \in proven' PROVE \E d \in Calls : request'[d] = q /\ proc'[d] = "GONE"
        <3>1. PICK d \in Calls : request[d] = q /\ proc[d] = "GONE"
            BY <2>2 DEF IInv, Quiet
        <3>2. proc'[d] = "GONE"
            BY <3>1 DEF IInv, TypeOK, Spawned
        <3>. QED
            BY <3>1, <3>2
    <2>. QED
        BY <2>1, <2>2 DEF Quiet
<1>10. Failing'
    BY DEF IInv, TypeOK, Failing
<1>. QED
    BY <1>1, <1>2, <1>3, <1>4, <1>5, <1>6, <1>7, <1>8, <1>9, <1>10 DEF IInv

\* The end of a run.
LEMMA RunEndsInv == ASSUME NEW c \in Calls, IInv, RunEnds(c), disturbed' \in 0 .. MaxDisturbances PROVE IInv'
<1>. USE ExecutionGateAssumption DEF gate, world, canonical, runtime, os, RunEnds, Goto, RunLeaves, Deadline, Unidentified, Exit
<1>1. Plans'
    BY DEF IInv, TypeOK, Plans
<1>2. TypeOK'
    <2>1. (pc \in [Calls -> Points])'
        BY DEF IInv, TypeOK, Points
    <2>2. (proc \in [Calls -> {"NONE", "RUNNING", "SURVIVOR", "GONE"}])'
        BY DEF IInv, TypeOK, Points
    <2>. QED
        BY <1>1, RemainingType, <2>1, <2>2 DEF IInv, Plans, TypeOK
<1>3. Planned'
    BY DEF IInv, Planned
<1>4. OneLease'
    BY DEF IInv, TypeOK, OneLease
<1>5. Paid'
    BY DEF IInv, TypeOK, Paid
<1>6. Spawned'
    BY DEF IInv, TypeOK, Spawned
<1>7. Starts'
    BY DEF IInv, TypeOK, Spawned, Starts, Started, Node
<1>8. Current'
    BY DEF IInv, TypeOK, Current
<1>9. Quiet'
    <2>1. \A d \in Calls : todo'[d] = OutcomeEvents => proc'[d] = "GONE"
        BY DEF IInv, TypeOK, Spawned, Quiet
    <2>2. ASSUME NEW q \in proven' PROVE \E d \in Calls : request'[d] = q /\ proc'[d] = "GONE"
        <3>1. PICK d \in Calls : request[d] = q /\ proc[d] = "GONE"
            BY <2>2 DEF IInv, Quiet
        <3>2. proc'[d] = "GONE"
            BY <3>1 DEF IInv, TypeOK, Spawned
        <3>. QED
            BY <3>1, <3>2
    <2>. QED
        BY <2>1, <2>2 DEF Quiet
<1>10. Failing'
    BY DEF IInv, TypeOK, Failing
<1>. QED
    BY <1>1, <1>2, <1>3, <1>4, <1>5, <1>6, <1>7, <1>8, <1>9, <1>10 DEF IInv

\* Nothing happens to a process but that the one of a call that waits for it may be killed.
Killed ==
    /\ proc' \in [Calls -> {"NONE", "RUNNING", "SURVIVOR", "GONE"}]
    /\ \A c \in Calls : proc'[c] = proc[c] \/ (pc[c] = "RUN" /\ proc'[c] = "GONE")

\* A kill, like no kill, is such a step (LinuxExecutionBoundary.kill).
LEMMA KillMeans == ASSUME TypeOK, Kill \/ UNCHANGED proc PROVE Killed
<1>1. CASE UNCHANGED proc
    BY <1>1 DEF TypeOK, Killed
<1>2. CASE Kill
    <2>1. PICK hit \in SUBSET {c \in Calls : pc[c] = "RUN"} :
              proc' = [c \in Calls |-> IF c \in hit THEN "GONE" ELSE proc[c]]
        BY <1>2 DEF Kill
    <2>2. proc \in [Calls -> {"NONE", "RUNNING", "SURVIVOR", "GONE"}]
        BY DEF TypeOK
    <2>. QED
        BY <2>1, <2>2 DEF Killed
<1>. QED
    BY <1>1, <1>2

\* The outcome.
LEMMA JudgeInv == ASSUME NEW c \in Calls, IInv, Judge(c), disturbed' \in 0 .. MaxDisturbances PROVE IInv'
<1>. USE ExecutionGateAssumption DEF gate, world, canonical, runtime, os, Judge, Goto, Quiescent
<1>k. Killed
    BY KillMeans DEF IInv, TypeOK, Killed
<1>1. Plans'
    <2>1. CASE Quiescent(c) /\ ~Attestable
        BY <2>1 DEF IInv, TypeOK, Plans
    <2>2. CASE ~(Quiescent(c) /\ ~Attestable)
        <3>1. todo'[c] \in Remaining \ {<<>>}
            BY <2>2, CleanupPlan, PlansApart DEF IInv, Planned
        <3>2. \A d \in Calls \ {c} : todo'[d] = todo[d]
            BY DEF IInv, Planned
        <3>3. pc'[c] = "LOAD" /\ \A d \in Calls \ {c} : pc'[d] = pc[d]
            BY <2>2 DEF IInv, TypeOK
        <3>. QED
            BY <3>1, <3>2, <3>3 DEF IInv, Plans
    <2>. QED
        BY <2>1, <2>2
<1>2. TypeOK'
    BY <1>1, <1>k, RemainingType DEF IInv, Plans, TypeOK, Points, Killed
<1>3. Planned'
    BY CleanupPlan, PlansApart DEF IInv, Planned
<1>4. OneLease'
    BY DEF IInv, TypeOK, OneLease
<1>5. Paid'
    <2>1. \A d \in Calls \ {c} : pc'[d] = pc[d]
        BY DEF IInv, TypeOK
    <2>. QED
        BY <1>k, <2>1 DEF IInv, Paid, Killed
<1>6. Spawned'
    BY <1>k DEF IInv, TypeOK, Spawned, Killed
<1>7. Starts'
    BY <1>k DEF IInv, TypeOK, Spawned, Starts, Started, Node, Killed
<1>8. Current'
    BY DEF IInv, TypeOK, Current
<1>9. Quiet'
    <2>1. \A d \in Calls : todo'[d] = OutcomeEvents => proc'[d] = "GONE"
        <3>1. CASE Quiescent(c)
            BY <3>1 DEF IInv, TypeOK, Planned, Quiet
        <3>2. CASE ~Quiescent(c)
            <4>1. todo'[c] # OutcomeEvents
                BY <3>2, CleanupPlan DEF IInv, Planned
            <4>2. \A d \in Calls \ {c} : todo'[d] = todo[d]
                BY DEF IInv, Planned
            <4>. QED
                BY <1>k, <4>1, <4>2 DEF IInv, Quiet, Killed
        <3>. QED
            BY <3>1, <3>2
    <2>2. ASSUME NEW q \in proven' PROVE \E d \in Calls : request'[d] = q /\ proc'[d] = "GONE"
        <3>1. PICK d \in Calls : request[d] = q /\ proc[d] = "GONE"
            BY <2>2 DEF IInv, Quiet
        <3>2. proc'[d] = "GONE"
            BY <1>k, <3>1 DEF Killed
        <3>. QED
            BY <3>1, <3>2
    <2>. QED
        BY <2>1, <2>2 DEF Quiet
<1>10. Failing'
    <2>1. todo'[c] \in Failures => todo[c] \in Failures \/ lease[request[c]] # "ACTIVE"
        BY CleanupPlan, PlansApart DEF IInv, Planned
    <2>2. lease[request[c]] # "NONE"
        BY DEF IInv, Paid
    <2>3. \A d \in Calls \ {c} : todo'[d] = todo[d]
        BY DEF IInv, Planned
    <2>. QED
        BY <2>1, <2>2, <2>3 DEF IInv, TypeOK, Failing
<1>. QED
    BY <1>1, <1>2, <1>3, <1>4, <1>5, <1>6, <1>7, <1>8, <1>9, <1>10 DEF IInv

\* The except block.
LEMMA FailInv == ASSUME NEW c \in Calls, IInv, Fail(c), disturbed' \in 0 .. MaxDisturbances PROVE IInv'
<1>. USE ExecutionGateAssumption DEF gate, world, canonical, runtime, os, Fail, Goto
<1>k. Killed
    BY KillMeans DEF IInv
<1>1. Plans'
    BY CleanupPlan, PlansApart DEF IInv, TypeOK, Planned, Plans
<1>2. TypeOK'
    <2>1. (pc \in [Calls -> Points])' /\ (cleaning \subseteq Calls)'
        BY DEF IInv, TypeOK, Points
    <2>2. (\A d \in Calls : todo[d] \in Seq(EventTypes) /\ (pc[d] = "COMMIT" => todo[d] # <<>>))'
        BY <1>1, RemainingType DEF Plans
    <2>. QED
        BY <1>k, <2>1, <2>2 DEF IInv, TypeOK, Killed
<1>3. Planned'
    BY CleanupPlan, PlansApart DEF IInv, Planned
<1>4. OneLease'
    BY DEF IInv, TypeOK, OneLease
<1>5. Paid'
    BY <1>k DEF IInv, TypeOK, Paid, Killed
<1>6. Spawned'
    BY <1>k DEF IInv, TypeOK, Spawned, Killed
<1>7. Starts'
    BY <1>k DEF IInv, TypeOK, Spawned, Starts, Started, Node, Killed
<1>8. Current'
    BY DEF IInv, TypeOK, Current
<1>9. Quiet'
    <2>1. \A d \in Calls : todo'[d] = OutcomeEvents => proc'[d] = "GONE"
        BY <1>k, CleanupPlan DEF IInv, TypeOK, Quiet, Killed
    <2>2. ASSUME NEW q \in proven' PROVE \E d \in Calls : request'[d] = q /\ proc'[d] = "GONE"
        <3>1. PICK d \in Calls : request[d] = q /\ proc[d] = "GONE"
            BY <2>2 DEF IInv, Quiet
        <3>2. proc'[d] = "GONE"
            BY <1>k, <3>1 DEF Killed
        <3>. QED
            BY <3>1, <3>2
    <2>. QED
        BY <2>1, <2>2 DEF Quiet
<1>10. Failing'
    <2>1. todo'[c] \in Failures => lease[request[c]] # "ACTIVE"
        BY CleanupPlan DEF IInv, Planned
    <2>2. lease[request[c]] # "NONE"
        BY DEF IInv, Paid
    <2>3. \A d \in Calls \ {c} : todo'[d] = todo[d]
        BY DEF IInv, Planned
    <2>. QED
        BY <2>1, <2>2, <2>3 DEF IInv, TypeOK, Failing
<1>. QED
    BY <1>1, <1>2, <1>3, <1>4, <1>5, <1>6, <1>7, <1>8, <1>9, <1>10 DEF IInv

\* The state read for the next event.
LEMMA LoadInv == ASSUME NEW c \in Calls, IInv, Load(c), disturbed' \in 0 .. MaxDisturbances PROVE IInv'
<1>. USE ExecutionGateAssumption DEF gate, world, canonical, runtime, os, Load, Goto
<1>1. Plans'
    BY DEF IInv, TypeOK, Plans
<1>2. TypeOK'
    BY <1>1, RemainingType DEF IInv, Plans, TypeOK, Points
<1>3. Planned'
    BY DEF IInv, Planned
<1>4. OneLease'
    BY DEF IInv, TypeOK, OneLease
<1>5. Paid'
    BY DEF IInv, TypeOK, Paid
<1>6. Spawned'
    BY DEF IInv, TypeOK, Spawned
<1>7. Starts'
    BY DEF IInv, TypeOK, Starts, Started, Node
<1>8. Current'
    BY DEF IInv, TypeOK, Current
<1>9. Quiet'
    BY DEF IInv, TypeOK, Quiet
<1>10. Failing'
    BY DEF IInv, TypeOK, Failing
<1>. QED
    BY <1>1, <1>2, <1>3, <1>4, <1>5, <1>6, <1>7, <1>8, <1>9, <1>10 DEF IInv

\* An event of the outcome.
LEMMA CommitInv == ASSUME NEW c \in Calls, IInv, Commit(c), disturbed' \in 0 .. MaxDisturbances PROVE IInv'
<1>. DEFINE e == Head(todo[c])
            r == request[c]
            taken == c \in fresh /\ Applicable(c, e)
<1>. USE ExecutionGateAssumption DEF gate, world, canonical, runtime, os
<1>1. /\ todo[c] \in Remaining /\ todo[c] # <<>> /\ r \in Requests /\ NodeOf[r] \in Nodes
      /\ pc[c] = "COMMIT" /\ proc' = proc /\ request' = request /\ generation' = generation
      /\ authority' = authority /\ nonce' = nonce /\ disturbed' \in 0 .. MaxDisturbances
    BY DEF Commit, IInv, TypeOK, Plans
<1>2. CASE ~taken
    <2>. USE <1>2 DEF Commit, Goto
    <2>0. /\ todo'[c] = <<>> /\ \A d \in Calls \ {c} : todo'[d] = todo[d]
          /\ pc'[c] \in {"DONE", "FAIL"} /\ \A d \in Calls \ {c} : pc'[d] = pc[d]
        BY DEF IInv, Planned, TypeOK
    <2>1. Plans'
        BY <2>0, PlansApart DEF IInv, Plans
    <2>2. TypeOK'
        BY <2>1, RemainingType DEF IInv, TypeOK, Plans, Points
    <2>3. Planned'
        BY PlansApart DEF IInv, Planned
    <2>4. OneLease' /\ Starts' /\ Current'
        BY DEF IInv, TypeOK, OneLease, Starts, Started, Node, Current
    <2>7. Paid' /\ Spawned'
        <3>1. lease' = lease
            OBVIOUS
        <3>. QED
            BY <1>1, <2>0, <3>1 DEF IInv, Paid, Spawned
    <2>5. Quiet'
        BY PlansApart DEF IInv, Planned, Quiet
    <2>6. Failing'
        BY PlansApart DEF IInv, Planned, Failing
    <2>. QED
        BY <2>1, <2>2, <2>3, <2>4, <2>5, <2>6, <2>7 DEF IInv
<1>3. CASE taken
    <2>1. /\ pc' = [pc EXCEPT ![c] = "LOAD"] /\ todo' = [todo EXCEPT ![c] = Tail(todo[c])]
          /\ fresh' = {} /\ anchored' = {} /\ cleaning' = cleaning /\ UNCHANGED <<trust, expired, row, cancelled>>
          /\ lease' = IF e = "LEASE_REVOKED" THEN [lease EXCEPT ![r] = "REVOKED"] ELSE lease
          /\ node' = IF e = "WORK_FAILED" THEN [node EXCEPT ![NodeOf[r]] = "FAILED"] ELSE node
          /\ failed' = IF e = "WORK_FAILED" THEN failed \cup {c} ELSE failed
          /\ proven' = IF e = "QUIESCENCE_PROVEN" THEN proven \cup {r} ELSE proven
          /\ doubt' = IF e = "IN_DOUBT_DECLARED" THEN doubt \cup {NodeOf[r]} ELSE doubt
        BY <1>3 DEF Commit, Goto, Appended, Node
    <2>2. e \in {"IN_DOUBT_DECLARED", "MUTATION_OBSERVED", "LEASE_REVOKED", "QUIESCENCE_PROVEN", "WORK_FAILED"}
        BY <1>3 DEF Applicable
    <2>3. /\ Tail(todo[c]) \in Remaining \ {<<>>, OutcomeEvents}
          /\ Tail(todo[c]) \in Failures => todo[c] \in Failures \/ e = "LEASE_REVOKED"
          /\ e = "WORK_FAILED" => todo[c] \in Failures
          /\ e = "QUIESCENCE_PROVEN" => todo[c] = OutcomeEvents
          /\ e = "LEASE_REVOKED" => todo[c] \notin Failures
        BY <1>1, <2>2, NextEvent
    <2>4. todo'[c] = Tail(todo[c]) /\ \A d \in Calls \ {c} : todo'[d] = todo[d]
        BY <2>1 DEF IInv, Planned
    <2>. HIDE DEF e, r
    <2>5. Plans'
        BY <2>1, <2>3, <2>4 DEF IInv, TypeOK, Plans
    <2>6. TypeOK'
        <3>1. (pc \in [Calls -> Points])'
            BY <2>1 DEF IInv, TypeOK, Points
        <3>2. (lease \in [Requests -> {"NONE", "ACTIVE", "REVOKED"}])'
            BY <2>1 DEF IInv, TypeOK
        <3>3. (node \in [Nodes -> {"READY", "AUTHORIZED", "EXECUTING", "FAILED"}])'
            BY <2>1 DEF IInv, TypeOK
        <3>4. (proven \subseteq Requests /\ doubt \subseteq Nodes /\ failed \subseteq Calls)'
            BY <1>1, <2>1 DEF IInv, TypeOK
        <3>. QED
            BY <1>1, <2>1, <2>5, <3>1, <3>2, <3>3, <3>4, RemainingType DEF IInv, TypeOK, Plans
    <2>7. Planned'
        BY <2>1, <2>3 DEF IInv, Planned
    <2>8. \A q \in Requests : /\ lease'[q] = "ACTIVE" => lease[q] = "ACTIVE"
                              /\ lease[q] # "NONE" => lease'[q] # "NONE"
                              /\ lease[q] = "REVOKED" => lease'[q] = "REVOKED"
        BY <2>1 DEF IInv, TypeOK
    <2>9. OneLease' /\ Spawned' /\ Starts' /\ Current'
        BY <1>1, <2>1, <2>8 DEF IInv, TypeOK, OneLease, Spawned, Starts, Started, Node, Current
    <2>10. Paid'
        BY <1>1, <2>1, <2>8 DEF IInv, TypeOK, Paid
    <2>11. Quiet'
        BY <1>1, <2>1, <2>3, <2>4 DEF IInv, Quiet, r
    <2>12. Failing'
        <3>1. todo'[c] \in Failures \/ e = "WORK_FAILED" => lease'[request[c]] = "REVOKED"
            BY <1>1, <2>1, <2>3, <2>4, <2>8 DEF IInv, TypeOK, Failing, r
        <3>. QED
            BY <1>1, <2>1, <2>4, <2>8, <3>1 DEF IInv, TypeOK, Failing
    <2>. QED
        BY <2>5, <2>6, <2>7, <2>9, <2>10, <2>11, <2>12 DEF IInv
<1>. QED
    BY <1>2, <1>3

\* The gate's death.
LEMMA CrashInv == ASSUME NEW c \in Calls, IInv, Crash(c), disturbed' \in 0 .. MaxDisturbances PROVE IInv'
<1>. USE ExecutionGateAssumption DEF gate, world, canonical, runtime, os, Crash, Goto
<1>1. Plans'
    BY PlansApart DEF IInv, TypeOK, Planned, Plans
<1>2. TypeOK'
    BY <1>1, RemainingType DEF IInv, Plans, TypeOK, Points
<1>3. Planned'
    BY PlansApart DEF IInv, Planned
<1>4. OneLease'
    BY DEF IInv, TypeOK, OneLease
<1>5. Paid'
    BY DEF IInv, TypeOK, Paid
<1>6. Spawned'
    BY DEF IInv, TypeOK, Spawned
<1>7. Starts'
    BY DEF IInv, TypeOK, Starts, Started, Node
<1>8. Current'
    BY DEF IInv, TypeOK, Current
<1>9. Quiet'
    <2>1. \A d \in Calls : todo'[d] = OutcomeEvents => proc'[d] = "GONE"
        BY PlansApart DEF IInv, TypeOK, Quiet
    <2>2. ASSUME NEW q \in proven' PROVE \E d \in Calls : request'[d] = q /\ proc'[d] = "GONE"
        <3>1. PICK d \in Calls : request[d] = q /\ proc[d] = "GONE"
            BY <2>2 DEF IInv, Quiet
        <3>2. proc'[d] = "GONE"
            BY <3>1 DEF IInv, TypeOK
        <3>. QED
            BY <3>1, <3>2
    <2>. QED
        BY <2>1, <2>2 DEF Quiet
<1>10. Failing'
    BY PlansApart DEF IInv, TypeOK, Failing
<1>. QED
    BY <1>1, <1>2, <1>3, <1>4, <1>5, <1>6, <1>7, <1>8, <1>9, <1>10 DEF IInv

\* A cancellation.
LEMMA CancelInv == ASSUME NEW c \in Calls, IInv, Cancel(c), disturbed' \in 0 .. MaxDisturbances PROVE IInv'
<1>. USE ExecutionGateAssumption DEF gate, world, canonical, runtime, os, Cancel
<1>1. TypeOK' /\ Planned' /\ Plans'
    BY DEF IInv, TypeOK, Planned, Plans
<1>2. OneLease' /\ Paid' /\ Spawned'
    BY DEF IInv, TypeOK, OneLease, Paid, Spawned
<1>3. Starts' /\ Current' /\ Quiet' /\ Failing'
    BY DEF IInv, TypeOK, Starts, Started, Node, Current, Quiet, Failing
<1>. QED
    BY <1>1, <1>2, <1>3 DEF IInv

\* The end of a survivor.
LEMMA SurvivorEndsInv == ASSUME NEW c \in Calls, IInv, SurvivorEnds(c), disturbed' \in 0 .. MaxDisturbances PROVE IInv'
<1>. USE ExecutionGateAssumption DEF gate, world, canonical, runtime, os, SurvivorEnds
<1>1. TypeOK' /\ Planned' /\ Plans'
    BY DEF IInv, TypeOK, Planned, Plans
<1>2. OneLease' /\ Paid' /\ Spawned'
    BY DEF IInv, TypeOK, OneLease, Paid, Spawned
<1>3. Starts' /\ Current' /\ Quiet' /\ Failing'
    BY DEF IInv, TypeOK, Starts, Started, Node, Current, Quiet, Failing
<1>. QED
    BY <1>1, <1>2, <1>3 DEF IInv

\* An authorization.
LEMMA AuthorizeInv == ASSUME NEW r \in Requests, IInv, Authorize(r), disturbed' \in 0 .. MaxDisturbances PROVE IInv'
<1>. USE ExecutionGateAssumption DEF gate, world, canonical, runtime, os, Authorize
<1>1. TypeOK' /\ Planned' /\ Plans'
    BY DEF IInv, TypeOK, Planned, Plans
<1>2. OneLease' /\ Paid' /\ Spawned'
    BY DEF IInv, TypeOK, OneLease, Paid, Spawned
<1>3. Starts' /\ Current' /\ Quiet' /\ Failing'
    BY DEF IInv, TypeOK, Starts, Started, Node, Current, Quiet, Failing
<1>. QED
    BY <1>1, <1>2, <1>3 DEF IInv

\* The end of a lease.
LEMMA LeaseEndedInv == ASSUME NEW r \in Requests, IInv, LeaseEnded(r), disturbed' \in 0 .. MaxDisturbances PROVE IInv'
<1>. USE ExecutionGateAssumption DEF gate, world, canonical, runtime, os, LeaseEnded, Appended
<1>1. TypeOK' /\ Planned' /\ Plans'
    BY DEF IInv, TypeOK, Planned, Plans
<1>2. OneLease' /\ Paid' /\ Spawned'
    BY DEF IInv, TypeOK, OneLease, Paid, Spawned
<1>3. Starts' /\ Current' /\ Quiet' /\ Failing'
    BY DEF IInv, TypeOK, Starts, Started, Node, Current, Quiet, Failing
<1>. QED
    BY <1>1, <1>2, <1>3 DEF IInv

\* The release of a row.
LEMMA RowReleasedInv == ASSUME NEW r \in Requests, IInv, RowReleased(r), disturbed' \in 0 .. MaxDisturbances PROVE IInv'
<1>. USE ExecutionGateAssumption DEF gate, world, canonical, runtime, os, RowReleased
<1>1. TypeOK' /\ Planned' /\ Plans'
    BY DEF IInv, TypeOK, Planned, Plans
<1>2. OneLease' /\ Paid' /\ Spawned'
    BY DEF IInv, TypeOK, OneLease, Paid, Spawned
<1>3. Starts' /\ Current' /\ Quiet' /\ Failing'
    BY DEF IInv, TypeOK, Starts, Started, Node, Current, Quiet, Failing
<1>. QED
    BY <1>1, <1>2, <1>3 DEF IInv

\* Expiry.
LEMMA ExpireInv == ASSUME NEW r \in Requests, IInv, Expire(r), disturbed' \in 0 .. MaxDisturbances PROVE IInv'
<1>. USE ExecutionGateAssumption DEF gate, world, canonical, runtime, os, Expire
<1>1. TypeOK' /\ Planned' /\ Plans'
    BY DEF IInv, TypeOK, Planned, Plans
<1>2. OneLease' /\ Paid' /\ Spawned'
    BY DEF IInv, TypeOK, OneLease, Paid, Spawned
<1>3. Starts' /\ Current' /\ Quiet' /\ Failing'
    BY DEF IInv, TypeOK, Starts, Started, Node, Current, Quiet, Failing
<1>. QED
    BY <1>1, <1>2, <1>3 DEF IInv

\* Trust withdrawn.
LEMMA DistrustInv == ASSUME NEW k \in Signers, IInv, Distrust(k), disturbed' \in 0 .. MaxDisturbances PROVE IInv'
<1>. USE ExecutionGateAssumption DEF gate, world, canonical, runtime, os, Distrust
<1>1. TypeOK' /\ Planned' /\ Plans'
    BY DEF IInv, TypeOK, Planned, Plans
<1>2. OneLease' /\ Paid' /\ Spawned'
    BY DEF IInv, TypeOK, OneLease, Paid, Spawned
<1>3. Starts' /\ Current' /\ Quiet' /\ Failing'
    BY DEF IInv, TypeOK, Starts, Started, Node, Current, Quiet, Failing
<1>. QED
    BY <1>1, <1>2, <1>3 DEF IInv

\* The activation of a policy.
LEMMA PolicyActivatedInv == ASSUME IInv, PolicyActivated, disturbed' \in 0 .. MaxDisturbances PROVE IInv'
<1>. USE ExecutionGateAssumption DEF gate, world, canonical, runtime, os, PolicyActivated, Appended
<1>1. TypeOK' /\ Planned' /\ Plans'
    BY DEF IInv, TypeOK, Planned, Plans
<1>2. OneLease' /\ Paid' /\ Spawned'
    BY DEF IInv, TypeOK, OneLease, Paid, Spawned
<1>3. Starts' /\ Current' /\ Quiet' /\ Failing'
    BY DEF IInv, TypeOK, Starts, Started, Node, Current, Quiet, Failing
<1>. QED
    BY <1>1, <1>2, <1>3 DEF IInv

\* An event of somebody else.
LEMMA UnrelatedInv == ASSUME IInv, Unrelated, disturbed' \in 0 .. MaxDisturbances PROVE IInv'
<1>. USE ExecutionGateAssumption DEF gate, world, canonical, runtime, os, Unrelated, Appended
<1>1. TypeOK' /\ Planned' /\ Plans'
    BY DEF IInv, TypeOK, Planned, Plans
<1>2. OneLease' /\ Paid' /\ Spawned'
    BY DEF IInv, TypeOK, OneLease, Paid, Spawned
<1>3. Starts' /\ Current' /\ Quiet' /\ Failing'
    BY DEF IInv, TypeOK, Starts, Started, Node, Current, Quiet, Failing
<1>. QED
    BY <1>1, <1>2, <1>3 DEF IInv

\* Every step, of the gate or of the world, keeps the invariant.
LEMMA NextInv == IInv /\ [Next]_vars => IInv'
<1> SUFFICES ASSUME IInv, [Next]_vars PROVE IInv'
    OBVIOUS
<1>1. ASSUME NEW c \in Calls, Step(c), UNCHANGED disturbed PROVE IInv'
    <2>1. disturbed' \in 0 .. MaxDisturbances
        BY <1>1 DEF IInv, TypeOK
    <2>. QED
        BY <1>1, <2>1, PreflightInv, AdmitInv, ReadInv, CheckInv, StartInv, SpawnInv, RunEndsInv, JudgeInv,
           FailInv, LoadInv, CommitInv DEF Step, Proceed
<1>2. ASSUME NEW c \in Calls, SurvivorEnds(c), UNCHANGED disturbed PROVE IInv'
    BY <1>2, SurvivorEndsInv DEF IInv, TypeOK
<1>3. ASSUME NEW r \in Requests, Authorize(r), UNCHANGED disturbed PROVE IInv'
    BY <1>3, AuthorizeInv DEF IInv, TypeOK
<1>4. CASE disturbed < MaxDisturbances /\ disturbed' = disturbed + 1 /\ Disturb
    <2>1. disturbed' \in 0 .. MaxDisturbances
        BY <1>4, ExecutionGateAssumption DEF IInv, TypeOK
    <2>. QED
        BY <1>4, <2>1, CrashInv, CancelInv, LeaseEndedInv, RowReleasedInv, ExpireInv, DistrustInv,
           PolicyActivatedInv, UnrelatedInv DEF Disturb
<1>5. CASE UNCHANGED vars
    BY <1>5 DEF vars, gate, world, canonical, runtime, os, IInv, TypeOK, Planned, Plans, OneLease, Paid, Spawned,
                Starts, Started, Node, Current, Quiet, Failing
<1>. QED
    BY <1>1, <1>2, <1>3, <1>4, <1>5 DEF Next

-----------------------------------------------------------------------------
(* The theorems.                                                           *)

\* The invariant holds in every reachable state.
THEOREM Inductive == Spec => []IInv
BY InitInv, NextInv, PTL DEF Spec

\* Every variable has its type, and a call that is to append has something to append.
THEOREM TypeCorrect == Spec => []TypeOK
<1>1. IInv => TypeOK
    BY DEF IInv
<1>. QED
    BY <1>1, Inductive, PTL

\* However preflights and admissions interleave, at most one lease of a node is ACTIVE (_admit).
THEOREM OneActiveAlways == Spec => []OneActivePerNode
<1>1. IInv => OneActivePerNode
    <2> SUFFICES ASSUME IInv, NEW n \in Nodes PROVE Cardinality(ActiveOn(n)) <= 1
        BY DEF OneActivePerNode
    <2>1. CASE ActiveOn(n) = {}
        BY <2>1, FS_EmptySet
    <2>2. CASE ActiveOn(n) # {}
        <3>1. PICK r : r \in ActiveOn(n)
            BY <2>2
        <3>2. ActiveOn(n) = {r}
            BY <3>1 DEF ActiveOn, IInv, OneLease
        <3>. QED
            BY <3>2, FS_Singleton
    <2>. QED
        BY <2>1, <2>2
<1>. QED
    BY <1>1, Inductive, PTL

\* No two calls have processes on one node (execute_lifecycle records the generation first).
THEOREM OneProcessAlways == Spec => []OneProcessPerNode
<1>1. IInv => OneProcessPerNode
    BY DEF IInv, Starts, Started, OneProcessPerNode, Live
<1>. QED
    BY <1>1, Inductive, PTL

\* A process has its durable start, nonce and lease behind it (execute_lifecycle).
THEOREM SpawnRecordedAlways == Spec => []SpawnRecorded
<1>1. IInv => SpawnRecorded
    BY DEF IInv, Starts, Started, Paid, SpawnRecorded
<1>. QED
    BY <1>1, Inductive, PTL

\* Nothing runs of the group a quiescence proof was recorded for, not even for another call made
\* with the same request: there is one call with processes on the node.
THEOREM ProvenAlwaysGone == Spec => []ProvenMeansGone
<1>1. IInv => ProvenMeansGone
    <2> SUFFICES ASSUME IInv, NEW c \in Calls, request[c] \in proven PROVE ~Live(c)
        BY DEF ProvenMeansGone
    <2>1. PICK d \in Calls : request[d] = request[c] /\ proc[d] = "GONE"
        BY DEF IInv, Quiet
    <2>2. CASE proc[c] = "NONE"
        BY <2>2 DEF Live
    <2>3. CASE proc[c] # "NONE"
        BY <2>1, <2>3 DEF IInv, Starts, Started, Node, Live
    <2>. QED
        BY <2>2, <2>3
<1>. QED
    BY <1>1, Inductive, PTL

\* Work the gate declared failed holds no ACTIVE lease (order of the events of the except block).
THEOREM FailedNeverActive == Spec => []FailedHasNoLease
<1>1. IInv => FailedHasNoLease
    BY DEF IInv, TypeOK, Failing, FailedHasNoLease
<1>. QED
    BY <1>1, Inductive, PTL

\* A start is recorded under an ACTIVE lease and a decision of the active version: a call's head is still
\* the head, so nothing has touched what it checked (validate_execution_generation).
THEOREM StartsAlwaysUnderLease == Spec => StartsUnderLease
<1>. DEFINE Covered == \A n \in Nodes : generation'[n] # generation[n] =>
        lease[generation'[n]] = "ACTIVE" /\ authority[generation'[n]] = "VALID"
<1>1. ASSUME IInv, NEW c \in Calls, Start(c) PROVE Covered
    <2>1. CASE Startable(c)
        <3>1. generation' = [generation EXCEPT ![Node(c)] = request[c]]
            BY <1>1, <2>1 DEF Start
        <3>2. lease[request[c]] = "ACTIVE" /\ authority[request[c]] = "VALID"
            BY <1>1, <2>1 DEF Start, Startable, IInv, Current
        <3>. QED
            BY <1>1, <3>1, <3>2 DEF IInv, TypeOK
    <2>2. CASE ~Startable(c)
        BY <1>1, <2>2 DEF Start, canonical
    <2>. QED
        BY <2>1, <2>2
<1>2. ASSUME NEW c \in Calls, Step(c), ~Start(c) PROVE generation' = generation
    BY <1>2 DEF Step, Proceed, Preflight, Admit, Read, Check, Spawn, RunEnds, RunLeaves, Judge, Fail, Load, Commit,
                Raise, canonical
<1>3. ASSUME Disturb PROVE generation' = generation
    BY <1>3 DEF Disturb, Crash, Cancel, LeaseEnded, RowReleased, Expire, Distrust, PolicyActivated, Unrelated, canonical
<1>4. ASSUME NEW r, Authorize(r) PROVE generation' = generation
    BY <1>4 DEF Authorize
<1>5. ASSUME NEW c, SurvivorEnds(c) PROVE generation' = generation
    BY <1>5 DEF SurvivorEnds, canonical
<1>6. IInv /\ [Next]_vars => [Covered]_vars
    BY <1>1, <1>2, <1>3, <1>4, <1>5 DEF Next, vars, canonical
<1>. QED
    BY <1>6, Inductive, PTL DEF Spec, StartsUnderLease
=============================================================================
