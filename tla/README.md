# A TLA+ verification project for S-CLASS

S-CLASS puts a *control plane* between AI agents and a workspace: agents
submit signed commands, the control plane turns the accepted ones into events
of one hash-chained history kept in SQLite, and everything else (leases,
budgets, evidence, releases) is derived from that history.  This directory
models that program in TLA+, checks the models with TLC on small instances
and proves the most important results with TLAPS for every instance.

Short names used below: *semantics* is
`src/10-CONFORMANCE/sclass_semantics_v6_0_1.py`, *runtime* is
`src/20-RUNTIME/sclass_runtime_v6_0_1.py`.

## 1. Inventory

| component | state it keeps | operations | who it talks to | what is hard | what makes it correct |
|---|---|---|---|---|---|
| canonical event store (semantics `SQLiteEventStore`, runtime subclass) | tables `canonical_events`, `canonical_commits`, `canonical_projection` of one SQLite file | `append_batch`, `append_batch_in_transaction`, `_load_canonical_state`, `checkpoint`, `restore`, `replay`, `migrate`, `verify_chain` | every writer, through one connection per process | several processes, crash between any two statements, heads read before the lock | history only grows, commit rows partition it, the projection is its fold |
| command submission (`SClassControlPlane._submit`, `SQLiteCommandLedger`) | table `runtime_commands` | `submit`, `_submit_internal` | event store, key directory, reducer | redelivery, id reuse, stale heads, lost answers | exactly once, right after the head the command names; answers stay true |
| external effects (`reconcile_external_effect`, `ExternalEffectReconciler`) | table `runtime_effect_receipts` | reconcile, project | event store | provider row written before the receipt | the table never runs ahead of the receipts |
| budgets and nonces (`SQLiteBudgetAllocator`, `SQLiteNonceStore`) | limits, reservations (projection table *and* canonical map), nonces | reserve, settle, release, expire, issue, consume | gate, admission, event store | two ledgers of the same money, expiry against settlement, double spending of nonces | never above the limit, each nonce spent once and by its request |
| reducer life cycles (`ReferenceReducer.reduce`, `state-machines.v6.0.1.json`) | work nodes, obligations, requirements, leases, generations, evidence marks | one transition per event type | all writers | long event sequences, late invalidation, second generations | only legal transitions, no release on invalidated evidence |
| admission and gate (`ExecutionAdmission._admit`, `ExecutionGate.execute_lifecycle`) | a running OS process, the workspace, pending event batches | admit, preflight, start, wait, quiesce, observe, settle | all of the above, the OS | OS effects outside the transaction, heads read between batches, failure at each step | nothing runs without a recorded start; one process and one ACTIVE lease per node; every call ends |
| recovery, retry, break glass | recovery cases, retry budgets, break-glass uses | recover, consume, record | event store | two ledgers, at-most-n uses, repeated recovery | tables and history say the same, whatever was refused |
| key directory, worker registry | keys and their windows, attestations | rotate, revoke, verify | submission, admission | rotation while a command waits | distrust is for good and does not rewrite the past |
| OS boundary, observation | namespaces, cgroups, snapshots | run, snapshot, collect | gate | kernel features, process trees | (outcomes only) |
| policies, approvals, evidence, release (semantics) | objects of the canonical state | `validate_*`, `evaluate_*`, `is_admissible`, `is_fresh` | reducer, client | the governing world moves between two records; chains of small relaxations | what is granted or ready is earned under every rule, at this time |
| client, compiler, harness, MCP server, verification engine (`src/src/sclass`, `src/tools`) | session objects in memory, files | golden slice, execute, cancel, verify, dispatch | control plane | partial application of patches, cancellation, statuses | READY rests on a finished round; a trial leaves the text of a file as it was |
| C1 encoding, graph validation, worktrees, policy loader, plugins, secret scanner, editor adapters, CLI, doctor | none | data transformation | | | out of scope, see section 13 |

`PROJECT.json` lists every component with its status and every hazard of the
code at its line, with the properties that cover it.

## 2. Modules

| module | extends or uses | models |
|---|---|---|
| `ControlPlane` | implements `CommandLog` | submission, append, effects, crashes |
| `WorkLifecycle` | implements `LeaseBook` | the reducer's nodes, contracts, leases, reservations, generations |
| `Reservations` | | nonces, and the money of a request in two ledgers |
| `ExecutionGate` | | admission, preflight, the OS run, the event batches and the world around them |
| `ReleaseEvidence` | | evidence, assessments, waivers, satisfied obligations, releases |
| `Authority` | | policies one after the other, decisions, effect scopes |
| `KeyDirectory`, `Recovery` | run by `MCRecords`, with `Authority` | trust roots, keys, workers; recovery, retries, break glass |
| `Product` | | client, patch worker, verification engines, MCP server over one workspace |

Each `...Proofs` module holds the theorems of the module it is named after
(`RecordsProofs` those of `KeyDirectory` and `Recovery`), each `MC...` module
the values of a TLC instance.  The parts meet in the
history: `ControlPlane` shows that a submission is one atomic step on a named
head, so the other modules take one committed event as one step.  What one
module takes from another is stated as its guard: the gate needs a decision
(`Authority`), a reservation row and a nonce (`Reservations`), a trusted
signer (`KeyDirectory`) and an ACTIVE lease (`WorkLifecycle`), each as the one
bit the gate reads.  The order of the plan was submission, life cycles, money
and nonces, gate, evidence and release, authority, records, product; what is
left is in section 13.

## 3. ControlPlane: model and code

The unit of interleaving is one SQLite statement.  Every process has its own
connection (the tests of the repository use one store per thread); SQLite is
external and modelled by what the code relies on: `BEGIN IMMEDIATE` takes the
one write lock (`lock`), the writer sees its own statements (`tx`), `COMMIT`
publishes them in `db`, `ROLLBACK` or the death of the process drops them.

| TLA+ | code |
|---|---|
| `db.log`, `db.commits`, `db.projection`, `db.ledger`, `db.effects` | `canonical_events`, `canonical_commits`, `canonical_projection`, `runtime_commands`, `runtime_effect_receipts` |
| `Issue` | a client reads the head and builds a `Command` for it |
| `Deliver`, `LookupMiss/Replay/Conflict`, `Authenticate` | `_submit` up to `K1`, outside the transaction |
| `Begin`, `Busy` | `begin_immediate`, and its `OperationalError` after the busy timeout |
| `RelookupMiss/Replay/Conflict` | the second `lookup`, inside the transaction |
| `LoadStale`, `LoadDenied`, `LoadRaises`, `LoadReduces` | load, head comparison, provenance checks, `reduce`, with every early exit |
| `InsertEffectRow` | `_project_provider_status` |
| `InsertCommitRow`, `InsertEventRows`, `UpsertProjection` | the three writes of `_append_batch_in_transaction` (K2, K3, K4) |
| `InsertLedgerRow`, `InsertStaleRow` | `put_in_transaction` with the result |
| `Commit`, `Return` | `COMMIT` (K5, K6) and the return |
| `Crash` | the process dies, or a fault is raised, at any of these points |

Abstractions.  The event chain is linear, so the head hash is its sequence
number.  A command's digest is the command itself, so "other content" is
another record with the same id.  The reducer is represented by the part that
history can tell apart: the immutable insertion of an object under its
identity, accepted for equal content and refused otherwise; a command carries
one event, a batch one or two.  Key verification and signature provenance are
nondeterministic (accepted or denied).  `ProjectionAgrees` and `CommitsCover`
are the self-checks of `_load_canonical_state` and `_read_all_committed`.

`CommandLog` is what clients may rely on: a command is applied in one step
right after the head it names, or refused for good; each id gets one verdict;
answers repeat verdicts.  The refinement maps `history` to the committed log
and `verdict` to the committed ledger: `COMMIT` is the linearisation point.

## 4. WorkLifecycle: model and code

`ReferenceReducer.reduce` as the objects see it.  Any client may submit any
event at any time; `Offered(accepted, effect)` is one submission: the event is
appended with its effect, or the handler raises and nothing changes.  That
every submission is atomic and in order is what `ControlPlane` shows, so one
step of `WorkLifecycle` is one committed event.

| TLA+ | code |
|---|---|
| `status`, `worker` | the nodes of `work_graph` (index `WorkNodeStatus`) and `assignments` |
| `obligation`, `contract` | `obligations` (index `ObligationStatus`), `acceptance_contracts` |
| `granted`, `reservation`, `leases` | ALLOW decisions, `budget_reservations`, `leases` (index `LeaseState`) |
| `generation`, `observed`, `proven`, `doubt` | `execution_generations`, `observations`, `quiescence_proofs`, `in_doubt` |
| `NodeSteps`, `LeaseSteps`, `ObligationSteps` | `state-machines.v6.0.1.json` |
| `Movable`, `Move` | `apply_machine` and the materialisation at the end of `reduce` |
| `Insertable` | `fmap_insert_immutable` |
| `Reopen`, `Affected` | `_mark_invalidation`, `_affected_by_obligations` |
| `Admissible`, `Startable` | `validate_execution_lease`, `validate_execution_generation` |
| one action per event type | the branch of that event type in `reduce` |

Abstractions.  Revisions, policy versions, snapshots and fencing tokens are
numbers.  A version is the string a policy carries: `PolicyActivated(v)` takes
any, the one in force and earlier ones included, and `RevokeOthers` ends the
leases that name another.  A decision is kept by the worker and the version it
is for; the snapshot of a lease is compared with the decision's where the
handler does so, and with nothing else.  Digests and signatures are what they
identify, and a client fills every field the handler only compares with the
current state correctly.  Time
is left out: decisions and reservations outlive the leases under them (the
handler compares their expiries with each other; no event but the always
refused `BUDGET_RESERVATION_EXPIRED` looks at the clock).  A lease belongs to
the reservation of its node.  The aggregate a command names and the node its
payload is about are separate inputs where the code does not compare them
(`AuthorizationGranted`, `ExecutionStarted`).

Initial states.  A workspace after set-up: objective, policy, snapshot and a
work graph of that objective.  In a store grown from genesis the lineage of
the graph is `GENESIS` and can never be another, so `GraphObjective` is a
constant: after an objective revision no execution can be started again.

Events that are always refused are actions all the same (`BudgetEnded`,
`ObligationClosed`, `VerificationCompleted`, a second contract revision): the
model derives the refusal from the same guard as the code, so a change of that
guard changes what the runs say.

`LeaseBook` is the abstract specification: a lease is handed out once, under
the active policy version, with a token above all its node ever had; its terms
never change; it ends for good, also when its version comes back; the
activation of another version ends all of them, and one of the same version
none.

## 5. Reservations: model and code

| TLA+ | code |
|---|---|
| `Total`, `Fits`, `OutstandingRows`, `OutstandingCanonical` | `_budget_sum`, `_budget_leq`, `_outstanding_projection`, `_outstanding_canonical` |
| `Enterable`, `Row` | `reserve_in_transaction` |
| `Consumable`, `Spend`, `ConsumeAndBind` | `consume_in_transaction`, `consume_and_bind` |
| `AtomicReserve`, `Admit` | `atomic_reserve_and_consume_nonce`, the admission's part of the transaction |
| `End`, `RowEnded` | `transition_in_transaction`, `release`, settlement |
| `Sweep`, `Insertable` | the canonical expiry sweep and the insert-only map that refuses it |

The money of a request exists twice: as a row of the runtime and as a record
of the canonical state.  Each path of the code counts one of the two against
the limit, and the model keeps them apart.  An amount is a number per
dimension, compared and added dimension by dimension (`Plus`, `Leq`); `Total`
folds `Plus` over the amounts.  A record set instead of a function keeps what
the primary keys of the tables allow.

## 6. ExecutionGate: model and code

One action per point of `execute_lifecycle` where another thread or process
may come in between: `Preflight`, `Admit` (one transaction), `Read` (the state
the generation is bound to), `Check`, `Start` (the first event), `Spawn`,
`RunEnds`, `Judge` (quiescence and outcome), `Fail` (the except block), and
`Load` and `Commit`, the two halves of each round of `commit_events`.  `fresh`
says for which calls the head they read last is still the head; `anchored`,
for which requests nothing but their own events followed the state they were
bound to.  `Disturb` is everybody else: revocation, expiry, policy activation
(under another version, under the same one, or back to an earlier one),
released rows, withdrawn trust, cancellation, unrelated events, the death of
the gate's process.

`Kill` hits every process the boundary runs at that moment, whichever call it
belongs to.  `execution_gate_factory` makes a gate and a boundary for each
execution, a caller that keeps a gate shares one between its threads; which
calls do is left open, so a kill may hit any of the running ones.

The reducer is represented by which of the gate's events it takes
(`Applicable`).  No batch of the gate gets to its end: `EVIDENCE_ACCEPTED` is
refused because the observation it refers to has not been recorded,
`EXECUTION_COMPLETED` and `BUDGET_RELEASED` because they rewrite insert-only
records.  So the event behind `EVIDENCE_ACCEPTED` in the code's list is left
out of `OutcomeEvents` where it makes no difference, and every call ends by
raising.

`PostCheckHolds` is TRUE in the runs: the check after the admission
(runtime:2314) compares the lease with the head that issuing it has just
moved, and fails as written; the tests of the repository patch it, and what
lies behind it can be studied only with the patch.  What the check does as
written is the run `no_stranded_lease`.

## 7. ReleaseEvidence: model and code

| TLA+ | code |
|---|---|
| `EvidenceAccepted`, `AssessmentCreated`, `ObligationSatisfied`, `ApprovalRecorded` | the branches of these events in `reduce` |
| `MarkInvalidation`, `Revised`, `EvidenceInvalidated` | `_mark_invalidation`, `_revise_governing_state` |
| `validate_approval_set`, `validate_waiver`, `is_fresh`, `Composed` | the predicates of the same or similar name |
| `evaluate_release`, `ReleaseEvaluated` | `evaluate_release` and the event that derives it anew |

Checks whose order decides the verdict are a sequence of `Check`s, and
`FirstFailing` answers for the first that fails.  The waiver rules are part of
the active policy (`waiverRules`): whether waivers are taken at all, and
whether one needs a signature and an approval set with its quorum.  As in the
code, a policy without `require_signature` asks for none of these.  An
activation brings any version and any rules; `revisions` bounds how many there
are.  Signatures, profiles and
provenance are the verdict the directory gives on them.  No event takes an
obligation to IN_PROGRESS or WAIVED and none writes the verifier profiles, the
principal directory or the provenance records; a behaviour starts from a state
that holds them, as the conformance tests build it, and is followed up to its
first evaluation.

## 8. Authority, KeyDirectory and Recovery

`Authority`: `Activate` with `policy_relation` and `_is_tightening`,
`Authorize` with the profile of the tier the decision claims, held against the
tier its work node bears (`classify_risk` is not called there; it is used only
to say which tier work of a risk should bear), and `Judge` and
`Run`, a request held against capability, decision and lease
(`authorize_with_authorities`): by a caller that resolves host names, and by
the gate, which passes no addresses.  The fields of a policy no decision
depends on are one number that may only fall.

`KeyDirectory`: the rows of `SQLiteKeyDirectory`, the pairs a process holds,
the key a boundary imports when it is constructed, the worker registry, and
every place that relies on a signature (`sign`, `Ingest`,
`verify_authorization_lease`, `attest`, `_verify_worker_attestation`).  A
signature is the pair it was really made with.

`Recovery`: `recover` with the receipts its caller hands it, the journal and
the in-doubt records, and the canonical consumption of retries and break-glass
uses.  `Transact` is one transaction, with the guard of the reducer and a
death of the process before its commit: that SQLite's transactions are atomic
is assumed here and looked into in `ControlPlane`.  Left out are the
`IN_DOUBT_DECLARED` and `IN_DOUBT_RESOLVED` a gate (runtime:2436) or a client
submits directly, which write the record and bypass the journal;
`SQLiteRetryBudgetStore.register` (runtime:1209), an insertion no
other code of the runtime calls; and an engine without a control plane, which nothing
constructs.

`MCRecords` runs all three side by side; they share no variable, so a
behaviour moves one of them.

## 9. Product: model and code

Two processes over one workspace and one store: a client
(`compile_and_submit_intent`, `run_autonomous_cycle`, `verify_obligations`,
`evaluate_and_release`) and an MCP server (`validate_patch`), with
`PatchAgentWorker` and the engines between them, and people who edit files.  A
content stands for the engines it satisfies (`Satisfies`); an engine can always
fail.  What `write_text` makes of a content that `read_text` has read is
`AsText`: line ends of other kinds become newlines.  People may write contents
the program itself never would.  `Linked` is a path of the workspace that leads
out of it: a patch for it is refused, but the server has read it before and
puts it back with the others.  Each file write, each engine run and the putting
back of a file is a step of its own; `write_text` is taken to be atomic.  The
objective the client submits is not modelled, because nothing it does
afterwards depends on the answer.

`ReadyIsVerified` is about the round READY stands on: it came to its end and
every engine its program's contract requires has passed.  It does not say that the
engines saw the client's own files (the server's trial may have been in them),
nor that the round was the present program's; the second is `ReadyIsCurrent`,
which the code does not keep (section 12).

## 10. What the runs check

| run | instance | shows |
|---|---|---|
| `control_plane` | 2 processes, 2 command ids, 1 object with 2 contents, room for 2 events, 2 issued commands | all safety properties, `CommittedForever`, and `ImplementsCommandLog` |
| `control_plane_live` | 2 processes, 1 id, 1 content, with weak fairness of each running call | `EveryCallEnds`, `LockIsReleased` |
| `work_nodes` | 2 nodes, 1 worker, 1 obligation served by one of them, 2 objective revisions, 2 policy versions | types, `RevisionReopens` |
| `work_leases` | 1 node, 2 lease ids, 2 tokens, 2 policy versions, 2 snapshots | `PolicyBound`, `LeaseBacked`, `KeepsTheBook` |
| `reservations` | 2 nonces, 2 requests, 2 limits | `NonceOnce`, `PaidRows`, `AdmittedWithinLimit`, `EndedRowsRest` |
| `gate` | 2 calls, 2 requests of 1 node, 2 disturbances, 1 call that may crash | six invariants, `StartsUnderLease`, `EveryGateCallEnds` |
| `release` | 1 obligation worked on, 1 waived, 3 waiver rules, 2 policy versions | `SatisfiedIsGoverned`, `ReadyIsEarned`, `WaiverHasQuorum` |
| `records` | 2 keys, 2 roots, 2 pairs, 1 worker, 3 instants; 2 nodes, 2 effects, 1 budget, 3 recovery events; 2 tiers, 2 activations, 1 granted request | `DistrustIsForGood`; `TablesFollowHistory`; `NoSilentRelaxation`, `GrantedByEveryScope` |
| `product` | 2 files and 2 paths no write may reach, 3 contents, 2 intents, 1 edit by others | `ReadyIsVerified`, `RestoreKeepsText` |
| `no_stranded_lease` | the gate's instance, the post-admission check as written | a call ends and its lease stays ACTIVE (section 12) |
| `no_invalidated_release` | the release instance | a release is READY on evidence an event has invalidated |
| `no_superseded_ready` | the product instance | a client is READY on the round of a program it has replaced |

Bounds of `ControlPlane`.  `MaxLog` is the room in the database file: appending beyond it is
the "disk full" exit, so the bound is a behaviour, not a cut.  `MaxIssued`
limits the commands clients build; each may be delivered any number of times.
Two processes and two commands produce every conflict the code handles: the
same id twice, one id with two contents, a command against a batch, a batch
against a receipt, a stale head after each of them; two events are enough for
a head to be both behind and ahead of a command.  One object suffices because
the reducer's immutable insertion treats identities independently.  The main run's
batches have two events (a receipt already is a batch of one); the live run
has one-event batches too.  Process, id and content symmetry is used in the
safety runs only.

Bounds of `WorkLifecycle`.  Two nodes are needed for the grant that must find
exactly one candidate, for an event about one node that moves another, and for
a revision that must reopen one and leave the other; leases interact only with
leases of their own node, so their run has one node.  Two leases, two tokens
and two versions give every order of issue, expiry, revocation, activation
(same version, other version, first version again) and re-issue.  In the node
run there are no leases and no funded nodes (`Funded`, `LeaseIds` empty),
because no node event looks at a lease or a reservation.

Bounds of the others.  `Reservations`: two requests compete for one limit, two
nonces give one to steal.  `ExecutionGate`: calls interact through their node,
so one node suffices; the second call may share the request of the first;
two disturbances (`MaxDisturbances`) suffice to end a lease and move the
policy, or to kill a call and unsettle another.  `ReleaseEvidence`:
`MaxEvents` and `MaxRevisions` allow a full path to READY with one thing
changed on the way; two principals of one person and a contract with a
mandatory row and alternatives are among the values; waiver rules do not touch
worked obligations, so those without signature run with one contract only.
`Authority`: a chain needs two activations (`MaxActivations`); requests are
judged independently, so one grant is enough (`MaxGrants`); where another part
of the run moves it starts from one policy.  `Recovery`: three recovery events (`MaxEvents`) give a
second attempt of a case with another between.  `Product`: an engine, a write
or an edit can come between any two steps of the other process; a content with
other line ends is as good as the one it becomes, and the two paths a write may
leave or create begin without a file.

Fairness.  `ControlPlane`: `Step(p)` (the continuation of a running call) is
weakly fair: a process that was not killed executes its next statement, and a
process waiting for the lock gets either the lock or the busy timeout.
`ExecutionGate`: `Proceed(c)` is a thread that goes on, and `Deadline(c)` the
timeout `_run_from_gate` gives every process; that a process ends by itself is
not assumed.  Starting calls, commands, disturbances and crashes have no
fairness.

Deadlock is checked where a next step is always possible (`ControlPlane`,
`WorkLifecycle`).  It is off where a bound ends every behaviour: time and keys
that are used up (`Reservations`), calls that are all done (`ExecutionGate`),
an evaluated release, spent activations, recorded recoveries and edits.

## 11. What is proved

All theorems hold for any values of the constants that satisfy the named
assumptions, which say no more than that sentinels are fresh, bounds are
numbers and parameters have their types; TLC evaluates each of them in a run.

`ControlPlaneProofs`, for any number of processes, ids, objects and contents:

- `Inductive`: `Spec => []IInv`.  None of the properties is inductive alone:
  that the *committed* tables are sound after `COMMIT` depends on what the
  draft contains.  `IInv` therefore says, for each stage of a call, that the
  draft is exactly the committed tables plus the statements passed so far
  (`Drafted`), that a call past its second lookup has no ledger row
  (`Undecided`), that its events were accepted by the committed state
  (`Accepted`) and that its result names the position it will have (`Built`).
  The proof has one lemma per statement (its effect field by field), one lemma
  for what other calls see of a step (`CallUndisturbed`) and one per group of
  actions; the commit is the only step that needs the store's invariants.
- `TypeCorrect`, `ExactlyOnce`, `RefusedAlwaysForGood`,
  `AppliedAlwaysAtNamedHead`, `StoreSound`, `OneContentAlways`,
  `EffectsAlwaysFollow`, `AnswersTrue`: the eight invariants of the run, one
  by one.
- `HistoryKept`: the action property `CommittedForever`.
- `Refinement`: `Spec => ImplementsCommandLog`.

`WorkLifecycleProofs`, for any nodes, workers, leases, obligations and
serving relation:

- `Inductive`: `TypeOK`, `PolicyBound` and `LeaseBacked` together.  The two
  lease invariants rest on types only, but the refinement needs
  `PolicyBound`: that the activation of another version ends *every* lease is
  true because all ACTIVE ones are of the version it replaces, so that none is
  left of the version that comes, however often it was in force before.
  `LeaseSeesStep` reduces every event to one of four kinds
  (activation, issue, end, or a step that only adds decisions and
  reservations), and each later proof has one step per kind.
- `PolicyBoundAlways`, `LeaseBackedAlways`, `RevisionReopensAlways`, and
  `Refinement`: `Spec => KeepsTheBook`.
- `TokensFence`: no two leases of a node ever carry the same fencing token,
  and the terms and the end of a lease are for good.  It is proved from the
  steps of `LeaseBook` (`BookKeeps`): what the abstract specification promises
  holds of the reducer's own records because of the refinement.

`ReservationsProofs`, for any requests, nonces, dimensions and limits:

- `NonceOnceAlways`, `PaidRowsAlways`, `EndedRowsRestAlways`.  The invariant
  adds to the types that a row's version says how often it changed
  (`Versions`), so that a row that ended cannot be one that begins.
- `AdmittedAlwaysWithinLimit`.  The admission counts the canonical records, the
  property the admitted rows; the invariant (`LimitInv`) adds that every
  admitted row has a canonical record of its amount, and that all records are
  held.  The sums themselves need facts about `FoldFunction` on finite sets:
  the fold exists (`FoldExists`), takes one element at a time in any order
  (`FoldSums`, `TotalSums`), and a total is within another whose amounts it
  maps into one to one (`PartWithinWhole`, `TotalWithin`).
- `HeldForGood`: a canonical reservation is never expired and never changes,
  because the sweep is always refused.  No run states it.

`ExecutionGateProofs`, for any number of calls, requests, nodes, crashes and
disturbances: every invariant of the run and `StartsUnderLease`.  The
strengthening says which sequences of events a call can still have to append
(`Plans`), that a call about to spawn, or with a process, is the one that
recorded its node's generation (`Starts`), that lease and decision stand as
long as the head a call read after its admission is the head (`Current`), and
that a call with no revocation left before `WORK_FAILED` has a revoked lease
(`Failing`).  One lemma per action.

`ReleaseEvidenceProofs`, for any obligations, principals, roles and bounds:

- `SatisfiedAlwaysGoverned`.  A revision of objective, policy or snapshot
  leaves nothing satisfied (`RevisedInv`), and accepted evidence goes only
  where there was none.
- `ReadyAlwaysEarned` and `WaiverAlwaysHasQuorum`, action properties of the
  evaluation, the first about worked obligations, the second about waived ones
  and under a policy that asks for signatures where it speaks of approvals.
  `FirstVerdict` says that a sequence of checks answers OK only when every check
  holds (it needs a least failing index, `LeastNumber`);
  `ReadyMeans`, `ApprovalMeans`, `ApprovalSetMeans` and `ComposedMeans` say what
  the verdicts stand for, and `Kinds` that what is recorded for an obligation
  is of its kind, so that READY is traced back to evidence or waiver.

`AuthorityProofs`, for any policies, scopes, requests and bounds:

- `NeverSilentlyRelaxed`.  `_is_tightening` is transitive
  (`TighteningTransitive`), so the start of a chain is tightened by its end,
  and a tightened policy grants less (`TighteningGrantsLess`), except that a
  profile that asked nobody may have come to ask for approvals.  It is about
  work that bears the tier its risk falls into: `_risk_mapping_tightened`
  compares the profiles of those tiers only, while a decision is validated by
  the profile of the tier it claims (section 12).
- `EveryScopeGrants`: a request that was run was granted by the capability, the
  decision and the lease, each by itself.  The property says in its own words
  what that means for files, external effects and hosts (the longest rule
  decides a path and a root rule the root alone, units stay within the one
  limit of their system, every hop is pinned), and the lemmas show that the
  code's `Judge` implies it.

`RecordsProofs`:

- `DistrustAlwaysForGood`, an action property from the invariant that a key
  once distrusted keeps its row and is not ACTIVE, and that none is revoked as
  of an instant to come.
- `TablesAlwaysFollow`: rows, attempts, doubts and counts of the recovery tables
  are those of the history, wherever a transaction is refused or dies.  The
  counts along the history are cardinalities of sets of positions, followed
  over one appended event at a time (`JournalGrows`, `DoubtMoves`).
- `NeverConsumed`: a retry budget stays as created and no break-glass use is
  ever counted, because both events are refused.  No run states it.

`ProductProofs`: `ReadyAlwaysVerified` (in a round each required engine has
run or is still to run) and `RestoreAlwaysKeepsText` (what the server found of
a path stays what it found, and reading a text back changes it no more).

Where a fact is about data of any size (sums over rows, the first failing
check), the library's induction schemes cannot be instantiated by the provers
used; the proofs take a least counterexample instead (`WFMin` over the numbers
or over finite sets ordered by inclusion), which is a statement of first order.

Only model-checked: the liveness properties `EveryCallEnds`, `LockIsReleased`
and `EveryGateCallEnds`, which rest on fairness and `ENABLED` and are out of the
prover's reach.  Every invariant, action property and refinement a passing run
checks is a theorem.

## 12. Observations

Three disagreements of code and documents have a run and are listed as findings:

- `no_stranded_lease`: the checks between admission and the try block
  (runtime:2309-2318) raise without cleanup, and the one at 2314 always does;
  the design (2825) promises that a failure after step 6 cancels the lease.
- `no_invalidated_release`: an invalidation marks the evidence it names, the
  obligation stays SATISFIED, and no freshness dimension the evaluator asks
  for looks at the mark.
- `no_superseded_ready`: `compile_and_submit_intent` replaces the program and
  leaves the closure of the one before, on which `evaluate_and_release`
  (client.py:386) then answers READY; the design (4736) says that no superseded
  chain can reach it.

What else the models show of the code (design is
`src/00-SPEC/S-CLASS-v6.0.1-FINAL-FIXED-DESIGN.md`):

- Submission.  A `STALE_HEAD` refusal is recorded under the command id, a
  redelivery is answered `IDEMPOTENT_REPLAY`, and a rebuilt command needs a new
  id.  `RefusedForGood`: nothing is lost by this.  The lookup outside the
  transaction is an optimisation only: dropping the second lookup is caught,
  dropping the first is not observable.
- Reducer.  Cancelled work keeps an ACTIVE lease (semantics:3974, design:3612).
  An invalidation takes a node out of doubt while the record stays open
  (semantics:3511, design:3827).  A second ACTIVE lease of a node is admitted
  (semantics:3756); only the gate prevents it.  The outcome of an execution of
  a superseded objective is accepted (semantics:3972).  A node is never
  started a second time (semantics:5112, design:112).  A canonical reservation
  is never settled, released or expired (semantics:3944, design:3608).
  `IN_DOUBT_DECLARED` does not move the node, `IN_DOUBT_RESOLVED` makes any
  legal step of any node.  No event takes an obligation out of PENDING.
- Money.  Rows and admissions are counted against the limit by different
  ledgers (runtime:1178, 389) and together can exceed it
  (`src/20-RUNTIME/README.md:27`); each alone keeps it (`AdmittedWithinLimit`).
- Gate.  Every call ends by raising.  A failed call records `IN_DOUBT_DECLARED`
  and then `WORK_FAILED` of the same node (runtime:2441, design:2822).  The
  lease is not looked at again before the spawn, so a process may begin under
  a lease revoked after the recorded start.  `kill` in the cleanup does not
  reach what its own call's run has left behind, since the pid is taken out when
  the run returns; on a boundary that calls share it ends the running processes of the
  others.
- Release.  Under a policy without `require_signature` (semantics:5175) a waiver
  needs neither signature nor approvals.  A recorded delta moves the target and reopens nothing; the
  evaluation alone compares targets.  Approval sets are recorded unjudged and
  replace the one before.  Separation of requester and approver compares
  principal ids, not the persons behind them.
- Authority.  `_is_tightening` does not compare approval quorums, so a lower
  quorum passes as a tightening (`NoSilentRelaxation` has to exclude it).  A
  decision's risk tier is claimed, not recomputed (semantics:5021), and need
  only agree with the tier its node was given.  `_risk_mapping_tightened`
  (semantics:982) compares the profiles some risk falls into, the design
  (1642) those of every tier; so a profile no risk falls into any more can be
  weakened by a tightening and then be claimed.  A filesystem rule for the
  root matches the root alone.  The gate passes no addresses, so every network
  request is denied there.  A policy with the same version string as its
  predecessor revokes no lease (semantics:3706), and `verify_authorization_lease`
  (runtime:665) sees no difference; the gate does, where it validates the decision anew.
- Keys and workers.  Revoking again moves the instant of revocation;
  re-registering a revoked worker activates it; a conflicting provisioned key
  leaves its root added and no control plane.
- Recovery.  `RETRY_CONSUMED` of an existing budget and every
  `BREAK_GLASS_CONSUMED` are refused, so neither is ever consumed; `recover`
  trusts the receipts of its caller.
- Product.  READY survives the compilation of a new program until the next
  verification or release; engines of one round may see different contents;
  a refused path midway leaves earlier files written, and the autonomous cycle
  empties the package files it carries.  Putting a file back normalises its
  line ends, also where a link leads out of the workspace and nothing was
  written, leaves created directories and overwrites an edit made meanwhile; a
  server that dies leaves its patch.  A file that is no text makes the server
  raise before it has written anything.
- Worktrees (read, not modelled).  `worktree_context` (worktrees.py:155) falls
  back to the main directory when a worktree cannot be created, against the
  module's own docstring; "a/b" and "a_b" share one tree; removing the
  directory leaves git's registration and the branch.

## 13. Not modelled

- Checkpoint, restore, replay, migrate and `verify_chain` of the event store:
  maintenance over a database at rest.  A checkpoint taken while others append
  reads commits, events and projection in separate statements; it is listed
  as a hazard without a property.
- Requirements, verification plans, graph validation and
  `canonical_governing_budget_lineage`: checks of one submitted value.
  `CanonicalCoordinatedRecovery`: constructed by tests only.
- C1 byte encoding and hashing (vectors and an independent implementation
  cover them); kernel features of the OS boundary, snapshot handles and the
  hashing of observations.
- Worktrees and the preflight scan, editor adapters, integrations, optional
  verification adapters, policy and plugin file parsing, the secret scanner,
  the context compiler, the command line, doctor and stage runner: sequential
  data transformation or I/O with no protocol state.
