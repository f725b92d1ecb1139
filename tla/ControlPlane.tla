----------------------------- MODULE ControlPlane -----------------------------
(***************************************************************************)
(* SClassControlPlane over one SQLite file: command submission, the event *)
(* store's batch append and the external-effect writer, run by processes  *)
(* with a connection each.  SQLite itself is external: BEGIN IMMEDIATE is *)
(* a write lock, the writer works on its own copy of the tables, COMMIT   *)
(* publishes the copy, ROLLBACK or the death of the process drops it.     *)
(***************************************************************************)
EXTENDS Integers, Sequences, FiniteSets

CONSTANTS
    Procs,          \* processes (or threads), one SQLite connection each
    CmdIds,         \* Command.command_id
    Idents,         \* identities of canonical objects (reservation, receipt, ...)
    EffectIdents,   \* those of external-effect receipts
    Values,         \* contents an object may have
    Batches,        \* event batches given to append_batch
    MaxLog,         \* bound: events the database file has room for
    MaxIssued,      \* bound: commands built by clients
    NoProc, NoCmd, NoRow, NoValue, NoJob

Facts == [ident : Idents, value : Values]

ASSUME ControlPlaneAssumption ==
    /\ NoProc \notin Procs
    /\ NoValue \notin Values
    /\ EffectIdents \subseteq Idents
    /\ Batches \subseteq Seq(Facts) \ {<<>>}
    /\ MaxLog \in Nat /\ MaxIssued \in Nat

(***************************************************************************)
(* A command names the head its client read.  The event chain is linear   *)
(* and only grows, so the head hash is told by its sequence number.       *)
(***************************************************************************)
Commands == [id : CmdIds, expected : Nat, fact : Facts]

Events     == [by : Commands \cup {NoCmd}, fact : Facts]
CommitRows == [first : Nat, last : Nat]
LedgerRows == [cmd : Commands, status : {"APPLIED", "STALE_HEAD"}, seq : Nat]
Materials  == [Idents -> Values \cup {NoValue}]

Tables == [ log        : Seq(Events),                        \* canonical_events
            commits    : SUBSET CommitRows,                  \* canonical_commits
            projection : [seq : Nat, state : Materials],     \* canonical_projection
            ledger     : [CmdIds -> LedgerRows \cup {NoRow}],\* runtime_commands
            effects    : [EffectIdents -> Values \cup {NoValue}] ] \* runtime_effect_receipts

(***************************************************************************)
(* What a process is asked to do.  expected is read before the transaction *)
(* by append_batch's caller; the effect writer reads it inside.            *)
(***************************************************************************)
Jobs == [kind : {"submit"}, cmd : Commands, expected : Nat, facts : Seq(Facts)]
        \cup [kind : {"append", "effect"}, cmd : {NoCmd}, expected : Nat, facts : Seq(Facts)]

ASSUME SentinelAssumption == NoCmd \notin Commands /\ NoRow \notin LedgerRows /\ NoJob \notin Jobs

Answers == [cmd : Commands, told : {"APPLIED", "STALE_HEAD", "IDEMPOTENT_REPLAY"}, seq : Nat]

VARIABLES
    db,       \* the committed tables
    lock,     \* the process inside BEGIN IMMEDIATE .. COMMIT, or NoProc
    tx,       \* the tables as that process sees them (db when there is none)
    pc, job,  \* per process: where it is, what it does
    result,   \* per process: the ledger row behind the CommandResult it has built
    issued,   \* commands clients have built; each may be delivered any number of times
    answers   \* every CommandResult a caller has received

vars == <<db, lock, tx, pc, job, result, issued, answers>>

Stages == {"idle", "lookup", "authenticate", "begin", "relookup", "load", "effectRow",
           "commitRow", "eventRows", "projectionRow", "ledgerRow", "staleRow", "commit", "done"}

-----------------------------------------------------------------------------
(***************************************************************************)
(* The reducer, as far as history can tell: fmap_insert_immutable.         *)
(***************************************************************************)
EmptyState == [i \in Idents |-> NoValue]

\* A bug to be caught: fmap_update where fmap_insert_immutable belongs.
OverwritingAccepts(state, facts) == TRUE

\* Re-inserting the same content is accepted, other content under a known identity is not.
Accepts(state, facts) ==
    \A k \in DOMAIN facts :
        /\ state[facts[k].ident] \in {NoValue, facts[k].value}
        /\ \A m \in DOMAIN facts :
               facts[m].ident = facts[k].ident => facts[m].value = facts[k].value

Reduce(state, facts) ==
    [i \in Idents |-> IF \E k \in DOMAIN facts : facts[k].ident = i
                      THEN facts[CHOOSE k \in DOMAIN facts : facts[k].ident = i].value
                      ELSE state[i]]

(***************************************************************************)
(* _load_canonical_state: the self-checks of a read, and what it refuses.  *)
(***************************************************************************)
ProjectionAgrees(t) ==
    /\ t.projection.seq = Len(t.log)
    /\ \A n \in DOMAIN t.log : t.projection.state[t.log[n].fact.ident] = t.log[n].fact.value
    /\ \A i \in Idents :
           t.projection.state[i] # NoValue => \E n \in DOMAIN t.log : t.log[n].fact.ident = i

CommitsCover(t) ==
    /\ \A r \in t.commits : r.first \in 1..r.last /\ r.last <= Len(t.log)
    /\ \A n \in DOMAIN t.log : \E r \in t.commits : n \in r.first..r.last
    /\ \A r, s \in t.commits : r # s => r.last < s.first \/ s.last < r.first

Loadable(t) == ProjectionAgrees(t) /\ CommitsCover(t)

(***************************************************************************)
(* Effects of the single statements on the writer's copy of the tables.   *)
(***************************************************************************)
WithEffectRow(t, j) == [t EXCEPT !.effects[j.facts[1].ident] = j.facts[1].value]

\* A bug to be caught: the commit row ends one event short.
ShortCommitRow(t, j) ==
    [t EXCEPT !.commits = @ \cup {[first |-> Len(t.log) + 1, last |-> Len(t.log) + Len(j.facts) - 1]}]

WithCommitRow(t, j) ==
    [t EXCEPT !.commits = @ \cup {[first |-> Len(t.log) + 1, last |-> Len(t.log) + Len(j.facts)]}]

WithEventRows(t, j) ==
    [t EXCEPT !.log = @ \o [k \in DOMAIN j.facts |-> [by |-> j.cmd, fact |-> j.facts[k]]]]

WithProjectionRow(t, j) ==
    [t EXCEPT !.projection = [seq |-> Len(t.log), state |-> Reduce(@.state, j.facts)]]

WithLedgerRow(t, row) == [t EXCEPT !.ledger[row.cmd.id] = row]

-----------------------------------------------------------------------------
Genesis == [ log        |-> <<>>,
             commits    |-> {},
             projection |-> [seq |-> 0, state |-> EmptyState],
             ledger     |-> [i \in CmdIds |-> NoRow],
             effects    |-> [i \in EffectIdents |-> NoValue] ]

Init ==
    /\ db = Genesis
    /\ lock = NoProc
    /\ tx = Genesis
    /\ pc = [p \in Procs |-> "idle"]
    /\ job = [p \in Procs |-> NoJob]
    /\ result = [p \in Procs |-> NoRow]
    /\ issued = {}
    /\ answers = {}

Goto(p, stage) == pc' = [pc EXCEPT ![p] = stage]

\* The call is over, by a return or an exception.
Leave(p) ==
    /\ Goto(p, "idle")
    /\ job' = [job EXCEPT ![p] = NoJob]
    /\ result' = [result EXCEPT ![p] = NoRow]

Rollback(p) == lock' = NoProc /\ tx' = db /\ Leave(p)

Tell(p, told, seq) ==
    answers' = answers \cup {[cmd |-> job[p].cmd, told |-> told, seq |-> seq]}

\* A client reads the committed head and builds a command for it.
Issue(id, fact) ==
    /\ Cardinality(issued) < MaxIssued
    /\ issued' = issued \cup {[id |-> id, expected |-> Len(db.log), fact |-> fact]}
    /\ UNCHANGED <<db, lock, tx, pc, job, result, answers>>

\* submit / _submit_internal with a command built earlier: first delivery, retry or duplicate.
Deliver(p, c) ==
    /\ pc[p] = "idle"
    /\ job' = [job EXCEPT ![p] = [kind |-> "submit", cmd |-> c, expected |-> c.expected,
                                  facts |-> <<c.fact>>]]
    /\ Goto(p, "lookup")
    /\ UNCHANGED <<db, lock, tx, result, issued, answers>>

\* append_batch of events its caller chained onto the head it read.
StartAppend(p, facts) ==
    /\ pc[p] = "idle"
    /\ job' = [job EXCEPT ![p] = [kind |-> "append", cmd |-> NoCmd, expected |-> Len(db.log),
                                  facts |-> facts]]
    /\ Goto(p, "begin")
    /\ UNCHANGED <<db, lock, tx, result, issued, answers>>

\* reconcile_external_effect: no command row and no expected head of its own.
StartEffect(p, fact) ==
    /\ pc[p] = "idle"
    /\ job' = [job EXCEPT ![p] = [kind |-> "effect", cmd |-> NoCmd, expected |-> 0,
                                  facts |-> <<fact>>]]
    /\ Goto(p, "begin")
    /\ UNCHANGED <<db, lock, tx, result, issued, answers>>

-----------------------------------------------------------------------------
\* A bug to be caught: the request digest is not compared.
NoConflict(t, c) == FALSE

Known(t, c)    == t.ledger[c.id] # NoRow
Conflict(t, c) == Known(t, c) /\ t.ledger[c.id].cmd # c

\* The ledger read before the transaction.
LookupMiss(p) ==
    /\ pc[p] = "lookup" /\ ~Known(db, job[p].cmd)
    /\ Goto(p, "authenticate")
    /\ UNCHANGED <<db, lock, tx, job, result, issued, answers>>

LookupReplay(p) ==
    /\ pc[p] = "lookup"
    /\ Known(db, job[p].cmd) /\ ~Conflict(db, job[p].cmd)
    /\ Tell(p, "IDEMPOTENT_REPLAY", db.ledger[job[p].cmd.id].seq)
    /\ Leave(p)
    /\ UNCHANGED <<db, lock, tx, issued>>

LookupConflict(p) ==
    /\ pc[p] = "lookup" /\ Conflict(db, job[p].cmd)
    /\ Leave(p)
    /\ UNCHANGED <<db, lock, tx, issued, answers>>

\* The key directory (external here) accepts the actor, or the caller is told DENIED.
Authenticate(p) ==
    /\ pc[p] = "authenticate"
    /\ \/ Goto(p, "begin") /\ UNCHANGED <<job, result>>
       \/ Leave(p)
    /\ UNCHANGED <<db, lock, tx, issued, answers>>

Begin(p) ==
    /\ pc[p] = "begin" /\ lock = NoProc
    /\ lock' = p /\ tx' = db
    /\ Goto(p, IF job[p].kind = "submit" THEN "relookup" ELSE "load")
    /\ UNCHANGED <<db, job, result, issued, answers>>

\* A bug to be caught: BEGIN IMMEDIATE waits for ever.
NeverBusy(p) == FALSE

\* busy_timeout ran out: OperationalError out of BEGIN IMMEDIATE, no transaction to roll back.
Busy(p) ==
    /\ pc[p] = "begin" /\ lock # NoProc
    /\ Leave(p)
    /\ UNCHANGED <<db, lock, tx, issued, answers>>

\* A bug to be caught: the second lookup is made and its result ignored.
RelookupIgnored(p) ==
    /\ pc[p] = "relookup"
    /\ Goto(p, "load")
    /\ UNCHANGED <<db, lock, tx, job, result, issued, answers>>

\* The ledger read again, inside the transaction.
RelookupMiss(p) ==
    /\ pc[p] = "relookup" /\ ~Known(tx, job[p].cmd)
    /\ Goto(p, "load")
    /\ UNCHANGED <<db, lock, tx, job, result, issued, answers>>

\* A bug to be caught: the replay returns before the rollback.
ReplayInTransaction(p) ==
    /\ pc[p] = "relookup"
    /\ Known(tx, job[p].cmd) /\ ~Conflict(tx, job[p].cmd)
    /\ Tell(p, "IDEMPOTENT_REPLAY", tx.ledger[job[p].cmd.id].seq)
    /\ Leave(p)
    /\ UNCHANGED <<db, lock, tx, issued>>

RelookupReplay(p) ==
    /\ pc[p] = "relookup"
    /\ Known(tx, job[p].cmd) /\ ~Conflict(tx, job[p].cmd)
    /\ Tell(p, "IDEMPOTENT_REPLAY", tx.ledger[job[p].cmd.id].seq)
    /\ Rollback(p)
    /\ UNCHANGED <<db, issued>>

RelookupConflict(p) ==
    /\ pc[p] = "relookup" /\ Conflict(tx, job[p].cmd)
    /\ Rollback(p)
    /\ UNCHANGED <<db, issued, answers>>

\* A bug to be caught: only append_batch compares heads.
StaleBatchOnly(p) == job[p].kind = "append" /\ job[p].expected # Len(tx.log)

Stale(p) == job[p].kind # "effect" /\ job[p].expected # Len(tx.log)

\* The head moved: submit records the refusal, append_batch only rolls back.
LoadStale(p) ==
    /\ pc[p] = "load" /\ Loadable(tx) /\ Stale(p)
    /\ \/ job[p].kind = "submit" /\ Goto(p, "staleRow") /\ UNCHANGED <<lock, tx, job, result>>
       \/ job[p].kind = "append" /\ Rollback(p)
    /\ UNCHANGED <<db, issued, answers>>

\* Signature provenance of a security event fails inside the transaction: DENIED.
LoadDenied(p) ==
    /\ pc[p] = "load" /\ job[p].kind = "submit" /\ Loadable(tx) /\ ~Stale(p)
    /\ Rollback(p)
    /\ UNCHANGED <<db, issued, answers>>

\* The load, the reducer or a full disk raises: rolled back, nothing recorded.
LoadRaises(p) ==
    /\ pc[p] = "load"
    /\ \/ ~Loadable(tx)
       \/ ~Stale(p) /\ ~Accepts(tx.projection.state, job[p].facts)
       \/ ~Stale(p) /\ Len(tx.log) + Len(job[p].facts) > MaxLog
    /\ Rollback(p)
    /\ UNCHANGED <<db, issued, answers>>

LoadReduces(p) ==
    /\ pc[p] = "load" /\ Loadable(tx) /\ ~Stale(p)
    /\ Accepts(tx.projection.state, job[p].facts)
    /\ Len(tx.log) + Len(job[p].facts) <= MaxLog
    /\ Goto(p, IF job[p].kind = "effect" THEN "effectRow" ELSE "commitRow")
    /\ UNCHANGED <<db, lock, tx, job, result, issued, answers>>

\* A bug to be caught: the row records how the caller is answered instead of what was decided.
RepliedRow(t, c, status) == [cmd |-> c, status |-> "IDEMPOTENT_REPLAY", seq |-> Len(t.log)]

LedgerRow(t, c, status) == [cmd |-> c, status |-> status, seq |-> Len(t.log)]

Statement(p, stage, t, next) ==
    /\ pc[p] = stage
    /\ tx' = t
    /\ Goto(p, next)
    /\ UNCHANGED <<db, lock, job, issued, answers>>

\* A bug to be caught: the provider status is committed before the canonical receipt.
EffectRowAlone(p) ==
    Statement(p, "effectRow", WithEffectRow(tx, job[p]), "commit") /\ UNCHANGED result

InsertEffectRow(p) ==
    Statement(p, "effectRow", WithEffectRow(tx, job[p]), "commitRow") /\ UNCHANGED result

InsertCommitRow(p) ==
    Statement(p, "commitRow", WithCommitRow(tx, job[p]), "eventRows") /\ UNCHANGED result

InsertEventRows(p) ==
    Statement(p, "eventRows", WithEventRows(tx, job[p]), "projectionRow") /\ UNCHANGED result

\* A bug to be caught: the command row is left for after the commit.
UpsertWithoutLedger(p) ==
    Statement(p, "projectionRow", WithProjectionRow(tx, job[p]), "commit") /\ UNCHANGED result

UpsertProjection(p) ==
    /\ Statement(p, "projectionRow", WithProjectionRow(tx, job[p]),
                 IF job[p].kind = "submit" THEN "ledgerRow" ELSE "commit")
    /\ UNCHANGED result

\* The CommandResult is built and its row inserted.
PutResult(p, stage, status) ==
    /\ Statement(p, stage, WithLedgerRow(tx, LedgerRow(tx, job[p].cmd, status)), "commit")
    /\ result' = [result EXCEPT ![p] = LedgerRow(tx, job[p].cmd, status)]

\* A bug to be caught: an applied command is recorded as refused.
InsertWrongRow(p) == PutResult(p, "ledgerRow", "STALE_HEAD")

InsertLedgerRow(p) == PutResult(p, "ledgerRow", "APPLIED")
InsertStaleRow(p)  == PutResult(p, "staleRow", "STALE_HEAD")

Commit(p) ==
    /\ pc[p] = "commit"
    /\ db' = tx /\ lock' = NoProc
    /\ Goto(p, "done")
    /\ UNCHANGED <<tx, job, result, issued, answers>>

\* The caller receives the result built inside the transaction.
Return(p) ==
    /\ pc[p] = "done"
    /\ \/ job[p].kind = "submit" /\ Tell(p, result[p].status, result[p].seq)
       \/ job[p].kind # "submit" /\ UNCHANGED answers
    /\ Leave(p)
    /\ UNCHANGED <<db, lock, tx, issued>>

\* A bug to be caught: statements survive a crash without their commit.
TornCrash(p) ==
    /\ pc[p] # "idle"
    /\ IF lock = p THEN db' = tx /\ lock' = NoProc /\ UNCHANGED tx ELSE UNCHANGED <<db, lock, tx>>
    /\ Leave(p)
    /\ UNCHANGED <<issued, answers>>

\* Death of the process, or a fault raised at K1..K6: an open transaction is gone, a
\* committed one stays, and the caller hears nothing.
Crash(p) ==
    /\ pc[p] # "idle"
    /\ IF lock = p THEN Rollback(p) ELSE Leave(p) /\ UNCHANGED <<lock, tx>>
    /\ UNCHANGED <<db, issued, answers>>

-----------------------------------------------------------------------------
Call(p) ==
    \/ \E c \in issued : Deliver(p, c)
    \/ \E facts \in Batches : StartAppend(p, facts)
    \/ \E i \in EffectIdents, v \in Values : StartEffect(p, [ident |-> i, value |-> v])

Step(p) ==
    \/ LookupMiss(p) \/ LookupReplay(p) \/ LookupConflict(p) \/ Authenticate(p)
    \/ Begin(p) \/ Busy(p)
    \/ RelookupMiss(p) \/ RelookupReplay(p) \/ RelookupConflict(p)
    \/ LoadStale(p) \/ LoadDenied(p) \/ LoadRaises(p) \/ LoadReduces(p)
    \/ InsertEffectRow(p) \/ InsertCommitRow(p) \/ InsertEventRows(p) \/ UpsertProjection(p)
    \/ InsertLedgerRow(p) \/ InsertStaleRow(p) \/ Commit(p) \/ Return(p)

Next ==
    \/ \E id \in CmdIds, fact \in Facts : Issue(id, fact)
    \/ \E p \in Procs : Call(p) \/ Step(p) \/ Crash(p)

Spec == Init /\ [][Next]_vars

\* A running call goes on: SQLite answers each statement, and BEGIN within the busy timeout.
Fairness == \A p \in Procs : WF_vars(Step(p))

FairSpec == Spec /\ Fairness

-----------------------------------------------------------------------------
(***************************************************************************)
(* Properties                                                              *)
(***************************************************************************)
\* Every variable has its type; tx has the shape of the tables at every statement.
TypeOK ==
    /\ db \in Tables /\ tx \in Tables
    /\ lock \in Procs \cup {NoProc}
    /\ pc \in [Procs -> Stages]
    /\ job \in [Procs -> Jobs \cup {NoJob}]
    /\ result \in [Procs -> LedgerRows \cup {NoRow}]
    /\ issued \subseteq Commands
    /\ answers \subseteq Answers

\* A command is applied at most once, and the ledger knows exactly where: every event of a
\* command is the one its APPLIED row names, and every APPLIED row names an event of its
\* command (SQLiteCommandLedger, against redelivery, crashes between K2 and K6 and id reuse).
LedgerMatchesHistory ==
    /\ \A n \in DOMAIN db.log : db.log[n].by # NoCmd =>
           db.ledger[db.log[n].by.id] = [cmd |-> db.log[n].by, status |-> "APPLIED", seq |-> n]
    /\ \A i \in CmdIds : (db.ledger[i] # NoRow /\ db.ledger[i].status = "APPLIED") =>
           /\ db.ledger[i].seq \in DOMAIN db.log
           /\ db.log[db.ledger[i].seq].by = db.ledger[i].cmd

\* Compare-and-append: a command's event directly follows the head its client had read, so
\* nothing was committed between the client's decision and its effect.
AppliedAtNamedHead ==
    \A n \in DOMAIN db.log : db.log[n].by # NoCmd => db.log[n].by.expected = n - 1

\* A command refused as stale is never applied, and never could be: the head it names is in
\* the past.  Its STALE_HEAD row burns the id without losing anything.
RefusedForGood ==
    \A i \in CmdIds : (db.ledger[i] # NoRow /\ db.ledger[i].status = "STALE_HEAD") =>
        /\ db.ledger[i].cmd.expected < Len(db.log)
        /\ \A n \in DOMAIN db.log : db.log[n].by # db.ledger[i].cmd

\* The committed tables always pass the self-checks of _load_canonical_state: the projection
\* is the fold of the history and the commit rows partition it, whatever statement a writer
\* was interrupted at.
CommittedLoadable == Loadable(db)

\* No history holds two contents for one object: replaying it never fails.
OneContentPerIdentity ==
    \A m, n \in DOMAIN db.log :
        db.log[m].fact.ident = db.log[n].fact.ident => db.log[m].fact.value = db.log[n].fact.value

\* The provider-status table never runs ahead of the canonical receipts.
EffectsFollowHistory ==
    \A i \in EffectIdents : db.effects[i] # NoValue => db.projection.state[i] = db.effects[i]

\* What any caller was ever told of a command is what the ledger says of that very command
\* now: results survive crashes, replays and reuse of the id by another client.
AnswersHold ==
    \A a \in answers :
        /\ db.ledger[a.cmd.id] # NoRow
        /\ db.ledger[a.cmd.id].cmd = a.cmd /\ db.ledger[a.cmd.id].seq = a.seq
        /\ a.told # "IDEMPOTENT_REPLAY" => db.ledger[a.cmd.id].status = a.told

\* Committed history, commit rows and ledger rows are never changed or dropped.
CommittedForever ==
    [][/\ Len(db.log) <= Len(db'.log)
       /\ \A n \in DOMAIN db.log : db'.log[n] = db.log[n]
       /\ db.commits \subseteq db'.commits
       /\ \A i \in CmdIds : db.ledger[i] # NoRow => db'.ledger[i] = db.ledger[i]]_vars

\* Every call ends: the caller gets a result or an exception, however long others hold the lock.
EveryCallEnds == \A p \in Procs : pc[p] # "idle" ~> pc[p] = "idle"

\* No path out of a transaction leaves the write lock held.
LockIsReleased == \A p \in Procs : lock = p ~> lock # p

\* Seen through its committed tables the control plane is CommandLog: for its clients a call is
\* one step that happened or did not.
Log == INSTANCE CommandLog WITH history <- db.log, verdict <- db.ledger
ImplementsCommandLog == Log!Spec

-----------------------------------------------------------------------------
(***************************************************************************)
(* The inductive invariant: who holds the lock, what a call carries, and   *)
(* that the writer's copy of the tables is the committed one plus exactly  *)
(* the statements its stage has passed.                                    *)
(***************************************************************************)
WriterStages == {"relookup", "load", "effectRow", "commitRow", "eventRows", "projectionRow",
                 "ledgerRow", "staleRow", "commit"}
SubmitStages == {"lookup", "authenticate", "relookup", "ledgerRow", "staleRow"}
AcceptedStages == {"effectRow", "commitRow", "eventRows", "projectionRow", "ledgerRow"}

WellFormed(j) ==
    /\ j \in Jobs /\ j.facts # <<>>
    /\ j.kind = "submit" => /\ j.cmd \in issued
                            /\ j.facts = <<j.cmd.fact>> /\ j.expected = j.cmd.expected
    /\ j.kind = "append" => j.facts \in Batches
    /\ j.kind = "effect" => Len(j.facts) = 1 /\ j.facts[1].ident \in EffectIdents

Carries(p) ==
    /\ pc[p] # "idle" => WellFormed(job[p])
    /\ pc[p] \in SubmitStages => job[p].kind = "submit"
    /\ pc[p] = "effectRow" => job[p].kind = "effect"

\* The events of p are in its draft, or will be: the load found them acceptable.
Accepting(p) ==
    \/ pc[p] \in AcceptedStages
    \/ pc[p] = "commit" /\ (job[p].kind = "submit" => result[p].status = "APPLIED")

Accepted(p) == Accepting(p) =>
    /\ Accepts(db.projection.state, job[p].facts)
    /\ job[p].kind # "effect" => job[p].expected = Len(db.log)

\* Past its second lookup a command is not in the ledger, and no one else can put it there.
Undecided(p) ==
    /\ (pc[p] \in WriterStages \ {"relookup"} /\ job[p].kind = "submit") => ~Known(db, job[p].cmd)
    /\ (pc[p] = "staleRow" \/ (pc[p] = "commit" /\ ~Accepting(p))) => job[p].expected < Len(db.log)

Built(p) ==
    /\ (pc[p] = "commit" /\ job[p].kind = "submit") =>
           /\ result[p].status \in {"APPLIED", "STALE_HEAD"}
           /\ result[p] = [ cmd |-> job[p].cmd, status |-> result[p].status,
                            seq |-> IF Accepting(p) THEN Len(db.log) + 1 ELSE Len(db.log) ]
    /\ (pc[p] = "done" /\ job[p].kind = "submit") =>
           result[p].cmd = job[p].cmd /\ db.ledger[job[p].cmd.id] = result[p] /\ result[p] # NoRow

WithReceipt(j)    == IF j.kind = "effect" THEN WithEffectRow(db, j) ELSE db
WithCommit(j)     == WithCommitRow(WithReceipt(j), j)
WithEvents(j)     == WithEventRows(WithCommit(j), j)
WithProjection(j) == WithProjectionRow(WithEvents(j), j)

Drafted(p) ==
    /\ pc[p] \in {"relookup", "load", "effectRow", "staleRow"} => tx = db
    /\ pc[p] = "commitRow" => tx = WithReceipt(job[p])
    /\ pc[p] = "eventRows" => tx = WithCommit(job[p])
    /\ pc[p] = "projectionRow" => tx = WithEvents(job[p])
    /\ pc[p] = "ledgerRow" => tx = WithProjection(job[p])
    /\ pc[p] = "commit" =>
           IF job[p].kind = "submit"
           THEN tx = WithLedgerRow(IF Accepting(p) THEN WithProjection(job[p]) ELSE db, result[p])
           ELSE tx = WithProjection(job[p])

CallInv(p) ==
    /\ pc[p] \in WriterStages <=> lock = p
    /\ Carries(p) /\ Accepted(p) /\ Undecided(p) /\ Built(p) /\ Drafted(p)

\* Clients only name heads that have existed.
IssuedInv == \A c \in issued : c.expected <= Len(db.log)

\* What is true of the committed tables alone.
StoreInv ==
    /\ CommittedLoadable /\ LedgerMatchesHistory /\ AppliedAtNamedHead /\ RefusedForGood
    /\ EffectsFollowHistory

IInv ==
    /\ TypeOK
    /\ lock = NoProc => tx = db
    /\ \A p \in Procs : CallInv(p)
    /\ IssuedInv /\ StoreInv /\ AnswersHold
=============================================================================
