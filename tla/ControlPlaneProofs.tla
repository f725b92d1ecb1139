-------------------------- MODULE ControlPlaneProofs --------------------------
(* Proofs about ControlPlane, for any processes, ids, contents and bounds. *)
EXTENDS ControlPlane, SequenceTheorems, TLAPS

-----------------------------------------------------------------------------
\* Positions of b rows appended after the first a.
LEMMA AppendedPositions ==
    ASSUME NEW a \in Nat, NEW b \in Nat
    PROVE  /\ a + 1 \in Nat /\ a + b \in Nat
           /\ \A n \in (a + 1)..(a + b) : n - a \in 1..b /\ n \in 1..(a + b) /\ ~(n <= a)
           /\ \A n \in 1..(a + b) : n \in 1..a \/ n \in (a + 1)..(a + b)
           /\ \A n \in 1..a : n \in 1..(a + b)
  OBVIOUS

(* The statements, field by field. *)

\* A job that submits, appends or reconciles carries a non-empty sequence of facts.
LEMMA JobFacts ==
    ASSUME NEW j, WellFormed(j)
    PROVE  /\ j.facts \in Seq(Facts) /\ Len(j.facts) \in Nat /\ Len(j.facts) > 0
           /\ DOMAIN j.facts = 1..Len(j.facts)
           /\ \A k \in DOMAIN j.facts : /\ j.facts[k] \in Facts
                                        /\ j.facts[k].ident \in Idents /\ j.facts[k].value \in Values
           /\ j.cmd \in Commands \cup {NoCmd}
           /\ j.kind \in {"submit", "append", "effect"} /\ j.expected \in Nat
           /\ j.kind = "submit" <=> j.cmd # NoCmd
<1>1. j \in Jobs /\ j.facts # <<>>
  BY DEF WellFormed
<1>2. j.facts \in Seq(Facts) /\ j.expected \in Nat
  BY <1>1 DEF Jobs
<1>3. Len(j.facts) \in Nat /\ Len(j.facts) > 0 /\ DOMAIN j.facts = 1..Len(j.facts)
  BY <1>1, <1>2
<1>4. \A k \in DOMAIN j.facts : j.facts[k] \in Facts
  BY <1>2, <1>3
<1>5. \A f \in Facts : f.ident \in Idents /\ f.value \in Values
  BY DEF Facts
<1>6. j.cmd \in Commands \cup {NoCmd} /\ j.kind \in {"submit", "append", "effect"}
  BY <1>1 DEF Jobs
<1>7. j.kind = "submit" <=> j.cmd # NoCmd
  BY <1>1, SentinelAssumption DEF Jobs
<1>8. QED
  BY <1>2, <1>3, <1>4, <1>5, <1>6, <1>7

\* The reducer keeps a state a state, and yields exactly the old contents and the new facts.
LEMMA ReduceResult ==
    ASSUME NEW s \in Materials, NEW facts \in Seq(Facts), Accepts(s, facts)
    PROVE  /\ Reduce(s, facts) \in Materials
           /\ \A k \in DOMAIN facts : Reduce(s, facts)[facts[k].ident] = facts[k].value
           /\ \A i \in Idents : s[i] # NoValue => Reduce(s, facts)[i] = s[i]
           /\ \A i \in Idents : Reduce(s, facts)[i] # NoValue =>
                  s[i] # NoValue \/ \E k \in DOMAIN facts : facts[k].ident = i
<1>1. \A k \in DOMAIN facts : facts[k].ident \in Idents /\ facts[k].value \in Values
  <2>1. \A k \in DOMAIN facts : facts[k] \in Facts
    BY LenProperties
  <2>2. \A f \in Facts : f.ident \in Idents /\ f.value \in Values
    BY DEF Facts
  <2>3. QED
    BY <2>1, <2>2
<1> DEFINE Hit(i) == \E k \in DOMAIN facts : facts[k].ident = i
           Pick(i) == CHOOSE k \in DOMAIN facts : facts[k].ident = i
<1>2. \A i \in Idents : Hit(i) => Pick(i) \in DOMAIN facts /\ facts[Pick(i)].ident = i
  OBVIOUS
<1>3. \A i \in Idents : Reduce(s, facts)[i] = IF Hit(i) THEN facts[Pick(i)].value ELSE s[i]
  BY DEF Reduce
<1>4. Reduce(s, facts) = [i \in Idents |-> IF Hit(i) THEN facts[Pick(i)].value ELSE s[i]]
  BY DEF Reduce
<1> HIDE DEF Hit, Pick
<1>5. Reduce(s, facts) \in Materials
  BY <1>1, <1>2, <1>4 DEF Materials
<1>6. \A k \in DOMAIN facts : Reduce(s, facts)[facts[k].ident] = facts[k].value
  <2> TAKE k \in DOMAIN facts
  <2>1. Hit(facts[k].ident)
    BY DEF Hit
  <2>2. facts[Pick(facts[k].ident)].value = facts[k].value
    BY <1>1, <1>2, <2>1 DEF Accepts
  <2>3. QED
    BY <1>1, <1>3, <2>1, <2>2
<1>7. \A i \in Idents : s[i] # NoValue => Reduce(s, facts)[i] = s[i]
  <2> TAKE i \in Idents
  <2> HAVE s[i] # NoValue
  <2>1. CASE Hit(i)
    BY <1>2, <1>3, <2>1 DEF Accepts
  <2>2. CASE ~Hit(i)
    BY <1>3, <2>2
  <2>3. QED
    BY <2>1, <2>2
<1>8. \A i \in Idents : Reduce(s, facts)[i] # NoValue =>
          s[i] # NoValue \/ \E k \in DOMAIN facts : facts[k].ident = i
  BY <1>3 DEF Hit
<1>9. QED
  BY <1>5, <1>6, <1>7, <1>8

LEMMA EffectRowFields ==
    ASSUME NEW t \in Tables, NEW j, WellFormed(j), j.kind = "effect"
    PROVE  LET u == WithEffectRow(t, j) IN
           /\ u \in Tables
           /\ u.log = t.log /\ u.commits = t.commits
           /\ u.projection = t.projection /\ u.ledger = t.ledger
           /\ u.effects = [t.effects EXCEPT ![j.facts[1].ident] = j.facts[1].value]
<1>1. Len(j.facts) = 1 /\ j.facts[1].ident \in EffectIdents
  BY DEF WellFormed
<1>2. j.facts[1].value \in Values
  BY <1>1, JobFacts
<1>3. QED
  BY <1>1, <1>2 DEF WithEffectRow, Tables

LEMMA CommitRowFields ==
    ASSUME NEW t \in Tables, NEW j, WellFormed(j)
    PROVE  LET u == WithCommitRow(t, j) IN
           /\ u \in Tables
           /\ u.log = t.log /\ u.projection = t.projection
           /\ u.ledger = t.ledger /\ u.effects = t.effects
           /\ u.commits = t.commits \cup
                  {[first |-> Len(t.log) + 1, last |-> Len(t.log) + Len(j.facts)]}
<1>1. t.log \in Seq(Events)
  BY DEF Tables
<1>2. Len(t.log) \in Nat /\ Len(j.facts) \in Nat
  BY <1>1, JobFacts
<1> DEFINE first == Len(t.log) + 1
           last == Len(t.log) + Len(j.facts)
<1>a. first \in Nat /\ last \in Nat
  BY <1>2, AppendedPositions
<1> HIDE DEF first, last
<1>b. [first |-> first, last |-> last] \in CommitRows
  BY <1>a DEF CommitRows
<1>3. [first |-> Len(t.log) + 1, last |-> Len(t.log) + Len(j.facts)] \in CommitRows
  BY <1>b DEF first, last
<1>4. QED
  BY <1>3 DEF WithCommitRow, Tables

LEMMA EventRowsFields ==
    ASSUME NEW t \in Tables, NEW j, WellFormed(j)
    PROVE  LET u == WithEventRows(t, j) IN
           /\ u \in Tables
           /\ u.commits = t.commits /\ u.projection = t.projection
           /\ u.ledger = t.ledger /\ u.effects = t.effects
           /\ Len(t.log) \in Nat
           /\ u.log \in Seq(Events)
           /\ Len(u.log) = Len(t.log) + Len(j.facts)
           /\ \A n \in 1..Len(t.log) : u.log[n] = t.log[n]
           /\ \A n \in (Len(t.log) + 1)..(Len(t.log) + Len(j.facts)) :
                  u.log[n] = [by |-> j.cmd, fact |-> j.facts[n - Len(t.log)]]
<1> DEFINE rows == [k \in DOMAIN j.facts |-> [by |-> j.cmd, fact |-> j.facts[k]]]
<1>1. t.log \in Seq(Events)
  BY DEF Tables
<1>2. /\ DOMAIN j.facts = 1..Len(j.facts) /\ Len(j.facts) \in Nat
      /\ \A k \in 1..Len(j.facts) : [by |-> j.cmd, fact |-> j.facts[k]] \in Events
  BY JobFacts DEF Events
<1>3. rows \in Seq(Events) /\ Len(rows) = Len(j.facts)
  BY <1>2
<1>4. \A k \in 1..Len(j.facts) : rows[k] = [by |-> j.cmd, fact |-> j.facts[k]]
  BY <1>2
<1> HIDE DEF rows
<1>5. /\ t.log \o rows \in Seq(Events)
      /\ Len(t.log \o rows) = Len(t.log) + Len(rows)
      /\ \A i \in 1..Len(t.log) + Len(rows) : (t.log \o rows)[i] =
             IF i <= Len(t.log) THEN t.log[i] ELSE rows[i - Len(t.log)]
  BY <1>1, <1>3, ConcatProperties
<1>6. WithEventRows(t, j) = [t EXCEPT !.log = t.log \o rows]
  BY DEF WithEventRows, rows
<1>7. Len(t.log) \in Nat
  BY <1>1
<1>8. \A n \in 1..Len(t.log) : (t.log \o rows)[n] = t.log[n]
  BY <1>2, <1>3, <1>5, <1>7
<1>9. \A n \in (Len(t.log) + 1)..(Len(t.log) + Len(j.facts)) :
          (t.log \o rows)[n] = [by |-> j.cmd, fact |-> j.facts[n - Len(t.log)]]
  <2> TAKE n \in (Len(t.log) + 1)..(Len(t.log) + Len(j.facts))
  <2> DEFINE k == n - Len(t.log)
  <2>1. k \in 1..Len(j.facts) /\ n \in 1..(Len(t.log) + Len(rows)) /\ ~(n <= Len(t.log))
    BY <1>2, <1>3, <1>7, AppendedPositions
  <2>2. (t.log \o rows)[n] = rows[k]
    BY <1>5, <2>1
  <2>3. QED
    BY <1>4, <2>1, <2>2
<1>10. QED
  BY <1>3, <1>5, <1>6, <1>7, <1>8, <1>9 DEF Tables

LEMMA ProjectionRowFields ==
    ASSUME NEW t \in Tables, NEW j, WellFormed(j), Accepts(t.projection.state, j.facts)
    PROVE  LET u == WithProjectionRow(t, j) IN
           /\ u \in Tables
           /\ u.log = t.log /\ u.commits = t.commits
           /\ u.ledger = t.ledger /\ u.effects = t.effects
           /\ u.projection.seq = Len(t.log)
           /\ u.projection.state = Reduce(t.projection.state, j.facts)
<1>1. t.log \in Seq(Events) /\ t.projection.state \in Materials
  BY DEF Tables
<1>2. Len(t.log) \in Nat
  BY <1>1
<1>3. Reduce(t.projection.state, j.facts) \in Materials
  BY <1>1, JobFacts, ReduceResult
<1>4. QED
  BY <1>1, <1>2, <1>3 DEF WithProjectionRow, Tables

LEMMA LedgerRowFields ==
    ASSUME NEW t \in Tables, NEW row \in LedgerRows
    PROVE  LET u == WithLedgerRow(t, row) IN
           /\ u \in Tables
           /\ u.log = t.log /\ u.commits = t.commits
           /\ u.projection = t.projection /\ u.effects = t.effects
           /\ u.ledger = [t.ledger EXCEPT ![row.cmd.id] = row]
           /\ row.cmd.id \in CmdIds
  BY DEF WithLedgerRow, Tables, LedgerRows, Commands

-----------------------------------------------------------------------------
(* What the calls of other processes see of a step. *)

\* A call is undisturbed by a step that leaves its locals alone, only adds to the ledger and,
\* if the call holds the lock, leaves the tables and its draft alone.
LEMMA CallUndisturbed ==
    ASSUME NEW q \in Procs, CallInv(q),
           pc'[q] = pc[q], job'[q] = job[q], result'[q] = result[q],
           lock' = q <=> lock = q,
           lock = q => db' = db /\ tx' = tx,
           issued \subseteq issued',
           \A i \in CmdIds : db.ledger[i] # NoRow => db'.ledger[i] = db.ledger[i]
    PROVE  CallInv(q)'
<1>1. pc[q] \in WriterStages <=> lock = q
  BY DEF CallInv
<1>2. (pc[q] \in WriterStages <=> lock = q)'
  BY <1>1
<1>3. \A j : WellFormed(j) => WellFormed(j)'
  BY DEF WellFormed
<1>4. Carries(q)'
  BY <1>3 DEF CallInv, Carries
<1>5. Accepting(q)' = Accepting(q)
  BY DEF Accepting
<1>6. pc[q] \in WriterStages => (Accepted(q) /\ Undecided(q) /\ Drafted(q))'
  <2> SUFFICES ASSUME pc[q] \in WriterStages
               PROVE  (Accepted(q) /\ Undecided(q) /\ Drafted(q))'
    OBVIOUS
  <2>1. db' = db /\ tx' = tx
    BY <1>1
  <2>2. Accepted(q)'
    BY <1>5, <2>1 DEF CallInv, Accepted
  <2>3. Undecided(q)'
    BY <1>5, <2>1 DEF CallInv, Undecided
  <2>4. Drafted(q)'
    BY <1>5, <2>1 DEF CallInv, Drafted, WithReceipt, WithCommit, WithEvents, WithProjection
  <2>5. QED
    BY <2>2, <2>3, <2>4
<1>7. pc[q] \notin WriterStages => (Accepted(q) /\ Undecided(q) /\ Drafted(q))'
  BY DEF Accepted, Accepting, Undecided, Drafted, WriterStages, AcceptedStages
<1>8. Built(q)'
  <2>1. CASE pc[q] = "commit"
    <3>1. db' = db
      BY <1>1, <2>1 DEF WriterStages
    <3>2. QED
      BY <1>5, <2>1, <3>1 DEF CallInv, Built
  <2>2. CASE pc[q] = "done" /\ job[q].kind = "submit"
    <3>1. job[q].cmd.id \in CmdIds
      <4>1. WellFormed(job[q])
        BY <2>2 DEF CallInv, Carries
      <4>2. job[q].cmd \in Commands
        BY <2>2, <4>1, JobFacts
      <4>3. QED
        BY <4>2 DEF Commands
    <3>2. QED
      BY <2>2, <3>1 DEF CallInv, Built
  <2>3. CASE pc[q] # "commit" /\ ~(pc[q] = "done" /\ job[q].kind = "submit")
    BY <2>3 DEF Built
  <2>4. QED
    BY <2>1, <2>2, <2>3
<1>9. QED
  BY <1>2, <1>4, <1>6, <1>7, <1>8 DEF CallInv

\* Only p's locals change, and the lock only changes hands between p and nobody.
OnlyCall(p) ==
    /\ \A q \in Procs \ {p} : pc'[q] = pc[q] /\ job'[q] = job[q] /\ result'[q] = result[q]
    /\ \/ lock' = lock /\ tx' = tx
       \/ lock \in {p, NoProc} /\ lock' \in {p, NoProc}

\* A step of p that leaves the committed tables alone preserves the invariant if it preserves
\* the types, p's own part and the truth of the answers.
LEMMA StepBeforeCommit ==
    ASSUME NEW p \in Procs, IInv, OnlyCall(p), UNCHANGED <<db, issued>>,
           TypeOK', lock' = NoProc => tx' = db', CallInv(p)', AnswersHold'
    PROVE  IInv'
<1>1. \A q \in Procs : CallInv(q)'
  <2> SUFFICES ASSUME NEW q \in Procs, q # p PROVE CallInv(q)'
    OBVIOUS
  <2>1. CallInv(q) /\ NoProc \notin Procs
    BY ControlPlaneAssumption DEF IInv
  <2>2. lock' = q <=> lock = q
    BY <2>1 DEF OnlyCall
  <2>3. lock = q => db' = db /\ tx' = tx
    BY <2>1 DEF OnlyCall
  <2>4. QED
    BY <2>1, <2>2, <2>3, CallUndisturbed DEF OnlyCall
<1>2. (IssuedInv /\ StoreInv)'
  BY DEF IInv, IssuedInv, StoreInv, CommittedLoadable, LedgerMatchesHistory, AppliedAtNamedHead,
         RefusedForGood, EffectsFollowHistory
<1>3. QED
  BY <1>1, <1>2 DEF IInv

\* Leaving a call, by a return, an exception or a crash.
LEMMA LeaveStep ==
    ASSUME NEW p \in Procs, IInv, Leave(p), UNCHANGED <<db, issued>>,
           \/ lock # p /\ UNCHANGED <<lock, tx>>
           \/ lock = p /\ lock' = NoProc /\ tx' = db,
           answers' \subseteq Answers, AnswersHold'
    PROVE  IInv'
<1>1. TypeOK /\ NoProc \notin Procs /\ (lock = NoProc => tx = db)
  BY ControlPlaneAssumption DEF IInv
<1>2. /\ pc'[p] = "idle" /\ pc' \in [Procs -> Stages]
      /\ job' \in [Procs -> Jobs \cup {NoJob}] /\ result' \in [Procs -> LedgerRows \cup {NoRow}]
      /\ \A q \in Procs \ {p} : pc'[q] = pc[q] /\ job'[q] = job[q] /\ result'[q] = result[q]
  BY <1>1 DEF TypeOK, Leave, Goto, Stages
<1>3. TypeOK'
  BY <1>1, <1>2 DEF TypeOK
<1>4. CallInv(p)'
  BY <1>1, <1>2 DEF CallInv, Carries, Accepted, Accepting, Undecided, Built, Drafted,
                    WriterStages, SubmitStages, AcceptedStages
<1>5. OnlyCall(p)
  BY <1>2 DEF OnlyCall
<1>6. lock' = NoProc => tx' = db'
  BY <1>1
<1>7. QED
  BY <1>3, <1>4, <1>5, <1>6, StepBeforeCommit

\* A replay repeats the ledger row of the very command.
LEMMA ReplayHolds ==
    ASSUME NEW p \in Procs, IInv, job[p].cmd \in Commands, db' = db,
           Known(db, job[p].cmd), ~Conflict(db, job[p].cmd),
           Tell(p, "IDEMPOTENT_REPLAY", db.ledger[job[p].cmd.id].seq)
    PROVE  answers' \subseteq Answers /\ AnswersHold'
<1> DEFINE c == job[p].cmd
           a == [cmd |-> c, told |-> "IDEMPOTENT_REPLAY", seq |-> db.ledger[c.id].seq]
<1>1. db.ledger \in [CmdIds -> LedgerRows \cup {NoRow}] /\ c.id \in CmdIds
      /\ answers \subseteq Answers
  BY DEF IInv, TypeOK, Tables, Commands
<1>2. db.ledger[c.id] # NoRow /\ db.ledger[c.id].cmd = c
  BY DEF Known, Conflict
<1>3. db.ledger[c.id].seq \in Nat
  BY <1>1, <1>2 DEF LedgerRows
<1>4. answers' = answers \cup {a}
  BY DEF Tell
<1>5. a \in Answers
  BY <1>3 DEF Answers
<1>6. AnswersHold
  BY DEF IInv
<1>7. AnswersHold'
  <2> SUFFICES ASSUME NEW b \in answers'
               PROVE  /\ db.ledger[b.cmd.id] # NoRow
                      /\ db.ledger[b.cmd.id].cmd = b.cmd /\ db.ledger[b.cmd.id].seq = b.seq
                      /\ b.told # "IDEMPOTENT_REPLAY" => db.ledger[b.cmd.id].status = b.told
    BY DEF AnswersHold
  <2>1. CASE b \in answers
    BY <1>6, <2>1 DEF AnswersHold
  <2>2. CASE b = a
    BY <1>2, <2>2
  <2>3. QED
    BY <1>4, <2>1, <2>2
<1>8. QED
  BY <1>1, <1>4, <1>5, <1>7

LEMMA LookupReplayStep ==
    ASSUME NEW p \in Procs, IInv, LookupReplay(p)
    PROVE  IInv'
<1>1. CallInv(p) /\ pc[p] = "lookup"
  BY DEF IInv, LookupReplay
<1>2. lock # p /\ job[p].kind = "submit" /\ WellFormed(job[p])
  BY <1>1 DEF CallInv, Carries, WriterStages, SubmitStages
<1>3. job[p].cmd \in Commands
  BY <1>2, JobFacts
<1>4. answers' \subseteq Answers /\ AnswersHold'
  BY <1>3, ReplayHolds DEF LookupReplay
<1>5. QED
  BY <1>2, <1>4, LeaveStep DEF LookupReplay

LEMMA RelookupReplayStep ==
    ASSUME NEW p \in Procs, IInv, RelookupReplay(p)
    PROVE  IInv'
<1>1. CallInv(p) /\ pc[p] = "relookup"
  BY DEF IInv, RelookupReplay
<1>2. lock = p /\ job[p].kind = "submit" /\ WellFormed(job[p]) /\ tx = db
  BY <1>1 DEF CallInv, Carries, Drafted, WriterStages, SubmitStages
<1>3. job[p].cmd \in Commands
  BY <1>2, JobFacts
<1>4. answers' \subseteq Answers /\ AnswersHold'
  BY <1>2, <1>3, ReplayHolds DEF RelookupReplay
<1>5. QED
  BY <1>2, <1>4, LeaveStep DEF RelookupReplay, Rollback

\* Leaving without an answer.
LEMMA SilentLeave ==
    ASSUME NEW p \in Procs, IInv, UNCHANGED <<db, issued, answers>>,
           \/ Leave(p) /\ lock # p /\ UNCHANGED <<lock, tx>>
           \/ Rollback(p) /\ lock = p
    PROVE  IInv'
<1>1. answers' \subseteq Answers /\ AnswersHold'
  BY DEF IInv, TypeOK, AnswersHold
<1>2. QED
  BY <1>1, LeaveStep DEF Rollback

LEMMA SilentSteps ==
    ASSUME NEW p \in Procs, IInv,
           \/ LookupConflict(p) \/ Busy(p) \/ RelookupConflict(p) \/ LoadDenied(p)
           \/ LoadRaises(p) \/ Crash(p)
    PROVE  IInv'
<1>1. pc[p] \in WriterStages <=> lock = p
  BY DEF IInv, CallInv
<1>2. CASE LookupConflict(p) \/ Busy(p)
  <2>1. lock # p
    BY <1>1, <1>2 DEF LookupConflict, Busy, WriterStages
  <2>2. QED
    BY <1>2, <2>1, SilentLeave DEF LookupConflict, Busy
<1>3. CASE RelookupConflict(p) \/ LoadDenied(p) \/ LoadRaises(p)
  <2>1. lock = p
    BY <1>1, <1>3 DEF RelookupConflict, LoadDenied, LoadRaises, WriterStages
  <2>2. QED
    BY <1>3, <2>1, SilentLeave DEF RelookupConflict, LoadDenied, LoadRaises
<1>4. CASE Crash(p)
  BY <1>4, SilentLeave DEF Crash
<1>5. QED
  BY <1>2, <1>3, <1>4

\* The result a caller receives is the ledger row it committed.
LEMMA ReturnStep ==
    ASSUME NEW p \in Procs, IInv, Return(p)
    PROVE  IInv'
<1>1. CallInv(p) /\ pc[p] = "done" /\ TypeOK /\ AnswersHold
  BY DEF IInv, Return
<1>2. lock # p /\ WellFormed(job[p])
  BY <1>1 DEF CallInv, Carries, WriterStages
<1>3. answers' \subseteq Answers /\ AnswersHold'
  <2>1. CASE job[p].kind # "submit"
    BY <1>1, <2>1 DEF Return, TypeOK, AnswersHold
  <2>2. CASE job[p].kind = "submit"
    <3>1. result[p].cmd = job[p].cmd /\ db.ledger[job[p].cmd.id] = result[p] /\ result[p] # NoRow
      BY <1>1, <2>2 DEF CallInv, Built
    <3>2. result[p] \in LedgerRows
      BY <1>1, <3>1 DEF TypeOK
    <3>3. answers' = answers \cup
              {[cmd |-> job[p].cmd, told |-> result[p].status, seq |-> result[p].seq]}
      BY <2>2 DEF Return, Tell
    <3>4. [cmd |-> job[p].cmd, told |-> result[p].status, seq |-> result[p].seq] \in Answers
      BY <3>1, <3>2 DEF LedgerRows, Answers
    <3>5. QED
      BY <1>1, <3>1, <3>3, <3>4 DEF Return, TypeOK, AnswersHold
  <2>3. QED
    BY <2>1, <2>2
<1>4. QED
  BY <1>2, <1>3, LeaveStep DEF Return

-----------------------------------------------------------------------------
(* The steps that read. *)

\* p moves to another stage, its result and all answers stay.
LEMMA MoveStep ==
    ASSUME NEW p \in Procs, IInv, UNCHANGED <<db, result, issued, answers>>,
           NEW s \in Stages, Goto(p, s),
           NEW j \in Jobs \cup {NoJob}, job' = [job EXCEPT ![p] = j],
           \/ UNCHANGED <<lock, tx>>
           \/ lock = NoProc /\ lock' = p /\ tx' = db,
           CallInv(p)'
    PROVE  IInv'
<1>1. TypeOK /\ AnswersHold /\ (lock = NoProc => tx = db) /\ NoProc \notin Procs
  BY ControlPlaneAssumption DEF IInv
<1>2. TypeOK'
  BY <1>1 DEF TypeOK, Goto
<1>3. OnlyCall(p)
  BY <1>1 DEF OnlyCall, TypeOK, Goto
<1>4. AnswersHold' /\ (lock' = NoProc => tx' = db')
  BY <1>1 DEF AnswersHold
<1>5. QED
  BY <1>2, <1>3, <1>4, StepBeforeCommit

LEMMA CallSteps ==
    ASSUME NEW p \in Procs, IInv, Call(p)
    PROVE  IInv'
<1>1. TypeOK /\ CallInv(p)
  BY DEF IInv
<1>2. pc[p] = "idle" => lock # p
  BY <1>1 DEF CallInv, WriterStages
<1>3. ASSUME NEW j \in Jobs, WellFormed(j)', pc[p] = "idle",
             NEW s \in {"lookup", "begin"}, Goto(p, s), s = "lookup" => j.kind = "submit",
             job' = [job EXCEPT ![p] = j], UNCHANGED <<db, lock, tx, result, issued, answers>>
      PROVE  IInv'
  <2>1. pc'[p] = s /\ job'[p] = j
    BY <1>1, <1>3 DEF TypeOK, Goto
  <2>2. CallInv(p)'
    BY <1>2, <1>3, <2>1 DEF CallInv, Carries, Accepted, Accepting, Undecided, Built, Drafted,
                            WriterStages, SubmitStages, AcceptedStages
  <2>3. s \in Stages
    BY DEF Stages
  <2>4. QED
    BY <1>3, <2>2, <2>3, MoveStep
<1>4. ASSUME NEW c \in issued, Deliver(p, c) PROVE IInv'
  <2> DEFINE j == [kind |-> "submit", cmd |-> c, expected |-> c.expected, facts |-> <<c.fact>>]
  <2>1. c \in Commands /\ c.expected \in Nat /\ c.fact \in Facts
    BY <1>1 DEF TypeOK, Commands
  <2>2. j \in Jobs
    BY <2>1 DEF Jobs
  <2>3. WellFormed(j)'
    BY <2>1, <2>2, <1>4 DEF WellFormed, Deliver
  <2>4. QED
    BY <1>3, <1>4, <2>2, <2>3 DEF Deliver
<1>5. ASSUME NEW facts \in Batches, StartAppend(p, facts) PROVE IInv'
  <2>1. facts \in Seq(Facts) /\ facts # <<>>
    BY ControlPlaneAssumption
  <2>2. Len(db.log) \in Nat
    BY <1>1 DEF TypeOK, Tables
  <2>3. PICK n \in Nat : n = Len(db.log)
    BY <2>2
  <2> DEFINE j == [kind |-> "append", cmd |-> NoCmd, expected |-> n, facts |-> facts]
  <2>4. j \in Jobs
    BY <2>1 DEF Jobs
  <2>5. WellFormed(j)'
    BY <2>1, <2>4 DEF WellFormed
  <2>6. job' = [job EXCEPT ![p] = j]
    BY <1>5, <2>3 DEF StartAppend
  <2>7. QED
    BY <1>3, <1>5, <2>4, <2>5, <2>6 DEF StartAppend
<1>6. ASSUME NEW i \in EffectIdents, NEW v \in Values, StartEffect(p, [ident |-> i, value |-> v])
      PROVE  IInv'
  <2> DEFINE f == [ident |-> i, value |-> v]
             j == [kind |-> "effect", cmd |-> NoCmd, expected |-> 0, facts |-> <<f>>]
  <2>1. f \in Facts
    BY ControlPlaneAssumption DEF Facts
  <2>2. j \in Jobs
    BY <2>1 DEF Jobs
  <2>3. WellFormed(j)'
    BY <2>1, <2>2 DEF WellFormed
  <2>4. QED
    BY <1>3, <1>6, <2>2, <2>3 DEF StartEffect
<1>7. QED
  BY <1>4, <1>5, <1>6 DEF Call

LEMMA LookupMissStep ==
    ASSUME NEW p \in Procs, IInv, LookupMiss(p)
    PROVE  IInv'
<1>1. TypeOK /\ CallInv(p) /\ pc[p] = "lookup"
  BY DEF IInv, LookupMiss
<1>2. pc'[p] = "authenticate" /\ job[p] \in Jobs \cup {NoJob} /\ job' = [job EXCEPT ![p] = job[p]]
  BY <1>1 DEF TypeOK, LookupMiss, Goto
<1>3. CallInv(p)'
  BY <1>1, <1>2 DEF LookupMiss, CallInv, Carries, Accepted, Accepting, Undecided, Built, Drafted,
                    WriterStages, SubmitStages, AcceptedStages, WellFormed
<1>4. QED
  BY <1>2, <1>3, MoveStep DEF LookupMiss, Stages

LEMMA AuthenticateStep ==
    ASSUME NEW p \in Procs, IInv, Authenticate(p)
    PROVE  IInv'
<1>1. TypeOK /\ CallInv(p) /\ pc[p] = "authenticate"
  BY DEF IInv, Authenticate
<1>2. lock # p
  BY <1>1 DEF CallInv, WriterStages
<1>3. CASE Leave(p)
  BY <1>2, <1>3, SilentLeave DEF Authenticate
<1>4. CASE Goto(p, "begin") /\ UNCHANGED <<job, result>>
  <2>1. pc'[p] = "begin" /\ job[p] \in Jobs \cup {NoJob} /\ job' = [job EXCEPT ![p] = job[p]]
    BY <1>1, <1>4 DEF TypeOK, Goto
  <2>2. CallInv(p)'
    BY <1>1, <1>4, <2>1 DEF Authenticate, CallInv, Carries, Accepted, Accepting, Undecided, Built,
                       Drafted, WriterStages, SubmitStages, AcceptedStages, WellFormed
  <2>3. QED
    BY <1>4, <2>1, <2>2, MoveStep DEF Authenticate, Stages
<1>5. QED
  BY <1>3, <1>4 DEF Authenticate

LEMMA BeginStep ==
    ASSUME NEW p \in Procs, IInv, Begin(p)
    PROVE  IInv'
<1>1. TypeOK /\ CallInv(p) /\ pc[p] = "begin"
  BY DEF IInv, Begin
<1> DEFINE s == IF job[p].kind = "submit" THEN "relookup" ELSE "load"
<1>2. pc'[p] = s /\ job[p] \in Jobs \cup {NoJob} /\ job' = [job EXCEPT ![p] = job[p]]
  BY <1>1 DEF TypeOK, Begin, Goto
<1>3. WellFormed(job[p]) /\ job'[p] = job[p]
  BY <1>1, <1>2 DEF CallInv, Carries, TypeOK
<1>4. Carries(p)' /\ Accepted(p)' /\ Built(p)' /\ Drafted(p)'
  BY <1>2, <1>3 DEF Begin, Carries, Accepted, Accepting, Built, Drafted,
                    SubmitStages, AcceptedStages, WellFormed
<1>5. Undecided(p)'
  BY <1>2, <1>3 DEF Begin, Undecided, Accepting, AcceptedStages
<1>6. CallInv(p)'
  BY <1>2, <1>4, <1>5 DEF Begin, CallInv, WriterStages
<1>7. s \in Stages
  BY DEF Stages
<1>8. QED
  BY <1>2, <1>6, <1>7, MoveStep DEF Begin

LEMMA RelookupMissStep ==
    ASSUME NEW p \in Procs, IInv, RelookupMiss(p)
    PROVE  IInv'
<1>1. TypeOK /\ CallInv(p) /\ pc[p] = "relookup"
  BY DEF IInv, RelookupMiss
<1>2. pc'[p] = "load" /\ job[p] \in Jobs \cup {NoJob} /\ job' = [job EXCEPT ![p] = job[p]]
  BY <1>1 DEF TypeOK, RelookupMiss, Goto
<1>3. WellFormed(job[p]) /\ lock = p /\ tx = db
  BY <1>1 DEF CallInv, Carries, Drafted, WriterStages
<1>4. ~Known(db, job[p].cmd)
  BY <1>3 DEF RelookupMiss
<1>5. CallInv(p)'
  BY <1>2, <1>3, <1>4 DEF RelookupMiss, CallInv, Carries, Accepted, Accepting, Undecided, Built,
                    Drafted, WriterStages, SubmitStages, AcceptedStages, WellFormed, Known
<1>6. QED
  BY <1>2, <1>5, MoveStep DEF RelookupMiss, Stages

LEMMA LoadReducesStep ==
    ASSUME NEW p \in Procs, IInv, LoadReduces(p)
    PROVE  IInv'
<1>1. TypeOK /\ CallInv(p) /\ pc[p] = "load"
  BY DEF IInv, LoadReduces
<1> DEFINE s == IF job[p].kind = "effect" THEN "effectRow" ELSE "commitRow"
<1>2. pc'[p] = s /\ job[p] \in Jobs \cup {NoJob} /\ job' = [job EXCEPT ![p] = job[p]]
  BY <1>1 DEF TypeOK, LoadReduces, Goto
<1>3. /\ WellFormed(job[p]) /\ lock = p /\ tx = db
      /\ job[p].kind = "submit" => ~Known(db, job[p].cmd)
  BY <1>1 DEF CallInv, Carries, Undecided, Drafted, WriterStages
<1>4. /\ Accepts(db.projection.state, job[p].facts)
      /\ job[p].kind # "effect" => job[p].expected = Len(db.log)
  BY <1>3 DEF LoadReduces, Stale
<1>5. Carries(p)' /\ Accepted(p)'
  BY <1>2, <1>3, <1>4 DEF LoadReduces, Carries, Accepted, SubmitStages, WellFormed
<1>6. Undecided(p)' /\ Built(p)'
  BY <1>2, <1>3 DEF LoadReduces, Undecided, Accepting, AcceptedStages, Built, Known
<1>7. Drafted(p)'
  BY <1>2, <1>3 DEF LoadReduces, Drafted, WithReceipt
<1>8. CallInv(p)'
  BY <1>2, <1>3, <1>5, <1>6, <1>7 DEF LoadReduces, CallInv, WriterStages
<1>9. s \in Stages
  BY DEF Stages
<1>10. QED
  BY <1>2, <1>8, <1>9, MoveStep DEF LoadReduces

LEMMA LoadStaleStep ==
    ASSUME NEW p \in Procs, IInv, LoadStale(p)
    PROVE  IInv'
<1>1. TypeOK /\ CallInv(p) /\ pc[p] = "load" /\ IssuedInv
  BY DEF IInv, LoadStale
<1>2. /\ WellFormed(job[p]) /\ lock = p /\ tx = db
      /\ job[p].kind = "submit" => ~Known(db, job[p].cmd)
  BY <1>1 DEF CallInv, Carries, Undecided, Drafted, WriterStages
<1>3. CASE job[p].kind = "append" /\ Rollback(p)
  BY <1>2, <1>3, SilentLeave DEF LoadStale
<1>4. CASE job[p].kind = "submit" /\ Goto(p, "staleRow") /\ UNCHANGED <<lock, tx, job, result>>
  <2>1. pc'[p] = "staleRow" /\ job[p] \in Jobs \cup {NoJob} /\ job' = [job EXCEPT ![p] = job[p]]
    BY <1>1, <1>4 DEF TypeOK, Goto
  <2>2. job[p].expected < Len(db.log)
    <3>1. job[p].expected <= Len(db.log) /\ job[p].expected \in Nat
      BY <1>1, <1>2, <1>4, JobFacts DEF WellFormed, IssuedInv
    <3>2. Len(db.log) \in Nat
      BY <1>1 DEF TypeOK, Tables
    <3>3. job[p].expected # Len(db.log)
      BY <1>2 DEF LoadStale, Stale
    <3>4. QED
      BY <3>1, <3>2, <3>3
  <2>3. Carries(p)' /\ Accepted(p)' /\ Built(p)' /\ Drafted(p)'
    BY <1>2, <1>4, <2>1 DEF LoadStale, Carries, Accepted, Accepting, Built, Drafted,
                       SubmitStages, AcceptedStages, WellFormed
  <2>4. Undecided(p)'
    BY <1>2, <1>4, <2>1, <2>2 DEF LoadStale, Undecided, Known
  <2>5. CallInv(p)'
    BY <1>2, <1>4, <2>1, <2>3, <2>4 DEF CallInv, WriterStages
  <2>6. QED
    BY <1>4, <2>1, <2>5, MoveStep DEF LoadStale, Stages
<1>5. QED
  BY <1>3, <1>4 DEF LoadStale

-----------------------------------------------------------------------------
(* The steps that write to the draft. *)

\* What the drafts of a call hold, against the committed tables.
ReceiptEffects(j) == IF j.kind = "effect"
                     THEN [db.effects EXCEPT ![j.facts[1].ident] = j.facts[1].value]
                     ELSE db.effects

NewCommitRow(j) == [first |-> Len(db.log) + 1, last |-> Len(db.log) + Len(j.facts)]

LogGrows(log, j) ==
    /\ log \in Seq(Events)
    /\ Len(log) = Len(db.log) + Len(j.facts)
    /\ \A n \in 1..Len(db.log) : log[n] = db.log[n]
    /\ \A n \in (Len(db.log) + 1)..(Len(db.log) + Len(j.facts)) :
           log[n] = [by |-> j.cmd, fact |-> j.facts[n - Len(db.log)]]

LEMMA DraftFields ==
    ASSUME db \in Tables, NEW j, WellFormed(j)
    PROVE  /\ WithReceipt(j) \in Tables
           /\ WithCommit(j) \in Tables /\ WithCommit(j).log = db.log
           /\ WithEvents(j) \in Tables /\ LogGrows(WithEvents(j).log, j)
           /\ WithEvents(j).commits = db.commits \cup {NewCommitRow(j)}
           /\ WithEvents(j).projection = db.projection /\ WithEvents(j).ledger = db.ledger
           /\ WithEvents(j).effects = ReceiptEffects(j)
<1>1. /\ WithReceipt(j) \in Tables
      /\ WithReceipt(j).log = db.log /\ WithReceipt(j).commits = db.commits
      /\ WithReceipt(j).projection = db.projection /\ WithReceipt(j).ledger = db.ledger
      /\ WithReceipt(j).effects = ReceiptEffects(j)
  <2>1. CASE j.kind = "effect"
    BY <2>1, EffectRowFields DEF WithReceipt, ReceiptEffects
  <2>2. CASE j.kind # "effect"
    BY <2>2 DEF WithReceipt, ReceiptEffects
  <2>3. QED
    BY <2>1, <2>2
<1> DEFINE r == WithReceipt(j)
<1> HIDE DEF r
<1>2. /\ r \in Tables
      /\ r.log = db.log /\ r.commits = db.commits
      /\ r.projection = db.projection /\ r.ledger = db.ledger /\ r.effects = ReceiptEffects(j)
  BY <1>1 DEF r
<1>3. WithCommit(j) = WithCommitRow(r, j)
  BY DEF WithCommit, r
<1>4. /\ WithCommit(j) \in Tables
      /\ WithCommit(j).log = db.log /\ WithCommit(j).commits = db.commits \cup {NewCommitRow(j)}
      /\ WithCommit(j).projection = db.projection /\ WithCommit(j).ledger = db.ledger
      /\ WithCommit(j).effects = ReceiptEffects(j)
  <2> DEFINE u == WithCommitRow(r, j)
             row == [first |-> Len(r.log) + 1, last |-> Len(r.log) + Len(j.facts)]
  <2>1. /\ u \in Tables /\ u.log = r.log /\ u.projection = r.projection
        /\ u.ledger = r.ledger /\ u.effects = r.effects
        /\ u.commits = r.commits \cup {row}
    BY <1>2, CommitRowFields
  <2>2. row = NewCommitRow(j)
    BY <1>2 DEF NewCommitRow
  <2> HIDE DEF u, row
  <2>3. WithCommit(j) = u
    BY <1>3 DEF u
  <2>4. QED
    BY <1>2, <2>1, <2>2, <2>3
<1> DEFINE c == WithCommit(j)
<1> HIDE DEF c
<1>5. /\ c \in Tables
      /\ c.log = db.log /\ c.commits = db.commits \cup {NewCommitRow(j)}
      /\ c.projection = db.projection /\ c.ledger = db.ledger /\ c.effects = ReceiptEffects(j)
  BY <1>4 DEF c
<1>6. WithEvents(j) = WithEventRows(c, j)
  BY DEF WithEvents, c
<1>7. /\ WithEvents(j) \in Tables /\ LogGrows(WithEvents(j).log, j)
      /\ WithEvents(j).commits = db.commits \cup {NewCommitRow(j)}
      /\ WithEvents(j).projection = db.projection /\ WithEvents(j).ledger = db.ledger
      /\ WithEvents(j).effects = ReceiptEffects(j)
  <2> DEFINE u == WithEventRows(c, j)
             base == c.log
  <2>1. /\ u \in Tables
        /\ u.commits = c.commits /\ u.projection = c.projection
        /\ u.ledger = c.ledger /\ u.effects = c.effects
        /\ u.log \in Seq(Events)
        /\ Len(u.log) = Len(base) + Len(j.facts)
        /\ \A n \in 1..Len(base) : u.log[n] = base[n]
        /\ \A n \in (Len(base) + 1)..(Len(base) + Len(j.facts)) :
               u.log[n] = [by |-> j.cmd, fact |-> j.facts[n - Len(base)]]
    BY <1>5, EventRowsFields
  <2>2. WithEvents(j) = u
    BY <1>6
  <2>3. base = db.log
    BY <1>5
  <2> HIDE DEF u, base
  <2>4. LogGrows(u.log, j)
    BY <2>1, <2>3 DEF LogGrows
  <2>5. QED
    BY <1>5, <2>1, <2>2, <2>4
<1>8. QED
  BY <1>1, <1>4, <1>7

\* The draft of a whole append: the history grown by the facts and everything derived from it.
LEMMA PublishedFields ==
    ASSUME db \in Tables, NEW j, WellFormed(j), Accepts(db.projection.state, j.facts)
    PROVE  /\ WithProjection(j) \in Tables
           /\ LogGrows(WithProjection(j).log, j)
           /\ WithProjection(j).commits = db.commits \cup {NewCommitRow(j)}
           /\ WithProjection(j).projection.seq = Len(WithProjection(j).log)
           /\ WithProjection(j).projection.state = Reduce(db.projection.state, j.facts)
           /\ WithProjection(j).ledger = db.ledger
           /\ WithProjection(j).effects = ReceiptEffects(j)
<1> DEFINE e == WithEvents(j)
<1>1. /\ e \in Tables /\ LogGrows(e.log, j)
      /\ e.commits = db.commits \cup {NewCommitRow(j)}
      /\ e.projection = db.projection /\ e.ledger = db.ledger /\ e.effects = ReceiptEffects(j)
  BY DraftFields
<1>2. WithProjection(j) = WithProjectionRow(e, j)
  BY DEF WithProjection
<1> HIDE DEF e
<1>3. QED
  BY <1>1, <1>2, ProjectionRowFields

\* One statement of the writer p.
LEMMA StatementStep ==
    ASSUME NEW p \in Procs, IInv, lock = p, UNCHANGED <<db, lock, job, issued, answers>>,
           NEW s \in Stages, Goto(p, s), tx' \in Tables,
           result' \in [Procs -> LedgerRows \cup {NoRow}],
           \A q \in Procs \ {p} : result'[q] = result[q],
           CallInv(p)'
    PROVE  IInv'
<1>1. TypeOK /\ AnswersHold /\ NoProc \notin Procs
  BY ControlPlaneAssumption DEF IInv
<1>2. TypeOK'
  BY <1>1 DEF TypeOK, Goto
<1>3. OnlyCall(p)
  BY <1>1 DEF OnlyCall, TypeOK, Goto
<1>4. AnswersHold' /\ lock' # NoProc
  BY <1>1 DEF AnswersHold
<1>5. QED
  BY <1>2, <1>3, <1>4, StepBeforeCommit

LEMMA RowSteps ==
    ASSUME NEW p \in Procs, IInv,
           InsertEffectRow(p) \/ InsertCommitRow(p) \/ InsertEventRows(p) \/ UpsertProjection(p)
    PROVE  IInv'
<1>1. TypeOK /\ CallInv(p) /\ db \in Tables
  BY DEF IInv, TypeOK
<1>2. pc[p] \in {"effectRow", "commitRow", "eventRows", "projectionRow"}
  BY DEF InsertEffectRow, InsertCommitRow, InsertEventRows, UpsertProjection, Statement
<1>3. /\ WellFormed(job[p]) /\ lock = p
      /\ Accepts(db.projection.state, job[p].facts)
      /\ job[p].kind # "effect" => job[p].expected = Len(db.log)
      /\ job[p].kind = "submit" => ~Known(db, job[p].cmd)
      /\ pc[p] = "effectRow" => job[p].kind = "effect"
  BY <1>1, <1>2 DEF CallInv, Carries, Accepted, Accepting, Undecided, WriterStages, AcceptedStages
<1>4. UNCHANGED <<db, lock, job, result, issued, answers>>
  BY DEF InsertEffectRow, InsertCommitRow, InsertEventRows, UpsertProjection, Statement
<1>5. WellFormed(job[p])'
  BY <1>3, <1>4 DEF WellFormed
<1>6. ASSUME NEW s \in {"commitRow", "eventRows", "projectionRow", "ledgerRow", "commit"},
             Goto(p, s), s = "ledgerRow" => job[p].kind = "submit",
             s = "commit" => job[p].kind # "submit", tx' \in Tables, Drafted(p)'
      PROVE  IInv'
  <2>1. pc'[p] = s
    BY <1>1, <1>6 DEF TypeOK, Goto
  <2>2. Carries(p)' /\ Accepted(p)' /\ Undecided(p)' /\ Built(p)'
    BY <1>3, <1>4, <1>5, <1>6, <2>1 DEF Carries, Accepted, Accepting, Undecided, Built, Known,
                                   SubmitStages, AcceptedStages
  <2>3. CallInv(p)'
    BY <1>3, <1>4, <1>6, <2>1, <2>2 DEF CallInv, WriterStages
  <2>4. s \in Stages
    BY DEF Stages
  <2>5. QED
    BY <1>1, <1>3, <1>4, <1>6, <2>3, <2>4, StatementStep DEF TypeOK
<1>7. CASE InsertEffectRow(p)
  <2>1. pc[p] = "effectRow" /\ tx = db /\ job[p].kind = "effect"
    BY <1>1, <1>3, <1>7 DEF CallInv, Drafted, InsertEffectRow, Statement
  <2>2. tx' = WithReceipt(job[p]) /\ Goto(p, "commitRow")
    BY <1>7, <2>1 DEF InsertEffectRow, Statement, WithReceipt
  <2>3. tx' \in Tables
    BY <1>1, <1>3, <2>2, DraftFields
  <2>4. pc'[p] = "commitRow"
    BY <1>1, <2>2 DEF TypeOK, Goto
  <2>5. Drafted(p)'
    BY <1>4, <2>2, <2>4 DEF Drafted, WithReceipt
  <2>6. QED
    BY <1>6, <2>2, <2>3, <2>5
<1>8. CASE InsertCommitRow(p)
  <2>1. pc[p] = "commitRow" /\ tx = WithReceipt(job[p])
    BY <1>1, <1>8 DEF CallInv, Drafted, InsertCommitRow, Statement
  <2>2. tx' = WithCommit(job[p]) /\ Goto(p, "eventRows")
    BY <1>8, <2>1 DEF InsertCommitRow, Statement, WithCommit
  <2>3. tx' \in Tables
    BY <1>1, <1>3, <2>2, DraftFields
  <2>4. pc'[p] = "eventRows"
    BY <1>1, <2>2 DEF TypeOK, Goto
  <2>5. Drafted(p)'
    BY <1>4, <2>2, <2>4 DEF Drafted, WithReceipt, WithCommit
  <2>6. QED
    BY <1>6, <2>2, <2>3, <2>5
<1>9. CASE InsertEventRows(p)
  <2>1. pc[p] = "eventRows" /\ tx = WithCommit(job[p])
    BY <1>1, <1>9 DEF CallInv, Drafted, InsertEventRows, Statement
  <2>2. tx' = WithEvents(job[p]) /\ Goto(p, "projectionRow")
    BY <1>9, <2>1 DEF InsertEventRows, Statement, WithEvents
  <2>3. tx' \in Tables
    BY <1>1, <1>3, <2>2, DraftFields
  <2>4. pc'[p] = "projectionRow"
    BY <1>1, <2>2 DEF TypeOK, Goto
  <2>5. Drafted(p)'
    BY <1>4, <2>2, <2>4 DEF Drafted, WithReceipt, WithCommit, WithEvents
  <2>6. QED
    BY <1>6, <2>2, <2>3, <2>5
<1>10. CASE UpsertProjection(p)
  <2> DEFINE s == IF job[p].kind = "submit" THEN "ledgerRow" ELSE "commit"
  <2>1. pc[p] = "projectionRow" /\ tx = WithEvents(job[p])
    BY <1>1, <1>10 DEF CallInv, Drafted, UpsertProjection, Statement
  <2>2. tx' = WithProjection(job[p]) /\ Goto(p, s)
    BY <1>10, <2>1 DEF UpsertProjection, Statement, WithProjection
  <2>3. tx' \in Tables
    BY <1>1, <1>3, <2>2, PublishedFields
  <2>4. pc'[p] = s
    BY <1>1, <2>2 DEF TypeOK, Goto
  <2>5. Drafted(p)'
    BY <1>4, <2>2, <2>4 DEF Drafted, WithReceipt, WithCommit, WithEvents, WithProjection
  <2>6. QED
    BY <1>6, <2>2, <2>3, <2>5
<1>11. QED
  BY <1>7, <1>8, <1>9, <1>10

\* The row of a result is a ledger row.
LEMMA ResultRow ==
    ASSUME NEW t \in Tables, NEW c \in Commands, NEW status \in {"APPLIED", "STALE_HEAD"}
    PROVE  /\ LedgerRow(t, c, status) \in LedgerRows
           /\ LedgerRow(t, c, status).cmd = c /\ LedgerRow(t, c, status).status = status
           /\ LedgerRow(t, c, status).seq = Len(t.log)
<1>1. Len(t.log) \in Nat
  BY DEF Tables
<1>2. QED
  BY <1>1 DEF LedgerRow, LedgerRows

\* A submission grows the history by its one fact.
LEMMA SubmittedLength ==
    ASSUME db \in Tables, NEW j, WellFormed(j), j.kind = "submit",
           Accepts(db.projection.state, j.facts)
    PROVE  Len(WithProjection(j).log) = Len(db.log) + 1
<1>1. j.facts = <<j.cmd.fact>>
  BY DEF WellFormed
<1>2. Len(j.facts) = 1
  BY <1>1
<1>3. LogGrows(WithProjection(j).log, j)
  BY PublishedFields
<1>4. QED
  BY <1>2, <1>3 DEF LogGrows

LEMMA InsertLedgerRowStep ==
    ASSUME NEW p \in Procs, IInv, InsertLedgerRow(p)
    PROVE  IInv'
<1> DEFINE j == job[p]
           row == LedgerRow(tx, j.cmd, "APPLIED")
<1>1. TypeOK /\ CallInv(p) /\ db \in Tables /\ tx \in Tables /\ pc[p] = "ledgerRow"
  BY DEF IInv, TypeOK, InsertLedgerRow, PutResult, Statement
<1>2. /\ WellFormed(j) /\ lock = p /\ j.kind = "submit"
      /\ Accepts(db.projection.state, j.facts) /\ j.expected = Len(db.log)
      /\ ~Known(db, j.cmd) /\ tx = WithProjection(j)
  BY <1>1 DEF CallInv, Carries, Accepted, Accepting, Undecided, Drafted,
              WriterStages, SubmitStages, AcceptedStages
<1>3. j.cmd \in Commands
  BY <1>2, JobFacts
<1>4. row \in LedgerRows /\ row.cmd = j.cmd /\ row.status = "APPLIED" /\ row.seq = Len(tx.log)
  BY <1>1, <1>3, ResultRow
<1>5. Len(tx.log) = Len(db.log) + 1
  BY <1>1, <1>2, SubmittedLength
<1>6. row = [cmd |-> j.cmd, status |-> "APPLIED", seq |-> Len(db.log) + 1]
  BY <1>5 DEF LedgerRow
<1>7. /\ UNCHANGED <<db, lock, job, issued, answers>> /\ Goto(p, "commit")
      /\ tx' = WithLedgerRow(tx, row) /\ result' = [result EXCEPT ![p] = row]
  BY DEF InsertLedgerRow, PutResult, Statement
<1> HIDE DEF row
<1>8. pc'[p] = "commit" /\ result'[p] = row
      /\ result' \in [Procs -> LedgerRows \cup {NoRow}]
      /\ \A q \in Procs \ {p} : result'[q] = result[q]
  BY <1>1, <1>4, <1>7 DEF TypeOK, Goto
<1>9. tx' \in Tables
  BY <1>1, <1>4, <1>7, LedgerRowFields
<1>10. Accepting(p)'
  BY <1>4, <1>8 DEF Accepting
<1>11. Carries(p)'
  BY <1>2, <1>7, <1>8 DEF Carries, SubmitStages, WellFormed
<1>12. Accepted(p)' /\ Undecided(p)'
  BY <1>2, <1>7, <1>8, <1>10 DEF Accepted, Undecided, Known
<1>13. Built(p)'
  BY <1>4, <1>6, <1>7, <1>8, <1>10 DEF Built
<1>14. WithProjection(j)' = WithProjection(j)
  BY <1>7 DEF WithProjection, WithEvents, WithCommit, WithReceipt
<1>15. Drafted(p)'
  BY <1>2, <1>7, <1>8, <1>10, <1>14 DEF Drafted
<1>16. CallInv(p)'
  BY <1>2, <1>7, <1>8, <1>11, <1>12, <1>13, <1>15 DEF CallInv, WriterStages
<1>17. QED
  BY <1>2, <1>7, <1>8, <1>9, <1>16, StatementStep DEF Stages

LEMMA InsertStaleRowStep ==
    ASSUME NEW p \in Procs, IInv, InsertStaleRow(p)
    PROVE  IInv'
<1> DEFINE j == job[p]
           row == LedgerRow(tx, j.cmd, "STALE_HEAD")
<1>1. TypeOK /\ CallInv(p) /\ db \in Tables /\ pc[p] = "staleRow"
  BY DEF IInv, TypeOK, InsertStaleRow, PutResult, Statement
<1>2. /\ WellFormed(j) /\ lock = p /\ j.kind = "submit"
      /\ j.expected < Len(db.log) /\ ~Known(db, j.cmd) /\ tx = db
  BY <1>1 DEF CallInv, Carries, Undecided, Drafted, WriterStages, SubmitStages
<1>3. j.cmd \in Commands
  BY <1>2, JobFacts
<1>4. row \in LedgerRows /\ row.cmd = j.cmd /\ row.status = "STALE_HEAD" /\ row.seq = Len(tx.log)
  BY <1>1, <1>2, <1>3, ResultRow
<1>5. row = [cmd |-> j.cmd, status |-> "STALE_HEAD", seq |-> Len(db.log)]
  BY <1>2 DEF LedgerRow
<1>6. /\ UNCHANGED <<db, lock, job, issued, answers>> /\ Goto(p, "commit")
      /\ tx' = WithLedgerRow(db, row) /\ result' = [result EXCEPT ![p] = row]
  BY <1>2 DEF InsertStaleRow, PutResult, Statement
<1> HIDE DEF row
<1>7. pc'[p] = "commit" /\ result'[p] = row
      /\ result' \in [Procs -> LedgerRows \cup {NoRow}]
      /\ \A q \in Procs \ {p} : result'[q] = result[q]
  BY <1>1, <1>4, <1>6 DEF TypeOK, Goto
<1>8. tx' \in Tables
  BY <1>1, <1>4, <1>6, LedgerRowFields
<1>9. ~Accepting(p)'
  BY <1>2, <1>4, <1>6, <1>7 DEF Accepting, AcceptedStages
<1>10. Carries(p)'
  BY <1>2, <1>6, <1>7 DEF Carries, SubmitStages, WellFormed
<1>11. Accepted(p)' /\ Undecided(p)'
  BY <1>2, <1>6, <1>7, <1>9 DEF Accepted, Undecided, Known
<1>12. Built(p)'
  BY <1>4, <1>5, <1>6, <1>7, <1>9 DEF Built
<1>13. Drafted(p)'
  BY <1>2, <1>6, <1>7, <1>9 DEF Drafted
<1>14. CallInv(p)'
  BY <1>2, <1>6, <1>7, <1>10, <1>11, <1>12, <1>13 DEF CallInv, WriterStages
<1>15. QED
  BY <1>2, <1>6, <1>7, <1>8, <1>14, StatementStep DEF Stages

-----------------------------------------------------------------------------
(* The commit: what publishing a draft does to the committed tables. *)

\* What CommitsCover says of a history of n events.
Cover(rows, n) ==
    /\ \A r \in rows : r.first \in 1..r.last /\ r.last <= n
    /\ \A m \in 1..n : \E r \in rows : m \in r.first..r.last
    /\ \A r, s \in rows : r # s => r.last < s.first \/ s.last < r.first

\* Commit rows that partition n events and one more for the k events after them partition n + k.
LEMMA CoverGrows ==
    ASSUME NEW n \in Nat, NEW k \in Nat, k > 0, NEW rows \in SUBSET CommitRows, Cover(rows, n)
    PROVE  Cover(rows \cup {[first |-> n + 1, last |-> n + k]}, n + k)
<1> DEFINE new == [first |-> n + 1, last |-> n + k]
<1>1. new.first = n + 1 /\ new.last = n + k
  OBVIOUS
<1> HIDE DEF new
<1>2. \A r \in rows : r.first \in Nat /\ r.last \in Nat
  BY DEF CommitRows
<1>3. \A r \in rows \cup {new} : r.first \in 1..r.last /\ r.last <= n + k
  <2> TAKE r \in rows \cup {new}
  <2>1. CASE r \in rows
    BY <1>2, <2>1 DEF Cover
  <2>2. CASE r = new
    BY <1>1, <2>2
  <2>3. QED
    BY <2>1, <2>2
<1>4. \A m \in 1..(n + k) : \E r \in rows \cup {new} : m \in r.first..r.last
  <2> TAKE m \in 1..(n + k)
  <2>1. CASE m \in 1..n
    BY <2>1 DEF Cover
  <2>2. CASE m \in (n + 1)..(n + k)
    BY <1>1, <2>2
  <2>3. QED
    BY <2>1, <2>2, AppendedPositions
<1>5. \A r \in rows : r.last < new.first
  BY <1>1, <1>2 DEF Cover
<1>6. \A r, s \in rows \cup {new} : r # s => r.last < s.first \/ s.last < r.first
  BY <1>5 DEF Cover
<1>7. Cover(rows \cup {new}, n + k)
  BY <1>3, <1>4, <1>6 DEF Cover
<1>8. QED
  BY <1>7 DEF new

\* A committed history grown by the facts of a call, with everything derived from it.
Published(j) ==
    /\ db' \in Tables
    /\ LogGrows(db'.log, j)
    /\ db'.commits = db.commits \cup {NewCommitRow(j)}
    /\ db'.projection.seq = Len(db'.log)
    /\ db'.projection.state = Reduce(db.projection.state, j.facts)
    /\ db'.effects = ReceiptEffects(j)

\* Every position of a grown history is an old one or one of the new rows.
LEMMA GrownPositions ==
    ASSUME db \in Tables, NEW j, WellFormed(j), NEW log, LogGrows(log, j)
    PROVE  /\ Len(db.log) \in Nat /\ DOMAIN db.log = 1..Len(db.log)
           /\ DOMAIN log = 1..(Len(db.log) + Len(j.facts))
           /\ \A n \in DOMAIN db.log : n \in DOMAIN log /\ log[n] = db.log[n]
           /\ \A n \in DOMAIN log \ DOMAIN db.log :
                  /\ n - Len(db.log) \in DOMAIN j.facts
                  /\ log[n] = [by |-> j.cmd, fact |-> j.facts[n - Len(db.log)]]
<1>1. db.log \in Seq(Events) /\ Len(db.log) \in Nat /\ DOMAIN db.log = 1..Len(db.log)
  BY DEF Tables
<1>2. /\ log \in Seq(Events) /\ Len(log) = Len(db.log) + Len(j.facts)
      /\ DOMAIN log = 1..(Len(db.log) + Len(j.facts))
  BY DEF LogGrows
<1>3. Len(j.facts) \in Nat /\ DOMAIN j.facts = 1..Len(j.facts)
  BY JobFacts
<1> DEFINE a == Len(db.log)
           b == Len(j.facts)
<1>4. \A n \in 1..a : log[n] = db.log[n]
  BY DEF LogGrows
<1>5. \A n \in (a + 1)..(a + b) : log[n] = [by |-> j.cmd, fact |-> j.facts[n - a]]
  BY DEF LogGrows
<1>6. /\ DOMAIN db.log = 1..a /\ DOMAIN log = 1..(a + b) /\ DOMAIN j.facts = 1..b
      /\ a = Len(db.log) /\ b = Len(j.facts) /\ a \in Nat /\ b \in Nat
  BY <1>1, <1>2, <1>3
<1> HIDE DEF a, b
<1>7. a \in Nat /\ b \in Nat
  BY <1>6
<1>8. /\ \A n \in 1..a : n \in 1..(a + b)
      /\ \A n \in 1..(a + b) : n \notin 1..a => n \in (a + 1)..(a + b) /\ n - a \in 1..b
  BY <1>7, AppendedPositions
<1>9. QED
  BY <1>4, <1>5, <1>6, <1>8

LEMMA PublishedLoadable ==
    ASSUME db \in Tables, CommittedLoadable, NEW j, WellFormed(j),
           Accepts(db.projection.state, j.facts), Published(j)
    PROVE  CommittedLoadable'
<1> DEFINE n == Len(db.log)
           k == Len(j.facts)
           new == NewCommitRow(j)
<1>1. n \in Nat /\ k \in Nat /\ k > 0
  BY JobFacts DEF Tables
<1>2. new = [first |-> n + 1, last |-> n + k]
  BY DEF NewCommitRow
<1>3. db.commits \in SUBSET CommitRows /\ DOMAIN db.log = 1..n
  BY DEF Tables
<1>4. Len(db'.log) = n + k /\ DOMAIN db'.log = 1..(n + k)
  BY GrownPositions DEF Published, LogGrows
<1>5. CommitsCover(db)
  BY DEF CommittedLoadable, Loadable
<1>6. Cover(db.commits, n)
  BY <1>3, <1>5 DEF CommitsCover, Cover
<1> HIDE DEF n, k, new
<1>7. CommitsCover(db')
  <2>1. Cover(db.commits \cup {new}, n + k)
    BY <1>1, <1>2, <1>3, <1>6, CoverGrows
  <2>2. db'.commits = db.commits \cup {new}
    BY DEF Published, new
  <2>3. QED
    BY <1>4, <2>1, <2>2 DEF CommitsCover, Cover
<1>8. ProjectionAgrees(db')
  <2> DEFINE old == db.projection.state
             state == db'.projection.state
  <2>1. ProjectionAgrees(db) /\ old \in Materials
    BY DEF CommittedLoadable, Loadable, Tables
  <2>2. /\ \A m \in DOMAIN j.facts : state[j.facts[m].ident] = j.facts[m].value
        /\ \A i \in Idents : old[i] # NoValue => state[i] = old[i]
        /\ \A i \in Idents : state[i] # NoValue =>
               old[i] # NoValue \/ \E m \in DOMAIN j.facts : j.facts[m].ident = i
    BY <2>1, JobFacts, ReduceResult DEF Published
  <2>3. \A m \in DOMAIN db.log : /\ db.log[m].fact.ident \in Idents
                                 /\ old[db.log[m].fact.ident] = db.log[m].fact.value
                                 /\ old[db.log[m].fact.ident] # NoValue
    <3>1. \A m \in DOMAIN db.log : db.log[m] \in Events
      BY DEF Tables
    <3>2. \A m \in DOMAIN db.log : db.log[m].fact.ident \in Idents /\ db.log[m].fact.value \in Values
      BY <3>1 DEF Events, Facts
    <3>3. QED
      BY <2>1, <3>2, ControlPlaneAssumption DEF ProjectionAgrees
  <2>4. /\ \A m \in DOMAIN db.log : m \in DOMAIN db'.log /\ db'.log[m] = db.log[m]
        /\ \A m \in DOMAIN db'.log \ DOMAIN db.log :
               /\ m - n \in DOMAIN j.facts
               /\ db'.log[m] = [by |-> j.cmd, fact |-> j.facts[m - n]]
    <3>1. PICK log : log = db'.log
      OBVIOUS
    <3>2. LogGrows(log, j) /\ n = Len(db.log)
      BY <3>1 DEF Published, n
    <3>3. /\ \A m \in DOMAIN db.log : m \in DOMAIN log /\ log[m] = db.log[m]
          /\ \A m \in DOMAIN log \ DOMAIN db.log :
                 /\ m - Len(db.log) \in DOMAIN j.facts
                 /\ log[m] = [by |-> j.cmd, fact |-> j.facts[m - Len(db.log)]]
      BY <3>2, GrownPositions
    <3>4. QED
      BY <3>1, <3>2, <3>3
  <2>5. \A m \in DOMAIN db'.log : state[db'.log[m].fact.ident] = db'.log[m].fact.value
    <3> TAKE m \in DOMAIN db'.log
    <3>1. CASE m \in DOMAIN db.log
      BY <2>2, <2>3, <2>4, <3>1
    <3>2. CASE m \notin DOMAIN db.log
      <4>1. m - n \in DOMAIN j.facts /\ db'.log[m] = [by |-> j.cmd, fact |-> j.facts[m - n]]
        BY <2>4, <3>2
      <4>2. QED
        BY <2>2, <4>1
    <3>3. QED
      BY <3>1, <3>2
  <2>6. \A i \in Idents : state[i] # NoValue => \E m \in DOMAIN db'.log : db'.log[m].fact.ident = i
    <3> TAKE i \in Idents
    <3> HAVE state[i] # NoValue
    <3>1. CASE old[i] # NoValue
      BY <2>1, <2>4, <3>1 DEF ProjectionAgrees
    <3>2. ASSUME NEW m \in DOMAIN j.facts, j.facts[m].ident = i
          PROVE  \E x \in DOMAIN db'.log : db'.log[x].fact.ident = i
      <4>1. DOMAIN j.facts = 1..k
        BY JobFacts DEF k
      <4>2. n + m \in 1..(n + k) /\ n + m \notin 1..n /\ (n + m) - n = m
        BY <1>1, <4>1
      <4>3. PICK x \in DOMAIN db'.log \ DOMAIN db.log : x - n = m
        BY <1>3, <1>4, <4>2
      <4>4. db'.log[x] = [by |-> j.cmd, fact |-> j.facts[x - n]]
        BY <2>4
      <4>5. QED
        BY <3>2, <4>3, <4>4
    <3>3. QED
      BY <2>2, <3>1, <3>2
  <2>7. QED
    BY <2>5, <2>6 DEF ProjectionAgrees, Published
<1>9. QED
  BY <1>7, <1>8 DEF CommittedLoadable, Loadable

\* The ledger after a commit: a submitted command is in it, whatever was there stays.
Entered(j, status, seq) ==
    db'.ledger = IF j.kind = "submit"
                 THEN [db.ledger EXCEPT ![j.cmd.id] = [cmd |-> j.cmd, status |-> status, seq |-> seq]]
                 ELSE db.ledger

\* The ledger only grows, at the id of the submitted command.
LEMMA LedgerGrows ==
    ASSUME db \in Tables, NEW j, WellFormed(j), j.kind = "submit" => ~Known(db, j.cmd),
           NEW status, NEW seq, Entered(j, status, seq)
    PROVE  /\ \A i \in CmdIds : db.ledger[i] # NoRow => db'.ledger[i] = db.ledger[i]
           /\ \A i \in CmdIds : \/ db'.ledger[i] = db.ledger[i]
                                \/ /\ j.kind = "submit" /\ i = j.cmd.id
                                   /\ db'.ledger[i] = [cmd |-> j.cmd, status |-> status, seq |-> seq]
           /\ j.kind = "submit" =>
                  db'.ledger[j.cmd.id] = [cmd |-> j.cmd, status |-> status, seq |-> seq]
<1>1. db.ledger \in [CmdIds -> LedgerRows \cup {NoRow}]
  BY DEF Tables
<1>2. CASE j.kind # "submit"
  BY <1>2 DEF Entered
<1>3. CASE j.kind = "submit"
  <2>1. j.cmd \in Commands /\ db.ledger[j.cmd.id] = NoRow
    BY <1>3, JobFacts DEF Known
  <2>2. j.cmd.id \in CmdIds
    BY <2>1 DEF Commands
  <2>3. QED
    BY <1>1, <1>3, <2>1, <2>2 DEF Entered
<1>4. QED
  BY <1>2, <1>3

\* Rows of the history as the invariants see them.
LEMMA HistoryRows ==
    ASSUME db \in Tables
    PROVE  /\ \A n \in DOMAIN db.log : n \in Nat /\ n <= Len(db.log)
           /\ \A n \in DOMAIN db.log : db.log[n].by # NoCmd => /\ db.log[n].by \in Commands
                                                              /\ db.log[n].by.id \in CmdIds
           /\ Len(db.log) \in Nat
           /\ \A i \in CmdIds : db.ledger[i] # NoRow => /\ db.ledger[i].cmd \in Commands
                                                        /\ db.ledger[i].cmd.expected \in Nat
<1>1. db.log \in Seq(Events) /\ db.ledger \in [CmdIds -> LedgerRows \cup {NoRow}]
  BY DEF Tables
<1>2. \A e \in Events : e.by \in Commands \cup {NoCmd}
  BY DEF Events
<1>3. \A c \in Commands : c.id \in CmdIds /\ c.expected \in Nat
  BY DEF Commands
<1>4. Len(db.log) \in Nat /\ DOMAIN db.log = 1..Len(db.log)
  BY <1>1
<1>5. \A n \in DOMAIN db.log : db.log[n] \in Events /\ n \in Nat /\ n <= Len(db.log)
  BY <1>1, <1>4
<1>6. \A i \in CmdIds : db.ledger[i] # NoRow => db.ledger[i].cmd \in Commands
  BY <1>1 DEF LedgerRows
<1>7. QED
  BY <1>2, <1>3, <1>4, <1>5, <1>6

\* The new rows of a grown history: those of a command are one, right after the old head.
LEMMA NewRows ==
    ASSUME db \in Tables, NEW j, WellFormed(j), Published(j)
    PROVE  /\ \A n \in DOMAIN db.log : n \in DOMAIN db'.log /\ db'.log[n] = db.log[n]
           /\ \A n \in DOMAIN db'.log \ DOMAIN db.log :
                  db'.log[n].by = j.cmd /\ (j.kind = "submit" => n = Len(db.log) + 1)
           /\ Len(db.log) + 1 \in DOMAIN db'.log /\ db'.log[Len(db.log) + 1].by = j.cmd
           /\ Len(db'.log) \in Nat /\ Len(db.log) < Len(db'.log)
<1>1. PICK log : log = db'.log
  OBVIOUS
<1>2. LogGrows(log, j)
  BY <1>1 DEF Published
<1>3. /\ DOMAIN db.log = 1..Len(db.log) /\ Len(db.log) \in Nat
      /\ DOMAIN log = 1..(Len(db.log) + Len(j.facts))
      /\ \A n \in DOMAIN db.log : n \in DOMAIN log /\ log[n] = db.log[n]
      /\ \A n \in DOMAIN log \ DOMAIN db.log :
             log[n] = [by |-> j.cmd, fact |-> j.facts[n - Len(db.log)]]
  <2>1. /\ DOMAIN db.log = 1..Len(db.log) /\ Len(db.log) \in Nat
        /\ DOMAIN log = 1..(Len(db.log) + Len(j.facts))
    BY <1>2, JobFacts DEF Tables, LogGrows
  <2>2. /\ \A n \in DOMAIN db.log : n \in DOMAIN log /\ log[n] = db.log[n]
        /\ \A n \in DOMAIN log \ DOMAIN db.log :
               /\ n - Len(db.log) \in DOMAIN j.facts
               /\ log[n] = [by |-> j.cmd, fact |-> j.facts[n - Len(db.log)]]
    BY <1>2, GrownPositions
  <2>3. QED
    BY <2>1, <2>2
<1>4. /\ Len(j.facts) \in Nat /\ Len(j.facts) > 0 /\ (j.kind = "submit" => Len(j.facts) = 1)
      /\ Len(log) = Len(db.log) + Len(j.facts)
  BY <1>2, JobFacts DEF WellFormed, LogGrows
<1> DEFINE a == Len(db.log)
           b == Len(j.facts)
<1>5. a \in Nat /\ b \in Nat /\ b > 0
  BY <1>3, <1>4
<1>6. /\ DOMAIN db.log = 1..a /\ DOMAIN log = 1..(a + b) /\ Len(log) = a + b
      /\ j.kind = "submit" => b = 1
      /\ \A n \in DOMAIN log \ DOMAIN db.log : log[n] = [by |-> j.cmd, fact |-> j.facts[n - a]]
      /\ \A n \in DOMAIN db.log : n \in DOMAIN log /\ log[n] = db.log[n]
  BY <1>3, <1>4
<1> SUFFICES /\ \A n \in DOMAIN log \ DOMAIN db.log :
                    log[n].by = j.cmd /\ (j.kind = "submit" => n = a + 1)
             /\ a + 1 \in DOMAIN log /\ log[a + 1].by = j.cmd
             /\ Len(log) \in Nat /\ a < Len(log)
  BY <1>1, <1>6
<1> HIDE DEF a, b
<1>7. a + 1 \in DOMAIN log \ DOMAIN db.log /\ Len(log) \in Nat /\ a < Len(log)
  BY <1>5, <1>6
<1>8. \A n \in DOMAIN log \ DOMAIN db.log : b = 1 => n = a + 1
  BY <1>5, <1>6
<1>9. \A n \in DOMAIN log \ DOMAIN db.log : log[n].by = j.cmd
  BY <1>6
<1>10. QED
  BY <1>6, <1>7, <1>8, <1>9

LEMMA PublishedStore ==
    ASSUME db \in Tables, StoreInv, NEW j, WellFormed(j),
           Accepts(db.projection.state, j.facts),
           j.kind = "submit" => j.expected = Len(db.log) /\ ~Known(db, j.cmd),
           Published(j), Entered(j, "APPLIED", Len(db.log) + 1)
    PROVE  StoreInv'
<1> DEFINE head == Len(db.log)
           row == [cmd |-> j.cmd, status |-> "APPLIED", seq |-> head + 1]
<1>1. CommittedLoadable'
  BY PublishedLoadable DEF StoreInv
<1>2. /\ \A n \in DOMAIN db.log : n \in DOMAIN db'.log /\ db'.log[n] = db.log[n]
      /\ \A n \in DOMAIN db'.log \ DOMAIN db.log :
             db'.log[n].by = j.cmd /\ (j.kind = "submit" => n = head + 1)
      /\ head + 1 \in DOMAIN db'.log /\ db'.log[head + 1].by = j.cmd
      /\ Len(db'.log) \in Nat /\ head < Len(db'.log)
  BY NewRows
<1>3. /\ \A i \in CmdIds : db.ledger[i] # NoRow => db'.ledger[i] = db.ledger[i]
      /\ \A i \in CmdIds : \/ db'.ledger[i] = db.ledger[i]
                           \/ j.kind = "submit" /\ i = j.cmd.id /\ db'.ledger[i] = row
      /\ j.kind = "submit" => db'.ledger[j.cmd.id] = row
  BY LedgerGrows
<1>4. /\ \A n \in DOMAIN db.log : n \in Nat /\ n <= head
      /\ \A n \in DOMAIN db.log : db.log[n].by # NoCmd => /\ db.log[n].by \in Commands
                                                         /\ db.log[n].by.id \in CmdIds
      /\ head \in Nat
      /\ \A i \in CmdIds : db.ledger[i] # NoRow => /\ db.ledger[i].cmd \in Commands
                                                   /\ db.ledger[i].cmd.expected \in Nat
  BY HistoryRows
<1>5. /\ j.kind = "submit" <=> j.cmd # NoCmd
      /\ j.kind = "submit" => j.cmd \in Commands /\ j.cmd.expected = head /\ j.cmd.id \in CmdIds
  BY JobFacts DEF WellFormed, Commands
<1> HIDE DEF head
<1>6. LedgerMatchesHistory'
  <2>1. LedgerMatchesHistory
    BY DEF StoreInv
  <2>2. \A n \in DOMAIN db'.log : db'.log[n].by # NoCmd =>
            db'.ledger[db'.log[n].by.id] = [cmd |-> db'.log[n].by, status |-> "APPLIED", seq |-> n]
    <3> SUFFICES ASSUME NEW n \in DOMAIN db'.log, db'.log[n].by # NoCmd
                 PROVE  db'.ledger[db'.log[n].by.id]
                            = [cmd |-> db'.log[n].by, status |-> "APPLIED", seq |-> n]
      OBVIOUS
    <3>1. CASE n \in DOMAIN db.log
      <4> DEFINE old == [cmd |-> db.log[n].by, status |-> "APPLIED", seq |-> n]
      <4>1. db.log[n].by \in Commands /\ db.log[n].by.id \in CmdIds /\ n \in Nat
        BY <1>2, <1>4, <3>1
      <4>2. old \in LedgerRows
        BY <4>1 DEF LedgerRows
      <4>3. db.ledger[db.log[n].by.id] = old
        BY <1>2, <2>1, <3>1 DEF LedgerMatchesHistory
      <4>4. old # NoRow
        BY <4>2, SentinelAssumption
      <4>5. QED
        BY <1>2, <1>3, <3>1, <4>1, <4>3, <4>4
    <3>2. CASE n \notin DOMAIN db.log
      <4>1. db'.log[n].by = j.cmd /\ j.kind = "submit" /\ n = head + 1
        BY <1>2, <1>5, <3>2
      <4>2. QED
        BY <1>3, <4>1
    <3>3. QED
      BY <3>1, <3>2
  <2>3. \A i \in CmdIds : (db'.ledger[i] # NoRow /\ db'.ledger[i].status = "APPLIED") =>
            /\ db'.ledger[i].seq \in DOMAIN db'.log
            /\ db'.log[db'.ledger[i].seq].by = db'.ledger[i].cmd
    <3> TAKE i \in CmdIds
    <3> HAVE db'.ledger[i] # NoRow /\ db'.ledger[i].status = "APPLIED"
    <3>1. CASE db'.ledger[i] = db.ledger[i]
      BY <1>2, <2>1, <3>1 DEF LedgerMatchesHistory
    <3>2. CASE j.kind = "submit" /\ db'.ledger[i] = row
      BY <1>2, <3>2
    <3>3. QED
      BY <1>3, <3>1, <3>2
  <2>4. QED
    BY <2>2, <2>3 DEF LedgerMatchesHistory
<1>7. AppliedAtNamedHead'
  <2>1. AppliedAtNamedHead
    BY DEF StoreInv
  <2>2. ASSUME NEW n \in DOMAIN db'.log, db'.log[n].by # NoCmd
        PROVE  db'.log[n].by.expected = n - 1
    <3>1. CASE n \in DOMAIN db.log
      BY <1>2, <2>1, <2>2, <3>1 DEF AppliedAtNamedHead
    <3>2. CASE n \notin DOMAIN db.log
      <4>1. db'.log[n].by.expected = head /\ n = head + 1
        BY <1>2, <1>5, <2>2, <3>2
      <4>2. QED
        BY <1>4, <4>1
    <3>3. QED
      BY <3>1, <3>2
  <2>3. QED
    BY <2>2 DEF AppliedAtNamedHead
<1>8. RefusedForGood'
  <2>1. RefusedForGood
    BY DEF StoreInv
  <2>2. ASSUME NEW i \in CmdIds, db'.ledger[i] # NoRow, db'.ledger[i].status = "STALE_HEAD"
        PROVE  /\ db'.ledger[i].cmd.expected < Len(db'.log)
               /\ \A n \in DOMAIN db'.log : db'.log[n].by # db'.ledger[i].cmd
    <3>1. db'.ledger[i] = db.ledger[i]
      BY <1>3, <2>2
    <3>2. /\ db.ledger[i].cmd.expected < head
          /\ \A n \in DOMAIN db.log : db.log[n].by # db.ledger[i].cmd
      BY <2>1, <2>2, <3>1 DEF RefusedForGood, head
    <3>3. db.ledger[i].cmd \in Commands /\ db.ledger[i].cmd.expected \in Nat
      BY <1>4, <2>2, <3>1
    <3>4. db.ledger[i].cmd.expected < Len(db'.log)
      BY <1>2, <1>4, <3>2, <3>3
    <3>5. j.cmd # db.ledger[i].cmd
      BY <1>4, <1>5, <3>2, <3>3, SentinelAssumption
    <3>6. QED
      BY <1>2, <3>1, <3>2, <3>4, <3>5
  <2>3. QED
    BY <2>2 DEF RefusedForGood
<1>9. EffectsFollowHistory'
  <2>1. EffectsFollowHistory
    BY DEF StoreInv
  <2> DEFINE old == db.projection.state
             state == db'.projection.state
  <2>2. /\ \A m \in DOMAIN j.facts : state[j.facts[m].ident] = j.facts[m].value
        /\ \A i \in Idents : old[i] # NoValue => state[i] = old[i]
    <3>1. old \in Materials
      BY DEF Tables
    <3>2. QED
      BY <3>1, JobFacts, ReduceResult DEF Published
  <2>3. db'.effects = ReceiptEffects(j) /\ db.effects \in [EffectIdents -> Values \cup {NoValue}]
    BY DEF Published, Tables
  <2>4. ASSUME NEW i \in EffectIdents, db'.effects[i] # NoValue
        PROVE  state[i] = db'.effects[i]
    <3>1. CASE j.kind = "effect" /\ i = j.facts[1].ident
      <4>1. 1 \in DOMAIN j.facts
        BY JobFacts
      <4>2. db'.effects[i] = j.facts[1].value
        BY <2>3, <3>1 DEF ReceiptEffects
      <4>3. QED
        BY <2>2, <3>1, <4>1, <4>2
    <3>2. CASE ~(j.kind = "effect" /\ i = j.facts[1].ident)
      <4>1. db'.effects[i] = db.effects[i]
        BY <2>3, <3>2 DEF ReceiptEffects
      <4>2. QED
        BY <2>1, <2>2, <2>4, <4>1, ControlPlaneAssumption DEF EffectsFollowHistory
    <3>3. QED
      BY <3>1, <3>2
  <2>5. QED
    BY <2>4 DEF EffectsFollowHistory
<1>10. QED
  BY <1>1, <1>6, <1>7, <1>8, <1>9 DEF StoreInv

\* A refusal leaves everything but the ledger alone.
LEMMA RefusedStore ==
    ASSUME db \in Tables, StoreInv, NEW j, WellFormed(j), j.kind = "submit",
           j.expected < Len(db.log), ~Known(db, j.cmd),
           db'.log = db.log, db'.commits = db.commits, db'.projection = db.projection,
           db'.effects = db.effects, Entered(j, "STALE_HEAD", Len(db.log))
    PROVE  StoreInv'
<1> DEFINE row == [cmd |-> j.cmd, status |-> "STALE_HEAD", seq |-> Len(db.log)]
<1>1. /\ \A i \in CmdIds : db.ledger[i] # NoRow => db'.ledger[i] = db.ledger[i]
      /\ \A i \in CmdIds : db'.ledger[i] = db.ledger[i] \/ (i = j.cmd.id /\ db'.ledger[i] = row)
  BY LedgerGrows
<1>2. /\ \A n \in DOMAIN db.log : n \in Nat /\ n <= Len(db.log)
      /\ \A n \in DOMAIN db.log : db.log[n].by # NoCmd => /\ db.log[n].by \in Commands
                                                         /\ db.log[n].by.id \in CmdIds
      /\ Len(db.log) \in Nat
  BY HistoryRows
<1>3. j.cmd \in Commands /\ j.cmd.id \in CmdIds /\ j.cmd.expected = j.expected
      /\ j.expected \in Nat /\ db.ledger[j.cmd.id] = NoRow
  BY JobFacts DEF WellFormed, Commands, Known
<1>4. (CommittedLoadable /\ AppliedAtNamedHead /\ EffectsFollowHistory)'
  BY DEF StoreInv, CommittedLoadable, Loadable, ProjectionAgrees, CommitsCover,
         AppliedAtNamedHead, EffectsFollowHistory
<1>5. LedgerMatchesHistory'
  <2>1. LedgerMatchesHistory
    BY DEF StoreInv
  <2>2. ASSUME NEW n \in DOMAIN db.log, db.log[n].by # NoCmd
        PROVE  db'.ledger[db.log[n].by.id] = [cmd |-> db.log[n].by, status |-> "APPLIED", seq |-> n]
    <3> DEFINE old == [cmd |-> db.log[n].by, status |-> "APPLIED", seq |-> n]
    <3>1. db.log[n].by \in Commands /\ db.log[n].by.id \in CmdIds /\ n \in Nat
      BY <1>2, <2>2
    <3>2. old # NoRow
      BY <3>1, SentinelAssumption DEF LedgerRows
    <3>3. db.ledger[db.log[n].by.id] = old
      BY <2>1, <2>2 DEF LedgerMatchesHistory
    <3>4. QED
      BY <1>1, <3>1, <3>2, <3>3
  <2>3. ASSUME NEW i \in CmdIds, db'.ledger[i] # NoRow, db'.ledger[i].status = "APPLIED"
        PROVE  db'.ledger[i].seq \in DOMAIN db.log
               /\ db.log[db'.ledger[i].seq].by = db'.ledger[i].cmd
    <3>1. db'.ledger[i] = db.ledger[i]
      BY <1>1, <2>3
    <3>2. QED
      BY <2>1, <2>3, <3>1 DEF LedgerMatchesHistory
  <2>4. QED
    BY <2>2, <2>3 DEF LedgerMatchesHistory
<1>6. \A n \in DOMAIN db.log : db.log[n].by # j.cmd
  <2> SUFFICES ASSUME NEW n \in DOMAIN db.log, db.log[n].by = j.cmd PROVE FALSE
    OBVIOUS
  <2> DEFINE old == [cmd |-> j.cmd, status |-> "APPLIED", seq |-> n]
  <2>1. j.cmd # NoCmd /\ n \in Nat
    BY <1>2, <1>3, SentinelAssumption
  <2>2. db.ledger[j.cmd.id] = old
    BY <2>1 DEF StoreInv, LedgerMatchesHistory
  <2>3. old \in LedgerRows
    BY <1>3, <2>1 DEF LedgerRows
  <2>4. QED
    BY <1>3, <2>2, <2>3, SentinelAssumption
<1>7. RefusedForGood'
  <2>1. ASSUME NEW i \in CmdIds, db'.ledger[i] # NoRow, db'.ledger[i].status = "STALE_HEAD"
        PROVE  /\ db'.ledger[i].cmd.expected < Len(db.log)
               /\ \A n \in DOMAIN db.log : db.log[n].by # db'.ledger[i].cmd
    <3>1. CASE db'.ledger[i] = db.ledger[i]
      BY <2>1, <3>1 DEF StoreInv, RefusedForGood
    <3>2. CASE db'.ledger[i] = row
      BY <1>3, <1>6, <3>2
    <3>3. QED
      BY <1>1, <3>1, <3>2
  <2>2. QED
    BY <2>1 DEF RefusedForGood
<1>8. QED
  BY <1>4, <1>5, <1>7 DEF StoreInv

\* A commit publishes the draft of a call whose reducer accepted, or one STALE_HEAD row.
LEMMA CommitCases ==
    ASSUME NEW p \in Procs, IInv, Commit(p)
    PROVE  /\ WellFormed(job[p]) /\ lock = p /\ pc[p] = "commit"
           /\ job[p].kind = "submit" =>
                  /\ ~Known(db, job[p].cmd)
                  /\ result[p] = [ cmd |-> job[p].cmd, status |-> result[p].status,
                                   seq |-> result[p].seq ]
           /\ Entered(job[p], result[p].status, result[p].seq)
           /\ \/ /\ Accepting(p)
                 /\ Accepts(db.projection.state, job[p].facts) /\ Published(job[p])
                 /\ db'.log = WithProjection(job[p]).log
                 /\ job[p].kind # "effect" => job[p].expected = Len(db.log)
                 /\ job[p].kind = "submit" =>
                        result[p].status = "APPLIED" /\ result[p].seq = Len(db.log) + 1
              \/ /\ job[p].kind = "submit" /\ job[p].expected < Len(db.log)
                 /\ result[p].status = "STALE_HEAD" /\ result[p].seq = Len(db.log)
                 /\ UNCHANGED <<db.log, db.commits, db.projection, db.effects>>
<1>1. TypeOK /\ CallInv(p) /\ db \in Tables /\ tx \in Tables /\ pc[p] = "commit" /\ db' = tx
  BY DEF IInv, TypeOK, Commit
<1>2. PICK j : j = job[p]
  OBVIOUS
<1>3. /\ WellFormed(j) /\ lock = p
      /\ Accepting(p) => /\ Accepts(db.projection.state, j.facts)
                         /\ j.kind # "effect" => j.expected = Len(db.log)
      /\ j.kind = "submit" => ~Known(db, j.cmd)
      /\ ~Accepting(p) => j.expected < Len(db.log)
  BY <1>1, <1>2 DEF CallInv, Carries, Accepted, Undecided, WriterStages
<1>4. j.kind = "submit" =>
          /\ result[p].status \in {"APPLIED", "STALE_HEAD"}
          /\ result[p] = [ cmd |-> j.cmd, status |-> result[p].status,
                           seq |-> IF Accepting(p) THEN Len(db.log) + 1 ELSE Len(db.log) ]
  BY <1>1, <1>2 DEF CallInv, Built
<1>5. Accepting(p) <=> (j.kind = "submit" => result[p].status = "APPLIED")
  BY <1>1, <1>2 DEF Accepting, AcceptedStages
<1>6. IF j.kind = "submit"
      THEN tx = WithLedgerRow(IF Accepting(p) THEN WithProjection(j) ELSE db, result[p])
      ELSE tx = WithProjection(j)
  BY <1>1, <1>2 DEF CallInv, Drafted
<1>7. j.kind = "submit" => /\ result[p] \in LedgerRows /\ result[p].cmd = j.cmd
                           /\ result[p].seq = IF Accepting(p) THEN Len(db.log) + 1 ELSE Len(db.log)
  <2> SUFFICES ASSUME j.kind = "submit"
               PROVE  /\ result[p] \in LedgerRows /\ result[p].cmd = j.cmd
                      /\ result[p].seq = IF Accepting(p) THEN Len(db.log) + 1 ELSE Len(db.log)
    OBVIOUS
  <2>1. j.cmd \in Commands /\ Len(db.log) \in Nat
    BY <1>1, <1>3, JobFacts DEF Tables
  <2>2. Len(db.log) + 1 \in Nat
    BY <2>1
  <2>3. QED
    BY <1>4, <2>1, <2>2 DEF LedgerRows
<1>8. CASE Accepting(p)
  <2> DEFINE w == WithProjection(j)
  <2>1. /\ w \in Tables
        /\ LogGrows(w.log, j)
        /\ w.commits = db.commits \cup {NewCommitRow(j)}
        /\ w.projection.seq = Len(w.log)
        /\ w.projection.state = Reduce(db.projection.state, j.facts)
        /\ w.ledger = db.ledger
        /\ w.effects = ReceiptEffects(j)
    BY <1>1, <1>3, <1>8, PublishedFields
  <2> HIDE DEF w
  <2>2. CASE j.kind = "submit"
    <3>1. /\ tx.log = w.log /\ tx.commits = w.commits /\ tx.projection = w.projection
          /\ tx.effects = w.effects /\ tx.ledger = [w.ledger EXCEPT ![result[p].cmd.id] = result[p]]
      BY <1>6, <1>7, <1>8, <2>1, <2>2, LedgerRowFields DEF w
    <3>2. Published(j)
      BY <1>1, <2>1, <3>1 DEF Published
    <3>3. Entered(j, result[p].status, result[p].seq)
      BY <1>1, <1>4, <1>7, <2>1, <2>2, <3>1 DEF Entered
    <3>4. QED
      BY <1>1, <1>2, <1>3, <1>4, <1>5, <1>7, <1>8, <2>2, <3>1, <3>2, <3>3 DEF w
  <2>3. CASE j.kind # "submit"
    <3>1. tx = w
      BY <1>6, <2>3 DEF w
    <3>2. Published(j) /\ Entered(j, result[p].status, result[p].seq)
      BY <1>1, <2>1, <2>3, <3>1 DEF Published, Entered
    <3>3. QED
      BY <1>1, <1>2, <1>3, <1>8, <2>3, <3>1, <3>2 DEF w
  <2>4. QED
    BY <2>2, <2>3
<1>9. CASE ~Accepting(p)
  <2>1. j.kind = "submit" /\ result[p].status = "STALE_HEAD"
    BY <1>4, <1>5, <1>9
  <2>2. /\ tx.log = db.log /\ tx.commits = db.commits /\ tx.projection = db.projection
        /\ tx.effects = db.effects /\ tx.ledger = [db.ledger EXCEPT ![result[p].cmd.id] = result[p]]
    BY <1>1, <1>6, <1>7, <1>9, <2>1, LedgerRowFields
  <2>3. Entered(j, result[p].status, result[p].seq)
    BY <1>1, <1>4, <1>7, <2>1, <2>2 DEF Entered
  <2>4. QED
    BY <1>1, <1>2, <1>3, <1>4, <1>7, <1>9, <2>1, <2>2, <2>3
<1>10. QED
  BY <1>8, <1>9

\* What every step does to the committed tables: history, commit rows and ledger only grow.
Grows ==
    /\ Len(db.log) <= Len(db'.log)
    /\ \A n \in DOMAIN db.log : n \in DOMAIN db'.log /\ db'.log[n] = db.log[n]
    /\ db.commits \subseteq db'.commits
    /\ \A i \in CmdIds : db.ledger[i] # NoRow => db'.ledger[i] = db.ledger[i]

LEMMA CommitEffect ==
    ASSUME NEW p \in Procs, IInv, Commit(p)
    PROVE  StoreInv' /\ Grows
<1>1. db \in Tables /\ StoreInv
  BY DEF IInv, TypeOK
<1>2. PICK j : j = job[p]
  OBVIOUS
<1>3. /\ WellFormed(j) /\ (j.kind = "submit" => ~Known(db, j.cmd))
      /\ Entered(j, result[p].status, result[p].seq)
  BY <1>2, CommitCases
<1>4. \A i \in CmdIds : db.ledger[i] # NoRow => db'.ledger[i] = db.ledger[i]
  BY <1>1, <1>3, LedgerGrows
<1>5. Len(db.log) \in Nat
  BY <1>1, HistoryRows
<1>6. CASE /\ Accepts(db.projection.state, j.facts) /\ Published(j)
           /\ j.kind # "effect" => j.expected = Len(db.log)
           /\ j.kind = "submit" => result[p].status = "APPLIED" /\ result[p].seq = Len(db.log) + 1
  <2>1. Entered(j, "APPLIED", Len(db.log) + 1)
    BY <1>3, <1>6 DEF Entered
  <2>2. StoreInv'
    BY <1>1, <1>3, <1>6, <2>1, PublishedStore
  <2>3. /\ \A n \in DOMAIN db.log : n \in DOMAIN db'.log /\ db'.log[n] = db.log[n]
        /\ Len(db'.log) \in Nat /\ Len(db.log) < Len(db'.log)
    BY <1>1, <1>3, <1>6, NewRows
  <2>4. db.commits \subseteq db'.commits
    BY <1>6 DEF Published
  <2>5. Len(db.log) <= Len(db'.log)
    BY <1>5, <2>3
  <2>6. QED
    BY <1>4, <2>2, <2>3, <2>4, <2>5 DEF Grows
<1>7. CASE /\ j.kind = "submit" /\ j.expected < Len(db.log)
           /\ result[p].status = "STALE_HEAD" /\ result[p].seq = Len(db.log)
           /\ UNCHANGED <<db.log, db.commits, db.projection, db.effects>>
  <2>1. Entered(j, "STALE_HEAD", Len(db.log))
    BY <1>3, <1>7
  <2>2. StoreInv'
    BY <1>1, <1>3, <1>7, <2>1, RefusedStore
  <2>3. Len(db.log) <= Len(db'.log)
    BY <1>5, <1>7
  <2>4. QED
    BY <1>4, <1>7, <2>2, <2>3 DEF Grows
<1>8. QED
  BY <1>2, <1>6, <1>7, CommitCases

\* Answers stay true and named heads stay in the past while the tables grow.
LEMMA GrowthKeeps ==
    ASSUME TypeOK, Grows, AnswersHold, IssuedInv, db' \in Tables, UNCHANGED <<issued, answers>>
    PROVE  (AnswersHold /\ IssuedInv)'
<1>1. \A a \in answers : a.cmd \in Commands /\ a.cmd.id \in CmdIds
  BY DEF TypeOK, Answers, Commands
<1>2. AnswersHold'
  BY <1>1 DEF AnswersHold, Grows
<1>3. \A c \in issued : c.expected \in Nat
  BY DEF TypeOK, Commands
<1>4. Len(db.log) \in Nat /\ Len(db'.log) \in Nat /\ Len(db.log) <= Len(db'.log)
  BY DEF TypeOK, Tables, Grows
<1>5. IssuedInv'
  <2> SUFFICES ASSUME NEW c \in issued PROVE c.expected <= Len(db'.log)
    BY DEF IssuedInv
  <2>1. c.expected \in Nat /\ c.expected <= Len(db.log)
    BY <1>3 DEF IssuedInv
  <2>2. QED
    BY <1>4, <2>1
<1>6. QED
  BY <1>2, <1>5

LEMMA CommitStep ==
    ASSUME NEW p \in Procs, IInv, Commit(p)
    PROVE  IInv'
<1>1. TypeOK /\ NoProc \notin Procs /\ CallInv(p)
  BY ControlPlaneAssumption DEF IInv
<1>2. StoreInv' /\ Grows
  BY CommitEffect
<1>3. lock = p /\ WellFormed(job[p]) /\ pc[p] = "commit"
  BY CommitCases
<1>4. /\ pc'[p] = "done" /\ lock' = NoProc /\ tx' = db'
      /\ \A q \in Procs \ {p} : pc'[q] = pc[q]
      /\ UNCHANGED <<job, result, issued, answers>>
  BY <1>1 DEF Commit, Goto, TypeOK
<1>5. TypeOK'
  BY <1>1 DEF Commit, Goto, TypeOK, Stages
<1>6. (AnswersHold /\ IssuedInv)'
  BY <1>1, <1>2, <1>4, <1>5, GrowthKeeps DEF IInv, TypeOK
<1>7. CallInv(p)'
  <2>1. Carries(p)' /\ Accepted(p)' /\ Undecided(p)' /\ Drafted(p)'
    BY <1>3, <1>4 DEF Carries, Accepted, Accepting, Undecided, Drafted, WellFormed,
                      WriterStages, SubmitStages, AcceptedStages
  <2>2. Built(p)'
    <3> SUFFICES ASSUME job[p].kind = "submit"
                 PROVE  /\ result[p].cmd = job[p].cmd /\ result[p] # NoRow
                        /\ db'.ledger[job[p].cmd.id] = result[p]
      BY <1>4 DEF Built
    <3>1. PICK j : j = job[p]
      OBVIOUS
    <3>2. /\ ~Known(db, j.cmd) /\ Entered(j, result[p].status, result[p].seq)
          /\ result[p] = [cmd |-> j.cmd, status |-> result[p].status, seq |-> result[p].seq]
      BY <3>1, CommitCases
    <3>3. db'.ledger[j.cmd.id] = result[p]
      <4>1. db \in Tables /\ WellFormed(j) /\ j.kind = "submit"
        BY <1>1, <1>3, <3>1 DEF TypeOK
      <4>2. db'.ledger[j.cmd.id] = [cmd |-> j.cmd, status |-> result[p].status, seq |-> result[p].seq]
        BY <3>2, <4>1, LedgerGrows
      <4>3. QED
        BY <3>2, <4>2
    <3>4. result[p].cmd = j.cmd
      BY <3>2
    <3>5. result[p] # NoRow
      <4>1. /\ result[p].status \in {"APPLIED", "STALE_HEAD"} /\ result[p].seq \in Nat
            /\ j.cmd \in Commands
        <5>1. Len(db.log) \in Nat
          BY <1>1 DEF TypeOK, Tables
        <5>2. Len(db.log) + 1 \in Nat
          BY <5>1
        <5>3. j.cmd \in Commands
          BY <1>3, <3>1, JobFacts
        <5>4. \/ result[p].status = "APPLIED" /\ result[p].seq = Len(db.log) + 1
              \/ result[p].status = "STALE_HEAD" /\ result[p].seq = Len(db.log)
          BY CommitCases
        <5>5. QED
          BY <5>1, <5>2, <5>3, <5>4
      <4>2. result[p] \in LedgerRows
        BY <3>2, <4>1 DEF LedgerRows
      <4>3. QED
        BY <4>2, SentinelAssumption
    <3>6. QED
      BY <3>1, <3>3, <3>4, <3>5
  <2>3. QED
    BY <1>1, <1>4, <2>1, <2>2 DEF CallInv, WriterStages
<1>8. ASSUME NEW q \in Procs, q # p PROVE CallInv(q)'
  <2>1. CallInv(q) /\ lock # q /\ lock' # q
    BY <1>1, <1>3, <1>4, <1>8 DEF IInv
  <2>2. QED
    BY <1>2, <1>4, <1>8, <2>1, CallUndisturbed DEF Grows
<1>9. QED
  BY <1>2, <1>4, <1>5, <1>6, <1>7, <1>8 DEF IInv

-----------------------------------------------------------------------------
(* The inductive invariant. *)

LEMMA IssueStep ==
    ASSUME NEW id \in CmdIds, NEW fact \in Facts, IInv, Issue(id, fact)
    PROVE  IInv'
<1>1. TypeOK /\ Len(db.log) \in Nat
  BY DEF IInv, TypeOK, Tables
<1>2. [id |-> id, expected |-> Len(db.log), fact |-> fact] \in Commands
  BY <1>1 DEF Commands
<1>3. TypeOK'
  BY <1>1, <1>2 DEF Issue, TypeOK
<1>4. \A q \in Procs : CallInv(q)'
  BY CallUndisturbed DEF IInv, Issue
<1>5. IssuedInv'
  BY <1>1 DEF IInv, Issue, IssuedInv
<1>6. (StoreInv /\ AnswersHold)'
  BY DEF IInv, Issue, StoreInv, AnswersHold, CommittedLoadable, LedgerMatchesHistory,
         AppliedAtNamedHead, RefusedForGood, EffectsFollowHistory
<1>7. QED
  BY <1>3, <1>4, <1>5, <1>6 DEF IInv, Issue

LEMMA InitIInv == Init => IInv
<1> SUFFICES ASSUME Init PROVE IInv
  OBVIOUS
<1>1. /\ db = Genesis /\ tx = Genesis /\ lock = NoProc /\ issued = {} /\ answers = {}
      /\ pc = [p \in Procs |-> "idle"] /\ job = [p \in Procs |-> NoJob]
      /\ result = [p \in Procs |-> NoRow]
  BY DEF Init
<1>2. /\ Genesis.log = <<>> /\ Genesis.commits = {}
      /\ Genesis.projection = [seq |-> 0, state |-> EmptyState]
      /\ Genesis.ledger = [i \in CmdIds |-> NoRow]
      /\ Genesis.effects = [i \in EffectIdents |-> NoValue]
  BY DEF Genesis
<1>3. EmptyState \in Materials /\ \A i \in Idents : EmptyState[i] = NoValue
  BY DEF EmptyState, Materials
<1>4. Genesis \in Tables
  BY <1>3 DEF Genesis, Tables
<1>5. TypeOK
  BY <1>1, <1>4 DEF TypeOK, Stages
<1>6. \A p \in Procs : CallInv(p)
  BY <1>1, ControlPlaneAssumption
     DEF CallInv, Carries, Accepted, Accepting, Undecided, Built, Drafted,
         WriterStages, SubmitStages, AcceptedStages
<1>7. CommittedLoadable
  BY <1>1, <1>2, <1>3 DEF CommittedLoadable, Loadable, ProjectionAgrees, CommitsCover
<1>8. LedgerMatchesHistory /\ AppliedAtNamedHead /\ RefusedForGood /\ EffectsFollowHistory
  BY <1>1, <1>2 DEF LedgerMatchesHistory, AppliedAtNamedHead, RefusedForGood, EffectsFollowHistory
<1>9. QED
  BY <1>1, <1>5, <1>6, <1>7, <1>8 DEF IInv, IssuedInv, StoreInv, AnswersHold

LEMMA StepIInv ==
    ASSUME NEW p \in Procs, IInv, Step(p)
    PROVE  IInv'
<1>1. CASE LookupMiss(p)
  BY <1>1, LookupMissStep
<1>2. CASE LookupReplay(p)
  BY <1>2, LookupReplayStep
<1>3. CASE RelookupReplay(p)
  BY <1>3, RelookupReplayStep
<1>4. CASE \/ LookupConflict(p) \/ Busy(p) \/ RelookupConflict(p) \/ LoadDenied(p) \/ LoadRaises(p)
  BY <1>4, SilentSteps
<1>5. CASE Authenticate(p)
  BY <1>5, AuthenticateStep
<1>6. CASE Begin(p)
  BY <1>6, BeginStep
<1>7. CASE RelookupMiss(p)
  BY <1>7, RelookupMissStep
<1>8. CASE LoadStale(p)
  BY <1>8, LoadStaleStep
<1>9. CASE LoadReduces(p)
  BY <1>9, LoadReducesStep
<1>10. CASE InsertEffectRow(p) \/ InsertCommitRow(p) \/ InsertEventRows(p) \/ UpsertProjection(p)
  BY <1>10, RowSteps
<1>11. CASE InsertLedgerRow(p)
  BY <1>11, InsertLedgerRowStep
<1>12. CASE InsertStaleRow(p)
  BY <1>12, InsertStaleRowStep
<1>13. CASE Commit(p)
  BY <1>13, CommitStep
<1>14. CASE Return(p)
  BY <1>14, ReturnStep
<1>15. QED
  BY <1>1, <1>2, <1>3, <1>4, <1>5, <1>6, <1>7, <1>8, <1>9, <1>10, <1>11, <1>12, <1>13, <1>14
     DEF Step

LEMMA StutterIInv == IInv /\ UNCHANGED vars => IInv'
<1> SUFFICES ASSUME IInv, UNCHANGED vars PROVE IInv'
  OBVIOUS
<1>1. UNCHANGED <<db, lock, tx, pc, job, result, issued, answers>>
  BY DEF vars
<1>2. \A q \in Procs : CallInv(q)'
  BY <1>1, CallUndisturbed DEF IInv
<1>3. TypeOK' /\ IssuedInv' /\ AnswersHold'
  BY <1>1 DEF IInv, TypeOK, IssuedInv, AnswersHold
<1>4. StoreInv'
  BY <1>1 DEF IInv, StoreInv, CommittedLoadable, LedgerMatchesHistory, AppliedAtNamedHead,
              RefusedForGood, EffectsFollowHistory
<1>5. QED
  BY <1>1, <1>2, <1>3, <1>4 DEF IInv

\* Whatever the processes do, however they are interleaved or die, the inductive invariant
\* holds: the draft of the writer is the committed tables plus exactly what it has executed.
THEOREM Inductive == Spec => []IInv
<1>1. IInv /\ [Next]_vars => IInv'
  <2> SUFFICES ASSUME IInv, [Next]_vars PROVE IInv'
    OBVIOUS
  <2>1. CASE UNCHANGED vars
    BY <2>1, StutterIInv
  <2>2. ASSUME NEW id \in CmdIds, NEW fact \in Facts, Issue(id, fact) PROVE IInv'
    BY <2>2, IssueStep
  <2>3. ASSUME NEW p \in Procs, Call(p) PROVE IInv'
    BY <2>3, CallSteps
  <2>4. ASSUME NEW p \in Procs, Step(p) PROVE IInv'
    BY <2>4, StepIInv
  <2>5. ASSUME NEW p \in Procs, Crash(p) PROVE IInv'
    BY <2>5, SilentSteps
  <2>6. QED
    BY <2>1, <2>2, <2>3, <2>4, <2>5 DEF Next
<1>2. QED
  BY <1>1, InitIInv, PTL DEF Spec

\* The variables keep their types.
THEOREM TypeCorrect == Spec => []TypeOK
<1>1. IInv => TypeOK
  BY DEF IInv
<1>2. QED
  BY <1>1, Inductive, PTL

-----------------------------------------------------------------------------
(* The safety properties. *)

\* Exactly once: the events of commands and the APPLIED rows of the ledger name each other
\* (SQLiteCommandLedger, against redelivery, crashes and reuse of an id).
THEOREM ExactlyOnce == Spec => []LedgerMatchesHistory
<1>1. IInv => LedgerMatchesHistory
  BY DEF IInv, StoreInv
<1>2. QED
  BY <1>1, Inductive, PTL

\* A refused command has no event and never will have one: the head it names is in the past.
THEOREM RefusedAlwaysForGood == Spec => []RefusedForGood
<1>1. IInv => RefusedForGood
  BY DEF IInv, StoreInv
<1>2. QED
  BY <1>1, Inductive, PTL

\* Each applied command directly follows the head its client had read.
THEOREM AppliedAlwaysAtNamedHead == Spec => []AppliedAtNamedHead
<1>1. IInv => AppliedAtNamedHead
  BY DEF IInv, StoreInv
<1>2. QED
  BY <1>1, Inductive, PTL

\* The committed tables pass every self-check of a load.
THEOREM StoreSound == Spec => []CommittedLoadable
<1>1. IInv => CommittedLoadable
  BY DEF IInv, StoreInv
<1>2. QED
  BY <1>1, Inductive, PTL

\* No two events of the history give one object different contents: the projection, which agrees
\* with both, has one.
THEOREM OneContentAlways == Spec => []OneContentPerIdentity
<1>1. CommittedLoadable => OneContentPerIdentity
  <2>1. ASSUME CommittedLoadable
        PROVE  \A n \in DOMAIN db.log : db.projection.state[db.log[n].fact.ident] = db.log[n].fact.value
    BY <2>1 DEF CommittedLoadable, Loadable, ProjectionAgrees
  <2>2. QED
    BY <2>1 DEF OneContentPerIdentity
<1>2. QED
  BY <1>1, StoreSound, PTL

\* The provider table never runs ahead of the canonical receipts.
THEOREM EffectsAlwaysFollow == Spec => []EffectsFollowHistory
<1>1. IInv => EffectsFollowHistory
  BY DEF IInv, StoreInv
<1>2. QED
  BY <1>1, Inductive, PTL

\* Every answer any caller ever got is what the ledger says of that command now.
THEOREM AnswersTrue == Spec => []AnswersHold
<1>1. IInv => AnswersHold
  BY DEF IInv
<1>2. QED
  BY <1>1, Inductive, PTL

\* Only a commit touches the committed tables.
LEMMA CommitsOnly ==
    ASSUME IInv, [Next]_vars
    PROVE  UNCHANGED db \/ \E p \in Procs : Commit(p)
<1>1. ASSUME NEW p \in Procs, Call(p) \/ Crash(p) PROVE UNCHANGED db
  BY <1>1 DEF Call, Deliver, StartAppend, StartEffect, Crash
<1>2. ASSUME NEW p \in Procs, Step(p), ~Commit(p) PROVE UNCHANGED db
  BY <1>2 DEF Step, LookupMiss, LookupReplay, LookupConflict, Authenticate, Begin, Busy,
              RelookupMiss, RelookupReplay, RelookupConflict, LoadStale, LoadDenied, LoadRaises,
              LoadReduces, InsertEffectRow, InsertCommitRow, InsertEventRows, UpsertProjection,
              InsertLedgerRow, InsertStaleRow, PutResult, Statement, Return
<1>3. QED
  BY <1>1, <1>2 DEF Next, Issue, vars

LEMMA StepsGrow ==
    ASSUME IInv, [Next]_vars
    PROVE  Grows
<1>1. CASE UNCHANGED db
  <2>1. Len(db.log) \in Nat
    BY HistoryRows DEF IInv, TypeOK
  <2>2. QED
    BY <1>1, <2>1 DEF Grows
<1>2. QED
  BY <1>1, CommitsOnly, CommitEffect

\* Committed history, commit rows and ledger rows are never changed or dropped.
THEOREM HistoryKept == Spec => CommittedForever
<1>1. IInv /\ [Next]_vars =>
          [/\ Len(db.log) <= Len(db'.log)
           /\ \A n \in DOMAIN db.log : db'.log[n] = db.log[n]
           /\ db.commits \subseteq db'.commits
           /\ \A i \in CmdIds : db.ledger[i] # NoRow => db'.ledger[i] = db.ledger[i]]_vars
  BY StepsGrow DEF Grows
<1>2. QED
  BY <1>1, Inductive, PTL DEF Spec, CommittedForever

-----------------------------------------------------------------------------
(* The control plane implements CommandLog. *)

\* The rows a call adds to the history, as one sequence.
NewEvents(j) == [k \in DOMAIN j.facts |-> [by |-> j.cmd, fact |-> j.facts[k]]]

LEMMA PublishedLog ==
    ASSUME db \in Tables, NEW j, WellFormed(j), Accepts(db.projection.state, j.facts)
    PROVE  WithProjection(j).log = db.log \o NewEvents(j)
<1> DEFINE c == WithCommit(j)
           e == WithEvents(j)
<1>1. c \in Tables /\ c.log = db.log /\ e \in Tables /\ e.projection = db.projection
  BY DraftFields
<1>2. e = [c EXCEPT !.log = @ \o NewEvents(j)]
  BY DEF WithEvents, WithEventRows, NewEvents
<1>3. WithProjection(j) = WithProjectionRow(e, j)
  BY DEF WithProjection
<1> HIDE DEF c, e
<1>4. e.log = db.log \o NewEvents(j)
  BY <1>1, <1>2 DEF Tables
<1>5. WithProjectionRow(e, j).log = e.log
  BY <1>1, ProjectionRowFields
<1>6. QED
  BY <1>3, <1>4, <1>5

\* The contents of one object in a loadable history are one fact.
LEMMA LoadableCoherent ==
    ASSUME db' \in Tables, CommittedLoadable'
    PROVE  Log!Coherent(db'.log)
<1>1. \A n \in DOMAIN db'.log : db'.log[n].fact \in Facts
  <2>1. db'.log \in Seq(Events)
    BY DEF Tables
  <2>2. \A n \in DOMAIN db'.log : db'.log[n] \in Events
    BY <2>1
  <2>3. QED
    BY <2>2 DEF Events
<1>2. \A n \in DOMAIN db'.log : db'.projection.state[db'.log[n].fact.ident] = db'.log[n].fact.value
  BY DEF CommittedLoadable, Loadable, ProjectionAgrees
<1>3. \A f, g \in Facts : f.ident = g.ident /\ f.value = g.value => f = g
  BY DEF Facts
<1>4. QED
  BY <1>1, <1>2, <1>3 DEF Log!Coherent

LEMMA CommitRefines ==
    ASSUME NEW p \in Procs, IInv, Commit(p), IInv'
    PROVE  Log!Next
<1>1. /\ db \in Tables /\ db' \in Tables /\ UNCHANGED <<issued, answers>>
      /\ CommittedLoadable'
  BY DEF IInv, TypeOK, Commit, StoreInv
<1>2. PICK j : j = job[p]
  OBVIOUS
<1>3. /\ WellFormed(j) /\ (j.kind = "submit" => ~Known(db, j.cmd))
      /\ Entered(j, result[p].status, result[p].seq)
  BY <1>2, CommitCases
<1>4. j.kind = "submit" => j.cmd \in issued /\ j.cmd \in Commands /\ j.cmd.expected = j.expected
                           /\ j.facts = <<j.cmd.fact>>
  BY <1>3, JobFacts DEF WellFormed
<1>5. Log!Coherent(db'.log)
  BY <1>1, LoadableCoherent
<1>6. CASE /\ Accepts(db.projection.state, j.facts)
           /\ db'.log = WithProjection(j).log
           /\ j.kind # "effect" => j.expected = Len(db.log)
           /\ j.kind = "submit" => result[p].status = "APPLIED" /\ result[p].seq = Len(db.log) + 1
  <2>1. db'.log = db.log \o NewEvents(j)
    BY <1>1, <1>3, <1>6, PublishedLog
  <2>2. CASE j.kind = "submit"
    <3> DEFINE row == [by |-> j.cmd, fact |-> j.cmd.fact]
    <3>1. NewEvents(j) = <<row>>
      BY <1>4, <2>2 DEF NewEvents
    <3>2. row \in Events /\ db.log \in Seq(Events)
      BY <1>1, <1>4, <2>2 DEF Events, Commands, Tables
    <3>3. db'.log = Append(db.log, row)
      BY <2>1, <3>1, <3>2
    <3>4. db'.ledger = [db.ledger EXCEPT ![j.cmd.id] =
              [cmd |-> j.cmd, status |-> "APPLIED", seq |-> Len(db.log) + 1]]
      BY <1>3, <1>6, <2>2 DEF Entered
    <3>5. Log!Apply(j.cmd)
      BY <1>1, <1>3, <1>4, <1>5, <1>6, <2>2, <3>3, <3>4 DEF Log!Apply, Log!Decide, Known
    <3>6. QED
      BY <1>4, <2>2, <3>5 DEF Log!Next
  <2>3. CASE j.kind # "submit"
    <3>1. j.cmd = NoCmd /\ db'.ledger = db.ledger
      BY <1>3, <2>3, JobFacts DEF Entered
    <3>2. db'.log = db.log \o [k \in DOMAIN j.facts |-> [by |-> NoCmd, fact |-> j.facts[k]]]
      BY <2>1, <3>1 DEF NewEvents
    <3>3. Log!Extend(j.facts)
      BY <1>1, <1>5, <3>1, <3>2 DEF Log!Extend
    <3>4. j.facts \in Batches \cup {<<f>> : f \in Facts}
      <4>1. CASE j.kind = "append"
        BY <1>3, <4>1 DEF WellFormed
      <4>2. CASE j.kind = "effect"
        <5>1. j.facts \in Seq(Facts) /\ Len(j.facts) = 1
          BY <1>3, <4>2, JobFacts DEF WellFormed
        <5>2. j.facts[1] \in Facts /\ j.facts = <<j.facts[1]>>
          BY <5>1
        <5>3. QED
          BY <5>2
      <4>3. QED
        BY <1>3, <2>3, <4>1, <4>2, JobFacts
    <3>5. QED
      BY <3>3, <3>4 DEF Log!Next
  <2>4. QED
    BY <2>2, <2>3
<1>7. CASE /\ j.kind = "submit" /\ j.expected < Len(db.log)
           /\ result[p].status = "STALE_HEAD" /\ result[p].seq = Len(db.log)
           /\ UNCHANGED db.log
  <2>1. db'.ledger = [db.ledger EXCEPT ![j.cmd.id] =
            [cmd |-> j.cmd, status |-> "STALE_HEAD", seq |-> Len(db.log)]]
    BY <1>3, <1>7 DEF Entered
  <2>2. Log!Refuse(j.cmd)
    BY <1>1, <1>3, <1>4, <1>7, <2>1 DEF Log!Refuse, Log!Decide, Known
  <2>3. QED
    BY <1>4, <1>7, <2>2 DEF Log!Next
<1>8. QED
  BY <1>2, <1>6, <1>7, CommitCases

LEMMA AnswerRefines ==
    ASSUME NEW p \in Procs, IInv, LookupReplay(p) \/ RelookupReplay(p) \/ Return(p)
    PROVE  Log!Next \/ UNCHANGED Log!vars
<1>1. CallInv(p) /\ TypeOK /\ UNCHANGED <<db, issued>>
  BY DEF IInv, LookupReplay, RelookupReplay, Return, Rollback
<1>2. pc[p] \in {"lookup", "relookup", "done"} /\ (pc[p] = "relookup" => tx = db)
  BY <1>1 DEF LookupReplay, RelookupReplay, Return, CallInv, Drafted
<1>3. PICK c : c = job[p].cmd
  OBVIOUS
<1>4. /\ pc[p] \in {"lookup", "relookup"} => job[p].kind = "submit"
      /\ job[p].kind = "submit" => c \in issued
  BY <1>1, <1>2, <1>3 DEF CallInv, Carries, SubmitStages, WellFormed
<1>5. ASSUME NEW told \in {"APPLIED", "STALE_HEAD", "IDEMPOTENT_REPLAY"}, c \in issued,
             db.ledger[c.id] # NoRow, db.ledger[c.id].cmd = c,
             told \in {db.ledger[c.id].status, "IDEMPOTENT_REPLAY"},
             answers' = answers \cup {[cmd |-> c, told |-> told, seq |-> db.ledger[c.id].seq]}
      PROVE  Log!Next
  BY <1>1, <1>5 DEF Log!Next, Log!Answer
<1>6. CASE LookupReplay(p)
  BY <1>3, <1>4, <1>5, <1>6 DEF LookupReplay, Known, Conflict, Tell
<1>7. CASE RelookupReplay(p)
  BY <1>2, <1>3, <1>4, <1>5, <1>7 DEF RelookupReplay, Known, Conflict, Tell
<1>8. CASE Return(p) /\ job[p].kind = "submit"
  <2>1. result[p].cmd = c /\ db.ledger[c.id] = result[p] /\ result[p] # NoRow
    BY <1>1, <1>3, <1>8 DEF Return, CallInv, Built
  <2>2. result[p].status \in {"APPLIED", "STALE_HEAD"}
    BY <1>1, <2>1 DEF TypeOK, LedgerRows
  <2>3. answers' = answers \cup {[cmd |-> c, told |-> result[p].status, seq |-> result[p].seq]}
    BY <1>3, <1>8 DEF Return, Tell
  <2>4. QED
    BY <1>4, <1>5, <1>8, <2>1, <2>2, <2>3
<1>9. CASE Return(p) /\ job[p].kind # "submit"
  BY <1>1, <1>9 DEF Return, Log!vars
<1>10. QED
  BY <1>6, <1>7, <1>8, <1>9

\* Through its committed tables, every behaviour of the control plane is one of CommandLog:
\* each call is one step that happened or did not, whatever interleaves with or kills it.
THEOREM Refinement == Spec => ImplementsCommandLog
<1>1. Init => Log!Init
  BY DEF Init, Genesis, Log!Init
<1>2. IInv /\ IInv' /\ [Next]_vars => [Log!Next]_(Log!vars)
  <2> SUFFICES ASSUME IInv, IInv', [Next]_vars PROVE Log!Next \/ UNCHANGED Log!vars
    OBVIOUS
  <2>1. CASE UNCHANGED vars
    BY <2>1 DEF vars, Log!vars
  <2>2. ASSUME NEW id \in CmdIds, NEW fact \in Facts, Issue(id, fact) PROVE Log!Next
    <3>1. Log!Issue([id |-> id, expected |-> Len(db.log), fact |-> fact])
      BY <2>2 DEF Issue, Log!Issue
    <3>2. QED
      BY <3>1 DEF Log!Next
  <2>3. ASSUME NEW p \in Procs, Call(p) \/ Crash(p) PROVE UNCHANGED Log!vars
    BY <2>3 DEF Call, Deliver, StartAppend, StartEffect, Crash, Log!vars
  <2>4. ASSUME NEW p \in Procs, Step(p) PROVE Log!Next \/ UNCHANGED Log!vars
    <3>1. CASE Commit(p)
      BY <3>1, CommitRefines
    <3>2. CASE LookupReplay(p) \/ RelookupReplay(p) \/ Return(p)
      BY <3>2, AnswerRefines
    <3>3. CASE ~Commit(p) /\ ~LookupReplay(p) /\ ~RelookupReplay(p) /\ ~Return(p)
      BY <2>4, <3>3
         DEF Step, LookupMiss, LookupConflict, Authenticate, Begin, Busy,
             RelookupMiss, RelookupConflict, LoadStale, LoadDenied, LoadRaises,
             LoadReduces, InsertEffectRow, InsertCommitRow, InsertEventRows, UpsertProjection,
             InsertLedgerRow, InsertStaleRow, PutResult, Statement, Log!vars
    <3>4. QED
      BY <3>1, <3>2, <3>3
  <2>5. QED
    BY <2>1, <2>2, <2>3, <2>4 DEF Next
<1>3. QED
  BY <1>1, <1>2, Inductive, PTL DEF Spec, ImplementsCommandLog, Log!Spec
=============================================================================
