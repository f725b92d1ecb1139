---------------------------- MODULE RecordsProofs ----------------------------
(***************************************************************************)
(* Theorems about the two record-keeping parts of a runtime database.      *)
(* KeyDirectory, for any keys, roots, workers, windows and length of time: *)
(* distrust is for good and does not rewrite the past.  Recovery, for any  *)
(* nodes, effects, budgets, authorities and length of the history: the     *)
(* runtime tables say what the history says.                               *)
(***************************************************************************)
EXTENDS KeyDirectory, Recovery, FiniteSetTheorems, TLAPS

-----------------------------------------------------------------------------
(* The inductive invariant.                                                *)

\* Rows have their type, none is revoked as of an instant to come, and a key that was once rotated
\* out or revoked still has its row, which is not ACTIVE.
IInv ==
    /\ now \in Instants
    /\ keys \in [Keys -> KeyRow \cup {NoKey}]
    /\ \A k \in Keys : keys[k] # NoKey => keys[k].revoked = None \/ keys[k].revoked <= now
    /\ gone \subseteq Keys
    /\ \A k \in gone : keys[k] # NoKey /\ keys[k].status # "ACTIVE"

\* What was good at a past instant stays good for it.
PastStands ==
    \A b \in Block, t \in Instants : t < now /\ verify_historical(b, t) => verify_historical(b, t)'

\* A step that touches no key, and relies on none that is gone.
Harmless == keys' = keys /\ now' \in Instants /\ now <= now' /\ gone' = gone /\ relied' \cap gone = {}

\* A key the directory vouches for now is not gone.
LEMMA CurrentNotGone ==
    ASSUME IInv, NEW b, NEW t, verify_current(b, t) PROVE b.key \notin gone
BY DEF IInv, verify_current

\* The beginning.
LEMMA InitInv == KeysInit => IInv
BY IdentityAssumption DEF KeysInit, IInv, Instants

\* Harmless steps keep the invariant and the past.
LEMMA HarmlessKeeps == IInv /\ Harmless => IInv' /\ PastStands /\ relied' \cap gone = {}
<1> SUFFICES ASSUME IInv, Harmless PROVE IInv' /\ PastStands
    BY DEF Harmless
<1>1. IInv'
    BY IdentityAssumption DEF IInv, Harmless, KeyRow, Instants
<1>2. PastStands
    BY DEF Harmless, PastStands, verify_historical, Known
<1>. QED
    BY <1>1, <1>2

\* A key enters where there was none.
LEMMA EntryKeeps ==
    ASSUME IInv, NEW k \in Keys, NEW r \in Roots, NEW mat \in Materials, NEW w \in Windows, keys[k] = NoKey,
           keys' = [keys EXCEPT ![k] = NewRow(r, mat, w)], UNCHANGED <<now, gone>>, relied' = {}
    PROVE  IInv' /\ PastStands
<1>1. NewRow(r, mat, w) \in KeyRow /\ NewRow(r, mat, w).revoked = None
    BY DEF NewRow, KeyRow
<1>2. IInv'
    BY <1>1, IdentityAssumption DEF IInv
<1>3. \A j \in Keys : keys[j] # NoKey => keys'[j] = keys[j]
    BY DEF IInv
<1>4. PastStands
    BY <1>3 DEF PastStands, verify_historical, Known, Block
<1>. QED
    BY <1>2, <1>4

\* A key is rotated out.
LEMMA RotationKeeps == ASSUME IInv, NEW k \in Keys, rotate_out(k) PROVE IInv' /\ PastStands
<1>1. /\ keys[k] \in KeyRow /\ keys' = [keys EXCEPT ![k] = [keys[k] EXCEPT !.status = "ROTATED_OUT"]]
      /\ now' = now /\ gone' = gone \cup {k}
    BY DEF rotate_out, IInv
<1>2. /\ keys'[k] \in KeyRow /\ keys'[k].status = "ROTATED_OUT" /\ keys'[k].root = keys[k].root
      /\ keys'[k].material = keys[k].material /\ keys'[k].window = keys[k].window
      /\ keys'[k].revoked = keys[k].revoked /\ \A j \in Keys \ {k} : keys'[j] = keys[j]
    BY <1>1 DEF KeyRow, IInv
<1>3. keys' \in [Keys -> KeyRow \cup {NoKey}] /\ keys[k] # NoKey /\ keys'[k] # NoKey
    BY <1>1, <1>2, IdentityAssumption DEF IInv
<1>4. IInv'
    BY <1>1, <1>2, <1>3 DEF IInv
<1>5. PastStands
    BY <1>1, <1>2, <1>3 DEF PastStands, verify_historical, Known, RevokedAt, Block
<1>. QED
    BY <1>4, <1>5

\* A key is revoked as of now, perhaps not for the first time.
LEMMA RevocationKeeps == ASSUME IInv, NEW k \in Keys, revoke(k) PROVE IInv' /\ PastStands
<1>1. /\ keys[k] \in KeyRow
      /\ keys' = [keys EXCEPT ![k].status = "REVOKED", ![k].revoked = now]
      /\ now' = now /\ gone' = gone \cup {k} /\ now \in Nat
    BY IdentityAssumption DEF revoke, IInv, Instants
<1>2. /\ keys'[k] \in KeyRow /\ keys'[k].status = "REVOKED" /\ keys'[k].root = keys[k].root
      /\ keys'[k].material = keys[k].material /\ keys'[k].window = keys[k].window
      /\ keys'[k].revoked = now /\ \A j \in Keys \ {k} : keys'[j] = keys[j]
    BY <1>1 DEF KeyRow, IInv, Instants
<1>3. keys' \in [Keys -> KeyRow \cup {NoKey}] /\ keys[k] # NoKey /\ keys'[k] # NoKey
    <2>. DEFINE mid == [keys EXCEPT ![k].status = "REVOKED"]
    <2>1. keys' = [mid EXCEPT ![k].revoked = now]
        BY <1>1
    <2>2. mid \in [Keys -> KeyRow \cup {NoKey}]
        BY <1>1 DEF IInv, KeyRow
    <2>3. keys' = [mid EXCEPT ![k] = keys'[k]]
        BY <2>1, <2>2
    <2>. HIDE DEF mid
    <2>4. keys' \in [Keys -> KeyRow \cup {NoKey}]
        BY <1>2, <2>2, <2>3
    <2>. QED
        BY <1>1, <1>2, <2>4, IdentityAssumption
<1>4. IInv'
    <2>1. (\A j \in Keys : keys[j] # NoKey => keys[j].revoked = None \/ keys[j].revoked <= now)'
        BY <1>1, <1>2 DEF IInv
    <2>2. (gone \subseteq Keys /\ \A j \in gone : keys[j] # NoKey /\ keys[j].status # "ACTIVE")'
        BY <1>1, <1>2, <1>3 DEF IInv
    <2>. QED
        BY <1>1, <1>3, <2>1, <2>2 DEF IInv
<1>5. \A t \in Instants : t < now => ~RevokedAt(keys'[k], t)
    BY <1>1, <1>2 DEF RevokedAt, Instants
<1>6. PastStands
    BY <1>1, <1>2, <1>3, <1>5 DEF PastStands, verify_historical, Known, Block, RevokedAt
<1>. QED
    BY <1>4, <1>6

-----------------------------------------------------------------------------
\* Every step keeps the invariant, relies on no key that is gone and leaves the past alone.
LEMMA NextKeeps ==
    ASSUME IInv, KeysNext PROVE IInv' /\ PastStands /\ relied' \cap gone = {}
<1>. USE IdentityAssumption
<1>1. ASSUME NEW r \in Roots, add_root(r) PROVE Harmless
    BY <1>1 DEF add_root, Harmless, IInv, Instants
<1>2. ASSUME NEW k \in Keys, NEW r \in Roots, NEW mat \in Materials, NEW w \in Windows,
             register(k, r, mat, w) \/ bootstrap_key(k, r, mat, w)
      PROVE  IInv' /\ PastStands /\ relied' \cap gone = {}
    <2>1. CASE keys[k] = NoKey
        BY <1>2, <2>1, EntryKeeps DEF register, bootstrap_key
    <2>2. CASE keys[k] # NoKey
        BY <1>2, <2>2, HarmlessKeeps DEF register, bootstrap_key, Harmless, IInv, Instants
    <2>. QED
        BY <2>1, <2>2
<1>3. ASSUME NEW k \in Keys, rotate_out(k) PROVE IInv' /\ PastStands /\ relied' \cap gone = {}
    BY <1>3, RotationKeeps DEF rotate_out
<1>4. ASSUME NEW k \in Keys, revoke(k) PROVE IInv' /\ PastStands /\ relied' \cap gone = {}
    BY <1>4, RevocationKeeps DEF revoke
<1>5. ASSUME NEW k \in Keys, sign(k) PROVE Harmless
    BY <1>5 DEF sign, RelyOn, Harmless, IInv, Instants
<1>6. ASSUME NEW b, NEW c, Ingest({b, c}) PROVE Harmless
    BY <1>6, CurrentNotGone DEF Ingest, RelyOn, Harmless, IInv, Instants
<1>7. ASSUME NEW d, verify_authorization_lease(d) PROVE Harmless
    BY <1>7, CurrentNotGone DEF verify_authorization_lease, RelyOn, Harmless, IInv, Instants
<1>8. ASSUME attest PROVE Harmless
    BY <1>8, CurrentNotGone DEF attest, RelyOn, Harmless, IInv, Instants
<1>9. ASSUME NEW w, _verify_worker_attestation(w) PROVE Harmless
    BY <1>9, CurrentNotGone DEF _verify_worker_attestation, RelyOn, Harmless, IInv, Instants
<1>10. ASSUME NEW w, NEW d, register_worker(w) \/ revoke_worker(w) \/ register_attestation(w, d) PROVE Harmless
    BY <1>10 DEF register_worker, revoke_worker, register_attestation, SetWorker, Harmless, IInv, Instants
<1>11. ASSUME Restart PROVE Harmless
    BY <1>11 DEF Restart, Harmless, IInv, Instants
<1>12. ASSUME NEW b \in Block, RestartProvisioned(b) PROVE IInv' /\ PastStands /\ relied' \cap gone = {}
    <2>1. CASE keys[b.key] = NoKey
        <3>1. b.key \in Keys /\ b.root \in Roots /\ b.material \in Materials
            BY DEF Block
        <3>2. PICK w \in Windows : keys' = [keys EXCEPT ![b.key] = NewRow(b.root, b.material, w)]
            BY <1>12, <2>1 DEF RestartProvisioned
        <3>. QED
            BY <1>12, <2>1, <3>1, <3>2, EntryKeeps DEF RestartProvisioned
    <2>2. CASE keys[b.key] # NoKey
        BY <1>12, <2>2, HarmlessKeeps DEF RestartProvisioned, Harmless, IInv, Instants
    <2>. QED
        BY <2>1, <2>2
<1>13. ASSUME Tick PROVE Harmless
    BY <1>13 DEF Tick, Harmless, IInv, Instants
<1>. QED
    BY <1>1, <1>2, <1>3, <1>4, <1>5, <1>6, <1>7, <1>8, <1>9, <1>10, <1>11, <1>12, <1>13, HarmlessKeeps DEF KeysNext

\* No step relies on a key that was once rotated out or revoked, and a later distrust leaves the
\* past as it was (SQLiteKeyDirectory, LocalQuiescenceAttestor, the signature checks).
THEOREM DistrustAlwaysForGood == KeysSpec => DistrustIsForGood
<1>. DEFINE Step == relied' \cap gone = {} /\ PastStands
<1>1. IInv /\ [KeysNext]_keyVars => IInv'
    BY NextKeeps DEF keyVars, IInv
<1>2. IInv /\ [KeysNext]_keyVars => [Step]_keyVars
    BY NextKeeps
<1>3. Step <=> /\ relied' \cap gone = {}
               /\ \A b \in Block, t \in Instants : t < now /\ verify_historical(b, t) => verify_historical(b, t)'
    BY DEF PastStands
<1>. HIDE DEF Step
<1>. QED
    BY <1>1, <1>2, <1>3, InitInv, PTL DEF KeysSpec, DistrustIsForGood

-----------------------------------------------------------------------------
(* Recovery: the inductive invariant.                                      *)

Event == [node : Nodes, open : SUBSET Effects, type : {"IN_DOUBT_DECLARED", "IN_DOUBT_RESOLVED"}]
Row == [case : [node : Nodes, open : SUBSET Effects], attempt : Nat, decision : {"IN_DOUBT", "COMPENSATED"}]
Events == Seq(Event)
Journal == Seq(Row)

\* What a recovery of a node that left these effects open makes of its doubt.
DoubtOf(open) == IF open = {} THEN Absent ELSE open

\* The journal follows the recovery events row by row.
JournalFollows(journal, events) ==
    /\ Len(journal) = Len(events)
    /\ \A i \in DOMAIN journal :
           /\ journal[i].case = Case(events[i].node, events[i].open)
           /\ journal[i].attempt = Cardinality({j \in 1..i : journal[j].case = journal[i].case})

\* The doubt of a node is what its last recovery event left.
DoubtFollows(doubt, events) ==
    \A n \in Nodes :
        LET mine == {i \in DOMAIN events : events[i].node = n} IN
        /\ mine = {} => doubt[n] = Absent
        /\ \A last \in mine : (\A i \in mine : i <= last) => doubt[n] = DoubtOf(events[last].open)

\* A retry and a break-glass use are always refused by the reducer, so that a budget never leaves
\* its first state, no use is ever in the history, and the tables count none.
RecordsType ==
    [events : Events, journal : Journal, doubt : [Nodes -> (SUBSET Effects) \cup {Absent}],
     retries : [Budgets -> {Absent, Fresh}], uses : [Authorities -> {0}],
     retryRow : [Budgets -> {Absent}], useRow : [Authorities -> {Absent, 0}]]

RecoveryInv ==
    db \in RecordsType /\ JournalFollows(db.journal, db.events) /\ DoubtFollows(db.doubt, db.events)

\* A recovery event and its row in the journal are added together, the row with the next attempt of
\* its case.
LEMMA JournalGrows ==
    ASSUME NEW events \in Events, NEW journal \in Journal, JournalFollows(journal, events),
           NEW n \in Nodes, NEW open \in SUBSET Effects, NEW event, NEW row,
           event.node = n, event.open = open, row.case = Case(n, open),
           row.attempt = Cardinality({i \in DOMAIN journal : journal[i].case = Case(n, open)}) + 1
    PROVE  JournalFollows(Append(journal, row), Append(events, event))
<1>. DEFINE J == Append(journal, row)
            E == Append(events, event)
            top == Len(journal) + 1
            Same(i) == {j \in 1..i : J[j].case = J[i].case}
<1>1. /\ Len(journal) \in Nat /\ Len(journal) = Len(events)
      /\ Len(J) = top /\ Len(E) = top /\ DOMAIN J = 1..top /\ DOMAIN journal = 1..Len(journal)
      /\ J[top] = row /\ E[top] = event
      /\ \A i \in 1..Len(journal) : J[i] = journal[i] /\ E[i] = events[i]
    BY DEF Events, Journal, JournalFollows
<1>2. ASSUME NEW i \in 1..Len(journal)
      PROVE  J[i].case = Case(E[i].node, E[i].open) /\ J[i].attempt = Cardinality(Same(i))
    <2>1. Same(i) = {j \in 1..i : journal[j].case = journal[i].case}
        BY <1>1
    <2>. QED
        BY <1>1, <2>1 DEF JournalFollows
<1>3. J[top].case = Case(E[top].node, E[top].open) /\ J[top].attempt = Cardinality(Same(top))
    <2>. DEFINE before == {i \in DOMAIN journal : journal[i].case = Case(n, open)}
    <2>1. Same(top) = before \cup {top} /\ top \notin before
        <3>1. \A j \in 1..top : J[j].case = J[top].case <=> j \in before \cup {top}
            BY <1>1
        <3>2. before \cup {top} \subseteq 1..top /\ top \notin before
            BY <1>1
        <3>. HIDE DEF J, before, top
        <3>. QED
            BY <3>1, <3>2
    <2>2. IsFiniteSet(before)
        <3>1. before \subseteq 1..Len(journal) /\ IsFiniteSet(1..Len(journal))
            BY <1>1, FS_Interval
        <3>. QED
            BY <3>1, FS_Subset
    <2>3. Cardinality(before \cup {top}) = Cardinality(before) + 1
        BY <2>1, <2>2, FS_AddElement
    <2>. QED
        BY <1>1, <2>1, <2>3
<1>4. \A i \in 1..top : i \in 1..Len(journal) \/ i = top
    BY <1>1
<1>. QED
    BY <1>1, <1>2, <1>3, <1>4 DEF JournalFollows

\* The recovery event of a node is its last, and the last of any other node stays what it was.
LEMMA DoubtMoves ==
    ASSUME NEW events \in Events, NEW doubt \in [Nodes -> (SUBSET Effects) \cup {Absent}],
           DoubtFollows(doubt, events), NEW n \in Nodes, NEW open \in SUBSET Effects, NEW event,
           event.node = n, event.open = open
    PROVE  DoubtFollows([doubt EXCEPT ![n] = DoubtOf(open)], Append(events, event))
<1>. DEFINE E == Append(events, event)
            top == Len(events) + 1
            D == [doubt EXCEPT ![n] = DoubtOf(open)]
            Before(m) == {i \in DOMAIN events : events[i].node = m}
            Mine(m) == {i \in DOMAIN E : E[i].node = m}
<1>1. /\ Len(events) \in Nat /\ Len(E) = top /\ DOMAIN E = 1..top /\ DOMAIN events = 1..Len(events)
      /\ E[top] = event /\ \A i \in 1..Len(events) : E[i] = events[i]
    BY DEF Events
<1>2. Mine(n) = Before(n) \cup {top}
    BY <1>1
<1>3. ASSUME NEW last \in Mine(n), \A i \in Mine(n) : i <= last PROVE last = top
    BY <1>1, <1>2, <1>3
<1>4. ASSUME NEW m \in Nodes, m # n
      PROVE  Mine(m) = Before(m) /\ D[m] = doubt[m] /\ \A i \in Mine(m) : E[i] = events[i]
    BY <1>1, <1>4
<1>5. /\ Mine(n) # {}
      /\ \A last \in Mine(n) : (\A i \in Mine(n) : i <= last) => D[n] = DoubtOf(E[last].open)
    BY <1>1, <1>2, <1>3
<1>6. ASSUME NEW m \in Nodes, m # n
      PROVE  /\ Mine(m) = {} => D[m] = Absent
             /\ \A last \in Mine(m) : (\A i \in Mine(m) : i <= last) => D[m] = DoubtOf(E[last].open)
    BY <1>4, <1>6 DEF DoubtFollows
<1>. QED
    BY <1>5, <1>6 DEF DoubtFollows

\* A transaction leaves all it writes or nothing.
LEMMA AllOrNothing ==
    ASSUME NEW after, NEW legal \in BOOLEAN, Transact(after, legal)
    PROVE  db' = db \/ (legal /\ db' = after)
BY DEF Transact, expected_durable_prefix_oracle

\* The tables and the history start empty.
LEMMA RecoveryInitInv == RecoveryInit => RecoveryInv
<1> SUFFICES ASSUME RecoveryInit PROVE RecoveryInv
    OBVIOUS
<1>1. db \in RecordsType
    <2>1. <<>> \in Events /\ <<>> \in Journal
        BY DEF Events, Journal
    <2>2. /\ [n \in Nodes |-> Absent] \in [Nodes -> (SUBSET Effects) \cup {Absent}]
          /\ [b \in Budgets |-> Absent] \in [Budgets -> {Absent, Fresh}]
          /\ [b \in Budgets |-> Absent] \in [Budgets -> {Absent}]
          /\ [a \in Authorities |-> 0] \in [Authorities -> {0}]
          /\ [a \in Authorities |-> Absent] \in [Authorities -> {Absent, 0}]
        OBVIOUS
    <2>. QED
        BY <2>1, <2>2 DEF RecoveryInit, RecordsType
<1>2. JournalFollows(db.journal, db.events) /\ DoubtFollows(db.doubt, db.events)
    BY DEF RecoveryInit, JournalFollows, DoubtFollows
<1>. QED
    BY <1>1, <1>2 DEF RecoveryInv

\* Each transaction keeps the tables by the history; retries and break-glass uses are refused.
LEMMA RecoveryNextInv == RecoveryInv /\ [RecoveryNext]_recoveryVars => RecoveryInv'
<1> SUFFICES ASSUME RecoveryInv, [RecoveryNext]_recoveryVars PROVE RecoveryInv'
    OBVIOUS
<1>. USE DEF RecoveryInv
<1>1. ASSUME NEW n \in Nodes, NEW receipts, NEW compensated, DOMAIN receipts \subseteq Effects,
             recover(n, receipts, compensated)
      PROVE  RecoveryInv'
    <2>. DEFINE open == Unresolved(receipts, compensated)
                row == [case |-> Case(n, open), attempt |-> Cardinality(Attempts(Case(n, open))) + 1,
                        decision |-> IF open # {} THEN "IN_DOUBT" ELSE "COMPENSATED"]
                event == [node |-> n, open |-> open, type |-> IF open # {} THEN "IN_DOUBT_DECLARED"
                                                                           ELSE "IN_DOUBT_RESOLVED"]
                after == [db EXCEPT !.events = Append(@, event), !.journal = Append(@, row),
                                    !.doubt[n] = DoubtOf(open)]
    <2>1. open \in SUBSET Effects
        BY <1>1 DEF Unresolved
    <2>2. db' = db \/ db' = after
        <3>1. Transact(after, open # {} \/ ResolveLegal(n))
            BY <1>1 DEF recover, record_recovery_canonical, DoubtOf
        <3>. HIDE DEF after, open
        <3>. QED
            BY <3>1, AllOrNothing
    <2>3. event \in Event
        BY <2>1 DEF Event
    <2>4. Attempts(Case(n, open)) = {i \in DOMAIN db.journal : db.journal[i].case = Case(n, open)}
        BY DEF Attempts
    <2>5. Cardinality(Attempts(Case(n, open))) \in Nat
        <3>1. db.journal \in Journal
            BY DEF RecordsType
        <3>. HIDE DEF RecoveryInv
        <3>2. Len(db.journal) \in Nat /\ DOMAIN db.journal = 1..Len(db.journal)
            BY <3>1 DEF Journal
        <3>3. IsFiniteSet(DOMAIN db.journal)
            BY <3>2, FS_Interval
        <3>. QED
            BY <2>4, <3>3, FS_Subset, FS_CardinalityType
    <2>6. row \in Row
        BY <2>1, <2>5 DEF Case, Row
    <2>7. row.case = Case(n, open) /\ event.node = n /\ event.open = open
          /\ row.attempt = Cardinality({i \in DOMAIN db.journal : db.journal[i].case = Case(n, open)}) + 1
        BY <2>4
    <2>. HIDE DEF open, event, row
    <2>8. db.events \in Events /\ db.journal \in Journal /\ db.doubt \in [Nodes -> (SUBSET Effects) \cup {Absent}]
        BY DEF RecordsType
    <2>9. /\ after.events = Append(db.events, event) /\ after.journal = Append(db.journal, row)
          /\ after.doubt = [db.doubt EXCEPT ![n] = DoubtOf(open)]
        BY DEF RecordsType
    <2>10. JournalFollows(after.journal, after.events)
        BY <2>1, <2>7, <2>8, <2>9, JournalGrows
    <2>11. DoubtFollows(after.doubt, after.events)
        BY <2>1, <2>7, <2>8, <2>9, DoubtMoves
    <2>12. after \in RecordsType
        <3>1. Append(db.events, event) \in Events /\ Append(db.journal, row) \in Journal
            BY <2>3, <2>6, <2>8 DEF Events, Journal
        <3>2. [db.doubt EXCEPT ![n] = DoubtOf(open)] \in [Nodes -> (SUBSET Effects) \cup {Absent}]
            <4>1. DoubtOf(open) \in (SUBSET Effects) \cup {Absent}
                BY <2>1 DEF DoubtOf
            <4>. QED
                BY <2>8, <4>1
        <3>. QED
            BY <3>1, <3>2 DEF RecordsType
    <2>. HIDE DEF after
    <2>. QED
        BY <2>2, <2>10, <2>11, <2>12
<1>2. ASSUME NEW b \in Budgets, CreateBudget(b) PROVE RecoveryInv'
    <2>. DEFINE after == [db EXCEPT !.retries[b] = Fresh]
    <2>1. db' = db \/ db' = after
        <3>1. Transact(after, fmap_insert_immutable_legal(db.retries[b], Fresh))
            BY <1>2 DEF CreateBudget
        <3>2. fmap_insert_immutable_legal(db.retries[b], Fresh) \in BOOLEAN
            BY DEF fmap_insert_immutable_legal
        <3>. HIDE DEF after
        <3>. QED
            BY <3>1, <3>2, AllOrNothing
    <2>2. after \in RecordsType /\ after.events = db.events /\ after.journal = db.journal /\ after.doubt = db.doubt
        BY DEF RecordsType
    <2>. HIDE DEF after
    <2>. QED
        BY <2>1, <2>2
<1>3. ASSUME NEW b \in Budgets, NEW f \in Fingerprints, consume_retry_canonical(b, f) PROVE RecoveryInv'
    <2>1. db.retries[b] = Fresh /\ Fresh # Absent
        BY <1>3 DEF consume_retry_canonical, RecordsType
    <2>2. ASSUME NEW same, NEW last
          PROVE  ~ fmap_insert_immutable_legal(Fresh, [consumed |-> Fresh.consumed + 1, same |-> same, last |-> last])
        BY <2>1 DEF fmap_insert_immutable_legal, Fresh
    <2>3. db' = db
        BY <1>3, <2>1, <2>2 DEF consume_retry_canonical, Transact
    <2>. QED
        BY <2>3
<1>4. ASSUME NEW a \in Authorities, RegisterAuthority(a) PROVE RecoveryInv'
    <2>1. /\ db' \in RecordsType
          /\ db'.events = db.events /\ db'.journal = db.journal /\ db'.doubt = db.doubt
        BY <1>4 DEF RegisterAuthority, RecordsType
    <2>. QED
        BY <2>1
<1>5. ASSUME NEW a \in Authorities, consume_break_glass_canonical(a) PROVE RecoveryInv'
    <2>1. db' = db
        BY <1>5 DEF consume_break_glass_canonical, Transact
    <2>. QED
        BY <2>1
<1>6. ASSUME UNCHANGED db PROVE RecoveryInv'
    BY <1>6
<1>. QED
    BY <1>1, <1>2, <1>3, <1>4, <1>5, <1>6 DEF RecoveryNext, recoveryVars, WorkMoves

\* Whatever is refused and wherever the process dies, the runtime tables say what the history says:
\* rows, attempts, doubts and counts (Transact, record_recovery_canonical).
THEOREM TablesAlwaysFollow == RecoverySpec => []TablesFollowHistory
<1>1. RecoveryInv => TablesFollowHistory
    BY DEF RecoveryInv, RecordsType, JournalFollows, DoubtFollows, DoubtOf, TablesFollowHistory
<1>. QED
    BY <1>1, RecoveryInitInv, RecoveryNextInv, PTL DEF RecoverySpec

\* A budget once created is never drawn upon, and no break-glass use is ever counted: the reducer's
\* insert-only map refuses the one, the object it requires the other (fmap_insert_immutable,
\* consume_break_glass_canonical).
THEOREM NeverConsumed ==
    RecoverySpec => [](/\ \A b \in Budgets : db.retries[b] \in {Absent, Fresh}
                      /\ \A a \in Authorities : db.uses[a] = 0)
<1>1. RecoveryInv => (/\ \A b \in Budgets : db.retries[b] \in {Absent, Fresh}
                      /\ \A a \in Authorities : db.uses[a] = 0)
    BY DEF RecoveryInv, RecordsType
<1>. QED
    BY <1>1, RecoveryInitInv, RecoveryNextInv, PTL DEF RecoverySpec
=============================================================================
