------------------------------ MODULE Recovery ------------------------------
(***************************************************************************)
(* Recovery of doubtful work, retry budgets and break-glass authorities:   *)
(* DeterministicRecoveryEngine, record_recovery_canonical,                 *)
(* consume_retry_canonical and consume_break_glass_canonical with the      *)
(* runtime tables they project into, and the reducer's part of their       *)
(* events.  Each is one SQLite transaction over the canonical history and  *)
(* the runtime tables; the process may die at any stage of it.             *)
(***************************************************************************)
EXTENDS Naturals, Sequences, FiniteSets

CONSTANTS Nodes, Effects, Budgets, Authorities, Fingerprints,
          MaxRetries,   \* max_retries of every budget
          MaxSame,      \* max_same_failure of the retry rules
          MaxUses,      \* max_uses of every break-glass authority
          MaxEvents,    \* bound: length of the history
          Absent

ASSUME LimitsAssumption == MaxRetries \in Nat /\ MaxSame \in Nat /\ MaxUses \in Nat \ {0}

VARIABLES db,      \* the durable state: canonical maps and the tables projected from them
          reality  \* the work itself: node status as other commands move it

recoveryVars == <<db, reality>>

Statuses == {"OBSERVED", "NOT_OBSERVED", "PARTIALLY_OBSERVED", "UNKNOWN", "COMPENSATED",
             "COMPENSATION_FAILED"}
Stages == {"K1_BEFORE_DURABLE_INTENT", "K2_AFTER_COMMIT_RECORD", "K3_AFTER_EVENT_ROWS",
           "K4_AFTER_PROJECTION", "K5_BEFORE_COMMIT", "K6_AFTER_COMMIT"}
Fresh == [consumed |-> 0, same |-> 0, last |-> Absent]

RecoveryInit ==
    /\ db = [events   |-> <<>>,                                  \* recovery events
             doubt    |-> [n \in Nodes |-> Absent],                \* in_doubt
             retries  |-> [b \in Budgets |-> Absent],              \* retry_budgets, retry_consumptions
             uses     |-> [a \in Authorities |-> 0],             \* break_glass_consumption
             journal  |-> <<>>,                                  \* runtime_recovery_cases
             retryRow |-> [b \in Budgets |-> Absent],              \* runtime_retry_budgets
             useRow   |-> [a \in Authorities |-> Absent]]          \* runtime_break_glass.consumed
    /\ reality = [n \in Nodes |-> "EXECUTING"]

\* What a transaction leaves behind when the process dies at a stage of it.
expected_durable_prefix_oracle(stage, before, after) ==
    IF stage = "K6_AFTER_COMMIT" THEN after ELSE before

\* A bug to be caught: the tables are written outside the transaction the event is refused in.
TablesSurvive(after, legal) ==
    db' = IF legal THEN after
          ELSE [db EXCEPT !.journal = after.journal, !.retryRow = after.retryRow,
                          !.useRow = after.useRow]

\* Everything a transaction writes is there or nothing of it is: a refusal rolls it back.
Transact(after, legal) ==
    \E stage \in Stages :
        db' = IF legal THEN expected_durable_prefix_oracle(stage, db, after) ELSE db

\* The reducer's insert-only maps take a key once.
fmap_insert_immutable_legal(old, new) == old = Absent \/ old = new

---------------------------------------------------------------------------
(* Recovery. *)

\* The effects a recovery cannot vouch for, given the receipts and compensation results it
\* was handed: it asks neither the provider nor the canonical receipts.
Unresolved(receipts, compensated) ==
    {e \in DOMAIN receipts :
        \/ receipts[e] = "UNKNOWN"
        \/ receipts[e] = "OBSERVED" /\ (e \notin DOMAIN compensated \/ ~compensated[e])
        \/ receipts[e] \notin {"UNKNOWN", "OBSERVED", "NOT_OBSERVED", "COMPENSATED"}}

Case(n, open) == [node |-> n, open |-> open]
Attempts(case) == {i \in DOMAIN db.journal : db.journal[i].case = case}

\* A node is resolved into COMPLETED, from VERIFYING or from COMPLETED itself.
ResolveLegal(n) == reality[n] \in {"VERIFYING", "COMPLETED"}

record_recovery_canonical(n, open, legal) ==
    LET decision == IF open # {} THEN "IN_DOUBT" ELSE "COMPENSATED"
        row == [case |-> Case(n, open), attempt |-> Cardinality(Attempts(Case(n, open))) + 1,
                decision |-> decision]
        event == [node |-> n, open |-> open, type |-> IF open # {} THEN "IN_DOUBT_DECLARED"
                                                                   ELSE "IN_DOUBT_RESOLVED"]
    IN Transact([db EXCEPT !.events = Append(@, event),
                           !.journal = Append(@, row),
                           !.doubt[n] = IF open # {} THEN open ELSE Absent], legal)

recover(n, receipts, compensated) ==
    /\ Len(db.events) < MaxEvents
    /\ LET open == Unresolved(receipts, compensated)
           legal == open # {} \/ ResolveLegal(n)
       IN /\ record_recovery_canonical(n, open, legal)
          /\ reality' = IF open = {} /\ db'.events # db.events
                        THEN [reality EXCEPT ![n] = "COMPLETED"] ELSE reality

\* Doubt keeps the node's status: the work goes on by other commands meanwhile.
WorkMoves(n) ==
    /\ reality[n] = "EXECUTING"
    /\ reality' = [reality EXCEPT ![n] = "VERIFYING"]
    /\ UNCHANGED db

---------------------------------------------------------------------------
(* Retry budgets. *)

\* A RETRY_CONSUMED command is all that brings a budget into the canonical state.
CreateBudget(b) ==
    /\ Len(db.events) < MaxEvents
    /\ Transact([db EXCEPT !.retries[b] = Fresh], fmap_insert_immutable_legal(db.retries[b], Fresh))
    /\ UNCHANGED reality

\* Guards of the call, then the reducer's insert-only map, which holds the budget already.
consume_retry_canonical(b, f) ==
    /\ db.retries[b] # Absent
    /\ LET budget == db.retries[b]
           same == IF budget.last = f THEN budget.same + 1 ELSE 1
           updated == [consumed |-> budget.consumed + 1, same |-> same, last |-> f]
       IN Transact([db EXCEPT !.retries[b] = updated, !.retryRow[b] = updated],
                   /\ budget.consumed < MaxRetries
                   /\ same <= MaxSame
                   /\ fmap_insert_immutable_legal(budget, updated))
    /\ UNCHANGED reality

---------------------------------------------------------------------------
(* Break-glass authorities. *)

RegisterAuthority(a) ==
    /\ db.useRow[a] = Absent
    /\ db' = [db EXCEPT !.useRow[a] = 0]
    /\ UNCHANGED reality

\* The runtime row is counted first; the event that would record the use names no object
\* the reducer requires, and is refused.
consume_break_glass_canonical(a) ==
    /\ db.useRow[a] # Absent
    /\ LET number == db.useRow[a] + 1
           hasObject == FALSE
       IN Transact([db EXCEPT !.useRow[a] = number, !.uses[a] = number],
                   /\ db.useRow[a] < MaxUses
                   /\ number = db.uses[a] + 1
                   /\ hasObject)
    /\ UNCHANGED reality

RecoveryNext ==
    \/ \E n \in Nodes, E \in SUBSET Effects : \E receipts \in [E -> Statuses] :
          \E C \in SUBSET {e \in E : receipts[e] = "OBSERVED"} : \E comp \in [C -> BOOLEAN] :
              recover(n, receipts, comp)
    \/ \E n \in Nodes : WorkMoves(n)
    \/ \E b \in Budgets : CreateBudget(b) \/ \E f \in Fingerprints : consume_retry_canonical(b, f)
    \/ \E a \in Authorities : RegisterAuthority(a) \/ consume_break_glass_canonical(a)

RecoverySpec == RecoveryInit /\ [][RecoveryNext]_recoveryVars

---------------------------------------------------------------------------
(* Properties. *)

\* The runtime tables say what the history says, whatever was refused and wherever the
\* process died: the recovery journal has one row for each recovery event, in order, with the
\* attempts of a case numbered without a gap; a break-glass use or a retry is counted in a
\* table only if the history has it; and a node is in doubt exactly when its last recorded
\* recovery left an effect open.
TablesFollowHistory ==
    /\ Len(db.journal) = Len(db.events)
    /\ \A i \in DOMAIN db.journal :
          LET row == db.journal[i] IN
          /\ row.case = Case(db.events[i].node, db.events[i].open)
          /\ row.attempt = Cardinality({j \in 1..i : db.journal[j].case = row.case})
    /\ \A a \in Authorities : db.useRow[a] \in {Absent, db.uses[a]}
    /\ \A b \in Budgets : db.retryRow[b] \in {Absent, db.retries[b]}
    /\ \A n \in Nodes :
          LET mine == {i \in DOMAIN db.events : db.events[i].node = n} IN
          /\ mine = {} => db.doubt[n] = Absent
          /\ \A last \in mine : (\A i \in mine : i <= last) =>
                 db.doubt[n] = IF db.events[last].open = {} THEN Absent ELSE db.events[last].open
=============================================================================
