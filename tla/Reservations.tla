----------------------------- MODULE Reservations -----------------------------
(***************************************************************************)
(* SQLiteNonceStore and SQLiteBudgetAllocator, with the operations of the  *)
(* control plane that write them: every action is one BEGIN IMMEDIATE      *)
(* transaction, and an operation that raises leaves the state as it was.   *)
(* A reservation exists twice: as a canonical record (an event said so)    *)
(* and as a row of the runtime's table, which is meant to follow it.       *)
(***************************************************************************)
EXTENDS Integers, FiniteSets, Functions

CONSTANTS
    Nonces, Requests,
    Bindings,   \* pairs of an authorization lease and the execution lease it is spent on
    Dims,       \* the dimensions of a ResourceBudget
    Amounts,    \* the budgets that occur
    Limits,     \* the budgets a policy may grant
    Ask,        \* per request: its budget, part of its reservation's identity
    MaxTime,    \* bound: the clock
    None

Budgets == [Dims -> Nat]

ASSUME ReservationsAssumption ==
    /\ Amounts \subseteq Budgets /\ Limits \subseteq Budgets /\ Limits # {}
    /\ Ask \in [Requests -> Amounts] /\ MaxTime \in Nat

VARIABLES
    clock,
    limit,      \* default_objective_budget of the active policy
    nonces,     \* per nonce: its row, or None
    canonical,  \* per request: the canonical record of its reservation, or None
    rows,       \* the runtime's reservation rows
    spent,      \* history: the consumptions that answered SUCCESS
    ceilings    \* history: the limits that have been in force

vars == <<clock, limit, nonces, canonical, rows, spent, ceilings>>

Times == 1..MaxTime
RowState == {"RESERVED", "RELEASED", "SETTLED", "EXPIRED"}
NonceRows == [request : Requests, status : {"ISSUED", "CONSUMED"}, expires : Times]
Records == [amount : Amounts, expires : Times, state : {"RESERVED", "EXPIRED"}]
\* key: the request (admission) or what atomic_reserve_and_consume_nonce hashes.
Keys == Requests \cup (Bindings \X Amounts \X Times)
Rows == [key : Keys, amount : Amounts, expires : Times, status : RowState, version : {1, 2}]

\* What stands for "no row" is no row, nonces spent directly are told from reservations, and so are
\* the reservations of an admission from those of atomic_reserve_and_consume_nonce.
ASSUME IdentitiesAssumption ==
    /\ None \notin NonceRows \cup Records
    /\ Bindings \cap Keys = {} /\ Requests \cap (Bindings \X Amounts \X Times) = {}

Init ==
    /\ clock = 0 /\ limit \in Limits /\ ceilings = {limit}
    /\ nonces = [n \in Nonces |-> None] /\ canonical = [r \in Requests |-> None]
    /\ rows = {} /\ spent = {}

-----------------------------------------------------------------------------
Plus(a, b) == [d \in Dims |-> a[d] + b[d]]
Leq(a, b)  == \A d \in Dims : a[d] <= b[d]
Zero       == [d \in Dims |-> 0]

\* Whether one more amount fits a limit on top of what is outstanding, in every dimension.
Fits(amount, outstanding) == Leq(Plus(amount, outstanding), limit)

\* The amounts a function gives, added up.
Total(amounts) == FoldFunction(Plus, Zero, amounts)

OutstandingRows == Total([x \in {y \in rows : y.status = "RESERVED"} |-> x.amount])

\* A bug to be caught: what is outstanding is read from the runtime's rows.
OutstandingByRows == OutstandingRows

OutstandingCanonical ==
    Total([r \in {q \in Requests : canonical[q] # None /\ canonical[q].state = "RESERVED"} |->
               canonical[r].amount])

\* A bug to be caught: a nonce that has been consumed is as good as a fresh one.
ConsumableTwice(n, r) ==
    nonces[n] # None /\ nonces[n].request = r /\ clock < nonces[n].expires

\* consume_in_transaction answers SUCCESS: known, of this request, ISSUED and in time.
Consumable(n, r) ==
    /\ nonces[n] # None /\ nonces[n].request = r
    /\ nonces[n].status = "ISSUED" /\ clock < nonces[n].expires

Spend(n, by) ==
    /\ nonces' = [nonces EXCEPT ![n].status = "CONSUMED"]
    /\ spent' = spent \cup {[nonce |-> n, by |-> by]}

Row(k, a, t) == [key |-> k, amount |-> a, expires |-> t, status |-> "RESERVED", version |-> 1]

\* reserve_in_transaction: the row's identity is new and its time has not come.
Enterable(k, t) == clock < t /\ \A x \in rows : x.key # k

-----------------------------------------------------------------------------
IssueNonce(n, r, t) ==
    /\ nonces[n] = None /\ clock < t
    /\ nonces' = [nonces EXCEPT ![n] = [request |-> r, status |-> "ISSUED", expires |-> t]]
    /\ UNCHANGED <<clock, limit, canonical, rows, spent, ceilings>>

\* The public consumption, without a reservation.
ConsumeAndBind(n, r, b) ==
    /\ Consumable(n, r) /\ Spend(n, b)
    /\ UNCHANGED <<clock, limit, canonical, rows, ceilings>>

\* The event BUDGET_RESERVED, submitted by a client: the reducer looks at no limit.
BudgetReserved(r, a, t) ==
    /\ canonical[r] = None
    /\ canonical' = [canonical EXCEPT ![r] = [amount |-> a, expires |-> t, state |-> "RESERVED"]]
    /\ UNCHANGED <<clock, limit, nonces, rows, spent, ceilings>>

\* A bug to be caught: the row stays when the nonce is refused.
ReserveAnyway(n, r, b, a, t) ==
    /\ Enterable(<<b, a, t>>, t) /\ Fits(a, OutstandingRows)
    /\ rows' = rows \cup {Row(<<b, a, t>>, a, t)}
    /\ IF Consumable(n, r) THEN Spend(n, <<b, a, t>>) ELSE UNCHANGED <<nonces, spent>>
    /\ UNCHANGED <<clock, limit, canonical, ceilings>>

\* atomic_reserve_and_consume_nonce: the canonical limit, but the runtime's rows.
AtomicReserve(n, r, b, a, t) ==
    /\ Enterable(<<b, a, t>>, t) /\ Fits(a, OutstandingRows)
    /\ Consumable(n, r)
    /\ rows' = rows \cup {Row(<<b, a, t>>, a, t)}
    /\ Spend(n, <<b, a, t>>)
    /\ UNCHANGED <<clock, limit, canonical, ceilings>>

\* The reservation and the nonce in ExecutionAdmission._admit.  The canonical record must be
\* there already and be the same one, so its amount is in what is outstanding, too.
Admit(n, r) ==
    /\ canonical[r] # None /\ canonical[r].state = "RESERVED" /\ canonical[r].amount = Ask[r]
    /\ Leq(Ask[r], limit)
    /\ Enterable(r, canonical[r].expires) /\ Fits(Ask[r], OutstandingCanonical)
    /\ Consumable(n, r)
    /\ rows' = rows \cup {Row(r, Ask[r], canonical[r].expires)}
    /\ Spend(n, r)
    /\ UNCHANGED <<clock, limit, canonical, ceilings>>

\* A bug to be caught: an ended row may be ended again.
EndAgain(x, to) ==
    rows' = (rows \ {x}) \cup {[x EXCEPT !.status = to, !.version = 2]}

\* A bug to be caught: the same, with the version counted on.
EndOnAndOn(x, to) ==
    rows' = (rows \ {x}) \cup {[x EXCEPT !.status = to, !.version = @ + 1]}

\* transition_in_transaction and its compare-and-set on status and version.
End(x, to) ==
    /\ x.status = "RESERVED"
    /\ rows' = (rows \ {x}) \cup {[x EXCEPT !.status = to, !.version = @ + 1]}

\* release and settle: the runtime's row only.  What was used, at most the amount, is kept
\* in the row and read by nobody.
RowEnded(x, to) == End(x, to) /\ UNCHANGED <<clock, limit, nonces, canonical, spent, ceilings>>

\* fmap_insert_immutable: a canonical record takes its first content and no other.
Insertable(old, new) == old = None \/ old = new

\* expire_budget_reservations_canonical: one event per reservation that is due, and all of
\* them or none.
Sweep ==
    LET due == {r \in Requests : canonical[r] # None /\ canonical[r].state = "RESERVED"
                                                     /\ canonical[r].expires <= clock}
        Late(r) == [canonical[r] EXCEPT !.state = "EXPIRED"]
    IN /\ due # {}
       /\ IF /\ \A r \in due : Insertable(canonical[r], Late(r))
             /\ \A r \in due : \E x \in rows : x.key = r /\ x.status = "RESERVED"
          THEN /\ canonical' = [r \in Requests |-> IF r \in due THEN Late(r) ELSE canonical[r]]
               /\ rows' = {IF x.key \in due THEN [x EXCEPT !.status = "EXPIRED", !.version = @ + 1]
                                            ELSE x : x \in rows}
               /\ UNCHANGED <<clock, limit, nonces, spent, ceilings>>
          ELSE UNCHANGED vars

PolicyActivated(l) ==
    /\ limit' = l /\ ceilings' = ceilings \cup {l}
    /\ UNCHANGED <<clock, nonces, canonical, rows, spent>>

Tick ==
    /\ clock < MaxTime /\ clock' = clock + 1
    /\ UNCHANGED <<limit, nonces, canonical, rows, spent, ceilings>>

Next ==
    \/ \E n \in Nonces, r \in Requests :
          \/ \E t \in Times : IssueNonce(n, r, t)
          \/ \E b \in Bindings : ConsumeAndBind(n, r, b)
          \/ \E b \in Bindings, a \in Amounts, t \in Times : AtomicReserve(n, r, b, a, t)
          \/ Admit(n, r)
    \/ \E r \in Requests, a \in Amounts, t \in Times : BudgetReserved(r, a, t)
    \/ \E x \in rows, to \in {"RELEASED", "SETTLED"} : RowEnded(x, to)
    \/ Sweep
    \/ \E l \in Limits : PolicyActivated(l)
    \/ Tick

Spec == Init /\ [][Next]_vars

-----------------------------------------------------------------------------
(***************************************************************************)
(* Correctness.                                                            *)
(***************************************************************************)
\* Every variable has its type, and a row's identity is its own.
TypeOK ==
    /\ clock \in 0..MaxTime /\ limit \in Limits /\ ceilings \subseteq Limits
    /\ nonces \in [Nonces -> NonceRows \cup {None}]
    /\ canonical \in [Requests -> Records \cup {None}]
    /\ rows \subseteq Rows
    /\ spent \subseteq [nonce : Nonces, by : Bindings \cup Keys]
    /\ \A x, y \in rows : x.key = y.key => x = y

\* Of any number of attempts on one nonce, by admissions, atomic reservations and direct
\* consumptions, exactly one is ever answered SUCCESS (SQLiteNonceStore).
NonceOnce ==
    /\ \A s, t \in spent : s.nonce = t.nonce => s = t
    /\ \A n \in Nonces : (nonces[n] # None /\ nonces[n].status = "CONSUMED")
                               <=> \E s \in spent : s.nonce = n

\* "nonce + reservation succeed or neither exists" (atomic_reserve_and_consume_nonce): every
\* row was paid for with one nonce, and every nonce spent on a row still has it.
PaidRows ==
    /\ \A x \in rows : \E s \in spent : s.by = x.key /\ \A t \in spent : t.by = x.key => t = s
    /\ \A s \in spent : s.by \in Keys => \E x \in rows : x.key = s.by

\* Whatever is recorded, released, settled or changed in the policy between two admissions,
\* the requests admitted together stay within a limit that was in force (_admit).
AdmittedWithinLimit ==
    \E l \in ceilings : Leq(Total([x \in {y \in rows : y.key \in Requests} |-> x.amount]), l)

\* A row is never deleted or rewritten, and once it has left RESERVED it never changes again
\* (the compare-and-set of transition_in_transaction).
EndedRowsRest ==
    [][\A x \in rows : \E y \in rows' :
          y = x \/ (x.status = "RESERVED" /\ y.version = x.version + 1
                      /\ y.key = x.key /\ y.amount = x.amount /\ y.expires = x.expires)]_vars
=============================================================================
