-------------------------- MODULE ReservationsProofs --------------------------
(***************************************************************************)
(* Theorems about Reservations for all values of its constants: types, one *)
(* success per nonce, one nonce per row, the finality of a row that has    *)
(* ended, and the limit on what is admitted.  The last one compares sums   *)
(* over sets, and first proves, by induction on finite sets, that a fold   *)
(* over budgets computes the sum.                                          *)
(***************************************************************************)
EXTENDS Reservations, FiniteSetTheorems, WellFoundedInduction, TLAPS

\* A row is RESERVED exactly as long as it has its first version.
Versions == \A x \in rows : x.status = "RESERVED" <=> x.version = 1

IInv == TypeOK /\ Versions

-----------------------------------------------------------------------------
(* Lemmas about the steps.                                                 *)

\* A new row has its type, and so have all others.
LEMMA RowType ==
    ASSUME NEW k \in Keys, NEW a \in Amounts, NEW t \in Times
    PROVE  Row(k, a, t) \in Rows /\ Row(k, a, t).status = "RESERVED" /\ Row(k, a, t).version = 1
BY DEF Row, Rows, RowState

\* A canonical record cannot be rewritten as EXPIRED: every sweep is refused and changes nothing.
LEMMA SweepRefused == TypeOK /\ Sweep => UNCHANGED vars
<1> SUFFICES ASSUME TypeOK, Sweep PROVE UNCHANGED vars
    OBVIOUS
<1>1. ASSUME NEW r \in Requests, canonical[r] # None, canonical[r].state = "RESERVED"
      PROVE  ~Insertable(canonical[r], [canonical[r] EXCEPT !.state = "EXPIRED"])
    <2>1. canonical[r] \in Records
        BY <1>1 DEF TypeOK
    <2>2. [canonical[r] EXCEPT !.state = "EXPIRED"].state = "EXPIRED"
        BY <2>1 DEF Records
    <2>. QED BY <1>1, <2>2 DEF Insertable
<1>. QED BY <1>1 DEF Sweep

\* What a consumption does to the nonces.
LEMMA SpendType ==
    ASSUME TypeOK, NEW n \in Nonces, NEW r, NEW by \in Bindings \cup Keys, Consumable(n, r), Spend(n, by)
    PROVE  /\ nonces' \in [Nonces -> NonceRows \cup {None}]
           /\ spent' = spent \cup {[nonce |-> n, by |-> by]}
           /\ spent' \subseteq [nonce : Nonces, by : Bindings \cup Keys]
           /\ nonces'[n] # None /\ nonces'[n].status = "CONSUMED"
           /\ \A m \in Nonces \ {n} : nonces'[m] = nonces[m]
<1>1. nonces[n] \in NonceRows
    BY DEF TypeOK, Consumable
<1>2. [nonces[n] EXCEPT !.status = "CONSUMED"] \in NonceRows
    BY <1>1 DEF NonceRows
<1>3. nonces' = [nonces EXCEPT ![n] = [nonces[n] EXCEPT !.status = "CONSUMED"]]
    BY DEF Spend, TypeOK
<1>4. nonces'[n] = [nonces[n] EXCEPT !.status = "CONSUMED"]
    BY <1>3 DEF TypeOK
<1>5. nonces'[n].status = "CONSUMED" /\ nonces'[n] # None
    BY <1>1, <1>2, <1>4, IdentitiesAssumption DEF NonceRows
<1>6. spent' = spent \cup {[nonce |-> n, by |-> by]}
    BY DEF Spend
<1>. QED BY <1>2, <1>3, <1>5, <1>6 DEF TypeOK

\* An ended row takes the place of the one it was.
LEMMA EndType ==
    ASSUME TypeOK, Versions, NEW x \in rows, NEW to \in {"RELEASED", "SETTLED"}, End(x, to)
    PROVE  \E y \in Rows : /\ rows' = (rows \ {x}) \cup {y}
                           /\ y.key = x.key /\ y.amount = x.amount /\ y.expires = x.expires
                           /\ y.status = to /\ y.version = 2 /\ x.version = 1 /\ x.status = "RESERVED"
<1>1. x \in Rows /\ x.status = "RESERVED" /\ x.version = 1
    BY DEF TypeOK, Versions, End
<1>2. rows' = (rows \ {x}) \cup {[x EXCEPT !.status = to, !.version = x.version + 1]}
    BY <1>1 DEF End, Rows
<1> DEFINE y == [x EXCEPT !.status = to, !.version = x.version + 1]
<1>3. y \in Rows /\ y.key = x.key /\ y.amount = x.amount /\ y.expires = x.expires
        /\ y.status = to /\ y.version = 2
    <2>1. x.version + 1 = 2
        BY <1>1
    <2>2. y = [x EXCEPT !.status = to, !.version = 2]
        BY <2>1
    <2> HIDE DEF y
    <2>3. y.key = x.key /\ y.amount = x.amount /\ y.expires = x.expires /\ y.status = to /\ y.version = 2
        BY <1>1, <2>2 DEF Rows
    <2>. QED BY <1>1, <2>2, <2>3 DEF Rows, RowState
<1>. QED BY <1>1, <1>2, <1>3

\* The kinds of steps, as the properties see them.
LEMMA StepCases ==
    ASSUME TypeOK, [Next]_vars
    PROVE  \/ UNCHANGED <<nonces, rows, spent>>
           \/ \E n \in Nonces, r \in Requests, t \in Times : IssueNonce(n, r, t)
           \/ \E n \in Nonces, r \in Requests, b \in Bindings : ConsumeAndBind(n, r, b)
           \/ \E n \in Nonces, r \in Requests, k \in Keys, a \in Amounts, t \in Times :
                  /\ Consumable(n, r) /\ Spend(n, k)
                  /\ Enterable(k, t) /\ rows' = rows \cup {Row(k, a, t)}
           \/ \E x \in rows, to \in {"RELEASED", "SETTLED"} : RowEnded(x, to)
<1>1. ASSUME NEW n \in Nonces, NEW r \in Requests, NEW b \in Bindings, NEW a \in Amounts, NEW t \in Times,
             AtomicReserve(n, r, b, a, t)
      PROVE  \E k \in Keys : /\ Consumable(n, r) /\ Spend(n, k)
                             /\ Enterable(k, t) /\ rows' = rows \cup {Row(k, a, t)}
    <2>1. <<b, a, t>> \in Keys
        BY DEF Keys
    <2>. QED BY <1>1, <2>1 DEF AtomicReserve
<1>2. ASSUME NEW n \in Nonces, NEW r \in Requests, Admit(n, r)
      PROVE  \E k \in Keys, a \in Amounts, t \in Times :
                  /\ Consumable(n, r) /\ Spend(n, k)
                  /\ Enterable(k, t) /\ rows' = rows \cup {Row(k, a, t)}
    <2>1. r \in Keys /\ Ask[r] \in Amounts
        BY ReservationsAssumption DEF Keys
    <2>2. canonical[r].expires \in Times
        BY <1>2 DEF Admit, TypeOK, Records
    <2>. QED BY <1>2, <2>1, <2>2 DEF Admit
<1>3. CASE \E r \in Requests, a \in Amounts, t \in Times : BudgetReserved(r, a, t)
    BY <1>3 DEF BudgetReserved
<1>4. CASE Sweep
    BY <1>4, SweepRefused DEF vars
<1>5. CASE (\E l \in Limits : PolicyActivated(l)) \/ Tick
    BY <1>5 DEF PolicyActivated, Tick
<1>6. CASE UNCHANGED vars
    BY <1>6 DEF vars
<1>. QED BY <1>1, <1>2, <1>3, <1>4, <1>5, <1>6 DEF Next

-----------------------------------------------------------------------------
(* Types.                                                                  *)

LEMMA TypeInit == Init => IInv
BY ReservationsAssumption DEF Init, IInv, TypeOK, Versions

\* The variables the properties do not speak of keep their types.
LEMMA TypeOthers ==
    ASSUME TypeOK, [Next]_vars
    PROVE  /\ clock' \in 0..MaxTime /\ limit' \in Limits /\ ceilings' \subseteq Limits
           /\ canonical' \in [Requests -> Records \cup {None}]
<1>1. CASE Sweep
    BY <1>1, SweepRefused DEF vars, TypeOK
<1>2. ASSUME NEW r \in Requests, NEW a \in Amounts, NEW t \in Times, BudgetReserved(r, a, t)
      PROVE  /\ clock' \in 0..MaxTime /\ limit' \in Limits /\ ceilings' \subseteq Limits
             /\ canonical' \in [Requests -> Records \cup {None}]
    BY <1>2 DEF BudgetReserved, TypeOK, Records
<1>3. CASE Tick
    BY <1>3, ReservationsAssumption DEF Tick, TypeOK
<1>4. CASE \E l \in Limits : PolicyActivated(l)
    BY <1>4 DEF PolicyActivated, TypeOK
<1>5. CASE UNCHANGED <<clock, limit, canonical, ceilings>>
    BY <1>5 DEF TypeOK
<1>. QED
    BY <1>1, <1>2, <1>3, <1>4, <1>5
    DEF Next, IssueNonce, ConsumeAndBind, AtomicReserve, Admit, RowEnded, vars

\* Rows stay well typed, with an identity of their own, and versioned.
LEMMA TypeRows ==
    ASSUME IInv, NEW y \in Rows, NEW old \in SUBSET rows,
           rows' = (rows \ old) \cup {y}, \A x \in rows \ old : x.key # y.key,
           y.status = "RESERVED" <=> y.version = 1
    PROVE  /\ rows' \subseteq Rows /\ Versions'
           /\ \A x, z \in rows' : x.key = z.key => x = z
BY DEF IInv, TypeOK, Versions

\* Every step keeps the types and the versions.
LEMMA TypeNext == IInv /\ [Next]_vars => IInv'
<1> SUFFICES ASSUME IInv, [Next]_vars PROVE IInv'
    OBVIOUS
<1> USE DEF IInv
<1>1. CASE UNCHANGED <<nonces, rows, spent>>
    BY <1>1, TypeOthers DEF TypeOK, Versions
<1>2. ASSUME NEW n \in Nonces, NEW r \in Requests, NEW t \in Times, IssueNonce(n, r, t)
      PROVE  IInv'
    <2>1. nonces' \in [Nonces -> NonceRows \cup {None}]
        BY <1>2 DEF IssueNonce, TypeOK, NonceRows
    <2>. QED BY <1>2, <2>1, TypeOthers DEF IssueNonce, TypeOK, Versions
<1>3. ASSUME NEW n \in Nonces, NEW r \in Requests, NEW b \in Bindings, ConsumeAndBind(n, r, b)
      PROVE  IInv'
    <2>1. nonces' \in [Nonces -> NonceRows \cup {None}] /\ spent' \subseteq [nonce : Nonces, by : Bindings \cup Keys]
        BY <1>3, SpendType DEF ConsumeAndBind
    <2>. QED BY <1>3, <2>1, TypeOthers DEF ConsumeAndBind, TypeOK, Versions
<1>4. ASSUME NEW n \in Nonces, NEW r \in Requests, NEW k \in Keys, NEW a \in Amounts, NEW t \in Times,
             Consumable(n, r), Spend(n, k), Enterable(k, t), rows' = rows \cup {Row(k, a, t)}
      PROVE  IInv'
    <2>1. nonces' \in [Nonces -> NonceRows \cup {None}] /\ spent' \subseteq [nonce : Nonces, by : Bindings \cup Keys]
        BY <1>4, SpendType
    <2>2. \A x \in rows : x.key # Row(k, a, t).key
        BY <1>4 DEF Enterable, Row
    <2>3. /\ rows' = (rows \ {}) \cup {Row(k, a, t)} /\ {} \in SUBSET rows
          /\ Row(k, a, t) \in Rows /\ (Row(k, a, t).status = "RESERVED" <=> Row(k, a, t).version = 1)
        BY <1>4, RowType
    <2>4. rows' \subseteq Rows /\ Versions' /\ \A x, z \in rows' : x.key = z.key => x = z
        BY <2>2, <2>3, TypeRows
    <2>. QED BY <2>1, <2>4, TypeOthers DEF TypeOK
<1>5. ASSUME NEW x \in rows, NEW to \in {"RELEASED", "SETTLED"}, RowEnded(x, to)
      PROVE  IInv'
    <2>1. PICK y \in Rows : /\ rows' = (rows \ {x}) \cup {y} /\ y.key = x.key
                            /\ y.status = to /\ y.version = 2
        BY <1>5, EndType DEF RowEnded
    <2>2. \A z \in rows \ {x} : z.key # y.key
        BY <2>1 DEF TypeOK
    <2>5. y.status = "RESERVED" <=> y.version = 1
        BY <2>1
    <2>3. rows' \subseteq Rows /\ Versions' /\ \A z, w \in rows' : z.key = w.key => z = w
        <3>1. {x} \in SUBSET rows /\ rows' = (rows \ {x}) \cup {y}
            BY <2>1
        <3>. QED BY <2>2, <2>5, <3>1, TypeRows
    <2>4. UNCHANGED <<nonces, spent>>
        BY <1>5 DEF RowEnded
    <2>. QED BY <2>3, <2>4, TypeOthers DEF TypeOK
<1>. QED BY <1>1, <1>2, <1>3, <1>4, <1>5, StepCases

\* Types and versions hold together, and no step breaks them.
THEOREM Inductive == Spec => []IInv
BY TypeInit, TypeNext, PTL DEF Spec

\* Every variable keeps its type and a row's identity stays its own.
THEOREM TypeCorrect == Spec => []TypeOK
<1>1. IInv => TypeOK
    BY DEF IInv
<1>. QED BY <1>1, Inductive, PTL

-----------------------------------------------------------------------------
(* Nonces and rows.                                                        *)

LEMMA NonceInit == Init => NonceOnce
BY DEF Init, NonceOnce

\* A nonce that can be consumed has not been, and one that has been stays consumed.
LEMMA NonceNext == IInv /\ NonceOnce /\ [Next]_vars => NonceOnce'
<1> SUFFICES ASSUME TypeOK, NonceOnce, [Next]_vars PROVE NonceOnce'
    BY DEF IInv
<1>1. CASE UNCHANGED <<nonces, rows, spent>>
    BY <1>1 DEF NonceOnce
<1>2. ASSUME NEW n \in Nonces, NEW r \in Requests, NEW t \in Times, IssueNonce(n, r, t)
      PROVE  NonceOnce'
    <2>1. nonces'[n].status = "ISSUED" /\ \A m \in Nonces \ {n} : nonces'[m] = nonces[m]
        BY <1>2 DEF IssueNonce, TypeOK
    <2>2. nonces[n] = None /\ spent' = spent
        BY <1>2 DEF IssueNonce
    <2>. QED BY <2>1, <2>2 DEF NonceOnce
<1>3. ASSUME NEW n \in Nonces, NEW r \in Requests, NEW by \in Bindings \cup Keys,
             Consumable(n, r), Spend(n, by)
      PROVE  NonceOnce'
    <2>1. \A s \in spent : s.nonce # n
        BY <1>3 DEF Consumable, NonceOnce
    <2>2. /\ spent' = spent \cup {[nonce |-> n, by |-> by]}
          /\ nonces'[n] # None /\ nonces'[n].status = "CONSUMED"
          /\ \A m \in Nonces \ {n} : nonces'[m] = nonces[m]
        BY <1>3, SpendType
    <2>3. \A s, t \in spent' : s.nonce = t.nonce => s = t
        BY <2>1, <2>2 DEF NonceOnce
    <2>4. ASSUME NEW m \in Nonces
          PROVE  (nonces'[m] # None /\ nonces'[m].status = "CONSUMED") <=> \E s \in spent' : s.nonce = m
        <3>1. CASE m = n
            <4>1. [nonce |-> n, by |-> by] \in spent' /\ [nonce |-> n, by |-> by].nonce = m
                BY <2>2, <3>1
            <4>. QED BY <2>2, <3>1, <4>1
        <3>2. CASE m # n
            BY <2>2, <3>2 DEF NonceOnce
        <3>. QED BY <3>1, <3>2
    <2>. QED BY <2>3, <2>4 DEF NonceOnce
<1>4. CASE \E x \in rows, to \in {"RELEASED", "SETTLED"} : RowEnded(x, to)
    BY <1>4 DEF RowEnded, NonceOnce
<1>. QED BY <1>1, <1>2, <1>3, <1>4, StepCases DEF ConsumeAndBind

\* However admissions, atomic reservations and direct consumptions of a nonce follow one another,
\* one of them is answered SUCCESS.
THEOREM NonceOnceAlways == Spec => []NonceOnce
BY NonceInit, NonceNext, Inductive, PTL DEF Spec

LEMMA PaidInit == Init => PaidRows
BY DEF Init, PaidRows

\* A new row brings its own consumption; ended rows keep theirs; what is spent directly pays no row.
LEMMA PaidNext == IInv /\ PaidRows /\ [Next]_vars => PaidRows'
<1> SUFFICES ASSUME IInv, TypeOK, Versions, PaidRows, [Next]_vars PROVE PaidRows'
    BY DEF IInv
<1>1. CASE UNCHANGED <<nonces, rows, spent>>
    BY <1>1 DEF PaidRows
<1>2. CASE \E n \in Nonces, r \in Requests, t \in Times : IssueNonce(n, r, t)
    BY <1>2 DEF IssueNonce, PaidRows
<1>3. ASSUME NEW n \in Nonces, NEW r \in Requests, NEW b \in Bindings, ConsumeAndBind(n, r, b)
      PROVE  PaidRows'
    <2>1. spent' = spent \cup {[nonce |-> n, by |-> b]} /\ rows' = rows
        BY <1>3 DEF ConsumeAndBind, Spend
    <2>2. b \notin Keys /\ \A x \in rows : x.key \in Keys
        BY IdentitiesAssumption DEF TypeOK, Rows
    <2>. QED BY <2>1, <2>2 DEF PaidRows
<1>4. ASSUME NEW n \in Nonces, NEW r \in Requests, NEW k \in Keys, NEW a \in Amounts, NEW t \in Times,
             Consumable(n, r), Spend(n, k), Enterable(k, t), rows' = rows \cup {Row(k, a, t)}
      PROVE  PaidRows'
    <2>1. spent' = spent \cup {[nonce |-> n, by |-> k]}
        BY <1>4 DEF Spend
    <2>2. Row(k, a, t).key = k
        BY DEF Row
    <2>3. \A s \in spent : s.by # k
        BY <1>4 DEF Enterable, PaidRows
    <2>4. \A x \in rows : x.key # k
        BY <1>4 DEF Enterable
    <2> DEFINE s0 == [nonce |-> n, by |-> k]
    <2>5. s0 \in spent' /\ s0.by = k /\ \A s \in spent' : s = s0 \/ s \in spent
        BY <2>1
    <2>6. Row(k, a, t) \in rows' /\ \A x \in rows' : x = Row(k, a, t) \/ x \in rows
        BY <1>4
    <2> HIDE DEF s0
    <2>7. ASSUME NEW x \in rows' PROVE \E s \in spent' : s.by = x.key /\ \A u \in spent' : u.by = x.key => u = s
        BY <2>2, <2>3, <2>4, <2>5, <2>6, <2>1 DEF PaidRows
    <2>8. ASSUME NEW s \in spent', s.by \in Keys PROVE \E x \in rows' : x.key = s.by
        BY <1>4, <2>2, <2>5, <2>6, <2>8 DEF PaidRows
    <2>. QED BY <2>7, <2>8 DEF PaidRows
<1>5. ASSUME NEW x \in rows, NEW to \in {"RELEASED", "SETTLED"}, RowEnded(x, to)
      PROVE  PaidRows'
    <2>1. PICK y \in Rows : rows' = (rows \ {x}) \cup {y} /\ y.key = x.key
        BY <1>5, EndType DEF RowEnded
    <2>2. spent' = spent
        BY <1>5 DEF RowEnded
    <2>. QED BY <2>1, <2>2 DEF PaidRows
<1>. QED BY <1>1, <1>2, <1>3, <1>4, <1>5, StepCases

\* Nonce and reservation succeed together or neither exists: no row without the one nonce spent on
\* it, no nonce spent on a row that is not there.
THEOREM PaidRowsAlways == Spec => []PaidRows
BY PaidInit, PaidNext, Inductive, PTL DEF Spec

-----------------------------------------------------------------------------
(* Rows that have ended.                                                   *)

LEMMA RestNext ==
    ASSUME IInv, [Next]_vars, NEW x \in rows
    PROVE  \E y \in rows' :
               y = x \/ (x.status = "RESERVED" /\ y.version = x.version + 1
                           /\ y.key = x.key /\ y.amount = x.amount /\ y.expires = x.expires)
<1> USE DEF IInv
<1>1. CASE rows \subseteq rows'
    BY <1>1
<1>2. ASSUME NEW z \in rows, NEW to \in {"RELEASED", "SETTLED"}, RowEnded(z, to), x # z
      PROVE  x \in rows'
    BY <1>2, EndType DEF RowEnded
<1>3. ASSUME NEW to \in {"RELEASED", "SETTLED"}, RowEnded(x, to)
      PROVE  \E y \in rows' : /\ x.status = "RESERVED" /\ y.version = x.version + 1
                              /\ y.key = x.key /\ y.amount = x.amount /\ y.expires = x.expires
    BY <1>3, EndType DEF RowEnded
<1>. QED BY <1>1, <1>2, <1>3, StepCases DEF IssueNonce, ConsumeAndBind

\* A row is never deleted or rewritten, and only a RESERVED one ever changes.
THEOREM EndedRowsRestAlways == Spec => EndedRowsRest
<1>1. IInv /\ [Next]_vars =>
          [\A x \in rows : \E y \in rows' :
              y = x \/ (x.status = "RESERVED" /\ y.version = x.version + 1
                          /\ y.key = x.key /\ y.amount = x.amount /\ y.expires = x.expires)]_vars
    BY RestNext
<1>. QED BY <1>1, Inductive, PTL DEF Spec, EndedRowsRest

-----------------------------------------------------------------------------
(* Sums over finite sets.                                                  *)

\* A set of numbers has a least one.
LEMMA LeastNumber ==
    ASSUME NEW N \in SUBSET Nat, N # {}
    PROVE  \E n \in N : \A m \in N : n <= m
<1>1. PICK n \in N : \A m \in N : ~ (<<m, n>> \in OpToRel(<, Nat))
    BY NatLessThanWellFounded, WFMin
<1>2. \A m \in N : ~ (m < n)
    BY <1>1 DEF OpToRel
<1>. QED
    BY <1>2

\* Among the parts of a finite set that there are, one has none of the others for a part.
LEMMA LeastPart ==
    ASSUME NEW D, IsFiniteSet(D), NEW Parts \in SUBSET SUBSET D, Parts # {}
    PROVE  \E s \in Parts : \A t \in Parts : t \subseteq s => t = s
<1>1. Parts \subseteq FiniteSubsetsOf(D)
    BY FS_Subset DEF FiniteSubsetsOf
<1>2. IsWellFoundedOn(StrictSubsetOrdering(D), FiniteSubsetsOf(D))
    BY FS_StrictSubsetOrderingWellFounded
<1>3. PICK s \in Parts : \A t \in Parts : ~ (<<t, s>> \in StrictSubsetOrdering(D))
    BY <1>1, <1>2, WFMin
<1>. QED
    BY <1>3 DEF StrictSubsetOrdering

\* Budgets add up to budgets, in any order.
LEMMA PlusType == Zero \in Budgets /\ \A a, b \in Budgets : Plus(a, b) \in Budgets
BY DEF Budgets, Plus, Zero

LEMMA PlusSwap ==
    ASSUME NEW a \in Budgets, NEW b \in Budgets, NEW c \in Budgets
    PROVE  Plus(a, Plus(b, c)) = Plus(b, Plus(a, c))
BY DEF Budgets, Plus

\* Budgets are partly ordered, and adding keeps their order.
LEMMA LeqOrder ==
    ASSUME NEW a \in Budgets, NEW b \in Budgets, NEW c \in Budgets
    PROVE  Leq(a, a) /\ Leq(a, Plus(b, a)) /\ (Leq(a, b) /\ Leq(b, c) => Leq(a, c))
BY DEF Budgets, Plus, Leq

LEMMA LeqPlus ==
    ASSUME NEW a \in Budgets, NEW b \in Budgets, NEW c \in Budgets, NEW d \in Budgets, Leq(a, b), Leq(c, d)
    PROVE  Leq(Plus(a, c), Plus(b, d))
BY DEF Budgets, Plus, Leq

\* What a set's sum is made of, as the fold makes it: an element is chosen and added to the rest.
Chosen(s) == CHOOSE x \in s : TRUE
Step(it, f, s) == IF s = {} THEN Zero ELSE Plus(f[Chosen(s)], it[s \ {Chosen(s)}])
IsFold(it, f, D) == it = [s \in SUBSET D |-> Step(it, f, s)]

\* The sums of the subsets of D, with the elements taken in any order.
Sums(it, f, D) ==
    /\ it \in [SUBSET D -> Budgets] /\ it[{}] = Zero
    /\ \A s \in SUBSET D : \A x \in s : it[s] = Plus(f[x], it[s \ {x}])

\* Finite sets can be folded, by the size of their subsets.
LEMMA FoldExists ==
    ASSUME NEW D, IsFiniteSet(D), NEW f
    PROVE  \E it : IsFold(it, f, D)
<1>. DEFINE Upto(n) == {s \in SUBSET D : Cardinality(s) <= n}
            Good(n) == \E it : it = [s \in Upto(n) |-> Step(it, f, s)]
            Bad == {n \in Nat : ~ Good(n)}
<1>1. \A s \in SUBSET D : IsFiniteSet(s) /\ Cardinality(s) \in Nat
    BY FS_Subset, FS_CardinalityType
<1>2. ASSUME NEW s \in SUBSET D, s # {}
      PROVE  /\ Chosen(s) \in s /\ s \ {Chosen(s)} \in SUBSET D
             /\ Cardinality(s \ {Chosen(s)}) = Cardinality(s) - 1
    BY <1>1, <1>2, FS_RemoveElement DEF Chosen
<1>3. Good(0)
    <2>. DEFINE it == [s \in Upto(0) |-> Zero]
    <2>1. \A s \in Upto(0) : s = {}
        BY <1>1, FS_EmptySet
    <2>2. it = [s \in Upto(0) |-> Step(it, f, s)]
        BY <2>1 DEF Step
    <2>. QED
        BY <2>2
<1>4. ASSUME NEW n \in Nat, Good(n) PROVE Good(n + 1)
    <2>1. PICK it : it = [s \in Upto(n) |-> Step(it, f, s)]
        BY <1>4
    <2>. DEFINE next == [s \in Upto(n + 1) |-> Step(it, f, s)]
    <2>2. Upto(n) \subseteq Upto(n + 1)
        BY <1>1
    <2>3. ASSUME NEW s \in Upto(n) PROVE next[s] = it[s]
        BY <2>1, <2>2
    <2>4. ASSUME NEW s \in Upto(n + 1), s # {} PROVE s \ {Chosen(s)} \in Upto(n)
        BY <1>1, <1>2, <2>4
    <2>5. ASSUME NEW s \in Upto(n + 1) PROVE Step(it, f, s) = Step(next, f, s)
        BY <2>3, <2>4 DEF Step
    <2>6. next = [s \in Upto(n + 1) |-> Step(next, f, s)]
        BY <2>5
    <2>. QED
        BY <2>6
<1>5. Good(Cardinality(D))
    <2>. HIDE DEF Good
    <2>1. CASE Bad = {}
        BY <1>1, <2>1
    <2>2. CASE Bad # {}
        <3>1. PICK n \in Bad : \A m \in Bad : n <= m
            BY <2>2, LeastNumber
        <3>2. n # 0 /\ n \in Nat
            BY <1>3, <3>1
        <3>3. n - 1 \in Nat /\ n - 1 \notin Bad
            BY <3>1, <3>2
        <3>4. Good((n - 1) + 1)
            BY <1>4, <3>3
        <3>. QED
            BY <3>1, <3>2, <3>4
    <2>. QED
        BY <2>1, <2>2
<1>6. Upto(Cardinality(D)) = SUBSET D
    BY FS_Subset
<1>. QED
    BY <1>5, <1>6 DEF IsFold

\* What a fold computes does not depend on the elements it chooses.
LEMMA FoldSums ==
    ASSUME NEW D, IsFiniteSet(D), NEW f \in [D -> Budgets], NEW it, IsFold(it, f, D)
    PROVE  Sums(it, f, D)
<1>. DEFINE Fine(s) == /\ it[s] \in Budgets
                       /\ \A x \in s : it[s] = Plus(f[x], it[s \ {x}])
            Bad == {s \in SUBSET D : ~ Fine(s)}
<1>1. \A s \in SUBSET D : it[s] = Step(it, f, s)
    BY DEF IsFold
<1>2. it[{}] = Zero
    BY <1>1 DEF Step
<1>3. CASE Bad = {}
    <2>1. it \in [SUBSET D -> Budgets]
        BY <1>3 DEF IsFold
    <2>. QED
        BY <1>2, <1>3, <2>1 DEF Sums
<1>4. CASE Bad # {}
    <2>1. PICK s \in Bad : \A t \in Bad : t \subseteq s => t = s
        <3>1. Bad \in SUBSET SUBSET D
            OBVIOUS
        <3>. HIDE DEF Bad
        <3>. QED
            BY <1>4, <3>1, LeastPart
    <2>2. \A t \in SUBSET D : t \subseteq s /\ t # s => Fine(t)
        BY <2>1
    <2>3. s # {}
        BY <1>2, PlusType
    <2>. DEFINE c == Chosen(s)
    <2>4. c \in s /\ c \in D
        BY <2>3 DEF Chosen
    <2>. HIDE DEF c
    <2>5. it[s] = Plus(f[c], it[s \ {c}])
        BY <1>1, <2>3 DEF Step, c
    <2>6. it[s \ {c}] \in Budgets /\ \A x \in s \ {c} : it[s \ {c}] = Plus(f[x], it[(s \ {c}) \ {x}])
        BY <2>2, <2>4
    <2>7. it[s] \in Budgets
        <3>1. f[c] \in Budgets
            BY <2>4
        <3>. QED
            BY <2>5, <2>6, <3>1, PlusType
    <2>8. ASSUME NEW x \in s, x # c PROVE it[s] = Plus(f[x], it[s \ {x}])
        <3>1. it[s \ {x}] = Plus(f[c], it[(s \ {x}) \ {c}])
            BY <2>2, <2>4, <2>8
        <3>2. (s \ {x}) \ {c} = (s \ {c}) \ {x} /\ x \in D
            OBVIOUS
        <3>3. it[(s \ {c}) \ {x}] \in Budgets
            BY <2>2, <2>4
        <3>4. it[s \ {c}] = Plus(f[x], it[(s \ {c}) \ {x}])
            BY <2>6, <2>8
        <3>5. f[x] \in Budgets /\ f[c] \in Budgets
            BY <2>4, <3>2
        <3>6. Plus(f[c], Plus(f[x], it[(s \ {c}) \ {x}])) = Plus(f[x], Plus(f[c], it[(s \ {c}) \ {x}]))
            BY <3>3, <3>5, PlusSwap
        <3>. QED
            BY Zenon, <2>5, <3>1, <3>2, <3>4, <3>6
    <2>. QED
        BY <2>1, <2>5, <2>7, <2>8
<1>. QED
    BY <1>3, <1>4

\* The total of a finite function is the sum over its domain.
LEMMA TotalSums ==
    ASSUME NEW f, IsFiniteSet(DOMAIN f), f \in [DOMAIN f -> Budgets]
    PROVE  \E it : Sums(it, f, DOMAIN f) /\ Total(f) = it[DOMAIN f]
<1>. DEFINE it == CHOOSE g : IsFold(g, f, DOMAIN f)
<1>1. IsFold(it, f, DOMAIN f)
    BY FoldExists
<1>2. Sums(it, f, DOMAIN f)
    BY <1>1, FoldSums
<1>3. Total(f) = it[DOMAIN f]
    BY Zenon DEF Total, FoldFunction, FoldFunctionOnSet, MapThenFoldSet, IsFold, Step, Chosen
<1>. QED
    BY <1>2, <1>3

\* A sum over a part is no more than the sum over the whole.
LEMMA PartWithinWhole ==
    ASSUME NEW D, IsFiniteSet(D), NEW f \in [D -> Budgets], NEW it, Sums(it, f, D), NEW part \in SUBSET D
    PROVE  Leq(it[part], it[D])
<1>. DEFINE Bad == {s \in SUBSET D : part \subseteq s /\ ~ Leq(it[part], it[s])}
<1>1. \A s \in SUBSET D : it[s] \in Budgets
    BY DEF Sums
<1>2. SUFFICES ASSUME Bad # {} PROVE FALSE
    OBVIOUS
<1>3. PICK s \in Bad : \A t \in Bad : t \subseteq s => t = s
    <2>1. Bad \in SUBSET SUBSET D
        OBVIOUS
    <2>. HIDE DEF Bad
    <2>. QED
        BY <1>2, <2>1, LeastPart
<1>4. s # part
    BY <1>1, <1>3, LeqOrder
<1>5. PICK x \in s : x \notin part
    BY <1>3, <1>4
<1>6. s \ {x} \in SUBSET D /\ part \subseteq s \ {x} /\ s \ {x} # s
    BY <1>3, <1>5
<1>7. Leq(it[part], it[s \ {x}])
    BY <1>3, <1>6
<1>8. it[s] = Plus(f[x], it[s \ {x}]) /\ f[x] \in Budgets
    BY <1>3, <1>5 DEF Sums
<1>9. Leq(it[s \ {x}], it[s])
    <2>1. it[s \ {x}] \in Budgets
        BY <1>1, <1>6
    <2>. QED
        BY <1>8, <2>1, LeqOrder
<1>. QED
    <2>1. it[s \ {x}] \in Budgets /\ it[s] \in Budgets /\ it[part] \in Budgets
        BY <1>1, <1>3, <1>6
    <2>2. Leq(it[part], it[s])
        BY <1>7, <1>9, <2>1, LeqOrder
    <2>. QED
        BY <1>3, <2>2

\* Amounts each matched by another one at least as large add up to no more than those.
LEMMA TotalWithin ==
    ASSUME NEW f, IsFiniteSet(DOMAIN f), f \in [DOMAIN f -> Budgets],
           NEW g, IsFiniteSet(DOMAIN g), g \in [DOMAIN g -> Budgets],
           NEW h \in [DOMAIN f -> DOMAIN g],
           \A x, y \in DOMAIN f : h[x] = h[y] => x = y,
           \A x \in DOMAIN f : Leq(f[x], g[h[x]])
    PROVE  Leq(Total(f), Total(g)) /\ Total(f) \in Budgets /\ Total(g) \in Budgets
<1>. DEFINE D == DOMAIN f
            E == DOMAIN g
            Image(s) == {h[x] : x \in s}
<1>1. PICK itf : Sums(itf, f, D) /\ Total(f) = itf[D]
    BY TotalSums
<1>2. PICK itg : Sums(itg, g, E) /\ Total(g) = itg[E]
    BY TotalSums
<1>. DEFINE Bad == {s \in SUBSET D : ~ Leq(itf[s], itg[Image(s)])}
<1>3. \A s \in SUBSET D : itf[s] \in Budgets /\ Image(s) \in SUBSET E /\ itg[Image(s)] \in Budgets
    BY <1>1, <1>2 DEF Sums
<1>4. ASSUME Bad # {} PROVE FALSE
    <2>1. PICK s \in Bad : \A t \in Bad : t \subseteq s => t = s
        <3>1. Bad \in SUBSET SUBSET D
            OBVIOUS
        <3>. HIDE DEF Bad
        <3>. QED
            BY <1>4, <3>1, LeastPart
    <2>2. s # {}
        <3>1. itf[{}] = Zero /\ itg[{}] = Zero /\ Image({}) = {}
            BY <1>1, <1>2 DEF Sums
        <3>. QED
            BY <2>1, <3>1, PlusType, LeqOrder
    <2>3. PICK x \in s : TRUE
        BY <2>2
    <2>4. s \ {x} \in SUBSET D /\ s \ {x} # s /\ x \in D
        OBVIOUS
    <2>5. Leq(itf[s \ {x}], itg[Image(s \ {x})])
        BY <2>1, <2>4
    <2>6. Image(s \ {x}) = Image(s) \ {h[x]} /\ h[x] \in Image(s)
        BY <2>4
    <2>7. itf[s] = Plus(f[x], itf[s \ {x}])
        BY <1>1, <2>3 DEF Sums
    <2>8. itg[Image(s)] = Plus(g[h[x]], itg[Image(s) \ {h[x]}])
        BY <1>2, <1>3, <2>6 DEF Sums
    <2>9. Leq(f[x], g[h[x]]) /\ f[x] \in Budgets /\ g[h[x]] \in Budgets
        BY <2>4
    <2>10. /\ itf[s \ {x}] \in Budgets /\ itg[Image(s \ {x})] \in Budgets
        BY <1>3, <2>4
    <2>11. Leq(itf[s], itg[Image(s)])
        <3>1. Leq(Plus(f[x], itf[s \ {x}]), Plus(g[h[x]], itg[Image(s \ {x})]))
            BY <2>5, <2>9, <2>10, LeqPlus
        <3>. QED
            BY Zenon, <2>6, <2>7, <2>8, <3>1
    <2>. QED
        BY <2>1, <2>11
<1>5. Leq(itf[D], itg[Image(D)])
    BY <1>4
<1>6. Leq(itg[Image(D)], itg[E])
    BY <1>2, <1>3, PartWithinWhole
<1>7. itg[E] \in Budgets
    BY <1>2 DEF Sums
<1>8. itf[D] \in Budgets /\ itg[Image(D)] \in Budgets
    BY <1>3
<1>. HIDE DEF D, E, Image
<1>. QED
    BY <1>1, <1>2, <1>5, <1>6, <1>7, <1>8, LeqOrder

-----------------------------------------------------------------------------
(* What is admitted.                                                       *)

\* The amounts of the rows that admissions have made, and of the canonical reservations held.
Admitted(R) == [x \in {y \in R : y.key \in Requests} |-> x.amount]
Recorded == {r \in Requests : canonical[r] # None}
Held == {q \in Requests : canonical[q] # None /\ canonical[q].state = "RESERVED"}

\* There are finitely many rows and records; no record ever leaves RESERVED, whatever becomes of its
\* row, so that the record of an admitted row still holds the row's amount.
Backed(R) ==
    /\ IsFiniteSet(R) /\ IsFiniteSet(Recorded) /\ Held = Recorded
    /\ \A x \in R : x.key \in Requests => x.key \in Recorded /\ canonical[x.key].amount = x.amount

LimitInv == Backed(rows) /\ limit \in ceilings /\ AdmittedWithinLimit

\* Finitely many rows give a finite function into the budgets.
LEMMA AdmittedType ==
    ASSUME NEW R \in SUBSET Rows, IsFiniteSet(R)
    PROVE  /\ DOMAIN Admitted(R) = {y \in R : y.key \in Requests}
           /\ IsFiniteSet(DOMAIN Admitted(R))
           /\ Admitted(R) \in [DOMAIN Admitted(R) -> Budgets]
           /\ \A x \in DOMAIN Admitted(R) : Admitted(R)[x] = x.amount /\ x.key \in Requests /\ x \in R
<1>1. {y \in R : y.key \in Requests} \subseteq R
    OBVIOUS
<1>2. IsFiniteSet({y \in R : y.key \in Requests})
    BY <1>1, FS_Subset
<1>. QED
    BY <1>2, ReservationsAssumption DEF Admitted, Rows

\* What is admitted is within what the canonical reservations hold.
LEMMA AdmittedHeld ==
    ASSUME TypeOK, NEW R \in SUBSET Rows, Backed(R), \A x, y \in R : x.key = y.key => x = y
    PROVE  /\ Total(Admitted(R)) \in Budgets /\ OutstandingCanonical \in Budgets
           /\ Leq(Total(Admitted(R)), OutstandingCanonical)
<1>. DEFINE f == Admitted(R)
            g == [r \in Held |-> canonical[r].amount]
            h == [x \in DOMAIN f |-> x.key]
<1>1. /\ DOMAIN f = {y \in R : y.key \in Requests}
      /\ IsFiniteSet(DOMAIN f) /\ f \in [DOMAIN f -> Budgets]
      /\ \A x \in DOMAIN f : f[x] = x.amount /\ x.key \in Requests /\ x \in R
    BY AdmittedType DEF Backed
<1>2. IsFiniteSet(DOMAIN g) /\ g \in [DOMAIN g -> Budgets] /\ DOMAIN g = Held
    BY ReservationsAssumption DEF Backed, Held, Recorded, TypeOK, Records
<1>3. \A x \in DOMAIN f : x.key \in Held /\ g[x.key] = f[x]
    BY <1>1 DEF Backed
<1>. HIDE DEF f, g
<1>4. h \in [DOMAIN f -> DOMAIN g] /\ \A x \in DOMAIN f : h[x] = x.key
    BY <1>2, <1>3
<1>5. \A x, y \in DOMAIN f : h[x] = h[y] => x = y
    BY <1>1, <1>4
<1>6. \A x \in DOMAIN f : Leq(f[x], g[h[x]])
    BY <1>1, <1>3, <1>4, LeqOrder
<1>7. Leq(Total(f), Total(g)) /\ Total(f) \in Budgets /\ Total(g) \in Budgets
    BY <1>1, <1>2, <1>4, <1>5, <1>6, TotalWithin
<1>. QED
    BY <1>7 DEF OutstandingCanonical, f, g, Held

\* A row that has ended counts for as much as before.
LEMMA AdmittedEnds ==
    ASSUME NEW R \in SUBSET Rows, IsFiniteSet(R), NEW x \in R, NEW y \in Rows,
           y.key = x.key, y.amount = x.amount
    PROVE  LET S == (R \ {x}) \cup {y} IN
           /\ Total(Admitted(S)) \in Budgets /\ Total(Admitted(R)) \in Budgets
           /\ Leq(Total(Admitted(S)), Total(Admitted(R)))
<1>. DEFINE S == (R \ {x}) \cup {y}
            f == Admitted(S)
            g == Admitted(R)
            h == [z \in DOMAIN f |-> IF z = y THEN x ELSE z]
<1>1. S \in SUBSET Rows /\ IsFiniteSet(S)
    <2>1. R \ {x} \subseteq R
        OBVIOUS
    <2>2. IsFiniteSet(R \ {x})
        BY <2>1, FS_Subset
    <2>. QED
        BY <2>2, FS_AddElement
<1>2. /\ DOMAIN f = {z \in S : z.key \in Requests}
      /\ IsFiniteSet(DOMAIN f) /\ f \in [DOMAIN f -> Budgets]
      /\ \A z \in DOMAIN f : f[z] = z.amount
    BY <1>1, AdmittedType
<1>3. /\ DOMAIN g = {z \in R : z.key \in Requests}
      /\ IsFiniteSet(DOMAIN g) /\ g \in [DOMAIN g -> Budgets]
      /\ \A z \in DOMAIN g : g[z] = z.amount
    BY AdmittedType
<1>. HIDE DEF f, g
<1>4. \A z \in DOMAIN f : h[z] = (IF z = y THEN x ELSE z) /\ h[z] \in DOMAIN g /\ g[h[z]] = f[z]
    BY <1>2, <1>3
<1>5. h \in [DOMAIN f -> DOMAIN g]
    BY <1>4
<1>6. \A z, w \in DOMAIN f : h[z] = h[w] => z = w
    BY <1>2, <1>4
<1>. HIDE DEF h
<1>7. \A z \in DOMAIN f : Leq(f[z], g[h[z]])
    BY <1>2, <1>4, LeqOrder
<1>8. Leq(Total(f), Total(g)) /\ Total(f) \in Budgets /\ Total(g) \in Budgets
    BY <1>2, <1>3, <1>5, <1>6, <1>7, TotalWithin
<1>. QED
    BY <1>8 DEF f, g

\* Nothing is admitted at first, and nothing is within any limit.
LEMMA LimitInit == Init => LimitInv
<1> SUFFICES ASSUME Init PROVE LimitInv
    OBVIOUS
<1>1. Recorded = {} /\ Held = {} /\ rows = {} /\ ceilings = {limit} /\ limit \in Budgets
    BY ReservationsAssumption DEF Init, Recorded, Held
<1>2. Backed(rows)
    BY <1>1, FS_EmptySet DEF Backed
<1>3. Total(Admitted({})) = Zero
    <2>1. /\ DOMAIN Admitted({}) = {} /\ IsFiniteSet(DOMAIN Admitted({}))
          /\ Admitted({}) \in [DOMAIN Admitted({}) -> Budgets]
        BY FS_EmptySet DEF Admitted
    <2>2. PICK it : Sums(it, Admitted({}), DOMAIN Admitted({})) /\ Total(Admitted({})) = it[DOMAIN Admitted({})]
        BY <2>1, TotalSums
    <2>. QED
        BY <2>1, <2>2 DEF Sums
<1>4. Leq(Zero, limit)
    BY <1>1 DEF Leq, Zero, Budgets
<1>5. AdmittedWithinLimit
    BY <1>1, <1>3, <1>4 DEF AdmittedWithinLimit, Admitted
<1>. QED
    BY <1>1, <1>2, <1>5 DEF LimitInv

\* An admission is the only step that adds to what is admitted, and it holds the sum of all records
\* against the limit in force.
LEMMA LimitNext == IInv /\ IInv' /\ LimitInv /\ [Next]_vars => LimitInv'
<1> SUFFICES ASSUME TypeOK, TypeOK', Versions, LimitInv, [Next]_vars PROVE LimitInv'
    BY DEF IInv
<1>1. limit' \in ceilings' /\ ceilings \subseteq ceilings'
    <2>1. CASE Sweep
        BY <2>1, SweepRefused DEF LimitInv, vars
    <2>2. CASE \E l \in Limits : PolicyActivated(l)
        BY <2>2 DEF PolicyActivated, LimitInv
    <2>3. CASE UNCHANGED <<limit, ceilings>>
        BY <2>3 DEF LimitInv
    <2>. QED
        BY <2>1, <2>2, <2>3
        DEF Next, vars, IssueNonce, ConsumeAndBind, AtomicReserve, Admit, BudgetReserved, RowEnded, Tick
<1>2. ASSUME UNCHANGED <<rows, canonical>> PROVE LimitInv'
    BY <1>1, <1>2 DEF LimitInv, Backed, Recorded, Held, AdmittedWithinLimit
<1>3. ASSUME NEW n \in Nonces, NEW r \in Requests, NEW b \in Bindings, NEW a \in Amounts, NEW t \in Times,
             AtomicReserve(n, r, b, a, t)
      PROVE  LimitInv'
    <2>. DEFINE row == Row(<<b, a, t>>, a, t)
    <2>1. rows' = rows \cup {row} /\ canonical' = canonical /\ row.key \notin Requests
        BY <1>3, IdentitiesAssumption DEF AtomicReserve, Row
    <2>. HIDE DEF row
    <2>2. Backed(rows)'
        BY <2>1, FS_AddElement DEF LimitInv, Backed, Recorded, Held
    <2>3. Admitted(rows') = Admitted(rows)
        BY <2>1 DEF Admitted
    <2>4. AdmittedWithinLimit'
        BY <1>1, <2>3 DEF LimitInv, AdmittedWithinLimit, Admitted
    <2>. QED
        BY <1>1, <2>2, <2>4 DEF LimitInv
<1>4. ASSUME NEW n \in Nonces, NEW r \in Requests, Admit(n, r) PROVE LimitInv'
    <2>. DEFINE row == Row(r, Ask[r], canonical[r].expires)
    <2>1. /\ rows' = rows \cup {row} /\ UNCHANGED <<canonical, limit>>
          /\ row.key = r /\ row.amount = canonical[r].amount /\ r \in Recorded
        BY <1>4 DEF Admit, Row, Recorded
    <2>2. Leq(Plus(Ask[r], OutstandingCanonical), limit)
        BY <1>4 DEF Admit, Fits
    <2>. HIDE DEF row
    <2>3. Backed(rows')
        BY <2>1, FS_AddElement DEF LimitInv, Backed
    <2>4. rows' \in SUBSET Rows /\ \A x, y \in rows' : x.key = y.key => x = y
        BY DEF TypeOK
    <2>5. /\ Total(Admitted(rows')) \in Budgets /\ OutstandingCanonical \in Budgets
          /\ Leq(Total(Admitted(rows')), OutstandingCanonical)
        BY <2>3, <2>4, AdmittedHeld
    <2>6. Ask[r] \in Budgets /\ limit \in Budgets
        BY ReservationsAssumption DEF TypeOK
    <2>7. Leq(OutstandingCanonical, limit)
        <3>1. Leq(OutstandingCanonical, Plus(Ask[r], OutstandingCanonical)) /\ Plus(Ask[r], OutstandingCanonical) \in Budgets
            BY <2>5, <2>6, LeqOrder, PlusType
        <3>. QED
            BY <2>2, <2>5, <2>6, <3>1, LeqOrder
    <2>8. Leq(Total(Admitted(rows')), limit)
        BY <2>5, <2>6, <2>7, LeqOrder
    <2>9. limit \in ceilings'
        BY <1>1, <2>1
    <2>10. AdmittedWithinLimit'
        BY <2>8, <2>9 DEF AdmittedWithinLimit, Admitted
    <2>11. Backed(rows)'
        BY <2>1, <2>3 DEF Backed, Recorded, Held
    <2>. QED
        BY <1>1, <2>10, <2>11 DEF LimitInv
<1>5. ASSUME NEW r \in Requests, NEW a \in Amounts, NEW t \in Times, BudgetReserved(r, a, t) PROVE LimitInv'
    <2>. DEFINE record == [amount |-> a, expires |-> t, state |-> "RESERVED"]
    <2>1. /\ r \notin Recorded /\ rows' = rows
          /\ canonical'[r] = record /\ \A q \in Requests \ {r} : canonical'[q] = canonical[q]
        BY <1>5 DEF BudgetReserved, TypeOK, Recorded
    <2>2. record \in Records /\ record # None /\ record.state = "RESERVED"
        BY IdentitiesAssumption DEF Records
    <2>. HIDE DEF record
    <2>3. Recorded' = Recorded \cup {r} /\ Held' = Held \cup {r}
        BY <2>1, <2>2 DEF Recorded, Held
    <2>4. Backed(rows)'
        <3>1. IsFiniteSet(rows') /\ IsFiniteSet(Recorded') /\ Held' = Recorded'
            BY <2>1, <2>3, FS_AddElement DEF LimitInv, Backed
        <3>2. ASSUME NEW x \in rows', x.key \in Requests
              PROVE  x.key \in Recorded' /\ canonical'[x.key].amount = x.amount
            BY <2>1, <2>3, <3>2 DEF LimitInv, Backed
        <3>. QED
            BY <3>1, <3>2 DEF Backed
    <2>5. AdmittedWithinLimit'
        BY <1>1, <2>1 DEF LimitInv, AdmittedWithinLimit
    <2>. QED
        BY <1>1, <2>4, <2>5 DEF LimitInv
<1>6. ASSUME NEW x \in rows, NEW to \in {"RELEASED", "SETTLED"}, RowEnded(x, to) PROVE LimitInv'
    <2>1. PICK y \in Rows : rows' = (rows \ {x}) \cup {y} /\ y.key = x.key /\ y.amount = x.amount
        BY <1>6, EndType DEF RowEnded
    <2>2. canonical' = canonical /\ rows \in SUBSET Rows /\ IsFiniteSet(rows)
        BY <1>6 DEF RowEnded, TypeOK, LimitInv, Backed
    <2>3. Backed(rows)'
        <3>1. IsFiniteSet(rows')
            <4>1. rows \ {x} \subseteq rows
                OBVIOUS
            <4>2. IsFiniteSet(rows \ {x})
                BY <2>2, <4>1, FS_Subset
            <4>. QED
                BY <2>1, <4>2, FS_AddElement
        <3>. QED
            BY <2>1, <2>2, <3>1 DEF LimitInv, Backed, Recorded, Held
    <2>4. PICK l \in ceilings : Leq(Total(Admitted(rows)), l)
        BY DEF LimitInv, AdmittedWithinLimit, Admitted
    <2>5. /\ Total(Admitted(rows')) \in Budgets /\ Total(Admitted(rows)) \in Budgets
          /\ Leq(Total(Admitted(rows')), Total(Admitted(rows)))
        BY <2>1, <2>2, AdmittedEnds
    <2>6. l \in Budgets /\ l \in ceilings'
        BY <1>1, ReservationsAssumption DEF TypeOK
    <2>7. Leq(Total(Admitted(rows')), l)
        BY <2>4, <2>5, <2>6, LeqOrder
    <2>8. AdmittedWithinLimit'
        BY <2>6, <2>7 DEF AdmittedWithinLimit, Admitted
    <2>. QED
        BY <1>1, <2>3, <2>8 DEF LimitInv
<1>7. CASE Sweep
    BY <1>2, <1>7, SweepRefused DEF vars
<1>. QED
    BY <1>2, <1>3, <1>4, <1>5, <1>6, <1>7
    DEF Next, vars, IssueNonce, ConsumeAndBind, PolicyActivated, Tick

\* Whatever is recorded, released, settled or changed in the policy between two admissions, the
\* requests admitted together stay within a limit that was in force (_admit).
THEOREM AdmittedAlwaysWithinLimit == Spec => []AdmittedWithinLimit
<1>1. LimitInv => AdmittedWithinLimit
    BY DEF LimitInv
<1>. QED
    BY <1>1, Inductive, LimitInit, LimitNext, PTL DEF Spec

\* A canonical reservation holds its amount for good: it is never seen EXPIRED, and what was recorded
\* once stays recorded, since the reducer takes a record's first content and no other
\* (expire_budget_reservations_canonical, fmap_insert_immutable).
THEOREM HeldForGood == Spec => /\ [](\A r \in Requests : canonical[r] # None => canonical[r].state = "RESERVED")
                               /\ [][\A r \in Requests : canonical[r] # None => canonical'[r] = canonical[r]]_vars
<1>1. LimitInv => \A r \in Requests : canonical[r] # None => canonical[r].state = "RESERVED"
    BY DEF LimitInv, Backed, Held, Recorded
<1>2. IInv /\ [Next]_vars => [\A r \in Requests : canonical[r] # None => canonical'[r] = canonical[r]]_vars
    <2> SUFFICES ASSUME TypeOK, [Next]_vars, NEW r \in Requests, canonical[r] # None
                 PROVE  canonical'[r] = canonical[r]
        BY DEF IInv
    <2>1. CASE Sweep
        BY <2>1, SweepRefused DEF vars
    <2>2. ASSUME NEW q \in Requests, NEW a \in Amounts, NEW t \in Times, BudgetReserved(q, a, t)
          PROVE  canonical'[r] = canonical[r]
        BY <2>2 DEF BudgetReserved, TypeOK
    <2>3. CASE UNCHANGED canonical
        BY <2>3
    <2>. QED
        BY <2>1, <2>2, <2>3
        DEF Next, vars, IssueNonce, ConsumeAndBind, AtomicReserve, Admit, RowEnded, PolicyActivated, Tick
<1>. QED
    BY <1>1, <1>2, Inductive, LimitInit, LimitNext, PTL DEF Spec
=============================================================================
