--------------------------- MODULE AuthorityProofs ---------------------------
(***************************************************************************)
(* Two theorems about Authority for any policies, asks, principals, scopes *)
(* and requests.  A chain of policies activated without a relaxation       *)
(* grants work whose tier is that of its risk nothing that the policy at   *)
(* its start refused.  And a request is authorized only when each scope it *)
(* is held against covers all of it: paths by their longest ruled          *)
(* ancestor, effects in sum, addresses pinned.                             *)
(***************************************************************************)
EXTENDS Authority, FiniteSetTheorems, TLAPS

-----------------------------------------------------------------------------
(* The comparison of policies.                                             *)

\* The base of the chain is the active policy or one it tightens.
Chained == base = policy \/ _is_tightening(base, policy)

IInv == policy \in Policies /\ base \in Policies /\ Chained

\* The tier a risk vector falls into is one, and the parts of a policy have their types.
LEMMA PolicyType ==
    ASSUME NEW p \in Policies
    PROVE  /\ \A v \in Tiers : classify_risk(v, p) \in Tiers
           /\ \A t \in Tiers : p.profile[t].mode \in Modes /\ p.profile[t].external \in BOOLEAN
           /\ p.quorum \in Nat \ {0} /\ p.ttl \in Nat /\ p.rest \in Nat
BY AuthorityAssumption DEF classify_risk, SetMax, Tiers

\* The ranks of the modes.
LEMMA Ranks ==
    /\ \A m \in Modes : _AUTH_RANK[m] \in 0..2
    /\ _AUTH_RANK["AUTO"] = 0 /\ _AUTH_RANK["HUMAN_APPROVAL"] = 1 /\ _AUTH_RANK["DUAL_APPROVAL"] = 2
BY DEF _AUTH_RANK, Modes

\* Tightening twice is tightening.
LEMMA TighteningTransitive ==
    ASSUME NEW p \in Policies, NEW q \in Policies, NEW r \in Policies,
           _is_tightening(p, q), _is_tightening(q, r)
    PROVE  _is_tightening(p, r)
<1>1. ASSUME NEW v \in Tiers
      PROVE  /\ classify_risk(v, r) >= classify_risk(v, p)
             /\ _profile_tightened(p.profile[classify_risk(v, p)], r.profile[classify_risk(v, r)])
    <2>1. /\ classify_risk(v, p) \in Tiers /\ classify_risk(v, q) \in Tiers /\ classify_risk(v, r) \in Tiers
          /\ classify_risk(v, q) >= classify_risk(v, p) /\ classify_risk(v, r) >= classify_risk(v, q)
          /\ _profile_tightened(p.profile[classify_risk(v, p)], q.profile[classify_risk(v, q)])
          /\ _profile_tightened(q.profile[classify_risk(v, q)], r.profile[classify_risk(v, r)])
        BY <1>1, PolicyType DEF _is_tightening, _risk_mapping_tightened
    <2>2. classify_risk(v, r) >= classify_risk(v, p)
        BY <2>1 DEF Tiers
    <2>3. /\ p.profile[classify_risk(v, p)].mode \in Modes /\ q.profile[classify_risk(v, q)].mode \in Modes
          /\ r.profile[classify_risk(v, r)].mode \in Modes
        BY <2>1, PolicyType
    <2>4. _profile_tightened(p.profile[classify_risk(v, p)], r.profile[classify_risk(v, r)])
        BY <2>1, <2>3, Ranks DEF _profile_tightened
    <2>. QED
        BY <2>2, <2>4
<1>2. r.ttl <= p.ttl /\ p.denied \subseteq r.denied /\ r.rest <= p.rest
    BY PolicyType DEF _is_tightening
<1>. QED
    BY <1>1, <1>2 DEF _is_tightening, _risk_mapping_tightened

\* What a tightened policy grants to work of a risk, the one before it grants to no more approvers
\* than there are, unless its quorum is the higher one.
LEMMA TighteningGrantsLess ==
    ASSUME NEW old \in Policies, NEW new \in Policies, _is_tightening(old, new), new.quorum >= old.quorum,
           NEW ask \in Asks, NEW v \in Tiers, Grantable(new, AtRisk(ask, v, new))
    PROVE  \E fewer \in SUBSET ask.approvers :
               Grantable(old, [AtRisk(ask, v, old) EXCEPT !.approvers = fewer])
<1>. DEFINE before == old.profile[classify_risk(v, old)]
            after == new.profile[classify_risk(v, new)]
            less(fewer) == [AtRisk(ask, v, old) EXCEPT !.approvers = fewer]
<1>1. /\ ask.ttl \in Nat /\ IsFiniteSet(ask.approvers)
      /\ \A fewer : /\ less(fewer).action = ask.action /\ less(fewer).tier = classify_risk(v, old)
                    /\ less(fewer).node = classify_risk(v, old) /\ less(fewer).ttl = ask.ttl
                    /\ less(fewer).external = ask.external /\ less(fewer).approvers = fewer
    BY AuthorityAssumption DEF AtRisk
<1>0. /\ ask.ttl <= new.ttl /\ ask.action \notin new.denied /\ (ask.external => after.external)
      /\ IF after.mode = "AUTO" THEN ask.approvers = {}
         ELSE Cardinality(ask.approvers) >= Required(new, after.mode)
    <2>1. /\ AtRisk(ask, v, new).tier = classify_risk(v, new) /\ AtRisk(ask, v, new).ttl = ask.ttl
          /\ AtRisk(ask, v, new).action = ask.action /\ AtRisk(ask, v, new).external = ask.external
          /\ AtRisk(ask, v, new).approvers = ask.approvers
        BY AuthorityAssumption DEF AtRisk
    <2>. QED
        BY <2>1 DEF Grantable
<1>2. before.mode \in Modes /\ after.mode \in Modes /\ _profile_tightened(before, after)
    BY <1>1, PolicyType DEF _is_tightening, _risk_mapping_tightened
<1>3. /\ ask.ttl <= old.ttl /\ ask.action \notin old.denied /\ (ask.external => before.external)
    BY <1>0, <1>1, <1>2, PolicyType DEF _is_tightening, _profile_tightened
<1>4. CASE before.mode = "AUTO"
    <2>1. Grantable(old, less({}))
        BY <1>1, <1>3, <1>4 DEF Grantable
    <2>. QED
        BY <2>1
<1>5. CASE before.mode # "AUTO"
    <2>1. after.mode # "AUTO" /\ (before.mode = "DUAL_APPROVAL" => after.mode = "DUAL_APPROVAL")
        BY <1>2, <1>5, Ranks DEF _profile_tightened, Modes
    <2>2. Cardinality(ask.approvers) >= Required(new, after.mode)
        BY <1>0, <2>1
    <2>3. Cardinality(ask.approvers) >= Required(old, before.mode)
        BY <1>1, <1>2, <1>5, <2>1, <2>2, PolicyType, FS_CardinalityType DEF Required, Modes
    <2>4. Grantable(old, less(ask.approvers))
        BY <1>1, <1>3, <1>5, <2>3 DEF Grantable
    <2>. QED
        BY <2>4
<1>. QED
    BY <1>4, <1>5

-----------------------------------------------------------------------------
(* The chain.                                                              *)

\* The chain starts with the first policy, and goes on or starts again with each activation.
LEMMA InitInv == Init => IInv
BY DEF Init, IInv, Chained

\* Only an activation touches the policies; one that is not a relaxation continues the chain.
LEMMA NextInv == IInv /\ [Next]_vars => IInv'
<1> SUFFICES ASSUME IInv, [Next]_vars PROVE IInv'
    OBVIOUS
<1>1. ASSUME NEW p \in Policies, NEW approvers, Activate(p, approvers) PROVE IInv'
    <2>1. CASE policy_relation(policy, p) = "RELAXED"
        BY <1>1, <2>1 DEF Activate, IInv, Chained
    <2>2. CASE policy_relation(policy, p) = "SAME"
        BY <1>1, <2>2 DEF Activate, IInv, Chained, policy_relation
    <2>3. CASE policy_relation(policy, p) = "TIGHTENED"
        <3>1. _is_tightening(policy, p) /\ policy' = p /\ base' = base
            BY <1>1, <2>3 DEF Activate, policy_relation
        <3>2. _is_tightening(base, p)
            BY <3>1, TighteningTransitive DEF IInv, Chained
        <3>. QED
            BY <3>1, <3>2 DEF IInv, Chained
    <2>. QED
        BY <1>1, <2>1, <2>2, <2>3 DEF Activate, Activatable, policy_relation
<1>2. ASSUME UNCHANGED <<base, policy>> PROVE IInv'
    BY <1>2 DEF IInv, Chained
<1>. QED
    BY <1>1, <1>2 DEF Next, vars, Authorize, Judge, Run, authorize_with_authorities

-----------------------------------------------------------------------------
\* However long the chain of activations without relaxation approvals, work whose tier is the one
\* its risk falls into is granted nothing that the policy at its start refused, while the quorum is
\* no lower (policy_relation, validate_authorization_decision).
THEOREM NeverSilentlyRelaxed == Spec => []NoSilentRelaxation
<1>1. IInv => NoSilentRelaxation
    <2> SUFFICES ASSUME IInv, policy.quorum >= base.quorum, NEW ask \in Asks, NEW v \in Tiers,
                        Grantable(policy, AtRisk(ask, v, policy))
                 PROVE  \E fewer \in SUBSET ask.approvers :
                            Grantable(base, [AtRisk(ask, v, base) EXCEPT !.approvers = fewer])
        BY DEF NoSilentRelaxation
    <2>1. CASE base = policy
        <3>1. [AtRisk(ask, v, base) EXCEPT !.approvers = ask.approvers] = AtRisk(ask, v, base)
            BY AuthorityAssumption DEF AtRisk
        <3>. QED
            BY <2>1, <3>1
    <2>2. CASE _is_tightening(base, policy)
        BY <2>2, TighteningGrantsLess DEF IInv
    <2>. QED
        BY <2>1, <2>2 DEF IInv, Chained
<1>. QED
    BY <1>1, InitInv, NextInv, PTL DEF Spec

-----------------------------------------------------------------------------
(* Requests held against scopes.                                           *)

\* A rule whose prefix the path starts with has the path's first components for its prefix.
LEMMA PrefixOf ==
    ASSUME NEW path \in Seq(STRING), NEW prefix \in Seq(STRING)
    PROVE  IsPrefix(prefix, path) <=> \E n \in 0..Len(path) : prefix = SubSeq(path, 1, n)
<1>1. SubSeq(prefix, 1, Len(prefix)) = prefix
    OBVIOUS
<1>2. \A n \in 0..Len(path) : Len(SubSeq(path, 1, n)) = n
    OBVIOUS
<1>3. Len(prefix) \in Nat /\ Len(path) \in Nat
    OBVIOUS
<1>4. ASSUME IsPrefix(prefix, path) PROVE \E n \in 0..Len(path) : prefix = SubSeq(path, 1, n)
    <2>1. Len(prefix) \in 0..Len(path) /\ prefix = SubSeq(path, 1, Len(prefix))
        BY <1>1, <1>3, <1>4 DEF IsPrefix
    <2>. QED
        BY <2>1
<1>5. ASSUME NEW n \in 0..Len(path), prefix = SubSeq(path, 1, n) PROVE IsPrefix(prefix, path)
    <2>1. Len(prefix) = n
        BY <1>2, <1>5
    <2>. QED
        BY <1>1, <1>3, <1>5, <2>1 DEF IsPrefix
<1>. QED
    BY <1>4, <1>5

\* A path the scope allows is decided by the longest of its ancestors with a rule.
LEMMA PathDecided ==
    ASSUME NEW scope \in Scopes \cup {Capability}, NEW q \in Requests, NEW fs \in q.fs,
           FilesystemAllowed(scope, fs)
    PROVE  \E n \in 0..Len(fs.path) :
               /\ n = 0 => fs.path = Root
               /\ \E r \in scope.fs : r.prefix = SubSeq(fs.path, 1, n) /\ fs.mode \in r.modes
               /\ \A k \in (n + 1)..Len(fs.path) : \A r \in scope.fs : r.prefix # SubSeq(fs.path, 1, k)
<1>1. PICK best \in RulesFor(scope, fs.path) :
          /\ \A r \in RulesFor(scope, fs.path) : Len(r.prefix) <= Len(best.prefix)
          /\ fs.mode \in best.modes
    BY DEF FilesystemAllowed
<1>2. /\ best \in scope.fs /\ best.prefix \in Seq(STRING) /\ fs.path \in Seq(STRING)
      /\ \A r \in scope.fs : r.prefix \in Seq(STRING)
    BY AuthorityAssumption DEF RulesFor
<1>3. \A r \in scope.fs : \A n \in 1..Len(fs.path) : r.prefix = SubSeq(fs.path, 1, n) =>
          Len(r.prefix) = n /\ r \in RulesFor(scope, fs.path)
    <2> SUFFICES ASSUME NEW r \in scope.fs, NEW n \in 1..Len(fs.path), r.prefix = SubSeq(fs.path, 1, n)
                 PROVE  Len(r.prefix) = n /\ r \in RulesFor(scope, fs.path)
        OBVIOUS
    <2>1. Len(r.prefix) = n /\ n \in 0..Len(fs.path) /\ n > 0
        BY <1>2
    <2>2. r.prefix # Root
        BY <2>1 DEF Root
    <2>3. IsPrefix(r.prefix, fs.path)
        BY <1>2, <2>1, PrefixOf
    <2>. QED
        BY <2>1, <2>2, <2>3 DEF RulesFor
<1>4. PICK n \in 0..Len(fs.path) : best.prefix = SubSeq(fs.path, 1, n)
    <2>1. CASE best.prefix = fs.path
        BY <1>2, <2>1
    <2>2. CASE IsPrefix(best.prefix, fs.path)
        BY <1>2, <2>2, PrefixOf
    <2>. QED
        BY <2>1, <2>2 DEF RulesFor
<1>5. Len(best.prefix) = n
    BY <1>2, <1>4
<1>6. n = 0 => fs.path = Root
    <2>1. SUFFICES ASSUME n = 0 PROVE fs.path = Root
        OBVIOUS
    <2>2. best.prefix = Root
        BY <1>2, <1>5, <2>1 DEF Root
    <2>. QED
        BY <2>2 DEF RulesFor
<1>7. ASSUME NEW k \in (n + 1)..Len(fs.path), NEW r \in scope.fs, r.prefix = SubSeq(fs.path, 1, k)
      PROVE  FALSE
    BY <1>1, <1>2, <1>3, <1>5, <1>7
<1>. QED
    BY <1>1, <1>2, <1>4, <1>6, <1>7

\* The effects on one system stay in sum under the limit the scope has for it.
LEMMA SumWithin ==
    ASSUME NEW scope \in Scopes \cup {Capability}, NEW q \in Requests, NEW i \in DOMAIN q.external,
           ExternalAllowed(scope, q)
    PROVE  \E limit \in {r.max : r \in scope.external} :
               /\ {r.max : r \in {s \in scope.external : s.system = q.external[i].system}} = {limit}
               /\ Sum(q.external, q.external[i].system) <= limit
<1>. DEFINE system == q.external[i].system
            Rules == {r \in scope.external : r.system = system}
<1>1. Sum(q.external, q.external[i].system) = Units(q, q.external[i].system)
    BY Zenon DEF Sum, FoldSeq, FoldFunction, FoldFunctionOnSet, Units, MapThenSumSet, MapThenFoldSet
<1>2. PICK r \in scope.external : r.system = system /\ Units(q, r.system) <= r.max
    BY DEF ExternalAllowed
<1>3. Rules = {r}
    <2>1. IsFiniteSet(Rules) /\ Cardinality(Rules) = 1
        BY AuthorityAssumption, FS_Subset DEF ExternalAllowed
    <2>. QED
        BY <1>2, <2>1, FS_Singleton
<1>. QED
    BY <1>1, <1>2, <1>3

\* Every address known of a host that is dialled was pinned.
LEMMA DialledPinned ==
    ASSUME NEW scope, NEW q \in Requests, NEW n \in q.network, NEW dialled \in {n} \cup n.redirects,
           NetworkAllowed(scope, n, BoundaryIps)
    PROVE  BoundaryIps[dialled.host] \subseteq dialled.ips
BY DEF NetworkAllowed, HostAllowed

\* Without an address known of any host, none is dialled.
LEMMA NothingDialled ==
    ASSUME NEW scope, NEW q \in Requests, NEW n \in q.network, NetworkAllowed(scope, n, [h \in Hosts |-> {}])
    PROVE  FALSE
BY AuthorityAssumption DEF NetworkAllowed, HostAllowed

\* What is granted comes of a request under three declared scopes.
Covered(q, scope) ==
    /\ \A fs \in q.fs : FilesystemAllowed(scope, fs)
    /\ ExternalAllowed(scope, q)
    /\ \A n \in q.network : \A dialled \in {n} \cup n.redirects : BoundaryIps[dialled.host] \subseteq dialled.ips

GrantInv ==
    /\ decision # NoDecision => decision.scope \in Scopes
    /\ \A grant \in granted : /\ grant.request \in Requests /\ grant.scopes \subseteq Scopes \cup {Capability}
                               /\ \A scope \in grant.scopes : Covered(grant.request, scope)

\* Each of the two callers holds the whole request against all three scopes.
LEMMA GrantNext == GrantInv /\ [Next]_vars => GrantInv'
<1> SUFFICES ASSUME GrantInv, [Next]_vars PROVE GrantInv'
    OBVIOUS
<1>1. ASSUME NEW p \in Policies, NEW approvers, Activate(p, approvers) PROVE GrantInv'
    BY <1>1 DEF Activate, GrantInv, Covered
<1>2. ASSUME NEW ask \in Asks, NEW scope \in Scopes, Authorize(ask, scope) PROVE GrantInv'
    BY <1>2 DEF Authorize, GrantInv, Covered
<1>3. ASSUME NEW q \in Requests, NEW lease \in Scopes, Judge(q, lease) PROVE GrantInv'
    <2>1. \A scope \in {Capability, decision.scope, lease} : Covered(q, scope)
        BY <1>3, DialledPinned DEF Judge, authorize_with_authorities, authorized, Covered
    <2>2. {Capability, decision.scope, lease} \subseteq Scopes \cup {Capability}
        BY <1>3 DEF Judge, GrantInv
    <2>. QED
        BY <1>3, <2>1, <2>2 DEF Judge, authorize_with_authorities, GrantInv, Covered
<1>4. ASSUME NEW q \in Requests, NEW lease \in Scopes, Run(q, lease) PROVE GrantInv'
    <2>1. \A scope \in {Capability, decision.scope, lease} : Covered(q, scope)
        BY <1>4, NothingDialled DEF Run, authorize_with_authorities, authorized, Covered
    <2>2. {Capability, decision.scope, lease} \subseteq Scopes \cup {Capability}
        BY <1>4 DEF Run, GrantInv
    <2>. QED
        BY <1>4, <2>1, <2>2 DEF Run, authorize_with_authorities, GrantInv, Covered
<1>5. CASE UNCHANGED vars
    BY <1>5 DEF vars, GrantInv, Covered
<1>. QED
    BY <1>1, <1>2, <1>3, <1>4, <1>5 DEF Next

\* A request is authorized only with each of its paths decided by the longest ruled ancestor, its
\* effects on a system in sum within the one limit, and every dialled address pinned, in each of
\* the capability's, the decision's and the lease's scopes (authorized, authorize_with_authorities).
THEOREM EveryScopeGrants == Spec => []GrantedByEveryScope
<1>1. Init => GrantInv
    BY DEF Init, GrantInv
<1>2. GrantInv => GrantedByEveryScope
    <2> SUFFICES ASSUME GrantInv, NEW grant \in granted, NEW scope \in grant.scopes
                 PROVE  GrantedByEveryScope!(grant)!(scope)
        BY DEF GrantedByEveryScope
    <2>1. scope \in Scopes \cup {Capability} /\ grant.request \in Requests /\ Covered(grant.request, scope)
        BY DEF GrantInv
    <2>2. GrantedByEveryScope!(grant)!(scope)!1
        BY <2>1, PathDecided DEF Covered
    <2>3. GrantedByEveryScope!(grant)!(scope)!2
        BY <2>1, SumWithin DEF Covered
    <2>4. GrantedByEveryScope!(grant)!(scope)!3
        BY <2>1 DEF Covered
    <2>. QED
        BY <2>2, <2>3, <2>4
<1>. QED
    BY <1>1, <1>2, GrantNext, PTL DEF Spec
=============================================================================
