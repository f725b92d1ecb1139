------------------------------ MODULE Authority ------------------------------
(***************************************************************************)
(* Who may do what: policies activated one after the other, authorization  *)
(* decisions validated under the active one, and requested effects judged  *)
(* under the worker's attested capability, the decision's scope and the    *)
(* lease's scope.                                                          *)
(*                                                                         *)
(* A policy is abstracted to the parts a decision depends on; the ordered  *)
(* fields no decision depends on (retention of excerpts, egress, budgets,  *)
(* telemetry ...) are one number, rest, that may only fall.  Paths are     *)
(* sequences of components, the root being the empty one.                  *)
(***************************************************************************)
EXTENDS Integers, Sequences, FiniteSets, FiniteSetsExt, SequencesExt

CONSTANTS
    Policies,        \* policies: [floor, ttl, denied, profile, raise, quorum, rest]
    Asks,            \* what may be asked for: [action, tier, node, ttl, external, approvers]
    Principals,
    Governors,       \* principals whose signed relaxation approvals are on record
    GovernanceQuorum,\* approvals a relaxation needs
    Capability,      \* the scope the worker is attested for
    Scopes,          \* scopes a decision or a lease may carry
    Requests,        \* requested effects
    Hosts, BoundaryIps, \* addresses of a host, as a caller that resolves names knows them
    MaxActivations, MaxGrants, \* bounds: policies activated, requests authorized
    NoDecision

Tiers == 1..2
Modes == {"AUTO", "HUMAN_APPROVAL", "DUAL_APPROVAL"}
_AUTH_RANK == [m \in Modes |-> CASE m = "AUTO" -> 0 [] m = "HUMAN_APPROVAL" -> 1 [] OTHER -> 2]
Root == <<>>

ASSUME AuthorityAssumption ==
    /\ GovernanceQuorum \in Nat \ {0} /\ Governors \subseteq Principals
    /\ \A p \in Policies :
           /\ p.quorum \in Nat \ {0} /\ p.ttl \in Nat /\ p.raise \in Tiers /\ p.rest \in Nat
           /\ p.profile \in [Tiers -> [mode : Modes, external : BOOLEAN]]
    /\ \A ask \in Asks :
           /\ ask \in [action : {ask.action}, tier : Tiers, node : Tiers, ttl : Nat, external : BOOLEAN,
                        approvers : SUBSET Principals]
           /\ IsFiniteSet(ask.approvers)
    /\ \A scope \in Scopes \cup {Capability} :
           /\ \A r \in scope.fs : r.prefix \in Seq(STRING)
           /\ IsFiniteSet(scope.external)
    /\ \A q \in Requests :
           /\ \A fs \in q.fs : fs.path \in Seq(STRING)
           /\ \A n \in q.network : n.host \in Hosts /\ \A hop \in n.redirects : hop.host \in Hosts
    /\ BoundaryIps \in [Hosts -> SUBSET Nat]

VARIABLES
    base,       \* the policy before any relaxation, or the one last relaxed to
    policy,     \* the active policy
    activations,
    decision,   \* the decision in force: [ask, scope], or NoDecision
    granted     \* requests found authorized, with the scopes they were held against

vars == <<base, policy, activations, decision, granted>>

Init ==
    /\ policy \in Policies /\ base = policy /\ activations = 0
    /\ decision = NoDecision /\ granted = {}

-----------------------------------------------------------------------------
(* Policies.                                                               *)

SetMax(a, b) == IF a >= b THEN a ELSE b

\* classify_risk: the highest dimension, raised by the floor rules of the mapping.
classify_risk(v, p) == SetMax(v, p.raise)

_profile_tightened(old, new) ==
    /\ _AUTH_RANK[new.mode] >= _AUTH_RANK[old.mode]
    /\ (new.external => old.external)

\* A bug to be caught: the profiles of each tier are compared, and not the tiers work falls into.
RiskByTier(old, new) == \A t \in Tiers : _profile_tightened(old.profile[t], new.profile[t])

\* No risk vector falls into a lower tier, or into a tier with a weaker profile.
_risk_mapping_tightened(old, new) ==
    \A v \in Tiers :
        /\ classify_risk(v, new) >= classify_risk(v, old)
        /\ _profile_tightened(old.profile[classify_risk(v, old)], new.profile[classify_risk(v, new)])

\* Approval quorums are no part of the comparison.
_is_tightening(old, new) ==
    /\ _risk_mapping_tightened(old, new)
    /\ new.ttl <= old.ttl /\ old.denied \subseteq new.denied /\ new.rest <= old.rest

policy_relation(old, new) ==
    IF old.floor # new.floor THEN "UNSUPPORTED_CHANGE"
    ELSE IF old = new THEN "SAME"
    ELSE IF _is_tightening(old, new) THEN "TIGHTENED" ELSE "RELAXED"

\* validate_policy_activation_event: a relaxation needs the governance quorum of principals, every
\* approval signed and of the kind POLICY_RELAXATION.
Activatable(old, new, approvers) ==
    /\ policy_relation(old, new) # "UNSUPPORTED_CHANGE"
    /\ policy_relation(old, new) = "RELAXED" =>
           Cardinality(approvers) >= GovernanceQuorum /\ approvers \subseteq Governors

\* POLICY_ACTIVATED; leases of another policy version are revoked, and a policy that names the same
\* version as the one before it leaves them alone, whatever else it changes.
Activate(new, approvers) ==
    /\ activations < MaxActivations /\ Activatable(policy, new, approvers)
    /\ policy' = new /\ activations' = activations + 1
    /\ decision' \in {decision, NoDecision}
    /\ base' = IF policy_relation(policy, new) = "RELAXED" THEN new ELSE base
    /\ UNCHANGED granted

-----------------------------------------------------------------------------
(* Decisions.                                                              *)

\* Approvals a mode asks for; AUTO takes none.
Required(p, mode) == IF mode = "HUMAN_APPROVAL" THEN 1 ELSE p.quorum

\* validate_authorization_decision, for what the policy has a say in: not denied, short enough, and
\* approved as the profile asks.  The tier is the one the decision claims, whatever its risk; that of
\* the worker's node, given by whoever submitted the graph, must have the same profile, for the
\* frontiers of the two are compared.
Grantable(p, ask) ==
    LET profile == p.profile[ask.tier] IN
    /\ p.profile[ask.node] = profile
    /\ ask.ttl <= p.ttl /\ ask.action \notin p.denied
    /\ (ask.external => profile.external)
    /\ IF profile.mode = "AUTO" THEN ask.approvers = {}
       ELSE Cardinality(ask.approvers) >= Required(p, profile.mode)

Authorize(ask, scope) ==
    /\ decision = NoDecision /\ Grantable(policy, ask) /\ (scope.external # {} => ask.external)
    /\ decision' = [ask |-> ask, scope |-> scope]
    /\ UNCHANGED <<base, policy, activations, granted>>

-----------------------------------------------------------------------------
(* Scopes.                                                                 *)

\* The filesystem rules for a path; a rule for the root is one for the root alone.
RulesFor(scope, path) == {r \in scope.fs : r.prefix = path \/ (r.prefix # Root /\ IsPrefix(r.prefix, path))}

\* The most specific rule decides.
FilesystemAllowed(scope, fs) ==
    \E r \in RulesFor(scope, fs.path) :
        /\ \A q \in RulesFor(scope, fs.path) : Len(q.prefix) <= Len(r.prefix)
        /\ fs.mode \in r.modes

\* Exactly one rule for executable and arguments, inside the working directory, children listed.
ProcessAllowed(scope, p) ==
    /\ Cardinality({r \in scope.process : r.exe = p.exe}) = 1
    /\ IsPrefix(scope.cwd, p.cwd)
    /\ \A r \in scope.process : r.exe = p.exe => p.children \subseteq r.children

\* Rules for the host, TLS where one of them asks for it, and every address known of it (there is
\* one) both pinned by the request and allowed.
HostAllowed(scope, n, ips) ==
    LET rules == {r \in scope.network : r.host = n.host} IN
    /\ rules # {} /\ ((\E r \in rules : r.tls) => n.tls)
    /\ ips[n.host] # {} /\ ips[n.host] \subseteq n.ips
    /\ \A ip \in ips[n.host] : \E r \in rules : ip \in r.ips

\* Redirects only where a rule of the first host allows them, each held to the rules of its own.
NetworkAllowed(scope, n, ips) ==
    /\ HostAllowed(scope, n, ips)
    /\ n.redirects # {} => \E r \in scope.network : r.host = n.host /\ r.redirects
    /\ \A hop \in n.redirects : HostAllowed(scope, hop, ips)

\* Units a request asks of a system, over all the effects it lists.
Units(q, system) ==
    MapThenSumSet(LAMBDA i : IF q.external[i].system = system THEN q.external[i].units ELSE 0, DOMAIN q.external)

\* A bug to be caught: each effect is held against the limit by itself.
ExternalOneByOne(scope, q) ==
    \A i \in DOMAIN q.external :
        \E r \in scope.external : r.system = q.external[i].system /\ q.external[i].units <= r.max

\* The units of a request add up, and exactly one rule names the system.
ExternalAllowed(scope, q) ==
    \A i \in DOMAIN q.external :
        /\ Cardinality({r \in scope.external : r.system = q.external[i].system}) = 1
        /\ \E r \in scope.external : r.system = q.external[i].system /\ Units(q, r.system) <= r.max

authorized(q, scope, ips) ==
    /\ \A fs \in q.fs : FilesystemAllowed(scope, fs)
    /\ \A p \in q.process : ProcessAllowed(scope, p)
    /\ \A n \in q.network : NetworkAllowed(scope, n, ips)
    /\ q.env \subseteq scope.env /\ q.credentials \subseteq scope.credentials
    /\ ExternalAllowed(scope, q) /\ q.budget <= scope.budget

\* Capability, decision and lease each allow the whole request.
authorize_with_authorities(q, scopes, ips) ==
    /\ Cardinality(granted) < MaxGrants
    /\ \A scope \in scopes : authorized(q, scope, ips)
    /\ granted' = granted \cup {[request |-> q, scopes |-> scopes]}
    /\ UNCHANGED <<base, policy, activations, decision>>

\* A caller of the reference function that knows addresses.
Judge(q, lease) ==
    decision # NoDecision /\ authorize_with_authorities(q, {Capability, decision.scope, lease}, BoundaryIps)

\* _preflight: exactly one process, and no address is known of any host.
Run(q, lease) ==
    /\ decision # NoDecision /\ Cardinality(q.process) = 1
    /\ authorize_with_authorities(q, {Capability, decision.scope, lease}, [h \in Hosts |-> {}])

Next ==
    \/ \E p \in Policies, approvers \in SUBSET Principals : Activate(p, approvers)
    \/ \E ask \in Asks, scope \in Scopes : Authorize(ask, scope)
    \/ \E q \in Requests, lease \in Scopes : Judge(q, lease)
    \/ \E q \in Requests, lease \in Scopes : Run(q, lease)
Spec == Init /\ [][Next]_vars

-----------------------------------------------------------------------------
\* The ask when decision and node bear the tier that work of a risk falls into.
AtRisk(ask, v, p) == [ask EXCEPT !.tier = classify_risk(v, p), !.node = classify_risk(v, p)]

\* However long the chain of policies activated without relaxation approvals, work whose tier is the
\* one its risk falls into is granted nothing that the policy at its start refused, but for the
\* approvals a stricter profile asks for, as long as its quorum has not been lowered on the way:
\* quorums are not compared.  Of work that claims a tier no risk falls into it says nothing: the
\* profiles of those tiers are not compared either (_risk_mapping_tightened).
NoSilentRelaxation ==
    policy.quorum >= base.quorum =>
        \A ask \in Asks, v \in Tiers : Grantable(policy, AtRisk(ask, v, policy)) =>
            \E fewer \in SUBSET ask.approvers :
                Grantable(base, [AtRisk(ask, v, base) EXCEPT !.approvers = fewer])

\* The units of the effects on a system in a list of them.
Sum(effects, system) == FoldSeq(LAMBDA e, sum : (IF e.system = system THEN e.units ELSE 0) + sum, 0, effects)

\* Nothing authorized gets past one of its three scopes: each path is decided by the longest of its ancestors
\* with a rule there, the root's rule deciding the root alone; however the effects on one system are
\* listed they stay in sum under the one limit the scope has for it; and every address dialled, of a
\* redirect as of the first host, was pinned.
GrantedByEveryScope ==
    \A grant \in granted : \A scope \in grant.scopes :
        /\ \A fs \in grant.request.fs :
               \E n \in 0..Len(fs.path) :
                   /\ n = 0 => fs.path = Root
                   /\ \E r \in scope.fs : r.prefix = SubSeq(fs.path, 1, n) /\ fs.mode \in r.modes
                   /\ \A k \in (n + 1)..Len(fs.path) : \A r \in scope.fs : r.prefix # SubSeq(fs.path, 1, k)
        /\ \A i \in DOMAIN grant.request.external : \E limit \in {r.max : r \in scope.external} :
               /\ {r.max : r \in {s \in scope.external : s.system = grant.request.external[i].system}} = {limit}
               /\ Sum(grant.request.external, grant.request.external[i].system) <= limit
        /\ \A n \in grant.request.network : \A dialled \in {n} \cup n.redirects :
               BoundaryIps[dialled.host] \subseteq dialled.ips
=============================================================================
