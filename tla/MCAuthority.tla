---------------------------- MODULE MCAuthority ----------------------------
EXTENDS Authority, TLC

CONSTANTS ann, bob, mail, disk, host1, host2

Auto == [mode |-> "AUTO", external |-> TRUE]
Human == [mode |-> "HUMAN_APPROVAL", external |-> TRUE]
Dual == [mode |-> "DUAL_APPROVAL", external |-> FALSE]

\* Two tiers, each with a weaker and a stricter profile, lifted or not; a denied action, a floor of
\* its own, a shorter authorization, and a quorum lowered without a relaxation once each.
MCPolicies ==
    [floor : {"sdk"}, ttl : {2}, denied : {{}}, profile : {<<a, b>> : a \in {Auto, Human}, b \in {Human, Dual}},
     raise : 1..2, quorum : {2}, rest : {0}]
    \cup [floor : {"sdk"}, ttl : {2}, denied : {{"WRITE"}}, raise : {1}, quorum : {2}, rest : {0}, profile : {<<Auto, Human>>}]
    \cup [floor : {"other"}, ttl : {2}, denied : {{}}, raise : {1}, quorum : {1}, rest : {0}, profile : {<<Auto, Auto>>}]
    \cup [floor : {"sdk"}, ttl : {1, 2}, denied : {{}}, raise : {1}, quorum : {1}, rest : {1}, profile : {<<Dual, Dual>>}]
MCAsks ==
    [action : {"WRITE"}, tier : 1..2, node : 1..2, ttl : {2}, external : BOOLEAN,
     approvers : {{}, {ann}, {ann, bob}}]
    \cup [action : {"READ"}, tier : {1}, node : {1}, ttl : {1}, external : {FALSE}, approvers : {{}, {ann, bob}}]
\* The policy of a behaviour in which this part is at rest.
FirstPolicy == CHOOSE p \in MCPolicies : TRUE

Scope(fs, ext, net) ==
    [fs |-> fs, process |-> {[exe |-> "make", children |-> {"cc"}]}, cwd |-> <<"src">>, network |-> net,
     env |-> {"HOME"}, credentials |-> {}, external |-> ext, budget |-> 2]
Dir(p, ms) == [prefix |-> p, modes |-> ms]
Limit(s, n) == [system |-> s, max |-> n]
Net(h, ips, tls, redirects) == [host |-> h, ips |-> ips, tls |-> tls, redirects |-> redirects]

MCCapability == Scope({Dir(<<"src">>, {"READ", "WRITE"}), Dir(<<"doc">>, {"READ"})},
                      {Limit(mail, 3), Limit(disk, 3)}, {Net(host1, {1, 2}, TRUE, TRUE), Net(host2, {3}, FALSE, FALSE)})
MCScopes ==
    {Scope({Dir(<<"src">>, {"READ", "WRITE"}), Dir(<<"src", "vendor">>, {"READ"})}, {Limit(mail, 2)},
           {Net(host1, {1}, TRUE, TRUE), Net(host2, {3}, FALSE, FALSE)}),
     Scope({Dir(Root, {"READ", "WRITE"}), Dir(<<"src">>, {"READ"}), Dir(<<"src", "vendor">>, {"WRITE"})}, {}, {}),
     Scope({Dir(<<"src">>, {"READ"})}, {Limit(mail, 1), Limit(mail, 2)}, {Net(host1, {1, 2}, FALSE, FALSE)})}

Request(fs, proc, net, ext) ==
    [fs |-> fs, process |-> proc, network |-> net, env |-> {}, credentials |-> {}, external |-> ext, budget |-> 1]
At(p, m) == [path |-> p, mode |-> m]
Send(s, n) == [system |-> s, units |-> n]
Dial(h, ips, tls, hops) == [host |-> h, ips |-> ips, tls |-> tls, redirects |-> hops]
Make(cs) == [exe |-> "make", cwd |-> <<"src", "main">>, children |-> cs]
MCRequests ==
    {Request({At(p, m)}, {Make({})}, {}, <<>>) : p \in {Root, <<"src", "main">>, <<"src", "vendor", "lib">>},
                                         m \in {"READ", "WRITE"}}
    \cup {Request({}, {}, {}, ext) : ext \in {<<Send(mail, 1)>>, <<Send(mail, 1), Send(mail, 1)>>,
                                              <<Send(mail, 2), Send(mail, 1)>>, <<Send(disk, 1)>>}}
    \cup {Request({}, {Make(cs)}, {}, <<>>) : cs \in {{"cc"}, {"sh"}}}
    \cup {Request({}, {}, {Dial(host1, ips, tls, hops)}, <<>>) : ips \in {{1}, {1, 2}}, tls \in BOOLEAN,
              hops \in {{}, {Dial(host2, {3}, FALSE, {})}, {Dial(host2, {2}, FALSE, {})}}}

MCBoundaryIps == (host1 :> {1}) @@ (host2 :> {3})
=============================================================================
