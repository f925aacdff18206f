------------------------------ MODULE MCReview ------------------------------
(* Instances of Review for TLC: the ClusterRole "view", which aggregates "part", *)
(* the Role "local" of namespace n1, a pod in each namespace, one of them owned, *)
(* and bindings of the two callers and of others. *)
EXTENDS Review

CONSTANTS n1, n2, n1padded

MCPadded == [w \in {n1padded} |-> n1]

User(name)      == [kind |-> "User", ns |-> Cluster, name |-> <<name>>]
GroupNamed(g)   == [kind |-> "Group", ns |-> Cluster, name |-> <<g>>]
Account(ns, sa) == [kind |-> "ServiceAccount", ns |-> ns, name |-> sa]

MCCallers == {[name |-> <<"alice">>, groups |-> {<<"devs">>}],
              [name |-> ServiceAccountUser(n1, <<"default">>), groups |-> {}]}

Mine == {GroupNamed("devs"), Account(n1, <<"default">>)}
Others == {User("bob"), Account(n2, <<"default">>)}

Binding(name, ns, kind, role, subjects) ==
    [kind |-> IF ns = Cluster THEN "ClusterRoleBinding" ELSE "RoleBinding", ns |-> ns,
     name |-> name, roleRef |-> [kind |-> kind, name |-> role], subjects |-> subjects]

Rbac == "rbac.authorization.k8s.io"
Rule(group, resources) == [verbs |-> {"get", "list"}, apiGroups |-> {group}, resources |-> resources]

MCRules ==
    {{[verbs |-> {"*"}, apiGroups |-> {"*"}, resources |-> {"*"}]},
     {Rule(Rbac, {"roles", "rolebindings"}), Rule("", {"deployments"})},
     {Rule(Rbac, {"clusterroles", "rolebindings"}), Rule("", {"pods"})}}

MCBindings ==
    {{Binding("crb", Cluster, "ClusterRole", "view", Mine)},
     {Binding("rb1", n1, "ClusterRole", "view", {User("alice"), Account(n1, <<"default">>)}),
      Binding("crb", Cluster, "ClusterRole", "view", Others)},
     {Binding("rb2", n2, "ClusterRole", "view", Others), Binding("rbl", n1, "Role", "local", Mine)},
     {Binding("crb", Cluster, "ClusterRole", "view", Others), Binding("rb2", n2, "ClusterRole", "gone", Mine),
      Binding("crl", Cluster, "ClusterRole", "part", Mine)}}

Role(kind, ns, name, rules, selects) ==
    [kind |-> kind, ns |-> ns, name |-> name, rules |-> rules, selects |-> selects]

World(rules, bindings) ==
    [roles     |-> {Role("ClusterRole", Cluster, "view", rules, {"view", "part"}),
                    Role("ClusterRole", Cluster, "part", {Rule(Rbac, {"clusterroles"})}, {}),
                    Role("Role", n1, "local", {Rule(Rbac, {"roles", "rolebindings"})}, {})},
     bindings  |-> bindings,
     pods      |-> {[uid |-> "p1", ns |-> n1, sa |-> <<"default">>, owner |-> {"w1"}],
                    [uid |-> "p2", ns |-> n2, sa |-> NoName, owner |-> {"w3"}]},
     workloads |-> {[uid |-> "w1", ns |-> n1, owner |-> {"w2"}],
                    [uid |-> "w2", ns |-> n1, owner |-> {}],
                    [uid |-> NoUID, ns |-> n2, owner |-> {}]}]

MCWorlds == {World(r, b) : r \in MCRules, b \in MCBindings}
=============================================================================
