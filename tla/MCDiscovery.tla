----------------------------- MODULE MCDiscovery -----------------------------
(* Instances of Discovery for TLC. *)
EXTENDS Discovery

Pods == <<"pods">>
Exec == <<"pods", "exec">>
Roles == <<"roles">>

Core == {<<"core", Pods, "get">>, <<"core", Pods, "list">>, <<"core", Exec, "create">>}
Rbac == {<<"rbac", Roles, "get">>, <<"rbac", Roles, "update">>}
Extra == {<<"metrics", Pods, "get">>}

MCServed == {Core \cup Rbac, Core \cup Rbac \cup Extra, Core \cup Extra}

Select(g, r, v) == [groups |-> g, resources |-> r, verbs |-> v]

MCSelectors ==
    {Select({}, {}, {}), Select({"core"}, {Pods}, {"get"}), Select({"core"}, {Exec}, {}),
     Select({"metrics"}, {Pods}, {"get"}), Select({"core"}, {Roles, Pods}, {}),
     Select({"*"}, {Roles}, {"update"}), Select({"rbac", "core"}, {AnyResource}, {"*"})}

Ref(g, r, v) == [group |-> g, resource |-> r, verb |-> v]

MCRefs ==
    {Ref(g, r, v) : g \in {"core", "metrics", "*"}, v \in {"get", "*"},
        r \in {Pods, Exec, Roles, <<"pods", "log">>, AnyResource, <<"*", "exec">>}}

\* Every reference for the empty selector, and what the other selectors ask for.
MCRequests ==
    ({Select({}, {}, {})} \X MCRefs) \cup
    {x \in MCSelectors \X {Ref(g, r, "get") : g \in {"core", "metrics"}, r \in {Pods, Exec, Roles}} :
        x[1].resources # {} /\ (x[2].resource \in x[1].resources \/ AnyResource \in x[1].resources)}
=============================================================================
