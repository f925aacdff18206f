---------------------------- MODULE MCRoleSearch ----------------------------
(* Instances of RoleSearch for TLC. *)
EXTENDS RoleSearch

MCLowerOf == [Pods |-> "pods", GET |-> "get"]

Core == <<"core">>

ResourceRule(resources, verbs, names) ==
    [groups |-> {Core}, resources |-> resources, verbs |-> verbs, names |-> names, urls |-> {}]

URLRule(urls, verbs) ==
    [groups |-> {}, resources |-> {}, verbs |-> verbs, names |-> {}, urls |-> urls]

MCRules ==
    {ResourceRule(R, {v}, {}) :
        R \in {{<<"pods">>}, {<<"Pods">>}, {Star}, {<<"pods", "exec">>}, {<<"pods", "*">>},
               {<<"*", "exec">>}, {<<"secrets">>, <<"pods", "exec">>}},
        v \in {<<"get">>, <<"GET">>, <<"list">>, Star}}
    \cup {ResourceRule({<<"secrets">>}, {<<"get">>, <<"list">>}, N) : N \in {{"n1"}, {"n1", "n2"}}}
    \cup {URLRule({u}, {<<"get">>}) : u \in {<<"/metrics", "*">>, <<"/metrics", "/cpu">>, Star}}

MCRoles == {{r, s} : r, s \in MCRules}

\* Few roles, for the statements of the documentation.
MCFewRoles ==
    {{r} : r \in MCRules} \cup
    {{ResourceRule({<<"pods">>}, {<<"get">>}, {}), ResourceRule({Star}, {<<"list">>}, {})}}

Select(resources, verbs, names, urls) ==
    [groups |-> {}, resources |-> resources, verbs |-> verbs, names |-> names, urls |-> urls]

MCSelectors ==
    {Select(R, V, {}, {}) :
        R \in {{}, {<<"pods">>}, {Star}, {<<"pods", "exec">>}, {<<"secrets">>, <<"Pods">>}},
        V \in {{}, {<<"get">>}, {Star}, {<<"GET">>, <<"list">>}}}
    \cup {Select({<<"secrets">>}, {}, N, {}) : N \in {{"n1"}, {"n1", "n2"}}}
    \cup {Select(R, {}, {}, {u}) : R \in {{}, {<<"pods">>}},
                                   u \in {<<"/metrics", "/cpu">>, <<"/metrics">>, <<"/metrics", "*">>}}
    \cup {[Select({<<"pods">>}, {<<"get">>}, {}, {}) EXCEPT !.groups = G] :
            G \in {{Core}, {<<"apps">>}, {Core, <<"apps">>}, {Star}}}
=============================================================================
