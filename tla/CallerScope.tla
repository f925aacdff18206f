----------------------------- MODULE CallerScope -----------------------------
(***************************************************************************)
(* internal/authz: LocalResolver evaluates in a snapshot what a caller may *)
(* list.  A caller is [name, groups].  Names of users, groups and          *)
(* service accounts are tuples, so that the name under which a service     *)
(* account authenticates is made from its parts; a subject is              *)
(* [kind, ns, name].  A rule is [verbs, apiGroups, resources]; the other   *)
(* fields of a rule are not looked at.                                     *)
(***************************************************************************)
EXTENDS Snapshot

\* knownChecks: the resources whose "list" is evaluated, and their groups.
GroupOf == [clusterroles        |-> "rbac.authorization.k8s.io",
            clusterrolebindings |-> "rbac.authorization.k8s.io",
            roles               |-> "rbac.authorization.k8s.io",
            rolebindings        |-> "rbac.authorization.k8s.io",
            pods                |-> "",
            deployments         |-> "apps"]

Checks == DOMAIN GroupOf
ClusterChecks == {"clusterroles", "clusterrolebindings"}

ServiceAccountUser(ns, name) == <<"system", "serviceaccount", ns, name>>

\* subjectMatches, of one subject
SubjectMatches(caller, subject) ==
    \/ subject.kind = "User" /\ subject.name = caller.name
    \/ subject.kind = "Group" /\ subject.name \in caller.groups
    \/ subject.kind = "ServiceAccount" /\ ServiceAccountUser(subject.ns, subject.name) = caller.name

VerbAllows(verbs, target) == {target, "*"} \cap verbs # {}

RuleCovers(rule, check) == /\ {check, "*"} \cap rule.resources # {}
                           /\ {GroupOf[check], "*"} \cap rule.apiGroups # {}

\* applyRuleGrants: what a role's rules let one list.
Granted(role) ==
    {c \in Checks : \E rule \in role.rules : VerbAllows(rule.verbs, "list") /\ RuleCovers(rule, c)}

\* collectGrants: the namespaces, or Cluster, in which the caller's bindings let it list c.
CollectGrants(s, caller) ==
    LET mine(key) == {b \in s.BindingsByRoleRef[key] : \E u \in b.subjects : SubjectMatches(caller, u)}
        keys == DOMAIN s.BindingsByRoleRef \cap DOMAIN s.RolesByID
    IN  [c \in Checks |-> UNION {{b.ns : b \in mine(k)} : k \in {j \in keys : c \in Granted(s.RolesByID[j])}}]

\* buildScope and filterNamespaces: for each check the namespaces, or Cluster for all.
BuildScope(s, caller, namespacesToCheck) ==
    LET grants == CollectGrants(s, caller) IN
    [c \in Checks |-> IF Cluster \in grants[c] THEN {Cluster}
                      ELSE IF c \in ClusterChecks THEN {} ELSE grants[c] \cap namespacesToCheck]

IsUnrestricted(scope) == \A c \in Checks : scope[c] = {Cluster}

\* allowNS
AllowNS(scope, clusterCheck, check, ns) ==
    IF ns = Cluster THEN Cluster \in scope[clusterCheck]
    ELSE {Cluster, ns} \cap scope[check] # {}

AllowRole(scope, ns)     == AllowNS(scope, "clusterroles", "roles", ns)
AllowBinding(scope, ns)  == AllowNS(scope, "clusterrolebindings", "rolebindings", ns)
AllowPod(scope, ns)      == ns # Cluster /\ AllowNS(scope, "pods", "pods", ns)
AllowWorkload(scope, ns) == ns # Cluster /\ AllowNS(scope, "deployments", "deployments", ns)

Everywhere == Namespaces \cup {Cluster}

\* Create with --enforce-caller-scope: an unrestricted caller gets the snapshot as it is.
ScopedFor(s, scope) ==
    IF IsUnrestricted(scope) THEN s
    ELSE Scoped(s, {ns \in Everywhere : AllowRole(scope, ns)},
                   {ns \in Everywhere : AllowBinding(scope, ns)},
                   {ns \in Everywhere : AllowPod(scope, ns)},
                   {ns \in Everywhere : AllowWorkload(scope, ns)})

-----------------------------------------------------------------------------
\* What Kubernetes lets a caller list among these objects: resource c in namespace ns,
\* or in the whole cluster.
MayList(objects, caller, c, ns) ==
    \E b \in objects.bindings, r \in objects.roles :
        /\ b.ns \in {Cluster, ns}
        /\ \E u \in b.subjects : SubjectMatches(caller, u)
        /\ r.kind = b.roleRef.kind /\ r.name = b.roleRef.name /\ r.ns \in {Cluster, b.ns}
        /\ \E rule \in r.rules : VerbAllows(rule.verbs, "list") /\ RuleCovers(rule, c)
=============================================================================
