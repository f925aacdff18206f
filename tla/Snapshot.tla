------------------------------- MODULE Snapshot -------------------------------
(***************************************************************************)
(* How a rebuild turns the objects of the informers' stores into a         *)
(* Snapshot (internal/indexer/snapshot_build.go) and how a snapshot is cut *)
(* down to what a caller may list (internal/indexer/scoped.go).            *)
(*                                                                         *)
(* The objects are a record of four sets.                                  *)
(*   roles      [kind, ns, name, rules, selects]: Roles and ClusterRoles;  *)
(*              selects names the ClusterRoles that the aggregationRule    *)
(*              selects (the module Aggregation says which)                *)
(*   bindings   [kind, ns, name, roleRef, subjects]                        *)
(*   pods       [uid, ns, sa, owner]                                       *)
(*   workloads  [uid, ns, owner], of all kinds                             *)
(* Owner is a set of at most one UID, the reference that                   *)
(* chooseOwnerReference prefers (the module RuntimeChain says which).      *)
(* Labels, annotations, phases, known gaps and warnings are left out, and  *)
(* so are the token index (RoleSearch) and the order of the lists.         *)
(***************************************************************************)
EXTENDS NamespaceScope

CONSTANTS
    NoName,      \* the empty service account name
    NoUID        \* the empty UID

DefaultServiceAccountName == <<"default">>

\* A map from the keys of the elements of S to the elements with that key.
Group(S, key) == [k \in {key[x] : x \in S} |-> {x \in S : key[x] = k}]

NonEmpty(m) == [k \in {j \in DOMAIN m : m[j] # {}} |-> m[k]]

-----------------------------------------------------------------------------
RecID(kind, ns, name) == <<kind, ns, name>>

NormalizeServiceAccountName(sa) == IF sa = NoName THEN DefaultServiceAccountName ELSE sa

\* Mutant: the namespace is left out of the key of a Role.
RoleRefKey_NoNamespace(b) == RecID(b.roleRef.kind, Cluster, b.roleRef.name)

\* indexBindingRecord: a binding in a namespace refers to a Role of that namespace.
RoleRefKey(b) ==
    RecID(b.roleRef.kind,
          IF b.ns # Cluster /\ b.roleRef.kind = "Role" THEN b.ns ELSE Cluster,
          b.roleRef.name)

\* indexRoles, indexClusterRoles, indexRoleRecord
IndexRoles(roles) ==
    [id \in {RecID(r.kind, r.ns, r.name) : r \in roles} |->
        CHOOSE r \in roles : id = RecID(r.kind, r.ns, r.name)]

\* indexAggregatedClusterRoles: a ClusterRole is not its own source.
IndexSources(roles) ==
    LET sources(r) == {RecID(s.kind, s.ns, s.name) : s \in {x \in roles :
                          x.kind = "ClusterRole" /\ x.name \in r.selects \ {r.name}}}
    IN  NonEmpty([id \in DOMAIN IndexRoles(roles) |-> sources(IndexRoles(roles)[id])])

IndexBindings(bindings) == Group(bindings, [b \in bindings |-> RoleRefKey(b)])

IndexPods(pods) == Group(pods, [p \in pods |-> <<p.ns, NormalizeServiceAccountName(p.sa)>>])

\* indexWorkload: an object without a UID is left out.
IndexWorkloads(workloads) ==
    [u \in {w.uid : w \in workloads} \ {NoUID} |-> CHOOSE w \in workloads : w.uid = u]

\* Indexer.rebuild
BuildSnapshot(objects) ==
    [RolesByID             |-> IndexRoles(objects.roles),
     AggregatedRoleSources |-> IndexSources(objects.roles),
     BindingsByRoleRef     |-> IndexBindings(objects.bindings),
     PodsByServiceAccount  |-> IndexPods(objects.pods),
     WorkloadsByUID        |-> IndexWorkloads(objects.workloads)]

NoObjects == [roles |-> {}, bindings |-> {}, pods |-> {}, workloads |-> {}]

-----------------------------------------------------------------------------
\* What is kept of a snapshot: the namespaces (Cluster among them) of which roles,
\* bindings, pods and workloads may be seen.  A source stays if it and its target stay.
Scoped(s, roleNss, bindingNss, podNss, workloadNss) ==
    LET kept == {id \in DOMAIN s.RolesByID : s.RolesByID[id].ns \in roleNss}
        In(m, nss) == NonEmpty([k \in DOMAIN m |-> {x \in m[k] : x.ns \in nss}])
    IN  [RolesByID             |-> [id \in kept |-> s.RolesByID[id]],
         AggregatedRoleSources |->
             NonEmpty([id \in DOMAIN s.AggregatedRoleSources \cap kept |->
                          s.AggregatedRoleSources[id] \cap kept]),
         BindingsByRoleRef     |-> In(s.BindingsByRoleRef, bindingNss),
         PodsByServiceAccount  |-> In(s.PodsByServiceAccount, podNss),
         WorkloadsByUID        |->
             [u \in {v \in DOMAIN s.WorkloadsByUID : s.WorkloadsByUID[v].ns \in workloadNss} |->
                 s.WorkloadsByUID[u]]]
=============================================================================
