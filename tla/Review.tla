------------------------------- MODULE Review -------------------------------
(***************************************************************************)
(* One RoleGraphReview request (internal/registry/rolegraphreview/rest.go) *)
(* while the indexer publishes snapshots.  With --enforce-caller-scope the *)
(* answer is restricted to what the caller may list: Create loads the      *)
(* snapshot to show, and Resolve loads the snapshot again to evaluate the  *)
(* caller's permissions in it, so the two may differ.                      *)
(*                                                                         *)
(* The history holds the objects from which the snapshots were built.  The *)
(* selector is empty, so it matches every rule, and pods and workloads are *)
(* asked for, in every phase and below the limits.                         *)
(***************************************************************************)
EXTENDS Naturals, Sequences, CallerScope

CONSTANTS
    Worlds,       \* the objects that snapshots are built from
    Callers,
    MaxPublished  \* bound: snapshots published

\* What the API server stores: names are unique, a ClusterRoleBinding refers to a
\* ClusterRole, pods and workloads have a namespace, and their owners have the same.
ASSUME WorldsAssumption ==
    \A w \in Worlds :
        /\ \A r \in w.roles : r.ns \in Everywhere /\ r.kind = IF r.ns = Cluster THEN "ClusterRole" ELSE "Role"
        /\ \A r, q \in w.roles : RecID(r.kind, r.ns, r.name) = RecID(q.kind, q.ns, q.name) => r = q
        /\ \A b \in w.bindings : b.ns \in Everywhere /\ (b.ns = Cluster => b.roleRef.kind = "ClusterRole")
        /\ \A p \in w.pods : p.ns \in Namespaces
        /\ \A x \in w.workloads : x.ns \in Namespaces
        /\ \A x, y \in w.workloads : x.uid = y.uid /\ x.uid # NoUID => x = y
        /\ \A x \in w.pods \cup w.workloads, y \in w.workloads : y.uid \in x.owner => x.ns = y.ns

ASSUME MaxPublishedAssumption == MaxPublished \in Nat

VARIABLES
    history,      \* the objects of the snapshots published so far, the last one current
    request,      \* namespaces as written, strict; and the caller
    enforced,     \* --enforce-caller-scope
    pc,           \* Create is before this step
    shownAt,      \* position in history of the snapshot to show
    grantsAt,     \* position in history of the snapshot with the permissions
    toCheck,      \* namespacesToCheck
    scope,        \* AccessScope
    answer        \* what the graph of the answer shows

vars == <<history, request, enforced, pc, shownAt, grantsAt, toCheck, scope, answer>>

Published(i) == BuildSnapshot(history[i])

\* collectNamespacesFromSnapshot: the namespaces that the snapshot mentions, cut down to
\* those of the request if it has any.  They are compared as they are written.
CollectNamespaces(s, written) ==
    LET InMap(m) == UNION {{x.ns : x \in m[k]} : k \in DOMAIN m}
        all == {s.RolesByID[id].ns : id \in DOMAIN s.RolesByID} \cup InMap(s.BindingsByRoleRef)
               \cup {key[1] : key \in DOMAIN s.PodsByServiceAccount}
               \cup {s.WorkloadsByUID[u].ns : u \in DOMAIN s.WorkloadsByUID}
    IN  IF written = {} THEN all \ {Cluster} ELSE (all \ {Cluster}) \cap written

-----------------------------------------------------------------------------
(* What Engine.Query shows of a snapshot. *)

At(m, key) == IF key \in DOMAIN m THEN m[key] ELSE {}

MaxOwnerDepth == 8

\* The workloads that are reached from these owner references.
WorkloadChain(s, owners) ==
    LET found == DOMAIN s.WorkloadsByUID
        named[n \in 0 .. MaxOwnerDepth - 1] ==
            IF n = 0 THEN owners
            ELSE named[n - 1] \cup UNION {s.WorkloadsByUID[u].owner : u \in named[n - 1] \cap found}
    IN  named[MaxOwnerDepth - 1] \cap found

\* Roles with their sources, the bindings reached from them, the pods that run as the
\* service accounts among the subjects of those, and the workloads that own the pods.
Query(s, req) ==
    LET filter == MakeFilter(req.namespaces)
        bound(id) == FilterBindings(filter, req.strict, At(s.BindingsByRoleRef, id))
        matched == {id \in DOMAIN s.RolesByID :
                       /\ s.RolesByID[id].rules # {}
                       /\ AllowNamespace(filter, s.RolesByID[id].ns, FALSE)
                       /\ ~(req.strict /\ s.RolesByID[id].ns = Cluster /\ bound(id) = {})}
        bindings == UNION {bound(id) : id \in matched}
        accounts == UNION {{<<IF u.ns = Cluster THEN b.ns ELSE u.ns, u.name>> :
                                u \in {v \in b.subjects : v.kind = "ServiceAccount"}} : b \in bindings}
        pods == UNION {At(s.PodsByServiceAccount, a) :
                           a \in {x \in accounts : /\ x[1] # Cluster
                                                   /\ AllowNamespace(filter, x[1], req.strict)}}
    IN  [roles     |-> matched \cup ((UNION {At(s.AggregatedRoleSources, id) : id \in matched})
                                     \cap DOMAIN s.RolesByID),
         bindings  |-> bindings,
         pods      |-> pods,
         workloads |-> WorkloadChain(s, UNION {p.owner : p \in pods})]

-----------------------------------------------------------------------------
NoScope == [c \in Checks |-> {}]
Nothing == [roles |-> {}, bindings |-> {}, pods |-> {}, workloads |-> {}]
Requests == [namespaces : SUBSET Written, strict : BOOLEAN, caller : Callers]

Init ==
    /\ history = <<NoObjects>>
    /\ request \in Requests
    /\ enforced \in BOOLEAN
    /\ pc = "validate"
    /\ shownAt = 0 /\ grantsAt = 0
    /\ toCheck = {} /\ scope = NoScope /\ answer = Nothing

\* The indexer stores another snapshot.
Publish ==
    /\ Len(history) <= MaxPublished
    /\ \E w \in Worlds : history' = Append(history, w)
    /\ UNCHANGED <<request, enforced, pc, shownAt, grantsAt, toCheck, scope, answer>>

\* The specification and the selector are valid, or the request is refused.
Validate ==
    /\ pc = "validate"
    /\ pc' \in {"load", "refused"}
    /\ UNCHANGED <<history, request, enforced, shownAt, grantsAt, toCheck, scope, answer>>

\* Mutant: the namespaces to check are those of the request alone.
LoadSnapshot_RequestOnly ==
    /\ pc = "load"
    /\ shownAt' = Len(history)
    /\ IF enforced
       THEN /\ toCheck' = request.namespaces \ {Blank}
            /\ pc' \in {"resolve", "refused"}
       ELSE /\ pc' = "query"
            /\ UNCHANGED toCheck
    /\ UNCHANGED <<history, request, enforced, grantsAt, scope, answer>>

\* Create takes the current snapshot.  A request without user information cannot
\* be scoped and fails.
LoadSnapshot ==
    /\ pc = "load"
    /\ shownAt' = Len(history)
    /\ IF enforced
       THEN /\ toCheck' = CollectNamespaces(Published(shownAt'), request.namespaces)
            /\ pc' \in {"resolve", "refused"}
       ELSE /\ pc' = "query"
            /\ UNCHANGED toCheck
    /\ UNCHANGED <<history, request, enforced, grantsAt, scope, answer>>

\* Mutant: the permissions come from a snapshot kept from before the request.
Resolve_Cached ==
    /\ pc = "resolve"
    /\ grantsAt' \in 1 .. shownAt
    /\ scope' = BuildScope(Published(grantsAt'), request.caller, toCheck)
    /\ pc' = "query"
    /\ UNCHANGED <<history, request, enforced, shownAt, toCheck, answer>>

\* LocalResolver.Resolve takes the snapshot that is current by now.
Resolve ==
    /\ pc = "resolve"
    /\ grantsAt' = Len(history)
    /\ scope' = BuildScope(Published(grantsAt'), request.caller, toCheck)
    /\ pc' = "query"
    /\ UNCHANGED <<history, request, enforced, shownAt, toCheck, answer>>

\* The query runs on the scoped snapshot.
Answer ==
    /\ pc = "query"
    /\ answer' = Query(IF enforced THEN ScopedFor(Published(shownAt), scope) ELSE Published(shownAt),
                       request)
    /\ pc' = "answered"
    /\ UNCHANGED <<history, request, enforced, shownAt, grantsAt, toCheck, scope>>

Next == Publish \/ Validate \/ LoadSnapshot \/ Resolve \/ Answer

Spec == Init /\ [][Next]_vars

-----------------------------------------------------------------------------
(* Properties. *)

TypeOK ==
    /\ Len(history) \in 1 .. MaxPublished + 1
    /\ request \in Requests
    /\ enforced \in BOOLEAN
    /\ pc \in {"validate", "load", "resolve", "query", "answered", "refused"}
    /\ shownAt \in 0 .. Len(history) /\ grantsAt \in 0 .. Len(history)
    /\ toCheck \subseteq Namespaces
    /\ \A c \in Checks : scope[c] \subseteq Namespaces \/ scope[c] = {Cluster}

Answered == pc = "answered"

MayListIn(i, c, ns) == MayList(history[i], request.caller, c, ns)

MayListRole(i, ns)    == MayListIn(i, IF ns = Cluster THEN "clusterroles" ELSE "roles", ns)
MayListBinding(i, ns) == MayListIn(i, IF ns = Cluster THEN "clusterrolebindings" ELSE "rolebindings", ns)

\* app/start.go:77: results are restricted "to RBAC objects the caller has
\* permission to list".  The permission is one that Kubernetes gives with the objects of
\* some single snapshot, and one no older than the snapshot shown: a permission that was
\* withdrawn before the data was read is not used.  Workloads count as deployments.
ShownIsListable ==
    Answered /\ enforced =>
        \E i \in shownAt .. Len(history) :
            /\ \A id \in answer.roles : MayListRole(i, id[2])
            /\ \A b \in answer.bindings : MayListBinding(i, b.ns)
            /\ \A p \in answer.pods : MayListIn(i, "pods", p.ns)
            /\ \A w \in history[shownAt].workloads :
                  w.uid \in answer.workloads => MayListIn(i, "deployments", w.ns)

\* Permissions are evaluated only in namespaces that the snapshot mentions and the
\* request names.  That shortcut hides nothing: the answer is that of a query over
\* everything the caller may list.  It holds when the request's namespaces are
\* written without spaces (collectNamespacesFromSnapshot does not trim them,
\* makeNamespaceFilter does).
NothingListableIsHidden ==
    Answered /\ enforced /\ request.namespaces \subseteq Namespaces =>
        LET Listable(c) == {ns \in Namespaces : MayListIn(grantsAt, c, ns)}
        IN  answer = Query(Scoped(Published(shownAt),
                                  {ns \in Everywhere : MayListRole(grantsAt, ns)},
                                  {ns \in Everywhere : MayListBinding(grantsAt, ns)},
                                  Listable("pods"), Listable("deployments")),
                           request)
=============================================================================
