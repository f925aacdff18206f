----------------------------- MODULE ReviewProofs -----------------------------
(***************************************************************************)
(* Theorems about Review, for any objects, callers and requests, and any   *)
(* number of snapshots published while a request is under way.             *)
(***************************************************************************)
EXTENDS Review, TLAPS

\* What WorldsAssumption says of one set of objects.
WorldOK(w) ==
    /\ \A r \in w.roles : r.ns \in Everywhere /\ r.kind = IF r.ns = Cluster THEN "ClusterRole" ELSE "Role"
    /\ \A r, q \in w.roles : RecID(r.kind, r.ns, r.name) = RecID(q.kind, q.ns, q.name) => r = q
    /\ \A b \in w.bindings : b.ns \in Everywhere /\ (b.ns = Cluster => b.roleRef.kind = "ClusterRole")
    /\ \A p \in w.pods : p.ns \in Namespaces
    /\ \A x \in w.workloads : x.ns \in Namespaces
    /\ \A x, y \in w.workloads : x.uid = y.uid /\ x.uid # NoUID => x = y
    /\ \A x \in w.pods \cup w.workloads, y \in w.workloads : y.uid \in x.owner => x.ns = y.ns

HistoryOK ==
    /\ history \in Seq(Worlds \cup {NoObjects})
    /\ Len(history) \in 1 .. MaxPublished + 1
    /\ \A i \in DOMAIN history : WorldOK(history[i])

RequestOK == request \in Requests /\ enforced \in BOOLEAN

\* The two loads: the snapshot to show comes first, and neither is undone.
LoadsOK ==
    /\ pc \in {"validate", "load", "resolve", "query", "answered", "refused"}
    /\ shownAt \in 0 .. Len(history) /\ grantsAt \in 0 .. Len(history)
    /\ pc \in {"resolve", "query", "answered"} => shownAt >= 1
    /\ pc = "resolve" => enforced
    /\ toCheck \subseteq Namespaces

\* The scope is that of the permissions of one snapshot, no older than the one shown.
ScopeOK ==
    IF pc \in {"query", "answered"} /\ enforced
    THEN /\ grantsAt >= shownAt
         /\ scope = BuildScope(Published(grantsAt), request.caller, toCheck)
    ELSE scope = NoScope

ToCheckOK ==
    pc \in {"resolve", "query", "answered"} /\ enforced =>
        toCheck = CollectNamespaces(Published(shownAt), request.namespaces)

AnswerOK ==
    pc = "answered" =>
        answer = Query(IF enforced THEN ScopedFor(Published(shownAt), scope) ELSE Published(shownAt),
                       request)

Inv == HistoryOK /\ RequestOK /\ LoadsOK /\ ScopeOK /\ ToCheckOK /\ AnswerOK

-----------------------------------------------------------------------------
(* The snapshot. *)

\* Each set of objects that a snapshot is built from is in order.
LEMMA WorldsOK == \A w \in Worlds \cup {NoObjects} : WorldOK(w)
BY WorldsAssumption DEF WorldOK, NoObjects

\* A role is found under its key.
LEMMA BuiltRoles ==
    ASSUME NEW w
    PROVE  /\ DOMAIN BuildSnapshot(w).RolesByID = {RecID(r.kind, r.ns, r.name) : r \in w.roles}
           /\ \A id \in DOMAIN BuildSnapshot(w).RolesByID :
                 /\ BuildSnapshot(w).RolesByID[id] \in w.roles
                 /\ id = RecID(BuildSnapshot(w).RolesByID[id].kind, BuildSnapshot(w).RolesByID[id].ns,
                               BuildSnapshot(w).RolesByID[id].name)
BY DEF BuildSnapshot, IndexRoles

\* Bindings are found under the key of the role they refer to.
LEMMA BuiltBindings ==
    ASSUME NEW w
    PROVE  /\ DOMAIN BuildSnapshot(w).BindingsByRoleRef = {RoleRefKey(b) : b \in w.bindings}
           /\ \A k \in DOMAIN BuildSnapshot(w).BindingsByRoleRef :
                 BuildSnapshot(w).BindingsByRoleRef[k] = {b \in w.bindings : RoleRefKey(b) = k}
BY DEF BuildSnapshot, IndexBindings, Group

PodKey(p) == <<p.ns, NormalizeServiceAccountName(p.sa)>>

\* Pods are found under their service account.
LEMMA BuiltPods ==
    ASSUME NEW w
    PROVE  /\ DOMAIN BuildSnapshot(w).PodsByServiceAccount = {PodKey(p) : p \in w.pods}
           /\ \A k \in DOMAIN BuildSnapshot(w).PodsByServiceAccount :
                 BuildSnapshot(w).PodsByServiceAccount[k] = {p \in w.pods : PodKey(p) = k}
BY DEF BuildSnapshot, IndexPods, Group, PodKey

\* A workload is found under its UID.
LEMMA BuiltWorkloads ==
    ASSUME NEW w
    PROVE  /\ DOMAIN BuildSnapshot(w).WorkloadsByUID = {x.uid : x \in w.workloads} \ {NoUID}
           /\ \A u \in DOMAIN BuildSnapshot(w).WorkloadsByUID :
                 /\ BuildSnapshot(w).WorkloadsByUID[u] \in w.workloads
                 /\ BuildSnapshot(w).WorkloadsByUID[u].uid = u
BY DEF BuildSnapshot, IndexWorkloads

\* The namespaces that a snapshot mentions are namespaces.
LEMMA CollectedNamespaces ==
    ASSUME NEW w, WorldOK(w), NEW written
    PROVE  CollectNamespaces(BuildSnapshot(w), written) \subseteq Namespaces
<1> DEFINE s == BuildSnapshot(w)
           bound == UNION {{x.ns : x \in s.BindingsByRoleRef[k]} : k \in DOMAIN s.BindingsByRoleRef}
<1>1. {s.RolesByID[id].ns : id \in DOMAIN s.RolesByID} \subseteq Everywhere
    BY BuiltRoles DEF WorldOK
<1>2. bound \subseteq Everywhere
  <2>1. \A k \in DOMAIN s.BindingsByRoleRef : \A x \in s.BindingsByRoleRef[k] : x.ns \in Everywhere
      BY BuiltBindings DEF WorldOK
  <2> HIDE DEF s
  <2> QED BY <2>1
<1>3. {key[1] : key \in DOMAIN s.PodsByServiceAccount} \subseteq Everywhere
    BY BuiltPods DEF PodKey, WorldOK, Everywhere
<1>4. {s.WorkloadsByUID[u].ns : u \in DOMAIN s.WorkloadsByUID} \subseteq Everywhere
    BY BuiltWorkloads DEF WorldOK, Everywhere
<1> HIDE DEF s
<1>5. CollectNamespaces(s, written) \subseteq
          ({s.RolesByID[id].ns : id \in DOMAIN s.RolesByID} \cup bound
           \cup {key[1] : key \in DOMAIN s.PodsByServiceAccount}
           \cup {s.WorkloadsByUID[u].ns : u \in DOMAIN s.WorkloadsByUID}) \ {Cluster}
    BY DEF CollectNamespaces
<1> HIDE DEF bound
<1> QED BY <1>1, <1>2, <1>3, <1>4, <1>5 DEF s, Everywhere

\* A scope lists namespaces, or the whole cluster.
LEMMA ScopeType ==
    ASSUME NEW s, NEW caller, NEW nss \in SUBSET Namespaces, NEW c \in Checks
    PROVE  BuildScope(s, caller, nss)[c] \subseteq Namespaces \/ BuildScope(s, caller, nss)[c] = {Cluster}
BY DEF BuildScope

-----------------------------------------------------------------------------
\* A request that has just come.
LEMMA InitInv == Init => Inv
<1> SUFFICES ASSUME Init PROVE Inv
    OBVIOUS
<1>1. HistoryOK
    BY WorldsOK, MaxPublishedAssumption DEF Init, HistoryOK
<1>2. RequestOK /\ LoadsOK /\ ScopeOK /\ ToCheckOK /\ AnswerOK
    BY DEF Init, RequestOK, LoadsOK, ScopeOK, ToCheckOK, AnswerOK
<1> QED BY <1>1, <1>2 DEF Inv

\* Another snapshot: those published before stay what they are.
LEMMA PublishKeeps == Inv /\ Publish => Inv'
<1> SUFFICES ASSUME Inv, Publish PROVE Inv'
    OBVIOUS
<1> USE DEF Inv
<1>1. PICK w \in Worlds : history' = Append(history, w)
    BY DEF Publish
<1>2. UNCHANGED <<request, enforced, pc, shownAt, grantsAt, toCheck, scope, answer>>
    BY DEF Publish
<1>3. /\ Len(history') = Len(history) + 1
      /\ Len(history) \in Nat /\ DOMAIN history = 1 .. Len(history)
      /\ DOMAIN history' = 1 .. Len(history) + 1
      /\ \A i \in DOMAIN history : history'[i] = history[i]
      /\ history'[Len(history) + 1] = w
    BY <1>1 DEF HistoryOK
<1>4. \A i \in DOMAIN history : i \in DOMAIN history' /\ Published(i)' = Published(i)
    BY <1>3 DEF Published
<1>5. HistoryOK'
    BY <1>1, <1>3, WorldsOK, MaxPublishedAssumption DEF HistoryOK, Publish
<1>6. RequestOK' /\ LoadsOK'
    BY <1>2, <1>3 DEF RequestOK, LoadsOK
<1>7. ScopeOK'
    BY <1>2, <1>3, <1>4 DEF ScopeOK, LoadsOK
<1>8. ToCheckOK' /\ AnswerOK'
    BY <1>2, <1>3, <1>4 DEF ToCheckOK, AnswerOK, LoadsOK
<1> QED BY <1>5, <1>6, <1>7, <1>8

\* The steps of the request, and stuttering.
LEMMA RequestKeeps ==
    Inv /\ (Validate \/ LoadSnapshot \/ Resolve \/ Answer \/ UNCHANGED vars) => Inv'
<1> SUFFICES ASSUME Inv, Validate \/ LoadSnapshot \/ Resolve \/ Answer \/ UNCHANGED vars PROVE Inv'
    OBVIOUS
<1> USE DEF Inv
<1>1. history' = history /\ UNCHANGED <<request, enforced>>
    BY DEF Validate, LoadSnapshot, Resolve, Answer, vars
<1>2. \A i : Published(i)' = Published(i)
    BY <1>1 DEF Published
<1>3. HistoryOK' /\ RequestOK'
    BY <1>1 DEF HistoryOK, RequestOK, WorldOK
<1>4. Len(history) \in Nat /\ Len(history) >= 1 /\ DOMAIN history = 1 .. Len(history)
    BY MaxPublishedAssumption DEF HistoryOK
<1>5. CASE Validate
    BY <1>1, <1>2, <1>3, <1>5 DEF Validate, LoadsOK, ScopeOK, ToCheckOK, AnswerOK
<1>6. CASE LoadSnapshot
  <2>1. WorldOK(history[Len(history)])
      BY <1>4 DEF HistoryOK
  <2>2. toCheck' \subseteq Namespaces
      BY <1>2, <1>6, <2>1, CollectedNamespaces DEF LoadSnapshot, LoadsOK, Published
  <2>3. LoadsOK'
      BY <1>1, <1>4, <1>6, <2>2 DEF LoadSnapshot, LoadsOK
  <2>4. ToCheckOK' /\ AnswerOK'
      BY <1>1, <1>2, <1>6 DEF LoadSnapshot, ToCheckOK, AnswerOK
  <2>5. ScopeOK'
      BY <1>1, <1>2, <1>6 DEF LoadSnapshot, ScopeOK
  <2> QED BY <1>3, <2>3, <2>4, <2>5
<1>7. CASE Resolve
  <2>1. LoadsOK' /\ ToCheckOK' /\ AnswerOK'
      BY <1>1, <1>2, <1>4, <1>7 DEF Resolve, LoadsOK, ToCheckOK, AnswerOK
  <2>2. ScopeOK'
      BY <1>1, <1>2, <1>4, <1>7 DEF Resolve, LoadsOK, ScopeOK
  <2> QED BY <1>3, <2>1, <2>2
<1>8. CASE Answer
  <2>1. LoadsOK' /\ ToCheckOK' /\ ScopeOK'
      BY <1>1, <1>2, <1>8 DEF Answer, LoadsOK, ToCheckOK, ScopeOK
  <2>2. AnswerOK'
      BY <1>1, <1>2, <1>8 DEF Answer, AnswerOK
  <2> QED BY <1>3, <2>1, <2>2
<1>9. CASE UNCHANGED vars
    BY <1>1, <1>2, <1>3, <1>9 DEF vars, LoadsOK, ScopeOK, ToCheckOK, AnswerOK
<1> QED BY <1>5, <1>6, <1>7, <1>8, <1>9

\* So the invariant always holds.
LEMMA InvHolds == Spec => []Inv
<1>1. Inv /\ [Next]_vars => Inv'
    BY PublishKeeps, RequestKeeps DEF Next
<1> QED BY InitInv, <1>1, PTL DEF Spec

-----------------------------------------------------------------------------
(* What the caller may list. *)

\* A grant that is collected from a snapshot is one that Kubernetes gives.
LEMMA GrantIsPermission ==
    ASSUME NEW w, WorldOK(w), NEW caller, NEW c \in Checks,
           NEW n \in CollectGrants(BuildSnapshot(w), caller)[c], NEW ns \in {n} \cup (IF n = Cluster THEN Everywhere ELSE {})
    PROVE  MayList(w, caller, c, ns)
<1> DEFINE s == BuildSnapshot(w)
<1>0. PICK k \in DOMAIN s.BindingsByRoleRef \cap DOMAIN s.RolesByID :
          /\ c \in Granted(s.RolesByID[k])
          /\ \E b \in s.BindingsByRoleRef[k] :
                (\E u \in b.subjects : SubjectMatches(caller, u)) /\ b.ns = n
    BY DEF CollectGrants
<1>1. PICK b \in s.BindingsByRoleRef[k] :
          (\E u \in b.subjects : SubjectMatches(caller, u)) /\ b.ns = n
    BY <1>0
<1> DEFINE r == s.RolesByID[k]
<1>2. r \in w.roles /\ k = RecID(r.kind, r.ns, r.name)
    BY BuiltRoles
<1>3. b \in w.bindings /\ RoleRefKey(b) = k
    BY <1>1, BuiltBindings
<1>4. r.kind = b.roleRef.kind /\ r.name = b.roleRef.name /\ r.ns \in {Cluster, b.ns}
    BY <1>2, <1>3 DEF RoleRefKey, RecID
<1>5. \E rule \in r.rules : VerbAllows(rule.verbs, "list") /\ RuleCovers(rule, c)
    BY <1>0 DEF Granted
<1> HIDE DEF r
<1>6. b.ns \in {Cluster, ns}
    BY <1>1
<1> QED BY <1>1, <1>2, <1>3, <1>4, <1>5, <1>6 DEF MayList

\* What a scope allows, its caller may list.
LEMMA AllowedIsPermission ==
    ASSUME NEW w, WorldOK(w), NEW caller, NEW nss \in SUBSET Namespaces, NEW ns \in Everywhere,
           NEW c1 \in ClusterChecks, NEW c2 \in Checks,
           AllowNS(BuildScope(BuildSnapshot(w), caller, nss), c1, c2, ns)
    PROVE  MayList(w, caller, IF ns = Cluster THEN c1 ELSE c2, ns)
<1> DEFINE c == IF ns = Cluster THEN c1 ELSE c2
           grants == CollectGrants(BuildSnapshot(w), caller)
<1>1. c \in Checks
    BY DEF Checks, ClusterChecks, GroupOf
<1>2. Cluster \notin Namespaces
    BY NamesAssumption
<1>3. {Cluster, ns} \cap BuildScope(BuildSnapshot(w), caller, nss)[c] # {}
    BY DEF AllowNS
<1>4. \E n \in grants[c] : n \in {Cluster, ns}
  <2> HIDE DEF c, grants
  <2>1. BuildScope(BuildSnapshot(w), caller, nss)[c] =
            IF Cluster \in grants[c] THEN {Cluster}
            ELSE IF c \in ClusterChecks THEN {} ELSE grants[c] \cap nss
      BY <1>1 DEF BuildScope, grants
  <2> QED BY <1>3, <2>1
<1> HIDE DEF c
<1> QED BY <1>1, <1>4, GrantIsPermission DEF c, Everywhere

-----------------------------------------------------------------------------
(* What a scoped snapshot holds, and what a query shows of a snapshot. *)

\* What a caller without restrictions is allowed.
LEMMA UnrestrictedAllows ==
    ASSUME NEW sc, IsUnrestricted(sc), NEW ns
    PROVE  /\ AllowRole(sc, ns) /\ AllowBinding(sc, ns)
           /\ ns # Cluster => AllowPod(sc, ns) /\ AllowWorkload(sc, ns)
<1>1. \A c \in {"clusterroles", "roles", "clusterrolebindings", "rolebindings", "pods", "deployments"} :
          sc[c] = {Cluster}
    BY DEF IsUnrestricted, Checks, GroupOf
<1> QED BY <1>1 DEF AllowRole, AllowBinding, AllowPod, AllowWorkload, AllowNS

\* Every role of the snapshot that a caller is shown is allowed.
LEMMA ScopedRoles ==
    ASSUME NEW w, WorldOK(w), NEW sc, NEW id \in DOMAIN ScopedFor(BuildSnapshot(w), sc).RolesByID
    PROVE  id[2] \in Everywhere /\ AllowRole(sc, id[2])
<1>1. \A i \in DOMAIN BuildSnapshot(w).RolesByID :
          BuildSnapshot(w).RolesByID[i].ns = i[2] /\ i[2] \in Everywhere
    BY BuiltRoles DEF RecID, WorldOK
<1>2. CASE IsUnrestricted(sc)
    BY <1>1, <1>2, UnrestrictedAllows DEF ScopedFor
<1>3. CASE ~IsUnrestricted(sc)
    BY <1>1, <1>3 DEF ScopedFor, Scoped
<1> QED BY <1>2, <1>3

\* So is every binding,
LEMMA ScopedBindings ==
    ASSUME NEW w, WorldOK(w), NEW sc,
           NEW k \in DOMAIN ScopedFor(BuildSnapshot(w), sc).BindingsByRoleRef,
           NEW b \in ScopedFor(BuildSnapshot(w), sc).BindingsByRoleRef[k]
    PROVE  b.ns \in Everywhere /\ AllowBinding(sc, b.ns)
<1>1. \A i \in DOMAIN BuildSnapshot(w).BindingsByRoleRef :
          \A x \in BuildSnapshot(w).BindingsByRoleRef[i] : x.ns \in Everywhere
    BY BuiltBindings DEF WorldOK
<1>2. CASE IsUnrestricted(sc)
    BY <1>1, <1>2, UnrestrictedAllows DEF ScopedFor
<1>3. CASE ~IsUnrestricted(sc)
    BY <1>1, <1>3 DEF ScopedFor, Scoped, NonEmpty
<1> QED BY <1>2, <1>3

\* every pod
LEMMA ScopedPods ==
    ASSUME NEW w, WorldOK(w), NEW sc,
           NEW k \in DOMAIN ScopedFor(BuildSnapshot(w), sc).PodsByServiceAccount,
           NEW p \in ScopedFor(BuildSnapshot(w), sc).PodsByServiceAccount[k]
    PROVE  p.ns \in Namespaces /\ AllowPod(sc, p.ns)
<1>0. \A i \in DOMAIN BuildSnapshot(w).PodsByServiceAccount :
          \A x \in BuildSnapshot(w).PodsByServiceAccount[i] : x.ns \in Namespaces
    BY BuiltPods DEF WorldOK
<1>1. Cluster \notin Namespaces
    BY NamesAssumption
<1>2. CASE IsUnrestricted(sc)
    BY <1>0, <1>1, <1>2, UnrestrictedAllows DEF ScopedFor
<1>3. CASE ~IsUnrestricted(sc)
    BY <1>0, <1>3 DEF ScopedFor, Scoped, NonEmpty
<1> QED BY <1>2, <1>3

\* and every workload.
LEMMA ScopedWorkloads ==
    ASSUME NEW w, WorldOK(w), NEW sc,
           NEW x \in w.workloads, x.uid \in DOMAIN ScopedFor(BuildSnapshot(w), sc).WorkloadsByUID
    PROVE  x.ns \in Namespaces /\ AllowWorkload(sc, x.ns)
<1>0. DOMAIN ScopedFor(BuildSnapshot(w), sc).WorkloadsByUID \subseteq DOMAIN BuildSnapshot(w).WorkloadsByUID
    BY DEF ScopedFor, Scoped
<1>1. BuildSnapshot(w).WorkloadsByUID[x.uid] = x
    BY <1>0, BuiltWorkloads DEF WorldOK
<1>2. x.ns \in Namespaces /\ Cluster \notin Namespaces
    BY NamesAssumption DEF WorldOK
<1>3. CASE IsUnrestricted(sc)
    BY <1>2, <1>3, UnrestrictedAllows
<1>4. CASE ~IsUnrestricted(sc)
    BY <1>1, <1>2, <1>4 DEF ScopedFor, Scoped
<1> QED BY <1>3, <1>4

\* A query shows what its snapshot holds.
LEMMA QueryShows ==
    ASSUME NEW s, NEW req
    PROVE  /\ Query(s, req).roles \subseteq DOMAIN s.RolesByID
           /\ \A b \in Query(s, req).bindings : \E k \in DOMAIN s.BindingsByRoleRef : b \in s.BindingsByRoleRef[k]
           /\ \A p \in Query(s, req).pods : \E k \in DOMAIN s.PodsByServiceAccount : p \in s.PodsByServiceAccount[k]
           /\ Query(s, req).workloads \subseteq DOMAIN s.WorkloadsByUID
<1> DEFINE filter == MakeFilter(req.namespaces)
           bound(id) == FilterBindings(filter, req.strict, At(s.BindingsByRoleRef, id))
           matched == {id \in DOMAIN s.RolesByID :
                          /\ s.RolesByID[id].rules # {}
                          /\ AllowNamespace(filter, s.RolesByID[id].ns, FALSE)
                          /\ ~(req.strict /\ s.RolesByID[id].ns = Cluster /\ bound(id) = {})}
           bindings == UNION {bound(id) : id \in matched}
           accounts == UNION {{<<IF u.ns = Cluster THEN b.ns ELSE u.ns, u.name>> :
                                   u \in {v \in b.subjects : v.kind = "ServiceAccount"}} : b \in bindings}
           running == {x \in accounts : /\ x[1] # Cluster
                                        /\ AllowNamespace(filter, x[1], req.strict)}
           pods == UNION {At(s.PodsByServiceAccount, a) : a \in running}
           sources == (UNION {At(s.AggregatedRoleSources, id) : id \in matched}) \cap DOMAIN s.RolesByID
           roles == matched \cup sources
           workloads == WorkloadChain(s, UNION {p.owner : p \in pods})
<1>1. Query(s, req) = [roles |-> roles, bindings |-> bindings, pods |-> pods, workloads |-> workloads]
    BY DEF Query
<1>2. matched \subseteq DOMAIN s.RolesByID
    OBVIOUS
<1>3. \A b \in bindings : \E k \in DOMAIN s.BindingsByRoleRef : b \in s.BindingsByRoleRef[k]
  <2>1. \A id : \A b \in bound(id) : id \in DOMAIN s.BindingsByRoleRef /\ b \in s.BindingsByRoleRef[id]
      BY DEF FilterBindings, At
  <2> HIDE DEF bound, matched
  <2> QED BY <2>1
<1>4. roles \subseteq DOMAIN s.RolesByID
  <2>1. sources \subseteq DOMAIN s.RolesByID
    <3> HIDE DEF matched
    <3> QED OBVIOUS
  <2> HIDE DEF matched, sources
  <2> QED BY <1>2, <2>1
<1> HIDE DEF matched, bindings, running, roles
<1>5. \A p \in pods : \E k \in DOMAIN s.PodsByServiceAccount : p \in s.PodsByServiceAccount[k]
    BY DEF At
<1> HIDE DEF pods
<1>6. workloads \subseteq DOMAIN s.WorkloadsByUID
    BY DEF WorkloadChain
<1> HIDE DEF workloads
<1> QED BY <1>1, <1>3, <1>4, <1>5, <1>6

-----------------------------------------------------------------------------
(* The theorems. *)

\* The namespaces of a scope are namespaces, whatever has been published meanwhile.
THEOREM ReviewTypeOK == Spec => []TypeOK
<1>1. Inv => TypeOK
  <2> SUFFICES ASSUME Inv PROVE TypeOK
      OBVIOUS
  <2>1. \A c \in Checks : scope[c] \subseteq Namespaces \/ scope[c] = {Cluster}
    <3>1. CASE scope = NoScope
        BY <3>1 DEF NoScope
    <3>2. CASE scope = BuildScope(Published(grantsAt), request.caller, toCheck)
        BY <3>2, ScopeType DEF Inv, LoadsOK
    <3> QED BY <3>1, <3>2 DEF Inv, ScopeOK
  <2> QED BY <2>1 DEF Inv, TypeOK, HistoryOK, RequestOK, LoadsOK
<1> QED BY <1>1, InvHolds, PTL

\* What is shown, the caller may list with the permissions of one snapshot, which is no
\* older than what is shown.
THEOREM ShownMayBeListed == Spec => []ShownIsListable
<1>1. Inv => ShownIsListable
  <2> SUFFICES ASSUME Inv, Answered, enforced PROVE ShownIsListable
      BY DEF ShownIsListable
  <2> DEFINE g == history[grantsAt]
             w == history[shownAt]
             s == ScopedFor(BuildSnapshot(w), scope)
  <2>1. /\ grantsAt \in shownAt .. Len(history)
        /\ shownAt \in DOMAIN history /\ grantsAt \in DOMAIN history
      BY DEF Inv, Answered, ScopeOK, LoadsOK, HistoryOK
  <2>2. scope = BuildScope(BuildSnapshot(g), request.caller, toCheck) /\ toCheck \in SUBSET Namespaces
      BY DEF Inv, Answered, ScopeOK, LoadsOK, Published
  <2>3. answer = Query(s, request)
      BY DEF Inv, Answered, AnswerOK, Published
  <2>4. WorldOK(g) /\ WorldOK(w)
      BY <2>1 DEF Inv, HistoryOK
  <2>5. \A ns \in Everywhere : AllowRole(scope, ns) => MayListRole(grantsAt, ns)
      BY <2>2, <2>4, AllowedIsPermission DEF AllowRole, MayListRole, MayListIn, ClusterChecks, Checks, GroupOf
  <2>6. \A ns \in Everywhere : AllowBinding(scope, ns) => MayListBinding(grantsAt, ns)
      BY <2>2, <2>4, AllowedIsPermission DEF AllowBinding, MayListBinding, MayListIn, ClusterChecks, Checks, GroupOf
  <2>7. \A ns \in Namespaces : AllowPod(scope, ns) => MayListIn(grantsAt, "pods", ns)
    <3> TAKE ns \in Namespaces
    <3> HAVE AllowPod(scope, ns)
    <3>1. ns \in Everywhere /\ ns # Cluster
        BY NamesAssumption DEF Everywhere
    <3>2. AllowNS(scope, "clusterroles", "pods", ns)
        BY <3>1 DEF AllowPod, AllowNS
    <3> QED BY <2>2, <2>4, <3>1, <3>2, AllowedIsPermission DEF MayListIn, ClusterChecks, Checks, GroupOf
  <2>8. \A ns \in Namespaces : AllowWorkload(scope, ns) => MayListIn(grantsAt, "deployments", ns)
    <3> TAKE ns \in Namespaces
    <3> HAVE AllowWorkload(scope, ns)
    <3>1. ns \in Everywhere /\ ns # Cluster
        BY NamesAssumption DEF Everywhere
    <3>2. AllowNS(scope, "clusterroles", "deployments", ns)
        BY <3>1 DEF AllowWorkload, AllowNS
    <3> QED BY <2>2, <2>4, <3>1, <3>2, AllowedIsPermission DEF MayListIn, ClusterChecks, Checks, GroupOf
  <2>9. \A id \in answer.roles : MayListRole(grantsAt, id[2])
      BY <2>3, <2>4, <2>5, QueryShows, ScopedRoles
  <2>10. \A b \in answer.bindings : MayListBinding(grantsAt, b.ns)
      BY <2>3, <2>4, <2>6, QueryShows, ScopedBindings
  <2>11. \A p \in answer.pods : MayListIn(grantsAt, "pods", p.ns)
      BY <2>3, <2>4, <2>7, QueryShows, ScopedPods
  <2>12. \A x \in w.workloads : x.uid \in answer.workloads => MayListIn(grantsAt, "deployments", x.ns)
      BY <2>3, <2>4, <2>8, QueryShows, ScopedWorkloads
  <2> QED BY <2>1, <2>9, <2>10, <2>11, <2>12 DEF ShownIsListable
<1> QED BY <1>1, InvHolds, PTL

-----------------------------------------------------------------------------
(* Nothing is hidden: two ways to scope a snapshot that agree on what a request may *)
(* reach give the same answer. *)

\* s holds what p holds in these namespaces.
Holds(s, p, roleNss, bindingNss, podNss, workloadNss) ==
    /\ \A id : id \in DOMAIN s.RolesByID <=> id \in DOMAIN p.RolesByID /\ p.RolesByID[id].ns \in roleNss
    /\ \A id \in DOMAIN s.RolesByID : s.RolesByID[id] = p.RolesByID[id]
    /\ \A id, x : x \in At(s.AggregatedRoleSources, id) <=>
                     x \in At(p.AggregatedRoleSources, id) /\ {id, x} \subseteq DOMAIN s.RolesByID
    /\ \A k, b : b \in At(s.BindingsByRoleRef, k) <=> b \in At(p.BindingsByRoleRef, k) /\ b.ns \in bindingNss
    /\ \A k, x : x \in At(s.PodsByServiceAccount, k) <=>
                    x \in At(p.PodsByServiceAccount, k) /\ x.ns \in podNss
    /\ \A u : u \in DOMAIN s.WorkloadsByUID <=>
                 u \in DOMAIN p.WorkloadsByUID /\ p.WorkloadsByUID[u].ns \in workloadNss
    /\ \A u \in DOMAIN s.WorkloadsByUID : s.WorkloadsByUID[u] = p.WorkloadsByUID[u]

\* A map without its empty entries is read as before.
LEMMA AtNonEmpty ==
    ASSUME NEW m, NEW k
    PROVE  At(NonEmpty(m), k) = At(m, k)
BY DEF At, NonEmpty

\* A source of a role is a ClusterRole of the snapshot, and so is the role.
LEMMA BuiltSources ==
    ASSUME NEW w, WorldOK(w), NEW id, NEW x \in At(BuildSnapshot(w).AggregatedRoleSources, id)
    PROVE  /\ {id, x} \subseteq DOMAIN BuildSnapshot(w).RolesByID
           /\ BuildSnapshot(w).RolesByID[x].ns = Cluster
<1> DEFINE R == IndexRoles(w.roles)
           m == [i \in DOMAIN R |-> {RecID(s.kind, s.ns, s.name) : s \in {y \in w.roles :
                                       y.kind = "ClusterRole" /\ y.name \in R[i].selects \ {R[i].name}}}]
<1>1. BuildSnapshot(w).AggregatedRoleSources = NonEmpty(m) /\ BuildSnapshot(w).RolesByID = R
    BY DEF BuildSnapshot, IndexSources
<1>2. x \in At(m, id)
    BY <1>1, AtNonEmpty
<1>3. id \in DOMAIN R /\ \E s \in w.roles : s.kind = "ClusterRole" /\ x = RecID(s.kind, s.ns, s.name)
    BY <1>2 DEF At
<1>4. PICK s \in w.roles : s.kind = "ClusterRole" /\ x = RecID(s.kind, s.ns, s.name)
    BY <1>3
<1>5. x \in DOMAIN R /\ R[x] = s
    BY <1>1, <1>4, BuiltRoles DEF WorldOK
<1> QED BY <1>1, <1>3, <1>4, <1>5 DEF WorldOK

\* The snapshot as it is holds all of itself.
LEMMA HoldsAll ==
    ASSUME NEW w, WorldOK(w)
    PROVE  Holds(BuildSnapshot(w), BuildSnapshot(w), Everywhere, Everywhere, Namespaces, Namespaces)
<1>1. \A id \in DOMAIN BuildSnapshot(w).RolesByID : BuildSnapshot(w).RolesByID[id].ns \in Everywhere
    BY BuiltRoles DEF WorldOK
<1>2. \A k : \A b \in At(BuildSnapshot(w).BindingsByRoleRef, k) : b.ns \in Everywhere
    BY BuiltBindings DEF WorldOK, At
<1>3. \A k : \A x \in At(BuildSnapshot(w).PodsByServiceAccount, k) : x.ns \in Namespaces
    BY BuiltPods DEF WorldOK, At
<1>4. \A u \in DOMAIN BuildSnapshot(w).WorkloadsByUID : BuildSnapshot(w).WorkloadsByUID[u].ns \in Namespaces
    BY BuiltWorkloads DEF WorldOK
<1> QED BY <1>1, <1>2, <1>3, <1>4, BuiltSources DEF Holds

\* A scoped snapshot holds what it was scoped to.
LEMMA HoldsScoped ==
    ASSUME NEW w, WorldOK(w), NEW rn, NEW bn, NEW pn, NEW wn
    PROVE  Holds(Scoped(BuildSnapshot(w), rn, bn, pn, wn), BuildSnapshot(w), rn, bn, pn, wn)
<1> DEFINE p == BuildSnapshot(w)
           s == Scoped(p, rn, bn, pn, wn)
           kept == {id \in DOMAIN p.RolesByID : p.RolesByID[id].ns \in rn}
           agg == [id \in DOMAIN p.AggregatedRoleSources \cap kept |-> p.AggregatedRoleSources[id] \cap kept]
           bound == [k \in DOMAIN p.BindingsByRoleRef |-> {x \in p.BindingsByRoleRef[k] : x.ns \in bn}]
           running == [k \in DOMAIN p.PodsByServiceAccount |-> {x \in p.PodsByServiceAccount[k] : x.ns \in pn}]
<1>1. s.RolesByID = [id \in kept |-> p.RolesByID[id]]
    BY DEF Scoped
<1>2. s.AggregatedRoleSources = NonEmpty(agg)
    BY DEF Scoped
<1>3. s.BindingsByRoleRef = NonEmpty(bound)
    BY DEF Scoped
<1>4. s.PodsByServiceAccount = NonEmpty(running)
    BY DEF Scoped
<1>5. s.WorkloadsByUID = [u \in {v \in DOMAIN p.WorkloadsByUID : p.WorkloadsByUID[v].ns \in wn} |->
                             p.WorkloadsByUID[u]]
    BY DEF Scoped
<1> HIDE DEF s, p
<1>6. \A id, x : x \in At(s.AggregatedRoleSources, id) <=>
                    x \in At(p.AggregatedRoleSources, id) /\ {id, x} \subseteq DOMAIN s.RolesByID
    BY <1>1, <1>2, AtNonEmpty DEF At
<1>7. \A k, b : b \in At(s.BindingsByRoleRef, k) <=> b \in At(p.BindingsByRoleRef, k) /\ b.ns \in bn
    BY <1>3, AtNonEmpty DEF At
<1>8. \A k, x : x \in At(s.PodsByServiceAccount, k) <=> x \in At(p.PodsByServiceAccount, k) /\ x.ns \in pn
    BY <1>4, AtNonEmpty DEF At
<1> QED BY <1>1, <1>5, <1>6, <1>7, <1>8 DEF Holds, s, p

-----------------------------------------------------------------------------
(* The chain of owners: WorkloadChain is a recursive function of at most MaxOwnerDepth *)
(* steps, which are taken one by one. *)

\* One step: the owners of what has been found.
Owners(s, U) == U \cup UNION {s.WorkloadsByUID[u].owner : u \in U \cap DOMAIN s.WorkloadsByUID}

\* Eight references in a row.
LEMMA ChainSteps ==
    ASSUME NEW s, NEW owners
    PROVE  \E u1, u2, u3, u4, u5, u6, u7 :
               /\ u1 = Owners(s, owners) /\ u2 = Owners(s, u1) /\ u3 = Owners(s, u2)
               /\ u4 = Owners(s, u3) /\ u5 = Owners(s, u4) /\ u6 = Owners(s, u5)
               /\ u7 = Owners(s, u6)
               /\ WorkloadChain(s, owners) = u7 \cap DOMAIN s.WorkloadsByUID
<1> DEFINE Def(f) == f = [n \in 0 .. 7 |-> IF n = 0 THEN owners ELSE Owners(s, f[n - 1])]
           named == CHOOSE f : Def(f)
           u1 == Owners(s, owners)
           u2 == Owners(s, u1)
           u3 == Owners(s, u2)
           u4 == Owners(s, u3)
           u5 == Owners(s, u4)
           u6 == Owners(s, u5)
           u7 == Owners(s, u6)
           g == [n \in 0 .. 7 |-> IF n = 0 THEN owners ELSE IF n = 1 THEN u1 ELSE IF n = 2 THEN u2
                                  ELSE IF n = 3 THEN u3 ELSE IF n = 4 THEN u4 ELSE IF n = 5 THEN u5
                                  ELSE IF n = 6 THEN u6 ELSE u7]
<1>1. /\ g = [n \in 0 .. 7 |-> g[n]]
      /\ g[0] = owners /\ g[1] = u1 /\ g[2] = u2 /\ g[3] = u3
      /\ g[4] = u4 /\ g[5] = u5 /\ g[6] = u6 /\ g[7] = u7
  <2> HIDE DEF u1, u2, u3, u4, u5, u6, u7
  <2>1. g[0] = owners /\ g[1] = u1 /\ g[2] = u2 /\ g[3] = u3 /\ g[4] = u4 /\ g[5] = u5 /\ g[6] = u6 /\ g[7] = u7
      OBVIOUS
  <2>2. DOMAIN g = 0 .. 7 /\ g = [n \in DOMAIN g |-> g[n]]
      OBVIOUS
  <2> HIDE DEF g
  <2>3. g = [n \in 0 .. 7 |-> g[n]]
      BY <2>2, Zenon
  <2> QED BY <2>1, <2>3, Zenon
<1> HIDE DEF g
<1>2. Def(g)
  <2>1. \A n \in 0 .. 7 : n = 0 \/ n = 1 \/ n = 2 \/ n = 3 \/ n = 4 \/ n = 5 \/ n = 6 \/ n = 7
      OBVIOUS
  <2>2. \A n \in 0 .. 7 : g[n] = IF n = 0 THEN owners ELSE Owners(s, g[n - 1])
      BY <1>1, <2>1
  <2> QED BY <1>1, <2>2, Zenon
<1>3. Def(named)
  <2> HIDE DEF Def
  <2> QED BY <1>2, Zenon
<1> HIDE DEF named
<1>4. named[0] = owners /\ \A n \in 1 .. 7 : named[n] = Owners(s, named[n - 1])
    BY <1>3
<1>5. /\ named[1] = Owners(s, owners) /\ named[2] = Owners(s, named[1])
      /\ named[3] = Owners(s, named[2]) /\ named[4] = Owners(s, named[3])
      /\ named[5] = Owners(s, named[4]) /\ named[6] = Owners(s, named[5])
      /\ named[7] = Owners(s, named[6])
    BY <1>4
<1>6. WorkloadChain(s, owners) = named[7] \cap DOMAIN s.WorkloadsByUID
    BY DEF WorkloadChain, MaxOwnerDepth, Owners, named
<1> QED BY <1>5, <1>6

\* Two scoped snapshots of the workloads W hold the same of them in these namespaces.
Alike(s, t, W, nss) ==
    /\ \A x \in {s, t} : /\ DOMAIN x.WorkloadsByUID \subseteq DOMAIN W
                         /\ \A u \in DOMAIN x.WorkloadsByUID : x.WorkloadsByUID[u] = W[u]
    /\ \A u \in DOMAIN W : W[u].ns \in nss => (u \in DOMAIN s.WorkloadsByUID <=> u \in DOMAIN t.WorkloadsByUID)

OwnersNearby(W) == \A u, v \in DOMAIN W : v \in W[u].owner => W[u].ns = W[v].ns

AllWithin(U, W, nss) == \A u \in U \cap DOMAIN W : W[u].ns \in nss

\* They find the same owners of what is in those namespaces: owners have the namespace of
\* what they own.
LEMMA SameChain ==
    ASSUME NEW s, NEW t, NEW W, NEW nss, NEW owners,
           Alike(s, t, W, nss), OwnersNearby(W), AllWithin(owners, W, nss)
    PROVE  WorkloadChain(s, owners) = WorkloadChain(t, owners)
<1> DEFINE Near(U) == AllWithin(U, W, nss)
<1>2. ASSUME NEW U, Near(U)
      PROVE  Owners(s, U) = Owners(t, U) /\ Near(Owners(s, U))
  <2>1. U \cap DOMAIN s.WorkloadsByUID = U \cap DOMAIN t.WorkloadsByUID
      BY <1>2 DEF Alike, AllWithin
  <2>2. \A u \in U \cap DOMAIN s.WorkloadsByUID : u \in DOMAIN W /\ s.WorkloadsByUID[u] = W[u]
                                                 /\ t.WorkloadsByUID[u] = W[u]
      BY <2>1 DEF Alike
  <2>3. Owners(s, U) = Owners(t, U)
      BY <2>1, <2>2 DEF Owners
  <2>4. Near(Owners(s, U))
      BY <1>2, <2>2 DEF Owners, OwnersNearby, AllWithin
  <2> QED BY <2>3, <2>4
<1>3. Near(owners)
    OBVIOUS
<1>4. \A U : Near(U) => U \cap DOMAIN s.WorkloadsByUID = U \cap DOMAIN t.WorkloadsByUID
    BY DEF Alike, AllWithin
<1> HIDE DEF Near
<1>5. PICK u1, u2, u3, u4, u5, u6, u7 :
          /\ u1 = Owners(s, owners) /\ u2 = Owners(s, u1) /\ u3 = Owners(s, u2)
          /\ u4 = Owners(s, u3) /\ u5 = Owners(s, u4) /\ u6 = Owners(s, u5)
          /\ u7 = Owners(s, u6)
          /\ WorkloadChain(s, owners) = u7 \cap DOMAIN s.WorkloadsByUID
    BY ChainSteps, Zenon
<1>6. PICK v1, v2, v3, v4, v5, v6, v7 :
          /\ v1 = Owners(t, owners) /\ v2 = Owners(t, v1) /\ v3 = Owners(t, v2)
          /\ v4 = Owners(t, v3) /\ v5 = Owners(t, v4) /\ v6 = Owners(t, v5)
          /\ v7 = Owners(t, v6)
          /\ WorkloadChain(t, owners) = v7 \cap DOMAIN t.WorkloadsByUID
    BY ChainSteps, Zenon
<1>7. u1 = v1 /\ Near(u1)
    BY <1>2, <1>3, <1>5, <1>6
<1>8. u2 = v2 /\ Near(u2)
    BY <1>2, <1>7, <1>5, <1>6
<1>9. u3 = v3 /\ Near(u3)
    BY <1>2, <1>8, <1>5, <1>6
<1>10. u4 = v4 /\ Near(u4)
    BY <1>2, <1>9, <1>5, <1>6
<1>11. u5 = v5 /\ Near(u5)
    BY <1>2, <1>10, <1>5, <1>6
<1>12. u6 = v6 /\ Near(u6)
    BY <1>2, <1>11, <1>5, <1>6
<1>13. u7 = v7 /\ Near(u7)
  <2>1. u7 = Owners(s, u6) /\ v7 = Owners(t, u6)
      BY <1>5, <1>6, <1>12
  <2> QED BY <1>2, <1>12, <2>1
<1> QED BY <1>4, <1>5, <1>6, <1>13

\* The namespaces from which a request lets anything through.
Reach(req) == {ns \in Everywhere : AllowNamespace(MakeFilter(req.namespaces), ns, FALSE)}

\* Two ways to scope a snapshot that agree on what the request may reach give the same answer.
LEMMA SameAnswer ==
    ASSUME NEW w, WorldOK(w), NEW s, NEW t, NEW req, req.strict \in BOOLEAN,
           NEW rn1, NEW bn1, NEW pn1, NEW wn1, Holds(s, BuildSnapshot(w), rn1, bn1, pn1, wn1),
           NEW rn2, NEW bn2, NEW pn2, NEW wn2, Holds(t, BuildSnapshot(w), rn2, bn2, pn2, wn2),
           \A r \in w.roles : r.ns \in Reach(req) => (r.ns \in rn1 <=> r.ns \in rn2),
           \A b \in w.bindings : b.ns \in Reach(req) => (b.ns \in bn1 <=> b.ns \in bn2),
           \A p \in w.pods : p.ns \in Reach(req) => (p.ns \in pn1 <=> p.ns \in pn2),
           \A x \in w.workloads : x.uid # NoUID /\ x.ns \in Reach(req) => (x.ns \in wn1 <=> x.ns \in wn2)
    PROVE  Query(s, req) = Query(t, req)
<1> DEFINE P == BuildSnapshot(w)
           filter == MakeFilter(req.namespaces)
           bound(x, id) == FilterBindings(filter, req.strict, At(x.BindingsByRoleRef, id))
           matched(x) == {id \in DOMAIN x.RolesByID :
                             /\ x.RolesByID[id].rules # {}
                             /\ AllowNamespace(filter, x.RolesByID[id].ns, FALSE)
                             /\ ~(req.strict /\ x.RolesByID[id].ns = Cluster /\ bound(x, id) = {})}
           sources(x) == (UNION {At(x.AggregatedRoleSources, id) : id \in matched(x)}) \cap DOMAIN x.RolesByID
           bindings(x) == UNION {bound(x, id) : id \in matched(x)}
           accounts(x) == UNION {{<<IF u.ns = Cluster THEN b.ns ELSE u.ns, u.name>> :
                                     u \in {v \in b.subjects : v.kind = "ServiceAccount"}} : b \in bindings(x)}
           running(x) == {a \in accounts(x) : /\ a[1] # Cluster
                                              /\ AllowNamespace(filter, a[1], req.strict)}
           pods(x) == UNION {At(x.PodsByServiceAccount, a) : a \in running(x)}
           answerOf(x) == [roles |-> matched(x) \cup sources(x), bindings |-> bindings(x), pods |-> pods(x),
                           workloads |-> WorkloadChain(x, UNION {p.owner : p \in pods(x)})]
<1>1. Query(s, req) = answerOf(s) /\ Query(t, req) = answerOf(t)
    BY DEF Query
<1>2. \A ns \in Everywhere : filter = {} \/ ns = Cluster \/ ns \in filter => ns \in Reach(req)
    BY DEF Reach, AllowNamespace
<1>3. \A id : bound(s, id) = bound(t, id)
  <2>1. \A id, b : b \in At(P.BindingsByRoleRef, id) => b \in w.bindings /\ b.ns \in Everywhere
      BY BuiltBindings DEF At, WorldOK
  <2> HIDE DEF P, filter
  <2>2. \A id, b : b \in At(P.BindingsByRoleRef, id) /\ AllowNamespace(filter, b.ns, req.strict) =>
            (b.ns \in bn1 <=> b.ns \in bn2)
      BY <1>2, <2>1 DEF AllowNamespace
  <2> QED BY <2>2 DEF FilterBindings, Holds, P
<1>4. \A id \in DOMAIN P.RolesByID : P.RolesByID[id] \in w.roles /\ P.RolesByID[id].ns \in Everywhere
    BY BuiltRoles DEF WorldOK
<1>5. matched(s) = matched(t)
  <2>1. \A id \in DOMAIN P.RolesByID : AllowNamespace(filter, P.RolesByID[id].ns, FALSE) =>
            (id \in DOMAIN s.RolesByID <=> id \in DOMAIN t.RolesByID)
    <3>1. \A id : /\ id \in DOMAIN s.RolesByID <=> id \in DOMAIN P.RolesByID /\ P.RolesByID[id].ns \in rn1
                  /\ id \in DOMAIN t.RolesByID <=> id \in DOMAIN P.RolesByID /\ P.RolesByID[id].ns \in rn2
        BY DEF Holds
    <3> HIDE DEF P, filter
    <3> QED BY <1>2, <1>4, <3>1 DEF AllowNamespace
  <2>2. \A x \in {s, t} : \A id \in DOMAIN x.RolesByID :
            id \in DOMAIN P.RolesByID /\ x.RolesByID[id] = P.RolesByID[id]
    <3> HIDE DEF P
    <3> QED BY DEF Holds, P
  <2> HIDE DEF P, filter, bound
  <2> QED BY <1>3, <2>1, <2>2
<1>6. \A x \in {s, t} : matched(x) \subseteq DOMAIN x.RolesByID
    OBVIOUS
<1> HIDE DEF matched
<1>7. sources(s) = sources(t)
  <2>1. Cluster \in Reach(req)
      BY DEF Reach, Everywhere, AllowNamespace
  <2>2. \A id : \A x \in At(P.AggregatedRoleSources, id) :
            x \in DOMAIN P.RolesByID /\ P.RolesByID[x].ns = Cluster
      BY BuiltSources
  <2>3. \A id : \A x \in At(P.AggregatedRoleSources, id) :
            x \in DOMAIN s.RolesByID <=> x \in DOMAIN t.RolesByID
    <3> HIDE DEF P
    <3> QED BY <1>4, <2>1, <2>2 DEF Holds, P
  <2>4. \A id \in matched(s) :
            At(s.AggregatedRoleSources, id) = At(t.AggregatedRoleSources, id)
    <3> TAKE id \in matched(s)
    <3>1. \A x : x \in At(s.AggregatedRoleSources, id) <=>
                    x \in At(P.AggregatedRoleSources, id) /\ {id, x} \subseteq DOMAIN s.RolesByID
        BY DEF Holds
    <3>2. \A x : x \in At(t.AggregatedRoleSources, id) <=>
                    x \in At(P.AggregatedRoleSources, id) /\ {id, x} \subseteq DOMAIN t.RolesByID
        BY DEF Holds
    <3>3. id \in DOMAIN s.RolesByID /\ id \in DOMAIN t.RolesByID
        BY <1>5, <1>6
    <3> HIDE DEF P
    <3>4. \A x : x \in At(s.AggregatedRoleSources, id) <=> x \in At(t.AggregatedRoleSources, id)
        BY <2>3, <3>1, <3>2, <3>3
    <3> QED BY <3>4
  <2>5. \A id, x : x \in At(s.AggregatedRoleSources, id) => x \in DOMAIN s.RolesByID
      BY DEF Holds
  <2>6. \A id, x : x \in At(t.AggregatedRoleSources, id) => x \in DOMAIN t.RolesByID
      BY DEF Holds
  <2>7. sources(s) = UNION {At(s.AggregatedRoleSources, id) : id \in matched(s)}
      BY <2>5
  <2>8. sources(t) = UNION {At(t.AggregatedRoleSources, id) : id \in matched(t)}
      BY <2>6
  <2> QED BY <1>5, <2>4, <2>7, <2>8
<1>8. bindings(s) = bindings(t)
  <2> HIDE DEF bound
  <2> QED BY <1>3, <1>5
<1> HIDE DEF bound, sources, bindings
<1>9. running(s) = running(t)
    BY <1>8
<1>10. \A a \in running(s) : a[1] # Cluster /\ AllowNamespace(filter, a[1], req.strict)
    OBVIOUS
<1> HIDE DEF running
<1>11. \A k, p : p \in At(P.PodsByServiceAccount, k) => p \in w.pods /\ p.ns = k[1] /\ p.ns \in Everywhere
    BY BuiltPods DEF At, PodKey, WorldOK, Everywhere
<1>12. \A a \in running(s) : At(s.PodsByServiceAccount, a) = At(t.PodsByServiceAccount, a)
  <2>1. \A a, p : /\ p \in At(s.PodsByServiceAccount, a) <=> p \in At(P.PodsByServiceAccount, a) /\ p.ns \in pn1
                  /\ p \in At(t.PodsByServiceAccount, a) <=> p \in At(P.PodsByServiceAccount, a) /\ p.ns \in pn2
      BY DEF Holds
  <2> HIDE DEF P, filter
  <2>2. \A a \in running(s) : \A p \in At(P.PodsByServiceAccount, a) : p.ns \in pn1 <=> p.ns \in pn2
      BY <1>2, <1>10, <1>11 DEF AllowNamespace
  <2>3. \A a \in running(s) : \A p : p \in At(s.PodsByServiceAccount, a) <=> p \in At(t.PodsByServiceAccount, a)
      BY <2>1, <2>2
  <2> QED BY <2>3
<1>13. pods(s) = pods(t)
    BY <1>9, <1>12
<1>14. \A p \in pods(s) : p \in w.pods /\ p.ns \in Reach(req)
  <2>1. \A a : \A p \in At(s.PodsByServiceAccount, a) : p \in At(P.PodsByServiceAccount, a)
      BY DEF Holds
  <2> HIDE DEF P, filter
  <2> QED BY <1>2, <1>10, <1>11, <2>1 DEF AllowNamespace
<1> HIDE DEF pods
<1> DEFINE owners == UNION {p.owner : p \in pods(s)}
<1>15. WorkloadChain(s, owners) = WorkloadChain(t, owners)
  <2>1. \A x \in {s, t} :
            /\ DOMAIN x.WorkloadsByUID \subseteq DOMAIN P.WorkloadsByUID
            /\ \A u \in DOMAIN x.WorkloadsByUID : x.WorkloadsByUID[u] = P.WorkloadsByUID[u]
    <3> HIDE DEF P
    <3> QED BY DEF Holds, P
  <2>2. \A u \in DOMAIN P.WorkloadsByUID : P.WorkloadsByUID[u] \in w.workloads /\ P.WorkloadsByUID[u].uid = u
                                        /\ u # NoUID
      BY BuiltWorkloads
  <2>3. \A u \in DOMAIN P.WorkloadsByUID : P.WorkloadsByUID[u].ns \in Reach(req) =>
            (u \in DOMAIN s.WorkloadsByUID <=> u \in DOMAIN t.WorkloadsByUID)
    <3> HIDE DEF P
    <3> QED BY <2>2 DEF Holds, P
  <2> DEFINE W == P.WorkloadsByUID
             nss == Reach(req)
  <2>4. AllWithin(owners, W, nss)
    <3> HIDE DEF P
    <3> QED BY <1>14, <2>2 DEF WorldOK, AllWithin
  <2>5. OwnersNearby(W)
    <3> HIDE DEF P
    <3> QED BY <2>2 DEF WorldOK, OwnersNearby
  <2>6. Alike(s, t, W, nss)
    <3> HIDE DEF P
    <3> QED BY <2>1, <2>3 DEF Alike
  <2> HIDE DEF owners, nss, W
  <2> QED BY <2>4, <2>5, <2>6, SameChain
<1> HIDE DEF owners
<1>16. answerOf(s) = [roles |-> matched(s) \cup sources(s), bindings |-> bindings(s), pods |-> pods(s),
                     workloads |-> WorkloadChain(s, owners)]
    BY DEF owners
<1>17. answerOf(t) = [roles |-> matched(t) \cup sources(t), bindings |-> bindings(t), pods |-> pods(t),
                     workloads |-> WorkloadChain(t, owners)]
    BY <1>13 DEF owners
<1> HIDE DEF answerOf
<1> QED BY <1>1, <1>5, <1>7, <1>8, <1>13, <1>15, <1>16, <1>17

\* A permission that Kubernetes gives is a grant that is collected.
LEMMA PermissionIsGrant ==
    ASSUME NEW w, WorldOK(w), NEW caller, NEW c \in Checks, NEW ns, MayList(w, caller, c, ns)
    PROVE  {Cluster, ns} \cap CollectGrants(BuildSnapshot(w), caller)[c] # {}
<1> DEFINE s == BuildSnapshot(w)
           mine(k) == {b \in s.BindingsByRoleRef[k] : \E u \in b.subjects : SubjectMatches(caller, u)}
           keys == DOMAIN s.BindingsByRoleRef \cap DOMAIN s.RolesByID
           granting == {j \in keys : c \in Granted(s.RolesByID[j])}
<1>1. PICK b \in w.bindings, r \in w.roles :
          /\ b.ns \in {Cluster, ns}
          /\ \E u \in b.subjects : SubjectMatches(caller, u)
          /\ r.kind = b.roleRef.kind /\ r.name = b.roleRef.name /\ r.ns \in {Cluster, b.ns}
          /\ \E rule \in r.rules : VerbAllows(rule.verbs, "list") /\ RuleCovers(rule, c)
    BY DEF MayList
<1> DEFINE k == RoleRefKey(b)
<1>2. k = RecID(r.kind, r.ns, r.name)
    BY <1>1 DEF RoleRefKey, WorldOK
<1>3. k \in DOMAIN s.RolesByID /\ s.RolesByID[k] = r
    BY <1>2, BuiltRoles DEF WorldOK
<1>4. k \in DOMAIN s.BindingsByRoleRef /\ b \in s.BindingsByRoleRef[k]
    BY BuiltBindings
<1> HIDE DEF s, k
<1>5. k \in granting /\ b \in mine(k)
    BY <1>1, <1>3, <1>4 DEF Granted
<1>6. CollectGrants(s, caller)[c] = UNION {{x.ns : x \in mine(j)} : j \in granting}
    BY DEF CollectGrants
<1> HIDE DEF mine, granting
<1> QED BY <1>1, <1>5, <1>6 DEF s

\* In the namespaces that are checked, a scope allows what the caller may list.
LEMMA PermissionIsAllowed ==
    ASSUME NEW w, WorldOK(w), NEW caller, NEW nss, NEW ns \in nss \cup {Cluster},
           NEW c1 \in Checks, NEW c2 \in Checks \ ClusterChecks,
           MayList(w, caller, IF ns = Cluster THEN c1 ELSE c2, ns)
    PROVE  AllowNS(BuildScope(BuildSnapshot(w), caller, nss), c1, c2, ns)
<1> DEFINE c == IF ns = Cluster THEN c1 ELSE c2
           grants == CollectGrants(BuildSnapshot(w), caller)
<1>1. c \in Checks /\ MayList(w, caller, c, ns)
    OBVIOUS
<1>2. {Cluster, ns} \cap grants[c] # {}
    BY <1>1, PermissionIsGrant
<1> HIDE DEF grants
<1>3. BuildScope(BuildSnapshot(w), caller, nss)[c] =
          IF Cluster \in grants[c] THEN {Cluster}
          ELSE IF c \in ClusterChecks THEN {} ELSE grants[c] \cap nss
    BY <1>1 DEF BuildScope, grants
<1> QED BY <1>2, <1>3 DEF AllowNS

\* What is in a namespace that the request may reach is in one that is checked.
LEMMA MentionedIsChecked ==
    ASSUME NEW w, WorldOK(w), NEW req, req.namespaces \subseteq Namespaces,
           NEW ns \in Reach(req),
           \/ \E r \in w.roles : r.ns = ns
           \/ \E b \in w.bindings : b.ns = ns
           \/ \E p \in w.pods : p.ns = ns
           \/ \E x \in w.workloads : x.uid # NoUID /\ x.ns = ns
    PROVE  ns \in CollectNamespaces(BuildSnapshot(w), req.namespaces) \cup {Cluster}
<1> DEFINE s == BuildSnapshot(w)
           A1 == {s.RolesByID[id].ns : id \in DOMAIN s.RolesByID}
           bound(k) == {x.ns : x \in s.BindingsByRoleRef[k]}
           A2 == UNION {bound(k) : k \in DOMAIN s.BindingsByRoleRef}
           A3 == {key[1] : key \in DOMAIN s.PodsByServiceAccount}
           A4 == {s.WorkloadsByUID[u].ns : u \in DOMAIN s.WorkloadsByUID}
           all == A1 \cup A2 \cup A3 \cup A4
<1>1. CollectNamespaces(s, req.namespaces) =
          IF req.namespaces = {} THEN all \ {Cluster} ELSE (all \ {Cluster}) \cap req.namespaces
    BY DEF CollectNamespaces
<1>2. ns = Cluster \/ req.namespaces = {} \/ ns \in req.namespaces
  <2>1. MakeFilter(req.namespaces) = req.namespaces
      BY NamesAssumption DEF MakeFilter, Trim
  <2> QED BY <2>1 DEF Reach, AllowNamespace
<1>3. ns \in all
  <2>1. CASE \E r \in w.roles : r.ns = ns
    <3>1. PICK r \in w.roles : r.ns = ns
        BY <2>1
    <3>2. RecID(r.kind, r.ns, r.name) \in DOMAIN s.RolesByID
          /\ s.RolesByID[RecID(r.kind, r.ns, r.name)] = r
        BY BuiltRoles DEF WorldOK
    <3> HIDE DEF s
    <3>3. ns \in A1
        BY <3>1, <3>2
    <3> QED BY <3>3
  <2>2. CASE \E b \in w.bindings : b.ns = ns
    <3>1. PICK b \in w.bindings : b.ns = ns
        BY <2>2
    <3>2. RoleRefKey(b) \in DOMAIN s.BindingsByRoleRef /\ b \in s.BindingsByRoleRef[RoleRefKey(b)]
        BY BuiltBindings
    <3> HIDE DEF s
    <3>3. ns \in bound(RoleRefKey(b))
        BY <3>1, <3>2
    <3> HIDE DEF bound
    <3>4. ns \in A2
        BY <3>2, <3>3
    <3> QED BY <3>4
  <2>3. CASE \E p \in w.pods : p.ns = ns
    <3>1. PICK p \in w.pods : p.ns = ns
        BY <2>3
    <3>2. PodKey(p) \in DOMAIN s.PodsByServiceAccount /\ PodKey(p)[1] = ns
        BY <3>1, BuiltPods DEF PodKey
    <3> HIDE DEF s
    <3>3. ns \in A3
        BY <3>2
    <3> QED BY <3>3
  <2>4. CASE \E x \in w.workloads : x.uid # NoUID /\ x.ns = ns
    <3>1. PICK x \in w.workloads : x.uid # NoUID /\ x.ns = ns
        BY <2>4
    <3>2. x.uid \in DOMAIN s.WorkloadsByUID /\ s.WorkloadsByUID[x.uid] = x
        BY <3>1, BuiltWorkloads DEF WorldOK
    <3> HIDE DEF s
    <3>3. ns \in A4
        BY <3>1, <3>2
    <3> QED BY <3>3
  <2> HIDE DEF all
  <2> QED BY <2>1, <2>2, <2>3, <2>4
<1> HIDE DEF all, s
<1> QED BY <1>1, <1>2, <1>3 DEF s

\* What a caller is shown of a snapshot, restricted or not, is what the scope allows.
LEMMA HoldsAllowed ==
    ASSUME NEW w, WorldOK(w), NEW sc
    PROVE  Holds(ScopedFor(BuildSnapshot(w), sc), BuildSnapshot(w),
                 {ns \in Everywhere : AllowRole(sc, ns)}, {ns \in Everywhere : AllowBinding(sc, ns)},
                 {ns \in Everywhere : AllowPod(sc, ns)}, {ns \in Everywhere : AllowWorkload(sc, ns)})
<1> DEFINE rn == {ns \in Everywhere : AllowRole(sc, ns)}
           bn == {ns \in Everywhere : AllowBinding(sc, ns)}
           pn == {ns \in Everywhere : AllowPod(sc, ns)}
           wn == {ns \in Everywhere : AllowWorkload(sc, ns)}
<1>1. CASE IsUnrestricted(sc)
  <2>1. rn = Everywhere /\ bn = Everywhere
      BY <1>1, UnrestrictedAllows
  <2>2. pn = Namespaces /\ wn = Namespaces
      BY <1>1, UnrestrictedAllows, NamesAssumption DEF AllowPod, AllowWorkload, Everywhere
  <2>3. ScopedFor(BuildSnapshot(w), sc) = BuildSnapshot(w)
      BY <1>1 DEF ScopedFor
  <2>4. Holds(BuildSnapshot(w), BuildSnapshot(w), rn, bn, pn, wn)
    <3> HIDE DEF rn, bn, pn, wn
    <3> QED BY <2>1, <2>2, HoldsAll
  <2> QED BY <2>3, <2>4
<1>2. CASE ~IsUnrestricted(sc)
  <2>1. ScopedFor(BuildSnapshot(w), sc) = Scoped(BuildSnapshot(w), rn, bn, pn, wn)
      BY <1>2 DEF ScopedFor
  <2>2. Holds(Scoped(BuildSnapshot(w), rn, bn, pn, wn), BuildSnapshot(w), rn, bn, pn, wn)
      BY HoldsScoped
  <2> QED BY <2>1, <2>2
<1> QED BY <1>1, <1>2

\* Evaluating the caller's permissions only in the namespaces that the snapshot mentions
\* and the request names hides nothing that the caller may list.
THEOREM NothingIsHidden == Spec => []NothingListableIsHidden
<1>1. Inv => NothingListableIsHidden
  <2> SUFFICES ASSUME Inv, Answered, enforced, request.namespaces \subseteq Namespaces
               PROVE  NothingListableIsHidden
      BY DEF NothingListableIsHidden
  <2> DEFINE g == history[grantsAt]
             w == history[shownAt]
             P == BuildSnapshot(w)
             rn1 == {ns \in Everywhere : AllowRole(scope, ns)}
             bn1 == {ns \in Everywhere : AllowBinding(scope, ns)}
             pn1 == {ns \in Everywhere : AllowPod(scope, ns)}
             wn1 == {ns \in Everywhere : AllowWorkload(scope, ns)}
             rn2 == {ns \in Everywhere : MayListRole(grantsAt, ns)}
             bn2 == {ns \in Everywhere : MayListBinding(grantsAt, ns)}
             pn2 == {ns \in Namespaces : MayListIn(grantsAt, "pods", ns)}
             wn2 == {ns \in Namespaces : MayListIn(grantsAt, "deployments", ns)}
             s == ScopedFor(P, scope)
             t == Scoped(P, rn2, bn2, pn2, wn2)
  <2>1. WorldOK(g) /\ WorldOK(w)
      BY DEF Inv, HistoryOK, LoadsOK, ScopeOK, Answered
  <2>2. /\ scope = BuildScope(BuildSnapshot(g), request.caller, toCheck)
        /\ toCheck \in SUBSET Namespaces
        /\ toCheck = CollectNamespaces(P, request.namespaces)
      BY DEF Inv, Answered, ScopeOK, LoadsOK, ToCheckOK, Published
  <2>3. answer = Query(s, request)
      BY DEF Inv, Answered, AnswerOK, Published
  <2>4. request.strict \in BOOLEAN
      BY DEF Inv, RequestOK, Requests
  <2>5. /\ {"clusterroles", "clusterrolebindings"} \subseteq Checks
        /\ {"clusterroles", "clusterrolebindings"} \subseteq ClusterChecks
        /\ {"roles", "rolebindings", "pods", "deployments"} \subseteq Checks \ ClusterChecks
        /\ Cluster \notin Namespaces
      BY NamesAssumption DEF Checks, ClusterChecks, GroupOf
  <2>6. ASSUME NEW ns \in toCheck \cup {Cluster},
               NEW c1 \in {"clusterroles", "clusterrolebindings"},
               NEW c2 \in {"roles", "rolebindings", "pods", "deployments"}
        PROVE  AllowNS(scope, c1, c2, ns) <=>
                   MayList(g, request.caller, IF ns = Cluster THEN c1 ELSE c2, ns)
    <3>1. AllowNS(scope, c1, c2, ns) => MayList(g, request.caller, IF ns = Cluster THEN c1 ELSE c2, ns)
        BY <2>1, <2>2, <2>5, AllowedIsPermission DEF Everywhere
    <3>2. MayList(g, request.caller, IF ns = Cluster THEN c1 ELSE c2, ns) => AllowNS(scope, c1, c2, ns)
        BY <2>1, <2>2, <2>5, PermissionIsAllowed
    <3> QED BY <3>1, <3>2
  <2>7. \A ns \in toCheck \cup {Cluster} : ns \in rn1 <=> ns \in rn2
      BY <2>2, <2>6 DEF AllowRole, MayListRole, MayListIn, Everywhere
  <2>8. \A ns \in toCheck \cup {Cluster} : ns \in bn1 <=> ns \in bn2
      BY <2>2, <2>6 DEF AllowBinding, MayListBinding, MayListIn, Everywhere
  <2>9. \A ns \in toCheck : (ns \in pn1 <=> ns \in pn2) /\ (ns \in wn1 <=> ns \in wn2)
    <3> TAKE ns \in toCheck
    <3>1. ns \in Namespaces /\ ns # Cluster /\ ns \in Everywhere
        BY <2>2, <2>5 DEF Everywhere
    <3>2. AllowPod(scope, ns) <=> AllowNS(scope, "clusterroles", "pods", ns)
        BY <3>1 DEF AllowPod, AllowNS
    <3>3. AllowWorkload(scope, ns) <=> AllowNS(scope, "clusterroles", "deployments", ns)
        BY <3>1 DEF AllowWorkload, AllowNS
    <3> QED BY <2>6, <3>1, <3>2, <3>3 DEF MayListIn
  <2>10. Holds(s, P, rn1, bn1, pn1, wn1)
      BY <2>1, HoldsAllowed
  <2>11. Holds(t, P, rn2, bn2, pn2, wn2)
      BY <2>1, HoldsScoped
  <2> HIDE DEF rn1, bn1, pn1, wn1, rn2, bn2, pn2, wn2, s, t, P, g
  <2>12. \A r \in w.roles : r.ns \in Reach(request) => (r.ns \in rn1 <=> r.ns \in rn2)
      BY <2>1, <2>2, <2>7, MentionedIsChecked DEF P
  <2>13. \A b \in w.bindings : b.ns \in Reach(request) => (b.ns \in bn1 <=> b.ns \in bn2)
      BY <2>1, <2>2, <2>8, MentionedIsChecked DEF P
  <2>14. \A p \in w.pods : p.ns \in Reach(request) => (p.ns \in pn1 <=> p.ns \in pn2)
      BY <2>1, <2>2, <2>5, <2>9, MentionedIsChecked DEF P, WorldOK
  <2>15. \A x \in w.workloads : x.uid # NoUID /\ x.ns \in Reach(request) => (x.ns \in wn1 <=> x.ns \in wn2)
      BY <2>1, <2>2, <2>5, <2>9, MentionedIsChecked DEF P, WorldOK
  <2> HIDE DEF w
  <2>16. Query(s, request) = Query(t, request)
      BY <2>1, <2>4, <2>10, <2>11, <2>12, <2>13, <2>14, <2>15, SameAnswer DEF P
  <2>17. Query(t, request) = Query(Scoped(Published(shownAt), rn2, bn2, pn2, wn2), request)
      BY DEF t, P, w, Published
  <2> QED BY <2>3, <2>16, <2>17 DEF NothingListableIsHidden, rn2, bn2, pn2, wn2
<1> QED BY <1>1, InvHolds, PTL
=============================================================================
