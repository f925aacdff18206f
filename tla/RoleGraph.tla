------------------------------ MODULE RoleGraph ------------------------------
(***************************************************************************)
(* internal/engine/query_rbac.go: buildRBACGraph, the loop that turns the  *)
(* matched roles into a graph of roles, bindings and subjects and into the *)
(* rows of the resource map, and finalize, which counts what it has seen.  *)
(* One action per role and one per binding; the code takes roles in the    *)
(* order of their names and bindings in the order in which an informer's   *)
(* store lists them, here they come in any order.                          *)
(*                                                                         *)
(* A node is <<kind, identifier>>.  Refs are references to matched rules.  *)
(***************************************************************************)
EXTENDS FiniteSets, NamespaceScope

CONSTANTS
    Snapshots,  \* records: roles (id -> namespace), bindings, sources
    Matches,    \* what the matcher may find: role id -> references
    Phantoms    \* references to what the cluster does not serve (see Discovery)

\* A store holds finitely many objects, under keys of their own; only ClusterRoles are
\* aggregated.
ASSUME SnapshotsAssumption ==
    \A s \in Snapshots :
        /\ IsFiniteSet(DOMAIN s.roles) /\ IsFiniteSet(s.bindings)
        /\ \A b \in s.bindings : IsFiniteSet(b.subjects)
        /\ \A b, c \in s.bindings : b.id = c.id => b = c
        /\ \A p \in s.sources : p[2] \in DOMAIN s.roles => s.roles[p[2]] = Cluster

VARIABLES
    snapshot,
    matches,
    namespaces,  \* the request's namespaceScope, as written
    strict,
    filterPhantoms,  \* filterPhantomAPIs
    candidates,      \* roles not visited yet
    bindings,    \* bindings of the visited role not visited yet
    nodes, edges,
    sourcesOf,   \* AggregationSources of the role nodes
    refsOf,      \* MatchedRuleRefs of the role nodes
    roleSeen, bindingSeen, subjectSeen,  \* what the counters count
    rows,        \* resourceRows
    status       \* the counters and the resource map of the answer

query == <<snapshot, matches, namespaces, strict, filterPhantoms>>
graphVars == <<query, candidates, bindings, nodes, edges, sourcesOf, refsOf, roleSeen,
               bindingSeen, subjectSeen, rows, status>>

RoleIDs == DOMAIN snapshot.roles
AllRefs == UNION {matches[r] : r \in RoleIDs}
NamespaceFilter == MakeFilter(namespaces)

\* filterPhantomRefs
FilterPhantomRefs(refs) == IF filterPhantoms THEN refs \ Phantoms ELSE refs

Matched(r) == FilterPhantomRefs(matches[r])

RoleNode(r)    == <<"role", r>>
BindingNode(b) == <<"binding", b.id>>
SubjectNode(x) == <<"subject", x>>

SourcesOf(r) == {p[2] : p \in {q \in snapshot.sources : q[1] = r}} \cap RoleIDs

Bound(r) == FilterBindings(NamespaceFilter, strict, {b \in snapshot.bindings : b.role = r})

NoRow == [roles |-> {}, bindings |-> {}, subjects |-> {}]

\* accumulateResourceRows: every reference's row counts the role, the binding and
\* the subject once.
Accumulate(refs, R, B, S) ==
    [ref \in DOMAIN rows |->
        IF ref \notin refs THEN rows[ref]
        ELSE [roles |-> rows[ref].roles \cup R, bindings |-> rows[ref].bindings \cup B,
              subjects |-> rows[ref].subjects \cup S]]

-----------------------------------------------------------------------------
GraphInit ==
    /\ snapshot \in Snapshots
    /\ matches \in {f \in Matches : DOMAIN f = DOMAIN snapshot.roles}
    /\ namespaces \in SUBSET Written
    /\ strict \in BOOLEAN
    /\ filterPhantoms \in BOOLEAN
    /\ candidates = DOMAIN snapshot.roles
    /\ bindings = {}
    /\ nodes = {} /\ edges = {}
    /\ sourcesOf = [r \in DOMAIN snapshot.roles |-> {}]
    /\ refsOf = [r \in DOMAIN snapshot.roles |-> {}]
    /\ roleSeen = {} /\ bindingSeen = {} /\ subjectSeen = {}
    /\ rows = [ref \in UNION {matches[r] : r \in DOMAIN matches} |-> NoRow]
    /\ status = << >>

\* Mutant: strict does not leave out ClusterRoles that nothing binds in the scope.
Skipped_UnboundKept(r) ==
    ~AllowNamespace(NamespaceFilter, snapshot.roles[r], FALSE) \/ Matched(r) = {}

\* The role's namespace is outside the scope, no rule of it matches, or the scope
\* is strict and nothing binds the ClusterRole in it.
Skipped(r) ==
    \/ ~AllowNamespace(NamespaceFilter, snapshot.roles[r], FALSE)
    \/ Matched(r) = {}
    \/ strict /\ snapshot.roles[r] = Cluster /\ Bound(r) = {}

SkipRole ==
    /\ bindings = {}
    /\ \E r \in candidates : Skipped(r) /\ candidates' = candidates \ {r}
    /\ UNCHANGED <<query, bindings, nodes, edges, sourcesOf, refsOf, roleSeen, bindingSeen,
                   subjectSeen, rows, status>>

\* Mutant: a role node that is there already (as the source of another role) is
\* left as it is.
UpsertRoleNodes_KeepFirst(r) ==
    /\ nodes' = nodes \cup {RoleNode(x) : x \in SourcesOf(r) \cup {r}}
    /\ sourcesOf' = [x \in RoleIDs |->
          IF x \in SourcesOf(r) \cup {r} THEN sourcesOf[x] \cup SourcesOf(x) ELSE sourcesOf[x]]
    /\ refsOf' = IF RoleNode(r) \in nodes THEN refsOf ELSE [refsOf EXCEPT ![r] = Matched(r)]

\* upsertRoleNode for the role, with its references, and for its sources, without.
UpsertRoleNodes(r) ==
    /\ nodes' = nodes \cup {RoleNode(x) : x \in SourcesOf(r) \cup {r}}
    /\ sourcesOf' = [x \in RoleIDs |->
          IF x \in SourcesOf(r) \cup {r} THEN sourcesOf[x] \cup SourcesOf(x) ELSE sourcesOf[x]]
    /\ refsOf' = [refsOf EXCEPT ![r] = @ \cup Matched(r)]

\* Mutant: a role without bindings is left out of the resource map.
VisitRole_UnboundNotCounted ==
    /\ bindings = {}
    /\ \E r \in candidates :
          /\ ~Skipped(r)
          /\ candidates' = candidates \ {r}
          /\ UpsertRoleNodes(r)
          /\ roleSeen' = roleSeen \cup {r}
          /\ edges' = edges \cup {<<RoleNode(x), "aggregates", RoleNode(r)>> : x \in SourcesOf(r)}
          /\ bindings' = Bound(r)
    /\ UNCHANGED <<query, bindingSeen, subjectSeen, rows, status>>

\* Mutant: the sources of an aggregated role are counted as matched.
VisitRole_SourcesCounted ==
    /\ bindings = {}
    /\ \E r \in candidates :
          /\ ~Skipped(r)
          /\ candidates' = candidates \ {r}
          /\ UpsertRoleNodes(r)
          /\ roleSeen' = roleSeen \cup {r} \cup SourcesOf(r)
          /\ edges' = edges \cup {<<RoleNode(x), "aggregates", RoleNode(r)>> : x \in SourcesOf(r)}
          /\ bindings' = Bound(r)
          /\ rows' = IF Bound(r) = {} THEN Accumulate(Matched(r), {r}, {}, {}) ELSE rows
    /\ UNCHANGED <<query, bindingSeen, subjectSeen, status>>

\* A matched role enters the graph together with the ClusterRoles it aggregates.
VisitRole ==
    /\ bindings = {}
    /\ \E r \in candidates :
          /\ ~Skipped(r)
          /\ candidates' = candidates \ {r}
          /\ UpsertRoleNodes(r)
          /\ roleSeen' = roleSeen \cup {r}
          /\ edges' = edges \cup {<<RoleNode(x), "aggregates", RoleNode(r)>> : x \in SourcesOf(r)}
          /\ bindings' = Bound(r)
          /\ rows' = IF Bound(r) = {} THEN Accumulate(Matched(r), {r}, {}, {}) ELSE rows
    /\ UNCHANGED <<query, bindingSeen, subjectSeen, status>>

\* A binding of the visited role, with all its subjects.
VisitBinding ==
    /\ \E b \in bindings :
          /\ bindings' = bindings \ {b}
          /\ nodes' = nodes \cup {BindingNode(b)} \cup {SubjectNode(x) : x \in b.subjects}
          /\ edges' = edges \cup {<<RoleNode(b.role), "grants", BindingNode(b)>>}
                            \cup {<<BindingNode(b), "subjects", SubjectNode(x)>> : x \in b.subjects}
          /\ bindingSeen' = bindingSeen \cup {b.id}
          /\ subjectSeen' = subjectSeen \cup b.subjects
          /\ rows' = Accumulate(Matched(b.role), {b.role}, {b.id}, b.subjects)
    /\ UNCHANGED <<query, candidates, sourcesOf, refsOf, roleSeen, status>>

Looped == candidates = {} /\ bindings = {}

\* collapseResourceRows: a row for every reference that was accumulated.
CollapseRows ==
    [ref \in {x \in DOMAIN rows : rows[x].roles # {}} |->
        [roleCount    |-> Cardinality(rows[ref].roles),
         bindingCount |-> Cardinality(rows[ref].bindings),
         subjectCount |-> Cardinality(rows[ref].subjects)]]

Finalize ==
    /\ Looped /\ status = << >>
    /\ status' = <<[matchedRoles    |-> Cardinality(roleSeen),
                   matchedBindings |-> Cardinality(bindingSeen),
                   matchedSubjects |-> Cardinality(subjectSeen),
                   resourceMap     |-> CollapseRows]>>
    /\ UNCHANGED <<query, candidates, bindings, nodes, edges, sourcesOf, refsOf, roleSeen,
                   bindingSeen, subjectSeen, rows>>

GraphNext == SkipRole \/ VisitRole \/ VisitBinding \/ Finalize

GraphSpec == GraphInit /\ [][GraphNext]_graphVars

-----------------------------------------------------------------------------
(* Properties. *)

GraphTypeOK ==
    /\ candidates \subseteq RoleIDs /\ roleSeen \subseteq RoleIDs
    /\ bindings \subseteq snapshot.bindings
    /\ \A b, c \in bindings : b.role = c.role
    /\ \A e \in edges : {e[1], e[3]} \subseteq nodes
    /\ DOMAIN sourcesOf = RoleIDs /\ DOMAIN refsOf = RoleIDs
    /\ DOMAIN rows = AllRefs

Answered == status # << >>
Answer   == status[1]

Shown == {r \in RoleIDs : ~Skipped(r)}

\* Every matched role ends with all the references of its rules (filterPhantomAPIs takes
\* out the phantoms and no other), whether it was drawn first as a source of another role
\* or on its own account, and nothing is drawn besides the matched roles, their sources,
\* and what binds them in the scope.
OrderDoesNotMatter ==
    Answered =>
        /\ \A r \in RoleIDs :
              /\ refsOf[r] =
                    {x \in matches[r] : r \in Shown /\ (filterPhantoms => x \notin Phantoms)}
              /\ sourcesOf[r] = IF RoleNode(r) \in nodes THEN SourcesOf(r) ELSE {}
        /\ nodes = {RoleNode(r) : r \in Shown \cup UNION {SourcesOf(r) : r \in Shown}}
                   \cup UNION {{BindingNode(b)} \cup {SubjectNode(x) : x \in b.subjects} :
                               b \in UNION {Bound(r) : r \in Shown}}

To(type, from) == {e[3] : e \in {x \in edges : x[2] = type /\ x[1] \in from}}

\* The resource map has a row for every reference in the graph and no other, and a row
\* counts the roles, bindings and subjects that the graph connects to the row's rule.
RowsAgreeWithGraph ==
    Answered =>
        /\ DOMAIN Answer.resourceMap = UNION {refsOf[r] : r \in RoleIDs}
        /\ \A ref \in DOMAIN Answer.resourceMap :
             LET roles  == {RoleNode(r) : r \in {x \in RoleIDs : ref \in refsOf[x]}}
                 grants == To("grants", roles)
             IN  Answer.resourceMap[ref] =
                     [roleCount    |-> Cardinality(roles),
                      bindingCount |-> Cardinality(grants),
                      subjectCount |-> Cardinality(To("subjects", grants))]

\* docs/query-guide.md:301-313: the counters.  matchedRoles counts the roles with a
\* matching rule, not the sources that are drawn next to them.
CountersAgreeWithGraph ==
    Answered =>
        /\ Answer.matchedRoles    = Cardinality({r \in RoleIDs : refsOf[r] # {}})
        /\ Answer.matchedBindings = Cardinality({n \in nodes : n[1] = "binding"})
        /\ Answer.matchedSubjects = Cardinality({n \in nodes : n[1] = "subject"})

\* docs/query-guide.md:221: with strict and namespaces, what is drawn acts in those
\* namespaces alone: the Roles and bindings are theirs, and every ClusterRole that
\* matches is bound in one of them (a ClusterRole drawn only as a source need not be).
StrictKeepsToTheScope ==
    Answered /\ strict /\ NamespaceFilter # {} =>
        /\ \A b \in snapshot.bindings : BindingNode(b) \in nodes => b.ns \in NamespaceFilter
        /\ \A r \in RoleIDs :
              RoleNode(r) \in nodes => snapshot.roles[r] \in NamespaceFilter \cup {Cluster}
        /\ \A r \in roleSeen : snapshot.roles[r] = Cluster =>
              \E b \in snapshot.bindings : <<RoleNode(r), "grants", BindingNode(b)>> \in edges

-----------------------------------------------------------------------------
(* What the documentation says and the code does not do. *)

\* docs/api-reference.md:102-103: an empty list of namespaces means all of them, and
\* strict leaves out the ClusterRoleBindings, which act at the level of the cluster.
StrictLeavesOutTheClusterWide ==
    Answered /\ strict => \A b \in snapshot.bindings : BindingNode(b) \in nodes => b.ns # Cluster
=============================================================================
