--------------------------- MODULE RoleGraphProofs ---------------------------
(***************************************************************************)
(* Theorems about RoleGraph, for any snapshot, any references that the     *)
(* matcher finds and any namespaces: whatever the order in which roles and *)
(* bindings come, what has been drawn is a function of the roles and       *)
(* bindings visited so far.                                                *)
(***************************************************************************)
EXTENDS RoleGraph, FiniteSetTheorems, TLAPS

\* The bindings of the matched roles visited so far, and those already drawn.
Reached == UNION {Bound(r) : r \in roleSeen}
Seen    == Reached \ bindings

\* The roles that have a node.
DrawnNodes == roleSeen \cup UNION {SourcesOf(r) : r \in roleSeen}

RequestOK ==
    /\ snapshot \in Snapshots
    /\ DOMAIN matches = RoleIDs

RolesOK ==
    /\ candidates \subseteq RoleIDs
    /\ roleSeen = {r \in RoleIDs \ candidates : ~Skipped(r)}

BindingsOK ==
    /\ bindings \subseteq Reached
    /\ \A b, c \in bindings : b.role = c.role

SeenOK ==
    /\ bindingSeen = {b.id : b \in Seen}
    /\ subjectSeen = UNION {b.subjects : b \in Seen}

NodesOK == nodes = {RoleNode(r) : r \in DrawnNodes} \cup {BindingNode(b) : b \in Seen}
                   \cup {SubjectNode(x) : x \in subjectSeen}

Aggregates == UNION {{<<RoleNode(x), "aggregates", RoleNode(r)>> : x \in SourcesOf(r)} : r \in roleSeen}
Grants     == {<<RoleNode(b.role), "grants", BindingNode(b)>> : b \in Seen}
Subjects   == UNION {{<<BindingNode(b), "subjects", SubjectNode(x)>> : x \in b.subjects} : b \in Seen}

EdgesOK == edges = Aggregates \cup Grants \cup Subjects

RoleNodesOK ==
    /\ refsOf = [r \in RoleIDs |-> IF r \in roleSeen THEN Matched(r) ELSE {}]
    /\ sourcesOf = [r \in RoleIDs |-> IF r \in DrawnNodes THEN SourcesOf(r) ELSE {}]

\* What the row of a reference has counted.
RolesOf(ref)    == {r \in roleSeen : ref \in Matched(r) /\ (Bound(r) = {} \/ Bound(r) \cap Seen # {})}
BindingsOf(ref) == {b \in Seen : ref \in Matched(b.role)}

RowOf(ref) == [roles    |-> RolesOf(ref),
               bindings |-> {b.id : b \in BindingsOf(ref)},
               subjects |-> UNION {b.subjects : b \in BindingsOf(ref)}]

RowsOK == rows = [ref \in AllRefs |-> RowOf(ref)]

StatusOK == status = << >> \/
    /\ Looped
    /\ status = <<[matchedRoles    |-> Cardinality(roleSeen),
                   matchedBindings |-> Cardinality(bindingSeen),
                   matchedSubjects |-> Cardinality(subjectSeen),
                   resourceMap     |-> CollapseRows]>>

GraphInv == /\ RequestOK /\ RolesOK /\ BindingsOK /\ SeenOK /\ NodesOK /\ EdgesOK
       /\ RoleNodesOK /\ RowsOK /\ StatusOK

-----------------------------------------------------------------------------
(* The parts of a snapshot. *)

\* What binds a role binds no other.
LEMMA BoundOf ==
    ASSUME NEW r, NEW b \in Bound(r)
    PROVE  b.role = r /\ b \in snapshot.bindings /\ AllowNamespace(NamespaceFilter, b.ns, strict)
BY DEF Bound, FilterBindings

\* A role's sources are roles of the snapshot.
LEMMA SourcesAreRoles == \A r : SourcesOf(r) \subseteq RoleIDs
BY DEF SourcesOf

\* Matched references are among all references.
LEMMA MatchedRefs == \A r \in RoleIDs : Matched(r) \subseteq AllRefs
BY DEF Matched, FilterPhantomRefs, AllRefs

\* A step that leaves the request as it is leaves what is read from it.
LEMMA RequestKept ==
    ASSUME UNCHANGED query
    PROVE  /\ RoleIDs' = RoleIDs /\ AllRefs' = AllRefs
           /\ \A r : /\ Matched(r)' = Matched(r) /\ SourcesOf(r)' = SourcesOf(r)
                     /\ Bound(r)' = Bound(r) /\ Skipped(r)' = Skipped(r)
BY DEF query, RoleIDs, AllRefs, Matched, FilterPhantomRefs, SourcesOf, Bound, NamespaceFilter, Skipped

-----------------------------------------------------------------------------
\* The empty graph is in order.
LEMMA GraphInitInv == GraphInit => GraphInv
<1> SUFFICES ASSUME GraphInit PROVE GraphInv
    OBVIOUS
<1>1. roleSeen = {} /\ Reached = {} /\ Seen = {} /\ DrawnNodes = {}
    BY DEF GraphInit, Reached, Seen, DrawnNodes
<1>2. RequestOK /\ RolesOK /\ BindingsOK /\ SeenOK /\ StatusOK
    BY <1>1 DEF GraphInit, RequestOK, RoleIDs, RolesOK, BindingsOK, SeenOK, StatusOK
<1>3. NodesOK /\ EdgesOK
    BY <1>1 DEF GraphInit, NodesOK, EdgesOK, Aggregates, Grants, Subjects
<1>4. RoleNodesOK
    BY <1>1 DEF GraphInit, RoleNodesOK, RoleIDs
<1>5. RowsOK
  <2>1. \A ref : RowOf(ref) = NoRow
      BY <1>1 DEF RowOf, RolesOf, BindingsOf, NoRow
  <2>2. AllRefs = UNION {matches[r] : r \in DOMAIN matches}
      BY DEF GraphInit, AllRefs, RoleIDs
  <2> QED BY <2>1, <2>2 DEF GraphInit, RowsOK
<1> QED BY <1>2, <1>3, <1>4, <1>5 DEF GraphInv

\* A role that is skipped leaves no trace.
LEMMA SkipKeeps == GraphInv /\ SkipRole => GraphInv'
<1> SUFFICES ASSUME GraphInv, SkipRole PROVE GraphInv'
    OBVIOUS
<1> USE DEF GraphInv
<1>0. UNCHANGED query
    BY DEF SkipRole
<1>1. PICK r \in candidates : Skipped(r) /\ candidates' = candidates \ {r}
    BY DEF SkipRole
<1>2. /\ roleSeen' = roleSeen /\ bindings' = bindings /\ Seen' = Seen /\ DrawnNodes' = DrawnNodes
      /\ Reached' = Reached
    BY <1>0, RequestKept DEF SkipRole, Seen, Reached, DrawnNodes
<1>3. RequestOK' /\ BindingsOK' /\ SeenOK' /\ NodesOK'
    BY <1>0, <1>2, RequestKept DEF SkipRole, query, RequestOK, BindingsOK, SeenOK, NodesOK,
       RoleNode, BindingNode, SubjectNode
<1>4. RolesOK'
    BY <1>0, <1>1, <1>2, RequestKept DEF RolesOK
<1>5. EdgesOK'
    BY <1>0, <1>2, RequestKept DEF SkipRole, EdgesOK, Aggregates, Grants, Subjects,
       RoleNode, BindingNode, SubjectNode
<1>6. RoleNodesOK'
    BY <1>0, <1>2, RequestKept DEF SkipRole, RoleNodesOK
<1>7. RowsOK'
  <2>1. \A ref : RowOf(ref)' = RowOf(ref)
    <3> TAKE ref
    <3>1. RolesOf(ref)' = RolesOf(ref)
        BY <1>0, <1>2, RequestKept DEF RolesOf
    <3>2. BindingsOf(ref)' = BindingsOf(ref)
        BY <1>0, <1>2, RequestKept DEF BindingsOf
    <3> QED BY <3>1, <3>2, Zenon DEF RowOf
  <2>2. rows' = rows /\ AllRefs' = AllRefs
      BY <1>0, RequestKept DEF SkipRole
  <2>3. rows = [ref \in AllRefs |-> RowOf(ref)]
      BY DEF RowsOK
  <2>4. rows' = [ref \in AllRefs' |-> RowOf(ref)']
      BY <2>1, <2>2, <2>3, Zenon
  <2> QED BY <2>4 DEF RowsOK
<1>8. StatusOK'
  <2>1. status = << >>
      BY <1>1 DEF StatusOK, Looped
  <2> QED BY <2>1 DEF SkipRole, StatusOK
<1> QED BY <1>3, <1>4, <1>5, <1>6, <1>7, <1>8

-----------------------------------------------------------------------------
\* A visited role is drawn with its sources, and counted if nothing binds it.
LEMMA VisitRoleKeeps == GraphInv /\ VisitRole => GraphInv'
<1> SUFFICES ASSUME GraphInv, VisitRole PROVE GraphInv'
    OBVIOUS
<1> USE DEF GraphInv
<1>0. UNCHANGED query /\ bindings = {} /\ status' = status
      /\ bindingSeen' = bindingSeen /\ subjectSeen' = subjectSeen
    BY DEF VisitRole
<1>1. PICK r \in candidates :
          /\ ~Skipped(r)
          /\ candidates' = candidates \ {r}
          /\ UpsertRoleNodes(r)
          /\ roleSeen' = roleSeen \cup {r}
          /\ edges' = edges \cup {<<RoleNode(x), "aggregates", RoleNode(r)>> : x \in SourcesOf(r)}
          /\ bindings' = Bound(r)
          /\ rows' = IF Bound(r) = {} THEN Accumulate(Matched(r), {r}, {}, {}) ELSE rows
    BY DEF VisitRole
<1>2. r \in RoleIDs /\ r \notin roleSeen
    BY <1>1 DEF RolesOK
<1>3. Seen = Reached /\ Reached \cap Bound(r) = {}
    BY <1>0, <1>2, BoundOf DEF Seen, Reached
<1>4. Reached' = Reached \cup Bound(r)
    BY <1>0, <1>1, RequestKept DEF Reached
<1>5. Seen' = Seen
    BY <1>1, <1>3, <1>4 DEF Seen
<1>6. DrawnNodes' = DrawnNodes \cup SourcesOf(r) \cup {r}
    BY <1>0, <1>1, RequestKept DEF DrawnNodes
<1>7. RequestOK'
    BY <1>0, RequestKept DEF query, RequestOK
<1>8. RolesOK'
    BY <1>0, <1>1, <1>2, RequestKept DEF RolesOK
<1>9. BindingsOK'
    BY <1>1, <1>4, BoundOf DEF BindingsOK
<1>10. SeenOK'
    BY <1>0, <1>5 DEF SeenOK
<1>11. NodesOK'
    BY <1>0, <1>1, <1>5, <1>6 DEF NodesOK, UpsertRoleNodes, RoleNode, BindingNode, SubjectNode
<1>12. EdgesOK'
  <2>1. Aggregates' = Aggregates \cup {<<RoleNode(x), "aggregates", RoleNode(r)>> : x \in SourcesOf(r)}
    <3> DEFINE E(q) == {<<RoleNode(x), "aggregates", RoleNode(q)>> : x \in SourcesOf(q)}
    <3>1. \A q : E(q)' = E(q)
        BY <1>0, RequestKept DEF RoleNode
    <3>2. Aggregates' = UNION {E(q) : q \in roleSeen'}
        BY <3>1 DEF Aggregates
    <3> HIDE DEF E
    <3>3. UNION {E(q) : q \in roleSeen'} = (UNION {E(q) : q \in roleSeen}) \cup E(r)
        BY <1>1
    <3> QED BY <3>2, <3>3 DEF Aggregates, E
  <2>2. Grants' = Grants /\ Subjects' = Subjects
      BY <1>5 DEF Grants, Subjects, RoleNode, BindingNode, SubjectNode
  <2> QED BY <1>1, <2>1, <2>2 DEF EdgesOK
<1>13. RoleNodesOK'
  <2>1. refsOf' = [q \in RoleIDs |-> IF q \in roleSeen' THEN Matched(q) ELSE {}]
      BY <1>1, <1>2 DEF UpsertRoleNodes, RoleNodesOK
  <2>2. sourcesOf' = [q \in RoleIDs |-> IF q \in DrawnNodes' THEN SourcesOf(q) ELSE {}]
      BY <1>1, <1>6 DEF UpsertRoleNodes, RoleNodesOK
  <2> QED BY <1>0, <2>1, <2>2, RequestKept DEF RoleNodesOK
<1>14. RowsOK'
  <2>1. \A ref \in AllRefs : BindingsOf(ref)' = BindingsOf(ref)
      BY <1>0, <1>5, RequestKept DEF BindingsOf
  <2>2. \A ref \in AllRefs :
            RolesOf(ref)' = IF Bound(r) = {} /\ ref \in Matched(r) THEN RolesOf(ref) \cup {r} ELSE RolesOf(ref)
      BY <1>0, <1>1, <1>3, <1>5, RequestKept DEF RolesOf
  <2>3. \A ref \in AllRefs : RowOf(ref)' = rows'[ref]
    <3> TAKE ref \in AllRefs
    <3>1. CASE Bound(r) = {} /\ ref \in Matched(r)
        BY <1>1, <2>1, <2>2, <3>1 DEF RowsOK, RowOf, Accumulate
    <3>2. CASE Bound(r) = {} /\ ref \notin Matched(r)
        BY <1>1, <2>1, <2>2, <3>2 DEF RowsOK, RowOf, Accumulate
    <3>3. CASE Bound(r) # {}
        BY <1>1, <2>1, <2>2, <3>3 DEF RowsOK, RowOf
    <3> QED BY <3>1, <3>2, <3>3
  <2>4. rows' = [ref \in AllRefs |-> rows'[ref]]
      BY <1>1 DEF RowsOK, Accumulate
  <2>5. rows' = [ref \in AllRefs |-> RowOf(ref)']
      BY <2>3, <2>4, Zenon
  <2> QED BY <1>0, <2>5, RequestKept DEF RowsOK
<1>15. StatusOK'
  <2>1. status = << >>
      BY <1>1 DEF StatusOK, Looped
  <2> QED BY <1>0, <2>1 DEF StatusOK
<1> QED BY <1>7, <1>8, <1>9, <1>10, <1>11, <1>12, <1>13, <1>14, <1>15

\* A binding is drawn with its subjects, and its role is counted in the rows.
LEMMA VisitBindingKeeps == GraphInv /\ VisitBinding => GraphInv'
<1> SUFFICES ASSUME GraphInv, VisitBinding PROVE GraphInv'
    OBVIOUS
<1> USE DEF GraphInv
<1>0. /\ UNCHANGED query /\ candidates' = candidates /\ roleSeen' = roleSeen /\ status' = status
      /\ refsOf' = refsOf /\ sourcesOf' = sourcesOf
    BY DEF VisitBinding
<1>1. PICK b \in bindings :
          /\ bindings' = bindings \ {b}
          /\ nodes' = nodes \cup {BindingNode(b)} \cup {SubjectNode(x) : x \in b.subjects}
          /\ edges' = edges \cup {<<RoleNode(b.role), "grants", BindingNode(b)>>}
                            \cup {<<BindingNode(b), "subjects", SubjectNode(x)>> : x \in b.subjects}
          /\ bindingSeen' = bindingSeen \cup {b.id}
          /\ subjectSeen' = subjectSeen \cup b.subjects
          /\ rows' = Accumulate(Matched(b.role), {b.role}, {b.id}, b.subjects)
    BY DEF VisitBinding
<1>2. b.role \in roleSeen /\ b \in Bound(b.role)
    BY BoundOf DEF BindingsOK, Reached
<1>3. Reached' = Reached /\ DrawnNodes' = DrawnNodes
    BY <1>0, RequestKept DEF Reached, DrawnNodes
<1>4. Seen' = Seen \cup {b}
    BY <1>1, <1>3 DEF Seen, BindingsOK
<1>5. RequestOK' /\ RolesOK' /\ BindingsOK'
    BY <1>0, <1>1, <1>3, RequestKept DEF query, RequestOK, RolesOK, BindingsOK
<1>6. SeenOK'
    BY <1>1, <1>4 DEF SeenOK
<1>7. NodesOK'
    BY <1>1, <1>3, <1>4 DEF NodesOK, RoleNode, BindingNode, SubjectNode
<1>8. EdgesOK'
  <2> DEFINE G == <<RoleNode(b.role), "grants", BindingNode(b)>>
             E(c) == {<<BindingNode(c), "subjects", SubjectNode(x)>> : x \in c.subjects}
  <2>1. Aggregates' = Aggregates
      BY <1>0, RequestKept DEF Aggregates, RoleNode
  <2>2. Grants' = Grants \cup {G}
      BY <1>4 DEF Grants, RoleNode, BindingNode
  <2>3. Subjects' = Subjects \cup E(b)
    <3>1. Subjects' = UNION {E(c) : c \in Seen'}
        BY DEF Subjects, BindingNode, SubjectNode
    <3> HIDE DEF E
    <3>2. UNION {E(c) : c \in Seen'} = (UNION {E(c) : c \in Seen}) \cup E(b)
        BY <1>4
    <3> QED BY <3>1, <3>2 DEF Subjects, E
  <2> HIDE DEF G, E
  <2>4. edges' = edges \cup {G} \cup E(b)
      BY <1>1 DEF G, E
  <2> QED BY <2>1, <2>2, <2>3, <2>4 DEF EdgesOK
<1>9. RoleNodesOK'
    BY <1>0, <1>3, RequestKept DEF RoleNodesOK
<1>10. RowsOK'
  <2>1. \A ref \in AllRefs :
            BindingsOf(ref)' = IF ref \in Matched(b.role) THEN BindingsOf(ref) \cup {b} ELSE BindingsOf(ref)
      BY <1>0, <1>4, RequestKept DEF BindingsOf
  <2>2. \A ref \in AllRefs :
            RolesOf(ref)' = IF ref \in Matched(b.role) THEN RolesOf(ref) \cup {b.role} ELSE RolesOf(ref)
      BY <1>0, <1>2, <1>4, BoundOf, RequestKept DEF RolesOf
  <2>3. \A ref \in AllRefs : RowOf(ref)' = rows'[ref]
    <3> TAKE ref \in AllRefs
    <3>1. CASE ref \in Matched(b.role)
        BY <1>1, <2>1, <2>2, <3>1 DEF RowsOK, RowOf, Accumulate
    <3>2. CASE ref \notin Matched(b.role)
        BY <1>1, <2>1, <2>2, <3>2 DEF RowsOK, RowOf, Accumulate
    <3> QED BY <3>1, <3>2
  <2>4. rows' = [ref \in AllRefs |-> rows'[ref]]
      BY <1>1 DEF RowsOK, Accumulate
  <2>5. rows' = [ref \in AllRefs |-> RowOf(ref)']
      BY <2>3, <2>4, Zenon
  <2> QED BY <1>0, <2>5, RequestKept DEF RowsOK
<1>11. StatusOK'
  <2>1. status = << >>
      BY <1>1 DEF StatusOK, Looped
  <2> QED BY <1>0, <2>1 DEF StatusOK
<1> QED BY <1>5, <1>6, <1>7, <1>8, <1>9, <1>10, <1>11

\* The answer is made from what has been counted, once the loop has ended.
LEMMA FinalizeKeeps == GraphInv /\ (Finalize \/ UNCHANGED graphVars) => GraphInv'
<1> SUFFICES ASSUME GraphInv, Finalize \/ UNCHANGED graphVars PROVE GraphInv'
    OBVIOUS
<1> USE DEF GraphInv
<1>0. /\ UNCHANGED query
      /\ UNCHANGED <<candidates, bindings, nodes, edges, sourcesOf, refsOf, roleSeen, bindingSeen,
                     subjectSeen, rows>>
    BY DEF Finalize, graphVars
<1>1. Seen' = Seen /\ Reached' = Reached /\ DrawnNodes' = DrawnNodes
    BY <1>0, RequestKept DEF Seen, Reached, DrawnNodes
<1>2. RequestOK' /\ RolesOK' /\ BindingsOK' /\ SeenOK'
    BY <1>0, <1>1, RequestKept DEF query, RequestOK, RolesOK, BindingsOK, SeenOK
<1>3. NodesOK' /\ RoleNodesOK'
    BY <1>0, <1>1, RequestKept DEF NodesOK, RoleNodesOK, RoleNode, BindingNode, SubjectNode
<1>4. EdgesOK'
    BY <1>0, <1>1, RequestKept DEF EdgesOK, Aggregates, Grants, Subjects, RoleNode, BindingNode, SubjectNode
<1>5. RowsOK'
  <2>1. \A ref : RowOf(ref)' = RowOf(ref)
    <3> TAKE ref
    <3>1. RolesOf(ref)' = RolesOf(ref)
        BY <1>0, <1>1, RequestKept DEF RolesOf
    <3>2. BindingsOf(ref)' = BindingsOf(ref)
        BY <1>0, <1>1, RequestKept DEF BindingsOf
    <3> QED BY <3>1, <3>2, Zenon DEF RowOf
  <2>2. rows' = rows /\ AllRefs' = AllRefs
      BY <1>0, RequestKept
  <2>3. rows = [ref \in AllRefs |-> RowOf(ref)]
      BY DEF RowsOK
  <2>4. rows' = [ref \in AllRefs' |-> RowOf(ref)']
      BY <2>1, <2>2, <2>3, Zenon
  <2> QED BY <2>4 DEF RowsOK
<1>6. StatusOK'
    BY <1>0 DEF StatusOK, Looped, Finalize, graphVars, CollapseRows
<1> QED BY <1>2, <1>3, <1>4, <1>5, <1>6

\* So the invariant always holds.
LEMMA InvHolds == GraphSpec => []GraphInv
<1>1. GraphInv /\ [GraphNext]_graphVars => GraphInv'
    BY SkipKeeps, VisitRoleKeeps, VisitBindingKeeps, FinalizeKeeps DEF GraphNext
<1> QED BY GraphInitInv, <1>1, PTL DEF GraphSpec

-----------------------------------------------------------------------------
(* What holds when the answer is made. *)

\* A node that stands for an element of a set, under a kind of its own, is counted once.
LEMMA Tagged ==
    ASSUME NEW k, NEW S, IsFiniteSet(S)
    PROVE  Cardinality({<<k, x>> : x \in S}) = Cardinality(S)
<1> DEFINE T == {<<k, x>> : x \in S}
           f == [x \in S |-> <<k, x>>]
<1>1. f \in Bijection(S, T)
    BY DEF Bijection, Injection, Surjection, IsInjective
<1>2. ExistsBijection(S, T)
    BY <1>1 DEF ExistsBijection
<1> QED BY <1>2, FS_Bijection

\* The image of a finite set is finite.
LEMMA ImageIsFinite ==
    ASSUME NEW S, IsFiniteSet(S), NEW f
    PROVE  IsFiniteSet({f[x] : x \in S})
<1> DEFINE T == {f[x] : x \in S}
           g == [x \in S |-> f[x]]
<1>1. g \in Surjection(S, T)
    BY DEF Surjection
<1> QED BY <1>1, FS_Surjection

\* The keys of some bindings, and the subjects of them all, are finitely many.
LEMMA BindingsAreFinite ==
    ASSUME RequestOK, NEW B \in SUBSET snapshot.bindings
    PROVE  IsFiniteSet({b.id : b \in B}) /\ IsFiniteSet(UNION {b.subjects : b \in B})
<1>1. IsFiniteSet(B)
    BY SnapshotsAssumption, FS_Subset DEF RequestOK
<1> DEFINE ids == [b \in B |-> b.id]
           subjects == [b \in B |-> b.subjects]
<1>2. {b.id : b \in B} = {ids[b] : b \in B}
    OBVIOUS
<1>3. {b.subjects : b \in B} = {subjects[b] : b \in B}
    OBVIOUS
<1> HIDE DEF ids, subjects
<1>4. IsFiniteSet({b.id : b \in B}) /\ IsFiniteSet({b.subjects : b \in B})
  <2>1. IsFiniteSet({ids[b] : b \in B})
      BY <1>1, ImageIsFinite
  <2>2. IsFiniteSet({subjects[b] : b \in B})
      BY <1>1, ImageIsFinite
  <2> QED BY <1>2, <1>3, <2>1, <2>2
<1>5. \A T \in {b.subjects : b \in B} : IsFiniteSet(T)
    BY SnapshotsAssumption DEF RequestOK
<1> QED BY <1>4, <1>5, FS_UNION

\* At the end every role has been visited, and every binding of a matched role drawn.
LEMMA AtTheEnd ==
    ASSUME GraphInv, Answered
    PROVE  /\ candidates = {} /\ bindings = {}
           /\ roleSeen = Shown
           /\ Seen = UNION {Bound(r) : r \in Shown}
           /\ Answer = [matchedRoles    |-> Cardinality(roleSeen),
                        matchedBindings |-> Cardinality(bindingSeen),
                        matchedSubjects |-> Cardinality(subjectSeen),
                        resourceMap     |-> CollapseRows]
<1>1. candidates = {} /\ bindings = {}
    BY DEF GraphInv, Answered, StatusOK, Looped
<1>2. roleSeen = Shown
    BY <1>1 DEF GraphInv, RolesOK, Shown
<1>3. Seen = UNION {Bound(r) : r \in Shown}
    BY <1>1, <1>2 DEF Seen, Reached
<1> QED BY <1>1, <1>2, <1>3 DEF GraphInv, Answered, StatusOK, Answer

\* Only the nodes of the drawn roles and bindings are nodes of roles and bindings.
LEMMA NodesOf ==
    ASSUME GraphInv
    PROVE  /\ \A r : RoleNode(r) \in nodes <=> r \in DrawnNodes
           /\ {n \in nodes : n[1] = "binding"} = {<<"binding", i>> : i \in bindingSeen}
           /\ {n \in nodes : n[1] = "subject"} = {<<"subject", x>> : x \in subjectSeen}
<1>1. \A r : RoleNode(r) \in nodes <=> r \in DrawnNodes
    BY DEF GraphInv, NodesOK, RoleNode, BindingNode, SubjectNode
<1>2. {n \in nodes : n[1] = "binding"} = {<<"binding", i>> : i \in bindingSeen}
    BY DEF GraphInv, NodesOK, SeenOK, RoleNode, BindingNode, SubjectNode
<1>3. {n \in nodes : n[1] = "subject"} = {<<"subject", x>> : x \in subjectSeen}
    BY DEF GraphInv, NodesOK, RoleNode, BindingNode, SubjectNode
<1> QED BY <1>1, <1>2, <1>3

\* What has been seen is part of the snapshot.
LEMMA SeenOfSnapshot ==
    ASSUME GraphInv
    PROVE  /\ Seen \subseteq snapshot.bindings
           /\ \A b \in Seen : b.role \in roleSeen
           /\ roleSeen \subseteq RoleIDs /\ DrawnNodes \subseteq RoleIDs
BY BoundOf, SourcesAreRoles DEF GraphInv, Seen, Reached, RolesOK, DrawnNodes

-----------------------------------------------------------------------------
(* The theorems. *)

\* GraphTypeOK follows: edges end at nodes, and the bindings under way are of one role.
LEMMA InvTypeOK == GraphInv => GraphTypeOK
<1> SUFFICES ASSUME GraphInv PROVE GraphTypeOK
    OBVIOUS
<1>1. candidates \subseteq RoleIDs /\ roleSeen \subseteq RoleIDs
    BY DEF GraphInv, RolesOK
<1>2. bindings \subseteq snapshot.bindings /\ \A b, c \in bindings : b.role = c.role
    BY BoundOf DEF GraphInv, BindingsOK, Reached
<1>3. \A e \in edges : {e[1], e[3]} \subseteq nodes
  <2>1. \A e \in Aggregates : {e[1], e[3]} \subseteq nodes
      BY DEF Aggregates, GraphInv, NodesOK, DrawnNodes
  <2>2. \A e \in Grants : {e[1], e[3]} \subseteq nodes
      BY SeenOfSnapshot DEF Grants, GraphInv, NodesOK, DrawnNodes
  <2>3. \A e \in Subjects : {e[1], e[3]} \subseteq nodes
      BY DEF Subjects, GraphInv, NodesOK, SeenOK
  <2> QED BY <2>1, <2>2, <2>3 DEF GraphInv, EdgesOK
<1>4. DOMAIN sourcesOf = RoleIDs /\ DOMAIN refsOf = RoleIDs /\ DOMAIN rows = AllRefs
    BY DEF GraphInv, RoleNodesOK, RowsOK
<1> QED BY <1>1, <1>2, <1>3, <1>4 DEF GraphTypeOK

\* Every state has its type: no edge ends outside the graph while it is drawn.
THEOREM GraphTypes == GraphSpec => []GraphTypeOK
BY InvHolds, InvTypeOK, PTL

\* At the end the invariant says what is drawn.
LEMMA InvOrder == GraphInv => OrderDoesNotMatter
<1> SUFFICES ASSUME GraphInv, Answered PROVE OrderDoesNotMatter
    BY DEF OrderDoesNotMatter
<1>1. \A r \in RoleIDs :
          refsOf[r] = {x \in matches[r] : r \in Shown /\ (filterPhantoms => x \notin Phantoms)}
    BY AtTheEnd DEF GraphInv, RoleNodesOK, Matched, FilterPhantomRefs
<1>2. \A r \in RoleIDs : sourcesOf[r] = IF RoleNode(r) \in nodes THEN SourcesOf(r) ELSE {}
    BY NodesOf DEF GraphInv, RoleNodesOK
<1>3. nodes = {RoleNode(r) : r \in Shown \cup UNION {SourcesOf(r) : r \in Shown}}
              \cup UNION {{BindingNode(b)} \cup {SubjectNode(x) : x \in b.subjects} :
                          b \in UNION {Bound(r) : r \in Shown}}
    BY AtTheEnd DEF GraphInv, NodesOK, SeenOK, DrawnNodes
<1> QED BY <1>1, <1>2, <1>3 DEF OrderDoesNotMatter

\* The finished graph is a function of the snapshot and the request: it does not depend
\* on the order in which roles and bindings were visited.
THEOREM GraphIsAFunction == GraphSpec => []OrderDoesNotMatter
BY InvHolds, InvOrder, PTL

\* The counters count elements; nodes stand for them one for one.
LEMMA InvCounters == GraphInv => CountersAgreeWithGraph
<1> SUFFICES ASSUME GraphInv, Answered PROVE CountersAgreeWithGraph
    BY DEF CountersAgreeWithGraph
<1>1. roleSeen = {r \in RoleIDs : refsOf[r] # {}}
    BY DEF GraphInv, RoleNodesOK, RolesOK, Skipped
<1>2. IsFiniteSet(bindingSeen) /\ IsFiniteSet(subjectSeen)
    BY BindingsAreFinite, SeenOfSnapshot DEF GraphInv, SeenOK
<1>3. Cardinality({n \in nodes : n[1] = "binding"}) = Cardinality(bindingSeen)
  <2>1. Cardinality({<<"binding", i>> : i \in bindingSeen}) = Cardinality(bindingSeen)
      BY <1>2, Tagged
  <2> QED BY <2>1, NodesOf
<1>4. Cardinality({n \in nodes : n[1] = "subject"}) = Cardinality(subjectSeen)
  <2>1. Cardinality({<<"subject", x>> : x \in subjectSeen}) = Cardinality(subjectSeen)
      BY <1>2, Tagged
  <2> QED BY <2>1, NodesOf
<1> QED BY <1>1, <1>3, <1>4, AtTheEnd DEF CountersAgreeWithGraph

\* The counters of the answer are those of the drawn graph.
THEOREM CountersAgree == GraphSpec => []CountersAgreeWithGraph
BY InvHolds, InvCounters, PTL

\* What a strict scope with namespaces lets through.
LEMMA InvStrict == GraphInv => StrictKeepsToTheScope
<1> SUFFICES ASSUME GraphInv, Answered, strict, NamespaceFilter # {} PROVE StrictKeepsToTheScope
    BY DEF StrictKeepsToTheScope
<1>1. snapshot \in Snapshots
    BY DEF GraphInv, RequestOK
<1>2. \A b \in snapshot.bindings : BindingNode(b) \in nodes => b \in Seen
    BY <1>1, SeenOfSnapshot, SnapshotsAssumption DEF GraphInv, NodesOK, RoleNode, BindingNode, SubjectNode
<1>3. \A b \in Seen : b.ns \in NamespaceFilter
    BY AtTheEnd, BoundOf DEF AllowNamespace
<1>4. \A r \in roleSeen : snapshot.roles[r] \in NamespaceFilter \cup {Cluster}
    BY DEF GraphInv, RolesOK, Skipped, AllowNamespace
<1>5. \A r \in DrawnNodes \ roleSeen : snapshot.roles[r] = Cluster
    BY <1>1, SnapshotsAssumption DEF DrawnNodes, SourcesOf, RoleIDs
<1>6. \A r \in roleSeen : snapshot.roles[r] = Cluster =>
          \E b \in snapshot.bindings : <<RoleNode(r), "grants", BindingNode(b)>> \in edges
  <2> TAKE r \in roleSeen
  <2> HAVE snapshot.roles[r] = Cluster
  <2>1. PICK b \in Bound(r) : TRUE
      BY DEF GraphInv, RolesOK, Skipped
  <2>2. b \in Seen /\ b.role = r /\ b \in snapshot.bindings
      BY <2>1, AtTheEnd, BoundOf
  <2>3. <<RoleNode(r), "grants", BindingNode(b)>> \in Grants
      BY <2>2 DEF Grants
  <2> QED BY <2>2, <2>3 DEF GraphInv, EdgesOK
<1>7. \A r \in RoleIDs : RoleNode(r) \in nodes => snapshot.roles[r] \in NamespaceFilter \cup {Cluster}
    BY <1>4, <1>5, NodesOf
<1> QED BY <1>2, <1>3, <1>6, <1>7 DEF StrictKeepsToTheScope

\* strict keeps the graph to the namespaces that are named.
THEOREM StrictKeeps == GraphSpec => []StrictKeepsToTheScope
BY InvHolds, InvStrict, PTL

-----------------------------------------------------------------------------
(* The resource map. *)

\* The nodes of a set of roles, and what edges of a type lead to from them.
LEMMA GrantsOf ==
    ASSUME GraphInv, NEW R
    PROVE  To("grants", {RoleNode(r) : r \in R}) = {BindingNode(b) : b \in {c \in Seen : c.role \in R}}
<1>1. {e \in edges : e[2] = "grants"} = Grants
    BY DEF GraphInv, EdgesOK, Aggregates, Grants, Subjects
<1>2. To("grants", {RoleNode(r) : r \in R}) = {e[3] : e \in {x \in Grants : x[1] \in {RoleNode(r) : r \in R}}}
    BY <1>1 DEF To
<1> DEFINE E == {x \in Grants : x[1] \in {RoleNode(r) : r \in R}}
           B == {c \in Seen : c.role \in R}
<1>3. \A e \in E : \E b \in B : e[3] = BindingNode(b)
    BY DEF Grants, RoleNode
<1>4. \A b \in B : <<RoleNode(b.role), "grants", BindingNode(b)>> \in E
    BY DEF Grants
<1> HIDE DEF E, B
<1>5. \A b \in B : \E e \in E : e[3] = BindingNode(b)
    BY <1>4
<1>6. {e[3] : e \in E} = {BindingNode(b) : b \in B}
    BY <1>3, <1>5
<1> QED BY <1>2, <1>6 DEF E, B

\* A binding has its key for itself, so its node leads to its own subjects and no other.
LEMMA SubjectsOf ==
    ASSUME GraphInv, NEW B \in SUBSET Seen
    PROVE  To("subjects", {BindingNode(b) : b \in B}) =
               {SubjectNode(x) : x \in UNION {b.subjects : b \in B}}
<1>1. \A b, c \in Seen : b.id = c.id => b = c
    BY SeenOfSnapshot, SnapshotsAssumption DEF GraphInv, RequestOK
<1>2. To("subjects", {BindingNode(b) : b \in B}) =
          {e[3] : e \in {x \in Subjects : x[1] \in {BindingNode(b) : b \in B}}}
    BY DEF GraphInv, EdgesOK, To, Aggregates, Grants, Subjects
<1> DEFINE E == {x \in Subjects : x[1] \in {BindingNode(b) : b \in B}}
<1>3. \A e \in E : \E b \in B : \E x \in b.subjects : e[3] = SubjectNode(x)
    BY <1>1 DEF Subjects, BindingNode
<1>4. \A b \in B : \A x \in b.subjects : <<BindingNode(b), "subjects", SubjectNode(x)>> \in E
    BY DEF Subjects
<1> HIDE DEF E
<1>5. \A b \in B : \A x \in b.subjects : \E e \in E : e[3] = SubjectNode(x)
    BY <1>4
<1>6. {e[3] : e \in E} = {SubjectNode(x) : x \in UNION {b.subjects : b \in B}}
    BY <1>3, <1>5
<1> QED BY <1>2, <1>6 DEF E

\* At the end a row counts every role that matches with its reference.
LEMMA RolesAtTheEnd ==
    ASSUME GraphInv, Answered, NEW ref
    PROVE  /\ RolesOf(ref) = {r \in roleSeen : ref \in Matched(r)}
           /\ RolesOf(ref) = {r \in RoleIDs : ref \in refsOf[r]}
<1>1. RolesOf(ref) = {r \in roleSeen : ref \in Matched(r)}
    BY AtTheEnd DEF RolesOf
<1> QED BY <1>1, SeenOfSnapshot DEF GraphInv, RoleNodesOK

\* A row counts the roles, keys and subjects; the graph has nodes for them, one for one.
LEMMA InvRows == GraphInv => RowsAgreeWithGraph
<1> SUFFICES ASSUME GraphInv, Answered PROVE RowsAgreeWithGraph
    BY DEF RowsAgreeWithGraph
<1>1. Answer.resourceMap = CollapseRows
    BY AtTheEnd
<1>2. DOMAIN CollapseRows = {ref \in AllRefs : RolesOf(ref) # {}}
    BY DEF GraphInv, RowsOK, RowOf, CollapseRows
<1>3. DOMAIN CollapseRows = UNION {refsOf[r] : r \in RoleIDs}
    BY <1>2, RolesAtTheEnd, SeenOfSnapshot, MatchedRefs DEF GraphInv, RoleNodesOK
<1>4. ASSUME NEW ref \in DOMAIN CollapseRows
      PROVE  CollapseRows[ref] =
                 LET roles  == {RoleNode(r) : r \in {x \in RoleIDs : ref \in refsOf[x]}}
                     grants == To("grants", roles)
                 IN  [roleCount    |-> Cardinality(roles),
                      bindingCount |-> Cardinality(grants),
                      subjectCount |-> Cardinality(To("subjects", grants))]
  <2> DEFINE R == RolesOf(ref)
             B == BindingsOf(ref)
             roles == {RoleNode(r) : r \in {x \in RoleIDs : ref \in refsOf[x]}}
             grants == To("grants", roles)
  <2>1. CollapseRows[ref] = [roleCount    |-> Cardinality(R),
                             bindingCount |-> Cardinality({b.id : b \in B}),
                             subjectCount |-> Cardinality(UNION {b.subjects : b \in B})]
      BY <1>2 DEF GraphInv, RowsOK, RowOf, CollapseRows
  <2>2. roles = {<<"role", r>> : r \in R}
      BY RolesAtTheEnd DEF RoleNode
  <2>3. B = {c \in Seen : c.role \in R} /\ B \subseteq Seen
      BY RolesAtTheEnd, SeenOfSnapshot DEF BindingsOf
  <2>4. grants = {BindingNode(b) : b \in B}
    <3>1. roles = {RoleNode(r) : r \in R}
        BY RolesAtTheEnd
    <3>2. To("grants", {RoleNode(r) : r \in R}) = {BindingNode(b) : b \in {c \in Seen : c.role \in R}}
        BY GrantsOf
    <3> QED BY <2>3, <3>1, <3>2
  <2>5. To("subjects", grants) = {<<"subject", x>> : x \in UNION {b.subjects : b \in B}}
      BY <2>3, <2>4, SubjectsOf DEF SubjectNode
  <2>6. grants = {<<"binding", i>> : i \in {b.id : b \in B}}
      BY <2>4 DEF BindingNode
  <2>7. IsFiniteSet(R)
      BY SeenOfSnapshot, SnapshotsAssumption, FS_Subset DEF GraphInv, RequestOK, RolesOf, RoleIDs
  <2>8. IsFiniteSet({b.id : b \in B}) /\ IsFiniteSet(UNION {b.subjects : b \in B})
      BY <2>3, SeenOfSnapshot, BindingsAreFinite DEF GraphInv
  <2> HIDE DEF R, B, roles, grants
  <2>9. Cardinality(roles) = Cardinality(R)
    <3>1. Cardinality({<<"role", r>> : r \in R}) = Cardinality(R)
        BY <2>7, Tagged
    <3> QED BY <2>2, <3>1
  <2>10. Cardinality(grants) = Cardinality({b.id : b \in B})
    <3> DEFINE I == {b.id : b \in B}
    <3> HIDE DEF I
    <3>1. IsFiniteSet(I)
        BY <2>8 DEF I
    <3>2. Cardinality({<<"binding", i>> : i \in I}) = Cardinality(I)
        BY <3>1, Tagged
    <3> QED BY <2>6, <3>2 DEF I
  <2>11. Cardinality(To("subjects", grants)) = Cardinality(UNION {b.subjects : b \in B})
    <3> DEFINE U == UNION {b.subjects : b \in B}
    <3> HIDE DEF U
    <3>1. IsFiniteSet(U)
        BY <2>8 DEF U
    <3>2. Cardinality({<<"subject", x>> : x \in U}) = Cardinality(U)
        BY <3>1, Tagged
    <3> QED BY <2>5, <3>2 DEF U
  <2> QED BY <2>1, <2>9, <2>10, <2>11 DEF roles, grants
<1> QED BY <1>1, <1>3, <1>4 DEF RowsAgreeWithGraph

\* The resource map counts what the drawn graph connects.
THEOREM RowsAgree == GraphSpec => []RowsAgreeWithGraph
BY InvHolds, InvRows, PTL
=============================================================================
