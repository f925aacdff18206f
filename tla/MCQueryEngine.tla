---------------------------- MODULE MCQueryEngine ----------------------------
(* Instances of QueryEngine for TLC.  The snapshot has ClusterRoles "a", "b", "c" and *)
(* the Role "d" of namespace n1; subjects "u", "v", "w" are service accounts of name  *)
(* "a", "x" is none.  MCInit cuts the product of the three parts' inputs in three:    *)
(* each part meets all of its own inputs, the others a few that go with them.         *)
EXTENDS QueryEngine

CONSTANTS n1, n2, n1padded

MCPadded == [w \in {n1padded} |-> n1]

MCAccountOf == [x \in {"u", "v", "w"} |->
    [ns |-> CASE x = "u" -> n1 [] x = "v" -> Cluster [] x = "w" -> n2, name |-> "a"]]

-----------------------------------------------------------------------------
(* RoleGraph: one binding of each kind, sharing subjects. *)

Binding(id, ns, role, subjects) == [id |-> id, ns |-> ns, role |-> role, subjects |-> subjects]

GraphBindings ==
    {{},
     {Binding("crb", Cluster, "a", {"u"}), Binding("rb1", n1, "a", {"u", "x"})},
     {Binding("rb2", n2, "b", {"v"}), Binding("rbd", n1, "d", {"u"}),
      Binding("crb", Cluster, "a", {})},
     {Binding("rb1", n1, "a", {"u"}), Binding("rb2", n2, "c", {"v"}),
      Binding("rb3", n1, "gone", {"w"})}}

GraphSources ==
    {{}, {<<"a", "b">>, <<"a", "c">>}, {<<"a", "b">>, <<"b", "c">>}, {<<"a", "b">>, <<"b", "a">>}}

AllRoles == [r \in {"a", "b", "c", "d"} |-> IF r = "d" THEN n1 ELSE Cluster]
ClusterRoles == [r \in {"a", "b", "c"} |-> Cluster]

Snap(roles, bs, srcs) == [roles |-> roles, bindings |-> bs, sources |-> srcs]

GraphSnapshots == {Snap(AllRoles, B, S) : B \in GraphBindings, S \in GraphSources}

GraphMatches == {[r \in {"a", "b", "c", "d"} |->
                     IF r = "a" THEN A ELSE IF r = "b" THEN B ELSE IF r = "c" THEN {} ELSE D] :
                     A \in {{}, {"x"}, {"x", "y"}}, B \in {{}, {"y"}}, D \in {{}, {"x"}}}

-----------------------------------------------------------------------------
(* RuntimeChain: five pods, up to four workloads, and accounts that several bindings *)
(* name, with their namespace, without it, and by a node they share. *)

Ref(uid, controller) == [uid |-> uid, controller |-> controller]

Owners == {{}, {Ref(1, TRUE)}, {Ref(0, FALSE)}, {Ref(1, FALSE), Ref(2, TRUE)},
           {Ref(3, FALSE), Ref(9, FALSE)}}

Pod(id, ns, phase, owners) == [id |-> id, ns |-> ns, sa |-> "a", phase |-> phase, owners |-> owners]

Plain == [w \in 1 .. 4 |-> IF w = 4 THEN {} ELSE {Ref(w + 1, TRUE)}]
Short == [w \in 1 .. 3 |-> IF w = 1 THEN {Ref(3, TRUE), Ref(2, FALSE)} ELSE {}]
Cycle == [w \in 1 .. 2 |-> {Ref(3 - w, TRUE)}]

AccountBindings ==
    {{Binding("rb1", n1, "a", {"u"}), Binding("rb2", n2, "c", {"u", "v"})},
     {Binding("rb1", n1, "a", {"u", "v"}), Binding("crb", Cluster, "b", {"w"})},
     {Binding("rb2", n2, "a", {"u", "v"}), Binding("rb1", n1, "b", {"u"})},
     {Binding("rb1", n1, "a", {"v"}), Binding("rb2", n2, "a", {"v"})}}

AccountSnapshots == {Snap(AllRoles, B, {}) : B \in AccountBindings}
AccountMatches   == [r \in {"a", "b", "c", "d"} |-> IF r \in {"a", "b"} THEN {"x"} ELSE {}]

NoCluster == [uses |-> {}, workloads |-> << >>, pods |-> {}]

MCClusters ==
    {NoCluster} \cup
    {[uses |-> UNION {UsesOf(b) : b \in B}, workloads |-> w,
      pods |-> {Pod(1, n1, "Running", o), Pod(2, n1, "Pending", {Ref(2, TRUE)}),
                Pod(3, n1, "Running", {}), Pod(4, n2, "Succeeded", {Ref(1, TRUE)}),
                Pod(5, n2, "Running", {Ref(1, TRUE)})}] :
        B \in AccountBindings \cup {{Binding("rb1", n1, "a", {"u"})}},
        w \in {Plain, Short, Cycle}, o \in Owners}

-----------------------------------------------------------------------------
(* The three cuts. *)

MCSnapshots ==
    GraphSnapshots \cup AccountSnapshots
    \cup {Snap(ClusterRoles, {}, {"a"} \X S) : S \in SUBSET {"b", "c"}}

MCMatches == GraphMatches \cup {AccountMatches, [r \in {"a", "b", "c"} |-> {}]}

\* A selector and labels with which "a" aggregates the roles in S.
AggregatesJust(S) ==
    /\ labels = [r \in Roles |-> IF r \in S THEN {"l1"} ELSE {}]
    /\ rule = <<[labels |-> {"l1"}, expressions |-> "none"]>>

NoPods ==
    /\ includePods = FALSE /\ includeWorkloads = FALSE
    /\ cluster = NoCluster
    /\ phases = {"Running"}

\* Every labelling of the roles and every rule.
CutAggregation ==
    /\ snapshot \in {s \in MCSnapshots : DOMAIN s.roles = {"a", "b", "c"}}
    /\ matches = [r \in {"a", "b", "c"} |-> {}]
    /\ namespaces = {} /\ strict = FALSE /\ filterPhantoms = FALSE
    /\ NoPods

\* Every snapshot, match and scope.
CutGraph ==
    /\ snapshot \in GraphSnapshots
    /\ matches \in GraphMatches
    /\ namespaces \in SUBSET Written
    /\ AggregatesJust({p[2] : p \in {q \in snapshot.sources : q[1] = Target}})
    /\ NoPods

\* Every cluster of pods, its accounts those of the bindings whose roles match, or those
\* of all bindings, where the graph must refuse them.
CutRuntime ==
    /\ snapshot \in AccountSnapshots
    /\ matches = AccountMatches
    /\ namespaces \in SUBSET Namespaces
    /\ filterPhantoms = FALSE
    /\ AggregatesJust({})
    /\ cluster \in MCClusters
    /\ \E B \in {snapshot.bindings, {b \in snapshot.bindings : matches[b.role] # {}}} :
          cluster.uses = UNION {UsesOf(b) : b \in B}
    /\ includePods = TRUE

MCInit ==
    /\ CutAggregation \/ CutGraph \/ CutRuntime
    /\ strict \in BOOLEAN
    /\ scope = [namespaces |-> namespaces, strict |-> strict]
    /\ QueryInit

MCSpec == MCInit /\ [][QueryNext]_engineVars
=============================================================================
