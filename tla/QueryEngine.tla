----------------------------- MODULE QueryEngine -----------------------------
(***************************************************************************)
(* internal/engine/engine.go: Query, from the aggregation in the snapshot  *)
(* to the answer.  The indexer has found the sources of an aggregated      *)
(* ClusterRole (Aggregation), buildRBACGraph draws the matched roles with  *)
(* them (RoleGraph) and tracks the service accounts it meets,              *)
(* expandRuntimeChain draws their pods and owners (RuntimeChain), and      *)
(* finalize counts.                                                        *)
(*                                                                         *)
(* Each part keeps its variables and its actions; a step here is a step of *)
(* one of them and leaves the others alone.  What one part takes from      *)
(* another, a snapshot's sources and the tracked service accounts, it has  *)
(* chosen in its initial state: a behaviour goes on only if the other part *)
(* produces just that.                                                     *)
(***************************************************************************)
EXTENDS RuntimeChain, RoleGraph, Aggregation

CONSTANT
    AccountOf  \* service accounts among the subjects: subject -> namespace and name

VARIABLE
    includePods

engineVars == <<vars, graphVars, aggregationVars, includePods>>

UseOf(b, x) == [bindingNs |-> b.ns, ns |-> AccountOf[x].ns, name |-> AccountOf[x].name]

UsesOf(b) == {UseOf(b, x) : x \in b.subjects \cap DOMAIN AccountOf}

\* Mutant: the subjects of a binding are tracked whether its role matches or not.
UsesDrawn_AnyRole ==
    UNION {UsesOf(b) : b \in FilterBindings(NamespaceFilter, strict, snapshot.bindings)}

\* trackServiceAccountSubject is called for every subject of every binding drawn.
UsesDrawn == UNION {UsesOf(b) : b \in {c \in snapshot.bindings : c.id \in bindingSeen}}

\* The snapshot holds what the indexer has found for Target.
SourcesIndexed ==
    Aggregated /\ {p[2] : p \in {q \in snapshot.sources : q[1] = Target}} = sources

\* saSubjects holds what the graph has met.
AccountsTracked == Looped /\ UsesInScope = UsesDrawn

-----------------------------------------------------------------------------
\* One request for all parts; NormalizeRuntimeFlags turns includePods on for workloads.
QueryInit ==
    /\ GraphInit
    /\ Init
    /\ scope = [namespaces |-> namespaces, strict |-> strict]
    /\ includePods \in BOOLEAN
    /\ includeWorkloads => includePods
    /\ Roles = {r \in RoleIDs : snapshot.roles[r] = Cluster}
    /\ AggregationInit

\* snapshot_build.go indexes the aggregation before a query sees the snapshot.
Build ==
    /\ AggregationNext
    /\ UNCHANGED <<vars, graphVars, includePods>>

BuildRBACGraph ==
    /\ SourcesIndexed
    /\ SkipRole \/ VisitRole \/ VisitBinding
    /\ UNCHANGED <<vars, aggregationVars, includePods>>

\* Nothing happens without includePods.
ExpandRuntimeChain ==
    /\ SourcesIndexed /\ AccountsTracked /\ includePods
    /\ Next
    /\ UNCHANGED <<graphVars, aggregationVars, includePods>>

Answering ==
    /\ SourcesIndexed
    /\ includePods => AccountsTracked /\ Finished
    /\ Finalize
    /\ UNCHANGED <<vars, aggregationVars, includePods>>

QueryNext == Build \/ BuildRBACGraph \/ ExpandRuntimeChain \/ Answering

QuerySpec == QueryInit /\ [][QueryNext]_engineVars
-----------------------------------------------------------------------------
(* Properties. *)

\* A pod is drawn only at the end of a path that explains it: from a role with a matched
\* rule over a binding that the scope lets through and one of its service accounts to a
\* pod that runs as this account.
PodsAreReached ==
    \A e \in runsAs : \E b \in snapshot.bindings : \E x \in b.subjects \cap DOMAIN AccountOf :
        /\ e[1] = SubjectID(UseOf(b, x))
        /\ \E p \in RunningAs(UseOf(b, x)) : p.id = e[2]
        /\ refsOf[b.role] # {}
        /\ AllowNamespace(NamespaceFilter, b.ns, strict)
        /\ {<<RoleNode(b.role), "grants", BindingNode(b)>>,
            <<BindingNode(b), "subjects", SubjectNode(x)>>} \subseteq edges
=============================================================================
