---------------------------- MODULE RuntimeChain ----------------------------
(***************************************************************************)
(* internal/engine/query_runtime.go: from the service accounts among the   *)
(* subjects of the drawn bindings to the pods that run as them and to the  *)
(* workloads that own those pods.  The service accounts are collected      *)
(* while the bindings are visited (trackServiceAccountSubject); a subject  *)
(* without a namespace stands for the account of the binding's namespace.  *)
(*                                                                         *)
(* Pods and UIDs are numbers, so that they have the order in which the     *)
(* code sorts pods by name and owner references by their sort key; UID 0   *)
(* is the empty one.  An owner reference is [uid, controller].  A use is a *)
(* service account among the subjects of a binding: the binding's          *)
(* namespace, and the subject's namespace and name.                        *)
(***************************************************************************)
EXTENDS Naturals, Sequences, FiniteSets, NamespaceScope

CONSTANTS
    Clusters,            \* records: uses, pods, workloads
    MaxPodsPerSubject,
    MaxWorkloadsPerPod,
    MaxOwnerDepth        \* maxOwnerDepth, 8 in the code

ASSUME LimitsAssumption ==
    {MaxPodsPerSubject, MaxWorkloadsPerPod, MaxOwnerDepth} \subseteq Nat \ {0}

VARIABLES
    cluster,
    scope,      \* the request's namespaceScope: namespaces, strict
    includeWorkloads,
    phases,     \* the phases that podPhaseMode lets through
    uses,       \* service account subjects that are still to be tracked
    accounts,   \* saSubjects: subject node -> account
    todo,       \* subject nodes that are still to be expanded
    subject,    \* the one being expanded
    podsLeft,   \* its visible pods that are still to be drawn
    pod,        \* the pod whose owners are followed
    owner,      \* the owner reference the walk is at, a set of at most one
    chain,      \* workloads found on the walk
    runsAs, ownedBy,              \* edges, as <<from, to>>
    hiddenPods, hiddenWorkloads,  \* overflow nodes, as <<subject or pod, hiddenCount>>
    warned,     \* pods whose chain gave a warning
    podSeen, workloadSeen

request == <<cluster, scope, includeWorkloads, phases>>
walk    == <<pod, owner, chain>>
drawn   == <<runsAs, ownedBy, hiddenPods, hiddenWorkloads, podSeen, workloadSeen>>
vars    == <<request, uses, accounts, todo, subject, podsLeft, walk, drawn, warned>>

None == [ns |-> Cluster, name |-> "none"]

Filter == MakeFilter(scope.namespaces)

\* subjectNodeID: the subject's own namespace is part of it, the binding's is not.
SubjectID(u) == [ns |-> u.ns, name |-> u.name]
PodNode(id)       == <<"pod", id>>
WorkloadNode(uid) == <<"workload", uid>>
Account(u) == [ns |-> IF u.ns = Cluster THEN u.bindingNs ELSE u.ns, name |-> u.name]

\* The subjects that buildRBACGraph tracks: those of the bindings that
\* filterBindingsByNamespace leaves.
UsesInScope == {u \in cluster.uses : AllowNamespace(Filter, u.bindingNs, scope.strict)}

OwnerRefs == [uid : Nat, controller : BOOLEAN]

\* Pods have a name of their own and a namespace; "none" is no subject's name; a
\* workload without a UID is not in the snapshot (indexWorkload).
ASSUME ClustersAssumption ==
    \A c \in Clusters :
        /\ IsFiniteSet(c.pods) /\ IsFiniteSet(c.uses)
        /\ \A p \in c.pods : p.id \in Nat \ {0} /\ p.ns # Cluster /\ p.owners \subseteq OwnerRefs
        /\ \A p, q \in c.pods : p.id = q.id => p = q
        /\ \A u \in c.uses : SubjectID(u) # None
        /\ \A w \in DOMAIN c.workloads : w # 0 /\ c.workloads[w] \subseteq OwnerRefs

\* podPhaseMode "running", "active" and "all".
PhaseModes ==
    {{"Running"}, {"Pending", "Running", "Unknown"},
     {"Pending", "Running", "Unknown", "Succeeded", "Failed"}}

\* filterPods
PodsOf(a) ==
    {p \in cluster.pods : /\ p.ns = a.ns /\ p.sa = a.name
                          /\ AllowNamespace(Filter, p.ns, scope.strict)
                          /\ p.phase \in phases}

\* chooseOwnerReference: controllers come first.
FirstOf(refs) == {r \in refs : \A x \in refs : r.uid <= x.uid}
ChooseOwner(refs) ==
    LET controllers == {r \in refs : r.controller}
    IN  FirstOf(IF controllers # {} THEN controllers ELSE refs)

\* The first n pods in the order of their names.
FirstPods(S, n) == {p \in S : Cardinality({q \in S : q.id < p.id}) < n}

-----------------------------------------------------------------------------
Init ==
    /\ cluster \in Clusters
    /\ scope \in [namespaces : SUBSET Written, strict : BOOLEAN]
    /\ includeWorkloads \in BOOLEAN
    /\ phases \in PhaseModes
    /\ uses = UsesInScope
    /\ accounts = << >>
    /\ todo = {} /\ subject = None /\ podsLeft = {}
    /\ pod = 0 /\ owner = {} /\ chain = << >>
    /\ runsAs = {} /\ ownedBy = {} /\ hiddenPods = {} /\ hiddenWorkloads = {}
    /\ warned = {}
    /\ podSeen = {} /\ workloadSeen = {}

\* Mutant: the binding's namespace wins over that of the subject.
Track_BindingNamespace ==
    /\ \E u \in uses :
          /\ uses' = uses \ {u}
          /\ accounts' = [k \in DOMAIN accounts \cup {SubjectID(u)} |->
                             IF k = SubjectID(u) THEN [ns |-> u.bindingNs, name |-> u.name]
                             ELSE accounts[k]]
          /\ todo' = todo \cup {SubjectID(u)}
    /\ UNCHANGED <<request, subject, podsLeft, walk, drawn, warned>>

\* A binding's subject is tracked under the identifier of its node; the last one
\* tracked under an identifier stays.
Track ==
    /\ \E u \in uses :
          /\ uses' = uses \ {u}
          /\ accounts' = [k \in DOMAIN accounts \cup {SubjectID(u)} |->
                             IF k = SubjectID(u) THEN Account(u) ELSE accounts[k]]
          /\ todo' = todo \cup {SubjectID(u)}
    /\ UNCHANGED <<request, subject, podsLeft, walk, drawn, warned>>

Idle == subject = None /\ uses = {}

\* An account without a namespace or outside the scope, or without pods.
SkipSubject ==
    /\ Idle
    /\ \E s \in todo :
          /\ \/ accounts[s].ns = Cluster
             \/ ~AllowNamespace(Filter, accounts[s].ns, scope.strict)
             \/ PodsOf(accounts[s]) = {}
          /\ todo' = todo \ {s}
    /\ UNCHANGED <<request, uses, accounts, subject, podsLeft, walk, drawn, warned>>

StartSubject ==
    /\ Idle
    /\ \E s \in todo :
          /\ accounts[s].ns # Cluster
          /\ AllowNamespace(Filter, accounts[s].ns, scope.strict)
          /\ PodsOf(accounts[s]) # {}
          /\ todo' = todo \ {s}
          /\ subject' = s
          /\ podsLeft' = FirstPods(PodsOf(accounts[s]), MaxPodsPerSubject)
    /\ UNCHANGED <<request, uses, accounts, walk, drawn, warned>>

\* The pod is drawn; with includeWorkloads the walk along its owners begins.
DrawPod ==
    /\ subject # None /\ pod = 0
    /\ \E p \in podsLeft :
          /\ podsLeft' = podsLeft \ {p}
          /\ runsAs' = runsAs \cup {<<subject, p.id>>}
          /\ podSeen' = podSeen \cup {p.id}
          /\ IF includeWorkloads
             THEN /\ pod' = p.id
                  /\ owner' = ChooseOwner(p.owners)
                  /\ warned' = IF p.owners = {} THEN warned \cup {p.id} ELSE warned
             ELSE UNCHANGED <<pod, owner, warned>>
    /\ UNCHANGED <<request, uses, accounts, todo, subject, chain, ownedBy, hiddenPods,
                   hiddenWorkloads, workloadSeen>>

\* Mutant: the walk does not notice that it has come back to a workload.
Stuck_NoCycle ==
    \E r \in owner : r.uid = 0 \/ r.uid \notin DOMAIN cluster.workloads

\* The walk stops at an empty UID, at a workload it has seen, at one that is not
\* in the snapshot, and after MaxOwnerDepth workloads.
Stuck ==
    \E r \in owner : \/ r.uid = 0
                     \/ r.uid \in {chain[i] : i \in DOMAIN chain}
                     \/ r.uid \notin DOMAIN cluster.workloads

\* Mutant: the walk gives up in silence at the depth limit.
FollowOwner_SilentLimit ==
    /\ pod # 0 /\ owner # {} /\ ~Stuck
    /\ \E r \in owner :
          /\ chain' = Append(chain, r.uid)
          /\ owner' = IF Len(chain') = MaxOwnerDepth THEN {}
                      ELSE ChooseOwner(cluster.workloads[r.uid])
    /\ UNCHANGED <<request, uses, accounts, todo, subject, podsLeft, pod, drawn, warned>>

\* One turn of resolveWorkloadChain's loop.  After the last turn allowed, an owner
\* that is left gives a warning.
FollowOwner ==
    /\ pod # 0 /\ owner # {} /\ ~Stuck
    /\ \E r \in owner :
          LET next == ChooseOwner(cluster.workloads[r.uid]) IN
          /\ chain' = Append(chain, r.uid)
          /\ owner' = IF Len(chain') = MaxOwnerDepth THEN {} ELSE next
          /\ warned' = IF Len(chain') = MaxOwnerDepth /\ next # {} THEN warned \cup {pod}
                       ELSE warned
    /\ UNCHANGED <<request, uses, accounts, todo, subject, podsLeft, pod, drawn>>

StopWalk ==
    /\ pod # 0 /\ Stuck
    /\ owner' = {}
    /\ warned' = warned \cup {pod}
    /\ UNCHANGED <<request, uses, accounts, todo, subject, podsLeft, pod, chain, drawn>>

Visible == SubSeq(chain, 1, IF Len(chain) > MaxWorkloadsPerPod THEN MaxWorkloadsPerPod ELSE Len(chain))

\* Mutant: the overflow node counts the whole chain.
DrawChain_CountsAll ==
    /\ pod # 0 /\ owner = {}
    /\ LET parent(i) == IF i = 1 THEN PodNode(pod) ELSE WorkloadNode(Visible[i - 1])
           steps == {<<parent(i), WorkloadNode(Visible[i])>> : i \in DOMAIN Visible}
       IN  /\ ownedBy' = ownedBy \cup steps
           /\ workloadSeen' = workloadSeen \cup {Visible[i] : i \in DOMAIN Visible}
           /\ hiddenWorkloads' = IF Len(chain) > Len(Visible)
                               THEN hiddenWorkloads \cup {<<pod, Len(chain)>>}
                               ELSE hiddenWorkloads
    /\ pod' = 0 /\ chain' = << >>
    /\ UNCHANGED <<request, uses, accounts, todo, subject, podsLeft, owner, warned, podSeen,
                   runsAs, hiddenPods>>

\* The first workloads of the chain are drawn, the others counted in an overflow node.
DrawChain ==
    /\ pod # 0 /\ owner = {}
    /\ LET parent(i) == IF i = 1 THEN PodNode(pod) ELSE WorkloadNode(Visible[i - 1])
           steps == {<<parent(i), WorkloadNode(Visible[i])>> : i \in DOMAIN Visible}
       IN  /\ ownedBy' = ownedBy \cup steps
           /\ workloadSeen' = workloadSeen \cup {Visible[i] : i \in DOMAIN Visible}
           /\ hiddenWorkloads' = IF Len(chain) > Len(Visible)
                               THEN hiddenWorkloads \cup {<<pod, Len(chain) - Len(Visible)>>}
                               ELSE hiddenWorkloads
    /\ pod' = 0 /\ chain' = << >>
    /\ UNCHANGED <<request, uses, accounts, todo, subject, podsLeft, owner, warned, podSeen,
                   runsAs, hiddenPods>>

\* Mutant: the overflow node appears only from two hidden pods on.
FinishSubject_OffByOne ==
    /\ subject # None /\ podsLeft = {} /\ pod = 0
    /\ LET all == Cardinality(PodsOf(accounts[subject])) IN
       hiddenPods' = IF all > MaxPodsPerSubject + 1
                     THEN hiddenPods \cup {<<subject, all - MaxPodsPerSubject>>} ELSE hiddenPods
    /\ subject' = None
    /\ UNCHANGED <<request, uses, accounts, todo, podsLeft, walk, runsAs, ownedBy,
                   hiddenWorkloads, podSeen, workloadSeen, warned>>

\* The pods over the limit are counted in an overflow node.
FinishSubject ==
    /\ subject # None /\ podsLeft = {} /\ pod = 0
    /\ LET all == Cardinality(PodsOf(accounts[subject])) IN
       hiddenPods' = IF all > MaxPodsPerSubject
                     THEN hiddenPods \cup {<<subject, all - MaxPodsPerSubject>>} ELSE hiddenPods
    /\ subject' = None
    /\ UNCHANGED <<request, uses, accounts, todo, podsLeft, walk, runsAs, ownedBy,
                   hiddenWorkloads, podSeen, workloadSeen, warned>>

Next == \/ Track \/ SkipSubject \/ StartSubject \/ DrawPod \/ FollowOwner \/ StopWalk
        \/ DrawChain \/ FinishSubject

Spec == Init /\ [][Next]_vars
-----------------------------------------------------------------------------
(* Properties. *)

TypeOK ==
    /\ uses \subseteq UsesInScope
    /\ todo \subseteq DOMAIN accounts
    /\ subject \in DOMAIN accounts \cup {None}
    /\ podsLeft \subseteq cluster.pods
    /\ Cardinality(owner) <= 1
    /\ Len(chain) <= MaxOwnerDepth
    /\ \A i, j \in DOMAIN chain : chain[i] = chain[j] => i = j
    /\ {chain[i] : i \in DOMAIN chain} \subseteq DOMAIN cluster.workloads

Finished == uses = {} /\ todo = {} /\ subject = None

HiddenCount(overflow, x) ==
    IF \E h \in overflow : h[1] = x THEN (CHOOSE h \in overflow : h[1] = x)[2] ELSE 0

\* docs/query-guide.md:277: the pods over the limit are counted in hiddenCount.
\* For every service account node, pods drawn and pods counted add up to the pods
\* that run as the account in the scope and in a wanted phase.
PodsAddUp ==
    Finished => \A s \in DOMAIN accounts :
        LET shown == Cardinality({e \in runsAs : e[1] = s}) IN
        /\ shown <= MaxPodsPerSubject
        /\ shown + HiddenCount(hiddenPods, s) = Cardinality(PodsOf(accounts[s]))

\* The workloads that following the chosen owners of pod p finds in n steps.
After(p, n) ==
    LET found[i \in 1 .. n] ==
            {r.uid : r \in IF i = 1 THEN ChooseOwner(p.owners)
                           ELSE UNION {ChooseOwner(cluster.workloads[w]) : w \in found[i - 1]}}
            \cap DOMAIN cluster.workloads
    IN  UNION {found[i] : i \in 1 .. n}

PodsDrawn == {p \in cluster.pods : p.id \in podSeen}

Least(m, n) == IF m <= n THEN m ELSE n

\* docs/query-guide.md:288: the same for the owners of a pod, also when several
\* subjects run the pod and when the owner references are a cycle.  The owners that
\* are nearest to a pod are drawn and nothing else is, the others are counted.
WorkloadsAddUp ==
    Finished /\ includeWorkloads =>
        /\ workloadSeen = UNION {After(p, Least(MaxWorkloadsPerPod, MaxOwnerDepth)) : p \in PodsDrawn}
        /\ \A p \in PodsDrawn :
              LET owners == Cardinality(After(p, MaxOwnerDepth)) IN
              HiddenCount(hiddenWorkloads, p.id) =
                  IF owners > MaxWorkloadsPerPod THEN owners - MaxWorkloadsPerPod ELSE 0

\* A chain of owners that is not followed to its end says so in a warning: an owner
\* that is missing, empty, met again, or beyond the depth limit, or no owner at all.
\* No chain that is followed to its end gives one.
CutChainsAreReported ==
    Finished /\ includeWorkloads => \A p \in PodsDrawn :
        p.id \notin warned <=>
            \E top \in After(p, MaxOwnerDepth) : cluster.workloads[top] = {}

\* The pods that run as the service account that a subject names: of its own namespace,
\* or else of the binding's.
RunningAs(u) ==
    {p \in cluster.pods : /\ p.sa = u.name /\ p.ns = (IF u.ns = Cluster THEN u.bindingNs ELSE u.ns)
                          /\ AllowNamespace(Filter, p.ns, scope.strict)
                          /\ p.phase \in phases}

SameNode(u, v)    == u.ns = v.ns /\ u.name = v.name
SameAccount(u, v) == RunningAs(u) = RunningAs(v)

\* docs/query-guide.md:227: a service account's node leads to the pods that run as it
\* and to no others, and to all of them below the limit, however many bindings name it
\* and in whatever order; unless subjects of bindings in different namespaces leave out
\* the namespace and so share the node.
NodesLeadToTheirPods ==
    Finished => \A u \in UsesInScope :
        (\A v \in UsesInScope : SameNode(u, v) => SameAccount(u, v)) =>
            LET ids   == {p.id : p \in RunningAs(u)}
                shown == {e[2] : e \in {x \in runsAs : x[1] = SubjectID(u)}}
            IN  /\ shown \subseteq ids
                /\ Cardinality(ids) <= MaxPodsPerSubject => shown = ids

-----------------------------------------------------------------------------
(* What the documentation says and the code does not do. *)

\* docs/query-guide.md:227: the runtime chain shows which pods really use the
\* service accounts that were found in the bindings of the scope.  Here: those within
\* the limit.
EveryAccountShowsItsPods ==
    Finished => \A u \in UsesInScope :
        Cardinality(PodsOf(Account(u))) <= MaxPodsPerSubject =>
            \A p \in PodsOf(Account(u)) : p.id \in podSeen
=============================================================================
