-------------------------- MODULE QueryEngineProofs --------------------------
(***************************************************************************)
(* Theorems about Aggregation, for any roles, labels and selectors, and    *)
(* about the query engine that it is a part of: every behaviour of the     *)
(* engine is one of each part, so what is proved of the parts holds of a   *)
(* query, and a pod is drawn only where the whole path to it is.           *)
(***************************************************************************)
EXTENDS QueryEngine, RoleGraphProofs, RuntimeChainProofs, TLAPS

-----------------------------------------------------------------------------
(* The aggregation. *)

\* The result as indexedCandidates has it: nil, or a list of roles.
ResultOK == result = << >> \/ \E S \in SUBSET Roles : result = <<S>>

AggregationInv == AggregationTypeOK /\ rule \in Seq(Selectors) /\ ResultOK /\ Progress

ExactInv == AggregationInv /\ NothingElse

LEMMA AggregationInitInv == AggregationInit => AggregationInv
<1> SUFFICES ASSUME AggregationInit PROVE AggregationInv
    OBVIOUS
<1>1. PICK n \in 1 .. MaxSelectors : rule \in [1 .. n -> Selectors]
    BY DEF AggregationInit
<1>2. n \in Nat /\ n >= 1
    BY <1>1, MaxSelectorsAssumption
<1>3. rule \in Seq(Selectors) /\ Len(rule) = n /\ DOMAIN rule = 1 .. n
    BY <1>1, <1>2
<1>4. 1 \in DOMAIN rule
    BY <1>2, <1>3
<1>5. AggregationTypeOK
    BY <1>2, <1>3, <1>4 DEF AggregationInit, AggregationTypeOK, WantedAt
<1>6. ResultOK
    BY DEF AggregationInit, ResultOK
<1>7. Progress
  <2>1. \A i \in Valid : ~(i < at)
    BY <1>3 DEF AggregationInit, Valid
  <2>2. rule[at].labels \ unread = {}
    BY DEF AggregationInit
  <2> QED
    BY <2>1, <2>2 DEF Progress, AggregationInit
<1> QED
    BY <1>3, <1>5, <1>6, <1>7 DEF AggregationInv

\* A label's bucket has every role that a selector with this label selects.
LEMMA BucketHasSelected ==
    ASSUME NEW s, NEW l \in s.labels
    PROVE  Selected(s) \subseteq Bucket(l)
BY DEF Selected, Bucket

\* The loop's step to the next selector, with what it adds to the sources.
LEMMA AdvanceInv ==
    ASSUME AggregationInv, Looping, Advance,
           sources \subseteq sources', sources' \subseteq Roles \ {Target},
           rejected' \subseteq DOMAIN rule,
           rule[at].expressions # "invalid" => Selected(rule[at]) \ {Target} \subseteq sources'
    PROVE  AggregationInv'
<1>1. /\ rule' = rule /\ labels' = labels /\ at' = at + 1 /\ result' = << >>
      /\ unread' = WantedAt(at + 1)
    BY DEF Advance
<1>2. rule \in Seq(Selectors) /\ at \in 1 .. Len(rule) /\ Len(rule) \in Nat
    BY DEF AggregationInv, AggregationTypeOK, Looping
<1>3. AggregationTypeOK'
  <2>1. at' \in 1 .. Len(rule') + 1
    BY <1>1, <1>2
  <2>2. unread' \subseteq WantedAt(at)'
    BY <1>1 DEF WantedAt
  <2> QED
    BY <1>1, <2>1, <2>2 DEF AggregationInv, AggregationTypeOK
<1>4. ResultOK'
    BY <1>1 DEF ResultOK
<1>5. Progress'
  <2>1. ASSUME NEW i \in Valid, i < at + 1
        PROVE  Selected(rule[i]) \ {Target} \subseteq sources'
    <3>1. i \in 1 .. Len(rule) /\ rule[i].expressions # "invalid"
      BY <1>2 DEF Valid
    <3>2. CASE i < at
      BY <3>2 DEF AggregationInv, Progress
    <3>3. CASE i = at
      BY <3>1, <3>3
    <3> QED
      BY <1>2, <2>1, <3>1, <3>2, <3>3
  <2>2. Valid' = Valid /\ \A i \in Valid : Selected(rule[i])' = Selected(rule[i])
    BY <1>1 DEF Valid, Selected
  <2>3. Looping' => rule'[at'].labels \ unread' = {}
    BY <1>1, <1>2 DEF Looping, WantedAt
  <2> QED
    BY <1>1, <2>1, <2>2, <2>3 DEF Progress
<1> QED
    BY <1>1, <1>2, <1>3, <1>4, <1>5 DEF AggregationInv

LEMMA StepInv == AggregationInv /\ [AggregationNext]_aggregationVars => AggregationInv'
<1> SUFFICES ASSUME AggregationInv, [AggregationNext]_aggregationVars PROVE AggregationInv'
    OBVIOUS
<1>1. CASE ReadBucket
  <2>1. PICK l \in unread :
          /\ unread' = unread \ {l}
          /\ result' = IF result # << >> THEN <<result[1] \cap Bucket(l)>>
                       ELSE IF Bucket(l) = {} THEN << >> ELSE <<Bucket(l)>>
    BY <1>1 DEF ReadBucket
  <2>2. UNCHANGED <<labels, rule, at, sources, rejected>> /\ Looping /\ Indexed(rule[at])
    BY <1>1 DEF ReadBucket
  <2>3. l \in rule[at].labels
    BY <2>1, <2>2 DEF AggregationInv, AggregationTypeOK, Looping, WantedAt
  <2>4. Bucket(l) \subseteq Roles /\ Selected(rule[at]) \subseteq Bucket(l)
    BY <2>3, BucketHasSelected DEF Bucket
  <2>5. ResultOK'
    <3>1. CASE result = << >>
      BY <2>1, <2>4, <3>1 DEF ResultOK
    <3>2. CASE result # << >>
      <4>1. PICK S \in SUBSET Roles : result = <<S>>
        BY <3>2 DEF AggregationInv, ResultOK
      <4>2. result' = <<S \cap Bucket(l)>>
        BY <2>1, <3>2, <4>1
      <4> QED
        BY <4>2 DEF ResultOK
    <3> QED
      BY <3>1, <3>2
  <2>6. AggregationTypeOK'
    <3>1. \A i \in DOMAIN result' : result'[i] \subseteq Roles
      BY <2>5 DEF ResultOK
    <3>2. unread' \subseteq WantedAt(at)'
      BY <2>1, <2>2 DEF AggregationInv, AggregationTypeOK, WantedAt
    <3> QED
      BY <2>2, <3>1, <3>2 DEF AggregationInv, AggregationTypeOK
  <2>7. Progress'
    <3>1. Valid' = Valid /\ (\A i \in Valid : Selected(rule[i])' = Selected(rule[i]))
      BY <2>2 DEF Valid, Selected
    <3>2. Selected(rule[at])' = Selected(rule[at]) /\ \A k : Bucket(k)' = Bucket(k)
      BY <2>2 DEF Selected, Bucket
    <3>3. CASE result' = << >>
      <4>1. result = << >> /\ Bucket(l) = {}
        BY <2>1, <3>3
      <4>2. \A k \in rule[at].labels \ unread' : Bucket(k) = {}
        BY <2>1, <2>2, <4>1 DEF AggregationInv, Progress
      <4> QED
        BY <2>2, <3>1, <3>2, <3>3, <4>2 DEF AggregationInv, Progress
    <3>4. CASE result' # << >>
      <4>1. Selected(rule[at]) \subseteq result'[1]
        BY <2>1, <2>2, <2>4, <3>4 DEF AggregationInv, Progress
      <4> QED
        BY <2>2, <3>1, <3>2, <3>4, <4>1 DEF AggregationInv, Progress
    <3> QED
      BY <3>3, <3>4
  <2> QED
    BY <2>2, <2>5, <2>6, <2>7 DEF AggregationInv
<1>2. CASE TakeIndexed
  <2>1. /\ sources' = sources \cup ((IF result = << >> THEN {} ELSE result[1]) \ {Target})
        /\ rejected' = rejected /\ Looping /\ Advance
        /\ Indexed(rule[at]) /\ unread = {}
    BY <1>2 DEF TakeIndexed
  <2>2. (IF result = << >> THEN {} ELSE result[1]) \subseteq Roles
    BY DEF AggregationInv, ResultOK
  <2>3. Selected(rule[at]) \subseteq (IF result = << >> THEN {} ELSE result[1])
    <3>1. CASE result = << >>
      <4>1. PICK l \in rule[at].labels : TRUE
        BY <2>1 DEF Indexed
      <4>2. Bucket(l) = {}
        BY <2>1, <3>1, <4>1 DEF AggregationInv, Progress
      <4> QED
        BY <3>1, <4>1, <4>2, BucketHasSelected
    <3>2. CASE result # << >>
      BY <2>1, <3>2 DEF AggregationInv, Progress
    <3> QED
      BY <3>1, <3>2
  <2>4. sources' \subseteq Roles \ {Target} /\ sources \subseteq sources'
    BY <2>1, <2>2 DEF AggregationInv, AggregationTypeOK
  <2>5. rejected' \subseteq DOMAIN rule
    BY <2>1 DEF AggregationInv, AggregationTypeOK
  <2>6. Selected(rule[at]) \ {Target} \subseteq sources'
    BY <2>1, <2>3
  <2> QED
    BY <2>1, <2>4, <2>5, <2>6, AdvanceInv
<1>3. CASE TakeEvaluated
  <2>1. Looping /\ Advance
    BY <1>3 DEF TakeEvaluated
  <2>2. at \in DOMAIN rule
    BY <2>1 DEF AggregationInv, AggregationTypeOK, Looping
  <2>3. Selected(rule[at]) \subseteq Roles
    BY DEF Selected
  <2>4. /\ sources \subseteq sources' /\ sources' \subseteq Roles \ {Target}
        /\ rejected' \subseteq DOMAIN rule
        /\ rule[at].expressions # "invalid" => Selected(rule[at]) \ {Target} \subseteq sources'
    BY <1>3, <2>2, <2>3 DEF TakeEvaluated, AggregationInv, AggregationTypeOK
  <2> QED
    BY <2>1, <2>4, AdvanceInv
<1>4. CASE UNCHANGED aggregationVars
  BY <1>4 DEF aggregationVars, AggregationInv, AggregationTypeOK, ResultOK, Progress,
              Looping, Indexed, WantedAt, Valid, Selected, Bucket
<1> QED
    BY <1>1, <1>2, <1>3, <1>4 DEF AggregationNext

LEMMA InitNothingElse == AggregationInit => NothingElse
<1> SUFFICES ASSUME AggregationInit PROVE NothingElse
    OBVIOUS
<1> QED
    BY DEF AggregationInit, NothingElse

\* What is taken for a valid selector is meant when it carries the selector's labels.
LEMMA TakenIsMeant ==
    ASSUME AggregationInv, Looping, Indexed(rule[at]), NEW r \in Roles \ {Target},
           rule[at].labels \subseteq labels[r]
    PROVE  r \in Meant
<1>1. at \in DOMAIN rule /\ at \in Valid
    BY DEF AggregationInv, AggregationTypeOK, Looping, Indexed, Valid
<1>2. r \in Selected(rule[at])
    BY DEF Selected, Indexed
<1> QED
    BY <1>1, <1>2 DEF Meant

LEMMA StepNothingElse ==
    AggregationInv /\ NothingElse /\ [AggregationNext]_aggregationVars => NothingElse'
<1> SUFFICES ASSUME AggregationInv, NothingElse, [AggregationNext]_aggregationVars, Carried' PROVE
        /\ sources' \subseteq Meant'
        /\ Looping' /\ Indexed(rule[at])' =>
              IF result' = << >> THEN unread' = rule'[at'].labels
              ELSE \A r \in result'[1] : rule'[at'].labels \ unread' \subseteq labels'[r]
    BY DEF NothingElse
<1>1. labels' = labels /\ rule' = rule
    BY DEF AggregationNext, ReadBucket, TakeIndexed, TakeEvaluated, Advance, aggregationVars
<1>2. Carried /\ Meant' = Meant
    BY <1>1 DEF Carried, Meant, Valid, Selected, Bucket
<1>3. sources \subseteq Meant
    BY <1>2 DEF NothingElse
<1>4. CASE ReadBucket
  <2>1. PICK l \in unread :
          /\ unread' = unread \ {l}
          /\ result' = IF result # << >> THEN <<result[1] \cap Bucket(l)>>
                       ELSE IF Bucket(l) = {} THEN << >> ELSE <<Bucket(l)>>
    BY <1>4 DEF ReadBucket
  <2>2. at' = at /\ sources' = sources /\ Looping /\ Indexed(rule[at])
    BY <1>4 DEF ReadBucket
  <2>3. l \in rule[at].labels /\ at \in DOMAIN rule
    BY <2>1, <2>2 DEF AggregationInv, AggregationTypeOK, Looping, WantedAt
  <2>4. Bucket(l) # {}
    BY <1>2, <2>3 DEF Carried
  <2>5. \A r \in Bucket(l) : l \in labels[r]
    BY DEF Bucket
  <2>6. result' # << >> /\ \A r \in result'[1] : rule[at].labels \ unread' \subseteq labels[r]
    <3>1. CASE result = << >>
      <4>1. unread = rule[at].labels /\ result' = <<Bucket(l)>>
        BY <1>2, <2>1, <2>2, <2>4, <3>1 DEF NothingElse
      <4> QED
        BY <2>1, <2>5, <4>1
    <3>2. CASE result # << >>
      <4>1. \A r \in result[1] : rule[at].labels \ unread \subseteq labels[r]
        BY <1>2, <2>2, <3>2 DEF NothingElse
      <4>2. result' = <<result[1] \cap Bucket(l)>>
        BY <2>1, <3>2
      <4> QED
        BY <2>1, <2>5, <4>1, <4>2
    <3> QED
      BY <3>1, <3>2
  <2> QED
    BY <1>1, <1>2, <1>3, <2>2, <2>6
<1>5. ASSUME Advance
      PROVE  Looping' => result' = << >> /\ unread' = rule'[at'].labels
    BY <1>1, <1>5 DEF Advance, WantedAt, Looping
<1>6. CASE TakeIndexed
  <2>1. /\ sources' = sources \cup ((IF result = << >> THEN {} ELSE result[1]) \ {Target})
        /\ Looping /\ Advance /\ Indexed(rule[at]) /\ unread = {}
    BY <1>6 DEF TakeIndexed
  <2>2. \A r \in (IF result = << >> THEN {} ELSE result[1]) \ {Target} : r \in Meant
    <3> SUFFICES ASSUME result # << >>, NEW r \in result[1], r # Target PROVE r \in Meant
        OBVIOUS
    <3>1. r \in Roles
      BY DEF AggregationInv, ResultOK
    <3>2. rule[at].labels \subseteq labels[r]
      BY <1>2, <2>1 DEF NothingElse
    <3> QED
      BY <2>1, <3>1, <3>2, TakenIsMeant
  <2> QED
    BY <1>1, <1>2, <1>3, <1>5, <2>1, <2>2
<1>7. CASE TakeEvaluated
  <2>1. Looping /\ Advance
    BY <1>7 DEF TakeEvaluated
  <2>2. at \in DOMAIN rule
    BY <2>1 DEF AggregationInv, AggregationTypeOK, Looping
  <2>3. sources' \subseteq Meant
    <3>1. CASE rule[at].expressions = "invalid"
      BY <1>3, <1>7, <3>1 DEF TakeEvaluated
    <3>2. CASE rule[at].expressions # "invalid"
      <4>1. sources' = sources \cup (Selected(rule[at]) \ {Target})
        BY <1>7, <3>2 DEF TakeEvaluated
      <4>2. at \in Valid
        BY <2>2, <3>2 DEF Valid
      <4> QED
        BY <1>3, <4>1, <4>2 DEF Meant
    <3> QED
      BY <3>1, <3>2
  <2> QED
    BY <1>1, <1>2, <1>5, <2>1, <2>3
<1>8. CASE UNCHANGED aggregationVars
    BY <1>1, <1>2, <1>3, <1>8 DEF aggregationVars, NothingElse, Looping, Indexed
<1> QED
    BY <1>4, <1>6, <1>7, <1>8 DEF AggregationNext

\* The types of indexAggregatedClusterRoles' variables; a role is never its own source.
THEOREM TypesHold == AggregationSpec => []AggregationTypeOK
<1>1. AggregationInv => AggregationTypeOK
    BY DEF AggregationInv
<1> QED
    BY AggregationInitInv, StepInv, <1>1, PTL DEF AggregationSpec

LEMMA MissesNothing == AggregationInv => NoSourceIsMissed
<1> SUFFICES ASSUME AggregationInv, Aggregated PROVE Meant \subseteq sources
    BY DEF NoSourceIsMissed
<1>1. \A i \in Valid : i < at
    BY DEF AggregationInv, AggregationTypeOK, Aggregated, Looping, Valid
<1>2. \A i \in Valid : Selected(rule[i]) \ {Target} \subseteq sources
    BY <1>1 DEF AggregationInv, Progress
<1> QED
    BY <1>2 DEF Meant

\* indexAggregatedClusterRoles misses none of the roles that Kubernetes aggregates,
\* for any ClusterRoles, any aggregationRule and any order of the map's labels.
THEOREM NothingIsMissed == AggregationSpec => []NoSourceIsMissed
BY AggregationInitInv, StepInv, MissesNothing, PTL DEF AggregationSpec

\* When every label that the aggregationRule asks for is carried by some ClusterRole,
\* the sources are exactly those of Kubernetes, whatever the order of the map's labels.
THEOREM SourcesAreExact == AggregationSpec => []ExactWhenEveryLabelIsCarried
<1>1. AggregationInit => ExactInv
    BY AggregationInitInv, InitNothingElse DEF ExactInv
<1>2. ExactInv /\ [AggregationNext]_aggregationVars => ExactInv'
    BY StepInv, StepNothingElse DEF ExactInv
<1>3. ExactInv => ExactWhenEveryLabelIsCarried
  <2> SUFFICES ASSUME ExactInv, Aggregated, Carried PROVE sources = Meant
      BY DEF ExactWhenEveryLabelIsCarried
  <2>1. Meant \subseteq sources
      BY MissesNothing DEF ExactInv, NoSourceIsMissed
  <2> QED
      BY <2>1 DEF ExactInv, NothingElse
<1> QED
    BY <1>1, <1>2, <1>3, PTL DEF AggregationSpec

-----------------------------------------------------------------------------
(* The engine. *)

\* Every behaviour of the engine is a behaviour of each part: it starts as the part
\* does, and a step of another part leaves the part's state alone.
THEOREM EngineRunsItsParts == QuerySpec => Spec /\ GraphSpec /\ AggregationSpec
<1>1. QueryInit => Init /\ GraphInit /\ AggregationInit
  BY DEF QueryInit
<1>2. [QueryNext]_engineVars =>
          [Next]_vars /\ [GraphNext]_graphVars /\ [AggregationNext]_aggregationVars
  <2> SUFFICES ASSUME [QueryNext]_engineVars
               PROVE  [Next]_vars /\ [GraphNext]_graphVars /\ [AggregationNext]_aggregationVars
    OBVIOUS
  <2>1. CASE Build
    BY <2>1 DEF Build
  <2>2. CASE BuildRBACGraph
    BY <2>2 DEF BuildRBACGraph, GraphNext
  <2>3. CASE ExpandRuntimeChain
    BY <2>3 DEF ExpandRuntimeChain
  <2>4. CASE Answering
    BY <2>4 DEF Answering, GraphNext
  <2>5. CASE UNCHANGED engineVars
    BY <2>5 DEF engineVars
  <2> QED
    BY <2>1, <2>2, <2>3, <2>4, <2>5 DEF QueryNext
<1> QED
  BY <1>1, <1>2, PTL DEF QuerySpec, Spec, GraphSpec, AggregationSpec

\* So a query keeps what is proved of its parts, together.
THEOREM QueryKeepsItsPromises ==
    QuerySpec => [](/\ TypeOK /\ PodsAddUp /\ WorkloadsAddUp /\ CutChainsAreReported
                    /\ NodesLeadToTheirPods
                    /\ OrderDoesNotMatter /\ RowsAgreeWithGraph /\ CountersAgreeWithGraph
                    /\ StrictKeepsToTheScope
                    /\ NoSourceIsMissed /\ ExactWhenEveryLabelIsCarried)
BY EngineRunsItsParts, ChainTypeOK, PodsAlwaysAddUp, WorkloadsAlwaysAddUp,
   CutChainsAlwaysReported, NodesAlwaysLeadToTheirPods, GraphIsAFunction, RowsAgree,
   CountersAgree, StrictKeeps, NothingIsMissed, SourcesAreExact, PTL

-----------------------------------------------------------------------------
(* The path to a pod. *)

\* An edge to a pod starts at an account that was tracked.
StartsTracked == \A e \in runsAs : e[1] \in DOMAIN accounts

\* Accounts are tracked only when the graph is drawn, and from its bindings.
TrackedWhenDrawn == DOMAIN accounts # {} => AccountsTracked

\* Lemma: the bindings that the graph has drawn stay when the graph is ready.
LEMMA DrawnIsKept ==
    ASSUME AccountsTracked, UNCHANGED <<cluster, scope>>, [GraphNext]_graphVars
    PROVE  AccountsTracked'
<1>1. UNCHANGED <<query, candidates, bindings, bindingSeen>>
  BY DEF AccountsTracked, Looped, GraphNext, SkipRole, VisitRole, VisitBinding, Finalize,
         graphVars, query
<1>2. UsesDrawn' = UsesDrawn
  BY <1>1 DEF UsesDrawn, UsesOf, UseOf, query
<1>3. UsesInScope' = UsesInScope
  BY DEF UsesInScope, Filter
<1> QED
  BY <1>1, <1>2, <1>3 DEF AccountsTracked, Looped

\* Lemma: both hold always.
LEMMA AlwaysTracked == QuerySpec => [](StartsTracked /\ TrackedWhenDrawn)
<1>1. QueryInit => StartsTracked /\ TrackedWhenDrawn
  BY DEF QueryInit, Init, StartsTracked, TrackedWhenDrawn
<1>2. Inv /\ StartsTracked /\ TrackedWhenDrawn /\ [QueryNext]_engineVars
          => StartsTracked' /\ TrackedWhenDrawn'
  <2> SUFFICES ASSUME Inv, StartsTracked, TrackedWhenDrawn, [QueryNext]_engineVars
               PROVE  StartsTracked' /\ TrackedWhenDrawn'
    OBVIOUS
  <2>1. CASE ExpandRuntimeChain
    <3>1. AccountsTracked /\ UNCHANGED graphVars /\ Next
      BY <2>1 DEF ExpandRuntimeChain
    <3>2. UNCHANGED <<cluster, scope>>
      BY <3>1 DEF Next, request, Track, SkipSubject, StartSubject, DrawPod, FollowOwner,
                  StopWalk, DrawChain, FinishSubject
    <3>3. AccountsTracked'
      BY <3>1, <3>2, DrawnIsKept
    <3>4. CASE Track
      <4>1. DOMAIN accounts \subseteq DOMAIN accounts' /\ runsAs' = runsAs
        BY <3>4 DEF Track, drawn
      <4> QED
        BY <4>1, <3>3 DEF StartsTracked, TrackedWhenDrawn
    <3>5. CASE DrawPod
      <4>1. PICK p : runsAs' = runsAs \cup {<<subject, p.id>>}
        BY <3>5 DEF DrawPod
      <4>2. accounts' = accounts /\ subject \in DOMAIN accounts
        BY <3>5 DEF DrawPod, Inv, SubjectsOK
      <4> QED
        BY <4>1, <4>2, <3>3 DEF StartsTracked, TrackedWhenDrawn
    <3>6. CASE SkipSubject \/ StartSubject \/ FollowOwner \/ StopWalk \/ DrawChain \/ FinishSubject
      <4>1. UNCHANGED <<accounts, runsAs>>
        BY <3>6 DEF SkipSubject, StartSubject, FollowOwner, StopWalk, DrawChain, FinishSubject,
                    drawn
      <4> QED
        BY <4>1, <3>3 DEF StartsTracked, TrackedWhenDrawn
    <3> QED
      BY <3>1, <3>4, <3>5, <3>6 DEF Next
  <2>2. CASE Build \/ BuildRBACGraph \/ Answering \/ UNCHANGED engineVars
    <3>1. UNCHANGED vars /\ [GraphNext]_graphVars
      BY <2>2 DEF Build, BuildRBACGraph, Answering, engineVars, GraphNext
    <3>2. UNCHANGED <<cluster, scope, accounts, runsAs>>
      BY <3>1 DEF vars, request, drawn
    <3>3. AccountsTracked => AccountsTracked'
      BY <3>1, <3>2, DrawnIsKept
    <3> QED
      BY <3>2, <3>3 DEF StartsTracked, TrackedWhenDrawn
  <2> QED
    BY <2>1, <2>2 DEF QueryNext
<1> QED
  BY <1>1, <1>2, EngineRunsItsParts, AlwaysInv, PTL DEF QuerySpec

\* Lemma: an edge to a pod leads from a tracked subject to a pod that runs as its account.
LEMMA EdgeIsOfUse ==
    ASSUME Inv, AccountsOK, StartsTracked, NEW e \in runsAs
    PROVE  \E u \in UsesInScope : e[1] = SubjectID(u) /\ \E p \in RunningAs(u) : p.id = e[2]
<1> DEFINE s == e[1]
<1>1. s \in DOMAIN accounts
  BY DEF StartsTracked
<1>2. PICK u \in UsesInScope : s = SubjectID(u) /\ accounts[s] = Account(u)
  BY <1>1 DEF AccountsOK
<1>3. e \in Drawn(s) /\ Drawn(s) \subseteq Edges(s, First(s))
  BY <1>1 DEF Drawn, Inv, SubjectsOK, Untouched, UnderWay, Done, Edges
<1>4. PICK p \in First(s) : e = <<s, p.id>>
  BY <1>3 DEF Edges
<1>5. p \in RunningAs(u)
  BY <1>2, <1>4, AccountsPods DEF First, FirstPods
<1> QED
  BY <1>2, <1>4, <1>5

\* Lemma: the binding of a use drawn is in the graph, with the role and the subject.
LEMMA UseIsDrawn ==
    ASSUME GraphInv, NEW b \in snapshot.bindings, b.id \in bindingSeen, NEW x \in b.subjects
    PROVE  /\ refsOf[b.role] # {}
           /\ AllowNamespace(NamespaceFilter, b.ns, strict)
           /\ {<<RoleNode(b.role), "grants", BindingNode(b)>>,
               <<BindingNode(b), "subjects", SubjectNode(x)>>} \subseteq edges
<1>1. PICK c \in Seen : c.id = b.id
  BY DEF GraphInv, SeenOK
<1>2. c \in snapshot.bindings /\ c.role \in roleSeen /\ roleSeen \subseteq RoleIDs
  BY SeenOfSnapshot
<1>3. b = c
  BY <1>1, <1>2, SnapshotsAssumption DEF GraphInv, RequestOK
<1>4. AllowNamespace(NamespaceFilter, b.ns, strict)
  BY <1>3, BoundOf DEF Seen, Reached
<1>5. refsOf[b.role] # {}
  BY <1>2, <1>3 DEF GraphInv, RoleNodesOK, RolesOK, Skipped
<1>6. <<RoleNode(b.role), "grants", BindingNode(b)>> \in Grants
  BY <1>3 DEF Grants
<1>7. <<BindingNode(b), "subjects", SubjectNode(x)>> \in Subjects
  BY <1>3 DEF Subjects
<1> QED
  BY <1>4, <1>5, <1>6, <1>7 DEF GraphInv, EdgesOK

\* A pod is drawn only at the end of a path from a matched role over a binding in the scope
\* to a service account that it runs as, for any snapshot, any pods and any request.
THEOREM PodsAlwaysReached == QuerySpec => []PodsAreReached
<1>1. Inv /\ AccountsOK /\ GraphInv /\ StartsTracked /\ TrackedWhenDrawn => PodsAreReached
  <2> SUFFICES ASSUME Inv, AccountsOK, GraphInv, StartsTracked, TrackedWhenDrawn,
                      NEW e \in runsAs
               PROVE  \E b \in snapshot.bindings : \E x \in b.subjects \cap DOMAIN AccountOf :
                          /\ e[1] = SubjectID(UseOf(b, x))
                          /\ \E p \in RunningAs(UseOf(b, x)) : p.id = e[2]
                          /\ refsOf[b.role] # {}
                          /\ AllowNamespace(NamespaceFilter, b.ns, strict)
                          /\ {<<RoleNode(b.role), "grants", BindingNode(b)>>,
                              <<BindingNode(b), "subjects", SubjectNode(x)>>} \subseteq edges
    BY DEF PodsAreReached
  <2>1. PICK u \in UsesInScope : e[1] = SubjectID(u) /\ \E p \in RunningAs(u) : p.id = e[2]
    BY EdgeIsOfUse
  <2>2. UsesInScope = UsesDrawn
    BY DEF StartsTracked, TrackedWhenDrawn, AccountsTracked
  <2>3. PICK b \in snapshot.bindings : b.id \in bindingSeen /\ u \in UsesOf(b)
    BY <2>1, <2>2 DEF UsesDrawn
  <2>4. PICK x \in b.subjects \cap DOMAIN AccountOf : u = UseOf(b, x)
    BY <2>3 DEF UsesOf
  <2> QED
    BY <2>1, <2>3, <2>4, UseIsDrawn
<1> QED
  BY <1>1, EngineRunsItsParts, AlwaysInv, AlwaysAccounts, InvHolds, AlwaysTracked, PTL
=============================================================================
