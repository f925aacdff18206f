------------------------------ MODULE ReviewSpec ------------------------------
(***************************************************************************)
(* What a RoleGraphReview goes through on its way to the engine and back:  *)
(* JSON, the versioned type (pkg/apis/rbacgraph/v1alpha1), the conversion  *)
(* generated from it, the internal type (pkg/apis/rbacgraph), and the      *)
(* defaults and the validation that both types have each on its own.       *)
(*                                                                         *)
(* A versioned record has the fields' JSON names, an internal one their Go *)
(* names.  A list of strings is the set of them.  A JSON object is a       *)
(* function from the keys it has to their values; keys are spelled as in   *)
(* the type and values have the types of their fields (anything else is an *)
(* error of decoding, Broken in the module WebProxy).                      *)
(***************************************************************************)
EXTENDS Integers

-----------------------------------------------------------------------------
(* The versioned type. *)

ZeroSelector == [apiGroups |-> {}, resources |-> {}, verbs |-> {}, resourceNames |-> {},
                 nonResourceURLs |-> {}]

ZeroScope == [namespaces |-> {}, strict |-> FALSE]

ZeroSpec == [selector |-> ZeroSelector, matchMode |-> "", wildcardMode |-> "",
             includeRuleMetadata |-> FALSE, namespaceScope |-> ZeroScope,
             includePods |-> FALSE, includeWorkloads |-> FALSE, podPhaseMode |-> "",
             maxPodsPerSubject |-> 0, maxWorkloadsPerPod |-> 0, filterPhantomAPIs |-> FALSE]

\* The types, over the strings that may be written.
V1Selectors(Names) ==
    [apiGroups : SUBSET Names, resources : SUBSET Names, verbs : SUBSET Names,
     resourceNames : SUBSET Names, nonResourceURLs : SUBSET Names]

V1Scopes(Names) == [namespaces : SUBSET Names, strict : BOOLEAN]

V1Specs(Names) ==
    [selector : V1Selectors(Names), matchMode : Names, wildcardMode : Names,
     includeRuleMetadata : BOOLEAN, namespaceScope : V1Scopes(Names), includePods : BOOLEAN,
     includeWorkloads : BOOLEAN, podPhaseMode : Names, maxPodsPerSubject : Int,
     maxWorkloadsPerPod : Int, filterPhantomAPIs : BOOLEAN]

\* A list that a status holds is the set of its elements.
V1Graphs(Data) == [nodes : SUBSET Data, edges : SUBSET Data]

V1Statuses(Data) ==
    [matchedRoles : Nat, matchedBindings : Nat, matchedSubjects : Nat, matchedPods : Nat,
     matchedWorkloads : Nat, warnings : SUBSET Data, knownGaps : SUBSET Data,
     graph : V1Graphs(Data), resourceMap : SUBSET Data]

MatchModes    == {"any", "all"}
WildcardModes == {"expand", "exact"}
PodPhaseModes == {"active", "all", "running"}

DefaultMaxPodsPerSubject  == 20
DefaultMaxWorkloadsPerPod == 10

\* What EnsureDefaults does to a string and to a number.
OrDefault(x, default)  == IF x = "" THEN default ELSE x
Positive(n, default)   == IF n <= 0 THEN default ELSE n

\* Mutant: one of the two copies of the defaults has another limit.
V1Defaults_OtherLimit(s) ==
    [selector            |-> s.selector,
     matchMode           |-> OrDefault(s.matchMode, "any"),
     wildcardMode        |-> OrDefault(s.wildcardMode, "expand"),
     includeRuleMetadata |-> s.includeRuleMetadata,
     namespaceScope      |-> s.namespaceScope,
     includePods         |-> s.includePods,
     includeWorkloads    |-> s.includeWorkloads,
     podPhaseMode        |-> OrDefault(s.podPhaseMode, "active"),
     maxPodsPerSubject   |-> Positive(s.maxPodsPerSubject, DefaultMaxWorkloadsPerPod),
     maxWorkloadsPerPod  |-> Positive(s.maxWorkloadsPerPod, DefaultMaxWorkloadsPerPod),
     filterPhantomAPIs   |-> s.filterPhantomAPIs]

\* RoleGraphReviewSpec.EnsureDefaults of v1alpha1.
V1Defaults(s) ==
    [selector            |-> s.selector,
     matchMode           |-> OrDefault(s.matchMode, "any"),
     wildcardMode        |-> OrDefault(s.wildcardMode, "expand"),
     includeRuleMetadata |-> s.includeRuleMetadata,
     namespaceScope      |-> s.namespaceScope,
     includePods         |-> s.includePods,
     includeWorkloads    |-> s.includeWorkloads,
     podPhaseMode        |-> OrDefault(s.podPhaseMode, "active"),
     maxPodsPerSubject   |-> Positive(s.maxPodsPerSubject, DefaultMaxPodsPerSubject),
     maxWorkloadsPerPod  |-> Positive(s.maxWorkloadsPerPod, DefaultMaxWorkloadsPerPod),
     filterPhantomAPIs   |-> s.filterPhantomAPIs]

\* RoleGraphReviewSpec.Validate of v1alpha1.
V1Valid(s) ==
    /\ s.matchMode \in MatchModes
    /\ s.wildcardMode \in WildcardModes
    /\ s.podPhaseMode \in PodPhaseModes \cup {""}

V1NormalizeRuntimeFlags(s) == [s EXCEPT !.includePods = @ \/ s.includeWorkloads]

-----------------------------------------------------------------------------
(* The internal type. *)

InternalGraphs(Data) == [Nodes : SUBSET Data, Edges : SUBSET Data]

InternalStatuses(Data) ==
    [MatchedRoles : Nat, MatchedBindings : Nat, MatchedSubjects : Nat, MatchedPods : Nat,
     MatchedWorkloads : Nat, Warnings : SUBSET Data, KnownGaps : SUBSET Data,
     Graph : InternalGraphs(Data), ResourceMap : SUBSET Data]

Defaults(s) ==
    [Selector            |-> s.Selector,
     MatchMode           |-> OrDefault(s.MatchMode, "any"),
     WildcardMode        |-> OrDefault(s.WildcardMode, "expand"),
     IncludeRuleMetadata |-> s.IncludeRuleMetadata,
     NamespaceScope      |-> s.NamespaceScope,
     IncludePods         |-> s.IncludePods,
     IncludeWorkloads    |-> s.IncludeWorkloads,
     PodPhaseMode        |-> OrDefault(s.PodPhaseMode, "active"),
     MaxPodsPerSubject   |-> Positive(s.MaxPodsPerSubject, DefaultMaxPodsPerSubject),
     MaxWorkloadsPerPod  |-> Positive(s.MaxWorkloadsPerPod, DefaultMaxWorkloadsPerPod),
     FilterPhantomAPIs   |-> s.FilterPhantomAPIs]

Valid(s) ==
    /\ s.MatchMode \in MatchModes
    /\ s.WildcardMode \in WildcardModes
    /\ s.PodPhaseMode \in PodPhaseModes \cup {""}

\* Workloads are reached from pods, so asking for them asks for pods.
NormalizeRuntimeFlags(s) == [s EXCEPT !.IncludePods = @ \/ s.IncludeWorkloads]

\* newQueryContext: what the engine makes of the specification it is given.
EngineSpec(s) == NormalizeRuntimeFlags(Defaults(s))

-----------------------------------------------------------------------------
(* The generated conversions. *)

SelectorToInternal(x) ==
    [APIGroups |-> x.apiGroups, Resources |-> x.resources, Verbs |-> x.verbs,
     ResourceNames |-> x.resourceNames, NonResourceURLs |-> x.nonResourceURLs]

SelectorToV1(x) ==
    [apiGroups |-> x.APIGroups, resources |-> x.Resources, verbs |-> x.Verbs,
     resourceNames |-> x.ResourceNames, nonResourceURLs |-> x.NonResourceURLs]

ScopeToInternal(x) == [Namespaces |-> x.namespaces, Strict |-> x.strict]
ScopeToV1(x)       == [namespaces |-> x.Namespaces, strict |-> x.Strict]

\* Mutant: generated before the last field was added.
SpecToInternal_Stale(s) ==
    [Selector |-> SelectorToInternal(s.selector), MatchMode |-> s.matchMode,
     WildcardMode |-> s.wildcardMode, IncludeRuleMetadata |-> s.includeRuleMetadata,
     NamespaceScope |-> ScopeToInternal(s.namespaceScope), IncludePods |-> s.includePods,
     IncludeWorkloads |-> s.includeWorkloads, PodPhaseMode |-> s.podPhaseMode,
     MaxPodsPerSubject |-> s.maxPodsPerSubject, MaxWorkloadsPerPod |-> s.maxWorkloadsPerPod,
     FilterPhantomAPIs |-> FALSE]

SpecToInternal(s) ==
    [Selector |-> SelectorToInternal(s.selector), MatchMode |-> s.matchMode,
     WildcardMode |-> s.wildcardMode, IncludeRuleMetadata |-> s.includeRuleMetadata,
     NamespaceScope |-> ScopeToInternal(s.namespaceScope), IncludePods |-> s.includePods,
     IncludeWorkloads |-> s.includeWorkloads, PodPhaseMode |-> s.podPhaseMode,
     MaxPodsPerSubject |-> s.maxPodsPerSubject, MaxWorkloadsPerPod |-> s.maxWorkloadsPerPod,
     FilterPhantomAPIs |-> s.filterPhantomAPIs]

SpecToV1(s) ==
    [selector |-> SelectorToV1(s.Selector), matchMode |-> s.MatchMode,
     wildcardMode |-> s.WildcardMode, includeRuleMetadata |-> s.IncludeRuleMetadata,
     namespaceScope |-> ScopeToV1(s.NamespaceScope), includePods |-> s.IncludePods,
     includeWorkloads |-> s.IncludeWorkloads, podPhaseMode |-> s.PodPhaseMode,
     maxPodsPerSubject |-> s.MaxPodsPerSubject, maxWorkloadsPerPod |-> s.MaxWorkloadsPerPod,
     filterPhantomAPIs |-> s.FilterPhantomAPIs]

GraphToV1(g) == [nodes |-> g.Nodes, edges |-> g.Edges]

\* The status of an answer; the lists of its graph and of its resource map are copied
\* whole.
StatusToV1(st) ==
    [matchedRoles |-> st.MatchedRoles, matchedBindings |-> st.MatchedBindings,
     matchedSubjects |-> st.MatchedSubjects, matchedPods |-> st.MatchedPods,
     matchedWorkloads |-> st.MatchedWorkloads, warnings |-> st.Warnings,
     knownGaps |-> st.KnownGaps,
     graph |-> GraphToV1(st.Graph),
     resourceMap |-> st.ResourceMap]

-----------------------------------------------------------------------------
(* JSON. *)

\* Unmarshal: keys that the type does not have are ignored, fields without a key keep
\* their zero value.
DecodeFlat(zero, o) == [k \in DOMAIN zero |-> IF k \in DOMAIN o THEN o[k] ELSE zero[k]]

\* Marshal with omitempty.
EncodeFlat(zero, r) == [k \in {f \in DOMAIN zero : r[f] # zero[f]} |-> r[k]]

DecodeSelector(o) == DecodeFlat(ZeroSelector, o)

DecodeSpec(o) ==
    LET flat == DecodeFlat(ZeroSpec, o) IN
    [flat EXCEPT !.selector = DecodeFlat(ZeroSelector, @),
                 !.namespaceScope = DecodeFlat(ZeroScope, @)]

\* omitempty does not leave out a struct: selector and namespaceScope always have a key.
EncodeSpec(s) ==
    [k \in {f \in DOMAIN ZeroSpec : s[f] # ZeroSpec[f]} \cup {"selector", "namespaceScope"} |->
        IF k = "selector" THEN EncodeFlat(ZeroSelector, s.selector)
        ELSE IF k = "namespaceScope" THEN EncodeFlat(ZeroScope, s.namespaceScope)
        ELSE s[k]]
=============================================================================
