------------------------------ MODULE Discovery ------------------------------
(***************************************************************************)
(* internal/indexer/discovery.go and the part of internal/engine/          *)
(* query_rbac.go that reads it: the cache of what the cluster serves, its  *)
(* refresh every five minutes, and a request that loads the cache twice,   *)
(* to validate its selector and to annotate the references to the rules    *)
(* that matched.                                                           *)
(*                                                                         *)
(* What is served is a set of triples <<group, resource, verb>>; a resource *)
(* is a sequence, <<"pods">> or <<"pods", "exec">>.                        *)
(***************************************************************************)
EXTENDS Naturals, Sequences, FiniteSetsExt

CONSTANTS
    Served,      \* what the cluster may serve: sets of triples
    Requests,    \* pairs of a selector (groups, resources, verbs) and a matched
                 \* reference (group, resource, verb)
    MaxExpanded, \* maxExpandedRefsPerParent, 2000 in the code
    MaxChanges   \* bound: changes of what is served

ASSUME ServedAssumption ==
    \A S \in Served : IsFiniteSet(S) /\ \A t \in S : t = <<t[1], t[2], t[3]>> /\ t[2] \in Seq(STRING)
ASSUME RequestsAssumption ==
    \A x \in Requests : x[2].resource \in Seq(STRING) /\ x[2].resource # << >>
ASSUME LimitsAssumption == MaxExpanded \in Nat /\ MaxChanges \in Nat

VARIABLES
    installed,  \* what the cluster serves
    changes,
    fetched,    \* the answer of ServerGroupsAndResources under way
    cache,      \* discoveryCache: << >> for nil
    truth,      \* what was served when the cache was fetched
    whole,      \* the cache was fetched without a partial error
    pc,
    selector, ref,
    validatedWith, usedCache,  \* the caches that the two loads gave (history variables)
    phantom, expanded, truncated, unsupported

refreshed == <<installed, changes, fetched, cache, truth, whole>>
marks     == <<usedCache, phantom, expanded, truncated, unsupported>>
request   == <<pc, selector, ref, validatedWith>>
vars      == <<refreshed, request, marks>>

Star == "*"
AnyResource == <<"*">>

Idle == << >>

GroupsOf(S)    == {t[1] : t \in S}
ResourcesOf(S) == {<<t[1], t[2]>> : t \in S}
VerbsOf(S)     == {t[3] : t \in S}

-----------------------------------------------------------------------------
(* The refresh loop. *)

\* A kind of resource appears or disappears (external).
ApiChange ==
    /\ changes < MaxChanges
    /\ installed' \in Served \ {installed}
    /\ changes' = changes + 1
    /\ UNCHANGED <<fetched, cache, truth, whole, request, marks>>

\* The discovery client answers in full (external).
FetchWhole ==
    /\ fetched = Idle
    /\ fetched' = <<[found |-> installed, whole |-> TRUE, truth |-> installed]>>
    /\ UNCHANGED <<installed, changes, cache, truth, whole, request, marks>>

\* Some groups do not answer: the client returns the others and an error (external).
FetchPartial ==
    /\ fetched = Idle
    /\ \E g \in GroupsOf(installed) :
          fetched' = <<[found |-> {t \in installed : t[1] # g}, whole |-> FALSE,
                        truth |-> installed]>>
    /\ UNCHANGED <<installed, changes, cache, truth, whole, request, marks>>

\* Mutant: a refresh that fails leaves no cache.
FetchFails_DropsCache ==
    /\ fetched = Idle
    /\ cache' = << >>
    /\ UNCHANGED <<installed, changes, fetched, truth, whole, request, marks>>

\* No answer at all: tryRefreshDiscovery logs and keeps what it has.
FetchFails ==
    /\ fetched = Idle
    /\ UNCHANGED vars

\* Mutant: the cache is not replaced once there is one.
StoreCache_FirstOnly ==
    /\ fetched # Idle
    /\ IF cache = << >>
       THEN cache' = <<fetched[1].found>> /\ truth' = fetched[1].truth /\ whole' = fetched[1].whole
       ELSE UNCHANGED <<cache, truth, whole>>
    /\ fetched' = Idle
    /\ UNCHANGED <<installed, changes, request, marks>>

\* Mutant: a partial answer is taken for a full one.
StoreCache_PartialIsWhole ==
    /\ fetched # Idle
    /\ cache' = <<fetched[1].found>>
    /\ truth' = fetched[1].truth
    /\ whole' = TRUE
    /\ fetched' = Idle
    /\ UNCHANGED <<installed, changes, request, marks>>

\* What was found replaces the cache, partial or not.
StoreCache ==
    /\ fetched # Idle
    /\ cache' = <<fetched[1].found>>
    /\ truth' = fetched[1].truth
    /\ whole' = fetched[1].whole
    /\ fetched' = Idle
    /\ UNCHANGED <<installed, changes, request, marks>>

-----------------------------------------------------------------------------
(* A request. *)

\* validateAPIGroups, validateResources and validateVerbs.
ValidGroups(S, sel) == Star \in sel.groups \/ sel.groups \subseteq GroupsOf(S)

\* Mutant: a resource may be in any group, whatever groups the selector names.
ValidResources_AnyGroup(S, sel) ==
    AnyResource \in sel.resources \/ sel.resources \subseteq {x[2] : x \in ResourcesOf(S)}

ValidResources(S, sel) ==
    \/ AnyResource \in sel.resources
    \/ LET in == IF sel.groups = {} \/ Star \in sel.groups THEN GroupsOf(S) ELSE sel.groups
       IN  sel.resources \subseteq {x[2] : x \in {y \in ResourcesOf(S) : y[1] \in in}}

ValidVerbs(S, sel) == Star \in sel.verbs \/ sel.verbs \subseteq VerbsOf(S)

\* Without a cache every selector passes.
ValidateSelector ==
    /\ pc = "validate"
    /\ pc' = IF \A S \in Range(cache) :
                   ValidGroups(S, selector) /\ ValidResources(S, selector) /\ ValidVerbs(S, selector)
             THEN "annotate" ELSE "refused"
    /\ validatedWith' = cache
    /\ UNCHANGED <<refreshed, selector, ref, marks>>

\* annotatePhantomRefs: the group is not served, or neither the resource nor the
\* resource that it is a subresource of is served in the group.
IsPhantom(S, x) ==
    /\ x.group # Star /\ x.resource[1] # Star
    /\ \/ x.group \notin GroupsOf(S)
       \/ {<<x.group, x.resource>>, <<x.group, <<x.resource[1]>>>>} \cap ResourcesOf(S) = {}

\* resolveWildcardRef: in a group that is not served a named verb stands for itself
\* and "*" for every verb.
Resolve(S, x) ==
    LET groups == IF x.group = Star THEN GroupsOf(S) ELSE {x.group}
        resources(g) == IF x.resource[1] # Star THEN {x.resource}
                        ELSE {y[2] \o Tail(x.resource) : y \in {z \in ResourcesOf(S) : z[1] = g}}
        verbs(g, r) == IF g \notin GroupsOf(S)
                       THEN IF x.verb = Star THEN VerbsOf(S) ELSE {x.verb}
                       ELSE {v \in VerbsOf(S) : <<g, r, v>> \in S /\ x.verb \in {Star, v}}
    IN  UNION {UNION {{<<g, r, v>> : v \in verbs(g, r)} : r \in resources(g)} : g \in groups}

\* annotateUnsupportedVerbs
IsUnsupported(S, x) ==
    LET served == {t \in S : x.group \in {Star, t[1]} /\ t[2] = x.resource}
    IN  x.verb # Star /\ served # {} /\ x.verb \notin VerbsOf(served)

HasWildcard(x) == x.group = Star \/ x.resource[1] = Star \/ x.verb = Star

\* Mutant: the expansion stops when it has MaxExpanded entries and cannot tell.
Annotate_StopsAtLimit ==
    /\ pc = "annotate"
    /\ \A S \in Range(cache) :
          LET all == IF HasWildcard(ref) THEN Resolve(S, ref) ELSE {} IN
          /\ phantom' = IsPhantom(S, ref)
          /\ unsupported' = IsUnsupported(S, ref)
          /\ truncated' = FALSE
          /\ expanded' \in kSubset(IF Cardinality(all) > MaxExpanded THEN MaxExpanded
                                   ELSE Cardinality(all), all)
    /\ cache = << >> => UNCHANGED <<phantom, expanded, truncated, unsupported>>
    /\ usedCache' = cache
    /\ pc' = "answered"
    /\ UNCHANGED <<refreshed, selector, ref, validatedWith>>

\* Engine.Query gets the cache that is current by now.  The first MaxExpanded
\* entries are kept (in the order of their names), and a cut gives a warning.
Annotate ==
    /\ pc = "annotate"
    /\ \A S \in Range(cache) :
          LET all == IF HasWildcard(ref) THEN Resolve(S, ref) ELSE {} IN
          /\ phantom' = IsPhantom(S, ref)
          /\ unsupported' = IsUnsupported(S, ref)
          /\ truncated' = (Cardinality(all) > MaxExpanded)
          /\ expanded' \in kSubset(IF truncated' THEN MaxExpanded ELSE Cardinality(all), all)
    /\ cache = << >> => UNCHANGED <<phantom, expanded, truncated, unsupported>>
    /\ usedCache' = cache
    /\ pc' = "answered"
    /\ UNCHANGED <<refreshed, selector, ref, validatedWith>>

-----------------------------------------------------------------------------
Init ==
    /\ installed \in Served /\ changes = 0
    /\ fetched = Idle /\ cache = << >> /\ truth = {} /\ whole = FALSE
    /\ pc = "validate"
    /\ \E x \in Requests : selector = x[1] /\ ref = x[2]
    /\ validatedWith = << >> /\ usedCache = << >>
    /\ phantom = FALSE /\ expanded = {} /\ truncated = FALSE /\ unsupported = FALSE

Refresh == FetchWhole \/ FetchPartial \/ FetchFails \/ StoreCache

Next == ApiChange \/ Refresh \/ ValidateSelector \/ Annotate

Spec == Init /\ [][Next]_vars

\* The loop runs as long as the server does, and the cluster answers in full again
\* and again.
Fairness == SF_vars(FetchWhole) /\ WF_vars(StoreCache)

FairSpec == Spec /\ Fairness

-----------------------------------------------------------------------------
(* Properties. *)

TypeOK ==
    /\ installed \in Served /\ truth \in Served \cup {{}}
    /\ Len(fetched) <= 1 /\ Len(cache) <= 1
    /\ \A S \in Range(cache) : S \subseteq truth /\ (whole => S = truth)
    /\ pc \in {"validate", "annotate", "answered", "refused"}
    /\ Cardinality(expanded) <= MaxExpanded

\* A refresh that fails keeps the cache (discovery.go:93, "keeping stale"): once
\* selectors are validated they always are.
CacheIsNeverLost == [][cache # << >> => cache' # << >>]_vars

\* Validation and annotation are written apart, one with the groups of the selector
\* and one with the group of the reference.  They agree: what a selector for one
\* group names and validation has accepted is not called a phantom, unless the
\* cache was refreshed between the two loads or not there at the first.
AcceptedIsNoPhantom ==
    (/\ pc = "answered" /\ validatedWith # << >> /\ usedCache = validatedWith
     /\ selector.groups = {ref.group} /\ ref.resource \in selector.resources
     /\ AnyResource \notin selector.resources)
    => ~phantom

\* What a wildcard is expanded to is served, by the same cache, in that group with
\* that verb, unless the reference is marked as a phantom; and the expansion has
\* all that is served, up to the limit, and tells when it was cut.
ExpansionIsServed ==
    pc = "answered" => \A S \in Range(usedCache) :
        HasWildcard(ref) /\ ~phantom =>
            LET fits == {t \in S : /\ ref.group \in {Star, t[1]} /\ ref.verb \in {Star, t[3]}
                                   /\ ref.resource \in {AnyResource, t[2]}}
            IN  /\ expanded \subseteq S
                /\ Len(ref.resource) = 1 \/ ref.resource[1] # Star =>
                      /\ expanded \subseteq fits
                      /\ truncated = (Cardinality(fits) > MaxExpanded)
                      /\ ~truncated => expanded = fits

\* Once the cluster serves the same things for good, a refresh brings the cache up
\* to date, however many refreshes fail or are partial in between.
RefreshConverges == \A S \in Served : <>[](installed = S) => []<>(cache = <<S>>)
=============================================================================
