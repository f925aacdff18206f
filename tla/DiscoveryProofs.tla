--------------------------- MODULE DiscoveryProofs ---------------------------
(***************************************************************************)
(* Theorems about Discovery, for anything that a cluster may serve, any    *)
(* selector and matched reference, and any limit of the expansion.         *)
(***************************************************************************)
EXTENDS Discovery, FiniteSetTheorems, TLAPS

\* What a cache may hold.
InOrder(S) == IsFiniteSet(S) /\ \A t \in S : t = <<t[1], t[2], t[3]>> /\ t[2] \in Seq(STRING)

CacheInOrder(c) == c = << >> \/ \E S : c = <<S>> /\ InOrder(S)

ServedOK == installed \in Served /\ truth \in Served \cup {{}}

\* An answer under way is a part of what was served, all of it if it is whole.
FetchedOK ==
    \/ fetched = << >>
    \/ \E r : /\ fetched = <<r>> /\ InOrder(r.found) /\ r.truth \in Served
              /\ r.found \subseteq r.truth /\ (r.whole => r.found = r.truth)

CacheOK ==
    \/ cache = << >>
    \/ \E S : cache = <<S>> /\ InOrder(S) /\ S \subseteq truth /\ (whole => S = truth)

Expandable(S) == IF HasWildcard(ref) THEN Resolve(S, ref) ELSE {}

\* What a request has done, with the caches it has loaded.
RequestOK ==
    /\ pc \in {"validate", "annotate", "answered", "refused"}
    /\ \E x \in Requests : selector = x[1] /\ ref = x[2]
    /\ CacheInOrder(validatedWith) /\ CacheInOrder(usedCache)
    /\ pc \in {"annotate", "answered"} =>
          \A S : validatedWith = <<S>> =>
              ValidGroups(S, selector) /\ ValidResources(S, selector) /\ ValidVerbs(S, selector)
    /\ usedCache = << >> => expanded = {}
    /\ pc # "answered" => usedCache = << >>
    /\ \A S : usedCache = <<S>> =>
          /\ phantom = IsPhantom(S, ref)
          /\ truncated = (Cardinality(Expandable(S)) > MaxExpanded)
          /\ expanded \subseteq Expandable(S)
          /\ Cardinality(expanded) = IF Cardinality(Expandable(S)) > MaxExpanded
                                     THEN MaxExpanded ELSE Cardinality(Expandable(S))

Inv == ServedOK /\ FetchedOK /\ CacheOK /\ RequestOK

-----------------------------------------------------------------------------
(* The expansion. *)

\* What is served is in order.
LEMMA ServedInOrder == \A S \in Served : InOrder(S)
BY ServedAssumption DEF InOrder

\* A part of it too.
LEMMA PartInOrder ==
    ASSUME NEW S, InOrder(S), NEW T \in SUBSET S
    PROVE  InOrder(T)
BY FS_Subset DEF InOrder

\* The elements of a cache.
LEMMA RangeOfCache ==
    ASSUME NEW c, CacheInOrder(c)
    PROVE  \A S : S \in Range(c) <=> c = <<S>>
<1>1. CASE c = << >>
    BY <1>1 DEF Range
<1>2. ASSUME NEW T, c = <<T>> PROVE \A S : S \in Range(c) <=> c = <<S>>
  <2>1. DOMAIN c = {1} /\ c[1] = T
      BY <1>2
  <2>2. Range(c) = {T}
      BY <2>1 DEF Range
  <2>3. \A S : <<S>> = <<T>> <=> S = T
      OBVIOUS
  <2> QED BY <1>2, <2>2, <2>3
<1> QED BY <1>1, <1>2 DEF CacheInOrder

\* A reference is expanded to what is served and, in a group that is not served, to
\* itself with the verbs.
LEMMA ResolvedWhere ==
    ASSUME NEW S, NEW x
    PROVE  /\ Resolve(S, x) \subseteq S \cup {<<x.group, x.resource, v>> : v \in VerbsOf(S) \cup {x.verb}}
           /\ x.group = Star \/ x.group \in GroupsOf(S) \/ x.resource[1] = Star =>
                  Resolve(S, x) \subseteq S
<1> DEFINE groups == IF x.group = Star THEN GroupsOf(S) ELSE {x.group}
           resources(g) == IF x.resource[1] # Star THEN {x.resource}
                           ELSE {y[2] \o Tail(x.resource) : y \in {z \in ResourcesOf(S) : z[1] = g}}
           verbs(g, r) == IF g \notin GroupsOf(S)
                          THEN IF x.verb = Star THEN VerbsOf(S) ELSE {x.verb}
                          ELSE {v \in VerbsOf(S) : <<g, r, v>> \in S /\ x.verb \in {Star, v}}
           of(g) == UNION {{<<g, r, v>> : v \in verbs(g, r)} : r \in resources(g)}
<1>1. Resolve(S, x) = UNION {of(g) : g \in groups}
    BY DEF Resolve
<1>2. \A g : \A z \in of(g) : \E r \in resources(g) : \E v \in verbs(g, r) : z = <<g, r, v>>
    OBVIOUS
<1>3. \A g \in GroupsOf(S) : of(g) \subseteq S
  <2> TAKE g \in GroupsOf(S)
  <2>1. \A r : \A v \in verbs(g, r) : <<g, r, v>> \in S
      OBVIOUS
  <2> HIDE DEF verbs, resources, of
  <2> QED BY <1>2, <2>1
<1>4. ASSUME NEW g \in groups, g \notin GroupsOf(S)
      PROVE  /\ g = x.group
             /\ of(g) \subseteq {<<x.group, x.resource, v>> : v \in VerbsOf(S) \cup {x.verb}}
             /\ x.resource[1] = Star => of(g) = {}
  <2>1. g = x.group
      BY <1>4
  <2>2. \A r : verbs(g, r) \subseteq VerbsOf(S) \cup {x.verb}
      BY <1>4
  <2>3. CASE x.resource[1] = Star
    <3>1. {z \in ResourcesOf(S) : z[1] = g} = {}
        BY <1>4 DEF ResourcesOf, GroupsOf
    <3>2. resources(g) = {}
        BY <2>3, <3>1
    <3> HIDE DEF resources, verbs
    <3> QED BY <2>1, <3>2
  <2>4. CASE x.resource[1] # Star
    <3>1. resources(g) = {x.resource}
        BY <2>4
    <3> HIDE DEF resources, verbs, of
    <3> QED BY <1>2, <2>1, <2>2, <2>4, <3>1
  <2> QED BY <2>1, <2>3, <2>4
<1> HIDE DEF of
<1>5. Resolve(S, x) \subseteq S \cup {<<x.group, x.resource, v>> : v \in VerbsOf(S) \cup {x.verb}}
    BY <1>1, <1>3, <1>4
<1>6. x.group = Star \/ x.group \in GroupsOf(S) => \A g \in groups : g \in GroupsOf(S)
    OBVIOUS
<1>7. (x.group = Star \/ x.group \in GroupsOf(S) \/ x.resource[1] = Star) => Resolve(S, x) \subseteq S
    BY <1>1, <1>3, <1>4, <1>6
<1> QED BY <1>5, <1>7

\* The expansion is finite.
LEMMA ResolvedIsFinite ==
    ASSUME NEW S, InOrder(S), NEW x
    PROVE  IsFiniteSet(Resolve(S, x))
<1> DEFINE V == VerbsOf(S)
           W == V \cup {x.verb}
           T == {<<x.group, x.resource, v>> : v \in W}
<1>1. IsFiniteSet(V)
  <2> DEFINE f == [t \in S |-> t[3]]
  <2>1. f \in Surjection(S, V)
      BY DEF Surjection, VerbsOf
  <2> QED BY <2>1, FS_Surjection DEF InOrder
<1>2. IsFiniteSet(W)
    BY <1>1, FS_AddElement
<1>3. IsFiniteSet(T)
  <2> DEFINE f == [v \in W |-> <<x.group, x.resource, v>>]
  <2>1. f \in Surjection(W, T)
      BY DEF Surjection
  <2> HIDE DEF f, T, W
  <2> QED BY <1>2, <2>1, FS_Surjection
<1> HIDE DEF T
<1>4. IsFiniteSet(S \cup T)
    BY <1>3, FS_Union DEF InOrder
<1>5. Resolve(S, x) \subseteq S \cup T
    BY ResolvedWhere DEF T
<1> QED BY <1>4, <1>5, FS_Subset

\* A reference that is not a phantom is expanded to all that is served and fits it.
LEMMA ResolvedIsAll ==
    ASSUME NEW S, InOrder(S), NEW x, x.resource \in Seq(STRING), x.resource # << >>,
           x.group = Star \/ x.group \in GroupsOf(S) \/ x.resource[1] = Star,
           Len(x.resource) = 1 \/ x.resource[1] # Star
    PROVE  Resolve(S, x) = {t \in S : /\ x.group \in {Star, t[1]} /\ x.verb \in {Star, t[3]}
                                      /\ x.resource \in {AnyResource, t[2]}}
<1> DEFINE groups == IF x.group = Star THEN GroupsOf(S) ELSE {x.group}
           resources(g) == IF x.resource[1] # Star THEN {x.resource}
                           ELSE {y[2] \o Tail(x.resource) : y \in {z \in ResourcesOf(S) : z[1] = g}}
           verbs(g, r) == IF g \notin GroupsOf(S)
                          THEN IF x.verb = Star THEN VerbsOf(S) ELSE {x.verb}
                          ELSE {v \in VerbsOf(S) : <<g, r, v>> \in S /\ x.verb \in {Star, v}}
           of(g) == UNION {{<<g, r, v>> : v \in verbs(g, r)} : r \in resources(g)}
           fits == {t \in S : /\ x.group \in {Star, t[1]} /\ x.verb \in {Star, t[3]}
                              /\ x.resource \in {AnyResource, t[2]}}
<1>1. Resolve(S, x) = UNION {of(g) : g \in groups}
    BY DEF Resolve
<1>2. \A g, z : z \in of(g) <=> \E r \in resources(g) : \E v \in verbs(g, r) : z = <<g, r, v>>
  <2> HIDE DEF resources, verbs
  <2> QED OBVIOUS
<1>3. Resolve(S, x) \subseteq S
    BY ResolvedWhere
<1>4. \A t \in S : t = <<t[1], t[2], t[3]>> /\ t[2] \in Seq(STRING)
    BY DEF InOrder
<1>5. \A g : resources(g) = IF x.resource = AnyResource THEN {y[2] : y \in {z \in ResourcesOf(S) : z[1] = g}}
                            ELSE {x.resource}
  <2> TAKE g
  <2>1. CASE x.resource[1] # Star
      BY <2>1 DEF AnyResource, Star
  <2>2. CASE x.resource[1] = Star
    <3>1. Len(x.resource) = 1 /\ x.resource = AnyResource /\ Tail(x.resource) = << >>
        BY <2>2 DEF AnyResource, Star
    <3>2. \A y \in ResourcesOf(S) : y[2] \o Tail(x.resource) = y[2]
        BY <1>4, <3>1 DEF ResourcesOf
    <3>3. x.resource[1] = Star
        BY <2>2
    <3>4. {y[2] \o Tail(x.resource) : y \in {z \in ResourcesOf(S) : z[1] = g}} =
          {y[2] : y \in {z \in ResourcesOf(S) : z[1] = g}}
        BY <3>2
    <3> QED BY <3>1, <3>3, <3>4
  <2> QED BY <2>1, <2>2
<1>6. fits \subseteq Resolve(S, x)
  <2> SUFFICES ASSUME NEW t \in fits PROVE t \in Resolve(S, x)
      OBVIOUS
  <2>1. t \in S /\ t = <<t[1], t[2], t[3]>> /\ t[1] \in GroupsOf(S) /\ t[3] \in VerbsOf(S)
        /\ <<t[1], t[2]>> \in ResourcesOf(S)
      BY <1>4 DEF GroupsOf, VerbsOf, ResourcesOf
  <2>2. t[1] \in groups /\ t[3] \in verbs(t[1], t[2])
      BY <2>1
  <2>3. t[2] \in resources(t[1])
    <3>1. x.resource = AnyResource => t[2] \in {y[2] : y \in {z \in ResourcesOf(S) : z[1] = t[1]}}
      <4>1. <<t[1], t[2]>> \in {z \in ResourcesOf(S) : z[1] = t[1]} /\ <<t[1], t[2]>>[2] = t[2]
          BY <2>1
      <4> QED BY <4>1
    <3>2. x.resource # AnyResource => t[2] = x.resource
        OBVIOUS
    <3> HIDE DEF resources
    <3> QED BY <1>5, <3>1, <3>2
  <2> HIDE DEF groups, resources, verbs, fits
  <2>4. t \in of(t[1])
      BY <1>2, <2>1, <2>2, <2>3
  <2> HIDE DEF of
  <2> QED BY <1>1, <2>2, <2>4
<1>7. Resolve(S, x) \subseteq fits
  <2> SUFFICES ASSUME NEW t \in Resolve(S, x) PROVE t \in fits
      OBVIOUS
  <2>0. PICK g \in groups : t \in of(g)
    <3> HIDE DEF of, groups
    <3> QED BY <1>1
  <2>1. PICK r \in resources(g) : \E v \in verbs(g, r) : t = <<g, r, v>>
    <3> HIDE DEF of, groups, resources, verbs
    <3> QED BY <1>2, <2>0
  <2>2. PICK v \in verbs(g, r) : t = <<g, r, v>>
      BY <2>1
  <2>3. t \in S /\ t[1] = g /\ t[2] = r /\ t[3] = v
    <3> HIDE DEF groups, resources, verbs
    <3> QED BY <1>3, <2>2
  <2>4. g \in GroupsOf(S)
      BY <2>3 DEF GroupsOf
  <2>5. x.verb \in {Star, v} /\ x.group \in {Star, g}
      BY <2>0, <2>2, <2>4
  <2>6. x.resource \in {AnyResource, r}
    <3>1. CASE x.resource = AnyResource
        BY <3>1
    <3>2. CASE x.resource # AnyResource
      <4>1. resources(g) = {x.resource}
          BY <1>5, <3>2
      <4> HIDE DEF resources
      <4> QED BY <4>1
    <3> QED BY <3>1, <3>2
  <2> HIDE DEF groups, resources, verbs
  <2> QED BY <2>3, <2>5, <2>6
<1> QED BY <1>6, <1>7

-----------------------------------------------------------------------------
(* The invariant. *)

\* A server that has just started, and a request.
LEMMA InitInv == Init => Inv
<1> SUFFICES ASSUME Init PROVE Inv
    OBVIOUS
<1>1. ServedOK /\ FetchedOK /\ CacheOK
    BY DEF Init, ServedOK, FetchedOK, CacheOK, Idle
<1>2. RequestOK
    BY DEF Init, RequestOK, CacheInOrder
<1> QED BY <1>1, <1>2 DEF Inv

\* The refresh loop, and changes of what is served, leave the request alone.
LEMMA RefreshKeeps ==
    Inv /\ (ApiChange \/ FetchWhole \/ FetchPartial \/ FetchFails \/ StoreCache) => Inv'
<1> SUFFICES ASSUME Inv, ApiChange \/ FetchWhole \/ FetchPartial \/ FetchFails \/ StoreCache
             PROVE  Inv'
    OBVIOUS
<1> USE DEF Inv
<1>1. RequestOK'
  <2>1. UNCHANGED <<pc, selector, ref, validatedWith, usedCache, phantom, expanded, truncated, unsupported>>
      BY DEF ApiChange, FetchWhole, FetchPartial, FetchFails, StoreCache, vars, request, marks
  <2> QED BY <2>1 DEF RequestOK, Expandable, HasWildcard
<1>2. CASE ApiChange
    BY <1>1, <1>2 DEF ApiChange, ServedOK, FetchedOK, CacheOK
<1>3. CASE FetchWhole
    BY <1>1, <1>3, ServedInOrder DEF FetchWhole, ServedOK, FetchedOK, CacheOK
<1>4. CASE FetchPartial
  <2>1. PICK g \in GroupsOf(installed) :
            fetched' = <<[found |-> {t \in installed : t[1] # g}, whole |-> FALSE, truth |-> installed]>>
      BY <1>4 DEF FetchPartial
  <2> DEFINE part == {t \in installed : t[1] # g}
             r == [found |-> part, whole |-> FALSE, truth |-> installed]
  <2>2. InOrder(part) /\ part \subseteq installed
      BY ServedInOrder, PartInOrder DEF ServedOK
  <2> HIDE DEF part
  <2>3. /\ InOrder(r.found) /\ r.truth \in Served /\ r.found \subseteq r.truth
        /\ r.whole => r.found = r.truth
      BY <2>2 DEF ServedOK
  <2>4. fetched' = <<r>>
      BY <2>1 DEF part
  <2> HIDE DEF r
  <2>5. FetchedOK'
      BY <2>3, <2>4 DEF FetchedOK
  <2> QED BY <1>1, <1>4, <2>5 DEF FetchPartial, ServedOK, CacheOK
<1>5. CASE FetchFails
    BY <1>1, <1>5 DEF FetchFails, vars, refreshed, ServedOK, FetchedOK, CacheOK
<1>6. CASE StoreCache
  <2>1. PICK r : /\ fetched = <<r>> /\ InOrder(r.found) /\ r.truth \in Served
                 /\ r.found \subseteq r.truth /\ (r.whole => r.found = r.truth)
      BY <1>6 DEF StoreCache, FetchedOK, Idle
  <2>2. cache' = <<r.found>> /\ truth' = r.truth /\ whole' = r.whole /\ fetched' = << >>
        /\ installed' = installed
      BY <1>6, <2>1 DEF StoreCache, Idle
  <2> QED BY <1>1, <2>1, <2>2 DEF ServedOK, FetchedOK, CacheOK
<1> QED BY <1>2, <1>3, <1>4, <1>5, <1>6

\* The two steps of the request, and stuttering.
LEMMA RequestKeeps == Inv /\ (ValidateSelector \/ Annotate \/ UNCHANGED vars) => Inv'
<1> SUFFICES ASSUME Inv, ValidateSelector \/ Annotate \/ UNCHANGED vars PROVE Inv'
    OBVIOUS
<1> USE DEF Inv
<1>1. UNCHANGED <<installed, fetched, cache, truth, whole, selector, ref>>
    BY DEF ValidateSelector, Annotate, vars, refreshed, request
<1>2. ServedOK' /\ FetchedOK' /\ CacheOK'
    BY <1>1 DEF ServedOK, FetchedOK, CacheOK
<1>3. CacheInOrder(cache)
    BY DEF CacheOK, CacheInOrder
<1>4. \A S : S \in Range(cache) <=> cache = <<S>>
    BY <1>3, RangeOfCache
<1>5. \A S : Expandable(S)' = Expandable(S)
    BY <1>1 DEF Expandable, HasWildcard
<1>6. CASE ValidateSelector
  <2>1. /\ pc = "validate" /\ validatedWith' = cache
        /\ UNCHANGED <<usedCache, phantom, expanded, truncated>>
      BY <1>6 DEF ValidateSelector, marks
  <2>2. pc' = "annotate" \/ pc' = "refused"
      BY <1>6 DEF ValidateSelector
  <2>3. pc' = "annotate" =>
            \A S \in Range(cache) :
                ValidGroups(S, selector) /\ ValidResources(S, selector) /\ ValidVerbs(S, selector)
      BY <1>6 DEF ValidateSelector
  <2>4. usedCache' = << >> /\ \A S : usedCache' # <<S>>
      BY <2>1 DEF RequestOK
  <2>5. RequestOK'
      BY <1>1, <1>3, <1>4, <2>1, <2>2, <2>3, <2>4 DEF RequestOK, CacheInOrder
  <2> QED BY <1>2, <2>5
<1>7. CASE Annotate
  <2>1. /\ pc = "annotate" /\ pc' = "answered" /\ usedCache' = cache
        /\ validatedWith' = validatedWith
      BY <1>7 DEF Annotate
  <2>2. cache = << >> => expanded' = {}
      BY <1>7 DEF Annotate, RequestOK
  <2>3. ASSUME NEW S, cache = <<S>>
        PROVE  /\ phantom' = IsPhantom(S, ref)
               /\ truncated' = (Cardinality(Expandable(S)) > MaxExpanded)
               /\ expanded' \subseteq Expandable(S)
               /\ Cardinality(expanded') = IF Cardinality(Expandable(S)) > MaxExpanded
                                           THEN MaxExpanded ELSE Cardinality(Expandable(S))
    <3>1. S \in Range(cache)
        BY <1>4, <2>3
    <3> DEFINE all == IF HasWildcard(ref) THEN Resolve(S, ref) ELSE {}
    <3>2. /\ phantom' = IsPhantom(S, ref)
          /\ truncated' = (Cardinality(all) > MaxExpanded)
          /\ expanded' \in kSubset(IF truncated' THEN MaxExpanded ELSE Cardinality(all), all)
        BY <1>7, <3>1 DEF Annotate
    <3>3. all = Expandable(S)
        BY DEF Expandable
    <3>4. /\ expanded' \subseteq all
          /\ Cardinality(expanded') = IF truncated' THEN MaxExpanded ELSE Cardinality(all)
      <4> HIDE DEF all
      <4> QED BY <3>2 DEF kSubset
    <3> HIDE DEF all
    <3> QED BY <3>2, <3>3, <3>4
  <2>4. RequestOK'
      BY <1>1, <1>3, <1>5, <2>1, <2>2, <2>3 DEF RequestOK, CacheInOrder
  <2> QED BY <1>2, <2>4
<1>8. CASE UNCHANGED vars
  <2>1. UNCHANGED <<pc, selector, ref, validatedWith, usedCache, phantom, expanded, truncated>>
      BY <1>8 DEF vars, request, marks
  <2>2. RequestOK'
      BY <1>5, <2>1 DEF RequestOK
  <2> QED BY <1>2, <2>2
<1> QED BY <1>6, <1>7, <1>8

\* So the invariant always holds.
LEMMA InvHolds == Spec => []Inv
<1>1. Inv /\ [Next]_vars => Inv'
    BY RefreshKeeps, RequestKeeps DEF Next, Refresh
<1> QED BY InitInv, <1>1, PTL DEF Spec

-----------------------------------------------------------------------------
(* The theorems. *)

\* A cache holds part of what was served, all of it if it is whole, and an expansion
\* stays within its limit.
THEOREM DiscoveryTypeOK == Spec => []TypeOK
<1>1. Inv => TypeOK
  <2> SUFFICES ASSUME Inv PROVE TypeOK
      OBVIOUS
  <2>1. Len(fetched) <= 1
    <3>1. ASSUME NEW r, fetched = <<r>> PROVE Len(fetched) <= 1
        BY <3>1
    <3> QED BY <3>1 DEF Inv, FetchedOK
  <2>2. Len(cache) <= 1
    <3>1. ASSUME NEW S, cache = <<S>> PROVE Len(cache) <= 1
        BY <3>1
    <3> QED BY <3>1 DEF Inv, CacheOK
  <2>3. \A S \in Range(cache) : S \subseteq truth /\ (whole => S = truth)
    <3>1. CacheInOrder(cache)
        BY DEF Inv, CacheOK, CacheInOrder
    <3>2. \A S \in Range(cache) : cache = <<S>>
        BY <3>1, RangeOfCache
    <3> QED BY <3>2 DEF Inv, CacheOK
  <2>4. Cardinality(expanded) <= MaxExpanded
    <3>1. CASE usedCache = << >>
      <4>1. expanded = {}
          BY <3>1 DEF Inv, RequestOK
      <4> QED BY <4>1, FS_EmptySet, LimitsAssumption
    <3>2. ASSUME NEW S, usedCache = <<S>>, InOrder(S)
          PROVE  Cardinality(expanded) <= MaxExpanded
      <4>1. IsFiniteSet(Expandable(S))
          BY <3>2, ResolvedIsFinite, FS_EmptySet DEF Expandable
      <4>2. Cardinality(Expandable(S)) \in Nat
          BY <4>1, FS_CardinalityType
      <4>3. Cardinality(expanded) = IF Cardinality(Expandable(S)) > MaxExpanded
                                    THEN MaxExpanded ELSE Cardinality(Expandable(S))
          BY <3>2 DEF Inv, RequestOK
      <4> QED BY <4>2, <4>3, LimitsAssumption
    <3> QED BY <3>1, <3>2 DEF Inv, RequestOK, CacheInOrder
  <2> QED BY <2>1, <2>2, <2>3, <2>4 DEF Inv, ServedOK, RequestOK, TypeOK
<1> QED BY <1>1, InvHolds, PTL

\* Validation and annotation agree on a cache.
THEOREM AcceptedNeverPhantom == Spec => []AcceptedIsNoPhantom
<1>1. Inv => AcceptedIsNoPhantom
  <2> SUFFICES ASSUME Inv, pc = "answered", validatedWith # << >>, usedCache = validatedWith,
                      selector.groups = {ref.group}, ref.resource \in selector.resources,
                      AnyResource \notin selector.resources
               PROVE  ~phantom
      BY DEF AcceptedIsNoPhantom
  <2>1. PICK S : validatedWith = <<S>>
      BY DEF Inv, RequestOK, CacheInOrder
  <2>2. ValidGroups(S, selector) /\ ValidResources(S, selector) /\ phantom = IsPhantom(S, ref)
      BY <2>1 DEF Inv, RequestOK
  <2>3. CASE ref.group = Star
      BY <2>2, <2>3 DEF IsPhantom
  <2>4. CASE ref.group # Star
    <3>1. ref.group \in GroupsOf(S)
        BY <2>2, <2>4 DEF ValidGroups
    <3>2. ref.resource \in {y[2] : y \in {z \in ResourcesOf(S) : z[1] = ref.group}}
        BY <2>2, <2>4 DEF ValidResources
    <3>3. <<ref.group, ref.resource>> \in ResourcesOf(S)
        BY <3>2 DEF ResourcesOf
    <3> QED BY <2>2, <3>1, <3>3 DEF IsPhantom
  <2> QED BY <2>3, <2>4
<1> QED BY <1>1, InvHolds, PTL

\* What a wildcard is expanded to is served, and all that is served up to the limit.
THEOREM ExpansionAlwaysServed == Spec => []ExpansionIsServed
<1>1. Inv => ExpansionIsServed
  <2> SUFFICES ASSUME Inv, pc = "answered", NEW S \in Range(usedCache), HasWildcard(ref), ~phantom
               PROVE  LET fits == {t \in S : /\ ref.group \in {Star, t[1]} /\ ref.verb \in {Star, t[3]}
                                             /\ ref.resource \in {AnyResource, t[2]}}
                      IN  /\ expanded \subseteq S
                          /\ Len(ref.resource) = 1 \/ ref.resource[1] # Star =>
                                /\ expanded \subseteq fits
                                /\ truncated = (Cardinality(fits) > MaxExpanded)
                                /\ ~truncated => expanded = fits
      BY DEF ExpansionIsServed
  <2> DEFINE fits == {t \in S : /\ ref.group \in {Star, t[1]} /\ ref.verb \in {Star, t[3]}
                                /\ ref.resource \in {AnyResource, t[2]}}
  <2>1. usedCache = <<S>> /\ InOrder(S)
    <3>1. usedCache = <<S>>
        BY RangeOfCache DEF Inv, RequestOK
    <3> QED BY <3>1 DEF Inv, RequestOK, CacheInOrder
  <2>2. /\ phantom = IsPhantom(S, ref)
        /\ truncated = (Cardinality(Resolve(S, ref)) > MaxExpanded)
        /\ expanded \subseteq Resolve(S, ref)
        /\ Cardinality(expanded) = IF Cardinality(Resolve(S, ref)) > MaxExpanded
                                   THEN MaxExpanded ELSE Cardinality(Resolve(S, ref))
      BY <2>1 DEF Inv, RequestOK, Expandable
  <2>3. ref.group = Star \/ ref.group \in GroupsOf(S) \/ ref.resource[1] = Star
      BY <2>2 DEF IsPhantom
  <2>4. expanded \subseteq S
      BY <2>2, <2>3, ResolvedWhere
  <2>5. ASSUME Len(ref.resource) = 1 \/ ref.resource[1] # Star
        PROVE  /\ expanded \subseteq fits
               /\ truncated = (Cardinality(fits) > MaxExpanded)
               /\ ~truncated => expanded = fits
    <3>1. ref.resource \in Seq(STRING) /\ ref.resource # << >>
        BY RequestsAssumption DEF Inv, RequestOK
    <3>2. Resolve(S, ref) = fits
        BY <2>1, <2>3, <2>5, <3>1, ResolvedIsAll
    <3> HIDE DEF fits
    <3>3. IsFiniteSet(fits)
        BY <2>1, <3>2, ResolvedIsFinite
    <3>4. ~truncated => expanded = fits
        BY <2>2, <3>2, <3>3, FS_Subset
    <3> QED BY <2>2, <3>2, <3>4
  <2> QED BY <2>4, <2>5
<1> QED BY <1>1, InvHolds, PTL

\* Once there is a cache there always is one: only a refresh that found something
\* replaces it.
THEOREM CacheNeverLost == Spec => CacheIsNeverLost
<1>1. [Next]_vars => (cache # << >> => cache' # << >>)
  <2> SUFFICES ASSUME [Next]_vars, cache # << >> PROVE cache' # << >>
      OBVIOUS
  <2>1. CASE StoreCache
      BY <2>1 DEF StoreCache
  <2>2. CASE ~StoreCache
    <3>1. cache' = cache
        BY <2>2 DEF Next, Refresh, ApiChange, FetchWhole, FetchPartial, FetchFails, ValidateSelector,
                    Annotate, vars, refreshed
    <3> QED BY <3>1
  <2> QED BY <2>1, <2>2
<1>2. [Next]_vars => [cache # << >> => cache' # << >>]_vars
    BY <1>1
<1> QED BY <1>2, PTL DEF Spec, CacheIsNeverLost
=============================================================================
