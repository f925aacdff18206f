----------------------------- MODULE WebUIProofs -----------------------------
(***************************************************************************)
(* Proofs about ReviewSpec, WebProxy and WebUI.  First, of every           *)
(* specification: the versioned and the internal type, kept the same by    *)
(* hand and by a generator, say the same, and JSON loses nothing.  Then,   *)
(* for any number of calls, any values, answers and scripts: each call's   *)
(* record keeps a shape of its own (CallOK), and the page's state follows  *)
(* from the shapes of the calls (PageOK).  The properties that the run     *)
(* checks follow from the two.                                             *)
(***************************************************************************)
EXTENDS WebUI, TLAPS

-----------------------------------------------------------------------------
(* Defaults. *)

\* A field that has been filled in is not filled in again.
LEMMA OrDefaultOnce ==
    ASSUME NEW x, NEW d
    PROVE  /\ OrDefault(OrDefault(x, d), d) = OrDefault(x, d)
BY DEF OrDefault

\* The same of a limit, if the default is a positive number.
LEMMA PositiveOnce ==
    ASSUME NEW n \in Int, NEW d \in Nat \ {0}
    PROVE  /\ Positive(n, d) \in Nat \ {0}
           /\ Positive(n, d) \in Int
           /\ Positive(Positive(n, d), d) = Positive(n, d)
BY DEF Positive

\* The versioned defaults give a versioned specification.
LEMMA V1DefaultsType ==
    ASSUME NEW Strings, NEW s \in V1Specs(Strings), {"any", "expand", "active"} \subseteq Strings
    PROVE  V1Defaults(s) \in V1Specs(Strings)
<1>1. /\ OrDefault(s.matchMode, "any") \in Strings
      /\ OrDefault(s.wildcardMode, "expand") \in Strings
      /\ OrDefault(s.podPhaseMode, "active") \in Strings
  BY DEF OrDefault, V1Specs
<1>2. Positive(s.maxPodsPerSubject, 20) \in Int /\ Positive(s.maxWorkloadsPerPod, 10) \in Int
  BY PositiveOnce DEF V1Specs
<1> QED
  BY <1>1, <1>2 DEF V1Specs, V1Defaults, DefaultMaxPodsPerSubject, DefaultMaxWorkloadsPerPod

\* The two copies of the defaults (types.go of both packages, marked SYNC) agree: to
\* fill in and convert is to convert and fill in.
THEOREM DefaultsAgree ==
    ASSUME NEW Strings, NEW s \in V1Specs(Strings)
    PROVE  SpecToInternal(V1Defaults(s)) = Defaults(SpecToInternal(s))
BY DEF SpecToInternal, V1Defaults, Defaults

\* Defaults are filled in once, by either copy: the proxy fills in the versioned ones, the
\* API server the internal ones, and the engine the internal ones again.
THEOREM DefaultsOnce ==
    ASSUME NEW Strings, NEW s \in V1Specs(Strings)
    PROVE  /\ V1Defaults(V1Defaults(s)) = V1Defaults(s)
           /\ Defaults(Defaults(SpecToInternal(s))) = Defaults(SpecToInternal(s))
<1>1. \A x : /\ OrDefault(OrDefault(x, "any"), "any") = OrDefault(x, "any")
             /\ OrDefault(OrDefault(x, "expand"), "expand") = OrDefault(x, "expand")
             /\ OrDefault(OrDefault(x, "active"), "active") = OrDefault(x, "active")
  BY OrDefaultOnce
<1>2. \A n \in Int : /\ Positive(Positive(n, 20), 20) = Positive(n, 20)
                     /\ Positive(Positive(n, 10), 10) = Positive(n, 10)
  BY PositiveOnce
<1>3. V1Defaults(V1Defaults(s)) = V1Defaults(s)
  <2>1. s.maxPodsPerSubject \in Int /\ s.maxWorkloadsPerPod \in Int
    BY DEF V1Specs
  <2> QED
    BY <1>1, <1>2, <2>1 DEF V1Defaults, DefaultMaxPodsPerSubject, DefaultMaxWorkloadsPerPod
<1>4. Defaults(Defaults(SpecToInternal(s))) = Defaults(SpecToInternal(s))
  <2>1. SUFFICES ASSUME NEW t, t.MaxPodsPerSubject \in Int, t.MaxWorkloadsPerPod \in Int
                 PROVE  Defaults(Defaults(t)) = Defaults(t)
    BY DEF SpecToInternal, V1Specs
  <2> QED
    BY <1>1, <1>2, <2>1 DEF Defaults, DefaultMaxPodsPerSubject, DefaultMaxWorkloadsPerPod
<1> QED
  BY <1>3, <1>4

\* The two copies of the validation accept the same specifications.
THEOREM ValidationsAgree ==
    ASSUME NEW Strings, NEW s \in V1Specs(Strings)
    PROVE  Valid(SpecToInternal(s)) <=> V1Valid(s)
BY DEF V1Specs, SpecToInternal, V1Valid, Valid

-----------------------------------------------------------------------------
(* Conversions. *)

\* To the internal type and back nothing is lost.
THEOREM ConversionsRoundTrip ==
    ASSUME NEW Strings, NEW s \in V1Specs(Strings)
    PROVE  SpecToV1(SpecToInternal(s)) = s
BY DEF V1Specs, SpecToInternal, SpecToV1, V1Selectors, V1Scopes, SelectorToInternal,
       SelectorToV1, ScopeToInternal, ScopeToV1

\* Asking for workloads asks for pods in both types.
LEMMA RuntimeFlagsAgree ==
    ASSUME NEW Strings, NEW s \in V1Specs(Strings)
    PROVE  NormalizeRuntimeFlags(SpecToInternal(s)) = SpecToInternal(V1NormalizeRuntimeFlags(s))
           /\ V1NormalizeRuntimeFlags(s) \in V1Specs(Strings)
<1>1. (s.includePods \/ s.includeWorkloads) \in BOOLEAN
  BY DEF V1Specs
<1>2. V1NormalizeRuntimeFlags(s) \in V1Specs(Strings)
  BY <1>1 DEF V1Specs, V1NormalizeRuntimeFlags
<1>3. NormalizeRuntimeFlags(SpecToInternal(s)) = SpecToInternal(V1NormalizeRuntimeFlags(s))
  BY DEF V1Specs, SpecToInternal, V1NormalizeRuntimeFlags, NormalizeRuntimeFlags
<1> QED
  BY <1>2, <1>3

\* An answer of the engine is converted to a versioned status.
LEMMA StatusToV1Type ==
    ASSUME NEW Data, NEW st \in InternalStatuses(Data)
    PROVE  StatusToV1(st) \in V1Statuses(Data)
BY DEF InternalStatuses, InternalGraphs, StatusToV1, GraphToV1, V1Statuses, V1Graphs

-----------------------------------------------------------------------------
(* JSON. *)

\* A selector survives its encoding, in which empty lists are left out.
LEMMA SelectorRoundTrip ==
    ASSUME NEW Strings, NEW x \in V1Selectors(Strings)
    PROVE  DecodeFlat(ZeroSelector, EncodeFlat(ZeroSelector, x)) = x
BY DEF V1Selectors, DecodeFlat, EncodeFlat, ZeroSelector

\* So does a namespace scope.
LEMMA ScopeRoundTrip ==
    ASSUME NEW Strings, NEW x \in V1Scopes(Strings)
    PROVE  DecodeFlat(ZeroScope, EncodeFlat(ZeroScope, x)) = x
BY DEF V1Scopes, DecodeFlat, EncodeFlat, ZeroScope

\* What a reader finds under each key of an encoded specification.
LEMMA EncodedSpecFields ==
    ASSUME NEW Strings, NEW s \in V1Specs(Strings)
    PROVE  LET flat == DecodeFlat(ZeroSpec, EncodeSpec(s)) IN
           /\ DOMAIN flat = DOMAIN ZeroSpec
           /\ flat = [k \in DOMAIN ZeroSpec |-> flat[k]]
           /\ flat["selector"] = EncodeFlat(ZeroSelector, s.selector)
           /\ flat["namespaceScope"] = EncodeFlat(ZeroScope, s.namespaceScope)
           /\ \A k \in DOMAIN ZeroSpec \ {"selector", "namespaceScope"} : flat[k] = s[k]
<1> DEFINE o == EncodeSpec(s)
           flat == DecodeFlat(ZeroSpec, o)
<1>1. DOMAIN o = {f \in DOMAIN ZeroSpec : s[f] # ZeroSpec[f]} \cup {"selector", "namespaceScope"}
  BY DEF EncodeSpec
<1>2. o["selector"] = EncodeFlat(ZeroSelector, s.selector)
  BY DEF EncodeSpec
<1>3. o["namespaceScope"] = EncodeFlat(ZeroScope, s.namespaceScope)
  BY DEF EncodeSpec
<1>4. \A k \in DOMAIN o \ {"selector", "namespaceScope"} : o[k] = s[k]
  BY DEF EncodeSpec
<1>5. {"selector", "namespaceScope"} \subseteq DOMAIN ZeroSpec
  BY DEF ZeroSpec
<1> HIDE DEF o
<1>6. flat = [k \in DOMAIN ZeroSpec |-> IF k \in DOMAIN o THEN o[k] ELSE ZeroSpec[k]]
  BY DEF DecodeFlat
<1> HIDE DEF flat
<1>7. \A k \in DOMAIN ZeroSpec \ {"selector", "namespaceScope"} : flat[k] = s[k]
  BY <1>1, <1>4, <1>6
<1>8. flat["selector"] = EncodeFlat(ZeroSelector, s.selector)
      /\ flat["namespaceScope"] = EncodeFlat(ZeroScope, s.namespaceScope)
  BY <1>1, <1>2, <1>3, <1>5, <1>6
<1>9. DOMAIN flat = DOMAIN ZeroSpec /\ flat = [k \in DOMAIN ZeroSpec |-> flat[k]]
  BY <1>6
<1> QED
  BY <1>7, <1>8, <1>9 DEF o, flat

\* A specification that is encoded as JSON with omitempty and decoded again is the
\* same: what is left out is what a missing key gives back.
THEOREM JSONRoundTrip ==
    ASSUME NEW Strings, NEW s \in V1Specs(Strings)
    PROVE  DecodeSpec(EncodeSpec(s)) = s
<1> DEFINE flat == DecodeFlat(ZeroSpec, EncodeSpec(s))
           t == DecodeSpec(EncodeSpec(s))
<1>1. /\ DOMAIN flat = DOMAIN ZeroSpec
      /\ flat = [k \in DOMAIN ZeroSpec |-> flat[k]]
      /\ flat["selector"] = EncodeFlat(ZeroSelector, s.selector)
      /\ flat["namespaceScope"] = EncodeFlat(ZeroScope, s.namespaceScope)
      /\ \A k \in DOMAIN ZeroSpec \ {"selector", "namespaceScope"} : flat[k] = s[k]
  BY EncodedSpecFields
<1>2. s.selector \in V1Selectors(Strings) /\ s.namespaceScope \in V1Scopes(Strings)
  BY DEF V1Specs
<1>3. DOMAIN s = DOMAIN ZeroSpec /\ s = [k \in DOMAIN ZeroSpec |-> s[k]]
  BY DEF V1Specs, ZeroSpec
<1>4. t = [flat EXCEPT !.selector = DecodeFlat(ZeroSelector, @),
                       !.namespaceScope = DecodeFlat(ZeroScope, @)]
  BY DEF DecodeSpec
<1>5. {"selector", "namespaceScope"} \subseteq DOMAIN ZeroSpec
  BY DEF ZeroSpec
<1> HIDE DEF flat, t
<1>6. t = [k \in DOMAIN ZeroSpec |->
                 IF k = "selector" THEN DecodeFlat(ZeroSelector, flat["selector"])
                 ELSE IF k = "namespaceScope" THEN DecodeFlat(ZeroScope, flat["namespaceScope"])
                 ELSE flat[k]]
  BY <1>1, <1>4, <1>5
<1>7. \A k \in DOMAIN ZeroSpec : t[k] = s[k]
  BY <1>1, <1>2, <1>5, <1>6, SelectorRoundTrip, ScopeRoundTrip
<1> QED
  BY <1>3, <1>6, <1>7 DEF t

-----------------------------------------------------------------------------
\* From the versioned specification that is sent to the one the engine works on: the
\* defaults filled in once and the runtime flags made consistent, whether the sender
\* fills in defaults of its own (the proxy) or not (kubectl).
THEOREM EngineGetsTheSpec ==
    ASSUME NEW Strings, NEW s \in V1Specs(Strings), {"any", "expand", "active"} \subseteq Strings
    PROVE  /\ SpecToV1(EngineSpec(Defaults(SpecToInternal(DecodeSpec(EncodeSpec(s))))))
                = V1NormalizeRuntimeFlags(V1Defaults(s))
           /\ SpecToV1(EngineSpec(Defaults(SpecToInternal(DecodeSpec(EncodeSpec(V1Defaults(s)))))))
                = V1NormalizeRuntimeFlags(V1Defaults(s))
<1> DEFINE d == V1Defaults(s)
<1>1. d \in V1Specs(Strings)
  BY V1DefaultsType
<1>2. Defaults(SpecToInternal(s)) = SpecToInternal(d)
  BY DefaultsAgree
<1>3. Defaults(SpecToInternal(d)) = SpecToInternal(d)
  BY <1>2, DefaultsOnce
<1>4. NormalizeRuntimeFlags(SpecToInternal(d)) = SpecToInternal(V1NormalizeRuntimeFlags(d))
      /\ V1NormalizeRuntimeFlags(d) \in V1Specs(Strings)
  BY <1>1, RuntimeFlagsAgree
<1>5. SpecToV1(SpecToInternal(V1NormalizeRuntimeFlags(d))) = V1NormalizeRuntimeFlags(d)
  BY <1>4, ConversionsRoundTrip
<1>6. DecodeSpec(EncodeSpec(s)) = s /\ DecodeSpec(EncodeSpec(d)) = d
  BY <1>1, JSONRoundTrip
<1> HIDE DEF d
<1>7. EngineSpec(SpecToInternal(d)) = SpecToInternal(V1NormalizeRuntimeFlags(d))
  BY <1>3, <1>4 DEF EngineSpec
<1> QED
  BY <1>2, <1>3, <1>5, <1>6, <1>7 DEF d

-----------------------------------------------------------------------------
(* Calls. *)

Ats   == {"new", "receiving", "calling", "reading", "writing", "direct", "done", "over"}
Flows == {"none", "query", "discover", "script", "kubectl"}
Codes == {"none", "refused", "error", "created", "bad gateway", "reset", "late", "aborted"}

Engines == {SpecToInternal(s) : s \in V1Specs(Names)}

CallRecords ==
    [at : Ats, flow : Flows, form : Forms, meant : V1Specs(Names), age : 0 .. MaxAge,
     asked : 0 .. MaxAge, engine : Engines \cup {None}, result : Statuses \cup {None},
     code : Codes, data : V1Statuses(Items) \cup {None, Cut}]

\* What the writer of a request means, and what reaches the proxy's decoder for it.
Wanted(form, s) == IF form = "selector" THEN [ZeroSpec EXCEPT !.selector = s.selector] ELSE s

IsGap(form, s) == form = "bare" /\ s.selector = ZeroSelector

\* The two gaps of EngineSeesWhatWasMeant.
Misread(flow, form, s) == IsGap(form, s) \/ (flow = "kubectl" /\ ~s.includeRuleMetadata)

Metadata(s) == [s EXCEPT !.includeRuleMetadata = TRUE]

-----------------------------------------------------------------------------
(* The forms of a request. *)

\* The specification of a struct that nothing was decoded into has the type of one.
LEMMA ZeroSpecType == ZeroSpec \in V1Specs(Names)
<1>1. "" \in Names
  BY NamesAssumption
<1>2. ZeroSelector \in V1Selectors(Names) /\ ZeroScope \in V1Scopes(Names)
  BY DEF ZeroSelector, V1Selectors, ZeroScope, V1Scopes
<1> DEFINE Z(w, b, n) ==
               [selector |-> ZeroSelector, matchMode |-> w, wildcardMode |-> w,
                includeRuleMetadata |-> b, namespaceScope |-> ZeroScope, includePods |-> b,
                includeWorkloads |-> b, podPhaseMode |-> w, maxPodsPerSubject |-> n,
                maxWorkloadsPerPod |-> n, filterPhantomAPIs |-> b]
<1>3. \A w \in Names, b \in BOOLEAN, n \in Int : Z(w, b, n) \in V1Specs(Names)
  BY <1>2 DEF V1Specs
<1>4. ZeroSpec = Z("", FALSE, 0)
  BY DEF ZeroSpec
<1>5. 0 \in Int /\ FALSE \in BOOLEAN
  OBVIOUS
<1> HIDE DEF Z
<1> QED
  BY <1>1, <1>3, <1>4, <1>5, Zenon

\* What a client can ask for has the type of a versioned specification.
LEMMA WantedType ==
    ASSUME NEW form, NEW s \in V1Specs(Names)
    PROVE  Wanted(form, s) \in V1Specs(Names)
BY ZeroSpecType DEF Wanted, V1Specs

\* An encoded specification has no key of a review, so it is not taken for one.
LEMMA EncodedKeys ==
    ASSUME NEW s \in V1Specs(Names)
    PROVE  /\ "spec" \notin DOMAIN EncodeSpec(s)
           /\ "selector" \in DOMAIN EncodeSpec(s)
           /\ EncodeSpec(s)["selector"] = EncodeFlat(ZeroSelector, s.selector)
           /\ DOMAIN EncodeSpec(s) \cap DOMAIN ZeroSelector = {}
           /\ EncodeSpec(s) = [k \in DOMAIN EncodeSpec(s) |-> EncodeSpec(s)[k]]
BY DEF EncodeSpec, ZeroSpec, ZeroSelector

\* Only an empty selector is encoded as an empty object.
LEMMA EmptySelector ==
    ASSUME NEW x \in V1Selectors(Names)
    PROVE  EncodeFlat(ZeroSelector, x) = << >> <=> x = ZeroSelector
<1>1. EncodeFlat(ZeroSelector, ZeroSelector) = << >>
  BY DEF EncodeFlat
<1>2. ASSUME EncodeFlat(ZeroSelector, x) = << >>
      PROVE  x = ZeroSelector
  <2>1. DecodeFlat(ZeroSelector, << >>) = ZeroSelector
    BY DEF DecodeFlat, ZeroSelector
  <2> QED
    BY <1>2, <2>1, SelectorRoundTrip
<1> QED
  BY <1>1, <1>2

\* decodeClientRequest understands each of the documented forms as its writer means it,
\* with one gap: of a spec without a selector nothing is understood.
THEOREM FormsAreToldApart ==
    ASSUME NEW form \in Forms \ {"broken"}, NEW s \in V1Specs(Names)
    PROVE  DecodeClientRequest(Written(form, s)) = IF IsGap(form, s) THEN ZeroSpec ELSE Wanted(form, s)
<1> DEFINE o == EncodeSpec(s)
<1>1. /\ "spec" \notin DOMAIN o /\ "selector" \in DOMAIN o
      /\ o["selector"] = EncodeFlat(ZeroSelector, s.selector)
      /\ DOMAIN o \cap DOMAIN ZeroSelector = {}
      /\ o = [k \in DOMAIN o |-> o[k]]
  BY EncodedKeys
<1>2. DecodeSpec(o) = s
  BY JSONRoundTrip
<1>3. s.selector \in V1Selectors(Names)
  BY DEF V1Specs
<1> HIDE DEF o
<1>4. CASE form = "review"
  <2>1. Written(form, s) = [spec |-> o]
    BY <1>4 DEF Written, o
  <2>2. DecodeClientRequest([spec |-> o]) = DecodeSpec(o)
    BY DEF DecodeClientRequest
  <2> QED
    BY <1>2, <1>4, <2>1, <2>2 DEF IsGap, Wanted
<1>5. CASE form = "spec"
  <2>1. Written(form, s) = o
    BY <1>5 DEF Written, o
  <2>2. DecodeClientRequest(o) = DecodeSpec(o)
    BY <1>1 DEF DecodeClientRequest
  <2> QED
    BY <1>2, <1>5, <2>1, <2>2 DEF IsGap, Wanted
<1>6. CASE form = "selector"
  <2>1. Written(form, s) = EncodeFlat(ZeroSelector, s.selector)
    BY <1>1, <1>6 DEF Written, o
  <2>2. {"spec", "selector"} \cap DOMAIN EncodeFlat(ZeroSelector, s.selector) = {}
    BY DEF EncodeFlat, ZeroSelector
  <2>3. DecodeClientRequest(Written(form, s)) = [ZeroSpec EXCEPT !.selector = DecodeSelector(Written(form, s))]
    BY <2>1, <2>2 DEF DecodeClientRequest
  <2>4. DecodeSelector(Written(form, s)) = s.selector
    BY <1>3, <2>1, SelectorRoundTrip DEF DecodeSelector
  <2> QED
    BY <1>6, <2>3, <2>4 DEF IsGap, Wanted
<1>7. CASE form = "bare"
  <2> DEFINE w == [k \in {f \in DOMAIN o : f # "selector" \/ o[f] # << >>} |-> o[k]]
  <2>1. Written(form, s) = w
    BY <1>7 DEF Written, o
  <2>2. CASE s.selector = ZeroSelector
    <3>1. o["selector"] = << >>
      BY <1>1, <1>3, <2>2, EmptySelector
    <3>2. DOMAIN w = DOMAIN o \ {"selector"}
      BY <3>1
    <3>3. {"spec", "selector"} \cap DOMAIN w = {} /\ DOMAIN w \cap DOMAIN ZeroSelector = {}
      BY <1>1, <3>2
    <3> HIDE DEF w
    <3>4. DecodeClientRequest(w) = [ZeroSpec EXCEPT !.selector = DecodeSelector(w)]
      BY <3>3 DEF DecodeClientRequest
    <3>5. DecodeSelector(w) = ZeroSelector
      BY <3>3 DEF DecodeSelector, DecodeFlat, ZeroSelector
    <3>6. [ZeroSpec EXCEPT !.selector = ZeroSelector] = ZeroSpec
      <4>1. ZeroSpec.selector = ZeroSelector
        BY DEF ZeroSpec
      <4> QED
        BY <4>1, ZeroSpecType DEF V1Specs
    <3> QED
      BY <1>7, <2>1, <2>2, <3>4, <3>5, <3>6 DEF IsGap
  <2>3. CASE s.selector # ZeroSelector
    <3>1. o["selector"] # << >>
      BY <1>1, <1>3, <2>3, EmptySelector
    <3>2. {f \in DOMAIN o : f # "selector" \/ o[f] # << >>} = DOMAIN o
      BY <3>1
    <3>3. w = o
      BY <1>1, <3>2
    <3> HIDE DEF w
    <3>4. DecodeClientRequest(o) = DecodeSpec(o)
      BY <1>1 DEF DecodeClientRequest
    <3> QED
      BY <1>2, <1>7, <2>1, <2>3, <3>3, <3>4 DEF IsGap, Wanted
  <2> QED
    BY <2>2, <2>3
<1> QED
  BY <1>4, <1>5, <1>6, <1>7 DEF Forms

-----------------------------------------------------------------------------
(* What the engine gets. *)

IntendedBy(form, s) == Metadata(Wanted(form, s))

\* The proxy asks for rule metadata; that commutes with filling in defaults.
LEMMA MetadataFields ==
    ASSUME NEW s \in V1Specs(Names)
    PROVE  LET m == Metadata(s) IN
           /\ m \in V1Specs(Names)
           /\ m.includeRuleMetadata = TRUE
           /\ m.selector = s.selector /\ m.matchMode = s.matchMode
           /\ m.wildcardMode = s.wildcardMode /\ m.namespaceScope = s.namespaceScope
           /\ m.includePods = s.includePods /\ m.includeWorkloads = s.includeWorkloads
           /\ m.podPhaseMode = s.podPhaseMode /\ m.filterPhantomAPIs = s.filterPhantomAPIs
           /\ m.maxPodsPerSubject = s.maxPodsPerSubject
           /\ m.maxWorkloadsPerPod = s.maxWorkloadsPerPod
BY DEF Metadata, V1Specs

\* Asking for rule metadata before or after the defaults gives the same.
LEMMA MetadataCommutes ==
    ASSUME NEW s \in V1Specs(Names)
    PROVE  Metadata(V1Defaults(s)) = V1Defaults(Metadata(s))
<1> DEFINE m == Metadata(s)
           d == V1Defaults(s)
           l == Metadata(d)
           r == V1Defaults(m)
<1>1. {"any", "expand", "active"} \subseteq Names
  BY NamesAssumption
<1>2. m \in V1Specs(Names) /\ d \in V1Specs(Names)
  BY <1>1, MetadataFields, V1DefaultsType
<1>3. l \in V1Specs(Names) /\ r \in V1Specs(Names)
  BY <1>1, <1>2, MetadataFields, V1DefaultsType
<1>4. /\ l.includeRuleMetadata = r.includeRuleMetadata
      /\ l.selector = r.selector /\ l.matchMode = r.matchMode
      /\ l.wildcardMode = r.wildcardMode /\ l.namespaceScope = r.namespaceScope
      /\ l.includePods = r.includePods /\ l.includeWorkloads = r.includeWorkloads
      /\ l.podPhaseMode = r.podPhaseMode /\ l.filterPhantomAPIs = r.filterPhantomAPIs
      /\ l.maxPodsPerSubject = r.maxPodsPerSubject
      /\ l.maxWorkloadsPerPod = r.maxWorkloadsPerPod
  <2> HIDE DEF m, l
  <2>1. /\ m.includeRuleMetadata = TRUE
        /\ m.selector = s.selector /\ m.matchMode = s.matchMode
        /\ m.wildcardMode = s.wildcardMode /\ m.namespaceScope = s.namespaceScope
        /\ m.includePods = s.includePods /\ m.includeWorkloads = s.includeWorkloads
        /\ m.podPhaseMode = s.podPhaseMode /\ m.filterPhantomAPIs = s.filterPhantomAPIs
        /\ m.maxPodsPerSubject = s.maxPodsPerSubject
        /\ m.maxWorkloadsPerPod = s.maxWorkloadsPerPod
    BY MetadataFields DEF m
  <2>2. /\ l.includeRuleMetadata = TRUE
        /\ l.selector = d.selector /\ l.matchMode = d.matchMode
        /\ l.wildcardMode = d.wildcardMode /\ l.namespaceScope = d.namespaceScope
        /\ l.includePods = d.includePods /\ l.includeWorkloads = d.includeWorkloads
        /\ l.podPhaseMode = d.podPhaseMode /\ l.filterPhantomAPIs = d.filterPhantomAPIs
        /\ l.maxPodsPerSubject = d.maxPodsPerSubject
        /\ l.maxWorkloadsPerPod = d.maxWorkloadsPerPod
    <3> HIDE DEF d
    <3> QED
      BY <1>2, MetadataFields DEF l
  <2> QED
    BY <2>1, <2>2 DEF V1Defaults
<1> HIDE DEF l, r
<1> QED
  BY <1>3, <1>4 DEF V1Specs, l, r

\* The specification that the engine works on, for any call that the API server serves.
LEMMA ServedSpec ==
    ASSUME NEW c, NEW s \in V1Specs(Names), call[c].meant = s, call[c].form \in Forms \ {"broken"},
           call[c].flow = "kubectl" => call[c].form = "review"
    PROVE  /\ EngineSpec(Received(c)) \in Engines
           /\ ~Misread(call[c].flow, call[c].form, s) =>
                 SpecToV1(EngineSpec(Received(c)))
                     = V1NormalizeRuntimeFlags(V1Defaults(IntendedBy(call[c].form, s)))
<1>1. ASSUME NEW t \in V1Specs(Names)
      PROVE  EngineSpec(Defaults(SpecToInternal(t))) \in Engines
  <2>1. V1Defaults(t) \in V1Specs(Names) /\ V1Defaults(V1Defaults(t)) \in V1Specs(Names)
    BY V1DefaultsType, NamesAssumption
  <2>2. EngineSpec(Defaults(SpecToInternal(t))) = NormalizeRuntimeFlags(SpecToInternal(V1Defaults(t)))
    BY DefaultsOnce, DefaultsAgree DEF EngineSpec
  <2> QED
    BY <2>1, <2>2, RuntimeFlagsAgree DEF Engines
<1>2. CASE call[c].flow = "kubectl"
  <2>1. Received(c) = Defaults(SpecToInternal(DecodeSpec(EncodeSpec(s))))
    BY <1>2 DEF Received, Proxied
  <2>2. ~Misread(call[c].flow, call[c].form, s) => IntendedBy(call[c].form, s) = s
    <3> SUFFICES ASSUME s.includeRuleMetadata = TRUE PROVE IntendedBy(call[c].form, s) = s
      BY <1>2 DEF Misread, V1Specs
    <3>1. Wanted(call[c].form, s) = s
      BY <1>2 DEF Wanted
    <3> QED
      BY <3>1 DEF IntendedBy, Metadata, V1Specs
  <2>3. DecodeSpec(EncodeSpec(s)) = s
    BY JSONRoundTrip
  <2>4. {"any", "expand", "active"} \subseteq Names
    BY NamesAssumption
  <2> QED
    BY <1>1, <2>1, <2>2, <2>3, <2>4, EngineGetsTheSpec
<1>3. CASE call[c].flow # "kubectl"
  <2> DEFINE d == DecodeClientRequest(Written(call[c].form, s))
             m == Metadata(d)
  <2>1. d = IF IsGap(call[c].form, s) THEN ZeroSpec ELSE Wanted(call[c].form, s)
    BY FormsAreToldApart
  <2>2. d \in V1Specs(Names)
    BY <2>1, ZeroSpecType, WantedType
  <2> HIDE DEF d
  <2>3. m \in V1Specs(Names)
    BY <2>2, MetadataFields
  <2>4. Forwarded(Written(call[c].form, s)) = V1Defaults(m)
    BY <2>2, MetadataCommutes DEF Forwarded, Metadata, d
  <2>5. Received(c) = Defaults(SpecToInternal(DecodeSpec(EncodeSpec(V1Defaults(m)))))
    BY <1>3, <2>4 DEF Received, Proxied
  <2>6. ~Misread(call[c].flow, call[c].form, s) => m = IntendedBy(call[c].form, s)
    BY <1>3, <2>1 DEF IntendedBy, Misread
  <2> HIDE DEF m
  <2>7. {"any", "expand", "active"} \subseteq Names
    BY NamesAssumption
  <2>8. V1Defaults(m) \in V1Specs(Names)
    BY <2>3, <2>7, V1DefaultsType
  <2>9. DecodeSpec(EncodeSpec(V1Defaults(m))) = V1Defaults(m)
    BY <2>8, JSONRoundTrip
  <2>10. SpecToV1(EngineSpec(Received(c))) = V1NormalizeRuntimeFlags(V1Defaults(m))
    BY <2>3, <2>5, <2>7, EngineGetsTheSpec
  <2> QED
    BY <1>1, <2>5, <2>6, <2>8, <2>9, <2>10
<1> QED
  BY <1>2, <1>3

-----------------------------------------------------------------------------
(* The calls. *)

\* What holds of every call on its own: where it is tells whose it is; the clock does
\* not go past the proxy's limit on the upstream call; what has been read is what the
\* engine has answered, unless it was cut; and the engine works on what was meant.
CallOK(r) ==
    /\ r \in CallRecords
    /\ r.flow = "none" <=> r.at \in {"new", "over"}
    /\ r.at = "receiving" => r.asked = MaxAge
    /\ r.at \in {"receiving", "calling", "reading", "writing"} => r.flow # "kubectl"
    /\ r.at = "direct" => r.flow = "kubectl" /\ r.form = "review"
    /\ r.at \in {"calling", "reading"} => r.form # "broken"
    /\ r.at \in {"calling", "reading", "writing"} => r.age <= r.asked + UpstreamTimeout
    /\ r.at # "done" => r.code \notin {"late", "aborted"}
    /\ r.data \notin {None, Cut} => r.result \in Statuses /\ r.data = StatusToV1(r.result)
    /\ r.engine # None /\ ~Misread(r.flow, r.form, r.meant) =>
          SpecToV1(r.engine) = V1NormalizeRuntimeFlags(V1Defaults(IntendedBy(r.form, r.meant)))

CallsOK == /\ call \in [Calls -> CallRecords]
           /\ \A c \in Calls : CallOK(call[c])

\* A call that has just been sent has the type of a call.
LEMMA NewType ==
    /\ New \in CallRecords
    /\ New.at = "new" /\ New.flow = "none" /\ New.asked = MaxAge /\ New.age = 0
    /\ New.engine = None /\ New.data = None /\ New.result = None /\ New.form = "broken"
<1>1. ASSUME NEW n \in 0 .. MaxAge
      PROVE  [at |-> "new", flow |-> "none", form |-> "broken", meant |-> ZeroSpec, age |-> n,
              asked |-> MaxAge, engine |-> None, result |-> None, code |-> "none",
              data |-> None] \in CallRecords
  <2>1. MaxAge \in 0 .. MaxAge
    BY DEF MaxAge
  <2> QED
    BY <2>1, ZeroSpecType DEF CallRecords, Ats, Flows, Forms, Codes
<1>2. 0 \in 0 .. MaxAge
  BY DEF MaxAge
<1> DEFINE z == 0
<1>3. New = [at |-> "new", flow |-> "none", form |-> "broken", meant |-> ZeroSpec, age |-> z,
             asked |-> MaxAge, engine |-> None, result |-> None, code |-> "none", data |-> None]
  BY DEF New
<1> HIDE DEF z
<1>4. New \in CallRecords
  BY <1>1, <1>2, <1>3 DEF z
<1>5. /\ New.at = "new" /\ New.flow = "none" /\ New.asked = MaxAge /\ New.age = z
      /\ New.engine = None /\ New.data = None /\ New.result = None /\ New.form = "broken"
  BY <1>3
<1> QED
  BY <1>4, <1>5 DEF z

\* A call that has just been sent.
LEMMA PostedOK ==
    ASSUME NEW at \in {"direct", "receiving", "done"}, NEW code \in {"none", "reset"},
           NEW flow \in Flows \ {"none"}, NEW form \in Forms, NEW meant \in V1Specs(Names),
           at = "direct" => flow = "kubectl" /\ form = "review",
           at = "receiving" => flow # "kubectl"
    PROVE  CallOK([New EXCEPT !.at = at, !.code = code, !.flow = flow, !.form = form, !.meant = meant])
<1> DEFINE r == [New EXCEPT !.at = at, !.code = code, !.flow = flow, !.form = form, !.meant = meant]
<1>1. r \in CallRecords
  BY NewType DEF CallRecords, Ats, Codes
<1>2. r.at = at /\ r.code = code /\ r.flow = flow /\ r.form = form /\ r.asked = MaxAge /\ r.engine = None /\ r.data = None
  BY NewType DEF CallRecords
<1> HIDE DEF r
<1> QED
  BY <1>1, <1>2 DEF CallOK, r

\* A call that has come to its end.
LEMMA EndedOK ==
    ASSUME NEW c \in Calls, CallOK(call[c]), call[c].flow # "none", NEW code \in Codes,
           NEW data \in {None, call[c].data}
    PROVE  CallOK(Ended(c, code, data))
           /\ Ended(c, code, data).flow = call[c].flow
           /\ Ended(c, code, data).at = "done"
           /\ Ended(c, code, data).code = code
<1> DEFINE r == Ended(c, code, data)
<1>1. call[c] \in CallRecords
  BY DEF CallOK
<1>2. (IF data = None THEN None ELSE call[c].result) \in Statuses \cup {None}
  BY <1>1 DEF CallRecords
<1>3. r \in CallRecords
  <2>1. ASSUME NEW f \in Flows, NEW res \in Statuses \cup {None},
               NEW dat \in V1Statuses(Items) \cup {None, Cut}
        PROVE  [New EXCEPT !.at = "done", !.flow = f, !.code = code, !.data = dat, !.result = res]
                   \in CallRecords
    BY NewType DEF CallRecords, Ats
  <2>2. call[c].flow \in Flows /\ data \in V1Statuses(Items) \cup {None, Cut}
    BY <1>1 DEF CallRecords
  <2> QED
    BY <1>2, <2>1, <2>2 DEF Ended
<1>4. /\ r.at = "done" /\ r.flow = call[c].flow /\ r.engine = None /\ r.code = code
      /\ r.data = data /\ r.result = IF data = None THEN None ELSE call[c].result
  BY NewType DEF Ended, CallRecords
<1> HIDE DEF r
<1> QED
  BY <1>3, <1>4 DEF CallOK, r

-----------------------------------------------------------------------------
(* The steps of one call. *)

\* A step of call c leaves the others alone and keeps whose the call is.
Moves(c) ==
    /\ call' \in [Calls -> CallRecords]
    /\ \A d \in Calls \ {c} : call'[d] = call[d]
    /\ CallOK(call'[c])
    /\ call'[c].flow = call[c].flow /\ call[c].flow # "none"

\* TimeoutsNest, for call c.
Nests(c) ==
    call[c].at # "done" /\ call'[c].at = "done" =>
        /\ call'[c].code = "late"    => call[c].asked + UpstreamTimeout >= WriteTimeout
        /\ call'[c].code = "aborted" => call[c].asked + UpstreamTimeout >= AbortTimeout

\* A record that replaces that of call c.
LEMMA Replaced ==
    ASSUME CallsOK, NEW c \in Calls, NEW r, CallOK(r), call' = [call EXCEPT ![c] = r],
           r.flow = call[c].flow, call[c].flow # "none"
    PROVE  Moves(c) /\ call'[c] = r
BY DEF CallsOK, Moves, CallOK

\* A call that the proxy refuses stays in order.
LEMMA RefuseOK ==
    ASSUME CallsOK, NEW c \in Calls, Refuse(c)
    PROVE  Moves(c) /\ Nests(c)
<1> DEFINE r == [call[c] EXCEPT !.at = "writing", !.code = "refused"]
<1>1. call[c] \in CallRecords /\ CallOK(call[c])
  BY DEF CallsOK
<1>2. call[c].at = "receiving" /\ call' = [call EXCEPT ![c] = r]
  BY DEF Refuse
<1>3. r \in CallRecords
  BY <1>1 DEF CallRecords, Ats, Codes
<1>4. /\ r.at = "writing" /\ r.code \notin {"late", "aborted"} /\ r.flow = call[c].flow /\ r.form = call[c].form
      /\ r.meant = call[c].meant /\ r.age = call[c].age /\ r.asked = call[c].asked
      /\ r.engine = call[c].engine /\ r.data = call[c].data /\ r.result = call[c].result
  BY <1>1 DEF CallRecords
<1> HIDE DEF r
<1>5. r.age <= r.asked + UpstreamTimeout
  BY <1>1, <1>2, <1>4 DEF CallOK, CallRecords, MaxAge, UpstreamTimeout
<1>6. CallOK(r)
  BY <1>1, <1>2, <1>3, <1>4, <1>5 DEF CallOK
<1> QED
  BY <1>1, <1>2, <1>4, <1>6, Replaced DEF CallOK, Nests

\* So does a call that the proxy sends on,
LEMMA ForwardOK ==
    ASSUME CallsOK, NEW c \in Calls, Forward(c)
    PROVE  Moves(c) /\ Nests(c)
<1> DEFINE r == [call[c] EXCEPT !.at = "calling", !.asked = call[c].age]
<1>1. call[c] \in CallRecords /\ CallOK(call[c])
  BY DEF CallsOK
<1>2. call[c].at = "receiving" /\ call[c].form # "broken" /\ call' = [call EXCEPT ![c] = r]
  BY DEF Forward
<1>3. r \in CallRecords
  BY <1>1 DEF CallRecords, Ats
<1>4. /\ r.at = "calling" /\ r.code = call[c].code /\ r.flow = call[c].flow /\ r.form = call[c].form
      /\ r.meant = call[c].meant /\ r.age = call[c].age /\ r.asked = call[c].age
      /\ r.engine = call[c].engine /\ r.data = call[c].data /\ r.result = call[c].result
  BY <1>1 DEF CallRecords
<1> HIDE DEF r
<1>5. r.age <= r.asked + UpstreamTimeout
  BY <1>1, <1>4 DEF CallRecords, MaxAge, UpstreamTimeout
<1>6. CallOK(r)
  BY <1>1, <1>2, <1>3, <1>4, <1>5 DEF CallOK
<1> QED
  BY <1>1, <1>2, <1>4, <1>6, Replaced DEF CallOK, Nests

\* one that the API server answers: here the engine gets its specification,
LEMMA ServeOK ==
    ASSUME CallsOK, NEW c \in Calls, Serve(c)
    PROVE  Moves(c) /\ Nests(c)
<1> DEFINE next == IF Proxied(c) THEN "reading" ELSE "done"
           e    == EngineSpec(Received(c))
           fail == [call[c] EXCEPT !.at = next, !.code = "error"]
           good(st) == [call[c] EXCEPT !.at = next, !.engine = e, !.result = st,
                                       !.code = "created", !.data = StatusToV1(st)]
<1>1. call[c] \in CallRecords /\ CallOK(call[c]) /\ call[c].at \in {"calling", "direct"}
  BY DEF CallsOK, Serve
<1>2. \/ call' = [call EXCEPT ![c] = fail]
      \/ \E st \in Statuses : call' = [call EXCEPT ![c] = good(st)]
  <2>1. \/ \E st \in Statuses :
              call' = [call EXCEPT ![c].at = next, ![c].engine = e, ![c].result = st,
                                   ![c].code = "created", ![c].data = StatusToV1(st)]
        \/ call' = [call EXCEPT ![c].at = next, ![c].code = "error"]
    BY Zenon DEF Serve
  <2> HIDE DEF next, e
  <2>2. CASE call' = [call EXCEPT ![c].at = next, ![c].code = "error"]
    BY <2>2
  <2>3. ASSUME NEW st \in Statuses,
               call' = [call EXCEPT ![c].at = next, ![c].engine = e, ![c].result = st,
                                    ![c].code = "created", ![c].data = StatusToV1(st)]
        PROVE  call' = [call EXCEPT ![c] = good(st)]
    BY <2>3
  <2> QED
    BY <2>1, <2>2, <2>3
<1>3. /\ next \in {"reading", "done"}
      /\ next = "reading" => call[c].at = "calling" /\ call[c].flow # "kubectl"
  BY <1>1 DEF Proxied, CallOK
<1>4. /\ call[c].meant \in V1Specs(Names) /\ call[c].form \in Forms \ {"broken"}
      /\ call[c].flow = "kubectl" => call[c].form = "review"
      /\ call[c].flow # "none"
  BY <1>1 DEF CallOK, CallRecords, Forms
<1>5. /\ e \in Engines
      /\ ~Misread(call[c].flow, call[c].form, call[c].meant) =>
            SpecToV1(e) =
                V1NormalizeRuntimeFlags(V1Defaults(IntendedBy(call[c].form, call[c].meant)))
  BY <1>4, ServedSpec
<1> HIDE DEF next, e
<1>6. CASE call' = [call EXCEPT ![c] = fail]
  <2>1. fail \in CallRecords
    BY <1>1, <1>3 DEF CallRecords, Ats, Codes
  <2>2. /\ fail.at = next /\ fail.flow = call[c].flow /\ fail.form = call[c].form
        /\ fail.meant = call[c].meant /\ fail.age = call[c].age /\ fail.asked = call[c].asked
        /\ fail.engine = call[c].engine /\ fail.data = call[c].data
        /\ fail.result = call[c].result /\ fail.code = "error"
    BY <1>1 DEF CallRecords
  <2> HIDE DEF fail
  <2>3. CallOK(fail)
    BY <1>1, <1>3, <1>4, <2>1, <2>2 DEF CallOK
  <2> QED
    BY <1>4, <1>6, <2>2, <2>3, Replaced DEF Nests
<1>7. ASSUME NEW st \in Statuses, call' = [call EXCEPT ![c] = good(st)]
      PROVE  Moves(c) /\ Nests(c)
  <2> DEFINE r == good(st)
  <2>0. StatusToV1(st) \in V1Statuses(Items)
    BY StatusesAssumption, StatusToV1Type
  <2>1. r \in CallRecords
    BY <1>1, <1>3, <1>5, <2>0 DEF CallRecords, Ats, Codes
  <2>2. /\ r.at = next /\ r.flow = call[c].flow /\ r.form = call[c].form
        /\ r.meant = call[c].meant /\ r.age = call[c].age /\ r.asked = call[c].asked
        /\ r.engine = e /\ r.data = StatusToV1(st) /\ r.result = st /\ r.code = "created"
    BY <1>1 DEF CallRecords
  <2> HIDE DEF r
  <2>3. CallOK(r)
    BY <1>1, <1>3, <1>4, <1>5, <2>1, <2>2 DEF CallOK
  <2>4. call' = [call EXCEPT ![c] = r]
    BY <1>7 DEF r
  <2> QED
    BY <1>4, <2>2, <2>3, <2>4, Replaced DEF Nests
<1> HIDE DEF fail, good
<1> QED
  BY <1>2, <1>6, <1>7

\* one whose answer the proxy reads, whole or cut at 10 MB,
LEMMA ReadOK ==
    ASSUME CallsOK, NEW c \in Calls, Read(c)
    PROVE  Moves(c) /\ Nests(c)
<1>1. call[c] \in CallRecords /\ CallOK(call[c]) /\ call[c].at = "reading"
  BY DEF CallsOK, Read
<1> DEFINE r(d) == [call[c] EXCEPT !.at = "writing", !.data = d]
<1>2. PICK d \in {call[c].data, Cut} : call' = [call EXCEPT ![c] = r(d)]
  <2>1. CASE call' = [call EXCEPT ![c].at = "writing"]
    <3>1. r(call[c].data) = [call[c] EXCEPT !.at = "writing"]
      BY <1>1 DEF CallRecords
    <3> QED
      BY <2>1, <3>1
  <2>2. CASE call' = [call EXCEPT ![c].at = "writing", ![c].data = Cut]
    BY <2>2
  <2> QED
    BY <2>1, <2>2 DEF Read
<1>3. d \in V1Statuses(Items) \cup {None, Cut}
  BY <1>1 DEF CallRecords
<1>4. r(d) \in CallRecords
  BY <1>1, <1>3 DEF CallRecords, Ats
<1>5. /\ r(d).at = "writing" /\ r(d).code = call[c].code /\ r(d).flow = call[c].flow /\ r(d).form = call[c].form
      /\ r(d).meant = call[c].meant /\ r(d).age = call[c].age /\ r(d).asked = call[c].asked
      /\ r(d).engine = call[c].engine /\ r(d).data = d /\ r(d).result = call[c].result
  BY <1>1, <1>3 DEF CallRecords
<1> HIDE DEF r
<1>6. CallOK(r(d))
  BY <1>1, <1>4, <1>5 DEF CallOK
<1> QED
  BY <1>1, <1>2, <1>5, <1>6, Replaced DEF CallOK, Nests

\* one that fails on its way to the API server,
LEMMA FailOK ==
    ASSUME CallsOK, NEW c \in Calls, Fail(c)
    PROVE  Moves(c) /\ Nests(c)
<1> DEFINE r == [call[c] EXCEPT !.at = "writing", !.code = "bad gateway", !.data = None, !.result = None]
<1>1. call[c] \in CallRecords /\ CallOK(call[c])
  BY DEF CallsOK
<1>2. call[c].at \in {"calling", "reading"} /\ call' = [call EXCEPT ![c] = r]
  BY DEF Fail
<1>3. r \in CallRecords
  BY <1>1 DEF CallRecords, Ats, Codes
<1>4. /\ r.at = "writing" /\ r.code \notin {"late", "aborted"} /\ r.flow = call[c].flow /\ r.form = call[c].form
      /\ r.meant = call[c].meant /\ r.age = call[c].age /\ r.asked = call[c].asked
      /\ r.engine = call[c].engine /\ r.data = None
  BY <1>1 DEF CallRecords
<1> HIDE DEF r
<1>5. CallOK(r)
  BY <1>1, <1>2, <1>3, <1>4 DEF CallOK
<1> QED
  BY <1>1, <1>2, <1>4, <1>5, Replaced DEF CallOK, Nests

\* A call that comes to its end.
LEMMA Ends ==
    ASSUME CallsOK, NEW c \in Calls, call[c].flow # "none", NEW code \in Codes,
           NEW data \in {None, call[c].data}, call' = [call EXCEPT ![c] = Ended(c, code, data)],
           code = "late"    => call[c].asked + UpstreamTimeout >= WriteTimeout,
           code = "aborted" => call[c].asked + UpstreamTimeout >= AbortTimeout
    PROVE  Moves(c) /\ Nests(c)
<1>1. CallOK(call[c])
  BY DEF CallsOK
<1>2. /\ CallOK(Ended(c, code, data))
      /\ Ended(c, code, data).flow = call[c].flow
      /\ Ended(c, code, data).code = code
  BY <1>1, EndedOK
<1> QED
  BY <1>2, Replaced DEF Nests

\* one whose answer reaches the client,
LEMMA WriteOK ==
    ASSUME CallsOK, NEW c \in Calls, Write(c)
    PROVE  Moves(c) /\ Nests(c)
<1>1. CallOK(call[c]) /\ call[c].at = "writing" /\ call[c] \in CallRecords
  BY DEF CallsOK, Write
<1>2. /\ call[c].flow # "none" /\ call[c].age <= call[c].asked + UpstreamTimeout
      /\ call[c].code \in Codes \ {"late", "aborted"}
  BY <1>1 DEF CallOK, CallRecords
<1>3. CASE call' = [call EXCEPT ![c] = Ended(c, @.code, @.data)]
  <2>1. call' = [call EXCEPT ![c] = Ended(c, call[c].code, call[c].data)]
    BY <1>3
  <2> QED
    BY <1>2, <2>1, Ends
<1>4. CASE call[c].age >= WriteTimeout /\ call' = [call EXCEPT ![c] = Ended(c, "late", None)]
  <2>1. call[c].asked + UpstreamTimeout >= WriteTimeout
    BY <1>1, <1>2, <1>4 DEF CallRecords, MaxAge, UpstreamTimeout, WriteTimeout
  <2>2. "late" \in Codes
    BY DEF Codes
  <2> QED
    BY <1>2, <1>4, <2>1, <2>2, Ends
<1> QED
  BY <1>3, <1>4 DEF Write

\* and one that the page gives up on.
LEMMA AbortOK ==
    ASSUME CallsOK, NEW c \in Calls, Abort(c)
    PROVE  Moves(c) /\ Nests(c)
<1>1. CallOK(call[c]) /\ call[c] \in CallRecords
  BY DEF CallsOK
<1>2. /\ InBrowser(c) /\ Running(c) /\ call[c].age >= AbortTimeout
      /\ call' = [call EXCEPT ![c] = Ended(c, "aborted", None)]
  BY DEF Abort
<1>3. call[c].flow \notin {"none", "kubectl"}
  BY <1>2 DEF InBrowser
<1>4. call[c].at \in {"receiving", "calling", "reading", "writing"}
  BY <1>1, <1>2, <1>3 DEF Running, InProxy, CallOK
<1>5. call[c].asked + UpstreamTimeout >= AbortTimeout
  <2>1. CASE call[c].at = "receiving"
    BY <1>1, <2>1 DEF CallOK, MaxAge, UpstreamTimeout, AbortTimeout
  <2>2. CASE call[c].at # "receiving"
    <3>1. call[c].age <= call[c].asked + UpstreamTimeout
      BY <1>1, <1>4, <2>2 DEF CallOK
    <3> QED
      BY <1>1, <1>2, <3>1 DEF CallRecords, MaxAge, UpstreamTimeout, AbortTimeout
  <2> QED
    BY <2>1, <2>2
<1>6. "aborted" \in Codes
  BY DEF Codes
<1> QED
  BY <1>2, <1>3, <1>5, <1>6, Ends

\* Every step of a call keeps what holds of it, and its limits nest.
LEMMA StepOK ==
    ASSUME CallsOK, NEW c \in Calls, Step(c)
    PROVE  Moves(c) /\ Nests(c)
BY RefuseOK, ForwardOK, ServeOK, ReadOK, FailOK, WriteOK, AbortOK DEF Step, TimeOut

-----------------------------------------------------------------------------
(* The page. *)

\* What ties the page to its calls: at most one query and one discover call are under
\* way, calls are made in order, and what is drawn is older than the query under way.
PageOK ==
    /\ up \in {"first", "stopped", "restarted"}
    /\ catalog \subseteq Values /\ selected \subseteq catalog
    /\ \A u, v \in catalog : Fold[u] = Fold[v] => u = v
    /\ queryInFlight = (\E c \in Calls : call[c].flow = "query")
    /\ discovering = (\E c \in Calls : call[c].flow = "discover")
    /\ \A c, d \in Calls : call[c].flow \in {"query", "discover"} /\ call[d].flow = call[c].flow => c = d
    /\ \A c, d \in Calls : call[c].at = "new" /\ c < d => call[d].at = "new"
    /\ drawn.by \in 0 .. MaxCalls
    /\ drawn.by \in Calls => call[drawn.by].at = "over"
    /\ \A c \in Calls : call[c].flow = "query" => drawn.by < c

Inv == CallsOK /\ PageOK

\* Calls go on and none begins or is forgotten.
AllMove ==
    /\ call' \in [Calls -> CallRecords]
    /\ \A c \in Calls : /\ CallOK(call'[c])
                        /\ call'[c].flow = call[c].flow
                        /\ call[c].flow = "none" => call'[c] = call[c]

\* The page does not notice how its calls go on.
LEMMA PageKept ==
    ASSUME Inv, AllMove, UNCHANGED uiVars, up' \in {"first", "stopped", "restarted"}
    PROVE  Inv'
<1>1. CallsOK'
  BY DEF AllMove, CallsOK
<1>2. \A c \in Calls : /\ call'[c].at = "new" <=> call[c].at = "new"
                       /\ call[c].at = "over" => call'[c].at = "over"
                       /\ call'[c].flow = call[c].flow
  <2>1. \A c \in Calls : CallOK(call[c])
    BY DEF Inv, CallsOK
  <2> QED
    BY <2>1 DEF AllMove, CallOK
<1>3. /\ catalog' = catalog /\ selected' = selected /\ drawn' = drawn
      /\ queryInFlight' = queryInFlight /\ discovering' = discovering
  BY DEF uiVars
<1>4. (\E c \in Calls : call'[c].flow = "query") = (\E c \in Calls : call[c].flow = "query")
  BY <1>2
<1>5. (\E c \in Calls : call'[c].flow = "discover") = (\E c \in Calls : call[c].flow = "discover")
  BY <1>2
<1>6. PageOK'
  BY <1>2, <1>3, <1>4, <1>5 DEF Inv, PageOK
<1> QED
  BY <1>1, <1>6 DEF Inv

\* A step of one call keeps the invariant of all calls and of the page.
LEMMA StepKeeps ==
    ASSUME Inv, NEW c \in Calls, Step(c)
    PROVE  AllMove /\ \A d \in Calls : Nests(d)
<1>1. Moves(c) /\ Nests(c) /\ CallsOK
  BY StepOK DEF Inv
<1> QED
  BY <1>1 DEF Moves, AllMove, Nests, CallsOK

\* The end of the proxy's process ends its calls and nothing else.
LEMMA StopKeeps ==
    ASSUME Inv, Stop
    PROVE  AllMove /\ \A d \in Calls : Nests(d)
<1>1. CallsOK
  BY DEF Inv
<1>2. "reset" \in Codes
  BY DEF Codes
<1>3. ASSUME NEW c \in Calls
      PROVE  /\ CallOK(call'[c]) /\ call'[c].flow = call[c].flow /\ Nests(c)
             /\ call[c].flow = "none" => call'[c] = call[c]
  <2>1. call'[c] = IF InProxy(c) THEN Ended(c, "reset", None) ELSE call[c]
    BY <1>3 DEF Stop
  <2>2. CallOK(call[c])
    BY <1>1, <1>3 DEF CallsOK
  <2>3. CASE InProxy(c)
    <3>1. call[c].flow # "none"
      BY <2>2, <2>3 DEF InProxy, CallOK
    <3>2. /\ CallOK(Ended(c, "reset", None)) /\ Ended(c, "reset", None).flow = call[c].flow
          /\ Ended(c, "reset", None).code = "reset"
      BY <1>2, <1>3, <2>2, <3>1, EndedOK
    <3> QED
      BY <2>1, <2>3, <3>1, <3>2 DEF Nests
  <2>4. CASE ~InProxy(c)
    BY <2>1, <2>2, <2>4 DEF Nests
  <2> QED
    BY <2>3, <2>4
<1>4. call' \in [Calls -> CallRecords]
  <2>1. call' = [c \in Calls |-> IF InProxy(c) THEN Ended(c, "reset", None) ELSE call[c]]
    BY DEF Stop
  <2>2. \A c \in Calls : call'[c] \in CallRecords
    BY <1>3 DEF CallOK
  <2> QED
    BY <2>1, <2>2
<1> QED
  BY <1>3, <1>4 DEF AllMove

\* The clock does not go past the proxy's limit: the answer is due before.
LEMMA TickKeeps ==
    ASSUME Inv, Tick
    PROVE  AllMove /\ \A d \in Calls : Nests(d)
<1>1. CallsOK
  BY DEF Inv
<1>2. ASSUME NEW c \in Calls
      PROVE  /\ CallOK(call'[c]) /\ call'[c].flow = call[c].flow /\ Nests(c)
             /\ call[c].flow = "none" => call'[c] = call[c]
  <2> DEFINE r == [call[c] EXCEPT !.age = @ + 1]
  <2>1. call'[c] = IF Running(c) /\ call[c].age < MaxAge THEN r ELSE call[c]
    BY <1>2 DEF Tick
  <2>2. CallOK(call[c]) /\ call[c] \in CallRecords
    BY <1>1, <1>2 DEF CallsOK
  <2>3. CASE Running(c) /\ call[c].age < MaxAge
    <3>1. call[c].age + 1 \in 0 .. MaxAge
      BY <2>2, <2>3 DEF CallRecords, MaxAge
    <3>2. r \in CallRecords
      BY <2>2, <3>1 DEF CallRecords
    <3>3. /\ r.at = call[c].at /\ r.code = call[c].code /\ r.flow = call[c].flow
          /\ r.form = call[c].form /\ r.meant = call[c].meant /\ r.age = call[c].age + 1
          /\ r.asked = call[c].asked /\ r.engine = call[c].engine
          /\ r.data = call[c].data /\ r.result = call[c].result
      BY <2>2 DEF CallRecords
    <3>4. r.at \in {"calling", "reading", "writing"} => r.age <= r.asked + UpstreamTimeout
      <4>1. ~Due(c)
        BY <1>2 DEF Tick
      <4>2. call[c].age \in Nat /\ call[c].asked \in Nat
        BY <2>2 DEF CallRecords, MaxAge
      <4> QED
        BY <3>3, <4>1, <4>2 DEF Due, UpstreamIsLate, UpstreamTimeout
    <3>5. call[c].flow # "none"
      BY <2>2, <2>3 DEF Running, InProxy, CallOK
    <3> HIDE DEF r
    <3>6. CallOK(r)
      BY <2>2, <3>2, <3>3, <3>4 DEF CallOK
    <3> QED
      BY <2>1, <2>3, <3>3, <3>5, <3>6 DEF Nests
  <2>4. CASE ~(Running(c) /\ call[c].age < MaxAge)
    BY <2>1, <2>2, <2>4 DEF Nests
  <2> QED
    BY <2>3, <2>4
<1>3. call' \in [Calls -> CallRecords]
  <2>1. call' = [c \in Calls |-> IF Running(c) /\ call[c].age < MaxAge
                                 THEN [call[c] EXCEPT !.age = @ + 1] ELSE call[c]]
    BY DEF Tick
  <2>2. \A c \in Calls : call'[c] \in CallRecords
    BY <1>2 DEF CallOK
  <2> QED
    BY <2>1, <2>2
<1> QED
  BY <1>2, <1>3 DEF AllMove

-----------------------------------------------------------------------------
(* Calls begin and are forgotten. *)

\* The first call that has not been made is made.
Begins(c, flow) ==
    /\ call[c].at = "new" /\ \A d \in 1 .. c - 1 : call[d].at # "new"
    /\ call' \in [Calls -> CallRecords]
    /\ \A d \in Calls \ {c} : call'[d] = call[d]
    /\ CallOK(call'[c]) /\ call'[c].flow = flow
    /\ \A d \in Calls : Nests(d)

\* A call that is posted is in order.
LEMMA PostOK ==
    ASSUME CallsOK, NEW c \in Calls, NEW flow \in Flows \ {"none"}, NEW form \in Forms,
           NEW meant \in V1Specs(Names), flow = "kubectl" => form = "review",
           Post(c, flow, form, meant)
    PROVE  Begins(c, flow) /\ up' = up
<1> DEFINE at   == CASE flow = "kubectl" -> "direct" [] up = "stopped" -> "done" [] OTHER -> "receiving"
           code == IF flow # "kubectl" /\ up = "stopped" THEN "reset" ELSE "none"
           r    == [New EXCEPT !.at = at, !.code = code, !.flow = flow, !.form = form, !.meant = meant]
<1>1. /\ call[c].at = "new" /\ (\A d \in 1 .. c - 1 : call[d].at # "new")
      /\ call' = [call EXCEPT ![c] = r] /\ up' = up
  BY DEF Post
<1>2. /\ at \in {"direct", "receiving", "done"} /\ code \in {"none", "reset"}
      /\ at = "direct" => flow = "kubectl" /\ form = "review"
      /\ at = "receiving" => flow # "kubectl"
  OBVIOUS
<1> HIDE DEF at, code
<1>3. CallOK(r)
  BY <1>2, PostedOK
<1>4. r.flow = flow /\ r.code = code
  BY NewType DEF CallRecords
<1> HIDE DEF r
<1>5. /\ call' \in [Calls -> CallRecords] /\ call'[c] = r
      /\ \A d \in Calls \ {c} : call'[d] = call[d]
  BY <1>1, <1>3 DEF CallsOK, CallOK
<1>6. \A d \in Calls : Nests(d)
  <2>1. Nests(c)
    BY <1>2, <1>4, <1>5 DEF Nests
  <2>2. \A d \in Calls \ {c} : Nests(d)
    BY <1>5 DEF Nests
  <2> QED
    BY <2>1, <2>2
<1> QED
  BY <1>1, <1>3, <1>4, <1>5, <1>6 DEF Begins

\* A call that begins leaves the page in order, if its button was free.
LEMMA BeginsKeeps ==
    ASSUME Inv, NEW c \in Calls, NEW flow \in Flows \ {"none"}, Begins(c, flow), up' = up,
           UNCHANGED <<catalog, selected, drawn>>,
           flow = "query"    => ~queryInFlight /\ queryInFlight' = TRUE,
           flow # "query"    => queryInFlight' = queryInFlight,
           flow = "discover" => ~discovering /\ discovering' = TRUE,
           flow # "discover" => discovering' = discovering
    PROVE  Inv'
<1>1. \A d \in Calls : d # c => call'[d] = call[d]
  BY DEF Begins
<1>2. call'[c].flow = flow /\ call'[c].at \notin {"new", "over"} /\ call[c].at = "new" /\ call[c].flow = "none"
  BY DEF Begins, CallOK, Inv, CallsOK
<1>3. CallsOK'
  BY <1>1 DEF Begins, Inv, CallsOK
<1>4. queryInFlight' = (\E d \in Calls : call'[d].flow = "query")
  <2>1. queryInFlight = (\E d \in Calls : call[d].flow = "query")
    BY DEF Inv, PageOK
  <2>2. CASE flow = "query"
    BY <1>2, <2>2
  <2>3. CASE flow # "query"
    <3>1. \A d \in Calls : call'[d].flow = "query" <=> call[d].flow = "query"
      BY <1>1, <1>2, <2>3
    <3> QED
      BY <2>1, <2>3, <3>1
  <2> QED
    BY <2>2, <2>3
<1>5. discovering' = (\E d \in Calls : call'[d].flow = "discover")
  <2>1. discovering = (\E d \in Calls : call[d].flow = "discover")
    BY DEF Inv, PageOK
  <2>2. CASE flow = "discover"
    BY <1>2, <2>2
  <2>3. CASE flow # "discover"
    <3>1. \A d \in Calls : call'[d].flow = "discover" <=> call[d].flow = "discover"
      BY <1>1, <1>2, <2>3
    <3> QED
      BY <2>1, <2>3, <3>1
  <2> QED
    BY <2>2, <2>3
<1>6. \A d \in Calls : call[d].flow = flow => flow \notin {"query", "discover"}
  BY DEF Inv, PageOK
<1>7. \A a, d \in Calls : call'[a].flow \in {"query", "discover"} /\ call'[d].flow = call'[a].flow => a = d
  BY <1>1, <1>2, <1>6 DEF Inv, PageOK
<1>8. \A a, d \in Calls : call'[a].at = "new" /\ a < d => call'[d].at = "new"
  <2>1. SUFFICES ASSUME NEW a \in Calls, NEW d \in Calls, call'[a].at = "new", a < d
                 PROVE  call'[d].at = "new"
    OBVIOUS
  <2>2. a # c /\ call[a].at = "new"
    BY <1>1, <1>2, <2>1
  <2>3. ~(a < c)
    BY <2>2 DEF Begins, Calls
  <2>4. d # c /\ call[d].at = "new"
    BY <2>1, <2>2, <2>3, MaxCallsAssumption DEF Inv, PageOK, Calls
  <2> QED
    BY <1>1, <2>4
<1>9. drawn.by \in Calls => drawn.by # c /\ call'[drawn.by].at = "over"
  BY <1>1, <1>2 DEF Inv, PageOK
<1>10. drawn.by < c
  <2>1. CASE drawn.by \in Calls
    <3>1. ~(c < drawn.by)
      BY <1>2, <2>1 DEF Inv, PageOK
    <3> QED
      BY <1>9, <2>1, <3>1, MaxCallsAssumption DEF Calls
  <2>2. CASE drawn.by \notin Calls
    BY <2>2, MaxCallsAssumption DEF Inv, PageOK, Calls
  <2> QED
    BY <2>1, <2>2
<1>11. \A d \in Calls : call'[d].flow = "query" => drawn.by < d
  BY <1>1, <1>10 DEF Inv, PageOK
<1>12. PageOK'
  BY <1>4, <1>5, <1>7, <1>8, <1>9, <1>11 DEF Inv, PageOK
<1> QED
  BY <1>3, <1>12 DEF Inv

\* So is the record that is left when a call is forgotten.
LEMMA OverOK == CallOK(Over) /\ Over.at = "over" /\ Over.flow = "none"
<1>1. Over \in CallRecords
  BY NewType DEF Over, CallRecords, Ats
<1>2. /\ Over.at = "over" /\ Over.flow = "none" /\ Over.code = New.code /\ Over.engine = None
      /\ Over.data = None
  BY NewType DEF Over, CallRecords
<1>3. New.code = "none"
  BY DEF New
<1> QED
  BY <1>1, <1>2, <1>3 DEF CallOK

\* An answer has come to the page, and the call is forgotten.
Forgotten(c, flow) ==
    /\ call[c].flow = flow /\ call[c].at = "done"
    /\ call' = [call EXCEPT ![c] = Over] /\ up' = up
    /\ catalog' \subseteq Values /\ selected' \subseteq catalog'
    /\ \A u, v \in catalog' : Fold[u] = Fold[v] => u = v

\* A call whose answer the page has dealt with may be forgotten.
LEMMA ForgottenKeeps ==
    ASSUME Inv, NEW c \in Calls, NEW flow \in {"query", "discover"}, Forgotten(c, flow),
           flow = "query"    => queryInFlight' = FALSE /\ discovering' = discovering
                                /\ (drawn' = drawn \/ drawn'.by = c),
           flow = "discover" => discovering' = FALSE /\ queryInFlight' = queryInFlight /\ drawn' = drawn
    PROVE  Inv' /\ \A d \in Calls : Nests(d)
<1>1. /\ \A d \in Calls : d # c => call'[d] = call[d]
      /\ call'[c] = Over /\ call' \in [Calls -> CallRecords]
  BY OverOK DEF Forgotten, Inv, CallsOK, CallOK
<1>2. call'[c].flow = "none" /\ call'[c].at = "over" /\ call[c].flow = flow
  BY <1>1, OverOK DEF Forgotten
<1>3. CallsOK'
  BY <1>1, OverOK DEF Inv, CallsOK
<1>4. \A d \in Calls : d # c => call[d].flow # flow
  BY <1>2 DEF Inv, PageOK
<1>5. queryInFlight' = (\E d \in Calls : call'[d].flow = "query")
  <2>1. queryInFlight = (\E d \in Calls : call[d].flow = "query")
    BY DEF Inv, PageOK
  <2>2. CASE flow = "query"
    BY <1>1, <1>2, <1>4, <2>2
  <2>3. CASE flow = "discover"
    <3>1. \A d \in Calls : call'[d].flow = "query" <=> call[d].flow = "query"
      BY <1>1, <1>2, <2>3
    <3> QED
      BY <2>1, <2>3, <3>1
  <2> QED
    BY <2>2, <2>3
<1>6. discovering' = (\E d \in Calls : call'[d].flow = "discover")
  <2>1. discovering = (\E d \in Calls : call[d].flow = "discover")
    BY DEF Inv, PageOK
  <2>2. CASE flow = "discover"
    BY <1>1, <1>2, <1>4, <2>2
  <2>3. CASE flow = "query"
    <3>1. \A d \in Calls : call'[d].flow = "discover" <=> call[d].flow = "discover"
      BY <1>1, <1>2, <2>3
    <3> QED
      BY <2>1, <2>3, <3>1
  <2> QED
    BY <2>2, <2>3
<1>7. \A a, d \in Calls : call'[a].flow \in {"query", "discover"} /\ call'[d].flow = call'[a].flow => a = d
  BY <1>1, <1>2 DEF Inv, PageOK
<1>8. \A a, d \in Calls : call'[a].at = "new" /\ a < d => call'[d].at = "new"
  <2>1. call[c].at = "done"
    BY DEF Forgotten
  <2> QED
    BY <1>1, <1>2, <2>1 DEF Inv, PageOK
<1>9. /\ drawn'.by \in 0 .. MaxCalls
      /\ drawn'.by \in Calls => call'[drawn'.by].at = "over"
      /\ \A d \in Calls : call'[d].flow = "query" => drawn'.by < d
  <2>1. CASE drawn' = drawn
    BY <1>1, <1>2, <2>1 DEF Inv, PageOK
  <2>2. CASE flow = "query" /\ drawn'.by = c
    BY <1>1, <1>2, <1>4, <2>2, MaxCallsAssumption DEF Calls
  <2> QED
    BY <2>1, <2>2
<1>10. PageOK'
  BY <1>5, <1>6, <1>7, <1>8, <1>9 DEF Forgotten, Inv, PageOK
<1>11. \A d \in Calls : Nests(d)
  <2>1. call[c].at = "done"
    BY DEF Forgotten
  <2> QED
    BY <1>1, <2>1 DEF Nests
<1> QED
  BY <1>3, <1>10, <1>11 DEF Inv

-----------------------------------------------------------------------------
(* The steps of the page. *)

\* What the page's form can ask for.
LEMMA PayloadType ==
    ASSUME selected \subseteq Values
    PROVE  Payload \subseteq V1Specs(Names) /\ DiscoverPayload \in V1Specs(Names)
<1>1. "any" \in Names /\ "expand" \in Names /\ "active" \in Names
  BY NamesAssumption
<1>2. DefaultMaxPodsPerSubject \in Int /\ DefaultMaxWorkloadsPerPod \in Int
  BY DEF DefaultMaxPodsPerSubject, DefaultMaxWorkloadsPerPod
<1>3. ASSUME NEW a \in Names, NEW e \in Names, NEW p \in Names, NEW S \in SUBSET Names
      PROVE  [ZeroSpec EXCEPT !.selector = [ZeroSelector EXCEPT !.resources = S],
                 !.matchMode = a, !.wildcardMode = e, !.podPhaseMode = p,
                 !.includeRuleMetadata = TRUE, !.includeWorkloads = TRUE,
                 !.maxPodsPerSubject = DefaultMaxPodsPerSubject,
                 !.maxWorkloadsPerPod = DefaultMaxWorkloadsPerPod] \in V1Specs(Names)
  <2>1. [ZeroSelector EXCEPT !.resources = S] \in V1Selectors(Names)
    BY DEF ZeroSelector, V1Selectors
  <2> QED
    BY <1>2, <2>1, ZeroSpecType DEF V1Specs
<1>4. ASSUME NEW a \in Names, NEW e \in Names, NEW p \in Names
      PROVE  [ZeroSpec EXCEPT !.matchMode = a, !.wildcardMode = e, !.podPhaseMode = p,
                 !.maxPodsPerSubject = DefaultMaxPodsPerSubject,
                 !.maxWorkloadsPerPod = DefaultMaxWorkloadsPerPod] \in V1Specs(Names)
  BY <1>2, ZeroSpecType DEF V1Specs
<1>5. \A S \in UniqStrings(Typed, selected) : S \in SUBSET Names
  BY ValuesAssumption DEF UniqStrings
<1>6. Payload \subseteq V1Specs(Names)
  <2> DEFINE F(S) ==
          [ZeroSpec EXCEPT !.selector = [ZeroSelector EXCEPT !.resources = S],
              !.matchMode = "any", !.wildcardMode = "expand", !.podPhaseMode = "active",
              !.includeRuleMetadata = TRUE, !.includeWorkloads = TRUE,
              !.maxPodsPerSubject = DefaultMaxPodsPerSubject,
              !.maxWorkloadsPerPod = DefaultMaxWorkloadsPerPod]
  <2>1. \A S \in SUBSET Names : F(S) \in V1Specs(Names)
    BY <1>1, <1>3, Zenon
  <2>2. Payload = {F(S) : S \in UniqStrings(Typed, selected)}
    BY Zenon DEF Payload
  <2> HIDE DEF F
  <2> QED
    BY <1>5, <2>1, <2>2
<1>7. DiscoverPayload \in V1Specs(Names)
  BY <1>1, <1>4, Zenon DEF DiscoverPayload
<1> QED
  BY <1>6, <1>7

\* A click on the query button keeps the invariant.
LEMMA QueryKeeps ==
    ASSUME Inv, NEW c \in Calls, Query(c)
    PROVE  Inv' /\ \A d \in Calls : Nests(d)
<1>1. selected \subseteq Values /\ CallsOK
  BY DEF Inv, PageOK
<1>2. PICK s \in Payload : Post(c, "query", "review", s)
  BY DEF Query
<1>3. s \in V1Specs(Names)
  BY <1>1, <1>2, PayloadType
<1>4. "query" \in Flows \ {"none"} /\ "review" \in Forms
  BY DEF Flows, Forms
<1>5. Begins(c, "query") /\ up' = up
  BY <1>1, <1>2, <1>3, <1>4, PostOK
<1>6. /\ ~queryInFlight /\ queryInFlight' = TRUE /\ discovering' = discovering
      /\ UNCHANGED <<catalog, selected, drawn>>
  BY DEF Query
<1> QED
  BY <1>4, <1>5, <1>6, BeginsKeeps DEF Begins

\* So does a click on the discover button,
LEMMA DiscoverKeeps ==
    ASSUME Inv, NEW c \in Calls, Discover(c)
    PROVE  Inv' /\ \A d \in Calls : Nests(d)
<1>1. selected \subseteq Values /\ CallsOK
  BY DEF Inv, PageOK
<1>2. Post(c, "discover", "review", DiscoverPayload)
  BY DEF Discover
<1>3. DiscoverPayload \in V1Specs(Names)
  BY <1>1, PayloadType
<1>4. "discover" \in Flows \ {"none"} /\ "review" \in Forms
  BY DEF Flows, Forms
<1>5. Begins(c, "discover") /\ up' = up
  BY <1>1, <1>2, <1>3, <1>4, PostOK
<1>6. /\ ~discovering /\ discovering' = TRUE /\ queryInFlight' = queryInFlight
      /\ UNCHANGED <<catalog, selected, drawn>>
  BY DEF Discover
<1> QED
  BY <1>4, <1>5, <1>6, BeginsKeeps DEF Begins

\* and a call of a script or of kubectl.
LEMMA PostsKeep ==
    ASSUME Inv, NEW c \in Calls, PostFromScript(c) \/ PostFromKubectl(c)
    PROVE  Inv' /\ \A d \in Calls : Nests(d)
<1>1. PICK flow \in {"script", "kubectl"}, form \in Forms, s \in Scripts :
          (flow = "kubectl" => form = "review") /\ Post(c, flow, form, s)
  <2>1. "review" \in Forms
    BY DEF Forms
  <2> QED
    BY <2>1 DEF PostFromScript, PostFromKubectl
<1>2. s \in V1Specs(Names) /\ flow \in Flows \ {"none"} /\ CallsOK
  BY ScriptsAssumption DEF Flows, Inv
<1>3. Begins(c, flow) /\ up' = up
  BY <1>1, <1>2, PostOK
<1>4. UNCHANGED uiVars
  BY DEF PostFromScript, PostFromKubectl
<1> QED
  BY <1>2, <1>3, <1>4, BeginsKeeps DEF Begins, uiVars

\* What an answer offers is among the values, and stays without doubles.
LEMMA OfferedValues ==
    ASSUME Inv, NEW c \in Calls, Succeeded(c), NEW replace \in BOOLEAN,
           ApplySelectorOptions(call[c].data.resourceMap, replace)
    PROVE  /\ call[c].result \in Statuses /\ call[c].data = StatusToV1(call[c].result)
           /\ catalog' \subseteq Values /\ selected' \subseteq catalog'
           /\ \A u, v \in catalog' : Fold[u] = Fold[v] => u = v
           /\ ~replace => selected' = selected
<1>1. call[c].result \in Statuses /\ call[c].data = StatusToV1(call[c].result)
  BY DEF Inv, CallsOK, CallOK, Succeeded
<1>2. call[c].data.resourceMap \subseteq Values
  BY <1>1, ValuesAssumption DEF StatusToV1
<1>3. catalog \subseteq Values /\ selected \subseteq catalog
  BY DEF Inv, PageOK
<1> QED
  BY <1>1, <1>2, <1>3 DEF ApplySelectorOptions, UniqStrings

\* What the page does with the answer to its query keeps the invariant.
LEMMA FinishQueryKeeps ==
    ASSUME Inv, NEW c \in Calls, FinishQuery(c)
    PROVE  Inv' /\ \A d \in Calls : Nests(d)
<1>1. /\ call[c].flow = "query" /\ call[c].at = "done"
      /\ call' = [call EXCEPT ![c] = Over] /\ up' = up
      /\ queryInFlight' = FALSE /\ discovering' = discovering
  BY DEF FinishQuery, Answered
<1>2. CASE Succeeded(c)
  <2>1. ApplySelectorOptions(call[c].data.resourceMap, FALSE) /\ drawn' = [by |-> c, data |-> call[c].data]
    BY <1>2 DEF FinishQuery
  <2>2. Forgotten(c, "query")
    BY <1>1, <1>2, <2>1, OfferedValues DEF Forgotten
  <2>3. drawn'.by = c
    BY <2>1
  <2> QED
    BY <1>1, <2>2, <2>3, ForgottenKeeps
<1>3. CASE ~Succeeded(c)
  <2>1. UNCHANGED <<drawn, catalog, selected>>
    BY <1>3 DEF FinishQuery
  <2>2. Forgotten(c, "query")
    BY <1>1, <2>1 DEF Forgotten, Inv, PageOK
  <2> QED
    BY <1>1, <2>1, <2>2, ForgottenKeeps
<1> QED
  BY <1>2, <1>3

\* So does what it does with the answer to its discover call,
LEMMA FinishDiscoverKeeps ==
    ASSUME Inv, NEW c \in Calls, FinishDiscover(c)
    PROVE  Inv' /\ \A d \in Calls : Nests(d)
<1>1. /\ call[c].flow = "discover" /\ call[c].at = "done"
      /\ call' = [call EXCEPT ![c] = Over] /\ up' = up
      /\ discovering' = FALSE /\ queryInFlight' = queryInFlight /\ drawn' = drawn
  BY DEF FinishDiscover, Answered
<1>2. Forgotten(c, "discover")
  <2>1. CASE Succeeded(c)
    <3>1. ApplySelectorOptions(call[c].data.resourceMap, TRUE)
      BY <2>1 DEF FinishDiscover
    <3> QED
      BY <1>1, <2>1, <3>1, OfferedValues DEF Forgotten
  <2>2. CASE ~Succeeded(c)
    <3>1. UNCHANGED <<catalog, selected>>
      BY <2>2 DEF FinishDiscover
    <3> QED
      BY <1>1, <3>1 DEF Forgotten, Inv, PageOK
  <2> QED
    BY <2>1, <2>2
<1> QED
  BY <1>1, <1>2, ForgottenKeeps

\* and so do checks that the user sets and clears.
LEMMA ChecksKeep ==
    ASSUME Inv, Toggle \/ ClearChecks
    PROVE  Inv' /\ \A d \in Calls : Nests(d)
<1>1. UNCHANGED <<call, up, catalog, queryInFlight, discovering, drawn>> /\ selected' \subseteq catalog
  BY DEF Toggle, ClearChecks, Inv, PageOK
<1>2. CallsOK'
  BY <1>1 DEF Inv, CallsOK, Calls
<1>3. PageOK'
  BY <1>1 DEF Inv, PageOK
<1> QED
  BY <1>1, <1>2, <1>3 DEF Inv, Nests

\* The page starts with the invariant.
LEMMA InitInv == Init => Inv
<1> SUFFICES ASSUME Init PROVE Inv
  OBVIOUS
<1>1. \A c \in Calls : call[c] = New
  BY DEF Init
<1>2. CallOK(New)
  BY NewType DEF CallOK, New
<1>3. CallsOK
  BY <1>1, <1>2, NewType DEF CallsOK, Init
<1>4. catalog \subseteq Values /\ \A u, v \in catalog : Fold[u] = Fold[v] => u = v
  BY ValuesAssumption DEF Init, UniqStrings
<1>5. 0 \in 0 .. MaxCalls /\ 0 \notin Calls
  BY MaxCallsAssumption DEF Calls
<1>6. drawn.by = 0
  BY DEF Init
<1>7. PageOK
  BY <1>1, <1>4, <1>5, <1>6, NewType DEF PageOK, Init
<1> QED
  BY <1>3, <1>7 DEF Inv

\* Every step keeps it: one case for each action.
LEMMA NextInv ==
    ASSUME Inv, [Next]_vars
    PROVE  Inv' /\ \A d \in Calls : Nests(d)
<1>1. ASSUME NEW c \in Calls, Query(c) \/ Discover(c) \/ FinishQuery(c) \/ FinishDiscover(c)
      PROVE  Inv' /\ \A d \in Calls : Nests(d)
  BY <1>1, QueryKeeps, DiscoverKeeps, FinishQueryKeeps, FinishDiscoverKeeps
<1>2. ASSUME NEW c \in Calls, PostFromScript(c) \/ PostFromKubectl(c)
      PROVE  Inv' /\ \A d \in Calls : Nests(d)
  BY <1>2, PostsKeep
<1>3. CASE Toggle \/ ClearChecks
  BY <1>3, ChecksKeep
<1>4. CASE ProxyNext /\ UNCHANGED uiVars
  <2>1. up \in {"first", "stopped", "restarted"}
    BY DEF Inv, PageOK
  <2>2. ASSUME NEW c \in Calls, Step(c)
        PROVE  Inv' /\ \A d \in Calls : Nests(d)
    <3>1. up' = up
      BY <2>2 DEF Step, Refuse, Forward, Serve, Read, Fail, TimeOut, Write, Abort
    <3> QED
      BY <1>4, <2>1, <2>2, <3>1, StepKeeps, PageKept
  <2>3. CASE Stop
    BY <1>4, <2>3, StopKeeps, PageKept DEF Stop
  <2>4. CASE Tick
    BY <1>4, <2>1, <2>4, TickKeeps, PageKept DEF Tick
  <2>5. CASE Restart
    <3>1. call' = call /\ up' = "restarted"
      BY <2>5 DEF Restart
    <3>2. AllMove /\ \A d \in Calls : Nests(d)
      BY <3>1 DEF Inv, CallsOK, AllMove, Nests
    <3> QED
      BY <1>4, <3>1, <3>2, PageKept
  <2> QED
    BY <1>4, <2>2, <2>3, <2>4, <2>5 DEF ProxyNext
<1>5. CASE UNCHANGED vars
  <2>1. call' = call /\ up' = up /\ UNCHANGED uiVars
    BY <1>5 DEF vars
  <2>2. AllMove /\ (\A d \in Calls : Nests(d)) /\ up \in {"first", "stopped", "restarted"}
    BY <2>1 DEF Inv, CallsOK, PageOK, AllMove, Nests
  <2> QED
    BY <2>1, <2>2, PageKept
<1> QED
  BY <1>1, <1>2, <1>3, <1>4, <1>5 DEF Next

-----------------------------------------------------------------------------
(* Theorems. *)

\* So it always holds.
LEMMA InvHolds == Spec => []Inv
<1>1. Inv /\ [Next]_vars => Inv'
  BY NextInv
<1> QED
  BY <1>1, InitInv, PTL DEF Spec

\* The page's state is what the calls under way say it is, for any number of calls: what
\* is checked is offered, what is offered has no doubles, and a button is disabled
\* exactly while its call is under way.
THEOREM PageTypeOK == Spec => []TypeOK
<1>1. Inv => TypeOK
  BY DEF Inv, CallsOK, PageOK, CallRecords, TypeOK
<1> QED
  BY <1>1, InvHolds, PTL

\* The engine works on what the client means, for every specification in every form,
\* with the two gaps that the property names.
THEOREM EngineGetsWhatWasMeant == Spec => []EngineSeesWhatWasMeant
<1>1. ASSUME Inv
      PROVE  EngineSeesWhatWasMeant
  <2>1. SUFFICES ASSUME NEW c \in Calls, call[c].engine # None,
                        ~BareWithoutSelector(c), ~MetadataNotAsked(c)
                 PROVE  SpecToV1(call[c].engine) = V1NormalizeRuntimeFlags(V1Defaults(Intended(c)))
    BY DEF EngineSeesWhatWasMeant
  <2>2. CallOK(call[c])
    BY <1>1 DEF Inv, CallsOK
  <2>3. SpecToV1(call[c].engine) =
            V1NormalizeRuntimeFlags(V1Defaults(IntendedBy(call[c].form, call[c].meant)))
    BY <2>1, <2>2 DEF CallOK, Misread, IsGap, BareWithoutSelector, MetadataNotAsked, Proxied
  <2>4. Intended(c) = IntendedBy(call[c].form, call[c].meant)
    BY DEF Intended, IntendedBy, Metadata, Wanted
  <2> QED
    BY <2>3, <2>4
<1> QED
  BY <1>1, InvHolds, PTL

\* The limit on the upstream call is the first to expire, whatever else goes on.
THEOREM LimitsNest == Spec => TimeoutsNest
<1>1. Inv /\ [Next]_vars =>
          [\A c \in Calls : call[c].at # "done" /\ call'[c].at = "done" =>
              /\ call'[c].code = "late"    => call[c].asked + UpstreamTimeout >= WriteTimeout
              /\ call'[c].code = "aborted" => call[c].asked + UpstreamTimeout >= AbortTimeout]_vars
  BY NextInv DEF Nests
<1> QED
  BY <1>1, InvHolds, PTL DEF Spec, TimeoutsNest

\* What is drawn is the engine's whole answer to the latest query.
THEOREM DrawnIsTheLatestWholeAnswer == Spec => DrawsTheLatestWholeAnswer
<1>1. ASSUME Inv, [Next]_vars, drawn' # drawn
      PROVE  \E c \in Calls : /\ Answered(c, "query") /\ c > drawn.by
                              /\ call[c].result # None
                              /\ drawn' = [by |-> c, data |-> StatusToV1(call[c].result)]
  <2>1. PICK c \in Calls : FinishQuery(c)
    BY <1>1 DEF Next, vars, uiVars, Query, Discover, FinishDiscover, PostFromScript,
                PostFromKubectl, Toggle, ClearChecks
  <2>2. Succeeded(c) /\ Answered(c, "query")
    BY <1>1, <2>1 DEF FinishQuery
  <2>3. /\ drawn' = [by |-> c, data |-> call[c].data]
        /\ ApplySelectorOptions(call[c].data.resourceMap, FALSE)
    BY <2>1, <2>2 DEF FinishQuery
  <2>4. call[c].result \in Statuses /\ call[c].data = StatusToV1(call[c].result)
    BY <1>1, <2>2, <2>3, OfferedValues
  <2>5. drawn.by < c /\ drawn.by \in Int /\ c \in Int
    BY <1>1, <2>2, MaxCallsAssumption DEF Inv, PageOK, Answered, Calls
  <2>6. call[c].result # None
    BY <2>4, NoneAssumption
  <2>7. c > drawn.by
    BY <2>5
  <2> QED
    BY <2>2, <2>3, <2>4, <2>6, <2>7
<1>2. Inv /\ [Next]_vars =>
          [drawn' # drawn =>
              \E c \in Calls : /\ Answered(c, "query") /\ c > drawn.by
                               /\ call[c].result # None
                               /\ drawn' = [by |-> c, data |-> StatusToV1(call[c].result)]]_vars
  BY <1>1
<1> QED
  BY <1>2, InvHolds, PTL DEF Spec, DrawsTheLatestWholeAnswer

\* The answer to a query unchecks nothing.
THEOREM OnlyDiscoverUnchecks == Spec => QueriesNeverUncheck
<1>1. ASSUME Inv, [Next]_vars, NEW v \in selected \ selected'
      PROVE  \/ UNCHANGED <<call, catalog>>
             \/ \E c \in Calls : Answered(c, "discover") /\ call'[c] = Over /\ v \notin catalog'
  <2>1. CASE Toggle \/ ClearChecks
    BY <2>1 DEF Toggle, ClearChecks
  <2>2. ASSUME NEW c \in Calls, FinishQuery(c)
        PROVE  FALSE
    <3>1. selected' = selected
      BY <1>1, <2>2, OfferedValues DEF FinishQuery
    <3> QED
      BY <1>1, <3>1
  <2>3. ASSUME NEW c \in Calls, FinishDiscover(c)
        PROVE  Answered(c, "discover") /\ call'[c] = Over /\ v \notin catalog'
    <3>1. selected' = selected \cap catalog'
      BY <1>1, <2>3 DEF FinishDiscover, ApplySelectorOptions
    <3>2. call'[c] = Over
      BY <1>1, <2>3 DEF FinishDiscover, Inv, CallsOK
    <3> QED
      BY <1>1, <2>3, <3>1, <3>2 DEF FinishDiscover
  <2>4. selected' # selected
    BY <1>1
  <2> QED
    BY <1>1, <2>1, <2>2, <2>3, <2>4 DEF Next, vars, uiVars, Query, Discover, PostFromScript,
       PostFromKubectl
<1>2. Inv /\ [Next]_vars =>
          [\A v \in selected \ selected' :
              \/ UNCHANGED <<call, catalog>>
              \/ \E c \in Calls : Answered(c, "discover") /\ call'[c] = Over /\ v \notin catalog']_vars
  BY <1>1
<1> QED
  BY <1>2, InvHolds, PTL DEF Spec, QueriesNeverUncheck
=============================================================================
