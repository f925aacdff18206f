-------------------------------- MODULE WebUI --------------------------------
(***************************************************************************)
(* The page (cmd/rbacgraph-web/static/app.js) on top of the web proxy.     *)
(* The Query button and the Discover button each start a call; both        *)
(* answers change the values that are offered for the selector             *)
(* (selectorOptionCatalog) and those that are checked                      *)
(* (selectorOptionSelection), which the user changes meanwhile.            *)
(*                                                                         *)
(* One of the four kinds of values stands for all: applySelectorOptions    *)
(* treats them alike.  Rows of the resource map are the values they hold.  *)
(* Drawing, filters, the raw request and response and the rest of the form *)
(* are left out.  Scripts and kubectl make calls too.                      *)
(***************************************************************************)
EXTENDS WebProxy

CONSTANTS
    Values,     \* what may be offered and checked
    Fold,       \* value -> the value in lower case
    Typed,      \* what the user has typed into the form's fields
    Scripts,    \* what scripts and kubectl may mean: versioned specifications
    Clients     \* the sets of flows that may be at work together

ASSUME ValuesAssumption ==
    /\ Typed \cup Values \subseteq Names
    /\ \A st \in Statuses : st.ResourceMap \subseteq Values
ASSUME ScriptsAssumption == Scripts \subseteq V1Specs(Names)

VARIABLES
    clients,
    catalog, selected,
    queryInFlight, discovering,
    drawn       \* the call whose answer is drawn, and the answer

uiVars == <<clients, catalog, selected, queryInFlight, discovering, drawn>>
vars == <<call, up, uiVars>>

-----------------------------------------------------------------------------
\* Mutant: of values that differ in case the last one is kept.
UniqStrings_KeepLast(first, rest) ==
    {S \in SUBSET (first \cup rest) : /\ \A v \in first \cup rest : \E u \in S : Fold[u] = Fold[v]
                                      /\ \A u, v \in S : Fold[u] = Fold[v] => u = v
                                      /\ rest \subseteq S}

\* uniqStrings of a list that starts with the values of first: of values that differ in
\* case the first one is kept.
UniqStrings(first, rest) ==
    {S \in SUBSET (first \cup rest) : /\ \A v \in first \cup rest : \E u \in S : Fold[u] = Fold[v]
                                      /\ \A u, v \in S : Fold[u] = Fold[v] => u = v
                                      /\ first \subseteq S}

\* What the form asks for.
Payload ==
    {[ZeroSpec EXCEPT !.selector = [ZeroSelector EXCEPT !.resources = S],
                      !.matchMode = "any", !.wildcardMode = "expand", !.podPhaseMode = "active",
                      !.includeRuleMetadata = TRUE, !.includeWorkloads = TRUE,
                      !.maxPodsPerSubject = DefaultMaxPodsPerSubject,
                      !.maxWorkloadsPerPod = DefaultMaxWorkloadsPerPod] :
        S \in UniqStrings(Typed, selected)}

DiscoverPayload ==
    [ZeroSpec EXCEPT !.matchMode = "any", !.wildcardMode = "expand", !.podPhaseMode = "active",
                     !.maxPodsPerSubject = DefaultMaxPodsPerSubject,
                     !.maxWorkloadsPerPod = DefaultMaxWorkloadsPerPod]

\* Mutant: a checked value stays checked when it is not offered any more.
ApplySelectorOptions_KeepChecked(incoming, replace) ==
    /\ catalog' \in UniqStrings(IF replace THEN {} ELSE catalog, incoming)
    /\ UNCHANGED selected

ApplySelectorOptions(incoming, replace) ==
    /\ catalog' \in UniqStrings(IF replace THEN {} ELSE catalog, incoming)
    /\ selected' = selected \cap catalog'

-----------------------------------------------------------------------------
\* The page as it is loaded, or as an earlier discover call has left it.
Init ==
    /\ clients \in Clients
    /\ call = [c \in Calls |-> New]
    /\ up = "first"
    /\ \E rows \in {{}} \cup {st.ResourceMap : st \in Statuses} : catalog \in UniqStrings({}, rows)
    /\ selected = {}
    /\ queryInFlight = FALSE /\ discovering = FALSE
    /\ drawn = [by |-> 0, data |-> None]

\* Mutant: the button starts another query while one is under way.
Query_NoGuard(c) ==
    /\ "query" \in clients
    /\ \E s \in Payload : Post(c, "query", "review", s)
    /\ queryInFlight' = TRUE
    /\ UNCHANGED <<clients, catalog, selected, discovering, drawn>>

Query(c) ==
    /\ "query" \in clients /\ ~queryInFlight
    /\ \E s \in Payload : Post(c, "query", "review", s)
    /\ queryInFlight' = TRUE
    /\ UNCHANGED <<clients, catalog, selected, discovering, drawn>>

Discover(c) ==
    /\ "discover" \in clients /\ ~discovering
    /\ Post(c, "discover", "review", DiscoverPayload)
    /\ discovering' = TRUE
    /\ UNCHANGED <<clients, catalog, selected, queryInFlight, drawn>>

\* The user checks a value or unchecks it.
Toggle ==
    /\ \E v \in catalog : selected' = IF v \in selected THEN selected \ {v} ELSE selected \cup {v}
    /\ UNCHANGED <<call, up, clients, catalog, queryInFlight, discovering, drawn>>

ClearChecks ==
    /\ selected # {} /\ selected' = {}
    /\ UNCHANGED <<call, up, clients, catalog, queryInFlight, discovering, drawn>>

Answered(c, flow) == call[c].at = "done" /\ call[c].flow = flow
Succeeded(c)      == call[c].code = "created" /\ call[c].data \notin {None, Cut}

\* Mutant: the answer is used whatever comes of parsing it.
FinishQuery_NoParseCheck(c) ==
    /\ Answered(c, "query")
    /\ IF call[c].code = "created"
       THEN /\ drawn' = [by |-> c, data |-> call[c].data]
            /\ ApplySelectorOptions(IF call[c].data = Cut THEN {} ELSE call[c].data.resourceMap, FALSE)
       ELSE UNCHANGED <<drawn, catalog, selected>>
    /\ queryInFlight' = FALSE
    /\ call' = [call EXCEPT ![c] = Over]
    /\ UNCHANGED <<up, clients, discovering>>

\* run() after its await, and the listener's finally.
FinishQuery(c) ==
    /\ Answered(c, "query")
    /\ IF Succeeded(c)
       THEN /\ drawn' = [by |-> c, data |-> call[c].data]
            /\ ApplySelectorOptions(call[c].data.resourceMap, FALSE)
       ELSE UNCHANGED <<drawn, catalog, selected>>
    /\ queryInFlight' = FALSE
    /\ call' = [call EXCEPT ![c] = Over]
    /\ UNCHANGED <<up, clients, discovering>>

\* Mutant: the button comes back only after a success.
FinishDiscover_NoFinally(c) ==
    /\ Answered(c, "discover")
    /\ IF Succeeded(c) THEN ApplySelectorOptions(call[c].data.resourceMap, TRUE)
       ELSE UNCHANGED <<catalog, selected>>
    /\ discovering' = ~Succeeded(c)
    /\ call' = [call EXCEPT ![c] = Over]
    /\ UNCHANGED <<up, clients, queryInFlight, drawn>>

\* discoverSelectorOptions() after its await, and its finally.
FinishDiscover(c) ==
    /\ Answered(c, "discover")
    /\ IF Succeeded(c) THEN ApplySelectorOptions(call[c].data.resourceMap, TRUE)
       ELSE UNCHANGED <<catalog, selected>>
    /\ discovering' = FALSE
    /\ call' = [call EXCEPT ![c] = Over]
    /\ UNCHANGED <<up, clients, queryInFlight, drawn>>

\* A script posts to the proxy, or kubectl to the API server.  Bound: one call.
PostFromScript(c) ==
    /\ "script" \in clients /\ c = 1
    /\ \E s \in Scripts, form \in Forms : Post(c, "script", form, s)
    /\ UNCHANGED uiVars

PostFromKubectl(c) ==
    /\ "kubectl" \in clients /\ c = 1
    /\ \E s \in Scripts : Post(c, "kubectl", "review", s)
    /\ UNCHANGED uiVars

Next ==
    \/ \E c \in Calls : Query(c) \/ Discover(c) \/ FinishQuery(c) \/ FinishDiscover(c)
    \/ \E c \in Calls : PostFromScript(c) \/ PostFromKubectl(c)
    \/ Toggle \/ ClearChecks
    \/ ProxyNext /\ UNCHANGED uiVars

\* Timers expire and what they start runs; an answer that is ready is written, and the
\* page's event loop runs what waits for it.  Nothing else is assumed: not that the body
\* arrives, that the API server answers or that the proxy runs.
Fairness ==
    /\ WF_vars(Tick /\ UNCHANGED uiVars)
    /\ \A c \in Calls : /\ WF_vars((TimeOut(c) \/ Write(c) \/ Abort(c)) /\ UNCHANGED uiVars)
                        /\ WF_vars(FinishQuery(c) \/ FinishDiscover(c))

Spec     == Init /\ [][Next]_vars
FairSpec == Spec /\ Fairness

-----------------------------------------------------------------------------
(* Properties. *)

TypeOK ==
    /\ \A c \in Calls : /\ call[c].age \in 0 .. MaxAge /\ call[c].asked \in 0 .. MaxAge
                        /\ call[c].meant \in V1Specs(Names)
                        /\ call[c].result \in Statuses \cup {None}
                        /\ call[c].data \in V1Statuses(Items) \cup {None, Cut}
    /\ up \in {"first", "stopped", "restarted"}
    /\ catalog \subseteq Values /\ selected \subseteq catalog
    /\ \A u, v \in catalog : Fold[u] = Fold[v] => u = v
    /\ queryInFlight = (\E c \in Calls : call[c].flow = "query")
    /\ discovering = (\E c \in Calls : call[c].flow = "discover")

\* What a client means by what it writes; rule metadata is included whatever it writes
\* (docs/api-reference.md:53 and 235).
Intended(c) ==
    LET s == call[c].meant
        o == IF call[c].form = "selector" THEN [ZeroSpec EXCEPT !.selector = s.selector] ELSE s
    IN  [o EXCEPT !.includeRuleMetadata = TRUE]

BareWithoutSelector(c) == call[c].form = "bare" /\ call[c].meant.selector = ZeroSelector
MetadataNotAsked(c)    == ~Proxied(c) /\ ~call[c].meant.includeRuleMetadata

\* docs/query-guide.md:5: a request may be written in three forms.  Whichever form, and
\* whether the defaults are filled in by the proxy or by the API server, each with a copy
\* of its own, the engine works on what the client means, made complete once.  There are
\* two gaps: a spec that leaves its selector out is taken for a selector, and what else it
\* says is ignored; and rule metadata that kubectl does not ask for is left out.
EngineSeesWhatWasMeant ==
    \A c \in Calls :
        call[c].engine # None /\ ~BareWithoutSelector(c) /\ ~MetadataNotAsked(c) =>
            SpecToV1(call[c].engine) = V1NormalizeRuntimeFlags(V1Defaults(Intended(c)))

\* cmd/rbacgraph-web/main.go:36 and app.js:2025: of the three time limits the one on the
\* call to the API server is the first to expire, so that a client hears of a failure.
\* The proxy's server and the browser give up first only if the request's body took so
\* long to arrive that the limits no longer nest.
TimeoutsNest ==
    [][\A c \in Calls : call[c].at # "done" /\ call'[c].at = "done" =>
          /\ call'[c].code = "late"    => call[c].asked + UpstreamTimeout >= WriteTimeout
          /\ call'[c].code = "aborted" => call[c].asked + UpstreamTimeout >= AbortTimeout]_vars

\* app.js:2113: what is drawn is the whole answer of the engine to the query sent last:
\* never a cut one, and never an older answer over a newer one.
DrawsTheLatestWholeAnswer ==
    [][drawn' # drawn =>
          \E c \in Calls : /\ Answered(c, "query") /\ c > drawn.by
                           /\ call[c].result # None
                           /\ drawn' = [by |-> c, data |-> StatusToV1(call[c].result)]]_vars

\* app.js:748: a checked value goes only when the user unchecks it or a discover answer
\* does not have it (in that spelling).  The answer to a query adds to what is offered
\* and unchecks nothing, whatever the discover call does meanwhile.
QueriesNeverUncheck ==
    [][\A v \in selected \ selected' :
          \/ UNCHANGED <<call, catalog>>
          \/ \E c \in Calls : Answered(c, "discover") /\ call'[c] = Over /\ v \notin catalog']_vars

\* app.js:2034 and 2138: the buttons come back, whatever becomes of the call.
ButtonsComeBack ==
    /\ queryInFlight ~> ~queryInFlight
    /\ discovering ~> ~discovering

-----------------------------------------------------------------------------
(* What the documentation says and the code does not do. *)

\* docs/api-reference.md:235: EnsureDefaults always sets includeRuleMetadata, so that every
\* answer has the rule metadata.
RuleMetadataIsAlwaysIncluded ==
    \A c \in Calls : call[c].engine # None => call[c].engine.IncludeRuleMetadata
=============================================================================
