------------------------------- MODULE WebProxy -------------------------------
(***************************************************************************)
(* Calls to the web proxy (cmd/rbacgraph-web/main.go, handleQuery), from   *)
(* the client through the proxy to the API server and back, and calls that *)
(* go to the API server directly (kubectl create --raw).  The API server   *)
(* decodes, converts, fills in defaults and validates                      *)
(* (internal/registry/rolegraphreview/rest.go, Create) and asks the engine.*)
(*                                                                         *)
(* Time is counted in ticks of 10 s.  A deadline that coincides with an    *)
(* answer may win or lose.  The proxy stops at SIGTERM and is started      *)
(* again.  Every client wants some versioned specification (meant) and     *)
(* writes it in one of the forms of docs/query-guide.md.                   *)
(***************************************************************************)
EXTENDS ReviewSpec

CONSTANTS
    MaxCalls,   \* bound: calls made
    Names,      \* the strings of specifications
    Items,      \* what the lists of a status hold
    Statuses,   \* what the engine may answer (internal)
    None,       \* no specification, no data
    Cut         \* what is left of an answer that was cut

ASSUME MaxCallsAssumption == MaxCalls \in Nat
ASSUME NamesAssumption == {"", "any", "expand", "active"} \subseteq Names
ASSUME StatusesAssumption == Statuses \subseteq InternalStatuses(Items)
ASSUME NoneAssumption == None \notin Statuses \cup V1Statuses(Items) \cup {Cut}

VARIABLES
    call,       \* the calls, one record each
    up          \* the proxy process: first, stopped or restarted

Calls == 1 .. MaxCalls

UpstreamTimeout == 2   \* httpClientTimeout, from Do to the end of the body
WriteTimeout    == 3   \* serverWriteTimeout, from the request's header
AbortTimeout    == 3   \* of the browser, from fetch
MaxAge          == 4   \* bound: an older call counts as this old

Forms == {"review", "spec", "bare", "selector", "broken"}

New  == [at |-> "new", flow |-> "none", form |-> "broken", meant |-> ZeroSpec, age |-> 0,
         asked |-> MaxAge, engine |-> None, result |-> None, code |-> "none", data |-> None]
Over == [New EXCEPT !.at = "over"]

Proxied(c)   == call[c].flow # "kubectl"
InProxy(c)   == call[c].at \in {"receiving", "calling", "reading", "writing"}
InBrowser(c) == call[c].flow \in {"query", "discover"}
Running(c)   == InProxy(c) \/ call[c].at = "direct"

\* A call comes to its end; what is not looked at any more is forgotten.
Ended(c, code, data) ==
    [New EXCEPT !.at = "done", !.flow = call[c].flow, !.code = code, !.data = data,
                !.result = IF data = None THEN None ELSE call[c].result]

-----------------------------------------------------------------------------
(* What is written and read. *)

\* The JSON object of a form.  The bare form is a spec whose writer leaves out an empty
\* selector.
Written(form, s) ==
    LET o == EncodeSpec(s) IN
    CASE form = "review"   -> [spec |-> o]
      [] form = "spec"     -> o
      [] form = "bare"     -> [k \in {f \in DOMAIN o : f # "selector" \/ o[f] # << >>} |-> o[k]]
      [] form = "selector" -> o.selector

\* Mutant: a body with neither a spec nor a selector is taken for a spec.
DecodeClientRequest_SpecByDefault(o) ==
    IF "spec" \in DOMAIN o THEN DecodeSpec(o.spec) ELSE DecodeSpec(o)

\* decodeClientRequest looks at the keys to tell the forms apart.
DecodeClientRequest(o) ==
    CASE "spec" \in DOMAIN o     -> DecodeSpec(o.spec)
      [] "selector" \in DOMAIN o -> DecodeSpec(o)
      [] OTHER                   -> [ZeroSpec EXCEPT !.selector = DecodeSelector(o)]

\* The specification that the proxy sends on.
Forwarded(o) == [V1Defaults(DecodeClientRequest(o)) EXCEPT !.includeRuleMetadata = TRUE]

\* The specification that Create validates.  The API server's own defaulting does
\* nothing: RegisterDefaults is not called.
Received(c) ==
    Defaults(SpecToInternal(DecodeSpec(
        IF Proxied(c) THEN EncodeSpec(Forwarded(Written(call[c].form, call[c].meant)))
        ELSE EncodeSpec(call[c].meant))))

-----------------------------------------------------------------------------
(* The steps of a call. *)

\* The client sends.  Without a proxy the connection is refused.
Post(c, flow, form, meant) ==
    /\ call[c].at = "new" /\ \A d \in 1 .. c - 1 : call[d].at # "new"
    /\ call' = [call EXCEPT ![c] = [New EXCEPT
          !.at   = CASE flow = "kubectl" -> "direct" [] up = "stopped" -> "done" [] OTHER -> "receiving",
          !.code = IF flow # "kubectl" /\ up = "stopped" THEN "reset" ELSE "none",
          !.flow = flow, !.form = form, !.meant = meant]]
    /\ UNCHANGED up

\* The body has arrived and cannot be decoded, or the headers name a group to
\* impersonate and no user: 400.
Refuse(c) ==
    /\ call[c].at = "receiving"
    /\ call' = [call EXCEPT ![c].at = "writing", ![c].code = "refused"]
    /\ UNCHANGED up

\* The body has arrived and has been decoded, and goes on with its defaults filled in.
Forward(c) ==
    /\ call[c].at = "receiving" /\ call[c].form # "broken"
    /\ call' = [call EXCEPT ![c].at = "calling", ![c].asked = call[c].age]
    /\ UNCHANGED up

\* The API server answers: an invalid specification is an error, and so may be a
\* selector that does not fit the cluster or a caller without permission.
Serve(c) ==
    /\ call[c].at \in {"calling", "direct"}
    /\ LET next == IF Proxied(c) THEN "reading" ELSE "done" IN
       \/ /\ Valid(Received(c))
          /\ \E st \in Statuses :
                call' = [call EXCEPT ![c].at = next, ![c].engine = EngineSpec(Received(c)),
                                     ![c].result = st, ![c].code = "created",
                                     ![c].data = StatusToV1(st)]
       \/ call' = [call EXCEPT ![c].at = next, ![c].code = "error"]
    /\ UNCHANGED up

\* The proxy reads the answer, 10 MB of it at most.  What is cut is not JSON any more,
\* and keeps its status.
Read(c) ==
    /\ call[c].at = "reading"
    /\ \/ call' = [call EXCEPT ![c].at = "writing"]
       \/ call[c].data # None /\ call' = [call EXCEPT ![c].at = "writing", ![c].data = Cut]
    /\ UNCHANGED up

\* The API server cannot be reached or breaks off: 502.
Fail(c) ==
    /\ call[c].at \in {"calling", "reading"}
    /\ call' = [call EXCEPT ![c].at = "writing", ![c].code = "bad gateway", ![c].data = None,
                             ![c].result = None]
    /\ UNCHANGED up

UpstreamIsLate(c) == /\ call[c].at \in {"calling", "reading"}
                     /\ call[c].age >= call[c].asked + UpstreamTimeout

\* The proxy's client gives up.
TimeOut(c) == UpstreamIsLate(c) /\ Fail(c)

\* The answer is written, unless the server's deadline is over: then the connection is
\* closed.
Write(c) ==
    /\ call[c].at = "writing"
    /\ \/ /\ call[c].age <= WriteTimeout
          /\ call' = [call EXCEPT ![c] = Ended(c, @.code, @.data)]
       \/ /\ call[c].age >= WriteTimeout
          /\ call' = [call EXCEPT ![c] = Ended(c, "late", None)]
    /\ UNCHANGED up

\* The browser's timer: fetch is aborted, and with it the proxy's call.
Abort(c) ==
    /\ InBrowser(c) /\ Running(c) /\ call[c].age >= AbortTimeout
    /\ call' = [call EXCEPT ![c] = Ended(c, "aborted", None)]
    /\ UNCHANGED up

\* main returns as soon as the listener is closed, and the process ends with whatever
\* calls it has under way.
Stop ==
    /\ up = "first"
    /\ up' = "stopped"
    /\ call' = [c \in Calls |-> IF InProxy(c) THEN Ended(c, "reset", None) ELSE call[c]]

Restart ==
    /\ up = "stopped"
    /\ up' = "restarted"
    /\ UNCHANGED call

\* Mutant: nothing limits the time of the upstream call.
Due_NoUpstreamTimeout(c) ==
    \/ call[c].at = "writing"
    \/ InBrowser(c) /\ Running(c) /\ call[c].age >= AbortTimeout

\* Something is due that does not wait for the clock: an answer to write, a deadline.
Due(c) ==
    \/ call[c].at = "writing"
    \/ UpstreamIsLate(c)
    \/ InBrowser(c) /\ Running(c) /\ call[c].age >= AbortTimeout

Tick ==
    /\ \A c \in Calls : ~Due(c)
    /\ call' = [c \in Calls |-> IF Running(c) /\ call[c].age < MaxAge
                                THEN [call[c] EXCEPT !.age = @ + 1] ELSE call[c]]
    /\ UNCHANGED up

Step(c) ==
    Refuse(c) \/ Forward(c) \/ Serve(c) \/ Read(c) \/ Fail(c) \/ TimeOut(c) \/ Write(c) \/ Abort(c)

ProxyNext == (\E c \in Calls : Step(c)) \/ Stop \/ Restart \/ Tick
=============================================================================
