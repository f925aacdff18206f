------------------------------- MODULE MCWebUI -------------------------------
(* Instances of WebUI for TLC: two values that differ in case, and answers that *)
(* offer one of them. *)
EXTENDS WebUI

CONSTANTS pods, Pods

MCValues == {pods, Pods}
MCFold   == [v \in MCValues |-> IF v = Pods THEN pods ELSE v]

Status(rows) ==
    [MatchedRoles |-> 1, MatchedBindings |-> 0, MatchedSubjects |-> 0, MatchedPods |-> 0,
     MatchedWorkloads |-> 0, Warnings |-> {}, KnownGaps |-> {},
     Graph |-> [Nodes |-> {"role"}, Edges |-> {}], ResourceMap |-> rows]

MCNames == MCValues \cup {"", "any", "all", "most", "expand", "active", "gone"}
MCItems == MCValues \cup {"role"}

MCStatuses == {Status({Pods}), Status({pods})}

MCScripts ==
    {[ZeroSpec EXCEPT !.selector = [ZeroSelector EXCEPT !.resources = r], !.matchMode = m,
                      !.podPhaseMode = IF m = "most" THEN "gone" ELSE m,
                      !.maxPodsPerSubject = IF w THEN 7 ELSE -1, !.includeWorkloads = w,
                      !.filterPhantomAPIs = w,
                      !.includeRuleMetadata = (w = (m = "all")),
                      !.namespaceScope = [ZeroScope EXCEPT !.strict = w]] :
        r \in {{}, {pods}}, m \in {"", "all", "most"}, w \in BOOLEAN}

MCClients == {{"query", "discover"}, {"script"}, {"kubectl"}}
=============================================================================
