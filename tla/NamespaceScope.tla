--------------------------- MODULE NamespaceScope ---------------------------
(***************************************************************************)
(* internal/engine/namespace_filter.go: the namespaceScope of a request.   *)
(* A namespace is a model value; Cluster stands for the empty string, the  *)
(* namespace of a cluster-scoped object.  In a request a namespace may be  *)
(* written with spaces around it (Trim takes them off) or be Blank.        *)
(***************************************************************************)
CONSTANTS
    Namespaces,
    Padded,      \* written form with spaces -> namespace
    Cluster,
    Blank

ASSUME NamesAssumption ==
    /\ Cluster \notin Namespaces /\ Blank \notin Namespaces
    /\ DOMAIN Padded \cap (Namespaces \cup {Blank}) = {}
    /\ \A w \in DOMAIN Padded : Padded[w] \in Namespaces

Written == Namespaces \cup DOMAIN Padded \cup {Blank}

Trim(w) == IF w \in DOMAIN Padded THEN Padded[w] ELSE w

\* makeNamespaceFilter; an empty filter lets everything through.
MakeFilter(written) == {Trim(w) : w \in written} \ {Blank}

AllowNamespace(filter, ns, strict) ==
    filter # {} => IF ns = Cluster THEN ~strict ELSE ns \in filter

FilterBindings(filter, strict, bindings) ==
    {b \in bindings : AllowNamespace(filter, b.ns, strict)}
=============================================================================
