----------------------------- MODULE Aggregation -----------------------------
(***************************************************************************)
(* internal/indexer/snapshot_build.go: which ClusterRoles one ClusterRole  *)
(* with an aggregationRule aggregates (indexAggregatedClusterRoles treats  *)
(* each such role on its own).  A selector with matchLabels alone is       *)
(* answered from a label index, a bucket of roles per label; matchLabels   *)
(* is a Go map, so its buckets are met in any order.  Any other selector   *)
(* is handed to apimachinery (external).                                   *)
(*                                                                         *)
(* A label is a key=value pair.                                            *)
(***************************************************************************)
EXTENDS Naturals, Sequences

CONSTANTS
    Roles,      \* names of the ClusterRoles
    Target,     \* the one that aggregates
    Labels,     \* key=value pairs
    MaxSelectors \* bound: selectors of the aggregationRule

\* What a selector has for matchExpressions: none, one that wants some label to
\* be there, or one that apimachinery rejects.
Expressions == {"none", "exists", "invalid"}
Selectors == [labels : SUBSET Labels, expressions : Expressions]

ASSUME TargetAssumption == Target \in Roles
ASSUME MaxSelectorsAssumption == MaxSelectors \in Nat \ {0}

VARIABLES
    labels,   \* labels of each role
    rule,     \* the target's clusterRoleSelectors
    at,       \* the selector the loop is at
    unread,   \* labels of that selector whose bucket has not been read
    result,   \* indexedCandidates' result: << >> for nil, else <<set>>
    sources,  \* sourceSet
    rejected    \* selectors that gave a warning

aggregationVars == <<labels, rule, at, unread, result, sources, rejected>>

Bucket(l) == {r \in Roles : l \in labels[r]}

\* The meaning of a label selector in Kubernetes; an empty one selects all.
Selected(s) == {r \in Roles : /\ s.labels \subseteq labels[r]
                              /\ s.expressions = "exists" => labels[r] # {}}

Looping == at <= Len(rule)
Indexed(s) == s.expressions = "none" /\ s.labels # {}
WantedAt(i) == IF i <= Len(rule) THEN rule[i].labels ELSE {}

-----------------------------------------------------------------------------
AggregationInit ==
    /\ labels \in [Roles -> SUBSET Labels]
    /\ rule \in UNION {[1 .. n -> Selectors] : n \in 1 .. MaxSelectors}
    /\ at = 1
    /\ unread = rule[1].labels
    /\ result = << >>
    /\ sources = {}
    /\ rejected = {}

\* Mutant: intersectByName keeps what is in either list.
ReadBucket_Union ==
    /\ Looping /\ Indexed(rule[at])
    /\ \E l \in unread :
          /\ unread' = unread \ {l}
          /\ result' = IF result # << >> THEN <<result[1] \cup Bucket(l)>>
                       ELSE IF Bucket(l) = {} THEN << >> ELSE <<Bucket(l)>>
    /\ UNCHANGED <<labels, rule, at, sources, rejected>>

\* indexedCandidates reads one bucket.  Appending nothing to a nil slice leaves
\* it nil: an empty bucket that comes first leaves no trace.
ReadBucket ==
    /\ Looping /\ Indexed(rule[at])
    /\ \E l \in unread :
          /\ unread' = unread \ {l}
          /\ result' = IF result # << >> THEN <<result[1] \cap Bucket(l)>>
                       ELSE IF Bucket(l) = {} THEN << >> ELSE <<Bucket(l)>>
    /\ UNCHANGED <<labels, rule, at, sources, rejected>>

\* The loop goes on to the next selector.
Advance ==
    /\ at' = at + 1
    /\ unread' = WantedAt(at + 1)
    /\ result' = << >>
    /\ UNCHANGED <<labels, rule>>

\* All buckets are read: the candidates become sources, except the target.
TakeIndexed ==
    /\ Looping /\ Indexed(rule[at]) /\ unread = {}
    /\ sources' = sources \cup ((IF result = << >> THEN {} ELSE result[1]) \ {Target})
    /\ UNCHANGED rejected
    /\ Advance

\* Mutant: an invalid selector ends the loop and the selectors after it are lost.
TakeEvaluated_Break ==
    /\ Looping /\ ~Indexed(rule[at])
    /\ IF rule[at].expressions = "invalid"
       THEN /\ rejected' = rejected \cup {at}
            /\ at' = Len(rule) + 1
            /\ unread' = {} /\ result' = << >>
            /\ UNCHANGED <<labels, rule, sources>>
       ELSE /\ sources' = sources \cup (Selected(rule[at]) \ {Target})
            /\ UNCHANGED rejected
            /\ Advance

\* A selector with matchExpressions, or without anything, is evaluated on every
\* role.  An invalid one gives a warning and the loop goes on.
TakeEvaluated ==
    /\ Looping /\ ~Indexed(rule[at])
    /\ IF rule[at].expressions = "invalid"
       THEN rejected' = rejected \cup {at} /\ UNCHANGED sources
       ELSE sources' = sources \cup (Selected(rule[at]) \ {Target}) /\ UNCHANGED rejected
    /\ Advance

AggregationNext == ReadBucket \/ TakeIndexed \/ TakeEvaluated

AggregationSpec == AggregationInit /\ [][AggregationNext]_aggregationVars

-----------------------------------------------------------------------------
(* Properties. *)

AggregationTypeOK ==
    /\ labels \in [Roles -> SUBSET Labels]
    /\ \A i \in DOMAIN rule : rule[i] \in Selectors
    /\ at \in 1 .. Len(rule) + 1
    /\ unread \subseteq WantedAt(at)
    /\ \A i \in DOMAIN result : result[i] \subseteq Roles
    /\ sources \subseteq Roles \ {Target}
    /\ rejected \subseteq DOMAIN rule

Aggregated == ~Looping
Carried == \A i \in DOMAIN rule : \A l \in rule[i].labels : Bucket(l) # {}
Valid == {i \in DOMAIN rule : ~(rule[i].expressions = "invalid")}
Meant == (UNION {Selected(rule[i]) : i \in Valid}) \ {Target}

\* No role that Kubernetes aggregates is left out, whatever the order in which
\* the labels are met, and an invalid selector costs only itself.
NoSourceIsMissed == Aggregated => Meant \subseteq sources

\* Why NoSourceIsMissed holds, step by step: the selectors that were passed are
\* covered, and the intersection under way still has all that its selector selects.
\* A result that is still nil has met only buckets that are empty.
Progress ==
    /\ \A i \in Valid : i < at => Selected(rule[i]) \ {Target} \subseteq sources
    /\ Looping /\ Indexed(rule[at]) =>
          IF result = << >> THEN \A l \in rule[at].labels \ unread : Bucket(l) = {}
          ELSE Selected(rule[at]) \subseteq result[1]

\* The sources are exactly those of Kubernetes as long as every label that a
\* selector asks for is carried by some role: map order cannot matter then.
ExactWhenEveryLabelIsCarried == Aggregated /\ Carried => sources = Meant

\* The other half of why: no source came from elsewhere, and the intersection under
\* way is that of the buckets read; it is nil only before the first of them.
NothingElse ==
    Carried =>
        /\ sources \subseteq Meant
        /\ Looping /\ Indexed(rule[at]) =>
              IF result = << >> THEN unread = rule[at].labels
              ELSE \A r \in result[1] : rule[at].labels \ unread \subseteq labels[r]

\* snapshot_build.go:192-193: indexedCandidates "returns ClusterRoles matching
\* ALL the given matchLabels".
SourcesMatchAllLabels ==
    Aggregated => \A r \in sources : \E i \in Valid : rule[i].labels \subseteq labels[r]
=============================================================================
