----------------------------- MODULE RoleSearch -----------------------------
(***************************************************************************)
(* How a query finds roles.  A snapshot carries a token index              *)
(* (snapshot_build.go, candidates.go) that selects the candidates, and the *)
(* matcher (internal/matcher/matcher.go) then tests the rules of each      *)
(* candidate.  The two are written apart and must agree: a role that the   *)
(* index leaves out never reaches the matcher.                             *)
(*                                                                         *)
(* Each role is searched on its own, so one role is modelled; its rules    *)
(* are a set.  A token is the sequence of its parts: <<"pods">>,           *)
(* <<"pods", "exec">>, <<"pods", "*">>, <<"*">>; a URL pattern has "*" as  *)
(* its last part.  Spaces around a token are left out.                     *)
(***************************************************************************)
EXTENDS SequencesExt

CONSTANTS
    LowerOf,     \* upper-case part -> lower-case part, where there is one
    RoleChoices, \* the roles a snapshot may hold
    Selectors    \* the selectors a request may carry

VARIABLES
    phase,       \* "index", "select", "match", "answer"
    role,        \* the rules of the role
    selector,
    mode,        \* matchMode
    exact,       \* wildcardMode is "exact"
    tokens,      \* the index buckets that hold the role
    candidate,   \* the index has selected the role
    found        \* references to the matched rules, none if not in the answer

vars == <<phase, role, selector, mode, exact, tokens, candidate, found>>

Star  == <<"*">>
Empty == <<"">>

\* A token has parts; a verb or a resource of a rule that is the empty string, which
\* would grant nothing, is left out.  "*" has no case.
ASSUME TokensAssumption ==
    /\ \A p \in DOMAIN LowerOf : LowerOf[p] \in STRING /\ {p, LowerOf[p]} \cap {"*", ""} = {}
    /\ \A rules \in RoleChoices : \A r \in rules :
          /\ r.groups \cup r.resources \cup r.verbs \subseteq Seq(STRING) \ {<< >>}
          /\ Empty \notin r.resources \cup r.verbs
    /\ \A s \in Selectors : s.groups \cup s.resources \cup s.verbs \subseteq Seq(STRING) \ {<< >>}

Fields == {"groups", "resources", "verbs", "names", "urls"}

\* What the API server admits: a rule has verbs, and groups if it has resources.
ASSUME RolesAreValid ==
    \A rules \in RoleChoices : \A r \in rules :
        /\ r.verbs # {}
        /\ r.resources # {} => r.groups # {}
        /\ r.resources # {} \/ r.urls # {}

Lower(x) == [i \in DOMAIN x |-> IF x[i] \in DOMAIN LowerOf THEN LowerOf[x[i]] ELSE x[i]]
LowerAll(S) == {Lower(x) : x \in S}

-----------------------------------------------------------------------------
(* The index. *)

\* Mutant: the index keeps the tokens as they are written.
IndexTokens_AsWritten(rules) ==
    [groups    |-> UNION {r.groups : r \in rules},
     resources |-> (UNION {r.resources : r \in rules}) \ {Empty},
     verbs     |-> (UNION {r.verbs : r \in rules}) \ {Empty}]

\* Mutant: verbs are not indexed.
IndexTokens_NoVerbs(rules) ==
    [groups    |-> UNION {LowerAll(r.groups) : r \in rules},
     resources |-> (UNION {LowerAll(r.resources) : r \in rules}) \ {Empty}]

\* The empty string is a group, but neither a resource nor a verb.
IndexTokens(rules) ==
    [groups    |-> UNION {LowerAll(r.groups) : r \in rules},
     resources |-> (UNION {LowerAll(r.resources) : r \in rules}) \ {Empty},
     verbs     |-> (UNION {LowerAll(r.verbs) : r \in rules}) \ {Empty}]

\* Some requested token has the role in its bucket; in expand mode a role with
\* "*" is in all of them.
CollectMatches(bucket, requested, ex) ==
    \E x \in requested : \/ Lower(x) \in bucket
                         \/ ~ex /\ Lower(x) # Star /\ Star \in bucket

\* One constraint for each field of the selector that has an index.
IsCandidate(tok, sel, ex) ==
    \A f \in {"groups", "resources", "verbs"} :
        sel[f] # {} => CollectMatches(tok[f], sel[f], ex)

-----------------------------------------------------------------------------
(* The matcher. *)

SameToken(req, a) == Lower(req) = Lower(a)

WildToken(req, a) == Star \in {Lower(req), Lower(a)} \/ SameToken(req, a)

\* "pods/*" fits every subresource of pods.
WildResource(req, a) ==
    \/ WildToken(req, a)
    \/ Len(a) > 1 /\ Last(a) = "*" /\ IsStrictPrefix(Front(Lower(a)), Lower(req))

SameURL(req, a) == req = a

WildURL(req, a) ==
    \/ Star \in {req, a} \/ req = a
    \/ Last(a) = "*" /\ IsPrefix(Front(a), req)

\* The comparison that a field takes in each wildcard mode.
Fits(field, ex, req, a) ==
    IF field = "urls" THEN IF ex THEN SameURL(req, a) ELSE WildURL(req, a)
    ELSE IF ex THEN SameToken(req, a)
    ELSE IF field = "resources" THEN WildResource(req, a) ELSE WildToken(req, a)

Hits(field, r, sel, ex) == {q \in sel[field] : \E a \in r[field] : Fits(field, ex, q, a)}

\* Mutant: mode "any" answers with everything that was requested.
MatchRequested_Echo(field, r, sel, m, ex) ==
    LET hits == Hits(field, r, sel, ex) IN
    IF hits = {} \/ (m = "all" /\ hits # sel[field]) THEN {} ELSE sel[field]

\* Mutant: "all" is satisfied by one requested value.
MatchRequested_AllIsAny(field, r, sel, m, ex) == Hits(field, r, sel, ex)

\* Mutant: "all" answers when nothing was missing but "any" when something was.
MatchRequested_ModesSwapped(field, r, sel, m, ex) ==
    LET hits == Hits(field, r, sel, ex) IN IF m = "any" /\ hits # sel[field] THEN {} ELSE hits

MatchRequested(field, r, sel, m, ex) ==
    LET hits == Hits(field, r, sel, ex) IN IF m = "all" /\ hits # sel[field] THEN {} ELSE hits

\* A field that is not constrained gives the values of the rule (in expand mode
\* by way of "*", which fits them all).  No value at all means no match.
ResolveField(field, r, sel, m, ex) ==
    IF sel[field] = {} THEN r[field] ELSE MatchRequested(field, r, sel, m, ex)

\* A rule without names covers all names.
MatchResourceNames(req, allowed, m) ==
    \/ req = {} \/ allowed = {}
    \/ IF m = "all" THEN req \subseteq allowed ELSE req \cap allowed # {}

MatchResourceRule(r, sel, m, ex) ==
    {[source |-> r, group |-> g, resource |-> x, verb |-> v,
      names |-> IF r.names = {} THEN {} ELSE sel.names] :
        g \in ResolveField("groups", r, sel, m, ex), v \in ResolveField("verbs", r, sel, m, ex),
        x \in IF r.resources # {} /\ MatchResourceNames(sel.names, r.names, m)
              THEN ResolveField("resources", r, sel, m, ex) ELSE {}}

MatchNonResourceRule(r, sel, m, ex) ==
    {[source |-> r, url |-> u, verb |-> v] :
        u \in ResolveField("urls", r, sel, m, ex), v \in ResolveField("verbs", r, sel, m, ex)}

\* A selector with both resources and URLs needs both in the one rule.
MatchRule(r, sel, m, ex) ==
    LET resourceQuery    == sel.resources # {} \/ sel.groups # {} \/ sel.names # {}
        nonResourceQuery == sel.urls # {}
        onResources      == MatchResourceRule(r, sel, m, ex)
        onURLs           == MatchNonResourceRule(r, sel, m, ex)
    IN  CASE resourceQuery /\ nonResourceQuery ->
               IF onResources # {} /\ onURLs # {} THEN onResources \cup onURLs ELSE {}
          [] resourceQuery /\ ~nonResourceQuery -> onResources
          [] ~resourceQuery /\ nonResourceQuery -> onURLs
          [] OTHER -> IF onResources # {} THEN onResources ELSE onURLs

MatchRole(rules, sel, m, ex) == UNION {MatchRule(r, sel, m, ex) : r \in rules}

-----------------------------------------------------------------------------
(* The list of URLs that the roles name (internal/registry/nonresourceurl). *)

\* Mutant: the verbs are gathered for the role, not for the rule.
List_VerbsOfRole(rules) ==
    [u \in UNION {r.urls : r \in rules} |-> UNION {r.verbs : r \in rules}]

\* What the role contributes: URLs as they are written, each with the verbs of the
\* rules that name it.  The entry of a URL also names the role.
List(rules) ==
    [u \in UNION {r.urls : r \in rules} |-> UNION {r.verbs : r \in {q \in rules : u \in q.urls}}]

-----------------------------------------------------------------------------
NoTokens == [groups |-> {}, resources |-> {}, verbs |-> {}]

Init ==
    /\ phase = "index"
    /\ role \in RoleChoices
    /\ selector \in Selectors
    /\ mode \in {"any", "all"}
    /\ exact \in BOOLEAN
    /\ tokens = NoTokens
    /\ candidate = FALSE
    /\ found = {}

BuildIndex ==
    /\ phase = "index"
    /\ tokens' = IndexTokens(role)
    /\ phase' = "select"
    /\ UNCHANGED <<role, selector, mode, exact, candidate, found>>

SelectCandidates ==
    /\ phase = "select"
    /\ candidate' = IsCandidate(tokens, selector, exact)
    /\ phase' = "match"
    /\ UNCHANGED <<role, selector, mode, exact, tokens, found>>

\* A role without a matching rule does not enter the graph.
MatchCandidates ==
    /\ phase = "match"
    /\ found' = IF candidate THEN MatchRole(role, selector, mode, exact) ELSE {}
    /\ phase' = "answer"
    /\ UNCHANGED <<role, selector, mode, exact, tokens, candidate>>

Next == BuildIndex \/ SelectCandidates \/ MatchCandidates

Spec == Init /\ [][Next]_vars /\ WF_vars(Next)

-----------------------------------------------------------------------------
(* Properties. *)

TypeOK ==
    /\ phase \in {"index", "select", "match", "answer"}
    /\ role \in RoleChoices /\ selector \in Selectors
    /\ mode \in {"any", "all"} /\ {exact, candidate} \subseteq BOOLEAN
    /\ DOMAIN tokens = {"groups", "resources", "verbs"}
    /\ \A ref \in found : ref.source \in role

Answered == phase = "answer"
Finds(rules, sel, m, ex) ==
    IsCandidate(IndexTokens(rules), sel, ex) /\ MatchRole(rules, sel, m, ex) # {}

AsksForStar(sel) == \E f \in {"groups", "resources", "verbs"} : Star \in sel[f]
AsksForSubresource(sel) == \E x \in sel.resources : Len(x) > 1

\* The index loses no role that the matcher would accept, although it lower-cases
\* tokens when the snapshot is built and the matcher when a query runs.  In expand
\* mode this is so for selectors that name neither "*" nor a subresource: the
\* matcher lets "*" in a selector fit every rule and "pods/*" in a rule fit
\* "pods/exec", and the index does neither (collectMatches, resourceWildcardMatch).
IndexAgreesWithMatcher ==
    Answered /\ (exact \/ ~(AsksForStar(selector) \/ AsksForSubresource(selector))) =>
        found = MatchRole(role, selector, mode, exact)

\* Asking for more, or with less room for wildcards, never finds a role that a
\* laxer request misses (matchMode and wildcardMode are filters).
StricterFindsLess ==
    Answered /\ found # {} =>
        /\ Finds(role, selector, "any", exact)
        /\ Finds(role, selector, mode, FALSE)

\* docs/query-guide.md:170-184: with "all" the answer holds roles of which ONE
\* rule matches every field of the selector, value by value.
AllMeansOneRule ==
    Answered /\ mode = "all" /\ found # {} =>
        \E r \in role :
            /\ \A v \in selector.verbs : \E a \in r.verbs : WildToken(v, a)
            /\ \A x \in selector.resources : \E a \in r.resources : WildResource(x, a)
            /\ \A g \in selector.groups : \E a \in r.groups : WildToken(g, a)
            /\ \A u \in selector.urls : \E a \in r.urls : WildURL(u, a)
            /\ r.names # {} => selector.names \subseteq r.names

\* A reference to a matched rule never claims a verb on a resource that the rule
\* does not give ("*" in the selector fits whatever it gives, and is echoed as it is).
RefsAreGranted ==
    Answered => \A ref \in found :
        /\ \E a \in ref.source.verbs : WildToken(ref.verb, a)
        /\ "resource" \in DOMAIN ref => \E a \in ref.source.resources : WildResource(ref.resource, a)

OnlyURLs(sel) == sel = [f \in Fields |-> IF f = "urls" THEN sel.urls ELSE {}]

\* What is picked from the list of URLs can be searched: every URL with every verb of
\* its entry finds the role again, in every mode, and an exact query for URLs alone
\* finds exactly the roles that the list names for one of them.  The list is made
\* from the rules and the answer by way of the index and the matcher.
ListedURLsAreFound ==
    Answered =>
        /\ \A u \in DOMAIN List(role) : \A v \in List(role)[u], m \in {"any", "all"}, ex \in BOOLEAN :
               LET picked == [f \in Fields |-> IF f = "urls" THEN {u} ELSE IF f = "verbs" THEN {v} ELSE {}]
               IN  Finds(role, picked, m, ex)
        /\ exact /\ mode = "any" /\ OnlyURLs(selector) /\ selector.urls # {} =>
               (found # {} <=> selector.urls \cap DOMAIN List(role) # {})

-----------------------------------------------------------------------------
(* What the documentation says and the code does not do. *)

\* docs/query-guide.md:154-168: with "any" a rule matches when any one of the
\* selector's fields does.
AnyMeansAnyField ==
    Answered /\ mode = "any" /\ ~exact =>
        ((\E r \in role : \/ \E v \in selector.verbs, a \in r.verbs : SameToken(v, a)
                          \/ \E x \in selector.resources, a \in r.resources : SameToken(x, a))
         => found # {})
=============================================================================
