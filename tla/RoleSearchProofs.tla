-------------------------- MODULE RoleSearchProofs --------------------------
(***************************************************************************)
(* The search for roles, proved for any roles and any selectors.           *)
(***************************************************************************)
EXTENDS RoleSearch, SequenceTheorems, TLAPS

Indexed == {"groups", "resources", "verbs"}

\* When the rule matches on resources, on URLs: every field leaves a value.
OnResources(r, sel, m, ex) ==
    /\ ResolveField("groups", r, sel, m, ex) # {}
    /\ ResolveField("resources", r, sel, m, ex) # {}
    /\ ResolveField("verbs", r, sel, m, ex) # {}
    /\ r.resources # {}
    /\ MatchResourceNames(sel.names, r.names, m)

OnURLs(r, sel, m, ex) ==
    /\ ResolveField("urls", r, sel, m, ex) # {}
    /\ ResolveField("verbs", r, sel, m, ex) # {}

AsksResources(sel) == sel.resources # {} \/ sel.groups # {} \/ sel.names # {}

\* The inductive invariant: what each step has left behind.
Computed ==
    /\ phase # "index" => tokens = IndexTokens(role)
    /\ phase \in {"match", "answer"} => (candidate <=> IsCandidate(tokens, selector, exact))
    /\ found = IF phase = "answer" /\ candidate THEN MatchRole(role, selector, mode, exact) ELSE {}

Inv == TypeOK /\ Computed

-----------------------------------------------------------------------------
\* Lemma: the references of MatchResourceRule name the rule, a resolved resource and verb.
LEMMA ResourceRefs ==
    ASSUME NEW r, NEW sel, NEW m, NEW ex, NEW ref \in MatchResourceRule(r, sel, m, ex)
    PROVE  /\ ref.source = r
           /\ ref.verb \in ResolveField("verbs", r, sel, m, ex)
           /\ ref.resource \in ResolveField("resources", r, sel, m, ex)
           /\ OnResources(r, sel, m, ex)
<1> DEFINE Xs == IF r.resources # {} /\ MatchResourceNames(sel.names, r.names, m)
                 THEN ResolveField("resources", r, sel, m, ex) ELSE {}
           N == IF r.names = {} THEN {} ELSE sel.names
<1>1. PICK g \in ResolveField("groups", r, sel, m, ex), v \in ResolveField("verbs", r, sel, m, ex),
           x \in Xs : ref = [source |-> r, group |-> g, resource |-> x, verb |-> v, names |-> N]
  BY DEF MatchResourceRule
<1>2. /\ r.resources # {} /\ MatchResourceNames(sel.names, r.names, m)
      /\ x \in ResolveField("resources", r, sel, m, ex)
  OBVIOUS
<1>3. ref.source = r /\ ref.verb = v /\ ref.resource = x
  BY <1>1
<1> QED
  BY <1>1, <1>2, <1>3 DEF OnResources

\* Lemma: MatchResourceRule answers exactly when every field leaves a value.
LEMMA ResourceRuleMatches ==
    ASSUME NEW r, NEW sel, NEW m, NEW ex
    PROVE  MatchResourceRule(r, sel, m, ex) # {} <=> OnResources(r, sel, m, ex)
<1>1. ASSUME MatchResourceRule(r, sel, m, ex) # {} PROVE OnResources(r, sel, m, ex)
  <2>1. PICK ref : ref \in MatchResourceRule(r, sel, m, ex)
    BY <1>1
  <2> QED
    BY <2>1, ResourceRefs
<1>2. ASSUME OnResources(r, sel, m, ex) PROVE MatchResourceRule(r, sel, m, ex) # {}
  <2>1. PICK g \in ResolveField("groups", r, sel, m, ex), v \in ResolveField("verbs", r, sel, m, ex),
             x \in ResolveField("resources", r, sel, m, ex) : TRUE
    BY <1>2 DEF OnResources
  <2> DEFINE G == ResolveField("groups", r, sel, m, ex)
             V == ResolveField("verbs", r, sel, m, ex)
             X == IF r.resources # {} /\ MatchResourceNames(sel.names, r.names, m)
                  THEN ResolveField("resources", r, sel, m, ex) ELSE {}
             Ref(a, b, c) == [source |-> r, group |-> a, resource |-> c, verb |-> b,
                              names |-> IF r.names = {} THEN {} ELSE sel.names]
  <2>2. MatchResourceRule(r, sel, m, ex) = {Ref(a, b, c) : a \in G, b \in V, c \in X}
    BY DEF MatchResourceRule
  <2>3. g \in G /\ v \in V /\ x \in X
    BY <1>2, <2>1 DEF OnResources
  <2> HIDE DEF G, V, X, Ref
  <2>4. Ref(g, v, x) \in MatchResourceRule(r, sel, m, ex)
    BY <2>2, <2>3
  <2> QED
    BY <2>4
<1> QED
  BY <1>1, <1>2

\* Lemma: the references of MatchNonResourceRule name the rule and a resolved verb.
LEMMA URLRefs ==
    ASSUME NEW r, NEW sel, NEW m, NEW ex, NEW ref \in MatchNonResourceRule(r, sel, m, ex)
    PROVE  /\ ref.source = r /\ "resource" \notin DOMAIN ref
           /\ ref.verb \in ResolveField("verbs", r, sel, m, ex)
           /\ OnURLs(r, sel, m, ex)
<1>1. PICK u \in ResolveField("urls", r, sel, m, ex), v \in ResolveField("verbs", r, sel, m, ex) :
           ref = [source |-> r, url |-> u, verb |-> v]
  BY DEF MatchNonResourceRule
<1>2. ref.source = r /\ ref.verb = v
  BY <1>1
<1>3. "resource" \notin DOMAIN ref
  BY <1>1
<1> QED
  BY <1>1, <1>2, <1>3 DEF OnURLs

\* Lemma: MatchNonResourceRule answers exactly when both fields leave a value.
LEMMA URLRuleMatches ==
    ASSUME NEW r, NEW sel, NEW m, NEW ex
    PROVE  MatchNonResourceRule(r, sel, m, ex) # {} <=> OnURLs(r, sel, m, ex)
<1>1. ASSUME MatchNonResourceRule(r, sel, m, ex) # {} PROVE OnURLs(r, sel, m, ex)
  <2>1. PICK ref : ref \in MatchNonResourceRule(r, sel, m, ex)
    BY <1>1
  <2> QED
    BY <2>1, URLRefs
<1>2. ASSUME OnURLs(r, sel, m, ex) PROVE MatchNonResourceRule(r, sel, m, ex) # {}
  <2>1. PICK u \in ResolveField("urls", r, sel, m, ex), v \in ResolveField("verbs", r, sel, m, ex) : TRUE
    BY <1>2 DEF OnURLs
  <2>2. [source |-> r, url |-> u, verb |-> v] \in MatchNonResourceRule(r, sel, m, ex)
    BY <2>1 DEF MatchNonResourceRule
  <2> QED
    BY <2>2
<1> QED
  BY <1>1, <1>2

\* Lemma: when MatchRule answers, by the kinds of question the selector asks.
LEMMA RuleMatches ==
    ASSUME NEW r, NEW sel, NEW m, NEW ex
    PROVE  MatchRule(r, sel, m, ex) # {} <=>
             /\ AsksResources(sel) => OnResources(r, sel, m, ex)
             /\ sel.urls # {} => OnURLs(r, sel, m, ex)
             /\ OnResources(r, sel, m, ex) \/ OnURLs(r, sel, m, ex)
<1> DEFINE RQ == AsksResources(sel)
           NQ == sel.urls # {}
           A == MatchResourceRule(r, sel, m, ex)
           B == MatchNonResourceRule(r, sel, m, ex)
<1>1. /\ RQ /\ NQ => MatchRule(r, sel, m, ex) = IF A # {} /\ B # {} THEN A \cup B ELSE {}
      /\ RQ /\ ~NQ => MatchRule(r, sel, m, ex) = A
      /\ ~RQ /\ NQ => MatchRule(r, sel, m, ex) = B
      /\ ~RQ /\ ~NQ => MatchRule(r, sel, m, ex) = IF A # {} THEN A ELSE B
  BY DEF MatchRule, AsksResources
<1>2. (A # {} <=> OnResources(r, sel, m, ex)) /\ (B # {} <=> OnURLs(r, sel, m, ex))
  BY ResourceRuleMatches, URLRuleMatches
<1> HIDE DEF RQ, NQ, A, B
<1>3. /\ RQ /\ NQ => (MatchRule(r, sel, m, ex) # {} <=> A # {} /\ B # {})
      /\ RQ /\ ~NQ => (MatchRule(r, sel, m, ex) # {} <=> A # {})
      /\ ~RQ /\ NQ => (MatchRule(r, sel, m, ex) # {} <=> B # {})
      /\ ~RQ /\ ~NQ => (MatchRule(r, sel, m, ex) # {} <=> A # {} \/ B # {})
  BY <1>1
<1> QED
  BY <1>2, <1>3 DEF RQ, NQ

\* Lemma: every reference that MatchRule gives comes from one of the two.
LEMMA RuleRefs ==
    ASSUME NEW r, NEW sel, NEW m, NEW ex, NEW ref \in MatchRule(r, sel, m, ex)
    PROVE  ref \in MatchResourceRule(r, sel, m, ex) \/ ref \in MatchNonResourceRule(r, sel, m, ex)
BY DEF MatchRule

\* Lemma: a field of the selector is met by a value that was asked for, in "all" by
\* every one.
LEMMA FieldIsMet ==
    ASSUME NEW r, NEW sel, NEW m, NEW ex, NEW f, sel[f] # {},
           ResolveField(f, r, sel, m, ex) # {}
    PROVE  /\ Hits(f, r, sel, ex) # {}
           /\ m = "all" => Hits(f, r, sel, ex) = sel[f]
BY DEF ResolveField, MatchRequested

-----------------------------------------------------------------------------
(* Tokens. *)

Token(x) == x \in Seq(STRING) \ {<< >>}

\* Lemma: a sequence of one element, and a sequence made by a rule.
LEMMA OneElement ==
    ASSUME NEW S, NEW s \in Seq(S), NEW c
    PROVE  s = <<c>> <=> Len(s) = 1 /\ s[1] = c
<1>1. ASSUME Len(s) = 1, s[1] = c PROVE s = <<c>>
  <2> DEFINE T == S \cup {c}
  <2>1. s \in Seq(T)
    BY SeqMonotonic
  <2>2. <<c>> \in Seq(T) /\ Len(<<c>>) = 1 /\ <<c>>[1] = c
    OBVIOUS
  <2>3. \A i \in 1..Len(s) : s[i] = <<c>>[i]
    BY <1>1
  <2> HIDE DEF T
  <2> QED
    BY <1>1, <2>1, <2>2, <2>3, SeqEqual
<1> QED
  BY <1>1

\* Lemma: a function on 1..n is a sequence of length n.
LEMMA FunctionIsSeq ==
    ASSUME NEW S, NEW n \in Nat, NEW g \in [1..n -> S]
    PROVE  g \in Seq(S) /\ Len(g) = n
<1>1. g \in Seq(S)
  BY SeqDef
<1>2. Len(g) \in Nat /\ DOMAIN g = 1..Len(g) /\ DOMAIN g = 1..n
  BY <1>1, LenProperties
<1>3. \A i \in Nat : i \in 1..n <=> i \in 1..Len(g)
  BY <1>2
<1>4. n # 0 => n \in 1..Len(g)
  BY <1>3
<1>5. Len(g) # 0 => Len(g) \in 1..n
  BY <1>2, <1>3
<1> QED
  BY <1>1, <1>2, <1>4, <1>5

\* Lemma: lower-casing keeps the length of a token, makes "*" only from "*", and makes
\* the empty token only from the empty token.
LEMMA LowerKeeps ==
    ASSUME NEW x, Token(x)
    PROVE  /\ Lower(x) \in Seq(STRING) /\ Len(Lower(x)) = Len(x)
           /\ Lower(x) = Star <=> x = Star
           /\ Lower(x) = Empty => x = Empty
<1> DEFINE p(i) == IF x[i] \in DOMAIN LowerOf THEN LowerOf[x[i]] ELSE x[i]
<1>1. /\ x \in Seq(STRING) /\ Len(x) \in Nat /\ x # << >> /\ DOMAIN x = 1..Len(x)
      /\ \A i \in 1..Len(x) : x[i] \in STRING
  BY DEF Token
<1>2. \A i \in 1..Len(x) : /\ p(i) \in STRING
                           /\ p(i) = "*" <=> x[i] = "*"
                           /\ p(i) = "" => x[i] = ""
  BY <1>1, TokensAssumption
<1>3. Lower(x) = [i \in 1..Len(x) |-> p(i)]
  BY <1>1 DEF Lower
<1> HIDE DEF p
<1>4. Lower(x) \in [1..Len(x) -> STRING] /\ \A i \in 1..Len(x) : Lower(x)[i] = p(i)
  BY <1>2, <1>3
<1>5. Lower(x) \in Seq(STRING) /\ Len(Lower(x)) = Len(x)
  BY <1>1, <1>4, FunctionIsSeq
<1>6. ASSUME NEW c PROVE x = <<c>> <=> Len(x) = 1 /\ x[1] = c
  BY <1>1, OneElement
<1>7. ASSUME NEW c PROVE Lower(x) = <<c>> <=> Len(x) = 1 /\ Lower(x)[1] = c
  BY <1>5, OneElement
<1>8. Len(x) = 1 => /\ Lower(x)[1] = "*" <=> x[1] = "*"
                    /\ Lower(x)[1] = "" => x[1] = ""
  <2>1. Len(x) = 1 => 1 \in 1..Len(x)
    BY <1>1
  <2>2. \A i \in 1..Len(x) : /\ Lower(x)[i] = "*" <=> x[i] = "*"
                             /\ Lower(x)[i] = "" => x[i] = ""
    BY <1>2, <1>4, Zenon
  <2> QED
    BY <2>1, <2>2, Zenon
<1>9. Lower(x) = Star <=> x = Star
  BY <1>6, <1>7, <1>8 DEF Star
<1>10. Lower(x) = Empty => x = Empty
  BY <1>6, <1>7, <1>8 DEF Empty
<1> QED
  BY <1>5, <1>9, <1>10

\* Lemma: what an exact comparison lets fit, a comparison with wildcards does.
LEMMA ExactFits ==
    ASSUME NEW f, NEW ex \in BOOLEAN, NEW q, NEW a, Fits(f, ex, q, a)
    PROVE  Fits(f, FALSE, q, a)
BY DEF Fits, SameURL, WildURL, SameToken, WildToken, WildResource

\* Lemma: a value that was asked for and fits has the rule's role in a bucket it reads.
LEMMA FitIsIndexed ==
    ASSUME NEW f \in Indexed, NEW q, NEW a, NEW bucket, NEW ex \in BOOLEAN,
           Token(q), Token(a), Lower(a) \in bucket,
           ex \/ (q # Star /\ (f = "resources" => Len(q) = 1)),
           Fits(f, ex, q, a)
    PROVE  Lower(q) \in bucket \/ (~ex /\ Lower(q) # Star /\ Star \in bucket)
<1>1. Lower(q) \in Seq(STRING) /\ Len(Lower(q)) = Len(q) /\ (Lower(q) = Star => q = Star)
  BY LowerKeeps
<1>2. CASE ex
  BY <1>2 DEF Fits, SameToken, Indexed
<1>3. CASE ~ex
  <2>1. CASE WildToken(q, a)
    BY <1>1, <1>3, <2>1 DEF WildToken, SameToken
  <2>2. CASE ~WildToken(q, a)
    <3>1. f = "resources" /\ Len(a) > 1 /\ IsStrictPrefix(Front(Lower(a)), Lower(q))
      BY <1>3, <2>2 DEF Fits, WildResource, Indexed
    <3>2. Lower(a) \in Seq(STRING) /\ Len(Lower(a)) = Len(a) /\ Len(a) \in Nat
      BY LowerKeeps DEF Token
    <3> DEFINE s == Front(Lower(a))
               t == Lower(q)
    <3>3. s \in Seq(STRING) /\ Len(s) = Len(a) - 1
      BY <3>1, <3>2 DEF Front
    <3>4. t \in Seq(STRING) /\ Len(t) = 1
      BY <1>1, <1>3, <3>1
    <3>5. s # t /\ Len(s) <= Len(t) /\ SubSeq(s, 1, Len(s)) = SubSeq(t, 1, Len(s))
      BY <3>1 DEF IsStrictPrefix, IsPrefix
    <3> HIDE DEF s, t
    <3>6. Len(s) = 1
      BY <3>1, <3>2, <3>3, <3>4, <3>5
    <3>7. SubSeq(s, 1, 1)[1] = s[1] /\ SubSeq(t, 1, 1)[1] = t[1]
      BY <3>3, <3>4, <3>6
    <3>8. s[1] = t[1]
      BY <3>5, <3>6, <3>7
    <3>9. \A i \in 1..Len(s) : s[i] = t[i]
      BY <3>6, <3>8
    <3> QED
      BY <3>3, <3>4, <3>5, <3>6, <3>9, SeqEqual
  <2> QED
    BY <2>1, <2>2
<1> QED
  BY <1>2, <1>3

-----------------------------------------------------------------------------
(* Roles. *)

\* Lemma: the tokens of roles and selectors are tokens; a rule's verbs and resources
\* are not the empty one.
LEMMA TokensOfRoles ==
    ASSUME NEW rules \in RoleChoices, NEW r \in rules, NEW f \in Indexed
    PROVE  \A a \in r[f] : Token(a) /\ (f # "groups" => Lower(a) # Empty)
<1>1. \A a \in r[f] : Token(a)
  BY TokensAssumption DEF Token, Indexed
<1>2. f # "groups" => Empty \notin r[f]
  BY TokensAssumption DEF Indexed
<1> QED
  BY <1>1, <1>2, LowerKeeps

\* Lemma: the same for a selector.
LEMMA TokensOfSelectors ==
    ASSUME NEW sel \in Selectors, NEW f \in Indexed
    PROVE  \A q \in sel[f] : Token(q)
BY TokensAssumption DEF Token, Indexed

\* Lemma: every token of a rule is in the index, in lower case.
LEMMA TokenIsIndexed ==
    ASSUME NEW rules \in RoleChoices, NEW r \in rules, NEW f \in Indexed, NEW a \in r[f]
    PROVE  Lower(a) \in IndexTokens(rules)[f]
<1>1. f # "groups" => Lower(a) # Empty
  BY TokensOfRoles
<1>2. Lower(a) \in LowerAll(r[f])
  BY DEF LowerAll
<1>3. CASE f = "groups"
  BY <1>2, <1>3 DEF IndexTokens
<1>4. CASE f = "resources"
  BY <1>1, <1>2, <1>4 DEF IndexTokens
<1>5. CASE f = "verbs"
  BY <1>1, <1>2, <1>5 DEF IndexTokens
<1> QED
  BY <1>3, <1>4, <1>5 DEF Indexed

\* Lemma: a rule that matches meets every field that the selector constrains.
LEMMA MatchMeetsFields ==
    ASSUME NEW r, NEW sel, NEW m, NEW ex, MatchRule(r, sel, m, ex) # {}
    PROVE  /\ \A f \in Indexed \cup {"urls"} :
                sel[f] # {} => /\ Hits(f, r, sel, ex) # {}
                               /\ m = "all" => Hits(f, r, sel, ex) = sel[f]
           /\ sel.names # {} => MatchResourceNames(sel.names, r.names, m)
<1>1. /\ sel.groups # {} \/ sel.resources # {} \/ sel.names # {} => OnResources(r, sel, m, ex)
      /\ sel.urls # {} => OnURLs(r, sel, m, ex)
      /\ OnResources(r, sel, m, ex) \/ OnURLs(r, sel, m, ex)
  BY RuleMatches DEF AsksResources
<1>2. ASSUME NEW f \in Indexed \cup {"urls"}, sel[f] # {}
      PROVE  ResolveField(f, r, sel, m, ex) # {}
  BY <1>1, <1>2 DEF OnResources, OnURLs, Indexed
<1>3. sel.names # {} => MatchResourceNames(sel.names, r.names, m)
  BY <1>1 DEF OnResources
<1> QED
  BY <1>2, <1>3, FieldIsMet

\* Lemma: the index selects every role that the matcher accepts, if the comparison is
\* exact or the selector asks for neither "*" nor a subresource.
LEMMA MatchedIsCandidate ==
    ASSUME NEW rules \in RoleChoices, NEW sel \in Selectors, NEW m, NEW ex \in BOOLEAN,
           ex \/ ~(AsksForStar(sel) \/ AsksForSubresource(sel)),
           MatchRole(rules, sel, m, ex) # {}
    PROVE  IsCandidate(IndexTokens(rules), sel, ex)
<1>1. PICK r \in rules : MatchRule(r, sel, m, ex) # {}
  BY DEF MatchRole
<1>2. ASSUME NEW f \in Indexed, sel[f] # {}
      PROVE  CollectMatches(IndexTokens(rules)[f], sel[f], ex)
  <2>1. Hits(f, r, sel, ex) # {}
    BY <1>1, <1>2, MatchMeetsFields
  <2>2. PICK q \in sel[f], a \in r[f] : Fits(f, ex, q, a)
    BY <2>1 DEF Hits
  <2>3. Token(q) /\ Token(a)
    BY TokensOfRoles, TokensOfSelectors
  <2>4. ex \/ (q # Star /\ (f = "resources" => Len(q) = 1))
    <3>1. q = Star => AsksForStar(sel)
      BY DEF AsksForStar, Indexed
    <3>2. f = "resources" /\ Len(q) > 1 => AsksForSubresource(sel)
      BY DEF AsksForSubresource
    <3>3. Len(q) \in Nat /\ Len(q) # 0
      BY <2>3, EmptySeq DEF Token
    <3>4. \A n \in Nat : n # 0 => n > 1 \/ n = 1
      OBVIOUS
    <3> QED
      BY <3>1, <3>2, <3>3, <3>4, Zenon
  <2>5. Lower(a) \in IndexTokens(rules)[f]
    BY TokenIsIndexed
  <2>6. Lower(q) \in IndexTokens(rules)[f] \/ (~ex /\ Lower(q) # Star /\ Star \in IndexTokens(rules)[f])
    BY <2>2, <2>3, <2>4, <2>5, FitIsIndexed
  <2> QED
    BY <2>6 DEF CollectMatches
<1> QED
  BY <1>2 DEF IsCandidate, Indexed

-----------------------------------------------------------------------------
(* The modes are filters. *)

\* Lemma: a looser comparison hits no less, and never more than was asked for.
LEMMA HitsGrow ==
    ASSUME NEW f, NEW r, NEW sel, NEW ex \in BOOLEAN
    PROVE  /\ Hits(f, r, sel, ex) \subseteq Hits(f, r, sel, FALSE)
           /\ Hits(f, r, sel, FALSE) \subseteq sel[f]
<1>1. \A q, a : Fits(f, ex, q, a) => Fits(f, FALSE, q, a)
  BY ExactFits
<1> QED
  BY <1>1 DEF Hits

\* Lemma: what resolves under a stricter mode resolves under a laxer one.
LEMMA ResolveGrows ==
    ASSUME NEW f, NEW r, NEW sel, NEW ex \in BOOLEAN, NEW m,
           ResolveField(f, r, sel, m, ex) # {}
    PROVE  /\ ResolveField(f, r, sel, m, FALSE) # {}
           /\ ResolveField(f, r, sel, "any", ex) # {}
<1>1. CASE sel[f] = {}
  BY <1>1 DEF ResolveField
<1>2. CASE sel[f] # {}
  <2>1. Hits(f, r, sel, ex) # {} /\ (m = "all" => Hits(f, r, sel, ex) = sel[f])
    BY <1>2, FieldIsMet
  <2>2. Hits(f, r, sel, ex) \subseteq Hits(f, r, sel, FALSE) /\ Hits(f, r, sel, FALSE) \subseteq sel[f]
    BY HitsGrow
  <2>3. MatchRequested(f, r, sel, m, FALSE) # {}
    <3>1. Hits(f, r, sel, FALSE) # {}
      BY <2>1, <2>2
    <3>2. m = "all" => Hits(f, r, sel, FALSE) = sel[f]
      BY <2>1, <2>2, Zenon
    <3> QED
      BY <3>1, <3>2 DEF MatchRequested
  <2>4. MatchRequested(f, r, sel, "any", ex) # {}
    BY <2>1 DEF MatchRequested
  <2> QED
    BY <1>2, <2>3, <2>4 DEF ResolveField
<1> QED
  BY <1>1, <1>2

\* Lemma: the matcher accepts under a laxer mode what it accepts under a stricter one.
LEMMA MatchGrows ==
    ASSUME NEW rules, NEW sel, NEW ex \in BOOLEAN, NEW m, MatchRole(rules, sel, m, ex) # {}
    PROVE  MatchRole(rules, sel, m, FALSE) # {} /\ MatchRole(rules, sel, "any", ex) # {}
<1>1. PICK r \in rules : MatchRule(r, sel, m, ex) # {}
  BY DEF MatchRole
<1>2. MatchResourceNames(sel.names, r.names, m) => MatchResourceNames(sel.names, r.names, "any")
  BY DEF MatchResourceNames
<1>3. OnResources(r, sel, m, ex) => OnResources(r, sel, m, FALSE) /\ OnResources(r, sel, "any", ex)
  BY <1>2, ResolveGrows DEF OnResources
<1>4. OnURLs(r, sel, m, ex) => OnURLs(r, sel, m, FALSE) /\ OnURLs(r, sel, "any", ex)
  BY ResolveGrows DEF OnURLs
<1>5. MatchRule(r, sel, m, FALSE) # {} /\ MatchRule(r, sel, "any", ex) # {}
  BY <1>1, <1>3, <1>4, RuleMatches
<1> QED
  BY <1>5 DEF MatchRole

\* Lemma: the index selects under a looser comparison what it selects under an exact one.
LEMMA CandidateGrows ==
    ASSUME NEW tok, NEW sel, NEW ex \in BOOLEAN, IsCandidate(tok, sel, ex)
    PROVE  IsCandidate(tok, sel, FALSE)
BY DEF IsCandidate, CollectMatches

-----------------------------------------------------------------------------
(* The invariant. *)

\* Lemma: every reference that is found names a rule of the role.
LEMMA RefsNameRules ==
    ASSUME NEW rules, NEW sel, NEW m, NEW ex, NEW ref \in MatchRole(rules, sel, m, ex)
    PROVE  \E r \in rules : ref.source = r /\ ref \in MatchRule(r, sel, m, ex)
<1>1. PICK r \in rules : ref \in MatchRule(r, sel, m, ex)
  BY DEF MatchRole
<1> QED
  BY <1>1, RuleRefs, ResourceRefs, URLRefs

\* Lemma: the invariant holds at the start.
LEMMA InitInv == Init => Inv
BY DEF Init, Inv, TypeOK, Computed, NoTokens

\* Lemma: every step keeps the invariant.
LEMMA NextInv == Inv /\ [Next]_vars => Inv'
<1> SUFFICES ASSUME Inv, [Next]_vars PROVE Inv'
  OBVIOUS
<1> USE DEF Inv, TypeOK, Computed
<1>1. CASE BuildIndex
  <2>1. DOMAIN IndexTokens(role) = {"groups", "resources", "verbs"}
    BY DEF IndexTokens
  <2> QED
    BY <1>1, <2>1 DEF BuildIndex
<1>2. CASE SelectCandidates
  <2>1. IsCandidate(tokens, selector, exact) \in BOOLEAN
    BY DEF IsCandidate
  <2> QED
    BY <1>2, <2>1 DEF SelectCandidates
<1>3. CASE MatchCandidates
  <2>1. \A ref \in MatchRole(role, selector, mode, exact) : ref.source \in role
    BY RefsNameRules
  <2> QED
    BY <1>3, <2>1 DEF MatchCandidates
<1>4. CASE UNCHANGED vars
  BY <1>4 DEF vars
<1> QED
  BY <1>1, <1>2, <1>3, <1>4 DEF Next

\* Lemma: what an answer is.
LEMMA InAnswer ==
    ASSUME Inv, Answered
    PROVE  /\ role \in RoleChoices /\ selector \in Selectors /\ exact \in BOOLEAN /\ mode \in {"any", "all"}
           /\ candidate <=> IsCandidate(IndexTokens(role), selector, exact)
           /\ found = IF candidate THEN MatchRole(role, selector, mode, exact) ELSE {}
BY DEF Inv, TypeOK, Computed, Answered

\* Lemma: the invariant holds always.
LEMMA AlwaysInv == Spec => []Inv
BY InitInv, NextInv, PTL DEF Spec

\* Theorem: every state has its type, and a reference that was found names a rule of the
\* role (MatchRule's SourceRuleIndex).
THEOREM SearchTypeOK == Spec => []TypeOK
<1>1. Inv => TypeOK
  BY DEF Inv
<1> QED
  BY <1>1, AlwaysInv, PTL

\* Theorem: candidates.go loses no role that matcher.go would accept, for any roles and
\* any selector that the property does not leave out.
THEOREM IndexAgrees == Spec => []IndexAgreesWithMatcher
<1>1. Inv => IndexAgreesWithMatcher
  <2> SUFFICES ASSUME Inv, Answered, exact \/ ~(AsksForStar(selector) \/ AsksForSubresource(selector))
               PROVE  found = MatchRole(role, selector, mode, exact)
    BY DEF IndexAgreesWithMatcher
  <2> QED
    BY InAnswer, MatchedIsCandidate
<1> QED
  BY <1>1, AlwaysInv, PTL

\* Theorem: matchMode "all" and wildcardMode "exact" are filters: what they find, the
\* laxer request finds.
THEOREM StricterIsLess == Spec => []StricterFindsLess
<1>1. Inv => StricterFindsLess
  <2> SUFFICES ASSUME Inv, Answered, found # {}
               PROVE  Finds(role, selector, "any", exact) /\ Finds(role, selector, mode, FALSE)
    BY DEF StricterFindsLess
  <2>1. IsCandidate(IndexTokens(role), selector, exact) /\ MatchRole(role, selector, mode, exact) # {}
    BY InAnswer
  <2> QED
    BY <2>1, InAnswer, CandidateGrows, MatchGrows DEF Finds
<1> QED
  BY <1>1, AlwaysInv, PTL

\* Theorem: an answer in mode "all" rests on one rule that meets every value of every
\* field (docs/query-guide.md:170-184).
THEOREM AllRestsOnOneRule == Spec => []AllMeansOneRule
<1>1. Inv => AllMeansOneRule
  <2> SUFFICES ASSUME Inv, Answered, mode = "all", found # {}
               PROVE  \E r \in role :
                        /\ \A v \in selector.verbs : \E a \in r.verbs : WildToken(v, a)
                        /\ \A x \in selector.resources : \E a \in r.resources : WildResource(x, a)
                        /\ \A g \in selector.groups : \E a \in r.groups : WildToken(g, a)
                        /\ \A u \in selector.urls : \E a \in r.urls : WildURL(u, a)
                        /\ r.names # {} => selector.names \subseteq r.names
    BY DEF AllMeansOneRule
  <2>1. exact \in BOOLEAN /\ MatchRole(role, selector, mode, exact) # {}
    BY InAnswer
  <2>2. PICK r \in role : MatchRule(r, selector, mode, exact) # {}
    BY <2>1 DEF MatchRole
  <2>3. ASSUME NEW f \in Indexed \cup {"urls"}, NEW q \in selector[f]
        PROVE  \E a \in r[f] : Fits(f, FALSE, q, a)
    <3>1. Hits(f, r, selector, exact) = selector[f]
      BY <2>2, MatchMeetsFields
    <3>2. q \in Hits(f, r, selector, FALSE)
      BY <2>1, <3>1, HitsGrow
    <3> QED
      BY <3>2 DEF Hits
  <2>4. \A v \in selector.verbs : \E a \in r.verbs : WildToken(v, a)
    BY <2>3 DEF Fits, Indexed
  <2>5. \A x \in selector.resources : \E a \in r.resources : WildResource(x, a)
    BY <2>3 DEF Fits, Indexed
  <2>6. \A g \in selector.groups : \E a \in r.groups : WildToken(g, a)
    BY <2>3 DEF Fits, Indexed
  <2>7. \A u \in selector.urls : \E a \in r.urls : WildURL(u, a)
    BY <2>3 DEF Fits, Indexed
  <2>8. r.names # {} => selector.names \subseteq r.names
    BY <2>2, MatchMeetsFields DEF MatchResourceNames
  <2> QED
    BY <2>4, <2>5, <2>6, <2>7, <2>8
<1> QED
  BY <1>1, AlwaysInv, PTL

\* Lemma: a value that a field resolves to is one the rule gives.
LEMMA ResolvedIsGiven ==
    ASSUME NEW f, NEW r, NEW sel, NEW m, NEW ex \in BOOLEAN, NEW x \in ResolveField(f, r, sel, m, ex)
    PROVE  x \in r[f] \/ \E a \in r[f] : Fits(f, FALSE, x, a)
<1>1. CASE sel[f] = {}
  BY <1>1 DEF ResolveField
<1>2. CASE sel[f] # {}
  <2>1. x \in Hits(f, r, sel, ex)
    BY <1>2 DEF ResolveField, MatchRequested
  <2>2. PICK a \in r[f] : Fits(f, ex, x, a)
    BY <2>1 DEF Hits
  <2> QED
    BY <2>2, ExactFits
<1> QED
  BY <1>1, <1>2

\* Theorem: a reference claims no verb and no resource that its rule does not give.
THEOREM RefsAreGivenByRules == Spec => []RefsAreGranted
<1>1. Inv => RefsAreGranted
  <2> SUFFICES ASSUME Inv, Answered, NEW ref \in found
               PROVE  /\ \E a \in ref.source.verbs : WildToken(ref.verb, a)
                      /\ "resource" \in DOMAIN ref =>
                            \E a \in ref.source.resources : WildResource(ref.resource, a)
    BY DEF RefsAreGranted
  <2>1. exact \in BOOLEAN /\ ref \in MatchRole(role, selector, mode, exact)
    BY InAnswer
  <2>2. PICK r \in role : ref.source = r /\ ref \in MatchRule(r, selector, mode, exact)
    BY <2>1, RefsNameRules
  <2>3. ref.verb \in ResolveField("verbs", r, selector, mode, exact)
    BY <2>2, RuleRefs, ResourceRefs, URLRefs
  <2>4. \E a \in r.verbs : WildToken(ref.verb, a)
    <3>1. ref.verb \in r.verbs \/ \E a \in r.verbs : Fits("verbs", FALSE, ref.verb, a)
      BY <2>1, <2>3, ResolvedIsGiven
    <3> QED
      BY <3>1 DEF Fits, WildToken, SameToken
  <2>5. ASSUME "resource" \in DOMAIN ref PROVE \E a \in r.resources : WildResource(ref.resource, a)
    <3>1. ref.resource \in ResolveField("resources", r, selector, mode, exact)
      BY <2>2, <2>5, RuleRefs, ResourceRefs, URLRefs
    <3>2. ref.resource \in r.resources \/ \E a \in r.resources : Fits("resources", FALSE, ref.resource, a)
      BY <2>1, <3>1, ResolvedIsGiven
    <3> QED
      BY <3>2 DEF Fits, WildResource, WildToken, SameToken
  <2> QED
    BY <2>2, <2>4, <2>5
<1> QED
  BY <1>1, AlwaysInv, PTL

-----------------------------------------------------------------------------
(* The list of URLs. *)

\* What is picked from the list: one URL with one of its verbs.
Picked(u, v) == [f \in Fields |-> IF f = "urls" THEN {u} ELSE IF f = "verbs" THEN {v} ELSE {}]

\* Lemma: a rule that names the URL, and a verb of such a rule, find the role.
LEMMA PickedIsFound ==
    ASSUME NEW rules \in RoleChoices, NEW r \in rules, NEW u \in r.urls, NEW v \in r.verbs,
           NEW m, NEW ex \in BOOLEAN
    PROVE  Finds(rules, Picked(u, v), m, ex)
<1> DEFINE sel == Picked(u, v)
<1>1. /\ sel["groups"] = {} /\ sel["resources"] = {} /\ sel["names"] = {}
      /\ sel["verbs"] = {v} /\ sel["urls"] = {u}
  BY DEF Picked, Fields
<1> HIDE DEF sel
<1>2. Lower(v) \in IndexTokens(rules)["verbs"]
  BY TokenIsIndexed DEF Indexed
<1>3. IsCandidate(IndexTokens(rules), sel, ex)
  BY <1>1, <1>2 DEF IsCandidate, CollectMatches
<1>4. Hits("verbs", r, sel, ex) = {v}
  BY <1>1 DEF Hits, Fits, WildToken, SameToken
<1>5. Hits("urls", r, sel, ex) = {u}
  BY <1>1 DEF Hits, Fits, WildURL, SameURL
<1>6. OnURLs(r, sel, m, ex)
  BY <1>1, <1>4, <1>5 DEF OnURLs, ResolveField, MatchRequested
<1>7. MatchRule(r, sel, m, ex) # {}
  BY <1>1, <1>6, RuleMatches DEF AsksResources
<1>8. Finds(rules, sel, m, ex)
  BY <1>3, <1>7 DEF Finds, MatchRole
<1> QED
  BY <1>8 DEF sel

\* Theorem: what nonresourceurl/rest.go lists, a query finds, and no more.
THEOREM ListedIsFound == Spec => []ListedURLsAreFound
<1>1. Inv => ListedURLsAreFound
  <2> SUFFICES ASSUME Inv, Answered PROVE ListedURLsAreFound
    BY DEF ListedURLsAreFound
  <2>1. role \in RoleChoices /\ selector \in Selectors /\ exact \in BOOLEAN
    BY InAnswer
  <2>2. ASSUME NEW u \in DOMAIN List(role), NEW v \in List(role)[u], NEW m \in {"any", "all"},
               NEW ex \in BOOLEAN
        PROVE  Finds(role, Picked(u, v), m, ex)
    <3>1. PICK r \in role : u \in r.urls /\ v \in r.verbs
      BY DEF List
    <3> QED
      BY <2>1, <3>1, PickedIsFound
  <2>3. ASSUME exact, mode = "any", OnlyURLs(selector), selector.urls # {}
        PROVE  found # {} <=> selector.urls \cap DOMAIN List(role) # {}
    <3>1. /\ selector["groups"] = {} /\ selector["resources"] = {} /\ selector["names"] = {}
          /\ selector["verbs"] = {}
      BY <2>3 DEF OnlyURLs, Fields
    <3>2. IsCandidate(IndexTokens(role), selector, exact)
      BY <3>1 DEF IsCandidate
    <3>3. found = MatchRole(role, selector, mode, exact)
      BY <3>2, InAnswer
    <3>4. ASSUME NEW r \in role
          PROVE  MatchRule(r, selector, mode, exact) # {} <=> selector["urls"] \cap r["urls"] # {}
      <4>1. Hits("urls", r, selector, exact) = selector["urls"] \cap r["urls"]
        BY <2>3 DEF Hits, Fits, SameURL
      <4>2. ResolveField("urls", r, selector, mode, exact) = selector["urls"] \cap r["urls"]
        BY <2>3, <4>1 DEF ResolveField, MatchRequested
      <4>3. ResolveField("verbs", r, selector, mode, exact) # {}
        BY <2>1, <3>1, RolesAreValid DEF ResolveField
      <4>4. OnURLs(r, selector, mode, exact) <=> selector["urls"] \cap r["urls"] # {}
        BY <4>2, <4>3 DEF OnURLs
      <4>5. ~AsksResources(selector)
        BY <3>1 DEF AsksResources
      <4>6. MatchRule(r, selector, mode, exact) # {} <=>
              /\ OnURLs(r, selector, mode, exact)
              /\ OnResources(r, selector, mode, exact) \/ OnURLs(r, selector, mode, exact)
        BY <2>3, <4>5, RuleMatches
      <4> QED
        BY <4>4, <4>6
    <3>5. found # {} <=> \E r \in role : MatchRule(r, selector, mode, exact) # {}
      BY <3>3 DEF MatchRole
    <3>6. DOMAIN List(role) = UNION {r.urls : r \in role}
      BY DEF List
    <3>7. selector.urls \cap DOMAIN List(role) # {} <=> \E r \in role : selector.urls \cap r.urls # {}
      BY <3>6
    <3> QED
      BY <3>4, <3>5, <3>7
  <2> QED
    BY <2>2, <2>3 DEF ListedURLsAreFound, Picked
<1> QED
  BY <1>1, AlwaysInv, PTL

=============================================================================
