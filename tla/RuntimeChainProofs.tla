------------------------- MODULE RuntimeChainProofs -------------------------
(***************************************************************************)
(* Theorems about RuntimeChain, for any pods, owners, accounts and limits. *)
(***************************************************************************)
EXTENDS RuntimeChain, FiniteSetTheorems, WellFoundedInduction, TLAPS

-----------------------------------------------------------------------------
(* Counting. *)

\* Pods that can be sorted by name.
Sortable(S) == /\ IsFiniteSet(S)
               /\ \A p \in S : p.id \in Nat
               /\ \A p, q \in S : p.id = q.id => p = q

Before(S, p) == {q \in S : q.id < p.id}

\* Lemma: a one-to-one function between two sets keeps the number of elements.
LEMMA SameSize ==
    ASSUME NEW S, NEW T, IsFiniteSet(S), NEW f \in [S -> T],
           \A x, y \in S : f[x] = f[y] => x = y,
           \A t \in T : \E x \in S : f[x] = t
    PROVE  IsFiniteSet(T) /\ Cardinality(T) = Cardinality(S)
<1>1. f \in Bijection(S, T)
  BY DEF Bijection, Injection, Surjection, IsInjective
<1>2. ExistsBijection(S, T)
  BY <1>1 DEF ExistsBijection
<1> QED
  BY <1>2, FS_Bijection

\* Lemma: the place of a pod among others is less than their number, and two pods have
\* different places.
LEMMA Places ==
    ASSUME NEW S, Sortable(S)
    PROVE  /\ Cardinality(S) \in Nat
           /\ \A p \in S : Cardinality(Before(S, p)) \in 0 .. Cardinality(S) - 1
           /\ \A p, q \in S : Cardinality(Before(S, p)) = Cardinality(Before(S, q)) => p = q
<1>1. IsFiniteSet(S) /\ Cardinality(S) \in Nat
  BY FS_CardinalityType DEF Sortable
<1>2. ASSUME NEW p \in S
      PROVE  /\ IsFiniteSet(Before(S, p)) /\ Cardinality(Before(S, p)) \in Nat
             /\ Cardinality(Before(S, p)) <= Cardinality(S)
             /\ Cardinality(Before(S, p)) # Cardinality(S)
  <2>1. Before(S, p) \in SUBSET S /\ p \notin Before(S, p)
    BY DEF Before, Sortable
  <2>2. /\ IsFiniteSet(Before(S, p)) /\ Cardinality(Before(S, p)) <= Cardinality(S)
        /\ Cardinality(S) = Cardinality(Before(S, p)) => S = Before(S, p)
    BY <1>1, <2>1, FS_Subset
  <2> QED
    BY <2>1, <2>2, FS_CardinalityType
<1>3. ASSUME NEW p \in S, NEW q \in S, p.id < q.id
      PROVE  Cardinality(Before(S, p)) # Cardinality(Before(S, q))
  <2>1. p \in Before(S, q) /\ p \notin Before(S, p)
    BY <1>3 DEF Before, Sortable
  <2>2. Before(S, p) \in SUBSET Before(S, q)
    BY <1>3 DEF Before, Sortable
  <2>3. Cardinality(Before(S, q)) = Cardinality(Before(S, p)) => Before(S, q) = Before(S, p)
    BY <1>2, <2>2, FS_Subset
  <2> QED
    BY <2>1, <2>3
<1>4. ASSUME NEW p \in S, NEW q \in S, Cardinality(Before(S, p)) = Cardinality(Before(S, q))
      PROVE  p = q
  <2>1. p.id \in Nat /\ q.id \in Nat /\ (p.id = q.id => p = q)
    BY DEF Sortable
  <2>2. ~(p.id < q.id) /\ ~(q.id < p.id)
    BY <1>3, <1>4
  <2>3. p.id = q.id
    BY <2>1, <2>2
  <2> QED
    BY <2>1, <2>3
<1>5. \A p \in S : Cardinality(Before(S, p)) \in 0 .. Cardinality(S) - 1
  <2> TAKE p \in S
  <2>1. \A a, b \in Nat : a <= b /\ a # b => a \in 0 .. b - 1
    OBVIOUS
  <2> QED
    BY <1>1, <1>2, <2>1
<1> QED
  BY <1>1, <1>4, <1>5

\* Lemma: the first n pods of a set are n, or all if there are fewer (the slice
\* pods[:maxPodsPerSubject]).
LEMMA FirstPodsCount ==
    ASSUME NEW S, Sortable(S), NEW n \in Nat
    PROVE  /\ IsFiniteSet(FirstPods(S, n)) /\ Cardinality(S) \in Nat
           /\ Cardinality(FirstPods(S, n)) = IF Cardinality(S) > n THEN n ELSE Cardinality(S)
<1> DEFINE k == Cardinality(S)
           place == [p \in S |-> Cardinality(Before(S, p))]
           I == 0 .. k - 1
<1>1. IsFiniteSet(S) /\ k \in Nat
  BY Places DEF Sortable
<1>2. place \in [S -> I] /\ \A p, q \in S : place[p] = place[q] => p = q
  BY Places
<1>3. FirstPods(S, n) = {p \in S : place[p] < n}
  BY DEF FirstPods, Before
<1>4. IsFiniteSet(I) /\ Cardinality(I) = k
  <2>1. 0 \in Int /\ k - 1 \in Int
    BY <1>1
  <2>2. IsFiniteSet(I) /\ Cardinality(I) = IF 0 > k - 1 THEN 0 ELSE (k - 1) - 0 + 1
    BY <2>1, FS_Interval
  <2> QED
    BY <1>1, <2>2
<1> HIDE DEF k, place
<1>5. place \in Injection(S, I)
  BY <1>2 DEF Injection, IsInjective
<1>6. place \in Surjection(S, I)
  BY <1>4, <1>5, FS_Injection DEF k
<1>7. \A i \in I : \E p \in S : place[p] = i
  BY <1>6 DEF Surjection
<1> DEFINE m == IF k > n THEN n ELSE k
           J == 0 .. m - 1
           F == {p \in S : place[p] < n}
           f == [p \in F |-> place[p]]
<1>8. m \in Nat /\ \A i : i \in J <=> i \in I /\ i < n
  BY <1>1
<1>9. f \in [F -> J] /\ \A p, q \in F : f[p] = f[q] => p = q
  BY <1>2, <1>8
<1>10. \A i \in J : \E p \in F : f[p] = i
  BY <1>7, <1>8
<1>11. IsFiniteSet(F)
  <2>1. F \in SUBSET S
    OBVIOUS
  <2> QED
    BY <1>1, <2>1, FS_Subset
<1>12. Cardinality(J) = m
  <2>1. 0 \in Int /\ m - 1 \in Int
    BY <1>8
  <2>2. Cardinality(J) = IF 0 > m - 1 THEN 0 ELSE (m - 1) - 0 + 1
    BY <2>1, FS_Interval
  <2> QED
    BY <1>8, <2>2
<1>13. Cardinality(J) = Cardinality(F)
  <2> HIDE DEF J, F, f
  <2> QED
    BY <1>9, <1>10, <1>11, SameSize
<1> QED
  BY <1>1, <1>3, <1>11, <1>12, <1>13 DEF k

\* Lemma: at most one owner reference is chosen.
LEMMA OneOwner ==
    ASSUME NEW refs, refs \subseteq OwnerRefs
    PROVE  ChooseOwner(refs) \subseteq refs /\ Cardinality(ChooseOwner(refs)) <= 1
<1>1. \A r, x \in ChooseOwner(refs) : r = x
  <2> TAKE r, x \in ChooseOwner(refs)
  <2>1. r \in OwnerRefs /\ x \in OwnerRefs /\ r.controller = x.controller
    BY DEF ChooseOwner, FirstOf, OwnerRefs
  <2>2. r.uid <= x.uid /\ x.uid <= r.uid
    BY DEF ChooseOwner, FirstOf
  <2>3. r.uid = x.uid
    BY <2>1, <2>2 DEF OwnerRefs
  <2> QED
    BY <2>1, <2>3 DEF OwnerRefs
<1>2. ChooseOwner(refs) \subseteq refs
  BY DEF ChooseOwner, FirstOf
<1>3. CASE ChooseOwner(refs) = {}
  BY <1>2, <1>3, FS_EmptySet
<1>4. CASE ChooseOwner(refs) # {}
  <2>1. PICK r : r \in ChooseOwner(refs)
    BY <1>4
  <2>2. ChooseOwner(refs) = {r}
    BY <1>1, <2>1
  <2> QED
    BY <1>2, <2>2, FS_Singleton
<1> QED
  BY <1>3, <1>4

-----------------------------------------------------------------------------
(* What following the owners finds. *)

\* Lemma: induction over the natural numbers, for a set that stands for the property.
LEMMA Induction ==
    ASSUME NEW S, 0 \in S, \A n \in Nat : n \in S => n + 1 \in S
    PROVE  Nat \subseteq S
<1> DEFINE R == OpToRel(<, Nat)
           T == Nat \ S
<1>1. IsWellFoundedOn(R, Nat)
  BY NatLessThanWellFounded, Zenon
<1>2. \A x, y \in Nat : y < x => <<y, x>> \in R
  BY DEF OpToRel
<1> HIDE DEF R
<1>3. SUFFICES ASSUME T # {} PROVE FALSE
  OBVIOUS
<1>4. \E x \in T : \A y \in T : ~(<<y, x>> \in R)
  <2>1. T \subseteq Nat
    OBVIOUS
  <2> HIDE DEF T
  <2> QED
    BY <1>1, <1>3, <2>1, WFMin
<1>5. PICK x \in T : \A y \in T : ~(<<y, x>> \in R)
  BY <1>4
<1>6. x # 0 /\ x - 1 \in Nat /\ x - 1 < x
  OBVIOUS
<1>7. x - 1 \in S
  BY <1>2, <1>5, <1>6
<1>8. (x - 1) + 1 \in S
  BY <1>6, <1>7
<1> QED
  BY <1>8

\* Lemma: a set of numbers that is not empty has a smallest element.
LEMMA Smallest ==
    ASSUME NEW T, T \subseteq Nat, T # {}
    PROVE  \E x \in T : \A y \in T : x <= y
<1> DEFINE S == {n \in Nat : \A y \in T : n <= y}
<1>1. SUFFICES ASSUME ~ \E x \in T : \A y \in T : x <= y
               PROVE  FALSE
  OBVIOUS
<1>2. 0 \in S
  OBVIOUS
<1>3. ASSUME NEW n \in Nat, n \in S
      PROVE  n + 1 \in S
  <2>1. n \notin T
    BY <1>1, <1>3
  <2>2. \A y \in T : n <= y /\ n # y /\ y \in Nat
    BY <1>3, <2>1
  <2> QED
    BY <2>2
<1> HIDE DEF S
<1>4. Nat \subseteq S
  BY <1>2, <1>3, Induction
<1>5. PICK t \in T : t \in Nat
  OBVIOUS
<1>6. t + 1 \in S
  BY <1>4, <1>5
<1> QED
  BY <1>5, <1>6 DEF S

\* Lemma: where there is an owner reference one is chosen.
LEMMA OwnerIsChosen ==
    ASSUME NEW refs, refs \subseteq OwnerRefs
    PROVE  ChooseOwner(refs) = {} <=> refs = {}
<1>1. ASSUME NEW X, X \subseteq refs, X # {}
      PROVE  FirstOf(X) # {}
  <2> DEFINE T == {r.uid : r \in X}
  <2>1. T \subseteq Nat /\ T # {}
    BY <1>1 DEF OwnerRefs
  <2>2. PICK n \in T : \A y \in T : n <= y
    <3> HIDE DEF T
    <3> QED
      BY <2>1, Smallest
  <2>3. PICK r \in X : r.uid = n
    BY <2>2
  <2>4. r \in FirstOf(X)
    BY <2>2, <2>3 DEF FirstOf
  <2> QED
    BY <2>4
<1>2. ASSUME refs # {}
      PROVE  ChooseOwner(refs) # {}
  <2> DEFINE C == {r \in refs : r.controller}
             X == IF C # {} THEN C ELSE refs
  <2>1. X \subseteq refs /\ X # {}
    BY <1>2
  <2>2. ChooseOwner(refs) = FirstOf(X)
    BY DEF ChooseOwner
  <2> HIDE DEF X
  <2> QED
    BY <1>1, <2>1, <2>2
<1>3. ASSUME refs = {}
      PROVE  ChooseOwner(refs) = {}
  BY <1>3 DEF ChooseOwner, FirstOf
<1> QED
  BY <1>2, <1>3

\* The equation of the recursive definition inside After.
Equation(p, n, f) ==
    f = [i \in 1 .. n |->
            {r.uid : r \in IF i = 1 THEN ChooseOwner(p.owners)
                           ELSE UNION {ChooseOwner(cluster.workloads[w]) : w \in f[i - 1]}}
            \cap DOMAIN cluster.workloads]

\* The workloads that the owners of pod p and of the workloads X lead to in one step.
FromPod(p) == {r.uid : r \in ChooseOwner(p.owners)} \cap DOMAIN cluster.workloads
FromAll(X) == {r.uid : r \in UNION {ChooseOwner(cluster.workloads[w]) : w \in X}}
              \cap DOMAIN cluster.workloads

\* The same equation, step by step.
Steps(p, n, f) == f = [i \in 1 .. n |-> IF i = 1 THEN FromPod(p) ELSE FromAll(f[i - 1])]

\* Lemma: for every number of steps there is a function that satisfies the equation.
LEMMA StepsExist ==
    ASSUME NEW p, NEW n \in Nat
    PROVE  \E f : Steps(p, n, f)
<1> DEFINE S == {m \in Nat : \E f : Steps(p, m, f)}
<1>1. 0 \in S
  <2>1. Steps(p, 0, [i \in 1 .. 0 |-> {}])
    BY DEF Steps
  <2> QED
    BY <2>1
<1>2. ASSUME NEW m \in Nat, m \in S
      PROVE  m + 1 \in S
  <2>1. PICK f : Steps(p, m, f)
    BY <1>2
  <2> DEFINE g == [i \in 1 .. m + 1 |-> IF i = 1 THEN FromPod(p) ELSE FromAll(f[i - 1])]
  <2>2. \A i \in 1 .. m : g[i] = f[i]
    BY <2>1 DEF Steps
  <2>3. \A i \in 1 .. m + 1 : i # 1 => g[i - 1] = f[i - 1]
    BY <2>2
  <2>4. \A i \in 1 .. m + 1 : g[i] = IF i = 1 THEN FromPod(p) ELSE FromAll(g[i - 1])
    BY <2>3
  <2>5. Steps(p, m + 1, g)
    <3> DEFINE h == [i \in 1 .. m + 1 |-> IF i = 1 THEN FromPod(p) ELSE FromAll(g[i - 1])]
    <3>1. \A i \in 1 .. m + 1 : g[i] = h[i]
      BY <2>4
    <3>2. g = h
      BY <3>1
    <3> QED
      BY <3>2 DEF Steps
  <2> QED
    BY <2>5
<1> HIDE DEF S
<1>3. Nat \subseteq S
  BY <1>1, <1>2, Induction
<1> QED
  BY <1>3 DEF S

\* Lemma: After is what such a function collects.
LEMMA AfterCollects ==
    ASSUME NEW p, NEW n \in Nat
    PROVE  \E f : Steps(p, n, f) /\ After(p, n) = UNION {f[i] : i \in 1 .. n}
<1> DEFINE found == CHOOSE f : Equation(p, n, f)
<1>1. \A f : Steps(p, n, f) <=> Equation(p, n, f)
  BY DEF Steps, Equation, FromPod, FromAll
<1>2. Equation(p, n, found)
  BY <1>1, StepsExist
<1>3. After(p, n) = UNION {found[i] : i \in 1 .. n}
  BY Zenon DEF After, Equation
<1> QED
  BY <1>1, <1>2, <1>3

-----------------------------------------------------------------------------
(* The chain of a pod. *)

\* The references from which the i-th workload of chain c of pod p is taken.
Refs(p, c, i) == ChooseOwner(IF i = 1 THEN p.owners ELSE cluster.workloads[c[i - 1]])

\* Chain c is what the walk from pod p has passed, and it is all that it will pass.
Along(p, c) == /\ c \in Seq(DOMAIN cluster.workloads)
               /\ \A i \in 1 .. Len(c) : \E r \in Refs(p, c, i) : r.uid = c[i]

Whole(p, c) ==
    \/ Len(c) = MaxOwnerDepth
    \/ \A r \in Refs(p, c, Len(c) + 1) :
          r.uid \in DOMAIN cluster.workloads => r.uid \in {c[i] : i \in 1 .. Len(c)}

Owners(p) == After(p, MaxOwnerDepth)
Near(p)   == After(p, Least(MaxWorkloadsPerPod, MaxOwnerDepth))
HasTop(p) == \E top \in Owners(p) : cluster.workloads[top] = {}


\* Lemma: the owners of a pod and of a workload are references.
LEMMA OwnersAreRefs ==
    ASSUME cluster \in Clusters
    PROVE  /\ \A p \in cluster.pods : p.owners \subseteq OwnerRefs /\ p.id # 0
           /\ \A w \in DOMAIN cluster.workloads : cluster.workloads[w] \subseteq OwnerRefs
BY ClustersAssumption

\* Lemma: two owner references that are chosen are the same.
LEMMA ChosenAreSame ==
    ASSUME NEW refs, refs \subseteq OwnerRefs, NEW r \in ChooseOwner(refs), NEW x \in ChooseOwner(refs)
    PROVE  r = x
<1>1. r \in OwnerRefs /\ x \in OwnerRefs /\ r.controller = x.controller
  BY DEF ChooseOwner, FirstOf, OwnerRefs
<1>2. r.uid <= x.uid /\ x.uid <= r.uid
  BY DEF ChooseOwner, FirstOf
<1>3. r.uid = x.uid
  BY <1>1, <1>2 DEF OwnerRefs
<1> QED
  BY <1>1, <1>3 DEF OwnerRefs

\* Lemma: the next workload of a chain is all that its references lead to.
LEMMA NextOfChain ==
    ASSUME cluster \in Clusters, NEW p \in cluster.pods, NEW c, Along(p, c), NEW i \in 1 .. Len(c)
    PROVE  /\ i = 1 => FromPod(p) = {c[i]}
           /\ i # 1 => FromAll({c[i - 1]}) = {c[i]}
           /\ c[i] \in DOMAIN cluster.workloads
           /\ Refs(p, c, i) # {}
<1>1. Len(c) \in Nat /\ \A j \in 1 .. Len(c) : c[j] \in DOMAIN cluster.workloads
  BY DEF Along
<1> DEFINE refs == IF i = 1 THEN p.owners ELSE cluster.workloads[c[i - 1]]
<1>2. refs \subseteq OwnerRefs
  <2>1. i # 1 => i - 1 \in 1 .. Len(c)
    BY <1>1
  <2> QED
    BY <1>1, <2>1, ClustersAssumption
<1>3. PICK r \in ChooseOwner(refs) : r.uid = c[i]
  BY DEF Along, Refs
<1>4. {x.uid : x \in ChooseOwner(refs)} = {c[i]}
  <2> HIDE DEF refs
  <2> QED
    BY <1>2, <1>3, ChosenAreSame
<1>5. {x.uid : x \in ChooseOwner(refs)} \cap DOMAIN cluster.workloads = {c[i]}
  BY <1>1, <1>4
<1>6. ASSUME i # 1 PROVE FromAll({c[i - 1]}) = {c[i]}
  <2>1. UNION {ChooseOwner(cluster.workloads[w]) : w \in {c[i - 1]}} = ChooseOwner(refs)
    BY <1>6
  <2> QED
    BY <1>5, <2>1 DEF FromAll
<1>7. ASSUME i = 1 PROVE FromPod(p) = {c[i]}
  BY <1>5, <1>7 DEF FromPod
<1> QED
  BY <1>1, <1>3, <1>6, <1>7 DEF Refs

\* Lemma: step by step, following the owners finds the chain.
LEMMA StepsFollowChain ==
    ASSUME cluster \in Clusters, NEW p \in cluster.pods, NEW c, Along(p, c),
           NEW n \in Nat, NEW f, Steps(p, n, f)
    PROVE  \A i \in 1 .. n : i <= Len(c) => f[i] = {c[i]}
<1> DEFINE S == {m \in Nat : m + 1 <= n /\ m + 1 <= Len(c) => f[m + 1] = {c[m + 1]}}
<1>0. Len(c) \in Nat
  BY DEF Along
<1>1. \A i \in 1 .. n : f[i] = IF i = 1 THEN FromPod(p) ELSE FromAll(f[i - 1])
  BY DEF Steps
<1>2. 0 \in S
  <2>1. SUFFICES ASSUME 1 <= n, 1 <= Len(c)
                 PROVE  f[1] = {c[1]}
    OBVIOUS
  <2>2. 1 \in 1 .. n /\ 1 \in 1 .. Len(c)
    BY <1>0, <2>1
  <2>3. FromPod(p) = {c[1]}
    BY <2>2, NextOfChain
  <2> QED
    BY <1>1, <2>2, <2>3
<1>3. ASSUME NEW m \in Nat, m \in S
      PROVE  m + 1 \in S
  <2>1. SUFFICES ASSUME m + 2 <= n, m + 2 <= Len(c)
                 PROVE  f[m + 2] = {c[m + 2]}
    BY <1>0
  <2>2. f[m + 1] = {c[m + 1]}
    BY <1>0, <1>3, <2>1
  <2>3. m + 2 \in 1 .. n /\ m + 2 \in 1 .. Len(c) /\ m + 2 # 1 /\ (m + 2) - 1 = m + 1
    BY <1>0, <2>1
  <2>4. f[m + 2] = FromAll(f[m + 1])
    BY <1>1, <2>3
  <2>5. FromAll({c[m + 1]}) = {c[m + 2]}
    BY <2>3, NextOfChain
  <2> QED
    BY <2>2, <2>4, <2>5
<1> HIDE DEF S
<1>4. Nat \subseteq S
  BY <1>2, <1>3, Induction
<1>5. ASSUME NEW i \in 1 .. n, i <= Len(c)
      PROVE  f[i] = {c[i]}
  <2>1. i - 1 \in S /\ (i - 1) + 1 = i
    BY <1>4
  <2> QED
    BY <1>5, <2>1 DEF S
<1> QED
  BY <1>5

\* Lemma: following the owners further than a chain that is whole finds nothing new.
LEMMA StepsStayInChain ==
    ASSUME cluster \in Clusters, NEW p \in cluster.pods, NEW c, Along(p, c), Whole(p, c),
           Len(c) # MaxOwnerDepth, NEW n \in Nat, NEW f, Steps(p, n, f)
    PROVE  \A i \in 1 .. n : f[i] \subseteq {c[j] : j \in 1 .. Len(c)}
<1> DEFINE C == {c[j] : j \in 1 .. Len(c)}
           S == {m \in Nat : m + 1 <= n => f[m + 1] \subseteq C}
<1>0. Len(c) \in Nat
  BY DEF Along
<1>1. \A i \in 1 .. n : f[i] = IF i = 1 THEN FromPod(p) ELSE FromAll(f[i - 1])
  BY DEF Steps
<1>2. \A r \in Refs(p, c, Len(c) + 1) : r.uid \in DOMAIN cluster.workloads => r.uid \in C
  BY DEF Whole
<1>3. FromPod(p) \subseteq C
  <2>1. CASE Len(c) = 0
    BY <1>2, <2>1 DEF Refs, FromPod
  <2>2. CASE Len(c) # 0
    <3>1. 1 \in 1 .. Len(c)
      BY <1>0, <2>2
    <3>2. FromPod(p) = {c[1]}
      BY <3>1, NextOfChain
    <3> QED
      BY <3>1, <3>2
  <2> QED
    BY <2>1, <2>2
<1>4. ASSUME NEW j \in 1 .. Len(c)
      PROVE  {r.uid : r \in ChooseOwner(cluster.workloads[c[j]])} \cap DOMAIN cluster.workloads \subseteq C
  <2>1. CASE j = Len(c)
    BY <1>0, <1>2, <2>1 DEF Refs
  <2>2. CASE j # Len(c)
    <3>1. j + 1 \in 1 .. Len(c) /\ j + 1 # 1 /\ (j + 1) - 1 = j
      BY <1>0, <2>2
    <3>2. FromAll({c[j]}) = {c[j + 1]}
      BY <3>1, NextOfChain
    <3> QED
      BY <3>1, <3>2 DEF FromAll
  <2> QED
    BY <2>1, <2>2
<1>5. ASSUME NEW X, X \subseteq C
      PROVE  FromAll(X) \subseteq C
  <2>1. SUFFICES ASSUME NEW u \in FromAll(X) PROVE u \in C
    OBVIOUS
  <2>2. PICK w \in X : u \in {r.uid : r \in ChooseOwner(cluster.workloads[w])} \cap DOMAIN cluster.workloads
    BY <2>1 DEF FromAll
  <2>3. PICK j \in 1 .. Len(c) : w = c[j]
    BY <1>5
  <2> QED
    BY <1>4, <2>2, <2>3
<1> HIDE DEF C
<1>6. 0 \in S
  BY <1>1, <1>3
<1>7. ASSUME NEW m \in Nat, m \in S
      PROVE  m + 1 \in S
  <2>1. SUFFICES ASSUME m + 2 <= n PROVE f[m + 2] \subseteq C
    OBVIOUS
  <2>2. m + 2 \in 1 .. n /\ m + 2 # 1 /\ (m + 2) - 1 = m + 1
    BY <2>1
  <2>3. f[m + 2] = FromAll(f[m + 1])
    BY <1>1, <2>2
  <2>4. f[m + 1] \subseteq C
    BY <1>7, <2>1
  <2> QED
    BY <1>5, <2>3, <2>4
<1> HIDE DEF S
<1>8. Nat \subseteq S
  BY <1>6, <1>7, Induction
<1>9. ASSUME NEW i \in 1 .. n
      PROVE  f[i] \subseteq C
  <2>1. i - 1 \in S /\ (i - 1) + 1 = i
    BY <1>8
  <2> QED
    BY <2>1 DEF S
<1> QED
  BY <1>9 DEF C

\* Lemma: what following the owners of a pod for n steps finds is the first n workloads of
\* its whole chain.
LEMMA AfterIsChain ==
    ASSUME cluster \in Clusters, NEW p \in cluster.pods, NEW c, Along(p, c), Whole(p, c),
           NEW n \in Nat, n <= MaxOwnerDepth
    PROVE  After(p, n) = {c[i] : i \in 1 .. Least(n, Len(c))}
<1>0. Len(c) \in Nat /\ MaxOwnerDepth \in Nat
  BY LimitsAssumption DEF Along
<1>1. PICK f : Steps(p, n, f) /\ After(p, n) = UNION {f[i] : i \in 1 .. n}
  BY AfterCollects
<1>2. \A i \in 1 .. n : i <= Len(c) => f[i] = {c[i]}
  BY <1>1, StepsFollowChain
<1>3. CASE n <= Len(c)
  BY <1>0, <1>1, <1>2, <1>3 DEF Least
<1>4. CASE ~(n <= Len(c))
  <2>1. \A i \in 1 .. n : f[i] \subseteq {c[j] : j \in 1 .. Len(c)}
    BY <1>0, <1>1, <1>4, StepsStayInChain
  <2>2. \A i \in 1 .. Len(c) : i \in 1 .. n /\ f[i] = {c[i]}
    BY <1>0, <1>2, <1>4
  <2>3. Least(n, Len(c)) = Len(c)
    BY <1>4 DEF Least
  <2> QED
    BY <1>1, <2>1, <2>2, <2>3
<1> QED
  BY <1>3, <1>4

\* Lemma: a chain without repetitions has as many workloads as it is long.
LEMMA ChainCount ==
    ASSUME NEW S, NEW c \in Seq(S), \A i, j \in DOMAIN c : c[i] = c[j] => i = j
    PROVE  Cardinality({c[i] : i \in 1 .. Len(c)}) = Len(c)
<1> DEFINE I == 1 .. Len(c)
           C == {c[i] : i \in I}
           f == [i \in I |-> c[i]]
<1>1. Len(c) \in Nat /\ DOMAIN c = I
  OBVIOUS
<1>2. IsFiniteSet(I) /\ Cardinality(I) = Len(c)
  <2>1. 1 \in Int /\ Len(c) \in Int
    BY <1>1
  <2>2. IsFiniteSet(I) /\ Cardinality(I) = IF 1 > Len(c) THEN 0 ELSE Len(c) - 1 + 1
    BY <2>1, FS_Interval
  <2> QED
    BY <1>1, <2>2
<1>3. f \in [I -> C] /\ (\A i, j \in I : f[i] = f[j] => i = j) /\ \A x \in C : \E i \in I : f[i] = x
  BY <1>1
<1> HIDE DEF I, C, f
<1>4. Cardinality(C) = Cardinality(I)
  BY <1>2, <1>3, SameSize
<1> QED
  BY <1>2, <1>4 DEF C, I

\* Lemma: a whole chain has reached its top when it is not empty and nothing comes next.
LEMMA TopOfChain ==
    ASSUME cluster \in Clusters, NEW p \in cluster.pods, NEW c, Along(p, c), Whole(p, c),
           Len(c) <= MaxOwnerDepth
    PROVE  HasTop(p) <=> Len(c) # 0 /\ Refs(p, c, Len(c) + 1) = {}
<1>0. Len(c) \in Nat /\ MaxOwnerDepth \in Nat
  BY LimitsAssumption DEF Along
<1>1. Owners(p) = {c[i] : i \in 1 .. Len(c)}
  <2>1. Least(MaxOwnerDepth, Len(c)) = Len(c)
    BY <1>0 DEF Least
  <2>2. Owners(p) = {c[i] : i \in 1 .. Least(MaxOwnerDepth, Len(c))}
    BY <1>0, AfterIsChain DEF Owners
  <2> QED
    BY <2>1, <2>2
<1>2. ASSUME NEW i \in 1 .. Len(c)
      PROVE  cluster.workloads[c[i]] = {} <=> Refs(p, c, i + 1) = {}
  <2>1. c[i] \in DOMAIN cluster.workloads
    BY NextOfChain
  <2>2. cluster.workloads[c[i]] \subseteq OwnerRefs
    BY <2>1, OwnersAreRefs
  <2>3. Refs(p, c, i + 1) = ChooseOwner(cluster.workloads[c[i]])
    BY DEF Refs
  <2> QED
    BY <2>2, <2>3, OwnerIsChosen
<1>3. \A i \in 1 .. Len(c) : i # Len(c) => Refs(p, c, i + 1) # {}
  <2> TAKE i \in 1 .. Len(c)
  <2>1. i # Len(c) => i + 1 \in 1 .. Len(c)
    BY <1>0
  <2> QED
    BY <2>1, NextOfChain
<1>4. HasTop(p) <=> \E i \in 1 .. Len(c) : cluster.workloads[c[i]] = {}
  BY <1>1 DEF HasTop
<1>5. HasTop(p) <=> \E i \in 1 .. Len(c) : i = Len(c) /\ Refs(p, c, i + 1) = {}
  BY <1>2, <1>3, <1>4
<1> QED
  BY <1>0, <1>5

-----------------------------------------------------------------------------
(* The invariant. *)

\* The chain so far is made of different workloads, with room for another one while an
\* owner is left.
WalkOK ==
    /\ pod = 0 => chain = << >> /\ owner = {}
    /\ chain \in Seq(DOMAIN cluster.workloads)
    /\ \A i, j \in DOMAIN chain : chain[i] = chain[j] => i = j
    /\ Len(chain) <= MaxOwnerDepth
    /\ owner # {} => Len(chain) < MaxOwnerDepth
    /\ owner \subseteq OwnerRefs /\ Cardinality(owner) <= 1

First(s) == FirstPods(PodsOf(accounts[s]), MaxPodsPerSubject)
Drawn(s) == {e \in runsAs : e[1] = s}
Hidden(s) == {h \in hiddenPods : h[1] = s}
Edges(s, P) == {<<s, p.id>> : p \in P}

\* What has been drawn for a subject whose turn has not come, that is being expanded,
\* that is done.
Untouched(s) == Drawn(s) = {} /\ Hidden(s) = {}

UnderWay(s) == /\ podsLeft \subseteq First(s)
               /\ Drawn(s) = Edges(s, First(s) \ podsLeft)
               /\ Hidden(s) = {}

Overflow(s) ==
    LET all == Cardinality(PodsOf(accounts[s])) IN
    IF all > MaxPodsPerSubject THEN {<<s, all - MaxPodsPerSubject>>} ELSE {}

Done(s) == Drawn(s) = Edges(s, First(s)) /\ Hidden(s) = Overflow(s)

SubjectsOK ==
    /\ uses \subseteq cluster.uses
    /\ todo \subseteq DOMAIN accounts
    /\ None \notin DOMAIN accounts
    /\ subject \in DOMAIN accounts \cup {None}
    /\ subject \notin todo
    /\ uses # {} => subject = None /\ todo = DOMAIN accounts /\ runsAs = {} /\ hiddenPods = {}
    /\ subject = None => podsLeft = {} /\ pod = 0
    /\ subject # None => UnderWay(subject)
    /\ \A s \in todo : Untouched(s)
    /\ \A s \in DOMAIN accounts \ (todo \cup {subject}) : Done(s)

Inv == cluster \in Clusters /\ podsLeft \subseteq cluster.pods /\ WalkOK /\ SubjectsOK

\* Lemma: the pods of an account can be sorted.
LEMMA PodsSortable ==
    ASSUME cluster \in Clusters, NEW a
    PROVE  Sortable(PodsOf(a)) /\ PodsOf(a) \subseteq cluster.pods
<1>1. PodsOf(a) \in SUBSET cluster.pods
  BY DEF PodsOf
<1>2. IsFiniteSet(PodsOf(a))
  BY <1>1, ClustersAssumption, FS_Subset
<1> QED
  BY <1>1, <1>2, ClustersAssumption DEF Sortable

\* Lemma: the invariant holds at the start.
LEMMA InitInv == Init => Inv
<1> SUFFICES ASSUME Init PROVE Inv
  OBVIOUS
<1> USE DEF Init
<1>1. WalkOK
  BY FS_EmptySet, LimitsAssumption DEF WalkOK
<1>2. SubjectsOK
  BY DEF SubjectsOK, UsesInScope
<1> QED
  BY <1>1, <1>2 DEF Inv

\* Lemma: tracking a subject keeps the invariant.
LEMMA TrackInv ==
    ASSUME Inv, Track
    PROVE  Inv'
<1>1. PICK u \in uses :
        /\ uses' = uses \ {u}
        /\ accounts' = [k \in DOMAIN accounts \cup {SubjectID(u)} |->
                           IF k = SubjectID(u) THEN Account(u) ELSE accounts[k]]
        /\ todo' = todo \cup {SubjectID(u)}
  BY DEF Track
<1>2. UNCHANGED <<cluster, subject, podsLeft, pod, owner, chain, runsAs, hiddenPods>>
  BY DEF Track, request, walk, drawn
<1>3. SubjectID(u) # None
  BY ClustersAssumption DEF Inv, SubjectsOK
<1>4. /\ subject = None /\ runsAs = {} /\ hiddenPods = {} /\ todo = DOMAIN accounts
      /\ uses \subseteq cluster.uses /\ None \notin DOMAIN accounts /\ podsLeft = {} /\ pod = 0
  BY <1>1 DEF Inv, SubjectsOK
<1>5. DOMAIN accounts' = todo'
  BY <1>1, <1>4
<1>6. SubjectsOK'
  BY <1>1, <1>2, <1>3, <1>4, <1>5 DEF SubjectsOK, Untouched, Drawn, Hidden
<1>7. WalkOK'
  BY <1>2 DEF Inv, WalkOK
<1> QED
  BY <1>2, <1>6, <1>7 DEF Inv

\* Lemma: an account that is passed over has no pods.
LEMMA SkippedHasNoPods ==
    ASSUME cluster \in Clusters, NEW a,
           \/ a.ns = Cluster
           \/ ~AllowNamespace(Filter, a.ns, scope.strict)
           \/ PodsOf(a) = {}
    PROVE  PodsOf(a) = {}
<1>1. \A p \in PodsOf(a) : /\ p \in cluster.pods /\ p.ns = a.ns
                           /\ AllowNamespace(Filter, a.ns, scope.strict)
  BY DEF PodsOf
<1>2. \A p \in cluster.pods : p.ns # Cluster
  BY ClustersAssumption
<1> QED
  BY <1>1, <1>2

\* Lemma: of no pods none is drawn and none is hidden.
LEMMA NoPodsIsDone ==
    ASSUME NEW s, PodsOf(accounts[s]) = {}, Untouched(s)
    PROVE  Done(s)
<1>1. First(s) = {}
  BY DEF First, FirstPods
<1>2. Cardinality(PodsOf(accounts[s])) = 0
  BY FS_EmptySet
<1>3. Overflow(s) = {}
  BY <1>2, LimitsAssumption DEF Overflow
<1>4. Edges(s, First(s)) = {}
  BY <1>1 DEF Edges
<1> QED
  BY <1>3, <1>4 DEF Done, Untouched

\* What the subjects are judged by.
Judged == <<cluster, scope, phases, accounts>>

\* Lemma: as long as that stays, the judgements depend on what is drawn alone.
LEMMA JudgedAlike ==
    ASSUME UNCHANGED Judged, NEW s
    PROVE  PodsOf(accounts[s])' = PodsOf(accounts[s]) /\ First(s)' = First(s) /\ Overflow(s)' = Overflow(s)
BY DEF Judged, PodsOf, Filter, First, FirstPods, Overflow

\* Lemma: passing a subject over keeps the invariant.
LEMMA SkipSubjectInv ==
    ASSUME Inv, SkipSubject
    PROVE  Inv'
<1>1. PICK s \in todo : /\ \/ accounts[s].ns = Cluster
                           \/ ~AllowNamespace(Filter, accounts[s].ns, scope.strict)
                           \/ PodsOf(accounts[s]) = {}
                        /\ todo' = todo \ {s}
  BY DEF SkipSubject
<1>2. UNCHANGED <<Judged, uses, subject, podsLeft, pod, owner, chain, runsAs, hiddenPods>>
  BY DEF SkipSubject, request, walk, drawn, Judged
<1>3. uses = {} /\ subject = None
  BY DEF SkipSubject, Idle
<1>4. Done(s)
  BY <1>1, SkippedHasNoPods, NoPodsIsDone DEF Inv, SubjectsOK
<1>5. \A x : /\ Done(x) => Done(x)'
             /\ Untouched(x) => Untouched(x)'
  BY <1>2, JudgedAlike DEF Done, Untouched, Drawn, Hidden, Edges
<1>6. SubjectsOK'
  BY <1>1, <1>2, <1>3, <1>4, <1>5 DEF Inv, SubjectsOK, Judged
<1>7. WalkOK'
  BY <1>2 DEF Inv, WalkOK, Judged
<1> QED
  BY <1>2, <1>6, <1>7 DEF Inv, Judged

\* Lemma: starting with a subject keeps the invariant.
LEMMA StartSubjectInv ==
    ASSUME Inv, StartSubject
    PROVE  Inv'
<1>1. PICK s \in todo : /\ todo' = todo \ {s}
                        /\ subject' = s
                        /\ podsLeft' = First(s)
  BY DEF StartSubject, First
<1>2. UNCHANGED <<Judged, uses, pod, owner, chain, runsAs, hiddenPods>>
  BY DEF StartSubject, request, walk, drawn, Judged
<1>3. uses = {} /\ subject = None
  BY DEF StartSubject, Idle
<1>4. First(s)' = First(s)
  BY <1>2, JudgedAlike
<1>5. UnderWay(s)'
  <2>1. Drawn(s)' = {} /\ Hidden(s)' = {}
    BY <1>1, <1>2 DEF Inv, SubjectsOK, Untouched, Drawn, Hidden
  <2>2. Edges(s, First(s)' \ podsLeft') = {}
    BY <1>1, <1>4 DEF Edges
  <2> QED
    BY <1>1, <1>4, <2>1, <2>2 DEF UnderWay, Edges
<1>6. \A x : /\ Done(x) => Done(x)'
             /\ Untouched(x) => Untouched(x)'
  BY <1>2, JudgedAlike DEF Done, Untouched, Drawn, Hidden, Edges
<1>7. SubjectsOK'
  BY <1>1, <1>2, <1>3, <1>5, <1>6 DEF Inv, SubjectsOK, Judged
<1>8. WalkOK'
  BY <1>2 DEF Inv, WalkOK, Judged
<1>9. First(s) \subseteq cluster.pods
  BY PodsSortable DEF Inv, First, FirstPods
<1> QED
  BY <1>1, <1>2, <1>7, <1>8, <1>9 DEF Inv, Judged

\* Lemma: a step that leaves the subjects alone keeps what is said of them.
LEMMA SubjectsKept ==
    ASSUME SubjectsOK, UNCHANGED <<Judged, uses, todo, subject, podsLeft, runsAs, hiddenPods>>,
           subject = None => pod' = 0
    PROVE  SubjectsOK'
<1>1. \A x : /\ Done(x) => Done(x)'
             /\ Untouched(x) => Untouched(x)'
  BY JudgedAlike DEF Done, Untouched, Drawn, Hidden, Edges
<1>2. subject # None => UnderWay(subject)'
  BY JudgedAlike DEF SubjectsOK, UnderWay, Drawn, Hidden, Edges
<1> QED
  BY <1>1, <1>2 DEF SubjectsOK, Judged

\* Lemma: drawing a pod keeps the invariant.
LEMMA DrawPodInv ==
    ASSUME Inv, DrawPod
    PROVE  Inv'
<1>1. PICK p \in podsLeft :
        /\ podsLeft' = podsLeft \ {p}
        /\ runsAs' = runsAs \cup {<<subject, p.id>>}
        /\ \/ pod' = p.id /\ owner' = ChooseOwner(p.owners)
           \/ UNCHANGED <<pod, owner>>
  BY DEF DrawPod
<1>2. UNCHANGED <<Judged, uses, todo, subject, chain, hiddenPods>>
  BY DEF DrawPod, request, Judged
<1>3. subject # None /\ pod = 0
  BY DEF DrawPod
<1>4. uses = {} /\ subject \in DOMAIN accounts /\ UnderWay(subject) /\ p \in First(subject)
  BY <1>1, <1>3 DEF Inv, SubjectsOK, UnderWay
<1>5. UnderWay(subject)'
  <2>1. First(subject)' = First(subject)
    BY <1>2, JudgedAlike DEF First, Judged
  <2>2. Drawn(subject)' = Drawn(subject) \cup {<<subject, p.id>>}
    BY <1>1, <1>2 DEF Drawn
  <2>3. First(subject) \ podsLeft' = (First(subject) \ podsLeft) \cup {p}
    BY <1>1, <1>4
  <2>4. Edges(subject, First(subject) \ podsLeft') = Drawn(subject) \cup {<<subject, p.id>>}
    BY <1>4, <2>3 DEF Edges, UnderWay
  <2>5. Hidden(subject)' = {}
    BY <1>2, <1>4 DEF Hidden, UnderWay
  <2>6. podsLeft' \subseteq First(subject)
    BY <1>1, <1>4 DEF UnderWay
  <2>7. subject' = subject
    BY <1>2
  <2> QED
    BY <2>1, <2>2, <2>4, <2>5, <2>6, <2>7 DEF UnderWay, Edges
<1>6. ASSUME NEW x, x # subject
      PROVE  (Done(x) => Done(x)') /\ (Untouched(x) => Untouched(x)')
  <2>1. Drawn(x)' = Drawn(x) /\ Hidden(x)' = Hidden(x)
    BY <1>1, <1>2, <1>6 DEF Drawn, Hidden
  <2> QED
    BY <1>2, <2>1, JudgedAlike DEF Done, Untouched, Edges
<1>7. SubjectsOK'
  BY <1>2, <1>3, <1>4, <1>5, <1>6 DEF Inv, SubjectsOK, Judged
<1>8. p \in cluster.pods
  BY <1>1 DEF Inv
<1>9. WalkOK'
  <2>1. chain = << >> /\ owner = {} /\ cluster' = cluster /\ chain' = chain
    BY <1>2, <1>3 DEF Inv, WalkOK, Judged
  <2>2. CASE pod' = p.id /\ owner' = ChooseOwner(p.owners)
    <3>1. owner' \subseteq OwnerRefs /\ Cardinality(owner') <= 1 /\ pod' # 0
      BY <1>8, <2>2, OwnersAreRefs, OneOwner DEF Inv
    <3>2. Len(chain') < MaxOwnerDepth
      BY <2>1, LimitsAssumption
    <3> QED
      BY <2>1, <3>1, <3>2 DEF Inv, WalkOK
  <2>3. CASE UNCHANGED <<pod, owner>>
    BY <2>1, <2>3 DEF Inv, WalkOK
  <2> QED
    BY <1>1, <2>2, <2>3
<1> QED
  BY <1>1, <1>2, <1>7, <1>9 DEF Inv, Judged

\* Lemma: a workload that the walk has not seen makes the chain longer by one.
LEMMA LongerChain ==
    ASSUME NEW S, NEW s \in Seq(S), NEW x \in S, x \notin {s[i] : i \in DOMAIN s},
           \A i, j \in DOMAIN s : s[i] = s[j] => i = j
    PROVE  /\ Append(s, x) \in Seq(S) /\ Len(Append(s, x)) = Len(s) + 1
           /\ \A i, j \in DOMAIN Append(s, x) : Append(s, x)[i] = Append(s, x)[j] => i = j
<1> DEFINE t == Append(s, x)
<1>1. t \in Seq(S) /\ Len(t) = Len(s) + 1 /\ Len(s) \in Nat /\ DOMAIN s = 1 .. Len(s)
      /\ DOMAIN t = 1 .. Len(s) + 1
  OBVIOUS
<1>2. \A i \in 1 .. Len(s) : t[i] = s[i]
  OBVIOUS
<1>3. t[Len(s) + 1] = x
  OBVIOUS
<1> HIDE DEF t
<1>4. \A i \in 1 .. Len(s) + 1 : i \in 1 .. Len(s) \/ i = Len(s) + 1
  BY <1>1
<1>5. \A i, j \in 1 .. Len(s) + 1 : t[i] = t[j] => i = j
  BY <1>1, <1>2, <1>3, <1>4
<1> QED
  BY <1>1, <1>5 DEF t

\* Lemma: one turn of the walk keeps the invariant.
LEMMA FollowOwnerInv ==
    ASSUME Inv, FollowOwner
    PROVE  Inv'
<1>1. PICK r \in owner :
        /\ chain' = Append(chain, r.uid)
        /\ owner' = IF Len(chain') = MaxOwnerDepth THEN {} ELSE ChooseOwner(cluster.workloads[r.uid])
  BY DEF FollowOwner
<1>2. UNCHANGED <<Judged, uses, todo, subject, podsLeft, pod, runsAs, hiddenPods>>
  BY DEF FollowOwner, request, drawn, Judged
<1>3. /\ r.uid \in DOMAIN cluster.workloads
      /\ r.uid \notin {chain[i] : i \in DOMAIN chain}
      /\ pod # 0
  BY DEF FollowOwner, Stuck
<1>4. SubjectsOK'
  BY <1>2, SubjectsKept DEF Inv, SubjectsOK
<1>5. WalkOK'
  <2>0. /\ chain \in Seq(DOMAIN cluster.workloads)
        /\ \A i, j \in DOMAIN chain : chain[i] = chain[j] => i = j
    BY DEF Inv, WalkOK
  <2>1. /\ chain' \in Seq(DOMAIN cluster.workloads)
        /\ Len(chain') = Len(chain) + 1
        /\ \A i, j \in DOMAIN chain' : chain'[i] = chain'[j] => i = j
    <3> DEFINE W == DOMAIN cluster.workloads
    <3>1. chain \in Seq(W) /\ r.uid \in W
      BY <1>3, <2>0
    <3> HIDE DEF W
    <3>2. /\ Append(chain, r.uid) \in Seq(W)
          /\ Len(Append(chain, r.uid)) = Len(chain) + 1
          /\ \A i, j \in DOMAIN Append(chain, r.uid) :
                Append(chain, r.uid)[i] = Append(chain, r.uid)[j] => i = j
      BY <1>3, <2>0, <3>1, LongerChain
    <3> QED
      BY <1>1, <3>2, Zenon DEF W
  <2>2. Len(chain) < MaxOwnerDepth /\ Len(chain) \in Nat /\ MaxOwnerDepth \in Nat
    BY LimitsAssumption DEF Inv, WalkOK
  <2>3. Len(chain') <= MaxOwnerDepth /\ (Len(chain') # MaxOwnerDepth => Len(chain') < MaxOwnerDepth)
    BY <2>1, <2>2
  <2>4. owner' \subseteq OwnerRefs /\ Cardinality(owner') <= 1
    <3>1. ChooseOwner(cluster.workloads[r.uid]) \subseteq OwnerRefs
          /\ Cardinality(ChooseOwner(cluster.workloads[r.uid])) <= 1
      BY <1>3, OwnersAreRefs, OneOwner DEF Inv
    <3> QED
      BY <1>1, <3>1, FS_EmptySet
  <2>5. owner' # {} => Len(chain') < MaxOwnerDepth
    BY <1>1, <2>3
  <2> QED
    BY <1>2, <1>3, <2>1, <2>3, <2>4, <2>5 DEF WalkOK, Judged
<1> QED
  BY <1>2, <1>4, <1>5 DEF Inv, Judged

\* Lemma: a walk that stops keeps the invariant.
LEMMA StopWalkInv ==
    ASSUME Inv, StopWalk
    PROVE  Inv'
<1>1. UNCHANGED <<Judged, uses, todo, subject, podsLeft, pod, chain, runsAs, hiddenPods>>
      /\ owner' = {} /\ pod # 0
  BY DEF StopWalk, request, drawn, Judged
<1>2. SubjectsOK'
  BY <1>1, SubjectsKept DEF Inv, SubjectsOK
<1>3. WalkOK'
  BY <1>1, FS_EmptySet DEF Inv, WalkOK, Judged
<1> QED
  BY <1>1, <1>2, <1>3 DEF Inv, Judged

\* Lemma: drawing the chain keeps the invariant.
LEMMA DrawChainInv ==
    ASSUME Inv, DrawChain
    PROVE  Inv'
<1>1. UNCHANGED <<Judged, uses, todo, subject, podsLeft, owner, runsAs, hiddenPods>>
      /\ pod' = 0 /\ chain' = << >> /\ owner = {}
  BY DEF DrawChain, request, Judged
<1>2. SubjectsOK'
  BY <1>1, SubjectsKept DEF Inv
<1>3. WalkOK'
  BY <1>1, LimitsAssumption, FS_EmptySet DEF Inv, WalkOK, Judged
<1> QED
  BY <1>1, <1>2, <1>3 DEF Inv, Judged

\* Lemma: finishing a subject keeps the invariant.
LEMMA FinishSubjectInv ==
    ASSUME Inv, FinishSubject
    PROVE  Inv'
<1>1. hiddenPods' = hiddenPods \cup Overflow(subject)
  BY DEF FinishSubject, Overflow
<1>2. UNCHANGED <<Judged, uses, todo, podsLeft, pod, owner, chain, runsAs>>
      /\ subject # None /\ subject' = None /\ podsLeft = {} /\ pod = 0
  BY DEF FinishSubject, request, walk, Judged
<1>3. uses = {} /\ subject \in DOMAIN accounts /\ UnderWay(subject)
  BY <1>2 DEF Inv, SubjectsOK
<1>4. \A h \in Overflow(subject) : h[1] = subject
  BY DEF Overflow
<1>5. ASSUME NEW s, s = subject PROVE Done(s)'
  <2>1. Drawn(s)' = Edges(s, First(s))
    <3>1. Drawn(s) = Edges(s, First(s) \ {})
      BY <1>2, <1>3, <1>5 DEF UnderWay
    <3>2. First(s) \ {} = First(s)
      OBVIOUS
    <3> QED
      BY <1>2, <3>1, <3>2 DEF Drawn
  <2>2. Hidden(s)' = Overflow(s)
    BY <1>1, <1>3, <1>4, <1>5 DEF Hidden, UnderWay
  <2> QED
    BY <1>2, <2>1, <2>2, JudgedAlike DEF Done, Edges
<1>6. ASSUME NEW x, x # subject
      PROVE  (Done(x) => Done(x)') /\ (Untouched(x) => Untouched(x)')
  <2>1. Drawn(x)' = Drawn(x) /\ Hidden(x)' = Hidden(x)
    BY <1>1, <1>2, <1>4, <1>6 DEF Drawn, Hidden
  <2> QED
    BY <1>2, <2>1, JudgedAlike DEF Done, Untouched, Edges
<1>7. SubjectsOK'
  BY <1>2, <1>3, <1>5, <1>6 DEF Inv, SubjectsOK, Judged
<1>8. WalkOK'
  BY <1>2 DEF Inv, WalkOK, Judged
<1> QED
  BY <1>2, <1>7, <1>8 DEF Inv, Judged

\* Lemma: the invariant holds always.
LEMMA AlwaysInv == Spec => []Inv
<1>1. Inv /\ UNCHANGED vars => Inv'
  <2> SUFFICES ASSUME Inv, UNCHANGED vars PROVE Inv'
    OBVIOUS
  <2>1. UNCHANGED <<Judged, uses, todo, subject, podsLeft, pod, owner, chain, runsAs, hiddenPods>>
    BY DEF vars, request, walk, drawn, Judged
  <2>2. SubjectsOK'
    BY <2>1, SubjectsKept DEF Inv, SubjectsOK
  <2>3. WalkOK'
    BY <2>1 DEF Inv, WalkOK, Judged
  <2> QED
    BY <2>1, <2>2, <2>3 DEF Inv, Judged
<1>2. Inv /\ [Next]_vars => Inv'
  BY <1>1, TrackInv, SkipSubjectInv, StartSubjectInv, DrawPodInv, FollowOwnerInv, StopWalkInv,
     DrawChainInv, FinishSubjectInv DEF Next
<1> QED
  BY <1>2, InitInv, PTL DEF Spec

-----------------------------------------------------------------------------
(* The workloads that are drawn and counted. *)

HiddenOf(p) == {h \in hiddenWorkloads : h[1] = p.id}
Uncounted(p) ==
    LET all == Cardinality(Owners(p)) IN
    IF all > MaxWorkloadsPerPod THEN {<<p.id, all - MaxWorkloadsPerPod>>} ELSE {}

\* The walk under way, before and after its last step.
Walking(p) ==
    /\ p.id = pod /\ p.id \in podSeen /\ Along(p, chain)
    /\ \/ owner # {} /\ owner = Refs(p, chain, Len(chain) + 1)
       \/ owner = {} /\ Whole(p, chain) /\ (p.id \in warned \/ HasTop(p))

\* What is left behind by a pod whose owners have been drawn.
Followed(p) == /\ p.id \in warned \/ HasTop(p)
               /\ HiddenOf(p) = Uncounted(p)
               /\ Near(p) \subseteq workloadSeen

OwnersOK ==
    /\ pod # 0 => \E p \in cluster.pods : Walking(p)
    /\ includeWorkloads => \A p \in PodsDrawn : p.id # pod => Followed(p)
    /\ \A p \in cluster.pods : /\ p.id \in warned => ~HasTop(p)
                               /\ HiddenOf(p) \subseteq Uncounted(p)
    /\ \A w \in workloadSeen : \E p \in PodsDrawn : w \in Near(p)


\* What the owners of a pod are judged by.
LEMMA OwnersJudgedAlike ==
    ASSUME UNCHANGED cluster
    PROVE  /\ \A p, n : After(p, n)' = After(p, n)
           /\ \A p : Owners(p)' = Owners(p) /\ Near(p)' = Near(p) /\ (HasTop(p)' <=> HasTop(p))
                     /\ Uncounted(p)' = Uncounted(p)
           /\ \A p, c : (Along(p, c)' <=> Along(p, c)) /\ (Whole(p, c)' <=> Whole(p, c))
           /\ \A p, c, i : Refs(p, c, i)' = Refs(p, c, i)
<1>1. \A p, n : After(p, n)' = After(p, n)
  BY DEF After
<1>2. \A p : Owners(p)' = Owners(p) /\ Near(p)' = Near(p)
  BY <1>1 DEF Owners, Near
<1>3. \A p : (HasTop(p)' <=> HasTop(p)) /\ Uncounted(p)' = Uncounted(p)
  BY <1>2 DEF HasTop, Uncounted
<1>4. \A p, c, i : Refs(p, c, i)' = Refs(p, c, i)
  BY DEF Refs
<1>5. \A p, c : (Along(p, c)' <=> Along(p, c)) /\ (Whole(p, c)' <=> Whole(p, c))
  BY <1>4 DEF Along, Whole
<1> QED
  BY <1>1, <1>2, <1>3, <1>4, <1>5

\* Lemma: a step of another kind keeps what is said of the workloads.
LEMMA OwnersKept ==
    ASSUME OwnersOK, UNCHANGED <<cluster, includeWorkloads, walk, hiddenWorkloads, warned, podSeen,
                                 workloadSeen>>
    PROVE  OwnersOK'
<1>1. UNCHANGED <<pod, owner, chain>> /\ PodsDrawn' = PodsDrawn
  BY DEF walk, PodsDrawn
<1>2. \A p : HiddenOf(p)' = HiddenOf(p)
  BY DEF HiddenOf
<1>3. \A p : (Walking(p) => Walking(p)') /\ (Followed(p) => Followed(p)')
  BY <1>1, <1>2, OwnersJudgedAlike DEF Walking, Followed
<1> QED
  BY <1>1, <1>2, <1>3, OwnersJudgedAlike DEF OwnersOK

\* Lemma: before the walk has taken a step its chain is empty.
LEMMA EmptyChain ==
    ASSUME NEW p
    PROVE  /\ Along(p, << >>)
           /\ Len(<< >>) = 0
           /\ Refs(p, << >>, 1) = ChooseOwner(p.owners)
BY DEF Along, Refs

\* Lemma: drawing a pod.
LEMMA DrawPodOwners ==
    ASSUME Inv, OwnersOK, DrawPod
    PROVE  OwnersOK'
<1>1. PICK p \in podsLeft :
        /\ podSeen' = podSeen \cup {p.id}
        /\ IF includeWorkloads
           THEN /\ pod' = p.id /\ owner' = ChooseOwner(p.owners)
                /\ warned' = IF p.owners = {} THEN warned \cup {p.id} ELSE warned
           ELSE UNCHANGED <<pod, owner, warned>>
  BY DEF DrawPod
<1>2. UNCHANGED <<cluster, includeWorkloads, chain, hiddenWorkloads, workloadSeen>> /\ pod = 0
  BY DEF DrawPod, request
<1>3. p \in cluster.pods /\ cluster \in Clusters /\ chain = << >>
  BY <1>1, <1>2 DEF Inv, WalkOK
<1>4. \A q \in cluster.pods : /\ q.id # 0 /\ q.owners \subseteq OwnerRefs
                              /\ q.id = p.id => q = p
  BY <1>3, ClustersAssumption
<1>5. PodsDrawn' = PodsDrawn \cup {p}
  BY <1>1, <1>2, <1>3, <1>4 DEF PodsDrawn
<1>6. p.owners = {} => Whole(p, << >>) /\ ~HasTop(p)
  <2>1. SUFFICES ASSUME p.owners = {}
                 PROVE  Whole(p, << >>) /\ ~HasTop(p)
    OBVIOUS
  <2>2. Whole(p, << >>)
    BY <1>4, <2>1, EmptyChain, OwnerIsChosen DEF Whole
  <2>3. 0 <= MaxOwnerDepth
    BY LimitsAssumption
  <2> QED
    BY <1>3, <2>2, <2>3, EmptyChain, TopOfChain
<1>7. \A q : HiddenOf(q)' = HiddenOf(q)
  BY <1>2 DEF HiddenOf
<1>8. CASE includeWorkloads
  <2>1. Walking(p)'
    <3>1. p.owners # {} => owner' # {}
      BY <1>1, <1>4, <1>8, <1>3, OwnerIsChosen
    <3>2. p.owners = {} => owner' = {} /\ p.id \in warned'
      BY <1>1, <1>4, <1>8, <1>3, OwnerIsChosen
    <3>3. owner' = Refs(p, << >>, Len(<< >>) + 1)
      BY <1>1, <1>8, EmptyChain
    <3>4. pod' = p.id /\ p.id \in podSeen' /\ chain' = << >>
      BY <1>1, <1>2, <1>3, <1>8
    <3> QED
      BY <1>2, <1>6, <3>1, <3>2, <3>3, <3>4, EmptyChain, OwnersJudgedAlike DEF Walking
  <2>2. \A q \in PodsDrawn' : q.id # pod' => Followed(q)'
    <3> SUFFICES ASSUME NEW q \in PodsDrawn', q.id # pod'
                 PROVE  Followed(q)'
      OBVIOUS
    <3>1. q \in PodsDrawn /\ q.id # pod
      BY <1>1, <1>2, <1>4, <1>5, <1>8 DEF PodsDrawn
    <3>2. Followed(q)
      BY <1>8, <3>1 DEF OwnersOK
    <3>3. warned \subseteq warned'
      BY <1>1, <1>8
    <3> QED
      BY <1>2, <1>7, <3>2, <3>3, OwnersJudgedAlike DEF Followed
  <2>3. \A q \in cluster.pods : q.id \in warned' => ~HasTop(q)
    BY <1>1, <1>4, <1>6, <1>8 DEF OwnersOK
  <2> QED
    BY <1>2, <1>3, <1>5, <1>7, <2>1, <2>2, <2>3, OwnersJudgedAlike DEF OwnersOK
<1>9. CASE ~includeWorkloads
  BY <1>1, <1>2, <1>5, <1>7, <1>9, OwnersJudgedAlike DEF OwnersOK
<1> QED
  BY <1>8, <1>9

\* Lemma: the pod whose owners are followed.
LEMMA WalkedPod ==
    ASSUME Inv, OwnersOK, pod # 0
    PROVE  \E p \in cluster.pods :
              /\ Walking(p) /\ cluster \in Clusters
              /\ \A q \in cluster.pods : q.id = p.id => q = p
BY ClustersAssumption DEF Inv, OwnersOK

\* Lemma: one turn of the walk.
LEMMA FollowOwnerOwners ==
    ASSUME Inv, OwnersOK, FollowOwner
    PROVE  OwnersOK'
<1>1. PICK r \in owner :
        /\ chain' = Append(chain, r.uid)
        /\ owner' = IF Len(chain') = MaxOwnerDepth THEN {} ELSE ChooseOwner(cluster.workloads[r.uid])
        /\ warned' = IF Len(chain') = MaxOwnerDepth /\ ChooseOwner(cluster.workloads[r.uid]) # {}
                     THEN warned \cup {pod} ELSE warned
  BY DEF FollowOwner
<1>2. UNCHANGED <<cluster, includeWorkloads, pod, hiddenWorkloads, podSeen, workloadSeen>>
      /\ pod # 0 /\ r.uid \in DOMAIN cluster.workloads
  BY <1>1 DEF FollowOwner, request, drawn, Stuck
<1>3. PICK p \in cluster.pods : /\ Walking(p) /\ cluster \in Clusters
                                /\ \A q \in cluster.pods : q.id = p.id => q = p
  BY <1>2, WalkedPod
<1>4. Along(p, chain) /\ r \in Refs(p, chain, Len(chain) + 1) /\ p.id = pod /\ p.id \in podSeen
  BY <1>1, <1>3 DEF Walking
<1> DEFINE L == Len(chain)
<1>5. /\ chain' \in Seq(DOMAIN cluster.workloads) /\ L \in Nat /\ Len(chain') = L + 1
      /\ \A i \in 1 .. L : chain'[i] = chain[i]
      /\ chain'[L + 1] = r.uid
  <2>1. chain \in Seq(DOMAIN cluster.workloads)
    BY <1>4 DEF Along
  <2> DEFINE W == DOMAIN cluster.workloads
             u == r.uid
  <2>2. u \in W /\ chain \in Seq(W)
    BY <1>2, <2>1
  <2> HIDE DEF W, u
  <2>3. /\ Append(chain, u) \in Seq(W) /\ L \in Nat /\ Len(Append(chain, u)) = L + 1
        /\ \A i \in 1 .. L : Append(chain, u)[i] = chain[i]
        /\ Append(chain, u)[L + 1] = u
    BY <2>2
  <2> QED
    BY <1>1, <2>3, Zenon DEF W, u
<1>6. \A i \in 1 .. L + 1 : Refs(p, chain', i) = Refs(p, chain, i)
  BY <1>5 DEF Refs
<1>7. Along(p, chain')
  <2> SUFFICES ASSUME NEW i \in 1 .. L + 1
               PROVE  \E x \in Refs(p, chain', i) : x.uid = chain'[i]
    BY <1>5 DEF Along
  <2>1. CASE i \in 1 .. L
    BY <1>4, <1>5, <1>6, <2>1 DEF Along
  <2>2. CASE i = L + 1
    BY <1>4, <1>5, <1>6, <2>2
  <2> QED
    BY <1>5, <2>1, <2>2
<1> DEFINE next == ChooseOwner(cluster.workloads[r.uid])
<1>8. Refs(p, chain', Len(chain') + 1) = next
  BY <1>5 DEF Refs
<1>9. L + 1 <= MaxOwnerDepth /\ MaxOwnerDepth \in Nat
  BY <1>1, <1>5, LimitsAssumption DEF Inv, WalkOK
<1>10. L + 1 = MaxOwnerDepth \/ next = {} => Whole(p, chain') /\ (HasTop(p) <=> next = {})
  <2>1. SUFFICES ASSUME L + 1 = MaxOwnerDepth \/ next = {}
                 PROVE  Whole(p, chain') /\ (HasTop(p) <=> next = {})
    OBVIOUS
  <2>2. Whole(p, chain')
    BY <1>5, <1>8, <2>1 DEF Whole
  <2>3. HasTop(p) <=> Len(chain') # 0 /\ Refs(p, chain', Len(chain') + 1) = {}
    BY <1>3, <1>5, <1>7, <1>9, <2>2, TopOfChain
  <2>4. Len(chain') # 0
    BY <1>5
  <2> QED
    BY <1>8, <2>2, <2>3, <2>4
<1> HIDE DEF L, next
<1>11. Walking(p)'
  <2>1. \/ owner' # {} /\ owner' = Refs(p, chain', Len(chain') + 1)
        \/ owner' = {} /\ Whole(p, chain') /\ (p.id \in warned' \/ HasTop(p))
    BY <1>1, <1>4, <1>5, <1>8, <1>10 DEF next
  <2> QED
    BY <1>2, <1>4, <1>7, <2>1, OwnersJudgedAlike DEF Walking
<1>12. \A q \in cluster.pods : q.id \in warned' => ~HasTop(q)
  BY <1>1, <1>3, <1>4, <1>5, <1>10 DEF OwnersOK, next
<1>13. PodsDrawn' = PodsDrawn /\ (\A q : HiddenOf(q)' = HiddenOf(q)) /\ warned \subseteq warned'
  BY <1>1, <1>2 DEF PodsDrawn, HiddenOf
<1>14. \A q : Followed(q) => Followed(q)'
  BY <1>2, <1>13, OwnersJudgedAlike DEF Followed
<1> QED
  BY <1>2, <1>11, <1>12, <1>13, <1>14, OwnersJudgedAlike DEF OwnersOK

\* Lemma: the end of a walk that is stuck.
LEMMA StopWalkOwners ==
    ASSUME Inv, OwnersOK, StopWalk
    PROVE  OwnersOK'
<1>1. UNCHANGED <<cluster, includeWorkloads, pod, chain, hiddenWorkloads, podSeen, workloadSeen>>
      /\ pod # 0 /\ owner' = {} /\ warned' = warned \cup {pod}
  BY DEF StopWalk, request, drawn
<1>2. PICK p \in cluster.pods : /\ Walking(p) /\ cluster \in Clusters
                                /\ \A q \in cluster.pods : q.id = p.id => q = p
  BY <1>1, WalkedPod
<1>3. PICK r \in owner : \/ r.uid = 0
                         \/ r.uid \in {chain[i] : i \in DOMAIN chain}
                         \/ r.uid \notin DOMAIN cluster.workloads
  BY DEF StopWalk, Stuck
<1>4. Along(p, chain) /\ owner = Refs(p, chain, Len(chain) + 1) /\ p.id = pod /\ p.id \in podSeen
  BY <1>2, <1>3 DEF Walking
<1>5. Len(chain) \in Nat /\ DOMAIN chain = 1 .. Len(chain) /\ Len(chain) <= MaxOwnerDepth
  BY DEF Inv, WalkOK
<1>6. \A x \in owner : x = r
  <2>1. owner \subseteq OwnerRefs
    BY DEF Inv, WalkOK
  <2> DEFINE i == Len(chain) + 1
             refs == IF i = 1 THEN p.owners ELSE cluster.workloads[chain[i - 1]]
  <2>2. refs \subseteq OwnerRefs
    <3>1. i # 1 => i - 1 \in 1 .. Len(chain)
      BY <1>5
    <3>2. i # 1 => chain[i - 1] \in DOMAIN cluster.workloads
      BY <1>4, <3>1 DEF Along
    <3> QED
      BY <1>2, <3>2, OwnersAreRefs
  <2>3. owner = ChooseOwner(refs)
    BY <1>4 DEF Refs
  <2> HIDE DEF refs
  <2> QED
    BY <1>3, <2>2, <2>3, ChosenAreSame
<1>7. 0 \notin DOMAIN cluster.workloads
  BY <1>2, ClustersAssumption
<1>8. Whole(p, chain)
  BY <1>3, <1>4, <1>5, <1>6, <1>7 DEF Whole
<1>9. ~HasTop(p)
  BY <1>2, <1>3, <1>4, <1>5, <1>8, TopOfChain
<1>10. Walking(p)'
  BY <1>1, <1>4, <1>8, OwnersJudgedAlike DEF Walking
<1>11. \A q \in cluster.pods : q.id \in warned' => ~HasTop(q)
  BY <1>1, <1>2, <1>4, <1>9 DEF OwnersOK
<1>12. PodsDrawn' = PodsDrawn /\ (\A q : HiddenOf(q)' = HiddenOf(q)) /\ warned \subseteq warned'
  BY <1>1 DEF PodsDrawn, HiddenOf
<1>13. \A q : Followed(q) => Followed(q)'
  BY <1>1, <1>12, OwnersJudgedAlike DEF Followed
<1> QED
  BY <1>1, <1>10, <1>11, <1>12, <1>13, OwnersJudgedAlike DEF OwnersOK

\* Lemma: the workloads of a chain that are drawn are its nearest ones.
LEMMA VisibleIsNear ==
    ASSUME Inv, pod # 0, owner = {}, NEW p \in cluster.pods, Walking(p)
    PROVE  /\ {Visible[i] : i \in DOMAIN Visible} = Near(p)
           /\ Len(chain) > Len(Visible) <=> Len(chain) > MaxWorkloadsPerPod
           /\ Len(chain) > MaxWorkloadsPerPod => Len(Visible) = MaxWorkloadsPerPod
           /\ Cardinality(Owners(p)) = Len(chain) /\ Len(chain) \in Nat
<1> DEFINE k == IF Len(chain) > MaxWorkloadsPerPod THEN MaxWorkloadsPerPod ELSE Len(chain)
           W == DOMAIN cluster.workloads
<1>1. /\ cluster \in Clusters /\ Along(p, chain) /\ Whole(p, chain) /\ Len(chain) <= MaxOwnerDepth
      /\ chain \in Seq(W) /\ Len(chain) \in Nat
      /\ \A i, j \in DOMAIN chain : chain[i] = chain[j] => i = j
  BY DEF Inv, WalkOK, Walking
<1>2. MaxWorkloadsPerPod \in Nat /\ MaxOwnerDepth \in Nat
  BY LimitsAssumption
<1>3. k \in 0 .. Len(chain)
  BY <1>1, <1>2
<1>4. Visible = SubSeq(chain, 1, k)
  BY DEF Visible
<1> HIDE DEF k, W
<1>5. Len(Visible) = k /\ DOMAIN Visible = 1 .. k /\ \A i \in 1 .. k : Visible[i] = chain[i]
  <2>1. /\ Len(SubSeq(chain, 1, k)) = k /\ DOMAIN SubSeq(chain, 1, k) = 1 .. k
        /\ \A i \in 1 .. k : SubSeq(chain, 1, k)[i] = chain[i]
    BY <1>1, <1>3
  <2> QED
    BY <1>4, <2>1
<1>6. Near(p) = {chain[i] : i \in 1 .. k}
  <2> DEFINE n == Least(MaxWorkloadsPerPod, MaxOwnerDepth)
  <2>1. n \in Nat /\ n <= MaxOwnerDepth /\ Least(n, Len(chain)) = k
    BY <1>1, <1>2 DEF Least, k
  <2> HIDE DEF n
  <2>2. After(p, n) = {chain[i] : i \in 1 .. Least(n, Len(chain))}
    BY <1>1, <2>1, AfterIsChain
  <2> QED
    BY <2>1, <2>2 DEF n, Near
<1>7. Owners(p) = {chain[i] : i \in 1 .. Len(chain)}
  <2>1. Least(MaxOwnerDepth, Len(chain)) = Len(chain)
    BY <1>1, <1>2 DEF Least
  <2>2. Owners(p) = {chain[i] : i \in 1 .. Least(MaxOwnerDepth, Len(chain))}
    BY <1>1, <1>2, AfterIsChain DEF Owners
  <2> QED
    BY <2>1, <2>2
<1>8. Cardinality(Owners(p)) = Len(chain)
  BY <1>1, <1>7, ChainCount
<1>9. {Visible[i] : i \in DOMAIN Visible} = Near(p)
  BY <1>5, <1>6
<1>10. /\ Len(chain) > k <=> Len(chain) > MaxWorkloadsPerPod
       /\ Len(chain) > MaxWorkloadsPerPod => k = MaxWorkloadsPerPod
  BY <1>1, <1>2 DEF k
<1> QED
  BY <1>1, <1>5, <1>8, <1>9, <1>10

\* Lemma: drawing the chain.
LEMMA DrawChainOwners ==
    ASSUME Inv, OwnersOK, DrawChain
    PROVE  OwnersOK'
<1>1. UNCHANGED <<cluster, includeWorkloads, warned, podSeen>> /\ pod # 0 /\ owner = {} /\ pod' = 0
      /\ workloadSeen' = workloadSeen \cup {Visible[i] : i \in DOMAIN Visible}
      /\ hiddenWorkloads' = IF Len(chain) > Len(Visible)
                            THEN hiddenWorkloads \cup {<<pod, Len(chain) - Len(Visible)>>}
                            ELSE hiddenWorkloads
  BY DEF DrawChain, request
<1>2. PICK p \in cluster.pods : /\ Walking(p) /\ cluster \in Clusters
                                /\ \A q \in cluster.pods : q.id = p.id => q = p
  BY <1>1, WalkedPod
<1>3. p.id = pod /\ p.id \in podSeen /\ (p.id \in warned \/ HasTop(p))
  BY <1>1, <1>2 DEF Walking
<1>4. workloadSeen' = workloadSeen \cup Near(p)
  BY <1>1, <1>2, VisibleIsNear
<1>5. hiddenWorkloads' = hiddenWorkloads \cup Uncounted(p)
  <2>1. /\ Len(chain) > Len(Visible) <=> Len(chain) > MaxWorkloadsPerPod
        /\ Len(chain) > MaxWorkloadsPerPod => Len(Visible) = MaxWorkloadsPerPod
        /\ Cardinality(Owners(p)) = Len(chain)
    BY <1>1, <1>2, VisibleIsNear
  <2> QED
    BY <1>1, <1>3, <2>1 DEF Uncounted
<1>6. \A h \in Uncounted(p) : h[1] = p.id
  BY DEF Uncounted
<1>7. HiddenOf(p)' = Uncounted(p)
  BY <1>2, <1>5, <1>6 DEF OwnersOK, HiddenOf
<1>8. \A q \in cluster.pods : q # p => HiddenOf(q)' = HiddenOf(q)
  BY <1>2, <1>5, <1>6 DEF HiddenOf
<1>9. PodsDrawn' = PodsDrawn /\ PodsDrawn \subseteq cluster.pods /\ p \in PodsDrawn
  BY <1>1, <1>3 DEF PodsDrawn
<1>10. Followed(p)'
  BY <1>1, <1>3, <1>4, <1>7, OwnersJudgedAlike DEF Followed
<1>11. \A q \in cluster.pods : q # p /\ Followed(q) => Followed(q)'
  BY <1>1, <1>4, <1>8, OwnersJudgedAlike DEF Followed
<1>12. includeWorkloads => \A q \in PodsDrawn : Followed(q)'
  <2> SUFFICES ASSUME includeWorkloads, NEW q \in PodsDrawn PROVE Followed(q)'
    OBVIOUS
  <2>1. q # p => q.id # pod
    BY <1>2, <1>3, <1>9
  <2>2. q # p => Followed(q)
    BY <2>1 DEF OwnersOK
  <2> QED
    BY <1>9, <1>10, <1>11, <2>2
<1>13. \A q \in cluster.pods : q.id \in warned' => ~HasTop(q)
  BY <1>1 DEF OwnersOK
<1>14. \A q \in cluster.pods : HiddenOf(q)' \subseteq Uncounted(q)
  BY <1>7, <1>8 DEF OwnersOK
<1>15. \A w \in workloadSeen' : \E q \in PodsDrawn : w \in Near(q)
  BY <1>4, <1>9 DEF OwnersOK
<1> QED
  BY <1>1, <1>9, <1>12, <1>13, <1>14, <1>15, OwnersJudgedAlike DEF OwnersOK

\* Lemma: what is said of the workloads holds always.
LEMMA AlwaysOwners == Spec => []OwnersOK
<1>1. Init => OwnersOK
  <2> SUFFICES ASSUME Init PROVE OwnersOK
    OBVIOUS
  <2>1. pod = 0 /\ PodsDrawn = {} /\ workloadSeen = {} /\ warned = {} /\ hiddenWorkloads = {}
    BY DEF Init, PodsDrawn
  <2> QED
    BY <2>1 DEF OwnersOK, HiddenOf
<1>2. Inv /\ OwnersOK /\ [Next]_vars => OwnersOK'
  <2> SUFFICES ASSUME Inv, OwnersOK, [Next]_vars PROVE OwnersOK'
    OBVIOUS
  <2> DEFINE Other == UNCHANGED <<cluster, includeWorkloads, walk, hiddenWorkloads, warned, podSeen,
                                  workloadSeen>>
  <2>1. CASE Track
    <3>1. Other
      BY <2>1 DEF Track, request, drawn
    <3> QED
      BY <3>1, OwnersKept
  <2>2. CASE SkipSubject
    <3>1. Other
      BY <2>2 DEF SkipSubject, request, drawn
    <3> QED
      BY <3>1, OwnersKept
  <2>3. CASE StartSubject
    <3>1. Other
      BY <2>3 DEF StartSubject, request, drawn
    <3> QED
      BY <3>1, OwnersKept
  <2>4. CASE FinishSubject
    <3>1. Other
      BY <2>4 DEF FinishSubject, request
    <3> QED
      BY <3>1, OwnersKept
  <2>5. CASE UNCHANGED vars
    <3>1. Other
      BY <2>5 DEF vars, request, drawn
    <3> QED
      BY <3>1, OwnersKept
  <2> QED
    BY <2>1, <2>2, <2>3, <2>4, <2>5, DrawPodOwners, FollowOwnerOwners, StopWalkOwners,
       DrawChainOwners DEF Next
<1> QED
  BY <1>1, <1>2, AlwaysInv, PTL DEF Spec

-----------------------------------------------------------------------------
(* The accounts. *)

\* The subjects left to track are in the scope, and an account that is tracked is that of
\* a subject tracked so far.
AccountsOK ==
    /\ uses \subseteq UsesInScope
    /\ \A s \in DOMAIN accounts :
          \E u \in UsesInScope \ uses : s = SubjectID(u) /\ accounts[s] = Account(u)
    /\ \A u \in UsesInScope \ uses : SubjectID(u) \in DOMAIN accounts

\* Lemma: tracking keeps what is said of the accounts.
LEMMA TrackAccounts ==
    ASSUME Inv, AccountsOK, Track
    PROVE  AccountsOK'
<1>1. PICK u \in uses :
        /\ uses' = uses \ {u}
        /\ accounts' = [k \in DOMAIN accounts \cup {SubjectID(u)} |->
                           IF k = SubjectID(u) THEN Account(u) ELSE accounts[k]]
  BY DEF Track
<1>2. UsesInScope' = UsesInScope /\ u \in UsesInScope /\ uses' \subseteq UsesInScope
  BY <1>1 DEF Track, request, UsesInScope, Filter, AccountsOK
<1>3. UsesInScope \ uses' = (UsesInScope \ uses) \cup {u}
  BY <1>1, <1>2
<1>4. \A s \in DOMAIN accounts' :
         \E v \in (UsesInScope \ uses) \cup {u} : s = SubjectID(v) /\ accounts'[s] = Account(v)
  <2> TAKE s \in DOMAIN accounts'
  <2>1. CASE s = SubjectID(u)
    BY <1>1, <2>1
  <2>2. CASE s # SubjectID(u)
    <3>1. s \in DOMAIN accounts /\ accounts'[s] = accounts[s]
      BY <1>1, <2>2
    <3> QED
      BY <3>1 DEF AccountsOK
  <2> QED
    BY <2>1, <2>2
<1>5. \A v \in (UsesInScope \ uses) \cup {u} : SubjectID(v) \in DOMAIN accounts'
  BY <1>1 DEF AccountsOK
<1> QED
  BY <1>2, <1>3, <1>4, <1>5 DEF AccountsOK

\* Lemma: what is said of the accounts holds always.
LEMMA AlwaysAccounts == Spec => []AccountsOK
<1>1. Init => AccountsOK
  BY DEF Init, AccountsOK
<1>2. Inv /\ AccountsOK /\ [Next]_vars => AccountsOK'
  <2> SUFFICES ASSUME Inv, AccountsOK, [Next]_vars PROVE AccountsOK'
    OBVIOUS
  <2>1. ASSUME UNCHANGED <<cluster, scope, uses, accounts>> PROVE AccountsOK'
    BY <2>1 DEF AccountsOK, UsesInScope, Filter
  <2>2. Track \/ UNCHANGED <<cluster, scope, uses, accounts>>
    BY DEF Next, vars, request, SkipSubject, StartSubject, DrawPod, FollowOwner, StopWalk,
           DrawChain, FinishSubject
  <2> QED
    BY <2>1, <2>2, TrackAccounts
<1> QED
  BY <1>1, <1>2, AlwaysInv, PTL DEF Spec

-----------------------------------------------------------------------------
(* The theorems. *)

\* Theorem: every state has its type; above all, a chain of owners never meets a workload
\* twice and never goes deeper than maxOwnerDepth, whatever owner references there are.
THEOREM ChainTypeOK == Spec => []TypeOK
<1>1. Inv /\ AccountsOK => TypeOK
  <2> SUFFICES ASSUME Inv, AccountsOK PROVE TypeOK
    OBVIOUS
  <2>1. {chain[i] : i \in DOMAIN chain} \subseteq DOMAIN cluster.workloads
    BY DEF Inv, WalkOK
  <2> QED
    BY <2>1 DEF Inv, WalkOK, SubjectsOK, AccountsOK, TypeOK
<1> QED
  BY <1>1, AlwaysInv, AlwaysAccounts, PTL

\* Lemma: a pod has one edge to a subject.
LEMMA EdgesCount ==
    ASSUME NEW s, NEW P, Sortable(P)
    PROVE  Cardinality(Edges(s, P)) = Cardinality(P)
<1> DEFINE f == [p \in P |-> <<s, p.id>>]
<1>1. f \in [P -> Edges(s, P)]
  BY DEF Edges
<1>2. \A p, q \in P : f[p] = f[q] => p = q
  BY DEF Sortable
<1>3. \A e \in Edges(s, P) : \E p \in P : f[p] = e
  BY DEF Edges
<1> HIDE DEF f
<1> QED
  BY <1>1, <1>2, <1>3, SameSize DEF Sortable

\* Theorem: for every service account node, the pods drawn and the pods counted in its
\* overflow node add up, for any limit and any number of pods (docs/query-guide.md:277).
THEOREM PodsAlwaysAddUp == Spec => []PodsAddUp
<1>1. Inv => PodsAddUp
  <2> SUFFICES ASSUME Inv, Finished, NEW s \in DOMAIN accounts
               PROVE  /\ Cardinality({e \in runsAs : e[1] = s}) <= MaxPodsPerSubject
                      /\ Cardinality({e \in runsAs : e[1] = s}) + HiddenCount(hiddenPods, s)
                            = Cardinality(PodsOf(accounts[s]))
    BY DEF PodsAddUp
  <2> DEFINE all == Cardinality(PodsOf(accounts[s]))
             shown == Cardinality({e \in runsAs : e[1] = s})
  <2>1. Done(s)
    BY DEF Inv, SubjectsOK, Finished
  <2>2. Sortable(PodsOf(accounts[s]))
    BY PodsSortable DEF Inv
  <2>3. MaxPodsPerSubject \in Nat
    BY LimitsAssumption
  <2>4. /\ IsFiniteSet(First(s)) /\ all \in Nat
        /\ Cardinality(First(s)) = IF all > MaxPodsPerSubject THEN MaxPodsPerSubject ELSE all
    BY <2>2, <2>3, FirstPodsCount DEF First
  <2>5. Sortable(First(s))
    BY <2>2, <2>4 DEF Sortable, First, FirstPods
  <2>6. shown = Cardinality(First(s))
    BY <2>1, <2>5, EdgesCount DEF Done, Drawn
  <2>7. CASE all > MaxPodsPerSubject
    <3>1. Hidden(s) = {<<s, all - MaxPodsPerSubject>>}
      BY <2>1, <2>7 DEF Done, Overflow
    <3> HIDE DEF all
    <3>2. <<s, all - MaxPodsPerSubject>> \in hiddenPods /\ <<s, all - MaxPodsPerSubject>>[1] = s
      BY <3>1 DEF Hidden
    <3>3. \A h \in hiddenPods : h[1] = s => h = <<s, all - MaxPodsPerSubject>>
      BY <3>1 DEF Hidden
    <3>4. (CHOOSE h \in hiddenPods : h[1] = s) = <<s, all - MaxPodsPerSubject>>
      BY <3>2, <3>3
    <3>5. \E h \in hiddenPods : h[1] = s
      BY <3>2
    <3>6. HiddenCount(hiddenPods, s) = <<s, all - MaxPodsPerSubject>>[2]
      BY <3>4, <3>5, Zenon DEF HiddenCount
    <3>7. HiddenCount(hiddenPods, s) = all - MaxPodsPerSubject
      BY <3>6
    <3> QED
      BY <2>3, <2>4, <2>6, <2>7, <3>7 DEF all
  <2>8. CASE ~(all > MaxPodsPerSubject)
    <3>1. Hidden(s) = {}
      BY <2>1, <2>8 DEF Done, Overflow
    <3>2. HiddenCount(hiddenPods, s) = 0
      BY <3>1 DEF HiddenCount, Hidden
    <3> HIDE DEF all, shown
    <3>3. shown = all /\ all <= MaxPodsPerSubject /\ all \in Nat
      BY <2>3, <2>4, <2>6, <2>8
    <3>4. shown <= MaxPodsPerSubject /\ shown + HiddenCount(hiddenPods, s) = all
      BY <3>2, <3>3
    <3> QED
      BY <3>4 DEF all, shown
  <2> QED
    BY <2>7, <2>8
<1> QED
  BY <1>1, AlwaysInv, PTL

\* Theorem: for any pods, owner references and limits, the workloads drawn are those that are
\* nearest to the pods along the chosen owners, and each pod's overflow node counts the others,
\* though owners be missing or own each other (docs/query-guide.md:288).
THEOREM WorkloadsAlwaysAddUp == Spec => []WorkloadsAddUp
<1>1. Inv /\ OwnersOK => WorkloadsAddUp
  <2> SUFFICES ASSUME Inv, OwnersOK, Finished, includeWorkloads
               PROVE  /\ workloadSeen = UNION {Near(p) : p \in PodsDrawn}
                      /\ \A p \in PodsDrawn :
                            HiddenCount(hiddenWorkloads, p.id) =
                                IF Cardinality(Owners(p)) > MaxWorkloadsPerPod
                                THEN Cardinality(Owners(p)) - MaxWorkloadsPerPod ELSE 0
    BY DEF WorkloadsAddUp, Near, Owners
  <2>1. pod = 0 /\ \A p \in PodsDrawn : p \in cluster.pods /\ p.id # 0
    BY ClustersAssumption DEF Inv, SubjectsOK, Finished, PodsDrawn
  <2>2. \A p \in PodsDrawn : Followed(p)
    BY <2>1 DEF OwnersOK
  <2>3. workloadSeen = UNION {Near(p) : p \in PodsDrawn}
    BY <2>2 DEF OwnersOK, Followed
  <2>4. ASSUME NEW p \in PodsDrawn
        PROVE  HiddenCount(hiddenWorkloads, p.id) =
                   IF Cardinality(Owners(p)) > MaxWorkloadsPerPod
                   THEN Cardinality(Owners(p)) - MaxWorkloadsPerPod ELSE 0
    <3> DEFINE all == Cardinality(Owners(p))
               more == <<p.id, all - MaxWorkloadsPerPod>>
    <3>1. HiddenOf(p) = IF all > MaxWorkloadsPerPod THEN {more} ELSE {}
      BY <2>2 DEF Followed, Uncounted
    <3>2. CASE all > MaxWorkloadsPerPod
      <4>1. HiddenOf(p) = {more}
        BY <3>1, <3>2
      <4>2. more[1] = p.id /\ more[2] = all - MaxWorkloadsPerPod
        OBVIOUS
      <4> HIDE DEF all, more
      <4>3. (CHOOSE h \in hiddenWorkloads : h[1] = p.id) = more
        BY <4>1, <4>2 DEF HiddenOf
      <4>4. \E h \in hiddenWorkloads : h[1] = p.id
        BY <4>1 DEF HiddenOf
      <4>5. HiddenCount(hiddenWorkloads, p.id) = more[2]
        BY <4>3, <4>4, Zenon DEF HiddenCount
      <4> QED
        BY <3>2, <4>2, <4>5 DEF all
    <3>3. CASE ~(all > MaxWorkloadsPerPod)
      <4>1. ~ \E h \in hiddenWorkloads : h[1] = p.id
        BY <3>1, <3>3 DEF HiddenOf
      <4> QED
        BY <3>3, <4>1 DEF HiddenCount
    <3> QED
      BY <3>2, <3>3
  <2> QED
    BY <2>3, <2>4
<1> QED
  BY <1>1, AlwaysInv, AlwaysOwners, PTL

\* Theorem: a drawn pod's chain of owners has a warning exactly when it was not followed to
\* a workload that nothing owns, whatever the owner references are.
THEOREM CutChainsAlwaysReported == Spec => []CutChainsAreReported
<1>1. Inv /\ OwnersOK => CutChainsAreReported
  <2> SUFFICES ASSUME Inv, OwnersOK, Finished, includeWorkloads, NEW p \in PodsDrawn
               PROVE  p.id \notin warned <=> HasTop(p)
    BY DEF CutChainsAreReported, HasTop, Owners
  <2>1. pod = 0 /\ p \in cluster.pods /\ p.id # 0
    BY ClustersAssumption DEF Inv, SubjectsOK, Finished, PodsDrawn
  <2>2. Followed(p)
    BY <2>1 DEF OwnersOK
  <2>3. p.id \in warned => ~HasTop(p)
    BY <2>1 DEF OwnersOK
  <2> QED
    BY <2>2, <2>3 DEF Followed
<1> QED
  BY <1>1, AlwaysInv, AlwaysOwners, PTL

\* Lemma: a subject's account has the pods that run as it.
LEMMA AccountsPods ==
    ASSUME NEW u
    PROVE  PodsOf(Account(u)) = RunningAs(u)
BY DEF PodsOf, Account, RunningAs

\* Lemma: pods below a limit are all among the first.
LEMMA FirstPodsAreAll ==
    ASSUME NEW S, Sortable(S), NEW n \in Nat, Cardinality(S) <= n
    PROVE  FirstPods(S, n) = S
<1>1. FirstPods(S, n) \in SUBSET S
  BY DEF FirstPods
<1>2. Cardinality(S) \in Nat /\ Cardinality(FirstPods(S, n)) = Cardinality(S)
  BY FirstPodsCount
<1> QED
  BY <1>1, <1>2, FS_Subset DEF Sortable

\* Theorem: unless subjects that name different accounts share a node, the node of a service
\* account leads to pods that run as it only, and to all of them when they are not more
\* than the limit (docs/query-guide.md:227).
THEOREM NodesAlwaysLeadToTheirPods == Spec => []NodesLeadToTheirPods
<1>1. Inv /\ AccountsOK => NodesLeadToTheirPods
  <2> SUFFICES ASSUME Inv, AccountsOK, Finished, NEW u \in UsesInScope,
                      \A v \in UsesInScope : SameNode(u, v) => SameAccount(u, v)
               PROVE  /\ {e[2] : e \in {x \in runsAs : x[1] = SubjectID(u)}}
                            \subseteq {p.id : p \in RunningAs(u)}
                      /\ Cardinality({p.id : p \in RunningAs(u)}) <= MaxPodsPerSubject =>
                            {e[2] : e \in {x \in runsAs : x[1] = SubjectID(u)}}
                               = {p.id : p \in RunningAs(u)}
    BY DEF NodesLeadToTheirPods
  <2> DEFINE s == SubjectID(u)
             P == RunningAs(u)
             ids == {p.id : p \in P}
             shown == {e[2] : e \in {x \in runsAs : x[1] = s}}
  <2>1. uses = {} /\ s \in DOMAIN accounts
    BY DEF Finished, AccountsOK
  <2>2. PICK v \in UsesInScope : s = SubjectID(v) /\ accounts[s] = Account(v)
    BY <2>1 DEF AccountsOK
  <2>3. SameNode(u, v)
    BY <2>2 DEF SubjectID, SameNode
  <2>4. PodsOf(accounts[s]) = P
    BY <2>2, <2>3, AccountsPods DEF SameAccount
  <2>5. Done(s)
    BY <2>1 DEF Inv, SubjectsOK, Finished
  <2>6. Sortable(P)
    BY <2>4, PodsSortable DEF Inv
  <2> HIDE DEF s, P
  <2>7. {x \in runsAs : x[1] = s} = {<<s, p.id>> : p \in FirstPods(P, MaxPodsPerSubject)}
    BY <2>4, <2>5 DEF Done, Drawn, Edges, First
  <2>8. shown = {p.id : p \in FirstPods(P, MaxPodsPerSubject)}
    <3>1. shown = {e[2] : e \in {<<s, p.id>> : p \in FirstPods(P, MaxPodsPerSubject)}}
      BY <2>7
    <3> DEFINE F == FirstPods(P, MaxPodsPerSubject)
    <3>2. \A p : <<s, p.id>>[2] = p.id
      OBVIOUS
    <3> HIDE DEF F
    <3>3. {e[2] : e \in {<<s, p.id>> : p \in F}} = {p.id : p \in F}
      BY <3>2
    <3> QED
      BY <3>1, <3>3 DEF F
  <2>9. shown \subseteq ids
    BY <2>8 DEF FirstPods
  <2>10. ASSUME Cardinality(ids) <= MaxPodsPerSubject
         PROVE  shown = ids
    <3> DEFINE f == [p \in P |-> p.id]
    <3>1. f \in [P -> ids] /\ (\A p, q \in P : f[p] = f[q] => p = q) /\ \A i \in ids : \E p \in P : f[p] = i
      BY <2>6 DEF Sortable
    <3> HIDE DEF ids, f
    <3>2. Cardinality(ids) = Cardinality(P)
      BY <2>6, <3>1, SameSize DEF Sortable
    <3>3. FirstPods(P, MaxPodsPerSubject) = P
      BY <2>6, <2>10, <3>2, FirstPodsAreAll, LimitsAssumption
    <3> QED
      BY <2>8, <3>3 DEF ids
  <2> QED
    BY <2>9, <2>10 DEF s, P
<1> QED
  BY <1>1, AlwaysInv, AlwaysAccounts, PTL

-----------------------------------------------------------------------------
(* The expansion ends. *)

\* The steps that one pod, and one subject, can take at most.
PodSteps     == MaxOwnerDepth + 3
SubjectSteps == MaxPodsPerSubject * PodSteps + 2

\* The steps left of a walk: one per turn up to the limit, one to draw it.
WalkLeft == IF pod = 0 THEN 0
            ELSE IF owner = {} THEN 1
            ELSE 2 + MaxOwnerDepth - Len(chain)

SubjectLeft == IF subject = None THEN 0 ELSE 1 + Cardinality(podsLeft) * PodSteps

UsesLeft == Cardinality(uses) * (SubjectSteps + 1)
TodoLeft == Cardinality(todo) * SubjectSteps

\* A bound on the steps that the whole expansion still takes.
StepsLeft == UsesLeft + TodoLeft + SubjectLeft + WalkLeft

TodoFinite == IsFiniteSet(todo)

LeftOK ==
    /\ IsFiniteSet(uses) /\ IsFiniteSet(podsLeft)
    /\ Cardinality(uses) \in Nat /\ Cardinality(todo) \in Nat /\ Cardinality(podsLeft) \in Nat
    /\ UsesLeft \in Nat /\ TodoLeft \in Nat /\ SubjectLeft \in Nat
    /\ WalkLeft \in 0 .. 2 + MaxOwnerDepth

\* Lemma: the bounds are numbers.
LEMMA Bounds ==
    /\ MaxOwnerDepth \in Nat /\ MaxPodsPerSubject \in Nat
    /\ PodSteps \in Nat /\ PodSteps = MaxOwnerDepth + 3
    /\ SubjectSteps \in Nat /\ SubjectSteps = MaxPodsPerSubject * PodSteps + 2
    /\ MaxPodsPerSubject * PodSteps \in Nat
<1>1. MaxOwnerDepth \in Nat /\ MaxPodsPerSubject \in Nat
  BY LimitsAssumption
<1>2. PodSteps \in Nat /\ PodSteps = MaxOwnerDepth + 3
  BY <1>1 DEF PodSteps
<1>3. MaxPodsPerSubject * PodSteps \in Nat
  BY <1>1, <1>2
<1> QED
  BY <1>1, <1>2, <1>3 DEF SubjectSteps

\* Lemma: counts are numbers.
LEMMA LeftIsNat == Inv /\ TodoFinite => LeftOK
<1> SUFFICES ASSUME Inv, TodoFinite PROVE LeftOK
  OBVIOUS
<1>1. \A m, n \in Nat : m * n \in Nat
  OBVIOUS
<1>2. IsFiniteSet(uses) /\ IsFiniteSet(podsLeft)
  <2>1. uses \in SUBSET cluster.uses /\ podsLeft \in SUBSET cluster.pods
    BY DEF Inv, SubjectsOK
  <2>2. IsFiniteSet(cluster.uses) /\ IsFiniteSet(cluster.pods)
    BY ClustersAssumption DEF Inv
  <2> QED
    BY <2>1, <2>2, FS_Subset
<1>3. Cardinality(uses) \in Nat /\ Cardinality(todo) \in Nat /\ Cardinality(podsLeft) \in Nat
  BY <1>2, FS_CardinalityType DEF TodoFinite
<1>4. Len(chain) \in Nat /\ Len(chain) <= MaxOwnerDepth
  BY DEF Inv, WalkOK
<1>5. WalkLeft \in 0 .. 2 + MaxOwnerDepth
  BY <1>4, Bounds DEF WalkLeft
<1>6. UsesLeft \in Nat /\ TodoLeft \in Nat /\ SubjectLeft \in Nat
  <2>1. SubjectSteps + 1 \in Nat
    BY Bounds
  <2> QED
    BY <1>1, <1>3, <2>1, Bounds DEF UsesLeft, TodoLeft, SubjectLeft
<1> QED
  BY <1>2, <1>3, <1>5, <1>6 DEF LeftOK

\* Lemma: an element less is one less.
LEMMA OneLess ==
    ASSUME NEW S, IsFiniteSet(S), NEW x \in S
    PROVE  Cardinality(S \ {x}) = Cardinality(S) - 1 /\ Cardinality(S) \in Nat \ {0}
<1>1. Cardinality(S \ {x}) = Cardinality(S) - 1
  BY FS_RemoveElement
<1>2. Cardinality(S) \in Nat /\ Cardinality(S \ {x}) \in Nat
  BY FS_RemoveElement, FS_CardinalityType
<1> QED
  BY <1>1, <1>2

\* Lemma: one factor less.
LEMMA OneFactorLess ==
    ASSUME NEW m \in Nat, NEW n \in Nat
    PROVE  (m - 1) * n = m * n - n /\ m * n \in Nat
OBVIOUS

\* Lemma: how the four parts of the bound can go down.
LEMMA SumIsLess ==
    ASSUME NEW u \in Nat, NEW t \in Nat, NEW s \in Nat, NEW w \in Nat,
           NEW u1 \in Nat, NEW t1 \in Nat, NEW s1 \in Nat, NEW w1 \in Nat,
           NEW m \in Nat,
           \/ u1 = u - (m + 1) /\ t1 <= t + m /\ s1 = s /\ w1 = w
           \/ u1 = u /\ t1 = t - m /\ s1 = s /\ w1 = w /\ m > 0
           \/ u1 = u /\ t1 = t - m /\ s1 < m /\ s = 0 /\ w1 = w
           \/ u1 = u /\ t1 = t /\ s1 = s - m /\ w1 < m /\ w = 0
           \/ u1 = u /\ t1 = t /\ s1 < s /\ w1 = w
           \/ u1 = u /\ t1 = t /\ s1 = s /\ w1 < w
    PROVE  u1 + t1 + s1 + w1 < u + t + s + w
OBVIOUS

\* Lemma: the subjects still to be expanded stay finitely many.
LEMMA TodoStaysFinite == TodoFinite /\ [Next]_vars => TodoFinite'
<1> SUFFICES ASSUME TodoFinite, [Next]_vars PROVE TodoFinite'
  OBVIOUS
<1> USE DEF TodoFinite
<1>1. CASE Track
  <2>1. PICK u \in uses : todo' = todo \cup {SubjectID(u)}
    BY <1>1 DEF Track
  <2> QED
    BY <2>1, FS_AddElement
<1>2. CASE SkipSubject \/ StartSubject
  <2>1. PICK s \in todo : todo' = todo \ {s}
    BY <1>2 DEF SkipSubject, StartSubject
  <2> QED
    BY <2>1, FS_RemoveElement
<1>3. CASE ~(Track \/ SkipSubject \/ StartSubject)
  <2>1. todo' = todo
    BY <1>3 DEF Next, DrawPod, FollowOwner, StopWalk, DrawChain, FinishSubject, vars
  <2> QED
    BY <2>1
<1> QED
  BY <1>1, <1>2, <1>3

\* Lemma: every step leaves fewer steps.
LEMMA FewerStepsLeft ==
    ASSUME Inv, TodoFinite, LeftOK, LeftOK', Next
    PROVE  StepsLeft' < StepsLeft
<1>1. /\ UsesLeft \in Nat /\ TodoLeft \in Nat /\ SubjectLeft \in Nat /\ WalkLeft \in Nat
      /\ UsesLeft' \in Nat /\ TodoLeft' \in Nat /\ SubjectLeft' \in Nat /\ WalkLeft' \in Nat
      /\ WalkLeft' <= 2 + MaxOwnerDepth
  BY Bounds DEF LeftOK
<1>8. /\ StepsLeft = UsesLeft + TodoLeft + SubjectLeft + WalkLeft
      /\ StepsLeft' = UsesLeft' + TodoLeft' + SubjectLeft' + WalkLeft'
  BY DEF StepsLeft
<1>2. CASE Track
  <2>1. PICK u \in uses : uses' = uses \ {u} /\ todo' = todo \cup {SubjectID(u)}
    BY <1>2 DEF Track
  <2>2. UNCHANGED <<subject, podsLeft, pod, owner, chain>>
    BY <1>2 DEF Track, walk
  <2>3. Cardinality(uses') = Cardinality(uses) - 1 /\ Cardinality(uses) \in Nat
    BY <2>1, OneLess DEF LeftOK
  <2>4. Cardinality(todo') <= Cardinality(todo) + 1
    <3>1. /\ Cardinality(todo') = IF SubjectID(u) \in todo THEN Cardinality(todo)
                                  ELSE Cardinality(todo) + 1
          /\ Cardinality(todo) \in Nat
      BY <2>1, FS_AddElement DEF LeftOK, TodoFinite
    <3> QED
      BY <3>1
  <2>5. UsesLeft' = UsesLeft - (SubjectSteps + 1)
    BY <2>3, Bounds, OneFactorLess DEF UsesLeft
  <2>6. TodoLeft' <= TodoLeft + SubjectSteps
    <3>1. \A m, n, k \in Nat : m <= n + 1 => m * k <= n * k + k
      <4> TAKE m, n, k \in Nat
      <4> HAVE m <= n + 1
      <4>1. m * k <= (n + 1) * k
        OBVIOUS
      <4> QED
        BY <4>1
    <3>2. Cardinality(todo') \in Nat /\ Cardinality(todo) \in Nat
      BY DEF LeftOK
    <3> QED
      BY <2>4, <3>1, <3>2, Bounds DEF TodoLeft
  <2>7. SubjectLeft' = SubjectLeft /\ WalkLeft' = WalkLeft
    BY <2>2 DEF SubjectLeft, WalkLeft
  <2> QED
    BY <1>1, <1>8, <2>5, <2>6, <2>7, Bounds, SumIsLess
<1>3. CASE SkipSubject
  <2>1. PICK s \in todo : todo' = todo \ {s}
    BY <1>3 DEF SkipSubject
  <2>2. UNCHANGED <<uses, subject, podsLeft, pod, owner, chain>>
    BY <1>3 DEF SkipSubject, walk
  <2>3. Cardinality(todo') = Cardinality(todo) - 1 /\ Cardinality(todo) \in Nat
    BY <2>1, OneLess DEF TodoFinite
  <2>4. TodoLeft' = TodoLeft - SubjectSteps
    BY <2>3, Bounds, OneFactorLess DEF TodoLeft
  <2>5. UsesLeft' = UsesLeft /\ SubjectLeft' = SubjectLeft /\ WalkLeft' = WalkLeft
    BY <2>2 DEF UsesLeft, SubjectLeft, WalkLeft
  <2>6. SubjectSteps > 0
    BY Bounds
  <2> QED
    BY <1>1, <1>8, <2>4, <2>5, <2>6, Bounds, SumIsLess
<1>4. CASE StartSubject
  <2>1. PICK s \in todo : /\ todo' = todo \ {s}
                          /\ subject' = s
                          /\ podsLeft' = First(s)
    BY <1>4 DEF StartSubject, First
  <2>2. UNCHANGED <<uses, pod, owner, chain>> /\ subject = None
    BY <1>4 DEF StartSubject, walk, Idle
  <2>3. Cardinality(todo') = Cardinality(todo) - 1 /\ Cardinality(todo) \in Nat
    BY <2>1, OneLess DEF TodoFinite
  <2>4. TodoLeft' = TodoLeft - SubjectSteps
    BY <2>3, Bounds, OneFactorLess DEF TodoLeft
  <2>5. Cardinality(podsLeft') \in Nat /\ Cardinality(podsLeft') <= MaxPodsPerSubject
    <3>1. Sortable(PodsOf(accounts[s]))
      BY PodsSortable DEF Inv
    <3> QED
      BY <2>1, <3>1, FirstPodsCount, Bounds DEF First
  <2>6. SubjectLeft' <= 1 + MaxPodsPerSubject * PodSteps
    <3>1. \A m, n, k \in Nat : m <= n => m * k <= n * k
      OBVIOUS
    <3>2. Cardinality(podsLeft') * PodSteps <= MaxPodsPerSubject * PodSteps
      BY <2>5, <3>1, Bounds
    <3>3. SubjectLeft' = 0 \/ SubjectLeft' = 1 + Cardinality(podsLeft') * PodSteps
      BY DEF SubjectLeft
    <3>4. Cardinality(podsLeft') * PodSteps \in Nat
      BY <2>5, Bounds
    <3> QED
      BY <3>2, <3>3, <3>4, Bounds
  <2>7. UsesLeft' = UsesLeft /\ WalkLeft' = WalkLeft /\ SubjectLeft = 0
    BY <2>2 DEF UsesLeft, SubjectLeft, WalkLeft
  <2>8. SubjectLeft' < SubjectSteps
    BY <1>1, <2>6, Bounds
  <2> QED
    BY <1>1, <1>8, <2>4, <2>7, <2>8, Bounds, SumIsLess
<1>5. CASE DrawPod
  <2>1. PICK p \in podsLeft : podsLeft' = podsLeft \ {p}
    BY <1>5 DEF DrawPod
  <2>2. UNCHANGED <<uses, todo, subject>> /\ subject # None /\ pod = 0
    BY <1>5 DEF DrawPod
  <2>3. Cardinality(podsLeft') = Cardinality(podsLeft) - 1 /\ Cardinality(podsLeft) \in Nat
    BY <2>1, OneLess DEF LeftOK
  <2>4. SubjectLeft' = SubjectLeft - PodSteps
    BY <2>2, <2>3, Bounds, OneFactorLess DEF SubjectLeft
  <2>5. UsesLeft' = UsesLeft /\ TodoLeft' = TodoLeft /\ WalkLeft = 0
    BY <2>2 DEF UsesLeft, TodoLeft, WalkLeft
  <2>6. WalkLeft' < PodSteps
    BY <1>1, Bounds
  <2> QED
    BY <1>1, <1>8, <2>4, <2>5, <2>6, Bounds, SumIsLess
<1>6. CASE FollowOwner \/ StopWalk \/ DrawChain
  <2>1. UNCHANGED <<uses, todo, subject, podsLeft>>
    BY <1>6 DEF FollowOwner, StopWalk, DrawChain
  <2>2. UsesLeft' = UsesLeft /\ TodoLeft' = TodoLeft /\ SubjectLeft' = SubjectLeft
    BY <2>1 DEF UsesLeft, TodoLeft, SubjectLeft
  <2>3. Len(chain) \in Nat /\ (owner # {} => Len(chain) < MaxOwnerDepth)
    BY DEF Inv, WalkOK
  <2>4. WalkLeft' < WalkLeft
    <3>1. CASE FollowOwner
      <4>1. Len(chain') = Len(chain) + 1 /\ pod # 0 /\ owner # {}
        BY <3>1 DEF FollowOwner, Inv, WalkOK
      <4> QED
        BY <2>3, <4>1, Bounds DEF WalkLeft
    <3>2. CASE StopWalk
      <4>1. pod # 0 /\ owner # {} /\ pod' = pod /\ owner' = {}
        BY <3>2 DEF StopWalk, Stuck
      <4> QED
        BY <2>3, <4>1, Bounds DEF WalkLeft
    <3>3. CASE DrawChain
      BY <3>3 DEF DrawChain, WalkLeft
    <3> QED
      BY <1>6, <3>1, <3>2, <3>3
  <2> QED
    BY <1>1, <1>8, <2>2, <2>4, SumIsLess
<1>7. CASE FinishSubject
  <2>1. /\ UNCHANGED <<uses, todo, pod, owner, chain>>
        /\ subject # None /\ podsLeft = {} /\ subject' = None
    BY <1>7 DEF FinishSubject, walk
  <2>2. UsesLeft' = UsesLeft /\ TodoLeft' = TodoLeft /\ WalkLeft' = WalkLeft
    BY <2>1 DEF UsesLeft, TodoLeft, WalkLeft
  <2>3. SubjectLeft = 1 /\ SubjectLeft' = 0
    BY <2>1, FS_EmptySet, Bounds DEF SubjectLeft
  <2> QED
    BY <1>1, <1>8, <2>2, <2>3, SumIsLess
<1> QED
  BY <1>2, <1>3, <1>4, <1>5, <1>6, <1>7 DEF Next

\* Theorem: the expansion ends, whatever the owner references are and however many pods,
\* accounts and bindings there are: each step leaves fewer steps than there were
\* (query_runtime.go:12 and the loop of resolveWorkloadChain).
THEOREM ExpansionEnds == Spec => [][StepsLeft' < StepsLeft /\ StepsLeft \in Nat]_vars
<1>1. Init => TodoFinite
  BY FS_EmptySet DEF Init, TodoFinite
<1>2. TodoFinite /\ [Next]_vars => TodoFinite'
  BY TodoStaysFinite
<1>3. Inv /\ TodoFinite => LeftOK
  BY LeftIsNat
<1>4. Inv /\ TodoFinite /\ LeftOK /\ LeftOK' /\ [Next]_vars
        => [StepsLeft' < StepsLeft /\ StepsLeft \in Nat]_vars
  <2> SUFFICES ASSUME Inv, TodoFinite, LeftOK, LeftOK', Next
               PROVE  StepsLeft' < StepsLeft /\ StepsLeft \in Nat
    OBVIOUS
  <2>1. StepsLeft \in Nat
    BY Bounds DEF LeftOK, StepsLeft
  <2> QED
    BY <2>1, FewerStepsLeft
<1> QED
  BY <1>1, <1>2, <1>3, <1>4, AlwaysInv, PTL DEF Spec
=============================================================================
