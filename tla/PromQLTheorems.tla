--------------------------- MODULE PromQLTheorems ---------------------------
(***************************************************************************)
(* What the operators of PromQL and Primitives return, for vectors of any  *)
(* size: the facts that the proofs about the boards rest on.               *)
(***************************************************************************)
EXTENDS Primitives, Exposition, FiniteSetTheorems, TLAPS

---------------------------------------------------------------------------
(* Aggregations over everything, and arithmetic on their results.          *)

LEMMA NothingLeft == \A f : Restrict(f, {}) = NoLabels
BY DEF Restrict, NoLabels

LEMMA SampleFields == \A labels, value : Sample(labels, value).labels = labels
                                           /\ Sample(labels, value).value = value
BY DEF Sample

LEMMA CountOfAll ==
  ASSUME NEW vec
  PROVE  By(vec, {}, CountOf) = IF vec = {} THEN {} ELSE Scalar(Cardinality(vec))
BY NothingLeft DEF By, CountOf, Scalar

LEMMA SumOfAll ==
  ASSUME NEW vec
  PROVE  By(vec, {}, SumOf) = IF vec = {} THEN {} ELSE Scalar(SumOf(vec))
<1>1. CASE vec = {}
  BY <1>1 DEF By
<1>2. CASE vec # {}
  <2>1. {x \in vec : Restrict(x.labels, {} \cap DOMAIN x.labels) = NoLabels} = vec
    BY NothingLeft
  <2>2. {Restrict(x.labels, {} \cap DOMAIN x.labels) : x \in vec} = {NoLabels}
    BY NothingLeft, <1>2
  <2> HIDE DEF SumOf
  <2> QED BY <1>2, <2>1, <2>2 DEF By, Scalar
<1> QED BY <1>1, <1>2

LEMMA MaxOfAll ==
  ASSUME NEW vec
  PROVE  By(vec, {}, MaxOf) = IF vec = {} THEN {} ELSE Scalar(MaxOf(vec))
BY NothingLeft DEF By, MaxOf, Scalar

LEMMA MinOfAll ==
  ASSUME NEW vec
  PROVE  By(vec, {}, MinOf) = IF vec = {} THEN {} ELSE Scalar(MinOf(vec))
BY NothingLeft DEF By, MinOf, Scalar

LEMMA ScalarValues == \A c : Values(Scalar(c)) = {c} /\ Scalar(c) # {}
BY DEF Values, Scalar, Sample

LEMMA ScalarOr ==
  ASSUME NEW c, NEW d
  PROVE  /\ Or(Scalar(c), Scalar(d)) = Scalar(c)
         /\ Or({}, Scalar(d)) = Scalar(d)
BY DEF Or, Scalar, Sample

LEMMA ScalarPlus ==
  ASSUME NEW c, NEW d
  PROVE  /\ Plus(Scalar(c), Scalar(d)) = Scalar(c + d)
         /\ Plus(Scalar(c), {}) = {} /\ Plus({}, Scalar(d)) = {}
<1> DEFINE a == Sample(NoLabels, c)
           b == Sample(NoLabels, d)
<1>1. a.labels = b.labels /\ a.labels = NoLabels /\ a.value = c /\ b.value = d
  BY SampleFields
<1> HIDE DEF a, b
<1>2. Plus({a}, {b}) = {Sample(NoLabels, c + d)}
  <2>1. \A s : s \in Plus({a}, {b}) <=>
                 \E x \in {a}, y \in {b} : y.labels = x.labels /\ s = Sample(x.labels, x.value + y.value)
    BY Zenon DEF Plus
  <2>2. \A s : s \in Plus({a}, {b}) <=> s = Sample(NoLabels, c + d)
    BY <1>1, <2>1, Zenon
  <2> QED BY <2>2, Zenon
<1>3. Plus({a}, {}) = {} /\ Plus({}, {b}) = {}
  BY DEF Plus
<1> QED BY <1>2, <1>3, Zenon DEF Scalar, a, b

LEMMA ScalarMinus ==
  ASSUME NEW c, NEW d
  PROVE  /\ Minus(Scalar(c), Scalar(d)) = Scalar(c - d)
         /\ Minus(Scalar(c), {}) = {} /\ Minus({}, Scalar(d)) = {}
<1> DEFINE a == Sample(NoLabels, c)
           b == Sample(NoLabels, d)
<1>1. a.labels = b.labels /\ a.labels = NoLabels /\ a.value = c /\ b.value = d
  BY SampleFields
<1> HIDE DEF a, b
<1>2. Minus({a}, {b}) = {Sample(NoLabels, c - d)}
  <2>1. \A s : s \in Minus({a}, {b}) <=>
                 \E x \in {a}, y \in {b} : y.labels = x.labels /\ s = Sample(x.labels, x.value - y.value)
    BY Zenon DEF Minus
  <2>2. \A s : s \in Minus({a}, {b}) <=> s = Sample(NoLabels, c - d)
    BY <1>1, <2>1, Zenon
  <2> QED BY <2>2, Zenon
<1>3. Minus({a}, {}) = {} /\ Minus({}, {b}) = {}
  BY DEF Minus
<1> QED BY <1>2, <1>3, Zenon DEF Scalar, a, b

LEMMA ScalarTimes ==
  ASSUME NEW c, NEW d
  PROVE  /\ Times(Scalar(c), Scalar(d)) = Scalar(c * d)
         /\ Times(Scalar(c), {}) = {} /\ Times({}, Scalar(d)) = {}
<1> DEFINE a == Sample(NoLabels, c)
           b == Sample(NoLabels, d)
<1>1. a.labels = b.labels /\ a.labels = NoLabels /\ a.value = c /\ b.value = d
  BY SampleFields
<1> HIDE DEF a, b
<1>2. Times({a}, {b}) = {Sample(NoLabels, c * d)}
  <2>1. \A s : s \in Times({a}, {b}) <=>
                 \E x \in {a}, y \in {b} : y.labels = x.labels /\ s = Sample(x.labels, x.value * y.value)
    BY Zenon DEF Times
  <2>2. \A s : s \in Times({a}, {b}) <=> s = Sample(NoLabels, c * d)
    BY <1>1, <2>1, Zenon
  <2> QED BY <2>2, Zenon
<1>3. Times({a}, {}) = {} /\ Times({}, {b}) = {}
  BY DEF Times
<1> QED BY <1>2, <1>3, Zenon DEF Scalar, a, b

LEMMA ScalarCompare ==
  ASSUME NEW c, NEW k
  PROVE  /\ EqualsBool(Scalar(c), k) = Scalar(IF c = k THEN 1 ELSE 0)
         /\ AboveBool(Scalar(c), k) = Scalar(IF c > k THEN 1 ELSE 0)
         /\ Equals(Scalar(c), k) = IF c = k THEN Scalar(c) ELSE {}
         /\ Above(Scalar(c), k) = IF c > k THEN Scalar(c) ELSE {}
BY DEF EqualsBool, AboveBool, Equals, Above, Scalar, Sample

LEMMA EmptyCompare ==
  ASSUME NEW k
  PROVE  /\ EqualsBool({}, k) = {} /\ AboveBool({}, k) = {}
         /\ Equals({}, k) = {} /\ Above({}, k) = {}
BY DEF EqualsBool, AboveBool, Equals, Above

\* The count of what is there is positive; a vector on a scalar is itself.
LEMMA CountOfFinite ==
  ASSUME NEW vec, IsFiniteSet(vec)
  PROVE  /\ vec = {} => By(vec, {}, CountOf) = {}
         /\ vec # {} => By(vec, {}, CountOf) = Scalar(Cardinality(vec)) /\ Cardinality(vec) > 0
         /\ Cardinality(vec) \in Nat
         /\ Above(By(vec, {}, CountOf), 0) = {} <=> vec = {}
<1>1. Cardinality(vec) \in Nat /\ (Cardinality(vec) = 0 <=> vec = {})
  BY FS_CardinalityType, FS_EmptySet
<1>2. vec # {} => Cardinality(vec) > 0
  BY <1>1
<1>3. By(vec, {}, CountOf) = IF vec = {} THEN {} ELSE Scalar(Cardinality(vec))
  BY CountOfAll
<1>4. Scalar(Cardinality(vec)) # {}
  BY DEF Scalar
<1>5. vec # {} => Above(Scalar(Cardinality(vec)), 0) # {}
  BY <1>2, <1>4, ScalarCompare
<1>6. Above({}, 0) = {}
  BY EmptyCompare
<1> QED BY <1>1, <1>2, <1>3, <1>5, <1>6

LEMMA AndOnSides ==
  \A a, b : /\ b # {} => AndOn(a, b) = a
            /\ AndOn({}, b) = {} /\ AndOn(a, {}) = {}
BY DEF AndOn

LEMMA ScalarLight ==
  ASSUME NEW c \in Int
  PROVE  /\ LightOf({}) = "STALE"
         /\ LightOf(Scalar(c)) = IF c > 0 THEN "HAZARD" ELSE "OK"
<1>1. LightOf({}) = "STALE"
  BY DEF LightOf
<1>2. \A x \in Scalar(c) : x.value = c
  BY DEF Scalar, Sample
<1> QED BY <1>1, <1>2, ScalarValues DEF LightOf

---------------------------------------------------------------------------
(* Induction over finite sets.  FS_Induction takes a predicate, which no   *)
(* backend can instantiate; a set of counterexamples serves as well: if it *)
(* has an element it has a least one.                                      *)

LEMMA LeastSubset ==
  ASSUME NEW S, IsFiniteSet(S), NEW T, T \subseteq SUBSET S, T # {}
  PROVE  \E least \in T : \A other \in T : other \subseteq least => other = least
<1>1. IsWellFoundedOn(StrictSubsetOrdering(S), SUBSET S)
  BY FS_StrictSubsetOrderingWellFounded, FS_FiniteSubsetsOfFinite
<1>2. \E least \in T : \A other \in T : <<other, least>> \notin StrictSubsetOrdering(S)
  BY <1>1, WFMin, Zenon
<1> QED BY <1>2, Zenon DEF StrictSubsetOrdering

\* The same as a formula, for a set of counterexamples.
LEMMA LeastCounterexample ==
  \A S, Bad : IsFiniteSet(S) /\ Bad # {} /\ (\A T \in Bad : T \subseteq S)
                => \E T \in Bad : \A other \in Bad : other \subseteq T => other = T
<1> TAKE S, Bad
<1> HAVE IsFiniteSet(S) /\ Bad # {} /\ \A T \in Bad : T \subseteq S
<1>1. Bad \subseteq SUBSET S
  OBVIOUS
<1> QED BY <1>1, LeastSubset

\* A finite set of integers has a greatest and a least element.
LEMMA FiniteBounds ==
  ASSUME NEW S, S \subseteq Int, IsFiniteSet(S), S # {}
  PROVE  /\ Max(S) \in S /\ \A v \in S : v <= Max(S)
         /\ Min(S) \in S /\ \A v \in S : Min(S) <= v
<1> DEFINE Bounded(T) == /\ \E m \in T : \A v \in T : v <= m
                         /\ \E m \in T : \A v \in T : m <= v
           Bad == {T \in SUBSET S : T # {} /\ ~Bounded(T)}
<1>1. Bad = {}
  <2> SUFFICES ASSUME Bad # {} PROVE FALSE
    OBVIOUS
  <2>1. PICK T \in Bad : \A other \in Bad : other \subseteq T => other = T
    <3>1. \A U \in Bad : U \subseteq S
      OBVIOUS
    <3>2. IsFiniteSet(S) /\ Bad # {}
      OBVIOUS
    <3> HIDE DEF Bad, Bounded
    <3> QED BY <3>1, <3>2, LeastCounterexample
  <2>2. PICK x \in T : TRUE
    OBVIOUS
  <2>3. CASE T = {x}
    BY <2>2, <2>3
  <2>4. CASE T # {x}
    <3>1. T \ {x} \notin Bad
      BY <2>1, <2>2
    <3>2. T \ {x} # {} /\ T \ {x} \in SUBSET S
      BY <2>2, <2>4
    <3>3. Bounded(T \ {x})
      BY <3>1, <3>2
    <3>4. PICK high \in T \ {x} : \A v \in T \ {x} : v <= high
      BY <3>3
    <3>5. PICK low \in T \ {x} : \A v \in T \ {x} : low <= v
      BY <3>3
    <3>6. x \in Int /\ high \in Int /\ low \in Int /\ \A v \in T : v \in Int
      BY <3>4, <3>5
    <3>7. \E m \in T : \A v \in T : v <= m
      <4>1. CASE x <= high
        BY <3>4, <4>1
      <4>2. CASE ~(x <= high)
        BY <3>4, <3>6, <4>2
      <4> QED BY <4>1, <4>2
    <3>8. \E m \in T : \A v \in T : m <= v
      <4>1. CASE low <= x
        BY <3>5, <4>1
      <4>2. CASE ~(low <= x)
        BY <3>5, <3>6, <4>2
      <4> QED BY <4>1, <4>2
    <3> QED BY <3>7, <3>8
  <2> QED BY <2>3, <2>4
<1>2. Bounded(S)
  BY <1>1
<1>3. \E m \in S : \A v \in S : m >= v
  BY <1>2
<1> QED BY <1>2, <1>3, Zenon DEF Max, Min

---------------------------------------------------------------------------
(* What an aggregation returns once its greatest or least sample is known. *)

LEMMA MaxIs ==
  ASSUME NEW vec, NEW m \in Int, NEW top \in vec, top.value = m,
         \A x \in vec : x.value \in Int /\ x.value <= m
  PROVE  MaxOf(vec) = m
<1> DEFINE S == Values(vec)
<1>1. m \in S /\ \A v \in S : v \in Int /\ v <= m
  BY DEF Values
<1> HIDE DEF S
<1>2. \A v \in S : (\A w \in S : v >= w) => v = m
  BY <1>1
<1>3. \A w \in S : m >= w
  BY <1>1
<1>4. Max(S) = m
  BY <1>1, <1>2, <1>3, Zenon DEF Max
<1> QED BY <1>4 DEF MaxOf, S

LEMMA MinIs ==
  ASSUME NEW vec, NEW m \in Int, NEW bottom \in vec, bottom.value = m,
         \A x \in vec : x.value \in Int /\ m <= x.value
  PROVE  MinOf(vec) = m
<1> DEFINE S == Values(vec)
<1>1. m \in S /\ \A v \in S : v \in Int /\ m <= v
  BY DEF Values
<1> HIDE DEF S
<1>2. \A v \in S : (\A w \in S : v <= w) => v = m
  BY <1>1
<1>3. \A w \in S : m <= w
  BY <1>1
<1>4. Min(S) = m
  BY <1>1, <1>2, <1>3, Zenon DEF Min
<1> QED BY <1>4 DEF MinOf, S

\* A maximum bounds its samples, whatever they are.
LEMMA MaxBounds ==
  ASSUME NEW vec, NEW x \in vec, IsFiniteSet(Values(vec)), Values(vec) \subseteq Int
  PROVE  MaxOf(vec) \in Values(vec) /\ x.value <= MaxOf(vec)
<1>1. x.value \in Values(vec)
  BY DEF Values
<1> HIDE DEF Values
<1> QED BY <1>1, FiniteBounds DEF MaxOf

---------------------------------------------------------------------------
(* Aggregation by one label.                                               *)

Group(vec, label, row) == {x \in vec : label \in DOMAIN x.labels /\ x.labels[label] = row}

LEMMA WhereIsGroup == \A vec, label, row : Where(vec, label, {row}) = Group(vec, label, row)
BY DEF Where, Group

\* The labels an aggregation by one label leaves.
OnlyLabel(label, row) == [l \in {label} |-> row]

LEMMA OnlyLabelFields ==
  \A label, a, b : /\ OnlyLabel(label, a)[label] = a
                   /\ OnlyLabel(label, a) = OnlyLabel(label, b) <=> a = b
<1> TAKE label, a, b
<1>1. OnlyLabel(label, a)[label] = a /\ OnlyLabel(label, b)[label] = b
  BY DEF OnlyLabel
<1> QED BY <1>1

LEMMA KeyOf ==
  \A labels, label : label \in DOMAIN labels =>
     Restrict(labels, {label} \cap DOMAIN labels) = OnlyLabel(label, labels[label])
BY DEF Restrict, OnlyLabel

LEMMA MaxByLabel ==
  ASSUME NEW vec, NEW label, \A x \in vec : label \in DOMAIN x.labels
  PROVE  \A s : s \in By(vec, {label}, MaxOf) <=>
             \E x \in vec : s = Sample(OnlyLabel(label, x.labels[label]),
                                     MaxOf(Group(vec, label, x.labels[label])))
<1> DEFINE Key(x) == Restrict(x.labels, {label} \cap DOMAIN x.labels)
<1>1. \A x \in vec : Key(x) = OnlyLabel(label, x.labels[label])
  BY KeyOf
<1>2. \A x \in vec : {y \in vec : Key(y) = Key(x)} = Group(vec, label, x.labels[label])
  <2> HIDE DEF Key
  <2> TAKE x \in vec
  <2>1. \A y \in vec : Key(y) = Key(x) <=> y.labels[label] = x.labels[label]
    BY <1>1, OnlyLabelFields
  <2> QED BY <2>1 DEF Group
<1>3. \A s : s \in By(vec, {label}, MaxOf) <=>
               \E x \in vec : s = Sample(Key(x), MaxOf({y \in vec : Key(y) = Key(x)}))
  BY Zenon DEF By
<1> HIDE DEF Key
<1> QED BY <1>1, <1>2, <1>3, Zenon

LEMMA NamesByLabel ==
  ASSUME NEW vec, NEW label, \A x \in vec : label \in DOMAIN x.labels
  PROVE  Names(By(vec, {label}, MaxOf), label) = {x.labels[label] : x \in vec}
<1> DEFINE V == By(vec, {label}, MaxOf)
<1>1. \A s : s \in V <=> \E x \in vec : s = Sample(OnlyLabel(label, x.labels[label]),
                                     MaxOf(Group(vec, label, x.labels[label])))
  BY MaxByLabel
<1> HIDE DEF V
<1>2. \A r : r \in Names(V, label) <=> \E s \in V : r = s.labels[label]
  BY Zenon DEF Names
<1>3. \A r, m : Sample(OnlyLabel(label, r), m).labels[label] = r
  BY OnlyLabelFields, SampleFields
<1>4. ASSUME NEW s \in V PROVE \E x \in vec : s.labels[label] = x.labels[label]
  <2>1. PICK x \in vec : s = Sample(OnlyLabel(label, x.labels[label]),
                                     MaxOf(Group(vec, label, x.labels[label])))
    BY <1>1, Zenon
  <2>2. s.labels[label] = x.labels[label]
    BY <1>3, <2>1, Zenon
  <2> QED BY <2>2, Zenon
<1>5. ASSUME NEW x \in vec PROVE x.labels[label] \in Names(V, label)
  <2> DEFINE s == Sample(OnlyLabel(label, x.labels[label]), MaxOf(Group(vec, label, x.labels[label])))
  <2>1. s \in V
    BY <1>1, Zenon
  <2>2. s.labels[label] = x.labels[label]
    BY <1>3, Zenon
  <2> HIDE DEF s
  <2> QED BY <1>2, <2>1, <2>2
<1>6. \A r : r \in Names(V, label) <=> r \in {x.labels[label] : x \in vec}
  BY <1>2, <1>4, <1>5
<1> QED BY <1>6, Zenon DEF V

LEMMA CellOf ==
  ASSUME NEW vec, NEW label, NEW row
  PROVE  Cell(vec, label, row) = IF Group(vec, label, row) = {} THEN {}
                                 ELSE {MaxOf(Group(vec, label, row))}
<1> DEFINE G == Group(vec, label, row)
           V == By(G, {label}, MaxOf)
           top == Sample(OnlyLabel(label, row), MaxOf(G))
<1>1. \A x \in G : label \in DOMAIN x.labels /\ x.labels[label] = row
  BY DEF Group
<1>2. Cell(vec, label, row) = Values(V)
  BY WhereIsGroup DEF Cell
<1>3. \A x \in G : Group(G, label, x.labels[label]) = G
  BY DEF Group
<1>4. \A s : s \in V <=> \E x \in G : s = Sample(OnlyLabel(label, x.labels[label]),
                                     MaxOf(Group(G, label, x.labels[label])))
  BY <1>1, MaxByLabel
<1>5. top.value = MaxOf(G)
  BY SampleFields, Zenon
<1> HIDE DEF G, V, top
<1>6. \A s : s \in V <=> G # {} /\ s = top
  <2>1. \A x \in G : Sample(OnlyLabel(label, x.labels[label]),
                             MaxOf(Group(G, label, x.labels[label]))) = top
    BY <1>1, <1>3, Zenon DEF top
  <2> QED BY <1>4, <2>1
<1>7. \A v : v \in Values(V) <=> \E s \in V : v = s.value
  BY Zenon DEF Values
<1>8. \A v : v \in Values(V) <=> G # {} /\ v = MaxOf(G)
  BY <1>5, <1>6, <1>7
<1>9. Values(V) = IF G = {} THEN {} ELSE {MaxOf(G)}
  BY <1>8
<1> QED BY <1>2, <1>9, Zenon DEF G

---------------------------------------------------------------------------
(* Counts.                                                                 *)

LEMMA CountFacts ==
  ASSUME NEW vec, IsFiniteSet(vec)
  PROVE  /\ Cardinality(vec) \in Nat
         /\ Cardinality(vec) > 0 <=> vec # {}
         /\ Cardinality(vec) > 1 <=> \E x, y \in vec : x # y
<1>1. Cardinality(vec) \in Nat /\ (Cardinality(vec) = 0 <=> vec = {})
  BY FS_CardinalityType, FS_EmptySet
<1>2. Cardinality(vec) = 1 <=> \E x : vec = {x}
  BY FS_Singleton
<1>3. (\E x, y \in vec : x # y) <=> vec # {} /\ ~\E x : vec = {x}
  <2>1. ASSUME NEW x \in vec, \A y \in vec : y = x PROVE vec = {x}
    BY <2>1
  <2> QED BY <2>1
<1>4. \A c \in Nat : (c > 0 <=> c # 0) /\ (c > 1 <=> c # 0 /\ c # 1)
  OBVIOUS
<1> QED BY <1>1, <1>2, <1>3, <1>4, Zenon

LEMMA TwoElements ==
  \A a, b : a # b => IsFiniteSet({a, b}) /\ Cardinality({a, b}) = 2
<1> TAKE a, b
<1> HAVE a # b
<1>1. IsFiniteSet({a}) /\ Cardinality({a}) = 1
  BY FS_Singleton
<1>2. IsFiniteSet({a} \cup {b}) /\ Cardinality({a} \cup {b}) = Cardinality({a}) + 1
  BY <1>1, FS_AddElement
<1>3. {a} \cup {b} = {a, b}
  OBVIOUS
<1>4. IsFiniteSet({a, b}) /\ Cardinality({a, b}) = Cardinality({a}) + 1
  BY <1>2, <1>3, Zenon
<1> QED BY <1>1, <1>4

\* What a finite set indexes is finite, and as large if the index is injective.
LEMMA IndexedFinite ==
  ASSUME NEW D, IsFiniteSet(D), NEW f
  PROVE  IsFiniteSet({f[d] : d \in D})
<1> DEFINE W == {f[d] : d \in D}
           g == [d \in D |-> f[d]]
<1>1. g \in Surjection(D, W)
  BY DEF Surjection
<1> HIDE DEF W, g
<1>2. IsFiniteSet(W)
  BY <1>1, FS_Surjection
<1> QED BY <1>2 DEF W

LEMMA CoveredFinite ==
  ASSUME NEW D, IsFiniteSet(D), NEW f, NEW vec, \A x \in vec : \E d \in D : x = f[d]
  PROVE  IsFiniteSet(vec)
<1> DEFINE W == {f[d] : d \in D}
<1>1. IsFiniteSet(W)
  BY IndexedFinite
<1>2. vec \in SUBSET W
  OBVIOUS
<1> HIDE DEF W
<1> QED BY <1>1, <1>2, FS_Subset

LEMMA IndexedCount ==
  ASSUME NEW D, IsFiniteSet(D), NEW f, \A a, b \in D : f[a] = f[b] => a = b
  PROVE  /\ IsFiniteSet({f[d] : d \in D})
         /\ Cardinality({f[d] : d \in D}) = Cardinality(D)
<1> DEFINE W == {f[d] : d \in D}
           g == [d \in D |-> f[d]]
<1>1. g \in Bijection(D, W)
  BY DEF Bijection, Injection, Surjection, IsInjective
<1> HIDE DEF W, g
<1>2. ExistsBijection(D, W)
  BY <1>1, Zenon DEF ExistsBijection
<1>3. IsFiniteSet(W) /\ Cardinality(W) = Cardinality(D)
  BY <1>2, FS_Bijection
<1> QED BY <1>3 DEF W

\* An aggregation by a label has one sample for every value of the label.
RowsOf(vec, label) == {x.labels[label] : x \in vec}

AllHave(vec, label) == \A x \in vec : label \in DOMAIN x.labels
At(vec, k) == {x \in vec : x.value = k}
RowsAt(vec, label, k) == {r \in RowsOf(vec, label) : MaxOf(Group(vec, label, r)) = k}

LEMMA CountRows ==
  ASSUME NEW vec, NEW label, AllHave(vec, label), IsFiniteSet(RowsOf(vec, label))
  PROVE  /\ IsFiniteSet(By(vec, {label}, MaxOf))
         /\ Cardinality(By(vec, {label}, MaxOf)) = Cardinality(RowsOf(vec, label))
         /\ \A k : Cardinality(At(By(vec, {label}, MaxOf), k)) = Cardinality(RowsAt(vec, label, k))
<1> DEFINE V == By(vec, {label}, MaxOf)
           R == RowsOf(vec, label)
           f == [r \in R |-> Sample(OnlyLabel(label, r), MaxOf(Group(vec, label, r)))]
<1>1. \A r : r \in R <=> \E x \in vec : r = x.labels[label]
  BY Zenon DEF RowsOf
<1>2. \A s : s \in V <=> \E x \in vec : s = Sample(OnlyLabel(label, x.labels[label]),
                                     MaxOf(Group(vec, label, x.labels[label])))
  BY MaxByLabel DEF AllHave
<1>3. \A r \in R : /\ f[r] = Sample(OnlyLabel(label, r), MaxOf(Group(vec, label, r)))
                   /\ f[r].labels = OnlyLabel(label, r)
                   /\ f[r].value = MaxOf(Group(vec, label, r))
  BY SampleFields
<1> HIDE DEF V, R, f
<1>4. \A s : s \in V <=> \E r \in R : s = f[r]
  <2>1. ASSUME NEW s \in V PROVE \E r \in R : s = f[r]
    BY <1>1, <1>2, <1>3
  <2>2. ASSUME NEW r \in R PROVE f[r] \in V
    BY <1>1, <1>2, <1>3
  <2> QED BY <2>1, <2>2
<1>5. \A a, b \in R : f[a] = f[b] => a = b
  <2> TAKE a, b \in R
  <2> HAVE f[a] = f[b]
  <2>1. OnlyLabel(label, a) = OnlyLabel(label, b)
    BY <1>3
  <2> QED BY <2>1, OnlyLabelFields
<1>6. V = {f[r] : r \in R}
  BY <1>4
<1>7. IsFiniteSet(R)
  BY DEF R
<1>8. ASSUME NEW k
      PROVE  Cardinality(At(V, k)) = Cardinality(RowsAt(vec, label, k))
  <2> DEFINE D == {r \in R : MaxOf(Group(vec, label, r)) = k}
  <2>1. {x \in V : x.value = k} = {f[r] : r \in D}
    BY <1>3, <1>4
  <2>2. D \in SUBSET R
    OBVIOUS
  <2> HIDE DEF D
  <2>3. IsFiniteSet(D) /\ \A a, b \in D : f[a] = f[b] => a = b
    BY <1>5, <1>7, <2>2, FS_Subset
  <2>4. Cardinality({f[r] : r \in D}) = Cardinality(D)
    BY <2>3, IndexedCount
  <2> QED BY <2>1, <2>4 DEF D, At, RowsAt, R
<1>9. IsFiniteSet(V) /\ Cardinality(V) = Cardinality(R)
  BY <1>5, <1>6, <1>7, IndexedCount
<1> QED BY <1>8, <1>9 DEF V, R

---------------------------------------------------------------------------
(* Sums.  SumOf folds a set by removing one element at a time; that there  *)
(* is such a fold, and one only, is a recursion over the subsets.          *)

Pick(s) == CHOOSE x \in s : TRUE

IsSum(h, S) ==
  h = [s \in SUBSET S |-> IF s = {} THEN 0 ELSE Pick(s).value + h[s \ {Pick(s)}]]

LEMMA SumIsFold == \A S : SumOf(S) = (CHOOSE h : IsSum(h, S))[S]
BY Zenon DEF SumOf, MapThenSumSet, MapThenFoldSet, IsSum, Pick

LEMMA PickIn == \A s : s # {} => Pick(s) \in s
BY DEF Pick

LEMMA SumSteps ==
  \A S, h : IsSum(h, S) =>
    \A s \in SUBSET S : h[s] = IF s = {} THEN 0 ELSE Pick(s).value + h[s \ {Pick(s)}]
BY DEF IsSum

LEMMA SumUnique ==
  ASSUME NEW S, IsFiniteSet(S), NEW h, NEW g, IsSum(h, S), IsSum(g, S)
  PROVE  h = g
<1> DEFINE Bad == {s \in SUBSET S : h[s] # g[s]}
<1>1. Bad = {}
  <2> SUFFICES ASSUME Bad # {} PROVE FALSE
    OBVIOUS
  <2>1. PICK T \in Bad : \A other \in Bad : other \subseteq T => other = T
    <3>1. Bad # {} /\ \A T \in Bad : T \subseteq S
      OBVIOUS
    <3> HIDE DEF Bad
    <3> QED BY <3>1, LeastCounterexample
  <2>2. h[T] = IF T = {} THEN 0 ELSE Pick(T).value + h[T \ {Pick(T)}]
    BY SumSteps, T \in SUBSET S
  <2>3. g[T] = IF T = {} THEN 0 ELSE Pick(T).value + g[T \ {Pick(T)}]
    BY SumSteps, T \in SUBSET S
  <2>4. T # {} => T \ {Pick(T)} \notin Bad
    <3> HIDE DEF Bad
    <3> QED BY <2>1, PickIn
  <2>5. T # {} => h[T \ {Pick(T)}] = g[T \ {Pick(T)}]
    BY <2>4
  <2> QED BY <2>2, <2>3, <2>5
<1>2. h = [s \in SUBSET S |-> h[s]] /\ g = [s \in SUBSET S |-> g[s]]
  BY DEF IsSum
<1> QED BY <1>1, <1>2

LEMMA SumRestricts ==
  ASSUME NEW S, NEW h, IsSum(h, S), NEW T \in SUBSET S
  PROVE  IsSum([s \in SUBSET T |-> h[s]], T)
<1> DEFINE g == [s \in SUBSET T |-> h[s]]
<1>1. ASSUME NEW s \in SUBSET T
      PROVE  g[s] = IF s = {} THEN 0 ELSE Pick(s).value + g[s \ {Pick(s)}]
  <2>1. h[s] = IF s = {} THEN 0 ELSE Pick(s).value + h[s \ {Pick(s)}]
    BY SumSteps
  <2>2. s \ {Pick(s)} \in SUBSET T
    OBVIOUS
  <2>3. g[s] = h[s] /\ g[s \ {Pick(s)}] = h[s \ {Pick(s)}]
    BY <2>2
  <2> QED BY <2>1, <2>3
<1>2. g = [s \in SUBSET T |-> g[s]]
  OBVIOUS
<1> HIDE DEF g
<1> QED BY <1>1, <1>2, Zenon DEF IsSum, g

LEMMA SumBy ==
  ASSUME NEW S, IsFiniteSet(S), NEW h, IsSum(h, S), NEW T \in SUBSET S
  PROVE  SumOf(T) = h[T]
<1> DEFINE g == [s \in SUBSET T |-> h[s]]
<1>1. IsSum(g, T)
  BY SumRestricts
<1>2. IsFiniteSet(T)
  BY FS_Subset
<1>3. g[T] = h[T]
  OBVIOUS
<1> HIDE DEF g
<1>4. IsSum(CHOOSE f : IsSum(f, T), T)
  BY <1>1, Zenon
<1>5. (CHOOSE f : IsSum(f, T)) = g
  BY <1>1, <1>2, <1>4, SumUnique
<1> QED BY <1>3, <1>5, SumIsFold

\* One step of the sum, for a set that has a fold.
LEMMA SumStepOf ==
  ASSUME NEW S, IsFiniteSet(S), NEW h, IsSum(h, S)
  PROVE  SumOf(S) = IF S = {} THEN 0 ELSE Pick(S).value + SumOf(S \ {Pick(S)})
<1>1. S \in SUBSET S /\ S \ {Pick(S)} \in SUBSET S
  OBVIOUS
<1>2. SumOf(S) = h[S] /\ SumOf(S \ {Pick(S)}) = h[S \ {Pick(S)}]
  BY <1>1, SumBy
<1> QED BY <1>1, <1>2, SumSteps

LEMMA SumExists ==
  ASSUME NEW S, IsFiniteSet(S)
  PROVE  \E h : IsSum(h, S)
<1> DEFINE Bad == {T \in SUBSET S : ~\E h : IsSum(h, T)}
<1>1. Bad = {}
  <2> SUFFICES ASSUME Bad # {} PROVE FALSE
    OBVIOUS
  <2>1. PICK T \in Bad : \A other \in Bad : other \subseteq T => other = T
    <3>1. Bad # {} /\ \A T \in Bad : T \subseteq S
      OBVIOUS
    <3> HIDE DEF Bad
    <3> QED BY <3>1, LeastCounterexample
  <2>2. ASSUME NEW W \in SUBSET T, W # T
        PROVE  SumOf(W) = IF W = {} THEN 0 ELSE Pick(W).value + SumOf(W \ {Pick(W)})
    <3>1. W \notin Bad /\ W \in SUBSET S
      BY <2>1, <2>2
    <3>2. PICK h : IsSum(h, W)
      BY <3>1
    <3>3. IsFiniteSet(W)
      BY <3>1, FS_Subset
    <3> QED BY <3>2, <3>3, SumStepOf
  <2> DEFINE g == [s \in SUBSET T |-> IF s = {} THEN 0 ELSE Pick(s).value + SumOf(s \ {Pick(s)})]
  <2>3. \A W \in SUBSET T : W # T => g[W] = SumOf(W)
    <3> HIDE DEF Bad
    <3> QED BY <2>2
  <2>4. ASSUME NEW s \in SUBSET T
        PROVE  g[s] = IF s = {} THEN 0 ELSE Pick(s).value + g[s \ {Pick(s)}]
    <3>1. CASE s = {}
      BY <3>1
    <3>2. CASE s # {}
      <4>1. s \ {Pick(s)} \in SUBSET T /\ s \ {Pick(s)} # T
        BY <3>2, PickIn
      <4>2. g[s \ {Pick(s)}] = SumOf(s \ {Pick(s)})
        BY <2>3, <4>1
      <4>3. g[s] = Pick(s).value + SumOf(s \ {Pick(s)})
        BY <3>2
      <4> QED BY <3>2, <4>2, <4>3
    <3> QED BY <3>1, <3>2
  <2>5. g = [s \in SUBSET T |-> g[s]]
    OBVIOUS
  <2> HIDE DEF g
  <2>6. IsSum(g, T)
    BY <2>4, <2>5, Zenon DEF IsSum
  <2> QED BY <2>6
<1> QED BY <1>1

\* The sum of a vector is that of one of its samples and the rest.
LEMMA SumStep ==
  ASSUME NEW S, IsFiniteSet(S)
  PROVE  SumOf(S) = IF S = {} THEN 0 ELSE Pick(S).value + SumOf(S \ {Pick(S)})
BY SumExists, SumStepOf

\* It may be any of them.
LEMMA SumWithout ==
  ASSUME NEW vec, IsFiniteSet(vec), \A x \in vec : x.value \in Int
  PROVE  SumOf(vec) \in Int /\ \A x \in vec : SumOf(vec) = x.value + SumOf(vec \ {x})
<1> DEFINE Good(T) == SumOf(T) \in Int /\ \A x \in T : SumOf(T) = x.value + SumOf(T \ {x})
           Bad == {T \in SUBSET vec : ~Good(T)}
<1>1. Bad = {}
  <2> SUFFICES ASSUME Bad # {} PROVE FALSE
    OBVIOUS
  <2>1. PICK T \in Bad : \A other \in Bad : other \subseteq T => other = T
    <3>1. Bad # {} /\ \A T \in Bad : T \subseteq vec
      OBVIOUS
    <3> HIDE DEF Bad
    <3> QED BY <3>1, LeastCounterexample
  <2>2. \A U \in SUBSET T : U # T => Good(U)
    <3>1. \A U \in SUBSET vec : Good(U) \/ U \in Bad
      OBVIOUS
    <3>2. T \in SUBSET vec
      OBVIOUS
    <3> HIDE DEF Good, Bad
    <3> QED BY <2>1, <3>1, <3>2
  <2>3. T \in SUBSET vec /\ ~Good(T)
    OBVIOUS
  <2>4. IsFiniteSet(T) /\ \A x \in T : x.value \in Int
    BY <2>3, FS_Subset
  <2>5. SumOf(T) = IF T = {} THEN 0 ELSE Pick(T).value + SumOf(T \ {Pick(T)})
    BY <2>4, SumStep
  <2>6. CASE T = {}
    BY <2>3, <2>5, <2>6
  <2>7. CASE T # {}
    <3> DEFINE p == Pick(T)
               rest == T \ {p}
    <3>1. p \in T /\ p.value \in Int
      BY <2>4, <2>7, PickIn
    <3>2. Good(rest)
      BY <2>2, <3>1
    <3> HIDE DEF p
    <3>3. SumOf(T) = p.value + SumOf(rest)
      BY <2>5, <2>7 DEF p
    <3>4. SumOf(T) \in Int
      BY <3>1, <3>2, <3>3
    <3>5. ASSUME NEW x \in T PROVE SumOf(T) = x.value + SumOf(T \ {x})
      <4>1. CASE x = p
        BY <3>3, <4>1
      <4>2. CASE x # p
        <5>1. x \in rest /\ p \in T \ {x} /\ rest \ {x} = (T \ {x}) \ {p}
          BY <3>1, <4>2
        <5>2. Good(T \ {x}) /\ Good(rest \ {x})
          BY <2>2, <3>1
        <5>3. SumOf(rest) = x.value + SumOf(rest \ {x})
          BY <3>2, <5>1
        <5>4. SumOf(T \ {x}) = p.value + SumOf(rest \ {x})
          BY <5>1, <5>2
        <5>5. x.value \in Int /\ SumOf(rest \ {x}) \in Int
          BY <2>4, <5>2
        <5> HIDE DEF rest
        <5> QED BY <3>1, <3>3, <5>3, <5>4, <5>5
      <4> QED BY <4>1, <4>2
    <3> QED BY <2>3, <3>4, <3>5
  <2> QED BY <2>6, <2>7
<1> QED BY <1>1

\* The sum of a function's values over a set.
Indexed(f, I) == {Sample([tick |-> i], f[i]) : i \in I}

LEMMA IndexedSum ==
  ASSUME NEW I, IsFiniteSet(I), NEW f, \A i \in I : f[i] \in Int
  PROVE  /\ SumOf(Indexed(f, I)) \in Int
         /\ \A i \in I : SumOf(Indexed(f, I)) = f[i] + SumOf(Indexed(f, I \ {i}))
         /\ SumOf(Indexed(f, {})) = 0
<1> DEFINE row(i) == Sample([tick |-> i], f[i])
           vec == Indexed(f, I)
<1>1. \A i : row(i).value = f[i] /\ row(i).labels = [tick |-> i]
  BY SampleFields
<1>2. \A i, j : row(i) = row(j) <=> i = j
  <2>1. \A i : [tick |-> i].tick = i
    OBVIOUS
  <2> HIDE DEF row
  <2>2. ASSUME NEW i, NEW j, row(i) = row(j) PROVE i = j
    <3>1. [tick |-> i] = [tick |-> j]
      BY <1>1, <2>2
    <3> QED BY <2>1, <3>1
  <2> QED BY <2>2
<1>3. \A J, x : x \in Indexed(f, J) <=> \E i \in J : x = row(i)
  BY Zenon DEF Indexed
<1> DEFINE g == [i \in I |-> row(i)]
<1>4. \A i \in I : g[i] = row(i)
  OBVIOUS
<1> HIDE DEF row, vec, g
<1>5. IsFiniteSet(vec)
  <2>1. \A x \in vec : \E i \in I : x = g[i]
    BY <1>3, <1>4 DEF vec
  <2> QED BY <2>1, CoveredFinite
<1>6. \A x \in vec : x.value \in Int
  BY <1>1, <1>3 DEF vec
<1>7. \A i \in I : row(i) \in vec /\ vec \ {row(i)} = Indexed(f, I \ {i})
  <2> TAKE i \in I
  <2>1. \A x : x \in vec \ {row(i)} <=> x \in Indexed(f, I \ {i})
    BY <1>2, <1>3 DEF vec
  <2> QED BY <1>3, <2>1 DEF vec
<1>8. SumOf(vec) \in Int /\ \A i \in I : SumOf(vec) = f[i] + SumOf(Indexed(f, I \ {i}))
  BY <1>1, <1>5, <1>6, <1>7, SumWithout
<1>9. SumOf(Indexed(f, {})) = 0
  <2>1. Indexed(f, {}) = {}
    BY <1>3
  <2>2. SumOf({}) = 0
    BY FS_EmptySet, SumStep
  <2> QED BY <2>1, <2>2
<1> QED BY <1>8, <1>9 DEF vec

\* How the sums of two functions compare, one of them below the other.
SumsComparable(f, g, I) ==
  /\ SumOf(Indexed(f, I)) \in Nat /\ SumOf(Indexed(g, I)) \in Nat
  /\ SumOf(Indexed(g, I)) <= SumOf(Indexed(f, I))
  /\ SumOf(Indexed(f, I)) = 0 <=> \A i \in I : f[i] = 0
  /\ SumOf(Indexed(g, I)) = 0 <=> \A i \in I : g[i] = 0
  /\ SumOf(Indexed(g, I)) = SumOf(Indexed(f, I)) <=> \A i \in I : g[i] = f[i]

LEMMA SumsCompare ==
  ASSUME NEW I, IsFiniteSet(I), NEW f, NEW g,
         \A i \in I : f[i] \in Nat /\ g[i] \in Nat /\ g[i] <= f[i]
  PROVE  SumsComparable(f, g, I)
<1> DEFINE F(J) == SumOf(Indexed(f, J))
           G(J) == SumOf(Indexed(g, J))
           Good(J) == /\ F(J) \in Nat /\ G(J) \in Nat /\ G(J) <= F(J)
                      /\ F(J) = 0 <=> \A i \in J : f[i] = 0
                      /\ G(J) = 0 <=> \A i \in J : g[i] = 0
                      /\ G(J) = F(J) <=> \A i \in J : g[i] = f[i]
           Bad == {J \in SUBSET I : ~Good(J)}
<1>1. Bad = {}
  <2> SUFFICES ASSUME Bad # {} PROVE FALSE
    OBVIOUS
  <2>1. PICK T \in Bad : \A other \in Bad : other \subseteq T => other = T
    <3>1. Bad # {} /\ \A T \in Bad : T \subseteq I
      OBVIOUS
    <3> HIDE DEF Bad
    <3> QED BY <3>1, LeastCounterexample
  <2>2. \A U \in SUBSET T : U # T => Good(U)
    <3>1. \A U \in SUBSET I : Good(U) \/ U \in Bad
      OBVIOUS
    <3>2. T \in SUBSET I
      OBVIOUS
    <3> HIDE DEF Good, Bad
    <3> QED BY <2>1, <3>1, <3>2
  <2>3. T \in SUBSET I /\ ~Good(T)
    OBVIOUS
  <2>4. IsFiniteSet(T) /\ \A i \in T : f[i] \in Nat /\ g[i] \in Nat /\ g[i] <= f[i]
    BY <2>3, FS_Subset
  <2>5. \A i \in T : f[i] \in Int /\ g[i] \in Int
    BY <2>4
  <2>6. F({}) = 0 /\ G({}) = 0
    BY <2>4, <2>5, IndexedSum
  <2>7. CASE T = {}
    BY <2>3, <2>6, <2>7
  <2>8. CASE T # {}
    <3>1. PICK i \in T : TRUE
      BY <2>8
    <3>2. Good(T \ {i})
      BY <2>2, <3>1
    <3>3. F(T) = f[i] + F(T \ {i}) /\ G(T) = g[i] + G(T \ {i})
      BY <2>4, <2>5, <3>1, IndexedSum
    <3>4. f[i] \in Nat /\ g[i] \in Nat /\ g[i] <= f[i]
      BY <2>4, <3>1
    <3> HIDE DEF F, G
    <3>5. F(T) \in Nat /\ G(T) \in Nat /\ G(T) <= F(T)
      BY <3>2, <3>3, <3>4
    <3>6. F(T) = 0 <=> \A k \in T : f[k] = 0
      <4>1. F(T) = 0 <=> f[i] = 0 /\ F(T \ {i}) = 0
        BY <3>2, <3>3, <3>4
      <4> QED BY <3>1, <3>2, <4>1
    <3>7. G(T) = 0 <=> \A k \in T : g[k] = 0
      <4>1. G(T) = 0 <=> g[i] = 0 /\ G(T \ {i}) = 0
        BY <3>2, <3>3, <3>4
      <4> QED BY <3>1, <3>2, <4>1
    <3>8. G(T) = F(T) <=> \A k \in T : g[k] = f[k]
      <4>1. G(T) = F(T) <=> g[i] = f[i] /\ G(T \ {i}) = F(T \ {i})
        BY <3>2, <3>3, <3>4
      <4> QED BY <3>1, <3>2, <4>1
    <3> QED BY <2>3, <3>5, <3>6, <3>7, <3>8
  <2> QED BY <2>7, <2>8
<1> QED BY <1>1 DEF SumsComparable

\* A sum in which one value counts.
LEMMA SumOfOne ==
  ASSUME NEW vec, IsFiniteSet(vec), NEW x \in vec, x.value \in Int,
         \A other \in vec : other # x => other.value = 0
  PROVE  SumOf(vec) = x.value
<1> DEFINE Bad == {T \in SUBSET (vec \ {x}) : SumOf(T) # 0}
<1>1. Bad = {}
  <2> SUFFICES ASSUME Bad # {} PROVE FALSE
    OBVIOUS
  <2>1. PICK T \in Bad : \A other \in Bad : other \subseteq T => other = T
    <3>1. Bad # {} /\ \A T \in Bad : T \subseteq vec
      OBVIOUS
    <3> HIDE DEF Bad
    <3> QED BY <3>1, LeastCounterexample
  <2>2. T \in SUBSET (vec \ {x}) /\ T \in SUBSET vec /\ SumOf(T) # 0
    OBVIOUS
  <2>3. IsFiniteSet(T)
    BY <2>2, FS_Subset
  <2>4. SumOf(T) = IF T = {} THEN 0 ELSE Pick(T).value + SumOf(T \ {Pick(T)})
    BY <2>3, SumStep
  <2>5. T # {}
    BY <2>2, <2>4
  <2>6. Pick(T) \in T /\ Pick(T).value = 0
    BY <2>2, <2>5, PickIn
  <2>7. SumOf(T \ {Pick(T)}) = 0
    BY <2>1, <2>2, <2>6
  <2> QED BY <2>2, <2>4, <2>6, <2>7
<1>2. SumOf(vec \ {x}) = 0
  BY <1>1
<1>3. \A other \in vec : other.value \in Int
  OBVIOUS
<1>4. SumOf(vec) = x.value + SumOf(vec \ {x})
  BY <1>3, SumWithout
<1> QED BY <1>2, <1>4

\* A sum of flags counts those that are set.
LEMMA SumOfFlags ==
  ASSUME NEW vec, IsFiniteSet(vec), \A x \in vec : x.value \in {0, 1}
  PROVE  SumOf(vec) = Cardinality(At(vec, 1))
<1> USE DEF At
<1> DEFINE Set(T) == At(T, 1)
           Bad == {T \in SUBSET vec : SumOf(T) # Cardinality(Set(T))}
<1>1. Bad = {}
  <2> SUFFICES ASSUME Bad # {} PROVE FALSE
    OBVIOUS
  <2>1. PICK T \in Bad : \A other \in Bad : other \subseteq T => other = T
    <3>1. Bad # {} /\ \A T \in Bad : T \subseteq vec
      OBVIOUS
    <3> HIDE DEF Bad
    <3> QED BY <3>1, LeastCounterexample
  <2> DEFINE p == Pick(T)
             rest == T \ {p}
  <2>2. T \in SUBSET vec /\ IsFiniteSet(T) /\ IsFiniteSet(Set(T)) /\ IsFiniteSet(Set(rest))
    <3>1. T \in SUBSET vec /\ Set(T) \in SUBSET vec /\ Set(rest) \in SUBSET vec
      OBVIOUS
    <3> QED BY <3>1, FS_Subset
  <2>3. T # {}
    <3>1. SumOf({}) = 0
      BY FS_EmptySet, SumStep
    <3>2. Cardinality(Set({})) = 0
      BY FS_EmptySet
    <3> QED BY <3>1, <3>2
  <2>4. p \in T /\ p.value \in {0, 1}
    BY <2>2, <2>3, PickIn
  <2>5. SumOf(T) = p.value + SumOf(rest)
    BY <2>2, <2>3, SumStep
  <2>6. SumOf(rest) = Cardinality(Set(rest))
    <3>1. rest \in SUBSET vec /\ rest # T
      BY <2>2, <2>4
    <3> QED BY <2>1, <3>1
  <2>7. Cardinality(Set(T)) = p.value + Cardinality(Set(rest))
    <3>1. Cardinality(Set(rest)) \in Nat
      BY <2>2, FS_CardinalityType
    <3>2. CASE p.value = 0
      <4>1. Set(T) = Set(rest)
        BY <3>2
      <4> QED BY <3>1, <3>2, <4>1
    <3>3. CASE p.value = 1
      <4>1. Set(rest) \cup {p} = Set(T) /\ p \notin Set(rest)
        BY <2>4, <3>3
      <4>2. Cardinality(Set(rest) \cup {p}) = Cardinality(Set(rest)) + 1
        BY <2>2, <4>1, FS_AddElement
      <4>3. Cardinality(Set(T)) = Cardinality(Set(rest)) + 1
        BY <4>1, <4>2, Zenon
      <4> HIDE DEF rest, p, Set
      <4> QED BY <3>1, <3>3, <4>3
    <3> QED BY <2>4, <3>2, <3>3
  <2> QED BY <2>5, <2>6, <2>7
<1> QED BY <1>1

---------------------------------------------------------------------------
(* Colours.                                                                *)

LEMMA ColorsOf ==
  ASSUME NEW v \in Nat
  PROVE  /\ ColorOf("up", v) = IF v = 0 THEN {"red"} ELSE IF v = 1 THEN {"green"} ELSE {}
         /\ ColorOf("clean0", v) = IF v = 0 THEN {"green"} ELSE IF v <= 9999 THEN {"red"} ELSE {}
         /\ ColorOf("sessions", v) = IF v = 0 THEN {"red"} ELSE IF v <= 9999 THEN {"green"} ELSE {}
         /\ ColorOf("role", v) = IF v = 0 THEN {"red"} ELSE IF v = 2 THEN {"green"}
                                 ELSE IF v \in {1, 3} THEN {"blue"} ELSE {}
<1>1. MAPPINGS["up"] = {Entry(0, 0, "red"), Entry(1, 1, "green")}
  BY DEF MAPPINGS
<1>2. MAPPINGS["clean0"] = {Entry(0, 0, "green"), Entry(1, 9999, "red")}
  BY DEF MAPPINGS
<1>3. MAPPINGS["sessions"] = {Entry(0, 0, "red"), Entry(1, 9999, "green")}
  BY DEF MAPPINGS
<1>4. MAPPINGS["role"] = {Entry(0, 0, "red"), Entry(1, 1, "blue"), Entry(2, 2, "green"), Entry(3, 3, "blue")}
  BY DEF MAPPINGS
<1>5. \A kind, c : c \in ColorOf(kind, v) <=>
                   \E e \in MAPPINGS[kind] : e.from <= v /\ v <= e.to /\ c = e.color
  BY DEF ColorOf
<1>6. \A from, to, color : LET e == Entry(from, to, color) IN
        e.from = from /\ e.to = to /\ e.color = color
  BY DEF Entry
<1>7. \A c : c \in ColorOf("up", v) <=> (v = 0 /\ c = "red") \/ (v = 1 /\ c = "green")
  BY <1>1, <1>5, <1>6
<1>8. \A c : c \in ColorOf("clean0", v) <=>
              (v = 0 /\ c = "green") \/ (1 <= v /\ v <= 9999 /\ c = "red")
  BY <1>2, <1>5, <1>6
<1>9. \A c : c \in ColorOf("sessions", v) <=>
              (v = 0 /\ c = "red") \/ (1 <= v /\ v <= 9999 /\ c = "green")
  BY <1>3, <1>5, <1>6
<1>10. \A c : c \in ColorOf("role", v) <=>
              (v = 0 /\ c = "red") \/ (v = 2 /\ c = "green") \/ (v \in {1, 3} /\ c = "blue")
  BY <1>4, <1>5, <1>6
<1> QED BY <1>7, <1>8, <1>9, <1>10

\* A cell of one sample, or of none, and its colour.
LEMMA CellOfOne ==
  ASSUME NEW vec, NEW label, NEW row, NEW x, x.value \in Int, Group(vec, label, row) = {x}
  PROVE  Cell(vec, label, row) = {x.value}
<1>1. MaxOf({x}) = x.value
  <2>1. x \in {x} /\ \A y \in {x} : y.value \in Int /\ y.value <= x.value
    OBVIOUS
  <2> DEFINE vec1 == {x}
             m == x.value
  <2>2. x \in vec1 /\ x.value = m /\ m \in Int /\ \A y \in vec1 : y.value \in Int /\ y.value <= m
    BY <2>1
  <2> HIDE DEF vec1, m
  <2>3. MaxOf(vec1) = m
    BY <2>2, MaxIs
  <2> QED BY <2>3 DEF vec1, m
<1> QED BY <1>1, CellOf

LEMMA ColorOfColumn ==
  ASSUME NEW vec, NEW label, NEW kind, NEW row
  PROVE  /\ \A v : Cell(vec, label, row) = {v} => Color(Column(vec, label, kind), row) = ColorOf(kind, v)
         /\ Cell(vec, label, row) = {} => Color(Column(vec, label, kind), row) = {}
BY DEF Color, Column

LEMMA ColorIs ==
  ASSUME NEW vec, NEW label, NEW kind, NEW row, NEW m \in Int,
         NEW top \in Group(vec, label, row), top.value = m,
         \A x \in Group(vec, label, row) : x.value \in Int /\ x.value <= m
  PROVE  Color(Column(vec, label, kind), row) = ColorOf(kind, m)
<1> DEFINE G == Group(vec, label, row)
<1>1. top \in G /\ \A x \in G : x.value \in Int /\ x.value <= m
  OBVIOUS
<1>2. Cell(vec, label, row) = IF G = {} THEN {} ELSE {MaxOf(G)}
  BY CellOf
<1> HIDE DEF G
<1>3. MaxOf(G) = m
  BY <1>1, MaxIs
<1>4. Cell(vec, label, row) = {m}
  BY <1>1, <1>2, <1>3
<1> QED BY <1>4, ColorOfColumn

LEMMA Colorless ==
  ASSUME NEW vec, NEW label, NEW kind, NEW row, Group(vec, label, row) = {}
  PROVE  Color(Column(vec, label, kind), row) = {}
BY CellOf, ColorOfColumn

\* The rows of a column that is first narrowed to some of them.
LEMMA GroupWithin ==
  ASSUME NEW vec, NEW label, NEW S, NEW row \in S
  PROVE  Group(Where(vec, label, S), label, row) = Group(vec, label, row)
BY DEF Group, Where

\* The colours of an RDQM board.
LEMMA RdqmColors ==
  /\ ColorOf("rdqm_role", 1) = {"blue"} /\ ColorOf("rdqm_role", 2) = {"green"}
  /\ ColorOf("qm_running", 0) = {"blue"} /\ ColorOf("qm_running", 1) = {"green"}
  /\ ColorOf("node_ready", 0) = {"red"} /\ ColorOf("node_ready", 1) = {"green"}
  /\ ColorOf("pm_state", 0) = {"grey"} /\ ColorOf("pm_state", 1) = {"blue"} /\ ColorOf("pm_state", 2) = {"green"}
  /\ ColorOf("failcount", 0) = {"green"}
  /\ \A v \in Int : 1000000 <= v /\ v <= Unlimited => ColorOf("failcount", v) = {"red"}
  /\ ColorOf("drbd_oos", 0) = {"green"} /\ ColorOf("drbd_oos", 4096) = {"red"}
<1>1. /\ MAPPINGS["rdqm_role"] = {Entry(0, 0, "red"), Entry(1, 1, "blue"), Entry(2, 2, "green")}
      /\ MAPPINGS["qm_running"] = {Entry(0, 0, "blue"), Entry(1, 1, "green")}
      /\ MAPPINGS["node_ready"] = {Entry(0, 0, "red"), Entry(1, 1, "green")}
      /\ MAPPINGS["pm_state"] = {Entry(0, 0, "grey"), Entry(1, 1, "blue"), Entry(2, 2, "green")}
  BY SMT DEF MAPPINGS
<1>2. MAPPINGS["failcount"] =
        {Entry(0, 0, "green"), Entry(1, 999999, "yellow"), Entry(1000000, Unlimited, "red")}
  BY SMT DEF MAPPINGS
<1>3. MAPPINGS["drbd_oos"] = {Entry(0, 4095, "green"), Entry(4096, Unlimited, "red")}
  BY SMT DEF MAPPINGS
<1>4. \A kind, v, c : c \in ColorOf(kind, v) <=>
                      \E e \in MAPPINGS[kind] : e.from <= v /\ v <= e.to /\ c = e.color
  BY DEF ColorOf
<1>5. \A from, to, color : LET e == Entry(from, to, color) IN
        e.from = from /\ e.to = to /\ e.color = color
  BY DEF Entry
<1>6. \A c : /\ c \in ColorOf("rdqm_role", 1) <=> c = "blue"
             /\ c \in ColorOf("rdqm_role", 2) <=> c = "green"
  BY <1>1, <1>4, <1>5, SMT
<1>7. \A c : /\ c \in ColorOf("qm_running", 0) <=> c = "blue"
             /\ c \in ColorOf("qm_running", 1) <=> c = "green"
  BY <1>1, <1>4, <1>5, SMT
<1>8. \A c : /\ c \in ColorOf("node_ready", 0) <=> c = "red"
             /\ c \in ColorOf("node_ready", 1) <=> c = "green"
  BY <1>1, <1>4, <1>5, SMT
<1>9. \A c : /\ c \in ColorOf("pm_state", 0) <=> c = "grey"
             /\ c \in ColorOf("pm_state", 1) <=> c = "blue"
             /\ c \in ColorOf("pm_state", 2) <=> c = "green"
  BY <1>1, <1>4, <1>5, SMT
<1>10. \A c : c \in ColorOf("failcount", 0) <=> c = "green"
  BY <1>2, <1>4, <1>5, SMT
<1>11. \A v \in Int : 1000000 <= v /\ v <= Unlimited => \A c : c \in ColorOf("failcount", v) <=> c = "red"
  BY <1>2, <1>4, <1>5, SMT
<1>12. Unlimited > 4096 /\ Unlimited \in Int
  BY SMT DEF Unlimited
<1>13. \A c : /\ c \in ColorOf("drbd_oos", 0) <=> c = "green"
              /\ c \in ColorOf("drbd_oos", 4096) <=> c = "red"
  BY <1>3, <1>4, <1>5, <1>12, SMT
<1>14. /\ ColorOf("rdqm_role", 1) = {"blue"} /\ ColorOf("rdqm_role", 2) = {"green"}
       /\ ColorOf("qm_running", 0) = {"blue"} /\ ColorOf("qm_running", 1) = {"green"}
       /\ ColorOf("node_ready", 0) = {"red"} /\ ColorOf("node_ready", 1) = {"green"}
  BY <1>6, <1>7, <1>8, Zenon
<1>15. /\ ColorOf("pm_state", 0) = {"grey"} /\ ColorOf("pm_state", 1) = {"blue"} /\ ColorOf("pm_state", 2) = {"green"}
  BY <1>9, SMT
<1>16. ColorOf("failcount", 0) = {"green"} /\ \A v \in Int : 1000000 <= v /\ v <= Unlimited => ColorOf("failcount", v) = {"red"}
  BY <1>10, <1>11, SMT
<1>17. ColorOf("drbd_oos", 0) = {"green"} /\ ColorOf("drbd_oos", 4096) = {"red"}
  BY <1>13, SMT
<1> QED BY <1>14, <1>15, <1>16, <1>17, SMT

---------------------------------------------------------------------------
(* Series and their samples.                                               *)

LEMMA MetricFields ==
  \A name, labels, value : LET s == Metric(name, labels, value) IN
    s.name = name /\ s.labels = labels /\ s.value = value
BY DEF Metric

LEMMA GroupFields ==
  ASSUME NEW groups, NEW s
  PROVE  LET t == InGroup(groups, s) IN
         /\ t.name = s.name /\ t.value = s.value
         /\ DOMAIN t.labels = {"groups"} \cup DOMAIN s.labels /\ t.labels["groups"] = groups
         /\ \A l \in DOMAIN s.labels : l # "groups" => t.labels[l] = s.labels[l]
BY DEF InGroup, Metric

LEMMA SamplesOf ==
  ASSUME NEW db, NEW name, NEW x
  PROVE  x \in Samples(db, name) <=> \E s \in db : s.name = name /\ x = Sample(s.labels, s.value)
BY DEF Samples

\* The sample of a series whose host is scraped in a group.
ScrapedAs(groups, s) == Sample(InGroup(groups, s).labels, s.value)

LEMMA ScrapedFields ==
  \A groups, s : LET x == ScrapedAs(groups, s) IN
    /\ x.value = s.value
    /\ DOMAIN x.labels = {"groups"} \cup DOMAIN s.labels /\ x.labels["groups"] = groups
    /\ \A l \in DOMAIN s.labels : l # "groups" => x.labels[l] = s.labels[l]
<1> TAKE groups, s
<1>1. ScrapedAs(groups, s).labels = InGroup(groups, s).labels /\ ScrapedAs(groups, s).value = s.value
  BY SampleFields DEF ScrapedAs
<1> QED BY <1>1, GroupFields

LEMMA ScrapedSample ==
  \A groups, s : LET t == InGroup(groups, s) IN
    t.name = s.name /\ Sample(t.labels, t.value) = ScrapedAs(groups, s)
BY GroupFields DEF ScrapedAs
=============================================================================
