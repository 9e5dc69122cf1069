----------------------------- MODULE DataLemmas ------------------------------
(***************************************************************************)
(* Facts about data that the proofs of several components need: a set of   *)
(* numbers has a least element, and Min is it; induction over the subsets  *)
(* of a finite set; sums (Functions!SumFunctionOnSet) over finite sets;    *)
(* sequences without one of their elements; recursion over the natural     *)
(* numbers; the digits of a number; texts in fields.  Induction hypotheses *)
(* are sets, not operators, and what is recurred on is a function.         *)
(***************************************************************************)
EXTENDS Integers, Sequences, FiniteSets, FiniteSetsExt, Functions,
        FiniteSetTheorems, SequenceTheorems, WellFoundedInduction, TLAPS

\* A set of numbers that is not empty has a least element.
LEMMA LeastElement ==
    ASSUME NEW S \in SUBSET Nat, S # {}
    PROVE  \E m \in S : \A x \in S : m <= x
<1> DEFINE Less == {ss \in Nat \X Nat : ss[1] < ss[2]}
<1>1. IsWellFoundedOn(Less, Nat)
  BY NatLessThanWellFounded, Zenon DEF OpToRel
<1>2. \A x, y \in Nat : <<y, x>> \notin Less => x <= y
  OBVIOUS
<1> HIDE DEF Less
<1>3. \E m \in S : \A y \in S : ~ (<<y, m>> \in Less)
  BY <1>1, WFMin
<1>4. QED
  BY <1>2, <1>3

\* Min is the least element.
LEMMA MinIsLeast ==
    ASSUME NEW S \in SUBSET Nat, S # {}
    PROVE  Min(S) \in S /\ \A x \in S : Min(S) <= x
<1>1. \E m \in S : \A y \in S : m <= y
  BY LeastElement
<1>2. QED
  BY <1>1 DEF Min

\* Min is the only least element.
LEMMA LeastIsMin ==
    ASSUME NEW S \in SUBSET Nat, NEW k \in S, \A j \in 0 .. k - 1 : j \notin S
    PROVE  Min(S) = k
<1> DEFINE m == Min(S)
<1>1. m \in S /\ m <= k
  BY MinIsLeast
<1> HIDE DEF m
<1>2. m \in Nat /\ k \in Nat /\ ~ (m \in 0 .. k - 1)
  BY <1>1
<1>3. m = k
  BY <1>1, <1>2
<1>4. QED
  BY <1>3 DEF m

\* Induction over the natural numbers; P is the set of which it is shown.
LEMMA Induction ==
    ASSUME NEW P \in SUBSET Nat, 0 \in P, \A n \in P : n + 1 \in P
    PROVE  P = Nat
<1> SUFFICES ASSUME Nat \ P # {} PROVE FALSE
  OBVIOUS
<1>1. PICK m \in Nat \ P : \A x \in Nat \ P : m <= x
  BY LeastElement
<1>2. m # 0 /\ m - 1 \in Nat /\ ~ (m <= m - 1)
  BY <1>1
<1>3. m - 1 \in P
  BY <1>1, <1>2
<1>4. m - 1 + 1 = m
  BY <1>1
<1>5. QED
  BY <1>1, <1>3, <1>4

\* Induction over the subsets of a finite set: F has every set of whose elements
\* none can be taken out without getting into F.
LEMMA SubsetInduction ==
    ASSUME NEW S, IsFiniteSet(S), NEW F,
           \A T \in SUBSET S : (\A x \in T : T \ {x} \in F) => T \in F
    PROVE  \A T \in SUBSET S : T \in F
<1> DEFINE P == {n \in Nat : \A T \in SUBSET S : Cardinality(T) = n => T \in F}
<1>1. \A T \in SUBSET S : IsFiniteSet(T) /\ Cardinality(T) \in Nat
  BY FS_Subset, FS_CardinalityType
<1>2. 0 \in P
  <2> SUFFICES ASSUME NEW T \in SUBSET S, Cardinality(T) = 0 PROVE T \in F
    OBVIOUS
  <2>1. T = {}
    BY <1>1, FS_EmptySet
  <2>2. QED
    BY <2>1
<1>3. ASSUME NEW n \in P PROVE n + 1 \in P
  <2> SUFFICES ASSUME NEW T \in SUBSET S, Cardinality(T) = n + 1 PROVE T \in F
    OBVIOUS
  <2>1. ASSUME NEW x \in T PROVE T \ {x} \in F
    <3>1. Cardinality(T \ {x}) = Cardinality(T) - 1
      BY <1>1, FS_RemoveElement
    <3>2. Cardinality(T \ {x}) = n /\ T \ {x} \in SUBSET S
      BY <3>1
    <3>3. QED
      BY <3>2
  <2>2. QED
    BY <2>1
<1>4. P = Nat
  <2> HIDE DEF P
  <2>1. P \in SUBSET Nat
    BY DEF P
  <2>2. QED
    BY <1>2, <1>3, <2>1, Induction
<1>5. QED
  BY <1>1, <1>4

------------------------------------------------------------------------------
\* The element a sum takes next.
Pick(s) == CHOOSE x \in s : TRUE

\* g tells the sum of f over every set of D.
Sums(g, f, D) == g = [s \in D |-> IF s = {} THEN 0 ELSE f[Pick(s)] + g[s \ {Pick(s)}]]

LEMMA PickIsElement ==
    ASSUME NEW s, s # {}
    PROVE  Pick(s) \in s
  BY DEF Pick

\* There are sums over every subset of a finite set.
LEMMA SumsExist ==
    ASSUME NEW S, IsFiniteSet(S), NEW f
    PROVE  \E g : Sums(g, f, SUBSET S)
<1> DEFINE D(n) == {s \in SUBSET S : Cardinality(s) <= n}
           P == {n \in Nat : \E g : Sums(g, f, D(n))}
<1>1. \A T \in SUBSET S : IsFiniteSet(T) /\ Cardinality(T) \in Nat
  BY FS_Subset, FS_CardinalityType
<1>2. 0 \in P
  <2>1. \A s \in D(0) : s = {}
    <3> TAKE s \in D(0)
    <3>1. Cardinality(s) = 0
      BY <1>1
    <3>2. QED
      BY <1>1, <3>1, FS_EmptySet
  <2> DEFINE g == [s \in D(0) |-> 0]
  <2>2. Sums(g, f, D(0))
    BY <2>1 DEF Sums
  <2>3. QED
    BY <2>2
<1>3. ASSUME NEW n \in P PROVE n + 1 \in P
  <2>1. PICK g : Sums(g, f, D(n))
    OBVIOUS
  <2> DEFINE val(s) == IF s = {} THEN 0 ELSE f[Pick(s)] + g[s \ {Pick(s)}]
             h == [s \in D(n + 1) |-> val(s)]
  <2>2. \A s \in D(n) : s \in D(n + 1) /\ g[s] = val(s)
    <3> TAKE s \in D(n)
    <3>1. s \in D(n + 1)
      BY <1>1
    <3> HIDE DEF D
    <3>2. g[s] = val(s)
      BY <2>1 DEF Sums
    <3>3. QED
      BY <3>1, <3>2
  <2>3. ASSUME NEW s \in D(n + 1), s # {} PROVE s \ {Pick(s)} \in D(n)
    <3>1. Pick(s) \in s
      BY <2>3, PickIsElement
    <3>2. Cardinality(s \ {Pick(s)}) = Cardinality(s) - 1
      BY <1>1, <3>1, FS_RemoveElement
    <3>3. QED
      BY <1>1, <3>2
  <2> HIDE DEF D
  <2>4. \A s \in D(n + 1) : s # {} => h[s \ {Pick(s)}] = g[s \ {Pick(s)}]
    BY <2>2, <2>3
  <2>5. Sums(h, f, D(n + 1))
    BY <2>4 DEF Sums
  <2> HIDE DEF h
  <2>6. n + 1 \in Nat
    OBVIOUS
  <2>7. QED
    BY <2>5, <2>6
<1>4. P = Nat
  <2> HIDE DEF P
  <2>1. P \in SUBSET Nat
    BY DEF P
  <2>2. QED
    BY <1>2, <1>3, <2>1, Induction
<1>5. D(Cardinality(S)) = SUBSET S
  <2>1. \A T \in SUBSET S : Cardinality(T) <= Cardinality(S)
    BY FS_Subset
  <2>2. QED
    BY <2>1
<1>6. Cardinality(S) \in P
  BY <1>1, <1>4
<1>7. PICK g : Sums(g, f, D(Cardinality(S)))
  BY <1>6
<1>8. QED
  BY <1>5, <1>7

\* What the library's sum is.
LEMMA SumIsOneOfSums ==
    ASSUME NEW S, IsFiniteSet(S), NEW f
    PROVE  \E g : Sums(g, f, SUBSET S) /\ SumFunctionOnSet(f, S) = g[S]
<1> DEFINE g == CHOOSE g : Sums(g, f, SUBSET S)
<1>1. Sums(g, f, SUBSET S)
  BY SumsExist
<1>2. SumFunctionOnSet(f, S) = g[S]
  BY DEF SumFunctionOnSet, FoldFunctionOnSet, MapThenFoldSet, Sums, Pick
<1>3. QED
  BY <1>1, <1>2

SameOn(S, f, d) == \A x \in S : f[x] = d[x]

\* Sums over one set agree, if what is summed does.
LEMMA SumsAgree ==
    ASSUME NEW S, IsFiniteSet(S), NEW R, NEW f, NEW d, NEW g, NEW e,
           S \subseteq R, IsFiniteSet(R), SameOn(S, f, d),
           Sums(g, f, SUBSET S), Sums(e, d, SUBSET R)
    PROVE  \A T \in SUBSET S : g[T] = e[T]
<1> DEFINE F == {T \in SUBSET S : g[T] = e[T]}
<1>1. ASSUME NEW T \in SUBSET S, \A x \in T : T \ {x} \in F PROVE T \in F
  <2>1. CASE T = {}
    BY <2>1 DEF Sums
  <2>2. CASE T # {}
    <3>1. Pick(T) \in T
      BY <2>2, PickIsElement
    <3>2. g[T \ {Pick(T)}] = e[T \ {Pick(T)}] /\ f[Pick(T)] = d[Pick(T)]
      BY <1>1, <3>1 DEF SameOn
    <3>3. g[T] = f[Pick(T)] + g[T \ {Pick(T)}] /\ e[T] = d[Pick(T)] + e[T \ {Pick(T)}]
      BY <2>2 DEF Sums
    <3>4. QED
      BY <3>2, <3>3
  <2>3. QED
    BY <2>1, <2>2
<1>2. QED
  <2> HIDE DEF F
  <2>1. \A T \in SUBSET S : T \in F
    BY <1>1, SubsetInduction
  <2>2. QED
    BY <2>1 DEF F

\* Only the values on the set count.
LEMMA SumSameValues ==
    ASSUME NEW S, IsFiniteSet(S), NEW f, NEW d, \A x \in S : f[x] = d[x]
    PROVE  SumFunctionOnSet(f, S) = SumFunctionOnSet(d, S)
<1>1. PICK g : Sums(g, f, SUBSET S) /\ SumFunctionOnSet(f, S) = g[S]
  BY SumIsOneOfSums
<1>2. PICK e : Sums(e, d, SUBSET S) /\ SumFunctionOnSet(d, S) = e[S]
  BY SumIsOneOfSums
<1>3. \A T \in SUBSET S : g[T] = e[T]
  <2>1. SameOn(S, f, d)
    BY DEF SameOn
  <2>2. QED
    BY <1>1, <1>2, <2>1, SumsAgree
<1>4. QED
  BY <1>1, <1>2, <1>3

\* The empty sum.
LEMMA SumEmpty == ASSUME NEW f PROVE SumFunctionOnSet(f, {}) = 0
<1>1. IsFiniteSet({})
  BY FS_EmptySet
<1>2. PICK g : Sums(g, f, SUBSET {}) /\ SumFunctionOnSet(f, {}) = g[{}]
  BY <1>1, SumIsOneOfSums
<1>3. QED
  BY <1>2 DEF Sums

\* A sum is the element it takes first, and the sum of the rest.
LEMMA SumPick ==
    ASSUME NEW S, IsFiniteSet(S), NEW f, S # {}
    PROVE  SumFunctionOnSet(f, S) = f[Pick(S)] + SumFunctionOnSet(f, S \ {Pick(S)})
<1> DEFINE R == S \ {Pick(S)}
<1>1. IsFiniteSet(R) /\ R \subseteq S
  BY FS_Subset
<1>2. PICK g : Sums(g, f, SUBSET S) /\ SumFunctionOnSet(f, S) = g[S]
  BY SumIsOneOfSums
<1>3. PICK e : Sums(e, f, SUBSET R) /\ SumFunctionOnSet(f, R) = e[R]
  BY <1>1, SumIsOneOfSums
<1>4. g[S] = f[Pick(S)] + g[R]
  BY <1>2 DEF Sums
<1>5. \A T \in SUBSET R : e[T] = g[T]
  <2> HIDE DEF R
  <2>1. SameOn(R, f, f)
    BY DEF SameOn
  <2>2. QED
    BY <1>1, <1>2, <1>3, <2>1, SumsAgree
<1>6. QED
  BY <1>2, <1>3, <1>4, <1>5

\* A sum of integers is an integer.
LEMMA SumIsInt ==
    ASSUME NEW S, IsFiniteSet(S), NEW f, \A x \in S : f[x] \in Int
    PROVE  SumFunctionOnSet(f, S) \in Int
<1> DEFINE F == {T \in SUBSET S : SumFunctionOnSet(f, T) \in Int}
<1>1. ASSUME NEW T \in SUBSET S, \A x \in T : T \ {x} \in F PROVE T \in F
  <2>1. CASE T = {}
    BY <2>1, SumEmpty
  <2>2. CASE T # {}
    <3>1. Pick(T) \in T /\ IsFiniteSet(T)
      BY <2>2, PickIsElement, FS_Subset
    <3>2. SumFunctionOnSet(f, T) = f[Pick(T)] + SumFunctionOnSet(f, T \ {Pick(T)})
      BY <2>2, <3>1, SumPick
    <3>3. SumFunctionOnSet(f, T \ {Pick(T)}) \in Int /\ f[Pick(T)] \in Int
      BY <1>1, <3>1
    <3>4. QED
      BY <3>2, <3>3
  <2>3. QED
    BY <2>1, <2>2
<1> HIDE DEF F
<1>2. \A T \in SUBSET S : T \in F
  BY <1>1, SubsetInduction
<1>3. QED
  BY <1>2 DEF F

\* Any element can be taken out of a sum.
LEMMA SumTakeOut ==
    ASSUME NEW S, IsFiniteSet(S), NEW f, \A x \in S : f[x] \in Int, NEW a \in S
    PROVE  SumFunctionOnSet(f, S) = f[a] + SumFunctionOnSet(f, S \ {a})
<1> DEFINE Sm(T) == SumFunctionOnSet(f, T)
           F == {T \in SUBSET S : \A x \in T : Sm(T) = f[x] + Sm(T \ {x})}
<1>1. ASSUME NEW T \in SUBSET S, \A x \in T : T \ {x} \in F PROVE T \in F
  <2> SUFFICES ASSUME NEW x \in T PROVE Sm(T) = f[x] + Sm(T \ {x})
    OBVIOUS
  <2> DEFINE p == Pick(T)
  <2>1. p \in T /\ IsFiniteSet(T) /\ IsFiniteSet(T \ {x}) /\ IsFiniteSet(T \ {p})
    BY PickIsElement, FS_Subset
  <2>2. Sm(T) = f[p] + Sm(T \ {p})
    BY <2>1, SumPick
  <2> HIDE DEF p
  <2>3. CASE x = p
    BY <2>2, <2>3
  <2>4. CASE x # p
    <3>1. x \in T \ {p} /\ p \in T \ {x} /\ T \ {p} \in F /\ T \ {x} \in F
      BY <1>1, <2>1, <2>4
    <3>2. Sm(T \ {p}) = f[x] + Sm((T \ {p}) \ {x}) /\ Sm(T \ {x}) = f[p] + Sm((T \ {x}) \ {p})
      BY <3>1
    <3>3. Sm((T \ {p}) \ {x}) = Sm((T \ {x}) \ {p})
      <4>1. (T \ {p}) \ {x} = (T \ {x}) \ {p}
        OBVIOUS
      <4>2. QED
        BY <4>1
    <3>4. f[x] \in Int /\ f[p] \in Int /\ Sm((T \ {p}) \ {x}) \in Int
      <4>1. IsFiniteSet((T \ {p}) \ {x})
        BY <2>1, FS_Subset
      <4>2. QED
        BY <2>1, <4>1, SumIsInt
    <3> HIDE DEF Sm
    <3>5. \A i, j, k \in Int : i + (j + k) = j + (i + k)
      OBVIOUS
    <3>6. QED
      BY <2>2, <3>2, <3>3, <3>4, <3>5
  <2>5. QED
    BY <2>3, <2>4
<1> HIDE DEF F
<1>2. \A T \in SUBSET S : T \in F
  BY <1>1, SubsetInduction
<1>3. QED
  BY <1>2 DEF F

\* No number is larger than the sum it is in.
LEMMA SumBoundsEach ==
    ASSUME NEW S, IsFiniteSet(S), NEW f, \A x \in S : f[x] \in Nat
    PROVE  SumFunctionOnSet(f, S) \in Nat /\ \A x \in S : f[x] <= SumFunctionOnSet(f, S)
<1> DEFINE F == {T \in SUBSET S : SumFunctionOnSet(f, T) \in Nat}
<1>1. ASSUME NEW T \in SUBSET S, \A x \in T : T \ {x} \in F PROVE T \in F
  <2>1. CASE T = {}
    BY <2>1, SumEmpty
  <2>2. CASE T # {}
    <3>1. Pick(T) \in T /\ IsFiniteSet(T)
      BY <2>2, PickIsElement, FS_Subset
    <3>2. SumFunctionOnSet(f, T) = f[Pick(T)] + SumFunctionOnSet(f, T \ {Pick(T)})
      BY <2>2, <3>1, SumPick
    <3>3. SumFunctionOnSet(f, T \ {Pick(T)}) \in Nat /\ f[Pick(T)] \in Nat
      BY <1>1, <3>1
    <3>4. QED
      BY <3>2, <3>3
  <2>3. QED
    BY <2>1, <2>2
<1> HIDE DEF F
<1>2. \A T \in SUBSET S : T \in F
  BY <1>1, SubsetInduction
<1>3. \A T \in SUBSET S : SumFunctionOnSet(f, T) \in Nat
  BY <1>2 DEF F
<1>4. ASSUME NEW x \in S PROVE f[x] <= SumFunctionOnSet(f, S)
  <2>1. SumFunctionOnSet(f, S) = f[x] + SumFunctionOnSet(f, S \ {x})
    BY SumTakeOut
  <2>2. SumFunctionOnSet(f, S \ {x}) \in Nat
    BY <1>3
  <2>3. QED
    BY <2>1, <2>2
<1>5. QED
  BY <1>3, <1>4
------------------------------------------------------------------------------
CutAt(q, i) == SubSeq(q, 1, i - 1) \o SubSeq(q, i + 1, Len(q))

\* A sequence without its i-th element.
LEMMA CutOut ==
    ASSUME NEW S, NEW q \in Seq(S), NEW i \in 1 .. Len(q)
    PROVE  /\ CutAt(q, i) \in Seq(S)
           /\ Len(CutAt(q, i)) = Len(q) - 1
           /\ \A k \in 1 .. Len(q) - 1 :
                 CutAt(q, i)[k] = IF k < i THEN q[k] ELSE q[k + 1]
<1> DEFINE n == Len(q)
           a == SubSeq(q, 1, i - 1)
           z == SubSeq(q, i + 1, n)
<1>1. n \in Nat /\ i \in Nat /\ 1 <= i /\ i <= n
  OBVIOUS
<1>2. a \in Seq(S) /\ Len(a) = i - 1 /\ \A k \in 1 .. i - 1 : a[k] = q[k]
  OBVIOUS
<1>3. z \in Seq(S) /\ Len(z) = n - i /\ \A k \in 1 .. n - i : z[k] = q[i + k]
  OBVIOUS
<1> HIDE DEF a, z, n
<1>4. /\ a \o z \in Seq(S) /\ Len(a \o z) = n - 1
      /\ \A k \in 1 .. n - 1 : (a \o z)[k] = IF k <= i - 1 THEN a[k] ELSE z[k - (i - 1)]
  BY <1>1, <1>2, <1>3
<1>5. ASSUME NEW k \in 1 .. n - 1
      PROVE  (a \o z)[k] = IF k < i THEN q[k] ELSE q[k + 1]
  <2>1. CASE k < i
    BY <1>1, <1>2, <1>4, <2>1
  <2>2. CASE ~ k < i
    <3>1. k - (i - 1) \in 1 .. n - i /\ i + (k - (i - 1)) = k + 1
      BY <1>1, <2>2
    <3>2. (a \o z)[k] = z[k - (i - 1)]
      BY <1>1, <1>4, <2>2
    <3>3. z[k - (i - 1)] = q[i + (k - (i - 1))]
      BY <1>3, <3>1
    <3>4. QED
      BY <2>2, <3>1, <3>2, <3>3
  <2>3. QED
    BY <2>1, <2>2
<1>6. QED
  BY <1>4, <1>5 DEF CutAt, a, z, n
------------------------------------------------------------------------------
(* Recursion *)

\* g is the beginning, up to n, of what starts with a and goes on by h.
Begins(g, a, h, n) ==
    g[0] = a /\ \A i \in 0 .. n - 1 : g[i + 1] = h[<<i, g[i]>>]

\* Two beginnings agree.
LEMMA BeginningsAgree ==
    ASSUME NEW a, NEW h, NEW n \in Nat, NEW m \in Nat, n <= m, NEW g, NEW e,
           Begins(g, a, h, n), Begins(e, a, h, m)
    PROVE  \A i \in 0 .. n : g[i] = e[i]
<1> DEFINE P == {i \in Nat : i <= n => g[i] = e[i]}
<1>1. 0 \in P
  BY DEF Begins
<1>2. ASSUME NEW i \in P PROVE i + 1 \in P
  <2> SUFFICES ASSUME i + 1 <= n PROVE g[i + 1] = e[i + 1]
    OBVIOUS
  <2>1. i \in Nat /\ i \in 0 .. n - 1 /\ i \in 0 .. m - 1 /\ g[i] = e[i]
    OBVIOUS
  <2>2. QED
    BY <2>1 DEF Begins
<1> HIDE DEF P
<1>3. P = Nat
  <2>1. P \in SUBSET Nat
    BY DEF P
  <2>2. QED
    BY <1>1, <1>2, <2>1, Induction
<1>4. QED
  BY <1>3 DEF P

\* f starts with a and goes on by h, which keeps it in V.
Goes(f, a, h, V) ==
    f \in [Nat -> V] /\ f[0] = a /\ \A i \in Nat : f[i + 1] = h[<<i, f[i]>>]

\* A step function on V defines a sequence of values.
LEMMA Recursion ==
    ASSUME NEW V, NEW a \in V, NEW h \in [Nat \X V -> V]
    PROVE  \E f : Goes(f, a, h, V)
<1> DEFINE P == {n \in Nat : \E g \in [0 .. n -> V] : Begins(g, a, h, n)}
<1>1. 0 \in P
  <2> DEFINE g == [i \in 0 .. 0 |-> a]
  <2>1. g \in [0 .. 0 -> V] /\ g[0] = a
    OBVIOUS
  <2> HIDE DEF g
  <2>2. Begins(g, a, h, 0)
    BY <2>1 DEF Begins
  <2>3. QED
    BY <2>1, <2>2
<1>2. ASSUME NEW n \in P PROVE n + 1 \in P
  <2>1. PICK g \in [0 .. n -> V] : Begins(g, a, h, n)
    OBVIOUS
  <2>2. n \in Nat /\ n \in 0 .. n /\ 0 \in 0 .. n
    OBVIOUS
  <2> DEFINE next == h[<<n, g[n]>>]
             k == [i \in 0 .. n + 1 |-> IF i = n + 1 THEN next ELSE g[i]]
  <2>3. next \in V
    BY <2>2
  <2> HIDE DEF next
  <2>4. k \in [0 .. n + 1 -> V]
    <3>1. ASSUME NEW i \in 0 .. n + 1, i # n + 1 PROVE g[i] \in V
      <4>1. i \in 0 .. n
        BY <2>2, <3>1
      <4>2. QED
        BY <4>1
    <3>2. QED
      BY <2>3, <3>1
  <2>5. k[0] = a
    BY <2>1, <2>2 DEF Begins
  <2>6. ASSUME NEW i \in 0 .. (n + 1) - 1 PROVE k[i + 1] = h[<<i, k[i]>>]
    <3>1. i \in 0 .. n /\ i # n + 1 /\ i \in 0 .. n + 1 /\ i + 1 \in 0 .. n + 1
      BY <2>2
    <3>2. k[i] = g[i]
      BY <3>1
    <3>3. CASE i = n
      BY <3>1, <3>2, <3>3 DEF next
    <3>4. CASE i # n
      <4>1. i \in 0 .. n - 1 /\ i + 1 # n + 1
        BY <2>2, <3>1, <3>4
      <4>2. k[i + 1] = g[i + 1]
        BY <3>1, <4>1
      <4>3. QED
        BY <2>1, <3>2, <4>1, <4>2 DEF Begins
    <3>5. QED
      BY <3>3, <3>4
  <2> HIDE DEF k
  <2>7. Begins(k, a, h, n + 1)
    BY <2>5, <2>6 DEF Begins
  <2>8. QED
    BY <2>2, <2>4, <2>7
<1> HIDE DEF P
<1>3. P = Nat
  <2>1. P \in SUBSET Nat
    BY DEF P
  <2>2. QED
    BY <1>1, <1>2, <2>1, Induction
<1> DEFINE G == [n \in Nat |-> CHOOSE g \in [0 .. n -> V] : Begins(g, a, h, n)]
           f == [n \in Nat |-> G[n][n]]
<1>4. \A n \in Nat : G[n] \in [0 .. n -> V] /\ Begins(G[n], a, h, n)
  <2> TAKE n \in Nat
  <2>1. \E g \in [0 .. n -> V] : Begins(g, a, h, n)
    BY <1>3 DEF P
  <2>2. QED
    BY <2>1
<1> HIDE DEF G
<1>5. \A n \in Nat : f[n] \in V
  BY <1>4
<1>6. f[0] = a
  BY <1>4 DEF Begins
<1>7. ASSUME NEW i \in Nat PROVE f[i + 1] = h[<<i, f[i]>>]
  <2>1. i + 1 \in Nat /\ i <= i + 1 /\ i \in 0 .. i /\ i \in 0 .. (i + 1) - 1
    OBVIOUS
  <2>2. Begins(G[i], a, h, i) /\ Begins(G[i + 1], a, h, i + 1)
    BY <1>4, <2>1
  <2>3. G[i + 1][i + 1] = h[<<i, G[i + 1][i]>>]
    BY <2>1, <2>2 DEF Begins
  <2>4. G[i][i] = G[i + 1][i]
    <3> DEFINE g == G[i]
               e == G[i + 1]
               m == i + 1
    <3>1. m \in Nat /\ i <= m /\ Begins(g, a, h, i) /\ Begins(e, a, h, m)
      BY <2>1, <2>2
    <3> HIDE DEF g, e, m
    <3>2. \A j \in 0 .. i : g[j] = e[j]
      BY <3>1, BeginningsAgree
    <3>3. QED
      BY <2>1, <3>2 DEF g, e
  <2>5. QED
    BY <2>1, <2>3, <2>4
<1>8. f \in [Nat -> V]
  BY <1>5
<1>9. Goes(f, a, h, V)
  BY <1>6, <1>7, <1>8 DEF Goes
<1>10. QED
  BY <1>9

------------------------------------------------------------------------------
(* Division *)

\* Quotient and remainder.
LEMMA Division ==
    ASSUME NEW m \in Nat \ {0}, NEW x \in Nat
    PROVE  x \div m \in Nat /\ x % m \in 0 .. m - 1 /\ x = m * (x \div m) + (x % m)
  BY Z3

\* There is only one quotient and one remainder.
LEMMA DivisionUnique ==
    ASSUME NEW m \in Nat \ {0}, NEW q \in Nat, NEW r \in 0 .. m - 1
    PROVE  (m * q + r) \div m = q /\ (m * q + r) % m = r
  BY Z3

\* Dividing twice is dividing by the product.
LEMMA DivisionChain ==
    ASSUME NEW a \in Nat \ {0}, NEW b \in Nat \ {0}, NEW x \in Nat
    PROVE  /\ (x \div a) \div b = x \div (b * a)
           /\ x % (b * a) = ((x \div a) % b) * a + (x % a)
<1> DEFINE q == x \div a
           r == x % a
           s == q \div b
           t == q % b
<1>1. q \in Nat /\ r \in 0 .. a - 1 /\ x = a * q + r
  BY Division
<1> HIDE DEF q, r
<1>2. s \in Nat /\ t \in 0 .. b - 1 /\ q = b * s + t
  BY <1>1, Division
<1> HIDE DEF s, t
<1>3. b * a \in Nat \ {0}
  BY Z3
<1>4. t * a + r \in 0 .. (b * a) - 1
  <2>1. t * a <= (b - 1) * a
    BY <1>2, Z3
  <2>2. (b - 1) * a = b * a - a
    BY Z3
  <2>3. t * a \in Nat /\ b * a \in Nat
    BY <1>2, Z3
  <2> DEFINE ta == t * a
             ba == b * a
  <2>4. ta <= ba - a /\ ta \in Nat /\ ba \in Nat
    BY <2>1, <2>2, <2>3
  <2> HIDE DEF ta, ba
  <2>5. ta + r \in 0 .. ba - 1
    BY <1>1, <2>4
  <2>6. QED
    BY <2>5 DEF ta, ba
<1>5. x = (b * a) * s + (t * a + r)
  <2>1. a * (b * s + t) = (b * a) * s + t * a
    BY <1>2, Z3
  <2>2. QED
    BY <1>1, <1>2, <2>1, Z3
<1>6. x \div (b * a) = s /\ x % (b * a) = t * a + r
  <2> DEFINE m == b * a
             u == t * a + r
  <2>1. m \in Nat \ {0} /\ u \in 0 .. m - 1 /\ x = m * s + u
    BY <1>3, <1>4, <1>5
  <2> HIDE DEF m, u
  <2>2. x \div m = s /\ x % m = u
    BY <1>2, <2>1, DivisionUnique
  <2>3. QED
    BY <2>2 DEF m, u
<1>7. QED
  BY <1>6 DEF q, r, s, t

------------------------------------------------------------------------------
(* Numbers and their digits *)

\* w has the place values of a number system of base b.
Powers(w, b) == w = [i \in Nat |-> IF i = 0 THEN 1 ELSE b * w[i - 1]]
PlaceValues(b) == CHOOSE w : Powers(w, b)

IsPlaceValues(w, b) ==
    /\ w \in [Nat -> Nat \ {0}]
    /\ w[0] = 1
    /\ \A i \in Nat : w[i + 1] = b * w[i]

\* What the recursive definition of the place values means.
LEMMA PlaceValuesExist ==
    ASSUME NEW b \in Nat \ {0}
    PROVE  IsPlaceValues(PlaceValues(b), b)
<1> DEFINE V == Nat \ {0}
           h == [p \in Nat \X V |-> b * p[2]]
<1>1. h \in [Nat \X V -> V] /\ 1 \in V
  <2>1. \A y \in V : b * y \in V
    BY Z3
  <2>2. QED
    BY <2>1
<1>2. \A i \in Nat, y \in V : h[<<i, y>>] = b * y
  OBVIOUS
<1> HIDE DEF h
<1>3. PICK f \in [Nat -> V] : f[0] = 1 /\ \A i \in Nat : f[i + 1] = h[<<i, f[i]>>]
  <2> DEFINE one == 1
  <2>1. one \in V /\ h \in [Nat \X V -> V]
    BY <1>1
  <2> HIDE DEF V, one
  <2>2. PICK f : Goes(f, one, h, V)
    BY <2>1, Recursion
  <2>3. QED
    BY <2>2 DEF Goes, one
<1>4. \A i \in Nat : f[i + 1] = b * f[i]
  BY <1>2, <1>3
<1>5. Powers(f, b)
  <2>1. ASSUME NEW i \in Nat PROVE f[i] = IF i = 0 THEN 1 ELSE b * f[i - 1]
    <3>1. CASE i = 0
      BY <1>3, <3>1
    <3>2. CASE i # 0
      <4>1. i - 1 \in Nat /\ (i - 1) + 1 = i
        BY <3>2
      <4>2. f[(i - 1) + 1] = b * f[i - 1]
        BY <1>4, <4>1
      <4>3. QED
        BY <3>2, <4>1, <4>2
    <3>3. QED
      BY <3>1, <3>2
  <2>2. QED
    BY <2>1 DEF Powers
<1> DEFINE w == PlaceValues(b)
<1>6. Powers(w, b)
  BY <1>5 DEF PlaceValues
<1> HIDE DEF w
<1>7. w[0] = 1 /\ \A i \in Nat : w[i + 1] = b * w[i]
  <2>1. w[0] = 1
    BY <1>6 DEF Powers
  <2>2. ASSUME NEW i \in Nat PROVE w[i + 1] = b * w[i]
    <3>1. i + 1 \in Nat /\ i + 1 # 0 /\ (i + 1) - 1 = i
      OBVIOUS
    <3>2. w[i + 1] = b * w[(i + 1) - 1]
      BY <1>6, <3>1 DEF Powers
    <3>3. QED
      BY <3>1, <3>2
  <2>3. QED
    BY <2>1, <2>2
<1> DEFINE P == {i \in Nat : w[i] \in V}
<1>8. P = Nat
  <2>1. 0 \in P
    BY <1>7
  <2>2. ASSUME NEW i \in P PROVE i + 1 \in P
    <3>1. w[i + 1] = b * w[i] /\ w[i] \in V /\ i + 1 \in Nat
      BY <1>7
    <3> DEFINE y == w[i]
    <3>2. y \in V
      BY <3>1
    <3> HIDE DEF y
    <3>3. b * y \in V
      BY <3>2, Z3
    <3>4. QED
      BY <3>1, <3>3 DEF y
  <2> HIDE DEF P
  <2>3. P \in SUBSET Nat
    BY DEF P
  <2>4. QED
    BY <2>1, <2>2, <2>3, Induction
<1>9. w \in [Nat -> V]
  <2>1. w = [i \in Nat |-> w[i]]
    BY <1>6 DEF Powers
  <2>2. \A i \in Nat : w[i] \in V
    BY <1>8
  <2> HIDE DEF V
  <2>3. QED
    BY <2>1, <2>2
<1>10. QED
  BY <1>7, <1>9 DEF IsPlaceValues, w

\* The n lowest digits of x, lowest first, and highest first.
Digits(w, b, n, x) == [i \in 1 .. n |-> (x \div w[i - 1]) % b]
Highest(w, b, n, x) == [i \in 1 .. n |-> (x \div w[n - i]) % b]

\* f sums up digits, lowest first; the number is the last sum.
Totals(f, w, d) == f = [i \in 0 .. Len(d) |-> IF i = 0 THEN 0 ELSE f[i - 1] + d[i] * w[i - 1]]
Number(w, d) == (CHOOSE f : Totals(f, w, d))[Len(d)]

IsTotals(f, w, d) ==
    /\ f[0] = 0
    /\ \A i \in 0 .. Len(d) - 1 : f[i + 1] = f[i] + d[i + 1] * w[i]

\* What the recursive definition of the sums means.
LEMMA TotalsExist ==
    ASSUME NEW b \in Nat \ {0}, NEW w, IsPlaceValues(w, b), NEW d \in Seq(0 .. b - 1)
    PROVE  \E f : IsTotals(f, w, d) /\ f[Len(d)] = Number(w, d)
<1> DEFINE n == Len(d)
           h == [p \in Nat \X Nat |->
                    IF p[1] < n THEN p[2] + d[p[1] + 1] * w[p[1]] ELSE p[2]]
<1>1. n \in Nat
  OBVIOUS
<1>2. \A i \in Nat : i < n => d[i + 1] \in Nat
  OBVIOUS
<1>3. \A i \in Nat : w[i] \in Nat
  BY DEF IsPlaceValues
<1> HIDE DEF n
<1>4. h \in [Nat \X Nat -> Nat]
  <2>1. \A i \in Nat, y \in Nat : i < n => y + d[i + 1] * w[i] \in Nat
    <3> TAKE i \in Nat, y \in Nat
    <3> HAVE i < n
    <3> DEFINE u == d[i + 1]
               v == w[i]
    <3>1. u \in Nat /\ v \in Nat
      BY <1>2, <1>3
    <3> HIDE DEF u, v
    <3>2. y + u * v \in Nat
      BY <3>1, Z3
    <3>3. QED
      BY <3>2 DEF u, v
  <2>2. QED
    BY <2>1
<1>5. \A i \in Nat, y \in Nat : i < n => h[<<i, y>>] = y + d[i + 1] * w[i]
  OBVIOUS
<1> HIDE DEF h
<1>6. PICK e : e \in [Nat -> Nat] /\ e[0] = 0 /\ \A i \in Nat : e[i + 1] = h[<<i, e[i]>>]
  <2> DEFINE zero == 0
  <2>1. zero \in Nat
    OBVIOUS
  <2> HIDE DEF zero
  <2>2. PICK e : Goes(e, zero, h, Nat)
    BY <1>4, <2>1, Recursion
  <2>3. QED
    BY <2>2 DEF Goes, zero
<1> DEFINE g == [i \in 0 .. n |-> e[i]]
<1>7. Totals(g, w, d)
  <2>1. ASSUME NEW i \in 0 .. n PROVE g[i] = IF i = 0 THEN 0 ELSE g[i - 1] + d[i] * w[i - 1]
    <3>1. CASE i = 0
      BY <1>6, <3>1
    <3>2. CASE i # 0
      <4>1. i - 1 \in Nat /\ (i - 1) + 1 = i /\ i - 1 < n /\ i - 1 \in 0 .. n
        BY <1>1, <3>2
      <4>2. e[(i - 1) + 1] = h[<<i - 1, e[i - 1]>>] /\ e[i - 1] \in Nat
        BY <1>6, <4>1
      <4>3. h[<<i - 1, e[i - 1]>>] = e[i - 1] + d[(i - 1) + 1] * w[i - 1]
        BY <1>5, <4>1, <4>2
      <4>4. e[i] = e[i - 1] + d[i] * w[i - 1]
        BY <4>1, <4>2, <4>3
      <4>5. QED
        BY <3>2, <4>1, <4>4
    <3>3. QED
      BY <3>1, <3>2
  <2>2. QED
    BY <2>1 DEF Totals, n
<1> DEFINE f == CHOOSE f : Totals(f, w, d)
<1> HIDE DEF g
<1>8. Totals(f, w, d)
  BY <1>7
<1>9. f[Len(d)] = Number(w, d)
  BY DEF Number
<1> HIDE DEF f
<1>10. f[0] = 0
  <2>1. 0 \in 0 .. Len(d)
    BY <1>1 DEF n
  <2>2. QED
    BY <1>8, <2>1 DEF Totals
<1>11. ASSUME NEW i \in 0 .. Len(d) - 1 PROVE f[i + 1] = f[i] + d[i + 1] * w[i]
  <2>1. i + 1 \in 0 .. Len(d) /\ i + 1 # 0 /\ (i + 1) - 1 = i
    BY <1>1 DEF n
  <2>2. f[i + 1] = f[(i + 1) - 1] + d[i + 1] * w[(i + 1) - 1]
    BY <1>8, <2>1 DEF Totals
  <2>3. QED
    BY <2>1, <2>2
<1>12. IsTotals(f, w, d)
  BY <1>10, <1>11 DEF IsTotals
<1>13. QED
  BY <1>9, <1>12

\* The sum of the i lowest digits is less than the value of the next place.
LEMMA TotalsFit ==
    ASSUME NEW b \in Nat \ {0}, NEW w, IsPlaceValues(w, b), NEW d \in Seq(0 .. b - 1),
           NEW f, IsTotals(f, w, d)
    PROVE  \A i \in 0 .. Len(d) : f[i] \in 0 .. w[i] - 1
<1> DEFINE P == {i \in Nat : i <= Len(d) => f[i] \in 0 .. w[i] - 1}
<1>1. 0 \in P
  <2>1. f[0] = 0 /\ w[0] = 1
    BY DEF IsTotals, IsPlaceValues
  <2>2. QED
    BY <2>1
<1>2. ASSUME NEW i \in P PROVE i + 1 \in P
  <2> SUFFICES ASSUME i + 1 <= Len(d) PROVE f[i + 1] \in 0 .. w[i + 1] - 1
    OBVIOUS
  <2> DEFINE u == w[i]
             y == f[i]
             c == d[i + 1]
  <2>1. i \in Nat /\ i \in 0 .. Len(d) - 1 /\ i + 1 \in 1 .. Len(d) /\ i <= Len(d)
    OBVIOUS
  <2>2. u \in Nat \ {0} /\ w[i + 1] = b * u
    BY <2>1 DEF IsPlaceValues
  <2>3. y \in 0 .. u - 1 /\ c \in 0 .. b - 1
    BY <2>1
  <2>4. f[i + 1] = y + c * u
    BY <2>1 DEF IsTotals
  <2> HIDE DEF u, y, c
  <2>5. y + c * u \in 0 .. b * u - 1
    <3>1. c * u <= (b - 1) * u
      BY <2>2, <2>3, Z3
    <3>2. (b - 1) * u = b * u - u
      BY <2>2, Z3
    <3>3. c * u \in Nat /\ b * u \in Nat
      BY <2>2, <2>3, Z3
    <3> DEFINE cu == c * u
               bu == b * u
    <3>4. cu <= bu - u /\ cu \in Nat /\ bu \in Nat
      BY <3>1, <3>2, <3>3
    <3> HIDE DEF cu, bu
    <3>5. y + cu \in 0 .. bu - 1
      BY <2>2, <2>3, <3>4
    <3>6. QED
      BY <3>5 DEF cu, bu
  <2>6. QED
    BY <2>2, <2>4, <2>5
<1> HIDE DEF P
<1>3. P = Nat
  <2>1. P \in SUBSET Nat
    BY DEF P
  <2>2. QED
    BY <1>1, <1>2, <2>1, Induction
<1>4. QED
  BY <1>3 DEF P

\* Digits are digits.
LEMMA DigitsType ==
    ASSUME NEW b \in Nat \ {0}, NEW w, IsPlaceValues(w, b), NEW n \in Nat, NEW x \in Nat
    PROVE  /\ Digits(w, b, n, x) \in Seq(0 .. b - 1) /\ Len(Digits(w, b, n, x)) = n
           /\ Highest(w, b, n, x) \in Seq(0 .. b - 1) /\ Len(Highest(w, b, n, x)) = n
<1>1. ASSUME NEW i \in Nat PROVE (x \div w[i]) % b \in 0 .. b - 1
  <2> DEFINE u == w[i]
             q == x \div u
  <2>1. u \in Nat \ {0}
    BY DEF IsPlaceValues
  <2> HIDE DEF u
  <2>2. q \in Nat
    BY <2>1, Division
  <2> HIDE DEF q
  <2>3. q % b \in 0 .. b - 1
    BY <2>2, Division
  <2>4. QED
    BY <2>3 DEF q, u
<1>2. \A i \in 1 .. n : i - 1 \in Nat /\ n - i \in Nat
  OBVIOUS
<1>3. \A i \in 1 .. n : (x \div w[i - 1]) % b \in 0 .. b - 1 /\ (x \div w[n - i]) % b \in 0 .. b - 1
  BY <1>1, <1>2
<1> DEFINE B == 0 .. b - 1
           s == Digits(w, b, n, x)
           t == Highest(w, b, n, x)
<1>4. s \in [1 .. n -> B] /\ t \in [1 .. n -> B]
  BY <1>3 DEF Digits, Highest
<1> HIDE DEF B, s, t
<1>5. s \in Seq(B) /\ Len(s) = n /\ t \in Seq(B) /\ Len(t) = n
  BY <1>4
<1>6. QED
  BY <1>5 DEF B, s, t

\* The number that the n lowest digits of x make.
LEMMA NumberOfDigits ==
    ASSUME NEW b \in Nat \ {0}, NEW w, IsPlaceValues(w, b), NEW n \in Nat, NEW x \in Nat
    PROVE  Number(w, Digits(w, b, n, x)) = x % w[n]
<1> DEFINE d == Digits(w, b, n, x)
<1>1. d \in Seq(0 .. b - 1) /\ Len(d) = n
  <2>1. Digits(w, b, n, x) \in Seq(0 .. b - 1)
    BY DigitsType
  <2>2. Len(Digits(w, b, n, x)) = n
    BY DigitsType
  <2>3. QED
    BY <2>1, <2>2
<1>2. \A i \in 0 .. n - 1 : d[i + 1] = (x \div w[i]) % b
  <2> TAKE i \in 0 .. n - 1
  <2>1. i + 1 \in 1 .. n /\ (i + 1) - 1 = i
    OBVIOUS
  <2>2. d[i + 1] = (x \div w[(i + 1) - 1]) % b
    BY <2>1 DEF Digits
  <2>3. QED
    BY <2>1, <2>2
<1> HIDE DEF d
<1>3. PICK f : IsTotals(f, w, d) /\ f[n] = Number(w, d)
  BY <1>1, TotalsExist
<1> DEFINE P == {i \in Nat : i <= n => f[i] = x % w[i]}
<1>4. 0 \in P
  <2>1. f[0] = 0 /\ w[0] = 1
    BY <1>3 DEF IsTotals, IsPlaceValues
  <2>2. x % 1 = 0
    OBVIOUS
  <2>3. QED
    BY <2>1, <2>2
<1>5. ASSUME NEW i \in P PROVE i + 1 \in P
  <2> SUFFICES ASSUME i + 1 <= n PROVE f[i + 1] = x % w[i + 1]
    OBVIOUS
  <2>1. i \in Nat /\ i \in 0 .. n - 1 /\ i <= n
    OBVIOUS
  <2> DEFINE u == w[i]
  <2>2. u \in Nat \ {0} /\ w[i + 1] = b * u
    BY <2>1 DEF IsPlaceValues
  <2>3. f[i + 1] = f[i] + d[i + 1] * u
    BY <1>1, <1>3, <2>1 DEF IsTotals
  <2>4. f[i] = x % u /\ d[i + 1] = (x \div u) % b
    BY <1>2, <2>1
  <2> HIDE DEF u
  <2>5. x % (b * u) = ((x \div u) % b) * u + (x % u)
    BY <2>2, DivisionChain
  <2>6. ((x \div u) % b) * u \in Int /\ x % u \in Int
    <3>1. x \div u \in Nat /\ x % u \in 0 .. u - 1
      BY <2>2, Division
    <3> DEFINE q == x \div u
               t == q % b
    <3>2. q \in Nat
      BY <3>1
    <3> HIDE DEF q
    <3>3. t \in Int
      BY <3>2, Division
    <3> HIDE DEF t
    <3>4. t * u \in Int
      BY <2>2, <3>3, Z3
    <3>5. QED
      BY <3>1, <3>4 DEF t, q
  <2> DEFINE a == ((x \div u) % b) * u
             c == x % u
  <2>7. a \in Int /\ c \in Int /\ x % (b * u) = a + c /\ f[i + 1] = c + a
    BY <2>3, <2>4, <2>5, <2>6
  <2> HIDE DEF a, c
  <2>8. QED
    BY <2>2, <2>7
<1> HIDE DEF P
<1>6. P = Nat
  <2>1. P \in SUBSET Nat
    BY DEF P
  <2>2. QED
    BY <1>4, <1>5, <2>1, Induction
<1>7. f[n] = x % w[n]
  BY <1>6 DEF P
<1>8. QED
  BY <1>3, <1>7 DEF d

Multiple(x, u) == \E h \in Nat : x = u * h
Above(x, y, u) == \E h \in Nat : x = y + u * h

\* The place values divide the ones further up.
LEMMA PlacesDivide ==
    ASSUME NEW b \in Nat \ {0}, NEW w, IsPlaceValues(w, b), NEW i \in Nat
    PROVE  \A k \in Nat : Multiple(w[i + k], w[i])
<1> DEFINE P == {k \in Nat : \E h \in Nat : w[i + k] = w[i] * h}
           u == w[i]
<1>1. u \in Nat \ {0}
  BY DEF IsPlaceValues
<1>2. 0 \in P
  <2>1. w[i + 0] = u /\ u = u * 1
    BY <1>1
  <2>2. QED
    BY <2>1
<1>3. ASSUME NEW k \in P PROVE k + 1 \in P
  <2>1. PICK h \in Nat : w[i + k] = u * h
    OBVIOUS
  <2>2. i + k \in Nat /\ (i + k) + 1 = i + (k + 1)
    OBVIOUS
  <2>3. w[i + (k + 1)] = b * w[i + k]
    BY <2>2 DEF IsPlaceValues
  <2> HIDE DEF u
  <2>4. b * (u * h) = u * (b * h) /\ b * h \in Nat
    BY <1>1, Z3
  <2> DEFINE g == b * h
  <2>5. g \in Nat /\ w[i + (k + 1)] = u * g
    BY <2>1, <2>3, <2>4
  <2> HIDE DEF g
  <2>6. k + 1 \in Nat
    OBVIOUS
  <2>7. QED
    BY <2>5, <2>6 DEF u
<1> HIDE DEF P
<1>4. P = Nat
  <2>1. P \in SUBSET Nat
    BY DEF P
  <2>2. QED
    BY <1>2, <1>3, <2>1, Induction
<1>5. QED
  BY <1>4 DEF P, Multiple

\* Digits further up add multiples of the place value.
LEMMA TotalsAbove ==
    ASSUME NEW b \in Nat \ {0}, NEW w, IsPlaceValues(w, b), NEW d \in Seq(0 .. b - 1),
           NEW f, IsTotals(f, w, d), NEW i \in 0 .. Len(d)
    PROVE  \A k \in Nat : i + k <= Len(d) => Above(f[i + k], f[i], w[i])
<1> DEFINE P == {k \in Nat : i + k <= Len(d) => \E h \in Nat : f[i + k] = f[i] + w[i] * h}
           u == w[i]
           y == f[i]
<1>1. i \in Nat /\ u \in Nat \ {0} /\ y \in Nat
  <2>1. i \in Nat /\ u \in Nat
    BY DEF IsPlaceValues
  <2>2. y \in 0 .. u - 1
    BY TotalsFit
  <2>3. QED
    BY <2>1, <2>2 DEF IsPlaceValues
<1>2. 0 \in P
  <2>1. f[i + 0] = y /\ y = y + u * 0
    BY <1>1
  <2>2. QED
    BY <2>1
<1>3. ASSUME NEW k \in P PROVE k + 1 \in P
  <2> SUFFICES ASSUME i + (k + 1) <= Len(d)
               PROVE  \E h \in Nat : f[i + (k + 1)] = y + u * h
    OBVIOUS
  <2>1. k \in Nat /\ i + k \in 0 .. Len(d) - 1 /\ i + k \in Nat /\ (i + k) + 1 = i + (k + 1)
         /\ i + k <= Len(d) /\ (i + k) + 1 \in 1 .. Len(d)
    BY <1>1
  <2>2. PICK h \in Nat : f[i + k] = y + u * h
    BY <2>1
  <2>3. PICK g \in Nat : w[i + k] = u * g
    <3>1. \A l \in Nat : Multiple(w[i + l], w[i])
      BY <1>1, PlacesDivide
    <3>2. QED
      BY <2>1, <3>1 DEF Multiple
  <2> DEFINE c == d[(i + k) + 1]
  <2>4. c \in Nat
    BY <2>1
  <2>5. f[(i + k) + 1] = f[i + k] + c * w[i + k]
    BY <2>1 DEF IsTotals
  <2> HIDE DEF u, y, c
  <2>6. (y + u * h) + c * (u * g) = y + u * (h + c * g) /\ h + c * g \in Nat
    BY <1>1, <2>4, Z3
  <2> DEFINE e == h + c * g
  <2>7. e \in Nat /\ f[i + (k + 1)] = y + u * e
    BY <2>1, <2>2, <2>3, <2>5, <2>6
  <2> HIDE DEF e
  <2>8. QED
    BY <2>7
<1> HIDE DEF P
<1>4. P = Nat
  <2>1. P \in SUBSET Nat
    BY DEF P
  <2>2. QED
    BY <1>2, <1>3, <2>1, Induction
<1>5. QED
  BY <1>4 DEF P, Above

\* The digits of the number that d makes are d.
LEMMA DigitsOfNumber ==
    ASSUME NEW b \in Nat \ {0}, NEW w, IsPlaceValues(w, b), NEW d \in Seq(0 .. b - 1)
    PROVE  Number(w, d) \in Nat /\ Digits(w, b, Len(d), Number(w, d)) = d
<1> DEFINE n == Len(d)
           x == Number(w, d)
<1>1. PICK f : IsTotals(f, w, d) /\ f[n] = x
  BY TotalsExist
<1>2. \A i \in 0 .. n : f[i] \in 0 .. w[i] - 1
  BY <1>1, TotalsFit
<1>3. n \in Nat /\ \A i \in Nat : w[i] \in Nat \ {0}
  <2>1. \A i \in Nat : w[i] \in Nat \ {0}
    BY DEF IsPlaceValues
  <2>2. n \in Nat
    OBVIOUS
  <2>3. QED
    BY <2>1, <2>2
<1> HIDE DEF x
<1>4. x \in Nat
  BY <1>1, <1>2, <1>3
<1>5. ASSUME NEW i \in 1 .. n PROVE (x \div w[i - 1]) % b = d[i]
  <2> DEFINE j == i - 1
             u == w[j]
             y == f[j]
             c == d[i]
  <2>1. j \in Nat /\ j \in 0 .. n - 1 /\ j \in 0 .. n /\ j + 1 = i /\ i \in 0 .. n
    BY <1>3
  <2>2. u \in Nat \ {0} /\ y \in 0 .. u - 1 /\ c \in 0 .. b - 1 /\ w[i] = b * u
    <3>1. w[j + 1] = b * w[j]
      BY <2>1 DEF IsPlaceValues
    <3>2. u \in Nat \ {0}
      BY <1>3, <2>1
    <3>3. y \in 0 .. u - 1
      BY <1>2, <2>1
    <3>4. c \in 0 .. b - 1
      OBVIOUS
    <3>5. w[i] = b * u
      BY <2>1, <3>1
    <3>6. QED
      BY <3>2, <3>3, <3>4, <3>5
  <2>3. f[i] = y + c * u
    BY <1>1, <2>1 DEF IsTotals
  <2>4. PICK h \in Nat : x = f[i] + w[i] * h
    <3>1. n - i \in Nat /\ i + (n - i) = n /\ i + (n - i) <= n
      BY <1>3
    <3>2. \A k \in Nat : i + k <= Len(d) => Above(f[i + k], f[i], w[i])
      BY <1>1, <2>1, TotalsAbove
    <3>3. \E h \in Nat : f[i + (n - i)] = f[i] + w[i] * h
      BY <3>1, <3>2 DEF Above
    <3>4. QED
      BY <1>1, <3>1, <3>3
  <2> HIDE DEF j, u, y, c
  <2>5. x = u * (b * h + c) + y
    <3>1. (y + c * u) + (b * u) * h = u * (b * h + c) + y
      BY <2>2, Z3
    <3>2. QED
      BY <2>2, <2>3, <2>4, <3>1
  <2> DEFINE q == b * h + c
  <2>6. q \in Nat
    BY <2>2, Z3
  <2>7. q % b = c
    BY <2>2, DivisionUnique
  <2> HIDE DEF q
  <2>8. x = u * q + y
    BY <2>5 DEF q
  <2>9. x \div u = q
    BY <2>2, <2>6, <2>8, DivisionUnique
  <2>10. QED
    BY <2>7, <2>9 DEF u, j, c
<1>6. d = [i \in 1 .. n |-> d[i]]
  OBVIOUS
<1> HIDE DEF n
<1>7. Digits(w, b, n, x) = d
  BY <1>5, <1>6 DEF Digits
<1>8. QED
  BY <1>4, <1>7 DEF n, x

\* Sequences that start at the end of others.
Backwards(s) == [i \in 1 .. Len(s) |-> s[(Len(s) - i) + 1]]

\* The digits backwards.
LEMMA DigitsReversed ==
    ASSUME NEW b \in Nat \ {0}, NEW w, IsPlaceValues(w, b), NEW n \in Nat, NEW x \in Nat
    PROVE  /\ Backwards(Digits(w, b, n, x)) = Highest(w, b, n, x)
           /\ Backwards(Highest(w, b, n, x)) = Digits(w, b, n, x)
<1> DEFINE s == Digits(w, b, n, x)
           t == Highest(w, b, n, x)
<1>1. Len(s) = n
  BY DigitsType
<1>2. Len(t) = n
  BY DigitsType
<1>3. ASSUME NEW i \in 1 .. n
      PROVE  s[(n - i) + 1] = t[i] /\ t[(n - i) + 1] = s[i]
  <2>1. (n - i) + 1 \in 1 .. n /\ ((n - i) + 1) - 1 = n - i /\ n - ((n - i) + 1) = i - 1
    OBVIOUS
  <2>2. QED
    BY <2>1 DEF Digits, Highest
<1>4. s = [i \in 1 .. n |-> s[i]] /\ t = [i \in 1 .. n |-> t[i]]
  BY DEF Digits, Highest
<1> HIDE DEF s, t
<1>5. Backwards(s) = t
  BY <1>1, <1>3, <1>4 DEF Backwards
<1>6. Backwards(t) = s
  BY <1>2, <1>3, <1>4 DEF Backwards
<1>7. QED
  BY <1>5, <1>6 DEF s, t

\* Storing a number in n digits, of a machine that puts the lowest one first:
\* with the digits swapped before, it has the highest one first.
LEMMA SwappedStore ==
    ASSUME NEW b \in Nat \ {0}, NEW w, IsPlaceValues(w, b), NEW n \in Nat, NEW x \in Nat
    PROVE  Digits(w, b, n, Number(w, Backwards(Digits(w, b, n, x)))) = Highest(w, b, n, x)
<1> DEFINE t == Highest(w, b, n, x)
<1>1. t \in Seq(0 .. b - 1)
  BY DigitsType
<1>2. Len(t) = n
  BY DigitsType
<1>3. Backwards(Digits(w, b, n, x)) = t
  BY DigitsReversed
<1> HIDE DEF t
<1>4. Digits(w, b, Len(t), Number(w, t)) = t
  BY <1>1, DigitsOfNumber
<1>5. QED
  BY <1>2, <1>3, <1>4 DEF t

\* Digits that have the highest one first, turned round, make the number.
LEMMA HighestRead ==
    ASSUME NEW b \in Nat \ {0}, NEW w, IsPlaceValues(w, b), NEW n \in Nat, NEW x \in Nat
    PROVE  Number(w, Backwards(Highest(w, b, n, x))) = x % w[n]
<1>1. Backwards(Highest(w, b, n, x)) = Digits(w, b, n, x)
  BY DigitsReversed
<1>2. Number(w, Digits(w, b, n, x)) = x % w[n]
  BY NumberOfDigits
<1>3. QED
  BY <1>1, <1>2

\* Loading such digits, on the same machine, and swapping them.
LEMMA SwappedLoad ==
    ASSUME NEW b \in Nat \ {0}, NEW w, IsPlaceValues(w, b), NEW n \in Nat, NEW x \in Nat
    PROVE  Number(w, Backwards(Digits(w, b, n, Number(w, Highest(w, b, n, x))))) = x % w[n]
<1> DEFINE t == Highest(w, b, n, x)
<1>1. t \in Seq(0 .. b - 1)
  BY DigitsType
<1>2. Len(t) = n
  BY DigitsType
<1>3. Number(w, Backwards(t)) = x % w[n]
  BY HighestRead
<1> HIDE DEF t
<1>4. Digits(w, b, Len(t), Number(w, t)) = t
  BY <1>1, DigitsOfNumber
<1>5. QED
  BY <1>2, <1>3, <1>4 DEF t

------------------------------------------------------------------------------
(* Texts in fields of a fixed size *)

Padded(s, size, c) == [i \in 1 .. size |-> IF i <= Len(s) THEN s[i] ELSE c]

\* What fits of the text is in the field, and c behind it.
LEMMA PaddedText ==
    ASSUME NEW size \in Nat, NEW n \in Nat, NEW S, NEW s \in [1 .. n -> S], NEW c
    PROVE  /\ Padded(s, size, c) \in [1 .. size -> S \cup {c}]
           /\ Len(Padded(s, size, c)) = size
           /\ \A i \in 1 .. size : Padded(s, size, c)[i] = IF i \in DOMAIN s THEN s[i] ELSE c
<1> DEFINE f == Padded(s, size, c)
<1>1. Len(s) = n /\ DOMAIN s = 1 .. n
  OBVIOUS
<1>2. f = [i \in 1 .. size |-> IF i <= n THEN s[i] ELSE c]
  BY <1>1 DEF Padded
<1> HIDE DEF f
<1>3. \A i \in 1 .. size : f[i] = IF i \in DOMAIN s THEN s[i] ELSE c
  BY <1>1, <1>2
<1>4. f \in [1 .. size -> S \cup {c}]
  <2>1. \A i \in 1 .. size : i <= n => s[i] \in S
    OBVIOUS
  <2>2. QED
    BY <1>2, <2>1
<1>5. Len(f) = size
  BY <1>4
<1>6. QED
  BY <1>3, <1>4, <1>5 DEF f

\* No text at all.
LEMMA PaddedBlank ==
    ASSUME NEW size \in Nat, NEW c
    PROVE  Padded(<< >>, size, c) \in [1 .. size -> {c}]
<1>1. \A i \in 1 .. size : ~ (i <= Len(<< >>))
  OBVIOUS
<1>2. QED
  BY <1>1 DEF Padded

\* A field that is copied again stays as it is.
LEMMA PaddedTwice ==
    ASSUME NEW size \in Nat, NEW S, NEW f \in [1 .. size -> S], NEW c
    PROVE  Padded(f, size, c) = f
<1>1. Len(f) = size
  OBVIOUS
<1>2. \A i \in 1 .. size : i <= Len(f)
  BY <1>1
<1>3. f = [i \in 1 .. size |-> f[i]]
  OBVIOUS
<1>4. QED
  BY <1>2, <1>3 DEF Padded
==============================================================================
