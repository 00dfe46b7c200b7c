----------------------------- MODULE SharedLemmas -----------------------------
(***************************************************************************)
(* Lemmas that the proofs of several components rest on: induction over    *)
(* numbers and finite sets, sums of a function over a finite set as the    *)
(* community modules define them (SumFunctionOnSet, MapThenSumSet), and    *)
(* what the operations of StoreOps do to the versions of a store.  The     *)
(* induction theorems of the library take an operator as a parameter;      *)
(* those here take the set of what has the property instead.               *)
(***************************************************************************)
EXTENDS StoreOps, Functions, FiniteSetsExt, FiniteSetTheorems, SequenceTheorems, TLAPS

\* A set of natural numbers has a least element.
LEMMA MinIn ==
  ASSUME NEW S \in SUBSET Nat, S # {}
  PROVE  Min(S) \in S /\ \A y \in S : Min(S) <= y
<1>1. PICK x \in S : \A y \in S : <<y, x>> \notin OpToRel(<, Nat)
  BY WFMin, NatLessThanWellFounded
<1>2. \A y \in S : ~ (y < x)
  BY <1>1 DEF OpToRel
<1>3. \A y \in S : x <= y
  BY <1>2
<1> QED BY <1>3 DEF Min

\* A set with 0 in it and, with a number, the next one is a set of all numbers.
LEMMA NatSetInduction ==
  ASSUME NEW P, 0 \in P, \A n \in Nat : n \in P => n + 1 \in P
  PROVE  Nat \subseteq P
<1> SUFFICES ASSUME NEW m \in Nat, m \notin P PROVE FALSE
  OBVIOUS
<1> DEFINE T == {n \in Nat : n \notin P}
<1>1. T \subseteq Nat /\ T # {}
  OBVIOUS
<1>2. PICK n \in T : \A k \in T : <<k, n>> \notin OpToRel(<, Nat)
  <2> HIDE DEF T
  <2> QED BY <1>1, WFMin, NatLessThanWellFounded
<1>3. \A k \in T : ~ (k < n)
  BY <1>2 DEF OpToRel
<1>4. n # 0
  OBVIOUS
<1>5. n - 1 \in Nat /\ n - 1 \in T
  BY <1>4
<1> QED BY <1>3, <1>5

\* What holds of the empty set, and of a set with one more element, holds of S.
LEMMA FiniteSetInduction ==
  ASSUME NEW S, IsFiniteSet(S), NEW F, {} \in F,
         \A T \in SUBSET S : \A x \in S \ T : T \in F => T \cup {x} \in F
  PROVE  S \in F
<1> DEFINE P == {n \in Nat : \A T \in SUBSET S : Cardinality(T) = n => T \in F}
<1>1. \A T \in SUBSET S : IsFiniteSet(T) /\ Cardinality(T) \in Nat
  BY FS_Subset, FS_CardinalityType
<1>2. 0 \in P
  <2> SUFFICES ASSUME NEW T \in SUBSET S, Cardinality(T) = 0 PROVE T \in F
    OBVIOUS
  <2> QED BY <1>1, FS_EmptySet
<1>3. ASSUME NEW n \in Nat, n \in P PROVE n + 1 \in P
  <2> SUFFICES ASSUME NEW T \in SUBSET S, Cardinality(T) = n + 1 PROVE T \in F
    OBVIOUS
  <2>0. T # {} /\ IsFiniteSet(T)
    BY <1>1, FS_EmptySet
  <2>1. PICK x \in T : TRUE
    BY <2>0
  <2>2. Cardinality(T \ {x}) = n
    <3>1. Cardinality(T \ {x}) = Cardinality(T) - 1
      BY <2>0, FS_RemoveElement
    <3> QED BY <3>1
  <2>3. T \ {x} \in F
    BY <1>3, <2>2
  <2>4. (T \ {x}) \cup {x} \in F
    BY <2>3
  <2> QED BY <2>4
<1>4. Nat \subseteq P
  <2> HIDE DEF P
  <2> QED BY <1>2, <1>3, NatSetInduction
<1> QED BY <1>1, <1>4

-----------------------------------------------------------------------------
\* The element the community modules take out of a set first.
AnyOf(s) == CHOOSE x \in s : TRUE

\* The sum over s, given the sums g over smaller sets.
Step(f, g, s) == IF s = {} THEN 0 ELSE f[AnyOf(s)] + g[s \ {AnyOf(s)}]

\* g sums f over the subsets of S.
Sums(f, S, g) == g = [s \in SUBSET S |-> Step(f, g, s)]

\* The definition in the community modules, in these terms.
LEMMA SumUnfolds ==
  ASSUME NEW f, NEW S
  PROVE  SumFunctionOnSet(f, S) = (CHOOSE g : Sums(f, S, g))[S]
  BY DEF SumFunctionOnSet, FoldFunctionOnSet, MapThenFoldSet, Sums, Step, AnyOf

\* g sums f over the subsets of S with at most n elements.
Sized(S, n) == {s \in SUBSET S : Cardinality(s) <= n}
SumsTo(f, S, n, g) == g = [s \in Sized(S, n) |-> Step(f, g, s)]

\* There is such a function, since the sets get smaller.
LEMMA SumsExist ==
  ASSUME NEW f, NEW S, IsFiniteSet(S)
  PROVE  \E g : Sums(f, S, g)
<1> DEFINE P == {n \in Nat : \E g : SumsTo(f, S, n, g)}
<1>1. \A T \in SUBSET S : IsFiniteSet(T) /\ Cardinality(T) \in Nat
  BY FS_Subset, FS_CardinalityType
<1>2. 0 \in P
  <2> DEFINE g == [s \in Sized(S, 0) |-> 0]
  <2>1. \A s \in Sized(S, 0) : s = {}
    BY <1>1, FS_EmptySet DEF Sized
  <2>2. g = [s \in Sized(S, 0) |-> Step(f, g, s)]
    BY <2>1 DEF Step
  <2>3. SumsTo(f, S, 0, g)
    BY <2>2 DEF SumsTo
  <2> QED BY <2>3
<1>3. ASSUME NEW n \in Nat, n \in P PROVE n + 1 \in P
  <2>1. PICK g : SumsTo(f, S, n, g)
    BY <1>3
  <2> DEFINE h == [s \in Sized(S, n + 1) |-> Step(f, g, s)]
  <2>2. ASSUME NEW s \in Sized(S, n + 1), s # {} PROVE s \ {AnyOf(s)} \in Sized(S, n)
    <3>1. AnyOf(s) \in s
      BY <2>2 DEF AnyOf
    <3> QED BY <1>1, <3>1, FS_RemoveElement DEF Sized
  <2>3. Sized(S, n) \subseteq Sized(S, n + 1)
    BY <1>1 DEF Sized
  <2>4. \A s \in Sized(S, n) : h[s] = g[s]
    BY <2>1, <2>3 DEF SumsTo
  <2>5. \A s \in Sized(S, n + 1) : Step(f, g, s) = Step(f, h, s)
    BY <2>2, <2>4 DEF Step
  <2>6. SumsTo(f, S, n + 1, h)
    BY <2>5 DEF SumsTo
  <2> HIDE DEF h
  <2> QED BY <2>6
<1>4. Nat \subseteq P
  <2> HIDE DEF P
  <2> QED BY <1>2, <1>3, NatSetInduction
<1>5. PICK g : SumsTo(f, S, Cardinality(S), g)
  BY <1>1, <1>4
<1>6. Sized(S, Cardinality(S)) = SUBSET S
  BY <1>1, FS_Subset DEF Sized
<1> QED BY <1>5, <1>6 DEF Sums, SumsTo

\* There is only one, and smaller sets are summed alike.
LEMMA SumsUnique ==
  ASSUME NEW f, NEW S, IsFiniteSet(S), NEW T \in SUBSET S,
         NEW g, NEW h, Sums(f, S, g), Sums(f, T, h)
  PROVE  g[T] = h[T]
<1> DEFINE P == {n \in Nat : \A r \in SUBSET T : Cardinality(r) = n => g[r] = h[r]}
<1>1. \A r \in SUBSET T : IsFiniteSet(r) /\ Cardinality(r) \in Nat
  BY FS_Subset, FS_CardinalityType
<1>2. 0 \in P
  <2> SUFFICES ASSUME NEW r \in SUBSET T, Cardinality(r) = 0 PROVE g[r] = h[r]
    OBVIOUS
  <2>1. r = {}
    BY <1>1, FS_EmptySet
  <2> QED BY <2>1 DEF Sums, Step
<1>3. ASSUME NEW n \in Nat, n \in P PROVE n + 1 \in P
  <2> SUFFICES ASSUME NEW r \in SUBSET T, Cardinality(r) = n + 1 PROVE g[r] = h[r]
    OBVIOUS
  <2>1. r # {} /\ IsFiniteSet(r)
    BY <1>1, FS_EmptySet
  <2>2. AnyOf(r) \in r
    BY <2>1 DEF AnyOf
  <2>3. Cardinality(r \ {AnyOf(r)}) = Cardinality(r) - 1
    BY <2>1, <2>2, FS_RemoveElement
  <2>4. g[r \ {AnyOf(r)}] = h[r \ {AnyOf(r)}]
    BY <1>3, <2>3
  <2>5. g[r] = f[AnyOf(r)] + g[r \ {AnyOf(r)}] /\ h[r] = f[AnyOf(r)] + h[r \ {AnyOf(r)}]
    BY <2>1 DEF Sums, Step
  <2> QED BY <2>4, <2>5
<1>4. Nat \subseteq P
  <2> HIDE DEF P
  <2> QED BY <1>2, <1>3, NatSetInduction
<1> QED BY <1>1, <1>4

\* The sum over nothing.
LEMMA SumEmpty == ASSUME NEW f PROVE SumFunctionOnSet(f, {}) = 0
<1>1. PICK g : Sums(f, {}, g)
  BY SumsExist, FS_EmptySet
<1>2. Sums(f, {}, CHOOSE h : Sums(f, {}, h))
  BY <1>1
<1> QED BY <1>2, SumUnfolds DEF Sums, Step

\* The sum over a set one element of which is taken out.
LEMMA SumAny ==
  ASSUME NEW f, NEW S, IsFiniteSet(S), S # {}
  PROVE  SumFunctionOnSet(f, S) = f[AnyOf(S)] + SumFunctionOnSet(f, S \ {AnyOf(S)})
<1> DEFINE x == AnyOf(S)
           g == CHOOSE e : Sums(f, S, e)
           h == CHOOSE e : Sums(f, S \ {x}, e)
<1>1. x \in S /\ IsFiniteSet(S \ {x})
  BY FS_RemoveElement DEF AnyOf
<1>2. Sums(f, S, g)
  BY SumsExist
<1>3. Sums(f, S \ {x}, h)
  <2>1. \E e : Sums(f, S \ {x}, e)
    BY <1>1, SumsExist
  <2> QED BY <2>1
<1>4. SumFunctionOnSet(f, S) = g[S] /\ SumFunctionOnSet(f, S \ {x}) = h[S \ {x}]
  BY SumUnfolds
<1> HIDE DEF g, h
<1>5. g[S] = f[x] + g[S \ {x}]
  BY <1>2 DEF Sums, Step
<1>6. g[S \ {x}] = h[S \ {x}]
  BY <1>2, <1>3, SumsUnique
<1> QED BY <1>4, <1>5, <1>6

-----------------------------------------------------------------------------
\* Sums of integers are integers, those of naturals are naturals.
LEMMA SumInt ==
  ASSUME NEW f, NEW S, IsFiniteSet(S), \A x \in S : f[x] \in Int
  PROVE  SumFunctionOnSet(f, S) \in Int
<1> DEFINE P == {n \in Nat : \A T \in SUBSET S :
                   Cardinality(T) = n => SumFunctionOnSet(f, T) \in Int}
<1>1. \A T \in SUBSET S : IsFiniteSet(T) /\ Cardinality(T) \in Nat
  BY FS_Subset, FS_CardinalityType
<1>2. 0 \in P
  <2> SUFFICES ASSUME NEW T \in SUBSET S, Cardinality(T) = 0
               PROVE  SumFunctionOnSet(f, T) \in Int
    OBVIOUS
  <2>1. T = {}
    BY <1>1, FS_EmptySet
  <2> QED BY <2>1, SumEmpty
<1>3. ASSUME NEW n \in Nat, n \in P PROVE n + 1 \in P
  <2> SUFFICES ASSUME NEW T \in SUBSET S, Cardinality(T) = n + 1
               PROVE  SumFunctionOnSet(f, T) \in Int
    OBVIOUS
  <2> DEFINE x == AnyOf(T)
  <2>1. T # {} /\ IsFiniteSet(T)
    BY <1>1, FS_EmptySet
  <2>2. x \in T /\ Cardinality(T \ {x}) = Cardinality(T) - 1
    BY <2>1, FS_RemoveElement DEF AnyOf
  <2>3. SumFunctionOnSet(f, T) = f[x] + SumFunctionOnSet(f, T \ {x})
    BY <2>1, SumAny
  <2>4. SumFunctionOnSet(f, T \ {x}) \in Int
    BY <1>3, <2>2
  <2> QED BY <2>2, <2>3, <2>4
<1>4. Nat \subseteq P
  <2> HIDE DEF P
  <2> QED BY <1>2, <1>3, NatSetInduction
<1> QED BY <1>1, <1>4

\* Any element may be taken out first.
LEMMA SumRemove ==
  ASSUME NEW f, NEW S, IsFiniteSet(S), \A x \in S : f[x] \in Int, NEW x \in S
  PROVE  SumFunctionOnSet(f, S) = f[x] + SumFunctionOnSet(f, S \ {x})
<1> DEFINE Sum(T) == SumFunctionOnSet(f, T)
           P == {n \in Nat : \A T \in SUBSET S : \A y \in T :
                   Cardinality(T) = n => Sum(T) = f[y] + Sum(T \ {y})}
<1>1. \A T \in SUBSET S : IsFiniteSet(T) /\ Cardinality(T) \in Nat
  BY FS_Subset, FS_CardinalityType
<1>0. \A T \in SUBSET S : Sum(T) \in Int
  BY <1>1, SumInt
<1>2. 0 \in P
  <2> SUFFICES ASSUME NEW T \in SUBSET S, Cardinality(T) = 0 PROVE T = {}
    OBVIOUS
  <2> QED BY <1>1, FS_EmptySet
<1>3. ASSUME NEW n \in Nat, n \in P PROVE n + 1 \in P
  <2> SUFFICES ASSUME NEW T \in SUBSET S, NEW y \in T, Cardinality(T) = n + 1
               PROVE  Sum(T) = f[y] + Sum(T \ {y})
    OBVIOUS
  <2> DEFINE z == AnyOf(T)
  <2>1. T # {} /\ IsFiniteSet(T)
    BY <1>1
  <2>2. z \in T
    BY <2>1 DEF AnyOf
  <2>3. Sum(T) = f[z] + Sum(T \ {z})
    BY <2>1, SumAny
  <2>4. CASE y = z
    BY <2>3, <2>4
  <2>5. CASE y # z
    <3>1. Cardinality(T \ {z}) = n /\ Cardinality(T \ {y}) = n
      <4>1. Cardinality(T \ {z}) = Cardinality(T) - 1
        BY <2>1, <2>2, FS_RemoveElement
      <4>2. Cardinality(T \ {y}) = Cardinality(T) - 1
        BY <2>1, FS_RemoveElement
      <4> QED BY <4>1, <4>2
    <3> HIDE DEF z
    <3>2. Sum(T \ {z}) = f[y] + Sum((T \ {z}) \ {y})
      BY <1>3, <2>5, <3>1
    <3>3. Sum(T \ {y}) = f[z] + Sum((T \ {y}) \ {z})
      BY <1>3, <2>2, <2>5, <3>1
    <3>4. (T \ {z}) \ {y} = (T \ {y}) \ {z}
      OBVIOUS
    <3>5. f[y] \in Int /\ f[z] \in Int /\ Sum((T \ {y}) \ {z}) \in Int
      BY <1>0, <2>2
    <3>6. Sum(T) = f[z] + (f[y] + Sum((T \ {y}) \ {z}))
      BY <2>3, <3>2, <3>4
    <3> HIDE DEF Sum
    <3>7. f[z] + (f[y] + Sum((T \ {y}) \ {z})) = f[y] + (f[z] + Sum((T \ {y}) \ {z}))
      BY <3>5
    <3> QED BY <3>3, <3>6, <3>7
  <2> QED BY <2>4, <2>5
<1>4. Nat \subseteq P
  <2> HIDE DEF P
  <2> QED BY <1>2, <1>3, NatSetInduction
<1> QED BY <1>1, <1>4

\* What is added to a set is added to its sum.
LEMMA SumAdd ==
  ASSUME NEW f, NEW S, IsFiniteSet(S), NEW x, x \notin S,
         \A y \in S \cup {x} : f[y] \in Int
  PROVE  SumFunctionOnSet(f, S \cup {x}) = f[x] + SumFunctionOnSet(f, S)
<1>1. IsFiniteSet(S \cup {x}) /\ x \in S \cup {x}
  BY FS_AddElement
<1>2. (S \cup {x}) \ {x} = S
  OBVIOUS
<1> QED BY <1>1, <1>2, SumRemove

\* The sum depends on the values at the elements only.
LEMMA SumSame ==
  ASSUME NEW f, NEW g, NEW S, IsFiniteSet(S),
         \A x \in S : f[x] \in Int /\ f[x] = g[x]
  PROVE  SumFunctionOnSet(f, S) = SumFunctionOnSet(g, S)
<1> DEFINE F == {T \in SUBSET S : SumFunctionOnSet(f, T) = SumFunctionOnSet(g, T)}
<1>1. {} \in F
  BY SumEmpty
<1>2. ASSUME NEW T \in SUBSET S, NEW x \in S \ T, T \in F PROVE T \cup {x} \in F
  <2>1. IsFiniteSet(T)
    BY FS_Subset
  <2>2. /\ SumFunctionOnSet(f, T \cup {x}) = f[x] + SumFunctionOnSet(f, T)
        /\ SumFunctionOnSet(g, T \cup {x}) = g[x] + SumFunctionOnSet(g, T)
    BY <2>1, SumAdd
  <2> QED BY <1>2, <2>2
<1>3. S \in F
  <2> HIDE DEF F
  <2> QED BY <1>1, <1>2, FiniteSetInduction
<1> QED BY <1>3

\* A sum of larger numbers is larger.
LEMMA SumMonotonic ==
  ASSUME NEW f, NEW g, NEW S, IsFiniteSet(S),
         \A x \in S : f[x] \in Int /\ g[x] \in Int /\ f[x] <= g[x]
  PROVE  SumFunctionOnSet(f, S) <= SumFunctionOnSet(g, S)
<1> DEFINE F == {T \in SUBSET S : SumFunctionOnSet(f, T) <= SumFunctionOnSet(g, T)}
<1>1. {} \in F
  BY SumEmpty
<1>2. ASSUME NEW T \in SUBSET S, NEW x \in S \ T, T \in F PROVE T \cup {x} \in F
  <2>1. IsFiniteSet(T)
    BY FS_Subset
  <2>2. /\ SumFunctionOnSet(f, T \cup {x}) = f[x] + SumFunctionOnSet(f, T)
        /\ SumFunctionOnSet(g, T \cup {x}) = g[x] + SumFunctionOnSet(g, T)
    BY <2>1, SumAdd
  <2>3. SumFunctionOnSet(f, T) \in Int /\ SumFunctionOnSet(g, T) \in Int
    BY <2>1, SumInt
  <2> QED BY <1>2, <2>2, <2>3
<1>3. S \in F
  <2> HIDE DEF F
  <2> QED BY <1>1, <1>2, FiniteSetInduction
<1> QED BY <1>3

\* One value changes.
LEMMA SumChange ==
  ASSUME NEW f, NEW g, NEW S, IsFiniteSet(S), NEW x \in S,
         \A y \in S : f[y] \in Int /\ g[y] \in Int,
         \A y \in S \ {x} : f[y] = g[y]
  PROVE  SumFunctionOnSet(g, S) = SumFunctionOnSet(f, S) - f[x] + g[x]
<1>1. IsFiniteSet(S \ {x})
  BY FS_RemoveElement
<1>2. SumFunctionOnSet(f, S \ {x}) = SumFunctionOnSet(g, S \ {x})
  BY <1>1, SumSame
<1>3. /\ SumFunctionOnSet(f, S) = f[x] + SumFunctionOnSet(f, S \ {x})
      /\ SumFunctionOnSet(g, S) = g[x] + SumFunctionOnSet(g, S \ {x})
  BY SumRemove
<1>4. SumFunctionOnSet(f, S \ {x}) \in Int
  BY <1>1, SumInt
<1> QED BY <1>2, <1>3, <1>4

\* The sum over a function's domain, and MapThenSumSet, in the same terms.
LEMMA SumFunctionDef == ASSUME NEW f PROVE SumFunction(f) = SumFunctionOnSet(f, DOMAIN f)
  BY DEF SumFunction

\* A sum of naturals is one, and no summand is more than it.
LEMMA SumNat ==
  ASSUME NEW f, NEW S, IsFiniteSet(S), \A x \in S : f[x] \in Nat
  PROVE  /\ SumFunctionOnSet(f, S) \in Nat
         /\ \A x \in S : f[x] <= SumFunctionOnSet(f, S)
<1> DEFINE F == {T \in SUBSET S : SumFunctionOnSet(f, T) \in Nat}
<1>1. {} \in F
  BY SumEmpty
<1>2. ASSUME NEW T \in SUBSET S, NEW x \in S \ T, T \in F PROVE T \cup {x} \in F
  <2>1. IsFiniteSet(T)
    BY FS_Subset
  <2>2. SumFunctionOnSet(f, T \cup {x}) = f[x] + SumFunctionOnSet(f, T)
    BY <2>1, SumAdd
  <2> QED BY <1>2, <2>2
<1> HIDE DEF F
<1>3. S \in F
  BY <1>1, <1>2, FiniteSetInduction
<1>4. ASSUME NEW x \in S PROVE f[x] <= SumFunctionOnSet(f, S)
  <2>1. SumFunctionOnSet(f, S) = f[x] + SumFunctionOnSet(f, S \ {x})
    BY SumRemove
  <2>2. S \ {x} \in F
    <3>1. {} \in F /\ \A T \in SUBSET (S \ {x}) : \A y \in (S \ {x}) \ T : T \in F => T \cup {y} \in F
      BY <1>1, <1>2
    <3>2. IsFiniteSet(S \ {x})
      BY FS_RemoveElement
    <3> QED BY <3>1, <3>2, FiniteSetInduction
  <2> QED BY <2>1, <2>2 DEF F
<1> QED BY <1>3, <1>4 DEF F

-----------------------------------------------------------------------------
\* PrunedVec::push and get: one more element, at the index after the last.
LEMMA VecPushLemma ==
  ASSUME NEW S, NEW P \in SUBSET Nat, NEW pv \in VecOf(S, P), NEW x \in S
  PROVE  /\ VecPush(pv, x) \in VecOf(S, P)
         /\ VecPush(pv, x).vec = Append(pv.vec, x)
         /\ VecPush(pv, x).pruned = pv.pruned
         /\ OriginalLength(pv) \in Nat
         /\ OriginalLength(VecPush(pv, x)) = OriginalLength(pv) + 1
         /\ VecLast(VecPush(pv, x)) = x
         /\ VecGet(VecPush(pv, x), OriginalLength(pv)) = x
         /\ \A i \in Nat \ {OriginalLength(pv)} :
              VecGet(VecPush(pv, x), i) = VecGet(pv, i)
<1>1. pv.vec \in Seq(S) /\ pv.pruned \in Nat /\ pv.pruned \in P
  BY DEF VecOf
<1>2. /\ VecPush(pv, x).vec = Append(pv.vec, x)
      /\ VecPush(pv, x).pruned = pv.pruned
      /\ VecPush(pv, x) \in VecOf(S, P)
  BY <1>1 DEF VecPush, VecOf
<1> DEFINE q == VecPush(pv, x)
<1> HIDE DEF q
<1>3. /\ Len(pv.vec) \in Nat
      /\ Len(q.vec) = Len(pv.vec) + 1
      /\ q.vec[Len(pv.vec) + 1] = x
      /\ \A i \in 1 .. Len(pv.vec) : q.vec[i] = pv.vec[i]
      /\ q.vec # <<>>
      /\ q.pruned = pv.pruned
  BY <1>1, <1>2 DEF q
<1>4. OriginalLength(pv) \in Nat /\ OriginalLength(q) = OriginalLength(pv) + 1
  BY <1>1, <1>3 DEF OriginalLength
<1>5. VecLast(q) = x
  BY <1>3 DEF VecLast
<1>6. ASSUME NEW i \in Nat
      PROVE  VecGet(q, i) = IF i = OriginalLength(pv) THEN x ELSE VecGet(pv, i)
  <2>1. CASE i = OriginalLength(pv)
    BY <1>1, <1>3, <2>1 DEF VecGet, OriginalLength
  <2>2. CASE i \in pv.pruned .. (pv.pruned + Len(pv.vec) - 1)
    <3>1. i - pv.pruned + 1 \in 1 .. Len(pv.vec) /\ i # OriginalLength(pv)
      BY <1>1, <1>3, <2>2 DEF OriginalLength
    <3>2. i \in q.pruned .. (q.pruned + Len(q.vec) - 1)
      BY <1>1, <1>3, <2>2
    <3> QED BY <1>3, <2>2, <3>1, <3>2 DEF VecGet
  <2>3. CASE i # OriginalLength(pv) /\ i \notin pv.pruned .. (pv.pruned + Len(pv.vec) - 1)
    <3>1. i \notin q.pruned .. (q.pruned + Len(q.vec) - 1)
      BY <1>1, <1>3, <2>3 DEF OriginalLength
    <3> QED BY <2>3, <3>1 DEF VecGet
  <2> QED BY <2>1, <2>2, <2>3
<1> QED BY <1>2, <1>3, <1>4, <1>5, <1>6 DEF q

\* PrunedVec::prune: the elements below the index are gone, the others keep
\* their index.
LEMMA VecPruneLemma ==
  ASSUME NEW S, None \notin S, NEW pv \in VecOf(S, Nat), NEW n \in Nat
  PROVE  /\ VecPrune(pv, n) \in VecOf(S, Nat)
         /\ OriginalLength(VecPrune(pv, n)) = OriginalLength(pv)
         /\ \A i \in Nat : VecGet(VecPrune(pv, n), i) =
                            IF n <= OriginalLength(pv) /\ i < n THEN None
                            ELSE VecGet(pv, i)
<1>1. pv.vec \in Seq(S) /\ pv.pruned \in Nat /\ Len(pv.vec) \in Nat
  BY DEF VecOf
<1> DEFINE q == VecPrune(pv, n)
<1>2. CASE n > pv.pruned /\ n <= OriginalLength(pv)
  <2> DEFINE sub == SubSeq(pv.vec, n - pv.pruned + 1, Len(pv.vec))
  <2>1. q = [vec |-> sub, pruned |-> n]
    BY <1>2 DEF VecPrune
  <2>2. /\ sub \in Seq(S)
        /\ Len(sub) = OriginalLength(pv) - n
        /\ \A i \in 1 .. (OriginalLength(pv) - n) :
             sub[i] = pv.vec[i + n - pv.pruned]
    <3> DEFINE a == n - pv.pruned + 1
    <3>1. /\ OriginalLength(pv) = Len(pv.vec) + pv.pruned
          /\ a \in 1 .. Len(pv.vec) + 1
          /\ Len(pv.vec) \in (a - 1) .. Len(pv.vec)
      BY <1>1, <1>2 DEF OriginalLength
    <3> HIDE DEF a
    <3>2. /\ SubSeq(pv.vec, a, Len(pv.vec)) \in Seq(S)
          /\ Len(SubSeq(pv.vec, a, Len(pv.vec))) = Len(pv.vec) - a + 1
          /\ \A i \in 1 .. (Len(pv.vec) - a + 1) :
               SubSeq(pv.vec, a, Len(pv.vec))[i] = pv.vec[a + i - 1]
      BY <1>1, <3>1, SubSeqProperties
    <3>3. Len(pv.vec) - a + 1 = OriginalLength(pv) - n
      BY <1>1, <3>1 DEF a
    <3>4. \A i \in 1 .. (OriginalLength(pv) - n) : a + i - 1 = i + n - pv.pruned
      BY <1>1, <3>1 DEF a
    <3> QED BY <3>2, <3>3, <3>4 DEF a
  <2> HIDE DEF q, sub
  <2>3. q \in VecOf(S, Nat) /\ q.vec = sub /\ q.pruned = n
    BY <2>1, <2>2 DEF VecOf
  <2>4. OriginalLength(q) = OriginalLength(pv)
    <3>1. OriginalLength(pv) \in Nat
      BY <1>1 DEF OriginalLength
    <3>2. OriginalLength(q) = Len(sub) + n
      BY <2>3 DEF OriginalLength
    <3> QED BY <2>2, <3>1, <3>2
  <2>5. ASSUME NEW i \in Nat
        PROVE  VecGet(q, i) = IF i < n THEN None ELSE VecGet(pv, i)
    <3>1. Len(sub) = Len(pv.vec) + pv.pruned - n /\ n > pv.pruned
      BY <1>1, <1>2, <2>2 DEF OriginalLength
    <3>2. i \in n .. (n + Len(sub) - 1) <=>
            i >= n /\ i \in pv.pruned .. (pv.pruned + Len(pv.vec) - 1)
      BY <1>1, <3>1
    <3>3. CASE i \in n .. (n + Len(sub) - 1)
      <4>1. i - n + 1 \in 1 .. (OriginalLength(pv) - n)
        BY <1>1, <3>1, <3>3 DEF OriginalLength
      <4>0. (i - n + 1) + n - pv.pruned = i - pv.pruned + 1
        BY <1>1
      <4>2. sub[i - n + 1] = pv.vec[i - pv.pruned + 1]
        BY <2>2, <4>0, <4>1
      <4>3. VecGet(q, i) = sub[i - n + 1] /\ VecGet(pv, i) = pv.vec[i - pv.pruned + 1] /\ ~(i < n)
        BY <2>3, <3>2, <3>3 DEF VecGet
      <4> QED BY <4>2, <4>3
    <3>4. CASE i \notin n .. (n + Len(sub) - 1)
      <4>1. VecGet(q, i) = None
        BY <2>3, <3>4 DEF VecGet
      <4>2. ~(i < n) => VecGet(pv, i) = None
        BY <3>2, <3>4 DEF VecGet
      <4> QED BY <4>1, <4>2
    <3> QED BY <3>3, <3>4
  <2> QED BY <1>2, <2>3, <2>4, <2>5 DEF q
<1>3. CASE ~(n > pv.pruned /\ n <= OriginalLength(pv))
  <2>1. q = pv
    BY <1>3 DEF VecPrune
  <2>2. ASSUME NEW i \in Nat, n <= OriginalLength(pv), i < n
        PROVE  VecGet(pv, i) = None
    BY <1>1, <1>3, <2>2 DEF VecGet, OriginalLength
  <2> QED BY <2>1, <2>2 DEF q
<1> QED BY <1>2, <1>3

\* The versions of a store are those from the first height that is not pruned
\* to the current one, and each is a state (get_state, PrunedVec::get).
LEMMA ReadLemma ==
  ASSUME NEW S, None \notin S, NEW P \in SUBSET Nat, NEW s \in StoreOf(S, P)
  PROVE  /\ CurrentHeight(s) \in Nat
         /\ s.store.pruned \in Nat
         /\ s.store.pruned <= CurrentHeight(s)
         /\ \A h \in Nat :
              IF h \in (s.store.pruned + 1) .. CurrentHeight(s)
              THEN /\ GetState(s, Stable(h)) = s.store.vec[h - s.store.pruned]
                   /\ GetState(s, Stable(h)) \in S
              ELSE GetState(s, Stable(h)) = None
  BY DEF StoreOf, VecOf, CurrentHeight, OriginalLength, GetState, Stable, VecGet

\* set, delete, apply and reset leave every committed version alone.
LEMMA WriteLemma ==
  ASSUME NEW D, NEW R, NEW P, NEW s \in StoreOf([D -> R], P),
         NEW p \in D, NEW v \in R, None \in R
  PROVE  /\ StoreSet(s, p, v) \in StoreOf([D -> R], P)
         /\ StoreSet(s, p, v).store = s.store
         /\ StoreSet(s, p, v).staged = s.staged
         /\ StoreSet(s, p, v).pending = [s.pending EXCEPT ![p] = v]
         /\ StoreDelete(s, p) \in StoreOf([D -> R], P)
         /\ StoreDelete(s, p).store = s.store
         /\ StoreDelete(s, p).staged = s.staged
         /\ StoreDelete(s, p).pending = [s.pending EXCEPT ![p] = None]
  BY DEF StoreOf, StoreSet, StoreDelete

\* apply and reset make `staged` and `pending` equal, each from the other.
LEMMA SettleLemma ==
  ASSUME NEW S, NEW P, NEW s \in StoreOf(S, P)
  PROVE  /\ StoreApply(s) \in StoreOf(S, P)
         /\ StoreApply(s).store = s.store
         /\ StoreApply(s).staged = s.pending
         /\ StoreApply(s).pending = s.pending
         /\ StoreReset(s) \in StoreOf(S, P)
         /\ StoreReset(s).store = s.store
         /\ StoreReset(s).staged = s.staged
         /\ StoreReset(s).pending = s.staged
  BY DEF StoreOf, StoreApply, StoreReset

\* commit adds exactly one version, the pending state, above the others.
LEMMA CommitLemma ==
  ASSUME NEW S, NEW P \in SUBSET Nat, NEW s \in StoreOf(S, P)
  PROVE  /\ StoreCommit(s) \in StoreOf(S, P)
         /\ CurrentHeight(s) \in Nat
         /\ CurrentHeight(StoreCommit(s)) = CurrentHeight(s) + 1
         /\ StoreCommit(s).store = VecPush(s.store, s.pending)
         /\ StoreCommit(s).staged = s.pending
         /\ StoreCommit(s).pending = s.pending
         /\ RootHash(StoreCommit(s)) = s.pending
         /\ \A h \in Nat : GetState(StoreCommit(s), Stable(h)) =
                             IF h = CurrentHeight(s) + 1 THEN s.pending
                             ELSE GetState(s, Stable(h))
<1> DEFINE c == StoreCommit(s)
           pv == s.store
<1>1. pv \in VecOf(S, P) /\ s.pending \in S
  BY DEF StoreOf
<1>2. /\ VecPush(pv, s.pending) \in VecOf(S, P)
      /\ OriginalLength(pv) \in Nat
      /\ OriginalLength(VecPush(pv, s.pending)) = OriginalLength(pv) + 1
      /\ VecLast(VecPush(pv, s.pending)) = s.pending
      /\ \A i \in Nat : VecGet(VecPush(pv, s.pending), i) =
                         IF i = OriginalLength(pv) THEN s.pending ELSE VecGet(pv, i)
  <2> DEFINE x == s.pending
  <2> HIDE DEF pv, x
  <2>1. pv \in VecOf(S, P) /\ x \in S
    BY <1>1 DEF x
  <2>2. P \in SUBSET Nat
    OBVIOUS
  <2>3. /\ VecPush(pv, x) \in VecOf(S, P)
        /\ OriginalLength(pv) \in Nat
        /\ OriginalLength(VecPush(pv, x)) = OriginalLength(pv) + 1
        /\ VecLast(VecPush(pv, x)) = x
        /\ VecGet(VecPush(pv, x), OriginalLength(pv)) = x
        /\ \A i \in Nat \ {OriginalLength(pv)} :
             VecGet(VecPush(pv, x), i) = VecGet(pv, i)
    BY <2>1, <2>2, VecPushLemma
  <2> QED BY <2>3 DEF x
<1>3. /\ c.store = VecPush(pv, s.pending)
      /\ c.staged = s.pending
      /\ c.pending = s.pending
      /\ c \in StoreOf(S, P)
  BY <1>1, <1>2 DEF StoreCommit, StoreApply, StoreOf
<1> HIDE DEF c
<1>4. CurrentHeight(c) = CurrentHeight(s) + 1 /\ CurrentHeight(s) \in Nat
  BY <1>2, <1>3 DEF CurrentHeight
<1>5. RootHash(c) = s.pending
  BY <1>2, <1>3 DEF RootHash, GetState, Latest
<1>6. ASSUME NEW h \in Nat
      PROVE  GetState(c, Stable(h)) = IF h = CurrentHeight(s) + 1 THEN s.pending
                                      ELSE GetState(s, Stable(h))
  <2>1. CASE h = 0
    BY <2>1, <1>4 DEF GetState, Stable
  <2>2. CASE h # 0
    <3>1. /\ GetState(c, Stable(h)) = VecGet(c.store, h - 1)
          /\ GetState(s, Stable(h)) = VecGet(s.store, h - 1)
      BY <2>2 DEF GetState, Stable
    <3>2. h - 1 \in Nat /\ (h - 1 = OriginalLength(pv) <=> h = CurrentHeight(s) + 1)
      BY <2>2, <1>2 DEF CurrentHeight
    <3> QED BY <1>2, <1>3, <3>1, <3>2
  <2> QED BY <2>1, <2>2
<1> QED BY <1>3, <1>4, <1>5, <1>6 DEF c

\* prune forgets a prefix of the versions and keeps the others unchanged.
LEMMA PruneLemma ==
  ASSUME NEW S, None \notin S, NEW s \in StoreOf(S, Nat), NEW n \in Nat
  PROVE  /\ StorePrune(s, n) \in StoreOf(S, Nat)
         /\ CurrentHeight(StorePrune(s, n)) = CurrentHeight(s)
         /\ StorePrune(s, n).staged = s.staged
         /\ StorePrune(s, n).pending = s.pending
         /\ \A h \in Nat :
              GetState(StorePrune(s, n), Stable(h)) =
                IF n <= CurrentHeight(s) /\ h <= n THEN None
                ELSE GetState(s, Stable(h))
<1> DEFINE q == StorePrune(s, n)
           pv == s.store
<1>1. pv \in VecOf(S, Nat)
  BY DEF StoreOf
<1>2. /\ VecPrune(pv, n) \in VecOf(S, Nat)
      /\ OriginalLength(VecPrune(pv, n)) = OriginalLength(pv)
      /\ \A i \in Nat : VecGet(VecPrune(pv, n), i) =
                         IF n <= OriginalLength(pv) /\ i < n THEN None
                         ELSE VecGet(pv, i)
  <2> HIDE DEF pv
  <2> QED BY <1>1, VecPruneLemma
<1>3. /\ q.store = VecPrune(pv, n)
      /\ q.staged = s.staged
      /\ q.pending = s.pending
      /\ q \in StoreOf(S, Nat)
  BY <1>1, <1>2 DEF StorePrune, StoreOf
<1> HIDE DEF q
<1>4. CurrentHeight(q) = CurrentHeight(s)
  BY <1>2, <1>3 DEF CurrentHeight
<1>5. ASSUME NEW h \in Nat
      PROVE  GetState(q, Stable(h)) = IF n <= CurrentHeight(s) /\ h <= n THEN None
                                      ELSE GetState(s, Stable(h))
  <2>1. CASE h = 0
    BY <2>1 DEF GetState, Stable
  <2>2. CASE h # 0
    <3>1. /\ GetState(q, Stable(h)) = VecGet(q.store, h - 1)
          /\ GetState(s, Stable(h)) = VecGet(s.store, h - 1)
      BY <2>2 DEF GetState, Stable
    <3>2. h - 1 \in Nat /\ (h - 1 < n <=> h <= n) /\ CurrentHeight(s) = OriginalLength(pv)
      BY <2>2 DEF CurrentHeight
    <3> QED BY <1>2, <1>3, <3>1, <3>2
  <2> QED BY <2>1, <2>2
<1> QED BY <1>3, <1>4, <1>5 DEF q
=============================================================================
