------------------------------ MODULE SumProofs -----------------------------
(***************************************************************************)
(* What the sums of the models amount to: SumFunction and                  *)
(* SumFunctionOnSet over a finite set of naturals, taken in any order.     *)
(* The tallies of Verify and the bytes that Duplicates reports are such    *)
(* sums.                                                                   *)
(***************************************************************************)
EXTENDS Integers, FiniteSets, Functions, FiniteSetTheorems, WellFoundedInduction, TLAPS

(* A set of naturals that is not empty has a least member. *)
LEMMA LeastIsThere ==
  ASSUME NEW S \in SUBSET Nat, S # {}
  PROVE  \E n \in S : \A m \in S : n <= m
<1> DEFINE R == OpToRel(<, Nat)
<1>1. PICK n \in S : \A m \in S : <<m, n>> \notin R
  <2> HIDE DEF R
  <2> QED
    BY NatLessThanWellFounded, WFMin DEF R
<1>2. ASSUME NEW m \in S PROVE n <= m
  <2>1. R = {pair \in Nat \X Nat : pair[1] < pair[2]}
    BY DEF OpToRel
  <2>2. m \in Nat /\ n \in Nat /\ <<m, n>> \notin R
    BY <1>1
  <2> HIDE DEF R
  <2>3. ~(m < n)
    BY <2>1, <2>2
  <2> QED
    BY <2>2, <2>3
<1> QED
  BY <1>2

(* Among subsets of a finite set there is one that no other is inside by one *)
(* element: what induction over its subsets rests on.                        *)
LEMMA LeastSubset ==
  ASSUME NEW S, IsFiniteSet(S), NEW F \in SUBSET (SUBSET S), F # {}
  PROVE  \E s \in F : \A x \in s : s \ {x} \notin F
<1> DEFINE sizes == {Cardinality(s) : s \in F}
<1>1. \A s \in F : IsFiniteSet(s) /\ Cardinality(s) \in Nat
  BY FS_Subset, FS_CardinalityType
<1>2. sizes \in SUBSET Nat /\ sizes # {}
  BY <1>1
<1>3. PICK n \in sizes : \A m \in sizes : n <= m
  <2> HIDE DEF sizes
  <2> QED
    BY <1>2, LeastIsThere
<1>4. PICK s \in F : n = Cardinality(s)
  OBVIOUS
<1>5. ASSUME NEW x \in s, s \ {x} \in F PROVE FALSE
  <2>1. Cardinality(s \ {x}) = Cardinality(s) - 1
    BY <1>1, FS_RemoveElement
  <2>2. Cardinality(s) <= Cardinality(s \ {x})
    BY <1>3, <1>4, <1>5
  <2> QED
    BY <2>1, <2>2, <1>1
<1> QED
  BY <1>5

Pick(s) == CHOOSE x \in s : TRUE
Adding(fun, S, it) ==
  it = [s \in SUBSET S |-> IF s = {} THEN 0 ELSE fun[Pick(s)] + it[s \ {Pick(s)}]]

LEMMA SumUnfolds ==
  ASSUME NEW fun, NEW S
  PROVE  SumFunctionOnSet(fun, S) = (CHOOSE it : Adding(fun, S, it))[S]
  BY Zenon DEF SumFunctionOnSet, FoldFunctionOnSet, MapThenFoldSet, Adding, Pick

LEMMA PickIsIn ==
  ASSUME NEW s, s # {}
  PROVE  Pick(s) \in s
  BY DEF Pick

(* A table that adds up every subset up to a size. *)
UpTo(S, n) == {s \in SUBSET S : Cardinality(s) <= n}
TableUpTo(fun, S, n, g) ==
  /\ g \in [UpTo(S, n) -> Nat]
  /\ \A s \in UpTo(S, n) : g[s] = IF s = {} THEN 0 ELSE fun[Pick(s)] + g[s \ {Pick(s)}]

LEMMA TablesGrow ==
  ASSUME NEW S, IsFiniteSet(S), NEW fun, \A x \in S : fun[x] \in Nat,
         NEW n \in Nat, NEW g, TableUpTo(fun, S, n, g)
  PROVE  \E h : TableUpTo(fun, S, n + 1, h)
<1> DEFINE h == [s \in UpTo(S, n + 1) |-> IF s = {} THEN 0 ELSE fun[Pick(s)] + g[s \ {Pick(s)}]]
<1>1. ASSUME NEW s \in UpTo(S, n + 1), s # {}
      PROVE  s \ {Pick(s)} \in UpTo(S, n) /\ fun[Pick(s)] \in Nat
  <2>1. IsFiniteSet(s) /\ s \subseteq S /\ Cardinality(s) <= n + 1 /\ Cardinality(s) \in Nat
    BY FS_Subset, FS_CardinalityType DEF UpTo
  <2>2. Pick(s) \in s
    BY <1>1, PickIsIn
  <2>3. Cardinality(s \ {Pick(s)}) = Cardinality(s) - 1
    BY <2>1, <2>2, FS_RemoveElement
  <2> QED
    BY <2>1, <2>2, <2>3 DEF UpTo
<1>2. UpTo(S, n) \subseteq UpTo(S, n + 1)
  BY FS_Subset, FS_CardinalityType DEF UpTo
<1>3. \A s \in UpTo(S, n) : h[s] = g[s]
  BY <1>2 DEF TableUpTo
<1>4. h \in [UpTo(S, n + 1) -> Nat]
  BY <1>1 DEF TableUpTo
<1>5. ASSUME NEW s \in UpTo(S, n + 1)
      PROVE  h[s] = IF s = {} THEN 0 ELSE fun[Pick(s)] + h[s \ {Pick(s)}]
  BY <1>1, <1>3
<1> HIDE DEF h
<1> QED
  BY <1>4, <1>5 DEF TableUpTo

LEMMA TableOfNone ==
  ASSUME NEW S, IsFiniteSet(S), NEW fun
  PROVE  \E g : TableUpTo(fun, S, 0, g)
<1>1. UpTo(S, 0) = {{}}
  BY FS_Subset, FS_CardinalityType, FS_EmptySet DEF UpTo
<1>2. TableUpTo(fun, S, 0, [s \in UpTo(S, 0) |-> 0])
  BY <1>1 DEF TableUpTo
<1> QED
  BY <1>2

LEMMA TablesAreThere ==
  ASSUME NEW S, IsFiniteSet(S), NEW fun, \A x \in S : fun[x] \in Nat, NEW m \in Nat
  PROVE  \E g : TableUpTo(fun, S, m, g)
<1> DEFINE bad == {n \in Nat : ~\E g : TableUpTo(fun, S, n, g)}
<1> SUFFICES ASSUME bad # {} PROVE FALSE
  OBVIOUS
<1>1. PICK n \in bad : \A k \in bad : n <= k
  BY LeastIsThere
<1>2. n # 0
  BY TableOfNone
<1>3. n - 1 \in Nat /\ n - 1 \notin bad
  BY <1>1, <1>2
<1>4. PICK g : TableUpTo(fun, S, n - 1, g)
  BY <1>3
<1>5. \E h : TableUpTo(fun, S, (n - 1) + 1, h)
  BY <1>3, <1>4, TablesGrow
<1>6. (n - 1) + 1 = n
  OBVIOUS
<1> QED
  BY <1>5, <1>6

LEMMA AddingIsThere ==
  ASSUME NEW S, IsFiniteSet(S), NEW fun, \A x \in S : fun[x] \in Nat
  PROVE  \E it : Adding(fun, S, it)
<1>1. Cardinality(S) \in Nat
  BY FS_CardinalityType
<1>2. PICK g : TableUpTo(fun, S, Cardinality(S), g)
  BY <1>1, TablesAreThere
<1>3. UpTo(S, Cardinality(S)) = SUBSET S
  BY FS_Subset DEF UpTo
<1>4. g = [s \in SUBSET S |-> g[s]]
  BY <1>2, <1>3 DEF TableUpTo
<1>5. [s \in SUBSET S |-> g[s]] = [s \in SUBSET S |-> IF s = {} THEN 0 ELSE fun[Pick(s)] + g[s \ {Pick(s)}]]
  BY <1>2, <1>3 DEF TableUpTo
<1> QED
  BY <1>4, <1>5 DEF Adding

LEMMA AddingAt ==
  ASSUME NEW S, NEW fun, NEW it, Adding(fun, S, it), NEW s \in SUBSET S
  PROVE  it[s] = IF s = {} THEN 0 ELSE fun[Pick(s)] + it[s \ {Pick(s)}]
  BY DEF Adding

(* What is added up does not depend on the set that the table is made for. *)
LEMMA AddingAgrees ==
  ASSUME NEW S, IsFiniteSet(S), NEW T \in SUBSET S, NEW fun, \A x \in S : fun[x] \in Nat,
         NEW f, Adding(fun, S, f), NEW g, Adding(fun, T, g)
  PROVE  \A s \in SUBSET T : f[s] \in Nat /\ f[s] = g[s]
<1> DEFINE bad == {s \in SUBSET T : ~(f[s] \in Nat /\ f[s] = g[s])}
<1> SUFFICES ASSUME bad # {} PROVE FALSE
  OBVIOUS
<1>1. PICK s \in bad : \A x \in s : s \ {x} \notin bad
  BY LeastSubset, FS_Subset
<1>2. s # {}
  BY AddingAt
<1>3. Pick(s) \in s
  BY <1>2, PickIsIn
<1>4. s \ {Pick(s)} \in SUBSET T /\ s \ {Pick(s)} \notin bad
  BY <1>1, <1>3
<1>5. f[s \ {Pick(s)}] \in Nat /\ f[s \ {Pick(s)}] = g[s \ {Pick(s)}]
  BY <1>4
<1>6. f[s] = fun[Pick(s)] + f[s \ {Pick(s)}] /\ g[s] = fun[Pick(s)] + g[s \ {Pick(s)}]
  <2>1. s \in SUBSET T /\ s \in SUBSET S
    OBVIOUS
  <2> HIDE DEF bad
  <2> QED
    BY <1>2, <2>1, AddingAt
<1>7. fun[Pick(s)] \in Nat
  BY <1>3
<1> QED
  BY <1>5, <1>6, <1>7

LEMMA SumOfNone ==
  ASSUME NEW fun
  PROVE  SumFunctionOnSet(fun, {}) = 0
<1>1. IsFiniteSet({}) /\ {} \in SUBSET {}
  BY FS_EmptySet
<1>2. Adding(fun, {}, CHOOSE it : Adding(fun, {}, it))
  BY <1>1, AddingIsThere
<1> QED
  BY <1>1, <1>2, SumUnfolds, AddingAt

(* A sum of naturals is the first picked and the rest. *)
LEMMA SumOnce ==
  ASSUME NEW S, IsFiniteSet(S), NEW fun, \A x \in S : fun[x] \in Nat, S # {}
  PROVE  /\ Pick(S) \in S
         /\ SumFunctionOnSet(fun, S) = fun[Pick(S)] + SumFunctionOnSet(fun, S \ {Pick(S)})
<1> DEFINE T == S \ {Pick(S)}
           f == CHOOSE it : Adding(fun, S, it)
           g == CHOOSE it : Adding(fun, T, it)
<1>1. T \in SUBSET S /\ IsFiniteSet(T) /\ \A x \in T : fun[x] \in Nat
  BY FS_Subset
<1>2. Adding(fun, S, f)
  BY AddingIsThere
<1>3. Adding(fun, T, g)
  <2> HIDE DEF T
  <2> QED
    BY <1>1, AddingIsThere
<1>4. f[T] = g[T]
  <2> HIDE DEF T, f, g
  <2> QED
    BY <1>1, <1>2, <1>3, AddingAgrees
<1>5. SumFunctionOnSet(fun, S) = f[S] /\ SumFunctionOnSet(fun, T) = g[T]
  BY SumUnfolds
<1>6. f[S] = fun[Pick(S)] + f[T]
  <2> HIDE DEF f
  <2> QED
    BY <1>2, AddingAt
<1> HIDE DEF f, g
<1> QED
  BY <1>4, <1>5, <1>6, PickIsIn

LEMMA SumIsNat ==
  ASSUME NEW S, IsFiniteSet(S), NEW fun, \A x \in S : fun[x] \in Nat
  PROVE  SumFunctionOnSet(fun, S) \in Nat
<1>1. Adding(fun, S, CHOOSE it : Adding(fun, S, it))
  BY AddingIsThere
<1>2. S \in SUBSET S
  OBVIOUS
<1> DEFINE f == CHOOSE it : Adding(fun, S, it)
<1>3. f[S] \in Nat
  <2>1. Adding(fun, S, f)
    BY <1>1
  <2> HIDE DEF f
  <2> QED
    BY <2>1, <1>2, AddingAgrees
<1> QED
  BY <1>3, SumUnfolds

(* Any member can be taken out of a sum. *)
LEMMA SumOut ==
  ASSUME NEW S, IsFiniteSet(S), NEW fun, \A x \in S : fun[x] \in Nat, NEW x \in S
  PROVE  SumFunctionOnSet(fun, S) = fun[x] + SumFunctionOnSet(fun, S \ {x})
<1> DEFINE Out(s) == \A y \in s : SumFunctionOnSet(fun, s) = fun[y] + SumFunctionOnSet(fun, s \ {y})
           bad == {s \in SUBSET S : ~Out(s)}
<1> SUFFICES ASSUME bad # {} PROVE FALSE
  OBVIOUS
<1>1. PICK s \in bad : \A y \in s : s \ {y} \notin bad
  BY LeastSubset
<1>2. PICK y \in s : SumFunctionOnSet(fun, s) # fun[y] + SumFunctionOnSet(fun, s \ {y})
  BY <1>1
<1>3. s \in SUBSET S
  BY <1>1
<1> DEFINE p == Pick(s)
           r == s \ {p, y}
<1>4. \A t \in SUBSET S : /\ IsFiniteSet(t) /\ \A z \in t : fun[z] \in Nat
                          /\ SumFunctionOnSet(fun, t) \in Nat
  BY FS_Subset, SumIsNat
<1>5. p \in s /\ SumFunctionOnSet(fun, s) = fun[p] + SumFunctionOnSet(fun, s \ {p})
  BY <1>2, <1>3, <1>4, SumOnce
<1>6. p # y
  BY <1>2, <1>5
<1>7. s \ {p} \in SUBSET S /\ s \ {y} \in SUBSET S /\ r \in SUBSET S
  BY <1>3
<1>8. Out(s \ {p}) /\ Out(s \ {y})
  BY <1>1, <1>5, <1>7
<1>9. y \in s \ {p} /\ p \in s \ {y} /\ (s \ {p}) \ {y} = r /\ (s \ {y}) \ {p} = r
  BY <1>2, <1>5, <1>6
<1>10. SumFunctionOnSet(fun, s \ {p}) = fun[y] + SumFunctionOnSet(fun, r)
  BY <1>8, <1>9
<1>11. SumFunctionOnSet(fun, s \ {y}) = fun[p] + SumFunctionOnSet(fun, r)
  BY <1>8, <1>9
<1>12. fun[p] \in Nat /\ fun[y] \in Nat /\ SumFunctionOnSet(fun, r) \in Nat
  BY <1>3, <1>4, <1>5, <1>7
<1> HIDE DEF p, r
<1> QED
  BY <1>2, <1>5, <1>10, <1>11, <1>12

(* Functions that agree on a set have the same sum over it. *)
LEMMA SumSame ==
  ASSUME NEW S, IsFiniteSet(S), NEW f, NEW g, \A x \in S : f[x] \in Nat /\ g[x] = f[x]
  PROVE  SumFunctionOnSet(f, S) = SumFunctionOnSet(g, S)
<1> DEFINE bad == {s \in SUBSET S : SumFunctionOnSet(f, s) # SumFunctionOnSet(g, s)}
<1> SUFFICES ASSUME bad # {} PROVE FALSE
  OBVIOUS
<1>1. PICK s \in bad : \A y \in s : s \ {y} \notin bad
  BY LeastSubset
<1>2. s # {}
  BY <1>1, SumOfNone
<1>3. PICK y \in s : TRUE
  BY <1>2
<1>4. s \in SUBSET S /\ IsFiniteSet(s) /\ SumFunctionOnSet(f, s) # SumFunctionOnSet(g, s)
  BY <1>1, FS_Subset
<1>5. SumFunctionOnSet(f, s \ {y}) = SumFunctionOnSet(g, s \ {y})
  BY <1>1, <1>4
<1> HIDE DEF bad
<1>6. \A x \in s : f[x] \in Nat /\ g[x] \in Nat /\ g[x] = f[x]
  BY <1>4
<1>7. SumFunctionOnSet(f, s) = f[y] + SumFunctionOnSet(f, s \ {y})
  BY <1>3, <1>4, <1>6, SumOut
<1>8. SumFunctionOnSet(g, s) = g[y] + SumFunctionOnSet(g, s \ {y})
  BY <1>3, <1>4, <1>6, SumOut
<1> QED
  BY <1>3, <1>4, <1>5, <1>6, <1>7, <1>8

(* Where each term is at most another, so is the sum. *)
LEMMA SumAtMost ==
  ASSUME NEW S, IsFiniteSet(S), NEW f, NEW g, \A x \in S : f[x] \in Nat /\ g[x] \in Nat /\ f[x] <= g[x]
  PROVE  SumFunctionOnSet(f, S) <= SumFunctionOnSet(g, S)
<1> DEFINE bad == {s \in SUBSET S : ~(SumFunctionOnSet(f, s) <= SumFunctionOnSet(g, s))}
<1> SUFFICES ASSUME bad # {} PROVE FALSE
  OBVIOUS
<1>1. PICK s \in bad : \A y \in s : s \ {y} \notin bad
  BY LeastSubset
<1>2. s # {}
  BY <1>1, SumOfNone
<1>3. PICK y \in s : TRUE
  BY <1>2
<1>4. s \in SUBSET S /\ IsFiniteSet(s) /\ IsFiniteSet(s \ {y}) /\ s \ {y} \subseteq S
      /\ ~(SumFunctionOnSet(f, s) <= SumFunctionOnSet(g, s))
  BY <1>1, FS_Subset
<1>5. SumFunctionOnSet(f, s \ {y}) <= SumFunctionOnSet(g, s \ {y})
  BY <1>1, <1>3, <1>4
<1> HIDE DEF bad
<1>6. \A x \in s : f[x] \in Nat /\ g[x] \in Nat /\ f[x] <= g[x]
  BY <1>4
<1>7. SumFunctionOnSet(f, s) = f[y] + SumFunctionOnSet(f, s \ {y})
  BY <1>3, <1>4, <1>6, SumOut
<1>8. SumFunctionOnSet(g, s) = g[y] + SumFunctionOnSet(g, s \ {y})
  BY <1>3, <1>4, <1>6, SumOut
<1>9. SumFunctionOnSet(f, s \ {y}) \in Nat /\ SumFunctionOnSet(g, s \ {y}) \in Nat
  BY <1>4, <1>6, SumIsNat
<1> QED
  BY <1>3, <1>4, <1>5, <1>6, <1>7, <1>8, <1>9

(* Terms that are sums add up apart. *)
LEMMA SumPlus ==
  ASSUME NEW S, IsFiniteSet(S), NEW f, NEW g, NEW h,
         \A x \in S : f[x] \in Nat /\ g[x] \in Nat /\ h[x] = f[x] + g[x]
  PROVE  SumFunctionOnSet(h, S) = SumFunctionOnSet(f, S) + SumFunctionOnSet(g, S)
<1> DEFINE bad == {s \in SUBSET S : SumFunctionOnSet(h, s) # SumFunctionOnSet(f, s) + SumFunctionOnSet(g, s)}
<1> SUFFICES ASSUME bad # {} PROVE FALSE
  OBVIOUS
<1>1. PICK s \in bad : \A y \in s : s \ {y} \notin bad
  BY LeastSubset
<1>2. s # {}
  <2>1. SumFunctionOnSet(h, {}) = 0 /\ SumFunctionOnSet(f, {}) = 0 /\ SumFunctionOnSet(g, {}) = 0
    BY SumOfNone
  <2> QED
    BY <1>1, <2>1
<1>3. PICK y \in s : TRUE
  BY <1>2
<1>4. s \in SUBSET S /\ IsFiniteSet(s) /\ IsFiniteSet(s \ {y}) /\ s \ {y} \subseteq S
      /\ SumFunctionOnSet(h, s) # SumFunctionOnSet(f, s) + SumFunctionOnSet(g, s)
  BY <1>1, FS_Subset
<1>5. SumFunctionOnSet(h, s \ {y}) = SumFunctionOnSet(f, s \ {y}) + SumFunctionOnSet(g, s \ {y})
  BY <1>1, <1>3, <1>4
<1> HIDE DEF bad
<1>6. \A x \in s : f[x] \in Nat /\ g[x] \in Nat /\ h[x] \in Nat /\ h[x] = f[x] + g[x]
  BY <1>4
<1>7. SumFunctionOnSet(f, s) = f[y] + SumFunctionOnSet(f, s \ {y})
  BY <1>3, <1>4, <1>6, SumOut
<1>8. SumFunctionOnSet(g, s) = g[y] + SumFunctionOnSet(g, s \ {y})
  BY <1>3, <1>4, <1>6, SumOut
<1>9. SumFunctionOnSet(h, s) = h[y] + SumFunctionOnSet(h, s \ {y})
  BY <1>3, <1>4, <1>6, SumOut
<1>10. SumFunctionOnSet(f, s \ {y}) \in Nat /\ SumFunctionOnSet(g, s \ {y}) \in Nat
  BY <1>4, <1>6, SumIsNat
<1> QED
  BY <1>3, <1>4, <1>5, <1>6, <1>7, <1>8, <1>9, <1>10

(* The sum over two sets that share nothing. *)
LEMMA SumUnion ==
  ASSUME NEW S, IsFiniteSet(S), NEW f, \A x \in S : f[x] \in Nat,
         NEW T \in SUBSET S
  PROVE  SumFunctionOnSet(f, S) = SumFunctionOnSet(f, T) + SumFunctionOnSet(f, S \ T)
<1> DEFINE bad == {s \in SUBSET T : SumFunctionOnSet(f, s \cup (S \ T)) # SumFunctionOnSet(f, s) + SumFunctionOnSet(f, S \ T)}
<1>0. T \cup (S \ T) = S /\ T \in SUBSET T
  OBVIOUS
<1> SUFFICES ASSUME bad # {} PROVE FALSE
  BY <1>0
<1>1. PICK s \in bad : \A y \in s : s \ {y} \notin bad
  BY LeastSubset, FS_Subset
<1>2. \A t \in SUBSET S : IsFiniteSet(t) /\ SumFunctionOnSet(f, t) \in Nat /\ \A z \in t : f[z] \in Nat
  BY SumIsNat, FS_Subset
<1>3. s # {}
  <2>1. {} \cup (S \ T) = S \ T /\ S \ T \in SUBSET S
    OBVIOUS
  <2>2. SumFunctionOnSet(f, S \ T) \in Nat
    BY <2>1, <1>2
  <2> QED
    BY <1>1, <2>1, <2>2, SumOfNone
<1>4. PICK y \in s : TRUE
  BY <1>3
<1>5. s \in SUBSET T /\ s \ {y} \in SUBSET T
      /\ SumFunctionOnSet(f, s \cup (S \ T)) # SumFunctionOnSet(f, s) + SumFunctionOnSet(f, S \ T)
  BY <1>1
<1>6. SumFunctionOnSet(f, (s \ {y}) \cup (S \ T)) = SumFunctionOnSet(f, s \ {y}) + SumFunctionOnSet(f, S \ T)
  BY <1>1, <1>4, <1>5
<1> HIDE DEF bad
<1>7. (s \cup (S \ T)) \ {y} = (s \ {y}) \cup (S \ T) /\ y \in s \cup (S \ T) /\ s \cup (S \ T) \in SUBSET S
  BY <1>4, <1>5
<1>8. SumFunctionOnSet(f, s) = f[y] + SumFunctionOnSet(f, s \ {y})
  BY <1>2, <1>4, <1>5, SumOut
<1>9. SumFunctionOnSet(f, s \cup (S \ T)) = f[y] + SumFunctionOnSet(f, (s \ {y}) \cup (S \ T))
  BY <1>2, <1>7, SumOut
<1>10. /\ f[y] \in Nat /\ SumFunctionOnSet(f, s \ {y}) \in Nat /\ SumFunctionOnSet(f, S \ T) \in Nat
  BY <1>2, <1>4, <1>5
<1> QED
  BY <1>5, <1>6, <1>8, <1>9, <1>10

(* A part of a sum is at most the whole. *)
LEMMA SumOfPart ==
  ASSUME NEW S, IsFiniteSet(S), NEW f, \A x \in S : f[x] \in Nat, NEW T \in SUBSET S
  PROVE  SumFunctionOnSet(f, T) <= SumFunctionOnSet(f, S)
<1>1. SumFunctionOnSet(f, T) \in Nat /\ SumFunctionOnSet(f, S \ T) \in Nat
  BY SumIsNat, FS_Subset
<1> QED
  BY <1>1, SumUnion

LEMMA SumOfOne ==
  ASSUME NEW x, NEW f, f[x] \in Nat
  PROVE  SumFunctionOnSet(f, {x}) = f[x]
<1>1. IsFiniteSet({x}) /\ {x} \ {x} = {}
  BY FS_Singleton
<1>2. SumFunctionOnSet(f, {x}) = f[x] + SumFunctionOnSet(f, {})
  BY <1>1, SumOut
<1> QED
  BY <1>2, SumOfNone

(* Equal terms add up to their number times their value. *)
LEMMA SumOfEqual ==
  ASSUME NEW S, IsFiniteSet(S), NEW c \in Nat, NEW f, \A x \in S : f[x] = c
  PROVE  SumFunctionOnSet(f, S) = Cardinality(S) * c
<1> DEFINE bad == {s \in SUBSET S : SumFunctionOnSet(f, s) # Cardinality(s) * c}
<1> SUFFICES ASSUME bad # {} PROVE FALSE
  OBVIOUS
<1>1. PICK s \in bad : \A y \in s : s \ {y} \notin bad
  BY LeastSubset
<1>2. s # {}
  BY <1>1, SumOfNone, FS_EmptySet
<1>3. PICK y \in s : TRUE
  BY <1>2
<1>4. s \in SUBSET S /\ IsFiniteSet(s) /\ SumFunctionOnSet(f, s) # Cardinality(s) * c
  BY <1>1, FS_Subset
<1>5. SumFunctionOnSet(f, s \ {y}) = Cardinality(s \ {y}) * c
  BY <1>1, <1>4
<1> HIDE DEF bad
<1>6. SumFunctionOnSet(f, s) = c + SumFunctionOnSet(f, s \ {y})
  BY <1>3, <1>4, SumOut
<1>7. Cardinality(s \ {y}) = Cardinality(s) - 1 /\ Cardinality(s) \in Nat
  BY <1>3, <1>4, FS_RemoveElement, FS_CardinalityType
<1>8. (Cardinality(s) - 1) * c + c = Cardinality(s) * c
  BY <1>7
<1> QED
  BY <1>4, <1>5, <1>6, <1>7, <1>8

(* A common factor is one of the sum. *)
LEMMA SumTimes ==
  ASSUME NEW S, IsFiniteSet(S), NEW c \in Nat, NEW f, NEW g,
         \A x \in S : f[x] \in Nat /\ g[x] = f[x] * c
  PROVE  SumFunctionOnSet(g, S) = SumFunctionOnSet(f, S) * c
<1> DEFINE bad == {s \in SUBSET S : SumFunctionOnSet(g, s) # SumFunctionOnSet(f, s) * c}
<1> SUFFICES ASSUME bad # {} PROVE FALSE
  OBVIOUS
<1>1. PICK s \in bad : \A y \in s : s \ {y} \notin bad
  BY LeastSubset
<1>2. s # {}
  <2>1. SumFunctionOnSet(f, {}) = 0 /\ SumFunctionOnSet(g, {}) = 0 /\ 0 * c = 0
    BY SumOfNone
  <2> QED
    BY <1>1, <2>1
<1>3. PICK y \in s : TRUE
  BY <1>2
<1>4. s \in SUBSET S /\ IsFiniteSet(s) /\ IsFiniteSet(s \ {y}) /\ s \ {y} \subseteq S
      /\ SumFunctionOnSet(g, s) # SumFunctionOnSet(f, s) * c
  BY <1>1, FS_Subset
<1>5. SumFunctionOnSet(g, s \ {y}) = SumFunctionOnSet(f, s \ {y}) * c
  BY <1>1, <1>3, <1>4
<1> HIDE DEF bad
<1>6. \A x \in s : f[x] \in Nat /\ g[x] = f[x] * c /\ g[x] \in Nat
  BY <1>4
<1>7. SumFunctionOnSet(f, s) = f[y] + SumFunctionOnSet(f, s \ {y})
  BY <1>3, <1>4, <1>6, SumOut
<1>8. SumFunctionOnSet(g, s) = g[y] + SumFunctionOnSet(g, s \ {y})
  BY <1>3, <1>4, <1>6, SumOut
<1>9. SumFunctionOnSet(f, s \ {y}) \in Nat
  BY <1>4, <1>6, SumIsNat
<1>10. (f[y] + SumFunctionOnSet(f, s \ {y})) * c = f[y] * c + SumFunctionOnSet(f, s \ {y}) * c
  BY <1>3, <1>6, <1>9
<1> QED
  BY <1>3, <1>4, <1>5, <1>6, <1>7, <1>8, <1>10

(* A set that a function maps a finite set onto is finite. *)
LEMMA ImageIsFinite ==
  ASSUME NEW S, IsFiniteSet(S), NEW fun
  PROVE  IsFiniteSet({fun[x] : x \in S})
<1> DEFINE onto == [x \in S |-> fun[x]]
<1>1. onto \in Surjection(S, {fun[x] : x \in S})
  BY DEF Surjection
<1> HIDE DEF onto
<1> QED
  BY <1>1, FS_Surjection
(* Parts that share nothing add up to their union. *)
LEMMA SumOfParts ==
  ASSUME NEW I, IsFiniteSet(I), NEW part, \A i \in I : IsFiniteSet(part[i]),
         \A i, j \in I : i # j => part[i] \cap part[j] = {},
         NEW f, \A i \in I : \A x \in part[i] : f[x] \in Nat,
         NEW g, \A i \in I : g[i] = SumFunctionOnSet(f, part[i])
  PROVE  SumFunctionOnSet(f, UNION {part[i] : i \in I}) = SumFunctionOnSet(g, I)
<1> DEFINE Of(J) == UNION {part[i] : i \in J}
           bad == {J \in SUBSET I : SumFunctionOnSet(f, Of(J)) # SumFunctionOnSet(g, J)}
<1> SUFFICES ASSUME bad # {} PROVE FALSE
  OBVIOUS
<1>1. PICK J \in bad : \A i \in J : J \ {i} \notin bad
  <2>1. bad \in SUBSET (SUBSET I)
    OBVIOUS
  <2> HIDE DEF bad
  <2> QED
    BY <2>1, LeastSubset
<1>2. J # {}
  <2>1. Of({}) = {}
    OBVIOUS
  <2>2. SumFunctionOnSet(f, {}) = 0 /\ SumFunctionOnSet(g, {}) = 0
    BY SumOfNone
  <2> QED
    BY <1>1, <2>1, <2>2
<1>3. PICK i \in J : TRUE
  BY <1>2
<1>4. J \in SUBSET I /\ IsFiniteSet(J) /\ IsFiniteSet(J \ {i})
  BY <1>1, FS_Subset
<1>5. SumFunctionOnSet(f, Of(J)) # SumFunctionOnSet(g, J)
  BY <1>1
<1>6. SumFunctionOnSet(f, Of(J \ {i})) = SumFunctionOnSet(g, J \ {i})
  BY <1>1, <1>3, <1>4
<1> HIDE DEF bad
<1>7. part[i] \in SUBSET Of(J) /\ Of(J) \ part[i] = Of(J \ {i})
  BY <1>3, <1>4
<1>8. IsFiniteSet(Of(J)) /\ \A x \in Of(J) : f[x] \in Nat
  <2>1. IsFiniteSet({part[j] : j \in J})
    BY <1>4, ImageIsFinite
  <2>2. \A s \in {part[j] : j \in J} : IsFiniteSet(s)
    BY <1>4
  <2> DEFINE parts == {part[j] : j \in J}
  <2>3. IsFiniteSet(UNION parts)
    <3>1. IsFiniteSet(parts) /\ \A s \in parts : IsFiniteSet(s)
      BY <2>1, <2>2
    <3> HIDE DEF parts
    <3> QED
      BY <3>1, FS_UNION
  <2> QED
    BY <2>3, <1>4
<1>9. \A j \in I : g[j] \in Nat
  BY SumIsNat
<1>10. SumFunctionOnSet(f, Of(J)) = SumFunctionOnSet(f, part[i]) + SumFunctionOnSet(f, Of(J \ {i}))
  <2> DEFINE whole == Of(J)
             one == part[i]
  <2>1. one \in SUBSET whole /\ IsFiniteSet(whole) /\ \A x \in whole : f[x] \in Nat
    BY <1>7, <1>8
  <2> HIDE DEF whole, one
  <2>2. SumFunctionOnSet(f, whole) = SumFunctionOnSet(f, one) + SumFunctionOnSet(f, whole \ one)
    BY <2>1, SumUnion
  <2> QED
    BY <1>7, <2>2 DEF whole, one
<1>11. SumFunctionOnSet(g, J) = g[i] + SumFunctionOnSet(g, J \ {i})
  BY <1>3, <1>4, <1>9, SumOut
<1>12. g[i] = SumFunctionOnSet(f, part[i])
  BY <1>3, <1>4
<1> QED
  BY <1>5, <1>6, <1>10, <1>11, <1>12

=============================================================================
