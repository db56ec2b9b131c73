------------------------------ MODULE SumLemmas ------------------------------
(***************************************************************************)
(* What the sums of the community modules compute, for any finite set and  *)
(* any function into the integers: SumFunctionOnSet does not depend on the *)
(* order in which its recursion takes the elements.  The models sum the    *)
(* amounts of rows and events with it.  And what the greatest and the      *)
(* least element of a finite set of numbers are, and how products and      *)
(* quotients compare.                                                      *)
(***************************************************************************)
EXTENDS Functions, FiniteSetsExt, Integers, FiniteSetTheorems, TLAPS

-----------------------------------------------------------------------------
(* Induction over finite sets, in the form of a least element *)

\* A family of subsets of a finite set has a minimal member.
LEMMA MinimalSubset ==
    ASSUME NEW S, IsFiniteSet(S), NEW F, F \subseteq SUBSET S, F # {}
    PROVE  \E T \in F : \A U \in F : U \subseteq T => U = T
  <1>. DEFINE R == StrictSubsetOrdering(S)
  <1>1. IsWellFoundedOn(R, SUBSET S)
        BY FS_StrictSubsetOrderingWellFounded, FS_FiniteSubsetsOfFinite
  <1>2. PICK T \in F : \A U \in F : ~ (<<U, T>> \in R)
    <2>. HIDE DEF R
    <2>. QED BY <1>1, WFMin
  <1>3. ASSUME NEW U \in F, U \subseteq T PROVE U = T
        BY <1>2, <1>3 DEF StrictSubsetOrdering
  <1>. QED BY <1>3

-----------------------------------------------------------------------------
(* The recursion of SumFunctionOnSet *)

First(s) == CHOOSE x \in s : TRUE
Term(f, g, s) == IF s = {} THEN 0 ELSE f[First(s)] + g[s \ {First(s)}]
IsSum(g, f, S) == g = [s \in SUBSET S |-> Term(f, g, s)]

LEMMA SumIsChosen ==
    ASSUME NEW f, NEW S
    PROVE  SumFunctionOnSet(f, S) = (CHOOSE g : IsSum(g, f, S))[S]
  BY DEF SumFunctionOnSet, FoldFunctionOnSet, MapThenFoldSet, IsSum, Term, First

LEMMA FirstIsIn == ASSUME NEW s, s # {} PROVE First(s) \in s
  BY DEF First

\* The recursion has a solution: one for the subsets of up to n elements gives
\* one for those of n + 1.
Smaller(S, n) == {s \in SUBSET S : Cardinality(s) <= n}
SumUpTo(f, S, n) == \E g : g = [s \in Smaller(S, n) |-> Term(f, g, s)]

LEMMA SumStep ==
    ASSUME NEW f, NEW S, IsFiniteSet(S), NEW n \in Nat, SumUpTo(f, S, n)
    PROVE  SumUpTo(f, S, n + 1)
  <1>1. PICK g : g = [s \in Smaller(S, n) |-> Term(f, g, s)]
        BY DEF SumUpTo
  <1>. DEFINE h == [s \in Smaller(S, n + 1) |-> Term(f, g, s)]
  <1>2. ASSUME NEW s \in Smaller(S, n + 1), s # {}
        PROVE  s \ {First(s)} \in Smaller(S, n) /\ s \ {First(s)} \in Smaller(S, n + 1)
    <2>1. /\ IsFiniteSet(s) /\ First(s) \in s
          /\ Cardinality(s) \in Nat /\ Cardinality(s) <= n + 1
          BY <1>2, FirstIsIn, FS_Subset, FS_CardinalityType DEF Smaller
    <2>2. Cardinality(s \ {First(s)}) = Cardinality(s) - 1
          BY <2>1, FS_RemoveElement
    <2>. QED BY <2>1, <2>2 DEF Smaller
  <1>3. ASSUME NEW s \in Smaller(S, n) PROVE s \in Smaller(S, n + 1) /\ h[s] = g[s]
    <2>1. IsFiniteSet(s) /\ Cardinality(s) \in Nat
          BY FS_Subset, FS_CardinalityType DEF Smaller
    <2>2. s \in Smaller(S, n + 1)
          BY <2>1 DEF Smaller
    <2>3. g[s] = Term(f, g, s)
          BY <1>1
    <2>. QED BY <2>2, <2>3
  <1>4. ASSUME NEW s \in Smaller(S, n + 1) PROVE Term(f, g, s) = Term(f, h, s)
    <2>. HIDE DEF h
    <2>. QED BY <1>2, <1>3 DEF Term
  <1>5. h = [s \in Smaller(S, n + 1) |-> Term(f, h, s)]
    <2>1. h = [s \in Smaller(S, n + 1) |-> Term(f, g, s)]
          OBVIOUS
    <2>. HIDE DEF h
    <2>. QED BY <1>4, <2>1
  <1>. HIDE DEF h
  <1>. QED BY <1>5 DEF SumUpTo

LEMMA SumExists ==
    ASSUME NEW f, NEW S, IsFiniteSet(S)
    PROVE  \E g : IsSum(g, f, S)
  <1>. DEFINE Bad == {n \in Nat : ~ SumUpTo(f, S, n)}
  <1>1. SumUpTo(f, S, 0)
    <2>1. ASSUME NEW s \in Smaller(S, 0) PROVE s = {}
          BY FS_Subset, FS_CardinalityType, FS_EmptySet DEF Smaller
    <2>. DEFINE g == [s \in Smaller(S, 0) |-> 0]
    <2>2. g = [s \in Smaller(S, 0) |-> Term(f, g, s)]
          BY <2>1 DEF Term
    <2>. QED BY <2>2 DEF SumUpTo
  <1>2. Bad = {}
    <2>. SUFFICES ASSUME Bad # {} PROVE FALSE
         OBVIOUS
    <2>1. PICK n \in Bad : \A m \in Bad : ~ (<<m, n>> \in OpToRel(<, Nat))
      <3>1. IsWellFoundedOn(OpToRel(<, Nat), Nat)
            BY NatLessThanWellFounded
      <3>2. Bad \subseteq Nat
            OBVIOUS
      <3>. HIDE DEF Bad
      <3>. QED BY <3>1, <3>2, WFMin
    <2>2. \A m \in Bad : ~ (m < n)
          BY <2>1 DEF OpToRel
    <2>3. n # 0
          BY <1>1
    <2>4. SumUpTo(f, S, n - 1)
          BY <2>2, <2>3
    <2>5. SumUpTo(f, S, (n - 1) + 1)
          BY <2>3, <2>4, SumStep
    <2>. QED BY <2>5
  <1>3. Cardinality(S) \in Nat
        BY FS_CardinalityType
  <1>4. Smaller(S, Cardinality(S)) = SUBSET S
        BY FS_Subset DEF Smaller
  <1>5. SumUpTo(f, S, Cardinality(S))
        BY <1>2, <1>3
  <1>. QED BY <1>4, <1>5 DEF SumUpTo, IsSum

\* Its solution for a set agrees with that for a subset.
LEMMA SumAgrees ==
    ASSUME NEW f, NEW S, IsFiniteSet(S), NEW T \in SUBSET S,
           NEW g, IsSum(g, f, S), NEW h, IsSum(h, f, T)
    PROVE  g[T] = h[T]
  <1>. DEFINE Bad == {s \in SUBSET T : g[s] # h[s]}
  <1>1. Bad = {}
    <2>. SUFFICES ASSUME Bad # {} PROVE FALSE
         OBVIOUS
    <2>1. PICK s \in Bad : \A u \in Bad : u \subseteq s => u = s
      <3>1. IsFiniteSet(T) /\ Bad \subseteq SUBSET T
            BY FS_Subset
      <3>. HIDE DEF Bad
      <3>. QED BY <3>1, MinimalSubset
    <2>2. g[s] = Term(f, g, s) /\ h[s] = Term(f, h, s)
          BY DEF IsSum
    <2>3. s # {}
          BY <2>2 DEF Term
    <2>4. First(s) \in s
          BY <2>3, FirstIsIn
    <2>5. g[s \ {First(s)}] = h[s \ {First(s)}]
          BY <2>1, <2>4
    <2>. QED BY <2>2, <2>3, <2>5 DEF Term
  <1>. QED BY <1>1

LEMMA SumUnfolds ==
    ASSUME NEW f, NEW S, IsFiniteSet(S), S # {}
    PROVE  SumFunctionOnSet(f, S) = f[First(S)] + SumFunctionOnSet(f, S \ {First(S)})
  <1>. DEFINE T == S \ {First(S)}
              g == CHOOSE g : IsSum(g, f, S)
              h == CHOOSE h : IsSum(h, f, T)
  <1>1. IsFiniteSet(T) /\ T \in SUBSET S
        BY FS_Subset
  <1>2. IsSum(g, f, S)
        BY SumExists
  <1>3. IsSum(h, f, T)
        BY SumExists, <1>1
  <1>4. g[T] = h[T]
    <2>. HIDE DEF g, h, T
    <2>. QED BY <1>1, <1>2, <1>3, SumAgrees
  <1>5. g[S] = f[First(S)] + g[T]
    <2>1. g[S] = Term(f, g, S)
      <3>. HIDE DEF g
      <3>. QED BY <1>2 DEF IsSum
    <2>. QED BY <2>1 DEF Term
  <1>6. SumFunctionOnSet(f, S) = g[S] /\ SumFunctionOnSet(f, T) = h[T]
        BY SumIsChosen
  <1>. QED BY <1>4, <1>5, <1>6

-----------------------------------------------------------------------------
(* What the proofs of the components use *)

\* Nothing sums to zero.
THEOREM SumEmpty == ASSUME NEW f PROVE SumFunctionOnSet(f, {}) = 0
  <1>. DEFINE g == CHOOSE g : IsSum(g, f, {})
  <1>1. IsSum(g, f, {})
        BY SumExists, FS_EmptySet
  <1>2. g[{}] = 0
    <2>. HIDE DEF g
    <2>. QED BY <1>1 DEF IsSum, Term
  <1>. QED BY <1>2, SumIsChosen

THEOREM SumType ==
    ASSUME NEW f, NEW S, IsFiniteSet(S), \A x \in S : f[x] \in Int
    PROVE  SumFunctionOnSet(f, S) \in Int
  <1>. DEFINE Bad == {s \in SUBSET S : SumFunctionOnSet(f, s) \notin Int}
  <1>1. Bad = {}
    <2>. SUFFICES ASSUME Bad # {} PROVE FALSE
         OBVIOUS
    <2>1. PICK s \in Bad : \A u \in Bad : u \subseteq s => u = s
      <3>1. Bad \subseteq SUBSET S
            OBVIOUS
      <3>. HIDE DEF Bad
      <3>. QED BY <3>1, MinimalSubset
    <2>2. s # {} /\ IsFiniteSet(s)
      <3>1. IsFiniteSet(s)
            BY FS_Subset
      <3>2. SumFunctionOnSet(f, {}) = 0
            BY SumEmpty
      <3>. QED BY <3>1, <3>2
    <2>3. First(s) \in s
          BY <2>2, FirstIsIn
    <2>4. SumFunctionOnSet(f, s \ {First(s)}) \in Int
          BY <2>1, <2>3
    <2>. QED BY <2>2, <2>3, <2>4, SumUnfolds
  <1>. QED BY <1>1
\* The sum splits at any element, not only at the one the recursion takes.
Splits(f, s, x) == SumFunctionOnSet(f, s) = f[x] + SumFunctionOnSet(f, s \ {x})

THEOREM SumRemove ==
    ASSUME NEW f, NEW S, IsFiniteSet(S), \A y \in S : f[y] \in Int, NEW x \in S
    PROVE  SumFunctionOnSet(f, S) = f[x] + SumFunctionOnSet(f, S \ {x})
  <1>. DEFINE Bad == {s \in SUBSET S : \E y \in s : ~ Splits(f, s, y)}
  <1>1. Bad = {}
    <2>. SUFFICES ASSUME Bad # {} PROVE FALSE
         OBVIOUS
    <2>1. PICK s \in Bad : \A u \in Bad : u \subseteq s => u = s
      <3>1. Bad \subseteq SUBSET S
            OBVIOUS
      <3>. HIDE DEF Bad
      <3>. QED BY <3>1, MinimalSubset
    <2>2. PICK y \in s : ~ Splits(f, s, y)
          OBVIOUS
    <2>. DEFINE c == First(s)
                rest == s \ {c, y}
    <2>3. IsFiniteSet(s) /\ IsFiniteSet(rest) /\ c \in s
      <3>1. IsFiniteSet(s) /\ IsFiniteSet(rest)
            BY FS_Subset
      <3>. QED BY <3>1, FirstIsIn
    <2>4. Splits(f, s, c)
          BY <2>3, SumUnfolds DEF Splits
    <2>5. c # y
          BY <2>2, <2>4
    <2>6. Splits(f, s \ {c}, y) /\ Splits(f, s \ {y}, c)
      <3>1. s \ {c} \notin Bad /\ s \ {y} \notin Bad
            BY <2>1, <2>3
      <3>2. s \ {c} \in SUBSET S /\ s \ {y} \in SUBSET S
            OBVIOUS
      <3>3. y \in s \ {c} /\ c \in s \ {y}
            BY <2>3, <2>5
      <3>. QED BY <3>1, <3>2, <3>3
    <2>7. /\ (s \ {c}) \ {y} = rest /\ (s \ {y}) \ {c} = rest
          /\ f[c] \in Int /\ f[y] \in Int
          BY <2>3
    <2>8. SumFunctionOnSet(f, rest) \in Int
          BY <2>3, SumType
    <2>9. /\ SumFunctionOnSet(f, s) = f[c] + (f[y] + SumFunctionOnSet(f, rest))
          /\ SumFunctionOnSet(f, s \ {y}) = f[c] + SumFunctionOnSet(f, rest)
          BY <2>4, <2>6, <2>7 DEF Splits
    <2>10. SumFunctionOnSet(f, s) = f[y] + SumFunctionOnSet(f, s \ {y})
      <3>. HIDE DEF rest, c
      <3>. QED BY <2>7, <2>8, <2>9
    <2>. QED BY <2>2, <2>10 DEF Splits
  <1>2. S \notin Bad
        BY <1>1
  <1>. QED BY <1>2 DEF Splits

THEOREM SumAdd ==
    ASSUME NEW f, NEW S, IsFiniteSet(S), NEW x, x \notin S,
           \A y \in S \cup {x} : f[y] \in Int
    PROVE  SumFunctionOnSet(f, S \cup {x}) = SumFunctionOnSet(f, S) + f[x]
  <1>1. IsFiniteSet(S \cup {x}) /\ (S \cup {x}) \ {x} = S
        BY FS_AddElement
  <1>2. SumFunctionOnSet(f, S \cup {x}) = f[x] + SumFunctionOnSet(f, S)
        BY <1>1, SumRemove
  <1>3. SumFunctionOnSet(f, S) \in Int
        BY SumType
  <1>. QED BY <1>2, <1>3

\* A sum depends on the values of the function in its set only.
THEOREM SumSame ==
    ASSUME NEW f, NEW g, NEW S, IsFiniteSet(S), \A x \in S : f[x] = g[x]
    PROVE  SumFunctionOnSet(f, S) = SumFunctionOnSet(g, S)
  <1>. DEFINE Bad == {s \in SUBSET S : SumFunctionOnSet(f, s) # SumFunctionOnSet(g, s)}
  <1>1. Bad = {}
    <2>. SUFFICES ASSUME Bad # {} PROVE FALSE
         OBVIOUS
    <2>1. PICK s \in Bad : \A u \in Bad : u \subseteq s => u = s
      <3>1. Bad \subseteq SUBSET S
            OBVIOUS
      <3>. HIDE DEF Bad
      <3>. QED BY <3>1, MinimalSubset
    <2>2. s # {} /\ IsFiniteSet(s)
      <3>1. IsFiniteSet(s)
            BY FS_Subset
      <3>2. SumFunctionOnSet(f, {}) = 0 /\ SumFunctionOnSet(g, {}) = 0
            BY SumEmpty
      <3>. QED BY <3>1, <3>2
    <2>3. First(s) \in s
          BY <2>2, FirstIsIn
    <2>4. SumFunctionOnSet(f, s \ {First(s)}) = SumFunctionOnSet(g, s \ {First(s)})
          BY <2>1, <2>3
    <2>5. /\ SumFunctionOnSet(f, s) = f[First(s)] + SumFunctionOnSet(f, s \ {First(s)})
          /\ SumFunctionOnSet(g, s) = g[First(s)] + SumFunctionOnSet(g, s \ {First(s)})
          BY <2>2, SumUnfolds
    <2>. QED BY <2>3, <2>4, <2>5
  <1>. QED BY <1>1

\* Raising the value at one element raises the sum by as much.
THEOREM SumChange ==
    ASSUME NEW f, NEW g, NEW S, IsFiniteSet(S), NEW x \in S,
           \A y \in S : f[y] \in Int /\ g[y] \in Int,
           \A y \in S \ {x} : f[y] = g[y]
    PROVE  SumFunctionOnSet(g, S) = SumFunctionOnSet(f, S) + (g[x] - f[x])
  <1>. DEFINE rest == S \ {x}
  <1>1. IsFiniteSet(rest)
        BY FS_Subset
  <1>2. SumFunctionOnSet(f, rest) = SumFunctionOnSet(g, rest)
        BY <1>1, SumSame
  <1>3. SumFunctionOnSet(f, rest) \in Int
        BY <1>1, SumType
  <1>4. /\ SumFunctionOnSet(f, S) = f[x] + SumFunctionOnSet(f, rest)
        /\ SumFunctionOnSet(g, S) = g[x] + SumFunctionOnSet(g, rest)
        BY SumRemove
  <1>5. f[x] \in Int /\ g[x] \in Int
        OBVIOUS
  <1>. HIDE DEF rest
  <1>. QED BY <1>2, <1>3, <1>4, <1>5

THEOREM SumNat ==
    ASSUME NEW f, NEW S, IsFiniteSet(S), \A x \in S : f[x] \in Nat
    PROVE  SumFunctionOnSet(f, S) \in Nat
  <1>. DEFINE Bad == {s \in SUBSET S : SumFunctionOnSet(f, s) \notin Nat}
  <1>1. Bad = {}
    <2>. SUFFICES ASSUME Bad # {} PROVE FALSE
         OBVIOUS
    <2>1. PICK s \in Bad : \A u \in Bad : u \subseteq s => u = s
      <3>1. Bad \subseteq SUBSET S
            OBVIOUS
      <3>. HIDE DEF Bad
      <3>. QED BY <3>1, MinimalSubset
    <2>2. s # {} /\ IsFiniteSet(s)
      <3>1. IsFiniteSet(s)
            BY FS_Subset
      <3>2. SumFunctionOnSet(f, {}) = 0
            BY SumEmpty
      <3>. QED BY <3>1, <3>2
    <2>3. First(s) \in s
          BY <2>2, FirstIsIn
    <2>4. SumFunctionOnSet(f, s \ {First(s)}) \in Nat
          BY <2>1, <2>3
    <2>. QED BY <2>2, <2>3, <2>4, SumUnfolds
  <1>. QED BY <1>1

-----------------------------------------------------------------------------
(* The image of a finite set *)

LEMMA FiniteImage ==
    ASSUME NEW D, IsFiniteSet(D), NEW T, NEW f \in [D -> T]
    PROVE  /\ IsFiniteSet({f[x] : x \in D})
           /\ Cardinality({f[x] : x \in D}) <= Cardinality(D)
  <1>. DEFINE I == {f[x] : x \in D}
  <1>1. f \in Surjection(D, I)
        BY DEF Surjection
  <1>2. IsFiniteSet(D)
        OBVIOUS
  <1>3. IsFiniteSet(I) /\ Cardinality(I) <= Cardinality(D)
    <2>. HIDE DEF I
    <2>. QED BY <1>1, <1>2, FS_Surjection
  <1>. QED BY <1>3

\* It has as many members where no two of the set have the same image.
LEMMA InjectiveImage ==
    ASSUME NEW D, IsFiniteSet(D), NEW T, NEW f \in [D -> T],
           \A x, y \in D : f[x] = f[y] => x = y
    PROVE  Cardinality({f[x] : x \in D}) = Cardinality(D)
  <1>. DEFINE I == {f[x] : x \in D}
  <1>1. f \in Surjection(D, I)
        BY DEF Surjection
  <1>2. f \in Injection(D, I)
        BY DEF Injection, IsInjective
  <1>3. IsFiniteSet(D)
        OBVIOUS
  <1>. HIDE DEF I
  <1>4. Cardinality(I) = Cardinality(D)
        BY ONLY <1>1, <1>2, <1>3, FS_Surjection
  <1>. QED BY <1>4 DEF I

-----------------------------------------------------------------------------
(* The extremes of a finite set of numbers *)

LEMMA MaxOf ==
    ASSUME NEW S, S \subseteq Int, IsFiniteSet(S), S # {}
    PROVE  Max(S) \in S /\ \A y \in S : y <= Max(S)
  <1>. DEFINE F == {{y \in S : y >= x} : x \in S}
  <1>1. PICK T \in F : \A U \in F : U \subseteq T => U = T
    <2>1. F \subseteq SUBSET S
          OBVIOUS
    <2>2. F # {}
          OBVIOUS
    <2>3. IsFiniteSet(S)
          OBVIOUS
    <2>. HIDE DEF F
    <2>. QED BY ONLY <2>1, <2>2, <2>3, MinimalSubset
  <1>2. PICK x \in S : T = {y \in S : y >= x}
        OBVIOUS
  <1>3. ASSUME NEW y \in S PROVE y <= x
    <2>. SUFFICES ASSUME y > x PROVE FALSE
         OBVIOUS
    <2>. DEFINE U == {z \in S : z >= y}
    <2>1. U \in F
          OBVIOUS
    <2>2. U \subseteq T
      <3>1. ASSUME NEW z \in S, z >= y PROVE z >= x
        <4>1. x \in Int /\ y \in Int /\ z \in Int
              OBVIOUS
        <4>. QED BY ONLY <3>1, <4>1, y > x
      <3>. HIDE DEF F
      <3>. QED BY <1>2, <3>1
    <2>3. U = T
      <3>. HIDE DEF F, U
      <3>. QED BY <1>1, <2>1, <2>2
    <2>4. x \in U
          BY <1>2, <2>3
    <2>. QED BY <2>4
  <1>. QED BY <1>2, <1>3 DEF Max

LEMMA MinOf ==
    ASSUME NEW S, S \subseteq Int, IsFiniteSet(S), S # {}
    PROVE  Min(S) \in S /\ \A y \in S : y >= Min(S)
  <1>. DEFINE F == {{y \in S : y <= x} : x \in S}
  <1>1. PICK T \in F : \A U \in F : U \subseteq T => U = T
    <2>1. F \subseteq SUBSET S
          OBVIOUS
    <2>2. F # {}
          OBVIOUS
    <2>3. IsFiniteSet(S)
          OBVIOUS
    <2>. HIDE DEF F
    <2>. QED BY ONLY <2>1, <2>2, <2>3, MinimalSubset
  <1>2. PICK x \in S : T = {y \in S : y <= x}
        OBVIOUS
  <1>3. ASSUME NEW y \in S PROVE y >= x
    <2>. SUFFICES ASSUME y < x PROVE FALSE
         OBVIOUS
    <2>. DEFINE U == {z \in S : z <= y}
    <2>1. U \in F
          OBVIOUS
    <2>2. U \subseteq T
      <3>1. ASSUME NEW z \in S, z <= y PROVE z <= x
        <4>1. x \in Int /\ y \in Int /\ z \in Int
              OBVIOUS
        <4>. QED BY ONLY <3>1, <4>1, y < x
      <3>. HIDE DEF F
      <3>. QED BY <1>2, <3>1
    <2>3. U = T
      <3>. HIDE DEF F, U
      <3>. QED BY <1>1, <2>1, <2>2
    <2>4. x \in U
          BY <1>2, <2>3
    <2>. QED BY <2>4
  <1>. QED BY <1>2, <1>3 DEF Min

-----------------------------------------------------------------------------
(* Products and quotients *)

LEMMA MulMono ==
    ASSUME NEW w \in Nat, NEW a \in Int, NEW b \in Int, a <= b
    PROVE  w * a \in Int /\ w * b \in Int /\ w * a <= w * b
  OBVIOUS

LEMMA DivBounds ==
    ASSUME NEW a \in Int, NEW b \in Nat, b > 0
    PROVE  /\ a \div b \in Int
           /\ b * (a \div b) <= a
           /\ a < b * ((a \div b) + 1)
  OBVIOUS

-----------------------------------------------------------------------------
(* A mean lies between the extremes of what it is the mean of *)

\* Sums are ordered as their terms are.
THEOREM SumOrdered ==
    ASSUME NEW f, NEW g, NEW S, IsFiniteSet(S),
           \A x \in S : f[x] \in Int /\ g[x] \in Int /\ f[x] <= g[x]
    PROVE  SumFunctionOnSet(f, S) <= SumFunctionOnSet(g, S)
  <1>. DEFINE Bad == {s \in SUBSET S : ~ (SumFunctionOnSet(f, s) <= SumFunctionOnSet(g, s))}
  <1>1. Bad = {}
    <2>. SUFFICES ASSUME Bad # {} PROVE FALSE
         OBVIOUS
    <2>1. PICK s \in Bad : \A u \in Bad : u \subseteq s => u = s
      <3>1. Bad \subseteq SUBSET S
            OBVIOUS
      <3>. HIDE DEF Bad
      <3>. QED BY <3>1, MinimalSubset
    <2>2. s # {} /\ IsFiniteSet(s)
      <3>1. IsFiniteSet(s)
            BY FS_Subset
      <3>2. SumFunctionOnSet(f, {}) = 0 /\ SumFunctionOnSet(g, {}) = 0
            BY SumEmpty
      <3>. QED BY <3>1, <3>2
    <2>3. First(s) \in s
          BY <2>2, FirstIsIn
    <2>. DEFINE t == s \ {First(s)}
    <2>4. SumFunctionOnSet(f, t) <= SumFunctionOnSet(g, t)
          BY <2>1, <2>3
    <2>5. IsFiniteSet(t) /\ t \subseteq S
          BY <2>2, FS_Subset
    <2>6. PICK a, b \in Int : a = SumFunctionOnSet(f, t) /\ b = SumFunctionOnSet(g, t)
          BY <2>5, SumType
    <2>7. PICK c, d \in Int : c = f[First(s)] /\ d = g[First(s)] /\ c <= d
          BY <2>3
    <2>8. SumFunctionOnSet(f, s) = c + a /\ SumFunctionOnSet(g, s) = d + b
          BY <2>2, <2>6, <2>7, SumUnfolds
    <2>9. a <= b
          BY <2>4, <2>6
    <2>10. c + a <= d + b
           BY ONLY <2>7, <2>9, a \in Int, b \in Int, c \in Int, d \in Int
    <2>. QED BY <2>8, <2>10
  <1>. QED BY <1>1

\* A common factor of the terms is one of the sum.
THEOREM SumTimes ==
    ASSUME NEW w, NEW c \in Int, NEW S, IsFiniteSet(S), \A x \in S : w[x] \in Int
    PROVE  SumFunctionOnSet([x \in S |-> c * w[x]], S) = c * SumFunctionOnSet(w, S)
  <1>. DEFINE g == [x \in S |-> c * w[x]]
              Bad == {s \in SUBSET S : SumFunctionOnSet(g, s) # c * SumFunctionOnSet(w, s)}
  <1>0. \A x \in S : g[x] = c * w[x]
        OBVIOUS
  <1>. HIDE DEF g
  <1>1. Bad = {}
    <2>. SUFFICES ASSUME Bad # {} PROVE FALSE
         OBVIOUS
    <2>1. PICK s \in Bad : \A u \in Bad : u \subseteq s => u = s
      <3>1. Bad \subseteq SUBSET S
            OBVIOUS
      <3>. HIDE DEF Bad
      <3>. QED BY <3>1, MinimalSubset
    <2>2. s # {} /\ IsFiniteSet(s)
      <3>1. IsFiniteSet(s)
            BY FS_Subset
      <3>2. SumFunctionOnSet(g, {}) = 0 /\ SumFunctionOnSet(w, {}) = 0
            BY SumEmpty
      <3>3. c * 0 = 0
            OBVIOUS
      <3>. QED BY <3>1, <3>2, <3>3
    <2>3. First(s) \in s
          BY <2>2, FirstIsIn
    <2>. DEFINE t == s \ {First(s)}
    <2>4. SumFunctionOnSet(g, t) = c * SumFunctionOnSet(w, t)
          BY <2>1, <2>3
    <2>5. IsFiniteSet(t) /\ t \subseteq S
          BY <2>2, FS_Subset
    <2>6. PICK b \in Int : b = SumFunctionOnSet(w, t)
          BY <2>5, SumType
    <2>7. PICK d \in Int : d = w[First(s)] /\ g[First(s)] = c * d
          BY <1>0, <2>3
    <2>8. SumFunctionOnSet(g, s) = c * d + c * b /\ SumFunctionOnSet(w, s) = d + b
          BY <2>2, <2>4, <2>6, <2>7, SumUnfolds
    <2>9. c * (d + b) = c * d + c * b
          BY ONLY c \in Int, d \in Int, b \in Int
    <2>. QED BY <2>8, <2>9
  <1>2. SumFunctionOnSet(g, S) = c * SumFunctionOnSet(w, S)
        BY <1>1
  <1>. QED BY <1>2 DEF g

\* A quotient lies above, and below, what its numerator does.
LEMMA DivAbove ==
    ASSUME NEW a \in Int, NEW b \in Nat, b > 0, NEW low \in Int, low * b <= a
    PROVE  low <= a \div b
  <1>1. PICK q \in Int : q = a \div b /\ b * q <= a /\ a < b * (q + 1)
        BY DivBounds
  <1>. SUFFICES ASSUME q + 1 <= low PROVE FALSE
       BY <1>1
  <1>2. b * (q + 1) <= b * low
        BY <1>1, MulMono
  <1>3. b * low = low * b
        OBVIOUS
  <1>4. PICK x, y \in Int : x = b * (q + 1) /\ y = low * b
        BY <1>1
  <1>. QED BY ONLY <1>1, <1>2, <1>3, <1>4, low * b <= a, a \in Int

LEMMA DivBelow ==
    ASSUME NEW a \in Int, NEW b \in Nat, b > 0, NEW high \in Int, a <= high * b
    PROVE  a \div b <= high
  <1>1. PICK q \in Int : q = a \div b /\ b * q <= a /\ a < b * (q + 1)
        BY DivBounds
  <1>. SUFFICES ASSUME high + 1 <= q PROVE FALSE
       BY <1>1
  <1>2. b * (high + 1) <= b * q
        BY <1>1, MulMono
  <1>3. b * (high + 1) = high * b + b
        OBVIOUS
  <1>4. PICK x, y \in Int : x = b * q /\ y = high * b
        BY <1>1
  <1>. QED BY ONLY <1>1, <1>2, <1>3, <1>4, a <= high * b, a \in Int, b \in Nat, b > 0

-----------------------------------------------------------------------------
(* Sums over pairs, and the greatest elements of a set *)

\* A sum over pairs with two possible second parts is one of sums by the first.
AddsPairs(g, l, K, a, b) ==
    \A k \in K : /\ l[<<k, a>>] \in Int /\ l[<<k, b>>] \in Int
                 /\ g[k] = l[<<k, a>>] + l[<<k, b>>]

THEOREM SumOfPairs ==
    ASSUME NEW K, IsFiniteSet(K), NEW a, NEW b, a # b, NEW P, P = K \X {a, b}, NEW l, NEW g,
           AddsPairs(g, l, K, a, b)
    PROVE  SumFunctionOnSet(l, P) = SumFunctionOnSet(g, K)
  <1>. DEFINE Good(s) == /\ IsFiniteSet(s \X {a, b})
                         /\ SumFunctionOnSet(l, s \X {a, b}) = SumFunctionOnSet(g, s)
              Bad == {s \in SUBSET K : ~ Good(s)}
  <1>0. \A k \in K : /\ l[<<k, a>>] \in Int /\ l[<<k, b>>] \in Int
                    /\ g[k] = l[<<k, a>>] + l[<<k, b>>]
        BY DEF AddsPairs
  <1>1. Bad = {}
    <2>. SUFFICES ASSUME Bad # {} PROVE FALSE
         OBVIOUS
    <2>1. PICK s \in Bad : \A u \in Bad : u \subseteq s => u = s
      <3>1. Bad \subseteq SUBSET K
            OBVIOUS
      <3>. HIDE DEF Bad
      <3>. QED BY <3>1, MinimalSubset
    <2>2. IsFiniteSet(s) /\ s \subseteq K /\ ~ Good(s)
          BY FS_Subset
    <2>3. s # {}
      <3>1. Good({})
        <4>1. {} \X {a, b} = {}
              OBVIOUS
        <4>. QED BY <4>1, SumEmpty, FS_EmptySet
      <3>. HIDE DEF Good
      <3>. QED BY <2>2, <3>1
    <2>4. PICK x \in s : TRUE
          BY <2>3
    <2>. DEFINE t == s \ {x}
                p == t \X {a, b}
    <2>5. Good(t)
      <3>1. t \subseteq s /\ t # s /\ t \in SUBSET K
            BY <2>2, <2>4
      <3>2. t \notin Bad
        <4>. HIDE DEF Bad, t
        <4>. QED BY <2>1, <3>1
      <3>. HIDE DEF Good, t
      <3>. QED BY <3>1, <3>2 DEF Bad
    <2>6. s \X {a, b} = (p \cup {<<x, a>>}) \cup {<<x, b>>}
          BY <2>4
    <2>7. <<x, a>> \notin p /\ <<x, b>> \notin p \cup {<<x, a>>}
          OBVIOUS
    <2>8. \A e \in s \X {a, b} : l[e] \in Int
      <3>1. ASSUME NEW k \in s PROVE l[<<k, a>>] \in Int /\ l[<<k, b>>] \in Int
            BY <1>0, <2>2
      <3>2. ASSUME NEW e \in s \X {a, b} PROVE l[e] \in Int
        <4>1. PICK k \in s : e = <<k, a>> \/ e = <<k, b>>
              OBVIOUS
        <4>. QED BY <3>1, <4>1
      <3>. QED BY <3>2
    <2>9. IsFiniteSet(p) /\ SumFunctionOnSet(l, p) = SumFunctionOnSet(g, t)
          BY <2>5
    <2>10. IsFiniteSet(p \cup {<<x, a>>}) /\ IsFiniteSet((p \cup {<<x, a>>}) \cup {<<x, b>>})
      <3>. HIDE DEF p
      <3>. QED BY <2>9, FS_AddElement
    <2>. HIDE DEF p
    <2>11. SumFunctionOnSet(l, p \cup {<<x, a>>}) = SumFunctionOnSet(l, p) + l[<<x, a>>]
      <3>1. \A e \in p \cup {<<x, a>>} : l[e] \in Int
            BY <2>6, <2>8
      <3>. QED BY <2>7, <2>9, <3>1, SumAdd
    <2>12. SumFunctionOnSet(l, (p \cup {<<x, a>>}) \cup {<<x, b>>})
              = SumFunctionOnSet(l, p \cup {<<x, a>>}) + l[<<x, b>>]
      <3>1. \A e \in (p \cup {<<x, a>>}) \cup {<<x, b>>} : l[e] \in Int
            BY ONLY <2>6, <2>8
      <3>. QED BY <2>7, <2>10, <3>1, SumAdd
    <2>13. SumFunctionOnSet(g, s) = g[x] + SumFunctionOnSet(g, t)
      <3>1. \A k \in s : g[k] \in Int
        <4>1. ASSUME NEW k \in s PROVE g[k] \in Int
          <5>1. k \in K
                BY <2>2
          <5>2. l[<<k, a>>] \in Int /\ l[<<k, b>>] \in Int /\ g[k] = l[<<k, a>>] + l[<<k, b>>]
                BY <1>0, <5>1
          <5>. QED BY ONLY <5>2
        <4>. QED BY <4>1
      <3>. QED BY <2>2, <3>1, SumRemove
    <2>14. PICK u, v, w \in Int : u = l[<<x, a>>] /\ v = l[<<x, b>>] /\ w = SumFunctionOnSet(g, t)
      <3>1. IsFiniteSet(t) /\ \A k \in t : g[k] \in Int
        <4>1. ASSUME NEW k \in t PROVE g[k] \in Int
          <5>1. k \in K
                BY <2>2
          <5>2. l[<<k, a>>] \in Int /\ l[<<k, b>>] \in Int /\ g[k] = l[<<k, a>>] + l[<<k, b>>]
                BY <1>0, <5>1
          <5>. QED BY ONLY <5>2
        <4>2. IsFiniteSet(t)
              BY <2>2, FS_Subset
        <4>. QED BY <4>1, <4>2
      <3>2. SumFunctionOnSet(g, t) \in Int
            BY <3>1, SumType
      <3>. QED BY <1>0, <2>2, <2>4, <3>2
    <2>15. SumFunctionOnSet(l, s \X {a, b}) = (w + u) + v
           BY <2>6, <2>9, <2>11, <2>12, <2>14
    <2>16. SumFunctionOnSet(g, s) = (u + v) + w
           BY <1>0, <2>2, <2>13, <2>14
    <2>17. (w + u) + v = (u + v) + w
           BY ONLY u \in Int, v \in Int, w \in Int
    <2>. QED BY <2>2, <2>6, <2>10, <2>15, <2>16, <2>17
  <1>2. Good(K)
        BY <1>1
  <1>. QED BY <1>2

\* Of a finite set whose members have different keys, those with fewer than n above
\* them are n, where there are as many.
Above(f, S, x) == {y \in S : f[y] > f[x]}
TopOf(f, S, n) == {x \in S : Cardinality(Above(f, S, x)) < n}

THEOREM TopHasLength ==
    ASSUME NEW S, IsFiniteSet(S), NEW f \in [S -> Int], NEW n \in Nat,
           \A x, y \in S : f[x] = f[y] => x = y, n <= Cardinality(S)
    PROVE  Cardinality(TopOf(f, S, n)) = n
  <1>. DEFINE Bad == {s \in SUBSET S : n <= Cardinality(s) /\ Cardinality(TopOf(f, s, n)) # n}
  <1>1. Bad = {}
    <2>. SUFFICES ASSUME Bad # {} PROVE FALSE
         OBVIOUS
    <2>1. PICK s \in Bad : \A u \in Bad : u \subseteq s => u = s
      <3>1. Bad \subseteq SUBSET S
            OBVIOUS
      <3>. HIDE DEF Bad
      <3>. QED BY <3>1, MinimalSubset
    <2>2. IsFiniteSet(s) /\ s \subseteq S
          BY FS_Subset
    <2>3. PICK c \in Nat : c = Cardinality(s) /\ n <= c
          BY <2>2, FS_CardinalityType
    <2>4. Cardinality(TopOf(f, s, n)) # n
          OBVIOUS
    <2>5. ASSUME NEW x \in s
          PROVE  /\ IsFiniteSet(Above(f, s, x)) /\ Cardinality(Above(f, s, x)) \in Nat
                 /\ Cardinality(Above(f, s, x)) <= c - 1
      <3>1. Cardinality(s \ {x}) = c - 1 /\ IsFiniteSet(s \ {x})
            BY <2>2, <2>3, FS_RemoveElement
      <3>2. Above(f, s, x) \subseteq s \ {x}
        <4>1. f[x] \in Int /\ ~ (f[x] > f[x])
              BY <2>2
        <4>. QED BY <4>1 DEF Above
      <3>. QED BY <3>1, <3>2, FS_Subset, FS_CardinalityType
    <2>6. CASE n = c
      <3>1. \A x \in s : Cardinality(Above(f, s, x)) < n
            BY <2>5, <2>6
      <3>2. TopOf(f, s, n) = s
            BY <3>1 DEF TopOf
      <3>. QED BY <2>3, <2>4, <2>6, <3>2
    <2>7. CASE n < c
      <3>1. s # {}
            BY <2>3, <2>7, FS_EmptySet
      <3>. DEFINE keys == {f[x] : x \in s}
                  h == [x \in s |-> f[x]]
      <3>2. keys \subseteq Int /\ keys # {} /\ IsFiniteSet(keys)
        <4>1. keys \subseteq Int /\ keys # {}
              BY <2>2, <3>1
        <4>2. h \in [s -> Int] /\ keys = {h[x] : x \in s}
              BY <2>2
        <4>3. IsFiniteSet({h[x] : x \in s})
          <5>1. IsFiniteSet(s) /\ h \in [s -> Int]
                BY <2>2, <4>2
          <5>. HIDE DEF h, keys
          <5>. QED BY ONLY ZenonT(40), <5>1, FiniteImage
        <4>. HIDE DEF h, keys
        <4>. QED BY <4>1, <4>2, <4>3
      <3>3. PICK m \in s : \A y \in s : f[y] >= f[m]
        <4>1. Min(keys) \in keys /\ \A y \in keys : y >= Min(keys)
          <5>. HIDE DEF keys
          <5>. QED BY <3>2, MinOf
        <4>2. PICK k : k = Min(keys)
              OBVIOUS
        <4>3. PICK m \in s : f[m] = k
              BY <4>1, <4>2
        <4>4. \A y \in s : f[y] \in keys
              OBVIOUS
        <4>. QED BY <4>1, <4>2, <4>3, <4>4
      <3>. DEFINE t == s \ {m}
      <3>4. IsFiniteSet(t) /\ Cardinality(t) = c - 1
            BY <2>2, <2>3, FS_RemoveElement
      <3>5. Above(f, s, m) = t
        <4>1. ASSUME NEW y \in t PROVE f[y] > f[m]
          <5>1. f[y] >= f[m] /\ f[y] # f[m] /\ f[y] \in Int /\ f[m] \in Int
                BY <2>2, <3>3
          <5>. QED BY ONLY <5>1
        <4>2. ~ (f[m] > f[m])
              BY <2>2
        <4>. QED BY <4>1, <4>2 DEF Above
      <3>6. m \notin TopOf(f, s, n)
        <4>1. ~ (c - 1 < n)
              BY ONLY <2>7, c \in Nat, n \in Nat
        <4>. QED BY <3>4, <3>5, <4>1 DEF TopOf
      <3>7. \A x \in t : Above(f, s, x) = Above(f, t, x)
        <4>1. ASSUME NEW x \in t PROVE ~ (f[m] > f[x])
          <5>1. f[x] >= f[m] /\ f[x] \in Int /\ f[m] \in Int
                BY <2>2, <3>3
          <5>. QED BY ONLY <5>1
        <4>. QED BY <4>1 DEF Above
      <3>8. TopOf(f, s, n) = TopOf(f, t, n)
            BY <3>6, <3>7 DEF TopOf
      <3>9. n <= Cardinality(t)
        <4>1. n <= c - 1
              BY ONLY <2>7, c \in Nat, n \in Nat
        <4>. QED BY <3>4, <4>1
      <3>10. t \in SUBSET S /\ t \subseteq s /\ t # s
             BY <2>2
      <3>11. t \in Bad
        <4>. HIDE DEF t
        <4>. QED BY <2>4, <3>8, <3>9, <3>10
      <3>. HIDE DEF Bad, t
      <3>. QED BY <2>1, <3>10, <3>11
    <2>. QED BY <2>3, <2>6, <2>7
  <1>. QED BY <1>1
=============================================================================
