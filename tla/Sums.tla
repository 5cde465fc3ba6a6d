---------------------------------- MODULE Sums ----------------------------------
(***************************************************************************)
(* Facts about SumFunctionOnSet of the community modules, the sum of f[x]  *)
(* over the elements x of a finite set, in the form the proofs about       *)
(* stocks, payments and ledgers cite them; and about tables that are       *)
(* filled from 0 to n, entry by entry, as a bill's taxes are.              *)
(***************************************************************************)
EXTENDS Functions, FiniteSetTheorems, TLAPS

\* One step of the sum: an element the library picks, and the rest.
SumStep(f, g, s) ==
  IF s = {} THEN 0 ELSE LET x == CHOOSE x \in s : TRUE IN f[x] + g[s \ {x}]

\* g holds the sum of f over every subset of S.
SumsTo(f, g, S) == g = [s \in SUBSET S |-> SumStep(f, g, s)]

\* The definition of the library, with its LET taken out.
LEMMA SumUnfolded ==
  ASSUME NEW f, NEW S
  PROVE  SumFunctionOnSet(f, S) = (CHOOSE g : SumsTo(f, g, S))[S]
BY DEF SumFunctionOnSet, FoldFunctionOnSet, MapThenFoldSet, SumsTo, SumStep

\* A set of subsets of a finite set that is not empty has a smallest member.
LEMMA SmallestSubset ==
  ASSUME NEW S, IsFiniteSet(S), NEW B \in SUBSET SUBSET S, B # {}
  PROVE  \E s \in B : \A t \in B : t \subseteq s => t = s
<1>1. IsWellFoundedOn(StrictSubsetOrdering(S), FiniteSubsetsOf(S))
  BY FS_StrictSubsetOrderingWellFounded
<1>2. FiniteSubsetsOf(S) = SUBSET S
  BY FS_FiniteSubsetsOfFinite
<1>3. PICK s \in B : \A t \in B : ~ (<<t, s>> \in StrictSubsetOrdering(S))
  BY <1>1, <1>2, WFMin
<1>4. ASSUME NEW t \in B, t \subseteq s, t # s
      PROVE  FALSE
  <2>1. <<t, s>> \in (SUBSET S) \X (SUBSET S)
    OBVIOUS
  <2> QED BY <2>1, <1>3, <1>4 DEF StrictSubsetOrdering
<1> QED BY <1>3, <1>4

\* Two tables of sums agree wherever both have an entry.
LEMMA SumsAgree ==
  ASSUME NEW f, NEW S, NEW U, NEW g, NEW h, SumsTo(f, g, S), SumsTo(f, h, U),
         NEW T, T \subseteq S, T \subseteq U, IsFiniteSet(T)
  PROVE  g[T] = h[T]
<1> DEFINE B == {s \in SUBSET T : g[s] # h[s]}
<1>1. SUFFICES ASSUME B # {} PROVE FALSE
  OBVIOUS
<1>2. PICK s \in B : \A t \in B : t \subseteq s => t = s
  <2>1. B \in SUBSET SUBSET T
    OBVIOUS
  <2> HIDE DEF B
  <2> QED BY <1>1, <2>1, SmallestSubset
<1>3. g[s] = SumStep(f, g, s) /\ h[s] = SumStep(f, h, s)
  BY DEF SumsTo
<1>4. s # {}
  BY <1>3 DEF SumStep
<1> DEFINE x == CHOOSE x \in s : TRUE
<1>5. x \in s
  BY <1>4
<1>6. g[s \ {x}] = h[s \ {x}]
  BY <1>2, <1>5
<1>7. g[s] = f[x] + g[s \ {x}] /\ h[s] = f[x] + h[s \ {x}]
  BY <1>3, <1>4 DEF SumStep
<1> QED BY <1>6, <1>7

\* A finite set has a table of sums: take a smallest subset that has none and
\* build one from the tables of its own subsets.
LEMMA SumsToExists ==
  ASSUME NEW f, NEW S, IsFiniteSet(S)
  PROVE  \E g : SumsTo(f, g, S)
<1> DEFINE B == {s \in SUBSET S : ~ \E g : SumsTo(f, g, s)}
<1>1. SUFFICES ASSUME B # {} PROVE FALSE
  OBVIOUS
<1>2. PICK s \in B : \A t \in B : t \subseteq s => t = s
  <2>1. B \in SUBSET SUBSET S
    OBVIOUS
  <2> HIDE DEF B
  <2> QED BY <1>1, <2>1, SmallestSubset
<1> DEFINE G(t) == CHOOSE g : SumsTo(f, g, t)
           below == [t \in SUBSET s |-> G(t)[t]]
           h == [t \in SUBSET s |-> SumStep(f, below, t)]
<1>3. ASSUME NEW t \in SUBSET s, t # s
      PROVE  SumsTo(f, G(t), t)
  BY <1>2, <1>3
<1>4. ASSUME NEW t \in SUBSET s, t # s
      PROVE  h[t] = G(t)[t]
  <2>1. G(t)[t] = SumStep(f, G(t), t)
    <3> HIDE DEF G
    <3> QED BY <1>3, <1>4 DEF SumsTo
  <2>2. CASE t = {}
    BY <2>1, <2>2 DEF SumStep
  <2>3. CASE t # {}
    <3> DEFINE x == CHOOSE x \in t : TRUE
    <3>1. x \in t
      BY <2>3
    <3>2. h[t] = f[x] + G(t \ {x})[t \ {x}]
      BY <2>3 DEF SumStep
    <3>3. G(t)[t] = f[x] + G(t)[t \ {x}]
      BY <2>1, <2>3 DEF SumStep
    <3>4. SumsTo(f, G(t), t) /\ SumsTo(f, G(t \ {x}), t \ {x})
      BY <1>3, <1>4, <3>1
    <3>5. IsFiniteSet(t \ {x})
      BY FS_Subset
    <3>6. G(t)[t \ {x}] = G(t \ {x})[t \ {x}]
      <4> HIDE DEF G, x
      <4> QED BY <3>4, <3>5, SumsAgree
    <3> QED BY <3>2, <3>3, <3>6
  <2> QED BY <2>2, <2>3
<1>5. ASSUME NEW t \in SUBSET s
      PROVE  SumStep(f, below, t) = SumStep(f, h, t)
  <2>1. CASE t = {}
    BY <2>1 DEF SumStep
  <2>2. CASE t # {}
    <3> DEFINE x == CHOOSE x \in t : TRUE
    <3>1. x \in t
      BY <2>2
    <3>2. below[t \ {x}] = h[t \ {x}]
      <4>1. t \ {x} \in SUBSET s /\ t \ {x} # s
        BY <3>1
      <4>2. below[t \ {x}] = G(t \ {x})[t \ {x}]
        BY <4>1
      <4> QED BY <4>1, <4>2, <1>4
    <3> HIDE DEF below, h
    <3> QED BY <2>2, <3>2 DEF SumStep
  <2> QED BY <2>1, <2>2
<1>6. SumsTo(f, h, s)
  <2>1. h = [t \in SUBSET s |-> SumStep(f, h, t)]
    <3> DEFINE r == [t \in SUBSET s |-> SumStep(f, h, t)]
    <3>1. \A t \in SUBSET s : SumStep(f, below, t) = SumStep(f, h, t)
      BY <1>5
    <3> HIDE DEF below
    <3> QED BY <3>1
  <2> QED BY <2>1 DEF SumsTo
<1> QED BY <1>2, <1>6

-----------------------------------------------------------------------------
\* The two equations that determine a sum.
LEMMA SumEmpty ==
  ASSUME NEW f
  PROVE  SumFunctionOnSet(f, {}) = 0
<1> DEFINE g == CHOOSE g : SumsTo(f, g, {})
<1>1. SumsTo(f, g, {})
  BY FS_EmptySet, SumsToExists
<1>2. g[{}] = SumStep(f, g, {})
  <2> HIDE DEF g
  <2> QED BY <1>1 DEF SumsTo
<1> QED BY <1>2, SumUnfolded DEF SumStep

\* The sum over a set that is not empty is some member's value and the sum of the rest.
LEMMA SumPicked ==
  ASSUME NEW f, NEW S, IsFiniteSet(S), S # {}
  PROVE  \E x \in S : SumFunctionOnSet(f, S) = f[x] + SumFunctionOnSet(f, S \ {x})
<1> DEFINE G(t) == CHOOSE g : SumsTo(f, g, t)
           x == CHOOSE x \in S : TRUE
<1>1. x \in S /\ IsFiniteSet(S \ {x})
  BY FS_Subset
<1>2. SumsTo(f, G(S), S) /\ SumsTo(f, G(S \ {x}), S \ {x})
  BY <1>1, SumsToExists
<1>3. G(S)[S] = f[x] + G(S)[S \ {x}]
  <2>1. G(S)[S] = SumStep(f, G(S), S)
    <3> HIDE DEF G
    <3> QED BY <1>2 DEF SumsTo
  <2> QED BY <2>1 DEF SumStep
<1>4. G(S)[S \ {x}] = G(S \ {x})[S \ {x}]
  <2> HIDE DEF G, x
  <2> QED BY <1>1, <1>2, SumsAgree
<1>5. SumFunctionOnSet(f, S) = G(S)[S]
  BY SumUnfolded
<1>6. SumFunctionOnSet(f, S \ {x}) = G(S \ {x})[S \ {x}]
  BY SumUnfolded
<1> HIDE DEF G, x
<1> QED BY <1>1, <1>3, <1>4, <1>5, <1>6
-----------------------------------------------------------------------------
\* The sum over a set on which f has integer values is an integer.
LEMMA SumInt ==
  ASSUME NEW f, NEW S, IsFiniteSet(S), \A x \in S : f[x] \in Int
  PROVE  SumFunctionOnSet(f, S) \in Int
<1> DEFINE B == {s \in SUBSET S : SumFunctionOnSet(f, s) \notin Int}
<1>1. SUFFICES ASSUME B # {} PROVE FALSE
  OBVIOUS
<1>2. PICK s \in B : \A t \in B : t \subseteq s => t = s
  <2>1. B \in SUBSET SUBSET S
    OBVIOUS
  <2> HIDE DEF B
  <2> QED BY <1>1, <2>1, SmallestSubset
<1>3. IsFiniteSet(s) /\ s # {}
  <2>1. s \in SUBSET S
    OBVIOUS
  <2>2. s # {}
    BY SumEmpty
  <2> QED BY <2>1, <2>2, FS_Subset
<1>4. PICK x \in s : SumFunctionOnSet(f, s) = f[x] + SumFunctionOnSet(f, s \ {x})
  BY <1>3, SumPicked
<1>5. SumFunctionOnSet(f, s \ {x}) \in Int
  BY <1>2
<1> QED BY <1>4, <1>5

\* Any element can be taken out first.
LEMMA SumTakeOut ==
  ASSUME NEW f, NEW S, IsFiniteSet(S), \A x \in S : f[x] \in Int, NEW y \in S
  PROVE  SumFunctionOnSet(f, S) = f[y] + SumFunctionOnSet(f, S \ {y})
<1> DEFINE Splits(s) == \A z \in s : SumFunctionOnSet(f, s)
                                       = f[z] + SumFunctionOnSet(f, s \ {z})
           B == {s \in SUBSET S : ~ Splits(s)}
<1>1. SUFFICES ASSUME B # {} PROVE FALSE
  <2>1. B = {} => Splits(S)
    OBVIOUS
  <2> QED BY <2>1
<1>2. PICK s \in B : \A t \in B : t \subseteq s => t = s
  <2>1. B \in SUBSET SUBSET S
    OBVIOUS
  <2> HIDE DEF B
  <2> QED BY <1>1, <2>1, SmallestSubset
<1>3. s \in SUBSET S /\ ~ Splits(s)
  OBVIOUS
<1>4. \A t \in SUBSET s : t # s => Splits(t)
  <2> HIDE DEF Splits
  <2> QED BY <1>2
<1>5. PICK z \in s : SumFunctionOnSet(f, s) # f[z] + SumFunctionOnSet(f, s \ {z})
  BY <1>3
<1>6. IsFiniteSet(s) /\ s # {}
  BY <1>3, <1>5, FS_Subset
<1>7. PICK x \in s : SumFunctionOnSet(f, s) = f[x] + SumFunctionOnSet(f, s \ {x})
  BY <1>6, SumPicked
<1>8. x # z
  BY <1>5, <1>7
<1>9. SumFunctionOnSet(f, s \ {x}) = f[z] + SumFunctionOnSet(f, (s \ {x}) \ {z})
  BY <1>4, <1>8
<1>10. SumFunctionOnSet(f, s \ {z}) = f[x] + SumFunctionOnSet(f, (s \ {z}) \ {x})
  BY <1>4, <1>8
<1>11. (s \ {x}) \ {z} = (s \ {z}) \ {x}
  OBVIOUS
<1>12. SumFunctionOnSet(f, (s \ {x}) \ {z}) \in Int
  <2>1. IsFiniteSet((s \ {x}) \ {z})
    BY <1>6, FS_Subset
  <2> QED BY <1>3, <2>1, SumInt
<1>13. f[x] \in Int /\ f[z] \in Int
  BY <1>3
<1> HIDE DEF B, Splits
<1>14. SumFunctionOnSet(f, s) = f[x] + (f[z] + SumFunctionOnSet(f, (s \ {x}) \ {z}))
  BY <1>7, <1>9
<1>15. SumFunctionOnSet(f, s) # f[z] + (f[x] + SumFunctionOnSet(f, (s \ {x}) \ {z}))
  BY <1>5, <1>10, <1>11
<1> QED BY <1>12, <1>13, <1>14, <1>15

\* A new element adds its value.
LEMMA SumAdd ==
  ASSUME NEW f, NEW S, IsFiniteSet(S), NEW y, y \notin S, \A x \in S \cup {y} : f[x] \in Int
  PROVE  SumFunctionOnSet(f, S \cup {y}) = f[y] + SumFunctionOnSet(f, S)
<1>1. IsFiniteSet(S \cup {y}) /\ (S \cup {y}) \ {y} = S /\ y \in S \cup {y}
  BY FS_AddElement
<1> QED BY <1>1, SumTakeOut

\* The sum depends on the values in the set alone.
LEMMA SumSame ==
  ASSUME NEW f, NEW g, NEW S, IsFiniteSet(S), \A x \in S : f[x] = g[x]
  PROVE  SumFunctionOnSet(f, S) = SumFunctionOnSet(g, S)
<1>1. PICK a : SumsTo(f, a, S)
  BY SumsToExists
<1>2. SumsTo(g, a, S)
  <2>1. \A s \in SUBSET S : SumStep(f, a, s) = SumStep(g, a, s)
    BY DEF SumStep
  <2> QED BY <1>1, <2>1 DEF SumsTo
<1>3. \A h, b : SumsTo(h, b, S) => SumFunctionOnSet(h, S) = b[S]
  <2> SUFFICES ASSUME NEW h, NEW b, SumsTo(h, b, S)
               PROVE  SumFunctionOnSet(h, S) = b[S]
    OBVIOUS
  <2> DEFINE c == CHOOSE c : SumsTo(h, c, S)
  <2>1. SumsTo(h, c, S)
    OBVIOUS
  <2>2. SumFunctionOnSet(h, S) = c[S]
    BY SumUnfolded
  <2> HIDE DEF c
  <2> QED BY <2>1, <2>2, SumsAgree
<1> QED BY <1>1, <1>2, <1>3

\* One value changed: the sum changes by as much.
LEMMA SumChangeOne ==
  ASSUME NEW f, NEW g, NEW S, IsFiniteSet(S), NEW y \in S,
         \A x \in S : f[x] \in Int /\ g[x] \in Int, \A x \in S \ {y} : f[x] = g[x]
  PROVE  SumFunctionOnSet(g, S) = SumFunctionOnSet(f, S) + (g[y] - f[y])
<1>1. IsFiniteSet(S \ {y})
  BY FS_Subset
<1>2. SumFunctionOnSet(f, S \ {y}) = SumFunctionOnSet(g, S \ {y})
  BY <1>1, SumSame
<1>3. SumFunctionOnSet(f, S) = f[y] + SumFunctionOnSet(f, S \ {y})
  BY SumTakeOut
<1>4. SumFunctionOnSet(g, S) = g[y] + SumFunctionOnSet(g, S \ {y})
  BY SumTakeOut
<1>5. SumFunctionOnSet(f, S \ {y}) \in Int
  BY <1>1, SumInt
<1> QED BY <1>2, <1>3, <1>4, <1>5

\* Nothing counts what is zero.
LEMMA SumZero ==
  ASSUME NEW f, NEW S, IsFiniteSet(S), \A x \in S : f[x] = 0
  PROVE  SumFunctionOnSet(f, S) = 0
<1> DEFINE B == {s \in SUBSET S : SumFunctionOnSet(f, s) # 0}
<1>1. SUFFICES ASSUME B # {} PROVE FALSE
  OBVIOUS
<1>2. PICK s \in B : \A t \in B : t \subseteq s => t = s
  <2>1. B \in SUBSET SUBSET S
    OBVIOUS
  <2> HIDE DEF B
  <2> QED BY <1>1, <2>1, SmallestSubset
<1>3. IsFiniteSet(s) /\ s # {}
  <2>1. s \in SUBSET S
    OBVIOUS
  <2>2. s # {}
    BY SumEmpty
  <2> QED BY <2>1, <2>2, FS_Subset
<1>4. PICK x \in s : SumFunctionOnSet(f, s) = f[x] + SumFunctionOnSet(f, s \ {x})
  BY <1>3, SumPicked
<1>5. SumFunctionOnSet(f, s \ {x}) = 0 /\ f[x] = 0
  BY <1>2
<1> QED BY <1>4, <1>5

\* Term by term, a sum is monotone and additive, and a sum of natural numbers
\* is one.
LEMMA SumMonotone ==
  ASSUME NEW f, NEW g, NEW S, IsFiniteSet(S),
         \A x \in S : f[x] \in Int /\ g[x] \in Int /\ f[x] <= g[x]
  PROVE  SumFunctionOnSet(f, S) <= SumFunctionOnSet(g, S)
<1> DEFINE B == {s \in SUBSET S : ~ (SumFunctionOnSet(f, s) <= SumFunctionOnSet(g, s))}
<1>1. SUFFICES ASSUME B # {} PROVE FALSE
  OBVIOUS
<1>2. PICK s \in B : \A t \in B : t \subseteq s => t = s
  <2>1. B \in SUBSET SUBSET S
    OBVIOUS
  <2> HIDE DEF B
  <2> QED BY <1>1, <2>1, SmallestSubset
<1>3. IsFiniteSet(s) /\ s # {}
  <2>1. s \in SUBSET S
    OBVIOUS
  <2>2. s # {}
    BY SumEmpty
  <2> QED BY <2>1, <2>2, FS_Subset
<1>4. PICK x \in s : TRUE
  BY <1>3
<1>5. SumFunctionOnSet(f, s \ {x}) <= SumFunctionOnSet(g, s \ {x})
  BY <1>2
<1>6. SumFunctionOnSet(f, s) = f[x] + SumFunctionOnSet(f, s \ {x})
  BY <1>3, SumTakeOut
<1>7. SumFunctionOnSet(g, s) = g[x] + SumFunctionOnSet(g, s \ {x})
  BY <1>3, SumTakeOut
<1>8. SumFunctionOnSet(f, s \ {x}) \in Int /\ SumFunctionOnSet(g, s \ {x}) \in Int
  <2>1. IsFiniteSet(s \ {x})
    BY <1>3, FS_Subset
  <2> QED BY <2>1, SumInt
<1>9. f[x] \in Int /\ g[x] \in Int /\ f[x] <= g[x]
  OBVIOUS
<1>10. ~ (SumFunctionOnSet(f, s) <= SumFunctionOnSet(g, s))
  OBVIOUS
<1> HIDE DEF B
<1> QED BY <1>5, <1>6, <1>7, <1>8, <1>9, <1>10

\* Sums of natural numbers are natural numbers.
LEMMA SumNat ==
  ASSUME NEW f, NEW S, IsFiniteSet(S), \A x \in S : f[x] \in Nat
  PROVE  SumFunctionOnSet(f, S) \in Nat
<1> DEFINE zero == [x \in S |-> 0]
<1>1. SumFunctionOnSet(f, S) \in Int
  BY SumInt
<1>2. SumFunctionOnSet(zero, S) = 0
  <2>1. \A x \in S : zero[x] = 0
    OBVIOUS
  <2> HIDE DEF zero
  <2> QED BY <2>1, SumZero
<1>3. SumFunctionOnSet(zero, S) <= SumFunctionOnSet(f, S)
  <2>1. \A x \in S : zero[x] \in Int /\ f[x] \in Int /\ zero[x] <= f[x]
    OBVIOUS
  <2> HIDE DEF zero
  <2> QED BY <2>1, SumMonotone
<1> HIDE DEF zero
<1> QED BY <1>1, <1>2, <1>3

\* The sum of two functions, added member by member, is the sum of their sums.
LEMMA SumPlus ==
  ASSUME NEW f, NEW g, NEW h, NEW S, IsFiniteSet(S),
         \A x \in S : f[x] \in Int /\ g[x] \in Int /\ h[x] = f[x] + g[x]
  PROVE  SumFunctionOnSet(h, S) = SumFunctionOnSet(f, S) + SumFunctionOnSet(g, S)
<1> DEFINE B == {s \in SUBSET S : SumFunctionOnSet(h, s)
                                    # SumFunctionOnSet(f, s) + SumFunctionOnSet(g, s)}
<1>1. SUFFICES ASSUME B # {} PROVE FALSE
  OBVIOUS
<1>2. PICK s \in B : \A t \in B : t \subseteq s => t = s
  <2>1. B \in SUBSET SUBSET S
    OBVIOUS
  <2> HIDE DEF B
  <2> QED BY <1>1, <2>1, SmallestSubset
<1>3. IsFiniteSet(s) /\ s # {}
  <2>1. s \in SUBSET S
    OBVIOUS
  <2>2. SumFunctionOnSet(f, {}) = 0 /\ SumFunctionOnSet(g, {}) = 0 /\ SumFunctionOnSet(h, {}) = 0
    BY SumEmpty
  <2>3. SumFunctionOnSet(h, s) # SumFunctionOnSet(f, s) + SumFunctionOnSet(g, s)
    OBVIOUS
  <2>4. s # {}
    <3> HIDE DEF B
    <3> QED BY <2>2, <2>3
  <2> QED BY <2>1, <2>4, FS_Subset
<1>4. PICK x \in s : TRUE
  BY <1>3
<1>5. SumFunctionOnSet(h, s \ {x}) = SumFunctionOnSet(f, s \ {x}) + SumFunctionOnSet(g, s \ {x})
  BY <1>2
<1>6. SumFunctionOnSet(f, s) = f[x] + SumFunctionOnSet(f, s \ {x})
  BY <1>3, SumTakeOut
<1>7. SumFunctionOnSet(g, s) = g[x] + SumFunctionOnSet(g, s \ {x})
  BY <1>3, SumTakeOut
<1>8. SumFunctionOnSet(f, s \ {x}) \in Int /\ SumFunctionOnSet(g, s \ {x}) \in Int
  <2>1. IsFiniteSet(s \ {x})
    BY <1>3, FS_Subset
  <2> QED BY <2>1, SumInt
<1>9. f[x] \in Int /\ g[x] \in Int /\ h[x] = f[x] + g[x]
  OBVIOUS
<1>10. SumFunctionOnSet(h, s) = h[x] + SumFunctionOnSet(h, s \ {x})
  <2>1. \A z \in s : h[z] \in Int
    OBVIOUS
  <2> QED BY <1>3, <2>1, SumTakeOut
<1>11. SumFunctionOnSet(h, s) # SumFunctionOnSet(f, s) + SumFunctionOnSet(g, s)
  OBVIOUS
<1> HIDE DEF B
<1> QED BY <1>5, <1>6, <1>7, <1>8, <1>9, <1>10, <1>11

\* A set of one element.
LEMMA SumSingleton ==
  ASSUME NEW f, NEW x, f[x] \in Int
  PROVE  SumFunctionOnSet(f, {x}) = f[x]
<1>1. IsFiniteSet({x}) /\ {x} \ {x} = {}
  BY FS_Singleton
<1>2. SumFunctionOnSet(f, {x}) = f[x] + SumFunctionOnSet(f, {x} \ {x})
  BY <1>1, SumTakeOut
<1> QED BY <1>1, <1>2, SumEmpty

\* The sum over a part is no more than the sum over the whole.
LEMMA SumSubset ==
  ASSUME NEW f, NEW S, IsFiniteSet(S), \A x \in S : f[x] \in Nat, NEW T \in SUBSET S
  PROVE  SumFunctionOnSet(f, T) <= SumFunctionOnSet(f, S)
<1> DEFINE B == {s \in SUBSET S : T \subseteq s
                   /\ ~ (SumFunctionOnSet(f, T) <= SumFunctionOnSet(f, s))}
<1>1. SUFFICES ASSUME B # {} PROVE FALSE
  OBVIOUS
<1>2. PICK s \in B : \A t \in B : t \subseteq s => t = s
  <2>1. B \in SUBSET SUBSET S
    OBVIOUS
  <2> HIDE DEF B
  <2> QED BY <1>1, <2>1, SmallestSubset
<1>3. s \in SUBSET S /\ T \subseteq s /\ ~ (SumFunctionOnSet(f, T) <= SumFunctionOnSet(f, s))
  OBVIOUS
<1>4. IsFiniteSet(s) /\ IsFiniteSet(T)
  BY <1>3, FS_Subset
<1>5. SumFunctionOnSet(f, T) \in Int
  BY <1>4, SumInt
<1>6. PICK x \in s : x \notin T
  BY <1>3, <1>5
<1>7. SumFunctionOnSet(f, T) <= SumFunctionOnSet(f, s \ {x})
  BY <1>2, <1>3, <1>6
<1>8. SumFunctionOnSet(f, s) = f[x] + SumFunctionOnSet(f, s \ {x})
  BY <1>3, <1>4, <1>6, SumTakeOut
<1>9. SumFunctionOnSet(f, s \ {x}) \in Int
  <2>1. IsFiniteSet(s \ {x})
    BY <1>4, FS_Subset
  <2> QED BY <1>3, <2>1, SumInt
<1>10. f[x] \in Nat
  BY <1>3
<1> HIDE DEF B
<1> QED BY <1>3, <1>5, <1>7, <1>8, <1>9, <1>10

\* The sum over the images of a one-to-one map, term by term.
LEMMA SumReindex ==
  ASSUME NEW f, NEW g, NEW h, NEW S, IsFiniteSet(S),
         \A x \in S : f[x] \in Int /\ g[h[x]] = f[x],
         \A x, y \in S : h[x] = h[y] => x = y
  PROVE  SumFunctionOnSet(g, {h[x] : x \in S}) = SumFunctionOnSet(f, S)
<1> DEFINE Image(s) == {h[x] : x \in s}
           B == {s \in SUBSET S : SumFunctionOnSet(g, Image(s)) # SumFunctionOnSet(f, s)}
<1>1. SUFFICES ASSUME B # {} PROVE FALSE
  <2>1. B = {} => SumFunctionOnSet(g, Image(S)) = SumFunctionOnSet(f, S)
    OBVIOUS
  <2> QED BY <2>1
<1>2. PICK s \in B : \A t \in B : t \subseteq s => t = s
  <2>1. B \in SUBSET SUBSET S
    OBVIOUS
  <2> HIDE DEF B
  <2> QED BY <1>1, <2>1, SmallestSubset
<1>3. s \in SUBSET S /\ SumFunctionOnSet(g, Image(s)) # SumFunctionOnSet(f, s)
  OBVIOUS
<1>4. s # {}
  <2>1. Image({}) = {}
    OBVIOUS
  <2> HIDE DEF B, Image
  <2> QED BY <1>3, <2>1, SumEmpty
<1>5. IsFiniteSet(s)
  BY <1>3, FS_Subset
<1>6. PICK x \in s : TRUE
  BY <1>4
<1>7. Image(s) \ {h[x]} = Image(s \ {x}) /\ h[x] \in Image(s)
  BY <1>3
<1>8. SumFunctionOnSet(g, Image(s \ {x})) = SumFunctionOnSet(f, s \ {x})
  BY <1>2
<1>9. SumFunctionOnSet(f, s) = f[x] + SumFunctionOnSet(f, s \ {x})
  BY <1>3, <1>5, SumTakeOut
<1>10. IsFiniteSet(Image(s))
  <2> DEFINE k == [z \in s |-> h[z]]
  <2>1. k \in Surjection(s, Image(s))
    BY DEF Surjection
  <2> QED BY <1>5, <2>1, FS_Surjection
<1>11. \A z \in Image(s) : g[z] \in Int
  BY <1>3
<1>12. SumFunctionOnSet(g, Image(s)) = g[h[x]] + SumFunctionOnSet(g, Image(s) \ {h[x]})
  <2> HIDE DEF Image
  <2> QED BY <1>7, <1>10, <1>11, SumTakeOut
<1>13. g[h[x]] = f[x]
  BY <1>3
<1> HIDE DEF B, Image
<1> QED BY <1>3, <1>7, <1>8, <1>9, <1>12, <1>13

-----------------------------------------------------------------------------
(* The least and the largest member of a finite set of integers *)

\* A finite set of integers that is not empty has a least and a largest member.
LEMMA Extremes ==
  ASSUME NEW S, IsFiniteSet(S)
  PROVE  S # {} /\ S \subseteq Int =>
           (\E x \in S : \A y \in S : x <= y) /\ (\E x \in S : \A y \in S : y <= x)
<1> DEFINE Has(T) == (\E x \in T : \A y \in T : x <= y) /\ (\E x \in T : \A y \in T : y <= x)
           B == {T \in SUBSET S : T # {} /\ T \subseteq Int /\ ~ Has(T)}
<1>1. SUFFICES ASSUME B # {} PROVE FALSE
  OBVIOUS
<1>2. PICK T \in B : \A t \in B : t \subseteq T => t = T
  <2>1. B \in SUBSET SUBSET S
    OBVIOUS
  <2> HIDE DEF B
  <2> QED
    BY <1>1, <2>1, SmallestSubset
<1>3. T \subseteq S /\ T # {} /\ T \subseteq Int /\ ~ Has(T)
  OBVIOUS
<1>4. PICK x \in T : TRUE
  BY <1>3
<1> DEFINE U == T \ {x}
<1>5. U \subseteq T /\ x \notin U /\ U \subseteq S /\ T = U \cup {x}
  BY <1>3, <1>4
<1> HIDE DEF U
<1>6. U \notin B
  <2> HIDE DEF B
  <2> QED
    BY <1>2, <1>4, <1>5
<1>7. CASE U = {}
  <2>1. T = {x} /\ x \in Int
    BY <1>3, <1>5, <1>7
  <2>2. Has(T)
    BY <2>1
  <2> QED
    BY <1>3, <2>2
<1>8. CASE U # {}
  <2>1. PICK a \in U, b \in U : \A y \in U : a <= y /\ y <= b
    BY <1>5, <1>6, <1>8
  <2>2. x \in Int /\ a \in Int /\ b \in Int /\ (\A y \in T : y \in Int /\ (y = x \/ y \in U))
    BY <1>3, <1>5
  <2>3. \E z \in T : \A y \in T : z <= y
    <3>1. CASE x <= a
      <4>1. \A y \in T : x <= y
        BY <2>1, <2>2, <3>1
      <4> QED
        BY <4>1
    <3>2. CASE ~ (x <= a)
      <4>1. \A y \in T : a <= y
        BY <2>1, <2>2, <3>2
      <4> QED
        BY <1>5, <4>1
    <3> QED
      BY <3>1, <3>2
  <2>4. \E z \in T : \A y \in T : y <= z
    <3>1. CASE b <= x
      <4>1. \A y \in T : y <= x
        BY <2>1, <2>2, <3>1
      <4> QED
        BY <4>1
    <3>2. CASE ~ (b <= x)
      <4>1. \A y \in T : y <= b
        BY <2>1, <2>2, <3>2
      <4> QED
        BY <1>5, <4>1
    <3> QED
      BY <3>1, <3>2
  <2> QED
    BY <1>3, <2>3, <2>4
<1> QED
  BY <1>7, <1>8

\* What a function takes over a finite set is a finite set.
LEMMA ImageFinite ==
  ASSUME NEW P, NEW f, IsFiniteSet(P)
  PROVE  IsFiniteSet({f[x] : x \in P})
<1> DEFINE T == {f[x] : x \in P}
           g == [x \in P |-> f[x]]
<1>1. g \in Surjection(P, T)
  BY DEF Surjection
<1> HIDE DEF g, T
<1>2. IsFiniteSet(T)
  BY <1>1, FS_Surjection
<1> QED
  BY <1>2 DEF T

\* What holds of 0 and, if of a number, of the next one, holds up to n.
LEMMA UpTo ==
  ASSUME NEW n \in Nat, NEW P \in SUBSET (0 .. n), 0 \in P, \A k \in 1 .. n : k - 1 \in P => k \in P
  PROVE  P = 0 .. n
<1> DEFINE B == (0 .. n) \ P
<1>1. SUFFICES ASSUME B # {} PROVE FALSE
  OBVIOUS
<1>2. IsFiniteSet(B) /\ B \subseteq Int
  <2>1. IsFiniteSet(0 .. n)
    BY FS_Interval
  <2> QED
    BY <2>1, FS_Subset
<1>3. PICK k \in B : \A j \in B : k <= j
  <2> HIDE DEF B
  <2> QED
    BY <1>1, <1>2, Extremes
<1>4. k \in 1 .. n
  OBVIOUS
<1>5. k - 1 \in P
  BY <1>3, <1>4
<1> QED
  BY <1>4, <1>5

\* g starts with b and goes from k - 1 to k as step k of s.
Stepwise(g, b, n, s) == g[0] = b /\ \A k \in 1 .. n : g[k] = s[k][g[k - 1]]

\* A function can be given by what it is at 0 and, from its value at k - 1, at k.
LEMMA StepByStep ==
  ASSUME NEW T, NEW b \in T, NEW n \in Nat, NEW s \in [1 .. n -> [T -> T]]
  PROVE  \E g \in [0 .. n -> T] : Stepwise(g, b, n, s)
<1> DEFINE Table(m, g) == Stepwise(g, b, m, s)
           P == {m \in 0 .. n : \E g \in [0 .. m -> T] : Table(m, g)}
<1>1. 0 \in P
  <2> DEFINE g == [k \in 0 .. 0 |-> b]
  <2>1. g \in [0 .. 0 -> T] /\ Table(0, g)
    BY DEF Stepwise
  <2> HIDE DEF Table, g
  <2> QED
    BY <2>1
<1>2. ASSUME NEW m \in 1 .. n, m - 1 \in P
      PROVE  m \in P
  <2>1. PICK g \in [0 .. m - 1 -> T] : Table(m - 1, g)
    BY <1>2
  <2> DEFINE h == [k \in 0 .. m |-> IF k = m THEN s[m][g[m - 1]] ELSE g[k]]
  <2>2. g[m - 1] \in T /\ s[m][g[m - 1]] \in T
    BY <2>1
  <2>3. h \in [0 .. m -> T]
    BY <2>1, <2>2
  <2>4. ASSUME NEW k \in 1 .. m
        PROVE  h[k] = s[k][h[k - 1]]
    <3>1. h[k - 1] = g[k - 1]
      OBVIOUS
    <3>2. CASE k = m
      <4>1. h[m] = s[m][g[m - 1]] /\ h[m - 1] = g[m - 1]
        BY <3>1, <3>2
      <4> HIDE DEF h
      <4> QED
        BY <3>2, <4>1
    <3>3. CASE k # m
      <4>1. k \in 1 .. m - 1 /\ h[k] = g[k]
        BY <3>3
      <4>2. g[k] = s[k][g[k - 1]]
        BY <2>1, <4>1 DEF Stepwise
      <4> QED
        BY <3>1, <4>1, <4>2
    <3> QED
      BY <3>2, <3>3
  <2>5. h[0] = b
    BY <2>1 DEF Stepwise
  <2> HIDE DEF h
  <2>6. Table(m, h)
    BY <2>4, <2>5 DEF Stepwise
  <2> QED
    BY <2>3, <2>6
<1> HIDE DEF P
<1>3. P = 0 .. n
  <2>1. P \in SUBSET (0 .. n)
    BY DEF P
  <2> QED
    BY <1>1, <1>2, <2>1, UpTo
<1>4. n \in P
  BY <1>3
<1> QED
  BY <1>4 DEF P

\* A table that only changes at K adds up, there, to its last entry.
LEMMA Telescope ==
  ASSUME NEW n \in Nat, NEW K \in SUBSET (1 .. n), NEW c, \A k \in 0 .. n : c[k] \in Int, c[0] = 0,
         \A k \in (1 .. n) \ K : c[k] = c[k - 1], NEW f, \A k \in K : f[k] = c[k] - c[k - 1]
  PROVE  SumFunctionOnSet(f, K) = c[n]
<1> DEFINE Below(k) == {j \in K : j <= k}
           P == {k \in 0 .. n : SumFunctionOnSet(f, Below(k)) = c[k]}
<1>0. \A j \in K : j \in Int /\ 1 <= j /\ j <= n
  OBVIOUS
<1>1. IsFiniteSet(K) /\ \A k \in 0 .. n : IsFiniteSet(Below(k))
  <2>1. IsFiniteSet(1 .. n)
    BY FS_Interval
  <2> QED
    BY <2>1, FS_Subset
<1>2. \A k \in K : f[k] \in Int
  OBVIOUS
<1>3. 0 \in P
  <2>1. Below(0) = {}
    <3>1. \A j \in K : ~ (j <= 0)
      BY <1>0
    <3> QED
      BY <3>1
  <2> QED
    BY <2>1, SumEmpty
<1>4. ASSUME NEW k \in 1 .. n, k - 1 \in P
      PROVE  k \in P
  <2>1. SumFunctionOnSet(f, Below(k - 1)) = c[k - 1]
    BY <1>4
  <2>2. CASE k \in K
    <3>1. Below(k) = Below(k - 1) \cup {k} /\ k \notin Below(k - 1)
      <4>1. \A j \in K : j <= k <=> j <= k - 1 \/ j = k
        BY <1>0
      <4>2. k \notin Below(k - 1)
        OBVIOUS
      <4>3. \A j : j \in Below(k) <=> j \in Below(k - 1) \cup {k}
        BY <2>2, <4>1
      <4> QED
        BY <4>2, <4>3
    <3>2. IsFiniteSet(Below(k - 1)) /\ \A j \in Below(k - 1) \cup {k} : f[j] \in Int
      <4>1. k - 1 \in 0 .. n /\ Below(k - 1) \subseteq K
        OBVIOUS
      <4> QED
        BY <1>1, <1>2, <2>2, <4>1
    <3> HIDE DEF Below
    <3>3. SumFunctionOnSet(f, Below(k - 1) \cup {k}) = f[k] + SumFunctionOnSet(f, Below(k - 1))
      BY <3>1, <3>2, SumAdd
    <3>4. c[k] \in Int /\ c[k - 1] \in Int /\ f[k] = c[k] - c[k - 1]
      BY <2>2
    <3>5. SumFunctionOnSet(f, Below(k)) = c[k]
      BY <2>1, <3>1, <3>3, <3>4
    <3> QED
      BY <3>5
  <2>3. CASE k \notin K
    <3>1. Below(k) = Below(k - 1)
      <4>1. \A j \in K : j <= k <=> j <= k - 1
        BY <1>0, <2>3
      <4> QED
        BY <4>1
    <3>2. c[k] = c[k - 1]
      BY <2>3
    <3> HIDE DEF Below
    <3> QED
      BY <2>1, <3>1, <3>2
  <2> QED
    BY <2>2, <2>3
<1>5. P \in SUBSET (0 .. n)
  OBVIOUS
<1> HIDE DEF P
<1>6. P = 0 .. n
  BY <1>3, <1>4, <1>5, UpTo
<1>7. Below(n) = K
  BY <1>0
<1> QED
  BY <1>6, <1>7 DEF P

\* A sum over all there is of a function.
LEMMA SumOver ==
  ASSUME NEW f, NEW S, DOMAIN f = S
  PROVE  SumFunction(f) = SumFunctionOnSet(f, S)
  BY DEF SumFunction
=============================================================================
