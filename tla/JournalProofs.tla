---------------------------- MODULE JournalProofs ----------------------------
(***************************************************************************)
(* The closed trades of an account, for any trades, prices, bundles, forms *)
(* and sessions.  Of the figures: they agree with their definitions and    *)
(* with one another.  Of the review: an answer to a suggestion settles it  *)
(* and raises no other.  Of the reflection sessions: every idea counts     *)
(* once, and citations lead back.                                          *)
(***************************************************************************)
EXTENDS Reflect, FiniteSetTheorems, SequenceTheorems, WellFoundedInduction, TLAPS

-----------------------------------------------------------------------------
(* Induction and recursion over finite sets.  What to induct over is a set *)
(* of numbers or of sets, and what to fold with a function, not operators: *)
(* so these facts can be cited for any of them.                            *)

LEMMA LeastNumber ==
    ASSUME NEW S, S \subseteq Nat, S # {}
    PROVE  \E k \in S : \A l \in S : k <= l
<1> DEFINE R == OpToRel(<, Nat)
<1>1. IsWellFoundedOn(OpToRel(<, Nat), Nat)
    BY NatLessThanWellFounded
<1>2. \A k, l \in Nat : <<l, k>> \notin R => k <= l
    BY DEF OpToRel
<1> HIDE DEF R
<1>3. PICK k \in S : \A l \in S : ~ (<<l, k>> \in R)
    BY <1>1, WFMin DEF R
<1> QED BY <1>2, <1>3

LEMMA Numbers ==
    ASSUME NEW P, 0 \in P, \A n \in Nat : n \in P => n + 1 \in P
    PROVE  Nat \subseteq P
<1> DEFINE Bad == Nat \ P
<1> SUFFICES ASSUME Bad # {} PROVE FALSE
    OBVIOUS
<1>0. Bad \subseteq Nat
    OBVIOUS
<1>1. PICK k \in Bad : \A l \in Bad : k <= l
    BY <1>0, LeastNumber
<1>2. k \in Nat /\ k # 0 /\ k \notin P
    OBVIOUS
<1>3. k - 1 \in Nat /\ k - 1 < k /\ (k - 1) + 1 = k
    BY <1>2
<1>4. k - 1 \in Bad
    BY <1>2, <1>3
<1>5. k <= k - 1
    BY <1>1, <1>4
<1> QED BY <1>2, <1>3, <1>5

LEMMA FiniteSubsets ==
    ASSUME NEW S, IsFiniteSet(S), NEW P, {} \in P,
           \A T \in SUBSET S : \A x \in S \ T : T \in P => T \cup {x} \in P
    PROVE  SUBSET S \subseteq P
<1> DEFINE Q == {n \in Nat : \A T \in SUBSET S : Cardinality(T) = n => T \in P}
<1>0. \A T \in SUBSET S : IsFiniteSet(T) /\ Cardinality(T) \in Nat
    BY FS_Subset, FS_CardinalityType
<1>1. 0 \in Q
    BY <1>0, FS_EmptySet
<1>2. ASSUME NEW n \in Nat, n \in Q PROVE n + 1 \in Q
  <2> SUFFICES ASSUME NEW T \in SUBSET S, Cardinality(T) = n + 1 PROVE T \in P
    OBVIOUS
  <2>0. T # {}
    <3>1. n + 1 # 0 /\ Cardinality({}) = 0
      BY FS_EmptySet
    <3> QED BY <3>1
  <2>1. PICK x : x \in T
    BY <2>0
  <2>2. Cardinality(T \ {x}) = n
    <3>1. Cardinality(T \ {x}) = Cardinality(T) - 1
      BY <1>0, <2>1, FS_RemoveElement
    <3> QED BY <3>1
  <2>3. T \ {x} \in P
    BY <1>2, <2>2
  <2>4. (T \ {x}) \cup {x} = T /\ x \in S \ (T \ {x})
    BY <2>1
  <2> QED BY <2>3, <2>4
<1>3. Nat \subseteq Q
  <2> HIDE DEF Q
  <2> QED BY <1>1, <1>2, Numbers
<1> QED BY <1>0, <1>3

\* g is the fold of step over the subsets of S, an element chosen by c at a time.
IsFold(g, S, base, c, step) ==
    /\ g = [T \in SUBSET S |-> g[T]]
    /\ g[{}] = base
    /\ \A T \in SUBSET S : T # {} => g[T] = step[c[T]][g[T \ {c[T]}]]

Chooses(c, S) == \A T \in SUBSET S : T # {} => c[T] \in T

LEMMA FoldExists ==
    ASSUME NEW S, IsFiniteSet(S), NEW base, NEW c, Chooses(c, S), NEW step
    PROVE  \E g : IsFold(g, S, base, c, step)
<1> DEFINE Small(n) == {T \in SUBSET S : Cardinality(T) <= n}
           Solves(g, n) == \A T \in Small(n) : g[T] = IF T = {} THEN base ELSE step[c[T]][g[T \ {c[T]}]]
           P == {n \in Nat : \E g : Solves(g, n)}
<1>0. \A T \in SUBSET S : IsFiniteSet(T) /\ Cardinality(T) \in Nat
    BY FS_Subset, FS_CardinalityType
<1>1. 0 \in P
  <2> DEFINE g == [T \in SUBSET S |-> base]
  <2>1. \A T \in Small(0) : T = {}
    BY <1>0, FS_EmptySet
  <2>2. Solves(g, 0)
    BY <2>1
  <2> QED BY <2>2
<1>2. ASSUME NEW n \in Nat, n \in P PROVE n + 1 \in P
  <2>1. PICK g : Solves(g, n)
    BY <1>2
  <2> DEFINE h == [T \in SUBSET S |-> IF Cardinality(T) <= n THEN g[T]
                                      ELSE step[c[T]][g[T \ {c[T]}]]]
  <2>0. \A T \in SUBSET S : /\ Cardinality(T) <= n => h[T] = g[T]
                            /\ ~(Cardinality(T) <= n) => h[T] = step[c[T]][g[T \ {c[T]}]]
    OBVIOUS
  <2> HIDE DEF h
  <2>2. ASSUME NEW T \in Small(n + 1)
        PROVE  h[T] = IF T = {} THEN base ELSE step[c[T]][h[T \ {c[T]}]]
    <3>1. T \in SUBSET S /\ Cardinality(T) <= n + 1
      OBVIOUS
    <3>2. CASE T = {}
      <4>1. Cardinality(T) <= n
        BY <3>2, FS_EmptySet
      <4> QED BY <2>0, <2>1, <3>1, <3>2, <4>1
    <3>3. CASE T # {}
      <4>1. c[T] \in T
        BY <3>1, <3>3 DEF Chooses
      <4>2. Cardinality(T \ {c[T]}) = Cardinality(T) - 1
        BY <1>0, <3>1, <4>1, FS_RemoveElement
      <4>3. T \ {c[T]} \in SUBSET S /\ Cardinality(T \ {c[T]}) <= n
        BY <1>0, <3>1, <4>2
      <4>4. h[T \ {c[T]}] = g[T \ {c[T]}]
        BY <2>0, <4>3
      <4>5. h[T] = step[c[T]][g[T \ {c[T]}]]
        <5>1. CASE Cardinality(T) <= n
          <6>1. h[T] = g[T]
            BY <2>0, <3>1, <5>1
          <6>2. g[T] = step[c[T]][g[T \ {c[T]}]]
            BY <2>1, <3>1, <3>3, <5>1
          <6> QED BY <6>1, <6>2
        <5>2. CASE ~(Cardinality(T) <= n)
          BY <2>0, <3>1, <5>2
        <5> QED BY <5>1, <5>2
      <4> QED BY <3>3, <4>4, <4>5
    <3> QED BY <3>2, <3>3
  <2>3. Solves(h, n + 1)
    BY <2>2
  <2>4. n + 1 \in Nat
    OBVIOUS
  <2> HIDE DEF Solves
  <2> QED BY <2>3, <2>4
<1> HIDE DEF P
<1>3. Cardinality(S) \in P
    BY <1>0, <1>1, <1>2, Numbers
<1>4. PICK g : Solves(g, Cardinality(S))
    BY <1>3 DEF P
<1> DEFINE h == [T \in SUBSET S |-> g[T]]
<1>5. ASSUME NEW T \in SUBSET S
      PROVE  h[T] = IF T = {} THEN base ELSE step[c[T]][h[T \ {c[T]}]]
  <2>1. Cardinality(T) <= Cardinality(S)
    BY FS_Subset
  <2>2. T \in Small(Cardinality(S)) /\ T \ {c[T]} \in SUBSET S
    BY <2>1
  <2>3. h[T \ {c[T]}] = g[T \ {c[T]}] /\ h[T] = g[T]
    BY <2>2
  <2> QED BY <1>4, <2>2, <2>3
<1>6. h = [T \in SUBSET S |-> h[T]]
    OBVIOUS
<1> HIDE DEF h
<1>7. IsFold(h, S, base, c, step)
    BY <1>5, <1>6 DEF IsFold
<1> QED BY <1>7

\* What folds of any kind preserve: a set V that the steps do not leave.
LEMMA FoldStays ==
    ASSUME NEW S, IsFiniteSet(S), NEW base, NEW c, Chooses(c, S), NEW step, NEW V,
           base \in V, \A x \in S : \A v \in V : step[x][v] \in V,
           NEW g, IsFold(g, S, base, c, step)
    PROVE  \A T \in SUBSET S : g[T] \in V
<1> DEFINE Q == {n \in Nat : \A T \in SUBSET S : Cardinality(T) = n => g[T] \in V}
<1>0. \A T \in SUBSET S : IsFiniteSet(T) /\ Cardinality(T) \in Nat
    BY FS_Subset, FS_CardinalityType
<1>1. 0 \in Q
    BY <1>0, FS_EmptySet DEF IsFold
<1>2. ASSUME NEW n \in Nat, n \in Q PROVE n + 1 \in Q
  <2> SUFFICES ASSUME NEW T \in SUBSET S, Cardinality(T) = n + 1 PROVE g[T] \in V
    OBVIOUS
  <2>1. T # {}
    BY FS_EmptySet
  <2>2. c[T] \in T
    BY <2>1 DEF Chooses
  <2>3. Cardinality(T \ {c[T]}) = n /\ T \ {c[T]} \in SUBSET S
    BY <1>0, <2>2, FS_RemoveElement
  <2>4. g[T \ {c[T]}] \in V
    BY <1>2, <2>3
  <2>5. g[T] = step[c[T]][g[T \ {c[T]}]]
    BY <2>1 DEF IsFold
  <2> QED BY <2>2, <2>4, <2>5
<1>3. Nat \subseteq Q
  <2> HIDE DEF Q
  <2> QED BY <1>1, <1>2, Numbers
<1> QED BY <1>0, <1>3
-----------------------------------------------------------------------------
(* Sums over finite sets *)

\* g adds up f over the subsets of S, some element after the other.
Adds(S, f, g) ==
    /\ g \in [SUBSET S -> Int] /\ g[{}] = 0
    /\ \A T \in SUBSET S : T # {} => \E x \in T : g[T] = f[x] + g[T \ {x}]

Amounts(S, f) == IsFiniteSet(S) /\ \A x \in S : f[x] \in Int

\* The order does not matter.
LEMMA AnyFirst ==
    ASSUME NEW S, NEW f, Amounts(S, f), NEW g, Adds(S, f, g),
           NEW T \in SUBSET S, NEW x \in T
    PROVE  g[T] = f[x] + g[T \ {x}]
<1> DEFINE EitherWay(U) == \A y \in U : g[U] = f[y] + g[U \ {y}]
           Q == {n \in Nat : \A U \in SUBSET S : Cardinality(U) = n => EitherWay(U)}
<1>0. \A U \in SUBSET S : IsFiniteSet(U) /\ Cardinality(U) \in Nat /\ g[U] \in Int
    BY FS_Subset, FS_CardinalityType DEF Amounts, Adds
<1>1. 0 \in Q
    BY <1>0, FS_EmptySet
<1>2. ASSUME NEW n \in Nat, n \in Q PROVE n + 1 \in Q
  <2> SUFFICES ASSUME NEW U \in SUBSET S, Cardinality(U) = n + 1 PROVE EitherWay(U)
    BY <1>2
  <2> SUFFICES ASSUME NEW y \in U PROVE g[U] = f[y] + g[U \ {y}]
    OBVIOUS
  <2>1. PICK z \in U : g[U] = f[z] + g[U \ {z}]
    BY DEF Adds
  <2>2. CASE y = z
    BY <2>1, <2>2
  <2>3. CASE y # z
    <3>1. Cardinality(U \ {y}) = n /\ Cardinality(U \ {z}) = n
      <4>1. Cardinality(U \ {y}) = Cardinality(U) - 1 /\ Cardinality(U \ {z}) = Cardinality(U) - 1
        BY <1>0, FS_RemoveElement
      <4> QED BY <4>1
    <3>2. EitherWay(U \ {y}) /\ EitherWay(U \ {z})
      BY <1>2, <3>1
    <3>3. g[U \ {y}] = f[z] + g[(U \ {y}) \ {z}] /\ g[U \ {z}] = f[y] + g[(U \ {z}) \ {y}]
      BY <2>3, <3>2
    <3>4. (U \ {y}) \ {z} = (U \ {z}) \ {y}
      OBVIOUS
    <3>5. f[y] \in Int /\ f[z] \in Int /\ g[(U \ {z}) \ {y}] \in Int
      BY <1>0 DEF Amounts
    <3> DEFINE rest == g[(U \ {z}) \ {y}]
    <3>6. g[U \ {y}] = f[z] + rest /\ g[U] = f[z] + (f[y] + rest)
      BY <2>1, <3>3, <3>4
    <3> HIDE DEF rest
    <3>7. rest \in Int
      BY <3>5 DEF rest
    <3> QED BY <3>5, <3>6, <3>7
  <2> QED BY <2>2, <2>3
<1> HIDE DEF Q
<1>3. Nat \subseteq Q
    BY <1>1, <1>2, Numbers
<1>4. Cardinality(T) \in Q
    BY <1>0, <1>3
<1> QED BY <1>4 DEF Q

LEMMA SameAmounts ==
    ASSUME NEW S, NEW f, Amounts(S, f), NEW g, Adds(S, f, g),
           NEW S2, NEW f2, Amounts(S2, f2), NEW g2, Adds(S2, f2, g2),
           NEW T, T \subseteq S, T \subseteq S2, \A x \in T : f[x] = f2[x]
    PROVE  g[T] = g2[T]
<1> DEFINE P == {U \in SUBSET T : g[U] = g2[U]}
<1>1. IsFiniteSet(T)
    BY FS_Subset DEF Amounts
<1>2. {} \in P
    BY DEF Adds
<1>3. ASSUME NEW U \in SUBSET T, NEW x \in T \ U, U \in P PROVE U \cup {x} \in P
  <2>1. U \cup {x} \in SUBSET S /\ U \cup {x} \in SUBSET S2 /\ (U \cup {x}) \ {x} = U /\ x \in U \cup {x}
    BY <1>3
  <2>2. g[U \cup {x}] = f[x] + g[(U \cup {x}) \ {x}] /\ g2[U \cup {x}] = f2[x] + g2[(U \cup {x}) \ {x}]
    BY <2>1, AnyFirst
  <2>3. g[U] = g2[U] /\ f[x] = f2[x]
    BY <1>3
  <2>4. g[U \cup {x}] = g2[U \cup {x}]
    BY <2>1, <2>2, <2>3
  <2> QED BY <2>4
<1> HIDE DEF P
<1>4. SUBSET T \subseteq P
    BY <1>1, <1>2, <1>3, FiniteSubsets
<1> QED BY <1>4 DEF P

LEMMA AddsExists ==
    ASSUME NEW S, NEW f, Amounts(S, f)
    PROVE  \E g : Adds(S, f, g)
<1> DEFINE c == [T \in SUBSET S |-> CHOOSE x \in T : TRUE]
           step == [x \in S |-> [v \in Int |-> f[x] + v]]
<1>1. Chooses(c, S) /\ IsFiniteSet(S)
    BY DEF Chooses, Amounts
<1>2. \A x \in S : \A v \in Int : step[x][v] = f[x] + v /\ step[x][v] \in Int
    BY DEF Amounts
<1> HIDE DEF c, step
<1>3. PICK g : IsFold(g, S, 0, c, step)
    BY <1>1, FoldExists
<1>4. \A T \in SUBSET S : g[T] \in Int
  <2>1. 0 \in Int /\ \A x \in S : \A v \in Int : step[x][v] \in Int
    BY <1>2
  <2> QED BY <1>1, <1>3, <2>1, FoldStays
<1>5. g = [T \in SUBSET S |-> g[T]] /\ g[{}] = 0
    BY <1>3 DEF IsFold
<1>6. ASSUME NEW T \in SUBSET S, T # {} PROVE \E x \in T : g[T] = f[x] + g[T \ {x}]
  <2>1. c[T] \in T /\ c[T] \in S /\ T \ {c[T]} \in SUBSET S
    BY <1>1, <1>6 DEF Chooses
  <2>2. g[T] = step[c[T]][g[T \ {c[T]}]]
    BY <1>3, <1>6 DEF IsFold
  <2>3. g[T] = f[c[T]] + g[T \ {c[T]}]
    BY <1>2, <1>4, <2>1, <2>2
  <2> QED BY <2>1, <2>3
<1>7. g \in [SUBSET S -> Int]
    BY <1>4, <1>5
<1>8. Adds(S, f, g)
    BY <1>5, <1>6, <1>7 DEF Adds
<1> QED BY <1>8

\* The sum of f over S
SumOf(S, f) == CHOOSE v : \E g : Adds(S, f, g) /\ v = g[S]

LEMMA SumIs ==
    ASSUME NEW S, NEW f, Amounts(S, f), NEW g, Adds(S, f, g), NEW T \in SUBSET S
    PROVE  SumOf(T, f) = g[T]
<1>1. Amounts(T, f)
    BY FS_Subset DEF Amounts
<1>2. \E h : Adds(T, f, h)
    BY <1>1, AddsExists
<1>3. \E v : \E h : Adds(T, f, h) /\ v = h[T]
    BY <1>2
<1>4. PICK h : Adds(T, f, h) /\ SumOf(T, f) = h[T]
    BY <1>3 DEF SumOf
<1>5. h[T] = g[T]
    BY <1>1, <1>4, SameAmounts
<1> QED BY <1>4, <1>5

LEMMA SumLaws ==
    ASSUME NEW S, NEW f, Amounts(S, f)
    PROVE  /\ SumOf(S, f) \in Int
           /\ S = {} => SumOf(S, f) = 0
           /\ \A T \in SUBSET S : SumOf(T, f) \in Int
           /\ \A T \in SUBSET S : \A x \in T : SumOf(T, f) = f[x] + SumOf(T \ {x}, f)
<1>1. PICK g : Adds(S, f, g)
    BY AddsExists
<1>2. \A T \in SUBSET S : SumOf(T, f) = g[T] /\ g[T] \in Int
  <2>1. ASSUME NEW T \in SUBSET S PROVE SumOf(T, f) = g[T]
    BY <1>1, SumIs
  <2> QED BY <1>1, <2>1 DEF Adds
<1>3. g[{}] = 0
    BY <1>1 DEF Adds
<1>4. ASSUME NEW T \in SUBSET S, NEW x \in T
      PROVE  SumOf(T, f) = f[x] + SumOf(T \ {x}, f)
  <2>1. g[T] = f[x] + g[T \ {x}]
    BY <1>1, AnyFirst
  <2>2. T \ {x} \in SUBSET S
    OBVIOUS
  <2> QED BY <1>2, <2>1, <2>2
<1> QED BY <1>2, <1>3, <1>4

LEMMA SumAdded ==
    ASSUME NEW S, NEW f, Amounts(S, f), NEW x, x \notin S, f[x] \in Int
    PROVE  SumOf(S \cup {x}, f) = f[x] + SumOf(S, f)
<1>1. Amounts(S \cup {x}, f)
    BY FS_AddElement DEF Amounts
<1>2. (S \cup {x}) \ {x} = S
    OBVIOUS
<1> QED BY <1>1, <1>2, SumLaws

LEMMA SumSame ==
    ASSUME NEW S, NEW f, Amounts(S, f), NEW h, \A x \in S : f[x] = h[x]
    PROVE  SumOf(S, f) = SumOf(S, h)
<1>1. Amounts(S, h)
    BY DEF Amounts
<1>2. PICK g : Adds(S, f, g)
    BY AddsExists
<1>3. PICK g2 : Adds(S, h, g2)
    BY <1>1, AddsExists
<1>4. g[S] = g2[S]
    BY <1>1, <1>2, <1>3, SameAmounts
<1> QED BY <1>1, <1>2, <1>3, <1>4, SumIs

LEMMA SumApart ==
    ASSUME NEW S, NEW T, NEW f, Amounts(S, f), Amounts(T, f), S \cap T = {}
    PROVE  /\ Amounts(S \cup T, f)
           /\ SumOf(S \cup T, f) = SumOf(S, f) + SumOf(T, f)
<1>1. Amounts(S \cup T, f)
    BY FS_Union DEF Amounts
<1> DEFINE P == {U \in SUBSET T : SumOf(S \cup U, f) = SumOf(S, f) + SumOf(U, f)}
<1>2. {} \in P
  <2>1. S \cup {} = S /\ Amounts({}, f)
    BY FS_EmptySet DEF Amounts
  <2>2. SumOf({}, f) = 0 /\ SumOf(S, f) \in Int
    BY <2>1, SumLaws
  <2> QED BY <2>1, <2>2
<1>3. ASSUME NEW U \in SUBSET T, NEW x \in T \ U, U \in P PROVE U \cup {x} \in P
  <2>1. S \cup (U \cup {x}) = (S \cup U) \cup {x} /\ x \notin S \cup U /\ f[x] \in Int
    BY <1>3 DEF Amounts
  <2>2. Amounts(U, f) /\ Amounts(S \cup U, f)
    <3>1. U \subseteq T /\ S \cup U \subseteq S \cup T
      OBVIOUS
    <3> QED BY <1>1, <3>1, FS_Subset DEF Amounts
  <2>3. SumOf((S \cup U) \cup {x}, f) = f[x] + SumOf(S \cup U, f)
    BY <2>1, <2>2, SumAdded
  <2>4. SumOf(U \cup {x}, f) = f[x] + SumOf(U, f)
    BY <2>1, <2>2, SumAdded
  <2>5. SumOf(U, f) \in Int /\ SumOf(S, f) \in Int /\ SumOf(S \cup U, f) = SumOf(S, f) + SumOf(U, f)
    BY <1>3, <2>2, SumLaws
  <2>6. SumOf(S \cup (U \cup {x}), f) = SumOf(S, f) + SumOf(U \cup {x}, f)
    <3> DEFINE a == SumOf(S, f)
               c == SumOf(U, f)
               d == f[x]
    <3>1. SumOf(S \cup (U \cup {x}), f) = d + (a + c) /\ SumOf(U \cup {x}, f) = d + c
      BY <2>1, <2>3, <2>4, <2>5
    <3>2. a \in Int /\ c \in Int /\ d \in Int
      BY <2>1, <2>5
    <3> HIDE DEF a, c, d
    <3>3. d + (a + c) = a + (d + c)
      BY <3>2
    <3> QED BY <3>1, <3>3 DEF a
  <2> QED BY <2>6
<1> HIDE DEF P
<1>4. SUBSET T \subseteq P
    BY <1>2, <1>3, FiniteSubsets DEF Amounts
<1> QED BY <1>1, <1>4 DEF P

Apart(F) == \A S, T \in F : S # T => S \cap T = {}
SumsOf(h, F, f) == \A S \in F : Amounts(S, f) /\ h[S] = SumOf(S, f)

\* The sum over a family of sets without common elements
LEMMA SumOfFamily ==
    ASSUME NEW F, IsFiniteSet(F), Apart(F), NEW f, NEW h, SumsOf(h, F, f)
    PROVE  /\ Amounts(UNION F, f) /\ Amounts(F, h)
           /\ SumOf(UNION F, f) = SumOf(F, h)
<1>0. /\ \A S \in F : Amounts(S, f) /\ h[S] = SumOf(S, f)
      /\ \A S, T \in F : S # T => S \cap T = {}
    BY DEF SumsOf, Apart
<1>1. Amounts(UNION F, f)
    BY <1>0, FS_UNION DEF Amounts
<1>2. Amounts(F, h)
    BY <1>0, SumLaws DEF Amounts
<1> DEFINE P == {U \in SUBSET F : SumOf(UNION U, f) = SumOf(U, h)}
<1>3. {} \in P
  <2>1. UNION {} = {} /\ Amounts({}, f) /\ Amounts({}, h)
    BY FS_EmptySet DEF Amounts
  <2>2. SumOf({}, f) = 0 /\ SumOf({}, h) = 0
    BY <2>1, SumLaws
  <2> QED BY <2>1, <2>2
<1>4. ASSUME NEW U \in SUBSET F, NEW S \in F \ U, U \in P PROVE U \cup {S} \in P
  <2>1. UNION (U \cup {S}) = (UNION U) \cup S /\ (UNION U) \cap S = {}
    BY <1>0, <1>4
  <2>2. Amounts(UNION U, f) /\ Amounts(S, f) /\ Amounts(U, h)
    <3>1. UNION U \subseteq UNION F
      OBVIOUS
    <3> QED BY <1>0, <1>1, <1>2, <3>1, FS_Subset DEF Amounts
  <2>3. SumOf((UNION U) \cup S, f) = SumOf(UNION U, f) + SumOf(S, f)
    BY <2>1, <2>2, SumApart
  <2>4. S \notin U /\ h[S] \in Int /\ h[S] = SumOf(S, f)
    BY <1>0, <1>2, <1>4 DEF Amounts
  <2>5. SumOf(U \cup {S}, h) = h[S] + SumOf(U, h)
    BY <2>2, <2>4, SumAdded
  <2>6. SumOf(UNION U, f) = SumOf(U, h) /\ SumOf(U, h) \in Int
    BY <1>4, <2>2, SumLaws
  <2>7. SumOf(UNION (U \cup {S}), f) = SumOf(U \cup {S}, h)
    <3> DEFINE a == SumOf(UNION U, f)
               d == SumOf(S, f)
    <3>1. SumOf(UNION (U \cup {S}), f) = a + d /\ SumOf(U \cup {S}, h) = d + a
      BY <2>1, <2>3, <2>4, <2>5, <2>6
    <3>2. a \in Int /\ d \in Int
      BY <2>4, <2>6
    <3> HIDE DEF a, d
    <3> QED BY <3>1, <3>2
  <2> QED BY <2>7
<1> HIDE DEF P
<1>5. SUBSET F \subseteq P
    BY <1>3, <1>4, FiniteSubsets
<1> QED BY <1>1, <1>2, <1>5 DEF P

\* The sum over the images of S, if different elements have different ones
LEMMA SumOfImages ==
    ASSUME NEW S, IsFiniteSet(S), NEW b, DOMAIN b = S,
           \A x, y \in S : b[x] = b[y] => x = y,
           NEW f, \A x \in S : f[b[x]] \in Int,
           NEW h, \A x \in S : h[x] = f[b[x]]
    PROVE  /\ Amounts({b[x] : x \in S}, f) /\ Amounts(S, h)
           /\ SumOf({b[x] : x \in S}, f) = SumOf(S, h)
<1> DEFINE Im(U) == {b[x] : x \in U}
           P == {U \in SUBSET S : SumOf(Im(U), f) = SumOf(U, h)}
<1>1. Amounts(S, h)
    BY DEF Amounts
<1>2. IsFiniteSet(Im(S))
  <2> DEFINE image == [x \in S |-> b[x]]
  <2>1. image \in Surjection(S, Im(S))
    BY DEF Surjection
  <2> QED BY <2>1, FS_Surjection
<1>3. Amounts(Im(S), f)
    BY <1>2 DEF Amounts
<1>4. {} \in P
  <2>1. Im({}) = {} /\ Amounts({}, f) /\ Amounts({}, h)
    BY FS_EmptySet DEF Amounts
  <2>2. SumOf({}, f) = 0 /\ SumOf({}, h) = 0
    BY <2>1, SumLaws
  <2> QED BY <2>1, <2>2
<1>5. ASSUME NEW U \in SUBSET S, NEW x \in S \ U, U \in P PROVE U \cup {x} \in P
  <2>1. Im(U \cup {x}) = Im(U) \cup {b[x]} /\ b[x] \notin Im(U)
    BY <1>5
  <2>2. Amounts(Im(U), f) /\ Amounts(U, h)
    <3>1. Im(U) \subseteq Im(S)
      OBVIOUS
    <3>2. IsFiniteSet(Im(U)) /\ IsFiniteSet(U)
      BY <1>2, <3>1, FS_Subset
    <3> QED BY <3>2, <1>1, <1>3, <3>1 DEF Amounts
  <2>3. f[b[x]] \in Int /\ h[x] = f[b[x]] /\ h[x] \in Int
    BY <1>5
  <2> HIDE DEF Im
  <2>4. SumOf(Im(U) \cup {b[x]}, f) = f[b[x]] + SumOf(Im(U), f)
    BY <2>1, <2>2, <2>3, SumAdded
  <2>5. SumOf(U \cup {x}, h) = h[x] + SumOf(U, h)
    BY <1>5, <2>2, <2>3, SumAdded
  <2>6. SumOf(Im(U \cup {x}), f) = SumOf(U \cup {x}, h)
    BY <1>5, <2>1, <2>3, <2>4, <2>5
  <2> QED BY <2>6
<1> HIDE DEF P
<1>6. SUBSET S \subseteq P
    BY <1>4, <1>5, FiniteSubsets
<1> QED BY <1>1, <1>3, <1>6 DEF P
-----------------------------------------------------------------------------
(* Lists in an order *)

\* The pairs of R order the set S.
IsOrder(R, S) ==
    /\ \A t \in S : <<t, t>> \notin R
    /\ \A t, u \in S : t # u => <<t, u>> \in R \/ <<u, t>> \in R
    /\ \A t, u, v \in S : <<t, u>> \in R /\ <<u, v>> \in R => <<t, v>> \in R

Rank(R, S, t) == Cardinality({u \in S : <<u, t>> \in R})

LEMMA RankRange ==
    ASSUME NEW S, IsFiniteSet(S), NEW R, IsOrder(R, S), NEW t \in S
    PROVE  Rank(R, S, t) + 1 \in 1 .. Cardinality(S) /\ Rank(R, S, t) \in Nat
<1> DEFINE A == {u \in S : <<u, t>> \in R}
<1>1. t \notin A
    BY DEF IsOrder
<1>2. /\ IsFiniteSet(A) /\ Cardinality(A) <= Cardinality(S)
      /\ Cardinality(S) = Cardinality(A) => S = A
    BY FS_Subset
<1>3. Cardinality(A) \in Nat /\ Cardinality(S) \in Nat
    BY <1>2, FS_CardinalityType
<1>4. Cardinality(A) + 1 \in 1 .. Cardinality(S)
    BY <1>1, <1>2, <1>3
<1> QED BY <1>3, <1>4 DEF Rank

LEMMA RankGrows ==
    ASSUME NEW S, IsFiniteSet(S), NEW R, IsOrder(R, S), NEW t \in S, NEW u \in S, <<t, u>> \in R
    PROVE  Rank(R, S, t) < Rank(R, S, u)
<1> DEFINE A == {v \in S : <<v, t>> \in R}
           B == {v \in S : <<v, u>> \in R}
<1>1. A \subseteq B /\ t \in B /\ t \notin A
    BY DEF IsOrder
<1>2. IsFiniteSet(B)
    BY FS_Subset
<1>3. /\ IsFiniteSet(A) /\ Cardinality(A) <= Cardinality(B)
      /\ Cardinality(B) = Cardinality(A) => B = A
    BY <1>1, <1>2, FS_Subset
<1>4. Cardinality(A) \in Nat /\ Cardinality(B) \in Nat
    BY <1>2, <1>3, FS_CardinalityType
<1>5. Cardinality(A) < Cardinality(B)
    BY <1>1, <1>3, <1>4
<1> QED BY <1>5 DEF Rank

LEMMA RankIsOnto ==
    ASSUME NEW S, IsFiniteSet(S), NEW R, IsOrder(R, S), NEW k \in 1 .. Cardinality(S)
    PROVE  \E t \in S : Rank(R, S, t) = k - 1
<1> DEFINE N == 1 .. Cardinality(S)
           f == [t \in S |-> Rank(R, S, t) + 1]
<1>1. Cardinality(S) \in Nat
    BY FS_CardinalityType
<1>2. IsFiniteSet(N) /\ Cardinality(N) = Cardinality(S)
    BY <1>1, FS_Interval
<1>3. f \in [S -> N]
    BY RankRange
<1>4. ASSUME NEW t \in S, NEW u \in S, f[t] = f[u]
      PROVE  t = u
  <2>1. Rank(R, S, t) \in Nat /\ Rank(R, S, u) \in Nat
    BY RankRange
  <2>2. Rank(R, S, t) = Rank(R, S, u)
    BY <1>4, <2>1
  <2>3. <<t, u>> \notin R /\ <<u, t>> \notin R
    BY <2>1, <2>2, RankGrows
  <2> QED BY <2>3 DEF IsOrder
<1>5. f \in Injection(S, N)
    BY <1>3, <1>4 DEF Injection, IsInjective
<1> HIDE DEF f
<1>6. f \in Surjection(S, N)
    BY <1>2, <1>5, FS_Injection
<1>7. PICK t \in S : f[t] = k
    BY <1>6 DEF Surjection
<1>8. Rank(R, S, t) + 1 = k /\ Rank(R, S, t) \in Nat
    BY <1>7, RankRange DEF f
<1> QED BY <1>8

\* The k-th member of the list a has k - 1 members of S before it.
Lists(a, R, S) ==
    /\ a = [k \in 1 .. Cardinality(S) |-> a[k]]
    /\ \A k \in 1 .. Cardinality(S) :
          (\E t \in S : Rank(R, S, t) = k - 1) => a[k] \in S /\ Rank(R, S, a[k]) = k - 1

\* Such a list contains every member of S once, in the order R.
LEMMA ListInOrder ==
    ASSUME NEW S, IsFiniteSet(S), NEW R, IsOrder(R, S), NEW a, Lists(a, R, S)
    PROVE  /\ a \in Seq(S) /\ Len(a) = Cardinality(S) /\ Len(a) \in Nat
           /\ DOMAIN a = 1 .. Len(a) /\ Range(a) = S
           /\ \A k, l \in 1 .. Len(a) : k < l => <<a[k], a[l]>> \in R
           /\ \A k, l \in 1 .. Len(a) : a[k] = a[l] => k = l
<1> DEFINE n == Cardinality(S)
<1>1. n \in Nat
    BY FS_CardinalityType
<1>2. \A k \in 1 .. n : a[k] \in S /\ Rank(R, S, a[k]) = k - 1
    BY RankIsOnto DEF Lists
<1>3. \A t \in S : \E k \in 1 .. n : a[k] = t
  <2> SUFFICES ASSUME NEW t \in S PROVE \E k \in 1 .. n : a[k] = t
    OBVIOUS
  <2> DEFINE k == Rank(R, S, t) + 1
  <2>1. k \in 1 .. n /\ Rank(R, S, t) \in Nat
    BY RankRange
  <2>2. a[k] \in S /\ Rank(R, S, a[k]) = k - 1
    BY <1>2, <2>1
  <2>3. k - 1 = Rank(R, S, t)
    BY <2>1
  <2>4. ~(Rank(R, S, a[k]) < Rank(R, S, t)) /\ ~(Rank(R, S, t) < Rank(R, S, a[k]))
    BY <2>1, <2>2, <2>3
  <2>5. <<a[k], t>> \notin R /\ <<t, a[k]>> \notin R
    BY <2>2, <2>4, RankGrows
  <2>6. a[k] = t
    BY <2>2, <2>5 DEF IsOrder
  <2> QED BY <2>1, <2>6
<1>4. DOMAIN a = 1 .. n
    BY DEF Lists
<1>5. Range(a) = S
    BY <1>2, <1>3, <1>4 DEF Range
<1>6. a \in [1 .. n -> S]
    BY <1>2 DEF Lists
<1> HIDE DEF n
<1>7. a \in Seq(S)
    BY <1>1, <1>6, SeqDef
<1>0. Len(a) = n
    BY <1>1, <1>4, <1>7, LenProperties
<1>8. ASSUME NEW k \in 1 .. n, NEW l \in 1 .. n, k < l PROVE <<a[k], a[l]>> \in R
  <2>1. Rank(R, S, a[k]) = k - 1 /\ Rank(R, S, a[l]) = l - 1 /\ a[k] \in S /\ a[l] \in S
    BY <1>2
  <2>2. ~(Rank(R, S, a[l]) < Rank(R, S, a[k])) /\ Rank(R, S, a[l]) # Rank(R, S, a[k])
    BY <1>1, <1>8, <2>1
  <2>3. <<a[l], a[k]>> \notin R /\ a[l] # a[k]
    BY <2>1, <2>2, RankGrows
  <2> QED BY <2>1, <2>3 DEF IsOrder
<1>9. ASSUME NEW k \in 1 .. n, NEW l \in 1 .. n, a[k] = a[l] PROVE k = l
  <2>1. k \in Int /\ l \in Int /\ k - 1 = l - 1
    BY <1>1, <1>2, <1>9
  <2> QED BY <2>1
<1> QED BY <1>0, <1>1, <1>4, <1>5, <1>7, <1>8, <1>9 DEF n
-----------------------------------------------------------------------------
(* Folds over a list, from its first element on *)

LastOne(n) == [K \in SUBSET (1 .. n) |-> Max(K)]

LEMMA LastOneIs ==
    ASSUME NEW n \in Nat
    PROVE  /\ Chooses(LastOne(n), 1 .. n) /\ IsFiniteSet(1 .. n)
           /\ 1 .. 0 = {}
           /\ \A k \in 1 .. n : /\ Max(1 .. k) = k /\ (1 .. k) \ {k} = 1 .. (k - 1)
                                /\ 1 .. k \in SUBSET (1 .. n) /\ 1 .. k # {}
           /\ \A K \in SUBSET (1 .. n) : K # {} => Max(K) \in K
<1>1. ASSUME NEW K \in SUBSET (1 .. n), K # {} PROVE Max(K) \in K
  <2> DEFINE D == {n - k : k \in K}
  <2>1. D \subseteq Nat /\ D # {}
    <3>1. \A k \in K : k \in 1 .. n /\ n - k \in Nat
      OBVIOUS
    <3> QED BY <1>1, <3>1
  <2>2. PICK d \in D : \A e \in D : d <= e
    <3> HIDE DEF D
    <3> QED BY <2>1, LeastNumber
  <2>3. PICK k \in K : d = n - k
    OBVIOUS
  <2>4. \A l \in K : k >= l
    <3> SUFFICES ASSUME NEW l \in K PROVE k >= l
      OBVIOUS
    <3>1. n - l \in D
      OBVIOUS
    <3>2. d <= n - l
      BY <2>2, <3>1
    <3>3. k \in Int /\ l \in Int
      OBVIOUS
    <3> QED BY <2>3, <3>2, <3>3
  <2> QED BY <2>4 DEF Max
<1>2. IsFiniteSet(1 .. n)
    BY FS_Interval
<1>3. ASSUME NEW k \in 1 .. n
      PROVE  /\ Max(1 .. k) = k /\ (1 .. k) \ {k} = 1 .. (k - 1)
             /\ 1 .. k \in SUBSET (1 .. n) /\ 1 .. k # {}
  <2>1. k \in 1 .. k /\ 1 .. k \in SUBSET (1 .. n)
    OBVIOUS
  <2>2. \A l \in 1 .. k : (\A m \in 1 .. k : l >= m) => l = k
    BY <2>1
  <2>3. \A m \in 1 .. k : k >= m
    OBVIOUS
  <2>4. Max(1 .. k) = k
    BY <2>1, <2>2, <2>3 DEF Max
  <2> QED BY <2>1, <2>4
<1>4. Chooses(LastOne(n), 1 .. n)
    BY <1>1 DEF Chooses, LastOne
<1> QED BY <1>1, <1>2, <1>3, <1>4

IsRun(g, n, base, step) ==
    /\ g = [K \in SUBSET (1 .. n) |-> g[K]]
    /\ \A K \in SUBSET (1 .. n) : g[K] = IF K = {} THEN base ELSE step[Max(K)][g[K \ {Max(K)}]]

\* A fold with values in V exists for any steps in V.
LEMMA RunExists ==
    ASSUME NEW n \in Nat, NEW V, NEW base, base \in V, NEW step,
           \A k \in 1 .. n : \A v \in V : step[k][v] \in V
    PROVE  \E g : IsRun(g, n, base, step) /\ \A K \in SUBSET (1 .. n) : g[K] \in V
<1>1. Chooses(LastOne(n), 1 .. n) /\ IsFiniteSet(1 .. n)
    BY LastOneIs
<1>2. PICK g : IsFold(g, 1 .. n, base, LastOne(n), step)
    BY <1>1, FoldExists
<1>3. \A K \in SUBSET (1 .. n) : g[K] \in V
    BY <1>1, <1>2, FoldStays
<1>4. g = [K \in SUBSET (1 .. n) |-> g[K]]
    BY <1>2 DEF IsFold
<1>5. ASSUME NEW K \in SUBSET (1 .. n)
      PROVE  g[K] = IF K = {} THEN base ELSE step[Max(K)][g[K \ {Max(K)}]]
  <2>1. LastOne(n)[K] = Max(K)
    BY DEF LastOne
  <2>2. CASE K = {}
    BY <1>2, <2>2 DEF IsFold
  <2>3. CASE K # {}
    BY <1>2, <2>1, <2>3 DEF IsFold
  <2> QED BY <2>2, <2>3
<1>6. IsRun(g, n, base, step)
    BY <1>4, <1>5 DEF IsRun
<1> QED BY <1>3, <1>6
-----------------------------------------------------------------------------
(* The trades of a journal *)

Columns == {"id", "opened", "closed", "symbol", "side", "lot", "raw", "commission", "swap",
            "entry", "exit", "sl", "tp", "known", "bundle", "flag"}

IsTrade(t) ==
    /\ DOMAIN t = Columns
    /\ t.id \in Nat /\ t.opened \in Nat /\ t.closed \in Nat

\* A set of trades with an id each, of which a journal may consist.
Proper(T) ==
    /\ IsFiniteSet(T)
    /\ \A t \in T : IsTrade(t)
    /\ \A t, u \in T : t.id = u.id => t = u

LEMMA TradeOfRow ==
    ASSUME NEW i \in Ids
    PROVE  IsTrade(Trade(i)) /\ Trade(i).id = i
<1>1. Data[i] \in TradeRecords /\ Data[i].id = i /\ i \in Nat
    BY ReviewAssumption
<1>2. DOMAIN Data[i] = Columns /\ Data[i].opened \in Nat /\ Data[i].closed \in Nat
    BY <1>1 DEF TradeRecords, Columns
<1>3. DOMAIN Trade(i) = Columns
    BY <1>2 DEF Trade
<1>4. Trade(i).id = i /\ Trade(i).opened = Data[i].opened
    BY <1>1, <1>2 DEF Trade, Columns
<1>5. Trade(i).closed \in Nat
    BY <1>2 DEF Trade, Columns, Nil
<1> QED BY <1>1, <1>2, <1>3, <1>4, <1>5 DEF IsTrade

LEMMA ImageIsFinite ==
    ASSUME NEW S, IsFiniteSet(S), NEW f, DOMAIN f = S
    PROVE  IsFiniteSet({f[x] : x \in S})
<1> DEFINE T == {f[x] : x \in S}
           g == [x \in S |-> f[x]]
<1>1. g \in Surjection(S, T)
    BY DEF Surjection
<1> QED BY <1>1, FS_Surjection

LEMMA PartIsProper ==
    ASSUME NEW T, Proper(T), NEW S \in SUBSET T
    PROVE  Proper(S)
BY FS_Subset DEF Proper

LEMMA JournalIsProper == Proper(Journal) /\ \A t \in Journal : t.id \in Ids /\ t = Trade(t.id)
<1> DEFINE S == {j \in Ids : row[j] # "none"}
           f == [j \in S |-> Trade(j)]
<1>1. IsFiniteSet(S)
  <2>1. S \subseteq Ids /\ IsFiniteSet(Ids)
    BY ReviewAssumption
  <2> HIDE DEF S
  <2> QED BY <2>1, FS_Subset
<1>2. Journal = {f[j] : j \in S} /\ DOMAIN f = S
    BY DEF Journal
<1>3. IsFiniteSet(Journal)
  <2> HIDE DEF f, S
  <2> QED BY <1>1, <1>2, ImageIsFinite
<1>4. \A t \in Journal : IsTrade(t) /\ t.id \in Ids /\ t = Trade(t.id)
    BY TradeOfRow DEF Journal
<1>5. \A t, u \in Journal : t.id = u.id => t = u
    BY <1>4
<1> QED BY <1>3, <1>4, <1>5 DEF Proper

LEMMA ClosedIsProper == Proper(AllClosed) /\ AllClosed \subseteq Journal
BY JournalIsProper, PartIsProper DEF AllClosed
-----------------------------------------------------------------------------
(* Trades in the order of their close *)

LEMMA ByCloseOrders ==
    ASSUME NEW t, NEW u, IsTrade(t), IsTrade(u)
    PROVE  /\ ~ByClose(t, t)
           /\ ByClose(t, u) => ~ByClose(u, t)
           /\ t.id # u.id => ByClose(t, u) \/ ByClose(u, t)
           /\ \A v : IsTrade(v) /\ ByClose(t, u) /\ ByClose(u, v) => ByClose(t, v)
BY DEF IsTrade, ByClose

\* A list of trades, each closed before the next.
Sorted(s) ==
    /\ s \in Seq(Range(s)) /\ Len(s) \in Nat /\ DOMAIN s = 1 .. Len(s)
    /\ \A k \in 1 .. Len(s) : IsTrade(s[k])
    /\ \A k, l \in 1 .. Len(s) : k < l => ByClose(s[k], s[l])

LEMMA InOrderSorts ==
    ASSUME NEW S, Proper(S)
    PROVE  /\ Sorted(InOrder(S)) /\ InOrder(S) \in Seq(S)
           /\ Len(InOrder(S)) = Cardinality(S) /\ Range(InOrder(S)) = S
<1> DEFINE R == {p \in S \X S : ByClose(p[1], p[2])}
           s == InOrder(S)
<1>1. \A t, u \in S : <<t, u>> \in R <=> ByClose(t, u)
    OBVIOUS
<1> HIDE DEF R
<1>2. IsFiniteSet(S) /\ IsOrder(R, S)
    BY <1>1, ByCloseOrders DEF IsOrder, Proper
<1>3. Lists(s, R, S)
  <2>1. \A t \in S : Rank(R, S, t) = Cardinality({u \in S : ByClose(u, t)})
    <3> SUFFICES ASSUME NEW t \in S
                 PROVE  Rank(R, S, t) = Cardinality({u \in S : ByClose(u, t)})
      OBVIOUS
    <3>1. {u \in S : <<u, t>> \in R} = {u \in S : ByClose(u, t)}
      BY <1>1
    <3> QED BY <3>1 DEF Rank
  <2>2. \A k \in 1 .. Cardinality(S) :
          s[k] = CHOOSE t \in S : Cardinality({u \in S : ByClose(u, t)}) = k - 1
    BY DEF InOrder, Arranged
  <2> DEFINE at(k) == CHOOSE t \in S : Cardinality({u \in S : ByClose(u, t)}) = k - 1
  <2>0. s = [k \in 1 .. Cardinality(S) |-> at(k)]
    BY DEF InOrder, Arranged
  <2>3. s = [k \in 1 .. Cardinality(S) |-> s[k]]
    <3> HIDE DEF at, s
    <3> QED BY <2>0
  <2>4. ASSUME NEW k \in 1 .. Cardinality(S), \E t \in S : Rank(R, S, t) = k - 1
        PROVE  s[k] \in S /\ Rank(R, S, s[k]) = k - 1
    BY <2>1, <2>2, <2>4
  <2> QED BY <2>3, <2>4 DEF Lists
<1> HIDE DEF s
<1>4. /\ s \in Seq(S) /\ Len(s) = Cardinality(S) /\ Len(s) \in Nat
      /\ DOMAIN s = 1 .. Len(s) /\ Range(s) = S
      /\ \A k, l \in 1 .. Len(s) : k < l => <<s[k], s[l]>> \in R
    BY <1>2, <1>3, ListInOrder
<1>5. \A k \in 1 .. Len(s) : s[k] \in S
    BY <1>4, ElementOfSeq
<1>6. Sorted(s)
    BY <1>1, <1>4, <1>5 DEF Sorted, Proper
<1> QED BY <1>4, <1>6 DEF s

LEMMA CutIsSorted ==
    ASSUME NEW s, Sorted(s), NEW m \in Nat \ {0}, NEW n \in Nat, n <= Len(s)
    PROVE  LET q == SubSeq(s, m, n) IN
           /\ Sorted(q) /\ Range(q) \subseteq Range(s)
           /\ Len(q) = IF m <= n THEN n - m + 1 ELSE 0
           /\ \A k \in 1 .. Len(q) : q[k] = s[m + k - 1]
<1> DEFINE q == SubSeq(s, m, n)
           S == Range(s)
<1>1. s \in Seq(S) /\ Len(s) \in Nat
    BY DEF Sorted
<1>2. \A k \in m .. n : s[k] \in S
    BY <1>1, ElementOfSeq
<1>3. /\ q \in Seq(S)
      /\ Len(q) = IF m <= n THEN n - m + 1 ELSE 0
      /\ \A k \in 1 .. n - m + 1 : q[k] = s[m + k - 1]
  <2> HIDE DEF S
  <2> QED BY <1>2, SubSeqProperties
<1> HIDE DEF q
<1>4. Len(q) \in Nat /\ DOMAIN q = 1 .. Len(q) /\ q \in Seq(Range(q))
    BY <1>3, LenProperties, SeqOfRange
<1>5. ASSUME NEW k \in 1 .. Len(q)
      PROVE  q[k] = s[m + k - 1] /\ m + k - 1 \in 1 .. Len(s)
  <2>1. m <= n /\ Len(q) = n - m + 1 /\ k \in 1 .. n - m + 1
    BY <1>3
  <2>2. q[k] = s[m + k - 1]
    BY <1>3, <2>1
  <2>3. m + k - 1 \in 1 .. Len(s)
    BY <1>1, <2>1
  <2> QED BY <2>2, <2>3
<1>6. Sorted(q)
  <2>1. \A k \in 1 .. Len(q) : IsTrade(q[k])
    BY <1>5 DEF Sorted
  <2>2. ASSUME NEW k \in 1 .. Len(q), NEW l \in 1 .. Len(q), k < l
        PROVE  ByClose(q[k], q[l])
    <3>1. m + k - 1 < m + l - 1
      BY <1>4, <2>2
    <3> QED BY <1>5, <3>1 DEF Sorted
  <2> QED BY <1>4, <2>1, <2>2 DEF Sorted
<1>7. Range(q) \subseteq S
    BY <1>3, RangeOfSeq
<1> QED BY <1>3, <1>5, <1>6, <1>7 DEF q

LEMMA FirstOnes ==
    ASSUME NEW s, Sorted(s), NEW n \in Nat \ {0}
    PROVE  /\ Sorted(FirstN(s, n)) /\ Range(FirstN(s, n)) \subseteq Range(s)
           /\ FirstN(s, n) = s \/ Len(FirstN(s, n)) = n
           /\ s # <<>> => FirstN(s, n) # <<>>
<1>1. Len(s) \in Nat /\ s \in Seq(Range(s))
    BY DEF Sorted
<1>2. CASE Len(s) < n
  <2>1. FirstN(s, n) = s
    BY <1>1, <1>2, SubSeqFull DEF FirstN
  <2> QED BY <2>1
<1>3. CASE ~(Len(s) < n)
  <2>1. FirstN(s, n) = SubSeq(s, 1, n)
    BY <1>3 DEF FirstN
  <2>2. /\ Sorted(SubSeq(s, 1, n)) /\ Range(SubSeq(s, 1, n)) \subseteq Range(s)
        /\ Len(SubSeq(s, 1, n)) = n
    BY <1>1, <1>3, CutIsSorted
  <2>3. SubSeq(s, 1, n) # <<>>
    BY <2>2, EmptySeq
  <2> QED BY <2>1, <2>2, <2>3
<1> QED BY <1>2, <1>3

LEMMA LastOnes ==
    ASSUME NEW s, Sorted(s), NEW n \in Nat \ {0}
    PROVE  Sorted(LastN(s, n))
<1>1. Len(s) \in Nat
    BY DEF Sorted
<1> DEFINE m == (IF Len(s) < n THEN 0 ELSE Len(s) - n) + 1
<1>2. m \in Nat \ {0}
    BY <1>1
<1>3. LastN(s, n) = SubSeq(s, m, Len(s))
    BY DEF LastN
<1> HIDE DEF m
<1> QED BY <1>1, <1>2, <1>3, CutIsSorted

LEMMA OneIsSorted == ASSUME NEW t, IsTrade(t) PROVE Sorted(<<t>>) /\ Range(<<t>>) = {t}
BY DEF Sorted, Range

LEMMA NoneIsSorted == Sorted(<<>>) /\ Range(<<>>) = {}
<1>1. Len(<<>>) = 0 /\ DOMAIN <<>> = 1 .. 0
    BY EmptySeq, LenProperties
<1> QED BY <1>1, EmptySeq DEF Sorted, Range

\* The trade of T that closed last.
LEMMA LastCloses ==
    ASSUME NEW T, Proper(T), T # {}
    PROVE  \E t \in T : \A u \in T : u = t \/ ByClose(u, t)
<1> DEFINE s == InOrder(T)
           n == Len(s)
<1>1. Sorted(s) /\ Range(s) = T
    BY InOrderSorts
<1> HIDE DEF s
<1>2. n \in Nat /\ DOMAIN s = 1 .. n /\ \A k, l \in 1 .. n : k < l => ByClose(s[k], s[l])
    BY <1>1 DEF Sorted
<1>3. T = {s[k] : k \in 1 .. n}
    BY <1>1, <1>2 DEF Range
<1>4. n \in 1 .. n
    BY <1>2, <1>3
<1> HIDE DEF n
<1>5. \A u \in T : u = s[n] \/ ByClose(u, s[n])
  <2> SUFFICES ASSUME NEW k \in 1 .. n PROVE s[k] = s[n] \/ ByClose(s[k], s[n])
    BY <1>3
  <2>1. k = n \/ k < n
    BY <1>2
  <2> QED BY <1>2, <1>4, <2>1
<1>6. s[n] \in T
    BY <1>3, <1>4
<1> QED BY <1>5, <1>6

LEMMA LastOfIsThere == ASSUME NEW T, Proper(T), T # {} PROVE LastOf(T) \in T
BY LastCloses DEF LastOf

LEMMA LastClosedIsThere == ASSUME NEW g, Proper(g), g # {} PROVE LastClosed(g) \in g
<1>1. PICK t \in g : \A u \in g : u = t \/ ByClose(u, t)
    BY LastCloses
<1>2. \A u \in g : u.closed < t.closed \/ (u.closed = t.closed /\ u.id <= t.id)
    BY <1>1 DEF ByClose, Proper, IsTrade
<1> QED BY <1>2 DEF LastClosed

\* Some trade of T has the least number of a column.
LEMMA LeastColumn ==
    ASSUME NEW T, T # {}, NEW c, \A t \in T : t[c] \in Nat
    PROVE  \E t \in T : \A u \in T : t[c] <= u[c]
<1> DEFINE S == {t[c] : t \in T}
<1>1. S \subseteq Nat /\ S # {}
    OBVIOUS
<1> HIDE DEF S
<1>3. PICK x \in S : \A y \in S : x <= y
    BY <1>1, LeastNumber
<1>4. PICK t \in T : x = t[c]
    BY DEF S
<1>5. \A u \in T : u[c] \in S
    BY DEF S
<1> QED BY <1>3, <1>4, <1>5

LEMMA FirstOfIsThere == ASSUME NEW g, Proper(g), g # {} PROVE FirstOf(g) \in g
<1>1. PICK a \in g : \A u \in g : a.opened <= u.opened
    BY LeastColumn DEF Proper, IsTrade
<1> DEFINE A == {u \in g : u.opened = a.opened}
<1>2. PICK b \in A : \A u \in A : b.closed <= u.closed
    BY LeastColumn DEF Proper, IsTrade
<1> DEFINE B == {u \in A : u.closed = b.closed}
<1>3. PICK t \in B : \A u \in B : t.id <= u.id
    BY LeastColumn DEF Proper, IsTrade
<1>4. \A u \in g : u = t \/ Before(t, u)
  <2> SUFFICES ASSUME NEW u \in g, u # t PROVE Before(t, u)
    OBVIOUS
  <2>1. /\ t.opened \in Nat /\ u.opened \in Nat /\ t.closed \in Nat /\ u.closed \in Nat
        /\ t.id \in Nat /\ u.id \in Nat /\ t.id # u.id
    BY DEF Proper, IsTrade
  <2>2. t.opened <= u.opened
    BY <1>1
  <2>3. t.opened = u.opened => t.closed <= u.closed
    BY <1>2
  <2>4. t.opened = u.opened /\ t.closed = u.closed => t.id <= u.id
    BY <1>3
  <2> QED BY <2>1, <2>2, <2>3, <2>4 DEF Before
<1> QED BY <1>4 DEF FirstOf
-----------------------------------------------------------------------------
(* Bundles and ideas *)

\* A merged trade keeps the bundle and the entry of its members; it is closed
\* once they all are, together with one of them.
LEMMA OneTradeFacts ==
    ASSUME NEW g, Proper(g), g # {}, NEW b, \A v \in g : v.bundle = b
    PROVE  LET o == OneTrade(g) IN
           /\ IsTrade(o) /\ o.bundle = b /\ \E w \in g : o.id = w.id
           /\ o.closed # Nil => \A v \in g : v.closed # Nil
           /\ o.closed # Nil => \E v \in g : v.closed = o.closed
<1> DEFINE done == {t \in g : t.closed # Nil}
           closed == IF done = g THEN LastClosed(g).closed ELSE Nil
           exit == IF done = g THEN LastClosed(g).exit ELSE Nil
           known == done = g
           raw == Total({t \in done : t.known}, LAMBDA t : t.raw)
           commission == Total(g, LAMBDA t : t.commission)
           swap == Total(g, LAMBDA t : t.swap)
           lot == Total(g, LAMBDA t : t.lot)
           f == FirstOf(g)
           o == OneTrade(g)
<1>1. o = [f EXCEPT !.closed = closed, !.exit = exit, !.known = known, !.raw = raw,
                    !.commission = commission, !.swap = swap, !.lot = lot]
    BY DEF OneTrade
<1>2. f \in g /\ LastClosed(g) \in g
    BY FirstOfIsThere, LastClosedIsThere
<1>3. closed \in Nat /\ (closed # Nil => done = g) /\ (closed # Nil => closed = LastClosed(g).closed)
    BY <1>2 DEF Proper, IsTrade, Nil
<1> HIDE DEF closed, exit, known, raw, commission, swap, lot, f, o
<1>4. DOMAIN f = Columns /\ f.id \in Nat /\ f.opened \in Nat /\ f.bundle = b
    BY <1>2 DEF Proper, IsTrade
<1>5. /\ DOMAIN o = Columns /\ o.id = f.id /\ o.opened = f.opened /\ o.bundle = f.bundle
      /\ o.closed = closed
    BY <1>1, <1>4 DEF Columns
<1>6. IsTrade(o)
    BY <1>3, <1>4, <1>5 DEF IsTrade
<1>7. o.closed # Nil => \A v \in g : v.closed # Nil
    BY <1>3, <1>5
<1> QED BY <1>2, <1>3, <1>4, <1>5, <1>6, <1>7 DEF o

\* What the trade u of T counts as: itself, or the trade its bundle is merged into.
PartsOf(T, u) == IF u.bundle = Nil THEN {u} ELSE {v \in T : v.bundle = u.bundle}
Idea(T, u) == IF u.bundle = Nil THEN u ELSE OneTrade(PartsOf(T, u))

LEMMA MergedIdeas == ASSUME NEW T PROVE Merged(T) = {Idea(T, u) : u \in T}
<1> DEFINE P(u) == {v \in T : v.bundle = u.bundle}
<1>1. Bundles(T) = {P(u) : u \in {v \in T : v.bundle # Nil}}
    BY DEF Bundles
<1>2. \A u \in T : Idea(T, u) = IF u.bundle = Nil THEN u ELSE OneTrade(P(u))
    BY DEF Idea, PartsOf
<1> HIDE DEF P
<1> QED BY <1>1, <1>2 DEF Merged

LEMMA IdeaFacts ==
    ASSUME NEW T, Proper(T), NEW u \in T
    PROVE  LET t == Idea(T, u) IN
           /\ u \in PartsOf(T, u) /\ PartsOf(T, u) \subseteq T
           /\ IsTrade(t) /\ t.bundle = u.bundle
           /\ \E w \in PartsOf(T, u) : t.id = w.id
           /\ t.closed # Nil => \A v \in PartsOf(T, u) : v.closed # Nil
           /\ t.closed # Nil => \E v \in PartsOf(T, u) : v.closed = t.closed
           /\ \A v \in PartsOf(T, u) : PartsOf(T, v) = PartsOf(T, u) /\ Idea(T, v) = t
<1>1. u \in PartsOf(T, u) /\ PartsOf(T, u) \subseteq T
      /\ \A v \in PartsOf(T, u) : v.bundle = u.bundle
    BY DEF PartsOf
<1>2. \A v \in PartsOf(T, u) : PartsOf(T, v) = PartsOf(T, u) /\ Idea(T, v) = Idea(T, u)
    BY DEF PartsOf, Idea
<1>3. Proper(PartsOf(T, u))
    BY <1>1, PartIsProper
<1>4. CASE u.bundle = Nil
    BY <1>1, <1>2, <1>3, <1>4 DEF Idea, PartsOf, Proper
<1>5. CASE u.bundle # Nil
  <2>1. Idea(T, u) = OneTrade(PartsOf(T, u))
    BY <1>5 DEF Idea
  <2> DEFINE g == PartsOf(T, u)
             o == OneTrade(g)
  <2>2. Proper(g) /\ g # {} /\ \A v \in g : v.bundle = u.bundle
    BY <1>1, <1>3
  <2> HIDE DEF g
  <2>3. /\ IsTrade(o) /\ o.bundle = u.bundle /\ \E w \in g : o.id = w.id
        /\ o.closed # Nil => \A v \in g : v.closed # Nil
        /\ o.closed # Nil => \E v \in g : v.closed = o.closed
    BY <2>2, OneTradeFacts
  <2> QED BY <1>1, <1>2, <2>1, <2>3 DEF g
<1> QED BY <1>4, <1>5

LEMMA MergedIsProper == ASSUME NEW T, Proper(T) PROVE Proper(Merged(T))
<1> DEFINE f == [u \in T |-> Idea(T, u)]
<1>1. Merged(T) = {f[u] : u \in T} /\ DOMAIN f = T
    BY MergedIdeas
<1>2. IsFiniteSet(T)
    BY DEF Proper
<1> HIDE DEF f
<1>3. IsFiniteSet(Merged(T))
    BY <1>1, <1>2, ImageIsFinite
<1>4. \A t \in Merged(T) : IsTrade(t)
    BY MergedIdeas, IdeaFacts
<1>5. ASSUME NEW u \in T, NEW v \in T, Idea(T, u).id = Idea(T, v).id
      PROVE  Idea(T, u) = Idea(T, v)
  <2>1. PICK w \in PartsOf(T, u) : Idea(T, u).id = w.id
    BY IdeaFacts
  <2>2. PICK x \in PartsOf(T, v) : Idea(T, v).id = x.id
    BY IdeaFacts
  <2>3. w \in T /\ x \in T /\ w.id = x.id
    BY <1>5, <2>1, <2>2, IdeaFacts
  <2>4. w = x
    BY <2>3 DEF Proper
  <2>5. Idea(T, w) = Idea(T, u) /\ Idea(T, x) = Idea(T, v)
    BY <2>1, <2>2, IdeaFacts
  <2> QED BY <2>4, <2>5
<1>6. \A t, u \in Merged(T) : t.id = u.id => t = u
    BY <1>5, MergedIdeas
<1> QED BY <1>3, <1>4, <1>6 DEF Proper
-----------------------------------------------------------------------------
(* Totals are sums *)

IsSum(g, S, f) ==
    g = [T \in SUBSET S |-> IF T = {} THEN 0
                            ELSE f[CHOOSE x \in T : TRUE] + g[T \ {CHOOSE x \in T : TRUE}]]

LEMMA SumExists == ASSUME NEW S, NEW f, Amounts(S, f) PROVE \E g : IsSum(g, S, f)
<1> DEFINE c == [T \in SUBSET S |-> CHOOSE x \in T : TRUE]
           step == [x \in S |-> [v \in Int |-> f[x] + v]]
<1>1. Chooses(c, S) /\ IsFiniteSet(S)
    BY DEF Chooses, Amounts
<1>2. \A x \in S : \A v \in Int : step[x][v] = f[x] + v /\ step[x][v] \in Int
    BY DEF Amounts
<1>3. \A T \in SUBSET S : c[T] = CHOOSE x \in T : TRUE
    OBVIOUS
<1> HIDE DEF c, step
<1>4. PICK g : IsFold(g, S, 0, c, step)
    BY <1>1, FoldExists
<1>5. \A T \in SUBSET S : g[T] \in Int
  <2>1. 0 \in Int /\ \A x \in S : \A v \in Int : step[x][v] \in Int
    BY <1>2
  <2> QED BY <1>1, <1>4, <2>1, FoldStays
<1>6. ASSUME NEW T \in SUBSET S
      PROVE  g[T] = IF T = {} THEN 0 ELSE f[CHOOSE x \in T : TRUE] + g[T \ {CHOOSE x \in T : TRUE}]
  <2>1. CASE T = {}
    BY <1>4, <2>1 DEF IsFold
  <2>2. CASE T # {}
    <3>1. c[T] \in S /\ T \ {c[T]} \in SUBSET S
      BY <1>1, <2>2 DEF Chooses
    <3>2. g[T] = step[c[T]][g[T \ {c[T]}]]
      BY <1>4, <2>2 DEF IsFold
    <3>3. g[T] = f[c[T]] + g[T \ {c[T]}]
      BY <1>2, <1>5, <3>1, <3>2
    <3> QED BY <1>3, <2>2, <3>3
  <2> QED BY <2>1, <2>2
<1>7. g = [T \in SUBSET S |-> g[T]]
    BY <1>4 DEF IsFold
<1>8. IsSum(g, S, f)
    BY <1>6, <1>7 DEF IsSum
<1> QED BY <1>8

LEMMA SumGives ==
    ASSUME NEW S, NEW f, Amounts(S, f), NEW g, IsSum(g, S, f)
    PROVE  g[S] = SumOf(S, f)
<1> DEFINE P == {T \in SUBSET S : g[T] \in Int}
           Q == {n \in Nat : \A T \in SUBSET S : Cardinality(T) = n => T \in P}
<1>0. \A T \in SUBSET S : IsFiniteSet(T) /\ Cardinality(T) \in Nat
    BY FS_Subset, FS_CardinalityType DEF Amounts
<1>1. \A T \in SUBSET S : g[T] = IF T = {} THEN 0
                                 ELSE f[CHOOSE x \in T : TRUE] + g[T \ {CHOOSE x \in T : TRUE}]
    BY DEF IsSum
<1>2. ASSUME NEW T \in SUBSET S, T # {}
      PROVE  \E x \in T : g[T] = f[x] + g[T \ {x}]
    BY <1>1, <1>2
<1>3. g[{}] = 0
    BY <1>1
<1>4. 0 \in Q
    BY <1>0, <1>3, FS_EmptySet
<1>5. ASSUME NEW n \in Nat, n \in Q PROVE n + 1 \in Q
  <2> SUFFICES ASSUME NEW T \in SUBSET S, Cardinality(T) = n + 1 PROVE g[T] \in Int
    OBVIOUS
  <2>1. T # {}
    <3>1. n + 1 # 0 /\ Cardinality({}) = 0
      BY FS_EmptySet
    <3> QED BY <3>1
  <2>2. PICK x \in T : g[T] = f[x] + g[T \ {x}]
    BY <1>2, <2>1
  <2>3. Cardinality(T \ {x}) = n
    <3>1. Cardinality(T \ {x}) = Cardinality(T) - 1
      BY <1>0, FS_RemoveElement
    <3> QED BY <3>1
  <2>4. T \ {x} \in P /\ f[x] \in Int
    BY <1>5, <2>3 DEF Amounts
  <2> QED BY <2>2, <2>4
<1> HIDE DEF Q
<1>6. Nat \subseteq Q
    BY <1>4, <1>5, Numbers
<1>7. \A T \in SUBSET S : g[T] \in Int
    BY <1>0, <1>6 DEF Q
<1>8. g = [T \in SUBSET S |-> g[T]]
    BY DEF IsSum
<1>9. Adds(S, f, g)
    BY <1>2, <1>3, <1>7, <1>8 DEF Adds
<1> QED BY <1>9, SumIs

Nets(S) == [x \in S |-> Net(x)]

LEMMA TotalNet ==
    ASSUME NEW S, Amounts(S, Nets(S))
    PROVE  Total(S, Net) = SumOf(S, Nets(S))
<1> DEFINE g == CHOOSE g :
               g = [T \in SUBSET S |-> IF T = {} THEN 0
                                       ELSE Net(CHOOSE x \in T : TRUE) + g[T \ {CHOOSE x \in T : TRUE}]]
<1>1. Total(S, Net) = g[S]
    BY DEF Total, MapThenSumSet, MapThenFoldSet
<1>2. \A T \in SUBSET S : T # {} => Net(CHOOSE x \in T : TRUE) = Nets(S)[CHOOSE x \in T : TRUE]
    BY DEF Nets
<1>3. PICK h : IsSum(h, S, Nets(S))
    BY SumExists
<1>4. h = [T \in SUBSET S |-> IF T = {} THEN 0
                              ELSE Net(CHOOSE x \in T : TRUE) + h[T \ {CHOOSE x \in T : TRUE}]]
    BY <1>2, <1>3 DEF IsSum
<1>5. g = [T \in SUBSET S |-> IF T = {} THEN 0
                              ELSE Net(CHOOSE x \in T : TRUE) + g[T \ {CHOOSE x \in T : TRUE}]]
    BY <1>4
<1> HIDE DEF g
<1>6. IsSum(g, S, Nets(S))
    BY <1>2, <1>5 DEF IsSum
<1> QED BY <1>1, <1>6, SumGives

Raws(S) == [x \in S |-> x.raw]

LEMMA TotalRaw ==
    ASSUME NEW S, Amounts(S, Raws(S))
    PROVE  Total(S, LAMBDA t : t.raw) = SumOf(S, Raws(S))
<1> DEFINE g == CHOOSE g :
               g = [T \in SUBSET S |-> IF T = {} THEN 0
                                       ELSE (CHOOSE x \in T : TRUE).raw + g[T \ {CHOOSE x \in T : TRUE}]]
<1>1. Total(S, LAMBDA t : t.raw) = g[S]
    BY DEF Total, MapThenSumSet, MapThenFoldSet
<1>2. \A T \in SUBSET S : T # {} => (CHOOSE x \in T : TRUE).raw = Raws(S)[CHOOSE x \in T : TRUE]
    BY DEF Raws
<1>3. PICK h : IsSum(h, S, Raws(S))
    BY SumExists
<1>4. h = [T \in SUBSET S |-> IF T = {} THEN 0
                              ELSE (CHOOSE x \in T : TRUE).raw + h[T \ {CHOOSE x \in T : TRUE}]]
    BY <1>2, <1>3 DEF IsSum
<1>5. g = [T \in SUBSET S |-> IF T = {} THEN 0
                              ELSE (CHOOSE x \in T : TRUE).raw + g[T \ {CHOOSE x \in T : TRUE}]]
    BY <1>4
<1> HIDE DEF g
<1>6. IsSum(g, S, Raws(S))
    BY <1>2, <1>5 DEF IsSum
<1> QED BY <1>1, <1>6, SumGives

Commissions(S) == [x \in S |-> x.commission]

LEMMA TotalCommission ==
    ASSUME NEW S, Amounts(S, Commissions(S))
    PROVE  Total(S, LAMBDA t : t.commission) = SumOf(S, Commissions(S))
<1> DEFINE g == CHOOSE g :
               g = [T \in SUBSET S |-> IF T = {} THEN 0
                                       ELSE (CHOOSE x \in T : TRUE).commission + g[T \ {CHOOSE x \in T : TRUE}]]
<1>1. Total(S, LAMBDA t : t.commission) = g[S]
    BY DEF Total, MapThenSumSet, MapThenFoldSet
<1>2. \A T \in SUBSET S : T # {} => (CHOOSE x \in T : TRUE).commission = Commissions(S)[CHOOSE x \in T : TRUE]
    BY DEF Commissions
<1>3. PICK h : IsSum(h, S, Commissions(S))
    BY SumExists
<1>4. h = [T \in SUBSET S |-> IF T = {} THEN 0
                              ELSE (CHOOSE x \in T : TRUE).commission + h[T \ {CHOOSE x \in T : TRUE}]]
    BY <1>2, <1>3 DEF IsSum
<1>5. g = [T \in SUBSET S |-> IF T = {} THEN 0
                              ELSE (CHOOSE x \in T : TRUE).commission + g[T \ {CHOOSE x \in T : TRUE}]]
    BY <1>4
<1> HIDE DEF g
<1>6. IsSum(g, S, Commissions(S))
    BY <1>2, <1>5 DEF IsSum
<1> QED BY <1>1, <1>6, SumGives

Swaps(S) == [x \in S |-> x.swap]

LEMMA TotalSwap ==
    ASSUME NEW S, Amounts(S, Swaps(S))
    PROVE  Total(S, LAMBDA t : t.swap) = SumOf(S, Swaps(S))
<1> DEFINE g == CHOOSE g :
               g = [T \in SUBSET S |-> IF T = {} THEN 0
                                       ELSE (CHOOSE x \in T : TRUE).swap + g[T \ {CHOOSE x \in T : TRUE}]]
<1>1. Total(S, LAMBDA t : t.swap) = g[S]
    BY DEF Total, MapThenSumSet, MapThenFoldSet
<1>2. \A T \in SUBSET S : T # {} => (CHOOSE x \in T : TRUE).swap = Swaps(S)[CHOOSE x \in T : TRUE]
    BY DEF Swaps
<1>3. PICK h : IsSum(h, S, Swaps(S))
    BY SumExists
<1>4. h = [T \in SUBSET S |-> IF T = {} THEN 0
                              ELSE (CHOOSE x \in T : TRUE).swap + h[T \ {CHOOSE x \in T : TRUE}]]
    BY <1>2, <1>3 DEF IsSum
<1>5. g = [T \in SUBSET S |-> IF T = {} THEN 0
                              ELSE (CHOOSE x \in T : TRUE).swap + g[T \ {CHOOSE x \in T : TRUE}]]
    BY <1>4
<1> HIDE DEF g
<1>6. IsSum(g, S, Swaps(S))
    BY <1>2, <1>5 DEF IsSum
<1> QED BY <1>1, <1>6, SumGives

FlowAmounts(S) == [x \in S |-> x.amount]

LEMMA TotalFlow ==
    ASSUME NEW S, Amounts(S, FlowAmounts(S))
    PROVE  Total(S, LAMBDA f : f.amount) = SumOf(S, FlowAmounts(S))
<1> DEFINE g == CHOOSE g :
               g = [T \in SUBSET S |-> IF T = {} THEN 0
                                       ELSE (CHOOSE x \in T : TRUE).amount + g[T \ {CHOOSE x \in T : TRUE}]]
<1>1. Total(S, LAMBDA f : f.amount) = g[S]
    BY DEF Total, MapThenSumSet, MapThenFoldSet
<1>2. \A T \in SUBSET S : T # {} => (CHOOSE x \in T : TRUE).amount = FlowAmounts(S)[CHOOSE x \in T : TRUE]
    BY DEF FlowAmounts
<1>3. PICK h : IsSum(h, S, FlowAmounts(S))
    BY SumExists
<1>4. h = [T \in SUBSET S |-> IF T = {} THEN 0
                              ELSE (CHOOSE x \in T : TRUE).amount + h[T \ {CHOOSE x \in T : TRUE}]]
    BY <1>2, <1>3 DEF IsSum
<1>5. g = [T \in SUBSET S |-> IF T = {} THEN 0
                              ELSE (CHOOSE x \in T : TRUE).amount + g[T \ {CHOOSE x \in T : TRUE}]]
    BY <1>4
<1> HIDE DEF g
<1>6. IsSum(g, S, FlowAmounts(S))
    BY <1>2, <1>5 DEF IsSum
<1> QED BY <1>1, <1>6, SumGives
-----------------------------------------------------------------------------
(* Money and prices of a trade and of a merged one *)

Priced(t) ==
    /\ IsTrade(t)
    /\ t.raw \in Int /\ t.commission \in Int /\ t.swap \in Int /\ t.known \in BOOLEAN
    /\ t.entry \in Nat /\ t.exit \in Nat /\ t.sl \in Nat /\ t.tp \in Nat

LEMMA PricedRow == ASSUME NEW i \in Ids PROVE Priced(Trade(i))
<1>1. Data[i] \in TradeRecords
    BY ReviewAssumption
<1> DEFINE d == Data[i]
<1>2. /\ DOMAIN d = Columns /\ d.raw \in Int /\ d.commission \in Int /\ d.swap \in Int
      /\ d.entry \in Nat /\ d.exit \in Nat /\ d.sl \in Nat /\ d.tp \in Nat
    BY <1>1 DEF TradeRecords, Columns
<1> DEFINE t == Trade(i)
<1>3. /\ t.raw = d.raw /\ t.commission = d.commission /\ t.swap = d.swap
      /\ t.entry = d.entry /\ t.sl = d.sl /\ t.tp = d.tp
    BY <1>2 DEF Trade, Columns
<1>4. t.exit = (IF row[i] \in {"closed", "exited"} THEN d.exit ELSE Nil)
    BY <1>2 DEF Trade, Columns
<1>5. t.known = (row[i] \in {"closed", "exited"})
    BY <1>2 DEF Trade, Columns
<1>6. t.exit \in Nat /\ t.known \in BOOLEAN
    BY <1>2, <1>4, <1>5 DEF Nil
<1> QED BY <1>2, <1>3, <1>6, TradeOfRow DEF Priced

LEMMA PricedJournal == \A t \in Journal : Priced(t)
BY PricedRow DEF Journal

LEMMA NetIsInt == ASSUME NEW t, Priced(t) PROVE Net(t) \in Int
BY DEF Priced, Net, Abs

LEMMA PricedAmounts ==
    ASSUME NEW S, IsFiniteSet(S), \A t \in S : Priced(t)
    PROVE  /\ Amounts(S, Nets(S)) /\ Amounts(S, Raws(S))
           /\ Amounts(S, Commissions(S)) /\ Amounts(S, Swaps(S))
<1>1. \A t \in S : Net(t) \in Int
    BY NetIsInt
<1> QED BY <1>1 DEF Amounts, Nets, Raws, Commissions, Swaps, Priced

\* The money of a merged trade is that of its members, the raw P&L that of the
\* closed ones; it is known once they are all closed.
LEMMA OneTradeMoney ==
    ASSUME NEW g, Proper(g), g # {}, \A t \in g : Priced(t),
           NEW b, \A v \in g : v.bundle = b
    PROVE  LET o == OneTrade(g)
               counted == {t \in g : t.closed # Nil /\ t.known}
           IN  /\ Priced(o)
               /\ o.known <=> \A t \in g : t.closed # Nil
               /\ o.closed # Nil <=> \A t \in g : t.closed # Nil
               /\ o.closed = Nil => o.exit = Nil
               /\ o.raw = SumOf(counted, Raws(counted))
               /\ o.commission = SumOf(g, Commissions(g))
               /\ o.swap = SumOf(g, Swaps(g))
<1> DEFINE done == {t \in g : t.closed # Nil}
           counted == {t \in g : t.closed # Nil /\ t.known}
           closed == IF done = g THEN LastClosed(g).closed ELSE Nil
           exit == IF done = g THEN LastClosed(g).exit ELSE Nil
           known == done = g
           raw == Total({t \in done : t.known}, LAMBDA t : t.raw)
           commission == Total(g, LAMBDA t : t.commission)
           swap == Total(g, LAMBDA t : t.swap)
           lot == Total(g, LAMBDA t : t.lot)
           f == FirstOf(g)
           o == OneTrade(g)
<1>1. o = [f EXCEPT !.closed = closed, !.exit = exit, !.known = known, !.raw = raw,
                    !.commission = commission, !.swap = swap, !.lot = lot]
    BY DEF OneTrade
<1>2. f \in g /\ LastClosed(g) \in g
    BY FirstOfIsThere, LastClosedIsThere
<1>3. done = g <=> \A t \in g : t.closed # Nil
    OBVIOUS
<1>4. closed \in Nat /\ exit \in Nat /\ known \in BOOLEAN
    BY <1>2 DEF Priced, IsTrade, Nil
<1>5. {t \in done : t.known} = counted
    OBVIOUS
<1>6. IsFiniteSet(g) /\ IsFiniteSet(counted) /\ counted \subseteq g
    BY FS_Subset DEF Proper
<1>7. /\ Amounts(counted, Raws(counted)) /\ Amounts(g, Commissions(g)) /\ Amounts(g, Swaps(g))
    <2> HIDE DEF counted
    <2>1. \A t \in counted : Priced(t)
      BY <1>6
    <2> QED BY <1>6, <2>1, PricedAmounts
<1>8. raw = SumOf(counted, Raws(counted))
    <2>1. Total(counted, LAMBDA t : t.raw) = SumOf(counted, Raws(counted))
      <3> HIDE DEF counted
      <3> QED BY <1>7, TotalRaw
    <2> QED BY <1>5, <2>1
<1>9. commission = SumOf(g, Commissions(g)) /\ swap = SumOf(g, Swaps(g))
    BY <1>7, TotalCommission, TotalSwap
<1>10. raw \in Int /\ commission \in Int /\ swap \in Int
    BY <1>7, <1>8, <1>9, SumLaws
<1>11. closed # Nil <=> done = g
    BY <1>2 DEF Nil
<1>12. closed = Nil => exit = Nil
    BY <1>11
<1>13. known <=> done = g
    OBVIOUS
<1> HIDE DEF closed, exit, known, raw, commission, swap, lot, f, o
<1>14. DOMAIN f = Columns /\ f.entry \in Nat /\ f.sl \in Nat /\ f.tp \in Nat
    BY <1>2 DEF Priced, IsTrade
<1>15. /\ o.closed = closed /\ o.exit = exit /\ o.known = known /\ o.raw = raw
       /\ o.commission = commission /\ o.swap = swap
       /\ o.entry = f.entry /\ o.sl = f.sl /\ o.tp = f.tp
    BY <1>1, <1>14 DEF Columns
<1>16. IsTrade(o)
    BY OneTradeFacts DEF o
<1>17. Priced(o)
    BY <1>4, <1>10, <1>14, <1>15, <1>16 DEF Priced
<1> HIDE DEF done, counted
<1>18. o.known <=> done = g
    BY <1>13, <1>15
<1>19. o.closed # Nil <=> done = g
    BY <1>11, <1>15
<1>20. o.closed = Nil => o.exit = Nil
    BY <1>12, <1>15
<1>21. /\ o.raw = SumOf(counted, Raws(counted)) /\ o.commission = SumOf(g, Commissions(g))
       /\ o.swap = SumOf(g, Swaps(g))
    BY <1>8, <1>9, <1>15
<1> QED BY <1>3, <1>17, <1>18, <1>19, <1>20, <1>21 DEF o, counted

LEMMA BundlesOf ==
    ASSUME NEW T, Proper(T), NEW g \in Bundles(T)
    PROVE  /\ Proper(g) /\ g # {} /\ g \subseteq T
           /\ \E b : b # Nil /\ g = {u \in T : u.bundle = b}
<1>1. PICK t \in T : t.bundle # Nil /\ g = {u \in T : u.bundle = t.bundle}
    BY DEF Bundles
<1>2. g \subseteq T /\ t \in g
    BY <1>1
<1> QED BY <1>1, <1>2, PartIsProper

LEMMA BundlesAreFinite == ASSUME NEW T, Proper(T) PROVE IsFiniteSet(Bundles(T))
<1> DEFINE S == {v \in T : v.bundle # Nil}
           f == [t \in S |-> {u \in T : u.bundle = t.bundle}]
<1>1. IsFiniteSet(S)
    BY FS_Subset DEF Proper
<1>2. Bundles(T) = {f[t] : t \in S} /\ DOMAIN f = S
    BY DEF Bundles
<1> HIDE DEF f, S
<1> QED BY <1>1, <1>2, ImageIsFinite

LEMMA MergedIsPriced ==
    ASSUME NEW T, Proper(T), \A t \in T : Priced(t)
    PROVE  \A t \in Merged(T) : Priced(t)
<1>1. ASSUME NEW g \in Bundles(T) PROVE Priced(OneTrade(g))
  <2>1. PICK b : b # Nil /\ g = {u \in T : u.bundle = b}
    BY BundlesOf
  <2>2. \A t \in g : Priced(t) /\ t.bundle = b
    BY <2>1
  <2>3. Proper(g) /\ g # {}
    BY BundlesOf
  <2> QED BY <2>2, <2>3, OneTradeMoney
<1> QED BY <1>1 DEF Merged
-----------------------------------------------------------------------------
(* The records in the order of the equity curve *)

LEMMA ByRealizedOrders ==
    ASSUME NEW t, NEW u, IsTrade(t), IsTrade(u)
    PROVE  /\ ~ByRealized(t, t)
           /\ t.id # u.id => ByRealized(t, u) \/ ByRealized(u, t)
           /\ \A v : IsTrade(v) /\ ByRealized(t, u) /\ ByRealized(u, v) => ByRealized(t, v)
<1>1. \A v : IsTrade(v) => Realized(v) \in Nat /\ v.id \in Nat
    BY DEF IsTrade, Realized
<1> QED BY <1>1 DEF ByRealized

\* Every recorded trade is in the list once.
RecordList(T, s) ==
    /\ s \in Seq(Recorded(T)) /\ Len(s) \in Nat /\ DOMAIN s = 1 .. Len(s)
    /\ Range(s) = Recorded(T) /\ IsFiniteSet(Recorded(T))
    /\ \A k, l \in 1 .. Len(s) : s[k] = s[l] => k = l
    /\ \A k \in 1 .. Len(s) : s[k] \in Recorded(T) /\ Priced(s[k])

LEMMA RecordsAreListed ==
    ASSUME NEW T, Proper(T), \A t \in T : Priced(t)
    PROVE  RecordList(T, Records(T))
<1> DEFINE S == Recorded(T)
           R == {p \in S \X S : ByRealized(p[1], p[2])}
           s == Records(T)
<1>1. Proper(Merged(T)) /\ S \subseteq Merged(T)
    BY MergedIsProper DEF Recorded
<1>2. Proper(S) /\ \A t \in S : Priced(t)
    BY <1>1, PartIsProper, MergedIsPriced
<1>3. \A t, u \in S : <<t, u>> \in R <=> ByRealized(t, u)
    OBVIOUS
<1>0. s = Arranged(S, ByRealized)
    BY DEF Records
<1> HIDE DEF R, S
<1>4. IsFiniteSet(S) /\ IsOrder(R, S)
    BY <1>2, <1>3, ByRealizedOrders DEF IsOrder, Proper
<1>5. Lists(s, R, S)
  <2>1. \A t \in S : Rank(R, S, t) = Cardinality({u \in S : ByRealized(u, t)})
    <3> SUFFICES ASSUME NEW t \in S
                 PROVE  Rank(R, S, t) = Cardinality({u \in S : ByRealized(u, t)})
      OBVIOUS
    <3>1. {u \in S : <<u, t>> \in R} = {u \in S : ByRealized(u, t)}
      BY <1>3
    <3> QED BY <3>1 DEF Rank
  <2> DEFINE at(k) == CHOOSE t \in S : Cardinality({u \in S : ByRealized(u, t)}) = k - 1
  <2>2. s = [k \in 1 .. Cardinality(S) |-> at(k)]
    BY <1>0 DEF Arranged
  <2>3. \A k \in 1 .. Cardinality(S) : s[k] = at(k)
    BY <2>2
  <2>4. s = [k \in 1 .. Cardinality(S) |-> s[k]]
    <3> HIDE DEF at, s
    <3> QED BY <2>2
  <2>5. ASSUME NEW k \in 1 .. Cardinality(S), \E t \in S : Rank(R, S, t) = k - 1
        PROVE  s[k] \in S /\ Rank(R, S, s[k]) = k - 1
    BY <2>1, <2>3, <2>5
  <2> QED BY <2>4, <2>5 DEF Lists
<1> HIDE DEF s
<1>6. /\ s \in Seq(S) /\ Len(s) = Cardinality(S) /\ Len(s) \in Nat
      /\ DOMAIN s = 1 .. Len(s) /\ Range(s) = S
      /\ \A k, l \in 1 .. Len(s) : s[k] = s[l] => k = l
    BY <1>4, <1>5, ListInOrder
<1>7. \A k \in 1 .. Len(s) : s[k] \in S
    BY <1>6, ElementOfSeq
<1>8. /\ s \in Seq(Recorded(T)) /\ Range(s) = Recorded(T) /\ IsFiniteSet(Recorded(T))
      /\ \A k \in 1 .. Len(s) : s[k] \in Recorded(T)
    BY <1>4, <1>6, <1>7 DEF S
<1> QED BY <1>2, <1>6, <1>7, <1>8 DEF RecordList, s
-----------------------------------------------------------------------------
(* The equity curve *)

\* e goes through the sums of the nets of s.
Climbs(e, s) ==
    /\ e \in [0 .. Len(s) -> Int] /\ e[0] = 0
    /\ \A k \in 1 .. Len(s) : e[k] = e[k - 1] + Net(s[k])

PricedList(s) == Len(s) \in Nat /\ DOMAIN s = 1 .. Len(s) /\ \A k \in 1 .. Len(s) : Priced(s[k])

LEMMA ListedRecords == ASSUME NEW T, NEW s, RecordList(T, s) PROVE PricedList(s)
BY DEF RecordList, PricedList

LEMMA ClimbExists ==
    ASSUME NEW s, PricedList(s)
    PROVE  \E g : /\ g = [K \in SUBSET (1 .. Len(s)) |-> g[K]]
                  /\ \A K \in SUBSET (1 .. Len(s)) :
                        g[K] = IF K = {} THEN 0 ELSE g[K \ {Max(K)}] + Net(s[Max(K)])
                  /\ \A K \in SUBSET (1 .. Len(s)) : g[K] \in Int
<1> DEFINE n == Len(s)
           step == [k \in 1 .. n |-> [v \in Int |-> v + Net(s[k])]]
<1>0. n \in Nat
    BY DEF PricedList
<1>1. \A k \in 1 .. n : \A v \in Int : step[k][v] = v + Net(s[k]) /\ step[k][v] \in Int
    BY NetIsInt DEF PricedList
<1> DEFINE V == Int
<1>4. 0 \in V /\ \A k \in 1 .. n : \A v \in V : step[k][v] \in V
    BY <1>1
<1> HIDE DEF step, n, V
<1>2. PICK g : IsRun(g, n, 0, step) /\ \A K \in SUBSET (1 .. n) : g[K] \in V
    BY <1>0, <1>4, RunExists
<1>3. ASSUME NEW K \in SUBSET (1 .. n), K # {}
      PROVE  g[K] = g[K \ {Max(K)}] + Net(s[Max(K)])
  <2>1. Max(K) \in 1 .. n /\ K \ {Max(K)} \in SUBSET (1 .. n)
    BY <1>0, <1>3, LastOneIs
  <2>2. g[K] = step[Max(K)][g[K \ {Max(K)}]] /\ g[K \ {Max(K)}] \in Int
    BY <1>2, <1>3, <2>1 DEF V, IsRun
  <2> QED BY <1>1, <2>1, <2>2
<1> QED BY <1>2, <1>3 DEF n, V, IsRun

\* The net P&L is the end of the curve.
LEMMA NetPnlClimbs ==
    ASSUME NEW T, RecordList(T, Records(T))
    PROVE  \E e : Climbs(e, Records(T)) /\ NetPnl(T) = e[Len(Records(T))]
<1> DEFINE s == Records(T)
           n == Len(s)
           g == CHOOSE g : g = [K \in SUBSET (DOMAIN s) |->
                                  IF K = {} THEN 0 ELSE g[K \ {Max(K)}] + Net(s[Max(K)])]
<1>1. NetPnl(T) = g[DOMAIN s]
    BY DEF NetPnl, FoldLeft, MapThenFoldSet
<1> HIDE DEF s
<1>2. PricedList(s)
    BY ListedRecords DEF s
<1>3. n \in Nat /\ DOMAIN s = 1 .. n /\ \A k \in 1 .. n : Net(s[k]) \in Int
    BY <1>2, NetIsInt DEF PricedList
<1>4. \E h : h = [K \in SUBSET (DOMAIN s) |->
                       IF K = {} THEN 0 ELSE h[K \ {Max(K)}] + Net(s[Max(K)])]
  <2>1. PICK h : /\ h = [K \in SUBSET (1 .. n) |-> h[K]]
                 /\ \A K \in SUBSET (1 .. n) :
                       h[K] = IF K = {} THEN 0 ELSE h[K \ {Max(K)}] + Net(s[Max(K)])
    BY <1>2, ClimbExists
  <2>2. h = [K \in SUBSET (1 .. n) |-> IF K = {} THEN 0 ELSE h[K \ {Max(K)}] + Net(s[Max(K)])]
    BY <2>1
  <2> QED BY <1>3, <2>2
<1>5. g = [K \in SUBSET (DOMAIN s) |->
                       IF K = {} THEN 0 ELSE g[K \ {Max(K)}] + Net(s[Max(K)])]
    BY <1>4
<1> HIDE DEF g
<1> DEFINE e == [k \in 0 .. n |-> g[1 .. k]]
<1>6. e[0] = 0
  <2>1. 1 .. 0 = {} /\ 0 \in 0 .. n
    BY <1>3
  <2> QED BY <1>5, <2>1
<1>7. ASSUME NEW k \in 1 .. n PROVE e[k] = e[k - 1] + Net(s[k])
  <2>0. k \in 0 .. n /\ k - 1 \in 0 .. n
    BY <1>3
  <2>1. /\ Max(1 .. k) = k /\ (1 .. k) \ {k} = 1 .. (k - 1) /\ 1 .. k \in SUBSET (1 .. n)
        /\ 1 .. k # {}
    <3> HIDE DEF n
    <3> QED BY <1>3, LastOneIs
  <2>2. g[1 .. k] = g[1 .. (k - 1)] + Net(s[k])
    BY <1>3, <1>5, <2>1
  <2> QED BY <2>0, <2>2
<1> HIDE DEF e
<1>8. \A k \in 0 .. n : e[k] \in Int
  <2> DEFINE P == {k \in Nat : k <= n => e[k] \in Int}
  <2>1. 0 \in P
    BY <1>6
  <2>2. ASSUME NEW k \in Nat, k \in P PROVE k + 1 \in P
    <3> SUFFICES ASSUME k + 1 <= n PROVE e[k + 1] \in Int
      OBVIOUS
    <3>1. k + 1 \in 1 .. n /\ (k + 1) - 1 = k /\ k <= n
      BY <1>3
    <3>2. e[k] \in Int /\ e[k + 1] = e[k] + Net(s[k + 1]) /\ Net(s[k + 1]) \in Int
      BY <1>3, <1>7, <2>2, <3>1
    <3> QED BY <3>2
  <2>3. Nat \subseteq P
    <3> HIDE DEF P
    <3> QED BY <2>1, <2>2, Numbers
  <2> QED BY <2>3
<1>9. Climbs(e, s)
  <2>1. e \in [0 .. n -> Int]
    BY <1>8 DEF e
  <2> QED BY <1>6, <1>7, <2>1 DEF Climbs
<1>10. g[DOMAIN s] = e[n]
    BY <1>3 DEF e
<1> QED BY <1>1, <1>9, <1>10 DEF s

LEMMA CurveClimbs ==
    ASSUME NEW s, PricedList(s)
    PROVE  Climbs(Curve(s), s)
<1> DEFINE n == Len(s)
           e == Curve(s)
<1>0. n \in Nat /\ \A k \in 1 .. n : Net(s[k]) \in Int
    BY NetIsInt DEF PricedList
<1>1. PICK g : /\ \A K \in SUBSET (1 .. n) :
                     g[K] = IF K = {} THEN 0 ELSE g[K \ {Max(K)}] + Net(s[Max(K)])
               /\ \A K \in SUBSET (1 .. n) : g[K] \in Int
    BY ClimbExists
<1> DEFINE h == [k \in 0 .. n |-> g[1 .. k]]
<1>2. ASSUME NEW k \in 0 .. n PROVE h[k] = IF k = 0 THEN 0 ELSE h[k - 1] + Net(s[k])
  <2>1. CASE k = 0
    <3>1. 1 .. 0 = {}
      OBVIOUS
    <3> QED BY <1>1, <2>1, <3>1
  <2>2. CASE k # 0
    <3>1. k \in 1 .. n
      BY <2>2
    <3>0. k - 1 \in 0 .. n
      BY <1>0, <3>1
    <3>2. /\ Max(1 .. k) = k /\ (1 .. k) \ {k} = 1 .. (k - 1) /\ 1 .. k \in SUBSET (1 .. n)
          /\ 1 .. k # {}
      <4> HIDE DEF n
      <4> QED BY <1>0, <3>1, LastOneIs
    <3> QED BY <1>1, <2>2, <3>0, <3>2
  <2> QED BY <2>1, <2>2
<1>3. h = [k \in 0 .. n |-> IF k = 0 THEN 0 ELSE h[k - 1] + Net(s[k])]
  <2>1. h = [k \in 0 .. n |-> h[k]]
    OBVIOUS
  <2> HIDE DEF h
  <2> QED BY <1>2, <2>1
<1>4. \E f : f = [k \in 0 .. n |-> IF k = 0 THEN 0 ELSE f[k - 1] + Net(s[k])]
    BY <1>3
<1>5. e = CHOOSE f : f = [k \in 0 .. n |-> IF k = 0 THEN 0 ELSE f[k - 1] + Net(s[k])]
    BY DEF Curve
<1>6. e = [k \in 0 .. n |-> IF k = 0 THEN 0 ELSE e[k - 1] + Net(s[k])]
  <2> HIDE DEF e
  <2> QED BY <1>4, <1>5
<1> HIDE DEF e
<1>7. e[0] = 0 /\ \A k \in 1 .. n : e[k] = e[k - 1] + Net(s[k])
  <2>1. 0 \in 0 .. n /\ \A k \in 1 .. n : k \in 0 .. n /\ k # 0
    BY <1>0
  <2> QED BY <1>6, <2>1
<1>8. \A k \in 0 .. n : e[k] \in Int
  <2> DEFINE P == {k \in Nat : k <= n => e[k] \in Int}
  <2>1. 0 \in P
    BY <1>7
  <2>2. ASSUME NEW k \in Nat, k \in P PROVE k + 1 \in P
    <3> SUFFICES ASSUME k + 1 <= n PROVE e[k + 1] \in Int
      OBVIOUS
    <3>1. k + 1 \in 1 .. n /\ (k + 1) - 1 = k /\ k <= n
      BY <1>0
    <3>2. e[k] \in Int /\ e[k + 1] = e[k] + Net(s[k + 1]) /\ Net(s[k + 1]) \in Int
      BY <1>0, <1>7, <2>2, <3>1
    <3> QED BY <3>2
  <2>3. Nat \subseteq P
    <3> HIDE DEF P
    <3> QED BY <2>1, <2>2, Numbers
  <2> QED BY <2>3
<1>9. e \in [0 .. n -> Int]
    BY <1>6, <1>8
<1> QED BY <1>7, <1>9 DEF Climbs, e

LEMMA ClimbsAlike ==
    ASSUME NEW s, PricedList(s), NEW e, Climbs(e, s), NEW f, Climbs(f, s)
    PROVE  \A k \in 0 .. Len(s) : e[k] = f[k]
<1> DEFINE n == Len(s)
           P == {k \in Nat : k <= n => e[k] = f[k]}
<1>0. n \in Nat
    BY DEF PricedList
<1>1. 0 \in P
    BY DEF Climbs
<1>2. ASSUME NEW k \in Nat, k \in P PROVE k + 1 \in P
  <2> SUFFICES ASSUME k + 1 <= n PROVE e[k + 1] = f[k + 1]
    OBVIOUS
  <2>1. k + 1 \in 1 .. n /\ (k + 1) - 1 = k /\ k <= n
    BY <1>0
  <2>2. e[k + 1] = e[k] + Net(s[k + 1]) /\ f[k + 1] = f[k] + Net(s[k + 1])
    BY <2>1 DEF Climbs
  <2> QED BY <1>2, <2>1, <2>2
<1>3. Nat \subseteq P
  <2> HIDE DEF P
  <2> QED BY <1>1, <1>2, Numbers
<1> QED BY <1>3
-----------------------------------------------------------------------------
(* The drawdown *)

Pens == [equity : Int, peak : Int, drawdown : Int]
Drawn(c, t) ==
    LET equity == c.equity + Net(t)
        peak == HighestOf(c.peak, equity)
    IN  [equity |-> equity, peak |-> peak, drawdown |-> HighestOf(c.drawdown, peak - equity)]
StartPen == [equity |-> 0, peak |-> 0, drawdown |-> 0]

LEMMA DrawnIsPen ==
    ASSUME NEW c \in Pens, NEW t, Priced(t)
    PROVE  LET d == Drawn(c, t) IN
           /\ d \in Pens
           /\ d.equity = c.equity + Net(t)
           /\ d.peak = (IF c.peak > d.equity THEN c.peak ELSE d.equity)
           /\ d.drawdown = (IF c.drawdown > d.peak - d.equity THEN c.drawdown ELSE d.peak - d.equity)
<1>1. Net(t) \in Int
    BY NetIsInt
<1> DEFINE equity == c.equity + Net(t)
           peak == HighestOf(c.peak, equity)
           drawdown == HighestOf(c.drawdown, peak - equity)
<1>2. equity \in Int
    BY <1>1 DEF Pens
<1> HIDE DEF equity
<1>3. peak \in Int /\ peak = (IF c.peak > equity THEN c.peak ELSE equity)
    BY <1>2 DEF Pens, HighestOf
<1> HIDE DEF peak
<1>4. /\ drawdown \in Int
      /\ drawdown = (IF c.drawdown > peak - equity THEN c.drawdown ELSE peak - equity)
    BY <1>2, <1>3 DEF Pens, HighestOf
<1> HIDE DEF drawdown
<1>5. Drawn(c, t) = [equity |-> equity, peak |-> peak, drawdown |-> drawdown]
    BY DEF Drawn, equity, peak, drawdown
<1>6. equity = c.equity + Net(t)
    BY DEF equity
<1> QED BY <1>2, <1>3, <1>4, <1>5, <1>6 DEF Pens

\* d draws the list s.
Draws(d, s) ==
    /\ d[0] = StartPen
    /\ \A k \in 0 .. Len(s) : d[k] \in Pens
    /\ \A k \in 1 .. Len(s) : d[k] = Drawn(d[k - 1], s[k])

LEMMA DrawdownIsDrawn ==
    ASSUME NEW T, RecordList(T, Records(T))
    PROVE  \E d : Draws(d, Records(T)) /\ Drawdown(T) = d[Len(Records(T))].drawdown
<1> DEFINE s == Records(T)
           n == Len(s)
           g == CHOOSE g : g = [K \in SUBSET (DOMAIN s) |->
                                  IF K = {} THEN StartPen ELSE Drawn(g[K \ {Max(K)}], s[Max(K)])]
<1>1. Drawdown(T) = g[DOMAIN s].drawdown
    BY DEF Drawdown, FoldLeft, MapThenFoldSet, StartPen, Drawn
<1> HIDE DEF s
<1>2. PricedList(s)
    BY ListedRecords DEF s
<1>3. n \in Nat /\ DOMAIN s = 1 .. n /\ \A k \in 1 .. n : Priced(s[k])
    BY <1>2 DEF PricedList
<1>4. \E h : h = [K \in SUBSET (DOMAIN s) |->
                       IF K = {} THEN StartPen ELSE Drawn(h[K \ {Max(K)}], s[Max(K)])]
  <2> DEFINE step == [k \in 1 .. n |-> [c \in Pens |-> Drawn(c, s[k])]]
             V == Pens
  <2>1. \A k \in 1 .. n : \A c \in V : step[k][c] = Drawn(c, s[k]) /\ step[k][c] \in V
    BY <1>3, DrawnIsPen
  <2>2. StartPen \in V /\ \A k \in 1 .. n : \A c \in V : step[k][c] \in V
    BY <2>1 DEF StartPen, Pens
  <2> HIDE DEF step, V, n
  <2>3. PICK h : IsRun(h, n, StartPen, step) /\ \A K \in SUBSET (1 .. n) : h[K] \in V
    BY <1>3, <2>2, RunExists
  <2>4. ASSUME NEW K \in SUBSET (1 .. n)
        PROVE  h[K] = IF K = {} THEN StartPen ELSE Drawn(h[K \ {Max(K)}], s[Max(K)])
    <3>1. CASE K = {}
      BY <2>3, <3>1 DEF IsRun
    <3>2. CASE K # {}
      <4>1. Max(K) \in 1 .. n /\ K \ {Max(K)} \in SUBSET (1 .. n)
        BY <1>3, <3>2, LastOneIs
      <4>2. h[K] = step[Max(K)][h[K \ {Max(K)}]] /\ h[K \ {Max(K)}] \in V
        BY <2>3, <3>2, <4>1 DEF IsRun
      <4> QED BY <2>1, <3>2, <4>1, <4>2
    <3> QED BY <3>1, <3>2
  <2>5. h = [K \in SUBSET (1 .. n) |-> h[K]]
    BY <2>3 DEF IsRun
  <2>6. h = [K \in SUBSET (1 .. n) |-> IF K = {} THEN StartPen ELSE Drawn(h[K \ {Max(K)}], s[Max(K)])]
    BY <2>4, <2>5
  <2> QED BY <1>3, <2>6
<1>5. g = [K \in SUBSET (DOMAIN s) |-> IF K = {} THEN StartPen ELSE Drawn(g[K \ {Max(K)}], s[Max(K)])]
    BY <1>4
<1> HIDE DEF g
<1> DEFINE d == [k \in 0 .. n |-> g[1 .. k]]
<1>6. d[0] = StartPen
  <2>1. 1 .. 0 = {} /\ 0 \in 0 .. n
    BY <1>3
  <2> QED BY <1>5, <2>1
<1>7. ASSUME NEW k \in 1 .. n PROVE d[k] = Drawn(d[k - 1], s[k])
  <2>0. k \in 0 .. n /\ k - 1 \in 0 .. n
    BY <1>3
  <2>1. /\ Max(1 .. k) = k /\ (1 .. k) \ {k} = 1 .. (k - 1) /\ 1 .. k \in SUBSET (1 .. n)
        /\ 1 .. k # {}
    <3> HIDE DEF n
    <3> QED BY <1>3, LastOneIs
  <2>2. g[1 .. k] = Drawn(g[1 .. (k - 1)], s[k])
    BY <1>3, <1>5, <2>1
  <2> QED BY <2>0, <2>2
<1>8. g[DOMAIN s] = d[n]
    BY <1>3
<1> HIDE DEF d
<1>9. \A k \in 0 .. n : d[k] \in Pens
  <2> DEFINE P == {k \in Nat : k <= n => d[k] \in Pens}
  <2>1. 0 \in P
    BY <1>6 DEF StartPen, Pens
  <2>2. ASSUME NEW k \in Nat, k \in P PROVE k + 1 \in P
    <3> SUFFICES ASSUME k + 1 <= n PROVE d[k + 1] \in Pens
      OBVIOUS
    <3>1. k + 1 \in 1 .. n /\ (k + 1) - 1 = k /\ k <= n
      BY <1>3
    <3>2. d[k] \in Pens /\ d[k + 1] = Drawn(d[k], s[k + 1]) /\ Priced(s[k + 1])
      BY <1>3, <1>7, <2>2, <3>1
    <3> QED BY <3>2, DrawnIsPen
  <2>3. Nat \subseteq P
    <3> HIDE DEF P
    <3> QED BY <2>1, <2>2, Numbers
  <2> QED BY <2>3
<1>10. Draws(d, s)
    BY <1>6, <1>7, <1>9 DEF Draws
<1> QED BY <1>1, <1>8, <1>10 DEF s

\* The pen stands at the curve, the peak is its highest point so far, and the
\* drawdown the deepest fall.
PenRight(c, e, k) ==
    /\ c.equity = e[k]
    /\ \A j \in 0 .. k : e[j] <= c.peak
    /\ \E j \in 0 .. k : c.peak = e[j]
    /\ \A i, j \in 0 .. k : i <= j => e[i] - e[j] <= c.drawdown
    /\ \E i, j \in 0 .. k : i <= j /\ c.drawdown = e[i] - e[j]

LEMMA PenStaysRight ==
    ASSUME NEW s, PricedList(s), NEW e, Climbs(e, s), NEW d, Draws(d, s),
           NEW k \in 1 .. Len(s), PenRight(d[k - 1], e, k - 1)
    PROVE  PenRight(d[k], e, k)
<1> DEFINE n == Len(s)
           c == d[k - 1]
           f == d[k]
           l == k - 1
<1>0. n \in Nat /\ k \in Nat /\ l \in Nat /\ k = l + 1 /\ k \in 0 .. n /\ l \in 0 .. n
    BY DEF PricedList
<1>1. Net(s[k]) \in Int /\ e[k] = e[l] + Net(s[k]) /\ \A j \in 0 .. k : e[j] \in Int
    BY <1>0, NetIsInt DEF Climbs, PricedList
<1>2. /\ f \in Pens /\ c \in Pens /\ f.equity = c.equity + Net(s[k])
      /\ f.peak = (IF c.peak > f.equity THEN c.peak ELSE f.equity)
      /\ f.drawdown = (IF c.drawdown > f.peak - f.equity THEN c.drawdown ELSE f.peak - f.equity)
  <2>1. f = Drawn(c, s[k]) /\ c \in Pens /\ Priced(s[k])
    BY <1>0 DEF Draws, PricedList
  <2> QED BY <2>1, DrawnIsPen
<1>3. PenRight(c, e, l)
    OBVIOUS
<1> HIDE DEF c, f, l, n
<1> DEFINE q == c.peak
           v == c.drawdown
           y == f.peak
           z == f.drawdown
           x == f.equity
<1>4. q \in Int /\ v \in Int /\ y \in Int /\ z \in Int /\ x = e[k]
    BY <1>1, <1>2, <1>3 DEF Pens, PenRight
<1>5. y = (IF q > x THEN q ELSE x) /\ z = (IF v > y - x THEN v ELSE y - x)
    BY <1>2
<1>6. /\ \A j \in 0 .. l : e[j] <= q
      /\ \E j \in 0 .. l : q = e[j]
      /\ \A i, j \in 0 .. l : i <= j => e[i] - e[j] <= v
      /\ \E i, j \in 0 .. l : i <= j /\ v = e[i] - e[j]
    BY <1>3 DEF PenRight
<1> HIDE DEF q, v, y, z, x
<1>7. \A j \in 0 .. k : j \in 0 .. l \/ j = k
    BY <1>0
<1>8. 0 .. l \subseteq 0 .. k /\ k \in 0 .. k /\ \A j \in 0 .. l : j <= k
    BY <1>0
<1>9. \A j \in 0 .. k : e[j] <= y
  <2> SUFFICES ASSUME NEW j \in 0 .. k PROVE e[j] <= y
    OBVIOUS
  <2>1. e[j] \in Int
    BY <1>1
  <2>2. e[j] <= q \/ e[j] = x
    BY <1>4, <1>6, <1>7
  <2> DEFINE a == e[j]
  <2>3. a \in Int /\ (a <= q \/ a = x) /\ x \in Int
    BY <1>1, <1>4, <2>1, <2>2
  <2> HIDE DEF a
  <2>4. a <= y
    BY <1>4, <1>5, <2>3
  <2> QED BY <2>4 DEF a
<1>10. \E j \in 0 .. k : y = e[j]
    BY <1>4, <1>5, <1>6, <1>8
<1>11. \A i, j \in 0 .. k : i <= j => e[i] - e[j] <= z
  <2> SUFFICES ASSUME NEW i \in 0 .. k, NEW j \in 0 .. k, i <= j PROVE e[i] - e[j] <= z
    OBVIOUS
  <2>0. e[i] \in Int /\ e[j] \in Int
    BY <1>1
  <2>1. CASE j = k
    <3> DEFINE a == e[i]
    <3>1. a \in Int /\ a <= y /\ e[j] = x /\ x \in Int
      BY <1>4, <1>9, <2>0, <2>1
    <3> HIDE DEF a
    <3>2. a - x <= y - x
      BY <1>4, <3>1
    <3>3. y - x <= z
      BY <1>4, <1>5, <3>1
    <3> DEFINE w == y - x
               ax == a - x
    <3>4. w \in Int /\ ax \in Int /\ ax <= w /\ w <= z
      BY <1>4, <3>1, <3>2, <3>3
    <3> HIDE DEF w, ax
    <3>5. ax <= z
      BY <1>4, <3>4
    <3> QED BY <3>1, <3>5 DEF a, ax
  <2>2. CASE j # k
    <3>1. i \in 0 .. l /\ j \in 0 .. l
      BY <1>0, <2>2
    <3> DEFINE a == e[i] - e[j]
    <3>2. a <= v /\ a \in Int
      <4>1. a <= v
        BY <1>6, <3>1
      <4>2. a \in Int
        BY <2>0
      <4> QED BY <4>1, <4>2
    <3>3. x \in Int
      BY <1>1, <1>4, <1>8
    <3> HIDE DEF a
    <3>4. a <= z
      BY <1>4, <1>5, <3>2, <3>3
    <3> QED BY <3>4 DEF a
  <2> QED BY <2>1, <2>2
<1>12. \E i, j \in 0 .. k : i <= j /\ z = e[i] - e[j]
  <2>1. CASE z = v
    BY <1>6, <1>8, <2>1
  <2>2. CASE z = y - x
    <3>1. PICK j \in 0 .. k : y = e[j]
      BY <1>10
    <3>2. j <= k /\ z = e[j] - e[k]
      BY <1>0, <1>4, <2>2, <3>1
    <3> QED BY <1>8, <3>2
  <2> QED BY <1>5, <2>1, <2>2
<1>13. PenRight(f, e, k)
    BY <1>4, <1>9, <1>10, <1>11, <1>12 DEF PenRight, x, y, z
<1> QED BY <1>13 DEF f

LEMMA MaxIs ==
    ASSUME NEW S, S \subseteq Int, NEW m \in S, \A x \in S : x <= m
    PROVE  Max(S) = m
<1>1. \A x \in S : (\A y \in S : x >= y) => x = m
    OBVIOUS
<1>2. \A y \in S : m >= y
    OBVIOUS
<1> QED BY <1>1, <1>2 DEF Max

Falls(e, n) == {e[r[1]] - e[r[2]] : r \in {q \in (0 .. n) \X (0 .. n) : q[1] <= q[2]}}

LEMMA DrawdownIsDeepest ==
    ASSUME NEW T, RecordList(T, Records(T))
    PROVE  Drawdown(T) = Max(Falls(Curve(Records(T)), Len(Records(T))))
<1> DEFINE s == Records(T)
           n == Len(s)
           e == Curve(s)
<1>1. PricedList(s)
    BY ListedRecords
<1>2. Climbs(e, s)
    BY <1>1, CurveClimbs
<1>3. PICK d : Draws(d, s) /\ Drawdown(T) = d[n].drawdown
    BY DrawdownIsDrawn
<1>0. n \in Nat
    BY <1>1 DEF PricedList
<1> HIDE DEF s, e, n
<1>4. \A k \in 0 .. n : PenRight(d[k], e, k)
  <2> DEFINE P == {k \in Nat : k <= n => PenRight(d[k], e, k)}
  <2>1. 0 \in P
    <3>1. e[0] = 0 /\ d[0].equity = 0 /\ d[0].peak = 0 /\ d[0].drawdown = 0
      BY <1>2, <1>3 DEF Climbs, Draws, StartPen
    <3>2. \A j \in 0 .. 0 : j = 0
      OBVIOUS
    <3>3. PenRight(d[0], e, 0)
      BY <3>1, <3>2 DEF PenRight
    <3> QED BY <3>3
  <2>2. ASSUME NEW k \in Nat, k \in P PROVE k + 1 \in P
    <3> SUFFICES ASSUME k + 1 <= n PROVE PenRight(d[k + 1], e, k + 1)
      OBVIOUS
    <3>1. k + 1 \in 1 .. Len(s) /\ (k + 1) - 1 = k /\ k <= n
      BY <1>0 DEF n
    <3>2. PenRight(d[(k + 1) - 1], e, (k + 1) - 1)
      BY <2>2, <3>1
    <3> HIDE DEF P
    <3> QED BY <1>1, <1>2, <1>3, <3>1, <3>2, PenStaysRight
  <2>3. Nat \subseteq P
    <3> HIDE DEF P
    <3> QED BY <2>1, <2>2, Numbers
  <2> QED BY <2>3
<1>5. PenRight(d[n], e, n)
    BY <1>0, <1>4
<1> DEFINE S == Falls(e, n)
           m == d[n].drawdown
<1>6. \A k \in 0 .. n : e[k] \in Int
    BY <1>2 DEF Climbs, n
<1>7. S \subseteq Int
    BY <1>6 DEF Falls
<1>8. m \in S
  <2>1. PICK i \in 0 .. n, j \in 0 .. n : i <= j /\ m = e[i] - e[j]
    BY <1>5 DEF PenRight
  <2>2. <<i, j>> \in {q \in (0 .. n) \X (0 .. n) : q[1] <= q[2]}
    BY <2>1
  <2> QED BY <2>1, <2>2 DEF Falls
<1>9. \A x \in S : x <= m
  <2> SUFFICES ASSUME NEW r \in (0 .. n) \X (0 .. n), r[1] <= r[2] PROVE e[r[1]] - e[r[2]] <= m
    BY DEF Falls
  <2> QED BY <1>5 DEF PenRight
<1> HIDE DEF S, m
<1>10. Max(S) = m
    BY <1>7, <1>8, <1>9, MaxIs
<1> QED BY <1>3, <1>10 DEF S, m, s, e, n
-----------------------------------------------------------------------------
(* The streaks *)

Outcomes == {"win", "loss", "breakeven"}
Counts == [type : Outcomes \cup {"none"}, length : Nat, best : [Outcomes -> Nat]]
CountedOn(c, t) ==
    LET length == IF Outcome(t) = c.type THEN c.length + 1 ELSE 1 IN
    [type |-> Outcome(t), length |-> length,
     best |-> [c.best EXCEPT ![Outcome(t)] = HighestOf(@, length)]]
StartCount == [type |-> "none", length |-> 0, best |-> [o \in Outcomes |-> 0]]

LEMMA OutcomeIs == ASSUME NEW t PROVE Outcome(t) \in Outcomes /\ Outcome(t) # "none"
BY DEF Outcome, Outcomes

LEMMA CountedIs ==
    ASSUME NEW c \in Counts, NEW t
    PROVE  LET d == CountedOn(c, t) IN
           /\ d \in Counts /\ d.type = Outcome(t)
           /\ d.length = (IF Outcome(t) = c.type THEN c.length + 1 ELSE 1)
           /\ \A o \in Outcomes :
                 d.best[o] = (IF o # Outcome(t) \/ c.best[o] > d.length THEN c.best[o] ELSE d.length)
<1> DEFINE x == Outcome(t)
           length == IF x = c.type THEN c.length + 1 ELSE 1
           best == [c.best EXCEPT ![x] = HighestOf(@, length)]
<1>1. x \in Outcomes
    BY OutcomeIs
<1>2. c.length \in Nat /\ c.best \in [Outcomes -> Nat]
    BY DEF Counts
<1> HIDE DEF x
<1>3. length \in Nat
    BY <1>2
<1>6. length = (IF x = c.type THEN c.length + 1 ELSE 1)
    OBVIOUS
<1> HIDE DEF length
<1>4. /\ best \in [Outcomes -> Nat]
      /\ \A o \in Outcomes : best[o] = (IF o # x \/ c.best[o] > length THEN c.best[o] ELSE length)
    BY <1>1, <1>2, <1>3 DEF HighestOf
<1> HIDE DEF best
<1>5. CountedOn(c, t) = [type |-> x, length |-> length, best |-> best]
    BY DEF CountedOn, x, length, best
<1> QED BY <1>1, <1>3, <1>4, <1>5, <1>6 DEF Counts, x

\* d counts along the list s.
CountsAlong(d, s) ==
    /\ d[0] = StartCount
    /\ \A k \in 0 .. Len(s) : d[k] \in Counts
    /\ \A k \in 1 .. Len(s) : d[k] = CountedOn(d[k - 1], s[k])

LEMMA StreaksAreCounted ==
    ASSUME NEW T, RecordList(T, Records(T))
    PROVE  \E d : CountsAlong(d, Records(T)) /\ Streaks(T) = d[Len(Records(T))]
<1> DEFINE s == Records(T)
           n == Len(s)
           g == CHOOSE g : g = [K \in SUBSET (DOMAIN s) |->
                                  IF K = {} THEN StartCount ELSE CountedOn(g[K \ {Max(K)}], s[Max(K)])]
<1>1. Streaks(T) = g[DOMAIN s]
    BY DEF Streaks, FoldLeft, MapThenFoldSet, StartCount, CountedOn, Outcomes
<1> HIDE DEF s
<1>2. PricedList(s)
    BY ListedRecords DEF s
<1>3. n \in Nat /\ DOMAIN s = 1 .. n
    BY <1>2 DEF PricedList
<1>4. \E h : h = [K \in SUBSET (DOMAIN s) |->
                       IF K = {} THEN StartCount ELSE CountedOn(h[K \ {Max(K)}], s[Max(K)])]
  <2> DEFINE step == [k \in 1 .. n |-> [c \in Counts |-> CountedOn(c, s[k])]]
             V == Counts
  <2>1. \A k \in 1 .. n : \A c \in V : step[k][c] = CountedOn(c, s[k]) /\ step[k][c] \in V
    BY <1>3, CountedIs
  <2>2. StartCount \in V /\ \A k \in 1 .. n : \A c \in V : step[k][c] \in V
    BY <2>1 DEF StartCount, Counts
  <2> HIDE DEF step, V, n
  <2>3. PICK h : IsRun(h, n, StartCount, step) /\ \A K \in SUBSET (1 .. n) : h[K] \in V
    BY <1>3, <2>2, RunExists
  <2>4. ASSUME NEW K \in SUBSET (1 .. n)
        PROVE  h[K] = IF K = {} THEN StartCount ELSE CountedOn(h[K \ {Max(K)}], s[Max(K)])
    <3>1. CASE K = {}
      BY <2>3, <3>1 DEF IsRun
    <3>2. CASE K # {}
      <4>1. Max(K) \in 1 .. n /\ K \ {Max(K)} \in SUBSET (1 .. n)
        BY <1>3, <3>2, LastOneIs
      <4>2. h[K] = step[Max(K)][h[K \ {Max(K)}]] /\ h[K \ {Max(K)}] \in V
        BY <2>3, <3>2, <4>1 DEF IsRun
      <4> QED BY <2>1, <3>2, <4>1, <4>2
    <3> QED BY <3>1, <3>2
  <2>5. h = [K \in SUBSET (1 .. n) |-> h[K]]
    BY <2>3 DEF IsRun
  <2>6. h = [K \in SUBSET (1 .. n) |-> IF K = {} THEN StartCount ELSE CountedOn(h[K \ {Max(K)}], s[Max(K)])]
    BY <2>4, <2>5
  <2> QED BY <1>3, <2>6
<1>5. g = [K \in SUBSET (DOMAIN s) |-> IF K = {} THEN StartCount ELSE CountedOn(g[K \ {Max(K)}], s[Max(K)])]
    BY <1>4
<1> HIDE DEF g
<1> DEFINE d == [k \in 0 .. n |-> g[1 .. k]]
<1>6. d[0] = StartCount
  <2>1. 1 .. 0 = {} /\ 0 \in 0 .. n
    BY <1>3
  <2> QED BY <1>5, <2>1
<1>7. ASSUME NEW k \in 1 .. n PROVE d[k] = CountedOn(d[k - 1], s[k])
  <2>0. k \in 0 .. n /\ k - 1 \in 0 .. n
    BY <1>3
  <2>1. /\ Max(1 .. k) = k /\ (1 .. k) \ {k} = 1 .. (k - 1) /\ 1 .. k \in SUBSET (1 .. n)
        /\ 1 .. k # {}
    <3> HIDE DEF n
    <3> QED BY <1>3, LastOneIs
  <2>2. g[1 .. k] = CountedOn(g[1 .. (k - 1)], s[k])
    BY <1>3, <1>5, <2>1
  <2> QED BY <2>0, <2>2
<1>8. g[DOMAIN s] = d[n]
    BY <1>3
<1> HIDE DEF d
<1>9. \A k \in 0 .. n : d[k] \in Counts
  <2> DEFINE P == {k \in Nat : k <= n => d[k] \in Counts}
  <2>1. 0 \in P
    BY <1>6 DEF StartCount, Counts
  <2>2. ASSUME NEW k \in Nat, k \in P PROVE k + 1 \in P
    <3> SUFFICES ASSUME k + 1 <= n PROVE d[k + 1] \in Counts
      OBVIOUS
    <3>1. k + 1 \in 1 .. n /\ (k + 1) - 1 = k /\ k <= n
      BY <1>3
    <3>2. d[k] \in Counts /\ d[k + 1] = CountedOn(d[k], s[k + 1])
      BY <1>7, <2>2, <3>1
    <3> QED BY <3>2, CountedIs
  <2>3. Nat \subseteq P
    <3> HIDE DEF P
    <3> QED BY <2>1, <2>2, Numbers
  <2> QED BY <2>3
<1>10. CountsAlong(d, s)
    BY <1>6, <1>7, <1>9 DEF CountsAlong
<1> QED BY <1>1, <1>8, <1>10 DEF s

\* The records i to j all have the outcome o.
Row(s, i, j, o) == i <= j /\ \A m \in i .. j : Outcome(s[m]) = o

\* c counts the row that ends at k and knows the longest ones up to k.
CountRight(c, s, k) ==
    /\ k = 0 => c.type = "none"
    /\ k > 0 => /\ c.type = Outcome(s[k]) /\ c.length \in 1 .. k
                /\ Row(s, k - c.length + 1, k, c.type)
                /\ c.length = k \/ Outcome(s[k - c.length]) # c.type
    /\ \A o \in Outcomes : \A i, j \in 1 .. k : Row(s, i, j, o) => j - i + 1 <= c.best[o]
    /\ \A o \in Outcomes : \/ c.best[o] = 0
                           \/ \E i, j \in 1 .. k : Row(s, i, j, o) /\ c.best[o] = j - i + 1

LEMMA CountStaysRight ==
    ASSUME NEW s, Len(s) \in Nat, NEW d, CountsAlong(d, s),
           NEW k \in 1 .. Len(s), CountRight(d[k - 1], s, k - 1)
    PROVE  CountRight(d[k], s, k)
<1> DEFINE c == d[k - 1]
           f == d[k]
           l == k - 1
           x == Outcome(s[k])
<1>0. k \in Nat /\ l \in Nat /\ k = l + 1 /\ k \in 0 .. Len(s) /\ l \in 0 .. Len(s) /\ k > 0
    OBVIOUS
<1>1. /\ f \in Counts /\ c \in Counts /\ f.type = x
      /\ f.length = (IF x = c.type THEN c.length + 1 ELSE 1)
      /\ \A o \in Outcomes :
            f.best[o] = (IF o # x \/ c.best[o] > f.length THEN c.best[o] ELSE f.length)
  <2>1. f = CountedOn(c, s[k]) /\ c \in Counts
    BY <1>0 DEF CountsAlong
  <2> QED BY <2>1, CountedIs
<1>2. CountRight(c, s, l)
    OBVIOUS
<1>3. x \in Outcomes /\ x # "none" /\ \A i : i = k => Outcome(s[i]) = x
    BY OutcomeIs
<1> HIDE DEF c, f, l, x
<1> DEFINE n == f.length
<1>4. n \in 1 .. k /\ Row(s, k - n + 1, k, x) /\ (n = k \/ Outcome(s[k - n]) # x)
  <2>1. CASE x = c.type
    <3>1. l > 0 /\ l # 0
      BY <1>0, <1>2, <1>3, <2>1 DEF CountRight
    <3>2. /\ c.length \in 1 .. l /\ Row(s, l - c.length + 1, l, x)
          /\ c.length = l \/ Outcome(s[l - c.length]) # x
      BY <1>2, <2>1, <3>1 DEF CountRight
    <3>3. n = c.length + 1
      BY <1>1, <2>1
    <3>4. n \in 1 .. k /\ k - n = l - c.length /\ k - n + 1 = l - c.length + 1 /\ k - n + 1 <= k
      <4> DEFINE a == c.length
      <4>1. a \in 1 .. l /\ n = a + 1
        BY <3>2, <3>3
      <4> HIDE DEF a, n
      <4>2. n \in 1 .. k /\ k - n = l - a /\ k - n + 1 = l - a + 1 /\ k - n + 1 <= k
        BY <1>0, <4>1
      <4> QED BY <4>2 DEF a
    <3>5. \A m \in (k - n + 1) .. k : m = k \/ m \in (l - c.length + 1) .. l
      BY <1>0, <3>2, <3>4
    <3>6. Row(s, k - n + 1, k, x)
      BY <1>3, <3>2, <3>4, <3>5 DEF Row
    <3>7. n = k \/ Outcome(s[k - n]) # x
      BY <1>0, <3>2, <3>3, <3>4
    <3> QED BY <3>4, <3>6, <3>7
  <2>2. CASE x # c.type
    <3>1. n = 1
      BY <1>1, <2>2
    <3>2. n \in 1 .. k /\ k - n + 1 = k /\ k - n = l /\ \A m \in k .. k : m = k
      BY <1>0, <3>1
    <3>3. Row(s, k - n + 1, k, x)
      BY <1>0, <1>3, <3>2 DEF Row
    <3>4. n = k \/ Outcome(s[k - n]) # x
      <4>1. CASE l = 0
        BY <1>0, <3>1, <4>1
      <4>2. CASE l # 0
        <5>1. Outcome(s[l]) # x
          BY <1>0, <1>2, <2>2, <4>2 DEF CountRight
        <5> QED BY <3>2, <5>1
      <4> QED BY <4>1, <4>2
    <3> QED BY <3>2, <3>3, <3>4
  <2> QED BY <2>1, <2>2
<1>5. \A o \in Outcomes : f.best[o] \in Nat /\ c.best[o] \in Nat /\ c.best[o] <= f.best[o]
                          /\ (o = x => n <= f.best[o])
  <2> SUFFICES ASSUME NEW o \in Outcomes
               PROVE  f.best[o] \in Nat /\ c.best[o] \in Nat /\ c.best[o] <= f.best[o]
                      /\ (o = x => n <= f.best[o])
    OBVIOUS
  <2>1. f.best[o] \in Nat /\ c.best[o] \in Nat /\ n \in Nat
    BY <1>1 DEF Counts
  <2>2. f.best[o] = (IF o # x \/ c.best[o] > n THEN c.best[o] ELSE n)
    BY <1>1
  <2> QED BY <2>1, <2>2
<1>6. ASSUME NEW o \in Outcomes, NEW i \in 1 .. k, NEW j \in 1 .. k, Row(s, i, j, o)
      PROVE  j - i + 1 <= f.best[o]
  <2>1. CASE j = k
    <3>1. o = x
      <4>1. k \in i .. j
        BY <1>0, <1>6, <2>1 DEF Row
      <4> QED BY <1>3, <1>6, <4>1 DEF Row
    <3>2. n \in 1 .. k
      BY <1>4
    <3>3. ~(i <= k - n)
      <4> SUFFICES ASSUME i <= k - n PROVE FALSE
        OBVIOUS
      <4>1. k - n \in i .. j /\ n # k
        <5> HIDE DEF n
        <5> QED BY <1>0, <2>1, <3>2
      <4>2. Outcome(s[k - n]) = o
        BY <1>6, <4>1 DEF Row
      <4> QED BY <1>4, <3>1, <4>1, <4>2
    <3>4. j - i + 1 <= n
      <4> HIDE DEF n
      <4> QED BY <1>0, <2>1, <3>2, <3>3
    <3>5. n <= f.best[o] /\ f.best[o] \in Nat
      BY <1>5, <3>1
    <3> DEFINE b == f.best[o]
    <3>6. n <= b /\ b \in Nat
      BY <3>5
    <3> HIDE DEF b, n
    <3>7. j - i + 1 <= b
      BY <1>0, <3>2, <3>4, <3>6
    <3> QED BY <3>7 DEF b
  <2>2. CASE j # k
    <3>1. j \in 1 .. l /\ i \in 1 .. l
      BY <1>0, <1>6, <2>2 DEF Row
    <3>2. j - i + 1 <= c.best[o]
      BY <1>2, <1>6, <3>1 DEF CountRight
    <3>3. c.best[o] <= f.best[o] /\ f.best[o] \in Nat /\ c.best[o] \in Nat
      BY <1>5
    <3> QED BY <3>1, <3>2, <3>3
  <2> QED BY <2>1, <2>2
<1>7. ASSUME NEW o \in Outcomes
      PROVE  f.best[o] = 0 \/ \E i, j \in 1 .. k : Row(s, i, j, o) /\ f.best[o] = j - i + 1
  <2>1. CASE f.best[o] = c.best[o]
    <3>1. c.best[o] = 0 \/ \E i, j \in 1 .. l : Row(s, i, j, o) /\ c.best[o] = j - i + 1
      BY <1>2 DEF CountRight
    <3>2. 1 .. l \subseteq 1 .. k
      BY <1>0
    <3> QED BY <2>1, <3>1, <3>2
  <2>2. CASE f.best[o] # c.best[o]
    <3>1. f.best[o] = n /\ o = x
      BY <1>1, <2>2
    <3>0. n \in 1 .. k
      BY <1>4
    <3>2. k - n + 1 \in 1 .. k /\ k \in 1 .. k /\ n = k - (k - n + 1) + 1
      <4> HIDE DEF n
      <4> QED BY <1>0, <3>0
    <3> QED BY <1>4, <3>1, <3>2
  <2> QED BY <2>1, <2>2
<1>8. CountRight(f, s, k)
  <2>1. k = 0 => f.type = "none"
    BY <1>0
  <2>2. /\ f.type = Outcome(s[k]) /\ f.length \in 1 .. k
        /\ Row(s, k - f.length + 1, k, f.type)
        /\ f.length = k \/ Outcome(s[k - f.length]) # f.type
    BY <1>1, <1>4 DEF x
  <2> QED BY <1>6, <1>7, <2>1, <2>2 DEF CountRight
<1> QED BY <1>8 DEF f

Longest(s, o) ==
    LET Runs == {r \in (1..Len(s)) \X (1..Len(s)) :
                   r[1] <= r[2] /\ \A i \in r[1]..r[2] : Outcome(s[i]) = o}
    IN  {0} \cup {r[2] - r[1] + 1 : r \in Runs}

LEMMA StreaksAreLongest ==
    ASSUME NEW T, RecordList(T, Records(T)), NEW o \in Outcomes
    PROVE  Streaks(T).best[o] = Max(Longest(Records(T), o))
<1> DEFINE s == Records(T)
           n == Len(s)
<1>1. n \in Nat
    BY ListedRecords DEF PricedList
<1>2. PICK d : CountsAlong(d, s) /\ Streaks(T) = d[n]
    BY StreaksAreCounted
<1> HIDE DEF s
<1>3. \A k \in 0 .. n : CountRight(d[k], s, k)
  <2> DEFINE P == {k \in Nat : k <= n => CountRight(d[k], s, k)}
  <2>1. 0 \in P
    <3>1. d[0].type = "none" /\ \A p \in Outcomes : d[0].best[p] = 0
      BY <1>2 DEF CountsAlong, StartCount
    <3>2. CountRight(d[0], s, 0)
      BY <3>1 DEF CountRight
    <3> QED BY <3>2
  <2>2. ASSUME NEW k \in Nat, k \in P PROVE k + 1 \in P
    <3> SUFFICES ASSUME k + 1 <= n PROVE CountRight(d[k + 1], s, k + 1)
      OBVIOUS
    <3>1. k + 1 \in 1 .. Len(s) /\ (k + 1) - 1 = k /\ k <= n
      BY <1>1
    <3>2. CountRight(d[(k + 1) - 1], s, (k + 1) - 1)
      BY <2>2, <3>1
    <3> HIDE DEF P
    <3> QED BY <1>1, <1>2, <3>1, <3>2, CountStaysRight
  <2>3. Nat \subseteq P
    <3> HIDE DEF P
    <3> QED BY <2>1, <2>2, Numbers
  <2> QED BY <2>3
<1>4. CountRight(d[n], s, n) /\ d[n] \in Counts
    BY <1>1, <1>2, <1>3 DEF CountsAlong
<1> DEFINE Runs == {r \in (1..n) \X (1..n) : r[1] <= r[2] /\ \A i \in r[1]..r[2] : Outcome(s[i]) = o}
           S == {0} \cup {r[2] - r[1] + 1 : r \in Runs}
           m == d[n].best[o]
<1>5. m \in Nat
    BY <1>4 DEF Counts
<1>6. S \subseteq Int
    OBVIOUS
<1>7. m \in S
  <2>1. CASE m = 0
    BY <2>1
  <2>2. CASE m # 0
    <3>1. PICK i \in 1 .. n, j \in 1 .. n : Row(s, i, j, o) /\ m = j - i + 1
      BY <1>4, <2>2 DEF CountRight
    <3>2. <<i, j>> \in Runs
      BY <3>1 DEF Row
    <3> HIDE DEF Runs, m
    <3> QED BY <3>1, <3>2
  <2> QED BY <2>1, <2>2
<1>8. \A x \in S : x <= m
  <2>1. ASSUME NEW r \in Runs PROVE r[2] - r[1] + 1 <= m
    <3>1. r[1] \in 1 .. n /\ r[2] \in 1 .. n /\ Row(s, r[1], r[2], o)
      BY <2>1 DEF Row
    <3> QED BY <1>4, <3>1 DEF CountRight
  <2> HIDE DEF Runs, m
  <2> QED BY <1>5, <2>1
<1>9. S = Longest(s, o)
    BY DEF Longest
<1> HIDE DEF S, m
<1>10. Max(S) = m
    BY <1>6, <1>7, <1>8, MaxIs
<1> QED BY <1>2, <1>9, <1>10 DEF s, m
-----------------------------------------------------------------------------
(* The net P&L as a sum *)

LEMMA NetPnlIsSum ==
    ASSUME NEW T, RecordList(T, Records(T))
    PROVE  /\ Amounts(Recorded(T), Nets(Recorded(T)))
           /\ NetPnl(T) = SumOf(Recorded(T), Nets(Recorded(T)))
<1> DEFINE s == Records(T)
           n == Len(s)
           S == Recorded(T)
           f == Nets(S)
<1>1. PICK e : Climbs(e, s) /\ NetPnl(T) = e[n]
    BY NetPnlClimbs
<1>2. /\ n \in Nat /\ IsFiniteSet(S) /\ DOMAIN s = 1 .. n /\ Range(s) = S
      /\ \A k, l \in 1 .. n : s[k] = s[l] => k = l
      /\ \A k \in 1 .. n : s[k] \in S /\ Priced(s[k])
    BY DEF RecordList
<1>3. S = {s[k] : k \in 1 .. n}
    BY <1>2 DEF Range
<1>4. Amounts(S, f) /\ \A k \in 1 .. n : f[s[k]] = Net(s[k]) /\ f[s[k]] \in Int
  <2>1. \A t \in S : Priced(t)
    BY <1>2, <1>3
  <2>2. \A k \in 1 .. n : f[s[k]] = Net(s[k])
    BY <1>2 DEF Nets
  <2> HIDE DEF f
  <2>3. Amounts(S, f)
    BY <1>2, <2>1, PricedAmounts DEF f
  <2> QED BY <1>2, <2>2, <2>3 DEF Amounts
<1> HIDE DEF s, S, f, n
<1> DEFINE U(k) == {s[j] : j \in 1 .. k}
           P == {k \in Nat : k <= n => e[k] = SumOf(U(k), f)}
<1>5. ASSUME NEW k \in Nat, k <= n PROVE Amounts(U(k), f)
  <2>1. U(k) \subseteq S
    BY <1>2, <1>5
  <2> QED BY <1>4, <2>1, FS_Subset DEF Amounts
<1>6. 0 \in P
  <2>1. U(0) = {} /\ Amounts(U(0), f)
    BY <1>2, <1>5
  <2> HIDE DEF U
  <2>2. SumOf(U(0), f) = 0
    BY <2>1, SumLaws
  <2> QED BY <1>1, <2>2 DEF Climbs
<1>7. ASSUME NEW k \in Nat, k \in P PROVE k + 1 \in P
  <2> SUFFICES ASSUME k + 1 <= n PROVE e[k + 1] = SumOf(U(k + 1), f)
    OBVIOUS
  <2>1. k + 1 \in 1 .. n /\ (k + 1) - 1 = k /\ k <= n /\ k \in 0 .. n
    BY <1>2
  <2>2. U(k + 1) = U(k) \cup {s[k + 1]} /\ s[k + 1] \notin U(k)
    <3>1. 1 .. (k + 1) = (1 .. k) \cup {k + 1}
      OBVIOUS
    <3>2. ASSUME NEW j \in 1 .. k PROVE j \in 1 .. n /\ j # k + 1
      BY <1>2, <2>1
    <3> QED BY <1>2, <2>1, <3>1, <3>2
  <2>3. Amounts(U(k), f)
    BY <1>5, <2>1
  <2>4. e[k] = SumOf(U(k), f)
    BY <1>7, <2>1
  <2>5. f[s[k + 1]] = Net(s[k + 1]) /\ f[s[k + 1]] \in Int
    BY <1>4, <2>1
  <2> HIDE DEF U
  <2>6. SumOf(U(k) \cup {s[k + 1]}, f) = f[s[k + 1]] + SumOf(U(k), f)
    BY <2>2, <2>3, <2>5, SumAdded
  <2>7. e[k + 1] = e[k] + Net(s[k + 1]) /\ e[k] \in Int
    <3>1. e[k + 1] = e[(k + 1) - 1] + Net(s[k + 1])
      BY <1>1, <2>1 DEF Climbs, n
    <3>2. e[k] \in Int
      BY <1>1, <2>1 DEF Climbs, n
    <3> QED BY <2>1, <3>1, <3>2
  <2> QED BY <2>2, <2>4, <2>5, <2>6, <2>7
<1>8. n \in P
  <2> HIDE DEF P
  <2>1. Nat \subseteq P
    BY <1>6, <1>7, Numbers
  <2> QED BY <1>2, <2>1
<1>9. U(n) = S
    BY <1>3
<1>10. n <= n
    BY <1>2
<1> HIDE DEF U
<1>11. e[n] = SumOf(S, f)
    BY <1>8, <1>9, <1>10
<1> QED BY <1>1, <1>4, <1>11 DEF n, S, f

\* The commissions count by their amount: those of one sign may be added first.
LEMMA NetsAddUp ==
    ASSUME NEW g, IsFiniteSet(g), \A t \in g : Priced(t),
           (\A t \in g : t.commission >= 0) \/ (\A t \in g : t.commission <= 0)
    PROVE  SumOf(g, Raws(g)) - Abs(SumOf(g, Commissions(g))) + SumOf(g, Swaps(g)) = SumOf(g, Nets(g))
<1> DEFINE r == Raws(g)
           c == Commissions(g)
           w == Swaps(g)
           m == Nets(g)
           plus == \A t \in g : t.commission >= 0
           minus == \A t \in g : t.commission <= 0
           P == {U \in SUBSET g :
                   /\ SumOf(U, r) - Abs(SumOf(U, c)) + SumOf(U, w) = SumOf(U, m)
                   /\ plus => SumOf(U, c) >= 0
                   /\ minus => SumOf(U, c) <= 0}
<1>1. Amounts(g, r) /\ Amounts(g, c) /\ Amounts(g, w) /\ Amounts(g, m)
    BY PricedAmounts
<1>2. \A t \in g : /\ r[t] = t.raw /\ c[t] = t.commission /\ w[t] = t.swap /\ m[t] = Net(t)
                   /\ r[t] \in Int /\ c[t] \in Int /\ w[t] \in Int
  <2>1. \A t \in g : r[t] = t.raw /\ c[t] = t.commission /\ w[t] = t.swap /\ m[t] = Net(t)
    BY DEF Raws, Commissions, Swaps, Nets
  <2> QED BY <2>1 DEF Priced
<1> HIDE DEF r, c, w, m
<1>3. ASSUME NEW U \in SUBSET g
      PROVE  Amounts(U, r) /\ Amounts(U, c) /\ Amounts(U, w) /\ Amounts(U, m)
    BY <1>1, FS_Subset DEF Amounts
<1>4. {} \in P
  <2>1. SumOf({}, r) = 0 /\ SumOf({}, c) = 0 /\ SumOf({}, w) = 0 /\ SumOf({}, m) = 0
    <3>1. {} \in SUBSET g
      OBVIOUS
    <3> QED BY <1>3, <3>1, SumLaws
  <2> QED BY <2>1 DEF Abs
<1>5. ASSUME NEW U \in SUBSET g, NEW x \in g \ U, U \in P PROVE U \cup {x} \in P
  <2> DEFINE V == U \cup {x}
             R0 == SumOf(U, r)
             C0 == SumOf(U, c)
             W0 == SumOf(U, w)
             M0 == SumOf(U, m)
             R1 == SumOf(V, r)
             C1 == SumOf(V, c)
             W1 == SumOf(V, w)
             M1 == SumOf(V, m)
  <2>1. R0 \in Int /\ C0 \in Int /\ W0 \in Int /\ M0 \in Int
    BY <1>3, SumLaws
  <2>2. x \notin U /\ m[x] \in Int
    BY <1>1 DEF Amounts
  <2>3. R1 = r[x] + R0 /\ C1 = c[x] + C0 /\ W1 = w[x] + W0 /\ M1 = m[x] + M0
    <3>1. r[x] \in Int /\ c[x] \in Int /\ w[x] \in Int /\ m[x] \in Int
      BY <1>2, <2>2
    <3> QED BY <1>3, <2>2, <3>1, SumAdded
  <2>4. R0 - Abs(C0) + W0 = M0 /\ (plus => C0 >= 0) /\ (minus => C0 <= 0)
    BY <1>5
  <2>5. V \in SUBSET g
    OBVIOUS
  <2> DEFINE a == r[x]
             b == c[x]
             d == w[x]
             o == m[x]
  <2>6. a \in Int /\ b \in Int /\ d \in Int /\ o = a - Abs(b) + d
    <3>1. m[x] = Net(x)
      BY <1>2
    <3> QED BY <1>2, <3>1 DEF Net
  <2>7. (plus => b >= 0) /\ (minus => b <= 0) /\ (plus \/ minus)
    BY <1>2
  <2>8. R1 = a + R0 /\ C1 = b + C0 /\ W1 = d + W0 /\ M1 = o + M0
    BY <2>3
  <2> HIDE DEF V, R0, C0, W0, M0, R1, C1, W1, M1, a, b, d, o, plus, minus
  <2>9. /\ R1 - Abs(C1) + W1 = M1
        /\ plus => C1 >= 0
        /\ minus => C1 <= 0
    <3>1. CASE plus
      BY <2>1, <2>4, <2>6, <2>7, <2>8, <3>1 DEF Abs
    <3>2. CASE minus
      BY <2>1, <2>4, <2>6, <2>7, <2>8, <3>2 DEF Abs
    <3> QED BY <2>7, <3>1, <3>2
  <2>10. /\ SumOf(V, r) - Abs(SumOf(V, c)) + SumOf(V, w) = SumOf(V, m)
         /\ plus => SumOf(V, c) >= 0
         /\ minus => SumOf(V, c) <= 0
    BY <2>9 DEF R1, C1, W1, M1
  <2>11. V \in P
    BY <2>5, <2>10 DEF plus, minus
  <2> QED BY <2>11 DEF V
<1> HIDE DEF P
<1>6. g \in P
  <2>1. SUBSET g \subseteq P
    BY <1>4, <1>5, FiniteSubsets
  <2> QED BY <2>1
<1> QED BY <1>6 DEF P, r, c, w, m

\* A tidy bundle makes what its members make.
LEMMA TidyBundle ==
    ASSUME NEW g, Proper(g), g # {}, \A t \in g : Priced(t),
           NEW b, \A v \in g : v.bundle = b, Tidy(g)
    PROVE  LET o == OneTrade(g) IN
           /\ o.known /\ o.closed # Nil
           /\ Amounts(g, Nets(g)) /\ Net(o) = SumOf(g, Nets(g))
<1> DEFINE o == OneTrade(g)
           counted == {t \in g : t.closed # Nil /\ t.known}
<1>1. /\ o.known <=> \A t \in g : t.closed # Nil
      /\ o.closed # Nil <=> \A t \in g : t.closed # Nil
      /\ o.raw = SumOf(counted, Raws(counted))
      /\ o.commission = SumOf(g, Commissions(g))
      /\ o.swap = SumOf(g, Swaps(g))
    BY OneTradeMoney
<1>2. /\ \A t \in g : t.closed # Nil /\ t.known
      /\ (\A t \in g : t.commission >= 0) \/ (\A t \in g : t.commission <= 0)
    BY DEF Tidy
<1>3. counted = g
    BY <1>2
<1>4. IsFiniteSet(g)
    BY DEF Proper
<1>5. SumOf(g, Raws(g)) - Abs(SumOf(g, Commissions(g))) + SumOf(g, Swaps(g)) = SumOf(g, Nets(g))
    BY <1>2, <1>4, NetsAddUp
<1>6. Amounts(g, Nets(g))
    BY <1>4, PricedAmounts
<1> HIDE DEF o, counted
<1>7. Net(o) = SumOf(g, Nets(g))
    BY <1>1, <1>3, <1>5 DEF Net
<1>8. o.known /\ o.closed # Nil
    BY <1>1, <1>2
<1> QED BY <1>6, <1>7, <1>8 DEF o
-----------------------------------------------------------------------------
(* Bundles change no total *)

AllTidy(T) == \A g \in Bundles(T) : Tidy(g)

SingleTrades(T) == {t \in T : t.bundle = Nil /\ Closed(t) /\ t.known}

\* With tidy bundles the records are the single trades and the bundles.
LEMMA TidyRecords ==
    ASSUME NEW T, Proper(T), \A t \in T : Priced(t), AllTidy(T)
    PROVE  /\ Recorded(T) = SingleTrades(T) \cup {OneTrade(g) : g \in Bundles(T)}
           /\ \A g \in Bundles(T) : /\ OneTrade(g).bundle # Nil
                                    /\ g = {u \in T : u.bundle = OneTrade(g).bundle}
                                    /\ Amounts(g, Nets(g))
                                    /\ Net(OneTrade(g)) = SumOf(g, Nets(g))
           /\ KnownTrades(T) = SingleTrades(T) \cup UNION Bundles(T)
           /\ \A t \in SingleTrades(T) : t.bundle = Nil
<1>1. ASSUME NEW g \in Bundles(T)
      PROVE  /\ OneTrade(g).bundle # Nil /\ g = {u \in T : u.bundle = OneTrade(g).bundle}
             /\ OneTrade(g).known /\ Closed(OneTrade(g))
             /\ Amounts(g, Nets(g)) /\ Net(OneTrade(g)) = SumOf(g, Nets(g))
             /\ \A t \in g : t \in T /\ t.bundle # Nil /\ Closed(t) /\ t.known
  <2>1. PICK b : b # Nil /\ g = {u \in T : u.bundle = b}
    BY BundlesOf
  <2>2. Proper(g) /\ g # {} /\ \A t \in g : Priced(t) /\ t.bundle = b /\ t \in T
    BY <2>1, BundlesOf
  <2>3. Tidy(g)
    BY DEF AllTidy
  <2>4. OneTrade(g).bundle = b
    BY <2>2, OneTradeFacts
  <2>5. /\ OneTrade(g).known /\ OneTrade(g).closed # Nil
        /\ Amounts(g, Nets(g)) /\ Net(OneTrade(g)) = SumOf(g, Nets(g))
    BY <2>2, <2>3, TidyBundle
  <2>6. Closed(OneTrade(g))
    BY <2>5 DEF Closed
  <2>7. \A t \in g : Closed(t) /\ t.known
    BY <2>3 DEF Tidy, Closed
  <2> QED BY <2>1, <2>2, <2>4, <2>5, <2>6, <2>7
<1>2. Recorded(T) = SingleTrades(T) \cup {OneTrade(g) : g \in Bundles(T)}
    BY <1>1 DEF Recorded, Merged, SingleTrades
<1>3. \A t \in T : t.bundle # Nil => t \in UNION Bundles(T)
    BY DEF Bundles
<1>4. KnownTrades(T) = SingleTrades(T) \cup UNION Bundles(T)
    BY <1>1, <1>3 DEF KnownTrades, SingleTrades
<1>5. \A t \in SingleTrades(T) : t.bundle = Nil
    BY DEF SingleTrades
<1> QED BY <1>1, <1>2, <1>4, <1>5

LEMMA BundlesChangeNoTotal ==
    ASSUME NEW T, Proper(T), \A t \in T : Priced(t), AllTidy(T)
    PROVE  NetPnl(T) = Total(KnownTrades(T), Net)
<1> DEFINE R == Recorded(T)
           K == KnownTrades(T)
           S == SingleTrades(T)
           F == Bundles(T)
           b == [g \in F |-> OneTrade(g)]
           h == [g \in F |-> Net(OneTrade(g))]
           Im == {b[g] : g \in F}
           N == Nets(R)
           M == Nets(K)
<1>1. /\ R = S \cup Im /\ K = S \cup UNION F
      /\ \A g \in F : /\ b[g].bundle # Nil /\ g = {u \in T : u.bundle = b[g].bundle}
                      /\ Amounts(g, Nets(g)) /\ h[g] = SumOf(g, Nets(g)) /\ h[g] = Net(b[g])
      /\ \A t \in S : t.bundle = Nil
    BY TidyRecords
<1>2. RecordList(T, Records(T))
    BY RecordsAreListed
<1>3. Amounts(R, N) /\ NetPnl(T) = SumOf(R, N)
    BY <1>2, NetPnlIsSum
<1>4. K \subseteq T /\ IsFiniteSet(K) /\ IsFiniteSet(F) /\ F \subseteq SUBSET T
    BY BundlesAreFinite, BundlesOf, FS_Subset DEF KnownTrades, Proper
<1>5. Amounts(K, M) /\ \A t \in K : M[t] = Net(t)
  <2>1. \A t \in K : Priced(t)
    BY <1>4
  <2> QED BY <1>4, <2>1, PricedAmounts DEF Nets
<1>6. Total(K, Net) = SumOf(K, M)
    BY <1>5, TotalNet
<1>7. \A t \in R : N[t] = Net(t)
    BY DEF Nets
<1>8. \A g \in F : \A t \in g : Nets(g)[t] = Net(t)
    BY DEF Nets
<1>9. DOMAIN b = F
    OBVIOUS
<1> HIDE DEF R, K, S, F, b, h, N, M
<1>10. S \cap Im = {}
    BY <1>1
<1>11. S \cap UNION F = {}
    BY <1>1
<1>12. Amounts(S, N) /\ Amounts(Im, N) /\ Amounts(S, M) /\ Amounts(UNION F, M)
  <2>1. S \subseteq R /\ Im \subseteq R /\ S \subseteq K /\ UNION F \subseteq K
    BY <1>1
  <2> HIDE DEF Im
  <2> QED BY <1>3, <1>5, <2>1, FS_Subset DEF Amounts
<1>13. SumOf(R, N) = SumOf(S, N) + SumOf(Im, N)
  <2> HIDE DEF Im
  <2> QED BY <1>1, <1>10, <1>12, SumApart
<1>14. SumOf(K, M) = SumOf(S, M) + SumOf(UNION F, M)
  <2>1. K = S \cup UNION F
    BY <1>1
  <2> DEFINE U == UNION F
  <2>2. S \cap U = {} /\ Amounts(S, M) /\ Amounts(U, M)
    BY <1>11, <1>12
  <2> HIDE DEF U
  <2>3. SumOf(S \cup U, M) = SumOf(S, M) + SumOf(U, M)
    BY <2>2, SumApart
  <2> QED BY <2>1, <2>3 DEF U
<1>15. SumOf(S, N) = SumOf(S, M)
  <2>1. \A t \in S : N[t] = M[t]
    BY <1>1, <1>5, <1>7
  <2> QED BY <1>12, <2>1, SumSame
<1>16. SumOf(Im, N) = SumOf(F, h)
  <2>1. ASSUME NEW x \in F, NEW y \in F, b[x] = b[y] PROVE x = y
    <3>1. x = {u \in T : u.bundle = b[x].bundle} /\ y = {u \in T : u.bundle = b[y].bundle}
      BY <1>1
    <3> QED BY <2>1, <3>1
  <2>2. \A x \in F : b[x] \in R /\ h[x] = N[b[x]] /\ N[b[x]] \in Int
    BY <1>1, <1>3, <1>7 DEF Amounts
  <2>3. IsFiniteSet(F)
    BY <1>4
  <2>4. SumOf({b[x] : x \in F}, N) = SumOf(F, h)
    <3>1. \A x, y \in F : b[x] = b[y] => x = y
      BY <2>1
    <3>2. \A x \in F : N[b[x]] \in Int
      BY <2>2
    <3>3. \A x \in F : h[x] = N[b[x]]
      BY <2>2
    <3> QED BY <1>9, <2>3, <3>1, <3>2, <3>3, SumOfImages
  <2> QED BY <2>4
<1>17. SumOf(UNION F, M) = SumOf(F, h)
  <2>1. ASSUME NEW x \in F, NEW y \in F, x # y PROVE x \cap y = {}
    <3>1. x = {u \in T : u.bundle = b[x].bundle} /\ y = {u \in T : u.bundle = b[y].bundle}
      BY <1>1
    <3> QED BY <2>1, <3>1
  <2>2. ASSUME NEW g \in F PROVE Amounts(g, M) /\ h[g] = SumOf(g, M)
    <3>1. \A t \in g : t \in K /\ Nets(g)[t] = M[t]
      BY <1>1, <1>5, <1>8
    <3>2. Amounts(g, Nets(g))
      BY <1>1
    <3>3. SumOf(g, Nets(g)) = SumOf(g, M)
      BY <3>1, <3>2, SumSame
    <3>4. Amounts(g, M)
      BY <1>5, <3>1, <3>2 DEF Amounts
    <3> QED BY <1>1, <3>3, <3>4
  <2>3. IsFiniteSet(F)
    BY <1>4
  <2>4. Apart(F)
    BY <2>1 DEF Apart
  <2>5. SumsOf(h, F, M)
    BY <2>2 DEF SumsOf
  <2> QED BY <2>3, <2>4, <2>5, SumOfFamily
<1>18. NetPnl(T) = Total(K, Net)
    BY <1>3, <1>6, <1>13, <1>14, <1>15, <1>16, <1>17
<1> QED BY <1>18 DEF K
-----------------------------------------------------------------------------
(* The running P&L *)

\* The trades whose P&L counts between from and to
Counting(T, from, to) ==
    {t \in Merged({u \in T : Closed(u)}) : Closed(t) /\ t.known /\ In(Realized(t), from, to)}
Flowing(from, to) == {f \in Flows : In(f.at, from, to)}

LEMMA RunningSums ==
    ASSUME NEW T, Proper(T), \A t \in T : Priced(t)
    PROVE  LET C == {t \in Merged({u \in T : Closed(u)}) : Closed(t) /\ t.known} IN
           /\ Amounts(C, Nets(C)) /\ \A t \in C : Realized(t) \in Nat
           /\ \A from, to :
                 /\ Counting(T, from, to) = {t \in C : In(Realized(t), from, to)}
                 /\ RealizedPnl(T, from, to) = SumOf(Counting(T, from, to), Nets(C))
                 /\ RealizedPnl(T, from, to) \in Int
           /\ Amounts(Flows, FlowAmounts(Flows))
           /\ \A from, to : /\ CashFlow(from, to) = SumOf(Flowing(from, to), FlowAmounts(Flows))
                            /\ CashFlow(from, to) \in Int
<1> DEFINE D == {u \in T : Closed(u)}
           C == {t \in Merged(D) : Closed(t) /\ t.known}
           f == Nets(C)
           a == FlowAmounts(Flows)
<1>1. Proper(D) /\ \A t \in D : Priced(t)
    BY PartIsProper
<1>2. Proper(Merged(D)) /\ \A t \in Merged(D) : Priced(t)
  <2> HIDE DEF D
  <2> QED BY <1>1, MergedIsProper, MergedIsPriced
<1>3. IsFiniteSet(C) /\ \A t \in C : Priced(t)
    BY <1>2, FS_Subset DEF Proper
<1>4. \A from, to : Counting(T, from, to) = {t \in C : In(Realized(t), from, to)}
    BY DEF Counting
<1>5. \A from, to : RealizedPnl(T, from, to) = Total(Counting(T, from, to), Net)
    BY DEF RealizedPnl, Counting
<1> HIDE DEF D, C
<1>6. Amounts(C, f) /\ \A t \in C : f[t] = Net(t) /\ Realized(t) \in Nat
    BY <1>3, PricedAmounts DEF Nets, Priced, IsTrade, Realized
<1>7. ASSUME NEW from, NEW to
      PROVE  /\ RealizedPnl(T, from, to) = SumOf(Counting(T, from, to), f)
             /\ RealizedPnl(T, from, to) \in Int
  <2> DEFINE S == Counting(T, from, to)
  <2>1. S \subseteq C
    BY <1>4
  <2> HIDE DEF S
  <2>2. IsFiniteSet(S) /\ \A t \in S : Priced(t) /\ f[t] = Nets(S)[t]
    BY <1>3, <1>6, <2>1, FS_Subset DEF Nets
  <2>3. Amounts(S, Nets(S)) /\ Amounts(S, f)
    BY <1>6, <2>1, <2>2, PricedAmounts DEF Amounts
  <2>4. Total(S, Net) = SumOf(S, Nets(S))
    BY <2>3, TotalNet
  <2>5. SumOf(S, f) = SumOf(S, Nets(S)) /\ SumOf(S, f) \in Int
    BY <2>2, <2>3, SumSame, SumLaws
  <2>6. RealizedPnl(T, from, to) = Total(S, Net)
    BY <1>5 DEF S
  <2> QED BY <2>4, <2>5, <2>6 DEF S
<1>8. IsFiniteSet(Flows) /\ \A x \in Flows : a[x] = x.amount /\ a[x] \in Int
    BY FiguresAssumption DEF FlowAmounts
<1>9. Amounts(Flows, a)
    BY <1>8 DEF Amounts
<1>10. ASSUME NEW from, NEW to
       PROVE  CashFlow(from, to) = SumOf(Flowing(from, to), a) /\ CashFlow(from, to) \in Int
  <2> DEFINE S == Flowing(from, to)
  <2>1. S \subseteq Flows /\ CashFlow(from, to) = Total(S, LAMBDA x : x.amount)
    BY DEF Flowing, CashFlow
  <2> HIDE DEF S
  <2>2. Amounts(S, a)
    BY <1>9, <2>1, FS_Subset DEF Amounts
  <2>3. \A x \in S : a[x] = FlowAmounts(S)[x] /\ FlowAmounts(S)[x] \in Int
    BY <1>8, <2>1 DEF FlowAmounts
  <2>4. Amounts(S, FlowAmounts(S))
    BY <2>2, <2>3 DEF Amounts
  <2>5. Total(S, LAMBDA x : x.amount) = SumOf(S, FlowAmounts(S))
    BY <2>4, TotalFlow
  <2>6. SumOf(S, a) = SumOf(S, FlowAmounts(S)) /\ SumOf(S, a) \in Int
    BY <2>2, <2>3, SumSame, SumLaws
  <2> QED BY <2>1, <2>5, <2>6 DEF S
<1> QED BY <1>4, <1>6, <1>7, <1>9, <1>10 DEF C, D

\* Adjacent time ranges add up.
LEMMA RangesAddUp ==
    ASSUME NEW T, Proper(T), \A t \in T : Priced(t),
           NEW from \in Nat, NEW cut \in Nat, NEW to \in Nat, from <= cut, cut <= to
    PROVE  NetResult(T, from, cut) + NetResult(T, cut, to) = NetResult(T, from, to)
<1> DEFINE C == {t \in Merged({u \in T : Closed(u)}) : Closed(t) /\ t.known}
           f == Nets(C)
           a == FlowAmounts(Flows)
<1>1. /\ Amounts(C, f) /\ \A t \in C : Realized(t) \in Nat
      /\ \A p, q : /\ Counting(T, p, q) = {t \in C : In(Realized(t), p, q)}
                   /\ RealizedPnl(T, p, q) = SumOf(Counting(T, p, q), f)
                   /\ RealizedPnl(T, p, q) \in Int
      /\ Amounts(Flows, a)
      /\ \A p, q : /\ CashFlow(p, q) = SumOf(Flowing(p, q), a)
                   /\ CashFlow(p, q) \in Int
    BY RunningSums
<1> HIDE DEF C, f, a
<1>2. \A x \in Nat : (In(x, from, to) <=> In(x, from, cut) \/ In(x, cut, to))
                     /\ ~(In(x, from, cut) /\ In(x, cut, to))
    BY DEF In
<1>3. RealizedPnl(T, from, to) = RealizedPnl(T, from, cut) + RealizedPnl(T, cut, to)
  <2> DEFINE A == Counting(T, from, cut)
             B == Counting(T, cut, to)
             U == Counting(T, from, to)
  <2>1. U = A \cup B /\ A \cap B = {} /\ A \subseteq C /\ B \subseteq C
    BY <1>1, <1>2
  <2> HIDE DEF A, B, U
  <2>2. Amounts(A, f) /\ Amounts(B, f)
    BY <1>1, <2>1, FS_Subset DEF Amounts
  <2>3. SumOf(U, f) = SumOf(A, f) + SumOf(B, f)
    BY <2>1, <2>2, SumApart
  <2> QED BY <1>1, <2>3 DEF A, B, U
<1>4. CashFlow(from, to) = CashFlow(from, cut) + CashFlow(cut, to)
  <2> DEFINE A == Flowing(from, cut)
             B == Flowing(cut, to)
             U == Flowing(from, to)
  <2>0. \A x \in Flows : x.at \in Nat
    BY FiguresAssumption
  <2>1. U = A \cup B /\ A \cap B = {} /\ A \subseteq Flows /\ B \subseteq Flows
    BY <1>2, <2>0 DEF Flowing
  <2> HIDE DEF A, B, U
  <2>2. Amounts(A, a) /\ Amounts(B, a)
    BY <1>1, <2>1, FS_Subset DEF Amounts
  <2>3. SumOf(U, a) = SumOf(A, a) + SumOf(B, a)
    BY <2>1, <2>2, SumApart
  <2> QED BY <1>1, <2>3 DEF A, B, U
<1> DEFINE r1 == RealizedPnl(T, from, cut)
           r2 == RealizedPnl(T, cut, to)
           r3 == RealizedPnl(T, from, to)
           c1 == CashFlow(from, cut)
           c2 == CashFlow(cut, to)
           c3 == CashFlow(from, to)
<1>5. r1 \in Int /\ r2 \in Int /\ c1 \in Int /\ c2 \in Int /\ r3 = r1 + r2 /\ c3 = c1 + c2
    BY <1>1, <1>3, <1>4
<1>6. /\ NetResult(T, from, cut) = r1 + c1 /\ NetResult(T, cut, to) = r2 + c2
      /\ NetResult(T, from, to) = r3 + c3
    BY DEF NetResult
<1> HIDE DEF r1, r2, r3, c1, c2, c3
<1> QED BY <1>5, <1>6

\* Over the whole time the running P&L is the net P&L.
LEMMA RunningEndsAtNet ==
    ASSUME NEW T, Proper(T), \A t \in T : Priced(t), AllTidy(T),
           NEW now \in Nat, \A t \in Merged(T) : Realized(t) < now
    PROVE  RealizedPnl(T, 0, now) = NetPnl(T)
<1> DEFINE D == {u \in T : Closed(u)}
           C == {t \in Merged(D) : Closed(t) /\ t.known}
<1>1. \A g \in Bundles(T) : g \subseteq D /\ \E b : b # Nil /\ g = {u \in T : u.bundle = b}
  <2> SUFFICES ASSUME NEW g \in Bundles(T)
               PROVE  g \subseteq D /\ \E b : b # Nil /\ g = {u \in T : u.bundle = b}
    OBVIOUS
  <2>1. Tidy(g) /\ g \subseteq T /\ \E b : b # Nil /\ g = {u \in T : u.bundle = b}
    BY BundlesOf DEF AllTidy
  <2> QED BY <2>1 DEF Tidy, Closed
<1>2. Bundles(D) = Bundles(T)
  <2>1. ASSUME NEW t \in T, t.bundle # Nil
        PROVE  t \in D /\ {u \in D : u.bundle = t.bundle} = {u \in T : u.bundle = t.bundle}
    <3>1. {u \in T : u.bundle = t.bundle} \in Bundles(T)
      BY <2>1 DEF Bundles
    <3>2. {u \in T : u.bundle = t.bundle} \subseteq D
      BY <1>1, <3>1
    <3> QED BY <3>2
  <2>2. {v \in D : v.bundle # Nil} = {v \in T : v.bundle # Nil}
    BY <2>1
  <2>3. D \subseteq T
    OBVIOUS
  <2> HIDE DEF D
  <2> QED BY <2>1, <2>2, <2>3 DEF Bundles
<1>3. C = Recorded(T)
  <2>1. {t \in D : t.bundle = Nil} = {t \in T : t.bundle = Nil /\ Closed(t)}
    OBVIOUS
  <2> HIDE DEF D
  <2> QED BY <1>2, <2>1 DEF Recorded, Merged
<1>4. /\ \A t \in C : Realized(t) \in Nat
      /\ Counting(T, 0, now) = {t \in C : In(Realized(t), 0, now)}
      /\ RealizedPnl(T, 0, now) = SumOf(Counting(T, 0, now), Nets(C))
    BY RunningSums
<1> HIDE DEF C
<1>5. Counting(T, 0, now) = Recorded(T)
  <2>1. \A t \in C : In(Realized(t), 0, now)
    BY <1>3, <1>4 DEF In, Recorded
  <2> QED BY <1>3, <1>4, <2>1
<1>6. NetPnl(T) = SumOf(Recorded(T), Nets(Recorded(T)))
    BY RecordsAreListed, NetPnlIsSum
<1> QED BY <1>3, <1>4, <1>5, <1>6
-----------------------------------------------------------------------------
(* Stops and targets *)

LEMMA TargetsMeasure ==
    ASSUME NEW T, NEW t \in Rated(T), Priced(t)
    PROVE  /\ t \in ClosedBeforeTarget(T) => Actual(t) < Planned(t)
           /\ t \in Range(Records(T)) \ ClosedBeforeTarget(T) /\ Net(t) > 0
                 => Actual(t) >= Planned(t) - Tolerance
<1>1. /\ Tolerance \in Nat /\ t.exit \in Nat /\ t.entry \in Nat /\ t.tp \in Nat
      /\ t.exit # Nil /\ t.tp # Nil /\ GoodTarget(t)
    BY PatternsAssumption DEF Rated, Priced
<1> DEFINE x == t.exit
           p == t.tp
           e == t.entry
           reached == Towards(t, x, p) >= -Tolerance
<1>2. t \in ClosedBeforeTarget(T) => ~reached
    BY <1>1 DEF ClosedBeforeTarget, ReachedTarget
<1>3. t \in Range(Records(T)) \ ClosedBeforeTarget(T) /\ Net(t) > 0 => reached
    BY <1>1 DEF ClosedBeforeTarget, ReachedTarget
<1>4. Actual(t) = Towards(t, x, e) /\ Planned(t) = Towards(t, p, e)
    BY DEF Actual, Planned
<1>5. x \in Nat /\ p \in Nat /\ e \in Nat /\ Tolerance \in Nat
    BY <1>1
<1> HIDE DEF x, p, e
<1>6. (~reached => Actual(t) < Planned(t)) /\ (reached => Actual(t) >= Planned(t) - Tolerance)
  <2>1. CASE t.side = "SELL"
    BY <1>4, <1>5, <2>1 DEF Towards
  <2>2. CASE t.side # "SELL"
    BY <1>4, <1>5, <2>2 DEF Towards
  <2> QED BY <2>1, <2>2
<1> QED BY <1>2, <1>3, <1>6

LEMMA StopsMeasure ==
    ASSUME NEW T, NEW t \in Rated(T), Priced(t)
    PROVE  /\ t \in ClosedBeforeStop(T) => Actual(t) > -Risk(t)
           /\ t \in Range(Records(T)) \ ClosedBeforeStop(T) /\ Net(t) < 0
                 => Actual(t) <= -Risk(t) + Tolerance
<1>1. /\ Tolerance \in Nat /\ t.exit \in Nat /\ t.entry \in Nat /\ t.sl \in Nat
      /\ t.exit # Nil /\ t.sl # Nil /\ GoodStop(t)
    BY PatternsAssumption DEF Rated, Priced
<1> DEFINE x == t.exit
           p == t.sl
           e == t.entry
           reached == Towards(t, p, x) >= -Tolerance
<1>2. t \in ClosedBeforeStop(T) => ~reached
    BY <1>1 DEF ClosedBeforeStop, ReachedStop
<1>3. t \in Range(Records(T)) \ ClosedBeforeStop(T) /\ Net(t) < 0 => reached
    BY <1>1 DEF ClosedBeforeStop, ReachedStop
<1>4. Actual(t) = Towards(t, x, e) /\ Risk(t) = Abs(e - p) /\ Towards(t, e, p) > Tolerance
    BY <1>1 DEF Actual, Risk, GoodStop
<1>5. x \in Nat /\ p \in Nat /\ e \in Nat /\ Tolerance \in Nat
    BY <1>1
<1> HIDE DEF x, p, e
<1>6. (~reached => Actual(t) > -Risk(t)) /\ (reached => Actual(t) <= -Risk(t) + Tolerance)
  <2>1. CASE t.side = "SELL"
    <3>1. e - p < 0
      BY <1>4, <1>5, <2>1 DEF Towards
    <3>2. -Risk(t) = e - p
      BY <1>4, <1>5, <3>1 DEF Abs
    <3> QED BY <1>4, <1>5, <2>1, <3>2 DEF Towards
  <2>2. CASE t.side # "SELL"
    <3>1. e - p > 0
      BY <1>4, <1>5, <2>2 DEF Towards
    <3>2. Risk(t) = e - p
      BY <1>4, <1>5, <3>1 DEF Abs
    <3> QED BY <1>4, <1>5, <2>2, <3>2 DEF Towards
  <2> QED BY <2>1, <2>2
<1> QED BY <1>2, <1>3, <1>6
-----------------------------------------------------------------------------
(* The figures agree. *)

LEMMA GreatestOf ==
    ASSUME NEW S, IsFiniteSet(S), S \subseteq Nat
    PROVE  LET m == Max({0} \cup S) IN m \in Nat /\ \A x \in S : x <= m
<1> DEFINE P == {U \in SUBSET S : \E m \in {0} \cup U : \A x \in {0} \cup U : x <= m}
<1>1. {} \in P
    OBVIOUS
<1>2. ASSUME NEW U \in SUBSET S, NEW y \in S \ U, U \in P PROVE U \cup {y} \in P
  <2>1. PICK m \in {0} \cup U : \A x \in {0} \cup U : x <= m
    BY <1>2
  <2>2. m \in Nat /\ y \in Nat /\ \A x \in U : x \in Nat
    OBVIOUS
  <2>3. CASE y <= m
    <3>1. \A x \in {0} \cup (U \cup {y}) : x <= m
      BY <2>1, <2>3
    <3> QED BY <3>1
  <2>4. CASE ~(y <= m)
    <3>1. \A x \in {0} \cup (U \cup {y}) : x <= y
      BY <2>1, <2>2, <2>4
    <3> QED BY <3>1
  <2> QED BY <2>3, <2>4
<1> HIDE DEF P
<1>3. SUBSET S \subseteq P
    BY <1>1, <1>2, FiniteSubsets
<1>4. PICK m \in {0} \cup S : \A x \in {0} \cup S : x <= m
    BY <1>3 DEF P
<1>5. {0} \cup S \subseteq Int
    OBVIOUS
<1> DEFINE A == {0} \cup S
<1>6. A \subseteq Int /\ m \in A /\ \A x \in A : x <= m
    BY <1>4, <1>5
<1> HIDE DEF A
<1>7. Max(A) = m
    BY <1>6, MaxIs
<1> QED BY <1>4, <1>7 DEF A

LEMMA FiguresHold == FiguresAgree
<1> DEFINE T == Journal
           s == Records(T)
           e == Curve(s)
           ends == {Realized(t) : t \in Merged(T)}
           m == Max({0} \cup ends)
           now == m + 1
           longest(o) == LET Runs == {r \in (1..Len(s)) \X (1..Len(s)) :
                                        r[1] <= r[2] /\ \A i \in r[1]..r[2] : Outcome(s[i]) = o}
                         IN  {0} \cup {r[2] - r[1] + 1 : r \in Runs}
<1>1. Proper(T) /\ \A t \in T : Priced(t)
    BY JournalIsProper, PricedJournal
<1>2. Proper(Merged(T)) /\ \A t \in Merged(T) : Priced(t)
    BY <1>1, MergedIsProper, MergedIsPriced
<1>3. RecordList(T, s)
    BY <1>1, RecordsAreListed
<1>4. /\ ends \subseteq Nat /\ IsFiniteSet(ends)
  <2> DEFINE f == [t \in Merged(T) |-> Realized(t)]
  <2>1. DOMAIN f = Merged(T) /\ ends = {f[t] : t \in Merged(T)}
    OBVIOUS
  <2>2. \A t \in Merged(T) : Realized(t) \in Nat
    BY <1>2 DEF Proper, IsTrade, Realized
  <2> HIDE DEF f
  <2>3. IsFiniteSet(Merged(T))
    BY <1>2 DEF Proper
  <2>4. IsFiniteSet({f[t] : t \in Merged(T)})
    BY <2>1, <2>3, ImageIsFinite
  <2> QED BY <2>1, <2>2, <2>4
<1>5. m \in Nat /\ \A x \in ends : x <= m
  <2> HIDE DEF ends
  <2> QED BY <1>4, GreatestOf
<1>6. Drawdown(T) = Max({e[r[1]] - e[r[2]] : r \in {q \in (0..Len(s)) \X (0..Len(s)) : q[1] <= q[2]}})
    BY <1>3, DrawdownIsDeepest DEF Falls
<1>7. \A o \in {"win", "loss"} : Streaks(T).best[o] = Max(longest(o))
  <2> SUFFICES ASSUME NEW o \in {"win", "loss"} PROVE Streaks(T).best[o] = Max(longest(o))
    OBVIOUS
  <2>1. o \in Outcomes
    BY DEF Outcomes
  <2> QED BY <1>3, <2>1, StreaksAreLongest DEF Longest
<1>8. (\A g \in Bundles(T) : Tidy(g)) =>
         /\ NetPnl(T) = Total(KnownTrades(T), Net)
         /\ RealizedPnl(T, 0, now) = NetPnl(T)
  <2> SUFFICES ASSUME AllTidy(T)
               PROVE  /\ NetPnl(T) = Total(KnownTrades(T), Net)
                      /\ RealizedPnl(T, 0, now) = NetPnl(T)
    BY DEF AllTidy
  <2>1. now \in Nat /\ \A t \in Merged(T) : Realized(t) < now
    <3>1. \A t \in Merged(T) : Realized(t) \in Nat /\ Realized(t) <= m
      BY <1>4, <1>5
    <3> HIDE DEF m
    <3> QED BY <1>5, <3>1
  <2> HIDE DEF now, T
  <2> QED BY <1>1, <2>1, BundlesChangeNoTotal, RunningEndsAtNet
<1>9. \A cut \in ends : NetResult(T, 0, cut) + NetResult(T, cut, now) = NetResult(T, 0, now)
  <2> SUFFICES ASSUME NEW cut \in ends
               PROVE  NetResult(T, 0, cut) + NetResult(T, cut, now) = NetResult(T, 0, now)
    OBVIOUS
  <2>1. cut \in Nat /\ cut <= m /\ m \in Nat
    BY <1>4, <1>5
  <2> HIDE DEF m, ends, T
  <2>2. now \in Nat /\ 0 <= cut /\ cut <= now /\ 0 \in Nat
    BY <2>1
  <2> HIDE DEF now
  <2> QED BY <1>1, <2>1, <2>2, RangesAddUp
<1>10. \A t \in Rated(T) :
         /\ t \in ClosedBeforeTarget(T) => Actual(t) < Planned(t)
         /\ t \in Range(s) \ ClosedBeforeTarget(T) /\ Net(t) > 0
               => Actual(t) >= Planned(t) - Tolerance
         /\ t \in ClosedBeforeStop(T) => Actual(t) > -Risk(t)
         /\ t \in Range(s) \ ClosedBeforeStop(T) /\ Net(t) < 0
               => Actual(t) <= -Risk(t) + Tolerance
  <2> SUFFICES ASSUME NEW t \in Rated(T)
               PROVE  /\ t \in ClosedBeforeTarget(T) => Actual(t) < Planned(t)
                      /\ t \in Range(s) \ ClosedBeforeTarget(T) /\ Net(t) > 0
                            => Actual(t) >= Planned(t) - Tolerance
                      /\ t \in ClosedBeforeStop(T) => Actual(t) > -Risk(t)
                      /\ t \in Range(s) \ ClosedBeforeStop(T) /\ Net(t) < 0
                            => Actual(t) <= -Risk(t) + Tolerance
    OBVIOUS
  <2>1. Priced(t)
    BY <1>2 DEF Rated
  <2> HIDE DEF T
  <2> QED BY <2>1, TargetsMeasure, StopsMeasure DEF s
<1> QED BY <1>6, <1>7, <1>8, <1>9, <1>10 DEF FiguresAgree

\* However the trades were bundled, edited and removed, the figures agree: the
\* drawdown is the deepest fall, the streaks are the longest runs, confirmed
\* bundles change no total, the running P&L ends at the net P&L and adds up
\* over adjacent ranges, and stops and targets are told apart (trading.py:2504,
\* 2586, 2959, 3096, helpers/running_pnl.py:39).
THEOREM FiguresAlwaysAgree == ReviewSpec => []FiguresAgree
BY FiguresHold, PTL
-----------------------------------------------------------------------------
(* Groups, by ids.  R orders the ids, Q holds <<i, j>> if j may be a part  *)
(* of the idea that i stands for, and E is what has not been reviewed.     *)

Leads(i, g, R) == i \in g /\ \A j \in g : j = i \/ <<i, j>> \in R

\* What the groups that begin before i hold, and what i could gather then.
TakenBefore(G, i, R) == UNION {g \in G : \E h \in g : Leads(h, g, R) /\ <<h, i>> \in R}
Gathered(G, i, E, R, Q) == {j \in E \ TakenBefore(G, i, R) : <<i, j>> \in Q}

\* The groups G that begin in P: an id that is in no earlier group makes one
\* with its parts, if it has any.
Grouped(G, P, E, R, Q) ==
    /\ \A g \in G : \E i \in P : /\ i \notin TakenBefore(G, i, R) /\ Gathered(G, i, E, R, Q) # {}
                                 /\ g = {i} \cup Gathered(G, i, E, R, Q)
    /\ \A i \in P : \/ i \in TakenBefore(G, i, R) \/ Gathered(G, i, E, R, Q) = {}
                    \/ {i} \cup Gathered(G, i, E, R, Q) \in G

Relations(E, R, Q) == IsFiniteSet(E) /\ IsOrder(R, E) /\ Q \subseteq R

LEMMA LeastInOrder ==
    ASSUME NEW S, IsFiniteSet(S), NEW R, IsOrder(R, S), NEW D \in SUBSET S, D # {}
    PROVE  \E i \in D : \A j \in D : <<j, i>> \notin R
<1> DEFINE N == {Rank(R, S, i) : i \in D}
<1>1. N \subseteq Nat /\ N # {}
    BY RankRange
<1> HIDE DEF N
<1>2. PICK k \in N : \A l \in N : k <= l
    BY <1>1, LeastNumber
<1>3. PICK i \in D : k = Rank(R, S, i)
    BY DEF N
<1>4. ASSUME NEW j \in D, <<j, i>> \in R PROVE FALSE
  <2>1. Rank(R, S, j) < Rank(R, S, i)
    BY <1>4, RankGrows
  <2>2. Rank(R, S, j) \in N
    BY DEF N
  <2>3. Rank(R, S, i) <= Rank(R, S, j)
    BY <1>2, <1>3, <2>2
  <2>4. Rank(R, S, i) \in Nat /\ Rank(R, S, j) \in Nat
    BY RankRange
  <2> QED BY <2>1, <2>3, <2>4
<1> QED BY <1>4

\* A group has one first member, and it begins with it.
LEMMA GroupLed ==
    ASSUME NEW E, NEW R, NEW Q, Relations(E, R, Q), NEW P \in SUBSET E,
           NEW G, Grouped(G, P, E, R, Q), NEW g \in G
    PROVE  /\ g \subseteq E
           /\ \E i \in P : /\ Leads(i, g, R) /\ i \notin TakenBefore(G, i, R)
                           /\ Gathered(G, i, E, R, Q) # {} /\ g = {i} \cup Gathered(G, i, E, R, Q)
                           /\ \A j : Leads(j, g, R) => j = i
<1>1. PICK i \in P : /\ i \notin TakenBefore(G, i, R) /\ Gathered(G, i, E, R, Q) # {}
                     /\ g = {i} \cup Gathered(G, i, E, R, Q)
    BY DEF Grouped
<1>2. g \subseteq E /\ i \in g
    BY <1>1 DEF Gathered
<1>3. Leads(i, g, R)
    BY <1>1 DEF Leads, Gathered, Relations
<1>4. ASSUME NEW j, Leads(j, g, R) PROVE j = i
    BY <1>2, <1>3, <1>4 DEF Leads, Relations, IsOrder
<1> QED BY <1>1, <1>2, <1>3, <1>4

\* Different groups have no member in common.
LEMMA GroupsApart ==
    ASSUME NEW E, NEW R, NEW Q, Relations(E, R, Q), NEW P \in SUBSET E,
           NEW G, Grouped(G, P, E, R, Q), NEW g \in G, NEW h \in G, g # h
    PROVE  g \cap h = {}
<1>0. \A f \in G : \E i \in P : /\ Leads(i, f, R) /\ i \notin TakenBefore(G, i, R)
                               /\ f = {i} \cup Gathered(G, i, E, R, Q)
    BY GroupLed
<1>1. PICK i \in P : /\ Leads(i, g, R) /\ i \notin TakenBefore(G, i, R)
                     /\ g = {i} \cup Gathered(G, i, E, R, Q)
    BY <1>0
<1>2. PICK j \in P : /\ Leads(j, h, R) /\ j \notin TakenBefore(G, j, R)
                     /\ h = {j} \cup Gathered(G, j, E, R, Q)
    BY <1>0
<1>3. i # j
    BY <1>1, <1>2
<1>4. CASE <<i, j>> \in R
  <2>1. g \subseteq TakenBefore(G, j, R)
    BY <1>1, <1>4 DEF TakenBefore, Leads
  <2> QED BY <1>2, <2>1 DEF Gathered
<1>5. CASE <<j, i>> \in R
  <2>1. h \subseteq TakenBefore(G, i, R)
    BY <1>2, <1>5 DEF TakenBefore, Leads
  <2> QED BY <1>1, <2>1 DEF Gathered
<1> QED BY <1>3, <1>4, <1>5 DEF Relations, IsOrder

\* Groups that agree before i agree on the one that begins with i.
LEMMA SameFrom ==
    ASSUME NEW E, NEW R, NEW Q, Relations(E, R, Q),
           NEW G, Grouped(G, E, E, R, Q), NEW H, Grouped(H, E, E, R, Q),
           NEW i \in E,
           \A h \in E : <<h, i>> \in R => {g \in G : Leads(h, g, R)} = {g \in H : Leads(h, g, R)}
    PROVE  {g \in G : Leads(i, g, R)} \subseteq H
<1>1. TakenBefore(G, i, R) = TakenBefore(H, i, R)
  <2>1. ASSUME NEW g, NEW h, h \in g, Leads(h, g, R), <<h, i>> \in R PROVE g \in G <=> g \in H
    <3>1. CASE h \in E
      BY <2>1, <3>1
    <3>2. CASE h \notin E
      <4>1. g \notin G /\ g \notin H
        BY <2>1, <3>2, GroupLed
      <4> QED BY <4>1
    <3> QED BY <3>1, <3>2
  <2> QED BY <2>1 DEF TakenBefore
<1>2. Gathered(G, i, E, R, Q) = Gathered(H, i, E, R, Q)
    BY <1>1 DEF Gathered
<1>3. ASSUME NEW g \in G, Leads(i, g, R) PROVE g \in H
  <2>1. /\ i \notin TakenBefore(G, i, R)
        /\ Gathered(G, i, E, R, Q) # {} /\ g = {i} \cup Gathered(G, i, E, R, Q)
    BY <1>3, GroupLed
  <2> QED BY <1>1, <1>2, <2>1 DEF Grouped
<1> QED BY <1>3

\* So there is one way to group.
LEMMA OneGrouping ==
    ASSUME NEW E, NEW R, NEW Q, Relations(E, R, Q),
           NEW G, Grouped(G, E, E, R, Q), NEW H, Grouped(H, E, E, R, Q)
    PROVE  G = H
<1> DEFINE Of(F, i) == {g \in F : Leads(i, g, R)}
           D == {i \in E : Of(G, i) # Of(H, i)}
<1>1. D = {}
  <2> SUFFICES ASSUME D # {} PROVE FALSE
    OBVIOUS
  <2>0. IsFiniteSet(E) /\ IsOrder(R, E) /\ D \in SUBSET E
    BY DEF Relations
  <2>1. PICK i \in D : \A j \in D : <<j, i>> \notin R
    <3> HIDE DEF D
    <3> QED BY <2>0, LeastInOrder
  <2>2. \A h \in E : <<h, i>> \in R => Of(G, h) = Of(H, h)
    BY <2>1
  <2>3. Of(G, i) \subseteq H
    BY <2>2, SameFrom
  <2>4. Of(H, i) \subseteq G
    BY <2>2, SameFrom
  <2> QED BY <2>3, <2>4
<1>2. \A g \in G \cup H : \E i \in E : Leads(i, g, R)
    BY GroupLed
<1> QED BY <1>1, <1>2


\* Without some of the groups, and without others that are in no group, the
\* rest is grouped as before.
LEMMA RestGrouped ==
    ASSUME NEW E, NEW R, NEW Q, Relations(E, R, Q), NEW G, Grouped(G, E, E, R, Q),
           NEW H \in SUBSET G, NEW A, A \subseteq (E \ UNION G) \cup UNION H
    PROVE  Grouped(G \ H, E \ ((UNION H) \cup A), E \ ((UNION H) \cup A), R, Q)
<1> DEFINE K == G \ H
           F == E \ ((UNION H) \cup A)
<1>1. \A g \in K : \A h \in H : g \cap h = {}
    BY GroupsApart
<1>2. \A i : TakenBefore(K, i, R) \subseteq TakenBefore(G, i, R) /\ TakenBefore(G, i, R) \subseteq TakenBefore(K, i, R) \cup UNION H
    BY DEF TakenBefore
<1>3. \A i : Gathered(K, i, F, R, Q) \subseteq Gathered(G, i, E, R, Q)
    BY <1>2 DEF Gathered
<1>4. ASSUME NEW g \in K
      PROVE  \E i \in F : /\ i \notin TakenBefore(K, i, R) /\ Gathered(K, i, F, R, Q) # {}
                          /\ g = {i} \cup Gathered(K, i, F, R, Q)
  <2>1. PICK i \in E : /\ i \notin TakenBefore(G, i, R) /\ Gathered(G, i, E, R, Q) # {}
                       /\ g = {i} \cup Gathered(G, i, E, R, Q)
    BY DEF Grouped
  <2>2. g \subseteq F
    <3>1. g \subseteq E
      BY GroupLed
    <3>2. g \cap UNION H = {}
      BY <1>1
    <3>3. g \cap A = {}
      BY <3>2
    <3>4. \A x \in g : x \in E /\ x \notin UNION H /\ x \notin A
      <4> HIDE DEF K
      <4> QED BY <3>1, <3>2, <3>3
    <3> QED BY <3>4
  <2>3. Gathered(G, i, E, R, Q) \subseteq Gathered(K, i, F, R, Q)
    BY <1>2, <2>1, <2>2 DEF Gathered
  <2>4. Gathered(G, i, E, R, Q) = Gathered(K, i, F, R, Q) /\ i \notin TakenBefore(K, i, R) /\ i \in F
    BY <1>2, <1>3, <2>1, <2>2, <2>3
  <2> QED BY <2>1, <2>4
<1>5. ASSUME NEW i \in F
      PROVE  \/ i \in TakenBefore(K, i, R) \/ Gathered(K, i, F, R, Q) = {}
             \/ {i} \cup Gathered(K, i, F, R, Q) \in K
  <2>1. CASE i \in TakenBefore(G, i, R)
    BY <1>2, <2>1
  <2>2. CASE Gathered(G, i, E, R, Q) = {}
    BY <1>3, <2>2
  <2>3. CASE i \notin TakenBefore(G, i, R) /\ {i} \cup Gathered(G, i, E, R, Q) \in G
    <3> DEFINE g == {i} \cup Gathered(G, i, E, R, Q)
    <3>1. g \in K
      BY <2>3
    <3>2. PICK j \in F : g = {j} \cup Gathered(K, j, F, R, Q)
      BY <1>4, <3>1
    <3>3. i = j
      <4>1. \A k \in Gathered(G, i, E, R, Q) : <<i, k>> \in R
        BY DEF Gathered, Relations
      <4>2. \A k \in Gathered(K, j, F, R, Q) : <<j, k>> \in R
        BY DEF Gathered, Relations
      <4>3. i = j \/ (<<i, j>> \in R /\ <<j, i>> \in R)
        BY <3>2, <4>1, <4>2
      <4> QED BY <4>3 DEF Relations, IsOrder
    <3> QED BY <3>1, <3>2, <3>3
  <2> QED BY <2>1, <2>2, <2>3 DEF Grouped
<1> QED BY <1>4, <1>5 DEF Grouped

\* One id after the other joins the groups found before it.
Join(G, i, E, Q) ==
    LET free == E \ UNION G
        group == {i} \cup {j \in free : <<i, j>> \in Q}
    IN  IF i \in free /\ group # {i} THEN G \cup {group} ELSE G

LEMMA JoinGroups ==
    ASSUME NEW E, NEW R, NEW Q, Relations(E, R, Q), NEW P \in SUBSET E,
           NEW G, Grouped(G, P, E, R, Q),
           NEW i \in E, \A h \in P : <<h, i>> \in R
    PROVE  Grouped(Join(G, i, E, Q), P \cup {i}, E, R, Q)
<1> DEFINE K == Join(G, i, E, Q)
           new == {i} \cup Gathered(G, i, E, R, Q)
<1>1. TakenBefore(G, i, R) = UNION G
  <2>1. \A g \in G : \E h \in P : h \in g /\ Leads(h, g, R)
    BY GroupLed DEF Leads
  <2> QED BY <2>1 DEF TakenBefore
<1>2. K = IF i \in E \ UNION G /\ new # {i} THEN G \cup {new} ELSE G
    BY <1>1 DEF Join, Gathered
<1>3. i \notin Gathered(G, i, E, R, Q) /\ <<i, i>> \notin R /\ \A h \in P : <<i, h>> \notin R
    BY DEF Gathered, Relations, IsOrder
<1>4. Leads(i, new, R) /\ \A j : Leads(j, new, R) => j = i
  <2>1. Leads(i, new, R) /\ new \subseteq E
    BY DEF Leads, Gathered, Relations
  <2>2. ASSUME NEW j, Leads(j, new, R), j # i PROVE FALSE
    <3>1. <<j, i>> \in R /\ <<i, j>> \in R /\ j \in E
      BY <2>1, <2>2 DEF Leads
    <3> QED BY <3>1 DEF Relations, IsOrder
  <2> QED BY <2>1, <2>2
<1>5. \A j \in P \cup {i} : TakenBefore(K, j, R) = TakenBefore(G, j, R)
  <2> SUFFICES ASSUME NEW j \in P \cup {i} PROVE TakenBefore(K, j, R) = TakenBefore(G, j, R)
    OBVIOUS
  <2>1. ~ \E h \in new : Leads(h, new, R) /\ <<h, j>> \in R
    BY <1>3, <1>4
  <2> HIDE DEF new
  <2> QED BY <1>2, <2>1 DEF TakenBefore
<1>6. \A j \in P \cup {i} : Gathered(K, j, E, R, Q) = Gathered(G, j, E, R, Q)
    BY <1>5 DEF Gathered
<1> HIDE DEF K
<1>7. ASSUME NEW g \in K
      PROVE  \E j \in P \cup {i} : /\ j \notin TakenBefore(K, j, R) /\ Gathered(K, j, E, R, Q) # {}
                                   /\ g = {j} \cup Gathered(K, j, E, R, Q)
  <2>1. CASE g \in G
    <3>1. PICK j \in P : /\ j \notin TakenBefore(G, j, R) /\ Gathered(G, j, E, R, Q) # {}
                         /\ g = {j} \cup Gathered(G, j, E, R, Q)
      BY <2>1 DEF Grouped
    <3> QED BY <1>5, <1>6, <3>1
  <2>2. CASE g \notin G
    <3>1. g = new /\ i \notin UNION G /\ new # {i}
      BY <1>2, <2>2
    <3> QED BY <1>1, <1>5, <1>6, <3>1
  <2> QED BY <2>1, <2>2
<1>8. ASSUME NEW j \in P \cup {i}
      PROVE  \/ j \in TakenBefore(K, j, R) \/ Gathered(K, j, E, R, Q) = {}
             \/ {j} \cup Gathered(K, j, E, R, Q) \in K
  <2>1. G \subseteq K
    BY <1>2
  <2>2. CASE j \in P
    <3>1. \/ j \in TakenBefore(G, j, R) \/ Gathered(G, j, E, R, Q) = {}
          \/ {j} \cup Gathered(G, j, E, R, Q) \in G
      BY <2>2 DEF Grouped
    <3> QED BY <1>5, <1>6, <2>1, <3>1
  <2>3. CASE j = i
    <3>1. CASE i \in UNION G
      BY <1>1, <1>5, <2>3, <3>1
    <3>2. CASE new = {i}
      <4>1. Gathered(G, i, E, R, Q) = {}
        BY <1>3, <3>2
      <4> QED BY <1>6, <2>3, <4>1
    <3>3. CASE i \notin UNION G /\ new # {i}
      <4>1. new \in K
        BY <1>2, <3>3
      <4> QED BY <1>6, <2>3, <4>1
    <3> QED BY <3>1, <3>2, <3>3
  <2> QED BY <2>2, <2>3
<1> QED BY <1>7, <1>8 DEF Grouped, K

\* d is the run of Join along the list a.
Joins(d, a, n, E, Q) ==
    /\ d[0] = {}
    /\ \A k \in 1 .. n : d[k] = Join(d[k - 1], a[k], E, Q)

LEMMA JoinsGroup ==
    ASSUME NEW E, NEW R, NEW Q, Relations(E, R, Q), NEW n \in Nat, NEW a,
           {a[k] : k \in 1 .. n} = E,
           \A k, l \in 1 .. n : k < l => <<a[k], a[l]>> \in R,
           NEW d, Joins(d, a, n, E, Q)
    PROVE  Grouped(d[n], E, E, R, Q)
<1> DEFINE Upto(k) == {a[l] : l \in 1 .. k}
           S == {k \in Nat : k <= n => Grouped(d[k], Upto(k), E, R, Q)}
<1>1. 0 \in S
  <2>1. d[0] = {} /\ Upto(0) = {}
    BY DEF Joins
  <2> HIDE DEF Upto
  <2> QED BY <2>1 DEF Grouped
<1>2. ASSUME NEW k \in Nat, k \in S PROVE k + 1 \in S
  <2> SUFFICES ASSUME k + 1 <= n PROVE Grouped(d[k + 1], Upto(k + 1), E, R, Q)
    OBVIOUS
  <2> DEFINE i == a[k + 1]
  <2>1. k + 1 \in 1 .. n /\ (k + 1) - 1 = k /\ k <= n
    OBVIOUS
  <2>2. d[k + 1] = Join(d[k], i, E, Q)
    BY <2>1 DEF Joins
  <2>3. Upto(k + 1) = Upto(k) \cup {i}
    <3>1. 1 .. (k + 1) = (1 .. k) \cup {k + 1}
      OBVIOUS
    <3> QED BY <3>1
  <2>4. i \in E /\ Upto(k) \subseteq E /\ \A h \in Upto(k) : <<h, i>> \in R
    <3>1. \A l \in 1 .. k : l \in 1 .. n /\ l < k + 1
      BY <2>1
    <3> QED BY <2>1, <3>1
  <2>5. Grouped(d[k], Upto(k), E, R, Q)
    BY <1>2, <2>1
  <2> HIDE DEF Upto, i
  <2>6. Grouped(Join(d[k], i, E, Q), Upto(k) \cup {i}, E, R, Q)
    BY <2>4, <2>5, JoinGroups
  <2> QED BY <2>2, <2>3, <2>6
<1>3. Nat \subseteq S
  <2> HIDE DEF S
  <2> QED BY <1>1, <1>2, Numbers
<1>4. Upto(n) = E
    OBVIOUS
<1> HIDE DEF Upto
<1> QED BY <1>3, <1>4

-----------------------------------------------------------------------------
(* The groups of detect_outliers *)

LEMMA BeforeOrders ==
    ASSUME NEW t, NEW u, IsTrade(t), IsTrade(u)
    PROVE  /\ ~Before(t, t)
           /\ t.id # u.id => Before(t, u) \/ Before(u, t)
           /\ \A v : IsTrade(v) /\ Before(t, u) /\ Before(u, v) => Before(t, v)
BY DEF IsTrade, Before

\* s is S in the order of opening.
Opened(s, S) ==
    /\ Len(s) \in Nat /\ DOMAIN s = 1 .. Len(s)
    /\ \A k \in 1 .. Len(s) : s[k] \in S
    /\ {s[k] : k \in 1 .. Len(s)} = S
    /\ \A k, l \in 1 .. Len(s) : k < l => Before(s[k], s[l])

LEMMA ChronologicalSorts ==
    ASSUME NEW S, Proper(S)
    PROVE  Opened(Chronological(S), S)
<1> DEFINE R == {p \in S \X S : Before(p[1], p[2])}
           s == Chronological(S)
<1>1. \A t, u \in S : <<t, u>> \in R <=> Before(t, u)
    OBVIOUS
<1> HIDE DEF R
<1>2. IsFiniteSet(S) /\ IsOrder(R, S)
    BY <1>1, BeforeOrders DEF IsOrder, Proper
<1>3. Lists(s, R, S)
  <2>1. \A t \in S : Rank(R, S, t) = Cardinality({u \in S : Before(u, t)})
    <3> SUFFICES ASSUME NEW t \in S
                 PROVE  Rank(R, S, t) = Cardinality({u \in S : Before(u, t)})
      OBVIOUS
    <3>1. {u \in S : <<u, t>> \in R} = {u \in S : Before(u, t)}
      BY <1>1
    <3> QED BY <3>1 DEF Rank
  <2> DEFINE at(k) == CHOOSE t \in S : Cardinality({u \in S : Before(u, t)}) = k - 1
  <2>2. s = [k \in 1 .. Cardinality(S) |-> at(k)]
    BY DEF Chronological, Arranged
  <2>3. \A k \in 1 .. Cardinality(S) : s[k] = at(k)
    BY <2>2
  <2>4. s = [k \in 1 .. Cardinality(S) |-> s[k]]
    <3> HIDE DEF at, s
    <3> QED BY <2>2
  <2>5. ASSUME NEW k \in 1 .. Cardinality(S), \E t \in S : Rank(R, S, t) = k - 1
        PROVE  s[k] \in S /\ Rank(R, S, s[k]) = k - 1
    BY <2>1, <2>3, <2>5
  <2> QED BY <2>4, <2>5 DEF Lists
<1> HIDE DEF s
<1>4. /\ s \in Seq(S) /\ Len(s) \in Nat /\ DOMAIN s = 1 .. Len(s) /\ Range(s) = S
      /\ \A k, l \in 1 .. Len(s) : k < l => <<s[k], s[l]>> \in R
    BY <1>2, <1>3, ListInOrder
<1>5. \A k \in 1 .. Len(s) : s[k] \in S
    BY <1>4, ElementOfSeq
<1>6. {s[k] : k \in 1 .. Len(s)} = S
    BY <1>4 DEF Range
<1> QED BY <1>1, <1>4, <1>5, <1>6 DEF Opened, s

\* One trade of S after the other joins the groups found before it.
JoinTrade(found, t, S) ==
    LET free == S \ UNION found
        group == {t} \cup {u \in free : PartOf(t, u)}
    IN  IF t \in free /\ group # {t} THEN found \cup {group} ELSE found

LEMMA JoinTradeIn ==
    ASSUME NEW S, NEW t \in S, NEW found \in SUBSET (SUBSET S)
    PROVE  JoinTrade(found, t, S) \in SUBSET (SUBSET S)
BY DEF JoinTrade

\* d goes along the list s.
GroupsAlong(d, s, S) ==
    /\ d[0] = {}
    /\ \A k \in 0 .. Len(s) : d[k] \in SUBSET (SUBSET S)
    /\ \A k \in 1 .. Len(s) : d[k] = JoinTrade(d[k - 1], s[k], S)

LEMMA GroupsAreFound ==
    ASSUME NEW T, Proper(T)
    PROVE  \E d : LET S == Eligible(T)
                      s == Chronological(S)
                  IN  GroupsAlong(d, s, S) /\ Groups(T) = d[Len(s)]
<1> DEFINE S == Eligible(T)
           s == Chronological(S)
           n == Len(s)
           g == CHOOSE g : g = [K \in SUBSET (DOMAIN s) |->
                                  IF K = {} THEN {} ELSE JoinTrade(g[K \ {Max(K)}], s[Max(K)], S)]
<1>1. Groups(T) = g[DOMAIN s]
    BY DEF Groups, FoldLeft, MapThenFoldSet, JoinTrade
<1>2. Opened(s, S)
    BY PartIsProper, ChronologicalSorts DEF Eligible
<1> HIDE DEF s, S
<1>3. n \in Nat /\ DOMAIN s = 1 .. n /\ \A k \in 1 .. n : s[k] \in S
    BY <1>2 DEF Opened
<1>4. \E h : h = [K \in SUBSET (DOMAIN s) |->
                       IF K = {} THEN {} ELSE JoinTrade(h[K \ {Max(K)}], s[Max(K)], S)]
  <2> DEFINE V == SUBSET (SUBSET S)
             step == [k \in 1 .. n |-> [c \in V |-> JoinTrade(c, s[k], S)]]
  <2>1. \A k \in 1 .. n : \A c \in V : step[k][c] = JoinTrade(c, s[k], S) /\ step[k][c] \in V
    BY <1>3, JoinTradeIn
  <2>2. {} \in V /\ \A k \in 1 .. n : \A c \in V : step[k][c] \in V
    BY <2>1
  <2> HIDE DEF step, V, n
  <2>3. PICK h : IsRun(h, n, {}, step) /\ \A K \in SUBSET (1 .. n) : h[K] \in V
    BY <1>3, <2>2, RunExists
  <2>4. ASSUME NEW K \in SUBSET (1 .. n)
        PROVE  h[K] = IF K = {} THEN {} ELSE JoinTrade(h[K \ {Max(K)}], s[Max(K)], S)
    <3>1. CASE K = {}
      BY <2>3, <3>1 DEF IsRun
    <3>2. CASE K # {}
      <4>1. Max(K) \in 1 .. n /\ K \ {Max(K)} \in SUBSET (1 .. n)
        BY <1>3, <3>2, LastOneIs
      <4>2. h[K] = step[Max(K)][h[K \ {Max(K)}]] /\ h[K \ {Max(K)}] \in V
        BY <2>3, <3>2, <4>1 DEF IsRun
      <4> QED BY <2>1, <3>2, <4>1, <4>2
    <3> QED BY <3>1, <3>2
  <2>5. h = [K \in SUBSET (1 .. n) |-> h[K]]
    BY <2>3 DEF IsRun
  <2>6. h = [K \in SUBSET (1 .. n) |-> IF K = {} THEN {} ELSE JoinTrade(h[K \ {Max(K)}], s[Max(K)], S)]
    BY <2>4, <2>5
  <2> QED BY <1>3, <2>6
<1>5. g = [K \in SUBSET (DOMAIN s) |-> IF K = {} THEN {} ELSE JoinTrade(g[K \ {Max(K)}], s[Max(K)], S)]
    BY <1>4
<1> HIDE DEF g
<1> DEFINE d == [k \in 0 .. n |-> g[1 .. k]]
<1>6. d[0] = {}
  <2>1. 1 .. 0 = {} /\ 0 \in 0 .. n
    BY <1>3
  <2> QED BY <1>5, <2>1
<1>7. ASSUME NEW k \in 1 .. n PROVE d[k] = JoinTrade(d[k - 1], s[k], S)
  <2>0. k \in 0 .. n /\ k - 1 \in 0 .. n
    BY <1>3
  <2>1. /\ Max(1 .. k) = k /\ (1 .. k) \ {k} = 1 .. (k - 1) /\ 1 .. k \in SUBSET (1 .. n)
        /\ 1 .. k # {}
    <3> HIDE DEF n
    <3> QED BY <1>3, LastOneIs
  <2>2. g[1 .. k] = JoinTrade(g[1 .. (k - 1)], s[k], S)
    BY <1>3, <1>5, <2>1
  <2> QED BY <2>0, <2>2
<1>8. g[DOMAIN s] = d[n]
    BY <1>3
<1> HIDE DEF d
<1>9. \A k \in 0 .. n : d[k] \in SUBSET (SUBSET S)
  <2> DEFINE V == SUBSET (SUBSET S)
             P == {k \in Nat : k <= n => d[k] \in V}
  <2>1. 0 \in P
    BY <1>6
  <2>2. ASSUME NEW k \in Nat, k \in P PROVE k + 1 \in P
    <3> SUFFICES ASSUME k + 1 <= n PROVE d[k + 1] \in V
      OBVIOUS
    <3>1. k + 1 \in 1 .. n /\ (k + 1) - 1 = k /\ k <= n
      BY <1>3
    <3>2. d[k] \in V /\ d[k + 1] = JoinTrade(d[k], s[k + 1], S) /\ s[k + 1] \in S
      BY <1>3, <1>7, <2>2, <3>1
    <3> QED BY <3>2, JoinTradeIn
  <2>3. Nat \subseteq P
    <3> HIDE DEF P
    <3> QED BY <2>1, <2>2, Numbers
  <2> QED BY <2>3
<1>10. GroupsAlong(d, s, S)
    BY <1>6, <1>7, <1>9 DEF GroupsAlong
<1> QED BY <1>1, <1>8, <1>10 DEF s, S


\* p names the trades T by the ids J.
Named(T, J, p) ==
    /\ IsFiniteSet(J) /\ T = {p[i] : i \in J}
    /\ \A i \in J : IsTrade(p[i]) /\ p[i].id = i

BeforeIn(J, p) == {x \in J \X J : Before(p[x[1]], p[x[2]])}
PartsIn(J, p) == {x \in J \X J : PartOf(p[x[1]], p[x[2]])}
OpenIn(J, p) == {i \in J : p[i].bundle = Nil /\ ~p[i].flag}

LEMMA NamedIsProper ==
    ASSUME NEW T, NEW J, NEW p, Named(T, J, p)
    PROVE  Proper(T)
<1> DEFINE f == [i \in J |-> p[i]]
<1>1. T = {f[i] : i \in J} /\ DOMAIN f = J
    BY DEF Named
<1>2. IsFiniteSet(T)
  <2> HIDE DEF f
  <2> QED BY <1>1, ImageIsFinite DEF Named
<1>3. \A t \in T : IsTrade(t)
    BY DEF Named
<1>4. \A t, u \in T : t.id = u.id => t = u
    BY DEF Named
<1> QED BY <1>2, <1>3, <1>4 DEF Proper

LEMMA NamedPart ==
    ASSUME NEW T, NEW J, NEW p, Named(T, J, p)
    PROVE  /\ Eligible(T) = {p[i] : i \in OpenIn(J, p)} /\ IdsOf(Eligible(T)) = OpenIn(J, p)
           /\ \A X \in SUBSET T : IdsOf(X) \subseteq J /\ \A j \in J : j \in IdsOf(X) <=> p[j] \in X
<1>1. Eligible(T) = {p[i] : i \in OpenIn(J, p)}
    BY DEF Eligible, OpenIn, Named
<1>2. \A X \in SUBSET T : IdsOf(X) \subseteq J /\ \A j \in J : j \in IdsOf(X) <=> p[j] \in X
    BY DEF IdsOf, Named
<1>3. IdsOf(Eligible(T)) = OpenIn(J, p)
  <2> DEFINE O == OpenIn(J, p)
  <2>1. \A i \in O : p[i].id = i
    BY DEF OpenIn, Named
  <2> HIDE DEF O
  <2>2. {t.id : t \in {p[i] : i \in O}} = O
    BY <2>1
  <2> QED BY <1>1, <2>2 DEF O, IdsOf
<1> QED BY <1>1, <1>2, <1>3

LEMMA NamedRelations ==
    ASSUME NEW T, NEW J, NEW p, Named(T, J, p), NEW E \in SUBSET J
    PROVE  Relations(E, BeforeIn(J, p), PartsIn(J, p))
<1>1. IsFiniteSet(E)
    BY FS_Subset DEF Named
<1>2. PartsIn(J, p) \subseteq BeforeIn(J, p)
    BY DEF PartsIn, BeforeIn, PartOf
<1>3. \A i, j \in J : <<i, j>> \in BeforeIn(J, p) <=> Before(p[i], p[j])
    BY DEF BeforeIn
<1>4. IsOrder(BeforeIn(J, p), E)
    BY <1>3, BeforeOrders DEF IsOrder, Named
<1> QED BY <1>1, <1>2, <1>4 DEF Relations

\* A trade joins groups as its id joins theirs.
LEMMA JoinByIds ==
    ASSUME NEW T, NEW J, NEW p, Named(T, J, p), NEW i \in OpenIn(J, p),
           NEW found \in SUBSET (SUBSET Eligible(T))
    PROVE  {IdsOf(g) : g \in JoinTrade(found, p[i], Eligible(T))}
               = Join({IdsOf(g) : g \in found}, i, OpenIn(J, p), PartsIn(J, p))
<1> DEFINE S == Eligible(T)
           E == OpenIn(J, p)
           Q == PartsIn(J, p)
           G == {IdsOf(g) : g \in found}
           free == S \ UNION found
           group == {p[i]} \cup {u \in free : PartOf(p[i], u)}
           ifree == E \ UNION G
           igroup == {i} \cup {j \in ifree : <<i, j>> \in Q}
<1>0. /\ S = {p[j] : j \in E} /\ E \subseteq J /\ S \subseteq T /\ i \in J /\ i \in E
      /\ IdsOf(S) = E
    BY NamedPart DEF OpenIn, Eligible
<1>1. \A X \in SUBSET S : IdsOf(X) \subseteq E /\ \A j \in J : j \in IdsOf(X) <=> p[j] \in X
  <2>1. \A X \in SUBSET S : IdsOf(X) \subseteq E
    BY <1>0 DEF IdsOf
  <2> QED BY <1>0, <2>1, NamedPart
<1>2. \A j \in J : j \in UNION G <=> p[j] \in UNION found
  <2> HIDE DEF S, E
  <2>1. \A g \in found : g \in SUBSET S
    BY DEF S
  <2> QED BY <1>1, <2>1
<1>3. \A j \in E : p[j] \in S
    BY <1>0
<1>4. \A j \in J : p[j] \in S => j \in E
    BY <1>0, <1>1
<1>5. \A j \in J : j \in ifree <=> p[j] \in free
  <2> HIDE DEF S, E, G
  <2> QED BY <1>2, <1>3, <1>4
<1>6. \A j \in J : <<i, j>> \in Q <=> PartOf(p[i], p[j])
    BY <1>0 DEF PartsIn
<1>7. free \subseteq S /\ group \subseteq S
    BY <1>0
<1>8. \A j, k \in J : p[j] = p[k] => j = k
    BY DEF Named
<1> HIDE DEF S, E, Q, G, free, ifree
<1>9. IdsOf(group) = igroup
  <2>1. IdsOf(group) \subseteq E /\ \A j \in J : j \in IdsOf(group) <=> p[j] \in group
    BY <1>1, <1>7
  <2>2. igroup \subseteq J
    BY <1>0 DEF ifree
  <2>3. \A j \in J : p[j] \in group <=> j \in igroup
    BY <1>0, <1>5, <1>6, <1>8
  <2> HIDE DEF group, igroup
  <2> QED BY <1>0, <2>1, <2>2, <2>3
<1>10. group # {p[i]} <=> igroup # {i}
  <2>1. \A u \in group : \E j \in E : u = p[j]
    BY <1>0, <1>7
  <2>2. \A j \in J : p[j] \in group <=> j \in igroup
    BY <1>0, <1>5, <1>6, <1>8
  <2>3. igroup \subseteq J /\ i \in igroup /\ p[i] \in group
    BY <1>0 DEF ifree
  <2> HIDE DEF group, igroup
  <2> QED BY <1>0, <1>8, <2>1, <2>2, <2>3
<1>11. JoinTrade(found, p[i], S) = IF p[i] \in free /\ group # {p[i]} THEN found \cup {group} ELSE found
    BY DEF JoinTrade, free
<1>12. Join(G, i, E, Q) = IF i \in ifree /\ igroup # {i} THEN G \cup {igroup} ELSE G
    BY DEF Join, ifree
<1> HIDE DEF group, igroup
<1>13. {IdsOf(g) : g \in JoinTrade(found, p[i], S)} = Join(G, i, E, Q)
  <2>1. CASE i \in ifree /\ igroup # {i}
    <3>1. JoinTrade(found, p[i], S) = found \cup {group} /\ Join(G, i, E, Q) = G \cup {igroup}
      BY <1>0, <1>5, <1>10, <1>11, <1>12, <2>1
    <3> QED BY <1>9, <3>1 DEF G
  <2>2. CASE ~(i \in ifree /\ igroup # {i})
    <3>1. JoinTrade(found, p[i], S) = found /\ Join(G, i, E, Q) = G
      BY <1>0, <1>5, <1>10, <1>11, <1>12, <2>2
    <3> QED BY <3>1 DEF G
  <2> QED BY <2>1, <2>2
<1> QED BY <1>13 DEF S, E, Q, G

\* So the groups found are the groups there are.
LEMMA GroupsAreGrouped ==
    ASSUME NEW T, NEW J, NEW p, Named(T, J, p)
    PROVE  Grouped(GroupsIn(T), OpenIn(J, p), OpenIn(J, p), BeforeIn(J, p), PartsIn(J, p))
<1> DEFINE S == Eligible(T)
           s == Chronological(S)
           n == Len(s)
           E == OpenIn(J, p)
           R == BeforeIn(J, p)
           Q == PartsIn(J, p)
<1>0. Proper(T) /\ Relations(E, R, Q) /\ E \subseteq J
    BY NamedIsProper, NamedRelations DEF OpenIn
<1>1. PICK d : GroupsAlong(d, s, S) /\ Groups(T) = d[n]
    BY <1>0, GroupsAreFound
<1>2. Opened(s, S)
    BY <1>0, PartIsProper, ChronologicalSorts DEF Eligible
<1>3. S = {p[i] : i \in E} /\ \A i \in E : p[i].id = i
    BY <1>0, NamedPart DEF Named
<1> DEFINE a == [k \in 1 .. n |-> s[k].id]
           c == [k \in 0 .. n |-> {IdsOf(g) : g \in d[k]}]
<1>4. GroupsIn(T) = c[n] /\ n \in Nat
  <2>1. n \in Nat
    BY <1>2 DEF Opened
  <2> HIDE DEF n
  <2>2. n \in 0 .. n
    BY <2>1
  <2> QED BY <1>1, <2>1, <2>2 DEF GroupsIn
<1> HIDE DEF s, S
<1>5. \A k \in 1 .. n : a[k] \in E /\ s[k] = p[a[k]]
    BY <1>2, <1>3 DEF Opened
<1>6. {a[k] : k \in 1 .. n} = E
  <2>0. \A i \in E : p[i] \in {s[k] : k \in 1 .. n}
    BY <1>2, <1>3 DEF Opened
  <2>1. \A i \in E : \E k \in 1 .. n : s[k] = p[i]
    BY <2>0
  <2>2. \A i \in E : \E k \in 1 .. n : a[k] = i
    BY <1>3, <2>1
  <2> HIDE DEF a
  <2> QED BY <1>5, <2>2
<1>7. \A k, l \in 1 .. n : k < l => <<a[k], a[l]>> \in R
  <2>1. \A k, l \in 1 .. n : k < l => Before(p[a[k]], p[a[l]])
    BY <1>2, <1>5 DEF Opened
  <2> HIDE DEF a, E
  <2> QED BY <1>0, <1>5, <2>1 DEF BeforeIn
<1>8. Joins(c, a, n, E, Q)
  <2>1. c[0] = {}
    BY <1>1, <1>4 DEF GroupsAlong
  <2>2. ASSUME NEW k \in 1 .. n PROVE c[k] = Join(c[k - 1], a[k], E, Q)
    <3>1. k \in 0 .. n /\ k - 1 \in 0 .. n
      BY <1>4
    <3>2. d[k] = JoinTrade(d[k - 1], p[a[k]], S) /\ d[k - 1] \in SUBSET (SUBSET S)
      BY <1>1, <1>5, <3>1 DEF GroupsAlong
    <3>3. {IdsOf(g) : g \in JoinTrade(d[k - 1], p[a[k]], S)} = Join({IdsOf(g) : g \in d[k - 1]}, a[k], E, Q)
      <4> DEFINE i == a[k]
                 found == d[k - 1]
      <4>1. i \in OpenIn(J, p)
        BY <1>5
      <4>2. found \in SUBSET (SUBSET Eligible(T))
        BY <3>2 DEF S
      <4> HIDE DEF i, found
      <4>3. {IdsOf(g) : g \in JoinTrade(found, p[i], Eligible(T))}
                = Join({IdsOf(g) : g \in found}, i, OpenIn(J, p), PartsIn(J, p))
        BY <4>1, <4>2, JoinByIds
      <4> QED BY <4>3 DEF i, found, S
    <3>4. c[k] = {IdsOf(g) : g \in d[k]} /\ c[k - 1] = {IdsOf(g) : g \in d[k - 1]}
      BY <3>1
    <3> HIDE DEF c, a, E, Q
    <3> QED BY <3>2, <3>3, <3>4
  <2> HIDE DEF c, a, E, Q
  <2> QED BY <2>1, <2>2 DEF Joins
<1> HIDE DEF a, c, E, R, Q, n
<1>9. Grouped(c[n], E, E, R, Q)
    BY <1>0, <1>4, <1>6, <1>7, <1>8, JoinsGroup
<1> QED BY <1>4, <1>9 DEF E, R, Q

-----------------------------------------------------------------------------
(* What a trade looks like does not depend on the marks of trades. *)

SameButMarks(t, u) ==
    /\ t.id = u.id /\ t.opened = u.opened /\ t.closed = u.closed /\ t.symbol = u.symbol
    /\ t.side = u.side /\ t.lot = u.lot /\ t.raw = u.raw /\ t.commission = u.commission
    /\ t.swap = u.swap /\ t.exit = u.exit /\ t.sl = u.sl /\ t.tp = u.tp /\ t.known = u.known

\* T and U are the trades J with the marks of p and of q.
Remarked(T, U, J, p, q) ==
    Named(T, J, p) /\ Named(U, J, q) /\ \A i \in J : SameButMarks(p[i], q[i])

\* A of the first and B of the second are the same trades.
Pairs(A, B, J, p, q) == \E L \in SUBSET J : A = {p[j] : j \in L} /\ B = {q[j] : j \in L}

LEMMA SameLooks ==
    ASSUME NEW t, NEW u, SameButMarks(t, u), NEW v, NEW w, SameButMarks(v, w)
    PROVE  /\ Before(t, v) <=> Before(u, w)
           /\ SameIdea(t, v) <=> SameIdea(u, w)
           /\ SplitKey(t) = SplitKey(u)
           /\ Lost(t) <=> Lost(u)
           /\ PartOf(t, v) <=> PartOf(u, w)
<1>1. Before(t, v) <=> Before(u, w)
    BY DEF SameButMarks, Before
<1>2. SameIdea(t, v) <=> SameIdea(u, w)
    BY DEF SameButMarks, SameIdea
<1>3. SplitKey(t) = SplitKey(u) /\ SplitKey(v) = SplitKey(w)
    BY DEF SameButMarks, SplitKey
<1>4. Lost(t) <=> Lost(u)
    BY DEF SameButMarks, Lost, Net, Abs
<1>5. PartOf(t, v) <=> PartOf(u, w)
    BY <1>1, <1>2, <1>3 DEF SameButMarks, PartOf
<1> QED BY <1>1, <1>2, <1>3, <1>4, <1>5

LEMMA SameRelations ==
    ASSUME NEW T, NEW U, NEW J, NEW p, NEW q, Remarked(T, U, J, p, q)
    PROVE  BeforeIn(J, p) = BeforeIn(J, q) /\ PartsIn(J, p) = PartsIn(J, q)
<1>1. ASSUME NEW i \in J, NEW j \in J
      PROVE  (Before(p[i], p[j]) <=> Before(q[i], q[j])) /\ (PartOf(p[i], p[j]) <=> PartOf(q[i], q[j]))
    BY SameLooks DEF Remarked
<1> QED BY <1>1 DEF BeforeIn, PartsIn

LEMMA SameLatest ==
    ASSUME NEW T, NEW U, NEW J, NEW p, NEW q, Remarked(T, U, J, p, q),
           NEW A, NEW B, Pairs(A, B, J, p, q), A # {}
    PROVE  B # {} /\ \E l \in J : Latest(A) = p[l] /\ Latest(B) = q[l]
<1>1. PICK L \in SUBSET J : A = {p[j] : j \in L} /\ B = {q[j] : j \in L}
    BY DEF Pairs
<1>2. L # {} /\ B # {}
    BY <1>1
<1> DEFINE R == {x \in J \X J : Before(p[x[2]], p[x[1]])}
<1>3. \A i, j \in J : <<i, j>> \in R <=> Before(p[j], p[i])
    OBVIOUS
<1> HIDE DEF R
<1>4. IsFiniteSet(J) /\ \A i \in J : IsTrade(p[i]) /\ p[i].id = i /\ IsTrade(q[i]) /\ q[i].id = i
    BY DEF Remarked, Named
<1>5. IsOrder(R, J)
    BY <1>3, <1>4, BeforeOrders DEF IsOrder
<1>6. PICK l \in L : \A j \in L : <<j, l>> \notin R
    BY <1>2, <1>4, <1>5, LeastInOrder
<1>7. \A j \in L : j = l \/ Before(p[j], p[l])
  <2> SUFFICES ASSUME NEW j \in L, j # l PROVE Before(p[j], p[l])
    OBVIOUS
  <2>1. ~Before(p[l], p[j])
    BY <1>3, <1>6
  <2>2. IsTrade(p[j]) /\ IsTrade(p[l]) /\ p[j].id # p[l].id
    BY <1>4
  <2> QED BY <2>1, <2>2, BeforeOrders
<1>8. \A j \in L : j = l \/ Before(q[j], q[l])
  <2> SUFFICES ASSUME NEW j \in L, j # l PROVE Before(q[j], q[l])
    OBVIOUS
  <2>1. Before(p[j], p[l])
    BY <1>7
  <2> QED BY <2>1, SameLooks DEF Remarked
<1>9. Latest(A) = p[l]
  <2>1. p[l] \in A /\ \A v \in A : v = p[l] \/ Before(v, p[l])
    BY <1>1, <1>7
  <2>2. ASSUME NEW u \in A, \A v \in A : v = u \/ Before(v, u) PROVE u = p[l]
    <3>1. PICK j \in L : u = p[j]
      BY <1>1
    <3> QED BY <1>4, <2>1, <2>2, <3>1, BeforeOrders
  <2> QED BY <2>1, <2>2 DEF Latest
<1>10. Latest(B) = q[l]
  <2>1. q[l] \in B /\ \A v \in B : v = q[l] \/ Before(v, q[l])
    BY <1>1, <1>8
  <2>2. ASSUME NEW u \in B, \A v \in B : v = u \/ Before(v, u) PROVE u = q[l]
    <3>1. PICK j \in L : u = q[j]
      BY <1>1
    <3> QED BY <1>4, <2>1, <2>2, <3>1, BeforeOrders
  <2> QED BY <2>1, <2>2 DEF Latest
<1> QED BY <1>2, <1>9, <1>10

LEMMA PairsOfOne ==
    ASSUME NEW J, NEW p, NEW q, NEW l \in J
    PROVE  Pairs({p[l]}, {q[l]}, J, p, q) /\ Pairs({}, {}, J, p, q)
<1>1. {p[l]} = {p[j] : j \in {l}} /\ {q[l]} = {q[j] : j \in {l}} /\ {l} \in SUBSET J
    OBVIOUS
<1>2. {} = {p[j] : j \in {}} /\ {} = {q[j] : j \in {}} /\ {} \in SUBSET J
    OBVIOUS
<1> QED BY <1>1, <1>2 DEF Pairs

LEMMA SameLastOther ==
    ASSUME NEW T, NEW U, NEW J, NEW p, NEW q, Remarked(T, U, J, p, q),
           NEW A, NEW B, Pairs(A, B, J, p, q), NEW i \in J
    PROVE  Pairs(LastOther(A, p[i]), LastOther(B, q[i]), J, p, q)
<1>1. CASE A = {}
  <2>1. B = {}
    BY <1>1 DEF Pairs
  <2>2. LastOther(A, p[i]) = {} /\ LastOther(B, q[i]) = {}
    BY <1>1, <2>1 DEF LastOther
  <2> QED BY <2>2, PairsOfOne
<1>2. CASE A # {}
  <2>1. PICK l \in J : Latest(A) = p[l] /\ Latest(B) = q[l] /\ B # {}
    BY <1>2, SameLatest
  <2>2. SplitKey(p[l]) = SplitKey(q[l]) /\ SplitKey(p[i]) = SplitKey(q[i])
    BY SameLooks DEF Remarked
  <2>3. CASE SplitKey(p[l]) = SplitKey(p[i])
    <3>1. LastOther(A, p[i]) = {} /\ LastOther(B, q[i]) = {}
      BY <2>1, <2>2, <2>3 DEF LastOther
    <3> QED BY <3>1, PairsOfOne
  <2>4. CASE SplitKey(p[l]) # SplitKey(p[i])
    <3>1. LastOther(A, p[i]) = {p[l]} /\ LastOther(B, q[i]) = {q[l]}
      BY <1>2, <2>1, <2>2, <2>4 DEF LastOther
    <3> QED BY <3>1, PairsOfOne
  <2> QED BY <2>3, <2>4
<1> QED BY <1>1, <1>2

\* The trades a trade is compared with are the same.
LEMMA SameCompared ==
    ASSUME NEW T, NEW U, NEW J, NEW p, NEW q, Remarked(T, U, J, p, q), NEW i \in J
    PROVE  /\ Pairs(Earlier(T, p[i]), Earlier(U, q[i]), J, p, q)
           /\ Pairs(Previous(T, p[i]), Previous(U, q[i]), J, p, q)
           /\ Pairs(PreviousOfSymbol(T, p[i]), PreviousOfSymbol(U, q[i]), J, p, q)
           /\ Pairs(PreviousOfIdea(T, p[i]), PreviousOfIdea(U, q[i]), J, p, q)
<1> DEFINE L == {j \in J : Before(p[j], p[i])}
           M == {j \in L : p[j].symbol = p[i].symbol}
           N == {j \in L : SameIdea(p[j], p[i])}
<1>0. T = {p[j] : j \in J} /\ U = {q[j] : j \in J}
    BY DEF Remarked, Named
<1>1. ASSUME NEW j \in J
      PROVE  /\ Before(p[j], p[i]) <=> Before(q[j], q[i])
             /\ SameIdea(p[j], p[i]) <=> SameIdea(q[j], q[i])
             /\ p[j].symbol = q[j].symbol
  <2>1. SameButMarks(p[j], q[j]) /\ SameButMarks(p[i], q[i])
    BY DEF Remarked
  <2> QED BY <2>1, SameLooks DEF SameButMarks
<1>2. Earlier(T, p[i]) = {p[j] : j \in L} /\ Earlier(U, q[i]) = {q[j] : j \in L}
    BY <1>0, <1>1 DEF Earlier
<1>3. Pairs(Earlier(T, p[i]), Earlier(U, q[i]), J, p, q)
    BY <1>2 DEF Pairs
<1>4. Pairs(Previous(T, p[i]), Previous(U, q[i]), J, p, q)
  <2>1. CASE Earlier(T, p[i]) = {}
    <3>1. Earlier(U, q[i]) = {}
      BY <1>2, <2>1
    <3>2. Previous(T, p[i]) = {} /\ Previous(U, q[i]) = {}
      BY <2>1, <3>1 DEF Previous
    <3> QED BY <3>2, PairsOfOne
  <2>2. CASE Earlier(T, p[i]) # {}
    <3>1. PICK l \in J : /\ Latest(Earlier(T, p[i])) = p[l] /\ Latest(Earlier(U, q[i])) = q[l]
                         /\ Earlier(U, q[i]) # {}
      BY <1>3, <2>2, SameLatest
    <3>2. Previous(T, p[i]) = {p[l]} /\ Previous(U, q[i]) = {q[l]}
      BY <2>2, <3>1 DEF Previous
    <3> QED BY <3>2, PairsOfOne
  <2> QED BY <2>1, <2>2
<1>5. Pairs(PreviousOfSymbol(T, p[i]), PreviousOfSymbol(U, q[i]), J, p, q)
  <2>1. /\ {u \in Earlier(T, p[i]) : u.symbol = p[i].symbol} = {p[j] : j \in M}
        /\ {u \in Earlier(U, q[i]) : u.symbol = q[i].symbol} = {q[j] : j \in M}
    BY <1>1, <1>2
  <2>2. Pairs({u \in Earlier(T, p[i]) : u.symbol = p[i].symbol},
              {u \in Earlier(U, q[i]) : u.symbol = q[i].symbol}, J, p, q)
    BY <2>1 DEF Pairs
  <2> QED BY <2>2, SameLastOther DEF PreviousOfSymbol
<1>6. Pairs(PreviousOfIdea(T, p[i]), PreviousOfIdea(U, q[i]), J, p, q)
  <2>1. /\ {u \in Earlier(T, p[i]) : SameIdea(u, p[i])} = {p[j] : j \in N}
        /\ {u \in Earlier(U, q[i]) : SameIdea(u, q[i])} = {q[j] : j \in N}
    BY <1>1, <1>2
  <2>2. Pairs({u \in Earlier(T, p[i]) : SameIdea(u, p[i])},
              {u \in Earlier(U, q[i]) : SameIdea(u, q[i])}, J, p, q)
    BY <2>1 DEF Pairs
  <2> QED BY <2>2, SameLastOther DEF PreviousOfIdea
<1> QED BY <1>3, <1>4, <1>5, <1>6


\* The trades of A and of B are the same in all but their marks.
AllSame(A, B) ==
    /\ \A u \in A : \E v \in B : SameButMarks(u, v)
    /\ \A v \in B : \E u \in A : SameButMarks(u, v)

LEMMA PairsAllSame ==
    ASSUME NEW T, NEW U, NEW J, NEW p, NEW q, Remarked(T, U, J, p, q),
           NEW A, NEW B, Pairs(A, B, J, p, q)
    PROVE  AllSame(A, B)
BY DEF Pairs, Remarked, AllSame

LEMMA SameAnswers ==
    ASSUME NEW A, NEW B, AllSame(A, B), NEW t, NEW w, SameButMarks(t, w)
    PROVE  /\ Larger(A, t) <=> Larger(B, w)
           /\ SameSize(A, t) <=> SameSize(B, w)
           /\ (\E u \in A : u.closed <= t.opened) <=> (\E u \in B : u.closed <= w.opened)
           /\ (\E u \in A : u.closed <= t.opened /\ u.symbol = t.symbol)
                  <=> (\E u \in B : u.closed <= w.opened /\ u.symbol = w.symbol)
           /\ (\E u \in A : u.closed <= t.opened /\ Lost(u)) <=> (\E u \in B : u.closed <= w.opened /\ Lost(u))
<1>1. \A u, v : SameButMarks(u, v) => /\ u.lot = v.lot /\ u.closed = v.closed /\ u.symbol = v.symbol
                                      /\ (Lost(u) <=> Lost(v))
    BY SameLooks DEF SameButMarks
<1>2. t.lot = w.lot /\ t.opened = w.opened /\ t.symbol = w.symbol
    BY DEF SameButMarks
<1>3. /\ \A u \in A : \E v \in B : /\ u.lot = v.lot /\ u.closed = v.closed /\ u.symbol = v.symbol
                                   /\ (Lost(u) <=> Lost(v))
      /\ \A v \in B : \E u \in A : /\ u.lot = v.lot /\ u.closed = v.closed /\ u.symbol = v.symbol
                                   /\ (Lost(u) <=> Lost(v))
    BY <1>1 DEF AllSame
<1>4. Larger(A, t) <=> Larger(B, w)
    BY <1>2, <1>3 DEF Larger
<1>5. SameSize(A, t) <=> SameSize(B, w)
    BY <1>2, <1>3 DEF SameSize
<1>6. (\E u \in A : u.closed <= t.opened) <=> (\E u \in B : u.closed <= w.opened)
    BY <1>2, <1>3
<1>7. (\E u \in A : u.closed <= t.opened /\ u.symbol = t.symbol)
          <=> (\E u \in B : u.closed <= w.opened /\ u.symbol = w.symbol)
    BY <1>2, <1>3
<1>8. (\E u \in A : u.closed <= t.opened /\ Lost(u)) <=> (\E u \in B : u.closed <= w.opened /\ Lost(u))
    BY <1>2, <1>3
<1> QED BY <1>4, <1>5, <1>6, <1>7, <1>8

LEMMA SameWait ==
    ASSUME NEW A, NEW B, AllSame(A, B), NEW t, NEW w, SameButMarks(t, w), NEW m
    PROVE  /\ (\E u \in A : Within(u.closed, t.opened, m)) <=> (\E u \in B : Within(u.closed, w.opened, m))
           /\ (\E u \in A : Lost(u) /\ Within(u.closed, t.opened, m))
                  <=> (\E u \in B : Lost(u) /\ Within(u.closed, w.opened, m))
<1>1. t.opened = w.opened
    BY DEF SameButMarks
<1>2. \A u, v : SameButMarks(u, v) => u.closed = v.closed /\ (Lost(u) <=> Lost(v))
    BY SameLooks DEF SameButMarks
<1> QED BY <1>1, <1>2 DEF AllSame

LEMMA SameLadder ==
    ASSUME NEW A, NEW B, AllSame(A, B), NEW t, NEW w, SameButMarks(t, w), NEW steps
    PROVE  Ladder(A, t, steps) = Ladder(B, w, steps)
<1> DEFINE X == {i \in DOMAIN steps : \E u \in A : Within(u.closed, t.opened, steps[i][1])}
           Y == {i \in DOMAIN steps : \E u \in B : Within(u.closed, w.opened, steps[i][1])}
<1>1. X = Y
    BY SameWait
<1>2. Ladder(A, t, steps) = IF X = {} THEN 0 ELSE steps[CHOOSE i \in X : \A j \in X : i <= j][2]
    BY DEF Ladder
<1>3. Ladder(B, w, steps) = IF Y = {} THEN 0 ELSE steps[CHOOSE i \in Y : \A j \in Y : i <= j][2]
    BY DEF Ladder
<1> HIDE DEF X, Y
<1> QED BY <1>1, <1>2, <1>3

\* The losses before a trade are the same, counted by their ids.
LEMMA SameStreak ==
    ASSUME NEW T, NEW U, NEW J, NEW p, NEW q, Remarked(T, U, J, p, q), NEW i \in J
    PROVE  LossStreak(T, p[i]) = LossStreak(U, q[i])
<1> DEFINE A == Earlier(T, p[i])
           B == Earlier(U, q[i])
           V == {u \in A : \A v \in A : (v = u \/ Before(u, v)) => Lost(v)}
           W == {u \in B : \A v \in B : (v = u \/ Before(u, v)) => Lost(v)}
<1>0. Pairs(A, B, J, p, q)
    BY SameCompared
<1>1. PICK L \in SUBSET J : A = {p[j] : j \in L} /\ B = {q[j] : j \in L}
    BY <1>0 DEF Pairs
<1>2. \A j, k \in J : p[j] = p[k] <=> j = k
    BY DEF Remarked, Named
<1>3. \A j, k \in J : q[j] = q[k] <=> j = k
    BY DEF Remarked, Named
<1>4. \A j, k \in J : (Before(p[j], p[k]) <=> Before(q[j], q[k])) /\ (Lost(p[k]) <=> Lost(q[k]))
    BY SameLooks DEF Remarked
<1> DEFINE K == {j \in L : \A k \in L : (k = j \/ Before(p[j], p[k])) => Lost(p[k])}
<1>5. V = {p[j] : j \in K}
  <2> HIDE DEF A
  <2> QED BY <1>1, <1>2
<1>6. W = {q[j] : j \in K}
  <2> HIDE DEF B
  <2> QED BY <1>1, <1>3, <1>4
<1>7. IsFiniteSet(K) /\ K \subseteq J
  <2>1. IsFiniteSet(J) /\ K \subseteq J
    BY DEF Remarked, Named
  <2> HIDE DEF K
  <2> QED BY <2>1, FS_Subset
<1> HIDE DEF V, W, K
<1>8. Cardinality(V) = Cardinality(K)
  <2> DEFINE f == [j \in K |-> p[j]]
  <2>1. f \in Bijection(K, V)
    BY <1>2, <1>5, <1>7 DEF Bijection, Injection, Surjection, IsInjective
  <2> QED BY <1>7, <2>1, FS_Bijection DEF ExistsBijection
<1>9. Cardinality(W) = Cardinality(K)
  <2> DEFINE f == [j \in K |-> q[j]]
  <2>1. f \in Bijection(K, W)
    BY <1>3, <1>6, <1>7 DEF Bijection, Injection, Surjection, IsInjective
  <2> QED BY <1>7, <2>1, FS_Bijection DEF ExistsBijection
<1> QED BY <1>8, <1>9 DEF LossStreak, V, W

LEMMA SameSuspicion ==
    ASSUME NEW T, NEW U, NEW J, NEW p, NEW q, Remarked(T, U, J, p, q), NEW i \in J
    PROVE  Suspicious(T, p[i]) <=> Suspicious(U, q[i])
<1> DEFINE t == p[i]
           w == q[i]
<1>0. SameButMarks(t, w)
    BY DEF Remarked
<1>1. Pairs(Previous(T, t) \cup PreviousOfSymbol(T, t), Previous(U, w) \cup PreviousOfSymbol(U, w), J, p, q)
  <2>0. /\ Pairs(Previous(T, t), Previous(U, w), J, p, q)
        /\ Pairs(PreviousOfSymbol(T, t), PreviousOfSymbol(U, w), J, p, q)
    BY SameCompared
  <2>1. PICK L \in SUBSET J : Previous(T, t) = {p[j] : j \in L} /\ Previous(U, w) = {q[j] : j \in L}
    BY <2>0 DEF Pairs
  <2>2. PICK M \in SUBSET J : PreviousOfSymbol(T, t) = {p[j] : j \in M} /\ PreviousOfSymbol(U, w) = {q[j] : j \in M}
    BY <2>0 DEF Pairs
  <2>3. /\ Previous(T, t) \cup PreviousOfSymbol(T, t) = {p[j] : j \in L \cup M}
        /\ Previous(U, w) \cup PreviousOfSymbol(U, w) = {q[j] : j \in L \cup M}
    BY <2>1, <2>2
  <2> QED BY <2>3 DEF Pairs
<1> DEFINE compared(S, x) == Previous(S, x) \cup PreviousOfSymbol(S, x)
<1>2. /\ AllSame(Previous(T, t), Previous(U, w))
      /\ AllSame(PreviousOfSymbol(T, t), PreviousOfSymbol(U, w))
      /\ AllSame(PreviousOfIdea(T, t), PreviousOfIdea(U, w))
      /\ AllSame(compared(T, t), compared(U, w))
    BY <1>1, SameCompared, PairsAllSame
<1>3. InSplit(T, t) <=> InSplit(U, w)
  <2>1. T = {p[j] : j \in J} /\ U = {q[j] : j \in J}
    BY DEF Remarked, Named
  <2>2. \A j \in J : (p[j] = t <=> j = i) /\ (q[j] = w <=> j = i)
    BY DEF Remarked, Named
  <2>3. \A j \in J : SplitKey(p[j]) = SplitKey(q[j])
    BY SameLooks DEF Remarked
  <2>4. InSplit(T, t) <=> \E j \in J : j # i /\ SplitKey(p[j]) = SplitKey(t)
    BY <2>1, <2>2 DEF InSplit
  <2>5. InSplit(U, w) <=> \E j \in J : j # i /\ SplitKey(q[j]) = SplitKey(w)
    BY <2>1, <2>2 DEF InSplit
  <2> QED BY <2>3, <2>4, <2>5
<1> HIDE DEF t, w
<1>4. SameSymbolReentry(T, t) <=> SameSymbolReentry(U, w)
    BY <1>0, <1>2, SameAnswers DEF SameSymbolReentry
<1>5. SameIdeaReentry(T, t) <=> SameIdeaReentry(U, w)
  <2>1. (\E u \in PreviousOfIdea(T, t) : Within(u.closed, t.opened, RevengeWindow))
              <=> (\E u \in PreviousOfIdea(U, w) : Within(u.closed, w.opened, RevengeWindow))
    <3>1. AllSame(PreviousOfIdea(T, t), PreviousOfIdea(U, w))
      BY <1>2
    <3> QED BY <1>0, <3>1, SameWait
  <2> QED BY <2>1 DEF SameIdeaReentry
<1>6. PostLoss(T, t) = PostLoss(U, w)
  <2>1. (\E u \in PreviousOfSymbol(T, t) : u.closed <= t.opened /\ Lost(u))
              <=> (\E u \in PreviousOfSymbol(U, w) : u.closed <= w.opened /\ Lost(u))
    BY <1>0, <1>2, SameAnswers
  <2>2. (\E u \in PreviousOfSymbol(T, t) : Within(u.closed, t.opened, RevengeWindow))
              <=> (\E u \in PreviousOfSymbol(U, w) : Within(u.closed, w.opened, RevengeWindow))
    <3>1. AllSame(PreviousOfSymbol(T, t), PreviousOfSymbol(U, w))
      BY <1>2
    <3> QED BY <1>0, <3>1, SameWait
  <2>3. (\E u \in Previous(T, t) : Lost(u) /\ Within(u.closed, t.opened, RevengeWindow))
              <=> (\E u \in Previous(U, w) : Lost(u) /\ Within(u.closed, w.opened, RevengeWindow))
    <3>1. AllSame(Previous(T, t), Previous(U, w))
      BY <1>2
    <3> QED BY <1>0, <3>1, SameWait
  <2> QED BY <1>5, <2>1, <2>2, <2>3 DEF PostLoss
<1>7. Waiting(T, t) = Waiting(U, w)
  <2> DEFINE long == <<<<10, 75>>, <<30, 50>>, <<RevengeWindow, 25>>>>
             short == <<<<10, 40>>, <<30, 25>>>>
  <2>1. (\E u \in PreviousOfSymbol(T, t) : u.closed <= t.opened)
               <=> (\E u \in PreviousOfSymbol(U, w) : u.closed <= w.opened)
    BY <1>0, <1>2, SameAnswers
  <2>2. \A steps : /\ Ladder(PreviousOfSymbol(T, t), t, steps) = Ladder(PreviousOfSymbol(U, w), w, steps)
                   /\ Ladder(Previous(T, t), t, steps) = Ladder(Previous(U, w), w, steps)
    BY <1>0, <1>2, SameLadder
  <2>3. Waiting(T, t) = IF \E u \in PreviousOfSymbol(T, t) : u.closed <= t.opened
                        THEN Ladder(PreviousOfSymbol(T, t), t, long) ELSE Ladder(Previous(T, t), t, short)
    BY DEF Waiting
  <2>4. Waiting(U, w) = IF \E u \in PreviousOfSymbol(U, w) : u.closed <= w.opened
                        THEN Ladder(PreviousOfSymbol(U, w), w, long) ELSE Ladder(Previous(U, w), w, short)
    BY DEF Waiting
  <2> HIDE DEF long, short
  <2> QED BY <2>1, <2>2, <2>3, <2>4
<1>8. /\ Larger(compared(T, t), t) <=> Larger(compared(U, w), w)
      /\ SameSize(compared(T, t), t) <=> SameSize(compared(U, w), w)
    BY <1>0, <1>2, SameAnswers
<1>9. LossStreak(T, t) = LossStreak(U, w)
    BY SameStreak DEF t, w
<1>10. Revenge(T, t) = Revenge(U, w)
  <2> DEFINE score(S, x) ==
          IF InSplit(S, x) THEN 0
          ELSE   (IF PostLoss(S, x) > 0 THEN PostLoss(S, x) ELSE Waiting(S, x))
               + (IF SameSymbolReentry(S, x) THEN 25 ELSE 0)
               + (IF SameIdeaReentry(S, x) THEN 35 ELSE 0)
               + (IF Larger(compared(S, x), x) THEN 55 ELSE IF SameSize(compared(S, x), x) THEN 10 ELSE 0)
               + (IF LossStreak(S, x) >= 2 THEN 70 ELSE IF LossStreak(S, x) = 1 THEN 22 ELSE 0)
  <2>1. Revenge(T, t) = score(T, t) /\ Revenge(U, w) = score(U, w)
    BY DEF Revenge
  <2> HIDE DEF compared
  <2>2. score(T, t) = score(U, w)
    BY <1>3, <1>4, <1>5, <1>6, <1>7, <1>8, <1>9
  <2> QED BY <2>1, <2>2
<1> QED BY <1>10 DEF Suspicious, t, w

-----------------------------------------------------------------------------
(* Answering suggestions *)

LEMMA GroupsHoldEligible ==
    ASSUME NEW T, Proper(T)
    PROVE  Groups(T) \subseteq SUBSET Eligible(T)
<1> DEFINE S == Eligible(T)
           s == Chronological(S)
           n == Len(s)
<1>1. PICK d : GroupsAlong(d, s, S) /\ Groups(T) = d[n]
    BY GroupsAreFound
<1>2. n \in Nat
    BY PartIsProper, ChronologicalSorts DEF Eligible, Opened
<1> HIDE DEF S, s
<1>3. n \in 0 .. n
    BY <1>2
<1>4. Groups(T) \in SUBSET (SUBSET S)
    BY <1>1, <1>3 DEF GroupsAlong
<1> QED BY <1>4 DEF S

LEMMA AloneByIds ==
    ASSUME NEW T, NEW J, NEW p, Named(T, J, p)
    PROVE  AloneIn(T) = {i \in OpenIn(J, p) \ UNION GroupsIn(T) : Suspicious(T, p[i])}
<1> DEFINE E == OpenIn(J, p)
<1>1. Eligible(T) = {p[i] : i \in E} /\ E \subseteq J /\ Eligible(T) \subseteq T
    BY NamedPart DEF OpenIn, Eligible
<1>2. \A g \in Groups(T) : g \in SUBSET T
    BY <1>1, NamedIsProper, GroupsHoldEligible
<1>3. \A i \in J : i \in UNION GroupsIn(T) <=> p[i] \in UNION Groups(T)
  <2> SUFFICES ASSUME NEW i \in J PROVE i \in UNION GroupsIn(T) <=> p[i] \in UNION Groups(T)
    OBVIOUS
  <2>1. \A g \in Groups(T) : i \in IdsOf(g) <=> p[i] \in g
    BY <1>2, NamedPart
  <2>2. GroupsIn(T) = {IdsOf(g) : g \in Groups(T)}
    BY DEF GroupsIn
  <2> QED BY <2>1, <2>2
<1> DEFINE A == {t \in Eligible(T) \ UNION Groups(T) : Suspicious(T, t)}
           I == {i \in E \ UNION GroupsIn(T) : Suspicious(T, p[i])}
<1>4. AloneIn(T) = {t.id : t \in A}
    BY DEF AloneIn, Alone, IdsOf
<1>5. \A i \in E : p[i].id = i
    BY <1>1 DEF Named
<1> HIDE DEF E
<1>6. A = {p[i] : i \in I}
    BY <1>1, <1>3
<1>7. {t.id : t \in {p[i] : i \in I}} = I
    BY <1>5
<1> QED BY <1>4, <1>6, <1>7 DEF E

\* bundled and flagged are what q marks and p does not, and q keeps the marks of p.
Answered(J, p, q, bundled, flagged) ==
    \A i \in J : /\ p[i].bundle # Nil => q[i].bundle # Nil
                 /\ p[i].flag => q[i].flag
                 /\ i \in bundled <=> (p[i].bundle = Nil /\ q[i].bundle # Nil)
                 /\ i \in flagged <=> (~p[i].flag /\ q[i].flag)

\* The groups that hold bundled are of G, and flagged is of A or bundled.
Suggested(G, A, groups, bundled, flagged) ==
    groups \subseteq G /\ UNION groups = bundled /\ flagged \subseteq A \cup bundled

LEMMA AnswersSettle ==
    ASSUME NEW T, NEW U, NEW J, NEW p, NEW q, Remarked(T, U, J, p, q),
           NEW bundled, NEW flagged, Answered(J, p, q, bundled, flagged),
           NEW groups, Suggested(GroupsIn(T), AloneIn(T), groups, bundled, flagged)
    PROVE  GroupsIn(U) = GroupsIn(T) \ groups /\ AloneIn(U) = AloneIn(T) \ flagged
<1> DEFINE E == OpenIn(J, p)
           F == OpenIn(J, q)
           R == BeforeIn(J, p)
           Q == PartsIn(J, p)
           G == GroupsIn(T)
<1>0. Named(T, J, p) /\ Named(U, J, q) /\ R = BeforeIn(J, q) /\ Q = PartsIn(J, q) /\ E \subseteq J /\ F \subseteq J
    BY SameRelations DEF Remarked, OpenIn
<1>1. Grouped(G, E, E, R, Q) /\ Relations(E, R, Q)
    BY <1>0, GroupsAreGrouped, NamedRelations
<1>2. Grouped(GroupsIn(U), F, F, R, Q) /\ Relations(F, R, Q)
    BY <1>0, GroupsAreGrouped, NamedRelations
<1>3. AloneIn(T) = {i \in E \ UNION G : Suspicious(T, p[i])}
    BY <1>0, AloneByIds
<1>4. AloneIn(U) = {i \in F \ UNION GroupsIn(U) : Suspicious(U, q[i])}
    BY <1>0, AloneByIds
<1>5. \A i \in J : Suspicious(T, p[i]) <=> Suspicious(U, q[i])
    BY SameSuspicion
<1>6. F = E \ (bundled \cup flagged)
    BY DEF OpenIn, Answered
<1> HIDE DEF E, F, R, Q, G
<1>7. flagged \subseteq (E \ UNION G) \cup UNION groups /\ UNION groups = bundled
    BY <1>3 DEF Suggested
<1>8. groups \in SUBSET G
    BY DEF G, Suggested
<1>9. Grouped(G \ groups, F, F, R, Q)
    BY <1>1, <1>6, <1>7, <1>8, RestGrouped
<1>10. GroupsIn(U) = G \ groups
    BY <1>2, <1>9, OneGrouping
<1>11. F \ UNION (G \ groups) = (E \ UNION G) \ flagged
  <2>1. UNION G = bundled \cup UNION (G \ groups)
    BY <1>7, <1>8
  <2> QED BY <1>6, <2>1
<1>12. AloneIn(U) = AloneIn(T) \ flagged
    BY <1>0, <1>3, <1>4, <1>5, <1>10, <1>11
<1> QED BY <1>10, <1>12 DEF G


-----------------------------------------------------------------------------
(* The marks of the reviews *)

Marks == [Ids -> [bundle : Ids \cup {Nil}, revenge : BOOLEAN]]

\* Bundles are kept, and what is marked as revenge stays so.
BundlesOnly(m, k) ==
    /\ k \in Marks
    /\ \A i \in Ids : /\ k[i].revenge = m[i].revenge
                      /\ m[i].bundle # Nil => k[i].bundle = m[i].bundle

LEMMA BundleAsBundles ==
    ASSUME NEW m \in Marks, NEW g \in SUBSET Ids
    PROVE  BundlesOnly(m, BundleAs(m, g))
<1> DEFINE free == {i \in g : m[i].bundle = Nil}
           least == CHOOSE k \in free : \A j \in free : k <= j
           b == BundleAs(m, g)
<1>0. Ids \subseteq Nat
    BY ReviewAssumption
<1>1. free # {} => least \in Ids
  <2>1. free \subseteq Nat /\ free \subseteq Ids
    BY <1>0
  <2> HIDE DEF free
  <2>2. free # {} => \E k \in free : \A j \in free : k <= j
    BY <2>1, LeastNumber
  <2> QED BY <2>1, <2>2
<1>2. b = [i \in Ids |-> IF i \in free THEN [m[i] EXCEPT !.bundle = least] ELSE m[i]]
    BY DEF BundleAs
<1> HIDE DEF least, free, b
<1>3. ASSUME NEW i \in Ids
      PROVE  /\ b[i] \in [bundle : Ids \cup {Nil}, revenge : BOOLEAN]
             /\ b[i].revenge = m[i].revenge
             /\ m[i].bundle # Nil => b[i].bundle = m[i].bundle
  <2>1. m[i] \in [bundle : Ids \cup {Nil}, revenge : BOOLEAN]
    BY DEF Marks
  <2>2. CASE i \in free
    <3>1. b[i] = [m[i] EXCEPT !.bundle = least] /\ least \in Ids /\ m[i].bundle = Nil
      BY <1>1, <1>2, <2>2 DEF free
    <3> QED BY <2>1, <3>1
  <2>3. CASE i \notin free
    <3>1. b[i] = m[i]
      BY <1>2, <2>3
    <3> QED BY <2>1, <3>1
  <2> QED BY <2>2, <2>3
<1>4. b \in Marks
    BY <1>2, <1>3 DEF Marks
<1> QED BY <1>3, <1>4 DEF BundlesOnly, b

LEMMA BundlesOnlyTwice ==
    ASSUME NEW m \in Marks, NEW k, BundlesOnly(m, k), NEW l, BundlesOnly(k, l)
    PROVE  BundlesOnly(m, l)
BY DEF BundlesOnly

\* However many groups are bundled, one after the other.
LEMMA BundlesAllBundle ==
    ASSUME NEW m \in Marks, NEW K \in SUBSET (SUBSET Ids)
    PROVE  BundlesOnly(m, FoldSet(LAMBDA g, k : BundleAs(k, g), m, K))
<1> DEFINE V == {k \in Marks : BundlesOnly(m, k)}
           c == [S \in SUBSET K |-> CHOOSE g \in S : TRUE]
           step == [g \in K |-> [k \in V |-> BundleAs(k, g)]]
           f == CHOOSE f : f = [S \in SUBSET K |->
                    IF S = {} THEN m ELSE BundleAs(f[S \ {CHOOSE g \in S : TRUE}], CHOOSE g \in S : TRUE)]
<1>0. FoldSet(LAMBDA g, k : BundleAs(k, g), m, K) = f[K]
    BY DEF FoldSet, MapThenFoldSet
<1>1. IsFiniteSet(K)
  <2>1. IsFiniteSet(SUBSET Ids)
    BY ReviewAssumption, FS_SUBSET
  <2> QED BY <2>1, FS_Subset
<1>2. m \in V
    BY DEF BundlesOnly
<1>3. \A g \in K : \A k \in V : step[g][k] = BundleAs(k, g) /\ step[g][k] \in V
  <2> SUFFICES ASSUME NEW g \in K, NEW k \in V PROVE BundleAs(k, g) \in V
    OBVIOUS
  <2>1. BundlesOnly(k, BundleAs(k, g))
    BY BundleAsBundles
  <2>2. BundlesOnly(m, BundleAs(k, g))
    BY <2>1, BundlesOnlyTwice
  <2> QED BY <2>2 DEF BundlesOnly
<1>4. Chooses(c, K)
    BY DEF Chooses
<1> HIDE DEF V, step
<1>5. PICK h : IsFold(h, K, m, c, step)
    BY <1>1, <1>4, FoldExists
<1>6. \A S \in SUBSET K : h[S] \in V
    BY <1>1, <1>2, <1>3, <1>4, <1>5, FoldStays
<1>7. ASSUME NEW S \in SUBSET K
      PROVE  h[S] = IF S = {} THEN m ELSE BundleAs(h[S \ {CHOOSE g \in S : TRUE}], CHOOSE g \in S : TRUE)
  <2>1. CASE S = {}
    BY <1>5, <2>1 DEF IsFold
  <2>2. CASE S # {}
    <3>1. c[S] = (CHOOSE g \in S : TRUE) /\ c[S] \in K /\ S \ {c[S]} \in SUBSET K
      BY <2>2
    <3>2. h[S] = step[c[S]][h[S \ {c[S]}]] /\ h[S \ {c[S]}] \in V
      BY <1>5, <1>6, <2>2, <3>1 DEF IsFold
    <3> HIDE DEF c
    <3>3. h[S] = BundleAs(h[S \ {c[S]}], c[S])
      BY <1>3, <3>1, <3>2
    <3> QED BY <2>2, <3>1, <3>3
  <2> QED BY <2>1, <2>2
<1>8. h = [S \in SUBSET K |-> h[S]]
    BY <1>5 DEF IsFold
<1>9. h = [S \in SUBSET K |->
              IF S = {} THEN m ELSE BundleAs(h[S \ {CHOOSE g \in S : TRUE}], CHOOSE g \in S : TRUE)]
    BY <1>7, <1>8
<1>10. f = [S \in SUBSET K |->
              IF S = {} THEN m ELSE BundleAs(f[S \ {CHOOSE g \in S : TRUE}], CHOOSE g \in S : TRUE)]
    BY <1>9
<1>11. f[K] \in V
  <2> HIDE DEF f
  <2>1. \A S \in SUBSET K : f[S] = IF S = {} THEN m ELSE BundleAs(f[S \ {CHOOSE g \in S : TRUE}], CHOOSE g \in S : TRUE)
    BY <1>10
  <2> DEFINE P == {n \in Nat : \A S \in SUBSET K : Cardinality(S) = n => f[S] \in V}
  <2>2. \A S \in SUBSET K : IsFiniteSet(S) /\ Cardinality(S) \in Nat
    BY <1>1, FS_Subset, FS_CardinalityType
  <2>3. 0 \in P
    BY <1>2, <2>1, <2>2, FS_EmptySet
  <2>4. ASSUME NEW n \in Nat, n \in P PROVE n + 1 \in P
    <3> SUFFICES ASSUME NEW S \in SUBSET K, Cardinality(S) = n + 1 PROVE f[S] \in V
      OBVIOUS
    <3>1. S # {}
      BY FS_EmptySet
    <3> DEFINE g == CHOOSE g \in S : TRUE
    <3>2. g \in S /\ g \in K /\ S \ {g} \in SUBSET K
      BY <3>1
    <3>3. f[S] = BundleAs(f[S \ {g}], g)
      BY <2>1, <3>1
    <3> HIDE DEF g
    <3>4. Cardinality(S \ {g}) = n
      BY <2>2, <3>2, FS_RemoveElement
    <3>5. f[S \ {g}] \in V
      BY <2>4, <3>2, <3>4
    <3> QED BY <1>3, <3>2, <3>3, <3>5
  <2>5. Nat \subseteq P
    <3> HIDE DEF P
    <3> QED BY <2>3, <2>4, Numbers
  <2> QED BY <2>2, <2>5
<1> QED BY <1>0, <1>11 DEF V


-----------------------------------------------------------------------------
(* The steps of the reviews *)

LEMMA SuggestedIds ==
    ASSUME NEW T, Proper(T), \A t \in T : t.id \in Ids
    PROVE  GroupsIn(T) \subseteq SUBSET Ids
<1>1. \A g \in Groups(T) : g \subseteq T
    BY GroupsHoldEligible DEF Eligible
<1>2. \A g \in Groups(T) : IdsOf(g) \subseteq Ids
    BY <1>1 DEF IdsOf
<1> QED BY <1>2 DEF GroupsIn

LEMMA SuggestionsAreIds ==
    /\ GroupsIn(AllClosed) \subseteq SUBSET Ids
    /\ GroupsIn(ThisWeek) \subseteq SUBSET Ids
<1>1. Proper(AllClosed) /\ \A t \in AllClosed : t.id \in Ids
    BY JournalIsProper, ClosedIsProper
<1>2. Proper(ThisWeek) /\ \A t \in ThisWeek : t.id \in Ids
    BY <1>1, PartIsProper DEF ThisWeek
<1> QED BY <1>1, <1>2, SuggestedIds

LEMMA MarksTyped == ReviewTypeOK => mark \in Marks
BY DEF ReviewTypeOK, Marks

\* k marks at least what m does.
Grows(m, k) ==
    /\ m \in Marks /\ k \in Marks
    /\ \A i \in Ids : /\ m[i].bundle # Nil => k[i].bundle # Nil
                      /\ m[i].revenge => k[i].revenge

LEMMA ConfirmGrows ==
    ASSUME ReviewTypeOK, NEW gs, ConfirmListed(gs)
    PROVE  Grows(mark, mark')
<1> DEFINE kept == {g \in {h \cap IdsOf(AllClosed) : h \in gs} : Cardinality(g) >= 2}
<1>1. IdsOf(AllClosed) \subseteq Ids
    BY JournalIsProper, ClosedIsProper DEF IdsOf
<1>2. kept \in SUBSET (SUBSET Ids)
    BY <1>1
<1>3. mark' = FoldSet(LAMBDA g, m : BundleAs(m, g), mark, kept)
    BY DEF ConfirmListed
<1> HIDE DEF kept
<1>4. BundlesOnly(mark, mark')
    BY <1>2, <1>3, MarksTyped, BundlesAllBundle
<1> QED BY <1>4, MarksTyped DEF BundlesOnly, Grows

LEMMA SaveGrows ==
    ASSUME ReviewTypeOK, SaveCheckin
    PROVE  mark' = mark \/ Grows(mark, mark')
<1>1. CASE ThisWeek = {}
    BY <1>1 DEF SaveCheckin
<1>2. CASE ThisWeek # {}
  <2> DEFINE bundled == FoldSet(LAMBDA g, m : BundleAs(m, g), mark, TakenGroups)
  <2>1. TakenGroups \in SUBSET (SUBSET Ids)
    BY SuggestionsAreIds DEF TakenGroups
  <2>2. BundlesOnly(mark, bundled)
    BY <2>1, MarksTyped, BundlesAllBundle
  <2>3. mark' = [i \in Ids |-> [bundled[i] EXCEPT !.revenge = @ \/ i \in Guilty]]
    BY <1>2 DEF SaveCheckin
  <2> HIDE DEF bundled
  <2>4. ASSUME NEW i \in Ids
        PROVE  /\ mark'[i] \in [bundle : Ids \cup {Nil}, revenge : BOOLEAN]
               /\ mark'[i].bundle = bundled[i].bundle
               /\ bundled[i].revenge => mark'[i].revenge
    <3> DEFINE r == bundled[i].revenge \/ i \in Guilty
    <3>1. bundled[i] \in [bundle : Ids \cup {Nil}, revenge : BOOLEAN]
      BY <2>2 DEF BundlesOnly, Marks
    <3>2. mark'[i] = [bundled[i] EXCEPT !.revenge = r]
      BY <2>3
    <3>3. r \in BOOLEAN /\ (bundled[i].revenge => r)
      OBVIOUS
    <3> HIDE DEF r
    <3>4. mark'[i].revenge = r /\ mark'[i].bundle = bundled[i].bundle
      BY <3>1, <3>2
    <3> QED BY <3>1, <3>2, <3>3, <3>4
  <2>5. mark' \in Marks
    BY <2>3, <2>4 DEF Marks
  <2>6. ASSUME NEW i \in Ids
        PROVE  /\ mark[i].bundle # Nil => mark'[i].bundle # Nil
               /\ mark[i].revenge => mark'[i].revenge
    BY <2>2, <2>4 DEF BundlesOnly
  <2> QED BY <2>5, <2>6, MarksTyped DEF Grows
<1> QED BY <1>1, <1>2

LEMMA UnbundleMarks ==
    ASSUME ReviewTypeOK, Unbundle
    PROVE  /\ mark' \in Marks
           /\ \A i \in Ids : mark'[i].bundle = Nil /\ mark'[i].revenge = mark[i].revenge
<1>1. mark' = [i \in Ids |-> [mark[i] EXCEPT !.bundle = Nil]] /\ mark \in Marks
    BY MarksTyped DEF Unbundle
<1> QED BY <1>1 DEF Marks

\* The pages of the check-in show groups of the week.
LEMMA PagesShowGroups ==
    ASSUME NEW stage, NEW groups, NEW no
    PROVE  /\ Page(stage, groups, no).groups \subseteq SUBSET Ids
           /\ PageAfterBundles(groups).groups \subseteq SUBSET Ids
<1>1. \A s, n : Page(s, groups, n).groups \subseteq SUBSET Ids
    BY SuggestionsAreIds DEF Page
<1>2. PageAfterBundles(groups).groups = Page("classification", groups, {}).groups
    BY DEF PageAfterBundles, Page
<1> QED BY <1>1, <1>2

ReviewStep ==
    \/ mark' = mark
    \/ \A i \in Ids : mark'[i].bundle = Nil /\ mark'[i].revenge = mark[i].revenge
    \/ Grows(mark, mark') /\ row' = row /\ week' = week

LEMMA ReviewTypeKept ==
    ASSUME ReviewTypeOK, [ReviewNext]_reviewVars
    PROVE  ReviewTypeOK' /\ ReviewStep
<1> DEFINE RowStates == [Ids -> States \cup {"none", "closed"}]
           Good == /\ row' \in RowStates /\ mark' \in Marks
                   /\ week' \in 0 .. MaxWeek /\ answered' \subseteq 0 .. MaxWeek
                   /\ listing' \subseteq SUBSET Ids /\ form'.groups \subseteq SUBSET Ids
<1>0. /\ row \in RowStates /\ mark \in Marks /\ week \in 0 .. MaxWeek /\ answered \subseteq 0 .. MaxWeek
      /\ listing \subseteq SUBSET Ids /\ form.groups \subseteq SUBSET Ids /\ MaxWeek \in Nat
    BY MarksTyped, ReviewAssumption DEF ReviewTypeOK
<1>1. Good => ReviewTypeOK'
    BY DEF ReviewTypeOK, Marks
<1>2. \A m, k : Grows(m, k) => k \in Marks
    BY DEF Grows
<1> DEFINE Calm == Good /\ mark' = mark
<1>3. ASSUME NEW i \in Ids, NEW s \in States, Record(i, s) PROVE Calm
    BY <1>0, <1>3 DEF Record
<1>4. ASSUME NextWeek PROVE Calm
    BY <1>0, <1>4 DEF NextWeek
<1>5. ASSUME Unbundle
      PROVE  Good /\ \A i \in Ids : mark'[i].bundle = Nil /\ mark'[i].revenge = mark[i].revenge
    BY <1>0, <1>5, UnbundleMarks DEF Unbundle
<1>6. ASSUME OpenListing PROVE Calm
    BY <1>0, <1>6, SuggestionsAreIds DEF OpenListing
<1>7. ASSUME NEW gs, ConfirmListed(gs)
      PROVE  Good /\ Grows(mark, mark') /\ row' = row /\ week' = week
  <2>1. Grows(mark, mark')
    BY <1>7, ConfirmGrows
  <2>2. row' = row /\ week' = week /\ answered' = answered /\ listing' = {} /\ form' = form
    BY <1>7 DEF ConfirmListed
  <2> QED BY <1>0, <1>2, <2>1, <2>2
<1>8. ASSUME OpenCheckin PROVE Calm
  <2>1. form'.groups \subseteq SUBSET Ids
    <3>1. [NoForm EXCEPT !.stage = "bundles", !.groups = GroupsIn(ThisWeek)].groups = GroupsIn(ThisWeek)
      BY DEF NoForm
    <3> QED BY <1>8, <3>1, SuggestionsAreIds, PagesShowGroups DEF OpenCheckin
  <2> QED BY <1>0, <1>8, <2>1 DEF OpenCheckin
<1>9. ASSUME PostIncomplete PROVE Calm
    BY <1>0, <1>9, PagesShowGroups DEF PostIncomplete, NoForm
<1>10. ASSUME SaveCheckin PROVE Good /\ (mark' = mark \/ (Grows(mark, mark') /\ row' = row /\ week' = week))
  <2>1. mark' = mark \/ Grows(mark, mark')
    BY <1>10, SaveGrows
  <2>2. row' = row /\ week' = week /\ listing' = listing /\ form'.groups = {}
    BY <1>10 DEF SaveCheckin, NoForm
  <2>3. answered' \subseteq 0 .. MaxWeek
    BY <1>0, <1>10 DEF SaveCheckin
  <2> QED BY <1>0, <1>2, <2>1, <2>2, <2>3
<1>11. ASSUME LeaveCheckin PROVE Calm
    BY <1>0, <1>11 DEF LeaveCheckin, NoForm
<1>12. ASSUME NEW gs, PostBundles(gs) PROVE Calm
    BY <1>0, <1>12, PagesShowGroups DEF PostBundles, NoForm
<1>13. ASSUME NEW no, PostClassification(no) PROVE Calm
    BY <1>0, <1>13, PagesShowGroups DEF PostClassification, NoForm
<1>14. ASSUME UNCHANGED reviewVars PROVE Calm
    BY <1>0, <1>14 DEF reviewVars
<1>15. Good /\ ReviewStep
  <2> HIDE DEF Good
  <2> QED BY <1>3, <1>4, <1>5, <1>6, <1>7, <1>8, <1>9, <1>10, <1>11, <1>12, <1>13, <1>14
          DEF ReviewNext, ReviewStep
<1> QED BY <1>1, <1>15

LEMMA ReviewTypeInitially == ReviewInit => ReviewTypeOK
<1> SUFFICES ASSUME ReviewInit PROVE ReviewTypeOK
    OBVIOUS
<1>1. row \in [Ids -> States \cup {"none", "closed"}]
    BY DEF ReviewInit
<1>2. mark \in [Ids -> [bundle : Ids \cup {Nil}, revenge : BOOLEAN]]
    BY DEF ReviewInit
<1>3. week \in 0 .. MaxWeek /\ answered \subseteq 0 .. MaxWeek
    BY ReviewAssumption DEF ReviewInit
<1>4. listing \subseteq SUBSET Ids /\ form.groups \subseteq SUBSET Ids
    BY DEF ReviewInit, NoForm
<1> QED BY <1>1, <1>2, <1>3, <1>4 DEF ReviewTypeOK

\* Marks name bundles by trades, groups hold trades, and answered weeks have
\* passed, whatever forms are posted in whatever order (routes/checkin.py:340,
\* routes/trades.py:1684).
THEOREM ReviewTypeCorrect == ReviewSpec => []ReviewTypeOK
<1>1. ReviewInit => ReviewTypeOK
    BY ReviewTypeInitially
<1>2. ReviewTypeOK /\ [ReviewNext]_reviewVars => ReviewTypeOK'
    BY ReviewTypeKept
<1> QED BY <1>1, <1>2, PTL DEF ReviewSpec


-----------------------------------------------------------------------------
(* Answers settle the suggestions. *)

\* The trade of a row with its marks, and the trades J
TradeAs(r, m, i) ==
    [Data[i] EXCEPT
        !.closed = IF r[i] \in {"closed", "timed"} THEN @ ELSE Nil,
        !.exit = IF r[i] \in {"closed", "exited"} THEN @ ELSE Nil,
        !.known = r[i] \in {"closed", "exited"},
        !.bundle = m[i].bundle,
        !.flag = m[i].revenge]
TradesAs(r, m, J) == {TradeAs(r, m, i) : i \in J}

\* Which ones those of the account and those of a week are, marks do not say.
ClosedAt(r, i) == IF r[i] \in {"closed", "timed"} THEN Data[i].closed ELSE Nil
ClosedIds(r) == {i \in Ids : r[i] # "none" /\ ClosedAt(r, i) # Nil}
WeekIds(r, w) == {i \in ClosedIds(r) : ClosedAt(r, i) \div WeekLength = w}

LEMMA TradeAsColumns ==
    ASSUME NEW r, NEW m, NEW i \in Ids
    PROVE  LET t == TradeAs(r, m, i) IN
           /\ IsTrade(t) /\ t.id = i /\ t.closed = ClosedAt(r, i)
           /\ t.bundle = m[i].bundle /\ t.flag = m[i].revenge
<1> DEFINE t == TradeAs(r, m, i)
<1>1. Data[i] \in TradeRecords /\ Data[i].id = i /\ i \in Nat
    BY ReviewAssumption
<1>2. DOMAIN Data[i] = Columns /\ Data[i].opened \in Nat /\ Data[i].closed \in Nat
    BY <1>1 DEF TradeRecords, Columns
<1>3. DOMAIN t = Columns
    BY <1>2 DEF TradeAs
<1>4. t.id = i /\ t.opened = Data[i].opened
    BY <1>1, <1>2 DEF TradeAs, Columns
<1>5. t.closed = ClosedAt(r, i) /\ ClosedAt(r, i) \in Nat
    BY <1>2 DEF TradeAs, ClosedAt, Columns, Nil
<1>6. t.bundle = m[i].bundle /\ t.flag = m[i].revenge
    BY <1>2 DEF TradeAs, Columns
<1> HIDE DEF t
<1>7. IsTrade(t)
    BY <1>1, <1>2, <1>3, <1>4, <1>5 DEF IsTrade
<1> QED BY <1>4, <1>5, <1>6, <1>7 DEF t

LEMMA TradeAsLooks ==
    ASSUME NEW r, NEW m, NEW k, NEW i \in Ids
    PROVE  SameButMarks(TradeAs(r, m, i), TradeAs(r, k, i))
<1> DEFINE d == Data[i]
           exit == IF r[i] \in {"closed", "exited"} THEN d.exit ELSE Nil
           known == r[i] \in {"closed", "exited"}
<1>1. DOMAIN d = Columns
    BY ReviewAssumption DEF TradeRecords, Columns
<1>2. ASSUME NEW l
      PROVE  LET t == TradeAs(r, l, i) IN
             /\ t.opened = d.opened /\ t.symbol = d.symbol /\ t.side = d.side /\ t.lot = d.lot
             /\ t.raw = d.raw /\ t.commission = d.commission /\ t.swap = d.swap
             /\ t.sl = d.sl /\ t.tp = d.tp /\ t.exit = exit /\ t.known = known
  <2> DEFINE t == TradeAs(r, l, i)
  <2>1. /\ t.opened = d.opened /\ t.symbol = d.symbol /\ t.side = d.side /\ t.lot = d.lot
        /\ t.raw = d.raw /\ t.commission = d.commission /\ t.swap = d.swap
        /\ t.sl = d.sl /\ t.tp = d.tp
    BY <1>1 DEF TradeAs, Columns
  <2>2. t.exit = exit
    BY <1>1 DEF TradeAs, Columns
  <2>3. t.known = known
    BY <1>1 DEF TradeAs, Columns
  <2> QED BY <2>1, <2>2, <2>3
<1> HIDE DEF d, exit, known
<1>3. /\ TradeAs(r, m, i).id = i /\ TradeAs(r, k, i).id = i
      /\ TradeAs(r, m, i).closed = ClosedAt(r, i) /\ TradeAs(r, k, i).closed = ClosedAt(r, i)
    BY TradeAsColumns
<1> QED BY <1>2, <1>3 DEF SameButMarks

LEMMA TradesAreRemarked ==
    ASSUME NEW r, NEW m, NEW k, NEW J \in SUBSET Ids
    PROVE  Remarked(TradesAs(r, m, J), TradesAs(r, k, J), J,
                    [i \in J |-> TradeAs(r, m, i)], [i \in J |-> TradeAs(r, k, i)])
<1> DEFINE p == [i \in J |-> TradeAs(r, m, i)]
           q == [i \in J |-> TradeAs(r, k, i)]
<1>1. IsFiniteSet(J)
    BY ReviewAssumption, FS_Subset
<1>2. \A i \in J : p[i] = TradeAs(r, m, i) /\ q[i] = TradeAs(r, k, i)
    OBVIOUS
<1> HIDE DEF p, q
<1>3. TradesAs(r, m, J) = {p[i] : i \in J} /\ TradesAs(r, k, J) = {q[i] : i \in J}
    BY <1>2 DEF TradesAs
<1>4. \A i \in J : IsTrade(p[i]) /\ p[i].id = i /\ IsTrade(q[i]) /\ q[i].id = i
    BY <1>2, TradeAsColumns
<1>5. \A i \in J : SameButMarks(p[i], q[i])
    BY <1>2, TradeAsLooks
<1>6. Remarked(TradesAs(r, m, J), TradesAs(r, k, J), J, p, q)
    BY <1>1, <1>3, <1>4, <1>5 DEF Remarked, Named
<1> QED BY <1>6 DEF p, q

NewMarks(m, k, bundled, flagged) ==
    /\ bundled = {i \in Ids : m[i].bundle = Nil /\ k[i].bundle # Nil}
    /\ flagged = {i \in Ids : ~m[i].revenge /\ k[i].revenge}

\* Answers that are suggestions for the trades J, whatever else k marks.
LEMMA MarksSettle ==
    ASSUME NEW r, NEW m, NEW k, Grows(m, k), NEW J \in SUBSET Ids,
           NEW bundled, NEW flagged, NewMarks(m, k, bundled, flagged), NEW groups,
           Suggested(GroupsIn(TradesAs(r, m, J)), AloneIn(TradesAs(r, m, J)), groups, bundled, flagged)
    PROVE  /\ GroupsIn(TradesAs(r, k, J)) = GroupsIn(TradesAs(r, m, J)) \ groups
           /\ AloneIn(TradesAs(r, k, J)) = AloneIn(TradesAs(r, m, J)) \ flagged
<1> DEFINE p == [i \in J |-> TradeAs(r, m, i)]
           q == [i \in J |-> TradeAs(r, k, i)]
           T == TradesAs(r, m, J)
           U == TradesAs(r, k, J)
<1>1. Remarked(T, U, J, p, q)
    BY TradesAreRemarked
<1>2. Answered(J, p, q, bundled, flagged)
  <2>1. \A i \in J : /\ p[i].bundle = m[i].bundle /\ p[i].flag = m[i].revenge
                     /\ q[i].bundle = k[i].bundle /\ q[i].flag = k[i].revenge
    BY TradeAsColumns
  <2> HIDE DEF p, q
  <2> QED BY <2>1 DEF Answered, Grows, NewMarks
<1>0. Suggested(GroupsIn(T), AloneIn(T), groups, bundled, flagged)
    OBVIOUS
<1> HIDE DEF p, q, T, U
<1>3. GroupsIn(U) = GroupsIn(T) \ groups /\ AloneIn(U) = AloneIn(T) \ flagged
    BY <1>0, <1>1, <1>2, AnswersSettle
<1> QED BY <1>3 DEF T, U

\* The same for a step, which answers with what it marks.
LEMMA MarksSettleNext ==
    ASSUME Grows(mark, mark'), NewMarks(mark, mark', Bundled, Marked), NEW J \in SUBSET Ids,
           Suggested(GroupsIn(TradesAs(row, mark, J)), AloneIn(TradesAs(row, mark, J)),
                     BundledGroups, Bundled, Marked)
    PROVE  /\ GroupsIn(TradesAs(row, mark', J)) = GroupsIn(TradesAs(row, mark, J)) \ BundledGroups
           /\ AloneIn(TradesAs(row, mark', J)) = AloneIn(TradesAs(row, mark, J)) \ Marked
<1>1. ASSUME NEW r, NEW m, NEW k, r = row, m = mark, k = mark'
      PROVE  /\ GroupsIn(TradesAs(r, k, J)) = GroupsIn(TradesAs(r, m, J)) \ BundledGroups
             /\ AloneIn(TradesAs(r, k, J)) = AloneIn(TradesAs(r, m, J)) \ Marked
  <2>1. Grows(m, k) /\ NewMarks(m, k, Bundled, Marked)
    BY <1>1
  <2>2. Suggested(GroupsIn(TradesAs(r, m, J)), AloneIn(TradesAs(r, m, J)),
                  BundledGroups, Bundled, Marked)
    BY <1>1
  <2>3. ASSUME NEW b, NEW f, NEW g, b = Bundled, f = Marked, g = BundledGroups
        PROVE  /\ GroupsIn(TradesAs(r, k, J)) = GroupsIn(TradesAs(r, m, J)) \ g
               /\ AloneIn(TradesAs(r, k, J)) = AloneIn(TradesAs(r, m, J)) \ f
    <3>1. NewMarks(m, k, b, f)
      BY <2>1, <2>3
    <3>2. Suggested(GroupsIn(TradesAs(r, m, J)), AloneIn(TradesAs(r, m, J)), g, b, f)
      BY <2>2, <2>3
    <3> QED BY <2>1, <3>1, <3>2, MarksSettle
  <2> QED BY <2>3
<1> QED BY <1>1

LEMMA ClosedTrades ==
    /\ AllClosed = TradesAs(row, mark, ClosedIds(row))
    /\ ThisWeek = TradesAs(row, mark, WeekIds(row, week))
<1>1. \A i \in Ids : Trade(i) = TradeAs(row, mark, i)
    BY DEF Trade, TradeAs
<1>2. \A i \in Ids : TradeAs(row, mark, i).closed = ClosedAt(row, i)
    BY TradeAsColumns
<1>3. AllClosed = TradesAs(row, mark, ClosedIds(row))
    BY <1>1, <1>2 DEF AllClosed, Journal, TradesAs, ClosedIds
<1>4. ThisWeek = TradesAs(row, mark, WeekIds(row, week))
    BY <1>2, <1>3 DEF ThisWeek, TradesAs, WeekIds, ClosedIds
<1> QED BY <1>3, <1>4

\* What is suggested before and after a step.
LEMMA SuggestedNow ==
    /\ GroupsIn(AllClosed) = GroupsIn(TradesAs(row, mark, ClosedIds(row)))
    /\ AloneIn(AllClosed) = AloneIn(TradesAs(row, mark, ClosedIds(row)))
    /\ GroupsIn(ThisWeek) = GroupsIn(TradesAs(row, mark, WeekIds(row, week)))
    /\ AloneIn(ThisWeek) = AloneIn(TradesAs(row, mark, WeekIds(row, week)))
BY ClosedTrades

LEMMA SuggestedNext ==
    /\ GroupsIn(AllClosed)' = GroupsIn(TradesAs(row', mark', ClosedIds(row')))
    /\ AloneIn(AllClosed)' = AloneIn(TradesAs(row', mark', ClosedIds(row')))
    /\ GroupsIn(ThisWeek)' = GroupsIn(TradesAs(row', mark', WeekIds(row', week')))
    /\ AloneIn(ThisWeek)' = AloneIn(TradesAs(row', mark', WeekIds(row', week')))
<1>1. /\ (GroupsIn(AllClosed) = GroupsIn(TradesAs(row, mark, ClosedIds(row))))'
      /\ (AloneIn(AllClosed) = AloneIn(TradesAs(row, mark, ClosedIds(row))))'
      /\ (GroupsIn(ThisWeek) = GroupsIn(TradesAs(row, mark, WeekIds(row, week))))'
      /\ (AloneIn(ThisWeek) = AloneIn(TradesAs(row, mark, WeekIds(row, week))))'
    BY SuggestedNow, PTL
<1> QED BY <1>1

LEMMA AnswersAreSettled ==
    ASSUME ReviewTypeOK, [ReviewNext]_reviewVars
    PROVE  SuggestionsSettled
<1> SUFFICES ASSUME Bundled \cup Marked # {}
             PROVE  SettledIn(AllClosed) /\ SettledIn(ThisWeek)
    BY DEF SuggestionsSettled
<1>1. Grows(mark, mark') /\ row' = row /\ week' = week
  <2>1. ReviewStep
    BY ReviewTypeKept
  <2>2. mark' # mark
    BY DEF Bundled, Marked
  <2>3. ~ \A i \in Ids : mark'[i].bundle = Nil /\ mark'[i].revenge = mark[i].revenge
    BY DEF Bundled, Marked
  <2> QED BY <2>1, <2>2, <2>3 DEF ReviewStep
<1>2. UNION BundledGroups = Bundled
    BY DEF BundledGroups
<1>4. NewMarks(mark, mark', Bundled, Marked)
    BY DEF NewMarks, Bundled, Marked
<1>3. SettledIn(AllClosed)
  <2> DEFINE J == ClosedIds(row)
  <2> SUFFICES ASSUME BundledGroups \subseteq GroupsIn(AllClosed),
                      Marked \subseteq AloneIn(AllClosed) \cup UNION BundledGroups
               PROVE  /\ GroupsIn(AllClosed)' = GroupsIn(AllClosed) \ BundledGroups
                      /\ AloneIn(AllClosed)' = AloneIn(AllClosed) \ Marked
    BY DEF SettledIn
  <2>1. J \in SUBSET Ids
    BY DEF ClosedIds
  <2>3. Suggested(GroupsIn(TradesAs(row, mark, J)), AloneIn(TradesAs(row, mark, J)),
                  BundledGroups, Bundled, Marked)
    BY <1>2, SuggestedNow DEF Suggested
  <2> HIDE DEF J
  <2>2. /\ GroupsIn(TradesAs(row, mark', J)) = GroupsIn(TradesAs(row, mark, J)) \ BundledGroups
        /\ AloneIn(TradesAs(row, mark', J)) = AloneIn(TradesAs(row, mark, J)) \ Marked
    BY <1>1, <2>1, <1>4, <2>3, MarksSettleNext
  <2> QED BY <1>1, <2>2, SuggestedNow, SuggestedNext DEF J
<1>5. SettledIn(ThisWeek)
  <2> DEFINE J == WeekIds(row, week)
  <2> SUFFICES ASSUME BundledGroups \subseteq GroupsIn(ThisWeek),
                      Marked \subseteq AloneIn(ThisWeek) \cup UNION BundledGroups
               PROVE  /\ GroupsIn(ThisWeek)' = GroupsIn(ThisWeek) \ BundledGroups
                      /\ AloneIn(ThisWeek)' = AloneIn(ThisWeek) \ Marked
    BY DEF SettledIn
  <2>1. J \in SUBSET Ids
    BY DEF ClosedIds, WeekIds
  <2>3. Suggested(GroupsIn(TradesAs(row, mark, J)), AloneIn(TradesAs(row, mark, J)),
                  BundledGroups, Bundled, Marked)
    BY <1>2, SuggestedNow DEF Suggested
  <2> HIDE DEF J
  <2>2. /\ GroupsIn(TradesAs(row, mark', J)) = GroupsIn(TradesAs(row, mark, J)) \ BundledGroups
        /\ AloneIn(TradesAs(row, mark', J)) = AloneIn(TradesAs(row, mark, J)) \ Marked
    BY <1>1, <2>1, <1>4, <2>3, MarksSettleNext
  <2> QED BY <1>1, <2>2, SuggestedNow, SuggestedNext DEF J
<1> QED BY <1>3, <1>5

\* Answering a suggestion settles it and raises no other, for any trades, forms
\* and orders of the posts (helpers/trade_analysis.py:431, routes/checkin.py:340).
THEOREM SuggestionsAlwaysSound == ReviewSpec => SuggestionsSound
<1>1. ReviewTypeOK /\ [ReviewNext]_reviewVars => [SuggestionsSettled]_reviewVars
    BY AnswersAreSettled
<1> QED BY <1>1, ReviewTypeCorrect, PTL DEF ReviewSpec, SuggestionsSound
-----------------------------------------------------------------------------
(* Periods of time *)

ClosedIdeas == {t \in Merged(Journal) : t.closed # Nil}

\* However the bundles reach over the ends of a period, its ideas are the closed ideas of
\* the journal that closed in it.
LEMMA IdeasOfPeriod ==
    ASSUME NEW from, NEW to
    PROVE  IdeasIn(from, to) = {t \in ClosedIdeas : In(t.closed, from, to)}
<1> DEFINE T == {u \in AllClosed : In(u.closed, from, to)}
           E == Expanded(T)
<1>1. T \subseteq Journal /\ T \subseteq E /\ E \subseteq Journal /\ Proper(E)
    BY ClosedIsProper, JournalIsProper, PartIsProper DEF Expanded
<1>2. \A u \in E : Idea(E, u) = Idea(Journal, u)
  <2> SUFFICES ASSUME NEW u \in E, u.bundle # Nil
               PROVE  PartsOf(E, u) = PartsOf(Journal, u)
    BY DEF Idea
  <2>1. \E t \in T : t.bundle = u.bundle
    BY DEF Expanded
  <2>2. \A v \in Journal : v.bundle = u.bundle => v \in E
    BY <2>1 DEF Expanded
  <2> QED BY <1>1, <2>2 DEF PartsOf
<1>3. IdeasIn(from, to) = {t \in Merged(E) : t.closed # Nil /\ In(t.closed, from, to)}
    BY DEF IdeasIn
<1>4. ASSUME NEW u \in Journal, Idea(Journal, u).closed # Nil,
             In(Idea(Journal, u).closed, from, to)
      PROVE  Idea(Journal, u) \in Merged(E)
  <2>1. PICK v \in PartsOf(Journal, u) : v.closed = Idea(Journal, u).closed
    BY <1>4, JournalIsProper, IdeaFacts
  <2>2. v \in Journal /\ Idea(Journal, v) = Idea(Journal, u)
    BY <2>1, JournalIsProper, IdeaFacts
  <2>3. v \in T
    BY <1>4, <2>1, <2>2 DEF AllClosed
  <2>4. Idea(E, v) = Idea(Journal, u) /\ v \in E
    BY <1>1, <1>2, <2>2, <2>3
  <2> QED BY <2>4, MergedIdeas
<1> HIDE DEF E
<1>5. \A t \in Merged(E) : t \in Merged(Journal)
    BY <1>1, <1>2, MergedIdeas
<1>6. \A t \in Merged(Journal) : t.closed # Nil /\ In(t.closed, from, to) => t \in Merged(E)
    BY <1>4, MergedIdeas
<1> QED BY <1>3, <1>5, <1>6 DEF ClosedIdeas

LEMMA ClosedIdeasAreProper == Proper(ClosedIdeas)
BY JournalIsProper, MergedIsProper, PartIsProper DEF ClosedIdeas

LEMMA ListOfPeriod ==
    ASSUME NEW from, NEW to
    PROVE  LET S == IdeasIn(from, to)
               s == Period(from, to)
           IN  /\ Sorted(s) /\ Range(s) \subseteq S
               /\ Range(s) = S \/ Len(s) = MaxPeriod
               /\ S # {} => s # <<>>
<1> DEFINE S == IdeasIn(from, to)
           all == InOrder(S)
           s == Period(from, to)
<1>1. Proper(S)
    BY IdeasOfPeriod, ClosedIdeasAreProper, PartIsProper
<1>2. s = FirstN(all, MaxPeriod) /\ MaxPeriod \in Nat \ {0}
    BY ReflectAssumption DEF Period
<1> HIDE DEF S, s
<1>3. Sorted(all) /\ Range(all) = S
    BY <1>1, InOrderSorts
<1>4. S # {} => all # <<>>
    BY <1>3, NoneIsSorted
<1> HIDE DEF all
<1>5. /\ Sorted(s) /\ Range(s) \subseteq S
      /\ s = all \/ Len(s) = MaxPeriod
      /\ all # <<>> => s # <<>>
    BY <1>2, <1>3, FirstOnes
<1> QED BY <1>3, <1>4, <1>5 DEF S, s

LEMMA DayOf ==
    ASSUME NEW c \in Nat, NEW l \in Nat \ {0}
    PROVE  c \div l \in Nat /\ (c \div l) * l <= c /\ c < (c \div l + 1) * l
OBVIOUS

LEMMA DaysApart ==
    ASSUME NEW d \in Nat, NEW e \in Nat, d < e, NEW l \in Nat \ {0}
    PROVE  (d + 1) * l <= e * l
<1>1. PICK k \in Nat : e = d + 1 + k
    <2>1. e - d - 1 \in Nat /\ e = d + 1 + (e - d - 1)
      OBVIOUS
    <2> QED BY <2>1
<1>2. k * l \in Nat
    OBVIOUS
<1>3. e * l = (d + 1) * l + k * l
    BY <1>1
<1> QED BY <1>2, <1>3

LEMMA OneDay ==
    ASSUME NEW c \in Nat, NEW d \in Nat, In(c, d * DayLength, (d + 1) * DayLength)
    PROVE  c \div DayLength = d
<1> DEFINE q == c \div DayLength
<1>1. DayLength \in Nat \ {0}
    BY ReflectAssumption
<1>2. q \in Nat /\ q * DayLength <= c /\ c < (q + 1) * DayLength
    BY <1>1, DayOf
<1>3. d * DayLength <= c /\ c < (d + 1) * DayLength
    BY DEF In
<1> HIDE DEF q
<1>4. ~(q < d)
  <2> SUFFICES ASSUME q < d PROVE FALSE
    OBVIOUS
  <2>1. (q + 1) * DayLength <= d * DayLength
    BY <1>1, <1>2, DaysApart
  <2> DEFINE a == (q + 1) * DayLength
             b == d * DayLength
  <2>2. a \in Int /\ b \in Int
    BY <1>1, <1>2
  <2> HIDE DEF a, b
  <2> QED BY <1>2, <1>3, <2>1, <2>2 DEF a, b
<1>5. ~(d < q)
  <2> SUFFICES ASSUME d < q PROVE FALSE
    OBVIOUS
  <2>1. (d + 1) * DayLength <= q * DayLength
    BY <1>1, <1>2, DaysApart
  <2> DEFINE a == (d + 1) * DayLength
             b == q * DayLength
  <2>2. a \in Int /\ b \in Int
    BY <1>1, <1>2
  <2> HIDE DEF a, b
  <2> QED BY <1>2, <1>3, <2>1, <2>2 DEF a, b
<1>6. q = d
    BY <1>2, <1>4, <1>5
<1> QED BY <1>6 DEF q
-----------------------------------------------------------------------------
(* Every idea counts once *)

IdeaDays == 0..Max({0} \cup {t.closed \div DayLength : t \in AllClosed})

\* The day of a closed trade is among the days up to the last one.
LEMMA DayIsThere ==
    ASSUME NEW t \in AllClosed
    PROVE  t.closed \div DayLength \in IdeaDays
<1> DEFINE S == {0} \cup {u.closed \div DayLength : u \in AllClosed}
<1>1. DayLength \in Nat \ {0}
    BY ReflectAssumption
<1>2. \A u \in AllClosed : IsTrade(u)
    BY ClosedIsProper DEF Proper
<1>3. \A u \in AllClosed : u.closed \in Nat /\ u.closed \div DayLength \in Nat
    BY <1>1, <1>2, DayOf DEF IsTrade
<1>4. PICK l \in AllClosed : \A u \in AllClosed : u = l \/ ByClose(u, l)
    BY ClosedIsProper, LastCloses
<1> DEFINE m == l.closed \div DayLength
<1>5. ASSUME NEW u \in AllClosed PROVE u.closed \div DayLength <= m
  <2>1. u.closed <= l.closed
    BY <1>3, <1>4 DEF ByClose
  <2> DEFINE p == u.closed \div DayLength
  <2>2. p \in Nat /\ p * DayLength <= u.closed
    BY <1>1, <1>3, DayOf
  <2>3. m \in Nat /\ l.closed < (m + 1) * DayLength
    BY <1>1, <1>3, DayOf
  <2> HIDE DEF p, m
  <2>4. ~(m < p)
    <3> SUFFICES ASSUME m < p PROVE FALSE
      OBVIOUS
    <3>1. (m + 1) * DayLength <= p * DayLength
      BY <1>1, <2>2, <2>3, DaysApart
    <3> DEFINE a == (m + 1) * DayLength
               b == p * DayLength
    <3>2. a \in Int /\ b \in Int
      BY <1>1, <2>2, <2>3
    <3>3. a <= b /\ b <= u.closed /\ l.closed < a
      BY <2>2, <2>3, <3>1
    <3> HIDE DEF a, b
    <3> QED BY <1>3, <2>1, <3>2, <3>3
  <2>5. p <= m
    BY <2>2, <2>3, <2>4
  <2> QED BY <2>5 DEF p
<1>6. m \in S /\ \A x \in S : m >= x
    BY <1>3, <1>5
<1> HIDE DEF m
<1>7. Max(S) \in S /\ \A x \in S : Max(S) >= x
    BY <1>6 DEF Max
<1>8. t.closed \div DayLength \in S /\ S \subseteq Nat
    BY <1>3
<1> DEFINE p == t.closed \div DayLength
<1> HIDE DEF S, p
<1>9. p \in Nat /\ Max(S) \in Nat /\ p <= Max(S)
    BY <1>7, <1>8 DEF p
<1>10. p \in 0 .. Max(S)
    BY <1>9
<1> QED BY <1>10 DEF IdeaDays, S, p

LEMMA DaysAreDisjoint ==
    ASSUME NEW d \in Nat, NEW e \in Nat, d # e
    PROVE  Range(DayIdeas(d)) \cap Range(DayIdeas(e)) = {}
<1>1. ASSUME NEW c \in Nat, NEW t, t \in Range(DayIdeas(c))
      PROVE  t.closed \div DayLength = c
  <2>1. t \in ClosedIdeas /\ In(t.closed, c * DayLength, (c + 1) * DayLength)
    BY <1>1, ListOfPeriod, IdeasOfPeriod DEF DayIdeas
  <2>2. t.closed \in Nat
    BY <2>1, ClosedIdeasAreProper DEF Proper, IsTrade
  <2> QED BY <2>1, <2>2, OneDay
<1> QED BY <1>1

\* The closed ideas are those that a member of the bundle, or the trade itself, closed last.
LEMMA ClosedIdea ==
    ASSUME NEW t \in ClosedIdeas
    PROVE  \E u \in AllClosed : /\ t = Idea(Journal, u) /\ u.closed = t.closed
                                /\ PartsOf(Journal, u) \subseteq AllClosed
                                /\ \E w \in PartsOf(Journal, u) : t.id = w.id
<1>1. PICK v \in Journal : t = Idea(Journal, v)
    BY MergedIdeas DEF ClosedIdeas
<1>2. t.closed # Nil
    BY DEF ClosedIdeas
<1>3. PICK u \in PartsOf(Journal, v) : u.closed = t.closed
    BY <1>1, <1>2, JournalIsProper, IdeaFacts
<1>4. /\ u \in Journal /\ PartsOf(Journal, u) = PartsOf(Journal, v) /\ Idea(Journal, u) = t
      /\ PartsOf(Journal, u) \subseteq Journal
    BY <1>1, <1>3, JournalIsProper, IdeaFacts
<1>5. \A w \in PartsOf(Journal, u) : w.closed # Nil
    BY <1>1, <1>2, <1>4, JournalIsProper, IdeaFacts
<1>6. \E w \in PartsOf(Journal, u) : t.id = w.id
    BY <1>4, JournalIsProper, IdeaFacts
<1>7. u \in AllClosed /\ PartsOf(Journal, u) \subseteq AllClosed
    BY <1>2, <1>3, <1>4, <1>5 DEF AllClosed
<1> QED BY <1>3, <1>4, <1>6, <1>7

LEMMA IdeaHasADay ==
    ASSUME NEW t \in ClosedIdeas
    PROVE  \E d \in IdeaDays : \/ t \in Range(DayIdeas(d))
                               \/ t.closed \div DayLength = d /\ Len(DayIdeas(d)) = MaxPeriod
<1> DEFINE d == t.closed \div DayLength
<1>1. d \in IdeaDays
    BY ClosedIdea, DayIsThere
<1>2. t.closed \in Nat /\ DayLength \in Nat \ {0} /\ d = t.closed \div DayLength
    BY ClosedIdeasAreProper, ReflectAssumption DEF Proper, IsTrade
<1>3. In(t.closed, d * DayLength, (d + 1) * DayLength)
    BY <1>2, DayOf DEF In
<1> HIDE DEF d
<1>4. t \in IdeasIn(d * DayLength, (d + 1) * DayLength)
    BY <1>3, IdeasOfPeriod
<1>5. t \in Range(DayIdeas(d)) \/ Len(DayIdeas(d)) = MaxPeriod
    BY <1>4, ListOfPeriod DEF DayIdeas
<1> WITNESS d \in IdeaDays
<1> QED BY <1>2, <1>5

\* A session about a closed trade tells of the idea the trade counts in.
LEMMA TradeTellsIdea ==
    ASSUME NEW u \in AllClosed
    PROVE  TradeIdeas(u.id) = <<Idea(Journal, u)>>
<1>1. Trade(u.id) = u
    BY ClosedIsProper, JournalIsProper
<1>2. CASE u.bundle = Nil
    BY <1>1, <1>2 DEF TradeIdeas, Idea
<1>3. CASE u.bundle # Nil
  <2>1. PartsOf(Journal, u) = {v \in Journal : v.bundle = u.bundle}
    BY <1>3 DEF PartsOf
  <2>2. TradeIdeas(u.id) = <<OneTrade({v \in Journal : v.bundle = u.bundle})>>
    BY <1>1, <1>3 DEF TradeIdeas
  <2> QED BY <1>3, <2>1, <2>2 DEF Idea
<1> QED BY <1>2, <1>3

LEMMA PartsTellTheSame ==
    ASSUME NEW t \in ClosedIdeas, NEW u \in Journal,
           u.id = t.id \/ (t.bundle # Nil /\ u.bundle = t.bundle)
    PROVE  TradeIdeas(u.id) = <<t>>
<1>1. PICK v \in AllClosed : /\ t = Idea(Journal, v) /\ PartsOf(Journal, v) \subseteq AllClosed
                             /\ \E w \in PartsOf(Journal, v) : t.id = w.id
    BY ClosedIdea
<1>2. v \in Journal
    BY ClosedIsProper
<1>3. v.bundle = t.bundle
    BY <1>1, <1>2, JournalIsProper, IdeaFacts
<1>4. u \in PartsOf(Journal, v)
  <2>1. CASE u.id = t.id
    <3>1. PICK w \in PartsOf(Journal, v) : u.id = w.id
      BY <1>1, <2>1
    <3>2. w \in Journal
      BY <1>2, <3>1, JournalIsProper, IdeaFacts
    <3>3. u = w
      BY <3>1, <3>2, JournalIsProper DEF Proper
    <3> QED BY <3>1, <3>3
  <2>2. CASE t.bundle # Nil /\ u.bundle = t.bundle
    BY <1>3, <2>2 DEF PartsOf
  <2> QED BY <2>1, <2>2
<1>5. u \in AllClosed /\ Idea(Journal, u) = t
    BY <1>1, <1>2, <1>4, JournalIsProper, IdeaFacts
<1> QED BY <1>5, TradeTellsIdea

\* What a first message is taken to be about.
LEMMA RecommendedTellsSomething ==
    ASSUME NEW symbols, NEW d \in Days
    PROVE  LET s == Recommended(symbols, <<d>>, FALSE) IN
           /\ s.type = "trade" => Len(TradeIdeas(s.of)) = 1
           /\ s.type = "day" /\ (\E t \in OnDay(d) : t.bundle = Nil) => Ideas(s) # <<>>
<1> DEFINE s == Recommended(symbols, <<d>>, FALSE)
           named == {t \in AllClosed : t.symbol \in symbols}
           dated == {t \in named : \E i \in DOMAIN <<d>> : t \in OnDay(<<d>>[i])}
           traded == {k \in DOMAIN FirstN(<<d>>, 3) : OnDay(<<d>>[k]) # {}}
           AboutOne == \E T \in SUBSET AllClosed : T # {} /\ s = About(LastOf(T))
           aDay == [type |-> "day", of |-> d]
<1>1. FirstN(<<d>>, 3) = <<d>>
  <2>1. <<d>> \in Seq({d}) /\ Len(<<d>>) = 1
    OBVIOUS
  <2>2. FirstN(<<d>>, 3) = SubSeq(<<d>>, 1, Len(<<d>>))
    BY <2>1 DEF FirstN
  <2> QED BY <2>1, <2>2, SubSeqFull
<1>2. traded # {} => traded = {1}
    BY <1>1
<1>3. traded # {} => Min(traded) = 1
    BY <1>2 DEF Min
<1>4. named \subseteq AllClosed /\ dated \subseteq AllClosed /\ OnDay(d) \subseteq AllClosed
    BY DEF OnDay
<1>5. s = IF dated # {} THEN About(LastOf(dated))
          ELSE IF named # {} THEN About(LastOf(named))
          ELSE IF traded # {}
               THEN IF Cardinality(OnDay(<<d>>[Min(traded)])) = 1
                    THEN About(LastOf(OnDay(<<d>>[Min(traded)])))
                    ELSE [type |-> "day", of |-> <<d>>[Min(traded)]]
          ELSE IF <<d>> # <<>> \/ FALSE THEN [type |-> "freeform", of |-> Nil]
          ELSE [type |-> "week", of |-> (week * WeekLength) \div DayLength]
    BY DEF Recommended
<1>6. traded # {} => OnDay(d) # {}
    BY <1>2
<1> HIDE DEF s, named, dated, traded
<1>7. AboutOne \/ s = aDay \/ s.type = "freeform"
  <2>1. CASE dated # {}
    BY <1>4, <1>5, <2>1
  <2>2. CASE dated = {} /\ named # {}
    BY <1>4, <1>5, <2>2
  <2>3. CASE dated = {} /\ named = {} /\ traded # {}
    <3>1. <<d>>[Min(traded)] = d
      BY <1>3, <2>3
    <3>2. s = IF Cardinality(OnDay(d)) = 1 THEN About(LastOf(OnDay(d))) ELSE aDay
      BY <1>5, <2>3, <3>1
    <3> QED BY <1>4, <1>6, <2>3, <3>2
  <2>4. CASE dated = {} /\ named = {} /\ traded = {}
    BY <1>5, <2>4
  <2> QED BY <2>1, <2>2, <2>3, <2>4
<1>8. ASSUME AboutOne PROVE s.type = "trade" /\ Len(TradeIdeas(s.of)) = 1
  <2>1. PICK T \in SUBSET AllClosed : T # {} /\ s = About(LastOf(T))
    BY <1>8
  <2>2. LastOf(T) \in AllClosed
    BY <2>1, ClosedIsProper, PartIsProper, LastOfIsThere
  <2>3. s.type = "trade" /\ s.of = LastOf(T).id
    BY <2>1 DEF About
  <2>4. TradeIdeas(s.of) = <<Idea(Journal, LastOf(T))>>
    BY <2>2, <2>3, TradeTellsIdea
  <2> QED BY <2>3, <2>4
<1>9. ASSUME NEW t \in OnDay(d), t.bundle = Nil PROVE DayIdeas(d) # <<>>
  <2>1. t \in AllClosed /\ t.closed \div DayLength = d /\ t \in Journal /\ t.closed # Nil
    BY ClosedIsProper DEF OnDay, AllClosed
  <2>2. Idea(Journal, t) = t
    BY <1>9 DEF Idea
  <2>3. t \in ClosedIdeas
    BY <2>1, <2>2, MergedIdeas DEF ClosedIdeas
  <2>4. t.closed \in Nat /\ DayLength \in Nat \ {0}
    BY <2>3, ClosedIdeasAreProper, ReflectAssumption DEF Proper, IsTrade
  <2>5. In(t.closed, d * DayLength, (d + 1) * DayLength)
    BY <2>1, <2>4, DayOf DEF In
  <2>6. t \in IdeasIn(d * DayLength, (d + 1) * DayLength)
    BY <2>3, <2>5, IdeasOfPeriod
  <2> QED BY <2>6, ListOfPeriod DEF DayIdeas
<1>10. CASE AboutOne
    BY <1>8, <1>10 DEF s
<1>11. CASE s = aDay
  <2>1. s.type = "day" /\ s.of = d
    BY <1>11
  <2>2. Ideas(s) = DayIdeas(d)
    BY <2>1 DEF Ideas
  <2> QED BY <1>9, <2>1, <2>2 DEF s
<1>12. CASE s.type = "freeform"
    BY <1>12 DEF s
<1> QED BY <1>7, <1>10, <1>11, <1>12

LEMMA IdeasCount == IdeasCountOnce
<1>1. \A d \in IdeaDays : d \in Nat
    BY DEF IdeaDays
<1>2. \A d \in IdeaDays : Range(DayIdeas(d)) \subseteq ClosedIdeas
    BY ListOfPeriod, IdeasOfPeriod DEF DayIdeas
<1>3. \A d \in IdeaDays : \A e \in IdeaDays \ {d} : Range(DayIdeas(d)) \cap Range(DayIdeas(e)) = {}
    BY <1>1, DaysAreDisjoint
<1>4. \A d \in Days : Range(WeekIdeas(d)) \subseteq ClosedIdeas
    BY ListOfPeriod, IdeasOfPeriod DEF WeekIdeas
<1>5. \A t \in ClosedIdeas :
         \A u \in {v \in Journal : v.id = t.id \/ (t.bundle # Nil /\ v.bundle = t.bundle)} :
             TradeIdeas(u.id) = <<t>>
    BY PartsTellTheSame
<1>6. \A t \in ClosedIdeas :
         \E d \in IdeaDays : \/ t \in Range(DayIdeas(d))
                             \/ t.closed \div DayLength = d /\ Len(DayIdeas(d)) = MaxPeriod
    BY IdeaHasADay
<1>7. \A symbols \in SUBSET {Data[i].symbol : i \in Ids}, d \in Days :
         LET s == Recommended(symbols, <<d>>, FALSE) IN
         /\ s.type = "trade" => Len(TradeIdeas(s.of)) = 1
         /\ s.type = "day" /\ (\E t \in OnDay(d) : t.bundle = Nil) => Ideas(s) # <<>>
    BY RecommendedTellsSomething
<1> QED BY <1>2, <1>3, <1>4, <1>5, <1>6, <1>7 DEF IdeasCountOnce, IdeaDays, ClosedIdeas
-----------------------------------------------------------------------------
(* Citations *)

\* A list that another one continues is the beginning of that one.
LEMMA Continued ==
    ASSUME NEW s, NEW q, Sorted(s), Sorted(q), Range(s) \subseteq Range(q),
           \A t \in Range(q) \ Range(s), u \in Range(s) : ByClose(u, t)
    PROVE  \A k \in 1 .. Len(s) : k \in 1 .. Len(q) /\ q[k] = s[k]
<1> DEFINE m == Len(s)
           n == Len(q)
           Agrees(k) == k \in 1 .. n /\ q[k] = s[k]
           Bad == {k \in 1 .. m : ~Agrees(k)}
<1>1. /\ m \in Nat /\ n \in Nat
      /\ \A k \in 1 .. m : IsTrade(s[k]) /\ s[k] \in Range(s)
      /\ \A k \in 1 .. n : IsTrade(q[k]) /\ q[k] \in Range(q)
      /\ \A k, l \in 1 .. m : k < l => ByClose(s[k], s[l])
      /\ \A k, l \in 1 .. n : k < l => ByClose(q[k], q[l])
      /\ \A t \in Range(s) : \E k \in 1 .. m : t = s[k]
      /\ \A t \in Range(q) : \E k \in 1 .. n : t = q[k]
    BY DEF Sorted, Range
<1> SUFFICES ASSUME Bad # {} PROVE FALSE
    OBVIOUS
<1> HIDE DEF m, n
<1>2. PICK k \in Bad : \A l \in Bad : ~ (<<l, k>> \in OpToRel(<, Nat))
  <2>1. Bad \subseteq Nat
    BY <1>1
  <2> QED BY <2>1, NatLessThanWellFounded, WFMin
<1>3. k \in 1 .. m /\ ~Agrees(k)
    OBVIOUS
<1>4. \A l \in 1 .. m : l < k => Agrees(l)
  <2> SUFFICES ASSUME NEW l \in 1 .. m, l < k, ~Agrees(l) PROVE FALSE
    OBVIOUS
  <2>1. l \in Bad /\ l \in Nat /\ k \in Nat
    BY <1>1
  <2>2. <<l, k>> \in OpToRel(<, Nat)
    BY <2>1 DEF OpToRel
  <2> QED BY <1>2, <2>1, <2>2
<1> HIDE DEF Bad
<1>5. PICK j \in 1 .. n : s[k] = q[j]
    BY <1>1, <1>3
<1>6. ~(j < k)
  <2> SUFFICES ASSUME j < k PROVE FALSE
    OBVIOUS
  <2>1. j \in 1 .. m /\ q[j] = s[j]
    BY <1>1, <1>3, <1>4
  <2>2. ByClose(s[j], s[k])
    BY <1>1, <1>3, <2>1
  <2> QED BY <1>1, <1>3, <1>5, <2>1, <2>2, ByCloseOrders
<1>7. k < j
    BY <1>1, <1>3, <1>5, <1>6
<1>8. k \in 1 .. n /\ ByClose(q[k], s[k])
  <2>1. k \in 1 .. n
    BY <1>1, <1>3, <1>7
  <2> QED BY <1>1, <1>5, <1>7, <2>1
<1>9. q[k] \in Range(s)
  <2> SUFFICES ASSUME q[k] \notin Range(s) PROVE FALSE
    OBVIOUS
  <2>1. ByClose(s[k], q[k])
    BY <1>1, <1>3, <1>8
  <2> QED BY <1>1, <1>3, <1>8, <2>1, ByCloseOrders
<1>10. PICK l \in 1 .. m : q[k] = s[l]
    BY <1>1, <1>9
<1>11. CASE l < k
  <2>1. l \in 1 .. n /\ q[l] = s[l]
    BY <1>4, <1>11
  <2>2. ByClose(q[l], q[k])
    BY <1>1, <1>8, <1>11, <2>1
  <2> QED BY <1>1, <1>8, <1>10, <2>1, <2>2, ByCloseOrders
<1>12. CASE l = k
    BY <1>3, <1>8, <1>10, <1>12
<1>13. CASE k < l
  <2>1. ByClose(s[k], s[l])
    BY <1>1, <1>3, <1>13
  <2> QED BY <1>1, <1>3, <1>8, <1>10, <2>1, ByCloseOrders
<1>14. k \in Nat /\ l \in Nat
    BY <1>1, <1>3
<1>15. l < k \/ l = k \/ k < l
    BY <1>14
<1> QED BY <1>11, <1>12, <1>13, <1>15

\* What a session about s may have had as its list, at any time.
Listed(s, saw) ==
    /\ Sorted(saw)
    /\ s.type = "trade" => \A k \in DOMAIN saw : k = 1 /\ (saw[1].bundle = Nil => saw[1].id = s.of)

LEMMA IdeasAreListed == ASSUME NEW s \in Scopes PROVE Listed(s, Ideas(s))
<1>1. CASE s.type = "trade"
  <2>1. Ideas(s) = TradeIdeas(s.of) /\ s.of \in Ids
    BY <1>1 DEF Ideas, Scopes
  <2>2. CASE Trade(s.of) \notin AllClosed
    <3>1. Ideas(s) = <<>> /\ DOMAIN <<>> = {}
      BY <2>1, <2>2 DEF TradeIdeas
    <3> QED BY <3>1, NoneIsSorted DEF Listed
  <2>3. CASE Trade(s.of) \in AllClosed
    <3> DEFINE u == Trade(s.of)
               t == Idea(Journal, u)
    <3>1. u.id = s.of
      BY <2>1, TradeOfRow
    <3>2. u \in Journal
      BY <2>3, ClosedIsProper
    <3> HIDE DEF u
    <3>3. Ideas(s) = <<t>>
      BY <2>1, <2>3, <3>1, TradeTellsIdea DEF u
    <3>4. IsTrade(t) /\ t.bundle = u.bundle
      BY <3>2, JournalIsProper, IdeaFacts
    <3>5. t.bundle = Nil => t.id = s.of
      BY <3>1, <3>4 DEF Idea
    <3> HIDE DEF t
    <3>6. DOMAIN <<t>> = {1} /\ <<t>>[1] = t
      OBVIOUS
    <3> QED BY <3>3, <3>4, <3>5, <3>6, OneIsSorted DEF Listed
  <2> QED BY <2>2, <2>3
<1>2. CASE s.type = "day"
  <2>1. Ideas(s) = DayIdeas(s.of)
    BY <1>2 DEF Ideas
  <2> QED BY <1>2, <2>1, ListOfPeriod DEF DayIdeas, Listed
<1>3. CASE s.type = "week"
  <2>1. Ideas(s) = WeekIdeas(s.of)
    BY <1>3 DEF Ideas
  <2> QED BY <1>3, <2>1, ListOfPeriod DEF WeekIdeas, Listed
<1>4. CASE s.type = "freeform"
  <2>1. Ideas(s) = LastN(InOrder(Merged(AllClosed)), MaxFreeform)
    BY <1>4 DEF Ideas, LatestIdeas
  <2>2. Sorted(InOrder(Merged(AllClosed)))
    BY ClosedIsProper, MergedIsProper, InOrderSorts
  <2>3. MaxFreeform \in Nat \ {0}
    BY ReflectAssumption
  <2> QED BY <1>4, <2>1, <2>2, <2>3, LastOnes DEF Listed
<1>5. s.type \in {"trade", "day", "week", "freeform"}
    BY DEF Scopes
<1> QED BY <1>1, <1>2, <1>3, <1>4, <1>5

\* In a session about one trade every number leads to it, or nowhere.
LEMMA OneTradeIsCited ==
    ASSUME NEW s, s.type = "trade", NEW saw, Listed(s, saw), NEW n
    PROVE  LeadsTo(saw, n) \subseteq {s.of}
BY DEF Listed, LeadsTo

LEMMA CitedLeadsBack ==
    ASSUME NEW s \in Scopes, NEW saw, Listed(s, saw), NEW n \in Citable(saw)
    PROVE  /\ s.type = "trade" => LeadsTo(Ideas(s), n) \subseteq LeadsTo(saw, n)
           /\ Undisturbed(s, saw) => LeadsTo(Ideas(s), n) = LeadsTo(saw, n)
<1> DEFINE now == Ideas(s)
<1>1. Listed(s, now)
    BY IdeasAreListed
<1>2. n \in DOMAIN saw /\ LeadsTo(saw, n) # {}
    BY DEF Citable
<1> HIDE DEF now
<1>3. ASSUME s.type = "trade" PROVE LeadsTo(now, n) \subseteq LeadsTo(saw, n)
  <2>1. LeadsTo(saw, n) \subseteq {s.of} /\ LeadsTo(now, n) \subseteq {s.of}
    BY <1>1, <1>3, OneTradeIsCited
  <2> QED BY <1>2, <2>1
<1>4. ASSUME Undisturbed(s, saw) PROVE LeadsTo(now, n) = LeadsTo(saw, n)
  <2>1. /\ Range(saw) \subseteq Range(now)
        /\ \A t \in Range(now) \ Range(saw), u \in Range(saw) : ByClose(u, t)
    BY <1>4 DEF Undisturbed, now
  <2>2. \A k \in 1 .. Len(saw) : k \in 1 .. Len(now) /\ now[k] = saw[k]
    BY <1>1, <2>1, Continued DEF Listed
  <2>3. n \in DOMAIN now /\ now[n] = saw[n]
    BY <1>1, <1>2, <2>2 DEF Listed, Sorted
  <2> QED BY <1>2, <2>3 DEF LeadsTo
<1> QED BY <1>3, <1>4 DEF now
-----------------------------------------------------------------------------
(* Sessions *)

IsReply(s, r) == Listed(s, r.saw) /\ r.cites \subseteq Citable(r.saw)

IsTalk(s, list, said) ==
    /\ s \in Scopes \cup {NoTalk, Purged}
    /\ list # NotAsking => s = Purged \/ (s \in Scopes /\ Listed(s, list))
    /\ said \in Seq(Range(said))
    /\ \A k \in DOMAIN said : s \in Scopes /\ IsReply(s, said[k])

TalksInv ==
    /\ DOMAIN talk = Talks /\ DOMAIN asking = Talks /\ DOMAIN replies = Talks
    /\ \A x \in Talks : IsTalk(talk[x], asking[x], replies[x])

LEMMA NoTalks == NoTalk \notin Scopes /\ Purged \notin Scopes /\ NoTalk # Purged
BY DEF NoTalk, Purged, Scopes

LEMMA Appended ==
    ASSUME NEW s, s \in Seq(Range(s)), NEW e
    PROVE  LET a == Append(s, e) IN
           /\ a \in Seq(Range(a))
           /\ \A k \in DOMAIN a : (k \in DOMAIN s /\ a[k] = s[k]) \/ a[k] = e
<1> DEFINE S == Range(s) \cup {e}
           a == Append(s, e)
<1>1. s \in Seq(S)
    BY SeqMonotonic
<1> HIDE DEF S
<1>2. e \in S
    BY DEF S
<1>3. /\ a \in Seq(S) /\ Len(a) = Len(s) + 1 /\ a[Len(s) + 1] = e
      /\ \A k \in 1 .. Len(s) : a[k] = s[k]
    BY <1>1, <1>2, AppendProperties
<1>4. Len(s) \in Nat /\ DOMAIN s = 1 .. Len(s) /\ DOMAIN a = 1 .. Len(a)
    BY <1>1, <1>3, LenProperties
<1>5. a \in Seq(Range(a))
    BY <1>3, SeqOfRange
<1> HIDE DEF a
<1>6. ASSUME NEW k \in DOMAIN a PROVE (k \in DOMAIN s /\ a[k] = s[k]) \/ a[k] = e
    BY <1>3, <1>4
<1> QED BY <1>5, <1>6 DEF a

LEMMA TalksInitially == ReflectInit => TalksInv
<1> SUFFICES ASSUME ReflectInit PROVE TalksInv
    OBVIOUS
<1>1. <<>> \in Seq(Range(<<>>)) /\ DOMAIN <<>> = {}
    OBVIOUS
<1> QED BY <1>1 DEF ReflectInit, TalksInv, IsTalk, NotAsking

LEMMA StartKeeps ==
    ASSUME TalksInv, NEW x \in Talks, NEW s \in Scopes, StartTalk(x, s)
    PROVE  TalksInv'
<1>1. /\ talk[x] = NoTalk /\ IsTalk(talk[x], asking[x], replies[x])
      /\ talk' = [talk EXCEPT ![x] = s] /\ asking' = asking /\ replies' = replies
    BY DEF StartTalk, TalksInv
<1>2. IsTalk(s, asking[x], replies[x])
    BY <1>1, NoTalks DEF IsTalk
<1> QED BY <1>1, <1>2 DEF TalksInv

LEMMA AskKeeps ==
    ASSUME TalksInv, NEW x \in Talks, Ask(x)
    PROVE  TalksInv'
<1> DEFINE list == Ideas(talk[x])
<1>1. /\ Exists(x) /\ IsTalk(talk[x], asking[x], replies[x])
      /\ asking' = [asking EXCEPT ![x] = list] /\ talk' = talk /\ replies' = replies
    BY DEF Ask, TalksInv
<1>2. talk[x] \in Scopes
    BY <1>1 DEF Exists, IsTalk
<1>3. Listed(talk[x], list)
    BY <1>2, IdeasAreListed
<1> HIDE DEF list
<1>4. IsTalk(talk[x], list, replies[x])
    BY <1>1, <1>2, <1>3 DEF IsTalk
<1> QED BY <1>1, <1>4 DEF TalksInv

LEMMA AnswerKeeps ==
    ASSUME TalksInv, NEW x \in Talks, NEW cites, Answer(x, cites)
    PROVE  TalksInv'
<1> DEFINE r == [cites |-> cites, saw |-> asking[x]]
           said == Append(replies[x], r)
<1>1. /\ Exists(x) /\ IsTalk(talk[x], asking[x], replies[x]) /\ asking[x] # NotAsking
      /\ cites \subseteq Citable(asking[x])
      /\ asking' = [asking EXCEPT ![x] = NotAsking] /\ talk' = talk
      /\ replies' = [replies EXCEPT ![x] = said]
    BY DEF Answer, TalksInv
<1>2. talk[x] \in Scopes /\ Listed(talk[x], asking[x])
    BY <1>1, NoTalks DEF Exists, IsTalk
<1>3. IsReply(talk[x], r)
    BY <1>1, <1>2 DEF IsReply
<1> HIDE DEF r
<1>4. /\ said \in Seq(Range(said))
      /\ \A k \in DOMAIN said : (k \in DOMAIN replies[x] /\ said[k] = replies[x][k]) \/ said[k] = r
    BY <1>1, Appended DEF IsTalk
<1> HIDE DEF said
<1>5. IsTalk(talk[x], NotAsking, said)
    BY <1>1, <1>2, <1>3, <1>4 DEF IsTalk
<1> QED BY <1>1, <1>5 DEF TalksInv

LEMMA AnswerLostKeeps ==
    ASSUME TalksInv, NEW x \in Talks, AnswerLost(x)
    PROVE  TalksInv'
<1>1. /\ IsTalk(talk[x], asking[x], replies[x])
      /\ asking' = [asking EXCEPT ![x] = NotAsking] /\ talk' = talk /\ replies' = replies
    BY DEF AnswerLost, TalksInv
<1>2. IsTalk(talk[x], NotAsking, replies[x])
    BY <1>1 DEF IsTalk
<1> QED BY <1>1, <1>2 DEF TalksInv

LEMMA PurgeKeeps ==
    ASSUME TalksInv, NEW x \in Talks, PurgeTalk(x)
    PROVE  TalksInv'
<1>1. /\ talk' = [talk EXCEPT ![x] = Purged] /\ replies' = [replies EXCEPT ![x] = <<>>]
      /\ asking' = asking
    BY DEF PurgeTalk
<1>2. <<>> \in Seq(Range(<<>>)) /\ DOMAIN <<>> = {}
    OBVIOUS
<1>3. IsTalk(Purged, asking[x], <<>>)
    BY <1>2 DEF IsTalk
<1> QED BY <1>1, <1>3 DEF TalksInv

LEMMA ReflectStep == TalksInv /\ [ReflectNext]_reflectVars => TalksInv'
<1> SUFFICES ASSUME TalksInv, [ReflectNext]_reflectVars PROVE TalksInv'
    OBVIOUS
<1>1. CASE TalkNext
    BY <1>1, StartKeeps, AskKeeps, AnswerLostKeeps, PurgeKeeps, AnswerKeeps DEF TalkNext
<1>2. CASE UNCHANGED talkVars
    BY <1>2 DEF talkVars, TalksInv
<1>3. CASE \E i \in Ids : RemoveTrade(i)
    BY <1>2, <1>3 DEF RemoveTrade
<1>4. CASE ReviewNext /\ UNCHANGED talkVars
    BY <1>2, <1>4
<1>5. CASE UNCHANGED reflectVars
    BY <1>2, <1>5 DEF reflectVars
<1> QED BY <1>1, <1>3, <1>4, <1>5 DEF ReflectNext

\* Whatever is deleted, bundled, imported and edited, a citation in a session about
\* one trade leads to that trade or nowhere, and in any other session to the trade
\* the reply spoke of as long as what was listed is still there and what came since
\* closed later (routes/admin_journal.py:182-228, helpers/journal_context.py:168-290).
THEOREM CitationsAlwaysLeadBack == ReflectSpec => []CitationsLeadBack
<1>1. TalksInv => CitationsLeadBack
  <2> SUFFICES ASSUME TalksInv, NEW x \in Talks, NEW k \in DOMAIN replies[x],
                      NEW n \in replies[x][k].cites
               PROVE  LET s == talk[x]
                          saw == replies[x][k].saw
                      IN  /\ s.type = "trade" => LeadsTo(Ideas(s), n) \subseteq LeadsTo(saw, n)
                          /\ Undisturbed(s, saw) => LeadsTo(Ideas(s), n) = LeadsTo(saw, n)
    BY DEF CitationsLeadBack
  <2>1. talk[x] \in Scopes /\ IsReply(talk[x], replies[x][k])
    BY DEF TalksInv, IsTalk
  <2> QED BY <2>1, CitedLeadsBack DEF IsReply
<1> QED BY <1>1, TalksInitially, ReflectStep, PTL DEF ReflectSpec

\* In every state, a closed idea counts on exactly one day and is told the same by
\* every session, whatever the trades and however their bundles reach over midnight
\* (helpers/journal_context.py:168-290, routes/dashboard.py:2630-2770).
THEOREM IdeasAlwaysCountOnce == ReflectSpec => []IdeasCountOnce
BY IdeasCount, PTL
=============================================================================
