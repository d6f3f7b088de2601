-------------------------------- MODULE Sums --------------------------------
(***************************************************************************)
(* Sums over finite sets, as SumFunctionOnSet makes them (a fold that takes *)
(* the elements in an order of its own), for the proofs about figures.     *)
(***************************************************************************)
EXTENDS Integers, Functions, FiniteSetTheorems, WellFoundedInduction, TLAPS

-----------------------------------------------------------------------------
(* Induction over the subsets of a finite set                                *)

LEMMA Smallest ==
  ASSUME NEW S, IsFiniteSet(S), NEW W \in SUBSET (SUBSET S), W # {}
  PROVE  \E s \in W : \A t \in SUBSET s : t # s => t \notin W
<1> DEFINE N == {Cardinality(s) : s \in W}
           R == OpToRel(<, Nat)
<1>1. \A s \in SUBSET S : IsFiniteSet(s) /\ Cardinality(s) \in Nat
  BY FS_Subset, FS_CardinalityType
<1>2. N \subseteq Nat /\ N # {} BY <1>1
<1>3. IsWellFoundedOn(R, Nat) BY NatLessThanWellFounded
<1> HIDE DEF N, R
<1>4. PICK n \in N : \A k \in N : <<k, n>> \notin R BY <1>2, <1>3, WFMin, Zenon
<1>5. PICK s \in W : n = Cardinality(s) BY <1>4 DEF N
<1>6. ASSUME NEW t \in SUBSET s, t # s, t \in W PROVE FALSE
  <2>1. IsFiniteSet(s) /\ Cardinality(s) \in Nat /\ Cardinality(t) \in Nat
    BY <1>1, <1>5, <1>6
  <2>2. Cardinality(t) < Cardinality(s) BY <1>6, <2>1, FS_Subset
  <2>3. <<Cardinality(t), n>> \in R BY <1>5, <2>1, <2>2 DEF R, OpToRel
  <2>4. QED BY <1>4, <1>6, <2>3 DEF N
<1>7. QED BY <1>5, <1>6

\* A set W of subsets that has every one whose proper subsets it has, has all.
LEMMA SubsetsInduct ==
  ASSUME NEW S, IsFiniteSet(S), NEW W,
         \A s \in SUBSET S : (\A t \in SUBSET s : t # s => t \in W) => s \in W
  PROVE  S \in W
<1> DEFINE V == (SUBSET S) \ W
<1>1. SUFFICES ASSUME V # {} PROVE FALSE OBVIOUS
<1>2. V \in SUBSET (SUBSET S) OBVIOUS
<1> HIDE DEF V
<1>3. PICK s \in V : \A t \in SUBSET s : t # s => t \notin V
  BY <1>1, <1>2, Smallest
<1>4. s \in SUBSET S /\ s \notin W BY <1>3 DEF V
<1>5. \A t \in SUBSET s : t # s => t \in W BY <1>3, <1>4 DEF V
<1>6. QED BY <1>4, <1>5

-----------------------------------------------------------------------------
(* Sums                                                                      *)

SumOn(f, S) == SumFunctionOnSet(f, S)

First(s) == CHOOSE x \in s : TRUE
Rest(s) == s \ {First(s)}
\* g adds up f over the subsets of S.
Adds(f, S, g) ==
  g = [s \in SUBSET S |-> IF s = {} THEN 0 ELSE f[First(s)] + g[Rest(s)]]

LEMMA FirstIs == ASSUME NEW s, s # {} PROVE First(s) \in s
BY DEF First


\* Two that add up the same add up to the same.
LEMMA AddersAgree ==
  ASSUME NEW f, NEW h, NEW S, NEW T, S \subseteq T, IsFiniteSet(T),
         NEW g, NEW k, Adds(f, S, g), Adds(h, T, k), \A x \in S : f[x] = h[x]
  PROVE  \A s \in SUBSET S : g[s] = k[s]
<1> SUFFICES ASSUME NEW u \in SUBSET S PROVE g[u] = k[u] OBVIOUS
<1> DEFINE W == {s \in SUBSET S : g[s] = k[s]}
<1>1. ASSUME NEW s \in SUBSET u, \A t \in SUBSET s : t # s => t \in W
      PROVE  s \in W
  <2>1. /\ g[s] = IF s = {} THEN 0 ELSE f[First(s)] + g[Rest(s)]
        /\ k[s] = IF s = {} THEN 0 ELSE h[First(s)] + k[Rest(s)]
    BY DEF Adds
  <2>2. ASSUME s # {} PROVE f[First(s)] = h[First(s)] /\ g[Rest(s)] = k[Rest(s)]
    <3>1. First(s) \in s /\ Rest(s) \in SUBSET s /\ Rest(s) # s
      BY <2>2, FirstIs DEF Rest
    <3>2. QED BY <1>1, <3>1
  <2>3. QED BY <2>1, <2>2
<1>2. IsFiniteSet(u) BY FS_Subset
<1> HIDE DEF W
<1>3. u \in W BY <1>1, <1>2, SubsetsInduct
<1>4. QED BY <1>3 DEF W

Adder(f, S) == CHOOSE g : Adds(f, S, g)
LEMMA AdderExists ==
  ASSUME NEW f, NEW S, IsFiniteSet(S)
  PROVE  Adds(f, S, Adder(f, S))
<1> DEFINE W == {s \in SUBSET S : \E g : Adds(f, s, g)}
<1>1. ASSUME NEW s \in SUBSET S, \A t \in SUBSET s : t # s => t \in W
      PROVE  s \in W
  <2> DEFINE g == [t \in SUBSET s |->
                     IF t = {} THEN 0
                     ELSE f[First(t)] + Adder(f, Rest(t))[Rest(t)]]
  <2>1. ASSUME NEW t \in SUBSET s, t # {}
        PROVE  g[Rest(t)] = Adder(f, Rest(t))[Rest(t)]
    <3>1. Rest(t) \in SUBSET s /\ Rest(t) # s
      BY <2>1, FirstIs DEF Rest
    <3>2. \E a : Adds(f, Rest(t), a) BY <1>1, <3>1
    <3>3. Adds(f, Rest(t), Adder(f, Rest(t))) BY <3>2 DEF Adder
    <3> DEFINE u == Rest(t)
    <3>4. Adder(f, u)[u] =
            IF u = {} THEN 0 ELSE f[First(u)] + Adder(f, u)[Rest(u)]
      BY <3>3 DEF Adds
    <3>5. ASSUME u # {} PROVE Adder(f, u)[Rest(u)] = Adder(f, Rest(u))[Rest(u)]
      <4>1. Rest(u) \in SUBSET s /\ Rest(u) # s /\ Rest(u) \subseteq u
        BY <3>1, <3>5, FirstIs DEF Rest
      <4>2. \E a : Adds(f, Rest(u), a) BY <1>1, <4>1
      <4>3. Adds(f, Rest(u), Adder(f, Rest(u))) BY <4>2 DEF Adder
      <4>4. IsFiniteSet(u) BY <3>1, FS_Subset
      <4>5. QED BY <3>3, <4>1, <4>3, <4>4, AddersAgree
    <3>6. g[u] = IF u = {} THEN 0 ELSE f[First(u)] + Adder(f, Rest(u))[Rest(u)]
      BY <3>1
    <3>7. QED BY <3>4, <3>5, <3>6
  <2>2. Adds(f, s, g) BY <2>1 DEF Adds
  <2>3. QED BY <2>2
<1> HIDE DEF W
<1>2. S \in W BY <1>1, SubsetsInduct
<1>3. \E g : Adds(f, S, g) BY <1>2 DEF W
<1>4. QED BY <1>3 DEF Adder

LEMMA SumIs == ASSUME NEW f, NEW S PROVE SumOn(f, S) = Adder(f, S)[S]
<1>1. SumOn(f, S) = (CHOOSE g : g = [s \in SUBSET S |->
        IF s = {} THEN 0
        ELSE f[CHOOSE x \in s : TRUE] + g[s \ {CHOOSE x \in s : TRUE}]])[S]
  BY DEF SumOn, SumFunctionOnSet, FoldFunctionOnSet, MapThenFoldSet
<1>2. QED BY <1>1 DEF Adder, Adds, First, Rest

-----------------------------------------------------------------------------
(* What sums are                                                             *)

LEMMA SumStep ==
  ASSUME NEW f, NEW S, IsFiniteSet(S)
  PROVE  SumOn(f, S) = IF S = {} THEN 0 ELSE f[First(S)] + SumOn(f, Rest(S))
<1> DEFINE a == Adder(f, S)
<1>1. Adds(f, S, a) BY AdderExists
<1> HIDE DEF a
<1>2. a = [s \in SUBSET S |-> IF s = {} THEN 0 ELSE f[First(s)] + a[Rest(s)]]
  BY <1>1 DEF Adds
<1>3. SumOn(f, S) = IF S = {} THEN 0 ELSE f[First(S)] + a[Rest(S)]
  <2>1. SumOn(f, S) = a[S] BY SumIs DEF a
  <2>2. S \in SUBSET S OBVIOUS
  <2>3. QED BY <1>2, <2>1, <2>2
<1>4. ASSUME S # {} PROVE a[Rest(S)] = SumOn(f, Rest(S))
  <2>1. Rest(S) \in SUBSET S /\ IsFiniteSet(Rest(S)) BY FS_Subset DEF Rest
  <2>2. Adds(f, S, a) /\ Adds(f, Rest(S), Adder(f, Rest(S)))
    BY <2>1, AdderExists DEF a
  <2>3. Adder(f, Rest(S))[Rest(S)] = a[Rest(S)] BY <2>1, <2>2, AddersAgree
  <2>4. QED BY <2>3, SumIs
<1>5. QED BY <1>3, <1>4

LEMMA SumEmpty == ASSUME NEW f PROVE SumOn(f, {}) = 0
BY SumStep, FS_EmptySet

LEMMA SumSame ==
  ASSUME NEW f, NEW h, NEW S, IsFiniteSet(S), \A x \in S : f[x] = h[x]
  PROVE  SumOn(f, S) = SumOn(h, S)
<1>1. Adds(f, S, Adder(f, S)) /\ Adds(h, S, Adder(h, S)) BY AdderExists
<1>2. S \subseteq S OBVIOUS
<1>3. \A s \in SUBSET S : Adder(f, S)[s] = Adder(h, S)[s]
  BY <1>1, <1>2, AddersAgree
<1>4. QED BY <1>3, SumIs

LEMMA SumType ==
  ASSUME NEW S, IsFiniteSet(S), NEW f, \A x \in S : f[x] \in Int
  PROVE  SumOn(f, S) \in Int
<1> DEFINE W == {s \in SUBSET S : SumOn(f, s) \in Int}
<1>1. ASSUME NEW s \in SUBSET S, \A t \in SUBSET s : t # s => t \in W
      PROVE  s \in W
  <2>1. IsFiniteSet(s) BY FS_Subset
  <2>2. s # {} => First(s) \in s /\ Rest(s) \in SUBSET s /\ Rest(s) # s
    BY FirstIs DEF Rest
  <2>3. QED BY <1>1, <2>1, <2>2, SumStep
<1> HIDE DEF W
<1>2. S \in W BY <1>1, SubsetsInduct
<1>3. QED BY <1>2 DEF W

\* Any of the elements may be taken first.
LEMMA SumRemove ==
  ASSUME NEW S, IsFiniteSet(S), NEW f, \A x \in S : f[x] \in Int, NEW x \in S
  PROVE  SumOn(f, S) = f[x] + SumOn(f, S \ {x})
<1> DEFINE W == {s \in SUBSET S :
                   \A y \in s : SumOn(f, s) = f[y] + SumOn(f, s \ {y})}
<1>1. ASSUME NEW s \in SUBSET S, \A t \in SUBSET s : t # s => t \in W
      PROVE  s \in W
  <2> SUFFICES ASSUME NEW y \in s PROVE SumOn(f, s) = f[y] + SumOn(f, s \ {y})
    OBVIOUS
  <2> DEFINE p == First(s)
  <2>1. p \in s /\ Rest(s) = s \ {p} BY FirstIs DEF Rest
  <2>2. \A t \in SUBSET s : IsFiniteSet(t) /\ SumOn(f, t) \in Int
    <3> TAKE t \in SUBSET s
    <3>1. IsFiniteSet(t) BY FS_Subset
    <3>2. QED BY <3>1, SumType
  <2>3. SumOn(f, s) = f[p] + SumOn(f, s \ {p}) BY <2>1, <2>2, SumStep
  <2> HIDE DEF p
  <2>4. CASE y # p
    <3>1. SumOn(f, s \ {p}) = f[y] + SumOn(f, (s \ {p}) \ {y})
      BY <1>1, <2>1, <2>4
    <3>2. SumOn(f, s \ {y}) = f[p] + SumOn(f, (s \ {y}) \ {p})
      BY <1>1, <2>1, <2>4
    <3>3. (s \ {p}) \ {y} = (s \ {y}) \ {p} OBVIOUS
    <3>4. /\ f[p] \in Int /\ f[y] \in Int
          /\ SumOn(f, (s \ {p}) \ {y}) \in Int
      BY <2>1, <2>2
    <3>5. \A i, j, k \in Int : i + (j + k) = j + (i + k) OBVIOUS
    <3>6. SumOn(f, s) = f[p] + (f[y] + SumOn(f, (s \ {p}) \ {y}))
      BY <2>3, <3>1
    <3>7. SumOn(f, s \ {y}) = f[p] + SumOn(f, (s \ {p}) \ {y})
      BY <3>2, <3>3
    <3>8. QED BY <3>4, <3>5, <3>6, <3>7
  <2>5. QED BY <2>3, <2>4
<1> HIDE DEF W
<1>2. S \in W BY <1>1, SubsetsInduct
<1>3. QED BY <1>2 DEF W

LEMMA SumAdd ==
  ASSUME NEW S, IsFiniteSet(S), NEW f, NEW x, x \notin S,
         \A y \in S \cup {x} : f[y] \in Int
  PROVE  SumOn(f, S \cup {x}) = f[x] + SumOn(f, S)
<1>1. IsFiniteSet(S \cup {x}) BY FS_AddElement
<1>2. (S \cup {x}) \ {x} = S OBVIOUS
<1>3. QED BY <1>1, <1>2, SumRemove

LEMMA SumBoth ==
  ASSUME NEW S, IsFiniteSet(S), NEW T, IsFiniteSet(T), S \cap T = {},
         NEW f, \A x \in S \cup T : f[x] \in Int
  PROVE  SumOn(f, S \cup T) = SumOn(f, S) + SumOn(f, T)
<1> DEFINE W ==
        {t \in SUBSET T : SumOn(f, S \cup t) = SumOn(f, S) + SumOn(f, t)}
<1>1. ASSUME NEW t \in SUBSET T, \A u \in SUBSET t : u # t => u \in W
      PROVE  t \in W
  <2>1. IsFiniteSet(t) BY FS_Subset
  <2>2. IsFiniteSet(S \cup t) BY <2>1, FS_Union
  <2>3. SumOn(f, S) \in Int BY SumType
  <2>4. CASE t = {}
    BY <2>3, <2>4, SumEmpty
  <2>5. CASE t # {}
    <3>1. PICK x \in t : TRUE BY <2>5
    <3>2. SumOn(f, S \cup (t \ {x})) = SumOn(f, S) + SumOn(f, t \ {x})
      BY <1>1, <3>1
    <3>3. SumOn(f, t) = f[x] + SumOn(f, t \ {x}) BY <2>1, <3>1, SumRemove
    <3>4. (S \cup t) \ {x} = S \cup (t \ {x}) BY <3>1
    <3>5. SumOn(f, S \cup t) = f[x] + SumOn(f, S \cup (t \ {x}))
      BY <2>2, <3>1, <3>4, SumRemove
    <3>6. SumOn(f, t \ {x}) \in Int
      <4>1. IsFiniteSet(t \ {x}) BY <2>1, FS_Subset
      <4>2. QED BY <4>1, SumType
    <3>7. f[x] \in Int BY <3>1
    <3>8. QED BY <2>3, <3>2, <3>3, <3>5, <3>6, <3>7
  <2>6. QED BY <2>4, <2>5
<1> HIDE DEF W
<1>2. T \in W BY <1>1, SubsetsInduct
<1>3. QED BY <1>2 DEF W

LEMMA SumBounds ==
  ASSUME NEW S, IsFiniteSet(S), NEW f, NEW low \in Int, NEW high \in Int,
         \A x \in S : f[x] \in Int /\ low <= f[x] /\ f[x] <= high
  PROVE  /\ low * Cardinality(S) <= SumOn(f, S)
         /\ SumOn(f, S) <= high * Cardinality(S)
<1> DEFINE W == {s \in SUBSET S : /\ low * Cardinality(s) <= SumOn(f, s)
                                  /\ SumOn(f, s) <= high * Cardinality(s)}
<1>1. ASSUME NEW s \in SUBSET S, \A t \in SUBSET s : t # s => t \in W
      PROVE  s \in W
  <2>1. IsFiniteSet(s) BY FS_Subset
  <2>2. CASE s = {} BY <2>2, SumEmpty, FS_EmptySet
  <2>3. CASE s # {}
    <3>1. PICK x \in s : TRUE BY <2>3
    <3>2. PICK n : n = Cardinality(s \ {x}) OBVIOUS
    <3>3. IsFiniteSet(s \ {x}) /\ n \in Nat /\ Cardinality(s) = n + 1
      <4>1. /\ IsFiniteSet(s \ {x})
            /\ Cardinality(s \ {x}) = Cardinality(s) - 1
        BY <2>1, <3>1, FS_RemoveElement
      <4>2. Cardinality(s \ {x}) \in Nat /\ Cardinality(s) \in Nat
        BY <2>1, <4>1, FS_CardinalityType
      <4>3. QED BY <3>2, <4>1, <4>2
    <3>4. s \ {x} \in W BY <1>1, <3>1
    <3>5. low * n <= SumOn(f, s \ {x}) /\ SumOn(f, s \ {x}) <= high * n
      BY <3>2, <3>4
    <3>6. SumOn(f, s) = f[x] + SumOn(f, s \ {x}) BY <2>1, <3>1, SumRemove
    <3>7. SumOn(f, s \ {x}) \in Int BY <3>3, SumType
    <3>8. low * (n + 1) = low * n + low /\ high * (n + 1) = high * n + high
      BY <3>3
    <3>9. low * n \in Int /\ high * n \in Int BY <3>3
    <3>10. f[x] \in Int /\ low <= f[x] /\ f[x] <= high BY <3>1
    <3>11. QED BY <3>3, <3>5, <3>6, <3>7, <3>8, <3>9, <3>10
  <2>4. QED BY <2>2, <2>3
<1> HIDE DEF W
<1>2. S \in W BY <1>1, SubsetsInduct
<1>3. QED BY <1>2 DEF W

\* P[b], for b \in B, are parts of U that have nothing in common.
PartsOf(B, P, U) ==
  /\ IsFiniteSet(B) /\ \A b \in B : IsFiniteSet(P[b])
  /\ \A b \in B, c \in B : b # c => P[b] \cap P[c] = {}
  /\ U = UNION {P[b] : b \in B}

\* Sums of the parts add up to that of the whole.
LEMMA SumParts ==
  ASSUME NEW B, NEW P, NEW U, PartsOf(B, P, U), NEW f, \A x \in U : f[x] \in Int,
         NEW g, \A b \in B : g[b] = SumOn(f, P[b])
  PROVE  SumOn(g, B) = SumOn(f, U)
<1>0. /\ IsFiniteSet(B) /\ U = UNION {P[b] : b \in B}
      /\ \A b \in B : IsFiniteSet(P[b]) /\ \A x \in P[b] : f[x] \in Int
      /\ \A b \in B, c \in B : b # c => P[b] \cap P[c] = {}
  BY DEF PartsOf
<1> DEFINE All(C) == UNION {P[b] : b \in C}
           W == {C \in SUBSET B : /\ IsFiniteSet(All(C))
                                  /\ SumOn(g, C) = SumOn(f, All(C))}
<1>1. \A b \in B : g[b] \in Int BY <1>0, SumType
<1>2. ASSUME NEW C \in SUBSET B, \A D \in SUBSET C : D # C => D \in W
      PROVE  C \in W
  <2>1. IsFiniteSet(C) BY <1>0, FS_Subset
  <2>2. CASE C = {}
    <3>1. All(C) = {} BY <2>2
    <3>2. QED BY <2>2, <3>1, SumEmpty, FS_EmptySet
  <2>3. CASE C # {}
    <3>1. PICK b \in C : TRUE BY <2>3
    <3> DEFINE D == C \ {b}
    <3>2. D \in W BY <1>2, <3>1
    <3>3. All(C) = P[b] \cup All(D) BY <3>1
    <3>4. P[b] \cap All(D) = {}
      <4>1. \A c \in D : c \in B /\ c # b OBVIOUS
      <4>2. \A c \in D : P[b] \cap P[c] = {} BY <1>0, <3>1, <4>1
      <4>3. QED BY <4>2
    <3>5. IsFiniteSet(P[b]) /\ IsFiniteSet(All(D)) BY <1>0, <3>1, <3>2
    <3>6. \A x \in P[b] \cup All(D) : f[x] \in Int BY <1>0, <3>1
    <3>7. SumOn(g, C) = g[b] + SumOn(g, D) BY <1>1, <2>1, <3>1, SumRemove
    <3>8. SumOn(g, D) = SumOn(f, All(D)) BY <3>2
    <3>9. g[b] = SumOn(f, P[b]) BY <3>1
    <3> HIDE DEF All, D
    <3>10. IsFiniteSet(All(C))
      <4>1. IsFiniteSet(P[b] \cup All(D)) BY <3>5, FS_Union
      <4>2. QED BY <3>3, <4>1
    <3>11. SumOn(f, P[b] \cup All(D)) = SumOn(f, P[b]) + SumOn(f, All(D))
      BY <3>4, <3>5, <3>6, SumBoth
    <3>12. QED BY <3>3, <3>7, <3>8, <3>9, <3>10, <3>11
  <2>4. QED BY <2>2, <2>3
<1> HIDE DEF W, All
<1>3. B \in W BY <1>0, <1>2, SubsetsInduct
<1>4. QED BY <1>0, <1>3 DEF W, All

LEMMA SumOnes ==
  ASSUME NEW S, IsFiniteSet(S), NEW f, \A x \in S : f[x] = 1
  PROVE  SumOn(f, S) = Cardinality(S)
<1>1. 1 * Cardinality(S) = Cardinality(S) /\ Cardinality(S) \in Nat
  BY FS_CardinalityType
<1>2. /\ 1 * Cardinality(S) <= SumOn(f, S)
      /\ SumOn(f, S) <= 1 * Cardinality(S)
  BY SumBounds
<1>3. SumOn(f, S) \in Int BY SumType
<1>4. QED BY <1>1, <1>2, <1>3

\* Sizes of the parts add up to that of the whole.
LEMMA SumSizes ==
  ASSUME NEW B, NEW P, NEW U, PartsOf(B, P, U), IsFiniteSet(U),
         NEW g, \A b \in B : g[b] = Cardinality(P[b])
  PROVE  SumOn(g, B) = Cardinality(U)
<1> DEFINE f == [x \in U |-> 1]
<1>1. \A x \in U : f[x] = 1 OBVIOUS
<1>2. ASSUME NEW b \in B PROVE P[b] \subseteq U /\ g[b] = SumOn(f, P[b])
  <2>1. P[b] \subseteq U /\ IsFiniteSet(P[b]) BY DEF PartsOf
  <2>2. \A x \in P[b] : f[x] = 1 BY <2>1
  <2> HIDE DEF f
  <2>3. SumOn(f, P[b]) = Cardinality(P[b]) BY <2>1, <2>2, SumOnes
  <2>4. QED BY <2>1, <2>3
<1> HIDE DEF f
<1>3. SumOn(g, B) = SumOn(f, U) BY <1>1, <1>2, SumParts
<1>4. QED BY <1>1, <1>3, SumOnes

LEMMA SumChange ==
  ASSUME NEW S, IsFiniteSet(S), NEW f, \A y \in S : f[y] \in Int, NEW x \in S,
         NEW h, h[x] \in Int, \A y \in S \ {x} : h[y] = f[y]
  PROVE  SumOn(h, S) = SumOn(f, S) - f[x] + h[x]
<1>1. IsFiniteSet(S \ {x}) BY FS_Subset
<1>2. SumOn(h, S \ {x}) = SumOn(f, S \ {x}) BY <1>1, SumSame
<1>3. SumOn(f, S \ {x}) \in Int BY <1>1, SumType
<1>4. \A y \in S : h[y] \in Int OBVIOUS
<1>5. /\ SumOn(h, S) = h[x] + SumOn(h, S \ {x})
      /\ SumOn(f, S) = f[x] + SumOn(f, S \ {x})
  BY <1>4, SumRemove
<1>6. f[x] \in Int OBVIOUS
<1>7. QED BY <1>2, <1>3, <1>5, <1>6

LEMMA SumOne ==
  ASSUME NEW f, NEW x, f[x] \in Int PROVE SumOn(f, {x}) = f[x]
<1>1. {x} \ {x} = {} /\ IsFiniteSet({x}) BY FS_Singleton
<1>2. SumOn(f, {x}) = f[x] + SumOn(f, {x} \ {x})
  <2>1. x \in {x} /\ \A y \in {x} : f[y] \in Int OBVIOUS
  <2>2. QED BY <1>1, <2>1, SumRemove
<1>3. QED BY <1>1, <1>2, SumEmpty

=============================================================================
