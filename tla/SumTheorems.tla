---------------------------- MODULE SumTheorems ----------------------------
(***************************************************************************)
(* What the sums of the models add up to.  MapThenSumSet is a recursive    *)
(* function over the subsets of its set; that there is one such function   *)
(* for every finite set, and only one, follows from the order of the       *)
(* natural numbers: a set of the least size for which it fails would have  *)
(* a smaller one.                                                          *)
(***************************************************************************)
EXTENDS Integers, FiniteSetsExt, FiniteSetTheorems, WellFoundedInduction, TLAPS

Chosen(s) == CHOOSE x \in s : TRUE

(* g is the recursive function that sums f over the subsets of S.          *)
Adds(f, g, S) ==
    g = [s \in SUBSET S |-> IF s = {} THEN 0 ELSE f[Chosen(s)] + g[s \ {Chosen(s)}]]

SumOf(f, S) == MapThenSumSet(LAMBDA x : f[x], S)

(* The definition of the sum, unfolded.                                    *)
LEMMA Unfold ==
    ASSUME NEW f, NEW S
    PROVE  SumOf(f, S) = (CHOOSE g : Adds(f, g, S))[S]
BY DEF SumOf, MapThenSumSet, MapThenFoldSet, Adds, Chosen

(* A set of natural numbers has a least one.                               *)
LEMMA LeastNumber ==
    ASSUME NEW S, S \subseteq Nat, S # {}
    PROVE  \E n \in S : \A m \in S : n <= m
<1> DEFINE R == OpToRel(<, Nat)
<1>1. IsWellFoundedOn(R, Nat)
  BY NatLessThanWellFounded
<1>2. \A m, n \in Nat : m < n => <<m, n>> \in R
  BY DEF OpToRel
<1> HIDE DEF R
<1>3. PICK n \in S : \A m \in S : ~ (<<m, n>> \in R)
  BY <1>1, WFMin
<1>4. ASSUME NEW m \in S PROVE ~ (m < n)
  BY <1>2, <1>3
<1>5. ASSUME NEW m \in S PROVE n <= m
  BY <1>4
<1> QED
  BY <1>5

(* A family of finite sets has one of the least size.                      *)
LEMMA LeastSet ==
    ASSUME NEW F, F # {}, \A T \in F : IsFiniteSet(T)
    PROVE  \E T \in F : \A U \in F : Cardinality(T) <= Cardinality(U)
<1> DEFINE S == {Cardinality(T) : T \in F}
<1>1. S \subseteq Nat /\ S # {}
  BY FS_CardinalityType
<1> HIDE DEF S
<1>2. PICK n \in S : \A m \in S : n <= m
  BY <1>1, LeastNumber
<1> QED
  BY <1>2 DEF S

(* What is left of a set without one of its elements.                      *)
LEMMA Smaller ==
    ASSUME NEW T, IsFiniteSet(T), NEW x \in T
    PROVE  /\ IsFiniteSet(T \ {x}) /\ Cardinality(T) \in Nat /\ Cardinality(T \ {x}) \in Nat
           /\ Cardinality(T \ {x}) = Cardinality(T) - 1
BY FS_RemoveElement, FS_CardinalityType

LEMMA ChosenIn == ASSUME NEW s, s # {} PROVE Chosen(s) \in s
BY DEF Chosen

-----------------------------------------------------------------------------
(* There is such a function. *)

(* h does it for the subsets of at most n elements.                        *)
AddsTo(f, h, S, n) ==
    \A s \in SUBSET S : Cardinality(s) <= n =>
        h[s] = IF s = {} THEN 0 ELSE f[Chosen(s)] + h[s \ {Chosen(s)}]

Partly(f, S, n) == \E h : h = [s \in SUBSET S |-> h[s]] /\ AddsTo(f, h, S, n)

LEMMA AddsNone ==
    ASSUME NEW f, NEW S, IsFiniteSet(S)
    PROVE  Partly(f, S, 0)
<1> DEFINE h == [s \in SUBSET S |-> 0]
<1>1. ASSUME NEW s \in SUBSET S, Cardinality(s) <= 0 PROVE s = {}
  <2>1. IsFiniteSet(s) /\ Cardinality(s) \in Nat
    BY FS_Subset, FS_CardinalityType
  <2> QED
    BY <1>1, <2>1, FS_EmptySet
<1>2. h = [s \in SUBSET S |-> h[s]] /\ AddsTo(f, h, S, 0)
  BY <1>1 DEF AddsTo
<1> QED
  BY <1>2 DEF Partly

LEMMA AddsMore ==
    ASSUME NEW f, NEW S, IsFiniteSet(S), NEW n \in Nat, Partly(f, S, n)
    PROVE  Partly(f, S, n + 1)
<1>1. PICK h : h = [s \in SUBSET S |-> h[s]] /\ AddsTo(f, h, S, n)
  BY DEF Partly
<1> DEFINE g == [s \in SUBSET S |-> IF s = {} THEN 0 ELSE f[Chosen(s)] + h[s \ {Chosen(s)}]]
<1>2. ASSUME NEW s \in SUBSET S, Cardinality(s) <= n PROVE g[s] = h[s]
  BY <1>1, <1>2 DEF AddsTo
<1>3. ASSUME NEW s \in SUBSET S, Cardinality(s) <= n + 1, s # {}
      PROVE  g[s] = f[Chosen(s)] + g[s \ {Chosen(s)}]
  <2> DEFINE t == s \ {Chosen(s)}
  <2>1. IsFiniteSet(s) /\ Chosen(s) \in s
    BY <1>3, FS_Subset, ChosenIn
  <2>2. Cardinality(t) <= n
    BY <1>3, <2>1, Smaller
  <2>3. g[s] = f[Chosen(s)] + h[t]
    BY <1>3
  <2>4. g[t] = h[t]
    BY <1>2, <2>2
  <2> QED
    BY <2>3, <2>4
<1>4. g = [s \in SUBSET S |-> g[s]] /\ g[{}] = 0
  OBVIOUS
<1> HIDE DEF g
<1>5. AddsTo(f, g, S, n + 1)
  BY <1>3, <1>4 DEF AddsTo
<1> QED
  BY <1>4, <1>5 DEF Partly

LEMMA SumExists ==
    ASSUME NEW f, NEW S, IsFiniteSet(S)
    PROVE  \E g : Adds(f, g, S)
<1> DEFINE Fails == {n \in Nat : ~ Partly(f, S, n)}
<1>1. Fails = {}
  <2> SUFFICES ASSUME Fails # {} PROVE FALSE
    OBVIOUS
  <2>1. PICK n \in Fails : \A m \in Fails : n <= m
    <3>1. Fails \subseteq Nat
      OBVIOUS
    <3> HIDE DEF Fails
    <3> QED
      BY <3>1, LeastNumber
  <2>2. n # 0
    BY AddsNone
  <2>3. n - 1 \in Nat /\ n - 1 \notin Fails
    BY <2>1, <2>2
  <2>4. Partly(f, S, (n - 1) + 1)
    BY <2>3, AddsMore
  <2>5. (n - 1) + 1 = n
    OBVIOUS
  <2> QED
    BY <2>4, <2>5
<1>2. Cardinality(S) \in Nat
  BY FS_CardinalityType
<1>3. Partly(f, S, Cardinality(S))
  BY <1>1, <1>2
<1>4. PICK g : g = [s \in SUBSET S |-> g[s]] /\ AddsTo(f, g, S, Cardinality(S))
  BY <1>3 DEF Partly
<1>5. \A s \in SUBSET S : Cardinality(s) <= Cardinality(S)
  BY FS_Subset
<1>6. \A s \in SUBSET S : g[s] = IF s = {} THEN 0 ELSE f[Chosen(s)] + g[s \ {Chosen(s)}]
  BY <1>4, <1>5 DEF AddsTo
<1>7. Adds(f, g, S)
  BY <1>4, <1>6 DEF Adds
<1> QED
  BY <1>7

-----------------------------------------------------------------------------
(* ... and only one, whatever larger set it is defined for. *)

Alike(e, f, g, h, S, T, U) ==
    /\ U \subseteq S /\ U \subseteq T /\ IsFiniteSet(U)
    /\ \A x \in U : e[x] = f[x]
    /\ Adds(e, g, S) /\ Adds(f, h, T)

LEMMA SumUnique ==
    ASSUME NEW e, NEW f, NEW g, NEW h, NEW S, NEW T, NEW U, Alike(e, f, g, h, S, T, U)
    PROVE  g[U] = h[U]
<1> USE DEF Alike
<1> DEFINE F == {s \in SUBSET U : g[s] # h[s]}
<1> SUFFICES F = {}
  OBVIOUS
<1> SUFFICES ASSUME F # {} PROVE FALSE
  OBVIOUS
<1>1. \A s \in F : IsFiniteSet(s)
  BY FS_Subset
<1>2. PICK s \in F : \A t \in F : Cardinality(s) <= Cardinality(t)
  <2> HIDE DEF F
  <2> QED
    BY <1>1, LeastSet
<1>3. g[{}] = 0 /\ h[{}] = 0
  BY DEF Adds
<1>4. s # {} /\ Chosen(s) \in s
  BY <1>3, ChosenIn
<1> DEFINE t == s \ {Chosen(s)}
<1>5. t \notin F
  BY <1>1, <1>2, <1>4, Smaller
<1>6. g[t] = h[t]
  BY <1>5
<1>7. g[s] = e[Chosen(s)] + g[t] /\ h[s] = f[Chosen(s)] + h[t]
  BY <1>4 DEF Adds
<1>8. e[Chosen(s)] = f[Chosen(s)]
  BY <1>4
<1> QED
  BY <1>6, <1>7, <1>8

(* Any such function gives the sum of every subset.                        *)
LEMMA SumIs ==
    ASSUME NEW f, NEW g, NEW S, NEW T, IsFiniteSet(T), T \subseteq S, Adds(f, g, S)
    PROVE  g[T] = SumOf(f, T)
<1> DEFINE h == CHOOSE h : Adds(f, h, T)
<1>1. Adds(f, h, T)
  BY SumExists
<1>2. SumOf(f, T) = h[T]
  BY Unfold
<1> HIDE DEF h
<1>3. Alike(f, f, g, h, S, T, T)
  BY <1>1 DEF Alike
<1>4. g[T] = h[T]
  BY <1>3, SumUnique
<1> QED
  BY <1>2, <1>4

(* The sum of nothing is zero.                                             *)
LEMMA SumEmpty == ASSUME NEW f PROVE SumOf(f, {}) = 0
<1>1. IsFiniteSet({})
  BY FS_EmptySet
<1>2. PICK g : Adds(f, g, {})
  BY <1>1, SumExists
<1>3. g[{}] = 0
  BY <1>2 DEF Adds
<1> QED
  BY <1>1, <1>2, <1>3, SumIs

LEMMA SumChosen ==
    ASSUME NEW f, NEW S, IsFiniteSet(S), S # {}
    PROVE  SumOf(f, S) = f[Chosen(S)] + SumOf(f, S \ {Chosen(S)})
<1>1. PICK g : Adds(f, g, S)
  BY SumExists
<1>2. g[S] = f[Chosen(S)] + g[S \ {Chosen(S)}]
  BY <1>1 DEF Adds
<1>3. g[S] = SumOf(f, S) /\ g[S \ {Chosen(S)}] = SumOf(f, S \ {Chosen(S)})
  <2>1. IsFiniteSet(S \ {Chosen(S)})
    BY FS_Subset
  <2> QED
    BY <1>1, <2>1, SumIs
<1> QED
  BY <1>2, <1>3

(* Only the values on the set count.                                       *)
LEMMA SumAgrees ==
    ASSUME NEW e, NEW f, NEW S, IsFiniteSet(S), \A x \in S : e[x] = f[x]
    PROVE  SumOf(e, S) = SumOf(f, S)
<1>1. PICK g : Adds(e, g, S)
  BY SumExists
<1>2. PICK h : Adds(f, h, S)
  BY SumExists
<1>3. Alike(e, f, g, h, S, S, S)
  BY <1>1, <1>2 DEF Alike
<1>4. g[S] = h[S]
  BY <1>3, SumUnique
<1> QED
  BY <1>1, <1>2, <1>4, SumIs

(* A sum of integers is an integer, one of natural numbers a natural.      *)
LEMMA SumIsInt ==
    ASSUME NEW f, NEW S, IsFiniteSet(S), \A x \in S : f[x] \in Int
    PROVE  SumOf(f, S) \in Int
<1> DEFINE F == {s \in SUBSET S : SumOf(f, s) \notin Int}
<1> SUFFICES F = {}
  OBVIOUS
<1> SUFFICES ASSUME F # {} PROVE FALSE
  OBVIOUS
<1>1. \A s \in F : IsFiniteSet(s)
  BY FS_Subset
<1>2. PICK s \in F : \A t \in F : Cardinality(s) <= Cardinality(t)
  <2> HIDE DEF F
  <2> QED
    BY <1>1, LeastSet
<1>3. s # {} /\ Chosen(s) \in s
  BY SumEmpty, ChosenIn
<1>4. s \ {Chosen(s)} \notin F
  BY <1>1, <1>2, <1>3, Smaller
<1>5. SumOf(f, s) = f[Chosen(s)] + SumOf(f, s \ {Chosen(s)})
  BY <1>1, <1>3, SumChosen
<1> QED
  BY <1>3, <1>4, <1>5

LEMMA SumIsNat ==
    ASSUME NEW f, NEW S, IsFiniteSet(S), \A x \in S : f[x] \in Nat
    PROVE  SumOf(f, S) \in Nat
<1> DEFINE F == {s \in SUBSET S : SumOf(f, s) \notin Nat}
<1> SUFFICES F = {}
  OBVIOUS
<1> SUFFICES ASSUME F # {} PROVE FALSE
  OBVIOUS
<1>1. \A s \in F : IsFiniteSet(s)
  BY FS_Subset
<1>2. PICK s \in F : \A t \in F : Cardinality(s) <= Cardinality(t)
  <2> HIDE DEF F
  <2> QED
    BY <1>1, LeastSet
<1>3. s # {} /\ Chosen(s) \in s
  BY SumEmpty, ChosenIn
<1>4. s \ {Chosen(s)} \notin F
  BY <1>1, <1>2, <1>3, Smaller
<1>5. SumOf(f, s) = f[Chosen(s)] + SumOf(f, s \ {Chosen(s)})
  BY <1>1, <1>3, SumChosen
<1> QED
  BY <1>3, <1>4, <1>5

(* Every element counts once.                                              *)
LEMMA SumElement ==
    ASSUME NEW f, NEW S, IsFiniteSet(S), \A y \in S : f[y] \in Int, NEW x \in S
    PROVE  SumOf(f, S) = f[x] + SumOf(f, S \ {x})
<1> DEFINE F == {s \in SUBSET S : \E y \in s : SumOf(f, s) # f[y] + SumOf(f, s \ {y})}
<1> SUFFICES F = {}
  OBVIOUS
<1> SUFFICES ASSUME F # {} PROVE FALSE
  OBVIOUS
<1>1. \A s \in F : IsFiniteSet(s)
  BY FS_Subset
<1>2. PICK s \in F : \A t \in F : Cardinality(s) <= Cardinality(t)
  <2> HIDE DEF F
  <2> QED
    BY <1>1, LeastSet
<1>3. PICK y \in s : SumOf(f, s) # f[y] + SumOf(f, s \ {y})
  BY <1>2
<1> DEFINE c == Chosen(s)
<1>4. c \in s /\ IsFiniteSet(s) /\ s \subseteq S
  BY <1>1, <1>3, ChosenIn
<1>5. SumOf(f, s) = f[c] + SumOf(f, s \ {c})
  BY <1>4, SumChosen
<1>6. y # c
  BY <1>3, <1>5
<1>7. ASSUME NEW z \in s PROVE s \ {z} \notin F
  <2>1. Cardinality(s \ {z}) = Cardinality(s) - 1 /\ Cardinality(s) \in Nat
    BY <1>4, <1>7, Smaller
  <2>2. ~ (Cardinality(s) <= Cardinality(s \ {z}))
    BY <2>1
  <2> HIDE DEF F
  <2> QED
    BY <1>2, <2>2
<1> HIDE DEF c
<1>8. SumOf(f, s \ {c}) = f[y] + SumOf(f, (s \ {c}) \ {y})
  BY <1>3, <1>4, <1>6, <1>7
<1>9. SumOf(f, s \ {y}) = f[c] + SumOf(f, (s \ {y}) \ {c})
  BY <1>3, <1>4, <1>6, <1>7
<1>10. (s \ {c}) \ {y} = (s \ {y}) \ {c}
  OBVIOUS
<1>11. SumOf(f, (s \ {c}) \ {y}) \in Int
  <2>1. IsFiniteSet((s \ {c}) \ {y})
    BY <1>4, FS_Subset
  <2> QED
    BY <1>4, <2>1, SumIsInt
<1>12. f[y] \in Int /\ f[c] \in Int
  BY <1>3, <1>4
<1> QED
  BY <1>3, <1>5, <1>8, <1>9, <1>10, <1>11, <1>12

(* Two sets with nothing in common add up to what each of them does.       *)
LEMMA SumOfBoth ==
    ASSUME NEW f, NEW S, IsFiniteSet(S), NEW T, IsFiniteSet(T), S \cap T = {},
           \A x \in S \cup T : f[x] \in Int
    PROVE  SumOf(f, S \cup T) = SumOf(f, S) + SumOf(f, T)
<1> DEFINE F == {s \in SUBSET T : SumOf(f, S \cup s) # SumOf(f, S) + SumOf(f, s)}
<1> SUFFICES F = {}
  OBVIOUS
<1> SUFFICES ASSUME F # {} PROVE FALSE
  OBVIOUS
<1>1. \A s \in F : IsFiniteSet(s)
  BY FS_Subset
<1>2. PICK s \in F : \A t \in F : Cardinality(s) <= Cardinality(t)
  <2> HIDE DEF F
  <2> QED
    BY <1>1, LeastSet
<1>3. SumOf(f, S) \in Int
  BY SumIsInt
<1>4. s # {}
  <2> SUFFICES ASSUME s = {} PROVE FALSE
    OBVIOUS
  <2>1. S \cup s = S /\ SumOf(f, s) = 0
    BY SumEmpty, Zenon
  <2>2. SumOf(f, S \cup s) = SumOf(f, S)
    BY <2>1, Zenon
  <2> QED
    BY <1>3, <2>1, <2>2
<1>5. PICK x \in s : TRUE
  BY <1>4
<1>6. PICK t : t = s \ {x}
  OBVIOUS
<1>7. IsFiniteSet(s) /\ Cardinality(t) < Cardinality(s) /\ t \in SUBSET T
  <2>1. IsFiniteSet(s)
    BY <1>1
  <2> QED
    BY <1>5, <1>6, <2>1, Smaller
<1>8. SumOf(f, S \cup t) = SumOf(f, S) + SumOf(f, t)
  <2>1. IsFiniteSet(t) /\ Cardinality(t) \in Nat /\ Cardinality(s) \in Nat
    BY <1>6, <1>7, FS_Subset, FS_CardinalityType
  <2>2. t \notin F
    BY <1>2, <1>7, <2>1
  <2> QED
    BY <1>7, <2>2
<1>9. PICK U : U = S \cup s
  OBVIOUS
<1>10. /\ IsFiniteSet(U) /\ x \in U /\ U \ {x} = S \cup t
       /\ \A y \in U : f[y] \in Int
  BY <1>5, <1>6, <1>7, <1>9, FS_Union
<1>11. SumOf(f, U) = f[x] + SumOf(f, U \ {x})
  BY <1>10, SumElement
<1>12. SumOf(f, s) = f[x] + SumOf(f, t)
  <2>1. \A y \in s : f[y] \in Int
    OBVIOUS
  <2>2. SumOf(f, s) = f[x] + SumOf(f, s \ {x})
    BY <1>7, <2>1, SumElement
  <2> QED
    BY <1>6, <2>2
<1>13. SumOf(f, t) \in Int /\ f[x] \in Int
  <2>1. IsFiniteSet(t) /\ \A y \in t : f[y] \in Int
    BY <1>6, <1>7, FS_Subset
  <2> QED
    BY <2>1, SumIsInt
<1>14. SumOf(f, U) = f[x] + SumOf(f, S \cup t)
  BY <1>10, <1>11, Zenon
<1>15. SumOf(f, U) = SumOf(f, S) + SumOf(f, s)
  BY <1>3, <1>8, <1>12, <1>13, <1>14
<1> QED
  BY <1>9, <1>15

(* Part of a set adds up to no more than all of it.                        *)
LEMMA SumOfPart ==
    ASSUME NEW f, NEW S, IsFiniteSet(S), \A y \in S : f[y] \in Nat, NEW T, T \subseteq S
    PROVE  SumOf(f, T) <= SumOf(f, S)
<1> DEFINE F == {s \in SUBSET S : T \subseteq s /\ ~ (SumOf(f, T) <= SumOf(f, s))}
<1> SUFFICES F = {}
  OBVIOUS
<1> SUFFICES ASSUME F # {} PROVE FALSE
  OBVIOUS
<1>1. \A s \in F : IsFiniteSet(s)
  BY FS_Subset
<1>2. PICK s \in F : \A t \in F : Cardinality(s) <= Cardinality(t)
  <2> HIDE DEF F
  <2> QED
    BY <1>1, LeastSet
<1>3. IsFiniteSet(T) /\ SumOf(f, T) \in Nat
  BY FS_Subset, SumIsNat
<1>4. PICK x \in s : x \notin T
  BY <1>2, <1>3
<1>5. s \ {x} \notin F
  BY <1>1, <1>2, <1>4, Smaller
<1>6. SumOf(f, T) <= SumOf(f, s \ {x})
  BY <1>4, <1>5
<1>7. SumOf(f, s) = f[x] + SumOf(f, s \ {x})
  BY <1>1, <1>4, SumElement
<1>8. SumOf(f, s \ {x}) \in Nat /\ f[x] \in Nat
  <2>1. IsFiniteSet(s \ {x})
    BY <1>1, FS_Subset
  <2> QED
    BY <1>4, <2>1, SumIsNat
<1> QED
  BY <1>2, <1>3, <1>6, <1>7, <1>8

(* Every next number adds what it stands for.                              *)
LEMMA SumNext ==
    ASSUME NEW f, NEW h \in Nat \ {0}, \A m \in 1 .. h : f[m] \in Int
    PROVE  SumOf(f, 1 .. h) = f[h] + SumOf(f, 1 .. h - 1)
<1>1. PICK S : S = 1 .. h
  OBVIOUS
<1>2. PICK T : T = 1 .. h - 1
  OBVIOUS
<1>3. IsFiniteSet(S)
  <2>1. h \in Nat
    OBVIOUS
  <2> QED
    BY <1>1, <2>1, FS_Interval
<1>4. h \in S /\ S \ {h} = T /\ \A m \in S : f[m] \in Int
  BY <1>1, <1>2
<1>5. SumOf(f, S) = f[h] + SumOf(f, S \ {h})
  BY <1>3, <1>4, SumElement
<1> QED
  BY <1>1, <1>2, <1>4, <1>5, Zenon

-----------------------------------------------------------------------------
(* What holds of 0, and of a number with the one before, holds of all: for *)
(* the set of those it holds of.                                           *)
LEMMA CountUp ==
    ASSUME NEW h \in Nat, NEW G,
           0 \in G, \A n \in 1 .. h : n - 1 \in G => n \in G
    PROVE  \A n \in 0 .. h : n \in G
<1> DEFINE Fails == {n \in 0 .. h : n \notin G}
<1> SUFFICES ASSUME Fails # {} PROVE FALSE
  OBVIOUS
<1>1. PICK n \in Fails : \A m \in Fails : n <= m
  <2>1. Fails \subseteq Nat
    OBVIOUS
  <2> HIDE DEF Fails
  <2> QED
    BY <2>1, LeastNumber
<1>2. n # 0 /\ n \in 1 .. h
  BY <1>1
<1>3. n - 1 \in 0 .. h /\ n - 1 \notin Fails
  BY <1>1, <1>2
<1> QED
  BY <1>1, <1>2, <1>3

(* A function defined step by step, from a, for the numbers up to h.       *)
Steps(c, F, a, h) == c = [n \in 0 .. h |-> IF n = 0 THEN a ELSE F[<<n, c[n - 1]>>]]

LEMMA StepsExist ==
    ASSUME NEW h \in Nat, NEW X, NEW a \in X, NEW F \in [Nat \X X -> X]
    PROVE  \E c \in [0 .. h -> X] : Steps(c, F, a, h)
<1> DEFINE G == {n \in 0 .. h : \E c \in [0 .. n -> X] : Steps(c, F, a, n)}
<1>1. 0 \in G
  <2> DEFINE c == [n \in 0 .. 0 |-> a]
  <2>1. c \in [0 .. 0 -> X] /\ Steps(c, F, a, 0)
    BY DEF Steps
  <2> QED
    BY <2>1
<1>2. ASSUME NEW n \in 1 .. h, n - 1 \in G PROVE n \in G
  <2>1. PICK b \in [0 .. n - 1 -> X] : Steps(b, F, a, n - 1)
    BY <1>2
  <2> DEFINE c == [m \in 0 .. n |-> IF m = n THEN F[<<n, b[n - 1]>>] ELSE b[m]]
  <2>2. c \in [0 .. n -> X]
    BY <2>1
  <2>3. ASSUME NEW m \in 0 .. n PROVE c[m] = IF m = 0 THEN a ELSE F[<<m, c[m - 1]>>]
    <3>1. CASE m = n
      <4>1. c[n] = F[<<n, b[n - 1]>>] /\ c[n - 1] = b[n - 1] /\ n # 0
        OBVIOUS
      <4> QED
        BY <3>1, <4>1
    <3>2. CASE m # n /\ m # 0
      <4>1. b[m] = F[<<m, b[m - 1]>>]
        BY <2>1, <3>2 DEF Steps
      <4>2. c[m] = b[m] /\ c[m - 1] = b[m - 1]
        BY <3>2
      <4> QED
        BY <3>2, <4>1, <4>2
    <3>3. CASE m # n /\ m = 0
      BY <2>1, <3>3 DEF Steps
    <3> QED
      BY <3>1, <3>2, <3>3
  <2>4. Steps(c, F, a, n)
    <3> HIDE DEF c
    <3> QED
      BY <2>2, <2>3 DEF Steps
  <2> QED
    BY <2>2, <2>4
<1> HIDE DEF G
<1>3. h \in G
  BY <1>1, <1>2, CountUp
<1> QED
  BY <1>3 DEF G
=============================================================================
