------------------------------- MODULE Lemmas -------------------------------
(***************************************************************************)
(* Facts about the data that the other proofs rest on: induction, sums     *)
(* over finite sets, the lists of module Lists, and reading them in pages. *)
(*                                                                         *)
(* The induction theorems of the library take an operator for a parameter. *)
(* Here a property is the set of the values that have it, and induction    *)
(* comes from the fact that the finite subsets of a set are well founded.  *)
(***************************************************************************)
EXTENDS Lists, FiniteSetTheorems, SequenceTheorems, TLAPS

(***************************************************************************)
(* Induction.                                                              *)
(***************************************************************************)

(* A set of finite sets has a member that includes no other one.            *)
LEMMA Smallest ==
    \A S, F : F \subseteq FiniteSubsetsOf(S) /\ F # {} =>
        \E X \in F : \A Y \in F : Y \subseteq X => Y = X
<1> SUFFICES ASSUME NEW S, NEW F, F \subseteq FiniteSubsetsOf(S), F # {}
             PROVE  \E X \in F : \A Y \in F : Y \subseteq X => Y = X
  OBVIOUS
<1>1. \E X \in F : \A Y \in F : ~(<<Y, X>> \in StrictSubsetOrdering(S))
  BY WFMin, FS_StrictSubsetOrderingWellFounded, Zenon
<1> QED
  BY <1>1 DEF StrictSubsetOrdering, FiniteSubsetsOf

(* A set of numbers has a least one.                                        *)
LEMMA LeastNumber ==
    ASSUME NEW T \in SUBSET Nat, T # {}
    PROVE  \E n \in T : \A m \in T : n <= m
<1> DEFINE F == {0..n : n \in T}
<1>1. F \subseteq FiniteSubsetsOf(Nat)
  <2>1. \A n \in T : IsFiniteSet(0..n)
    BY FS_Interval
  <2> QED
    BY <2>1 DEF FiniteSubsetsOf
<1>2. PICK n \in T : \A Y \in F : Y \subseteq 0..n => Y = 0..n
  <2>1. F # {}
    OBVIOUS
  <2>2. \E X \in F : \A Y \in F : Y \subseteq X => Y = X
    <3> HIDE DEF F
    <3> QED
      BY <2>1, <1>1, Smallest
  <2> QED
    BY <2>2
<1>3. ASSUME NEW m \in T, m < n PROVE FALSE
  <2>1. (0..m) \in F /\ (0..m) \subseteq (0..n)
    BY <1>3
  <2>2. n \in 0..n /\ n \notin 0..m
    BY <1>3
  <2> QED
    BY <2>1, <2>2, <1>2
<1> QED
  BY <1>3

(* What holds for 0 and passes from each number to the next holds for all.  *)
LEMMA NumberInduction ==
    ASSUME NEW T, 0 \in T, \A n \in Nat : n \in T => n + 1 \in T
    PROVE  Nat \subseteq T
<1>1. SUFFICES ASSUME Nat \ T # {} PROVE FALSE
  OBVIOUS
<1>2. PICK n \in Nat \ T : \A m \in Nat \ T : n <= m
  BY <1>1, LeastNumber
<1>3. n - 1 \in T
  BY <1>2
<1> QED
  BY <1>2, <1>3

(* What holds for {} and survives one more element holds for every subset.  *)
LEMMA SetInduction ==
    ASSUME NEW S, IsFiniteSet(S), NEW F, {} \in F,
           \A T \in SUBSET S, x \in S : T \in F /\ x \notin T => T \cup {x} \in F
    PROVE  SUBSET S \subseteq F
<1> DEFINE B == {T \in SUBSET S : T \notin F}
<1>1. SUFFICES ASSUME B # {} PROVE FALSE
  OBVIOUS
<1>2. B \subseteq FiniteSubsetsOf(S)
  BY FS_Subset DEF FiniteSubsetsOf
<1>3. \E X \in B : \A Y \in B : Y \subseteq X => Y = X
  <2> HIDE DEF B
  <2> QED
    BY <1>1, <1>2, Smallest
<1>4. PICK X \in B : \A Y \in B : Y \subseteq X => Y = X
  BY <1>3
<1>5. PICK x \in X : TRUE
  OBVIOUS
<1>6. X \ {x} \in F
  BY <1>4
<1>7. (X \ {x}) \cup {x} = X
  OBVIOUS
<1>8. (X \ {x}) \cup {x} \in F
  BY <1>6
<1> QED
  BY <1>7, <1>8

(***************************************************************************)
(* Sums.                                                                   *)
(***************************************************************************)

Picked(s) == CHOOSE x \in s : TRUE
SumStep(w, g, s) == IF s = {} THEN 0 ELSE w[Picked(s)] + g[s \ {Picked(s)}]
Sums(w, S, g) == g = [s \in SUBSET S |-> SumStep(w, g, s)]

(* The fold of the library is a recursive function over the subsets.        *)
LEMMA SumIsRecursive ==
    ASSUME NEW w, NEW S
    PROVE  SumFunctionOnSet(w, S) = (CHOOSE g : Sums(w, S, g))[S]
BY DEF SumFunctionOnSet, FoldFunctionOnSet, MapThenFoldSet, Sums, SumStep, Picked

(* Such a function exists, built up by the size of the subsets...           *)
LEMMA SumsExist ==
    ASSUME NEW w, NEW S, IsFiniteSet(S)
    PROVE  \E g : Sums(w, S, g)
<1> DEFINE UpTo(n) == {s \in SUBSET S : Cardinality(s) <= n}
           T == {n \in Nat : \E g : \A s \in UpTo(n) : g[s] = SumStep(w, g, s)}
<1>1. \A s \in SUBSET S : IsFiniteSet(s) /\ Cardinality(s) \in Nat
  BY FS_Subset, FS_CardinalityType
<1>2. 0 \in T
  <2> DEFINE g == [s \in SUBSET S |-> 0]
  <2>1. \A s \in UpTo(0) : s = {}
    BY <1>1, FS_EmptySet
  <2>2. \A s \in UpTo(0) : g[s] = SumStep(w, g, s)
    BY <2>1 DEF SumStep
  <2> QED
    BY <2>2
<1>3. ASSUME NEW n \in Nat, n \in T PROVE n + 1 \in T
  <2>1. PICK g : \A s \in UpTo(n) : g[s] = SumStep(w, g, s)
    BY <1>3
  <2> DEFINE h == [s \in SUBSET S |-> IF s \in UpTo(n) THEN g[s] ELSE SumStep(w, g, s)]
  <2>2. ASSUME NEW s \in UpTo(n + 1), s # {}
        PROVE  s \ {Picked(s)} \in UpTo(n)
    <3>1. Picked(s) \in s
      BY <2>2 DEF Picked
    <3>2. Cardinality(s \ {Picked(s)}) = Cardinality(s) - 1
      BY <1>1, <3>1, FS_RemoveElement
    <3> QED
      BY <3>2, <1>1
  <2>3. ASSUME NEW s \in UpTo(n + 1) PROVE h[s] = SumStep(w, h, s)
    <3>1. h[s] = SumStep(w, g, s)
      BY <2>1
    <3>2. s # {} => h[s \ {Picked(s)}] = g[s \ {Picked(s)}]
      BY <2>2
    <3> HIDE DEF h
    <3> QED
      BY <3>1, <3>2 DEF SumStep
  <2> HIDE DEF h, UpTo
  <2> QED
    BY <2>3
<1>4. Cardinality(S) \in T
  <2> HIDE DEF T
  <2> QED
    BY <1>1, <1>2, <1>3, NumberInduction
<1>5. PICK g : \A s \in UpTo(Cardinality(S)) : g[s] = SumStep(w, g, s)
  BY <1>4
<1> DEFINE h == [s \in SUBSET S |-> g[s]]
<1>6. \A s \in SUBSET S : g[s] = SumStep(w, g, s)
  BY <1>5, FS_Subset
<1>7. \A s \in SUBSET S : SumStep(w, h, s) = SumStep(w, g, s)
  BY DEF SumStep
<1>8. h = [s \in SUBSET S |-> SumStep(w, h, s)]
  BY <1>6, <1>7
<1> QED
  BY <1>8 DEF Sums

(* ... and gives a subset the same value whatever set it is a subset of.    *)
LEMMA SumsUnique ==
    ASSUME NEW w, NEW S, IsFiniteSet(S), NEW T \in SUBSET S,
           NEW g, Sums(w, S, g), NEW h, Sums(w, T, h)
    PROVE  \A s \in SUBSET T : g[s] = h[s]
<1> DEFINE B == {s \in SUBSET T : g[s] # h[s]}
<1>1. SUFFICES ASSUME B # {} PROVE FALSE
  OBVIOUS
<1>2. B \subseteq FiniteSubsetsOf(S)
  BY FS_Subset DEF FiniteSubsetsOf
<1>3. \E X \in B : \A Y \in B : Y \subseteq X => Y = X
  <2> HIDE DEF B
  <2> QED
    BY <1>1, <1>2, Smallest
<1>4. PICK X \in B : \A Y \in B : Y \subseteq X => Y = X
  BY <1>3
<1>5. g[X] = SumStep(w, g, X) /\ h[X] = SumStep(w, h, X)
  BY DEF Sums
<1>6. X # {}
  BY <1>5 DEF SumStep
<1>7. Picked(X) \in X
  BY <1>6 DEF Picked
<1>8. g[X \ {Picked(X)}] = h[X \ {Picked(X)}]
  BY <1>4, <1>7
<1> QED
  BY <1>5, <1>6, <1>8 DEF SumStep

(* The recursion equation.                                                  *)
LEMMA SumPicked ==
    ASSUME NEW w, NEW S, IsFiniteSet(S)
    PROVE  SumFunctionOnSet(w, S) =
             IF S = {} THEN 0
             ELSE w[Picked(S)] + SumFunctionOnSet(w, S \ {Picked(S)})
<1> DEFINE T == S \ {Picked(S)}
           g == CHOOSE g : Sums(w, S, g)
           h == CHOOSE h : Sums(w, T, h)
<1>1. IsFiniteSet(T)
  BY FS_RemoveElement
<1>2. Sums(w, S, g) /\ Sums(w, T, h)
  BY <1>1, SumsExist
<1>3. SumFunctionOnSet(w, S) = g[S] /\ SumFunctionOnSet(w, T) = h[T]
  BY SumIsRecursive
<1> HIDE DEF g, h
<1>4. g[S] = SumStep(w, g, S)
  BY <1>2 DEF Sums
<1>5. g[T] = h[T]
  BY <1>2, SumsUnique
<1> QED
  BY <1>3, <1>4, <1>5 DEF SumStep

LEMMA SumEmpty == \A w : SumFunctionOnSet(w, {}) = 0
BY SumPicked, FS_EmptySet

(* Any element may be taken first.                                          *)
LEMMA SumTake ==
    ASSUME NEW S, IsFiniteSet(S), NEW w, \A x \in S : w[x] \in Int
    PROVE  \A T \in SUBSET S :
             /\ SumFunctionOnSet(w, T) \in Int
             /\ \A x \in T : SumFunctionOnSet(w, T) = w[x] + SumFunctionOnSet(w, T \ {x})
<1> DEFINE Sum(T) == SumFunctionOnSet(w, T)
           F == {T \in SUBSET S : Sum(T) \in Int}
           B == {T \in SUBSET S : \E x \in T : Sum(T) # w[x] + Sum(T \ {x})}
<1>0. Sum({}) = 0
  BY SumEmpty
<1>1. \A T \in SUBSET S :
          IsFiniteSet(T) /\ (T # {} => Sum(T) = w[Picked(T)] + Sum(T \ {Picked(T)}))
  BY FS_Subset, SumPicked
<1>2. \A T \in SUBSET S : T # {} => Picked(T) \in T
  BY DEF Picked
<1> HIDE DEF Sum
<1>3. \A T \in SUBSET S : Sum(T) \in Int
  <2> DEFINE C == {T \in SUBSET S : Sum(T) \notin Int}
  <2>1. SUFFICES ASSUME C # {} PROVE FALSE
    OBVIOUS
  <2>2. C \subseteq FiniteSubsetsOf(S)
    BY <1>1 DEF FiniteSubsetsOf
  <2>3. \E X \in C : \A Y \in C : Y \subseteq X => Y = X
    <3> HIDE DEF C
    <3> QED
      BY <2>1, <2>2, Smallest
  <2>4. PICK X \in C : \A Y \in C : Y \subseteq X => Y = X
    BY <2>3
  <2>5. X # {}
    BY <1>0
  <2>6. Sum(X \ {Picked(X)}) \in Int
    BY <2>4, <2>5, <1>2
  <2> QED
    BY <2>5, <2>6, <1>1, <1>2
<1>4. SUFFICES ASSUME B # {} PROVE FALSE
  BY <1>3 DEF Sum
<1>5. B \subseteq FiniteSubsetsOf(S)
  BY <1>1 DEF FiniteSubsetsOf
<1>6. \E X \in B : \A Y \in B : Y \subseteq X => Y = X
  <2> HIDE DEF B
  <2> QED
    BY <1>4, <1>5, Smallest
<1>7. PICK X \in B : \A Y \in B : Y \subseteq X => Y = X
  BY <1>6
<1>8. PICK x \in X : Sum(X) # w[x] + Sum(X \ {x})
  BY <1>7
<1> DEFINE p == Picked(X)
<1>9. p \in X /\ Sum(X) = w[p] + Sum(X \ {p}) /\ x # p
  BY <1>1, <1>2, <1>8
<1> HIDE DEF p
<1>10. X \ {p} \notin B /\ X \ {x} \notin B
  BY <1>7, <1>9
<1>11. Sum(X \ {p}) = w[x] + Sum((X \ {p}) \ {x})
  BY <1>9, <1>10
<1>12. Sum(X \ {x}) = w[p] + Sum((X \ {x}) \ {p})
  BY <1>9, <1>10
<1>13. (X \ {p}) \ {x} = (X \ {x}) \ {p}
  OBVIOUS
<1>14. Sum((X \ {p}) \ {x}) \in Int /\ w[x] \in Int /\ w[p] \in Int
  BY <1>3, <1>9
<1>15. Sum(X \ {x}) = w[p] + Sum((X \ {p}) \ {x})
  BY <1>12, <1>13
<1>16. Sum(X) = w[p] + (w[x] + Sum((X \ {p}) \ {x}))
  BY <1>9, <1>11
<1> QED
  BY <1>8, <1>14, <1>15, <1>16

(* Only the values on the set matter, and greater ones give no less.        *)
LEMMA SumCompare ==
    ASSUME NEW S, IsFiniteSet(S), NEW w, NEW v,
           \A x \in S : w[x] \in Int /\ v[x] \in Int /\ w[x] <= v[x]
    PROVE  SumFunctionOnSet(w, S) <= SumFunctionOnSet(v, S)
<1> DEFINE F == {T \in SUBSET S : SumFunctionOnSet(w, T) <= SumFunctionOnSet(v, T)}
<1>1. {} \in F
  BY SumEmpty
<1>2. ASSUME NEW T \in SUBSET S, NEW x \in S, T \in F, x \notin T
      PROVE  T \cup {x} \in F
  <2>1. (T \cup {x}) \ {x} = T
    BY <1>2
  <2>2. SumFunctionOnSet(w, T \cup {x}) = w[x] + SumFunctionOnSet(w, T)
    BY <2>1, SumTake
  <2>3. SumFunctionOnSet(v, T \cup {x}) = v[x] + SumFunctionOnSet(v, T)
    BY <2>1, SumTake
  <2>4. SumFunctionOnSet(w, T) \in Int /\ SumFunctionOnSet(v, T) \in Int
    BY SumTake
  <2> QED
    BY <1>2, <2>2, <2>3, <2>4
<1>3. SUBSET S \subseteq F
  <2> HIDE DEF F
  <2> QED
    BY <1>1, <1>2, SetInduction
<1> QED
  BY <1>3

LEMMA SumAgree ==
    ASSUME NEW S, IsFiniteSet(S), NEW w, NEW v,
           \A x \in S : w[x] \in Int /\ v[x] = w[x]
    PROVE  SumFunctionOnSet(w, S) = SumFunctionOnSet(v, S)
<1>1. SumFunctionOnSet(w, S) \in Int /\ SumFunctionOnSet(v, S) \in Int
  BY SumTake
<1>2. SumFunctionOnSet(w, S) <= SumFunctionOnSet(v, S)
  BY SumCompare
<1>3. SumFunctionOnSet(v, S) <= SumFunctionOnSet(w, S)
  BY SumCompare
<1> QED
  BY <1>1, <1>2, <1>3

(* The forms in which the contracts' proofs use these facts.                *)
LEMMA SumInt ==
    ASSUME NEW S, IsFiniteSet(S), NEW w \in [S -> Int]
    PROVE  SumFunction(w) \in Int
BY SumTake DEF SumFunction

LEMMA SumZero ==
    ASSUME NEW S, IsFiniteSet(S), NEW w, \A x \in S : w[x] = 0
    PROVE  SumFunctionOnSet(w, S) = 0
<1> DEFINE F == {T \in SUBSET S : SumFunctionOnSet(w, T) = 0}
<1>1. {} \in F
  BY SumEmpty
<1>2. ASSUME NEW T \in SUBSET S, NEW x \in S, T \in F, x \notin T
      PROVE  T \cup {x} \in F
  <2>1. (T \cup {x}) \ {x} = T
    BY <1>2
  <2>2. SumFunctionOnSet(w, T \cup {x}) = w[x] + SumFunctionOnSet(w, T)
    BY <2>1, SumTake
  <2> QED
    BY <1>2, <2>2
<1> HIDE DEF F
<1>3. SUBSET S \subseteq F
  BY <1>1, <1>2, SetInduction
<1> QED
  BY <1>3 DEF F

LEMMA SumNat ==
    ASSUME NEW S, IsFiniteSet(S), NEW w \in [S -> Nat]
    PROVE  SumFunction(w) \in Nat
<1>1. SumFunctionOnSet([x \in S |-> 0], S) <= SumFunctionOnSet(w, S)
  BY SumCompare
<1>2. SumFunctionOnSet([x \in S |-> 0], S) = 0
  BY SumZero
<1> QED
  BY <1>1, <1>2, SumInt DEF SumFunction

(* A part of the set and the rest.                                          *)
LEMMA SumSplit ==
    ASSUME NEW S, IsFiniteSet(S), NEW w, \A x \in S : w[x] \in Int, NEW G \in SUBSET S
    PROVE  SumFunctionOnSet(w, S) = SumFunctionOnSet(w, G) + SumFunctionOnSet(w, S \ G)
<1> DEFINE Sum(T) == SumFunctionOnSet(w, T)
           F == {T \in SUBSET G : Sum(S) = Sum(T) + Sum(S \ T)}
<1>1. {} \in F
  <2>1. Sum({}) = 0 /\ S \ {} = S /\ Sum(S) \in Int
    BY SumEmpty, SumTake
  <2> QED
    BY <2>1
<1>2. ASSUME NEW T \in SUBSET G, NEW x \in G, T \in F, x \notin T
      PROVE  T \cup {x} \in F
  <2>1. /\ (T \cup {x}) \ {x} = T /\ (S \ T) \ {x} = S \ (T \cup {x})
        /\ T \cup {x} \in SUBSET S /\ S \ T \in SUBSET S /\ x \in S \ T /\ x \in T \cup {x}
    BY <1>2
  <2>2. Sum(T \cup {x}) = w[x] + Sum(T)
    BY <2>1, SumTake
  <2>3. Sum(S \ T) = w[x] + Sum(S \ (T \cup {x}))
    BY <2>1, SumTake
  <2>4. Sum(T) \in Int /\ Sum(S \ (T \cup {x})) \in Int /\ w[x] \in Int
    BY <2>1, SumTake
  <2>5. Sum(S) = Sum(T) + Sum(S \ T)
    BY <1>2
  <2> HIDE DEF Sum
  <2> QED
    BY <2>2, <2>3, <2>4, <2>5
<1>3. IsFiniteSet(G)
  BY FS_Subset
<1>4. SUBSET G \subseteq F
  <2> HIDE DEF F
  <2> QED
    BY <1>1, <1>2, <1>3, SetInduction
<1> QED
  BY <1>4

(* One value of a function changes.                                         *)
LEMMA SumUpdate ==
    ASSUME NEW S, IsFiniteSet(S), NEW w \in [S -> Int], NEW v \in [S -> Int], NEW d \in S,
           \A x \in S \ {d} : v[x] = w[x]
    PROVE  SumFunction(v) = SumFunction(w) + v[d] - w[d]
<1>1. IsFiniteSet(S \ {d})
  BY FS_RemoveElement
<1>2. SumFunctionOnSet(w, S \ {d}) = SumFunctionOnSet(v, S \ {d})
  BY <1>1, SumAgree
<1>3. /\ SumFunctionOnSet(w, S) = w[d] + SumFunctionOnSet(w, S \ {d})
      /\ SumFunctionOnSet(v, S) = v[d] + SumFunctionOnSet(v, S \ {d})
      /\ SumFunctionOnSet(w, S \ {d}) \in Int
  BY SumTake
<1> QED
  BY <1>2, <1>3 DEF SumFunction

(* One more element joins the domain.                                       *)
LEMMA SumExtend ==
    ASSUME NEW S, IsFiniteSet(S), NEW w \in [S -> Int], NEW d, d \notin S,
           NEW v \in [S \cup {d} -> Int], \A x \in S : v[x] = w[x]
    PROVE  SumFunction(v) = SumFunction(w) + v[d]
<1>1. IsFiniteSet(S \cup {d})
  BY FS_AddElement
<1>2. SumFunctionOnSet(w, S) = SumFunctionOnSet(v, S)
  BY SumAgree
<1>3. (S \cup {d}) \ {d} = S
  OBVIOUS
<1>4. /\ SumFunctionOnSet(v, S \cup {d}) = v[d] + SumFunctionOnSet(v, S)
      /\ SumFunctionOnSet(v, S) \in Int
  BY <1>1, <1>3, SumTake
<1> QED
  BY <1>2, <1>4 DEF SumFunction

(* The same, with a name for the larger set.                                *)
LEMMA SumGrows ==
    ASSUME NEW S, IsFiniteSet(S), NEW d, d \notin S, NEW U, U = S \cup {d},
           NEW w, w \in [S -> Int], NEW v, v \in [U -> Int], \A x \in S : v[x] = w[x]
    PROVE  SumFunction(v) = SumFunction(w) + v[d]
  BY SumExtend

(* A sequence of numbers gets one more.                                     *)
LEMMA SumAppend ==
    ASSUME NEW n \in Nat, NEW w, NEW v,
           w \in [1 .. n -> Int], v \in [1 .. n + 1 -> Int], \A i \in 1 .. n : v[i] = w[i]
    PROVE  SumFunction(v) = SumFunction(w) + v[n + 1]
<1>1. PICK S, d, U : S = 1 .. n /\ d = n + 1 /\ U = 1 .. n + 1
  OBVIOUS
<1>2. IsFiniteSet(1 .. n)
  BY FS_Interval
<1>3. IsFiniteSet(S) /\ d \notin S /\ U = S \cup {d}
  BY <1>1, <1>2
<1>4. w \in [S -> Int] /\ v \in [U -> Int] /\ \A i \in S : v[i] = w[i]
  BY <1>1
<1>5. \A s, e, u, f, g :
        /\ IsFiniteSet(s) /\ e \notin s /\ u = s \cup {e}
        /\ f \in [s -> Int] /\ g \in [u -> Int] /\ \A i \in s : g[i] = f[i]
        => SumFunction(g) = SumFunction(f) + g[e]
  BY ONLY SumGrows
<1>6. SumFunction(v) = SumFunction(w) + v[d]
  BY ONLY <1>3, <1>4, <1>5
<1> QED
  BY <1>1, <1>6

(* A sum of natural numbers covers each of them.                            *)
LEMMA SumCovers ==
    ASSUME NEW S, IsFiniteSet(S), NEW w \in [S -> Nat], NEW d \in S
    PROVE  w[d] <= SumFunction(w)
<1> DEFINE v == [w EXCEPT ![d] = 0]
<1>1. v \in [S -> Nat] /\ v[d] = 0 /\ \A x \in S \ {d} : v[x] = w[x]
  OBVIOUS
<1>2. SumFunction(v) \in Nat /\ SumFunction(w) \in Nat
  BY <1>1, SumNat
<1> HIDE DEF v
<1>3. SumFunction(v) = SumFunction(w) + v[d] - w[d]
  BY <1>1, SumUpdate
<1> QED
  BY <1>1, <1>2, <1>3

(***************************************************************************)
(* Lists.                                                                  *)
(***************************************************************************)

LEMMA ListsEmpty == Lists(<<>>, {})
BY DEF Lists, ToSet, IsInjective

LEMMA ListsContains ==
    ASSUME NEW T, NEW seq \in Seq(T), NEW S, Lists(seq, S)
    PROVE  \A x : Contains(seq, x) <=> x \in S
BY DEF Lists, ToSet, Contains

(* As many entries as members.                                              *)
LEMMA ListsLen ==
    ASSUME NEW T, NEW seq \in Seq(T), NEW S, Lists(seq, S)
    PROVE  IsFiniteSet(S) /\ Cardinality(S) = Len(seq)
<1>1. seq \in Bijection(1..Len(seq), S)
  BY DEF Lists, ToSet, IsInjective, Bijection, Injection, Surjection
<1>2. ExistsBijection(1..Len(seq), S)
  BY <1>1 DEF ExistsBijection
<1> QED
  BY <1>2, FS_CountingElements, FS_NatBijection

LEMMA ListsAppend ==
    ASSUME NEW T, NEW seq \in Seq(T), NEW S, Lists(seq, S), NEW x \in T, x \notin S
    PROVE  Append(seq, x) \in Seq(T) /\ Lists(Append(seq, x), S \cup {x})
<1> DEFINE new == Append(seq, x)
<1>1. /\ new \in Seq(T) /\ DOMAIN new = 1 .. Len(seq) + 1 /\ Len(seq) \in Nat
      /\ \A i \in 1 .. Len(seq) : new[i] = seq[i] /\ seq[i] \in S
      /\ new[Len(seq) + 1] = x
  BY DEF Lists, ToSet
<1>2. ToSet(new) = S \cup {x}
  <2>1. \A y \in S : \E i \in 1 .. Len(seq) : seq[i] = y
    BY DEF Lists, ToSet
  <2> HIDE DEF new
  <2> QED
    BY <1>1, <2>1 DEF ToSet
<1>3. IsInjective(new)
  <2>1. \A i, j \in 1 .. Len(seq) : seq[i] = seq[j] => i = j
    BY DEF Lists, IsInjective
  <2> HIDE DEF new
  <2> QED
    BY <1>1, <2>1 DEF IsInjective
<1> QED
  BY <1>1, <1>2, <1>3 DEF Lists

LEMMA AscendingAppend ==
    ASSUME NEW seq \in Seq(Int), Ascending(seq), NEW x \in Int,
           \A i \in 1 .. Len(seq) : seq[i] < x
    PROVE  Ascending(Append(seq, x))
<1> DEFINE new == Append(seq, x)
<1>1. /\ DOMAIN new = 1 .. Len(seq) + 1 /\ Len(seq) \in Nat
      /\ \A i \in 1 .. Len(seq) : new[i] = seq[i]
      /\ new[Len(seq) + 1] = x
  OBVIOUS
<1>2. \A i, j \in 1 .. Len(seq) : i < j => seq[i] < seq[j]
  BY DEF Ascending
<1> HIDE DEF new
<1>3. \A i, j \in 1 .. Len(seq) + 1 : i < j => new[i] < new[j]
  BY <1>1, <1>2
<1>4. Ascending(new)
  BY <1>1, <1>3 DEF Ascending
<1> QED
  BY <1>4 DEF new

(* An entry is removed by its position: the later ones move up.             *)
LEMMA RemovedAt ==
    ASSUME NEW T, NEW seq \in Seq(T), NEW x, Contains(seq, x)
    PROVE  \E p \in 1 .. Len(seq) :
             /\ seq[p] = x
             /\ RemoveFirst(seq, x) \in Seq(T) /\ Len(RemoveFirst(seq, x)) = Len(seq) - 1
             /\ \A i \in 1 .. Len(seq) - 1 :
                    RemoveFirst(seq, x)[i] = IF i < p THEN seq[i] ELSE seq[i + 1]
<1> DEFINE I == {i \in 1 .. Len(seq) : seq[i] = x}
           p == Min(I)
<1>1. RemoveFirst(seq, x) = RemoveAt(seq, p)
  BY DEF RemoveFirst, SelectInSeq, Contains
<1>2. p \in I
  <2>1. I # {} /\ I \subseteq Nat
    BY DEF Contains
  <2>2. \E n \in I : \A m \in I : n <= m
    <3> HIDE DEF I
    <3> QED
      BY <2>1, LeastNumber
  <2> QED
    BY <2>2 DEF Min
<1>3. p \in 1 .. Len(seq) /\ seq[p] = x /\ Len(seq) \in Nat
  BY <1>2
<1> HIDE DEF I, p
<1> DEFINE front == SubSeq(seq, 1, p - 1)
           back == SubSeq(seq, p + 1, Len(seq))
           new == front \o back
<1>4. RemoveAt(seq, p) = new
  BY DEF RemoveAt
<1>5. /\ front \in Seq(T) /\ Len(front) = p - 1
      /\ \A i \in 1 .. p - 1 : front[i] = seq[i]
  <2>1. \A i \in 1 .. p - 1 : seq[i] \in T
    BY <1>3
  <2>2. p - 1 \in Int /\ 1 \in Int /\ (p - 1) - 1 + 1 = p - 1 /\ (1 > p - 1 => p - 1 = 0)
    BY <1>3
  <2>3. /\ front \in Seq(T)
        /\ Len(front) = IF 1 <= p - 1 THEN (p - 1) - 1 + 1 ELSE 0
        /\ \A i \in 1 .. (p - 1) - 1 + 1 : front[i] = seq[1 + i - 1]
    BY <2>1, <2>2, SubSeqProperties
  <2> HIDE DEF front
  <2> QED
    BY <2>2, <2>3
<1>6. /\ back \in Seq(T) /\ Len(back) = Len(seq) - p
      /\ \A i \in 1 .. Len(seq) - p : back[i] = seq[p + i]
  <2>1. \A i \in p + 1 .. Len(seq) : seq[i] \in T
    BY <1>3
  <2>2. p + 1 \in Int /\ Len(seq) \in Int /\ Len(seq) - (p + 1) + 1 = Len(seq) - p
        /\ (p + 1 > Len(seq) => Len(seq) - p = 0)
    BY <1>3
  <2>3. /\ back \in Seq(T)
        /\ Len(back) = IF p + 1 <= Len(seq) THEN Len(seq) - (p + 1) + 1 ELSE 0
        /\ \A i \in 1 .. Len(seq) - (p + 1) + 1 : back[i] = seq[(p + 1) + i - 1]
    BY <2>1, <2>2, SubSeqProperties
  <2>4. \A i \in 1 .. Len(seq) - p : (p + 1) + i - 1 = p + i
    BY <1>3
  <2> HIDE DEF back
  <2>5. Len(back) = Len(seq) - p
    BY <1>3, <2>3
  <2>6. \A i \in 1 .. Len(seq) - p : back[i] = seq[p + i]
    BY <2>2, <2>3, <2>4
  <2> QED
    BY <2>3, <2>5, <2>6
<1>7. /\ new \in Seq(T) /\ Len(new) = Len(front) + Len(back)
      /\ \A i \in 1 .. Len(front) + Len(back) :
             new[i] = IF i <= Len(front) THEN front[i] ELSE back[i - Len(front)]
  BY <1>5, <1>6, ConcatProperties
<1> HIDE DEF front, back, new
<1>8. Len(new) = Len(seq) - 1
  BY <1>3, <1>5, <1>6, <1>7
<1>9. ASSUME NEW i \in 1 .. Len(seq) - 1
      PROVE  new[i] = IF i < p THEN seq[i] ELSE seq[i + 1]
  <2>1. i \in 1 .. Len(front) + Len(back)
    BY <1>3, <1>5, <1>6
  <2>2. i < p => new[i] = seq[i]
    BY <2>1, <1>3, <1>5, <1>7
  <2>3. ~(i < p) => new[i] = back[i - (p - 1)] /\ i - (p - 1) \in 1 .. Len(seq) - p
    BY <2>1, <1>3, <1>5, <1>7
  <2>4. p + (i - (p - 1)) = i + 1
    BY <1>3
  <2> QED
    BY <2>2, <2>3, <2>4, <1>6
<1> QED
  BY <1>1, <1>3, <1>4, <1>7, <1>8, <1>9

LEMMA ListsRemoveFirst ==
    ASSUME NEW T, NEW seq \in Seq(T), NEW S, Lists(seq, S), NEW x \in S
    PROVE  /\ RemoveFirst(seq, x) \in Seq(T)
           /\ Len(RemoveFirst(seq, x)) = Len(seq) - 1
           /\ Lists(RemoveFirst(seq, x), S \ {x})
<1>1. Contains(seq, x)
  BY ListsContains
<1> DEFINE new == RemoveFirst(seq, x)
<1>2. PICK p \in 1 .. Len(seq) :
         /\ seq[p] = x
         /\ new \in Seq(T) /\ Len(new) = Len(seq) - 1
         /\ \A i \in 1 .. Len(seq) - 1 : new[i] = IF i < p THEN seq[i] ELSE seq[i + 1]
  BY <1>1, RemovedAt
<1>3. /\ \A i, j \in 1 .. Len(seq) : seq[i] = seq[j] => i = j
      /\ \A i \in 1 .. Len(seq) : seq[i] \in S
      /\ \A y \in S : \E i \in 1 .. Len(seq) : seq[i] = y
      /\ Len(seq) \in Nat
  BY DEF Lists, ToSet, IsInjective
<1> HIDE DEF new
<1>4. DOMAIN new = 1 .. Len(seq) - 1
  BY <1>2
<1>5. ToSet(new) = S \ {x}
  <2>1. ASSUME NEW i \in 1 .. Len(seq) - 1 PROVE new[i] \in S \ {x}
    BY <1>2, <1>3
  <2>2. ASSUME NEW y \in S, y # x PROVE \E i \in 1 .. Len(seq) - 1 : new[i] = y
    <3>1. PICK j \in 1 .. Len(seq) : seq[j] = y
      BY <1>3
    <3>2. j # p
      BY <1>2, <2>2, <3>1
    <3>3. CASE j < p
      BY <1>2, <3>1, <3>3
    <3>4. CASE j > p
      <4>1. j - 1 \in 1 .. Len(seq) - 1 /\ ~(j - 1 < p) /\ (j - 1) + 1 = j
        BY <3>4
      <4> QED
        BY <1>2, <3>1, <4>1
    <3> QED
      BY <3>2, <3>3, <3>4
  <2> QED
    BY <1>4, <2>1, <2>2 DEF ToSet
<1>6. IsInjective(new)
  <2>1. ASSUME NEW i \in 1 .. Len(seq) - 1, NEW j \in 1 .. Len(seq) - 1, new[i] = new[j]
        PROVE  i = j
    BY <2>1, <1>2, <1>3
  <2> QED
    BY <1>4, <2>1 DEF IsInjective
<1> QED
  BY <1>2, <1>5, <1>6 DEF Lists, new

(* The list built anew: a recursive function of the entries read so far...  *)
KeptStep(seq, gone, g, i) ==
    IF i = 0 THEN <<>>
    ELSE IF seq[i] \in gone THEN g[i - 1] ELSE Append(g[i - 1], seq[i])
Kept(seq, gone, g) == g = [i \in 0 .. Len(seq) |-> KeptStep(seq, gone, g, i)]

LEMMA KeptExists ==
    ASSUME NEW seq, NEW gone, Len(seq) \in Nat
    PROVE  \E g : Kept(seq, gone, g)
<1> DEFINE N == {n \in Nat : \E g : \A i \in 0 .. n : g[i] = KeptStep(seq, gone, g, i)}
<1>1. 0 \in N
  <2> DEFINE g == [i \in {0} |-> <<>>]
  <2>1. \A i \in 0 .. 0 : g[i] = KeptStep(seq, gone, g, i)
    BY DEF KeptStep
  <2> QED
    BY <2>1
<1>2. ASSUME NEW n \in Nat, n \in N PROVE n + 1 \in N
  <2>1. PICK g : \A i \in 0 .. n : g[i] = KeptStep(seq, gone, g, i)
    BY <1>2
  <2> DEFINE h == [i \in 0 .. n + 1 |-> IF i <= n THEN g[i] ELSE KeptStep(seq, gone, g, i)]
  <2>2. \A i \in 0 .. n : h[i] = g[i]
    OBVIOUS
  <2>3. h[n + 1] = KeptStep(seq, gone, g, n + 1)
    OBVIOUS
  <2> HIDE DEF h
  <2>4. ASSUME NEW i \in 0 .. n + 1 PROVE h[i] = KeptStep(seq, gone, h, i)
    <3>1. i # 0 => h[i - 1] = g[i - 1]
      BY <2>2
    <3>2. h[i] = KeptStep(seq, gone, g, i)
      <4>1. CASE i \in 0 .. n
        BY <4>1, <2>1, <2>2
      <4>2. CASE i = n + 1
        BY <4>2, <2>3
      <4> QED
        BY <4>1, <4>2
    <3> QED
      BY <3>1, <3>2 DEF KeptStep
  <2> QED
    BY <2>4
<1>3. Len(seq) \in N
  <2> HIDE DEF N
  <2> QED
    BY <1>1, <1>2, NumberInduction
<1>4. PICK g : \A i \in 0 .. Len(seq) : g[i] = KeptStep(seq, gone, g, i)
  BY <1>3
<1> DEFINE h == [i \in 0 .. Len(seq) |-> g[i]]
<1>5. \A i \in 0 .. Len(seq) : KeptStep(seq, gone, h, i) = KeptStep(seq, gone, g, i)
  BY DEF KeptStep
<1>6. h = [i \in 0 .. Len(seq) |-> KeptStep(seq, gone, h, i)]
  BY <1>4, <1>5
<1> QED
  BY <1>6 DEF Kept

(* ... so that each entry of the new list has its place in the old one, in  *)
(* the same order, and those are the places of what was to stay: m tells    *)
(* the place of each entry of new among the first n entries of seq.         *)
Embeds(m, new, seq, n, gone) ==
    /\ m \in [1 .. Len(new) -> 1 .. n]
    /\ \A k \in 1 .. Len(new) : new[k] = seq[m[k]]
    /\ \A k, l \in 1 .. Len(new) : k < l => m[k] < m[l]
    /\ \A j \in 1 .. n : seq[j] \notin gone <=> \E k \in 1 .. Len(new) : m[k] = j

LEMMA EmbedsAppend ==
    ASSUME NEW T, NEW seq, NEW gone, NEW n \in Nat, NEW new \in Seq(T), NEW m,
           Embeds(m, new, seq, n, gone), seq[n + 1] \in T, seq[n + 1] \notin gone
    PROVE  \E mm : Embeds(mm, Append(new, seq[n + 1]), seq, n + 1, gone)
<1> DEFINE l == Len(new)
           more == Append(new, seq[n + 1])
           mm == [k \in 1 .. l + 1 |-> IF k <= l THEN m[k] ELSE n + 1]
<1>1. /\ l \in Nat /\ Len(more) = l + 1
      /\ \A k \in 1 .. l : more[k] = new[k]
      /\ more[l + 1] = seq[n + 1]
  OBVIOUS
<1>2. /\ m \in [1 .. l -> 1 .. n]
      /\ \A k \in 1 .. l : new[k] = seq[m[k]]
      /\ \A k, j \in 1 .. l : k < j => m[k] < m[j]
      /\ \A j \in 1 .. n : seq[j] \notin gone <=> \E k \in 1 .. l : m[k] = j
  BY DEF Embeds
<1> HIDE DEF l, more
<1>3. /\ mm[l + 1] = n + 1
      /\ \A k \in 1 .. l : mm[k] = m[k] /\ m[k] \in 1 .. n /\ m[k] \in 1 .. n + 1
  BY <1>1, <1>2
<1>4. mm \in [1 .. l + 1 -> 1 .. n + 1]
  BY <1>1, <1>2, <1>3
<1> HIDE DEF mm
<1>5. ASSUME NEW k \in 1 .. l + 1 PROVE k \in 1 .. l \/ k = l + 1
  BY <1>1
<1>6. \A k \in 1 .. l + 1 : more[k] = seq[mm[k]]
  BY <1>1, <1>2, <1>3, <1>5
<1>7. \A k, j \in 1 .. l + 1 : k < j => mm[k] < mm[j]
  <2>1. ASSUME NEW k \in 1 .. l + 1, NEW j \in 1 .. l + 1, k < j PROVE mm[k] < mm[j]
    <3>1. k \in 1 .. l
      BY <1>1, <2>1
    <3>2. CASE j \in 1 .. l
      BY <1>2, <1>3, <2>1, <3>1, <3>2
    <3>3. CASE j = l + 1
      BY <1>3, <3>1, <3>3
    <3> QED
      BY <1>5, <3>2, <3>3
  <2> QED
    BY <2>1
<1>8. ASSUME NEW j \in 1 .. n + 1
      PROVE  seq[j] \notin gone <=> \E k \in 1 .. l + 1 : mm[k] = j
  <2>1. CASE j = n + 1
    BY <1>1, <1>3, <2>1
  <2>2. CASE j \in 1 .. n
    <3>1. (\E k \in 1 .. l : mm[k] = j) <=> seq[j] \notin gone
      BY <1>2, <1>3, <2>2
    <3>2. mm[l + 1] # j
      BY <1>3, <2>2
    <3>3. (\E k \in 1 .. l + 1 : mm[k] = j) <=> (\E k \in 1 .. l : mm[k] = j)
      BY <1>1, <1>5, <3>2
    <3> QED
      BY <3>1, <3>3
  <2> QED
    BY <2>1, <2>2
<1>9. Embeds(mm, more, seq, n + 1, gone)
  BY <1>1, <1>4, <1>6, <1>7, <1>8 DEF Embeds
<1> QED
  BY <1>9 DEF more

LEMMA WithoutEmbeds ==
    ASSUME NEW T, NEW seq \in Seq(T), NEW gone
    PROVE  /\ Without(seq, gone) \in Seq(T)
           /\ \E m : Embeds(m, Without(seq, gone), seq, Len(seq), gone)
<1> DEFINE g == CHOOSE g : Kept(seq, gone, g)
<1>1. Without(seq, gone) = g[Len(seq)]
  BY DEF Without, Kept, KeptStep
<1>2. Len(seq) \in Nat /\ \A i \in 0 .. Len(seq) : g[i] = KeptStep(seq, gone, g, i)
  <2>1. Kept(seq, gone, g)
    BY KeptExists
  <2> HIDE DEF g
  <2> QED
    BY <2>1 DEF Kept
<1> HIDE DEF g
<1> DEFINE N == {i \in Nat : i <= Len(seq) =>
                    g[i] \in Seq(T) /\ \E m : Embeds(m, g[i], seq, i, gone)}
<1>3. 0 \in N
  <2>1. g[0] = <<>>
    BY <1>2 DEF KeptStep
  <2>2. Embeds(<<>>, <<>>, seq, 0, gone)
    BY DEF Embeds
  <2>3. <<>> \in Seq(T)
    OBVIOUS
  <2> QED
    BY <2>1, <2>2, <2>3
<1>4. ASSUME NEW i \in Nat, i \in N, i + 1 <= Len(seq)
      PROVE  g[i + 1] \in Seq(T) /\ \E m : Embeds(m, g[i + 1], seq, i + 1, gone)
  <2>1. g[i] \in Seq(T)
    BY <1>2, <1>4
  <2>2. PICK m : Embeds(m, g[i], seq, i, gone)
    BY <1>2, <1>4
  <2>3. seq[i + 1] \in T
    BY <1>4
  <2>4. g[i + 1] = KeptStep(seq, gone, g, i + 1)
    BY <1>2, <1>4
  <2>5. i + 1 # 0 /\ (i + 1) - 1 = i
    OBVIOUS
  <2>6. CASE seq[i + 1] \in gone
    <3>1. g[i + 1] = g[i]
      BY <2>4, <2>5, <2>6 DEF KeptStep
    <3>2. Embeds(m, g[i], seq, i + 1, gone)
      <4>1. Len(g[i]) \in Nat
        BY <2>1
      <4> QED
        BY <2>2, <2>6, <4>1 DEF Embeds
    <3> QED
      BY <2>1, <3>1, <3>2
  <2>7. CASE seq[i + 1] \notin gone
    <3>1. g[i + 1] = Append(g[i], seq[i + 1])
      BY <2>4, <2>5, <2>7 DEF KeptStep
    <3>2. Append(g[i], seq[i + 1]) \in Seq(T)
      BY <2>1, <2>3
    <3> QED
      BY <2>1, <2>2, <2>3, <2>7, <3>1, <3>2, EmbedsAppend
  <2> QED
    BY <2>6, <2>7
<1>5. ASSUME NEW i \in Nat, i \in N PROVE i + 1 \in N
  <2>1. CASE i + 1 <= Len(seq)
    <3>1. g[i + 1] \in Seq(T) /\ \E m : Embeds(m, g[i + 1], seq, i + 1, gone)
      BY <1>4, <1>5, <2>1
    <3> QED
      BY <3>1
  <2>2. CASE ~(i + 1 <= Len(seq))
    BY <2>2
  <2> QED
    BY <2>1, <2>2
<1>6. Len(seq) \in N
  <2> HIDE DEF N
  <2> QED
    BY <1>2, <1>3, <1>5, NumberInduction
<1> QED
  BY <1>1, <1>2, <1>6

(* The list without some of its members lists the rest, in the same order.  *)
LEMMA ListsWithout ==
    ASSUME NEW T, NEW seq \in Seq(T), NEW S, Lists(seq, S), NEW gone
    PROVE  /\ Without(seq, gone) \in Seq(T)
           /\ Lists(Without(seq, gone), S \ gone)
<1> DEFINE new == Without(seq, gone)
<1>1. PICK m : Embeds(m, new, seq, Len(seq), gone)
  BY WithoutEmbeds
<1>2. new \in Seq(T)
  BY WithoutEmbeds
<1> HIDE DEF new
<1>3. /\ \A i, j \in 1 .. Len(seq) : seq[i] = seq[j] => i = j
      /\ \A i \in 1 .. Len(seq) : seq[i] \in S
      /\ \A y \in S : \E i \in 1 .. Len(seq) : seq[i] = y
      /\ Len(seq) \in Nat
  BY DEF Lists, ToSet, IsInjective
<1>4. DOMAIN new = 1 .. Len(new) /\ Len(new) \in Nat
  BY <1>2
<1>5. /\ \A k \in 1 .. Len(new) : m[k] \in 1 .. Len(seq) /\ new[k] = seq[m[k]]
      /\ \A k, l \in 1 .. Len(new) : k < l => m[k] < m[l]
      /\ \A j \in 1 .. Len(seq) : seq[j] \notin gone <=> \E k \in 1 .. Len(new) : m[k] = j
  BY <1>1 DEF Embeds
<1>6. ToSet(new) = S \ gone
  <2>1. ASSUME NEW k \in 1 .. Len(new) PROVE new[k] \in S \ gone
    BY <1>3, <1>5
  <2>2. ASSUME NEW y \in S \ gone PROVE \E k \in 1 .. Len(new) : new[k] = y
    <3>1. PICK j \in 1 .. Len(seq) : seq[j] = y
      BY <1>3
    <3>2. PICK k \in 1 .. Len(new) : m[k] = j
      BY <1>5, <3>1
    <3> QED
      BY <1>5, <3>1, <3>2
  <2> QED
    BY <1>4, <2>1, <2>2 DEF ToSet
<1>7. IsInjective(new)
  <2>1. ASSUME NEW k \in 1 .. Len(new), NEW l \in 1 .. Len(new), new[k] = new[l], k # l
        PROVE  FALSE
    <3>1. m[k] = m[l]
      BY <1>3, <1>5, <2>1
    <3>2. k < l \/ l < k
      BY <1>4, <2>1
    <3>3. m[k] < m[l] \/ m[l] < m[k]
      BY <1>5, <3>2
    <3>4. m[k] \in Int
      BY <1>3, <1>5
    <3> QED
      BY <3>1, <3>3, <3>4
  <2> QED
    BY <1>4, <2>1 DEF IsInjective
<1> QED
  BY <1>2, <1>6, <1>7 DEF Lists, new

LEMMA AscendingWithout ==
    ASSUME NEW seq \in Seq(Int), Ascending(seq), NEW gone
    PROVE  Ascending(Without(seq, gone))
<1> DEFINE new == Without(seq, gone)
<1>1. PICK m : Embeds(m, new, seq, Len(seq), gone)
  BY WithoutEmbeds
<1>2. new \in Seq(Int)
  BY WithoutEmbeds
<1> HIDE DEF new
<1>3. /\ \A k \in 1 .. Len(new) : m[k] \in 1 .. Len(seq) /\ new[k] = seq[m[k]]
      /\ \A k, l \in 1 .. Len(new) : k < l => m[k] < m[l]
  BY <1>1 DEF Embeds
<1>4. \A i, j \in 1 .. Len(seq) : i < j => seq[i] < seq[j]
  BY DEF Ascending
<1>5. \A k, l \in 1 .. Len(new) : k < l => new[k] < new[l]
  BY <1>3, <1>4
<1>6. DOMAIN new = 1 .. Len(new)
  BY <1>2
<1>7. Ascending(new)
  BY <1>5, <1>6 DEF Ascending
<1> QED
  BY <1>7 DEF new

(* Without its first entries a list is the rest of it.                      *)
LEMMA WithoutFirst ==
    ASSUME NEW T, NEW seq \in Seq(T), NEW gone, NEW k \in 0 .. Len(seq),
           \A j \in 1 .. Len(seq) : seq[j] \in gone <=> j <= k
    PROVE  Without(seq, gone) = SubSeq(seq, k + 1, Len(seq))
<1> DEFINE g == CHOOSE g : Kept(seq, gone, g)
           n == Len(seq)
<1>1. Without(seq, gone) = g[n]
  BY DEF Without, Kept, KeptStep
<1>2. n \in Nat /\ \A i \in 0 .. n : g[i] = KeptStep(seq, gone, g, i)
  <2>1. Len(seq) \in Nat
    OBVIOUS
  <2>2. \E h : Kept(seq, gone, h)
    BY <2>1, KeptExists
  <2>3. Kept(seq, gone, g)
    BY <2>2, Zenon
  <2> HIDE DEF g
  <2> QED
    BY <2>1, <2>3 DEF Kept
<1> HIDE DEF g
<1> DEFINE N == {i \in Nat : i <= n => g[i] = SubSeq(seq, k + 1, i)}
<1>3. 0 \in N
  <2>1. k + 1 \in Int /\ 0 < k + 1 /\ 0 \in 0 .. n
    BY <1>2
  <2>2. SubSeq(seq, k + 1, 0) = <<>>
    BY <2>1, SubSeqEmpty
  <2>3. g[0] = <<>>
    BY <1>2, <2>1 DEF KeptStep
  <2> QED
    BY <2>2, <2>3
<1>4. ASSUME NEW i \in Nat, i \in N PROVE i + 1 \in N
  <2> SUFFICES ASSUME i + 1 <= n PROVE g[i + 1] = SubSeq(seq, k + 1, i + 1)
    OBVIOUS
  <2>1. /\ g[i] = SubSeq(seq, k + 1, i)
        /\ i + 1 \in 0 .. n /\ i + 1 \in 1 .. n /\ i + 1 # 0 /\ (i + 1) - 1 = i /\ k \in Nat
    BY <1>2, <1>4
  <2>2. g[i + 1] = IF seq[i + 1] \in gone THEN g[i] ELSE Append(g[i], seq[i + 1])
    BY <1>2, <2>1 DEF KeptStep
  <2>3. CASE i + 1 <= k
    <3>1. seq[i + 1] \in gone
      BY <2>1, <2>3
    <3>2. i + 1 \in Int /\ k + 1 \in Int /\ i < k + 1 /\ i + 1 < k + 1
      BY <2>1, <2>3
    <3>3. SubSeq(seq, k + 1, i) = <<>> /\ SubSeq(seq, k + 1, i + 1) = <<>>
      BY <3>2, SubSeqEmpty
    <3> QED
      BY <2>1, <2>2, <3>1, <3>3
  <2>4. CASE ~(i + 1 <= k)
    <3>1. seq[i + 1] \notin gone /\ seq[i + 1] \in T
      BY <2>1, <2>4
    <3>2. k + 1 \in 1 .. Len(seq) /\ i + 1 \in k + 1 .. Len(seq)
      BY <1>2, <2>1, <2>4
    <3>3. SubSeq(seq, k + 1, i + 1) = SubSeq(seq, k + 1, i) \o <<seq[i + 1]>>
      BY <2>1, <3>2, SubSeqRecursiveSecond
    <3>4. SubSeq(seq, k + 1, i) \in Seq(T)
      <4>1. \A j \in k + 1 .. i : seq[j] \in T
        <5>1. \A j \in k + 1 .. i : j \in 1 .. Len(seq)
          BY <2>1
        <5> QED
          BY <5>1
      <4> QED
        BY <2>1, <4>1, SubSeqProperties
    <3>5. Append(SubSeq(seq, k + 1, i), seq[i + 1]) = SubSeq(seq, k + 1, i) \o <<seq[i + 1]>>
      BY <3>1, <3>4, AppendIsConcat
    <3> QED
      BY <2>1, <2>2, <3>1, <3>3, <3>5
  <2> QED
    BY <2>3, <2>4
<1>5. n \in N
  <2> HIDE DEF N
  <2> QED
    BY <1>2, <1>3, <1>4, NumberInduction
<1> QED
  BY <1>1, <1>2, <1>5

(* Two lists of different members make one; ascending if all members of the *)
(* second are greater.                                                      *)
LEMMA ListsConcat ==
    ASSUME NEW T, NEW one \in Seq(T), NEW two \in Seq(T), NEW S, NEW U,
           Lists(one, S), Lists(two, U), S \cap U = {}
    PROVE  one \o two \in Seq(T) /\ Lists(one \o two, S \cup U)
<1> DEFINE both == one \o two
           n == Len(one)
           m == Len(two)
<1>1. /\ both \in Seq(T) /\ Len(both) = n + m
      /\ \A i \in 1 .. n + m : both[i] = IF i <= n THEN one[i] ELSE two[i - n]
      /\ n \in Nat /\ m \in Nat
  BY ConcatProperties
<1>2. /\ \A i \in 1 .. n : one[i] \in S
      /\ \A x \in S : \E i \in 1 .. n : one[i] = x
      /\ \A i, j \in 1 .. n : one[i] = one[j] => i = j
  BY DEF Lists, ToSet, IsInjective
<1>3. /\ \A i \in 1 .. m : two[i] \in U
      /\ \A x \in U : \E i \in 1 .. m : two[i] = x
      /\ \A i, j \in 1 .. m : two[i] = two[j] => i = j
  BY DEF Lists, ToSet, IsInjective
<1> HIDE DEF both, n, m
<1>4. /\ DOMAIN both = 1 .. n + m
      /\ \A i \in 1 .. n : i \in 1 .. n + m /\ both[i] = one[i]
      /\ \A i \in 1 .. m : n + i \in 1 .. n + m /\ both[n + i] = two[i]
      /\ \A i \in 1 .. n + m : i \in 1 .. n \/ (i - n \in 1 .. m /\ i = n + (i - n))
  <2>1. DOMAIN both = 1 .. n + m
    BY <1>1
  <2>2. \A i \in 1 .. n : i \in 1 .. n + m /\ both[i] = one[i]
    BY <1>1
  <2>3. ASSUME NEW i \in 1 .. m PROVE n + i \in 1 .. n + m /\ both[n + i] = two[i]
    <3>1. n + i \in 1 .. n + m /\ ~(n + i <= n) /\ (n + i) - n = i
      BY <1>1
    <3> QED
      BY <1>1, <3>1
  <2>4. \A i \in 1 .. n + m : i \in 1 .. n \/ (i - n \in 1 .. m /\ i = n + (i - n))
    BY <1>1
  <2> QED
    BY <2>1, <2>2, <2>3, <2>4
<1>5. ToSet(both) = S \cup U
  <2>1. \A i \in 1 .. n + m : both[i] \in S \cup U
    BY <1>2, <1>3, <1>4
  <2>2. \A x \in S \cup U : \E i \in 1 .. n + m : both[i] = x
    BY <1>2, <1>3, <1>4
  <2> QED
    BY <1>4, <2>1, <2>2 DEF ToSet
<1>6. ASSUME NEW i \in 1 .. n + m, NEW j \in 1 .. n + m, both[i] = both[j] PROVE i = j
  <2>1. CASE i \in 1 .. n /\ j \in 1 .. n
    BY <1>2, <1>4, <1>6, <2>1
  <2>2. CASE i \in 1 .. n /\ j \notin 1 .. n
    BY <1>2, <1>3, <1>4, <1>6, <2>2
  <2>3. CASE i \notin 1 .. n /\ j \in 1 .. n
    BY <1>2, <1>3, <1>4, <1>6, <2>3
  <2>4. CASE i \notin 1 .. n /\ j \notin 1 .. n
    <3>1. /\ i - n \in 1 .. m /\ i = n + (i - n) /\ j - n \in 1 .. m /\ j = n + (j - n)
      BY <1>4, <2>4
    <3>2. two[i - n] = two[j - n]
      BY <1>4, <1>6, <3>1
    <3>3. i - n = j - n
      BY <1>3, <3>1, <3>2
    <3> QED
      BY <3>1, <3>3
  <2> QED
    BY <2>1, <2>2, <2>3, <2>4
<1>7. IsInjective(both)
  BY <1>4, <1>6 DEF IsInjective
<1> QED
  BY <1>1, <1>5, <1>7 DEF Lists, both

(* The same, in ascending order.                                            *)
LEMMA AscendingConcat ==
    ASSUME NEW one \in Seq(Int), NEW two \in Seq(Int), Ascending(one), Ascending(two),
           \A i \in 1 .. Len(one), j \in 1 .. Len(two) : one[i] < two[j]
    PROVE  Ascending(one \o two)
<1> DEFINE both == one \o two
           n == Len(one)
           m == Len(two)
<1>1. /\ both \in Seq(Int) /\ Len(both) = n + m
      /\ \A i \in 1 .. n + m : both[i] = IF i <= n THEN one[i] ELSE two[i - n]
      /\ n \in Nat /\ m \in Nat
  BY ConcatProperties
<1>2. /\ \A i, j \in 1 .. n : i < j => one[i] < one[j]
      /\ \A i, j \in 1 .. m : i < j => two[i] < two[j]
      /\ \A i \in 1 .. n, j \in 1 .. m : one[i] < two[j]
  BY DEF Ascending
<1> HIDE DEF both, n, m
<1>3. ASSUME NEW i \in 1 .. n + m, NEW j \in 1 .. n + m, i < j PROVE both[i] < both[j]
  <2>1. CASE j <= n
    <3>1. i \in 1 .. n /\ j \in 1 .. n
      BY <1>1, <1>3, <2>1
    <3>2. both[i] = one[i] /\ both[j] = one[j]
      BY <1>1, <3>1
    <3> QED
      BY <1>2, <1>3, <3>1, <3>2
  <2>2. CASE i <= n /\ ~(j <= n)
    <3>1. i \in 1 .. n /\ j - n \in 1 .. m
      BY <1>1, <2>2
    <3>2. both[i] = one[i] /\ both[j] = two[j - n]
      BY <1>1, <2>2
    <3>3. one[i] < two[j - n]
      BY <1>2, <3>1
    <3> QED
      BY <3>2, <3>3
  <2>3. CASE ~(i <= n) /\ ~(j <= n)
    <3>1. i - n \in 1 .. m /\ j - n \in 1 .. m /\ i - n < j - n
      BY <1>1, <1>3, <2>3
    <3>2. both[i] = two[i - n] /\ both[j] = two[j - n]
      BY <1>1, <2>3
    <3> QED
      BY <1>2, <3>1, <3>2
  <2>4. i <= n \/ ~(i <= n)
    OBVIOUS
  <2>5. ~(i <= n) => ~(j <= n)
    BY <1>1, <1>3
  <2> QED
    BY <2>1, <2>2, <2>3, <2>5
<1>4. Ascending(both)
  <2>1. DOMAIN both = 1 .. n + m
    BY <1>1
  <2> QED
    BY <1>3, <2>1 DEF Ascending
<1> QED
  BY <1>4 DEF both

(***************************************************************************)
(* Reading a list in pages.                                                *)
(***************************************************************************)

(* A page and what follows it.                                              *)
LEMMA PageAndRest ==
    ASSUME NEW T, NEW seq \in Seq(T), NEW o \in 0 .. Len(seq), NEW m \in o .. Len(seq)
    PROVE  SubSeq(seq, o + 1, Len(seq))
             = SubSeq(seq, o + 1, m)
                 \o (IF m = Len(seq) THEN <<>> ELSE SubSeq(seq, m + 1, Len(seq)))
<1>1. SubSeq(seq, o + 1, m) \o SubSeq(seq, m + 1, Len(seq)) = SubSeq(seq, o + 1, Len(seq))
  <2>1. /\ Len(seq) \in Nat /\ o + 1 \in 1 .. Len(seq) + 1 /\ m \in (o + 1) - 1 .. Len(seq)
        /\ Len(seq) \in m .. Len(seq)
    OBVIOUS
  <2> QED
    BY <2>1, ConcatAdjacentSubSeq
<1>2. m = Len(seq) => SubSeq(seq, m + 1, Len(seq)) = <<>>
  <2>1. Len(seq) + 1 \in Int /\ Len(seq) \in Int /\ Len(seq) < Len(seq) + 1
    OBVIOUS
  <2> QED
    BY <2>1, SubSeqEmpty
<1> QED
  BY <1>1, <1>2

(* What reads on from the end of each page until the last reads all.        *)
LEMMA PagesRead ==
    ASSUME NEW T, NEW seq \in Seq(T), NEW end, NEW read,
           \A o \in 0 .. Len(seq) - 1 :
              /\ end[o] \in o + 1 .. Len(seq)
              /\ read[o] = SubSeq(seq, o + 1, end[o])
                             \o (IF end[o] = Len(seq) THEN <<>> ELSE read[end[o]])
    PROVE  \A o \in 0 .. Len(seq) - 1 : read[o] = SubSeq(seq, o + 1, Len(seq))
<1> DEFINE Wrong(o) == read[o] # SubSeq(seq, o + 1, Len(seq))
           B == {n \in Nat : \E o \in 0 .. Len(seq) - 1 : n = Len(seq) - o /\ Wrong(o)}
<1>1. SUFFICES ASSUME B # {} PROVE FALSE
  <2>1. Len(seq) \in Nat
    OBVIOUS
  <2>2. \A o \in 0 .. Len(seq) - 1 : Len(seq) - o \in Nat
    BY <2>1
  <2> QED
    BY <2>2
<1>2. PICK n \in B : \A k \in B : n <= k
  <2>1. B \in SUBSET Nat
    OBVIOUS
  <2> HIDE DEF B
  <2> QED
    BY <1>1, <2>1, LeastNumber
<1>3. PICK o \in 0 .. Len(seq) - 1 : n = Len(seq) - o /\ Wrong(o)
  BY <1>2
<1>4. Len(seq) \in Nat /\ end[o] \in o + 1 .. Len(seq) /\ o \in 0 .. Len(seq)
  OBVIOUS
<1>5. end[o] # Len(seq) => ~Wrong(end[o])
  <2> SUFFICES ASSUME end[o] # Len(seq), Wrong(end[o]) PROVE FALSE
    OBVIOUS
  <2>1. PICK e, l : e = end[o] /\ l = Len(seq)
    OBVIOUS
  <2>2. l \in Nat /\ o \in 0 .. l - 1 /\ e \in o + 1 .. l /\ e # l /\ n = l - o
    BY <1>3, <1>4, <2>1
  <2>3. e \in 0 .. l - 1 /\ l - e \in Nat /\ l - e < n /\ n \in Int
    BY ONLY <2>2
  <2>4. l - e \in B
    BY <2>1, <2>3
  <2> HIDE DEF B
  <2> QED
    BY <1>2, <2>3, <2>4
<1>6. end[o] \in o .. Len(seq)
  BY <1>4
<1>7. SubSeq(seq, o + 1, Len(seq))
        = SubSeq(seq, o + 1, end[o])
            \o (IF end[o] = Len(seq) THEN <<>> ELSE SubSeq(seq, end[o] + 1, Len(seq)))
  BY <1>4, <1>6, PageAndRest
<1> QED
  BY <1>3, <1>5, <1>7

(* A page that starts within the list and has an end is not empty.          *)
LEMMA PageNotEmpty ==
    ASSUME NEW T, NEW seq \in Seq(T), NEW o \in 0 .. Len(seq), NEW m \in o .. Len(seq)
    PROVE  /\ SubSeq(seq, o + 1, m) \in Seq(T)
           /\ Len(SubSeq(seq, o + 1, m)) = m - o
           /\ \A i \in 1 .. m - o : SubSeq(seq, o + 1, m)[i] = seq[o + i]
           /\ SubSeq(seq, o + 1, m) = <<>> <=> m = o
<1>1. \A i \in o + 1 .. m : seq[i] \in T
  <2>1. \A i \in 1 .. Len(seq) : seq[i] \in T
    OBVIOUS
  <2> QED
    BY <2>1
<1>2. /\ o \in Int /\ m \in Int /\ o + 1 \in Int /\ m - (o + 1) + 1 = m - o
      /\ ~(o + 1 <= m) => m - o = 0
  OBVIOUS
<1> DEFINE page == SubSeq(seq, o + 1, m)
<1>3. /\ page \in Seq(T)
      /\ Len(page) = IF o + 1 <= m THEN m - (o + 1) + 1 ELSE 0
      /\ \A i \in 1 .. m - (o + 1) + 1 : page[i] = seq[o + 1 + i - 1]
  BY <1>1, <1>2, SubSeqProperties
<1>4. \A i \in 1 .. m - o : o + 1 + i - 1 = o + i
  OBVIOUS
<1> HIDE DEF page
<1>5. Len(page) = m - o
  BY <1>2, <1>3
<1>6. \A i \in 1 .. m - o : page[i] = seq[o + i]
  BY <1>2, <1>3, <1>4
<1>7. page = <<>> <=> m = o
  BY <1>2, <1>3, <1>5
<1> QED
  BY <1>3, <1>5, <1>6, <1>7 DEF page

(* Reading from the end of one page to the next, as long as there is one.   *)
EndOf(seq, size, o) == IF o + size <= Len(seq) THEN o + size ELSE Len(seq)
PageOf(seq, size, o) == SubSeq(seq, o + 1, EndOf(seq, size, o))
Reads(seq, size, read) ==
    read = [o \in 0 .. Len(seq) |->
              IF PageOf(seq, size, o) = <<>> THEN PageOf(seq, size, o)
              ELSE PageOf(seq, size, o) \o read[o + Len(PageOf(seq, size, o))]]

(* A page is empty only at the end of the list.                             *)
LEMMA PageOfLen ==
    ASSUME NEW T, NEW seq \in Seq(T), NEW size \in Nat, size # 0, NEW o \in 0 .. Len(seq)
    PROVE  /\ EndOf(seq, size, o) \in o .. Len(seq)
           /\ EndOf(seq, size, o) = o <=> o = Len(seq)
           /\ PageOf(seq, size, o) = SubSeq(seq, o + 1, EndOf(seq, size, o))
           /\ o + Len(PageOf(seq, size, o)) = EndOf(seq, size, o)
           /\ PageOf(seq, size, o) = <<>> <=> o = Len(seq)
<1> DEFINE end == EndOf(seq, size, o)
<1>1. /\ end \in o .. Len(seq) /\ (end = o <=> o = Len(seq))
      /\ o \in Nat /\ end \in Nat /\ Len(seq) \in Nat
  BY DEF EndOf
<1> HIDE DEF end
<1>2. /\ Len(SubSeq(seq, o + 1, end)) = end - o
      /\ SubSeq(seq, o + 1, end) = <<>> <=> end = o
  BY <1>1, PageNotEmpty
<1>3. o + (end - o) = end
  BY <1>1
<1> QED
  BY <1>1, <1>2, <1>3 DEF PageOf, end

(* The reader exists and gets the whole list.                               *)
LEMMA PagesReadAll ==
    ASSUME NEW T, NEW seq \in Seq(T), NEW size \in Nat, size # 0
    PROVE  /\ \E read : Reads(seq, size, read)
           /\ \A read : Reads(seq, size, read) => read[0] = seq
<1> DEFINE n == Len(seq)
           end == [o \in 0 .. n |-> EndOf(seq, size, o)]
<1>1. /\ n \in Nat
      /\ \A o \in 0 .. n :
            /\ end[o] \in o .. n /\ (end[o] = o <=> o = n)
            /\ PageOf(seq, size, o) = SubSeq(seq, o + 1, end[o])
            /\ o + Len(PageOf(seq, size, o)) = end[o]
            /\ PageOf(seq, size, o) = <<>> <=> o = n
  <2>1. n \in Nat
    OBVIOUS
  <2>2. ASSUME NEW o \in 0 .. n
        PROVE  /\ end[o] \in o .. n /\ (end[o] = o <=> o = n)
               /\ PageOf(seq, size, o) = SubSeq(seq, o + 1, end[o])
               /\ o + Len(PageOf(seq, size, o)) = end[o]
               /\ PageOf(seq, size, o) = <<>> <=> o = n
    BY PageOfLen
  <2> QED
    BY <2>1, <2>2
<1> HIDE DEF end
<1>2. \E read : Reads(seq, size, read)
  <2> DEFINE read == [o \in 0 .. n |-> IF o = n THEN <<>> ELSE SubSeq(seq, o + 1, n)]
  <2>1. ASSUME NEW o \in 0 .. n, o # n
        PROVE  read[o] = PageOf(seq, size, o) \o read[end[o]]
    <3>1. SubSeq(seq, o + 1, n) = SubSeq(seq, o + 1, end[o])
            \o (IF end[o] = n THEN <<>> ELSE SubSeq(seq, end[o] + 1, n))
      BY <1>1, PageAndRest
    <3>2. end[o] \in 0 .. n
      BY <1>1
    <3> QED
      BY <1>1, <2>1, <3>1, <3>2
  <2>2. ASSUME NEW o \in 0 .. n
        PROVE  read[o] = IF PageOf(seq, size, o) = <<>> THEN PageOf(seq, size, o)
                         ELSE PageOf(seq, size, o) \o read[o + Len(PageOf(seq, size, o))]
    <3>1. CASE o = n
      BY <1>1, <3>1
    <3>2. CASE o # n
      BY <1>1, <2>1, <3>2
    <3> QED
      BY <3>1, <3>2
  <2>3. Reads(seq, size, read)
    BY <2>2 DEF Reads
  <2> QED
    BY <2>3
<1>3. ASSUME NEW read, Reads(seq, size, read) PROVE read[0] = seq
  <2>1. \A o \in 0 .. n :
            read[o] = IF PageOf(seq, size, o) = <<>> THEN PageOf(seq, size, o)
                      ELSE PageOf(seq, size, o) \o read[o + Len(PageOf(seq, size, o))]
    BY <1>3 DEF Reads
  <2>2. read[n] = <<>>
    <3>1. n \in 0 .. n
      BY <1>1
    <3> QED
      BY <1>1, <2>1, <3>1
  <2>3. ASSUME NEW o \in 0 .. n - 1
        PROVE  /\ end[o] \in o + 1 .. n
               /\ read[o] = SubSeq(seq, o + 1, end[o])
                              \o (IF end[o] = n THEN <<>> ELSE read[end[o]])
    <3>1. o \in 0 .. n /\ o # n
      BY <1>1
    <3>2. /\ end[o] \in o .. n /\ end[o] # o
          /\ PageOf(seq, size, o) = SubSeq(seq, o + 1, end[o])
          /\ o + Len(PageOf(seq, size, o)) = end[o]
          /\ PageOf(seq, size, o) # <<>>
      BY <1>1, <3>1
    <3>3. end[o] \in o + 1 .. n
      BY <3>1, <3>2
    <3> QED
      BY <2>1, <2>2, <3>1, <3>2, <3>3
  <2>4. CASE n = 0
    BY <2>2, <2>4
  <2>5. CASE n # 0
    <3>1. 0 \in 0 .. n - 1
      BY <1>1, <2>5
    <3>2. read[0] = SubSeq(seq, 0 + 1, n)
      BY <2>3, <3>1, PagesRead
    <3> QED
      BY <3>2, SubSeqFull
  <2> QED
    BY <2>4, <2>5
<1> QED
  BY <1>2, <1>3
=============================================================================
