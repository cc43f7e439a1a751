----------------------------- MODULE SumLemmas -----------------------------
(***************************************************************************)
(* What the sum of a function over a finite set is worth: the books of the *)
(* bond shell, the ladders and the vault's migration are such sums.        *)
(*                                                                         *)
(* SumFunctionOnSet folds over a choice of the elements, so every fact     *)
(* here is an induction.  The induction principles are stated over a set   *)
(* of numbers or of sets, those for which the fact holds: that is a first- *)
(* order statement, and follows from the well-foundedness of the naturals. *)
(***************************************************************************)
EXTENDS Integers, FiniteSets, Functions, WellFoundedInduction, FiniteSetTheorems, TLAPS

---------------------------------------------------------------------------
(* Induction.                                                               *)

(* A set of naturals that is not empty has a least element.                 *)
LEMMA LeastElement ==
    ASSUME NEW T \in SUBSET Nat, T # {}
    PROVE  \E n \in T : \A m \in T : n <= m
<1>1. IsWellFoundedOn(OpToRel(<, Nat), Nat)
  BY NatLessThanWellFounded
<1>2. \E n \in T : \A m \in T : ~(<<m, n>> \in OpToRel(<, Nat))
  BY <1>1, WFMin
<1>3. \E n \in T : \A m \in T : ~(m < n)
  BY <1>2 DEF OpToRel
<1> QED
  BY <1>3

(* A set of naturals that holds 0 and every successor is all of them.       *)
LEMMA Counting ==
    ASSUME NEW G, 0 \in G, \A n \in Nat : n \in G => n + 1 \in G
    PROVE  \A n \in Nat : n \in G
<1> SUFFICES ASSUME NEW b \in Nat, b \notin G PROVE FALSE
  OBVIOUS
<1> DEFINE T == {n \in Nat : n \notin G}
<1>1. PICK n \in T : \A m \in T : n <= m
  <2>1. T \in SUBSET Nat /\ b \in T
    OBVIOUS
  <2> HIDE DEF T
  <2> QED
    BY <2>1, LeastElement
<1>2. n # 0 /\ n \in Nat
  OBVIOUS
<1>3. n - 1 \in Nat /\ n - 1 \notin T
  BY <1>1, <1>2
<1>4. n - 1 \in G /\ n = (n - 1) + 1
  BY <1>2, <1>3
<1> QED
  BY <1>3, <1>4

(* What holds of a set once it holds of the set less any one element, holds *)
(* of every finite set.                                                     *)
LEMMA SetInductionDown ==
    ASSUME NEW S, IsFiniteSet(S), NEW G,
           \A A \in SUBSET S : (\A x \in A : A \ {x} \in G) => A \in G
    PROVE  S \in G
<1> DEFINE N == {n \in Nat : \A A \in SUBSET S : Cardinality(A) <= n => A \in G}
<1>f. \A A \in SUBSET S : IsFiniteSet(A) /\ Cardinality(A) \in Nat
  BY FS_Subset, FS_CardinalityType
<1>r. \A A \in SUBSET S : \A x \in A : Cardinality(A \ {x}) = Cardinality(A) - 1
  BY <1>f, FS_RemoveElement
<1>1. 0 \in N
  <2> SUFFICES ASSUME NEW A \in SUBSET S, Cardinality(A) <= 0 PROVE A \in G
    OBVIOUS
  <2>1. \A x \in A : FALSE
    <3> SUFFICES ASSUME NEW x \in A PROVE FALSE
      OBVIOUS
    <3>1. A \ {x} \in SUBSET S
      OBVIOUS
    <3>2. Cardinality(A) \in Nat /\ Cardinality(A \ {x}) \in Nat
      BY <1>f, <3>1
    <3>3. Cardinality(A \ {x}) = Cardinality(A) - 1
      BY <1>r
    <3> QED
      BY <3>2, <3>3
  <2>2. A = {}
    BY <2>1
  <2> QED
    BY <2>2
<1>2. \A n \in Nat : n \in N => n + 1 \in N
  <2> SUFFICES ASSUME NEW n \in Nat, n \in N,
                      NEW A \in SUBSET S, Cardinality(A) <= n + 1
               PROVE  A \in G
    OBVIOUS
  <2>1. \A x \in A : A \ {x} \in G
    <3> SUFFICES ASSUME NEW x \in A PROVE A \ {x} \in G
      OBVIOUS
    <3>1. A \ {x} \in SUBSET S
      OBVIOUS
    <3>2. Cardinality(A \ {x}) <= n
      BY <1>f, <1>r
    <3> QED
      BY <3>1, <3>2
  <2> QED
    BY <2>1
<1> HIDE DEF N
<1>3. Cardinality(S) \in N
  BY <1>1, <1>2, <1>f, Counting
<1> QED
  BY <1>3, <1>f DEF N

(* What holds of the empty set and survives an addition holds of every      *)
(* finite set.                                                              *)
LEMMA SetInduction ==
    ASSUME NEW S, IsFiniteSet(S), NEW G, {} \in G,
           \A A \in SUBSET S : \A x \in S \ A : A \in G => A \cup {x} \in G
    PROVE  S \in G
<1>1. \A A \in SUBSET S : (\A x \in A : A \ {x} \in G) => A \in G
  <2> SUFFICES ASSUME NEW A \in SUBSET S, \A x \in A : A \ {x} \in G PROVE A \in G
    OBVIOUS
  <2>1. CASE A = {}
    BY <2>1
  <2>2. CASE A # {}
    <3>1. PICK x \in A : TRUE
      BY <2>2
    <3>2. A \ {x} \in SUBSET S /\ x \in S \ (A \ {x}) /\ A = (A \ {x}) \cup {x}
      OBVIOUS
    <3> QED
      BY <3>1, <3>2
  <2> QED
    BY <2>1, <2>2
<1> QED
  BY <1>1, SetInductionDown

---------------------------------------------------------------------------
(* The sum is defined.                                                      *)

Pick(s) == CHOOSE x \in s : TRUE

\* g adds f up over the subsets of S.
Adds(g, f, S) == g = [s \in SUBSET S |-> IF s = {} THEN 0 ELSE f[Pick(s)] + g[s \ {Pick(s)}]]

LEMMA SumIs ==
    ASSUME NEW f, NEW S
    PROVE  SumFunctionOnSet(f, S) = (CHOOSE g : Adds(g, f, S))[S]
BY DEF SumFunctionOnSet, FoldFunctionOnSet, MapThenFoldSet, Adds, Pick

LEMMA PickIsIn ==
    ASSUME NEW s, s # {}
    PROVE  Pick(s) \in s
BY DEF Pick

(* A recursive sum exists: one for the sets of n + 1 elements is made of    *)
(* one for the sets of n.                                                   *)
LEMMA AddsExists ==
    ASSUME NEW f, NEW S, IsFiniteSet(S)
    PROVE  \E g : Adds(g, f, S)
<1> DEFINE Small(n) == {A \in SUBSET S : Cardinality(A) <= n}
           Right(g, s) == g[s] = IF s = {} THEN 0 ELSE f[Pick(s)] + g[s \ {Pick(s)}]
           Next(g) == [s \in SUBSET S |-> IF s = {} THEN 0 ELSE f[Pick(s)] + g[s \ {Pick(s)}]]
           G == {n \in Nat : \E g : \A s \in Small(n) : Right(g, s)}
<1>f. \A A \in SUBSET S : IsFiniteSet(A) /\ Cardinality(A) \in Nat
  BY FS_Subset, FS_CardinalityType
<1>r. \A A \in SUBSET S : A # {} =>
          /\ A \ {Pick(A)} \in SUBSET S
          /\ Cardinality(A \ {Pick(A)}) = Cardinality(A) - 1
  BY <1>f, FS_RemoveElement, PickIsIn
<1>1. 0 \in G
  <2>1. \A s \in Small(0) : s = {}
    <3> SUFFICES ASSUME NEW s \in SUBSET S, Cardinality(s) <= 0, s # {} PROVE FALSE
      OBVIOUS
    <3>1. s \ {Pick(s)} \in SUBSET S /\ Cardinality(s \ {Pick(s)}) = Cardinality(s) - 1
      BY <1>r
    <3>2. Cardinality(s) \in Nat /\ Cardinality(s \ {Pick(s)}) \in Nat
      BY <1>f, <3>1
    <3> QED
      BY <3>1, <3>2
  <2>2. \A s \in Small(0) : Right([t \in SUBSET S |-> 0], s)
    BY <2>1
  <2> QED
    BY <2>2
<1>2. \A n \in Nat : n \in G => n + 1 \in G
  <2> SUFFICES ASSUME NEW n \in Nat, n \in G PROVE n + 1 \in G
    OBVIOUS
  <2>1. PICK g : \A s \in Small(n) : Right(g, s)
    OBVIOUS
  <2>2. \A s \in Small(n + 1) : s # {} => s \ {Pick(s)} \in Small(n)
    BY <1>f, <1>r
  <2>3. \A s \in Small(n + 1) : Right(Next(g), s)
    <3> SUFFICES ASSUME NEW s \in Small(n + 1) PROVE Right(Next(g), s)
      OBVIOUS
    <3>1. CASE s = {}
      BY <3>1
    <3>2. CASE s # {}
      <4> DEFINE r == s \ {Pick(s)}
      <4>1. r \in Small(n) /\ r \in SUBSET S
        BY <2>2, <3>2, <1>r
      <4>2. Next(g)[r] = g[r]
        BY <2>1, <4>1
      <4>3. Next(g)[s] = f[Pick(s)] + g[r]
        BY <3>2
      <4> QED
        BY <4>2, <4>3, <3>2
    <3> QED
      BY <3>1, <3>2
  <2>4. PICK k : k = Next(g)
    OBVIOUS
  <2>5. \A s \in Small(n + 1) : Right(k, s)
    BY <2>3, <2>4
  <2> HIDE DEF Right, Small
  <2> QED
    BY <2>5
<1> HIDE DEF G
<1>3. Cardinality(S) \in G
  BY <1>1, <1>2, <1>f, Counting
<1>4. PICK g : \A s \in Small(Cardinality(S)) : Right(g, s)
  BY <1>3 DEF G
<1>5. \A s \in SUBSET S : Cardinality(s) <= Cardinality(S)
  BY FS_Subset
<1>6. \A s \in SUBSET S : Right(g, s)
  BY <1>4, <1>5
<1>7. Adds([s \in SUBSET S |-> g[s]], f, S)
  <2> DEFINE h == [s \in SUBSET S |-> g[s]]
  <2>1. \A s \in SUBSET S : h[s] = IF s = {} THEN 0 ELSE f[Pick(s)] + h[s \ {Pick(s)}]
    BY <1>6, <1>r
  <2> QED
    BY <2>1 DEF Adds
<1> QED
  BY <1>7

(* Two recursive sums agree where both are defined.                         *)
LEMMA AddsAgree ==
    ASSUME NEW f, NEW S, IsFiniteSet(S), NEW T, T \subseteq S,
           NEW g, Adds(g, f, S), NEW h, Adds(h, f, T)
    PROVE  g[T] = h[T]
<1> DEFINE G == {A \in SUBSET T : g[A] = h[A]}
<1>1. IsFiniteSet(T)
  BY FS_Subset
<1>2. \A A \in SUBSET T : (\A x \in A : A \ {x} \in G) => A \in G
  <2> SUFFICES ASSUME NEW A \in SUBSET T, \A x \in A : A \ {x} \in G
               PROVE  g[A] = h[A]
    OBVIOUS
  <2>0. A \in SUBSET S
    OBVIOUS
  <2>1. g[A] = IF A = {} THEN 0 ELSE f[Pick(A)] + g[A \ {Pick(A)}]
    BY <2>0 DEF Adds
  <2>2. h[A] = IF A = {} THEN 0 ELSE f[Pick(A)] + h[A \ {Pick(A)}]
    BY DEF Adds
  <2>3. A # {} => g[A \ {Pick(A)}] = h[A \ {Pick(A)}]
    BY PickIsIn
  <2> QED
    BY <2>1, <2>2, <2>3
<1> HIDE DEF G
<1>3. T \in G
  BY <1>1, <1>2, SetInductionDown
<1> QED
  BY <1>3 DEF G

LEMMA SumEmpty ==
    ASSUME NEW f
    PROVE  SumFunctionOnSet(f, {}) = 0
<1> DEFINE g == CHOOSE g : Adds(g, f, {})
<1>1. Adds(g, f, {})
  BY AddsExists, FS_EmptySet
<1>2. g[{}] = 0
  BY <1>1 DEF Adds
<1> QED
  BY <1>2, SumIs

(* The sum takes out one element, the one it picks.                         *)
LEMMA SumPicks ==
    ASSUME NEW f, NEW S, IsFiniteSet(S), S # {}
    PROVE  SumFunctionOnSet(f, S) = f[Pick(S)] + SumFunctionOnSet(f, S \ {Pick(S)})
<1> DEFINE T == S \ {Pick(S)}
           g == CHOOSE g : Adds(g, f, S)
           h == CHOOSE h : Adds(h, f, T)
<1>0. IsFiniteSet(T)
  BY FS_Subset
<1>1. Adds(g, f, S)
  BY AddsExists
<1>2. Adds(h, f, T)
  BY AddsExists, <1>0
<1>3. SumFunctionOnSet(f, S) = g[S] /\ SumFunctionOnSet(f, T) = h[T]
  BY SumIs
<1>4. g[S] = f[Pick(S)] + g[T]
  BY <1>1 DEF Adds
<1>5. g[T] = h[T]
  <2>1. T \subseteq S
    OBVIOUS
  <2> HIDE DEF T, g, h
  <2> QED
    BY <1>1, <1>2, <2>1, AddsAgree
<1> QED
  BY <1>3, <1>4, <1>5

---------------------------------------------------------------------------
(* What the sum is worth.                                                   *)

LEMMA SumInt ==
    ASSUME NEW S, IsFiniteSet(S), NEW f, \A x \in S : f[x] \in Int
    PROVE  SumFunctionOnSet(f, S) \in Int
<1> DEFINE G == {A \in SUBSET S : SumFunctionOnSet(f, A) \in Int}
<1>1. \A A \in SUBSET S : (\A x \in A : A \ {x} \in G) => A \in G
  <2> SUFFICES ASSUME NEW A \in SUBSET S, \A x \in A : A \ {x} \in G
               PROVE  SumFunctionOnSet(f, A) \in Int
    OBVIOUS
  <2>1. CASE A = {}
    BY <2>1, SumEmpty
  <2>2. CASE A # {}
    <3>1. SumFunctionOnSet(f, A) = f[Pick(A)] + SumFunctionOnSet(f, A \ {Pick(A)})
      BY <2>2, SumPicks, FS_Subset
    <3> QED
      BY <2>2, <3>1, PickIsIn
  <2> QED
    BY <2>1, <2>2
<1> HIDE DEF G
<1>2. S \in G
  BY <1>1, SetInductionDown
<1> QED
  BY <1>2 DEF G

(* The order does not matter: any element may come out first.               *)
LEMMA SumTakesOut ==
    ASSUME NEW S, IsFiniteSet(S), NEW f, \A x \in S : f[x] \in Int, NEW x \in S
    PROVE  SumFunctionOnSet(f, S) = f[x] + SumFunctionOnSet(f, S \ {x})
<1> DEFINE Out(A) == \A y \in A :
               SumFunctionOnSet(f, A) = f[y] + SumFunctionOnSet(f, A \ {y})
           G == {A \in SUBSET S : Out(A)}
<1>i. \A A \in SUBSET S : IsFiniteSet(A) /\ SumFunctionOnSet(f, A) \in Int
  BY SumInt, FS_Subset
<1>1. \A A \in SUBSET S : (\A y \in A : A \ {y} \in G) => A \in G
  <2> SUFFICES ASSUME NEW A \in SUBSET S, \A y \in A : A \ {y} \in G, NEW y \in A
               PROVE  SumFunctionOnSet(f, A) = f[y] + SumFunctionOnSet(f, A \ {y})
    OBVIOUS
  <2> DEFINE z == Pick(A)
  <2>1. z \in A
    BY PickIsIn
  <2>2. SumFunctionOnSet(f, A) = f[z] + SumFunctionOnSet(f, A \ {z})
    BY <1>i, SumPicks
  <2>3. CASE y = z
    BY <2>2, <2>3
  <2>4. CASE y # z
    <3> DEFINE B == (A \ {z}) \ {y}
    <3>1. B = (A \ {y}) \ {z} /\ y \in A \ {z} /\ z \in A \ {y} /\ B \in SUBSET S
      BY <2>1, <2>4
    <3>2. SumFunctionOnSet(f, A \ {z}) = f[y] + SumFunctionOnSet(f, B)
      BY <2>1, <3>1
    <3>3. SumFunctionOnSet(f, A \ {y}) = f[z] + SumFunctionOnSet(f, B)
      BY <3>1
    <3>4. f[y] \in Int /\ f[z] \in Int /\ SumFunctionOnSet(f, B) \in Int
      BY <1>i, <2>1, <3>1
    <3> QED
      BY <2>2, <3>2, <3>3, <3>4
  <2> QED
    BY <2>3, <2>4
<1> HIDE DEF G
<1>2. S \in G
  BY <1>1, SetInductionDown
<1> QED
  BY <1>2 DEF G

LEMMA SumPutsIn ==
    ASSUME NEW S, IsFiniteSet(S), NEW f, NEW x, x \notin S,
           \A y \in S \cup {x} : f[y] \in Int
    PROVE  SumFunctionOnSet(f, S \cup {x}) = SumFunctionOnSet(f, S) + f[x]
<1> DEFINE U == S \cup {x}
<1>1. IsFiniteSet(U) /\ x \in U /\ U \ {x} = S /\ \A y \in U : f[y] \in Int
  BY FS_AddElement
<1>2. SumFunctionOnSet(f, S) \in Int
  BY SumInt
<1> HIDE DEF U
<1>3. SumFunctionOnSet(f, U) = f[x] + SumFunctionOnSet(f, U \ {x})
  BY <1>1, SumTakesOut
<1>4. SumFunctionOnSet(f, U \ {x}) = SumFunctionOnSet(f, S)
  BY <1>1, Zenon
<1>5. SumFunctionOnSet(f, U) = SumFunctionOnSet(f, S) + f[x]
  <2>1. f[x] \in Int
    BY <1>1
  <2> QED
    BY <2>1, <1>2, <1>3, <1>4
<1> QED
  BY <1>5 DEF U

(* The same, of a set described by what is in it.                           *)
LEMMA SumAdds ==
    ASSUME NEW S, IsFiniteSet(S), NEW U, NEW x, x \notin S,
           \A y : y \in U <=> y \in S \/ y = x,
           NEW f, \A y \in U : f[y] \in Int
    PROVE  SumFunctionOnSet(f, U) = SumFunctionOnSet(f, S) + f[x]
<1>1. U = S \cup {x}
  OBVIOUS
<1>2. \A y \in S \cup {x} : f[y] \in Int
  OBVIOUS
<1>3. SumFunctionOnSet(f, S \cup {x}) = SumFunctionOnSet(f, S) + f[x]
  BY <1>2, SumPutsIn
<1> QED
  BY <1>1, <1>3, Zenon

LEMMA SumGrows ==
    ASSUME NEW S, IsFiniteSet(S), NEW f, \A y \in S : f[y] \in Int,
           NEW A \in SUBSET S, NEW x \in S \ A
    PROVE  SumFunctionOnSet(f, A \cup {x}) = SumFunctionOnSet(f, A) + f[x]
<1>1. IsFiniteSet(A) /\ x \notin A /\ \A y \in A \cup {x} : f[y] \in Int
  BY FS_Subset
<1> QED
  BY <1>1, SumPutsIn

(* Only the values on the set matter.                                       *)
LEMMA SumSame ==
    ASSUME NEW S, IsFiniteSet(S), NEW f, NEW g, \A x \in S : f[x] = g[x]
    PROVE  SumFunctionOnSet(f, S) = SumFunctionOnSet(g, S)
<1> DEFINE G == {A \in SUBSET S : SumFunctionOnSet(f, A) = SumFunctionOnSet(g, A)}
<1>1. \A A \in SUBSET S : (\A x \in A : A \ {x} \in G) => A \in G
  <2> SUFFICES ASSUME NEW A \in SUBSET S, \A x \in A : A \ {x} \in G
               PROVE  SumFunctionOnSet(f, A) = SumFunctionOnSet(g, A)
    OBVIOUS
  <2>1. CASE A = {}
    BY <2>1, SumEmpty
  <2>2. CASE A # {}
    <3>1. Pick(A) \in A /\ IsFiniteSet(A)
      BY <2>2, PickIsIn, FS_Subset
    <3>2. SumFunctionOnSet(f, A) = f[Pick(A)] + SumFunctionOnSet(f, A \ {Pick(A)})
      BY <2>2, <3>1, SumPicks
    <3>3. SumFunctionOnSet(g, A) = g[Pick(A)] + SumFunctionOnSet(g, A \ {Pick(A)})
      BY <2>2, <3>1, SumPicks
    <3> QED
      BY <3>1, <3>2, <3>3
  <2> QED
    BY <2>1, <2>2
<1> HIDE DEF G
<1>2. S \in G
  BY <1>1, SetInductionDown
<1> QED
  BY <1>2 DEF G

(* A sum moves by what its terms move.                                      *)
LEMMA SumPlus ==
    ASSUME NEW S, IsFiniteSet(S), NEW f, NEW g, NEW h,
           \A x \in S : f[x] \in Int /\ g[x] \in Int /\ h[x] = f[x] + g[x]
    PROVE  SumFunctionOnSet(h, S) = SumFunctionOnSet(f, S) + SumFunctionOnSet(g, S)
<1> DEFINE G == {A \in SUBSET S :
               SumFunctionOnSet(h, A) = SumFunctionOnSet(f, A) + SumFunctionOnSet(g, A)}
<1>1. {} \in G
  BY SumEmpty
<1>2. \A A \in SUBSET S : \A x \in S \ A : A \in G => A \cup {x} \in G
  <2> SUFFICES ASSUME NEW A \in SUBSET S, NEW x \in S \ A, A \in G PROVE A \cup {x} \in G
    OBVIOUS
  <2>h. /\ \A y \in S : f[y] \in Int
        /\ \A y \in S : g[y] \in Int
        /\ \A y \in S : h[y] \in Int
    OBVIOUS
  <2>1. SumFunctionOnSet(f, A \cup {x}) = SumFunctionOnSet(f, A) + f[x]
    BY <2>h, SumGrows
  <2>2. SumFunctionOnSet(g, A \cup {x}) = SumFunctionOnSet(g, A) + g[x]
    BY <2>h, SumGrows
  <2>3. SumFunctionOnSet(h, A \cup {x}) = SumFunctionOnSet(h, A) + h[x]
    BY <2>h, SumGrows
  <2>4. SumFunctionOnSet(f, A) \in Int /\ SumFunctionOnSet(g, A) \in Int
    BY <2>h, SumInt, FS_Subset
  <2> QED
    BY <2>1, <2>2, <2>3, <2>4
<1> HIDE DEF G
<1>3. S \in G
  BY <1>1, <1>2, SetInduction
<1> QED
  BY <1>3 DEF G

LEMMA SumZero ==
    ASSUME NEW S, IsFiniteSet(S), NEW f, \A x \in S : f[x] = 0
    PROVE  SumFunctionOnSet(f, S) = 0
<1> DEFINE G == {A \in SUBSET S : SumFunctionOnSet(f, A) = 0}
<1>1. {} \in G
  BY SumEmpty
<1>2. \A A \in SUBSET S : \A x \in S \ A : A \in G => A \cup {x} \in G
  <2> SUFFICES ASSUME NEW A \in SUBSET S, NEW x \in S \ A, A \in G PROVE A \cup {x} \in G
    OBVIOUS
  <2>0. \A y \in S : f[y] \in Int
    OBVIOUS
  <2>1. SumFunctionOnSet(f, A \cup {x}) = SumFunctionOnSet(f, A) + f[x]
    BY <2>0, SumGrows
  <2>2. f[x] = 0 /\ SumFunctionOnSet(f, A) = 0
    OBVIOUS
  <2> QED
    BY <2>1, <2>2
<1> HIDE DEF G
<1>3. S \in G
  BY <1>1, <1>2, SetInduction
<1> QED
  BY <1>3 DEF G

LEMMA SumNat ==
    ASSUME NEW S, IsFiniteSet(S), NEW f, \A x \in S : f[x] \in Nat
    PROVE  SumFunctionOnSet(f, S) \in Nat
<1> DEFINE G == {A \in SUBSET S : SumFunctionOnSet(f, A) \in Nat}
<1>1. {} \in G
  BY SumEmpty
<1>2. \A A \in SUBSET S : \A x \in S \ A : A \in G => A \cup {x} \in G
  <2> SUFFICES ASSUME NEW A \in SUBSET S, NEW x \in S \ A, A \in G PROVE A \cup {x} \in G
    OBVIOUS
  <2>0. IsFiniteSet(A) /\ x \notin A /\ \A y \in A \cup {x} : f[y] \in Int
    BY FS_Subset
  <2>1. SumFunctionOnSet(f, A \cup {x}) = SumFunctionOnSet(f, A) + f[x]
    BY <2>0, SumPutsIn
  <2> QED
    BY <2>1
<1> HIDE DEF G
<1>3. S \in G
  BY <1>1, <1>2, SetInduction
<1> QED
  BY <1>3 DEF G

LEMMA SumAtMost ==
    ASSUME NEW S, IsFiniteSet(S), NEW f, NEW g,
           \A x \in S : f[x] \in Int /\ g[x] \in Int /\ f[x] <= g[x]
    PROVE  SumFunctionOnSet(f, S) <= SumFunctionOnSet(g, S)
<1> DEFINE d == [x \in S |-> g[x] - f[x]]
<1>1. \A x \in S : d[x] \in Nat /\ d[x] \in Int /\ g[x] = f[x] + d[x]
  OBVIOUS
<1> HIDE DEF d
<1>2. SumFunctionOnSet(g, S) = SumFunctionOnSet(f, S) + SumFunctionOnSet(d, S)
  BY <1>1, SumPlus
<1>3. SumFunctionOnSet(d, S) \in Nat /\ SumFunctionOnSet(f, S) \in Int
  BY <1>1, SumNat, SumInt
<1> QED
  BY <1>2, <1>3

LEMMA SumUnion ==
    ASSUME NEW S, IsFiniteSet(S), NEW T, IsFiniteSet(T), S \cap T = {},
           NEW f, \A x \in S \cup T : f[x] \in Int
    PROVE  SumFunctionOnSet(f, S \cup T) = SumFunctionOnSet(f, S) + SumFunctionOnSet(f, T)
<1> DEFINE G == {A \in SUBSET T :
               SumFunctionOnSet(f, S \cup A) = SumFunctionOnSet(f, S) + SumFunctionOnSet(f, A)}
<1>i. SumFunctionOnSet(f, S) \in Int
  BY SumInt
<1>1. {} \in G
  <2>1. S \cup {} = S
    OBVIOUS
  <2> QED
    BY <1>i, <2>1, SumEmpty
<1>2. \A A \in SUBSET T : \A x \in T \ A : A \in G => A \cup {x} \in G
  <2> SUFFICES ASSUME NEW A \in SUBSET T, NEW x \in T \ A, A \in G PROVE A \cup {x} \in G
    OBVIOUS
  <2>0. /\ IsFiniteSet(A) /\ IsFiniteSet(S \cup A)
        /\ x \notin A /\ x \notin S \cup A
        /\ \A y \in (S \cup A) \cup {x} : f[y] \in Int
        /\ \A y \in A \cup {x} : f[y] \in Int
    BY FS_Subset, FS_Union
  <2>u. (S \cup A) \cup {x} = S \cup (A \cup {x})
    OBVIOUS
  <2>1. SumFunctionOnSet(f, A \cup {x}) = SumFunctionOnSet(f, A) + f[x]
    BY <2>0, SumPutsIn
  <2>2. SumFunctionOnSet(f, (S \cup A) \cup {x}) = SumFunctionOnSet(f, S \cup A) + f[x]
    BY <2>0, SumPutsIn
  <2>3. SumFunctionOnSet(f, A) \in Int /\ f[x] \in Int
    BY <2>0, SumInt
  <2>4. SumFunctionOnSet(f, S \cup A) = SumFunctionOnSet(f, S) + SumFunctionOnSet(f, A)
    OBVIOUS
  <2>5. SumFunctionOnSet(f, (S \cup A) \cup {x})
            = SumFunctionOnSet(f, S) + SumFunctionOnSet(f, A \cup {x})
    BY <1>i, <2>1, <2>2, <2>3, <2>4
  <2> QED
    BY <2>5, <2>u
<1> HIDE DEF G
<1>3. T \in G
  BY <1>1, <1>2, SetInduction
<1> QED
  BY <1>3 DEF G

(* Terms that are zero may be left out.                                     *)
LEMMA SumOfPart ==
    ASSUME NEW S, IsFiniteSet(S), NEW T \in SUBSET S, NEW f,
           \A x \in S : f[x] \in Int, \A x \in S \ T : f[x] = 0
    PROVE  SumFunctionOnSet(f, S) = SumFunctionOnSet(f, T)
<1> DEFINE R == S \ T
<1>1. /\ IsFiniteSet(T) /\ IsFiniteSet(R) /\ T \cap R = {}
      /\ T \cup R = S /\ \A x \in R : f[x] = 0
  BY FS_Subset
<1>2. SumFunctionOnSet(f, T) \in Int
  BY <1>1, SumInt
<1> HIDE DEF R
<1>3. SumFunctionOnSet(f, T \cup R) = SumFunctionOnSet(f, T) + SumFunctionOnSet(f, R)
  BY <1>1, SumUnion
<1>4. SumFunctionOnSet(f, R) = 0
  BY <1>1, SumZero
<1>5. SumFunctionOnSet(f, T \cup R) = SumFunctionOnSet(f, S)
  BY <1>1, Zenon
<1> QED
  BY <1>2, <1>3, <1>4, <1>5

(* A sum of naturals is at least that of a part of them.                    *)
LEMMA SumOfPartAtMost ==
    ASSUME NEW S, IsFiniteSet(S), NEW T \in SUBSET S, NEW f, \A x \in S : f[x] \in Nat
    PROVE  SumFunctionOnSet(f, T) <= SumFunctionOnSet(f, S)
<1> DEFINE R == S \ T
<1>1. /\ IsFiniteSet(T) /\ IsFiniteSet(R) /\ T \cap R = {} /\ T \cup R = S
      /\ \A x \in T \cup R : f[x] \in Nat /\ f[x] \in Int
  BY FS_Subset
<1> HIDE DEF R
<1>2. SumFunctionOnSet(f, T \cup R) = SumFunctionOnSet(f, T) + SumFunctionOnSet(f, R)
  BY <1>1, SumUnion
<1>3. SumFunctionOnSet(f, T) \in Nat /\ SumFunctionOnSet(f, R) \in Nat
  BY <1>1, SumNat
<1>4. SumFunctionOnSet(f, T \cup R) = SumFunctionOnSet(f, S)
  BY <1>1, Zenon
<1> QED
  BY <1>2, <1>3, <1>4

(* A constant, as often as there are elements.                              *)
LEMMA SumConstant ==
    ASSUME NEW S, IsFiniteSet(S), NEW k \in Int, NEW f, \A x \in S : f[x] = k
    PROVE  SumFunctionOnSet(f, S) = Cardinality(S) * k
<1> DEFINE G == {A \in SUBSET S : SumFunctionOnSet(f, A) = Cardinality(A) * k}
<1>1. {} \in G
  BY SumEmpty, FS_EmptySet
<1>2. \A A \in SUBSET S : \A x \in S \ A : A \in G => A \cup {x} \in G
  <2> SUFFICES ASSUME NEW A \in SUBSET S, NEW x \in S \ A, A \in G PROVE A \cup {x} \in G
    OBVIOUS
  <2>1. IsFiniteSet(A) /\ Cardinality(A) \in Nat
    BY FS_Subset, FS_CardinalityType
  <2>2. SumFunctionOnSet(f, A \cup {x}) = SumFunctionOnSet(f, A) + k
    BY SumGrows
  <2>3. Cardinality(A \cup {x}) = Cardinality(A) + 1
    BY <2>1, FS_AddElement
  <2>4. SumFunctionOnSet(f, A) = Cardinality(A) * k
    OBVIOUS
  <2>5. (Cardinality(A) + 1) * k = Cardinality(A) * k + k
    BY <2>1
  <2> QED
    BY <2>2, <2>3, <2>4, <2>5
<1>3. S \in G
  BY <1>1, <1>2, SetInduction
<1> QED
  BY <1>3
=============================================================================
