----------------------------- MODULE SumProofs -----------------------------
(***************************************************************************)
(* Finite sets: what is least in one, what an element more or less makes   *)
(* of its size, and sums over it.  SumFunctionOnSet takes the elements in  *)
(* an order nobody knows and by recursion; these lemmas say what a proof   *)
(* needs: the sum is a number, any element can be split off, and it        *)
(* depends on the summands alone.                                          *)
(*                                                                         *)
(* The inductions are by a smallest counterexample, WFMin and              *)
(* FS_StrictSubsetOrderingWellFounded.                                     *)
(***************************************************************************)
EXTENDS Integers, Functions, FiniteSets, FiniteSetTheorems,
        WellFoundedInduction, TLAPS

(* Of some subsets of a finite set, one has no other inside it.            *)
LEMMA MinimalSubset ==
    ASSUME NEW S, IsFiniteSet(S), NEW T, T \subseteq SUBSET S, T # {}
    PROVE  \E s \in T : \A r \in T : r \subseteq s => r = s
<1>1. T \subseteq FiniteSubsetsOf(S)
  BY FS_Subset DEF FiniteSubsetsOf
<1>2. PICK s \in T : \A r \in T : <<r, s>> \notin StrictSubsetOrdering(S)
  <2> DEFINE R == StrictSubsetOrdering(S)
             F == FiniteSubsetsOf(S)
  <2>1. IsWellFoundedOn(R, F)
    BY FS_StrictSubsetOrderingWellFounded
  <2> HIDE DEF R, F
  <2>2. \E s \in T : \A r \in T : ~(<<r, s>> \in R)
    BY <1>1, <2>1, WFMin, Zenon DEF F
  <2>3. QED
    BY <2>2 DEF R
<1>3. ASSUME NEW r \in T, r \subseteq s, r # s
      PROVE  FALSE
  BY <1>2, <1>3 DEF StrictSubsetOrdering
<1>4. QED
  BY <1>3

(* Of some numbers, one is the least.                                      *)
LEMMA LeastIndex ==
    ASSUME NEW n \in Nat, NEW D, D \subseteq 1 .. n, D # {}
    PROVE  \E i \in D : \A k \in D : i <= k
<1> DEFINE T == {1 .. i : i \in D}
           S == 1 .. n
<1>1. T \subseteq SUBSET S
  BY Z3
<1>2. T # {} /\ IsFiniteSet(S)
  <2>1. T # {}
    BY Zenon
  <2>2. 1 \in Int /\ n \in Int
    OBVIOUS
  <2>3. QED
    BY <2>1, <2>2, FS_Interval, Zenon
<1>3. \E s \in T : \A r \in T : r \subseteq s => r = s
  <2> HIDE DEF T, S
  <2>1. QED
    BY <1>1, <1>2, MinimalSubset
<1>4. PICK i \in D : \A k \in D : 1 .. k \subseteq 1 .. i => 1 .. k = 1 .. i
  <2>1. PICK s \in T : \A r \in T : r \subseteq s => r = s
    BY <1>3
  <2>2. PICK i \in D : s = 1 .. i
    OBVIOUS
  <2>3. \A k \in D : 1 .. k \in T
    OBVIOUS
  <2>4. \A k \in D : 1 .. k \subseteq s => 1 .. k = s
    BY <2>1, <2>3, Zenon
  <2>5. QED
    BY <2>2, <2>4, Zenon
<1>5. ASSUME NEW k \in D, k < i
      PROVE  FALSE
  <2>0. i \in Nat /\ k \in Nat /\ i # 0
    BY <1>5
  <2>1. 1 .. k \subseteq 1 .. i
    BY <1>5, <2>0
  <2>2. 1 .. k = 1 .. i
    BY <1>4, <2>1
  <2>3. i \in 1 .. i /\ i \notin 1 .. k
    BY <1>5, <2>0
  <2>4. QED
    BY <2>2, <2>3
<1>6. i \in Int /\ \A k \in D : k \in Int
  OBVIOUS
<1>7. QED
  BY <1>5, <1>6

(* Two sets that differ in one element at most.                            *)
LEMMA Recount ==
    ASSUME NEW S, NEW T, IsFiniteSet(S), NEW x,
           \A y : y # x => (y \in T <=> y \in S)
    PROVE  /\ IsFiniteSet(T)
           /\ Cardinality(S) \in Nat /\ Cardinality(T) \in Nat
           /\ x \in T /\ x \notin S => Cardinality(T) = Cardinality(S) + 1
           /\ x \notin T /\ x \in S => Cardinality(T) = Cardinality(S) - 1
           /\ (x \in T <=> x \in S) => Cardinality(T) = Cardinality(S)
<1>1. Cardinality(S) \in Nat
  BY FS_CardinalityType
<1>2. CASE x \in T /\ x \notin S
  <2>1. T = S \cup {x}
    BY <1>2
  <2>2. QED
    BY <1>1, <1>2, <2>1, FS_AddElement
<1>3. CASE x \notin T /\ x \in S
  <2>1. T = S \ {x}
    BY <1>3
  <2>2. IsFiniteSet(T) /\ Cardinality(T) = Cardinality(S) - 1
    BY <1>3, <2>1, FS_RemoveElement
  <2>3. QED
    BY <1>1, <1>3, <2>2, FS_CardinalityType
<1>4. CASE x \in T <=> x \in S
  <2>1. T = S
    BY <1>4
  <2>2. QED
    BY <1>1, <1>4, <2>1
<1>5. QED
  BY <1>2, <1>3, <1>4

-----------------------------------------------------------------------------
(* The recursion.                                                          *)

AnyOf(s) == CHOOSE x \in s : TRUE

SumStep(f, S, sum) ==
    [s \in SUBSET S |->
        IF s = {} THEN 0 ELSE f[AnyOf(s)] + sum[s \ {AnyOf(s)}]]

SumsOf(f, S) == CHOOSE sum : sum = SumStep(f, S, sum)

LEMMA SumsDef ==
    ASSUME NEW f, NEW S
    PROVE  SumFunctionOnSet(f, S) = SumsOf(f, S)[S]
BY DEF SumFunctionOnSet, FoldFunctionOnSet, MapThenFoldSet, SumsOf, SumStep,
       AnyOf

LEMMA AnyOfIn ==
    ASSUME NEW s, s # {}
    PROVE  AnyOf(s) \in s
BY DEF AnyOf

LEMMA Unfold ==
    ASSUME NEW f, NEW S, NEW g, g = SumStep(f, S, g), NEW s \in SUBSET S
    PROVE  g[s] = IF s = {} THEN 0 ELSE f[AnyOf(s)] + g[s \ {AnyOf(s)}]
BY DEF SumStep

(* Two solutions agree where both are defined.                             *)
LEMMA SumsAgree ==
    ASSUME NEW f, NEW S, NEW T, IsFiniteSet(S), NEW g, NEW k,
           g = SumStep(f, S, g), k = SumStep(f, T, k),
           NEW r \in SUBSET S, r \subseteq T
    PROVE  g[r] = k[r]
<1> DEFINE B == {s \in SUBSET S : s \subseteq T /\ g[s] # k[s]}
<1> HIDE DEF B
<1> SUFFICES ASSUME r \in B
             PROVE  FALSE
  BY DEF B
<1>0. B \subseteq SUBSET S /\ B # {}
  BY DEF B
<1>1. PICK s \in B : \A p \in B : p \subseteq s => p = s
  BY <1>0, MinimalSubset
<1>2. s \in SUBSET S /\ s \subseteq T /\ g[s] # k[s]
  BY DEF B
<1>3. s # {}
  BY <1>2, Unfold
<1>4. s \ {AnyOf(s)} \notin B
  BY <1>1, <1>3, AnyOfIn
<1>5. g[s \ {AnyOf(s)}] = k[s \ {AnyOf(s)}]
  BY <1>2, <1>4 DEF B
<1>6. /\ g[s] = f[AnyOf(s)] + g[s \ {AnyOf(s)}]
      /\ k[s] = f[AnyOf(s)] + k[s \ {AnyOf(s)}]
  BY <1>2, <1>3, Unfold
<1>7. QED
  BY <1>2, <1>5, <1>6

(* There is a solution.                                                    *)
LEMMA SumsExist ==
    ASSUME NEW f, NEW S, IsFiniteSet(S)
    PROVE  SumsOf(f, S) = SumStep(f, S, SumsOf(f, S))
<1> DEFINE Solved(T) == \E g : g = SumStep(f, T, g)
           B == {T \in SUBSET S : ~Solved(T)}
<1> HIDE DEF B, Solved
<1>1. B = {}
  <2> SUFFICES ASSUME B # {}
               PROVE  FALSE
    OBVIOUS
  <2>0. B \subseteq SUBSET S
    BY DEF B
  <2>1. PICK T \in B : \A U \in B : U \subseteq T => U = T
    BY <2>0, MinimalSubset
  <2>2. \A U \in SUBSET T : U # T => Solved(U)
    BY <2>0, <2>1 DEF B
  <2>3. \A U \in SUBSET T : U # T => SumsOf(f, U) = SumStep(f, U, SumsOf(f, U))
    BY <2>2 DEF SumsOf, Solved
  <2> DEFINE Rest(s) == s \ {AnyOf(s)}
             k == [s \in SUBSET T |->
                     IF s = {} THEN 0
                     ELSE f[AnyOf(s)] + SumsOf(f, Rest(s))[Rest(s)]]
  <2>4. ASSUME NEW s \in SUBSET T, s # {}
        PROVE  k[Rest(s)] = SumsOf(f, Rest(s))[Rest(s)]
    <3> DEFINE V == Rest(s)
    <3>1. V \in SUBSET T /\ V # T
      BY <2>4, AnyOfIn
    <3>2. SumsOf(f, V) = SumStep(f, V, SumsOf(f, V))
      BY <2>3, <3>1
    <3> HIDE DEF V
    <3>3. CASE V = {}
      <4>1. SumsOf(f, V)[V] = 0
        BY <3>2, <3>3, Unfold
      <4>2. k[V] = 0
        BY <3>1, <3>3
      <4>3. QED
        BY <4>1, <4>2 DEF V
    <3>4. CASE V # {}
      <4> DEFINE W == Rest(V)
      <4>1. W \in SUBSET V /\ W \in SUBSET T /\ W # T
        BY <3>1, <3>4, AnyOfIn
      <4>2. SumsOf(f, W) = SumStep(f, W, SumsOf(f, W))
        BY <2>3, <4>1
      <4>3. IsFiniteSet(V)
        BY <2>0, <2>1, <3>1, FS_Subset
      <4>4. SumsOf(f, V)[W] = SumsOf(f, W)[W]
        BY <3>2, <4>1, <4>2, <4>3, SumsAgree
      <4>5. SumsOf(f, V)[V] = f[AnyOf(V)] + SumsOf(f, V)[W]
        BY <3>2, <3>4, Unfold
      <4>6. k[V] = f[AnyOf(V)] + SumsOf(f, W)[W]
        BY <3>1, <3>4
      <4>7. QED
        BY <4>4, <4>5, <4>6 DEF V
    <3>5. QED
      BY <3>3, <3>4
  <2>5. k = SumStep(f, T, k)
    <3>1. \A s \in SUBSET T :
            k[s] = IF s = {} THEN 0 ELSE f[AnyOf(s)] + k[Rest(s)]
      BY <2>4
    <3>2. k = [s \in SUBSET T |-> k[s]]
      OBVIOUS
    <3> HIDE DEF k
    <3>3. QED
      BY <3>1, <3>2 DEF SumStep
  <2>6. Solved(T)
    BY <2>5 DEF Solved
  <2>7. QED
    BY <2>1, <2>6 DEF B
<1>2. Solved(S)
  BY <1>1 DEF B
<1>3. QED
  BY <1>2 DEF SumsOf, Solved
(* So the sum is what it says: some element, and the rest.                 *)
LEMMA SumUnfold ==
    ASSUME NEW f, NEW S, IsFiniteSet(S)
    PROVE  SumFunctionOnSet(f, S) =
             IF S = {} THEN 0
             ELSE f[AnyOf(S)] + SumFunctionOnSet(f, S \ {AnyOf(S)})
<1> DEFINE T == S \ {AnyOf(S)}
<1>1. IsFiniteSet(T) /\ T \in SUBSET S
  BY FS_Subset
<1>2. /\ SumsOf(f, S) = SumStep(f, S, SumsOf(f, S))
      /\ SumsOf(f, T) = SumStep(f, T, SumsOf(f, T))
  BY <1>1, SumsExist
<1>3. SumsOf(f, S)[S] =
        IF S = {} THEN 0 ELSE f[AnyOf(S)] + SumsOf(f, S)[T]
  BY <1>2, Unfold
<1>4. SumsOf(f, S)[T] = SumsOf(f, T)[T]
  BY <1>1, <1>2, SumsAgree
<1>5. QED
  BY <1>3, <1>4, SumsDef

-----------------------------------------------------------------------------
(* What the proofs cite.                                                   *)

LEMMA SumEmpty ==
    ASSUME NEW f
    PROVE  SumFunctionOnSet(f, {}) = 0
BY SumUnfold, FS_EmptySet

LEMMA SumInt ==
    ASSUME NEW S, IsFiniteSet(S), NEW f, \A x \in S : f[x] \in Int
    PROVE  SumFunctionOnSet(f, S) \in Int
<1> DEFINE B == {s \in SUBSET S : SumFunctionOnSet(f, s) \notin Int}
<1> HIDE DEF B
<1> SUFFICES ASSUME S \in B
             PROVE  FALSE
  BY DEF B
<1>1. B \subseteq SUBSET S
  BY DEF B
<1>2. PICK s \in B : \A r \in B : r \subseteq s => r = s
  BY <1>1, MinimalSubset
<1>3. s \in SUBSET S /\ IsFiniteSet(s) /\ SumFunctionOnSet(f, s) \notin Int
  BY FS_Subset DEF B
<1>4. s # {}
  BY <1>3, SumEmpty
<1>5. AnyOf(s) \in s
  BY <1>4, AnyOfIn
<1>6. s \ {AnyOf(s)} \notin B
  BY <1>2, <1>5
<1>7. SumFunctionOnSet(f, s \ {AnyOf(s)}) \in Int
  BY <1>3, <1>6 DEF B
<1>8. QED
  BY <1>3, <1>4, <1>5, <1>7, SumUnfold

(* A sum of natural numbers is one, and no smaller than any of them.       *)
LEMMA SumNat ==
    ASSUME NEW S, IsFiniteSet(S), NEW f, \A x \in S : f[x] \in Nat
    PROVE  SumFunctionOnSet(f, S) \in Nat
<1> DEFINE B == {s \in SUBSET S : SumFunctionOnSet(f, s) \notin Nat}
<1> HIDE DEF B
<1> SUFFICES ASSUME S \in B
             PROVE  FALSE
  BY DEF B
<1>1. B \subseteq SUBSET S
  BY DEF B
<1>2. PICK s \in B : \A r \in B : r \subseteq s => r = s
  BY <1>1, MinimalSubset
<1>3. s \in SUBSET S /\ IsFiniteSet(s) /\ SumFunctionOnSet(f, s) \notin Nat
  BY FS_Subset DEF B
<1>4. s # {}
  BY <1>3, SumEmpty
<1>5. AnyOf(s) \in s
  BY <1>4, AnyOfIn
<1>6. s \ {AnyOf(s)} \notin B
  BY <1>2, <1>5
<1>7. SumFunctionOnSet(f, s \ {AnyOf(s)}) \in Nat
  BY <1>3, <1>6 DEF B
<1>8. QED
  BY <1>3, <1>4, <1>5, <1>7, SumUnfold

(* Any element can be taken out, not only the first.                       *)
LEMMA SumRemove ==
    ASSUME NEW S, IsFiniteSet(S), NEW f, \A x \in S : f[x] \in Int,
           NEW x \in S
    PROVE  SumFunctionOnSet(f, S) = f[x] + SumFunctionOnSet(f, S \ {x})
<1> DEFINE Sum(s) == SumFunctionOnSet(f, s)
           B == {s \in SUBSET S : \E y \in s : Sum(s) # f[y] + Sum(s \ {y})}
<1> HIDE DEF B
<1> SUFFICES ASSUME S \in B
             PROVE  FALSE
  BY DEF B
<1>1. B \subseteq SUBSET S
  BY DEF B
<1>2. PICK s \in B : \A r \in B : r \subseteq s => r = s
  BY <1>1, MinimalSubset
<1>3. s \in SUBSET S /\ IsFiniteSet(s)
  BY <1>1, FS_Subset
<1>4. PICK y \in s : Sum(s) # f[y] + Sum(s \ {y})
  BY DEF B
<1> DEFINE z == AnyOf(s)
<1>5. z \in s
  BY <1>4, AnyOfIn
<1>6. Sum(s) = f[z] + Sum(s \ {z})
  BY <1>3, <1>4, SumUnfold
<1> HIDE DEF z
<1>7. y # z
  BY <1>4, <1>6
<1>8. s \ {z} \notin B /\ s \ {y} \notin B
  BY <1>2, <1>5
<1>9. Sum(s \ {z}) = f[y] + Sum((s \ {z}) \ {y})
  BY <1>3, <1>7, <1>8 DEF B
<1>10. Sum(s \ {y}) = f[z] + Sum((s \ {y}) \ {z})
  BY <1>3, <1>5, <1>7, <1>8 DEF B
<1>11. (s \ {z}) \ {y} = (s \ {y}) \ {z}
  OBVIOUS
<1>12. f[y] \in Int /\ f[z] \in Int
  BY <1>3, <1>5
<1>13. Sum((s \ {z}) \ {y}) \in Int
  <2>1. IsFiniteSet((s \ {z}) \ {y})
    BY <1>3, FS_Subset
  <2>2. QED
    BY <1>3, <2>1, SumInt
<1>14. Sum((s \ {z}) \ {y}) = Sum((s \ {y}) \ {z})
  BY <1>11
<1>15. Sum(s) = f[y] + Sum(s \ {y})
  BY <1>6, <1>9, <1>10, <1>12, <1>13, <1>14
<1>16. QED
  BY <1>4, <1>15

(* The sum depends on the summands of its set alone.                       *)
LEMMA SumSame ==
    ASSUME NEW S, IsFiniteSet(S), NEW f, NEW g, \A x \in S : f[x] = g[x]
    PROVE  SumFunctionOnSet(f, S) = SumFunctionOnSet(g, S)
<1> DEFINE B == {s \in SUBSET S :
                   SumFunctionOnSet(f, s) # SumFunctionOnSet(g, s)}
<1> HIDE DEF B
<1> SUFFICES ASSUME S \in B
             PROVE  FALSE
  BY DEF B
<1>1. B \subseteq SUBSET S
  BY DEF B
<1>2. PICK s \in B : \A r \in B : r \subseteq s => r = s
  BY <1>1, MinimalSubset
<1>3. /\ s \in SUBSET S /\ IsFiniteSet(s)
      /\ SumFunctionOnSet(f, s) # SumFunctionOnSet(g, s)
  BY FS_Subset DEF B
<1>4. s # {}
  BY <1>3, SumEmpty
<1>5. AnyOf(s) \in s
  BY <1>4, AnyOfIn
<1>6. s \ {AnyOf(s)} \notin B
  BY <1>2, <1>5
<1>7. SumFunctionOnSet(f, s \ {AnyOf(s)}) = SumFunctionOnSet(g, s \ {AnyOf(s)})
  BY <1>3, <1>6 DEF B
<1>8. QED
  BY <1>3, <1>4, <1>5, <1>7, SumUnfold

(* An element joins the set.                                               *)
LEMMA SumAdd ==
    ASSUME NEW S, IsFiniteSet(S), NEW f, NEW x, x \notin S,
           \A y \in S \cup {x} : f[y] \in Int
    PROVE  SumFunctionOnSet(f, S \cup {x}) = f[x] + SumFunctionOnSet(f, S)
<1>1. IsFiniteSet(S \cup {x})
  BY FS_AddElement
<1>2. (S \cup {x}) \ {x} = S
  OBVIOUS
<1>3. SumFunctionOnSet(f, S \cup {x})
        = f[x] + SumFunctionOnSet(f, (S \cup {x}) \ {x})
  BY <1>1, SumRemove
<1>4. QED
  BY <1>2, <1>3

(* One summand changes.                                                    *)
LEMMA SumChange ==
    ASSUME NEW S, IsFiniteSet(S), NEW f, NEW g, NEW x \in S,
           \A y \in S : f[y] \in Int /\ g[y] \in Int,
           \A y \in S \ {x} : g[y] = f[y]
    PROVE  SumFunctionOnSet(g, S) = SumFunctionOnSet(f, S) - f[x] + g[x]
<1>1. IsFiniteSet(S \ {x})
  BY FS_Subset
<1>2. SumFunctionOnSet(g, S \ {x}) = SumFunctionOnSet(f, S \ {x})
  BY <1>1, SumSame
<1>3. SumFunctionOnSet(f, S \ {x}) \in Int
  BY <1>1, SumInt
<1>4. SumFunctionOnSet(f, S) = f[x] + SumFunctionOnSet(f, S \ {x})
  BY SumRemove
<1>5. SumFunctionOnSet(g, S) = g[x] + SumFunctionOnSet(g, S \ {x})
  BY SumRemove
<1>6. QED
  BY <1>2, <1>3, <1>4, <1>5

(* One element.                                                            *)
LEMMA SumOne ==
    ASSUME NEW f, NEW x, f[x] \in Int
    PROVE  SumFunctionOnSet(f, {x}) = f[x]
<1> DEFINE S == {x}
<1>1. IsFiniteSet(S)
  BY FS_Singleton
<1>2. S \ {x} = {} /\ x \in S /\ \A y \in S : f[y] \in Int
  OBVIOUS
<1> HIDE DEF S
<1>3. SumFunctionOnSet(f, S) = f[x] + SumFunctionOnSet(f, S \ {x})
  BY <1>1, <1>2, SumRemove
<1>4. SumFunctionOnSet(f, S) = f[x]
  BY <1>2, <1>3, SumEmpty
<1>5. QED
  BY <1>4 DEF S

(* Nothing but zeros.                                                      *)
LEMMA SumZero ==
    ASSUME NEW S, IsFiniteSet(S), NEW f, \A x \in S : f[x] = 0
    PROVE  SumFunctionOnSet(f, S) = 0
<1> DEFINE B == {s \in SUBSET S : SumFunctionOnSet(f, s) # 0}
<1> HIDE DEF B
<1> SUFFICES ASSUME S \in B
             PROVE  FALSE
  BY DEF B
<1>1. B \subseteq SUBSET S
  BY DEF B
<1>2. PICK s \in B : \A r \in B : r \subseteq s => r = s
  BY <1>1, MinimalSubset
<1>3. s \in SUBSET S /\ IsFiniteSet(s) /\ SumFunctionOnSet(f, s) # 0
  BY FS_Subset DEF B
<1>4. s # {}
  BY <1>3, SumEmpty
<1>5. AnyOf(s) \in s
  BY <1>4, AnyOfIn
<1>6. s \ {AnyOf(s)} \notin B
  BY <1>2, <1>5
<1>7. SumFunctionOnSet(f, s \ {AnyOf(s)}) = 0
  BY <1>3, <1>6 DEF B
<1>8. QED
  BY <1>3, <1>4, <1>5, <1>7, SumUnfold
=============================================================================
