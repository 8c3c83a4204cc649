----------------------------- MODULE SumLemmas -----------------------------
(***************************************************************************)
(* Sums over finite sets, as the models count seats with them: they do not *)
(* depend on the order in which a set is gone through.  The fold they are  *)
(* made of is a recursive function; what would be an induction over sets   *)
(* is the choice of a smallest counterexample.                             *)
(***************************************************************************)
EXTENDS Functions, FiniteSetTheorems, WellFoundedInduction, TLAPS

(* A set of natural numbers has a least one. *)
LEMMA LeastNumber ==
  ASSUME NEW N, N \subseteq Nat, N # {}
  PROVE  \E n \in N : \A m \in N : ~(m < n)
<1> DEFINE R == OpToRel(<, Nat)
<1>1. IsWellFoundedOn(R, Nat)
  BY NatLessThanWellFounded
<1>2. \A m, n \in Nat : m < n => <<m, n>> \in R
  BY DEF OpToRel
<1> HIDE DEF R
<1>3. \E n \in N : \A m \in N : ~(<<m, n>> \in R)
  BY <1>1, WFMin, Zenon
<1>4. QED
  BY <1>2, <1>3

(* A collection of subsets of a finite set has a smallest member. *)
LEMMA SmallestSubset ==
  ASSUME NEW S, IsFiniteSet(S), NEW B, B \subseteq SUBSET S, B # {}
  PROVE  \E T \in B : \A U \in B : U \subseteq T => U = T
<1> DEFINE N == {Cardinality(T) : T \in B}
<1>1. \A T \in B : IsFiniteSet(T) /\ Cardinality(T) \in Nat
  BY FS_Subset, FS_CardinalityType
<1>2. N \subseteq Nat /\ N # {}
  BY <1>1
<1>3. \E n \in N : \A m \in N : ~(m < n)
  <2> HIDE DEF N
  <2>1. QED
    BY <1>2, LeastNumber
<1>4. PICK n \in N : \A m \in N : ~(m < n)
  BY <1>3
<1>5. PICK T \in B : Cardinality(T) = n
  BY <1>4
<1>6. ASSUME NEW U \in B, U \subseteq T PROVE U = T
  <2>1. IsFiniteSet(T) /\ U \in SUBSET T
    BY <1>1, <1>6
  <2>2. Cardinality(U) <= Cardinality(T) /\ (Cardinality(T) = Cardinality(U) => T = U)
    BY <2>1, FS_Subset
  <2>3. ~(Cardinality(U) < n) /\ Cardinality(U) \in Nat /\ n \in Nat
    BY <1>1, <1>2, <1>4
  <2>4. QED
    BY <1>5, <2>2, <2>3
<1>7. QED
  BY <1>6

-----------------------------------------------------------------------------
(* The function that the sum over S is the last value of. *)
(* The member that the sum takes next. *)
OneOf(s) == CHOOSE x \in s : TRUE

(* g holds the sum of f over every subset of S. *)
SumsTo(g, f, S) ==
    g = [s \in SUBSET S |-> IF s = {} THEN 0 ELSE f[OneOf(s)] + g[s \ {OneOf(s)}]]

(* The library's sum, unfolded. *)
LEMMA SumIsLast ==
  ASSUME NEW f, NEW S
  PROVE  SumFunctionOnSet(f, S) = (CHOOSE g : SumsTo(g, f, S))[S]
BY DEF SumFunctionOnSet, FoldFunctionOnSet, MapThenFoldSet, SumsTo, OneOf

(* What is taken next is there. *)
LEMMA OneOfIsIn == ASSUME NEW s, s # {} PROVE OneOf(s) \in s
BY DEF OneOf

(* A function of sums, case by case. *)
LEMMA SumsStep ==
  ASSUME NEW f, NEW S, NEW g, SumsTo(g, f, S)
  PROVE  /\ g[{}] = 0
         /\ \A s \in SUBSET S : s # {} => g[s] = f[OneOf(s)] + g[s \ {OneOf(s)}]
BY DEF SumsTo

(* The cases determine that a function is one of sums. *)
LEMMA StepsSum ==
  ASSUME NEW f, NEW S, NEW g, g = [s \in SUBSET S |-> g[s]], g[{}] = 0,
         \A s \in SUBSET S : s # {} => g[s] = f[OneOf(s)] + g[s \ {OneOf(s)}]
  PROVE  SumsTo(g, f, S)
<1> DEFINE h == [s \in SUBSET S |-> IF s = {} THEN 0 ELSE f[OneOf(s)] + g[s \ {OneOf(s)}]]
<1>1. \A s \in SUBSET S : g[s] = h[s]
  OBVIOUS
<1>2. g = h
  BY <1>1
<1>3. QED
  BY <1>2 DEF SumsTo

(* Restricted to the subsets of T it is the function of sums over T. *)
LEMMA SumsOfLess ==
  ASSUME NEW f, NEW S, NEW g, SumsTo(g, f, S), NEW T \in SUBSET S
  PROVE  SumsTo([s \in SUBSET T |-> g[s]], f, T)
<1> DEFINE h == [s \in SUBSET T |-> g[s]]
<1>1. h = [s \in SUBSET T |-> h[s]] /\ h[{}] = 0
  BY SumsStep
<1>2. ASSUME NEW s \in SUBSET T, s # {} PROVE h[s] = f[OneOf(s)] + h[s \ {OneOf(s)}]
  <2>1. s \ {OneOf(s)} \in SUBSET T /\ s \in SUBSET S
    OBVIOUS
  <2>2. \A r \in SUBSET S : r # {} => g[r] = f[OneOf(r)] + g[r \ {OneOf(r)}]
    BY SumsStep
  <2>3. g[s] = f[OneOf(s)] + g[s \ {OneOf(s)}]
    BY <1>2, <2>1, <2>2
  <2>4. QED
    BY <2>1, <2>3
<1>3. QED
  BY <1>1, <1>2, StepsSum

(* There is at most one function of sums over a finite set. *)
LEMMA SumsAreOne ==
  ASSUME NEW f, NEW S, IsFiniteSet(S), NEW g, SumsTo(g, f, S), NEW h, SumsTo(h, f, S)
  PROVE  g = h
<1>1. g[{}] = 0 /\ \A s \in SUBSET S : s # {} => g[s] = f[OneOf(s)] + g[s \ {OneOf(s)}]
  BY DEF SumsTo
<1>2. h[{}] = 0 /\ \A s \in SUBSET S : s # {} => h[s] = f[OneOf(s)] + h[s \ {OneOf(s)}]
  BY DEF SumsTo
<1>3. g = [s \in SUBSET S |-> g[s]] /\ h = [s \in SUBSET S |-> h[s]]
  BY DEF SumsTo
<1> DEFINE B == {s \in SUBSET S : g[s] # h[s]}
<1>4. ASSUME NEW s \in B, \A U \in B : U \subseteq s => U = s PROVE FALSE
  <2>1. s \in SUBSET S /\ g[s] # h[s] /\ s # {}
    BY <1>1, <1>2
  <2>2. s \ {OneOf(s)} \in SUBSET S /\ s \ {OneOf(s)} # s
    BY <2>1, OneOfIsIn
  <2>3. g[s \ {OneOf(s)}] = h[s \ {OneOf(s)}]
    BY <1>4, <2>2
  <2> HIDE DEF B
  <2>4. QED
    BY <1>1, <1>2, <2>1, <2>3
<1>5. B = {}
  <2>1. B \subseteq SUBSET S
    OBVIOUS
  <2> HIDE DEF B
  <2>2. QED
    BY <1>4, <2>1, SmallestSubset
<1>6. QED
  BY <1>3, <1>5

(* There is one. *)
LEMMA SumsExist ==
  ASSUME NEW f, NEW S, IsFiniteSet(S)
  PROVE  \E g : SumsTo(g, f, S)
<1> DEFINE B == {T \in SUBSET S : ~\E g : SumsTo(g, f, T)}
           H(u) == CHOOSE g : SumsTo(g, f, u)
<1>1. ASSUME NEW T \in B, \A U \in B : U \subseteq T => U = T PROVE FALSE
  <2> DEFINE G == [s \in SUBSET T |-> IF s = {} THEN 0
                     ELSE f[OneOf(s)] + H(s \ {OneOf(s)})[s \ {OneOf(s)}]]
  <2>1. \A u \in SUBSET T : u # T => SumsTo(H(u), f, u)
    <3> SUFFICES ASSUME NEW u \in SUBSET T, u # T PROVE SumsTo(H(u), f, u)
      OBVIOUS
    <3>1. \E g : SumsTo(g, f, u)
      BY <1>1
    <3>2. QED
      BY <3>1
  <2> HIDE DEF H
  <2>2. ASSUME NEW u \in SUBSET T, u # T PROVE G[u] = H(u)[u]
    <3>1. SumsTo(H(u), f, u)
      BY <2>1, <2>2
    <3>2. CASE u = {}
      BY <3>1, <3>2, SumsStep
    <3>3. CASE u # {}
      <4> DEFINE v == u \ {OneOf(u)}
                 h == [s \in SUBSET v |-> H(u)[s]]
      <4>1. v \in SUBSET u /\ v \in SUBSET T /\ v # T
        BY <3>3, OneOfIsIn
      <4>2. SumsTo(h, f, v) /\ SumsTo(H(v), f, v)
        BY <2>1, <3>1, <4>1, SumsOfLess
      <4>3. IsFiniteSet(v)
        BY <4>1, FS_Subset
      <4>4. h = H(v)
        BY <4>2, <4>3, SumsAreOne
      <4>5. H(u)[v] = H(v)[v]
        BY <4>4
      <4>6. H(u)[u] = f[OneOf(u)] + H(u)[v]
        <5>1. \A r \in SUBSET u : r # {} => H(u)[r] = f[OneOf(r)] + H(u)[r \ {OneOf(r)}]
          BY <3>1, SumsStep
        <5>2. QED
          BY <3>3, <5>1
      <4>7. QED
        BY <3>3, <4>5, <4>6
    <3>4. QED
      BY <3>2, <3>3
  <2>3. G = [s \in SUBSET T |-> G[s]] /\ G[{}] = 0
    OBVIOUS
  <2>4. ASSUME NEW s \in SUBSET T, s # {} PROVE G[s] = f[OneOf(s)] + G[s \ {OneOf(s)}]
    <3>1. s \ {OneOf(s)} \in SUBSET T /\ s \ {OneOf(s)} # T
      BY <2>4, OneOfIsIn
    <3>2. G[s \ {OneOf(s)}] = H(s \ {OneOf(s)})[s \ {OneOf(s)}]
      BY <2>2, <3>1
    <3>3. QED
      BY <2>4, <3>2
  <2> HIDE DEF G
  <2>5. SumsTo(G, f, T)
    BY <2>3, <2>4, StepsSum
  <2>6. QED
    BY <2>5
<1>2. B = {}
  <2>1. B \subseteq SUBSET S
    OBVIOUS
  <2> HIDE DEF B
  <2>2. QED
    BY <1>1, <2>1, SmallestSubset
<1>3. QED
  BY <1>2

-----------------------------------------------------------------------------
(* The empty sum. *)
LEMMA SumOfNone == ASSUME NEW f PROVE SumFunctionOnSet(f, {}) = 0
<1>1. PICK g : SumsTo(g, f, {})
  BY SumsExist, FS_EmptySet
<1>2. SumsTo((CHOOSE h : SumsTo(h, f, {})), f, {})
  BY <1>1
<1>3. QED
  BY <1>2, SumIsLast, SumsStep

(* The sum is the next member's value and the sum over the rest. *)
LEMMA SumOfChosen ==
  ASSUME NEW f, NEW S, IsFiniteSet(S), S # {}
  PROVE  SumFunctionOnSet(f, S) = f[OneOf(S)] + SumFunctionOnSet(f, S \ {OneOf(S)})
<1> DEFINE G(T) == CHOOSE g : SumsTo(g, f, T)
           v == S \ {OneOf(S)}
           h == [s \in SUBSET v |-> G(S)[s]]
<1>1. v \in SUBSET S /\ IsFiniteSet(v)
  BY FS_Subset
<1>2. SumsTo(G(S), f, S)
  <2>1. \E g : SumsTo(g, f, S)
    BY SumsExist
  <2>2. QED
    BY <2>1
<1>3. SumsTo(G(v), f, v)
  <2>1. \E g : SumsTo(g, f, v)
    BY <1>1, SumsExist
  <2>2. QED
    BY <2>1
<1>4. SumFunctionOnSet(f, S) = G(S)[S] /\ SumFunctionOnSet(f, v) = G(v)[v]
  BY SumIsLast
<1> HIDE DEF G
<1>5. h = G(v)
  <2>1. SumsTo(h, f, v)
    BY <1>1, <1>2, SumsOfLess
  <2>2. QED
    BY <1>1, <1>3, <2>1, SumsAreOne
<1>6. G(S)[v] = G(v)[v]
  BY <1>5
<1>7. \A r \in SUBSET S : r # {} => G(S)[r] = f[OneOf(r)] + G(S)[r \ {OneOf(r)}]
  BY <1>2, SumsStep
<1>8. G(S)[S] = f[OneOf(S)] + G(S)[v]
  BY <1>7
<1>9. QED
  BY <1>4, <1>6, <1>8

(* A sum of natural numbers is one. *)
LEMMA SumType ==
  ASSUME NEW S, IsFiniteSet(S), NEW f, \A x \in S : f[x] \in Nat
  PROVE  SumFunctionOnSet(f, S) \in Nat
<1> DEFINE B == {T \in SUBSET S : SumFunctionOnSet(f, T) \notin Nat}
<1>1. ASSUME NEW T \in B, \A U \in B : U \subseteq T => U = T PROVE FALSE
  <2>1. T # {} /\ IsFiniteSet(T) /\ T \in SUBSET S
    <3>1. SumFunctionOnSet(f, {}) \in Nat
      BY SumOfNone
    <3>2. QED
      BY <3>1, FS_Subset
  <2>2. OneOf(T) \in T
    BY <2>1, OneOfIsIn
  <2>3. SumFunctionOnSet(f, T \ {OneOf(T)}) \in Nat
    BY <1>1, <2>1, <2>2
  <2>4. SumFunctionOnSet(f, T) = f[OneOf(T)] + SumFunctionOnSet(f, T \ {OneOf(T)})
    BY <2>1, SumOfChosen
  <2>5. f[OneOf(T)] \in Nat
    BY <2>1, <2>2
  <2>6. SumFunctionOnSet(f, T) \notin Nat
    OBVIOUS
  <2> HIDE DEF B
  <2>7. QED
    BY <2>3, <2>4, <2>5, <2>6
<1>2. B = {}
  <2>1. B \subseteq SUBSET S
    OBVIOUS
  <2> HIDE DEF B
  <2>2. QED
    BY <1>1, <2>1, SmallestSubset
<1>3. QED
  BY <1>2

(* Any member of a set can be added last. *)
LEMMA SumOfMember ==
  ASSUME NEW S, IsFiniteSet(S), NEW f, \A x \in S : f[x] \in Nat, NEW m \in S
  PROVE  SumFunctionOnSet(f, S) = f[m] + SumFunctionOnSet(f, S \ {m})
<1> DEFINE B == {T \in SUBSET S : \E x \in T :
                    SumFunctionOnSet(f, T) # f[x] + SumFunctionOnSet(f, T \ {x})}
<1>1. ASSUME NEW T \in B, \A U \in B : U \subseteq T => U = T PROVE FALSE
  <2>1. PICK x \in T : SumFunctionOnSet(f, T) # f[x] + SumFunctionOnSet(f, T \ {x})
    OBVIOUS
  <2> DEFINE y == OneOf(T)
  <2>2. /\ T \in SUBSET S /\ IsFiniteSet(T) /\ T # {} /\ y \in T
    BY <2>1, FS_Subset, OneOfIsIn
  <2>3. SumFunctionOnSet(f, T) = f[y] + SumFunctionOnSet(f, T \ {y})
    BY <2>2, SumOfChosen
  <2>4. x # y
    BY <2>1, <2>3
  <2>5. /\ T \ {x} \in SUBSET S /\ T \ {x} # T /\ y \in T \ {x}
        /\ T \ {y} \in SUBSET S /\ T \ {y} # T /\ x \in T \ {y}
    BY <2>2, <2>4
  <2> HIDE DEF y
  <2>6. SumFunctionOnSet(f, T \ {y}) = f[x] + SumFunctionOnSet(f, (T \ {y}) \ {x})
    BY <1>1, <2>5
  <2>7. SumFunctionOnSet(f, T \ {x}) = f[y] + SumFunctionOnSet(f, (T \ {x}) \ {y})
    BY <1>1, <2>5
  <2>8. (T \ {x}) \ {y} = (T \ {y}) \ {x}
    OBVIOUS
  <2> DEFINE rest == SumFunctionOnSet(f, (T \ {y}) \ {x})
  <2>9. f[x] \in Nat /\ f[y] \in Nat /\ rest \in Nat
    <3>1. (T \ {y}) \ {x} \in SUBSET S
      BY <2>2
    <3>2. IsFiniteSet((T \ {y}) \ {x})
      BY <3>1, FS_Subset
    <3>3. \A z \in (T \ {y}) \ {x} : f[z] \in Nat
      BY <3>1
    <3>4. rest \in Nat
      BY <3>2, <3>3, SumType
    <3>5. QED
      BY <2>2, <3>4
  <2>10. /\ SumFunctionOnSet(f, T) = f[y] + (f[x] + rest)
         /\ SumFunctionOnSet(f, T \ {x}) = f[y] + rest
    BY <2>3, <2>6, <2>7, <2>8
  <2> HIDE DEF rest, B
  <2>11. QED
    BY <2>1, <2>9, <2>10
<1>2. B = {}
  <2>1. B \subseteq SUBSET S
    OBVIOUS
  <2> HIDE DEF B
  <2>2. QED
    BY <1>1, <2>1, SmallestSubset
<1>3. QED
  BY <1>2

(* Only the values at the members count. *)
LEMMA SumsAgree ==
  ASSUME NEW S, IsFiniteSet(S), NEW f, NEW g, \A x \in S : f[x] = g[x]
  PROVE  SumFunctionOnSet(f, S) = SumFunctionOnSet(g, S)
<1> DEFINE B == {T \in SUBSET S : SumFunctionOnSet(f, T) # SumFunctionOnSet(g, T)}
<1>1. ASSUME NEW T \in B, \A U \in B : U \subseteq T => U = T PROVE FALSE
  <2>1. T # {} /\ IsFiniteSet(T) /\ T \in SUBSET S
    BY SumOfNone, FS_Subset
  <2>2. OneOf(T) \in T
    BY <2>1, OneOfIsIn
  <2>3. SumFunctionOnSet(f, T \ {OneOf(T)}) = SumFunctionOnSet(g, T \ {OneOf(T)})
    BY <1>1, <2>1, <2>2
  <2>4. /\ SumFunctionOnSet(f, T) = f[OneOf(T)] + SumFunctionOnSet(f, T \ {OneOf(T)})
        /\ SumFunctionOnSet(g, T) = g[OneOf(T)] + SumFunctionOnSet(g, T \ {OneOf(T)})
    BY <2>1, SumOfChosen
  <2>5. f[OneOf(T)] = g[OneOf(T)]
    BY <2>1, <2>2
  <2>6. SumFunctionOnSet(f, T) # SumFunctionOnSet(g, T)
    OBVIOUS
  <2> HIDE DEF B
  <2>7. QED
    BY <2>3, <2>4, <2>5, <2>6
<1>2. B = {}
  <2>1. B \subseteq SUBSET S
    OBVIOUS
  <2> HIDE DEF B
  <2>2. QED
    BY <1>1, <2>1, SmallestSubset
<1>3. QED
  BY <1>2

(* Fewer members have no greater sum. *)
LEMMA SumOfFewer ==
  ASSUME NEW S, IsFiniteSet(S), NEW f, \A x \in S : f[x] \in Nat, NEW T \in SUBSET S
  PROVE  SumFunctionOnSet(f, T) <= SumFunctionOnSet(f, S)
<1> DEFINE B == {U \in SUBSET S : \E V \in SUBSET U : ~(SumFunctionOnSet(f, V) <= SumFunctionOnSet(f, U))}
<1>1. ASSUME NEW U \in B, \A W \in B : W \subseteq U => W = U PROVE FALSE
  <2>1. PICK V \in SUBSET U : ~(SumFunctionOnSet(f, V) <= SumFunctionOnSet(f, U))
    OBVIOUS
  <2>2. IsFiniteSet(U) /\ U \in SUBSET S /\ \A x \in U : f[x] \in Nat
    BY FS_Subset
  <2>3. V # U
    BY <2>1, <2>2, SumType
  <2>4. PICK x \in U : x \notin V
    BY <2>3
  <2>5. U \ {x} \in SUBSET S /\ U \ {x} # U /\ V \in SUBSET (U \ {x})
    BY <2>2, <2>4
  <2>6. SumFunctionOnSet(f, V) <= SumFunctionOnSet(f, U \ {x})
    BY <1>1, <2>5
  <2>7. SumFunctionOnSet(f, U) = f[x] + SumFunctionOnSet(f, U \ {x})
    BY <2>2, SumOfMember
  <2>8. SumFunctionOnSet(f, V) \in Nat /\ SumFunctionOnSet(f, U \ {x}) \in Nat /\ f[x] \in Nat
    <3>1. /\ IsFiniteSet(V) /\ IsFiniteSet(U \ {x})
          /\ \A z \in V : f[z] \in Nat
          /\ \A z \in U \ {x} : f[z] \in Nat
      BY <2>2, FS_Subset
    <3>2. QED
      BY <2>2, <3>1, SumType
  <2> HIDE DEF B
  <2>9. QED
    BY <2>1, <2>6, <2>7, <2>8
<1>2. B = {}
  <2>1. B \subseteq SUBSET S
    OBVIOUS
  <2> HIDE DEF B
  <2>2. QED
    BY <1>1, <2>1, SmallestSubset
<1>3. QED
  BY <1>2
=============================================================================
