------------------------------ MODULE ChipSums ------------------------------
(***************************************************************************)
(* Sums of chips over any finite set of seats.  The sums of the community  *)
(* modules are folds that pick one element after the other; the lemmas     *)
(* say that the order does not matter and what a sum is made of, so that   *)
(* proofs about chips can be read without looking into a fold.             *)
(***************************************************************************)
EXTENDS Integers, FiniteSets, Functions, FiniteSetTheorems, WellFoundedInduction, NaturalsInduction, TLAPS

(* The function a sum over S is computed with: it has the sum over every part. *)
Picked(s) == CHOOSE x \in s : TRUE
SumsFrom(f, S, g) ==
  g = [s \in SUBSET S |-> IF s = {} THEN 0 ELSE f[Picked(s)] + g[s \ {Picked(s)}]]

(* The same for the parts of at most n elements. *)
Parts(S, n) == {s \in SUBSET S : Cardinality(s) <= n}
SumsUpTo(f, S, n, g) ==
  g = [s \in Parts(S, n) |-> IF s = {} THEN 0 ELSE f[Picked(s)] + g[s \ {Picked(s)}]]

-----------------------------------------------------------------------------
(* Finite sets. *)

(* A set of natural numbers has a least element. *)
LEMMA LeastOf ==
  ASSUME NEW N, N \subseteq Nat, N # {}
  PROVE  \E m \in N : \A n \in N : m <= n
<1> DEFINE R == OpToRel(<, Nat)
<1>1. \A x, y \in Nat : <<y, x>> \in R <=> y < x
  BY DEF OpToRel
<1>2. IsWellFoundedOn(R, Nat)
  BY NatLessThanWellFounded
<1> HIDE DEF R
<1>3. PICK m \in N : \A y \in N : ~ (<<y, m>> \in R)
  BY <1>2, WFMin
<1>4. \A y \in N : ~ (y < m)
  BY <1>1, <1>3, Zenon
<1> QED BY <1>4

(* Of some parts of a finite set one has the fewest elements. *)
LEMMA SmallestPart ==
  ASSUME NEW S, IsFiniteSet(S), NEW B, B \subseteq SUBSET S, B # {}
  PROVE  \E s \in B : \A t \in B : Cardinality(s) <= Cardinality(t)
<1> DEFINE N == {Cardinality(s) : s \in B}
<1>1. \A s \in B : Cardinality(s) \in Nat
  BY FS_Subset, FS_CardinalityType
<1>2. N \subseteq Nat /\ N # {}
  BY <1>1
<1>3. PICK m \in N : \A n \in N : m <= n
  BY <1>2, LeastOf
<1> QED BY <1>3

(* A part without one of its elements. *)
LEMMA PartWithout ==
  ASSUME NEW S, IsFiniteSet(S), NEW s \in SUBSET S, NEW x \in s
  PROVE  /\ s \ {x} \in SUBSET S
         /\ Cardinality(s) \in Nat /\ Cardinality(s \ {x}) \in Nat
         /\ Cardinality(s \ {x}) = Cardinality(s) - 1
<1>1. IsFiniteSet(s)
  BY FS_Subset
<1>2. Cardinality(s) \in Nat /\ IsFiniteSet(s \ {x}) /\ Cardinality(s \ {x}) = Cardinality(s) - 1
  BY <1>1, FS_RemoveElement, FS_CardinalityType
<1>3. Cardinality(s \ {x}) \in Nat
  BY <1>2, FS_CardinalityType
<1> QED BY <1>2, <1>3

(* Something is picked. *)
LEMMA PickedIn ==
  ASSUME NEW s, s # {}
  PROVE  Picked(s) \in s
BY DEF Picked

-----------------------------------------------------------------------------
(* The sums exist. *)

(* The parts of up to n elements have their sums: otherwise take the least n
   for which they have not. *)
LEMMA SumsUpToExist ==
  ASSUME NEW f, NEW S, IsFiniteSet(S), NEW n \in Nat
  PROVE  \E g : SumsUpTo(f, S, n, g)
<1> DEFINE Bad == {k \in Nat : ~ \E g : SumsUpTo(f, S, k, g)}
<1>1. ASSUME Bad # {} PROVE FALSE
  <2>1. PICK m \in Bad : \A k \in Bad : m <= k
    BY <1>1, LeastOf
  <2>2. CASE m = 0
    <3> DEFINE g == [s \in Parts(S, 0) |-> 0]
    <3>1. ASSUME NEW s \in Parts(S, 0) PROVE s = {}
      <4>1. IsFiniteSet(s) /\ Cardinality(s) \in Nat /\ Cardinality(s) <= 0
        BY FS_Subset, FS_CardinalityType DEF Parts
      <4> QED BY <4>1, FS_EmptySet
    <3>2. SumsUpTo(f, S, 0, g)
      BY <3>1 DEF SumsUpTo
    <3> QED BY <2>1, <2>2, <3>2
  <2>3. CASE m # 0
    <3>1. m - 1 \in Nat /\ m - 1 \notin Bad
      BY <2>1, <2>3
    <3>2. PICK g : SumsUpTo(f, S, m - 1, g)
      BY <3>1
    <3> DEFINE k == [s \in Parts(S, m) |-> IF s = {} THEN 0 ELSE f[Picked(s)] + g[s \ {Picked(s)}]]
    <3>3. ASSUME NEW s \in Parts(S, m - 1) PROVE s \in Parts(S, m) /\ g[s] = k[s]
      <4>1. s \in Parts(S, m)
        <5>1. Cardinality(s) \in Nat
          BY FS_Subset, FS_CardinalityType DEF Parts
        <5> QED BY <5>1 DEF Parts
      <4> QED BY <3>2, <4>1 DEF SumsUpTo
    <3>4. ASSUME NEW s \in Parts(S, m), s # {} PROVE s \ {Picked(s)} \in Parts(S, m - 1)
      <4>1. Picked(s) \in s
        BY <3>4, PickedIn
      <4>2. s \in SUBSET S /\ Cardinality(s) <= m
        BY DEF Parts
      <4> QED BY <4>1, <4>2, PartWithout DEF Parts
    <3>5. \A s \in Parts(S, m) : s # {} => g[s \ {Picked(s)}] = k[s \ {Picked(s)}]
      BY <3>3, <3>4
    <3>6. SumsUpTo(f, S, m, k)
      BY <3>5 DEF SumsUpTo
    <3> QED BY <2>1, <3>6
  <2> QED BY <2>2, <2>3
<1> QED BY <1>1

(* A sum is what such a function has for the whole set. *)
LEMMA SumFound ==
  ASSUME NEW f, NEW S, IsFiniteSet(S)
  PROVE  \E g : SumsFrom(f, S, g) /\ SumFunctionOnSet(f, S) = g[S]
<1>1. SumFunctionOnSet(f, S) = (CHOOSE g : SumsFrom(f, S, g))[S]
  BY DEF SumFunctionOnSet, FoldFunctionOnSet, MapThenFoldSet, SumsFrom, Picked
<1>2. Cardinality(S) \in Nat
  BY FS_CardinalityType
<1>3. PICK g : SumsUpTo(f, S, Cardinality(S), g)
  BY <1>2, SumsUpToExist
<1>4. Parts(S, Cardinality(S)) = SUBSET S
  BY FS_Subset DEF Parts
<1>5. SumsFrom(f, S, g)
  BY <1>3, <1>4 DEF SumsFrom, SumsUpTo
<1> QED BY <1>1, <1>5

(* What the function has for a part. *)
LEMMA SumStep ==
  ASSUME NEW f, NEW S, NEW g, SumsFrom(f, S, g), NEW s \in SUBSET S
  PROVE  /\ s = {} => g[s] = 0
         /\ s # {} => g[s] = f[Picked(s)] + g[s \ {Picked(s)}]
BY DEF SumsFrom

-----------------------------------------------------------------------------
(* The order does not matter. *)

(* Sums of integers are integers. *)
LEMMA SumStepType ==
  ASSUME NEW f, NEW S, IsFiniteSet(S), NEW g, SumsFrom(f, S, g), \A x \in S : f[x] \in Int
  PROVE  \A s \in SUBSET S : g[s] \in Int
<1> DEFINE Bad == {s \in SUBSET S : g[s] \notin Int}
<1>1. ASSUME Bad # {} PROVE FALSE
  <2>1. PICK s \in Bad : \A t \in Bad : Cardinality(s) <= Cardinality(t)
    BY <1>1, SmallestPart
  <2>2. s \in SUBSET S /\ g[s] \notin Int
    BY <2>1
  <2>3. (s = {} => g[s] = 0) /\ (s # {} => g[s] = f[Picked(s)] + g[s \ {Picked(s)}])
    BY <2>2, SumStep
  <2>4. s # {}
    BY <2>2, <2>3
  <2>5. Picked(s) \in s
    BY <2>4, PickedIn
  <2>6. /\ s \ {Picked(s)} \in SUBSET S
        /\ Cardinality(s) \in Nat /\ Cardinality(s \ {Picked(s)}) = Cardinality(s) - 1
    BY <2>2, <2>5, PartWithout
  <2>7. s \ {Picked(s)} \notin Bad
    BY <2>1, <2>6
  <2>8. g[s \ {Picked(s)}] \in Int /\ f[Picked(s)] \in Int
    BY <2>2, <2>5, <2>6, <2>7
  <2> QED BY <2>2, <2>3, <2>4, <2>8
<1> QED BY <1>1

(* Any element may be picked first. *)
LEMMA SumPicksAny ==
  ASSUME NEW f, NEW S, IsFiniteSet(S), NEW g, SumsFrom(f, S, g), \A x \in S : f[x] \in Int
  PROVE  \A s \in SUBSET S : \A x \in s : g[s] = f[x] + g[s \ {x}]
<1> DEFINE Bad == {s \in SUBSET S : \E x \in s : g[s] # f[x] + g[s \ {x}]}
<1>1. ASSUME Bad # {} PROVE FALSE
  <2>1. PICK s \in Bad : \A t \in Bad : Cardinality(s) <= Cardinality(t)
    BY <1>1, SmallestPart
  <2>2. PICK x \in s : g[s] # f[x] + g[s \ {x}]
    BY <2>1
  <2>3. s \in SUBSET S /\ s # {}
    BY <2>1, <2>2
  <2>4. PICK p \in s : g[s] = f[p] + g[s \ {p}]
    <3>1. Picked(s) \in s
      BY <2>3, PickedIn
    <3>2. s \in SUBSET S
      BY <2>3
    <3>3. (s = {} => g[s] = 0) /\ (s # {} => g[s] = f[Picked(s)] + g[s \ {Picked(s)}])
      BY <3>2 DEF SumsFrom
    <3> QED BY <2>3, <3>1, <3>3
  <2>5. \A t \in Bad : Cardinality(s) <= Cardinality(t)
    BY <2>1
  <2>6. x # p
    BY <2>2, <2>4
  <2>7. /\ s \ {x} \in SUBSET S /\ s \ {p} \in SUBSET S /\ Cardinality(s) \in Nat
        /\ Cardinality(s \ {x}) = Cardinality(s) - 1
        /\ Cardinality(s \ {p}) = Cardinality(s) - 1
    BY <2>2, <2>3, PartWithout
  <2>8. s \ {x} \notin Bad /\ s \ {p} \notin Bad
    <3> HIDE DEF Bad
    <3> QED BY <2>5, <2>7
  <2>9. g[s \ {x}] = f[p] + g[(s \ {x}) \ {p}]
    BY <2>6, <2>7, <2>8
  <2>10. g[s \ {p}] = f[x] + g[(s \ {p}) \ {x}]
    BY <2>2, <2>6, <2>7, <2>8
  <2>11. (s \ {p}) \ {x} = (s \ {x}) \ {p} /\ (s \ {x}) \ {p} \in SUBSET S
    BY <2>3
  <2> DEFINE rest == g[(s \ {x}) \ {p}]
  <2>12. f[x] \in Int /\ f[p] \in Int /\ rest \in Int
    BY <2>2, <2>3, <2>11, SumStepType
  <2>13. g[s \ {x}] = f[p] + rest /\ g[s \ {p}] = f[x] + rest
    BY <2>9, <2>10, <2>11
  <2> HIDE DEF rest
  <2>14. g[s] = f[p] + (f[x] + rest) /\ g[s] # f[x] + (f[p] + rest)
    BY <2>2, <2>4, <2>13
  <2> DEFINE fx == f[x]
             fp == f[p]
  <2>15. fx \in Int /\ fp \in Int /\ g[s] = fp + (fx + rest) /\ g[s] # fx + (fp + rest)
    BY <2>12, <2>14
  <2> HIDE DEF fx, fp
  <2> QED BY <2>12, <2>15
<1> QED BY <1>1

(* What is outside a part does not count. *)
LEMMA SumAgrees ==
  ASSUME NEW f, NEW S, IsFiniteSet(S), NEW g, SumsFrom(f, S, g),
         NEW e, NEW T, NEW h, SumsFrom(e, T, h)
  PROVE  \A s \in SUBSET (S \cap T) : (\A x \in s : f[x] = e[x]) => g[s] = h[s]
<1> DEFINE Bad == {s \in SUBSET (S \cap T) : (\A x \in s : f[x] = e[x]) /\ g[s] # h[s]}
<1>1. ASSUME Bad # {} PROVE FALSE
  <2>1. PICK s \in Bad : \A t \in Bad : Cardinality(s) <= Cardinality(t)
    BY <1>1, SmallestPart
  <2>2. /\ s \in SUBSET S /\ s \in SUBSET T /\ s \in SUBSET (S \cap T)
        /\ \A x \in s : f[x] = e[x]
        /\ g[s] # h[s]
    BY <2>1
  <2>3. (s = {} => g[s] = 0) /\ (s # {} => g[s] = f[Picked(s)] + g[s \ {Picked(s)}])
    BY <2>2, SumStep
  <2>4. (s = {} => h[s] = 0) /\ (s # {} => h[s] = e[Picked(s)] + h[s \ {Picked(s)}])
    BY <2>2, SumStep
  <2>5. s # {}
    BY <2>2, <2>3, <2>4
  <2>6. Picked(s) \in s
    BY <2>5, PickedIn
  <2>7. Cardinality(s) \in Nat /\ Cardinality(s \ {Picked(s)}) = Cardinality(s) - 1
    BY <2>2, <2>6, PartWithout
  <2>8. s \ {Picked(s)} \notin Bad
    BY <2>1, <2>7
  <2>9. s \ {Picked(s)} \in SUBSET (S \cap T) /\ \A x \in s \ {Picked(s)} : f[x] = e[x]
    BY <2>2
  <2>10. g[s \ {Picked(s)}] = h[s \ {Picked(s)}]
    BY <2>8, <2>9
  <2>11. f[Picked(s)] = e[Picked(s)]
    BY <2>2, <2>6
  <2> QED BY <2>2, <2>3, <2>4, <2>5, <2>10, <2>11
<1> QED BY <1>1

-----------------------------------------------------------------------------
(* What a sum is made of. *)

(* No seats, no chips. *)
LEMMA SumOfNone ==
  ASSUME NEW f
  PROVE  SumFunctionOnSet(f, {}) = 0
<1>1. IsFiniteSet({})
  BY FS_EmptySet
<1>2. PICK g : SumsFrom(f, {}, g) /\ SumFunctionOnSet(f, {}) = g[{}]
  BY <1>1, SumFound
<1>3. {} \in SUBSET {}
  OBVIOUS
<1> QED BY <1>2, <1>3, SumStep

(* The sum over some seats depends on what these seats have only. *)
LEMMA SumSame ==
  ASSUME NEW f, NEW e, NEW S, IsFiniteSet(S), \A x \in S : f[x] = e[x]
  PROVE  SumFunctionOnSet(f, S) = SumFunctionOnSet(e, S)
<1>1. PICK g : SumsFrom(f, S, g) /\ SumFunctionOnSet(f, S) = g[S]
  BY SumFound
<1>2. PICK h : SumsFrom(e, S, h) /\ SumFunctionOnSet(e, S) = h[S]
  BY SumFound
<1> QED BY <1>1, <1>2, SumAgrees

(* A sum of integers is one. *)
LEMMA SumIsInt ==
  ASSUME NEW f, NEW S, IsFiniteSet(S), \A x \in S : f[x] \in Int
  PROVE  SumFunctionOnSet(f, S) \in Int
<1>1. PICK g : SumsFrom(f, S, g) /\ SumFunctionOnSet(f, S) = g[S]
  BY SumFound
<1> QED BY <1>1, SumStepType

(* One seat and the others. *)
LEMMA SumWithout ==
  ASSUME NEW f, NEW S, IsFiniteSet(S), \A x \in S : f[x] \in Int, NEW x \in S
  PROVE  SumFunctionOnSet(f, S) = f[x] + SumFunctionOnSet(f, S \ {x})
<1>1. PICK g : SumsFrom(f, S, g) /\ SumFunctionOnSet(f, S) = g[S]
  BY SumFound
<1>2. IsFiniteSet(S \ {x})
  BY FS_RemoveElement
<1>3. PICK h : SumsFrom(f, S \ {x}, h) /\ SumFunctionOnSet(f, S \ {x}) = h[S \ {x}]
  BY <1>2, SumFound
<1>4. g[S \ {x}] = h[S \ {x}]
  <2>1. S \ {x} \in SUBSET (S \cap (S \ {x}))
    OBVIOUS
  <2> QED BY <1>1, <1>3, <2>1, SumAgrees
<1>5. g[S] = f[x] + g[S \ {x}]
  BY <1>1, SumPicksAny
<1> QED BY <1>1, <1>3, <1>4, <1>5

(* The sum over one seat is what it has. *)
LEMMA SumOfOne ==
  ASSUME NEW f, NEW x, f[x] \in Int
  PROVE  SumFunctionOnSet(f, {x}) = f[x]
<1>1. IsFiniteSet({x}) /\ x \in {x} /\ {x} \ {x} = {} /\ \A y \in {x} : f[y] \in Int
  BY FS_Singleton
<1>2. SumFunctionOnSet(f, {x}) = f[x] + SumFunctionOnSet(f, {x} \ {x})
  BY <1>1, SumWithout
<1> QED BY <1>1, <1>2, SumOfNone

(* What every seat has twice over adds up twice over. *)
LEMMA SumPlus ==
  ASSUME NEW S, IsFiniteSet(S), NEW f, NEW e, NEW k,
         \A x \in S : f[x] \in Int /\ e[x] \in Int /\ k[x] = f[x] + e[x]
  PROVE  SumFunctionOnSet(k, S) = SumFunctionOnSet(f, S) + SumFunctionOnSet(e, S)
<1> DEFINE Bad == {s \in SUBSET S :
       SumFunctionOnSet(k, s) # SumFunctionOnSet(f, s) + SumFunctionOnSet(e, s)}
<1>1. ASSUME Bad # {} PROVE FALSE
  <2>1. PICK s \in Bad : \A t \in Bad : Cardinality(s) <= Cardinality(t)
    BY <1>1, SmallestPart
  <2>2. s # {}
    BY <2>1, SumOfNone
  <2>3. PICK x \in s : TRUE
    BY <2>2
  <2>4. IsFiniteSet(s) /\ s \in SUBSET S
    BY <2>1, FS_Subset
  <2>5. s \ {x} \notin Bad
    BY <2>1, <2>3, <2>4, PartWithout
  <2> DEFINE r == s \ {x}
  <2>6. SumFunctionOnSet(k, r) = SumFunctionOnSet(f, r) + SumFunctionOnSet(e, r)
    BY <2>4, <2>5
  <2>7. \A y \in s : f[y] \in Int /\ e[y] \in Int /\ k[y] \in Int
    BY <2>4
  <2>8. /\ SumFunctionOnSet(k, s) = k[x] + SumFunctionOnSet(k, r)
        /\ SumFunctionOnSet(f, s) = f[x] + SumFunctionOnSet(f, r)
        /\ SumFunctionOnSet(e, s) = e[x] + SumFunctionOnSet(e, r)
    BY <2>3, <2>4, <2>7, SumWithout
  <2>9. SumFunctionOnSet(f, r) \in Int /\ SumFunctionOnSet(e, r) \in Int
    BY <2>4, <2>7, FS_RemoveElement, SumIsInt
  <2>10. k[x] = f[x] + e[x] /\ f[x] \in Int /\ e[x] \in Int
    BY <2>3, <2>4
  <2> QED BY <2>1, <2>6, <2>8, <2>9, <2>10
<1> QED BY <1>1

(* The seats of a part and the others. *)
LEMMA SumSplit ==
  ASSUME NEW f, NEW S, IsFiniteSet(S), \A x \in S : f[x] \in Int, NEW T \in SUBSET S
  PROVE  SumFunctionOnSet(f, S) = SumFunctionOnSet(f, T) + SumFunctionOnSet(f, S \ T)
<1> DEFINE Splits(t) == SumFunctionOnSet(f, S) = SumFunctionOnSet(f, t) + SumFunctionOnSet(f, S \ t)
           Bad == {t \in SUBSET S : ~Splits(t)}
<1>1. \A t \in SUBSET S : IsFiniteSet(t) /\ IsFiniteSet(S \ t) /\ SumFunctionOnSet(f, t) \in Int
  <2> SUFFICES ASSUME NEW t \in SUBSET S
      PROVE  IsFiniteSet(t) /\ IsFiniteSet(S \ t) /\ SumFunctionOnSet(f, t) \in Int
    OBVIOUS
  <2>1. IsFiniteSet(t) /\ IsFiniteSet(S \ t) /\ \A x \in t : f[x] \in Int
    BY FS_Subset
  <2> QED BY <2>1, SumIsInt
<1>2. ASSUME Bad # {} PROVE FALSE
  <2>1. PICK t \in Bad : \A u \in Bad : Cardinality(t) <= Cardinality(u)
    BY <1>2, SmallestPart
  <2>2. t \in SUBSET S /\ ~Splits(t)
    BY <2>1
  <2>3. t # {}
    <3>1. S \ {} = S /\ SumFunctionOnSet(f, {}) = 0 /\ SumFunctionOnSet(f, S) \in Int
      BY <1>1, SumOfNone
    <3>2. Splits({})
      BY <3>1
    <3> HIDE DEF Splits
    <3> QED BY <2>2, <3>2
  <2>4. PICK x \in t : TRUE
    BY <2>3
  <2> DEFINE r == t \ {x}
  <2>5. r \in SUBSET S /\ Cardinality(t) \in Nat /\ Cardinality(r) = Cardinality(t) - 1
    BY <2>2, PartWithout
  <2> HIDE DEF Splits
  <2>6. Splits(r)
    BY <2>1, <2>5
  <2>7. SumFunctionOnSet(f, t) = f[x] + SumFunctionOnSet(f, r)
    <3>1. IsFiniteSet(t) /\ (\A y \in t : f[y] \in Int) /\ x \in t
      BY <1>1, <2>2
    <3> QED BY <3>1, SumWithout
  <2>8. SumFunctionOnSet(f, S \ r) = f[x] + SumFunctionOnSet(f, S \ t)
    <3>1. x \in S \ r /\ (S \ r) \ {x} = S \ t
      BY <2>2
    <3>2. IsFiniteSet(S \ r) /\ \A y \in S \ r : f[y] \in Int
      BY <1>1, <2>5
    <3> QED BY <3>1, <3>2, SumWithout
  <2>9. /\ f[x] \in Int
        /\ SumFunctionOnSet(f, r) \in Int /\ SumFunctionOnSet(f, S \ t) \in Int
    BY <1>1, <2>2, <2>5
  <2>10. SumFunctionOnSet(f, S) = SumFunctionOnSet(f, r) + SumFunctionOnSet(f, S \ r)
    BY <2>6 DEF Splits
  <2> HIDE DEF r
  <2>11. Splits(t)
    BY <2>7, <2>8, <2>9, <2>10 DEF Splits
  <2> QED BY <2>2, <2>11
<1>3. \A t \in SUBSET S : Splits(t)
  BY <1>2
<1> QED BY <1>3

(* Chips that change hands within a part leave the sum of the whole as it is. *)
LEMMA SumMoves ==
  ASSUME NEW S, IsFiniteSet(S), NEW T \in SUBSET S, NEW f, NEW e,
         \A x \in S : f[x] \in Int /\ e[x] \in Int,
         \A x \in S \ T : f[x] = e[x],
         SumFunctionOnSet(f, T) = SumFunctionOnSet(e, T)
  PROVE  SumFunctionOnSet(f, S) = SumFunctionOnSet(e, S)
<1>1. SumFunctionOnSet(f, S) = SumFunctionOnSet(f, T) + SumFunctionOnSet(f, S \ T)
  BY SumSplit
<1>2. SumFunctionOnSet(e, S) = SumFunctionOnSet(e, T) + SumFunctionOnSet(e, S \ T)
  BY SumSplit
<1>3. IsFiniteSet(S \ T)
  BY FS_Subset
<1>4. SumFunctionOnSet(f, S \ T) = SumFunctionOnSet(e, S \ T)
  BY <1>3, SumSame
<1> QED BY <1>1, <1>2, <1>4

(* Sums of natural numbers are natural numbers. *)
LEMMA SumIsNat ==
  ASSUME NEW f, NEW S, IsFiniteSet(S), \A x \in S : f[x] \in Nat
  PROVE  SumFunctionOnSet(f, S) \in Nat
<1> DEFINE Bad == {s \in SUBSET S : SumFunctionOnSet(f, s) \notin Nat}
<1>1. ASSUME Bad # {} PROVE FALSE
  <2>1. PICK s \in Bad : \A t \in Bad : Cardinality(s) <= Cardinality(t)
    BY <1>1, SmallestPart
  <2>2. s \in SUBSET S /\ SumFunctionOnSet(f, s) \notin Nat
    BY <2>1
  <2>3. s # {}
    <3>1. SumFunctionOnSet(f, {}) = 0
      BY SumOfNone
    <3> QED BY <2>2, <3>1
  <2>4. PICK x \in s : TRUE
    BY <2>3
  <2>5. s \ {x} \in SUBSET S /\ Cardinality(s) \in Nat /\ Cardinality(s \ {x}) = Cardinality(s) - 1
    BY <2>2, PartWithout
  <2>6. s \ {x} \notin Bad
    BY <2>1, <2>5
  <2>7. SumFunctionOnSet(f, s \ {x}) \in Nat
    BY <2>5, <2>6
  <2>8. IsFiniteSet(s) /\ (\A y \in s : f[y] \in Int) /\ f[x] \in Nat
    BY <2>2, FS_Subset
  <2>9. SumFunctionOnSet(f, s) = f[x] + SumFunctionOnSet(f, s \ {x})
    BY <2>8, SumWithout
  <2> QED BY <2>2, <2>7, <2>8, <2>9
<1> QED BY <1>1

(* A number is at most the sum it is in. *)
LEMMA SumHolds ==
  ASSUME NEW f, NEW S, IsFiniteSet(S), \A x \in S : f[x] \in Nat, NEW x \in S
  PROVE  f[x] <= SumFunctionOnSet(f, S)
<1>1. IsFiniteSet(S \ {x})
  BY FS_Difference
<1>2. SumFunctionOnSet(f, S \ {x}) \in Nat
  BY <1>1, SumIsNat
<1>3. \A y \in S : f[y] \in Int
  OBVIOUS
<1>4. SumFunctionOnSet(f, S) = f[x] + SumFunctionOnSet(f, S \ {x})
  BY <1>3, SumWithout
<1> QED BY <1>2, <1>4

-----------------------------------------------------------------------------
(* Two sums at a time. *)

(* What holds of no seats, and of every part that it holds of without one of
   its seats, holds of all seats. *)
LEMMA EveryPart ==
  ASSUME NEW S, IsFiniteSet(S), NEW G, {} \in G,
         \A s \in SUBSET S : \A x \in s : s \ {x} \in G => s \in G
  PROVE  S \in G
<1> DEFINE Bad == {s \in SUBSET S : s \notin G}
<1>1. ASSUME Bad # {} PROVE FALSE
  <2>1. PICK s \in Bad : \A t \in Bad : Cardinality(s) <= Cardinality(t)
    BY ZenonT(60), <1>1, SmallestPart
  <2>2. s \in SUBSET S /\ s \notin G
    BY <2>1
  <2>3. PICK x \in s : TRUE
    BY <2>2
  <2>4. s \ {x} \in SUBSET S /\ Cardinality(s) \in Nat /\ Cardinality(s \ {x}) = Cardinality(s) - 1
    BY <2>2, PartWithout
  <2>5. s \ {x} \notin Bad
    <3> HIDE DEF Bad
    <3> QED BY <2>1, <2>4
  <2>6. s \ {x} \in G
    BY <2>4, <2>5
  <2> QED BY <2>2, <2>3, <2>6
<1> QED BY <1>1

(* Whoever has the same from everyone has it as often as there are seats. *)
LEMMA SumConst ==
  ASSUME NEW f, NEW S, IsFiniteSet(S), NEW c \in Int, \A x \in S : f[x] = c
  PROVE  SumFunctionOnSet(f, S) = c * Cardinality(S)
<1> DEFINE G == {s \in SUBSET S : SumFunctionOnSet(f, s) = c * Cardinality(s)}
<1>1. {} \in G
  BY SumOfNone, FS_EmptySet
<1>2. ASSUME NEW s \in SUBSET S, NEW x \in s, s \ {x} \in G PROVE s \in G
  <2>1. IsFiniteSet(s) /\ (\A y \in s : f[y] \in Int) /\ f[x] = c
    BY FS_Subset
  <2>2. SumFunctionOnSet(f, s) = c + SumFunctionOnSet(f, s \ {x})
    BY <2>1, SumWithout
  <2>3. Cardinality(s) \in Nat /\ Cardinality(s \ {x}) = Cardinality(s) - 1
    BY PartWithout
  <2>4. SumFunctionOnSet(f, s \ {x}) = c * (Cardinality(s) - 1)
    BY <1>2, <2>3
  <2>5. c + c * (Cardinality(s) - 1) = c * Cardinality(s)
    BY <2>3
  <2> QED BY <2>2, <2>4, <2>5
<1>3. S \in G
  <2> HIDE DEF G
  <2> QED BY <1>1, <1>2, EveryPart
<1> QED BY <1>3

(* Seats without chips have no chips together. *)
LEMMA SumZero ==
  ASSUME NEW f, NEW S, IsFiniteSet(S), \A x \in S : f[x] = 0
  PROVE  SumFunctionOnSet(f, S) = 0
<1>1. SumFunctionOnSet(f, S) = 0 * Cardinality(S)
  BY SumConst
<1>2. Cardinality(S) \in Nat
  BY FS_CardinalityType
<1> QED BY <1>1, <1>2

(* Who has no more than another anywhere has no more altogether. *)
LEMMA SumMono ==
  ASSUME NEW f, NEW e, NEW S, IsFiniteSet(S),
         \A x \in S : f[x] \in Int /\ e[x] \in Int /\ f[x] <= e[x]
  PROVE  SumFunctionOnSet(f, S) <= SumFunctionOnSet(e, S)
<1> DEFINE G == {s \in SUBSET S : SumFunctionOnSet(f, s) <= SumFunctionOnSet(e, s)}
<1>1. {} \in G
  BY SumOfNone
<1>2. ASSUME NEW s \in SUBSET S, NEW x \in s, s \ {x} \in G PROVE s \in G
  <2> DEFINE r == s \ {x}
  <2>1. IsFiniteSet(s) /\ IsFiniteSet(r) /\ \A y \in s : f[y] \in Int /\ e[y] \in Int
    BY FS_Subset
  <2>2. /\ SumFunctionOnSet(f, s) = f[x] + SumFunctionOnSet(f, r)
        /\ SumFunctionOnSet(e, s) = e[x] + SumFunctionOnSet(e, r)
    BY <2>1, SumWithout
  <2>3. SumFunctionOnSet(f, r) \in Int /\ SumFunctionOnSet(e, r) \in Int
    BY <2>1, SumIsInt
  <2>4. SumFunctionOnSet(f, r) <= SumFunctionOnSet(e, r)
    BY <1>2
  <2>5. f[x] \in Int /\ e[x] \in Int /\ f[x] <= e[x]
    OBVIOUS
  <2> HIDE DEF r
  <2>6. SumFunctionOnSet(f, s) <= SumFunctionOnSet(e, s)
    BY <2>2, <2>3, <2>4, <2>5
  <2> QED BY <2>6
<1>3. S \in G
  <2> HIDE DEF G
  <2> QED BY <1>1, <1>2, EveryPart
<1> QED BY <1>3

(* Two ways to write down the amounts of S by T, with what each row and each
   column adds up to. *)
Crossed(S, T, M, K, r, c) ==
  /\ \A x \in S : \A y \in T : M[x][y] \in Int /\ K[y][x] = M[x][y]
  /\ \A x \in S : r[x] = SumFunctionOnSet(M[x], T)
  /\ \A y \in T : c[y] = SumFunctionOnSet(K[y], S)

(* Amounts have one total, whether its rows or its columns are
   added up first. *)
LEMMA SumSwap ==
  ASSUME NEW S, IsFiniteSet(S), NEW T, IsFiniteSet(T), NEW M, NEW K, NEW r, NEW c,
         Crossed(S, T, M, K, r, c)
  PROVE  SumFunctionOnSet(r, S) = SumFunctionOnSet(c, T)
<1> DEFINE Part(s) == [y \in T |-> SumFunctionOnSet(K[y], s)]
           G == {s \in SUBSET S : SumFunctionOnSet(r, s) = SumFunctionOnSet(Part(s), T)}
<1>0. /\ \A x \in S : \A y \in T : M[x][y] \in Int /\ K[y][x] = M[x][y]
      /\ \A x \in S : r[x] = SumFunctionOnSet(M[x], T)
      /\ \A y \in T : c[y] = SumFunctionOnSet(K[y], S)
  BY DEF Crossed
<1>1. {} \in G
  <2>1. \A y \in T : Part({})[y] = 0
    BY SumOfNone
  <2>2. SumFunctionOnSet(Part({}), T) = 0
    <3> HIDE DEF Part
    <3> QED BY <2>1, SumZero
  <2>3. SumFunctionOnSet(r, {}) = 0
    BY SumOfNone
  <2> HIDE DEF Part
  <2> QED BY <2>2, <2>3
<1>2. ASSUME NEW s \in SUBSET S, NEW x \in s, s \ {x} \in G PROVE s \in G
  <2> DEFINE u == s \ {x}
  <2>1. IsFiniteSet(s) /\ IsFiniteSet(u) /\ x \in S
    BY FS_Subset
  <2>2. \A y \in s : r[y] \in Int
    <3> SUFFICES ASSUME NEW y \in s PROVE r[y] \in Int
      OBVIOUS
    <3>1. \A z \in T : M[y][z] \in Int
      BY <1>0
    <3>2. SumFunctionOnSet(M[y], T) \in Int
      BY <3>1, SumIsInt
    <3> QED BY <1>0, <3>2
  <2>3. SumFunctionOnSet(r, s) = r[x] + SumFunctionOnSet(r, u)
    BY <2>1, <2>2, SumWithout
  <2>4. ASSUME NEW y \in T
        PROVE  /\ M[x][y] \in Int /\ Part(u)[y] \in Int
               /\ Part(s)[y] = M[x][y] + Part(u)[y]
    <3>1. \A z \in s : K[y][z] \in Int
      BY <1>0
    <3>2. SumFunctionOnSet(K[y], s) = K[y][x] + SumFunctionOnSet(K[y], u)
      BY <2>1, <3>1, SumWithout
    <3>3. SumFunctionOnSet(K[y], u) \in Int
      BY <2>1, <3>1, SumIsInt
    <3> HIDE DEF u
    <3>4. K[y][x] = M[x][y] /\ M[x][y] \in Int
      BY <1>0, <2>1
    <3> QED BY <3>2, <3>3, <3>4
  <2> HIDE DEF u
  <2>5. SumFunctionOnSet(Part(s), T) = SumFunctionOnSet(M[x], T) + SumFunctionOnSet(Part(u), T)
    <3> HIDE DEF Part
    <3> QED BY <2>4, SumPlus
  <2>6. SumFunctionOnSet(r, u) = SumFunctionOnSet(Part(u), T)
    BY <1>2 DEF u
  <2>7. r[x] = SumFunctionOnSet(M[x], T)
    BY <1>0, <2>1
  <2> HIDE DEF Part
  <2> QED BY <2>3, <2>5, <2>6, <2>7
<1>3. S \in G
  <2> HIDE DEF G
  <2> QED BY <1>1, <1>2, EveryPart
<1>4. SumFunctionOnSet(Part(S), T) = SumFunctionOnSet(c, T)
  <2>1. \A y \in T : Part(S)[y] = c[y]
    BY <1>0
  <2> HIDE DEF Part
  <2> QED BY <2>1, SumSame
<1> HIDE DEF Part
<1> QED BY <1>3, <1>4

(* Under other names there are no more of them. *)
LEMMA ImageFinite ==
  ASSUME NEW S, IsFiniteSet(S), NEW b
  PROVE  IsFiniteSet({b[x] : x \in S})
<1> DEFINE T == {b[x] : x \in S}
           f == [x \in S |-> b[x]]
<1>1. f \in [S -> T] /\ \A y \in T : \E x \in S : f[x] = y
  OBVIOUS
<1>2. f \in Surjection(S, T)
  <2> HIDE DEF f, T
  <2> QED BY <1>1 DEF Surjection
<1> HIDE DEF f, T
<1>3. IsFiniteSet(T)
  BY <1>2, FS_Surjection
<1> QED BY <1>3 DEF T

(* A sum may be taken over other names for the same things. *)
LEMMA SumReindex ==
  ASSUME NEW L, IsFiniteSet(L), NEW b, NEW f, NEW e,
         \A x, y \in L : b[x] = b[y] => x = y,
         \A x \in L : e[x] \in Int /\ f[b[x]] = e[x]
  PROVE  SumFunctionOnSet(f, {b[x] : x \in L}) = SumFunctionOnSet(e, L)
<1> DEFINE Image(s) == {b[x] : x \in s}
           G == {s \in SUBSET L : SumFunctionOnSet(f, Image(s)) = SumFunctionOnSet(e, s)}
<1>1. {} \in G
  <2>1. Image({}) = {}
    OBVIOUS
  <2> HIDE DEF Image
  <2> QED BY <2>1, SumOfNone
<1>2. ASSUME NEW s \in SUBSET L, NEW x \in s, s \ {x} \in G PROVE s \in G
  <2> DEFINE u == s \ {x}
  <2>1. IsFiniteSet(s) /\ (\A y \in s : e[y] \in Int) /\ x \in L
    BY FS_Subset
  <2>2. SumFunctionOnSet(e, s) = e[x] + SumFunctionOnSet(e, u)
    BY <2>1, SumWithout
  <2>3. Image(s) \ {b[x]} = Image(u) /\ b[x] \in Image(s)
    OBVIOUS
  <2>4. \A z \in Image(s) : f[z] \in Int
    OBVIOUS
  <2>5. IsFiniteSet(Image(s))
    BY <2>1, ImageFinite
  <2>6. SumFunctionOnSet(f, Image(s)) = f[b[x]] + SumFunctionOnSet(f, Image(s) \ {b[x]})
    <3> HIDE DEF Image
    <3> QED BY <2>3, <2>4, <2>5, SumWithout
  <2>7. SumFunctionOnSet(f, Image(u)) = SumFunctionOnSet(e, u)
    BY <1>2
  <2> HIDE DEF u, Image
  <2> QED BY <2>1, <2>2, <2>3, <2>6, <2>7
<1>3. L \in G
  <2> HIDE DEF G
  <2> QED BY <1>1, <1>2, EveryPart
<1> QED BY <1>3

-----------------------------------------------------------------------------
(* Seats in an order. *)

(* One of them is at least as strong as all. *)
LEMMA StrongestOf ==
  ASSUME NEW S, IsFiniteSet(S), S # {}, NEW f, \A x \in S : f[x] \in Int
  PROVE  \E x \in S : \A y \in S : f[x] >= f[y]
<1> DEFINE Best(s, x) == \A y \in s : f[x] >= f[y]
           G == {s \in SUBSET S : s # {} => \E x \in s : Best(s, x)}
<1>1. {} \in G
  OBVIOUS
<1>2. ASSUME NEW s \in SUBSET S, NEW x \in s, s \ {x} \in G PROVE s \in G
  <2>1. f[x] \in Int
    OBVIOUS
  <2>2. CASE s \ {x} = {}
    <3>1. \A y \in s : y = x
      BY <2>2
    <3>2. Best(s, x)
      BY <2>1, <3>1
    <3> QED BY <3>2
  <2>3. CASE s \ {x} # {}
    <3>1. PICK z \in s \ {x} : Best(s \ {x}, z)
      BY <1>2, <2>3
    <3>2. f[z] \in Int
      OBVIOUS
    <3>3. CASE f[x] >= f[z]
      <4>1. Best(s, x)
        <5> SUFFICES ASSUME NEW y \in s PROVE f[x] >= f[y]
          OBVIOUS
        <5>1. f[y] \in Int /\ (y # x => f[z] >= f[y])
          BY <3>1
        <5> QED BY <2>1, <3>2, <3>3, <5>1
      <4> QED BY <4>1
    <3>4. CASE ~ (f[x] >= f[z])
      <4>1. Best(s, z)
        <5> SUFFICES ASSUME NEW y \in s PROVE f[z] >= f[y]
          OBVIOUS
        <5>1. f[y] \in Int /\ (y # x => f[z] >= f[y])
          BY <3>1
        <5> QED BY <2>1, <3>2, <3>4, <5>1
      <4> QED BY <4>1
    <3> QED BY <3>3, <3>4
  <2> QED BY <2>2, <2>3
<1>3. S \in G
  <2> HIDE DEF G
  <2> QED BY <1>1, <1>2, EveryPart
<1> QED BY <1>3

(* rank numbers S along key: with how many come before. *)
Ranks(S, key, rank) ==
  /\ \A x \in S : key[x] \in Int
  /\ \A x, y \in S : key[x] = key[y] => x = y
  /\ \A x \in S : rank[x] = Cardinality({y \in S : key[y] < key[x]})

(* No two have the same number, and the numbers are those below n. *)
Numbered(S, n, f) ==
  /\ \A x \in S : f[x] \in 0 .. n - 1
  /\ \A x, y \in S : f[x] = f[y] => x = y
  /\ \A i \in 0 .. n - 1 : \E x \in S : f[x] = i

(* As many as there are numbers they are numbered with. *)
LEMMA NumberedOneToOne ==
  ASSUME NEW S, NEW n \in Nat, NEW f, Numbered(S, n, f)
  PROVE  IsFiniteSet(S) /\ Cardinality(S) = n
<1> DEFINE g == [x \in S |-> f[x]]
           N == 0 .. n - 1
<1>1. g \in [S -> N] /\ (\A x, y \in S : g[x] = g[y] => x = y) /\ \A i \in N : \E x \in S : g[x] = i
  BY DEF Numbered
<1>2. IsFiniteSet(N) /\ Cardinality(N) = n
  BY FS_Interval
<1> HIDE DEF g, N
<1>3. g \in Injection(S, N) /\ g \in Surjection(S, N)
  BY <1>1 DEF Injection, IsInjective, Surjection
<1> QED BY <1>2, <1>3, FS_Injection

(* The seats before one in an order number it, from none to all but one. *)
LEMMA RankOnto ==
  ASSUME NEW S, IsFiniteSet(S), NEW key, NEW rank, Ranks(S, key, rank)
  PROVE  Numbered(S, Cardinality(S), rank)
<1> DEFINE Before(x) == {y \in S : key[y] < key[x]}
           n == Cardinality(S)
           N == 0 .. n - 1
<1>1. n \in Nat
  BY FS_CardinalityType
<1>2. ASSUME NEW x \in S PROVE IsFiniteSet(Before(x)) /\ Cardinality(Before(x)) \in Nat
  BY FS_Subset, FS_CardinalityType
<1>3. ASSUME NEW x \in S PROVE rank[x] \in N
  <2>1. Before(x) \subseteq S \ {x}
    <3>1. key[x] \in Int
      BY DEF Ranks
    <3>2. ~ (key[x] < key[x])
      BY <3>1
    <3> QED BY <3>2
  <2>2. IsFiniteSet(S \ {x}) /\ Cardinality(S \ {x}) = n - 1
    BY FS_RemoveElement
  <2>3. Cardinality(Before(x)) <= n - 1
    <3> HIDE DEF Before, n
    <3> QED BY <2>1, <2>2, FS_Subset
  <2>4. rank[x] = Cardinality(Before(x))
    BY DEF Ranks
  <2> HIDE DEF Before, n
  <2> QED BY <1>1, <1>2, <2>3, <2>4
<1>4. ASSUME NEW x \in S, NEW y \in S, key[x] < key[y] PROVE rank[x] # rank[y]
  <2>1. Before(x) \subseteq Before(y) \ {x} /\ x \in Before(y)
    <3>1. \A z \in S : key[z] \in Int
      BY DEF Ranks
    <3> QED BY <1>4, <3>1
  <2>2. rank[x] = Cardinality(Before(x)) /\ rank[y] = Cardinality(Before(y))
    BY DEF Ranks
  <2> HIDE DEF Before
  <2>3. /\ IsFiniteSet(Before(y) \ {x})
        /\ Cardinality(Before(y) \ {x}) = Cardinality(Before(y)) - 1
    BY <1>2, <2>1, FS_RemoveElement
  <2>4. Cardinality(Before(x)) <= Cardinality(Before(y)) - 1
    BY <2>1, <2>3, FS_Subset
  <2>5. Cardinality(Before(x)) \in Nat /\ Cardinality(Before(y)) \in Nat
    BY <1>2
  <2> QED BY <2>2, <2>4, <2>5
<1>5. ASSUME NEW x \in S, NEW y \in S, rank[x] = rank[y] PROVE x = y
  <2>1. ~ (key[x] < key[y]) /\ ~ (key[y] < key[x])
    BY <1>4, <1>5
  <2>2. key[x] = key[y]
    BY <2>1 DEF Ranks
  <2> QED BY <2>2 DEF Ranks
<1> DEFINE f == [x \in S |-> rank[x]]
<1>6. f \in [S -> N] /\ \A x, y \in S : f[x] = f[y] => x = y
  <2> HIDE DEF N
  <2> QED BY <1>3, <1>5
<1>7. IsFiniteSet(N) /\ Cardinality(N) = n
  BY SMTT(40), <1>1, FS_Interval
<1>8. f \in Surjection(S, N)
  <2> HIDE DEF f, N, n
  <2>1. f \in Injection(S, N)
    BY <1>6 DEF Injection, IsInjective
  <2>2. Cardinality(S) = Cardinality(N)
    BY <1>7 DEF n
  <2> QED BY <1>7, <2>1, <2>2, FS_Injection
<1>9. \A i \in N : \E x \in S : f[x] = i
  <2> HIDE DEF f, N
  <2> QED BY <1>8 DEF Surjection
<1> QED BY <1>3, <1>5, <1>9 DEF Numbered

(* As many seats are among the first r as there are numbers below r. *)
LEMMA RankCount ==
  ASSUME NEW S, IsFiniteSet(S), NEW key, NEW rank, Ranks(S, key, rank),
         NEW r \in Nat, r <= Cardinality(S)
  PROVE  Cardinality({x \in S : rank[x] < r}) = r
<1> DEFINE F == {x \in S : rank[x] < r}
<1>1. Cardinality(S) \in Nat
  BY FS_CardinalityType
<1>2. Numbered(S, Cardinality(S), rank)
  BY RankOnto
<1>3. \A x \in F : rank[x] \in 0 .. r - 1
  BY <1>1, <1>2 DEF Numbered
<1>4. \A x, y \in F : rank[x] = rank[y] => x = y
  BY <1>2 DEF Numbered
<1>5. ASSUME NEW i \in 0 .. r - 1 PROVE \E x \in F : rank[x] = i
  <2>1. i \in 0 .. Cardinality(S) - 1 /\ i < r
    BY <1>1
  <2>2. PICK x \in S : rank[x] = i
    BY <1>2, <2>1 DEF Numbered
  <2> QED BY <2>1, <2>2
<1> HIDE DEF F
<1>6. Numbered(F, r, rank)
  BY <1>3, <1>4, <1>5 DEF Numbered
<1>7. Cardinality(F) = r
  BY <1>6, NumberedOneToOne
<1> QED BY <1>7 DEF F

(* Equal parts, and one more for each of the first r. *)
LEMMA SumShares ==
  ASSUME NEW S, IsFiniteSet(S), NEW key, NEW rank, Ranks(S, key, rank),
         NEW r \in Nat, r <= Cardinality(S), NEW q \in Int,
         NEW f, \A x \in S : f[x] = q + (IF rank[x] < r THEN 1 ELSE 0)
  PROVE  SumFunctionOnSet(f, S) = q * Cardinality(S) + r
<1> DEFINE F == {x \in S : rank[x] < r}
           equal == [x \in S |-> q]
           odd == [x \in S |-> IF x \in F THEN 1 ELSE 0]
<1>1. Cardinality(F) = r
  BY RankCount DEF F
<1>2. F \in SUBSET S /\ IsFiniteSet(F) /\ IsFiniteSet(S \ F)
  BY FS_Subset
<1>3. \A x \in S : equal[x] = q /\ odd[x] \in Int /\ equal[x] \in Int /\ f[x] = equal[x] + odd[x]
  OBVIOUS
<1>4. (\A x \in F : odd[x] = 1) /\ \A x \in S \ F : odd[x] = 0
  OBVIOUS
<1> HIDE DEF F, equal, odd
<1>5. SumFunctionOnSet(f, S) = SumFunctionOnSet(equal, S) + SumFunctionOnSet(odd, S)
  BY <1>3, SumPlus
<1>6. SumFunctionOnSet(equal, S) = q * Cardinality(S)
  BY <1>3, SumConst
<1>7. SumFunctionOnSet(odd, F) = 1 * Cardinality(F)
  BY <1>2, <1>4, SumConst
<1>8. SumFunctionOnSet(odd, S \ F) = 0
  BY <1>2, <1>4, SumZero
<1>9. SumFunctionOnSet(odd, S) = SumFunctionOnSet(odd, F) + SumFunctionOnSet(odd, S \ F)
  BY <1>2, <1>3, SumSplit
<1> QED BY <1>1, <1>5, <1>6, <1>7, <1>8, <1>9

(* p leads from a level to the one below, and f is the distance. *)
Stairs(K, p, f) ==
  \A l \in K : /\ p[l] \in K \cup {0} /\ p[l] < l /\ f[l] = l - p[l]
               /\ \A k \in K : k < l => k <= p[l]

(* The levels up to one. *)
UpTo(K, m) == {l \in K : l <= m}

(* The distances up to a level add up to it. *)
LEMMA SumSteps ==
  ASSUME NEW K, IsFiniteSet(K), \A l \in K : l \in Nat /\ l > 0,
         NEW p, NEW f, Stairs(K, p, f), NEW m \in K \cup {0}
  PROVE  SumFunctionOnSet(f, UpTo(K, m)) = m
<1> DEFINE Upto(k) == {l \in K : l <= k}
           Bad == {k \in K \cup {0} : SumFunctionOnSet(f, Upto(k)) # k}
<1>1. ASSUME Bad # {} PROVE FALSE
  <2>1. Bad \subseteq Nat
    OBVIOUS
  <2>2. PICK k \in Bad : \A j \in Bad : k <= j
    <3> HIDE DEF Bad
    <3> QED BY <1>1, <2>1, LeastOf
  <2>3. k \in K \cup {0} /\ k \in Nat /\ SumFunctionOnSet(f, Upto(k)) # k
    BY <2>1, <2>2
  <2>4. CASE k = 0
    <3>1. \A l \in K : ~ (l <= 0)
      OBVIOUS
    <3>2. Upto(0) = {}
      BY <3>1
    <3> HIDE DEF Upto
    <3> QED BY <2>3, <2>4, <3>2, SumOfNone
  <2>5. CASE k # 0
    <3>1. k \in K /\ p[k] \in K \cup {0} /\ p[k] < k /\ f[k] = k - p[k]
      BY <2>3, <2>5 DEF Stairs
    <3>2. p[k] \in Nat
      <4>1. CASE p[k] = 0
        BY <4>1
      <4>2. CASE p[k] \in K
        BY <4>2
      <4> QED BY <3>1, <4>1, <4>2
    <3> DEFINE below == p[k]
    <3>3. \A l \in K : (l < k => l <= below) /\ l \in Nat
      BY <3>1 DEF Stairs
    <3>4. below \notin Bad
      <4> HIDE DEF Bad
      <4> QED BY <2>2, <2>3, <3>1, <3>2
    <3>5. SumFunctionOnSet(f, Upto(below)) = below
      BY <3>1, <3>4
    <3>6. below \in Nat /\ below < k /\ f[k] = k - below
      BY <3>1, <3>2
    <3> HIDE DEF below
    <3>7. \A l \in K : (l <= k /\ l # k) <=> l <= below
      BY <2>3, <3>3, <3>6
    <3>8. Upto(k) \ {k} = Upto(below) /\ k \in Upto(k)
      <4>1. k <= k /\ k \in K
        BY <2>3, <3>1
      <4> QED BY <3>7, <4>1
    <3>9. IsFiniteSet(Upto(k)) /\ \A l \in Upto(k) : f[l] \in Int
      <4>1. IsFiniteSet(Upto(k))
        BY FS_Subset
      <4>2. ASSUME NEW l \in K PROVE f[l] \in Int
        <5>1. f[l] = l - p[l] /\ p[l] \in K \cup {0}
          BY DEF Stairs
        <5> DEFINE q == p[l]
        <5>2. q \in Nat
          BY <5>1
        <5> HIDE DEF q
        <5>3. f[l] = l - q
          BY <5>1 DEF q
        <5> QED BY <5>2, <5>3
      <4> QED BY <4>1, <4>2
    <3>10. SumFunctionOnSet(f, Upto(k)) = f[k] + SumFunctionOnSet(f, Upto(k) \ {k})
      <4> HIDE DEF Upto
      <4> QED BY <3>8, <3>9, SumWithout
    <3> HIDE DEF Upto
    <3> QED BY SMTT(40), <2>3, <3>5, <3>6, <3>8, <3>10
  <2> QED BY <2>4, <2>5
<1>2. SumFunctionOnSet(f, Upto(m)) = m
  BY <1>1
<1> QED BY <1>2 DEF UpTo

(* A multiple of every part adds up to the multiple of the sum. *)
LEMMA SumScaled ==
  ASSUME NEW S, IsFiniteSet(S), NEW f, NEW e, NEW c \in Int,
         \A x \in S : f[x] \in Int /\ e[x] = c * f[x]
  PROVE  SumFunctionOnSet(e, S) = c * SumFunctionOnSet(f, S)
<1> DEFINE G == {s \in SUBSET S : SumFunctionOnSet(e, s) = c * SumFunctionOnSet(f, s)}
<1>1. {} \in G
  BY SumOfNone
<1>2. ASSUME NEW s \in SUBSET S, NEW x \in s, s \ {x} \in G PROVE s \in G
  <2> DEFINE u == s \ {x}
  <2>1. IsFiniteSet(s) /\ IsFiniteSet(u) /\ x \in S
    BY FS_Subset
  <2>2. \A y \in s : f[y] \in Int /\ e[y] \in Int
    <3> SUFFICES ASSUME NEW y \in s PROVE f[y] \in Int /\ e[y] \in Int
      OBVIOUS
    <3>1. f[y] \in Int /\ e[y] = c * f[y]
      OBVIOUS
    <3> QED BY <3>1
  <2>3. SumFunctionOnSet(f, s) = f[x] + SumFunctionOnSet(f, u)
    BY <2>1, <2>2, SumWithout
  <2>4. SumFunctionOnSet(e, s) = e[x] + SumFunctionOnSet(e, u)
    BY <2>1, <2>2, SumWithout
  <2>5. SumFunctionOnSet(e, u) = c * SumFunctionOnSet(f, u)
    BY <1>2
  <2>6. SumFunctionOnSet(f, u) \in Int
    BY <2>1, <2>2, SumIsInt
  <2>7. f[x] \in Int /\ e[x] = c * f[x]
    BY <2>1
  <2> HIDE DEF u
  <2>8. \A a, b \in Int : c * (a + b) = c * a + c * b
    OBVIOUS
  <2>9. SumFunctionOnSet(e, s) = c * SumFunctionOnSet(f, s)
    BY <2>3, <2>4, <2>5, <2>6, <2>7, <2>8
  <2> QED BY <2>9
<1>3. S \in G
  <2> HIDE DEF G
  <2> QED BY <1>1, <1>2, EveryPart
<1> QED BY <1>3

(* One for each element of a part adds up to the number of them. *)
LEMMA SumMarked ==
  ASSUME NEW S, IsFiniteSet(S), NEW T \in SUBSET S, NEW f,
         \A x \in S : f[x] = IF x \in T THEN 1 ELSE 0
  PROVE  SumFunctionOnSet(f, S) = Cardinality(T)
<1>1. IsFiniteSet(T) /\ IsFiniteSet(S \ T) /\ Cardinality(T) \in Nat
  BY FS_Subset, FS_CardinalityType
<1>2. (\A x \in S : f[x] \in Int) /\ (\A x \in T : f[x] = 1) /\ \A x \in S \ T : f[x] = 0
  OBVIOUS
<1>3. SumFunctionOnSet(f, T) = 1 * Cardinality(T)
  BY <1>1, <1>2, SumConst
<1>4. SumFunctionOnSet(f, S \ T) = 0
  BY <1>1, <1>2, SumZero
<1>5. SumFunctionOnSet(f, S) = SumFunctionOnSet(f, T) + SumFunctionOnSet(f, S \ T)
  BY <1>2, SumSplit
<1> QED BY <1>1, <1>3, <1>4, <1>5

(* s lists S along key. *)
Lists(s, S, key) ==
  /\ s \in [1 .. Cardinality(S) -> S]
  /\ \A i, j \in 1 .. Cardinality(S) : i < j => key[s[i]] < key[s[j]]

(* A finite set can be listed along a key. *)
LEMMA ListedAlong ==
  ASSUME NEW S, IsFiniteSet(S), NEW key,
         \A x \in S : key[x] \in Int,
         \A x, y \in S : key[x] = key[y] => x = y
  PROVE  \E s : Lists(s, S, key)
<1> DEFINE Before(x) == {y \in S : key[y] < key[x]}
           rank == [x \in S |-> Cardinality(Before(x))]
           n == Cardinality(S)
           s == [i \in 1 .. n |-> CHOOSE x \in S : rank[x] = i - 1]
<1>1. n \in Nat
  BY FS_CardinalityType
<1>2. Ranks(S, key, rank)
  BY DEF Ranks
<1>3. Numbered(S, n, rank)
  <2> HIDE DEF rank
  <2> QED BY <1>2, RankOnto
<1>4. ASSUME NEW i \in 1 .. n PROVE s[i] \in S /\ rank[s[i]] = i - 1
  <2> HIDE DEF rank, n
  <2>1. i - 1 \in 0 .. n - 1
    BY <1>1
  <2>2. \E x \in S : rank[x] = i - 1
    BY <1>3, <2>1 DEF Numbered
  <2> QED BY <2>2
<1>5. ASSUME NEW x \in S, NEW y \in S, rank[x] < rank[y] PROVE key[x] < key[y]
  <2>1. ASSUME ~ (key[x] < key[y]) PROVE FALSE
    <3>1. \A z \in S : key[z] < key[y] => key[z] < key[x]
      BY <2>1
    <3>2. Before(y) \subseteq Before(x)
      BY <3>1
    <3>3. IsFiniteSet(Before(x)) /\ IsFiniteSet(Before(y))
      BY FS_Subset
    <3>4. rank[x] = Cardinality(Before(x)) /\ rank[y] = Cardinality(Before(y))
      OBVIOUS
    <3> HIDE DEF Before, rank
    <3>5. Cardinality(Before(y)) <= Cardinality(Before(x))
      BY <3>2, <3>3, FS_Subset
    <3>6. Cardinality(Before(y)) \in Nat /\ Cardinality(Before(x)) \in Nat
      BY <3>3, FS_CardinalityType
    <3> QED BY <1>5, <3>4, <3>5, <3>6
  <2> QED BY <2>1
<1>6. s \in [1 .. n -> S]
  BY <1>4
<1> HIDE DEF s, rank
<1>7. ASSUME NEW i \in 1 .. n, NEW j \in 1 .. n, i < j PROVE key[s[i]] < key[s[j]]
  <2>1. rank[s[i]] < rank[s[j]]
    BY <1>1, <1>4, <1>7
  <2> QED BY <1>4, <1>5, <2>1
<1> QED BY <1>6, <1>7 DEF Lists

=============================================================================
