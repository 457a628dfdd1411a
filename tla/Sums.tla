-------------------------------- MODULE Sums --------------------------------
(***************************************************************************)
(* Sums over finite sets, for the proofs about head counts, hours and      *)
(* money.  The models add with the folds of the community modules, which   *)
(* draw the elements in a fixed order.  SumOf is that fold of a function,  *)
(* and the lemmas say that the order does not matter.                      *)
(*                                                                         *)
(* The induction over a set is that of a least counterexample.             *)
(***************************************************************************)
EXTENDS Naturals, FiniteSets, FiniteSetTheorems, WellFoundedInduction, TLAPS

AnyOf(s) == CHOOSE x \in s : TRUE

(* it adds f over each part of S.                                            *)
Adds(it, f, S) == it = [s \in SUBSET S |-> IF s = {} THEN 0 ELSE f[AnyOf(s)] + it[s \ {AnyOf(s)}]]

SumOf(f, S) == CHOOSE v : \E it : Adds(it, f, S) /\ v = it[S]

-----------------------------------------------------------------------------
(* Induction.                                                              *)
LEMMA LeastNat ==
  ASSUME NEW T, T \subseteq Nat, T # {}
  PROVE  \E n \in T : \A m \in T : ~(m < n)
<1> DEFINE R == OpToRel(<, Nat)
<1>1. IsWellFoundedOn(R, Nat)
  BY NatLessThanWellFounded
<1>2. \A x, y \in Nat : x < y => <<x, y>> \in R
  BY DEF OpToRel
<1> HIDE DEF R
<1>3. \E x \in T : \A y \in T : ~(<<y, x>> \in R)
  BY <1>1, WFMin
<1> QED
  BY <1>2, <1>3

(* What has every part of S that has its parts in it, has S.                 *)
LEMMA SetInduction ==
  ASSUME NEW S, IsFiniteSet(S), NEW T,
         \A s \in SUBSET S : (\A u \in SUBSET s : u # s => u \in T) => s \in T
  PROVE  \A s \in SUBSET S : s \in T
<1> DEFINE Size == {Cardinality(s) : s \in (SUBSET S) \ T}
<1>1. \A s \in SUBSET S : IsFiniteSet(s) /\ Cardinality(s) \in Nat
  BY FS_Subset, FS_CardinalityType
<1> SUFFICES ASSUME (SUBSET S) \ T # {} PROVE FALSE
  OBVIOUS
<1>2. Size \subseteq Nat /\ Size # {}
  BY <1>1
<1>3. \E n \in Size : \A m \in Size : ~(m < n)
  <2> HIDE DEF Size
  <2> QED
    BY <1>2, LeastNat
<1>4. PICK s \in (SUBSET S) \ T : \A u \in (SUBSET S) \ T : ~(Cardinality(u) < Cardinality(s))
  BY <1>3
<1>5. ASSUME NEW u \in SUBSET s, u # s PROVE u \in T
  <2>1. Cardinality(u) < Cardinality(s)
    BY <1>1, <1>5, FS_Subset
  <2> QED
    BY <1>4, <2>1
<1> QED
  BY <1>4, <1>5

-----------------------------------------------------------------------------
(* There is one sum.                                                       *)
LEMMA AnyIn ==
  ASSUME NEW s, s # {}
  PROVE  AnyOf(s) \in s
  BY DEF AnyOf

LEMMA AddsOnce ==
  ASSUME NEW S, IsFiniteSet(S), NEW f, NEW g, \A x \in S : f[x] = g[x],
         NEW it, Adds(it, f, S), NEW jt, Adds(jt, g, S)
  PROVE  \A s \in SUBSET S : it[s] = jt[s]
<1> DEFINE T == {s \in SUBSET S : it[s] = jt[s]}
<1>1. ASSUME NEW s \in SUBSET S, \A u \in SUBSET s : u # s => u \in T PROVE s \in T
  <2>1. it[s] = IF s = {} THEN 0 ELSE f[AnyOf(s)] + it[s \ {AnyOf(s)}]
    BY DEF Adds
  <2>2. jt[s] = IF s = {} THEN 0 ELSE g[AnyOf(s)] + jt[s \ {AnyOf(s)}]
    BY DEF Adds
  <2>3. CASE s # {}
    <3>1. AnyOf(s) \in s /\ f[AnyOf(s)] = g[AnyOf(s)]
      BY <2>3, AnyIn
    <3>2. s \ {AnyOf(s)} \in T
      BY <1>1, <3>1
    <3> QED
      BY <2>1, <2>2, <2>3, <3>1, <3>2
  <2> QED
    BY <2>1, <2>2, <2>3
<1> HIDE DEF T
<1>2. \A s \in SUBSET S : s \in T
  BY <1>1, SetInduction
<1> QED
  BY <1>2 DEF T

(* The parts of up to n elements can be added, whatever n.                   *)
LEMMA AddsExist ==
  ASSUME NEW S, IsFiniteSet(S), NEW f
  PROVE  \E it : Adds(it, f, S)
<1> DEFINE Body(g, s) == IF s = {} THEN 0 ELSE f[AnyOf(s)] + g[s \ {AnyOf(s)}]
           Upto(g, n) == \A s \in SUBSET S : Cardinality(s) <= n => g[s] = Body(g, s)
           Bad == {n \in Nat : ~\E g : Upto(g, n)}
<1>1. \A s \in SUBSET S : IsFiniteSet(s) /\ Cardinality(s) \in Nat
  BY FS_Subset, FS_CardinalityType
<1>2. \E g : Upto(g, 0)
  <2> DEFINE g == [s \in SUBSET S |-> 0]
  <2>1. \A s \in SUBSET S : Cardinality(s) <= 0 => s = {}
    BY <1>1, FS_EmptySet
  <2>2. Upto(g, 0)
    BY <2>1
  <2> QED
    BY <2>2
<1>3. ASSUME NEW n \in Nat, NEW g, Upto(g, n) PROVE \E h : Upto(h, n + 1)
  <2> DEFINE h == [s \in SUBSET S |-> Body(g, s)]
  <2>1. ASSUME NEW s \in SUBSET S, Cardinality(s) <= n + 1 PROVE h[s] = Body(h, s)
    <3>1. CASE s = {}
      BY <3>1
    <3>2. CASE s # {}
      <4>1. AnyOf(s) \in s /\ s \ {AnyOf(s)} \in SUBSET S
        BY <3>2, AnyIn
      <4>2. Cardinality(s \ {AnyOf(s)}) <= n
        BY <1>1, <2>1, <4>1, FS_RemoveElement
      <4>3. g[s \ {AnyOf(s)}] = h[s \ {AnyOf(s)}]
        BY <1>3, <4>1, <4>2
      <4> QED
        BY <3>2, <4>3
    <3> QED
      BY <3>1, <3>2
  <2> HIDE DEF h
  <2>2. Upto(h, n + 1)
    BY <2>1
  <2> QED
    BY <2>2
<1>4. Bad = {}
  <2> SUFFICES ASSUME Bad # {} PROVE FALSE
    OBVIOUS
  <2>1. PICK n \in Bad : \A m \in Bad : ~(m < n)
    <3>1. Bad \subseteq Nat
      OBVIOUS
    <3> HIDE DEF Bad
    <3> QED
      BY <3>1, LeastNat
  <2>2. n # 0 /\ n - 1 \in Nat /\ n - 1 < n /\ (n - 1) + 1 = n
    <3>1. n \in Nat /\ n # 0
      BY <1>2
    <3> QED
      BY <3>1
  <2>3. PICK g : Upto(g, n - 1)
    BY <2>1, <2>2
  <2>4. \E h : Upto(h, (n - 1) + 1)
    <3> HIDE DEF Upto
    <3> QED
      BY <1>3, <2>2, <2>3
  <2> QED
    BY <2>2, <2>4
<1>5. PICK g : Upto(g, Cardinality(S))
  BY <1>1, <1>4
<1> DEFINE it == [s \in SUBSET S |-> g[s]]
<1>6. \A s \in SUBSET S : g[s] = Body(g, s)
  BY <1>1, <1>5, FS_Subset
<1>7. \A s \in SUBSET S : Body(g, s) = Body(it, s)
  <2>1. \A s \in SUBSET S : s \ {AnyOf(s)} \in SUBSET S
    OBVIOUS
  <2> QED
    BY <2>1
<1>8. Adds(it, f, S)
  <2>1. \A s \in SUBSET S : it[s] = Body(it, s)
    BY <1>6, <1>7
  <2>2. it = [s \in SUBSET S |-> it[s]]
    OBVIOUS
  <2> HIDE DEF it
  <2>3. it = [s \in SUBSET S |-> Body(it, s)]
    BY <2>1, <2>2
  <2> QED
    BY <2>3 DEF Adds
<1> QED
  BY <1>8

LEMMA SumIs ==
  ASSUME NEW S, IsFiniteSet(S), NEW f, NEW it, Adds(it, f, S)
  PROVE  \A s \in SUBSET S : SumOf(f, s) = it[s]
<1> SUFFICES ASSUME NEW s \in SUBSET S PROVE SumOf(f, s) = it[s]
  OBVIOUS
<1> DEFINE jt == [u \in SUBSET s |-> it[u]]
           Body(g, u) == IF u = {} THEN 0 ELSE f[AnyOf(u)] + g[u \ {AnyOf(u)}]
<1>1. \A u \in SUBSET s : jt[u] = Body(jt, u)
  <2>1. \A u \in SUBSET s : u \ {AnyOf(u)} \in SUBSET s /\ it[u] = Body(it, u)
    BY DEF Adds
  <2> QED
    BY <2>1
<1>2. Adds(jt, f, s)
  <2>1. jt = [u \in SUBSET s |-> jt[u]]
    OBVIOUS
  <2> HIDE DEF jt
  <2>2. jt = [u \in SUBSET s |-> Body(jt, u)]
    BY <1>1, <2>1
  <2> QED
    BY <2>2 DEF Adds
<1>3. jt[s] = it[s]
  OBVIOUS
<1> HIDE DEF jt
<1>4. ASSUME NEW kt, Adds(kt, f, s) PROVE kt[s] = jt[s]
  <2>1. IsFiniteSet(s) /\ \A x \in s : f[x] = f[x]
    BY FS_Subset
  <2>2. \A u \in SUBSET s : kt[u] = jt[u]
    BY <1>2, <1>4, <2>1, AddsOnce
  <2> QED
    BY <2>2
<1> QED
  BY <1>2, <1>3, <1>4 DEF SumOf

LEMMA SumSame ==
  ASSUME NEW S, IsFiniteSet(S), NEW f, NEW g, \A x \in S : f[x] = g[x]
  PROVE  SumOf(f, S) = SumOf(g, S)
<1>1. PICK it : Adds(it, f, S)
  BY AddsExist
<1>2. PICK jt : Adds(jt, g, S)
  BY AddsExist
<1> QED
  BY <1>1, <1>2, AddsOnce, SumIs

LEMMA SumEmpty == \A f : SumOf(f, {}) = 0
<1> TAKE f
<1>1. PICK it : Adds(it, f, {})
  BY AddsExist, FS_EmptySet
<1>2. it[{}] = 0
  BY <1>1 DEF Adds
<1> QED
  BY <1>1, <1>2, SumIs, FS_EmptySet

LEMMA SumAny ==
  ASSUME NEW S, IsFiniteSet(S), S # {}, NEW f
  PROVE  SumOf(f, S) = f[AnyOf(S)] + SumOf(f, S \ {AnyOf(S)})
<1>1. PICK it : Adds(it, f, S)
  BY AddsExist
<1>2. it[S] = f[AnyOf(S)] + it[S \ {AnyOf(S)}]
  BY <1>1 DEF Adds
<1> QED
  BY <1>1, <1>2, SumIs

LEMMA SumNat ==
  ASSUME NEW S, IsFiniteSet(S), NEW f, \A x \in S : f[x] \in Nat
  PROVE  SumOf(f, S) \in Nat
<1> DEFINE T == {s \in SUBSET S : SumOf(f, s) \in Nat}
<1>1. ASSUME NEW s \in SUBSET S, \A u \in SUBSET s : u # s => u \in T PROVE s \in T
  <2>1. CASE s = {}
    BY <2>1, SumEmpty
  <2>2. CASE s # {}
    <3>1. AnyOf(s) \in s /\ IsFiniteSet(s)
      BY <2>2, AnyIn, FS_Subset
    <3>2. SumOf(f, s \ {AnyOf(s)}) \in Nat
      BY <1>1, <3>1
    <3>3. SumOf(f, s) = f[AnyOf(s)] + SumOf(f, s \ {AnyOf(s)})
      BY <2>2, <3>1, SumAny
    <3>4. f[AnyOf(s)] \in Nat
      BY <3>1
    <3>5. SumOf(f, s) \in Nat
      BY <3>2, <3>3, <3>4
    <3> QED
      BY <3>5
  <2> QED
    BY <2>1, <2>2
<1> HIDE DEF T
<1>2. \A s \in SUBSET S : s \in T
  BY <1>1, SetInduction
<1> QED
  BY <1>2 DEF T

(* Any element may be added last.                                            *)
LEMMA SumTake ==
  ASSUME NEW S, IsFiniteSet(S), NEW f, \A x \in S : f[x] \in Nat, NEW x \in S
  PROVE  SumOf(f, S) = f[x] + SumOf(f, S \ {x})
<1> DEFINE T == {s \in SUBSET S : \A y \in s : SumOf(f, s) = f[y] + SumOf(f, s \ {y})}
<1>1. \A s \in SUBSET S : IsFiniteSet(s) /\ SumOf(f, s) \in Nat
  BY FS_Subset, SumNat
<1>2. ASSUME NEW s \in SUBSET S, \A u \in SUBSET s : u # s => u \in T PROVE s \in T
  <2> SUFFICES ASSUME NEW y \in s, y # AnyOf(s) PROVE SumOf(f, s) = f[y] + SumOf(f, s \ {y})
    BY <1>1, SumAny
  <2> DEFINE p == AnyOf(s)
  <2>1. p \in s
    BY AnyIn
  <2> HIDE DEF p
  <2>2. SumOf(f, s) = f[p] + SumOf(f, s \ {p})
    BY <1>1, SumAny DEF p
  <2>3. SumOf(f, s \ {p}) = f[y] + SumOf(f, (s \ {p}) \ {y})
    BY <1>2, <2>1 DEF p
  <2>4. SumOf(f, s \ {y}) = f[p] + SumOf(f, (s \ {y}) \ {p})
    BY <1>2, <2>1 DEF p
  <2>5. (s \ {p}) \ {y} = (s \ {y}) \ {p} /\ (s \ {y}) \ {p} \in SUBSET S
    OBVIOUS
  <2>6. f[p] \in Nat /\ f[y] \in Nat /\ SumOf(f, (s \ {y}) \ {p}) \in Nat
    BY <1>1, <2>1, <2>5
  <2> QED
    BY <2>2, <2>3, <2>4, <2>5, <2>6
<1> HIDE DEF T
<1>3. \A s \in SUBSET S : s \in T
  BY <1>2, SetInduction
<1> QED
  BY <1>3 DEF T

(* Sums of sums, of parts, of smaller numbers and of ones.                   *)
LEMMA SumPlus ==
  ASSUME NEW S, IsFiniteSet(S), NEW f, NEW g, NEW h,
         \A x \in S : f[x] \in Nat /\ g[x] \in Nat /\ h[x] = f[x] + g[x]
  PROVE  SumOf(h, S) = SumOf(f, S) + SumOf(g, S)
<1> DEFINE T == {s \in SUBSET S : SumOf(h, s) = SumOf(f, s) + SumOf(g, s)}
<1>1. \A s \in SUBSET S : IsFiniteSet(s) /\ SumOf(f, s) \in Nat /\ SumOf(g, s) \in Nat
  BY FS_Subset, SumNat
<1>2. ASSUME NEW s \in SUBSET S, \A u \in SUBSET s : u # s => u \in T PROVE s \in T
  <2>1. CASE s = {}
    BY <2>1, SumEmpty
  <2>2. CASE s # {}
    <3> DEFINE p == AnyOf(s)
    <3>1. p \in s
      BY <2>2, AnyIn
    <3> HIDE DEF p
    <3>2. /\ SumOf(f, s) = f[p] + SumOf(f, s \ {p})
          /\ SumOf(g, s) = g[p] + SumOf(g, s \ {p})
          /\ SumOf(h, s) = h[p] + SumOf(h, s \ {p})
      BY <1>1, <2>2, SumAny DEF p
    <3>3. SumOf(h, s \ {p}) = SumOf(f, s \ {p}) + SumOf(g, s \ {p})
      BY <1>2, <3>1
    <3>4. s \ {p} \in SUBSET S
      OBVIOUS
    <3>5. /\ f[p] \in Nat /\ g[p] \in Nat /\ h[p] = f[p] + g[p]
          /\ SumOf(f, s \ {p}) \in Nat /\ SumOf(g, s \ {p}) \in Nat
      BY <1>1, <3>1, <3>4
    <3> QED
      BY <3>2, <3>3, <3>5
  <2> QED
    BY <2>1, <2>2
<1> HIDE DEF T
<1>3. \A s \in SUBSET S : s \in T
  BY <1>2, SetInduction
<1> QED
  BY <1>3 DEF T

LEMMA SumLeq ==
  ASSUME NEW S, IsFiniteSet(S), NEW f, NEW g,
         \A x \in S : f[x] \in Nat /\ g[x] \in Nat /\ f[x] <= g[x]
  PROVE  SumOf(f, S) <= SumOf(g, S)
<1> DEFINE h == [x \in S |-> g[x] - f[x]]
<1>1. \A x \in S : h[x] \in Nat /\ f[x] \in Nat /\ g[x] = f[x] + h[x]
  OBVIOUS
<1> HIDE DEF h
<1>2. SumOf(g, S) = SumOf(f, S) + SumOf(h, S)
  BY <1>1, SumPlus
<1>3. SumOf(f, S) \in Nat /\ SumOf(h, S) \in Nat
  BY <1>1, SumNat
<1> QED
  BY <1>2, <1>3

LEMMA SumSplit ==
  ASSUME NEW S, IsFiniteSet(S), NEW f, \A x \in S : f[x] \in Nat, NEW u \in SUBSET S
  PROVE  SumOf(f, S) = SumOf(f, u) + SumOf(f, S \ u)
<1> DEFINE T == {s \in SUBSET S : SumOf(f, s) = SumOf(f, s \cap u) + SumOf(f, s \ u)}
<1>1. \A s \in SUBSET S : /\ IsFiniteSet(s) /\ SumOf(f, s) \in Nat
                         /\ s \cap u \in SUBSET S /\ s \ u \in SUBSET S
  BY FS_Subset, SumNat
<1>2. ASSUME NEW s \in SUBSET S, \A v \in SUBSET s : v # s => v \in T PROVE s \in T
  <2>1. CASE s = {}
    <3>1. s \cap u = {} /\ s \ u = {}
      BY <2>1
    <3> QED
      BY <2>1, <3>1, SumEmpty
  <2>2. CASE s # {}
    <3>1. PICK p \in s : TRUE
      BY <2>2
    <3>2. SumOf(f, s) = f[p] + SumOf(f, s \ {p}) /\ f[p] \in Nat
      BY <1>1, SumTake
    <3>3. SumOf(f, s \ {p}) = SumOf(f, (s \ {p}) \cap u) + SumOf(f, (s \ {p}) \ u)
      BY <1>2
    <3>4. /\ SumOf(f, s \cap u) \in Nat /\ SumOf(f, s \ u) \in Nat
          /\ SumOf(f, (s \ {p}) \cap u) \in Nat /\ SumOf(f, (s \ {p}) \ u) \in Nat
      BY <1>1
    <3>5. CASE p \in u
      <4>1. SumOf(f, s \cap u) = f[p] + SumOf(f, (s \cap u) \ {p})
        BY <1>1, <3>5, SumTake
      <4>2. (s \cap u) \ {p} = (s \ {p}) \cap u /\ (s \ {p}) \ u = s \ u
        BY <3>5
      <4> QED
        BY <3>2, <3>3, <3>4, <4>1, <4>2
    <3>6. CASE p \notin u
      <4>1. SumOf(f, s \ u) = f[p] + SumOf(f, (s \ u) \ {p})
        BY <1>1, <3>6, SumTake
      <4>2. (s \ u) \ {p} = (s \ {p}) \ u /\ (s \ {p}) \cap u = s \cap u
        BY <3>6
      <4> QED
        BY <3>2, <3>3, <3>4, <4>1, <4>2
    <3> QED
      BY <3>5, <3>6
  <2> QED
    BY <2>1, <2>2
<1> HIDE DEF T
<1>3. \A s \in SUBSET S : s \in T
  BY <1>2, SetInduction
<1>4. S \cap u = u
  OBVIOUS
<1> QED
  BY <1>3, <1>4 DEF T

LEMMA SumZero ==
  ASSUME NEW S, IsFiniteSet(S), NEW f, \A x \in S : f[x] = 0
  PROVE  SumOf(f, S) = 0
<1>1. \A x \in S : f[x] \in Nat /\ f[x] = f[x] + f[x]
  OBVIOUS
<1>2. SumOf(f, S) = SumOf(f, S) + SumOf(f, S) /\ SumOf(f, S) \in Nat
  BY <1>1, SumPlus, SumNat
<1>3. \A n \in Nat : n = n + n => n = 0
  OBVIOUS
<1> QED
  BY <1>2, <1>3

LEMMA SumPart ==
  ASSUME NEW S, IsFiniteSet(S), NEW f, \A x \in S : f[x] \in Nat, NEW u \in SUBSET S
  PROVE  SumOf(f, u) <= SumOf(f, S)
<1>1. SumOf(f, u) \in Nat /\ SumOf(f, S \ u) \in Nat
  BY FS_Subset, SumNat
<1> QED
  BY <1>1, SumSplit

LEMMA SumOnes ==
  ASSUME NEW S, IsFiniteSet(S), NEW f, \A x \in S : f[x] = 1
  PROVE  SumOf(f, S) = Cardinality(S)
<1> DEFINE T == {s \in SUBSET S : SumOf(f, s) = Cardinality(s)}
<1>1. \A s \in SUBSET S : IsFiniteSet(s) /\ Cardinality(s) \in Nat
  BY FS_Subset, FS_CardinalityType
<1>2. ASSUME NEW s \in SUBSET S, \A u \in SUBSET s : u # s => u \in T PROVE s \in T
  <2>1. CASE s = {}
    BY <2>1, SumEmpty, FS_EmptySet
  <2>2. CASE s # {}
    <3>1. AnyOf(s) \in s
      BY <2>2, AnyIn
    <3>2. SumOf(f, s) = f[AnyOf(s)] + SumOf(f, s \ {AnyOf(s)})
      BY <1>1, <2>2, SumAny
    <3>3. SumOf(f, s \ {AnyOf(s)}) = Cardinality(s) - 1
      BY <1>1, <1>2, <3>1, FS_RemoveElement
    <3>4. f[AnyOf(s)] = 1 /\ Cardinality(s) \in Nat
      BY <1>1, <3>1
    <3> QED
      BY <3>2, <3>3, <3>4
  <2> QED
    BY <2>1, <2>2
<1> HIDE DEF T
<1>3. \A s \in SUBSET S : s \in T
  BY <1>2, SetInduction
<1> QED
  BY <1>3 DEF T

(* Ones added to the elements of u.                                          *)
LEMMA SumMarked ==
  ASSUME NEW S, IsFiniteSet(S), NEW f, \A x \in S : f[x] \in Nat, NEW u \in SUBSET S, NEW h,
         \A x \in S : h[x] = f[x] + (IF x \in u THEN 1 ELSE 0)
  PROVE  SumOf(h, S) = SumOf(f, S) + Cardinality(u)
<1> DEFINE g == [x \in S |-> IF x \in u THEN 1 ELSE 0]
<1>1. \A x \in S : f[x] \in Nat /\ g[x] \in Nat /\ h[x] = f[x] + g[x]
  OBVIOUS
<1>2. \A x \in u : g[x] = 1
  OBVIOUS
<1>3. \A x \in S \ u : g[x] = 0
  OBVIOUS
<1> HIDE DEF g
<1>4. SumOf(h, S) = SumOf(f, S) + SumOf(g, S)
  BY <1>1, SumPlus
<1>5. IsFiniteSet(u) /\ IsFiniteSet(S \ u)
  BY FS_Subset
<1>6. SumOf(g, S) = SumOf(g, u) + SumOf(g, S \ u)
  BY <1>1, SumSplit
<1>7. SumOf(g, u) = Cardinality(u)
  BY <1>2, <1>5, SumOnes
<1>8. SumOf(g, S \ u) = 0
  BY <1>3, <1>5, SumZero
<1>9. Cardinality(u) \in Nat
  BY <1>5, FS_CardinalityType
<1> QED
  BY <1>4, <1>6, <1>7, <1>8, <1>9

-----------------------------------------------------------------------------
LEMMA SumScale ==
  ASSUME NEW S, IsFiniteSet(S), NEW k \in Nat, NEW f, NEW h,
         \A x \in S : f[x] \in Nat /\ h[x] = k * f[x]
  PROVE  SumOf(h, S) = k * SumOf(f, S)
<1> DEFINE T == {s \in SUBSET S : SumOf(h, s) = k * SumOf(f, s)}
<1>1. \A s \in SUBSET S : IsFiniteSet(s) /\ SumOf(f, s) \in Nat
  BY FS_Subset, SumNat
<1>2. ASSUME NEW s \in SUBSET S, \A u \in SUBSET s : u # s => u \in T PROVE s \in T
  <2>1. CASE s = {}
    BY <2>1, SumEmpty
  <2>2. CASE s # {}
    <3> DEFINE p == AnyOf(s)
    <3>1. p \in s
      BY <2>2, AnyIn
    <3>2. SumOf(f, s) = f[p] + SumOf(f, s \ {p}) /\ SumOf(h, s) = h[p] + SumOf(h, s \ {p})
      BY <1>1, <2>2, SumAny
    <3>3. SumOf(h, s \ {p}) = k * SumOf(f, s \ {p}) /\ SumOf(f, s \ {p}) \in Nat
      BY <1>1, <1>2, <3>1
    <3>4. f[p] \in Nat /\ h[p] = k * f[p]
      BY <3>1
    <3> HIDE DEF p
    <3>5. \A a, b \in Nat : k * (a + b) = k * a + k * b
      OBVIOUS
    <3> QED
      BY <3>2, <3>3, <3>4, <3>5
  <2> QED
    BY <2>1, <2>2
<1> HIDE DEF T
<1>3. \A s \in SUBSET S : s \in T
  BY <1>2, SetInduction
<1> QED
  BY <1>3 DEF T

LEMMA ImageFinite ==
  ASSUME NEW S, IsFiniteSet(S), NEW m
  PROVE  IsFiniteSet({m[x] : x \in S})
<1> DEFINE M(s) == {m[x] : x \in s}
           T == {s \in SUBSET S : IsFiniteSet(M(s))}
<1>1. ASSUME NEW s \in SUBSET S, \A u \in SUBSET s : u # s => u \in T PROVE s \in T
  <2>1. CASE s = {}
    BY <2>1, FS_EmptySet
  <2>2. CASE s # {}
    <3> DEFINE p == AnyOf(s)
    <3>1. p \in s
      BY <2>2, AnyIn
    <3>2. M(s) = M(s \ {p}) \cup {m[p]}
      BY <3>1
    <3>3. IsFiniteSet(M(s \ {p}))
      BY <1>1, <3>1
    <3>4. IsFiniteSet(M(s))
      <4> DEFINE U == M(s \ {p})
                 y == m[p]
      <4>1. M(s) = U \cup {y} /\ IsFiniteSet(U)
        BY <3>2, <3>3
      <4> HIDE DEF U, y
      <4>2. IsFiniteSet(U \cup {y})
        BY <4>1, FS_AddElement
      <4> QED
        BY <4>1, <4>2
    <3> QED
      BY <3>4
  <2> QED
    BY <2>1, <2>2
<1> HIDE DEF T
<1>2. \A s \in SUBSET S : s \in T
  BY <1>1, SetInduction
<1> QED
  BY <1>2 DEF T

(* Adding over an image counts what falls together once.                    *)
LEMMA SumImageLeq ==
  ASSUME NEW S, IsFiniteSet(S), NEW m, NEW f, NEW g,
         \A x \in S : g[x] \in Nat /\ f[m[x]] \in Nat /\ f[m[x]] <= g[x]
  PROVE  SumOf(f, {m[x] : x \in S}) <= SumOf(g, S)
<1> DEFINE M(s) == {m[x] : x \in s}
           T == {s \in SUBSET S : SumOf(f, M(s)) <= SumOf(g, s)}
<1>1. ASSUME NEW s \in SUBSET S
      PROVE  /\ IsFiniteSet(s) /\ SumOf(g, s) \in Nat
             /\ IsFiniteSet(M(s)) /\ SumOf(f, M(s)) \in Nat /\ \A y \in M(s) : f[y] \in Nat
  <2>1. IsFiniteSet(s) /\ IsFiniteSet(M(s))
    BY FS_Subset, ImageFinite
  <2>2. \A y \in M(s) : f[y] \in Nat
    OBVIOUS
  <2> HIDE DEF M
  <2> QED
    BY <2>1, <2>2, SumNat
<1>2. ASSUME NEW s \in SUBSET S, \A u \in SUBSET s : u # s => u \in T PROVE s \in T
  <2>1. CASE s = {}
    <3>1. M(s) = {}
      BY <2>1
    <3> QED
      BY <2>1, <3>1, SumEmpty
  <2>2. CASE s # {}
    <3> DEFINE p == AnyOf(s)
               t == s \ {p}
    <3>1. p \in s /\ t \in SUBSET S
      BY <2>2, AnyIn
    <3>2. SumOf(g, s) = g[p] + SumOf(g, t)
      BY <1>1, <2>2, SumAny
    <3>3. SumOf(f, M(t)) <= SumOf(g, t)
      BY <1>2, <3>1
    <3>4. M(s) = M(t) \cup {m[p]} /\ m[p] \in M(s) /\ f[m[p]] <= g[p] /\ g[p] \in Nat /\ f[m[p]] \in Nat
      BY <3>1
    <3>5. SumOf(f, M(t)) \in Nat /\ SumOf(g, t) \in Nat /\ IsFiniteSet(M(s)) /\ \A y \in M(s) : f[y] \in Nat
      BY <1>1, <3>1
    <3> HIDE DEF M, t, p
    <3>6. SumOf(f, M(s)) <= SumOf(g, s)
      <4>1. CASE m[p] \in M(t)
        <5>1. M(s) = M(t)
          BY <3>4, <4>1
        <5> QED
          BY <3>2, <3>3, <3>4, <3>5, <5>1
      <4>2. CASE m[p] \notin M(t)
        <5>1. M(s) \ {m[p]} = M(t)
          BY <3>4, <4>2
        <5>2. SumOf(f, M(s)) = f[m[p]] + SumOf(f, M(t))
          BY <3>4, <3>5, <5>1, SumTake
        <5> QED
          BY <3>2, <3>3, <3>4, <3>5, <5>2
      <4> QED
        BY <4>1, <4>2
    <3> QED
      BY <3>6
  <2> QED
    BY <2>1, <2>2
<1> HIDE DEF T
<1>3. \A s \in SUBSET S : s \in T
  BY <1>2, SetInduction
<1> QED
  BY <1>3 DEF T

LEMMA SumImage ==
  ASSUME NEW S, IsFiniteSet(S), NEW m, NEW f, NEW g,
         \A x \in S : f[m[x]] \in Nat /\ g[x] = f[m[x]],
         \A x, y \in S : m[x] = m[y] => x = y,
         NEW M, \A x \in S : m[x] \in M, \A y \in M : \E x \in S : y = m[x]
  PROVE  SumOf(f, M) = SumOf(g, S)
<1> DEFINE k == [y \in M |-> CHOOSE x \in S : m[x] = y]
           I == {m[x] : x \in S}
<1>1. \A x \in S : m[x] \in M /\ k[m[x]] = x
  OBVIOUS
<1>2. IsFiniteSet(I) /\ I = M
  BY ImageFinite
<1>3. S = {k[y] : y \in M}
  <2>1. \A y \in M : k[y] \in S
    OBVIOUS
  <2>2. \A x \in S : \E y \in M : x = k[y]
    BY <1>1
  <2> HIDE DEF k
  <2> QED
    BY <2>1, <2>2
<1>4. \A y \in M : f[y] \in Nat /\ g[k[y]] \in Nat /\ g[k[y]] <= f[y]
  BY <1>1
<1>5. \A y \in M : f[y] \in Nat
  BY <1>1
<1>6. SumOf(f, I) <= SumOf(g, S)
  BY SumImageLeq
<1> HIDE DEF k, I
<1>7. SumOf(g, {k[y] : y \in M}) <= SumOf(f, M)
  BY <1>2, <1>4, SumImageLeq
<1>8. SumOf(f, M) \in Nat /\ SumOf(g, S) \in Nat
  BY <1>2, <1>5, SumNat
<1> QED
  BY <1>2, <1>3, <1>6, <1>7, <1>8

(* Group by group: k says which group an element is of.                     *)
LEMMA SumGroups ==
  ASSUME NEW S, IsFiniteSet(S), NEW f, \A x \in S : f[x] \in Nat,
         NEW A, IsFiniteSet(A), NEW k, \A x \in S : k[x] \in A,
         NEW part, \A a \in A : /\ part[a] \subseteq S
                                /\ \A x \in S : x \in part[a] <=> k[x] = a,
         NEW g, \A a \in A : g[a] = SumOf(f, part[a])
  PROVE  SumOf(f, S) = SumOf(g, A)
<1> DEFINE Of(s) == {x \in S : k[x] \in s}
           T == {s \in SUBSET A : SumOf(f, Of(s)) = SumOf(g, s)}
<1>1. \A s \in SUBSET A : IsFiniteSet(s) /\ IsFiniteSet(Of(s))
  BY FS_Subset
<1>2. ASSUME NEW s \in SUBSET A, \A u \in SUBSET s : u # s => u \in T PROVE s \in T
  <2>1. CASE s = {}
    <3>1. Of(s) = {}
      BY <2>1
    <3> QED
      BY <2>1, <3>1, SumEmpty
  <2>2. CASE s # {}
    <3> DEFINE p == AnyOf(s)
               t == s \ {p}
               u == part[p]
    <3>1. p \in s /\ t \in SUBSET A
      BY <2>2, AnyIn
    <3>2. SumOf(g, s) = g[p] + SumOf(g, t)
      BY <1>1, <2>2, SumAny
    <3>3. SumOf(f, Of(t)) = SumOf(g, t)
      BY <1>2, <3>1
    <3>4. u \in SUBSET Of(s) /\ Of(s) \ u = Of(t) /\ \A x \in Of(s) : f[x] \in Nat
      BY <3>1
    <3>5. g[p] = SumOf(f, u)
      BY <3>1
    <3>6. IsFiniteSet(Of(s))
      BY <1>1
    <3> HIDE DEF p, t, u, Of
    <3>7. SumOf(f, Of(s)) = SumOf(f, u) + SumOf(f, Of(s) \ u)
      BY <3>4, <3>6, SumSplit
    <3>8. SumOf(f, Of(s)) = SumOf(g, s)
      BY <3>2, <3>3, <3>4, <3>5, <3>7
    <3> QED
      BY <3>8
  <2> QED
    BY <2>1, <2>2
<1> HIDE DEF T
<1>3. \A s \in SUBSET A : s \in T
  BY <1>2, SetInduction
<1>4. Of(A) = S
  OBVIOUS
<1> QED
  BY <1>3, <1>4 DEF T

-----------------------------------------------------------------------------
(* A finite set of naturals has a greatest element.                         *)
LEMMA GreatestNat ==
  ASSUME NEW S, IsFiniteSet(S), S \subseteq Nat, S # {}
  PROVE  \E n \in S : \A m \in S : m <= n
<1> DEFINE T == {s \in SUBSET S : s # {} => \E n \in s : \A m \in s : m <= n}
<1>1. ASSUME NEW s \in SUBSET S, \A u \in SUBSET s : u # s => u \in T PROVE s \in T
  <2>1. SUFFICES ASSUME s # {} PROVE \E n \in s : \A m \in s : m <= n
    OBVIOUS
  <2>2. PICK p \in s : TRUE
    BY <2>1
  <2>3. CASE s \ {p} = {}
    <3>1. \A m \in s : m = p
      BY <2>3
    <3>2. p \in Nat
      OBVIOUS
    <3> QED
      BY <3>1, <3>2
  <2>4. CASE s \ {p} # {}
    <3>1. PICK n \in s \ {p} : \A m \in s \ {p} : m <= n
      <4>1. s \ {p} \in SUBSET s /\ s \ {p} # s
        BY <2>2
      <4>2. s \ {p} \in T
        BY <1>1, <4>1
      <4> QED
        BY <2>4, <4>2
    <3>2. n \in Nat /\ p \in Nat
      BY <3>1
    <3>3. \A m \in s : m <= (IF n <= p THEN p ELSE n)
      <4> TAKE m \in s
      <4>1. m \in Nat
        OBVIOUS
      <4> QED
        BY <3>1, <3>2, <4>1
    <3> QED
      BY <3>1, <3>2, <3>3
  <2> QED
    BY <2>3, <2>4
<1> HIDE DEF T
<1>2. \A s \in SUBSET S : s \in T
  BY <1>1, SetInduction
<1> QED
  BY <1>2 DEF T
-----------------------------------------------------------------------------
(* A fold with any step h exists, and stays where the step stays.            *)
Folded(it, base, h, pick, S) ==
    it = [s \in SUBSET S |-> IF s = {} THEN base ELSE h[<<pick[s], it[s \ {pick[s]}]>>]]

LEMMA FoldExists ==
  ASSUME NEW S, IsFiniteSet(S), NEW pick, \A s \in SUBSET S : s # {} => pick[s] \in s,
         NEW base, NEW h
  PROVE  \E it : Folded(it, base, h, pick, S)
<1> DEFINE Body(g, s) == IF s = {} THEN base ELSE h[<<pick[s], g[s \ {pick[s]}]>>]
           Upto(g, n) == \A s \in SUBSET S : Cardinality(s) <= n => g[s] = Body(g, s)
           Bad == {n \in Nat : ~\E g : Upto(g, n)}
<1>1. \A s \in SUBSET S : IsFiniteSet(s) /\ Cardinality(s) \in Nat
  BY FS_Subset, FS_CardinalityType
<1>2. \E g : Upto(g, 0)
  <2> DEFINE g == [s \in SUBSET S |-> base]
  <2>1. \A s \in SUBSET S : Cardinality(s) <= 0 => s = {}
    BY <1>1, FS_EmptySet
  <2>2. Upto(g, 0)
    BY <2>1
  <2> QED
    BY <2>2
<1>3. ASSUME NEW n \in Nat, NEW g, Upto(g, n) PROVE \E f : Upto(f, n + 1)
  <2> DEFINE f == [s \in SUBSET S |-> Body(g, s)]
  <2>1. ASSUME NEW s \in SUBSET S, Cardinality(s) <= n + 1 PROVE f[s] = Body(f, s)
    <3>1. CASE s = {}
      BY <3>1
    <3>2. CASE s # {}
      <4>1. pick[s] \in s /\ s \ {pick[s]} \in SUBSET S
        BY <3>2
      <4>2. Cardinality(s \ {pick[s]}) <= n
        BY <1>1, <2>1, <4>1, FS_RemoveElement
      <4>3. g[s \ {pick[s]}] = f[s \ {pick[s]}]
        BY <1>3, <4>1, <4>2
      <4> QED
        BY <3>2, <4>3
    <3> QED
      BY <3>1, <3>2
  <2> HIDE DEF f
  <2>2. Upto(f, n + 1)
    BY <2>1
  <2> QED
    BY <2>2
<1>4. Bad = {}
  <2> SUFFICES ASSUME Bad # {} PROVE FALSE
    OBVIOUS
  <2>1. PICK n \in Bad : \A m \in Bad : ~(m < n)
    <3>1. Bad \subseteq Nat
      OBVIOUS
    <3> HIDE DEF Bad
    <3> QED
      BY <3>1, LeastNat
  <2>2. n # 0 /\ n - 1 \in Nat /\ n - 1 < n /\ (n - 1) + 1 = n
    <3>1. n \in Nat /\ n # 0
      BY <1>2
    <3> QED
      BY <3>1
  <2>3. PICK g : Upto(g, n - 1)
    BY <2>1, <2>2
  <2>4. \E f : Upto(f, (n - 1) + 1)
    <3> HIDE DEF Upto
    <3> QED
      BY <1>3, <2>2, <2>3
  <2> QED
    BY <2>2, <2>4
<1>5. PICK g : Upto(g, Cardinality(S))
  BY <1>1, <1>4
<1> DEFINE it == [s \in SUBSET S |-> g[s]]
<1>6. \A s \in SUBSET S : g[s] = Body(g, s)
  BY <1>1, <1>5, FS_Subset
<1>7. \A s \in SUBSET S : Body(g, s) = Body(it, s)
  <2>1. \A s \in SUBSET S : s # {} => s \ {pick[s]} \in SUBSET S
    OBVIOUS
  <2> QED
    BY <2>1
<1>8. Folded(it, base, h, pick, S)
  <2>1. \A s \in SUBSET S : it[s] = Body(it, s)
    BY <1>6, <1>7
  <2>2. it = [s \in SUBSET S |-> it[s]]
    OBVIOUS
  <2> HIDE DEF it
  <2>3. it = [s \in SUBSET S |-> Body(it, s)]
    BY <2>1, <2>2
  <2> QED
    BY <2>3 DEF Folded
<1> QED
  BY <1>8

LEMMA FoldStays ==
  ASSUME NEW S, IsFiniteSet(S), NEW pick, \A s \in SUBSET S : s # {} => pick[s] \in s,
         NEW A, NEW base \in A, NEW h, \A x \in S, y \in A : h[<<x, y>>] \in A,
         NEW it, Folded(it, base, h, pick, S)
  PROVE  \A s \in SUBSET S : it[s] \in A
<1> DEFINE T == {s \in SUBSET S : it[s] \in A}
<1>1. ASSUME NEW s \in SUBSET S, \A u \in SUBSET s : u # s => u \in T PROVE s \in T
  <2>1. it[s] = IF s = {} THEN base ELSE h[<<pick[s], it[s \ {pick[s]}]>>]
    BY DEF Folded
  <2>2. CASE s = {}
    BY <2>1, <2>2
  <2>3. CASE s # {}
    <3>1. pick[s] \in s /\ s \ {pick[s]} \in SUBSET s /\ s \ {pick[s]} # s
      BY <2>3
    <3>2. it[s \ {pick[s]}] \in A
      BY <1>1, <3>1
    <3> QED
      BY <2>1, <2>3, <3>1, <3>2
  <2> QED
    BY <2>2, <2>3
<1> HIDE DEF T
<1>2. \A s \in SUBSET S : s \in T
  BY <1>1, SetInduction
<1> QED
  BY <1>2 DEF T
=============================================================================
