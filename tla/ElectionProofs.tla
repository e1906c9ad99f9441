--------------------------- MODULE ElectionProofs ---------------------------
(***************************************************************************)
(* What the elections of several nodes for one root promise, for any       *)
(* representatives, weights, blocks and order of votes.                    *)
(*                                                                         *)
(* The winner is always a block that the election holds, and a confirmed   *)
(* election never changes its winner.  Where no block has to make room for *)
(* another one, a node confirms only what a quorum is bound to by final    *)
(* votes, so that the nodes agree.                                         *)
(***************************************************************************)
EXTENDS Election, FiniteSetTheorems, WellFoundedInduction, TLAPS

(* Time for the solver on a leaf that names no other prover. *)
USE ZenonT(30)

-----------------------------------------------------------------------------
(* Sums over finite sets, and the greatest of a finite set of numbers.     *)

(* The element that the fold takes first. *)
Pick(s) == CHOOSE x \in s : TRUE

(* g adds up the values of f over every subset of S, as the fold does. *)
AddsUp(g, f, S) ==
    g = [s \in SUBSET S |-> IF s = {} THEN 0 ELSE f[Pick(s)] + g[s \ {Pick(s)}]]

(* The sum of the library is the value of a recursive function. *)
LEMMA SumIsChoice ==
    ASSUME NEW f, NEW S
    PROVE  SumFunctionOnSet(f, S) = (CHOOSE g : AddsUp(g, f, S))[S]
  BY DEF SumFunctionOnSet, FoldFunctionOnSet, MapThenFoldSet, AddsUp, Pick

(* The element taken is one of the set. *)
LEMMA PickIn ==
    ASSUME NEW s, s # {}
    PROVE  Pick(s) \in s
  BY DEF Pick

(* Among subsets of a finite set there is a minimal one: facts about sums are
   shown by a smallest counterexample. *)
LEMMA MinimalSubset ==
    ASSUME NEW S, IsFiniteSet(S), NEW T, T \subseteq SUBSET S, T # {}
    PROVE  \E s \in T : \A t \in T : t \subseteq s => t = s
<1>1. IsWellFoundedOn(StrictSubsetOrdering(S), SUBSET S)
  BY FS_StrictSubsetOrderingWellFounded, FS_FiniteSubsetsOfFinite
<1>2. PICK s \in T : \A t \in T : ~(<<t, s>> \in StrictSubsetOrdering(S))
  BY <1>1, WFMin
<1>3. ASSUME NEW t \in T, t \subseteq s, t # s PROVE <<t, s>> \in StrictSubsetOrdering(S)
  BY <1>3 DEF StrictSubsetOrdering
<1>4. ASSUME NEW t \in T, t \subseteq s PROVE t = s
  <2> SUFFICES ASSUME t # s PROVE FALSE
    OBVIOUS
  <2> QED BY <1>2, <1>3, <1>4
<1> WITNESS s \in T
<1> QED BY <1>4

(* Two such functions agree where both are defined. *)
LEMMA AddsUpUnique ==
    ASSUME NEW S, IsFiniteSet(S), NEW A, NEW B, NEW f, NEW g, NEW h,
           S \subseteq A, S \subseteq B, AddsUp(g, f, A), AddsUp(h, f, B)
    PROVE  g[S] = h[S]
<1> DEFINE T == {s \in SUBSET S : g[s] # h[s]}
<1> SUFFICES ASSUME T # {} PROVE FALSE
  OBVIOUS
<1>1. PICK s \in T : \A t \in T : t \subseteq s => t = s
  <2>1. T \subseteq SUBSET S
    OBVIOUS
  <2> HIDE DEF T
  <2> QED BY <2>1, MinimalSubset, SMTT(30)
<1>2. s \subseteq S /\ g[s] # h[s] /\ s \in SUBSET A /\ s \in SUBSET B
  OBVIOUS
<1>3. /\ g[s] = IF s = {} THEN 0 ELSE f[Pick(s)] + g[s \ {Pick(s)}]
      /\ h[s] = IF s = {} THEN 0 ELSE f[Pick(s)] + h[s \ {Pick(s)}]
  BY <1>2 DEF AddsUp
<1>4. s # {}
  BY <1>2, <1>3
<1>5. Pick(s) \in s
  BY <1>4, PickIn
<1>6. s \ {Pick(s)} \notin T
  BY <1>1, <1>5
<1>7. g[s \ {Pick(s)}] = h[s \ {Pick(s)}]
  BY <1>2, <1>6
<1> QED BY <1>2, <1>3, <1>4, <1>7

(* There is such a function, for every finite set. *)
LEMMA AddsUpExists ==
    ASSUME NEW S, IsFiniteSet(S), NEW f
    PROVE  \E g : AddsUp(g, f, S)
<1> DEFINE T == {s \in SUBSET S : ~\E g : AddsUp(g, f, s)}
<1> SUFFICES ASSUME T # {} PROVE FALSE
  OBVIOUS
<1>1. PICK s \in T : \A t \in T : t \subseteq s => t = s
  <2>1. T \subseteq SUBSET S
    OBVIOUS
  <2> HIDE DEF T
  <2> QED BY <2>1, MinimalSubset, SMTT(30)
<1> DEFINE G(t) == CHOOSE g : AddsUp(g, f, t)
           F == [t \in SUBSET s |-> IF t = {} THEN 0
                    ELSE f[Pick(t)] + G(t \ {Pick(t)})[t \ {Pick(t)}]]
<1>2. ASSUME NEW t \in SUBSET s, t # s PROVE AddsUp(G(t), f, t) /\ IsFiniteSet(t)
  <2>1. t \in SUBSET S /\ t \notin T
    BY <1>1, <1>2
  <2>2. \E g : AddsUp(g, f, t)
    BY <2>1
  <2> QED BY <2>1, <2>2, FS_Subset
<1>3. ASSUME NEW t \in SUBSET s, t # {}
      PROVE  F[t] = f[Pick(t)] + F[t \ {Pick(t)}]
  <2> DEFINE u == t \ {Pick(t)}
  <2>1. Pick(t) \in t
    BY <1>3, PickIn
  <2>2. u \in SUBSET s /\ u # s
    BY <2>1
  <2>3. AddsUp(G(u), f, u)
    BY <1>2, <2>2
  <2>4. G(u)[u] = F[u]
    <3>1. CASE u = {}
      <4>1. G(u)[u] = 0
        BY <2>3, <3>1 DEF AddsUp
      <4>2. F[u] = 0
        BY <2>2, <3>1
      <4> QED BY <4>1, <4>2
    <3>2. CASE u # {}
      <4> DEFINE v == u \ {Pick(u)}
      <4>1. v \in SUBSET s /\ v # s /\ v \subseteq u
        BY <2>2, PickIn
      <4>2. AddsUp(G(v), f, v) /\ IsFiniteSet(v)
        BY <1>2, <4>1
      <4>3. G(u)[v] = G(v)[v]
        <5> HIDE DEF G, u, v
        <5> QED BY <2>3, <4>1, <4>2, AddsUpUnique, SMTT(30)
      <4>4. G(u)[u] = f[Pick(u)] + G(u)[v]
        BY <2>3, <3>2 DEF AddsUp
      <4>5. F[u] = f[Pick(u)] + G(v)[v]
        BY <2>2, <3>2
      <4> QED BY <4>3, <4>4, <4>5
    <3> QED BY <3>1, <3>2
  <2>5. F[t] = f[Pick(t)] + G(u)[u]
    BY <1>3
  <2> QED BY <2>4, <2>5
<1>4. AddsUp(F, f, s)
  <2>1. \A t \in SUBSET s : F[t] = IF t = {} THEN 0 ELSE f[Pick(t)] + F[t \ {Pick(t)}]
    <3>1. \A t \in SUBSET s : t = {} => F[t] = 0
      OBVIOUS
    <3> HIDE DEF F
    <3> QED BY <1>3, <3>1
  <2>2. F = [t \in SUBSET s |-> F[t]]
    BY SMTT(30)
  <2> HIDE DEF F
  <2>3. F = [t \in SUBSET s |-> IF t = {} THEN 0 ELSE f[Pick(t)] + F[t \ {Pick(t)}]]
    BY <2>1, <2>2
  <2> QED BY <2>3 DEF AddsUp
<1> QED BY <1>1, <1>4

(* It gives the sums over all subsets. *)
LEMMA SumAddsUp ==
    ASSUME NEW S, IsFiniteSet(S), NEW f
    PROVE  \E g : AddsUp(g, f, S) /\ \A s \in SUBSET S : SumFunctionOnSet(f, s) = g[s]
<1> DEFINE g == CHOOSE x : AddsUp(x, f, S)
<1>1. AddsUp(g, f, S)
  BY AddsUpExists
<1>2. ASSUME NEW s \in SUBSET S PROVE SumFunctionOnSet(f, s) = g[s]
  <2> DEFINE h == CHOOSE x : AddsUp(x, f, s)
  <2>1. IsFiniteSet(s)
    BY FS_Subset
  <2>2. AddsUp(h, f, s)
    BY <2>1, AddsUpExists
  <2>3. h[s] = g[s]
    <3> HIDE DEF g, h
    <3> QED BY <1>1, <2>1, <2>2, AddsUpUnique, SMTT(30)
  <2> QED BY <2>3, SumIsChoice
<1> HIDE DEF g
<1> QED BY <1>1, <1>2

(* The recursion of the sum. *)
LEMMA SumStep ==
    ASSUME NEW S, IsFiniteSet(S), NEW f
    PROVE  SumFunctionOnSet(f, S) =
              IF S = {} THEN 0 ELSE f[Pick(S)] + SumFunctionOnSet(f, S \ {Pick(S)})
<1>1. PICK g : AddsUp(g, f, S) /\ \A s \in SUBSET S : SumFunctionOnSet(f, s) = g[s]
  BY SumAddsUp, SMTT(30)
<1>2. g[S] = IF S = {} THEN 0 ELSE f[Pick(S)] + g[S \ {Pick(S)}]
  BY <1>1 DEF AddsUp
<1>3. S \in SUBSET S /\ S \ {Pick(S)} \in SUBSET S
  OBVIOUS
<1> QED BY <1>1, <1>2, <1>3

(* The sum over nothing. *)
LEMMA SumEmpty ==
    ASSUME NEW f
    PROVE  SumFunctionOnSet(f, {}) = 0
<1>1. IsFiniteSet({})
  BY FS_EmptySet
<1> QED BY <1>1, SumStep

(* A sum of integers is an integer. *)
LEMMA SumType ==
    ASSUME NEW S, IsFiniteSet(S), NEW f, \A x \in S : f[x] \in Int
    PROVE  SumFunctionOnSet(f, S) \in Int
<1> DEFINE T == {s \in SUBSET S : SumFunctionOnSet(f, s) \notin Int}
<1> SUFFICES ASSUME T # {} PROVE FALSE
  OBVIOUS
<1>1. PICK s \in T : \A t \in T : t \subseteq s => t = s
  <2>1. T \subseteq SUBSET S
    OBVIOUS
  <2> HIDE DEF T
  <2> QED BY <2>1, MinimalSubset, SMTT(30)
<1>2. s # {}
  BY SumEmpty, SMTT(30)
<1>3. Pick(s) \in s /\ f[Pick(s)] \in Int
  BY <1>2, PickIn
<1>4. s \ {Pick(s)} \in SUBSET S /\ s \ {Pick(s)} \notin T
  BY <1>1, <1>3
<1>5. SumFunctionOnSet(f, s \ {Pick(s)}) \in Int
  BY <1>4
<1>6. SumFunctionOnSet(f, s) = f[Pick(s)] + SumFunctionOnSet(f, s \ {Pick(s)})
  BY <1>2, SumStep, FS_Subset
<1>7. SumFunctionOnSet(f, s) \in Int
  BY <1>3, <1>5, <1>6, SMTT(30)
<1> QED BY <1>7

(* Any element may be summed first. *)
LEMMA SumRemove ==
    ASSUME NEW S, IsFiniteSet(S), NEW f, \A x \in S : f[x] \in Int, NEW x \in S
    PROVE  SumFunctionOnSet(f, S) = f[x] + SumFunctionOnSet(f, S \ {x})
<1> DEFINE sum(s) == SumFunctionOnSet(f, s)
           T == {s \in SUBSET S : \E y \in s : sum(s) # f[y] + sum(s \ {y})}
<1> SUFFICES ASSUME T # {} PROVE FALSE
  OBVIOUS
<1>1. PICK s \in T : \A t \in T : t \subseteq s => t = s
  <2>1. T \subseteq SUBSET S
    OBVIOUS
  <2> HIDE DEF T
  <2> QED BY <2>1, MinimalSubset, SMTT(30)
<1>2. PICK y \in s : sum(s) # f[y] + sum(s \ {y})
  OBVIOUS
<1> DEFINE c == Pick(s)
           u == s \ {c}
           v == s \ {y}
           w == u \ {y}
<1>3. sum(s) = f[c] + sum(u) /\ c \in s
  <2>1. s # {} /\ IsFiniteSet(s)
    BY FS_Subset
  <2> QED BY <2>1, SumStep, PickIn
<1>4. c # y
  BY <1>2, <1>3
<1>5. u \in SUBSET S /\ v \in SUBSET S /\ u \notin T /\ v \notin T /\ w = v \ {c}
  BY <1>1, <1>3
<1>6. sum(u) = f[y] + sum(w)
  BY <1>2, <1>4, <1>5
<1>7. sum(v) = f[c] + sum(w)
  BY <1>3, <1>4, <1>5
<1>8. f[c] \in Int /\ f[y] \in Int
  BY <1>3
<1>9. sum(w) \in Int
  <2>1. w \in SUBSET S /\ IsFiniteSet(w)
    BY FS_Subset
  <2> HIDE DEF w
  <2> QED BY <2>1, SumType
<1>10. \A i, j, k \in Int : i + (j + k) = j + (i + k)
  BY SMTT(30)
<1>11. f[c] + (f[y] + sum(w)) = f[y] + (f[c] + sum(w))
  BY <1>8, <1>9, <1>10
<1> QED BY <1>2, <1>3, <1>6, <1>7, <1>11

(* Leaving an element out that may not be there. *)
LEMMA SumWithout ==
    ASSUME NEW S, IsFiniteSet(S), NEW f, \A x \in S : f[x] \in Int, NEW a
    PROVE  /\ SumFunctionOnSet(f, S) =
                 (IF a \in S THEN f[a] ELSE 0) + SumFunctionOnSet(f, S \ {a})
           /\ SumFunctionOnSet(f, S) \in Int /\ SumFunctionOnSet(f, S \ {a}) \in Int
           /\ IsFiniteSet(S \ {a})
<1>1. IsFiniteSet(S \ {a}) /\ \A x \in S \ {a} : f[x] \in Int
  BY FS_Subset
<1>2. SumFunctionOnSet(f, S) \in Int
  BY SumType
<1>3. SumFunctionOnSet(f, S \ {a}) \in Int
  BY <1>1, SumType
<1>4. CASE a \in S
  <2>1. SumFunctionOnSet(f, S) = f[a] + SumFunctionOnSet(f, S \ {a})
    BY <1>4, SumRemove
  <2> QED BY <1>1, <1>2, <1>3, <1>4, <2>1
<1>5. CASE a \notin S
  <2>1. S \ {a} = S
    BY <1>5
  <2>2. \A n \in Int : n = 0 + n
    BY SMTT(30)
  <2>3. SumFunctionOnSet(f, S) = 0 + SumFunctionOnSet(f, S \ {a})
    BY <1>2, <2>1, <2>2
  <2> QED BY <1>1, <1>2, <1>3, <1>5, <2>3
<1> QED BY <1>4, <1>5

(* The sum of one value that is not 0. *)
LEMMA SumSingle ==
    ASSUME NEW S, IsFiniteSet(S), NEW f, NEW a \in S, f[a] \in Int, \A x \in S : x # a => f[x] = 0
    PROVE  SumFunctionOnSet(f, S) = f[a]
<1> DEFINE T == {s \in SUBSET (S \ {a}) : SumFunctionOnSet(f, s) # 0}
<1>0. IsFiniteSet(S \ {a}) /\ \A x \in S : f[x] \in Int
  <2>1. 0 \in Int
    BY SMTT(30)
  <2> QED BY <2>1, FS_Subset
<1>1. T = {}
  <2> SUFFICES ASSUME T # {} PROVE FALSE
    OBVIOUS
  <2>1. PICK s \in T : \A t \in T : t \subseteq s => t = s
    <3>1. T \subseteq SUBSET (S \ {a})
      OBVIOUS
    <3> HIDE DEF T
    <3> QED BY <1>0, <3>1, MinimalSubset, SMTT(30)
  <2>2. s # {} /\ IsFiniteSet(s)
    BY <1>0, SumEmpty, FS_Subset
  <2>3. Pick(s) \in s /\ f[Pick(s)] = 0
    BY <2>2, PickIn
  <2>4. s \ {Pick(s)} \in SUBSET (S \ {a}) /\ s \ {Pick(s)} \notin T
    BY <2>1, <2>3
  <2>5. SumFunctionOnSet(f, s \ {Pick(s)}) = 0
    BY <2>4
  <2>6. SumFunctionOnSet(f, s) = f[Pick(s)] + SumFunctionOnSet(f, s \ {Pick(s)})
    BY <2>2, SumStep
  <2>7. SumFunctionOnSet(f, s) = 0
    BY <2>3, <2>5, <2>6, SMTT(30)
  <2> QED BY <2>7
<1>2. SumFunctionOnSet(f, S \ {a}) = 0
  BY <1>1
<1>3. SumFunctionOnSet(f, S) = f[a] + SumFunctionOnSet(f, S \ {a})
  BY <1>0, SumRemove
<1> QED BY <1>2, <1>3, SMTT(30)

(* The sum of one value. *)
LEMMA SumOne ==
    ASSUME NEW f, NEW a, f[a] \in Int
    PROVE  SumFunctionOnSet(f, {a}) = f[a]
<1>1. PICK S : S = {a}
  OBVIOUS
<1>2. IsFiniteSet(S)
  BY <1>1, FS_Singleton
<1>3. a \in S /\ \A x \in S : x # a => f[x] = 0
  BY <1>1
<1>4. SumFunctionOnSet(f, S) = f[a]
  BY <1>2, <1>3, SumSingle
<1> QED BY <1>1, <1>4

(* A sum of natural numbers is one. *)
LEMMA SumNat ==
    ASSUME NEW S, IsFiniteSet(S), NEW f, \A x \in S : f[x] \in Nat
    PROVE  SumFunctionOnSet(f, S) \in Nat
<1> DEFINE T == {s \in SUBSET S : SumFunctionOnSet(f, s) \notin Nat}
<1> SUFFICES ASSUME T # {} PROVE FALSE
  OBVIOUS
<1>1. PICK s \in T : \A t \in T : t \subseteq s => t = s
  <2>1. T \subseteq SUBSET S
    OBVIOUS
  <2> HIDE DEF T
  <2> QED BY <2>1, MinimalSubset, SMTT(30)
<1>2. s # {}
  BY SumEmpty, SMTT(30)
<1>3. Pick(s) \in s /\ f[Pick(s)] \in Nat
  BY <1>2, PickIn
<1>4. s \ {Pick(s)} \in SUBSET S /\ s \ {Pick(s)} \notin T
  BY <1>1, <1>3
<1>5. SumFunctionOnSet(f, s \ {Pick(s)}) \in Nat
  BY <1>4
<1>6. SumFunctionOnSet(f, s) = f[Pick(s)] + SumFunctionOnSet(f, s \ {Pick(s)})
  BY <1>2, SumStep, FS_Subset
<1>7. SumFunctionOnSet(f, s) \in Nat
  BY <1>3, <1>5, <1>6, SMTT(30)
<1> QED BY <1>7

(* More summands, a greater sum. *)
LEMMA SumMonotone ==
    ASSUME NEW S, IsFiniteSet(S), NEW f, \A x \in S : f[x] \in Nat, NEW R, R \subseteq S
    PROVE  SumFunctionOnSet(f, R) <= SumFunctionOnSet(f, S)
<1> DEFINE sum(s) == SumFunctionOnSet(f, s)
           T == {s \in SUBSET S : R \subseteq s /\ ~(sum(R) <= sum(s))}
<1> SUFFICES ASSUME T # {} PROVE FALSE
  OBVIOUS
<1>1. PICK s \in T : \A t \in T : t \subseteq s => t = s
  <2>1. T \subseteq SUBSET S
    OBVIOUS
  <2> HIDE DEF T
  <2> QED BY <2>1, MinimalSubset, SMTT(30)
<1>2. s \subseteq S /\ R \subseteq s /\ ~(sum(R) <= sum(s)) /\ IsFiniteSet(s) /\ IsFiniteSet(R)
  BY FS_Subset
<1>3. sum(R) \in Nat
  <2>1. \A x \in R : f[x] \in Nat
    OBVIOUS
  <2> QED BY <1>2, <2>1, SumNat
<1>4. s # R
  <2>1. \A n \in Nat : n <= n
    BY SMTT(30)
  <2> QED BY <1>2, <1>3, <2>1
<1>5. PICK y \in s : y \notin R
  BY <1>2, <1>4
<1>6. PICK u : u = s \ {y}
  OBVIOUS
<1>7. u \in SUBSET S /\ R \subseteq u /\ u \notin T /\ IsFiniteSet(u)
  BY <1>1, <1>2, <1>5, <1>6, FS_Subset
<1>8. sum(R) <= sum(u)
  BY <1>7
<1>9. sum(s) = f[y] + sum(u)
  <2>1. \A x \in s : f[x] \in Int
    BY <1>2, SMTT(30)
  <2> QED BY <1>2, <1>5, <1>6, <2>1, SumRemove
<1>10. sum(u) \in Nat /\ f[y] \in Nat
  <2>1. \A x \in u : f[x] \in Nat
    BY <1>7
  <2> QED BY <1>2, <1>5, <1>7, <2>1, SumNat
<1>11. \A i, j, k \in Nat : i <= j => i <= k + j
  BY SMTT(30)
<1> QED BY <1>2, <1>3, <1>8, <1>9, <1>10, <1>11

(* The sum of the numbers of a set. *)
LEMMA SetSum ==
    ASSUME NEW S, IsFiniteSet(S), NEW f, f = [x \in S |-> x]
    PROVE  SumSet(S) = SumFunctionOnSet(f, S)
<1> DEFINE A(g) == g = [s \in SUBSET S |-> IF s = {} THEN 0 ELSE Pick(s) + g[s \ {Pick(s)}]]
<1>1. SumSet(S) = (CHOOSE g : A(g))[S]
  BY DEF SumSet, FoldSet, MapThenFoldSet, Pick
<1>2. ASSUME NEW g PROVE A(g) <=> AddsUp(g, f, S)
  <2>1. \A s \in SUBSET S : s # {} => f[Pick(s)] = Pick(s)
    BY PickIn
  <2>2. [s \in SUBSET S |-> IF s = {} THEN 0 ELSE Pick(s) + g[s \ {Pick(s)}]]
         = [s \in SUBSET S |-> IF s = {} THEN 0 ELSE f[Pick(s)] + g[s \ {Pick(s)}]]
    BY <2>1
  <2> QED BY <2>2 DEF AddsUp
<1>3. PICK h : h = CHOOSE g : A(g)
  OBVIOUS
<1>4. A(h)
  <2>1. \E g : A(g)
    BY <1>2, AddsUpExists
  <2> QED BY <1>3, <2>1
<1>5. AddsUp(h, f, S)
  BY <1>2, <1>4
<1>6. PICK k : AddsUp(k, f, S) /\ \A s \in SUBSET S : SumFunctionOnSet(f, s) = k[s]
  BY SumAddsUp, SMTT(30)
<1>7. h[S] = k[S]
  BY <1>5, <1>6, AddsUpUnique, SMTT(30)
<1> QED BY <1>1, <1>3, <1>6, <1>7

(* It is no less than any of them. *)
LEMMA SetSumBound ==
    ASSUME NEW S, IsFiniteSet(S), S \subseteq Nat, NEW x \in S
    PROVE  x <= SumSet(S) /\ SumSet(S) \in Nat
<1>1. PICK f : f = [y \in S |-> y]
  OBVIOUS
<1>2. \A y \in S : f[y] = y /\ f[y] \in Nat
  BY <1>1
<1>3. SumSet(S) = SumFunctionOnSet(f, S)
  BY <1>1, SetSum
<1>4. SumFunctionOnSet(f, S) \in Nat
  BY <1>2, SumNat
<1>5. SumFunctionOnSet(f, {x}) <= SumFunctionOnSet(f, S)
  <2>1. {x} \subseteq S
    OBVIOUS
  <2> QED BY <1>2, <2>1, SumMonotone
<1>6. SumFunctionOnSet(f, {x}) = x
  <2>1. f[x] \in Int /\ f[x] = x
    BY <1>2, SMTT(30)
  <2> QED BY <2>1, SumOne
<1> QED BY <1>3, <1>4, <1>5, <1>6

(* A finite set of numbers has a greatest one. *)
LEMMA MaxIn ==
    ASSUME NEW S, IsFiniteSet(S), \A x \in S : x \in Int, S # {}
    PROVE  Max(S) \in S /\ \A y \in S : Max(S) >= y
<1> DEFINE T == {s \in SUBSET S : s # {} /\ ~\E x \in s : \A y \in s : x >= y}
<1>1. ASSUME T # {} PROVE FALSE
  <2>1. PICK s \in T : \A t \in T : t \subseteq s => t = s
    <3>1. T \subseteq SUBSET S /\ IsFiniteSet(S)
      OBVIOUS
    <3>2. PICK U, M : U = T /\ M = S
      OBVIOUS
    <3>3. U \subseteq SUBSET M /\ IsFiniteSet(M) /\ U # {}
      BY <1>1, <3>1, <3>2
    <3> HIDE DEF T
    <3>4. \E s \in U : \A t \in U : t \subseteq s => t = s
      BY <3>3, MinimalSubset, SMTT(30)
    <3> QED BY <3>2, <3>4
  <2>2. PICK x : x \in s
    OBVIOUS
  <2>3. PICK u : u = s \ {x}
    OBVIOUS
  <2>4. x \in Int /\ x >= x /\ u \subseteq Int
    <3>1. x \in Int /\ u \subseteq Int
      BY <2>2, <2>3
    <3> QED BY <3>1, SMTT(30)
  <2>5. u # {}
    <3>1. CASE u = {}
      <4>1. \A y \in s : y = x
        BY <2>3, <3>1
      <4> QED BY <2>2, <2>4, <4>1
    <3> QED BY <3>1
  <2>6. u \in SUBSET S /\ u \notin T
    BY <2>1, <2>2, <2>3
  <2>7. PICK m \in u : \A y \in u : m >= y
    BY <2>5, <2>6
  <2>8. m \in Int /\ m \in s
    BY <2>3, <2>4
  <2>9. \/ m >= x
        \/ x >= m /\ \A y \in u : x >= y
    BY <2>4, <2>7, <2>8, SMTT(30)
  <2>10. \A y \in s : y = x \/ y \in u
    BY <2>3
  <2> QED BY <2>2, <2>4, <2>7, <2>8, <2>9, <2>10
<1>2. \E x \in S : \A y \in S : x >= y
  BY <1>1
<1> QED BY <1>2 DEF Max

-----------------------------------------------------------------------------
(* The types of the fields.                                                *)

State == {"passive", "active", "confirmed", "expired_confirmed", "expired_unconfirmed", "cancelled"}
Voting == Rep \cup {Null}
Ballot == [timestamp : 0 .. Final, hash : Candidate]
Ballots == UNION {[D -> Ballot] : D \in SUBSET Voting}
Tallies == UNION {[D -> Nat] : D \in SUBSET Candidate}
Elections ==
    [state : State, last_votes : Ballots, last_blocks : SUBSET Candidate, winner : Candidate,
     is_quorum : BOOLEAN, final_weight : Nat, last_tally : Tallies]
Publication == [block : Candidate, replaced : Candidate]

ETypeOK ==
    /\ election \in [Node -> Elections]
    /\ publishing \in [Node -> Publication \cup {None}]
    /\ routes \in [Node -> SUBSET Candidate] /\ routed \in [Node -> SUBSET Candidate]
    /\ erased \in [Node -> BOOLEAN] /\ aborted \in [Node -> BOOLEAN]
    /\ requests \in [Node -> Candidate \cup {None}]
    /\ final_vote \in [Rep -> Candidate \cup {None}]

(* The fields of an election. *)
LEMMA Fields ==
    ASSUME NEW e \in Elections
    PROVE  /\ e.state \in State /\ e.last_votes \in Ballots /\ e.last_blocks \subseteq Candidate
           /\ e.winner \in Candidate /\ e.is_quorum \in BOOLEAN /\ e.final_weight \in Nat
           /\ e.last_tally \in Tallies
BY DEF Elections

(* A map of votes, and its entries. *)
LEMMA BallotsOf ==
    ASSUME NEW f \in Ballots
    PROVE  /\ DOMAIN f \in SUBSET Voting /\ f \in [DOMAIN f -> Ballot]
           /\ \A r \in DOMAIN f : f[r] \in Ballot /\ f[r].hash \in Candidate
BY DEF Ballots, Ballot

(* A function from voters to votes is a map of votes. *)
LEMMA BallotsIn ==
    ASSUME NEW D \in SUBSET Voting, NEW f \in [D -> Ballot]
    PROVE  f \in Ballots
BY DEF Ballots

(* A map of weights. *)
LEMMA TalliesOf ==
    ASSUME NEW f \in Tallies
    PROVE  DOMAIN f \subseteq Candidate
BY DEF Tallies

(* A function from blocks to numbers is a map of weights. *)
LEMMA TalliesIn ==
    ASSUME NEW D \in SUBSET Candidate, NEW f \in [D -> Nat]
    PROVE  f \in Tallies
BY DEF Tallies

-----------------------------------------------------------------------------
(* Weights.                                                                *)

(* There are finitely many voters, and the null account weighs nothing. *)
weight == [r \in Voting |-> IF r = Null THEN 0 ELSE Weight[r]]

(* The weights that Total adds up. *)
LEMMA Weights ==
    /\ IsFiniteSet(Voting) /\ \A r \in Voting : weight[r] \in Nat
    /\ weight[Null] = 0 /\ \A R : Total(R) = SumFunctionOnSet(weight, R)
<1>1. IsFiniteSet(Voting)
  BY ElectionAssumption, FS_AddElement DEF Voting
<1>2. \A r \in Rep : Weight[r] \in Nat
  BY ElectionAssumption
<1>3. 0 \in Nat
  BY SMTT(30)
<1>4. \A r \in Voting : weight[r] \in Nat
  BY <1>2, <1>3 DEF weight, Voting
<1>5. weight[Null] = 0
  BY DEF weight, Voting
<1>6. \A R : Total(R) = SumFunctionOnSet(weight, R)
  BY DEF Total, weight, Voting
<1> QED BY <1>1, <1>4, <1>5, <1>6

(* The weight of a set of voters. *)
LEMMA TotalNat ==
    ASSUME NEW R, R \subseteq Voting
    PROVE  Total(R) \in Nat
<1>1. IsFiniteSet(R) /\ \A r \in R : weight[r] \in Nat
  BY Weights, FS_Subset
<1>2. SumFunctionOnSet(weight, R) \in Nat
  BY <1>1, SumNat
<1> QED BY <1>2, Weights

(* More voters weigh no less. *)
LEMMA TotalMonotone ==
    ASSUME NEW R, NEW S, R \subseteq S, S \subseteq Voting
    PROVE  Total(R) <= Total(S)
<1>1. IsFiniteSet(S) /\ \A r \in S : weight[r] \in Nat
  BY Weights, FS_Subset
<1>2. SumFunctionOnSet(weight, R) <= SumFunctionOnSet(weight, S)
  BY <1>1, SumMonotone
<1> QED BY <1>2, Weights

(* No voters weigh nothing. *)
LEMMA TotalNone == Total({}) = 0
BY Weights, SumEmpty

(* The null account adds nothing. *)
LEMMA TotalReps ==
    ASSUME NEW R, R \subseteq Voting
    PROVE  Total(R \ {Null}) = Total(R)
<1>1. IsFiniteSet(R) /\ \A r \in R : weight[r] \in Nat
  BY Weights, FS_Subset
<1>2. \A r \in R : weight[r] \in Int
  BY <1>1, SMTT(30)
<1>3. /\ SumFunctionOnSet(weight, R) =
            (IF Null \in R THEN weight[Null] ELSE 0) + SumFunctionOnSet(weight, R \ {Null})
      /\ SumFunctionOnSet(weight, R) \in Int /\ SumFunctionOnSet(weight, R \ {Null}) \in Int
      /\ IsFiniteSet(R \ {Null})
  BY <1>1, <1>2, SumWithout
<1>4. (IF Null \in R THEN weight[Null] ELSE 0) = 0
  BY Weights
<1>5. SumFunctionOnSet(weight, R) = 0 + SumFunctionOnSet(weight, R \ {Null})
  BY <1>3, <1>4
<1>6. \A n \in Int : 0 + n = n
  BY SMTT(30)
<1>7. SumFunctionOnSet(weight, R) = SumFunctionOnSet(weight, R \ {Null})
  BY <1>3, <1>5, <1>6
<1> QED BY <1>7, Weights

-----------------------------------------------------------------------------
(* What the steps of an election do to its fields.                         *)

(* A vote is recorded for its representative. *)
LEMMA WithVote ==
    ASSUME NEW e \in Elections, NEW v \in Vote
    PROVE  /\ with_vote(e, v) \in Elections
           /\ with_vote(e, v).state = e.state /\ with_vote(e, v).last_blocks = e.last_blocks
           /\ with_vote(e, v).winner = e.winner /\ with_vote(e, v).is_quorum = e.is_quorum
           /\ with_vote(e, v).final_weight = e.final_weight
           /\ with_vote(e, v).last_votes =
                [r \in DOMAIN e.last_votes \cup {v.rep} |->
                    IF r = v.rep THEN [timestamp |-> v.timestamp, hash |-> v.hash] ELSE e.last_votes[r]]
<1> DEFINE D == DOMAIN e.last_votes \cup {v.rep}
           f == [r \in D |-> IF r = v.rep THEN [timestamp |-> v.timestamp, hash |-> v.hash] ELSE e.last_votes[r]]
<1>1. with_vote(e, v) = [e EXCEPT !.last_votes = f]
  BY DEF with_vote
<1>2. v.rep \in Rep /\ v.timestamp \in 1 .. Final /\ v.hash \in Candidate
  BY DEF Vote
<1>3. v.timestamp \in 0 .. Final
  BY <1>2, ElectionAssumption, SMTT(30) DEF Final
<1>4. D \in SUBSET Voting
  BY <1>2, Fields, BallotsOf DEF Voting
<1>5. f \in [D -> Ballot]
  BY <1>2, <1>3, Fields, BallotsOf DEF Ballot
<1>6. f \in Ballots
  BY <1>4, <1>5, BallotsIn
<1> HIDE DEF f
<1>7. [e EXCEPT !.last_votes = f] \in Elections
  BY <1>6 DEF Elections
<1>8. LET x == [e EXCEPT !.last_votes = f]
      IN  /\ x.state = e.state /\ x.last_blocks = e.last_blocks /\ x.winner = e.winner
          /\ x.is_quorum = e.is_quorum /\ x.final_weight = e.final_weight /\ x.last_votes = f
  BY DEF Elections
<1> QED BY <1>1, <1>7, <1>8 DEF f

(* The voters of a block. *)
LEMMA Voters ==
    ASSUME NEW e \in Elections, NEW h
    PROVE  /\ voters(e, h) \subseteq Voting /\ final_voters(e, h) \subseteq voters(e, h)
           /\ Total(voters(e, h)) \in Nat /\ Total(final_voters(e, h)) \in Nat
           /\ Total(final_voters(e, h)) <= Total(voters(e, h))
<1>1. voters(e, h) \subseteq Voting
  BY Fields, BallotsOf DEF voters
<1>2. final_voters(e, h) \subseteq voters(e, h)
  BY DEF final_voters
<1>3. final_voters(e, h) \subseteq Voting
  BY <1>1, <1>2
<1> QED BY <1>1, <1>2, <1>3, TotalNat, TotalMonotone

(* block_weights has the weight of every block with a vote. *)
LEMMA BlockWeights ==
    ASSUME NEW e \in Elections
    PROVE  /\ block_weights(e) \in Tallies
           /\ DOMAIN block_weights(e) = {e.last_votes[r].hash : r \in DOMAIN e.last_votes}
           /\ \A h \in DOMAIN block_weights(e) : block_weights(e)[h] = Total(voters(e, h))
<1> DEFINE D == {e.last_votes[r].hash : r \in DOMAIN e.last_votes}
<1>1. D \in SUBSET Candidate
  BY Fields, BallotsOf
<1>2. block_weights(e) = [h \in D |-> Total(voters(e, h))]
  BY DEF block_weights
<1>3. \A h \in D : Total(voters(e, h)) \in Nat
  BY Voters
<1>4. block_weights(e) \in [D -> Nat]
  BY <1>2, <1>3
<1>5. block_weights(e) \in Tallies
  BY <1>1, <1>4, TalliesIn
<1> QED BY <1>2, <1>5

(* tally_impl changes only what it leaves for later calls. *)
LEMMA Tallied ==
    ASSUME NEW e \in Elections, NEW t
    PROVE  /\ tallied(e, t) \in Elections
           /\ tallied(e, t).state = e.state /\ tallied(e, t).last_blocks = e.last_blocks
           /\ tallied(e, t).winner = e.winner /\ tallied(e, t).is_quorum = e.is_quorum
           /\ tallied(e, t).last_votes = e.last_votes
           /\ \/ tallied(e, t).final_weight = e.final_weight
              \/ tallied(e, t).final_weight = Total(final_voters(e, leader(t)))
<1> DEFINE finals == IF t = <<>> THEN {} ELSE final_voters(e, leader(t))
           w == IF finals = {} THEN e.final_weight ELSE Total(finals)
           b == block_weights(e)
<1>1. tallied(e, t) = [e EXCEPT !.last_tally = b, !.final_weight = w]
  BY DEF tallied
<1>2. w = e.final_weight \/ w = Total(final_voters(e, leader(t)))
  OBVIOUS
<1>3. w \in Nat /\ b \in Tallies
  BY <1>2, Fields, Voters, BlockWeights
<1> HIDE DEF w, b
<1>4. [e EXCEPT !.last_tally = b, !.final_weight = w] \in Elections
  BY <1>3 DEF Elections
<1>5. LET x == [e EXCEPT !.last_tally = b, !.final_weight = w]
      IN  /\ x.state = e.state /\ x.last_blocks = e.last_blocks /\ x.winner = e.winner
          /\ x.is_quorum = e.is_quorum /\ x.final_weight = w /\ x.last_votes = e.last_votes
  BY DEF Elections
<1> QED BY <1>1, <1>2, <1>4, <1>5

-----------------------------------------------------------------------------
(* The tally.                                                              *)

(* The leader of a tally is a block of the election, it has the largest
   weight of all blocks of the election with votes, and the sum of the tally
   is at least that weight. *)
LEMMA TallyFacts ==
    ASSUME NEW e \in Elections, NEW t \in tally(e), t # <<>>
    PROVE  /\ leader(t) \in e.last_blocks /\ Total(voters(e, leader(t))) = Max(DOMAIN t)
           /\ Max(DOMAIN t) \in Nat
           /\ \A h \in e.last_blocks : h \in DOMAIN block_weights(e) => Total(voters(e, h)) <= Max(DOMAIN t)
           /\ SumSet(DOMAIN t) \in Nat /\ Max(DOMAIN t) <= SumSet(DOMAIN t)
           /\ have_quorum(t) => Max(DOMAIN t) >= Delta
<1> DEFINE w == block_weights(e)
           held == DOMAIN w \cap e.last_blocks
           amounts == {w[h] : h \in held}
<1>1. t \in [amounts -> held] /\ \A a \in amounts : w[t[a]] = a
  BY DEF tally
<1>2. \A h \in held : w[h] = Total(voters(e, h)) /\ w[h] \in Nat
  BY BlockWeights, Voters
<1>3. DOMAIN t = amounts /\ \A a \in amounts : a \in Nat
  BY <1>1, <1>2
<1>4. amounts # {}
  <2>1. SUFFICES ASSUME amounts = {} PROVE FALSE
    OBVIOUS
  <2>2. t \in [{} -> held]
    BY <1>1, <2>1
  <2> HIDE DEF held
  <2> QED BY <2>2, SMTT(30)
<1>5. IsFiniteSet(held)
  <2>1. held \subseteq Candidate /\ IsFiniteSet(Candidate)
    BY Fields, ElectionAssumption
  <2> QED BY <2>1, FS_Subset
<1>6. PICK A : A = amounts
  OBVIOUS
<1>7. IsFiniteSet(A) /\ A # {} /\ A \subseteq Nat /\ DOMAIN t = A
  <2>1. PICK f : f = [h \in held |-> w[h]]
    OBVIOUS
  <2>2. f \in Surjection(held, A)
    BY <1>6, <2>1 DEF Surjection
  <2>3. IsFiniteSet(A)
    BY <1>5, <2>2, FS_Surjection
  <2> QED BY <1>3, <1>4, <1>6, <2>3
<1>8. \A a \in A : a \in Int
  BY <1>7, SMTT(30)
<1>9. Max(A) \in A /\ \A y \in A : Max(A) >= y
  BY <1>7, <1>8, MaxIn
<1>10. Max(A) <= SumSet(A) /\ SumSet(A) \in Nat
  BY <1>7, <1>9, SetSumBound
<1>11. leader(t) \in held /\ w[leader(t)] = Max(A)
  BY <1>1, <1>6, <1>7, <1>9 DEF leader
<1>12. \A h \in held : Total(voters(e, h)) <= Max(A)
  <2>1. \A h \in held : Total(voters(e, h)) \in A
    BY <1>2, <1>6
  <2>2. \A m, n \in Nat : m >= n => n <= m
    BY SMTT(30)
  <2> QED BY <1>7, <1>9, <2>1, <2>2
<1>13. have_quorum(t) => Max(A) >= Delta
  <2>1. PICK B : B = {0} \cup (A \ {Max(A)})
    OBVIOUS
  <2>2. IsFiniteSet(B) /\ B # {} /\ B \subseteq Nat /\ 0 \in B
    <3>1. IsFiniteSet(A \ {Max(A)}) /\ IsFiniteSet({0}) /\ 0 \in Nat
      BY <1>7, FS_Subset, FS_Singleton
    <3> QED BY <1>7, <2>1, <3>1, FS_Union
  <2>3. \A a \in B : a \in Int
    BY <2>2, SMTT(30)
  <2>4. Max(B) \in B
    BY <2>2, <2>3, MaxIn
  <2>5. second(t) \in Nat
    BY <1>7, <2>1, <2>2, <2>4 DEF second
  <2>6. have_quorum(t) <=> Max(A) - second(t) >= Delta
    BY <1>7 DEF have_quorum
  <2>7. \A m, s, d \in Nat : m - s >= d => m >= d
    BY SMTT(30)
  <2> QED BY <1>7, <1>9, <2>5, <2>6, <2>7, ElectionAssumption
<1> HIDE DEF amounts
<1> QED BY <1>2, <1>7, <1>9, <1>10, <1>11, <1>12, <1>13

(* confirm_if_quorum: the winner becomes the leader of a tally that reaches
   the quorum delta, and is confirmed only if it leads by as much and the
   final votes weigh as much. *)
LEMMA ConfirmIfQuorum ==
    ASSUME NEW e \in Elections, NEW t \in tally(e), t # <<>>, NEW c, c = confirm_if_quorum(e, t)
    PROVE  /\ c \in Elections /\ c.last_votes = e.last_votes /\ c.last_blocks = e.last_blocks
           /\ c.winner = e.winner \/ c.winner = leader(t)
           /\ Max(DOMAIN t) >= Delta => c.winner = leader(t)
           /\ c.state = e.state \/ (c.state = "confirmed" /\ have_quorum(t) /\ c.final_weight >= Delta)
           /\ \/ c.final_weight = e.final_weight
              \/ c.final_weight = Total(final_voters(e, leader(t)))
<1>1. PICK f : f = tallied(e, t)
  OBVIOUS
<1>2. /\ f \in Elections /\ f.state = e.state /\ f.last_blocks = e.last_blocks
      /\ f.winner = e.winner /\ f.last_votes = e.last_votes
      /\ \/ f.final_weight = e.final_weight \/ f.final_weight = Total(final_voters(e, leader(t)))
  BY <1>1, Tallied
<1>3. PICK w, q, s :
        /\ w = (IF SumSet(DOMAIN t) >= Delta /\ leader(t) # e.winner THEN leader(t) ELSE f.winner)
        /\ q = (f.is_quorum \/ have_quorum(t))
        /\ s = (IF have_quorum(t) /\ f.final_weight >= Delta THEN "confirmed" ELSE f.state)
  OBVIOUS
<1>4. c = [f EXCEPT !.winner = w, !.is_quorum = q, !.state = s]
  BY <1>1, <1>3 DEF confirm_if_quorum
<1>5. w \in Candidate /\ q \in BOOLEAN /\ s \in State
  <2>1. leader(t) \in Candidate
    BY Fields, TallyFacts
  <2>2. f.winner \in Candidate /\ f.state \in State
    BY <1>2, Fields
  <2> QED BY <1>3, <2>1, <2>2 DEF State
<1>6. c \in Elections
  BY <1>2, <1>4, <1>5 DEF Elections
<1>7. /\ c.last_votes = f.last_votes /\ c.last_blocks = f.last_blocks /\ c.winner = w
      /\ c.state = s /\ c.final_weight = f.final_weight
  BY <1>2, <1>4 DEF Elections
<1>8. Max(DOMAIN t) >= Delta => SumSet(DOMAIN t) >= Delta
  <2>1. /\ Max(DOMAIN t) \in Nat /\ SumSet(DOMAIN t) \in Nat /\ Max(DOMAIN t) <= SumSet(DOMAIN t)
        /\ Delta \in Nat
    BY TallyFacts, ElectionAssumption
  <2>2. \A m, s0, d \in Nat : m <= s0 /\ m >= d => s0 >= d
    BY SMTT(30)
  <2> QED BY <2>1, <2>2
<1>9. w = e.winner \/ w = leader(t)
  BY <1>2, <1>3
<1>10. SumSet(DOMAIN t) >= Delta => w = leader(t)
  BY <1>2, <1>3
<1>11. s = e.state \/ (s = "confirmed" /\ have_quorum(t) /\ f.final_weight >= Delta)
  BY <1>2, <1>3
<1> QED BY <1>2, <1>6, <1>7, <1>8, <1>9, <1>10, <1>11

(* A new block among the blocks of an election. *)
LEMMA WithBlock ==
    ASSUME NEW e \in Elections, NEW h \in Candidate, NEW c, c = [e EXCEPT !.last_blocks = @ \cup {h}]
    PROVE  /\ c \in Elections /\ c.last_votes = e.last_votes /\ c.last_blocks = e.last_blocks \cup {h}
           /\ c.winner = e.winner /\ c.state = e.state /\ c.final_weight = e.final_weight
BY DEF Elections

(* A change of state. *)
LEMMA WithState ==
    ASSUME NEW e \in Elections, NEW s \in State, NEW c, c = [e EXCEPT !.state = s]
    PROVE  /\ c \in Elections /\ c.last_votes = e.last_votes /\ c.last_blocks = e.last_blocks
           /\ c.winner = e.winner /\ c.state = s /\ c.final_weight = e.final_weight
BY DEF Elections

(* remove_block takes the votes for a block with the block, but never the
   winner. *)
LEMMA RemoveBlock ==
    ASSUME NEW e \in Elections, NEW h
    PROVE  /\ remove_block(e, h) \in Elections
           /\ remove_block(e, h).winner = e.winner /\ remove_block(e, h).state = e.state
           /\ e.winner \in e.last_blocks => e.winner \in remove_block(e, h).last_blocks
<1>1. CASE ~(h # e.winner /\ h \in e.last_blocks)
  BY <1>1 DEF remove_block
<1>2. CASE h # e.winner /\ h \in e.last_blocks
  <2>1. PICK f : f = [r \in DOMAIN e.last_votes \ voters(e, h) |-> e.last_votes[r]]
    OBVIOUS
  <2>2. remove_block(e, h) = [e EXCEPT !.last_blocks = e.last_blocks \ {h}, !.last_votes = f]
    BY <1>2, <2>1 DEF remove_block
  <2>3. f \in Ballots
    <3>1. DOMAIN e.last_votes \ voters(e, h) \in SUBSET Voting
      BY Fields, BallotsOf
    <3>2. f \in [DOMAIN e.last_votes \ voters(e, h) -> Ballot]
      BY <2>1, Fields, BallotsOf
    <3> QED BY <3>1, <3>2, BallotsIn
  <2>4. remove_block(e, h) \in Elections
    BY <2>2, <2>3 DEF Elections
  <2>5. /\ remove_block(e, h).winner = e.winner /\ remove_block(e, h).state = e.state
        /\ remove_block(e, h).last_blocks = e.last_blocks \ {h}
    BY <2>2 DEF Elections
  <2> QED BY <1>2, <2>4, <2>5
<1> QED BY <1>1, <1>2

(* A new election. *)
LEMMA FreshElection ==
    ASSUME NEW c \in Candidate
    PROVE  /\ Fresh(c) \in Elections /\ Fresh(c).winner = c /\ Fresh(c).last_blocks = {c}
           /\ Fresh(c).state = "passive" /\ Fresh(c).final_weight = 0
           /\ Fresh(c).last_votes = [r \in {Null} |-> [timestamp |-> 0, hash |-> c]]
<1>1. PICK f : f = [r \in {Null} |-> [timestamp |-> 0, hash |-> c]]
  OBVIOUS
<1>2. 0 \in 0 .. Final /\ 0 \in Nat
  BY ElectionAssumption, SMTT(30) DEF Final
<1>3. f \in [{Null} -> Ballot] /\ {Null} \in SUBSET Voting
  BY <1>1, <1>2 DEF Ballot, Voting
<1>4. f \in Ballots
  BY <1>3, BallotsIn
<1>5. <<>> \in Tallies
  <2>1. <<>> \in [{} -> Nat]
    BY SMTT(30)
  <2> QED BY <2>1, TalliesIn
<1>6. Fresh(c) = [state |-> "passive", last_votes |-> f, last_blocks |-> {c}, winner |-> c,
                  is_quorum |-> FALSE, final_weight |-> 0, last_tally |-> <<>>]
  BY <1>1 DEF Fresh
<1>7. "passive" \in State /\ {c} \in SUBSET Candidate /\ FALSE \in BOOLEAN
  BY DEF State
<1>8. Fresh(c) \in Elections
  BY <1>2, <1>4, <1>5, <1>6, <1>7, SMTT(30) DEF Elections
<1>9. /\ Fresh(c).winner = c /\ Fresh(c).last_blocks = {c} /\ Fresh(c).state = "passive"
      /\ Fresh(c).final_weight = 0 /\ Fresh(c).last_votes = f
  BY <1>6, SMTT(30)
<1> QED BY <1>1, <1>8, <1>9

-----------------------------------------------------------------------------
(* What a step does to an election: a vote is applied and the quorum looked  *)
(* at, the tally is taken, a block comes in, the state changes or a new      *)
(* election takes its place.                                                 *)

Voted(n, v, x) ==
    /\ v.hash \in routed[n] /\ replay_check(election[n], v)
    /\ v.timestamp = Final => final_vote[v.rep] = v.hash
    /\ \/ confirmed_locked(with_vote(election[n], v)) /\ x = with_vote(election[n], v)
       \/ /\ ~confirmed_locked(with_vote(election[n], v))
          /\ \E t \in tally(with_vote(election[n], v)) :
                t # <<>> /\ x = confirm_if_quorum(with_vote(election[n], v), t)
Counted(n, x) ==
    ~confirmed_locked(election[n]) /\ \E t \in tally(election[n]) : x = tallied(election[n], t)
Published(n, x) ==
    \E h \in Candidate : x = [election[n] EXCEPT !.last_blocks = @ \cup {h}]
Replaced(n, x) ==
    publishing[n] # None /\ x = replace_block(election[n], publishing[n])
Changed(n, x) ==
    \E s \in State : /\ s # "confirmed" /\ <<election[n].state, s>> \in valid_change
                     /\ x = [election[n] EXCEPT !.state = s]
Renewed(n, x) ==
    ~confirmed_locked(election[n]) /\ \E c \in Candidate : x = Fresh(c)

Change(n, x) ==
    \/ UNCHANGED final_vote /\ \E v \in Vote : Voted(n, v, x)
    \/ UNCHANGED final_vote
       /\ (Counted(n, x) \/ Published(n, x) \/ Replaced(n, x) \/ Changed(n, x) \/ Renewed(n, x))

(* Every step changes at most one election, in one of these ways. *)
LEMMA OneElection ==
    ASSUME [Next]_vars
    PROVE  \/ election' = election
           \/ \E n \in Node : \E x : election' = [election EXCEPT ![n] = x] /\ Change(n, x)
<1> DEFINE Goal == \/ election' = election
                   \/ \E n \in Node : \E x : election' = [election EXCEPT ![n] = x] /\ Change(n, x)
<1>1. ASSUME NEW n \in Node, NEW h \in Candidate, RouteVote(n, h) PROVE Goal
  BY <1>1 DEF RouteVote
<1>2. ASSUME NEW n \in Node, NEW h \in Candidate, PublishBegin(n, h) PROVE Goal
  <2>1. \/ election' = election
        \/ election' = [election EXCEPT ![n] = [election[n] EXCEPT !.last_blocks = @ \cup {h}]]
    BY <1>2 DEF PublishBegin
  <2>2. UNCHANGED final_vote
    BY <1>2 DEF PublishBegin
  <2> QED BY <2>1, <2>2 DEF Change, Published
<1>3. ASSUME NEW n \in Node, NEW h \in Candidate, Insert(n, h) PROVE Goal
  BY <1>3 DEF Insert, Change, Renewed
<1>4. ASSUME NEW n \in Node, NEW v \in Vote, IgnoreVote(n, v) PROVE Goal
  BY <1>4 DEF IgnoreVote
<1>5. ASSUME NEW n \in Node, NEW v \in Vote, ApplyVote(n, v) PROVE Goal
  <2>1. \/ election' = election
        \/ \E x : election' = [election EXCEPT ![n] = x] /\ Voted(n, v, x)
    BY <1>5 DEF ApplyVote, Voted
  <2>2. UNCHANGED final_vote
    BY <1>5 DEF ApplyVote
  <2> QED BY <2>1, <2>2 DEF Change
<1>6. ASSUME NEW n \in Node, BroadcastVote(n) PROVE Goal
  <2>1. \/ election' = election
        \/ \E x : election' = [election EXCEPT ![n] = x] /\ Counted(n, x)
    BY <1>6 DEF BroadcastVote, Counted
  <2>2. UNCHANGED final_vote
    BY <1>6 DEF BroadcastVote
  <2> QED BY <2>1, <2>2 DEF Change
<1>7. ASSUME NEW n \in Node, GenerateFinal(n) PROVE Goal
  BY <1>7 DEF GenerateFinal
<1>8. ASSUME NEW n \in Node, PublishInsert(n) PROVE Goal
  BY <1>8 DEF PublishInsert, Change, Replaced
<1>9. ASSUME NEW n \in Node, NEW s \in Event \ {"erase"}, StateChange(n, s) PROVE Goal
  <2>1. election' = [election EXCEPT ![n] = [election[n] EXCEPT !.state = s]]
    BY <1>9 DEF StateChange
  <2>2. s \in State /\ s # "confirmed" /\ <<election[n].state, s>> \in valid_change /\ UNCHANGED final_vote
    BY <1>9, ElectionAssumption DEF StateChange, State
  <2> QED BY <2>1, <2>2 DEF Change, Changed
<1>10. ASSUME NEW n \in Node, Erase(n) PROVE Goal
  BY <1>10 DEF Erase
<1>11. ASSUME NEW r \in Rep, NEW c \in Candidate, CastElsewhere(r, c) PROVE Goal
  BY <1>11 DEF CastElsewhere
<1>12. CASE UNCHANGED vars
  BY <1>12 DEF vars
<1> HIDE DEF Goal
<1> QED BY <1>1, <1>2, <1>3, <1>4, <1>5, <1>6, <1>7, <1>8, <1>9, <1>10, <1>11, <1>12 DEF Next, Goal

(* Whatever happens to an election, its winner is one of its blocks, and
   neither the winner of a confirmed election nor its confirmation changes. *)
LEMMA ChangeWinner ==
    ASSUME ETypeOK, NEW n \in Node, NEW x, Change(n, x), election[n].winner \in election[n].last_blocks
    PROVE  /\ x \in Elections /\ x.winner \in x.last_blocks
           /\ confirmed_locked(election[n]) => confirmed_locked(x) /\ x.winner = election[n].winner
<1> DEFINE e == election[n]
<1>0. e \in Elections /\ publishing[n] \in Publication \cup {None}
  BY DEF ETypeOK
<1> HIDE DEF e
<1>1. ASSUME NEW v \in Vote, Voted(n, v, x)
      PROVE  /\ x \in Elections /\ x.winner \in x.last_blocks
             /\ confirmed_locked(e) => confirmed_locked(x) /\ x.winner = e.winner
  <2>1. PICK f : f = with_vote(e, v)
    OBVIOUS
  <2>2. f \in Elections /\ f.state = e.state /\ f.last_blocks = e.last_blocks /\ f.winner = e.winner
    BY <1>0, <2>1, WithVote
  <2>3. CASE confirmed_locked(f) /\ x = f
    BY <2>2, <2>3 DEF e
  <2>4. CASE ~confirmed_locked(f) /\ \E t \in tally(f) : t # <<>> /\ x = confirm_if_quorum(f, t)
    <3>1. PICK t \in tally(f) : t # <<>> /\ x = confirm_if_quorum(f, t)
      BY <2>4
    <3>2. /\ x \in Elections /\ x.last_blocks = f.last_blocks
          /\ x.winner = f.winner \/ x.winner = leader(t)
      BY <2>2, <3>1, ConfirmIfQuorum
    <3>3. leader(t) \in f.last_blocks
      BY <2>2, <3>1, TallyFacts
    <3>4. ~confirmed_locked(e)
      BY <2>2, <2>4 DEF confirmed_locked
    <3> QED BY <2>2, <3>2, <3>3, <3>4 DEF e
  <2> QED BY <1>1, <2>1, <2>3, <2>4 DEF Voted, e
<1>2. ASSUME Counted(n, x)
      PROVE  x \in Elections /\ x.winner \in x.last_blocks /\ ~confirmed_locked(e)
  <2>1. PICK t \in tally(e) : x = tallied(e, t)
    BY <1>2 DEF Counted, e
  <2>2. x \in Elections /\ x.last_blocks = e.last_blocks /\ x.winner = e.winner
    BY <1>0, <2>1, Tallied
  <2> QED BY <1>2, <2>2 DEF Counted, e
<1>3. ASSUME Published(n, x)
      PROVE  x \in Elections /\ x.winner \in x.last_blocks /\ x.state = e.state /\ x.winner = e.winner
  <2>1. PICK h \in Candidate : x = [e EXCEPT !.last_blocks = @ \cup {h}]
    BY <1>3 DEF Published, e
  <2>2. /\ x \in Elections /\ x.last_blocks = e.last_blocks \cup {h}
        /\ x.winner = e.winner /\ x.state = e.state
    BY <1>0, <2>1, WithBlock, SMTT(30)
  <2> QED BY <2>2 DEF e
<1>4. ASSUME Replaced(n, x)
      PROVE  x \in Elections /\ x.winner \in x.last_blocks /\ x.state = e.state /\ x.winner = e.winner
  <2>1. PICK f, h : f = remove_block(e, publishing[n].replaced) /\ h = publishing[n].block
    OBVIOUS
  <2>2. h \in Candidate
    BY <1>0, <1>4, <2>1 DEF Replaced, Publication
  <2>3. f \in Elections /\ f.winner = e.winner /\ f.state = e.state /\ f.winner \in f.last_blocks
    BY <1>0, <2>1, RemoveBlock DEF e
  <2>4. x = [f EXCEPT !.last_blocks = @ \cup {h}]
    BY <1>4, <2>1 DEF Replaced, replace_block, e
  <2>5. x \in Elections /\ x.last_blocks = f.last_blocks \cup {h} /\ x.winner = f.winner /\ x.state = f.state
    BY <2>2, <2>3, <2>4, WithBlock, SMTT(30)
  <2> QED BY <2>3, <2>5
<1>5. ASSUME Changed(n, x)
      PROVE  /\ x \in Elections /\ x.winner \in x.last_blocks /\ x.winner = e.winner
             /\ confirmed_locked(e) => confirmed_locked(x)
  <2>1. PICK s \in State : <<e.state, s>> \in valid_change /\ x = [e EXCEPT !.state = s]
    BY <1>5 DEF Changed, e
  <2>2. /\ x \in Elections /\ x.last_blocks = e.last_blocks /\ x.winner = e.winner /\ x.state = s
    BY <1>0, <2>1, WithState, SMTT(30)
  <2>3. confirmed_locked(e) => s = "expired_confirmed"
    BY <2>1, SMTT(30) DEF confirmed_locked, valid_change
  <2> QED BY <2>2, <2>3 DEF confirmed_locked, e
<1>6. ASSUME Renewed(n, x)
      PROVE  x \in Elections /\ x.winner \in x.last_blocks /\ ~confirmed_locked(e)
  <2>1. PICK c \in Candidate : x = Fresh(c)
    BY <1>6 DEF Renewed
  <2>2. x \in Elections /\ x.winner = c /\ x.last_blocks = {c}
    BY <2>1, FreshElection
  <2> QED BY <1>6, <2>2 DEF Renewed, e
<1>7. ASSUME x.state = e.state PROVE confirmed_locked(e) => confirmed_locked(x)
  BY <1>7 DEF confirmed_locked
<1> QED BY <1>1, <1>2, <1>3, <1>4, <1>5, <1>6, <1>7 DEF Change, e

(* The block that publish wants to replace is one of the election's. *)
LEMMA ReplacedBlock ==
    ASSUME NEW e \in Elections, NEW w, NEW h \in replaced_block(e, w)
    PROVE  h \in Candidate
<1>1. e.last_blocks \subseteq Candidate /\ DOMAIN e.last_tally \subseteq Candidate
  BY Fields, TalliesOf
<1>2. h \in e.last_blocks \/ h \in DOMAIN e.last_tally
  BY DEF replaced_block
<1> QED BY <1>1, <1>2

(* Every step keeps the types of the elections, and winners that are held. *)
LEMMA StepElections ==
    ASSUME ETypeOK, WinnerHeld, [Next]_vars
    PROVE  election' \in [Node -> Elections] /\ WinnerHeld'
<1>1. CASE election' = election
  BY <1>1 DEF ETypeOK, WinnerHeld
<1>2. CASE \E n \in Node : \E x : election' = [election EXCEPT ![n] = x] /\ Change(n, x)
  <2>0. PICK n \in Node : \E x : election' = [election EXCEPT ![n] = x] /\ Change(n, x)
    BY <1>2
  <2>1. PICK x : election' = [election EXCEPT ![n] = x] /\ Change(n, x)
    BY <2>0
  <2>2. x \in Elections /\ x.winner \in x.last_blocks
    BY <2>1, ChangeWinner DEF WinnerHeld
  <2>3. election \in [Node -> Elections]
    BY DEF ETypeOK
  <2>4. election' \in [Node -> Elections]
    BY <2>1, <2>2, <2>3
  <2>5. \A m \in Node : election'[m] = IF m = n THEN x ELSE election[m]
    BY <2>1, <2>3
  <2> QED BY <2>2, <2>4, <2>5 DEF WinnerHeld
<1> QED BY <1>1, <1>2, OneElection

(* Every step keeps the types. *)
LEMMA StepETypeOK ==
    ASSUME ETypeOK, WinnerHeld, [Next]_vars
    PROVE  ETypeOK'
<1> DEFINE Rest == /\ publishing' \in [Node -> Publication \cup {None}]
                   /\ routes' \in [Node -> SUBSET Candidate] /\ routed' \in [Node -> SUBSET Candidate]
                   /\ erased' \in [Node -> BOOLEAN] /\ aborted' \in [Node -> BOOLEAN]
                   /\ requests' \in [Node -> Candidate \cup {None}]
                   /\ final_vote' \in [Rep -> Candidate \cup {None}]
<1>0. election' \in [Node -> Elections]
  BY StepElections
<1>1. ASSUME NEW n \in Node, NEW h \in Candidate, RouteVote(n, h) PROVE Rest
  BY <1>1 DEF RouteVote, ETypeOK
<1>2. ASSUME NEW n \in Node, NEW h \in Candidate, PublishBegin(n, h) PROVE Rest
  <2>1. UNCHANGED <<routed, erased, aborted, requests, final_vote>>
    BY <1>2 DEF PublishBegin
  <2>2. \/ publishing' = publishing /\ routes' = [routes EXCEPT ![n] = @ \cup {h}]
        \/ \E R \in SUBSET Rep : \E replaced \in replaced_block(election[n], Total(R)) :
                /\ routes' = [routes EXCEPT ![n] = @ \ {replaced}]
                /\ publishing' = [publishing EXCEPT ![n] = [block |-> h, replaced |-> replaced]]
    BY <1>2 DEF PublishBegin
  <2>3. \/ publishing' = publishing
        \/ \E p \in Publication : publishing' = [publishing EXCEPT ![n] = p]
    BY <2>2, ReplacedBlock DEF ETypeOK, Publication
  <2>4. routes' \in [Node -> SUBSET Candidate]
    <3>1. routes \in [Node -> SUBSET Candidate] /\ routes[n] \subseteq Candidate
      BY DEF ETypeOK
    <3>2. ASSUME NEW x, routes' = [routes EXCEPT ![n] = @ \ {x}]
          PROVE  routes' \in [Node -> SUBSET Candidate]
      BY <3>1, <3>2
    <3>3. ASSUME routes' = [routes EXCEPT ![n] = @ \cup {h}]
          PROVE  routes' \in [Node -> SUBSET Candidate]
      BY <3>1, <3>3
    <3> QED BY <2>2, <3>2, <3>3
  <2> QED BY <2>1, <2>3, <2>4 DEF ETypeOK
<1>3. ASSUME NEW n \in Node, NEW h \in Candidate, Insert(n, h) PROVE Rest
  BY <1>3 DEF Insert, ETypeOK
<1>4. ASSUME NEW n \in Node, NEW v \in Vote, IgnoreVote(n, v) PROVE Rest
  BY <1>4 DEF IgnoreVote, ETypeOK
<1>5. ASSUME NEW n \in Node, NEW v \in Vote, ApplyVote(n, v) PROVE Rest
  <2>1. UNCHANGED <<publishing, routes, erased, final_vote>> /\ routed' = [routed EXCEPT ![n] = @ \ {v.hash}]
    BY <1>5 DEF ApplyVote
  <2>2. aborted' = aborted \/ aborted' = [aborted EXCEPT ![n] = TRUE]
    BY <1>5 DEF ApplyVote
  <2>3. \/ requests' = requests
        \/ \E c \in {election'[n].winner, requests[n]} : requests' = [requests EXCEPT ![n] = c]
    BY <1>5 DEF ApplyVote
  <2>4. election'[n].winner \in Candidate
    BY <1>0, Fields
  <2>5. requests' \in [Node -> Candidate \cup {None}]
    BY <2>3, <2>4 DEF ETypeOK
  <2> QED BY <2>1, <2>2, <2>5 DEF ETypeOK
<1>6. ASSUME NEW n \in Node, BroadcastVote(n) PROVE Rest
  <2>1. UNCHANGED <<publishing, routes, routed, erased, final_vote>>
    BY <1>6 DEF BroadcastVote
  <2>2. aborted' = aborted \/ \E b \in BOOLEAN : aborted' = [aborted EXCEPT ![n] = b]
    BY <1>6 DEF BroadcastVote
  <2>3. \E c \in {election[n].winner, requests[n]} : requests' = [requests EXCEPT ![n] = c]
    BY <1>6 DEF BroadcastVote
  <2>4. election[n].winner \in Candidate
    BY Fields DEF ETypeOK
  <2>5. requests' \in [Node -> Candidate \cup {None}]
    BY <2>3, <2>4 DEF ETypeOK
  <2> QED BY <2>1, <2>2, <2>5 DEF ETypeOK
<1>7. ASSUME NEW n \in Node, GenerateFinal(n) PROVE Rest
  <2>1. UNCHANGED <<publishing, routes, routed, erased, aborted>> /\ requests' = [requests EXCEPT ![n] = None]
    BY <1>7 DEF GenerateFinal
  <2>2. \/ final_vote' = final_vote
        \/ final_vote' = [r \in Rep |-> IF r \in Voter[n] THEN requests[n] ELSE final_vote[r]]
    BY <1>7 DEF GenerateFinal
  <2>3. final_vote' \in [Rep -> Candidate \cup {None}]
    BY <2>2 DEF ETypeOK
  <2> QED BY <2>1, <2>3 DEF ETypeOK
<1>8. ASSUME NEW n \in Node, PublishInsert(n) PROVE Rest
  <2>1. publishing[n].block \in Candidate
    BY <1>8 DEF PublishInsert, ETypeOK, Publication
  <2> QED BY <1>8, <2>1 DEF PublishInsert, ETypeOK
<1>9. ASSUME NEW n \in Node, NEW s \in Event \ {"erase"}, StateChange(n, s) PROVE Rest
  BY <1>9 DEF StateChange, ETypeOK
<1>10. ASSUME NEW n \in Node, Erase(n) PROVE Rest
  BY <1>10 DEF Erase, ETypeOK
<1>11. ASSUME NEW r \in Rep, NEW c \in Candidate, CastElsewhere(r, c) PROVE Rest
  BY <1>11 DEF CastElsewhere, ETypeOK
<1>12. CASE UNCHANGED vars
  BY <1>12 DEF vars, ETypeOK
<1>13. Rest => ETypeOK'
  BY <1>0 DEF ETypeOK
<1> HIDE DEF Rest
<1> QED BY <1>1, <1>2, <1>3, <1>4, <1>5, <1>6, <1>7, <1>8, <1>9, <1>10, <1>11, <1>12, <1>13 DEF Next

-----------------------------------------------------------------------------
(* What holds whatever the weights are and however blocks are replaced.    *)

(* Both hold when the elections start. *)
LEMMA InitElections == ASSUME Init PROVE ETypeOK /\ WinnerHeld
<1>1. \A n \in Node : \E c \in Candidate : election[n] = Fresh(c)
  BY DEF Init
<1>2. \A n \in Node : election[n] \in Elections /\ election[n].winner \in election[n].last_blocks
  <2> SUFFICES ASSUME NEW n \in Node
               PROVE  election[n] \in Elections /\ election[n].winner \in election[n].last_blocks
    OBVIOUS
  <2>1. PICK c \in Candidate : election[n] = Fresh(c)
    BY <1>1
  <2>2. Fresh(c) \in Elections /\ Fresh(c).winner = c /\ Fresh(c).last_blocks = {c}
    BY FreshElection
  <2> QED BY <2>1, <2>2
<1>3. election = [n \in Node |-> election[n]]
  BY DEF Init
<1>4. election \in [Node -> Elections]
  BY <1>2, <1>3
<1>5. \A n \in Node : {election[n].winner} \subseteq Candidate
  BY <1>2, Fields
<1> QED BY <1>2, <1>4, <1>5 DEF Init, ETypeOK, WinnerHeld

(* Every step keeps both. *)
LEMMA StepsElections == ETypeOK /\ WinnerHeld /\ [Next]_vars => ETypeOK' /\ WinnerHeld'
BY StepElections, StepETypeOK

(* The types are right in every reachable state, and the winner of an
   election is always one of its blocks: remove_block spares it although
   publish chose the block to remove before it got the mutex back. *)
THEOREM WinnerAlwaysHeld == Spec => [](ETypeOK /\ WinnerHeld)
<1>1. Init => ETypeOK /\ WinnerHeld
  BY InitElections
<1> QED BY <1>1, StepsElections, PTL DEF Spec

(* The winner of a confirmed election never changes, and the election stays
   confirmed: no state follows confirmed but expired_confirmed, and
   confirm_if_quorum is not reached again. *)
THEOREM ConfirmedStays == Spec => ConfirmedForever
<1>1. ETypeOK /\ WinnerHeld /\ [Next]_vars =>
        [\A n \in Node : decided[n] # None => decided'[n] = decided[n]]_<<final_vote, decided>>
  <2> SUFFICES ASSUME ETypeOK, WinnerHeld, [Next]_vars, NEW n \in Node, decided[n] # None
               PROVE  decided'[n] = decided[n]
    OBVIOUS
  <2>1. confirmed_locked(election[n]) /\ decided[n] = election[n].winner
    BY DEF decided
  <2>2. confirmed_locked(election'[n]) /\ election'[n].winner = election[n].winner
    <3>1. CASE election' = election
      BY <2>1, <3>1
    <3>2. CASE \E m \in Node : \E x : election' = [election EXCEPT ![m] = x] /\ Change(m, x)
      <4>1. PICK m \in Node : \E x : election' = [election EXCEPT ![m] = x] /\ Change(m, x)
        BY <3>2
      <4>2. PICK x : election' = [election EXCEPT ![m] = x] /\ Change(m, x)
        BY <4>1
      <4>3. confirmed_locked(election[m]) => confirmed_locked(x) /\ x.winner = election[m].winner
        BY <4>2, ChangeWinner DEF WinnerHeld
      <4>4. election'[n] = IF n = m THEN x ELSE election[n]
        BY <4>2 DEF ETypeOK
      <4> QED BY <2>1, <4>3, <4>4
    <3> QED BY <3>1, <3>2, OneElection
  <2> QED BY <2>1, <2>2 DEF decided
<1> QED BY <1>1, WinnerAlwaysHeld, PTL DEF Spec, ConfirmedForever, Abstract!DecidedForever, Abstract!vars

-----------------------------------------------------------------------------
(* Where no block has to make room for another one and any two sets of     *)
(* representatives that reach the quorum delta share one.                  *)

Safe == Cardinality(Candidate) <= MaxBlocks /\ Abstract!QuorumsIntersect

(* The invariant of an election, given what the representatives are bound
   to: votes are for its blocks; a final vote is the one its representative
   recorded; only the winner of an unconfirmed election may have a quorum;
   the final weight is that of some block; and a quorum is bound to the
   winner of a confirmed election. *)
Held(e) == \A r \in DOMAIN e.last_votes : e.last_votes[r].hash \in e.last_blocks
Bound(e, fv) ==
    \A r \in DOMAIN e.last_votes :
        e.last_votes[r].timestamp = Final => r \in Rep /\ fv[r] = e.last_votes[r].hash
Leading(e) ==
    ~confirmed_locked(e) => \A h \in Candidate : Total(voters(e, h)) >= Delta => h = e.winner
FinalWeight(e) ==
    e.final_weight >= Delta => \E h \in Candidate : Total(final_voters(e, h)) >= Delta
Backed(e, fv) ==
    confirmed_locked(e) => \E Q \in Quorum : \A r \in Q : fv[r] = e.winner
Sound(e, fv) == Held(e) /\ Bound(e, fv) /\ Leading(e) /\ FinalWeight(e) /\ Backed(e, fv)

(* Votes reach an election only for its blocks. *)
Routing ==
    \A n \in Node : publishing[n] = None /\ routes[n] \subseteq election[n].last_blocks
                    /\ routed[n] \subseteq election[n].last_blocks

EInv ==
    /\ ETypeOK /\ WinnerHeld /\ Routing
    /\ \A n \in Node : Sound(election[n], final_vote)

(* Votes that reach the quorum delta are those of a quorum, for a block. *)
LEMMA Heavy ==
    ASSUME NEW e \in Elections, NEW h, Total(voters(e, h)) >= Delta
    PROVE  /\ voters(e, h) \ {Null} \in Quorum /\ h \in Candidate
           /\ \E r \in DOMAIN e.last_votes : e.last_votes[r].hash = h
<1>1. voters(e, h) \subseteq Voting
  BY Voters
<1>2. Total(voters(e, h) \ {Null}) = Total(voters(e, h))
  BY <1>1, TotalReps
<1>3. voters(e, h) \ {Null} \in Quorum
  BY <1>1, <1>2 DEF Quorum, Voting
<1>4. voters(e, h) # {}
  <2>1. ~(0 >= Delta)
    BY ElectionAssumption, SMTT(30)
  <2> QED BY <2>1, TotalNone
<1>5. PICK r \in DOMAIN e.last_votes : e.last_votes[r].hash = h
  BY <1>4 DEF voters
<1>6. h \in Candidate
  BY <1>5, Fields, BallotsOf
<1> QED BY <1>3, <1>5, <1>6

(* Two blocks cannot both have that many. *)
LEMMA OneHeavy ==
    ASSUME Safe, NEW e \in Elections, NEW g, NEW h,
           Total(voters(e, g)) >= Delta, Total(voters(e, h)) >= Delta
    PROVE  g = h
<1>1. voters(e, g) \ {Null} \in Quorum /\ voters(e, h) \ {Null} \in Quorum
  BY Heavy
<1>2. PICK r : r \in voters(e, g) /\ r \in voters(e, h)
  BY <1>1 DEF Safe, Abstract!QuorumsIntersect
<1> QED BY <1>2 DEF voters

(* Final votes are votes. *)
LEMMA FinalHeavy ==
    ASSUME NEW e \in Elections, NEW h, Total(final_voters(e, h)) >= Delta
    PROVE  Total(voters(e, h)) >= Delta
<1>1. Total(final_voters(e, h)) <= Total(voters(e, h))
  BY Voters, TotalMonotone
<1>2. Total(final_voters(e, h)) \in Nat /\ Total(voters(e, h)) \in Nat /\ Delta \in Nat
  BY Voters, ElectionAssumption
<1> QED BY <1>1, <1>2, SMTT(30)

(* Elections with the same votes have the same tallies. *)
LEMMA SameVotes ==
    ASSUME NEW e, NEW f, e.last_votes = f.last_votes
    PROVE  /\ \A h : voters(e, h) = voters(f, h) /\ final_voters(e, h) = final_voters(f, h)
           /\ block_weights(e) = block_weights(f)
           /\ e.last_blocks = f.last_blocks => tally(e) = tally(f)
<1>0. PICK lv : lv = e.last_votes /\ lv = f.last_votes
  OBVIOUS
<1>1. \A h : voters(e, h) = voters(f, h)
  BY DEF voters
<1>2. \A h : final_voters(e, h) = final_voters(f, h)
  <2> SUFFICES ASSUME NEW h PROVE final_voters(e, h) = final_voters(f, h)
    OBVIOUS
  <2>0. PICK V : V = voters(e, h) /\ V = voters(f, h)
    BY <1>1
  <2>1. final_voters(e, h) = {r \in V : lv[r].timestamp = Final}
    BY <1>0, <2>0 DEF final_voters
  <2>2. final_voters(f, h) = {r \in V : lv[r].timestamp = Final}
    BY <1>0, <2>0 DEF final_voters
  <2> QED BY <2>1, <2>2
<1>3. block_weights(e) = block_weights(f)
  <2> DEFINE W == [h \in {lv[r].hash : r \in DOMAIN lv} |-> Total({r \in DOMAIN lv : lv[r].hash = h})]
  <2>1. block_weights(e) = W
    BY <1>0 DEF block_weights, voters
  <2>2. block_weights(f) = W
    BY <1>0 DEF block_weights, voters
  <2> QED BY <2>1, <2>2
<1>4. e.last_blocks = f.last_blocks => tally(e) = tally(f)
  <2> SUFFICES ASSUME e.last_blocks = f.last_blocks PROVE tally(e) = tally(f)
    OBVIOUS
  <2>0. PICK w, B : w = block_weights(e) /\ w = block_weights(f) /\ B = e.last_blocks /\ B = f.last_blocks
    BY <1>3
  <2> DEFINE amounts == {w[h] : h \in DOMAIN w \cap B}
             T == {t \in [amounts -> DOMAIN w \cap B] : \A a \in amounts : w[t[a]] = a}
  <2>1. tally(e) = T
    BY <2>0, SMTT(30) DEF tally
  <2>2. tally(f) = T
    BY <2>0, SMTT(30) DEF tally
  <2> QED BY <2>1, <2>2
<1> QED BY <1>1, <1>2, <1>3, <1>4

(* The invariant reads the votes, the blocks, the winner, the final weight
   and whether the election is confirmed. *)
LEMMA SameSound ==
    ASSUME NEW e, NEW f, NEW fv, Sound(e, fv), e.last_votes = f.last_votes, e.last_blocks \subseteq f.last_blocks,
           e.winner = f.winner, confirmed_locked(e) <=> confirmed_locked(f), FinalWeight(f)
    PROVE  Sound(f, fv)
<1>1. Held(f) /\ Bound(f, fv)
  BY DEF Sound, Held, Bound
<1>2. Leading(f)
  BY SameVotes DEF Sound, Leading
<1>3. Backed(f, fv)
  BY DEF Sound, Backed
<1> QED BY <1>1, <1>2, <1>3 DEF Sound

(* A vote that passes replay_check takes no final vote away: the only final
   vote of the same representative is for the same block. *)
LEMMA VoteKeepsFinals ==
    ASSUME NEW e \in Elections, NEW v \in Vote, NEW fv, NEW f, f = with_vote(e, v),
           Held(e), Bound(e, fv), FinalWeight(e), v.hash \in e.last_blocks, replay_check(e, v),
           v.timestamp = Final => fv[v.rep] = v.hash
    PROVE  /\ f \in Elections /\ Held(f) /\ Bound(f, fv) /\ FinalWeight(f)
           /\ \A h : final_voters(e, h) \subseteq final_voters(f, h)
           /\ v.rep \in voters(f, v.hash)
<1>1. PICK b : b = [timestamp |-> v.timestamp, hash |-> v.hash]
  OBVIOUS
<1>2. /\ f \in Elections /\ f.last_blocks = e.last_blocks /\ f.final_weight = e.final_weight
      /\ f.last_votes = [r \in DOMAIN e.last_votes \cup {v.rep} |->
                            IF r = v.rep THEN [timestamp |-> v.timestamp, hash |-> v.hash] ELSE e.last_votes[r]]
  BY WithVote
<1>3. b.timestamp = v.timestamp /\ b.hash = v.hash
  BY <1>1, SMTT(30)
<1>4. /\ DOMAIN f.last_votes = DOMAIN e.last_votes \cup {v.rep}
      /\ f.last_votes[v.rep] = b
      /\ \A r \in DOMAIN e.last_votes : r # v.rep => f.last_votes[r] = e.last_votes[r]
  BY <1>1, <1>2
<1>5. Held(f)
  BY <1>2, <1>3, <1>4 DEF Held
<1>6. v.rep \in Rep /\ v.timestamp \in 1 .. Final /\ v.hash \in Candidate
  BY SMTT(30) DEF Vote
<1>7. Bound(f, fv)
  BY <1>3, <1>4, <1>6 DEF Bound
<1>8. v.rep \in voters(f, v.hash)
  BY <1>3, <1>4 DEF voters
<1>9. ASSUME NEW h, NEW r \in final_voters(e, h) PROVE r \in final_voters(f, h)
  <2>1. r \in DOMAIN e.last_votes /\ e.last_votes[r].hash = h /\ e.last_votes[r].timestamp = Final
    BY <1>9 DEF final_voters, voters
  <2>2. CASE r # v.rep
    BY <1>4, <2>1, <2>2 DEF final_voters, voters
  <2>3. CASE r = v.rep
    <3>1. ~(Final < v.timestamp)
      BY <1>6, ElectionAssumption, SMTT(30) DEF Final
    <3>2. v.timestamp = Final /\ h < v.hash
      BY <2>1, <2>3, <3>1 DEF replay_check
    <3>3. fv[r] = h /\ fv[r] = v.hash
      BY <2>1, <2>3, <3>2 DEF Bound
    <3>4. h \in Nat
      BY <1>6, <3>3, ElectionAssumption
    <3> QED BY <3>2, <3>3, <3>4, SMTT(30)
  <2> QED BY <2>2, <2>3
<1>10. \A h : final_voters(e, h) \subseteq final_voters(f, h)
  BY <1>9
<1>11. FinalWeight(f)
  <2> SUFFICES ASSUME f.final_weight >= Delta
               PROVE  \E h \in Candidate : Total(final_voters(f, h)) >= Delta
    BY DEF FinalWeight
  <2>1. PICK h \in Candidate : Total(final_voters(e, h)) >= Delta
    BY <1>2 DEF FinalWeight
  <2>2. final_voters(f, h) \subseteq Voting
    BY <1>2, Voters
  <2>3. Total(final_voters(e, h)) <= Total(final_voters(f, h))
    BY <1>10, <2>2, TotalMonotone
  <2>4. Total(final_voters(e, h)) \in Nat /\ Total(final_voters(f, h)) \in Nat /\ Delta \in Nat
    BY <1>2, Voters, ElectionAssumption
  <2>5. Total(final_voters(f, h)) >= Delta
    BY <2>1, <2>3, <2>4, SMTT(30)
  <2> QED BY <2>5
<1> QED BY <1>2, <1>5, <1>7, <1>8, <1>10, <1>11

(* The final weight of a tally is that of a block. *)
LEMMA FinalWeightKept ==
    ASSUME NEW e \in Elections, NEW f, FinalWeight(e), f.last_votes = e.last_votes, NEW h,
           f.final_weight = e.final_weight \/ f.final_weight = Total(final_voters(e, h))
    PROVE  FinalWeight(f)
<1> SUFFICES ASSUME f.final_weight >= Delta
             PROVE  \E g \in Candidate : Total(final_voters(f, g)) >= Delta
  BY DEF FinalWeight
<1>1. \A g : final_voters(f, g) = final_voters(e, g)
  BY SameVotes
<1>2. CASE f.final_weight = e.final_weight
  BY <1>1, <1>2 DEF FinalWeight
<1>3. CASE f.final_weight = Total(final_voters(e, h))
  <2>1. Total(final_voters(e, h)) >= Delta
    BY <1>3
  <2>2. h \in Candidate
    BY <2>1, FinalHeavy, Heavy
  <2> QED BY <1>1, <2>1, <2>2
<1> QED BY <1>2, <1>3

(* A quorum is bound to a block with that many final votes. *)
LEMMA FinalsBind ==
    ASSUME NEW e \in Elections, NEW fv, Bound(e, fv), NEW h, Total(final_voters(e, h)) >= Delta
    PROVE  \E Q \in Quorum : \A r \in Q : fv[r] = h
<1>1. \A r \in final_voters(e, h) : r \in Rep /\ fv[r] = h
  BY DEF Bound, final_voters, voters
<1>2. final_voters(e, h) \in Quorum
  BY <1>1 DEF Quorum
<1> QED BY <1>1, <1>2

(* A vote keeps the invariant: the tally finds the block that has a quorum,
   if there is one, and makes it the winner; and when final_weight reaches
   the quorum delta it is the weight of the winner's final votes. *)
LEMMA VotedSound ==
    ASSUME Safe, EInv, NEW n \in Node, NEW v \in Vote, NEW x, Voted(n, v, x)
    PROVE  Sound(x, final_vote)
<1>1. PICK e, f : e = election[n] /\ f = with_vote(e, v)
  OBVIOUS
<1>2. e \in Elections /\ Sound(e, final_vote) /\ v.hash \in e.last_blocks
  BY <1>1 DEF EInv, ETypeOK, Routing, Voted
<1>3. /\ f \in Elections /\ Held(f) /\ Bound(f, final_vote) /\ FinalWeight(f)
      /\ \A h : final_voters(e, h) \subseteq final_voters(f, h)
  BY <1>1, <1>2, VoteKeepsFinals DEF Sound, Voted
<1>4. f.state = e.state /\ f.winner = e.winner /\ f.last_blocks = e.last_blocks
  BY <1>1, <1>2, WithVote
<1>5. confirmed_locked(f) <=> confirmed_locked(e)
  BY <1>4 DEF confirmed_locked
<1>6. Backed(f, final_vote)
  BY <1>2, <1>4, <1>5 DEF Sound, Backed
<1>7. CASE confirmed_locked(f) /\ x = f
  BY <1>3, <1>6, <1>7 DEF Sound, Leading
<1>8. CASE ~confirmed_locked(f) /\ \E t \in tally(f) : t # <<>> /\ x = confirm_if_quorum(f, t)
  <2>1. PICK t \in tally(f) : t # <<>> /\ x = confirm_if_quorum(f, t)
    BY <1>8
  <2>2. /\ x \in Elections /\ x.last_votes = f.last_votes /\ x.last_blocks = f.last_blocks
        /\ Max(DOMAIN t) >= Delta => x.winner = leader(t)
        /\ x.state = f.state \/ (x.state = "confirmed" /\ have_quorum(t) /\ x.final_weight >= Delta)
        /\ x.final_weight = f.final_weight \/ x.final_weight = Total(final_voters(f, leader(t)))
    BY <1>3, <2>1, ConfirmIfQuorum
  <2>3. Held(x) /\ Bound(x, final_vote)
    BY <1>3, <2>2 DEF Held, Bound
  <2>4. FinalWeight(x)
    BY <1>3, <2>2, FinalWeightKept
  <2>5. ASSUME NEW h, Total(voters(x, h)) >= Delta
        PROVE  h = x.winner
    <3>1. voters(f, h) = voters(x, h)
      BY <2>2, SameVotes
    <3>2. Total(voters(f, h)) >= Delta
      BY <2>5, <3>1
    <3>3. PICK r \in DOMAIN f.last_votes : f.last_votes[r].hash = h
      BY <1>3, <3>2, Heavy
    <3>4. h \in f.last_blocks
      BY <1>3, <3>3 DEF Held
    <3>5. h \in DOMAIN block_weights(f)
      BY <1>3, <3>3, BlockWeights
    <3>6. Total(voters(f, h)) <= Max(DOMAIN t) /\ Max(DOMAIN t) \in Nat /\ Total(voters(f, leader(t))) = Max(DOMAIN t)
      BY <1>3, <2>1, <3>4, <3>5, TallyFacts
    <3>7. Total(voters(f, h)) \in Nat /\ Delta \in Nat
      BY <1>3, Voters, ElectionAssumption
    <3>8. Max(DOMAIN t) >= Delta
      BY <3>2, <3>6, <3>7, SMTT(30)
    <3>9. h = leader(t)
      BY <1>3, <3>2, <3>6, <3>8, OneHeavy
    <3> QED BY <2>2, <3>8, <3>9
  <2>6. Leading(x)
    BY <2>5 DEF Leading
  <2>7. Backed(x, final_vote)
    <3> SUFFICES ASSUME confirmed_locked(x) PROVE \E Q \in Quorum : \A r \in Q : final_vote[r] = x.winner
      BY DEF Backed
    <3>0. x.state # f.state
      BY <1>8 DEF confirmed_locked
    <3>1. x.final_weight >= Delta
      BY <2>2, <3>0
    <3>2. PICK h \in Candidate : Total(final_voters(x, h)) >= Delta
      BY <2>4, <3>1 DEF FinalWeight
    <3>3. h = x.winner
      BY <2>2, <2>5, <3>2, FinalHeavy
    <3>4. \E Q \in Quorum : \A r \in Q : final_vote[r] = h
      <4>1. x \in Elections /\ Bound(x, final_vote)
        BY <2>2, <2>3
      <4> QED BY <3>2, <4>1, FinalsBind, SMTT(30)
    <3> QED BY <3>3, <3>4
  <2> QED BY <2>3, <2>4, <2>6, <2>7 DEF Sound
<1> QED BY <1>1, <1>7, <1>8 DEF Voted

(* A new election is sound: only the null account voted. *)
LEMMA FreshSound ==
    ASSUME NEW c \in Candidate, NEW fv
    PROVE  Sound(Fresh(c), fv)
<1>1. PICK e : e = Fresh(c)
  OBVIOUS
<1>2. PICK b : b = [timestamp |-> 0, hash |-> c]
  OBVIOUS
<1>3. /\ e \in Elections /\ e.winner = c /\ e.last_blocks = {c} /\ e.state = "passive"
      /\ e.final_weight = 0 /\ e.last_votes = [r \in {Null} |-> b]
  BY <1>1, <1>2, FreshElection
<1>4. b.timestamp = 0 /\ b.hash = c /\ 0 # Final /\ ~(0 >= Delta)
  BY <1>2, ElectionAssumption, SMTT(30) DEF Final
<1>5. DOMAIN e.last_votes = {Null} /\ e.last_votes[Null] = b
  BY <1>3
<1>6. Held(e) /\ Bound(e, fv)
  BY <1>3, <1>4, <1>5 DEF Held, Bound
<1>7. ASSUME NEW h, Total(voters(e, h)) >= Delta PROVE h = c
  <2>1. \E r \in DOMAIN e.last_votes : e.last_votes[r].hash = h
    BY <1>3, <1>7, Heavy
  <2> QED BY <1>4, <1>5, <2>1
<1>8. ~confirmed_locked(e)
  BY <1>3 DEF confirmed_locked
<1>9. Leading(e) /\ FinalWeight(e) /\ Backed(e, fv)
  BY <1>3, <1>4, <1>7, <1>8 DEF Leading, FinalWeight, Backed
<1> QED BY <1>1, <1>6, <1>9 DEF Sound

(* Whatever happens to an election, it stays sound. *)
LEMMA ChangeSound ==
    ASSUME Safe, EInv, NEW n \in Node, NEW x, Change(n, x)
    PROVE  Sound(x, final_vote)
<1>1. PICK e : e = election[n]
  OBVIOUS
<1>2. e \in Elections /\ Sound(e, final_vote) /\ publishing[n] = None
  BY <1>1 DEF EInv, ETypeOK, Routing
<1>3. ASSUME NEW v \in Vote, Voted(n, v, x) PROVE Sound(x, final_vote)
  BY <1>3, VotedSound
<1>4. ASSUME Counted(n, x) PROVE Sound(x, final_vote)
  <2>1. PICK t \in tally(e) : x = tallied(e, t)
    BY <1>1, <1>4 DEF Counted
  <2>2. /\ x.state = e.state /\ x.last_blocks = e.last_blocks /\ x.winner = e.winner
        /\ x.last_votes = e.last_votes
        /\ x.final_weight = e.final_weight \/ x.final_weight = Total(final_voters(e, leader(t)))
    BY <1>2, <2>1, Tallied
  <2>3. FinalWeight(x)
    BY <1>2, <2>2, FinalWeightKept DEF Sound
  <2>4. confirmed_locked(e) <=> confirmed_locked(x)
    BY <2>2 DEF confirmed_locked
  <2> QED BY <1>2, <2>2, <2>3, <2>4, SameSound
<1>5. ASSUME Published(n, x) PROVE Sound(x, final_vote)
  <2>1. PICK h \in Candidate : x = [e EXCEPT !.last_blocks = @ \cup {h}]
    BY <1>1, <1>5 DEF Published
  <2>2. /\ x.state = e.state /\ x.last_blocks = e.last_blocks \cup {h} /\ x.winner = e.winner
        /\ x.last_votes = e.last_votes /\ x.final_weight = e.final_weight
    BY <1>2, <2>1, WithBlock, SMTT(30)
  <2>3. FinalWeight(x)
    BY <1>2, <2>2, FinalWeightKept DEF Sound
  <2>4. confirmed_locked(e) <=> confirmed_locked(x)
    BY <2>2 DEF confirmed_locked
  <2> QED BY <1>2, <2>2, <2>3, <2>4, SameSound
<1>6. ~Replaced(n, x)
  BY <1>2 DEF Replaced
<1>7. ASSUME Changed(n, x) PROVE Sound(x, final_vote)
  <2>1. PICK s \in State : s # "confirmed" /\ <<e.state, s>> \in valid_change /\ x = [e EXCEPT !.state = s]
    BY <1>1, <1>7 DEF Changed
  <2>2. /\ x.state = s /\ x.last_blocks = e.last_blocks /\ x.winner = e.winner
        /\ x.last_votes = e.last_votes /\ x.final_weight = e.final_weight
    <3>1. x = [e EXCEPT !.state = s]
      BY <2>1
    <3> QED BY <1>2, <3>1, WithState, SMTT(30)
  <2>3. FinalWeight(x)
    BY <1>2, <2>2, FinalWeightKept DEF Sound
  <2>4. e.state \in {"confirmed", "expired_confirmed"} <=> s \in {"confirmed", "expired_confirmed"}
    BY <2>1, SMTT(30) DEF valid_change
  <2>5. confirmed_locked(e) <=> confirmed_locked(x)
    BY <2>2, <2>4 DEF confirmed_locked
  <2> QED BY <1>2, <2>2, <2>3, <2>5, SameSound
<1>8. ASSUME Renewed(n, x) PROVE Sound(x, final_vote)
  BY <1>8, FreshSound DEF Renewed
<1> QED BY <1>3, <1>4, <1>5, <1>6, <1>7, <1>8 DEF Change

(* There is room for every block. *)
LEMMA Room ==
    ASSUME Safe, NEW B, B \subseteq Candidate, NEW h \in Candidate, h \notin B
    PROVE  Cardinality(B) < MaxBlocks
<1>1. IsFiniteSet(Candidate)
  BY ElectionAssumption
<1>2. IsFiniteSet(B) /\ Cardinality(B) \in Nat /\ Cardinality(Candidate) \in Nat
  BY <1>1, FS_Subset, FS_CardinalityType
<1>3. Cardinality(B) <= Cardinality(Candidate) /\ Cardinality(B) # Cardinality(Candidate)
  BY <1>1, FS_Subset
<1> QED BY <1>2, <1>3, ElectionAssumption, SMTT(30) DEF Safe

(* What a vote and a change of blocks do to the blocks of an election. *)
LEMMA VotedBlocks ==
    ASSUME ETypeOK, NEW n \in Node, NEW v \in Vote, NEW x, Voted(n, v, x)
    PROVE  x.last_blocks = election[n].last_blocks
<1>1. PICK e, f : e = election[n] /\ f = with_vote(e, v)
  OBVIOUS
<1>2. e \in Elections
  BY <1>1 DEF ETypeOK
<1>3. f \in Elections /\ f.last_blocks = e.last_blocks
  BY <1>1, <1>2, WithVote
<1>4. x = f \/ \E t \in tally(f) : t # <<>> /\ x = confirm_if_quorum(f, t)
  BY <1>1 DEF Voted
<1>5. x = f \/ x.last_blocks = f.last_blocks
  BY <1>3, <1>4, ConfirmIfQuorum
<1> QED BY <1>1, <1>3, <1>5

(* The routes of a node lead to its blocks as long as no block leaves. *)
LEMMA RoutingKept ==
    ASSUME EInv, publishing' = publishing,
           \A n \in Node : /\ election[n].last_blocks \subseteq election'[n].last_blocks
                           /\ routes'[n] \subseteq routes[n]
                           /\ routed'[n] \subseteq routes[n] \cup routed[n]
    PROVE  Routing'
BY DEF EInv, Routing

(* Every step keeps the routes in step with the blocks. *)
LEMMA StepRouting ==
    ASSUME Safe, EInv, [Next]_vars
    PROVE  Routing'
<1>0. /\ election \in [Node -> Elections] /\ routes \in [Node -> SUBSET Candidate]
      /\ routed \in [Node -> SUBSET Candidate] /\ publishing \in [Node -> Publication \cup {None}]
      /\ \A n \in Node : publishing[n] = None
  BY DEF EInv, ETypeOK, Routing
<1>1. ASSUME NEW n \in Node, NEW h \in Candidate, RouteVote(n, h) PROVE Routing'
  <2>1. /\ election' = election /\ publishing' = publishing /\ routes' = routes
        /\ h \in routes[n] /\ routed' = [routed EXCEPT ![n] = @ \cup {h}]
    BY <1>1 DEF RouteVote
  <2>2. \A m \in Node : routed'[m] \subseteq routes[m] \cup routed[m]
    BY <1>0, <2>1
  <2> QED BY <2>1, <2>2, RoutingKept
<1>2. ASSUME NEW n \in Node, NEW h \in Candidate, PublishBegin(n, h) PROVE Routing'
  <2>1. h \notin election[n].last_blocks /\ election[n].last_blocks \subseteq Candidate
    BY <1>0, <1>2, Fields DEF PublishBegin
  <2>2. Cardinality(election[n].last_blocks) < MaxBlocks
    BY <2>1, Room
  <2>3. /\ election' = [election EXCEPT ![n] = [election[n] EXCEPT !.last_blocks = @ \cup {h}]]
        /\ routes' = [routes EXCEPT ![n] = @ \cup {h}]
        /\ publishing' = publishing /\ routed' = routed
    BY <1>2, <2>2 DEF PublishBegin
  <2>4. PICK x : x = [election[n] EXCEPT !.last_blocks = @ \cup {h}]
    OBVIOUS
  <2>5. x.last_blocks = election[n].last_blocks \cup {h}
    <3>1. election[n] \in Elections
      BY <1>0
    <3> QED BY <2>4, <3>1, WithBlock, SMTT(30)
  <2>6. \A m \in Node : election'[m] = IF m = n THEN x ELSE election[m]
    BY <1>0, <2>3, <2>4
  <2>7. \A m \in Node : routes'[m] = IF m = n THEN routes[m] \cup {h} ELSE routes[m]
    BY <1>0, <2>3
  <2>8. \A m \in Node : routes[m] \subseteq election[m].last_blocks /\ routed[m] \subseteq election[m].last_blocks
    BY DEF EInv, Routing
  <2>9. ASSUME NEW m \in Node
        PROVE  /\ publishing'[m] = None /\ routes'[m] \subseteq election'[m].last_blocks
               /\ routed'[m] \subseteq election'[m].last_blocks
    <3>1. CASE m = n
      BY <1>0, <2>3, <2>5, <2>6, <2>7, <2>8, <3>1
    <3>2. CASE m # n
      BY <1>0, <2>3, <2>6, <2>7, <2>8, <3>2
    <3> QED BY <3>1, <3>2
  <2> QED BY <2>9 DEF Routing
<1>3. ASSUME NEW n \in Node, NEW h \in Candidate, Insert(n, h) PROVE Routing'
  <2>1. /\ election' = [election EXCEPT ![n] = Fresh(h)] /\ routes' = [routes EXCEPT ![n] = {h}]
        /\ routed[n] = {} /\ routed' = routed /\ publishing' = publishing
    BY <1>3 DEF Insert
  <2>2. Fresh(h).last_blocks = {h}
    BY FreshElection
  <2>3. \A m \in Node : /\ election'[m] = IF m = n THEN Fresh(h) ELSE election[m]
                        /\ routes'[m] = IF m = n THEN {h} ELSE routes[m]
    BY <1>0, <2>1
  <2> QED BY <2>1, <2>2, <2>3 DEF EInv, Routing
<1>4. ASSUME NEW n \in Node, NEW v \in Vote, IgnoreVote(n, v) PROVE Routing'
  <2>1. election' = election /\ publishing' = publishing /\ routes' = routes /\ routed' = [routed EXCEPT ![n] = @ \ {v.hash}]
    BY <1>4 DEF IgnoreVote
  <2>2. \A m \in Node : routed'[m] \subseteq routes[m] \cup routed[m]
    BY <1>0, <2>1
  <2> QED BY <2>1, <2>2, RoutingKept
<1>5. ASSUME NEW n \in Node, NEW v \in Vote, ApplyVote(n, v) PROVE Routing'
  <2>1. publishing' = publishing /\ routes' = routes /\ routed' = [routed EXCEPT ![n] = @ \ {v.hash}]
    BY <1>5 DEF ApplyVote
  <2>2. election' = election \/ \E x : election' = [election EXCEPT ![n] = x] /\ Voted(n, v, x)
    BY <1>5 DEF ApplyVote, Voted
  <2>3. \A m \in Node : routed'[m] \subseteq routes[m] \cup routed[m]
    BY <1>0, <2>1
  <2>4. \A m \in Node : election[m].last_blocks = election'[m].last_blocks
    <3>1. ASSUME NEW x, election' = [election EXCEPT ![n] = x] /\ Voted(n, v, x)
          PROVE  \A m \in Node : election[m].last_blocks = election'[m].last_blocks
      <4>1. x.last_blocks = election[n].last_blocks
        BY <3>1, VotedBlocks DEF EInv
      <4>2. \A m \in Node : election'[m] = IF m = n THEN x ELSE election[m]
        BY <1>0, <3>1
      <4> QED BY <4>1, <4>2
    <3> QED BY <2>2, <3>1
  <2> QED BY <2>1, <2>3, <2>4, RoutingKept
<1>6. ASSUME NEW n \in Node, BroadcastVote(n) PROVE Routing'
  <2>1. publishing' = publishing /\ routes' = routes /\ routed' = routed
    BY <1>6 DEF BroadcastVote
  <2>2. \/ election' = election
        \/ \E t \in tally(election[n]) : election' = [election EXCEPT ![n] = tallied(election[n], t)]
    BY <1>6 DEF BroadcastVote
  <2>3. \A m \in Node : election[m].last_blocks = election'[m].last_blocks
    <3>1. ASSUME NEW t, election' = [election EXCEPT ![n] = tallied(election[n], t)]
          PROVE  \A m \in Node : election[m].last_blocks = election'[m].last_blocks
      <4>1. PICK x : x = tallied(election[n], t)
        OBVIOUS
      <4>2. x.last_blocks = election[n].last_blocks
        BY <1>0, <4>1, Tallied
      <4>3. \A m \in Node : election'[m] = IF m = n THEN x ELSE election[m]
        BY <1>0, <3>1, <4>1
      <4> QED BY <4>2, <4>3
    <3> QED BY <2>2, <3>1
  <2> QED BY <2>1, <2>3, RoutingKept
<1>7. ASSUME NEW n \in Node, GenerateFinal(n) PROVE Routing'
  BY <1>7, RoutingKept DEF GenerateFinal
<1>8. ASSUME NEW n \in Node, PublishInsert(n) PROVE Routing'
  BY <1>0, <1>8 DEF PublishInsert
<1>9. ASSUME NEW n \in Node, NEW s \in Event \ {"erase"}, StateChange(n, s) PROVE Routing'
  <2>1. /\ election' = [election EXCEPT ![n] = [election[n] EXCEPT !.state = s]]
        /\ publishing' = publishing /\ routes' = routes /\ routed' = routed
    BY <1>9 DEF StateChange
  <2>2. s \in State
    BY ElectionAssumption DEF State
  <2>3. PICK x : x = [election[n] EXCEPT !.state = s]
    OBVIOUS
  <2>4. x.last_blocks = election[n].last_blocks
    <3>1. election[n] \in Elections
      BY <1>0
    <3> QED BY <2>2, <2>3, <3>1, WithState, SMTT(30)
  <2>5. \A m \in Node : election'[m] = IF m = n THEN x ELSE election[m]
    BY <1>0, <2>1, <2>3
  <2> QED BY <2>1, <2>4, <2>5, RoutingKept
<1>10. ASSUME NEW n \in Node, Erase(n) PROVE Routing'
  <2>1. /\ election' = election /\ publishing' = publishing /\ routed' = routed
        /\ routes' = [routes EXCEPT ![n] = @ \ election[n].last_blocks]
    BY <1>10 DEF Erase
  <2>2. \A m \in Node : routes'[m] \subseteq routes[m]
    BY <1>0, <2>1
  <2> QED BY <2>1, <2>2, RoutingKept
<1>11. ASSUME NEW r \in Rep, NEW c \in Candidate, CastElsewhere(r, c) PROVE Routing'
  BY <1>11, RoutingKept DEF CastElsewhere
<1>12. CASE UNCHANGED vars
  BY <1>12, RoutingKept DEF vars
<1> QED BY <1>1, <1>2, <1>3, <1>4, <1>5, <1>6, <1>7, <1>8, <1>9, <1>10, <1>11, <1>12 DEF Next

(* A recorded final vote stays what it is; votes are recorded while no
   election changes, by the representatives of one node or by one other. *)
LEMMA StepFinals ==
    ASSUME ETypeOK, [Next]_vars
    PROVE  /\ \A r \in Rep : final_vote[r] \in Candidate => final_vote'[r] = final_vote[r]
           /\ \/ final_vote' = final_vote
              \/ /\ election' = election
                 /\ \E c \in Candidate : \E R \in SUBSET Rep :
                        /\ \A r \in R : final_vote[r] \in {None, c}
                        /\ final_vote' = [r \in Rep |-> IF r \in R THEN c ELSE final_vote[r]]
<1> DEFINE Cast == \E c \in Candidate : \E R \in SUBSET Rep :
                        /\ \A r \in R : final_vote[r] \in {None, c}
                        /\ final_vote' = [r \in Rep |-> IF r \in R THEN c ELSE final_vote[r]]
           Recorded == final_vote' = final_vote \/ (election' = election /\ Cast)
<1>1. ASSUME NEW n \in Node, GenerateFinal(n) PROVE Recorded
  <2>1. requests[n] \in Candidate /\ Voter[n] \in SUBSET Rep
    BY <1>1, ElectionAssumption DEF GenerateFinal, ETypeOK
  <2>2. \/ final_vote' = final_vote
        \/ /\ \A r \in Voter[n] : final_vote[r] \in {None, requests[n]}
           /\ final_vote' = [r \in Rep |-> IF r \in Voter[n] THEN requests[n] ELSE final_vote[r]]
    BY <1>1 DEF GenerateFinal
  <2>3. election' = election
    BY <1>1 DEF GenerateFinal
  <2> QED BY <2>1, <2>2, <2>3
<1>2. ASSUME NEW r \in Rep, NEW c \in Candidate, CastElsewhere(r, c) PROVE Recorded
  <2>1. /\ final_vote[r] = None /\ final_vote' = [final_vote EXCEPT ![r] = c] /\ election' = election
        /\ final_vote \in [Rep -> Candidate \cup {None}]
    BY <1>2 DEF CastElsewhere, ETypeOK
  <2>2. final_vote' = [q \in Rep |-> IF q \in {r} THEN c ELSE final_vote[q]]
    BY <2>1
  <2>3. {r} \in SUBSET Rep /\ \A q \in {r} : final_vote[q] \in {None, c}
    BY <2>1
  <2> QED BY <2>1, <2>2, <2>3
<1>3. ASSUME NEW n \in Node, NEW h \in Candidate, RouteVote(n, h) \/ PublishBegin(n, h) \/ Insert(n, h)
      PROVE  final_vote' = final_vote
  BY <1>3 DEF RouteVote, PublishBegin, Insert
<1>4. ASSUME NEW n \in Node, NEW v \in Vote, IgnoreVote(n, v) \/ ApplyVote(n, v)
      PROVE  final_vote' = final_vote
  BY <1>4 DEF IgnoreVote, ApplyVote
<1>5. ASSUME NEW n \in Node, BroadcastVote(n) \/ PublishInsert(n) \/ Erase(n)
      PROVE  final_vote' = final_vote
  BY <1>5 DEF BroadcastVote, PublishInsert, Erase
<1>6. ASSUME NEW n \in Node, NEW s \in Event \ {"erase"}, StateChange(n, s)
      PROVE  final_vote' = final_vote
  BY <1>6 DEF StateChange
<1>7. ASSUME UNCHANGED vars PROVE final_vote' = final_vote
  BY <1>7 DEF vars
<1>8. Recorded
  <2>1. final_vote' = final_vote => Recorded
    OBVIOUS
  <2> HIDE DEF Recorded
  <2>2. \A n \in Node : GenerateFinal(n) => Recorded
    BY <1>1
  <2>3. \A r \in Rep, c \in Candidate : CastElsewhere(r, c) => Recorded
    BY <1>2
  <2> QED BY <1>3, <1>4, <1>5, <1>6, <1>7, <2>1, <2>2, <2>3 DEF Next
<1>9. ASSUME NEW r \in Rep, final_vote[r] \in Candidate PROVE final_vote'[r] = final_vote[r]
  <2>1. None \notin Candidate
    BY ElectionAssumption
  <2> QED BY <1>8, <1>9, <2>1
<1> QED BY <1>8, <1>9

-----------------------------------------------------------------------------
(* The invariant.                                                          *)

(* It holds when the elections start. *)
LEMMA InitEInv == ASSUME Init PROVE EInv
<1>1. ETypeOK /\ WinnerHeld
  BY InitElections
<1>2. \A n \in Node : Sound(election[n], final_vote)
  BY FreshSound DEF Init
<1>3. \A n \in Node : {election[n].winner} \subseteq election[n].last_blocks
  BY <1>1 DEF WinnerHeld
<1>4. Routing
  BY <1>3 DEF Init, Routing
<1> QED BY <1>1, <1>2, <1>4 DEF EInv

(* New final votes leave an election sound. *)
LEMMA SoundStays ==
    ASSUME Safe, NEW e \in Elections, NEW fv, NEW gv, Sound(e, fv),
           \A r \in Rep : fv[r] \in Candidate => gv[r] = fv[r]
    PROVE  Sound(e, gv)
<1>1. Bound(e, gv)
  <2> SUFFICES ASSUME NEW r \in DOMAIN e.last_votes, e.last_votes[r].timestamp = Final
               PROVE  r \in Rep /\ gv[r] = e.last_votes[r].hash
    BY DEF Bound
  <2>1. r \in Rep /\ fv[r] = e.last_votes[r].hash
    BY DEF Sound, Bound
  <2>2. e.last_votes[r].hash \in Candidate
    BY Fields, BallotsOf
  <2> QED BY <2>1, <2>2
<1>2. Backed(e, gv)
  <2> SUFFICES ASSUME confirmed_locked(e) PROVE \E Q \in Quorum : \A r \in Q : gv[r] = e.winner
    BY DEF Backed
  <2>1. PICK Q \in Quorum : \A r \in Q : fv[r] = e.winner
    BY DEF Sound, Backed
  <2>2. Q \subseteq Rep /\ e.winner \in Candidate
    BY Fields DEF Quorum
  <2> QED BY <2>1, <2>2
<1> QED BY <1>1, <1>2 DEF Sound

(* Every step keeps it. *)
LEMMA StepEInv == ASSUME Safe, EInv, [Next]_vars PROVE EInv'
<1>1. ETypeOK' /\ WinnerHeld'
  BY StepElections, StepETypeOK DEF EInv
<1>2. Routing'
  BY StepRouting
<1>3. /\ \A r \in Rep : final_vote[r] \in Candidate => final_vote'[r] = final_vote[r]
      /\ final_vote' = final_vote \/ election' = election
  BY StepFinals DEF EInv
<1>4. ASSUME NEW m \in Node PROVE Sound(election'[m], final_vote)
  <2>1. CASE election' = election
    BY <2>1 DEF EInv
  <2>2. CASE \E n \in Node : \E x : election' = [election EXCEPT ![n] = x] /\ Change(n, x)
    <3>1. PICK n \in Node : \E x : election' = [election EXCEPT ![n] = x] /\ Change(n, x)
      BY <2>2
    <3>2. PICK x : election' = [election EXCEPT ![n] = x] /\ Change(n, x)
      BY <3>1
    <3>3. Sound(x, final_vote)
      BY <3>2, ChangeSound
    <3>4. election'[m] = IF m = n THEN x ELSE election[m]
      BY <3>2 DEF EInv, ETypeOK
    <3> QED BY <3>3, <3>4 DEF EInv
  <2> QED BY <2>1, <2>2, OneElection
<1>5. ASSUME NEW m \in Node PROVE Sound(election'[m], final_vote')
  <2>1. election'[m] \in Elections /\ Sound(election'[m], final_vote)
    BY <1>1, <1>4 DEF ETypeOK
  <2> QED BY <1>3, <2>1, SoundStays
<1> QED BY <1>1, <1>2, <1>5 DEF EInv

(* As long as no block has to make room for another one, every election is
   sound: the conditions confirm_if_quorum and replay_check put on votes keep
   the votes, the winner and the recorded final votes in step. *)
THEOREM ElectionsSound ==
    ASSUME Safe
    PROVE  Spec => []EInv
<1>1. Init => EInv
  BY InitEInv
<1>2. EInv /\ [Next]_vars => EInv'
  BY StepEInv
<1> QED BY <1>1, <1>2, PTL DEF Spec

(* The elections implement Consensus: confirm_once is reached only for a
   block that a quorum is bound to, and final votes are recorded one way. *)
THEOREM ImplementsConsensus ==
    ASSUME Safe
    PROVE  Spec => ConsensusSpec
<1>1. Init => Abstract!Init
  <2> SUFFICES ASSUME Init PROVE Abstract!Init
    OBVIOUS
  <2>1. \A n \in Node : \E c \in Candidate : election[n] = Fresh(c)
    BY DEF Init
  <2>2. \A n \in Node : ~confirmed_locked(election[n])
    <3>1. \A c \in Candidate : Fresh(c).state = "passive"
      BY FreshElection
    <3> QED BY <2>1, <3>1 DEF confirmed_locked
  <2>3. decided = [n \in Node |-> None]
    BY <2>2 DEF decided
  <2> QED BY <2>3 DEF Init, Abstract!Init
<1>2. EInv /\ EInv' /\ [Next]_vars => [Abstract!Next]_<<final_vote, decided>>
  <2> SUFFICES ASSUME EInv, EInv', [Next]_vars PROVE [Abstract!Next]_<<final_vote, decided>>
    OBVIOUS
  <2>0. election' = election => decided' = decided
    BY DEF decided
  <2>1. CASE final_vote' # final_vote
    <3>1. /\ decided' = decided
          /\ \E c \in Candidate : \E R \in SUBSET Rep :
                /\ \A r \in R : final_vote[r] \in {None, c}
                /\ final_vote' = [r \in Rep |-> IF r \in R THEN c ELSE final_vote[r]]
      BY <2>0, <2>1, StepFinals DEF EInv
    <3> QED BY <3>1 DEF Abstract!Next, Abstract!CastFinal
  <2>2. CASE election' = election /\ final_vote' = final_vote
    BY <2>0, <2>2
  <2>3. CASE final_vote' = final_vote /\ \E n \in Node : \E x : election' = [election EXCEPT ![n] = x] /\ Change(n, x)
    <3>1. PICK n \in Node : \E x : election' = [election EXCEPT ![n] = x] /\ Change(n, x)
      BY <2>3
    <3>2. PICK x : election' = [election EXCEPT ![n] = x] /\ Change(n, x)
      BY <3>1
    <3>3. \A m \in Node : election'[m] = IF m = n THEN x ELSE election[m]
      BY <3>2 DEF EInv, ETypeOK
    <3>4. confirmed_locked(election[n]) => confirmed_locked(x) /\ x.winner = election[n].winner
      BY <3>2, ChangeWinner DEF EInv, WinnerHeld
    <3>5. CASE confirmed_locked(x) /\ ~confirmed_locked(election[n])
      <4>1. x \in Elections /\ Backed(x, final_vote)
        <5>1. election'[n] = x
          BY <3>3
        <5>2. election'[n] \in Elections /\ Sound(election'[n], final_vote')
          BY DEF EInv, ETypeOK
        <5> QED BY <2>3, <5>1, <5>2 DEF Sound
      <4>2. x.winner \in Candidate /\ \E Q \in Quorum : \A r \in Q : final_vote[r] = x.winner
        BY <3>5, <4>1, Fields DEF Backed
      <4>3. decided' = [decided EXCEPT ![n] = x.winner]
        BY <3>3, <3>5 DEF decided
      <4> QED BY <2>3, <4>2, <4>3 DEF Abstract!Next, Abstract!Decide
    <3>6. CASE ~(confirmed_locked(x) /\ ~confirmed_locked(election[n]))
      <4>1. decided' = decided
        BY <3>3, <3>4, <3>6 DEF decided
      <4> QED BY <2>3, <4>1
    <3> QED BY <3>5, <3>6
  <2> QED BY <2>1, <2>2, <2>3, OneElection
<1> QED BY <1>1, <1>2, ElectionsSound, PTL DEF Spec, ConsensusSpec, Abstract!Spec, Abstract!vars

-----------------------------------------------------------------------------
(* What Consensus promises.                                                *)

(* A decision is backed by the final votes of a quorum. *)
DecisionsBacked ==
    \A n \in Node : decided[n] # None => \E Q \in Quorum : \A r \in Q : final_vote[r] = decided[n]

CInv == Abstract!TypeOK /\ DecisionsBacked

(* A cast vote stays what it is. *)
LEMMA VotesStay ==
    ASSUME CInv, [Abstract!Next]_(Abstract!vars), NEW r \in Rep, final_vote[r] # None
    PROVE  final_vote'[r] = final_vote[r]
<1>1. CASE UNCHANGED Abstract!vars
  BY <1>1 DEF Abstract!vars
<1>2. ASSUME NEW c \in Candidate, NEW R \in SUBSET Rep, Abstract!CastFinal(R, c)
      PROVE  final_vote'[r] = final_vote[r]
  BY <1>2 DEF Abstract!CastFinal
<1>3. ASSUME NEW c \in Candidate, NEW n \in Node, Abstract!Decide(n, c)
      PROVE  final_vote'[r] = final_vote[r]
  BY <1>3 DEF Abstract!Decide
<1> QED BY <1>1, <1>2, <1>3 DEF Abstract!Next

(* A node decides what a quorum is bound to. *)
LEMMA Decision ==
    ASSUME CInv, [Abstract!Next]_(Abstract!vars)
    PROVE  \/ decided' = decided
           \/ \E n \in Node, c \in Candidate :
                /\ decided' = [decided EXCEPT ![n] = c]
                /\ \E Q \in Quorum : \A r \in Q : final_vote[r] = c
<1>1. ASSUME NEW c \in Candidate, NEW R \in SUBSET Rep, Abstract!CastFinal(R, c) PROVE decided' = decided
  BY <1>1 DEF Abstract!CastFinal
<1>2. CASE UNCHANGED Abstract!vars
  BY <1>2 DEF Abstract!vars
<1>3. ASSUME NEW c \in Candidate, NEW n \in Node, Abstract!Decide(n, c)
      PROVE  /\ decided' = [decided EXCEPT ![n] = c]
             /\ \E Q \in Quorum : \A r \in Q : final_vote[r] = c
  BY <1>3 DEF Abstract!Decide
<1> QED BY <1>1, <1>2, <1>3 DEF Abstract!Next

(* Every step of Consensus keeps it. *)
LEMMA StepCInv ==
    ASSUME Abstract!QuorumsIntersect, CInv, [Abstract!Next]_(Abstract!vars)
    PROVE  CInv'
<1>0. final_vote \in [Rep -> Candidate \cup {None}] /\ decided \in [Node -> Candidate \cup {None}]
  BY DEF CInv, Abstract!TypeOK
<1>1. decided' \in [Node -> Candidate \cup {None}]
  BY <1>0, Decision
<1>2. final_vote' \in [Rep -> Candidate \cup {None}]
  <2>1. ASSUME NEW c \in Candidate, NEW R \in SUBSET Rep, Abstract!CastFinal(R, c)
        PROVE  final_vote' \in [Rep -> Candidate \cup {None}]
    BY <1>0, <2>1 DEF Abstract!CastFinal
  <2>2. ASSUME NEW c \in Candidate, NEW n \in Node, Abstract!Decide(n, c)
        PROVE  final_vote' \in [Rep -> Candidate \cup {None}]
    BY <1>0, <2>2 DEF Abstract!Decide
  <2>3. CASE UNCHANGED Abstract!vars
    BY <1>0, <2>3 DEF Abstract!vars
  <2> QED BY <2>1, <2>2, <2>3 DEF Abstract!Next
<1>3. ASSUME NEW n \in Node, decided'[n] # None
      PROVE  \E Q \in Quorum : \A r \in Q : final_vote[r] = decided'[n]
  <2>1. CASE decided' = decided
    BY <1>3, <2>1 DEF CInv, DecisionsBacked
  <2>2. ASSUME NEW m \in Node, NEW c \in Candidate, decided' = [decided EXCEPT ![m] = c],
               \E Q \in Quorum : \A r \in Q : final_vote[r] = c
        PROVE  \E Q \in Quorum : \A r \in Q : final_vote[r] = decided'[n]
    <3>1. decided'[n] = IF n = m THEN c ELSE decided[n]
      BY <1>0, <2>2
    <3> QED BY <1>3, <2>2, <3>1 DEF CInv, DecisionsBacked
  <2> QED BY <2>1, <2>2, Decision
<1>4. ASSUME NEW n \in Node, decided'[n] # None
      PROVE  \E Q \in Quorum : \A r \in Q : final_vote'[r] = decided'[n]
  <2>1. PICK Q \in Quorum : \A r \in Q : final_vote[r] = decided'[n]
    BY <1>3, <1>4
  <2>2. \A r \in Q : r \in Rep /\ final_vote[r] # None
    BY <1>4, <2>1 DEF Abstract!QuorumsIntersect
  <2> QED BY <2>1, <2>2, VotesStay
<1>5. DecisionsBacked'
  BY <1>4 DEF DecisionsBacked
<1> QED BY <1>1, <1>2, <1>5 DEF CInv, Abstract!TypeOK

(* Every decision is backed by the final votes of a quorum. *)
THEOREM ConsensusInvariance ==
    ASSUME Abstract!QuorumsIntersect
    PROVE  Abstract!Spec => []CInv
<1>1. Abstract!Init => CInv
  BY DEF Abstract!Init, CInv, Abstract!TypeOK, DecisionsBacked
<1>2. CInv /\ [Abstract!Next]_(Abstract!vars) => CInv'
  BY StepCInv
<1> QED BY <1>1, <1>2, PTL DEF Abstract!Spec

(* Decisions that quorums back agree: the quorums share a representative,
   and its final vote is for one block. *)
LEMMA BackedAgree ==
    ASSUME Abstract!QuorumsIntersect, CInv
    PROVE  Abstract!Agreement
<1> SUFFICES ASSUME NEW m \in Node, NEW n \in Node, decided[m] # None, decided[n] # None
             PROVE  decided[m] = decided[n]
  BY DEF Abstract!Agreement
<1>1. PICK Q \in Quorum : \A r \in Q : final_vote[r] = decided[m]
  BY DEF CInv, DecisionsBacked
<1>2. PICK R \in Quorum : \A r \in R : final_vote[r] = decided[n]
  BY DEF CInv, DecisionsBacked
<1>3. PICK r : r \in Q \cap R
  BY DEF Abstract!QuorumsIntersect
<1> QED BY <1>1, <1>2, <1>3

(* Two nodes never decide different blocks, for any sets of nodes,
   representatives and blocks and any quorums that intersect. *)
THEOREM AgreementHolds ==
    ASSUME Abstract!QuorumsIntersect
    PROVE  Abstract!Spec => []Abstract!Agreement
<1>1. CInv => Abstract!Agreement
  BY BackedAgree
<1> QED BY <1>1, ConsensusInvariance, PTL

(* A node never revises its decision: a second quorum would share a
   representative with the first one. *)
THEOREM DecisionsStay ==
    ASSUME Abstract!QuorumsIntersect
    PROVE  Abstract!Spec => Abstract!DecidedForever
<1>1. CInv /\ [Abstract!Next]_(Abstract!vars) =>
        [\A n \in Node : decided[n] # None => decided'[n] = decided[n]]_(Abstract!vars)
  <2> SUFFICES ASSUME CInv, [Abstract!Next]_(Abstract!vars), NEW n \in Node, decided[n] # None
               PROVE  decided'[n] = decided[n]
    OBVIOUS
  <2>0. decided \in [Node -> Candidate \cup {None}]
    BY DEF CInv, Abstract!TypeOK
  <2>1. ASSUME NEW m \in Node, NEW c \in Candidate, decided' = [decided EXCEPT ![m] = c],
               \E Q \in Quorum : \A r \in Q : final_vote[r] = c
        PROVE  decided'[n] = decided[n]
    <3>1. decided'[n] = IF n = m THEN c ELSE decided[n]
      BY <2>0, <2>1
    <3>2. PICK Q \in Quorum : \A r \in Q : final_vote[r] = c
      BY <2>1
    <3>3. PICK R \in Quorum : \A r \in R : final_vote[r] = decided[n]
      BY DEF CInv, DecisionsBacked
    <3>4. PICK r : r \in Q /\ r \in R
      BY DEF Abstract!QuorumsIntersect
    <3>5. c = decided[n]
      <4>1. final_vote[r] = c
        BY <3>2, <3>4
      <4>2. final_vote[r] = decided[n]
        BY <3>3, <3>4
      <4> QED BY <4>1, <4>2
    <3> QED BY <3>1, <3>5
  <2> QED BY <2>1, Decision
<1> QED BY <1>1, ConsensusInvariance, PTL DEF Abstract!Spec, Abstract!DecidedForever

(* Two nodes never confirm different blocks, whatever order votes and forks
   arrive in, as long as no block has to make room for another one. *)
THEOREM NodesAgree ==
    ASSUME Safe
    PROVE  Spec => []Agreement
<1>1. Abstract!QuorumsIntersect
  BY DEF Safe
<1>2. Abstract!Spec => []Abstract!Agreement
  BY <1>1, AgreementHolds
<1>3. Spec => Abstract!Spec
  BY ImplementsConsensus DEF ConsensusSpec
<1> QED BY <1>2, <1>3, PTL DEF Agreement

-----------------------------------------------------------------------------
(* Final votes and the tally.                                              *)

(* The leader of a tally that leads by the quorum delta is the winner that
   confirm_if_quorum chooses. *)
LEMMA LeaderWins ==
    ASSUME NEW e \in Elections, NEW t \in tally(e), t # <<>>, have_quorum(t), NEW x, x = confirm_if_quorum(e, t)
    PROVE  x.winner = leader(t) /\ Total(voters(e, leader(t))) >= Delta
<1>1. Max(DOMAIN t) >= Delta /\ Total(voters(e, leader(t))) = Max(DOMAIN t)
  BY TallyFacts
<1> QED BY <1>1, ConfirmIfQuorum

(* A node asks its representatives for a final vote only for a block that
   leads all others by the quorum delta or is confirmed: broadcast_vote_locked
   votes for the winner, which is the leader even if the last vote came in
   before. *)
THEOREM FinalVotesNeedQuorum ==
    ASSUME Safe
    PROVE  Spec => FinalVoteNeedsQuorum
<1> DEFINE Asked(n) == \/ confirmed_locked(election[n])
                       \/ \E t \in tally(election'[n]) : have_quorum(t) /\ leader(t) = requests'[n]
           A == \A n \in Node : requests'[n] \notin {requests[n], None} => Asked(n)
<1>1. EInv /\ [Next]_vars => [A]_vars
  <2> SUFFICES ASSUME EInv, [Next]_vars, NEW n \in Node, requests'[n] \notin {requests[n], None}
               PROVE  Asked(n)
    OBVIOUS
  <2>0. election \in [Node -> Elections] /\ requests \in [Node -> Candidate \cup {None}]
    BY DEF EInv, ETypeOK
  <2>1. ASSUME NEW m \in Node, NEW v \in Vote, ApplyVote(m, v) PROVE Asked(n)
    <3>1. PICK f : f = with_vote(election[m], v)
      OBVIOUS
    <3>2. f \in Elections
      BY <2>0, <3>1, WithVote
    <3>3. \/ requests' = requests
          \/ \E t \in tally(f) :
                /\ t # <<>> /\ election' = [election EXCEPT ![m] = confirm_if_quorum(f, t)]
                /\ requests' = [requests EXCEPT ![m] =
                        IF have_quorum(t) /\ ~f.is_quorum /\ is_voting(m) THEN election'[m].winner ELSE @]
      BY <2>1, <3>1 DEF ApplyVote
    <3>4. PICK t \in tally(f) :
                /\ t # <<>> /\ election' = [election EXCEPT ![m] = confirm_if_quorum(f, t)]
                /\ requests' = [requests EXCEPT ![m] =
                        IF have_quorum(t) /\ ~f.is_quorum /\ is_voting(m) THEN election'[m].winner ELSE @]
      BY <3>3
    <3>5. m = n /\ have_quorum(t) /\ requests'[n] = election'[n].winner
      BY <2>0, <3>4
    <3>6. PICK x : x = confirm_if_quorum(f, t)
      OBVIOUS
    <3>7. election'[n] = x
      BY <2>0, <3>4, <3>5, <3>6
    <3>8. x.last_votes = f.last_votes /\ x.last_blocks = f.last_blocks
      BY <3>2, <3>4, <3>6, ConfirmIfQuorum
    <3>9. tally(x) = tally(f)
      BY <3>8, SameVotes
    <3>10. x.winner = leader(t)
      BY <3>2, <3>4, <3>5, <3>6, LeaderWins
    <3> QED BY <3>4, <3>5, <3>7, <3>9, <3>10
  <2>2. ASSUME NEW m \in Node, BroadcastVote(m) PROVE Asked(n)
    <3> SUFFICES ASSUME ~confirmed_locked(election[n]) PROVE Asked(n)
      OBVIOUS
    <3>1. \/ confirmed_locked(election[m]) /\ requests' = [requests EXCEPT ![m] = election[m].winner]
          \/ \E t \in tally(election[m]) :
                /\ election' = [election EXCEPT ![m] = tallied(election[m], t)]
                /\ requests' = [requests EXCEPT ![m] = IF t # <<>> /\ have_quorum(t) THEN election[m].winner ELSE @]
      BY <2>2 DEF BroadcastVote
    <3>2. m = n
      BY <2>0, <3>1
    <3>3. PICK t \in tally(election[n]) :
                /\ election' = [election EXCEPT ![n] = tallied(election[n], t)]
                /\ requests' = [requests EXCEPT ![n] = IF t # <<>> /\ have_quorum(t) THEN election[n].winner ELSE @]
      BY <3>1, <3>2
    <3>4. t # <<>> /\ have_quorum(t) /\ requests'[n] = election[n].winner
      BY <2>0, <3>3
    <3>5. PICK x : x = tallied(election[n], t)
      OBVIOUS
    <3>6. election'[n] = x
      BY <2>0, <3>3, <3>5
    <3>7. x.last_votes = election[n].last_votes /\ x.last_blocks = election[n].last_blocks
      BY <2>0, <3>5, Tallied
    <3>8. tally(x) = tally(election[n])
      BY <3>7, SameVotes
    <3>9. Max(DOMAIN t) >= Delta /\ Total(voters(election[n], leader(t))) = Max(DOMAIN t)
      BY <2>0, <3>3, <3>4, TallyFacts
    <3>10. Total(voters(election[n], leader(t))) >= Delta
      BY <3>9
    <3>11. leader(t) \in Candidate
      BY <2>0, <3>10, Heavy
    <3>12. leader(t) = election[n].winner
      BY <3>10, <3>11 DEF EInv, Sound, Leading
    <3> QED BY <3>3, <3>4, <3>6, <3>8, <3>12
  <2>3. ASSUME NEW m \in Node, GenerateFinal(m) PROVE FALSE
    BY <2>0, <2>3 DEF GenerateFinal
  <2>4. ASSUME NEW m \in Node, NEW h \in Candidate, RouteVote(m, h) \/ PublishBegin(m, h) \/ Insert(m, h)
        PROVE  FALSE
    BY <2>4 DEF RouteVote, PublishBegin, Insert
  <2>5. ASSUME NEW m \in Node, PublishInsert(m) \/ Erase(m) PROVE FALSE
    BY <2>5 DEF PublishInsert, Erase
  <2>6. ASSUME NEW m \in Node, NEW s \in Event \ {"erase"}, StateChange(m, s) PROVE FALSE
    BY <2>6 DEF StateChange
  <2>7. ASSUME NEW m \in Node, NEW v \in Vote, IgnoreVote(m, v) PROVE FALSE
    BY <2>7 DEF IgnoreVote
  <2>8. ASSUME NEW r \in Rep, NEW c \in Candidate, CastElsewhere(r, c) PROVE FALSE
    BY <2>8 DEF CastElsewhere
  <2>9. ~UNCHANGED vars
    BY DEF vars
  <2> HIDE DEF Asked
  <2> QED BY <2>1, <2>2, <2>3, <2>4, <2>5, <2>6, <2>7, <2>8, <2>9 DEF Next
<1> QED BY <1>1, ElectionsSound, PTL DEF Spec, FinalVoteNeedsQuorum

(* An election with a vote for one of its blocks has a tally. *)
LEMMA SomeTally ==
    ASSUME NEW e \in Elections, NEW t \in tally(e), NEW r \in DOMAIN e.last_votes,
           e.last_votes[r].hash \in e.last_blocks
    PROVE  t # <<>>
<1> DEFINE w == block_weights(e)
           held == DOMAIN w \cap e.last_blocks
           amounts == {w[h] : h \in held}
<1>1. e.last_votes[r].hash \in held
  BY BlockWeights
<1>2. DOMAIN t = amounts /\ amounts # {}
  BY <1>1 DEF tally
<1> HIDE DEF amounts
<1>3. DOMAIN t # {}
  BY <1>2
<1> QED BY <1>3, SMTT(30)

(* The assertion of confirm_if_quorum holds as long as no block has to make
   room for another one: a vote gets past the router only for a block that
   the election holds. *)
THEOREM AssertionHolds ==
    ASSUME Safe
    PROVE  Spec => TallyNotEmpty
<1>1. EInv /\ [Next]_vars => [\A n \in Node, v \in Vote : ApplyVote(n, v) => ~aborted'[n]]_vars
  <2> SUFFICES ASSUME EInv, NEW n \in Node, NEW v \in Vote, ApplyVote(n, v)
               PROVE  ~aborted'[n]
    OBVIOUS
  <2>1. PICK e, f : e = election[n] /\ f = with_vote(e, v)
    OBVIOUS
  <2>2. e \in Elections /\ Sound(e, final_vote) /\ v.hash \in e.last_blocks /\ replay_check(e, v)
    BY <2>1 DEF EInv, ETypeOK, Routing, ApplyVote
  <2>3. v.timestamp = Final => final_vote[v.rep] = v.hash
    BY DEF ApplyVote
  <2>4. f \in Elections /\ Held(f) /\ v.rep \in voters(f, v.hash)
    BY <2>1, <2>2, <2>3, VoteKeepsFinals DEF Sound
  <2>5. v.rep \in DOMAIN f.last_votes /\ f.last_votes[v.rep].hash \in f.last_blocks
    BY <2>4 DEF voters, Held
  <2>6. \A t \in tally(f) : t # <<>>
    BY <2>4, <2>5, SomeTally
  <2>7. ~aborted[n] /\ aborted' = aborted
    BY <2>1, <2>6 DEF ApplyVote
  <2> QED BY <2>7
<1> QED BY <1>1, ElectionsSound, PTL DEF Spec, TallyNotEmpty

(* A tally whose leader has final votes takes their weight. *)
LEMMA ConfirmWeight ==
    ASSUME NEW e \in Elections, NEW t \in tally(e), t # <<>>, NEW x, x = confirm_if_quorum(e, t),
           final_voters(e, leader(t)) # {}
    PROVE  x.final_weight = Total(final_voters(e, leader(t)))
<1>1. PICK f, b, w : f = tallied(e, t) /\ b = block_weights(e) /\ w = Total(final_voters(e, leader(t)))
  OBVIOUS
<1>2. f = [e EXCEPT !.last_tally = b, !.final_weight = w]
  BY <1>1 DEF tallied
<1>3. f.final_weight = w
  BY <1>2 DEF Elections
<1>4. f \in Elections
  BY <1>1, Tallied
<1>5. \E c, q, s : x = [f EXCEPT !.winner = c, !.is_quorum = q, !.state = s]
  BY <1>1 DEF confirm_if_quorum
<1>6. x.final_weight = f.final_weight
  BY <1>4, <1>5 DEF Elections
<1> QED BY <1>1, <1>3, <1>6

(* When an election is confirmed, final_weight is the weight of the final
   votes for its winner, as long as no block has to make room for another
   one: a block with that many final votes leads the tally. *)
THEOREM FinalWeightHolds ==
    ASSUME Safe
    PROVE  Spec => FinalWeightOfWinner
<1> DEFINE Weighed(e) == e.final_weight = Total(final_voters(e, e.winner))
           A == \A n \in Node : confirmed_locked(election'[n]) /\ ~confirmed_locked(election[n])
                                    => Weighed(election'[n])
<1>1. EInv /\ EInv' /\ [Next]_vars => [A]_vars
  <2> SUFFICES ASSUME EInv, EInv', [Next]_vars, NEW n \in Node,
                      confirmed_locked(election'[n]), ~confirmed_locked(election[n])
               PROVE  Weighed(election'[n])
    OBVIOUS
  <2>1. PICK m \in Node : \E y : election' = [election EXCEPT ![m] = y] /\ Change(m, y)
    BY OneElection
  <2>2. PICK x : election' = [election EXCEPT ![m] = x] /\ Change(m, x)
    BY <2>1
  <2>3. m = n /\ election'[n] = x
    BY <2>2 DEF EInv, ETypeOK
  <2>4. PICK e : e = election[n]
    OBVIOUS
  <2>5. e \in Elections /\ publishing[n] = None /\ ~confirmed_locked(e) /\ confirmed_locked(x)
    BY <2>3, <2>4 DEF EInv, ETypeOK, Routing
  <2>6. \E v \in Vote : Voted(n, v, x)
    <3>1. ~Counted(n, x)
      <4>1. ASSUME NEW t, x = tallied(e, t) PROVE x.state = e.state
        BY <2>5, <4>1, Tallied
      <4> QED BY <2>4, <2>5, <4>1 DEF Counted, confirmed_locked
    <3>2. ~Published(n, x)
      <4>1. ASSUME NEW h \in Candidate, x = [e EXCEPT !.last_blocks = @ \cup {h}] PROVE x.state = e.state
        BY <2>5, <4>1, WithBlock, SMTT(30)
      <4> QED BY <2>4, <2>5, <4>1 DEF Published, confirmed_locked
    <3>3. ~Replaced(n, x)
      BY <2>5 DEF Replaced
    <3>4. ~Changed(n, x)
      <4>1. ASSUME NEW s \in State, s # "confirmed", <<e.state, s>> \in valid_change, x = [e EXCEPT !.state = s]
            PROVE  FALSE
        <5>1. x.state = s
          BY <2>5, <4>1, WithState, SMTT(30)
        <5>2. s = "expired_confirmed"
          BY <2>5, <4>1, <5>1 DEF confirmed_locked
        <5>3. e.state = "confirmed"
          BY <4>1, <5>2, SMTT(30) DEF valid_change
        <5> QED BY <2>5, <5>3 DEF confirmed_locked
      <4> QED BY <2>4, <4>1 DEF Changed
    <3>5. ~Renewed(n, x)
      <4>1. \A c \in Candidate : Fresh(c).state = "passive"
        BY FreshElection
      <4> QED BY <2>5, <4>1 DEF Renewed, confirmed_locked
    <3> QED BY <2>2, <2>3, <3>1, <3>2, <3>3, <3>4, <3>5 DEF Change
  <2>7. PICK v \in Vote : Voted(n, v, x)
    BY <2>6
  <2>8. PICK f : f = with_vote(e, v)
    OBVIOUS
  <2>9. f \in Elections /\ ~confirmed_locked(f)
    BY <2>5, <2>8, WithVote DEF confirmed_locked
  <2>10. PICK t \in tally(f) : t # <<>> /\ x = confirm_if_quorum(f, t)
    BY <2>4, <2>7, <2>8, <2>9 DEF Voted
  <2>11. have_quorum(t) /\ x.final_weight >= Delta
    <3>1. x.state = f.state \/ (x.state = "confirmed" /\ have_quorum(t) /\ x.final_weight >= Delta)
      BY <2>9, <2>10, ConfirmIfQuorum
    <3> QED BY <2>5, <2>9, <3>1 DEF confirmed_locked
  <2>12. x.winner = leader(t) /\ Total(voters(f, leader(t))) >= Delta
    BY <2>9, <2>10, <2>11, LeaderWins
  <2>13. x \in Elections /\ FinalWeight(x)
    BY <2>3 DEF EInv, ETypeOK, Sound
  <2>14. \A h : final_voters(x, h) = final_voters(f, h)
    <3>1. x.last_votes = f.last_votes
      BY <2>9, <2>10, ConfirmIfQuorum
    <3> QED BY <3>1, SameVotes
  <2>15. PICK h \in Candidate : Total(final_voters(x, h)) >= Delta
    BY <2>11, <2>13 DEF FinalWeight
  <2>16. Total(final_voters(f, h)) >= Delta
    BY <2>14, <2>15
  <2>17. h = leader(t)
    BY <2>9, <2>12, <2>16, FinalHeavy, OneHeavy
  <2>18. final_voters(f, leader(t)) # {}
    <3>1. ~(0 >= Delta)
      BY ElectionAssumption, SMTT(30)
    <3> QED BY <2>16, <2>17, <3>1, TotalNone
  <2>19. x.final_weight = Total(final_voters(f, leader(t)))
    BY <2>9, <2>10, <2>18, ConfirmWeight
  <2> QED BY <2>3, <2>12, <2>14, <2>19
<1> QED BY <1>1, ElectionsSound, PTL DEF Spec, FinalWeightOfWinner
=============================================================================
