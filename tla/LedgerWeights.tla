--------------------------- MODULE LedgerWeights ----------------------------
(***************************************************************************)
(* Sums over the tables of the ledger: accounts and pending entries add up *)
(* to the genesis amount, representatives have the weight that is          *)
(* delegated to them, and the counters count.                              *)
(***************************************************************************)
EXTENDS LedgerTables, FiniteSetsExt, FiniteSetTheorems

(* Time for the solver on a leaf that names no other prover. *)
USE ZenonT(30)

-----------------------------------------------------------------------------
(* Sums over finite sets.                                                  *)

(* The element that the fold takes first. *)
Pick(s) == CHOOSE x \in s : TRUE

(* g adds up the values of f over every subset of S, as the fold does. *)
AddsUp(g, f, S) ==
    g = [s \in SUBSET S |-> IF s = {} THEN 0 ELSE f[Pick(s)] + g[s \ {Pick(s)}]]

(* The sum of the library is the value of a recursive function. *)
LEMMA SumIsChoice ==
    ASSUME NEW f, NEW S
    PROVE  SumFunctionOnSet(f, S) = (CHOOSE g : AddsUp(g, f, S))[S]
  BY DEF SumFunctionOnSet, FoldFunctionOnSet, MapThenFoldSet, AddsUp, Pick

(* The element taken is one of the set. *)
LEMMA PickIn ==
    ASSUME NEW s, s # {}
    PROVE  Pick(s) \in s
  BY DEF Pick

(* Among subsets of a finite set there is a minimal one: facts about sums are
   shown by a smallest counterexample. *)
LEMMA MinimalSubset ==
    ASSUME NEW S, IsFiniteSet(S), NEW T, T \subseteq SUBSET S, T # {}
    PROVE  \E s \in T : \A t \in T : t \subseteq s => t = s
<1>1. IsWellFoundedOn(StrictSubsetOrdering(S), SUBSET S)
  BY FS_StrictSubsetOrderingWellFounded, FS_FiniteSubsetsOfFinite
<1>2. PICK s \in T : \A t \in T : ~(<<t, s>> \in StrictSubsetOrdering(S))
  BY <1>1, WFMin
<1>3. ASSUME NEW t \in T, t \subseteq s, t # s PROVE <<t, s>> \in StrictSubsetOrdering(S)
  BY <1>3 DEF StrictSubsetOrdering
<1>4. ASSUME NEW t \in T, t \subseteq s PROVE t = s
  <2> SUFFICES ASSUME t # s PROVE FALSE
    OBVIOUS
  <2> QED BY <1>2, <1>3, <1>4
<1> WITNESS s \in T
<1> QED BY <1>4

(* Two such functions agree where both are defined. *)
LEMMA AddsUpUnique ==
    ASSUME NEW S, IsFiniteSet(S), NEW A, NEW B, NEW f, NEW g, NEW h,
           S \subseteq A, S \subseteq B, AddsUp(g, f, A), AddsUp(h, f, B)
    PROVE  g[S] = h[S]
<1> DEFINE T == {s \in SUBSET S : g[s] # h[s]}
<1> SUFFICES ASSUME T # {} PROVE FALSE
  OBVIOUS
<1>1. PICK s \in T : \A t \in T : t \subseteq s => t = s
  <2>1. T \subseteq SUBSET S
    OBVIOUS
  <2> HIDE DEF T
  <2> QED BY <2>1, MinimalSubset, SMTT(30)
<1>2. s \subseteq S /\ g[s] # h[s] /\ s \in SUBSET A /\ s \in SUBSET B
  OBVIOUS
<1>3. /\ g[s] = IF s = {} THEN 0 ELSE f[Pick(s)] + g[s \ {Pick(s)}]
      /\ h[s] = IF s = {} THEN 0 ELSE f[Pick(s)] + h[s \ {Pick(s)}]
  BY <1>2 DEF AddsUp
<1>4. s # {}
  BY <1>2, <1>3
<1>5. Pick(s) \in s
  BY <1>4, PickIn
<1>6. s \ {Pick(s)} \notin T
  BY <1>1, <1>5
<1>7. g[s \ {Pick(s)}] = h[s \ {Pick(s)}]
  BY <1>2, <1>6
<1> QED BY <1>2, <1>3, <1>4, <1>7

(* There is such a function, for every finite set. *)
LEMMA AddsUpExists ==
    ASSUME NEW S, IsFiniteSet(S), NEW f
    PROVE  \E g : AddsUp(g, f, S)
<1> DEFINE T == {s \in SUBSET S : ~\E g : AddsUp(g, f, s)}
<1> SUFFICES ASSUME T # {} PROVE FALSE
  OBVIOUS
<1>1. PICK s \in T : \A t \in T : t \subseteq s => t = s
  <2>1. T \subseteq SUBSET S
    OBVIOUS
  <2> HIDE DEF T
  <2> QED BY <2>1, MinimalSubset, SMTT(30)
<1> DEFINE G(t) == CHOOSE g : AddsUp(g, f, t)
           F == [t \in SUBSET s |-> IF t = {} THEN 0
                    ELSE f[Pick(t)] + G(t \ {Pick(t)})[t \ {Pick(t)}]]
<1>2. ASSUME NEW t \in SUBSET s, t # s PROVE AddsUp(G(t), f, t) /\ IsFiniteSet(t)
  <2>1. t \in SUBSET S /\ t \notin T
    BY <1>1, <1>2
  <2>2. \E g : AddsUp(g, f, t)
    BY <2>1
  <2> QED BY <2>1, <2>2, FS_Subset
<1>3. ASSUME NEW t \in SUBSET s, t # {}
      PROVE  F[t] = f[Pick(t)] + F[t \ {Pick(t)}]
  <2> DEFINE u == t \ {Pick(t)}
  <2>1. Pick(t) \in t
    BY <1>3, PickIn
  <2>2. u \in SUBSET s /\ u # s
    BY <2>1
  <2>3. AddsUp(G(u), f, u)
    BY <1>2, <2>2
  <2>4. G(u)[u] = F[u]
    <3>1. CASE u = {}
      <4>1. G(u)[u] = 0
        BY <2>3, <3>1 DEF AddsUp
      <4>2. F[u] = 0
        BY <2>2, <3>1
      <4> QED BY <4>1, <4>2
    <3>2. CASE u # {}
      <4> DEFINE v == u \ {Pick(u)}
      <4>1. v \in SUBSET s /\ v # s /\ v \subseteq u
        BY <2>2, PickIn
      <4>2. AddsUp(G(v), f, v) /\ IsFiniteSet(v)
        BY <1>2, <4>1
      <4>3. G(u)[v] = G(v)[v]
        <5> HIDE DEF G, u, v
        <5> QED BY <2>3, <4>1, <4>2, AddsUpUnique, SMTT(30)
      <4>4. G(u)[u] = f[Pick(u)] + G(u)[v]
        BY <2>3, <3>2 DEF AddsUp
      <4>5. F[u] = f[Pick(u)] + G(v)[v]
        BY <2>2, <3>2
      <4> QED BY <4>3, <4>4, <4>5
    <3> QED BY <3>1, <3>2
  <2>5. F[t] = f[Pick(t)] + G(u)[u]
    BY <1>3
  <2> QED BY <2>4, <2>5
<1>4. AddsUp(F, f, s)
  <2>1. \A t \in SUBSET s : F[t] = IF t = {} THEN 0 ELSE f[Pick(t)] + F[t \ {Pick(t)}]
    <3>1. \A t \in SUBSET s : t = {} => F[t] = 0
      OBVIOUS
    <3> HIDE DEF F
    <3> QED BY <1>3, <3>1
  <2>2. F = [t \in SUBSET s |-> F[t]]
    BY SMTT(30)
  <2> HIDE DEF F
  <2>3. F = [t \in SUBSET s |-> IF t = {} THEN 0 ELSE f[Pick(t)] + F[t \ {Pick(t)}]]
    BY <2>1, <2>2
  <2> QED BY <2>3 DEF AddsUp
<1> QED BY <1>1, <1>4

(* It gives the sums over all subsets. *)
LEMMA SumAddsUp ==
    ASSUME NEW S, IsFiniteSet(S), NEW f
    PROVE  \E g : AddsUp(g, f, S) /\ \A s \in SUBSET S : SumFunctionOnSet(f, s) = g[s]
<1> DEFINE g == CHOOSE x : AddsUp(x, f, S)
<1>1. AddsUp(g, f, S)
  BY AddsUpExists
<1>2. ASSUME NEW s \in SUBSET S PROVE SumFunctionOnSet(f, s) = g[s]
  <2> DEFINE h == CHOOSE x : AddsUp(x, f, s)
  <2>1. IsFiniteSet(s)
    BY FS_Subset
  <2>2. AddsUp(h, f, s)
    BY <2>1, AddsUpExists
  <2>3. h[s] = g[s]
    <3> HIDE DEF g, h
    <3> QED BY <1>1, <2>1, <2>2, AddsUpUnique, SMTT(30)
  <2> QED BY <2>3, SumIsChoice
<1> HIDE DEF g
<1> QED BY <1>1, <1>2

(* The recursion of the sum. *)
LEMMA SumStep ==
    ASSUME NEW S, IsFiniteSet(S), NEW f
    PROVE  SumFunctionOnSet(f, S) =
              IF S = {} THEN 0 ELSE f[Pick(S)] + SumFunctionOnSet(f, S \ {Pick(S)})
<1>1. PICK g : AddsUp(g, f, S) /\ \A s \in SUBSET S : SumFunctionOnSet(f, s) = g[s]
  BY SumAddsUp, SMTT(30)
<1>2. g[S] = IF S = {} THEN 0 ELSE f[Pick(S)] + g[S \ {Pick(S)}]
  BY <1>1 DEF AddsUp
<1>3. S \in SUBSET S /\ S \ {Pick(S)} \in SUBSET S
  OBVIOUS
<1> QED BY <1>1, <1>2, <1>3

(* The sum over nothing. *)
LEMMA SumEmpty ==
    ASSUME NEW f
    PROVE  SumFunctionOnSet(f, {}) = 0
<1>1. IsFiniteSet({})
  BY FS_EmptySet
<1> QED BY <1>1, SumStep

(* A sum of integers is an integer. *)
LEMMA SumType ==
    ASSUME NEW S, IsFiniteSet(S), NEW f, \A x \in S : f[x] \in Int
    PROVE  SumFunctionOnSet(f, S) \in Int
<1> DEFINE T == {s \in SUBSET S : SumFunctionOnSet(f, s) \notin Int}
<1> SUFFICES ASSUME T # {} PROVE FALSE
  OBVIOUS
<1>1. PICK s \in T : \A t \in T : t \subseteq s => t = s
  <2>1. T \subseteq SUBSET S
    OBVIOUS
  <2> HIDE DEF T
  <2> QED BY <2>1, MinimalSubset, SMTT(30)
<1>2. s # {}
  BY SumEmpty, SMTT(30)
<1>3. Pick(s) \in s /\ f[Pick(s)] \in Int
  BY <1>2, PickIn
<1>4. s \ {Pick(s)} \in SUBSET S /\ s \ {Pick(s)} \notin T
  BY <1>1, <1>3
<1>5. SumFunctionOnSet(f, s \ {Pick(s)}) \in Int
  BY <1>4
<1>6. SumFunctionOnSet(f, s) = f[Pick(s)] + SumFunctionOnSet(f, s \ {Pick(s)})
  BY <1>2, SumStep, FS_Subset
<1>7. SumFunctionOnSet(f, s) \in Int
  BY <1>3, <1>5, <1>6, SMTT(30)
<1> QED BY <1>7

(* Any element may be summed first. *)
LEMMA SumRemove ==
    ASSUME NEW S, IsFiniteSet(S), NEW f, \A x \in S : f[x] \in Int, NEW x \in S
    PROVE  SumFunctionOnSet(f, S) = f[x] + SumFunctionOnSet(f, S \ {x})
<1> DEFINE sum(s) == SumFunctionOnSet(f, s)
           T == {s \in SUBSET S : \E y \in s : sum(s) # f[y] + sum(s \ {y})}
<1> SUFFICES ASSUME T # {} PROVE FALSE
  OBVIOUS
<1>1. PICK s \in T : \A t \in T : t \subseteq s => t = s
  <2>1. T \subseteq SUBSET S
    OBVIOUS
  <2> HIDE DEF T
  <2> QED BY <2>1, MinimalSubset, SMTT(30)
<1>2. PICK y \in s : sum(s) # f[y] + sum(s \ {y})
  OBVIOUS
<1> DEFINE c == Pick(s)
           u == s \ {c}
           v == s \ {y}
           w == u \ {y}
<1>3. sum(s) = f[c] + sum(u) /\ c \in s
  <2>1. s # {} /\ IsFiniteSet(s)
    BY FS_Subset
  <2> QED BY <2>1, SumStep, PickIn
<1>4. c # y
  BY <1>2, <1>3
<1>5. u \in SUBSET S /\ v \in SUBSET S /\ u \notin T /\ v \notin T /\ w = v \ {c}
  BY <1>1, <1>3
<1>6. sum(u) = f[y] + sum(w)
  BY <1>2, <1>4, <1>5
<1>7. sum(v) = f[c] + sum(w)
  BY <1>3, <1>4, <1>5
<1>8. f[c] \in Int /\ f[y] \in Int
  BY <1>3
<1>9. sum(w) \in Int
  <2>1. w \in SUBSET S /\ IsFiniteSet(w)
    BY FS_Subset
  <2> HIDE DEF w
  <2> QED BY <2>1, SumType
<1>10. \A i, j, k \in Int : i + (j + k) = j + (i + k)
  BY SMTT(30)
<1>11. f[c] + (f[y] + sum(w)) = f[y] + (f[c] + sum(w))
  BY <1>8, <1>9, <1>10
<1> QED BY <1>2, <1>3, <1>6, <1>7, <1>11

(* The sum only depends on the values that are summed. *)
LEMMA SumCongruent ==
    ASSUME NEW S, IsFiniteSet(S), NEW f, NEW h, \A x \in S : f[x] = h[x]
    PROVE  SumFunctionOnSet(f, S) = SumFunctionOnSet(h, S)
<1> DEFINE T == {s \in SUBSET S : SumFunctionOnSet(f, s) # SumFunctionOnSet(h, s)}
<1> SUFFICES ASSUME T # {} PROVE FALSE
  OBVIOUS
<1>1. PICK s \in T : \A t \in T : t \subseteq s => t = s
  <2>1. T \subseteq SUBSET S
    OBVIOUS
  <2> HIDE DEF T
  <2> QED BY <2>1, MinimalSubset, SMTT(30)
<1>2. s # {}
  BY SumEmpty
<1>3. Pick(s) \in s /\ f[Pick(s)] = h[Pick(s)]
  BY <1>2, PickIn
<1>4. s \ {Pick(s)} \in SUBSET S /\ s \ {Pick(s)} \notin T
  BY <1>1, <1>3
<1>5. SumFunctionOnSet(f, s \ {Pick(s)}) = SumFunctionOnSet(h, s \ {Pick(s)})
  BY <1>4
<1>6. /\ SumFunctionOnSet(f, s) = f[Pick(s)] + SumFunctionOnSet(f, s \ {Pick(s)})
      /\ SumFunctionOnSet(h, s) = h[Pick(s)] + SumFunctionOnSet(h, s \ {Pick(s)})
  BY <1>2, SumStep, FS_Subset
<1> QED BY <1>3, <1>5, <1>6

(* Leaving an element out that may not be there. *)
LEMMA SumWithout ==
    ASSUME NEW S, IsFiniteSet(S), NEW f, \A x \in S : f[x] \in Int, NEW a
    PROVE  /\ SumFunctionOnSet(f, S) =
                 (IF a \in S THEN f[a] ELSE 0) + SumFunctionOnSet(f, S \ {a})
           /\ SumFunctionOnSet(f, S) \in Int /\ SumFunctionOnSet(f, S \ {a}) \in Int
           /\ IsFiniteSet(S \ {a})
<1>1. IsFiniteSet(S \ {a}) /\ \A x \in S \ {a} : f[x] \in Int
  BY FS_Subset
<1>2. SumFunctionOnSet(f, S) \in Int
  BY SumType
<1>3. SumFunctionOnSet(f, S \ {a}) \in Int
  BY <1>1, SumType
<1>4. CASE a \in S
  <2>1. SumFunctionOnSet(f, S) = f[a] + SumFunctionOnSet(f, S \ {a})
    BY <1>4, SumRemove
  <2> QED BY <1>1, <1>2, <1>3, <1>4, <2>1
<1>5. CASE a \notin S
  <2>1. S \ {a} = S
    BY <1>5
  <2>2. \A n \in Int : n = 0 + n
    BY SMTT(30)
  <2>3. SumFunctionOnSet(f, S) = 0 + SumFunctionOnSet(f, S \ {a})
    BY <1>2, <2>1, <2>2
  <2> QED BY <1>1, <1>2, <1>3, <1>5, <2>3
<1> QED BY <1>4, <1>5

(* When a set and the values change at one element, the sum loses its old
   value and gains the new one. *)
LEMMA SumRow ==
    ASSUME NEW S, IsFiniteSet(S), NEW T, IsFiniteSet(T), NEW f, NEW g, NEW a,
           \A x \in S : f[x] \in Int, \A x \in T : g[x] \in Int,
           \A x : x # a => (x \in S <=> x \in T),
           \A x \in S : x # a => f[x] = g[x]
    PROVE  SumFunctionOnSet(g, T) =
               SumFunctionOnSet(f, S) - (IF a \in S THEN f[a] ELSE 0)
                                      + (IF a \in T THEN g[a] ELSE 0)
<1>1. /\ SumFunctionOnSet(f, S) =
            (IF a \in S THEN f[a] ELSE 0) + SumFunctionOnSet(f, S \ {a})
      /\ SumFunctionOnSet(f, S) \in Int /\ SumFunctionOnSet(f, S \ {a}) \in Int
      /\ IsFiniteSet(S \ {a})
  BY SumWithout
<1>2. /\ SumFunctionOnSet(g, T) =
            (IF a \in T THEN g[a] ELSE 0) + SumFunctionOnSet(g, T \ {a})
      /\ SumFunctionOnSet(g, T) \in Int /\ SumFunctionOnSet(g, T \ {a}) \in Int
      /\ IsFiniteSet(T \ {a})
  BY SumWithout
<1>3. T \ {a} = S \ {a}
  OBVIOUS
<1>4. SumFunctionOnSet(f, S \ {a}) = SumFunctionOnSet(g, S \ {a})
  <2>1. \A x \in S \ {a} : f[x] = g[x]
    OBVIOUS
  <2> QED BY <1>1, <2>1, SumCongruent
<1>5. PICK u \in Int, v \in Int, m \in Int :
         /\ u = (IF a \in S THEN f[a] ELSE 0) /\ v = (IF a \in T THEN g[a] ELSE 0)
         /\ m = SumFunctionOnSet(f, S \ {a})
  <2>1. (IF a \in S THEN f[a] ELSE 0) \in Int /\ (IF a \in T THEN g[a] ELSE 0) \in Int
    BY SMTT(30)
  <2> QED BY <1>1, <2>1
<1>6. SumFunctionOnSet(f, S) = u + m /\ SumFunctionOnSet(g, T) = v + m
  BY <1>1, <1>2, <1>3, <1>4, <1>5
<1>7. \A i, j, k \in Int : j + k = (i + k) - i + j
  BY SMTT(30)
<1>8. v + m = (u + m) - u + v
  BY <1>7
<1> QED BY <1>5, <1>6, <1>8

(* The sum of a function over its domain. *)
LEMMA SumDomain ==
    ASSUME NEW S, IsFiniteSet(S), NEW f, NEW g, f = [x \in S |-> g[x]]
    PROVE  SumFunction(f) = SumFunctionOnSet(g, S)
<1>1. DOMAIN f = S /\ \A x \in S : f[x] = g[x]
  OBVIOUS
<1>2. SumFunctionOnSet(f, S) = SumFunctionOnSet(g, S)
  BY <1>1, SumCongruent
<1> QED BY <1>1, <1>2 DEF SumFunction

(* The sum of one value that is not 0. *)
LEMMA SumSingle ==
    ASSUME NEW S, IsFiniteSet(S), NEW f, NEW a \in S, f[a] \in Int, \A x \in S : x # a => f[x] = 0
    PROVE  SumFunctionOnSet(f, S) = f[a]
<1> DEFINE T == {s \in SUBSET (S \ {a}) : SumFunctionOnSet(f, s) # 0}
<1>0. IsFiniteSet(S \ {a}) /\ \A x \in S : f[x] \in Int
  <2>1. 0 \in Int
    BY SMTT(30)
  <2> QED BY <2>1, FS_Subset
<1>1. T = {}
  <2> SUFFICES ASSUME T # {} PROVE FALSE
    OBVIOUS
  <2>1. PICK s \in T : \A t \in T : t \subseteq s => t = s
    <3>1. T \subseteq SUBSET (S \ {a})
      OBVIOUS
    <3> HIDE DEF T
    <3> QED BY <1>0, <3>1, MinimalSubset, SMTT(30)
  <2>2. s # {} /\ IsFiniteSet(s)
    BY <1>0, SumEmpty, FS_Subset
  <2>3. Pick(s) \in s /\ f[Pick(s)] = 0
    BY <2>2, PickIn
  <2>4. s \ {Pick(s)} \in SUBSET (S \ {a}) /\ s \ {Pick(s)} \notin T
    BY <2>1, <2>3
  <2>5. SumFunctionOnSet(f, s \ {Pick(s)}) = 0
    BY <2>4
  <2>6. SumFunctionOnSet(f, s) = f[Pick(s)] + SumFunctionOnSet(f, s \ {Pick(s)})
    BY <2>2, SumStep
  <2>7. SumFunctionOnSet(f, s) = 0
    BY <2>3, <2>5, <2>6, SMTT(30)
  <2> QED BY <2>7
<1>2. SumFunctionOnSet(f, S \ {a}) = 0
  BY <1>1
<1>3. SumFunctionOnSet(f, S) = f[a] + SumFunctionOnSet(f, S \ {a})
  BY <1>0, SumRemove
<1> QED BY <1>2, <1>3, SMTT(30)

(* The sum of one value. *)
LEMMA SumOne ==
    ASSUME NEW f, NEW a, f[a] \in Int
    PROVE  SumFunctionOnSet(f, {a}) = f[a]
<1>1. PICK S : S = {a}
  OBVIOUS
<1>2. IsFiniteSet(S)
  BY <1>1, FS_Singleton
<1>3. a \in S /\ \A x \in S : x # a => f[x] = 0
  BY <1>1
<1>4. SumFunctionOnSet(f, S) = f[a]
  BY <1>2, <1>3, SumSingle
<1> QED BY <1>1, <1>4

-----------------------------------------------------------------------------
(* The sums that ledger::initialize checks.                                *)

(* A set that changes at one element changes its cardinality by that. *)
LEMMA CardinalityRow ==
    ASSUME NEW S, IsFiniteSet(S), NEW T, IsFiniteSet(T), NEW a,
           \A x : x # a => (x \in S <=> x \in T)
    PROVE  Cardinality(T) = Cardinality(S) - (IF a \in S THEN 1 ELSE 0) + (IF a \in T THEN 1 ELSE 0)
<1>1. \A U : IsFiniteSet(U) => Cardinality(U) \in Nat
  BY FS_CardinalityType
<1>2. ASSUME NEW U, IsFiniteSet(U)
      PROVE  Cardinality(U \ {a}) = IF a \in U THEN Cardinality(U) - 1 ELSE Cardinality(U)
  BY <1>2, FS_RemoveElement
<1>3. S \ {a} = T \ {a}
  OBVIOUS
<1>4. PICK i \in Nat, j \in Nat : i = Cardinality(S) /\ j = Cardinality(T)
  BY <1>1
<1>5. (IF a \in S THEN i - 1 ELSE i) = (IF a \in T THEN j - 1 ELSE j)
  BY <1>2, <1>3, <1>4
<1> QED BY <1>4, <1>5, SMTT(30)

(* The columns that are summed, and who delegates to a representative. *)
balances == [a \in Account |-> accounts[a].balance]

counts == [a \in Account |-> accounts[a].block_count]

confirmed == [a \in Account |-> confirmation_height[a].height]

amounts == [p \in PendingEntry |-> p.amount]

delegating == [r \in Account0 |-> {a \in Account :
                  accounts[a].head # Zero /\ accounts[a].representative = r}]

(* The sets that are summed over are finite sets of accounts. *)
LEMMA SummedSets ==
    /\ opened \subseteq Account /\ IsFiniteSet(opened)
    /\ \A a \in Account : a \in opened <=> accounts[a].head # Zero
    /\ \A r \in Account0 : delegating[r] \subseteq Account /\ IsFiniteSet(delegating[r])
    /\ \A r \in Account0 : delegating[r] = delegators(r)
<1>1. opened \subseteq Account /\ \A a \in Account : a \in opened <=> accounts[a].head # Zero
  BY DEF opened, account_exists
<1>2. \A r \in Account0 : delegating[r] \subseteq Account
  BY DEF delegating
<1>3. \A S : S \subseteq Account => IsFiniteSet(S)
  BY FS_Subset, FiniteAssumption
<1>4. \A r \in Account0 : delegating[r] = delegators(r)
  BY DEF delegating, delegators, opened, account_exists
<1> QED BY <1>1, <1>2, <1>3, <1>4

(* The same after a step. *)
LEMMA SummedSetsNext ==
    /\ opened' \subseteq Account /\ IsFiniteSet(opened')
    /\ \A a \in Account : a \in opened' <=> accounts'[a].head # Zero
    /\ \A r \in Account0 : delegating'[r] \subseteq Account /\ IsFiniteSet(delegating'[r])
<1>1. opened' \subseteq Account /\ \A a \in Account : a \in opened' <=> accounts'[a].head # Zero
  BY DEF opened, account_exists
<1>2. \A r \in Account0 : delegating'[r] \subseteq Account
  BY DEF delegating
<1>3. \A S : S \subseteq Account => IsFiniteSet(S)
  BY FS_Subset, FiniteAssumption
<1> QED BY <1>1, <1>2, <1>3

(* The rows of accounts that are not opened add nothing. *)
LEMMA AccountRow ==
    ASSUME IInv, NEW a \in Account
    PROVE  /\ balances[a] = accounts[a].balance /\ accounts[a].balance \in Int
           /\ counts[a] = accounts[a].block_count /\ accounts[a].block_count \in Int
           /\ a \notin opened => accounts[a].balance = 0 /\ accounts[a].block_count = 0
<1>1. accounts[a].balance \in Int /\ accounts[a].block_count \in Int
  BY DEF IInv, TypeOK, AccountInfo
<1>2. balances[a] = accounts[a].balance /\ counts[a] = accounts[a].block_count
  BY DEF balances, counts
<1>3. a \notin opened => accounts[a].head = Zero
  BY SummedSets
<1> QED BY <1>1, <1>2, <1>3 DEF IInv, Heads

(* The same after a step. *)
LEMMA AccountRowNext ==
    ASSUME IInv', NEW a \in Account
    PROVE  /\ balances'[a] = accounts'[a].balance /\ accounts'[a].balance \in Int
           /\ counts'[a] = accounts'[a].block_count /\ accounts'[a].block_count \in Int
           /\ a \notin opened' => accounts'[a].balance = 0 /\ accounts'[a].block_count = 0
<1>1. accounts'[a].balance \in Int /\ accounts'[a].block_count \in Int
  BY DEF IInv, TypeOK, AccountInfo
<1>2. balances'[a] = accounts'[a].balance /\ counts'[a] = accounts'[a].block_count
  BY DEF balances, counts
<1>3. a \notin opened' => accounts'[a].head = Zero
  BY SummedSetsNext
<1> QED BY <1>1, <1>2, <1>3 DEF IInv, Heads

(* When one row of the account table changes, so do the sums over it. *)
LEMMA RowChange ==
    ASSUME IInv, IInv', NEW a \in Account, \A b \in Account : b # a => accounts'[b] = accounts[b]
    PROVE  /\ SumFunctionOnSet(balances', opened') =
                SumFunctionOnSet(balances, opened) - accounts[a].balance + accounts'[a].balance
           /\ SumFunctionOnSet(counts', opened') =
                SumFunctionOnSet(counts, opened) - accounts[a].block_count + accounts'[a].block_count
           /\ \A r \in Account0 :
                SumFunctionOnSet(balances', delegating'[r]) =
                  SumFunctionOnSet(balances, delegating[r])
                    - (IF r = accounts[a].representative THEN accounts[a].balance ELSE 0)
                    + (IF r = accounts'[a].representative THEN accounts'[a].balance ELSE 0)
           /\ Cardinality(opened') =
                Cardinality(opened) - (IF accounts[a].head # Zero THEN 1 ELSE 0)
                                    + (IF accounts'[a].head # Zero THEN 1 ELSE 0)
<1>1. /\ opened \subseteq Account /\ IsFiniteSet(opened)
      /\ \A x \in Account : x \in opened <=> accounts[x].head # Zero
      /\ \A r \in Account0 : delegating[r] \subseteq Account /\ IsFiniteSet(delegating[r])
  BY SummedSets
<1>2. /\ opened' \subseteq Account /\ IsFiniteSet(opened')
      /\ \A x \in Account : x \in opened' <=> accounts'[x].head # Zero
      /\ \A r \in Account0 : delegating'[r] \subseteq Account /\ IsFiniteSet(delegating'[r])
  BY SummedSetsNext
<1>3. \A x \in Account : balances[x] \in Int /\ counts[x] \in Int
  BY AccountRow
<1>4. \A x \in Account : balances'[x] \in Int /\ counts'[x] \in Int
  BY AccountRowNext
<1>5. \A x \in Account : x # a => balances[x] = balances'[x] /\ counts[x] = counts'[x]
  BY AccountRow, AccountRowNext
<1>6. \A x : x # a => (x \in opened <=> x \in opened')
  BY <1>1, <1>2
<1>7. SumFunctionOnSet(balances', opened') =
        SumFunctionOnSet(balances, opened) - (IF a \in opened THEN balances[a] ELSE 0)
                                           + (IF a \in opened' THEN balances'[a] ELSE 0)
  <2>1. /\ \A x \in opened : balances[x] \in Int
        /\ \A x \in opened : x # a => balances[x] = balances'[x]
    BY <1>1, <1>3, <1>5
  <2>2. \A x \in opened' : balances'[x] \in Int
    BY <1>2, <1>4
  <2>3. IsFiniteSet(opened) /\ IsFiniteSet(opened')
    BY <1>1, <1>2
  <2> QED BY <1>6, <2>1, <2>2, <2>3, SumRow, SMTT(30)
<1>8. SumFunctionOnSet(counts', opened') =
        SumFunctionOnSet(counts, opened) - (IF a \in opened THEN counts[a] ELSE 0)
                                         + (IF a \in opened' THEN counts'[a] ELSE 0)
  <2>1. /\ \A x \in opened : counts[x] \in Int
        /\ \A x \in opened : x # a => counts[x] = counts'[x]
    BY <1>1, <1>3, <1>5
  <2>2. \A x \in opened' : counts'[x] \in Int
    BY <1>2, <1>4
  <2>3. IsFiniteSet(opened) /\ IsFiniteSet(opened')
    BY <1>1, <1>2
  <2> QED BY <1>6, <2>1, <2>2, <2>3, SumRow, SMTT(30)
<1>9. ASSUME NEW r \in Account0
      PROVE  SumFunctionOnSet(balances', delegating'[r]) =
               SumFunctionOnSet(balances, delegating[r])
                 - (IF r = accounts[a].representative THEN accounts[a].balance ELSE 0)
                 + (IF r = accounts'[a].representative THEN accounts'[a].balance ELSE 0)
  <2> DEFINE D == delegating[r]
             E == delegating'[r]
  <2>1. /\ \A x : x \in D <=> x \in Account /\ accounts[x].head # Zero /\ accounts[x].representative = r
        /\ \A x : x \in E <=> x \in Account /\ accounts'[x].head # Zero /\ accounts'[x].representative = r
    BY DEF delegating
  <2>2. IsFiniteSet(D) /\ IsFiniteSet(E)
    BY <1>1, <1>2
  <2> HIDE DEF D, E
  <2>3. \A x : x # a => (x \in D <=> x \in E)
    BY <2>1
  <2>4. /\ \A x \in D : balances[x] \in Int
        /\ \A x \in D : x # a => balances[x] = balances'[x]
    BY <1>3, <1>5, <2>1
  <2>5. \A x \in E : balances'[x] \in Int
    BY <1>4, <2>1
  <2>6. SumFunctionOnSet(balances', E) =
          SumFunctionOnSet(balances, D) - (IF a \in D THEN balances[a] ELSE 0)
                                        + (IF a \in E THEN balances'[a] ELSE 0)
    BY <2>2, <2>3, <2>4, <2>5, SumRow, SMTT(30)
  <2>7. (IF a \in D THEN balances[a] ELSE 0) =
          (IF r = accounts[a].representative THEN accounts[a].balance ELSE 0)
    <3>1. accounts[a].head = Zero => accounts[a].balance = 0
      BY <1>1, AccountRow
    <3> QED BY <2>1, <3>1, AccountRow
  <2>8. (IF a \in E THEN balances'[a] ELSE 0) =
          (IF r = accounts'[a].representative THEN accounts'[a].balance ELSE 0)
    <3>1. accounts'[a].head = Zero => accounts'[a].balance = 0
      BY <1>2, AccountRowNext
    <3> QED BY <2>1, <3>1, AccountRowNext
  <2> QED BY <2>6, <2>7, <2>8 DEF D, E
<1>10. /\ (IF a \in opened THEN balances[a] ELSE 0) = accounts[a].balance
       /\ (IF a \in opened THEN counts[a] ELSE 0) = accounts[a].block_count
  BY AccountRow
<1>11. /\ (IF a \in opened' THEN balances'[a] ELSE 0) = accounts'[a].balance
       /\ (IF a \in opened' THEN counts'[a] ELSE 0) = accounts'[a].block_count
  BY AccountRowNext
<1>12. SumFunctionOnSet(balances', opened') =
         SumFunctionOnSet(balances, opened) - accounts[a].balance + accounts'[a].balance
  BY <1>7, <1>10, <1>11
<1>13. SumFunctionOnSet(counts', opened') =
         SumFunctionOnSet(counts, opened) - accounts[a].block_count + accounts'[a].block_count
  BY <1>8, <1>10, <1>11
<1>14. Cardinality(opened') = Cardinality(opened) - (IF a \in opened THEN 1 ELSE 0)
                                                  + (IF a \in opened' THEN 1 ELSE 0)
  BY <1>1, <1>2, <1>6, CardinalityRow
<1>15. /\ (IF a \in opened THEN 1 ELSE 0) = (IF accounts[a].head # Zero THEN 1 ELSE 0)
       /\ (IF a \in opened' THEN 1 ELSE 0) = (IF accounts'[a].head # Zero THEN 1 ELSE 0)
  BY <1>1, <1>2
<1>16. Cardinality(opened') =
         Cardinality(opened) - (IF accounts[a].head # Zero THEN 1 ELSE 0)
                             + (IF accounts'[a].head # Zero THEN 1 ELSE 0)
  BY <1>14, <1>15
<1> QED BY <1>9, <1>12, <1>13, <1>16

(* Entries added to the pending table and taken from it. *)
LEMMA PendingRow ==
    ASSUME pending \subseteq PendingEntry, IsFiniteSet(pending), NEW p
    PROVE  /\ p \in PendingEntry /\ p \notin pending =>
                /\ SumFunctionOnSet(amounts, pending \cup {p}) =
                     SumFunctionOnSet(amounts, pending) + p.amount
                /\ IsFiniteSet(pending \cup {p})
           /\ p \in pending =>
                /\ SumFunctionOnSet(amounts, pending \ {p}) =
                     SumFunctionOnSet(amounts, pending) - p.amount
                /\ IsFiniteSet(pending \ {p})
           /\ SumFunctionOnSet(amounts, pending) \in Int
<1>1. \A q \in PendingEntry : amounts[q] = q.amount /\ amounts[q] \in Int
  BY DEF amounts, PendingEntry
<1>2. IsFiniteSet(pending \cup {p}) /\ IsFiniteSet(pending \ {p})
  BY FS_AddElement, FS_RemoveElement
<1>3. SumFunctionOnSet(amounts, pending) \in Int
  BY <1>1, SumType
<1>4. ASSUME p \in PendingEntry, p \notin pending
      PROVE  SumFunctionOnSet(amounts, pending \cup {p}) =
               SumFunctionOnSet(amounts, pending) + p.amount
  <2>1. PICK T : T = pending \cup {p}
    OBVIOUS
  <2>2. p \in T /\ T \ {p} = pending /\ \A q \in T : amounts[q] \in Int
    BY <1>1, <1>4, <2>1
  <2>3. SumFunctionOnSet(amounts, T) = amounts[p] + SumFunctionOnSet(amounts, T \ {p})
    BY <1>2, <2>1, <2>2, SumRemove
  <2>4. SumFunctionOnSet(amounts, T) = amounts[p] + SumFunctionOnSet(amounts, pending)
    BY <2>2, <2>3
  <2>5. amounts[p] \in Int /\ amounts[p] = p.amount /\ \A i, j \in Int : i + j = j + i
    BY <1>1, <1>4, SMTT(30)
  <2> QED BY <1>3, <2>1, <2>4, <2>5
<1>5. ASSUME p \in pending
      PROVE  SumFunctionOnSet(amounts, pending \ {p}) =
               SumFunctionOnSet(amounts, pending) - p.amount
  <2>1. SumFunctionOnSet(amounts, pending) = amounts[p] + SumFunctionOnSet(amounts, pending \ {p})
    BY <1>1, <1>5, SumRemove
  <2>2. SumFunctionOnSet(amounts, pending \ {p}) \in Int
    BY <1>1, <1>2, SumType
  <2>3. amounts[p] \in Int /\ amounts[p] = p.amount /\ \A i, j \in Int : i = (j + i) - j
    BY <1>1, <1>5, SMTT(30)
  <2> QED BY <2>1, <2>2, <2>3
<1> QED BY <1>2, <1>3, <1>4, <1>5

(* What a block adds to its account leaves the pending table. *)
LEMMA AppendsAmount ==
    ASSUME IInv, IInv', IsFiniteSet(pending),
           NEW h, NEW a, NEW sb, NEW info, Appends(h, a, sb, info)
    PROVE  /\ IsFiniteSet(pending')
           /\ SumFunctionOnSet(amounts, pending') =
                SumFunctionOnSet(amounts, pending) - (info.balance - accounts[a].balance)
<1>1. /\ h \in Hash /\ a \in Account /\ h \notin accepted /\ sb \in Sideband
      /\ info.balance = sb.balance
      /\ Carries(h, a, sb.balance, info.representative, sb.epoch, sb.source_epoch, sb.is_send)
  BY DEF Appends
<1>2. pending \subseteq PendingEntry /\ pending' \subseteq PendingEntry
  BY DEF IInv, TypeOK
<1>3. PICK m \in Int, n \in Int, s \in Int :
        /\ m = accounts[a].balance /\ n = info.balance
        /\ s = SumFunctionOnSet(amounts, pending)
  <2>1. accounts[a].balance \in Int /\ sb.balance \in Int
    BY <1>1, AccountRow DEF Sideband
  <2>2. SumFunctionOnSet(amounts, pending) \in Int
    BY <1>2, PendingRow
  <2> QED BY <1>1, <2>1, <2>2
<1>4. CASE sb.is_send
  <2>1. PICK p : /\ p = [account |-> Block[h].link, hash |-> h, source |-> a,
                         amount |-> m - n, epoch |-> sb.epoch]
                 /\ pending' = pending \cup {p}
    BY <1>1, <1>3, <1>4 DEF Carries
  <2>2. p.hash = h /\ p.amount = m - n /\ p \in PendingEntry
    BY <1>2, <2>1
  <2>3. p \notin pending
    BY <1>1, <2>2 DEF IInv, Receipts
  <2>4. SumFunctionOnSet(amounts, pending') = s + (m - n) /\ IsFiniteSet(pending')
    BY <1>2, <1>3, <2>1, <2>2, <2>3, PendingRow
  <2>5. s + (m - n) = s - (n - m)
    BY SMTT(30)
  <2> QED BY <1>3, <2>4, <2>5
<1>5. CASE ~sb.is_send /\ Block[h].link \in Hash
  <2>1. PICK p \in pending : pending' = pending \ {p} /\ n = m + p.amount
    BY <1>1, <1>3, <1>5 DEF Carries
  <2>2. SumFunctionOnSet(amounts, pending') = s - p.amount /\ IsFiniteSet(pending') /\ p.amount \in Int
    BY <1>2, <1>3, <2>1, PendingRow, EntryFields
  <2>3. \A i \in Int : n = m + i => s - i = s - (n - m)
    BY SMTT(30)
  <2> QED BY <1>3, <2>1, <2>2, <2>3
<1>6. CASE ~sb.is_send /\ Block[h].link \notin Hash
  <2>1. pending' = pending /\ n = m
    BY <1>1, <1>3, <1>6 DEF Carries
  <2>2. s = s - (m - m)
    BY SMTT(30)
  <2> QED BY <1>3, <2>1, <2>2
<1> QED BY <1>4, <1>5, <1>6

(* What undoing a block takes from its account goes back to the table. *)
LEMMA UndoesAmount ==
    ASSUME IInv, IInv', TInv, Delegates, IsFiniteSet(pending),
           NEW h, NEW a, NEW info, Undoes(h, a, info)
    PROVE  /\ IsFiniteSet(pending')
           /\ SumFunctionOnSet(amounts, pending') =
                SumFunctionOnSet(amounts, pending) - (info.balance - accounts[a].balance)
<1>1. /\ h \in stored /\ h \in accepted /\ h \in Hash /\ a \in Account
      /\ Restores(h, a, info.representative, info.epoch)
  BY AcceptedFields DEF Undoes
<1>2. pending \subseteq PendingEntry /\ pending' \subseteq PendingEntry
  BY DEF IInv, TypeOK
<1>3. /\ accounts[a].balance = blocks[h].balance /\ info.balance = before[h]
      /\ h # genesis /\ Block[h].previous \notin pruned
  BY UndoShifts DEF TInv
<1>4. PICK m \in Int, n \in Int, s \in Int :
        /\ m = blocks[h].balance /\ n = before[h] /\ n = block_balance(Block[h].previous)
        /\ s = SumFunctionOnSet(amounts, pending)
  <2>1. blocks[h].balance \in Int /\ before[h] \in Int /\ before[h] = block_balance(Block[h].previous)
    BY <1>1, StoredFields, BeforeType
  <2>2. SumFunctionOnSet(amounts, pending) \in Int
    BY <1>2, PendingRow
  <2> QED BY <2>1, <2>2
<1>5. CASE blocks[h].is_send
  <2>1. PICK p \in pending : p.hash = h /\ pending' = pending \ {p}
    BY <1>1, <1>5 DEF Restores
  <2>2. p.amount = n - m
    BY <1>1, <1>3, <1>4, <2>1 DEF TInv, Amounts
  <2>3. SumFunctionOnSet(amounts, pending') = s - (n - m) /\ IsFiniteSet(pending')
    BY <1>2, <1>4, <2>1, <2>2, PendingRow
  <2> QED BY <1>3, <1>4, <2>3
<1>6. CASE ~blocks[h].is_send /\ Block[h].link \in Hash
  <2>1. PICK p : /\ p.hash = Block[h].link /\ p.amount = m - n
                 /\ pending' = pending \cup {p}
    BY <1>1, <1>4, <1>6 DEF Restores, restored_pending
  <2>2. p \in PendingEntry
    BY <1>2, <2>1
  <2>3. p \notin pending
    BY <1>1, <2>1 DEF IInv, Receipts
  <2>4. SumFunctionOnSet(amounts, pending') = s + (m - n) /\ IsFiniteSet(pending')
    BY <1>2, <1>4, <2>1, <2>2, <2>3, PendingRow
  <2>5. s + (m - n) = s - (n - m)
    BY SMTT(30)
  <2> QED BY <1>3, <1>4, <2>4, <2>5
<1>7. CASE ~blocks[h].is_send /\ Block[h].link \notin Hash
  <2>1. m = n
    BY <1>1, <1>3, <1>4, <1>7 DEF TInv, Amounts
  <2>2. pending' = pending
    BY <1>7 DEF Undoes
  <2>3. s = s - (m - m)
    BY SMTT(30)
  <2> QED BY <1>3, <1>4, <2>1, <2>2, <2>3
<1> QED BY <1>5, <1>6, <1>7

(* A representative weighs what the accounts that delegate to it hold. *)
Weighed ==
    \A r \in Account0 :
        /\ rep_weights.store[r] = SumFunctionOnSet(balances, delegating[r])
        /\ rep_weights.cache[r] = put_cache(rep_weights.store[r])

(* Balances and pending amounts add up to the genesis amount. *)
Supply ==
    /\ IsFiniteSet(pending)
    /\ rep_weights.committed = SumFunctionOnSet(balances, opened)
    /\ rep_weights.unused = SumFunctionOnSet(amounts, pending)
    /\ SumFunctionOnSet(balances, opened) + SumFunctionOnSet(amounts, pending)
         = Block[genesis].balance

(* The counters in memory are what the tables count. *)
Tally ==
    /\ cache.block_count = SumFunctionOnSet(counts, opened)
    /\ cache.block_count = Cardinality(stored) + Cardinality(pruned)
    /\ cache.account_count = Cardinality(opened)
    /\ cache.cemented_count = SumFunctionOnSet(confirmed, Account)
    /\ cache.cemented_count = Cardinality(cemented)
    /\ cache.pruned_count = Cardinality(pruned)

(* The sums of integers. *)
LEMMA SumsAreInt ==
    ASSUME IInv, IsFiniteSet(pending)
    PROVE  /\ SumFunctionOnSet(balances, opened) \in Int
           /\ SumFunctionOnSet(counts, opened) \in Int
           /\ SumFunctionOnSet(amounts, pending) \in Int
           /\ \A r \in Account0 : SumFunctionOnSet(balances, delegating[r]) \in Int
<1>1. \A x \in Account : balances[x] \in Int /\ counts[x] \in Int
  BY AccountRow
<1>2. /\ opened \subseteq Account /\ IsFiniteSet(opened)
      /\ \A r \in Account0 : delegating[r] \subseteq Account /\ IsFiniteSet(delegating[r])
  BY SummedSets
<1>3. \A S : S \subseteq Account /\ IsFiniteSet(S) =>
                SumFunctionOnSet(balances, S) \in Int /\ SumFunctionOnSet(counts, S) \in Int
  BY <1>1, SumType
<1>4. SumFunctionOnSet(amounts, pending) \in Int
  BY PendingRow DEF IInv, TypeOK
<1> QED BY <1>2, <1>3, <1>4

(* A step that moves an account's balance to the representative it then has,
   the difference coming from the pending table, keeps the sums. *)
LEMMA MovesSums ==
    ASSUME IInv, IInv', Weighed, Supply, NEW a \in Account,
           \A b \in Account : b # a => accounts'[b] = accounts[b],
           Shifted(rep_weights, rep_weights', accounts[a].representative, accounts[a].balance,
                   accounts'[a].representative, accounts'[a].balance),
           IsFiniteSet(pending'),
           SumFunctionOnSet(amounts, pending') =
              SumFunctionOnSet(amounts, pending) - (accounts'[a].balance - accounts[a].balance)
    PROVE  Weighed' /\ Supply'
<1>1. /\ SumFunctionOnSet(balances', opened') =
           SumFunctionOnSet(balances, opened) - accounts[a].balance + accounts'[a].balance
      /\ \A r \in Account0 :
           SumFunctionOnSet(balances', delegating'[r]) =
             SumFunctionOnSet(balances, delegating[r])
               - (IF r = accounts[a].representative THEN accounts[a].balance ELSE 0)
               + (IF r = accounts'[a].representative THEN accounts'[a].balance ELSE 0)
  BY RowChange
<1>2. PICK m \in Int, n \in Int : m = accounts[a].balance /\ n = accounts'[a].balance
  BY AccountRow, AccountRowNext
<1>3. PICK s \in Int, t \in Int : /\ s = SumFunctionOnSet(balances, opened)
                                  /\ t = SumFunctionOnSet(amounts, pending)
  BY SumsAreInt DEF Supply
<1>4. /\ rep_weights.committed = s /\ rep_weights.unused = t /\ s + t = Block[genesis].balance
  BY <1>3 DEF Supply
<1>5. /\ rep_weights'.committed = s + (n - m) /\ rep_weights'.unused = t - (n - m)
      /\ \A r \in Account0 :
          /\ rep_weights'.store[r] = rep_weights.store[r]
               - (IF r = accounts[a].representative THEN m ELSE 0)
               + (IF r = accounts'[a].representative THEN n ELSE 0)
          /\ rep_weights.cache[r] = put_cache(rep_weights.store[r]) =>
                rep_weights'.cache[r] = put_cache(rep_weights'.store[r])
  BY <1>2, <1>4 DEF Shifted
<1>6. /\ SumFunctionOnSet(balances', opened') = s - m + n
      /\ SumFunctionOnSet(amounts, pending') = t - (n - m)
  BY <1>1, <1>2, <1>3
<1>7. Weighed'
  <2>1. ASSUME NEW r \in Account0
        PROVE  /\ rep_weights'.store[r] = SumFunctionOnSet(balances', delegating'[r])
               /\ rep_weights'.cache[r] = put_cache(rep_weights'.store[r])
    <3>1. /\ rep_weights.store[r] = SumFunctionOnSet(balances, delegating[r])
          /\ rep_weights.cache[r] = put_cache(rep_weights.store[r])
      BY DEF Weighed
    <3>2. SumFunctionOnSet(balances', delegating'[r]) =
            rep_weights.store[r] - (IF r = accounts[a].representative THEN m ELSE 0)
                                 + (IF r = accounts'[a].representative THEN n ELSE 0)
      BY <1>1, <1>2, <3>1
    <3>3. /\ rep_weights'.store[r] = rep_weights.store[r]
               - (IF r = accounts[a].representative THEN m ELSE 0)
               + (IF r = accounts'[a].representative THEN n ELSE 0)
          /\ rep_weights'.cache[r] = put_cache(rep_weights'.store[r])
      BY <1>5, <3>1
    <3> QED BY <3>2, <3>3
  <2> QED BY <2>1 DEF Weighed, put_cache
<1>8. Supply'
  <2>1. s - m + n = s + (n - m) /\ (s - m + n) + (t - (n - m)) = s + t
    BY SMTT(30)
  <2>2. amounts' = amounts
    BY DEF amounts
  <2> QED BY <1>4, <1>5, <1>6, <2>1, <2>2 DEF Supply
<1> QED BY <1>7, <1>8

(* A new block keeps the sums. *)
LEMMA AppendsWeighed ==
    ASSUME IInv, IInv', Weighed, Supply,
           NEW h, NEW a, NEW sb, NEW info, Appends(h, a, sb, info)
    PROVE  Weighed' /\ Supply'
<1>1. /\ a \in Account /\ info.balance = sb.balance
      /\ Carries(h, a, sb.balance, info.representative, sb.epoch, sb.source_epoch, sb.is_send)
  BY DEF Appends
<1>2. /\ stored' = stored \cup {h} /\ accepted' = accepted \cup {h}
      /\ cemented' = cemented /\ h \notin stored /\ h \notin cemented
      /\ blocks'[h] = sb /\ \A x \in stored : blocks'[x] = blocks[x]
      /\ accounts'[a] = info /\ \A b \in Account : b # a => accounts'[b] = accounts[b]
      /\ confirmation_height' = confirmation_height /\ pruned' = pruned
      /\ sb.height \in Nat /\ sb.height > confirmation_height[a].height
  BY AppendsSets
<1>3. Shifted(rep_weights, rep_weights', accounts[a].representative, accounts[a].balance,
              info.representative, info.balance)
  BY <1>1 DEF Carries
<1>4. /\ IsFiniteSet(pending')
      /\ SumFunctionOnSet(amounts, pending') =
           SumFunctionOnSet(amounts, pending) - (info.balance - accounts[a].balance)
  BY AppendsAmount DEF Supply
<1> QED BY <1>1, <1>2, <1>3, <1>4, MovesSums

(* Undoing a block keeps the sums. *)
LEMMA UndoesWeighed ==
    ASSUME IInv, IInv', TInv, Delegates, Weighed, Supply,
           NEW h, NEW a, NEW info, Undoes(h, a, info)
    PROVE  Weighed' /\ Supply'
<1>1. a \in Account
  BY DEF Undoes
<1>2. /\ stored' = stored \ {h} /\ accepted' = accepted \ {h}
      /\ cemented' = cemented /\ \A x \in stored' : x # h /\ blocks'[x] = blocks[x]
      /\ accounts'[a] = info /\ \A b \in Account : b # a => accounts'[b] = accounts[b]
      /\ confirmation_height' = confirmation_height /\ pruned' = pruned
      /\ blocks[h].height > confirmation_height[a].height
  BY UndoesSets
<1>3. Shifted(rep_weights, rep_weights', accounts[a].representative, accounts[a].balance,
              info.representative, info.balance)
  BY UndoShifts DEF TInv
<1>4. /\ IsFiniteSet(pending')
      /\ SumFunctionOnSet(amounts, pending') =
           SumFunctionOnSet(amounts, pending) - (info.balance - accounts[a].balance)
  BY UndoesAmount DEF Supply
<1> QED BY <1>1, <1>2, <1>3, <1>4, MovesSums

(* The counters with another number of blocks and accounts, with one more
   cemented block, with one more pruned block. *)
recount(c, m, n) == [c EXCEPT !.block_count = m, !.account_count = n]

cement_count_up(c) == [c EXCEPT !.cemented_count = @ + 1]

prune_count_up(c) == [c EXCEPT !.pruned_count = @ + 1]

(* What these updates leave in the fields. *)
LEMMA RecountedFields ==
    ASSUME NEW c \in Counters, NEW m \in Int, NEW n \in Int
    PROVE  /\ recount(c, m, n).block_count = m /\ recount(c, m, n).account_count = n
           /\ recount(c, m, n).cemented_count = c.cemented_count
           /\ recount(c, m, n).pruned_count = c.pruned_count
  BY DEF Counters, recount

(* Cementing a block counts one more cemented block. *)
LEMMA CementedFields ==
    ASSUME NEW c \in Counters
    PROVE  /\ cement_count_up(c).cemented_count = c.cemented_count + 1
           /\ cement_count_up(c).pruned_count = c.pruned_count
           /\ cement_count_up(c).block_count = c.block_count
           /\ cement_count_up(c).account_count = c.account_count
  BY DEF Counters, cement_count_up

(* Pruning a block counts one more pruned block. *)
LEMMA PrunedFields ==
    ASSUME NEW c \in Counters
    PROVE  /\ prune_count_up(c).pruned_count = c.pruned_count + 1
           /\ prune_count_up(c).cemented_count = c.cemented_count
           /\ prune_count_up(c).block_count = c.block_count
           /\ prune_count_up(c).account_count = c.account_count
  BY DEF Counters, prune_count_up

(* The sets of blocks are finite. *)
LEMMA BlockSets ==
    ASSUME IInv
    PROVE  /\ IsFiniteSet(stored) /\ IsFiniteSet(pruned) /\ IsFiniteSet(cemented)
           /\ Cardinality(stored) \in Int /\ Cardinality(pruned) \in Int
           /\ Cardinality(cemented) \in Int /\ Cardinality(opened) \in Int
<1>1. stored \subseteq Hash /\ cemented \subseteq Hash
  BY DEF stored, cemented
<1>2. pruned \subseteq Hash
  BY DEF IInv, TypeOK
<1>3. \A S : S \subseteq Hash => IsFiniteSet(S)
  BY FS_Subset, FiniteAssumption
<1>4. IsFiniteSet(opened)
  BY SummedSets
<1>5. \A S : IsFiniteSet(S) => Cardinality(S) \in Int
  BY FS_CardinalityType, SMTT(30)
<1> QED BY <1>1, <1>2, <1>3, <1>4, <1>5

(* One element more, or one less. *)
LEMMA OneMore ==
    ASSUME NEW S, IsFiniteSet(S), NEW x
    PROVE  /\ x \notin S => Cardinality(S \cup {x}) = Cardinality(S) + 1
           /\ x \in S => Cardinality(S \ {x}) = Cardinality(S) - 1
<1>1. x \notin S => Cardinality(S \cup {x}) = Cardinality(S) + 1
  BY FS_AddElement
<1>2. x \in S => Cardinality(S \ {x}) = Cardinality(S) - 1
  BY FS_RemoveElement
<1> QED BY <1>1, <1>2

(* put_block counts the block, and the account it opens. *)
LEMMA AppendsTally ==
    ASSUME IInv, IInv', Tally, NEW h, NEW a, NEW sb, NEW info, Appends(h, a, sb, info)
    PROVE  Tally'
<1>1. /\ h \in Hash /\ a \in Account /\ info.head = h
      /\ info.block_count = accounts[a].block_count + 1
      /\ put_block(h, a, sb, info)
  BY DEF Appends
<1>2. /\ stored' = stored \cup {h} /\ accepted' = accepted \cup {h}
      /\ cemented' = cemented /\ h \notin stored /\ h \notin cemented
      /\ blocks'[h] = sb /\ \A x \in stored : blocks'[x] = blocks[x]
      /\ accounts'[a] = info /\ \A b \in Account : b # a => accounts'[b] = accounts[b]
      /\ confirmation_height' = confirmation_height /\ pruned' = pruned
      /\ sb.height \in Nat /\ sb.height > confirmation_height[a].height
  BY AppendsSets
<1>0. /\ cache.block_count \in Int /\ accounts[a].block_count \in Int /\ cache.account_count \in Int
  BY <1>1, AccountRow, CountersFields DEF IInv, TypeOK
<1>3. PICK m \in Int, n \in Int :
         /\ m = cache.block_count + 1
         /\ n = cache.account_count + (IF accounts[a].head = Zero THEN 1 ELSE 0)
         /\ cache' = recount(cache, m, n)
  <2>1. \A i \in Int : i + 1 \in Int /\ i + 0 \in Int
    BY SMTT(30)
  <2> QED BY <1>0, <1>1, <2>1 DEF put_block, recount
<1>4. /\ cache'.block_count = m /\ cache'.account_count = n
      /\ cache'.cemented_count = cache.cemented_count /\ cache'.pruned_count = cache.pruned_count
  <2>1. cache \in Counters
    BY DEF IInv, TypeOK
  <2>2. /\ recount(cache, m, n).block_count = m /\ recount(cache, m, n).account_count = n
        /\ recount(cache, m, n).cemented_count = cache.cemented_count
        /\ recount(cache, m, n).pruned_count = cache.pruned_count
    BY <2>1, RecountedFields
  <2>3. cache' = recount(cache, m, n)
    BY <1>3
  <2> QED BY <2>2, <2>3
<1>5. /\ SumFunctionOnSet(counts', opened') =
           SumFunctionOnSet(counts, opened) - accounts[a].block_count + info.block_count
      /\ Cardinality(opened') =
           Cardinality(opened) - (IF accounts[a].head # Zero THEN 1 ELSE 0)
                               + (IF info.head # Zero THEN 1 ELSE 0)
  BY <1>1, <1>2, RowChange
<1>7. cache'.block_count = SumFunctionOnSet(counts', opened')
  <2>1. \A i, j \in Int : i + 1 = i - j + (j + 1)
    BY SMTT(30)
  <2> QED BY <1>1, <1>3, <1>4, <1>5, <1>0, <2>1 DEF Tally
<1>8. cache'.block_count = Cardinality(stored') + Cardinality(pruned')
  <2>1. Cardinality(stored') = Cardinality(stored) + 1
    BY <1>2, BlockSets, OneMore
  <2>2. Cardinality(stored) \in Int /\ Cardinality(pruned) \in Int
    BY BlockSets
  <2>3. \A i, j \in Int : (i + j) + 1 = (i + 1) + j
    BY SMTT(30)
  <2> QED BY <1>2, <1>3, <1>4, <2>1, <2>2, <2>3 DEF Tally
<1>9. cache'.account_count = Cardinality(opened')
  <2>1. info.head # Zero
    BY <1>1, UniverseAssumption
  <2>2. \A i \in Int : i + 1 = i - 0 + 1 /\ i + 0 = i - 1 + 1
    BY SMTT(30)
  <2>3. CASE accounts[a].head = Zero
    BY <1>3, <1>4, <1>5, <1>0, <2>1, <2>2, <2>3 DEF Tally
  <2>4. CASE accounts[a].head # Zero
    BY <1>3, <1>4, <1>5, <1>0, <2>1, <2>2, <2>4 DEF Tally
  <2> QED BY <2>3, <2>4
<1>10. confirmed' = confirmed
  BY <1>2 DEF confirmed
<1> QED BY <1>2, <1>4, <1>7, <1>8, <1>9, <1>10 DEF Tally

(* del_block takes the block back, and the account it opened. *)
LEMMA UndoesTally ==
    ASSUME IInv, IInv', Tally, NEW h, NEW a, NEW info, Undoes(h, a, info)
    PROVE  Tally'
<1>1. /\ h \in stored /\ h \in Hash /\ a \in Account /\ accounts[a].head = h
      /\ del_block(h, a, info)
  BY DEF Undoes, stored
<1>2. /\ stored' = stored \ {h} /\ accepted' = accepted \ {h}
      /\ cemented' = cemented /\ \A x \in stored' : x # h /\ blocks'[x] = blocks[x]
      /\ accounts'[a] = info /\ \A b \in Account : b # a => accounts'[b] = accounts[b]
      /\ confirmation_height' = confirmation_height /\ pruned' = pruned
      /\ blocks[h].height > confirmation_height[a].height
  BY UndoesSets
<1>0. /\ cache.block_count \in Int /\ accounts[a].block_count \in Int /\ cache.account_count \in Int
  BY <1>1, AccountRow, CountersFields DEF IInv, TypeOK
<1>3. PICK m \in Int, n \in Int :
         /\ m = cache.block_count - 1
         /\ n = cache.account_count - (IF info.head = Zero THEN 1 ELSE 0)
         /\ cache' = recount(cache, m, n)
  <2>1. \A i \in Int : i - 1 \in Int /\ i - 0 \in Int
    BY SMTT(30)
  <2> QED BY <1>0, <1>1, <2>1 DEF del_block, recount
<1>4. /\ cache'.block_count = m /\ cache'.account_count = n
      /\ cache'.cemented_count = cache.cemented_count /\ cache'.pruned_count = cache.pruned_count
  <2>1. cache \in Counters
    BY DEF IInv, TypeOK
  <2>2. /\ recount(cache, m, n).block_count = m /\ recount(cache, m, n).account_count = n
        /\ recount(cache, m, n).cemented_count = cache.cemented_count
        /\ recount(cache, m, n).pruned_count = cache.pruned_count
    BY <2>1, RecountedFields
  <2>3. cache' = recount(cache, m, n)
    BY <1>3
  <2> QED BY <2>2, <2>3
<1>5. /\ SumFunctionOnSet(counts', opened') =
           SumFunctionOnSet(counts, opened) - accounts[a].block_count + info.block_count
      /\ Cardinality(opened') =
           Cardinality(opened) - (IF accounts[a].head # Zero THEN 1 ELSE 0)
                               + (IF info.head # Zero THEN 1 ELSE 0)
  BY <1>1, <1>2, RowChange
<1>7. info.block_count = accounts[a].block_count - 1
  <2>1. Block[h].previous # Zero => info.block_count = accounts[a].block_count - 1
    BY DEF Undoes
  <2>2. Block[h].previous = Zero => info.block_count = 0 /\ accounts[a].block_count = 1
    <3>1. blocks[h].height = accounts[a].block_count
      BY <1>1, UniverseAssumption DEF IInv, Heads
    <3>2. ~(1 > 1)
      BY SMTT(30)
    <3>3. Block[h].previous = Zero => blocks[h].height = 1
      BY <1>1, <3>2 DEF IInv, Linked
    <3> QED BY <3>1, <3>3 DEF Undoes
  <2>3. 0 = 1 - 1
    BY SMTT(30)
  <2> QED BY <2>1, <2>2, <2>3
<1>8. cache'.block_count = SumFunctionOnSet(counts', opened')
  <2>1. \A i, j \in Int : i - 1 = i - j + (j - 1)
    BY SMTT(30)
  <2> QED BY <1>3, <1>4, <1>5, <1>0, <1>7, <2>1 DEF Tally
<1>9. cache'.block_count = Cardinality(stored') + Cardinality(pruned')
  <2>1. Cardinality(stored') = Cardinality(stored) - 1
    BY <1>1, <1>2, BlockSets, OneMore
  <2>2. Cardinality(stored) \in Int /\ Cardinality(pruned) \in Int
    BY BlockSets
  <2>3. \A i, j \in Int : (i + j) - 1 = (i - 1) + j
    BY SMTT(30)
  <2> QED BY <1>2, <1>3, <1>4, <2>1, <2>2, <2>3 DEF Tally
<1>10. cache'.account_count = Cardinality(opened')
  <2>1. accounts[a].head # Zero
    BY <1>1, UniverseAssumption
  <2>2. \A i \in Int : i - 1 = i - 1 + 0 /\ i - 0 = i - 1 + 1
    BY SMTT(30)
  <2>3. CASE info.head = Zero
    BY <1>3, <1>4, <1>5, <1>0, <2>1, <2>2, <2>3 DEF Tally
  <2>4. CASE info.head # Zero
    BY <1>3, <1>4, <1>5, <1>0, <2>1, <2>2, <2>4 DEF Tally
  <2> QED BY <2>3, <2>4
<1>11. confirmed' = confirmed
  BY <1>2 DEF confirmed
<1> QED BY <1>2, <1>4, <1>8, <1>9, <1>10, <1>11 DEF Tally

(* cement raises one confirmation height by one, to the block it counts. *)
LEMMA ResolveTally ==
    ASSUME IInv, IInv', Tally, CementResolve
    PROVE  Tally'
<1>1. PICK a \in Account, h \in Hash :
        /\ h = top /\ a = blocks[h].account /\ h \notin cemented
        /\ blocks[h].height = confirmation_height[a].height + 1
  BY ResolvesNext
<1>2. /\ stored' = stored /\ accepted' = accepted /\ cemented' = cemented \cup {top}
      /\ blocks' = blocks /\ accounts' = accounts /\ pending' = pending /\ pruned' = pruned
      /\ confirmation_height'[blocks[top].account] =
            [height |-> blocks[top].height, frontier |-> top]
      /\ \A b \in Account : b # blocks[top].account =>
            confirmation_height'[b] = confirmation_height[b]
  BY ResolveSets
<1>3. /\ cache'.cemented_count = cache.cemented_count + 1
      /\ cache'.pruned_count = cache.pruned_count
      /\ cache'.block_count = cache.block_count
      /\ cache'.account_count = cache.account_count
  <2>1. cache' = cement_count_up(cache)
    BY DEF CementResolve, cement_one, cement_count_up
  <2> QED BY <2>1, CementedFields DEF IInv, TypeOK
<1>4. Cardinality(cemented') = Cardinality(cemented) + 1
  BY <1>1, <1>2, BlockSets, OneMore
<1>5. /\ \A x \in Account : confirmed[x] \in Int
      /\ \A x \in Account : confirmed'[x] \in Int
      /\ \A x \in Account : x # a => confirmed[x] = confirmed'[x]
      /\ confirmed'[a] = confirmed[a] + 1
  <2>1. \A x \in Account : confirmed[x] = confirmation_height[x].height
                            /\ confirmed'[x] = confirmation_height'[x].height
    BY DEF confirmed
  <2>2. \A x \in Account : confirmation_height[x].height \in Int
    BY SMTT(30) DEF IInv, TypeOK
  <2>3. confirmation_height'[a].height = confirmation_height[a].height + 1
    <3>1. confirmation_height'[a] = [height |-> blocks[h].height, frontier |-> h]
      BY <1>1, <1>2
    <3>2. confirmation_height'[a].height = blocks[h].height
      BY <3>1, SMTT(30)
    <3> QED BY <1>1, <3>2
  <2>5. \A x \in Account : x # a => confirmation_height'[x].height = confirmation_height[x].height
    BY <1>1, <1>2
  <2>6. \A x \in Account : confirmation_height'[x].height \in Int
    BY SMTT(30) DEF IInv, TypeOK
  <2> QED BY <2>1, <2>2, <2>3, <2>5, <2>6
<1>6. SumFunctionOnSet(confirmed', Account) = SumFunctionOnSet(confirmed, Account) + 1
  <2>1. IsFiniteSet(Account)
    BY FiniteAssumption
  <2>2. SumFunctionOnSet(confirmed', Account) =
          SumFunctionOnSet(confirmed, Account) - (IF a \in Account THEN confirmed[a] ELSE 0)
                                               + (IF a \in Account THEN confirmed'[a] ELSE 0)
    BY <1>5, <2>1, SumRow, SMTT(30)
  <2>3. SumFunctionOnSet(confirmed, Account) \in Int
    BY <1>5, <2>1, SumType
  <2>4. \A i, j \in Int : i - j + (j + 1) = i + 1
    BY SMTT(30)
  <2>5. SumFunctionOnSet(confirmed', Account) =
          SumFunctionOnSet(confirmed, Account) - confirmed[a] + (confirmed[a] + 1)
    BY <1>5, <2>2
  <2> QED BY <1>5, <2>3, <2>4, <2>5
<1>7. opened' = opened /\ counts' = counts
  BY <1>2 DEF opened, account_exists, counts
<1> QED BY <1>2, <1>3, <1>4, <1>6, <1>7 DEF Tally

(* pruning_action moves a block from one table to the other and counts it. *)
LEMMA PruneTally ==
    ASSUME IInv, IInv', Tally, PruneStep
    PROVE  Tally'
<1>1. /\ prune_hash \in Hash /\ prune_hash \in stored /\ prune_hash # genesis
      /\ prune_hash \in cemented /\ blocks[prune_hash].account \in Account
      /\ blocks[prune_hash].height < confirmation_height[blocks[prune_hash].account].height
      /\ stored' = stored \ {prune_hash} /\ pruned' = pruned \cup {prune_hash}
      /\ accepted' = accepted /\ cemented' = cemented
      /\ \A x \in stored' : x # prune_hash /\ blocks'[x] = blocks[x]
      /\ accounts' = accounts /\ pending' = pending
      /\ confirmation_height' = confirmation_height
  BY PruneSets
<1>2. /\ cache'.pruned_count = cache.pruned_count + 1
      /\ cache'.cemented_count = cache.cemented_count
      /\ cache'.block_count = cache.block_count
      /\ cache'.account_count = cache.account_count
  <2>1. cache' = prune_count_up(cache)
    BY DEF PruneStep, prune_count_up
  <2> QED BY <2>1, PrunedFields DEF IInv, TypeOK
<1>3. prune_hash \notin pruned
  BY <1>1 DEF IInv, PrunedBelow
<1>4. Cardinality(stored') = Cardinality(stored) - 1 /\ Cardinality(pruned') = Cardinality(pruned) + 1
  <2>1. IsFiniteSet(stored) /\ IsFiniteSet(pruned)
    BY BlockSets
  <2>2. Cardinality(stored') = Cardinality(stored) - 1
    BY <1>1, <2>1, OneMore
  <2>3. Cardinality(pruned') = Cardinality(pruned) + 1
    BY <1>1, <1>3, <2>1, OneMore
  <2> QED BY <2>2, <2>3
<1>5. Cardinality(stored') + Cardinality(pruned') = Cardinality(stored) + Cardinality(pruned)
  <2>1. Cardinality(stored) \in Int /\ Cardinality(pruned) \in Int
    BY BlockSets
  <2>2. \A i, j \in Int : (i - 1) + (j + 1) = i + j
    BY SMTT(30)
  <2> QED BY <1>4, <2>1, <2>2
<1>6. opened' = opened /\ counts' = counts /\ confirmed' = confirmed
  BY <1>1 DEF opened, account_exists, counts, confirmed
<1> QED BY <1>1, <1>2, <1>4, <1>5, <1>6 DEF Tally

(* Whatever is done in between, the sums and the counters are kept. *)
LEMMA SumsStep ==
    ASSUME IInv, IInv', TInv, Delegates, Weighed, Supply, Tally, Step
    PROVE  Weighed' /\ Supply' /\ Tally'
<1>1. ASSUME UNCHANGED <<accounts, pending, rep_weights>>
      PROVE  Weighed' /\ Supply'
  <2>1. /\ balances' = balances /\ opened' = opened /\ delegating' = delegating
        /\ amounts' = amounts
    BY <1>1 DEF balances, opened, account_exists, delegating, amounts
  <2>2. Weighed'
    BY <1>1, <2>1 DEF Weighed, put_cache
  <2>3. Supply'
    BY <1>1, <2>1 DEF Supply
  <2> QED BY <2>2, <2>3
<1>2. CASE CementResolve
  <2>1. UNCHANGED <<accounts, pending, rep_weights>>
    BY <1>2 DEF CementResolve, tables
  <2> QED BY <1>1, <1>2, <2>1, ResolveTally
<1>3. CASE PruneStep
  <2>1. UNCHANGED <<accounts, pending, rep_weights>>
    BY <1>3 DEF PruneStep
  <2> QED BY <1>1, <1>3, <2>1, PruneTally
<1>4. CASE Quiet
  <2>1. UNCHANGED <<tables, confirmation_height, cache>>
    BY <1>4, QuietTables
  <2>2. UNCHANGED <<accounts, pending, rep_weights>>
    BY <2>1 DEF tables
  <2>3. /\ stored' = stored /\ pruned' = pruned /\ accounts' = accounts /\ blocks' = blocks
        /\ confirmation_height' = confirmation_height /\ cache' = cache
    BY <2>1, SameTables
  <2>4. /\ opened' = opened /\ counts' = counts /\ confirmed' = confirmed /\ cemented' = cemented
    BY <2>3 DEF opened, account_exists, counts, confirmed, cemented,
       cemented_block_exists_or_pruned, cemented_block_exists, block_exists
  <2>5. Tally'
    BY <2>3, <2>4 DEF Tally
  <2> QED BY <1>1, <2>2, <2>5
<1>5. ASSUME NEW h \in Hash, Process(h)
      PROVE  Weighed' /\ Supply' /\ Tally'
  <2>1. PICK g, a, sb, info : Appends(g, a, sb, info)
    BY <1>5 DEF Step
  <2> QED BY <2>1, AppendsWeighed, AppendsTally
<1>6. ASSUME UndoSend \/ UndoReceive \/ UndoChange \/ UndoState
      PROVE  Weighed' /\ Supply' /\ Tally'
  <2>1. PICK h, a, info : Undoes(h, a, info)
    BY <1>6 DEF Step
  <2> QED BY <2>1, UndoesWeighed, UndoesTally
<1> QED BY <1>2, <1>3, <1>4, <1>5, <1>6, StepShapes

(* The sums of the ledger that seed_genesis leaves.                        *)
LEMMA InitSums == Init => Delegates /\ Weighed /\ Supply /\ Tally
<1> SUFFICES ASSUME Init PROVE Delegates /\ Weighed /\ Supply /\ Tally
  OBVIOUS
<1>0. IInv
  BY InitIInv
<1>1. /\ stored = {genesis} /\ pruned = {} /\ pending = {}
  BY GenesisAssumption, SMTT(30) DEF Init, stored, block_exists, NoSideband
<1>2. PICK g \in Account, m \in Int : g = Block[genesis].account /\ m = Block[genesis].balance
  <2>1. Block[genesis].balance \in Int
    BY GenesisAssumption, BlockFields, SMTT(30)
  <2> QED BY <2>1, GenesisAssumption
<1>3. /\ genesis \in Hash /\ genesis # Zero /\ Block[genesis].representative = g
      /\ Block[genesis].type = "open"
  BY <1>2, GenesisAssumption, UniverseAssumption
<1>4. /\ accounts[g].head = genesis /\ accounts[g].representative = g /\ accounts[g].balance = m
      /\ accounts[g].block_count = 1
  BY <1>2 DEF Init
<1>5. \A a \in Account : a # g => accounts[a].head = Zero
  BY <1>2 DEF Init, NoAccount
<1>6. opened = {g}
  BY <1>3, <1>4, <1>5, SummedSets
<1>7. /\ rep_weights.committed = m /\ rep_weights.unused = 0
      /\ \A r \in Account0 : /\ rep_weights.store[r] = IF r = g THEN m ELSE 0
                             /\ rep_weights.cache[r] = put_cache(rep_weights.store[r])
  BY <1>2 DEF Init
<1>8. /\ cache.block_count = 1 /\ cache.cemented_count = 1 /\ cache.account_count = 1
      /\ cache.pruned_count = 0
  BY DEF Init
<1>9. /\ balances[g] = m /\ counts[g] = 1
  BY <1>0, <1>4, AccountRow
<1>10. Delegates
  <2>1. ASSUME NEW a \in Account, NEW r \in setters[accounts[a].head]
        PROVE  accounts[a].representative = Block[r].representative
    <3>1. CASE a = g
      <4>1. genesis \in Hash0 /\ r \in setters[genesis]
        BY <1>3, <1>4, <2>1, <3>1 DEF Hash0
      <4>2. r \in stored
        BY <4>1, SetterIff
      <4>3. r = genesis
        BY <1>1, <4>2
      <4> QED BY <1>3, <1>4, <3>1, <4>3
    <3>2. CASE a # g
      <4>1. Zero \in Hash0 /\ r \in setters[Zero]
        BY <1>5, <2>1, <3>2 DEF Hash0
      <4>2. Zero \in stored
        BY <4>1, SetterIff
      <4> QED BY <1>1, <1>3, <4>2
    <3> QED BY <3>1, <3>2
  <2> QED BY <2>1 DEF Delegates
<1>11. Weighed
  <2>1. ASSUME NEW r \in Account0
        PROVE  SumFunctionOnSet(balances, delegating[r]) = IF r = g THEN m ELSE 0
    <3>1. \A x : x \in delegating[r] <=> x = g /\ r = g
      BY <1>3, <1>4, <1>5 DEF delegating
    <3>2. CASE r = g
      <4>1. delegating[r] = {g}
        BY <3>1, <3>2
      <4>2. SumFunctionOnSet(balances, {g}) = m
        BY <1>9, SumOne
      <4> QED BY <3>2, <4>1, <4>2
    <3>3. CASE r # g
      <4>1. delegating[r] = {}
        BY <3>1, <3>3
      <4> QED BY <3>3, <4>1, SumEmpty
    <3> QED BY <3>2, <3>3
  <2> QED BY <1>7, <2>1 DEF Weighed
<1>12. Supply
  <2>1. SumFunctionOnSet(balances, opened) = m
    BY <1>6, <1>9, SumOne
  <2>2. SumFunctionOnSet(amounts, pending) = 0 /\ IsFiniteSet(pending)
    BY <1>1, SumEmpty, FS_EmptySet
  <2>3. m + 0 = m
    BY SMTT(30)
  <2> QED BY <1>2, <1>7, <2>1, <2>2, <2>3 DEF Supply
<1>13. Tally
  <2>1. SumFunctionOnSet(counts, opened) = 1
    <3>1. 1 \in Int
      BY SMTT(30)
    <3> QED BY <1>6, <1>9, <3>1, SumOne
  <2>2. /\ Cardinality(stored) = 1 /\ Cardinality(opened) = 1 /\ Cardinality(pruned) = 0
    BY <1>1, <1>6, FS_Singleton, FS_EmptySet
  <2>3. cemented = {genesis}
    <3>1. genesis \in cemented
      BY <1>0 DEF IInv, PrunedBelow
    <3>2. cemented \subseteq stored \cup pruned
      BY DEF cemented, cemented_block_exists_or_pruned, cemented_block_exists, stored,
         block_exists
    <3> QED BY <1>1, <3>1, <3>2
  <2>4. SumFunctionOnSet(confirmed, Account) = 1
    <3>1. confirmed[g] = 1 /\ \A a \in Account : a # g => confirmed[a] = 0
      BY <1>2 DEF Init, confirmed, NotConfirmed
    <3>2. 1 \in Int
      BY SMTT(30)
    <3> QED BY <3>1, <3>2, FiniteAssumption, SumSingle
  <2>5. Cardinality(cemented) = 1
    BY <2>3, FS_Singleton
  <2>6. 1 = 1 + 0
    BY SMTT(30)
  <2> QED BY <1>8, <2>1, <2>2, <2>4, <2>5, <2>6 DEF Tally
<1> QED BY <1>10, <1>11, <1>12, <1>13

(* The weights are what the accounts delegate. *)
LEMMA SumsWeights ==
    ASSUME IInv, Weighed
    PROVE  WeightsMatchDelegations
<1>1. ASSUME NEW r \in Account0
      PROVE  /\ rep_weights.store[r] = SumFunction([a \in delegators(r) |-> accounts[a].balance])
             /\ rep_weights.cache[r] = put_cache(rep_weights.store[r])
  <2>1. PICK D : D = delegators(r) /\ D = delegating[r] /\ IsFiniteSet(D) /\ D \subseteq Account
    BY SummedSets
  <2>2. PICK f : f = [a \in D |-> accounts[a].balance]
    OBVIOUS
  <2>3. f = [a \in D |-> balances[a]]
    <3>1. \A a \in D : balances[a] = accounts[a].balance
      BY <2>1, AccountRow
    <3> QED BY <2>2, <3>1
  <2>4. SumFunction(f) = SumFunctionOnSet(balances, D)
    BY <2>1, <2>3, SumDomain
  <2> QED BY <2>1, <2>2, <2>4 DEF Weighed
<1> QED BY <1>1 DEF WeightsMatchDelegations

(* The sums of ledger::initialize, over the domains of its tables. *)
LEMMA RestartSums ==
    ASSUME IInv, IsFiniteSet(pending)
    PROVE  /\ SumFunction([a \in opened |-> accounts[a].balance]) =
                SumFunctionOnSet(balances, opened)
           /\ SumFunction([p \in pending |-> p.amount]) = SumFunctionOnSet(amounts, pending)
           /\ SumFunction([a \in opened |-> accounts[a].block_count]) =
                SumFunctionOnSet(counts, opened)
           /\ SumFunction([a \in Account |-> confirmation_height[a].height]) =
                SumFunctionOnSet(confirmed, Account)
<1>1. opened \subseteq Account /\ IsFiniteSet(opened) /\ IsFiniteSet(Account)
  BY SummedSets, FiniteAssumption
<1>2. SumFunction([a \in opened |-> accounts[a].balance]) = SumFunctionOnSet(balances, opened)
  <2>1. PICK f : f = [a \in opened |-> accounts[a].balance]
    OBVIOUS
  <2>2. \A a \in opened : balances[a] = accounts[a].balance
    BY <1>1, AccountRow
  <2>3. f = [a \in opened |-> balances[a]]
    BY <2>1, <2>2
  <2>4. SumFunction(f) = SumFunctionOnSet(balances, opened)
    BY <1>1, <2>3, SumDomain
  <2> QED BY <2>1, <2>4
<1>3. SumFunction([a \in opened |-> accounts[a].block_count]) = SumFunctionOnSet(counts, opened)
  <2>1. PICK f : f = [a \in opened |-> accounts[a].block_count]
    OBVIOUS
  <2>2. \A a \in opened : counts[a] = accounts[a].block_count
    BY <1>1, AccountRow
  <2>3. f = [a \in opened |-> counts[a]]
    BY <2>1, <2>2
  <2>4. SumFunction(f) = SumFunctionOnSet(counts, opened)
    BY <1>1, <2>3, SumDomain
  <2> QED BY <2>1, <2>4
<1>4. SumFunction([p \in pending |-> p.amount]) = SumFunctionOnSet(amounts, pending)
  <2>1. PICK f : f = [p \in pending |-> p.amount]
    OBVIOUS
  <2>2. \A p \in pending : amounts[p] = p.amount
    BY DEF amounts, IInv, TypeOK
  <2>3. f = [p \in pending |-> amounts[p]]
    BY <2>1, <2>2
  <2>4. SumFunction(f) = SumFunctionOnSet(amounts, pending)
    BY <2>3, SumDomain
  <2> QED BY <2>1, <2>4
<1>5. SumFunction([a \in Account |-> confirmation_height[a].height]) =
        SumFunctionOnSet(confirmed, Account)
  <2>1. PICK f : f = [a \in Account |-> confirmation_height[a].height]
    OBVIOUS
  <2>2. \A a \in Account : confirmed[a] = confirmation_height[a].height
    BY DEF confirmed
  <2>3. f = [a \in Account |-> confirmed[a]]
    BY <2>1, <2>2
  <2>4. SumFunction(f) = SumFunctionOnSet(confirmed, Account)
    BY <1>1, <2>3, SumDomain
  <2> QED BY <2>1, <2>4
<1> QED BY <1>2, <1>3, <1>4, <1>5

(* The release_asserts of ledger::initialize hold for the sums. *)
LEMMA SumsRestart ==
    ASSUME IInv, TInv, Supply, Tally
    PROVE  RestartPasses
<1>1. /\ SumFunction([a \in opened |-> accounts[a].balance]) =
           SumFunctionOnSet(balances, opened)
      /\ SumFunction([p \in pending |-> p.amount]) = SumFunctionOnSet(amounts, pending)
      /\ SumFunction([a \in opened |-> accounts[a].block_count]) =
           SumFunctionOnSet(counts, opened)
      /\ SumFunction([a \in Account |-> confirmation_height[a].height]) =
           SumFunctionOnSet(confirmed, Account)
  BY RestartSums DEF Supply
<1>2. \A a \in opened : accounts[a].balance >= 0
  <2>1. \A a \in opened : a \in Account /\ accounts[a].head # Zero
    BY SummedSets
  <2>2. \A a \in opened : /\ accounts[a].head \in stored
                          /\ blocks[accounts[a].head].balance = accounts[a].balance
    BY <2>1 DEF IInv, Heads
  <2>3. \A h \in stored : blocks[h].balance >= 0
    BY DEF TInv, Amounts
  <2> QED BY <2>2, <2>3
<1>3. \A p \in pending : p.amount >= 0
  BY DEF TInv, Amounts
<1> QED BY <1>1, <1>2, <1>3 DEF RestartPasses, Supply, Tally

(* Every weight, total and counter that the ledger keeps beside its tables
   stays what the tables add up to. *)
THEOREM SumsInvariance == Spec => [](IInv /\ TInv /\ Delegates /\ Weighed /\ Supply /\ Tally)
<1> DEFINE SInv == IInv /\ TInv /\ Delegates /\ Weighed /\ Supply /\ Tally
<1>1. Init => SInv
  BY InitIInv, InitTInv, InitSums
<1>2. SInv /\ [Next]_vars => SInv'
  <2> SUFFICES ASSUME IInv, TInv, Delegates, Weighed, Supply, Tally, [Next]_vars PROVE SInv'
    OBVIOUS
  <2>1. IInv'
    BY StepOf, Inductive
  <2>2. TInv'
    BY StepOf, SuccessorsStep, AdjacentStep, DestinationsStep, AmountsStep DEF TInv
  <2>3. Delegates'
    BY StepOf, DelegatesStep DEF TInv
  <2>4. Weighed' /\ Supply' /\ Tally'
    BY <2>1, StepOf, SumsStep
  <2> QED BY <2>1, <2>2, <2>3, <2>4
<1> QED BY <1>1, <1>2, PTL DEF Spec

(* rep_weights::add, sub, move and move_add_sub, called by process and by
   rollback, keep the weight of every representative equal to the balances
   that delegate to it, and the cache to the weights above the minimum. *)
THEOREM WeightsMatch == Spec => []WeightsMatchDelegations
BY SumsWeights, SumsInvariance, PTL

(* Whenever the process stops, ledger::initialize finds tables whose sums
   pass its release_asserts and counts what the counters held: no step of
   process, rollback, cement or pruning_action creates or loses an amount,
   a block or an account. *)
THEOREM RestartAlwaysPasses == Spec => []RestartPasses
BY SumsRestart, SumsInvariance, PTL
=============================================================================
