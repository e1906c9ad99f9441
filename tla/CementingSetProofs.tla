-------------------------- MODULE CementingSetProofs --------------------------
(***************************************************************************)
(* What the cementing set promises, for any blocks, batch sizes and limits *)
(* of its queues.                                                          *)
(*                                                                         *)
(* The position of the thread says whether it holds the write lock and     *)
(* whether a batch is in work; each entry of the batch is then still to    *)
(* come, cemented, deferred or requeued.  What has been cemented and what  *)
(* has been announced or is about to be are the same blocks, in an order   *)
(* that only grows at its end.                                             *)
(***************************************************************************)
EXTENDS CementingSet, SequenceTheorems, WellFoundedInduction, TLAPS

USE ZenonT(30)

(* Where the thread holds the write lock, and where it has a batch in work. *)
Writing == {"top", "check", "call", "cement", "resolved", "commit"}
InBatch == {"begin", "top", "refresh", "check", "notify_maybe", "renew", "call",
            "cement", "resolved", "cement_refresh"}
Cementing == {"cement", "resolved", "cement_refresh"}
Place == InBatch \cup {"idle", "waiting", "commit", "notify", "clear"}

Distinct(s) == \A i, j \in 1 .. Len(s) : s[i] = s[j] => i = j

CSTypeOK ==
    /\ accepted \subseteq Hash /\ cemented \subseteq accepted /\ committed \subseteq cemented
    /\ set \in Seq(Hash) /\ deferred \in Seq(Hash) /\ current \subseteq Hash
    /\ batch \in Seq(Hash) /\ results \in Seq(Hash) /\ notified \in Seq(Hash)
    /\ workers \in Seq(Seq(Hash)) /\ processed \in Seq(Hash)
    /\ added \in Nat /\ pc \in Place /\ writer \in BOOLEAN

(* What the position of the thread says. *)
Positions ==
    /\ writer <=> pc \in Writing
    /\ pc \in InBatch => batch # <<>>
    /\ pc \in {"commit", "notify", "clear"} => batch = <<>>
    /\ pc \in {"idle", "waiting"} => current = {}
    /\ pc \in {"renew", "call"} => results = <<>>

(* Other threads read what is cemented unless the transaction is open. *)
Committed == ~writer => committed = cemented

(* An entry of the batch in work is still to come, cemented, or kept. *)
Tracked ==
    \A h \in current :
        Contains(batch, h) \/ h \in cemented \/ Contains(deferred, h) \/ Contains(set, h)

(* A call of ledger::cement starts with few results and adds at most MaxBlocks. *)
Limited ==
    /\ Len(results) < 2 * MaxBlocks
    /\ pc \in Cementing => added <= MaxBlocks /\ Len(results) < MaxBlocks + added

-----------------------------------------------------------------------------
(* The containers.                                                         *)

(* push_back adds an element, unless it is there. *)
LEMMA PushBack ==
    ASSUME NEW s \in Seq(Hash), NEW h \in Hash
    PROVE  /\ push_back(s, h) \in Seq(Hash)
           /\ \A x : Contains(push_back(s, h), x) <=> Contains(s, x) \/ x = h
           /\ Distinct(s) => Distinct(push_back(s, h))
<1>1. CASE Contains(s, h)
  BY <1>1 DEF push_back
<1>2. CASE ~Contains(s, h)
  <2>1. PICK t : t = Append(s, h)
    OBVIOUS
  <2>2. PICK n \in Nat : n = Len(s)
    BY SMTT(30)
  <2>3. /\ t \in Seq(Hash) /\ Len(t) = n + 1 /\ t[n + 1] = h
        /\ \A i \in 1 .. n : t[i] = s[i]
        /\ \A i \in 1 .. n + 1 : i \in 1 .. n \/ i = n + 1
        /\ 1 .. n \subseteq 1 .. n + 1 /\ n + 1 \in 1 .. n + 1
    BY <2>1, <2>2, SMTT(30)
  <2>4. \A x : Contains(t, x) <=> Contains(s, x) \/ x = h
    BY <2>2, <2>3 DEF Contains
  <2>5. Distinct(s) => Distinct(t)
    BY <1>2, <2>2, <2>3 DEF Contains, Distinct
  <2>6. push_back(s, h) = t
    BY <1>2, <2>1 DEF push_back
  <2> QED BY <2>3, <2>4, <2>5, <2>6
<1> QED BY <1>1, <1>2

(* Appending, and taking the first element. *)
LEMMA AppendHas ==
    ASSUME NEW s \in Seq(Hash), NEW h \in Hash
    PROVE  /\ Append(s, h) \in Seq(Hash) /\ Len(Append(s, h)) = Len(s) + 1
           /\ \A x : Contains(Append(s, h), x) <=> Contains(s, x) \/ x = h
<1>1. PICK t : t = Append(s, h)
  OBVIOUS
<1>2. PICK n \in Nat : n = Len(s)
  BY SMTT(30)
<1>3. /\ t \in Seq(Hash) /\ Len(t) = n + 1 /\ t[n + 1] = h
      /\ \A i \in 1 .. n : t[i] = s[i]
      /\ \A i \in 1 .. n + 1 : i \in 1 .. n \/ i = n + 1
      /\ 1 .. n \subseteq 1 .. n + 1 /\ n + 1 \in 1 .. n + 1
  BY <1>1, <1>2, SMTT(30)
<1>4. \A x : Contains(t, x) <=> Contains(s, x) \/ x = h
  BY <1>2, <1>3 DEF Contains
<1> QED BY <1>1, <1>2, <1>3, <1>4

(* Taking the first element off a sequence. *)
LEMMA TailHas ==
    ASSUME NEW s \in Seq(Hash), s # <<>>
    PROVE  /\ Tail(s) \in Seq(Hash) /\ Head(s) \in Hash /\ Len(Tail(s)) = Len(s) - 1
           /\ \A x : Contains(s, x) <=> x = Head(s) \/ Contains(Tail(s), x)
<1>1. PICK t, h : t = Tail(s) /\ h = Head(s)
  OBVIOUS
<1>2. PICK n \in Nat : n = Len(s)
  BY SMTT(30)
<1>3. /\ t \in Seq(Hash) /\ Len(t) = n - 1 /\ s[1] = h /\ h \in Hash /\ 1 \in 1 .. n
      /\ \A i \in 1 .. n - 1 : t[i] = s[i + 1] /\ i + 1 \in 1 .. n
      /\ \A i \in 1 .. n : i = 1 \/ (i - 1 \in 1 .. n - 1 /\ t[i - 1] = s[i])
  BY <1>1, <1>2, SMTT(30)
<1>4. \A x : Contains(s, x) <=> x = h \/ Contains(t, x)
  BY <1>2, <1>3 DEF Contains
<1> QED BY <1>1, <1>2, <1>3, <1>4

(* Cutting a sequence in two, as next_batch does. *)
LEMMA SplitsHas ==
    ASSUME NEW s \in Seq(Hash), NEW n \in 0 .. Len(s)
    PROVE  /\ SubSeq(s, 1, n) \in Seq(Hash) /\ SubSeq(s, n + 1, Len(s)) \in Seq(Hash)
           /\ Len(SubSeq(s, 1, n)) = n
           /\ \A x : Contains(s, x) <=> \/ Contains(SubSeq(s, 1, n), x)
                                        \/ Contains(SubSeq(s, n + 1, Len(s)), x)
           /\ Distinct(s) => Distinct(SubSeq(s, n + 1, Len(s)))
<1>0. PICK t, u : t = SubSeq(s, 1, n) /\ u = SubSeq(s, n + 1, Len(s))
  OBVIOUS
<1>1. PICK m \in Nat : m = Len(s)
  BY SMTT(30)
<1>2. /\ t \in Seq(Hash) /\ u \in Seq(Hash) /\ Len(t) = n /\ Len(u) = m - n
      /\ \A i \in 1 .. n : t[i] = s[i] /\ i \in 1 .. m
      /\ \A i \in 1 .. m - n : u[i] = s[n + i] /\ n + i \in 1 .. m
  BY <1>0, <1>1, SMTT(30)
<1>3. \A i \in 1 .. m : i \in 1 .. n \/ (i - n \in 1 .. m - n /\ n + (i - n) = i)
  BY <1>1, SMTT(30)
<1>4. \A x : Contains(s, x) <=> Contains(t, x) \/ Contains(u, x)
  <2>1. ASSUME NEW x, Contains(s, x) PROVE Contains(t, x) \/ Contains(u, x)
    <3>1. PICK i \in 1 .. m : s[i] = x
      BY <1>1, <2>1 DEF Contains
    <3>2. CASE i \in 1 .. n
      BY <1>2, <3>1, <3>2 DEF Contains
    <3>3. CASE i - n \in 1 .. m - n /\ n + (i - n) = i
      BY <1>2, <3>1, <3>3 DEF Contains
    <3> QED BY <1>3, <3>1, <3>2, <3>3
  <2>2. ASSUME NEW x, Contains(t, x) \/ Contains(u, x) PROVE Contains(s, x)
    BY <1>1, <1>2, <2>2 DEF Contains
  <2> QED BY <2>1, <2>2
<1>5. ASSUME Distinct(s) PROVE Distinct(u)
  <2>1. ASSUME NEW i \in 1 .. m - n, NEW j \in 1 .. m - n, u[i] = u[j] PROVE i = j
    <3>1. n + i \in 1 .. m /\ n + j \in 1 .. m /\ s[n + i] = s[n + j]
      BY <1>2, <2>1
    <3>2. n + i = n + j
      BY <1>1, <1>5, <3>1 DEF Distinct
    <3> QED BY <3>2, SMTT(30)
  <2> QED BY <1>2, <2>1 DEF Distinct
<1> QED BY <1>0, <1>2, <1>4, <1>5

(* An element taken out of a container. *)
LEMMA RemoveHas ==
    ASSUME NEW s \in Seq(Hash), NEW i \in 1 .. Len(s), NEW t, t = RemoveAt(s, i), Distinct(s)
    PROVE  /\ t \in Seq(Hash) /\ Distinct(t)
           /\ \A x : Contains(t, x) <=> Contains(s, x) /\ x # s[i]
<1>1. PICK m \in Nat : m = Len(s)
  BY SMTT(30)
<1>2. t = SubSeq(s, 1, i - 1) \o SubSeq(s, i + 1, m)
  BY <1>1 DEF RemoveAt
<1>3. /\ t \in Seq(Hash) /\ Len(t) = m - 1
      /\ \A j \in 1 .. m - 1 : t[j] = IF j < i THEN s[j] ELSE s[j + 1]
  <2>1. PICK a, b : a = SubSeq(s, 1, i - 1) /\ b = SubSeq(s, i + 1, m)
    OBVIOUS
  <2>2. a \in Seq(Hash) /\ Len(a) = i - 1 /\ \A j \in 1 .. i - 1 : a[j] = s[j]
    BY <1>1, <2>1, SMTT(30)
  <2>3. b \in Seq(Hash) /\ Len(b) = m - i /\ \A j \in 1 .. m - i : b[j] = s[i + j]
    BY <1>1, <2>1, SMTT(30)
  <2>4. t = a \o b
    BY <1>2, <2>1
  <2>5. t \in Seq(Hash) /\ Len(t) = m - 1
    <3>1. t \in Seq(Hash) /\ Len(t) = Len(a) + Len(b)
      BY <2>2, <2>3, <2>4, ConcatProperties
    <3> QED BY <1>1, <2>2, <2>3, <3>1, SMTT(30)
  <2>6. ASSUME NEW j \in 1 .. m - 1
        PROVE  t[j] = IF j < i THEN s[j] ELSE s[j + 1]
    <3>1. CASE j < i
      <4>1. j \in 1 .. i - 1
        BY <3>1, <1>1, SMTT(30)
      <4>2. t[j] = a[j]
        BY <1>1, <2>2, <2>3, <2>4, <4>1, SMTT(30)
      <4> QED BY <2>2, <3>1, <4>1, <4>2
    <3>2. CASE ~(j < i)
      <4>1. j - (i - 1) \in 1 .. m - i /\ i + (j - (i - 1)) = j + 1
        BY <1>1, <3>2, SMTT(30)
      <4>2. t[j] = b[j - (i - 1)]
        BY <1>1, <2>2, <2>3, <2>4, <3>2, SMTT(30)
      <4> QED BY <2>3, <3>2, <4>1, <4>2
    <3> QED BY <3>1, <3>2
  <2> QED BY <2>5, <2>6
<1> DEFINE at(j) == IF j < i THEN j ELSE j + 1
<1>4. /\ \A j \in 1 .. m - 1 : at(j) \in 1 .. m /\ at(j) # i /\ t[j] = s[at(j)]
      /\ \A j, k \in 1 .. m - 1 : at(j) = at(k) => j = k
      /\ \A k \in 1 .. m : k # i => \E j \in 1 .. m - 1 : at(j) = k
  <2>1. \A j \in 1 .. m - 1 : at(j) \in 1 .. m /\ at(j) # i /\ t[j] = s[at(j)]
    BY <1>1, <1>3, SMTT(30)
  <2>2. \A j, k \in 1 .. m - 1 : at(j) = at(k) => j = k
    BY <1>1, SMTT(30)
  <2>3. ASSUME NEW k \in 1 .. m, k # i PROVE \E j \in 1 .. m - 1 : at(j) = k
    <3>1. CASE k < i
      <4>1. k \in 1 .. m - 1 /\ at(k) = k
        BY <1>1, <3>1, SMTT(30)
      <4> QED BY <4>1
    <3>2. CASE k > i
      <4>1. k - 1 \in 1 .. m - 1 /\ at(k - 1) = k
        BY <1>1, <3>2, SMTT(30)
      <4> QED BY <4>1
    <3>3. k < i \/ k > i
      BY <2>3, SMTT(30)
    <3> QED BY <3>1, <3>2, <3>3
  <2> QED BY <2>1, <2>2, <2>3
<1> HIDE DEF at
<1>5. i \in 1 .. m
  BY <1>1
<1>6. \A j, k \in 1 .. m : s[j] = s[k] => j = k
  BY <1>1 DEF Distinct
<1>7. Distinct(t)
  <2>1. ASSUME NEW j \in 1 .. m - 1, NEW k \in 1 .. m - 1, t[j] = t[k] PROVE j = k
    <3>1. s[at(j)] = s[at(k)] /\ at(j) \in 1 .. m /\ at(k) \in 1 .. m
      BY <1>4, <2>1
    <3>2. at(j) = at(k)
      BY <1>6, <3>1
    <3> QED BY <1>4, <3>2
  <2> QED BY <1>3, <2>1 DEF Distinct
<1>8. ASSUME NEW x PROVE Contains(t, x) <=> Contains(s, x) /\ x # s[i]
  <2>1. ASSUME Contains(t, x) PROVE Contains(s, x) /\ x # s[i]
    <3>1. PICK j \in 1 .. m - 1 : t[j] = x
      BY <1>3, <2>1 DEF Contains
    <3>2. s[at(j)] = x /\ at(j) \in 1 .. m /\ at(j) # i
      BY <1>4, <3>1
    <3> QED BY <1>1, <1>5, <1>6, <3>2 DEF Contains
  <2>2. ASSUME Contains(s, x), x # s[i] PROVE Contains(t, x)
    <3>1. PICK k \in 1 .. m : s[k] = x
      BY <1>1, <2>2 DEF Contains
    <3>2. PICK j \in 1 .. m - 1 : at(j) = k
      BY <1>4, <2>2, <3>1
    <3>3. t[j] = x
      BY <1>4, <3>1, <3>2
    <3> QED BY <1>3, <3>3 DEF Contains
  <2> QED BY <2>1, <2>2
<1> QED BY <1>3, <1>7, <1>8

(* The elements of a sequence, as a set. *)
LEMMA RangeHas ==
    ASSUME NEW s \in Seq(Hash)
    PROVE  \A x : x \in Range(s) <=> Contains(s, x)
<1>1. DOMAIN s = 1 .. Len(s)
  BY SMTT(30)
<1> QED BY <1>1 DEF Range, Contains

-----------------------------------------------------------------------------
(* The batches queued for the notification thread, one after the other.    *)

(* A set of numbers has a least one. *)
LEMMA Least ==
    ASSUME NEW T, T \subseteq Nat, T # {}
    PROVE  \E m \in T : \A n \in T : m <= n
<1>1. PICK m \in T : \A n \in T : ~(<<n, m>> \in OpToRel(<, Nat))
  BY NatLessThanWellFounded, WFMin
<1>2. \A n \in T : ~(n < m)
  BY <1>1 DEF OpToRel
<1>3. \A i, j \in Nat : ~(i < j) => j <= i
  BY SMTT(30)
<1> QED BY <1>2, <1>3

(* The running concatenations of the first n batches. *)
Recurs(f, s, n) == f = [i \in 1 .. n |-> IF i = 1 THEN s[i] ELSE f[i - 1] \o s[i]]

(* What FlattenSeq is defined as. *)
LEMMA FlattenIsChoice ==
    ASSUME NEW s, Len(s) # 0
    PROVE  FlattenSeq(s) = (CHOOSE f : Recurs(f, s, Len(s)))[Len(s)]
BY DEF FlattenSeq, Recurs

(* There are such concatenations. *)
LEMMA RecursExists ==
    ASSUME NEW s, NEW n \in Nat
    PROVE  \E f : Recurs(f, s, n)
<1> DEFINE T == {m \in Nat : ~\E f : Recurs(f, s, m)}
<1> SUFFICES ASSUME T # {} PROVE FALSE
  OBVIOUS
<1>1. PICK m \in T : \A k \in T : m <= k
  <2>1. T \subseteq Nat
    OBVIOUS
  <2> HIDE DEF T
  <2> QED BY <2>1, Least
<1>2. m \in Nat /\ ~\E f : Recurs(f, s, m)
  BY <1>1
<1>3. CASE m = 0
  <2>1. 1 .. m = {}
    BY <1>3, SMTT(30)
  <2>2. Recurs([i \in {} |-> i], s, m)
    BY <2>1 DEF Recurs
  <2> QED BY <1>2, <2>2
<1>4. CASE m # 0
  <2>1. PICK k \in Nat : m = k + 1 /\ ~(m <= k)
    BY <1>2, <1>4, SMTT(30)
  <2>2. PICK f : Recurs(f, s, k)
    BY <1>1, <2>1
  <2> DEFINE g == [i \in 1 .. m |-> IF i = 1 THEN s[i] ELSE f[i - 1] \o s[i]]
  <2>3. ASSUME NEW i \in 1 .. m, i # 1 PROVE g[i - 1] = f[i - 1]
    <3>1. i - 1 \in 1 .. m /\ i - 1 \in 1 .. k
      BY <2>1, <2>3, SMTT(30)
    <3> QED BY <2>2, <3>1 DEF Recurs
  <2>4. g = [i \in 1 .. m |-> IF i = 1 THEN s[i] ELSE g[i - 1] \o s[i]]
    <3>1. \A i \in 1 .. m : (IF i = 1 THEN s[i] ELSE f[i - 1] \o s[i])
                            = (IF i = 1 THEN s[i] ELSE g[i - 1] \o s[i])
      BY <2>3
    <3> QED BY <3>1
  <2>5. Recurs(g, s, m)
    <3> HIDE DEF g
    <3> QED BY <2>4 DEF Recurs
  <2> QED BY <1>2, <2>5
<1> QED BY <1>3, <1>4

(* FlattenSeq by its steps. *)
Running(f, s) ==
    /\ \A i \in 1 .. Len(s) : f[i] \in Seq(Hash)
    /\ f[1] = s[1]
    /\ \A i \in 1 .. Len(s) : i # 1 => f[i] = f[i - 1] \o s[i]

(* Joining a sequence of sequences is the last of those steps. *)
LEMMA FlattenRuns ==
    ASSUME NEW s \in Seq(Seq(Hash)), s # <<>>
    PROVE  \E f : Running(f, s) /\ FlattenSeq(s) = f[Len(s)]
<1>1. PICK n \in Nat : n = Len(s) /\ n # 0 /\ 1 \in 1 .. n
  BY SMTT(30)
<1>2. PICK f : f = CHOOSE g : Recurs(g, s, n)
  OBVIOUS
<1>3. Recurs(f, s, n)
  BY <1>2, RecursExists
<1>4. FlattenSeq(s) = f[n]
  BY <1>1, <1>2, FlattenIsChoice
<1>5. f[1] = s[1] /\ \A i \in 1 .. n : i # 1 => f[i] = f[i - 1] \o s[i]
  BY <1>1, <1>3 DEF Recurs
<1>6. \A i \in 1 .. n : s[i] \in Seq(Hash)
  BY <1>1, SMTT(30)
<1>7. \A i \in 1 .. n : f[i] \in Seq(Hash)
  <2> DEFINE T == {i \in 1 .. n : f[i] \notin Seq(Hash)}
  <2> SUFFICES ASSUME T # {} PROVE FALSE
    OBVIOUS
  <2>1. PICK m \in T : \A k \in T : m <= k
    <3>1. T \subseteq Nat
      BY SMTT(30)
    <3> HIDE DEF T
    <3> QED BY <3>1, Least
  <2>2. m \in 1 .. n /\ f[m] \notin Seq(Hash)
    BY <2>1
  <2>3. m # 1
    BY <1>5, <1>6, <2>2
  <2>4. m - 1 \in 1 .. n /\ ~(m <= m - 1)
    BY <2>2, <2>3, SMTT(30)
  <2>5. f[m - 1] \in Seq(Hash)
    BY <2>1, <2>4
  <2>6. f[m] = f[m - 1] \o s[m] /\ s[m] \in Seq(Hash)
    BY <1>5, <1>6, <2>2, <2>3
  <2> QED BY <2>2, <2>5, <2>6, ConcatProperties
<1> QED BY <1>1, <1>4, <1>5, <1>7 DEF Running

(* Batches may be joined in any order. *)
LEMMA Associates ==
    ASSUME NEW a \in Seq(Hash), NEW b \in Seq(Hash), NEW c \in Seq(Hash)
    PROVE  (a \o b) \o c = a \o (b \o c)
BY ConcatAssociative, SMTT(30)

(* Nothing is queued. *)
LEMMA FlattenNone ==
    FlattenSeq(<<>>) = <<>> /\ <<>> \in Seq(Hash)
<1>1. Len(<<>>) = 0 /\ <<>> \in Seq(Hash)
  BY SMTT(30)
<1> QED BY <1>1 DEF FlattenSeq

(* The batches hold hashes. *)
LEMMA FlattenType ==
    ASSUME NEW s \in Seq(Seq(Hash))
    PROVE  FlattenSeq(s) \in Seq(Hash)
<1>1. CASE s = <<>>
  BY <1>1, FlattenNone
<1>2. CASE s # <<>>
  <2>1. PICK f : Running(f, s) /\ FlattenSeq(s) = f[Len(s)]
    BY <1>2, FlattenRuns
  <2>2. Len(s) \in 1 .. Len(s)
    BY <1>2, SMTT(30)
  <2> QED BY <2>1, <2>2 DEF Running
<1> QED BY <1>1, <1>2

(* A batch posted comes last. *)
LEMMA FlattenAppend ==
    ASSUME NEW s \in Seq(Seq(Hash)), NEW r \in Seq(Hash)
    PROVE  FlattenSeq(Append(s, r)) = FlattenSeq(s) \o r
<1>1. PICK n \in Nat : n = Len(s)
  BY SMTT(30)
<1>2. PICK t \in Seq(Seq(Hash)) : t = Append(s, r)
  BY AppendProperties
<1>3. /\ t # <<>> /\ Len(t) = n + 1 /\ t[n + 1] = r /\ n + 1 \in 1 .. n + 1
      /\ \A i \in 1 .. n : t[i] = s[i] /\ i \in 1 .. n + 1
  BY <1>1, <1>2, SMTT(30)
<1>4. PICK g : Running(g, t) /\ FlattenSeq(t) = g[n + 1]
  BY <1>3, FlattenRuns
<1>5. CASE s = <<>>
  <2>1. n + 1 = 1
    BY <1>1, <1>5, SMTT(30)
  <2>2. g[n + 1] = r
    BY <1>3, <1>4, <2>1 DEF Running
  <2>3. <<>> \o r = r
    BY ConcatEmptySeq
  <2> QED BY <1>2, <1>4, <1>5, <2>2, <2>3, FlattenNone
<1>6. CASE s # <<>>
  <2>1. PICK f : Running(f, s) /\ FlattenSeq(s) = f[n]
    BY <1>1, <1>6, FlattenRuns
  <2>2. n \in 1 .. n /\ n + 1 # 1 /\ (n + 1) - 1 = n
    BY <1>1, <1>6, SMTT(30)
  <2>3. \A i \in 1 .. n : g[i] = f[i]
    <3> DEFINE T == {i \in 1 .. n : g[i] # f[i]}
    <3> SUFFICES ASSUME T # {} PROVE FALSE
      OBVIOUS
    <3>1. PICK m \in T : \A k \in T : m <= k
      <4>1. T \subseteq Nat
        BY SMTT(30)
      <4> HIDE DEF T
      <4> QED BY <4>1, Least
    <3>2. m \in 1 .. n /\ g[m] # f[m]
      BY <3>1
    <3>3. m # 1
      BY <1>3, <1>4, <2>1, <3>2 DEF Running
    <3>4. m - 1 \in 1 .. n /\ ~(m <= m - 1)
      BY <3>2, <3>3, SMTT(30)
    <3>5. g[m - 1] = f[m - 1]
      BY <3>1, <3>4
    <3>6. f[m] = f[m - 1] \o s[m]
      BY <1>1, <2>1, <3>2, <3>3 DEF Running
    <3>7. g[m] = g[m - 1] \o s[m]
      BY <1>3, <1>4, <3>2, <3>3 DEF Running
    <3> QED BY <3>2, <3>5, <3>6, <3>7
  <2>4. g[n + 1] = g[n] \o r
    BY <1>3, <1>4, <2>2 DEF Running
  <2> QED BY <1>2, <1>4, <2>1, <2>2, <2>3, <2>4
<1> QED BY <1>5, <1>6

(* The batch taken comes first. *)
LEMMA FlattenTail ==
    ASSUME NEW s \in Seq(Seq(Hash)), s # <<>>
    PROVE  /\ Head(s) \in Seq(Hash) /\ Tail(s) \in Seq(Seq(Hash))
           /\ FlattenSeq(s) = Head(s) \o FlattenSeq(Tail(s))
<1>1. PICK n \in Nat : n = Len(s) /\ n \in 1 .. n /\ 1 \in 1 .. n
  BY SMTT(30)
<1>2. PICK t \in Seq(Seq(Hash)), r \in Seq(Hash) : t = Tail(s) /\ r = Head(s)
  BY HeadTailProperties
<1>3. /\ Len(t) = n - 1 /\ r = s[1]
      /\ \A i \in 1 .. n - 1 : t[i] = s[i + 1] /\ i + 1 \in 1 .. n /\ i + 1 # 1
  BY <1>1, <1>2, SMTT(30)
<1>4. PICK f : Running(f, s) /\ FlattenSeq(s) = f[n]
  BY <1>1, FlattenRuns
<1>5. f[1] = r
  BY <1>3, <1>4 DEF Running
<1>6. CASE t = <<>>
  <2>1. n = 1
    <3>1. Len(t) = 0
      BY <1>6, SMTT(30)
    <3> QED BY <1>3, <3>1, SMTT(30)
  <2>2. r \o <<>> = r
    BY ConcatEmptySeq
  <2> QED BY <1>2, <1>4, <1>5, <1>6, <2>1, <2>2, FlattenNone
<1>7. CASE t # <<>>
  <2>1. PICK g : Running(g, t) /\ FlattenSeq(t) = g[n - 1]
    BY <1>3, <1>7, FlattenRuns
  <2>2. n - 1 \in 1 .. n - 1 /\ (n - 1) + 1 = n /\ 1 \in 1 .. n - 1 /\ (1 + 1) - 1 = 1
    BY <1>1, <1>3, <1>7, SMTT(30)
  <2>3. \A i \in 1 .. n - 1 : f[i + 1] = f[(i + 1) - 1] \o t[i]
    BY <1>1, <1>3, <1>4 DEF Running
  <2>4. \A i \in 1 .. n - 1 : f[i + 1] = r \o g[i]
    <3> DEFINE T == {i \in 1 .. n - 1 : f[i + 1] # r \o g[i]}
    <3> SUFFICES ASSUME T # {} PROVE FALSE
      OBVIOUS
    <3>1. PICK m \in T : \A k \in T : m <= k
      <4>1. T \subseteq Nat
        BY SMTT(30)
      <4> HIDE DEF T
      <4> QED BY <4>1, Least
    <3>2. m \in 1 .. n - 1 /\ f[m + 1] # r \o g[m]
      BY <3>1
    <3>3. m # 1
      <4>1. g[1] = t[1]
        BY <2>1 DEF Running
      <4>2. f[1 + 1] = f[(1 + 1) - 1] \o t[1]
        BY <2>2, <2>3
      <4>3. f[1 + 1] = r \o t[1]
        BY <1>5, <2>2, <4>2
      <4> QED BY <3>2, <4>1, <4>3
    <3>4. m - 1 \in 1 .. n - 1 /\ ~(m <= m - 1) /\ (m - 1) + 1 = (m + 1) - 1
      BY <3>2, <3>3, SMTT(30)
    <3>5. f[(m - 1) + 1] = r \o g[m - 1]
      BY <3>1, <3>4
    <3>6. f[m + 1] = f[(m + 1) - 1] \o t[m]
      BY <2>3, <3>2
    <3>7. g[m] = g[m - 1] \o t[m] /\ g[m - 1] \in Seq(Hash)
      BY <1>3, <2>1, <3>2, <3>3, <3>4 DEF Running
    <3>8. t[m] \in Seq(Hash)
      BY <1>3, <3>2, SMTT(30)
    <3>9. (r \o g[m - 1]) \o t[m] = r \o (g[m - 1] \o t[m])
      <4>1. PICK a \in Seq(Hash), b \in Seq(Hash) : a = g[m - 1] /\ b = t[m]
        BY <3>7, <3>8
      <4>2. (r \o a) \o b = r \o (a \o b)
        BY Associates
      <4> QED BY <4>1, <4>2
    <3> QED BY <3>2, <3>4, <3>5, <3>6, <3>7, <3>9
  <2> QED BY <1>2, <1>4, <2>1, <2>2, <2>4
<1> QED BY <1>2, <1>6, <1>7

-----------------------------------------------------------------------------
(* The thread, step by step.                                               *)

(* Where it takes the write lock, gives it up, and posts results. *)
Acquiring == {<<"begin", "top">>, <<"refresh", "check">>, <<"renew", "call">>,
              <<"cement_refresh", "cement">>, <<"cement_refresh", "top">>}
Releasing == {<<"top", "refresh">>, <<"top", "notify_maybe">>, <<"check", "notify_maybe">>,
              <<"resolved", "cement_refresh">>, <<"commit", "notify">>}
Posting == {<<"notify_maybe", "renew">>, <<"notify", "clear">>}

(* What these transitions have in common. *)
LEMMA Transitions ==
    /\ \A p \in Acquiring : /\ p[1] \in InBatch /\ p[2] \in InBatch /\ p[2] \in Writing
                            /\ p[2] \in {"renew", "call"} => p[1] \in {"renew", "call"}
                            /\ p[2] \in Cementing => p[1] \in Cementing
    /\ \A p \in Releasing : /\ p[1] \in Place /\ p[2] \in Place \ Writing
                            /\ p[2] \in InBatch => p[1] \in InBatch
                            /\ p[2] \in {"commit", "notify", "clear"} => p[1] = "commit"
                            /\ p[2] \notin {"idle", "waiting", "renew", "call"}
                            /\ p[2] \in Cementing => p[1] \in Cementing
    /\ \A p \in Posting : /\ p[1] \in Place \ Writing /\ p[2] \in Place \ Writing
                          /\ p[2] \in InBatch => p[1] \in InBatch
                          /\ p[2] \in {"commit", "notify", "clear"} => p[1] = "notify"
                          /\ p[2] \notin {"idle", "waiting"}
                          /\ p[2] \notin Cementing
BY SMTT(30) DEF Acquiring, Releasing, Posting, InBatch, Writing, Cementing, Place

(* The steps of the thread, with those of one kind together. *)
LEMMA ThreadSteps ==
    ASSUME Thread
    PROVE  \/ Loop \/ Wake \/ CementMissing \/ CementCall \/ CementOne \/ CementReturn \/ Clear
           \/ \E p \in Acquiring : Acquire(p[1], p[2])
           \/ \E p \in Releasing : Commit(p[1], p[2])
           \/ \E p \in Posting : Notify(p[1], p[2])
<1> DEFINE A == \E p \in Acquiring : Acquire(p[1], p[2])
           R == \E p \in Releasing : Commit(p[1], p[2])
           P == \E p \in Posting : Notify(p[1], p[2])
<1>1. /\ Acquire("begin", "top") => A
      /\ Acquire("refresh", "check") => A
      /\ Acquire("renew", "call") => A
      /\ Acquire("cement_refresh", "cement") => A
      /\ Acquire("cement_refresh", "top") => A
  <2>1. \A a, b : <<a, b>> \in Acquiring /\ Acquire(a, b) => A
    <3> SUFFICES ASSUME NEW a, NEW b, <<a, b>> \in Acquiring, Acquire(a, b) PROVE A
      OBVIOUS
    <3>1. <<a, b>>[1] = a /\ <<a, b>>[2] = b
      OBVIOUS
    <3> QED BY <3>1
  <2> QED BY <2>1 DEF Acquiring
<1>2. /\ Commit("top", "refresh") => R
      /\ Commit("top", "notify_maybe") => R
      /\ Commit("check", "notify_maybe") => R
      /\ Commit("resolved", "cement_refresh") => R
      /\ Commit("commit", "notify") => R
  <2>1. \A a, b : <<a, b>> \in Releasing /\ Commit(a, b) => R
    <3> SUFFICES ASSUME NEW a, NEW b, <<a, b>> \in Releasing, Commit(a, b) PROVE R
      OBVIOUS
    <3>1. <<a, b>>[1] = a /\ <<a, b>>[2] = b
      OBVIOUS
    <3> QED BY <3>1
  <2> QED BY <2>1 DEF Releasing
<1>3. /\ Notify("notify_maybe", "renew") => P
      /\ Notify("notify", "clear") => P
  <2>1. \A a, b : <<a, b>> \in Posting /\ Notify(a, b) => P
    <3> SUFFICES ASSUME NEW a, NEW b, <<a, b>> \in Posting, Notify(a, b) PROVE P
      OBVIOUS
    <3>1. <<a, b>>[1] = a /\ <<a, b>>[2] = b
      OBVIOUS
    <3> QED BY <3>1
  <2> QED BY <2>1 DEF Posting
<1> HIDE DEF A, R, P
<1>4. BeginWrite => A
  BY <1>1 DEF BeginWrite
<1>5. Refresh => A \/ R
  BY <1>1, <1>2 DEF Refresh
<1>6. NotifyIntermediate => A \/ R \/ P
  BY <1>1, <1>2, <1>3 DEF NotifyIntermediate
<1>7. CementRefresh => A \/ R
  <2>1. Head(batch) \in accepted => (IF Head(batch) \in accepted THEN "cement" ELSE "top") = "cement"
    OBVIOUS
  <2>2. Head(batch) \notin accepted => (IF Head(batch) \in accepted THEN "cement" ELSE "top") = "top"
    OBVIOUS
  <2> QED BY <1>1, <1>2, <2>1, <2>2 DEF CementRefresh
<1>8. EndWrite => R
  BY <1>2 DEF EndWrite
<1>9. NotifyBatch => P
  BY <1>3 DEF NotifyBatch
<1>10. \/ Loop \/ Wake \/ CementMissing \/ CementCall \/ CementOne \/ CementReturn \/ Clear
       \/ A \/ R \/ P
  BY <1>4, <1>5, <1>6, <1>7, <1>8, <1>9 DEF Thread
<1> QED BY <1>10 DEF A, R, P

(* What run takes from the set and what cleanup gives up. *)
LEMMA LoopTakes ==
    ASSUME CSTypeOK, Loop
    PROVE  /\ set' \in Seq(Hash) /\ batch' \in Seq(Hash) /\ deferred' \in Seq(Hash)
           /\ \A x : Contains(set, x) <=> Contains(batch', x) \/ Contains(set', x)
           /\ set = <<>> <=> batch' = <<>>
           /\ \A x : x \in current' <=> Contains(batch', x)
           /\ \A x : Contains(deferred', x) => Contains(deferred, x)
           /\ \A x \in requested' : x \in requested /\ (Contains(deferred, x) => Contains(deferred', x))
           /\ Distinct(deferred) => Distinct(deferred')
<1>1. PICK q \in Seq(Hash), d \in Seq(Hash) : q = set /\ d = deferred
  BY DEF CSTypeOK
<1>2. PICK m \in Nat, l \in Nat : m = Len(q) /\ l = Len(d)
  BY SMTT(30)
<1>3. PICK n \in 0 .. m : /\ batch' = SubSeq(q, 1, n) /\ set' = SubSeq(q, n + 1, m)
                          /\ m # 0 => n # 0
  <2>1. PICK n : n = IF m < BatchSize THEN m ELSE BatchSize
    OBVIOUS
  <2>2. n \in 0 .. m /\ (m # 0 => n # 0)
    BY <2>1, CementingSetAssumption, SMTT(30)
  <2>3. batch' = SubSeq(q, 1, n) /\ set' = SubSeq(q, n + 1, m)
    BY <1>1, <1>2, <2>1 DEF Loop, next_batch
  <2> QED BY <2>2, <2>3
<1>4. PICK k \in 0 .. l : /\ deferred' = SubSeq(d, k + 1, l)
                          /\ requested' = requested \ Range(SubSeq(d, 1, k))
  BY <1>1, <1>2 DEF Loop, cleanup
<1>5. PICK b, s : b = batch' /\ s = set' /\ b = SubSeq(q, 1, n) /\ s = SubSeq(q, n + 1, Len(q))
  BY <1>2, <1>3
<1>6. /\ b \in Seq(Hash) /\ s \in Seq(Hash) /\ Len(b) = n
      /\ \A x : Contains(q, x) <=> Contains(b, x) \/ Contains(s, x)
  <2>1. n \in 0 .. Len(q)
    BY <1>2
  <2>2. /\ SubSeq(q, 1, n) \in Seq(Hash) /\ SubSeq(q, n + 1, Len(q)) \in Seq(Hash)
        /\ Len(SubSeq(q, 1, n)) = n
        /\ \A x : Contains(q, x) <=> \/ Contains(SubSeq(q, 1, n), x)
                                     \/ Contains(SubSeq(q, n + 1, Len(q)), x)
    BY <2>1, SplitsHas
  <2> QED BY <1>5, <2>2
<1>7. PICK e, f : e = SubSeq(d, 1, k) /\ f = deferred' /\ f = SubSeq(d, k + 1, Len(d))
  BY <1>2, <1>4
<1>8. /\ e \in Seq(Hash) /\ f \in Seq(Hash)
      /\ \A x : Contains(d, x) <=> Contains(e, x) \/ Contains(f, x)
      /\ Distinct(d) => Distinct(f)
  <2>1. k \in 0 .. Len(d)
    BY <1>2
  <2>2. /\ SubSeq(d, 1, k) \in Seq(Hash) /\ SubSeq(d, k + 1, Len(d)) \in Seq(Hash)
        /\ \A x : Contains(d, x) <=> \/ Contains(SubSeq(d, 1, k), x)
                                     \/ Contains(SubSeq(d, k + 1, Len(d)), x)
        /\ Distinct(d) => Distinct(SubSeq(d, k + 1, Len(d)))
    BY <2>1, SplitsHas
  <2> QED BY <1>7, <2>2
<1>9. q = <<>> <=> b = <<>>
  <2>1. (q = <<>> <=> m = 0) /\ (b = <<>> <=> n = 0)
    BY <1>2, <1>6, SMTT(30)
  <2>2. m = 0 => n = 0
    BY <1>3, SMTT(30)
  <2> QED BY <1>3, <2>1, <2>2
<1>10. \A x : x \in current' <=> Contains(b, x)
  <2>1. current' = Range(b)
    BY <1>5 DEF Loop
  <2> QED BY <1>6, <2>1, RangeHas
<1>11. \A x \in requested' : x \in requested /\ (Contains(d, x) => Contains(f, x))
  <2>1. requested' = requested \ Range(e)
    BY <1>4, <1>7
  <2> QED BY <1>8, <2>1, RangeHas
<1> QED BY <1>1, <1>5, <1>6, <1>7, <1>8, <1>9, <1>10, <1>11

Base == CSTypeOK /\ Positions /\ Committed /\ DependencyClosed

(* The lattice under the cementing set. *)
LEMMA LatticeStep ==
    ASSUME CSTypeOK, DependencyClosed, NEW h, h \in Hash,
           Accept(h) \/ Discard(h) \/ Cement(h) \/ UNCHANGED vars
    PROVE  /\ accepted' \subseteq Hash /\ cemented' \subseteq accepted' /\ cemented \subseteq cemented'
           /\ DependencyClosed'
<1>1. CASE Accept(h)
  BY <1>1, LatticeAssumption DEF Accept, CSTypeOK, DependencyClosed
<1>2. CASE Discard(h)
  BY <1>2, LatticeAssumption DEF Discard, CSTypeOK, DependencyClosed
<1>3. CASE Cement(h)
  BY <1>3, LatticeAssumption DEF Cement, CSTypeOK, DependencyClosed
<1>4. CASE UNCHANGED vars
  BY <1>4 DEF vars, CSTypeOK, DependencyClosed
<1> QED BY <1>1, <1>2, <1>3, <1>4

(* The steps of the other threads keep types and positions. *)
LEMMA BaseOthers ==
    ASSUME Base, NEW h \in Hash,
           Add(h) \/ ProcessBlock(h) \/ RollbackBlock(h) \/ Requeue \/ NotifyCemented,
           Distinct(deferred)
    PROVE  Base'
<1> USE DEF Base
<1>1. CASE Add(h)
  <2>1. set' \in Seq(Hash)
    BY <1>1, PushBack DEF Add, CSTypeOK
  <2> QED BY <1>1, <2>1 DEF Add, CSTypeOK, Positions, Committed, DependencyClosed,
                           ledgerVars, thread, events
<1>2. CASE ProcessBlock(h)
  <2>1. /\ accepted' \subseteq Hash /\ cemented' \subseteq accepted' /\ DependencyClosed'
        /\ cemented' = cemented
    <3>1. Accept(h) \/ UNCHANGED vars
      BY <1>2 DEF ProcessBlock
    <3> QED BY <3>1, LatticeStep DEF Accept, vars
  <2>2. processed' \in Seq(Hash)
    BY <1>2, AppendHas DEF ProcessBlock, CSTypeOK
  <2> QED BY <1>2, <2>1, <2>2 DEF ProcessBlock, CSTypeOK, Positions, Committed, queues, thread, events
<1>3. CASE RollbackBlock(h)
  <2>1. /\ accepted' \subseteq Hash /\ cemented' \subseteq accepted' /\ DependencyClosed'
        /\ cemented' = cemented
    BY <1>3, LatticeStep DEF RollbackBlock, Discard
  <2> QED BY <1>3, <2>1 DEF RollbackBlock, CSTypeOK, Positions, Committed, queues, thread, events
<1>4. CASE Requeue
  <2>1. processed' \in Seq(Hash) /\ Head(processed) \in Hash
    BY <1>4, TailHas DEF Requeue, CSTypeOK
  <2>2. set' \in Seq(Hash) /\ deferred' \in Seq(Hash)
    <3>1. CASE UNCHANGED <<set, deferred>>
      BY <3>1 DEF CSTypeOK
    <3>2. CASE \E i \in 1 .. Len(deferred) :
                  deferred' = RemoveAt(deferred, i) /\ set' = push_back(set, Head(processed))
      BY <2>1, <3>2, PushBack, RemoveHas DEF CSTypeOK
    <3> QED BY <1>4, <3>1, <3>2 DEF Requeue
  <2> QED BY <1>4, <2>1, <2>2 DEF Requeue, CSTypeOK, Positions, Committed, DependencyClosed,
                                 ledgerVars, thread, events
<1>5. CASE NotifyCemented
  <2>1. workers' \in Seq(Seq(Hash)) /\ notified' \in Seq(Hash)
    <3>1. workers \in Seq(Seq(Hash)) /\ workers # <<>> /\ notified \in Seq(Hash)
      BY <1>5 DEF NotifyCemented, CSTypeOK
    <3>2. Tail(workers) \in Seq(Seq(Hash)) /\ Head(workers) \in Seq(Hash)
      BY <3>1, HeadTailProperties
    <3>3. notified \o Head(workers) \in Seq(Hash)
      BY <3>1, <3>2, ConcatProperties
    <3> QED BY <1>5, <3>2, <3>3 DEF NotifyCemented
  <2> QED BY <1>5, <2>1 DEF NotifyCemented, CSTypeOK, Positions, Committed, DependencyClosed,
                           ledgerVars, queues, thread
<1> QED BY <1>1, <1>2, <1>3, <1>4, <1>5

(* Taking and releasing the lock, and posting results. *)
LEMMA BaseLock ==
    ASSUME Base,
           \/ \E p \in Acquiring : Acquire(p[1], p[2])
           \/ \E p \in Releasing : Commit(p[1], p[2])
           \/ \E p \in Posting : Notify(p[1], p[2])
    PROVE  Base'
<1> USE DEF Base
<1>1. ASSUME NEW p \in Acquiring, Acquire(p[1], p[2]) PROVE Base'
  <2>1. pc = p[1] /\ pc' = p[2] /\ writer' = TRUE /\ ~writer
    BY <1>1 DEF Acquire
  <2>2. /\ p[1] \in InBatch /\ p[2] \in InBatch /\ p[2] \in Writing
        /\ p[2] \in {"renew", "call"} => p[1] \in {"renew", "call"}
    BY Transitions
  <2>3. /\ p[2] \in Place /\ p[2] \notin {"commit", "notify", "clear"}
        /\ p[2] \notin {"idle", "waiting"}
    BY <2>2 DEF Place, InBatch
  <2>4. CSTypeOK' /\ DependencyClosed'
    BY <1>1, <2>1, <2>3 DEF Acquire, CSTypeOK, DependencyClosed, ledgerVars, queues, events
  <2>5. Positions'
    BY <1>1, <2>1, <2>2, <2>3 DEF Acquire, Positions, queues
  <2> QED BY <2>1, <2>4, <2>5 DEF Committed
<1>2. ASSUME NEW p \in Releasing, Commit(p[1], p[2]) PROVE Base'
  <2>1. pc = p[1] /\ pc' = p[2] /\ writer' = FALSE
    BY <1>2 DEF Commit
  <2>2. /\ p[1] \in Place /\ p[2] \in Place /\ p[2] \notin Writing
        /\ p[2] \in InBatch => p[1] \in InBatch
        /\ p[2] \in {"commit", "notify", "clear"} => p[1] = "commit"
        /\ p[2] \notin {"idle", "waiting", "renew", "call"}
    BY Transitions
  <2>3. CSTypeOK' /\ DependencyClosed'
    BY <1>2, <2>1, <2>2 DEF Commit, CSTypeOK, DependencyClosed, vars, queues, events
  <2>4. Positions'
    BY <1>2, <2>1, <2>2 DEF Commit, Positions, queues
  <2>5. Committed'
    BY <1>2 DEF Commit, Committed, vars
  <2> QED BY <2>3, <2>4, <2>5
<1>3. ASSUME NEW p \in Posting, Notify(p[1], p[2]) PROVE Base'
  <2>1. pc = p[1] /\ pc' = p[2] /\ results' = <<>>
    BY <1>3 DEF Notify
  <2>2. /\ p[1] \in Place \ Writing /\ p[2] \in Place /\ p[2] \notin Writing
        /\ p[2] \in InBatch => p[1] \in InBatch
        /\ p[2] \in {"commit", "notify", "clear"} => p[1] = "notify"
        /\ p[2] \notin {"idle", "waiting"}
    BY Transitions
  <2>3. workers' \in Seq(Seq(Hash)) /\ results' \in Seq(Hash)
    <3>1. workers \in Seq(Seq(Hash)) /\ results \in Seq(Hash)
      BY DEF CSTypeOK
    <3>2. Append(workers, results) \in Seq(Seq(Hash))
      BY <3>1, AppendProperties
    <3> QED BY <1>3, <2>1, <3>2, FlattenNone DEF Notify
  <2>4. CSTypeOK' /\ DependencyClosed'
    BY <1>3, <2>1, <2>2, <2>3 DEF Notify, CSTypeOK, DependencyClosed, ledgerVars, queues
  <2>5. Positions'
    BY <1>3, <2>1, <2>2 DEF Notify, Positions, queues
  <2>6. Committed'
    BY <1>3 DEF Notify, Committed, ledgerVars
  <2> QED BY <2>4, <2>5, <2>6
<1> QED BY <1>1, <1>2, <1>3

(* The next entry of the batch. *)
LEMMA Entries ==
    ASSUME CSTypeOK, batch # <<>>, NextEntry
    PROVE  /\ batch' \in Seq(Hash) /\ Head(batch) \in Hash
           /\ \A x : Contains(batch, x) <=> x = Head(batch) \/ Contains(batch', x)
           /\ \/ pc' = "commit" /\ batch' = <<>>
              \/ pc' = "top" /\ batch' # <<>>
<1>1. PICK b \in Seq(Hash) : b = batch
  BY DEF CSTypeOK
<1>2. /\ Tail(b) \in Seq(Hash) /\ Head(b) \in Hash
      /\ \A x : Contains(b, x) <=> x = Head(b) \/ Contains(Tail(b), x)
  BY <1>1, TailHas
<1>3. Len(b) = 1 <=> Tail(b) = <<>>
  <2>0. Len(b) \in Nat
    BY SMTT(30)
  <2>1. PICK t \in Seq(Hash), n \in Nat : t = Tail(b) /\ n = Len(b)
    BY <1>2, <2>0
  <2>2. Len(t) = n - 1
    BY <1>1, <2>1, TailHas
  <2>3. n = 1 <=> t = <<>>
    BY <2>2, SMTT(30)
  <2> QED BY <2>1, <2>3
<1> QED BY <1>1, <1>2, <1>3 DEF NextEntry

(* The remaining steps of the thread. *)
LEMMA BaseThread ==
    ASSUME Base, Loop \/ Wake \/ CementMissing \/ CementCall \/ CementOne \/ CementReturn \/ Clear
    PROVE  Base'
<1> USE DEF Base
<1>1. CASE Loop
  <2>1. /\ pc = "idle" /\ pc' = IF set = <<>> THEN "waiting" ELSE "begin"
        /\ UNCHANGED <<ledgerVars, writer, added, results, events, processed>>
    BY <1>1 DEF Loop
  <2>2. /\ set' \in Seq(Hash) /\ batch' \in Seq(Hash) /\ deferred' \in Seq(Hash)
        /\ set = <<>> <=> batch' = <<>>
        /\ \A x : x \in current' <=> Contains(batch', x)
        /\ \A x : Contains(set, x) <=> Contains(batch', x) \/ Contains(set', x)
    BY <1>1, LoopTakes
  <2>3. set = <<>> => current' = {}
    <3>1. \A x : ~Contains(<<>>, x)
      BY SMTT(30) DEF Contains
    <3> QED BY <2>2, <3>1
  <2>4. current' \subseteq Hash
    <3>1. \A x : Contains(batch', x) => x \in Hash
      BY <2>2, SMTT(30) DEF Contains
    <3> QED BY <2>2, <3>1
  <2>5. CSTypeOK' /\ DependencyClosed'
    BY <2>1, <2>2, <2>4 DEF CSTypeOK, DependencyClosed, ledgerVars, events, Place, InBatch
  <2>6. Positions'
    BY <2>1, <2>2, <2>3 DEF Positions, Writing, InBatch
  <2> QED BY <2>1, <2>5, <2>6 DEF Committed, ledgerVars
<1>2. CASE Wake
  BY <1>2 DEF Wake, CSTypeOK, Positions, Committed, DependencyClosed, ledgerVars, queues, events,
              Place, InBatch, Writing
<1>3. CASE CementMissing
  <2>1. pc \in {"top", "check", "call"} /\ writer /\ NextEntry
    BY <1>3 DEF CementMissing
  <2>2. batch # <<>>
    BY <2>1 DEF Positions, InBatch
  <2>3. /\ batch' \in Seq(Hash) /\ Head(batch) \in Hash
        /\ \/ pc' = "commit" /\ batch' = <<>>
           \/ pc' = "top" /\ batch' # <<>>
    BY <2>1, <2>2, Entries
  <2>4. deferred' \in Seq(Hash)
    BY <1>3, <2>3, PushBack DEF CementMissing, CSTypeOK
  <2>5. CSTypeOK' /\ DependencyClosed' /\ Committed'
    BY <1>3, <2>3, <2>4 DEF CementMissing, CSTypeOK, DependencyClosed, Committed,
                            ledgerVars, events, Place, InBatch
  <2>6. Positions'
    BY <1>3, <2>1, <2>3 DEF CementMissing, Positions, Writing, InBatch
  <2> QED BY <2>5, <2>6
<1>4. CASE CementCall
  BY <1>4 DEF CementCall, CSTypeOK, Positions, Committed, DependencyClosed, ledgerVars, queues,
              events, Place, InBatch, Writing
<1>5. CASE CementOne
  <2>1. PICK x : Cement(x) /\ results' = Append(results, x)
    BY <1>5 DEF CementOne
  <2>2. x \in Hash
    BY <2>1 DEF Cement, CSTypeOK
  <2>3. /\ accepted' \subseteq Hash /\ cemented' \subseteq accepted' /\ cemented \subseteq cemented'
        /\ DependencyClosed'
    BY <2>1, <2>2, LatticeStep
  <2>4. results' \in Seq(Hash)
    BY <2>1, <2>2, AppendHas DEF CSTypeOK
  <2>5. added' \in Nat
    BY <1>5, SMTT(30) DEF CementOne, CSTypeOK
  <2>6. CSTypeOK'
    BY <1>5, <2>3, <2>4, <2>5 DEF CementOne, CSTypeOK, queues, events, Place, InBatch
  <2>7. Positions' /\ Committed'
    BY <1>5 DEF CementOne, Positions, Committed, queues, Writing, InBatch
  <2> QED BY <2>3, <2>6, <2>7
<1>6. CASE CementReturn
  <2>1. pc \in {"cement", "resolved"} /\ writer /\ batch # <<>>
    BY <1>6 DEF CementReturn, Positions, InBatch
  <2>2. /\ batch' \in Seq(Hash)
        /\ \/ pc' = "commit" /\ batch' = <<>>
           \/ pc' = "top" /\ batch' # <<>>
    <3>1. CASE NextEntry
      BY <2>1, <3>1, Entries
    <3>2. CASE pc' = "top" /\ UNCHANGED batch
      BY <2>1, <3>2 DEF CSTypeOK
    <3> QED BY <1>6, <3>1, <3>2 DEF CementReturn
  <2>3. CSTypeOK' /\ DependencyClosed' /\ Committed'
    BY <1>6, <2>2 DEF CementReturn, CSTypeOK, DependencyClosed, Committed,
                      ledgerVars, queues, events, Place, InBatch
  <2>4. Positions'
    BY <1>6, <2>1, <2>2 DEF CementReturn, Positions, queues, Writing, InBatch
  <2> QED BY <2>3, <2>4
<1>7. CASE Clear
  BY <1>7 DEF Clear, CSTypeOK, Positions, Committed, DependencyClosed, ledgerVars, events,
              Place, InBatch, Writing
<1> QED BY <1>1, <1>2, <1>3, <1>4, <1>5, <1>6, <1>7

-----------------------------------------------------------------------------
(* The steps of the component, by what they leave alone.                   *)

(* Steps that touch none of the containers that a hash may be in. *)
Aside == UNCHANGED <<set, deferred, current, batch, cemented, committed, requested, accepted, processed>>

(* The actions of the component, one by one. *)
LEMMA Steps ==
    ASSUME [CSNext]_allVars
    PROVE  \/ \E h \in Hash : Add(h) \/ ProcessBlock(h) \/ RollbackBlock(h)
           \/ Requeue \/ NotifyCemented
           \/ Loop \/ Wake \/ CementMissing \/ CementCall \/ CementOne \/ CementReturn \/ Clear
           \/ \E p \in Acquiring : Acquire(p[1], p[2])
           \/ \E p \in Releasing : Commit(p[1], p[2])
           \/ \E p \in Posting : Notify(p[1], p[2])
           \/ UNCHANGED allVars
BY ThreadSteps DEF CSNext

(* Taking the lock, waking up, calling cement and notifying are such steps. *)
LEMMA StepsAside ==
    ASSUME \/ NotifyCemented \/ Wake \/ CementCall \/ UNCHANGED allVars
           \/ \E p \in Acquiring : Acquire(p[1], p[2])
           \/ \E p \in Posting : Notify(p[1], p[2])
    PROVE  Aside
<1>1. ASSUME NEW p, Acquire(p[1], p[2]) PROVE Aside
  BY <1>1 DEF Acquire, Aside, ledgerVars, queues
<1>2. ASSUME NEW p, Notify(p[1], p[2]) PROVE Aside
  BY <1>2 DEF Notify, Aside, ledgerVars, queues
<1>3. CASE NotifyCemented
  BY <1>3 DEF NotifyCemented, Aside, ledgerVars, queues, thread
<1>4. CASE Wake
  BY <1>4 DEF Wake, Aside, ledgerVars, queues
<1>5. CASE CementCall
  BY <1>5 DEF CementCall, Aside, ledgerVars, queues
<1>6. CASE UNCHANGED allVars
  BY <1>6 DEF allVars, Aside, ledgerVars, queues, thread
<1> QED BY <1>1, <1>2, <1>3, <1>4, <1>5, <1>6

(* Types, positions and what is committed. *)
LEMMA BaseStep ==
    ASSUME Base, Distinct(deferred), [CSNext]_allVars
    PROVE  Base'
<1>1. CASE UNCHANGED allVars
  BY <1>1 DEF Base, CSTypeOK, Positions, Committed, DependencyClosed,
              allVars, ledgerVars, queues, thread, events
<1>2. genesis \in Hash
  BY LatticeAssumption
<1> QED BY <1>1, <1>2, Steps, BaseOthers, BaseLock, BaseThread

(* What is deferred. *)
Deferral == Distinct(deferred) /\ DeferredIsRequeued

(* A hash is deferred only while its block is missing, and the arrival of the
   block is an event that requeues it. *)
LEMMA DeferralStep ==
    ASSUME Base, Deferral, [CSNext]_allVars
    PROVE  Deferral'
<1> USE DEF Deferral
<1>1. CASE UNCHANGED <<accepted, deferred, processed>>
  BY <1>1 DEF Distinct, DeferredIsRequeued
<1>2. ASSUME NEW h \in Hash, ProcessBlock(h) PROVE Deferral'
  <2>1. deferred' = deferred /\ processed' = Append(processed, h)
    BY <1>2 DEF ProcessBlock, queues
  <2>2. accepted' \subseteq accepted \cup {h}
    BY <1>2 DEF ProcessBlock, Accept, vars
  <2>3. \A x : Contains(processed', x) <=> Contains(processed, x) \/ x = h
    BY <2>1, AppendHas DEF Base, CSTypeOK
  <2> QED BY <2>1, <2>2, <2>3 DEF Distinct, DeferredIsRequeued
<1>3. ASSUME NEW h \in Hash, RollbackBlock(h) PROVE Deferral'
  BY <1>3 DEF RollbackBlock, Discard, Distinct, DeferredIsRequeued, queues
<1>4. CASE Requeue
  <2>1. PICK d \in Seq(Hash), q \in Seq(Hash) : d = deferred /\ q = processed /\ q # <<>>
    BY <1>4 DEF Requeue, Base, CSTypeOK
  <2>2. PICK h : h = Head(q)
    OBVIOUS
  <2>3. \A x : Contains(q, x) <=> x = h \/ Contains(processed', x)
    BY <1>4, <2>1, <2>2, TailHas DEF Requeue
  <2>4. accepted' = accepted
    BY <1>4 DEF Requeue, ledgerVars
  <2>5. Distinct(deferred') /\ \A x : Contains(deferred', x) <=> Contains(d, x) /\ x # h
    <3>1. CASE ~Contains(d, h) /\ deferred' = d
      BY <2>1, <3>1
    <3>2. CASE \E i \in 1 .. Len(d) : d[i] = h /\ deferred' = RemoveAt(d, i)
      <4>1. PICK i, t : i \in 1 .. Len(d) /\ d[i] = h /\ t = deferred' /\ t = RemoveAt(d, i)
        BY <3>2
      <4>2. Distinct(t) /\ \A x : Contains(t, x) <=> Contains(d, x) /\ x # d[i]
        BY <2>1, <4>1, RemoveHas
      <4> QED BY <4>1, <4>2
    <3> QED BY <1>4, <2>1, <2>2, <3>1, <3>2 DEF Requeue
  <2> QED BY <2>1, <2>3, <2>4, <2>5 DEF Distinct, DeferredIsRequeued
<1>5. CASE Loop
  <2>1. Distinct(deferred') /\ \A x : Contains(deferred', x) => Contains(deferred, x)
    BY <1>5, LoopTakes DEF Base
  <2>2. accepted' = accepted /\ processed' = processed
    BY <1>5 DEF Loop, ledgerVars
  <2> QED BY <2>1, <2>2 DEF Distinct, DeferredIsRequeued
<1>6. CASE CementMissing
  <2>1. /\ deferred' = push_back(deferred, Head(batch)) /\ Head(batch) \notin accepted
        /\ accepted' = accepted /\ processed' = processed
    BY <1>6 DEF CementMissing, ledgerVars
  <2>2. batch # <<>>
    BY <1>6 DEF CementMissing, Base, Positions, InBatch
  <2>3. Head(batch) \in Hash
    BY <2>2, TailHas DEF Base, CSTypeOK
  <2>4. /\ Distinct(deferred')
        /\ \A x : Contains(deferred', x) <=> Contains(deferred, x) \/ x = Head(batch)
    BY <2>1, <2>3, PushBack DEF Base, CSTypeOK
  <2> QED BY <2>1, <2>4 DEF Distinct, DeferredIsRequeued
<1>7. ASSUME NEW h \in Hash, Add(h) PROVE Deferral'
  BY <1>1, <1>7 DEF Add, ledgerVars
<1>8. CASE CementOne
  <2>1. accepted' = accepted /\ deferred' = deferred /\ processed' = processed
    BY <1>8 DEF CementOne, Cement, queues
  <2> QED BY <1>1, <2>1
<1>9. CASE CementReturn \/ Clear
  BY <1>1, <1>9 DEF CementReturn, Clear, ledgerVars, queues
<1>10. ASSUME NEW p, Commit(p[1], p[2]) PROVE Deferral'
  BY <1>1, <1>10 DEF Commit, vars, queues
<1>11. CASE Aside
  BY <1>1, <1>11 DEF Aside
<1> QED BY <1>2, <1>3, <1>4, <1>5, <1>6, <1>7, <1>8, <1>9, <1>10, <1>11, Steps, StepsAside

(* Where an added hash is. *)
Contained == Tracked /\ ContainsUntilCommitted

(* A hash moves from one container to the next without a moment in which it
   is in none, until its block is committed or it is given up. *)
LEMMA ContainedStep ==
    ASSUME Base, Deferral, Contained, [CSNext]_allVars
    PROVE  Contained'
<1> USE DEF Contained
<1>1. CASE UNCHANGED <<set, deferred, current, batch, cemented, committed, requested>>
  BY <1>1 DEF Tracked, ContainsUntilCommitted, contains
<1>2. ASSUME NEW h \in Hash, Add(h) PROVE Contained'
  <2>1. /\ requested' = requested \cup {h} /\ set' = push_back(set, h)
        /\ UNCHANGED <<deferred, current, batch, cemented, committed>>
    BY <1>2 DEF Add, ledgerVars, thread
  <2>2. \A x : Contains(set', x) <=> Contains(set, x) \/ x = h
    BY <2>1, PushBack DEF Base, CSTypeOK
  <2> QED BY <2>1, <2>2 DEF Tracked, ContainsUntilCommitted, contains
<1>3. ASSUME NEW h \in Hash, ProcessBlock(h) \/ RollbackBlock(h) PROVE Contained'
  <2>1. UNCHANGED <<set, deferred, current, batch, cemented, committed, requested>>
    BY <1>3 DEF ProcessBlock, RollbackBlock, Accept, Discard, vars, queues, thread
  <2> QED BY <1>1, <2>1
<1>4. CASE Requeue
  <2>1. PICK d \in Seq(Hash), s \in Seq(Hash), q \in Seq(Hash) :
          d = deferred /\ s = set /\ q = processed /\ q # <<>>
    BY <1>4 DEF Requeue, Base, CSTypeOK
  <2>2. PICK h \in Hash : h = Head(q)
    BY <2>1, TailHas
  <2>3. UNCHANGED <<current, batch, cemented, committed, requested>>
    BY <1>4 DEF Requeue, ledgerVars, thread
  <2>4. \A x : Contains(d, x) \/ Contains(s, x) => Contains(deferred', x) \/ Contains(set', x)
    <3>1. CASE deferred' = d /\ set' = s
      BY <3>1
    <3>2. CASE \E i \in 1 .. Len(d) :
                  d[i] = h /\ deferred' = RemoveAt(d, i) /\ set' = push_back(s, h)
      <4>1. PICK i, t, u : /\ i \in 1 .. Len(d) /\ d[i] = h /\ t = deferred' /\ t = RemoveAt(d, i)
                           /\ u = set' /\ u = push_back(s, h)
        BY <3>2
      <4>2. \A x : Contains(t, x) <=> Contains(d, x) /\ x # d[i]
        BY <2>1, <4>1, RemoveHas DEF Deferral
      <4>3. \A x : Contains(u, x) <=> Contains(s, x) \/ x = h
        <5>1. \A x : Contains(push_back(s, h), x) <=> Contains(s, x) \/ x = h
          BY PushBack
        <5> QED BY <4>1, <5>1
      <4> QED BY <4>1, <4>2, <4>3
    <3> QED BY <1>4, <2>1, <2>2, <3>1, <3>2 DEF Requeue
  <2> QED BY <2>1, <2>3, <2>4 DEF Tracked, ContainsUntilCommitted, contains
<1>5. CASE Loop
  <2>1. current = {}
    BY <1>5 DEF Loop, Base, Positions
  <2>2. /\ \A x : Contains(set, x) <=> Contains(batch', x) \/ Contains(set', x)
        /\ \A x : x \in current' <=> Contains(batch', x)
        /\ \A x \in requested' : x \in requested /\ (Contains(deferred, x) => Contains(deferred', x))
    BY <1>5, LoopTakes DEF Base
  <2>3. committed' = committed
    BY <1>5 DEF Loop, ledgerVars
  <2>4. Tracked'
    BY <2>2 DEF Tracked
  <2>5. ContainsUntilCommitted'
    BY <2>1, <2>2, <2>3 DEF ContainsUntilCommitted, contains
  <2> QED BY <2>4, <2>5
<1>6. CASE CementMissing
  <2>1. /\ deferred' = push_back(deferred, Head(batch)) /\ NextEntry
        /\ UNCHANGED <<set, current, cemented, committed, requested>>
    BY <1>6 DEF CementMissing, ledgerVars
  <2>2. batch # <<>>
    BY <1>6 DEF CementMissing, Base, Positions, InBatch
  <2>3. /\ Head(batch) \in Hash
        /\ \A x : Contains(batch, x) <=> x = Head(batch) \/ Contains(batch', x)
    BY <2>1, <2>2, Entries DEF Base
  <2>4. \A x : Contains(deferred', x) <=> Contains(deferred, x) \/ x = Head(batch)
    BY <2>1, <2>3, PushBack DEF Base, CSTypeOK
  <2> QED BY <2>1, <2>3, <2>4 DEF Tracked, ContainsUntilCommitted, contains
<1>7. CASE CementOne
  <2>1. cemented \subseteq cemented' /\ UNCHANGED <<set, deferred, current, batch, committed, requested>>
    BY <1>7 DEF CementOne, Cement, queues
  <2> QED BY <2>1 DEF Tracked, ContainsUntilCommitted, contains
<1>8. CASE CementReturn
  <2>1. UNCHANGED <<set, deferred, current, cemented, committed, requested>>
    BY <1>8 DEF CementReturn, ledgerVars, queues
  <2>2. \A x : Contains(batch, x) => Contains(batch', x) \/ x \in cemented
    <3>1. CASE UNCHANGED batch
      BY <3>1
    <3>2. CASE Head(batch) \in cemented /\ NextEntry
      <4>1. batch # <<>>
        BY <1>8 DEF CementReturn, Base, Positions, InBatch
      <4> QED BY <3>2, <4>1, Entries DEF Base
    <3> QED BY <1>8, <3>1, <3>2 DEF CementReturn
  <2> QED BY <2>1, <2>2 DEF Tracked, ContainsUntilCommitted, contains
<1>9. CASE Clear
  <2>1. /\ current' = {} /\ pc = "clear"
        /\ UNCHANGED <<set, deferred, committed, requested>>
    BY <1>9 DEF Clear, ledgerVars
  <2>2. batch = <<>> /\ committed = cemented
    BY <2>1 DEF Base, Positions, Committed, Writing
  <2>3. \A x : ~Contains(<<>>, x)
    BY SMTT(30) DEF Contains
  <2> QED BY <2>1, <2>2, <2>3 DEF Tracked, ContainsUntilCommitted, contains
<1>10. ASSUME NEW p, Commit(p[1], p[2]) PROVE Contained'
  <2>1. committed' = cemented /\ UNCHANGED <<set, deferred, current, batch, cemented, requested>>
    BY <1>10 DEF Commit, vars, queues
  <2> QED BY <2>1 DEF Tracked, ContainsUntilCommitted, contains, Base, CSTypeOK
<1>11. CASE Aside
  BY <1>1, <1>11 DEF Aside
<1> QED BY <1>2, <1>3, <1>4, <1>5, <1>6, <1>7, <1>8, <1>9, <1>10, <1>11, Steps, StepsAside

(* How many results wait. *)
LEMMA LimitedStep ==
    ASSUME Base, Limited, [CSNext]_allVars
    PROVE  Limited'
<1>1. CASE results' = results /\ added' = added /\ (pc' \in Cementing => pc \in Cementing)
  BY <1>1 DEF Limited
<1>2. ASSUME NEW p \in Acquiring, Acquire(p[1], p[2]) PROVE Limited'
  <2>1. p[2] \in Cementing => p[1] \in Cementing
    BY Transitions
  <2> QED BY <1>1, <1>2, <2>1 DEF Acquire
<1>3. ASSUME NEW p \in Releasing, Commit(p[1], p[2]) PROVE Limited'
  <2>1. p[2] \in Cementing => p[1] \in Cementing
    BY Transitions
  <2> QED BY <1>1, <1>3, <2>1 DEF Commit
<1>4. ASSUME NEW p \in Posting, Notify(p[1], p[2]) PROVE Limited'
  <2>1. p[2] \notin Cementing
    BY Transitions
  <2>2. pc' = p[2] /\ results' = <<>>
    BY <1>4 DEF Notify
  <2>3. Len(<<>>) < 2 * MaxBlocks
    BY CementingSetAssumption, SMTT(30)
  <2> QED BY <2>1, <2>2, <2>3 DEF Limited
<1>5. CASE CementCall
  <2>1. added' = 0 /\ results' = results
    BY <1>5 DEF CementCall
  <2>2. PICK n \in Nat : n = Len(results)
    BY SMTT(30) DEF Base, CSTypeOK
  <2>3. n < MaxBlocks
    <3>1. CASE pc = "call"
      <4>1. results = <<>>
        BY <3>1 DEF Base, Positions
      <4> QED BY <2>2, <4>1, CementingSetAssumption, SMTT(30)
    <3>2. CASE pc # "call"
      <4>1. ~(n >= MaxBlocks)
        BY <1>5, <2>2, <3>2 DEF CementCall, many_results
      <4> QED BY <4>1, CementingSetAssumption, SMTT(30)
    <3> QED BY <3>1, <3>2
  <2>4. n < 2 * MaxBlocks /\ 0 <= MaxBlocks /\ n < MaxBlocks + 0
    BY <2>3, CementingSetAssumption, SMTT(30)
  <2> QED BY <2>1, <2>2, <2>4 DEF Limited
<1>6. CASE CementOne
  <2>1. PICK x : Cement(x) /\ results' = Append(results, x)
    BY <1>6 DEF CementOne
  <2>2. x \in Hash
    BY <2>1 DEF Cement, Base, CSTypeOK
  <2>3. PICK n \in Nat, a \in Nat : n = Len(results) /\ a = added
    <3>1. Len(results) \in Nat /\ added \in Nat
      BY SMTT(30) DEF Base, CSTypeOK
    <3> QED BY <3>1
  <2>4. Len(results') = n + 1
    BY <2>1, <2>2, <2>3, AppendHas DEF Base, CSTypeOK
  <2>5. added' = a + 1 /\ a < MaxBlocks /\ pc \in Cementing
    BY <1>6, <2>3 DEF CementOne, Cementing
  <2>6. n < MaxBlocks + a
    BY <2>3, <2>5 DEF Limited
  <2>7. n + 1 < 2 * MaxBlocks /\ a + 1 <= MaxBlocks /\ n + 1 < MaxBlocks + (a + 1)
    BY <2>5, <2>6, CementingSetAssumption, SMTT(30)
  <2> QED BY <2>4, <2>5, <2>7 DEF Limited
<1>7. ASSUME NEW h \in Hash, Add(h) \/ ProcessBlock(h) \/ RollbackBlock(h) PROVE Limited'
  BY <1>1, <1>7 DEF Add, ProcessBlock, RollbackBlock, thread
<1>8. CASE Requeue \/ NotifyCemented \/ UNCHANGED allVars
  BY <1>1, <1>8 DEF Requeue, NotifyCemented, allVars, thread
<1>9. CASE Loop \/ Wake \/ CementMissing \/ CementReturn \/ Clear
  <2>1. results' = results /\ added' = added /\ pc' \in {"waiting", "begin", "idle", "top", "commit"}
    BY <1>9 DEF Loop, Wake, CementMissing, CementReturn, Clear, NextEntry
  <2> QED BY <1>1, <2>1 DEF Cementing
<1> QED BY <1>2, <1>3, <1>4, <1>5, <1>6, <1>7, <1>8, <1>9, Steps

(* What is announced. *)
Announced == AnnouncedIsCommitted /\ AnnouncedInOrder

(* What notifications were given or are on their way. *)
posted == notified \o FlattenSeq(workers)

(* The order of the announcements, of a given sequence. *)
InOrder(s, C) ==
    /\ \A x : Contains(s, x) <=> x \in C /\ x # genesis
    /\ \A i, j \in 1 .. Len(s) :
        /\ s[i] = s[j] => i = j
        /\ s[i] \in Dependencies[s[j]] => i < j

(* Announced in terms of what is posted and of the results in hand. *)
Parts ==
    /\ posted \in Seq(Hash) /\ announcements = posted \o results /\ announcements \in Seq(Hash)
    /\ AnnouncedIsCommitted <=> \A x : Contains(posted, x) => x \in committed
    /\ AnnouncedInOrder <=> InOrder(announcements, cemented)

(* The properties of the announcements, in terms of their parts. *)
LEMMA AnnouncementParts == CSTypeOK => Parts
<1> SUFFICES ASSUME CSTypeOK PROVE Parts
  OBVIOUS
<1>1. posted \in Seq(Hash)
  <2>1. FlattenSeq(workers) \in Seq(Hash) /\ notified \in Seq(Hash)
    BY FlattenType DEF CSTypeOK
  <2> QED BY <2>1, ConcatProperties DEF posted
<1>2. announcements = posted \o results
  BY DEF announcements, posted
<1>3. announcements \in Seq(Hash)
  <2>1. results \in Seq(Hash)
    BY DEF CSTypeOK
  <2> QED BY <1>1, <1>2, <2>1, ConcatProperties
<1>4. AnnouncedIsCommitted <=> \A x : Contains(posted, x) => x \in committed
  <2>1. \A x : x \in Range(posted) <=> Contains(posted, x)
    BY <1>1, RangeHas
  <2>2. AnnouncedIsCommitted <=> \A x \in Range(posted) : x \in committed
    BY DEF AnnouncedIsCommitted, posted
  <2> QED BY <2>1, <2>2
<1>5. AnnouncedInOrder <=> InOrder(announcements, cemented)
  <2>1. \A x : x \in Range(announcements) <=> Contains(announcements, x)
    BY <1>3, RangeHas
  <2>2. Range(announcements) = cemented \ {genesis} <=>
           \A x : Contains(announcements, x) <=> x \in cemented /\ x # genesis
    BY <2>1, SMTT(30)
  <2> QED BY <2>2 DEF AnnouncedInOrder, InOrder
<1> QED BY <1>1, <1>2, <1>3, <1>4, <1>5 DEF Parts

(* The same after a step. *)
LEMMA AnnouncementPartsNext ==
    ASSUME CSTypeOK'
    PROVE  /\ posted' \in Seq(Hash) /\ announcements' = posted' \o results'
           /\ announcements' \in Seq(Hash)
           /\ AnnouncedIsCommitted' <=> \A x : Contains(posted', x) => x \in committed'
           /\ AnnouncedInOrder' <=> InOrder(announcements', cemented')
<1>1. (CSTypeOK => Parts)'
  BY AnnouncementParts, PTL
<1>2. Parts'
  BY <1>1
<1> QED BY <1>2 DEF Parts

(* One more block at the end. *)
LEMMA OrderGrows ==
    ASSUME NEW s \in Seq(Hash), NEW C \in SUBSET Hash, NEW h \in Hash, InOrder(s, C),
           genesis \in C, h \notin C, Dependencies[h] \subseteq C,
           \A x \in C : Dependencies[x] \subseteq C,
           NEW t, t = Append(s, h)
    PROVE  InOrder(t, C \cup {h})
<1>1. PICK n \in Nat : n = Len(s)
  BY SMTT(30)
<1>2. /\ Len(t) = n + 1 /\ t[n + 1] = h /\ \A i \in 1 .. n : t[i] = s[i]
      /\ \A i \in 1 .. n + 1 : i \in 1 .. n \/ i = n + 1
      /\ \A i \in 1 .. n : i < n + 1
  BY <1>1, SMTT(30)
<1>3. \A i \in 1 .. n : s[i] \in C /\ s[i] # h
  BY <1>1 DEF InOrder, Contains
<1>4. \A x : Contains(t, x) <=> Contains(s, x) \/ x = h
  BY AppendHas
<1>5. \A x : Contains(t, x) <=> x \in C \cup {h} /\ x # genesis
  BY <1>4 DEF InOrder
<1>6. ASSUME NEW i \in 1 .. n + 1, NEW j \in 1 .. n + 1
      PROVE  /\ t[i] = t[j] => i = j
             /\ t[i] \in Dependencies[t[j]] => i < j
  <2>1. CASE i \in 1 .. n /\ j \in 1 .. n
    BY <1>1, <1>2, <2>1 DEF InOrder
  <2>2. CASE i \in 1 .. n /\ j = n + 1
    BY <1>2, <1>3, <2>2
  <2>3. CASE i = n + 1 /\ j \in 1 .. n
    BY <1>2, <1>3, <2>3
  <2>4. CASE i = n + 1 /\ j = n + 1
    BY <1>2, <2>4
  <2> QED BY <1>2, <2>1, <2>2, <2>3, <2>4
<1> QED BY <1>2, <1>5, <1>6 DEF InOrder

(* Results are announced in the order in which their blocks are cemented, and
   posted only once the transaction is committed. *)
LEMMA AnnouncedStep ==
    ASSUME Base, Base', Announced, genesis \in cemented, [CSNext]_allVars
    PROVE  Announced'
<1>1. /\ posted \in Seq(Hash) /\ announcements = posted \o results /\ announcements \in Seq(Hash)
      /\ AnnouncedIsCommitted <=> \A x : Contains(posted, x) => x \in committed
      /\ AnnouncedInOrder <=> InOrder(announcements, cemented)
  BY AnnouncementParts DEF Base, Parts
<1>2. /\ posted' \in Seq(Hash) /\ announcements' = posted' \o results'
      /\ AnnouncedIsCommitted' <=> \A x : Contains(posted', x) => x \in committed'
      /\ AnnouncedInOrder' <=> InOrder(announcements', cemented')
  BY AnnouncementPartsNext DEF Base
<1>3. /\ \A x : Contains(posted, x) => x \in committed
      /\ InOrder(announcements, cemented)
  BY <1>1 DEF Announced
<1>4. notified \in Seq(Hash) /\ workers \in Seq(Seq(Hash)) /\ results \in Seq(Hash)
  BY DEF Base, CSTypeOK
<1>5. CASE posted' = posted /\ results' = results /\ cemented' = cemented /\ committed \subseteq committed'
  BY <1>1, <1>2, <1>3, <1>5 DEF Announced
<1>6. CASE notified' = notified /\ workers' = workers /\ results' = results
           /\ cemented' = cemented /\ committed \subseteq committed'
  BY <1>5, <1>6 DEF posted
<1>7. CASE NotifyCemented
  <2>1. PICK r \in Seq(Hash), w \in Seq(Seq(Hash)) : r = Head(workers) /\ w = Tail(workers)
    BY <1>4, <1>7, FlattenTail DEF NotifyCemented
  <2>2. FlattenSeq(workers) = r \o FlattenSeq(w) /\ FlattenSeq(w) \in Seq(Hash)
    BY <1>4, <1>7, <2>1, FlattenTail, FlattenType DEF NotifyCemented
  <2>3. (notified \o r) \o FlattenSeq(w) = notified \o (r \o FlattenSeq(w))
    BY <1>4, <2>1, <2>2, Associates
  <2>4. notified' = notified \o r /\ workers' = w
    BY <1>7, <2>1 DEF NotifyCemented
  <2>5. posted' = posted
    BY <2>2, <2>3, <2>4 DEF posted
  <2>6. results' = results /\ cemented' = cemented /\ committed' = committed
    BY <1>7 DEF NotifyCemented, ledgerVars, thread
  <2> QED BY <1>5, <2>5, <2>6
<1>8. ASSUME NEW p \in Posting, Notify(p[1], p[2]) PROVE Announced'
  <2>1. /\ pc = p[1] /\ workers' = Append(workers, results) /\ results' = <<>>
        /\ notified' = notified /\ cemented' = cemented /\ committed' = committed
    BY <1>8 DEF Notify, ledgerVars
  <2>2. p[1] \notin Writing
    BY Transitions
  <2>3. committed = cemented
    BY <2>1, <2>2 DEF Base, Positions, Committed
  <2>4. FlattenSeq(workers') = FlattenSeq(workers) \o results /\ FlattenSeq(workers) \in Seq(Hash)
    BY <1>4, <2>1, FlattenAppend, FlattenType
  <2>5. posted' = announcements
    <3>1. (notified \o FlattenSeq(workers)) \o results = notified \o (FlattenSeq(workers) \o results)
      BY <1>4, <2>4, Associates
    <3> QED BY <2>1, <2>4, <3>1 DEF posted, announcements
  <2>6. announcements' = announcements
    <3>1. announcements \o <<>> = announcements
      BY <1>1, ConcatEmptySeq
    <3> QED BY <1>2, <2>1, <2>5, <3>1
  <2>7. \A x : Contains(announcements, x) => x \in committed
    BY <1>3, <2>3 DEF InOrder
  <2> QED BY <1>2, <1>3, <2>1, <2>5, <2>6, <2>7 DEF Announced
<1>9. CASE CementOne
  <2>1. PICK x : Cement(x) /\ results' = Append(results, x)
    BY <1>9 DEF CementOne
  <2>2. /\ x \in Hash /\ x \notin cemented /\ Dependencies[x] \subseteq cemented
        /\ cemented' = cemented \cup {x} /\ cemented \in SUBSET Hash
    BY <2>1 DEF Cement, Base, CSTypeOK
  <2>3. \A y \in cemented : Dependencies[y] \subseteq cemented
    BY DEF Base, DependencyClosed
  <2>4. posted' = posted /\ committed' = committed
    BY <1>9 DEF CementOne, posted, events
  <2>5. announcements' = Append(announcements, x)
    <3>1. Append(results, x) = results \o <<x>> /\ <<x>> \in Seq(Hash)
      BY <1>4, <2>2, AppendIsConcat, SMTT(30)
    <3>2. Append(announcements, x) = announcements \o <<x>>
      BY <1>1, <2>2, AppendIsConcat
    <3>3. (posted \o results) \o <<x>> = posted \o (results \o <<x>>)
      BY <1>1, <1>4, <3>1, Associates
    <3> QED BY <1>1, <1>2, <2>1, <2>4, <3>1, <3>2, <3>3
  <2>6. InOrder(announcements', cemented \cup {x})
    <3>1. PICK s, C, t : /\ s \in Seq(Hash) /\ s = announcements /\ t = Append(s, x)
                         /\ C \in SUBSET Hash /\ C = cemented
      BY <1>1, <2>2
    <3>2. InOrder(t, C \cup {x})
      BY <1>3, <2>2, <2>3, <3>1, OrderGrows
    <3> QED BY <2>5, <3>1, <3>2
  <2> QED BY <1>2, <1>3, <2>2, <2>4, <2>6 DEF Announced
<1>10. ASSUME NEW p, Commit(p[1], p[2]) PROVE Announced'
  <2>1. committed' = cemented /\ cemented' = cemented /\ UNCHANGED <<notified, workers, results>>
    BY <1>10 DEF Commit, vars, events
  <2> QED BY <1>6, <2>1 DEF Base, CSTypeOK
<1>11. ASSUME NEW p, Acquire(p[1], p[2]) PROVE Announced'
  BY <1>6, <1>11 DEF Acquire, ledgerVars, events
<1>12. ASSUME NEW h \in Hash, Add(h) \/ ProcessBlock(h) \/ RollbackBlock(h) PROVE Announced'
  BY <1>6, <1>12 DEF Add, ProcessBlock, RollbackBlock, Accept, Discard, vars, ledgerVars, thread, events
<1>13. CASE Requeue \/ UNCHANGED allVars
  BY <1>6, <1>13 DEF Requeue, allVars, ledgerVars, thread, events
<1>14. CASE Loop \/ Wake \/ CementMissing \/ CementCall \/ CementReturn \/ Clear
  BY <1>6, <1>14 DEF Loop, Wake, CementMissing, CementCall, CementReturn, Clear, ledgerVars, events
<1> QED BY <1>7, <1>8, <1>9, <1>10, <1>11, <1>12, <1>13, <1>14, Steps

-----------------------------------------------------------------------------
(* The theorems.                                                           *)

CSInv ==
    /\ Base /\ Deferral /\ Contained /\ Limited /\ Announced
    /\ genesis \in cemented

(* The invariant holds initially. *)
LEMMA InitCSInv == CSInit => CSInv
<1> SUFFICES ASSUME CSInit PROVE CSInv
  OBVIOUS
<1>1. <<>> \in Seq(Hash) /\ <<>> \in Seq(Seq(Hash)) /\ Len(<<>>) = 0 /\ \A x : ~Contains(<<>>, x)
  BY SMTT(30) DEF Contains
<1>2. CSTypeOK
  BY <1>1, LatticeAssumption DEF CSInit, Init, CSTypeOK, Place
<1>3. Base
  BY <1>2, LatticeAssumption
     DEF Base, CSInit, Init, Positions, Committed, DependencyClosed, Writing, InBatch
<1>4. Distinct(<<>>)
  <2>1. 1 .. 0 = {}
    BY SMTT(30)
  <2> QED BY <1>1, <2>1 DEF Distinct
<1>5. Deferral
  BY <1>1, <1>4 DEF Deferral, CSInit, DeferredIsRequeued
<1>6. Contained
  BY DEF Contained, CSInit, Tracked, ContainsUntilCommitted
<1>7. Limited
  <2>1. 0 < 2 * MaxBlocks
    BY CementingSetAssumption, SMTT(30)
  <2> QED BY <1>1, <2>1 DEF Limited, CSInit, Cementing
<1>8. Announced
  <2>1. posted = <<>> /\ announcements = <<>>
    <3>1. <<>> \o <<>> = <<>>
      BY <1>1, ConcatEmptySeq
    <3> QED BY <3>1, FlattenNone DEF CSInit, posted, announcements
  <2>2. InOrder(<<>>, cemented)
    <3>1. 1 .. 0 = {}
      BY SMTT(30)
    <3> QED BY <1>1, <3>1 DEF InOrder, CSInit, Init
  <2> QED BY <1>1, <1>2, <2>1, <2>2, AnnouncementParts DEF Parts, Announced
<1>9. genesis \in cemented
  BY DEF CSInit, Init
<1> QED BY <1>3, <1>5, <1>6, <1>7, <1>8, <1>9 DEF CSInv

(* Every step of the node is a step of the abstract lattice, or none. *)
LEMMA StepsLattice ==
    ASSUME Base, [CSNext]_allVars
    PROVE  [Next]_vars
<1>1. ASSUME NEW h \in Hash, Add(h) \/ ProcessBlock(h) \/ RollbackBlock(h) PROVE [Next]_vars
  BY <1>1 DEF Add, ProcessBlock, RollbackBlock, Next, vars, ledgerVars
<1>2. CASE CementOne
  <2>1. PICK x : Cement(x)
    BY <1>2 DEF CementOne
  <2>2. x \in Hash
    BY <2>1 DEF Cement, Base, CSTypeOK
  <2> QED BY <2>1, <2>2 DEF Next
<1>3. ASSUME NEW p, Commit(p[1], p[2]) PROVE [Next]_vars
  BY <1>3 DEF Commit, vars
<1>4. CASE Requeue \/ Loop \/ CementMissing \/ CementReturn \/ Clear
  BY <1>4 DEF Requeue, Loop, CementMissing, CementReturn, Clear, ledgerVars, vars
<1>5. CASE Aside
  BY <1>5 DEF Aside, vars
<1> QED BY <1>1, <1>2, <1>3, <1>4, <1>5, Steps, StepsAside

(* Every step preserves it. *)
LEMMA StepCSInv == CSInv /\ [CSNext]_allVars => CSInv'
<1> SUFFICES ASSUME CSInv, [CSNext]_allVars PROVE CSInv'
  OBVIOUS
<1>1. Base'
  BY BaseStep DEF CSInv, Deferral
<1>2. Deferral' /\ Contained' /\ Limited'
  BY DeferralStep, ContainedStep, LimitedStep DEF CSInv
<1>3. Announced'
  BY <1>1, AnnouncedStep DEF CSInv
<1>4. genesis \in cemented'
  <2>1. [Next]_vars
    BY StepsLattice DEF CSInv
  <2> QED BY <2>1 DEF CSInv, Next, Accept, Discard, Cement, vars
<1> QED BY <1>1, <1>2, <1>3, <1>4 DEF CSInv

(* The inductive invariant: types, the meaning of the positions of the
   thread, where every hash is, the results in hand and the announcements. *)
THEOREM CSInvariance == CSSpec => []CSInv
BY InitCSInv, StepCSInv, PTL DEF CSSpec

(* contains(h) is true from the moment an election adds h until others read
   the block as cemented, or cementing_failed gives it up. *)
THEOREM ContainedTillCommitted == CSSpec => []ContainsUntilCommitted
<1>1. CSInv => ContainsUntilCommitted
  BY DEF CSInv, Contained
<1> QED BY <1>1, CSInvariance, PTL

(* A deferred block that the ledger has is going to be requeued: run_batch
   and the block processor never miss each other. *)
THEOREM DeferredTillRequeued == CSSpec => []DeferredIsRequeued
<1>1. CSInv => DeferredIsRequeued
  BY DEF CSInv, Deferral
<1> QED BY <1>1, CSInvariance, PTL

(* batch_cemented tells observers only of what is committed. *)
THEOREM AnnouncesCommitted == CSSpec => []AnnouncedIsCommitted
<1>1. CSInv => AnnouncedIsCommitted
  BY DEF CSInv, Announced
<1> QED BY <1>1, CSInvariance, PTL

(* Each cemented block is announced once, after its dependencies, however the
   work is cut into batches, calls of ledger::cement and transactions. *)
THEOREM AnnouncesInOrder == CSSpec => []AnnouncedInOrder
<1>1. CSInv => AnnouncedInOrder
  BY DEF CSInv, Announced
<1> QED BY <1>1, CSInvariance, PTL

(* run_batch never holds as many as 2 * max_blocks results. *)
THEOREM ResultsStayBounded == CSSpec => []ResultsBounded
<1>1. CSInv => ResultsBounded
  BY DEF CSInv, Limited, ResultsBounded
<1> QED BY <1>1, CSInvariance, PTL

(* The node with its cementing set is still an implementation of the abstract
   block lattice: the thread cements nothing before its dependencies and
   nothing that is not in the ledger. *)
THEOREM CementsLattice == CSSpec => Spec
<1>1. CSInit => Init
  BY DEF CSInit
<1>2. CSInv /\ [CSNext]_allVars => [Next]_vars
  BY StepsLattice DEF CSInv
<1> QED BY <1>1, <1>2, CSInvariance, PTL DEF CSSpec, Spec
=============================================================================
