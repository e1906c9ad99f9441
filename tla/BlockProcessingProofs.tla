------------------------ MODULE BlockProcessingProofs ------------------------
(***************************************************************************)
(* Theorems about module BlockProcessing: no gap block is lost, no entry   *)
(* waits for a block that is there, observers are told after the commit,   *)
(* and the notifications are bounded, for any blocks, origins, limits and  *)
(* numbers of arrivals.                                                    *)
(***************************************************************************)
EXTENDS BlockProcessing, SequencesExt, FiniteSetTheorems, SequenceTheorems,
        WellFoundedInduction, TLAPS

(* Time for the solver on a leaf that names no other prover. *)
USE ZenonT(30)

-----------------------------------------------------------------------------
(* The types of the variables. *)

Gap == {Previous[h] : h \in Hash} \cup {Source[h] : h \in Hash}
Key == {<<d, h>> : d \in Gap \ {Zero}, h \in Hash}
Trigger == Hash \cup {Destination[h] : h \in Hash}
Change == Hash \X Nat
Notification == [writer : {"block_processor"}, changes : SUBSET Change, committed : BOOLEAN]
Queue == [requests : [Origin -> Seq(Hash)], iterator : 0 .. Len(Origins), counter : Nat]
Place == {"idle", "ready", "take", "process", "renew", "commit", "resolve"}
Batch == Seq(Hash \X Origin)
Thread == [pc : Place, batch : Batch, processed : SUBSET Change, refreshed : BOOLEAN]

BPTypeOK ==
    /\ version \in [Hash -> Nat] /\ committed \in [Hash -> Nat]
    /\ queue \in Queue
    /\ bp \in Thread
    /\ notifications \in Seq(Notification) /\ dispatching \in Seq(Notification)
    /\ entries \in Seq(Key) /\ delete_queue \in Seq(Key)
    /\ buffer \in Seq(Trigger) /\ back_buffer \in Seq(Trigger)
    /\ missing \in [Hash -> Gap \cup {Zero}] /\ excused \subseteq Hash

-----------------------------------------------------------------------------
(* The inductive invariant. *)

(* No element of a sequence occurs twice. *)
Distinct(seq) == \A i, j \in DOMAIN seq : seq[i] = seq[j] => i = j

(* What the position of the thread says of its batch, of the room it found
   and of what readers see. *)
Positions ==
    /\ bp.pc \in {"idle", "ready", "commit", "resolve"} => bp.batch = <<>>
    /\ bp.pc \in {"ready", "take"} => Len(notifications) < max_ledger_notifications
    /\ bp.pc = "take" => Len(bp.batch) <= batch_size
    /\ bp.pc \in {"process", "renew"} =>
          Len(notifications) + Len(bp.batch) < max_ledger_notifications + batch_size
    /\ bp.pc \in {"renew", "resolve"} => committed = version

(* A change that is announced was made, and is committed once its future is
   resolved. *)
Made(set) == \A c \in set : c[2] <= version[c[1]]
Seen(set) == \A c \in set : c[2] <= committed[c[1]]
Announced(q) == \A i \in DOMAIN q : Made(q[i].changes) /\ (q[i].committed => Seen(q[i].changes))
Told == Made(bp.processed) /\ Announced(notifications) /\ Announced(dispatching)

(* A block that was handed back, and whose entry is about to be deleted, has
   not been tried since, unless its entry was renewed. *)
HandedBack ==
    \A i \in DOMAIN delete_queue :
        LET h == delete_queue[i][2] IN
        missing[h] = delete_queue[i][1] /\ h \notin excused => InFlight(h)

BPInv ==
    /\ BPTypeOK /\ Distinct(entries) /\ Positions /\ Told /\ HandedBack
    /\ GapsAreKept /\ WaitingIsTriggered /\ NotificationsBounded

-----------------------------------------------------------------------------
(* What the containers hold after an operation.                            *)

(* Appending an element. *)
LEMMA AppendHas ==
    ASSUME NEW S, NEW s \in Seq(S), NEW x \in S
    PROVE  /\ Append(s, x) \in Seq(S) /\ Len(Append(s, x)) = Len(s) + 1
           /\ \A y : Contains(Append(s, x), y) <=> Contains(s, y) \/ y = x
           /\ Distinct(s) /\ ~Contains(s, x) => Distinct(Append(s, x))
<1>1. PICK t : t = Append(s, x)
  OBVIOUS
<1>2. PICK n \in Nat : n = Len(s) /\ DOMAIN s = 1 .. n
  BY SMTT(30)
<1>3. /\ t \in Seq(S) /\ Len(t) = n + 1 /\ t[n + 1] = x /\ DOMAIN t = 1 .. n + 1
      /\ \A i \in 1 .. n : t[i] = s[i]
      /\ \A i \in 1 .. n + 1 : i \in 1 .. n \/ i = n + 1
      /\ 1 .. n \subseteq 1 .. n + 1 /\ n + 1 \in 1 .. n + 1
  BY <1>1, <1>2, SMTT(30)
<1>4. \A y : Contains(t, y) <=> Contains(s, y) \/ y = x
  BY <1>2, <1>3 DEF Contains
<1>5. Distinct(s) /\ ~Contains(s, x) => Distinct(t)
  BY <1>2, <1>3 DEF Contains, Distinct
<1> QED BY <1>1, <1>2, <1>3, <1>4, <1>5

(* Taking the first element off a sequence. *)
LEMMA TailHas ==
    ASSUME NEW S, NEW s \in Seq(S), s # <<>>
    PROVE  /\ Tail(s) \in Seq(S) /\ Head(s) \in S /\ Len(Tail(s)) = Len(s) - 1
           /\ \A y : Contains(s, y) <=> y = Head(s) \/ Contains(Tail(s), y)
           /\ Distinct(s) => Distinct(Tail(s))
<1>1. PICK t, h : t = Tail(s) /\ h = Head(s)
  OBVIOUS
<1>2. PICK n \in Nat : n = Len(s) /\ DOMAIN s = 1 .. n
  BY SMTT(30)
<1>3. /\ t \in Seq(S) /\ Len(t) = n - 1 /\ s[1] = h /\ h \in S /\ 1 \in 1 .. n
      /\ DOMAIN t = 1 .. n - 1
      /\ \A i \in 1 .. n - 1 : t[i] = s[i + 1] /\ i + 1 \in 1 .. n
      /\ \A i \in 1 .. n : i = 1 \/ (i - 1 \in 1 .. n - 1 /\ t[i - 1] = s[i])
  BY <1>1, <1>2, SMTT(30)
<1>4. ASSUME NEW y PROVE Contains(s, y) <=> y = h \/ Contains(t, y)
  <2>1. Contains(s, y) <=> \E i \in 1 .. n : s[i] = y
    BY <1>2 DEF Contains
  <2>2. Contains(t, y) <=> \E i \in 1 .. n - 1 : t[i] = y
    BY <1>3 DEF Contains
  <2>3. ASSUME NEW i \in 1 .. n, s[i] = y, y # h PROVE \E j \in 1 .. n - 1 : t[j] = y
    BY <1>3, <2>3
  <2>4. ASSUME NEW i \in 1 .. n - 1, t[i] = y PROVE \E j \in 1 .. n : s[j] = y
    BY <1>3, <2>4
  <2> QED BY <1>3, <2>1, <2>2, <2>3, <2>4
<1>5. ASSUME Distinct(s) PROVE Distinct(t)
  <2>1. ASSUME NEW i \in 1 .. n - 1, NEW j \in 1 .. n - 1, t[i] = t[j] PROVE i = j
    <3>1. i + 1 \in 1 .. n /\ j + 1 \in 1 .. n /\ s[i + 1] = s[j + 1]
      BY <1>3, <2>1
    <3>2. i + 1 = j + 1
      BY <1>2, <1>5, <3>1 DEF Distinct
    <3> QED BY <3>2, SMTT(30)
  <2> QED BY <1>3, <2>1 DEF Distinct
<1> QED BY <1>1, <1>2, <1>3, <1>4, <1>5

(* Putting one sequence behind another. *)
LEMMA ConcatHas ==
    ASSUME NEW S, NEW s \in Seq(S), NEW t \in Seq(S)
    PROVE  /\ s \o t \in Seq(S)
           /\ \A y : Contains(s \o t, y) <=> Contains(s, y) \/ Contains(t, y)
<1>1. PICK u : u = s \o t
  OBVIOUS
<1>2. PICK m \in Nat, n \in Nat : m = Len(s) /\ n = Len(t)
  BY SMTT(30)
<1>3. /\ u \in Seq(S) /\ Len(u) = m + n
      /\ \A i \in 1 .. m : u[i] = s[i] /\ i \in 1 .. m + n
      /\ \A i \in 1 .. n : u[m + i] = t[i] /\ m + i \in 1 .. m + n
      /\ \A i \in 1 .. m + n : i \in 1 .. m \/ (i - m \in 1 .. n /\ u[i] = t[i - m])
  BY <1>1, <1>2, SMTT(30)
<1>4. ASSUME NEW y PROVE Contains(u, y) <=> Contains(s, y) \/ Contains(t, y)
  <2>1. /\ Contains(s, y) <=> \E i \in 1 .. m : s[i] = y
        /\ Contains(t, y) <=> \E i \in 1 .. n : t[i] = y
        /\ Contains(u, y) <=> \E i \in 1 .. m + n : u[i] = y
    BY <1>2, <1>3 DEF Contains
  <2>2. ASSUME NEW i \in 1 .. m + n, u[i] = y
        PROVE  (\E j \in 1 .. m : s[j] = y) \/ (\E j \in 1 .. n : t[j] = y)
    BY <1>3, <2>2
  <2>3. ASSUME NEW i \in 1 .. m, s[i] = y PROVE \E j \in 1 .. m + n : u[j] = y
    BY <1>3, <2>3
  <2>4. ASSUME NEW i \in 1 .. n, t[i] = y PROVE \E j \in 1 .. m + n : u[j] = y
    BY <1>3, <2>4
  <2> QED BY <2>1, <2>2, <2>3, <2>4
<1> QED BY <1>1, <1>3, <1>4

(* Taking an element out of a container without duplicates. *)
LEMMA RemoveHas ==
    ASSUME NEW S, NEW s \in Seq(S), NEW i \in 1 .. Len(s), NEW t, t = RemoveAt(s, i), Distinct(s)
    PROVE  /\ t \in Seq(S) /\ Distinct(t)
           /\ \A x : Contains(t, x) <=> Contains(s, x) /\ x # s[i]
<1>1. PICK m \in Nat : m = Len(s) /\ DOMAIN s = 1 .. m
  BY SMTT(30)
<1>2. PICK a, b : a = SubSeq(s, 1, i - 1) /\ b = SubSeq(s, i + 1, m)
  OBVIOUS
<1>3. t = a \o b
  BY <1>1, <1>2 DEF RemoveAt
<1>4. /\ a \in Seq(S) /\ Len(a) = i - 1 /\ \A j \in 1 .. i - 1 : a[j] = s[j]
      /\ b \in Seq(S) /\ Len(b) = m - i /\ \A j \in 1 .. m - i : b[j] = s[i + j]
  BY <1>1, <1>2, SMTT(30)
<1> DEFINE at(j) == IF j < i THEN j ELSE j + 1
<1>5. t \in Seq(S) /\ Len(t) = m - 1
  <2>1. t \in Seq(S) /\ Len(t) = Len(a) + Len(b)
    BY <1>3, <1>4, ConcatProperties
  <2> QED BY <1>1, <1>4, <2>1, SMTT(30)
<1>6. ASSUME NEW j \in 1 .. m - 1 PROVE t[j] = s[at(j)]
  <2>1. CASE j < i
    <3>1. t[j] = a[j] /\ a[j] = s[j]
      BY <1>1, <1>3, <1>4, <2>1, SMTT(30)
    <3> QED BY <2>1, <3>1
  <2>2. CASE ~(j < i)
    <3>1. j - (i - 1) \in 1 .. m - i /\ i + (j - (i - 1)) = j + 1
      BY <1>1, <2>2, SMTT(30)
    <3>2. t[j] = b[j - (i - 1)]
      BY <1>1, <1>3, <1>4, <2>2, SMTT(30)
    <3> QED BY <1>4, <2>2, <3>1, <3>2
  <2> QED BY <2>1, <2>2
<1>7. /\ \A j \in 1 .. m - 1 : at(j) \in 1 .. m /\ at(j) # i
      /\ \A j, k \in 1 .. m - 1 : at(j) = at(k) => j = k
      /\ \A k \in 1 .. m : k # i => \E j \in 1 .. m - 1 : at(j) = k
  <2>1. \A k \in 1 .. m : k # i => at(IF k < i THEN k ELSE k - 1) = k
    BY <1>1, SMTT(30)
  <2>2. \A k \in 1 .. m : k # i => (IF k < i THEN k ELSE k - 1) \in 1 .. m - 1
    BY <1>1, SMTT(30)
  <2>3. /\ \A j \in 1 .. m - 1 : at(j) \in 1 .. m /\ at(j) # i
        /\ \A j, k \in 1 .. m - 1 : at(j) = at(k) => j = k
    BY <1>1, SMTT(30)
  <2> HIDE DEF at
  <2> QED BY <2>1, <2>2, <2>3
<1> HIDE DEF at
<1>8. DOMAIN t = 1 .. m - 1
  BY <1>5, SMTT(30)
<1>9. Distinct(t)
  <2>1. ASSUME NEW j \in 1 .. m - 1, NEW k \in 1 .. m - 1, t[j] = t[k] PROVE j = k
    <3>1. s[at(j)] = s[at(k)] /\ at(j) \in 1 .. m /\ at(k) \in 1 .. m
      BY <1>6, <1>7, <2>1
    <3>2. at(j) = at(k)
      BY <1>1, <3>1 DEF Distinct
    <3> QED BY <1>7, <3>2
  <2> QED BY <1>8, <2>1 DEF Distinct
<1>10. ASSUME NEW x PROVE Contains(t, x) <=> Contains(s, x) /\ x # s[i]
  <2>1. Contains(t, x) <=> \E j \in 1 .. m - 1 : s[at(j)] = x
    BY <1>5, <1>6 DEF Contains
  <2>2. Contains(s, x) <=> \E k \in 1 .. m : s[k] = x
    BY <1>1 DEF Contains
  <2>3. i \in 1 .. m /\ \A j, k \in 1 .. m : s[j] = s[k] => j = k
    BY <1>1 DEF Distinct
  <2> QED BY <1>7, <2>1, <2>2, <2>3
<1> QED BY <1>5, <1>9, <1>10

(* The keys handed out by query_impl, in some order. *)
LEMMA ListHas ==
    ASSUME NEW S, IsFiniteSet(S)
    PROVE  /\ SetToSeq(S) \in Seq(S)
           /\ \A y : Contains(SetToSeq(S), y) <=> y \in S
<1>1. PICK n \in Nat : n = Cardinality(S)
  BY FS_CardinalityType
<1>2. ExistsBijection(1 .. n, S)
  BY <1>1, FS_CardinalityType
<1>3. PICK f \in Bijection(1 .. n, S) : TRUE
  BY <1>2 DEF ExistsBijection
<1>4. f \in [1 .. n -> S] /\ IsInjective(f)
  BY <1>3 DEF Bijection, Injection, IsInjective
<1>5. PICK g : g = SetToSeq(S)
  OBVIOUS
<1>6. g \in [1 .. n -> S] /\ IsInjective(g)
  BY <1>1, <1>4, <1>5 DEF SetToSeq
<1>7. g \in Injection(1 .. n, S)
  BY <1>6 DEF Injection, IsInjective
<1>8. g \in Surjection(1 .. n, S)
  <2>1. IsFiniteSet(1 .. n) /\ Cardinality(1 .. n) = n
    BY FS_Interval, SMTT(30)
  <2> QED BY <1>1, <1>7, <2>1, FS_Injection
<1>9. g \in Seq(S) /\ Len(g) = n
  BY <1>6, SMTT(30)
<1>10. ASSUME NEW y PROVE Contains(g, y) <=> y \in S
  BY <1>6, <1>8, <1>9 DEF Contains, Surjection
<1> QED BY <1>5, <1>9, <1>10

(* The elements of a sequence are finitely many. *)
LEMMA ElementsFinite ==
    ASSUME NEW S, NEW s \in Seq(S)
    PROVE  IsFiniteSet(ToSet(s)) /\ ToSet(s) \subseteq S /\ \A y : Contains(s, y) <=> y \in ToSet(s)
<1>1. PICK n \in Nat : n = Len(s) /\ DOMAIN s = 1 .. n /\ s \in [1 .. n -> S]
  BY SMTT(30)
<1>2. s \in Surjection(1 .. n, ToSet(s))
  BY <1>1 DEF Surjection, ToSet
<1>3. IsFiniteSet(1 .. n)
  BY FS_Interval, SMTT(30)
<1>4. \A y : Contains(s, y) <=> y \in ToSet(s)
  BY <1>1 DEF Contains, ToSet
<1> QED BY <1>1, <1>2, <1>3, <1>4, FS_Surjection DEF ToSet

-----------------------------------------------------------------------------
(* The fair queue.                                                         *)

Waits(q, h) == \E o \in Origin : Contains(q.requests[o], h)

(* A set of numbers has a least one. *)
LEMMA MinIn ==
    ASSUME NEW T \in SUBSET Nat, T # {}
    PROVE  Min(T) \in T
<1>1. IsWellFoundedOn(OpToRel(<, Nat), Nat)
  BY NatLessThanWellFounded
<1>2. PICK x \in T : \A y \in T : ~(<<y, x>> \in OpToRel(<, Nat))
  BY <1>1, WFMin
<1>3. ASSUME NEW y \in T PROVE x =< y
  <2>1. y \in Nat /\ x \in Nat
    OBVIOUS
  <2>2. ~(y < x)
    BY <1>2, <2>1 DEF OpToRel
  <2> QED BY <2>1, <2>2, SMTT(30)
<1> QED BY <1>3 DEF Min

(* Counting on from an iterator meets every position. *)
LEMMA Cycle ==
    ASSUME NEW n \in Nat \ {0}, NEW i \in 0 .. n
    PROVE  /\ \A k \in 1 .. n : ((i + k - 1) % n) + 1 \in 1 .. n
           /\ \A p \in 1 .. n : \E k \in 1 .. n : ((i + k - 1) % n) + 1 = p
<1>1. ASSUME NEW a \in 0 .. n - 1 PROVE a % n = a
  BY SMTT(30)
<1>2. ASSUME NEW a \in 0 .. n - 1 PROVE (a + n) % n = a
  BY SMTT(30)
<1>3. ASSUME NEW a \in Nat PROVE a % n \in 0 .. n - 1
  BY SMTT(30)
<1>4. ASSUME NEW k \in 1 .. n PROVE ((i + k - 1) % n) + 1 \in 1 .. n
  <2>1. i + k - 1 \in Nat
    BY SMTT(30)
  <2>2. PICK b \in 0 .. n - 1 : b = (i + k - 1) % n
    BY <1>3, <2>1
  <2>3. b + 1 \in 1 .. n
    BY SMTT(30)
  <2> QED BY <2>2, <2>3
<1>5. ASSUME NEW p \in 1 .. n PROVE \E k \in 1 .. n : ((i + k - 1) % n) + 1 = p
  <2>1. p - 1 \in 0 .. n - 1 /\ (p - 1) + 1 = p
    BY SMTT(30)
  <2>2. CASE i < p
    <3>1. p - i \in 1 .. n /\ i + (p - i) - 1 = p - 1
      BY <2>2, SMTT(30)
    <3>2. (p - 1) % n = p - 1
      BY <1>1, <2>1
    <3> QED BY <2>1, <3>1, <3>2
  <2>3. CASE ~(i < p)
    <3>1. p - i + n \in 1 .. n /\ i + (p - i + n) - 1 = (p - 1) + n
      BY <2>3, SMTT(30)
    <3>2. ((p - 1) + n) % n = p - 1
      BY <1>2, <2>1
    <3> QED BY <2>1, <3>1, <3>2
  <2> QED BY <2>2, <2>3
<1> QED BY <1>4, <1>5

(* The origins are numbered. *)
LEMMA OriginPositions ==
    /\ Len(Origins) \in Nat /\ DOMAIN Origins = 1 .. Len(Origins)
    /\ \A i \in 1 .. Len(Origins) : Origins[i] \in Origin
    /\ \A o \in Origin : \E i \in 1 .. Len(Origins) : Origins[i] = o
<1>1. Len(Origins) \in Nat /\ DOMAIN Origins = 1 .. Len(Origins)
  BY FairQueueAssumption, LenProperties
<1> QED BY <1>1 DEF Origin

(* The fields of a queue. *)
LEMMA QueueFields ==
    ASSUME NEW q \in Queue
    PROVE  /\ q.requests \in [Origin -> Seq(Hash)] /\ q.iterator \in 0 .. Len(Origins)
           /\ q.counter \in Nat
           /\ \A o \in Origin : q.requests[o] \in Seq(Hash)
<1>1. q.requests \in [Origin -> Seq(Hash)] /\ q.iterator \in 0 .. Len(Origins) /\ q.counter \in Nat
  BY DEF Queue
<1> QED BY <1>1

(* A queue after an assignment to one of its fields. *)
WithRequests(q, o, r) == [q EXCEPT !.requests[o] = r]
WithIterator(q, i) == [q EXCEPT !.iterator = i]
WithCounter(q, c) == [q EXCEPT !.counter = c]

(* Moving the iterator of the queue leaves its requests. *)
LEMMA IteratorOf ==
    ASSUME NEW q \in Queue, NEW i \in 0 .. Len(Origins)
    PROVE  /\ WithIterator(q, i) \in Queue /\ WithIterator(q, i).requests = q.requests
           /\ WithIterator(q, i).iterator = i
  BY SMTT(30) DEF Queue, WithIterator

(* So does counting a request. *)
LEMMA CounterOf ==
    ASSUME NEW q \in Queue, NEW c \in Nat
    PROVE  /\ WithCounter(q, c) \in Queue /\ WithCounter(q, c).requests = q.requests
           /\ WithCounter(q, c).iterator = q.iterator
  BY SMTT(30) DEF Queue, WithCounter

(* Replacing the requests leaves the iterator and the counter. *)
LEMMA RequestsOf ==
    ASSUME NEW q \in Queue, NEW o \in Origin, NEW r \in Seq(Hash)
    PROVE  /\ WithRequests(q, o, r) \in Queue /\ WithRequests(q, o, r).requests[o] = r
           /\ \A p \in Origin : p # o => WithRequests(q, o, r).requests[p] = q.requests[p]
<1>1. PICK f : f = [q.requests EXCEPT ![o] = r]
  OBVIOUS
<1>2. f \in [Origin -> Seq(Hash)]
  BY <1>1, QueueFields
<1>3. f[o] = r /\ \A p \in Origin : p # o => f[p] = q.requests[p]
  BY <1>1, QueueFields
<1>4. WithRequests(q, o, r) = [q EXCEPT !.requests = f]
  BY <1>1, SMTT(30) DEF WithRequests
<1>5. [q EXCEPT !.requests = f] \in Queue
  BY <1>2 DEF Queue
<1>6. [q EXCEPT !.requests = f].requests = f
  BY SMTT(30) DEF Queue
<1>7. WithRequests(q, o, r) \in Queue /\ WithRequests(q, o, r).requests = f
  BY <1>4, <1>5, <1>6
<1> QED BY <1>3, <1>7

(* seek_next finds a queue with a request in it, if there is one. *)
LEMMA SeekFinds ==
    ASSUME NEW q \in Queue, ~empty(q)
    PROVE  /\ current(q) \in Queue /\ current(q).requests = q.requests
           /\ next_origin(q) \in Origin /\ q.requests[next_origin(q)] # <<>>
<1>1. PICK n : n = Len(Origins)
  OBVIOUS
<1>2. /\ n \in Nat /\ \A i \in 1 .. n : Origins[i] \in Origin
      /\ \A o \in Origin : \E i \in 1 .. n : Origins[i] = o
  BY <1>1, OriginPositions
<1>3. PICK p \in 1 .. n : q.requests[Origins[p]] # <<>>
  BY <1>2 DEF empty
<1>4. n \in Nat \ {0} /\ q.iterator \in 0 .. n
  <2>1. n # 0
    BY <1>2, SMTT(30)
  <2> QED BY <1>1, <1>2, <2>1, QueueFields
<1>5. CASE should_seek(q)
  <2> DEFINE at(k) == ((q.iterator + k - 1) % n) + 1
             T == {j \in 1 .. n : q.requests[Origins[at(j)]] # <<>>}
  <2>1. /\ \A k \in 1 .. n : at(k) \in 1 .. n
        /\ \A m \in 1 .. n : \E k \in 1 .. n : at(k) = m
    BY <1>4, Cycle
  <2>2. PICK k : k = Min(T)
    OBVIOUS
  <2>3. k \in T
    <3>1. T # {}
      BY <1>3, <2>1
    <3>2. T \subseteq Nat
      BY SMTT(30)
    <3> QED BY <2>2, <3>1, <3>2, MinIn
  <2>4. current(q) = [q EXCEPT !.iterator = at(k), !.counter = 0]
    BY <1>1, <1>5, <2>2 DEF current, seek_next
  <2>5. at(k) \in 1 .. n /\ q.requests[Origins[at(k)]] # <<>>
    BY <2>1, <2>3
  <2> HIDE DEF at, T
  <2>6. at(k) \in 0 .. Len(Origins)
    BY <1>1, <1>4, <2>5, SMTT(30)
  <2>7. current(q) \in Queue /\ current(q).requests = q.requests /\ current(q).iterator = at(k)
    <3>1. PICK a : a = at(k)
      OBVIOUS
    <3>2. current(q) = WithCounter(WithIterator(q, a), 0) /\ a \in 0 .. Len(Origins)
      BY <2>4, <2>6, <3>1 DEF WithCounter, WithIterator
    <3>3. 0 \in Nat
      OBVIOUS
    <3>4. PICK y : y = WithIterator(q, a)
      OBVIOUS
    <3>5. y \in Queue /\ y.requests = q.requests /\ y.iterator = a
      BY <3>2, <3>4, IteratorOf
    <3>6. /\ WithCounter(y, 0) \in Queue /\ WithCounter(y, 0).requests = y.requests
          /\ WithCounter(y, 0).iterator = y.iterator
      BY <3>3, <3>5, CounterOf
    <3> QED BY <3>1, <3>2, <3>4, <3>5, <3>6
  <2> QED BY <1>2, <2>5, <2>7 DEF next_origin
<1>6. CASE ~should_seek(q)
  <2>1. current(q) = q /\ q.iterator # 0 /\ q.requests[Origins[q.iterator]] # <<>>
    BY <1>6 DEF current, should_seek
  <2>2. q.iterator \in 1 .. n
    BY <1>4, <2>1, SMTT(30)
  <2> QED BY <1>2, <2>1, <2>2 DEF next_origin
<1> QED BY <1>5, <1>6

(* next takes one request and loses none. *)
LEMMA NextHas ==
    ASSUME NEW q \in Queue, ~empty(q)
    PROVE  /\ next(q) \in Queue /\ next_origin(q) \in Origin /\ next_request(q) \in Hash
           /\ \A h : Waits(q, h) => h = next_request(q) \/ Waits(next(q), h)
<1>1. PICK c, o, r : c = current(q) /\ o = next_origin(q) /\ r = q.requests[o]
  OBVIOUS
<1>2. c \in Queue /\ c.requests = q.requests /\ o \in Origin /\ r # <<>> /\ r \in Seq(Hash)
  BY <1>1, SeekFinds, QueueFields
<1>3. PICK t : t = Tail(r)
  OBVIOUS
<1>4. /\ t \in Seq(Hash) /\ Head(r) \in Hash
      /\ \A y : Contains(r, y) <=> y = Head(r) \/ Contains(t, y)
  BY <1>2, <1>3, TailHas
<1>5. next(q) = WithRequests(WithCounter(c, c.counter + 1), o, t)
  <2>1. next(q) = [c EXCEPT !.counter = @ + 1, !.requests[o] = Tail(@)]
    BY <1>1 DEF next
  <2>2. [c EXCEPT !.counter = @ + 1].requests[o] = r
    BY <1>1, <1>2, SMTT(30) DEF Queue
  <2> QED BY <1>3, <2>1, <2>2 DEF WithRequests, WithCounter
<1>6. PICK x : x = next(q)
  OBVIOUS
<1>7. /\ x \in Queue /\ x.requests[o] = t
      /\ \A p \in Origin : p # o => x.requests[p] = c.requests[p]
  <2>1. c.counter + 1 \in Nat
    BY <1>2, QueueFields, SMTT(30)
  <2>2. PICK d : d = WithCounter(c, c.counter + 1)
    OBVIOUS
  <2>3. d \in Queue /\ d.requests = c.requests
    BY <1>2, <2>1, <2>2, CounterOf
  <2>4. x = WithRequests(d, o, t)
    BY <1>5, <1>6, <2>2
  <2>5. /\ WithRequests(d, o, t) \in Queue /\ WithRequests(d, o, t).requests[o] = t
        /\ \A p \in Origin : p # o => WithRequests(d, o, t).requests[p] = d.requests[p]
    BY <1>2, <1>4, <2>3, RequestsOf
  <2> QED BY <2>3, <2>4, <2>5
<1>8. next_request(q) = Head(r)
  BY <1>1 DEF next_request
<1>9. ASSUME NEW h, Waits(q, h) PROVE h = Head(r) \/ Waits(x, h)
  <2>1. PICK p \in Origin : Contains(q.requests[p], h)
    BY <1>9 DEF Waits
  <2>2. CASE p = o
    BY <1>1, <1>2, <1>4, <1>7, <2>1, <2>2 DEF Waits
  <2>3. CASE p # o
    BY <1>2, <1>7, <2>1, <2>3 DEF Waits
  <2> QED BY <2>2, <2>3
<1> QED BY <1>1, <1>2, <1>4, <1>6, <1>7, <1>8, <1>9

(* push, cleanup and push_all lose no request either. *)
LEMMA GrowsHas ==
    ASSUME NEW q \in Queue, NEW o \in Origin, NEW t \in Seq(Hash)
    PROVE  \E x \in Queue : /\ x = WithRequests(q, o, q.requests[o] \o t)
                            /\ \A h : Waits(q, h) => Waits(x, h)
                            /\ \A h : Contains(t, h) => Waits(x, h)
<1>0. PICK x : x = WithRequests(q, o, q.requests[o] \o t)
  OBVIOUS
<1>1. PICK r : r = q.requests[o] \o t
  OBVIOUS
<1>2. r \in Seq(Hash) /\ \A h : Contains(r, h) <=> Contains(q.requests[o], h) \/ Contains(t, h)
  BY <1>1, ConcatHas, QueueFields
<1>3. x = WithRequests(q, o, r)
  BY <1>0, <1>1
<1>4. /\ x \in Queue /\ x.requests[o] = r
      /\ \A p \in Origin : p # o => x.requests[p] = q.requests[p]
  <2>1. /\ WithRequests(q, o, r) \in Queue /\ WithRequests(q, o, r).requests[o] = r
        /\ \A p \in Origin : p # o => WithRequests(q, o, r).requests[p] = q.requests[p]
    BY <1>2, RequestsOf
  <2> QED BY <1>3, <2>1
<1>5. ASSUME NEW h, Waits(q, h) PROVE Waits(x, h)
  BY <1>2, <1>4, <1>5 DEF Waits
<1>6. ASSUME NEW h, Contains(t, h) PROVE Waits(x, h)
  BY <1>2, <1>4, <1>6 DEF Waits
<1> QED BY <1>0, <1>4, <1>5, <1>6

(* fair_queue::push drops a request that finds its queue full, and removes
   none that waits. *)
LEMMA PushHas ==
    ASSUME NEW q \in Queue, NEW o \in Origin, NEW h \in Hash
    PROVE  push(q, h, o) \in Queue /\ \A x : Waits(q, x) => Waits(push(q, h, o), x)
<1>1. CASE full(q, o)
  BY <1>1 DEF push
<1>2. CASE ~full(q, o)
  <2>1. PICK r : r = Append(q.requests[o], h)
    OBVIOUS
  <2>2. r \in Seq(Hash) /\ \A x : Contains(r, x) <=> Contains(q.requests[o], x) \/ x = h
    <3>1. q.requests[o] \in Seq(Hash)
      BY QueueFields
    <3>2. PICK s \in Seq(Hash) : s = q.requests[o]
      BY <3>1
    <3>3. /\ Append(s, h) \in Seq(Hash)
          /\ \A x : Contains(Append(s, h), x) <=> Contains(s, x) \/ x = h
      BY AppendHas
    <3> QED BY <2>1, <3>2, <3>3
  <2>3. PICK y : y = push(q, h, o)
    OBVIOUS
  <2>4. y = WithRequests(q, o, r)
    <3>1. push(q, h, o) = [q EXCEPT !.requests[o] = Append(@, h)]
      BY <1>2 DEF push
    <3>2. [q EXCEPT !.requests[o] = Append(@, h)] = [q EXCEPT !.requests[o] = r]
      BY <2>1, SMTT(30)
    <3> QED BY <2>3, <3>1, <3>2 DEF WithRequests
  <2>5. /\ y \in Queue /\ y.requests[o] = r
        /\ \A p \in Origin : p # o => y.requests[p] = q.requests[p]
    <3>1. /\ WithRequests(q, o, r) \in Queue /\ WithRequests(q, o, r).requests[o] = r
          /\ \A p \in Origin : p # o => WithRequests(q, o, r).requests[p] = q.requests[p]
      BY <2>2, RequestsOf
    <3> QED BY <2>4, <3>1
  <2>6. ASSUME NEW x, Waits(q, x) PROVE Waits(y, x)
    BY <2>2, <2>5, <2>6 DEF Waits
  <2> QED BY <2>3, <2>5, <2>6
<1> QED BY <1>1, <1>2

(* fair_queue::periodic_update removes empty queues only. *)
LEMMA CleanupHas ==
    ASSUME NEW q \in Queue
    PROVE  cleanup(q) \in Queue /\ cleanup(q).requests = q.requests
<1>1. Len(Origins) \in Nat
  BY OriginPositions
<1> QED BY <1>1, SMTT(30) DEF cleanup, Queue

(* Pushing several blocks removes none, and those that were counted wait. *)
LEMMA PushAllHas ==
    ASSUME NEW q \in Queue, NEW o \in Origin, NEW t \in Seq(Hash)
    PROVE  /\ push_all(q, t, o) \in Queue
           /\ \A h : Waits(q, h) => Waits(push_all(q, t, o), h)
           /\ push_count(q, t, o) \in 0 .. Len(t)
           /\ \A i \in 1 .. push_count(q, t, o) : Waits(push_all(q, t, o), t[i])
<1>1. PICK n : n = push_count(q, t, o)
  OBVIOUS
<1>2. n \in 0 .. Len(t)
  <2>1. PICK l, m : l = Len(q.requests[o]) /\ m = MaxSize[o]
    OBVIOUS
  <2>2. l \in Nat /\ m \in Nat /\ Len(t) \in Nat
    BY <2>1, QueueFields, FairQueueAssumption, LenProperties
  <2>3. full(q, o) <=> l >= m
    BY <2>1 DEF full
  <2>4. PICK k : k = IF full(q, o) THEN 0 ELSE m - l
    OBVIOUS
  <2>5. k \in Nat
    <3>1. ~(l >= m) => m - l \in Nat
      BY <2>2, SMTT(30)
    <3> QED BY <2>3, <2>4, <3>1
  <2>6. n = IF Len(t) < k THEN Len(t) ELSE k
    BY <1>1, <2>1, <2>4 DEF push_count
  <2> QED BY <2>2, <2>5, <2>6, SMTT(30)
<1>3. PICK u : u = SubSeq(t, 1, n)
  OBVIOUS
<1>4. u \in Seq(Hash) /\ \A i \in 1 .. n : Contains(u, t[i])
  <2>1. u \in Seq(Hash) /\ Len(u) = n /\ \A i \in 1 .. n : u[i] = t[i]
    BY <1>2, <1>3, SMTT(30)
  <2> QED BY <2>1 DEF Contains
<1>5. PICK x : x = push_all(q, t, o)
  OBVIOUS
<1>6. x = WithRequests(q, o, q.requests[o] \o u)
  <2>1. push_all(q, t, o) = [q EXCEPT !.requests[o] = @ \o u]
    BY <1>1, <1>3, SMTT(30) DEF push_all
  <2>2. [q EXCEPT !.requests[o] = @ \o u] = [q EXCEPT !.requests[o] = q.requests[o] \o u]
    BY SMTT(30)
  <2> QED BY <1>5, <2>1, <2>2 DEF WithRequests
<1>7. /\ x \in Queue /\ \A h : Waits(q, h) => Waits(x, h)
      /\ \A h : Contains(u, h) => Waits(x, h)
  <2>1. PICK y \in Queue : /\ y = WithRequests(q, o, q.requests[o] \o u)
                           /\ \A h : Waits(q, h) => Waits(y, h)
                           /\ \A h : Contains(u, h) => Waits(y, h)
    BY <1>4, GrowsHas
  <2> QED BY <1>6, <2>1
<1> QED BY <1>1, <1>2, <1>4, <1>5, <1>7

-----------------------------------------------------------------------------
(* The record of the thread.                                               *)

(* The fields of the processing thread. *)
LEMMA ThreadFields ==
    ASSUME NEW b \in Thread
    PROVE  /\ b.pc \in Place /\ b.batch \in Batch /\ b.processed \in SUBSET Change
           /\ b.refreshed \in BOOLEAN
  BY DEF Thread

(* A step that only moves the thread. *)
LEMMA Moved ==
    ASSUME NEW b \in Thread, NEW p \in Place
    PROVE  \E x \in Thread : /\ x = [b EXCEPT !.pc = p] /\ x.pc = p
                             /\ x.batch = b.batch /\ x.processed = b.processed
<1>1. PICK x : x = [b EXCEPT !.pc = p]
  OBVIOUS
<1>2. x \in Thread
  BY <1>1 DEF Thread
<1>3. x.pc = p /\ x.batch = b.batch /\ x.processed = b.processed
  BY <1>1, SMTT(30) DEF Thread
<1> QED BY <1>1, <1>2, <1>3

(* Renewing the transaction leaves the batch and what was processed. *)
LEMMA MovedBack ==
    ASSUME NEW b \in Thread, NEW p \in Place
    PROVE  \E x \in Thread : /\ x = [b EXCEPT !.pc = p, !.refreshed = TRUE] /\ x.pc = p
                             /\ x.batch = b.batch /\ x.processed = b.processed
<1>1. PICK x : x = [b EXCEPT !.pc = p]
  OBVIOUS
<1>2. x \in Thread
  BY <1>1 DEF Thread
<1>3. PICK y : y = [x EXCEPT !.refreshed = TRUE]
  OBVIOUS
<1>4. y \in Thread
  BY <1>2, <1>3 DEF Thread
<1>5. y.pc = p /\ y.batch = b.batch /\ y.processed = b.processed
  BY <1>1, <1>3, SMTT(30) DEF Thread
<1>6. y = [b EXCEPT !.pc = p, !.refreshed = TRUE]
  BY <1>1, <1>3
<1> QED BY <1>4, <1>5, <1>6

(* A step that takes a block into the batch. *)
LEMMA Taken ==
    ASSUME NEW b \in Thread, NEW e \in Hash \X Origin
    PROVE  \E x \in Thread : /\ x = [b EXCEPT !.batch = Append(@, e)] /\ x.pc = b.pc
                             /\ x.batch = Append(b.batch, e) /\ x.processed = b.processed
<1>1. PICK s : s = Append(b.batch, e)
  OBVIOUS
<1>2. s \in Batch
  <2>1. b.batch \in Seq(Hash \X Origin)
    BY ThreadFields DEF Batch
  <2> QED BY <1>1, <2>1, AppendProperties DEF Batch
<1>3. PICK x : x = [b EXCEPT !.batch = s]
  OBVIOUS
<1>4. x \in Thread
  BY <1>2, <1>3 DEF Thread
<1>5. x.pc = b.pc /\ x.batch = s /\ x.processed = b.processed
  BY <1>3, SMTT(30) DEF Thread
<1>6. x = [b EXCEPT !.batch = Append(@, e)]
  BY <1>1, <1>3
<1> QED BY <1>1, <1>4, <1>5, <1>6

(* A step that is done with a block of the batch. *)
LEMMA Done ==
    ASSUME NEW b \in Thread, b.batch # <<>>, NEW c \in SUBSET Change
    PROVE  \E x \in Thread :
              /\ x = [b EXCEPT !.batch = Tail(@), !.refreshed = FALSE, !.processed = @ \cup c]
              /\ x.pc = b.pc /\ x.batch = Tail(b.batch) /\ x.processed = b.processed \cup c
<1>1. PICK s, d : s = Tail(b.batch) /\ d = b.processed \cup c
  OBVIOUS
<1>2. s \in Batch /\ d \in SUBSET Change
  <2>1. b.batch \in Seq(Hash \X Origin) /\ b.processed \in SUBSET Change
    BY ThreadFields DEF Batch
  <2>2. s \in Batch
    BY <1>1, <2>1, HeadTailProperties DEF Batch
  <2> QED BY <1>1, <2>1, <2>2
<1>3. PICK x, y, z : /\ x = [b EXCEPT !.batch = s] /\ y = [x EXCEPT !.refreshed = FALSE]
                     /\ z = [y EXCEPT !.processed = d]
  OBVIOUS
<1>4. x \in Thread
  BY <1>2, <1>3 DEF Thread
<1>5. y \in Thread
  BY <1>3, <1>4 DEF Thread
<1>6. z \in Thread
  BY <1>2, <1>3, <1>5 DEF Thread
<1>7. z.pc = b.pc /\ z.batch = s /\ z.processed = d
  BY <1>3, SMTT(30) DEF Thread
<1>8. z = [b EXCEPT !.batch = Tail(@), !.refreshed = FALSE, !.processed = @ \cup c]
  BY <1>1, <1>3
<1> QED BY <1>1, <1>6, <1>7, <1>8

(* The thread before its first batch and after each of them. *)
LEMMA IdleThread ==
    Idle \in Thread /\ Idle.pc = "idle" /\ Idle.batch = <<>> /\ Idle.processed = {}
<1>1. <<>> \in Batch
  BY EmptySeq DEF Batch
<1> QED BY <1>1 DEF Idle, Thread, Place

-----------------------------------------------------------------------------
(* Blocks in flight.                                                       *)

InBatch(s, h) == \E i \in DOMAIN s : s[i][1] = h

(* A block is in flight while it waits in the queue or is in the batch. *)
LEMMA FlightIs ==
    /\ \A h : InFlight(h) <=> Waits(queue, h) \/ InBatch(bp.batch, h)
    /\ \A h : InFlight(h)' <=> Waits(queue', h) \/ InBatch(bp'.batch, h)
  BY DEF InFlight, Waits, InBatch

(* A block is in the batch with some origin. *)
LEMMA BatchIs ==
    ASSUME NEW s \in Batch, NEW h
    PROVE  InBatch(s, h) <=> \E e \in Hash \X Origin : Contains(s, e) /\ e[1] = h
<1>0. DOMAIN s = 1 .. Len(s)
  BY LenProperties DEF Batch
<1>1. \A i \in DOMAIN s : s[i] \in Hash \X Origin
  BY <1>0, ElementOfSeq DEF Batch
<1>2. ASSUME InBatch(s, h) PROVE \E e \in Hash \X Origin : Contains(s, e) /\ e[1] = h
  BY <1>0, <1>1, <1>2 DEF InBatch, Contains
<1>3. ASSUME NEW e \in Hash \X Origin, Contains(s, e), e[1] = h PROVE InBatch(s, h)
  BY <1>0, <1>3 DEF InBatch, Contains
<1> QED BY <1>2, <1>3

(* next_batch adds one block to the batch. *)
LEMMA BatchTaken ==
    ASSUME NEW s \in Batch, NEW e \in Hash \X Origin, NEW h
    PROVE  InBatch(Append(s, e), h) <=> InBatch(s, h) \/ e[1] = h
<1>1. s \in Seq(Hash \X Origin)
  BY DEF Batch
<1>2. /\ Append(s, e) \in Seq(Hash \X Origin)
      /\ \A y : Contains(Append(s, e), y) <=> Contains(s, y) \/ y = e
  BY <1>1, AppendHas
<1>3. InBatch(Append(s, e), h) <=> \E x \in Hash \X Origin : Contains(Append(s, e), x) /\ x[1] = h
  BY <1>2, BatchIs DEF Batch
<1>4. InBatch(s, h) <=> \E x \in Hash \X Origin : Contains(s, x) /\ x[1] = h
  BY BatchIs
<1> QED BY <1>2, <1>3, <1>4

(* process_batch takes the first block off it. *)
LEMMA BatchDone ==
    ASSUME NEW s \in Batch, s # <<>>
    PROVE  /\ Head(s) \in Hash \X Origin /\ Tail(s) \in Batch
           /\ \A h : InBatch(s, h) <=> h = Head(s)[1] \/ InBatch(Tail(s), h)
<1>1. s \in Seq(Hash \X Origin)
  BY DEF Batch
<1>2. /\ Tail(s) \in Seq(Hash \X Origin) /\ Head(s) \in Hash \X Origin
      /\ \A y : Contains(s, y) <=> y = Head(s) \/ Contains(Tail(s), y)
  BY <1>1, TailHas
<1>3. ASSUME NEW h PROVE InBatch(s, h) <=> h = Head(s)[1] \/ InBatch(Tail(s), h)
  <2>1. InBatch(s, h) <=> \E x \in Hash \X Origin : Contains(s, x) /\ x[1] = h
    BY BatchIs
  <2>2. InBatch(Tail(s), h) <=> \E x \in Hash \X Origin : Contains(Tail(s), x) /\ x[1] = h
    BY <1>2, BatchIs DEF Batch
  <2> QED BY <1>2, <2>1, <2>2
<1> QED BY <1>2, <1>3 DEF Batch

-----------------------------------------------------------------------------
(* What the parts of the invariant say, element by element.                *)

(* The property without positions: which entries the buffers and the queue of
   deletions account for. *)
LEMMA WaitingIs ==
    ASSUME entries \in Seq(Key)
    PROVE  WaitingIsTriggered <=>
              \A e : Contains(entries, e) /\ e[1] \in accepted =>
                 Contains(buffer, e[1]) \/ Contains(back_buffer, e[1]) \/ Contains(delete_queue, e)
<1>0. DOMAIN entries = 1 .. Len(entries)
  BY LenProperties
<1>1. ASSUME WaitingIsTriggered, NEW e, Contains(entries, e), e[1] \in accepted
      PROVE  Contains(buffer, e[1]) \/ Contains(back_buffer, e[1]) \/ Contains(delete_queue, e)
  <2>1. PICK i \in DOMAIN entries : entries[i] = e
    BY <1>0, <1>1 DEF Contains
  <2> QED BY <1>1, <2>1 DEF WaitingIsTriggered
<1>2. ASSUME \A e : Contains(entries, e) /\ e[1] \in accepted =>
                 Contains(buffer, e[1]) \/ Contains(back_buffer, e[1]) \/ Contains(delete_queue, e)
      PROVE  WaitingIsTriggered
  <2>1. ASSUME NEW i \in DOMAIN entries, NEW e, e = entries[i], e[1] \in accepted
        PROVE  Contains(buffer, e[1]) \/ Contains(back_buffer, e[1]) \/ Contains(delete_queue, e)
    <3>1. Contains(entries, e)
      BY <1>0, <2>1 DEF Contains
    <3> QED BY <1>2, <2>1, <3>1
  <2> QED BY <2>1 DEF WaitingIsTriggered
<1> QED BY <1>1, <1>2

(* The same for the entries that are about to be deleted. *)
LEMMA HandedIs ==
    ASSUME delete_queue \in Seq(Key)
    PROVE  HandedBack <=>
              \A e : Contains(delete_queue, e) /\ missing[e[2]] = e[1] /\ e[2] \notin excused =>
                 InFlight(e[2])
<1>0. DOMAIN delete_queue = 1 .. Len(delete_queue)
  BY LenProperties
<1>1. ASSUME HandedBack, NEW e, Contains(delete_queue, e), missing[e[2]] = e[1] /\ e[2] \notin excused
      PROVE  InFlight(e[2])
  <2>1. PICK i \in DOMAIN delete_queue : delete_queue[i] = e
    BY <1>0, <1>1 DEF Contains
  <2> QED BY <1>1, <2>1 DEF HandedBack
<1>2. ASSUME \A e : Contains(delete_queue, e) /\ missing[e[2]] = e[1] /\ e[2] \notin excused =>
                 InFlight(e[2])
      PROVE  HandedBack
  <2>1. ASSUME NEW i \in DOMAIN delete_queue, NEW e, e = delete_queue[i], missing[e[2]] = e[1] /\ e[2] \notin excused
        PROVE  InFlight(e[2])
    <3>1. Contains(delete_queue, e)
      BY <1>0, <2>1 DEF Contains
    <3> QED BY <1>2, <2>1, <3>1
  <2> QED BY <2>1 DEF HandedBack
<1> QED BY <1>1, <1>2

(* WaitingIs after a step. *)
LEMMA WaitingIsNext ==
    ASSUME entries' \in Seq(Key)
    PROVE  WaitingIsTriggered' <=>
              \A e : Contains(entries', e) /\ e[1] \in accepted' =>
                 Contains(buffer', e[1]) \/ Contains(back_buffer', e[1]) \/ Contains(delete_queue', e)
<1>0. DOMAIN entries' = 1 .. Len(entries')
  BY LenProperties
<1>1. ASSUME WaitingIsTriggered', NEW e, Contains(entries', e), e[1] \in accepted'
      PROVE  Contains(buffer', e[1]) \/ Contains(back_buffer', e[1]) \/ Contains(delete_queue', e)
  <2>1. PICK i \in DOMAIN entries' : entries'[i] = e
    BY <1>0, <1>1 DEF Contains
  <2> QED BY <1>1, <2>1 DEF WaitingIsTriggered
<1>2. ASSUME \A e : Contains(entries', e) /\ e[1] \in accepted' =>
                 Contains(buffer', e[1]) \/ Contains(back_buffer', e[1]) \/ Contains(delete_queue', e)
      PROVE  WaitingIsTriggered'
  <2>1. ASSUME NEW i \in DOMAIN entries', NEW e, e = entries'[i], e[1] \in accepted'
        PROVE  Contains(buffer', e[1]) \/ Contains(back_buffer', e[1]) \/ Contains(delete_queue', e)
    <3>1. Contains(entries', e)
      BY <1>0, <2>1 DEF Contains
    <3> QED BY <1>2, <2>1, <3>1
  <2> QED BY <2>1 DEF WaitingIsTriggered
<1> QED BY <1>1, <1>2

(* HandedIs after a step. *)
LEMMA HandedIsNext ==
    ASSUME delete_queue' \in Seq(Key)
    PROVE  HandedBack' <=>
              \A e : Contains(delete_queue', e) /\ missing'[e[2]] = e[1] /\ e[2] \notin excused' =>
                 InFlight(e[2])'
<1>0. DOMAIN delete_queue' = 1 .. Len(delete_queue')
  BY LenProperties
<1>1. ASSUME HandedBack', NEW e, Contains(delete_queue', e), missing'[e[2]] = e[1] /\ e[2] \notin excused'
      PROVE  InFlight(e[2])'
  <2>1. PICK i \in DOMAIN delete_queue' : delete_queue'[i] = e
    BY <1>0, <1>1 DEF Contains
  <2> QED BY <1>1, <2>1 DEF HandedBack
<1>2. ASSUME \A e : Contains(delete_queue', e) /\ missing'[e[2]] = e[1] /\ e[2] \notin excused' =>
                 InFlight(e[2])'
      PROVE  HandedBack'
  <2>1. ASSUME NEW i \in DOMAIN delete_queue', NEW e, e = delete_queue'[i], missing'[e[2]] = e[1] /\ e[2] \notin excused'
        PROVE  InFlight(e[2])'
    <3>1. Contains(delete_queue', e)
      BY <1>0, <2>1 DEF Contains
    <3> QED BY <1>2, <2>1, <3>1
  <2> QED BY <2>1 DEF HandedBack
<1> QED BY <1>1, <1>2

(* A key of the unchecked map is a dependency and a block. *)
LEMMA KeyParts ==
    /\ \A e \in Key : e[1] \in Gap \ {Zero} /\ e[2] \in Hash /\ e = <<e[1], e[2]>>
    /\ \A d \in Gap \ {Zero}, h \in Hash : <<d, h>> \in Key /\ <<d, h>>[1] = d /\ <<d, h>>[2] = h
<1>1. ASSUME NEW e \in Key
      PROVE  e[1] \in Gap \ {Zero} /\ e[2] \in Hash /\ e = <<e[1], e[2]>>
  <2>1. PICK d \in Gap \ {Zero}, h \in Hash : e = <<d, h>>
    BY SMTT(30) DEF Key
  <2>2. e[1] = d /\ e[2] = h
    BY <2>1
  <2> QED BY <2>1, <2>2
<1>2. ASSUME NEW d \in Gap \ {Zero}, NEW h \in Hash
      PROVE  <<d, h>> \in Key /\ <<d, h>>[1] = d /\ <<d, h>>[2] = h
  BY SMTT(30) DEF Key
<1> QED BY <1>1, <1>2

(* What concerns the gaps. *)
Gaps == Distinct(entries) /\ HandedBack /\ GapsAreKept /\ WaitingIsTriggered

(* Steps that leave the blocks in flight, and all about the gaps, alone. *)
LEMMA GapFrame ==
    ASSUME Gaps, UNCHANGED <<version, gap_vars, history>>, delete_queue \in Seq(Key),
           \A h \in Hash : InFlight(h) => InFlight(h)'
    PROVE  Gaps'
<1>0. UNCHANGED <<version, entries, buffer, back_buffer, delete_queue, missing, excused>>
  BY DEF gap_vars, history
<1>1. Distinct(entries)'
  BY <1>0 DEF Gaps, Distinct
<1>2. HandedBack'
  <2>1. ASSUME NEW e, Contains(delete_queue, e) PROVE e[2] \in Hash
    <3>1. e \in Key
      BY <2>1, ElementsFinite
    <3> QED BY <3>1, KeyParts
  <2>2. HandedBack
    BY DEF Gaps
  <2>3. ASSUME NEW e, Contains(delete_queue', e), missing'[e[2]] = e[1], e[2] \notin excused'
        PROVE  InFlight(e[2])'
    <3>1. Contains(delete_queue, e) /\ missing[e[2]] = e[1] /\ e[2] \notin excused
      BY <1>0, <2>3
    <3>2. InFlight(e[2])
      BY <2>2, <3>1, HandedIs
    <3> QED BY <2>1, <3>1, <3>2
  <2> QED BY <1>0, <2>3, HandedIsNext
<1>3. GapsAreKept'
  BY <1>0 DEF Gaps, GapsAreKept
<1>4. WaitingIsTriggered'
  BY <1>0 DEF Gaps, WaitingIsTriggered, accepted, holds
<1> QED BY <1>1, <1>2, <1>3, <1>4 DEF Gaps

(* A step that neither changes the ledger nor a notification leaves what is
   announced; a commit only adds to what readers see. *)
LEMMA NoteFrame ==
    ASSUME Told, UNCHANGED <<version, note_vars>>, bp'.processed \subseteq bp.processed,
           committed' \in {committed, version}
    PROVE  Told'
<1>0. version' = version /\ notifications' = notifications /\ dispatching' = dispatching
  BY DEF note_vars
<1>1. ASSUME NEW set, Made(set) PROVE Made(set)'
  BY <1>0, <1>1 DEF Made
<1>2. ASSUME NEW set, Made(set), Seen(set) PROVE Seen(set)'
  BY <1>2 DEF Made, Seen
<1>3. ASSUME NEW q, Announced(q) PROVE Announced(q)'
  BY <1>1, <1>2, <1>3 DEF Announced
<1>4. Announced(notifications)' /\ Announced(dispatching)'
  BY <1>0, <1>3 DEF Told
<1>5. Made(bp.processed)'
  BY <1>0 DEF Told, Made
<1> QED BY <1>4, <1>5 DEF Told

(* The invariant, grouped by what an action may disturb. *)
LEMMA BPInvParts ==
    /\ BPInv => BPTypeOK /\ Gaps /\ Told /\ Positions /\ NotificationsBounded
    /\ (BPTypeOK /\ Gaps /\ Told /\ Positions /\ NotificationsBounded)' => BPInv'
  BY DEF BPInv, Gaps

(* A step that leaves the unchecked map and what it waits for, and loses no
   block in flight, loses no gap. *)
LEMMA CarryGaps ==
    ASSUME BPInv, bp' \in Thread, queue' \in Queue, UNCHANGED <<version, gap_vars, history>>,
           committed' \in {committed, version},
           notifications' \in Seq(Notification), dispatching' \in Seq(Notification),
           \A h \in Hash : InFlight(h) => InFlight(h)'
    PROVE  BPTypeOK' /\ Gaps'
<1>0. BPTypeOK /\ Gaps
  BY BPInvParts
<1>1. Gaps'
  BY <1>0, GapFrame DEF BPTypeOK
<1>2. UNCHANGED <<version, entries, buffer, back_buffer, delete_queue, missing, excused>>
  BY DEF gap_vars, history
<1>3. BPTypeOK'
  BY <1>0, <1>2 DEF BPTypeOK
<1> QED BY <1>1, <1>3

(* Steps that disturb neither the gaps nor the notifications. *)
LEMMA Carry ==
    ASSUME BPInv, bp' \in Thread, bp'.processed \subseteq bp.processed, queue' \in Queue,
           UNCHANGED <<version, gap_vars, history, note_vars>>,
           committed' \in {committed, version},
           \A h \in Hash : InFlight(h) => InFlight(h)', Positions'
    PROVE  BPInv'
<1>0. BPTypeOK /\ Gaps /\ Told /\ Positions /\ NotificationsBounded
  BY BPInvParts
<1>1. version' = version /\ notifications' = notifications /\ dispatching' = dispatching
      /\ UNCHANGED <<gap_vars, history>>
  BY DEF note_vars
<1>2. BPTypeOK' /\ Gaps'
  BY <1>0, <1>1, CarryGaps DEF BPTypeOK
<1>3. Told'
  BY <1>0, NoteFrame
<1>4. NotificationsBounded'
  BY <1>0, <1>1 DEF NotificationsBounded
<1> QED BY <1>2, <1>3, <1>4, BPInvParts

(* The same when the queue and the batch stay what they are. *)
LEMMA SameFlight ==
    ASSUME queue' = queue, bp'.batch = bp.batch
    PROVE  \A h \in Hash : InFlight(h) => InFlight(h)'
  BY FlightIs

-----------------------------------------------------------------------------
(* One lemma for each action.                                              *)

(* A step of the thread that only changes its place. *)
LEMMA MovesTo ==
    ASSUME BPInv, NEW p \in Place, bp' = [bp EXCEPT !.pc = p]
    PROVE  bp' \in Thread /\ bp'.pc = p /\ bp'.batch = bp.batch /\ bp'.processed = bp.processed
<1>1. bp \in Thread
  BY BPInvParts DEF BPTypeOK
<1>2. PICK x \in Thread : /\ x = [bp EXCEPT !.pc = p] /\ x.pc = p
                          /\ x.batch = bp.batch /\ x.processed = bp.processed
  BY <1>1, Moved
<1>3. bp' = x
  BY <1>2
<1> QED BY <1>2, <1>3

(* run finds work, and room for its notifications. *)
LEMMA CooldownStep ==
    ASSUME BPInv, Cooldown
    PROVE  BPInv'
<1>0. BPTypeOK /\ Positions
  BY BPInvParts
<1>1. bp' \in Thread /\ bp'.pc = "ready" /\ bp'.batch = bp.batch /\ bp'.processed = bp.processed
  <2>1. "ready" \in Place
    BY DEF Place
  <2>2. bp' = [bp EXCEPT !.pc = "ready"]
    BY DEF Cooldown
  <2> QED BY <2>1, <2>2, MovesTo
<1>2. UNCHANGED <<version, gap_vars, history, note_vars, queue, committed>>
  BY DEF Cooldown, ledger_vars, queue_vars
<1>3. Positions'
  <2>1. bp.batch = <<>> /\ Len(notifications) < max_ledger_notifications
    BY <1>0 DEF Positions, Cooldown, vacancy
  <2> QED BY <1>1, <1>2, <2>1 DEF Positions, note_vars
<1>4. queue' \in Queue /\ committed' \in {committed, version} /\ bp'.processed \subseteq bp.processed
  BY <1>0, <1>1, <1>2 DEF BPTypeOK
<1> QED BY <1>1, <1>2, <1>3, <1>4, SameFlight, Carry

(* next_batch may find the periodic_update of the queue due. *)
LEMMA PeriodicUpdateStep ==
    ASSUME BPInv, PeriodicUpdate
    PROVE  BPInv'
<1>0. BPTypeOK /\ Positions
  BY BPInvParts
<1>1. bp' \in Thread /\ bp'.pc = "take" /\ bp'.batch = bp.batch /\ bp'.processed = bp.processed
  <2>1. "take" \in Place
    BY DEF Place
  <2>2. bp' = [bp EXCEPT !.pc = "take"]
    BY DEF PeriodicUpdate
  <2> QED BY <2>1, <2>2, MovesTo
<1>2. UNCHANGED <<version, gap_vars, history, note_vars, committed>>
  BY DEF PeriodicUpdate, ledger_vars
<1>3. Positions'
  <2>1. bp.batch = <<>> /\ Len(notifications) < max_ledger_notifications
    BY <1>0 DEF Positions, PeriodicUpdate
  <2>2. Len(<<>>) <= batch_size
    BY BlockProcessingAssumption, SMTT(30)
  <2> QED BY <1>1, <1>2, <2>1, <2>2 DEF Positions, note_vars
<1>4. queue' \in Queue /\ \A h : Waits(queue, h) => Waits(queue', h)
  <2>1. queue \in Queue
    BY <1>0 DEF BPTypeOK
  <2>2. cleanup(queue) \in Queue /\ cleanup(queue).requests = queue.requests
    BY <2>1, CleanupHas
  <2>3. queue' = queue \/ queue' = cleanup(queue)
    BY DEF PeriodicUpdate
  <2> QED BY <2>1, <2>2, <2>3 DEF Waits
<1>5. \A h \in Hash : InFlight(h) => InFlight(h)'
  BY <1>1, <1>4, FlightIs
<1>6. committed' \in {committed, version} /\ bp'.processed \subseteq bp.processed
  BY <1>1, <1>2
<1> QED BY <1>1, <1>2, <1>3, <1>4, <1>5, <1>6, Carry

(* next_batch takes a block off the queue, into the batch: it stays in flight. *)
LEMMA TakeBlockStep ==
    ASSUME BPInv, TakeBlock
    PROVE  BPInv'
<1>0. BPTypeOK /\ Positions /\ queue \in Queue /\ bp \in Thread
  BY BPInvParts DEF BPTypeOK
<1>1. PICK e : e = <<next_request(queue), next_origin(queue)>>
  OBVIOUS
<1>2. /\ queue' \in Queue /\ e \in Hash \X Origin /\ e[1] = next_request(queue)
      /\ \A h : Waits(queue, h) => h = next_request(queue) \/ Waits(queue', h)
  <2>1. ~empty(queue) /\ queue' = next(queue)
    BY DEF TakeBlock, batch_complete
  <2>2. /\ next(queue) \in Queue /\ next_origin(queue) \in Origin /\ next_request(queue) \in Hash
        /\ \A h : Waits(queue, h) => h = next_request(queue) \/ Waits(next(queue), h)
    BY <1>0, <2>1, NextHas
  <2> QED BY <1>1, <2>1, <2>2
<1>3. /\ bp' \in Thread /\ bp'.pc = "take" /\ bp'.batch = Append(bp.batch, e)
      /\ bp'.processed = bp.processed
  <2>1. PICK x \in Thread : /\ x = [bp EXCEPT !.batch = Append(@, e)] /\ x.pc = bp.pc
                            /\ x.batch = Append(bp.batch, e) /\ x.processed = bp.processed
    BY <1>0, <1>2, Taken
  <2>2. bp' = [bp EXCEPT !.batch = Append(@, e)] /\ bp.pc = "take"
    BY <1>1 DEF TakeBlock
  <2>3. bp' = x
    BY <2>1, <2>2
  <2> QED BY <2>1, <2>2, <2>3
<1>4. UNCHANGED <<version, gap_vars, history, note_vars, committed>>
  BY DEF TakeBlock, ledger_vars
<1>5. Positions'
  <2>1. Len(bp.batch) <= batch_size /\ Len(notifications) < max_ledger_notifications
    BY <1>0 DEF Positions, TakeBlock
  <2>2. Len(bp.batch) # batch_size
    BY DEF TakeBlock, batch_complete
  <2>3. bp.batch \in Seq(Hash \X Origin)
    BY <1>0, ThreadFields DEF Batch
  <2>4. Len(bp.batch) \in Nat /\ Len(Append(bp.batch, e)) = Len(bp.batch) + 1
    <3>1. PICK s \in Seq(Hash \X Origin) : s = bp.batch
      BY <2>3
    <3>2. Len(s) \in Nat
      BY LenProperties
    <3>3. Len(Append(s, e)) = Len(s) + 1
      BY <1>2, AppendHas
    <3> QED BY <3>1, <3>2, <3>3
  <2>5. PICK l, m : l = Len(bp.batch) /\ m = Len(bp'.batch)
    OBVIOUS
  <2>6. m <= batch_size
    <3>1. l \in Nat /\ m = l + 1 /\ l <= batch_size /\ l # batch_size /\ batch_size \in Nat
      BY <1>3, <2>1, <2>2, <2>4, <2>5, BlockProcessingAssumption
    <3> QED BY <3>1, SMTT(30)
  <2> QED BY <1>3, <1>4, <2>1, <2>5, <2>6 DEF Positions, note_vars
<1>6. \A h \in Hash : InFlight(h) => InFlight(h)'
  <2>1. \A h : InBatch(bp'.batch, h) <=> InBatch(bp.batch, h) \/ e[1] = h
    <3>1. PICK s \in Batch : s = bp.batch
      BY <1>0, ThreadFields
    <3>2. \A h : InBatch(Append(s, e), h) <=> InBatch(s, h) \/ e[1] = h
      BY <1>2, BatchTaken
    <3> QED BY <1>3, <3>1, <3>2
  <2> QED BY <1>2, <2>1, FlightIs
<1>7. committed' \in {committed, version} /\ bp'.processed \subseteq bp.processed
  BY <1>3, <1>4
<1> QED BY <1>2, <1>3, <1>4, <1>5, <1>6, <1>7, Carry

(* process_batch asks for its turn to write with a batch that is complete. *)
LEMMA BeginWriteStep ==
    ASSUME BPInv, BeginWrite
    PROVE  BPInv'
<1>0. BPTypeOK /\ Positions /\ bp \in Thread
  BY BPInvParts DEF BPTypeOK
<1>1. bp' \in Thread /\ bp'.pc = "process" /\ bp'.batch = bp.batch /\ bp'.processed = bp.processed
  <2>1. "process" \in Place
    BY DEF Place
  <2>2. bp' = [bp EXCEPT !.pc = "process"]
    BY DEF BeginWrite
  <2> QED BY <2>1, <2>2, MovesTo
<1>2. UNCHANGED <<version, gap_vars, history, note_vars, queue, committed>>
  BY DEF BeginWrite, ledger_vars, queue_vars
<1>3. Positions'
  <2>1. PICK l, m : l = Len(bp.batch) /\ m = Len(notifications)
    OBVIOUS
  <2>2. l \in Nat /\ m \in Nat
    <3>1. bp.batch \in Seq(Hash \X Origin) /\ notifications \in Seq(Notification)
      BY <1>0, ThreadFields DEF Batch, BPTypeOK
    <3> QED BY <2>1, <3>1, LenProperties
  <2>3. l <= batch_size /\ m < max_ledger_notifications
    BY <1>0, <2>1 DEF Positions, BeginWrite
  <2>4. m + l < max_ledger_notifications + batch_size
    BY <2>2, <2>3, BlockProcessingAssumption, NotificationsAssumption, SMTT(30)
  <2> QED BY <1>1, <1>2, <2>1, <2>4 DEF Positions, note_vars
<1>4. queue' \in Queue /\ committed' \in {committed, version} /\ bp'.processed \subseteq bp.processed
  BY <1>0, <1>1, <1>2 DEF BPTypeOK
<1> QED BY <1>1, <1>2, <1>3, <1>4, SameFlight, Carry

(* The write transaction is refreshed: what was written is committed. *)
LEMMA RefreshStep ==
    ASSUME BPInv, Refresh
    PROVE  BPInv'
<1>0. BPTypeOK /\ Positions /\ bp \in Thread
  BY BPInvParts DEF BPTypeOK
<1>1. bp' \in Thread /\ bp'.pc = "renew" /\ bp'.batch = bp.batch /\ bp'.processed = bp.processed
  <2>1. "renew" \in Place
    BY DEF Place
  <2>2. PICK x \in Thread : /\ x = [bp EXCEPT !.pc = "renew", !.refreshed = TRUE] /\ x.pc = "renew"
                            /\ x.batch = bp.batch /\ x.processed = bp.processed
    BY <1>0, <2>1, MovedBack
  <2>3. bp' = [bp EXCEPT !.pc = "renew", !.refreshed = TRUE]
    BY DEF Refresh
  <2>4. bp' = x
    BY <2>2, <2>3
  <2> QED BY <2>2, <2>4
<1>2. UNCHANGED <<version, gap_vars, history, note_vars, queue>> /\ committed' = version
  BY DEF Refresh, commit, queue_vars
<1>3. Positions'
  <2>1. Len(notifications) + Len(bp.batch) < max_ledger_notifications + batch_size
    BY <1>0 DEF Positions, Refresh
  <2> QED BY <1>1, <1>2, <2>1 DEF Positions, note_vars
<1>4. queue' \in Queue /\ committed' \in {committed, version} /\ bp'.processed \subseteq bp.processed
  BY <1>0, <1>1, <1>2 DEF BPTypeOK
<1>5. UNCHANGED <<version, gap_vars, history, note_vars>>
  BY <1>2
<1> QED BY <1>1, <1>2, <1>3, <1>4, <1>5, SameFlight, Carry

(* The write transaction ends with the batch. *)
LEMMA CommitStep ==
    ASSUME BPInv, Commit
    PROVE  BPInv'
<1>0. BPTypeOK /\ Positions
  BY BPInvParts DEF BPTypeOK
<1>1. bp' \in Thread /\ bp'.pc = "resolve" /\ bp'.batch = bp.batch /\ bp'.processed = bp.processed
  <2>1. "resolve" \in Place
    BY DEF Place
  <2>2. bp' = [bp EXCEPT !.pc = "resolve"]
    BY DEF Commit
  <2> QED BY <2>1, <2>2, MovesTo
<1>2. UNCHANGED <<version, gap_vars, history, note_vars, queue>> /\ committed' = version
  BY DEF Commit, commit, queue_vars
<1>3. Positions'
  <2>1. bp.batch = <<>>
    BY <1>0 DEF Positions, Commit
  <2> QED BY <1>1, <1>2, <2>1 DEF Positions, note_vars
<1>4. queue' \in Queue /\ committed' \in {committed, version} /\ bp'.processed \subseteq bp.processed
  BY <1>0, <1>1, <1>2 DEF BPTypeOK
<1>5. UNCHANGED <<version, gap_vars, history, note_vars>>
  BY <1>2
<1> QED BY <1>1, <1>2, <1>3, <1>4, <1>5, SameFlight, Carry

(* Steps of other threads that the block processing thread does not see. *)
LEMMA OtherSteps ==
    ASSUME BPInv, queue' \in Queue, \A h : Waits(queue, h) => Waits(queue', h),
           UNCHANGED <<version, gap_vars, history, note_vars, committed, bp>>
    PROVE  BPInv'
<1>0. BPTypeOK /\ Positions
  BY BPInvParts
<1>1. Positions'
  BY <1>0 DEF Positions, note_vars
<1>2. bp' \in Thread /\ bp'.processed \subseteq bp.processed /\ committed' \in {committed, version}
  BY <1>0 DEF BPTypeOK
<1>3. \A h \in Hash : InFlight(h) => InFlight(h)'
  BY FlightIs
<1>4. UNCHANGED <<version, gap_vars, history, note_vars>>
  OBVIOUS
<1> QED BY <1>1, <1>2, <1>3, <1>4, Carry

(* block_processor::add and force push into the queue. *)
LEMMA ArrivalStep ==
    ASSUME BPInv, \/ \E h \in Arriving : Add(h)
                  \/ \E h \in Winners : ForceBlock(h)
    PROVE  BPInv'
<1>0. queue \in Queue
  BY BPInvParts DEF BPTypeOK
<1>1. PICK h \in Hash, o \in Origin : queue' = push(queue, h, o)
  BY BlockProcessingAssumption DEF Add, ForceBlock, add_impl
<1>2. queue' \in Queue /\ \A x : Waits(queue, x) => Waits(queue', x)
  BY <1>0, <1>1, PushHas
<1>3. UNCHANGED <<version, gap_vars, history, note_vars, committed, bp>>
  BY DEF Add, ForceBlock, ledger_vars
<1> QED BY <1>2, <1>3, OtherSteps

(* The cementing set changes nothing that the invariant speaks of. *)
LEMMA CementingStep ==
    ASSUME BPInv, BeginCementing \/ Cement
    PROVE  BPInv'
<1>0. queue \in Queue
  BY BPInvParts DEF BPTypeOK
<1>1. UNCHANGED <<version, gap_vars, history, note_vars, committed, bp>> /\ queue' = queue
  BY DEF BeginCementing, Cement, ledger_vars, queue_vars
<1> QED BY <1>0, <1>1, OtherSteps

-----------------------------------------------------------------------------
(* The notifications.                                                      *)

(* A commit resolves all of them. *)
LEMMA ResolveHas ==
    ASSUME NEW q \in Seq(Notification)
    PROVE  \E x \in Seq(Notification) :
              /\ x = resolve(q, "block_processor") /\ Len(x) = Len(q)
              /\ DOMAIN x = DOMAIN q /\ \A i \in DOMAIN q : x[i].changes = q[i].changes
<1>1. PICK n \in Nat : n = Len(q) /\ DOMAIN q = 1 .. n /\ q \in [1 .. n -> Notification]
  BY SMTT(30)
<1>2. PICK x : x = resolve(q, "block_processor")
  OBVIOUS
<1>3. ASSUME NEW i \in 1 .. n
      PROVE  x[i] \in Notification /\ x[i].changes = q[i].changes
  <2>1. PICK e \in Notification : e = q[i]
    BY <1>1
  <2>2. e.writer = "block_processor"
    BY DEF Notification
  <2>3. x[i] = [e EXCEPT !.committed = TRUE]
    BY <1>1, <1>2, <2>1, <2>2 DEF resolve
  <2>4. [e EXCEPT !.committed = TRUE] \in Notification
    BY DEF Notification
  <2>5. [e EXCEPT !.committed = TRUE].changes = e.changes
    BY SMTT(30) DEF Notification
  <2> QED BY <2>1, <2>3, <2>4, <2>5
<1>4. x = [i \in 1 .. n |-> x[i]]
  BY <1>1, <1>2 DEF resolve
<1>5. x \in [1 .. n -> Notification]
  BY <1>3, <1>4
<1>6. x \in Seq(Notification) /\ Len(x) = n /\ DOMAIN x = 1 .. n
  BY <1>1, <1>5, SMTT(30)
<1> QED BY <1>1, <1>2, <1>3, <1>6

(* What is announced, without positions. *)
LEMMA AnnouncedIs ==
    ASSUME NEW q \in Seq(Notification)
    PROVE  Announced(q) <=>
              \A e : Contains(q, e) => Made(e.changes) /\ (e.committed => Seen(e.changes))
<1>0. DOMAIN q = 1 .. Len(q)
  BY LenProperties
<1>1. ASSUME Announced(q), NEW e, Contains(q, e)
      PROVE  Made(e.changes) /\ (e.committed => Seen(e.changes))
  BY <1>0, <1>1 DEF Announced, Contains
<1>2. ASSUME \A e : Contains(q, e) => Made(e.changes) /\ (e.committed => Seen(e.changes))
      PROVE  Announced(q)
  <2>1. ASSUME NEW i \in DOMAIN q
        PROVE  Made(q[i].changes) /\ (q[i].committed => Seen(q[i].changes))
    <3>1. Contains(q, q[i])
      BY <1>0 DEF Contains
    <3> QED BY <1>2, <3>1
  <2> QED BY <2>1 DEF Announced
<1> QED BY <1>1, <1>2

(* The same after a step. *)
LEMMA AnnouncedNext ==
    /\ notifications' \in Seq(Notification) =>
         (Announced(notifications)' <=>
            \A e : Contains(notifications', e) => Made(e.changes)' /\ (e.committed => Seen(e.changes)'))
    /\ dispatching' \in Seq(Notification) =>
         (Announced(dispatching)' <=>
            \A e : Contains(dispatching', e) => Made(e.changes)' /\ (e.committed => Seen(e.changes)'))
<1>1. ASSUME NEW q \in Seq(Notification)
      PROVE  (\A i \in DOMAIN q : Made(q[i].changes)' /\ (q[i].committed => Seen(q[i].changes)')) <=>
             (\A e : Contains(q, e) => Made(e.changes)' /\ (e.committed => Seen(e.changes)'))
  <2>0. DOMAIN q = 1 .. Len(q)
    BY LenProperties
  <2>1. ASSUME \A i \in DOMAIN q : Made(q[i].changes)' /\ (q[i].committed => Seen(q[i].changes)'),
               NEW e, Contains(q, e)
        PROVE  Made(e.changes)' /\ (e.committed => Seen(e.changes)')
    <3>1. PICK i \in DOMAIN q : e = q[i]
      BY <2>0, <2>1 DEF Contains
    <3> QED BY <2>1, <3>1
  <2>2. ASSUME \A e : Contains(q, e) => Made(e.changes)' /\ (e.committed => Seen(e.changes)'),
               NEW i \in DOMAIN q
        PROVE  Made(q[i].changes)' /\ (q[i].committed => Seen(q[i].changes)')
    <3>1. Contains(q, q[i])
      BY <2>0, <2>2 DEF Contains
    <3> QED BY <2>2, <3>1
  <2> QED BY <2>1, <2>2
<1>2. ASSUME NEW q, q = notifications'
      PROVE  Announced(notifications)' <=>
                \A i \in DOMAIN q : Made(q[i].changes)' /\ (q[i].committed => Seen(q[i].changes)')
  BY <1>2 DEF Announced, Made, Seen
<1>3. ASSUME NEW q, q = dispatching'
      PROVE  Announced(dispatching)' <=>
                \A i \in DOMAIN q : Made(q[i].changes)' /\ (q[i].committed => Seen(q[i].changes)')
  BY <1>3 DEF Announced, Made, Seen
<1> QED BY <1>1, <1>2, <1>3

(* What holds of the announcements depends only on the ledger. *)
LEMMA LedgerFrame ==
    ASSUME version' = version, committed' = committed
    PROVE  /\ \A set : Made(set)' <=> Made(set)
           /\ \A set : Seen(set)' <=> Seen(set)
           /\ \A q : Announced(q)' <=> Announced(q)
<1>1. ASSUME NEW set PROVE (Made(set)' <=> Made(set)) /\ (Seen(set)' <=> Seen(set))
  BY DEF Made, Seen
<1> QED BY <1>1 DEF Announced

(* Resolving the futures, once all is committed, announces nothing new. *)
LEMMA ResolveTells ==
    ASSUME BPInv, version' = version, committed' = committed, committed = version, resolve_all
    PROVE  /\ notifications' \in Seq(Notification) /\ dispatching' \in Seq(Notification)
           /\ Announced(notifications)' /\ Announced(dispatching)'
           /\ Len(notifications') = Len(notifications)
           /\ DOMAIN dispatching' = DOMAIN dispatching
<1>0. /\ notifications \in Seq(Notification) /\ dispatching \in Seq(Notification)
      /\ Announced(notifications) /\ Announced(dispatching)
  BY BPInvParts DEF BPTypeOK, Told
<1>1. ASSUME NEW q \in Seq(Notification), Announced(q), NEW x, x = resolve(q, "block_processor")
      PROVE  /\ x \in Seq(Notification) /\ Announced(x)' /\ Len(x) = Len(q)
             /\ DOMAIN x = DOMAIN q
  <2>1. /\ x \in Seq(Notification) /\ Len(x) = Len(q) /\ DOMAIN x = DOMAIN q
        /\ \A i \in DOMAIN q : x[i].changes = q[i].changes
    BY <1>1, ResolveHas
  <2>2. ASSUME NEW i \in DOMAIN x PROVE Made(x[i].changes) /\ Seen(x[i].changes)
    <3>1. Made(q[i].changes)
      BY <1>1, <2>1, <2>2 DEF Announced
    <3>2. Seen(q[i].changes)
      BY <3>1 DEF Made, Seen
    <3> QED BY <2>1, <2>2, <3>1, <3>2
  <2>3. Announced(x)
    BY <2>2 DEF Announced
  <2> QED BY <2>1, <2>3, LedgerFrame
<1>2. PICK a, b : a = resolve(notifications, "block_processor") /\ b = resolve(dispatching, "block_processor")
  OBVIOUS
<1>3. notifications' = a /\ dispatching' = b
  BY <1>2 DEF resolve_all
<1>4. a \in Seq(Notification) /\ Announced(a)' /\ Len(a) = Len(notifications)
  BY <1>0, <1>1, <1>2
<1>5. b \in Seq(Notification) /\ Announced(b)' /\ DOMAIN b = DOMAIN dispatching
  BY <1>0, <1>1, <1>2
<1>6. Announced(notifications)' /\ Announced(dispatching)'
  <2>1. (\A i \in DOMAIN a : Made(a[i].changes)' /\ (a[i].committed => Seen(a[i].changes)'))
    BY <1>4 DEF Announced, Made, Seen
  <2>2. (\A i \in DOMAIN b : Made(b[i].changes)' /\ (b[i].committed => Seen(b[i].changes)'))
    BY <1>5 DEF Announced, Made, Seen
  <2> QED BY <1>3, <2>1, <2>2 DEF Announced, Made, Seen
<1> QED BY <1>3, <1>4, <1>5, <1>6

(* Renewing the transaction resolves the futures after its commit. *)
LEMMA RenewStep ==
    ASSUME BPInv, Renew
    PROVE  BPInv'
<1>0. BPTypeOK /\ Positions /\ Told /\ NotificationsBounded /\ bp \in Thread
  BY BPInvParts DEF BPTypeOK
<1>1. bp' \in Thread /\ bp'.pc = "process" /\ bp'.batch = bp.batch /\ bp'.processed = bp.processed
  <2>1. "process" \in Place
    BY DEF Place
  <2>2. bp' = [bp EXCEPT !.pc = "process"]
    BY DEF Renew
  <2> QED BY <2>1, <2>2, MovesTo
<1>2. /\ UNCHANGED <<version, gap_vars, history, queue, committed>>
      /\ committed = version /\ resolve_all /\ bp.pc = "renew"
  BY <1>0 DEF Renew, ledger_vars, queue_vars, Positions
<1>3. /\ notifications' \in Seq(Notification) /\ dispatching' \in Seq(Notification)
      /\ Announced(notifications)' /\ Announced(dispatching)'
      /\ Len(notifications') = Len(notifications)
  BY <1>2, ResolveTells
<1>4. Told'
  <2>1. Made(bp.processed)'
    BY <1>0, <1>1, <1>2 DEF Told, Made
  <2> QED BY <1>3, <2>1 DEF Told
<1>5. Positions'
  <2>1. Len(notifications) + Len(bp.batch) < max_ledger_notifications + batch_size
    BY <1>0, <1>2 DEF Positions
  <2> QED BY <1>1, <1>3, <2>1 DEF Positions
<1>6. NotificationsBounded'
  BY <1>0, <1>3 DEF NotificationsBounded
<1>7. queue' \in Queue /\ committed' \in {committed, version} /\ UNCHANGED <<version, gap_vars, history>>
  BY <1>0, <1>2 DEF BPTypeOK
<1>8. BPTypeOK' /\ Gaps'
  BY <1>1, <1>2, <1>3, <1>7, SameFlight, CarryGaps
<1> QED BY <1>4, <1>5, <1>6, <1>8, BPInvParts

(* The futures of a batch are resolved after its commit. *)
LEMMA ResolveStep ==
    ASSUME BPInv, Resolve
    PROVE  BPInv'
<1>0. BPTypeOK /\ Positions /\ Told /\ NotificationsBounded
  BY BPInvParts
<1>1. bp' \in Thread /\ bp'.pc = "idle" /\ bp'.batch = bp.batch /\ bp'.batch = <<>> /\ bp'.processed = {}
  <2>1. bp.batch = <<>> /\ bp' = Idle
    BY <1>0 DEF Positions, Resolve
  <2> QED BY <2>1, IdleThread
<1>2. /\ UNCHANGED <<version, gap_vars, history, queue, committed>>
      /\ committed = version /\ resolve_all
  BY <1>0 DEF Resolve, ledger_vars, queue_vars, Positions
<1>3. /\ notifications' \in Seq(Notification) /\ dispatching' \in Seq(Notification)
      /\ Announced(notifications)' /\ Announced(dispatching)'
      /\ Len(notifications') = Len(notifications)
  BY <1>2, ResolveTells
<1>4. Told'
  <2>1. Made(bp.processed)'
    BY <1>1 DEF Made
  <2> QED BY <1>3, <2>1 DEF Told
<1>5. Positions'
  BY <1>1 DEF Positions
<1>6. NotificationsBounded'
  BY <1>0, <1>3 DEF NotificationsBounded
<1>7. queue' \in Queue /\ committed' \in {committed, version} /\ UNCHANGED <<version, gap_vars, history>>
  BY <1>0, <1>2 DEF BPTypeOK
<1>8. BPTypeOK' /\ Gaps'
  BY <1>1, <1>2, <1>3, <1>7, SameFlight, CarryGaps
<1> QED BY <1>4, <1>5, <1>6, <1>8, BPInvParts

(* Queueing a notification, which is not committed. *)
LEMMA QueuedElements ==
    ASSUME NEW q \in Seq(Notification), NEW c \in SUBSET Change
    PROVE  \E x, e : /\ x = queued(q, "block_processor", c)
                     /\ x \in Seq(Notification) /\ Len(x) = Len(q) + 1
                     /\ e.changes = c /\ e.committed = FALSE
                     /\ \A y : Contains(x, y) <=> Contains(q, y) \/ y = e
<1>1. PICK e : e = [writer |-> "block_processor", changes |-> c, committed |-> FALSE]
  OBVIOUS
<1>2. e \in Notification /\ e.changes = c /\ e.committed = FALSE
  BY <1>1 DEF Notification
<1>3. queued(q, "block_processor", c) = Append(q, e)
  BY <1>1 DEF queued
<1>4. /\ Append(q, e) \in Seq(Notification) /\ Len(Append(q, e)) = Len(q) + 1
      /\ \A y : Contains(Append(q, e), y) <=> Contains(q, y) \/ y = e
  BY <1>2, AppendHas
<1> QED BY <1>2, <1>3, <1>4

(* A notification of changes that were made. *)
LEMMA QueuedHas ==
    ASSUME NEW q \in Seq(Notification), NEW c \in SUBSET Change, NEW x,
           x = queued(q, "block_processor", c)
    PROVE  /\ x \in Seq(Notification) /\ Len(x) = Len(q) + 1 /\ Len(q) \in Nat
           /\ Announced(q) /\ Made(c) => Announced(x)
<1>1. PICK e : /\ x \in Seq(Notification) /\ Len(x) = Len(q) + 1
               /\ e.changes = c /\ e.committed = FALSE
               /\ \A y : Contains(x, y) <=> Contains(q, y) \/ y = e
  <2>1. PICK z, e : /\ z = queued(q, "block_processor", c)
                    /\ z \in Seq(Notification) /\ Len(z) = Len(q) + 1
                    /\ e.changes = c /\ e.committed = FALSE
                    /\ \A y : Contains(z, y) <=> Contains(q, y) \/ y = e
    BY QueuedElements
  <2>2. z = x
    BY <2>1
  <2> QED BY <2>1, <2>2
<1>2. ASSUME Announced(q), Made(c) PROVE Announced(x)
  <2>1. \A y : Contains(q, y) => Made(y.changes) /\ (y.committed => Seen(y.changes))
    BY <1>2, AnnouncedIs
  <2>2. \A y : Contains(x, y) => Made(y.changes) /\ (y.committed => Seen(y.changes))
    BY <1>1, <1>2, <2>1
  <2> QED BY <1>1, <2>2, AnnouncedIs
<1>3. Len(q) \in Nat
  BY LenProperties
<1> QED BY <1>1, <1>2, <1>3

(* ledger_notifications::notify_processed queues what was processed. *)
LEMMA NotifyStep ==
    ASSUME BPInv, Notify
    PROVE  BPInv'
<1>0. /\ BPTypeOK /\ Positions /\ Told /\ NotificationsBounded /\ bp \in Thread
      /\ notifications \in Seq(Notification) /\ dispatching \in Seq(Notification)
  BY BPInvParts DEF BPTypeOK
<1>1. bp' \in Thread /\ bp'.pc = "commit" /\ bp'.batch = bp.batch /\ bp'.processed = bp.processed
  <2>1. "commit" \in Place
    BY DEF Place
  <2>2. bp' = [bp EXCEPT !.pc = "commit"]
    BY DEF Notify
  <2> QED BY <2>1, <2>2, MovesTo
<1>2. /\ UNCHANGED <<version, gap_vars, history, queue, committed, dispatching>>
      /\ bp.pc = "process" /\ bp.batch = <<>>
      /\ notifications' = queued(notifications, "block_processor", bp.processed)
  BY DEF Notify, ledger_vars, queue_vars
<1>3. /\ notifications' \in Seq(Notification) /\ Len(notifications') = Len(notifications) + 1
      /\ Len(notifications) \in Nat
      /\ Announced(notifications')
  <2>1. bp.processed \in SUBSET Change
    BY <1>0, ThreadFields
  <2>2. PICK x : x = queued(notifications, "block_processor", bp.processed)
    OBVIOUS
  <2>3. /\ x \in Seq(Notification) /\ Len(x) = Len(notifications) + 1 /\ Len(notifications) \in Nat
        /\ Announced(notifications) /\ Made(bp.processed) => Announced(x)
    BY <1>0, <2>1, <2>2, QueuedHas
  <2> QED BY <1>0, <1>2, <2>2, <2>3 DEF Told
<1>4. Told'
  <2>1. Made(bp.processed)'
    BY <1>0, <1>1, <1>2 DEF Told, Made
  <2>2. Announced(notifications)' /\ Announced(dispatching)'
    BY <1>0, <1>2, <1>3 DEF Told, Announced, Made, Seen
  <2> QED BY <2>1, <2>2 DEF Told
<1>5. Positions'
  BY <1>1, <1>2 DEF Positions
<1>6. NotificationsBounded'
  <2>1. PICK l, m : l = Len(notifications) /\ m = Len(notifications')
    OBVIOUS
  <2>2. l + Len(<<>>) < max_ledger_notifications + batch_size
    BY <1>0, <1>2, <2>1 DEF Positions
  <2>3. l \in Nat /\ m = l + 1 /\ batch_size \in Nat /\ max_ledger_notifications \in Nat
    BY <1>3, <2>1, BlockProcessingAssumption, NotificationsAssumption
  <2>4. m < max_ledger_notifications + batch_size + 1
    BY <2>2, <2>3, SMTT(30)
  <2> QED BY <2>1, <2>4 DEF NotificationsBounded
<1>7. /\ queue' \in Queue /\ committed' \in {committed, version} /\ UNCHANGED <<version, gap_vars, history>>
      /\ dispatching' \in Seq(Notification)
  BY <1>0, <1>2 DEF BPTypeOK
<1>8. BPTypeOK' /\ Gaps'
  BY <1>1, <1>2, <1>3, <1>7, SameFlight, CarryGaps
<1> QED BY <1>4, <1>5, <1>6, <1>8, BPInvParts

(* The thread of the notifications only takes them. *)
LEMMA NotifierCarry ==
    ASSUME BPInv, UNCHANGED <<version, gap_vars, history, queue, committed, bp>>,
           notifications' \in Seq(Notification), dispatching' \in Seq(Notification),
           Announced(notifications'), Announced(dispatching'),
           Len(notifications') <= Len(notifications)
    PROVE  BPInv'
<1>0. /\ BPTypeOK /\ Positions /\ Told /\ NotificationsBounded /\ bp \in Thread
      /\ notifications \in Seq(Notification)
  BY BPInvParts DEF BPTypeOK
<1>1. PICK l, m, k : l = Len(notifications) /\ m = Len(notifications') /\ k = Len(bp.batch)
  OBVIOUS
<1>2. l \in Nat /\ m \in Nat /\ k \in Nat /\ m <= l
  <2>1. bp.batch \in Seq(Hash \X Origin)
    BY <1>0, ThreadFields DEF Batch
  <2> QED BY <1>0, <1>1, <2>1, LenProperties
<1>3. batch_size \in Nat /\ max_ledger_notifications \in Nat
  BY BlockProcessingAssumption, NotificationsAssumption
<1>4. /\ l < max_ledger_notifications => m < max_ledger_notifications
      /\ l + k < max_ledger_notifications + batch_size => m + k < max_ledger_notifications + batch_size
      /\ l < max_ledger_notifications + batch_size + 1 => m < max_ledger_notifications + batch_size + 1
  BY <1>2, <1>3, SMTT(30)
<1>5. Positions'
  BY <1>0, <1>1, <1>4 DEF Positions
<1>6. NotificationsBounded'
  BY <1>0, <1>1, <1>4 DEF NotificationsBounded
<1>7. Told'
  <2>1. Made(bp.processed)'
    BY <1>0 DEF Told, Made
  <2>2. Announced(notifications)' /\ Announced(dispatching)'
    BY DEF Announced, Made, Seen
  <2> QED BY <2>1, <2>2 DEF Told
<1>8. BPTypeOK' /\ Gaps'
  <2>1. /\ bp' \in Thread /\ queue' \in Queue /\ UNCHANGED <<version, gap_vars, history>>
        /\ committed' \in {committed, version} /\ bp'.batch = bp.batch
    BY <1>0 DEF BPTypeOK
  <2> QED BY <2>1, SameFlight, CarryGaps
<1> QED BY <1>5, <1>6, <1>7, <1>8, BPInvParts

(* The thread of the notifications swaps the queue out. *)
LEMMA TakeNotificationStep ==
    ASSUME BPInv, TakeNotification
    PROVE  BPInv'
<1>0. /\ Told /\ notifications \in Seq(Notification) /\ dispatching \in Seq(Notification)
      /\ notifications # <<>>
  BY BPInvParts DEF BPTypeOK, TakeNotification, Take
<1>1. UNCHANGED <<version, gap_vars, history, queue, committed, bp>>
  BY DEF TakeNotification, ledger_vars, queue_vars
<1>2. PICK t, e : t = Tail(notifications) /\ e = Head(notifications)
  OBVIOUS
<1>3. notifications' = t /\ dispatching' = <<e>>
  BY <1>2 DEF TakeNotification, Take
<1>4. /\ t \in Seq(Notification) /\ e \in Notification /\ Len(t) = Len(notifications) - 1
      /\ \A y : Contains(notifications, y) <=> y = e \/ Contains(t, y)
  BY <1>0, <1>2, TailHas
<1>5. Len(notifications) \in Nat
  BY <1>0, LenProperties
<1>6. Len(t) <= Len(notifications)
  BY <1>4, <1>5, SMTT(30)
<1>7. <<e>> \in Seq(Notification) /\ \A y : Contains(<<e>>, y) <=> y = e
  <2>1. <<e>> \in Seq(Notification) /\ Len(<<e>>) = 1 /\ <<e>>[1] = e /\ 1 .. 1 = {1}
    BY <1>4, SMTT(30)
  <2> QED BY <2>1 DEF Contains
<1>8. \A y : Contains(notifications, y) => Made(y.changes) /\ (y.committed => Seen(y.changes))
  BY <1>0, AnnouncedIs DEF Told
<1>9. Announced(t) /\ Announced(<<e>>)
  BY <1>4, <1>7, <1>8, AnnouncedIs
<1> QED BY <1>1, <1>3, <1>4, <1>6, <1>7, <1>9, NotifierCarry

(* It calls the observers of one entry. *)
LEMMA ObserveStep ==
    ASSUME BPInv, Observe
    PROVE  BPInv'
<1>0. Told /\ notifications \in Seq(Notification)
  BY BPInvParts DEF BPTypeOK
<1>1. UNCHANGED <<version, gap_vars, history, queue, committed, bp>>
  BY DEF Observe, ledger_vars, queue_vars
<1>2. notifications' = notifications /\ dispatching' = <<>>
  BY DEF Observe, Dispatch
<1>3. <<>> \in Seq(Notification) /\ Announced(<<>>)
  <2>1. <<>> \in Seq(Notification) /\ DOMAIN <<>> = {}
    BY SMTT(30)
  <2> QED BY <2>1 DEF Announced
<1>4. Len(notifications) <= Len(notifications)
  <2>1. Len(notifications) \in Nat
    BY <1>0, LenProperties
  <2> QED BY <2>1, SMTT(30)
<1> QED BY <1>0, <1>1, <1>2, <1>3, <1>4, NotifierCarry DEF Told

-----------------------------------------------------------------------------
(* The thread of the unchecked map.                                        *)

(* It changes only the gaps, and the queue. *)
LEMMA UncheckedCarry ==
    ASSUME BPInv, UNCHANGED <<version, committed, note_vars, bp, missing>>, queue' \in Queue,
           entries' \in Seq(Key), delete_queue' \in Seq(Key),
           buffer' \in Seq(Trigger), back_buffer' \in Seq(Trigger), excused' \subseteq Hash, Gaps'
    PROVE  BPInv'
<1>0. BPTypeOK /\ Positions /\ Told /\ NotificationsBounded
  BY BPInvParts
<1>1. notifications' = notifications /\ dispatching' = dispatching
  BY DEF note_vars
<1>2. BPTypeOK'
  BY <1>0, <1>1 DEF BPTypeOK
<1>3. Positions' /\ NotificationsBounded'
  BY <1>0, <1>1 DEF Positions, NotificationsBounded
<1>4. Told'
  BY <1>0, NoteFrame
<1> QED BY <1>2, <1>3, <1>4, BPInvParts

(* unchecked_map::run swaps its buffers. *)
LEMMA TakeTriggersStep ==
    ASSUME BPInv, TakeTriggers
    PROVE  BPInv'
<1>0. BPTypeOK /\ Gaps
  BY BPInvParts
<1>1. /\ UNCHANGED <<version, committed, note_vars, bp, missing, excused, queue>>
      /\ entries' = entries /\ delete_queue' = delete_queue
      /\ back_buffer = <<>> /\ back_buffer' = buffer /\ buffer' = <<>>
  BY DEF TakeTriggers, Swap, ledger_vars, queue_vars, history
<1>2. \A h \in Hash : InFlight(h) <=> InFlight(h)'
  BY <1>1, FlightIs
<1>3. ASSUME NEW y PROVE ~Contains(<<>>, y)
  <2>1. 1 .. Len(<<>>) = {}
    BY SMTT(30)
  <2> QED BY <2>1 DEF Contains
<1>4. WaitingIsTriggered'
  <2>1. entries \in Seq(Key) /\ entries' \in Seq(Key)
    BY <1>0, <1>1 DEF BPTypeOK
  <2>2. \A e : Contains(entries, e) /\ e[1] \in accepted =>
          Contains(buffer, e[1]) \/ Contains(back_buffer, e[1]) \/ Contains(delete_queue, e)
    BY <1>0, <2>1, WaitingIs DEF Gaps
  <2>3. accepted' = accepted
    BY <1>1 DEF accepted, holds
  <2>4. \A e : Contains(entries', e) /\ e[1] \in accepted' =>
          Contains(buffer', e[1]) \/ Contains(back_buffer', e[1]) \/ Contains(delete_queue', e)
    BY <1>1, <1>3, <2>2, <2>3
  <2> QED BY <2>1, <2>4, WaitingIsNext
<1>5. HandedBack'
  <2>1. delete_queue \in Seq(Key) /\ delete_queue' \in Seq(Key)
    BY <1>0, <1>1 DEF BPTypeOK
  <2>2. ASSUME NEW e, Contains(delete_queue', e), missing'[e[2]] = e[1] /\ e[2] \notin excused'
        PROVE  InFlight(e[2])'
    <3>1. InFlight(e[2])
      BY <1>0, <1>1, <2>1, <2>2, HandedIs DEF Gaps
    <3>2. e \in Key
      BY <1>1, <2>1, <2>2, ElementsFinite
    <3> QED BY <1>2, <3>1, <3>2, KeyParts
  <2> QED BY <2>1, <2>2, HandedIsNext
<1>6. GapsAreKept' /\ Distinct(entries)'
  BY <1>0, <1>1, <1>2 DEF Gaps, GapsAreKept, Distinct
<1>7. /\ queue' \in Queue /\ entries' \in Seq(Key) /\ delete_queue' \in Seq(Key)
      /\ buffer' \in Seq(Trigger) /\ back_buffer' \in Seq(Trigger) /\ excused' \subseteq Hash
  <2>1. <<>> \in Seq(Trigger)
    BY EmptySeq
  <2> QED BY <1>0, <1>1, <2>1 DEF BPTypeOK
<1> QED BY <1>1, <1>4, <1>5, <1>6, <1>7, UncheckedCarry DEF Gaps

(* The blocks that are handed out, and the hashes that are queued. *)
LEMMA SatisfiedHas ==
    ASSUME entries \in Seq(Key), NEW hashes, hashes = [i \in DOMAIN satisfied |-> satisfied[i][2]]
    PROVE  /\ satisfied \in Seq(Key) /\ hashes \in Seq(Hash) /\ Len(hashes) \in Nat
           /\ \A e : Contains(satisfied, e) <=> Contains(entries, e) /\ e[1] = Head(back_buffer)
           /\ \A e : Contains(satisfied, e) => \E i \in 1 .. Len(hashes) : hashes[i] = e[2]
<1>1. PICK S : S = {e \in ToSet(entries) : e[1] = Head(back_buffer)}
  OBVIOUS
<1>2. /\ IsFiniteSet(ToSet(entries)) /\ ToSet(entries) \subseteq Key
      /\ \A y : Contains(entries, y) <=> y \in ToSet(entries)
  BY ElementsFinite
<1>3. IsFiniteSet(S) /\ S \subseteq Key
  <2>1. S \subseteq ToSet(entries)
    BY <1>1
  <2> QED BY <1>2, <2>1, FS_Subset
<1>4. satisfied \in Seq(S) /\ \A y : Contains(satisfied, y) <=> y \in S
  BY <1>1, <1>3, ListHas DEF satisfied
<1>5. PICK t, n : t = satisfied /\ n = Len(satisfied)
  OBVIOUS
<1>6. n \in Nat /\ DOMAIN t = 1 .. n /\ t \in Seq(S) /\ n = Len(t)
  BY <1>4, <1>5, LenProperties
<1>7. \A i \in 1 .. n : t[i] \in S
  BY <1>6, ElementOfSeq
<1>8. t \in Seq(Key)
  <2>1. t \in [1 .. n -> S]
    BY <1>6, SMTT(30)
  <2>2. t \in [1 .. n -> Key]
    BY <1>3, <2>1
  <2> QED BY <1>6, <2>2, SMTT(30)
<1>9. hashes = [i \in 1 .. n |-> t[i][2]]
  BY <1>5, <1>6
<1>10. hashes \in [1 .. n -> Hash]
  <2>1. \A i \in 1 .. n : t[i][2] \in Hash
    BY <1>3, <1>7, KeyParts
  <2> QED BY <1>9, <2>1
<1>11. hashes \in Seq(Hash) /\ Len(hashes) = n
  BY <1>6, <1>10, SMTT(30)
<1>12. ASSUME NEW e, Contains(satisfied, e) PROVE \E i \in 1 .. n : hashes[i] = e[2]
  <2>1. PICK i \in 1 .. n : t[i] = e
    BY <1>5, <1>6, <1>12 DEF Contains
  <2> QED BY <1>9, <2>1
<1> QED BY <1>1, <1>2, <1>4, <1>5, <1>6, <1>8, <1>11, <1>12

(* query_impl hands the entries of a dependency back, and queues the deletion
   of those that were accepted. *)
LEMMA RequeueStep ==
    ASSUME BPInv, Requeue
    PROVE  BPInv'
<1>0. /\ BPTypeOK /\ Gaps /\ queue \in Queue /\ entries \in Seq(Key)
      /\ back_buffer \in Seq(Trigger) /\ back_buffer # <<>> /\ delete_queue = <<>>
      /\ delete_queue \in Seq(Key) /\ excused \subseteq Hash /\ buffer \in Seq(Trigger)
  BY BPInvParts DEF BPTypeOK, Requeue, Query
<1>1. PICK hashes, count :
        /\ hashes = [i \in DOMAIN satisfied |-> satisfied[i][2]]
        /\ count = push_count(queue, hashes, unchecked)
        /\ queue' = push_all(queue, hashes, unchecked)
        /\ excused' = excused \cup {hashes[i] : i \in count + 1 .. Len(hashes)}
  BY DEF Requeue
<1>2. /\ UNCHANGED <<version, committed, note_vars, bp, missing>>
      /\ entries' = entries /\ buffer' = buffer
      /\ back_buffer' = Tail(back_buffer) /\ delete_queue' = satisfied
  BY DEF Requeue, Query, ledger_vars
<1>3. /\ satisfied \in Seq(Key) /\ hashes \in Seq(Hash) /\ Len(hashes) \in Nat
      /\ \A e : Contains(satisfied, e) <=> Contains(entries, e) /\ e[1] = Head(back_buffer)
      /\ \A e : Contains(satisfied, e) => \E i \in 1 .. Len(hashes) : hashes[i] = e[2]
  BY <1>0, <1>1, SatisfiedHas
<1>4. /\ queue' \in Queue /\ \A h : Waits(queue, h) => Waits(queue', h)
      /\ count \in 0 .. Len(hashes) /\ \A i \in 1 .. count : Waits(queue', hashes[i])
  <2>1. unchecked \in Origin
    BY BlockProcessingAssumption
  <2> QED BY <1>0, <1>1, <1>3, <2>1, PushAllHas
<1>5. \A i \in 1 .. Len(hashes) : i \in 1 .. count \/ i \in count + 1 .. Len(hashes)
  BY <1>3, <1>4, SMTT(30)
<1>6. \A h : InFlight(h) => InFlight(h)'
  BY <1>2, <1>4, FlightIs
<1>7. excused' \subseteq Hash /\ excused \subseteq excused'
  <2>1. \A i \in count + 1 .. Len(hashes) : hashes[i] \in Hash
    BY <1>3, <1>4, SMTT(30)
  <2> QED BY <1>0, <1>1, <2>1
<1>8. HandedBack'
  <2>1. ASSUME NEW e, Contains(delete_queue', e), missing'[e[2]] = e[1] /\ e[2] \notin excused'
        PROVE  InFlight(e[2])'
    <3>1. PICK i \in 1 .. Len(hashes) : hashes[i] = e[2]
      BY <1>2, <1>3, <2>1
    <3>2. i \in 1 .. count
      BY <1>1, <1>5, <2>1, <3>1
    <3> QED BY <1>4, <3>1, <3>2, FlightIs
  <2>2. delete_queue' \in Seq(Key)
    BY <1>2, <1>3
  <2> QED BY <2>1, <2>2, HandedIsNext
<1>9. GapsAreKept' /\ Distinct(entries)'
  BY <1>0, <1>2, <1>6, <1>7 DEF Gaps, GapsAreKept, Distinct
<1>10. /\ Tail(back_buffer) \in Seq(Trigger)
       /\ \A y : Contains(back_buffer, y) <=> y = Head(back_buffer) \/ Contains(Tail(back_buffer), y)
  BY <1>0, TailHas
<1>11. WaitingIsTriggered'
  <2>1. \A e : Contains(entries, e) /\ e[1] \in accepted =>
          Contains(buffer, e[1]) \/ Contains(back_buffer, e[1]) \/ Contains(delete_queue, e)
    BY <1>0, WaitingIs DEF Gaps
  <2>2. accepted' = accepted
    BY <1>2 DEF accepted, holds
  <2>3. \A e : ~Contains(delete_queue, e)
    <3>1. 1 .. Len(<<>>) = {}
      BY SMTT(30)
    <3> QED BY <1>0, <3>1 DEF Contains
  <2>4. \A e : Contains(entries', e) /\ e[1] \in accepted' =>
          Contains(buffer', e[1]) \/ Contains(back_buffer', e[1]) \/ Contains(delete_queue', e)
    BY <1>2, <1>3, <1>10, <2>1, <2>2, <2>3
  <2> QED BY <1>0, <1>2, <2>4, WaitingIsNext
<1> QED BY <1>0, <1>2, <1>3, <1>4, <1>7, <1>8, <1>9, <1>10, <1>11, UncheckedCarry DEF Gaps

(* It deletes an entry: its block is in flight, was tried since, or its entry
   was renewed. *)
LEMMA DeleteEntryStep ==
    ASSUME BPInv, DeleteEntry
    PROVE  BPInv'
<1>0. /\ BPTypeOK /\ Gaps /\ queue \in Queue /\ entries \in Seq(Key) /\ excused \subseteq Hash
      /\ back_buffer \in Seq(Trigger) /\ buffer \in Seq(Trigger)
      /\ delete_queue \in Seq(Key) /\ delete_queue # <<>>
  BY BPInvParts DEF BPTypeOK, DeleteEntry, Delete
<1>1. /\ UNCHANGED <<version, committed, note_vars, bp, missing, excused, queue>>
      /\ buffer' = buffer /\ back_buffer' = back_buffer /\ delete_queue' = Tail(delete_queue)
  BY DEF DeleteEntry, Delete, ledger_vars, queue_vars, history
<1>2. PICK k : k = Head(delete_queue)
  OBVIOUS
<1>3. /\ Tail(delete_queue) \in Seq(Key) /\ k \in Key
      /\ \A y : Contains(delete_queue, y) <=> y = k \/ Contains(Tail(delete_queue), y)
  BY <1>0, <1>2, TailHas
<1>4. /\ entries' \in Seq(Key) /\ Distinct(entries')
      /\ \A x : Contains(entries', x) <=> Contains(entries, x) /\ x # k
  <2>1. CASE ~Contains(entries, k) /\ entries' = entries
    BY <1>0, <2>1 DEF Gaps
  <2>2. CASE \E i \in DOMAIN entries : entries[i] = k /\ entries' = RemoveAt(entries, i)
    <3>1. PICK i \in DOMAIN entries : entries[i] = k /\ entries' = RemoveAt(entries, i)
      BY <2>2
    <3>2. i \in 1 .. Len(entries)
      BY <1>0, <3>1, LenProperties
    <3> QED BY <1>0, <3>1, <3>2, RemoveHas DEF Gaps
  <2> QED BY <1>2, <2>1, <2>2 DEF DeleteEntry, Delete
<1>5. \A h \in Hash : InFlight(h) <=> InFlight(h)'
  BY <1>1, FlightIs
<1>6. \A e : Contains(delete_queue, e) /\ missing[e[2]] = e[1] /\ e[2] \notin excused => InFlight(e[2])
  BY <1>0, HandedIs DEF Gaps
<1>7. HandedBack'
  <2>1. delete_queue' \in Seq(Key)
    BY <1>1, <1>3
  <2>2. ASSUME NEW e, Contains(delete_queue', e), missing'[e[2]] = e[1] /\ e[2] \notin excused'
        PROVE  InFlight(e[2])'
    <3>1. Contains(delete_queue, e)
      BY <1>1, <1>3, <2>2
    <3>2. e \in Key
      BY <1>0, <3>1, ElementsFinite
    <3> QED BY <1>1, <1>5, <1>6, <2>2, <3>1, <3>2, KeyParts
  <2> QED BY <2>1, <2>2, HandedIsNext
<1>8. GapsAreKept'
  <2>1. ASSUME NEW h \in Hash, missing[h] # Zero, h \notin excused
        PROVE  Contains(entries', <<missing[h], h>>) \/ InFlight(h)'
    <3>1. Contains(entries, <<missing[h], h>>) \/ InFlight(h)
      BY <1>0, <2>1 DEF Gaps, GapsAreKept
    <3>2. CASE <<missing[h], h>> = k
      <4>1. k[1] = missing[h] /\ k[2] = h
        BY <3>2
      <4>2. InFlight(h)
        BY <1>3, <1>6, <2>1, <4>1
      <4> QED BY <1>5, <4>2
    <3> QED BY <1>4, <1>5, <3>1, <3>2
  <2> QED BY <1>1, <2>1 DEF GapsAreKept
<1>9. WaitingIsTriggered'
  <2>1. \A e : Contains(entries, e) /\ e[1] \in accepted =>
          Contains(buffer, e[1]) \/ Contains(back_buffer, e[1]) \/ Contains(delete_queue, e)
    BY <1>0, WaitingIs DEF Gaps
  <2>2. accepted' = accepted
    BY <1>1 DEF accepted, holds
  <2>3. \A e : Contains(entries', e) /\ e[1] \in accepted' =>
          Contains(buffer', e[1]) \/ Contains(back_buffer', e[1]) \/ Contains(delete_queue', e)
    BY <1>1, <1>3, <1>4, <2>1, <2>2
  <2> QED BY <1>4, <2>3, WaitingIsNext
<1>10. Distinct(entries)'
  BY <1>4 DEF Distinct
<1> QED BY <1>0, <1>1, <1>3, <1>4, <1>7, <1>8, <1>9, <1>10, UncheckedCarry DEF Gaps

-----------------------------------------------------------------------------
(* The ledger.                                                             *)

(* A block is added when it is not there and taken back when it is. *)
LEMMA ChangedHas ==
    ASSUME NEW f \in [Hash -> Nat], NEW set
    PROVE  /\ changed(f, set) \in [Hash -> Nat]
           /\ \A x \in Hash : f[x] <= changed(f, set)[x]
           /\ \A x \in Hash : x \in holds(changed(f, set)) <=>
                                 IF x \in set THEN x \notin holds(f) ELSE x \in holds(f)
<1>1. PICK g : g = changed(f, set)
  OBVIOUS
<1>2. ASSUME NEW x \in Hash PROVE g[x] = f[x] + IF x \in set THEN 1 ELSE 0
  BY <1>1 DEF changed
<1>3. ASSUME NEW x \in Hash
      PROVE  /\ g[x] \in Nat /\ f[x] <= g[x]
             /\ g[x] % 2 = 1 <=> IF x \in set THEN ~(f[x] % 2 = 1) ELSE f[x] % 2 = 1
  <2>1. PICK a, b : a = f[x] /\ b = g[x]
    OBVIOUS
  <2>2. a \in Nat
    BY <2>1
  <2>3. CASE x \in set
    <3>1. b = a + 1
      BY <1>2, <2>1, <2>3
    <3>2. b \in Nat /\ a <= b /\ (b % 2 = 1 <=> ~(a % 2 = 1))
      BY <2>2, <3>1, SMTT(30)
    <3> QED BY <2>1, <2>3, <3>2
  <2>4. CASE x \notin set
    <3>1. b = a + 0
      BY <1>2, <2>1, <2>4
    <3>2. b = a /\ a <= b
      BY <2>2, <3>1, SMTT(30)
    <3> QED BY <2>1, <2>2, <2>4, <3>2
  <2> QED BY <2>3, <2>4
<1>4. g \in [Hash -> Nat]
  <2>1. g = [x \in Hash |-> g[x]]
    BY <1>1 DEF changed
  <2> QED BY <1>3, <2>1
<1> QED BY <1>1, <1>3, <1>4 DEF holds

(* ledger::rollback takes back blocks of the ledger only. *)
LEMMA RolledBackHas ==
    ASSUME NEW h, NEW o, NEW list \in rolled_back(h, o)
    PROVE  list \subseteq accepted
<1>1. ASSUME NEW x, NEW part \in rollback_lists(x) PROVE part \subseteq accepted
  BY DEF rollback_lists, Dependents
<1>2. CASE list = {}
  BY <1>2
<1>3. CASE list \in UNION {rollback_lists(x) : x \in competitors(h)}
  <2>1. PICK x \in competitors(h) : list \in rollback_lists(x)
    BY <1>3
  <2> QED BY <1>1, <2>1
<1> QED BY <1>2, <1>3 DEF rolled_back

(* The parts of a pair. *)
LEMMA PairParts == \A a, b, k : k = <<a, b>> => k[1] = a /\ k[2] = b
  BY SMTT(30)

(* The status of a block: it makes progress when it is not in the ledger, and
   a block with a gap waits for one that is not in the ledger. *)
LEMMA StatusIs ==
    ASSUME NEW h \in Hash, NEW set
    PROVE  \E status, key :
              /\ status = process(h, set) /\ key = gap_key(h, status)
              /\ status = "progress" => h \notin set /\ key[1] = Zero
              /\ key = <<key[1], h>> /\ key[2] = h /\ key[1] \in Gap \cup {Zero}
              /\ key[1] # Zero => key \in Key /\ key[1] \notin set
<1>0. PICK status, key : status = process(h, set) /\ key = gap_key(h, status)
  OBVIOUS
<1>1. \/ status = "old"
      \/ status = "gap_previous" /\ Previous[h] \notin set \cup {Zero}
      \/ status = "fork"
      \/ status = "progress" /\ h \notin set
      \/ status = "gap_source" /\ Source[h] \notin set \cup {Zero}
  <2>1. CASE h \in set
    BY <1>0, <2>1 DEF process
  <2>2. CASE h \notin set /\ Previous[h] \notin set \cup {Zero}
    BY <1>0, <2>2 DEF process
  <2>3. CASE h \notin set /\ Previous[h] \in set \cup {Zero}
    BY <1>0, <2>3 DEF process
  <2> QED BY <2>1, <2>2, <2>3
<1>2. Previous[h] \in Gap /\ Source[h] \in Gap
  BY DEF Gap
<1>3. ASSUME status = "gap_previous" /\ Previous[h] \notin set \cup {Zero}
      PROVE  /\ status = "progress" => h \notin set /\ key[1] = Zero
             /\ key = <<key[1], h>> /\ key[2] = h /\ key[1] \in Gap \cup {Zero}
             /\ key[1] # Zero => key \in Key /\ key[1] \notin set
  <2>1. key = <<Previous[h], h>>
    BY <1>0, <1>3 DEF gap_key
  <2>2. key[1] = Previous[h] /\ key[2] = h
    BY <2>1, PairParts
  <2>3. key \in Key
    BY <1>2, <1>3, <2>1, KeyParts
  <2> QED BY <1>2, <1>3, <2>1, <2>2, <2>3
<1>4. ASSUME status = "gap_source" /\ Source[h] \notin set \cup {Zero}
      PROVE  /\ status = "progress" => h \notin set /\ key[1] = Zero
             /\ key = <<key[1], h>> /\ key[2] = h /\ key[1] \in Gap \cup {Zero}
             /\ key[1] # Zero => key \in Key /\ key[1] \notin set
  <2>1. key = <<Source[h], h>>
    BY <1>0, <1>4 DEF gap_key
  <2>2. key[1] = Source[h] /\ key[2] = h
    BY <2>1, PairParts
  <2>3. key \in Key
    BY <1>2, <1>4, <2>1, KeyParts
  <2> QED BY <1>2, <1>4, <2>1, <2>2, <2>3
<1>5. ASSUME status \in {"old", "fork", "progress"}
      PROVE  /\ status = "progress" => h \notin set /\ key[1] = Zero
             /\ key = <<key[1], h>> /\ key[2] = h /\ key[1] \in Gap \cup {Zero}
             /\ key[1] # Zero => key \in Key /\ key[1] \notin set
  <2>1. key = <<Zero, h>>
    BY <1>0, <1>5 DEF gap_key
  <2>2. key[1] = Zero /\ key[2] = h
    BY <2>1, PairParts
  <2> QED BY <1>1, <1>5, <2>1, <2>2
<1>6. /\ status = "progress" => h \notin set /\ key[1] = Zero
      /\ key = <<key[1], h>> /\ key[2] = h /\ key[1] \in Gap \cup {Zero}
      /\ key[1] # Zero => key \in Key /\ key[1] \notin set
  BY <1>1, <1>3, <1>4, <1>5
<1> QED BY <1>0, <1>6

(* unchecked_map::put keeps the key and all others, but perhaps the oldest. *)
LEMMA InsertedHas ==
    ASSUME entries \in Seq(Key), Distinct(entries), NEW key \in Key
    PROVE  /\ inserted(key) \in Seq(Key) /\ Distinct(inserted(key)) /\ inserted(key) # <<>>
           /\ \A e : Contains(inserted(key), e) <=> Contains(entries, e) \/ e = key
<1>1. PICK t : t = inserted(key)
  OBVIOUS
<1>2. /\ t \in Seq(Key) /\ Distinct(t)
      /\ \A e : Contains(t, e) <=> Contains(entries, e) \/ e = key
  <2>1. CASE Contains(entries, key)
    BY <1>1, <2>1 DEF inserted
  <2>2. CASE ~Contains(entries, key)
    <3>1. t = Append(entries, key)
      BY <1>1, <2>2 DEF inserted
    <3> QED BY <2>2, <3>1, AppendHas
  <2> QED BY <2>1, <2>2
<1>3. t # <<>>
  <2>1. Contains(t, key)
    BY <1>2
  <2>2. 1 .. Len(<<>>) = {}
    BY SMTT(30)
  <2> QED BY <2>1, <2>2 DEF Contains
<1> QED BY <1>1, <1>2, <1>3

(* unchecked_map::put adds an entry, and erases the oldest of a full map. *)
LEMMA PutHas ==
    ASSUME entries \in Seq(Key), Distinct(entries), NEW key \in Key, put(key)
    PROVE  /\ entries' \in Seq(Key) /\ Distinct(entries')
           /\ \A e : Contains(entries', e) => Contains(entries, e) \/ e = key
           /\ \A e : Contains(entries, e) \/ e = key =>
                        Contains(entries', e) \/ (overflows(key) /\ e = Head(inserted(key)))
           /\ Head(inserted(key)) \in Key
<1>1. PICK t : t = inserted(key)
  OBVIOUS
<1>2. /\ t \in Seq(Key) /\ Distinct(t) /\ t # <<>>
      /\ \A e : Contains(t, e) <=> Contains(entries, e) \/ e = key
  BY <1>1, InsertedHas
<1>3. /\ Tail(t) \in Seq(Key) /\ Head(t) \in Key /\ Distinct(Tail(t))
      /\ \A y : Contains(t, y) <=> y = Head(t) \/ Contains(Tail(t), y)
  BY <1>2, TailHas
<1>4. CASE overflows(key)
  <2>1. entries' = Tail(t)
    BY <1>1, <1>4 DEF put
  <2> QED BY <1>1, <1>2, <1>3, <1>4, <2>1
<1>5. CASE ~overflows(key)
  <2>1. entries' = t
    BY <1>1, <1>5 DEF put
  <2> QED BY <1>1, <1>2, <1>3, <2>1
<1> QED BY <1>4, <1>5

-----------------------------------------------------------------------------
(* Processing a block.                                                     *)

(* What Process does with the block h, the blocks of list being rolled back:
   progress is {h} when the block enters the ledger, and the block waits for
   key[1] unless that is Zero. *)
Processed(h, list, undone, progress, key) ==
    /\ list \subseteq accepted /\ undone = changed(version, list)
    /\ version' = changed(undone, progress)
    /\ \/ progress = {} /\ (key[1] # Zero => key \in Key /\ key[1] \notin holds(undone))
       \/ progress = {h} /\ h \notin holds(undone) /\ key[1] = Zero
    /\ key = <<key[1], h>> /\ key[2] = h /\ key[1] \in Gap \cup {Zero}
    /\ \E d \in Seq(Trigger) : buffer' = buffer \o d /\ \A x \in progress : Contains(d, x)
    /\ IF key[1] # Zero THEN put(key) ELSE entries' = entries
    /\ missing' = [missing EXCEPT ![h] = key[1]]
    /\ excused' = (excused \ {h})
          \cup (IF key[1] # Zero /\ overflows(key) THEN {Head(inserted(key))[2]} ELSE {})
          \cup (IF Contains(delete_queue, key) THEN {h} ELSE {})
    /\ bp' = [bp EXCEPT !.batch = Tail(@), !.refreshed = FALSE,
                        !.processed = @ \cup changes(progress, version')]
    /\ notifications' = IF list = {} THEN notifications
                        ELSE queued(notifications, "block_processor", changes(list, undone))
    /\ UNCHANGED <<committed, queue, dispatching, back_buffer, delete_queue>>

(* What process_one does to the first block of the batch. *)
LEMMA ProcessIs ==
    ASSUME BPInv, Process
    PROVE  /\ bp.pc = "process" /\ bp.batch # <<>> /\ Head(bp.batch)[1] \in Hash
           /\ \E list, undone, progress, key : Processed(Head(bp.batch)[1], list, undone, progress, key)
<1>0. bp.pc = "process" /\ bp.batch # <<>> /\ bp \in Thread
  BY BPInvParts DEF BPTypeOK, Process
<1>1. PICK h, o : h = Head(bp.batch)[1] /\ o = Head(bp.batch)[2]
  OBVIOUS
<1>2. h \in Hash
  <2>1. Head(bp.batch) \in Hash \X Origin
    BY <1>0, BatchDone, ThreadFields
  <2> QED BY <1>1, <2>1
<1>3. PICK list \in rolled_back(h, o) :
        /\ process_one(h, changed(version, list))
        /\ notifications' = IF list = {} THEN notifications
                            ELSE queued(notifications, "block_processor",
                                        changes(list, changed(version, list)))
  BY <1>1 DEF Process
<1>4. PICK undone : undone = changed(version, list)
  OBVIOUS
<1>5. PICK status, key, progress :
        /\ status = process(h, holds(undone)) /\ key = gap_key(h, status)
        /\ progress = IF status = "progress" THEN {h} ELSE {}
  OBVIOUS
<1>6. /\ version' = changed(undone, progress)
      /\ trigger(IF status = "progress"
                 THEN <<h>> \o (IF Destination[h] = Zero THEN <<>> ELSE <<Destination[h]>>)
                 ELSE <<>>)
      /\ IF key[1] # Zero THEN put(key) ELSE UNCHANGED entries
      /\ missing' = [missing EXCEPT ![h] = key[1]]
      /\ excused' = (excused \ {h})
            \cup (IF key[1] # Zero /\ overflows(key) THEN {Head(inserted(key))[2]} ELSE {})
            \cup (IF Contains(delete_queue, key) THEN {h} ELSE {})
      /\ bp' = [bp EXCEPT !.batch = Tail(@), !.refreshed = FALSE,
                          !.processed = @ \cup changes(progress, version')]
  BY <1>3, <1>4, <1>5 DEF process_one
<1>7. /\ status = "progress" => h \notin holds(undone) /\ key[1] = Zero
      /\ key = <<key[1], h>> /\ key[2] = h /\ key[1] \in Gap \cup {Zero}
      /\ key[1] # Zero => key \in Key /\ key[1] \notin holds(undone)
  <2>1. PICK s, k :
          /\ s = process(h, holds(undone)) /\ k = gap_key(h, s)
          /\ s = "progress" => h \notin holds(undone) /\ k[1] = Zero
          /\ k = <<k[1], h>> /\ k[2] = h /\ k[1] \in Gap \cup {Zero}
          /\ k[1] # Zero => k \in Key /\ k[1] \notin holds(undone)
    BY <1>2, StatusIs
  <2>2. s = status /\ k = key
    BY <1>5, <2>1
  <2> QED BY <2>1, <2>2
<1>8. list \subseteq accepted
  BY RolledBackHas
<1>9. UNCHANGED <<committed, queue, dispatching, back_buffer, delete_queue>>
  BY DEF Process, queue_vars
<1>10. \E d \in Seq(Trigger) : buffer' = buffer \o d /\ \A x \in progress : Contains(d, x)
  <2>1. CASE status # "progress"
    <3>1. <<>> \in Seq(Trigger) /\ buffer' = buffer \o <<>> /\ progress = {}
      BY <1>5, <1>6, <2>1, EmptySeq DEF trigger
    <3> QED BY <3>1
  <2>2. CASE status = "progress"
    <3>1. PICK g : g = IF Destination[h] = Zero THEN <<>> ELSE <<Destination[h]>>
      OBVIOUS
    <3>2. h \in Trigger /\ Destination[h] \in Trigger
      BY <1>2 DEF Trigger
    <3>3. g \in Seq(Trigger) /\ <<h>> \in Seq(Trigger) /\ Contains(<<h>>, h)
      <4>1. <<>> \in Seq(Trigger) /\ <<Destination[h]>> \in Seq(Trigger) /\ <<h>> \in Seq(Trigger)
        BY <3>2, SMTT(30)
      <4>2. Len(<<h>>) = 1 /\ <<h>>[1] = h /\ 1 \in 1 .. 1
        BY SMTT(30)
      <4> QED BY <3>1, <4>1, <4>2 DEF Contains
    <3>4. <<h>> \o g \in Seq(Trigger) /\ Contains(<<h>> \o g, h)
      BY <3>3, ConcatHas
    <3>5. buffer' = buffer \o (<<h>> \o g) /\ progress = {h}
      BY <1>5, <1>6, <2>2, <3>1 DEF trigger
    <3> QED BY <3>4, <3>5
  <2> QED BY <2>1, <2>2
<1>11. Processed(h, list, undone, progress, key)
  BY <1>3, <1>4, <1>5, <1>6, <1>7, <1>8, <1>9, <1>10 DEF Processed
<1> QED BY <1>0, <1>1, <1>2, <1>11

(* The ledger after the block. *)
LEMMA ProcessedLedger ==
    ASSUME version \in [Hash -> Nat], NEW h \in Hash, NEW list, NEW undone, NEW progress, NEW key,
           Processed(h, list, undone, progress, key)
    PROVE  /\ version' \in [Hash -> Nat] /\ undone \in [Hash -> Nat]
           /\ \A x \in Hash : version[x] <= version'[x] /\ undone[x] <= version'[x]
           /\ accepted' \subseteq accepted \cup progress
           /\ key[1] # Zero => key \in Key /\ key[1] \notin accepted'
<1>1. /\ list \subseteq accepted /\ undone = changed(version, list)
      /\ version' = changed(undone, progress)
      /\ \/ progress = {} /\ (key[1] # Zero => key \in Key /\ key[1] \notin holds(undone))
         \/ progress = {h} /\ h \notin holds(undone) /\ key[1] = Zero
  BY DEF Processed
<1>2. /\ undone \in [Hash -> Nat] /\ \A x \in Hash : version[x] <= undone[x]
      /\ \A x \in Hash : x \in holds(undone) <=>
                            IF x \in list THEN x \notin accepted ELSE x \in accepted
  BY <1>1, ChangedHas DEF accepted
<1>3. /\ version' \in [Hash -> Nat] /\ \A x \in Hash : undone[x] <= version'[x]
      /\ \A x \in Hash : x \in holds(version') <=>
                            IF x \in progress THEN x \notin holds(undone) ELSE x \in holds(undone)
  <2>1. PICK f : f = changed(undone, progress)
    OBVIOUS
  <2>2. /\ f \in [Hash -> Nat] /\ \A x \in Hash : undone[x] <= f[x]
        /\ \A x \in Hash : x \in holds(f) <=>
                              IF x \in progress THEN x \notin holds(undone) ELSE x \in holds(undone)
    BY <1>2, <2>1, ChangedHas
  <2> QED BY <1>1, <2>1, <2>2
<1>4. accepted' = holds(version') /\ accepted' \subseteq Hash
  BY DEF accepted, holds
<1>5. accepted' \subseteq accepted \cup progress
  BY <1>1, <1>2, <1>3, <1>4
<1>6. key[1] # Zero => key \in Key /\ key[1] \notin accepted'
  BY <1>1, <1>3, <1>4
<1>7. ASSUME NEW x \in Hash PROVE version[x] <= version'[x]
  <2>1. PICK a, b, c : a = version[x] /\ b = undone[x] /\ c = version'[x]
    OBVIOUS
  <2>2. a \in Nat /\ b \in Nat /\ c \in Nat /\ a <= b /\ b <= c
    BY <1>2, <1>3, <2>1
  <2>3. a <= c
    BY <2>2, SMTT(30)
  <2> QED BY <2>1, <2>3
<1> QED BY <1>2, <1>3, <1>5, <1>6, <1>7

(* The gaps after the block. *)
LEMMA ProcessedGaps ==
    ASSUME BPInv, bp.batch # <<>>, NEW h \in Hash, h = Head(bp.batch)[1], NEW list, NEW undone,
           NEW progress, NEW key, Processed(h, list, undone, progress, key), bp'.batch = Tail(bp.batch)
    PROVE  /\ Gaps' /\ entries' \in Seq(Key) /\ delete_queue' \in Seq(Key)
           /\ buffer' \in Seq(Trigger) /\ back_buffer' \in Seq(Trigger)
           /\ missing' \in [Hash -> Gap \cup {Zero}] /\ excused' \subseteq Hash
<1>0. /\ BPTypeOK /\ Gaps /\ version \in [Hash -> Nat] /\ entries \in Seq(Key)
      /\ delete_queue \in Seq(Key) /\ buffer \in Seq(Trigger) /\ back_buffer \in Seq(Trigger)
      /\ missing \in [Hash -> Gap \cup {Zero}] /\ excused \subseteq Hash
      /\ Distinct(entries) /\ HandedBack /\ GapsAreKept /\ WaitingIsTriggered /\ bp \in Thread
  BY BPInvParts DEF BPTypeOK, Gaps
<1>1. /\ key = <<key[1], h>> /\ key[2] = h /\ key[1] \in Gap \cup {Zero}
      /\ IF key[1] # Zero THEN put(key) ELSE entries' = entries
      /\ missing' = [missing EXCEPT ![h] = key[1]]
      /\ queue' = queue /\ back_buffer' = back_buffer /\ delete_queue' = delete_queue
  BY DEF Processed
<1>2. key[1] # Zero => key \in Key /\ key[1] \notin accepted'
  BY <1>0, ProcessedLedger
<1>3. accepted' \subseteq accepted \cup progress
  BY <1>0, ProcessedLedger
<1>4. /\ buffer' \in Seq(Trigger) /\ \A x \in progress : Contains(buffer', x)
      /\ \A x : Contains(buffer, x) => Contains(buffer', x)
  <2>1. PICK d \in Seq(Trigger) : buffer' = buffer \o d /\ \A x \in progress : Contains(d, x)
    BY DEF Processed
  <2> QED BY <1>0, <2>1, ConcatHas
<1>5. PICK oldest : oldest = Head(inserted(key))
  OBVIOUS
<1>6. /\ entries' \in Seq(Key) /\ Distinct(entries')
      /\ \A e : Contains(entries', e) => Contains(entries, e) \/ (e = key /\ key[1] # Zero)
      /\ \A e : Contains(entries, e) \/ (e = key /\ key[1] # Zero) =>
            Contains(entries', e) \/ (key[1] # Zero /\ overflows(key) /\ e = oldest)
      /\ key[1] # Zero => oldest \in Key
  <2>1. CASE key[1] = Zero
    BY <1>0, <1>1, <2>1
  <2>2. CASE key[1] # Zero
    <3>1. key \in Key /\ put(key)
      BY <1>1, <1>2, <2>2
    <3>2. /\ entries' \in Seq(Key) /\ Distinct(entries')
          /\ \A e : Contains(entries', e) => Contains(entries, e) \/ e = key
          /\ \A e : Contains(entries, e) \/ e = key =>
                       Contains(entries', e) \/ (overflows(key) /\ e = Head(inserted(key)))
          /\ Head(inserted(key)) \in Key
      BY <1>0, <3>1, PutHas
    <3> QED BY <1>5, <2>2, <3>2
  <2> QED BY <2>1, <2>2
<1>7. /\ excused' \subseteq Hash
      /\ \A x : x \in excused /\ x # h => x \in excused'
      /\ key[1] # Zero /\ overflows(key) => oldest[2] \in excused'
      /\ Contains(delete_queue, key) => h \in excused'
  <2>1. excused' = (excused \ {h})
            \cup (IF key[1] # Zero /\ overflows(key) THEN {oldest[2]} ELSE {})
            \cup (IF Contains(delete_queue, key) THEN {h} ELSE {})
    BY <1>5 DEF Processed
  <2>2. key[1] # Zero => oldest[2] \in Hash
    BY <1>6, KeyParts
  <2> QED BY <1>0, <2>1, <2>2
<1>8. \A x : InFlight(x) /\ x # h => InFlight(x)'
  <2>1. \A x : InBatch(bp.batch, x) <=> x = h \/ InBatch(Tail(bp.batch), x)
    BY <1>0, BatchDone, ThreadFields
  <2> QED BY <1>1, <2>1, FlightIs
<1>9. missing' \in [Hash -> Gap \cup {Zero}] /\ missing'[h] = key[1]
      /\ \A x \in Hash : x # h => missing'[x] = missing[x]
  BY <1>0, <1>1
<1>10. WaitingIsTriggered'
  <2>1. \A e : Contains(entries, e) /\ e[1] \in accepted =>
          Contains(buffer, e[1]) \/ Contains(back_buffer, e[1]) \/ Contains(delete_queue, e)
    BY <1>0, WaitingIs
  <2>2. ASSUME NEW e, Contains(entries', e), e[1] \in accepted'
        PROVE  Contains(buffer', e[1]) \/ Contains(back_buffer', e[1]) \/ Contains(delete_queue', e)
    <3>1. Contains(entries, e)
      BY <1>2, <1>6, <2>2
    <3> QED BY <1>1, <1>3, <1>4, <2>1, <2>2, <3>1
  <2> QED BY <1>6, <2>2, WaitingIsNext
<1>11. HandedBack'
  <2>1. delete_queue' \in Seq(Key)
    BY <1>0, <1>1
  <2>2. ASSUME NEW e, Contains(delete_queue', e), missing'[e[2]] = e[1] /\ e[2] \notin excused'
        PROVE  InFlight(e[2])'
    <3>1. Contains(delete_queue, e) /\ e \in Key
      BY <1>0, <1>1, <2>2, ElementsFinite
    <3>2. e[2] \in Hash /\ e = <<e[1], e[2]>>
      BY <3>1, KeyParts
    <3>3. e[2] # h
      <4>1. e[2] = h => e = key
        BY <1>1, <1>9, <2>2, <3>2
      <4> QED BY <1>7, <2>2, <3>1, <4>1
    <3>4. missing[e[2]] = e[1] /\ e[2] \notin excused
      BY <1>7, <1>9, <2>2, <3>2, <3>3
    <3>5. InFlight(e[2])
      BY <1>0, <3>1, <3>4, HandedIs
    <3> QED BY <1>8, <3>3, <3>5
  <2> QED BY <2>1, <2>2, HandedIsNext
<1>12. GapsAreKept'
  <2>1. ASSUME NEW x \in Hash, missing'[x] # Zero, x \notin excused'
        PROVE  Contains(entries', <<missing'[x], x>>) \/ InFlight(x)'
    <3>1. PICK e : e = <<missing'[x], x>>
      OBVIOUS
    <3>2. e[2] = x
      BY <3>1, PairParts
    <3>3. key[1] # Zero /\ overflows(key) => e # oldest
      BY <1>7, <2>1, <3>2
    <3>4. CASE x = h
      <4>1. e = key /\ key[1] # Zero
        BY <1>1, <1>9, <2>1, <3>1, <3>4
      <4> QED BY <1>6, <3>1, <3>3, <4>1
    <3>5. CASE x # h
      <4>1. missing[x] # Zero /\ x \notin excused /\ e = <<missing[x], x>>
        BY <1>7, <1>9, <2>1, <3>1, <3>5
      <4>2. Contains(entries, e) \/ InFlight(x)
        BY <1>0, <4>1 DEF GapsAreKept
      <4>3. ASSUME Contains(entries, e) PROVE Contains(entries', e)
        BY <1>6, <3>3, <4>3
      <4>4. ASSUME InFlight(x) PROVE InFlight(x)'
        BY <1>8, <3>5, <4>4
      <4> QED BY <3>1, <4>2, <4>3, <4>4
    <3> QED BY <3>4, <3>5
  <2> QED BY <2>1 DEF GapsAreKept
<1>13. Distinct(entries)'
  BY <1>6 DEF Distinct
<1> QED BY <1>0, <1>1, <1>4, <1>6, <1>7, <1>9, <1>10, <1>11, <1>12, <1>13 DEF Gaps

(* Versions only grow, so that what was made stays made. *)
LEMMA MadeStays ==
    ASSUME NEW c \in SUBSET Change, Made(c), version \in [Hash -> Nat], version' \in [Hash -> Nat],
           \A x \in Hash : version[x] <= version'[x]
    PROVE  Made(c)'
<1>1. ASSUME NEW k \in c PROVE k[2] <= version'[k[1]]
  <2>1. k[1] \in Hash /\ k[2] \in Nat /\ k[2] <= version[k[1]]
    BY DEF Change, Made
  <2>2. PICK a, b, d : a = k[2] /\ b = version[k[1]] /\ d = version'[k[1]]
    OBVIOUS
  <2>3. a \in Nat /\ b \in Nat /\ d \in Nat /\ a <= b /\ b <= d
    BY <2>1, <2>2
  <2>4. a <= d
    BY <2>3, SMTT(30)
  <2> QED BY <2>2, <2>4
<1> QED BY <1>1 DEF Made

(* What was announced stays so when the ledger changes. *)
LEMMA AnnouncedStays ==
    ASSUME NEW q \in Seq(Notification), Announced(q), version \in [Hash -> Nat],
           version' \in [Hash -> Nat], committed' = committed,
           \A x \in Hash : version[x] <= version'[x]
    PROVE  Announced(q)'
<1>1. ASSUME NEW i \in DOMAIN q PROVE Made(q[i].changes)' /\ (q[i].committed => Seen(q[i].changes)')
  <2>1. q[i] \in Notification
    BY ElementOfSeq, LenProperties
  <2>2. q[i].changes \in SUBSET Change
    BY <2>1 DEF Notification
  <2>3. Made(q[i].changes) /\ (q[i].committed => Seen(q[i].changes))
    BY DEF Announced
  <2>4. Made(q[i].changes)'
    BY <2>2, <2>3, MadeStays
  <2>5. q[i].committed => Seen(q[i].changes)'
    BY <2>3 DEF Seen
  <2> QED BY <2>4, <2>5
<1> QED BY <1>1 DEF Announced

(* The changes of a set of blocks. *)
LEMMA ChangesHas ==
    ASSUME NEW set \in SUBSET Hash, NEW f \in [Hash -> Nat]
    PROVE  /\ changes(set, f) \in SUBSET Change
           /\ \A c \in changes(set, f) : c[1] \in set /\ c[2] = f[c[1]]
<1>1. ASSUME NEW c \in changes(set, f) PROVE c \in Change /\ c[1] \in set /\ c[2] = f[c[1]]
  <2>1. PICK x \in set : c = <<x, f[x]>>
    BY DEF changes
  <2>2. c[1] = x /\ c[2] = f[x]
    BY <2>1, PairParts
  <2>3. c \in Change
    BY <2>1 DEF Change
  <2> QED BY <2>2, <2>3
<1> QED BY <1>1

(* The announcements after the block. *)
LEMMA ProcessedTells ==
    ASSUME BPInv, NEW h \in Hash, NEW list, NEW undone, NEW progress, NEW key,
           Processed(h, list, undone, progress, key)
    PROVE  /\ changes(progress, version') \in SUBSET Change
           /\ \A c \in bp.processed \cup changes(progress, version') : c[2] <= version'[c[1]]
           /\ Announced(notifications)' /\ Announced(dispatching)'
           /\ notifications' \in Seq(Notification)
           /\ Len(notifications) \in Nat
           /\ Len(notifications') \in {Len(notifications), Len(notifications) + 1}
<1>0. /\ version \in [Hash -> Nat] /\ notifications \in Seq(Notification) /\ bp \in Thread
      /\ dispatching \in Seq(Notification) /\ Made(bp.processed)
      /\ Announced(notifications) /\ Announced(dispatching)
  BY BPInvParts DEF BPTypeOK, Told
<1>1. /\ version' \in [Hash -> Nat] /\ undone \in [Hash -> Nat]
      /\ \A x \in Hash : version[x] <= version'[x] /\ undone[x] <= version'[x]
  BY <1>0, ProcessedLedger
<1>2. /\ list \subseteq Hash /\ progress \subseteq Hash
      /\ committed' = committed /\ dispatching' = dispatching
      /\ notifications' = IF list = {} THEN notifications
                          ELSE queued(notifications, "block_processor", changes(list, undone))
  BY DEF Processed, accepted, holds
<1>3. PICK made, done : made = changes(progress, version') /\ done = changes(list, undone)
  OBVIOUS
<1>4. /\ made \in SUBSET Change /\ \A c \in made : c[1] \in progress /\ c[2] = version'[c[1]]
  BY <1>1, <1>2, <1>3, ChangesHas
<1>5. /\ done \in SUBSET Change /\ \A c \in done : c[1] \in list /\ c[2] = undone[c[1]]
  BY <1>1, <1>2, <1>3, ChangesHas
<1>6. Made(made)'
  <2>1. ASSUME NEW c \in made PROVE c[2] <= version'[c[1]]
    <3>1. PICK a : a = version'[c[1]]
      OBVIOUS
    <3>2. a \in Nat /\ c[2] = a
      BY <1>1, <1>2, <1>4, <3>1
    <3>3. a <= a
      BY <3>2, SMTT(30)
    <3> QED BY <3>1, <3>2, <3>3
  <2> QED BY <2>1 DEF Made
<1>7. Made(done)'
  BY <1>1, <1>2, <1>5 DEF Made
<1>8. \A c \in bp.processed \cup made : c[2] <= version'[c[1]]
  <2>1. bp.processed \in SUBSET Change
    BY <1>0, ThreadFields
  <2>2. PICK p \in SUBSET Change : p = bp.processed
    BY <2>1
  <2>3. \A c \in p : c[2] <= version'[c[1]]
    BY <1>0, <1>1, <2>2, MadeStays DEF Made
  <2>4. \A c \in made : c[2] <= version'[c[1]]
    BY <1>6 DEF Made
  <2> QED BY <2>2, <2>3, <2>4
<1>9. ASSUME NEW q \in Seq(Notification), Announced(q), NEW e, Contains(q, e)
      PROVE  Made(e.changes)' /\ (e.committed => Seen(e.changes)')
  <2>1. PICK i \in DOMAIN q : e = q[i]
    BY <1>9, LenProperties DEF Contains
  <2>2. Announced(q)'
    BY <1>0, <1>1, <1>2, <1>9, AnnouncedStays
  <2>3. Made(q[i].changes)' /\ (q[i].committed => Seen(q[i].changes)')
    BY <2>2 DEF Announced, Made, Seen
  <2> QED BY <2>1, <2>3
<1>10. Announced(dispatching)'
  <2>1. \A e : Contains(dispatching', e) => Made(e.changes)' /\ (e.committed => Seen(e.changes)')
    BY <1>0, <1>2, <1>9
  <2>2. dispatching' \in Seq(Notification)
    BY <1>0, <1>2
  <2> QED BY <2>1, <2>2, AnnouncedNext
<1>11. /\ notifications' \in Seq(Notification) /\ Len(notifications) \in Nat
       /\ Len(notifications') \in {Len(notifications), Len(notifications) + 1}
       /\ \A e : Contains(notifications', e) => Made(e.changes)' /\ (e.committed => Seen(e.changes)')
  <2>1. Len(notifications) \in Nat
    BY <1>0, LenProperties
  <2>2. CASE list = {}
    <3>1. notifications' = notifications
      BY <1>2, <2>2
    <3> QED BY <1>0, <1>9, <2>1, <3>1
  <2>3. CASE list # {}
    <3>1. PICK x, n :
            /\ x = queued(notifications, "block_processor", done)
            /\ x \in Seq(Notification) /\ Len(x) = Len(notifications) + 1
            /\ n.changes = done /\ n.committed = FALSE
            /\ \A y : Contains(x, y) <=> Contains(notifications, y) \/ y = n
      BY <1>0, <1>5, QueuedElements
    <3>2. x \in Seq(Notification) /\ Len(x) = Len(notifications) + 1
      BY <3>1
    <3>3. /\ n.changes = done /\ n.committed = FALSE
          /\ \A y : Contains(x, y) <=> Contains(notifications, y) \/ y = n
      BY <3>1
    <3>4. ASSUME NEW e, Contains(x, e)
          PROVE  Made(e.changes)' /\ (e.committed => Seen(e.changes)')
      <4>1. CASE e = n
        <5>1. \A c \in e.changes : c[2] <= version'[c[1]]
          BY <1>7, <3>3, <4>1 DEF Made
        <5> QED BY <3>3, <4>1, <5>1 DEF Made
      <4>2. CASE Contains(notifications, e)
        BY <1>0, <1>9, <4>2
      <4> QED BY <3>3, <3>4, <4>1, <4>2
    <3>5. notifications' = x
      BY <1>2, <1>3, <2>3, <3>1
    <3> QED BY <2>1, <3>2, <3>4, <3>5
  <2> QED BY <2>2, <2>3
<1>12. Announced(notifications)'
  BY <1>11, AnnouncedNext
<1> QED BY <1>3, <1>4, <1>8, <1>10, <1>11, <1>12

(* process_one: a block with a gap is put under what it waits for, and a block
   that enters the ledger triggers what waits for it. *)
LEMMA ProcessStep ==
    ASSUME BPInv, Process
    PROVE  BPInv'
<1>0. /\ BPTypeOK /\ Positions /\ Told /\ bp \in Thread /\ queue \in Queue
      /\ dispatching \in Seq(Notification) /\ committed \in [Hash -> Nat] /\ version \in [Hash -> Nat]
  BY BPInvParts DEF BPTypeOK
<1>1. PICK h, list, undone, progress, key :
        /\ h \in Hash /\ h = Head(bp.batch)[1] /\ bp.pc = "process" /\ bp.batch # <<>>
        /\ Processed(h, list, undone, progress, key)
  BY ProcessIs
<1>2. /\ changes(progress, version') \in SUBSET Change
      /\ \A c \in bp.processed \cup changes(progress, version') : c[2] <= version'[c[1]]
      /\ Announced(notifications)' /\ Announced(dispatching)'
      /\ notifications' \in Seq(Notification)
      /\ Len(notifications) \in Nat
      /\ Len(notifications') \in {Len(notifications), Len(notifications) + 1}
  BY <1>1, ProcessedTells
<1>3. /\ bp' \in Thread /\ bp'.pc = "process" /\ bp'.batch = Tail(bp.batch)
      /\ bp'.processed = bp.processed \cup changes(progress, version')
  <2>1. PICK c \in SUBSET Change : c = changes(progress, version')
    BY <1>2
  <2>2. PICK x \in Thread :
          /\ x = [bp EXCEPT !.batch = Tail(@), !.refreshed = FALSE, !.processed = @ \cup c]
          /\ x.pc = bp.pc /\ x.batch = Tail(bp.batch) /\ x.processed = bp.processed \cup c
    BY <1>0, <1>1, Done
  <2>3. bp' = [bp EXCEPT !.batch = Tail(@), !.refreshed = FALSE, !.processed = @ \cup c]
    BY <1>1, <2>1 DEF Processed
  <2>4. bp' = x
    BY <2>2, <2>3
  <2> QED BY <1>1, <2>1, <2>2, <2>4
<1>4. /\ Gaps' /\ entries' \in Seq(Key) /\ delete_queue' \in Seq(Key)
      /\ buffer' \in Seq(Trigger) /\ back_buffer' \in Seq(Trigger)
      /\ missing' \in [Hash -> Gap \cup {Zero}] /\ excused' \subseteq Hash
  BY <1>1, <1>3, ProcessedGaps
<1>5. BPTypeOK'
  <2>1. version' \in [Hash -> Nat]
    BY <1>0, <1>1, ProcessedLedger
  <2>2. queue' = queue /\ committed' = committed /\ dispatching' = dispatching
    BY <1>1 DEF Processed
  <2> QED BY <1>0, <1>2, <1>3, <1>4, <2>1, <2>2 DEF BPTypeOK
<1>6. Told'
  <2>1. \A c \in bp'.processed : c[2] <= version'[c[1]]
    BY <1>2, <1>3
  <2> QED BY <1>2, <2>1 DEF Told, Made
<1>7. PICK l, m, k, j : /\ l = Len(notifications) /\ m = Len(notifications')
                        /\ k = Len(bp.batch) /\ j = Len(bp'.batch)
  OBVIOUS
<1>8. m + j < max_ledger_notifications + batch_size /\ m < max_ledger_notifications + batch_size + 1
  <2>1. l + k < max_ledger_notifications + batch_size
    BY <1>0, <1>1, <1>7 DEF Positions
  <2>2. k \in Nat /\ j = k - 1 /\ j \in Nat
    <3>1. bp.batch \in Seq(Hash \X Origin) /\ bp'.batch \in Seq(Hash \X Origin)
      BY <1>0, <1>3, ThreadFields DEF Batch
    <3>2. PICK s \in Seq(Hash \X Origin) : s = bp.batch
      BY <3>1
    <3>3. Len(Tail(s)) = Len(s) - 1
      BY <1>1, <3>2, TailHas
    <3>4. Len(s) \in Nat /\ Len(bp'.batch) \in Nat
      BY <3>1, LenProperties
    <3> QED BY <1>3, <1>7, <3>2, <3>3, <3>4
  <2>3. l \in Nat /\ (m = l \/ m = l + 1)
    BY <1>2, <1>7
  <2>4. batch_size \in Nat /\ max_ledger_notifications \in Nat
    BY BlockProcessingAssumption, NotificationsAssumption
  <2> QED BY <2>1, <2>2, <2>3, <2>4, SMTT(30)
<1>9. Positions' /\ NotificationsBounded'
  BY <1>3, <1>7, <1>8 DEF Positions, NotificationsBounded
<1> QED BY <1>4, <1>5, <1>6, <1>9, BPInvParts

-----------------------------------------------------------------------------
(* The theorems.                                                           *)

(* Nothing has arrived and nothing waits. *)
LEMMA InitBPInv == Init => BPInv
<1> SUFFICES ASSUME Init PROVE BPInv
  OBVIOUS
<1>1. ASSUME NEW S PROVE <<>> \in Seq(S) /\ DOMAIN <<>> = {} /\ Len(<<>>) = 0
  BY SMTT(30)
<1>2. EmptyQueue \in Queue
  <2>1. 0 \in 0 .. Len(Origins) /\ 0 \in Nat
    BY OriginPositions, SMTT(30)
  <2>2. [o \in Origin |-> <<>>] \in [Origin -> Seq(Hash)]
    BY <1>1
  <2> QED BY <2>1, <2>2 DEF EmptyQueue, Queue
<1>3. version \in [Hash -> Nat] /\ committed = version
  <2>1. 0 \in Nat /\ 1 \in Nat
    BY SMTT(30)
  <2> QED BY <2>1 DEF Init
<1>4. /\ bp \in Thread /\ bp.pc = "idle" /\ bp.batch = <<>> /\ bp.processed = {}
  BY IdleThread DEF Init
<1>5. /\ queue = EmptyQueue /\ notifications = <<>> /\ dispatching = <<>> /\ entries = <<>>
      /\ buffer = <<>> /\ back_buffer = <<>> /\ delete_queue = <<>>
      /\ missing = [h \in Hash |-> Zero] /\ excused = {}
  BY DEF Init
<1>6. BPTypeOK
  BY <1>1, <1>2, <1>3, <1>4, <1>5 DEF BPTypeOK
<1>7. Distinct(entries) /\ HandedBack /\ WaitingIsTriggered
  BY <1>1, <1>5 DEF Distinct, HandedBack, WaitingIsTriggered
<1>8. GapsAreKept
  BY <1>5 DEF GapsAreKept
<1>9. Positions
  BY <1>4 DEF Positions
<1>10. Told
  BY <1>1, <1>4, <1>5 DEF Told, Made, Announced
<1>11. NotificationsBounded
  <2>1. 0 < max_ledger_notifications + batch_size + 1
    BY BlockProcessingAssumption, NotificationsAssumption, SMTT(30)
  <2> QED BY <1>1, <1>5, <2>1 DEF NotificationsBounded
<1> QED BY <1>6, <1>7, <1>8, <1>9, <1>10, <1>11 DEF BPInv

(* Every step of a thread, of the network and of the elections keeps it. *)
LEMMA BPInvStep == BPInv /\ [Next]_vars => BPInv'
<1> SUFFICES ASSUME BPInv, [Next]_vars PROVE BPInv'
  OBVIOUS
<1>1. CASE Next
  BY <1>1, ArrivalStep, CementingStep, CooldownStep, PeriodicUpdateStep, TakeBlockStep,
     BeginWriteStep, RefreshStep, RenewStep, ProcessStep, NotifyStep, CommitStep, ResolveStep,
     TakeTriggersStep, RequeueStep, DeleteEntryStep, TakeNotificationStep, ObserveStep
  DEF Next, Processor, Unchecked, Notifier
<1>2. CASE UNCHANGED vars
  <2>1. UNCHANGED <<version, gap_vars, history, note_vars, committed, bp>> /\ queue' = queue
    BY <1>2 DEF vars, ledger_vars, queue_vars
  <2>2. queue \in Queue
    BY BPInvParts DEF BPTypeOK
  <2> QED BY <2>1, <2>2, OtherSteps
<1> QED BY <1>1, <1>2

(* Everything the invariant says holds whatever arrives and is forced. *)
THEOREM BPInvariance == Spec => []BPInv
BY InitBPInv, BPInvStep, PTL DEF Spec

(* process_one puts a block with a gap under the block it waits for, and
   query_impl deletes it only once it is queued again: no such block is lost
   but for the reasons the code accepts. *)
THEOREM GapsKept == Spec => []GapsAreKept
<1>1. BPInv => GapsAreKept
  BY DEF BPInv
<1> QED BY <1>1, BPInvariance, PTL

(* process_one triggers what enters the ledger: no entry of the unchecked map
   waits for a block that is there. *)
THEOREM WaitingTriggered == Spec => []WaitingIsTriggered
<1>1. BPInv => WaitingIsTriggered
  BY DEF BPInv
<1> QED BY <1>1, BPInvariance, PTL

(* The block processor waits for room before a batch: the notifications never
   exceed their bound by more than a batch. *)
THEOREM NotificationsStayBounded == Spec => []NotificationsBounded
<1>1. BPInv => NotificationsBounded
  BY DEF BPInv
<1> QED BY <1>1, BPInvariance, PTL

(* Only the call of the observers ends the dispatch of a notification. *)
LEMMA OnlyObserved ==
    ASSUME BPInv, Next, dispatching # <<>>, dispatching' = <<>>
    PROVE  Observe
<1>1. dispatching \in Seq(Notification) /\ Positions
  BY BPInvParts DEF BPTypeOK
<1>2. CASE Renew \/ Resolve
  <2>1. version' = version /\ committed' = committed /\ committed = version /\ resolve_all
    BY <1>1, <1>2 DEF Renew, Resolve, Positions, ledger_vars
  <2>2. DOMAIN dispatching' = DOMAIN dispatching
    BY <2>1, ResolveTells
  <2>3. 1 \in DOMAIN dispatching /\ DOMAIN <<>> = {}
    BY <1>1, SMTT(30)
  <2> QED BY <2>2, <2>3
<1>3. CASE TakeNotification
  BY <1>3 DEF TakeNotification, Take
<1>4. CASE dispatching' = dispatching
  BY <1>4
<1>5. \/ Renew \/ Resolve \/ TakeNotification \/ Observe
      \/ dispatching' = dispatching
  BY DEF Next, Processor, Unchecked, Notifier, Add, ForceBlock, BeginCementing, Cement, Cooldown,
         PeriodicUpdate, TakeBlock, BeginWrite, Refresh, Process, Notify, Commit, TakeTriggers,
         Requeue, DeleteEntry, note_vars
<1> QED BY <1>2, <1>3, <1>4, <1>5

(* The thread of the notifications waits for the future of an entry: what it
   tells the observers is committed. *)
THEOREM TellsAfterCommit == Spec => ToldAfterCommit
<1> DEFINE A == dispatching # <<>> /\ dispatching' = <<>> =>
                   \A c \in dispatching[1].changes : committed[c[1]] >= c[2]
<1>1. ASSUME BPInv, Next PROVE A
  <2> SUFFICES ASSUME dispatching # <<>>, dispatching' = <<>>, NEW c \in dispatching[1].changes
               PROVE  committed[c[1]] >= c[2]
    OBVIOUS
  <2>0. /\ Told /\ dispatching \in Seq(Notification) /\ committed \in [Hash -> Nat]
    BY <1>1, BPInvParts DEF BPTypeOK
  <2>1. Observe
    BY <1>1, OnlyObserved
  <2>2. dispatching[1].committed /\ 1 \in DOMAIN dispatching /\ dispatching[1] \in Notification
    <3>1. dispatching[1].committed
      BY <2>1 DEF Observe, Dispatch
    <3>2. 1 \in DOMAIN dispatching /\ dispatching[1] \in Notification
      BY <2>0, SMTT(30)
    <3> QED BY <3>1, <3>2
  <2>3. c[2] <= committed[c[1]]
    BY <2>0, <2>2 DEF Told, Announced, Seen
  <2>4. c \in Change
    BY <2>2 DEF Notification
  <2>5. PICK a, b : a = c[2] /\ b = committed[c[1]]
    OBVIOUS
  <2>6. a \in Nat /\ b \in Nat /\ a <= b
    BY <2>0, <2>3, <2>4, <2>5 DEF Change
  <2>7. b >= a
    BY <2>6, SMTT(30)
  <2> QED BY <2>5, <2>7
<1>2. BPInv /\ [Next]_vars => [A]_vars
  BY <1>1
<1> QED BY <1>2, BPInvariance, PTL DEF Spec, ToldAfterCommit
=============================================================================
