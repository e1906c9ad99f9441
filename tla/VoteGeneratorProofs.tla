------------------------- MODULE VoteGeneratorProofs -------------------------
(***************************************************************************)
(* What the votes of a node promise, for any blocks, elections, queue and  *)
(* batch sizes and any number of restarts.                                 *)
(*                                                                         *)
(* Every final vote on its way out is bound: its hash is recorded in the   *)
(* table, or it is cemented and nothing is recorded.  Records that are not *)
(* committed yet exist only under the final verifier's write transaction,  *)
(* while the ledger holds the block they name.                             *)
(*                                                                         *)
(* The ledger under the generator is the abstract block lattice: what      *)
(* holds of every implementation of it comes first.                        *)
(***************************************************************************)
EXTENDS VoteGenerator, FiniteSetTheorems, WellFoundedInduction, TLAPS

USE ZenonT(30)

-----------------------------------------------------------------------------
(* What holds of every implementation of the abstract block lattice.       *)

Inv == TypeOK /\ DependencyClosed /\ NoForks

(* The lattice starts closed and without forks, and each of its three steps
   keeps it so. *)
LEMMA LatticeInductive ==
    /\ Init => Inv
    /\ Inv /\ [Next]_vars => Inv'
<1>1. Init => Inv
  BY LatticeAssumption DEF Init, Inv, TypeOK, DependencyClosed, NoForks
<1>2. ASSUME Inv, [Next]_vars PROVE Inv'
  <2>1. CASE UNCHANGED vars
    BY <1>2, <2>1 DEF vars, Inv, TypeOK, DependencyClosed, NoForks
  <2>2. ASSUME NEW h \in Hash, Accept(h) PROVE Inv'
    <3>1. TypeOK'
      BY <1>2, <2>2 DEF Accept, Inv, TypeOK
    <3>2. DependencyClosed'
      BY <1>2, <2>2 DEF Accept, Inv, TypeOK, DependencyClosed
    <3>3. NoForks'
      BY <1>2, <2>2 DEF Accept, Inv, TypeOK, NoForks
    <3> QED BY <3>1, <3>2, <3>3 DEF Inv
  <2>3. ASSUME NEW h \in Hash, Discard(h) PROVE Inv'
    BY <1>2, <2>3 DEF Discard, Inv, TypeOK, DependencyClosed, NoForks
  <2>4. ASSUME NEW h \in Hash, Cement(h) PROVE Inv'
    BY <1>2, <2>4 DEF Cement, Inv, TypeOK, DependencyClosed, NoForks
  <2> QED BY <1>2, <2>1, <2>2, <2>3, <2>4 DEF Next
<1> QED BY <1>1, <1>2

(* Accepted blocks have their dependencies accepted, cemented blocks have
   them cemented: ledger::process, rollback and cement keep the lattice
   closed. *)
THEOREM Closed == Spec => []DependencyClosed
<1>1. Spec => []Inv
  BY LatticeInductive, PTL DEF Spec
<1>2. Inv => DependencyClosed
  BY DEF Inv
<1> QED BY <1>1, <1>2, PTL

(* No two blocks of the ledger compete for the same root. *)
THEOREM Unforked == Spec => []NoForks
<1>1. Spec => []Inv
  BY LatticeInductive, PTL DEF Spec
<1>2. Inv => NoForks
  BY DEF Inv
<1> QED BY <1>1, <1>2, PTL

(* Cementing is for ever: no operation of the ledger takes a cemented block
   back. *)
THEOREM Durable == Spec => CementedForever
<1>1. [Next]_vars => [cemented \subseteq cemented']_vars
  BY DEF Next, Accept, Discard, Cement, vars
<1> QED BY <1>1, PTL DEF Spec, CementedForever

-----------------------------------------------------------------------------
(* The vote generator over the lattice.                                    *)

Permits == [type : Type, hash : Hash]
PC == {"idle", "begin", "verify"}

(* The shape of the state.  Nothing is said about the requests. *)
Shape ==
    /\ final_votes \in [Root -> Hash \cup {None}]
    /\ committed \in [Root -> Hash \cup {None}]
    /\ crashes \in Nat
    /\ pc \in [Type -> PC]
    /\ verified \in [Type -> Seq(Permits)]
    /\ broadcaster \in [Type -> Seq(Hash)]
    /\ sent \in [Type -> SUBSET Hash]

(* The table, and what of it is not committed. *)
Recorded ==
    \A r \in Root :
        /\ final_votes[r] # None =>
              /\ QualifiedRoot[final_votes[r]] = r
              /\ Dependencies[final_votes[r]] \subseteq cemented
        /\ committed[r] # None => final_votes[r] = committed[r]
        /\ final_votes[r] # committed[r] =>
              pc["final"] = "verify" /\ final_votes[r] \in accepted

(* What entitles the node to a vote of type t for h. *)
Entitled(t, h) ==
    /\ Dependencies[h] \subseteq cemented
    /\ t = "final" => \/ final_votes[QualifiedRoot[h]] = h
                      \/ h \in cemented /\ final_votes[QualifiedRoot[h]] = None

(* Every vote is, from the permit to the broadcast. *)
AllEntitled ==
    /\ \A t \in Type : \A i \in DOMAIN verified[t] :
          Entitled(verified[t][i].type, verified[t][i].hash)
    /\ \A t \in Type : \A i \in DOMAIN broadcaster[t] : Entitled(t, broadcaster[t][i])

(* So is what has been sent since the first start. *)
SentEntitled ==
    \A t \in Type : \A h \in sent[t] :
        /\ Dependencies[h] \subseteq cemented
        /\ crashes = 0 => Entitled(t, h)

IInv == Inv /\ Shape /\ Recorded /\ AllEntitled /\ SentEntitled
-----------------------------------------------------------------------------

(* The invariant holds initially. *)
LEMMA InitIInv == VGInit => IInv
<1> SUFFICES ASSUME VGInit PROVE IInv
    OBVIOUS
<1>1. Inv
    BY LatticeInductive DEF VGInit
<1>2. Shape
    BY SMTT(30) DEF VGInit, Shape, PC
<1>3. Recorded /\ AllEntitled /\ SentEntitled
    BY SMTT(30) DEF VGInit, Recorded, AllEntitled, SentEntitled
<1> QED
    BY <1>1, <1>2, <1>3 DEF IInv

(* A vote stays entitled while the ledger cements and the table records. *)
LEMMA EntitledStays ==
    ASSUME IInv, NEW t, NEW h \in Hash, Entitled(t, h), cemented \subseteq cemented',
           \A r \in Root : \/ final_votes'[r] = final_votes[r]
                           \/ /\ final_votes[r] \in {None, final_votes'[r]}
                              /\ final_votes'[r] \in accepted
                              /\ QualifiedRoot[final_votes'[r]] = r
    PROVE  Entitled(t, h)'
<1>1. QualifiedRoot[h] \in Root
    BY DEF Root
<1>2. cemented \subseteq accepted /\ NoForks
    BY DEF IInv, Inv, TypeOK
<1>3. h # None
    BY VoteGeneratorAssumption
<1> QED
    BY <1>1, <1>2, <1>3, SMTT(30) DEF Entitled, NoForks

(* Removing an entry keeps the others. *)
LEMMA Removal ==
    ASSUME NEW S, NEW s \in Seq(S), NEW k \in DOMAIN s
    PROVE  /\ RemoveAt(s, k) \in Seq(S)
           /\ \A i \in DOMAIN RemoveAt(s, k) : \E j \in DOMAIN s : RemoveAt(s, k)[i] = s[j]
<1> DEFINE a == SubSeq(s, 1, k - 1)
           b == SubSeq(s, k + 1, Len(s))
<1>1. /\ a \in Seq(S) /\ Len(a) = k - 1
      /\ \A i \in 1 .. k - 1 : a[i] = s[i]
    BY SMTT(30)
<1>2. /\ b \in Seq(S) /\ Len(b) = Len(s) - k
      /\ \A i \in 1 .. Len(s) - k : b[i] = s[k + i]
    BY SMTT(30)
<1>3. RemoveAt(s, k) = a \o b
    BY DEF RemoveAt
<1> HIDE DEF a, b
<1>4. /\ a \o b \in Seq(S)
      /\ Len(a \o b) = Len(s) - 1
      /\ \A i \in 1 .. Len(s) - 1 : (a \o b)[i] = IF i < k THEN a[i] ELSE b[i - (k - 1)]
    BY <1>1, <1>2, SMTT(30)
<1>5. ASSUME NEW i \in 1 .. Len(s) - 1
      PROVE  \E j \in DOMAIN s : (a \o b)[i] = s[j]
  <2>1. CASE i < k
    <3>1. i \in DOMAIN s /\ (a \o b)[i] = s[i]
        BY <1>1, <1>4, <2>1, SMTT(30)
    <3> QED
        BY <3>1
  <2>2. CASE i >= k
    <3>1. i - (k - 1) \in 1 .. Len(s) - k /\ k + (i - (k - 1)) = i + 1
        BY <2>2, SMTT(30)
    <3>2. i + 1 \in DOMAIN s /\ (a \o b)[i] = s[i + 1]
        BY <1>2, <1>4, <2>2, <3>1, SMTT(30)
    <3> QED
        BY <3>2
  <2>3. i < k \/ i >= k
      BY SMTT(30)
  <2> QED
      BY <2>1, <2>2, <2>3
<1>6. DOMAIN (a \o b) = 1 .. Len(s) - 1
    BY <1>4, SMTT(30)
<1> DEFINE c == a \o b
<1>7. RemoveAt(s, k) = c /\ c \in Seq(S) /\ \A i \in DOMAIN c : \E j \in DOMAIN s : c[i] = s[j]
    BY <1>3, <1>4, <1>5, <1>6
<1> HIDE DEF c
<1> QED
    BY <1>7

(* What waits in a broadcaster after a push waited before or is the hash
   pushed. *)
LEMMA BroadcastPush ==
    ASSUME NEW s \in Seq(Hash), NEW h \in Hash
    PROVE  /\ broadcast_push(s, h) \in Seq(Hash)
           /\ \A i \in DOMAIN broadcast_push(s, h) :
                 broadcast_push(s, h)[i] = h \/ \E j \in DOMAIN s : broadcast_push(s, h)[i] = s[j]
<1> DEFINE same == {i \in DOMAIN s : SameRoot(s[i], h)}
           others == IF same = {} THEN s ELSE RemoveAt(s, CHOOSE i \in same : TRUE)
<1>1. /\ others \in Seq(Hash)
      /\ \A i \in DOMAIN others : \E j \in DOMAIN s : others[i] = s[j]
  <2>1. CASE same # {}
    <3> DEFINE k == CHOOSE i \in same : TRUE
    <3>1. k \in DOMAIN s
        BY <2>1
    <3>2. others = RemoveAt(s, k)
        BY <2>1
    <3> HIDE DEF k, others
    <3> QED
        BY <3>1, <3>2, Removal, SMTT(30)
  <2>2. CASE same = {}
    <3>1. others = s
        BY <2>2
    <3> HIDE DEF others
    <3> QED
        BY <3>1
  <2> HIDE DEF others
  <2> QED
      BY <2>1, <2>2
<1>2. \/ broadcast_push(s, h) = s
      \/ broadcast_push(s, h) = others
      \/ broadcast_push(s, h) = Append(others, h)
    BY DEF broadcast_push
<1> HIDE DEF others
<1>3. CASE broadcast_push(s, h) = Append(others, h)
  <2>1. /\ Append(others, h) \in Seq(Hash)
        /\ DOMAIN Append(others, h) = 1 .. Len(others) + 1
        /\ \A i \in 1 .. Len(others) + 1 :
              Append(others, h)[i] = IF i = Len(others) + 1 THEN h ELSE others[i]
        /\ DOMAIN others = 1 .. Len(others)
      BY <1>1, SMTT(30)
  <2> QED
      BY <1>1, <1>3, <2>1, SMTT(30)
<1> QED
    BY <1>1, <1>2, <1>3

-----------------------------------------------------------------------------

(* The steps that leave the ledger and the table alone keep every vote
   entitled; what they add to a queue or send has to be entitled itself. *)
LEMMA QuietStep ==
    ASSUME IInv, Shape', UNCHANGED <<ledger, tables, crashes>>,
           pc["final"] = "verify" => pc'["final"] = "verify",
           \A t \in Type : \A i \in DOMAIN verified'[t] :
              Entitled(verified'[t][i].type, verified'[t][i].hash),
           \A t \in Type : \A i \in DOMAIN broadcaster'[t] : Entitled(t, broadcaster'[t][i]),
           \A t \in Type : \A h \in sent'[t] \ sent[t] : Entitled(t, h)
    PROVE  IInv'
<1>1. Inv'
    BY LatticeInductive DEF IInv, ledger, vars
<1>2. Recorded'
    BY DEF IInv, Shape, Recorded, ledger, tables
<1>3. AllEntitled' /\ SentEntitled'
    BY DEF IInv, AllEntitled, SentEntitled, Entitled, ledger, tables
<1> QED
    BY <1>1, <1>2, <1>3 DEF IInv

(* A request, and the verifier's way to its transaction. *)
LEMMA RequestStep ==
    ASSUME IInv, NEW t \in Type
    PROVE  /\ \A h \in Elected[t] : Request(t, h) => IInv'
           /\ Take(t) => IInv'
           /\ BeginFinal => IInv'
<1>0. Shape /\ AllEntitled
    BY DEF IInv
<1>1. ASSUME UNCHANGED <<ledger, tables, verified, broadcaster, sent, crashes>>,
             pc' \in [Type -> PC], pc["final"] = "verify" => pc'["final"] = "verify"
      PROVE  IInv'
  <2>1. UNCHANGED <<final_votes, committed, verified, broadcaster, sent, crashes>>
      BY <1>1 DEF tables
  <2>2. Shape'
      BY <1>0, <1>1, <2>1 DEF Shape
  <2> QED
      BY <1>0, <1>1, <2>2, QuietStep DEF AllEntitled
<1>2. ASSUME NEW h \in Elected[t], Request(t, h) PROVE IInv'
  <2>1. pc' = pc /\ UNCHANGED <<ledger, tables, verified, broadcaster, sent, crashes>>
      BY <1>2 DEF Request, verifier
  <2> QED
      BY <1>0, <1>1, <2>1 DEF Shape
<1>3. ASSUME Take(t) PROVE IInv'
  <2>1. /\ pc[t] = "idle" /\ UNCHANGED <<ledger, tables, verified, broadcaster, sent, crashes>>
        /\ \E c \in PC : pc' = [pc EXCEPT ![t] = c]
    <3> DEFINE c == IF index_next_batch(index[t], BatchSize).batch = <<>> THEN "idle"
                    ELSE IF t = "final" THEN "begin" ELSE "verify"
    <3>1. c \in PC
        BY DEF PC
    <3>2. pc' = [pc EXCEPT ![t] = c]
        BY <1>3 DEF Take
    <3>3. pc[t] = "idle" /\ UNCHANGED <<ledger, tables, verified, broadcaster, sent, crashes>>
        BY <1>3, SMTT(30) DEF Take
    <3> HIDE DEF c
    <3> QED
        BY <3>1, <3>2, <3>3
  <2>2. pc' \in [Type -> PC] /\ (pc["final"] = "verify" => pc'["final"] = "verify")
      BY <1>0, <2>1 DEF Shape, Type
  <2> QED
      BY <1>1, <2>1, <2>2
<1>4. ASSUME BeginFinal PROVE IInv'
  <2>1. /\ UNCHANGED <<ledger, tables, verified, broadcaster, sent, crashes>>
        /\ pc' = [pc EXCEPT !["final"] = "verify"]
      BY <1>4, SMTT(30) DEF BeginFinal
  <2>2. pc' \in [Type -> PC] /\ pc'["final"] = "verify"
      BY <1>0, <2>1, SMTT(30) DEF Shape, Type, PC
  <2> QED
      BY <1>1, <2>1, <2>2
<1> QED
    BY <1>2, <1>3, <1>4

(* The normal verifier: a permit is for the block asked for, whose
   dependencies are cemented, or for the block recorded for its root. *)
LEMMA VerifyNormalStep ==
    ASSUME IInv, VerifyNormal
    PROVE  IInv'
<1> DEFINE h == Head(batch["normal"])
           old == verified["normal"]
<1>1. /\ policy_vote(h) \in Seq(Permits)
      /\ \A i \in DOMAIN policy_vote(h) :
            Entitled(policy_vote(h)[i].type, policy_vote(h)[i].hash)
  <2>1. CASE ~dependencies_cemented(h)
      BY <2>1, SMTT(30) DEF policy_vote
  <2>2. CASE dependencies_cemented(h)
    <3> DEFINE r == QualifiedRoot[h]
    <3>1. h \in Hash /\ r \in Root /\ Dependencies[h] \subseteq cemented
        BY <2>2 DEF dependencies_cemented, IInv, Inv, TypeOK, Root
    <3>2. CASE committed[r] = None
      <4>1. policy_vote(h) = <<Permit("normal", h)>>
          BY <2>2, <3>2 DEF policy_vote
      <4> HIDE DEF h
      <4>2. Permit("normal", h) \in Permits
          BY <3>1 DEF Permit, Permits, Type
      <4>3. Entitled("normal", h)
          BY <3>1, SMTT(30) DEF Entitled
      <4> QED
          BY <4>1, <4>2, <4>3, SMTT(30) DEF Permit
    <3>3. CASE committed[r] # None
      <4> DEFINE c == committed[r]
      <4>1. policy_vote(h) = <<Permit("final", c)>>
          BY <2>2, <3>3 DEF policy_vote
      <4> HIDE DEF h
      <4>2. c \in Hash /\ final_votes[r] = c /\ QualifiedRoot[c] = r
            /\ Dependencies[c] \subseteq cemented
          BY <3>1, <3>3, SMTT(30) DEF IInv, Shape, Recorded
      <4>3. Entitled("final", c)
          BY <4>2 DEF Entitled
      <4>4. Permit("final", c) \in Permits
          BY <4>2 DEF Permit, Permits, Type
      <4> QED
          BY <4>1, <4>3, <4>4, SMTT(30) DEF Permit
    <3> QED
        BY <3>2, <3>3
  <2> QED
      BY <2>1, <2>2, SMTT(30)
<1> DEFINE new == policy_vote(h)
<1>2. verified' = [verified EXCEPT !["normal"] = old \o new]
    BY DEF VerifyNormal
<1>3. old \in Seq(Permits)
      /\ \A i \in DOMAIN old : Entitled(old[i].type, old[i].hash)
    BY DEF IInv, Shape, AllEntitled, Type
<1>4. UNCHANGED <<ledger, tables, index, pc, broadcaster, sent, crashes>>
    BY DEF VerifyNormal
<1> HIDE DEF h, old, new
<1>5. old \o new \in Seq(Permits)
      /\ \A i \in DOMAIN (old \o new) : Entitled((old \o new)[i].type, (old \o new)[i].hash)
    BY <1>1, <1>3, SMTT(30) DEF new
<1>6. Shape'
  <2>1. Shape /\ UNCHANGED <<final_votes, committed, pc, broadcaster, sent, crashes>>
      BY <1>4, SMTT(30) DEF IInv, tables
  <2>2. verified \in [Type -> Seq(Permits)]
      BY <2>1, SMTT(30) DEF Shape
  <2>3. verified' \in [Type -> Seq(Permits)]
      BY <1>2, <1>5, <2>2 DEF Type
  <2> QED
      BY <2>1, <2>3 DEF Shape
<1>7. \A t \in Type : \A i \in DOMAIN verified'[t] :
          Entitled(verified'[t][i].type, verified'[t][i].hash)
    BY <1>2, <1>5, SMTT(30) DEF IInv, Shape, AllEntitled
<1> QED
    BY <1>4, <1>6, <1>7, QuietStep DEF IInv, AllEntitled

(* A permit in the broadcaster, on the way from one queue to another. *)
LEMMA PushStep ==
    ASSUME IInv, NEW t \in Type, Push(t)
    PROVE  IInv'
<1> DEFINE p == Head(verified[t])
           old == broadcaster[p.type]
           new == broadcast_push(old, p.hash)
<1>0. Shape /\ AllEntitled
    BY DEF IInv
<1>1. /\ verified \in [Type -> Seq(Permits)] /\ verified[t] # <<>>
      /\ broadcaster \in [Type -> Seq(Hash)]
    BY <1>0 DEF Push, Shape
<1>2. /\ broadcaster' = [broadcaster EXCEPT ![p.type] = new]
      /\ verified' = [verified EXCEPT ![t] = Tail(@)]
      /\ UNCHANGED <<ledger, tables, pc, sent, crashes>>
    BY DEF Push
<1>3. p \in Permits /\ 1 \in DOMAIN verified[t] /\ p = verified[t][1]
    BY <1>1, SMTT(30)
<1>4. p.type \in Type /\ p.hash \in Hash /\ Entitled(p.type, p.hash)
    BY <1>0, <1>3, SMTT(30) DEF Permits, AllEntitled
<1>5. old \in Seq(Hash) /\ \A j \in DOMAIN old : Entitled(p.type, old[j])
    BY <1>0, <1>1, <1>4 DEF AllEntitled
<1> HIDE DEF p, old
<1>6. /\ new \in Seq(Hash)
      /\ \A i \in DOMAIN new : new[i] = p.hash \/ \E j \in DOMAIN old : new[i] = old[j]
    BY <1>4, <1>5, BroadcastPush, SMTT(30)
<1> HIDE DEF new
<1>7. \A i \in DOMAIN new : Entitled(p.type, new[i])
    BY <1>4, <1>5, <1>6
<1>8. /\ broadcaster' \in [Type -> Seq(Hash)]
      /\ \A u \in Type : \A i \in DOMAIN broadcaster'[u] : Entitled(u, broadcaster'[u][i])
    BY <1>0, <1>1, <1>2, <1>4, <1>6, <1>7 DEF AllEntitled
<1>9. /\ verified' \in [Type -> Seq(Permits)]
      /\ \A u \in Type : \A i \in DOMAIN verified'[u] :
            Entitled(verified'[u][i].type, verified'[u][i].hash)
  <2>1. Tail(verified[t]) \in Seq(Permits)
        /\ \A i \in DOMAIN Tail(verified[t]) :
              i + 1 \in DOMAIN verified[t] /\ Tail(verified[t])[i] = verified[t][i + 1]
      BY <1>1, SMTT(30)
  <2>2. \A i \in DOMAIN Tail(verified[t]) :
            Entitled(Tail(verified[t])[i].type, Tail(verified[t])[i].hash)
      BY <1>0, <2>1 DEF AllEntitled
  <2> QED
      BY <1>0, <1>1, <1>2, <2>1, <2>2, SMTT(30) DEF AllEntitled
<1>10. Shape'
  <2>1. UNCHANGED <<final_votes, committed, pc, sent, crashes>>
      BY <1>2 DEF tables
  <2> QED
      BY <1>0, <1>8, <1>9, <2>1 DEF Shape
<1> QED
    BY <1>2, <1>8, <1>9, <1>10, QuietStep, SMTT(30)

(* The node is entitled to every vote it sends, a broadcast or a reply. *)
LEMMA SendsEntitled ==
    ASSUME IInv, (\E t \in Type : Broadcast(t)) \/ (\E h \in Hash : Reply(h))
    PROVE  /\ sent' \in [Type -> SUBSET Hash]
           /\ \A u \in Type : \A x \in sent'[u] \ sent[u] : Entitled(u, x)
<1>0. Inv /\ Shape /\ Recorded /\ AllEntitled /\ sent \in [Type -> SUBSET Hash]
    BY DEF IInv, Shape
<1> DEFINE Goal == /\ sent' \in [Type -> SUBSET Hash]
                   /\ \A u \in Type : \A x \in sent'[u] \ sent[u] : Entitled(u, x)
<1>1. ASSUME NEW t \in Type, Broadcast(t) PROVE Goal
  <2> DEFINE s == broadcaster[t]
             n == IF Len(s) < BatchThreshold THEN Len(s) ELSE BatchThreshold
             out == SubSeq(s, 1, n)
  <2>1. sent' = [sent EXCEPT ![t] = @ \cup ToSet(out)]
      BY <1>1 DEF Broadcast
  <2>2. s \in Seq(Hash) /\ n \in 0 .. Len(s)
    <3>1. s \in Seq(Hash) /\ Len(s) \in Nat
        BY <1>0, SMTT(30) DEF Shape
    <3>2. BatchThreshold \in Nat
        BY VoteGeneratorAssumption
    <3> QED
        BY <3>1, <3>2, SMTT(30)
  <2> HIDE DEF n
  <2>3. out \in Seq(Hash) /\ \A i \in DOMAIN out : i \in DOMAIN s /\ out[i] = s[i]
      BY <2>2, SMTT(30)
  <2>4. \A i \in DOMAIN s : Entitled(t, s[i])
      BY <1>0 DEF AllEntitled
  <2> HIDE DEF s, out
  <2>5. ToSet(out) \in SUBSET Hash /\ \A h \in ToSet(out) : Entitled(t, h)
      BY <2>3, <2>4, SMTT(30) DEF ToSet
  <2> QED
      BY <1>0, <2>1, <2>5
<1>2. ASSUME NEW h \in Hash, Reply(h) PROVE Goal
  <2> DEFINE r == QualifiedRoot[h]
  <2>1. sent' = [sent EXCEPT !["final"] = @ \cup reply_final(h)]
      BY <1>2 DEF Reply
  <2>2. ASSUME NEW x \in reply_final(h) PROVE x \in Hash /\ Entitled("final", x)
    <3>0. r \in Root
        BY DEF Root
    <3>1. CASE committed[r] # None
      <4>1. x = committed[r] /\ x \in Hash
          BY <1>0, <3>0, <3>1 DEF reply_final, Shape
      <4>2. final_votes[r] = x /\ QualifiedRoot[x] = r /\ Dependencies[x] \subseteq cemented
          BY <1>0, <3>0, <3>1, <4>1, SMTT(30) DEF Recorded
      <4> QED
          BY <4>1, <4>2 DEF Entitled
    <3>2. CASE committed[r] = None
      <4>1. x = h /\ h \in cemented /\ h \in accepted /\ Dependencies[h] \subseteq cemented
          BY <1>0, <3>2 DEF reply_final, Inv, TypeOK, DependencyClosed
      <4>2. final_votes[r] # None => final_votes[r] = h
        <5>1. final_votes[r] # None =>
                 final_votes[r] \in accepted /\ QualifiedRoot[final_votes[r]] = r
            BY <1>0, <3>0, <3>2 DEF Recorded
        <5> QED
            BY <1>0, <4>1, <5>1, SMTT(30) DEF Inv, NoForks
      <4> QED
          BY <4>1, <4>2 DEF Entitled
    <3> QED
        BY <3>1, <3>2
  <2> QED
      BY <1>0, <2>1, <2>2 DEF Type
<1> HIDE DEF Goal
<1>3. Goal
    BY <1>1, <1>2
<1> QED
    BY <1>3 DEF Goal

(* Broadcasting and replying send only votes that the node is entitled to. *)
LEMMA SendStep ==
    ASSUME IInv
    PROVE  /\ \A t \in Type : Broadcast(t) => IInv'
           /\ \A h \in Hash : Reply(h) => IInv'
<1>0. Shape /\ AllEntitled
    BY SMTT(30) DEF IInv
<1>1. ASSUME NEW t \in Type, Broadcast(t) PROVE IInv'
  <2> DEFINE s == broadcaster[t]
             n == IF Len(s) < BatchThreshold THEN Len(s) ELSE BatchThreshold
             rest == SubSeq(s, n + 1, Len(s))
  <2>1. /\ broadcaster' = [broadcaster EXCEPT ![t] = rest]
        /\ UNCHANGED <<ledger, tables, pc, verified, crashes>>
      BY <1>1 DEF Broadcast, verifier
  <2>2. broadcaster \in [Type -> Seq(Hash)] /\ s \in Seq(Hash) /\ n \in 0 .. Len(s)
    <3>1. broadcaster \in [Type -> Seq(Hash)] /\ s \in Seq(Hash) /\ Len(s) \in Nat
        BY <1>0, SMTT(30) DEF Shape
    <3>2. BatchThreshold \in Nat
        BY VoteGeneratorAssumption
    <3> QED
        BY <3>1, <3>2, SMTT(30)
  <2> HIDE DEF n
  <2>3. /\ rest \in Seq(Hash)
        /\ \A i \in DOMAIN rest : i + n \in DOMAIN s /\ rest[i] = s[i + n]
      BY <2>2, SMTT(30)
  <2>4. \A i \in DOMAIN s : Entitled(t, s[i])
      BY <1>0 DEF AllEntitled
  <2>5. \A i \in DOMAIN rest : Entitled(t, rest[i])
    <3> HIDE DEF s, rest
    <3> QED
        BY <2>3, <2>4
  <2> HIDE DEF rest
  <2>6. /\ broadcaster' \in [Type -> Seq(Hash)]
        /\ \A u \in Type : \A i \in DOMAIN broadcaster'[u] : Entitled(u, broadcaster'[u][i])
      BY <1>0, <2>1, <2>2, <2>3, <2>5, SMTT(30) DEF AllEntitled
  <2>7. /\ sent' \in [Type -> SUBSET Hash]
        /\ \A u \in Type : \A x \in sent'[u] \ sent[u] : Entitled(u, x)
      BY <1>1, SendsEntitled
  <2>8. Shape'
    <3>1. UNCHANGED <<final_votes, committed, pc, verified, crashes>>
        BY <2>1 DEF tables
    <3> QED
        BY <1>0, <2>6, <2>7, <3>1, SMTT(30) DEF Shape
  <2> QED
      BY <1>0, <2>1, <2>6, <2>7, <2>8, QuietStep, SMTT(30) DEF AllEntitled
<1>2. ASSUME NEW h \in Hash, Reply(h) PROVE IInv'
  <2>1. UNCHANGED <<ledger, tables, pc, verified, broadcaster, crashes>>
      BY <1>2, SMTT(30) DEF Reply, verifier
  <2>2. /\ sent' \in [Type -> SUBSET Hash]
        /\ \A u \in Type : \A x \in sent'[u] \ sent[u] : Entitled(u, x)
      BY <1>2, SendsEntitled
  <2>3. Shape'
    <3>1. UNCHANGED <<final_votes, committed, pc, verified, broadcaster, crashes>>
        BY <2>1 DEF tables
    <3> QED
        BY <1>0, <2>2, <3>1 DEF Shape
  <2> QED
      BY <1>0, <2>1, <2>2, <2>3, QuietStep DEF AllEntitled
<1> QED
    BY <1>1, <1>2, SMTT(30)

(* A final vote is recorded, for a block of the ledger whose root had no
   other record. *)
LEMMA VerifyFinalStep ==
    ASSUME IInv, VerifyFinal
    PROVE  IInv'
<1> DEFINE h == Head(batch["final"])
           r == QualifiedRoot[h]
           old == verified["final"]
<1>0. Inv /\ Shape /\ Recorded /\ AllEntitled /\ SentEntitled
    BY DEF IInv
<1>1. UNCHANGED <<accepted, cemented, committed, pc, broadcaster, sent, crashes>>
      /\ pc["final"] = "verify"
    BY SMTT(30) DEF VerifyFinal, ledger
<1>2. Inv'
    BY <1>0, <1>1, LatticeInductive, SMTT(30) DEF vars
<1>3. CASE ~(dependencies_cemented(h) /\ final_vote_put(h))
  <2>1. UNCHANGED <<final_votes, verified>>
      BY <1>3, SMTT(30) DEF VerifyFinal
  <2>2. Shape'
      BY <1>0, <1>1, <2>1, SMTT(30) DEF Shape
  <2> QED
      BY <1>0, <1>1, <2>1, <2>2, QuietStep DEF ledger, tables, AllEntitled
<1>4. CASE dependencies_cemented(h) /\ final_vote_put(h)
  <2>1. /\ final_votes' = [final_votes EXCEPT ![r] = h]
        /\ verified' = [verified EXCEPT !["final"] = Append(old, Permit("final", h))]
      BY <1>4, SMTT(30) DEF VerifyFinal
  <2>2. /\ h \in Hash /\ h \in accepted /\ r \in Root
        /\ Dependencies[h] \subseteq cemented /\ final_votes[r] \in {None, h}
      BY <1>0, <1>4 DEF dependencies_cemented, final_vote_put, Inv, TypeOK, Root
  <2> DEFINE p == Permit("final", h)
  <2>3. p \in Permits /\ p.type = "final" /\ p.hash = h
      BY <2>2 DEF Permit, Permits, Type
  <2> HIDE DEF h, p
  <2>4. final_votes \in [Root -> Hash \cup {None}] /\ final_votes' \in [Root -> Hash \cup {None}]
        /\ verified \in [Type -> Seq(Permits)] /\ old \in Seq(Permits)
    <3>1. final_votes \in [Root -> Hash \cup {None}] /\ verified \in [Type -> Seq(Permits)]
        BY <1>0 DEF Shape
    <3> QED
        BY <2>1, <2>2, <3>1, SMTT(30) DEF Type
  <2>5. /\ final_votes'[r] = h
        /\ \A q \in Root : q # r => final_votes'[q] = final_votes[q]
      BY <2>1, <2>2, <2>4
  <2>6. Recorded'
      BY <1>0, <1>1, <2>2, <2>5, SMTT(30) DEF Recorded
  <2>7. \A q \in Root : \/ final_votes'[q] = final_votes[q]
                        \/ /\ final_votes[q] \in {None, final_votes'[q]}
                           /\ final_votes'[q] \in accepted
                           /\ QualifiedRoot[final_votes'[q]] = q
      BY <2>2, <2>5
  <2> DEFINE Still(t, x) ==
               /\ Dependencies[x] \subseteq cemented'
               /\ t = "final" => \/ final_votes'[QualifiedRoot[x]] = x
                                 \/ x \in cemented' /\ final_votes'[QualifiedRoot[x]] = None
  <2>8. \A t, x : x \in Hash /\ Entitled(t, x) => Still(t, x)
    <3> SUFFICES ASSUME NEW t, NEW x \in Hash, Entitled(t, x) PROVE Still(t, x)
        BY SMTT(30)
    <3>1. Entitled(t, x)'
        BY <1>1, <2>7, EntitledStays, SMTT(30)
    <3> QED
        BY <3>1 DEF Entitled
  <2>9. AllEntitled'
    <3>1. ASSUME NEW t \in Type, NEW i \in DOMAIN verified'[t]
          PROVE  Still(verified'[t][i].type, verified'[t][i].hash)
      <4> DEFINE e == verified'[t][i]
      <4>1. e = p \/ \E k \in DOMAIN verified[t] : e = verified[t][k]
        <5>1. CASE t = "final"
          <6>1. verified'[t] = Append(old, p) /\ old = verified[t]
              BY <2>1, <2>4, <5>1 DEF Type, p
          <6>2. /\ DOMAIN Append(old, p) = 1 .. Len(old) + 1 /\ DOMAIN old = 1 .. Len(old)
                /\ \A k \in 1 .. Len(old) + 1 :
                      Append(old, p)[k] = IF k = Len(old) + 1 THEN p ELSE old[k]
              BY <2>3, <2>4, SMTT(30)
          <6> QED
              BY <2>4, <6>1, <6>2, SMTT(30)
        <5>2. CASE t # "final"
            BY <2>1, <2>4, <5>2
        <5> QED
            BY <5>1, <5>2, SMTT(30)
      <4> HIDE DEF e
      <4>2. ASSUME e = p PROVE Still(e.type, e.hash)
        <5>1. Still("final", h)
            BY <1>1, <2>2, <2>5
        <5> QED
            BY <2>3, <4>2, <5>1, SMTT(30)
      <4>3. ASSUME NEW k \in DOMAIN verified[t], e = verified[t][k]
            PROVE  Still(e.type, e.hash)
        <5>1. verified[t][k] \in Permits /\ Entitled(verified[t][k].type, verified[t][k].hash)
            BY <1>0, <2>4, SMTT(30) DEF AllEntitled
        <5> QED
            BY <2>8, <4>3, <5>1, SMTT(30) DEF Permits
      <4> HIDE DEF Still
      <4>4. Still(e.type, e.hash)
          BY <4>1, <4>2, <4>3
      <4> QED
          BY <4>4, SMTT(30) DEF e
    <3>2. ASSUME NEW t \in Type, NEW i \in DOMAIN broadcaster[t]
          PROVE  Still(t, broadcaster[t][i])
      <4>1. broadcaster[t][i] \in Hash /\ Entitled(t, broadcaster[t][i])
          BY <1>0, SMTT(30) DEF Shape, AllEntitled
      <4> QED
          BY <1>1, <2>8, <4>1
    <3> QED
        BY <1>1, <3>1, <3>2 DEF AllEntitled, Entitled
  <2>10. SentEntitled'
    <3>1. \A t \in Type : sent[t] \subseteq Hash
        BY <1>0 DEF Shape
    <3> QED
        BY <1>0, <1>1, <2>8, <3>1 DEF SentEntitled, Entitled
  <2>11. Shape'
    <3>1. verified' \in [Type -> Seq(Permits)]
      <4>1. Append(old, p) \in Seq(Permits)
          BY <2>3, <2>4, SMTT(30)
      <4> QED
          BY <2>1, <2>4, <4>1 DEF Type, p
    <3> QED
        BY <1>0, <1>1, <2>4, <3>1 DEF Shape
  <2> QED
      BY <1>2, <2>6, <2>9, <2>10, <2>11 DEF IInv
<1> QED
    BY <1>3, <1>4

(* The final verifier commits what it has recorded. *)
LEMMA CommitStep ==
    ASSUME IInv, NEW t \in Type, RefreshFinal \/ Return(t)
    PROVE  IInv'
<1>0. Inv /\ Shape /\ Recorded /\ AllEntitled /\ SentEntitled
    BY DEF IInv
<1>1. UNCHANGED <<accepted, cemented, final_votes, verified, broadcaster, sent, crashes>>
    BY DEF RefreshFinal, Return, ledger
<1>2. \/ committed' = final_votes
      \/ committed' = committed /\ pc'["final"] = pc["final"]
    BY <1>0 DEF RefreshFinal, Return, Shape, Type
<1>3. pc' \in [Type -> PC] /\ committed' \in [Root -> Hash \cup {None}]
  <2>1. \E c \in PC, u \in Type : pc' = [pc EXCEPT ![u] = c]
      BY DEF RefreshFinal, Return, PC, Type
  <2>2. pc \in [Type -> PC] /\ committed' \in [Root -> Hash \cup {None}]
      BY <1>0, <1>2 DEF Shape
  <2> QED
      BY <2>1, <2>2
<1>4. Inv'
    BY <1>0, <1>1, LatticeInductive, SMTT(30) DEF vars
<1>5. Shape'
    BY <1>0, <1>1, <1>3 DEF Shape
<1>6. Recorded'
    BY <1>0, <1>1, <1>2 DEF Recorded
<1>7. AllEntitled' /\ SentEntitled'
    BY <1>0, <1>1 DEF AllEntitled, SentEntitled, Entitled
<1> QED
    BY <1>4, <1>5, <1>6, <1>7 DEF IInv

(* The other writers act while the final verifier has no transaction, when
   everything recorded is committed. *)
LEMMA WriteLedgerStep ==
    ASSUME IInv, NEW h \in Hash, WriteLedger(h)
    PROVE  IInv'
<1>0. Inv /\ Shape /\ Recorded /\ AllEntitled /\ SentEntitled
    BY DEF IInv
<1>1. UNCHANGED <<final_votes, committed, pc, verified, broadcaster, sent, crashes>>
      /\ pc["final"] # "verify"
    BY DEF WriteLedger, tables, verifier
<1>2. cemented \subseteq cemented'
    BY DEF WriteLedger, Accept, Discard, Cement
<1>3. Inv'
    BY <1>0, LatticeInductive, SMTT(30) DEF WriteLedger, Next
<1>4. Shape'
    BY <1>0, <1>1 DEF Shape
<1>5. Recorded'
    BY <1>0, <1>1, <1>2 DEF Recorded
<1>6. AllEntitled' /\ SentEntitled'
    BY <1>0, <1>1, <1>2, SMTT(30) DEF AllEntitled, SentEntitled, Entitled
<1> QED
    BY <1>3, <1>4, <1>5, <1>6 DEF IInv

(* A restart forgets the votes that were under way with the records that
   were not committed. *)
LEMMA CrashStep ==
    ASSUME IInv, Crash
    PROVE  IInv'
<1>0. Inv /\ Shape /\ Recorded /\ SentEntitled
    BY DEF IInv
<1>1. /\ final_votes' = committed /\ crashes' = crashes + 1
      /\ UNCHANGED <<accepted, cemented, committed, sent>>
      /\ pc' = [t \in Type |-> "idle"]
      /\ verified' = [t \in Type |-> <<>>]
      /\ broadcaster' = [t \in Type |-> <<>>]
    BY SMTT(30) DEF Crash, ledger
<1>2. Inv'
    BY <1>0, <1>1, LatticeInductive DEF vars
<1>3. Shape'
    BY <1>0, <1>1, SMTT(30) DEF Shape, PC
<1>4. Recorded'
    BY <1>0, <1>1 DEF Recorded
<1>5. AllEntitled'
    BY <1>1, SMTT(30) DEF AllEntitled
<1>6. SentEntitled'
  <2>1. crashes' # 0
      BY <1>0, <1>1, SMTT(30) DEF Shape
  <2> QED
      BY <1>0, <1>1, <2>1 DEF SentEntitled
<1> QED
    BY <1>2, <1>3, <1>4, <1>5, <1>6 DEF IInv

(* Every step preserves the invariant. *)
LEMMA StepIInv == IInv /\ [VGNext]_vgVars => IInv'
<1> SUFFICES ASSUME IInv, [VGNext]_vgVars PROVE IInv'
    OBVIOUS
<1>1. CASE UNCHANGED vgVars
  <2>1. UNCHANGED <<accepted, cemented, final_votes, committed, pc, verified, broadcaster, sent, crashes>>
      BY <1>1 DEF vgVars, ledger, tables, verifier
  <2>2. Inv'
      BY <2>1, LatticeInductive DEF IInv, vars
  <2>3. Shape'
      BY <2>1 DEF IInv, Shape
  <2>4. Recorded' /\ AllEntitled' /\ SentEntitled'
      BY <2>1, SMTT(30) DEF IInv, Recorded, AllEntitled, SentEntitled, Entitled
  <2> QED
      BY <2>2, <2>3, <2>4 DEF IInv
<1>2. CASE VGNext
  <2>1. ASSUME NEW t \in Type,
               (\E h \in Elected[t] : Request(t, h)) \/ Take(t) \/ Push(t) \/ Return(t) \/ Broadcast(t)
        PROVE  IInv'
      BY <2>1, RequestStep, PushStep, CommitStep, SendStep
  <2>2. CASE VerifyNormal \/ BeginFinal \/ VerifyFinal \/ RefreshFinal
    <3>1. "final" \in Type
        BY DEF Type
    <3> QED
        BY <2>2, <3>1, VerifyNormalStep, RequestStep, VerifyFinalStep, CommitStep, SMTT(30)
  <2>3. ASSUME NEW h \in Hash, Reply(h) \/ WriteLedger(h) PROVE IInv'
      BY <2>3, SendStep, WriteLedgerStep
  <2>4. CASE Crash
      BY <2>4, CrashStep, SMTT(30)
  <2> QED
      BY <1>2, <2>1, <2>2, <2>3, <2>4 DEF VGNext
<1> QED
    BY <1>1, <1>2

-----------------------------------------------------------------------------

(* Until it restarts a node never sends final votes for two blocks of one
   root, whichever of the verifiers and the replies they come from
   (vote_generator::process_normal, process_final, vote_replier). *)
THEOREM FinalVotesAgree == VGSpec => []FinalVotesUniqueUntilCrash
<1>1. IInv => FinalVotesUniqueUntilCrash
  <2> SUFFICES ASSUME IInv, crashes = 0, NEW x \in sent["final"], NEW y \in sent["final"],
                      SameRoot(x, y)
               PROVE  x = y
      BY DEF FinalVotesUniqueUntilCrash, FinalVotesUnique
  <2>1. x \in Hash /\ y \in Hash /\ Entitled("final", x) /\ Entitled("final", y)
      BY DEF IInv, Shape, SentEntitled, Type
  <2> QED
      BY <2>1, VoteGeneratorAssumption DEF Entitled, SameRoot, IInv, Inv, TypeOK, NoForks
<1> QED
    BY <1>1, InitIInv, StepIInv, PTL DEF VGSpec

(* The node votes only for blocks whose dependencies are cemented
   (ledger::dependencies_cemented in the voting policy), and they stay so. *)
THEOREM DependenciesCemented == VGSpec => []VotesNeedCementedDependencies
<1>1. IInv => VotesNeedCementedDependencies
    BY DEF IInv, SentEntitled, VotesNeedCementedDependencies
<1> QED
    BY <1>1, InitIInv, StepIInv, PTL DEF VGSpec

(* A committed record of the final_votes table binds every later final vote
   of its root, through any number of restarts. *)
THEOREM RecordsBind == VGSpec => RecordedVoteBinds
<1>1. IInv /\ [VGNext]_vgVars =>
        [\A h \in sent'["final"] \ sent["final"] :
            committed[QualifiedRoot[h]] \in {None, h}]_vgVars
  <2> SUFFICES ASSUME IInv, VGNext, NEW h \in sent'["final"] \ sent["final"]
               PROVE  committed[QualifiedRoot[h]] \in {None, h}
      OBVIOUS
  <2>1. (\E t \in Type : Broadcast(t)) \/ (\E x \in Hash : Reply(x))
    <3>1. sent' # sent
        OBVIOUS
    <3>2. ~Crash
        BY <3>1 DEF Crash
    <3>3. ASSUME NEW t \in Type,
                 (\E x \in Elected[t] : Request(t, x)) \/ Take(t) \/ Push(t) \/ Return(t)
          PROVE  FALSE
        BY <3>1, <3>3, SMTT(30) DEF Request, Take, Push, Return
    <3>4. ~BeginFinal /\ ~RefreshFinal
        BY <3>1 DEF BeginFinal, RefreshFinal
    <3>5. ~VerifyNormal /\ ~VerifyFinal
      <4>1. VerifyNormal => UNCHANGED sent
          BY DEF VerifyNormal
      <4>2. VerifyFinal => UNCHANGED sent
          BY DEF VerifyFinal
      <4> QED
          BY <3>1, <4>1, <4>2
    <3>6. ASSUME NEW x \in Hash, WriteLedger(x) PROVE FALSE
        BY <3>1, <3>6 DEF WriteLedger
    <3> QED
        BY <3>2, <3>3, <3>4, <3>5, <3>6, SMTT(30) DEF VGNext
  <2>2. h \in Hash /\ Entitled("final", h)
      BY <2>1, SendsEntitled DEF Type
  <2>3. QualifiedRoot[h] \in Root
      BY <2>2 DEF Root
  <2> QED
      BY <2>2, <2>3 DEF IInv, Recorded, Entitled
<1> QED
    BY <1>1, InitIInv, StepIInv, PTL DEF VGSpec, RecordedVoteBinds

-----------------------------------------------------------------------------
(* The fold of vote_generator_index::next_batch, entry by entry.           *)

(* Where it starts, and what it does with an entry. *)
untouched(dedup) == [batch |-> <<>>, queue |-> <<>>, dedup |-> dedup]

absorb(acc, h, count) ==
    CASE Len(acc.batch) = count -> [acc EXCEPT !.queue = Append(@, h)]
      [] Len(acc.batch) < count /\ h \in acc.dedup ->
            [acc EXCEPT !.batch = Append(@, h), !.dedup = @ \ {h}]
      [] OTHER -> acc

(* g is the fold over every subset of the positions S of q. *)
Folds(g, q, count, dedup, S) ==
    g = [s \in SUBSET S |-> IF s = {} THEN untouched(dedup)
                            ELSE absorb(g[s \ {Max(s)}], q[Max(s)], count)]

(* The loop of next_batch is such a fold over the whole queue. *)
LEMMA BatchIsChoice ==
    ASSUME NEW ix, NEW count
    PROVE  index_next_batch(ix, count) =
              (CHOOSE g : Folds(g, ix.queue, count, ix.dedup, DOMAIN ix.queue))[DOMAIN ix.queue]
  BY DEF index_next_batch, FoldLeft, MapThenFoldSet, Folds, absorb, untouched

(* A set of numbers has a least one. *)
LEMMA Least ==
    ASSUME NEW T, T \subseteq Nat, T # {}
    PROVE  \E m \in T : \A n \in T : m <= n
<1>1. PICK m \in T : \A n \in T : ~(<<n, m>> \in OpToRel(<, Nat))
  BY NatLessThanWellFounded, WFMin
<1>2. \A n \in T : ~(n < m)
  BY <1>1 DEF OpToRel
<1>3. \A i, j \in Nat : ~(i < j) => j <= i
  BY SMTT(30)
<1> QED BY <1>2, <1>3

(* A set of positions has a greatest one. *)
LEMMA MaxIn ==
    ASSUME NEW n \in Nat, NEW s, s \subseteq 1 .. n, s # {}
    PROVE  Max(s) \in s /\ \A y \in s : Max(s) >= y
<1> DEFINE T == {n - x : x \in s}
<1>1. T \subseteq Nat /\ T # {}
  <2>1. \A x \in 1 .. n : n - x \in Nat
    BY SMTT(30)
  <2> QED BY <2>1
<1>2. PICK m \in T : \A k \in T : m <= k
  <2> HIDE DEF T
  <2> QED BY <1>1, Least
<1>3. PICK x \in s : m = n - x
  OBVIOUS
<1>4. ASSUME NEW y \in s PROVE x >= y
  <2>1. n - x <= n - y
    BY <1>2, <1>3
  <2>2. \A i, j \in 1 .. n : n - i <= n - j => i >= j
    BY SMTT(30)
  <2> QED BY <2>1, <2>2
<1> QED BY <1>4 DEF Max

(* Among sets of positions there is a minimal one. *)
LEMMA MinimalSubset ==
    ASSUME NEW S, IsFiniteSet(S), NEW T, T \subseteq SUBSET S, T # {}
    PROVE  \E s \in T : \A t \in T : t \subseteq s => t = s
<1>1. IsWellFoundedOn(StrictSubsetOrdering(S), SUBSET S)
  BY FS_StrictSubsetOrderingWellFounded, FS_FiniteSubsetsOfFinite
<1>2. PICK s \in T : \A t \in T : ~(<<t, s>> \in StrictSubsetOrdering(S))
  BY <1>1, WFMin
<1>3. ASSUME NEW t \in T, t \subseteq s, t # s PROVE <<t, s>> \in StrictSubsetOrdering(S)
  BY <1>3 DEF StrictSubsetOrdering
<1>4. ASSUME NEW t \in T, t \subseteq s PROVE t = s
  <2> SUFFICES ASSUME t # s PROVE FALSE
    OBVIOUS
  <2> QED BY <1>2, <1>3, <1>4
<1> WITNESS s \in T
<1> QED BY <1>4

(* Positions that can be taken one by one, the greatest first. *)
Ordered(S) == IsFiniteSet(S) /\ \A s \in SUBSET S : s # {} => Max(s) \in s

(* The positions of a sequence are of this kind. *)
LEMMA PositionsOrdered ==
    ASSUME NEW n \in Nat
    PROVE  Ordered(1 .. n)
<1>1. 1 \in Int /\ n \in Int
  BY SMTT(30)
<1>2. IsFiniteSet(1 .. n)
  BY <1>1, FS_Interval
<1> QED BY <1>2, MaxIn DEF Ordered

(* So are some of them. *)
LEMMA SubsetOrdered ==
    ASSUME NEW S, Ordered(S), NEW s, s \subseteq S
    PROVE  Ordered(s) /\ IsFiniteSet(s)
<1>1. IsFiniteSet(s)
  BY FS_Subset DEF Ordered
<1> QED BY <1>1 DEF Ordered

(* Two such folds agree where both are defined. *)
LEMMA FoldsUnique ==
    ASSUME NEW S, Ordered(S), IsFiniteSet(S), NEW A, NEW B, NEW q, NEW count, NEW d,
           NEW g, NEW h, S \subseteq A, S \subseteq B,
           Folds(g, q, count, d, A), Folds(h, q, count, d, B)
    PROVE  g[S] = h[S]
<1> DEFINE T == {s \in SUBSET S : g[s] # h[s]}
<1> SUFFICES ASSUME T # {} PROVE FALSE
  OBVIOUS
<1>1. PICK s \in T : \A t \in T : t \subseteq s => t = s
  <2>1. T \subseteq SUBSET S
    OBVIOUS
  <2> HIDE DEF T
  <2> QED BY <2>1, MinimalSubset, SMTT(30)
<1>2. s \in SUBSET A /\ s \in SUBSET B /\ s \in SUBSET S /\ g[s] # h[s]
  BY <1>1
<1>3. s # {}
  BY <1>2 DEF Folds
<1>4. PICK t : t = s \ {Max(s)}
  OBVIOUS
<1>5. Max(s) \in s
  BY <1>2, <1>3 DEF Ordered
<1>6. t \in SUBSET S /\ t \notin T
  BY <1>1, <1>2, <1>4, <1>5
<1>7. g[t] = h[t]
  BY <1>6
<1>8. g[s] = absorb(g[t], q[Max(s)], count) /\ h[s] = absorb(h[t], q[Max(s)], count)
  BY <1>2, <1>3, <1>4 DEF Folds
<1> QED BY <1>2, <1>7, <1>8

(* There is such a fold. *)
LEMMA FoldsExist ==
    ASSUME NEW S, Ordered(S), IsFiniteSet(S), NEW q, NEW count, NEW d
    PROVE  \E g : Folds(g, q, count, d, S)
<1> DEFINE T == {s \in SUBSET S : ~\E g : Folds(g, q, count, d, s)}
<1> SUFFICES ASSUME T # {} PROVE FALSE
  OBVIOUS
<1>1. PICK s \in T : \A t \in T : t \subseteq s => t = s
  <2>1. T \subseteq SUBSET S
    OBVIOUS
  <2> HIDE DEF T
  <2> QED BY <2>1, MinimalSubset, SMTT(30)
<1> DEFINE G(t) == CHOOSE g : Folds(g, q, count, d, t)
           F == [t \in SUBSET s |-> IF t = {} THEN untouched(d)
                    ELSE absorb(G(t \ {Max(t)})[t \ {Max(t)}], q[Max(t)], count)]
<1>2. ASSUME NEW t \in SUBSET s, t # s PROVE Folds(G(t), q, count, d, t) /\ Ordered(t) /\ IsFiniteSet(t)
  <2>1. t \in SUBSET S /\ t \notin T
    BY <1>1, <1>2
  <2>2. \E g : Folds(g, q, count, d, t)
    BY <2>1
  <2> QED BY <2>1, <2>2, SubsetOrdered
<1>3. \A t \in SUBSET s : t # {} => Max(t) \in t
  BY <1>1 DEF Ordered
<1>4. ASSUME NEW t \in SUBSET s, t # {}
      PROVE  F[t] = absorb(F[t \ {Max(t)}], q[Max(t)], count)
  <2> DEFINE u == t \ {Max(t)}
  <2>1. Max(t) \in t
    BY <1>3, <1>4
  <2>2. u \in SUBSET s /\ u # s
    BY <2>1
  <2>3. Folds(G(u), q, count, d, u) /\ Ordered(u) /\ IsFiniteSet(u)
    BY <1>2, <2>2
  <2>4. G(u)[u] = F[u]
    <3>1. CASE u = {}
      <4>1. G(u)[u] = untouched(d)
        BY <2>3, <3>1 DEF Folds
      <4>2. F[u] = untouched(d)
        BY <2>2, <3>1
      <4> QED BY <4>1, <4>2
    <3>2. CASE u # {}
      <4> DEFINE v == u \ {Max(u)}
      <4>1. v \in SUBSET s /\ v # s /\ v \subseteq u
        BY <1>3, <2>2, <3>2
      <4>2. Folds(G(v), q, count, d, v) /\ Ordered(v) /\ IsFiniteSet(v)
        BY <1>2, <4>1
      <4>3. G(u)[v] = G(v)[v]
        <5> HIDE DEF G, u, v
        <5> QED BY <2>3, <4>1, <4>2, FoldsUnique, SMTT(30)
      <4>4. G(u)[u] = absorb(G(u)[v], q[Max(u)], count)
        BY <2>3, <3>2 DEF Folds
      <4>5. F[u] = absorb(G(v)[v], q[Max(u)], count)
        BY <2>2, <3>2
      <4> QED BY <4>3, <4>4, <4>5
    <3> QED BY <3>1, <3>2
  <2>5. F[t] = absorb(G(u)[u], q[Max(t)], count)
    BY <1>4
  <2> QED BY <2>4, <2>5
<1>5. Folds(F, q, count, d, s)
  <2>1. \A t \in SUBSET s :
          F[t] = IF t = {} THEN untouched(d) ELSE absorb(F[t \ {Max(t)}], q[Max(t)], count)
    <3>1. \A t \in SUBSET s : t = {} => F[t] = untouched(d)
      OBVIOUS
    <3> HIDE DEF F
    <3> QED BY <1>4, <3>1
  <2>2. F = [t \in SUBSET s |-> F[t]]
    BY SMTT(30)
  <2> HIDE DEF F
  <2>3. F = [t \in SUBSET s |-> IF t = {} THEN untouched(d)
                                 ELSE absorb(F[t \ {Max(t)}], q[Max(t)], count)]
    BY <2>1, <2>2
  <2> QED BY <2>3 DEF Folds
<1> QED BY <1>1, <1>5

(* next_batch looks at the entries one by one, from the front. *)
LEMMA BatchSteps ==
    ASSUME NEW q \in Seq(Hash), NEW d, NEW ix, ix.queue = q, ix.dedup = d, NEW count
    PROVE  \E v : /\ v[0] = untouched(d)
                  /\ \A i \in 1 .. Len(q) : v[i] = absorb(v[i - 1], q[i], count)
                  /\ index_next_batch(ix, count) = v[Len(q)]
<1>1. PICK n \in Nat : n = Len(q) /\ DOMAIN q = 1 .. n
  BY SMTT(30)
<1>2. PICK g : g = CHOOSE f : Folds(f, q, count, d, 1 .. n)
  OBVIOUS
<1>3. Folds(g, q, count, d, 1 .. n)
  <2>1. Ordered(1 .. n) /\ IsFiniteSet(1 .. n)
    BY PositionsOrdered DEF Ordered
  <2> QED BY <1>2, <2>1, FoldsExist
<1>4. index_next_batch(ix, count) = g[1 .. n]
  BY <1>1, <1>2, BatchIsChoice
<1> DEFINE v == [i \in 0 .. n |-> g[1 .. i]]
<1>5. v[0] = untouched(d)
  <2>1. 0 \in 0 .. n /\ 1 .. 0 = {}
    BY SMTT(30)
  <2>2. g[{}] = untouched(d)
    BY <1>3 DEF Folds
  <2> QED BY <2>1, <2>2
<1>6. ASSUME NEW i \in 1 .. n
      PROVE  v[i] = absorb(v[i - 1], q[i], count)
  <2>1. /\ i \in 0 .. n /\ i - 1 \in 0 .. n /\ 1 .. i \subseteq 1 .. n /\ i \in 1 .. i
        /\ (1 .. i) \ {i} = 1 .. i - 1 /\ \A x \in 1 .. i : x >= i => x = i
    BY SMTT(30)
  <2>2. PICK s : s = 1 .. i
    OBVIOUS
  <2>3. s \subseteq 1 .. n /\ s # {} /\ i \in s
    BY <2>1, <2>2
  <2>4. Max(s) = i
    BY <2>1, <2>2, <2>3, MaxIn
  <2>5. g[s] = absorb(g[s \ {Max(s)}], q[Max(s)], count)
    BY <1>3, <2>3 DEF Folds
  <2> QED BY <2>1, <2>2, <2>4, <2>5
<1>7. v[n] = g[1 .. n]
  <2>1. n \in 0 .. n
    BY SMTT(30)
  <2> QED BY <2>1
<1> HIDE DEF v
<1> QED BY <1>1, <1>4, <1>5, <1>6, <1>7

(* After i entries of q the first k of them are gone: taken, with their
   requests, or stale. *)
Batches == [batch : Seq(Hash), queue : Seq(Hash), dedup : SUBSET Hash]

Consumed(q, d, count, i, k, acc) ==
    /\ acc \in Batches /\ acc.dedup \subseteq d /\ acc.queue = SubSeq(q, k + 1, i)
    /\ \A h \in acc.dedup : \A j \in 1 .. k : q[j] # h
    /\ Len(acc.batch) <= count
    /\ Len(acc.batch) # count => k = i

(* Parts of a queue. *)
LEMMA QueueParts ==
    ASSUME NEW q \in Seq(Hash), NEW i \in 1 .. Len(q)
    PROVE  /\ q[i] \in Hash /\ SubSeq(q, i + 1, i) = <<>> /\ SubSeq(q, (i - 1) + 1, i - 1) = <<>>
           /\ \A k \in 0 .. i - 1 :
                 Append(SubSeq(q, k + 1, i - 1), q[i]) = SubSeq(q, k + 1, i)
<1>1. q[i] \in Hash /\ SubSeq(q, i + 1, i) = <<>> /\ SubSeq(q, (i - 1) + 1, i - 1) = <<>>
  BY SMTT(30)
<1>2. ASSUME NEW k \in 0 .. i - 1
      PROVE  Append(SubSeq(q, k + 1, i - 1), q[i]) = SubSeq(q, k + 1, i)
  BY SMTT(30)
<1> QED BY <1>1, <1>2

(* The fields that absorb sets. *)
with_queue(acc, s) == [acc EXCEPT !.queue = s]
with_batch(acc, s, d) == [acc EXCEPT !.batch = s, !.dedup = d]

(* An entry that stays in the queue. *)
LEMMA QueueFields ==
    ASSUME NEW acc \in Batches, NEW s \in Seq(Hash)
    PROVE  /\ with_queue(acc, s) \in Batches
           /\ with_queue(acc, s).batch = acc.batch
           /\ with_queue(acc, s).queue = s
           /\ with_queue(acc, s).dedup = acc.dedup
  BY DEF Batches, with_queue

(* An entry that joins the batch. *)
LEMMA BatchFields ==
    ASSUME NEW acc \in Batches, NEW s \in Seq(Hash), NEW d \in SUBSET Hash
    PROVE  /\ with_batch(acc, s, d) \in Batches
           /\ with_batch(acc, s, d).batch = s
           /\ with_batch(acc, s, d).queue = acc.queue
           /\ with_batch(acc, s, d).dedup = d
  BY DEF Batches, with_batch

(* The things that absorb does: an entry stays behind a full batch, is taken
   with its request, or is stale. *)
LEMMA AbsorbCases ==
    ASSUME NEW acc \in Batches, NEW h \in Hash, NEW count \in Nat, Len(acc.batch) <= count,
           NEW new, new = absorb(acc, h, count)
    PROVE  \/ /\ Len(acc.batch) = count /\ new \in Batches
              /\ new.batch = acc.batch /\ new.queue = Append(acc.queue, h) /\ new.dedup = acc.dedup
           \/ /\ Len(acc.batch) # count /\ new \in Batches
              /\ Len(new.batch) <= count /\ new.queue = acc.queue /\ new.dedup = acc.dedup \ {h}
<1>1. /\ acc.batch \in Seq(Hash) /\ acc.queue \in Seq(Hash) /\ acc.dedup \in SUBSET Hash
      /\ Len(acc.batch) \in Nat
  BY SMTT(30) DEF Batches
<1>2. CASE Len(acc.batch) = count
  <2>1. absorb(acc, h, count) = [acc EXCEPT !.queue = Append(@, h)]
    <3>1. ~(Len(acc.batch) < count)
      BY <1>2, SMTT(30)
    <3> QED BY <1>2, <3>1 DEF absorb
  <2>2. Append(acc.queue, h) \in Seq(Hash)
    BY <1>1, SMTT(30)
  <2>3. PICK s \in Seq(Hash) : s = Append(acc.queue, h)
    BY <2>2
  <2>4. new = with_queue(acc, s)
    BY <2>1, <2>3 DEF with_queue
  <2>5. new \in Batches /\ new.batch = acc.batch /\ new.queue = s /\ new.dedup = acc.dedup
    BY <2>4, QueueFields, SMTT(30)
  <2> QED BY <1>2, <2>3, <2>5
<1>3. CASE Len(acc.batch) # count /\ h \in acc.dedup
  <2>1. absorb(acc, h, count) = [acc EXCEPT !.batch = Append(@, h), !.dedup = @ \ {h}]
    <3>1. Len(acc.batch) < count
      BY <1>1, <1>3, SMTT(30)
    <3> QED BY <1>3, <3>1 DEF absorb
  <2>2. Append(acc.batch, h) \in Seq(Hash) /\ Len(Append(acc.batch, h)) <= count
    BY <1>1, <1>3, SMTT(30)
  <2>3. PICK s \in Seq(Hash), d \in SUBSET Hash : s = Append(acc.batch, h) /\ d = acc.dedup \ {h}
    BY <1>1, <2>2
  <2>4. new = with_batch(acc, s, d)
    BY <2>1, <2>3 DEF with_batch
  <2>5. new \in Batches /\ new.batch = s /\ new.queue = acc.queue /\ new.dedup = d
    BY <2>4, BatchFields, SMTT(30)
  <2> QED BY <1>3, <2>2, <2>3, <2>5
<1>4. CASE Len(acc.batch) # count /\ h \notin acc.dedup
  <2>1. absorb(acc, h, count) = acc
    BY <1>4 DEF absorb
  <2>2. acc.dedup = acc.dedup \ {h}
    BY <1>4
  <2> QED BY <1>4, <2>1, <2>2
<1> QED BY <1>2, <1>3, <1>4

(* An entry more. *)
LEMMA AbsorbConsumes ==
    ASSUME NEW q \in Seq(Hash), NEW d, NEW count \in Nat, NEW i \in 1 .. Len(q),
           NEW k \in 0 .. i - 1, NEW acc, Consumed(q, d, count, i - 1, k, acc)
    PROVE  \E m \in 0 .. i : Consumed(q, d, count, i, m, absorb(acc, q[i], count))
<1>1. /\ acc \in Batches /\ acc.dedup \subseteq d /\ acc.queue = SubSeq(q, k + 1, i - 1)
      /\ \A h \in acc.dedup : \A j \in 1 .. k : q[j] # h
      /\ Len(acc.batch) <= count
      /\ Len(acc.batch) # count => k = i - 1
  BY DEF Consumed
<1>2. /\ q[i] \in Hash /\ SubSeq(q, i + 1, i) = <<>> /\ SubSeq(q, (i - 1) + 1, i - 1) = <<>>
      /\ \A x \in 0 .. i - 1 :
            Append(SubSeq(q, x + 1, i - 1), q[i]) = SubSeq(q, x + 1, i)
  BY QueueParts
<1>0. PICK e \in Hash : e = q[i]
  BY <1>2
<1>3. PICK new : new = absorb(acc, e, count)
  OBVIOUS
<1>4. \/ /\ Len(acc.batch) = count /\ new \in Batches
         /\ new.batch = acc.batch /\ new.queue = Append(acc.queue, e) /\ new.dedup = acc.dedup
      \/ /\ Len(acc.batch) # count /\ new \in Batches
         /\ Len(new.batch) <= count /\ new.queue = acc.queue /\ new.dedup = acc.dedup \ {e}
  <2>1. acc \in Batches /\ Len(acc.batch) <= count /\ new = absorb(acc, e, count)
    BY <1>1, <1>3
  <2> QED BY <2>1, AbsorbCases, SMTT(30)
<1>5. CASE Len(acc.batch) = count
  <2>1. new.queue = SubSeq(q, k + 1, i)
    BY <1>0, <1>1, <1>2, <1>4, <1>5
  <2>2. Consumed(q, d, count, i, k, new)
    BY <1>1, <1>4, <1>5, <2>1 DEF Consumed
  <2>3. k \in 0 .. i
    BY SMTT(30)
  <2> QED BY <1>0, <1>3, <2>2, <2>3
<1>6. CASE Len(acc.batch) # count
  <2>1. k = i - 1 /\ acc.queue = <<>>
    BY <1>1, <1>2, <1>6
  <2>2. \A j \in 1 .. i : j = i \/ j \in 1 .. i - 1
    BY SMTT(30)
  <2>3. \A h \in new.dedup : \A j \in 1 .. i : q[j] # h
    BY <1>0, <1>1, <1>4, <1>6, <2>1, <2>2
  <2>4. new.dedup \subseteq d /\ new.queue = SubSeq(q, i + 1, i) /\ Len(new.batch) <= count
    BY <1>1, <1>2, <1>4, <1>6, <2>1
  <2>5. Consumed(q, d, count, i, i, new)
    BY <1>4, <2>3, <2>4 DEF Consumed
  <2>6. i \in 0 .. i
    BY SMTT(30)
  <2> QED BY <1>0, <1>3, <2>5, <2>6
<1> QED BY <1>5, <1>6

(* What next_batch leaves in the queue, and which requests it leaves. *)
LEMMA BatchLeaves ==
    ASSUME NEW q \in Seq(Hash), NEW d \in SUBSET Hash, NEW ix, ix.queue = q, ix.dedup = d,
           NEW count \in Nat
    PROVE  \E k \in 0 .. Len(q) : Consumed(q, d, count, Len(q), k, index_next_batch(ix, count))
<1>1. PICK n \in Nat : n = Len(q)
  BY SMTT(30)
<1>2. PICK v : /\ v[0] = untouched(d)
               /\ \A i \in 1 .. n : v[i] = absorb(v[i - 1], q[i], count)
               /\ index_next_batch(ix, count) = v[n]
  <2>1. \E v : /\ v[0] = untouched(d)
               /\ \A i \in 1 .. Len(q) : v[i] = absorb(v[i - 1], q[i], count)
               /\ index_next_batch(ix, count) = v[Len(q)]
    BY BatchSteps, SMTT(30)
  <2> QED BY <1>1, <2>1
<1> DEFINE T == {i \in 0 .. n : ~\E k \in 0 .. i : Consumed(q, d, count, i, k, v[i])}
<1> SUFFICES ASSUME T # {} PROVE FALSE
  <2>1. n \in 0 .. n
    BY SMTT(30)
  <2> QED BY <1>1, <1>2, <2>1
<1>3. PICK i \in T : \A j \in T : i <= j
  <2>1. T \subseteq Nat
    BY SMTT(30)
  <2> HIDE DEF T
  <2> QED BY <2>1, Least
<1>4. i # 0
  <2>1. PICK u : u = untouched(d)
    OBVIOUS
  <2>2. u \in Batches /\ u.dedup = d /\ u.queue = <<>> /\ u.batch = <<>>
    <3>1. <<>> \in Seq(Hash)
      BY SMTT(30)
    <3> QED BY <2>1, <3>1 DEF untouched, Batches
  <2>3. Len(u.batch) <= count /\ 0 \in 0 .. 0 /\ 1 .. 0 = {} /\ SubSeq(q, 0 + 1, 0) = <<>>
    BY <2>2, SMTT(30)
  <2>4. Consumed(q, d, count, 0, 0, u)
    BY <2>2, <2>3 DEF Consumed
  <2> QED BY <1>2, <1>3, <2>1, <2>3, <2>4
<1>5. i \in 1 .. n /\ i - 1 \in 0 .. n /\ ~(i <= i - 1)
  BY <1>3, <1>4, SMTT(30)
<1>6. i - 1 \notin T
  <2> HIDE DEF T
  <2> QED BY <1>3, <1>5
<1>7. PICK k \in 0 .. i - 1 : Consumed(q, d, count, i - 1, k, v[i - 1])
  BY <1>5, <1>6
<1>8. \E m \in 0 .. i : Consumed(q, d, count, i, m, absorb(v[i - 1], q[i], count))
  BY <1>1, <1>5, <1>7, AbsorbConsumes
<1>9. \E m \in 0 .. i : Consumed(q, d, count, i, m, v[i])
  BY <1>2, <1>5, <1>8
<1> QED BY <1>3, <1>9

-----------------------------------------------------------------------------
(* The requests of the verifiers.                                          *)

Requests == [queue : Seq(Hash), dedup : SUBSET Hash]

(* The last entry of the root of each request is the request. *)
LastQueued(ix) ==
    \A h \in ix.dedup :
        \E i \in 1 .. Len(ix.queue) :
            /\ ix.queue[i] = h
            /\ \A j \in i + 1 .. Len(ix.queue) : ~SameRoot(ix.queue[j], h)

QInv == index \in [Type -> Requests] /\ \A t \in Type : LastQueued(index[t])

(* The parts of an index. *)
LEMMA IndexParts ==
    ASSUME NEW p \in Seq(Hash), NEW E \in SUBSET Hash,
           NEW new, new = [queue |-> p, dedup |-> E]
    PROVE  new.queue = p /\ new.dedup = E /\ new \in Requests
BY SMTT(30) DEF Requests

(* The same, of an index whose parts have no names yet. *)
LEMMA IndexNames ==
    ASSUME NEW ix \in Requests
    PROVE  \E q \in Seq(Hash), D \in SUBSET Hash, n \in Nat :
              q = ix.queue /\ D = ix.dedup /\ n = Len(q)
<1>1. ix.queue \in Seq(Hash) /\ ix.dedup \in SUBSET Hash
  BY DEF Requests
<1>2. PICK q \in Seq(Hash) : q = ix.queue
  BY <1>1
<1>3. Len(q) \in Nat
  BY SMTT(30)
<1> QED BY <1>1, <1>2, <1>3

(* LastQueued, of an index with given parts. *)
LEMMA PartsQueued ==
    ASSUME NEW new, NEW p, NEW E, new.queue = p, new.dedup = E,
           \A h \in E : \E i \in 1 .. Len(p) :
              p[i] = h /\ \A j \in i + 1 .. Len(p) : ~SameRoot(p[j], h)
    PROVE  LastQueued(new)
BY DEF LastQueued

(* vote_generator_index::push keeps it: the entry goes to the end. *)
LEMMA PushQueued ==
    ASSUME NEW ix \in Requests, LastQueued(ix), NEW h \in Hash
    PROVE  index_push(ix, h) \in Requests /\ LastQueued(index_push(ix, h))
<1>1. CASE h \in ix.dedup \/ Len(ix.queue) >= MaxQueue
  BY <1>1 DEF index_push
<1>2. CASE ~(h \in ix.dedup \/ Len(ix.queue) >= MaxQueue)
  <2>1. PICK q \in Seq(Hash), D \in SUBSET Hash, n \in Nat :
          q = ix.queue /\ D = ix.dedup /\ n = Len(q)
    BY IndexNames
  <2>2. PICK p : p = Append(q, h)
    OBVIOUS
  <2>3. PICK E : E = {x \in D : ~SameRoot(x, h)} \cup {h}
    OBVIOUS
  <2>4. index_push(ix, h) = [queue |-> p, dedup |-> E]
    BY <1>2, <2>1, <2>2, <2>3 DEF index_push
  <2>5. /\ p \in Seq(Hash) /\ Len(p) = n + 1 /\ p[n + 1] = h
        /\ \A i \in 1 .. n : p[i] = q[i]
    BY <2>1, <2>2, SMTT(30)
  <2>6. E \in SUBSET Hash
    BY <2>1, <2>3
  <2>7. ASSUME NEW x \in E
        PROVE  \E i \in 1 .. n + 1 :
                  p[i] = x /\ \A j \in i + 1 .. n + 1 : ~SameRoot(p[j], x)
    <3>1. CASE x = h
      <4>1. n + 1 \in 1 .. n + 1 /\ (n + 1) + 1 .. n + 1 = {}
        BY SMTT(30)
      <4> QED BY <2>5, <3>1, <4>1
    <3>2. CASE x # h
      <4>1. x \in D /\ ~SameRoot(h, x)
        BY <2>3, <3>2 DEF SameRoot
      <4>2. PICK i \in 1 .. n : q[i] = x /\ \A j \in i + 1 .. n : ~SameRoot(q[j], x)
        BY <2>1, <4>1 DEF LastQueued
      <4>3. i \in 1 .. n + 1 /\ \A j \in i + 1 .. n + 1 :
                                   j = n + 1 \/ (j \in i + 1 .. n /\ j \in 1 .. n)
        BY SMTT(30)
      <4>4. \A j \in i + 1 .. n + 1 : ~SameRoot(p[j], x)
        <5>1. ~SameRoot(p[n + 1], x)
          BY <2>5, <4>1
        <5>2. \A j \in i + 1 .. n : j \in 1 .. n => ~SameRoot(p[j], x)
          BY <2>5, <4>2
        <5> QED BY <4>3, <5>1, <5>2
      <4>5. p[i] = x
        BY <2>5, <4>2
      <4> QED BY <4>3, <4>4, <4>5
    <3> QED BY <3>1, <3>2
  <2>8. PICK new : new = index_push(ix, h)
    OBVIOUS
  <2>9. new.queue = p /\ new.dedup = E /\ new \in Requests
    BY <2>4, <2>5, <2>6, <2>8, IndexParts
  <2> QED BY <2>5, <2>7, <2>8, <2>9 DEF LastQueued
<1> QED BY <1>1, <1>2

(* What next_batch leaves is still queued: it stops behind what it took. *)
LEMMA BatchQueued ==
    ASSUME NEW ix \in Requests, LastQueued(ix), NEW count \in Nat,
           NEW next, next = index_next_batch(ix, count),
           NEW new, new = [queue |-> next.queue, dedup |-> next.dedup]
    PROVE  new \in Requests /\ LastQueued(new)
<1>1. PICK q \in Seq(Hash), d \in SUBSET Hash, n \in Nat :
        q = ix.queue /\ d = ix.dedup /\ n = Len(q)
  BY IndexNames
<1>2. PICK k \in 0 .. n : Consumed(q, d, count, n, k, next)
  <2>1. ix.queue = q /\ ix.dedup = d
    BY <1>1
  <2>2. \E k \in 0 .. Len(q) : Consumed(q, d, count, Len(q), k, index_next_batch(ix, count))
    BY <2>1, BatchLeaves
  <2> QED BY <1>1, <2>2
<1>3. PICK p, E : p = next.queue /\ E = next.dedup
  OBVIOUS
<1>4. /\ p \in Seq(Hash) /\ E \in SUBSET Hash /\ E \subseteq d /\ p = SubSeq(q, k + 1, n)
      /\ \A h \in E : \A j \in 1 .. k : q[j] # h
  BY <1>2, <1>3 DEF Consumed, Batches
<1>5. Len(p) = n - k /\ \A i \in 1 .. n - k : p[i] = q[k + i]
  BY <1>1, <1>4, SMTT(30)
<1>6. ASSUME NEW h \in E
      PROVE  \E i \in 1 .. Len(p) : p[i] = h /\ \A j \in i + 1 .. Len(p) : ~SameRoot(p[j], h)
  <2>1. PICK i \in 1 .. n : q[i] = h /\ \A j \in i + 1 .. n : ~SameRoot(q[j], h)
    BY <1>1, <1>4 DEF LastQueued
  <2>2. i \notin 1 .. k
    BY <1>4, <2>1
  <2>3. /\ i - k \in 1 .. n - k /\ k + (i - k) = i
        /\ \A j \in (i - k) + 1 .. n - k : j \in 1 .. n - k /\ k + j \in i + 1 .. n
    BY <2>2, SMTT(30)
  <2>4. p[i - k] = h
    BY <1>5, <2>1, <2>3
  <2>5. \A j \in (i - k) + 1 .. n - k : ~SameRoot(p[j], h)
    BY <1>5, <2>1, <2>3
  <2> QED BY <1>5, <2>3, <2>4, <2>5
<1>7. new.queue = p /\ new.dedup = E /\ new \in Requests
  <2>1. new = [queue |-> p, dedup |-> E]
    BY <1>3
  <2> QED BY <1>4, <2>1, IndexParts
<1>8. \A h \in E : \E i \in 1 .. Len(p) :
         p[i] = h /\ \A j \in i + 1 .. Len(p) : ~SameRoot(p[j], h)
  BY <1>6
<1>9. \A r \in Requests : r.queue = p /\ r.dedup = E => LastQueued(r)
  BY <1>8, PartsQueued
<1> QED BY <1>7, <1>9

(* Changing one index keeps the others. *)
LEMMA OneIndex ==
    ASSUME QInv, NEW t \in Type, NEW new \in Requests, LastQueued(new),
           index' = [index EXCEPT ![t] = new]
    PROVE  QInv'
<1>1. index' \in [Type -> Requests]
  BY DEF QInv
<1>2. ASSUME NEW u \in Type
      PROVE  LastQueued(index'[u])
  <2>1. index'[u] = IF u = t THEN new ELSE index[u]
    BY DEF QInv
  <2> QED BY <2>1 DEF QInv
<1> QED BY <1>1, <1>2 DEF QInv, LastQueued

(* A node that starts has no requests. *)
LEMMA NoneQueued ==
    NoRequests \in Requests /\ LastQueued(NoRequests)
<1>1. <<>> \in Seq(Hash) /\ {} \in SUBSET Hash
  BY SMTT(30)
<1>2. NoRequests.dedup = {} /\ NoRequests \in Requests
  BY <1>1 DEF NoRequests, Requests
<1> QED BY <1>2 DEF LastQueued

(* Every step keeps the requests queued. *)
LEMMA QueuedStep ==
    QInv /\ [VGNext]_vgVars => QInv'
<1> SUFFICES ASSUME QInv, [VGNext]_vgVars PROVE QInv'
  OBVIOUS
<1>1. CASE index' = index
  BY <1>1 DEF QInv, LastQueued
<1>2. ASSUME NEW t \in Type, NEW h \in Elected[t], Request(t, h) PROVE QInv'
  <2>1. h \in Hash
    BY VoteGeneratorAssumption, SMTT(30) DEF Type
  <2>2. index[t] \in Requests /\ LastQueued(index[t])
    BY DEF QInv
  <2>3. PICK new : new = index_push(index[t], h)
    OBVIOUS
  <2>4. new \in Requests /\ LastQueued(new)
    BY <2>1, <2>2, <2>3, PushQueued
  <2>5. index' = [index EXCEPT ![t] = new]
    BY <1>2, <2>3 DEF Request
  <2> QED BY <2>4, <2>5, OneIndex
<1>3. ASSUME NEW t \in Type, Take(t) PROVE QInv'
  <2>1. index[t] \in Requests /\ LastQueued(index[t])
    BY DEF QInv
  <2>2. PICK next : next = index_next_batch(index[t], BatchSize)
    OBVIOUS
  <2>3. PICK new : new = [queue |-> next.queue, dedup |-> next.dedup]
    OBVIOUS
  <2>4. index' = [index EXCEPT ![t] = new]
    BY <1>3, <2>2, <2>3 DEF Take
  <2>5. new \in Requests /\ LastQueued(new)
    BY <2>1, <2>2, <2>3, BatchQueued, VoteGeneratorAssumption
  <2> QED BY <2>4, <2>5, OneIndex
<1>4. CASE Crash
  <2>1. index' = [t \in Type |-> NoRequests]
    BY <1>4 DEF Crash
  <2>2. \A t \in Type : index'[t] = NoRequests
    BY <2>1
  <2>3. index' \in [Type -> Requests] /\ \A t \in Type : LastQueued(index'[t])
    BY <2>1, <2>2, NoneQueued
  <2> QED BY <2>3 DEF QInv, LastQueued
<1>5. ASSUME NEW t \in Type, Push(t) \/ Return(t) \/ Broadcast(t) PROVE index' = index
  BY <1>5 DEF Push, Return, Broadcast
<1>6. ASSUME VerifyNormal \/ BeginFinal \/ VerifyFinal \/ RefreshFinal PROVE index' = index
  BY <1>6 DEF VerifyNormal, BeginFinal, VerifyFinal, RefreshFinal
<1>7. ASSUME NEW h \in Hash, Reply(h) \/ WriteLedger(h) PROVE index' = index
  BY <1>7 DEF Reply, WriteLedger
<1>8. CASE UNCHANGED vgVars
  BY <1>1, <1>8 DEF vgVars
<1> QED BY <1>1, <1>2, <1>3, <1>4, <1>5, <1>6, <1>7, <1>8 DEF VGNext

(* The latest request of a root is the last entry of that root in the queue of
   its verifier, however full the queue, the batch or the set of roots is. *)
THEOREM LatestRequestQueued ==
    VGSpec => []RequestsAreQueued
<1>1. VGInit => QInv
  <2> SUFFICES ASSUME VGInit PROVE QInv
    OBVIOUS
  <2>1. index = [t \in Type |-> NoRequests]
    BY DEF VGInit
  <2>2. \A t \in Type : index[t] = NoRequests
    BY <2>1
  <2> QED BY <2>1, <2>2, NoneQueued DEF QInv
<1>2. QInv => RequestsAreQueued
  <2> SUFFICES ASSUME QInv, NEW t \in Type PROVE
        \A h \in index[t].dedup :
            \E i \in DOMAIN index[t].queue :
                /\ index[t].queue[i] = h
                /\ \A j \in i + 1 .. Len(index[t].queue) : ~SameRoot(index[t].queue[j], h)
    BY DEF RequestsAreQueued
  <2>1. index[t] \in Requests /\ LastQueued(index[t])
    BY DEF QInv
  <2>2. PICK q \in Seq(Hash) : q = index[t].queue
    BY <2>1 DEF Requests
  <2>3. DOMAIN q = 1 .. Len(q)
    BY SMTT(30)
  <2> QED BY <2>1, <2>2, <2>3 DEF LastQueued
<1> QED BY <1>1, <1>2, QueuedStep, PTL DEF VGSpec
=============================================================================
