-------------------------- MODULE LedgerInvariant ---------------------------
(***************************************************************************)
(* The inductive invariant of the ledger: what the tables say of themselves*)
(* and of each other while process, rollback, cement and pruning_action run*)
(* one after the other on the single writer.  A block is appended, undone, *)
(* cemented or pruned, or only the control of an operation moves; each of  *)
(* these preserves the invariant.                                          *)
(***************************************************************************)
EXTENDS Ledger, SequenceTheorems, WellFoundedInduction, TLAPS

(* Time for the solver on a leaf that names no other prover. *)
USE ZenonT(30)

-----------------------------------------------------------------------------
(* The inductive invariant.                                                *)

(* Stored blocks lie on the chain of an opened account, one per height. *)
Heights ==
    /\ \A h \in stored :
        /\ blocks[h].account \in Account
        /\ blocks[h].height <= accounts[blocks[h].account].block_count
    /\ \A g, h \in stored :
        blocks[g].account = blocks[h].account /\ blocks[g].height = blocks[h].height => g = h

(* Each one follows its predecessor, unless that was pruned. *)
Linked ==
    \A h \in stored :
        IF Block[h].previous = Zero
        THEN blocks[h].height = 1 /\ Block[h].account = blocks[h].account
        ELSE /\ Block[h].previous \in accepted
             /\ blocks[h].height > 1
             /\ Block[h].previous \in stored =>
                   /\ blocks[Block[h].previous].account = blocks[h].account
                   /\ blocks[Block[h].previous].height + 1 = blocks[h].height

(* What the ledger derived about a block agrees with its content. *)
Derived ==
    \A h \in stored :
        /\ Block[h].type \in {"open", "state"} => Block[h].account = blocks[h].account
        /\ Block[h].type = "state" => blocks[h].balance = Block[h].balance
        /\ blocks[h].is_send => Block[h].link \notin Hash
        /\ ~blocks[h].is_send => Block[h].link \in Hash \cup {Zero} \cup EpochLink
        /\ Block[h].previous \notin pruned =>
              (blocks[h].is_send <=>
                  \/ Block[h].type = "send"
                  \/ /\ Block[h].type = "state"
                     /\ Block[h].balance < block_balance(Block[h].previous))

(* The head of an account is its topmost block. *)
Heads ==
    \A a \in Account :
        IF accounts[a].head = Zero
        THEN accounts[a].block_count = 0 /\ accounts[a].balance = 0
        ELSE /\ accounts[a].head \in stored
             /\ blocks[accounts[a].head].account = a
             /\ blocks[accounts[a].head].height = accounts[a].block_count
             /\ blocks[accounts[a].head].balance = accounts[a].balance

(* Sources are sends of the ledger, received once and not pending. *)
Receipts ==
    /\ \A h \in accepted : Block[h].link \in Hash =>
          /\ Block[h].link \in accepted
          /\ Block[h].link \in stored => blocks[Block[h].link].is_send
    /\ \A g, h \in accepted : Block[g].link \in Hash /\ Block[g].link = Block[h].link => g = h
    /\ \A p \in pending :
          /\ p.hash \in accepted
          /\ p.hash \in stored => blocks[p.hash].is_send /\ p.source = blocks[p.hash].account
          /\ \A h \in accepted : Block[h].link # p.hash
    /\ \A p, q \in pending : p.hash = q.hash => p = q

(* Confirmation heights are heights of stored blocks, and what a cemented
   block depends on is cemented. *)
Confirmed ==
    /\ \A a \in Account :
        LET c == confirmation_height[a] IN
        c.height > 0 => /\ c.frontier \in stored
                        /\ blocks[c.frontier].account = a
                        /\ blocks[c.frontier].height = c.height
    /\ \A h \in stored : h \in cemented => Dependencies[h] \subseteq cemented

(* Pruned blocks are gone for good, below cemented ones. *)
PrunedBelow ==
    /\ genesis \in stored /\ genesis \in cemented
    /\ \A h \in pruned :
        /\ h \notin stored
        /\ Dependencies[h] \subseteq cemented
        /\ Block[h].previous \in stored =>
              blocks[Block[h].previous].height
                < confirmation_height[blocks[Block[h].previous].account].height
        /\ Block[h].previous = Zero =>
              /\ Block[h].account \in Account
              /\ confirmation_height[Block[h].account].height > 0
    /\ \A h \in stored : Block[h].previous \in pruned => h \in cemented

(* Where the operations that hold the lock are. *)
Control ==
    /\ writer = "rollback" => rollback_stack # <<>>
    /\ writer = "cement" => cement_stack # <<>>
    /\ writer = "prune" => prune_hash # Zero
    /\ prune_hash # Zero =>
        /\ prune_hash \in stored /\ prune_hash # genesis
        /\ blocks[prune_hash].height < confirmation_height[blocks[prune_hash].account].height

IInv ==
    TypeOK /\ Heights /\ Linked /\ Derived /\ Heads /\ Receipts /\ Confirmed
           /\ PrunedBelow /\ Control

-----------------------------------------------------------------------------
(* Facts about the universe.                                               *)

(* The fields of a candidate block. *)
LEMMA BlockFields ==
    ASSUME NEW h \in Hash
    PROVE  /\ Block[h].type \in {"send", "receive", "open", "change", "state"}
           /\ Block[h].account \in Account0 /\ Block[h].previous \in Hash0
           /\ Block[h].representative \in Account0 /\ Block[h].balance \in Nat
           /\ Block[h].link \in Account0 \cup Hash \cup EpochLink
  BY UniverseAssumption DEF BlockContent

(* What a block depends on; the genesis block on nothing. *)
LEMMA DependenciesType ==
    /\ Dependencies \in [Hash -> SUBSET Hash]
    /\ \A h \in Hash : \A d : d \in Dependencies[h] <=>
          d \in Hash /\ (d = Block[h].previous \/ d = Block[h].link)
    /\ Dependencies[genesis] = {}
  BY UniverseAssumption, GenesisAssumption DEF Dependencies

(* The ledger that seed_genesis leaves. *)
LEMMA InitIInv == Init => IInv
<1> SUFFICES ASSUME Init PROVE IInv
  OBVIOUS
<1> USE UniverseAssumption, GenesisAssumption DEF Account0, Hash0
<1>g. /\ Block[genesis].account \in Account /\ Block[genesis].balance \in Int
      /\ Block[genesis].representative \in Account0
  BY BlockFields, SMTT(30)
<1>w. /\ \A n \in Int : put_cache(n) \in Int
  BY MinWeightAssumption, SMTT(30) DEF put_cache
<1>1. TypeOK
  <2>1. blocks \in [Hash -> Sideband]
    <3>1. NoSideband \in Sideband
      BY SMTT(30) DEF NoSideband, Sideband
    <3>2. [NoSideband EXCEPT !.account = Block[genesis].account,
              !.balance = Block[genesis].balance, !.height = 1] \in Sideband
      BY <1>g DEF NoSideband, Sideband
    <3> QED BY <3>1, <3>2 DEF Init
  <2>2. accounts \in [Account -> AccountInfo]
    BY <1>g, SMTT(30) DEF Init, AccountInfo, NoAccount
  <2>3. rep_weights \in Weights
    BY <1>g, <1>w, SMTT(30) DEF Init, Weights
  <2>4. confirmation_height \in [Account -> [height : Nat, frontier : Hash0]]
    BY <1>g DEF Init, NotConfirmed
  <2>5. cache \in Counters
    BY SMTT(30) DEF Init, Counters
  <2>6. rollback_stack \in Seq(Hash) /\ cement_stack \in Seq(Hash)
    BY SMTT(30) DEF Init
  <2> QED BY <2>1, <2>2, <2>3, <2>4, <2>5, <2>6 DEF Init, TypeOK
<1>2. stored = {genesis} /\ pruned = {} /\ accepted = {genesis} /\ pending = {}
  BY <1>g, SMTT(30) DEF Init, stored, accepted, block_exists, NoSideband
<1>3. /\ blocks[genesis].height = 1 /\ blocks[genesis].account = Block[genesis].account
      /\ blocks[genesis].balance = Block[genesis].balance /\ blocks[genesis].is_send = FALSE
  BY <1>g DEF Init, NoSideband
<1>4. genesis \in cemented
  BY <1>2, <1>3, <1>g, SMTT(30) DEF Init, cemented, cemented_block_exists_or_pruned,
     cemented_block_exists, stored
<1>5. Heights /\ Linked
  BY <1>2, <1>3, <1>g, SMTT(30) DEF Heights, Linked, Init
<1>6. Derived
  BY <1>2, <1>3, <1>g DEF Derived
<1>7. Heads
  BY <1>2, <1>3, <1>g DEF Heads, Init, NoAccount
<1>8. Receipts
  BY <1>2 DEF Receipts
<1>9. Confirmed /\ PrunedBelow
  <2>1. \A a \in Account : confirmation_height[a] =
           IF a = Block[genesis].account THEN [height |-> 1, frontier |-> genesis] ELSE NotConfirmed
    BY <1>g DEF Init
  <2>2. Confirmed
    BY <1>2, <1>3, <1>4, <2>1, DependenciesType, SMTT(30) DEF Confirmed, NotConfirmed
  <2>3. PrunedBelow
    BY <1>2, <1>4 DEF PrunedBelow
  <2> QED BY <2>2, <2>3
<1>10. Control
  BY DEF Control, Init
<1> QED BY <1>1, <1>5, <1>6, <1>7, <1>8, <1>9, <1>10 DEF IInv

-----------------------------------------------------------------------------
(* Facts about the states that satisfy the invariant.                      *)

(* The fields of the counters. *)
LEMMA CountersFields ==
    ASSUME NEW c \in Counters
    PROVE  /\ c.block_count \in Int /\ c.account_count \in Int
           /\ c.cemented_count \in Int /\ c.pruned_count \in Int
  BY DEF Counters

(* Counters with a new block and account count are counters. *)
LEMMA Recounted ==
    ASSUME NEW c \in Counters, NEW m \in Int, NEW n \in Int
    PROVE  [c EXCEPT !.block_count = m, !.account_count = n] \in Counters
  BY DEF Counters

(* An account is not confirmed beyond its head. *)
LEMMA ConfirmedBelowHead ==
    ASSUME IInv, NEW a \in Account
    PROVE  /\ confirmation_height[a].height \in Nat /\ accounts[a].block_count \in Int
           /\ confirmation_height[a].height <= accounts[a].block_count
<1>1. /\ confirmation_height[a].height \in Nat /\ accounts[a].block_count \in Int
  BY DEF IInv, TypeOK, AccountInfo
<1>2. CASE confirmation_height[a].height > 0
  BY <1>1, <1>2 DEF IInv, Confirmed, Heights
<1>3. CASE confirmation_height[a].height = 0
  <2>1. CASE accounts[a].head = Zero
    BY <1>1, <1>3, <2>1, SMTT(30) DEF IInv, Heads
  <2>2. CASE accounts[a].head # Zero
    <3>1. /\ accounts[a].head \in stored
          /\ blocks[accounts[a].head].height = accounts[a].block_count
      BY <2>2 DEF IInv, Heads
    <3>2. blocks[accounts[a].head].height \in Nat
      BY <3>1 DEF IInv, TypeOK, stored, Sideband
    <3> QED BY <1>1, <1>3, <3>1, <3>2, SMTT(30)
  <2> QED BY <2>1, <2>2
<1> QED BY <1>1, <1>2, <1>3, SMTT(30)

(* The sideband of a stored block. *)
LEMMA StoredFields ==
    ASSUME IInv, NEW h \in stored
    PROVE  /\ h \in Hash /\ blocks[h].height \in Nat \ {0}
           /\ blocks[h].account \in Account /\ blocks[h].balance \in Int
           /\ blocks[h].is_send \in BOOLEAN /\ blocks[h].source_epoch \in Nat
           /\ blocks[h].epoch \in Nat
  BY DEF IInv, TypeOK, stored, block_exists, Sideband, Heights

(* A stored block is cemented up to the confirmation height of its account. *)
LEMMA CementedStored ==
    ASSUME NEW h \in stored, h \notin pruned
    PROVE  h \in cemented <=> blocks[h].height <= confirmation_height[blocks[h].account].height
  BY DEF cemented, cemented_block_exists_or_pruned, cemented_block_exists, stored

(* The invariant closes accepted and cemented blocks under dependencies. *)
LEMMA AcceptedClosed ==
    ASSUME IInv
    PROVE  /\ \A h \in accepted : Dependencies[h] \subseteq accepted
           /\ cemented \subseteq accepted /\ pruned \subseteq cemented
           /\ \A h \in cemented : Dependencies[h] \subseteq cemented
           /\ stored \cap pruned = {}
<1>1. cemented \subseteq accepted /\ pruned \subseteq cemented
  BY DEF cemented, cemented_block_exists_or_pruned, cemented_block_exists, stored,
     accepted, IInv, TypeOK
<1>2. ASSUME NEW h \in stored PROVE Dependencies[h] \subseteq accepted
  <2>1. h \in Hash /\ h \in accepted
    BY <1>2 DEF stored, accepted
  <2>2. Block[h].link \in Hash => Block[h].link \in accepted
    BY <2>1 DEF IInv, Receipts
  <2>3. Block[h].previous \in Hash => Block[h].previous \in accepted
    BY <1>2, UniverseAssumption DEF IInv, Linked
  <2> QED BY <2>1, <2>2, <2>3, DependenciesType, SMTT(30)
<1>3. \A h \in pruned : Dependencies[h] \subseteq cemented /\ h \notin stored
  BY DEF IInv, PrunedBelow
<1>4. \A h \in stored : h \in cemented => Dependencies[h] \subseteq cemented
  BY DEF IInv, Confirmed
<1> QED BY <1>1, <1>2, <1>3, <1>4 DEF accepted

(* A pending entry. *)
LEMMA EntryType ==
    ASSUME NEW a \in Account0 \cup EpochLink, NEW h \in Hash, NEW s \in Account0,
           NEW amount \in Int, NEW epoch \in Nat
    PROVE  LET p == [account |-> a, hash |-> h, source |-> s, amount |-> amount, epoch |-> epoch]
           IN  p \in PendingEntry /\ p.hash = h /\ p.source = s
  BY DEF PendingEntry

(* The fields of a row of the pending table. *)
LEMMA EntryFields ==
    ASSUME IInv, NEW p \in pending
    PROVE  p.amount \in Int /\ p.epoch \in Nat
<1>1. pending \subseteq PendingEntry
  BY DEF IInv, TypeOK
<1>2. p \in PendingEntry
  BY <1>1
<1> QED BY <1>2 DEF PendingEntry

(* An accepted block never builds on the head of an account. *)
LEMMA NothingFollowsHead ==
    ASSUME IInv, NEW a \in Account, accounts[a].head # Zero, NEW x \in accepted
    PROVE  Block[x].previous # accounts[a].head
<1> DEFINE h == accounts[a].head
<1> SUFFICES ASSUME Block[x].previous = h PROVE FALSE
  OBVIOUS
<1>1. /\ h \in stored /\ blocks[h].account = a /\ blocks[h].height = accounts[a].block_count
  BY DEF IInv, Heads
<1>2. h \in Hash /\ blocks[h].height \in Nat \ {0} /\ h # Zero
  BY <1>1, StoredFields, UniverseAssumption
<1>3. CASE x \in stored
  <2>1. blocks[x].account = a /\ blocks[h].height + 1 = blocks[x].height
    BY <1>1, <1>2, <1>3 DEF IInv, Linked
  <2>2. blocks[x].height <= accounts[a].block_count
    BY <1>3, <2>1 DEF IInv, Heights
  <2> QED BY <1>1, <1>2, <2>1, <2>2, SMTT(30)
<1>4. CASE x \in pruned
  <2>1. blocks[h].height < confirmation_height[a].height
    BY <1>1, <1>4 DEF IInv, PrunedBelow
  <2> QED BY <1>1, <1>2, <2>1, ConfirmedBelowHead, SMTT(30)
<1> QED BY <1>3, <1>4 DEF accepted

(* Accepted blocks have a hash, stored blocks an account. *)
LEMMA AcceptedFields ==
    ASSUME IInv
    PROVE  /\ \A x \in accepted : x \in Hash /\ x # Zero
           /\ \A x \in stored : x \in accepted /\ x \in Hash /\ blocks[x].account \in Account
           /\ \A x \in pruned : x \in accepted
<1>1. stored \subseteq Hash /\ pruned \subseteq Hash /\ Zero \notin Hash
  BY UniverseAssumption DEF stored, IInv, TypeOK
<1>2. \A x \in stored : blocks[x].account \in Account
  BY DEF IInv, Heights
<1> QED BY <1>1, <1>2 DEF accepted

(* An account with a stored block is opened. *)
LEMMA HeadStored ==
    ASSUME IInv, NEW x \in stored
    PROVE  LET a == blocks[x].account
           IN  /\ a \in Account /\ accounts[a].head # Zero /\ accounts[a].head \in stored
               /\ blocks[accounts[a].head].account = a
               /\ blocks[accounts[a].head].height = accounts[a].block_count
               /\ accounts[a].block_count \in Nat /\ blocks[x].height \in Nat \ {0}
               /\ blocks[x].height <= accounts[a].block_count
<1> DEFINE a == blocks[x].account
<1>1. a \in Account /\ blocks[x].height \in Nat \ {0} /\ blocks[x].height <= accounts[a].block_count
  BY StoredFields DEF IInv, Heights
<1>2. accounts[a].block_count \in Int
  BY <1>1, ConfirmedBelowHead
<1>3. accounts[a].block_count \in Nat \ {0}
  BY <1>1, <1>2, SMTT(30)
<1>4. accounts[a].head # Zero
  BY <1>1, <1>3 DEF IInv, Heads
<1> QED BY <1>1, <1>3, <1>4 DEF IInv, Heads

(* Among stored blocks there is a lowest one. *)
LEMMA LowestBlock ==
    ASSUME IInv, NEW T, T \subseteq stored, T # {}
    PROVE  \E z \in T : \A y \in T : blocks[z].height <= blocks[y].height
<1> DEFINE H == {blocks[y].height : y \in T}
<1>1. H \subseteq Nat /\ H # {}
  BY StoredFields
<1>2. PICK n \in H : \A m \in H : ~(<<m, n>> \in OpToRel(<, Nat))
  BY <1>1, NatLessThanWellFounded, WFMin
<1>3. \A m \in H : ~(m < n)
  BY <1>1, <1>2 DEF OpToRel
<1>4. \A m \in H : n <= m
  <2>1. n \in Nat /\ \A m \in H : m \in Nat
    BY <1>1
  <2> HIDE DEF H
  <2> QED BY <1>3, <2>1, SMTT(30)
<1>5. PICK z \in T : n = blocks[z].height
  OBVIOUS
<1> QED BY <1>4, <1>5

-----------------------------------------------------------------------------
(* Accepting a block.                                                      *)

(* From w to v the weight m moves away from one representative, the weight n
   comes to another, and the cache stays what put_cache makes of the store. *)
Shifted(w, v, from, m, to, n) ==
    /\ v.committed = w.committed + (n - m)
    /\ v.unused = w.unused - (n - m)
    /\ \A r \in Account0 :
        /\ v.store[r] = w.store[r] - (IF r = from THEN m ELSE 0) + (IF r = to THEN n ELSE 0)
        /\ w.cache[r] = put_cache(w.store[r]) => v.cache[r] = put_cache(v.store[r])

(* What a block carries: the balance, representative and epoch its account
   has after it, the entry a send adds to the pending table, the one a receive
   takes from it, and the weight that follows the balance. *)
Carries(h, a, balance, representative, epoch, source_epoch, is_send) ==
    /\ Block[h].type # "state" =>
          epoch = 0 /\ (Block[h].previous \in Hash => Block[Block[h].previous].type # "state")
    /\ representative = IF Block[h].type \in {"send", "receive"}
                        THEN accounts[a].representative ELSE Block[h].representative
    /\ is_send =>
          /\ balance >= 0 /\ balance <= accounts[a].balance
          /\ pending' = pending \cup {[account |-> Block[h].link, hash |-> h, source |-> a,
                                       amount |-> accounts[a].balance - balance, epoch |-> epoch]}
    /\ Block[h].link \in Hash =>
          \E p \in pending :
             /\ p.account = a /\ p.hash = Block[h].link /\ pending' = pending \ {p}
             /\ balance = accounts[a].balance + p.amount
             /\ p.epoch = IF Block[h].type = "state" THEN source_epoch ELSE 0
    /\ ~is_send /\ Block[h].link \notin Hash =>
          balance = accounts[a].balance /\ pending' = pending
    /\ Shifted(rep_weights, rep_weights', accounts[a].representative, accounts[a].balance,
               representative, balance)

(* The step that appends h to the chain of a: a send adds a pending entry, a
   receive takes the one of its source, any other block leaves them. *)
Appends(h, a, sb, info) ==
    /\ h \in Hash /\ a \in Account /\ h \notin accepted
    /\ sb \in Sideband /\ info \in AccountInfo /\ rep_weights' \in Weights
    /\ put_block(h, a, sb, info)
    /\ sb.account = a /\ sb.height = accounts[a].block_count + 1
    /\ info.head = h /\ info.block_count = accounts[a].block_count + 1
    /\ info.open_block = IF accounts[a].open_block = Zero THEN h ELSE accounts[a].open_block
    /\ info.balance = sb.balance /\ info.epoch = sb.epoch
    /\ Carries(h, a, sb.balance, info.representative, sb.epoch, sb.source_epoch, sb.is_send)
    /\ IF accounts[a].head = Zero
       THEN Block[h].previous = Zero /\ Block[h].account = a
       ELSE Block[h].previous = accounts[a].head
    /\ Block[h].type \in {"open", "state"} => Block[h].account = a
    /\ Block[h].type = "state" => sb.balance = Block[h].balance
    /\ sb.is_send <=> \/ Block[h].type = "send"
                      \/ /\ Block[h].type = "state"
                         /\ Block[h].balance < block_balance(Block[h].previous)
    /\ \/ /\ sb.is_send /\ Block[h].link \notin Hash
          /\ \E p \in PendingEntry : p.hash = h /\ p.source = a /\ pending' = pending \cup {p}
       \/ /\ ~sb.is_send
          /\ \E p \in pending : p.hash = Block[h].link /\ pending' = pending \ {p}
       \/ /\ ~sb.is_send /\ Block[h].link \in {Zero} \cup EpochLink
          /\ pending' = pending

(* The sets of blocks after h was appended. *)
LEMMA AppendsSets ==
    ASSUME IInv, NEW h, NEW a, NEW sb, NEW info, Appends(h, a, sb, info)
    PROVE  /\ stored' = stored \cup {h} /\ accepted' = accepted \cup {h}
           /\ cemented' = cemented /\ h \notin stored /\ h \notin cemented
           /\ blocks'[h] = sb /\ \A x \in stored : blocks'[x] = blocks[x]
           /\ accounts'[a] = info /\ \A b \in Account : b # a => accounts'[b] = accounts[b]
           /\ confirmation_height' = confirmation_height /\ pruned' = pruned
           /\ sb.height \in Nat /\ sb.height > confirmation_height[a].height
<1>1. /\ h \in Hash /\ a \in Account /\ h \notin accepted /\ sb \in Sideband
      /\ sb.account = a /\ sb.height = accounts[a].block_count + 1
  BY DEF Appends
<1>2. /\ blocks' = [blocks EXCEPT ![h] = sb] /\ accounts' = [accounts EXCEPT ![a] = info]
      /\ confirmation_height' = confirmation_height /\ pruned' = pruned
  BY DEF Appends, put_block, cementVars
<1>3. blocks \in [Hash -> Sideband] /\ accounts \in [Account -> AccountInfo]
  BY DEF IInv, TypeOK
<1>4. sb.height \in Nat /\ sb.height > confirmation_height[a].height /\ sb.height # 0
  BY <1>1, ConfirmedBelowHead, SMTT(30)
<1>5. /\ blocks'[h] = sb /\ \A x \in Hash : x # h => blocks'[x] = blocks[x]
      /\ accounts'[a] = info /\ \A b \in Account : b # a => accounts'[b] = accounts[b]
  BY <1>1, <1>2, <1>3
<1>6. h \notin stored /\ stored' = stored \cup {h}
  BY <1>1, <1>4, <1>5 DEF stored, accepted, block_exists
<1>7. h \notin cemented /\ cemented' = cemented
  <2>1. h \notin cemented
    BY <1>1, AcceptedClosed
  <2>2. h \notin cemented'
    <3>1. h \notin pruned' /\ blocks'[h].account = a
      BY <1>1, <1>2, <1>5 DEF accepted
    <3>2. confirmation_height[a].height \in Nat
      BY <1>1, ConfirmedBelowHead
    <3>3. ~(blocks'[h].height <= confirmation_height'[blocks'[h].account].height)
      BY <1>2, <1>4, <1>5, <3>1, <3>2, SMTT(30)
    <3> QED BY <3>1, <3>3 DEF cemented, cemented_block_exists_or_pruned, cemented_block_exists
  <2>3. \A x \in Hash : x # h => (x \in cemented' <=> x \in cemented)
    BY <1>2, <1>5 DEF cemented, cemented_block_exists_or_pruned, cemented_block_exists,
       block_exists
  <2> QED BY <2>1, <2>2, <2>3 DEF cemented
<1> QED BY <1>1, <1>2, <1>4, <1>5, <1>6, <1>7 DEF accepted, stored

(* The appended block has its dependencies in the ledger and no competitor. *)
LEMMA AppendsAccept ==
    ASSUME IInv, NEW h, NEW a, NEW sb, NEW info, Appends(h, a, sb, info)
    PROVE  /\ Dependencies[h] \subseteq accepted
           /\ \A x \in accepted : QualifiedRoot[x] # QualifiedRoot[h]
<1>1. h \in Hash /\ a \in Account /\ h \notin accepted
  BY DEF Appends
<1>2. accepted \subseteq Hash
  BY DEF IInv, TypeOK, accepted, stored
<1>3. Dependencies[h] \subseteq accepted
  <2>1. Block[h].link \in Hash => Block[h].link \in accepted
    BY UniverseAssumption DEF Appends, IInv, Receipts, Account0
  <2>2. Block[h].previous \in Hash => Block[h].previous \in accepted
    BY <1>1, UniverseAssumption DEF Appends, IInv, Heads, accepted
  <2> QED BY <1>1, <2>1, <2>2, DependenciesType, SMTT(30)
<1>4. ASSUME NEW x \in accepted PROVE QualifiedRoot[x] # QualifiedRoot[h]
  <2>1. x \in Hash /\ Block[x].previous \in Hash0 /\ Block[h].previous \in Hash0
    BY <1>1, <1>2, <1>4, BlockFields
  <2>2. CASE accounts[a].head # Zero
    <3>1. Block[h].previous = accounts[a].head /\ Block[x].previous # accounts[a].head
      BY <1>1, <1>4, <2>2, NothingFollowsHead DEF Appends
    <3>2. accounts[a].head \in Hash /\ Block[x].account \in Account0
      BY <1>1, <2>1, <2>2, BlockFields DEF IInv, TypeOK, AccountInfo, Hash0
    <3> QED BY <1>1, <2>1, <2>2, <3>1, <3>2, UniverseAssumption DEF QualifiedRoot, Account0
  <2>3. CASE accounts[a].head = Zero
    <3>1. Block[h].previous = Zero /\ Block[h].account = a
      BY <2>3 DEF Appends
    <3>2. Block[x].previous = Zero => Block[x].account # a
      <4>1. SUFFICES ASSUME Block[x].previous = Zero, Block[x].account = a PROVE FALSE
        OBVIOUS
      <4>2. accounts[a].block_count = 0
        BY <1>1, <2>3 DEF IInv, Heads
      <4>3. CASE x \in stored
        <5>1. blocks[x].height = 1 /\ blocks[x].account = a
          BY <4>1, <4>3 DEF IInv, Linked
        <5> QED BY <4>2, <4>3, <5>1, SMTT(30) DEF IInv, Heights
      <4>4. CASE x \in pruned
        <5>1. confirmation_height[a].height > 0
          BY <4>1, <4>4 DEF IInv, PrunedBelow
        <5> QED BY <1>1, <4>2, <5>1, ConfirmedBelowHead, SMTT(30)
      <4> QED BY <1>4, <4>3, <4>4 DEF accepted
    <3> QED BY <1>1, <2>1, <3>1, <3>2, UniverseAssumption DEF QualifiedRoot, Hash0
  <2> QED BY <2>2, <2>3
<1> QED BY <1>3, <1>4

(* Appending a block preserves the invariant. *)
LEMMA AppendsIInv ==
    ASSUME IInv, NEW h, NEW a, NEW sb, NEW info, Appends(h, a, sb, info)
    PROVE  IInv'
<1>1. /\ h \in Hash /\ a \in Account /\ h \notin accepted /\ sb \in Sideband
      /\ info \in AccountInfo /\ sb.account = a /\ sb.height = accounts[a].block_count + 1
      /\ info.head = h /\ info.block_count = accounts[a].block_count + 1
      /\ info.balance = sb.balance
  BY DEF Appends
<1>2. /\ stored' = stored \cup {h} /\ accepted' = accepted \cup {h}
      /\ cemented' = cemented /\ h \notin stored /\ h \notin cemented
      /\ blocks'[h] = sb /\ \A x \in stored : blocks'[x] = blocks[x]
      /\ accounts'[a] = info /\ \A b \in Account : b # a => accounts'[b] = accounts[b]
      /\ confirmation_height' = confirmation_height /\ pruned' = pruned
      /\ sb.height \in Nat /\ sb.height > confirmation_height[a].height
  BY AppendsSets
<1>3. accounts[a].block_count \in Int /\ accounts[a].block_count >= 0
  BY <1>1, ConfirmedBelowHead, SMTT(30)
<1>4. h # Zero /\ Zero \notin stored /\ Zero \notin accepted /\ stored \subseteq Hash
  BY <1>1, UniverseAssumption DEF stored, accepted, IInv, TypeOK
<1>5. TypeOK'
  <2>1. pending' \subseteq PendingEntry
    BY DEF Appends, IInv, TypeOK
  <2>2. successor' \in [Hash -> Hash0]
    BY <1>1 DEF Appends, put_block, IInv, TypeOK, Hash0
  <2>3. cache' \in Counters
    <3>1. cache' = [cache EXCEPT !.block_count = cache.block_count + 1,
              !.account_count = cache.account_count + (IF accounts[a].head = Zero THEN 1 ELSE 0)]
      BY DEF Appends, put_block
    <3>2. cache \in Counters
      BY DEF IInv, TypeOK
    <3>3. /\ cache.block_count + 1 \in Int
          /\ cache.account_count + (IF accounts[a].head = Zero THEN 1 ELSE 0) \in Int
      BY <3>2, CountersFields, SMTT(30)
    <3> QED BY <3>1, <3>2, <3>3, Recounted
  <2>4. blocks' \in [Hash -> Sideband] /\ accounts' \in [Account -> AccountInfo]
    BY <1>1 DEF Appends, put_block, IInv, TypeOK
  <2> QED BY <2>1, <2>2, <2>3, <2>4 DEF Appends, put_block, IInv, TypeOK, rollbackVars, cementVars
<1>6. Heights'
  <2>1. \A x \in stored : /\ blocks[x].account \in Account
                          /\ blocks[x].height <= accounts[blocks[x].account].block_count
                          /\ blocks[x].height \in Nat
    BY StoredFields DEF IInv, Heights
  <2>2. \A x \in stored' : /\ blocks'[x].account \in Account
                           /\ blocks'[x].height <= accounts'[blocks'[x].account].block_count
    BY <1>1, <1>2, <1>3, <2>1, SMTT(30)
  <2>3. ASSUME NEW x \in stored, blocks[x].account = a PROVE blocks[x].height # sb.height
    BY <1>1, <1>3, <2>1, <2>3, SMTT(30)
  <2> QED BY <1>1, <1>2, <2>2, <2>3, SMTT(30) DEF IInv, Heights
<1>7. Linked'
  <2>1. accepted \subseteq accepted'
    BY <1>2
  <2>2. ASSUME NEW x \in stored, Block[x].previous # Zero
        PROVE  /\ Block[x].previous \in accepted /\ blocks[x].height > 1
               /\ Block[x].previous # h
               /\ Block[x].previous \in stored =>
                     /\ blocks[Block[x].previous].account = blocks[x].account
                     /\ blocks[Block[x].previous].height + 1 = blocks[x].height
    BY <1>1, <2>2 DEF IInv, Linked
  <2>3. ASSUME NEW x \in stored, Block[x].previous = Zero
        PROVE  blocks[x].height = 1 /\ Block[x].account = blocks[x].account
    BY <2>3 DEF IInv, Linked
  <2>4. IF Block[h].previous = Zero
        THEN blocks'[h].height = 1 /\ Block[h].account = blocks'[h].account
        ELSE /\ Block[h].previous \in accepted'
             /\ blocks'[h].height > 1
             /\ Block[h].previous \in stored' =>
                   /\ blocks'[Block[h].previous].account = blocks'[h].account
                   /\ blocks'[Block[h].previous].height + 1 = blocks'[h].height
    <3>1. CASE accounts[a].head = Zero
      BY <1>1, <1>2, <3>1, SMTT(30) DEF Appends, IInv, Heads
    <3>2. CASE accounts[a].head # Zero
      <4>1. /\ Block[h].previous = accounts[a].head /\ accounts[a].head \in stored
            /\ blocks[accounts[a].head].account = a
            /\ blocks[accounts[a].head].height = accounts[a].block_count
        BY <1>1, <3>2 DEF Appends, IInv, Heads
      <4>2. blocks[accounts[a].head].height \in Nat \ {0}
        BY <4>1, StoredFields
      <4>3. Block[h].previous \in accepted'
        BY <1>2, <4>1 DEF accepted
      <4> QED BY <1>1, <1>2, <3>2, <4>1, <4>2, <4>3, SMTT(30)
    <3> QED BY <3>1, <3>2
  <2> QED BY <1>2, <2>1, <2>2, <2>3, <2>4, SMTT(30) DEF Linked
<1>8. Derived'
  <2>1. ASSUME NEW x \in stored
        PROVE  /\ Block[x].previous # h
               /\ block_balance(Block[x].previous)' = block_balance(Block[x].previous)
    <3>1. Block[x].previous # h
      BY <1>1, <1>4 DEF IInv, Linked
    <3>2. Block[x].previous \in Hash => (Block[x].previous \in stored <=> Block[x].previous \in stored')
      BY <1>2, <3>1
    <3> QED BY <1>2, <3>1, <3>2 DEF block_balance, block_exists, stored
  <2>2. ASSUME NEW x \in stored
        PROVE  /\ Block[x].type \in {"open", "state"} => Block[x].account = blocks[x].account
               /\ Block[x].type = "state" => blocks[x].balance = Block[x].balance
               /\ blocks[x].is_send => Block[x].link \notin Hash
               /\ ~blocks[x].is_send => Block[x].link \in Hash \cup {Zero} \cup EpochLink
               /\ Block[x].previous \notin pruned =>
                     (blocks[x].is_send <=>
                         \/ Block[x].type = "send"
                         \/ /\ Block[x].type = "state"
                            /\ Block[x].balance < block_balance(Block[x].previous))
    BY DEF IInv, Derived
  <2>3. /\ Block[h].previous # h
        /\ block_balance(Block[h].previous)' = block_balance(Block[h].previous)
    <3>1. Block[h].previous # h
      BY <1>1, <1>2, <1>4, SMTT(30) DEF Appends, IInv, Heads
    <3>2. Block[h].previous \in Hash => (Block[h].previous \in stored <=> Block[h].previous \in stored')
      BY <1>2, <3>1
    <3> QED BY <1>2, <3>1, <3>2 DEF block_balance, block_exists, stored
  <2>4. /\ Block[h].type \in {"open", "state"} => Block[h].account = sb.account
        /\ Block[h].type = "state" => sb.balance = Block[h].balance
        /\ sb.is_send => Block[h].link \notin Hash
        /\ ~sb.is_send => Block[h].link \in Hash \cup {Zero} \cup EpochLink
        /\ sb.is_send <=> \/ Block[h].type = "send"
                          \/ /\ Block[h].type = "state"
                             /\ Block[h].balance < block_balance(Block[h].previous)
    BY <1>1 DEF Appends, IInv, TypeOK, PendingEntry
  <2> QED BY <1>2, <2>1, <2>2, <2>3, <2>4, SMTT(30) DEF Derived
<1>9. Heads'
  <2>1. \A b \in Account : b # a => accounts'[b] = accounts[b]
    BY <1>2
  <2>2. h \in stored' /\ blocks'[h] = sb /\ accounts'[a] = info
    BY <1>2
  <2> QED BY <1>1, <1>2, <1>4, <2>1, <2>2, SMTT(30) DEF IInv, Heads
<1>10. Receipts'
  <2>1. /\ \A x \in accepted : Block[x].link # h
        /\ \A p \in pending : p.hash # h /\ p.hash \in Hash
    <3>1. \A x \in accepted : Block[x].link # h
      BY <1>1 DEF IInv, Receipts
    <3> QED BY <1>1, <3>1 DEF IInv, Receipts, TypeOK, PendingEntry
  <2>2. Block[h].link \in Hash =>
            /\ ~sb.is_send
            /\ \E p \in pending : p.hash = Block[h].link /\ pending' = pending \ {p}
    BY UniverseAssumption DEF Appends
  <2>3. Block[h].link \notin Hash => pending' = pending
            \/ \E p : p.hash = h /\ p.source = a /\ sb.is_send /\ pending' = pending \cup {p}
    BY <2>1 DEF Appends
  <2>4. \A x \in accepted' : Block[x].link \in Hash =>
          /\ Block[x].link \in accepted'
          /\ Block[x].link \in stored' => blocks'[Block[x].link].is_send
    BY <1>2, <2>1, <2>2, SMTT(30) DEF IInv, Receipts
  <2>5. \A x, y \in accepted' : Block[x].link \in Hash /\ Block[x].link = Block[y].link => x = y
    BY <1>2, <2>1, <2>2, SMTT(30) DEF IInv, Receipts
  <2>6. ASSUME NEW p \in pending'
        PROVE  /\ p.hash \in accepted'
               /\ p.hash \in stored' => blocks'[p.hash].is_send /\ p.source = blocks'[p.hash].account
               /\ \A x \in accepted' : Block[x].link # p.hash
    <3>1. CASE Block[h].link \in Hash
      <4>1. PICK q \in pending : q.hash = Block[h].link /\ pending' = pending \ {q}
        BY <2>2, <3>1
      <4>2. p \in pending /\ p # q /\ p.hash # h /\ p.hash # q.hash
        BY <2>1, <4>1 DEF IInv, Receipts
      <4>3. /\ p.hash \in accepted
            /\ p.hash \in stored => blocks[p.hash].is_send /\ p.source = blocks[p.hash].account
            /\ \A x \in accepted : Block[x].link # p.hash
        BY <4>2 DEF IInv, Receipts
      <4> QED BY <1>2, <4>1, <4>2, <4>3
    <3>2. CASE Block[h].link \notin Hash /\ p \in pending
      <4>1. /\ p.hash \in accepted /\ p.hash # h /\ p.hash \in Hash
            /\ p.hash \in stored => blocks[p.hash].is_send /\ p.source = blocks[p.hash].account
            /\ \A x \in accepted : Block[x].link # p.hash
        BY <2>1, <3>2 DEF IInv, Receipts
      <4> QED BY <1>2, <3>2, <4>1
    <3>3. CASE Block[h].link \notin Hash /\ p \notin pending
      <4>1. p.hash = h /\ p.source = a /\ sb.is_send
        BY <2>3, <3>3
      <4>2. Block[h].link # h
        BY <1>1, <3>3
      <4> QED BY <1>1, <1>2, <2>1, <4>1, <4>2
    <3> QED BY <3>1, <3>2, <3>3
  <2>7. \A p, q \in pending' : p.hash = q.hash => p = q
    <3>1. \A p, q \in pending : p.hash = q.hash => p = q
      BY DEF IInv, Receipts
    <3> QED BY <2>1, <2>2, <2>3, <3>1
  <2> QED BY <2>4, <2>5, <2>6, <2>7 DEF Receipts
<1>11. Confirmed'
  <2>1. \A b \in Account : confirmation_height[b].height > 0 =>
            /\ confirmation_height[b].frontier \in stored
            /\ blocks[confirmation_height[b].frontier].account = b
            /\ blocks[confirmation_height[b].frontier].height = confirmation_height[b].height
    BY DEF IInv, Confirmed
  <2>2. \A x \in stored : x \in cemented => Dependencies[x] \subseteq cemented
    BY DEF IInv, Confirmed
  <2> QED BY <1>2, <2>1, <2>2 DEF Confirmed
<1>12. PrunedBelow'
  <2>1. h \notin pruned /\ \A x \in pruned : Block[x].previous # h
    <3>1. h \notin pruned
      BY <1>1 DEF accepted
    <3>2. ASSUME NEW x \in pruned, Block[x].previous = h PROVE FALSE
      <4>1. x \in accepted /\ x \in Hash
        BY <3>2 DEF accepted, IInv, TypeOK
      <4>2. h \in accepted
        BY <1>1, <3>2, <4>1, AcceptedClosed, DependenciesType
      <4> QED BY <1>1, <4>2
    <3> QED BY <3>1, <3>2
  <2>2. Block[h].previous \notin pruned
    <3>1. stored \cap pruned = {} /\ Zero \notin pruned
      BY AcceptedClosed, UniverseAssumption DEF IInv, TypeOK
    <3> QED BY <1>1, <3>1 DEF Appends, IInv, Heads
  <2>3. /\ genesis \in stored /\ genesis \in cemented
        /\ \A x \in pruned :
            /\ x \notin stored
            /\ Dependencies[x] \subseteq cemented
            /\ Block[x].previous \in stored =>
                  blocks[Block[x].previous].height
                    < confirmation_height[blocks[Block[x].previous].account].height
            /\ Block[x].previous = Zero =>
                  /\ Block[x].account \in Account
                  /\ confirmation_height[Block[x].account].height > 0
        /\ \A x \in stored : Block[x].previous \in pruned => x \in cemented
    BY DEF IInv, PrunedBelow
  <2> QED BY <1>2, <2>1, <2>2, <2>3 DEF PrunedBelow
<1>13. Control'
  <2>1. /\ writer' = writer /\ rollback_stack' = rollback_stack /\ cement_stack' = cement_stack
        /\ prune_hash' = prune_hash
    BY DEF Appends, put_block, rollbackVars, cementVars
  <2>2. /\ writer = "rollback" => rollback_stack # <<>>
        /\ writer = "cement" => cement_stack # <<>>
        /\ writer = "prune" => prune_hash # Zero
        /\ prune_hash # Zero =>
            /\ prune_hash \in stored /\ prune_hash # genesis
            /\ blocks[prune_hash].height < confirmation_height[blocks[prune_hash].account].height
    BY DEF IInv, Control
  <2> QED BY <1>2, <2>1, <2>2 DEF Control
<1> QED BY <1>5, <1>6, <1>7, <1>8, <1>9, <1>10, <1>11, <1>12, <1>13 DEF IInv

-----------------------------------------------------------------------------
(* Undoing a block.                                                        *)

(* What undoing a block gives back: the representative and epoch its account
   had before it, the entry of the send that a receive took, and the weight
   that follows the balance. *)
Restores(h, a, representative, epoch) ==
    LET before == block_balance(Block[h].previous) IN
    /\ Block[h].previous # Zero =>
          /\ epoch = IF Block[h].type = "state" THEN version(Block[h].previous) ELSE 0
          /\ IF Block[h].type \in {"send", "receive"}
             THEN representative = accounts[a].representative
             ELSE /\ representative_block[Block[h].previous] \in Hash
                  /\ representative = Block[representative_block[Block[h].previous]].representative
    /\ blocks[h].is_send =>
          \E p \in pending :
             /\ p.account = Block[h].link /\ p.hash = h /\ pending' = pending \ {p}
             /\ Block[h].type = "send" =>
                   Shifted(rep_weights, rep_weights', accounts[a].representative,
                           before - p.amount, representative, before)
    /\ ~blocks[h].is_send /\ Block[h].link \in Hash =>
          pending' = pending \cup {restored_pending(h, a, blocks[h].balance - before,
                          IF Block[h].type = "state" THEN blocks[h].source_epoch ELSE 0)}
    /\ Block[h].type # "send" =>
          Shifted(rep_weights, rep_weights',
                  IF Block[h].type = "receive" THEN accounts[a].representative
                  ELSE Block[h].representative,
                  IF Block[h].type = "change" THEN before ELSE blocks[h].balance,
                  representative, before)

(* The step that takes the uncemented head h off its chain: a send takes its
   pending entry along, a receive puts the one of its source back. *)
Undoes(h, a, info) ==
    /\ a \in Account /\ h \in stored /\ h \notin cemented
    /\ blocks[h].account = a /\ accounts[a].head = h
    /\ info \in AccountInfo /\ rep_weights' \in Weights
    /\ del_block(h, a, info)
    /\ info.head = Block[h].previous
    /\ Block[h].previous = Zero =>
          info.block_count = 0 /\ info.balance = 0 /\ info.open_block = Zero
    /\ Block[h].previous # Zero =>
          /\ info.block_count = accounts[a].block_count - 1
          /\ info.balance = block_balance(Block[h].previous)
          /\ info.open_block = accounts[a].open_block
    /\ Restores(h, a, info.representative, info.epoch)
    /\ \/ /\ blocks[h].is_send
          /\ \E p \in pending : p.hash = h /\ pending' = pending \ {p}
       \/ /\ ~blocks[h].is_send /\ Block[h].link \in Hash
          /\ \E p \in PendingEntry : /\ p.hash = Block[h].link
                                     /\ p.source = block_account(Block[h].link)
                                     /\ pending' = pending \cup {p}
       \/ /\ ~blocks[h].is_send /\ Block[h].link \notin Hash
          /\ pending' = pending

(* Nothing in the ledger depends on the block that is undone. *)
LEMMA UndoesDiscard ==
    ASSUME IInv, NEW h, NEW a, NEW info, Undoes(h, a, info)
    PROVE  /\ h \in Hash /\ h # genesis /\ h \notin pruned
           /\ \A x \in accepted : Block[x].previous # h /\ Block[x].link # h
           /\ Block[h].previous \notin pruned /\ Block[h].previous # h
<1>1. /\ a \in Account /\ h \in stored /\ h \notin cemented
      /\ blocks[h].account = a /\ accounts[a].head = h
  BY DEF Undoes
<1>2. h \in Hash /\ h # Zero /\ h # genesis /\ h \in accepted /\ h \notin pruned
  BY <1>1, AcceptedClosed, UniverseAssumption DEF stored, accepted, IInv, PrunedBelow
<1>3. \A x \in accepted : Block[x].previous # h
  BY <1>1, <1>2, NothingFollowsHead
<1>4. \A x \in accepted : Block[x].link # h
  <2>1. CASE blocks[h].is_send
    BY <2>1 DEF Undoes, IInv, Receipts
  <2>2. CASE ~blocks[h].is_send
    BY <1>1, <1>2, <2>2 DEF IInv, Receipts
  <2> QED BY <2>1, <2>2
<1>5. Block[h].previous \notin pruned
  BY <1>1 DEF IInv, PrunedBelow
<1> QED BY <1>2, <1>3, <1>4, <1>5

(* The sets of blocks after h was undone. *)
LEMMA UndoesSets ==
    ASSUME IInv, NEW h, NEW a, NEW info, Undoes(h, a, info)
    PROVE  /\ stored' = stored \ {h} /\ accepted' = accepted \ {h}
           /\ cemented' = cemented /\ \A x \in stored' : x # h /\ blocks'[x] = blocks[x]
           /\ accounts'[a] = info /\ \A b \in Account : b # a => accounts'[b] = accounts[b]
           /\ confirmation_height' = confirmation_height /\ pruned' = pruned
           /\ blocks[h].height > confirmation_height[a].height
<1>1. /\ a \in Account /\ h \in Hash /\ h \in stored /\ h \notin cemented /\ h \notin pruned
      /\ blocks[h].account = a
  BY UndoesDiscard DEF Undoes
<1>2. /\ blocks' = [blocks EXCEPT ![h] = NoSideband] /\ accounts' = [accounts EXCEPT ![a] = info]
      /\ confirmation_height' = confirmation_height /\ pruned' = pruned
  BY DEF Undoes, del_block, cementVars
<1>3. blocks \in [Hash -> Sideband] /\ accounts \in [Account -> AccountInfo]
  BY DEF IInv, TypeOK
<1>4. /\ blocks'[h] = NoSideband /\ \A x \in Hash : x # h => blocks'[x] = blocks[x]
      /\ accounts'[a] = info /\ \A b \in Account : b # a => accounts'[b] = accounts[b]
  BY <1>1, <1>2, <1>3
<1>5. NoSideband.height = 0
  BY DEF NoSideband
<1>6. stored' = stored \ {h}
  BY <1>4, <1>5 DEF stored, block_exists
<1>7. accepted' = accepted \ {h}
  BY <1>1, <1>2, <1>6 DEF accepted
<1>8. cemented' = cemented
  <2>1. h \notin cemented'
    BY <1>1, <1>2, <1>4, <1>5
       DEF cemented, cemented_block_exists_or_pruned, cemented_block_exists, block_exists
  <2>2. \A x \in Hash : x # h => (x \in cemented' <=> x \in cemented)
    BY <1>2, <1>4 DEF cemented, cemented_block_exists_or_pruned, cemented_block_exists,
       block_exists
  <2> QED BY <1>1, <2>1, <2>2 DEF cemented
<1>9. blocks[h].height > confirmation_height[a].height
  <2>1. ~(blocks[h].height <= confirmation_height[a].height)
    BY <1>1, CementedStored
  <2>2. blocks[h].height \in Nat /\ confirmation_height[a].height \in Nat
    BY <1>1, StoredFields, ConfirmedBelowHead
  <2> QED BY <2>1, <2>2, SMTT(30)
<1> QED BY <1>2, <1>4, <1>6, <1>7, <1>8, <1>9 DEF stored

(* Undoing a block preserves the invariant. *)
LEMMA UndoesIInv ==
    ASSUME IInv, NEW h, NEW a, NEW info, Undoes(h, a, info)
    PROVE  IInv'
<1>1. /\ a \in Account /\ h \in stored /\ h \notin cemented
      /\ blocks[h].account = a /\ accounts[a].head = h /\ info \in AccountInfo
      /\ info.head = Block[h].previous
      /\ Block[h].previous = Zero => info.block_count = 0 /\ info.balance = 0
      /\ Block[h].previous # Zero =>
            /\ info.block_count = accounts[a].block_count - 1
            /\ info.balance = block_balance(Block[h].previous)
  BY DEF Undoes
<1>2. /\ stored' = stored \ {h} /\ accepted' = accepted \ {h}
      /\ cemented' = cemented /\ \A x \in stored' : x # h /\ blocks'[x] = blocks[x]
      /\ accounts'[a] = info /\ \A b \in Account : b # a => accounts'[b] = accounts[b]
      /\ confirmation_height' = confirmation_height /\ pruned' = pruned
      /\ blocks[h].height > confirmation_height[a].height
  BY UndoesSets
<1>3. /\ h \in Hash /\ h # genesis /\ h \notin pruned
      /\ \A x \in accepted : Block[x].previous # h /\ Block[x].link # h
      /\ Block[h].previous \notin pruned /\ Block[h].previous # h
  BY UndoesDiscard
<1>4. /\ h # Zero /\ Zero \notin stored /\ stored \subseteq accepted /\ stored \subseteq Hash
      /\ pruned \subseteq accepted
  BY <1>3, UniverseAssumption DEF stored, accepted
<1>5. /\ blocks[h].height = accounts[a].block_count /\ blocks[h].height \in Nat \ {0}
      /\ blocks[h].height = 1 <=> Block[h].previous = Zero
  <2>1. blocks[h].height = accounts[a].block_count
    BY <1>1, <1>4 DEF IInv, Heads
  <2>2. blocks[h].height \in Nat \ {0}
    BY <1>1, StoredFields
  <2>3. IF Block[h].previous = Zero THEN blocks[h].height = 1 ELSE blocks[h].height > 1
    BY <1>1 DEF IInv, Linked
  <2> QED BY <2>1, <2>2, <2>3, SMTT(30)
<1>6. Block[h].previous # Zero =>
        /\ Block[h].previous \in stored' /\ blocks'[Block[h].previous].account = a
        /\ blocks'[Block[h].previous].height = accounts[a].block_count - 1
        /\ blocks'[Block[h].previous].balance = info.balance
  <2> SUFFICES ASSUME Block[h].previous # Zero
               PROVE  /\ Block[h].previous \in stored' /\ blocks'[Block[h].previous].account = a
                      /\ blocks'[Block[h].previous].height = accounts[a].block_count - 1
                      /\ blocks'[Block[h].previous].balance = info.balance
    OBVIOUS
  <2>1. /\ Block[h].previous \in stored
        /\ blocks[Block[h].previous].account = a
        /\ blocks[Block[h].previous].height + 1 = blocks[h].height
    BY <1>1, <1>3 DEF IInv, Linked, accepted
  <2>2. blocks[Block[h].previous].height \in Nat
    BY <2>1, StoredFields
  <2>3. blocks[Block[h].previous].balance = info.balance
    BY <1>1, <2>1 DEF block_balance, stored
  <2> QED BY <1>2, <1>3, <1>5, <2>1, <2>2, <2>3, SMTT(30)
<1>7. TypeOK'
  <2>1. pending' \subseteq PendingEntry
    BY DEF Undoes, IInv, TypeOK
  <2>2. successor' \in [Hash -> Hash0]
    BY DEF Undoes, del_block, IInv, TypeOK, Hash0
  <2>3. cache' \in Counters
    <3>1. cache' = [cache EXCEPT !.block_count = cache.block_count - 1,
              !.account_count = cache.account_count - (IF info.head = Zero THEN 1 ELSE 0)]
      BY DEF Undoes, del_block
    <3>2. cache \in Counters
      BY DEF IInv, TypeOK
    <3>3. /\ cache.block_count - 1 \in Int
          /\ cache.account_count - (IF info.head = Zero THEN 1 ELSE 0) \in Int
      BY <3>2, CountersFields, SMTT(30)
    <3> QED BY <3>1, <3>2, <3>3, Recounted
  <2>4. NoSideband \in Sideband
    BY SMTT(30) DEF NoSideband, Sideband, Account0
  <2>5. blocks' \in [Hash -> Sideband] /\ accounts' \in [Account -> AccountInfo]
    BY <1>1, <2>4 DEF Undoes, del_block, IInv, TypeOK
  <2>6. rollback_list' \subseteq Hash
    BY <1>3 DEF Undoes, del_block, IInv, TypeOK
  <2> QED BY <2>1, <2>2, <2>3, <2>5, <2>6 DEF Undoes, del_block, IInv, TypeOK, cementVars
<1>8. Heights'
  <2>1. ASSUME NEW x \in stored'
        PROVE  /\ blocks'[x].account \in Account
               /\ blocks'[x].height <= accounts'[blocks'[x].account].block_count
    <3>1. /\ x \in stored /\ x # h /\ blocks'[x] = blocks[x] /\ blocks[x].account \in Account
          /\ blocks[x].height \in Nat \ {0}
      BY <1>2, <2>1, StoredFields
    <3>2. blocks[x].height <= accounts[blocks[x].account].block_count
      BY <3>1 DEF IInv, Heights
    <3>3. CASE blocks[x].account = a
      <4>1. blocks[x].height # blocks[h].height
        BY <1>1, <3>1, <3>3 DEF IInv, Heights
      <4>2. info.block_count = accounts[a].block_count - 1
        BY <1>1, <1>5, SMTT(30)
      <4> QED BY <1>2, <1>5, <3>1, <3>2, <3>3, <4>1, <4>2, SMTT(30)
    <3>4. CASE blocks[x].account # a
      BY <1>2, <3>1, <3>2, <3>4
    <3> QED BY <3>3, <3>4
  <2>2. \A x, y \in stored' :
          blocks'[x].account = blocks'[y].account /\ blocks'[x].height = blocks'[y].height => x = y
    BY <1>2, SMTT(30) DEF IInv, Heights
  <2> QED BY <2>1, <2>2 DEF Heights
<1>9. Linked'
  <2>1. \A x \in stored :
          IF Block[x].previous = Zero
          THEN blocks[x].height = 1 /\ Block[x].account = blocks[x].account
          ELSE /\ Block[x].previous \in accepted
               /\ blocks[x].height > 1
               /\ Block[x].previous \in stored =>
                     /\ blocks[Block[x].previous].account = blocks[x].account
                     /\ blocks[Block[x].previous].height + 1 = blocks[x].height
    BY DEF IInv, Linked
  <2> QED BY <1>2, <1>3, <1>4, <2>1 DEF Linked
<1>10. Derived'
  <2>1. ASSUME NEW x \in stored'
        PROVE  block_balance(Block[x].previous)' = block_balance(Block[x].previous)
    <3>1. Block[x].previous # h
      BY <1>2, <1>3, <1>4
    <3>2. Block[x].previous \in stored <=> Block[x].previous \in stored'
      BY <1>2, <3>1
    <3> QED BY <1>2, <3>1, <3>2 DEF block_balance, block_exists, stored
  <2>2. ASSUME NEW x \in stored
        PROVE  /\ Block[x].type \in {"open", "state"} => Block[x].account = blocks[x].account
               /\ Block[x].type = "state" => blocks[x].balance = Block[x].balance
               /\ blocks[x].is_send => Block[x].link \notin Hash
               /\ ~blocks[x].is_send => Block[x].link \in Hash \cup {Zero} \cup EpochLink
               /\ Block[x].previous \notin pruned =>
                     (blocks[x].is_send <=>
                         \/ Block[x].type = "send"
                         \/ /\ Block[x].type = "state"
                            /\ Block[x].balance < block_balance(Block[x].previous))
    BY DEF IInv, Derived
  <2> QED BY <1>2, <2>1, <2>2, SMTT(30) DEF Derived
<1>11. Heads'
  <2>1. ASSUME NEW b \in Account, b # a, accounts[b].head # Zero
        PROVE  accounts[b].head # h /\ accounts[b].head \in stored
    BY <1>1, <2>1 DEF IInv, Heads
  <2> QED BY <1>1, <1>2, <1>5, <1>6, <2>1, SMTT(30) DEF IInv, Heads
<1>12. Receipts'
  <2>1. \A x \in accepted' : Block[x].link \in Hash =>
          /\ Block[x].link \in accepted'
          /\ Block[x].link \in stored' => blocks'[Block[x].link].is_send
    BY <1>2, <1>3 DEF IInv, Receipts
  <2>2. \A x, y \in accepted' : Block[x].link \in Hash /\ Block[x].link = Block[y].link => x = y
    BY <1>2 DEF IInv, Receipts
  <2>3. \A p \in pending :
          /\ p.hash \in accepted
          /\ p.hash \in stored => blocks[p.hash].is_send /\ p.source = blocks[p.hash].account
          /\ \A x \in accepted : Block[x].link # p.hash
    BY DEF IInv, Receipts
  <2>4. \A p, q \in pending : p.hash = q.hash => p = q
    BY DEF IInv, Receipts
  <2>5. CASE blocks[h].is_send
    <3>1. PICK p \in pending : p.hash = h /\ pending' = pending \ {p}
      BY <2>5 DEF Undoes
    <3>2. \A q \in pending' : q \in pending /\ q.hash # h
      BY <2>4, <3>1
    <3> QED BY <1>2, <2>1, <2>2, <2>3, <2>4, <3>2 DEF Receipts
  <2>6. CASE ~blocks[h].is_send /\ Block[h].link \in Hash
    <3>1. PICK p \in PendingEntry : /\ p.hash = Block[h].link
                                    /\ p.source = block_account(Block[h].link)
                                    /\ pending' = pending \cup {p}
      BY <2>6 DEF Undoes
    <3>2. \A q \in pending : q.hash # p.hash /\ q.hash # h
      BY <1>1, <1>4, <2>3, <2>6, <3>1
    <3>3. /\ p.hash \in accepted'
          /\ p.hash \in stored' => blocks'[p.hash].is_send /\ p.source = blocks'[p.hash].account
      <4>1. /\ p.hash \in accepted /\ p.hash # h
            /\ p.hash \in stored => blocks[p.hash].is_send
        BY <1>1, <1>3, <1>4, <2>6, <3>1 DEF IInv, Receipts
      <4>2. p.hash \in stored => p.source = blocks[p.hash].account
        BY <3>1, SMTT(30) DEF block_account, stored
      <4> QED BY <1>2, <4>1, <4>2
    <3>4. \A x \in accepted' : Block[x].link # p.hash
      BY <1>1, <1>2, <1>4, <2>6, <3>1, SMTT(30) DEF IInv, Receipts
    <3>5. \A q \in pending' :
            /\ q.hash \in accepted'
            /\ q.hash \in stored' => blocks'[q.hash].is_send /\ q.source = blocks'[q.hash].account
            /\ \A x \in accepted' : Block[x].link # q.hash
      BY <1>2, <2>3, <3>1, <3>2, <3>3, <3>4
    <3>6. \A q, r \in pending' : q.hash = r.hash => q = r
      BY <2>4, <3>1, <3>2
    <3> QED BY <2>1, <2>2, <3>5, <3>6 DEF Receipts
  <2>7. CASE ~blocks[h].is_send /\ Block[h].link \notin Hash
    <3>1. pending' = pending
      BY <2>7 DEF Undoes
    <3>2. \A p \in pending : p.hash # h
      BY <1>1, <2>3, <2>7
    <3>3. \A q \in pending' :
            /\ q.hash \in accepted'
            /\ q.hash \in stored' => blocks'[q.hash].is_send /\ q.source = blocks'[q.hash].account
            /\ \A x \in accepted' : Block[x].link # q.hash
      BY <1>2, <2>3, <3>1, <3>2
    <3> QED BY <2>1, <2>2, <2>4, <3>1, <3>3 DEF Receipts
  <2> QED BY <2>5, <2>6, <2>7
<1>13. Confirmed'
  <2>1. ASSUME NEW b \in Account, confirmation_height[b].height > 0
        PROVE  /\ confirmation_height[b].frontier \in stored'
               /\ blocks[confirmation_height[b].frontier].account = b
               /\ blocks[confirmation_height[b].frontier].height = confirmation_height[b].height
    <3>1. /\ confirmation_height[b].frontier \in stored
          /\ blocks[confirmation_height[b].frontier].account = b
          /\ blocks[confirmation_height[b].frontier].height = confirmation_height[b].height
      BY <2>1 DEF IInv, Confirmed
    <3>2. confirmation_height[b].height \in Nat
      BY ConfirmedBelowHead
    <3>3. confirmation_height[b].frontier # h
      BY <1>1, <1>2, <3>1, <3>2, SMTT(30)
    <3> QED BY <1>2, <3>1, <3>3
  <2>2. \A x \in stored : x \in cemented => Dependencies[x] \subseteq cemented
    BY DEF IInv, Confirmed
  <2> QED BY <1>2, <2>1, <2>2 DEF Confirmed
<1>14. PrunedBelow'
  <2>1. /\ genesis \in stored /\ genesis \in cemented
        /\ \A x \in pruned :
            /\ x \notin stored
            /\ Dependencies[x] \subseteq cemented
            /\ Block[x].previous \in stored =>
                  blocks[Block[x].previous].height
                    < confirmation_height[blocks[Block[x].previous].account].height
            /\ Block[x].previous = Zero =>
                  /\ Block[x].account \in Account
                  /\ confirmation_height[Block[x].account].height > 0
        /\ \A x \in stored : Block[x].previous \in pruned => x \in cemented
    BY DEF IInv, PrunedBelow
  <2> QED BY <1>2, <1>3, <2>1 DEF PrunedBelow
<1>15. Control'
  <2>1. /\ writer' = writer /\ rollback_stack' = rollback_stack /\ cement_stack' = cement_stack
        /\ prune_hash' = prune_hash
    BY DEF Undoes, del_block, cementVars
  <2>2. /\ writer = "rollback" => rollback_stack # <<>>
        /\ writer = "cement" => cement_stack # <<>>
        /\ writer = "prune" => prune_hash # Zero
        /\ prune_hash # Zero =>
            /\ prune_hash \in stored /\ prune_hash # genesis
            /\ blocks[prune_hash].height < confirmation_height[blocks[prune_hash].account].height
    BY DEF IInv, Control
  <2>3. prune_hash # Zero => prune_hash # h
    <3>1. blocks[h].height \in Nat /\ confirmation_height[a].height \in Nat
      BY <1>1, StoredFields, ConfirmedBelowHead
    <3> QED BY <1>1, <1>2, <2>2, <3>1, SMTT(30)
  <2> QED BY <1>2, <2>1, <2>2, <2>3 DEF Control
<1> QED BY <1>7, <1>8, <1>9, <1>10, <1>11, <1>12, <1>13, <1>14, <1>15 DEF IInv

(* The block that ledger::rollback is about to undo: an uncemented head. *)
LEMMA UndoingHead ==
    ASSUME IInv, Undoing
    PROVE  LET a == blocks[head].account
           IN  /\ a \in Account /\ head \in Hash /\ head \in stored /\ head \notin cemented
               /\ accounts[a].head = head /\ head # genesis
               /\ Block[head].previous \notin pruned
               /\ accounts[a].representative \in Account0
               /\ block_balance(Block[head].previous) \in Int
<1> DEFINE a == blocks[target].account
           h == accounts[a].head
<1>1. target \in stored /\ blocks[target].height > confirmation_height[a].height
  BY DEF Undoing, rollback_allowed, stored, block_exists
<1>2. a \in Account /\ blocks[target].height \in Nat \ {0} /\ confirmation_height[a].height \in Nat
  BY <1>1, StoredFields, ConfirmedBelowHead
<1>3. accounts[a].block_count \in Int /\ blocks[target].height <= accounts[a].block_count
  BY <1>1, <1>2, ConfirmedBelowHead DEF IInv, Heights
<1>4. h # Zero
  BY <1>2, <1>3, SMTT(30) DEF IInv, Heads
<1>5. h \in stored /\ blocks[h].account = a /\ blocks[h].height = accounts[a].block_count
  BY <1>2, <1>4 DEF IInv, Heads
<1>6. h \in Hash /\ h \notin pruned /\ blocks[h].height \in Nat
  BY <1>5, StoredFields, AcceptedClosed
<1>7. h \notin cemented
  <2>1. ~(blocks[h].height <= confirmation_height[a].height)
    BY <1>1, <1>2, <1>3, <1>5, <1>6, SMTT(30)
  <2> QED BY <1>5, <1>6, <2>1, CementedStored
<1>8. h # genesis /\ Block[h].previous \notin pruned
  BY <1>5, <1>7 DEF IInv, PrunedBelow
<1>9. accounts[a].representative \in Account0 /\ block_balance(Block[h].previous) \in Int
  <2>1. accounts[a].representative \in Account0
    BY <1>2 DEF IInv, TypeOK, AccountInfo
  <2>2. \A x \in Hash : blocks[x].balance \in Int
    BY DEF IInv, TypeOK, Sideband
  <2>3. \A x : block_balance(x) \in Int
    BY <2>2, SMTT(30) DEF block_balance, block_exists
  <2> QED BY <2>1, <2>3
<1> QED BY <1>2, <1>5, <1>6, <1>7, <1>8, <1>9 DEF head

(* The sideband flag agrees with what the rollback visitor computes. *)
LEMMA HeadIsSend ==
    ASSUME IInv, Undoing
    PROVE  blocks[head].is_send <=> head_is_send
<1>1. head \in stored /\ Block[head].previous \notin pruned
  BY UndoingHead
<1> QED BY <1>1 DEF IInv, Derived, head_is_send

-----------------------------------------------------------------------------
(* Cementing a block.                                                      *)

(* A block whose dependencies are resolved is the first uncemented one of
   its account. *)
LEMMA ResolvedNext ==
    ASSUME IInv, block_exists(top), ~cemented_block_exists(top),
           \A d \in Dependencies[top] : dep_resolved(d)
    PROVE  /\ top \in Hash /\ top \in stored /\ top \notin cemented
           /\ blocks[top].account \in Account
           /\ Dependencies[top] \subseteq cemented
           /\ blocks[top].height = confirmation_height[blocks[top].account].height + 1
<1> DEFINE a == blocks[top].account
           c == confirmation_height[a].height
<1>1. /\ block_exists(top) /\ ~cemented_block_exists(top)
      /\ \A d \in Dependencies[top] : dep_resolved(d)
  OBVIOUS
<1>2. top \in Hash /\ top \in stored /\ top \notin pruned /\ top \in accepted
  BY <1>1, AcceptedClosed DEF block_exists, stored, accepted
<1>3. a \in Account /\ c \in Nat /\ blocks[top].height \in Nat \ {0}
  BY <1>2, StoredFields, ConfirmedBelowHead, SMTT(30)
<1>4. top \notin cemented /\ ~(blocks[top].height <= c)
  BY <1>1, <1>2, SMTT(30) DEF cemented, cemented_block_exists_or_pruned, cemented_block_exists
<1>5. Dependencies[top] \subseteq cemented
  <2> SUFFICES ASSUME NEW d \in Dependencies[top] PROVE d \in cemented
    BY SMTT(30)
  <2>1. d \in accepted /\ d \in Hash
    BY <1>2, AcceptedClosed, DependenciesType, SMTT(30)
  <2> QED BY <1>1, <2>1 DEF accepted, stored, dep_resolved, cemented, cemented_block_exists_or_pruned
<1>6. blocks[top].height = c + 1
  <2>1. CASE Block[top].previous = Zero
    <3>1. blocks[top].height = 1
      BY <1>2, <2>1 DEF IInv, Linked
    <3> QED BY <1>3, <1>4, <3>1, SMTT(30)
  <2>2. CASE Block[top].previous # Zero
    <3>1. Block[top].previous \in cemented /\ Block[top].previous \notin pruned
      <4>1. Block[top].previous \in Hash
        BY <1>2, <2>2, BlockFields, SMTT(30) DEF Hash0
      <4> QED BY <1>2, <1>4, <1>5, <4>1, DependenciesType DEF IInv, PrunedBelow
    <3>2. Block[top].previous \in stored
      BY <3>1, AcceptedClosed DEF accepted
    <3>3. /\ blocks[Block[top].previous].account = a
          /\ blocks[Block[top].previous].height + 1 = blocks[top].height
      BY <1>2, <2>2, <3>2 DEF IInv, Linked
    <3>4. blocks[Block[top].previous].height \in Nat /\ blocks[Block[top].previous].height <= c
      BY <3>1, <3>2, <3>3, StoredFields, CementedStored, SMTT(30)
    <3> QED BY <1>3, <1>4, <3>3, <3>4, SMTT(30)
  <2> QED BY <2>1, <2>2
<1> QED BY <1>2, <1>3, <1>4, <1>5, <1>6, SMTT(30)

(* The block that is cemented is the first uncemented one of its account. *)
LEMMA ResolvesNext ==
    ASSUME IInv, CementResolve
    PROVE  /\ top \in Hash /\ top \in stored /\ top \notin cemented
           /\ blocks[top].account \in Account
           /\ Dependencies[top] \subseteq cemented
           /\ blocks[top].height = confirmation_height[blocks[top].account].height + 1
<1>1. /\ block_exists(top) /\ ~cemented_block_exists(top)
      /\ \A d \in Dependencies[top] : dep_resolved(d)
  BY DEF CementResolve
<1> QED BY <1>1, ResolvedNext

(* The sets of blocks after the top of the stack was cemented. *)
LEMMA ResolveSets ==
    ASSUME IInv, CementResolve
    PROVE  /\ stored' = stored /\ accepted' = accepted /\ cemented' = cemented \cup {top}
           /\ blocks' = blocks /\ accounts' = accounts /\ pending' = pending /\ pruned' = pruned
           /\ confirmation_height'[blocks[top].account] =
                 [height |-> blocks[top].height, frontier |-> top]
           /\ \A b \in Account : b # blocks[top].account =>
                 confirmation_height'[b] = confirmation_height[b]
<1> DEFINE a == blocks[top].account
<1>1. /\ top \in Hash /\ top \in stored /\ top \notin cemented /\ a \in Account
      /\ blocks[top].height = confirmation_height[a].height + 1
  BY ResolvesNext
<1>2. /\ blocks' = blocks /\ accounts' = accounts /\ pending' = pending /\ pruned' = pruned
      /\ confirmation_height' = [confirmation_height EXCEPT
            ![a] = [height |-> blocks[top].height, frontier |-> top]]
  BY DEF CementResolve, cement_one, tables
<1>3. /\ confirmation_height'[a] = [height |-> blocks[top].height, frontier |-> top]
      /\ \A b \in Account : b # a => confirmation_height'[b] = confirmation_height[b]
  BY <1>1, <1>2 DEF IInv, TypeOK
<1>4. stored' = stored /\ accepted' = accepted
  BY <1>2 DEF stored, accepted, block_exists
<1>5. ASSUME NEW x \in stored, x \notin pruned
      PROVE  x \in cemented' <=> x \in cemented \/ x = top
  <2>1. x \in cemented <=> blocks[x].height <= confirmation_height[blocks[x].account].height
    BY <1>5, CementedStored
  <2>2. x \in cemented' <=> blocks[x].height <= confirmation_height'[blocks[x].account].height
    BY <1>2, <1>4, <1>5 DEF cemented, cemented_block_exists_or_pruned, cemented_block_exists, stored,
       block_exists
  <2>3. /\ blocks[x].account \in Account /\ blocks[x].height \in Nat
        /\ confirmation_height[a].height \in Nat
    BY <1>1, <1>5, StoredFields, ConfirmedBelowHead, SMTT(30)
  <2>4. CASE blocks[x].account # a
    BY <1>1, <1>3, <2>1, <2>2, <2>3, <2>4
  <2>5. CASE blocks[x].account = a
    <3>1. x \in cemented' <=> blocks[x].height <= blocks[top].height
      BY <1>3, <2>2, <2>5, SMTT(30)
    <3>2. blocks[x].height = blocks[top].height <=> x = top
      BY <1>1, <1>5, <2>5 DEF IInv, Heights
    <3> QED BY <1>1, <2>1, <2>3, <2>5, <3>1, <3>2, SMTT(30)
  <2> QED BY <2>4, <2>5, SMTT(30)
<1>6. cemented' = cemented \cup {top}
  <2>1. pruned \subseteq cemented /\ pruned \subseteq cemented'
    BY <1>2 DEF cemented, cemented_block_exists_or_pruned, IInv, TypeOK
  <2>2. cemented \subseteq stored \cup pruned /\ cemented' \subseteq stored \cup pruned
    BY <1>2, <1>4 DEF cemented, cemented_block_exists_or_pruned, cemented_block_exists, stored,
       block_exists
  <2> QED BY <1>1, <1>5, <2>1, <2>2
<1> QED BY <1>2, <1>3, <1>4, <1>6

(* The counters of cemented and pruned blocks. *)
LEMMA CementedCounter ==
    ASSUME NEW c \in Counters
    PROVE  /\ [c EXCEPT !.cemented_count = @ + 1] \in Counters
           /\ [c EXCEPT !.pruned_count = @ + 1] \in Counters
<1>1. c.cemented_count + 1 \in Int /\ c.pruned_count + 1 \in Int
  BY CountersFields, SMTT(30)
<1>2. ASSUME NEW n \in Int PROVE [c EXCEPT !.cemented_count = n] \in Counters
  BY DEF Counters
<1>3. ASSUME NEW n \in Int PROVE [c EXCEPT !.pruned_count = n] \in Counters
  BY DEF Counters
<1> QED BY <1>1, <1>2, <1>3

(* Taking the last entry off a sequence. *)
LEMMA FrontType ==
    ASSUME NEW S, NEW s \in Seq(S), s # <<>>
    PROVE  /\ Front(s) \in Seq(S) /\ Len(Front(s)) = Len(s) - 1
           /\ Last(s) \in S /\ Len(s) \in Nat \ {0}
<1>1. Len(s) \in Nat \ {0}
  BY EmptySeq
<1>2. \A i \in 1 .. Len(s) : s[i] \in S
  BY ElementOfSeq
<1>3. Len(s) - 1 \in Int /\ \A i \in 1 .. Len(s) - 1 : s[i] \in S
  BY <1>1, <1>2, SMTT(30)
<1>4. /\ SubSeq(s, 1, Len(s) - 1) \in Seq(S)
      /\ Len(SubSeq(s, 1, Len(s) - 1)) = IF 1 <= Len(s) - 1 THEN Len(s) - 1 - 1 + 1 ELSE 0
  BY <1>3, SubSeqProperties, SMTT(30)
<1>5. Len(SubSeq(s, 1, Len(s) - 1)) = Len(s) - 1
  <2>1. ASSUME NEW n \in Nat \ {0}
        PROVE  (IF 1 <= n - 1 THEN n - 1 - 1 + 1 ELSE 0) = n - 1
    BY SMTT(30)
  <2> QED BY <1>1, <1>4, <2>1
<1>6. s[Len(s)] \in S
  BY <1>1, <1>2, SMTT(30)
<1> QED BY <1>1, <1>4, <1>5, <1>6 DEF Front, Last

(* Cementing a block preserves the invariant. *)
LEMMA ResolveIInv ==
    ASSUME IInv, CementResolve
    PROVE  IInv'
<1> DEFINE a == blocks[top].account
<1>1. /\ top \in Hash /\ top \in stored /\ top \notin cemented /\ a \in Account
      /\ Dependencies[top] \subseteq cemented
      /\ blocks[top].height = confirmation_height[a].height + 1
  BY ResolvesNext
<1>2. /\ stored' = stored /\ accepted' = accepted /\ cemented' = cemented \cup {top}
      /\ blocks' = blocks /\ accounts' = accounts /\ pending' = pending /\ pruned' = pruned
      /\ confirmation_height'[a] = [height |-> blocks[top].height, frontier |-> top]
      /\ \A b \in Account : b # a => confirmation_height'[b] = confirmation_height[b]
  BY ResolveSets
<1>3. /\ confirmation_height'[a].height = confirmation_height[a].height + 1
      /\ confirmation_height'[a].frontier = top
      /\ \A b \in Account : confirmation_height[b].height \in Nat
      /\ \A b \in Account : confirmation_height'[b].height \in Nat
      /\ \A b \in Account : confirmation_height[b].height <= confirmation_height'[b].height
  <2>1. \A b \in Account : confirmation_height[b].height \in Nat
    BY ConfirmedBelowHead
  <2>2. /\ confirmation_height'[a].height = confirmation_height[a].height + 1
        /\ confirmation_height'[a].frontier = top
    BY <1>1, <1>2, SMTT(30)
  <2> QED BY <1>1, <1>2, <2>1, <2>2, SMTT(30)
<1>4. TypeOK'
  <2>1. cement_stack # <<>>
    BY DEF CementResolve, IInv, Control
  <2>2. Front(cement_stack) \in Seq(Hash)
    BY <2>1, FrontType DEF IInv, TypeOK
  <2>3. cement_stack' \in {Front(cement_stack), <<>>, cement_stack} /\ writer' \in {"none", "cement"}
    BY DEF CementResolve, CementPop
  <2>4. cement_stack' \in Seq(Hash)
    BY <2>2, <2>3, EmptySeq DEF IInv, TypeOK
  <2>5. confirmation_height' \in [Account -> [height : Nat, frontier : Hash0]]
    <3>1. [height |-> blocks[top].height, frontier |-> top] \in [height : Nat, frontier : Hash0]
      BY <1>1, StoredFields DEF Hash0
    <3> QED BY <3>1 DEF CementResolve, cement_one, IInv, TypeOK
  <2>6. cache' \in Counters
    BY CementedCounter DEF CementResolve, cement_one, IInv, TypeOK
  <2>7. cement_count' \in Nat
    BY SMTT(30) DEF CementResolve, cement_one, IInv, TypeOK
  <2>8. UNCHANGED <<tables, rollbackVars, cement_target, prune_hash, failed>>
    BY DEF CementResolve
  <2> QED BY <2>3, <2>4, <2>5, <2>6, <2>7, <2>8 DEF IInv, TypeOK, tables, rollbackVars
<1>5. Heights' /\ Linked' /\ Heads'
  BY <1>2, SMTT(30) DEF IInv, Heights, Linked, Heads
<1>6. Derived'
  BY <1>2 DEF IInv, Derived, block_balance, block_exists
<1>7. Receipts'
  BY <1>2 DEF IInv, Receipts
<1>8. Confirmed'
  <2>1. \A b \in Account : confirmation_height[b].height > 0 =>
            /\ confirmation_height[b].frontier \in stored
            /\ blocks[confirmation_height[b].frontier].account = b
            /\ blocks[confirmation_height[b].frontier].height = confirmation_height[b].height
    BY DEF IInv, Confirmed
  <2>2. \A x \in stored : x \in cemented => Dependencies[x] \subseteq cemented
    BY DEF IInv, Confirmed
  <2> QED BY <1>1, <1>2, <1>3, <2>1, <2>2, SMTT(30) DEF Confirmed
<1>9. PrunedBelow'
  <2>1. /\ genesis \in stored /\ genesis \in cemented
        /\ \A x \in pruned :
            /\ x \notin stored
            /\ Dependencies[x] \subseteq cemented
            /\ Block[x].previous = Zero =>
                  /\ Block[x].account \in Account
                  /\ confirmation_height[Block[x].account].height > 0
        /\ \A x \in stored : Block[x].previous \in pruned => x \in cemented
    BY DEF IInv, PrunedBelow
  <2>2. ASSUME NEW x \in pruned, Block[x].previous \in stored
        PROVE  blocks[Block[x].previous].height
                  < confirmation_height'[blocks[Block[x].previous].account].height
    <3>1. /\ blocks[Block[x].previous].height \in Nat
          /\ blocks[Block[x].previous].account \in Account
      BY <2>2, StoredFields
    <3>2. blocks[Block[x].previous].height
            < confirmation_height[blocks[Block[x].previous].account].height
      BY <2>2 DEF IInv, PrunedBelow
    <3> QED BY <1>3, <3>1, <3>2, SMTT(30)
  <2>3. ASSUME NEW x \in pruned, Block[x].previous = Zero
        PROVE  confirmation_height'[Block[x].account].height > 0
    BY <1>3, <2>1, <2>3, SMTT(30)
  <2> QED BY <1>2, <2>1, <2>2, <2>3 DEF PrunedBelow
<1>10. Control'
  <2>1. /\ rollback_stack' = rollback_stack /\ prune_hash' = prune_hash
        /\ writer' \in {"none", "cement"} /\ (writer' = "cement" => cement_stack' # <<>>)
    BY DEF CementResolve, CementPop, rollbackVars
  <2>2. ASSUME prune_hash # Zero
        PROVE  /\ prune_hash \in stored /\ prune_hash # genesis
               /\ blocks[prune_hash].height < confirmation_height'[blocks[prune_hash].account].height
    <3>1. /\ prune_hash \in stored /\ prune_hash # genesis
          /\ blocks[prune_hash].height < confirmation_height[blocks[prune_hash].account].height
      BY <2>2 DEF IInv, Control
    <3>2. blocks[prune_hash].height \in Nat /\ blocks[prune_hash].account \in Account
      BY <3>1, StoredFields
    <3> QED BY <1>3, <3>1, <3>2, SMTT(30)
  <2> QED BY <1>2, <2>1, <2>2 DEF Control
<1> QED BY <1>4, <1>5, <1>6, <1>7, <1>8, <1>9, <1>10, SMTT(30) DEF IInv

-----------------------------------------------------------------------------
(* Pruning a block.                                                        *)

(* A pruned block stays accepted and cemented. *)
LEMMA PruneSets ==
    ASSUME IInv, PruneStep
    PROVE  /\ prune_hash \in Hash /\ prune_hash \in stored /\ prune_hash # genesis
           /\ prune_hash \in cemented /\ blocks[prune_hash].account \in Account
           /\ blocks[prune_hash].height < confirmation_height[blocks[prune_hash].account].height
           /\ stored' = stored \ {prune_hash} /\ pruned' = pruned \cup {prune_hash}
           /\ accepted' = accepted /\ cemented' = cemented
           /\ \A x \in stored' : x # prune_hash /\ blocks'[x] = blocks[x]
           /\ accounts' = accounts /\ pending' = pending
           /\ confirmation_height' = confirmation_height
<1>1. prune_hash \in Hash /\ prune_hash \in stored /\ prune_hash # Zero
  BY UniverseAssumption DEF PruneStep, cemented_block_exists, stored, block_exists
<1>2. /\ prune_hash # genesis /\ blocks[prune_hash].account \in Account
      /\ blocks[prune_hash].height < confirmation_height[blocks[prune_hash].account].height
  BY <1>1, StoredFields DEF IInv, Control
<1>3. prune_hash \in cemented
  BY <1>1 DEF PruneStep, cemented, cemented_block_exists_or_pruned
<1>4. /\ blocks' = [blocks EXCEPT ![prune_hash] = NoSideband]
      /\ pruned' = pruned \cup {prune_hash} /\ accounts' = accounts /\ pending' = pending
      /\ confirmation_height' = confirmation_height
  BY DEF PruneStep, cementVars
<1>5. /\ blocks'[prune_hash].height = 0 /\ \A x \in Hash : x # prune_hash => blocks'[x] = blocks[x]
  BY <1>1, <1>4, SMTT(30) DEF IInv, TypeOK, NoSideband
<1>6. stored' = stored \ {prune_hash}
  BY <1>5 DEF stored, block_exists
<1>7. accepted' = accepted
  BY <1>1, <1>4, <1>6 DEF accepted
<1>8. cemented' = cemented
  <2>1. \A x \in Hash : x # prune_hash => (x \in cemented' <=> x \in cemented)
    BY <1>4, <1>5 DEF cemented, cemented_block_exists_or_pruned, cemented_block_exists,
       block_exists
  <2>2. prune_hash \in cemented'
    BY <1>1, <1>4 DEF cemented, cemented_block_exists_or_pruned
  <2> QED BY <1>3, <2>1, <2>2, SMTT(30) DEF cemented
<1> QED BY <1>1, <1>2, <1>3, <1>4, <1>5, <1>6, <1>7, <1>8, SMTT(30) DEF stored

(* Pruning a block preserves the invariant. *)
LEMMA PruneIInv ==
    ASSUME IInv, PruneStep
    PROVE  IInv'
<1> DEFINE p == prune_hash
           a == blocks[p].account
<1>1. /\ p \in Hash /\ p \in stored /\ p # genesis /\ p \in cemented /\ a \in Account
      /\ blocks[p].height < confirmation_height[a].height
      /\ stored' = stored \ {p} /\ pruned' = pruned \cup {p}
      /\ accepted' = accepted /\ cemented' = cemented
      /\ \A x \in stored' : x # p /\ blocks'[x] = blocks[x]
      /\ accounts' = accounts /\ pending' = pending
      /\ confirmation_height' = confirmation_height
  BY PruneSets
<1>2. /\ p # Zero /\ Zero \notin stored /\ stored \subseteq Hash
      /\ blocks[p].height \in Nat \ {0} /\ confirmation_height[a].height \in Nat
      /\ confirmation_height[a].height <= accounts[a].block_count
      /\ accounts[a].block_count \in Int
  BY <1>1, StoredFields, ConfirmedBelowHead, UniverseAssumption, SMTT(30) DEF stored
<1>3. TypeOK'
  <2>1. blocks' \in [Hash -> Sideband]
    <3>1. NoSideband \in Sideband
      BY SMTT(30) DEF NoSideband, Sideband, Account0
    <3> QED BY <3>1 DEF PruneStep, IInv, TypeOK
  <2>2. cache' \in Counters
    BY CementedCounter DEF PruneStep, IInv, TypeOK
  <2>3. pruned' \subseteq Hash
    BY <1>1 DEF IInv, TypeOK
  <2>4. prune_hash' \in Hash0
    <3>1. Block[p].previous \in Hash0
      BY <1>1, BlockFields
    <3> QED BY <3>1 DEF PruneStep, prune_next, Hash0
  <2>5. writer' \in {"none", "prune"}
    BY DEF PruneStep
  <2> QED BY <2>1, <2>2, <2>3, <2>4, <2>5 DEF PruneStep, IInv, TypeOK, rollbackVars, cementVars
<1>4. Heights'
  BY <1>1, SMTT(30) DEF IInv, Heights
<1>5. Linked'
  BY <1>1, <1>2, SMTT(30) DEF IInv, Linked
<1>6. Derived'
  <2>1. ASSUME NEW x \in stored', Block[x].previous # p
        PROVE  block_balance(Block[x].previous)' = block_balance(Block[x].previous)
    <3>1. Block[x].previous \in stored <=> Block[x].previous \in stored'
      BY <1>1, <2>1
    <3> QED BY <1>1, <2>1, <3>1 DEF block_balance, block_exists, stored
  <2>2. ASSUME NEW x \in stored
        PROVE  /\ Block[x].type \in {"open", "state"} => Block[x].account = blocks[x].account
               /\ Block[x].type = "state" => blocks[x].balance = Block[x].balance
               /\ blocks[x].is_send => Block[x].link \notin Hash
               /\ ~blocks[x].is_send => Block[x].link \in Hash \cup {Zero} \cup EpochLink
               /\ Block[x].previous \notin pruned =>
                     (blocks[x].is_send <=>
                         \/ Block[x].type = "send"
                         \/ /\ Block[x].type = "state"
                            /\ Block[x].balance < block_balance(Block[x].previous))
    BY DEF IInv, Derived
  <2> QED BY <1>1, <2>1, <2>2, SMTT(30) DEF Derived
<1>7. Heads'
  <2>1. ASSUME NEW b \in Account, accounts[b].head # Zero
        PROVE  accounts[b].head # p /\ accounts[b].head \in stored
    BY <1>1, <1>2, <2>1, SMTT(30) DEF IInv, Heads
  <2> QED BY <1>1, <2>1, SMTT(30) DEF IInv, Heads
<1>8. Receipts'
  BY <1>1 DEF IInv, Receipts
<1>9. Confirmed'
  <2>1. \A b \in Account : confirmation_height[b].height > 0 =>
            /\ confirmation_height[b].frontier \in stored /\ confirmation_height[b].frontier # p
            /\ blocks[confirmation_height[b].frontier].account = b
            /\ blocks[confirmation_height[b].frontier].height = confirmation_height[b].height
    BY <1>1, <1>2, SMTT(30) DEF IInv, Confirmed
  <2>2. \A x \in stored : x \in cemented => Dependencies[x] \subseteq cemented
    BY DEF IInv, Confirmed
  <2> QED BY <1>1, <2>1, <2>2 DEF Confirmed
<1>10. Block[p].previous \in stored =>
          /\ blocks[Block[p].previous].account = a
          /\ blocks[Block[p].previous].height + 1 = blocks[p].height
          /\ blocks[Block[p].previous].height \in Nat
  BY <1>1, <1>2, StoredFields DEF IInv, Linked
<1>11. PrunedBelow'
  <2>1. /\ genesis \in stored /\ genesis \in cemented
        /\ \A x \in pruned :
            /\ x \notin stored
            /\ Dependencies[x] \subseteq cemented
            /\ Block[x].previous \in stored =>
                  blocks[Block[x].previous].height
                    < confirmation_height[blocks[Block[x].previous].account].height
            /\ Block[x].previous = Zero =>
                  /\ Block[x].account \in Account
                  /\ confirmation_height[Block[x].account].height > 0
        /\ \A x \in stored : Block[x].previous \in pruned => x \in cemented
    BY DEF IInv, PrunedBelow
  <2>2. Dependencies[p] \subseteq cemented
    BY <1>1 DEF IInv, Confirmed
  <2>3. Block[p].previous \in stored =>
          blocks[Block[p].previous].height
            < confirmation_height[blocks[Block[p].previous].account].height
    BY <1>1, <1>2, <1>10, SMTT(30)
  <2>4. Block[p].previous = Zero =>
          Block[p].account \in Account /\ confirmation_height[Block[p].account].height > 0
    BY <1>1, <1>2, SMTT(30) DEF IInv, Linked
  <2>5. ASSUME NEW x \in stored, Block[x].previous = p PROVE x \in cemented
    <3>1. blocks[x].account = a /\ blocks[p].height + 1 = blocks[x].height
      BY <1>1, <1>2, <2>5 DEF IInv, Linked
    <3>2. blocks[x].height <= confirmation_height[a].height /\ x \notin pruned
      BY <1>1, <1>2, <3>1, AcceptedClosed, SMTT(30)
    <3> QED BY <3>1, <3>2, CementedStored
  <2> QED BY <1>1, <2>1, <2>2, <2>3, <2>4, <2>5 DEF PrunedBelow
<1>12. Control'
  <2>1. /\ prune_hash' = prune_next(Block[p].previous) /\ writer' \in {"none", "prune"}
        /\ prune_hash' = Zero => writer' = "none"
    BY DEF PruneStep
  <2>2. ASSUME prune_hash' # Zero
        PROVE  /\ prune_hash' \in stored' /\ prune_hash' # genesis
               /\ blocks'[prune_hash'].height < confirmation_height'[blocks'[prune_hash'].account].height
    <3>1. /\ prune_hash' = Block[p].previous
          /\ Block[p].previous \notin {Zero, genesis} \cup pruned
      BY <2>1, <2>2 DEF prune_next
    <3>2. Block[p].previous \in stored
      BY <1>1, <3>1 DEF IInv, Linked, accepted
    <3>3. Block[p].previous # p
      BY <1>2, <1>10, <3>2, SMTT(30)
    <3> QED BY <1>1, <1>2, <1>10, <3>1, <3>2, <3>3, SMTT(30)
  <2> QED BY <2>1, <2>2 DEF Control
<1> QED BY <1>3, <1>4, <1>5, <1>6, <1>7, <1>8, <1>9, <1>11, <1>12, SMTT(30) DEF IInv

-----------------------------------------------------------------------------
(* The steps that only move the control of an operation.                   *)

(* With the tables untouched only the types and the control remain to be shown. *)
LEMMA QuietIInv ==
    ASSUME IInv, UNCHANGED <<blocks, accounts, pending, pruned, confirmation_height>>,
           TypeOK', Control'
    PROVE  /\ IInv' /\ accepted' = accepted /\ cemented' = cemented
<1>1. /\ stored' = stored /\ accepted' = accepted /\ cemented' = cemented
  BY DEF stored, accepted, cemented, cemented_block_exists_or_pruned, cemented_block_exists,
     block_exists
<1>2. Heights' /\ Linked' /\ Heads'
  BY <1>1, SMTT(30) DEF IInv, Heights, Linked, Heads
<1>3. Derived'
  BY <1>1 DEF IInv, Derived, block_balance, block_exists
<1>4. Receipts'
  BY <1>1 DEF IInv, Receipts
<1>5. Confirmed' /\ PrunedBelow'
  BY <1>1 DEF IInv, Confirmed, PrunedBelow
<1> QED BY <1>1, <1>2, <1>3, <1>4, <1>5 DEF IInv

(* The steps that neither append, undo, cement nor prune a block. *)
Quiet ==
    \/ \E h \in Hash : RollbackBegin(h) \/ CementBegin(h) \/ PruneBegin(h)
    \/ RollbackReturn \/ RollbackPenetrates \/ RollbackDestination
    \/ RollbackTooDeep \/ RollbackFails
    \/ CementDescend \/ CementSkip \/ CementResume \/ PruneResume
    \/ UNCHANGED vars

(* What is on the stack of bounded_dfs after an iteration. *)
LEMMA PushType ==
    ASSUME NEW s \in Seq(Hash), s # <<>>, NEW h
    PROVE  push_unresolved(s, h) \in Seq(Hash) /\ push_unresolved(s, h) # <<>>
<1>1. CASE dep_resolved(h)
  BY <1>1 DEF push_unresolved
<1>2. CASE ~dep_resolved(h)
  <2>1. h \in Hash
    BY <1>2 DEF dep_resolved, block_exists
  <2>2. PICK t \in Seq(Hash) : push_unresolved(s, h) = Append(t, h)
    BY <1>2, HeadTailProperties DEF push_unresolved, push
  <2> QED BY <2>1, <2>2, AppendProperties, SMTT(30)
<1> QED BY <1>1, <1>2

(* The same, with the types and the control spelled out. *)
LEMMA QuietControl ==
    ASSUME IInv, UNCHANGED <<tables, cache, confirmation_height>>,
           writer' \in {"none", "rollback", "cement", "prune"},
           rollback_stack' \in Seq(Hash), rollback_list' \subseteq Hash,
           cement_target' \in Hash0, cement_stack' \in Seq(Hash), cement_count' \in Nat,
           failed' \in BOOLEAN, prune_hash' \in Hash0,
           writer' = "rollback" => rollback_stack' # <<>>,
           writer' = "cement" => cement_stack' # <<>>,
           writer' = "prune" => prune_hash' # Zero,
           prune_hash' \notin {Zero, prune_hash} =>
              /\ prune_hash' \in stored /\ prune_hash' # genesis
              /\ blocks[prune_hash'].height < confirmation_height[blocks[prune_hash'].account].height
    PROVE  /\ IInv' /\ accepted' = accepted /\ cemented' = cemented
<1>1. UNCHANGED <<blocks, successor, accounts, pending, rep_weights, pruned, cache,
                  confirmation_height>>
  BY DEF tables
<1>2. TypeOK'
  BY <1>1 DEF IInv, TypeOK
<1>3. stored' = stored
  BY <1>1 DEF stored, block_exists
<1>4. prune_hash # Zero =>
        /\ prune_hash \in stored /\ prune_hash # genesis
        /\ blocks[prune_hash].height < confirmation_height[blocks[prune_hash].account].height
  BY DEF IInv, Control
<1>5. Control'
  BY <1>1, <1>3, <1>4, SMTT(30) DEF Control
<1> QED BY <1>1, <1>2, <1>5, QuietIInv

(* Steps of control preserve the invariant and the lattice. *)
LEMMA QuietStep ==
    ASSUME IInv, Quiet
    PROVE  /\ IInv' /\ accepted' = accepted /\ cemented' = cemented
<1>1. /\ writer \in {"none", "rollback", "cement", "prune"}
      /\ rollback_stack \in Seq(Hash) /\ rollback_list \subseteq Hash
      /\ cement_target \in Hash0 /\ cement_stack \in Seq(Hash) /\ cement_count \in Nat
      /\ prune_hash \in Hash0 /\ failed \in BOOLEAN
      /\ writer = "rollback" => rollback_stack # <<>>
      /\ writer = "cement" => cement_stack # <<>>
      /\ writer = "prune" => prune_hash # Zero
  BY SMTT(30) DEF IInv, TypeOK, Control
<1>2. ASSUME NEW h \in Hash, RollbackBegin(h)
      PROVE  IInv' /\ accepted' = accepted /\ cemented' = cemented
  <2>1. <<h>> \in Seq(Hash) /\ <<h>> # <<>>
    BY SMTT(30)
  <2> QED BY <1>1, <1>2, <2>1, QuietControl DEF RollbackBegin, cementVars
<1>3. ASSUME NEW h \in Hash, CementBegin(h)
      PROVE  IInv' /\ accepted' = accepted /\ cemented' = cemented
  <2>1. <<h>> \in Seq(Hash) /\ <<h>> # <<>> /\ h \in Hash0
    BY SMTT(30) DEF Hash0
  <2> QED BY <1>1, <1>3, <2>1, QuietControl DEF CementBegin, rollbackVars
<1>4. ASSUME NEW h \in Hash, PruneBegin(h)
      PROVE  IInv' /\ accepted' = accepted /\ cemented' = cemented
  <2> DEFINE c == confirmation_height[blocks[h].account]
  <2>1. /\ h \in stored /\ h # genesis /\ h # Zero /\ h \in Hash0
        /\ c.frontier # h /\ blocks[h].height <= c.height
    BY <1>4, UniverseAssumption DEF PruneBegin, cemented_block_exists, stored, prune_next, Hash0
  <2>2. blocks[h].height \in Nat \ {0} /\ blocks[h].account \in Account /\ c.height \in Nat
    BY <2>1, StoredFields, ConfirmedBelowHead, SMTT(30)
  <2>3. /\ c.frontier \in stored /\ blocks[c.frontier].account = blocks[h].account
        /\ blocks[c.frontier].height = c.height
    BY <2>1, <2>2, SMTT(30) DEF IInv, Confirmed
  <2>4. blocks[h].height # c.height
    BY <2>1, <2>3 DEF IInv, Heights
  <2>5. blocks[h].height < c.height
    BY <2>1, <2>2, <2>4, SMTT(30)
  <2> QED BY <1>1, <1>4, <2>1, <2>5, QuietControl, SMTT(30) DEF PruneBegin, rollbackVars, cementVars
<1>5. ASSUME RollbackEnd, failed' \in BOOLEAN
      PROVE  IInv' /\ accepted' = accepted /\ cemented' = cemented
  <2>1. <<>> \in Seq(Hash)
    BY EmptySeq
  <2> QED BY <1>1, <1>5, <2>1, QuietControl DEF RollbackEnd, cementVars
<1>6. CASE RollbackReturn
  <2>1. CASE Len(rollback_stack) = 1
    BY <1>1, <1>5, <1>6, <2>1, SMTT(30) DEF RollbackReturn
  <2>2. CASE Len(rollback_stack) # 1
    <3>1. writer = "rollback" /\ rollback_stack' = Front(rollback_stack)
      BY <1>6, <2>2, SMTT(30) DEF RollbackReturn
    <3>2. /\ Front(rollback_stack) \in Seq(Hash)
          /\ Len(Front(rollback_stack)) = Len(rollback_stack) - 1
          /\ Len(rollback_stack) \in Nat \ {0}
      BY <1>1, <3>1, FrontType
    <3>3. Front(rollback_stack) # <<>>
      BY <2>2, <3>2, EmptySeq, SMTT(30)
    <3> QED BY <1>1, <1>6, <2>2, <3>1, <3>2, <3>3, QuietControl DEF RollbackReturn, cementVars
  <2> QED BY <2>1, <2>2
<1>7. CASE RollbackPenetrates \/ RollbackTooDeep \/ RollbackFails
  BY <1>1, <1>5, <1>7 DEF RollbackPenetrates, RollbackTooDeep, RollbackFails
<1>8. CASE RollbackDestination
  <2>1. PICK h \in Hash : rollback_stack' = Append(rollback_stack, h)
    BY <1>8, SMTT(30) DEF RollbackDestination, block_exists
  <2>2. rollback_stack' \in Seq(Hash) /\ rollback_stack' # <<>>
    BY <1>1, <2>1, AppendProperties, SMTT(30)
  <2> QED BY <1>1, <1>8, <2>2, QuietControl DEF RollbackDestination, cementVars
<1>9. CASE CementDescend
  <2>1. cement_stack # <<>>
    BY <1>1, <1>9, SMTT(30) DEF CementDescend
  <2>2. cement_stack' \in Seq(Hash) /\ cement_stack' # <<>>
    BY <1>1, <1>9, <2>1, PushType DEF CementDescend
  <2> QED BY <1>1, <1>9, <2>2, QuietControl DEF CementDescend, rollbackVars
<1>10. CASE CementSkip \/ CementResume
  <2>1. cement_stack # <<>>
    BY <1>1, <1>10 DEF CementSkip, CementResume
  <2>2. Front(cement_stack) \in Seq(Hash) /\ <<>> \in Seq(Hash)
    BY <1>1, <2>1, FrontType, EmptySeq
  <2>3. PICK s \in {Front(cement_stack), <<>>} : CementPop(s)
    BY <1>10, SMTT(30) DEF CementSkip, CementResume
  <2>4. /\ cement_stack' \in Seq(Hash) /\ writer' \in {"none", "cement"}
        /\ writer' = "cement" => cement_stack' # <<>>
    BY <2>2, <2>3 DEF CementPop
  <2> QED BY <1>1, <1>10, <2>4, QuietControl, SMTT(30) DEF CementSkip, CementResume, rollbackVars
<1>11. CASE PruneResume
  BY <1>1, <1>11, QuietControl DEF PruneResume, rollbackVars, cementVars
<1>12. CASE UNCHANGED vars
  BY <1>1, <1>12, QuietControl, SMTT(30) DEF vars, rollbackVars, cementVars
<1> QED BY <1>2, <1>3, <1>4, <1>6, <1>7, <1>8, <1>9, <1>10, <1>11, <1>12 DEF Quiet

-----------------------------------------------------------------------------
(* Every step.                                                             *)

(* What the bodies of process and of rollback amount to: module LedgerProofs
   shows that every step from a state of the invariant is one of these. *)
Step ==
    /\ [Next]_vars
    /\ \A h \in Hash : Process(h) => \E a, sb, info : Appends(h, a, sb, info)
    /\ UndoSend \/ UndoReceive \/ UndoChange \/ UndoState => \E h, a, info : Undoes(h, a, info)

(* Every step of the ledger has one of these shapes. *)
LEMMA StepShapes ==
    ASSUME Step
    PROVE  \/ \E h \in Hash : Process(h)
           \/ UndoSend \/ UndoReceive \/ UndoChange \/ UndoState
           \/ CementResolve \/ PruneStep \/ Quiet
  BY DEF Step, Next, Rollback, Cement, Prune, Aborted, Quiet

(* Every step preserves the invariant and is a step of the lattice. *)
LEMMA Inductive ==
    ASSUME IInv, Step
    PROVE  IInv' /\ [Lattice!Next]_(Lattice!vars)
<1>1. ASSUME NEW h \in Hash, Process(h) PROVE IInv' /\ Lattice!Accept(h)
  <2>1. PICK a, sb, info : Appends(h, a, sb, info)
    BY <1>1 DEF Step
  <2>2. IInv'
    BY <2>1, AppendsIInv
  <2>3. h \notin accepted
    BY <2>1, SMTT(30) DEF Appends
  <2> QED BY <2>1, <2>2, <2>3, AppendsSets, AppendsAccept, SMTT(30) DEF Lattice!Accept
<1>2. ASSUME UndoSend \/ UndoReceive \/ UndoChange \/ UndoState
      PROVE  IInv' /\ \E h \in Hash : Lattice!Discard(h)
  <2>1. PICK h, a, info : Undoes(h, a, info)
    BY <1>2 DEF Step
  <2>2. IInv'
    BY <2>1, UndoesIInv, SMTT(30)
  <2>3. h \in Hash /\ \A x \in accepted : Block[x].previous # h /\ Block[x].link # h
    BY <2>1, UndoesDiscard, SMTT(30)
  <2>4. \A x \in accepted : h \notin Dependencies[x]
    BY <2>3, DependenciesType DEF IInv, TypeOK, accepted, stored
  <2>5. h \in accepted \ cemented
    BY <2>1, SMTT(30) DEF Undoes, accepted
  <2>6. accepted' = accepted \ {h} /\ cemented' = cemented
    BY <2>1, UndoesSets
  <2> QED BY <2>2, <2>3, <2>4, <2>5, <2>6, SMTT(30) DEF Lattice!Discard
<1>3. ASSUME CementResolve PROVE IInv' /\ \E h \in Hash : Lattice!Cement(h)
  <2>1. IInv'
    BY <1>3, ResolveIInv, SMTT(30)
  <2>2. top \in Hash /\ top \in stored /\ top \notin cemented /\ Dependencies[top] \subseteq cemented
    BY <1>3, ResolvesNext
  <2>3. cemented' = cemented \cup {top} /\ accepted' = accepted
    BY <1>3, ResolveSets
  <2> QED BY <2>1, <2>2, <2>3 DEF Lattice!Cement, accepted
<1>4. ASSUME PruneStep PROVE IInv' /\ UNCHANGED <<accepted, cemented>>
  BY <1>4, PruneIInv, PruneSets, SMTT(30)
<1>5. ASSUME Quiet PROVE IInv' /\ UNCHANGED <<accepted, cemented>>
  BY <1>5, QuietStep, SMTT(30)
<1> QED BY <1>1, <1>2, <1>3, <1>4, <1>5, StepShapes DEF Lattice!Next, Lattice!vars

(* A step appends a block, undoes one, prunes one or leaves the tables. *)
LEMMA TableSteps ==
    ASSUME IInv, Step
    PROVE  \/ \E h, a, sb, info : Appends(h, a, sb, info)
           \/ \E h, a, info : Undoes(h, a, info)
           \/ PruneStep
           \/ UNCHANGED tables
<1>1. (\E h \in Hash : Process(h)) => \E h, a, sb, info : Appends(h, a, sb, info)
  BY DEF Step
<1>2. UndoSend \/ UndoReceive \/ UndoChange \/ UndoState => \E h, a, info : Undoes(h, a, info)
  BY DEF Step
<1>3. CementResolve => UNCHANGED tables
  BY DEF CementResolve
<1>4. RollbackEnd => UNCHANGED tables
  BY DEF RollbackEnd
<1>5. Quiet => UNCHANGED tables
  BY <1>4 DEF Quiet, RollbackBegin, CementBegin, PruneBegin, RollbackReturn, RollbackPenetrates,
     RollbackDestination, RollbackTooDeep, RollbackFails, CementDescend, CementSkip,
     CementResume, PruneResume, vars
<1> QED BY <1>1, <1>2, <1>3, <1>5, StepShapes

(* Steps that leave the tables leave the sets of blocks. *)
LEMMA SameTables ==
    ASSUME UNCHANGED tables
    PROVE  /\ blocks' = blocks /\ successor' = successor /\ accounts' = accounts
           /\ pending' = pending /\ rep_weights' = rep_weights /\ pruned' = pruned
           /\ stored' = stored /\ accepted' = accepted
<1>1. /\ blocks' = blocks /\ successor' = successor /\ accounts' = accounts
      /\ pending' = pending /\ rep_weights' = rep_weights /\ pruned' = pruned
  BY DEF tables
<1> QED BY <1>1 DEF stored, accepted, block_exists

(* The other steps leave the tables, the heights and the counters. *)
LEMMA QuietTables ==
    ASSUME Quiet
    PROVE  UNCHANGED <<tables, confirmation_height, cache>>
<1>1. RollbackEnd => UNCHANGED <<tables, confirmation_height, cache>>
  BY DEF RollbackEnd, cementVars
<1> QED BY <1>1 DEF Quiet, RollbackBegin, CementBegin, PruneBegin, RollbackReturn,
     RollbackPenetrates, RollbackDestination, RollbackTooDeep, RollbackFails, CementDescend,
     CementSkip, CementResume, PruneResume, vars, cementVars

-----------------------------------------------------------------------------
(* What the tables say of each other.                                      *)

(* The successor table is the inverse of previous, only heads have no
   successor, and open_block is where the chain of the account starts. *)
Successors ==
    /\ \A h \in stored : Block[h].previous # Zero => successor[Block[h].previous] = h
    /\ \A h \in Hash : successor[h] # Zero =>
          /\ h \in accepted /\ successor[h] \in accepted /\ Block[successor[h]].previous = h
    /\ \A h \in stored : h # accounts[blocks[h].account].head => successor[h] # Zero
    /\ \A a \in Account :
          IF accounts[a].head = Zero THEN accounts[a].open_block = Zero
          ELSE /\ accounts[a].open_block \in accepted
               /\ Block[accounts[a].open_block].previous = Zero
               /\ Block[accounts[a].open_block].account = a

(* Two stored blocks of an account at consecutive heights follow each other. *)
Adjacent ==
    \A g, h \in stored :
        blocks[g].account = blocks[h].account /\ blocks[g].height + 1 = blocks[h].height =>
            Block[h].previous = g

(* A send is received by the account it names, and pending until then. *)
Destinations ==
    /\ \A p \in pending : p.hash \in stored => p.account = Block[p.hash].link
    /\ \A g \in stored : Block[g].link \in stored => Block[Block[g].link].link = blocks[g].account
    /\ \A h \in stored : blocks[h].is_send /\ (\A g \in accepted : Block[g].link # h) =>
          \E p \in pending : p.hash = h

(* ledger::version of the stored blocks. *)
versions == [h \in Hash |-> IF Block[h].type = "state" THEN blocks[h].epoch ELSE 0]

(* Accounts and pending entries have the epoch of their block, legacy blocks
   follow legacy blocks, and a receive remembers the epoch of its source. *)
EpochRows ==
    /\ \A a \in Account : accounts[a].head # Zero => accounts[a].epoch = versions[accounts[a].head]
    /\ \A h \in stored : Block[h].type # "state" /\ Block[h].previous \in stored =>
          Block[Block[h].previous].type # "state"
    /\ \A p \in pending : p.hash \in stored => p.epoch = versions[p.hash]
    /\ \A g \in stored : Block[g].link \in stored =>
          versions[Block[g].link] = IF Block[g].type = "state" THEN blocks[g].source_epoch ELSE 0

(* The balance of the account before a block. *)
before == [h \in Hash |-> block_balance(Block[h].previous)]

(* Balances are not negative, a receive adds what its source sent, a pending
   entry has the amount of its send, and no other block but the genesis block
   changes the balance. *)
Amounts ==
    /\ \A h \in stored : blocks[h].balance >= 0
    /\ \A h \in stored : Block[h].previous \notin pruned =>
          /\ Block[h].link \in Hash => blocks[h].balance >= before[h]
          /\ ~blocks[h].is_send /\ Block[h].link \notin Hash /\ h # genesis =>
                blocks[h].balance = before[h]
    /\ \A p \in pending :
          /\ p.amount >= 0
          /\ p.hash \in stored /\ Block[p.hash].previous \notin pruned =>
                p.amount = before[p.hash] - blocks[p.hash].balance
    /\ \A g \in stored :
          Block[g].link \in stored /\ Block[g].previous \notin pruned
            /\ Block[Block[g].link].previous \notin pruned =>
                blocks[g].balance - before[g] =
                    before[Block[g].link] - blocks[Block[g].link].balance

TInv == Successors /\ Adjacent /\ Destinations /\ Amounts

(* Balances before blocks are integers. *)
LEMMA BeforeType ==
    ASSUME IInv, NEW x \in Hash
    PROVE  before[x] = block_balance(Block[x].previous) /\ before[x] \in Int
<1>1. before[x] = block_balance(Block[x].previous)
  BY DEF before
<1>2. block_exists(Block[x].previous) => Block[x].previous \in stored
  BY DEF stored, block_exists
<1>3. block_balance(Block[x].previous) \in Int
  <2>1. CASE block_exists(Block[x].previous)
    BY <1>2, <2>1, StoredFields DEF block_balance
  <2>2. CASE ~block_exists(Block[x].previous)
    BY <2>2, SMTT(30) DEF block_balance
  <2> QED BY <2>1, <2>2
<1> QED BY <1>1, <1>3

-----------------------------------------------------------------------------
(* representative_block.                                                   *)

(* The heights at which an account has a stored send or receive. *)
plain == [a \in Account |-> {n \in Nat : \E y \in stored :
    blocks[y].account = a /\ blocks[y].height = n /\ Block[y].type \in {"send", "receive"}}]

(* The stored blocks that set the representative of the chain up to z: all
   blocks between them and z are stored, and sends or receives. *)
setters == [z \in Hash0 |-> {r \in stored :
    /\ z \in stored /\ blocks[r].account = blocks[z].account
    /\ Block[r].type \notin {"send", "receive"} /\ blocks[r].height <= blocks[z].height
    /\ blocks[r].height + 1 .. blocks[z].height \subseteq plain[blocks[z].account]}]

(* What it is to be a setter. *)
LEMMA SetterIff ==
    ASSUME NEW z \in Hash0, NEW r
    PROVE  r \in setters[z] <=>
             /\ r \in stored /\ z \in stored /\ blocks[r].account = blocks[z].account
             /\ Block[r].type \notin {"send", "receive"} /\ blocks[r].height <= blocks[z].height
             /\ blocks[r].height + 1 .. blocks[z].height \subseteq plain[blocks[z].account]
  BY DEF setters

(* A block that sets the representative is its own setter, and a block has
   one setter. *)
LEMMA SetterUnique ==
    ASSUME IInv, NEW z \in Hash0
    PROVE  /\ z \in stored /\ Block[z].type \notin {"send", "receive"} => z \in setters[z]
           /\ \A r, s \in setters[z] : r = s
<1> DEFINE SR == {"send", "receive"}
<1>1. ASSUME z \in stored, Block[z].type \notin SR PROVE z \in setters[z]
  <2>1. blocks[z].height \in Nat
    BY <1>1, StoredFields
  <2>2. \A n \in Nat : n <= n /\ n + 1 .. n = {}
    BY SMTT(30)
  <2>3. blocks[z].height + 1 .. blocks[z].height \subseteq plain[blocks[z].account]
    BY <2>1, <2>2
  <2> QED BY <1>1, <2>1, <2>2, <2>3, SetterIff
<1>2. ASSUME NEW r \in setters[z], NEW s \in setters[z] PROVE ~(blocks[r].height < blocks[s].height)
  <2> SUFFICES ASSUME blocks[r].height < blocks[s].height PROVE FALSE
    OBVIOUS
  <2>1. /\ r \in stored /\ z \in stored
        /\ blocks[r].height + 1 .. blocks[z].height \subseteq plain[blocks[z].account]
    BY SetterIff
  <2>2. /\ s \in stored /\ blocks[s].account = blocks[z].account
        /\ Block[s].type \notin SR /\ blocks[s].height <= blocks[z].height
    BY SetterIff
  <2>3. /\ blocks[r].height \in Nat /\ blocks[s].height \in Nat /\ blocks[z].height \in Nat
        /\ blocks[z].account \in Account
    BY <2>1, <2>2, StoredFields
  <2>4. blocks[s].height \in blocks[r].height + 1 .. blocks[z].height
    BY <2>2, <2>3, SMTT(30)
  <2>5. blocks[s].height \in plain[blocks[z].account]
    BY <2>1, <2>4
  <2>6. PICK y \in stored : /\ blocks[y].account = blocks[z].account
                            /\ blocks[y].height = blocks[s].height /\ Block[y].type \in SR
    BY <2>3, <2>5 DEF plain
  <2>7. y = s
    BY <2>2, <2>6 DEF IInv, Heights
  <2> QED BY <2>2, <2>6, <2>7
<1>3. ASSUME NEW r \in setters[z], NEW s \in setters[z] PROVE r = s
  <2>1. r \in stored /\ blocks[r].account = blocks[z].account
    BY SetterIff
  <2>2. s \in stored /\ blocks[s].account = blocks[z].account
    BY SetterIff
  <2>3. blocks[r].height \in Nat /\ blocks[s].height \in Nat
    BY <2>1, <2>2, StoredFields
  <2>4. ~(blocks[r].height < blocks[s].height) /\ ~(blocks[s].height < blocks[r].height)
    BY <1>2
  <2>5. blocks[r].height = blocks[s].height
    BY <2>3, <2>4, SMTT(30)
  <2> QED BY <2>1, <2>2, <2>5 DEF IInv, Heights
<1> QED BY <1>1, <1>3

(* A send or receive has the setter of its predecessor. *)
LEMMA SetterPrevious ==
    ASSUME IInv, Adjacent, NEW z \in stored, Block[z].type \in {"send", "receive"}, NEW r
    PROVE  r \in setters[z] <=> r \in setters[Block[z].previous]
<1> DEFINE SR == {"send", "receive"}
           a == blocks[z].account
<1>1. PICK q : q = Block[z].previous
  OBVIOUS
<1>2. z \in Hash0 /\ q \in Hash0 /\ blocks[z].height \in Nat /\ a \in Account
  BY <1>1, StoredFields, BlockFields DEF Hash0
<1>3. blocks[z].height \in plain[a]
  BY <1>2 DEF plain
<1>4. ASSUME q \in stored
      PROVE  blocks[q].account = a /\ blocks[q].height + 1 = blocks[z].height
             /\ blocks[q].height \in Nat
  <2>1. q # Zero
    BY <1>4, AcceptedFields
  <2> QED BY <1>1, <1>4, <2>1, StoredFields DEF IInv, Linked
<1>5. ASSUME r \in setters[z] PROVE r \in setters[q]
  <2>1. /\ r \in stored /\ blocks[r].account = a
        /\ Block[r].type \notin SR /\ blocks[r].height <= blocks[z].height
        /\ blocks[r].height + 1 .. blocks[z].height \subseteq plain[a]
    BY <1>2, <1>5, SetterIff
  <2>2. blocks[r].height # blocks[z].height /\ blocks[r].height \in Nat
    BY <2>1, StoredFields DEF IInv, Heights
  <2>3. PICK m \in Nat : m + 1 = blocks[z].height /\ blocks[r].height <= m
    <3>1. \A i, j \in Nat : i <= j /\ i # j => j - 1 \in Nat /\ (j - 1) + 1 = j /\ i <= j - 1
      BY SMTT(30)
    <3> QED BY <1>2, <2>1, <2>2, <3>1
  <2>4. m = blocks[r].height \/ m \in blocks[r].height + 1 .. blocks[z].height
    BY <1>2, <2>2, <2>3, SMTT(30)
  <2>5. PICK y \in stored : blocks[y].account = a /\ blocks[y].height = m
    <3>1. m \in plain[a] => \E y \in stored : blocks[y].account = a /\ blocks[y].height = m
      BY <1>2 DEF plain
    <3> QED BY <2>1, <2>4, <3>1
  <2>6. q = y
    BY <1>1, <2>3, <2>5 DEF Adjacent
  <2>7. blocks[r].height + 1 .. m \subseteq blocks[r].height + 1 .. blocks[z].height
    BY <1>2, <2>2, <2>3, SMTT(30)
  <2>8. blocks[r].height + 1 .. m \subseteq plain[a]
    BY <2>1, <2>7
  <2> QED BY <1>2, <2>1, <2>3, <2>5, <2>6, <2>8, SetterIff
<1>6. ASSUME r \in setters[q] PROVE r \in setters[z]
  <2>1. /\ r \in stored /\ q \in stored /\ blocks[r].account = blocks[q].account
        /\ Block[r].type \notin SR /\ blocks[r].height <= blocks[q].height
        /\ blocks[r].height + 1 .. blocks[q].height \subseteq plain[blocks[q].account]
    BY <1>2, <1>6, SetterIff
  <2>2. blocks[q].account = a /\ blocks[q].height + 1 = blocks[z].height
        /\ blocks[q].height \in Nat /\ blocks[r].height \in Nat
    BY <1>4, <2>1, StoredFields
  <2>3. /\ blocks[r].height <= blocks[z].height
        /\ \A n \in blocks[r].height + 1 .. blocks[z].height :
              n = blocks[z].height \/ n \in blocks[r].height + 1 .. blocks[q].height
    BY <1>2, <2>1, <2>2, SMTT(30)
  <2>4. blocks[r].height + 1 .. blocks[z].height \subseteq plain[a]
    BY <1>3, <2>1, <2>2, <2>3
  <2> QED BY <1>2, <2>1, <2>2, <2>3, <2>4, SetterIff
<1> QED BY <1>1, <1>5, <1>6

(* The walk of representative_block_visitor, and what it finds. *)
Walk(f) ==
    f = [h \in Hash0 |->
            IF ~block_exists(h) THEN Zero
            ELSE IF Block[h].type \in {"send", "receive"} THEN f[Block[h].previous] ELSE h]

found == [z \in Hash0 |-> IF setters[z] = {} THEN Zero ELSE CHOOSE r \in setters[z] : TRUE]

(* The walk finds the setter, and Zero where there is none. *)
LEMMA FoundWalks ==
    ASSUME IInv, Adjacent
    PROVE  Walk(found)
<1>1. ASSUME NEW z \in Hash0, NEW r \in setters[z] PROVE found[z] = r
  BY <1>1, SetterUnique DEF found
<1>2. ASSUME NEW z \in Hash0, setters[z] = {} PROVE found[z] = Zero
  BY <1>2 DEF found
<1>3. ASSUME NEW h \in Hash0
      PROVE  found[h] = IF ~block_exists(h) THEN Zero
                        ELSE IF Block[h].type \in {"send", "receive"} THEN found[Block[h].previous] ELSE h
  <2>1. CASE ~block_exists(h)
    <3>1. h \notin stored
      BY <2>1 DEF stored
    <3>2. setters[h] = {}
      BY <3>1, SetterIff
    <3> QED BY <1>2, <2>1, <3>2
  <2>2. CASE block_exists(h) /\ Block[h].type \notin {"send", "receive"}
    <3>1. h \in stored
      BY <2>2 DEF stored, block_exists
    <3>2. h \in setters[h]
      BY <2>2, <3>1, SetterUnique
    <3> QED BY <1>1, <2>2, <3>2
  <2>3. CASE block_exists(h) /\ Block[h].type \in {"send", "receive"}
    <3>1. h \in stored /\ h \in Hash
      BY <2>3 DEF stored, block_exists
    <3>2. PICK q : q = Block[h].previous
      OBVIOUS
    <3>3. q \in Hash0 /\ \A r : r \in setters[h] <=> r \in setters[q]
      BY <2>3, <3>1, <3>2, SetterPrevious, BlockFields
    <3>4. CASE setters[h] = {}
      <4>1. setters[q] = {}
        BY <3>3, <3>4
      <4>2. found[h] = Zero /\ found[q] = Zero
        BY <1>2, <3>3, <3>4, <4>1
      <4> QED BY <2>3, <3>2, <4>2
    <3>5. CASE setters[h] # {}
      <4>1. PICK r : r \in setters[h] /\ r \in setters[q]
        BY <3>3, <3>5
      <4>2. found[h] = r /\ found[q] = r
        BY <1>1, <3>3, <4>1
      <4> QED BY <2>3, <3>2, <4>2
    <3> QED BY <3>4, <3>5
  <2> QED BY <2>1, <2>2, <2>3
<1>4. found = [h \in Hash0 |-> found[h]]
  BY SMTT(30) DEF found
<1> QED BY <1>3, <1>4 DEF Walk

(* representative_block of a stored block is its setter, when it has one. *)
LEMMA RepresentativeFound ==
    ASSUME IInv, Adjacent, NEW z \in Hash0
    PROVE  /\ representative_block[z] \in Hash => representative_block[z] \in setters[z]
           /\ \A r \in setters[z] : representative_block[z] = r
           /\ setters[z] = {} => representative_block[z] = Zero
<1>1. PICK f : f = representative_block
  OBVIOUS
<1>2. representative_block = CHOOSE g : Walk(g)
  BY DEF representative_block, Walk
<1>3. Walk(f)
  BY <1>1, <1>2, FoundWalks
<1>4. \A h \in Hash0 : f[h] = IF ~block_exists(h) THEN Zero
                              ELSE IF Block[h].type \in {"send", "receive"} THEN f[Block[h].previous] ELSE h
  BY <1>3 DEF Walk
<1>5. \A h \in Hash0 : found[h] = IF ~block_exists(h) THEN Zero
                                  ELSE IF Block[h].type \in {"send", "receive"} THEN found[Block[h].previous] ELSE h
  BY FoundWalks DEF Walk
<1> DEFINE T == {h \in stored : f[h] # found[h]}
<1>6. T = {}
  <2> SUFFICES ASSUME T # {} PROVE FALSE
    OBVIOUS
  <2>1. PICK h \in T : \A y \in T : blocks[h].height <= blocks[y].height
    <3>1. T \subseteq stored
      OBVIOUS
    <3> HIDE DEF T
    <3> QED BY <3>1, LowestBlock, SMTT(30)
  <2>2. h \in stored /\ h \in Hash /\ h \in Hash0 /\ f[h] # found[h] /\ blocks[h].height \in Nat
    BY StoredFields DEF Hash0
  <2>3. PICK q : q = Block[h].previous
    OBVIOUS
  <2>4. q \in Hash0 /\ f[q] # found[q]
    BY <1>4, <1>5, <2>2, <2>3, BlockFields
  <2>5. q \in stored
    BY <1>4, <1>5, <2>4 DEF stored, block_exists
  <2>6. blocks[q].height + 1 = blocks[h].height /\ blocks[q].height \in Nat
    <3>1. q # Zero
      BY <2>5, AcceptedFields
    <3> QED BY <2>2, <2>3, <2>5, <3>1, StoredFields DEF IInv, Linked
  <2>7. blocks[h].height <= blocks[q].height
    BY <2>1, <2>4, <2>5
  <2> QED BY <2>2, <2>6, <2>7, SMTT(30)
<1>7. f[z] = found[z]
  <2>1. CASE z \in stored
    BY <1>6, <2>1
  <2>2. CASE z \notin stored
    <3>1. ~block_exists(z)
      BY <2>2 DEF stored, block_exists
    <3> QED BY <1>4, <1>5, <3>1
  <2> QED BY <2>1, <2>2
<1>8. setters[z] = {} => found[z] = Zero
  BY DEF found
<1>9. \A r \in setters[z] : found[z] = r
  BY SetterUnique DEF found
<1>10. Zero \notin Hash
  BY UniverseAssumption
<1> QED BY <1>1, <1>7, <1>8, <1>9, <1>10

(* The representative of an account is the one its setter names. *)
Delegates ==
    \A a \in Account : \A r \in setters[accounts[a].head] :
        accounts[a].representative = Block[r].representative

(* What it is to be a setter after a step. *)
LEMMA SetterIffNext ==
    ASSUME NEW z \in Hash0, NEW r
    PROVE  r \in setters'[z] <=>
             /\ r \in stored' /\ z \in stored' /\ blocks'[r].account = blocks'[z].account
             /\ Block[r].type \notin {"send", "receive"} /\ blocks'[r].height <= blocks'[z].height
             /\ blocks'[r].height + 1 .. blocks'[z].height \subseteq plain'[blocks'[z].account]
  BY DEF setters

(* Without new blocks there are no new setters. *)
LEMMA SettersShrink ==
    ASSUME IInv, stored' \subseteq stored, \A x \in stored' : blocks'[x] = blocks[x],
           NEW z \in Hash0, NEW r \in setters'[z]
    PROVE  r \in setters[z]
<1>1. /\ r \in stored' /\ z \in stored' /\ blocks'[r].account = blocks'[z].account
      /\ Block[r].type \notin {"send", "receive"} /\ blocks'[r].height <= blocks'[z].height
      /\ blocks'[r].height + 1 .. blocks'[z].height \subseteq plain'[blocks'[z].account]
  BY SetterIffNext
<1>2. r \in stored /\ z \in stored /\ blocks'[r] = blocks[r] /\ blocks'[z] = blocks[z]
  BY <1>1
<1>3. \A a \in Account : plain'[a] \subseteq plain[a]
  BY DEF plain
<1>4. blocks[z].account \in Account
  BY <1>2, StoredFields
<1>5. blocks[r].height + 1 .. blocks[z].height \subseteq plain[blocks[z].account]
  BY <1>1, <1>2, <1>3, <1>4
<1> QED BY <1>1, <1>2, <1>5, SetterIff

(* Appending a block that names a representative makes it the setter, any
   other leaves the setter. *)
LEMMA AppendsDelegates ==
    ASSUME IInv, Delegates, NEW h, NEW a, NEW sb, NEW info, Appends(h, a, sb, info)
    PROVE  Delegates'
<1> DEFINE SR == {"send", "receive"}
<1>1. /\ h \in Hash /\ h \in Hash0 /\ a \in Account /\ sb.account = a
      /\ sb.height = accounts[a].block_count + 1 /\ info.head = h
      /\ info.representative = IF Block[h].type \in SR THEN accounts[a].representative
                               ELSE Block[h].representative
  BY DEF Appends, Carries, Hash0
<1>2. /\ stored' = stored \cup {h} /\ accepted' = accepted \cup {h}
      /\ cemented' = cemented /\ h \notin stored /\ h \notin cemented
      /\ blocks'[h] = sb /\ \A x \in stored : blocks'[x] = blocks[x]
      /\ accounts'[a] = info /\ \A b \in Account : b # a => accounts'[b] = accounts[b]
      /\ confirmation_height' = confirmation_height /\ pruned' = pruned
      /\ sb.height \in Nat /\ sb.height > confirmation_height[a].height
  BY AppendsSets
<1>3. ASSUME NEW b \in Account, NEW n \in plain'[b]
      PROVE  n \in plain[b] \/ (b = a /\ n = sb.height /\ Block[h].type \in SR)
  <2>1. PICK y \in stored' : blocks'[y].account = b /\ blocks'[y].height = n /\ Block[y].type \in SR
    BY DEF plain
  <2>2. n \in Nat
    BY DEF plain
  <2>3. CASE y = h
    BY <1>1, <1>2, <2>1, <2>3
  <2>4. CASE y # h
    <3>1. y \in stored /\ blocks'[y] = blocks[y]
      BY <1>2, <2>4
    <3> QED BY <2>1, <2>2, <3>1 DEF plain
  <2> QED BY <2>3, <2>4
<1>4. ASSUME NEW r \in setters'[h] PROVE info.representative = Block[r].representative
  <2>1. /\ r \in stored' /\ blocks'[r].account = a /\ Block[r].type \notin SR
        /\ blocks'[r].height <= sb.height
        /\ blocks'[r].height + 1 .. sb.height \subseteq plain'[a]
    BY <1>1, <1>2, SetterIffNext
  <2>2. CASE r = h
    BY <1>1, <2>1, <2>2
  <2>3. CASE r # h
    <3>1. r \in stored /\ blocks'[r] = blocks[r]
      BY <1>2, <2>1, <2>3
    <3>2. PICK m \in Nat : m = accounts[a].block_count
      BY <2>1, <3>1, HeadStored
    <3>3. /\ accounts[a].head \in stored /\ blocks[accounts[a].head].account = a
          /\ blocks[accounts[a].head].height = m
          /\ blocks[r].height \in Nat /\ blocks[r].height <= m
      BY <2>1, <3>1, <3>2, HeadStored
    <3>4. sb.height = m + 1
      BY <1>1, <3>2
    <3>5. /\ sb.height \in blocks[r].height + 1 .. sb.height
          /\ \A x \in blocks[r].height + 1 .. m :
                x \in blocks[r].height + 1 .. sb.height /\ x # sb.height
      <4>1. PICK p, q : p = blocks[r].height /\ q = sb.height
        OBVIOUS
      <4>2. p \in Nat /\ p <= m /\ q = m + 1
        BY <3>3, <3>4, <4>1
      <4>3. q \in p + 1 .. q /\ \A x \in p + 1 .. m : x \in p + 1 .. q /\ x # q
        BY <4>2, SMTT(30)
      <4> QED BY <4>1, <4>3
    <3>6. \A y \in stored : blocks[y].account = a => blocks[y].height # sb.height
      <4>1. \A y \in stored : blocks[y].account = a =>
               blocks[y].height \in Nat /\ blocks[y].height <= m
        BY <3>2, HeadStored
      <4> QED BY <3>4, <4>1, SMTT(30)
    <3>7. Block[h].type \in SR
      <4>1. sb.height \in plain'[a]
        BY <2>1, <3>1, <3>5
      <4>2. sb.height \notin plain[a]
        BY <1>1, <3>6 DEF plain
      <4> QED BY <1>1, <1>3, <4>1, <4>2
    <3>8. blocks[r].height + 1 .. m \subseteq plain[a]
      BY <1>1, <1>3, <2>1, <3>1, <3>5
    <3>9. accounts[a].head \in Hash0
      BY <3>3, AcceptedFields DEF Hash0
    <3>10. r \in setters[accounts[a].head]
      BY <2>1, <3>1, <3>3, <3>8, <3>9, SetterIff
    <3> QED BY <1>1, <3>7, <3>10 DEF Delegates
  <2> QED BY <2>2, <2>3
<1>5. ASSUME NEW b \in Account, b # a, NEW r \in setters'[accounts[b].head]
      PROVE  accounts[b].representative = Block[r].representative
  <2>1. PICK z : z = accounts[b].head
    OBVIOUS
  <2>2. z \in Hash0
    BY <2>1 DEF IInv, TypeOK, AccountInfo
  <2>3. /\ r \in stored' /\ z \in stored' /\ blocks'[r].account = blocks'[z].account
        /\ Block[r].type \notin SR /\ blocks'[r].height <= blocks'[z].height
        /\ blocks'[r].height + 1 .. blocks'[z].height \subseteq plain'[blocks'[z].account]
    BY <1>5, <2>1, <2>2, SetterIffNext
  <2>4. z # Zero
    BY <1>1, <1>2, <2>3, AcceptedFields, UniverseAssumption
  <2>5. z \in stored /\ blocks[z].account = b /\ blocks'[z] = blocks[z]
    BY <1>2, <2>1, <2>4 DEF IInv, Heads
  <2>6. r \in stored /\ blocks'[r] = blocks[r]
    BY <1>1, <1>2, <1>5, <2>3, <2>5
  <2>7. blocks[r].height + 1 .. blocks[z].height \subseteq plain[b]
    BY <1>3, <1>5, <2>3, <2>5, <2>6
  <2>8. r \in setters[z]
    BY <2>2, <2>3, <2>5, <2>6, <2>7, SetterIff
  <2> QED BY <2>1, <2>8 DEF Delegates
<1>6. ASSUME NEW b \in Account, NEW r \in setters'[accounts'[b].head]
      PROVE  accounts'[b].representative = Block[r].representative
  <2>1. CASE b = a
    BY <1>1, <1>2, <1>4, <1>6, <2>1
  <2>2. CASE b # a
    <3>1. accounts'[b] = accounts[b]
      BY <1>2, <2>2
    <3> QED BY <1>5, <1>6, <2>2, <3>1
  <2> QED BY <2>1, <2>2
<1> QED BY <1>6 DEF Delegates

(* Undoing a block gives its account the representative of the setter below
   the block, which representative_block found. *)
LEMMA UndoesDelegates ==
    ASSUME IInv, Adjacent, Delegates, NEW h, NEW a, NEW info, Undoes(h, a, info)
    PROVE  Delegates'
<1> DEFINE SR == {"send", "receive"}
<1>1. /\ h \in stored /\ a \in Account /\ accounts[a].head = h /\ info.head = Block[h].previous
      /\ Restores(h, a, info.representative, info.epoch)
  BY DEF Undoes
<1>2. /\ stored' = stored \ {h} /\ accepted' = accepted \ {h}
      /\ cemented' = cemented /\ \A x \in stored' : x # h /\ blocks'[x] = blocks[x]
      /\ accounts'[a] = info /\ \A b \in Account : b # a => accounts'[b] = accounts[b]
      /\ confirmation_height' = confirmation_height /\ pruned' = pruned
      /\ blocks[h].height > confirmation_height[a].height
  BY UndoesSets
<1>3. stored' \subseteq stored /\ \A x \in stored' : blocks'[x] = blocks[x]
  BY <1>2
<1>4. ASSUME NEW r \in setters'[Block[h].previous]
      PROVE  info.representative = Block[r].representative
  <2>1. PICK q : q = Block[h].previous
    OBVIOUS
  <2>2. q \in Hash0 /\ h \in Hash0
    BY <1>1, <2>1, BlockFields, AcceptedFields DEF Hash0
  <2>3. r \in setters[q]
    BY <1>3, <1>4, <2>1, <2>2, SettersShrink
  <2>4. q # Zero
    <3>1. q \in stored
      BY <2>2, <2>3, SetterIff
    <3> QED BY <3>1, AcceptedFields
  <2>5. IF Block[h].type \in SR THEN info.representative = accounts[a].representative
        ELSE /\ representative_block[q] \in Hash
             /\ info.representative = Block[representative_block[q]].representative
    BY <1>1, <2>1, <2>4 DEF Restores
  <2>6. CASE Block[h].type \in SR
    <3>1. r \in setters[h]
      BY <1>1, <2>1, <2>3, <2>6, SetterPrevious
    <3> QED BY <1>1, <2>5, <2>6, <3>1 DEF Delegates
  <2>7. CASE Block[h].type \notin SR
    <3>1. representative_block[q] = r
      BY <2>2, <2>3, RepresentativeFound
    <3> QED BY <2>5, <2>7, <3>1
  <2> QED BY <2>6, <2>7
<1>5. ASSUME NEW b \in Account, b # a, NEW r \in setters'[accounts[b].head]
      PROVE  accounts[b].representative = Block[r].representative
  <2>1. PICK z : z = accounts[b].head
    OBVIOUS
  <2>2. z \in Hash0
    BY <2>1 DEF IInv, TypeOK, AccountInfo
  <2>3. r \in setters[z]
    BY <1>3, <1>5, <2>1, <2>2, SettersShrink
  <2> QED BY <2>1, <2>3 DEF Delegates
<1>6. ASSUME NEW b \in Account, NEW r \in setters'[accounts'[b].head]
      PROVE  accounts'[b].representative = Block[r].representative
  <2>1. CASE b = a
    <3>1. accounts'[b] = info
      BY <1>2, <2>1
    <3> QED BY <1>1, <1>4, <1>6, <3>1
  <2>2. CASE b # a
    <3>1. accounts'[b] = accounts[b]
      BY <1>2, <2>2
    <3> QED BY <1>5, <1>6, <2>2, <3>1
  <2> QED BY <2>1, <2>2
<1> QED BY <1>6 DEF Delegates

(* Accounts keep the representative of their setter. *)
LEMMA DelegatesStep ==
    ASSUME IInv, Adjacent, Delegates, Step
    PROVE  Delegates'
<1>1. ASSUME stored' \subseteq stored, \A x \in stored' : blocks'[x] = blocks[x],
             accounts' = accounts
      PROVE  Delegates'
  <2>1. ASSUME NEW b \in Account, NEW r \in setters'[accounts[b].head]
        PROVE  accounts[b].representative = Block[r].representative
    <3>1. PICK z : z = accounts[b].head
      OBVIOUS
    <3>2. z \in Hash0
      BY <3>1 DEF IInv, TypeOK, AccountInfo
    <3>3. r \in setters[z]
      BY <1>1, <2>1, <3>1, <3>2, SettersShrink
    <3> QED BY <3>1, <3>3 DEF Delegates
  <2> QED BY <1>1, <2>1 DEF Delegates
<1>2. CASE PruneStep
  <2>1. /\ stored' = stored \ {prune_hash} /\ accounts' = accounts
        /\ \A x \in stored' : x # prune_hash /\ blocks'[x] = blocks[x]
    BY <1>2, PruneSets
  <2> QED BY <1>1, <2>1
<1>3. CASE UNCHANGED tables
  <2>1. stored' = stored /\ blocks' = blocks /\ accounts' = accounts
    BY <1>3, SameTables
  <2> QED BY <1>1, <2>1
<1> QED BY <1>2, <1>3, AppendsDelegates, UndoesDelegates, TableSteps

(* Undoing a block moves the balance of its account back: from the
   representative the account has to the one it had before. *)
LEMMA UndoShifts ==
    ASSUME IInv, Amounts, Delegates, NEW h, NEW a, NEW info, Undoes(h, a, info)
    PROVE  /\ Shifted(rep_weights, rep_weights', accounts[a].representative, accounts[a].balance,
                      info.representative, info.balance)
           /\ accounts[a].balance = blocks[h].balance /\ info.balance = before[h]
           /\ h # genesis /\ Block[h].previous \notin pruned
<1> DEFINE SR == {"send", "receive"}
<1>1. /\ h \in stored /\ h \notin cemented /\ a \in Account /\ accounts[a].head = h
      /\ Restores(h, a, info.representative, info.epoch)
  BY DEF Undoes
<1>2. Block[h].previous \notin pruned /\ h # genesis
  BY <1>1, UndoesDiscard DEF IInv, PrunedBelow
<1>3. h \in Hash /\ h \in Hash0 /\ h # Zero /\ blocks[h].balance \in Int
  BY <1>1, StoredFields, AcceptedFields DEF Hash0
<1>4. accounts[a].balance = blocks[h].balance
  BY <1>1, <1>3 DEF IInv, Heads
<1>5. PICK n \in Int : n = before[h] /\ n = block_balance(Block[h].previous)
  BY <1>3, BeforeType
<1>6. info.balance = n
  <2>1. CASE Block[h].previous = Zero
    <3>1. info.balance = 0
      BY <2>1 DEF Undoes
    <3>2. ~block_exists(Block[h].previous)
      BY <2>1, UniverseAssumption DEF block_exists
    <3> QED BY <1>5, <3>1, <3>2 DEF block_balance
  <2>2. CASE Block[h].previous # Zero
    BY <1>5, <2>2 DEF Undoes
  <2> QED BY <2>1, <2>2
<1>7. CASE Block[h].type = "send"
  <2>1. blocks[h].is_send
    BY <1>1, <1>2, <1>7 DEF IInv, Derived
  <2>2. PICK p \in pending :
          /\ p.hash = h
          /\ Shifted(rep_weights, rep_weights', accounts[a].representative,
                     n - p.amount, info.representative, n)
    BY <1>1, <1>5, <1>7, <2>1 DEF Restores
  <2>3. p.amount = n - blocks[h].balance
    BY <1>1, <1>2, <1>5, <2>2 DEF Amounts
  <2>4. n - p.amount = blocks[h].balance
    BY <1>3, <2>3, SMTT(30)
  <2> QED BY <1>2, <1>4, <1>5, <1>6, <2>2, <2>4
<1>8. CASE Block[h].type # "send"
  <2>1. Shifted(rep_weights, rep_weights',
                IF Block[h].type = "receive" THEN accounts[a].representative
                ELSE Block[h].representative,
                IF Block[h].type = "change" THEN n ELSE blocks[h].balance,
                info.representative, n)
    BY <1>1, <1>5, <1>8 DEF Restores
  <2>2. Block[h].type # "receive" => accounts[a].representative = Block[h].representative
    <3>1. Block[h].type # "receive" => h \in setters[h]
      BY <1>1, <1>3, <1>8, SetterUnique
    <3> QED BY <1>1, <3>1 DEF Delegates
  <2>3. ASSUME Block[h].type = "change" PROVE n = blocks[h].balance
    <3>1. ~blocks[h].is_send
      BY <1>1, <1>2, <2>3 DEF IInv, Derived
    <3>2. Block[h].link \notin Hash
      BY <1>3, <2>3, LegacyAssumption, UniverseAssumption
    <3> QED BY <1>1, <1>2, <1>5, <3>1, <3>2 DEF Amounts
  <2>4. Shifted(rep_weights, rep_weights', accounts[a].representative, blocks[h].balance,
                info.representative, n)
    BY <2>1, <2>2, <2>3
  <2> QED BY <1>2, <1>4, <1>5, <1>6, <2>4
<1> QED BY <1>7, <1>8

-----------------------------------------------------------------------------
(* The types of the weights.                                               *)

(* The operations on the representative weights return weights. *)
LEMMA PutType ==
    ASSUME NEW w \in Weights, NEW rep \in Account0, NEW weight \in Int
    PROVE  put(w, rep, weight) \in Weights
<1>1. put_cache(weight) \in Int
  BY MinWeightAssumption, SMTT(30) DEF put_cache
<1> QED BY <1>1 DEF put, Weights

(* The fields of the weights. *)
LEMMA WeightsFields ==
    ASSUME NEW w \in Weights
    PROVE  w.committed \in Int /\ w.unused \in Int /\ \A r \in Account0 : w.store[r] \in Int
  BY DEF Weights

(* The weights with other totals. *)
with_totals(w, m, n) == [w EXCEPT !.committed = m, !.unused = n]

(* Weights with other totals are weights with the same rows. *)
LEMMA Counted ==
    ASSUME NEW w \in Weights, NEW m \in Int, NEW n \in Int
    PROVE  LET v == with_totals(w, m, n) IN
           /\ v \in Weights /\ v.committed = m /\ v.unused = n
           /\ v.store = w.store /\ v.cache = w.cache
  BY DEF Weights, with_totals

(* rep_weights::add returns weights. *)
LEMMA AddType ==
    ASSUME NEW w \in Weights, NEW rep \in Account0, NEW amount \in Int
    PROVE  add(w, rep, amount) \in Weights
<1>1. w.store[rep] + amount \in Int
  BY WeightsFields, SMTT(30)
<1>2. put(w, rep, w.store[rep] + amount) \in Weights
  BY <1>1, PutType
<1>3. w.committed + amount \in Int /\ w.unused - amount \in Int
  BY WeightsFields, SMTT(30)
<1> QED BY <1>2, <1>3, Counted DEF add, with_totals

(* rep_weights::sub returns weights. *)
LEMMA SubType ==
    ASSUME NEW w \in Weights, NEW rep \in Account0, NEW amount \in Int
    PROVE  sub(w, rep, amount) \in Weights
<1>1. w.store[rep] - amount \in Int
  BY WeightsFields, SMTT(30)
<1>2. put(w, rep, w.store[rep] - amount) \in Weights
  BY <1>1, PutType
<1>3. w.committed - amount \in Int /\ w.unused + amount \in Int
  BY WeightsFields, SMTT(30)
<1> QED BY <1>2, <1>3, Counted DEF sub, with_totals

(* rep_weights::move returns weights. *)
LEMMA MoveType ==
    ASSUME NEW w \in Weights, NEW r \in Account0, NEW s \in Account0, NEW amount \in Int
    PROVE  move(w, r, s, amount) \in Weights
<1>1. w.store[r] - amount \in Int /\ w.store[s] + amount \in Int
  BY WeightsFields, SMTT(30)
<1>2. put(w, r, w.store[r] - amount) \in Weights
  BY <1>1, PutType
<1>3. put(put(w, r, w.store[r] - amount), s, w.store[s] + amount) \in Weights
  BY <1>1, <1>2, PutType
<1> QED BY <1>3 DEF move

(* rep_weights::move_add_sub returns weights. *)
LEMMA MoveAddSubType ==
    ASSUME NEW w \in Weights, NEW r \in Account0, NEW m \in Int,
           NEW s \in Account0, NEW n \in Int
    PROVE  move_add_sub(w, r, m, s, n) \in Weights
<1>1. move(w, r, s, m) \in Weights /\ move(w, r, s, n) \in Weights
  BY MoveType
<1>2. add(move(w, r, s, m), s, n - m) \in Weights
  BY <1>1, AddType, SMTT(30)
<1>3. sub(move(w, r, s, n), r, m - n) \in Weights
  BY <1>1, SubType, SMTT(30)
<1> QED BY <1>1, <1>2, <1>3 DEF move_add_sub

(* So does the change a state block makes, done or undone. *)
LEMMA StateWeightsType ==
    ASSUME NEW w \in Weights, NEW from, NEW to, NEW x \in BOOLEAN, NEW y \in BOOLEAN,
           from.representative \in Account0, from.balance \in Int,
           to.representative \in Account0, to.balance \in Int
    PROVE  state_weights(w, from, to, x, y) \in Weights
  BY AddType, SubType, MoveAddSubType DEF state_weights

-----------------------------------------------------------------------------
(* What the operations do to the weights.                                  *)

(* rep_weights::put writes one row of the store and of the cache. *)
LEMMA PutRow ==
    ASSUME NEW w \in Weights, NEW rep \in Account0, NEW weight \in Int,
           NEW v, v = put(w, rep, weight)
    PROVE  /\ v.committed = w.committed /\ v.unused = w.unused
           /\ \A r \in Account0 :
                /\ v.store[r] = IF r = rep THEN weight ELSE w.store[r]
                /\ v.cache[r] = IF r = rep THEN put_cache(weight) ELSE w.cache[r]
  BY DEF put, Weights

(* One row of the store changes by k, and the totals with it. *)
LEMMA RowShifts ==
    ASSUME NEW w \in Weights, NEW rep \in Account0, NEW k \in Int,
           NEW v, v = with_totals(put(w, rep, w.store[rep] + k), w.committed + k, w.unused - k)
    PROVE  /\ v.committed = w.committed + k /\ v.unused = w.unused - k
           /\ \A r \in Account0 :
                /\ v.store[r] = w.store[r] + (IF r = rep THEN k ELSE 0)
                /\ w.cache[r] = put_cache(w.store[r]) => v.cache[r] = put_cache(v.store[r])
<1>1. /\ w.committed + k \in Int /\ w.unused - k \in Int /\ w.store[rep] + k \in Int
      /\ \A r \in Account0 : w.store[r] \in Int
  BY WeightsFields, SMTT(30)
<1> PICK u : u = put(w, rep, w.store[rep] + k)
  OBVIOUS
<1>0. v = with_totals(u, w.committed + k, w.unused - k)
  OBVIOUS
<1>2. u \in Weights
  BY <1>1, PutType
<1>3. \A r \in Account0 :
        /\ u.store[r] = IF r = rep THEN w.store[rep] + k ELSE w.store[r]
        /\ u.cache[r] = IF r = rep THEN put_cache(w.store[rep] + k) ELSE w.cache[r]
  BY <1>1, PutRow, SMTT(30)
<1>4. /\ v.committed = w.committed + k /\ v.unused = w.unused - k
      /\ v.store = u.store /\ v.cache = u.cache
  BY <1>0, <1>1, <1>2, Counted, SMTT(30)
<1>5. \A r \in Account0 : v.store[r] = w.store[r] + (IF r = rep THEN k ELSE 0)
  <2>1. \A i \in Int : i + 0 = i
    BY SMTT(30)
  <2> QED BY <1>1, <1>3, <1>4, <2>1
<1>6. \A r \in Account0 : w.cache[r] = put_cache(w.store[r]) => v.cache[r] = put_cache(v.store[r])
  BY <1>3, <1>4
<1> QED BY <1>4, <1>5, <1>6

(* rep_weights::add: to the representative of an account whose balance grows
   from m to n, or that is opened with its first block. *)
LEMMA AddShifts ==
    ASSUME NEW w \in Weights, NEW rep \in Account0, NEW amount \in Int
    PROVE  /\ \A m, n \in Int : n - m = amount => Shifted(w, add(w, rep, amount), rep, m, rep, n)
           /\ \A from : Shifted(w, add(w, rep, amount), from, 0, rep, amount)
<1> DEFINE v == add(w, rep, amount)
<1>1. /\ v.committed = w.committed + amount /\ v.unused = w.unused - amount
      /\ \A r \in Account0 :
            /\ v.store[r] = w.store[r] + (IF r = rep THEN amount ELSE 0)
            /\ w.cache[r] = put_cache(w.store[r]) => v.cache[r] = put_cache(v.store[r])
  <2>1. v = with_totals(put(w, rep, w.store[rep] + amount), w.committed + amount, w.unused - amount)
    BY DEF add, with_totals
  <2> HIDE DEF v
  <2> QED BY <2>1, RowShifts, SMTT(30)
<1> HIDE DEF v
<1>2. \A r \in Account0 : w.store[r] \in Int
  BY WeightsFields
<1>3. ASSUME NEW m \in Int, NEW n \in Int, n - m = amount PROVE Shifted(w, v, rep, m, rep, n)
  <2>1. \A r \in Account0 :
          v.store[r] = w.store[r] - (IF r = rep THEN m ELSE 0) + (IF r = rep THEN n ELSE 0)
    BY <1>1, <1>2, <1>3, SMTT(30)
  <2> QED BY <1>1, <1>3, <2>1 DEF Shifted
<1>4. ASSUME NEW from PROVE Shifted(w, v, from, 0, rep, amount)
  <2>1. \A r \in Account0 :
          v.store[r] = w.store[r] - (IF r = from THEN 0 ELSE 0) + (IF r = rep THEN amount ELSE 0)
    BY <1>1, <1>2, SMTT(30)
  <2>2. amount - 0 = amount
    BY SMTT(30)
  <2> QED BY <1>1, <2>1, <2>2 DEF Shifted
<1> QED BY <1>3, <1>4 DEF v

(* rep_weights::sub: from the representative of an account whose balance
   shrinks from m to n, or whose first block is undone. *)
LEMMA SubShifts ==
    ASSUME NEW w \in Weights, NEW rep \in Account0, NEW amount \in Int
    PROVE  /\ \A m, n \in Int : m - n = amount => Shifted(w, sub(w, rep, amount), rep, m, rep, n)
           /\ \A to : Shifted(w, sub(w, rep, amount), rep, amount, to, 0)
<1> DEFINE v == sub(w, rep, amount)
<1>1. /\ -amount \in Int
      /\ w.store[rep] - amount = w.store[rep] + (-amount)
      /\ w.committed - amount = w.committed + (-amount)
      /\ w.unused + amount = w.unused - (-amount)
  BY WeightsFields, SMTT(30)
<1>2. /\ v.committed = w.committed + (-amount) /\ v.unused = w.unused - (-amount)
      /\ \A r \in Account0 :
            /\ v.store[r] = w.store[r] + (IF r = rep THEN -amount ELSE 0)
            /\ w.cache[r] = put_cache(w.store[r]) => v.cache[r] = put_cache(v.store[r])
  <2> PICK k \in Int : k = -amount
    BY <1>1
  <2>1. v = with_totals(put(w, rep, w.store[rep] + k), w.committed + k, w.unused - k)
    BY <1>1 DEF sub, with_totals
  <2> HIDE DEF v
  <2> QED BY <2>1, RowShifts, SMTT(30)
<1> HIDE DEF v
<1>3. \A r \in Account0 : w.store[r] \in Int
  BY WeightsFields
<1>4. ASSUME NEW m \in Int, NEW n \in Int, m - n = amount PROVE Shifted(w, v, rep, m, rep, n)
  <2>1. \A r \in Account0 :
          v.store[r] = w.store[r] - (IF r = rep THEN m ELSE 0) + (IF r = rep THEN n ELSE 0)
    BY <1>2, <1>3, <1>4, SMTT(30)
  <2>2. -amount = n - m
    BY <1>4, SMTT(30)
  <2> QED BY <1>2, <2>1, <2>2 DEF Shifted
<1>5. ASSUME NEW to PROVE Shifted(w, v, rep, amount, to, 0)
  <2>1. \A r \in Account0 :
          v.store[r] = w.store[r] - (IF r = rep THEN amount ELSE 0) + (IF r = to THEN 0 ELSE 0)
    BY <1>2, <1>3, SMTT(30)
  <2>2. -amount = 0 - amount
    BY SMTT(30)
  <2> QED BY <1>2, <2>1, <2>2 DEF Shifted
<1> QED BY <1>4, <1>5 DEF v

(* rep_weights::move: the totals stay. *)
LEMMA MoveShifts ==
    ASSUME NEW w \in Weights, NEW r \in Account0, NEW s \in Account0, NEW m \in Int
    PROVE  Shifted(w, move(w, r, s, m), r, m, s, m)
<1>1. /\ w.committed \in Int /\ w.unused \in Int /\ m - m = 0
      /\ \A x \in Account0 : w.store[x] \in Int
      /\ w.store[r] - m \in Int /\ w.store[s] + m \in Int
      /\ w.committed + (m - m) = w.committed /\ w.unused - (m - m) = w.unused
  BY WeightsFields, SMTT(30)
<1>2. CASE r = s
  <2>1. move(w, r, s, m) = w
    BY <1>2 DEF move
  <2>2. \A x \in Account0 :
          w.store[x] = w.store[x] - (IF x = r THEN m ELSE 0) + (IF x = s THEN m ELSE 0)
    BY <1>1, <1>2, SMTT(30)
  <2> QED BY <1>1, <2>1, <2>2 DEF Shifted
<1>3. CASE r # s
  <2> PICK u : u = put(w, r, w.store[r] - m)
    OBVIOUS
  <2> PICK v : v = put(u, s, w.store[s] + m)
    OBVIOUS
  <2>0. u \in Weights
    BY <1>1, PutType
  <2>1. /\ u.committed = w.committed /\ u.unused = w.unused
        /\ \A x \in Account0 :
              /\ u.store[x] = IF x = r THEN w.store[r] - m ELSE w.store[x]
              /\ u.cache[x] = IF x = r THEN put_cache(w.store[r] - m) ELSE w.cache[x]
    BY <1>1, PutRow, SMTT(30)
  <2>2. /\ v.committed = u.committed /\ v.unused = u.unused
        /\ \A x \in Account0 :
              /\ v.store[x] = IF x = s THEN w.store[s] + m ELSE u.store[x]
              /\ v.cache[x] = IF x = s THEN put_cache(w.store[s] + m) ELSE u.cache[x]
    BY <1>1, <2>0, PutRow, SMTT(30)
  <2>3. move(w, r, s, m) = v
    BY <1>3 DEF move
  <2>4. \A x \in Account0 :
          v.store[x] = w.store[x] - (IF x = r THEN m ELSE 0) + (IF x = s THEN m ELSE 0)
    BY <1>1, <1>3, <2>1, <2>2, SMTT(30)
  <2>5. \A x \in Account0 : w.cache[x] = put_cache(w.store[x]) => v.cache[x] = put_cache(v.store[x])
    BY <2>1, <2>2, SMTT(30)
  <2> QED BY <1>1, <2>1, <2>2, <2>3, <2>4, <2>5 DEF Shifted
<1> QED BY <1>2, <1>3

(* One shift after another. *)
LEMMA ShiftsCompose ==
    ASSUME NEW w \in Weights, NEW u, NEW v, NEW r, NEW s, NEW x, NEW y,
           NEW i \in Int, NEW j \in Int, NEW k \in Int, NEW l \in Int, NEW m \in Int, NEW n \in Int,
           Shifted(w, u, r, i, s, j), Shifted(u, v, x, k, y, l), n - m = (j - i) + (l - k),
           \A z \in Account0 :
               (IF z = s THEN j ELSE 0) - (IF z = r THEN i ELSE 0)
                 + ((IF z = y THEN l ELSE 0) - (IF z = x THEN k ELSE 0))
               = (IF z = s THEN n ELSE 0) - (IF z = r THEN m ELSE 0)
    PROVE  Shifted(w, v, r, m, s, n)
<1>1. w.committed \in Int /\ w.unused \in Int /\ \A z \in Account0 : w.store[z] \in Int
  BY WeightsFields
<1>2. /\ v.committed = w.committed + (j - i) + (l - k)
      /\ v.unused = w.unused - (j - i) - (l - k)
  BY DEF Shifted
<1>3. v.committed = w.committed + (n - m) /\ v.unused = w.unused - (n - m)
  BY <1>1, <1>2, SMTT(30)
<1>4. ASSUME NEW z \in Account0
      PROVE  v.store[z] = w.store[z] - (IF z = r THEN m ELSE 0) + (IF z = s THEN n ELSE 0)
  <2> DEFINE ri == IF z = r THEN i ELSE 0  sj == IF z = s THEN j ELSE 0
             xk == IF z = x THEN k ELSE 0  yl == IF z = y THEN l ELSE 0
             rm == IF z = r THEN m ELSE 0  sn == IF z = s THEN n ELSE 0
  <2>1. u.store[z] = w.store[z] - ri + sj /\ v.store[z] = u.store[z] - xk + yl
    BY DEF Shifted
  <2>2. sj - ri + (yl - xk) = sn - rm
    OBVIOUS
  <2>3. ri \in Int /\ sj \in Int /\ xk \in Int /\ yl \in Int /\ rm \in Int /\ sn \in Int
    BY SMTT(30)
  <2> HIDE DEF ri, sj, xk, yl, rm, sn
  <2>4. w.store[z] \in Int /\ u.store[z] \in Int
    BY <1>1, <2>1, <2>3, SMTT(30)
  <2>5. u.store[z] - xk + yl = w.store[z] - rm + sn
    BY <2>1, <2>2, <2>3, <2>4, SMTT(30)
  <2> QED BY <2>1, <2>5 DEF rm, sn
<1>5. \A z \in Account0 : w.cache[z] = put_cache(w.store[z]) => v.cache[z] = put_cache(v.store[z])
  BY DEF Shifted
<1> QED BY <1>3, <1>4, <1>5 DEF Shifted

(* rep_weights::move_add_sub: the representative and the balance change. *)
LEMMA MoveAddSubShifts ==
    ASSUME NEW w \in Weights, NEW r \in Account0, NEW m \in Int,
           NEW s \in Account0, NEW n \in Int
    PROVE  Shifted(w, move_add_sub(w, r, m, s, n), r, m, s, n)
<1>1. CASE n = m
  <2>1. move_add_sub(w, r, m, s, n) = move(w, r, s, m)
    BY <1>1, SMTT(30) DEF move_add_sub
  <2> QED BY <1>1, <2>1, MoveShifts
<1>2. CASE n > m
  <2> DEFINE u == move(w, r, s, m)
  <2>1. u \in Weights /\ Shifted(w, u, r, m, s, m)
    BY MoveType, MoveShifts
  <2>2. move_add_sub(w, r, m, s, n) = add(u, s, n - m)
    BY <1>2, SMTT(30) DEF move_add_sub
  <2> HIDE DEF u
  <2>3. n - m \in Int /\ 0 \in Int /\ n - m - 0 = n - m
    BY SMTT(30)
  <2>4. Shifted(u, add(u, s, n - m), s, 0, s, n - m)
    BY <2>1, <2>3, AddShifts
  <2>5. \A z \in Account0 :
            (IF z = s THEN m ELSE 0) - (IF z = r THEN m ELSE 0)
              + ((IF z = s THEN n - m ELSE 0) - (IF z = s THEN 0 ELSE 0))
            = (IF z = s THEN n ELSE 0) - (IF z = r THEN m ELSE 0)
    BY SMTT(30)
  <2>6. n - m = (m - m) + (n - m - 0)
    BY SMTT(30)
  <2> QED BY <2>1, <2>2, <2>3, <2>4, <2>5, <2>6, ShiftsCompose, SMTT(30)
<1>3. CASE n < m
  <2> DEFINE u == move(w, r, s, n)
  <2>1. u \in Weights /\ Shifted(w, u, r, n, s, n)
    BY MoveType, MoveShifts
  <2>2. move_add_sub(w, r, m, s, n) = sub(u, r, m - n)
    BY <1>3, SMTT(30) DEF move_add_sub
  <2> HIDE DEF u
  <2>3. m - n \in Int /\ 0 \in Int /\ m - n - 0 = m - n
    BY SMTT(30)
  <2>4. Shifted(u, sub(u, r, m - n), r, m - n, r, 0)
    BY <2>1, <2>3, SubShifts
  <2>5. \A z \in Account0 :
            (IF z = s THEN n ELSE 0) - (IF z = r THEN n ELSE 0)
              + ((IF z = r THEN 0 ELSE 0) - (IF z = r THEN m - n ELSE 0))
            = (IF z = s THEN n ELSE 0) - (IF z = r THEN m ELSE 0)
    BY SMTT(30)
  <2>6. n - m = (n - n) + (0 - (m - n))
    BY SMTT(30)
  <2> QED BY <2>1, <2>2, <2>3, <2>4, <2>5, <2>6, ShiftsCompose, SMTT(30)
<1> QED BY <1>1, <1>2, <1>3, SMTT(30)

(* Nothing is shifted by a block that leaves its account as it was. *)
LEMMA NothingShifts ==
    ASSUME NEW w \in Weights, NEW r, NEW m \in Int
    PROVE  Shifted(w, w, r, m, r, m)
<1>1. /\ w.committed = w.committed + (m - m) /\ w.unused = w.unused - (m - m)
      /\ \A x \in Account0 :
            w.store[x] = w.store[x] - (IF x = r THEN m ELSE 0) + (IF x = r THEN m ELSE 0)
  BY WeightsFields, SMTT(30)
<1> QED BY <1>1 DEF Shifted

(* Where the weight of an account that is closed goes does not matter. *)
LEMMA NothingArrives ==
    ASSUME NEW w, NEW v, NEW r, NEW m, NEW s, NEW t, Shifted(w, v, r, m, s, 0)
    PROVE  Shifted(w, v, r, m, t, 0)
<1>1. \A x : (IF x = s THEN 0 ELSE 0) = (IF x = t THEN 0 ELSE 0)
  OBVIOUS
<1> QED BY <1>1 DEF Shifted

(* The change a state block makes, done or undone: an account that does not
   exist has no balance. *)
LEMMA StateWeightsShifts ==
    ASSUME NEW w \in Weights, NEW from, NEW to, NEW x \in BOOLEAN, NEW y \in BOOLEAN,
           from.representative \in Account0, from.balance \in Int,
           to.representative \in Account0, to.balance \in Int,
           x \/ y, ~x => from.balance = 0, ~y => to.balance = 0
    PROVE  Shifted(w, state_weights(w, from, to, x, y),
                   from.representative, from.balance, to.representative, to.balance)
<1>1. CASE x /\ y
  BY <1>1, MoveAddSubShifts DEF state_weights
<1>2. CASE ~x /\ y
  BY <1>2, AddShifts DEF state_weights
<1>3. CASE x /\ ~y
  BY <1>3, SubShifts DEF state_weights
<1> QED BY <1>1, <1>2, <1>3
=============================================================================
