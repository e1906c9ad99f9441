---------------------------- MODULE LedgerProofs ----------------------------
(***************************************************************************)
(* What the ledger promises in every state that process, rollback, cement  *)
(* and pruning_action reach, from the invariants of LedgerInvariant and    *)
(* LedgerTables: what its tables hold, what the nested calls of rollback   *)
(* undo, and what the walk of cement meets.                                *)
(***************************************************************************)
EXTENDS LedgerTables

(* Time for the solver on a leaf that names no other prover. *)
USE ZenonT(30)

-----------------------------------------------------------------------------
(* The ledger and the lattice.                                             *)

(* The rows of every table stay well formed under process, rollback, cement
   and pruning_action. *)
THEOREM TypeCorrect == Spec => []TypeOK
<1>1. IInv => TypeOK
  BY SMTT(30) DEF IInv
<1> QED BY <1>1, Invariance, PTL

(* ledger::process, rollback and cement keep accepted and cemented blocks
   closed under dependencies, for every universe of blocks and every bound
   on the depth of a rollback or the stack of a cementation. *)
THEOREM Closed == Spec => []LatticeClosed
<1>1. IInv => LatticeClosed
  BY AcceptedClosed DEF LatticeClosed
<1> QED BY <1>1, Invariance, PTL

(* confirmation_height always names a block that ledger::rollback and
   pruning_action left in the table, at that height. *)
THEOREM FrontierStays == Spec => []FrontierOnChain
<1>1. IInv => FrontierOnChain
  BY DEF IInv, Confirmed, FrontierOnChain
<1> QED BY <1>1, Invariance, PTL

(* pruning_action finds each block it walks to stored and cemented, although
   it gives up the write lock between batches. *)
THEOREM PrunesCemented == Spec => []PrunesCementedBlocks
<1>1. IInv => PrunesCementedBlocks
  <2> SUFFICES ASSUME IInv, writer = "prune" PROVE cemented_block_exists(prune_hash)
    BY DEF PrunesCementedBlocks
  <2>1. /\ prune_hash \in stored
        /\ blocks[prune_hash].height < confirmation_height[blocks[prune_hash].account].height
    BY DEF IInv, Control
  <2>2. /\ blocks[prune_hash].height \in Nat
        /\ confirmation_height[blocks[prune_hash].account].height \in Nat
    BY <2>1, StoredFields, ConfirmedBelowHead
  <2> QED BY <2>1, <2>2, SMTT(30) DEF cemented_block_exists, stored
<1> QED BY <1>1, Invariance, PTL

(* The ledger implements the block lattice: whatever process, rollback,
   cement and pruning_action do to the tables, and however they interleave,
   each step accepts one block, discards one, cements one, or none of these. *)
THEOREM Refinement == Spec => LatticeSpec
<1>1. Init => Lattice!Init
  <2> SUFFICES ASSUME Init PROVE Lattice!Init
    OBVIOUS
  <2>1. IInv
    BY InitIInv
  <2>2. stored = {genesis} /\ pruned = {}
    BY GenesisAssumption, SMTT(30) DEF Init, stored, block_exists, NoSideband
  <2>3. genesis \in cemented /\ cemented \subseteq accepted
    BY <2>1, AcceptedClosed DEF IInv, PrunedBelow
  <2> QED BY <2>2, <2>3 DEF Lattice!Init, accepted
<1>2. IInv /\ [Next]_vars => [Lattice!Next]_(Lattice!vars)
  BY StepOf, Inductive
<1> QED BY <1>1, <1>2, Invariance, PTL DEF Spec, LatticeSpec, Lattice!Spec

(* A block that ledger::cement cemented is never rolled back, and pruning it
   does not undo its cementation. *)
THEOREM CementedStays == Spec => [][cemented \subseteq cemented']_vars
<1>1. IInv /\ [Next]_vars => [cemented \subseteq cemented']_vars
  <2> SUFFICES ASSUME IInv, [Next]_vars PROVE cemented \subseteq cemented'
    OBVIOUS
  <2>1. [Lattice!Next]_(Lattice!vars)
    BY StepOf, Inductive
  <2> QED BY <2>1 DEF Lattice!Next, Lattice!vars, Lattice!Accept, Lattice!Discard, Lattice!Cement
<1> QED BY <1>1, Invariance, PTL DEF Spec

-----------------------------------------------------------------------------
(* What the tables say.                                                    *)

(* The chains and the successor table fit together. *)
LEMMA TablesChains ==
    ASSUME IInv, TInv
    PROVE  ChainsIntact
<1>1. Successors
  BY DEF TInv
<1>2. ASSUME NEW h \in stored
      PROVE  /\ blocks[h].height <= accounts[blocks[h].account].block_count
             /\ blocks[h].height = 1 <=> Block[h].previous = Zero
             /\ Block[h].previous \in stored =>
                   /\ blocks[Block[h].previous].account = blocks[h].account
                   /\ blocks[Block[h].previous].height + 1 = blocks[h].height
             /\ Block[h].previous # Zero => successor[Block[h].previous] = h
  <2>1. ~(1 > 1)
    BY SMTT(30)
  <2>2. blocks[h].height = 1 <=> Block[h].previous = Zero
    BY <2>1 DEF IInv, Linked
  <2>3. blocks[h].height <= accounts[blocks[h].account].block_count
    BY DEF IInv, Heights
  <2>4. Block[h].previous \in stored =>
           /\ blocks[Block[h].previous].account = blocks[h].account
           /\ blocks[Block[h].previous].height + 1 = blocks[h].height
    BY AcceptedFields DEF IInv, Linked
  <2> QED BY <1>1, <2>2, <2>3, <2>4 DEF Successors
<1>3. ASSUME NEW a \in opened
      PROVE  /\ accounts[a].head \in stored
             /\ blocks[accounts[a].head].account = a
             /\ blocks[accounts[a].head].height = accounts[a].block_count
             /\ blocks[accounts[a].head].balance = accounts[a].balance
             /\ block_successor(a) \in accepted
  <2>1. a \in Account /\ accounts[a].head # Zero /\ account_exists(a) /\ a \notin Hash
    BY UniverseAssumption DEF opened, account_exists
  <2>2. block_successor(a) = accounts[a].open_block
    BY <2>1 DEF block_successor
  <2>3. accounts[a].open_block \in accepted
    BY <1>1, <2>1 DEF Successors
  <2> QED BY <2>1, <2>2, <2>3 DEF IInv, Heads
<1>4. \A h \in Hash : successor[h] # Zero => h \in accepted /\ successor[h] \in accepted
  BY <1>1 DEF Successors
<1> QED BY <1>2, <1>3, <1>4 DEF ChainsIntact

(* A send is pending exactly while no block received it. *)
LEMMA TablesPending ==
    ASSUME IInv, TInv
    PROVE  PendingUntilReceived
<1>1. /\ \A p \in pending : p.hash \in accepted /\ \A g \in accepted : ~receives(g, p.hash)
      /\ \A p, q \in pending : p.hash = q.hash => p = q
  BY DEF IInv, Receipts, receives
<1>2. \A g, h \in accepted : Block[g].link \in Hash /\ receives(h, Block[g].link) => g = h
  BY DEF IInv, Receipts, receives
<1>3. ASSUME NEW h \in stored, blocks[h].is_send, \A g \in accepted : ~receives(g, h)
      PROVE  \E p \in pending : p.hash = h /\ p.account = Block[h].link
                                /\ p.source = blocks[h].account
  <2>1. PICK p \in pending : p.hash = h
    BY <1>3 DEF TInv, Destinations, receives
  <2>2. p.account = Block[h].link /\ p.source = blocks[h].account
    BY <1>3, <2>1 DEF TInv, Destinations, IInv, Receipts
  <2> QED BY <2>1, <2>2
<1> QED BY <1>1, <1>2, <1>3 DEF PendingUntilReceived

(* put_block, del_block and pruning_action maintain the chains and the
   successor table from different ends: the chains stay intact. *)
THEOREM ChainsStayIntact == Spec => []ChainsIntact
BY TablesChains, TablesInvariance, PTL

(* ledger::process takes the pending entry of a send with the block that
   receives it, ledger::rollback puts it back: a send is pending exactly while
   no block of the ledger received it. *)
THEOREM PendingTillReceived == Spec => []PendingUntilReceived
BY TablesPending, TablesInvariance, PTL

-----------------------------------------------------------------------------
(* Epochs.                                                                 *)

(* The version of a stored block, which does not change. *)
LEMMA VersionOf ==
    ASSUME NEW x \in stored
    PROVE  /\ version(x) = versions[x]
           /\ Block[x].type # "state" => versions[x] = 0
           /\ blocks'[x] = blocks[x] => versions'[x] = versions[x]
  BY DEF version, versions, stored

(* Appending a block maintains the epochs. *)
LEMMA AppendsEpochs ==
    ASSUME IInv, EpochRows, NEW h, NEW a, NEW sb, NEW info, Appends(h, a, sb, info)
    PROVE  EpochRows'
<1>1. /\ h \in Hash /\ h \notin accepted /\ a \in Account
      /\ info.head = h /\ info.epoch = sb.epoch
      /\ Carries(h, a, sb.balance, info.representative, sb.epoch, sb.source_epoch, sb.is_send)
  BY DEF Appends
<1>2. /\ stored' = stored \cup {h} /\ accepted' = accepted \cup {h}
      /\ cemented' = cemented /\ h \notin stored /\ h \notin cemented
      /\ blocks'[h] = sb /\ \A x \in stored : blocks'[x] = blocks[x]
      /\ accounts'[a] = info /\ \A b \in Account : b # a => accounts'[b] = accounts[b]
      /\ confirmation_height' = confirmation_height /\ pruned' = pruned
      /\ sb.height \in Nat /\ sb.height > confirmation_height[a].height
  BY AppendsSets
<1>3. /\ \A p \in pending : p.hash \in accepted
      /\ \A g \in accepted : Block[g].link \in Hash => Block[g].link \in accepted
      /\ \A g \in stored : Block[g].previous # Zero => Block[g].previous \in accepted
      /\ \A x \in accepted : x # h /\ x \in Hash /\ x # Zero
      /\ \A x \in stored : x \in accepted
      /\ h # Zero
  BY <1>1, AcceptedFields, UniverseAssumption DEF IInv, Receipts, Linked
<1>4. Block[h].type # "state" =>
         sb.epoch = 0 /\ (Block[h].previous \in Hash => Block[Block[h].previous].type # "state")
  BY <1>1 DEF Carries
<1>5. versions'[h] = sb.epoch
  <2>1. versions'[h] = IF Block[h].type = "state" THEN blocks'[h].epoch ELSE 0
    BY <1>1 DEF versions
  <2> QED BY <1>2, <1>4, <2>1
<1>6. \A x \in stored : versions'[x] = versions[x]
  BY <1>2, VersionOf
<1>7. ASSUME NEW b \in Account, accounts'[b].head # Zero
      PROVE  accounts'[b].epoch = versions'[accounts'[b].head]
  <2>1. CASE b = a
    BY <1>1, <1>2, <1>5, <2>1
  <2>2. CASE b # a
    <3>1. accounts'[b] = accounts[b]
      BY <1>2, <2>2
    <3>2. accounts[b].head \in stored /\ accounts[b].epoch = versions[accounts[b].head]
      BY <1>7, <3>1 DEF EpochRows, IInv, Heads
    <3> QED BY <1>6, <3>1, <3>2
  <2> QED BY <2>1, <2>2
<1>8. ASSUME NEW x \in stored', Block[x].type # "state", Block[x].previous \in stored'
      PROVE  Block[Block[x].previous].type # "state"
  <2>1. CASE x = h
    BY <1>1, <1>2, <1>3, <1>4, <1>8, <2>1
  <2>2. CASE x \in stored
    <3>1. Block[x].previous \in stored
      BY <1>2, <1>3, <1>8, <2>2
    <3> QED BY <1>8, <2>2, <3>1 DEF EpochRows
  <2> QED BY <1>2, <2>1, <2>2
<1>9. \A p \in pending : p.hash \in stored' => p.hash \in stored /\ p.epoch = versions[p.hash]
  BY <1>2, <1>3 DEF EpochRows
<1>10. ASSUME NEW p \in pending', p.hash \in stored' PROVE p.epoch = versions'[p.hash]
  <2>1. p \in pending \/ (p.hash = h /\ p.epoch = sb.epoch)
    <3>1. ASSUME NEW q, q.hash = h, q.epoch = sb.epoch, pending' = pending \cup {q}
          PROVE  p \in pending \/ (p.hash = h /\ p.epoch = sb.epoch)
      BY <1>10, <3>1
    <3>2. ASSUME NEW q, pending' = pending \ {q} PROVE p \in pending
      BY <1>10, <3>2
    <3> QED BY <1>10, <3>1, <3>2, AppendsPending
  <2> QED BY <1>5, <1>6, <1>9, <1>10, <2>1
<1>11. ASSUME NEW g \in stored', Block[g].link \in stored'
       PROVE  versions'[Block[g].link] = IF Block[g].type = "state" THEN blocks'[g].source_epoch ELSE 0
  <2>1. Block[g].link \in Hash
    BY <1>1, <1>2, <1>3, <1>11
  <2>2. CASE g \in stored
    <3>1. Block[g].link \in stored /\ blocks'[g] = blocks[g]
      BY <1>2, <1>3, <1>11, <2>1, <2>2
    <3> QED BY <1>6, <2>2, <3>1 DEF EpochRows
  <2>3. CASE g = h
    <3>1. PICK p \in pending : /\ p.hash = Block[h].link
                               /\ p.epoch = IF Block[h].type = "state" THEN sb.source_epoch ELSE 0
      BY <2>1, <2>3, AppendsPending
    <3>2. Block[h].link \in stored /\ p.epoch = versions[Block[h].link]
      BY <1>9, <1>11, <2>3, <3>1
    <3> QED BY <1>2, <1>6, <2>3, <3>1, <3>2
  <2> QED BY <1>2, <2>2, <2>3
<1> QED BY <1>7, <1>8, <1>10, <1>11 DEF EpochRows

(* Undoing a block maintains the epochs. *)
LEMMA UndoesEpochs ==
    ASSUME IInv, EpochRows, NEW h, NEW a, NEW info, Undoes(h, a, info)
    PROVE  EpochRows'
<1>1. /\ h \in stored /\ a \in Account /\ info.head = Block[h].previous
      /\ Restores(h, a, info.representative, info.epoch)
  BY DEF Undoes
<1>2. /\ stored' = stored \ {h} /\ accepted' = accepted \ {h}
      /\ cemented' = cemented /\ \A x \in stored' : x # h /\ blocks'[x] = blocks[x]
      /\ accounts'[a] = info /\ \A b \in Account : b # a => accounts'[b] = accounts[b]
      /\ confirmation_height' = confirmation_height /\ pruned' = pruned
      /\ blocks[h].height > confirmation_height[a].height
  BY UndoesSets
<1>3. \A x \in stored' : x \in stored /\ x \in accepted /\ x \in Hash
  BY <1>2, AcceptedFields
<1>4. \A x \in stored' : versions'[x] = versions[x]
  BY <1>2, <1>3, VersionOf
<1>5. ASSUME Block[h].previous # Zero
      PROVE  /\ Block[h].previous \in stored' /\ Block[h].previous \in stored
             /\ info.epoch = versions[Block[h].previous]
  <2>1. Block[h].previous \notin pruned /\ Block[h].previous # h
    BY UndoesDiscard
  <2>2. Block[h].previous \in accepted
    BY <1>1, <1>5 DEF IInv, Linked
  <2>3. Block[h].previous \in stored /\ Block[h].previous \in stored'
    BY <1>2, <2>1, <2>2 DEF accepted
  <2>4. info.epoch = IF Block[h].type = "state" THEN version(Block[h].previous) ELSE 0
    BY <1>1, <1>5 DEF Restores
  <2>5. version(Block[h].previous) = versions[Block[h].previous]
    BY <2>3, VersionOf
  <2>6. Block[h].type # "state" => versions[Block[h].previous] = 0
    BY <1>1, <2>3, VersionOf DEF EpochRows
  <2> QED BY <2>3, <2>4, <2>5, <2>6
<1>6. ASSUME NEW b \in Account, accounts'[b].head # Zero
      PROVE  accounts'[b].epoch = versions'[accounts'[b].head]
  <2>1. CASE b = a
    <3>1. accounts'[b].head = Block[h].previous /\ accounts'[b].epoch = info.epoch
      BY <1>1, <1>2, <2>1
    <3> QED BY <1>4, <1>5, <1>6, <3>1
  <2>2. CASE b # a
    <3>1. accounts'[b] = accounts[b]
      BY <1>2, <2>2
    <3>2. /\ accounts[b].head \in stored /\ accounts[b].epoch = versions[accounts[b].head]
          /\ blocks[accounts[b].head].account = b
      BY <1>6, <3>1 DEF EpochRows, IInv, Heads
    <3>3. accounts[b].head \in stored'
      BY <1>2, <2>2, <3>2 DEF Undoes
    <3> QED BY <1>4, <3>1, <3>2, <3>3
  <2> QED BY <2>1, <2>2
<1>7. \A x \in stored' : Block[x].type # "state" /\ Block[x].previous \in stored' =>
          Block[Block[x].previous].type # "state"
  BY <1>3 DEF EpochRows
<1>8. ASSUME NEW p \in pending', p.hash \in stored' PROVE p.epoch = versions'[p.hash]
  <2>1. CASE p \in pending
    BY <1>3, <1>4, <1>8, <2>1 DEF EpochRows
  <2>2. CASE /\ p.hash = Block[h].link
             /\ p.epoch = IF Block[h].type = "state" THEN blocks[h].source_epoch ELSE 0
    BY <1>1, <1>3, <1>4, <1>8, <2>2 DEF EpochRows
  <2> QED BY <2>1, <2>2, UndoesPending
<1>9. ASSUME NEW g \in stored', Block[g].link \in stored'
      PROVE  versions'[Block[g].link] = IF Block[g].type = "state" THEN blocks'[g].source_epoch ELSE 0
  BY <1>2, <1>3, <1>4, <1>9 DEF EpochRows
<1> QED BY <1>6, <1>7, <1>8, <1>9 DEF EpochRows

(* So do the other steps: the epoch of a pruned block is not asked for. *)
LEMMA EpochsStep ==
    ASSUME IInv, EpochRows, Step
    PROVE  EpochRows'
<1>1. CASE PruneStep
  <2>1. /\ stored' = stored \ {prune_hash} /\ pending' = pending /\ accounts' = accounts
        /\ \A x \in stored' : x # prune_hash /\ blocks'[x] = blocks[x]
    BY <1>1, PruneSets
  <2>2. \A x \in stored' : x \in stored /\ versions'[x] = versions[x]
    BY <2>1, VersionOf
  <2>3. ASSUME NEW b \in Account, accounts[b].head # Zero
        PROVE  accounts[b].epoch = versions'[accounts'[b].head]
    <3>1. IInv'
      BY <1>1, PruneIInv
    <3>2. accounts[b].head \in stored'
      BY <2>1, <2>3, <3>1 DEF IInv, Heads
    <3>3. versions'[accounts'[b].head] = versions[accounts[b].head]
      BY <2>1, <2>2, <3>2
    <3> QED BY <2>3, <3>3 DEF EpochRows
  <2>4. \A x \in stored' : Block[x].type # "state" /\ Block[x].previous \in stored' =>
            Block[Block[x].previous].type # "state"
    BY <2>2 DEF EpochRows
  <2>5. \A p \in pending : p.hash \in stored' => p.epoch = versions'[p.hash]
    BY <2>2 DEF EpochRows
  <2>6. ASSUME NEW g \in stored', Block[g].link \in stored'
        PROVE  versions'[Block[g].link] =
                  IF Block[g].type = "state" THEN blocks'[g].source_epoch ELSE 0
    BY <2>1, <2>2, <2>6 DEF EpochRows
  <2> QED BY <2>1, <2>3, <2>4, <2>5, <2>6 DEF EpochRows
<1>2. CASE UNCHANGED tables
  <2>1. versions' = versions
    BY <1>2, SameTables DEF versions
  <2> QED BY <1>2, <2>1, SameTables DEF EpochRows
<1> QED BY <1>1, <1>2, TableSteps, AppendsEpochs, UndoesEpochs

(* The epochs that seed_genesis leaves. *)
LEMMA InitEpochs == Init => EpochRows
<1> SUFFICES ASSUME Init PROVE EpochRows
  OBVIOUS
<1>1. stored = {genesis} /\ pending = {}
  BY GenesisAssumption, SMTT(30) DEF Init, stored, block_exists, NoSideband
<1>2. /\ genesis \in Hash /\ genesis # Zero /\ Zero \notin Hash
      /\ Block[genesis].type = "open" /\ Block[genesis].previous = Zero
      /\ Block[genesis].link = Zero
  BY GenesisAssumption, UniverseAssumption, BlockFields
<1>3. ASSUME NEW a \in Account
      PROVE  IF a = Block[genesis].account
             THEN accounts[a].head = genesis /\ accounts[a].epoch = 0
             ELSE accounts[a].head = Zero
  BY DEF Init, NoAccount
<1>4. versions[genesis] = 0
  BY <1>2 DEF versions
<1> QED BY <1>1, <1>2, <1>3, <1>4 DEF EpochRows

(* Accounts and pending entries have the epoch of their block. *)
LEMMA TablesEpochs ==
    ASSUME IInv, EpochRows
    PROVE  EpochsFollowBlocks
<1>1. ASSUME NEW a \in opened PROVE accounts[a].epoch = version(accounts[a].head)
  <2>1. a \in Account /\ accounts[a].head # Zero
    BY DEF opened, account_exists
  <2>2. accounts[a].head \in stored /\ accounts[a].epoch = versions[accounts[a].head]
    BY <2>1 DEF IInv, Heads, EpochRows
  <2> QED BY <2>2, VersionOf
<1>2. ASSUME NEW p \in pending, p.hash \in stored PROVE p.epoch = version(p.hash)
  BY <1>2, VersionOf DEF EpochRows
<1> QED BY <1>1, <1>2 DEF EpochsFollowBlocks

(* The epoch that process derives and rollback restores is that of the head,
   and a pending entry has the epoch of its send. *)
THEOREM EpochsFollow == Spec => []EpochsFollowBlocks
<1>1. Init => EpochRows
  BY InitEpochs
<1>2. EpochRows /\ IInv /\ [Next]_vars => EpochRows'
  BY StepOf, EpochsStep
<1> QED BY <1>1, <1>2, TablesEpochs, Invariance, PTL DEF Spec

-----------------------------------------------------------------------------
(* Forks.                                                                  *)

(* A block refused as a fork is not in the ledger, and its account is opened
   or its predecessor is no head. *)
LEMMA ForkReasons ==
    ASSUME IInv, NEW h \in Hash, block_status(h) = "fork"
    PROVE  /\ h \notin accepted
           /\ \/ Block[h].previous = Zero /\ account_exists(Block[h].account)
              \/ /\ Block[h].previous # Zero /\ block_exists(Block[h].previous)
                 /\ Block[h].type = "state" => accounts[Block[h].account].head # Block[h].previous
                 /\ Block[h].type # "state" =>
                       accounts[blocks[Block[h].previous].account].head # Block[h].previous
<1>1. Block[h].type \in {"send", "receive", "open", "change", "state"}
  BY BlockFields
<1>2. block_exists(Block[h].previous) => Block[h].previous # Zero
  BY UniverseAssumption DEF block_exists
<1>3. ~block_exists_or_pruned(h) => h \notin accepted
  BY DEF block_exists_or_pruned, accepted, stored
<1>4. ASSUME legacy_chain_status(h) = "fork"
      PROVE  /\ ~block_exists_or_pruned(h) /\ block_exists(Block[h].previous)
             /\ accounts[blocks[Block[h].previous].account].head # Block[h].previous
  BY <1>4 DEF legacy_chain_status
<1>5. work_status(h) # "fork"
  BY DEF work_status
<1>6. \A a : legacy_pending_status(a, h) # "fork"
  BY <1>5 DEF legacy_pending_status
<1>7. CASE Block[h].type = "send"
  <2>1. send_status(h) = "fork"
    BY <1>7, SMTT(30) DEF block_status
  <2>2. legacy_chain_status(h) = "fork"
    BY <2>1 DEF send_status
  <2> QED BY <1>2, <1>3, <1>4, <1>7, <2>2
<1>8. CASE Block[h].type = "receive"
  <2>1. receive_status(h) = "fork"
    BY <1>8, SMTT(30) DEF block_status
  <2>2. legacy_chain_status(h) = "fork"
    BY <1>6, <2>1 DEF receive_status
  <2> QED BY <1>2, <1>3, <1>4, <1>8, <2>2
<1>9. CASE Block[h].type = "change"
  <2>1. change_status(h) = "fork"
    BY <1>9, SMTT(30) DEF block_status
  <2>2. legacy_chain_status(h) = "fork"
    BY <1>5, <2>1 DEF change_status
  <2> QED BY <1>2, <1>3, <1>4, <1>9, <2>2
<1>10. CASE Block[h].type = "open"
  <2>1. open_status(h) = "fork"
    BY <1>10, SMTT(30) DEF block_status
  <2>2. ~block_exists_or_pruned(h) /\ account_exists(Block[h].account)
    BY <1>6, <2>1 DEF open_status
  <2>3. Block[h].previous = Zero
    BY <1>10, LegacyAssumption
  <2> QED BY <1>3, <2>2, <2>3
<1>11. CASE Block[h].type = "state"
  <2>1. state_status(h) = "fork"
    BY <1>11, SMTT(30) DEF block_status
  <2>2. state_link_status(h) # "fork"
    BY <1>5 DEF state_link_status
  <2>3. ASSUME state_impl_status(h) = "fork"
        PROVE  /\ ~block_exists_or_pruned(h) /\ account_exists(Block[h].account)
               /\ Block[h].previous # Zero =>
                     /\ block_exists(Block[h].previous)
                     /\ accounts[Block[h].account].head # Block[h].previous
    BY <2>2, <2>3 DEF state_impl_status
  <2>4. ASSUME epoch_impl_status(h) = "fork"
        PROVE  /\ ~block_exists_or_pruned(h) /\ account_exists(Block[h].account)
               /\ Block[h].previous # Zero => accounts[Block[h].account].head # Block[h].previous
    BY <1>5, <2>4 DEF epoch_impl_status
  <2>5. \/ state_impl_status(h) = "fork"
        \/ /\ epoch_impl_status(h) = "fork" /\ is_epoch_block(h)
           /\ Block[h].link \in EpochLink /\ Block[h].previous # Zero => block_exists(Block[h].previous)
    BY <2>1 DEF state_status
  <2>6. is_epoch_block(h) => Block[h].link \in EpochLink
    BY DEF is_epoch_block
  <2> QED BY <1>3, <1>11, <2>3, <2>4, <2>5, <2>6
<1> QED BY <1>1, <1>7, <1>8, <1>9, <1>10, <1>11

(* The successor that is looked up for a fork competes with it. *)
LEMMA TablesForks ==
    ASSUME IInv, TInv
    PROVE  ForkHasCompetitor
<1> SUFFICES ASSUME NEW h \in Hash, block_status(h) = "fork",
                    Block[h].type = "state" /\ Block[h].previous # Zero =>
                       block_account(Block[h].previous) = Block[h].account
             PROVE  /\ block_successor(QualifiedRoot[h]) \in accepted \ {h}
                    /\ QualifiedRoot[block_successor(QualifiedRoot[h])] = QualifiedRoot[h]
  BY DEF ForkHasCompetitor
<1>1. Successors
  BY DEF TInv
<1>2. h \notin accepted
  BY ForkReasons
<1>3. \A x \in accepted : x \in Hash
  BY AcceptedFields
<1>4. CASE Block[h].previous = Zero /\ account_exists(Block[h].account)
  <2> DEFINE a == Block[h].account
  <2>1. a \in Account /\ accounts[a].head # Zero /\ a \notin Hash
    BY <1>4, UniverseAssumption DEF account_exists
  <2>2. QualifiedRoot[h] = a
    BY <1>4 DEF QualifiedRoot
  <2>3. block_successor(a) = accounts[a].open_block
    BY <1>4, <2>1 DEF block_successor
  <2>4. /\ accounts[a].open_block \in accepted /\ Block[accounts[a].open_block].previous = Zero
        /\ Block[accounts[a].open_block].account = a
    BY <1>1, <2>1 DEF Successors
  <2>5. QualifiedRoot[accounts[a].open_block] = a
    BY <1>3, <2>4 DEF QualifiedRoot
  <2> HIDE DEF a
  <2> QED BY <1>2, <2>2, <2>3, <2>4, <2>5
<1>5. CASE /\ Block[h].previous # Zero /\ block_exists(Block[h].previous)
           /\ Block[h].type = "state" => accounts[Block[h].account].head # Block[h].previous
           /\ Block[h].type # "state" =>
                 accounts[blocks[Block[h].previous].account].head # Block[h].previous
  <2> DEFINE q == Block[h].previous
  <2>1. q \in stored /\ q \in Hash /\ q # Zero
    BY <1>5 DEF stored, block_exists
  <2>2. accounts[blocks[q].account].head # q
    BY <1>5 DEF block_account
  <2>3. successor[q] # Zero
    BY <1>1, <2>1, <2>2 DEF Successors
  <2>4. successor[q] \in accepted /\ Block[successor[q]].previous = q
    BY <1>1, <2>1, <2>3 DEF Successors
  <2>5. QualifiedRoot[h] = q
    BY <2>1 DEF QualifiedRoot
  <2>6. QualifiedRoot[successor[q]] = q
    BY <1>3, <2>1, <2>4 DEF QualifiedRoot
  <2>7. block_successor(q) = successor[q]
    BY <2>1 DEF block_successor
  <2> HIDE DEF q
  <2> QED BY <1>2, <2>4, <2>5, <2>6, <2>7
<1> QED BY <1>4, <1>5, ForkReasons

(* When ledger::process refuses a block as a fork, the successor the block
   processor looks up is the competitor it will hold an election with. *)
THEOREM ForksCompete == Spec => []ForkHasCompetitor
BY TablesForks, TablesInvariance, PTL

-----------------------------------------------------------------------------
(* Ancestry.                                                               *)

(* A block is among its ancestors, with the ancestors of its dependencies,
   and a closed set that holds a block holds its ancestors. *)
LEMMA AncestryFacts ==
    /\ \A x \in Hash : x \in Ancestry[x] /\ Ancestry[x] \subseteq Hash
    /\ \A x, y \in Hash : x \in Dependencies[y] => x \in Ancestry[y]
    /\ \A x, y, z \in Hash : x \in Ancestry[y] /\ y \in Ancestry[z] => x \in Ancestry[z]
    /\ \A S \in SUBSET Hash : (\A x \in S : Dependencies[x] \subseteq S) =>
          \A x \in S : Ancestry[x] \subseteq S
<1>1. \A x, y \in Hash : x \in Ancestry[y] <=> \A S \in ClosedSets : y \in S => x \in S
  BY DEF Ancestry
<1>2. \A x, y \in Hash : x \in Dependencies[y] => x \in Ancestry[y]
  BY <1>1 DEF ClosedSets
<1>3. \A x \in Hash : x \in Ancestry[x] /\ Ancestry[x] \subseteq Hash
  BY <1>1 DEF Ancestry
<1>4. \A x, y, z \in Hash : x \in Ancestry[y] /\ y \in Ancestry[z] => x \in Ancestry[z]
  BY <1>1
<1>5. ASSUME NEW S \in SUBSET Hash, \A x \in S : Dependencies[x] \subseteq S, NEW x \in S
      PROVE  Ancestry[x] \subseteq S
  <2>1. S \in ClosedSets
    BY <1>5 DEF ClosedSets
  <2> QED BY <1>1, <1>3, <2>1
<1> QED BY <1>2, <1>3, <1>4, <1>5

(* The blocks above an uncemented one are uncemented and depend on it. *)
LEMMA UncementedAbove ==
    ASSUME IInv, NEW x \in stored, x \notin cemented, NEW y \in stored,
           blocks[y].account = blocks[x].account, blocks[x].height <= blocks[y].height
    PROVE  y \notin cemented /\ x \in Ancestry[y]
<1> DEFINE above == {z \in stored : /\ blocks[z].account = blocks[x].account
                                    /\ blocks[x].height <= blocks[z].height}
           T == {z \in above : x \notin Ancestry[z]}
<1>1. \A z \in stored : z \in Hash /\ z \in accepted /\ z \notin pruned /\ blocks[z].height \in Nat \ {0}
  BY AcceptedFields, AcceptedClosed, StoredFields
<1>2. confirmation_height[blocks[x].account].height \in Nat
  BY AcceptedFields, ConfirmedBelowHead
<1>3. ASSUME NEW z \in above PROVE z \notin cemented
  <2>1. z \in stored /\ blocks[z].account = blocks[x].account /\ blocks[x].height <= blocks[z].height
    OBVIOUS
  <2>2. /\ blocks[z].height \in Nat /\ blocks[x].height \in Nat
        /\ ~(blocks[x].height <= confirmation_height[blocks[x].account].height)
    BY <1>1, <2>1, CementedStored
  <2>3. ~(blocks[z].height <= confirmation_height[blocks[x].account].height)
    BY <1>2, <2>1, <2>2, SMTT(30)
  <2> QED BY <1>1, <2>1, <2>3, CementedStored
<1>4. T = {}
  <2> SUFFICES ASSUME T # {} PROVE FALSE
    OBVIOUS
  <2>1. PICK z \in T : \A w \in T : blocks[z].height <= blocks[w].height
    <3>1. T \subseteq stored
      OBVIOUS
    <3> HIDE DEF T
    <3> QED BY <3>1, LowestBlock, SMTT(30)
  <2>2. /\ z \in stored /\ blocks[z].account = blocks[x].account
        /\ blocks[x].height <= blocks[z].height /\ x \notin Ancestry[z] /\ z \notin cemented
    BY <1>3
  <2>3. x # z
    BY <1>1, <2>2, AncestryFacts
  <2>4. blocks[x].height # blocks[z].height
    BY <2>2, <2>3 DEF IInv, Heights
  <2>5. blocks[z].height # 1
    BY <1>1, <2>2, <2>4, SMTT(30)
  <2> DEFINE q == Block[z].previous
  <2>6. q # Zero /\ q \in accepted
    BY <2>2, <2>5 DEF IInv, Linked
  <2>7. q \in stored
    <3>1. q \notin pruned
      BY <2>2 DEF IInv, PrunedBelow
    <3> QED BY <2>6, <3>1 DEF accepted
  <2>8. blocks[q].account = blocks[z].account /\ blocks[q].height + 1 = blocks[z].height
    BY <2>2, <2>6, <2>7 DEF IInv, Linked
  <2>9. blocks[x].height <= blocks[q].height /\ ~(blocks[z].height <= blocks[q].height)
    BY <1>1, <2>2, <2>4, <2>7, <2>8, SMTT(30)
  <2>10. x \in Ancestry[q]
    BY <2>1, <2>2, <2>7, <2>8, <2>9
  <2>11. z \in Hash /\ q \in Hash /\ x \in Hash
    BY <1>1, <2>2, <2>7
  <2>12. q \in Dependencies[z]
    BY <2>11, DependenciesType
  <2> HIDE DEF q, T
  <2>13. q \in Ancestry[z]
    BY <2>11, <2>12, AncestryFacts
  <2> QED BY <2>2, <2>10, <2>11, <2>13, AncestryFacts
<1>5. y \in above /\ y \notin T
  BY <1>4
<1> QED BY <1>3, <1>5

-----------------------------------------------------------------------------
(* ledger::rollback.                                                       *)

(* The target of a call and the head it undoes. *)
LEMMA UndoingTarget ==
    ASSUME IInv, Undoing
    PROVE  /\ target \in stored /\ target \notin cemented
           /\ head \in stored /\ head \notin cemented /\ target \in Ancestry[head]
<1>1. target \in stored /\ rollback_allowed
  BY DEF Undoing, stored, block_exists
<1>2. /\ blocks[target].account \in Account /\ blocks[target].height \in Nat
      /\ confirmation_height[blocks[target].account].height \in Nat
  BY <1>1, StoredFields, ConfirmedBelowHead
<1>3. ~(blocks[target].height <= confirmation_height[blocks[target].account].height)
  BY <1>1, <1>2, SMTT(30) DEF rollback_allowed
<1>4. target \notin pruned
  BY <1>1, AcceptedClosed
<1>5. target \notin cemented
  BY <1>1, <1>3, <1>4, CementedStored
<1>6. /\ head \in stored /\ blocks[head].account = blocks[target].account
      /\ blocks[target].height <= blocks[head].height
  BY <1>1, HeadStored DEF head
<1> QED BY <1>1, <1>5, <1>6, UncementedAbove

(* A send that is not pending was received by a block that is uncemented
   too, below the head of the account that the send names. *)
LEMMA ReceiverUncemented ==
    ASSUME IInv, TInv, Undoing, head_is_send, ~receivable(Block[head].link, head)
    PROVE  LET next == account_head(Block[head].link)
           IN  next \in stored /\ next \notin cemented /\ head \in Ancestry[next]
<1>1. head \in stored /\ head \in Hash /\ head \notin cemented /\ blocks[head].is_send
  BY UndoingTarget, HeadIsSend, AcceptedFields
<1>2. ~\E p \in pending : p.hash = head
  BY <1>1 DEF receivable, TInv, Destinations
<1>3. PICK g \in accepted : Block[g].link = head
  BY <1>1, <1>2 DEF TInv, Destinations
<1>4. g \in Hash /\ head \in Dependencies[g]
  BY <1>1, <1>3, AcceptedFields, DependenciesType
<1>5. g \notin cemented /\ g \in stored
  BY <1>1, <1>4, AcceptedClosed DEF accepted
<1>6. blocks[g].account = Block[head].link
  BY <1>1, <1>3, <1>5 DEF TInv, Destinations
<1> DEFINE next == account_head(Block[head].link)
<1>7. next = accounts[blocks[g].account].head
  BY <1>5, <1>6, HeadStored DEF account_head, account_exists
<1>8. /\ next \in stored /\ blocks[next].account = blocks[g].account
      /\ blocks[g].height <= blocks[next].height
  BY <1>5, <1>7, HeadStored
<1>9. next \notin cemented /\ g \in Ancestry[next] /\ next \in Hash
  <2> HIDE DEF next
  <2> QED BY <1>5, <1>8, UncementedAbove, AcceptedFields
<1>10. head \in Ancestry[g]
  BY <1>1, <1>4, AncestryFacts
<1>11. head \in Ancestry[next]
  <2> HIDE DEF next
  <2> QED BY <1>1, <1>4, <1>9, <1>10, AncestryFacts
<1> QED BY <1>8, <1>9, <1>11

(* The entries of a stack. *)
entries(s) == {s[i] : i \in 1 .. Len(s)}

(* What pushing and popping do to the entries, and to the lowest one. *)
LEMMA Entries ==
    ASSUME NEW s \in Seq(Hash)
    PROVE  /\ entries(s) \subseteq Hash
           /\ s # <<>> => /\ s[1] \in entries(s) /\ Last(s) \in entries(s)
                          /\ entries(Front(s)) \subseteq entries(s)
                          /\ entries(Tail(s)) \subseteq entries(s)
           /\ \A h \in Hash : entries(Append(s, h)) = entries(s) \cup {h}
           /\ \A h \in Hash : s # <<>> => Append(s, h)[1] = s[1]
           /\ s # <<>> /\ Len(s) # 1 => Front(s)[1] = s[1]
           /\ s # <<>> /\ Len(s) = 1 => entries(s) = {Last(s)}
<1>1. Len(s) \in Nat /\ \A i \in 1 .. Len(s) : s[i] \in Hash
  BY ElementOfSeq, LenProperties
<1>2. entries(s) \subseteq Hash
  BY <1>1 DEF entries
<1>3. ASSUME s # <<>>
      PROVE  /\ s[1] \in entries(s) /\ Last(s) \in entries(s)
             /\ entries(Front(s)) \subseteq entries(s)
             /\ entries(Tail(s)) \subseteq entries(s)
             /\ Len(s) # 1 => Front(s)[1] = s[1]
             /\ Len(s) = 1 => entries(s) = {Last(s)}
  <2>1. Len(s) \in Nat \ {0}
    BY <1>3, FrontType
  <2>2. 1 \in 1 .. Len(s) /\ Len(s) \in 1 .. Len(s)
    BY <2>1, SMTT(30)
  <2>3. s[1] \in entries(s) /\ Last(s) \in entries(s)
    BY <2>2 DEF entries, Last
  <2>4. /\ Len(Front(s)) = Len(s) - 1
        /\ \A i \in 1 .. Len(s) - 1 : Front(s)[i] = s[i]
    <3>1. Len(Front(s)) = Len(s) - 1
      BY <1>3, FrontType
    <3>2. Len(s) - 1 \in Int /\ \A i \in 1 .. Len(s) - 1 : s[i] \in Hash
      BY <1>1, <2>1, SMTT(30)
    <3>3. \A i \in 1 .. Len(s) - 1 - 1 + 1 : SubSeq(s, 1, Len(s) - 1)[i] = s[1 + i - 1]
      BY <3>2, SubSeqProperties, SMTT(30)
    <3>4. \A n \in Int : n - 1 + 1 = n /\ 1 + n - 1 = n
      BY SMTT(30)
    <3>5. ASSUME NEW i \in 1 .. Len(s) - 1 PROVE Front(s)[i] = s[i]
      <4>1. Len(s) - 1 - 1 + 1 = Len(s) - 1 /\ 1 + i - 1 = i
        BY <3>2, <3>4, SMTT(30)
      <4> QED BY <3>3, <4>1 DEF Front
    <3> QED BY <3>1, <3>5
  <2>5. entries(Front(s)) \subseteq entries(s)
    BY <2>1, <2>4, SMTT(30) DEF entries
  <2>6. /\ Len(Tail(s)) = Len(s) - 1
        /\ \A i \in 1 .. Len(s) - 1 : Tail(s)[i] = s[i + 1]
    BY <1>3, <2>1, SMTT(30)
  <2>7. entries(Tail(s)) \subseteq entries(s)
    BY <2>1, <2>6, SMTT(30) DEF entries
  <2>8. Len(s) # 1 => Front(s)[1] = s[1]
    BY <2>1, <2>4, SMTT(30)
  <2>9. ASSUME Len(s) = 1 PROVE entries(s) = {Last(s)}
    BY <2>9, SMTT(30) DEF entries, Last
  <2> QED BY <2>3, <2>5, <2>7, <2>8, <2>9
<1>4. ASSUME NEW h \in Hash
      PROVE  /\ entries(Append(s, h)) = entries(s) \cup {h}
             /\ s # <<>> => Append(s, h)[1] = s[1]
  <2>1. /\ Len(Append(s, h)) = Len(s) + 1
        /\ \A i \in 1 .. Len(s) : Append(s, h)[i] = s[i]
        /\ Append(s, h)[Len(s) + 1] = h
    BY AppendProperties, SMTT(30)
  <2>2. \A i : i \in 1 .. Len(s) + 1 <=> (i \in 1 .. Len(s) \/ i = Len(s) + 1)
    BY <1>1, SMTT(30)
  <2>3. entries(Append(s, h)) = entries(s) \cup {h}
    BY <2>1, <2>2 DEF entries
  <2> QED BY <1>1, <2>1, <2>3, EmptySeq, SMTT(30)
<1> QED BY <1>2, <1>3, <1>4

(* Undoing a block leaves the calls and adds the head to the list. *)
LEMMA UndoList ==
    ASSUME UndoSend \/ UndoReceive \/ UndoChange \/ UndoState
    PROVE  /\ Undoing /\ rollback_stack' = rollback_stack
           /\ rollback_list' = rollback_list \cup {head}
           /\ UNCHANGED <<writer, cementVars, failed>>
<1>1. Undoing /\ \E a, info : del_block(head, a, info)
  BY DEF UndoSend, UndoReceive, UndoChange, UndoState
<1> QED BY <1>1 DEF del_block

(* The steps after which a rollback goes on: it begins, it stutters, a
   nested call returns or is made, or a block is undone. *)
LEMMA RollbackShapes ==
    ASSUME IInv, Step, writer' = "rollback"
    PROVE  \/ \E h \in Hash : rollback_stack' = <<h>> /\ rollback_list' = {}
           \/ /\ writer = "rollback" /\ cemented' = cemented /\ stored' \subseteq stored
              /\ \/ rollback_stack' = rollback_stack /\ rollback_list' = rollback_list
                 \/ /\ Len(rollback_stack) # 1 /\ rollback_stack' = Front(rollback_stack)
                    /\ rollback_list' = rollback_list
                 \/ RollbackDestination
                 \/ /\ Undoing /\ rollback_stack' = rollback_stack
                    /\ rollback_list' = rollback_list \cup {head}
<1>1. ASSUME NEW h \in Hash, Process(h) PROVE FALSE
  <2>1. PICK a, sb, info : put_block(h, a, sb, info)
    BY <1>1 DEF Step, Appends
  <2> QED BY <1>1, <2>1 DEF Process, put_block
<1>2. ASSUME UndoSend \/ UndoReceive \/ UndoChange \/ UndoState
      PROVE  /\ writer = "rollback" /\ cemented' = cemented /\ stored' \subseteq stored
             /\ Undoing /\ rollback_stack' = rollback_stack
             /\ rollback_list' = rollback_list \cup {head}
  <2>1. PICK h, a, info : Undoes(h, a, info)
    BY <1>2 DEF Step
  <2>2. cemented' = cemented /\ stored' = stored \ {h}
    BY <2>1, UndoesSets
  <2> QED BY <1>2, <2>2, UndoList
<1>3. ASSUME CementResolve \/ PruneStep PROVE FALSE
  BY <1>3, SMTT(30) DEF CementResolve, PruneStep, CementPop
<1>4. ASSUME Quiet
      PROVE  \/ \E h \in Hash : RollbackBegin(h)
             \/ RollbackReturn /\ Len(rollback_stack) # 1
             \/ RollbackDestination
             \/ UNCHANGED vars
  <2>1. ~RollbackEnd
    BY DEF RollbackEnd
  <2>2. ~RollbackPenetrates /\ ~RollbackTooDeep /\ ~RollbackFails
    BY <2>1 DEF RollbackPenetrates, RollbackTooDeep, RollbackFails
  <2>3. RollbackReturn => Len(rollback_stack) # 1
    BY <2>1 DEF RollbackReturn
  <2>4. ~CementDescend /\ ~CementSkip /\ ~CementResume /\ ~PruneResume
    BY SMTT(30) DEF CementDescend, CementSkip, CementResume, PruneResume, CementPop
  <2>5. \A h \in Hash : ~CementBegin(h) /\ ~PruneBegin(h)
    BY DEF CementBegin, PruneBegin
  <2> QED BY <1>4, <2>2, <2>3, <2>4, <2>5 DEF Quiet
<1>5. ASSUME Quiet PROVE cemented' = cemented /\ stored' = stored
  <2>1. UNCHANGED tables => stored' = stored
    BY SameTables
  <2>2. UNCHANGED tables
    BY <1>4, <1>5, SMTT(30) DEF RollbackBegin, RollbackReturn, RollbackDestination, vars
  <2> QED BY <1>5, <2>1, <2>2, QuietStep
<1>6. CASE Quiet
  <2>1. ASSUME NEW h \in Hash, RollbackBegin(h)
        PROVE  rollback_stack' = <<h>> /\ rollback_list' = {}
    BY <2>1 DEF RollbackBegin
  <2>2. ASSUME RollbackReturn, Len(rollback_stack) # 1
        PROVE  /\ writer = "rollback" /\ rollback_stack' = Front(rollback_stack)
               /\ rollback_list' = rollback_list
    BY <2>2 DEF RollbackReturn
  <2>3. RollbackDestination => writer = "rollback"
    BY DEF RollbackDestination, Undoing
  <2>4. UNCHANGED vars => /\ writer = "rollback" /\ rollback_stack' = rollback_stack
                          /\ rollback_list' = rollback_list
    BY DEF vars, rollbackVars
  <2> QED BY <1>4, <1>5, <1>6, <2>1, <2>2, <2>3, <2>4
<1> QED BY <1>1, <1>2, <1>3, <1>6, StepShapes

(* The outermost call may find its target cemented, before it undoes
   anything; whatever is on the stack after that is uncemented.  All that
   the calls are about depends on the target of the outermost one. *)
Nested ==
    writer = "rollback" =>
        \/ Len(rollback_stack) = 1 /\ rollback_list = {}
        \/ \A x \in entries(rollback_stack) : x \in stored => x \notin cemented

Above ==
    writer = "rollback" =>
        \A x \in entries(rollback_stack) \cup rollback_list : rollback_stack[1] \in Ancestry[x]

(* When a block is undone, all targets on the stack are uncemented. *)
LEMMA UndoingUncemented ==
    ASSUME IInv, Nested, Undoing
    PROVE  \A x \in entries(rollback_stack) : x \in stored => x \notin cemented
<1>1. rollback_stack \in Seq(Hash) /\ rollback_stack # <<>> /\ writer = "rollback"
  BY DEF IInv, TypeOK, Control, Undoing
<1>2. CASE Len(rollback_stack) = 1
  <2>1. entries(rollback_stack) = {target}
    BY <1>1, <1>2, Entries DEF target
  <2> QED BY <2>1, UndoingTarget
<1>3. CASE Len(rollback_stack) # 1
  BY <1>1, <1>3 DEF Nested
<1> QED BY <1>2, <1>3

(* Every step of a rollback preserves both. *)
LEMMA NestedStep ==
    ASSUME IInv, TInv, Nested, Above, Step
    PROVE  Nested' /\ Above'
<1> SUFFICES ASSUME writer' = "rollback"
             PROVE  /\ \/ Len(rollback_stack') = 1 /\ rollback_list' = {}
                       \/ \A x \in entries(rollback_stack') : x \in stored' => x \notin cemented'
                    /\ \A x \in entries(rollback_stack') \cup rollback_list' :
                          rollback_stack'[1] \in Ancestry[x]
  BY DEF Nested, Above, entries
<1>1. rollback_stack \in Seq(Hash) /\ rollback_list \subseteq Hash
  BY DEF IInv, TypeOK
<1>2. ASSUME NEW h \in Hash, rollback_stack' = <<h>>, rollback_list' = {}
      PROVE  /\ Len(rollback_stack') = 1 /\ rollback_list' = {}
             /\ \A x \in entries(rollback_stack') \cup rollback_list' :
                  rollback_stack'[1] \in Ancestry[x]
  <2>1. Len(<<h>>) = 1 /\ <<h>>[1] = h
    BY SMTT(30)
  <2>2. entries(<<h>>) = {h}
    BY SMTT(30) DEF entries
  <2> QED BY <1>2, <2>1, <2>2, AncestryFacts
<1>3. ASSUME writer = "rollback"
      PROVE  /\ rollback_stack # <<>>
             /\ \A x \in entries(rollback_stack) \cup rollback_list : rollback_stack[1] \in Ancestry[x]
  BY <1>3 DEF Above, IInv, Control
<1>4. ASSUME writer = "rollback", cemented' = cemented, stored' \subseteq stored,
             rollback_stack' = rollback_stack, rollback_list' = rollback_list
      PROVE  /\ \/ Len(rollback_stack') = 1 /\ rollback_list' = {}
                \/ \A x \in entries(rollback_stack') : x \in stored' => x \notin cemented'
             /\ \A x \in entries(rollback_stack') \cup rollback_list' :
                  rollback_stack'[1] \in Ancestry[x]
  BY <1>3, <1>4 DEF Nested
<1>5. ASSUME writer = "rollback", cemented' = cemented, stored' \subseteq stored,
             Len(rollback_stack) # 1, rollback_stack' = Front(rollback_stack),
             rollback_list' = rollback_list
      PROVE  /\ \A x \in entries(rollback_stack') : x \in stored' => x \notin cemented'
             /\ \A x \in entries(rollback_stack') \cup rollback_list' :
                  rollback_stack'[1] \in Ancestry[x]
  <2>1. /\ entries(Front(rollback_stack)) \subseteq entries(rollback_stack)
        /\ Front(rollback_stack)[1] = rollback_stack[1]
    BY <1>1, <1>3, <1>5, Entries
  <2>2. \A x \in entries(rollback_stack) : x \in stored => x \notin cemented
    BY <1>5 DEF Nested
  <2> QED BY <1>3, <1>5, <2>1, <2>2
<1>6. ASSUME Undoing
      PROVE  /\ writer = "rollback" /\ target \in entries(rollback_stack) /\ head \in Hash
             /\ rollback_stack[1] \in entries(rollback_stack) /\ entries(rollback_stack) \subseteq Hash
             /\ rollback_stack[1] \in Ancestry[head]
  <2>1. /\ writer = "rollback" /\ target \in entries(rollback_stack)
        /\ rollback_stack[1] \in entries(rollback_stack) /\ entries(rollback_stack) \subseteq Hash
    BY <1>1, <1>3, <1>6, Entries DEF Undoing, target
  <2>2. rollback_stack[1] \in Ancestry[target]
    BY <1>3, <2>1
  <2>3. target \in Ancestry[head] /\ head \in Hash
    BY <1>6, UndoingTarget, AcceptedFields
  <2>4. rollback_stack[1] \in Ancestry[head]
    BY <2>1, <2>2, <2>3, AncestryFacts
  <2> QED BY <2>1, <2>3, <2>4
<1>7. ASSUME RollbackDestination, cemented' = cemented, stored' \subseteq stored
      PROVE  /\ \A x \in entries(rollback_stack') : x \in stored' => x \notin cemented'
             /\ \A x \in entries(rollback_stack') \cup rollback_list' :
                  rollback_stack'[1] \in Ancestry[x]
  <2>1. PICK next : next = account_head(Block[head].link)
    OBVIOUS
  <2>2. /\ Undoing /\ head_is_send /\ ~receivable(Block[head].link, head)
        /\ rollback_stack' = Append(rollback_stack, next) /\ rollback_list' = rollback_list
    BY <1>7, <2>1 DEF RollbackDestination
  <2>3. next \in stored /\ next \notin cemented /\ head \in Ancestry[next]
    BY <2>1, <2>2, ReceiverUncemented
  <2>4. next \in Hash
    BY <2>3, AcceptedFields
  <2>5. /\ entries(Append(rollback_stack, next)) = entries(rollback_stack) \cup {next}
        /\ Append(rollback_stack, next)[1] = rollback_stack[1]
    BY <1>1, <1>3, <1>6, <2>2, <2>4, Entries
  <2>6. \A x \in entries(rollback_stack) : x \in stored => x \notin cemented
    BY <2>2, UndoingUncemented
  <2>7. rollback_stack[1] \in Ancestry[next]
    BY <1>6, <2>2, <2>3, <2>4, AncestryFacts
  <2> QED BY <1>3, <1>6, <1>7, <2>2, <2>3, <2>5, <2>6, <2>7
<1>8. ASSUME Undoing, cemented' = cemented, stored' \subseteq stored,
             rollback_stack' = rollback_stack, rollback_list' = rollback_list \cup {head}
      PROVE  /\ \A x \in entries(rollback_stack') : x \in stored' => x \notin cemented'
             /\ \A x \in entries(rollback_stack') \cup rollback_list' :
                  rollback_stack'[1] \in Ancestry[x]
  <2>1. \A x \in entries(rollback_stack) : x \in stored => x \notin cemented
    BY <1>8, UndoingUncemented
  <2> QED BY <1>3, <1>6, <1>8, <2>1
<1> QED BY <1>2, <1>4, <1>5, <1>7, <1>8, RollbackShapes

(* A nested call is never refused. *)
LEMMA NestedAllows ==
    ASSUME IInv, TInv, Nested
    PROVE  RollbackAllOrNothing
<1>1. ASSUME writer = "rollback", block_exists(target), ~rollback_allowed
      PROVE  Len(rollback_stack) = 1 /\ rollback_list = {}
  <2>1. target \in stored /\ target \in entries(rollback_stack)
    <3>1. rollback_stack \in Seq(Hash) /\ rollback_stack # <<>>
      BY <1>1 DEF IInv, TypeOK, Control
    <3> QED BY <1>1, <3>1, Entries DEF target, stored, block_exists
  <2>2. /\ blocks[target].account \in Account /\ blocks[target].height \in Nat
        /\ confirmation_height[blocks[target].account].height \in Nat
    BY <2>1, StoredFields, ConfirmedBelowHead
  <2>3. blocks[target].height <= confirmation_height[blocks[target].account].height
    BY <1>1, <2>2, SMTT(30) DEF rollback_allowed
  <2>4. target \in cemented
    <3>1. target \notin pruned
      BY <2>1, AcceptedClosed
    <3> QED BY <2>1, <2>3, <3>1, CementedStored
  <2> QED BY <1>1, <2>1, <2>4 DEF Nested
<1>2. ASSUME Undoing, head_is_send, ~receivable(Block[head].link, head)
      PROVE  block_exists(account_head(Block[head].link))
  BY <1>2, ReceiverUncemented DEF stored
<1> QED BY <1>1, <1>2 DEF RollbackAllOrNothing

(* Nested and Above hold in every state. *)
THEOREM RollbackInvariance == Spec => [](IInv /\ TInv /\ Nested /\ Above)
<1>1. Init => Nested /\ Above
  BY DEF Init, Nested, Above
<1>2. IInv /\ TInv /\ Nested /\ Above /\ [Next]_vars => Nested' /\ Above'
  BY StepOf, NestedStep
<1> QED BY <1>1, <1>2, TablesInvariance, PTL DEF Spec

(* Only the outermost call of rollback finds its target cemented, before
   anything was undone, and a nested call finds a head to undo. *)
THEOREM AllOrNothing == Spec => []RollbackAllOrNothing
BY NestedAllows, RollbackInvariance, PTL

(* Every block that rollback removes depends on the target of the call. *)
THEOREM OnlyDependents == Spec => []RollbackOnlyDependents
<1>1. Above => RollbackOnlyDependents
  BY DEF Above, RollbackOnlyDependents
<1> QED BY <1>1, RollbackInvariance, PTL

-----------------------------------------------------------------------------
(* ledger::cement.                                                         *)

(* The steps of cement, and the steps of others: these leave the state of
   cement, and the lock stays with cement or away from it. *)
LEMMA CementShapes ==
    ASSUME IInv, Step
    PROVE  \/ \E h \in Hash : CementBegin(h)
           \/ CementDescend \/ CementSkip \/ CementResolve \/ CementResume
           \/ /\ UNCHANGED <<cement_target, cement_stack, cement_count>>
              /\ \/ writer # "cement" /\ writer' # "cement"
                 \/ writer' = writer /\ accepted' = accepted /\ cemented' = cemented
<1> DEFINE Others == /\ UNCHANGED <<cement_target, cement_stack, cement_count>>
                     /\ writer # "cement" /\ writer' # "cement"
<1>1. ASSUME NEW h \in Hash, Process(h) PROVE Others
  <2>1. PICK a, sb, info : put_block(h, a, sb, info)
    BY <1>1 DEF Step, Appends
  <2> QED BY <1>1, <2>1 DEF Process, put_block, cementVars
<1>2. ASSUME UndoSend \/ UndoReceive \/ UndoChange \/ UndoState PROVE Others
  BY <1>2, UndoList DEF Undoing, cementVars
<1>3. ASSUME PruneStep PROVE Others
  <2>1. writer = "prune" /\ writer' \in {"none", "prune"} /\ UNCHANGED cementVars
    BY <1>3, SMTT(30) DEF PruneStep
  <2> QED BY <2>1 DEF cementVars
<1>4. ASSUME RollbackEnd, writer = "rollback" PROVE Others
  BY <1>4 DEF RollbackEnd, cementVars
<1>5. ASSUME RollbackReturn \/ RollbackPenetrates \/ RollbackTooDeep \/ RollbackFails PROVE Others
  <2>1. CASE RollbackEnd
    BY <1>4, <1>5, <2>1 DEF RollbackReturn, RollbackPenetrates, RollbackTooDeep, RollbackFails, Undoing
  <2>2. CASE RollbackReturn /\ ~RollbackEnd
    BY <2>2 DEF RollbackReturn, cementVars
  <2> QED BY <1>5, <2>1, <2>2 DEF RollbackPenetrates, RollbackTooDeep, RollbackFails
<1>6. ASSUME RollbackDestination \/ PruneResume PROVE Others
  BY <1>6 DEF RollbackDestination, PruneResume, Undoing, cementVars
<1>7. ASSUME NEW h \in Hash, RollbackBegin(h) \/ PruneBegin(h) PROVE Others
  BY <1>7 DEF RollbackBegin, PruneBegin, cementVars
<1>8. ASSUME UNCHANGED vars
      PROVE  /\ UNCHANGED <<cement_target, cement_stack, cement_count>>
             /\ writer' = writer /\ accepted' = accepted /\ cemented' = cemented
  BY <1>8, QuietStep DEF vars, cementVars, Quiet
<1> HIDE DEF Others
<1>9. Quiet => \/ \E h \in Hash : CementBegin(h)
               \/ CementDescend \/ CementSkip \/ CementResume \/ Others \/ UNCHANGED vars
  BY <1>5, <1>6, <1>7 DEF Quiet
<1>10. \/ \E h \in Hash : CementBegin(h)
       \/ CementDescend \/ CementSkip \/ CementResolve \/ CementResume
       \/ Others \/ UNCHANGED vars
  BY <1>1, <1>2, <1>3, <1>9, StepShapes
<1> QED BY <1>8, <1>10 DEF Others

(* A push adds an unresolved block. *)
LEMMA PushEntries ==
    ASSUME NEW s \in Seq(Hash), s # <<>>, NEW h
    PROVE  \A x \in entries(push_unresolved(s, h)) : x \in entries(s) \/ (x = h /\ ~dep_resolved(h))
<1>1. CASE dep_resolved(h)
  BY <1>1 DEF push_unresolved
<1>2. CASE ~dep_resolved(h)
  <2>1. h \in Hash
    BY <1>2 DEF dep_resolved, block_exists
  <2>2. PICK t \in Seq(Hash) : t \in {Tail(s), s} /\ push_unresolved(s, h) = Append(t, h)
    BY <1>2, HeadTailProperties DEF push_unresolved, push
  <2>3. entries(t) \subseteq entries(s)
    BY <2>2, Entries
  <2>4. entries(Append(t, h)) = entries(t) \cup {h}
    BY <2>1, <2>2, Entries
  <2> QED BY <1>2, <2>2, <2>3, <2>4
<1> QED BY <1>1, <1>2

(* An unresolved block is in the ledger, and not cemented. *)
LEMMA Unresolved ==
    ASSUME IInv, NEW h, ~dep_resolved(h)
    PROVE  h \in stored /\ h \in Hash /\ h \notin cemented
<1>1. block_exists(h) /\ ~cemented_block_exists(h) /\ h \in Hash
  BY DEF dep_resolved, block_exists
<1>2. h \in stored
  BY <1>1 DEF stored
<1>3. h \notin pruned
  BY <1>2, AcceptedClosed
<1> QED BY <1>1, <1>2, <1>3 DEF cemented, cemented_block_exists_or_pruned

(* While cement has the lock its target is in the ledger, although it may
   be rolled back while the lock is released. *)
Target == writer = "cement" => cement_target \in accepted

(* The stack holds the target and what it depends on, whatever was dropped
   from a full stack. *)
Below ==
    cement_stack # <<>> =>
        cement_target \in Hash /\ entries(cement_stack) \subseteq Ancestry[cement_target]

(* Until a block was cemented the lock is not released, and the stack holds
   uncemented blocks unless the target was cemented from the start. *)
Counting ==
    /\ cement_stack # <<>> /\ writer # "cement" => cement_count # 0
    /\ cement_stack # <<>> /\ cement_count = 0 =>
          \/ cement_target \in cemented /\ cement_stack = <<cement_target>>
          \/ \A x \in entries(cement_stack) : x \notin cemented

(* What is on the stack after an iteration that descends. *)
LEMMA DescendEntries ==
    ASSUME IInv, CementDescend
    PROVE  /\ top \in entries(cement_stack) /\ top \in Hash
           /\ \E d \in Dependencies[top] : d \notin cemented
           /\ \A x \in entries(cement_stack') :
                \/ x \in entries(cement_stack)
                \/ x \in Dependencies[top] /\ x \notin cemented
<1>1. cement_stack \in Seq(Hash) /\ cement_stack # <<>>
  BY DEF IInv, TypeOK, Control, CementDescend
<1>2. top \in entries(cement_stack) /\ top \in Hash
  BY <1>1, Entries DEF top
<1>3. \E d \in Dependencies[top] : d \notin cemented
  BY Unresolved DEF CementDescend
<1> DEFINE s == push_unresolved(cement_stack, Block[top].previous)
<1>4. s \in Seq(Hash) /\ s # <<>>
  BY <1>1, PushType
<1>5. cement_stack' = push_unresolved(s, Block[top].link)
  BY DEF CementDescend
<1>6. \A x \in entries(s) :
        x \in entries(cement_stack) \/ (x = Block[top].previous /\ ~dep_resolved(Block[top].previous))
  BY <1>1, PushEntries
<1> HIDE DEF s
<1>7. \A x \in entries(cement_stack') :
        x \in entries(s) \/ (x = Block[top].link /\ ~dep_resolved(Block[top].link))
  BY <1>4, <1>5, PushEntries
<1>8. ASSUME NEW x, x = Block[top].previous \/ x = Block[top].link, ~dep_resolved(x)
      PROVE  x \in Dependencies[top] /\ x \notin cemented
  <2>1. x \in Hash /\ x \notin cemented
    BY <1>8, Unresolved
  <2> QED BY <1>2, <1>8, <2>1, DependenciesType
<1> QED BY <1>2, <1>3, <1>6, <1>7, <1>8

(* What is on the stack after one that resolves its top, or gives up. *)
LEMMA PopEntries ==
    ASSUME IInv, CementSkip \/ CementResolve \/ CementResume
    PROVE  /\ cement_stack # <<>> /\ cement_target' = cement_target
           /\ entries(cement_stack') \subseteq entries(cement_stack)
           /\ CementSkip => cement_stack' = Front(cement_stack)
<1>1. cement_stack \in Seq(Hash)
  BY DEF IInv, TypeOK
<1>2. cement_stack # <<>> /\ cement_target' = cement_target
  BY DEF CementSkip, CementResolve, CementResume, IInv, Control
<1>3. entries(<<>>) = {}
  BY SMTT(30) DEF entries
<1>4. cement_stack' \in {Front(cement_stack), <<>>, cement_stack}
  BY SMTT(30) DEF CementSkip, CementResolve, CementResume, CementPop
<1>5. entries(Front(cement_stack)) \subseteq entries(cement_stack)
  BY <1>1, <1>2, Entries
<1>6. entries(cement_stack') \subseteq entries(cement_stack)
  BY <1>3, <1>4, <1>5
<1>7. CementSkip => cement_stack' = Front(cement_stack)
  BY DEF CementSkip, CementPop
<1> QED BY <1>2, <1>6, <1>7

(* The target is in the ledger, and the stack below it. *)
LEMMA BelowStep ==
    ASSUME IInv, Target, Below, Step
    PROVE  Target' /\ Below'
<1> SUFFICES /\ writer' = "cement" => cement_target' \in accepted'
             /\ cement_stack' # <<>> =>
                  cement_target' \in Hash /\ entries(cement_stack') \subseteq Ancestry[cement_target']
  BY DEF Target, Below, entries
<1>1. ASSUME NEW h \in Hash, CementBegin(h)
      PROVE  cement_target' \in accepted' /\ entries(cement_stack') \subseteq Ancestry[cement_target']
             /\ cement_target' \in Hash
  <2>1. entries(<<h>>) = {h}
    BY SMTT(30) DEF entries
  <2>2. h \in accepted /\ cement_target' = h /\ cement_stack' = <<h>>
    BY <1>1 DEF CementBegin, stored, accepted
  <2>3. accepted' = accepted
    BY <1>1, QuietStep DEF Quiet
  <2> QED BY <2>1, <2>2, <2>3, AncestryFacts
<1>2. CASE CementDescend
  <2>1. /\ cement_target' = cement_target /\ writer = "cement" /\ cement_stack # <<>>
    BY <1>2 DEF CementDescend, IInv, Control
  <2>2. accepted' = accepted
    BY <1>2, QuietStep DEF Quiet
  <2>3. cement_target \in Hash /\ entries(cement_stack) \subseteq Ancestry[cement_target]
    BY <2>1 DEF Below
  <2>4. ASSUME NEW x \in Dependencies[top] PROVE x \in Ancestry[cement_target]
    <3>1. top \in Hash /\ top \in Ancestry[cement_target] /\ x \in Hash
      BY <1>2, <2>3, DescendEntries, DependenciesType
    <3>2. x \in Ancestry[top]
      BY <3>1, AncestryFacts
    <3> QED BY <2>3, <3>1, <3>2, AncestryFacts
  <2>5. \A x \in entries(cement_stack') : x \in entries(cement_stack) \/ x \in Dependencies[top]
    BY <1>2, DescendEntries
  <2> QED BY <2>1, <2>2, <2>3, <2>4, <2>5 DEF Target
<1>3. CASE CementSkip \/ CementResolve \/ CementResume
  <2>1. /\ cement_stack # <<>> /\ cement_target' = cement_target
        /\ entries(cement_stack') \subseteq entries(cement_stack)
    BY <1>3, PopEntries
  <2>2. accepted' = accepted
    BY <1>3, QuietStep, ResolveSets DEF Quiet
  <2>3. ASSUME CementResume, writer' = "cement" PROVE cement_target \in accepted
    BY <2>3, SMTT(30) DEF CementResume, CementPop, block_exists, stored, accepted
  <2>4. ASSUME CementSkip \/ CementResolve PROVE cement_target \in accepted
    BY <2>4 DEF CementSkip, CementResolve, Target
  <2> QED BY <1>3, <2>1, <2>2, <2>3, <2>4 DEF Below
<1>4. CASE /\ UNCHANGED <<cement_target, cement_stack, cement_count>>
           /\ \/ writer # "cement" /\ writer' # "cement"
              \/ writer' = writer /\ accepted' = accepted /\ cemented' = cemented
  BY <1>4 DEF Target, Below
<1> QED BY <1>1, <1>2, <1>3, <1>4, CementShapes

(* A top that is skipped before anything was cemented is the target. *)
LEMMA SkipsTarget ==
    ASSUME IInv, Counting, CementSkip, cement_count = 0
    PROVE  cement_target \in cemented /\ Front(cement_stack) = <<>>
<1>1. cement_stack \in Seq(Hash) /\ cement_stack # <<>> /\ cemented_block_exists_or_pruned(top)
  BY DEF CementSkip, IInv, TypeOK, Control
<1>2. top \in entries(cement_stack) /\ top \in Hash
  BY <1>1, Entries DEF top
<1>3. top \in cemented
  BY <1>1, <1>2 DEF cemented
<1>4. cement_target \in cemented /\ cement_stack = <<cement_target>>
  BY <1>1, <1>2, <1>3 DEF Counting
<1>5. \A x : Front(<<x>>) = <<>>
  BY SMTT(30) DEF Front
<1> QED BY <1>4, <1>5

(* What cement counted. *)
LEMMA CountingStep ==
    ASSUME IInv, Counting, Step
    PROVE  Counting'
<1> SUFFICES /\ cement_stack' # <<>> /\ writer' # "cement" => cement_count' # 0
             /\ cement_stack' # <<>> /\ cement_count' = 0 =>
                   \/ cement_target' \in cemented' /\ cement_stack' = <<cement_target'>>
                   \/ \A x \in entries(cement_stack') : x \notin cemented'
  BY DEF Counting, entries
<1>1. ASSUME NEW h \in Hash, CementBegin(h)
      PROVE  /\ writer' = "cement" /\ cement_stack' = <<cement_target'>>
             /\ cement_target' \notin cemented' =>
                   \A x \in entries(cement_stack') : x \notin cemented'
  <2>1. entries(<<h>>) = {h}
    BY SMTT(30) DEF entries
  <2> QED BY <1>1, <2>1 DEF CementBegin
<1>2. CASE CementDescend
  <2>1. /\ cement_target' = cement_target /\ writer = "cement" /\ cement_stack # <<>>
        /\ writer' = writer /\ cement_count' = cement_count
    BY <1>2 DEF CementDescend, IInv, Control
  <2>2. cemented' = cemented
    BY <1>2, QuietStep DEF Quiet
  <2>3. top \in entries(cement_stack) /\ top \in Hash /\ top \notin cemented
    BY <1>2, DescendEntries, AcceptedClosed
  <2>4. ASSUME cement_count = 0 PROVE \A x \in entries(cement_stack) : x \notin cemented
    <3>1. ASSUME cement_target \in cemented, cement_stack = <<cement_target>> PROVE FALSE
      <4>1. entries(<<cement_target>>) = {cement_target}
        BY SMTT(30) DEF entries
      <4> QED BY <2>3, <3>1, <4>1
    <3> QED BY <2>1, <2>4, <3>1 DEF Counting
  <2>5. \A x \in entries(cement_stack') : x \in entries(cement_stack) \/ x \notin cemented
    BY <1>2, DescendEntries
  <2> QED BY <2>1, <2>2, <2>4, <2>5
<1>3. CASE CementSkip
  <2>1. cement_count = 0 => Front(cement_stack) = <<>>
    BY <1>3, SkipsTarget
  <2>2. /\ cement_stack' = Front(cement_stack) /\ cement_count' = cement_count
        /\ cement_stack' # <<>> => writer' = "cement"
    BY <1>3 DEF CementSkip, CementPop
  <2> QED BY <2>1, <2>2
<1>4. CASE CementResolve
  <2>1. cement_count \in Nat /\ cement_count' = cement_count + 1
    BY <1>4 DEF CementResolve, cement_one, IInv, TypeOK
  <2>2. cement_count' # 0
    BY <2>1, SMTT(30)
  <2> QED BY <2>2
<1>5. CASE CementResume
  BY <1>5 DEF CementResume, Counting
<1>6. CASE /\ UNCHANGED <<cement_target, cement_stack, cement_count>>
           /\ \/ writer # "cement" /\ writer' # "cement"
              \/ writer' = writer /\ accepted' = accepted /\ cemented' = cemented
  BY <1>6 DEF Counting
<1> QED BY <1>1, <1>2, <1>3, <1>4, <1>5, <1>6, CementShapes

(* What cement meets is in the ledger, and the next of its account. *)
LEMMA BelowLedger ==
    ASSUME IInv, Target, Below
    PROVE  CementsLedgerBlocks
<1> SUFFICES ASSUME writer = "cement"
             PROVE  /\ top \in accepted
                    /\ top \in stored \ cemented /\ (\A d \in Dependencies[top] : dep_resolved(d)) =>
                         blocks[top].height = confirmation_height[blocks[top].account].height + 1
  BY DEF CementsLedgerBlocks
<1>1. cement_stack \in Seq(Hash) /\ cement_stack # <<>>
  BY DEF IInv, TypeOK, Control
<1>2. top \in Ancestry[cement_target]
  BY <1>1, Entries DEF Below, top
<1>3. cement_target \in accepted /\ accepted \in SUBSET Hash
  BY AcceptedFields DEF Target
<1>4. \A x \in accepted : Dependencies[x] \subseteq accepted
  BY AcceptedClosed
<1>5. top \in accepted
  BY <1>2, <1>3, <1>4, AncestryFacts
<1>6. ASSUME top \in stored \ cemented, \A d \in Dependencies[top] : dep_resolved(d)
      PROVE  blocks[top].height = confirmation_height[blocks[top].account].height + 1
  <2>1. block_exists(top) /\ ~cemented_block_exists(top)
    BY <1>6 DEF stored, cemented, cemented_block_exists_or_pruned
  <2> QED BY <1>6, <2>1, ResolvedNext
<1> QED BY <1>5, <1>6

(* The call of cement that ends cemented a block, or its target was cemented. *)
LEMMA CountingProgress ==
    ASSUME IInv, Counting, Step
    PROVE  [cement_stack # <<>> /\ cement_stack' = <<>> =>
               cement_count' > 0 \/ cement_target \in cemented']_vars
<1> SUFFICES ASSUME cement_stack # <<>>, cement_stack' = <<>>
             PROVE  cement_count' > 0 \/ cement_target \in cemented'
  OBVIOUS
<1>1. cement_count \in Nat
  BY DEF IInv, TypeOK
<1>2. ~\E h \in Hash : CementBegin(h)
  BY DEF CementBegin
<1>3. ~CementDescend
  <2>1. CementDescend => cement_stack' # <<>>
    BY PushType DEF CementDescend, IInv, TypeOK
  <2> QED BY <2>1
<1>4. CASE CementSkip
  <2>1. cement_count' = cement_count /\ cemented' = cemented
    BY <1>4, QuietStep DEF CementSkip, Quiet
  <2>2. cement_count = 0 => cement_target \in cemented
    BY <1>4, SkipsTarget
  <2> QED BY <1>1, <2>1, <2>2, SMTT(30)
<1>5. CASE CementResolve
  BY <1>1, <1>5, SMTT(30) DEF CementResolve, cement_one
<1>6. CASE CementResume
  <2>1. cement_count' = cement_count /\ cement_count # 0
    BY <1>6 DEF CementResume, Counting
  <2> QED BY <1>1, <2>1, SMTT(30)
<1> QED BY <1>2, <1>3, <1>4, <1>5, <1>6, CementShapes

(* The state of cement, in every state. *)
THEOREM CementInvariance == Spec => [](IInv /\ Target /\ Below /\ Counting)
<1>1. Init => Target /\ Below /\ Counting
  BY DEF Init, Target, Below, Counting
<1>2. IInv /\ Target /\ Below /\ Counting /\ [Next]_vars => Target' /\ Below' /\ Counting'
  BY StepOf, BelowStep, CountingStep
<1> QED BY <1>1, <1>2, Invariance, PTL DEF Spec

(* cement meets only blocks of the ledger, and the one it is about to cement
   is the next of its account. *)
THEOREM CementsLedger == Spec => []CementsLedgerBlocks
BY BelowLedger, CementInvariance, PTL

(* A call of cement that ends has cemented a block or its target was
   cemented. *)
THEOREM CementsSomething == Spec => CementProgresses
<1>1. IInv /\ Counting /\ [Next]_vars =>
        [cement_stack # <<>> /\ cement_stack' = <<>> =>
            cement_count' > 0 \/ cement_target \in cemented']_vars
  BY StepOf, CountingProgress
<1> QED BY <1>1, CementInvariance, PTL DEF Spec, CementProgresses

-----------------------------------------------------------------------------
(* A ledger that does not prune.                                           *)

Unpruned == pruned = {} /\ prune_hash = Zero /\ failed = FALSE

(* Every stored block has a stored setter below it. *)
LEMMA UnprunedSetters ==
    ASSUME IInv, Adjacent, pruned = {}, NEW x \in stored
    PROVE  setters[x] # {}
<1> DEFINE T == {z \in stored : setters[z] = {}}
<1> SUFFICES ASSUME T # {} PROVE FALSE
  OBVIOUS
<1>1. PICK z \in T : \A y \in T : blocks[z].height <= blocks[y].height
  <2>1. T \subseteq stored
    OBVIOUS
  <2> HIDE DEF T
  <2> QED BY <2>1, LowestBlock
<1>2. z \in stored /\ setters[z] = {} /\ z \in Hash /\ z \in Hash0
  BY <1>1, StoredFields DEF Hash0
<1>3. Block[z].type \in {"send", "receive"}
  BY <1>2, SetterUnique
<1>4. Block[z].previous # Zero
  <2>1. Block[z].account = Zero
    BY <1>2, <1>3, LegacyAssumption
  <2>2. Block[z].previous = Zero => Block[z].account \in Account
    BY <1>2, StoredFields DEF IInv, Linked
  <2> QED BY <2>1, <2>2, UniverseAssumption
<1>5. PICK q : q = Block[z].previous
  OBVIOUS
<1>6. q \in stored /\ blocks[q].height + 1 = blocks[z].height
  <2>1. q \in accepted
    BY <1>2, <1>4, <1>5 DEF IInv, Linked
  <2>2. q \in stored
    BY <2>1 DEF accepted
  <2> QED BY <1>2, <1>4, <1>5, <2>2 DEF IInv, Linked
<1>7. setters[q] = {}
  BY <1>2, <1>3, <1>5, SetterPrevious
<1>8. blocks[z].height <= blocks[q].height
  BY <1>1, <1>6, <1>7
<1>9. blocks[q].height \in Nat /\ \A n \in Nat : ~(n + 1 <= n)
  BY <1>6, StoredFields, SMTT(30)
<1> QED BY <1>6, <1>8, <1>9

(* A rollback that restores a representative finds the block that set it. *)
LEMMA RollbackFinds ==
    ASSUME IInv, Adjacent, pruned = {}, RollbackFails
    PROVE  FALSE
<1>1. /\ Undoing /\ Block[head].previous # Zero
      /\ representative_block[Block[head].previous] = Zero
  BY DEF RollbackFails
<1>2. PICK h, q : h = head /\ q = Block[h].previous
  OBVIOUS
<1>3. h \in stored
  BY <1>1, <1>2, UndoingHead
<1>4. q \in accepted
  BY <1>1, <1>2, <1>3 DEF IInv, Linked
<1>5. q \in stored /\ q \in Hash0
  BY <1>4, AcceptedFields DEF accepted, Hash0
<1>6. PICK r \in setters[q] : TRUE
  BY <1>5, UnprunedSetters
<1>7. representative_block[q] = r
  BY <1>5, <1>6, RepresentativeFound
<1>8. r \in Hash
  BY <1>5, <1>6, SetterIff, StoredFields
<1> QED BY <1>1, <1>2, <1>7, <1>8, UniverseAssumption

(* Without pruning nothing is pruned and no step fails. *)
LEMMA UnprunedStep ==
    ASSUME ~Pruning, IInv, Adjacent, Unpruned, Step
    PROVE  Unpruned'
<1>1. ASSUME NEW h, NEW a, NEW sb, NEW info, Appends(h, a, sb, info)
      PROVE  Unpruned'
  BY <1>1 DEF Appends, put_block, Unpruned
<1>2. ASSUME NEW h, NEW a, NEW info, Undoes(h, a, info)
      PROVE  Unpruned'
  BY <1>2 DEF Undoes, del_block, Unpruned
<1>3. CementResolve => Unpruned'
  BY DEF CementResolve, tables, Unpruned
<1>4. ~PruneStep
  BY DEF PruneStep, Unpruned, IInv, Control
<1>5. ~RollbackFails
  BY RollbackFinds DEF Unpruned
<1>6. Quiet => Unpruned'
  <2>1. Quiet => pruned' = pruned
    BY SameTables, QuietTables
  <2>2. Quiet => prune_hash' = Zero /\ failed' = FALSE
    BY <1>5 DEF Quiet, RollbackBegin, CementBegin, PruneBegin, RollbackReturn, RollbackEnd,
       RollbackPenetrates, RollbackDestination, RollbackTooDeep, CementDescend,
       CementSkip, CementResume, PruneResume, vars, Unpruned
  <2> QED BY <2>1, <2>2 DEF Unpruned
<1>7. (\E h \in Hash : Process(h)) => Unpruned'
  BY <1>1 DEF Step
<1>8. UndoSend \/ UndoReceive \/ UndoChange \/ UndoState => Unpruned'
  BY <1>2 DEF Step
<1> QED BY <1>3, <1>4, <1>6, <1>7, <1>8, StepShapes

(* Where pruning is off, representative_block_visitor always reaches the
   block that set the representative: the release_assert that a rollback can
   run into over pruned blocks never fails. *)
THEOREM RepresentativeAlwaysFound ==
    ASSUME ~Pruning
    PROVE  Spec => []RepresentativeBlockFound
<1>1. Init => Unpruned
  BY DEF Init, Unpruned
<1>2. Unpruned /\ (IInv /\ TInv) /\ [Next]_vars => Unpruned'
  BY StepOf, UnprunedStep DEF TInv
<1>3. Unpruned => RepresentativeBlockFound
  BY DEF Unpruned, RepresentativeBlockFound
<1> QED BY <1>1, <1>2, <1>3, TablesInvariance, PTL DEF Spec
=============================================================================
