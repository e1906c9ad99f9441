---------------------------- MODULE LedgerTables ----------------------------
(***************************************************************************)
(* What the tables of the ledger say of themselves and of each other in    *)
(* every state that process, rollback, cement and pruning_action reach.    *)
(* First what the code of ledger::process and of the rollback visitor      *)
(* amounts to: appending and undoing a block.  Then what these do to the   *)
(* successors, pending entries and amounts.                                *)
(***************************************************************************)
EXTENDS LedgerInvariant

(* Time for the solver on a leaf that names no other prover. *)
USE ZenonT(30)

-----------------------------------------------------------------------------
(* ledger::process.                                                        *)

(* The rows next_sideband and next_info compute, and what they say. *)
LEMMA NextRows ==
    ASSUME IInv, NEW h \in Hash, NEW a \in Account, NEW balance \in Int,
           NEW representative \in Account0, NEW epoch \in Nat,
           NEW source_epoch \in Nat, NEW is_send \in BOOLEAN
    PROVE  LET sb == next_sideband(a, balance, epoch, source_epoch, is_send)
               info == next_info(h, a, balance, representative, epoch)
           IN  /\ sb \in Sideband /\ info \in AccountInfo
               /\ sb.account = a /\ sb.height = accounts[a].block_count + 1
               /\ info.head = h /\ info.block_count = accounts[a].block_count + 1
               /\ info.balance = sb.balance /\ sb.balance = balance
               /\ sb.epoch = epoch /\ sb.source_epoch = source_epoch /\ sb.is_send = is_send
               /\ info.representative = representative /\ info.epoch = epoch
               /\ info.open_block = IF accounts[a].open_block = Zero THEN h
                                    ELSE accounts[a].open_block
<1>1. /\ accounts[a].block_count \in Int /\ accounts[a].block_count + 1 \in Nat
      /\ accounts[a].open_block \in Hash0
  BY ConfirmedBelowHead, SMTT(30) DEF IInv, TypeOK, AccountInfo
<1>2. next_sideband(a, balance, epoch, source_epoch, is_send) \in Sideband
  BY <1>1 DEF next_sideband, Sideband, Account0
<1>3. next_info(h, a, balance, representative, epoch) \in AccountInfo
  BY <1>1, SMTT(30) DEF next_info, AccountInfo, Hash0
<1> QED BY <1>2, <1>3 DEF next_info, next_sideband

(* A legacy block that passed the common checks follows a head. *)
LEMMA LegacyFollowsHead ==
    ASSUME IInv, NEW h \in Hash, legacy_chain_status(h) = "progress"
    PROVE  LET a == blocks[Block[h].previous].account
           IN  /\ h \notin accepted /\ Block[h].previous \in stored /\ a \in Account
               /\ accounts[a].head = Block[h].previous /\ accounts[a].head # Zero
               /\ accounts[a].balance \in Int /\ accounts[a].representative \in Account0
               /\ blocks[Block[h].previous].balance \in Int
               /\ Block[Block[h].previous].type # "state"
               /\ accounts[a].balance = blocks[Block[h].previous].balance
<1> DEFINE a == blocks[Block[h].previous].account
<1>1. /\ ~block_exists_or_pruned(h) /\ block_exists(Block[h].previous)
      /\ accounts[a].head = Block[h].previous /\ Block[Block[h].previous].type # "state"
  BY DEF legacy_chain_status, valid_predecessor
<1>2. h \notin accepted /\ Block[h].previous \in stored /\ Block[h].previous \in Hash
  BY <1>1 DEF block_exists_or_pruned, accepted, stored, block_exists
<1>3. a \in Account /\ accounts[a].head # Zero
  BY <1>1, <1>2, UniverseAssumption DEF IInv, Heights
<1>4. /\ accounts[a].balance \in Int /\ accounts[a].representative \in Account0
      /\ blocks[Block[h].previous].balance \in Int
  BY <1>2, <1>3 DEF IInv, TypeOK, AccountInfo, Sideband
<1>5. accounts[a].balance = blocks[Block[h].previous].balance
  BY <1>1, <1>3 DEF IInv, Heads
<1> QED BY <1>1, <1>2, <1>3, <1>4, <1>5

(* The entry a receive takes is the one its checks looked up. *)
LEMMA EntryFound ==
    ASSUME IInv, NEW p \in pending
    PROVE  pending_get(p.account, p.hash) = p
<1>1. \A q \in pending : q.hash = p.hash => q = p
  BY DEF IInv, Receipts
<1> QED BY <1>1 DEF pending_get

(* Writing these rows appends h. *)
LEMMA RowsAppend ==
    ASSUME IInv, NEW h \in Hash, NEW a \in Account, NEW balance \in Int,
           NEW representative \in Account0, NEW epoch \in Nat,
           NEW source_epoch \in Nat, NEW is_send \in BOOLEAN,
           put_block(h, a, next_sideband(a, balance, epoch, source_epoch, is_send),
                     next_info(h, a, balance, representative, epoch)),
           h \notin accepted, rep_weights' \in Weights,
           Carries(h, a, balance, representative, epoch, source_epoch, is_send),
           IF accounts[a].head = Zero
           THEN Block[h].previous = Zero /\ Block[h].account = a
           ELSE Block[h].previous = accounts[a].head,
           Block[h].type \in {"open", "state"} => Block[h].account = a,
           Block[h].type = "state" => balance = Block[h].balance,
           is_send <=> \/ Block[h].type = "send"
                       \/ /\ Block[h].type = "state"
                          /\ Block[h].balance < block_balance(Block[h].previous),
           \/ /\ is_send /\ Block[h].link \notin Hash
              /\ \E p \in PendingEntry : p.hash = h /\ p.source = a /\ pending' = pending \cup {p}
           \/ /\ ~is_send
              /\ \E p \in pending : p.hash = Block[h].link /\ pending' = pending \ {p}
           \/ /\ ~is_send /\ Block[h].link \in {Zero} \cup EpochLink
              /\ pending' = pending
    PROVE  \E b, sb, info : Appends(h, b, sb, info)
<1> DEFINE sb == next_sideband(a, balance, epoch, source_epoch, is_send)
           info == next_info(h, a, balance, representative, epoch)
<1>1. /\ sb \in Sideband /\ info \in AccountInfo
      /\ sb.account = a /\ sb.height = accounts[a].block_count + 1
      /\ info.head = h /\ info.block_count = accounts[a].block_count + 1
      /\ info.balance = sb.balance /\ sb.balance = balance
      /\ sb.epoch = epoch /\ sb.source_epoch = source_epoch /\ sb.is_send = is_send
      /\ info.representative = representative /\ info.epoch = epoch
      /\ info.open_block = IF accounts[a].open_block = Zero THEN h ELSE accounts[a].open_block
  BY NextRows, SMTT(30)
<1>2. put_block(h, a, sb, info)
  OBVIOUS
<1> HIDE DEF sb, info
<1>3. Carries(h, a, sb.balance, info.representative, sb.epoch, sb.source_epoch, sb.is_send)
  BY <1>1
<1>4. Appends(h, a, sb, info)
  BY <1>1, <1>2, <1>3 DEF Appends
<1> QED BY <1>4

(* ledger_processor::send_block appends. *)
LEMMA SendAppends ==
    ASSUME IInv, NEW h \in Hash, SendBlock(h)
    PROVE  \E a, sb, info : Appends(h, a, sb, info)
<1>1. Block[h].type = "send" /\ legacy_chain_status(h) = "progress"
  BY DEF SendBlock, send_status
<1>2. PICK a \in Account : /\ a = blocks[Block[h].previous].account
                           /\ accounts[a].head = Block[h].previous /\ accounts[a].head # Zero
                           /\ accounts[a].balance \in Int
                           /\ accounts[a].representative \in Account0 /\ h \notin accepted
                           /\ Block[Block[h].previous].type # "state"
  BY <1>1, LegacyFollowsHead
<1>3. Block[h].balance \in Int /\ Block[h].balance >= 0
  BY BlockFields, SMTT(30)
<1>4. Block[h].link \in Account0 /\ Block[h].link \notin Hash
  BY <1>1, LegacyAssumption, UniverseAssumption DEF Account0
<1>5. PICK p : /\ p = [account |-> Block[h].link, hash |-> h, source |-> a,
                       amount |-> accounts[a].balance - Block[h].balance, epoch |-> 0]
               /\ pending' = pending \cup {p}
  BY <1>2 DEF SendBlock
<1>6. accounts[a].balance - Block[h].balance \in Int /\ a \in Account0
  BY <1>2, <1>3, SMTT(30) DEF Account0
<1>7. p \in PendingEntry /\ p.hash = h /\ p.source = a
  BY <1>4, <1>5, <1>6, EntryType
<1>8. /\ rep_weights' = sub(rep_weights, accounts[a].representative,
                            accounts[a].balance - Block[h].balance)
      /\ put_block(h, a, next_sideband(a, Block[h].balance, 0, 0, TRUE),
                   next_info(h, a, Block[h].balance, accounts[a].representative, 0))
  BY <1>2 DEF SendBlock
<1>9. rep_weights' \in Weights
  BY <1>2, <1>6, <1>8, SubType DEF IInv, TypeOK
<1>10. Carries(h, a, Block[h].balance, accounts[a].representative, 0, 0, TRUE)
  <2>1. ~(accounts[a].balance < Block[h].balance)
    BY <1>1, <1>2 DEF SendBlock, send_status
  <2>2. Block[h].balance <= accounts[a].balance
    BY <1>2, <1>3, <2>1, SMTT(30)
  <2>3. Shifted(rep_weights, rep_weights', accounts[a].representative, accounts[a].balance,
                accounts[a].representative, Block[h].balance)
    BY <1>2, <1>3, <1>6, <1>8, SubShifts DEF IInv, TypeOK
  <2> QED BY <1>1, <1>2, <1>3, <1>4, <1>5, <2>2, <2>3 DEF Carries
<1> QED BY <1>1, <1>2, <1>3, <1>4, <1>5, <1>7, <1>8, <1>9, <1>10, RowsAppend

(* ledger_processor::receive_block appends. *)
LEMMA ReceiveAppends ==
    ASSUME IInv, NEW h \in Hash, ReceiveBlock(h)
    PROVE  \E a, sb, info : Appends(h, a, sb, info)
<1>1. Block[h].type = "receive" /\ legacy_chain_status(h) = "progress"
  BY DEF ReceiveBlock, receive_status
<1>2. PICK a \in Account : /\ a = blocks[Block[h].previous].account
                           /\ accounts[a].head = Block[h].previous /\ accounts[a].head # Zero
                           /\ accounts[a].balance \in Int
                           /\ accounts[a].representative \in Account0 /\ h \notin accepted
                           /\ Block[Block[h].previous].type # "state"
  BY <1>1, LegacyFollowsHead
<1>3. PICK p \in pending :
        /\ p.account = a /\ p.hash = Block[h].link /\ pending' = pending \ {p}
        /\ put_block(h, a, next_sideband(a, accounts[a].balance + p.amount, 0, 0, FALSE),
                     next_info(h, a, accounts[a].balance + p.amount, accounts[a].representative, 0))
        /\ rep_weights' = add(rep_weights, accounts[a].representative, p.amount)
  BY <1>2 DEF ReceiveBlock
<1>4. p.amount \in Int /\ accounts[a].balance + p.amount \in Int
  BY <1>2, EntryFields, SMTT(30)
<1>5. rep_weights' \in Weights
  BY <1>2, <1>3, <1>4, AddType DEF IInv, TypeOK
<1>6. Carries(h, a, accounts[a].balance + p.amount, accounts[a].representative, 0, 0, FALSE)
  <2>1. p.epoch = 0
    <3>1. pending_get(a, Block[h].link).epoch = 0
      BY <1>1, <1>2 DEF ReceiveBlock, receive_status, legacy_pending_status
    <3> QED BY <1>3, <3>1, EntryFound
  <2>2. PICK n \in Int : n = accounts[a].balance + p.amount /\ n - accounts[a].balance = p.amount
    <3>1. accounts[a].balance \in Int /\ p.amount \in Int
      BY <1>2, <1>4
    <3> QED BY <3>1, SMTT(30)
  <2>3. Shifted(rep_weights, rep_weights', accounts[a].representative, accounts[a].balance,
                accounts[a].representative, accounts[a].balance + p.amount)
    <3>1. Shifted(rep_weights, rep_weights', accounts[a].representative, accounts[a].balance,
                  accounts[a].representative, n)
      BY <1>2, <1>3, <1>4, <2>2, AddShifts DEF IInv, TypeOK
    <3> QED BY <2>2, <3>1
  <2>4. Block[h].link \in Hash
    BY <1>1, LegacyAssumption
  <2> QED BY <1>1, <1>2, <1>3, <2>1, <2>3, <2>4 DEF Carries
<1> QED BY <1>1, <1>2, <1>3, <1>4, <1>5, <1>6, RowsAppend

(* ledger_processor::open_block appends. *)
LEMMA OpenAppends ==
    ASSUME IInv, NEW h \in Hash, OpenBlock(h)
    PROVE  \E a, sb, info : Appends(h, a, sb, info)
<1>1. /\ Block[h].type = "open" /\ ~block_exists_or_pruned(h)
      /\ ~account_exists(Block[h].account) /\ Block[h].account # Zero
  BY DEF OpenBlock, open_status, legacy_pending_status
<1>2. PICK a \in Account : a = Block[h].account
  BY <1>1, BlockFields DEF Account0
<1>3. accounts[a].head = Zero /\ h \notin accepted /\ Block[h].representative \in Account0
  BY <1>1, <1>2, BlockFields DEF account_exists, block_exists_or_pruned, accepted, stored
<1>4. PICK p \in pending :
        /\ p.account = a /\ p.hash = Block[h].link /\ pending' = pending \ {p}
        /\ put_block(h, a, next_sideband(a, p.amount, 0, 0, FALSE),
                     next_info(h, a, p.amount, Block[h].representative, 0))
        /\ rep_weights' = add(rep_weights, Block[h].representative, p.amount)
  BY <1>2 DEF OpenBlock
<1>5. p.amount \in Int
  BY EntryFields
<1>6. rep_weights' \in Weights
  BY <1>3, <1>4, <1>5, AddType DEF IInv, TypeOK
<1>7. Block[h].previous = Zero
  BY <1>1, LegacyAssumption
<1>8. Carries(h, a, p.amount, Block[h].representative, 0, 0, FALSE)
  <2>1. p.epoch = 0
    <3>1. pending_get(a, Block[h].link).epoch = 0
      BY <1>1, <1>2 DEF OpenBlock, open_status, legacy_pending_status
    <3> QED BY <1>4, <3>1, EntryFound
  <2>2. accounts[a].balance = 0 /\ 0 + p.amount = p.amount
    <3>1. accounts[a].balance = 0
      BY <1>3 DEF IInv, Heads
    <3> QED BY <1>5, <3>1, SMTT(30)
  <2>3. Shifted(rep_weights, rep_weights', accounts[a].representative, accounts[a].balance,
                Block[h].representative, p.amount)
    BY <1>3, <1>4, <1>5, <2>2, AddShifts DEF IInv, TypeOK
  <2>4. Block[h].link \in Hash
    <3>1. h # genesis
      BY <1>3 DEF IInv, PrunedBelow, accepted
    <3> QED BY <1>1, <3>1, LegacyAssumption
  <2> QED BY <1>1, <1>2, <1>4, <1>7, <2>1, <2>2, <2>3, <2>4, UniverseAssumption DEF Carries
<1> QED BY <1>1, <1>2, <1>3, <1>4, <1>5, <1>6, <1>7, <1>8, RowsAppend

(* ledger_processor::change_block appends. *)
LEMMA ChangeAppends ==
    ASSUME IInv, NEW h \in Hash, ChangeBlock(h)
    PROVE  \E a, sb, info : Appends(h, a, sb, info)
<1>1. Block[h].type = "change" /\ legacy_chain_status(h) = "progress"
  BY DEF ChangeBlock, change_status
<1>2. PICK a \in Account : /\ a = blocks[Block[h].previous].account
                           /\ accounts[a].head = Block[h].previous /\ accounts[a].head # Zero
                           /\ accounts[a].balance \in Int
                           /\ accounts[a].representative \in Account0 /\ h \notin accepted
                           /\ accounts[a].balance = blocks[Block[h].previous].balance
                           /\ Block[Block[h].previous].type # "state"
  BY <1>1, LegacyFollowsHead
<1>3. /\ put_block(h, a, next_sideband(a, accounts[a].balance, 0, 0, FALSE),
                   next_info(h, a, accounts[a].balance, Block[h].representative, 0))
      /\ rep_weights' = move(rep_weights, accounts[a].representative, Block[h].representative,
                             accounts[a].balance)
      /\ pending' = pending
  BY <1>2 DEF ChangeBlock
<1>4. Block[h].representative \in Account0 /\ Block[h].link = Zero
  BY <1>1, BlockFields, LegacyAssumption
<1>5. rep_weights' \in Weights
  BY <1>2, <1>3, <1>4, MoveType DEF IInv, TypeOK
<1>6. Carries(h, a, accounts[a].balance, Block[h].representative, 0, 0, FALSE)
  <2>1. Shifted(rep_weights, rep_weights', accounts[a].representative, accounts[a].balance,
                Block[h].representative, accounts[a].balance)
    BY <1>2, <1>3, <1>4, MoveShifts DEF IInv, TypeOK
  <2> QED BY <1>1, <1>2, <1>3, <1>4, <2>1, UniverseAssumption DEF Carries
<1> QED BY <1>1, <1>2, <1>3, <1>4, <1>5, <1>6, RowsAppend

(* Where a state block that passed its checks stands. *)
LEMMA StateFollowsHead ==
    ASSUME IInv, NEW h \in Hash, state_status(h) = "progress", Block[h].type = "state",
           ~account_exists(Block[h].account) => Block[h].previous = Zero \/ ~is_epoch_block(h)
    PROVE  LET a == Block[h].account
           IN  /\ h \notin accepted /\ a \in Account
               /\ IF accounts[a].head = Zero THEN Block[h].previous = Zero
                  ELSE Block[h].previous = accounts[a].head
               /\ block_balance(Block[h].previous) = accounts[a].balance
               /\ accounts[a].balance \in Int /\ accounts[a].representative \in Account0
               /\ accounts[a].epoch \in Nat
<1> DEFINE a == Block[h].account
<1>1. /\ is_epoch_block(h) => epoch_impl_status(h) = "progress"
      /\ ~is_epoch_block(h) => state_impl_status(h) = "progress"
  BY DEF state_status
<1>2. /\ ~block_exists_or_pruned(h) /\ a # Zero
      /\ account_exists(a) => Block[h].previous = accounts[a].head
      /\ ~account_exists(a) => Block[h].previous = Zero
  <2>1. CASE is_epoch_block(h)
    BY <1>1, <2>1 DEF epoch_impl_status
  <2>2. CASE ~is_epoch_block(h)
    BY <1>1, <2>2 DEF state_impl_status
  <2> QED BY <2>1, <2>2
<1>3. a \in Account /\ h \notin accepted
  BY <1>2, BlockFields DEF Account0, block_exists_or_pruned, accepted, stored
<1>4. /\ accounts[a].balance \in Int /\ accounts[a].representative \in Account0
      /\ accounts[a].epoch \in Nat
  BY <1>3 DEF IInv, TypeOK, AccountInfo
<1>5. account_exists(a) <=> accounts[a].head # Zero
  BY <1>3 DEF account_exists
<1>6. block_balance(Block[h].previous) = accounts[a].balance
  <2>1. CASE accounts[a].head = Zero
    <3>1. Block[h].previous = Zero /\ accounts[a].balance = 0
      BY <1>2, <1>3, <1>5, <2>1 DEF IInv, Heads
    <3> QED BY <3>1, UniverseAssumption DEF block_balance, block_exists
  <2>2. CASE accounts[a].head # Zero
    <3>1. /\ Block[h].previous \in stored
          /\ blocks[Block[h].previous].balance = accounts[a].balance
      BY <1>2, <1>3, <1>5, <2>2 DEF IInv, Heads
    <3> QED BY <3>1 DEF block_balance, stored
  <2> QED BY <2>1, <2>2
<1> QED BY <1>2, <1>3, <1>4, <1>5, <1>6

(* ledger_processor::state_block_impl appends. *)
LEMMA StateAppends ==
    ASSUME IInv, NEW h \in Hash, StateBlock(h)
    PROVE  \E a, sb, info : Appends(h, a, sb, info)
<1>1. Block[h].type = "state" /\ ~is_epoch_block(h) /\ state_status(h) = "progress"
  BY DEF StateBlock
<1>2. PICK a \in Account :
        /\ a = Block[h].account /\ h \notin accepted
        /\ IF accounts[a].head = Zero THEN Block[h].previous = Zero
           ELSE Block[h].previous = accounts[a].head
        /\ block_balance(Block[h].previous) = accounts[a].balance
        /\ accounts[a].balance \in Int /\ accounts[a].representative \in Account0
        /\ accounts[a].epoch \in Nat
  BY <1>1, StateFollowsHead
<1>3. /\ Block[h].balance \in Nat /\ Block[h].balance \in Int
      /\ Block[h].representative \in Account0 /\ a \in Account0
      /\ Block[h].link \in Account0 \cup Hash \cup EpochLink
  BY BlockFields, SMTT(30) DEF Account0
<1>4. state_is_send(h) <=> \/ Block[h].type = "send"
                          \/ /\ Block[h].type = "state"
                             /\ Block[h].balance < block_balance(Block[h].previous)
  <2>1. accounts[a].head = Zero => accounts[a].balance = 0
    BY DEF IInv, Heads
  <2> QED BY <1>1, <1>2, <1>3, <2>1, SMTT(30) DEF state_is_send, account_exists
<1>5. rep_weights' \in Weights
  <2>1. rep_weights' = state_weights(rep_weights, accounts[a], Block[h], accounts[a].head # Zero, TRUE)
    BY <1>2 DEF StateBlock
  <2>2. rep_weights \in Weights
    BY SMTT(30) DEF IInv, TypeOK
  <2> QED BY <1>2, <1>3, <2>1, <2>2, StateWeightsType
<1>s. Shifted(rep_weights, rep_weights', accounts[a].representative, accounts[a].balance,
              Block[h].representative, Block[h].balance)
  <2>1. rep_weights' = state_weights(rep_weights, accounts[a], Block[h], accounts[a].head # Zero, TRUE)
    BY <1>2 DEF StateBlock
  <2>2. accounts[a].head = Zero => accounts[a].balance = 0
    BY DEF IInv, Heads
  <2>3. rep_weights \in Weights
    BY SMTT(30) DEF IInv, TypeOK
  <2> QED BY <1>2, <1>3, <2>1, <2>2, <2>3, StateWeightsShifts
<1>l. state_link_status(h) = "progress"
  BY <1>1 DEF state_status, state_impl_status
<1>6. CASE state_is_send(h)
  <2>1. /\ Block[h].link \notin Hash
        /\ put_block(h, a, next_sideband(a, Block[h].balance, accounts[a].epoch, 0, TRUE),
                     next_info(h, a, Block[h].balance, Block[h].representative, accounts[a].epoch))
    BY <1>2, <1>6 DEF StateBlock
  <2>2. PICK p : /\ p = [account |-> Block[h].link, hash |-> h, source |-> a,
                         amount |-> -state_amount(h), epoch |-> accounts[a].epoch]
                 /\ pending' = pending \cup {p}
    BY <1>2, <1>6 DEF StateBlock
  <2>3. -state_amount(h) \in Int
    BY <1>2, <1>3, SMTT(30) DEF state_amount
  <2>4. p \in PendingEntry /\ p.hash = h /\ p.source = a
    BY <1>2, <1>3, <2>1, <2>2, <2>3, EntryType
  <2>5. Carries(h, a, Block[h].balance, Block[h].representative, accounts[a].epoch, 0, TRUE)
    <3>1. /\ Block[h].balance >= 0 /\ Block[h].balance <= accounts[a].balance
          /\ -state_amount(h) = accounts[a].balance - Block[h].balance
      BY <1>2, <1>3, <1>6, SMTT(30) DEF state_is_send, state_amount
    <3> QED BY <1>1, <1>s, <2>1, <2>2, <3>1 DEF Carries
  <2> QED BY <1>1, <1>2, <1>3, <1>4, <1>5, <1>6, <2>1, <2>2, <2>4, <2>5, RowsAppend
<1>7. CASE ~state_is_send(h) /\ Block[h].link # Zero
  <2>1. PICK p \in pending :
          /\ p.account = a /\ p.hash = Block[h].link /\ pending' = pending \ {p}
          /\ put_block(h, a, next_sideband(a, Block[h].balance,
                                IF p.epoch > accounts[a].epoch THEN p.epoch ELSE accounts[a].epoch,
                                p.epoch, FALSE),
                       next_info(h, a, Block[h].balance, Block[h].representative,
                                IF p.epoch > accounts[a].epoch THEN p.epoch ELSE accounts[a].epoch))
    BY <1>2, <1>7 DEF StateBlock
  <2>2. p.epoch \in Nat
    BY EntryFields
  <2>3. PICK e \in Nat : e = IF p.epoch > accounts[a].epoch THEN p.epoch ELSE accounts[a].epoch
    BY <1>2, <2>2
  <2>4. Carries(h, a, Block[h].balance, Block[h].representative, e, p.epoch, FALSE)
    <3>1. state_amount(h) = p.amount
      <4>1. state_amount(h) = pending_get(a, Block[h].link).amount
        BY <1>l, <1>2, <1>7 DEF state_link_status
      <4> QED BY <2>1, <4>1, EntryFound
    <3>2. Block[h].balance = accounts[a].balance + p.amount
      BY <1>2, <1>3, <3>1, EntryFields, SMTT(30) DEF state_amount
    <3>3. Block[h].link \in Hash
      BY <2>1 DEF IInv, TypeOK, PendingEntry
    <3> QED BY <1>1, <1>s, <2>1, <3>2, <3>3 DEF Carries
  <2> QED BY <1>1, <1>2, <1>3, <1>4, <1>5, <1>7, <2>1, <2>2, <2>3, <2>4, RowsAppend
<1>8. CASE ~state_is_send(h) /\ Block[h].link = Zero
  <2>1. /\ pending' = pending
        /\ put_block(h, a, next_sideband(a, Block[h].balance, accounts[a].epoch, 0, FALSE),
                     next_info(h, a, Block[h].balance, Block[h].representative, accounts[a].epoch))
    BY <1>2, <1>8 DEF StateBlock
  <2>2. Carries(h, a, Block[h].balance, Block[h].representative, accounts[a].epoch, 0, FALSE)
    <3>1. state_amount(h) = 0
      BY <1>l, <1>8 DEF state_link_status
    <3>2. Block[h].balance = accounts[a].balance
      BY <1>2, <1>3, <3>1, SMTT(30) DEF state_amount
    <3>3. Block[h].link \notin Hash
      BY <1>8, UniverseAssumption
    <3> QED BY <1>1, <1>s, <2>1, <3>2, <3>3 DEF Carries
  <2> QED BY <1>1, <1>2, <1>3, <1>4, <1>5, <1>8, <2>1, <2>2, RowsAppend
<1> QED BY <1>6, <1>7, <1>8

(* ledger_processor::epoch_block_impl appends. *)
LEMMA EpochAppends ==
    ASSUME IInv, NEW h \in Hash, EpochBlock(h)
    PROVE  \E a, sb, info : Appends(h, a, sb, info)
<1>1. /\ Block[h].type = "state" /\ is_epoch_block(h) /\ state_status(h) = "progress"
      /\ ~account_exists(Block[h].account) => Block[h].previous = Zero
  BY DEF EpochBlock
<1>2. PICK a \in Account :
        /\ a = Block[h].account /\ h \notin accepted
        /\ IF accounts[a].head = Zero THEN Block[h].previous = Zero
           ELSE Block[h].previous = accounts[a].head
        /\ block_balance(Block[h].previous) = accounts[a].balance
        /\ accounts[a].representative \in Account0
  BY <1>1, StateFollowsHead
<1>3. Block[h].balance \in Int /\ Block[h].representative \in Account0
  BY BlockFields, SMTT(30)
<1>4. /\ Block[h].balance = accounts[a].balance /\ Block[h].link \in EpochLink
      /\ Epochs[Block[h].link].epoch \in Nat
  BY <1>1, <1>2, EpochAssumption DEF is_epoch_block
<1>5. PICK e \in Nat : e = Epochs[Block[h].link].epoch
  BY <1>4
<1>6. /\ pending' = pending /\ rep_weights' \in Weights
      /\ put_block(h, a, next_sideband(a, Block[h].balance, e, 0, FALSE),
                   next_info(h, a, Block[h].balance, Block[h].representative, e))
  BY <1>2, <1>4, <1>5 DEF EpochBlock, IInv, TypeOK
<1>7. FALSE <=> \/ Block[h].type = "send"
                \/ /\ Block[h].type = "state"
                   /\ Block[h].balance < block_balance(Block[h].previous)
  BY <1>1, <1>2, <1>3, <1>4, SMTT(30)
<1>8. Carries(h, a, Block[h].balance, Block[h].representative, e, 0, FALSE)
  <2>1. Block[h].representative = accounts[a].representative /\ rep_weights' = rep_weights
    BY <1>1, <1>2 DEF EpochBlock, state_status, epoch_impl_status
  <2>2. Shifted(rep_weights, rep_weights', accounts[a].representative, accounts[a].balance,
                Block[h].representative, Block[h].balance)
    BY <1>3, <1>4, <2>1, NothingShifts DEF IInv, TypeOK
  <2>3. Block[h].link \notin Hash
    BY <1>4, UniverseAssumption
  <2> QED BY <1>1, <1>4, <1>6, <2>2, <2>3 DEF Carries
<1> QED BY <1>1, <1>2, <1>3, <1>4, <1>6, <1>7, <1>8, RowsAppend

(* Whatever ledger::process accepts is appended. *)
LEMMA ProcessAppends ==
    ASSUME IInv, NEW h \in Hash, Process(h)
    PROVE  \E a, sb, info : Appends(h, a, sb, info)
  BY SendAppends, ReceiveAppends, OpenAppends, ChangeAppends, StateAppends, EpochAppends
     DEF Process

-----------------------------------------------------------------------------
(* The rollback visitor.                                                   *)

(* Restoring the account as it was before its head undoes the head. *)
LEMMA RowsUndone ==
    ASSUME IInv, Undoing, NEW h, NEW a, h = head, a = blocks[h].account,
           NEW representative \in Account0, NEW epoch \in Nat,
           del_block(h, a, previous_info(h, a, representative, epoch)),
           rep_weights' \in Weights, Restores(h, a, representative, epoch),
           \/ /\ blocks[h].is_send
              /\ \E p \in pending : p.hash = h /\ pending' = pending \ {p}
           \/ /\ ~blocks[h].is_send /\ Block[h].link \in Hash
              /\ \E p \in PendingEntry : /\ p.hash = Block[h].link
                                         /\ p.source = block_account(Block[h].link)
                                         /\ pending' = pending \cup {p}
           \/ /\ ~blocks[h].is_send /\ Block[h].link \notin Hash
              /\ pending' = pending
    PROVE  \E x, b, info : Undoes(x, b, info)
<1> DEFINE info == previous_info(h, a, representative, epoch)
<1>1. /\ a \in Account /\ h \in Hash /\ h \in stored /\ h \notin cemented
      /\ accounts[a].head = h /\ block_balance(Block[h].previous) \in Int
  BY UndoingHead
<1>2. accounts[a].open_block \in Hash0 /\ accounts[a].block_count \in Int
  BY <1>1 DEF IInv, TypeOK, AccountInfo
<1>3. Block[h].previous \in Hash0
  BY <1>1, BlockFields
<1>4. CASE Block[h].previous = Zero
  <2>1. info = NoAccount
    BY <1>4 DEF previous_info
  <2>2. NoAccount \in AccountInfo /\ NoAccount.head = Zero /\ NoAccount.block_count = 0
        /\ NoAccount.balance = 0 /\ NoAccount.open_block = Zero
    BY SMTT(30) DEF NoAccount, AccountInfo, Hash0, Account0
  <2>3. Block[h].type # "send"
    BY <1>1, <1>4, LegacyAssumption, UniverseAssumption DEF IInv, Linked
  <2>4. block_balance(Block[h].previous) = 0
    BY <1>4, UniverseAssumption DEF block_balance, block_exists
  <2>5. \A x, y, v, w : Shifted(x, y, v, w, representative, 0) =>
                        Shifted(x, y, v, w, NoAccount.representative, 0)
    BY NothingArrives
  <2>6. Restores(h, a, NoAccount.representative, NoAccount.epoch)
    BY <1>4, <2>3, <2>4, <2>5 DEF Restores
  <2> HIDE DEF info
  <2>7. Undoes(h, a, NoAccount)
    BY <1>1, <1>4, <2>1, <2>2, <2>6 DEF Undoes, info
  <2> QED BY <2>7
<1>5. CASE Block[h].previous # Zero
  <2>1. info = [head |-> Block[h].previous, representative |-> representative,
                open_block |-> accounts[a].open_block,
                balance |-> block_balance(Block[h].previous),
                block_count |-> accounts[a].block_count - 1, epoch |-> epoch]
    BY <1>5 DEF previous_info
  <2>2. /\ info \in AccountInfo /\ info.head = Block[h].previous
        /\ info.block_count = accounts[a].block_count - 1
        /\ info.balance = block_balance(Block[h].previous)
        /\ info.open_block = accounts[a].open_block
        /\ info.representative = representative /\ info.epoch = epoch
    BY <1>1, <1>2, <1>3, <2>1, SMTT(30) DEF AccountInfo
  <2>3. del_block(h, a, info)
    OBVIOUS
  <2> HIDE DEF info
  <2>4. Restores(h, a, info.representative, info.epoch)
    BY <2>2
  <2>5. Undoes(h, a, info)
    BY <1>1, <1>5, <2>2, <2>3, <2>4 DEF Undoes
  <2> QED BY <2>5
<1> QED BY <1>4, <1>5

(* ledger_rollback::send_block undoes the head. *)
LEMMA UndoSendUndoes ==
    ASSUME IInv, UndoSend
    PROVE  \E x, b, info : Undoes(x, b, info)
<1>1. Undoing /\ Block[head].type = "send"
  BY DEF UndoSend
<1>2. PICK h, a : h = head /\ a = blocks[h].account
  OBVIOUS
<1>3. /\ h \in stored /\ a \in Account /\ accounts[a].representative \in Account0
      /\ blocks[h].is_send
  BY <1>1, <1>2, UndoingHead, HeadIsSend DEF head_is_send
<1>4. PICK p \in pending :
        /\ p.account = Block[h].link /\ p.hash = h /\ pending' = pending \ {p}
        /\ rep_weights' = add(rep_weights, accounts[p.source].representative, p.amount)
        /\ del_block(h, p.source, previous_info(h, p.source, accounts[p.source].representative, 0))
  BY <1>2 DEF UndoSend
<1>5. p.source = a
  BY <1>2, <1>3, <1>4 DEF IInv, Receipts
<1>6. p.amount \in Int /\ rep_weights \in Weights
  BY EntryFields DEF IInv, TypeOK
<1>7. rep_weights' \in Weights
  BY <1>3, <1>4, <1>5, <1>6, AddType
<1>8. Restores(h, a, accounts[a].representative, 0)
  <2>1. PICK n \in Int : n = block_balance(Block[h].previous)
    BY <1>1, <1>2, UndoingHead
  <2>2. PICK m \in Int : m = n - p.amount /\ n - m = p.amount
    <3>1. \A i, j \in Int : i - j \in Int /\ i - (i - j) = j
      BY SMTT(30)
    <3> QED BY <1>6, <2>1, <3>1
  <2>3. Shifted(rep_weights, rep_weights', accounts[a].representative, m,
                accounts[a].representative, n)
    BY <1>3, <1>4, <1>5, <1>6, <2>2, AddShifts
  <2> QED BY <1>1, <1>2, <1>3, <1>4, <2>1, <2>2, <2>3 DEF Restores
<1> QED BY <1>1, <1>2, <1>3, <1>4, <1>5, <1>7, <1>8, RowsUndone

(* ledger_rollback::receive_block and open_block undo the head. *)
LEMMA UndoReceiveUndoes ==
    ASSUME IInv, UndoReceive
    PROVE  \E x, b, info : Undoes(x, b, info)
<1>1. Undoing /\ Block[head].type \in {"receive", "open"}
  BY DEF UndoReceive
<1>2. PICK h, a : h = head /\ a = blocks[h].account
  OBVIOUS
<1>3. /\ h \in stored /\ h \in Hash /\ h # genesis /\ a \in Account
      /\ accounts[a].representative \in Account0 /\ ~blocks[h].is_send
      /\ block_balance(Block[h].previous) \in Int /\ blocks[h].balance \in Int
  BY <1>1, <1>2, UndoingHead, HeadIsSend, StoredFields DEF head_is_send
<1>4. Block[h].link \in Hash /\ Block[h].representative \in Account0
  BY <1>1, <1>2, <1>3, LegacyAssumption, BlockFields
<1>5. PICK representative \in Account0, amount \in Int :
        /\ representative = IF Block[h].type = "open" THEN Block[h].representative
                            ELSE accounts[a].representative
        /\ amount = blocks[h].balance - block_balance(Block[h].previous)
        /\ rep_weights' = sub(rep_weights, representative, amount)
        /\ del_block(h, a, previous_info(h, a, representative, 0))
        /\ pending' = pending \cup {restored_pending(h, a, amount, 0)}
  BY <1>2, <1>3, <1>4, SMTT(30) DEF UndoReceive
<1>6. block_account(Block[h].link) \in Account0 /\ rep_weights \in Weights /\ a \in Account0
  BY <1>3 DEF block_account, block_exists, IInv, TypeOK, Sideband, Account0
<1>7. PICK p : p = restored_pending(h, a, amount, 0)
  OBVIOUS
<1>8. p \in PendingEntry /\ p.hash = Block[h].link /\ p.source = block_account(Block[h].link)
  BY <1>4, <1>6, <1>7, EntryType DEF restored_pending
<1>9. rep_weights' \in Weights
  BY <1>5, <1>6, SubType
<1>10. Restores(h, a, representative, 0)
  <2>1. Shifted(rep_weights, rep_weights', representative, blocks[h].balance,
                representative, block_balance(Block[h].previous))
    BY <1>3, <1>5, <1>6, SubShifts
  <2>2. Block[h].type = "open" => Block[h].previous = Zero
    BY <1>3, LegacyAssumption
  <2> QED BY <1>1, <1>2, <1>3, <1>5, <2>1, <2>2 DEF Restores
<1> QED BY <1>1, <1>2, <1>3, <1>4, <1>5, <1>7, <1>8, <1>9, <1>10, RowsUndone

(* ledger_rollback::change_block undoes the head. *)
LEMMA UndoChangeUndoes ==
    ASSUME IInv, UndoChange
    PROVE  \E x, b, info : Undoes(x, b, info)
<1>1. Undoing /\ Block[head].type = "change"
  BY DEF UndoChange
<1>2. PICK h, a : h = head /\ a = blocks[h].account
  OBVIOUS
<1>3. /\ h \in stored /\ h \in Hash /\ a \in Account /\ ~blocks[h].is_send
      /\ block_balance(Block[h].previous) \in Int
  BY <1>1, <1>2, UndoingHead, HeadIsSend DEF head_is_send
<1>4. Block[h].link = Zero /\ Zero \notin Hash /\ Block[h].representative \in Account0
  BY <1>1, <1>2, <1>3, LegacyAssumption, UniverseAssumption, BlockFields
<1>5. PICK representative \in Account0 :
        /\ representative_block[Block[h].previous] \in Hash
        /\ representative = Block[representative_block[Block[h].previous]].representative
        /\ rep_weights' = move(rep_weights, Block[h].representative, representative,
                               block_balance(Block[h].previous))
        /\ del_block(h, a, previous_info(h, a, representative, 0))
        /\ pending' = pending
  BY <1>2, BlockFields DEF UndoChange
<1>6. rep_weights' \in Weights
  BY <1>3, <1>4, <1>5, MoveType DEF IInv, TypeOK
<1>7. Restores(h, a, representative, 0)
  <2>1. Shifted(rep_weights, rep_weights', Block[h].representative, block_balance(Block[h].previous),
                representative, block_balance(Block[h].previous))
    BY <1>3, <1>4, <1>5, MoveShifts DEF IInv, TypeOK
  <2> QED BY <1>1, <1>2, <1>3, <1>4, <1>5, <2>1 DEF Restores
<1> QED BY <1>1, <1>2, <1>3, <1>4, <1>5, <1>6, <1>7, RowsUndone

(* ledger_rollback::state_block undoes the head. *)
LEMMA UndoStateUndoes ==
    ASSUME IInv, UndoState
    PROVE  \E x, b, info : Undoes(x, b, info)
<1>1. Undoing /\ Block[head].type = "state"
  BY DEF UndoState
<1>2. PICK h, a : h = head /\ a = blocks[h].account
  OBVIOUS
<1>3. /\ h \in stored /\ h \in Hash /\ a \in Account /\ a \in Account0
      /\ block_balance(Block[h].previous) \in Int /\ a = Block[h].account
      /\ (blocks[h].is_send <=> head_is_send) /\ blocks[h].source_epoch \in Nat
  BY <1>1, <1>2, UndoingHead, HeadIsSend, StoredFields DEF IInv, Derived, Account0
<1>4. /\ Block[h].representative \in Account0 /\ Block[h].balance \in Int
      /\ Block[h].link \in Account0 \cup Hash \cup EpochLink
      /\ ~blocks[h].is_send => Block[h].link \in Hash \cup {Zero} \cup EpochLink
  BY <1>3, BlockFields, SMTT(30) DEF IInv, Derived
<1>5. version(Block[h].previous) \in Nat
  <2>1. \A x \in Hash : blocks[x].epoch \in Nat
    BY DEF IInv, TypeOK, Sideband
  <2> QED BY <2>1 DEF version, block_exists
<1>6. PICK representative \in Account0 :
        /\ Block[h].previous # Zero =>
              /\ representative_block[Block[h].previous] \in Hash
              /\ representative = Block[representative_block[Block[h].previous]].representative
        /\ rep_weights' = state_weights(rep_weights, Block[h],
               [representative |-> representative, balance |-> block_balance(Block[h].previous)],
               TRUE, Block[h].previous # Zero)
        /\ del_block(h, a, previous_info(h, a, representative, version(Block[h].previous)))
  <2>1. PICK rep_block : /\ rep_block = IF Block[h].previous = Zero THEN Zero
                                        ELSE representative_block[Block[h].previous]
                         /\ Block[h].previous # Zero => rep_block \in Hash
    BY <1>2 DEF UndoState
  <2>2. (IF rep_block = Zero THEN Zero ELSE Block[rep_block].representative) \in Account0
    BY <2>1, BlockFields DEF Account0
  <2>3. Block[h].previous # Zero => rep_block # Zero
    BY <2>1, UniverseAssumption
  <2> QED BY <1>2, <1>3, <2>1, <2>2, <2>3 DEF UndoState
<1>7. /\ rep_weights' \in Weights
      /\ Shifted(rep_weights, rep_weights', Block[h].representative, blocks[h].balance,
                 representative, block_balance(Block[h].previous))
  <2>1. PICK to : /\ to = [representative |-> representative,
                           balance |-> block_balance(Block[h].previous)]
    BY ZenonT(30)
  <2>2. /\ to.representative \in Account0 /\ to.balance \in Int
        /\ to.representative = representative /\ to.balance = block_balance(Block[h].previous)
    BY <1>3, <2>1
  <2>3. rep_weights \in Weights
    BY DEF IInv, TypeOK
  <2>4. rep_weights' = state_weights(rep_weights, Block[h], to, TRUE, Block[h].previous # Zero)
    BY <1>6, <2>1
  <2>5. TRUE \in BOOLEAN /\ (Block[h].previous # Zero) \in BOOLEAN
    OBVIOUS
  <2>6. rep_weights' \in Weights
    BY <1>4, <2>2, <2>3, <2>4, <2>5, StateWeightsType
  <2>7. Block[h].previous = Zero => to.balance = 0
    BY <2>2, UniverseAssumption DEF block_balance, block_exists
  <2>8. Shifted(rep_weights, rep_weights', Block[h].representative, Block[h].balance,
                to.representative, to.balance)
    BY <1>4, <2>2, <2>3, <2>4, <2>5, <2>7, StateWeightsShifts
  <2>9. blocks[h].balance = Block[h].balance
    BY <1>1, <1>2, <1>3 DEF IInv, Derived
  <2> QED BY <2>2, <2>6, <2>8, <2>9
<1>8. CASE blocks[h].is_send
  <2>1. \E p \in pending : p.account = Block[h].link /\ p.hash = h /\ pending' = pending \ {p}
    BY <1>2, <1>3, <1>8 DEF UndoState
  <2>2. Restores(h, a, representative, version(Block[h].previous))
    BY <1>1, <1>2, <1>6, <1>7, <1>8, <2>1 DEF Restores
  <2> QED BY <1>1, <1>2, <1>5, <1>6, <1>7, <1>8, <2>1, <2>2, RowsUndone
<1>9. CASE ~blocks[h].is_send /\ Block[h].link \in Hash
  <2>1. Block[h].link # Zero /\ Block[h].link \notin EpochLink
    BY <1>9, UniverseAssumption
  <2>2. Block[h].balance - block_balance(Block[h].previous) \in Int
    BY <1>3, <1>4, SMTT(30)
  <2>3. PICK p : /\ p = restored_pending(h, a, Block[h].balance - block_balance(Block[h].previous),
                                         blocks[h].source_epoch)
                 /\ pending' = pending \cup {p}
    BY <1>2, <1>3, <1>9, <2>1 DEF UndoState
  <2>4. block_account(Block[h].link) \in Account0
    BY DEF block_account, block_exists, IInv, TypeOK, Sideband, Account0
  <2>5. p \in PendingEntry /\ p.hash = Block[h].link /\ p.source = block_account(Block[h].link)
    BY <1>3, <1>9, <2>2, <2>3, <2>4, EntryType, SMTT(30) DEF restored_pending
  <2>6. blocks[h].balance = Block[h].balance
    BY <1>1, <1>2, <1>3 DEF IInv, Derived
  <2>7. Restores(h, a, representative, version(Block[h].previous))
    BY <1>1, <1>2, <1>6, <1>7, <1>9, <2>3, <2>6 DEF Restores
  <2> QED BY <1>1, <1>2, <1>5, <1>6, <1>7, <1>9, <2>3, <2>5, <2>7, RowsUndone
<1>10. CASE ~blocks[h].is_send /\ Block[h].link \notin Hash
  <2>1. pending' = pending
    BY <1>2, <1>3, <1>4, <1>10 DEF UndoState
  <2>2. Restores(h, a, representative, version(Block[h].previous))
    BY <1>1, <1>2, <1>6, <1>7, <1>10, <2>1 DEF Restores
  <2> QED BY <1>1, <1>2, <1>5, <1>6, <1>7, <1>10, <2>1, <2>2, RowsUndone
<1> QED BY <1>8, <1>9, <1>10

-----------------------------------------------------------------------------
(* Every reachable state.                                                  *)

(* Every step from a state of the invariant has the shape of Step. *)
LEMMA StepOf ==
    ASSUME IInv, [Next]_vars
    PROVE  Step
<1>1. \A h \in Hash : Process(h) => \E a, sb, info : Appends(h, a, sb, info)
  BY ProcessAppends
<1>2. UndoSend \/ UndoReceive \/ UndoChange \/ UndoState => \E h, a, info : Undoes(h, a, info)
  BY UndoSendUndoes, UndoReceiveUndoes, UndoChangeUndoes, UndoStateUndoes
<1> QED BY <1>1, <1>2 DEF Step

(* IInv holds in every state that process, rollback, cement and pruning_action reach. *)
THEOREM Invariance == Spec => []IInv
<1>1. Init => IInv
  BY InitIInv, SMTT(30)
<1>2. IInv /\ [Next]_vars => IInv'
  BY StepOf, Inductive
<1> QED BY <1>1, <1>2, PTL DEF Spec

-----------------------------------------------------------------------------
(* The successor table.                                                    *)

(* Appending a block maintains the successors. *)
LEMMA AppendsSuccessors ==
    ASSUME IInv, Successors, NEW h, NEW a, NEW sb, NEW info, Appends(h, a, sb, info)
    PROVE  Successors'
<1>1. /\ h \in Hash /\ a \in Account /\ sb.account = a /\ info.head = h
      /\ info.open_block = IF accounts[a].open_block = Zero THEN h ELSE accounts[a].open_block
      /\ IF accounts[a].head = Zero THEN Block[h].previous = Zero /\ Block[h].account = a
         ELSE Block[h].previous = accounts[a].head
  BY SMTT(30) DEF Appends
<1>2. /\ stored' = stored \cup {h} /\ accepted' = accepted \cup {h}
      /\ cemented' = cemented /\ h \notin stored /\ h \notin cemented
      /\ blocks'[h] = sb /\ \A x \in stored : blocks'[x] = blocks[x]
      /\ accounts'[a] = info /\ \A b \in Account : b # a => accounts'[b] = accounts[b]
      /\ confirmation_height' = confirmation_height /\ pruned' = pruned
      /\ sb.height \in Nat /\ sb.height > confirmation_height[a].height
  BY AppendsSets
<1>3. /\ h # Zero
      /\ accounts[a].head # Zero => accounts[a].head \in stored /\ accounts[a].head \in accepted
      /\ \A x \in accepted : x # Zero /\ x \in Hash
      /\ \A x \in stored : x \in accepted /\ blocks[x].account \in Account
  BY <1>1, AcceptedFields, UniverseAssumption DEF IInv, Heads
<1>4. ASSUME NEW x \in accepted, Block[x].previous # Zero PROVE Block[x].previous # Block[h].previous
  <2>1. CASE accounts[a].head = Zero
    BY <1>1, <1>4, <2>1
  <2>2. CASE accounts[a].head # Zero
    BY <1>1, <2>2, NothingFollowsHead
  <2> QED BY <2>1, <2>2
<1>5. \A x \in Hash : successor'[x] = IF x = Block[h].previous THEN h ELSE successor[x]
  <2>1. put_block(h, a, sb, info)
    BY DEF Appends
  <2> QED BY <2>1, SMTT(30) DEF put_block
<1>6. \A x \in stored' : Block[x].previous # Zero => successor'[Block[x].previous] = x
  <2>1. \A x \in stored' : Block[x].previous # Zero => Block[x].previous \in Hash
    BY <1>1, <1>2, <1>3, BlockFields DEF Hash0
  <2> QED BY <1>2, <1>3, <1>4, <1>5, <2>1 DEF Successors
<1>7. ASSUME NEW x \in Hash, successor'[x] # Zero
      PROVE  x \in accepted' /\ successor'[x] \in accepted' /\ Block[successor'[x]].previous = x
  <2>1. CASE x = Block[h].previous
    <3>1. x \in accepted
      BY <1>1, <1>3, <2>1, UniverseAssumption
    <3> QED BY <1>2, <1>5, <2>1, <3>1
  <2>2. CASE x # Block[h].previous
    BY <1>2, <1>5, <1>7, <2>2 DEF Successors
  <2> QED BY <2>1, <2>2
<1>8. ASSUME NEW x \in stored', x # accounts'[blocks'[x].account].head PROVE successor'[x] # Zero
  <2>1. x # h /\ x \in stored /\ blocks'[x] = blocks[x] /\ blocks[x].account \in Account /\ x \in Hash
    BY <1>1, <1>2, <1>3, <1>8
  <2>2. CASE x = Block[h].previous
    BY <1>3, <1>5, <2>1, <2>2
  <2>3. CASE x # Block[h].previous
    <3>1. x # accounts[blocks[x].account].head
      <4>1. CASE blocks[x].account = a
        BY <1>1, <2>1, <2>3, <4>1, <1>3
      <4>2. CASE blocks[x].account # a
        BY <1>2, <1>8, <2>1, <4>2
      <4> QED BY <4>1, <4>2
    <3> QED BY <1>5, <2>1, <2>3, <3>1 DEF Successors
  <2> QED BY <2>2, <2>3
<1>9. ASSUME NEW b \in Account
      PROVE  IF accounts'[b].head = Zero THEN accounts'[b].open_block = Zero
             ELSE /\ accounts'[b].open_block \in accepted'
                  /\ Block[accounts'[b].open_block].previous = Zero
                  /\ Block[accounts'[b].open_block].account = b
  <2>1. CASE b # a
    BY <1>2, <2>1 DEF Successors
  <2>2. CASE b = a /\ accounts[a].head = Zero
    <3>1. accounts[a].open_block = Zero
      BY <1>1, <2>2 DEF Successors
    <3>2. /\ accounts'[a].open_block = h /\ accounts'[a].head = h
          /\ Block[h].previous = Zero /\ Block[h].account = a
      BY <1>1, <1>2, <2>2, <3>1
    <3> QED BY <1>2, <1>3, <2>2, <3>2
  <2>3. CASE b = a /\ accounts[a].head # Zero
    <3>1. /\ accounts[a].open_block \in accepted /\ Block[accounts[a].open_block].previous = Zero
          /\ Block[accounts[a].open_block].account = a
      BY <1>1, <2>3 DEF Successors
    <3>2. accounts'[a].open_block = accounts[a].open_block /\ accounts'[a].head # Zero
      BY <1>1, <1>2, <1>3, <3>1
    <3> QED BY <1>2, <2>3, <3>1, <3>2
  <2> QED BY <2>1, <2>2, <2>3
<1> QED BY <1>6, <1>7, <1>8, <1>9 DEF Successors

(* Undoing a block maintains the successors. *)
LEMMA UndoesSuccessors ==
    ASSUME IInv, Successors, NEW h, NEW a, NEW info, Undoes(h, a, info)
    PROVE  Successors'
<1>1. /\ h \in stored /\ a \in Account /\ info.head = Block[h].previous
      /\ blocks[h].account = a /\ accounts[a].head = h
      /\ Block[h].previous = Zero => info.open_block = Zero
      /\ Block[h].previous # Zero => info.open_block = accounts[a].open_block
  BY SMTT(30) DEF Undoes
<1>2. /\ stored' = stored \ {h} /\ accepted' = accepted \ {h}
      /\ cemented' = cemented /\ \A x \in stored' : x # h /\ blocks'[x] = blocks[x]
      /\ accounts'[a] = info /\ \A b \in Account : b # a => accounts'[b] = accounts[b]
      /\ confirmation_height' = confirmation_height /\ pruned' = pruned
      /\ blocks[h].height > confirmation_height[a].height
  BY UndoesSets
<1>3. /\ h \in Hash /\ Block[h].previous \notin pruned
      /\ \A x \in accepted : Block[x].previous # h /\ Block[x].link # h
  BY UndoesDiscard
<1>4. /\ \A x \in accepted : x # Zero /\ x \in Hash
      /\ \A x \in stored : x \in accepted /\ blocks[x].account \in Account
  BY AcceptedFields
<1>5. \A x \in Hash : successor'[x] = IF x = Block[h].previous THEN Zero ELSE successor[x]
  <2>1. del_block(h, a, info)
    BY DEF Undoes
  <2> QED BY <2>1, SMTT(30) DEF del_block
<1>6. ASSUME NEW x \in stored', Block[x].previous # Zero PROVE successor'[Block[x].previous] = x
  <2>1. x \in stored /\ x # h /\ Block[x].previous \in Hash
    BY <1>2, <1>4, <1>6, BlockFields DEF Hash0
  <2>2. successor[Block[x].previous] = x
    BY <1>6, <2>1 DEF Successors
  <2>3. Block[x].previous # Block[h].previous
    BY <1>1, <1>6, <2>1, <2>2 DEF Successors
  <2> QED BY <1>5, <2>1, <2>2, <2>3
<1>7. ASSUME NEW x \in Hash, successor'[x] # Zero
      PROVE  x \in accepted' /\ successor'[x] \in accepted' /\ Block[successor'[x]].previous = x
  <2>1. x # Block[h].previous /\ successor'[x] = successor[x]
    BY <1>5, <1>7
  <2>2. x \in accepted /\ successor[x] \in accepted /\ Block[successor[x]].previous = x
    BY <1>7, <2>1 DEF Successors
  <2> QED BY <1>2, <1>3, <2>1, <2>2
<1>8. ASSUME NEW x \in stored', x # accounts'[blocks'[x].account].head PROVE successor'[x] # Zero
  <2>1. x # h /\ x \in stored /\ blocks'[x] = blocks[x] /\ blocks[x].account \in Account /\ x \in Hash
    BY <1>2, <1>4, <1>8
  <2>2. x # Block[h].previous
    <3>1. CASE blocks[x].account = a
      BY <1>1, <1>2, <1>8, <2>1, <3>1
    <3>2. CASE blocks[x].account # a
      BY <1>1, <1>4, <2>1, <3>2 DEF IInv, Linked
    <3> QED BY <3>1, <3>2
  <2>3. x # accounts[blocks[x].account].head
    BY <1>1, <1>2, <1>8, <2>1
  <2> QED BY <1>5, <2>1, <2>2, <2>3 DEF Successors
<1>9. ASSUME NEW b \in Account
      PROVE  IF accounts'[b].head = Zero THEN accounts'[b].open_block = Zero
             ELSE /\ accounts'[b].open_block \in accepted'
                  /\ Block[accounts'[b].open_block].previous = Zero
                  /\ Block[accounts'[b].open_block].account = b
  <2>1. CASE b # a
    <3>1. Block[h].previous = Zero => Block[h].account = a
      BY <1>1 DEF IInv, Linked
    <3>2. accounts'[b] = accounts[b]
      BY <1>2, <2>1
    <3>3. accounts[b].head = Zero => accounts[b].open_block = Zero
      BY DEF Successors
    <3>4. accounts[b].head # Zero =>
             /\ accounts[b].open_block \in accepted
             /\ Block[accounts[b].open_block].previous = Zero
             /\ Block[accounts[b].open_block].account = b
      BY DEF Successors
    <3> QED BY <1>2, <2>1, <3>1, <3>2, <3>3, <3>4
  <2>2. CASE b = a /\ Block[h].previous = Zero
    BY <1>1, <1>2, <2>2
  <2>3. CASE b = a /\ Block[h].previous # Zero
    <3>1. accounts'[a].open_block = accounts[a].open_block /\ accounts'[a].head # Zero
      BY <1>1, <1>2, <2>3
    <3>2. /\ accounts[a].open_block \in accepted /\ Block[accounts[a].open_block].previous = Zero
          /\ Block[accounts[a].open_block].account = a
      BY <1>1, <1>4, <2>3 DEF Successors
    <3> QED BY <1>2, <2>3, <3>1, <3>2
  <2> QED BY <2>1, <2>2, <2>3
<1> QED BY <1>6, <1>7, <1>8, <1>9 DEF Successors

(* So do the other steps: a pruned block keeps its successor. *)
LEMMA SuccessorsStep ==
    ASSUME IInv, Successors, Step
    PROVE  Successors'
<1>1. CASE PruneStep
  <2>1. /\ stored' = stored \ {prune_hash} /\ accepted' = accepted /\ accounts' = accounts
        /\ \A x \in stored' : x # prune_hash /\ blocks'[x] = blocks[x]
    BY <1>1, PruneSets
  <2>2. successor' = successor
    BY <1>1 DEF PruneStep
  <2> QED BY <2>1, <2>2 DEF Successors
<1>2. CASE UNCHANGED tables
  BY <1>2, SameTables DEF Successors
<1> QED BY <1>1, <1>2, TableSteps, AppendsSuccessors, UndoesSuccessors

-----------------------------------------------------------------------------
(* Neighbours on a chain.                                                  *)

(* The neighbours stay neighbours. *)
LEMMA AdjacentStep ==
    ASSUME IInv, Adjacent, Step
    PROVE  Adjacent'
<1>1. ASSUME NEW h, NEW a, NEW sb, NEW info, Appends(h, a, sb, info) PROVE Adjacent'
  <2>1. /\ h \in Hash /\ a \in Account /\ sb.account = a /\ sb.height = accounts[a].block_count + 1
        /\ accounts[a].head # Zero => Block[h].previous = accounts[a].head
    BY <1>1, SMTT(30) DEF Appends
  <2>2. /\ stored' = stored \cup {h} /\ accepted' = accepted \cup {h}
        /\ cemented' = cemented /\ h \notin stored /\ h \notin cemented
        /\ blocks'[h] = sb /\ \A x \in stored : blocks'[x] = blocks[x]
        /\ accounts'[a] = info /\ \A b \in Account : b # a => accounts'[b] = accounts[b]
        /\ confirmation_height' = confirmation_height /\ pruned' = pruned
        /\ sb.height \in Nat /\ sb.height > confirmation_height[a].height
    BY <1>1, AppendsSets
  <2> SUFFICES ASSUME NEW x \in stored', NEW y \in stored',
                      blocks'[x].account = blocks'[y].account,
                      blocks'[x].height + 1 = blocks'[y].height
               PROVE  Block[y].previous = x
    BY DEF Adjacent
  <2>3. ASSUME NEW z \in stored
        PROVE  blocks[z].height \in Nat /\ accounts[blocks[z].account].block_count \in Nat
               /\ blocks[z].height <= accounts[blocks[z].account].block_count
    BY HeadStored
  <2>4. x \in stored
    <3> SUFFICES ASSUME x = h PROVE FALSE
      BY <2>2
    <3>1. (y \in stored /\ blocks[y].account = a) \/ y = h
      BY <2>1, <2>2
    <3>2. CASE y = h
      BY <2>2, <3>2, SMTT(30)
    <3>3. CASE y \in stored /\ blocks[y].account = a
      <4>1. blocks[y].height = accounts[a].block_count + 1 + 1
        BY <2>1, <2>2, <3>3
      <4> QED BY <2>3, <3>3, <4>1, SMTT(30)
    <3> QED BY <3>1, <3>2, <3>3
  <2>5. CASE y \in stored
    BY <2>2, <2>4, <2>5, SMTT(30) DEF Adjacent
  <2>6. CASE y = h
    <3>1. blocks[x].account = a /\ blocks[x].height + 1 = accounts[a].block_count + 1
      BY <2>1, <2>2, <2>4, <2>6
    <3>2. blocks[x].height = accounts[a].block_count
      BY <2>3, <2>4, <3>1, SMTT(30)
    <3>3. /\ accounts[a].head # Zero /\ accounts[a].head \in stored
          /\ blocks[accounts[a].head].account = a
          /\ blocks[accounts[a].head].height = accounts[a].block_count
      BY <2>4, <3>1, HeadStored
    <3>4. x = accounts[a].head
      BY <2>4, <3>1, <3>2, <3>3 DEF IInv, Heights
    <3> QED BY <2>1, <2>6, <3>3, <3>4
  <2> QED BY <2>2, <2>5, <2>6
<1>2. ASSUME NEW h, NEW a, NEW info, Undoes(h, a, info) PROVE Adjacent'
  <2>1. /\ stored' = stored \ {h} /\ accepted' = accepted \ {h}
        /\ cemented' = cemented /\ \A x \in stored' : x # h /\ blocks'[x] = blocks[x]
        /\ accounts'[a] = info /\ \A b \in Account : b # a => accounts'[b] = accounts[b]
        /\ confirmation_height' = confirmation_height /\ pruned' = pruned
        /\ blocks[h].height > confirmation_height[a].height
    BY <1>2, UndoesSets
  <2> QED BY <2>1, SMTT(30) DEF Adjacent
<1>3. CASE PruneStep
  <2>1. /\ stored' = stored \ {prune_hash}
        /\ \A x \in stored' : x # prune_hash /\ blocks'[x] = blocks[x]
    BY <1>3, PruneSets
  <2> QED BY <2>1, SMTT(30) DEF Adjacent
<1>4. CASE UNCHANGED tables
  BY <1>4, SameTables DEF Adjacent
<1> QED BY <1>1, <1>2, <1>3, <1>4, TableSteps

-----------------------------------------------------------------------------
(* The pending table.                                                      *)

(* What an appended block does to the pending table and to the balance. *)
LEMMA AppendsPending ==
    ASSUME IInv, NEW h, NEW a, NEW sb, NEW info, Appends(h, a, sb, info)
    PROVE  \/ /\ sb.is_send /\ Block[h].link \notin Hash
              /\ sb.balance >= 0 /\ sb.balance <= accounts[a].balance
              /\ \E p : /\ p.hash = h /\ p.account = Block[h].link /\ p.source = a
                        /\ p.amount = accounts[a].balance - sb.balance /\ p.epoch = sb.epoch
                        /\ pending' = pending \cup {p}
           \/ /\ ~sb.is_send /\ Block[h].link \in Hash
              /\ \E p \in pending :
                    /\ p.hash = Block[h].link /\ p.account = a
                    /\ sb.balance = accounts[a].balance + p.amount
                    /\ p.epoch = IF Block[h].type = "state" THEN sb.source_epoch ELSE 0
                    /\ pending' = pending \ {p}
           \/ /\ ~sb.is_send /\ Block[h].link \notin Hash
              /\ sb.balance = accounts[a].balance /\ pending' = pending
<1>1. /\ Carries(h, a, sb.balance, info.representative, sb.epoch, sb.source_epoch, sb.is_send)
      /\ sb \in Sideband /\ (sb.is_send => Block[h].link \notin Hash)
  <2>1. /\ Carries(h, a, sb.balance, info.representative, sb.epoch, sb.source_epoch, sb.is_send)
        /\ sb \in Sideband
    BY DEF Appends
  <2>2. sb.is_send => Block[h].link \notin Hash
    BY SMTT(30) DEF Appends
  <2> QED BY <2>1, <2>2
<1>2. sb.is_send \in BOOLEAN
  BY <1>1 DEF Sideband
<1>3. CASE sb.is_send
  <2> DEFINE p == [account |-> Block[h].link, hash |-> h, source |-> a,
                   amount |-> accounts[a].balance - sb.balance, epoch |-> sb.epoch]
  <2>1. sb.balance >= 0 /\ sb.balance <= accounts[a].balance /\ pending' = pending \cup {p}
    BY <1>1, <1>3 DEF Carries
  <2>2. /\ p.hash = h /\ p.account = Block[h].link /\ p.source = a
        /\ p.amount = accounts[a].balance - sb.balance /\ p.epoch = sb.epoch
    OBVIOUS
  <2> HIDE DEF p
  <2> QED BY <1>1, <1>3, <2>1, <2>2
<1>4. CASE ~sb.is_send /\ Block[h].link \in Hash
  BY <1>1, <1>4 DEF Carries
<1>5. CASE ~sb.is_send /\ Block[h].link \notin Hash
  BY <1>1, <1>5 DEF Carries
<1> QED BY <1>2, <1>3, <1>4, <1>5

(* What undoing a block does to the pending table. *)
LEMMA UndoesPending ==
    ASSUME IInv, NEW h, NEW a, NEW info, Undoes(h, a, info)
    PROVE  \/ /\ blocks[h].is_send /\ Block[h].link \notin Hash
              /\ \E p \in pending : /\ p.hash = h /\ p.account = Block[h].link
                                    /\ pending' = pending \ {p}
           \/ /\ ~blocks[h].is_send /\ Block[h].link \in Hash
              /\ \E p : /\ p.hash = Block[h].link /\ p.account = a
                        /\ p.amount = blocks[h].balance - block_balance(Block[h].previous)
                        /\ p.epoch = IF Block[h].type = "state" THEN blocks[h].source_epoch ELSE 0
                        /\ pending' = pending \cup {p}
           \/ /\ ~blocks[h].is_send /\ Block[h].link \notin Hash
              /\ pending' = pending
<1>1. Restores(h, a, info.representative, info.epoch) /\ h \in stored
  BY DEF Undoes
<1>2. blocks[h].is_send \in BOOLEAN /\ (blocks[h].is_send => Block[h].link \notin Hash)
  BY <1>1, StoredFields DEF IInv, Derived
<1>3. CASE blocks[h].is_send
  BY <1>1, <1>2, <1>3 DEF Restores
<1>4. CASE ~blocks[h].is_send /\ Block[h].link \in Hash
  <2> DEFINE p == restored_pending(h, a, blocks[h].balance - block_balance(Block[h].previous),
                      IF Block[h].type = "state" THEN blocks[h].source_epoch ELSE 0)
  <2>1. pending' = pending \cup {p}
    BY <1>1, <1>4 DEF Restores
  <2>2. /\ p.hash = Block[h].link /\ p.account = a
        /\ p.amount = blocks[h].balance - block_balance(Block[h].previous)
        /\ p.epoch = IF Block[h].type = "state" THEN blocks[h].source_epoch ELSE 0
    BY DEF restored_pending
  <2> HIDE DEF p
  <2> QED BY <1>4, <2>1, <2>2
<1>5. CASE ~blocks[h].is_send /\ Block[h].link \notin Hash
  <2>1. pending' = pending
    BY <1>5, SMTT(30) DEF Undoes
  <2> QED BY <1>5, <2>1
<1> QED BY <1>2, <1>3, <1>4, <1>5

(* Appending a block maintains the destinations. *)
LEMMA AppendsDestinations ==
    ASSUME IInv, Destinations, NEW h, NEW a, NEW sb, NEW info, Appends(h, a, sb, info)
    PROVE  Destinations'
<1>1. h \in Hash /\ h \notin accepted /\ sb.account = a
  BY DEF Appends
<1>2. /\ stored' = stored \cup {h} /\ accepted' = accepted \cup {h}
      /\ cemented' = cemented /\ h \notin stored /\ h \notin cemented
      /\ blocks'[h] = sb /\ \A x \in stored : blocks'[x] = blocks[x]
      /\ accounts'[a] = info /\ \A b \in Account : b # a => accounts'[b] = accounts[b]
      /\ confirmation_height' = confirmation_height /\ pruned' = pruned
      /\ sb.height \in Nat /\ sb.height > confirmation_height[a].height
  BY AppendsSets
<1>3. /\ \A p \in pending : p.hash \in accepted
      /\ \A g \in accepted : Block[g].link \in Hash => Block[g].link \in accepted
      /\ \A x \in accepted : x # h /\ x \in Hash
      /\ \A x \in stored : x \in accepted
  BY <1>1, AcceptedFields DEF IInv, Receipts
<1>4. \A p \in pending : p.hash \in stored' => p.account = Block[p.hash].link
  BY <1>2, <1>3 DEF Destinations
<1>5. ASSUME NEW g \in stored, Block[g].link \in stored'
      PROVE  Block[Block[g].link].link = blocks'[g].account
  <2>1. Block[g].link \in Hash
    BY <1>1, <1>2, <1>3, <1>5
  <2>2. Block[g].link \in stored
    BY <1>2, <1>3, <1>5, <2>1
  <2> QED BY <1>2, <2>2 DEF Destinations
<1>6. ASSUME NEW x \in stored, blocks'[x].is_send, \A g \in accepted' : Block[g].link # x
      PROVE  \E p \in pending : p.hash = x
  BY <1>2, <1>6 DEF Destinations
<1>7. ASSUME sb.is_send, Block[h].link \notin Hash,
             NEW p, p.hash = h, p.account = Block[h].link, pending' = pending \cup {p}
      PROVE  Destinations'
  <2>1. \A q \in pending' : q.hash \in stored' => q.account = Block[q.hash].link
    BY <1>4, <1>7
  <2>2. \A g \in stored' : Block[g].link \in stored' => Block[Block[g].link].link = blocks'[g].account
    BY <1>1, <1>2, <1>3, <1>5, <1>7
  <2>3. \A x \in stored' : blocks'[x].is_send /\ (\A g \in accepted' : Block[g].link # x) =>
            \E q \in pending' : q.hash = x
    BY <1>2, <1>6, <1>7
  <2> QED BY <2>1, <2>2, <2>3 DEF Destinations
<1>8. ASSUME ~sb.is_send, NEW p \in pending, p.hash = Block[h].link, p.account = a,
             pending' = pending \ {p}
      PROVE  Destinations'
  <2>1. \A q \in pending' : q.hash \in stored' => q.account = Block[q.hash].link
    BY <1>4, <1>8
  <2>2. Block[h].link \in stored' => Block[Block[h].link].link = a
    BY <1>4, <1>8
  <2>3. \A g \in stored' : Block[g].link \in stored' => Block[Block[g].link].link = blocks'[g].account
    BY <1>1, <1>2, <1>5, <2>2
  <2>4. ASSUME NEW x \in stored', blocks'[x].is_send, \A g \in accepted' : Block[g].link # x
        PROVE  \E q \in pending' : q.hash = x
    <3>1. x \in stored /\ x # Block[h].link
      BY <1>2, <1>8, <2>4
    <3>2. PICK q \in pending : q.hash = x
      BY <1>6, <2>4, <3>1
    <3> QED BY <1>8, <3>1, <3>2
  <2> QED BY <2>1, <2>3, <2>4 DEF Destinations
<1>9. ASSUME ~sb.is_send, Block[h].link \notin Hash, pending' = pending
      PROVE  Destinations'
  <2>1. \A g \in stored' : Block[g].link \in stored' => Block[Block[g].link].link = blocks'[g].account
    BY <1>1, <1>2, <1>3, <1>5, <1>9
  <2>2. \A x \in stored' : blocks'[x].is_send /\ (\A g \in accepted' : Block[g].link # x) =>
            \E q \in pending' : q.hash = x
    BY <1>2, <1>6, <1>9
  <2> QED BY <1>4, <1>9, <2>1, <2>2 DEF Destinations
<1> QED BY <1>7, <1>8, <1>9, AppendsPending

(* Undoing a block maintains the destinations. *)
LEMMA UndoesDestinations ==
    ASSUME IInv, Destinations, NEW h, NEW a, NEW info, Undoes(h, a, info)
    PROVE  Destinations'
<1>1. h \in stored /\ blocks[h].account = a
  BY DEF Undoes
<1>2. /\ stored' = stored \ {h} /\ accepted' = accepted \ {h}
      /\ cemented' = cemented /\ \A x \in stored' : x # h /\ blocks'[x] = blocks[x]
      /\ accounts'[a] = info /\ \A b \in Account : b # a => accounts'[b] = accounts[b]
      /\ confirmation_height' = confirmation_height /\ pruned' = pruned
      /\ blocks[h].height > confirmation_height[a].height
  BY UndoesSets
<1>3. \A x \in stored' : x \in stored /\ x \in Hash
  BY <1>2, AcceptedFields
<1>4. \A p \in pending : p.hash \in stored' => p.account = Block[p.hash].link
  BY <1>2 DEF Destinations
<1>5. \A g \in stored' : Block[g].link \in stored' => Block[Block[g].link].link = blocks'[g].account
  BY <1>2 DEF Destinations
<1>6. ASSUME NEW x \in stored', blocks'[x].is_send, \A g \in accepted' : Block[g].link # x,
             Block[h].link # x
      PROVE  \E p \in pending : p.hash = x
  <2>1. \A g \in accepted : Block[g].link # x
    BY <1>2, <1>6
  <2>2. x \in stored /\ blocks[x].is_send
    BY <1>2, <1>6
  <2> QED BY <2>1, <2>2 DEF Destinations
<1>7. ASSUME Block[h].link \notin Hash, NEW p \in pending, p.hash = h, pending' = pending \ {p}
      PROVE  Destinations'
  <2>1. ASSUME NEW x \in stored', blocks'[x].is_send, \A g \in accepted' : Block[g].link # x
        PROVE  \E q \in pending' : q.hash = x
    <3>1. PICK q \in pending : q.hash = x
      BY <1>3, <1>6, <1>7, <2>1
    <3> QED BY <1>2, <1>7, <3>1
  <2> QED BY <1>4, <1>5, <1>7, <2>1 DEF Destinations
<1>8. ASSUME NEW p, p.hash = Block[h].link, p.account = a, pending' = pending \cup {p}
      PROVE  Destinations'
  <2>1. p.hash \in stored' => p.account = Block[p.hash].link
    BY <1>1, <1>3, <1>8 DEF Destinations
  <2>2. ASSUME NEW x \in stored', blocks'[x].is_send, \A g \in accepted' : Block[g].link # x
        PROVE  \E q \in pending' : q.hash = x
    BY <1>6, <1>8, <2>2
  <2> QED BY <1>4, <1>5, <1>8, <2>1, <2>2 DEF Destinations
<1>9. ASSUME Block[h].link \notin Hash, pending' = pending
      PROVE  Destinations'
  <2>1. ASSUME NEW x \in stored', blocks'[x].is_send, \A g \in accepted' : Block[g].link # x
        PROVE  \E q \in pending' : q.hash = x
    BY <1>3, <1>6, <1>9, <2>1
  <2> QED BY <1>4, <1>5, <1>9, <2>1 DEF Destinations
<1> QED BY <1>7, <1>8, <1>9, UndoesPending

(* So do the other steps. *)
LEMMA DestinationsStep ==
    ASSUME IInv, Destinations, Step
    PROVE  Destinations'
<1>1. CASE PruneStep
  <2>1. /\ stored' = stored \ {prune_hash} /\ accepted' = accepted /\ pending' = pending
        /\ \A x \in stored' : x # prune_hash /\ blocks'[x] = blocks[x]
    BY <1>1, PruneSets
  <2> QED BY <2>1 DEF Destinations
<1>2. CASE UNCHANGED tables
  BY <1>2, SameTables DEF Destinations
<1> QED BY <1>1, <1>2, TableSteps, AppendsDestinations, UndoesDestinations

-----------------------------------------------------------------------------
(* Amounts.                                                                *)

(* They stay while the previous block does. *)
LEMMA BeforeStays ==
    ASSUME NEW x \in Hash, Block[x].previous \in stored <=> Block[x].previous \in stored',
           Block[x].previous \in stored => blocks'[Block[x].previous] = blocks[Block[x].previous]
    PROVE  before'[x] = before[x]
<1>1. /\ before'[x] = IF Block[x].previous \in stored' THEN blocks'[Block[x].previous].balance ELSE 0
      /\ before[x] = IF Block[x].previous \in stored THEN blocks[Block[x].previous].balance ELSE 0
  BY DEF before, block_balance, stored, block_exists
<1> QED BY <1>1

(* The balances before the blocks when one is appended. *)
LEMMA AppendsBefore ==
    ASSUME IInv, NEW h, NEW a, NEW sb, NEW info, Appends(h, a, sb, info)
    PROVE  /\ \A x \in stored : before'[x] = before[x]
           /\ before'[h] = accounts[a].balance
<1>1. /\ h \in Hash /\ h \notin accepted /\ a \in Account
      /\ accounts[a].head = Zero => Block[h].previous = Zero
      /\ accounts[a].head # Zero => Block[h].previous = accounts[a].head
  BY SMTT(30) DEF Appends
<1>2. /\ stored' = stored \cup {h} /\ accepted' = accepted \cup {h}
      /\ cemented' = cemented /\ h \notin stored /\ h \notin cemented
      /\ blocks'[h] = sb /\ \A x \in stored : blocks'[x] = blocks[x]
      /\ accounts'[a] = info /\ \A b \in Account : b # a => accounts'[b] = accounts[b]
      /\ confirmation_height' = confirmation_height /\ pruned' = pruned
      /\ sb.height \in Nat /\ sb.height > confirmation_height[a].height
  BY AppendsSets
<1>3. h # Zero /\ Zero \notin stored
  BY <1>1, UniverseAssumption DEF stored
<1>4. ASSUME NEW x \in stored PROVE before'[x] = before[x]
  <2>1. Block[x].previous # h /\ x \in Hash
    BY <1>1, <1>3, AcceptedFields DEF IInv, Linked
  <2> QED BY <1>2, <2>1, BeforeStays
<1>5. CASE accounts[a].head = Zero
  <2>1. accounts[a].balance = 0 /\ Block[h].previous \notin stored'
    BY <1>1, <1>2, <1>3, <1>5 DEF IInv, Heads
  <2>2. before'[h] = 0
    BY <1>1, <2>1 DEF before, block_balance, stored, block_exists
  <2> QED BY <1>4, <2>1, <2>2
<1>6. CASE accounts[a].head # Zero
  <2>1. /\ Block[h].previous \in stored /\ blocks[Block[h].previous].balance = accounts[a].balance
    BY <1>1, <1>6 DEF IInv, Heads
  <2>2. Block[h].previous \in stored' /\ blocks'[Block[h].previous] = blocks[Block[h].previous]
    BY <1>2, <2>1
  <2>3. before'[h] = blocks'[Block[h].previous].balance
    BY <1>1, <2>2 DEF before, block_balance, stored, block_exists
  <2> QED BY <1>4, <2>1, <2>2, <2>3
<1> QED BY <1>5, <1>6

(* Appending a block maintains the amounts. *)
LEMMA AppendsAmounts ==
    ASSUME IInv, Amounts, NEW h, NEW a, NEW sb, NEW info, Appends(h, a, sb, info)
    PROVE  Amounts'
<1>1. h \in Hash /\ h \notin accepted /\ a \in Account /\ sb \in Sideband
  BY DEF Appends
<1>2. /\ stored' = stored \cup {h} /\ accepted' = accepted \cup {h}
      /\ cemented' = cemented /\ h \notin stored /\ h \notin cemented
      /\ blocks'[h] = sb /\ \A x \in stored : blocks'[x] = blocks[x]
      /\ accounts'[a] = info /\ \A b \in Account : b # a => accounts'[b] = accounts[b]
      /\ confirmation_height' = confirmation_height /\ pruned' = pruned
      /\ sb.height \in Nat /\ sb.height > confirmation_height[a].height
  BY AppendsSets
<1>3. /\ \A p \in pending : p.hash \in accepted /\ p.amount \in Int
      /\ \A g \in accepted : Block[g].link \in Hash => Block[g].link \in accepted
      /\ \A x \in accepted : x # h /\ x \in Hash
      /\ \A x \in stored : x \in accepted
  BY <1>1, AcceptedFields, EntryFields DEF IInv, Receipts
<1>4. /\ \A x \in stored : before'[x] = before[x]
      /\ before'[h] = accounts[a].balance
  BY AppendsBefore
<1>5. sb.balance \in Int /\ accounts[a].balance \in Int
  BY <1>1 DEF Sideband, IInv, TypeOK, AccountInfo
<1>6. accounts[a].balance >= 0
  <2>1. accounts[a].head = Zero => accounts[a].balance = 0
    BY <1>1 DEF IInv, Heads
  <2>2. accounts[a].head # Zero =>
           accounts[a].head \in stored /\ blocks[accounts[a].head].balance = accounts[a].balance
    BY <1>1 DEF IInv, Heads
  <2>3. accounts[a].head # Zero => accounts[a].balance >= 0
    BY <2>2 DEF Amounts
  <2> QED BY <2>1, <2>3, SMTT(30)
<1>7. ASSUME NEW x \in stored
      PROVE  /\ blocks'[x].balance >= 0
             /\ Block[x].previous \notin pruned' =>
                  /\ Block[x].link \in Hash => blocks'[x].balance >= before'[x]
                  /\ ~blocks'[x].is_send /\ Block[x].link \notin Hash /\ x # genesis =>
                        blocks'[x].balance = before'[x]
  BY <1>2, <1>4 DEF Amounts
<1>8. ASSUME NEW p \in pending
      PROVE  /\ p.amount >= 0
             /\ p.hash \in stored' => p.hash \in stored
             /\ p.hash \in stored' /\ Block[p.hash].previous \notin pruned' =>
                   p.amount = before'[p.hash] - blocks'[p.hash].balance
  <2>1. p.hash \in stored' => p.hash \in stored
    BY <1>2, <1>3
  <2> QED BY <1>2, <1>4, <2>1 DEF Amounts
<1>9. ASSUME NEW g \in stored, Block[g].link \in stored',
             Block[g].previous \notin pruned', Block[Block[g].link].previous \notin pruned'
      PROVE  blocks'[g].balance - before'[g] =
                before'[Block[g].link] - blocks'[Block[g].link].balance
  <2>1. Block[g].link \in stored
    BY <1>1, <1>2, <1>3, <1>9
  <2> QED BY <1>2, <1>4, <1>9, <2>1 DEF Amounts
<1>10. /\ sb.balance >= 0
       /\ Block[h].link \in Hash => sb.balance >= before'[h]
       /\ ~sb.is_send /\ Block[h].link \notin Hash => sb.balance = before'[h]
  <2>1. ASSUME NEW p \in pending, sb.balance = accounts[a].balance + p.amount
        PROVE  sb.balance >= 0 /\ sb.balance >= accounts[a].balance
    BY <1>3, <1>5, <1>6, <1>8, <2>1, SMTT(30)
  <2> QED BY <1>4, <1>6, <2>1, AppendsPending
<1>11. ASSUME NEW p \in pending'
       PROVE  /\ p.amount >= 0
              /\ p.hash \in stored' /\ Block[p.hash].previous \notin pruned' =>
                   p.amount = before'[p.hash] - blocks'[p.hash].balance
  <2>1. ASSUME NEW q, sb.balance <= accounts[a].balance, q.hash = h,
               q.amount = accounts[a].balance - sb.balance, pending' = pending \cup {q}, p \notin pending
        PROVE  p.amount >= 0 /\ p.hash = h /\ p.amount = accounts[a].balance - sb.balance
    <3>1. p = q
      BY <1>11, <2>1
    <3>2. accounts[a].balance - sb.balance >= 0
      BY <1>5, <2>1, SMTT(30)
    <3> QED BY <2>1, <3>1, <3>2
  <2>2. p \notin pending => p.amount >= 0 /\ p.hash = h /\ p.amount = accounts[a].balance - sb.balance
    <3>1. ASSUME NEW q, pending' = pending \ {q} PROVE p \in pending
      BY <1>11, <3>1
    <3> QED BY <1>11, <2>1, <3>1, AppendsPending
  <2> QED BY <1>2, <1>4, <1>8, <2>2
<1>12. ASSUME NEW g \in stored', Block[g].link \in stored',
             Block[g].previous \notin pruned', Block[Block[g].link].previous \notin pruned'
       PROVE  blocks'[g].balance - before'[g] =
                before'[Block[g].link] - blocks'[Block[g].link].balance
  <2>1. CASE g \in stored
    BY <1>9, <1>12, <2>1
  <2>2. CASE g = h
    <3>1. Block[h].link \in Hash
      BY <1>1, <1>2, <1>3, <1>12, <2>2
    <3>2. PICK p \in pending : p.hash = Block[h].link /\ sb.balance = accounts[a].balance + p.amount
      BY <3>1, AppendsPending
    <3>3. p.amount = before'[Block[h].link] - blocks'[Block[h].link].balance
      BY <1>8, <1>12, <2>2, <3>2
    <3>4. sb.balance - accounts[a].balance = p.amount
      BY <1>3, <1>5, <3>2, SMTT(30)
    <3> QED BY <1>2, <1>4, <2>2, <3>3, <3>4
  <2> QED BY <1>2, <1>12, <2>1, <2>2
<1>13. \A x \in stored' :
          /\ blocks'[x].balance >= 0
          /\ Block[x].previous \notin pruned' =>
               /\ Block[x].link \in Hash => blocks'[x].balance >= before'[x]
               /\ ~blocks'[x].is_send /\ Block[x].link \notin Hash /\ x # genesis =>
                     blocks'[x].balance = before'[x]
  BY <1>2, <1>7, <1>10
<1> QED BY <1>11, <1>12, <1>13 DEF Amounts

(* Undoing a block maintains the amounts. *)
LEMMA UndoesAmounts ==
    ASSUME IInv, Amounts, NEW h, NEW a, NEW info, Undoes(h, a, info)
    PROVE  Amounts'
<1>1. h \in stored
  BY DEF Undoes
<1>2. /\ stored' = stored \ {h} /\ accepted' = accepted \ {h}
      /\ cemented' = cemented /\ \A x \in stored' : x # h /\ blocks'[x] = blocks[x]
      /\ accounts'[a] = info /\ \A b \in Account : b # a => accounts'[b] = accounts[b]
      /\ confirmation_height' = confirmation_height /\ pruned' = pruned
      /\ blocks[h].height > confirmation_height[a].height
  BY UndoesSets
<1>3. /\ h \in Hash /\ Block[h].previous \notin pruned
      /\ \A x \in accepted : Block[x].previous # h /\ Block[x].link # h
  BY UndoesDiscard
<1>4. \A x \in stored' : x \in stored /\ x \in accepted /\ x \in Hash
  BY <1>2, AcceptedFields
<1>5. \A x \in stored' : before'[x] = before[x]
  BY <1>2, <1>3, <1>4, BeforeStays
<1>6. ASSUME NEW x \in stored'
      PROVE  /\ blocks'[x].balance >= 0
             /\ Block[x].previous \notin pruned' =>
                  /\ Block[x].link \in Hash => blocks'[x].balance >= before'[x]
                  /\ ~blocks'[x].is_send /\ Block[x].link \notin Hash /\ x # genesis =>
                        blocks'[x].balance = before'[x]
  BY <1>2, <1>4, <1>5 DEF Amounts
<1>7. ASSUME NEW g \in stored', Block[g].link \in stored',
             Block[g].previous \notin pruned', Block[Block[g].link].previous \notin pruned'
      PROVE  blocks'[g].balance - before'[g] =
                before'[Block[g].link] - blocks'[Block[g].link].balance
  BY <1>2, <1>4, <1>5, <1>7 DEF Amounts
<1>8. ASSUME NEW p \in pending'
      PROVE  /\ p.amount >= 0
             /\ p.hash \in stored' /\ Block[p.hash].previous \notin pruned' =>
                  p.amount = before'[p.hash] - blocks'[p.hash].balance
  <2>1. CASE p \in pending
    BY <1>2, <1>4, <1>5, <2>1 DEF Amounts
  <2>2. CASE /\ p.hash = Block[h].link /\ Block[h].link \in Hash
             /\ p.amount = blocks[h].balance - block_balance(Block[h].previous)
    <3>1. before[h] = block_balance(Block[h].previous) /\ before[h] \in Int /\ blocks[h].balance \in Int
      BY <1>1, <1>3, BeforeType, StoredFields
    <3>2. blocks[h].balance >= before[h]
      BY <1>1, <1>3, <2>2 DEF Amounts
    <3>3. p.amount >= 0
      BY <2>2, <3>1, <3>2, SMTT(30)
    <3>4. ASSUME p.hash \in stored', Block[p.hash].previous \notin pruned'
          PROVE  p.amount = before'[p.hash] - blocks'[p.hash].balance
      <4>1. blocks[h].balance - before[h] = before[p.hash] - blocks[p.hash].balance
        BY <1>1, <1>2, <1>3, <1>4, <2>2, <3>4 DEF Amounts
      <4> QED BY <1>2, <1>5, <2>2, <3>1, <3>4, <4>1
    <3> QED BY <3>3, <3>4
  <2> QED BY <2>1, <2>2, UndoesPending
<1> QED BY <1>6, <1>7, <1>8 DEF Amounts

(* So do the other steps: below a pruned block no amount is known. *)
LEMMA AmountsStep ==
    ASSUME IInv, Amounts, Step
    PROVE  Amounts'
<1>1. CASE PruneStep
  <2>1. /\ stored' = stored \ {prune_hash} /\ pruned' = pruned \cup {prune_hash} /\ pending' = pending
        /\ \A x \in stored' : x # prune_hash /\ blocks'[x] = blocks[x]
    BY <1>1, PruneSets
  <2>2. \A x \in stored' : x \in stored /\ x \in Hash
    BY <2>1, AcceptedFields
  <2>3. \A x \in stored' : Block[x].previous \notin pruned' =>
           Block[x].previous \notin pruned /\ before'[x] = before[x]
    BY <2>1, <2>2, BeforeStays
  <2>4. \A x \in stored' :
          /\ blocks'[x].balance >= 0
          /\ Block[x].previous \notin pruned' =>
               /\ Block[x].link \in Hash => blocks'[x].balance >= before'[x]
               /\ ~blocks'[x].is_send /\ Block[x].link \notin Hash /\ x # genesis =>
                     blocks'[x].balance = before'[x]
    BY <2>1, <2>2, <2>3 DEF Amounts
  <2>5. \A p \in pending :
          /\ p.amount >= 0
          /\ p.hash \in stored' /\ Block[p.hash].previous \notin pruned' =>
                p.amount = before'[p.hash] - blocks'[p.hash].balance
    BY <2>1, <2>2, <2>3 DEF Amounts
  <2>6. ASSUME NEW g \in stored', Block[g].link \in stored',
               Block[g].previous \notin pruned', Block[Block[g].link].previous \notin pruned'
        PROVE  blocks'[g].balance - before'[g] =
                  before'[Block[g].link] - blocks'[Block[g].link].balance
    BY <2>1, <2>2, <2>3, <2>6 DEF Amounts
  <2> QED BY <2>1, <2>4, <2>5, <2>6 DEF Amounts
<1>2. CASE UNCHANGED tables
  <2>1. before' = before
    BY <1>2, SameTables DEF before, block_balance, block_exists
  <2> QED BY <1>2, <2>1, SameTables DEF Amounts
<1> QED BY <1>1, <1>2, TableSteps, AppendsAmounts, UndoesAmounts

-----------------------------------------------------------------------------
(* The invariant of the tables.                                            *)

(* The tables that seed_genesis leaves. *)
LEMMA InitTInv == Init => TInv
<1> SUFFICES ASSUME Init PROVE TInv
  OBVIOUS
<1>1. stored = {genesis} /\ pruned = {} /\ pending = {} /\ accepted = {genesis}
  BY GenesisAssumption, SMTT(30) DEF Init, stored, accepted, block_exists, NoSideband
<1>2. /\ genesis \in Hash /\ genesis # Zero /\ Zero \notin Hash
      /\ Block[genesis].type = "open" /\ Block[genesis].account \in Account
      /\ Block[genesis].previous = Zero /\ Block[genesis].link = Zero
      /\ Block[genesis].balance \in Nat
  BY GenesisAssumption, UniverseAssumption, BlockFields
<1>3. blocks[genesis].account = Block[genesis].account /\ blocks[genesis].balance = Block[genesis].balance
      /\ blocks[genesis].height = 1 /\ blocks[genesis].epoch = 0
  BY <1>2 DEF Init, NoSideband
<1>4. ASSUME NEW a \in Account
      PROVE  IF a = Block[genesis].account
             THEN accounts[a].head = genesis /\ accounts[a].open_block = genesis /\ accounts[a].epoch = 0
             ELSE accounts[a].head = Zero /\ accounts[a].open_block = Zero
  BY DEF Init, NoAccount
<1>5. Successors
  <2>1. \A x \in Hash : successor[x] = Zero
    BY DEF Init
  <2>2. \A a \in Account : IF accounts[a].head = Zero THEN accounts[a].open_block = Zero
                           ELSE /\ accounts[a].open_block \in accepted
                                /\ Block[accounts[a].open_block].previous = Zero
                                /\ Block[accounts[a].open_block].account = a
    BY <1>1, <1>2, <1>4
  <2> QED BY <1>1, <1>2, <1>3, <1>4, <2>1, <2>2 DEF Successors
<1>6. Adjacent
  BY <1>1, <1>3, SMTT(30) DEF Adjacent
<1>7. Destinations
  <2>1. blocks[genesis].is_send = FALSE
    BY <1>2 DEF Init, NoSideband
  <2> QED BY <1>1, <1>2, <2>1 DEF Destinations
<1>8. Amounts
  BY <1>1, <1>2, <1>3, SMTT(30) DEF Amounts
<1> QED BY <1>5, <1>6, <1>7, <1>8 DEF TInv

(* process, rollback, cement and pruning_action keep the tables consistent
   with each other, not only each with itself. *)
THEOREM TablesInvariance == Spec => [](IInv /\ TInv)
<1>1. Init => IInv /\ TInv
  BY InitIInv, InitTInv
<1>2. IInv /\ TInv /\ [Next]_vars => (IInv /\ TInv)'
  <2> SUFFICES ASSUME IInv, TInv, [Next]_vars PROVE IInv' /\ TInv'
    OBVIOUS
  <2>1. IInv'
    BY StepOf, Inductive
  <2>2. TInv'
    BY StepOf, SuccessorsStep, AdjacentStep, DestinationsStep, AmountsStep DEF TInv
  <2> QED BY <2>1, <2>2
<1> QED BY <1>1, <1>2, PTL DEF Spec
=============================================================================
