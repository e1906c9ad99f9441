------------------------------- MODULE Ledger -------------------------------
(***************************************************************************)
(* nano::ledger: the block lattice in the store, and the three operations  *)
(* that write it under the write lock: processing a block                  *)
(* (ledger_processor), rolling a block back (ledger_rollback), cementing a *)
(* block with its dependencies (ledger::cement), and, on a node that keeps *)
(* only recent history, pruning cemented blocks (ledger::pruning_action).  *)
(*                                                                         *)
(* Blocks are drawn from a fixed universe of candidates, Block; a hash     *)
(* stands for the block it identifies.  Processing a block is one step,    *)
(* for it never gives up the write lock.  Rolling back, cementing and      *)
(* pruning are loops, one iteration of the loop per step; cementing and    *)
(* pruning may commit and release the lock between two iterations.         *)
(***************************************************************************)
EXTENDS Integers, Sequences, FiniteSets, Functions, RepWeights

CONSTANTS
    Account,        \* account numbers, the burn account excluded
    Hash,           \* hashes of the candidate blocks
    EpochLink,      \* link values that mark an epoch block
    Zero,           \* the zero account (burn account), zero hash and zero link
    Block,          \* Block[h]: the content of the candidate block h
    Epochs,         \* Epochs[l]: epoch number and signer of the epoch link l
    genesis,        \* hash of the genesis block
    MaxRollbackDepth, \* ledger::rollback's max_depth
    MaxBlocks,      \* ledger::cement's max_blocks: its stack and result bound
    Pruning         \* whether the pruning flag is set

Account0 == Account \cup {Zero}
Hash0 == Hash \cup {Zero}
Signer == Account0 \cup {Epochs[l].signer : l \in EpochLink}

BlockContent ==
    [type : {"send", "receive", "open", "change", "state"},
     account : Account0,            \* open and state blocks only
     previous : Hash0,
     representative : Account0,     \* open, change and state blocks
     balance : Nat,                 \* send and state blocks, and genesis
     link : Account0 \cup Hash \cup EpochLink,  \* destination or source
     signer : Signer,               \* whose key signed it
     work : BOOLEAN]                \* whether its work meets the threshold

ASSUME UniverseAssumption ==
    /\ Zero \notin Account \cup Hash \cup EpochLink
    /\ Account \cap Hash = {} /\ EpochLink \cap (Account \cup Hash) = {}
    /\ Block \in [Hash -> BlockContent]
    /\ Pruning \in BOOLEAN
    /\ MaxRollbackDepth \in Nat /\ MaxBlocks \in Nat \ {0}

ASSUME FiniteAssumption == IsFiniteSet(Hash) /\ IsFiniteSet(Account)

ASSUME EpochAssumption ==
    \A l \in EpochLink : Epochs[l].epoch \in Nat \ {0}

(* The genesis block opens its account out of nothing. *)
ASSUME GenesisAssumption ==
    /\ genesis \in Hash
    /\ Block[genesis].type = "open"
    /\ Block[genesis].account \in Account
    /\ Block[genesis].representative = Block[genesis].account
    /\ Block[genesis].previous = Zero /\ Block[genesis].link = Zero

(* Legacy blocks refer to blocks only as previous and source, and only
   the genesis block opens an account without a source. *)
ASSUME LegacyAssumption ==
    \A h \in Hash :
        /\ Block[h].type \in {"send", "receive", "change"} => Block[h].account = Zero
        /\ Block[h].type = "send" => Block[h].link \in Account0
        /\ Block[h].type = "change" => Block[h].link = Zero
        /\ Block[h].type = "open" => Block[h].previous = Zero
        /\ Block[h].type = "receive" => Block[h].link \in Hash
        /\ Block[h].type = "open" /\ h # genesis => Block[h].link \in Hash

-----------------------------------------------------------------------------

VARIABLES
    blocks,         \* the block table: each block's sideband, NoSideband if absent
    successor,      \* the successor table, Zero if absent
    accounts,       \* the account table, NoAccount if absent
    pending,        \* the pending table: sends not received yet
    rep_weights,    \* see RepWeights
    confirmation_height, \* the confirmation height table, [0, Zero] if absent
    pruned,         \* the pruned table
    cache           \* the counters kept in memory

VARIABLES
    writer,         \* operation that holds the write lock, "none" if free
    rollback_stack, \* targets of the nested calls of ledger::rollback
    rollback_list,  \* blocks rolled back so far by the current call
    cement_target,  \* ledger::cement's target_hash
    cement_stack,   \* the stack of bounded_dfs, top last
    cement_count,   \* blocks cemented so far by the current call
    prune_hash,     \* next block of pruning_action, Zero if it is not running
    failed          \* a release_assert ended the process

tables == <<blocks, successor, accounts, pending, rep_weights, pruned>>
rollbackVars == <<rollback_stack, rollback_list>>
cementVars == <<cement_target, cement_stack, cement_count, confirmation_height>>
vars == <<tables, cache, writer, rollbackVars, cementVars, prune_hash, failed>>

(* Default constructed values stand for rows that are absent. *)
NoSideband == [account |-> Zero, balance |-> 0, height |-> 0, epoch |-> 0,
               source_epoch |-> 0, is_send |-> FALSE]
NoAccount == [head |-> Zero, representative |-> Zero, open_block |-> Zero,
              balance |-> 0, block_count |-> 0, epoch |-> 0]
NotConfirmed == [height |-> 0, frontier |-> Zero]

(* ledger_set_any and ledger_set_cemented: what the tables answer. *)
block_exists(h) == h \in Hash /\ blocks[h].height # 0
block_exists_or_pruned(h) == h \in pruned \/ block_exists(h)
block_balance(h) == IF block_exists(h) THEN blocks[h].balance ELSE 0
block_account(h) == IF block_exists(h) THEN blocks[h].account ELSE Zero
account_exists(a) == a \in Account /\ accounts[a].head # Zero
account_head_open(a) == IF account_exists(a) THEN accounts[a].open_block ELSE Zero   \* mutant
account_head(a) == IF account_exists(a) THEN accounts[a].head ELSE Zero
cemented_block_exists(h) ==
    block_exists(h) /\ blocks[h].height <= confirmation_height[blocks[h].account].height
cemented_block_exists_or_pruned(h) == h \in pruned \/ cemented_block_exists(h)

receivable(a, h) == \E p \in pending : p.account = a /\ p.hash = h
pending_get(a, h) == CHOOSE p \in pending : p.account = a /\ p.hash = h

(* The root a block competes for, and the blocks it needs before it. *)
QualifiedRoot == [h \in Hash |->
    IF Block[h].previous = Zero THEN Block[h].account ELSE Block[h].previous]
Dependencies == [h \in Hash |-> {Block[h].previous, Block[h].link} \cap Hash]

(* ledger_set_any::block_successor of a qualified root. *)
block_successor(root) ==
    IF root \in Hash THEN successor[root]
    ELSE IF account_exists(root) THEN accounts[root].open_block ELSE Zero

(* ledger::version of a stored block. *)
version(h) ==
    IF block_exists(h) /\ Block[h].type = "state" THEN blocks[h].epoch ELSE 0

(* representative_block_visitor: walk down to the block that set the
   representative; Zero where the walk meets a block that is not stored. *)
representative_block[h \in Hash0] ==
    IF ~block_exists(h) THEN Zero
    ELSE IF Block[h].type \in {"send", "receive"}
         THEN representative_block[Block[h].previous]
         ELSE h

-----------------------------------------------------------------------------

(* seed_genesis, and the caches ledger::initialize derives from it. *)
Init ==
    LET g == Block[genesis] IN
    /\ blocks = [h \in Hash |-> IF h = genesis
                    THEN [NoSideband EXCEPT !.account = g.account,
                             !.balance = g.balance, !.height = 1]
                    ELSE NoSideband]
    /\ successor = [h \in Hash |-> Zero]
    /\ accounts = [a \in Account |-> IF a = g.account
                      THEN [head |-> genesis, representative |-> g.account,
                            open_block |-> genesis, balance |-> g.balance,
                            block_count |-> 1, epoch |-> 0]
                      ELSE NoAccount]
    /\ pending = {}
    /\ rep_weights =
        LET w == [a \in Account0 |-> IF a = g.account THEN g.balance ELSE 0]
        IN  [store |-> w, cache |-> [a \in Account0 |-> put_cache(w[a])],
             committed |-> g.balance, unused |-> 0]
    /\ confirmation_height = [a \in Account |-> IF a = g.account
                      THEN [height |-> 1, frontier |-> genesis] ELSE NotConfirmed]
    /\ pruned = {}
    /\ cache = [block_count |-> 1, cemented_count |-> 1, account_count |-> 1,
                pruned_count |-> 0]
    /\ writer = "none"
    /\ rollback_stack = <<>> /\ rollback_list = {}
    /\ cement_target = Zero /\ cement_stack = <<>> /\ cement_count = 0
    /\ prune_hash = Zero
    /\ failed = FALSE

-----------------------------------------------------------------------------
(* ledger_processor: the verdict on a block, in the order of its checks. *)

(* Legacy blocks may only follow legacy blocks. *)
valid_predecessor(h) == Block[h].type # "state"

(* The checks common to the three legacy blocks that have a predecessor. *)
legacy_chain_status(h) ==
    LET previous == Block[h].previous
        account == blocks[previous].account IN
    IF block_exists_or_pruned(h) THEN "old"
    ELSE IF ~block_exists(previous) THEN "gap_previous"
    ELSE IF ~valid_predecessor(previous) THEN "block_position"
    ELSE IF accounts[account].head # previous THEN "fork"
    ELSE IF Block[h].signer # account THEN "bad_signature"
    ELSE "progress"

work_status(h) == IF Block[h].work THEN "progress" ELSE "insufficient_work"

send_status(h) ==
    LET account == blocks[Block[h].previous].account IN
    IF legacy_chain_status(h) # "progress" THEN legacy_chain_status(h)
    ELSE IF ~Block[h].work THEN "insufficient_work"
    ELSE IF accounts[account].balance < Block[h].balance THEN "negative_spend"
    ELSE "progress"

(* Legacy receives only take what a sender at epoch 0 sent. *)
legacy_pending_status(account, h) ==
    IF ~receivable(account, Block[h].link) THEN "unreceivable"
    ELSE IF account = Zero THEN "opened_burn_account"
    ELSE IF pending_get(account, Block[h].link).epoch # 0 THEN "unreceivable"
    ELSE work_status(h)

receive_status(h) ==
    IF legacy_chain_status(h) # "progress" THEN legacy_chain_status(h)
    ELSE IF ~block_exists_or_pruned(Block[h].link) THEN "gap_source"
    ELSE legacy_pending_status(blocks[Block[h].previous].account, h)

open_status(h) ==
    LET account == Block[h].account IN
    IF block_exists_or_pruned(h) THEN "old"
    ELSE IF Block[h].signer # account THEN "bad_signature"
    ELSE IF ~block_exists_or_pruned(Block[h].link) THEN "gap_source"
    ELSE IF account_exists(account) THEN "fork"
    ELSE legacy_pending_status(account, h)

change_status(h) ==
    IF legacy_chain_status(h) # "progress" THEN legacy_chain_status(h)
    ELSE work_status(h)

(* state_block_impl *)
state_is_send(h) ==
    /\ account_exists(Block[h].account)
    /\ Block[h].balance < accounts[Block[h].account].balance

state_amount(h) == Block[h].balance - accounts[Block[h].account].balance

state_link_status(h) ==
    LET b == Block[h] IN
    IF state_is_send(h) THEN work_status(h)
    ELSE IF b.link = Zero
         THEN IF state_amount(h) = 0 THEN work_status(h) ELSE "balance_mismatch"
    ELSE IF ~block_exists_or_pruned(b.link) THEN "gap_source"
    ELSE IF ~receivable(b.account, b.link) THEN "unreceivable"
    ELSE IF state_amount(h) # pending_get(b.account, b.link).amount THEN "balance_mismatch"
    ELSE work_status(h)

state_impl_status(h) ==
    LET b == Block[h] IN
    IF block_exists_or_pruned(h) THEN "old"
    ELSE IF b.signer # b.account THEN "bad_signature"
    ELSE IF b.account = Zero THEN "opened_burn_account"
    ELSE IF account_exists(b.account)
         THEN IF b.previous = Zero THEN "fork"
              ELSE IF ~block_exists(b.previous) THEN "gap_previous"
              ELSE IF b.previous # accounts[b.account].head THEN "fork"
              ELSE state_link_status(h)
    ELSE IF b.previous # Zero THEN "gap_previous"
    ELSE IF b.link = Zero THEN "gap_source"
    ELSE state_link_status(h)

(* epoch_block_impl *)
epoch_impl_status(h) ==
    LET b == Block[h]
        info == accounts[b.account] IN
    IF block_exists_or_pruned(h) THEN "old"
    ELSE IF b.signer # Epochs[b.link].signer THEN "bad_signature"
    ELSE IF b.account = Zero THEN "opened_burn_account"
    ELSE IF account_exists(b.account) /\ b.previous = Zero THEN "fork"
    ELSE IF account_exists(b.account) /\ b.previous # info.head THEN "fork"
    ELSE IF b.representative # info.representative THEN "representative_mismatch"
    ELSE IF account_exists(b.account) /\ Epochs[b.link].epoch # info.epoch + 1 THEN "block_position"
    ELSE IF b.balance # info.balance THEN "balance_mismatch"
    ELSE work_status(h)

(* validate_epoch_block: a block with an epoch link that leaves the balance
   as it was is an epoch block, any other an ordinary state block. *)
is_epoch_block(h) ==
    /\ Block[h].link \in EpochLink
    /\ Block[h].balance = block_balance(Block[h].previous)

state_status(h) ==
    LET b == Block[h] IN
    IF b.link \in EpochLink /\ b.previous # Zero /\ ~block_exists(b.previous)
    THEN IF b.signer \in {b.account, Epochs[b.link].signer}
         THEN "gap_previous" ELSE "bad_signature"
    ELSE IF is_epoch_block(h) THEN epoch_impl_status(h) ELSE state_impl_status(h)

(* ledger::process: the verdict of the visitor for the block's type. *)
block_status(h) ==
    CASE Block[h].type = "send" -> send_status(h)
      [] Block[h].type = "receive" -> receive_status(h)
      [] Block[h].type = "open" -> open_status(h)
      [] Block[h].type = "change" -> change_status(h)
      [] Block[h].type = "state" -> state_status(h)

-----------------------------------------------------------------------------
(* What an accepted block writes.                                          *)

(* mutant: the successor of previous is not written *)
put_block_unlinked(h, account, sideband, info) ==
    /\ blocks' = [blocks EXCEPT ![h] = sideband]
    /\ accounts' = [accounts EXCEPT ![account] = info]
    /\ cache' = [cache EXCEPT !.block_count = cache.block_count + 1,
                    !.account_count = cache.account_count + (IF accounts[account].head = Zero THEN 1 ELSE 0)]
    /\ UNCHANGED <<successor, pruned, writer, rollbackVars, cementVars, prune_hash, failed>>

(* put_block (the block store writes the successor of previous too),
   update_account and the block counter. *)
put_block(h, account, sideband, info) ==
    /\ blocks' = [blocks EXCEPT ![h] = sideband]
    /\ successor' = [g \in Hash |-> IF g = Block[h].previous THEN h ELSE successor[g]]
    /\ accounts' = [accounts EXCEPT ![account] = info]
    /\ cache' = [cache EXCEPT !.block_count = cache.block_count + 1,
                    !.account_count = cache.account_count + (IF accounts[account].head = Zero THEN 1 ELSE 0)]
    /\ UNCHANGED <<pruned, writer, rollbackVars, cementVars, prune_hash, failed>>

(* The account after a block with this balance, representative and epoch. *)
next_info(h, account, balance, representative, epoch) ==
    LET info == accounts[account] IN
    [head |-> h, representative |-> representative,
     open_block |-> IF info.open_block = Zero THEN h ELSE info.open_block,
     balance |-> balance, block_count |-> info.block_count + 1, epoch |-> epoch]

(* The sideband of a block appended to its account. *)
next_sideband(account, balance, epoch, source_epoch, is_send) ==
    [account |-> account, balance |-> balance,
     height |-> accounts[account].block_count + 1,
     epoch |-> epoch, source_epoch |-> source_epoch, is_send |-> is_send]

SendBlock(h) ==
    LET account == blocks[Block[h].previous].account
        info == accounts[account]
        balance == Block[h].balance IN
    /\ Block[h].type = "send" /\ send_status(h) = "progress"
    /\ rep_weights' = sub(rep_weights, info.representative, info.balance - balance)
    /\ put_block(h, account, next_sideband(account, balance, 0, 0, TRUE),
                 next_info(h, account, balance, info.representative, 0))
    /\ pending' = pending \cup {[account |-> Block[h].link, hash |-> h, source |-> account,
                                 amount |-> info.balance - balance, epoch |-> 0]}

ReceiveBlock_keeps_pending(h) ==         \* mutant: the send stays receivable
    LET account == blocks[Block[h].previous].account
        info == accounts[account] IN
    /\ Block[h].type = "receive" /\ receive_status(h) = "progress"
    /\ \E p \in pending :
        /\ p.account = account /\ p.hash = Block[h].link
        /\ put_block(h, account, next_sideband(account, info.balance + p.amount, 0, 0, FALSE),
                     next_info(h, account, info.balance + p.amount, info.representative, 0))
        /\ rep_weights' = add(rep_weights, info.representative, p.amount)
    /\ UNCHANGED pending

ReceiveBlock(h) ==
    LET account == blocks[Block[h].previous].account
        info == accounts[account] IN
    /\ Block[h].type = "receive" /\ receive_status(h) = "progress"
    /\ \E p \in pending :
        /\ p.account = account /\ p.hash = Block[h].link
        /\ pending' = pending \ {p}
        /\ put_block(h, account, next_sideband(account, info.balance + p.amount, 0, 0, FALSE),
                     next_info(h, account, info.balance + p.amount, info.representative, 0))
        /\ rep_weights' = add(rep_weights, info.representative, p.amount)

OpenBlock(h) ==
    LET account == Block[h].account
        representative == Block[h].representative IN
    /\ Block[h].type = "open" /\ open_status(h) = "progress"
    /\ \E p \in pending :
        /\ p.account = account /\ p.hash = Block[h].link
        /\ pending' = pending \ {p}
        /\ put_block(h, account, next_sideband(account, p.amount, 0, 0, FALSE),
                     next_info(h, account, p.amount, representative, 0))
        /\ rep_weights' = add(rep_weights, representative, p.amount)

ChangeBlock(h) ==
    LET account == blocks[Block[h].previous].account
        info == accounts[account]
        representative == Block[h].representative IN
    /\ Block[h].type = "change" /\ change_status(h) = "progress"
    /\ put_block(h, account, next_sideband(account, info.balance, 0, 0, FALSE),
                 next_info(h, account, info.balance, representative, 0))
    /\ rep_weights' = move(rep_weights, info.representative, representative,
                           blocks[Block[h].previous].balance)
    /\ UNCHANGED pending

(* The representative and balance change of a state block, done or undone. *)
state_weights(w, from, to, exists_from, exists_to) ==
    IF exists_from /\ exists_to
    THEN move_add_sub(w, from.representative, from.balance, to.representative, to.balance)
    ELSE IF exists_to THEN add(w, to.representative, to.balance)
    ELSE sub(w, from.representative, from.balance)

StateBlock(h) ==
    LET b == Block[h]
        info == accounts[b.account]
        weights == state_weights(rep_weights, info, b, info.head # Zero, TRUE)
        append(epoch, source_epoch, is_send) ==
            put_block(h, b.account, next_sideband(b.account, b.balance, epoch, source_epoch, is_send),
                      next_info(h, b.account, b.balance, b.representative, epoch)) IN
    /\ b.type = "state" /\ ~is_epoch_block(h) /\ state_status(h) = "progress"
    /\ rep_weights' = weights
    /\ \/ /\ state_is_send(h)
          /\ b.link \notin Hash   \* destinations are keys: never the hash of a block
          /\ append(info.epoch, 0, TRUE)
          /\ pending' = pending \cup {[account |-> b.link, hash |-> h, source |-> b.account,
                                       amount |-> -state_amount(h), epoch |-> info.epoch]}
       \/ /\ ~state_is_send(h) /\ b.link # Zero
          /\ \E p \in pending :
                /\ p.account = b.account /\ p.hash = b.link
                /\ append(IF p.epoch > info.epoch THEN p.epoch ELSE info.epoch, p.epoch, FALSE)
                /\ pending' = pending \ {p}
       \/ /\ ~state_is_send(h) /\ b.link = Zero
          /\ append(info.epoch, 0, FALSE)
          /\ UNCHANGED pending

(* The epoch signer upgrades an account, or opens one that is unopened: it
   never signs an opening block that has a predecessor. *)
EpochBlock(h) ==
    LET b == Block[h]
        epoch == Epochs[b.link].epoch IN
    /\ b.type = "state" /\ is_epoch_block(h) /\ state_status(h) = "progress"
    /\ ~account_exists(b.account) => b.previous = Zero
    /\ put_block(h, b.account, next_sideband(b.account, b.balance, epoch, 0, FALSE),
                 next_info(h, b.account, accounts[b.account].balance, b.representative, epoch))
    /\ UNCHANGED <<pending, rep_weights>>

Process(h) ==
    /\ writer = "none"
    /\ \/ SendBlock(h) \/ ReceiveBlock(h) \/ OpenBlock(h)
       \/ ChangeBlock(h) \/ StateBlock(h) \/ EpochBlock(h)

-----------------------------------------------------------------------------
(* ledger::rollback.  rollback_stack holds the targets of the recursive    *)
(* calls, the outermost first.                                             *)

Last(s) == s[Len(s)]
Front(s) == SubSeq(s, 1, Len(s) - 1)

RollbackBegin(h) ==
    /\ writer = "none" /\ block_exists(h)
    /\ writer' = "rollback"
    /\ rollback_stack' = <<h>> /\ rollback_list' = {}
    /\ UNCHANGED <<tables, cache, cementVars, prune_hash, failed>>

(* The call returns: the caller of the outermost one releases the lock. *)
RollbackEnd ==
    /\ rollback_stack' = <<>> /\ writer' = "none"
    /\ UNCHANGED <<tables, cache, rollback_list, cementVars, prune_hash>>

target == Last(rollback_stack)
head == accounts[blocks[target].account].head

(* The target is gone: a nested call returns to the send that made it. *)
RollbackReturn ==
    /\ writer = "rollback" /\ ~block_exists(target)
    /\ IF Len(rollback_stack) = 1
       THEN RollbackEnd /\ UNCHANGED failed
       ELSE /\ rollback_stack' = Front(rollback_stack)
            /\ UNCHANGED <<tables, cache, writer, rollback_list, cementVars, prune_hash, failed>>

rollback_allowed_inclusive ==            \* mutant
    blocks[target].height >= confirmation_height[blocks[target].account].height
rollback_allowed == blocks[target].height > confirmation_height[blocks[target].account].height

(* The target is cemented: the error is returned through all calls. *)
RollbackPenetrates ==
    /\ writer = "rollback" /\ block_exists(target) /\ ~rollback_allowed
    /\ RollbackEnd /\ UNCHANGED failed

(* The head block is about to be undone. *)
Undoing ==
    /\ writer = "rollback" /\ block_exists(target) /\ rollback_allowed

head_is_send ==
    \/ Block[head].type = "send"
    \/ Block[head].type = "state" /\ Block[head].balance < block_balance(Block[head].previous)

(* The send was received: its destination is rolled back first, block by
   block, until the send is pending again. *)
RollbackDestination ==
    LET next == account_head(Block[head].link) IN
    /\ Undoing /\ head_is_send /\ ~receivable(Block[head].link, head)
    /\ Len(rollback_stack) <= MaxRollbackDepth
    /\ block_exists(next)
    /\ rollback_stack' = Append(rollback_stack, next)
    /\ UNCHANGED <<tables, cache, writer, rollback_list, cementVars, prune_hash, failed>>

(* The nested call would be too deep: it returns an error at once. *)
RollbackTooDeep ==
    /\ Undoing /\ head_is_send /\ ~receivable(Block[head].link, head)
    /\ Len(rollback_stack) > MaxRollbackDepth
    /\ RollbackEnd /\ UNCHANGED failed

(* mutant: the successor of previous stays *)
del_block_linked(h, account, info) ==
    /\ blocks' = [blocks EXCEPT ![h] = NoSideband]
    /\ accounts' = [accounts EXCEPT ![account] = info]
    /\ cache' = [cache EXCEPT !.block_count = cache.block_count - 1,
                    !.account_count = cache.account_count - (IF info.head = Zero THEN 1 ELSE 0)]
    /\ rollback_list' = rollback_list \cup {h}
    /\ UNCHANGED <<successor, pruned, writer, rollback_stack, cementVars, prune_hash, failed>>

(* del_block, the successor of previous, update_account and the counter. *)
del_block(h, account, info) ==
    /\ blocks' = [blocks EXCEPT ![h] = NoSideband]
    /\ successor' = [g \in Hash |-> IF g = Block[h].previous THEN Zero ELSE successor[g]]
    /\ accounts' = [accounts EXCEPT ![account] = info]
    /\ cache' = [cache EXCEPT !.block_count = cache.block_count - 1,
                    !.account_count = cache.account_count - (IF info.head = Zero THEN 1 ELSE 0)]
    /\ rollback_list' = rollback_list \cup {h}
    /\ UNCHANGED <<pruned, writer, rollback_stack, cementVars, prune_hash, failed>>

(* The account as its previous block left it; a head of Zero deletes it. *)
previous_info(h, account, representative, epoch) ==
    LET info == accounts[account] IN
    IF Block[h].previous = Zero THEN NoAccount
    ELSE [head |-> Block[h].previous, representative |-> representative,
          open_block |-> info.open_block, balance |-> block_balance(Block[h].previous),
          block_count |-> info.block_count - 1, epoch |-> epoch]

(* mutants: the source block for its account; the epoch of the send lost *)
restored_pending_source(h, account, amount, epoch) ==
    [account |-> account, hash |-> Block[h].link, source |-> Block[h].link,
     amount |-> amount, epoch |-> epoch]
restored_pending_epoch_0(h, account, amount, epoch) ==
    [account |-> account, hash |-> Block[h].link, source |-> block_account(Block[h].link),
     amount |-> amount, epoch |-> 0]

(* The pending entry a receive consumed; its source account is lost when the
   send was pruned. *)
restored_pending(h, account, amount, epoch) ==
    [account |-> account, hash |-> Block[h].link, source |-> block_account(Block[h].link),
     amount |-> amount, epoch |-> epoch]

UndoSend ==
    /\ Undoing /\ Block[head].type = "send"
    /\ \E p \in pending :
        /\ p.account = Block[head].link /\ p.hash = head
        /\ pending' = pending \ {p}
        /\ LET info == accounts[p.source] IN
           /\ rep_weights' = add(rep_weights, info.representative, p.amount)
           /\ del_block(head, p.source, previous_info(head, p.source, info.representative, 0))

UndoReceive ==
    LET account == blocks[head].account
        representative == IF Block[head].type = "open" THEN Block[head].representative
                          ELSE accounts[account].representative
        amount == blocks[head].balance - block_balance(Block[head].previous) IN
    /\ Undoing /\ Block[head].type \in {"receive", "open"}
    /\ rep_weights' = sub(rep_weights, representative, amount)
    /\ del_block(head, account, previous_info(head, account, representative, 0))
    /\ pending' = pending \cup {restored_pending(head, account, amount, 0)}

UndoChange ==
    LET account == blocks[head].account
        rep_block == representative_block[Block[head].previous]
        representative == Block[rep_block].representative IN
    /\ Undoing /\ Block[head].type = "change" /\ rep_block \in Hash
    /\ rep_weights' = move(rep_weights, Block[head].representative, representative,
                           block_balance(Block[head].previous))
    /\ del_block(head, account, previous_info(head, account, representative, 0))
    /\ UNCHANGED pending

UndoState ==
    LET b == Block[head]
        previous_balance == block_balance(b.previous)
        rep_block == IF b.previous = Zero THEN Zero ELSE representative_block[b.previous]
        representative == IF rep_block = Zero THEN Zero ELSE Block[rep_block].representative IN
    /\ Undoing /\ b.type = "state" /\ (b.previous # Zero => rep_block \in Hash)
    /\ \/ /\ head_is_send
          /\ \E p \in pending : /\ p.account = b.link /\ p.hash = head
                                /\ pending' = pending \ {p}
       \/ /\ ~head_is_send /\ b.link # Zero /\ b.link \notin EpochLink
          /\ pending' = pending \cup {restored_pending(head, b.account, b.balance - previous_balance,
                                                       blocks[head].source_epoch)}
       \/ /\ ~head_is_send /\ (b.link = Zero \/ b.link \in EpochLink)
          /\ UNCHANGED pending
    /\ rep_weights' = state_weights(rep_weights, b,
                         [representative |-> representative, balance |-> previous_balance],
                         TRUE, b.previous # Zero)
    /\ del_block(head, b.account, previous_info(head, b.account, representative, version(b.previous)))

(* representative_block meets a block that is not in the table: the
   release_assert of representative_block_visitor ends the process. *)
RollbackFails ==
    /\ Undoing
    /\ Block[head].type \in {"change", "state"} /\ Block[head].previous # Zero
    /\ head_is_send => receivable(Block[head].link, head)
    /\ representative_block[Block[head].previous] = Zero
    /\ RollbackEnd /\ failed' = TRUE

Rollback ==
    \/ RollbackReturn \/ RollbackPenetrates \/ RollbackDestination
    \/ RollbackTooDeep \/ RollbackFails
    \/ UndoSend \/ UndoReceive \/ UndoChange \/ UndoState

-----------------------------------------------------------------------------
(* ledger::cement, over bounded_dfs.                                       *)

CementBegin(h) ==
    /\ writer = "none" /\ cement_stack = <<>> /\ block_exists(h)
    /\ writer' = "cement"
    /\ cement_target' = h /\ cement_stack' = <<h>> /\ cement_count' = 0
    /\ UNCHANGED <<tables, cache, rollbackVars, confirmation_height, prune_hash, failed>>

top == Last(cement_stack)

(* mutant: only the dependencies on the same account count *)
dep_resolved_previous(h) ==
    block_exists(h) /\ blocks[h].account = blocks[top].account => cemented_block_exists(h)

(* is_resolved, for a dependency: one that is not stored was pruned. *)
dep_resolved(h) == block_exists(h) => cemented_block_exists(h)

push_refuses(stack, h) ==                \* mutant: the full stack drops the new entry
    IF Len(stack) >= MaxBlocks THEN stack ELSE Append(stack, h)

(* Pushing on the full stack drops its oldest entry. *)
push(stack, h) == Append(IF Len(stack) >= MaxBlocks THEN Tail(stack) ELSE stack, h)
push_unresolved(stack, h) == IF dep_resolved(h) THEN stack ELSE push(stack, h)

(* Dependencies that are not cemented yet go on the stack. *)
CementDescend ==
    /\ writer = "cement"
    /\ \E d \in Dependencies[top] : ~dep_resolved(d)
    /\ cement_stack' =
            push_unresolved(push_unresolved(cement_stack, Block[top].previous), Block[top].link)
    /\ UNCHANGED <<tables, cache, writer, rollbackVars, cement_target, cement_count,
                   confirmation_height, prune_hash, failed>>

(* The stack after an iteration that resolved its top; at the end the
   caller releases the lock. *)
CementPop(stack) ==
    /\ cement_stack' = stack
    /\ writer' = IF stack = <<>> THEN "none" ELSE "cement"

(* The top is cemented already: it was on the stack twice, or it was pruned
   while the lock was released. *)
CementSkip ==
    /\ writer = "cement" /\ cemented_block_exists_or_pruned(top)
    /\ \A d \in Dependencies[top] : dep_resolved(d)
    /\ CementPop(Front(cement_stack))
    /\ UNCHANGED <<tables, cache, rollbackVars, cement_target, cement_count,
                   confirmation_height, prune_hash, failed>>

cement_one_uncounted(h) ==                   \* mutant: the block is left out of the result
    /\ confirmation_height' = [confirmation_height EXCEPT
           ![blocks[h].account] = [height |-> blocks[h].height, frontier |-> h]]
    /\ cache' = [cache EXCEPT !.cemented_count = @ + 1]
    /\ UNCHANGED cement_count

(* cement_one *)
cement_one(h) ==
    /\ confirmation_height' = [confirmation_height EXCEPT
           ![blocks[h].account] = [height |-> blocks[h].height, frontier |-> h]]
    /\ cache' = [cache EXCEPT !.cemented_count = @ + 1]
    /\ cement_count' = cement_count + 1

(* resolve: cement the top, and stop at max_blocks.  The transaction may be
   due for a refresh, which releases the lock to other writers. *)
CementResolve ==
    /\ writer = "cement" /\ block_exists(top) /\ ~cemented_block_exists(top)
    /\ \A d \in Dependencies[top] : dep_resolved(d)
    /\ cement_one(top)
    /\ \/ CementPop(IF cement_count' < MaxBlocks THEN Front(cement_stack) ELSE <<>>)
       \/ writer' = "none" /\ cement_stack' = cement_stack
    /\ UNCHANGED <<tables, rollbackVars, cement_target, prune_hash, failed>>

CementResume_unchecked ==                \* mutant: the target is not looked up again
    /\ writer = "none" /\ cement_stack # <<>>
    /\ CementPop(IF cement_count < MaxBlocks THEN Front(cement_stack) ELSE <<>>)
    /\ UNCHANGED <<tables, cache, rollbackVars, cement_target, cement_count,
                   confirmation_height, prune_hash, failed>>

(* The transaction is renewed: go on unless the target was rolled back. *)
CementResume ==
    /\ writer = "none" /\ cement_stack # <<>>
    /\ CementPop(IF block_exists(cement_target) /\ cement_count < MaxBlocks
                 THEN Front(cement_stack) ELSE <<>>)
    /\ UNCHANGED <<tables, cache, rollbackVars, cement_target, cement_count,
                   confirmation_height, prune_hash, failed>>

Cement == CementDescend \/ CementSkip \/ CementResolve \/ CementResume

-----------------------------------------------------------------------------
(* ledger::pruning_action.                                                 *)

prune_next_again(h) == IF h \in {Zero, genesis} THEN Zero ELSE h    \* mutant

(* Where the walk down from h goes on: it ends at the genesis block, at the
   bottom of the account and at a block that was pruned before. *)
prune_next(h) == IF h \in {Zero, genesis} \cup pruned THEN Zero ELSE h

PruneBegin_frontier(h) ==                \* mutant: the frontier may be pruned
    /\ Pruning /\ writer = "none" /\ prune_hash = Zero
    /\ cemented_block_exists(h)
    /\ prune_next(h) # Zero
    /\ prune_hash' = h /\ writer' = "prune"
    /\ UNCHANGED <<tables, cache, rollbackVars, cementVars, failed>>

(* node/pruning only picks cemented blocks below an account's confirmation
   frontier. *)
PruneBegin(h) ==
    /\ Pruning /\ writer = "none" /\ prune_hash = Zero
    /\ cemented_block_exists(h)
    /\ confirmation_height[blocks[h].account].frontier # h
    /\ prune_next(h) # Zero
    /\ prune_hash' = h /\ writer' = "prune"
    /\ UNCHANGED <<tables, cache, rollbackVars, cementVars, failed>>

PruneStep_uncounted ==                   \* mutant: pruned blocks leave the block count
    LET next == prune_next(Block[prune_hash].previous) IN
    /\ writer = "prune" /\ cemented_block_exists(prune_hash)
    /\ blocks' = [blocks EXCEPT ![prune_hash] = NoSideband]
    /\ pruned' = pruned \cup {prune_hash}
    /\ cache' = [cache EXCEPT !.pruned_count = @ + 1, !.block_count = @ - 1]
    /\ prune_hash' = next
    /\ writer' \in IF next = Zero THEN {"none"} ELSE {"none", "prune"}
    /\ UNCHANGED <<successor, accounts, pending, rep_weights, rollbackVars, cementVars, failed>>

(* One block moves to the pruned table; between batches the lock is released. *)
PruneStep ==
    LET next == prune_next(Block[prune_hash].previous) IN
    /\ writer = "prune" /\ cemented_block_exists(prune_hash)
    /\ blocks' = [blocks EXCEPT ![prune_hash] = NoSideband]
    /\ pruned' = pruned \cup {prune_hash}
    /\ cache' = [cache EXCEPT !.pruned_count = @ + 1]
    /\ prune_hash' = next
    /\ writer' \in IF next = Zero THEN {"none"} ELSE {"none", "prune"}
    /\ UNCHANGED <<successor, accounts, pending, rep_weights, rollbackVars, cementVars, failed>>

PruneResume ==
    /\ writer = "none" /\ prune_hash # Zero
    /\ writer' = "prune"
    /\ UNCHANGED <<tables, cache, rollbackVars, cementVars, prune_hash, failed>>

Prune == PruneStep \/ PruneResume

-----------------------------------------------------------------------------

Aborted == failed /\ UNCHANGED vars

Next ==
    \/ ~failed /\ \E h \in Hash : Process(h) \/ RollbackBegin(h) \/ CementBegin(h) \/ PruneBegin(h)
    \/ ~failed /\ (Rollback \/ Cement \/ Prune)
    \/ Aborted

Spec == Init /\ [][Next]_vars

(* Each operation that holds the lock, or waits to take it again, runs on. *)
Fairness == WF_vars(Rollback) /\ WF_vars(Cement) /\ WF_vars(Prune)
FairSpec == Spec /\ Fairness

-----------------------------------------------------------------------------
(* Properties                                                              *)

Sideband == [account : Account0, balance : Int, height : Nat, epoch : Nat,
             source_epoch : Nat, is_send : BOOLEAN]
AccountInfo == [head : Hash0, representative : Account0, open_block : Hash0,
                balance : Int, block_count : Int, epoch : Nat]
PendingEntry == [account : Account0 \cup EpochLink, hash : Hash, source : Account0,
                 amount : Int, epoch : Nat]
Weights == [store : [Account0 -> Int], cache : [Account0 -> Int],
            committed : Int, unused : Int]
Counters == [block_count : Int, cemented_count : Int, account_count : Int, pruned_count : Int]

TypeOK ==
    /\ blocks \in [Hash -> Sideband]
    /\ successor \in [Hash -> Hash0]
    /\ accounts \in [Account -> AccountInfo]
    /\ pending \subseteq PendingEntry
    /\ rep_weights \in Weights
    /\ confirmation_height \in [Account -> [height : Nat, frontier : Hash0]]
    /\ pruned \subseteq Hash
    /\ cache \in Counters
    /\ writer \in {"none", "rollback", "cement", "prune"}
    /\ rollback_stack \in Seq(Hash) /\ rollback_list \subseteq Hash
    /\ cement_target \in Hash0 /\ cement_stack \in Seq(Hash) /\ cement_count \in Nat
    /\ prune_hash \in Hash0
    /\ failed \in BOOLEAN

stored == {h \in Hash : block_exists(h)}
accepted == stored \cup pruned
cemented == {h \in Hash : cemented_block_exists_or_pruned(h)}
opened == {a \in Account : account_exists(a)}
receives(g, h) == Block[g].link = h
delegators(r) == {a \in opened : accounts[a].representative = r}

(* ledger::initialize would succeed and restore the state the node is in,
   whenever the process is restarted: accounts and pending entries add up to
   the genesis amount, the committed and unused weights are those two sums
   (its release_asserts), and the counters kept in memory are the ones it
   would compute from the tables, in the middle of a rollback, of cementing
   or of pruning too. *)
RestartPasses ==
    LET active == SumFunction([a \in opened |-> accounts[a].balance])
        receivables == SumFunction([p \in pending |-> p.amount]) IN
    /\ active + receivables = Block[genesis].balance
    /\ active = rep_weights.committed
    /\ receivables = rep_weights.unused
    /\ \A a \in opened : accounts[a].balance >= 0
    /\ \A p \in pending : p.amount >= 0
    /\ cache.block_count = SumFunction([a \in opened |-> accounts[a].block_count])
    /\ cache.block_count = Cardinality(stored) + Cardinality(pruned)
    /\ cache.account_count = Cardinality(opened)
    /\ cache.cemented_count = SumFunction([a \in Account |-> confirmation_height[a].height])
    /\ cache.cemented_count = Cardinality(cemented)
    /\ cache.pruned_count = Cardinality(pruned)

(* Through sends, receives, changes and their rollbacks, the weight of a
   representative is the sum of the balances that delegate to it, and the
   cache forgets only representatives below the minimum weight. *)
WeightsMatchDelegations ==
    \A r \in Account0 :
        /\ rep_weights.store[r] = SumFunction([a \in delegators(r) |-> accounts[a].balance])
        /\ rep_weights.cache[r] = put_cache(rep_weights.store[r])

(* Every stored block sits on its account's chain one above its
   predecessor, the head is the topmost one, and the successor table is the
   inverse of previous: what append, rollback and pruning each maintain from
   different ends. *)
ChainsIntact ==
    /\ \A h \in stored :
        /\ blocks[h].height <= accounts[blocks[h].account].block_count
        /\ blocks[h].height = 1 <=> Block[h].previous = Zero
        /\ Block[h].previous \in stored =>
              /\ blocks[Block[h].previous].account = blocks[h].account
              /\ blocks[Block[h].previous].height + 1 = blocks[h].height
        /\ Block[h].previous # Zero => successor[Block[h].previous] = h
    /\ \A a \in opened :
        /\ accounts[a].head \in stored
        /\ blocks[accounts[a].head].account = a
        /\ blocks[accounts[a].head].height = accounts[a].block_count
        /\ blocks[accounts[a].head].balance = accounts[a].balance
        /\ block_successor(a) \in accepted
    /\ \A h \in Hash : successor[h] # Zero => h \in accepted /\ successor[h] \in accepted

(* The confirmation height of an account is the height of a block of its
   chain, its frontier, which stays in the table. *)
FrontierOnChain ==
    \A a \in Account :
        LET c == confirmation_height[a] IN
        c.height > 0 => /\ c.frontier \in stored
                        /\ blocks[c.frontier].account = a
                        /\ blocks[c.frontier].height = c.height

(* A send is pending exactly while no block received it, and no two blocks
   receive the same send, whatever was rolled back in between. *)
PendingUntilReceived ==
    /\ \A p \in pending : p.hash \in accepted /\ \A g \in accepted : ~receives(g, p.hash)
    /\ \A p, q \in pending : p.hash = q.hash => p = q
    /\ \A g, h \in accepted : Block[g].link \in Hash /\ receives(h, Block[g].link) => g = h
    /\ \A h \in stored :
          blocks[h].is_send /\ (\A g \in accepted : ~receives(g, h)) =>
              \E p \in pending : p.hash = h /\ p.account = Block[h].link
                                 /\ p.source = blocks[h].account

(* The epoch of an account is that of its head, and a pending entry has the
   epoch of its send: rolling a receive back restores the epoch that the
   receive may have raised on the receiving account. *)
EpochsFollowBlocks ==
    /\ \A a \in opened : accounts[a].epoch = version(accounts[a].head)
    /\ \A p \in pending : p.hash \in stored => p.epoch = version(p.hash)

(* Dependencies of accepted blocks are accepted, those of cemented blocks
   cemented: rollback and cement keep the lattice closed even when they
   stop half way or interleave. *)
LatticeClosed ==
    /\ \A h \in accepted : Dependencies[h] \subseteq accepted
    /\ \A h \in cemented : Dependencies[h] \subseteq cemented

(* ledger::cement only ever looks at blocks of the ledger, although blocks
   may be rolled back while its transaction is refreshed. *)
CementsLedgerBlocks ==
    writer = "cement" => /\ top \in accepted
                         /\ top \in stored \ cemented /\ (\A d \in Dependencies[top] : dep_resolved(d)) =>
                              blocks[top].height = confirmation_height[blocks[top].account].height + 1

(* Only the outermost call of ledger::rollback meets the confirmation
   height, before anything was rolled back: what depends on an uncemented
   block is uncemented.  The nested calls always find a head to undo. *)
RollbackAllOrNothing ==
    writer = "rollback" =>
        /\ block_exists(target) /\ ~rollback_allowed =>
              Len(rollback_stack) = 1 /\ rollback_list = {}
        /\ Undoing /\ head_is_send /\ ~receivable(Block[head].link, head) =>
              block_exists(account_head(Block[head].link))

(* A block and all it depends on: the least set that is closed under
   Dependencies and holds the block. *)
ClosedSets == {S \in SUBSET Hash : \A x \in S : Dependencies[x] \subseteq S}
Ancestry == [h \in Hash |-> {g \in Hash : \A S \in ClosedSets : h \in S => g \in S}]

(* ledger::rollback removes no block that does not depend on its target. *)
RollbackOnlyDependents ==
    writer = "rollback" => \A h \in rollback_list : rollback_stack[1] \in Ancestry[h]

(* A block refused as a fork has a competitor in the ledger, which the block
   processor finds as the successor of the block's root.  (A state block that
   continues the chain of another account is refused as a fork too, and may
   have no competitor: rollback_competitor then has nothing to do.) *)
ForkHasCompetitor ==
    writer = "none" => \A h \in Hash :
        /\ block_status(h) = "fork"
        /\ Block[h].type = "state" /\ Block[h].previous # Zero =>
              block_account(Block[h].previous) = Block[h].account
        => /\ block_successor(QualifiedRoot[h]) \in accepted \ {h}
           /\ QualifiedRoot[block_successor(QualifiedRoot[h])] = QualifiedRoot[h]

(* pruning_action only meets cemented blocks until the end of its walk. *)
PrunesCementedBlocks == writer = "prune" => cemented_block_exists(prune_hash)

(* representative_block finds the block that set the representative: the
   release_assert of its visitor never fails. *)
RepresentativeBlockFound == ~failed

(* The ledger implements the abstract block lattice: each step accepts,
   discards or cements one block, or changes nothing there. *)
Lattice == INSTANCE BlockLattice
           WITH Dependencies <- Dependencies, QualifiedRoot <- QualifiedRoot,
                accepted <- accepted, cemented <- cemented
LatticeSpec == Lattice!Spec

(* A call of ledger::rollback, ledger::cement or pruning_action ends. *)
OperationsEnd == []<>(writer = "none" \/ failed)

(* A call of ledger::cement that ends without meeting a rollback of its
   target has cemented something unless the target was cemented. *)
CementProgresses ==
    [][cement_stack # <<>> /\ cement_stack' = <<>> =>
          cement_count' > 0 \/ cement_target \in cemented']_vars
=============================================================================
