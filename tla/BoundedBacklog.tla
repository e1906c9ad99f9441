--------------------------- MODULE BoundedBacklog ---------------------------
(***************************************************************************)
(* nano::bounded_backlog, which rolls back unconfirmed blocks of low       *)
(* priority when there are too many, and nano::backlog_scan, which feeds   *)
(* its index.  The index follows the ledger through observers that run on  *)
(* several threads: notifications of the ledger, of the cementing set, and *)
(* two scans.  The block processor, the cementing set and the components   *)
(* that use blocks (vote cache, vote router, schedulers and so on) are its *)
(* environment.                                                            *)
(*                                                                         *)
(* A block's bucket and timestamp are fixed.  The ledger may hold other    *)
(* blocks than those of Hash; they are cemented.                           *)
(***************************************************************************)
EXTENDS LedgerNotifications, FiniteSets
LOCAL INSTANCE SequencesExt

CONSTANTS
    Hashes,         \* the block hashes in their order, a sequence
    Account,        \* Account[h]: the account of block h
    Dependencies,   \* Dependencies[h]: the blocks h refers to
    Height,         \* Height[h]: height of h in the chain of its account
    Buckets,        \* bucketing::bucket_indices, a sequence
    Bucket,         \* Bucket[h]: the bucket of h
    Timestamp,      \* Timestamp[h]: its priority timestamp, one of its own per block
    Accounts,       \* the accounts in their order, a sequence
    Stored,         \* the blocks of Hash in the ledger when the node starts
    max_backlog,    \* ledger::max_backlog
    batch_size,     \* bounded_backlog_config::batch_size
    MaxBatches,     \* bound: batches of the block processor
    MaxCemented,    \* bound: cemented blocks
    MaxUses         \* bound: how often a component begins to use a block

Hash == ToSet(Hashes)
ASSUME BacklogAssumption ==
    /\ max_backlog \in Nat \ {0} /\ batch_size \in Nat \ {0}
    /\ \A h \in Hash : Dependencies[h] \subseteq Hash /\ Bucket[h] \in ToSet(Buckets)

VARIABLES
    ledger,         \* blocks of the ledger, as its writer sees them
    committed,      \* the blocks of the last commit, as readers see them
    cemented,       \* cemented blocks
    announced,      \* cemented blocks whose observers have not been called yet
    index,          \* backlog_index: tracked blocks
    used,           \* blocks some component uses
    bb,             \* the rollback thread: pc, targets, max_rollbacks, processed
    scan,           \* the index scan: pc, batch, last, gone
    account_scan,   \* backlog_scan: pc, next, view, and the info of one account
    batches, uses

env_vars == <<batches, uses>>
ledger_vars == <<ledger, committed, cemented>>
note_vars == <<notifications, dispatching>>
vars == <<ledger_vars, note_vars, announced, index, used, bb, scan, account_scan, env_vars>>

Waiting == [pc |-> "wait", targets |-> <<>>, max_rollbacks |-> 0, processed |-> {}]
None == [head |-> 0, frontier |-> 0]

Init ==
    /\ ledger = Stored /\ committed = Stored /\ cemented = {} /\ announced = <<>>
    /\ notifications = <<>> /\ dispatching = <<>>
    /\ index = {} /\ used = {} /\ bb = Waiting
    /\ scan = [pc |-> "next", batch |-> <<>>, last |-> 0, gone |-> {}]
    /\ account_scan = [pc |-> "read", next |-> 1, view |-> {}, info |-> None]
    /\ batches = 0 /\ uses = 0

-----------------------------------------------------------------------------
(* The ledger, module Ledger. *)

uncemented == ledger \ cemented
backlog_size == Cardinality(uncemented)

(* The block at a height of an account, 0 if there is none. *)
block_at(a, n, view) ==
    IF \E h \in view : Account[h] = a /\ Height[h] = n
    THEN CHOOSE h \in view : Account[h] = a /\ Height[h] = n ELSE 0
block_count(a, view) == Cardinality({h \in view : Account[h] = a})

RECURSIVE Dependents(_)
Dependents(set) ==
    LET more == {h \in ledger \ set : Dependencies[h] \cap set # {}}
    IN  IF more = {} THEN set ELSE Dependents(set \cup more)

-----------------------------------------------------------------------------
(* The environment. *)

unlocked == bb.pc \notin {"check", "roll"}

event(kind, blocks) == [kind |-> kind, blocks |-> blocks]
announce(q, kind, blocks) == queued(q, "block_processor", event(kind, blocks))

(* A batch of the block processor accepts a block, rolls one back with its
   dependents, or does both to the same block: what it rolled back is
   announced before what it accepted, see BlockProcessing. *)
Accept(h) ==
    /\ h \notin ledger /\ Dependencies[h] \subseteq ledger
    /\ ledger' = ledger \cup {h}
    /\ notifications' = resolve(announce(notifications, "processed", {h}), "block_processor")
Discard(h) ==
    /\ h \in uncemented
    /\ ledger' = ledger \ Dependents({h})
    /\ notifications' = resolve(announce(announce(notifications, "rolled_back", Dependents({h})),
                                         "processed", {}), "block_processor")
AcceptAndDiscard(h) ==
    /\ h \notin ledger /\ Dependencies[h] \subseteq ledger
    /\ UNCHANGED ledger
    /\ notifications' = resolve(announce(announce(notifications, "rolled_back", {h}),
                                         "processed", {h}), "block_processor")

ProcessBatch ==
    /\ unlocked /\ vacancy /\ batches < MaxBatches
    /\ batches' = batches + 1
    /\ \E h \in Hash : Accept(h) \/ Discard(h) \/ AcceptAndDiscard(h)
    /\ committed' = ledger'
    /\ UNCHANGED <<cemented, dispatching, announced, index, used, bb, scan, account_scan, uses>>

(* cementing_set: a batch of one block, its observers are called later. *)
Cement(h) ==
    /\ unlocked /\ Cardinality(cemented) < MaxCemented
    /\ h \in uncemented /\ Dependencies[h] \subseteq cemented
    /\ cemented' = cemented \cup {h}
    /\ announced' = Append(announced, h)
    /\ UNCHANGED <<ledger, committed, note_vars, index, used, bb, scan, account_scan, env_vars>>

(* should_rollback: vote_cache, vote_router, recently_confirmed, scheduler,
   cementing_set or local_block_broadcaster contains the block. *)
Use(h) ==
    /\ uses < MaxUses /\ h \in committed \ used
    /\ uses' = uses + 1 /\ used' = used \cup {h}
    /\ UNCHANGED <<ledger_vars, note_vars, announced, index, bb, scan, account_scan, batches>>
Release(h) ==
    /\ h \in used
    /\ used' = used \ {h}
    /\ UNCHANGED <<ledger_vars, note_vars, announced, index, bb, scan, account_scan, env_vars>>

-----------------------------------------------------------------------------
(* The observers. *)

TakeNotification ==
    /\ Take
    /\ UNCHANGED <<ledger_vars, announced, index, used, bb, scan, account_scan, env_vars>>

(* blocks_processed and blocks_rolled_back. *)
Observe ==
    /\ Dispatch
    /\ LET e == dispatching[1].changes IN
       index' = IF e.kind = "processed" THEN index \cup e.blocks ELSE index \ e.blocks
    /\ UNCHANGED <<ledger_vars, announced, used, bb, scan, account_scan, env_vars>>

(* batch_cemented. *)
ObserveCemented ==
    /\ announced # <<>>
    /\ index' = index \ {Head(announced)}
    /\ announced' = Tail(announced)
    /\ UNCHANGED <<ledger_vars, note_vars, used, bb, scan, account_scan, env_vars>>

-----------------------------------------------------------------------------
(* The rollback thread, bounded_backlog::run. *)

should_rollback(h) == h \notin used

(* backlog_index: the blocks of a bucket, and top, the latest of them that
   are not used. *)
in_bucket(bucket) == {h \in index : Bucket[h] = bucket}
top(bucket, count) ==
    LET candidates == {h \in in_bucket(bucket) : should_rollback(h)}
        sorted == SetToSortSeq(candidates, LAMBDA g, h : Timestamp[g] > Timestamp[h])
    IN  SubSeq(sorted, 1, IF Len(sorted) < count THEN Len(sorted) ELSE count)

bucket_threshold_total == max_backlog    \* mutant: not divided among the buckets
bucket_threshold == max_backlog \div Len(Buckets)
over_threshold(bucket) == Cardinality(in_bucket(bucket)) > bucket_threshold
gather_targets(max_count) ==
    LET from(bucket) ==
            IF over_threshold(bucket)
            THEN top(bucket, IF max_count < batch_size THEN max_count ELSE batch_size)
            ELSE <<>>
    IN  FlattenSeq([i \in DOMAIN Buckets |-> from(Buckets[i])])

(* The wait ends when there is something to do and also every second, and
   there is room for notifications: the targets are gathered. *)
Gather ==
    /\ bb.pc = "wait" /\ vacancy /\ backlog_size > max_backlog
    /\ LET target_count == backlog_size - max_backlog
           targets == gather_targets(target_count)
       IN  /\ targets # <<>>
           /\ bb' = [Waiting EXCEPT !.pc = "write", !.targets = targets,
                                    !.max_rollbacks = target_count]
    /\ UNCHANGED <<ledger_vars, note_vars, announced, index, used, scan, account_scan, env_vars>>

(* perform_rollbacks: the write transaction begins ... *)
BeginWrite ==
    /\ bb.pc = "write"
    /\ bb' = [bb EXCEPT !.pc = "check"]
    /\ UNCHANGED <<ledger_vars, note_vars, announced, index, used, scan, account_scan, env_vars>>

(* ... each target is checked ... *)
may_roll_back(h) == should_rollback(h) /\ h \in uncemented
Check ==
    /\ bb.pc = "check" /\ bb.targets # <<>>
    /\ bb' = IF may_roll_back(Head(bb.targets)) THEN [bb EXCEPT !.pc = "roll"]
             ELSE [bb EXCEPT !.targets = Tail(@)]
    /\ UNCHANGED <<ledger_vars, note_vars, announced, index, used, scan, account_scan, env_vars>>

(* ... rolled back, with its dependents, and announced ... *)
Roll ==
    /\ bb.pc = "roll"
    /\ LET list == Dependents({Head(bb.targets)})
           processed == bb.processed \cup list
       IN  /\ ledger' = ledger \ list
           /\ notifications' =
                queued(notifications, "bounded_backlog", event("rolled_back", list))
           /\ bb' = [bb EXCEPT !.pc = "check", !.processed = processed,
                               !.targets = IF Cardinality(processed) >= bb.max_rollbacks
                                           THEN <<>> ELSE Tail(bb.targets)]
    /\ UNCHANGED <<committed, cemented, dispatching, announced, index, used, scan, account_scan, env_vars>>

(* ... until the transaction is committed. *)
Commit ==
    /\ bb.pc = "check" /\ bb.targets = <<>>
    /\ committed' = ledger
    /\ notifications' = resolve(notifications, "bounded_backlog")
    /\ dispatching' = resolve(dispatching, "bounded_backlog")
    /\ bb' = [bb EXCEPT !.pc = "erase"]
    /\ UNCHANGED <<ledger, cemented, announced, index, used, scan, account_scan, env_vars>>

(* run: the blocks that were rolled back are erased from the index. *)
Erase ==
    /\ bb.pc = "erase"
    /\ index' = index \ bb.processed
    /\ bb' = Waiting
    /\ UNCHANGED <<ledger_vars, note_vars, announced, used, scan, account_scan, env_vars>>

-----------------------------------------------------------------------------
(* The scan of the index, bounded_backlog::run_scan. *)

(* backlog_index::next; an empty batch starts the scan anew. *)
ScanNext ==
    /\ scan.pc = "next"
    /\ LET rest == SelectSeq(SubSeq(Hashes, scan.last + 1, Len(Hashes)), LAMBDA h : h \in index)
           batch == SubSeq(rest, 1, IF Len(rest) < batch_size THEN Len(rest) ELSE batch_size)
       IN  /\ batch # <<>> \/ scan.last # 0
           /\ scan' = IF batch = <<>> THEN [scan EXCEPT !.last = 0]
                      ELSE [scan EXCEPT !.pc = "read", !.batch = batch]
    /\ UNCHANGED <<ledger_vars, note_vars, announced, index, used, bb, account_scan, env_vars>>

(* update: the blocks of the batch that are confirmed or missing, as the read
   transaction sees them ... *)
gone_missing(h) == h \notin committed     \* mutant: confirmed blocks are kept
gone(h) == h \notin committed \/ h \in cemented
ScanRead ==
    /\ scan.pc = "read"
    /\ scan' = [scan EXCEPT !.pc = "update", !.gone = {h \in ToSet(scan.batch) : gone(h)}]
    /\ UNCHANGED <<ledger_vars, note_vars, announced, index, used, bb, account_scan, env_vars>>

(* ... are erased one after the other. *)
ScanUpdate ==
    /\ scan.pc = "update"
    /\ LET h == Head(scan.batch) IN
       /\ index' = index \ (scan.gone \cap {h})
       /\ scan' = [pc |-> IF Len(scan.batch) = 1 THEN "next" ELSE "update",
                   batch |-> Tail(scan.batch), gone |-> scan.gone \ {h},
                   last |-> CHOOSE i \in DOMAIN Hashes : Hashes[i] = h]
    /\ UNCHANGED <<ledger_vars, note_vars, announced, used, bb, account_scan, env_vars>>

-----------------------------------------------------------------------------
(* The scan of the accounts, backlog_scan::populate_backlog, in batches of one
   account, and the observers of bounded_backlog. *)

account_at == Accounts[account_scan.next]
moved_on(pc, info) ==
    account_scan' = [pc |-> pc, view |-> {}, info |-> info,
        next |-> IF pc = "read" THEN (account_scan.next % Len(Accounts)) + 1 ELSE account_scan.next]

(* The account and its confirmation height are read in one transaction. *)
account_info(a) ==
    [head |-> block_count(a, committed), frontier |-> block_count(a, cemented)]
AccountRead ==
    /\ account_scan.pc = "read"
    /\ moved_on("scanned", account_info(account_at))
    /\ UNCHANGED <<ledger_vars, note_vars, announced, index, used, bb, scan, env_vars>>

AccountScanned_late ==                    \* mutant: one unconfirmed block is not enough
    /\ account_scan.pc = "scanned"
    /\ LET i == account_scan.info IN
       /\ index' = IF i.frontier = i.head THEN {h \in index : Account[h] # account_at} ELSE index
       /\ IF i.frontier + 1 < i.head THEN moved_on("activate", i) ELSE moved_on("read", None)
    /\ UNCHANGED <<ledger_vars, note_vars, announced, used, bb, scan, env_vars>>

(* batch_scanned: accounts whose blocks are all confirmed are erased. *)
AccountScanned ==
    /\ account_scan.pc = "scanned"
    /\ LET i == account_scan.info IN
       /\ index' = IF i.frontier = i.head THEN {h \in index : Account[h] # account_at} ELSE index
       /\ IF i.frontier < i.head THEN moved_on("activate", i) ELSE moved_on("read", None)
    /\ UNCHANGED <<ledger_vars, note_vars, announced, used, bb, scan, env_vars>>

(* batch_activated: a read transaction begins ... *)
AccountActivated ==
    /\ account_scan.pc = "activate"
    /\ account_scan' = [account_scan EXCEPT !.pc = "walk", !.view = committed]
    /\ UNCHANGED <<ledger_vars, note_vars, announced, index, used, bb, scan, env_vars>>

(* ... and activate walks down from the head, until it meets the confirmed
   frontier or a tracked block; its transaction may be refreshed on the way. *)
Activate ==
    /\ account_scan.pc = "walk"
    /\ LET i == account_scan.info
           h == block_at(account_at, i.head, account_scan.view)
       IN  IF h = 0 \/ i.head = i.frontier \/ h \in index
           THEN moved_on("read", None) /\ UNCHANGED index
           ELSE /\ index' = index \cup {h}
                /\ \E view \in {account_scan.view, committed} :
                     account_scan' = [account_scan EXCEPT !.view = view, !.info.head = i.head - 1]
    /\ UNCHANGED <<ledger_vars, note_vars, announced, used, bb, scan, env_vars>>

-----------------------------------------------------------------------------

Rollbacks == Gather \/ BeginWrite \/ Check \/ Roll \/ Commit \/ Erase
IndexScan == ScanNext \/ ScanRead \/ ScanUpdate
AccountScan == AccountRead \/ AccountScanned \/ AccountActivated \/ Activate
Notifier == TakeNotification \/ Observe

Next ==
    \/ ProcessBatch
    \/ \E h \in Hash : Cement(h) \/ Use(h) \/ Release(h)
    \/ Rollbacks \/ IndexScan \/ AccountScan \/ Notifier \/ ObserveCemented

Spec == Init /\ [][Next]_vars

(* Each thread keeps running; nothing makes the environment act. *)
FairSpec ==
    /\ Spec
    /\ WF_vars(Rollbacks) /\ WF_vars(IndexScan) /\ WF_vars(AccountScan)
    /\ WF_vars(Notifier \/ ObserveCemented)

-----------------------------------------------------------------------------

(* The index does not keep what is not in the backlog: although observers run
   on several threads, so that a block may be inserted after it was cemented
   or rolled back, such entries are erased again. *)
IndexCleaned == []<>(index \subseteq uncemented)

(* Accounts with unconfirmed blocks are tracked at their heads again and again,
   although several threads may erase a block by what they knew before. *)
is_head(h) == \A x \in ledger : Account[x] = Account[h] => Height[x] <= Height[h]
HeadsTracked == []<>(\A h \in uncemented : is_head(h) => h \in index)

(* When the backlog and the tracked part of it stay over the limit, it is
   because all blocks in the buckets that hold more than their share of it are
   being used. *)
BacklogComesDown ==
    []<>(\/ backlog_size <= max_backlog \/ Cardinality(index) <= max_backlog
         \/ \A h \in index \ used :
              Cardinality(in_bucket(Bucket[h])) * Len(Buckets) <= max_backlog)

(* perform_rollbacks, "Skip the rollback if the block is being used by the
   node, this should be race free": no target is used when it is rolled
   back. *)
BacklogSparesUsed == [][bb.pc = "roll" /\ bb'.pc = "check" => Head(bb.targets) \notin used]_vars
=============================================================================
