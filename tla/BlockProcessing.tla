--------------------------- MODULE BlockProcessing ---------------------------
(***************************************************************************)
(* nano::block_processor with the components it works with: the fair queue *)
(* of blocks to process, the ledger it writes to under the write queue,    *)
(* the unchecked map where blocks wait for what they refer to, and the     *)
(* notifications through which everyone else learns the results.           *)
(*                                                                         *)
(* The ledger is what BlockLattice promises of it: a set of blocks.  Blocks*)
(* are state blocks; what their statuses depend on beyond the blocks they  *)
(* refer to (signatures, work, balances) is the subject of module Ledger.  *)
(* Time appears as choice: a batch may find at any block that its          *)
(* transaction is old enough to be refreshed.                              *)
(***************************************************************************)
EXTENDS FairQueue, WriteQueue, LedgerNotifications, UncheckedMap, FiniteSets

CONSTANTS
    Hash, genesis, Zero,
    Previous,       \* Previous[h]: previous block of h, or Zero
    Source,         \* Source[h]: the send h receives, or Zero
    Destination,    \* Destination[h]: account a send credits, or Zero
    QualifiedRoot,  \* QualifiedRoot[h]: the slot h competes for
    live, unchecked, forced,    \* origins of the queue
    Stored,         \* the blocks of the ledger when the node starts, genesis included
    batch_size,     \* block_processor_config::batch_size
    Arriving, MaxArrivals,  \* bound: blocks that arrive from outside, and how often
    Winners, MaxForced,     \* bound: blocks that elections force, and how often
    MaxCemented             \* bound: blocks that are cemented, genesis included

ASSUME BlockProcessingAssumption ==
    /\ Zero \notin Hash /\ Arriving \subseteq Hash /\ Winners \subseteq Hash
    /\ {live, unchecked, forced} \subseteq Origin
    /\ batch_size \in Nat

VARIABLES
    version,        \* version[h]: how often h was added to or taken from the ledger, as
                    \* the writer sees it; the ledger holds the blocks with an odd version
    committed,      \* the versions as of the last commit, as everyone else sees them
    cemented,       \* cemented blocks
    queue,          \* block_processor::queue
    bp,             \* the thread: pc, and the batch and its results so far
    arrivals, forces,
    missing,        \* history: missing[h], the block h was last found to wait for, or Zero
    excused         \* history: blocks whose entry was given up, see GapsAreKept

ledger_vars == <<version, committed, cemented>>
queue_vars == <<queue, arrivals, forces>>
note_vars == <<notifications, dispatching>>
gap_vars == <<entries, buffer, back_buffer, delete_queue>>
history == <<missing, excused>>
vars == <<ledger_vars, queue_vars, note_vars, gap_vars, history, writers, bp>>

Dependencies(h) == {Previous[h], Source[h]} \ {Zero}
holds(versions) == {h \in Hash : versions[h] % 2 = 1}
accepted == holds(version)

Idle == [pc |-> "idle", batch |-> <<>>, processed |-> {}, refreshed |-> FALSE]

Init ==
    /\ version = [h \in Hash |-> IF h \in Stored THEN 1 ELSE 0]
    /\ committed = version /\ cemented = {genesis}
    /\ queue = EmptyQueue /\ arrivals = 0 /\ forces = 0
    /\ notifications = <<>> /\ dispatching = <<>>
    /\ entries = <<>> /\ buffer = <<>> /\ back_buffer = <<>> /\ delete_queue = <<>>
    /\ missing = [h \in Hash |-> Zero] /\ excused = {}
    /\ writers = <<>> /\ bp = Idle

-----------------------------------------------------------------------------
(* The ledger. *)

(* ledger::process: the status of a state block. *)
process(h, ledger) ==
    CASE h \in ledger -> "old"
      [] h \notin ledger /\ Previous[h] \notin ledger \cup {Zero} -> "gap_previous"
      [] /\ h \notin ledger /\ Previous[h] \in ledger \cup {Zero}
         /\ \E x \in ledger : QualifiedRoot[x] = QualifiedRoot[h] -> "fork"
      [] OTHER -> IF Source[h] \in ledger \cup {Zero} THEN "progress" ELSE "gap_source"

(* A block with everything in the ledger that refers to it, directly or not:
   the least set that has the block and with a block whatever refers to it. *)
closed(set) == \A x \in accepted : Dependencies(x) \cap set # {} => x \in set
Dependents(h) ==
    {x \in accepted : \A set \in SUBSET accepted : h \in set /\ closed(set) => x \in set}

(* ledger::rollback: the lists of blocks a call may roll back.  It refuses a
   cemented block; it takes back a block after its dependents, so that a call
   that fails on the way leaves the target and all its dependents but some. *)
rollback_lists(h) ==
    LET all == Dependents(h)
    IN  IF h \in cemented THEN {{}}
        ELSE {all} \cup {part \in SUBSET (all \ {h}) : closed(part)}

-----------------------------------------------------------------------------
(* Blocks arrive. *)

(* add_impl, once the lock of the queue is free. *)
unlocked == bp.pc # "take"
add_impl(h, o) == unlocked /\ queue' = push(queue, h, o)

(* add and add_blocking *)
Add(h) ==
    /\ arrivals < MaxArrivals
    /\ arrivals' = arrivals + 1
    /\ add_impl(h, live)
    /\ UNCHANGED <<ledger_vars, forces, note_vars, gap_vars, history, writers, bp>>

(* force: the winner of an election that the ledger does not hold. *)
ForceBlock(h) ==
    /\ forces < MaxForced
    /\ forces' = forces + 1
    /\ add_impl(h, forced)
    /\ UNCHANGED <<ledger_vars, arrivals, note_vars, gap_vars, history, writers, bp>>

-----------------------------------------------------------------------------
(* The block processing thread. *)

(* run: there is work and room for its notifications. *)
Cooldown ==
    /\ bp.pc = "idle" /\ ~empty(queue) /\ vacancy
    /\ bp' = [bp EXCEPT !.pc = "ready"]
    /\ UNCHANGED <<ledger_vars, queue_vars, note_vars, gap_vars, history, writers>>

(* next_batch: the queue's periodic_update may be due ... *)
PeriodicUpdate ==
    /\ bp.pc = "ready"
    /\ queue' \in {queue, cleanup(queue)}
    /\ bp' = [bp EXCEPT !.pc = "take"]
    /\ UNCHANGED <<ledger_vars, arrivals, forces, note_vars, gap_vars, history, writers>>

(* ... and blocks are taken one by one, all under the lock of the queue. *)
batch_complete == empty(queue) \/ Len(bp.batch) = batch_size
TakeBlock ==
    /\ bp.pc = "take" /\ ~batch_complete
    /\ queue' = next(queue)
    /\ bp' = [bp EXCEPT !.batch = Append(@, <<next_request(queue), next_origin(queue)>>)]
    /\ UNCHANGED <<ledger_vars, arrivals, forces, note_vars, gap_vars, history, writers>>

(* process_batch asks for its turn to write. *)
BeginWrite ==
    /\ bp.pc = "take" /\ batch_complete
    /\ bp' = [bp EXCEPT !.pc = "process"]
    /\ acquire("block_processor")
    /\ UNCHANGED <<ledger_vars, queue_vars, note_vars, gap_vars, history>>

(* process_batch: refresh_if_needed finds an old transaction, commits it ... *)
commit ==
    /\ committed' = version
    /\ release("block_processor")
    /\ UNCHANGED <<version, cemented>>

Refresh ==
    /\ bp.pc = "process" /\ owns("block_processor") /\ bp.batch # <<>> /\ ~bp.refreshed
    /\ commit
    /\ bp' = [bp EXCEPT !.pc = "renew", !.refreshed = TRUE]
    /\ UNCHANGED <<queue_vars, note_vars, gap_vars, history>>

(* ... resolves its future and begins another. *)
resolve_all ==
    /\ notifications' = resolve(notifications, "block_processor")
    /\ dispatching' = resolve(dispatching, "block_processor")

Renew ==
    /\ bp.pc = "renew"
    /\ resolve_all
    /\ acquire("block_processor")
    /\ bp' = [bp EXCEPT !.pc = "process"]
    /\ UNCHANGED <<ledger_vars, queue_vars, gap_vars, history>>

(* rollback_competitor: the blocks a forced block may push out. *)
competitors(h) == {x \in accepted \ {h} : QualifiedRoot[x] = QualifiedRoot[h]}
rolled_back(h, o) ==
    IF o = forced /\ competitors(h) # {}
    THEN UNION {rollback_lists(x) : x \in competitors(h)} ELSE {{}}

(* process_one on a ledger: what the status of a block does to the unchecked
   map. *)
gap_key(h, status) ==
    CASE status = "gap_previous" -> <<Previous[h], h>>
      [] status = "gap_source"   -> <<Source[h], h>>
      [] OTHER                   -> <<Zero, h>>

(* The versions after the blocks of a set were added or taken away. *)
changed(versions, set) == [h \in Hash |-> versions[h] + IF h \in set THEN 1 ELSE 0]
changes(set, versions) == {<<h, versions[h]>> : h \in set}

process_one(h, versions) ==
    LET status == process(h, holds(versions))
        key == gap_key(h, status)
        progress == IF status = "progress" THEN {h} ELSE {}
    IN  /\ version' = changed(versions, progress)
        /\ trigger(IF status = "progress"
                   THEN <<h>> \o (IF Destination[h] = Zero THEN <<>> ELSE <<Destination[h]>>)
                   ELSE <<>>)
        /\ IF key[1] # Zero THEN put(key) ELSE UNCHANGED entries
        /\ missing' = [missing EXCEPT ![h] = key[1]]
        /\ excused' = (excused \ {h})
              \cup (IF key[1] # Zero /\ overflows(key) THEN {Head(inserted(key))[2]} ELSE {})
              \cup (IF Contains(delete_queue, key) THEN {h} ELSE {})
        /\ bp' = [bp EXCEPT !.batch = Tail(@), !.refreshed = FALSE,
                            !.processed = @ \cup changes(progress, version')]

(* process_batch, one block. *)
Process ==
    /\ bp.pc = "process" /\ owns("block_processor") /\ bp.batch # <<>>
    /\ LET h == Head(bp.batch)[1]
           o == Head(bp.batch)[2]
       IN  \E list \in rolled_back(h, o) :
             LET undone == changed(version, list) IN
             /\ process_one(h, undone)
             /\ notifications' = IF list = {} THEN notifications
                                 ELSE queued(notifications, "block_processor", changes(list, undone))
    /\ UNCHANGED <<committed, cemented, queue_vars, dispatching,
                   back_buffer, delete_queue, writers>>

(* process_batch: the batch is done, its results are queued ... *)
Notify_waits ==                           \* mutant: waits for room with the lock held
    /\ bp.pc = "process" /\ owns("block_processor") /\ bp.batch = <<>> /\ vacancy
    /\ notifications' = queued(notifications, "block_processor", bp.processed)
    /\ bp' = [bp EXCEPT !.pc = "commit"]
    /\ UNCHANGED <<ledger_vars, queue_vars, dispatching, gap_vars, history, writers>>
Notify ==
    /\ bp.pc = "process" /\ owns("block_processor") /\ bp.batch = <<>>
    /\ notifications' = queued(notifications, "block_processor", bp.processed)
    /\ bp' = [bp EXCEPT !.pc = "commit"]
    /\ UNCHANGED <<ledger_vars, queue_vars, dispatching, gap_vars, history, writers>>

(* ... the transaction is committed on the way out ... *)
Commit ==
    /\ bp.pc = "commit"
    /\ commit
    /\ bp' = [bp EXCEPT !.pc = "resolve"]
    /\ UNCHANGED <<queue_vars, note_vars, gap_vars, history>>

(* ... and its future is resolved. *)
Resolve ==
    /\ bp.pc = "resolve"
    /\ resolve_all
    /\ bp' = Idle
    /\ UNCHANGED <<ledger_vars, queue_vars, gap_vars, history, writers>>

-----------------------------------------------------------------------------
(* The thread of the unchecked map. *)

TakeTriggers ==
    /\ Swap
    /\ UNCHANGED <<ledger_vars, queue_vars, note_vars, history, writers, bp>>

(* satisfied: the block processor queues the blocks again; the ones that find
   the queue full are gone. *)
Requeue ==
    /\ Query /\ unlocked
    /\ LET hashes == [i \in DOMAIN satisfied |-> satisfied[i][2]]
           count == push_count(queue, hashes, unchecked)
       IN  /\ queue' = push_all(queue, hashes, unchecked)
           /\ excused' = excused \cup {hashes[i] : i \in count + 1 .. Len(hashes)}
    /\ UNCHANGED <<ledger_vars, arrivals, forces, note_vars, missing, writers, bp>>

DeleteEntry ==
    /\ Delete
    /\ UNCHANGED <<ledger_vars, queue_vars, note_vars, history, writers, bp>>

-----------------------------------------------------------------------------
(* The thread of the notifications. *)

TakeNotification ==
    /\ Take
    /\ UNCHANGED <<ledger_vars, queue_vars, gap_vars, history, writers, bp>>

Observe ==
    /\ Dispatch
    /\ UNCHANGED <<ledger_vars, queue_vars, gap_vars, history, writers, bp>>

-----------------------------------------------------------------------------

(* Another writer, the cementing set, has a block to cement and asks for its
   turn ... *)
cementable(versions) ==
    {h \in holds(versions) \ cemented : Dependencies(h) \subseteq cemented}
BeginCementing ==
    /\ ~Contains(writers, "cementing_set") /\ Cardinality(cemented) < MaxCemented
    /\ cementable(committed) # {}
    /\ acquire("cementing_set")
    /\ UNCHANGED <<ledger_vars, queue_vars, note_vars, gap_vars, history, bp>>

(* ... and cements a block, if there still is one, in a transaction of its
   own. *)
Cement ==
    /\ release("cementing_set")
    /\ cemented' \in {cemented \cup {h} : h \in cementable(version)}
                       \cup (IF cementable(version) = {} THEN {cemented} ELSE {})
    /\ UNCHANGED <<version, committed, queue_vars, note_vars, gap_vars, history, bp>>

Processor ==
    \/ Cooldown \/ PeriodicUpdate \/ TakeBlock \/ BeginWrite
    \/ Refresh \/ Renew \/ Process \/ Notify \/ Commit \/ Resolve
Unchecked == TakeTriggers \/ Requeue \/ DeleteEntry
Notifier == TakeNotification \/ Observe

Next ==
    \/ \E h \in Arriving : Add(h)
    \/ \E h \in Winners : ForceBlock(h)
    \/ BeginCementing \/ Cement
    \/ Processor \/ Unchecked \/ Notifier

Spec == Init /\ [][Next]_vars

(* A thread that can take a step is not kept from it for ever; nothing makes
   blocks arrive or elections finish. *)
FairSpec == Spec /\ WF_vars(Processor \/ Unchecked \/ Notifier \/ Cement)

-----------------------------------------------------------------------------

InFlight(h) ==
    \/ \E o \in Origin : Contains(queue.requests[o], h)
    \/ \E i \in DOMAIN bp.batch : bp.batch[i][1] = h

(* A block found to wait for another (a gap) is remembered under the block it
   waits for, or is about to be processed again.  The only ways to lose it are
   the ones the code accepts: the map is full and drops its oldest entry, the
   queue is full when the block is handed back to it, or the block waits anew
   for the same dependency while query_impl is between handing it out and
   deleting its entry. *)
GapsAreKept ==
    \A h \in Hash :
        missing[h] # Zero /\ h \notin excused =>
            Contains(entries, <<missing[h], h>>) \/ InFlight(h)

(* No block waits for one that is there: as long as an entry is kept for a
   dependency in the ledger, the dependency is about to be looked up. *)
WaitingIsTriggered ==
    \A i \in DOMAIN entries :
        LET d == entries[i][1] IN
        d \in accepted => \/ Contains(buffer, d) \/ Contains(back_buffer, d)
                          \/ Contains(delete_queue, entries[i])

(* Observers are told of a change only when they can see it, although a batch
   may run over several transactions and its results wait for the last one:
   the ledger they read holds that version of the block or a later one. *)
ToldAfterCommit ==
    [][dispatching # <<>> /\ dispatching' = <<>> =>
          \A c \in dispatching[1].changes : committed[c[1]] >= c[2]]_vars

(* The block processor never starts a batch's transaction with more than one
   batch of notifications ahead of what the queue is allowed to hold: results
   of one batch, and one rollback per forced block of it. *)
NotificationsBounded == Len(notifications) < max_ledger_notifications + batch_size + 1

(* Whatever arrived is processed, announced and, when it completes a gap,
   followed by what waited for it: the threads, which wait for one another
   through the write queue, the transaction futures and the bound on the
   notifications, come to rest. *)
AtRest ==
    /\ bp = Idle /\ empty(queue) /\ notifications = <<>> /\ dispatching = <<>>
    /\ \A i \in DOMAIN entries : entries[i][1] \notin accepted
Settles == <>[]AtRest
=============================================================================
