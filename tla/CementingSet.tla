----------------------------- MODULE CementingSet -----------------------------
(***************************************************************************)
(* nano::cementing_set: the thread that makes the outcome of elections     *)
(* irreversible.  Hashes are added by elections, taken in batches, and     *)
(* cemented with all their dependencies under the write lock of the        *)
(* ledger, over as many calls of ledger::cement as that takes.  A block    *)
(* that is not in the ledger is deferred until the block processor has     *)
(* processed it again.                                                     *)
(*                                                                         *)
(* The ledger is the abstract BlockLattice, which module Ledger refines:   *)
(* accepted and cemented are what the write transaction sees, committed is *)
(* what everybody else reads.  The other writers, the block processor and  *)
(* its rollbacks, act whenever the write lock is free.                     *)
(***************************************************************************)
EXTENDS Naturals, Sequences, SequencesExt, BlockLattice

CONSTANTS
    BatchSize,              \* config.batch_size
    MaxBlocks,              \* config.max_blocks
    MaxDeferred,            \* config.max_deferred
    MaxQueuedNotifications, \* config.max_queued_notifications
    MaxLedgerNotifications  \* config.max_ledger_notifications of the block processor

ASSUME CementingSetAssumption ==
    /\ {BatchSize, MaxBlocks, MaxQueuedNotifications, MaxLedgerNotifications} \subseteq Nat \ {0}
    /\ MaxDeferred \in Nat

VARIABLES
    set,            \* hashes to cement, in the order of their arrival
    deferred,       \* hashes whose block was missing, in the order of failing
    current,        \* hashes of the batch being cemented
    committed       \* cemented blocks as other threads read them

VARIABLES
    pc,             \* where the thread is, see the actions
    writer,         \* whether the thread holds the write lock
    batch,          \* rest of the batch, its head in work
    added,          \* number of blocks cemented by the current call of ledger::cement
    results,        \* blocks cemented and not handed to the workers yet
    workers,        \* batches queued for the notification thread
    notified,       \* blocks announced by batch_cemented so far
    requested,      \* hashes that were added and not given up with cementing_failed
    processed       \* ledger notifications: processed blocks not announced yet

queues == <<set, deferred, current>>
thread == <<pc, writer, batch, added, results>>
events == <<workers, notified>>
ledgerVars == <<accepted, cemented, committed>>
allVars == <<ledgerVars, queues, thread, events, requested, processed>>

CSInit ==
    /\ Init /\ committed = {genesis}
    /\ set = <<>> /\ deferred = <<>> /\ current = {}
    /\ pc = "idle" /\ writer = FALSE /\ batch = <<>> /\ added = 0 /\ results = <<>>
    /\ workers = <<>> /\ notified = <<>>
    /\ requested = {} /\ processed = <<>>

(* Sequences with unique elements, as the multi index containers are. *)
push_back(s, h) == IF Contains(s, h) THEN s ELSE Append(s, h)
contains(h) == Contains(set, h) \/ Contains(deferred, h) \/ h \in current

-----------------------------------------------------------------------------
(* Other threads.                                                          *)

(* cementing_set::add, called by the election that confirmed h. *)
Add(h) ==
    /\ set' = push_back(set, h)
    /\ requested' = requested \cup {h}
    /\ UNCHANGED <<ledgerVars, deferred, current, thread, events, processed>>

(* The block processor accepts a block, or finds it in the ledger already,
   and queues the notification. *)
ProcessBlock(h) ==
    /\ ~writer /\ Len(processed) < MaxLedgerNotifications
    /\ Accept(h) \/ (h \in accepted /\ UNCHANGED vars)
    /\ processed' = Append(processed, h)
    /\ UNCHANGED <<committed, queues, thread, events, requested>>

(* The block processor or the bounded backlog rolls a block back. *)
RollbackBlock(h) ==
    /\ ~writer
    /\ Discard(h)
    /\ UNCHANGED <<committed, queues, thread, events, requested, processed>>

(* mutants: blocks of the current batch are skipped; the entry is dropped *)
Requeue_skips_current ==
    /\ processed # <<>>
    /\ processed' = Tail(processed)
    /\ LET h == Head(processed) IN
       IF Contains(deferred, h) /\ h \notin current
       THEN set' = push_back(set, h) /\ deferred' = Remove(deferred, h)
       ELSE UNCHANGED <<set, deferred>>
    /\ UNCHANGED <<ledgerVars, current, thread, events, requested>>
Requeue_drops ==
    /\ processed # <<>>
    /\ processed' = Tail(processed)
    /\ deferred' = Remove(deferred, Head(processed))
    /\ UNCHANGED <<ledgerVars, set, current, thread, events, requested>>

(* The observer of blocks_processed: a deferred block is tried again. *)
Requeue ==
    /\ processed # <<>>
    /\ processed' = Tail(processed)
    /\ LET h == Head(processed) IN
       \/ ~Contains(deferred, h) /\ UNCHANGED <<set, deferred>>
       \/ \E i \in 1 .. Len(deferred) :
             deferred[i] = h /\ deferred' = RemoveAt(deferred, i) /\ set' = push_back(set, h)
    /\ UNCHANGED <<ledgerVars, current, thread, events, requested>>

(* The notification thread runs batch_cemented's observers. *)
NotifyCemented ==
    /\ workers # <<>>
    /\ workers' = Tail(workers)
    /\ notified' = notified \o Head(workers)
    /\ UNCHANGED <<ledgerVars, queues, thread, requested, processed>>

-----------------------------------------------------------------------------
(* The cementing thread.                                                   *)

(* cleanup: the oldest deferred entries are given up, those over the limit
   and any that are too old. *)
cleanup ==
    \E n \in 0 .. Len(deferred) :
        /\ Len(deferred) - n <= MaxDeferred
        /\ deferred' = SubSeq(deferred, n + 1, Len(deferred))
        /\ requested' = requested \ Range(SubSeq(deferred, 1, n))

next_batch ==
    LET n == IF Len(set) < BatchSize THEN Len(set) ELSE BatchSize IN
    batch' = SubSeq(set, 1, n) /\ set' = SubSeq(set, n + 1, Len(set))

Loop_untracked ==                        \* mutant: the batch is not kept in current
    /\ pc = "idle"
    /\ cleanup /\ next_batch
    /\ pc' = IF set = <<>> THEN "waiting" ELSE "begin"
    /\ UNCHANGED <<ledgerVars, current, writer, added, results, events, processed>>

(* run: one turn of the thread takes a batch, or waits for an entry. *)
Loop ==
    /\ pc = "idle"
    /\ cleanup /\ next_batch
    /\ current' = Range(batch')
    /\ pc' = IF set = <<>> THEN "waiting" ELSE "begin"
    /\ UNCHANGED <<ledgerVars, writer, added, results, events, processed>>

Wake ==
    /\ pc = "waiting" /\ set # <<>>
    /\ pc' = "idle"
    /\ UNCHANGED <<ledgerVars, queues, writer, batch, added, results, events, requested, processed>>

(* Taking and releasing the write lock; releasing it commits. *)
Acquire(from, to) ==
    /\ pc = from /\ ~writer
    /\ writer' = TRUE /\ pc' = to
    /\ UNCHANGED <<ledgerVars, queues, batch, added, results, events, requested, processed>>
Commit(from, to) ==
    /\ pc = from /\ writer
    /\ writer' = FALSE /\ committed' = cemented /\ pc' = to
    /\ UNCHANGED <<vars, queues, batch, added, results, events, requested, processed>>

BeginWrite == Acquire("begin", "top")

(* refresh_if_needed at the top of the loop over one entry. *)
Refresh == Commit("top", "refresh") \/ Acquire("refresh", "check")

Notify_copies(from, to) ==               \* mutant: the results are posted and kept
    /\ pc = from /\ Len(workers) < MaxQueuedNotifications
    /\ workers' = Append(workers, results) /\ pc' = to
    /\ UNCHANGED <<ledgerVars, queues, writer, batch, added, results, notified, requested, processed>>

(* notify: wait for room in the queue of the workers and post the results. *)
Notify(from, to) ==
    /\ pc = from /\ Len(workers) < MaxQueuedNotifications
    /\ workers' = Append(workers, results) /\ results' = <<>> /\ pc' = to
    /\ UNCHANGED <<ledgerVars, queues, writer, batch, added, notified, requested, processed>>

many_results_exceeds == Len(results) > MaxBlocks    \* mutant
many_results == Len(results) >= MaxBlocks

(* mutant: the results are posted inside the transaction *)
NotifyIntermediate_uncommitted == many_results /\ pc \in {"top", "check"} /\ Notify(pc, "call")

(* notify_maybe: with many results the transaction is committed first. *)
NotifyIntermediate ==
    \/ pc \in {"top", "check"} /\ many_results /\ Commit(pc, "notify_maybe")
    \/ Notify("notify_maybe", "renew")
    \/ Acquire("renew", "call")

(* The next entry of the batch, or the end of the transaction. *)
NextEntry ==
    /\ batch' = Tail(batch)
    /\ pc' = IF Len(batch) = 1 THEN "commit" ELSE "top"

(* The block may have been rolled back: keep the entry for later. *)
CementMissing ==
    /\ pc \in {"top", "check", "call"} /\ writer
    /\ pc # "call" => ~many_results
    /\ Head(batch) \notin accepted
    /\ deferred' = push_back(deferred, Head(batch))
    /\ NextEntry
    /\ UNCHANGED <<ledgerVars, set, current, writer, added, results, events, requested, processed>>

CementCall ==
    /\ pc \in {"top", "check", "call"} /\ writer
    /\ pc # "call" => ~many_results
    /\ Head(batch) \in accepted
    /\ added' = 0 /\ pc' = "cement"
    /\ UNCHANGED <<ledgerVars, queues, writer, batch, results, events, requested, processed>>

Ancestors[h \in Hash] == Dependencies[h] \cup UNION {Ancestors[d] : d \in Dependencies[h]}

(* ledger::cement takes one dependency after the other, at most MaxBlocks. *)
CementOne ==
    /\ pc \in {"cement", "resolved"} /\ writer /\ added < MaxBlocks
    /\ \E x \in {Head(batch)} \cup Ancestors[Head(batch)] :
        /\ Cement(x)
        /\ results' = Append(results, x)
    /\ added' = added + 1 /\ pc' = "resolved"
    /\ UNCHANGED <<committed, queues, writer, batch, events, requested, processed>>

(* It may refresh the transaction after a block, and goes on unless the
   target is gone. *)
CementRefresh ==
    \/ Commit("resolved", "cement_refresh")
    \/ Acquire("cement_refresh", IF Head(batch) \in accepted THEN "cement" ELSE "top")

(* It returns with its target cemented, or early with something cemented;
   the loop is repeated until the target is cemented. *)
CementReturn ==
    /\ pc \in {"cement", "resolved"} /\ writer
    /\ added > 0 \/ Head(batch) \in cemented
    /\ IF Head(batch) \in cemented THEN NextEntry ELSE pc' = "top" /\ UNCHANGED batch
    /\ UNCHANGED <<ledgerVars, queues, writer, added, results, events, requested, processed>>

EndWrite_silent == Commit("commit", "clear")    \* mutant: no notification of the rest
EndWrite == Commit("commit", "notify")
NotifyBatch == Notify("notify", "clear")

(* The batch is forgotten only after the transaction is committed. *)
Clear ==
    /\ pc = "clear"
    /\ current' = {} /\ pc' = "idle"
    /\ UNCHANGED <<ledgerVars, set, deferred, writer, batch, added, results, events, requested, processed>>

Thread ==
    \/ Loop \/ Wake \/ BeginWrite \/ Refresh \/ NotifyIntermediate \/ CementMissing \/ CementCall
    \/ CementOne \/ CementRefresh \/ CementReturn \/ EndWrite \/ NotifyBatch \/ Clear

CSNext ==
    \/ \E h \in Hash \ {genesis} : Add(h) \/ ProcessBlock(h) \/ RollbackBlock(h)
    \/ Requeue \/ NotifyCemented \/ Thread

CSSpec == CSInit /\ [][CSNext]_allVars

(* Both threads of the component keep running; nobody has to add, process or
   roll back anything. *)
CSFairSpec ==
    /\ CSSpec
    /\ WF_allVars(Thread) /\ WF_allVars(NotifyCemented) /\ WF_allVars(Requeue)

-----------------------------------------------------------------------------

(* "Added blocks will remain in this set until after ledger has them marked
   as confirmed": a hash that was added is contained until other threads can
   read it as cemented, unless it is given up and announced by cementing_failed. *)
ContainsUntilCommitted ==
    \A h \in requested : contains(h) \/ h \in committed

(* A deferred block is never overlooked by the requeue: if the ledger has
   it, the notification that requeues it is still on its way.  run_batch adds
   to deferred "while still holding the exclusive database write transaction
   to avoid block processor races". *)
DeferredIsRequeued ==
    \A h \in accepted : Contains(deferred, h) => Contains(processed, h)

announcements == notified \o FlattenSeq(workers) \o results

(* Observers hear of a block only when its cementing cannot be undone any
   more by a failing transaction. *)
AnnouncedIsCommitted ==
    \A h \in Range(notified \o FlattenSeq(workers)) : h \in committed

(* Every cemented block is announced once, after all its dependencies,
   whatever number of batches, calls and transactions it took. *)
AnnouncedInOrder ==
    /\ Range(announcements) = cemented \ {genesis}
    /\ \A i, j \in 1 .. Len(announcements) :
        /\ announcements[i] = announcements[j] => i = j
        /\ announcements[i] \in Dependencies[announcements[j]] => i < j

(* Notifications are issued "so that `cemented` set is not too large before
   we add more blocks". *)
ResultsBounded == Len(results) < 2 * MaxBlocks

(* A cemented block is announced eventually. *)
CementedIsAnnounced ==
    \A h \in Hash \ {genesis} : h \in cemented ~> Contains(notified, h)

(* A hash that waits in the set is cemented, or deferred because its block is
   missing; and a deferred hash is not kept from being cemented for ever once
   its block is there. *)
AddedIsResolved ==
    \A h \in Hash :
        /\ Contains(set, h) ~> (h \in committed \/ Contains(deferred, h) \/ h \notin requested)
        /\ (Contains(deferred, h) /\ h \in accepted) ~> (h \in committed \/ h \notin accepted \/ h \notin requested)
=============================================================================
