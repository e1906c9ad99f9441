---------------------------- MODULE UncheckedMap ----------------------------
(***************************************************************************)
(* nano::unchecked_map: the blocks that wait for a block the ledger does   *)
(* not have, and the thread that looks them up when it arrives.  A key is  *)
(* a pair <<dependency, hash>>.                                            *)
(***************************************************************************)
EXTENDS Naturals, Sequences, SequencesExt

CONSTANT max_unchecked_blocks

VARIABLES
    entries,        \* keys in order of insertion
    buffer,         \* dependencies triggered since the thread last took them
    back_buffer,    \* dependencies the thread took and has still to look up
    delete_queue    \* keys whose blocks were handed out and are still to be deleted

(* put: a key already there is kept where it is; the oldest makes room. *)
inserted(key) == IF Contains(entries, key) THEN entries ELSE Append(entries, key)
overflows(key) == Len(inserted(key)) > max_unchecked_blocks
put_refuses(key) ==                       \* mutant: the newest makes room
    entries' = IF overflows(key) THEN entries ELSE inserted(key)
put(key) == entries' = IF overflows(key) THEN Tail(inserted(key)) ELSE inserted(key)

(* trigger, once for each dependency. *)
trigger_once(dependencies) ==             \* mutant: dropped while others are pending
    buffer' = IF buffer = <<>> THEN dependencies ELSE buffer
trigger(dependencies) == buffer' = buffer \o dependencies

(* run: the thread takes everything that was triggered. *)
Swap ==
    /\ back_buffer = <<>> /\ delete_queue = <<>> /\ buffer # <<>>
    /\ back_buffer' = buffer /\ buffer' = <<>>
    /\ UNCHANGED <<entries, delete_queue>>

(* query_impl, first half: all waiting blocks of one dependency are handed
   out under the lock of the entries (satisfied, in the order of the keys,
   which is as good as any) and remembered for deletion. *)
satisfied == SetToSeq({e \in ToSet(entries) : e[1] = Head(back_buffer)})
Query ==
    /\ back_buffer # <<>> /\ delete_queue = <<>>
    /\ delete_queue' = satisfied
    /\ back_buffer' = Tail(back_buffer)
    /\ UNCHANGED <<entries, buffer>>

(* query_impl, second half: del takes the lock anew for each key. *)
Delete ==
    /\ delete_queue # <<>>
    /\ \/ ~Contains(entries, Head(delete_queue)) /\ UNCHANGED entries
       \/ \E i \in DOMAIN entries :
             entries[i] = Head(delete_queue) /\ entries' = RemoveAt(entries, i)
    /\ delete_queue' = Tail(delete_queue)
    /\ UNCHANGED <<buffer, back_buffer>>
=============================================================================
