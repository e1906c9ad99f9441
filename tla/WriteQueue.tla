----------------------------- MODULE WriteQueue -----------------------------
(***************************************************************************)
(* nano::store::write_queue: the components that write to the ledger take  *)
(* turns, in the order in which they asked.  A ticket of acquire is a      *)
(* position of the queue, because no writer is in it twice.                *)
(***************************************************************************)
EXTENDS Sequences

VARIABLE writers        \* write_queue::queue

owns(w) == writers # <<>> /\ Head(writers) = w

(* write_queue::acquire up to its wait: owns holds when the wait is over. *)
acquire(w) == writers' = Append(writers, w)

(* write_queue::release. *)
release(w) == owns(w) /\ writers' = Tail(writers)
=============================================================================
