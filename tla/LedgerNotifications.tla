------------------------- MODULE LedgerNotifications -------------------------
(***************************************************************************)
(* nano::ledger_notifications: writers of the ledger queue what they did   *)
(* while their transaction is open, and one thread hands it to the         *)
(* observers, in the order of the queue, once the transaction of the entry *)
(* is committed.  The future of an entry is its field committed; it is     *)
(* resolved for all entries of the writer that commits.                    *)
(***************************************************************************)
EXTENDS Naturals, Sequences

CONSTANT max_ledger_notifications

ASSUME NotificationsAssumption == max_ledger_notifications \in Nat \ {0}

VARIABLES
    notifications,  \* the entries not taken yet, a sequence
    dispatching     \* <<>>, or the entry the thread took, in a sequence

(* wait: there is room for another batch. *)
vacancy_inclusive == Len(notifications) <= max_ledger_notifications    \* mutant
vacancy == Len(notifications) < max_ledger_notifications

(* notify_processed and notify_rolled_back. *)
queued(q, w, c) ==
    Append(q, [writer |-> w, changes |-> c, committed |-> FALSE])

(* secure::write_transaction::commit resolves the future of its entries. *)
resolve(q, w) ==
    [i \in DOMAIN q |-> IF q[i].writer = w THEN [q[i] EXCEPT !.committed = TRUE]
                            ELSE q[i]]

(* run: the thread takes an entry. *)
Take ==
    /\ dispatching = <<>> /\ notifications # <<>>
    /\ dispatching' = <<Head(notifications)>>
    /\ notifications' = Tail(notifications)

(* run: the future of the entry is resolved, the observers are called.  What
   they do is up to the module that extends this one. *)
Dispatch_early ==                         \* mutant: the future is not waited for
    /\ dispatching # <<>>
    /\ dispatching' = <<>>
    /\ UNCHANGED notifications
Dispatch ==
    /\ dispatching # <<>> /\ dispatching[1].committed
    /\ dispatching' = <<>>
    /\ UNCHANGED notifications
=============================================================================
