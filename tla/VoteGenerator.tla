---------------------------- MODULE VoteGenerator ----------------------------
(***************************************************************************)
(* nano::vote_generator with nano::voting_policy and nano::vote_replier:   *)
(* how a node with representative keys turns the requests of its elections *)
(* into votes.  Requests wait in an index per vote type; a verifier thread *)
(* takes a batch, asks the voting policy for a permit under a transaction  *)
(* and hands the permits to a broadcaster thread, which signs and sends.   *)
(* A final vote is recorded in the ledger's final_votes table.             *)
(*                                                                         *)
(* The ledger is the abstract BlockLattice, whose writers act whenever the *)
(* final verifier does not hold the write lock.                            *)
(***************************************************************************)
EXTENDS Naturals, Sequences, SequencesExt, BlockLattice

CONSTANTS
    MaxQueue,       \* config.max_queue, of the verifiers and of the broadcasters
    BatchSize,      \* config.batch_size
    BatchThreshold, \* network::confirm_ack_hashes_max, hashes in one vote
    Elected,        \* Elected[t]: hashes that elections ask votes of type t for
    MaxCrashes,     \* bound on the number of restarts
    None            \* no final vote is recorded

ASSUME VoteGeneratorAssumption ==
    /\ {MaxQueue, BatchSize, BatchThreshold} \subseteq Nat \ {0}
    /\ Elected \in [{"normal", "final"} -> SUBSET Hash]
    /\ MaxCrashes \in Nat
    /\ None \notin Hash

Type == {"normal", "final"}     \* nano::vote_type
Root == {QualifiedRoot[h] : h \in Hash}

VARIABLES
    final_votes,    \* the final_votes table as the write transaction sees it
    committed,      \* the final_votes table as committed
    index,          \* index[t]: requests waiting for the verifier of type t
    pc,             \* pc[t]: where the verifier thread of type t is
    batch,          \* batch[t]: requests it has taken and not looked at
    verified,       \* verified[t]: permits it has got and not passed on
    broadcaster,    \* broadcaster[t]: permitted hashes waiting to be sent, one per root
    sent,           \* sent[t]: hashes this node has sent votes of type t for
    crashes

ledger == <<accepted, cemented>>
verifier == <<pc, batch, verified>>
tables == <<final_votes, committed>>
vgVars == <<ledger, tables, index, verifier, broadcaster, sent, crashes>>

NoRequests == [queue |-> <<>>, dedup |-> {}]

VGInit ==
    /\ Init
    /\ final_votes = [r \in Root |-> None]
    /\ committed = final_votes
    /\ index = [t \in Type |-> NoRequests]
    /\ pc = [t \in Type |-> "idle"]
    /\ batch = [t \in Type |-> <<>>]
    /\ verified = [t \in Type |-> <<>>]
    /\ broadcaster = [t \in Type |-> <<>>]
    /\ sent = [t \in Type |-> {}]
    /\ crashes = 0

SameRoot(x, y) == QualifiedRoot[x] = QualifiedRoot[y]

-----------------------------------------------------------------------------
(* The containers.                                                         *)

\* Mutant: the request is replaced although the queue refused the new entry.
index_push_replaces(ix, h) ==
    LET full == Len(ix.queue) >= MaxQueue
        known == \E x \in ix.dedup : SameRoot(x, h)
    IN  [queue |-> IF h \in ix.dedup \/ full THEN ix.queue ELSE Append(ix.queue, h),
         dedup |-> IF full /\ ~known THEN ix.dedup
                   ELSE {x \in ix.dedup : ~SameRoot(x, h)} \cup {h}]

(* dedup maps a root to the latest hash asked for, as the set of these
   hashes.  An older queue entry of the root becomes stale. *)
index_push(ix, h) ==
    IF h \in ix.dedup \/ Len(ix.queue) >= MaxQueue
    THEN ix
    ELSE [queue |-> Append(ix.queue, h),
          dedup |-> {x \in ix.dedup : ~SameRoot(x, h)} \cup {h}]

(* The entries up to count that are not stale, and what is left. *)
index_next_batch(ix, count) ==
    FoldLeft(LAMBDA acc, h :
                CASE Len(acc.batch) = count -> [acc EXCEPT !.queue = Append(@, h)]
                  [] Len(acc.batch) < count /\ h \in acc.dedup ->
                        [acc EXCEPT !.batch = Append(@, h), !.dedup = @ \ {h}]
                  [] OTHER -> acc,
             [batch |-> <<>>, queue |-> <<>>, dedup |-> ix.dedup], ix.queue)

(* A permit replaces the one for another hash of its root; it is dropped when
   the index is full. *)
broadcast_push(s, h) ==
    LET same == {i \in DOMAIN s : SameRoot(s[i], h)}
        others == IF same = {} THEN s ELSE RemoveAt(s, CHOOSE i \in same : TRUE)
    IN  IF \E i \in DOMAIN s : s[i] = h THEN s
        ELSE IF Len(others) >= MaxQueue THEN others ELSE Append(others, h)

-----------------------------------------------------------------------------
(* The voting policy: the permits, at most one, for a block of the ledger. *)

\* Mutant: it is enough that the dependencies are in the ledger.
dependencies_accepted(h) == h \in accepted /\ Dependencies[h] \subseteq accepted

(* any.block_get, then ledger::dependencies_cemented. *)
dependencies_cemented(h) == h \in accepted /\ Dependencies[h] \subseteq cemented

Permit(t, h) == [type |-> t, hash |-> h]

\* Mutant: a recorded final vote confers the final type on the hash asked for.
policy_vote_upgrades_own(h) ==
    IF ~dependencies_cemented(h) THEN <<>>
    ELSE IF committed[QualifiedRoot[h]] # None THEN <<Permit("final", h)>>
    ELSE <<Permit("normal", h)>>

(* A recorded final vote takes the place of the normal vote. *)
policy_vote(h) ==
    LET recorded == committed[QualifiedRoot[h]]
    IN  IF ~dependencies_cemented(h) THEN <<>>
        ELSE IF recorded # None THEN <<Permit("final", recorded)>>
        ELSE <<Permit("normal", h)>>

\* Mutant: the record is overwritten.
final_vote_put_overwrites(h) == TRUE

(* Whether final_vote.put accepts h: nothing else is recorded for its root. *)
final_vote_put(h) == final_votes[QualifiedRoot[h]] \in {None, h}

(* The hash a reply votes for: the recorded one, or the cemented block. *)
reply_final(h) ==
    LET recorded == committed[QualifiedRoot[h]]
    IN  IF recorded # None THEN {recorded} ELSE {h} \cap cemented

-----------------------------------------------------------------------------
(* The verifier threads.                                                   *)

(* vote_generator::vote, called by an election for its winner. *)
Request(t, h) ==
    /\ index' = [index EXCEPT ![t] = index_push(@, h)]
    /\ UNCHANGED <<ledger, tables, verifier, broadcaster, sent, crashes>>

(* The thread takes a batch; if every entry was stale there is nothing to do.
   The read transaction of "normal" begins at once, the write transaction of
   "final" waits for the write lock. *)
Take(t) ==
    /\ pc[t] = "idle" /\ index[t].queue # <<>>
    /\ LET next == index_next_batch(index[t], BatchSize)
       IN  /\ index' = [index EXCEPT ![t] = [queue |-> next.queue, dedup |-> next.dedup]]
           /\ batch' = [batch EXCEPT ![t] = next.batch]
           /\ pc' = [pc EXCEPT ![t] = IF next.batch = <<>> THEN "idle"
                                     ELSE IF t = "final" THEN "begin" ELSE "verify"]
    /\ UNCHANGED <<ledger, tables, verified, broadcaster, sent, crashes>>

BeginFinal ==
    /\ pc["final"] = "begin"
    /\ pc' = [pc EXCEPT !["final"] = "verify"]
    /\ UNCHANGED <<ledger, tables, index, batch, verified, broadcaster, sent, crashes>>

VerifyNormal ==
    /\ pc["normal"] = "verify" /\ batch["normal"] # <<>>
    /\ batch' = [batch EXCEPT !["normal"] = Tail(@)]
    /\ verified' = [verified EXCEPT !["normal"] = @ \o policy_vote(Head(batch["normal"]))]
    /\ UNCHANGED <<ledger, tables, index, pc, broadcaster, sent, crashes>>

(* policy.vote_final under the write transaction. *)
VerifyFinal ==
    LET h == Head(batch["final"])
        ok == dependencies_cemented(h) /\ final_vote_put(h)
    IN  /\ pc["final"] = "verify" /\ batch["final"] # <<>>
        /\ batch' = [batch EXCEPT !["final"] = Tail(@)]
        /\ final_votes' = IF ok THEN [final_votes EXCEPT ![QualifiedRoot[h]] = h] ELSE final_votes
        /\ verified' = IF ok THEN [verified EXCEPT !["final"] = Append(@, Permit("final", h))]
                       ELSE verified
        /\ UNCHANGED <<ledger, committed, index, pc, broadcaster, sent, crashes>>

(* transaction.refresh_if_needed between two entries: the write transaction
   commits, other writers may go first, and it begins anew. *)
RefreshFinal ==
    /\ pc["final"] = "verify" /\ batch["final"] # <<>>
    /\ committed' = final_votes
    /\ pc' = [pc EXCEPT !["final"] = "begin"]
    /\ UNCHANGED <<ledger, final_votes, index, batch, verified, broadcaster, sent, crashes>>

(* Permits go to the broadcaster of their type, one by one.  The final
   verifier still holds its write transaction ... *)
Push(t) ==
    LET permit == Head(verified[t])
    IN  /\ pc[t] = "verify" /\ batch[t] = <<>> /\ verified[t] # <<>>
        /\ broadcaster' = [broadcaster EXCEPT ![permit.type] = broadcast_push(@, permit.hash)]
        /\ verified' = [verified EXCEPT ![t] = Tail(@)]
        /\ UNCHANGED <<ledger, tables, index, pc, batch, sent, crashes>>

(* ... which commits when process_final returns. *)
Return(t) ==
    /\ pc[t] = "verify" /\ batch[t] = <<>> /\ verified[t] = <<>>
    /\ committed' = IF t = "final" THEN final_votes ELSE committed
    /\ pc' = [pc EXCEPT ![t] = "idle"]
    /\ UNCHANGED <<ledger, final_votes, index, batch, verified, broadcaster, sent, crashes>>

-----------------------------------------------------------------------------
(* Votes leave the node.                                                   *)

(* A broadcaster takes a batch, signs one vote and floods it. *)
Broadcast(t) ==
    /\ broadcaster[t] # <<>>
    /\ LET n == IF Len(broadcaster[t]) < BatchThreshold THEN Len(broadcaster[t]) ELSE BatchThreshold
       IN  /\ sent' = [sent EXCEPT ![t] = @ \cup ToSet(SubSeq(broadcaster[t], 1, n))]
           /\ broadcaster' = [broadcaster EXCEPT ![t] = SubSeq(@, n + 1, Len(@))]
    /\ UNCHANGED <<ledger, tables, index, verifier, crashes>>

(* vote_replier::process answers a request, for a block of the ledger, with
   a final vote. *)
Reply(h) ==
    /\ h \in accepted /\ reply_final(h) # {}
    /\ sent' = [sent EXCEPT !["final"] = @ \cup reply_final(h)]
    /\ UNCHANGED <<ledger, tables, index, verifier, broadcaster, crashes>>

(* The other writers of the ledger. *)
WriteLedger(h) ==
    /\ pc["final"] # "verify"
    /\ Accept(h) \/ Discard(h) \/ Cement(h)
    /\ UNCHANGED <<tables, index, verifier, broadcaster, sent, crashes>>

(* The process dies and starts again with what was committed. *)
Crash ==
    /\ crashes < MaxCrashes
    /\ crashes' = crashes + 1
    /\ final_votes' = committed
    /\ index' = [t \in Type |-> NoRequests]
    /\ pc' = [t \in Type |-> "idle"]
    /\ batch' = [t \in Type |-> <<>>]
    /\ verified' = [t \in Type |-> <<>>]
    /\ broadcaster' = [t \in Type |-> <<>>]
    /\ UNCHANGED <<ledger, committed, sent>>

VGNext ==
    \/ \E t \in Type : \E h \in Elected[t] : Request(t, h)
    \/ \E t \in Type : Take(t) \/ Push(t) \/ Return(t) \/ Broadcast(t)
    \/ VerifyNormal \/ BeginFinal \/ VerifyFinal \/ RefreshFinal
    \/ \E h \in Hash : Reply(h) \/ WriteLedger(h)
    \/ Crash

VGSpec == VGInit /\ [][VGNext]_vgVars

-----------------------------------------------------------------------------

(* A node never sends final votes for two blocks that compete for the same
   root: what the final_votes table is for. *)
FinalVotesUnique ==
    \A x, y \in sent["final"] : SameRoot(x, y) => x = y

(* Between restarts of the node its final votes for a root agree, whichever
   of the final verifier, the upgrade of a normal vote and the replies they
   come from, and whatever is accepted, rolled back and cemented meanwhile. *)
FinalVotesUniqueUntilCrash == crashes = 0 => FinalVotesUnique

(* Once a final vote is committed, every final vote sent for its root is for
   the recorded hash, after a restart too. *)
RecordedVoteBinds ==
    [][\A h \in sent'["final"] \ sent["final"] :
          committed[QualifiedRoot[h]] \in {None, h}]_vgVars

(* The node votes only for blocks whose dependencies are cemented.  They
   remain so even if the block itself has been rolled back since. *)
VotesNeedCementedDependencies ==
    \A t \in Type : \A h \in sent[t] : Dependencies[h] \subseteq cemented

(* The latest request of a root is the last entry of that root in the queue
   of its verifier: a request that replaces another one, with the queue full
   or not, never leaves a root for which nothing or an outdated block is
   taken (what the assertion of vote_generator_index::next_batch is after). *)
RequestsAreQueued ==
    \A t \in Type : \A h \in index[t].dedup :
        \E i \in DOMAIN index[t].queue :
            /\ index[t].queue[i] = h
            /\ \A j \in i + 1 .. Len(index[t].queue) : ~SameRoot(index[t].queue[j], h)
=============================================================================
