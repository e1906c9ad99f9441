------------------------------ MODULE Election ------------------------------
(***************************************************************************)
(* nano::election and the routing of votes to it: the elections that       *)
(* several nodes hold for the same root.  Candidates are the hashes of the *)
(* competing blocks, numbers because hashes are compared.  Votes of a      *)
(* representative may arrive at any node at any time, any number of times  *)
(* and in any order: normal votes for whatever it preferred in the past,   *)
(* final votes for the one block it is bound to.  Weights and the quorum   *)
(* delta are fixed while the election runs; timers may fire at any time.   *)
(***************************************************************************)
EXTENDS Integers, FiniteSets, FiniteSetsExt, Functions

CONSTANTS
    Node,
    Rep,            \* principal representatives
    Candidate,
    Weight,         \* Weight[r]: voting weight
    Delta,          \* online_reps.delta ()
    MaxBlocks,      \* max_blocks of an election
    MaxTimestamp,   \* normal votes have the timestamps 1 .. MaxTimestamp
    MaxRouted,      \* votes that wait for the mutex of an election at a time
    Event,          \* what may happen to an election besides votes and forks
    Voter,          \* Voter[n]: representatives whose keys are in the wallets of node n
    None

Null == "null"                           \* account::null ()

ASSUME ElectionAssumption ==
    /\ IsFiniteSet(Rep) /\ Null \notin Rep
    /\ IsFiniteSet(Candidate) /\ None \notin Candidate
    /\ Candidate \subseteq Nat \ {0}
    /\ Weight \in [Rep -> Nat \ {0}] /\ Delta \in Nat \ {0}
    /\ Event \subseteq {"active", "expired_confirmed", "expired_unconfirmed", "cancelled", "erase"}
    /\ MaxRouted \in Nat \ {0}
    /\ MaxBlocks \in Nat \ {0, 1} /\ MaxTimestamp \in Nat \ {0}
    /\ Voter \in [Node -> SUBSET Rep]
    /\ \A m, n \in Node : m # n => Voter[m] \cap Voter[n] = {}

VARIABLES
    election,       \* election[n]: the fields of node n's election, see Fresh
    publishing,     \* the call of publish in progress, or None
    routes,         \* hashes that vote_router routes to the election
    routed,         \* hashes with a vote past the router that waits for the election's mutex
    erased,         \* the election left the active elections
    aborted,        \* an assertion failed
    requests,       \* the final vote requested from the vote generator, or None
    final_vote      \* final_vote[r]: what r is bound to by its recorded final vote

vars == <<election, publishing, routes, routed, erased, aborted, requests, final_vote>>

Final == MaxTimestamp + 1                \* the timestamp of final votes
Vote == [rep : Rep, timestamp : 1 .. Final, hash : Candidate]

Total(R) == SumFunctionOnSet([r \in Rep \cup {Null} |-> IF r = Null THEN 0 ELSE Weight[r]], R)

(* The election created for block c: the null account votes for it. *)
Fresh(c) ==
    [state |-> "passive", last_votes |-> [r \in {Null} |-> [timestamp |-> 0, hash |-> c]], last_blocks |-> {c},
     winner |-> c, is_quorum |-> FALSE, final_weight |-> 0, last_tally |-> <<>>]

confirmed_locked(e) == e.state \in {"confirmed", "expired_confirmed"}
is_voting(n) == Voter[n] # {}

Init ==
    /\ election \in [Node -> {Fresh(c) : c \in Candidate}]
    /\ publishing = [n \in Node |-> None]
    /\ routes = [n \in Node |-> {election[n].winner}]
    /\ routed = [n \in Node |-> {}]
    /\ erased = [n \in Node |-> FALSE] /\ aborted = [n \in Node |-> FALSE]
    /\ requests = [n \in Node |-> None]
    /\ final_vote = [r \in Rep |-> None]

-----------------------------------------------------------------------------
(* The tally.                                                              *)

voters(e, h) == {r \in DOMAIN e.last_votes : e.last_votes[r].hash = h}
final_voters(e, h) == {r \in voters(e, h) : e.last_votes[r].timestamp = Final}

block_weights(e) ==
    [h \in {e.last_votes[r].hash : r \in DOMAIN e.last_votes} |-> Total(voters(e, h))]

(* tally_t is a map from weights to blocks: of several blocks with the same
   weight it holds one, whichever is met first. *)
tally(e) ==
    LET weights == block_weights(e)
        held == DOMAIN weights \cap e.last_blocks
        amounts == {weights[h] : h \in held}
    IN {t \in [amounts -> held] : \A a \in amounts : weights[t[a]] = a}

leader(t) == t[Max(DOMAIN t)]
second(t) == Max({0} \cup (DOMAIN t \ {Max(DOMAIN t)}))

(* What tally_impl leaves behind: final_weight keeps its old value when the
   leader has no final vote. *)
tallied(e, t) ==
    LET finals == IF t = <<>> THEN {} ELSE final_voters(e, leader(t)) IN
    [e EXCEPT !.last_tally = block_weights(e),
              !.final_weight = IF finals = {} THEN @ ELSE Total(finals)]

have_quorum(t) == Max(DOMAIN t) - second(t) >= Delta

confirm_on_quorum(e, t) ==                \* mutant: final votes are not required
    LET e2 == tallied(e, t)
        changed == SumSet(DOMAIN t) >= Delta /\ leader(t) # e.winner
    IN [e2 EXCEPT !.winner = IF changed THEN leader(t) ELSE @,
                  !.is_quorum = @ \/ have_quorum(t),
                  !.state = IF have_quorum(t) THEN "confirmed" ELSE @]
confirm_no_switch(e, t) ==                \* mutant: the winner is not changed
    LET e2 == tallied(e, t)
    IN [e2 EXCEPT !.is_quorum = @ \/ have_quorum(t),
                  !.state = IF have_quorum(t) /\ e2.final_weight >= Delta THEN "confirmed" ELSE @]

(* confirm_if_quorum and confirm_once.  remove_votes removes nothing: no
   vote is ever added to the local vote history. *)
confirm_if_quorum(e, t) ==
    LET e2 == tallied(e, t)
        changed == SumSet(DOMAIN t) >= Delta /\ leader(t) # e.winner
    IN [e2 EXCEPT !.winner = IF changed THEN leader(t) ELSE @,
                  !.is_quorum = @ \/ have_quorum(t),
                  !.state = IF have_quorum(t) /\ e2.final_weight >= Delta THEN "confirmed" ELSE @]

-----------------------------------------------------------------------------
(* Votes.                                                                  *)

(* vote_router::vote looks the election up and lets go of its lock. *)
RouteVote(n, h) ==
    /\ ~aborted[n] /\ ~erased[n]
    /\ h \in routes[n] /\ h \notin routed[n] /\ Cardinality(routed[n]) < MaxRouted
    /\ routed' = [routed EXCEPT ![n] = @ \cup {h}]
    /\ UNCHANGED <<election, publishing, routes, erased, aborted, requests, final_vote>>

replay_check(e, v) ==
    v.rep \in DOMAIN e.last_votes =>
        LET last == e.last_votes[v.rep] IN
        \/ last.timestamp < v.timestamp
        \/ last.timestamp = v.timestamp /\ last.hash < v.hash

(* The vote is a replay, or comes too early after the last one. *)
IgnoreVote(n, v) ==
    /\ ~aborted[n] /\ v.hash \in routed[n]
    /\ replay_check(election[n], v) =>
          v.rep \in DOMAIN election[n].last_votes /\ v.timestamp # Final
    /\ routed' = [routed EXCEPT ![n] = @ \ {v.hash}]
    /\ UNCHANGED <<election, publishing, routes, erased, aborted, requests, final_vote>>

with_vote(e, v) ==
    [e EXCEPT !.last_votes =
        [r \in DOMAIN @ \cup {v.rep} |->
            IF r = v.rep THEN [timestamp |-> v.timestamp, hash |-> v.hash] ELSE @[r]]]

(* election::vote; a final vote is one the representative recorded. *)
ApplyVote(n, v) ==
    LET e == with_vote(election[n], v) IN
    /\ ~aborted[n] /\ v.hash \in routed[n]
    /\ v.timestamp = Final => final_vote[v.rep] = v.hash
    /\ replay_check(election[n], v)
    /\ routed' = [routed EXCEPT ![n] = @ \ {v.hash}]
    /\ IF confirmed_locked(e)
       THEN election' = [election EXCEPT ![n] = e] /\ UNCHANGED <<aborted, requests>>
       ELSE \E t \in tally(e) :
            IF t = <<>>                  \* release_assert (!tally_l.empty ())
            THEN /\ aborted' = [aborted EXCEPT ![n] = TRUE]
                 /\ UNCHANGED <<election, requests>>
            ELSE /\ election' = [election EXCEPT ![n] = confirm_if_quorum(e, t)]
                 /\ requests' = [requests EXCEPT ![n] =
                        IF have_quorum(t) /\ ~e.is_quorum /\ is_voting(n) THEN election'[n].winner ELSE @]
                 /\ UNCHANGED aborted
    /\ UNCHANGED <<publishing, routes, erased, final_vote>>

(* broadcast_vote_locked, when a vote is due. *)
BroadcastVote(n) ==
    LET e == election[n] IN
    /\ ~aborted[n] /\ is_voting(n)
    /\ \/ /\ confirmed_locked(e)
          /\ requests' = [requests EXCEPT ![n] = e.winner]
          /\ UNCHANGED <<election, aborted>>
       \/ \E t \in tally(e) :
          /\ ~confirmed_locked(e)
          /\ election' = [election EXCEPT ![n] = tallied(e, t)]
          /\ aborted' = [aborted EXCEPT ![n] = t = <<>>]  \* have_quorum of an empty tally is undefined
          /\ requests' = [requests EXCEPT ![n] = IF t # <<>> /\ have_quorum(t) THEN e.winner ELSE @]
    /\ UNCHANGED <<publishing, routes, routed, erased, final_vote>>

(* vote_generator::process_final: the record decides whether the node's
   representatives may cast the vote; the block may be missing in the ledger. *)
GenerateFinal(n) ==
    /\ requests[n] # None
    /\ requests' = [requests EXCEPT ![n] = None]
    /\ \/ UNCHANGED final_vote
       \/ /\ \A r \in Voter[n] : final_vote[r] \in {None, requests[n]}
          /\ final_vote' = [r \in Rep |-> IF r \in Voter[n] THEN requests[n] ELSE final_vote[r]]
    /\ UNCHANGED <<election, publishing, routes, routed, erased, aborted>>

(* A representative of some other node records its final vote. *)
CastElsewhere(r, c) ==
    /\ \A n \in Node : r \notin Voter[n]
    /\ final_vote[r] = None
    /\ final_vote' = [final_vote EXCEPT ![r] = c]
    /\ UNCHANGED <<election, publishing, routes, routed, erased, aborted, requests>>

-----------------------------------------------------------------------------
(* active_elections::publish and election::publish.                        *)

(* replace_by_weight: the blocks that may be replaced, given the weight of
   the cached votes for the new block; none if there is none to replace. *)
replaced_block(e, weight) ==
    LET lowest(S) == {h \in S : \A x \in S : e.last_tally[h] <= e.last_tally[x]} IN
    IF Cardinality(DOMAIN e.last_tally) < MaxBlocks
    THEN {h \in e.last_blocks : weight > 0 /\ h \notin DOMAIN e.last_tally \cup {e.winner}}
    ELSE UNION {IF h # e.winner THEN {h} ELSE lowest(DOMAIN e.last_tally \ {h})
                : h \in {x \in lowest(DOMAIN e.last_tally) : weight > e.last_tally[x]}}
         \cap {h \in DOMAIN e.last_tally : weight > e.last_tally[h]}

(* The block is inserted if there is room.  If not, the mutex is released
   and the router lets go of the block to replace. *)
PublishBegin(n, h) ==
    LET e == election[n]
        room == Cardinality(e.last_blocks) < MaxBlocks IN
    /\ ~aborted[n] /\ ~erased[n] /\ publishing[n] = None
    /\ ~confirmed_locked(e) /\ h \notin e.last_blocks
    /\ \/ /\ room
          /\ election' = [election EXCEPT ![n].last_blocks = @ \cup {h}]
          /\ routes' = [routes EXCEPT ![n] = @ \cup {h}]
          /\ UNCHANGED publishing
       \/ /\ ~room
          /\ \E R \in SUBSET Rep : \E replaced \in replaced_block(e, Total(R)) :
                /\ routes' = [routes EXCEPT ![n] = @ \ {replaced}]
                /\ publishing' = [publishing EXCEPT ![n] = [block |-> h, replaced |-> replaced]]
          /\ UNCHANGED election
    /\ UNCHANGED <<routed, erased, aborted, requests, final_vote>>

remove_block_any(e, h) ==                \* mutant: the winner may be removed
    IF h \in e.last_blocks
    THEN [e EXCEPT !.last_blocks = @ \ {h},
                   !.last_votes = [r \in DOMAIN @ \ voters(e, h) |-> @[r]]]
    ELSE e
remove_block(e, h) ==
    IF h # e.winner /\ h \in e.last_blocks
    THEN [e EXCEPT !.last_blocks = @ \ {h},
                   !.last_votes = [r \in DOMAIN @ \ voters(e, h) |-> @[r]]]
    ELSE e

replace_block(e, p) == [remove_block(e, p.replaced) EXCEPT !.last_blocks = @ \cup {p.block}]

(* With the mutex again, the outcome of the first check is still used.
   Connecting the block to the election comes after the insertion; until
   then votes for it do not arrive, which is no different from late votes. *)
PublishInsert(n) ==
    /\ ~aborted[n] /\ publishing[n] # None
    /\ election' = [election EXCEPT ![n] = replace_block(@, publishing[n])]
    /\ routes' = [routes EXCEPT ![n] = @ \cup {publishing[n].block}]
    /\ publishing' = [publishing EXCEPT ![n] = None]
    /\ UNCHANGED <<routed, erased, aborted, requests, final_vote>>

-----------------------------------------------------------------------------
(* The life of an election.                                                *)

(* valid_change *)
valid_change ==
    ({"passive"} \X {"active", "confirmed", "expired_unconfirmed", "cancelled"}) \cup
    ({"active"} \X {"confirmed", "expired_unconfirmed", "cancelled"}) \cup
    {<<"confirmed", "expired_confirmed">>}

(* state_change, by transition_active, tick and cancel. *)
StateChange(n, s) ==
    /\ ~aborted[n] /\ ~erased[n]
    /\ s # "confirmed" /\ <<election[n].state, s>> \in valid_change
    /\ election' = [election EXCEPT ![n].state = s]
    /\ UNCHANGED <<publishing, routes, routed, erased, aborted, requests, final_vote>>

(* active_elections::erase_election, after a tick or because the ledger
   rolled the block back. *)
Erase(n) ==
    /\ "erase" \in Event
    /\ ~aborted[n] /\ ~erased[n]
    /\ erased' = [erased EXCEPT ![n] = TRUE]
    /\ routes' = [routes EXCEPT ![n] = @ \ election[n].last_blocks]
    /\ UNCHANGED <<election, publishing, routed, aborted, requests, final_vote>>

Insert_again(n, c) ==                    \* mutant: recently confirmed roots are not looked up
    /\ ~aborted[n] /\ erased[n]
    /\ publishing[n] = None /\ routed[n] = {}
    /\ election' = [election EXCEPT ![n] = Fresh(c)]
    /\ erased' = [erased EXCEPT ![n] = FALSE]
    /\ routes' = [routes EXCEPT ![n] = {c}]
    /\ UNCHANGED <<publishing, routed, aborted, requests, final_vote>>

(* active_elections::insert, with the block that is in the ledger now. *)
Insert(n, c) ==
    /\ ~aborted[n] /\ erased[n] /\ ~confirmed_locked(election[n])
    /\ publishing[n] = None /\ routed[n] = {}
    /\ election' = [election EXCEPT ![n] = Fresh(c)]
    /\ erased' = [erased EXCEPT ![n] = FALSE]
    /\ routes' = [routes EXCEPT ![n] = {c}]         \* other routes lead to the old election
    /\ UNCHANGED <<publishing, routed, aborted, requests, final_vote>>

-----------------------------------------------------------------------------

Next ==
    \/ \E n \in Node :
        \/ \E h \in Candidate : RouteVote(n, h) \/ PublishBegin(n, h) \/ Insert(n, h)
        \/ \E v \in Vote : IgnoreVote(n, v) \/ ApplyVote(n, v)
        \/ BroadcastVote(n) \/ GenerateFinal(n)
        \/ PublishInsert(n)
        \/ \E s \in Event \ {"erase"} : StateChange(n, s)
        \/ Erase(n)
    \/ \E r \in Rep, c \in Candidate : CastElsewhere(r, c)

Spec == Init /\ [][Next]_vars

-----------------------------------------------------------------------------

(* The winner is one of the blocks of the election, although publish picks
   the block it removes while it does not hold the mutex. *)
WinnerHeld == \A n \in Node : election[n].winner \in election[n].last_blocks

Quorum == {Q \in SUBSET Rep : Total(Q) >= Delta}
decided == [n \in Node |-> IF confirmed_locked(election[n]) THEN election[n].winner ELSE None]

Abstract == INSTANCE Consensus
            WITH Quorum <- Quorum, decided <- decided, final_vote <- final_vote

(* Two nodes never confirm different blocks, whatever order votes and forks
   arrive in at each of them: this is what confirm_if_quorum's threshold on
   final votes is for. *)
Agreement == Abstract!Agreement

(* As long as no block has to make room for another one, the elections of
   all nodes implement Consensus: confirm_once is reached only for a block
   that a quorum is bound to by final votes, so that two nodes never confirm
   different blocks, and whatever else happens to an election its winner is
   kept from then on. *)
ConsensusSpec == Abstract!Spec

(* The winner of a confirmed election never changes, and the election stays
   confirmed, even if a call of publish began before. *)
ConfirmedForever == Abstract!DecidedForever

(* broadcast_vote_locked, "Broadcast a final vote if reached quorum or
   already confirmed", and confirm_if_quorum: a node asks its representatives
   for a final vote only for a block that leads all others by the quorum
   delta or is confirmed. *)
FinalVoteNeedsQuorum ==
    [][\A n \in Node : requests'[n] \notin {requests[n], None} =>
          \/ confirmed_locked(election[n])
          \/ \E t \in tally(election'[n]) : have_quorum(t) /\ leader(t) = requests'[n]]_vars

(* tally_impl, "Calculate final votes sum for winner": when an election is
   confirmed, final_weight is the weight of the final votes for its winner. *)
FinalWeightOfWinner ==
    [][\A n \in Node :
          confirmed_locked(election'[n]) /\ ~confirmed_locked(election[n]) =>
              election'[n].final_weight = Total(final_voters(election'[n], election'[n].winner))]_vars

(* confirm_if_quorum, release_assert (!tally_l.empty ()): there is a tally
   whenever a vote was applied. *)
TallyNotEmpty == [][\A n \in Node, v \in Vote : ApplyVote(n, v) => ~aborted'[n]]_vars

=============================================================================
