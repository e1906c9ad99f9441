------------------------------ MODULE Consensus ------------------------------
(***************************************************************************)
(* What the elections of all nodes promise together for one root: at most  *)
(* one of the competing blocks is ever decided.  A representative casts    *)
(* one final vote for good, and a node decides a block when final votes of *)
(* a quorum are for it.  Module Election implements this specification.    *)
(***************************************************************************)
CONSTANTS
    Node,
    Rep,        \* principal representatives
    Candidate,  \* hashes of the blocks that compete for the root
    None,       \* no block
    Quorum      \* sets of representatives whose weight reaches the quorum delta

(* What agreement rests on: any two quorums share a representative. *)
QuorumsIntersect ==
    /\ None \notin Candidate
    /\ Quorum \subseteq SUBSET Rep
    /\ \A Q, R \in Quorum : Q \cap R # {}

VARIABLES
    final_vote,     \* final_vote[r]: what representative r cast its final vote for
    decided         \* decided[n]: the block node n holds for confirmed

vars == <<final_vote, decided>>

Init ==
    /\ final_vote = [r \in Rep |-> None]
    /\ decided = [n \in Node |-> None]

(* Representatives that share a node cast their votes together. *)
CastFinal(R, c) ==
    /\ \A r \in R : final_vote[r] \in {None, c}
    /\ final_vote' = [r \in Rep |-> IF r \in R THEN c ELSE final_vote[r]]
    /\ UNCHANGED decided

Decide(n, c) ==
    /\ \E Q \in Quorum : \A r \in Q : final_vote[r] = c
    /\ decided' = [decided EXCEPT ![n] = c]
    /\ UNCHANGED final_vote

Next ==
    \E c \in Candidate :
        \/ \E R \in SUBSET Rep : CastFinal(R, c)
        \/ \E n \in Node : Decide(n, c)

Spec == Init /\ [][Next]_vars

-----------------------------------------------------------------------------

TypeOK ==
    /\ final_vote \in [Rep -> Candidate \cup {None}]
    /\ decided \in [Node -> Candidate \cup {None}]

(* Two nodes never decide different blocks. *)
Agreement ==
    \A m, n \in Node : decided[m] # None /\ decided[n] # None => decided[m] = decided[n]

(* A decision is never revised. *)
DecidedForever ==
    [][\A n \in Node : decided[n] # None => decided'[n] = decided[n]]_vars
=============================================================================
