---------------------------- MODULE BlockLattice ----------------------------
(***************************************************************************)
(* What the ledger of the node promises to everything built on top of it,  *)
(* without saying how: a set of accepted blocks that is closed under the   *)
(* dependency relation, holds at most one block per root, and contains a   *)
(* cemented part that only grows.  nano::ledger (module Ledger) implements *)
(* this specification.                                                     *)
(***************************************************************************)
EXTENDS Naturals, FiniteSets

CONSTANTS
    Hash,           \* block hashes; a hash stands for the block it identifies
    genesis,        \* hash of the genesis block
    Dependencies,   \* Dependencies[h]: hashes the block h refers to, previous and source
    QualifiedRoot   \* QualifiedRoot[h]: the slot h competes for (its previous, or its account)

ASSUME LatticeAssumption ==
    /\ genesis \in Hash
    /\ Dependencies \in [Hash -> SUBSET Hash]
    /\ Dependencies[genesis] = {}

VARIABLES
    accepted,       \* blocks the ledger holds (pruned ones included)
    cemented        \* blocks that are durably confirmed

vars == <<accepted, cemented>>

-----------------------------------------------------------------------------

Init ==
    /\ accepted = {genesis}
    /\ cemented = {genesis}

(* A block is accepted once everything it refers to is there and its slot is free. *)
Accept(h) ==
    /\ h \notin accepted
    /\ Dependencies[h] \subseteq accepted
    /\ \A x \in accepted : QualifiedRoot[x] # QualifiedRoot[h]
    /\ accepted' = accepted \cup {h}
    /\ UNCHANGED cemented

(* A block is taken back only while it is not cemented and nothing refers to it. *)
Discard(h) ==
    /\ h \in accepted \ cemented
    /\ \A x \in accepted : h \notin Dependencies[x]
    /\ accepted' = accepted \ {h}
    /\ UNCHANGED cemented

(* A block is cemented after everything it refers to. *)
Cement(h) ==
    /\ h \in accepted \ cemented
    /\ Dependencies[h] \subseteq cemented
    /\ cemented' = cemented \cup {h}
    /\ UNCHANGED accepted

Next == \E h \in Hash : Accept(h) \/ Discard(h) \/ Cement(h)

Spec == Init /\ [][Next]_vars

-----------------------------------------------------------------------------

TypeOK ==
    /\ accepted \subseteq Hash
    /\ cemented \subseteq accepted

(* Every accepted block has its dependencies accepted, every cemented block
   has them cemented. *)
DependencyClosed ==
    /\ \A h \in accepted : Dependencies[h] \subseteq accepted
    /\ \A h \in cemented : Dependencies[h] \subseteq cemented

(* Two different accepted blocks never compete for the same slot. *)
NoForks ==
    \A x, y \in accepted : QualifiedRoot[x] = QualifiedRoot[y] => x = y

(* A cemented block stays cemented. *)
CementedForever == [][cemented \subseteq cemented']_vars
=============================================================================
