-------------------------- MODULE MCVoteGenerator --------------------------
(***************************************************************************)
(* A block p and two blocks x and y that compete for the slot after it.    *)
(***************************************************************************)
EXTENDS VoteGenerator

CONSTANTS g, p, x, y, slot

MCDependencies == [h \in Hash |->
    CASE h = g -> {}
      [] h = p -> {g}
      [] h \in {x, y} -> {p}]

MCQualifiedRoot == [h \in Hash |->
    CASE h = g -> slot
      [] h = p -> g
      [] h \in {x, y} -> p]

MCElected == [normal |-> {y}, final |-> {x, y}]
=============================================================================
