-------------------------- MODULE MCCementingSet --------------------------
(***************************************************************************)
(* The cementing set over a chain of two blocks and a competitor for its   *)
(* first slot.                                                             *)
(***************************************************************************)
EXTENDS CementingSet

CONSTANTS b0, a1, a2, x1, slot

MCDependencies == [h \in Hash |->
    CASE h = b0 -> {}
      [] h \in {a1, x1} -> {b0}
      [] h = a2 -> {a1}]

MCQualifiedRoot == [h \in Hash |->
    CASE h = b0 -> slot
      [] h \in {a1, x1} -> b0
      [] h = a2 -> a1]
=============================================================================
