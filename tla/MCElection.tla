----------------------------- MODULE MCElection -----------------------------
(***************************************************************************)
(* Elections with two representatives: the first has a quorum alone, or    *)
(* they are equal and a quorum takes both.                                 *)
(***************************************************************************)
EXTENDS Election

CONSTANTS n1, n2, r1, r2

MCVoter == [n \in Node |-> IF n = n1 THEN {r1} ELSE IF n = n2 THEN {r2} ELSE {}]
MCNoVoter == [n \in Node |-> {}]
MCEqual == [r \in Rep |-> 1]
MCHeavy == [r \in Rep |-> IF r = r1 THEN 2 ELSE 1]

ASSUME MCQuorums == Abstract!QuorumsIntersect
=============================================================================
