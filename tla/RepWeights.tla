----------------------------- MODULE RepWeights -----------------------------
(***************************************************************************)
(* nano::rep_weights: the weight delegated to each representative.  A      *)
(* value w of this component is a record with                              *)
(*   store      the rep_weight table of the database (0 = no row),         *)
(*   cache      rep_amounts, which drops representatives under min_weight, *)
(*   committed  weight_committed, the sum of all delegated weight,         *)
(*   unused     weight_unused, the weight of everything not delegated.     *)
(* Weights are integers: an operation whose release_assert would fail in   *)
(* the code yields a negative weight here.                                 *)
(***************************************************************************)
EXTENDS Integers

CONSTANT min_weight     \* representatives below it are not cached

ASSUME MinWeightAssumption == min_weight \in Nat

(* rep_amounts erases zero weights and weights under min_weight. *)
put_cache(weight) == IF weight < min_weight THEN 0 ELSE weight

put(w, rep, weight) ==
    [w EXCEPT !.store[rep] = weight, !.cache[rep] = put_cache(weight)]

(* Delegated weight grows: a receive or an open. *)
add(w, rep, amount) ==
    [put(w, rep, w.store[rep] + amount) EXCEPT
        !.committed = w.committed + amount, !.unused = w.unused - amount]

(* Delegated weight shrinks: a send. *)
sub(w, rep, amount) ==
    [put(w, rep, w.store[rep] - amount) EXCEPT
        !.committed = w.committed - amount, !.unused = w.unused + amount]

(* Weight changes hands: a representative change. *)
move(w, source_rep, dest_rep, amount) ==
    IF source_rep = dest_rep
    THEN w
    ELSE put(put(w, source_rep, w.store[source_rep] - amount),
             dest_rep, w.store[dest_rep] + amount)

(* mutant: the sent amount is taken from the new representative *)
move_add_sub_dest(w, source_rep, amount_source, dest_rep, amount_dest) ==
    IF amount_dest >= amount_source
    THEN LET moved == move(w, source_rep, dest_rep, amount_source)
         IN  IF amount_dest = amount_source
             THEN moved
             ELSE add(moved, dest_rep, amount_dest - amount_source)
    ELSE sub(move(w, source_rep, dest_rep, amount_dest),
             dest_rep, amount_source - amount_dest)

(* A state block may change the representative and the balance at once. *)
move_add_sub(w, source_rep, amount_source, dest_rep, amount_dest) ==
    IF amount_dest >= amount_source
    THEN LET moved == move(w, source_rep, dest_rep, amount_source)
         IN  IF amount_dest = amount_source
             THEN moved
             ELSE add(moved, dest_rep, amount_dest - amount_source)
    ELSE sub(move(w, source_rep, dest_rep, amount_dest),
             source_rep, amount_source - amount_dest)
=============================================================================
