------------------------------ MODULE MCLedger ------------------------------
(***************************************************************************)
(* The ledger of a pruning node on a universe of legacy, state and epoch   *)
(* blocks of three accounts.  The legacy chain goes back and forth between *)
(* G and A, and A may send to B instead, so that rollbacks nest, within    *)
(* and beyond the depth allowed; most roots have competitors, and some     *)
(* blocks are refused.                                                     *)
(***************************************************************************)
EXTENDS Ledger

CONSTANTS G, A, B, epoch1, epoch_key
CONSTANTS b0, s1, s1f, oA, cA, s2, r2, cG, eA, stA, oB, eO, rO, rdup, greedy, unsigned, astray

blk(type, account, previous, representative, balance, link, signer) ==
    [type |-> type, account |-> account, previous |-> previous,
     representative |-> representative, balance |-> balance, link |-> link,
     signer |-> signer, work |-> TRUE]

MCAccount == {G, A, B}
MCHash == {b0, s1, s1f, oA, cA, s2, r2, cG, eA, stA, oB, eO, rO, rdup, greedy,
           unsigned, astray}
MCEpochs == [l \in {epoch1} |-> [epoch |-> 1, signer |-> epoch_key]]

MCBlock == [h \in MCHash |->
    CASE h = b0   -> blk("open", G, Zero, G, 4, Zero, G)
      [] h = s1   -> blk("send", Zero, b0, Zero, 2, A, G)
      [] h = s1f  -> blk("state", G, b0, A, 3, Zero, G)     \* competes with s1, burns 1
      [] h = oA   -> blk("open", A, Zero, A, 0, s1, A)
      [] h = cA   -> blk("change", Zero, oA, G, 0, Zero, A)
      [] h = s2   -> blk("send", Zero, cA, Zero, 0, G, A)   \* a full send
      [] h = r2   -> blk("receive", Zero, s1, Zero, 0, s2, G)
      [] h = cG   -> blk("state", G, r2, A, 4, Zero, G)     \* changes the representative
      [] h = eA   -> blk("state", A, oA, A, 2, epoch1, epoch_key) \* competes with cA
      [] h = stA  -> blk("state", A, eA, G, 1, B, A)        \* send after the upgrade
      [] h = oB   -> blk("state", B, Zero, A, 1, stA, B)
      [] h = eO   -> blk("state", A, Zero, Zero, 0, epoch1, epoch_key) \* competes with oA
      [] h = rO   -> blk("state", A, eO, B, 2, s1, A)
      [] h = rdup -> blk("receive", Zero, oA, Zero, 0, s1, A) \* receives s1 again
      [] h = greedy -> blk("state", A, Zero, A, 4, s1, A)   \* receives more than was sent
      [] h = unsigned -> blk("state", A, oA, A, 0, G, G)    \* not signed by A
      [] h = astray -> blk("state", A, b0, A, 2, Zero, A)]  \* continues the chain of G
=============================================================================
