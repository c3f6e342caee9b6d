------------------------------ MODULE MCMempool ------------------------------
(* Seven transactions over a tree of six blocks: child spends parent, tail  *)
(* child, rival conflicts with parent, side and free spend other outputs of *)
(* the same coinbase, join spends child and side.                           *)
EXTENDS Mempool

CONSTANTS c0, parent, child, rival, side, join, free, tail, g, e1, e2, b1, b2, a1

MCTx == {c0, parent, child, rival, side, join, free, tail}
MCIns == [t \in MCTx |-> CASE t = parent -> <<<<c0, 1>>>>
                           [] t = child -> <<<<parent, 1>>>>
                           [] t = rival -> <<<<c0, 1>>>>
                           [] t = side -> <<<<c0, 2>>>>
                           [] t = join -> <<<<child, 1>>, <<side, 1>>>>
                           [] t = free -> <<<<c0, 3>>>>
                           [] t = tail -> <<<<child, 2>>>>
                           [] OTHER -> <<>>]
MCFee == [t \in MCTx |-> CASE t = parent -> 2 [] t = child -> 5 [] t = rival -> 8 [] t = side -> 3 [] t = join -> 4
                           [] t = free -> 2 [] t = tail -> 2 [] OTHER -> 0]
MCLockTime == [t \in MCTx |-> CASE t = child -> 3 [] t = free -> 9 [] OTHER -> 0]
MCRelative == [t \in MCTx |-> IF t = join THEN 0 ELSE -1]
MCBlock == {g, e1, e2, b1, b2, a1}
MCTxs == [b \in MCBlock |-> CASE b = e1 -> <<c0>>
                              [] b = b1 -> <<parent>>
                              [] b = b2 -> <<side>>
                              [] b = a1 -> <<rival>>
                              [] OTHER -> <<>>]
MCPrev == [b \in MCBlock \ {g} |-> CASE b = e1 -> g
                                     [] b = e2 -> e1
                                     [] b = b1 -> e2
                                     [] b = b2 -> b1
                                     [] b = a1 -> e2]
MCFirstChain == <<g, e1, e2>>
=============================================================================
