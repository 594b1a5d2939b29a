----------------------------- MODULE MCTemplate -----------------------------
(***************************************************************************)
(* A small instance for TLC.  Outpoints are named after the transaction or *)
(* block that creates them.                                                *)
(*                                                                         *)
(*   g (coins c, d; e matures at height 3)                                 *)
(*   |-- m1 []        -- m2 []                                             *)
(*   |-- n1 [r]       -- n2 [x]                                            *)
(*                                                                         *)
(*   r spends c and is replaceable, s spends c, is replaceable and pays    *)
(*     more; x spends r                                                    *)
(*   y spends d, cheap and large                                           *)
(*   z spends e, which is immature at first, and is locked until height 2  *)
(*   f spends d and pays less than the relay minimum                       *)
(***************************************************************************)
EXTENDS Template

TxRow == [
    r |-> [inputs |-> {"c"}, fee |-> 3, size |-> 2, lock |-> 0],
    s |-> [inputs |-> {"c"}, fee |-> 8, size |-> 3, lock |-> 0],
    x |-> [inputs |-> {"r"}, fee |-> 9, size |-> 2, lock |-> 0],
    y |-> [inputs |-> {"d"}, fee |-> 3, size |-> 3, lock |-> 0],
    z |-> [inputs |-> {"e"}, fee |-> 1, size |-> 1, lock |-> 2],
    f |-> [inputs |-> {"d"}, fee |-> 1, size |-> 2, lock |-> 0] ]

BlockRow == [
    g  |-> [parent |-> "none", work |-> 1, txs |-> <<>>],
    m1 |-> [parent |-> "g", work |-> 2, txs |-> <<>>],
    m2 |-> [parent |-> "m1", work |-> 4, txs |-> <<>>],
    n1 |-> [parent |-> "g", work |-> 2, txs |-> <<"r">>],
    n2 |-> [parent |-> "n1", work |-> 3, txs |-> <<"x">>] ]

MCInputs == [t \in Tx |-> TxRow[t].inputs]
MCOutputs == [t \in Tx |-> {t}]
MCFee == [t \in Tx |-> TxRow[t].fee]
MCSize == [t \in Tx |-> TxRow[t].size]
MCLockTime == [t \in Tx |-> TxRow[t].lock]
MCCoin == {"c", "d", "e"} \cup Tx
MCMatureAt == [c \in Coin |-> IF c = "e" THEN 3 ELSE 0]
MCParent == [b \in Block \ {Genesis} |-> BlockRow[b].parent]
MCWork == [b \in Block |-> BlockRow[b].work]
MCBlockTxs == [b \in Block |-> BlockRow[b].txs]
MCReward == [b \in Block |-> IF b = Genesis THEN {"c", "d", "e"} ELSE {}]
MCReplaceable == Tx \cap {"r", "s", "y", "f"}

=============================================================================
