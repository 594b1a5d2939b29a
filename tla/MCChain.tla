------------------------------ MODULE MCChain ------------------------------
(***************************************************************************)
(* Small block trees for TLC.  A cfg picks the blocks of a run by name     *)
(* (the digit is the height); a block's contents are looked up in Row.     *)
(*                                                                         *)
(*   g -- r1 -- a2 -- a3 -- a4         a3 confirms t, spending r1's coin,  *)
(*          |     |     |     |        and goes round altered, too; a4 is  *)
(*          |     |     |     |        worth two blocks                    *)
(*          |     |     |     |-- e5   e5 claims another height            *)
(*          |     |     |-- l4         l4 has a wrong AuxPoW proof         *)
(*          |     |-- x3               x3 pays itself too much             *)
(*          |-- b2 -- b3 -- b4         b3 confirms t, its child u and      *)
(*          |           |              grandchild v and is worth two;      *)
(*          |           |              b4 spends r1's coin again and is    *)
(*          |           |              worth two                           *)
(*          |           |-- f4         f4 fails check_sanity               *)
(*          |-- i2 -- i3 -- i4         i2 is locked until a later height   *)
(*          |-- n2                     n2 is ahead of a slow clock         *)
(*                                                                         *)
(* Genesis pays nobody, so the first coin that can move is r1's; regtest   *)
(* coinbases mature after two blocks, so it moves at height 3.             *)
(***************************************************************************)
EXTENDS Chain

Plain(p, w, h, cb) ==
    [parent |-> p, work |-> w, time |-> 0, height |-> h,
     creates |-> {cb}, spends |-> {}, transient |-> {}, txs |-> {cb}]

Row == [
    g  |-> Plain("none", 1, 0, "g0"),
    r1 |-> Plain("g", 1, 1, "r1c"),
    a2 |-> Plain("r1", 1, 2, "a2c"),
    a3 |-> [Plain("a2", 1, 3, "a3c") EXCEPT
              !.creates = {"a3c", "t"}, !.spends = {"r1c"}, !.txs = {"a3c", "t"}],
    a4 |-> Plain("a3", 2, 4, "a4c"),
    b2 |-> Plain("r1", 1, 2, "b2c"),
    b3 |-> [Plain("b2", 2, 3, "b3c") EXCEPT
              !.creates = {"b3c", "t", "u", "v"}, !.spends = {"r1c"},
              !.transient = {"t", "u"}, !.txs = {"b3c", "t", "u", "v"}],
    b4 |-> [Plain("b3", 2, 4, "b4c") EXCEPT
              !.creates = {"b4c", "d"}, !.spends = {"r1c"}, !.txs = {"b4c", "d"}],
    i2 |-> Plain("r1", 1, 2, "i2c"),
    i3 |-> Plain("i2", 1, 3, "i3c"),
    i4 |-> Plain("i3", 3, 4, "i4c"),
    x3 |-> Plain("a2", 3, 3, "x3c"),
    l4 |-> Plain("a3", 4, 4, "l4c"),
    e5 |-> Plain("a4", 3, 2, "e5c"),
    f4 |-> Plain("b3", 5, 4, "f4c"),
    n2 |-> [Plain("r1", 1, 2, "n2c") EXCEPT !.time = 1] ]

MCParent == [b \in Block \ {Genesis} |-> Row[b].parent]
MCBlockWork == [b \in Block |-> Row[b].work]
MCTimestamp == [b \in Block |-> Row[b].time]
MCCoinbaseHeight == [b \in Block |-> Row[b].height]
MCCreates == [b \in Block |-> Row[b].creates]
MCSpends == [b \in Block |-> Row[b].spends]
MCTransient == [b \in Block |-> Row[b].transient]
MCTxs == [b \in Block |-> Row[b].txs]
MCCoin == UNION {Row[b].creates : b \in Block}
MCTx == UNION {Row[b].txs : b \in Block}
MCEarly == Block \cap {"f4"}
MCLate == Block \cap {"l4"}
MCUnconnectable == Block \cap {"i2", "x3"}
MCAlterable == Block \cap {"a3"}

=============================================================================
