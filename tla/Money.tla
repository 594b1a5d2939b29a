------------------------------- MODULE Money --------------------------------
(***************************************************************************)
(* Value: how a block's transactions are checked and applied one after     *)
(* another through an overlay of the coins (_connect_block in              *)
(* core/chain.py, core/utxo.py, core/validation.py), taken back with the   *)
(* undo record, and entered in the history of addresses (core/storage.py). *)
(*                                                                         *)
(* A transaction is what its id covers: inputs, outputs, lock time and, of *)
(* a coinbase, the height.  Which block to connect is the subject of       *)
(* Chain, and which witness spends a coin that of Script.                  *)
(***************************************************************************)
EXTENDS Integers, Sequences, SequencesExt, Functions

CONSTANTS
    Address,            \* who can be paid and can sign
    Nobody,             \* _UNSPENDABLE_HASH
    InitialSubsidy, HalvingInterval, CoinbaseMaturity, MinOutputValue, MaxMoney,
    Payments,           \* the outputs a transaction may have
    Rewards,            \* what a miner may claim
    LockTimes,
    MaxChain, MaxSize  \* bounds on the chain, and on the payments in a block

ASSUME MoneyAssumption ==
    /\ InitialSubsidy \in Nat /\ HalvingInterval \in Nat \ {0}
    /\ 2 * InitialSubsidy * HalvingInterval <= MaxMoney
    /\ Nobody \notin Address /\ Rewards \subseteq Nat
    /\ Payments \subseteq Seq([value : Nat, to : Address])

VARIABLES
    utxo,       \* the coins, by outpoint
    history,    \* the rows of address_history
    connected,  \* the blocks above genesis, with their undo records
    overlay     \* the block that is being connected; <<>> if there is none

moneyVars == <<utxo, history, connected, overlay>>

Subsidy(height) ==
    LET halvings == height \div HalvingInterval
    IN IF halvings >= 64 THEN 0 ELSE InitialSubsidy \div 2 ^ halvings

BuildCoinbase(height, reward, to) ==
    [coinbase |-> TRUE, ins |-> <<>>, outs |-> <<[value |-> reward, to |-> to]>>,
     lock |-> 0, height |-> height]

Pays(ins, outs, lock) ==
    [coinbase |-> FALSE, ins |-> ins, outs |-> outs, lock |-> lock, height |-> 0]

\* What a family of coins or outputs is worth, and what of it is a's.
Worth(coins) == SumFunction([k \in DOMAIN coins |-> coins[k].value])
WorthTo(a, coins) == SumFunction([k \in DOMAIN coins |-> IF coins[k].to = a THEN coins[k].value ELSE 0])

Outpoints(tx) == {[tx |-> tx, index |-> i] : i \in DOMAIN tx.outs}

\* Transaction.check_sanity
CheckSanity(tx) ==
    /\ tx.outs # <<>> /\ Worth(tx.outs) <= MaxMoney
    /\ \A i \in DOMAIN tx.outs : tx.outs[i].value >= MinOutputValue
    /\ ~tx.coinbase => tx.ins # <<>> /\ IsInjective(tx.ins)

Final(tx, height) == tx.lock = 0 \/ tx.lock <= height

-----------------------------------------------------------------------------
(* CoinOverlay.                                                            *)

NewOverlay(height) ==
    [height |-> height, txs |-> <<>>, added |-> <<>>, spent |-> {}, undo |-> <<>>,
     coins |-> <<>>, fees |-> 0]

\* The outpoints for which get_coin finds a coin, and
Visible(view) == (DOMAIN view.added \cup DOMAIN utxo) \ view.spent

\* the coin it finds.
GetCoin(view, o) == IF o \in DOMAIN view.added THEN view.added[o] ELSE utxo[o]

CoinOf(o, height) ==
    [value |-> o.tx.outs[o.index].value, to |-> o.tx.outs[o.index].to, height |-> height,
     coinbase |-> o.tx.coinbase]

IsSpendableAt(coin, height) == coin.coinbase => height - coin.height >= CoinbaseMaturity

\* check_transaction_inputs; nobody signs for the coins of genesis.
CheckTransactionInputs(view, tx) ==
    /\ ToSet(tx.ins) \subseteq Visible(view)
    /\ \A o \in ToSet(tx.ins) : LET coin == GetCoin(view, o)
                                IN IsSpendableAt(coin, view.height) /\ coin.to # Nobody
    /\ LET provided == Worth([i \in DOMAIN tx.ins |-> GetCoin(view, tx.ins[i])])
       IN provided <= MaxMoney /\ provided >= Worth(tx.outs)

\* A function without, and with other, entries.
Without(f, keys) == [k \in DOMAIN f \ keys |-> f[k]]
With(f, g) == [k \in DOMAIN f \cup DOMAIN g |-> IF k \in DOMAIN g THEN g[k] ELSE f[k]]

\* The body of the loop of _connect_block, for a transaction that passed.
Applied(view, tx) ==
    LET ins == ToSet(tx.ins)
        taken == [o \in ins |-> GetCoin(view, o)]
        created == UNION {Outpoints(view.txs[i]) : i \in DOMAIN view.txs}
        new == [o \in Outpoints(tx) |-> CoinOf(o, view.height)]
        in == Worth([i \in DOMAIN tx.ins |-> taken[tx.ins[i]]])
    IN [view EXCEPT !.txs = Append(@, tx),
                    !.added = With(Without(@, ins), new),
                    !.spent = (@ \cup ins) \ Outpoints(tx),
                    !.coins = With(@, taken),
                    !.undo = With(@, Without(taken, created)),
                    !.fees = IF tx.coinbase THEN @ ELSE @ + in - Worth(tx.outs)]

-----------------------------------------------------------------------------
(* _index_block and index_transaction.                                     *)

\* Mutant: what a transaction spends is looked up among the coins of earlier
\* blocks.
RowsFromUndo(view, tx) ==
    LET sources == [i \in {j \in DOMAIN tx.ins : tx.ins[j] \in DOMAIN view.undo} |-> view.undo[tx.ins[i]]]
        touched == {tx.outs[i].to : i \in DOMAIN tx.outs} \cup {sources[i].to : i \in DOMAIN sources}
    IN {[to |-> a, tx |-> tx, height |-> view.height,
         received |-> WorthTo(a, tx.outs), sent |-> WorthTo(a, sources)] : a \in touched}

\* The rows of a transaction: what each address received and sent.
Rows(view, tx) ==
    LET sources == [i \in DOMAIN tx.ins |-> view.coins[tx.ins[i]]]
        touched == {tx.outs[i].to : i \in DOMAIN tx.outs} \cup {sources[i].to : i \in DOMAIN sources}
    IN {[to |-> a, tx |-> tx, height |-> view.height,
         received |-> WorthTo(a, tx.outs), sent |-> WorthTo(a, sources)] : a \in touched}

Indexed(view) ==
    LET new == UNION {Rows(view, view.txs[i]) : i \in DOMAIN view.txs}
    IN {r \in history : ~\E n \in new : n.to = r.to /\ n.tx = r.tx} \cup new

\* unindex_transactions
Unindexed(txs) == {r \in history : r.tx \notin ToSet(txs)}

-----------------------------------------------------------------------------

GenesisCoinbase == BuildCoinbase(0, Subsidy(0), Nobody)

\* The first lines of _connect_block, and the coinbase of the block.
BeginBlock ==
    /\ overlay = <<>> /\ Len(connected) < MaxChain
    /\ LET height == Len(connected) + 1 IN
       \E reward \in Rewards, a \in Address :
        LET tx == BuildCoinbase(height, reward, a) IN
            /\ CheckSanity(tx)
            /\ overlay' = Applied(NewOverlay(height), tx)
    /\ UNCHANGED <<utxo, history, connected>>

\* The next transaction of the block; if it does not pass, neither does the
\* block (check_sanity of the block, _connect_block).
NextTransaction ==
    /\ overlay # <<>> /\ Len(overlay.txs) <= MaxSize
    /\ \E ins \in SeqOf(DOMAIN utxo \cup DOMAIN overlay.added \cup overlay.spent, 2),
          outs \in Payments, lock \in LockTimes :
        LET tx == Pays(ins, outs, lock) IN
            /\ CheckSanity(tx) /\ tx \notin ToSet(overlay.txs)
            /\ overlay' = IF Final(tx, overlay.height) /\ CheckTransactionInputs(overlay, tx)
                          THEN Applied(overlay, tx) ELSE <<>>
    /\ UNCHANGED <<utxo, history, connected>>

\* The end of _connect_block.
ConnectBlock ==
    /\ overlay # <<>>
    /\ IF Worth(overlay.txs[1].outs) <= Subsidy(overlay.height) + overlay.fees
       THEN /\ utxo' = With(Without(utxo, overlay.spent), overlay.added)
            /\ history' = Indexed(overlay)
            /\ connected' = Append(connected, [txs |-> overlay.txs, undo |-> overlay.undo])
       ELSE UNCHANGED <<utxo, history, connected>>
    /\ overlay' = <<>>

\* _disconnect_block
DisconnectBlock ==
    /\ overlay = <<>> /\ connected # <<>>
    /\ LET txs == Last(connected).txs
           created == UNION {Outpoints(txs[i]) : i \in DOMAIN txs}
       IN /\ utxo' = With(Without(utxo, created), Last(connected).undo)
          /\ history' = Unindexed(txs)
    /\ connected' = Front(connected)
    /\ UNCHANGED overlay

\* _apply_block_state, of genesis.
MoneyInit ==
    /\ utxo = [o \in Outpoints(GenesisCoinbase) |-> CoinOf(o, 0)]
    /\ history = {[to |-> Nobody, tx |-> GenesisCoinbase, height |-> 0,
                   received |-> Subsidy(0), sent |-> 0]}
    /\ connected = <<>> /\ overlay = <<>>

MoneyNext == BeginBlock \/ NextTransaction \/ ConnectBlock \/ DisconnectBlock

\* The coins and the history of one node, apart from the other rules.
MoneySpec == MoneyInit /\ [][MoneyNext]_moneyVars

-----------------------------------------------------------------------------
(* What is reported.                                                       *)

CoinsOf(a) == {o \in DOMAIN utxo : utxo[o].to = a}
Balance(a) == Worth([o \in CoinsOf(a) |-> utxo[o]])
TotalSupply == Worth(utxo)
AddressHistory(a) == {r \in history : r.to = a}

-----------------------------------------------------------------------------
(* Properties.                                                             *)

\* What the history of an address says is what its coins are worth, and all
\* coins together are worth no more than the subsidies so far, and a coin has
\* the age it had, whatever is spent within a block and whatever is
\* disconnected (_connect_block, _index_block, _disconnect_block).  The node
\* keeps its bodies: prune_to deletes the history of what it prunes.
BooksBalance ==
    utxo # <<>> =>
        /\ \A a \in Address \cup {Nobody} :
            Balance(a) = SumFunction([r \in AddressHistory(a) |-> r.received - r.sent])
        /\ TotalSupply <= SumFunction([h \in 0..Len(connected) |-> Subsidy(h)])
        /\ \A h \in DOMAIN connected : \A i \in DOMAIN connected[h].txs :
             \A o \in Outpoints(connected[h].txs[i]) \cap DOMAIN utxo : utxo[o] = CoinOf(o, h)
=============================================================================
