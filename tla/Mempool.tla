------------------------------ MODULE Mempool ------------------------------
(***************************************************************************)
(* The pool of unconfirmed transactions (src/scarletcoin/core/mempool.py)  *)
(* beside a chain that reorganises.                                        *)
(*                                                                         *)
(* The chain is what the pool sees of it: a tree of valid blocks, the      *)
(* committed tip (Storage), the published tip (Blockchain._tip), and the   *)
(* notifications _notify has yet to deliver.  A switch commits, publishes  *)
(* and notifies while it holds the chain lock; add() holds the pool's lock *)
(* only, and reads the chain several times.                                *)
(*                                                                         *)
(* A transaction is a model value for its txid.  The txid does not cover   *)
(* the witnesses, so a transaction arrives as a txid together with whether *)
(* its witnesses are good.                                                 *)
(***************************************************************************)
EXTENDS Integers, FiniteSets, Sequences, SequencesExt, FiniteSetsExt, Functions

CONSTANTS
    Tx,             \* txids that may be offered
    NoTx,
    Coin,           \* outpoints
    Inputs,         \* the outpoints a transaction spends
    Outputs,        \* the outpoints it creates
    Fee,            \* what it pays if its inputs exist
    Size,           \* its size in bytes
    LockTime,       \* transaction.lock_time
    Replaceable,    \* transactions that signal replace-by-fee
    Malformed,      \* not sane, a coinbase, too large, or spending too much
    Block,          \* the blocks the chain may ever contain, all valid
    Genesis,
    Parent,
    Work,           \* chainwork of a block
    BlockTxs,       \* its transactions after the coinbase, in order
    Reward,         \* the outpoints of its coinbase
    MatureAt,       \* first height at which an outpoint may be spent
    MinRelayFeePerKb,
    MaxBytes,       \* Mempool.max_bytes
    MaxVerified     \* MAX_VERIFIED_CACHE

ASSUME TxAssumption ==
    /\ NoTx \notin Tx
    /\ Inputs \in [Tx -> SUBSET Coin] /\ Outputs \in [Tx -> SUBSET Coin]
    /\ Fee \in [Tx -> Nat] /\ Size \in [Tx -> Nat \ {0}]
    /\ LockTime \in [Tx -> Nat]
    /\ Replaceable \in SUBSET Tx /\ Malformed \in SUBSET Tx
    /\ MatureAt \in [Coin -> Nat]
    /\ MinRelayFeePerKb \in Nat /\ MaxBytes \in Nat /\ MaxVerified \in Nat \ {0}

ASSUME TreeAssumption ==
    /\ Genesis \in Block
    /\ Parent \in [Block \ {Genesis} -> Block]
    /\ Work \in [Block -> Nat]
    /\ BlockTxs \in [Block -> Seq(Tx)] /\ Reward \in [Block -> SUBSET Coin]

VARIABLES
    active,     \* the committed tip: what get_coin and get_transaction read
    tip,        \* Blockchain._tip: what chain.height reads
    notices,    \* notifications of the switch in progress, oldest first
    pool,       \* the pool's dictionaries, lists and counters
    job,        \* what the holder of the pool's lock is doing
    answer,     \* what the last add() told its caller
    owed        \* transactions of the blocks the last switch disconnected

vars == <<active, tip, notices, pool, job, answer, owed>>

----------------------------------------------------------------------------
(***************************************************************************)
(* The chain.                                                              *)
(***************************************************************************)

\* The branch that ends in b, oldest block first.
Path[b \in Block] ==
    IF b = Genesis THEN <<b>> ELSE Append(Path[Parent[b]], b)

\* Every block has a finite branch, and chainwork grows along it.
ASSUME BranchAssumption ==
    \A b \in Block :
        /\ Path[b] \in Seq(Block) /\ Path[b] # <<>> /\ Path[b][Len(Path[b])] = b
        /\ \A i \in 1..Len(Path[b]) : Work[Path[b][i]] <= Work[b]

HeightOf(b) == Len(Path[b]) - 1

MinedIn(b) == {BlockTxs[b][i] : i \in 1..Len(BlockTxs[b])}

Confirmed[b \in Block] ==
    IF b = Genesis THEN MinedIn(b) ELSE Confirmed[Parent[b]] \cup MinedIn(b)

Utxo[b \in Block] ==
    ((IF b = Genesis THEN {} ELSE Utxo[Parent[b]])
       \cup Reward[b] \cup UNION {Outputs[t] : t \in MinedIn(b)})
    \ UNION {Inputs[t] : t \in MinedIn(b)}

\* The items of q at the positions I, in order.
ItemsAt(q, I) ==
    LET place(i) == Cardinality({j \in I : j <= i})
    IN  [k \in 1..Cardinality(I) |-> q[CHOOSE i \in I : place(i) = k]]

\* Blocks of the branch of b that are not on the branch of c, oldest first.
Beyond(b, c) ==
    ItemsAt(Path[b], {i \in 1..Len(Path[b]) : \A j \in 1..Len(Path[c]) : Path[c][j] # Path[b][i]})

\* What _switch_to(c) reports from b: the old blocks from the tip down, then
\* the new ones from the fork up.
Notices(b, c) ==
    [i \in 1..Len(Beyond(b, c)) |->
        [kind |-> "disconnect", block |-> Reverse(Beyond(b, c))[i]]]
    \o [i \in 1..Len(Beyond(c, b)) |->
        [kind |-> "connect", block |-> Beyond(c, b)[i]]]

----------------------------------------------------------------------------
(***************************************************************************)
(* Operations on the pool's data.                                          *)
(***************************************************************************)

\* clear(): the pool forgets everything but the signatures it has checked.
\* `forged' are pooled transactions whose witnesses are wrong.
Cleared(verified) ==
    [txs |-> {}, order |-> <<>>, spentBy |-> [c \in Coin |-> NoTx],
     bytes |-> 0, verified |-> verified, forged |-> {}]

TotalSize(S) == SumFunctionOnSet(Size, S)

\* Mutant: the spend index keeps the inputs of what has left.
WithoutUnindexed(p, S) ==
    [p EXCEPT !.txs = @ \ S,
              !.order = ItemsAt(@, {i \in 1..Len(@) : @[i] \notin S}),
              !.bytes = @ - TotalSize(S \cap p.txs),
              !.forged = @ \ S]

\* The pool after the transactions S have left it.
Without(p, S) ==
    [txs |-> p.txs \ S,
     order |-> ItemsAt(p.order, {i \in 1..Len(p.order) : p.order[i] \notin S}),
     spentBy |-> [c \in Coin |-> IF p.spentBy[c] \in S THEN NoTx ELSE p.spentBy[c]],
     bytes |-> p.bytes - TotalSize(S \cap p.txs),
     verified |-> p.verified,
     forged |-> p.forged \ S]

Children(p, t) == {p.spentBy[c] : c \in Outputs[t]} \ {NoTx}

\* Mutant: the descendants stay.
RemovedAlone(p, S) == S \cap p.txs

\* S and everything in the pool that spends it, directly or not (remove).
Removed(p, S) ==
    {u \in p.txs : \A D \in SUBSET p.txs :
        /\ S \cap p.txs \subseteq D
        /\ \A t \in D : Children(p, t) \cap p.txs \subseteq D
        => u \in D}

Drop(p, S) == Without(p, Removed(p, S))

\* _remember_verified and _insert.
Inserted(p, t, good) ==
    [txs |-> p.txs \cup {t}, order |-> Append(p.order, t),
     spentBy |-> [c \in Coin |-> IF c \in Inputs[t] THEN t ELSE p.spentBy[c]],
     bytes |-> p.bytes + Size[t],
     verified |-> IF Cardinality(p.verified) >= MaxVerified THEN {t}
                  ELSE p.verified \cup {t},
     forged |-> IF good THEN p.forged ELSE p.forged \cup {t}]

\* Fee rates compare as fractions; _replace_conflicts multiplies across too.
PaysMore(t, u) == Fee[t] * Size[u] > Fee[u] * Size[t]

ArrivedAfter(p, t, u) ==
    \E i, j \in 1..Len(p.order) : i > j /\ p.order[i] = t /\ p.order[j] = u

\* The order in which _evict_if_needed considers transactions.
EvictedBefore(p, t, u) ==
    PaysMore(u, t) \/ (~PaysMore(t, u) /\ ArrivedAfter(p, t, u))

\* The cheapest transactions up to t have left, with their descendants.
EvictedUpTo(p, t) ==
    Drop(p, {u \in p.txs : u = t \/ EvictedBefore(p, u, t)})

Evicted(p) ==
    IF p.bytes <= MaxBytes THEN p
    ELSE LET last == CHOOSE t \in p.txs :
                       /\ EvictedUpTo(p, t).bytes <= MaxBytes
                       /\ \A u \in p.txs : EvictedBefore(p, u, t)
                            => EvictedUpTo(p, u).bytes > MaxBytes
         IN  EvictedUpTo(p, last)

----------------------------------------------------------------------------
(***************************************************************************)
(* add().  The parts that read the chain take the tip they read, b, and    *)
(* the height they use, h.                                                 *)
(***************************************************************************)

\* Everything add() looks at before the coins.
Admissible(p, t, b, h) ==
    t \notin p.txs /\ t \notin Malformed /\ t \notin Confirmed[b] /\ LockTime[t] <= h

Conflicts(p, t) == {p.spentBy[c] : c \in Inputs[t]} \ {NoTx}

\* _PoolView.get_coin and the maturity rule of check_transaction_inputs.
CoinUsable(p, c, ignored, b, h) ==
    /\ p.spentBy[c] = NoTx \/ c \in ignored
    /\ \/ \E u \in p.txs : c \in Outputs[u]
       \/ c \in Utxo[b] /\ MatureAt[c] <= h

InputsUsable(p, t, b, h) ==
    LET ignored == IF Conflicts(p, t) = {} THEN {} ELSE Inputs[t]
    IN  \A c \in Inputs[t] : CoinUsable(p, c, ignored, b, h)

\* Mutant: a replacement need not pay more.
MayReplaceForFree(p, t) ==
    Conflicts(p, t) # {} => Conflicts(p, t) \cup {t} \subseteq Replaceable

\* _replace_conflicts, the conditions.
MayReplace(p, t) ==
    \A u \in Conflicts(p, t) : {t, u} \subseteq Replaceable /\ PaysMore(t, u)

MinimumFee(size) ==
    LET perSize == (size * MinRelayFeePerKb + 999) \div 1000
    IN  IF perSize < 1 THEN 1 ELSE perSize

\* Signatures are checked unless this txid has passed before.
Accepts(p, t, good, b, h) ==
    /\ InputsUsable(p, t, b, h)
    /\ good \/ t \in p.verified
    /\ MayReplace(p, t)

\* What add() leaves behind once the coins have been looked at.  A fee below
\* the minimum is noticed after the conflicts have been removed.
AfterAdd(p, t, good, b, h) ==
    IF ~Accepts(p, t, good, b, h) THEN p
    ELSE LET q == IF Conflicts(p, t) = {} THEN p ELSE Drop(p, Conflicts(p, t))
         IN  IF Fee[t] < MinimumFee(Size[t]) THEN q
             ELSE Evicted(Inserted(q, t, good))

AddSucceeds(p, t, good, b, h) ==
    Accepts(p, t, good, b, h) /\ Fee[t] >= MinimumFee(Size[t])

----------------------------------------------------------------------------
(***************************************************************************)
(* The state machine.                                                      *)
(***************************************************************************)

\* A transaction as it travels: its txid and whether its witnesses are good.
Wire == [tx : Tx, good : BOOLEAN]

Free == [kind |-> "free", wire |-> <<>>, height |-> 0]

Init ==
    /\ active = Genesis /\ tip = Genesis /\ notices = <<>>
    /\ pool = Cleared({}) /\ job = Free
    /\ answer = [status |-> "none", tx |-> NoTx]
    /\ owed = {}

Answer(status, t) == answer' = [status |-> status, tx |-> t]

\* add() called by a peer or the RPC server: what it checks before it reads
\* a coin, against the chain as it is now.
AddStart(w) ==
    /\ job = Free
    /\ LET h == HeightOf(tip) + 1
       IN  IF Admissible(pool, w.tx, active, h)
           THEN /\ job' = [kind |-> "add", wire |-> <<w>>, height |-> h]
                /\ Answer("none", NoTx)
           ELSE /\ Answer("refused", w.tx)
                /\ UNCHANGED job
    /\ owed' = {}
    /\ UNCHANGED <<active, tip, notices, pool>>

\* The rest of add(): the coins are read from the chain as it is by now.
AddEnd ==
    /\ job.kind = "add"
    /\ LET w == job.wire[1]
       IN  /\ pool' = AfterAdd(pool, w.tx, w.good, active, job.height)
           /\ Answer(IF AddSucceeds(pool, w.tx, w.good, active, job.height)
                     THEN "accepted" ELSE "refused", w.tx)
    /\ job' = Free
    /\ UNCHANGED <<active, tip, notices, owed>>

\* _activate_best_chain commits a switch to a branch with more work, once the
\* thread that holds the chain lock is through with the switch before, ...
SwitchTo(b) ==
    /\ notices = <<>> /\ tip = active /\ job.kind \in {"free", "add"}
    /\ Work[b] > Work[active]
    /\ active' = b /\ notices' = Notices(active, b)
    /\ owed' = UNION {MinedIn(Beyond(active, b)[i]) : i \in 1..Len(Beyond(active, b))}
                \ Confirmed[b]
    /\ UNCHANGED <<tip, pool, job, answer>>

\* ... publishes it, ...
Publish ==
    /\ tip # active /\ tip' = active
    /\ UNCHANGED <<active, notices, pool, job, answer, owed>>

\* The loop of block_connected: the block's own transactions leave alone,
\* what conflicts with them leaves with its descendants.
ConfirmAll(p, b) ==
    LET q == Without(p, MinedIn(b))
    IN  Drop(q, UNION {Conflicts(q, t) : t \in MinedIn(b)})

\* _revalidate empties the pool and offers it everything again, in order.
StartRevalidating(p) ==
    /\ pool' = IF p.txs = {} THEN p ELSE Cleared(p.verified)
    /\ job' = IF p.txs = {} THEN Free
              ELSE [kind |-> "revalidate", height |-> 0,
                    wire |-> [i \in 1..Len(p.order) |->
                        [tx |-> p.order[i], good |-> p.order[i] \notin p.forged]]]

\* ... and notifies the pool, block by block.
BlockConnected ==
    /\ tip = active /\ job = Free /\ notices # <<>>
    /\ Head(notices).kind = "connect"
    /\ notices' = Tail(notices)
    /\ StartRevalidating(ConfirmAll(pool, Head(notices).block))
    /\ UNCHANGED <<active, tip, answer, owed>>

\* Mutant: one transaction too many is taken for the coinbase.
BlockDisconnectedFromSecond ==
    /\ tip = active /\ job = Free /\ notices # <<>>
    /\ Head(notices).kind = "disconnect"
    /\ notices' = Tail(notices)
    /\ LET b == Head(notices).block
       IN  job' = [kind |-> "readd", height |-> 0,
                   wire |-> [i \in 1..(Len(BlockTxs[b]) - 1) |->
                                [tx |-> BlockTxs[b][i + 1], good |-> TRUE]]]
    /\ UNCHANGED <<active, tip, pool, answer, owed>>

BlockDisconnected ==
    /\ tip = active /\ job = Free /\ notices # <<>>
    /\ Head(notices).kind = "disconnect"
    /\ notices' = Tail(notices)
    /\ LET b == Head(notices).block
       IN  job' = [kind |-> "readd", height |-> 0,
                   wire |-> [i \in 1..Len(BlockTxs[b]) |->
                                [tx |-> BlockTxs[b][i], good |-> TRUE]]]
    /\ UNCHANGED <<active, tip, pool, answer, owed>>

\* One turn of the loop of block_disconnected or _revalidate: add(), with
\* whatever it raises ignored.
Readd ==
    /\ job.kind \in {"readd", "revalidate"} /\ job.wire # <<>>
    /\ LET w == Head(job.wire)
           h == HeightOf(tip) + 1
       IN  pool' = IF Admissible(pool, w.tx, active, h)
                   THEN AfterAdd(pool, w.tx, w.good, active, h) ELSE pool
    /\ job' = [job EXCEPT !.wire = Tail(@)]
    /\ UNCHANGED <<active, tip, notices, answer, owed>>

ReaddDone ==
    /\ job.kind = "readd" /\ job.wire = <<>>
    /\ StartRevalidating(pool)
    /\ UNCHANGED <<active, tip, notices, answer, owed>>

RevalidateDone ==
    /\ job.kind = "revalidate" /\ job.wire = <<>>
    /\ job' = Free
    /\ UNCHANGED <<active, tip, notices, pool, answer, owed>>

\* The node restarts: the pool is memory only.
Restart ==
    /\ tip' = active /\ notices' = <<>>
    /\ pool' = Cleared({}) /\ job' = Free
    /\ answer' = [status |-> "none", tx |-> NoTx] /\ owed' = {}
    /\ UNCHANGED active

Next ==
    \/ \E w \in Wire : AddStart(w)
    \/ AddEnd
    \/ \E b \in Block : SwitchTo(b)
    \/ Publish
    \/ BlockConnected \/ BlockDisconnected
    \/ Readd \/ ReaddDone \/ RevalidateDone
    \/ Restart

Spec == Init /\ [][Next]_vars

----------------------------------------------------------------------------
(***************************************************************************)
(* Properties.                                                             *)
(***************************************************************************)

\* Every notification has been handled and nobody holds the pool's lock.
Settled == tip = active /\ notices = <<>> /\ job = Free

\* The spend index names exactly the pooled transactions and their inputs,
\* so no two pooled transactions spend the same output (_insert, remove and
\* clear keep _by_txid and _spent_by in step).
SpendIndexExact ==
    \A c \in Coin : \A t \in Tx :
        pool.spentBy[c] = t <=> t \in pool.txs /\ c \in Inputs[t]

\* What a block on top of the active chain asks of t, the outputs of other
\* pooled transactions granted: not mined, final, mature unspent inputs, and
\* witnesses that are good.
CanBeMined(t) ==
    /\ t \notin Confirmed[active] /\ LockTime[t] <= HeightOf(active) + 1
    /\ \A c \in Inputs[t] :
        \/ \E u \in pool.txs : c \in Outputs[u]
        \/ c \in Utxo[active] /\ MatureAt[c] <= HeightOf(active) + 1
    /\ t \notin pool.forged

\* Once a switch has been digested, exactly the pooled transactions whose
\* witnesses are good can be mined on the active chain - even if they were
\* judged while the chain was switching (mempool.py: "keeps transactions that
\* are valid against the current chain tip but not yet mined").  The others are
\* excluded by name: add() looks at no witness under a txid that has passed
\* before, and pools a copy with wrong ones.  No transaction of the instance may
\* spend an output of one it conflicts with: add() would pool it and remove its
\* parent.
PoolIsValid ==
    Settled => \A t \in pool.txs : CanBeMined(t) <=> t \notin pool.forged

\* An add() that refuses a transaction leaves the pool as it found it, though
\* the fee is compared with the minimum after the conflicts were removed.
RefusalChangesNothing ==
    [][job.kind = "add" /\ answer'.status = "refused" => pool' = pool]_vars

\* A transaction of a disconnected block that needs nothing unconfirmed is
\* back in the pool once the switch has been digested, unless another pooled
\* transaction took its inputs meanwhile or the pool has no room for it
\* (block_disconnected: "Return a rolled-back block's transactions to the
\* pool").
StandaloneReturn ==
    Settled => \A t \in owed :
        (/\ LockTime[t] <= HeightOf(active) + 1
         /\ Fee[t] >= MinimumFee(Size[t]) /\ pool.bytes + Size[t] <= MaxBytes
         /\ \A c \in Inputs[t] : /\ c \in Utxo[active]
                                 /\ MatureAt[c] <= HeightOf(active) + 1
                                 /\ pool.spentBy[c] = NoTx)
        => t \in pool.txs

=============================================================================
