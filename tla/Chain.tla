------------------------------- MODULE Chain -------------------------------
(***************************************************************************)
(* The block tree, the active chain and its UTXO set: Blockchain.add_block *)
(* with _activate_best_chain, _switch_to and _invalidate                   *)
(* (src/scarletcoin/core/chain.py) over the SQLite store                   *)
(* (src/scarletcoin/core/storage.py).                                      *)
(*                                                                         *)
(* A block is a model value that stands for its header, and the code knows *)
(* a block by the hash of its header.  That hash does not cover everything *)
(* that comes with it: a copy with another transaction list, AuxPoW proof  *)
(* or witnesses has the same hash, so every copy has a `form'.  What the   *)
(* code decides from a whole copy and its ancestors alone is a constant of *)
(* the block; what depends on the state of the node (stored rows, coins,   *)
(* clock, remembered rejections) or on the form is computed by the actions.*)
(*                                                                         *)
(* The store is transactional: `db' is what is committed and survives a    *)
(* crash, `view' is what the one connection sees inside Storage.write().   *)
(* Every loop iteration of the code is a step, so a crash may fall between *)
(* any two of them.                                                        *)
(***************************************************************************)
EXTENDS Integers, FiniteSets, Sequences

CONSTANTS
    Block,          \* the blocks the network may ever offer
    Genesis,        \* params.genesis_block
    NoBlock,        \* "no such block"
    Parent,         \* header.prev_hash, for every block but Genesis
    BlockWork,      \* block_work(header.bits)
    Timestamp,      \* header.timestamp
    CoinbaseHeight, \* the height the coinbase claims
    Early,          \* blocks breaking a rule judged before the clock is read
    Late,           \* blocks whose AuxPoW proof is wrong, judged after the clock
    Unconnectable,  \* blocks breaking a connect rule other than missing inputs
    Alterable,      \* blocks of which altered copies go round, too
    Coin,           \* outpoints
    Creates,        \* outputs of all transactions of a block
    Spends,         \* inputs a block takes from outside itself
    Transient,      \* outputs created and spent inside the block
    Tx,             \* transaction ids
    Txs,            \* the transactions of a block
    Clock,          \* values time.time() may take
    MaxFutureTime,  \* params.max_future_time
    MaxCandidates,  \* _MAX_CANDIDATES
    MaxInvalid,     \* _MAX_REMEMBERED_INVALID
    UndoKeep,       \* UNDO_KEEP_BLOCKS
    PruneKeep       \* max(min_prune_keep, keep_blocks)

ASSUME BlockAssumption ==
    /\ Genesis \in Block
    /\ NoBlock \notin Block
    /\ Parent \in [Block \ {Genesis} -> Block]
    /\ BlockWork \in [Block -> Nat \ {0}]
    /\ Timestamp \in [Block -> Nat]
    /\ CoinbaseHeight \in [Block -> Nat]
    /\ Early \in SUBSET Block /\ Late \in SUBSET Block
    /\ Unconnectable \in SUBSET Block
    /\ Alterable \in SUBSET (Block \ {Genesis})
    /\ Genesis \notin Early \cup Late \cup Unconnectable

ASSUME CoinAssumption ==
    /\ Creates \in [Block -> SUBSET Coin]
    /\ Spends \in [Block -> SUBSET Coin]
    /\ Transient \in [Block -> SUBSET Coin]
    /\ Txs \in [Block -> SUBSET Tx]
    /\ \A b \in Block : Transient[b] \subseteq Creates[b]
    /\ \A b \in Block : Spends[b] \cap Creates[b] = {}
    /\ Spends[Genesis] = {} /\ Transient[Genesis] = {}
    /\ CoinbaseHeight[Genesis] = 0

ASSUME BoundAssumption ==
    /\ Clock \subseteq Nat
    /\ MaxFutureTime \in Nat
    /\ MaxCandidates \in Nat \ {0} /\ MaxInvalid \in Nat \ {0}
    /\ UndoKeep \in Nat \ {0} /\ PruneKeep \in Nat \ {0}

Consumed(b) == Spends[b] \cup Transient[b]

CreatedBy(S) == UNION {Creates[b] : b \in S}

ConsumedBy(S) == UNION {Consumed(b) : b \in S}

(***************************************************************************)
(* Transaction ids are hashes of what a transaction spends, and a coinbase *)
(* names its height, so a block can repeat a transaction of its own branch *)
(* only by taking again a coin that the branch has already consumed.  (In  *)
(* the block, the first repeated transaction is no coinbase; its inputs    *)
(* were consumed in the branch, hence created there, hence they come from  *)
(* outside the block.)                                                     *)
(***************************************************************************)
ASSUME TxidAssumption ==
    \A S \in SUBSET Block : \A b \in Block \ S :
        /\ \A c \in S : CoinbaseHeight[c] # CoinbaseHeight[b]
        /\ ConsumedBy(S) \subseteq CreatedBy(S)
        /\ Creates[b] \cap CreatedBy(S) # {}
        => Spends[b] \cap ConsumedBy(S) # {}

VARIABLES
    \* -- the blocks table; every row is written by one put_block transaction
    stored,     \* blocks with a row
    body,       \* stored blocks whose body has not been pruned
    height,     \* the height column
    work,       \* the chainwork column
    foreign,    \* stored blocks whose row holds a copy with wrong witnesses
    \* -- what _switch_to rewrites inside one transaction
    db,         \* committed: [inChain, utxo, undo, index, tip]
    view,       \* the same tables as the open transaction sees them
    \* -- process memory
    tip,        \* Blockchain._tip
    invalid,    \* Blockchain._invalid, oldest entry first
    told,       \* the active chain as a listener that follows _notify knows it
    clock,      \* time.time()
    result,     \* what the last add_block returned
    spoilt,     \* history: blocks of which this process took an altered copy,
                \* rejected or stored, and those an earlier one has stored
    \* -- locals of the add_block call in progress (it holds Blockchain._lock)
    pc,         \* where it is
    adding,     \* block
    cand,       \* candidate of _activate_best_chain
    walker,     \* walker in _switch_to, the fork point once the walk is over
    branch,     \* entries of _switch_to still to connect; its list order is
                \* the order of their parent links
    newTip,     \* local variable tip of _switch_to
    events,     \* notifications of the switch, oldest first
    pending     \* pending list of _invalidate

rows == <<stored, body, height, work, foreign>>
memory == <<tip, invalid, told, clock, result, spoilt>>
locals == <<adding, cand, walker, branch, newTip, events, pending>>
vars == <<stored, body, height, work, foreign, db, view, tip, invalid, told,
          clock, result, spoilt, pc, adding, cand, walker, branch, newTip,
          events, pending>>

InTransaction == {"walk", "disconnect", "connect"}

Phase == {"idle", "choose", "publish", "notify", "mark"} \cup InTransaction

Status == {"none", "connected", "side_branch", "duplicate", "orphan",
           "premature", "invalid", "raised"}

Tables == [inChain : SUBSET Block, utxo : SUBSET Coin, undo : SUBSET Block,
           index : [Tx -> Block \cup {NoBlock}], tip : Block]

Event == [kind : {"connect", "disconnect"}, block : Block]

TypeOK ==
    /\ stored \in SUBSET Block /\ body \in SUBSET stored
    /\ foreign \in SUBSET stored /\ spoilt \in SUBSET Block
    /\ height \in [Block -> Nat] /\ work \in [Block -> Nat]
    /\ db \in Tables /\ view \in Tables
    /\ tip \in Block
    /\ invalid \in Seq(Block)
    /\ told \in SUBSET Block
    /\ clock \in Clock
    /\ result \in [status : Status, block : Block \cup {NoBlock}]
    /\ pc \in Phase
    /\ adding \in Block \cup {NoBlock} /\ cand \in Block \cup {NoBlock}
    /\ walker \in Block \cup {NoBlock} /\ newTip \in Block \cup {NoBlock}
    /\ branch \in SUBSET Block /\ pending \in SUBSET Block
    /\ events \in Seq(Event)

----------------------------------------------------------------------------

Remembered == {invalid[i] : i \in 1..Len(invalid)}

(***************************************************************************)
(* _load_or_create_genesis on an empty database.                           *)
(***************************************************************************)
GenesisTables ==
    [inChain |-> {Genesis}, utxo |-> Creates[Genesis], undo |-> {Genesis},
     index |-> [t \in Tx |-> IF t \in Txs[Genesis] THEN Genesis ELSE NoBlock],
     tip |-> Genesis]

NoLocals ==
    /\ adding' = NoBlock /\ cand' = NoBlock /\ walker' = NoBlock
    /\ branch' = {} /\ newTip' = NoBlock /\ events' = <<>> /\ pending' = {}

Init ==
    /\ stored = {Genesis} /\ body = {Genesis} /\ foreign = {}
    /\ height = [b \in Block |-> 0]
    /\ work = [b \in Block |-> IF b = Genesis THEN BlockWork[b] ELSE 0]
    /\ db = GenesisTables /\ view = GenesisTables
    /\ tip = Genesis /\ invalid = <<>> /\ told = {Genesis}
    /\ clock \in Clock
    /\ result = [status |-> "none", block |-> NoBlock] /\ spoilt = {}
    /\ pc = "idle"
    /\ adding = NoBlock /\ cand = NoBlock /\ walker = NoBlock
    /\ branch = {} /\ newTip = NoBlock /\ events = <<>> /\ pending = {}

----------------------------------------------------------------------------
(***************************************************************************)
(* add_block up to put_block.  Each early return is an action.             *)
(***************************************************************************)

Return(status, b) == result' = [status |-> status, block |-> b]

AddRemembered(b) ==
    /\ pc = "idle" /\ b \in Remembered
    /\ Return("invalid", b)
    /\ UNCHANGED <<rows, db, view, tip, invalid, told, clock, spoilt,
                   pc, locals>>

AddDuplicate(b) ==
    /\ pc = "idle" /\ b \notin Remembered /\ b \in stored
    /\ Return("duplicate", b)
    /\ UNCHANGED <<rows, db, view, tip, invalid, told, clock, spoilt,
                   pc, locals>>

\* The block is new and its parent has a row: the rules can be applied.
Judgeable(b) ==
    /\ pc = "idle" /\ b \notin Remembered /\ b \notin stored
    /\ b # Genesis /\ Parent[b] \in stored

AddOrphan(b) ==
    /\ pc = "idle" /\ b \notin Remembered /\ b \notin stored
    /\ b # Genesis /\ Parent[b] \notin stored
    /\ Return("orphan", b)
    /\ UNCHANGED <<rows, db, view, tip, invalid, told, clock, spoilt,
                   pc, locals>>

(***************************************************************************)
(* The copies of a block: the whole one, and those with a transaction list *)
(* that is not the header's or without a proof they need ("list"), with    *)
(* another AuxPoW proof ("proof") or with other witnesses ("witness").     *)
(***************************************************************************)
Form == {"whole", "list", "proof", "witness"}

FormsOf(b) == IF b \in Alterable THEN Form ELSE {"whole"}

\* AuxPoW before activation, check_sanity, an invalid parent, a checkpoint,
\* and the first two rules of _check_context: difficulty and median time.
FailsBeforeClock(b, form) ==
    form = "list" \/ b \in Early \/ Parent[b] \in Remembered

Premature(b) == Timestamp[b] > clock + MaxFutureTime

\* Mutant: the height the coinbase claims is not checked.
FailsAfterClockAnyHeight(b, form) == form = "proof" \/ b \in Late

\* The coinbase height, last in _check_context, and the AuxPoW proof.
FailsAfterClock(b, form) ==
    form = "proof" \/ b \in Late \/ CoinbaseHeight[b] # height[Parent[b]] + 1

\* Whatever copy breaks the rule, the hash of the header is remembered.
AddRejected(b, form) ==
    /\ Judgeable(b)
    /\ \/ FailsBeforeClock(b, form)
       \/ ~Premature(b) /\ FailsAfterClock(b, form)
    /\ invalid' = Append(invalid, b)
    /\ spoilt' = IF form = "whole" THEN spoilt ELSE spoilt \cup {b}
    /\ Return("invalid", b)
    /\ UNCHANGED <<rows, db, view, tip, told, clock, pc, locals>>

AddPremature(b, form) ==
    /\ Judgeable(b) /\ ~FailsBeforeClock(b, form) /\ Premature(b)
    /\ Return("premature", b)
    /\ UNCHANGED <<rows, db, view, tip, invalid, told, clock, spoilt, pc, locals>>

\* put_block, in a transaction of its own.  Nothing so far has looked at the
\* witnesses: the copy that is stored is the one that will be connected.
AddStored(b, form) ==
    /\ Judgeable(b)
    /\ ~FailsBeforeClock(b, form) /\ ~Premature(b) /\ ~FailsAfterClock(b, form)
    /\ stored' = stored \cup {b} /\ body' = body \cup {b}
    /\ height' = [height EXCEPT ![b] = height[Parent[b]] + 1]
    /\ work' = [work EXCEPT ![b] = work[Parent[b]] + BlockWork[b]]
    /\ foreign' = IF form = "whole" THEN foreign ELSE foreign \cup {b}
    /\ spoilt' = IF form = "whole" THEN spoilt ELSE spoilt \cup {b}
    /\ adding' = b /\ pc' = "choose"
    /\ Return("none", NoBlock)
    /\ UNCHANGED <<db, view, tip, invalid, told, clock,
                   cand, walker, branch, newTip, events, pending>>

AddBlock(b) ==
    \/ AddRemembered(b) \/ AddDuplicate(b) \/ AddOrphan(b)
    \/ \E form \in FormsOf(b) :
          AddRejected(b, form) \/ AddPremature(b, form) \/ AddStored(b, form)

----------------------------------------------------------------------------
(***************************************************************************)
(* _activate_best_chain.  best_entries orders the rows by work and then    *)
(* height and cuts the list at MaxCandidates; rows that tie come in the    *)
(* order of their hashes, which the model leaves open.                     *)
(***************************************************************************)

RankedBefore(c, b) ==
    work[c] > work[b] \/ (work[c] = work[b] /\ height[c] > height[b])

\* Mutant: a tie in work switches too.
BestCandidateOnTie(b) ==
    /\ b \in stored /\ work[b] >= work[tip] /\ b # tip /\ b \notin Remembered
    /\ \A c \in stored : RankedBefore(c, b) => c \in Remembered
    /\ Cardinality({c \in stored : RankedBefore(c, b)}) < MaxCandidates

BestCandidate(b) ==
    /\ b \in stored /\ work[b] > work[tip] /\ b \notin Remembered
    /\ \A c \in stored : RankedBefore(c, b) => c \in Remembered
    /\ Cardinality({c \in stored : RankedBefore(c, b)}) < MaxCandidates

\* Mutant: only the block just stored is looked at.
NoCandidateButAdded == work[adding] <= work[tip] \/ adding \in Remembered

NoCandidate ==
    \A b \in stored :
        /\ work[b] > work[tip] /\ b \notin Remembered
        => Cardinality({c \in stored \ {b} : ~RankedBefore(b, c)}) >= MaxCandidates

Choose(b) ==
    /\ pc = "choose" /\ BestCandidate(b)
    /\ cand' = b /\ walker' = b /\ branch' = {} /\ pc' = "walk"
    /\ UNCHANGED <<rows, db, view, memory, adding, newTip, events, pending>>

\* The loop ends and add_block reports what became of the block.
Finish ==
    /\ pc = "choose" /\ NoCandidate
    /\ Return(IF adding \in Remembered THEN "invalid"
              ELSE IF adding \in db.inChain THEN "connected"
              ELSE "side_branch", adding)
    /\ pc' = "idle" /\ NoLocals
    /\ UNCHANGED <<rows, db, view, tip, invalid, told, clock, spoilt>>

\* Mutant: the events of a failed switch survive it.
FailKeepsEvents(b) ==
    /\ view' = db
    /\ invalid' = IF Len(invalid) >= MaxInvalid
                  THEN SubSeq(invalid, Len(invalid) - MaxInvalid + 2, Len(invalid))
                  ELSE invalid
    /\ pending' = {b} /\ pc' = "mark"
    /\ cand' = NoBlock /\ walker' = NoBlock /\ branch' = {} /\ newTip' = NoBlock
    /\ UNCHANGED <<rows, db, tip, told, clock, result, spoilt, adding, events>>

\* _ConnectError(b): ROLLBACK, and _invalidate makes room before it marks.
Fail(b) ==
    /\ view' = db
    /\ invalid' = IF Len(invalid) >= MaxInvalid
                  THEN SubSeq(invalid, Len(invalid) - MaxInvalid + 2, Len(invalid))
                  ELSE invalid
    /\ pending' = {b} /\ pc' = "mark"
    /\ cand' = NoBlock /\ walker' = NoBlock /\ branch' = {}
    /\ newTip' = NoBlock /\ events' = <<>>
    /\ UNCHANGED <<rows, db, tip, told, clock, result, spoilt, adding>>

\* One turn of the walk from the candidate to the active chain.
WalkInvalid ==
    /\ pc = "walk" /\ walker \notin view.inChain /\ walker \in Remembered
    /\ Fail(walker)

WalkBack ==
    /\ pc = "walk" /\ walker \notin view.inChain /\ walker \notin Remembered
    /\ branch' = branch \cup {walker} /\ walker' = Parent[walker]
    /\ UNCHANGED <<rows, db, view, memory, pc, adding, cand, newTip, events, pending>>

WalkDone ==
    /\ pc = "walk" /\ walker \in view.inChain
    /\ newTip' = tip /\ pc' = "disconnect"
    /\ UNCHANGED <<rows, db, view, memory, adding, cand, walker, branch, events, pending>>

\* Mutant: the block stays flagged in_chain.
DisconnectedStillInChain(v, b) ==
    [v EXCEPT !.utxo = (@ \ Creates[b]) \cup Spends[b],
              !.index = [t \in Tx |-> IF t \in Txs[b] THEN NoBlock ELSE @[t]]]

\* Mutant: the undo record also lists coins created inside the block (the
\* test `txin.prevout not in created' is dropped).
DisconnectedUndoAll(v, b) ==
    [v EXCEPT !.inChain = @ \ {b},
              !.utxo = (@ \ Creates[b]) \cup Spends[b] \cup Transient[b],
              !.index = [t \in Tx |-> IF t \in Txs[b] THEN NoBlock ELSE @[t]]]

\* The tables after _disconnect_block(b).
Disconnected(v, b) ==
    [v EXCEPT !.inChain = @ \ {b},
              !.utxo = (@ \ Creates[b]) \cup Spends[b],
              !.index = [t \in Tx |-> IF t \in Txs[b] THEN NoBlock ELSE @[t]]]

DisconnectBlock ==
    /\ pc = "disconnect" /\ newTip # walker
    /\ newTip \in body /\ newTip \in view.undo
    /\ view' = Disconnected(view, newTip)
    /\ events' = Append(events, [kind |-> "disconnect", block |-> newTip])
    /\ newTip' = Parent[newTip]
    /\ UNCHANGED <<rows, db, memory, pc, adding, cand, walker, branch, pending>>

\* The body has been pruned: _ConnectError names the active block itself.
DisconnectPruned ==
    /\ pc = "disconnect" /\ newTip # walker /\ newTip \notin body
    /\ Fail(newTip)

\* get_undo raises StorageError, which nothing catches: the transaction is
\* rolled back and the exception leaves add_block.
DisconnectRaises ==
    /\ pc = "disconnect" /\ newTip # walker
    /\ newTip \in body /\ newTip \notin view.undo
    /\ view' = db
    /\ Return("raised", adding)
    /\ pc' = "idle" /\ NoLocals
    /\ UNCHANGED <<rows, db, tip, invalid, told, clock, spoilt>>

DisconnectDone ==
    /\ pc = "disconnect" /\ newTip = walker
    /\ pc' = "connect"
    /\ UNCHANGED <<rows, db, view, memory, locals>>

\* The tables after _connect_block(b): its coins, its undo record, its index
\* entries, and prune_undo_at_height(height - UNDO_KEEP_BLOCKS).
Connected(v, b) ==
    [v EXCEPT !.inChain = @ \cup {b},
              !.utxo = (@ \ Spends[b]) \cup (Creates[b] \ Transient[b]),
              !.undo = (@ \cup {b}) \
                       {c \in v.inChain : height[c] = height[b] - UndoKeep},
              !.index = [t \in Tx |-> IF t \in Txs[b] THEN b ELSE @[t]]]

\* Mutant: inputs are not looked up in the UTXO set.
ConnectsUnseen(b) == b \notin Unconnectable \cup foreign

\* Mutant: only missing inputs are noticed.
ConnectsLax(b) == Spends[b] \subseteq view.utxo

\* Every rule of _connect_block, the witnesses of the stored copy included.
Connects(b) ==
    b \notin Unconnectable \cup foreign /\ Spends[b] \subseteq view.utxo

NextOnBranch(b) == b \in branch /\ Parent[b] = newTip

ConnectBlock(b) ==
    /\ pc = "connect" /\ NextOnBranch(b)
    /\ b \in body /\ Connects(b)
    /\ view' = Connected(view, b)
    /\ events' = Append(events, [kind |-> "connect", block |-> b])
    /\ newTip' = b /\ branch' = branch \ {b}
    /\ UNCHANGED <<rows, db, memory, pc, adding, cand, walker, pending>>

\* Mutant: the parent takes the blame.
ConnectFailsParent(b) ==
    /\ pc = "connect" /\ NextOnBranch(b)
    /\ b \notin body \/ ~Connects(b)
    /\ Fail(newTip)

ConnectFails(b) ==
    /\ pc = "connect" /\ NextOnBranch(b)
    /\ b \notin body \/ ~Connects(b)
    /\ Fail(b)

\* set_tip and COMMIT; another thread may run before _tip is assigned.
Commit ==
    /\ pc = "connect" /\ branch = {}
    /\ view' = [view EXCEPT !.tip = newTip]
    /\ db' = [view EXCEPT !.tip = newTip]
    /\ pc' = "publish"
    /\ UNCHANGED <<rows, memory, locals>>

Publish ==
    /\ pc = "publish"
    /\ tip' = newTip /\ pc' = "notify"
    /\ cand' = NoBlock /\ walker' = NoBlock /\ newTip' = NoBlock
    /\ UNCHANGED <<rows, db, view, invalid, told, clock, result, spoilt, adding,
                   branch, events, pending>>

Notify ==
    /\ pc = "notify" /\ events # <<>>
    /\ LET e == Head(events)
       IN  told' = IF e.kind = "connect" THEN told \cup {e.block}
                                         ELSE told \ {e.block}
    /\ events' = Tail(events)
    /\ UNCHANGED <<rows, db, view, tip, invalid, clock, result, spoilt, pc,
                   adding, cand, walker, branch, newTip, pending>>

NotifyDone ==
    /\ pc = "notify" /\ events = <<>>
    /\ pc' = "choose"
    /\ UNCHANGED <<rows, db, view, memory, locals>>

\* Mutant: _invalidate forgets the descendants.
NoChildren(b) == {}

\* One turn of the loop of _invalidate; siblings come in hash order, left open.
ChildrenOf(b) == {c \in stored \ {Genesis} : Parent[c] = b}

Mark(b) ==
    /\ pc = "mark" /\ b \in pending /\ b \notin Remembered
    /\ invalid' = Append(invalid, b)
    /\ pending' = (pending \ {b}) \cup ChildrenOf(b)
    /\ UNCHANGED <<rows, db, view, tip, told, clock, result, spoilt, pc, adding,
                   cand, walker, branch, newTip, events>>

MarkKnown(b) ==
    /\ pc = "mark" /\ b \in pending /\ b \in Remembered
    /\ pending' = pending \ {b}
    /\ UNCHANGED <<rows, db, view, memory, pc, adding, cand, walker, branch,
                   newTip, events>>

MarkDone ==
    /\ pc = "mark" /\ pending = {}
    /\ pc' = "choose"
    /\ UNCHANGED <<rows, db, view, memory, locals>>

----------------------------------------------------------------------------

\* Blockchain.prune: prune_to(horizon) takes side branches along.
Prunable ==
    {b \in body : height[b] >= 1 /\ height[b] <= height[tip] - PruneKeep}

Prune ==
    /\ pc = "idle" /\ Prunable # {}
    /\ LET dropped == UNION {Txs[b] : b \in Prunable}
           after == [db EXCEPT
                       !.undo = @ \ Prunable,
                       !.index = [t \in Tx |-> IF t \in dropped THEN NoBlock
                                                               ELSE @[t]]]
       IN  db' = after /\ view' = after
    /\ body' = body \ Prunable
    /\ UNCHANGED <<stored, height, work, foreign, memory, pc, locals>>

\* The process dies and starts again: SQLite rolls an open transaction back,
\* _load_or_create_genesis reads the tip, nothing is activated.
Restart ==
    /\ view' = db /\ tip' = db.tip /\ told' = db.inChain
    /\ invalid' = <<>> /\ spoilt' = foreign
    /\ result' = [status |-> "none", block |-> NoBlock]
    /\ pc' = "idle" /\ NoLocals
    /\ UNCHANGED <<rows, db, clock>>

\* The machine's clock advances or is put right.
SetClock ==
    /\ pc = "idle" /\ clock' \in Clock \ {clock}
    /\ UNCHANGED <<rows, db, view, tip, invalid, told, result, spoilt, pc, locals>>

\* The steps of the thread inside add_block.
Activate ==
    \/ \E b \in Block : Choose(b)
    \/ Finish
    \/ WalkInvalid \/ WalkBack \/ WalkDone
    \/ DisconnectBlock \/ DisconnectPruned \/ DisconnectRaises \/ DisconnectDone
    \/ \E b \in Block : ConnectBlock(b) \/ ConnectFails(b)
    \/ Commit \/ Publish \/ Notify \/ NotifyDone
    \/ \E b \in Block : Mark(b) \/ MarkKnown(b)
    \/ MarkDone

Next ==
    \/ \E b \in Block : AddBlock(b)
    \/ Activate
    \/ Prune \/ Restart \/ SetClock

Spec == Init /\ [][Next]_vars

\* The thread inside add_block holds the chain lock and is not blocked by
\* anything the model contains, so it keeps running.
FairSpec == Spec /\ WF_vars(Activate)

----------------------------------------------------------------------------
(***************************************************************************)
(* Reference definitions: what a block's branch alone says about it.       *)
(***************************************************************************)

\* The ledger is what the store has committed.
Abstract == INSTANCE AbstractLedger WITH
    Malformed <- Early \cup Late, known <- stored, worth <- work,
    chain <- db.inChain, tip <- db.tip, coins <- db.utxo

\* The blocks that end a branch on which no block breaks a consensus rule and
\* no block has been met in an altered copy.
ValidBlocks ==
    {b \in Block : \E S \in SUBSET (Block \ (Early \cup Late \cup spoilt)) :
        Abstract!IsChain(S, b) /\ Abstract!IsValid(S)}

\* S is one path of stored blocks from Genesis to t, one block per height.
PathTo(S, t) ==
    /\ S \subseteq stored /\ Genesis \in S /\ t \in S
    /\ \A b \in S \ {Genesis} : Parent[b] \in S
    /\ \A b, c \in S : height[b] = height[c] => b = c
    /\ \A b \in S : height[b] <= height[t]

Unspent(S) == CreatedBy(S) \ ConsumedBy(S)

----------------------------------------------------------------------------
(***************************************************************************)
(* Properties.                                                             *)
(***************************************************************************)

\* At every instant, in the middle of a reorganisation and across crashes,
\* the committed in_chain flags are exactly one path from genesis to the
\* committed tip (_switch_to inside Storage.write).
ActiveChainIsPath == PathTo(db.inChain, db.tip)

\* The committed UTXO set is what the committed active chain leaves unspent:
\* _disconnect_block undoes _connect_block exactly, whatever the order of
\* reorganisations, failures and crashes.
UtxoMatchesChain == db.utxo = Unspent(db.inChain)

\* No coin is consumed by two blocks of the committed active chain, and every
\* coin consumed was created on it (_connect_block).
NoDoubleSpend ==
    /\ \A b, c \in db.inChain : b # c => Consumed(b) \cap Consumed(c) = {}
    /\ ConsumedBy(db.inChain) \subseteq CreatedBy(db.inChain)

\* When add_block reports that a block was accepted, no stored block whose
\* branch is valid has more work than the tip (_activate_best_chain: "Switch
\* to the stored chain with the most work").  A branch of which an altered
\* copy was met is excluded: the code may hold or have rejected that copy.
MostWorkIsActive ==
    pc = "idle" /\ result.status \in {"connected", "side_branch"}
        => \A b \in stored : work[b] > work[tip] => b \notin ValidBlocks

\* Only blocks of an invalid branch are remembered as invalid, so add_block
\* never answers "invalid" for a good block, whatever failed before it.  The
\* exclusion it needs is by name: a branch with a block of which an altered
\* copy came first, for _invalid and the blocks table go by the header's hash.
RejectionIsJustified == \A b \in Remembered : b \notin ValidBlocks

\* A listener that replays the notifications of _notify sees a chain at every
\* step (disconnects from the tip down, connects from the fork up), and knows
\* the active chain when add_block returns.
ListenersFollow ==
    /\ \E t \in told : PathTo(told, t)
    /\ pc \in {"idle", "choose"} => told = db.inChain

\* The committed tip moves only to a block with strictly more work: the chain
\* never regresses, not even through a crash or a failed switch.
TipWorkGrows == [][db'.tip # db.tip => work'[db'.tip] > work[db.tip]]_vars

\* Every add_block call returns: the loop of _activate_best_chain ends
\* whatever candidates fail.
AddBlockReturns == (pc # "idle") ~> (pc = "idle")

\* Reorganisations, failed switches, pruning and crashes, all of them many
\* steps, amount to a ledger that moves from one valid chain to a heavier one
\* at once, its coins with it (add_block, _activate_best_chain, _switch_to,
\* Storage.write).
ImplementsLedger == Abstract!LSpec

=============================================================================
