# ScarletCoin in TLA+

A TLA+ development of the parts of ScarletCoin whose correctness depends on the
order in which things happen, and of the rules that are easy to get wrong at a
boundary. TLC checks the modules on small instances; TLAPS proves 31 of the
39 properties the passing runs check, among them those of the block store, the
mempool, the sync, the pool, the wallet and the rules, for every value of the
constants.
`PROJECT.json` maps every definition to the lines it translates and lists runs,
mutants, findings, hazards and theorems.

Paths below are relative to the repository; `chain.py`, `storage.py`,
`mempool.py`, `template.py`, `pow.py`, `validation.py` are in
`src/scarletcoin/core/`, `node.py`, `rpc.py`, `client.py`, `launcher.py` in
`src/scarletcoin/net/`.

## 1. The system

| Component | State it keeps | Operations | What makes it correct |
|---|---|---|---|
| **Blockchain** `chain.py` | tip, remembered invalid blocks, listeners | `add_block`, `_activate_best_chain`, `_switch_to`, `_invalidate`, `prune` | the active chain is one valid path with the most work; the UTXO set is exactly its unspent outputs; listeners can replay what happened |
| **Storage** `storage.py` | SQLite tables of blocks, UTXOs, undo records, transaction index, headers; a block cache | transactional writes, undo, pruning, `get_block` | a crash at any point leaves a consistent store; the cache keeps its limits |
| **Header chain and sync** `chain.py`, `node.py` | header rows; per-peer queues of blocks to ask for and blocks asked for | `add_header`, `headers_to_download`, locators, `_on_headers`, `_queue_missing_blocks`, `_request_blocks`, stall release | blocks are asked for in order; a sync never stops while a peer can serve it |
| **Difficulty** `pow.py`, `chain.py` | none | compact targets, the three retargeting rules, along blocks and along headers | both computations agree; the target stays within its limits |
| **Value** `utxo.py`, `validation.py`, `storage.py` | coins, undo records, history of addresses | `_connect_block`, `_disconnect_block`, `_index_block`, `check_transaction_inputs` | no money is made but the subsidy; the history adds up to the coins |
| **Scripts and inputs** `validation.py`, `script.py` | a stack while a script runs | `verify_input_signature`, `evaluate_script` | an input spends a coin exactly if it shows what the script asks for |
| **Merged-mining proofs** `auxpow.py`, `pool/scarlet_pool/coinbase.py` | none | Merkle branches, commitments, `validate_auxpow` | a proof is accepted exactly if it shows the work was done for this block |
| **Mempool** `mempool.py` | entries, spend index, arrival order, byte count, verified signatures | `add` (replace-by-fee, eviction), `remove`, `block_connected`, `block_disconnected`, `_revalidate`, `collect` | what is pooled could be mined; nothing valid is lost in a reorganisation |
| **Templates** `template.py` | none | `create_block_template` | a template can be mined on the tip it names |
| **Block intake** `node.py` | orphans, deferred blocks, scores | `submit_block`, `_connect_orphans_of`, `_retry_premature` | blocks are connected whatever order they arrive in; nobody is blamed for a good block |
| **Peers, protocol, address book** `net/` | connection state, ciphers, addresses, bans | dialling, accepting, handshake, bans, gossip | two nodes of this program get along; handshakes end |
| **Stratum pool** `pool/scarlet_pool/`, **candidates** `rpc.py`, `node.py` | sessions, jobs, share target; merged-mining candidates | authorisation, job refresh, shares, `createauxblock`, `submitauxblock` | a finder is paid; shares are judged by the job they were made for; jobs follow the tip |
| **Wallet** `wallet/` | the wallet file, a copy in each process | keys, passwords, `save`, coin selection, sweeps, `broadcast` | the file stays readable; what was shown is kept; inputs pay outputs plus fee; "sent" is true |
| **Launcher, chooser** `launcher.py`, `chooser.py`, `cli_common.py` | node processes, the RPC port, `rpc.token`, `node.json` | look for, start, wait for and stop a node | whoever starts a node ends it or leaves it on purpose; no program waits for ever |
| **Miner** `miner/` | worker pool, template | nonce search, submission | mining comes back to the node's tip |
| **Desktop applications** `gui/` | windows, threads, one connection | start-up, node menu, mining, closing | the above, together |
| **Directory, explorer, websocket, crypto, tools, packaging** | | | |

How they interact. `add_block` runs under the chain lock; inside it the store is
rewritten in one SQLite transaction per switch; after the commit the tip in
memory is replaced and listeners (the mempool, the websocket hub) are called,
still under the chain lock. The mempool has its own lock and reads the chain
without the chain's. Peer threads, the RPC server's threads and the maintenance
thread call `Node.submit_block`, which calls `add_block` and then, under the
node's lock, updates the orphans and the deferred blocks. The order of locks is
chain, then mempool, then storage. A sync has no lock of its own: every peer's
reader thread rewrites the queues of all peers. The pool, the miner and the wallets are separate processes that
reach the node by RPC; programs on one machine find each other by a port and
two files; wallets share a file without a lock.

What is hard here: a crash between the two transactions of `add_block`; a branch
that fails half way through a switch; bounded caches and horizons (remembered
rejections, undo records, pruned bodies) that forget while fork choice
remembers; ids that do not cover all they name (a block's hash, a txid); a pool that reads the chain at several moments of a switch; verdicts
used after the lock they were reached under was given up; a wrong clock; queues
that are rebuilt by one thread while another walks them; two nodes that dial
each other at once; a handshake that turns encryption on in the middle; calls
that were carried out although their answer was lost; files written by two
processes; launches, stops and crashes that cross.

## 2. Modules

| Module | Models | Extended or used by |
|---|---|---|
| `AbstractLedger` | what a block chain promises: one valid chain and its coins, replaced at once by a heavier one | `Chain` (refinement) |
| `Chain` | `chain.py` fork choice over the transactional tables of `storage.py` | `MCChain`, `ChainProofs` |
| `Mempool` | `mempool.py` beside a chain that switches | `Template`, `MempoolProofs` |
| `Template` | `Mempool.collect`, `create_block_template`, composed with `Mempool` | `MCTemplate`, `MempoolProofs` |
| `BlockCache` | `Storage.get_block` and the cache part of `prune_to` | `Rules`, `StoreProofs` |
| `Intake` | `Node.submit_block`, orphans, deferred blocks, relay, blame | `MCIntake`, `IntakeProofs` |
| `Sync` | header-first download from several peers | `MCSync`, `StoreProofs` |
| `Peers` | connections, handshake, encryption, bans, address book | `MCPeers`, `NetworkProofs` |
| `Pool` | stratum sessions and jobs, the node's candidates | `MCPool`, `NetworkProofs` |
| `Keystore`, `Payment` | the wallet file; coin selection and broadcasting | `Wallet` |
| `Wallet` | processes that share a file and pay with its keys | `MCWallet`, `WalletProofs` |
| `Launcher`, `Miner` | node processes and the programs around them; the mining loop | `Desktop` |
| `Desktop` | windows and commands on one machine, one of which mines | `MCDesktop`, `DesktopProofs` |
| `Retarget`, `Script`, `AuxProof`, `Money` | targets; inputs; merged-mining proofs; value, coins and the history of addresses | `Rules`; `Retarget` and `Money` also `StoreProofs`, `Script` also `MempoolProofs`, `AuxProof` also `IntakeProofs` |
| `Rules` | one of these four and `BlockCache` per behaviour | `MCRules` |
| `FoldLemmas` | nothing of the program: what the folds and sums of the community modules compute, recursion on intervals, ranks in an order, sequences of anything | `MempoolProofs`, `WalletProofs`, `StoreProofs`, `IntakeProofs` |

### Chain and AbstractLedger

A block is a model value that stands for its header, since the code knows a block by
the hash of its header. What the code decides from a whole block and its ancestors
(work, timestamp, the height its coinbase claims, which rule it breaks) is a
constant; what depends on the node's state is computed. `Early` blocks break a
rule judged before the clock is read, `Late` ones after, `Unconnectable` ones a
rule that `_connect_block` checks (value, maturity, locks); missing or spent
inputs follow from the coins. `Consumed`, `Spends` and `Transient` split a
block's inputs into coins from outside and coins it creates itself.

The hash covers neither the transaction list that comes with a header nor its
AuxPoW proof nor its witnesses, so a block arrives in a `Form`: whole, or, if it is
`Alterable`, as a copy that fails `check_sanity` (`list`), the AuxPoW check
(`proof`) or, once stored, the connection (`witness`). Whatever the copy, it is the
hash that is remembered (`invalid`) or has the row (`stored`, `foreign` if the row
holds a copy with wrong witnesses). `spoilt` is a history variable: the blocks of which an altered
copy was taken.

`db` is what is committed, `view` what the open transaction sees. Every iteration
of the loops in `_switch_to`, `_invalidate` and `_notify` is a step, and `Restart`
is enabled between any two of them: it rolls the view back, empties the
memory and activates nothing, as `_load_or_create_genesis` does. `told` is the
chain as a listener knows it that replays `_notify`. `Prune` is the maintenance
thread's `prune` and `SetClock` the operator's or NTP's. One call of
`add_block` runs at a time because it holds the chain lock.

`AbstractLedger` has two steps: a block is learnt, or the chain, its tip and its
coins become those of another valid chain with more work. The refinement mapping
(`Abstract`) reads the ledger off the committed tables; candidates, walks,
uncommitted views, pruning, restarts, marks and notifications are stuttering
steps. Validity is stated there from the blocks alone, without undo records or
an order of connection.

### Mempool and Template

A transaction is a model value for its txid; because the txid does not cover the
witnesses, it arrives (`Wire`) with a flag saying whether they are good. The chain is
a tree of valid blocks with a committed tip, a published tip and the
notifications still to be delivered. `AddStart` takes the lock and reads the
index and the height, `AddEnd` reads the coins and finishes the call: between
them the chain may commit, publish or both. `Cleared`, `Without`, `Removed`,
`Inserted`, `Evicted` are the data operations of the pool. A block's
disconnection and the final revalidation re-add transactions one at a time
(`Readd`). `Template` adds the thread of `getblocktemplate`: it reads the tip, then
waits for the pool's lock and collects.

### BlockCache

`get_block` gives the storage lock up between a miss and the insertion, so any
number of threads can parse the same block, and a block can be pruned while it
is parsed. `Hit`, `Miss`, `MissPruned` and `Remember` are the critical sections.
It needs no other component, so `Rules` runs it.

### Intake

`add_block` is one step here; `Verdict` says what it answers. A thread is idle, has
a verdict (`judged`), connects orphans (`connect`), or, for the maintenance
thread, retries (`retry`, `retried`). Everything between two critical sections is
a step boundary. What arrives, waits as an orphan or is deferred is a copy in a `Form`, as in
Chain: `Bad` blocks and `list` copies fail before the clock is read, `proof` copies before the block is
stored, `witness` copies after (`Puts`); the chain then refuses the hash, and `spoilt` remembers that
it was for an altered copy. Whole blocks that fail later are Chain's subject. A peer's thread whose score reaches the threshold is
closed for good. The periodic conditions of the maintenance loop (two seconds
here, a minute there) are left to nondeterminism: the loop may do each of its
duties at any time.

### Sync

The peers are on one chain, so a block is its height. Each reader thread handles
one message at a time; building the queues, looking at the head of a queue,
popping it and sending the request are steps of their own, since
`_queue_missing_blocks` and `_request_blocks` run in every reader without a lock
and write each other's queues. `disturbed` remembers which mishaps a behaviour
has met (a stalled request, a connection that ended, a peer that has pruned, a
list of headers cut at the limit, a popped block that is not the one looked at,
an exception in a reader): the properties name the ones they exclude.

### Peers

Several nodes run the program; a `Stranger` sends `version`, `verack` or anything else
(`ping` stands for all that a node answers or ignores without a handshake) as often as
it likes, in the clear or not. A connection has two ends, each with a reader, and two streams whose
messages carry whether they were encrypted; an end that reads what it does not
expect acts as `_handle_message` does, up to the ban. `Ping` is the maintenance loop's, which
asks only whether a connection has been silent: between two nodes of this program it may come
before the handshake is complete, and the node that reads it then bans the sender
(`IsEarly`; the ban is recorded apart from the other violations). `OnRefusal` is the score for
a transaction or block that was refused. The address book and the bans
are per node. Message bytes and the order in which addresses are tried are
left out; a connection to a stranger that says nothing more times out.

### Pool

A task of the asyncio loop runs from one `await` to the next; a call to the node
blocks the loop, and the node moves on meanwhile. A session's job, what the
miner was last told (`known`), the manager's latest target and the node's
candidates are separate, because they are renewed at different moments. The
target of a job gets easier as time passes on the same tip, as the
retargeting rule makes it. `landed` are the blocks the chain took, `accepted`
what the pool counts.

### Keystore, Payment and Wallet

A process is a command, which reads the file, does one thing and ends, or a
window, which keeps the document it read. `save` opens, writes and renames the
temporary file in three steps, any of which may be the last. `Payment` has the
real arithmetic of fees, change, dust and sweeps; the node accepts or refuses,
the answer may be lost, the call may be repeated by `call()`, and `broadcast()`
looks for the transaction before it gives up. The node may forget a transaction (`Forget`:
evicted, or lost in a restart); `taken` is the history of what its pool ever took. A replacement cannot
push one out, because the wallet's transactions do not signal that they may be replaced, and a
reorganisation that returns mined ones to the pool is Mempool's subject. `raced` names the collisions of
two writers the properties exclude.

### Launcher, Miner and Desktop

A node process is starting, serving, hanging, stopping or gone. A program probes
the port, reads `rpc.token`, starts a process, waits for it and owns it or not;
a public node may answer instead. A window stops the node it started, a command
leaves it; a window that cannot write `rpc.token` after it has started a node (`WriteTokenFails`) ends with
an exception and leaves it too. `Miner` is the loop of `Miner.run`: fetch, scan in rounds, submit,
with workers that crash; the idle wait that keeps a capped miner (`max_rate`) to its rate
is part of a round. `Desktop` gives the miner the connection its window had when mining began,
and lets the user change nodes, close and swap windows at any time.

### Rules

`Retarget` builds chains block by block with the timestamps of `Steps`; base and
width of compact targets are parameters, so that sign bit and lost precision
occur with small numbers, and what a digit is worth is a function (`Weight`). `Script` steps through a redeem script instruction by
instruction. `AuxProof` builds Merkle trees as terms, so that a hash is
injective, level by level as the code does, and offers the proofs the pool builds and those of any other miner, who
places the block anywhere, states any size and indices, and may send a branch with a node replaced, cut short or too long
(`Distorted`) or a first transaction that is no coinbase; sizes have `SizeBits` bits (32). `Money` connects and disconnects blocks transaction by transaction through
the overlay of `_connect_block`; the transactions are any that spend one or two
coins the node has, has just made or has just spent. None of these needs another component, hence one composition and one run. Its second
run, `MCRules_p2sh`, is for one property the code does not have.

## 3. Runs

| Run | Result | Shows |
|---|---|---|
| `MCChain` | pass | ten blocks and altered copies of one offered in any order, crashes anywhere, room for three rejections: one path with the most work, exact UTXO set, justified rejections, listeners in step, every call returns, and the whole implements `AbstractLedger` |
| `MCChain_pruned` | pass | with pruning, an undo horizon of one block and room for three rejections the committed ledger still moves only at once, to a valid chain with more work, though switches fail |
| `MCChain_prune_livelock` | violation | a heavier branch below the horizon makes `_activate_best_chain` loop for ever |
| `MCTemplate` | pass | pool, spend index, replacement, overflow, wrong witnesses and reorganisations with `add` and a template thread in the middle of a switch |
| `MCIntake` | pass | blame, orphans, deferred blocks and altered copies with three kinds of threads |
| `MCSync` | pass | two readers that rebuild each other's queues; headers in pieces, a stalled request, a connection that ends, a pruned peer, an announcement during the sync |
| `MCPeers` | pass | two nodes that dial each other and, one of them, itself, with pings at any time; a node and a stranger that need not stop talking |
| `MCPool` | pass | two miners with an address each, with the same one, and one that changes its address while the node fails |
| `MCWallet` | pass | overlapping and interrupted saves of a new and of a legacy wallet; payments and a sweep that want the same coins over a network that drops answers, with a node that forgets |
| `MCDesktop` | pass | two windows that both start a node; a window and a command; a node run and stopped by hand; a window that mines |
| `MCRules` | pass | chains of three networks, inputs with up to three arguments, proofs with up to four other transactions and four auxiliary chains, blocks of payments connected and disconnected; and the block cache under three threads, two limits and pruning |
| `MCRules_p2sh` | violation | an input spends a P2SH coin with a script whose hash is not the coin's |

### The properties

* **Chain.** `ActiveChainIsPath`, `UtxoMatchesChain` and `NoDoubleSpend` are about
  the committed tables at *every* step, so they cover what a crash leaves.
  `MostWorkIsActive` is claimed when a call has accepted a block: after a crash
  between the two transactions of `add_block` a heavier block may be stored and
  not active, and the next accepted block repairs that. `RejectionIsJustified` uses
  `ValidBlocks`, a reference definition that looks at branches alone. Both except, by name, a branch
  with a block of which an altered copy was taken (`spoilt`): for those the code does remember a good
  block as invalid, or keeps the wrong copy in its place (section 4).
  `TipWorkGrows` is an action property, `AddBlockReturns` a liveness property,
  `ImplementsLedger` the refinement.
* **Mempool and Template.** `PoolIsValid` and `StandaloneReturn` hold once a switch has been
  digested (`Settled`); `SpendIndexExact` and `RefusalChangesNothing` always. A transaction may be pooled
  with wrong witnesses (`forged`, section 4); `PoolIsValid` says that exactly the others can be mined.
  `TemplateConnects`: if the pool had digested the tip a template names when it was collected, what it
  contains can be mined in its order on that tip exactly if it took none of those.
* **Intake.** `BlamelessPeers`: a peer's score rises only for a bad block, or one on a branch of
  which an altered copy was found invalid before (`Tainted`; the code goes by the hash, section 4).
  `OrphansWait` says why an orphan may leave. `DeferredReturn`: a deferred block is kept
  while it has to wait, and judged once the clock allows it.
* **Sync.** `InOrder` is the comment of `_queue_missing_blocks` ("can never arrive before its
  parent"). It is a claim about peers that have every body and announce at most the last
  block during the sync: a peer that has pruned sends the blocks it has first. `SyncCompletes`: a stalled request alone never keeps the node from
  catching up.
* **Peers.** `OnlyEarlyPingsViolate`, `HandshakeAgreed`, `HandshakeSettles`: whatever the order
  of dialling, one node of this program never does anything that looks hostile to another but to ping it
  before the handshake is complete, which is excluded by name because it does happen (section 4); both ends agree about
  the switch to encryption; and no end waits for ever unless a stranger talks to it for ever.
* **Pool.** `PaidItsOwn`, `MinerIsInformed`, `BlockShareCounts` relate what the session,
  the miner, the manager and the node believe, `JobsFollowTip` is liveness.
* **Wallet.** `FileStaysWhole` and `ToldIsTrue` exclude exactly the races section 4 describes.
  `SelectionIsRight` compares coin selection with all sets of coins; sweeps spend every coin they can, once.
  `SentMeansAccepted`: no payment is reported as sent that the node has not taken, whatever it has
  forgotten since. The converse is false (section 4).
* **Desktop.** `OwnedNodeEnds`: no window leaves a node behind, unless it is killed or dies of an error in `write_rpc_token`. `LaunchSettles` and
  `MiningFollowsTip` are liveness.
* **Rules.** `HeaderAndBlockAgree`, `TargetStaysInBounds`, `ScriptIsExact`, `ProofIsExact`
  compare the code's computation with what it is for, stated independently:
  representable targets, counting of signatures in order, positions in trees and their branches. A script is
  satisfied only if the stack has room for its keys (`HasRoom`, section 4). `ScriptIsExact` is about the script
  an input reveals; that it is the one the coin asks for is `RedeemScriptIsCommitted`, which the code does not have.
  `BooksBalance`: the history of an address adds up to its coins, all coins are worth no more
  than the subsidies, and a coin that comes back in a reorganisation has the age it had. It is about a node that keeps
  its bodies: pruning deletes the history rows of what it prunes (`storage.py:913`). `CacheIsSound`: the block cache keeps
  its limits and never pops from an empty cache.

The only type invariant is Chain's, which is proved rather than checked.

### Bounds and why they suffice

* `MCChain`: two branches that take the lead from each other twice, one with a
  double spend in its head, so that a switch fails after three
  disconnections and two connections; a block that can come altered below the head of the other, so that the mark must reach the blocks above; a block that claims another
  height; two clock values. Three rejections are remembered and four blocks can be rejected, so the cache forgets; the bounds on
  horizons do not bind.
* `MCChain_pruned`: `PruneKeep` and `UndoKeep` of one let a
  switch begin and fail in the middle; three remembered rejections against seven
  blocks that can be rejected make the cache forget.
* `MCTemplate`: a branch that confirms a parent and its child in different
  blocks, a longer one that confirms neither, two replaceable double spends and a
  dependent of one, an immature coin, a lock time, a fee below the minimum, and
  sizes such that three transactions fill the pool and two a block. No transaction spends an output of one it
  conflicts with (section 4).
* `MCIntake`: one orphan and one deferred block fit, so the second displaces
  the first; both times are zero, so one tick expires everything; 100 points are two bad blocks; the copies of one block with two
  others above it are of the two kinds that are found out before and after it is stored.
* `MCSync`: three blocks against two headers a message and two blocks in flight per
  peer, so that lists are cut, runs are split between peers and every queue is rebuilt while it is in use.
* `MCPeers`: two connections at once, one inbound and one outbound place, so that
  duplicates, self-connections and a full node meet.
* `MCPool`: two tips and two times; the second tip is harder than the first and
  time makes both easier, so the share target moves both ways; three candidates.
* `MCWallet`: three saves and three derivation indices; coins of three values around the fee
  of one, two and three inputs; counts of two and more take three bytes, as 253 and more do; two attempts and two looks.
* `MCDesktop`: two processes, three programs, two blocks, two rounds of nonces.
* `MCRules`: base 4 and six digits instead of 256 and 32; five blocks against
  intervals of two and three, and forks at heights two and four; three keys with a repeated
  one, and a stack of seven, so that its limit binds; nonces that reach every slot of a tree of four and sizes of three bits; three blocks with two payments each, across a halving, with
  coins spent in the block that creates them, fees that are claimed, and a lock time. For the cache three threads, so that one evicts while two
  others parse the same block, and three blocks of different sizes, so that each limit binds alone.
* Several runs look at a set of situations (`Settings`), one of which is chosen
  in the initial state: each limits what happens together, not in which order.

### Fairness

`AddBlockReturns` assumes weak fairness of `Activate`: the thread inside
`add_block` holds the only lock it needs besides the storage lock, which nobody
keeps. `Intake` assumes it for each thread that has begun a call and for the
maintenance thread, which a timer wakes. `Sync` assumes it for each reader, for
reconnecting and for polling, which the maintenance loop does, and for the answers of a peer whose
connection stands; a request that stalls is one of the faults. `Peers`: for the
readers, the accept loop and the maintenance loop. `Pool`: for the tasks of the
event loop, which asyncio serves in turn, and the node's threads. `Desktop`: for
the programs and the mining thread; expiry of a template is a matter of time. No fairness is assumed
of strangers, users, miners, callers of the RPC, the clock, pruning, crashes, restarts or
a node that hangs. Every fairness condition is weak.

## 4. Disagreements between code and documentation

The two violations above are listed under `findings` with the lines they quote. The keep of
`MCChain_prune_livelock` is regtest's (`chain.py:1062`); on mainnet, where it is 2880, the branch has to fork that deep.
The rest was observed while modelling; the models keep the code's behaviour, and the
properties are stated so that they exclude exactly these cases.

**Chain and storage**

* A block is known by the hash of its header (`block.py:182`), which covers neither the transaction list it is sent with,
  nor its AuxPoW proof, nor its witnesses (txids and hence the Merkle root leave them out). A copy that differs in one of them and fails
  makes `add_block` remember the hash (`chain.py:689`, `:715`, `:756`, `:880`), and the whole block is then answered INVALID until
  the process ends or the cache forgets; one with wrong witnesses is stored first, so that afterwards the whole block is a
  duplicate. A peer that sends the whole block meanwhile is charged 50 points (`node.py:970`), two such blocks are a ban.
* The bounded cache of rejections can forget a failed candidate while
  `_activate_best_chain` still considers it, since `_invalidate` does not descend
  below blocks it already knows; with enough rejected blocks the loop repeats.
* `best_entries` considers 64 rows at most: as many rejected blocks with more work hide a valid
  chain behind them (`MaxCandidates`; no run makes it bind).
* Undo records are dropped by height (`UNDO_KEEP_BLOCKS`, whose comment says that
  such blocks can never be reorganised away) while branches are chosen by work:
  `get_undo` raises `StorageError`, which leaves `add_block` although it promises
  to report. `DisconnectRaises` models it.
* `prune_to` takes the transactions of a pruned side-branch block out of the
  index even if a kept active block confirms them too.
* Two threads that miss the same block add its size twice to the cache's byte
  count, and a block pruned between miss and insertion returns to the cache.
  `CacheIsSound` shows that neither breaks the limits.

**Mempool, templates, intake**

* A replacement that spends an output of what it replaces is pooled without its
  parent (`mempool.py:234`, against the docstring at `:3`).
* A child that is still valid is lost when its parent returns to the pool after
  a reorganisation (`mempool.py:378`, against `docs/PROTOCOL.md:306`).
* The cache of verified transactions is keyed by txid, which does not cover witnesses
  (`mempool.py:219`, against `:39`): a copy with wrong witnesses of a transaction that has passed before is pooled, `collect` takes
  it into a template, and the mined block fails to connect.
* The mempool's docstring says there is no replace-by-fee; the code and
  `docs/PROTOCOL.md` have it.
* A template built between the assignment of the tip and the notification of the pool names
  a tip its transactions may not fit (`template.py:123`, against `:121`).
* An orphan can be remembered after its parent was stored and its orphans were
  connected (`node.py:1055`), and an orphan that is ahead of the clock when its
  parent arrives is dropped, not deferred (`ConnectChild`).

**Sync**

* `_request_blocks` looks at the head of a queue and pops it later; a reader that
  replaces the queue in between makes it pop another block, which is then not asked
  for until the queues are built again (`node.py:771`); if the queue is empty by then, the exception closes
  an innocent peer's connection.
* Stalled requests are released only when something else builds the queues, not by time
  (`node.py:929`, against the comment at `:913`).
* `headers_to_download` lists the newest 2000 hashes: a node further behind is given
  blocks whose parents it lacks.
* A pruned peer's `notfound` leaves its queue blocked.
* Sending to a closed peer inside another reader's `_request_blocks` ends that reader's own connection.

**Peers**

* Two nodes that dial each other at once may both keep or both drop both connections.
* `_check_reconnect_ban` replaces a ban of a day by a shorter one; a ban closes one
  connection only; bans are not persisted; misbehaviour costs a day (`node.py:84`), where the documentation says an hour
  (`docs/PROTOCOL.md:397`, `docs/RUNNING-A-NETWORK.md:672`).
* `mark_failure` and `mark_success` put the address of a banned host back; it is not
  dialled, since every dial asks `is_banned`.
* A connection that has been silent for a minute is pinged even if its handshake is not complete (`node.py:1261`); the other
  side takes that for a violation and bans the sender, a node of the same program, for a day.
* After `version` any message counts as a sign of life (`peer.py:179`) and none but `verack` completes the handshake: a peer that goes on
  sending keeps a connection open that never completes.
* A node that is full does not recognise itself.

**Pool**

* A pinned `--share-difficulty` that is harder than the block target turns away shares worth a block.
* Storing a candidate evicts one even when it only replaces an entry.
* `--allow-pool-payout` has no effect: no payout address is passed on.
* A failure of the node during authorisation ends the miner's connection.

**Wallet**

* `call()` repeats `sendrawtransaction` after a dropped connection; the node
  refuses the repetition, and a payment that was sent is reported as failed
  (`client.py:229`, against the docstring at `:211`). The desktop wallet calls it
  directly and looks nowhere; when one transaction of a sweep fails it forgets the earlier ones.
* Two processes on one wallet file: the older copy, saved later, undoes the other's keys, addresses and
  password; two saves at once share `wallet.json.tmp` and may leave a
  file that cannot be read, though the docstring calls it atomic.
* Restoring lists the first address only; encrypted wallets of version 1 cannot be opened.

**Launcher, miner, desktop**

* `_prune_now` asks for a running node without the token, does not see one that
  needs it, and prunes a database in use.
* The RPC call `stop` ends the node in a daemon thread: the process may exit before the address book
  is saved and the store closed. The port is free before the node's threads have ended, and `Node` opens the
  chain before the port is bound.
* `write_rpc_token` is called after the node's process was started (`launcher.py:173`) and may raise an `OSError` that
  `start_node_with_progress` does not catch: the window ends and the node stays.
* Of two launches at once the second overwrites `rpc.token` of the node that
  serves; a launch answered by another public node leaves a window owning a process that has ended.
* `_swap` stops the node the new window's client may be pointed at; an address typed
  into `_ask_which_node` is taken without trying it; the error of `wait_until_ready` is not
  caught by `_start_local`.
* The miner counts a block on a side branch as accepted; after a crash of its workers it keeps the terminated pool, and
  the nonces of that round are skipped. Closing the window waits three seconds for the mining thread.

**Rules**

* Any script spends a P2SH coin: `_verify_p2sh` (`validation.py:58`) runs the script the input reveals and never compares it with the
  hash in the coin, against `docs/PROTOCOL.md:287`. This is the finding of `MCRules_p2sh`.
* `evaluate_script` promises `False` for every bad stack operation; `OP_DUP` on an empty stack raises.
* `multisig_redeem` makes scripts with up to `MAX_PUBKEYS` (15) keys (`script.py:47`), but signatures,
  keys and both counts of an m-of-n script must fit in `MAX_STACK_ITEMS` (20, `:50`): coins sent to a
  script with m + n > 18, 4-of-15 for example, can never be spent.
* An extranonce that looks like the merged-mining marker makes a second commitment, and the
  proof is refused. `validate_auxpow` does not compare the size of the tree with the length of
  the branch, nor the parent coinbase's index with zero: only the branch and the bits it looks at matter.
* The walks along headers and along blocks differ if the time ratio is used for the
  first block or intervals are one block long; no network of `params.py` is like that (`RetargetAssumption`).

## 5. Proofs

Each theorem is about every value of the constants: any number of blocks,
transactions, peers, processes, miners, and any bound. Most of the inductive
invariants were checked by TLC on the instance of the run before they were proved.

| Module | Theorem | States |
|---|---|---|
| `ChainProofs` | `TypeCorrect` | `Spec => []TypeOK` |
| | `ActiveChainCorrect`, `UtxoCorrect`, `NoDoubleSpendCorrect` | the three invariants of the committed store |
| | `TipWorkGrowsCorrect` | `Spec => TipWorkGrows` |
| | `LedgerImplemented` | `Spec => ImplementsLedger`, the refinement of `AbstractLedger` |
| | `ListenersCorrect` | `Spec => []ListenersFollow` |
| | `RejectionCorrect` | `Spec /\ []Unpruned => []RejectionIsJustified`, altered copies included |
| | `MostWorkCorrect` | `Spec /\ []Unpruned /\ []FewHeavier => []MostWorkIsActive` |
| `MempoolProofs` | `SpendIndexCorrect`, `RefusalCorrect` | `SpendIndexExact`; `RefusalChangesNothing` |
| | `PoolCorrect` | `Spec /\ []NoSelfReplacement => []PoolIsValid` |
| | `TemplateCorrect` | `TSpec /\ []NoSelfReplacement => TemplateConnects` |
| | `ScriptCorrect` | `ScriptSpec => []ScriptIsExact` |
| `IntakeProofs` | `BlameIsFair`, `OrphansLeave`, `DeferredLeave` | `BlamelessPeers`; `OrphansWait`; `DeferredWait`, the safety half of `DeferredReturn` |
| | `ProofsCorrect` | `ProofSpec => []ProofIsExact` |
| `NetworkProofs` | `ViolationsArePings`, `HandshakesAgree` | `OnlyEarlyPingsViolate`; `HandshakeAgreed` |
| | `PaymentsCorrect`, `MinersInformed`, `BlockSharesCount` | `PaidItsOwn`; `MinerIsInformed`; `BlockShareCounts` |
| `WalletProofs` | `FileCorrect`, `ToldCorrect`, `PaymentCorrect` | `FileStaysWhole`; `ToldIsTrue`; `SentMeansAccepted` |
| | `SelectionCorrect` | `SelectionIsRight` |
| `DesktopProofs` | `NodesEnd` | `OwnedNodeEnds` |
| `StoreProofs` | `HeadersCorrect`, `TargetsCorrect` | `RetargetSpec => []HeaderAndBlockAgree`; `RetargetSpec => []TargetStaysInBounds` |
| | `CacheCorrect` | `CacheSpec => []CacheIsSound` |
| | `BlocksInOrder` | `Spec /\ Entire => []InOrder` |
| | `BooksCorrect` | `MoneySpec => []BooksBalance` |

### The arguments

**Chain.** The invariants are not inductive. Undoing a block restores the right coins only if no
two active blocks create or consume one coin and every coin spent was created
lower down, and during a switch it is the uncommitted view, with the local
`newTip` as its tip, that has these properties. `Ledger(S, U, t, R, h)` collects
them; `IInv` says which tables are ledgers at each point of `_activate_best_chain`,
that the rows fit together (`RowsFit`) and that a branch being connected is a chain
of children of the current tip. Two lemmas carry the weight: `DisconnectLedger` and
`ConnectLedger`, that a block taken off or put on the top of a ledger gives a ledger.

*The refinement.* `put_block` is `Learn`, the commit of a switch is `Adopt`, every
other step a stutter. What `IInv` lacks is that no block of the view breaks
a connect rule (`Clean`).

*Listeners.* The events still queued lead from what a listener knows to the
committed chain, each of them from a path to a path (`Follow`): those that
disconnect come first and go down to the fork, those that connect go up.

*Rejections and the best chain.* `ValidBlocks` quantifies over branches, the
tables hold one of each block, so the invariant `Justified` contains that a stored block
ends one branch only. A rejected copy is either whole, and then its branch is to blame, or altered, and then the block
is in `spoilt`, as is every stored block whose copy is not its own (`foreign`). A node that prunes may refuse a good block whose body
it has dropped, hence the hypothesis `Unpruned` (no body was dropped). `best_entries`
looks at `MaxCandidates` rows (64), hence `FewHeavier` (no more blocks than that outweigh the tip);
section 4 names both limits, and `MCChain` is an instance of both hypotheses.

**Mempool.** For the index: every pooled transaction pays the relay minimum as well; then a
replacement that beats the rate of one conflict pays it too
(`HigherRatePaysMinimum`, arithmetic with rounding up), so the late fee check cannot fail for it. For `PoolIsValid`: `VInv`
says that a published tip which differs from the committed one has a notification to come (`SwitchPending`),
that an `add` in progress with none to come has judged its transaction against
the present chain (`AddUpToDate`), and that the pool is valid, the witnesses apart, when nothing is
to come or it is being filled again (`PoolMinable`). What leaves takes
its descendants along (`RemovedClosed`), so nobody loses a parent (`DropValid`). The hypothesis
`NoSelfReplacement` excludes the first case of section 4 under Mempool, where the code
does pool a transaction without its parent; it holds on the instance of `MCTemplate`.

**Templates.** `collect` folds its candidates into a block, one at a time. Whatever it has looked at so far,
what it has chosen comes after the parents it has in the pool, holds no transaction twice and keeps to the limit of size
(`Placed`, `Selections`; `FoldStays` for the fold). With `PoolIsValid` for the tip the
template names, that is a block that connects if none of what it chose has wrong witnesses.

**Inputs.** `ScriptInv` gives the stack after each instruction of a script of either kind from
the arguments alone (`P2pkhRuns`, `MultisigRuns`). What remains is that taking, for each signature, the first key left that
verifies it loses nothing: whenever some ordered choice of keys verifies all signatures the loop
finds one (`GreedyIsEnough`), and what it takes is such a choice (`GreedyIsInOrder`).

**Intake.** A verdict a thread has taken away from the chain stays true after it let go of
the chain lock, because the chain only ever stores or refuses more (`VerdictsStay`, `Holds`); the block a retry
judges is the first of the copy it made (`RetriedIsFirst`), and a deferred
block waits for the clock alone (`DeferredForTheClock`).

**Peers.** `Agreed` says of the two ends of a connection between such nodes what may be
on its way: an end that waits for a version finds it, in the clear, ahead of everything
else, up to the first early ping on its way, what follows is encrypted, and nothing encrypted comes from an end
that has not read a version.

**Pool.** A session's job pays the address of the session unless its own task is
about to build another (`JobPays`), nothing changes either while a call blocks the loop
(`CallPays`), what a miner was told is the session's job unless a task still
has to send it (`TargetTold`, `JobTold`), and no job of a session is younger than the
manager's latest (`LatestIsYoungest`), which with targets that get easier in time gives `BlockShareCounts`.

**Wallet.** Until two saves meet, at most one process is between opening and renaming the
temporary file and what it renames is the document it has in memory (`FileInv`); a
document in memory holds every address of the one the process read or wrote
last, so a save whose base is still on disk takes nothing away that the
user was told (`ToldInv`). What a call was answered, or a look has found, the pool took at some time (`PayInv`).

**Desktop.** A window that looks for a node, asks, shows options, prunes or is about to
start one has none running, and a running node of a window is the one it
holds (`OwnInv`): each way into these states goes through the end of the node or a
test that it has ended.

**Coin selection.** Of all sets of k coins the k largest are worth most (`LargestSum`), so when
`select_coins` stops with a cover no smaller set is one, and when it finds none, there is none. The
chunks of a sweep are the coins whose ranks lie between two multiples of the limit, hence each
coin is in one chunk. `SelInv` carries the coins through the run: a transaction of the pool spends
coins that exist, each of them alone, and what a wallet has built it has built from coins that were listed once.

**Targets.** Both walks to an earlier block find the same one if it is below the tip (`WalksFind`), and
`RetargetAssumption` leaves no other case. For the bounds, the core is `FloorIs`: a target written by
`target_to_bits` and read by `bits_to_target` is the largest compact target that is no easier. A number
keeps its leading three digits, so that a compact target with as many digits or more is a
multiple of the same weight and cannot lie between, and one with fewer is smaller than half of the
topmost digit, which is where an even base is needed (`NothingBetter`). The invariant
`Aimed` says that every block of the chain has a target of the network's range, so that the parent's
divided by the factor is a lower bound of what each rule computes before it is written
(`NextBitsBounded`, `BitsFromWorkBounded`).

**Merged mining.** What is judged stays as it was built, so the invariant (`ProofIsJudged`) only carries
the verdict. That it is exact is a fact about trees. The levels of a tree of n leaves are sequences that get shorter until
one is a single node (`LevelShape`, `DepthIs`), and if no two leaves are the same, no two nodes of a level are
(`NodesDiffer`). Hence a branch, followed with an index, is at the right node of a
level exactly while the index has the bits of the leaf's own position, and reaches the root only if they have the same
remainder modulo two to the depth (`BranchLeads`, `SamePosition`); and only a leaf's own
branch leads from it to the root (`OnlyBranch`), since hashes are injective. The first leaf matters to the
first node of each level only, so the pool may build the branch before it knows the coinbase (`OtherNodes`,
`CoinbaseBranch`); and a size is a power of two exactly if the height that is counted from it gives it back (`HeightIs`).

**Cache.** `CacheInv`: no block is cached twice, and the bytes counted are at least those of the cached
blocks and at most the limit. A block parsed twice is counted twice, so the count may be too large; but it was within
the limit before a block was inserted, so popping ends with that block at the latest (`PopsEnd`).

**Sync.** While nothing has gone wrong (`disturbed = {}`), `SyncInv` says: heights fit together (`Heights`) and all
connections stand (`Links`); queued blocks have a header, and the parent of a requested one is stored or requested
from the same peer (`Queues`); messages bring what was requested, each block after its parent (`Mail`); and the batch a
reader has popped but not yet asked for is sound by the same measure, counting what is earlier in it
(`Readers`). The hypothesis `Entire` says that no peer has pruned and that peers announce at most
the last block meanwhile, see section 3.

**Money.** `MoneyInv`: the coins are what the blocks created less what they used, every output is
used once and after it was made, an undo record is what its block used of earlier
blocks, and the rows of the history are those of the transactions. `Applying` says the same of the
overlay while a block is connected. Then the sum over the rows of an address is that over its coins
(`Flow`, `WorthOfHistory`), and since a block mints at most its subsidy (`MintedOne`) so do all
together (`MintedUnion`).

**Folds.** The library's folds are recursive functions on the subsets of a finite set, and nothing is
known of a recursive function until it is shown to exist. `FoldLemmas` shows it by a least counterexample
(`Least`) on the size of a subset, that is without an induction theorem, which would take
an operator as its parameter; sums over sets, ranks in an order and recursion on an interval
(`RecursionExists`; `LevelsAre`, `WalkIs` where there is no set of values to begin with) rest on the same argument.

### Assumptions

Every named `ASSUME` is evaluated by TLC on the instances of the runs. Most say
what kind of thing a constant is. The others: genesis spends nothing and
a block does not spend from outside what it creates (`CoinAssumption`); a block can
repeat a transaction of its own branch only by spending again a coin that is
spent there, because txids cover the inputs and a coinbase covers its height (`TxidAssumption`);
every block of the pool's tree has a finite branch along which chainwork grows (`BranchAssumption`: a
block's work is added to its parent's); targets get easier with time on one tip
(`PoolAssumption`, the retargeting rule); a wallet file
that exists at the start has the key of each address it lists, once (`WalletAssumption`, as `Keystore` writes it);
a transaction with one input is small enough to be relayed, and counts of one take one byte (`PaymentAssumption`); the base of compact
targets is even, an interval's timespan is a multiple of the factor, and where the time ratio is used
so is the spacing of blocks (`RetargetAssumption`: so it is on mainnet, testnet and
regtest); the easiest target of a network is a positive one (`TargetAssumption`); the small
integers of a script reach as far as its keys, sixteen at most, and the largest script has no more instructions than may run
(`ScriptAssumption`); rewards and payments are natural numbers and nobody is not an
address (`MoneyAssumption`); a parent block has fewer transactions, and a tree of auxiliary chains no more slots, than a
branch of `MAX_MERKLE_BRANCH_DEPTH` can tell apart, 2^30, and a size fits its four bytes (`ProofAssumption`).

### Only model-checked

* Liveness (`AddBlockReturns`, the other half of `DeferredReturn`, `SyncCompletes`, `HandshakeSettles`,
  `JobsFollowTip`, `LaunchSettles`, `MiningFollowsTip`): fairness and `ENABLED` are out of the prover's reach.
* What the two violation runs show.
* `StandaloneReturn`: on larger instances a transaction may be refused because the
  pool is full when its turn comes, though there is room later; it is a property of
  instances where that cannot happen.

## 6. Plan

Done: all modules of section 2, their runs, and the theorems of section 5.

What would come next: the order of locks. Mempool reads the chain at any moment, which is what
makes the locks of chain, pool, node and storage free of cycles; a module of
the locks alone would show it.

## 7. Not modelled

* Byte formats, serialisation and cryptography: arithmetic on bytes and hashes. The modules
  take their verdicts as predicates and hashes as injective terms.
* Schema migrations and size statistics of the store: one-off SQL and reporting.
* The explorer, the websocket hub, RPC calls that only report, the ranking of
  public nodes, version checks, the widgets and texts of the desktop applications:
  presentation of what other components hold.
* Network parameters: their values are the constants of the modules.
* Packaging, release and load-test tools.
