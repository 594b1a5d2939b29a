-------------------------------- MODULE Sync --------------------------------
(***************************************************************************)
(* Header-first synchronisation (src/scarletcoin/net/node.py and the       *)
(* header chain of core/chain.py): one node downloads a chain from its     *)
(* peers.  Every peer has a reader thread; the threads share the download  *)
(* queues without a lock, so a queue operation is a sequence of steps here.*)
(*                                                                         *)
(* The peers are on one chain, so a block is its height: the blocks stored *)
(* are 0..top, the headers known are 0..HeaderTip, and a locator is the    *)
(* height of its newest entry.  Forks are the subject of Chain.            *)
(***************************************************************************)
EXTENDS Integers, FiniteSets, Sequences, SequencesExt, FiniteSetsExt

CONSTANTS
    Peer,            \* the nodes this node may connect to
    Top,             \* height of the network's chain
    BlocksInFlight,  \* BLOCKS_IN_FLIGHT, per peer
    Setting,         \* the situations to look at: what the peers have and have pruned, how
                     \* high their chains get, how often connections end and requests stall
    HeaderLimit      \* MAX_HEADERS_PER_MESSAGE and the limit of headers_to_download

Block == 1..Top

ASSUME SyncAssumption ==
    /\ Top \in Nat \ {0} /\ BlocksInFlight \in Nat \ {0}
    /\ HeaderLimit \in Nat \ {0}
    /\ \A s \in Setting : /\ s.served \in [Peer -> Block] /\ s.kept \in [Peer -> 0..Top]
                          /\ s.grown \in Block /\ s.faults \in Nat

VARIABLES
    top,        \* height of the stored chain
    hdr,        \* height of the best stored header
    orphans,    \* Node._orphans
    peers,      \* Node._peers, oldest connection first
    closed,     \* registered peers whose connection has been closed
    start,      \* Peer.start_height
    pending,    \* Peer.pending_blocks
    requested,  \* Peer.requested_blocks
    stalled,    \* the requested blocks in flight for longer than _BLOCK_STALL_TIMEOUT
    inbox,      \* messages on their way from the peer
    thread,     \* where each peer's reader thread is
    served,     \* height of the peer's own chain
    kept,       \* the lowest block whose body the peer still has
    grown,      \* height the peers' chains will reach
    faults,     \* how many connections may still end, and requests stall
    disturbed   \* what has gone wrong so far

chainVars == <<top, hdr, orphans>>
linkVars  == <<peers, closed, start>>
queueVars == <<pending, requested, stalled>>
peerVars  == <<served, kept, grown>>
vars == <<chainVars, linkVars, queueVars, inbox, thread, peerVars, faults, disturbed>>

Idle == [at |-> "idle", then |-> "idle", todo |-> <<>>, head |-> 0, queued |-> {}, batch |-> <<>>]

Msg(t, bs) == [type |-> t, blocks |-> bs]

Init ==
    /\ top = 0 /\ hdr = 0 /\ orphans = {}
    /\ peers = <<>> /\ closed = {} /\ start = [p \in Peer |-> 0]
    /\ pending = [p \in Peer |-> <<>>]
    /\ requested = [p \in Peer |-> {}] /\ stalled = [p \in Peer |-> {}]
    /\ inbox = [p \in Peer |-> <<>>]
    /\ thread = [p \in Peer |-> [Idle EXCEPT !.at = "gone"]]
    /\ \E s \in Setting : served = s.served /\ kept = s.kept /\ grown = s.grown /\ faults = s.faults
    /\ disturbed = {}

----------------------------------------------------------------------------
(***************************************************************************)
(* The header chain.                                                       *)
(***************************************************************************)

\* header_tip: whichever of the two chains carries more work.
HeaderTip == Max({hdr, top})

\* Mutant: the blocks nearest to the tip are missing from the list.
HeadersToDownloadShort == [i \in 1..(HeaderTip - top - 1) |-> top + i]

\* headers_to_download walks back from the best header and stops at the limit:
\* of a longer list it keeps the newest.
HeadersToDownload ==
    LET n == Min({HeaderTip - top, HeaderLimit})
    IN  [i \in 1..n |-> HeaderTip - n + i]

\* The last of the blocks above h, one after the other, that are in S.
RunEnd(h, S) == CHOOSE t \in h..Top : (h + 1)..t \subseteq S /\ t + 1 \notin S

\* add_header for one header after the other, lowest first: a header whose
\* parent is not known is not stored.
HeadersAdded(hs) == RunEnd(HeaderTip, ToSet(hs))

\* header_locator: the newest entry; the others are its ancestors.
Locator == HeaderTip

\* submit_block: add_block, then the orphans that waited.
TopAfter(b) == IF b = top + 1 THEN RunEnd(b, orphans) ELSE top

----------------------------------------------------------------------------
(***************************************************************************)
(* Requests.                                                               *)
(***************************************************************************)

\* The entries of a list at the positions I, in order.
Entries(list, I) ==
    LET place(i) == Cardinality({j \in I : j <= i})
    IN  [k \in 1..Cardinality(I) |-> list[CHOOSE i \in I : place(i) = k]]

\* The entries that are in S.
Only(list, S) == Entries(list, {i \in 1..Len(list) : list[i] \in S})

\* The peer runs the same program.  It answers a request when it is made; the
\* answer is then on its way for as long as the request and the answer are.

\* find_header_fork_height: the newest of its blocks that the locator lists.
ForkHeight(p, locator) == Min({locator, served[p]})

\* serialized_headers_after: the first headers above that height.
HeadersAfter(p, fork) == [i \in 1..Min({HeaderLimit, served[p] - fork}) |-> fork + i]

\* _on_getheaders: nothing is answered when there is nothing to tell.
HeadersFrom(p) ==
    LET hs == HeadersAfter(p, ForkHeight(p, Locator))
    IN  IF hs = <<>> THEN <<>> ELSE <<Msg("headers", hs)>>

\* _on_getdata: the blocks it has a body for, then the ones it has not.
BlocksFrom(p, bs) ==
    LET has == kept[p]..served[p]
        found == Only(bs, has)
        missing == Only(bs, Block \ has)
    IN  [i \in 1..Len(found) |-> Msg("block", <<found[i]>>)]
        \o (IF missing = <<>> THEN <<>> ELSE <<Msg("notfound", missing)>>)

\* _maybe_sync with force: no headers are asked of a peer that owes blocks.
SyncAnswer(p) ==
    IF p \in closed \/ requested[p] # {} \/ pending[p] # <<>> THEN <<>> ELSE HeadersFrom(p)

Goto(p, place) == thread' = [thread EXCEPT ![p] = place]

\* _request_blocks is about to run for the peers in todo.
Requesting(todo, then) ==
    IF todo = <<>> THEN [Idle EXCEPT !.at = then]
    ELSE [Idle EXCEPT !.at = "request", !.then = then, !.todo = todo,
                      !.queued = requested'[Head(todo)]]

\* Mutant: the parent may be in flight from anybody, or from nobody.
MayRequestOrphan(queued, b) == TRUE

\* _block_parent knows the parent of a block whose header is stored.
ParentKnown(b) == b <= HeaderTip

\* A block is requested once its parent is stored or in flight from this peer.
MayRequest(queued, b) == ParentKnown(b) => b - 1 <= top \/ b - 1 \in queued

HasNext(q, queued) ==
    /\ pending[q] # <<>> /\ Cardinality(queued) < BlocksInFlight
    /\ MayRequest(queued, Head(pending[q]))

\* _request_blocks for Head(todo), one turn of its loop at a time.
Peek(t) ==
    LET th == thread[t]  q == Head(th.todo)
    IN  /\ th.at = "request" /\ HasNext(q, th.queued)
        /\ Goto(t, [th EXCEPT !.at = "pop", !.head = Head(pending[q])])
        /\ UNCHANGED <<chainVars, linkVars, queueVars, inbox, peerVars, faults, disturbed>>

\* popleft: the queue may have changed since it was peeked at.  The block that
\* leaves it may be another one; on an empty queue the call raises, and the
\* reader of t ends.
Pop(t) ==
    LET th == thread[t]  q == Head(th.todo)
        wanted == th.head > top
    IN  /\ th.at = "pop"
        /\ IF pending[q] = <<>>
           THEN /\ Goto(t, [Idle EXCEPT !.at = "gone"])
                /\ closed' = closed \cup {t} /\ disturbed' = disturbed \cup {"raised"}
                /\ UNCHANGED pending
           ELSE /\ pending' = [pending EXCEPT ![q] = Tail(@)]
                /\ Goto(t, [th EXCEPT !.at = "request",
                              !.batch = IF wanted THEN Append(@, th.head) ELSE @,
                              !.queued = IF wanted THEN @ \cup {th.head} ELSE @])
                /\ disturbed' = disturbed \cup (IF Head(pending[q]) # th.head THEN {"lost"} ELSE {})
                /\ UNCHANGED closed
        /\ UNCHANGED <<chainVars, peers, start, requested, stalled, inbox, peerVars, faults>>

Gone(p) == p \in closed \/ p \notin ToSet(peers)

\* The loop is over: the batch is in flight.  Sending to a peer that is gone
\* raises, and it is the reader of t that ends.
SendBatch(t) ==
    LET th == thread[t]  q == Head(th.todo)
    IN  /\ th.at = "request" /\ ~HasNext(q, th.queued)
        /\ IF th.batch = <<>>
           THEN UNCHANGED <<requested, inbox>>
           ELSE /\ requested' = [requested EXCEPT ![q] = @ \cup ToSet(th.batch)]
                /\ inbox' = IF Gone(q) THEN inbox
                            ELSE [inbox EXCEPT ![q] = @ \o BlocksFrom(q, th.batch)]
        /\ IF th.batch # <<>> /\ Gone(q)
           THEN /\ Goto(t, [Idle EXCEPT !.at = "gone"])
                /\ closed' = closed \cup {t} /\ disturbed' = disturbed \cup {"raised"}
           ELSE /\ Goto(t, Requesting(Tail(th.todo), th.then))
                /\ UNCHANGED <<closed, disturbed>>
        /\ UNCHANGED <<chainVars, peers, start, pending, stalled, peerVars, faults>>

\* The run of the missing blocks that the i-th of n peers gets.
Run(missing, i, n) ==
    LET width == (Len(missing) + n - 1) \div n
    IN  SubSeq(missing, (i - 1) * width + 1, Min({i * width, Len(missing)}))

\* _queue_missing_blocks: stalled requests are released and every queue is
\* rebuilt, the peer's run first, then what it announced.
QueueMissing(t) ==
    LET missing == HeadersToDownload
        n == Len(peers)
        inFlight(p) == requested[p] \ stalled[p]
        run(p) == Only(Run(missing, CHOOSE i \in 1..n : peers[i] = p, n), Block \ inFlight(p))
        announced(p) == Only(pending[p] \o SetToSeq(stalled[p]),
                             Block \ (ToSet(missing) \cup inFlight(p)))
        set(old, new(_)) == [p \in Peer |-> IF p \in ToSet(peers) THEN new(p) ELSE old[p]]
    IN  /\ thread[t].at = "queue"
        /\ IF missing = <<>>
           THEN /\ UNCHANGED queueVars
                /\ Goto(t, [Idle EXCEPT !.at = thread[t].then])
           ELSE /\ requested' = set(requested, inFlight)
                /\ stalled' = set(stalled, LAMBDA p : {})
                /\ pending' = set(pending, LAMBDA p : run(p) \o announced(p))
                /\ Goto(t, Requesting(peers, thread[t].then))
        /\ disturbed' = disturbed \cup (IF HeaderTip - top > HeaderLimit THEN {"cut"} ELSE {})
        /\ UNCHANGED <<chainVars, linkVars, inbox, peerVars, faults>>

----------------------------------------------------------------------------
(***************************************************************************)
(* The handlers of one reader thread.                                      *)
(***************************************************************************)

Received(p, t) ==
    /\ thread[p].at = "idle" /\ p \notin closed
    /\ inbox[p] # <<>> /\ Head(inbox[p]).type = t
    /\ inbox' = [inbox EXCEPT ![p] = Tail(@)]

\* A block that has come, or will not, has no time of request any more.
Unstalled(p, bs) == [stalled EXCEPT ![p] = @ \ bs]

\* _on_headers: more headers are asked for once the queues are filled.
OnHeaders(p) ==
    /\ Received(p, "headers")
    /\ hdr' = Max({hdr, HeadersAdded(Head(inbox[p]).blocks)})
    /\ Goto(p, [Idle EXCEPT !.at = "queue", !.then = "more"])
    /\ UNCHANGED <<top, orphans, linkVars, queueVars, peerVars, faults, disturbed>>

MoreHeaders(p) ==
    /\ thread[p].at = "more"
    /\ inbox' = IF HeaderTip < start[p] THEN [inbox EXCEPT ![p] = @ \o SyncAnswer(p)] ELSE inbox
    /\ Goto(p, Idle)
    /\ UNCHANGED <<chainVars, linkVars, queueVars, peerVars, faults, disturbed>>

\* _on_inv of one block.
OnInv(p) ==
    LET b == Head(inbox[p]).blocks[1]
        news == b > top /\ b \notin orphans \cup requested[p] \cup ToSet(pending[p])
    IN  /\ Received(p, "inv")
        /\ pending' = [pending EXCEPT ![p] = IF news THEN Append(@, b) ELSE @]
        /\ UNCHANGED <<requested, stalled>>
        /\ Goto(p, Requesting(<<p>>, "idle"))
        /\ UNCHANGED <<chainVars, linkVars, peerVars, faults, disturbed>>

\* _on_block: the block leaves the requests and is submitted.
OnBlock(p) ==
    LET b == Head(inbox[p]).blocks[1]
        orphan == b > top + 1
    IN  /\ Received(p, "block")
        /\ requested' = [requested EXCEPT ![p] = @ \ {b}]
        /\ stalled' = Unstalled(p, {b})
        /\ top' = TopAfter(b)
        /\ orphans' = (IF orphan THEN orphans \cup {b} ELSE orphans) \ 1..top'
        /\ Goto(p, [Idle EXCEPT !.at = IF orphan THEN "orphan" ELSE "tail"])
        /\ UNCHANGED <<hdr, linkVars, pending, peerVars, faults, disturbed>>

\* ... then headers, or the next blocks of this peer, and every queue is
\* rebuilt.
AfterBlock(p) ==
    LET twice == IF thread[p].at = "orphan" THEN SyncAnswer(p) ELSE <<>>
    IN  /\ thread[p].at \in {"tail", "orphan"}
        /\ IF requested[p] = {} /\ pending[p] = <<>>
           THEN /\ inbox' = [inbox EXCEPT ![p] = @ \o twice \o SyncAnswer(p)]
                /\ UNCHANGED requested
                /\ Goto(p, [Idle EXCEPT !.at = "queue"])
           ELSE /\ UNCHANGED <<inbox, requested>>
                /\ Goto(p, Requesting(<<p>>, "queue"))
        /\ UNCHANGED <<chainVars, linkVars, pending, stalled, peerVars, faults, disturbed>>

OnNotFound(p) ==
    LET gone == ToSet(Head(inbox[p]).blocks)
    IN  /\ Received(p, "notfound")
        /\ requested' = [requested EXCEPT ![p] = @ \ gone]
        /\ stalled' = Unstalled(p, gone)
        /\ disturbed' = disturbed \cup {"notfound"}
        /\ UNCHANGED <<chainVars, linkVars, pending, thread, peerVars, faults>>

----------------------------------------------------------------------------
(***************************************************************************)
(* Connections, timers, and the peers.                                     *)
(***************************************************************************)

\* _register and _complete_handshake, which asks a peer that looks ahead.  A
\* connection is not made again while a reader still holds the Peer of the last.
Connect(p) ==
    /\ p \notin ToSet(peers) /\ \A t \in Peer : p \notin ToSet(thread[t].todo)
    /\ peers' = Append(peers, p) /\ start' = [start EXCEPT ![p] = served[p]]
    /\ inbox' = [inbox EXCEPT ![p] = IF served[p] > top THEN HeadersFrom(p) ELSE <<>>]
    /\ pending' = [pending EXCEPT ![p] = <<>>]
    /\ requested' = [requested EXCEPT ![p] = {}] /\ stalled' = [stalled EXCEPT ![p] = {}]
    /\ Goto(p, Idle)
    /\ UNCHANGED <<chainVars, closed, peerVars, faults, disturbed>>

\* A connection ends: at the remote end, or because the peer has been silent,
\* or owed blocks, for too long (_maintenance_loop).
Close(p) ==
    /\ p \in ToSet(peers) \ closed /\ faults > 0
    /\ closed' = closed \cup {p} /\ faults' = faults - 1
    /\ disturbed' = disturbed \cup {"closed"}
    /\ UNCHANGED <<chainVars, peers, start, queueVars, inbox, thread, peerVars>>

\* The reader thread ends: _unregister.
Unregister(p) ==
    /\ p \in closed /\ thread[p].at \in {"idle", "gone"}
    /\ peers' = Remove(peers, p) /\ closed' = closed \ {p}
    /\ inbox' = [inbox EXCEPT ![p] = <<>>]
    /\ Goto(p, [Idle EXCEPT !.at = "gone"])
    /\ UNCHANGED <<chainVars, start, queueVars, peerVars, faults, disturbed>>

\* The blocks a peer owes have been in flight for _BLOCK_STALL_TIMEOUT.
Stall(p) ==
    /\ p \in ToSet(peers) /\ stalled[p] # requested[p] /\ faults > 0
    /\ stalled' = [stalled EXCEPT ![p] = requested[p]] /\ faults' = faults - 1
    /\ disturbed' = disturbed \cup {"stalled"}
    /\ UNCHANGED <<chainVars, linkVars, pending, requested, inbox, thread, peerVars>>

\* _poll_for_blocks, once the tip has been quiet for long enough.
Poll(p) ==
    /\ p \in ToSet(peers) /\ inbox[p] = <<>> /\ SyncAnswer(p) # <<>>
    /\ inbox' = [inbox EXCEPT ![p] = SyncAnswer(p)]
    /\ UNCHANGED <<chainVars, linkVars, queueVars, thread, peerVars, faults, disturbed>>

\* The peer's chain grows and it announces the block (_relay).
Announce(p) ==
    /\ served[p] < grown
    /\ served' = [served EXCEPT ![p] = @ + 1]
    /\ inbox' = IF p \in ToSet(peers) \ closed
                THEN [inbox EXCEPT ![p] = Append(@, Msg("inv", <<served'[p]>>))] ELSE inbox
    /\ UNCHANGED <<chainVars, linkVars, queueVars, thread, kept, grown, faults, disturbed>>

Handle(p) ==
    \/ OnHeaders(p) \/ MoreHeaders(p) \/ OnInv(p) \/ OnBlock(p) \/ AfterBlock(p) \/ OnNotFound(p)
    \/ QueueMissing(p) \/ Peek(p) \/ Pop(p) \/ SendBatch(p) \/ Unregister(p)

Next ==
    \E p \in Peer : \/ Handle(p) \/ Connect(p) \/ Poll(p)
                    \/ Stall(p) \/ Close(p) \/ Announce(p)

\* Reader threads run, connections are retried, polls come round, and a peer
\* whose connection stands answers in the end.
Fairness == \A p \in Peer : WF_vars(Handle(p)) /\ WF_vars(Connect(p))
                            /\ WF_vars(Poll(p))

Spec == Init /\ [][Next]_vars /\ Fairness

----------------------------------------------------------------------------

\* "It can never arrive before its parent" (_queue_missing_blocks): while
\* nothing has gone wrong, the parent of a block in flight is stored or in
\* flight from the same peer.  The block the network is just announcing may be
\* asked for before its header is known.  It is a claim about peers that have
\* all their blocks: one that has pruned sends those it still has first.
InOrder ==
    disturbed = {} => \A p \in Peer : \A b \in requested[p] \ {grown} :
                        b - 1 <= top \/ b - 1 \in requested[p]

\* Every block that a peer has is stored.
Synced == \A p \in Peer : served[p] <= top

\* The sync does not stop.  Announcements that overtake the headers, a header
\* chain that arrives in pieces, blocks that stall, are released and arrive
\* twice, and readers that rebuild each other's queues do no harm: the node
\* catches up, unless a connection ends, a peer has pruned a block, more is
\* missing than headers_to_download lists, or a block is popped that was not
\* the one peeked at.
SyncCompletes == []<>(Synced \/ disturbed \ {"stalled"} # {})

=============================================================================
