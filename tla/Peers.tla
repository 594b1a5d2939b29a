------------------------------- MODULE Peers --------------------------------
(***************************************************************************)
(* Connections between nodes (src/scarletcoin/net/node.py, peer.py,        *)
(* cipher.py, addrbook.py): dialling and accepting, the version handshake  *)
(* and the switch to encryption, self-connections and duplicates, bans and *)
(* the address book.                                                       *)
(*                                                                         *)
(* Several nodes run the same program and may dial each other, and         *)
(* themselves, at once; a stranger is a node that sends what it likes.  A  *)
(* connection has two ends, each with a reader thread, and two streams.    *)
(***************************************************************************)
EXTENDS Integers, FiniteSets, Sequences

CONSTANTS
    Node,               \* the nodes; a node stands for its address and its nonce
    Stranger,           \* the ones that run another program
    Casts,              \* the sets of nodes that are looked at together
    Slow,               \* nodes whose messages may take more than PING_INTERVAL
    Refused,            \* nodes whose transactions and blocks may be refused
    MaxLinks,           \* bound on the connections that exist at once
    Seeds,              \* the addresses each node starts with, its own perhaps
    MaxInbound,         \* config.max_inbound
    MaxOutbound,        \* config.max_outbound
    ReconnectThreshold, \* _RECONNECT_THRESHOLD
    NoNode

ASSUME PeersAssumption ==
    /\ Stranger \subseteq Node /\ Casts \subseteq SUBSET Node /\ NoNode \notin Node
    /\ Slow \subseteq Node /\ Refused \subseteq Node
    /\ Seeds \in [Node -> SUBSET Node]
    /\ MaxLinks \in Nat /\ MaxInbound \in Nat /\ MaxOutbound \in Nat /\ ReconnectThreshold \in Nat \ {0}

VARIABLES
    cast,       \* the nodes there are
    link,       \* who dialled whom
    end,        \* the Peer object at each end of a connection
    stream,     \* what is on its way to each end
    book,       \* AddressBook._entries
    ban,        \* AddressBook._banned: whether a host is banned for its protocol
    local,      \* nodes that have noted their own address (_local_addresses)
    connects    \* _connect_history: connections of a host in the last minute

vars == <<cast, link, end, stream, book, ban, local, connects>>

Link == 1..MaxLinks
End == {"out", "in"}
Honest == Node \ Stranger

Unused == [from |-> NoNode, to |-> NoNode]
NoPeer == [at |-> "gone", version |-> FALSE, cipher |-> FALSE, done |-> FALSE]

Init ==
    /\ cast \in Casts
    /\ link = [l \in Link |-> Unused]
    /\ end = [x \in Link \X End |-> NoPeer]
    /\ stream = [x \in Link \X End |-> <<>>]
    /\ book = [n \in Node |-> Seeds[n] \cap cast] /\ local = {}
    /\ ban = [n \in Node |-> [m \in Node |-> "no"]]
    /\ connects = [n \in Node |-> [m \in Node |-> 0]]

----------------------------------------------------------------------------

Owner(x)  == IF x[2] = "out" THEN link[x[1]].from ELSE link[x[1]].to
Remote(x) == IF x[2] = "out" THEN link[x[1]].to ELSE link[x[1]].from
Other(x)  == <<x[1], IF x[2] = "out" THEN "in" ELSE "out">>

Registered(x) == end[x].at \in {"open", "twin", "closed"}

\* Node.peers
PeersOf(n) == {x \in Link \X End : link[x[1]] # Unused /\ Owner(x) = n /\ Registered(x)}

\* A new connection takes the first free place.
IsFree(l) == link[l] = Unused /\ \A k \in 1..(l - 1) : link[k] # Unused

\* A pong stands for the messages that are read and not answered, too.
MessageType == {"version", "verack", "getaddr", "addr", "ping", "pong"}

Msg(t, s, as) == [type |-> t, sealed |-> s, addresses |-> as]

\* Peer.send: nothing is written to a connection whose other end is closed; what
\* a stranger makes of what it is sent is not looked at.
Hears(x) == end[Other(x)].at \notin {"gone", "closed"} /\ Remote(x) \notin Stranger

Sent(x, ms) == IF Hears(x) THEN [stream EXCEPT ![Other(x)] = @ \o ms] ELSE stream

\* AddressBook.ban: the addresses of the host are forgotten with it.
Ban(n, m, why) ==
    /\ ban' = [ban EXCEPT ![n][m] = why]
    /\ book' = [book EXCEPT ![n] = @ \ {m}]

\* _on_addr and _add_address: the node's own address is left out.
KnownAddresses(n, as) == book[n] \cup (IF n \in local THEN as \ {n} ELSE as)

\* _note_local_address: the node will not dial itself again.
NoteLocalAddress(n) ==
    /\ local' = local \cup {n}
    /\ book' = [book EXCEPT ![n] = @ \ {n}]

----------------------------------------------------------------------------
(***************************************************************************)
(* Making connections.                                                     *)
(***************************************************************************)

\* AddressBook.candidates
MayDial(n, m) == m \in book[n] /\ ban[n][m] = "no"

\* _already_connected: under the address that was dialled or is advertised.
AlreadyConnected(n, m) ==
    \E x \in PeersOf(n) : (x[2] = "out" \/ end[x].version) /\ Remote(x) = m

\* _connect_loop: a candidate that is neither this node nor connected.
WorthDialling(n, m) ==
    MayDial(n, m) /\ ~(m = n /\ n \in local) /\ ~AlreadyConnected(n, m)

\* connect_peer: the connection is registered and its reader sends a version.
Dial(n, m) ==
    \E l \in Link :
        /\ n \in Honest /\ IsFree(l)
        /\ Cardinality({x \in PeersOf(n) : x[2] = "out"}) < MaxOutbound
        /\ WorthDialling(n, m)
        /\ link' = [link EXCEPT ![l] = [from |-> n, to |-> m]]
        /\ end' = [end EXCEPT ![<<l, "out">>] = [NoPeer EXCEPT !.at = "open"],
                              ![<<l, "in">>] = [NoPeer EXCEPT !.at = "dialled"]]
        /\ stream' = [stream EXCEPT ![<<l, "in">>] = <<Msg("version", FALSE, {})>>,
                                    ![<<l, "out">>] = <<>>]
        /\ UNCHANGED <<book, ban, local, connects>>

\* The attempt fails: mark_failure, and after MAX_FAILURES the address goes.
DialFails(n, m) ==
    /\ n \in Honest /\ m \in Stranger /\ WorthDialling(n, m)
    /\ book' = [book EXCEPT ![n] = @ \ {m}]
    /\ UNCHANGED <<link, end, stream, ban, local, connects>>

\* A stranger connects, once at a time.
StrangerDials(m, n) ==
    \E l \in Link :
        /\ m \in Stranger /\ n \in Honest /\ l = 1 /\ \A k \in Link : link[k] = Unused
        /\ link' = [link EXCEPT ![l] = [from |-> m, to |-> n]]
        /\ end' = [end EXCEPT ![<<l, "out">>] = [NoPeer EXCEPT !.at = "open"],
                              ![<<l, "in">>] = [NoPeer EXCEPT !.at = "dialled"]]
        /\ stream' = [stream EXCEPT ![<<l, "in">>] = <<>>, ![<<l, "out">>] = <<>>]
        /\ UNCHANGED <<book, ban, local, connects>>

\* _check_reconnect_ban: the threshold-th connection of a host within the
\* window bans it, for as long as this kind of ban lasts.
Flaps(n, m) == connects[n][m] + 1 >= ReconnectThreshold

Full(n) == Cardinality({y \in PeersOf(n) : y[2] = "in"}) >= MaxInbound

\* _accept_loop
Accept(x) ==
    LET n == Owner(x)  m == Remote(x)
        refused == Flaps(n, m) \/ ban[n][m] # "no" \/ Full(n)
    IN  /\ x[2] = "in" /\ end[x].at = "dialled"
        /\ end' = [end EXCEPT ![x].at = IF refused THEN "gone" ELSE "open"]
        /\ connects' = [connects EXCEPT ![n][m] = IF Flaps(n, m) THEN 0 ELSE @ + 1]
        /\ IF Flaps(n, m) THEN Ban(n, m, "other") ELSE UNCHANGED <<ban, book>>
        /\ UNCHANGED <<link, stream, local>>

\* A minute passes: the history of a host is empty, a ban runs out.
WindowPasses(n, m) ==
    /\ connects[n][m] > 0
    /\ connects' = [connects EXCEPT ![n][m] = 0]
    /\ UNCHANGED <<link, end, stream, book, ban, local>>

BanExpires(n, m) ==
    /\ ban[n][m] # "no"
    /\ ban' = [ban EXCEPT ![n][m] = "no"]
    /\ UNCHANGED <<link, end, stream, book, local, connects>>

\* _bootstrap_seeds, when there is nobody left to dial.
Bootstrap(n) ==
    /\ n \in Honest /\ PeersOf(n) = {} /\ book[n] = {} /\ KnownAddresses(n, Seeds[n] \cap cast) # {}
    /\ book' = [book EXCEPT ![n] = KnownAddresses(n, Seeds[n] \cap cast)]
    /\ UNCHANGED <<link, end, stream, ban, local, connects>>

----------------------------------------------------------------------------
(***************************************************************************)
(* The handshake.                                                          *)
(***************************************************************************)

Reads(x, types) ==
    /\ end[x].at = "open" /\ Owner(x) \in Honest /\ stream[x] # <<>>
    /\ Head(stream[x]).type \in types

\* Peer.receive: the message has to be encrypted exactly when this end expects it.
Readable(x) == Head(stream[x]).sealed = end[x].cipher

\* What the reader thread takes for a violation of the protocol.
Violates(x) ==
    \/ ~Readable(x)
    \/ Head(stream[x]).type = "version" /\ end[x].version
    \/ Head(stream[x]).type # "version" /\ ~end[x].version

Took(x) == [stream EXCEPT ![x] = Tail(stream[x])]

\* A message is read, and ms are the answer to it.
Answered(x, ms) ==
    IF Hears(x) THEN [Took(x) EXCEPT ![Other(x)] = stream[Other(x)] \o ms] ELSE Took(x)

\* A ping that was sent before its sender had read the version of the other end.
IsEarly(m) == m.type = "ping" /\ ~m.sealed

\* The connection is closed here and the other node banned (_misbehave).
CloseAndBan(x, why) ==
    /\ end' = [end EXCEPT ![x] = [end[x] EXCEPT !.at = "closed", !.done = TRUE]]
    /\ Ban(Owner(x), Remote(x), why)
    /\ UNCHANGED <<link, local, connects>>

\* ProtocolError in _peer_loop: _misbehave with all the points at once.
OnViolation(x) ==
    /\ Reads(x, MessageType) /\ Violates(x)
    /\ stream' = Took(x)
    /\ CloseAndBan(x, IF IsEarly(Head(stream[x])) THEN "other" ELSE "misbehaved")

\* _on_tx and _on_block, for the tenth transaction or the second block that is
\* refused on this connection.  What the chain and the pool refuse is not looked
\* at here: nodes that run this program refuse each other's transactions if they
\* have met two that conflict in another order.
OnRefusal(x) ==
    /\ end[x].at = "open" /\ end[x].version /\ Owner(x) \in Honest /\ Remote(x) \in Refused
    /\ CloseAndBan(x, "other")
    /\ UNCHANGED stream

\* _on_version, up to the search for a connection to the same node.
OnVersion(x) ==
    LET n == Owner(x)  self == Remote(x) = n
        twin == \E y \in PeersOf(n) \ {x} : end[y].version /\ Remote(y) = Remote(x)
    IN  /\ Reads(x, {"version"}) /\ ~Violates(x)
        /\ stream' = Took(x)
        /\ IF self THEN NoteLocalAddress(n) ELSE UNCHANGED <<local, book>>
        /\ end' = [end EXCEPT ![x] = [end[x] EXCEPT !.at = IF self \/ twin THEN "closed" ELSE "twin",
                                                     !.done = self \/ twin]]
        /\ UNCHANGED <<link, ban, connects>>

\* Mutant: the acknowledgement goes out in the clear.
AnswersPlain(x) ==
    IF x[2] = "in" THEN <<Msg("version", FALSE, {}), Msg("verack", FALSE, {})>>
                   ELSE <<Msg("verack", FALSE, {})>>

\* An accepted connection answers with its version, in the clear; the
\* acknowledgement is encrypted.
Answers(x) ==
    IF x[2] = "in" THEN <<Msg("version", FALSE, {}), Msg("verack", TRUE, {})>>
                   ELSE <<Msg("verack", TRUE, {})>>

\* Mutant: the handshake counts as complete with the version.
AnswerVersionDone(x) ==
    /\ end[x].at = "twin"
    /\ end' = [end EXCEPT ![x] = [at |-> "open", version |-> TRUE, cipher |-> TRUE, done |-> TRUE]]
    /\ stream' = Sent(x, Answers(x))
    /\ UNCHANGED <<link, book, ban, local, connects>>

\* ... the rest of _on_version.
AnswerVersion(x) ==
    /\ end[x].at = "twin"
    /\ end' = [end EXCEPT ![x] = [end[x] EXCEPT !.at = "open", !.version = TRUE, !.cipher = TRUE]]
    /\ stream' = Sent(x, Answers(x))
    /\ book' = [book EXCEPT ![Owner(x)] = @ \cup {Remote(x)}]
    /\ UNCHANGED <<link, ban, local, connects>>

\* _complete_handshake, once.
OnVerack(x) ==
    /\ Reads(x, {"verack"}) /\ ~Violates(x)
    /\ stream' = Answered(x, IF end[x].done THEN <<>> ELSE <<Msg("getaddr", TRUE, {})>>)
    /\ end' = [end EXCEPT ![x].done = TRUE]
    /\ UNCHANGED <<link, book, ban, local, connects>>

\* _on_getaddr
OnGetAddr(x) ==
    /\ Reads(x, {"getaddr"}) /\ ~Violates(x)
    /\ stream' = Answered(x, IF book[Owner(x)] = {} THEN <<>>
                            ELSE <<Msg("addr", TRUE, book[Owner(x)])>>)
    /\ UNCHANGED <<link, end, book, ban, local, connects>>

OnAddr(x) ==
    /\ Reads(x, {"addr"}) /\ ~Violates(x)
    /\ stream' = Took(x)
    /\ book' = [book EXCEPT ![Owner(x)] = KnownAddresses(Owner(x), Head(stream[x]).addresses)]
    /\ UNCHANGED <<link, end, ban, local, connects>>

\* _maintenance_loop pings a connection on which nothing has been read for a
\* minute, whatever the state of the handshake, unless the last ping has not been
\* answered yet.
Ping(x) ==
    /\ end[x].at \in {"open", "twin"} /\ Owner(x) \in Honest /\ Hears(x)
    /\ Remote(x) \in Slow /\ stream[x] = <<>>
    /\ \A i \in 1..Len(stream[Other(x)]) : stream[Other(x)][i].type # "ping"
    /\ stream' = Sent(x, <<Msg("ping", end[x].cipher, {})>>)
    /\ UNCHANGED <<link, end, book, ban, local, connects>>

\* _handle_message: a ping is answered, a pong is not.
OnPing(x) ==
    /\ Reads(x, {"ping", "pong"}) /\ ~Violates(x)
    /\ stream' = Answered(x, IF Head(stream[x]).type = "ping" THEN <<Msg("pong", TRUE, {})>> ELSE <<>>)
    /\ UNCHANGED <<link, end, book, ban, local, connects>>

\* A stranger sends anything, whatever the state of the handshake.  The ping is
\* for all the messages that change nothing here but the time of the last one.
StrangerSends(x) ==
    \E t \in {"version", "verack", "ping"}, s \in BOOLEAN :
        /\ end[x].at = "open" /\ Owner(x) \in Stranger /\ stream[Other(x)] = <<>> /\ Hears(x)
        /\ stream' = Sent(x, <<Msg(t, s, {})>>)
        /\ UNCHANGED <<link, end, book, ban, local, connects>>

----------------------------------------------------------------------------
(***************************************************************************)
(* The end of a connection.                                                *)
(***************************************************************************)

\* Mutant: nobody looks after silent connections.
TimesOutNever(x) == FALSE /\ UNCHANGED vars

\* A stranger goes silent (_RECV_TIMEOUT, PEER_TIMEOUT in _maintenance_loop).
TimesOut(x) ==
    /\ end[x].at = "open" /\ Owner(x) \in Honest /\ Remote(x) \in Stranger /\ stream[x] = <<>>
    /\ end' = [end EXCEPT ![x] = [end[x] EXCEPT !.at = "closed", !.done = TRUE]]
    /\ UNCHANGED <<link, stream, book, ban, local, connects>>

\* The reader ends (_unregister): its connection is closed, here or, once
\* everything that was sent has been read, at the other end.
Unregister(x) ==
    /\ \/ end[x].at = "closed"
       \/ end[x].at = "open" /\ end[Other(x)].at \in {"gone", "closed"} /\ stream[x] = <<>>
    /\ end' = [end EXCEPT ![x] = NoPeer]
    /\ stream' = [stream EXCEPT ![x] = <<>>]
    /\ UNCHANGED <<link, book, ban, local, connects>>

\* A stranger hangs up.
StrangerLeaves(x) ==
    /\ end[x].at = "open" /\ Owner(x) \in Stranger
    /\ end' = [end EXCEPT ![x] = NoPeer]
    /\ stream' = [stream EXCEPT ![x] = <<>>]
    /\ UNCHANGED <<link, book, ban, local, connects>>

\* Both ends have gone: the place of the connection is free.
Release(l) ==
    /\ link[l] # Unused /\ \A e \in End : end[<<l, e>>].at = "gone"
    /\ link' = [link EXCEPT ![l] = Unused]
    /\ stream' = [stream EXCEPT ![<<l, "in">>] = <<>>, ![<<l, "out">>] = <<>>]
    /\ UNCHANGED <<end, book, ban, local, connects>>

Reader(x) ==
    \/ OnViolation(x) \/ OnVersion(x) \/ AnswerVersion(x) \/ OnVerack(x)
    \/ OnGetAddr(x) \/ OnAddr(x) \/ OnPing(x) \/ Unregister(x)

Next ==
    /\ UNCHANGED cast
    /\ \/ \E n, m \in cast : \/ Dial(n, m) \/ DialFails(n, m) \/ StrangerDials(m, n)
                             \/ WindowPasses(n, m) \/ BanExpires(n, m)
       \/ \E n \in cast : Bootstrap(n)
       \/ \E x \in Link \X End : Reader(x) \/ Accept(x) \/ StrangerSends(x) \/ StrangerLeaves(x)
                                  \/ TimesOut(x) \/ Ping(x) \/ OnRefusal(x)
       \/ \E l \in Link : Release(l)

\* Every thread that works on an end runs: its reader, the accept loop, the
\* maintenance loop.
Runs(x) == Reader(x) \/ Accept(x) \/ TimesOut(x)

Spec == /\ Init /\ [][Next]_vars
        /\ \A x \in Link \X End : WF_vars(Runs(x) /\ UNCHANGED cast)

----------------------------------------------------------------------------

\* The only thing that one node which runs this program ever does to violate the
\* protocol towards another, whoever dials whom, and when, is a ping sent before
\* the handshake: the switch to encryption is agreed on message by message, and no
\* duplicate and no other early message is sent (_handle_message, _peer_loop).
OnlyEarlyPingsViolate ==
    \A n, m \in Honest : ban[n][m] # "misbehaved"

\* When a handshake is complete at one end, the other end has seen this end's
\* version too and encrypts, unless it has dropped the connection (_on_version,
\* _complete_handshake).
HandshakeAgreed ==
    \A x \in Link \X End :
        end[x].at = "open" /\ end[x].done /\ {Owner(x), Remote(x)} \subseteq Honest
            => end[Other(x)].at \in {"closed", "gone"} \/ end[Other(x)].cipher

Unsettled(x) == Owner(x) \in Honest /\ end[x].at \in {"open", "twin"} /\ ~end[x].done

\* A stranger sends something to x.
IsTalkedTo(x) == Remote(x) \in Stranger /\ Len(stream'[x]) > Len(stream[x])

\* Every connection comes to an end or to a complete handshake: none waits for a
\* message that the other side will never send.  Only a stranger that goes on
\* talking for ever can keep one open without it: every message counts as a sign
\* of life (Peer.receive, _maintenance_loop), and none but a verack completes the
\* handshake.
HandshakeSettles ==
    \A x \in Link \X End :
        []<>~Unsettled(x) \/ []<><<Unsettled(x) /\ IsTalkedTo(x)>>_vars
=============================================================================
