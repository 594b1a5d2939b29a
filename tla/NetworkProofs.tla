--------------------------- MODULE NetworkProofs ----------------------------
(***************************************************************************)
(* Proofs about what a node has to do with over the network: its peers     *)
(* (Peers) and the merged-mining pool (Pool).                              *)
(***************************************************************************)
EXTENDS Peers, Pool, TLAPS, FiniteSetTheorems, SequenceTheorems

-----------------------------------------------------------------------------
(***************************************************************************)
(* Proofs about the handshake, for any number of nodes, strangers among    *)
(* them, and of connections, with whatever limits.                         *)
(*                                                                         *)
(* What is on its way to one end is explained by the states of both ends:  *)
(* an end that waits for a version finds it, in the clear, ahead of        *)
(* everything else, and everything behind it is encrypted; and nothing     *)
(* encrypted is on its way from an end that has not read a version itself. *)
(* All of this is said up to the first early ping that is on its way: the  *)
(* end that reads it closes the connection.                                *)
(***************************************************************************)

\* What a field that names a node may hold.
Name == Node \cup {NoNode}

Message == [type : MessageType, sealed : BOOLEAN, addresses : SUBSET Name]
PeerState == [at : {"gone", "dialled", "open", "twin", "closed"}, version : BOOLEAN, cipher : BOOLEAN,
              done : BOOLEAN]
BanState == {"no", "other", "misbehaved"}

Shapes ==
    /\ cast \in SUBSET Node
    /\ link \in [Link -> [from : Name, to : Name]]
    /\ end \in [Link \X End -> PeerState]
    /\ stream \in [Link \X End -> Seq(Message)]
    /\ book \in [Node -> SUBSET Name]
    /\ ban \in [Node -> [Node -> BanState]]

\* The connection is of use to this end, and the end still expects a version.
Live(e) == e.at \in {"dialled", "open", "twin"}
Waits(e) == ~e.version /\ e.at # "twin"

Plain(m)  == m.type = "version" /\ m.sealed = FALSE
Sealed(m) == m.type # "version" /\ m.sealed = TRUE

\* No early ping is among the first i messages of q.
NoneEarly(q, i) == \A j \in 1..i : ~IsEarly(q[j])

\* What is said of an end e on one side, of the end f on the other one, and of
\* what is on its way from f to e.
Agreed(side, e, f, q) ==
    Live(e) =>
      /\ e.cipher = e.version
      /\ e.at \in {"dialled", "twin"} => ~e.version
      /\ side = "out" => e.at # "dialled"
      /\ Waits(e) /\ q # <<>> => Plain(q[1]) \/ IsEarly(q[1])
      /\ \A i \in 1..Len(q) : (i > 1 \/ ~Waits(e)) /\ NoneEarly(q, i) => Sealed(q[i])
      /\ \A i \in 1..Len(q) : q[i].sealed /\ Live(f) => f.version
      /\ e.done /\ Live(f) => f.version
      /\ side = "out" /\ Live(f) /\ ~f.version => Waits(e) /\ (q = <<>> \/ IsEarly(q[1]))
      /\ Waits(e) /\ Live(f) /\ (side = "in" \/ f.version) => q # <<>>

BothHonest(x) == {Owner(x), Remote(x)} \subseteq Honest

LinkAgreed(x) == BothHonest(x) => Agreed(x[2], end[x], end[Other(x)], stream[x])

PeersInv == Shapes /\ OnlyEarlyPingsViolate /\ \A x \in Link \X End : LinkAgreed(x)

-----------------------------------------------------------------------------

LEMMA OtherEnd ==
    ASSUME NEW x \in Link \X End
    PROVE  /\ Other(x) \in Link \X End /\ Other(x) # x /\ Other(Other(x)) = x
           /\ Other(x)[1] = x[1] /\ Other(x)[2] # x[2] /\ x[2] \in End /\ x[1] \in Link
           /\ Other(x)[2] \in End
           /\ Owner(Other(x)) = Remote(x) /\ Remote(Other(x)) = Owner(x)
  BY DEF Other, End, Owner, Remote

LEMMA InitPeers == Init => PeersInv
  <1> SUFFICES ASSUME Init PROVE PeersInv
    OBVIOUS
  <1>1. Shapes
    BY PeersAssumption DEF Init, Shapes, Unused, NoPeer, PeerState, Name, BanState
  <1>2. OnlyEarlyPingsViolate
    BY DEF Init, OnlyEarlyPingsViolate, Honest
  <1>3. \A x \in Link \X End : LinkAgreed(x)
    <2> SUFFICES ASSUME NEW x \in Link \X End PROVE LinkAgreed(x)
      OBVIOUS
    <2>1. end[x] = NoPeer
      BY DEF Init
    <2> QED
      BY <2>1 DEF LinkAgreed, Agreed, Live, NoPeer
  <1> QED
    BY <1>1, <1>2, <1>3 DEF PeersInv

\* A step at one end of a connection concerns both its ends and nothing else.
LEMMA EndStep ==
    ASSUME \A z \in Link \X End : LinkAgreed(z), NEW x \in Link \X End, link' = link,
           \A z \in Link \X End : z \notin {x, Other(x)} => end'[z] = end[z] /\ stream'[z] = stream[z],
           BothHonest(x) => /\ Agreed(x[2], end'[x], end'[Other(x)], stream'[x])
                            /\ Agreed(Other(x)[2], end'[Other(x)], end'[x], stream'[Other(x)])
    PROVE  \A z \in Link \X End : LinkAgreed(z)'
  <1> SUFFICES ASSUME NEW z \in Link \X End PROVE LinkAgreed(z)'
    OBVIOUS
  <1>1. /\ Other(x) \in Link \X End /\ Other(z) \in Link \X End
        /\ Other(Other(x)) = x /\ Other(Other(z)) = z
        /\ BothHonest(Other(x)) <=> BothHonest(x)
    <2>1. Owner(Other(x)) = Remote(x) /\ Remote(Other(x)) = Owner(x)
      BY OtherEnd
    <2> QED
      BY <2>1, OtherEnd DEF BothHonest
  <1>2. BothHonest(z)' <=> BothHonest(z)
    BY DEF BothHonest, Owner, Remote
  <1>3. Other(z)' = Other(z) /\ Other(x)' = Other(x)
    BY DEF Other
  <1>4. LinkAgreed(z)' <=> (BothHonest(z) => Agreed(z[2], end'[z], end'[Other(z)], stream'[z]))
    BY <1>2, <1>3 DEF LinkAgreed, Agreed, Live, Waits, Plain, Sealed
  <1>5. CASE z = x
    BY <1>4, <1>5
  <1>6. CASE z = Other(x)
    BY <1>1, <1>4, <1>6
  <1>7. CASE z \notin {x, Other(x)}
    <2>1. Other(z) \notin {x, Other(x)}
      BY <1>1, <1>7
    <2>2. end'[z] = end[z] /\ stream'[z] = stream[z] /\ end'[Other(z)] = end[Other(z)]
      BY <1>1, <1>7, <2>1
    <2> QED
      BY <1>4, <2>2 DEF LinkAgreed
  <1> QED
    BY <1>5, <1>6, <1>7
-----------------------------------------------------------------------------
(* What happens to one end and its stream.                                 *)

\* The first message has been read.
LEMMA Taken ==
    ASSUME NEW side \in End, NEW e \in PeerState, NEW e2 \in PeerState, NEW f \in PeerState,
           NEW q \in Seq(Message), q # <<>>, ~IsEarly(q[1]), Agreed(side, e, f, q), e.at = "open",
           e2.version = e.version, e2.cipher = e.cipher,
           IF Waits(e) THEN e2.at \in {"twin", "closed"} ELSE e2.at \in {"open", "closed"},
           e2.done => e.done \/ q[1].sealed \/ ~Live(e2)
    PROVE  Agreed(side, e2, f, Tail(q))
  <1>1. /\ Tail(q) \in Seq(Message) /\ Len(Tail(q)) \in Nat /\ Len(Tail(q)) = Len(q) - 1 /\ 1 \in 1..Len(q)
        /\ \A i \in 1..Len(Tail(q)) : i + 1 \in 1..Len(q) /\ i + 1 > 1 /\ Tail(q)[i] = q[i + 1]
    OBVIOUS
  <1>2. Live(e)
    BY DEF Live
  <1>3. ASSUME NEW i \in 1..Len(Tail(q)), NoneEarly(Tail(q), i) PROVE NoneEarly(q, i + 1)
    <2> SUFFICES ASSUME NEW j \in 1..(i + 1) PROVE ~IsEarly(q[j])
      BY DEF NoneEarly
    <2>1. CASE j = 1
      BY <2>1
    <2>2. CASE j # 1
      <3>1. j - 1 \in 1..i /\ j - 1 \in 1..Len(Tail(q)) /\ Tail(q)[j - 1] = q[j]
        BY <1>1, <2>2
      <3> QED
        BY <1>3, <3>1 DEF NoneEarly
    <2> QED
      BY <2>1, <2>2
  <1>4. \A i \in 1..Len(Tail(q)) : NoneEarly(Tail(q), i) => Sealed(Tail(q)[i])
    BY <1>1, <1>2, <1>3 DEF Agreed
  <1>5. Live(e2) => ~Waits(e2)
    BY <1>2 DEF Waits, Live
  <1>6. side = "out" /\ Live(f) /\ ~f.version => ~(q # <<>>)
    BY <1>2 DEF Agreed
  <1> QED
    BY <1>1, <1>2, <1>4, <1>5, <1>6 DEF Agreed, Live, Waits, PeerState, End

\* The other end has changed, but not what it has sent.
LEMMA Partner ==
    ASSUME NEW side \in End, NEW e \in PeerState, NEW f \in PeerState, NEW f2 \in PeerState, NEW q,
           Agreed(side, e, f, q), Live(f2) => Live(f) /\ f2.version = f.version
    PROVE  Agreed(side, e, f2, q)
  BY DEF Agreed

\* More messages come, encrypted, from an end that has read a version.
LEMMA MoreSealed ==
    ASSUME NEW side \in End, NEW e \in PeerState, NEW f \in PeerState,
           NEW q \in Seq(Message), NEW ms \in Seq(Message), Agreed(side, e, f, q), Live(f), f.version,
           \A i \in 1..Len(ms) : Sealed(ms[i])
    PROVE  Agreed(side, e, f, q \o ms)
  <1> SUFFICES ASSUME Live(e) PROVE Agreed(side, e, f, q \o ms)
    BY DEF Agreed
  <1>1. /\ q \o ms \in Seq(Message) /\ Len(q \o ms) = Len(q) + Len(ms) /\ Len(q) \in Nat /\ Len(ms) \in Nat
        /\ \A i \in 1..Len(q \o ms) : \/ i \in 1..Len(q) /\ (q \o ms)[i] = q[i]
                                      \/ i > Len(q) /\ i - Len(q) \in 1..Len(ms) /\ (q \o ms)[i] = ms[i - Len(q)]
    OBVIOUS
  <1>2. Waits(e) => q # <<>> /\ 1 \in 1..Len(q) /\ (q \o ms)[1] = q[1] /\ q \o ms # <<>>
    <2>1. Waits(e) => q # <<>>
      BY DEF Agreed
    <2> QED
      BY <1>1, <2>1
  <1>3. ASSUME NEW i \in 1..Len(q \o ms), i > 1 \/ ~Waits(e), NoneEarly(q \o ms, i)
        PROVE  Sealed((q \o ms)[i])
    <2>1. CASE i \in 1..Len(q) /\ (q \o ms)[i] = q[i]
      <3>1. \A j \in 1..i : j \in 1..Len(q) /\ (q \o ms)[j] = q[j]
        BY <1>1, <2>1
      <3>2. NoneEarly(q, i)
        BY <1>3, <3>1 DEF NoneEarly
      <3> QED
        BY <1>3, <2>1, <3>2 DEF Agreed
    <2>2. CASE i - Len(q) \in 1..Len(ms) /\ (q \o ms)[i] = ms[i - Len(q)]
      BY <2>2
    <2> QED
      BY <1>1, <2>1, <2>2
  <1>4. \A i \in 1..Len(q \o ms) : (q \o ms)[i].sealed /\ Live(f) => f.version
    OBVIOUS
  <1> QED
    BY <1>2, <1>3, <1>4 DEF Agreed

\* An end that has not read a version pings.
LEMMA MoreEarly ==
    ASSUME NEW side \in End, NEW e \in PeerState, NEW f \in PeerState, NEW q \in Seq(Message),
           NEW m \in Message, Agreed(side, e, f, q), Live(f), ~f.version, IsEarly(m)
    PROVE  Agreed(side, e, f, Append(q, m))
  <1> SUFFICES ASSUME Live(e) PROVE Agreed(side, e, f, Append(q, m))
    BY DEF Agreed
  <1> DEFINE r == Append(q, m)
  <1>1. /\ r # <<>> /\ Len(r) = Len(q) + 1 /\ Len(q) \in Nat /\ r[Len(q) + 1] = m
        /\ \A i \in 1..Len(q) : r[i] = q[i]
        /\ q = <<>> => r[1] = m
        /\ q # <<>> => 1 \in 1..Len(q)
        /\ \A i \in 1..Len(r) : i \in 1..Len(q) \/ i = Len(q) + 1
    OBVIOUS
  <1> HIDE DEF r
  <1>2. ASSUME NEW i \in 1..Len(r), i > 1 \/ ~Waits(e), NoneEarly(r, i) PROVE Sealed(r[i])
    <2>1. i \in 1..Len(q)
      BY <1>1, <1>2 DEF NoneEarly
    <2>2. \A j \in 1..i : j \in 1..Len(q)
      BY <1>1, <2>1
    <2>3. NoneEarly(q, i)
      BY <1>1, <1>2, <2>2 DEF NoneEarly
    <2> QED
      BY <1>1, <1>2, <2>1, <2>3 DEF Agreed
  <1>3. \A i \in 1..Len(r) : r[i].sealed /\ Live(f) => f.version
    BY <1>1 DEF Agreed, IsEarly
  <1>4. q = <<>> \/ IsEarly(q[1]) => IsEarly(r[1])
    BY <1>1
  <1>5. Waits(e) => Plain(r[1]) \/ IsEarly(r[1])
    BY <1>1 DEF Agreed
  <1>6. Agreed(side, e, f, r)
    BY <1>1, <1>2, <1>3, <1>4, <1>5 DEF Agreed
  <1> QED
    BY <1>6 DEF r

-----------------------------------------------------------------------------
(* The steps at an end.                                                    *)

\* What is known at an end x of a connection between two honest nodes.
LEMMA AtEnd ==
    ASSUME PeersInv, NEW x \in Link \X End
    PROVE  /\ end[x] \in PeerState /\ end[Other(x)] \in PeerState
           /\ stream[x] \in Seq(Message) /\ stream[Other(x)] \in Seq(Message)
           /\ BothHonest(x) => /\ Agreed(x[2], end[x], end[Other(x)], stream[x])
                               /\ Agreed(Other(x)[2], end[Other(x)], end[x], stream[Other(x)])
  <1>1. Other(x) \in Link \X End /\ Other(Other(x)) = x
    BY OtherEnd
  <1>2. BothHonest(Other(x)) <=> BothHonest(x)
    <2>1. Owner(Other(x)) = Remote(x) /\ Remote(Other(x)) = Owner(x)
      BY OtherEnd
    <2> QED
      BY <2>1 DEF BothHonest
  <1> QED
    BY <1>1, <1>2 DEF PeersInv, Shapes, LinkAgreed

\* Honest nodes send each other nothing that is taken for a violation but early
\* pings, and those are.
LEMMA NoViolation ==
    ASSUME PeersInv, NEW x \in Link \X End, BothHonest(x),
           end[x].at = "open", stream[x] # <<>>
    PROVE  Violates(x) <=> IsEarly(Head(stream[x]))
  <1>1. /\ end[x] \in PeerState /\ stream[x] \in Seq(Message)
        /\ Agreed(x[2], end[x], end[Other(x)], stream[x])
    BY AtEnd
  <1>2. Head(stream[x]) = stream[x][1] /\ 1 \in 1..Len(stream[x])
    BY <1>1
  <1>3. CASE IsEarly(Head(stream[x]))
    BY <1>1, <1>2, <1>3 DEF Violates, Readable, Agreed, Live, IsEarly, PeerState
  <1>4. CASE ~IsEarly(Head(stream[x]))
    <2>1. \A j \in 1..1 : j = 1
      OBVIOUS
    <2>2. NoneEarly(stream[x], 1)
      BY <1>2, <1>4, <2>1 DEF NoneEarly
    <2> QED
      BY <1>1, <1>2, <1>4, <2>2 DEF Violates, Readable, Agreed, Live, Waits, Plain, Sealed, PeerState
  <1> QED
    BY <1>3, <1>4

\* The types are kept by a step that takes a message, and perhaps answers.
LEMMA TookFacts ==
    ASSUME PeersInv, NEW x \in Link \X End, stream[x] # <<>>
    PROVE  /\ Took(x) \in [Link \X End -> Seq(Message)] /\ Took(x)[x] = Tail(stream[x])
           /\ \A z \in Link \X End : z # x => Took(x)[z] = stream[z]
  BY DEF PeersInv, Shapes, Took

\* An end has names on both sides.
LEMMA NamesOfEnds ==
    ASSUME Shapes, NEW x \in Link \X End
    PROVE  Owner(x) \in Name /\ Remote(x) \in Name
  BY DEF Shapes, Owner, Remote

LEMMA VersionStep ==
    ASSUME PeersInv, NEW x \in Link \X End, OnVersion(x), UNCHANGED cast
    PROVE  PeersInv'
  <1>1. PICK closed \in BOOLEAN :
           end' = [end EXCEPT ![x] = [end[x] EXCEPT !.at = IF closed THEN "closed" ELSE "twin",
                                                    !.done = closed]]
    <2>1. ((Remote(x) = Owner(x)) \/ \E y \in PeersOf(Owner(x)) \ {x} : end[y].version /\ Remote(y) = Remote(x))
             \in BOOLEAN
      OBVIOUS
    <2> QED
      BY <2>1 DEF OnVersion
  <1>2. /\ end[x].at = "open" /\ Owner(x) \in Honest /\ stream[x] # <<>> /\ ~Violates(x)
        /\ Head(stream[x]).type = "version"
        /\ stream' = Took(x) /\ link' = link /\ ban' = ban
    BY DEF OnVersion, Reads
  <1>3. book' \in [Node -> SUBSET Name]
    <2>1. book \in [Node -> SUBSET Name]
      BY DEF PeersInv, Shapes
    <2>2. book' = book \/ book' = [book EXCEPT ![Owner(x)] = @ \ {Owner(x)}]
      BY DEF OnVersion, NoteLocalAddress
    <2> QED
      BY <2>1, <2>2
  <1> DEFINE new == [end[x] EXCEPT !.at = IF closed THEN "closed" ELSE "twin", !.done = closed]
  <1>4. /\ end[x] \in PeerState /\ new \in PeerState
        /\ new.version = end[x].version /\ new.cipher = end[x].cipher /\ new.at \in {"twin", "closed"}
        /\ new.done => ~Live(new)
    BY AtEnd DEF PeerState, Live
  <1>5. end' = [end EXCEPT ![x] = new]
    BY <1>1
  <1> HIDE DEF new
  <1>6. Shapes'
    BY <1>2, <1>3, <1>4, <1>5, TookFacts DEF PeersInv, Shapes
  <1>7. OnlyEarlyPingsViolate'
    BY <1>2 DEF PeersInv, OnlyEarlyPingsViolate
  <1>8. /\ end'[x] = new /\ stream'[x] = Tail(stream[x])
        /\ end'[Other(x)] = end[Other(x)] /\ stream'[Other(x)] = stream[Other(x)]
        /\ \A z \in Link \X End : z \notin {x, Other(x)} => end'[z] = end[z] /\ stream'[z] = stream[z]
    BY <1>2, <1>5, TookFacts, OtherEnd DEF PeersInv, Shapes
  <1>9. ASSUME BothHonest(x)
        PROVE  /\ Agreed(x[2], new, end[Other(x)], Tail(stream[x]))
               /\ Agreed(Other(x)[2], end[Other(x)], new, stream[Other(x)])
    <2>1. /\ Agreed(x[2], end[x], end[Other(x)], stream[x]) /\ stream[x] \in Seq(Message)
          /\ Agreed(Other(x)[2], end[Other(x)], end[x], stream[Other(x)]) /\ end[Other(x)] \in PeerState
          /\ x[2] \in End /\ Other(x)[2] \in End
      BY <1>9, AtEnd, OtherEnd
    <2>2. Waits(end[x])
      BY <1>2, <1>4 DEF Violates, Waits, PeerState
    <2>5. ~IsEarly(stream[x][1])
      BY <1>2, <1>9, <2>1, NoViolation
    <2>3. Agreed(x[2], new, end[Other(x)], Tail(stream[x]))
      BY <1>2, <1>4, <2>1, <2>2, <2>5, Taken
    <2>4. Live(end[x])
      BY <1>2 DEF Live
    <2> QED
      BY <1>4, <2>1, <2>3, <2>4, Partner
  <1>10. \A z \in Link \X End : LinkAgreed(z)'
    BY <1>2, <1>8, <1>9, EndStep DEF PeersInv
  <1> QED
    BY <1>6, <1>7, <1>10 DEF PeersInv

LEMMA AnswerVersionStep ==
    ASSUME PeersInv, NEW x \in Link \X End, AnswerVersion(x), UNCHANGED cast
    PROVE  PeersInv'
  <1> DEFINE y == Other(x)
             new == [end[x] EXCEPT !.at = "open", !.version = TRUE, !.cipher = TRUE]
  <1>1. /\ end[x] \in PeerState /\ end[y] \in PeerState
        /\ stream[x] \in Seq(Message) /\ stream[y] \in Seq(Message)
        /\ y \in Link \X End /\ y # x /\ y[2] \in End /\ x[2] \in End /\ y[2] # x[2]
    BY AtEnd, OtherEnd
  <1>2. /\ new \in PeerState /\ new.at = "open" /\ new.version = TRUE /\ new.cipher = TRUE
        /\ new.done = end[x].done
    BY <1>1 DEF PeerState
  <1>3. /\ end[x].at = "twin" /\ end' = [end EXCEPT ![x] = new] /\ link' = link /\ ban' = ban
        /\ stream' = Sent(x, Answers(x))
        /\ book' = [book EXCEPT ![Owner(x)] = @ \cup {Remote(x)}]
    BY DEF AnswerVersion
  <1> DEFINE version == Msg("version", FALSE, {})
             verack == Msg("verack", TRUE, {})
  <1>4. /\ version \in Message /\ verack \in Message /\ Plain(version) /\ Sealed(verack)
        /\ Answers(x) = IF x[2] = "in" THEN <<version, verack>> ELSE <<verack>>
    <2>1. /\ version \in Message /\ verack \in Message /\ Plain(version) /\ Sealed(verack)
      BY DEF Msg, Message, MessageType, Plain, Sealed
    <2> QED
      BY <2>1 DEF Answers
  <1> HIDE DEF version, verack
  <1> HIDE DEF new
  <1> DEFINE r == IF Hears(x) THEN stream[y] \o Answers(x) ELSE stream[y]
  <1>5. stream' = [stream EXCEPT ![y] = r] /\ r \in Seq(Message)
    <2>1. r \in Seq(Message)
      <3>1. <<version, verack>> \in Seq(Message) /\ <<verack>> \in Seq(Message)
        BY <1>4
      <3> QED
        BY <1>1, <1>4, <3>1
    <2>2. CASE Hears(x)
      BY <1>3, <2>1, <2>2 DEF Sent
    <2>3. CASE ~Hears(x)
      BY <1>1, <1>3, <2>1, <2>3 DEF Sent, PeersInv, Shapes
    <2> QED
      BY <2>2, <2>3
  <1> HIDE DEF r
  <1>6. ASSUME BothHonest(x)
        PROVE  Agreed(x[2], new, end[y], stream[x]) /\ Agreed(y[2], end[y], new, r)
    <2>1. Agreed(x[2], end[x], end[y], stream[x]) /\ Agreed(y[2], end[y], end[x], stream[y])
      BY <1>6, AtEnd
    <2>2. Agreed(x[2], new, end[y], stream[x])
      BY <1>1, <1>2, <1>3, <2>1 DEF Agreed, Live, Waits, PeerState
    <2>3. Live(end[x]) /\ end[x].version = FALSE /\ Live(new)
      BY <1>1, <1>2, <1>3, <2>1 DEF Agreed, Live, PeerState
    <2>7. Live(end[y]) => Hears(x)
      BY <1>6 DEF Live, Hears, BothHonest, Honest
    <2>4. CASE ~Live(end[y])
      BY <2>2, <2>4 DEF Agreed
    <2>5. CASE Live(end[y]) /\ x[2] = "out"
      <3>1. Agreed(y[2], end[y], new, stream[y])
        BY <1>1, <1>2, <2>1, <2>3, <2>5 DEF Agreed, End
      <3>2. /\ r = stream[y] \o <<verack>> /\ <<verack>> \in Seq(Message)
            /\ \A i \in 1..Len(<<verack>>) : Sealed(<<verack>>[i])
        BY <1>4, <2>5, <2>7 DEF r
      <3> QED
        BY <1>1, <1>2, <2>2, <2>3, <3>1, <3>2, MoreSealed
    <2>6. CASE Live(end[y]) /\ x[2] = "in"
      <3>1. y[2] = "out"
        BY <1>1, <2>6 DEF End
      <3>2. Waits(end[y]) /\ (stream[y] = <<>> \/ IsEarly(stream[y][1]))
        BY <2>1, <2>3, <2>6, <3>1 DEF Agreed
      <3>3. CASE stream[y] = <<>>
        <4>1. r = <<version, verack>>
          <5>1. <<>> \o <<version, verack>> = <<version, verack>>
            OBVIOUS
          <5> QED
            BY <1>4, <2>6, <2>7, <3>3, <5>1 DEF r
        <4>2. /\ r # <<>> /\ r[1] = version /\ Len(r) = 2 /\ r[2] = verack
              /\ \A i \in 1..Len(r) : (i > 1 \/ ~Waits(end[y])) => Sealed(r[i])
          BY <1>4, <3>2, <4>1
        <4> QED
          BY <1>2, <1>4, <2>1, <2>2, <2>3, <2>6, <3>1, <3>2, <4>2 DEF Agreed
      <3>4. CASE stream[y] # <<>>
        <4>1. r = stream[y] \o <<version, verack>> /\ <<version, verack>> \in Seq(Message)
          BY <1>4, <2>6, <2>7 DEF r
        <4>2. /\ r # <<>> /\ r[1] = stream[y][1] /\ 1 \in 1..Len(stream[y])
          BY <1>1, <3>4, <4>1
        <4>3. ASSUME NEW i \in 1..Len(r) PROVE ~NoneEarly(r, i)
          <5>1. 1 \in 1..i
            OBVIOUS
          <5> QED
            BY <3>2, <3>4, <4>2, <5>1 DEF NoneEarly
        <4>4. \A i \in 1..Len(r) : r[i].sealed /\ Live(new) => new.version
          BY <1>2
        <4> QED
          BY <1>2, <2>1, <2>3, <2>2, <2>6, <3>1, <3>2, <3>4, <4>2, <4>3, <4>4 DEF Agreed
      <3> QED
        BY <3>3, <3>4
    <2> QED
      BY <1>1, <2>2, <2>4, <2>5, <2>6 DEF End
  <1>7. Shapes'
    <2>1. book' \in [Node -> SUBSET Name]
      BY <1>3, NamesOfEnds DEF PeersInv, Shapes
    <2> QED
      BY <1>2, <1>3, <1>5, <2>1 DEF PeersInv, Shapes
  <1>8. OnlyEarlyPingsViolate'
    BY <1>3 DEF PeersInv, OnlyEarlyPingsViolate
  <1>9. /\ end'[x] = new /\ stream'[x] = stream[x] /\ end'[y] = end[y] /\ stream'[y] = r
        /\ \A z \in Link \X End : z \notin {x, y} => end'[z] = end[z] /\ stream'[z] = stream[z]
    BY <1>1, <1>3, <1>5 DEF PeersInv, Shapes
  <1>10. \A z \in Link \X End : LinkAgreed(z)'
    BY <1>3, <1>6, <1>9, EndStep DEF PeersInv
  <1> QED
    BY <1>7, <1>8, <1>10 DEF PeersInv

\* An end that has read a version takes a message and answers, or does not,
\* to an end that can read it.
LEMMA AnswerStep ==
    ASSUME PeersInv, NEW x \in Link \X End, UNCHANGED <<cast, link, ban>>,
           end[x].at = "open", stream[x] # <<>>, end[x].version, ~Violates(x),
           NEW done \in BOOLEAN, done /\ BothHonest(x) => end[x].done \/ Head(stream[x]).sealed,
           end' = [end EXCEPT ![x].done = done],
           NEW ms \in Seq(Message), \A i \in 1..Len(ms) : Sealed(ms[i]),
           stream' = Answered(x, ms),
           book' \in [Node -> SUBSET Name]
    PROVE  PeersInv'
  <1> DEFINE y == Other(x)
             e == end[x]
             f == end[y]
             new == [e EXCEPT !.done = done]
             r == IF Hears(x) THEN stream[y] \o ms ELSE stream[y]
  <1>1. /\ e \in PeerState /\ f \in PeerState
        /\ stream[x] \in Seq(Message) /\ stream[y] \in Seq(Message)
        /\ y \in Link \X End /\ y # x /\ y[2] \in End /\ x[2] \in End /\ y[2] # x[2]
    BY AtEnd, OtherEnd
  <1>2. /\ new \in PeerState /\ new.at = "open" /\ new.version = e.version /\ new.cipher = e.cipher
        /\ new.done = done
    BY <1>1 DEF PeerState
  <1>3. end' = [end EXCEPT ![x] = new]
    BY DEF PeersInv, Shapes
  <1>4. r \in Seq(Message) /\ stream[x][1] = Head(stream[x])
    BY <1>1
  <1> HIDE DEF new, r
  <1>5. /\ stream' \in [Link \X End -> Seq(Message)] /\ stream'[x] = Tail(stream[x]) /\ stream'[y] = r
        /\ \A z \in Link \X End : z \notin {x, y} => stream'[z] = stream[z]
    <2>2. Took(x) \in [Link \X End -> Seq(Message)] /\ Took(x)[x] = Tail(stream[x])
      BY TookFacts
    <2>3. \A z \in Link \X End : z # x => Took(x)[z] = stream[z]
      BY TookFacts
    <2>1. stream' = [Took(x) EXCEPT ![y] = r]
      BY <1>1, <2>2, <2>3 DEF r, Answered
    <2>4. stream' \in [Link \X End -> Seq(Message)]
      BY <1>4, <2>1, <2>2
    <2> QED
      BY <1>1, <2>1, <2>2, <2>3, <2>4
  <1>6. ASSUME BothHonest(x)
        PROVE  Agreed(x[2], new, f, Tail(stream[x])) /\ Agreed(y[2], f, new, r)
    <2>1. Agreed(x[2], e, f, stream[x]) /\ Agreed(y[2], f, e, stream[y])
      BY <1>6, AtEnd
    <2>2. ~Waits(e) /\ Live(e) /\ Live(new)
      BY <1>2 DEF Waits, Live
    <2>6. ~IsEarly(stream[x][1])
      BY <1>4, <1>6, NoViolation
    <2>3. Agreed(x[2], new, f, Tail(stream[x]))
      BY <1>1, <1>2, <1>4, <1>6, <2>1, <2>2, <2>6, Taken
    <2>4. Agreed(y[2], f, new, stream[y])
      BY <1>1, <1>2, <2>1, <2>2, Partner
    <2>5. Agreed(y[2], f, new, r)
      <3>1. Agreed(y[2], f, new, stream[y] \o ms)
        BY <1>1, <1>2, <2>2, <2>4, MoreSealed
      <3> QED
        BY <2>4, <3>1 DEF r
    <2> QED
      BY <2>3, <2>5
  <1>7. Shapes' /\ link' = link
    <2>1. cast' = cast /\ link' = link /\ ban' = ban
      OBVIOUS
    <2>2. end' \in [Link \X End -> PeerState]
      BY <1>2, <1>3 DEF PeersInv, Shapes
    <2> QED
      BY <1>5, <2>1, <2>2 DEF PeersInv, Shapes
  <1>8. OnlyEarlyPingsViolate'
    BY DEF PeersInv, OnlyEarlyPingsViolate
  <1>9. /\ end'[x] = new /\ end'[y] = f
        /\ \A z \in Link \X End : z \notin {x, y} => end'[z] = end[z]
    BY <1>1, <1>3 DEF PeersInv, Shapes
  <1>10. \A z \in Link \X End : LinkAgreed(z)'
    <2>1. \A z \in Link \X End : LinkAgreed(z)
      BY DEF PeersInv
    <2>2. /\ \A z \in Link \X End : z \notin {x, Other(x)} => end'[z] = end[z] /\ stream'[z] = stream[z]
          /\ BothHonest(x) => /\ Agreed(x[2], end'[x], end'[Other(x)], stream'[x])
                              /\ Agreed(Other(x)[2], end'[Other(x)], end'[x], stream'[Other(x)])
      BY <1>5, <1>6, <1>9
    <2> HIDE DEF y, e, f
    <2> QED
      BY <1>7, <2>1, <2>2, EndStep
  <1> QED
    BY <1>7, <1>8, <1>10 DEF PeersInv

\* verack, getaddr, addr, ping and pong.
LEMMA MessageStep ==
    ASSUME PeersInv, NEW x \in Link \X End, OnVerack(x) \/ OnGetAddr(x) \/ OnAddr(x) \/ OnPing(x),
           UNCHANGED cast
    PROVE  PeersInv'
  <1> DEFINE y == Other(x)
  <1>1. /\ end[x] \in PeerState /\ stream[x] \in Seq(Message) /\ stream[y] \in Seq(Message)
        /\ y \in Link \X End /\ y # x /\ book \in [Node -> SUBSET Name]
        /\ end \in [Link \X End -> PeerState] /\ stream \in [Link \X End -> Seq(Message)]
    BY AtEnd, OtherEnd DEF PeersInv, Shapes
  <1>2. /\ end[x].at = "open" /\ Owner(x) \in Honest /\ stream[x] # <<>> /\ ~Violates(x)
        /\ end[x].version /\ Head(stream[x]).sealed = end[x].cipher /\ UNCHANGED <<cast, link, ban>>
    BY DEF OnVerack, OnGetAddr, OnAddr, OnPing, Reads, Violates, Readable
  <1>3. Head(stream[x]) \in Message
    BY <1>1, <1>2
  <1>4. /\ <<>> \in Seq(Message) /\ \A i \in 1..Len(<<>>) : Sealed(<<>>[i])
    OBVIOUS
  <1>5. Took(x) = Answered(x, <<>>)
    <2>1. stream[y] \o <<>> = stream[y]
      BY <1>1
    <2>2. Took(x) = [Took(x) EXCEPT ![y] = stream[y] \o <<>>]
      BY <1>1, <1>2, <2>1, TookFacts
    <2> QED
      BY <2>2 DEF Answered
  <1>6. CASE OnVerack(x)
    <2> DEFINE getaddr == Msg("getaddr", TRUE, {})
    <2>1. /\ <<getaddr>> \in Seq(Message) /\ \A i \in 1..Len(<<getaddr>>) : Sealed(<<getaddr>>[i])
      <3>1. getaddr \in Message /\ Sealed(getaddr)
        BY DEF Msg, Message, MessageType, Sealed
      <3> HIDE DEF getaddr
      <3> QED
        BY <1>1, <3>1
    <2>2. PICK ms \in {<<>>, <<getaddr>>} : stream' = Answered(x, ms)
      BY <1>6 DEF OnVerack
    <2>3. end' = [end EXCEPT ![x].done = TRUE] /\ book' = book
      BY <1>6 DEF OnVerack
    <2>4. BothHonest(x) => Head(stream[x]).sealed
      BY <1>1, <1>2, AtEnd DEF Agreed, Live
    <2> HIDE DEF getaddr
    <2> QED
      BY <1>1, <1>2, <1>3, <1>4, <2>1, <2>2, <2>3, <2>4, AnswerStep
  <1>7. CASE OnGetAddr(x)
    <2> DEFINE addr == Msg("addr", TRUE, book[Owner(x)])
    <2>1. /\ <<addr>> \in Seq(Message) /\ \A i \in 1..Len(<<addr>>) : Sealed(<<addr>>[i])
      <3>1. addr \in Message /\ Sealed(addr)
        BY <1>1, <1>2 DEF Msg, Message, MessageType, Sealed, Honest
      <3> HIDE DEF addr
      <3> QED
        BY <1>1, <3>1
    <2>2. PICK ms \in {<<>>, <<addr>>} : stream' = Answered(x, ms)
      BY <1>7 DEF OnGetAddr
    <2>3. end' = [end EXCEPT ![x].done = end[x].done] /\ end[x].done \in BOOLEAN /\ book' = book
      BY <1>1, <1>7 DEF OnGetAddr, PeerState
    <2> HIDE DEF addr
    <2> QED
      BY <1>1, <1>2, <1>3, <1>4, <2>1, <2>2, <2>3, AnswerStep
  <1>8. CASE OnAddr(x)
    <2>1. stream' = Answered(x, <<>>)
      BY <1>5, <1>8 DEF OnAddr
    <2>2. book' \in [Node -> SUBSET Name]
      BY <1>1, <1>2, <1>3, <1>8 DEF OnAddr, KnownAddresses, Message, Honest
    <2>3. end' = [end EXCEPT ![x].done = end[x].done] /\ end[x].done \in BOOLEAN
      BY <1>1, <1>8 DEF OnAddr, PeerState
    <2> QED
      BY <1>1, <1>2, <1>3, <1>4, <2>1, <2>2, <2>3, AnswerStep
  <1>9. CASE OnPing(x)
    <2> DEFINE pong == Msg("pong", TRUE, {})
    <2>1. /\ <<pong>> \in Seq(Message) /\ \A i \in 1..Len(<<pong>>) : Sealed(<<pong>>[i])
      <3>1. pong \in Message /\ Sealed(pong)
        BY DEF Msg, Message, MessageType, Sealed
      <3> HIDE DEF pong
      <3> QED
        BY <1>1, <3>1
    <2>2. PICK ms \in {<<>>, <<pong>>} : stream' = Answered(x, ms)
      BY <1>9 DEF OnPing
    <2>3. end' = [end EXCEPT ![x].done = end[x].done] /\ end[x].done \in BOOLEAN /\ book' = book
      BY <1>1, <1>9 DEF OnPing, PeerState
    <2> HIDE DEF pong
    <2> QED
      BY <1>1, <1>2, <1>3, <1>4, <2>1, <2>2, <2>3, AnswerStep
  <1> QED
    BY <1>6, <1>7, <1>8, <1>9

\* An end opens or is given up, and its stream is as it was or empty.
LEMMA EndMoves ==
    ASSUME PeersInv, NEW x \in Link \X End, UNCHANGED <<cast, link>>,
           NEW new \in PeerState, end' = [end EXCEPT ![x] = new],
           NEW q \in Seq(Message), stream' = [stream EXCEPT ![x] = q],
           BothHonest(x) => \/ ~Live(new)
                            \/ /\ end[x].at = "dialled" /\ new = [end[x] EXCEPT !.at = "open"]
                               /\ q = stream[x] /\ x[2] = "in",
           book' \in [Node -> SUBSET Name], ban' \in [Node -> [Node -> BanState]],
           OnlyEarlyPingsViolate'
    PROVE  PeersInv'
  <1> DEFINE y == Other(x)
  <1>1. /\ end[x] \in PeerState /\ end[y] \in PeerState /\ y \in Link \X End /\ y # x
        /\ y[2] \in End /\ x[2] \in End /\ stream[y] \in Seq(Message)
    BY AtEnd, OtherEnd
  <1>2. Shapes'
    <2>1. cast' = cast /\ link' = link
      OBVIOUS
    <2>2. end' \in [Link \X End -> PeerState] /\ stream' \in [Link \X End -> Seq(Message)]
      BY DEF PeersInv, Shapes
    <2> QED
      BY <2>1, <2>2 DEF PeersInv, Shapes
  <1>3. /\ end'[x] = new /\ stream'[x] = q /\ end'[y] = end[y] /\ stream'[y] = stream[y]
        /\ \A z \in Link \X End : z \notin {x, y} => end'[z] = end[z] /\ stream'[z] = stream[z]
    BY <1>1 DEF PeersInv, Shapes
  <1>4. ASSUME BothHonest(x)
        PROVE  Agreed(x[2], new, end[y], q) /\ Agreed(y[2], end[y], new, stream[y])
    <2>1. Agreed(x[2], end[x], end[y], stream[x]) /\ Agreed(y[2], end[y], end[x], stream[y])
      BY <1>4, AtEnd
    <2>2. CASE ~Live(new)
      <3>1. Agreed(x[2], new, end[y], q)
        BY <2>2 DEF Agreed
      <3> QED
        BY <1>1, <2>1, <2>2, <3>1, Partner
    <2>3. CASE /\ end[x].at = "dialled" /\ new = [end[x] EXCEPT !.at = "open"] /\ q = stream[x] /\ x[2] = "in"
      <3>1. /\ new.at = "open" /\ new.version = end[x].version /\ new.cipher = end[x].cipher
            /\ new.done = end[x].done /\ Live(end[x]) /\ Live(new) /\ (Waits(new) <=> Waits(end[x]))
        BY <1>1, <2>3 DEF PeerState, Live, Waits
      <3>2. Agreed(x[2], new, end[y], q)
        BY <2>1, <2>3, <3>1 DEF Agreed
      <3>3. Agreed(y[2], end[y], new, stream[y])
        BY <1>1, <2>1, <3>1, Partner
      <3> QED
        BY <3>2, <3>3
    <2> QED
      BY <1>4, <2>2, <2>3
  <1>5. \A z \in Link \X End : LinkAgreed(z)'
    <2>1. link' = link /\ \A z \in Link \X End : LinkAgreed(z)
      BY DEF PeersInv
    <2>2. /\ \A z \in Link \X End : z \notin {x, Other(x)} => end'[z] = end[z] /\ stream'[z] = stream[z]
          /\ BothHonest(x) => /\ Agreed(x[2], end'[x], end'[Other(x)], stream'[x])
                              /\ Agreed(Other(x)[2], end'[Other(x)], end'[x], stream'[Other(x)])
      BY <1>3, <1>4
    <2> HIDE DEF y
    <2> QED
      BY <2>1, <2>2, EndStep
  <1> QED
    BY <1>2, <1>5 DEF PeersInv

LEMMA AcceptStep ==
    ASSUME PeersInv, NEW x \in Link \X End, Accept(x), UNCHANGED cast
    PROVE  PeersInv'
  <1> DEFINE n == Owner(x)
             m == Remote(x)
  <1>1. PICK at \in {"gone", "open"} : end' = [end EXCEPT ![x].at = at]
    BY DEF Accept
  <1>2. /\ x[2] = "in" /\ end[x].at = "dialled" /\ link' = link /\ stream' = stream
        /\ \/ ban' = ban /\ book' = book
           \/ ban' = [ban EXCEPT ![n][m] = "other"] /\ book' = [book EXCEPT ![n] = @ \ {m}]
    BY DEF Accept, Ban
  <1>3. /\ end \in [Link \X End -> PeerState] /\ stream \in [Link \X End -> Seq(Message)]
        /\ book \in [Node -> SUBSET Name] /\ ban \in [Node -> [Node -> BanState]]
    BY DEF PeersInv, Shapes
  <1> DEFINE new == [end[x] EXCEPT !.at = at]
  <1>4. new \in PeerState /\ end' = [end EXCEPT ![x] = new] /\ (at = "gone" => ~Live(new))
    <2>1. end[x] \in PeerState
      BY <1>3
    <2>2. new \in PeerState /\ (at = "gone" => ~Live(new))
      BY <2>1 DEF PeerState, Live
    <2> QED
      BY <1>1, <1>3, <2>2
  <1>5. stream' = [stream EXCEPT ![x] = stream[x]] /\ stream[x] \in Seq(Message)
    BY <1>2, <1>3
  <1>6. /\ book' \in [Node -> SUBSET Name] /\ ban' \in [Node -> [Node -> BanState]]
    <2>1. CASE ban' = ban /\ book' = book
      BY <1>3, <2>1
    <2>2. CASE ban' = [ban EXCEPT ![n][m] = "other"] /\ book' = [book EXCEPT ![n] = @ \ {m}]
      <3>1. book' \in [Node -> SUBSET Name]
        BY <1>3, <2>2
      <3>2. ban' \in [Node -> [Node -> BanState]]
        BY <1>3, <2>2 DEF BanState
      <3> QED
        BY <3>1, <3>2
    <2> QED
      BY <1>2, <2>1, <2>2
  <1>7. OnlyEarlyPingsViolate'
    <2>1. CASE ban' = ban
      BY <2>1 DEF PeersInv, OnlyEarlyPingsViolate
    <2>2. CASE ban' = [ban EXCEPT ![n][m] = "other"]
      BY <1>3, <2>2 DEF PeersInv, OnlyEarlyPingsViolate, Honest
    <2> QED
      BY <1>2, <2>1, <2>2
  <1>8. at = "open" => new = [end[x] EXCEPT !.at = "open"]
    OBVIOUS
  <1> HIDE DEF new, n, m
  <1> QED
    BY <1>1, <1>2, <1>4, <1>5, <1>6, <1>7, <1>8, EndMoves

\* The connection is closed because of what has been read on it.
LEMMA BlameStep ==
    ASSUME PeersInv, NEW x \in Link \X End, OnViolation(x) \/ OnRefusal(x), UNCHANGED cast
    PROVE  PeersInv'
  <1> DEFINE n == Owner(x)
             m == Remote(x)
             new == [end[x] EXCEPT !.at = "closed", !.done = TRUE]
  <1>1. /\ end \in [Link \X End -> PeerState] /\ stream \in [Link \X End -> Seq(Message)]
        /\ book \in [Node -> SUBSET Name] /\ ban \in [Node -> [Node -> BanState]]
        /\ OnlyEarlyPingsViolate
    BY DEF PeersInv, Shapes
  <1>2. new \in PeerState /\ ~Live(new)
    <2>1. end[x] \in PeerState
      BY <1>1
    <2> QED
      BY <2>1 DEF PeerState, Live
  <1>3. PICK why \in {"other", "misbehaved"} :
           /\ end' = [end EXCEPT ![x] = new] /\ link' = link
           /\ ban' = [ban EXCEPT ![n][m] = why] /\ book' = [book EXCEPT ![n] = @ \ {m}]
           /\ why = "misbehaved" => ~BothHonest(x)
    <2>1. CASE OnRefusal(x)
      BY <2>1 DEF OnRefusal, CloseAndBan, Ban
    <2>2. CASE OnViolation(x)
      <3>1. end[x].at = "open" /\ stream[x] # <<>> /\ Violates(x)
        BY <2>2 DEF OnViolation, Reads
      <3>2. BothHonest(x) => IsEarly(Head(stream[x]))
        BY <3>1, NoViolation
      <3> QED
        BY <2>2, <3>2 DEF OnViolation, CloseAndBan, Ban
    <2> QED
      BY <2>1, <2>2
  <1>4. PICK q \in Seq(Message) : stream' = [stream EXCEPT ![x] = q]
    <2>1. CASE OnRefusal(x)
      <3>1. stream' = [stream EXCEPT ![x] = stream[x]] /\ stream[x] \in Seq(Message)
        BY <1>1, <2>1 DEF OnRefusal
      <3> QED
        BY <3>1
    <2>2. CASE OnViolation(x)
      <3>1. stream[x] # <<>> /\ stream' = [stream EXCEPT ![x] = Tail(stream[x])]
        BY <2>2 DEF OnViolation, Reads, Took
      <3>2. Tail(stream[x]) \in Seq(Message)
        BY <1>1, <3>1
      <3> QED
        BY <3>1, <3>2
    <2> QED
      BY <2>1, <2>2
  <1>5. book' \in [Node -> SUBSET Name] /\ ban' \in [Node -> [Node -> BanState]]
    <2>1. why \in BanState
      BY DEF BanState
    <2> QED
      BY <1>1, <1>3, <2>1
  <1>6. OnlyEarlyPingsViolate'
    <2> SUFFICES ASSUME NEW i \in Honest, NEW j \in Honest PROVE ban'[i][j] # "misbehaved"
      BY DEF OnlyEarlyPingsViolate
    <2>1. i \in Node /\ j \in Node /\ ban[i][j] # "misbehaved"
      BY <1>1 DEF OnlyEarlyPingsViolate, Honest
    <2>2. i = n /\ j = m => BothHonest(x)
      BY DEF BothHonest
    <2>3. ban'[i][j] = IF i = n /\ j = m THEN why ELSE ban[i][j]
      BY <1>1, <1>3, <2>1
    <2> QED
      BY <1>3, <2>1, <2>2, <2>3
  <1> HIDE DEF new, n, m
  <1> QED
    BY <1>2, <1>3, <1>4, <1>5, <1>6, EndMoves

\* A connection is pinged.
LEMMA PingStep ==
    ASSUME PeersInv, NEW x \in Link \X End, Ping(x), UNCHANGED cast
    PROVE  PeersInv'
  <1> DEFINE y == Other(x)
             ping == Msg("ping", end[x].cipher, {})
             r == stream[y] \o <<ping>>
  <1>1. /\ end \in [Link \X End -> PeerState] /\ stream \in [Link \X End -> Seq(Message)]
        /\ end[x] \in PeerState /\ end[y] \in PeerState /\ stream[y] \in Seq(Message)
        /\ y \in Link \X End /\ y # x /\ y[2] \in End /\ x[2] \in End
    BY AtEnd, OtherEnd DEF PeersInv, Shapes
  <1>2. /\ end[x].at \in {"open", "twin"} /\ stream' = [stream EXCEPT ![y] = r]
        /\ UNCHANGED <<cast, link, end, book, ban>>
    BY DEF Ping, Sent
  <1>3. ping \in Message /\ (end[x].cipher => Sealed(ping)) /\ (~end[x].cipher => IsEarly(ping))
    BY <1>1 DEF Msg, Message, MessageType, Sealed, IsEarly, PeerState
  <1>4. Live(end[x])
    BY <1>2 DEF Live
  <1> HIDE DEF ping
  <1>5. r \in Seq(Message) /\ r = Append(stream[y], ping) /\ <<ping>> \in Seq(Message)
    BY <1>1, <1>3
  <1>6. ASSUME BothHonest(x) PROVE Agreed(y[2], end[y], end[x], r)
    <2>1. Agreed(x[2], end[x], end[y], stream[x]) /\ Agreed(y[2], end[y], end[x], stream[y])
      BY <1>6, AtEnd
    <2>2. end[x].cipher = end[x].version
      BY <1>4, <2>1 DEF Agreed
    <2>3. CASE end[x].cipher
      <3>1. \A i \in 1..Len(<<ping>>) : Sealed(<<ping>>[i])
        BY <1>3, <2>3
      <3> QED
        BY <1>1, <1>4, <1>5, <2>1, <2>2, <2>3, <3>1, MoreSealed
    <2>4. CASE ~end[x].cipher
      BY <1>1, <1>3, <1>4, <1>5, <2>1, <2>2, <2>4, MoreEarly
    <2> QED
      BY <2>3, <2>4
  <1>7. /\ stream' \in [Link \X End -> Seq(Message)] /\ stream'[x] = stream[x] /\ stream'[y] = r
        /\ \A z \in Link \X End : z \notin {x, y} => stream'[z] = stream[z]
    BY <1>1, <1>2, <1>5
  <1>8. Shapes'
    BY <1>2, <1>7 DEF PeersInv, Shapes
  <1>9. OnlyEarlyPingsViolate'
    BY <1>2 DEF PeersInv, OnlyEarlyPingsViolate
  <1>10. \A z \in Link \X End : LinkAgreed(z)'
    <2>1. link' = link /\ \A z \in Link \X End : LinkAgreed(z)
      BY <1>2 DEF PeersInv
    <2>2. BothHonest(x) => Agreed(x[2], end[x], end[Other(x)], stream[x])
      BY AtEnd
    <2>3. /\ \A z \in Link \X End : z \notin {x, Other(x)} => end'[z] = end[z] /\ stream'[z] = stream[z]
          /\ BothHonest(x) => /\ Agreed(x[2], end'[x], end'[Other(x)], stream'[x])
                              /\ Agreed(Other(x)[2], end'[Other(x)], end'[x], stream'[Other(x)])
      BY <1>2, <1>6, <1>7, <2>2
    <2> HIDE DEF y
    <2> QED
      BY <2>1, <2>3, EndStep
  <1> QED
    BY <1>8, <1>9, <1>10 DEF PeersInv

\* The ends that are given up, and what a stranger does.
LEMMA CloseStep ==
    ASSUME PeersInv, NEW x \in Link \X End, Unregister(x) \/ TimesOut(x) \/ StrangerLeaves(x),
           UNCHANGED cast
    PROVE  PeersInv'
  <1>1. /\ end \in [Link \X End -> PeerState] /\ stream \in [Link \X End -> Seq(Message)]
        /\ book \in [Node -> SUBSET Name] /\ ban \in [Node -> [Node -> BanState]]
        /\ OnlyEarlyPingsViolate
    BY DEF PeersInv, Shapes
  <1>2. link' = link /\ book' = book /\ ban' = ban
    BY DEF Unregister, TimesOut, StrangerLeaves
  <1>3. OnlyEarlyPingsViolate'
    BY <1>1, <1>2 DEF OnlyEarlyPingsViolate
  <1>4. PICK new \in PeerState, q \in Seq(Message) :
           end' = [end EXCEPT ![x] = new] /\ stream' = [stream EXCEPT ![x] = q] /\ ~Live(new)
    <2>1. CASE TimesOut(x)
      <3>1. end[x] \in PeerState
        BY <1>1
      <3>2. /\ [end[x] EXCEPT !.at = "closed", !.done = TRUE] \in PeerState
            /\ ~Live([end[x] EXCEPT !.at = "closed", !.done = TRUE])
        BY <3>1 DEF Live, PeerState
      <3>3. stream' = [stream EXCEPT ![x] = stream[x]] /\ stream[x] \in Seq(Message)
        BY <1>1, <2>1 DEF TimesOut
      <3> QED
        BY <2>1, <3>2, <3>3 DEF TimesOut
    <2>2. CASE Unregister(x) \/ StrangerLeaves(x)
      <3>1. NoPeer \in PeerState /\ ~Live(NoPeer) /\ <<>> \in Seq(Message)
        BY DEF NoPeer, PeerState, Live
      <3> QED
        BY <2>2, <3>1 DEF Unregister, StrangerLeaves
    <2> QED
      BY <2>1, <2>2
  <1> QED
    BY <1>1, <1>2, <1>3, <1>4, EndMoves

LEMMA StrangerStep ==
    ASSUME PeersInv, NEW x \in Link \X End, StrangerSends(x), UNCHANGED cast
    PROVE  PeersInv'
  <1> DEFINE y == Other(x)
  <1>1. /\ end \in [Link \X End -> PeerState] /\ stream \in [Link \X End -> Seq(Message)]
        /\ book \in [Node -> SUBSET Name] /\ ban \in [Node -> [Node -> BanState]]
        /\ OnlyEarlyPingsViolate /\ y \in Link \X End /\ y # x /\ Owner(y) = Remote(x) /\ Remote(y) = Owner(x)
    BY OtherEnd DEF PeersInv, Shapes
  <1>2. PICK t \in {"version", "verack", "ping"}, sealed \in BOOLEAN : stream' = Sent(x, <<Msg(t, sealed, {})>>)
    BY DEF StrangerSends
  <1>3. <<Msg(t, sealed, {})>> \in Seq(Message)
    BY DEF Msg, Message, MessageType
  <1>4. PICK q \in Seq(Message) : stream' = [stream EXCEPT ![y] = q]
    <2>1. CASE ~Hears(x)
      <3>1. stream' = [stream EXCEPT ![y] = stream[y]] /\ stream[y] \in Seq(Message)
        BY <1>1, <1>2, <2>1 DEF Sent
      <3> QED
        BY <3>1
    <2>2. CASE Hears(x)
      <3>1. stream[y] \o <<Msg(t, sealed, {})>> \in Seq(Message)
        BY <1>1, <1>3
      <3> QED
        BY <1>2, <2>2, <3>1 DEF Sent
    <2> QED
      BY <2>1, <2>2
  <1>5. ~BothHonest(y)
    BY <1>1 DEF BothHonest, StrangerSends, Honest
  <1>6. end' = [end EXCEPT ![y] = end[y]] /\ end[y] \in PeerState
    BY <1>1 DEF StrangerSends
  <1>7. link' = link /\ book' = book /\ ban' = ban
    BY DEF StrangerSends
  <1>8. OnlyEarlyPingsViolate'
    BY <1>1, <1>7 DEF OnlyEarlyPingsViolate
  <1> HIDE DEF y
  <1> QED
    BY <1>1, <1>4, <1>5, <1>6, <1>7, <1>8, EndMoves

-----------------------------------------------------------------------------
(* Connections begin and end.                                              *)

\* A place for a connection is taken or given back: the others are as they were.
LEMMA LinkStep ==
    ASSUME PeersInv, NEW l \in Link, NEW new \in [from : Name, to : Name],
           link' = [link EXCEPT ![l] = new],
           \A z \in Link \X End : z[1] # l => end'[z] = end[z] /\ stream'[z] = stream[z],
           {new.from, new.to} \subseteq Honest =>
              /\ Agreed("out", end'[<<l, "out">>], end'[<<l, "in">>], stream'[<<l, "out">>])
              /\ Agreed("in", end'[<<l, "in">>], end'[<<l, "out">>], stream'[<<l, "in">>])
    PROVE  \A z \in Link \X End : LinkAgreed(z)'
  <1> SUFFICES ASSUME NEW z \in Link \X End PROVE LinkAgreed(z)'
    OBVIOUS
  <1>1. link \in [Link -> [from : Name, to : Name]] /\ LinkAgreed(z)
    BY DEF PeersInv, Shapes
  <1>2. z[1] \in Link /\ z[2] \in End /\ z = <<z[1], z[2]>> /\ Other(z) \in Link \X End /\ Other(z)[1] = z[1]
    BY OtherEnd
  <1>3. LinkAgreed(z)' <=> (BothHonest(z)' => Agreed(z[2], end'[z], end'[Other(z)], stream'[z]))
    BY DEF LinkAgreed, Agreed, Live, Waits, Plain, Sealed, Other
  <1>4. CASE z[1] # l
    <2>1. link'[z[1]] = link[z[1]]
      BY <1>1, <1>2, <1>4
    <2>2. BothHonest(z)' <=> BothHonest(z)
      BY <2>1 DEF BothHonest, Owner, Remote
    <2>3. end'[z] = end[z] /\ stream'[z] = stream[z] /\ end'[Other(z)] = end[Other(z)]
      BY <1>2, <1>4
    <2> QED
      BY <1>1, <1>3, <2>2, <2>3 DEF LinkAgreed
  <1>5. CASE z[1] = l
    <2>1. link'[z[1]] = new
      BY <1>1, <1>5
    <2>2. BothHonest(z)' => {new.from, new.to} \subseteq Honest
      BY <2>1 DEF BothHonest, Owner, Remote
    <2>3. \/ z[2] = "out" /\ z = <<l, "out">> /\ Other(z) = <<l, "in">>
          \/ z[2] = "in" /\ z = <<l, "in">> /\ Other(z) = <<l, "out">>
      BY <1>2, <1>5 DEF End, Other
    <2> QED
      BY <1>3, <2>2, <2>3
  <1> QED
    BY <1>4, <1>5

LEMMA DialStep ==
    ASSUME PeersInv, NEW n \in cast, NEW m \in cast, Dial(n, m) \/ StrangerDials(n, m), UNCHANGED cast
    PROVE  PeersInv'
  <1> DEFINE caller == [NoPeer EXCEPT !.at = "open"]
             called == [NoPeer EXCEPT !.at = "dialled"]
             version == Msg("version", FALSE, {})
  <1>1. PICK l \in Link, q \in {<<>>, <<version>>} :
           /\ link' = [link EXCEPT ![l] = [from |-> n, to |-> m]]
           /\ end' = [end EXCEPT ![<<l, "out">>] = caller, ![<<l, "in">>] = called]
           /\ stream' = [stream EXCEPT ![<<l, "in">>] = q, ![<<l, "out">>] = <<>>]
           /\ q = <<>> => n \in Stranger
    BY DEF Dial, StrangerDials
  <1>2. n \in Node /\ m \in Node /\ [from |-> n, to |-> m] \in [from : Name, to : Name]
    BY DEF PeersInv, Shapes, Name
  <1>3. UNCHANGED <<cast, book, ban>>
    BY DEF Dial, StrangerDials
  <1>4. /\ caller \in PeerState /\ called \in PeerState /\ caller.at = "open" /\ called.at = "dialled"
        /\ caller.version = FALSE /\ called.version = FALSE /\ caller.cipher = FALSE /\ called.cipher = FALSE
        /\ caller.done = FALSE /\ called.done = FALSE
    BY DEF NoPeer, PeerState
  <1>5. /\ version \in Message /\ Plain(version) /\ ~version.sealed
    BY DEF Msg, Message, MessageType, Plain
  <1> HIDE DEF caller, called, version
  <1>6. q \in Seq(Message) /\ <<>> \in Seq(Message)
    <2>1. <<>> \in Seq(Message)
      OBVIOUS
    <2>2. CASE q = <<>>
      BY <2>1, <2>2
    <2>3. CASE q = <<version>>
      BY <1>5, <2>1, <2>3
    <2> QED
      BY <1>1, <2>2, <2>3
  <1>7. <<l, "out">> \in Link \X End /\ <<l, "in">> \in Link \X End /\ <<l, "out">> # <<l, "in">>
    BY DEF End
  <1>8. /\ end \in [Link \X End -> PeerState] /\ stream \in [Link \X End -> Seq(Message)]
        /\ link \in [Link -> [from : Name, to : Name]]
    BY DEF PeersInv, Shapes
  <1>9. /\ end' \in [Link \X End -> PeerState] /\ stream' \in [Link \X End -> Seq(Message)]
        /\ end'[<<l, "out">>] = caller /\ end'[<<l, "in">>] = called
        /\ stream'[<<l, "out">>] = <<>> /\ stream'[<<l, "in">>] = q
        /\ \A z \in Link \X End : z \notin {<<l, "out">>, <<l, "in">>} => end'[z] = end[z] /\ stream'[z] = stream[z]
    BY <1>1, <1>4, <1>6, <1>7, <1>8
  <1>10. \A z \in Link \X End : z[1] # l => end'[z] = end[z] /\ stream'[z] = stream[z]
    BY <1>9
  <1>11. Shapes'
    BY <1>1, <1>2, <1>3, <1>8, <1>9 DEF PeersInv, Shapes
  <1>12. OnlyEarlyPingsViolate'
    BY <1>3 DEF PeersInv, OnlyEarlyPingsViolate
  <1>13. Agreed("out", caller, called, <<>>)
    <2>1. Waits(caller) /\ \A i \in 1..Len(<<>>) : FALSE
      BY <1>4 DEF Waits
    <2> QED
      BY <1>4, <2>1 DEF Agreed
  <1>14. ASSUME q = <<version>> PROVE Agreed("in", called, caller, q)
    <2>1. Waits(called) /\ ~called.done
      BY <1>4 DEF Waits
    <2>2. /\ q # <<>> /\ q[1] = version /\ \A i \in 1..Len(q) : i = 1
      BY <1>14
    <2>3. \A i \in 1..Len(q) : ~q[i].sealed
      BY <1>5, <2>2
    <2>4. \A i \in 1..Len(q) : ~(i > 1 \/ ~Waits(called))
      BY <2>1, <2>2
    <2> QED
      BY <1>4, <1>5, <2>1, <2>2, <2>3, <2>4 DEF Agreed
  <1>15. {n, m} \subseteq Honest => q = <<version>>
    BY <1>1 DEF Honest
  <1>16. \A z \in Link \X End : LinkAgreed(z)'
    <2> DEFINE new == [from |-> n, to |-> m]
    <2>1. new.from = n /\ new.to = m
      OBVIOUS
    <2>2. {new.from, new.to} \subseteq Honest =>
             /\ Agreed("out", end'[<<l, "out">>], end'[<<l, "in">>], stream'[<<l, "out">>])
             /\ Agreed("in", end'[<<l, "in">>], end'[<<l, "out">>], stream'[<<l, "in">>])
      BY <1>9, <1>13, <1>14, <1>15, <2>1
    <2> QED
      BY <1>1, <1>2, <1>10, <2>2, LinkStep
  <1> QED
    BY <1>11, <1>12, <1>16 DEF PeersInv

LEMMA ReleaseStep ==
    ASSUME PeersInv, NEW l \in Link, Release(l), UNCHANGED cast
    PROVE  PeersInv'
  <1>1. /\ link' = [link EXCEPT ![l] = Unused] /\ UNCHANGED <<cast, end, book, ban>>
        /\ stream' = [stream EXCEPT ![<<l, "in">>] = <<>>, ![<<l, "out">>] = <<>>]
    BY DEF Release
  <1>2. Unused \in [from : Name, to : Name] /\ ~({Unused.from, Unused.to} \subseteq Honest)
    BY PeersAssumption DEF Unused, Name, Honest
  <1>3. /\ stream \in [Link \X End -> Seq(Message)] /\ <<>> \in Seq(Message)
        /\ link \in [Link -> [from : Name, to : Name]]
        /\ <<l, "out">> \in Link \X End /\ <<l, "in">> \in Link \X End /\ <<l, "out">> # <<l, "in">>
    BY DEF PeersInv, Shapes, End
  <1>4. /\ stream' \in [Link \X End -> Seq(Message)]
        /\ \A z \in Link \X End : z \notin {<<l, "out">>, <<l, "in">>} => stream'[z] = stream[z]
    BY <1>1, <1>3
  <1>5. \A z \in Link \X End : z[1] # l => end'[z] = end[z] /\ stream'[z] = stream[z]
    BY <1>1, <1>4
  <1>6. Shapes'
    BY <1>1, <1>2, <1>3, <1>4 DEF PeersInv, Shapes
  <1>7. OnlyEarlyPingsViolate'
    BY <1>1 DEF PeersInv, OnlyEarlyPingsViolate
  <1>8. \A z \in Link \X End : LinkAgreed(z)'
    BY <1>1, <1>2, <1>5, LinkStep
  <1> QED
    BY <1>6, <1>7, <1>8 DEF PeersInv

\* The steps that leave every connection as it is.
LEMMA BookStep ==
    ASSUME PeersInv, UNCHANGED <<cast, link, end, stream>>, book' \in [Node -> SUBSET Name],
           ban' \in [Node -> [Node -> BanState]], OnlyEarlyPingsViolate'
    PROVE  PeersInv'
  <1>1. Shapes'
    BY DEF PeersInv, Shapes
  <1>2. ASSUME NEW z \in Link \X End PROVE LinkAgreed(z)'
    <2>1. LinkAgreed(z)
      BY DEF PeersInv
    <2> QED
      BY <2>1 DEF LinkAgreed, BothHonest, Owner, Remote, Other, Agreed, Live, Waits, Plain, Sealed
  <1> QED
    BY <1>1, <1>2 DEF PeersInv

LEMMA AddressStep ==
    ASSUME PeersInv, NEW n \in cast, NEW m \in cast, UNCHANGED cast,
           DialFails(n, m) \/ WindowPasses(n, m) \/ BanExpires(n, m) \/ Bootstrap(n)
    PROVE  PeersInv'
  <1>1. /\ book \in [Node -> SUBSET Name] /\ ban \in [Node -> [Node -> BanState]]
        /\ OnlyEarlyPingsViolate /\ n \in Node /\ m \in Node
    BY DEF PeersInv, Shapes
  <1>2. UNCHANGED <<cast, link, end, stream>>
    BY DEF DialFails, WindowPasses, BanExpires, Bootstrap
  <1>3. book' \in [Node -> SUBSET Name]
    <2>1. CASE DialFails(n, m)
      BY <1>1, <2>1 DEF DialFails
    <2>2. CASE Bootstrap(n)
      <3>1. KnownAddresses(n, Seeds[n] \cap cast) \in SUBSET Name
        BY <1>1, PeersAssumption DEF KnownAddresses, Name
      <3> QED
        BY <1>1, <2>2, <3>1 DEF Bootstrap
    <2>3. CASE WindowPasses(n, m) \/ BanExpires(n, m)
      BY <1>1, <2>3 DEF WindowPasses, BanExpires
    <2> QED
      BY <2>1, <2>2, <2>3
  <1>4. ban' = ban \/ ban' = [ban EXCEPT ![n][m] = "no"]
    BY DEF DialFails, WindowPasses, BanExpires, Bootstrap
  <1>5. /\ ban' \in [Node -> [Node -> BanState]] /\ OnlyEarlyPingsViolate'
    <2>1. CASE ban' = ban
      BY <1>1, <2>1 DEF OnlyEarlyPingsViolate
    <2>2. CASE ban' = [ban EXCEPT ![n][m] = "no"]
      BY <1>1, <2>2 DEF OnlyEarlyPingsViolate, Honest, BanState
    <2> QED
      BY <1>4, <2>1, <2>2
  <1> QED
    BY <1>2, <1>3, <1>5, BookStep

LEMMA PeersStep == PeersInv /\ [Next]_vars => PeersInv'
  <1> SUFFICES ASSUME PeersInv, [Next]_vars PROVE PeersInv'
    OBVIOUS
  <1>1. ASSUME NEW x \in Link \X End, UNCHANGED cast, Reader(x) PROVE PeersInv'
    <2>1. CASE OnViolation(x)
      BY <1>1, <2>1, BlameStep
    <2>2. CASE OnVersion(x)
      BY <1>1, <2>2, VersionStep
    <2>3. CASE AnswerVersion(x)
      BY <1>1, <2>3, AnswerVersionStep
    <2>4. CASE OnVerack(x) \/ OnGetAddr(x) \/ OnAddr(x) \/ OnPing(x)
      BY <1>1, <2>4, MessageStep
    <2>5. CASE Unregister(x)
      BY <1>1, <2>5, CloseStep
    <2> QED
      BY <1>1, <2>1, <2>2, <2>3, <2>4, <2>5 DEF Reader
  <1>2. ASSUME NEW x \in Link \X End, UNCHANGED cast,
               \/ Accept(x) \/ StrangerSends(x) \/ StrangerLeaves(x) \/ TimesOut(x)
               \/ Ping(x) \/ OnRefusal(x)
        PROVE  PeersInv'
    BY <1>2, AcceptStep, StrangerStep, CloseStep, PingStep, BlameStep
  <1>3. ASSUME NEW n \in cast, NEW m \in cast, UNCHANGED cast, Dial(n, m) \/ StrangerDials(m, n)
        PROVE  PeersInv'
    BY <1>3, DialStep
  <1>4. ASSUME NEW n \in cast, NEW m \in cast, UNCHANGED cast,
               DialFails(n, m) \/ WindowPasses(n, m) \/ BanExpires(n, m) \/ Bootstrap(n)
        PROVE  PeersInv'
    BY <1>4, AddressStep
  <1>5. ASSUME NEW l \in Link, UNCHANGED cast, Release(l) PROVE PeersInv'
    BY <1>5, ReleaseStep
  <1>6. CASE UNCHANGED vars
    BY <1>6, BookStep DEF vars, PeersInv, Shapes, OnlyEarlyPingsViolate
  <1> QED
    BY <1>1, <1>2, <1>3, <1>4, <1>5, <1>6 DEF Next

LEMMA PeersInvariant == Spec => []PeersInv
  BY InitPeers, PeersStep, PTL DEF Spec

-----------------------------------------------------------------------------
(* The results.                                                            *)

\* However many nodes that run this program connect to each other, and
\* whatever strangers do meanwhile, none of them finds another one in violation of
\* the protocol but for a ping that was sent before the handshake (_peer_loop,
\* _misbehave, _maintenance_loop).
THEOREM ViolationsArePings == Spec => []OnlyEarlyPingsViolate
  <1>1. PeersInv => OnlyEarlyPingsViolate
    BY DEF PeersInv
  <1> QED
    BY <1>1, PeersInvariant, PTL

\* Between two such nodes a handshake that is complete at one end is agreed at
\* the other (_on_version, _complete_handshake).
THEOREM HandshakesAgree == Spec => []HandshakeAgreed
  <1>1. PeersInv => HandshakeAgreed
    <2> SUFFICES ASSUME PeersInv, NEW x \in Link \X End, end[x].at = "open", end[x].done, BothHonest(x)
                 PROVE  end[Other(x)].at \in {"closed", "gone"} \/ end[Other(x)].cipher
      BY DEF HandshakeAgreed, BothHonest
    <2>1. /\ end[Other(x)] \in PeerState /\ Agreed(x[2], end[x], end[Other(x)], stream[x])
          /\ Agreed(Other(x)[2], end[Other(x)], end[x], stream[Other(x)])
      BY AtEnd
    <2>2. Live(end[Other(x)]) => end[Other(x)].version
      BY <2>1 DEF Agreed, Live
    <2>3. Live(end[Other(x)]) => end[Other(x)].cipher
      BY <2>1, <2>2 DEF Agreed
    <2> QED
      BY <2>1, <2>3 DEF Live, PeerState
  <1> QED
    BY <1>1, PeersInvariant, PTL

-----------------------------------------------------------------------------
(***************************************************************************)
(* Proofs about the merged-mining pool, for any number of miners and       *)
(* addresses, and for every target that gets easier with time.             *)
(*                                                                         *)
(* Three things hold together: a session's job pays the address of the     *)
(* session unless its own task is about to build another one, and nothing  *)
(* changes either while a call to the node blocks the loop; what a miner   *)
(* was told is the session's job unless some task still has to send it;    *)
(* and no job of a session is younger than the manager's latest one.       *)
(***************************************************************************)

TaskState == {"idle", "authorised", "told", "walk", "called", "replied"}
Task == Session \cup {Loop}

Types ==
    /\ setting \in Settings /\ tip \in 0..MaxTip /\ stamp \in 0..MaxStamp
    /\ current \in Candidate \cup {None}
    /\ session \in [Session -> [at : {"new", "open", "closed"}, addr : Address \cup {None},
                                job : Candidate \cup {None}]]
    /\ known \in [Session -> [latest : BOOLEAN, target : Nat]]
    /\ task \in [Task -> [at : TaskState, walk : SUBSET Session, of : Session \cup {None}]]
    /\ call \in {None} \cup [by : Session, cand : Candidate]

\* The job of a session pays its address, unless the miner has just authorised again.
JobPays ==
    \A s \in Session : (session[s].at = "open" /\ session[s].job # None /\ task[s].at # "authorised")
                          => session[s].job.addr = session[s].addr

\* ... and so does the block the node has been given.
CallPays ==
    call # None => /\ call.cand.addr = session[call.by].addr /\ call.cand.tip < MaxTip
                   /\ task[call.by].at = "called"

\* The share target a miner was told is that of the session's job.
TargetTold ==
    \A s \in Session : (session[s].at = "open" /\ session[s].job # None)
                          => known[s].target = TargetOf(session[s].job) * ShareEase

\* A miner that does not wait for its first job has one, and has been told of it
\* unless some task is about to.
JobTold ==
    \A s \in Session : (Mining(s) /\ task[s].at # "authorised") =>
       /\ session[s].job # None
       /\ (\A t \in Task : task[t].of # s) => known[s].latest

\* A task talks to a miner while it tells it something, and only then.
TaskTells ==
    /\ \A t \in Task : task[t].of # None <=> task[t].at = "told"
    /\ \A s \in Session : task[s].at = "authorised" => session[s].addr # None

\* A session that has not begun has nothing.
NewIsEmpty == \A s \in Session : session[s].at = "new" => session[s].addr = None /\ session[s].job = None

\* Of two candidates the first was made no later than the second.
NoLater(c, d) == c.tip < d.tip \/ (c.tip = d.tip /\ c.stamp <= d.stamp)

\* The manager's latest job is the youngest of all, and no younger than the node's state.
LatestIsYoungest ==
    /\ current # None => NoLater(current, [tip |-> tip, stamp |-> stamp])
    /\ \A s \in Session : session[s].job # None => current # None /\ NoLater(session[s].job, current)

\* The books of the pool.
Books ==
    /\ IsFiniteSet(landed) /\ accepted \in Nat
    /\ \A b \in landed : b.height \in Nat /\ b.height <= tip
    /\ ~setting.faults => up
    /\ PaidItsOwn

PoolInv ==
    /\ Types /\ JobPays /\ CallPays /\ TargetTold /\ JobTold /\ TaskTells /\ NewIsEmpty /\ LatestIsYoungest
    /\ Books

-----------------------------------------------------------------------------

LEMMA InitPool == PoolInit => PoolInv
  <1> SUFFICES ASSUME PoolInit PROVE PoolInv
    OBVIOUS
  <1>1. Types
    BY PoolAssumption DEF PoolInit, Types, Task, TaskState, Idle, Uninformed, Candidate
  <1>2. Books
    BY <1>1, FS_EmptySet DEF PoolInit, Books, PaidItsOwn
  <1> QED
    BY <1>1, <1>2 DEF PoolInit, PoolInv, JobPays, CallPays, TargetTold, JobTold, TaskTells, NewIsEmpty,
                      LatestIsYoungest, Mining, Idle, Task

\* A candidate made now is one, and is the youngest.
LEMMA CandidateMade ==
    ASSUME Types, NEW a \in Address
    PROVE  /\ CreateAuxBlock(a) \in Candidate /\ CreateAuxBlock(a) # None
           /\ CreateAuxBlock(a).addr = a
           /\ CreateAuxBlock(a).tip = tip /\ CreateAuxBlock(a).stamp = stamp
  BY PoolAssumption DEF Types, CreateAuxBlock, Candidate

LEMMA TargetNat ==
    ASSUME NEW c \in Candidate
    PROVE  TargetOf(c) \in Nat \ {0} /\ TargetOf(c) * ShareEase \in Nat
  <1>1. c.tip \in 0..MaxTip /\ c.stamp \in 0..MaxStamp
    BY DEF Candidate
  <1>2. TargetOf(c) \in Nat \ {0}
    BY <1>1, PoolAssumption DEF TargetOf
  <1> QED
    BY <1>2, PoolAssumption

\* _refresh_own_job, for the miner's own task or one that renews all jobs.
LEMMA BuildStep ==
    ASSUME PoolInv, NEW t \in Task, NEW s \in Session, Build(t, s), session[s].addr # None,
           task[t].at \in {"authorised", "walk"}, task[t].at = "authorised" => t = s
    PROVE  PoolInv'
  <1> DEFINE job == CreateAuxBlock(session[s].addr)
  <1>1. /\ job \in Candidate /\ job # None /\ job.addr = session[s].addr
        /\ job.tip = tip /\ job.stamp = stamp
    BY CandidateMade DEF PoolInv, Types
  <1>2. /\ current' = job /\ UNCHANGED <<setting, tip, stamp, up, call, landed, accepted>>
        /\ task' = [task EXCEPT ![t] = [at |-> "told", of |-> s, walk |-> task[t].walk \ {s}]]
        /\ IF session[s].at = "open"
           THEN /\ session' = [session EXCEPT ![s].job = job]
                /\ known' = [known EXCEPT ![s] = [latest |-> FALSE, target |-> TargetOf(job) * ShareEase]]
           ELSE UNCHANGED <<session, known>>
    BY DEF Build, Announced
  <1>3. TargetOf(job) * ShareEase \in Nat
    BY <1>1, TargetNat
  <1> HIDE DEF job
  <1>4. /\ session \in [Session -> [at : {"new", "open", "closed"}, addr : Address \cup {None},
                                     job : Candidate \cup {None}]]
        /\ known \in [Session -> [latest : BOOLEAN, target : Nat]]
        /\ task \in [Task -> [at : TaskState, walk : SUBSET Session, of : Session \cup {None}]]
    BY DEF PoolInv, Types
  <1>5. /\ session' \in [Session -> [at : {"new", "open", "closed"}, addr : Address \cup {None},
                                     job : Candidate \cup {None}]]
        /\ \A u \in Session : session'[u].at = session[u].at /\ session'[u].addr = session[u].addr
        /\ \A u \in Session : u # s => session'[u].job = session[u].job
        /\ session'[s].job = IF session[s].at = "open" THEN job ELSE session[s].job
    <2>1. CASE session[s].at = "open"
      <3>1. session' = [session EXCEPT ![s].job = job]
        BY <1>2, <2>1
      <3> QED
        BY <1>1, <1>4, <2>1, <3>1
    <2>2. CASE session[s].at # "open"
      BY <1>2, <1>4, <2>2
    <2> QED
      BY <2>1, <2>2
  <1>15. /\ known' \in [Session -> [latest : BOOLEAN, target : Nat]]
         /\ \A u \in Session : u # s => known'[u] = known[u]
         /\ known'[s].target = IF session[s].at = "open" THEN TargetOf(job) * ShareEase ELSE known[s].target
    <2>1. CASE session[s].at = "open"
      <3>1. known' = [known EXCEPT ![s] = [latest |-> FALSE, target |-> TargetOf(job) * ShareEase]]
        BY <1>2, <2>1
      <3> QED
        BY <1>3, <1>4, <2>1, <3>1
    <2>2. CASE session[s].at # "open"
      BY <1>2, <1>4, <2>2
    <2> QED
      BY <2>1, <2>2
  <1>6. /\ task' \in [Task -> [at : TaskState, walk : SUBSET Session, of : Session \cup {None}]]
        /\ \A u \in Task : u # t => task'[u] = task[u]
        /\ task'[t].at = "told" /\ task'[t].of = s
    BY <1>2, <1>4 DEF TaskState
  <1>16. Types'
    BY <1>1, <1>2, <1>5, <1>6, <1>15 DEF PoolInv, Types
  <1>17. Session \subseteq Task /\ None \notin Session
    BY PoolAssumption DEF Task
  <1>7. JobPays'
    BY <1>1, <1>5, <1>6, <1>17 DEF PoolInv, JobPays
  <1>8. CallPays'
    <2> SUFFICES ASSUME call # None
                 PROVE  /\ call.cand.addr = session'[call.by].addr /\ call.cand.tip < MaxTip
                        /\ task'[call.by].at = "called"
      BY <1>2 DEF CallPays
    <2>1. call.by \in Session
      BY DEF PoolInv, Types
    <2>2. call.cand.addr = session[call.by].addr /\ call.cand.tip < MaxTip /\ task[call.by].at = "called"
      BY DEF PoolInv, CallPays
    <2>3. call.by # t
      BY <2>2
    <2> QED
      BY <1>5, <1>6, <1>17, <2>1, <2>2, <2>3
  <1>9. TargetTold'
    BY <1>5, <1>15 DEF PoolInv, TargetTold, TargetOf
  <1>10. JobTold'
    <2> SUFFICES ASSUME NEW u \in Session, Mining(u)', task'[u].at # "authorised"
                 PROVE  /\ session'[u].job # None
                        /\ (\A v \in Task : task'[v].of # u) => known'[u].latest
      BY DEF JobTold
    <2>1. CASE u = s
      <3>1. session[s].at = "open"
        BY <1>5, <2>1 DEF Mining
      <3> QED
        BY <1>1, <1>5, <1>6, <2>1, <3>1
    <2>2. CASE u # s
      <3>1. Mining(u) /\ task[u].at # "authorised"
        BY <1>5, <1>6, <1>17, <2>2 DEF Mining
      <3>2. task[t].of # u
        BY <1>17 DEF PoolInv, TaskTells
      <3>3. (\A v \in Task : task'[v].of # u) => \A v \in Task : task[v].of # u
        BY <1>6, <3>2
      <3>4. session[u].job # None /\ ((\A v \in Task : task[v].of # u) => known[u].latest)
        BY <3>1 DEF PoolInv, JobTold
      <3> QED
        BY <1>5, <1>15, <2>2, <3>3, <3>4
    <2> QED
      BY <2>1, <2>2
  <1>11. TaskTells'
    BY <1>5, <1>6, <1>17 DEF PoolInv, TaskTells
  <1>12. NewIsEmpty'
    BY <1>5 DEF PoolInv, NewIsEmpty
  <1>13. LatestIsYoungest'
    <2>1. NoLater(job, [tip |-> tip, stamp |-> stamp]) /\ NoLater(job, job)
      BY <1>1 DEF NoLater, PoolInv, Types
    <2>2. ASSUME NEW u \in Session, session[u].job # None PROVE NoLater(session[u].job, job)
      <3>1. /\ current # None /\ NoLater(session[u].job, current)
            /\ NoLater(current, [tip |-> tip, stamp |-> stamp])
        BY <2>2 DEF PoolInv, LatestIsYoungest
      <3>2. current \in Candidate /\ session[u].job \in Candidate
        BY <2>2, <3>1 DEF PoolInv, Types
      <3> QED
        BY <1>1, <3>1, <3>2 DEF NoLater, Candidate, PoolInv, Types
    <2> QED
      BY <1>1, <1>2, <1>5, <2>1, <2>2 DEF LatestIsYoungest
  <1>14. Books'
    BY <1>2 DEF PoolInv, Books, PaidItsOwn
  <1> QED
    BY <1>16, <1>7, <1>8, <1>9, <1>10, <1>11, <1>12, <1>13, <1>14 DEF PoolInv

\* A task goes on, without a miner to tell before or after.
LEMMA TaskMoves ==
    ASSUME PoolInv, NEW t \in Task,
           NEW new \in [at : {"idle", "walk"}, walk : SUBSET Session, of : {None}],
           task' = [task EXCEPT ![t] = new], task[t].at \notin {"authorised", "told", "called"},
           UNCHANGED <<node, current, session, known, call, landed, accepted, stopped>>
    PROVE  PoolInv'
  <1>1. /\ task' \in [Task -> [at : TaskState, walk : SUBSET Session, of : Session \cup {None}]]
        /\ \A u \in Task : u # t => task'[u] = task[u]
        /\ task'[t].at \in {"idle", "walk"} /\ task'[t].of = None
    BY DEF PoolInv, Types, TaskState
  <1>2. task[t].of = None /\ Session \subseteq Task /\ None \notin Session
    BY PoolAssumption DEF PoolInv, TaskTells, Task
  <1>3. Types'
    BY <1>1 DEF PoolInv, Types, node
  <1>4. JobPays'
    BY <1>1, <1>2 DEF PoolInv, JobPays
  <1>5. CallPays'
    BY <1>1, <1>2 DEF PoolInv, CallPays, Types
  <1>6. JobTold'
    BY <1>1, <1>2 DEF PoolInv, JobTold, Mining
  <1>7. TaskTells'
    BY <1>1, <1>2 DEF PoolInv, TaskTells
  <1> QED
    BY <1>3, <1>4, <1>5, <1>6, <1>7
       DEF PoolInv, TargetTold, NewIsEmpty, LatestIsYoungest, Books, PaidItsOwn, node, TargetOf

\* Sessions end: their miners are told nothing more.
LEMMA SessionsEnd ==
    ASSUME PoolInv, NEW S \in SUBSET Session, call = None,
           session' = [s \in Session |-> IF s \in S THEN Ended(s) ELSE session[s]],
           known' \in [Session -> [latest : BOOLEAN, target : Nat]],
           \A s \in Session \ S : session[s].at = "open" => known'[s] = known[s],
           task' \in [Task -> [at : TaskState, walk : SUBSET Session, of : Session \cup {None}]],
           \A t \in Task : task'[t] = task[t] \/ (t \in S /\ task'[t].of = None /\ task[t].of = None
                                                    /\ task'[t].at = "idle"),
           UNCHANGED <<node, current, call, landed, accepted>>
    PROVE  PoolInv'
  <1>1. /\ session' \in [Session -> [at : {"new", "open", "closed"}, addr : Address \cup {None},
                                      job : Candidate \cup {None}]]
        /\ \A s \in S : session'[s].at = "closed" /\ session'[s].job = None /\ session'[s].addr = session[s].addr
        /\ \A s \in Session \ S : session'[s] = session[s]
    <2>1. session \in [Session -> [at : {"new", "open", "closed"}, addr : Address \cup {None},
                                    job : Candidate \cup {None}]]
      BY DEF PoolInv, Types
    <2>2. ASSUME NEW s \in Session
          PROVE  /\ Ended(s) \in [at : {"new", "open", "closed"}, addr : Address \cup {None},
                                  job : Candidate \cup {None}]
                 /\ Ended(s).at = "closed" /\ Ended(s).job = None /\ Ended(s).addr = session[s].addr
      <3>1. session[s] \in [at : {"new", "open", "closed"}, addr : Address \cup {None},
                            job : Candidate \cup {None}]
        BY <2>1
      <3> QED
        BY <3>1 DEF Ended
    <2> QED
      BY <2>1, <2>2
  <1>2. Session \subseteq Task /\ None \notin Session /\ \A s \in Session \ S : task'[s] = task[s]
    BY PoolAssumption DEF Task
  <1>3. Types'
    BY <1>1 DEF PoolInv, Types, node
  <1>4. JobPays'
    <2> SUFFICES ASSUME NEW s \in Session, session'[s].at = "open", session'[s].job # None,
                        task'[s].at # "authorised"
                 PROVE  session'[s].job.addr = session'[s].addr
      BY DEF JobPays
    <2>1. s \notin S /\ session'[s] = session[s] /\ task'[s] = task[s]
      BY <1>1, <1>2
    <2> QED
      BY <2>1 DEF PoolInv, JobPays
  <1>5. CallPays'
    BY DEF CallPays
  <1>6. TargetTold'
    <2> SUFFICES ASSUME NEW s \in Session, session'[s].at = "open", session'[s].job # None
                 PROVE  known'[s].target = TargetOf(session'[s].job) * ShareEase
      BY DEF TargetTold, TargetOf
    <2>1. s \notin S /\ session'[s] = session[s] /\ known'[s] = known[s]
      BY <1>1
    <2> QED
      BY <2>1 DEF PoolInv, TargetTold
  <1>7. JobTold'
    <2> SUFFICES ASSUME NEW s \in Session, Mining(s)', task'[s].at # "authorised"
                 PROVE  /\ session'[s].job # None
                        /\ (\A t \in Task : task'[t].of # s) => known'[s].latest
      BY DEF JobTold
    <2>1. s \notin S /\ session'[s] = session[s] /\ known'[s] = known[s] /\ Mining(s)
      BY <1>1 DEF Mining
    <2>2. task'[s] = task[s] /\ ((\A t \in Task : task'[t].of # s) => \A t \in Task : task[t].of # s)
      BY <1>2, <2>1
    <2> QED
      BY <2>1, <2>2 DEF PoolInv, JobTold
  <1>8. TaskTells'
    <2>1. \A t \in Task : task'[t].of # None <=> task'[t].at = "told"
      BY DEF PoolInv, TaskTells
    <2>2. ASSUME NEW s \in Session, task'[s].at = "authorised" PROVE session'[s].addr # None
      <3>1. task[s].at = "authorised"
        BY <1>2, <2>2
      <3>2. session[s].addr # None
        BY <3>1 DEF PoolInv, TaskTells
      <3>3. session'[s].addr = session[s].addr
        BY <1>1
      <3> QED
        BY <3>2, <3>3
    <2> QED
      BY <2>1, <2>2 DEF TaskTells
  <1>9. NewIsEmpty'
    BY <1>1 DEF PoolInv, NewIsEmpty
  <1>10. LatestIsYoungest'
    BY <1>1 DEF PoolInv, LatestIsYoungest, node
  <1> QED
    BY <1>3, <1>4, <1>5, <1>6, <1>7, <1>8, <1>9, <1>10 DEF PoolInv, Books, PaidItsOwn, node

\* The node's chain and clock move on, or it fails.
LEMMA NodeStep ==
    ASSUME PoolInv, NodeAdvances \/ TimePasses \/ NodeFails
    PROVE  PoolInv'
  <1>1. setting.stamps \in 0..MaxStamp
    BY PoolAssumption DEF PoolInv, Types
  <1>2. /\ tip' \in 0..MaxTip /\ stamp' \in 0..MaxStamp /\ tip <= tip'
        /\ tip' > tip \/ (tip' = tip /\ stamp' >= stamp)
        /\ UNCHANGED <<setting, current, session, known, task, call, landed, accepted>>
    <2>1. tip \in 0..MaxTip /\ stamp \in 0..MaxStamp /\ MaxTip \in Nat /\ MaxStamp \in Nat
      BY PoolAssumption DEF PoolInv, Types
    <2>2. CASE NodeAdvances
      BY <2>1, <2>2 DEF NodeAdvances
    <2>3. CASE TimePasses
      BY <1>1, <2>1, <2>3 DEF TimePasses
    <2>4. CASE NodeFails
      BY <2>1, <2>4 DEF NodeFails
    <2> QED
      BY <2>2, <2>3, <2>4
  <1>3. Types'
    BY <1>2 DEF PoolInv, Types
  <1>4. LatestIsYoungest'
    <2>1. current # None => NoLater(current, [tip |-> tip', stamp |-> stamp'])
      BY <1>2 DEF PoolInv, LatestIsYoungest, NoLater, Types, Candidate
    <2> QED
      BY <1>2, <2>1 DEF PoolInv, LatestIsYoungest
  <1>5. Books'
    <2>1. ~setting.faults => up'
      BY DEF NodeAdvances, TimePasses, NodeFails, PoolInv, Books
    <2>2. \A b \in landed : b.height \in Nat /\ b.height <= tip'
      BY <1>2 DEF PoolInv, Books, Types
    <2> QED
      BY <1>2, <2>1, <2>2 DEF PoolInv, Books, PaidItsOwn
  <1> QED
    BY <1>2, <1>3, <1>4, <1>5
       DEF PoolInv, JobPays, CallPays, TargetTold, JobTold, Mining, TaskTells, NewIsEmpty, TargetOf

\* _handle_authorize: until its own job is built, a miner waits for its task.
LEMMA AuthorizeStep ==
    ASSUME PoolInv, NEW s \in Session, NEW a \in setting.of[s], Authorize(s, a)
    PROVE  PoolInv'
  <1>1. a \in Address /\ a # None /\ Session \subseteq Task /\ None \notin Session
    BY PoolAssumption DEF PoolInv, Types, Task
  <1>2. /\ session \in [Session -> [at : {"new", "open", "closed"}, addr : Address \cup {None},
                                     job : Candidate \cup {None}]]
        /\ task \in [Task -> [at : TaskState, walk : SUBSET Session, of : Session \cup {None}]]
    BY DEF PoolInv, Types
  <1>3. /\ session' = [session EXCEPT ![s].addr = a] /\ task' = [task EXCEPT ![s].at = "authorised"]
        /\ call = None /\ session[s].at = "open" /\ task[s].at = "idle"
        /\ UNCHANGED <<setting, tip, stamp, up, current, known, call, landed, accepted>>
    BY DEF Authorize, LoopFree, node
  <1>4. /\ session' \in [Session -> [at : {"new", "open", "closed"}, addr : Address \cup {None},
                                      job : Candidate \cup {None}]]
        /\ \A u \in Session : u # s => session'[u] = session[u]
        /\ session'[s].at = "open" /\ session'[s].addr = a /\ session'[s].job = session[s].job
    BY <1>1, <1>2, <1>3
  <1>5. /\ task' \in [Task -> [at : TaskState, walk : SUBSET Session, of : Session \cup {None}]]
        /\ \A t \in Task : t # s => task'[t] = task[t]
        /\ task'[s].at = "authorised" /\ task'[s].of = task[s].of
    BY <1>1, <1>2, <1>3 DEF TaskState
  <1>6. task[s].of = None
    BY <1>1, <1>3 DEF PoolInv, TaskTells
  <1>7. Types'
    BY <1>3, <1>4, <1>5 DEF PoolInv, Types
  <1>8. JobPays' /\ CallPays'
    BY <1>1, <1>3, <1>4, <1>5 DEF PoolInv, JobPays, CallPays
  <1>9. TargetTold'
    <2> SUFFICES ASSUME NEW u \in Session, session'[u].at = "open", session'[u].job # None
                 PROVE  known[u].target = TargetOf(session'[u].job) * ShareEase
      BY <1>3 DEF TargetTold, TargetOf
    <2> QED
      BY <1>3, <1>4 DEF PoolInv, TargetTold
  <1>10. JobTold'
    <2> SUFFICES ASSUME NEW u \in Session, Mining(u)', task'[u].at # "authorised"
                 PROVE  /\ session'[u].job # None
                        /\ (\A t \in Task : task'[t].of # u) => known'[u].latest
      BY DEF JobTold
    <2>1. u # s /\ session'[u] = session[u] /\ Mining(u) /\ task[u].at # "authorised"
      BY <1>1, <1>4, <1>5 DEF Mining
    <2>2. (\A t \in Task : task'[t].of # u) => \A t \in Task : task[t].of # u
      BY <1>1, <1>5, <1>6
    <2> QED
      BY <1>3, <2>1, <2>2 DEF PoolInv, JobTold
  <1>11. TaskTells'
    BY <1>1, <1>4, <1>5, <1>6 DEF PoolInv, TaskTells
  <1>12. NewIsEmpty'
    BY <1>4 DEF PoolInv, NewIsEmpty
  <1>13. LatestIsYoungest'
    BY <1>3, <1>4 DEF PoolInv, LatestIsYoungest
  <1> QED
    BY <1>3, <1>7, <1>8, <1>9, <1>10, <1>11, <1>12, <1>13 DEF PoolInv, Books, PaidItsOwn

LEMMA ConnectStep ==
    ASSUME PoolInv, NEW s \in Session, Connect(s)
    PROVE  PoolInv'
  <1>1. /\ session \in [Session -> [at : {"new", "open", "closed"}, addr : Address \cup {None},
                                     job : Candidate \cup {None}]]
        /\ session' = [session EXCEPT ![s].at = "open"] /\ session[s].at = "new"
        /\ UNCHANGED <<setting, tip, stamp, up, current, known, task, call, landed, accepted>>
    BY DEF PoolInv, Types, Connect, node
  <1>2. session[s].addr = None /\ session[s].job = None
    BY <1>1 DEF PoolInv, NewIsEmpty
  <1>3. /\ session' \in [Session -> [at : {"new", "open", "closed"}, addr : Address \cup {None},
                                      job : Candidate \cup {None}]]
        /\ \A u \in Session : u # s => session'[u] = session[u]
        /\ session'[s].at = "open" /\ session'[s].addr = None /\ session'[s].job = None
    BY <1>1, <1>2
  <1>4. Types'
    BY <1>1, <1>3 DEF PoolInv, Types
  <1>5. call = None
    BY DEF Connect, LoopFree
  <1>6. JobPays' /\ CallPays' /\ NewIsEmpty' /\ LatestIsYoungest'
    BY <1>1, <1>3, <1>5 DEF PoolInv, JobPays, CallPays, NewIsEmpty, LatestIsYoungest
  <1>7. TargetTold' /\ JobTold'
    BY <1>1, <1>3 DEF PoolInv, TargetTold, JobTold, Mining, TargetOf
  <1>8. TaskTells'
    BY <1>1, <1>2, <1>3 DEF PoolInv, TaskTells
  <1> QED
    BY <1>1, <1>4, <1>6, <1>7, <1>8 DEF PoolInv, Books, PaidItsOwn

\* The rest of _refresh_own_job: the miner gets the job its session has by now.
LEMMA NotifyStep ==
    ASSUME PoolInv, NEW t \in Task, Notify(t)
    PROVE  PoolInv'
  <1> DEFINE s == task[t].of
  <1>1. /\ task \in [Task -> [at : TaskState, walk : SUBSET Session, of : Session \cup {None}]]
        /\ known \in [Session -> [latest : BOOLEAN, target : Nat]]
        /\ Session \subseteq Task /\ None \notin Session
    BY PoolAssumption DEF PoolInv, Types, Task
  <1>2. task[t].at = "told" /\ s \in Session /\ call = None
    BY <1>1 DEF PoolInv, TaskTells, Notify, LoopFree
  <1>3. /\ task' \in [Task -> [at : TaskState, walk : SUBSET Session, of : Session \cup {None}]]
        /\ \A u \in Task : u # t => task'[u] = task[u]
        /\ task'[t].at \in {"idle", "walk"} /\ task'[t].of = None
    <2> DEFINE next == [at |-> "walk", of |-> None, walk |-> task[t].walk]
    <2>1. task' = [task EXCEPT ![t] = Idle] \/ task' = [task EXCEPT ![t] = next]
      BY DEF Notify
    <2>2. {Idle, next} \subseteq [at : {"idle", "walk"}, walk : SUBSET Session, of : {None}]
      BY <1>1 DEF Idle
    <2> HIDE DEF next
    <2> QED
      BY <1>1, <2>1, <2>2 DEF TaskState
  <1>4. /\ known' \in [Session -> [latest : BOOLEAN, target : Nat]]
        /\ \A u \in Session : u # s => known'[u] = known[u]
        /\ known'[s].target = known[s].target /\ (session[s].at = "open" => known'[s].latest)
    BY <1>1, <1>2 DEF Notify, SendJob
  <1>5. UNCHANGED <<setting, tip, stamp, up, current, session, call, landed, accepted>>
    BY DEF Notify, node
  <1> HIDE DEF s
  <1>6. Types'
    BY <1>3, <1>4, <1>5 DEF PoolInv, Types
  <1>7. JobPays'
    <2> SUFFICES ASSUME NEW u \in Session, session[u].at = "open", session[u].job # None,
                        task'[u].at # "authorised"
                 PROVE  session[u].job.addr = session[u].addr
      BY <1>5 DEF JobPays
    <2>1. task[u].at # "authorised"
      BY <1>1, <1>2, <1>3
    <2> QED
      BY <2>1 DEF PoolInv, JobPays
  <1>8. TargetTold'
    <2>1. \A u \in Session : known'[u].target = known[u].target
      BY <1>2, <1>4
    <2> QED
      BY <1>5, <2>1 DEF PoolInv, TargetTold, TargetOf
  <1>9. JobTold'
    <2> SUFFICES ASSUME NEW u \in Session, Mining(u), task'[u].at # "authorised"
                 PROVE  /\ session[u].job # None
                        /\ (\A v \in Task : task'[v].of # u) => known'[u].latest
      BY <1>5 DEF JobTold, Mining
    <2>1. task[u].at # "authorised"
      BY <1>1, <1>2, <1>3
    <2>2. session[u].job # None /\ ((\A v \in Task : task[v].of # u) => known[u].latest)
      BY <2>1 DEF PoolInv, JobTold
    <2>3. CASE u # s
      <3>1. (\A v \in Task : task'[v].of # u) => \A v \in Task : task[v].of # u
        BY <1>3, <2>3 DEF s
      <3> QED
        BY <1>4, <2>2, <2>3, <3>1
    <2>4. CASE u = s
      BY <1>4, <2>2, <2>4 DEF Mining
    <2> QED
      BY <2>3, <2>4
  <1>10. TaskTells' /\ CallPays'
    BY <1>1, <1>2, <1>3, <1>5 DEF PoolInv, TaskTells, CallPays
  <1> QED
    BY <1>5, <1>6, <1>7, <1>8, <1>9, <1>10 DEF PoolInv, NewIsEmpty, LatestIsYoungest, Books, PaidItsOwn

\* _handle_submit: the job of the session goes to the node, or nothing does.
LEMMA SubmitStep ==
    ASSUME PoolInv, NEW s \in Session, NEW h \in Hash, Submit(s, h)
    PROVE  PoolInv'
  <1>1. /\ call = None /\ task[s].at = "idle" /\ session[s].at = "open" /\ session[s].job # None
        /\ tip < MaxTip
        /\ UNCHANGED <<setting, tip, stamp, up, current, session, known, landed, accepted>>
    BY DEF Submit, LoopFree, node
  <1>2. CASE UNCHANGED <<call, task>>
    BY <1>1, <1>2 DEF PoolInv, Types, JobPays, CallPays, TargetTold, JobTold, Mining, TaskTells,
                      NewIsEmpty, LatestIsYoungest, Books, PaidItsOwn, TargetOf
  <1>3. CASE ~UNCHANGED <<call, task>>
    <2> DEFINE c == session[s].job
    <2>1. /\ call' = [by |-> s, cand |-> c] /\ task' = [task EXCEPT ![s].at = "called"] /\ c.tip = tip
      BY <1>3 DEF Submit, FindAuxCandidate
    <2>2. /\ task \in [Task -> [at : TaskState, walk : SUBSET Session, of : Session \cup {None}]]
          /\ Session \subseteq Task /\ None \notin Session /\ c \in Candidate
      BY <1>1, PoolAssumption DEF PoolInv, Types, Task
    <2>3. /\ task' \in [Task -> [at : TaskState, walk : SUBSET Session, of : Session \cup {None}]]
          /\ \A t \in Task : t # s => task'[t] = task[t]
          /\ task'[s].at = "called" /\ task'[s].of = task[s].of
      BY <2>1, <2>2 DEF TaskState
    <2>4. c.addr = session[s].addr
      BY <1>1 DEF PoolInv, JobPays
    <2> HIDE DEF c
    <2>5. CallPays'
      BY <1>1, <2>1, <2>3, <2>4 DEF CallPays
    <2>6. Types'
      BY <1>1, <2>1, <2>2, <2>3 DEF PoolInv, Types
    <2>7. JobPays' /\ TaskTells'
      BY <1>1, <2>2, <2>3 DEF PoolInv, JobPays, TaskTells
    <2>8. JobTold'
      <3>1. \A t \in Task : task'[t].of = task[t].of
        BY <2>3
      <3>2. \A u \in Session : task[u].at # "authorised" <=> task'[u].at # "authorised"
        BY <1>1, <2>2, <2>3
      <3> QED
        BY <1>1, <3>1, <3>2 DEF PoolInv, JobTold, Mining
    <2> QED
      BY <1>1, <2>5, <2>6, <2>7, <2>8
         DEF PoolInv, TargetTold, NewIsEmpty, LatestIsYoungest, Books, PaidItsOwn, TargetOf
  <1> QED
    BY <1>2, <1>3

\* A block of the pool that lands is one more block, of a height no other has.
LEMMA LandedGrows ==
    ASSUME PoolInv, call # None, Extends(call.cand),
           landed' = landed \cup {[height |-> tip + 1, paid |-> call.cand.addr,
                                    owed |-> session[call.by].addr]}
    PROVE  /\ IsFiniteSet(landed') /\ Cardinality(landed') = Cardinality(landed) + 1
           /\ \A b \in landed' : b.height \in Nat /\ b.height <= tip + 1 /\ b.paid = b.owed
  <1> DEFINE new == [height |-> tip + 1, paid |-> call.cand.addr, owed |-> session[call.by].addr]
  <1>1. tip \in Nat
    BY DEF PoolInv, Types
  <1>2. \A b \in landed : b.height \in Nat /\ b.height <= tip /\ b.paid = b.owed
    BY DEF PoolInv, Books, PaidItsOwn
  <1>3. new \notin landed
    BY <1>1, <1>2
  <1>4. IsFiniteSet(landed)
    BY DEF PoolInv, Books
  <1>5. new.paid = new.owed
    BY DEF PoolInv, CallPays
  <1>6. new.height = tip + 1
    OBVIOUS
  <1> HIDE DEF new
  <1>7. landed' = landed \cup {new}
    BY DEF new
  <1>8. IsFiniteSet(landed') /\ Cardinality(landed') = Cardinality(landed) + 1
    <2>1. IsFiniteSet(landed \cup {new}) /\ Cardinality(landed \cup {new}) = Cardinality(landed) + 1
      BY <1>3, <1>4, FS_AddElement
    <2> QED
      BY <1>7, <2>1
  <1>9. \A b \in landed' : b.height \in Nat /\ b.height <= tip + 1 /\ b.paid = b.owed
    BY <1>1, <1>2, <1>5, <1>6, <1>7
  <1> QED
    BY <1>8, <1>9

\* submitauxblock returns: the block is on the chain, or it came too late.
LEMMA ReturnsStep ==
    ASSUME PoolInv, SubmitReturns
    PROVE  PoolInv'
  <1> DEFINE s == call.by
  <1>1. /\ s \in Session /\ call.cand \in Candidate /\ task[s].at = "called" /\ call.cand.tip < MaxTip
        /\ call # None /\ Session \subseteq Task /\ None \notin Session
    BY PoolAssumption DEF PoolInv, Types, CallPays, SubmitReturns, Task
  <1>2. /\ task \in [Task -> [at : TaskState, walk : SUBSET Session, of : Session \cup {None}]]
        /\ tip \in 0..MaxTip /\ stamp \in 0..MaxStamp /\ MaxTip \in Nat /\ MaxStamp \in Nat
    BY PoolAssumption DEF PoolInv, Types
  <1>3. UNCHANGED <<setting, up, current, session, known>> /\ call' = None
    BY DEF SubmitReturns
  <1>4. /\ task' \in [Task -> [at : TaskState, walk : SUBSET Session, of : Session \cup {None}]]
        /\ \A t \in Task : t # s => task'[t] = task[t]
        /\ task'[s].at \in {"idle", "replied"} /\ task'[s].of = None
    <2>1. task[s].of = None
      BY <1>1 DEF PoolInv, TaskTells
    <2>2. task' = [task EXCEPT ![s].at = "replied"] \/ task' = [task EXCEPT ![s] = Idle]
      BY DEF SubmitReturns, Replied
    <2> QED
      BY <1>1, <1>2, <2>1, <2>2 DEF TaskState, Idle
  <1>5. /\ tip' \in 0..MaxTip /\ stamp' \in 0..MaxStamp
        /\ tip' > tip \/ (tip' = tip /\ stamp' = stamp)
    BY <1>1, <1>2 DEF SubmitReturns, Extends, Candidate
  <1>6. Types'
    BY <1>3, <1>4, <1>5 DEF PoolInv, Types
  <1>7. JobPays' /\ CallPays' /\ TaskTells'
    BY <1>1, <1>3, <1>4 DEF PoolInv, JobPays, CallPays, TaskTells
  <1>8. JobTold'
    <2>1. task[s].of = None
      BY <1>1 DEF PoolInv, TaskTells
    <2>2. \A t \in Task : task'[t].of = task[t].of
      BY <1>4, <2>1
    <2>3. \A u \in Session : task[u].at # "authorised" <=> task'[u].at # "authorised"
      BY <1>1, <1>4
    <2> QED
      BY <1>3, <2>2, <2>3 DEF PoolInv, JobTold, Mining
  <1>9. LatestIsYoungest'
    <2>1. current # None => NoLater(current, [tip |-> tip', stamp |-> stamp'])
      BY <1>2, <1>5 DEF PoolInv, LatestIsYoungest, NoLater, Types, Candidate
    <2> QED
      BY <1>3, <2>1 DEF PoolInv, LatestIsYoungest
  <1>10. Books'
    <2>1. /\ IsFiniteSet(landed) /\ accepted \in Nat /\ Cardinality(landed) \in Nat
          /\ accepted <= Cardinality(landed)
          /\ ~setting.faults => up /\ accepted = Cardinality(landed)
      BY FS_CardinalityType DEF PoolInv, Books, PaidItsOwn
    <2>2. CASE Extends(call.cand)
      <3>1. /\ tip' = tip + 1
            /\ landed' = landed \cup {[height |-> tip + 1, paid |-> call.cand.addr,
                                         owed |-> session[call.by].addr]}
            /\ accepted' = IF up THEN accepted + 1 ELSE accepted
        BY <2>2 DEF SubmitReturns, Counts, Heard
      <3>2. /\ IsFiniteSet(landed') /\ Cardinality(landed') = Cardinality(landed) + 1
            /\ \A b \in landed' : b.height \in Nat /\ b.height <= tip' /\ b.paid = b.owed
        BY <1>1, <2>2, <3>1, LandedGrows
      <3> QED
        BY <1>3, <2>1, <3>1, <3>2 DEF Books, PaidItsOwn
    <2>3. CASE ~Extends(call.cand)
      <3>1. UNCHANGED <<tip, landed, accepted>>
        BY <2>3 DEF SubmitReturns, Counts, Heard
      <3> QED
        BY <1>3, <3>1 DEF PoolInv, Books, PaidItsOwn
    <2> QED
      BY <2>2, <2>3
  <1> QED
    BY <1>3, <1>6, <1>7, <1>8, <1>9, <1>10 DEF PoolInv, TargetTold, NewIsEmpty, TargetOf

\* Every step keeps the invariant.
LEMMA PoolStep == PoolInv /\ [PoolNext]_poolVars => PoolInv'
  <1> SUFFICES ASSUME PoolInv, [PoolNext]_poolVars PROVE PoolInv'
    OBVIOUS
  <1>1. /\ Session \subseteq Task /\ Loop \in Task /\ None \notin Session
        /\ task \in [Task -> [at : TaskState, walk : SUBSET Session, of : Session \cup {None}]]
        /\ session \in [Session -> [at : {"new", "open", "closed"}, addr : Address \cup {None},
                                   job : Candidate \cup {None}]]
        /\ known \in [Session -> [latest : BOOLEAN, target : Nat]]
    BY PoolAssumption DEF PoolInv, Types, Task
  <1>2. Uninformed \in [latest : BOOLEAN, target : Nat]
    BY DEF Uninformed
  <1>3. CASE NodeAdvances \/ TimePasses \/ NodeFails
    BY <1>3, NodeStep
  <1>4. CASE SubmitReturns
    BY <1>4, ReturnsStep
  <1>5. CASE LoopRound
    <2>1. [at |-> "walk", walk |-> Sessions, of |-> None]
             \in [at : {"idle", "walk"}, walk : SUBSET Session, of : {None}]
      BY DEF Sessions
    <2> QED
      BY <1>1, <1>5, <2>1, TaskMoves DEF LoopRound
  <1>6. CASE Stop
    <2>1. task' = task /\ call = None /\ Sessions \in SUBSET Session
      BY <1>6 DEF Stop, LoopFree, Sessions
    <2>2. known' \in [Session -> [latest : BOOLEAN, target : Nat]]
      BY <1>2, <1>6 DEF Stop
    <2>3. \A s \in Session \ Sessions : session[s].at = "open" => known'[s] = known[s]
      BY DEF Sessions
    <2>4. task' \in [Task -> [at : TaskState, walk : SUBSET Session, of : Session \cup {None}]]
      BY <1>1, <2>1
    <2> QED
      BY <1>1, <1>6, <2>1, <2>2, <2>3, <2>4, SessionsEnd DEF Stop
  <1>7. ASSUME NEW t \in Task, TaskStep(t) PROVE PoolInv'
    <2>1. CASE RefreshNext(t)
      <3>1. PICK s \in task[t].walk :
               IF Skipped(s) \/ ~up
               THEN /\ task' = [task EXCEPT ![t].walk = @ \ {s}]
                    /\ UNCHANGED <<node, candidates, current, session, known, call, landed, accepted,
                                   stopped>>
               ELSE Build(t, s)
        BY <2>1 DEF RefreshNext
      <3>2. s \in Session /\ task[t].at = "walk"
        BY <1>1, <2>1, <3>1 DEF RefreshNext
      <3>3. CASE Skipped(s) \/ ~up
        <4> DEFINE new == [task[t] EXCEPT !.walk = task[t].walk \ {s}]
        <4>1. task[t].of = None
          BY <1>7, <3>2 DEF PoolInv, TaskTells
        <4>2. new \in [at : {"idle", "walk"}, walk : SUBSET Session, of : {None}]
          BY <1>1, <1>7, <3>2, <4>1
        <4>3. task' = [task EXCEPT ![t] = new]
          BY <1>1, <1>7, <3>1, <3>3
        <4> HIDE DEF new
        <4> QED
          BY <1>7, <3>1, <3>2, <3>3, <4>2, <4>3, TaskMoves
      <3>4. CASE ~(Skipped(s) \/ ~up)
        BY <1>7, <3>1, <3>2, <3>4, BuildStep DEF Skipped
      <3> QED
        BY <3>3, <3>4
    <2>2. CASE RefreshEnds(t)
      <3>1. Idle \in [at : {"idle", "walk"}, walk : SUBSET Session, of : {None}]
        BY DEF Idle
      <3> QED
        BY <1>7, <2>2, <3>1, TaskMoves DEF RefreshEnds
    <2>3. CASE Notify(t)
      BY <1>7, <2>3, NotifyStep
    <2> QED
      BY <1>7, <2>1, <2>2, <2>3 DEF TaskStep
  <1>8. ASSUME NEW s \in Session, Connect(s) \/ Disconnect(s) \/ RefreshOwnJob(s) \/ OnBlock(s)
        PROVE  PoolInv'
    <2> s \in Task
      BY <1>1
    <2>1. CASE Connect(s)
      BY <2>1, ConnectStep
    <2>2. CASE OnBlock(s)
      <3>1. [at |-> "walk", walk |-> Sessions, of |-> None]
               \in [at : {"idle", "walk"}, walk : SUBSET Session, of : {None}]
        BY DEF Sessions
      <3> QED
        BY <2>2, <3>1, TaskMoves DEF OnBlock
    <2>3. CASE RefreshOwnJob(s) /\ Build(s, s)
      <3>1. task[s].at = "authorised" /\ session[s].addr # None
        BY <2>3 DEF RefreshOwnJob, PoolInv, TaskTells
      <3> QED
        BY <2>3, <3>1, BuildStep
    <2>4. CASE Disconnect(s) \/ (RefreshOwnJob(s) /\ ~Build(s, s))
      <3>1. /\ call = None /\ session' = [session EXCEPT ![s] = Ended(s)]
            /\ known' = [known EXCEPT ![s] = Uninformed]
            /\ task' = task \/ task' = [task EXCEPT ![s] = Idle]
            /\ task[s].at \in {"idle", "authorised"}
            /\ UNCHANGED <<node, current, call, landed, accepted>>
        BY <2>4 DEF Disconnect, RefreshOwnJob, LoopFree
      <3>2. session' = [u \in Session |-> IF u \in {s} THEN Ended(u) ELSE session[u]]
        BY <1>1, <3>1
      <3>3. known' \in [Session -> [latest : BOOLEAN, target : Nat]]
        BY <1>1, <1>2, <3>1
      <3>4. \A u \in Session \ {s} : session[u].at = "open" => known'[u] = known[u]
        BY <1>1, <3>1
      <3>5. /\ task' \in [Task -> [at : TaskState, walk : SUBSET Session, of : Session \cup {None}]]
            /\ \A t \in Task : task'[t] = task[t] \/ (t \in {s} /\ task'[t].of = None /\ task[t].of = None
                                                        /\ task'[t].at = "idle")
        <4>1. task[s].of = None
          BY <3>1 DEF PoolInv, TaskTells
        <4>2. CASE task' = task
          BY <1>1, <4>2
        <4>3. CASE task' = [task EXCEPT ![s] = Idle]
          <5>1. Idle \in [at : TaskState, walk : SUBSET Session, of : Session \cup {None}]
            BY DEF Idle, TaskState
          <5> QED
            BY <1>1, <4>1, <4>3, <5>1 DEF Idle
        <4> QED
          BY <3>1, <4>2, <4>3
      <3>6. {s} \in SUBSET Session
        OBVIOUS
      <3> QED
        BY <3>1, <3>2, <3>3, <3>4, <3>5, <3>6, SessionsEnd
    <2> QED
      BY <1>8, <2>1, <2>2, <2>3, <2>4
  <1>9. ASSUME NEW s \in Session, NEW a \in setting.of[s], Authorize(s, a) PROVE PoolInv'
    BY <1>9, AuthorizeStep
  <1>10. ASSUME NEW s \in Session, NEW h \in Hash, Submit(s, h) PROVE PoolInv'
    BY <1>10, SubmitStep
  <1>11. CASE UNCHANGED poolVars
    BY <1>11 DEF poolVars, PoolInv, Types, JobPays, CallPays, TargetTold, JobTold, TaskTells, NewIsEmpty,
                 LatestIsYoungest, Books, PaidItsOwn, Mining, TargetOf
  <1> QED
    BY <1>3, <1>4, <1>5, <1>6, <1>7, <1>8, <1>9, <1>10, <1>11 DEF PoolNext, Task

LEMMA PoolInvariant == PoolSpec => []PoolInv
  BY InitPool, PoolStep, PTL DEF PoolSpec

-----------------------------------------------------------------------------
(* The results.                                                            *)

\* Every block the pool lands pays the address its finder is authorised with, and
\* is counted once, if its answer arrives (submit_sct_block, _handle_authorize).
THEOREM PaymentsCorrect == PoolSpec => []PaidItsOwn
  <1>1. PoolInv => PaidItsOwn
    BY DEF PoolInv, Books
  <1> QED
    BY <1>1, PoolInvariant, PTL

\* A miner nobody is talking to holds the session's job and its share target,
\* whatever tasks renew its job at once (_refresh_own_job).
THEOREM MinersInformed == PoolSpec => []MinerIsInformed
  <1>1. PoolInv => MinerIsInformed
    <2> SUFFICES ASSUME PoolInv, NEW s \in Session, Mining(s), task[s].at = "idle",
                        \A t \in DOMAIN task : task[t].of # s
                 PROVE  known[s] = [latest |-> TRUE, target |-> TargetOf(session[s].job) * ShareEase]
      BY DEF MinerIsInformed
    <2>1. DOMAIN task = Task /\ known[s] \in [latest : BOOLEAN, target : Nat]
      BY DEF PoolInv, Types
    <2>2. session[s].job # None /\ known[s].latest
      BY <2>1 DEF PoolInv, JobTold
    <2>3. known[s].target = TargetOf(session[s].job) * ShareEase
      BY <2>2 DEF PoolInv, TargetTold, Mining
    <2> QED
      BY <2>1, <2>2, <2>3
  <1> QED
    BY <1>1, PoolInvariant, PTL

\* A share that is worth a block on the tip is always worth a share, though the
\* share target is that of the manager's latest job (process_share).
THEOREM BlockSharesCount == PoolSpec => []BlockShareCounts
  <1>1. PoolInv => BlockShareCounts
    <2> SUFFICES ASSUME PoolInv, NEW s \in Session, Mining(s), session[s].job # None,
                        session[s].job.tip = tip
                 PROVE  TargetOf(session[s].job) <= ShareTarget
      BY DEF BlockShareCounts
    <2>1. session[s].job \in Candidate /\ current \in Candidate
      BY DEF PoolInv, Types, LatestIsYoungest
    <2>2. current.tip = tip /\ session[s].job.stamp <= current.stamp
      BY <2>1 DEF PoolInv, Types, LatestIsYoungest, NoLater, Candidate
    <2>3. TargetOf(session[s].job) <= TargetOf(current)
      BY <2>1, <2>2, PoolAssumption DEF TargetOf, Candidate
    <2>4. \A m \in Nat, k \in Nat \ {0} : m <= m * k
      OBVIOUS
    <2>5. TargetOf(current) <= ShareTarget
      BY <2>1, <2>4, TargetNat, PoolAssumption DEF ShareTarget
    <2> QED
      BY <2>1, <2>3, <2>5, TargetNat DEF ShareTarget
  <1> QED
    BY <1>1, PoolInvariant, PTL
=============================================================================
