------------------------------- MODULE Intake -------------------------------
(***************************************************************************)
(* How a node takes blocks in (src/scarletcoin/net/node.py): submit_block, *)
(* the orphans that wait for a parent, the blocks put aside because they   *)
(* are ahead of this machine's clock, and the peers that are blamed.       *)
(*                                                                         *)
(* One thread per peer and the RPC server's call submit_block; the         *)
(* maintenance thread retries and expires.  add_block is atomic (it runs   *)
(* under the chain lock; Chain models what happens inside), the two        *)
(* dictionaries are guarded by the node's own lock, and between the two a  *)
(* thread holds neither.                                                   *)
(*                                                                         *)
(* Everything here goes by the hash of a block's header, which covers      *)
(* neither the transaction list that comes with it nor its AuxPoW proof    *)
(* nor its witnesses: what arrives is a copy, and may be an altered one.   *)
(***************************************************************************)
EXTENDS Integers, FiniteSets, Sequences, SequencesExt

CONSTANTS
    Block,          \* the blocks that may arrive
    Genesis,
    Parent,         \* header.prev_hash
    Timestamp,      \* header.timestamp
    Bad,            \* blocks that fail a check made before the one of the clock
    Altered,        \* the forms in which altered copies of a block arrive, too
    Peer,           \* connected peers, each with its reader thread
    Rpc,            \* the thread of the RPC server
    Maintenance,    \* the maintenance thread
    MaxClock,       \* bound on time.time()
    MaxFutureTime,  \* params.max_future_time
    MaxHeld,        \* MAX_ORPHANS, the limit of both dictionaries
    OrphanTime,     \* how long an orphan is kept (600 s)
    PrematureTime,  \* how long a premature block is kept (1800 s)
    BanThreshold    \* BAN_THRESHOLD

\* A copy is whole, or has another transaction list or lacks its proof ("list"),
\* or has another AuxPoW proof, or other witnesses.
Form == {"whole", "list", "proof", "witness"}

ASSUME IntakeAssumption ==
    /\ Genesis \in Block /\ Bad \in SUBSET (Block \ {Genesis})
    /\ Altered \in [Block -> SUBSET Form]
    /\ Parent \in [Block \ {Genesis} -> Block]
    /\ Timestamp \in [Block -> Nat]
    /\ Rpc \notin Peer /\ Maintenance \notin Peer \cup {Rpc}
    /\ MaxClock \in Nat /\ MaxFutureTime \in Nat /\ MaxHeld \in Nat \ {0}
    /\ OrphanTime \in Nat /\ PrematureTime \in Nat /\ BanThreshold \in Nat

VARIABLES
    stored,     \* blocks the chain has accepted
    refused,    \* blocks the chain remembers as invalid
    spoilt,     \* history: blocks an altered copy of which was found invalid
    orphans,    \* Node._orphans, oldest first
    premature,  \* Node._premature, oldest first
    clock,      \* time.time(), which may start behind the network's
    announced,  \* blocks _relay has announced
    score,      \* Peer.misbehaviour
    call        \* what each thread is doing

vars == <<stored, refused, spoilt, orphans, premature, clock, announced, score,
          call>>

Submitter == Peer \cup {Rpc}

Thread == Submitter \cup {Maintenance}

Idle == [at |-> "idle", block |-> Genesis, form |-> "whole", verdict |-> "duplicate",
         pending |-> <<>>, children |-> <<>>, waiting |-> <<>>]

Closed == [Idle EXCEPT !.at = "closed"]

HeldBlocks(q) == {q[i].block : i \in 1..Len(q)}

Init ==
    /\ stored = {Genesis} /\ refused = {} /\ spoilt = {}
    /\ orphans = <<>> /\ premature = <<>>
    /\ clock \in 0..MaxClock
    /\ announced = {Genesis}
    /\ score = [p \in Peer |-> 0]
    /\ call = [t \in Thread |-> Idle]

----------------------------------------------------------------------------
(***************************************************************************)
(* Blockchain.add_block, in one step.                                      *)
(***************************************************************************)

Ahead(b) == Timestamp[b] > clock + MaxFutureTime

\* What is checked before the clock is read, ...
FailsBeforeClock(b, form) == form = "list" \/ b \in Bad \/ Parent[b] \in refused

\* ... and after it: the AuxPoW proof before the block is stored, and the
\* witnesses once it is, when it is connected.
FailsAfterClock(form) == form \in {"proof", "witness"}

Verdict(b, form) ==
    CASE b \in refused -> "invalid"
      [] b \in stored \ refused -> "duplicate"
      [] b \notin refused \cup stored /\ Parent[b] \notin stored -> "orphan"
      [] b \notin refused \cup stored /\ Parent[b] \in stored ->
           IF FailsBeforeClock(b, form) THEN "invalid"
           ELSE IF Ahead(b) THEN "premature"
           ELSE IF FailsAfterClock(form) THEN "invalid" ELSE "accepted"

\* put_block is reached: the copy is the one that will be connected.
Puts(b, form) ==
    /\ b \notin refused \cup stored /\ Parent[b] \in stored
    /\ ~FailsBeforeClock(b, form) /\ ~Ahead(b) /\ form # "proof"

\* Mutant: a block ahead of the clock is remembered as invalid.
AddBlockRemembersAll(b, form) ==
    /\ stored' = IF Puts(b, form) THEN stored \cup {b} ELSE stored
    /\ refused' = IF Verdict(b, form) \in {"invalid", "premature"} THEN refused \cup {b}
                                                                  ELSE refused
    /\ spoilt' = IF form # "whole" /\ Verdict(b, form) = "invalid" THEN spoilt \cup {b}
                                                                  ELSE spoilt

\* Whatever the copy, the hash of the header is what the chain remembers.
AddBlock(b, form) ==
    /\ stored' = IF Puts(b, form) THEN stored \cup {b} ELSE stored
    /\ refused' = IF Verdict(b, form) = "invalid" THEN refused \cup {b} ELSE refused
    /\ spoilt' = IF form # "whole" /\ Verdict(b, form) = "invalid" THEN spoilt \cup {b}
                                                                  ELSE spoilt

----------------------------------------------------------------------------
(***************************************************************************)
(* The two dictionaries.                                                   *)
(***************************************************************************)

\* A block that is held already keeps its place and gets a new time, and the
\* copy that came last is kept; one too many pushes the oldest out.
Hold(q, b, form) ==
    LET entry == [block |-> b, form |-> form, seen |-> clock]
        r == IF b \in HeldBlocks(q)
             THEN [i \in 1..Len(q) |-> IF q[i].block = b THEN entry ELSE q[i]]
             ELSE Append(q, entry)
    IN  IF Len(r) > MaxHeld THEN Tail(r) ELSE r

\* The entries of q at the positions I, in order.
Entries(q, I) ==
    LET place(i) == Cardinality({j \in I : j <= i})
    IN  [k \in 1..Cardinality(I) |-> q[CHOOSE i \in I : place(i) = k]]

Release(q, S) == Entries(q, {i \in 1..Len(q) : q[i].block \notin S})

\* The orphans that wait for b, oldest first, as the copies that were held.
ChildrenOf(b) ==
    LET waiting == Entries(orphans, {i \in 1..Len(orphans) : Parent[orphans[i].block] = b})
    IN  [i \in 1..Len(waiting) |-> [block |-> waiting[i].block, form |-> waiting[i].form]]

BlocksOf(copies) == {copies[i].block : i \in 1..Len(copies)}

----------------------------------------------------------------------------

Sets(t, c) == call' = [call EXCEPT ![t] = c]

\* submit_block: the chain judges, and the chain lock is released.
Submit(t, b, form) ==
    /\ call[t].at = "idle"
    /\ AddBlock(b, form)
    /\ Sets(t, [Idle EXCEPT !.at = "judged", !.block = b, !.form = form,
                            !.verdict = Verdict(b, form)])
    /\ UNCHANGED <<orphans, premature, clock, announced, score>>

RememberOrphan(t) ==
    /\ call[t].at = "judged" /\ call[t].verdict = "orphan"
    /\ orphans' = Hold(orphans, call[t].block, call[t].form)
    /\ Sets(t, Idle)
    /\ UNCHANGED <<stored, refused, spoilt, premature, clock, announced, score>>

DeferPremature(t) ==
    /\ call[t].at = "judged" /\ call[t].verdict = "premature"
    /\ premature' = Hold(premature, call[t].block, call[t].form)
    /\ Sets(t, Idle)
    /\ UNCHANGED <<stored, refused, spoilt, orphans, clock, announced, score>>

\* _on_block and _misbehave: an invalid block costs its sender 50 points; a
\* banned peer's connection is closed.  Nobody is blamed for an RPC call.
Reject(t) ==
    /\ call[t].at = "judged" /\ call[t].verdict = "invalid"
    /\ score' = IF t \in Peer THEN [score EXCEPT ![t] = @ + 50] ELSE score
    /\ Sets(t, IF t \in Peer /\ score'[t] >= BanThreshold THEN Closed ELSE Idle)
    /\ UNCHANGED <<stored, refused, spoilt, orphans, premature, clock, announced>>

\* The rest of submit_block, for a block that is stored now or was before.
Relay(t) ==
    /\ call[t].at = "judged" /\ call[t].verdict \in {"accepted", "duplicate"}
    /\ announced' = announced \cup {call[t].block}
    /\ Sets(t, [Idle EXCEPT !.at = "connect", !.pending = <<call[t].block>>])
    /\ UNCHANGED <<stored, refused, spoilt, orphans, premature, clock, score>>

\* Mutant: every orphan is taken, not only the children.
TakeChildrenAll(t) ==
    /\ call[t].at = "connect" /\ call[t].children = <<>> /\ call[t].pending # <<>>
    /\ orphans' = <<>>
    /\ Sets(t, [call[t] EXCEPT !.pending = Front(call[t].pending),
                               !.children = ChildrenOf(Last(call[t].pending))])
    /\ UNCHANGED <<stored, refused, spoilt, premature, clock, announced, score>>

\* _connect_orphans_of: the children of the next block of `pending' are taken
\* out under the lock, ...
TakeChildren(t) ==
    /\ call[t].at = "connect" /\ call[t].children = <<>> /\ call[t].pending # <<>>
    /\ LET children == ChildrenOf(Last(call[t].pending))
       IN  /\ orphans' = Release(orphans, BlocksOf(children))
           /\ Sets(t, [call[t] EXCEPT !.pending = Front(call[t].pending), !.children = children])
    /\ UNCHANGED <<stored, refused, spoilt, premature, clock, announced, score>>

\* ... and offered to the chain one by one; what is not accepted is dropped.
ConnectChild(t) ==
    /\ call[t].at = "connect" /\ call[t].children # <<>>
    /\ LET b == Head(call[t].children).block
           form == Head(call[t].children).form
           connected == Verdict(b, form) = "accepted"
       IN  /\ AddBlock(b, form)
           /\ announced' = IF connected THEN announced \cup {b} ELSE announced
           /\ Sets(t, [call[t] EXCEPT
                !.children = Tail(call[t].children),
                !.pending = IF connected THEN Append(call[t].pending, b) ELSE call[t].pending])
    /\ UNCHANGED <<orphans, premature, clock, score>>

ConnectDone(t) ==
    /\ call[t].at = "connect" /\ call[t].children = <<>> /\ call[t].pending = <<>>
    /\ Sets(t, IF t = Maintenance THEN [call[t] EXCEPT !.at = "retry"] ELSE Idle)
    /\ UNCHANGED <<stored, refused, spoilt, orphans, premature, clock, announced, score>>

----------------------------------------------------------------------------
(***************************************************************************)
(* The maintenance thread.                                                 *)
(***************************************************************************)

\* _retry_premature copies the dictionary, ...
RetryStart ==
    /\ call[Maintenance].at = "idle" /\ premature # <<>>
    /\ Sets(Maintenance, [Idle EXCEPT !.at = "retry", !.waiting = premature])
    /\ UNCHANGED <<stored, refused, spoilt, orphans, premature, clock, announced, score>>

\* ... offers each block to the chain, ...
Retry ==
    /\ call[Maintenance].at = "retry" /\ call[Maintenance].waiting # <<>>
    /\ LET b == Head(call[Maintenance].waiting).block
           form == Head(call[Maintenance].waiting).form
       IN  /\ AddBlock(b, form)
           /\ Sets(Maintenance, [call[Maintenance] EXCEPT
                !.at = "retried", !.block = b, !.form = form,
                !.verdict = Verdict(b, form)])
    /\ UNCHANGED <<orphans, premature, clock, announced, score>>

Expired(e) == clock - e.seen > PrematureTime

\* Mutant: nothing is dropped until it expires.
SettledByAge(e, verdict) == Expired(e)

\* The chain has a verdict on the block, or it has been held too long.
Settled(e, verdict) == verdict # "premature" \/ Expired(e)

\* ... and drops it unless it is still premature.
RetrySettle ==
    /\ call[Maintenance].at = "retried"
    /\ LET c == call[Maintenance]
           e == Head(c.waiting)
           connected == c.verdict = "accepted"
       IN  /\ premature' = IF Settled(e, c.verdict) THEN Release(premature, {e.block})
                                                    ELSE premature
           /\ announced' = IF connected THEN announced \cup {e.block} ELSE announced
           /\ Sets(Maintenance, [Idle EXCEPT
                !.waiting = Tail(c.waiting), !.at = IF connected THEN "connect" ELSE "retry",
                !.pending = IF connected THEN <<e.block>> ELSE <<>>])
    /\ UNCHANGED <<stored, refused, spoilt, orphans, clock, score>>

RetryDone ==
    /\ call[Maintenance].at = "retry" /\ call[Maintenance].waiting = <<>>
    /\ Sets(Maintenance, Idle)
    /\ UNCHANGED <<stored, refused, spoilt, orphans, premature, clock, announced, score>>

TooOld(e) == clock - e.seen > OrphanTime

\* _maintenance_loop, once per round.
ExpireOrphans ==
    /\ call[Maintenance].at = "idle"
    /\ \E i \in 1..Len(orphans) : TooOld(orphans[i])
    /\ orphans' = Entries(orphans, {i \in 1..Len(orphans) : ~TooOld(orphans[i])})
    /\ UNCHANGED <<stored, refused, spoilt, premature, clock, announced, score, call>>

\* Time passes, or the clock is put right.
Tick ==
    /\ clock < MaxClock /\ clock' = clock + 1
    /\ UNCHANGED <<stored, refused, spoilt, orphans, premature, announced, score, call>>

----------------------------------------------------------------------------

\* What a thread does once it has begun.
Continue(t) ==
    \/ RememberOrphan(t) \/ DeferPremature(t) \/ Reject(t) \/ Relay(t)
    \/ TakeChildren(t) \/ ConnectChild(t) \/ ConnectDone(t)

Maintain == RetryStart \/ Retry \/ RetrySettle \/ RetryDone \/ Continue(Maintenance)

Next ==
    \/ \E t \in Submitter : \E b \in Block : \E form \in {"whole"} \cup Altered[b] :
            Submit(t, b, form)
    \/ \E t \in Submitter : Continue(t)
    \/ Maintain \/ ExpireOrphans \/ Tick

Spec == Init /\ [][Next]_vars

\* A thread that has begun goes on; nothing it waits for is held for ever.
\* The maintenance thread wakes up on a timer.
FairSpec ==
    /\ Spec
    /\ \A t \in Submitter : WF_vars(Continue(t))
    /\ WF_vars(Maintain)

----------------------------------------------------------------------------
(***************************************************************************)
(* Properties.                                                             *)
(***************************************************************************)

\* The blocks that break a rule or of which an altered copy was found invalid,
\* and those that stand on one of them.
Tainted ==
    {b \in Block :
        \A T \in SUBSET Block :
            /\ Bad \cup spoilt \subseteq T
            /\ \A c \in Block \ {Genesis} : Parent[c] \in T => c \in T
            => b \in T}

\* A peer's score grows only for a block that breaks a rule, or stands on one:
\* a wrong clock here, and whatever order blocks arrive in, is never held
\* against a peer (_note_premature_block: "The peers serving them are
\* blameless, so nothing is held against them").  The exception is by name: once
\* the chain has found an altered copy of a block invalid, a peer that sends the
\* whole block or one above it is blamed too, for the chain goes by the hash.
BlamelessPeers ==
    [][\A p \in Peer : score'[p] # score[p] => call[p].block \in Tainted]_vars

\* Going from q to r, a newcomer took the place of b, the oldest of a full q.
Displaced(q, r, b) ==
    /\ Len(q) = MaxHeld /\ q[1].block = b
    /\ ~(HeldBlocks(r) \subseteq HeldBlocks(q))

\* An orphan leaves the waiting room only because its parent is stored and a
\* thread now tries to connect it, because it is too old, or because a
\* newcomer took its place (_connect_orphans_of, _remember_orphan,
\* _maintenance_loop).
OrphansWait ==
    [][\A i \in 1..Len(orphans) :
        LET b == orphans[i].block
        IN  \/ b \in HeldBlocks(orphans') \/ Parent[b] \in stored
            \/ TooOld(orphans[i]) \/ Displaced(orphans, orphans', b)]_vars

\* A deferred block leaves only once the chain has stored or refused it,
\* because it was too old when the retry began, or because a newcomer took
\* its place (_retry_premature, _defer_premature).
DeferredWait ==
    [][\A b \in HeldBlocks(premature) :
        \/ b \in HeldBlocks(premature') \cup stored \cup refused
        \/ \E e \in ToSet(call[Maintenance].waiting) : e.block = b /\ Expired(e)
        \/ Displaced(premature, premature', b)]_vars

\* A deferred block is kept as long as it has to wait, and not for ever once
\* the clock allows it: again and again nothing that is due is held
\* (_retry_premature: "Without this, recovering from a wrong clock would mean
\* restarting the node").
DeferredReturn == DeferredWait /\ []<>(\A b \in HeldBlocks(premature) : Ahead(b))

=============================================================================
