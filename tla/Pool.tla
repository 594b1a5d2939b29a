-------------------------------- MODULE Pool --------------------------------
(***************************************************************************)
(* The merged-mining pool (pool/scarlet_pool/server.py, jobs.py) on one    *)
(* asyncio loop, and the candidates the node keeps for it                  *)
(* (createauxblock, submitauxblock in net/rpc.py, store_aux_candidate and  *)
(* find_aux_candidate in net/node.py).                                     *)
(*                                                                         *)
(* A task of the loop runs from one await to the next without being        *)
(* interrupted, calls to the node included: they block the loop.  The node *)
(* has threads of its own and moves on while such a call is under way.     *)
(***************************************************************************)
EXTENDS Integers, FiniteSets, Sequences, SequencesExt

CONSTANTS
    Session,            \* connections of miners, each made once
    Address,            \* payout addresses
    Hash,               \* the values a share may have, as integers
    Target,             \* block target on a tip at a time: it gets easier as time passes
    MaxTip, MaxStamp,   \* bounds on the chain and on the time spent on one tip
    ShareEase,          \* DEFAULT_SHARE_EASE
    MaxAuxCandidates,   \* config.max_aux_candidates
    Settings,           \* what is looked at together: addresses of each miner, time, faults
    None

\* A candidate: the coinbase pays addr, on the tip and with the stamp of its making.
Candidate == [addr : Address, tip : 0..MaxTip, stamp : 0..MaxStamp]

ASSUME PoolAssumption ==
    /\ MaxTip \in Nat /\ MaxStamp \in Nat /\ ShareEase \in Nat \ {0} /\ MaxAuxCandidates \in Nat \ {0}
    /\ Target \in [0..MaxTip -> [0..MaxStamp -> Nat \ {0}]]
    /\ \A t \in 0..MaxTip, i, j \in 0..MaxStamp : i <= j => Target[t][i] <= Target[t][j]
    /\ Settings \subseteq [of : [Session -> SUBSET Address], stamps : 0..MaxStamp, faults : BOOLEAN]
    /\ None \notin Address \cup Session \cup Candidate /\ Hash \subseteq Nat

VARIABLES
    setting,    \* one of the settings
    tip,        \* the node's chain, by height
    stamp,      \* the clock and the mempool: what else a candidate is made of
    up,         \* the node answers
    candidates, \* node._aux_candidates, an OrderedDict
    current,    \* manager._current
    session,    \* StratumSession objects
    known,      \* what each miner was last told: is it the session's job, and the share target
    task,       \* the tasks of the loop: one per session, and the refresh loop
    call,       \* submitauxblock under way in the node
    landed,     \* blocks of the pool that were connected: who is paid, who is owed
    accepted,   \* manager.sct_blocks_accepted
    stopped     \* server._stop

node == <<setting, tip, stamp, up>>
poolVars == <<setting, tip, stamp, up, candidates, current, session, known, task, call,
          landed, accepted, stopped>>

Loop == "refresh loop"
Idle == [at |-> "idle", walk |-> {}, of |-> None]

Uninformed == [latest |-> FALSE, target |-> 0]

PoolInit ==
    /\ setting \in Settings
    /\ tip = 0 /\ stamp = 0 /\ up = TRUE /\ candidates = <<>> /\ current = None
    /\ session = [s \in Session |-> [at |-> "new", addr |-> None, job |-> None]]
    /\ known = [s \in Session |-> Uninformed]
    /\ task = [t \in Session \cup {Loop} |-> Idle]
    /\ call = None /\ landed = {} /\ accepted = 0 /\ stopped = FALSE

\* The loop runs no task while one waits for the node.
LoopFree == call = None

-----------------------------------------------------------------------------
(* The node.                                                               *)

\* store_aux_candidate: an assignment to a key that exists keeps its place.
StoreAuxCandidate(c) ==
    LET kept == IF Len(candidates) >= MaxAuxCandidates THEN Tail(candidates) ELSE candidates
    IN  IF c \in Range(kept) THEN kept ELSE Append(kept, c)

\* createauxblock, create_aux_block: the candidate is frozen on the present tip.
CreateAuxBlock(a) == [addr |-> a, tip |-> tip, stamp |-> stamp]

\* find_aux_candidate: a candidate of an earlier tip is as good as none.
FindAuxCandidate(c) == c \in Range(candidates) /\ c.tip = tip

\* A stale candidate is removed when it is looked for.
Looked(c) == IF c.tip # tip THEN SelectSeq(candidates, LAMBDA d : d # c) ELSE candidates

\* Another block is connected by the node.
NodeAdvances ==
    /\ tip < MaxTip /\ tip' = tip + 1 /\ stamp' = 0
    /\ UNCHANGED <<setting, up, candidates, current, session, known, task, call, landed, accepted,
                   stopped>>

\* Time passes, or a transaction comes: the next candidate has another hash.
TimePasses ==
    /\ stamp < setting.stamps /\ stamp' = stamp + 1
    /\ UNCHANGED <<setting, tip, up, candidates, current, session, known, task, call, landed,
                   accepted, stopped>>

NodeFails ==
    /\ setting.faults /\ up' = ~up
    /\ UNCHANGED <<setting, tip, stamp, candidates, current, session, known, task, call,
                   landed, accepted, stopped>>

-----------------------------------------------------------------------------
(* Jobs.                                                                   *)

TargetOf(job) == Target[job.tip][job.stamp]

\* Mutant of share_target: shares harder than blocks.
ShareTargetHarder == TargetOf(current) \div ShareEase

\* share_target: derived from the manager's latest job, not from the session's.
ShareTarget == TargetOf(current) * ShareEase

\* Mutant: the difficulty is read before the job is built.
AnnouncedEarlier(job) == IF current = None THEN 0 ELSE ShareTarget

\* The share target that goes out ahead of a job.
Announced(job) == TargetOf(job) * ShareEase

\* _refresh_own_job up to its first await: a job with an id of its own is built
\* and kept, and the share difficulty goes out.  The miner does not know it yet.
Build(t, s) ==
    LET job == CreateAuxBlock(session[s].addr)
    IN  /\ up
        /\ candidates' = StoreAuxCandidate(job)
        /\ current' = job
        /\ IF session[s].at = "open"
           THEN /\ session' = [session EXCEPT ![s].job = job]
                /\ known' = [known EXCEPT ![s] = [latest |-> FALSE, target |-> Announced(job)]]
           ELSE UNCHANGED <<session, known>>
        /\ task' = [task EXCEPT ![t] = [at |-> "told", of |-> s, walk |-> task[t].walk \ {s}]]
        /\ UNCHANGED <<setting, tip, stamp, up, call, landed, accepted, stopped>>

\* send_job: what goes out is the job the session has by then.
SendJob(s) ==
    known' = IF session[s].at = "open" THEN [known EXCEPT ![s].latest = TRUE] ELSE known

\* What is left of a session that ended: its object, in somebody's copy.
Ended(s) == [session[s] EXCEPT !.at = "closed", !.job = None]

\* _handle_authorize: the address is noted and the answer sent.
Authorize(s, a) ==
    /\ LoopFree /\ session[s].at = "open" /\ task[s].at = "idle"
    /\ session' = [session EXCEPT ![s].addr = a]
    /\ task' = [task EXCEPT ![s].at = "authorised"]
    /\ UNCHANGED <<node, candidates, current, known, call, landed, accepted, stopped>>

\* The miner's own job; a node that does not answer ends the session.
RefreshOwnJob(s) ==
    /\ LoopFree /\ task[s].at = "authorised"
    /\ \/ Build(s, s)
       \/ /\ ~up
          /\ session' = [session EXCEPT ![s] = Ended(s)] /\ task' = [task EXCEPT ![s] = Idle]
          /\ known' = [known EXCEPT ![s] = Uninformed]
          /\ UNCHANGED <<node, candidates, current, call, landed, accepted, stopped>>

\* Mutant: a miner that has a job keeps it.
SkippedServed(s) == session[s].addr = None \/ session[s].job # None

\* refresh_job passes over the miners that have not authorised.
Skipped(s) == session[s].addr = None

\* refresh_job: the miners in a copy of the sessions, in any order.  One whose
\* job cannot be built keeps the job it has.
RefreshNext(t) ==
    /\ LoopFree /\ task[t].at = "walk"
    /\ \E s \in task[t].walk :
          IF Skipped(s) \/ ~up
          THEN /\ task' = [task EXCEPT ![t].walk = @ \ {s}]
               /\ UNCHANGED <<node, candidates, current, session, known, call, landed, accepted,
                              stopped>>
          ELSE Build(t, s)

RefreshEnds(t) ==
    /\ task[t].at = "walk" /\ task[t].walk = {}
    /\ task' = [task EXCEPT ![t] = Idle]
    /\ UNCHANGED <<node, candidates, current, session, known, call, landed, accepted, stopped>>

\* The rest of _refresh_own_job.
Notify(t) ==
    /\ LoopFree /\ task[t].at = "told"
    /\ SendJob(task[t].of)
    /\ task' = [task EXCEPT ![t] = IF t = task[t].of /\ task[t].walk = {} THEN Idle
                                   ELSE [at |-> "walk", of |-> None, walk |-> task[t].walk]]
    /\ UNCHANGED <<node, candidates, current, session, call, landed, accepted, stopped>>

Sessions == {s \in Session : session[s].at = "open"}

\* _refresh_loop.
LoopRound ==
    /\ LoopFree /\ task[Loop].at = "idle" /\ ~stopped
    /\ task' = [task EXCEPT ![Loop] = [at |-> "walk", walk |-> Sessions, of |-> None]]
    /\ UNCHANGED <<node, candidates, current, session, known, call, landed, accepted, stopped>>

-----------------------------------------------------------------------------
(* Shares.                                                                 *)

\* process_share: the share counts, and is worth a block.
ShareAccepted(h) == h <= ShareTarget
MeetsSctTarget(job, h) == ShareAccepted(h) /\ h <= TargetOf(job)

Replied(s) == [task EXCEPT ![s].at = "replied"]

\* _handle_submit: a share for another job than the session's is refused; one
\* worth a block is handed to the node.
Submit(s, h) ==
    /\ LoopFree /\ session[s].at = "open" /\ task[s].at = "idle" /\ tip < MaxTip
    /\ session[s].job # None /\ known[s].latest
    /\ MeetsSctTarget(session[s].job, h)
    /\ LET c == session[s].job
       IN  /\ candidates' = IF up THEN Looked(c) ELSE candidates
           /\ IF up /\ FindAuxCandidate(c)
              THEN call' = [by |-> s, cand |-> c] /\ task' = [task EXCEPT ![s].at = "called"]
              ELSE UNCHANGED <<call, task>>
    /\ UNCHANGED <<node, current, session, known, landed, accepted, stopped>>

\* submitauxblock hands the block to the chain: by then it may be a side branch.
Extends(c) == c.tip = tip

\* Mutant: any answer of the node counts as a block.
CountsAny(connected) == TRUE

\* submit_sct_block: the node's answer, and whether the pool counts it.
Counts(connected) == connected

\* The block landed, and the answer that says so arrives.
Heard == Extends(call.cand) /\ up

SubmitReturns ==
    /\ call # None
    /\ IF Extends(call.cand)
       THEN /\ tip' = tip + 1 /\ stamp' = 0
            /\ landed' = landed \cup {[height |-> tip + 1, paid |-> call.cand.addr,
                                       owed |-> session[call.by].addr]}
       ELSE UNCHANGED <<tip, stamp, landed>>
    /\ accepted' = IF Counts(Heard) THEN accepted + 1 ELSE accepted
    /\ task' = IF Heard THEN Replied(call.by) ELSE [task EXCEPT ![call.by] = Idle]
    /\ call' = None
    /\ UNCHANGED <<setting, up, candidates, current, session, known, stopped>>

\* _handle_submit, after a block landed: on_block renews every miner's job.
OnBlock(s) ==
    /\ LoopFree /\ task[s].at = "replied"
    /\ task' = [task EXCEPT ![s] = [at |-> "walk", walk |-> Sessions, of |-> None]]
    /\ UNCHANGED <<node, candidates, current, session, known, call, landed, accepted, stopped>>

-----------------------------------------------------------------------------
(* Connections.                                                            *)

Connect(s) ==
    /\ LoopFree /\ session[s].at = "new" /\ ~stopped /\ setting.of[s] # {}
    /\ session' = [session EXCEPT ![s].at = "open"]
    /\ UNCHANGED <<node, candidates, current, known, task, call, landed, accepted, stopped>>

\* run: the connection ended, or the miner was silent for too long.
Disconnect(s) ==
    /\ LoopFree /\ session[s].at = "open" /\ task[s].at = "idle"
    /\ session' = [session EXCEPT ![s] = Ended(s)] /\ known' = [known EXCEPT ![s] = Uninformed]
    /\ UNCHANGED <<node, candidates, current, task, call, landed, accepted, stopped>>

Stop ==
    /\ LoopFree /\ setting.faults /\ ~stopped /\ stopped' = TRUE
    /\ session' = [s \in Session |-> IF s \in Sessions THEN Ended(s) ELSE session[s]]
    /\ known' = [s \in Session |-> Uninformed]
    /\ UNCHANGED <<node, candidates, current, task, call, landed, accepted>>

-----------------------------------------------------------------------------
TaskStep(t) == RefreshNext(t) \/ RefreshEnds(t) \/ Notify(t)

PoolNext ==
    \/ NodeAdvances \/ TimePasses \/ NodeFails \/ SubmitReturns \/ LoopRound \/ Stop
    \/ \E t \in Session \cup {Loop} : TaskStep(t)
    \/ \E s \in Session :
          \/ Connect(s) \/ Disconnect(s) \/ RefreshOwnJob(s) \/ OnBlock(s)
          \/ \E a \in setting.of[s] : Authorize(s, a)
          \/ \E h \in Hash : Submit(s, h)

\* The event loop serves every task and the node's threads go on; miners, the
\* network and the operator do as they like.
Fairness ==
    /\ WF_poolVars(SubmitReturns) /\ WF_poolVars(LoopRound)
    /\ \A t \in Session \cup {Loop} : WF_poolVars(TaskStep(t))
    /\ \A s \in Session : WF_poolVars(RefreshOwnJob(s)) /\ WF_poolVars(OnBlock(s))

PoolSpec == PoolInit /\ [][PoolNext]_poolVars /\ Fairness

-----------------------------------------------------------------------------
(* Properties.                                                             *)

\* A miner that has authorised.
Mining(s) == session[s].at = "open" /\ session[s].addr # None

\* Every block the pool lands pays the address its finder is authorised with,
\* though the finder may have authorised again with another one, and the pool
\* counts no block that did not land, and all of them as long as no answer of
\* the node is lost (_handle_authorize, refresh_job, submit_sct_block).
PaidItsOwn ==
    /\ \A b \in landed : b.paid = b.owed
    /\ accepted <= Cardinality(landed)
    /\ ~setting.faults => accepted = Cardinality(landed)

\* Whatever tasks renew a miner's job at once, a miner nobody is talking to
\* holds the session's job and was told the share target that goes with it
\* (_refresh_own_job).
MinerIsInformed ==
    \A s \in Session :
        (Mining(s) /\ task[s].at = "idle" /\ \A t \in DOMAIN task : task[t].of # s) =>
            known[s] = [latest |-> TRUE, target |-> TargetOf(session[s].job) * ShareEase]

\* A share worth a block on the present tip is never turned away because
\* another miner's job set the share target (share_target, process_share).
BlockShareCounts ==
    \A s \in Session :
        (Mining(s) /\ session[s].job # None /\ session[s].job.tip = tip) =>
            TargetOf(session[s].job) <= ShareTarget

\* Again and again every miner works on the node's tip, unless the node does
\* not answer or the pool has stopped (_refresh_loop, refresh_job).
JobsFollowTip ==
    []<>(~up \/ stopped \/
         \A s \in Session : Mining(s) => session[s].job # None /\ session[s].job.tip = tip)
=============================================================================
