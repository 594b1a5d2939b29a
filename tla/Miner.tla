-------------------------------- MODULE Miner --------------------------------
(***************************************************************************)
(* The mining loop (miner/miner.py): Miner.run and _mine_template against  *)
(* a node whose tip moves.  A round of hashing is one step; how many       *)
(* rounds a template has room for stands for the nonces.                   *)
(***************************************************************************)
EXTENDS Integers

CONSTANTS
    MaxTip,         \* bound on the chain
    Rounds          \* rounds until the nonces of a template are used up

ASSUME MinerAssumption == MaxTip \in Nat /\ Rounds \in Nat \ {0}

VARIABLES
    tip,            \* the tip of the chain, by height
    miner           \* the Miner object and the thread that runs it

minerVars == <<tip, miner>>

\* "fetch": at the head of run's loop; "scan": in _mine_template; "submit": a
\* block was found; "ended": run has returned.
Idle == [at |-> "idle", stop |-> FALSE, template |-> 0, round |-> 0, pool |-> TRUE,
         local |-> TRUE, checked |-> FALSE]

MinerInit == tip = 0 /\ miner = Idle

Active == miner.at \notin {"idle", "ended"}

\* Miner.__init__ and the first lines of run: a pool of workers is made.
StartMiner ==
    /\ miner.at = "idle"
    /\ miner' = [Idle EXCEPT !.at = "fetch"] /\ UNCHANGED tip

\* Miner.stop
StopMiner ==
    /\ miner.at # "idle" /\ ~miner.stop
    /\ miner' = [miner EXCEPT !.stop = TRUE] /\ UNCHANGED tip

\* Mutant: work is fetched once.
TemplateKept == IF miner.checked THEN miner.template ELSE tip

\* _fetch_template: a template for the block after the node's tip.
Template == tip

\* The loop of run: it ends when it was told to stop.  Without an answer it
\* waits and tries again; an address of another network ends it.
Fetch(gives) ==
    /\ miner.at = "fetch"
    /\ \/ miner.stop /\ miner' = [miner EXCEPT !.at = "ended"]
       \/ /\ ~miner.stop /\ gives /\ ~miner.checked
          /\ miner' = [miner EXCEPT !.at = "ended"]
       \/ /\ ~miner.stop /\ gives
          /\ miner' = [miner EXCEPT !.at = "scan", !.template = Template, !.round = 0,
                                    !.checked = TRUE, !.local = @ /\ miner.pool]
    /\ UNCHANGED tip

\* _mine_template's loop goes on: not stopped and nonces are left.
GoesOn == ~miner.stop /\ miner.round < Rounds

\* A round that finds nothing, with the idle wait that keeps it to max_rate, or
\* a worker that crashes: its nonces are passed over.  _mine_template makes a new pool for itself; run keeps the old one,
\* which fails at once on the next template.
Round ==
    /\ miner.at = "scan" /\ GoesOn
    /\ \/ miner.local /\ miner' = [miner EXCEPT !.round = @ + 1]
       \/ miner' = [miner EXCEPT !.round = @ + 1, !.local = TRUE, !.pool = FALSE]
    /\ UNCHANGED tip

\* A round that finds a solution, which is submitted whatever happens.
Finds ==
    /\ miner.at = "scan" /\ GoesOn /\ miner.local
    /\ miner' = [miner EXCEPT !.at = "submit"] /\ UNCHANGED tip

\* The template is given up: refresh_seconds have passed, it was stopped, or
\* the nonces are used up.
Expires ==
    /\ miner.at = "scan"
    /\ miner' = [miner EXCEPT !.at = "fetch", !.local = miner.pool] /\ UNCHANGED tip

\* _submit: a block on the tip extends the chain, a late one is a side branch;
\* an error is reported and mining goes on.
Submit(gives) ==
    /\ miner.at = "submit"
    /\ tip' = IF gives /\ miner.template = tip /\ tip < MaxTip THEN tip + 1 ELSE tip
    /\ miner' = [miner EXCEPT !.at = "fetch", !.local = miner.pool]

TipMoves == tip < MaxTip /\ tip' = tip + 1 /\ UNCHANGED miner
=============================================================================
