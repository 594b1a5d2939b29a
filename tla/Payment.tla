------------------------------ MODULE Payment -------------------------------
(***************************************************************************)
(* A payment: coin selection and fees (wallet/builder.py), the wallet that *)
(* asks the node for its coins, builds, waits for the user and broadcasts  *)
(* (wallet/wallet.py, wallet/cli.py, gui/wallet_app.py), the client that   *)
(* retries and looks for a transaction that may have been lost             *)
(* (net/client.py), and the node as its RPC shows it (net/rpc.py).         *)
(*                                                                         *)
(* A transaction is what its id covers: the coins it spends and what it    *)
(* pays.  Two payments built from the same coins for the same amount are   *)
(* the same transaction.                                                   *)
(***************************************************************************)
EXTENDS Integers, FiniteSets, Sequences, SequencesExt, FiniteSetsExt

CONSTANTS
    Payer,          \* processes that pay with the same keys
    Patient,        \* those that use broadcast(): the command line
    FeePerKb,
    PerInput, PerOutput, Base,  \* PER_INPUT_BYTES, PER_OUTPUT_BYTES, BASE_BYTES
    OneByte,        \* counts below this one take one byte: 0xFD
    MaxTxBytes,     \* max_block_size // 2
    MaxSweep,       \* DEFAULT_MAX_SWEEP_INPUTS
    MaxAttempts,    \* MAX_ATTEMPTS of the client
    Looks,          \* how often broadcast() looks for the transaction
    MaxPayment      \* bound on the payments of a process

ASSUME PaymentAssumption ==
    /\ Patient \subseteq Payer /\ FeePerKb \in Nat
    /\ {PerInput, PerOutput, Base, MaxTxBytes, MaxSweep, MaxAttempts, Looks, MaxPayment}
          \subseteq Nat \ {0}
    /\ OneByte \in Nat \ {0, 1}
    \* A transaction with one input and one output is relayed.
    /\ Base + PerInput + PerOutput <= MaxTxBytes

VARIABLES
    wants,      \* the amount each process is to pay; 0 for everything
    coins,      \* confirmed coins of the wallet's addresses
    pool,       \* the wallet's transactions in the node's mempool
    mined,      \* and in its chain
    taken,      \* every transaction the mempool has taken so far, a history
    pay,        \* the payment each process is making
    late,       \* requests the node has, whose caller no longer waits
    reports     \* what the user was told about each transaction

payVars == <<wants, coins, pool, mined, taken, pay, late, reports>>

-----------------------------------------------------------------------------
(* Sizes, fees and coin selection.                                         *)

\* _varint_size.  Bound: counts of at most 16 bits, as in any transaction that is relayed.
VarintSize(n) == IF n < OneByte THEN 1 ELSE 3

\* BASE_BYTES has the two counts at one byte each.
EstimateSize(ins, outs) ==
    (Base + ins * PerInput + outs * PerOutput) + (VarintSize(ins) - 1) + (VarintSize(outs) - 1)

Larger(a, b) == IF a > b THEN a ELSE b
Smaller(a, b) == IF a < b THEN a ELSE b

\* fee_for_size: rounded up, and never zero.
FeeForSize(size) == IF FeePerKb > 0 THEN Larger(1, (size * FeePerKb + 999) \div 1000) ELSE 0

DustThreshold == FeeForSize(PerInput) * 3

Worth(cs) == SumFunctionOnSet([c \in cs |-> c.value], cs)

\* The order of select_coins: by value, the largest first, equal ones as listed.
Before(c, d) == c.value > d.value \/ (c.value = d.value /\ c.id < d.id)
LargestOf(cs, k) == {c \in cs : Cardinality({d \in cs : Before(d, c)}) < k}

\* required: one payment and one change output.
Required(amount, count) == amount + FeeForSize(EstimateSize(count, 2))

\* InsufficientFundsError: no coins are chosen.
NoCover == {}

\* Mutant of select_coins: a single coin that covers the payment is not preferred.
SelectCoinsSmallest(cs, amount) ==
    LET first(k) == {c \in cs : Cardinality({d \in cs : Before(c, d)}) < k}
        enough   == {k \in 1..Cardinality(cs) : Worth(first(k)) >= Required(amount, k)}
    IN  IF enough = {} THEN NoCover ELSE first(Min(enough))

SelectCoins(cs, amount) ==
    LET exact  == {c \in cs : c.value >= Required(amount, 1)}
        enough == {k \in 1..Cardinality(cs) : Worth(LargestOf(cs, k)) >= Required(amount, k)}
    IN  IF exact # {} THEN {CHOOSE c \in exact : \A d \in exact : d.value > c.value
                                \/ (d.value = c.value /\ d.id >= c.id)}
        ELSE IF enough = {} THEN NoCover
        ELSE LargestOf(cs, Min(enough))

\* build_transaction: change that is not worth an output goes to the miner.
BuildTransaction(cs, amount) ==
    LET fee  == FeeForSize(EstimateSize(Cardinality(cs), 2))
        left == Worth(cs) - amount - fee
    IN  IF left > DustThreshold THEN [ins |-> cs, amount |-> amount, fee |-> fee, change |-> left]
        ELSE [ins |-> cs, amount |-> amount, fee |-> fee + left, change |-> 0]

\* _max_inputs_for_budget, found by bisection in the code.
MaxInputsForBudget == Max({0} \cup {n \in 1..MaxTxBytes \div PerInput + 1 : EstimateSize(n, 1) <= MaxTxBytes})

PerTransaction == Smaller(Larger(1, MaxInputsForBudget), Larger(1, MaxSweep))

\* build_sweep_transaction: everything to one output.
SweepOne(cs) ==
    LET fee == FeeForSize(EstimateSize(Cardinality(cs), 1))
    IN  [ins |-> cs, amount |-> Worth(cs) - fee, fee |-> fee, change |-> 0]

\* Where a coin is listed, and the chunks the coins are swept in.
Place(cs, c) == Cardinality({d \in cs : d.id < c.id})
Chunk(cs, i) == {c \in cs : Place(cs, c) \div PerTransaction = i - 1}

\* build_sweep_transactions: chunks in the order the coins are listed.
Sweep(cs) ==
    [i \in 1..(Cardinality(cs) + PerTransaction - 1) \div PerTransaction |-> SweepOne(Chunk(cs, i))]

\* send and send_everything: the transactions, or none when they raise.
Built(cs, amount) ==
    IF amount = 0
    THEN IF \E i \in DOMAIN Sweep(cs) : Sweep(cs)[i].amount <= 0 THEN <<>> ELSE Sweep(cs)
    ELSE IF SelectCoins(cs, amount) = NoCover THEN <<>>
         ELSE <<BuildTransaction(SelectCoins(cs, amount), amount)>>

-----------------------------------------------------------------------------
(* The node.                                                               *)

Accepted == pool \cup mined

\* The coins the node calls spendable: no transaction of the mempool spends them.
Spendable(cs) == {c \in cs : \A t \in pool : c \notin t.ins}

\* submit_transaction: not twice, no coin that is gone, no coin another one spends.
Accepts(tx) == tx \notin Accepted /\ tx.ins \subseteq Spendable(coins)

Processed(tx) == IF Accepts(tx) THEN pool \cup {tx} ELSE pool

\* Every coin there is, or was and has been spent.
Known == coins \cup UNION {t.ins : t \in mined}

\* Blocks take a transaction: its coins are gone and its change is a new coin.
Mine(tx, home) ==
    /\ tx \in pool /\ pool' = pool \ {tx} /\ mined' = mined \cup {tx}
    /\ coins' = (coins \ tx.ins) \cup
                  IF tx.change = 0 THEN {}
                  ELSE {[id |-> 1 + Max({0} \cup {c.id : c \in Known}), value |-> tx.change, addr |-> home]}
    /\ UNCHANGED <<wants, taken, pay, late, reports>>

\* The node forgets a transaction: evicted from a full pool, or lost in a restart.
Forget(tx) ==
    /\ tx \in pool /\ pool' = pool \ {tx}
    /\ UNCHANGED <<wants, coins, mined, taken, pay, late, reports>>

\* The node carries a request out.  Taking a transaction leaves a trace in the history.
Carry(tx) == pool' = Processed(tx) /\ taken' = taken \cup pool'

\* A request whose caller gave up is still carried out.
Late(tx) ==
    /\ tx \in late /\ late' = late \ {tx} /\ Carry(tx)
    /\ UNCHANGED <<wants, coins, mined, pay, reports>>

-----------------------------------------------------------------------------
(* The client.  pay.at: "ready", "confirm", "call" (the request is on its  *)
(* way), "answered" (the node has carried it out), "look" (broadcast looks *)
(* for the transaction).                                                   *)

Tx(p) == Head(pay[p].txs)

\* The wallet asks for its coins and builds.  What it saw may be old by the time it is sent.
Build(p, addrs) ==
    /\ pay[p].at = "ready" /\ pay[p].made < MaxPayment
    /\ LET seen == Spendable({c \in coins : c.addr \in addrs})
           txs  == Built(seen, wants[p])
       IN  pay' = [pay EXCEPT ![p] = [pay[p] EXCEPT !.made = @ + 1, !.seen = seen, !.txs = txs, !.all = txs,
                                                    !.at = IF txs = <<>> THEN "ready" ELSE "confirm"]]
    /\ UNCHANGED <<wants, coins, pool, mined, taken, late, reports>>

\* The request for the next transaction leaves.
Request(q) == [q EXCEPT !.at = "call", !.attempt = 1, !.look = 0]

Confirm(p) ==
    /\ pay[p].at = "confirm" /\ pay' = [pay EXCEPT ![p] = Request(@)]
    /\ UNCHANGED <<wants, coins, pool, mined, taken, late, reports>>

Cancel(p) ==
    /\ pay[p].at = "confirm" /\ pay' = [pay EXCEPT ![p].at = "ready"]
    /\ UNCHANGED <<wants, coins, pool, mined, taken, late, reports>>

\* One transaction is through: the next one, if there is one, is sent.
Reported(p, ok) ==
    /\ reports' = reports \cup {[tx |-> Tx(p), ok |-> ok, looked |-> pay[p].at = "look",
                                 patient |-> p \in Patient]}
    /\ pay' = [pay EXCEPT ![p] =
                 IF ok /\ Len(pay[p].txs) > 1 THEN Request([pay[p] EXCEPT !.txs = Tail(@)])
                 ELSE [pay[p] EXCEPT !.at = "ready", !.txs = <<>>]]

NodeAnswers(p) ==
    /\ pay[p].at = "call" /\ Carry(Tx(p))
    /\ pay' = [pay EXCEPT ![p] = [pay[p] EXCEPT !.at = "answered", !.ok = Accepts(Tx(p))]]
    /\ UNCHANGED <<wants, coins, mined, late, reports>>

\* An answer arrives.  An error the node returned is raised, whatever went before.
AnswerArrives(p) ==
    /\ pay[p].at = "answered" /\ Reported(p, pay[p].ok)
    /\ UNCHANGED <<wants, coins, pool, mined, taken, late>>

\* HTTP 4xx: no such endpoint, no token, too long.  It depends on the request alone.
Refused(p) ==
    /\ pay[p].at = "call" /\ pay[p].attempt = 1 /\ Reported(p, FALSE)
    /\ UNCHANGED <<wants, coins, pool, mined, taken, late>>

\* call() raises without an answer: broadcast() looks for the transaction, the window does not.
GivesUp(p) ==
    IF p \in Patient THEN pay' = [pay EXCEPT ![p].at = "look"] /\ UNCHANGED reports
                     ELSE Reported(p, FALSE)

\* What becomes of a request its caller no longer waits for.
Abandoned(p) ==
    \/ UNCHANGED late
    \/ pay[p].at = "call" /\ late' = late \cup {Tx(p)}

\* The connection is dropped, before or after the node has read the request: call() tries again.
Dropped(p) ==
    /\ pay[p].at \in {"call", "answered"} /\ Abandoned(p)
    /\ IF pay[p].attempt < MaxAttempts
       THEN /\ pay' = [pay EXCEPT ![p] = [pay[p] EXCEPT !.at = "call", !.attempt = @ + 1]]
            /\ UNCHANGED reports
       ELSE GivesUp(p)
    /\ UNCHANGED <<wants, coins, pool, mined, taken>>

\* No answer in time, an unreachable node, or a proxy's 502.
TimesOut(p) ==
    /\ pay[p].at \in {"call", "answered"} /\ Abandoned(p) /\ GivesUp(p)
    /\ UNCHANGED <<wants, coins, pool, mined, taken>>

\* Mutant of broadcast: the last look is taken for a success.
LookHopes(p) ==
    /\ pay[p].at = "look"
    /\ IF pay[p].look + 1 < Looks
       THEN pay' = [pay EXCEPT ![p].look = @ + 1] /\ UNCHANGED reports
       ELSE Reported(p, TRUE)
    /\ UNCHANGED <<wants, coins, pool, mined, taken, late>>

\* gettransaction finds the transaction; or it does not, or cannot be asked.
Look(p) ==
    /\ pay[p].at = "look"
    /\ \/ Tx(p) \in Accepted /\ Reported(p, TRUE)
       \/ pay[p].look + 1 < Looks /\ pay' = [pay EXCEPT ![p].look = @ + 1] /\ UNCHANGED reports
       \/ pay[p].look + 1 = Looks /\ Reported(p, FALSE)
    /\ UNCHANGED <<wants, coins, pool, mined, taken, late>>

\* The process dies: nobody is told, and a request that was sent may be carried out.
Dies(p) ==
    /\ Abandoned(p)
    /\ pay' = [pay EXCEPT ![p].at = "ready"]
    /\ UNCHANGED <<wants, coins, pool, mined, taken, reports>>

\* Every request of the client ends in one of these.
Outcome(p) == AnswerArrives(p) \/ Refused(p) \/ Dropped(p) \/ TimesOut(p) \/ Look(p)

PaymentNext ==
    \/ \E tx \in late : Late(tx)
    \/ \E tx \in pool : Forget(tx)
    \/ \E p \in Payer : Confirm(p) \/ Cancel(p) \/ NodeAnswers(p) \/ Outcome(p)
=============================================================================
