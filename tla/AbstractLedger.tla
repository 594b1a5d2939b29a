--------------------------- MODULE AbstractLedger ---------------------------
(***************************************************************************)
(* What the block chain promises its users, without candidates, walks,     *)
(* undo records, transactions of the store or crashes: there is one chain  *)
(* of valid blocks and the coins it leaves unspent, and both change only   *)
(* together, all at once, to a valid chain with more work.                 *)
(***************************************************************************)
EXTENDS Integers

CONSTANTS
    Block,          \* the blocks the network may ever offer
    Genesis,
    Parent,
    BlockWork,
    CoinbaseHeight, \* the height a block says it is at
    Malformed,      \* blocks nobody may keep
    Unconnectable,  \* blocks that may be kept and never be part of the chain
    Creates,        \* outputs of a block
    Spends,         \* inputs from earlier blocks
    Transient       \* outputs the block spends itself

VARIABLES
    known,          \* blocks learnt
    worth,          \* the work of the branch that ends in a block
    chain,          \* the blocks of the chain
    tip,            \* the last of them
    coins           \* its unspent outputs

lvars == <<known, worth, chain, tip, coins>>

\* Nothing but Genesis, which spends nothing.
LInit ==
    /\ known = {Genesis} /\ chain = {Genesis} /\ tip = Genesis /\ coins = Creates[Genesis]
    /\ worth = [b \in Block |-> IF b = Genesis THEN BlockWork[b] ELSE 0]

\* S is a chain that ends in t, one block per height.
IsChain(S, t) ==
    /\ Genesis \in S /\ t \in S
    /\ \A b \in S \ {Genesis} : Parent[b] \in S /\ CoinbaseHeight[b] = CoinbaseHeight[Parent[b]] + 1
    /\ \A b, c \in S : CoinbaseHeight[b] = CoinbaseHeight[c] => b = c
    /\ \A b \in S : CoinbaseHeight[b] <= CoinbaseHeight[t]

\* Its blocks keep the rules, and spend what earlier ones created, once.
IsValid(S) ==
    /\ S \cap Unconnectable = {}
    /\ \A b, c \in S : b # c => (Spends[b] \cup Transient[b]) \cap (Spends[c] \cup Transient[c]) = {}
    /\ \A b \in S : Spends[b] \subseteq UNION {Creates[c] : c \in {d \in S : CoinbaseHeight[d] < CoinbaseHeight[b]}}

UnspentBy(S) == (UNION {Creates[b] : b \in S}) \ (UNION {Spends[b] \cup Transient[b] : b \in S})

\* A block is learnt after its parent.
Learn ==
    /\ \E b \in Block \ (known \cup Malformed) :
        /\ Parent[b] \in known /\ CoinbaseHeight[b] = CoinbaseHeight[Parent[b]] + 1
        /\ known' = known \cup {b}
        /\ worth' = [worth EXCEPT ![b] = worth[Parent[b]] + BlockWork[b]]
    /\ UNCHANGED <<chain, tip, coins>>

\* The chain becomes another one, with more work.
Adopt ==
    /\ chain' \in SUBSET known /\ tip' \in chain'
    /\ IsChain(chain', tip') /\ IsValid(chain') /\ worth[tip'] > worth[tip]
    /\ coins' = UnspentBy(chain')
    /\ UNCHANGED <<known, worth>>

LSpec == LInit /\ [][Learn \/ Adopt]_lvars
=============================================================================
