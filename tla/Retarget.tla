------------------------------ MODULE Retarget ------------------------------
(***************************************************************************)
(* Compact targets and the difficulty of the next block (core/pow.py and   *)
(* core/chain.py).  The code computes the next target twice: along stored  *)
(* blocks (next_bits_after) and along headers (_next_bits_for_node).       *)
(*                                                                         *)
(* A compact target has an exponent and three digits to the base 256, the  *)
(* topmost bit of which is a sign; a target has 32 digits.  Here the base  *)
(* and the number of digits are parameters.                                *)
(***************************************************************************)
EXTENDS Integers, Sequences, FiniteSets, FiniteSetsExt

CONSTANTS
    Base,           \* 256
    Width,          \* 32, the digits of a target
    Networks,       \* parameters of the networks looked at (ChainParams)
    Steps,          \* seconds from a block to the next
    MaxHeight       \* bound on the chain

\* The time ratio is never used for the first block of a chain, and intervals
\* are longer than a block: so it is on every network of params.py.
ASSUME RetargetAssumption ==
    /\ Base \in Nat \ {0} /\ Base % 2 = 0 /\ Width \in Nat \ {0} /\ Steps \subseteq Int
    /\ \A n \in Networks :
        /\ {n.interval, n.fork, n.measure} \subseteq Nat /\ n.perBlock \in BOOLEAN
        /\ {n.spacing, n.factor} \subseteq Nat \ {0}
        /\ n.interval >= 2 /\ (n.spacing * n.interval) % n.factor = 0
        /\ n.perBlock => n.spacing % n.factor = 0
        /\ ~n.perBlock \/ n.fork > 1 \/ n.measure <= n.fork

VARIABLES
    net,            \* the network
    blocks          \* the chain, genesis first: bits, timestamp and total work

retargetVars == <<net, blocks>>

-----------------------------------------------------------------------------
(* Compact targets (pow.py).                                               *)

Invalid == -1

\* What the digit with k digits to its right is worth.
Weight[k \in 0..Width + 3] == IF k = 0 THEN 1 ELSE Base * Weight[k - 1]

TargetLimit == Weight[Width]            \* MAX_TARGET_LIMIT + 1

\* bits_to_target
BitsToTarget(bits) ==
    LET target == IF bits.exponent <= 3 THEN bits.mantissa \div Weight[3 - bits.exponent]
                  ELSE bits.mantissa * Weight[bits.exponent - 3]
    IN IF 2 * bits.mantissa >= Weight[3] THEN Invalid
       ELSE IF bits.mantissa = 0 THEN 0
       ELSE IF bits.exponent > Width \/ target >= TargetLimit THEN Invalid
       ELSE target

\* The easiest target of a network is one.
ASSUME TargetAssumption ==
    \A n \in Networks : {n.powLimitBits.exponent, n.powLimitBits.mantissa} \subseteq Nat
                         /\ BitsToTarget(n.powLimitBits) > 0

\* The leading three of n digits.
Leading(target, n) == IF n >= 3 THEN target \div Weight[n - 3] ELSE target * Weight[3 - n]

\* The digits of a target.
Length(target) == CHOOSE n \in 1..Width : Weight[n - 1] <= target /\ target < Weight[n]

\* Mutant: the sign is forgotten.
TargetToBitsSigned(target) ==
    IF target = 0 THEN [exponent |-> 0, mantissa |-> 0]
    ELSE [exponent |-> Length(target), mantissa |-> Leading(target, Length(target))]

\* target_to_bits
TargetToBits(target) ==
    LET n == Length(target)
        exponent == IF 2 * target >= Weight[n] THEN n + 1 ELSE n
    IN IF target = 0 THEN [exponent |-> 0, mantissa |-> 0]
       ELSE [exponent |-> exponent, mantissa |-> Leading(target, exponent)]

\* block_work
BlockWork(bits) == IF BitsToTarget(bits) <= 0 THEN 0 ELSE TargetLimit \div (BitsToTarget(bits) + 1)

PowLimit == BitsToTarget(net.powLimitBits)

\* check_proof_of_work, but for the hash.
SolvableBits(bits) == BitsToTarget(bits) > 0 /\ BitsToTarget(bits) <= PowLimit

\* next_bits
NextBits(bits, actual, timespan) ==
    LET clamped == Min({Max({actual, timespan \div net.factor}), timespan * net.factor})
    IN TargetToBits(Min({(BitsToTarget(bits) * clamped) \div timespan, PowLimit}))

\* bits_from_work
BitsFromWork(work, elapsed, parentBits) ==
    LET target == Min({(TargetLimit * elapsed) \div (work * net.spacing), PowLimit})
        hardest == BitsToTarget(parentBits) \div net.factor
    IN IF work <= 0 \/ elapsed <= 0 THEN parentBits ELSE TargetToBits(Max({target, hardest}))

-----------------------------------------------------------------------------
(* The next target.  Block h of the chain is blocks[h + 1].                *)

Tip == Len(blocks) - 1
BlockAt(h) == blocks[h + 1]
Genesis == [bits |-> net.powLimitBits, time |-> 0, work |-> BlockWork(net.powLimitBits)]

\* Where a walk ends that found no block.
Nowhere == -1

\* ancestor_at, from the tip.
AncestorAt(h) == IF h < 0 \/ h > Tip THEN Nowhere ELSE h

\* Mutant: the walk over headers ends one block early.
NodeAtHeightEarly(h) == IF Tip - 1 < 0 \/ h < 0 THEN Nowhere ELSE Min({h + 1, Tip - 1})

\* _node_at_height, from the parent of the tip.
NodeAtHeight(h) == IF Tip - 1 < 0 \/ h < 0 THEN Nowhere ELSE Min({h, Tip - 1})

\* Rules until the first fork, and between the forks, for both walks.
Periodic(first) ==
    IF first = Nowhere THEN BlockAt(Tip).bits
    ELSE NextBits(BlockAt(Tip).bits, BlockAt(Tip).time - BlockAt(first).time, net.spacing * net.interval)

TimeRatio(first, lookback, time) ==
    IF first = Nowhere THEN BlockAt(Tip).bits
    ELSE NextBits(BlockAt(Tip).bits, time - BlockAt(first).time, net.spacing * lookback)

\* The window of the last rule starts after the last block before the tip that
\* is too old: _window_work, and the same loop over headers.
WindowStart ==
    Max({0} \cup {h \in 1..Tip : BlockAt(h - 1).time < BlockAt(Tip).time - net.spacing * net.interval})

WorkBefore(h) == IF h = 0 THEN 0 ELSE BlockAt(h - 1).work

FromWork(time) ==
    BitsFromWork(BlockAt(Tip).work - WorkBefore(WindowStart), time - BlockAt(WindowStart).time, BlockAt(Tip).bits)

Lookback == Min({Tip + 1, net.interval})

\* Which rule applies to the block after the tip; a chain that stalled starts
\* again at the limit.
Required(intervalStart, lookbackStart, time) ==
    LET height == Tip + 1
    IN IF ~net.perBlock \/ height < net.fork
       THEN IF height % net.interval # 0 THEN BlockAt(Tip).bits ELSE Periodic(intervalStart)
       ELSE IF time - BlockAt(Tip).time > net.maxFuture THEN net.powLimitBits
       ELSE IF height < net.measure THEN TimeRatio(lookbackStart, Lookback, time)
       ELSE FromWork(time)

\* next_bits_after and _next_bits_for_node
NextBitsAfter(time) ==
    Required(AncestorAt(Tip + 1 - net.interval), AncestorAt(Tip + 1 - Lookback), time)
NextBitsForNode(time) ==
    Required(NodeAtHeight(Tip + 1 - net.interval), NodeAtHeight(Tip + 1 - Lookback), time)

\* median_time_past: the lower of two medians.
MedianTimePast ==
    LET recent == Max({0, Tip - net.medianBlocks + 1})..Tip
        n == Tip - Min(recent) + 1
        notAbove(h) == {g \in recent : BlockAt(g).time < BlockAt(h).time \/ (BlockAt(g).time = BlockAt(h).time /\ g <= h)}
    IN BlockAt(CHOOSE h \in recent : Cardinality(notAbove(h)) = (n + 1) \div 2).time

\* _check_context: a block that is mined, later than the median.
Extend(step) ==
    LET time == BlockAt(Tip).time + step
        bits == NextBitsAfter(time)
    IN /\ Tip < MaxHeight /\ time > MedianTimePast /\ SolvableBits(bits)
       /\ blocks' = Append(blocks, [bits |-> bits, time |-> time, work |-> BlockAt(Tip).work + BlockWork(bits)])
       /\ UNCHANGED net

RetargetInit == net \in Networks /\ blocks = <<Genesis>>

\* The headers and blocks of one chain, apart from the other rules.
RetargetSpec == RetargetInit /\ [][\E step \in Steps : Extend(step)]_retargetVars

-----------------------------------------------------------------------------
(* Properties.                                                             *)

\* A header is judged like the block it announces: both walks require the same
\* target of whatever comes next (add_header, _check_context).
HeaderAndBlockAgree ==
    blocks # <<>> => \A step \in Steps :
        LET time == BlockAt(Tip).time + step IN NextBitsForNode(time) = NextBitsAfter(time)

\* The targets that have a compact form.
Representable ==
    {BitsToTarget([exponent |-> e, mantissa |-> m]) : e \in 0..Width, m \in 0..(Weight[3] \div 2 - 1)}

\* Whatever the timestamps say, the next target has a compact form, is never
\* easier than the limit and never harder than the parent's by more than the
\* factor, rounded down to a compact form (next_bits, bits_from_work,
\* target_to_bits).
TargetStaysInBounds ==
    blocks # <<>> => \A step \in Steps :
        LET target == BitsToTarget(NextBitsAfter(BlockAt(Tip).time + step))
            hardest == BitsToTarget(BlockAt(Tip).bits) \div net.factor
        IN /\ target \in Representable /\ target <= PowLimit
           /\ target >= Max({r \in Representable : r <= hardest})
=============================================================================
