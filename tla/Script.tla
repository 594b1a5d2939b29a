------------------------------- MODULE Script -------------------------------
(***************************************************************************)
(* Whether an input may spend a coin (core/validation.py,                  *)
(* core/transaction.py, core/script.py): a public key and a signature for  *)
(* a P2PKH coin, a redeem script run on a stack for a P2SH coin.           *)
(*                                                                         *)
(* Whatever is pushed is an item: a key, a signature, a hash, a number or  *)
(* something else.  A signature is one over the digest of this input.      *)
(***************************************************************************)
EXTENDS Integers, Sequences, SequencesExt

CONSTANTS
    Key,            \* key pairs
    Coins,          \* the coins looked at, and
    Witnesses,      \* what an input reveals
    MaxPubkeys,     \* MAX_PUBKEYS, 15
    MaxStack,       \* MAX_STACK_ITEMS, 20
    MaxOps          \* MAX_SCRIPT_OPS, 200

VARIABLES
    coin,           \* the coin to be spent
    witness,        \* the witness of the input
    run             \* the execution of the redeem script

scriptVars == <<coin, witness, run>>

PublicKey(k) == <<"key", k>>
Signature(k) == <<"signature", k>>
Hash(x) == <<"hash", x>>
Number(n) == <<"number", n>>
Zero == <<"zero">>
Redeem(ops) == <<"script", ops>>

P2pkh(k) == [type |-> "p2pkh", payload |-> Hash(PublicKey(k))]
P2sh(ops) == [type |-> "p2sh", payload |-> Hash(Redeem(ops))]

Push(x) == <<"push", x>>

\* The operations of a script that decode_ops understands.  Bytes that it does
\* not are no script here but something else.
Operations == {"push", "dup", "hash160", "equal", "equalverify", "checksig", "checkmultisig"}
Decoded(ops) == ops \in Seq(Range(ops)) /\ \A i \in DOMAIN ops : ops[i][1] \in Operations

\* A script may do what the largest redeem script of either kind needs; a
\* witness is a sequence.
ASSUME ScriptAssumption ==
    /\ MaxPubkeys \in 1..16 /\ MaxStack \in Nat /\ MaxOps \in Nat
    /\ MaxOps >= MaxPubkeys + 3 /\ MaxOps >= 5
    /\ \A w \in Witnesses :
        w \in Seq(Range(w)) /\ (w # <<>> /\ Head(w)[1] = "script" => Decoded(Head(w)[2]))
    /\ \A c \in Coins : c.type = "p2sh" \/ \E k \in Key : c = P2pkh(k)

\* p2pkh_redeem
P2pkhRedeem(k) ==
    <<<<"dup">>, <<"hash160">>, Push(Hash(PublicKey(k))), <<"equalverify">>, <<"checksig">>>>

\* multisig_redeem
MultisigRedeem(keys, threshold) ==
    <<Push(Number(threshold))>> \o [i \in DOMAIN keys |-> Push(PublicKey(keys[i]))]
        \o <<Push(Number(Len(keys))), <<"checkmultisig">>>>

-----------------------------------------------------------------------------
(* evaluate_script                                                         *)

\* _verify_signature
Verifies(pubkey, signature) == pubkey[1] = "key" /\ signature = Signature(pubkey[2])

\* _small_int; 0 is no number.
SmallInt(x) == IF x[1] = "number" /\ x[2] \in 1..16 THEN x[2] ELSE 0

\* The keys that are tried in turn: each signature, from key i on, takes the
\* first one it verifies with.  The next key, or one past all of them.
NextKey(pubkeys, signature, i) ==
    LET found == {j \in i..Len(pubkeys) : Verifies(pubkeys[j], signature)}
    IN IF found = {} THEN Len(pubkeys) + 2 ELSE 1 + CHOOSE j \in found : \A h \in found : j <= h

\* Mutant: a key may be used twice.
MatchTwice(pubkeys, signatures) ==
    \A s \in DOMAIN signatures : NextKey(pubkeys, signatures[s], 1) <= Len(pubkeys) + 1

\* The loop of OP_CHECKMULTISIG: signatures in the order of their keys.
Match(pubkeys, signatures) ==
    LET next[s \in 0..Len(signatures)] ==
            IF s = 0 THEN 1 ELSE NextKey(pubkeys, signatures[s], next[s - 1])
    IN next[Len(signatures)] <= Len(pubkeys) + 1

\* The top of a stack, n below it, and what is left.
Top(stack, n) == SubSeq(stack, Len(stack) - n + 1, Len(stack))
Below(stack, n) == SubSeq(stack, 1, Len(stack) - n)

Going(stack) == [verdict |-> "running", stack |-> stack]
Stopped(verdict) == [verdict |-> verdict, stack |-> <<>>]

\* OP_CHECKMULTISIG: keys and signatures come off the stack in order.
CheckMultisig(stack) ==
    LET count == IF stack = <<>> THEN 0 ELSE SmallInt(Last(stack))
        rest == IF stack = <<>> THEN <<>> ELSE Front(stack)
        threshold == IF Len(rest) > count THEN SmallInt(rest[Len(rest) - count]) ELSE 0
        below == Below(rest, count + 1)
    IN IF count \notin 1..MaxPubkeys \/ threshold \notin 1..count \/ Len(below) < threshold
       THEN Stopped("refused")
       ELSE IF Match(Top(rest, count), Top(below, threshold))
            THEN Going(Append(Below(below, threshold), Number(1)))
            ELSE Stopped("refused")

\* An empty stack refuses the script, but OP_DUP looks at its top without
\* asking: an IndexError, which nobody on the way catches.
Executed(op, stack) ==
    LET a == Last(stack) b == stack[Len(stack) - 1]
    IN CASE op[1] = "push" -> Going(Append(stack, op[2]))
         [] op[1] = "dup" -> IF stack = <<>> THEN Stopped("error") ELSE Going(Append(stack, a))
         [] op[1] = "hash160" -> IF stack = <<>> THEN Stopped("refused") ELSE Going(Append(Front(stack), Hash(a)))
         [] op[1] \in {"equal", "equalverify", "checksig"} /\ Len(stack) < 2 -> Stopped("refused")
         [] op[1] = "equal" /\ ~(Len(stack) < 2) -> Going(Append(Below(stack, 2), IF a = b THEN Number(1) ELSE Zero))
         [] op[1] = "equalverify" /\ ~(Len(stack) < 2) -> IF a = b THEN Going(Below(stack, 2)) ELSE Stopped("refused")
         [] op[1] = "checksig" /\ ~(Len(stack) < 2) ->
                IF Verifies(a, b) THEN Going(Append(Below(stack, 2), Number(1))) ELSE Stopped("refused")
         [] op[1] = "checkmultisig" -> CheckMultisig(stack)

\* One operation; the limits are looked at before and after.
Step ==
    LET op == run.script[run.pc + 1]
        done == Executed(op, run.stack)
    IN /\ run.verdict = "running" /\ run.pc < Len(run.script)
       /\ run' = IF run.pc + 1 > MaxOps \/ Len(done.stack) > MaxStack
                 THEN [run EXCEPT !.verdict = "refused"]
                 ELSE [run EXCEPT !.pc = @ + 1, !.stack = done.stack, !.verdict = done.verdict]
       /\ UNCHANGED <<coin, witness>>

\* The script is over: something must be left, and be true.
Finish ==
    /\ run.verdict = "running" /\ run.pc = Len(run.script)
    /\ run' = [run EXCEPT !.verdict = IF run.stack # <<>> /\ Last(run.stack) # Zero THEN "valid" ELSE "refused"]
    /\ UNCHANGED <<coin, witness>>

-----------------------------------------------------------------------------
(* check_transaction_inputs, for one input.                                *)

\* verify_input_signature
VerifyInputSignature ==
    /\ run.verdict = "new" /\ coin.type = "p2pkh"
    /\ LET valid == /\ Len(witness) = 2 /\ witness[1][1] = "key" /\ witness[2][1] = "signature"
                    /\ Hash(witness[1]) = coin.payload /\ Verifies(witness[1], witness[2])
       IN run' = [run EXCEPT !.verdict = IF valid THEN "valid" ELSE "refused"]
    /\ UNCHANGED <<coin, witness>>

\* _verify_p2sh: the script that was revealed is run.  It is not compared with
\* the hash in the coin.
VerifyP2sh ==
    /\ run.verdict = "new" /\ coin.type = "p2sh"
    /\ run' = IF witness = <<>> \/ Head(witness)[1] # "script" THEN [run EXCEPT !.verdict = "refused"]
              ELSE [verdict |-> "running", script |-> Head(witness)[2], pc |-> 0, stack |-> Tail(witness)]
    /\ UNCHANGED <<coin, witness>>

ScriptInit ==
    /\ coin \in Coins /\ witness \in Witnesses
    /\ run = [verdict |-> "new", script |-> <<>>, pc |-> 0, stack |-> <<>>]

ScriptNext == VerifyInputSignature \/ VerifyP2sh \/ Step \/ Finish

ScriptSpec == ScriptInit /\ [][ScriptNext]_scriptVars

-----------------------------------------------------------------------------
(* Properties.                                                             *)

\* The stack takes the arguments and what a script pushes on top of them.
HasRoom(arguments, pushed) == Len(arguments) + pushed <= MaxStack

\* What docs/PROTOCOL.md says of a P2SH coin: the script that is revealed hashes to
\* the coin's hash.  _verify_p2sh runs the script and does not compare.
RedeemScriptIsCommitted ==
    run # <<>> /\ run.verdict = "valid" /\ coin.type = "p2sh" => coin.payload = Hash(Head(witness))

\* What a redeem script asks for: the arguments end in a signature and its key,
\* or in signatures of as many of the keys as the threshold, in their order.
SatisfiesP2pkh(k, arguments) ==
    /\ HasRoom(arguments, 2)
    /\ Len(arguments) >= 2 /\ Top(arguments, 2) = <<Signature(k), PublicKey(k)>>

SatisfiesMultisig(keys, threshold, arguments) ==
    /\ HasRoom(arguments, Len(keys) + 2)
    /\ Len(arguments) >= threshold
    /\ \E chosen \in [1..threshold -> DOMAIN keys] :
        /\ \A i, j \in 1..threshold : i < j => chosen[i] < chosen[j]
        /\ Top(arguments, threshold) = [i \in 1..threshold |-> Signature(keys[chosen[i]])]

\* A P2PKH coin is spent exactly with its key and a signature of it, and the stack
\* machine accepts exactly what the script that is revealed asks for: no signature
\* counts twice, none out of order, and none is asked for in vain unless the stack
\* is too small for the keys (evaluate_script, verify_input_signature).  Whether
\* the script is the coin's is RedeemScriptIsCommitted.
ScriptIsExact ==
    LET arguments == Tail(witness)
    IN run # <<>> /\ run.verdict \in {"valid", "refused", "error"} =>
        /\ coin.type = "p2pkh" =>
            (run.verdict = "valid"
                <=> \E k \in Key : coin = P2pkh(k) /\ witness = <<PublicKey(k), Signature(k)>>)
        /\ \A k \in Key : run.script = P2pkhRedeem(k) => (run.verdict = "valid" <=> SatisfiesP2pkh(k, arguments))
        /\ \A keys \in SeqOf(Key, MaxPubkeys) : \A m \in 1..Len(keys) :
            run.script = MultisigRedeem(keys, m)
                => (run.verdict = "valid" <=> SatisfiesMultisig(keys, m, arguments))
=============================================================================
