------------------------------- MODULE MCRules -------------------------------
\* Instances of Rules for TLC.
EXTENDS Rules

CONSTANTS alice, bob, carol

MCKey == {alice, bob, carol}

\* Mainnet with its two forks, testnet, and regtest.
Limit == [exponent |-> 4, mantissa |-> 28]
Network(perBlock, fork, measure, interval) ==
    [perBlock |-> perBlock, fork |-> fork, measure |-> measure, interval |-> interval, spacing |-> 4,
     factor |-> 4, maxFuture |-> 9, medianBlocks |-> 3, powLimitBits |-> Limit]
MCNetworks == {Network(TRUE, 2, 4, 2), Network(TRUE, 0, 0, 2), Network(FALSE, 0, 0, 3)}

MCSteps == {-2, 1, 4, 7, 12}

\* Redeem scripts of the two kinds, and scripts that meet an empty stack.
MCScripts ==
    {P2pkhRedeem(alice), MultisigRedeem(<<alice, bob, carol>>, 2), MultisigRedeem(<<alice, bob>>, 1),
     MultisigRedeem(<<alice, bob, alice>>, 2), <<<<"equal">>>>, <<>>}

MCCoins == {P2pkh(alice), P2sh(P2pkhRedeem(alice)), P2sh(MultisigRedeem(<<alice, bob, carol>>, 2))}

MCArguments ==
    SeqOf({PublicKey(alice), Signature(alice), Signature(bob), Signature(carol), <<"other">>}, 3)

MCWitnesses == MCArguments \cup {<<Redeem(s)>> \o a : s \in MCScripts, a \in MCArguments}

\* Payments that use a coin up, make change, or split it.
MCPayments ==
    LET out(v, k) == [value |-> v, to |-> k]
    IN {<<out(5, bob)>>, <<out(2, alice), out(3, bob)>>, <<out(2, bob), out(2, alice)>>}

\* Blocks of three sizes.
MCSize == [b \in Stored |-> CASE b = "b1" -> 1 [] b = "b2" -> 2 [] OTHER -> 3]
=============================================================================
