------------------------------ MODULE MCWallet ------------------------------
EXTENDS Wallet

CONSTANTS cli, gui, s1, s2, k1, k2, pw

Wants(a, b) == [p \in Proc |-> IF p = cli THEN a ELSE b]
Coins(values) == {[id |-> i, value |-> values[i], addr |-> <<s1, 0>>] : i \in DOMAIN values}
Pay(ws, values) == [file |-> Fresh(s1, None), edits |-> FALSE, coins |-> Coins(values), wants |-> ws]
Edit(file) == [file |-> file, edits |-> TRUE, coins |-> {}, wants |-> {Wants(1, 1)}]

\* Changes of a new and of a legacy wallet by two processes; payments of one
\* coin or several, with change, with dust and with too little, that want the
\* same coins; a sweep in two transactions against a payment.
MCSettings ==
    {Edit(Missing), Edit(Legacy(k1)),
     Pay({Wants(7, 20), Wants(40, 12), Wants(90, 40)}, <<15, 30, 15>>),
     Pay({Wants(0, 5)}, <<15, 9, 30>>)}

=============================================================================
