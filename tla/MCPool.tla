------------------------------- MODULE MCPool -------------------------------
EXTENDS Pool

CONSTANTS s1, s2

\* The second block is harder than the first; time makes both easier.
MCTarget == [t \in 0..MaxTip |-> [i \in 0..MaxStamp |-> IF t = 0 THEN 4 + i ELSE 1 + i]]

Miners(x, y) == [s \in Session |-> IF s = s1 THEN x ELSE y]

\* Two miners with an address each; two with the same one, as time passes; one
\* that changes its address while the node and the pool fail.
MCSettings ==
    {[of |-> Miners({"a"}, {"b"}), stamps |-> 0, faults |-> FALSE],
     [of |-> Miners({"a"}, {"a"}), stamps |-> 1, faults |-> FALSE],
     [of |-> Miners({"a", "b"}, {}), stamps |-> 1, faults |-> TRUE]}
=============================================================================
