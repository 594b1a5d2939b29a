------------------------------- MODULE MCSync -------------------------------
EXTENDS Sync

CONSTANTS p1, p2

Case(h1, h2, k1, g, n) ==
    [served |-> [p \in Peer |-> IF p = p1 THEN h1 ELSE h2],
     kept |-> [p \in Peer |-> IF p = p1 THEN k1 ELSE 0], grown |-> g, faults |-> n]

\* Both peers have the whole chain, which is longer than one message of
\* headers; a request stalls or a connection ends; one of the peers has pruned
\* a block; a peer announces the last block while the sync is under way.
Settings == {Case(3, 3, 0, 3, 0), Case(2, 2, 0, 2, 1), Case(2, 2, 2, 2, 0), Case(1, 2, 0, 2, 0)}

=============================================================================
