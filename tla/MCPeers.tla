------------------------------- MODULE MCPeers ------------------------------
EXTENDS Peers

CONSTANTS a, b, c, d, s

\* a and b know each other; a is its own seed.  So do c and d.
MCSeeds == [n \in Node |-> CASE n = a -> {a, b} [] n = b -> {a}
                             [] n = c -> {d} [] n = d -> {c} [] OTHER -> {}]

\* Two nodes that dial each other and, one of them, itself; two nodes one of
\* which may be slow; a node and a stranger.
MCCasts == {{a, b}, {c, d}, {b, s}}
=============================================================================
