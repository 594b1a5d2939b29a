------------------------------ MODULE MCDesktop ------------------------------
\* Instances of Desktop for TLC.
EXTENDS Desktop

CONSTANTS wallet, rig, shell, p1, p2

MCProc == {p1, p2}
MCWindow == {wallet, rig}
MCTerminal == {shell}

\* Two windows that start a node each; a window, a command and a node run by
\* hand; a window that mines.
MCSettings ==
    {[tools |-> {wallet, rig}, procs |-> 2, hand |-> FALSE, other |-> FALSE, mines |-> FALSE, public |-> {FALSE}],
     [tools |-> {wallet, shell}, procs |-> 1, hand |-> FALSE, other |-> FALSE, mines |-> FALSE, public |-> {FALSE}],
     [tools |-> {wallet}, procs |-> 2, hand |-> TRUE, other |-> TRUE, mines |-> FALSE, public |-> BOOLEAN],
     [tools |-> {rig}, procs |-> 1, hand |-> TRUE, other |-> TRUE, mines |-> TRUE, public |-> {FALSE}]}
=============================================================================
