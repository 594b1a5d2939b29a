------------------------------ MODULE MCIntake ------------------------------
(***************************************************************************)
(* A small tree for TLC: g -- n1 -- n2 and n1 -- x2, where n1 and n2 are   *)
(* ahead of a clock that shows 0, x2 breaks a rule, and altered copies of  *)
(* n1 arrive as well.                                                      *)
(***************************************************************************)
EXTENDS Intake

Row == [
    n1 |-> [parent |-> "g", time |-> 1],
    n2 |-> [parent |-> "n1", time |-> 1],
    x2 |-> [parent |-> "n1", time |-> 0] ]

MCParent == [b \in Block \ {Genesis} |-> Row[b].parent]
MCTimestamp == [b \in Block |-> IF b = Genesis THEN 0 ELSE Row[b].time]
MCBad == Block \cap {"x2"}
MCAltered == [b \in Block |-> IF b = "n1" THEN {"list", "witness"} ELSE {}]

=============================================================================
