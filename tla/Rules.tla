-------------------------------- MODULE Rules --------------------------------
(***************************************************************************)
(* The parts of the chain that need no other component: the rules that a   *)
(* block is judged by, which are targets (Retarget), inputs (Script),      *)
(* merged-mining proofs (AuxProof) and value (Money), and the cache that   *)
(* stored blocks are read through (BlockCache).  A behaviour is about one  *)
(* of them.                                                                *)
(***************************************************************************)
EXTENDS Retarget, Script, AuxProof, Money, BlockCache

VARIABLE subject        \* which of the five

vars == <<subject, retargetVars, scriptVars, proofVars, moneyVars, cacheVars>>

NoTarget == net = <<>> /\ blocks = <<>>
NoRun == coin = <<>> /\ witness = <<>> /\ run = <<>>
NoMoney == utxo = <<>> /\ history = {} /\ connected = <<>> /\ overlay = <<>>

Init ==
    /\ subject \in {"target", "script", "proof", "money", "cache"} /\ ProofInit /\ CacheInit
    /\ IF subject = "target" THEN RetargetInit ELSE NoTarget
    /\ IF subject = "script" THEN ScriptInit ELSE NoRun
    /\ IF subject = "money" THEN MoneyInit ELSE NoMoney

Next ==
    \/ /\ subject = "target" /\ \E step \in Steps : Extend(step)
       /\ UNCHANGED <<subject, scriptVars, proofVars, moneyVars, cacheVars>>
    \/ subject = "script" /\ ScriptNext /\ UNCHANGED <<subject, retargetVars, proofVars, moneyVars, cacheVars>>
    \/ subject = "proof" /\ ProofNext /\ UNCHANGED <<subject, retargetVars, scriptVars, moneyVars, cacheVars>>
    \/ subject = "money" /\ MoneyNext /\ UNCHANGED <<subject, retargetVars, scriptVars, proofVars, cacheVars>>
    \/ subject = "cache" /\ CacheNext /\ UNCHANGED <<subject, retargetVars, scriptVars, proofVars, moneyVars>>

Spec == Init /\ [][Next]_vars
=============================================================================
