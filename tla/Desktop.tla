------------------------------- MODULE Desktop -------------------------------
(***************************************************************************)
(* The desktop applications on one machine: the windows and commands of    *)
(* Launcher, one of which mines with the loop of Miner                     *)
(* (gui/miner_app.py, gui/wallet_app.py).                                  *)
(***************************************************************************)
EXTENDS Launcher, Miner

CONSTANTS
    MinerWindow,    \* the window that mines
    Settings        \* what is looked at together: programs, processes, mining

VARIABLES
    setting,        \* one of the settings
    bridge          \* the connection the mining thread was given

vars == <<setting, bridge, launcherVars, minerVars>>

ASSUME DesktopAssumption ==
    /\ MinerWindow \in Window
    /\ Settings \subseteq [tools : SUBSET Tool, procs : Nat, hand : BOOLEAN, other : BOOLEAN,
                           mines : BOOLEAN, public : SUBSET BOOLEAN]

Init ==
    /\ setting \in Settings /\ bridge = None
    /\ LauncherInit /\ MinerInit

\* getblocktemplate: a public node hands no work out without its token.
GivesWork(c) ==
    c.url = "here" /\ port # None /\ proc[port].at = "serving" /\ Authorised(port, c.token, FALSE)

Mining == miner.at # "idle"

-----------------------------------------------------------------------------
(* The miner window.                                                       *)

\* _start: asks the node first; _bridge is set.
StartMining ==
    /\ setting.mines /\ At(MinerWindow, "open") /\ ~Mining
    /\ Answers(tool[MinerWindow].conn) /\ GivesWork(tool[MinerWindow].conn)
    /\ bridge' = tool[MinerWindow].conn /\ StartMiner
    /\ UNCHANGED <<setting, launcherVars>>

\* _stop
StopMining ==
    /\ At(MinerWindow, "open") /\ StopMiner /\ UNCHANGED <<setting, bridge, launcherVars>>

\* MinerBridge.run: the mining thread.
MiningThread ==
    /\ \/ Fetch(GivesWork(bridge)) \/ Round \/ Finds \/ Expires \/ Submit(GivesWork(bridge))
    /\ UNCHANGED <<setting, bridge, launcherVars>>

\* _on_stopped: the window takes note.
OnStopped ==
    /\ miner.at = "ended" /\ miner' = Idle /\ bridge' = None
    /\ UNCHANGED <<setting, tip, launcherVars>>

\* start_local_node, choose_public_node, change_node: not while the window mines.
MayChange(t) == t = MinerWindow => ~Mining

-----------------------------------------------------------------------------
\* What a window or a command does, but for its mining.
UserStep(t) ==
    \/ Begin(t) \/ ChooseLocal(t) \/ UseLocal(t) \/ UsePublic(t) \/ EnterAddress(t) \/ Quit(t)
    \/ Launch(t) \/ CommandEnds(t)
    \/ MayChange(t) /\ StartLocalNode(t)
    \/ setting.other /\ (Prune(t) \/ (MayChange(t) /\ (ChoosePublic(t) \/ ChooseManual(t))))

\* closeEvent: mining is told to stop, and waited for during three seconds only.
CloseWindow(t) ==
    /\ Close(t)
    /\ miner' = IF t = MinerWindow /\ Mining THEN [miner EXCEPT !.stop = TRUE] ELSE miner
    /\ UNCHANGED <<tip, bridge>>

\* WalletWindow._swap: another wallet is opened in a new window that has the
\* client but not the node; closing the old one stops the node.
Swap(t) ==
    /\ t # MinerWindow /\ At(t, "open") /\ tool[t].node # None
    /\ Goes(t, "stopping")
    /\ UNCHANGED <<proc, port, token, saved, remote>>

\* The program of the mining window ends, and the mining thread with it.
EndsMining(t) ==
    IF t = MinerWindow /\ tool'[t].at = "off" /\ tool[t].window
    THEN miner' = Idle /\ bridge' = None /\ UNCHANGED tip
    ELSE UNCHANGED <<minerVars, bridge>>

\* Processes and programs beyond the setting are not used.
Within ==
    /\ Cardinality({p \in Proc : proc'[p].at # "unused"}) <= setting.procs
    /\ \A t \in Tool \ setting.tools : tool'[t].at = "off"
    /\ \A p \in Proc : proc'[p].at # "unused" => proc'[p].public \in setting.public

ToolStep(t) ==
    /\ Works(t) /\ EndsMining(t) /\ UNCHANGED setting /\ Within

Next ==
    \/ \E t \in Tool : ToolStep(t)
    \/ \E t \in Tool : UserStep(t) /\ UNCHANGED <<minerVars, bridge, setting>> /\ Within
    \/ \E t \in Tool : ((setting.other /\ Swap(t) /\ UNCHANGED <<minerVars, bridge>>) \/ CloseWindow(t)) /\ UNCHANGED setting
    \/ \E t \in Tool : setting.hand /\ Killed(t) /\ EndsMining(t) /\ UNCHANGED setting
    \/ \E p \in Proc : NodeStep(p) /\ UNCHANGED <<minerVars, bridge, setting>>
    \/ setting.hand /\ (RunByHand \/ RpcStop) /\ UNCHANGED <<minerVars, bridge, setting>> /\ Within
    \/ setting.mines /\ RemoteChanges /\ UNCHANGED <<minerVars, bridge, setting>>
    \/ StartMining \/ StopMining \/ MiningThread \/ OnStopped
    \/ setting.mines /\ TipMoves /\ UNCHANGED <<setting, bridge, launcherVars>>

\* Programs and the mining thread run; users, the network and a node that
\* hangs do as they like.
Fairness ==
    /\ \A t \in Tool : WF_vars(ToolStep(t))
    /\ WF_vars(MiningThread) /\ WF_vars(Expires /\ UNCHANGED <<setting, bridge, launcherVars>>)
    /\ WF_vars(OnStopped)

Spec == Init /\ [][Next]_vars /\ Fairness

-----------------------------------------------------------------------------
(* Properties.                                                             *)

\* Again and again the mining thread works on the node's tip, though blocks
\* arrive and workers crash, unless its node gives no work or it was stopped
\* (Miner.run, _mine_template).
MiningFollowsTip == []<>(~Active \/ miner.stop \/ ~GivesWork(bridge) \/ miner.template = tip)
=============================================================================
