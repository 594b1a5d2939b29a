---------------------------- MODULE DesktopProofs ----------------------------
(***************************************************************************)
(* Proofs about the programs that start nodes, for any number of windows,  *)
(* commands and processes.                                                 *)
(*                                                                         *)
(* A window that is not yet, or no longer, in charge of a node (it is off, *)
(* looks for a node, asks, shows the options or is about to start one) has *)
(* none running: each way into these states goes through the end of the    *)
(* node, or through a test that the node of the window has ended.          *)
(***************************************************************************)
EXTENDS Desktop, TLAPS

ProcState == {"unused", "starting", "bound", "written", "serving", "stopping", "dead"}

\* States of a program in which it has no node of its own.
Without == {"off", "probing", "asking", "options", "pruning", "spawning"}

Shapes ==
    /\ proc \in [Proc -> [at : ProcState, public : BOOLEAN, by : Tool \cup {None}]]
    /\ tool = [t \in Tool |-> tool[t]]
    /\ \A t \in Tool : DOMAIN tool[t] = {"at", "window", "conn", "node"} /\ tool[t].node \in Proc \cup {None}
    /\ port \in Proc \cup {None}

Alive(p) == proc[p].at \notin {"unused", "dead"}

\* The running node of a window is the one it holds, and no other.
Owned ==
    \A t \in Window, p \in Proc :
        Alive(p) /\ proc[p].by = t => tool[t].at \notin Without /\ tool[t].node = p

OwnInv == Shapes /\ Owned

-----------------------------------------------------------------------------

LEMMA InitOwn == Init => OwnInv
  BY DEF Init, LauncherInit, OwnInv, Shapes, Owned, Alive, ProcState

\* A window that holds no running node has none at all.
LEMMA Nodeless ==
    ASSUME OwnInv, NEW t \in Window, ~Running(tool[t].node) \/ tool[t].at \in Without
    PROVE  \A p \in Proc : Alive(p) => proc[p].by # t
  BY LauncherAssumption DEF OwnInv, Owned, Running, Alive

\* A node that moves on or ends, and stays whose it was.
LEMMA NodeMoves ==
    ASSUME OwnInv, NEW p \in Proc, Alive(p), NEW to \in ProcState, to # "unused",
           proc' = [proc EXCEPT ![p].at = to], port' \in Proc \cup {None}, UNCHANGED tool
    PROVE  OwnInv'
  <1>1. /\ Shapes'
        /\ \A q \in Proc : proc'[q].by = proc[q].by
        /\ \A q \in Proc : Alive(q)' => Alive(q)
    BY DEF OwnInv, Shapes, Alive
  <1> QED
    BY <1>1 DEF OwnInv, Owned

\* A program that moves on without touching its node, from one state to another.
LEMMA ToolMoves ==
    ASSUME OwnInv, NEW t \in Tool, UNCHANGED <<proc, port>>,
           tool' = [tool EXCEPT ![t] = tool'[t]],
           DOMAIN tool'[t] = {"at", "window", "conn", "node"}, tool'[t].node \in Proc \cup {None},
           \/ tool'[t].at \notin Without /\ tool'[t].node = tool[t].node
           \/ tool[t].at \in Without
           \/ ~Running(tool[t].node)
           \/ t \notin Window
    PROVE  OwnInv'
  <1>1. Shapes'
    BY DEF OwnInv, Shapes
  <1>2. \A u \in Tool \ {t} : tool'[u] = tool[u]
    BY DEF OwnInv, Shapes
  <1>3. Owned'
    <2> SUFFICES ASSUME NEW u \in Window, NEW p \in Proc, Alive(p), proc[p].by = u
                 PROVE  tool'[u].at \notin Without /\ tool'[u].node = p
      BY DEF Owned, Alive
    <2>1. tool[u].at \notin Without /\ tool[u].node = p
      BY DEF OwnInv, Owned
    <2>2. CASE u # t
      BY <1>2, <2>1, <2>2 DEF Tool
    <2>3. CASE u = t
      BY <2>1, <2>3, Nodeless
    <2> QED
      BY <2>2, <2>3
  <1> QED
    BY <1>1, <1>3 DEF OwnInv

LEMMA GoesMoves ==
    ASSUME OwnInv, NEW t \in Tool, NEW to, Goes(t, to), UNCHANGED <<proc, port>>,
           to \notin Without \/ tool[t].at \in Without \/ ~Running(tool[t].node)
    PROVE  OwnInv'
  <1>1. /\ tool' = [tool EXCEPT ![t] = tool'[t]]
        /\ DOMAIN tool'[t] = {"at", "window", "conn", "node"}
        /\ tool'[t].at = to /\ tool'[t].node = tool[t].node
    BY DEF OwnInv, Shapes, Goes
  <1>2. tool[t].node \in Proc \cup {None}
    BY DEF OwnInv, Shapes
  <1> QED
    BY <1>1, <1>2, ToolMoves

LEMMA UsesMoves ==
    ASSUME OwnInv, NEW t \in Tool, NEW c, NEW remembered, Uses(t, c, remembered), UNCHANGED <<proc, port>>
    PROVE  OwnInv'
  <1>1. /\ tool' = [tool EXCEPT ![t] = tool'[t]]
        /\ DOMAIN tool'[t] = {"at", "window", "conn", "node"}
        /\ tool'[t].at = "open" /\ tool'[t].node = tool[t].node
    BY DEF OwnInv, Shapes, Uses
  <1>2. tool[t].node \in Proc \cup {None} /\ "open" \notin Without
    BY DEF OwnInv, Shapes, Without
  <1> QED
    BY <1>1, <1>2, ToolMoves

\* The life of a node process.
LEMMA NodeStepOwn ==
    ASSUME OwnInv, NEW p \in Proc, NodeStep(p)
    PROVE  OwnInv'
  <1>1. port \in Proc \cup {None}
    BY DEF OwnInv, Shapes
  <1>2. CASE Bind(p)
    <2>1. PICK to \in {"bound", "dead"} : proc' = [proc EXCEPT ![p].at = to]
      BY <1>2 DEF Bind
    <2> QED
      BY <1>1, <1>2, <2>1, NodeMoves DEF Bind, Alive, ProcState
  <1>3. CASE WriteOwnToken(p)
    BY <1>1, <1>3, NodeMoves DEF WriteOwnToken, Step, Alive, ProcState
  <1>4. CASE Serve(p)
    BY <1>1, <1>4, NodeMoves DEF Serve, Step, Alive, ProcState
  <1>5. CASE Fails(p)
    BY <1>1, <1>5, NodeMoves DEF Fails, Alive, ProcState
  <1>6. CASE ClosesPort(p)
    BY <1>6 DEF ClosesPort, OwnInv, Shapes, Owned, Alive
  <1>7. CASE Exits(p)
    BY <1>1, <1>7, NodeMoves DEF Exits, Step, Alive, ProcState
  <1> QED
    BY <1>2, <1>3, <1>4, <1>5, <1>6, <1>7 DEF NodeStep

\* A node that is asked to stop, by its window or by anyone with its token.
LEMMA AskedOwn ==
    ASSUME OwnInv, NEW p \in Proc, Alive(p), proc' = Asked(p), port' \in Proc \cup {None}, UNCHANGED tool
    PROVE  OwnInv'
  <1>1. PICK to \in {"dead", "stopping"} : proc' = [proc EXCEPT ![p].at = to]
    BY DEF Asked
  <1> QED
    BY <1>1, NodeMoves DEF ProcState

\* A new process, which belongs to a window without a node, or to nobody.
LEMMA SpawnOwn ==
    ASSUME OwnInv, NEW p \in Proc, NEW public \in BOOLEAN, proc[p].at = "unused",
           NEW o \in Tool \cup {None},
           proc' = [proc EXCEPT ![p] = [at |-> "starting", public |-> public, by |-> o]],
           tool' = [t \in Tool |-> tool'[t]], UNCHANGED port,
           \A t \in Tool \ {o} : tool'[t] = tool[t],
           o # None => /\ tool[o].at = "spawning" /\ tool'[o].at = "spawned" /\ tool'[o].node = p
                       /\ DOMAIN tool'[o] = {"at", "window", "conn", "node"}
    PROVE  OwnInv'
  <1>0. None \notin Tool
    BY LauncherAssumption DEF Tool
  <1>1. Shapes'
    BY <1>0 DEF OwnInv, Shapes, ProcState
  <1>2. Owned'
    <2> SUFFICES ASSUME NEW t \in Window, NEW q \in Proc, Alive(q)', proc'[q].by = t
                 PROVE  tool'[t].at \notin Without /\ tool'[t].node = q
      BY DEF Owned
    <2>1. CASE q = p
      <3>1. t = o
        BY <2>1 DEF OwnInv, Shapes
      <3>2. o # None
        BY <3>1, <1>0 DEF Tool
      <3> QED
        BY <2>1, <3>1, <3>2 DEF Without
    <2>2. CASE q # p
      <3>1. Alive(q) /\ proc[q].by = t
        BY <2>2 DEF OwnInv, Shapes, Alive
      <3>2. tool[t].at \notin Without /\ tool[t].node = q
        BY <3>1 DEF OwnInv, Owned
      <3>3. t # o
        BY <1>0, <3>2 DEF Without, Tool
      <3> QED
        BY <3>2, <3>3 DEF Tool
    <2> QED
      BY <2>1, <2>2
  <1> QED
    BY <1>1, <1>2 DEF OwnInv

\* A program that ends on its own, or is killed: what it started is nobody's.
LEMMA LeavesOwn ==
    ASSUME OwnInv, NEW t \in Tool, Ends(t)
    PROVE  OwnInv'
  <1>0. None \notin Tool
    BY LauncherAssumption DEF Tool
  <1> DEFINE none == [at |-> "off", window |-> FALSE, conn |-> Elsewhere, node |-> None]
  <1>1. /\ tool' = [tool EXCEPT ![t] = none] /\ UNCHANGED port
        /\ proc' = [p \in Proc |-> IF proc[p].by = t THEN [proc[p] EXCEPT !.by = None] ELSE proc[p]]
    BY DEF Ends
  <1>2. \A p \in Proc : /\ proc'[p] \in [at : ProcState, public : BOOLEAN, by : Tool \cup {None}]
                         /\ proc'[p].at = proc[p].at
                         /\ proc'[p].by = IF proc[p].by = t THEN None ELSE proc[p].by
    BY <1>1 DEF OwnInv, Shapes
  <1>3. Shapes'
    BY <1>1, <1>2 DEF OwnInv, Shapes
  <1>4. Owned'
    BY <1>0, <1>1, <1>2 DEF OwnInv, Owned, Shapes, Alive, Tool
  <1> QED
    BY <1>3, <1>4 DEF OwnInv

\* What a program does by itself (Works).
LEMMA WorksOwn ==
    ASSUME OwnInv, NEW t \in Tool, Works(t)
    PROVE  OwnInv'
  <1>0. port \in Proc \cup {None} /\ tool[t].node \in Proc \cup {None} /\ None \notin Tool
    BY LauncherAssumption DEF OwnInv, Shapes, Tool
  <1>1. CASE ResolveStartup(t) \/ ResolveConnection(t)
    BY <1>1, GoesMoves, UsesMoves DEF ResolveStartup, ResolveConnection, At, Without
  <1>2. CASE PruneEnds(t) \/ SpawnFails(t)
    BY <1>2, GoesMoves DEF PruneEnds, SpawnFails, At, Without
  <1>3. CASE Spawn(t)
    <2>1. PICK p \in Fresh, public \in BOOLEAN :
             /\ At(t, "spawning") /\ UNCHANGED port
             /\ proc' = [proc EXCEPT ![p] = [at |-> "starting", public |-> public, by |-> t]]
             /\ tool' = [tool EXCEPT ![t] = [tool[t] EXCEPT !.at = "spawned", !.node = p]]
      BY <1>3 DEF Spawn
    <2>2. p \in Proc /\ proc[p].at = "unused"
      BY <2>1 DEF Fresh
    <2>3. /\ tool' = [u \in Tool |-> tool'[u]] /\ \A u \in Tool \ {t} : tool'[u] = tool[u]
          /\ tool'[t].at = "spawned" /\ tool'[t].node = p
          /\ DOMAIN tool'[t] = {"at", "window", "conn", "node"}
      BY <2>1 DEF OwnInv, Shapes
    <2> QED
      BY <2>1, <2>2, <2>3, SpawnOwn DEF At
  <1>4. CASE WriteToken(t) \/ GiveUp(t)
    BY <1>4, GoesMoves DEF WriteToken, GiveUp, Without
  <1>9. CASE WriteTokenFails(t)
    BY <1>9, LeavesOwn DEF WriteTokenFails
  <1>5. CASE Ready(t)
    BY <1>5, UsesMoves DEF Ready
  <1>6. CASE StopNode(t)
    <2>1. tool[t].node \in Proc /\ Alive(tool[t].node)
      BY <1>0, <1>6 DEF StopNode, Running, Alive
    <2> QED
      BY <1>0, <1>6, <2>1, AskedOwn DEF StopNode
  <1>7. CASE Kill(t)
    BY <1>0, <1>7, NodeMoves DEF Kill, Step, Alive, ProcState
  <1>8. CASE Stopped(t)
    <2>1. /\ tool' = [tool EXCEPT ![t] = tool'[t]] /\ UNCHANGED <<proc, port>>
          /\ DOMAIN tool'[t] = {"at", "window", "conn", "node"} /\ tool'[t].node = None
      BY <1>8 DEF Stopped, OwnInv, Shapes
    <2> QED
      BY <1>8, <2>1, ToolMoves DEF Stopped
  <1> QED
    BY <1>1, <1>2, <1>3, <1>4, <1>5, <1>6, <1>7, <1>8, <1>9 DEF Works

\* What its user does (UserStep), and what a window does when it is closed.
LEMMA UserStepOwn ==
    ASSUME OwnInv, NEW t \in Tool, UserStep(t) \/ Swap(t) \/ Close(t)
    PROVE  OwnInv'
  <1>1. CASE Begin(t)
    <2>1. /\ tool' = [tool EXCEPT ![t] = tool'[t]] /\ UNCHANGED <<proc, port>>
          /\ DOMAIN tool'[t] = {"at", "window", "conn", "node"} /\ tool'[t].node = tool[t].node
      BY <1>1 DEF Begin, OwnInv, Shapes
    <2>2. tool[t].node \in Proc \cup {None} /\ tool[t].at \in Without
      BY <1>1 DEF Begin, At, OwnInv, Shapes, Without
    <2> QED
      BY <2>1, <2>2, ToolMoves
  <1>2. CASE ChooseLocal(t) \/ UseLocal(t)
    BY <1>2, GoesMoves, UsesMoves DEF ChooseLocal, UseLocal, Local, At, Without
  <1>3. CASE UsePublic(t) \/ EnterAddress(t) \/ ChoosePublic(t) \/ ChooseManual(t)
    BY <1>3, UsesMoves DEF UsePublic, EnterAddress, ChoosePublic, ChooseManual
  <1>4. CASE Quit(t) \/ Launch(t) \/ Prune(t)
    BY <1>4, GoesMoves DEF Quit, Launch, Prune, At, Without
  <1>5. CASE StartLocalNode(t)
    BY <1>5, GoesMoves DEF StartLocalNode
  <1>6. CASE Swap(t) \/ Close(t)
    BY <1>6, GoesMoves DEF Swap, Close, Without
  <1> QED
    BY <1>1, <1>2, <1>3, <1>4, <1>5, <1>6, LeavesOwn DEF UserStep, CommandEnds

LEMMA OwnStep == OwnInv /\ [Next]_vars => OwnInv'
  <1> SUFFICES ASSUME OwnInv, [Next]_vars PROVE OwnInv'
    OBVIOUS
  <1>1. CASE UNCHANGED <<proc, port, tool>>
    BY <1>1 DEF OwnInv, Shapes, Owned, Alive
  <1>2. CASE RunByHand
    <2>1. PICK p \in Fresh, public \in BOOLEAN :
             /\ proc' = [proc EXCEPT ![p] = [at |-> "starting", public |-> public, by |-> None]]
             /\ UNCHANGED <<port, tool>>
      BY <1>2 DEF RunByHand
    <2>2. p \in Proc /\ proc[p].at = "unused"
      BY <2>1 DEF Fresh
    <2>3. tool' = [u \in Tool |-> tool'[u]]
      BY <2>1 DEF OwnInv, Shapes
    <2> QED
      BY <2>1, <2>2, <2>3, SpawnOwn
  <1>3. CASE RpcStop
    <2>1. port \in Proc /\ Alive(port)
      BY <1>3 DEF RpcStop, OwnInv, Shapes, Alive
    <2> QED
      BY <1>3, <2>1, AskedOwn DEF RpcStop
  <1>4. CASE RemoteChanges
    BY <1>1, <1>4 DEF RemoteChanges
  <1>5. CASE StartMining \/ StopMining \/ MiningThread \/ OnStopped \/ UNCHANGED launcherVars
    BY <1>1, <1>5 DEF StartMining, StopMining, MiningThread, OnStopped, launcherVars
  <1>6. ASSUME NEW t \in Tool, ToolStep(t) PROVE OwnInv'
    BY <1>6, WorksOwn DEF ToolStep
  <1>7. ASSUME NEW t \in Tool, UserStep(t) \/ Swap(t) \/ CloseWindow(t) PROVE OwnInv'
    BY <1>7, UserStepOwn DEF CloseWindow
  <1>8. ASSUME NEW t \in Tool, Killed(t) PROVE OwnInv'
    BY <1>8, LeavesOwn DEF Killed
  <1> QED
    BY <1>2, <1>3, <1>4, <1>5, <1>6, <1>7, <1>8, NodeStepOwn DEF Next, vars

\* A window leaves no node behind that it started, whatever its user, the other
\* programs, the nodes and their signals do and in whichever order, for any
\* number of them (closeEvent, start_node_with_progress, LocalNode.stop).
THEOREM NodesEnd == Spec => []OwnedNodeEnds
  <1>1. OwnInv => OwnedNodeEnds
    BY DEF OwnInv, Owned, OwnedNodeEnds, Running, Alive, Without
  <1> QED
    BY <1>1, InitOwn, OwnStep, PTL DEF Spec

=============================================================================
