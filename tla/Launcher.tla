------------------------------ MODULE Launcher ------------------------------
(***************************************************************************)
(* The node of this machine and the programs that look for it, start it    *)
(* and stop it: net/launcher.py, net/chooser.py, net/cli.py,               *)
(* cli_common.py and the start-up of the desktop applications              *)
(* (gui/common.py).                                                        *)
(*                                                                         *)
(* The programs share nothing but the machine: one RPC port, the file      *)
(* rpc.token, and the file node.json with the node chosen last.  A process *)
(* stands for its RPC token too: every node is started with a fresh one.   *)
(***************************************************************************)
EXTENDS Integers, FiniteSets

CONSTANTS
    Proc,       \* node processes, each started once
    Window,     \* desktop applications: they stop the node they started
    Terminal,   \* command lines: they leave it running
    None

ASSUME LauncherAssumption ==
    Window \cap Terminal = {} /\ None \notin Proc \cup Window \cup Terminal

Tool == Window \cup Terminal

VARIABLES
    proc,       \* the processes: what they are at, whom they serve, who stops them
    port,       \* the process that listens on the RPC port
    token,      \* rpc.token
    saved,      \* node.json
    remote,     \* a public node answers
    tool        \* the programs

launcherVars == <<proc, port, token, saved, remote, tool>>

Here(p) == [url |-> "here", token |-> p]
Elsewhere == [url |-> "public", token |-> None]
LauncherInit ==
    /\ proc = [p \in Proc |-> [at |-> "unused", public |-> FALSE, by |-> None]]
    /\ port = None /\ token = None /\ saved = None /\ remote = TRUE
    /\ tool = [t \in Tool |-> [at |-> "off", window |-> FALSE, conn |-> Elsewhere, node |-> None]]

-----------------------------------------------------------------------------
(* What a request meets.                                                   *)

\* LocalNode.running
Running(p) == p # None /\ proc[p].at \notin {"unused", "dead"}

\* _authorised and allows_anonymous: the token, or a public node and a call
\* that only reads.
Authorised(p, tk, reads) == tk = p \/ (reads /\ proc[p].public)

\* getinfo at a connection: answers, is_ready, already_running.
Answers(c) ==
    \/ c.url = "public" /\ remote
    \/ c.url = "here" /\ port # None /\ proc[port].at = "serving" /\ Authorised(port, c.token, TRUE)

\* settings_from_args, load_connection: the token file knows better than the
\* remembered token which node runs here.
SavedConnection ==
    IF saved = None THEN Here(token)
    ELSE IF saved.url = "here" /\ token # None THEN Here(token) ELSE saved

\* _port_busy
PortBusy == port # None

-----------------------------------------------------------------------------
(* A node process: main and _run in net/cli.py.                            *)

Step(p, from, to) == proc[p].at = from /\ proc' = [proc EXCEPT ![p].at = to]

\* RpcServer binds its port in its constructor; the chain is open by then.
Bind(p) ==
    /\ proc[p].at = "starting"
    /\ proc' = [proc EXCEPT ![p].at = IF port = None THEN "bound" ELSE "dead"]
    /\ port' = IF port = None THEN p ELSE port
    /\ UNCHANGED <<token, saved, remote, tool>>

WriteOwnToken(p) ==
    /\ Step(p, "bound", "written") /\ token' = p
    /\ UNCHANGED <<port, saved, remote, tool>>

Serve(p) ==
    /\ Step(p, "written", "serving")
    /\ UNCHANGED <<port, token, saved, remote, tool>>

\* The listener for peers cannot be started, or the node crashes.
Fails(p) ==
    /\ proc[p].at \in {"bound", "written", "serving"}
    /\ proc' = [proc EXCEPT ![p].at = "dead"]
    /\ port' = IF port = p THEN None ELSE port
    /\ UNCHANGED <<token, saved, remote, tool>>

\* The node was asked to stop: rpc.stop closes the port, then main returns.
ClosesPort(p) ==
    /\ proc[p].at = "stopping" /\ port = p /\ port' = None
    /\ UNCHANGED <<proc, token, saved, remote, tool>>

Exits(p) ==
    /\ port # p /\ Step(p, "stopping", "dead")
    /\ UNCHANGED <<port, token, saved, remote, tool>>

-----------------------------------------------------------------------------
(* Choosing a node.                                                        *)

At(t, where) == tool[t].at = where
Goes(t, to) == tool' = [tool EXCEPT ![t].at = to]

\* Back to the window that asked, or to the question; a command ends.
Back(t) == IF tool[t].window THEN "open" ELSE IF t \in Terminal THEN "off" ELSE "asking"

\* The program starts and reads both files.
Begin(t) ==
    /\ At(t, "off")
    /\ tool' = [tool EXCEPT ![t] = [tool[t] EXCEPT !.at = "probing", !.conn = SavedConnection]]
    /\ UNCHANGED <<proc, port, token, saved, remote>>

\* The program uses a connection, and remembers it if it is told to.
Uses(t, c, remembered) ==
    /\ tool' = [tool EXCEPT ![t] = [tool[t] EXCEPT !.at = "open", !.window = t \in Window, !.conn = c]]
    /\ saved' = IF remembered THEN c ELSE saved

\* resolve_startup, _why_not: a window opens with the node chosen last, if it answers.
ResolveStartup(t) ==
    /\ At(t, "probing") /\ t \in Window
    /\ IF Answers(tool[t].conn) THEN Uses(t, tool[t].conn, FALSE) ELSE Goes(t, "asking") /\ UNCHANGED saved
    /\ UNCHANGED <<proc, port, token, remote>>

\* resolve_connection: a command then tries the node of this machine.
ResolveConnection(t) ==
    /\ At(t, "probing") /\ t \in Terminal
    /\ IF Answers(tool[t].conn) THEN Uses(t, tool[t].conn, FALSE)
       ELSE IF Answers(Here(token)) THEN Uses(t, Here(token), TRUE)
       ELSE Goes(t, "asking") /\ UNCHANGED saved
    /\ UNCHANGED <<proc, port, token, remote>>

\* A node that answers here is used; otherwise its options are asked for.
Local(t) ==
    /\ At(t, "asking")
    /\ IF Answers(Here(token)) THEN Uses(t, Here(token), TRUE) ELSE Goes(t, "options") /\ UNCHANGED saved
    /\ UNCHANGED <<proc, port, token, remote>>

\* choose_startup_node and _use_local, when a node here is wanted.
ChooseLocal(t) == t \in Window /\ Local(t)
UseLocal(t) == t \in Terminal /\ Local(t)

\* PublicNodeDialog: a node that answered when it was probed.
ChoosePublic(t) ==
    /\ t \in Window
    /\ At(t, "asking") \/ (At(t, "open") /\ tool[t].conn # Elsewhere)
    /\ remote /\ Uses(t, Elsewhere, TRUE)
    /\ UNCHANGED <<proc, port, token, remote>>

\* _use_public
UsePublic(t) ==
    /\ t \in Terminal /\ At(t, "asking") /\ remote /\ Uses(t, Elsewhere, TRUE)
    /\ UNCHANGED <<proc, port, token, remote>>

\* NodeDialog: an address and a token that answer; the token was copied from
\* the file or typed from a node's log.
ChooseManual(t) ==
    /\ t \in Window /\ tool[t].at \in {"asking", "open"}
    /\ \E p \in Proc : Answers(Here(p)) /\ Here(p) # tool[t].conn /\ Uses(t, Here(p), TRUE)
    /\ UNCHANGED <<proc, port, token, remote>>

\* _ask_which_node: a command takes an address and a token without trying them.
EnterAddress(t) ==
    /\ t \in Terminal /\ At(t, "asking")
    /\ \E p \in {q \in Proc : proc[q].at # "unused"} \cup {None} : Uses(t, Here(p), TRUE)
    /\ UNCHANGED <<proc, port, token, remote>>

\* The user gives up.
Quit(t) ==
    /\ \/ At(t, "asking") /\ Goes(t, "off")
       \/ At(t, "options") /\ Goes(t, Back(t))
    /\ UNCHANGED <<proc, port, token, saved, remote>>

\* start_local_node of a window: unless the node it started is running.
StartLocalNode(t) ==
    /\ At(t, "open") /\ tool[t].window /\ ~Running(tool[t].node)
    /\ Goes(t, "options")
    /\ UNCHANGED <<proc, port, token, saved, remote>>

\* _prune_now and _prune: only if no node answers, asked without its token.
Prune(t) ==
    /\ t \in Window /\ At(t, "options") /\ ~Answers(Here(None)) /\ Goes(t, "pruning")
    /\ UNCHANGED <<proc, port, token, saved, remote>>

PruneEnds(t) ==
    /\ At(t, "pruning") /\ Goes(t, "options")
    /\ UNCHANGED <<proc, port, token, saved, remote>>

-----------------------------------------------------------------------------
(* Starting a node: LocalNode.launch, wait_until_ready.                    *)

Launch(t) ==
    /\ At(t, "options") /\ Goes(t, IF PortBusy THEN Back(t) ELSE "spawning")
    /\ UNCHANGED <<proc, port, token, saved, remote>>

\* The next process of the machine.
Fresh ==
    LET unused == {p \in Proc : proc[p].at = "unused"}
    IN IF unused = {} THEN {} ELSE {CHOOSE p \in unused : TRUE}

\* Popen.  The new process is the node the tool is about to own.
Spawn(t) ==
    \E p \in Fresh, public \in BOOLEAN :
        /\ At(t, "spawning")
        /\ proc' = [proc EXCEPT ![p] = [at |-> "starting", public |-> public, by |-> t]]
        /\ tool' = [tool EXCEPT ![t] = [tool[t] EXCEPT !.at = "spawned", !.node = p]]
        /\ UNCHANGED <<port, token, saved, remote>>

\* Popen fails, for instance for want of processes.
SpawnFails(t) ==
    /\ At(t, "spawning") /\ Goes(t, Back(t))
    /\ UNCHANGED <<proc, port, token, saved, remote>>

\* The program ends; a node it started goes on, and nobody will stop it.
Ends(t) ==
    /\ tool' = [tool EXCEPT ![t] = [at |-> "off", window |-> FALSE, conn |-> Elsewhere, node |-> None]]
    /\ proc' = [p \in Proc |-> IF proc[p].by = t THEN [proc[p] EXCEPT !.by = None] ELSE proc[p]]
    /\ UNCHANGED <<port, token, saved, remote>>

\* write_rpc_token raises an OSError, which is caught neither there nor in
\* start_node_with_progress: the program ends with it.
WriteTokenFails(t) == At(t, "spawned") /\ Ends(t)

WriteToken(t) ==
    /\ At(t, "spawned") /\ Goes(t, "waiting") /\ token' = tool[t].node
    /\ UNCHANGED <<proc, port, saved, remote>>

\* The node answers: with the token of this node, or because another, public
\* node has the port.  The choice made at start-up is remembered.
Ready(t) ==
    /\ At(t, "waiting") /\ Answers(Here(tool[t].node))
    /\ Uses(t, Here(tool[t].node), ~tool[t].window)
    /\ UNCHANGED <<proc, port, token, remote>>

\* Mutant: a launch that is cancelled leaves the node alone.
GiveUpLeaves(t) ==
    /\ At(t, "waiting")
    /\ tool' = [tool EXCEPT ![t] = [tool[t] EXCEPT !.at = Back(t), !.node = None]]
    /\ UNCHANGED <<proc, port, token, saved, remote>>

\* The process ended, the time is up, or the user cancelled.
GiveUp(t) ==
    /\ At(t, "waiting") /\ Goes(t, "stopping")
    /\ UNCHANGED <<proc, port, token, saved, remote>>

-----------------------------------------------------------------------------
(* Stopping a node.                                                        *)

\* Asked by RPC or by a signal; the signal kills a process that has not
\* installed its handlers.
Asked(p) ==
    IF proc[p].at \in {"starting", "bound"} THEN [proc EXCEPT ![p].at = "dead"]
    ELSE [proc EXCEPT ![p].at = "stopping"]

\* LocalNode.stop: ask the node to shut down ...
StopNode(t) ==
    /\ At(t, "stopping") \/ At(t, "closing")
    /\ Running(tool[t].node) /\ proc[tool[t].node].at # "stopping"
    /\ proc' = Asked(tool[t].node)
    /\ port' = IF port # None /\ proc'[port].at = "dead" THEN None ELSE port
    /\ UNCHANGED <<token, saved, remote, tool>>

\* Mutant: a node that does not end by itself is waited for.
KillNever(t) == FALSE /\ UNCHANGED launcherVars

\* ... then make sure it did.
Kill(t) ==
    /\ At(t, "stopping") \/ At(t, "closing")
    /\ tool[t].node # None /\ Step(tool[t].node, "stopping", "dead")
    /\ port' = IF port = tool[t].node THEN None ELSE port
    /\ UNCHANGED <<token, saved, remote, tool>>

\* The node has ended: a launch was given up, a window is closed.
Stopped(t) ==
    /\ At(t, "stopping") \/ At(t, "closing")
    /\ ~Running(tool[t].node)
    /\ tool' = [tool EXCEPT ![t] =
                   [tool[t] EXCEPT !.at = IF At(t, "closing") THEN "off" ELSE Back(t), !.node = None,
                                   !.window = @ /\ ~At(t, "closing"),
                                   !.conn = IF At(t, "closing") THEN Elsewhere ELSE @]]
    /\ UNCHANGED <<proc, port, token, saved, remote>>

\* closeEvent
Close(t) ==
    /\ At(t, "open") /\ t \in Window /\ Goes(t, "closing")
    /\ UNCHANGED <<proc, port, token, saved, remote>>

\* A command ends; the node it started goes on without it.
CommandEnds(t) ==
    /\ At(t, "open") /\ t \in Terminal /\ Ends(t)

\* A program is killed: nobody is left to stop its node.
Killed(t) == tool[t].at # "off" /\ Ends(t)

\* Somebody runs scarlet-node by hand, or "scarlet-node rpc stop".
RunByHand ==
    \E p \in Fresh, public \in BOOLEAN :
        /\ proc' = [proc EXCEPT ![p] = [at |-> "starting", public |-> public, by |-> None]]
        /\ UNCHANGED <<port, token, saved, remote, tool>>

RpcStop ==
    /\ port # None /\ proc[port].at = "serving" /\ Authorised(port, token, FALSE)
    /\ proc' = Asked(port)
    /\ UNCHANGED <<port, token, saved, remote, tool>>

RemoteChanges ==
    /\ remote' = ~remote
    /\ UNCHANGED <<proc, port, token, saved, tool>>

-----------------------------------------------------------------------------
\* What a program does by itself.
Works(t) ==
    \/ ResolveStartup(t) \/ ResolveConnection(t) \/ PruneEnds(t) \/ Spawn(t) \/ SpawnFails(t) \/ WriteToken(t)
    \/ WriteTokenFails(t) \/ Ready(t)
    \/ GiveUp(t) \/ StopNode(t) \/ Kill(t) \/ Stopped(t)

NodeStep(p) ==
    Bind(p) \/ WriteOwnToken(p) \/ Serve(p) \/ Fails(p) \/ ClosesPort(p) \/ Exits(p)

-----------------------------------------------------------------------------
(* Properties.                                                             *)

\* A window that was closed, or gave a launch up, leaves no node behind that
\* it started: the node is the window's, or it has ended (closeEvent,
\* start_node_with_progress, LocalNode.stop).  A window that is killed, or ends
\* because it cannot write the token file, does leave its node behind; that node
\* is nobody's.
OwnedNodeEnds ==
    \A p \in Proc, t \in Window :
        (Running(p) /\ proc[p].by = t) => tool[t].at # "off" /\ tool[t].node = p

\* No program waits for ever for a node it started, even for one that hangs
\* (wait_until_ready, LocalNode.stop).
LaunchSettles ==
    \A t \in Tool : []<>(tool[t].at \notin {"probing", "spawning", "spawned", "waiting", "stopping", "closing"})
=============================================================================
