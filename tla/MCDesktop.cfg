SPECIFICATION Spec
CONSTANTS
    wallet = wallet
    rig = rig
    shell = shell
    p1 = p1
    p2 = p2
    None = None
    Proc <- MCProc
    Window <- MCWindow
    Terminal <- MCTerminal
    MinerWindow = rig
    Settings <- MCSettings
    MaxTip = 2
    Rounds = 2
INVARIANTS
    OwnedNodeEnds
PROPERTIES
    LaunchSettles
    MiningFollowsTip
CHECK_DEADLOCK FALSE
