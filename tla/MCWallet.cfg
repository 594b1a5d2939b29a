CONSTANTS
    cli = cli
    gui = gui
    s1 = s1
    s2 = s2
    k1 = k1
    k2 = k2
    pw = pw
    None = None
    Proc = {cli, gui}
    Window = {gui}
    Seed = {s1, s2}
    Key = {k1, k2}
    Password = {pw}
    MaxIndex = 2
    MaxSave = 3
    Payer = {cli, gui}
    Patient = {cli}
    FeePerKb = 10
    PerInput = 140
    PerOutput = 29
    Base = 11
    OneByte = 2
    MaxTxBytes = 400
    MaxSweep = 3
    MaxAttempts = 2
    Looks = 2
    MaxPayment = 1
    Settings <- MCSettings
SPECIFICATION Spec
INVARIANTS
    FileStaysWhole
    ToldIsTrue
    SelectionIsRight
    SentMeansAccepted
CHECK_DEADLOCK FALSE
