SPECIFICATION Spec
CONSTANTS
    s1 = s1
    s2 = s2
    b1 = b1
    b2 = b2
    r1 = r1
    r2 = r2
    Sessions = {s1, s2}
    NoSession = NoSession
    Users = {1, 2}
    UserOf <- TwoUsers
    Fids = {1}
    CancelFails = FALSE
    EnrollSteps = 1
    Stored <- NoTemplates
    Reportable = {"ERROR", "AUTHENTICATED"}
    Binders = {b1, b2}
    Rearmers = {r1}
    Reaper = Reaper
    Watcher = Watcher
    NoThread = NoThread
    MaxOps = 1
    HeldMatchWindow = 1
    Kinds = {"Authenticate", "Query"}
    Displays = {}
    RemovalLists = {}
    Overlap = TRUE
SYMMETRY ThreadSymmetry
INVARIANTS
    DetachedNeverReachesModule
    OpenSessionIsRouted
CHECK_DEADLOCK FALSE
