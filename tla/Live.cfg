SPECIFICATION FairSpec
CONSTANTS
    s1 = s1
    s2 = s2
    b1 = b1
    b2 = b2
    r1 = r1
    r2 = r2
    Sessions = {s1}
    NoSession = NoSession
    Users = {1}
    UserOf <- OneUser
    Fids = {1}
    CancelFails = FALSE
    EnrollSteps = 1
    Stored <- NoTemplates
    Reportable = {"ERROR", "AUTHENTICATED"}
    Binders = {b1, b2}
    Rearmers = {r1}
    Reaper = Reaper
    Watcher = Watcher
    NoThread = NoThread
    MaxOps = 1
    HeldMatchWindow = 1
    Kinds = {"Authenticate"}
    Displays = {"NO_UI", "LOCKSCREEN"}
    RemovalLists = {}
    Overlap = FALSE
PROPERTIES
    CallsReturn
    CancelAnswered
CHECK_DEADLOCK FALSE
