SPECIFICATION Spec
CONSTANTS
    s1 = s1
    s2 = s2
    b1 = b1
    b2 = b2
    r1 = r1
    r2 = r2
    Sessions = {s1}
    NoSession = NoSession
    Users = {1}
    UserOf <- OneUser
    Fids = {1}
    CancelFails = FALSE
    EnrollSteps = 1
    Stored <- NoTemplates
    Reportable = {"ERROR", "ACQUIRED", "AUTHENTICATED", "LOCKOUT", "CLEARED"}
    Binders = {b1, b2}
    Rearmers = {r1, r2}
    Reaper = Reaper
    Watcher = Watcher
    NoThread = NoThread
    MaxOps = 2
    HeldMatchWindow = 1
    Kinds = {"Authenticate"}
    Displays = {"NO_UI", "LOCKSCREEN"}
    RemovalLists = {}
    Overlap = FALSE
SYMMETRY ThreadSymmetry
INVARIANTS
    TypeOK
    OneResult
    SuccessIsEarned
    CancelOnlyOwn
    CancelledNeverRearmed
    SensorFollows
PROPERTIES
    NoSuccessWhileScreenOff
