SPECIFICATION Spec
CONSTANTS
    s1 = s1
    s2 = s2
    b1 = b1
    b2 = b2
    r1 = r1
    r2 = r2
    Sessions = {s1}
    NoSession = NoSession
    Users = {1}
    UserOf <- OneUser
    Fids = {1, 2}
    CancelFails = TRUE
    EnrollSteps = 2
    Stored <- OneTemplate
    Reportable = {"ERROR", "ACQUIRED", "AUTHENTICATED", "ENROLLING", "ENUMERATING", "LOCKOUT", "CLEARED", "INTERACTION"}
    Binders = {b1, b2}
    Rearmers = {r1}
    Reaper = Reaper
    Watcher = Watcher
    NoThread = NoThread
    MaxOps = 2
    HeldMatchWindow = 1
    Kinds = {"Enroll", "Authenticate", "DetectInteraction", "Enumerate", "Remove", "InvalidateAuthenticatorId", "ResetLockout"}
    Displays = {"LOCKSCREEN"}
    RemovalLists <- Removals
    Overlap = FALSE
SYMMETRY ThreadSymmetry
INVARIANTS
    RemovedExact
PROPERTIES
    KeepsContract
