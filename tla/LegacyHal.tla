----------------------------- MODULE LegacyHal -----------------------------
(***************************************************************************)
(* The FocalTech fingerprint module of the FP6 as the HAL service sees it   *)
(* through fingerprint_device_t (fingerprint/LegacyHal.h).  The module is a *)
(* closed library: everything here is what the calls in Session.cpp and    *)
(* Fingerprint.cpp, and the comments recording its behaviour, rely on.     *)
(*                                                                         *)
(* The module runs at most one job at a time (a scan, an enumeration or a  *)
(* lockout reset) and reports through one callback.  Errors and removals   *)
(* are reported synchronously, before the call returns; everything else    *)
(* comes later from the module's own thread.                               *)
(***************************************************************************)
EXTENDS Naturals, Sequences, FiniteSets

CONSTANTS
    Sessions,       \* Session objects
    NoSession,      \* the null Session pointer
    Users,          \* user ids, also the module's group ids (positive)
    UserOf,         \* mUserId of each session
    Fids,           \* template ids the module hands out (positive)
    CancelFails,    \* whether device->cancel may return an error
    EnrollSteps,    \* number of samples an enrollment takes
    Stored,         \* the template stores the module may start with
    Reportable      \* the types of message the module's thread sends

ASSUME HalAssumption ==
    /\ NoSession \notin Sessions
    /\ Users \subseteq Nat \ {0}
    /\ Fids \subseteq Nat \ {0}
    /\ UserOf \in [Sessions -> Users]
    /\ CancelFails \in BOOLEAN
    /\ EnrollSteps \in Nat \ {0}
    /\ Stored \subseteq [Users -> SUBSET Fids]

VARIABLES
    job,            \* what the module is working on
    templates,      \* template ids stored for each group
    group           \* set_active_group's last group, 0 before the first

halVars == <<job, templates, group>>

\* Requests the framework makes of a session, named as Session::OpKind.
OpKinds == {"Enroll", "Authenticate", "DetectInteraction", "Enumerate", "Remove",
            "InvalidateAuthenticatorId", "ResetLockout"}

\* The request a module message answers: a session and the operation (for a
\* match, the operationId signed into the token).
Origins == (Sessions \cup {NoSession}) \X Nat
Nobody == <<NoSession, 0>>

Idle == [kind |-> "None", from |-> Nobody, todo |-> {}, left |-> 0]

Jobs == [kind : OpKinds \cup {"None"}, from : Origins, todo : SUBSET Fids, left : Nat]

MessageTypes == {"ERROR", "CANCELED", "ACQUIRED", "ENROLLING", "REMOVED", "AUTHENTICATED",
                 "ENUMERATING", "LOCKOUT", "CLEARED", "INTERACTION"}

\* fingerprint_msg_t.  CANCELED is the FINGERPRINT_ERROR with that code, LOCKOUT
\* the timed and the permanent lockout, CLEARED the third kMsgLockout kind.  The
\* service cannot see the origin: it is recorded to say whose message it was.
Messages == [type : MessageTypes, fid : Fids \cup {0}, gid : Users \cup {0}, left : Nat,
             from : Origins]

Message(type, from) == [type |-> type, fid |-> 0, gid |-> 0, left |-> 0, from |-> from]

FingerMessage(type, fid, gid, left, from) ==
    [type |-> type, fid |-> fid, gid |-> gid, left |-> left, from |-> from]

HalInit ==
    /\ job = Idle
    /\ templates \in Stored
    /\ group = 0

HalTypeOK ==
    /\ job \in Jobs
    /\ templates \in [Users -> SUBSET Fids]
    /\ group \in Users \cup {0}

-----------------------------------------------------------------------------
(* Calls.  Each names what the module reports before the call returns and    *)
(* whether the return code is non-zero.                                      *)

\* enroll, authenticate, enumerate and the reserved detectInteraction and
\* resetLockout entries: the job replaces the one before.
StartJob(k, s, o) ==
    job' = [kind |-> k,
            from |-> <<s, o>>,
            todo |-> IF k = "Enumerate" /\ group # 0 THEN templates[group] ELSE {},
            left |-> IF k = "Enroll" THEN EnrollSteps ELSE 0]

\* A start that fails: an error report, a non-zero return, or both.
Refusals(s, o) ==
    {[out |-> <<Message("ERROR", <<s, o>>)>>, err |-> e] : e \in BOOLEAN}
        \cup {[out |-> <<>>, err |-> TRUE]}

\* cancel(): the module stops and answers CANCELED, also when the scan had just
\* stopped by itself; or the call fails and changes nothing.
Cancel(reported) == IF reported THEN job' = Idle ELSE CancelFails /\ UNCHANGED job

\* remove(gid, fid), fid # 0: deletes the template and reports it.
RemoveTemplate(u, f) ==
    /\ f \in templates[u]
    /\ templates' = [templates EXCEPT ![u] = @ \ {f}]

RemovedMessage(s, o, f) == FingerMessage("REMOVED", f, UserOf[s], 0, <<s, o>>)

-----------------------------------------------------------------------------
(* Reports of the module's own thread: the message, what the module does      *)
(* next and the template it stored, if any.                                  *)

Report(m, next) == [msg |-> m, job |-> next, stored |-> {}]

\* A scan reports touches, ends with its result, with a lockout (the trusted
\* app refuses more attempts) or with an error such as a timeout.  It goes on
\* after a touch that matches no template (fid 0) and stops after a match.
ScanReports ==
    LET Go(type) == Report(Message(type, job.from), job)
        Stop(type) == Report(Message(type, job.from), Idle)
        Matches == {Report(FingerMessage("AUTHENTICATED", f, u, 0, job.from), Idle) :
                       f \in Fids, u \in Users}
    IN CASE job.kind = "Enroll" -> {Go("ACQUIRED"), Stop("ERROR")}
         [] job.kind = "Authenticate" ->
                {Go("ACQUIRED"), Go("AUTHENTICATED"), Stop("LOCKOUT"), Stop("ERROR")}
                    \cup Matches
         [] job.kind = "DetectInteraction" ->
                {Go("ACQUIRED"), Stop("INTERACTION"), Stop("LOCKOUT"), Stop("ERROR")}
                    \cup Matches
         [] OTHER -> {}

\* Each good sample is reported with the number still needed; the template is
\* stored with the last one.
EnrollReports ==
    LET u == UserOf[job.from[1]]
        Sample(f) == FingerMessage("ENROLLING", f, u, job.left - 1, job.from)
    IN IF job.kind # "Enroll" THEN {}
       ELSE {IF job.left = 1
             THEN [msg |-> Sample(f), job |-> Idle, stored |-> {<<u, f>>}]
             ELSE Report(Sample(f), [job EXCEPT !.left = @ - 1]) : f \in Fids \ templates[u]}

\* One message per stored template, with remaining_templates zero in the last
\* one only; fid 0 when there is none.
EnumerateReports ==
    CASE job.kind # "Enumerate" -> {}
      [] job.kind = "Enumerate" /\ job.todo = {} ->
             {Report(Message("ENUMERATING", job.from), Idle)}
      [] OTHER ->
             {Report(FingerMessage("ENUMERATING", f, group, IF job.todo = {f} THEN 0 ELSE 1, job.from),
                     IF job.todo = {f} THEN Idle ELSE [job EXCEPT !.todo = @ \ {f}]) :
                 f \in job.todo}

\* The trusted app accepted a reset, or a timed lockout ran out by itself.
ClearedReports ==
    {Report(Message("CLEARED", Nobody), job)}
        \cup (IF job.kind = "ResetLockout" THEN {Report(Message("CLEARED", job.from), Idle)}
              ELSE {})

AsyncReports ==
    {r \in ScanReports \cup EnrollReports \cup EnumerateReports \cup ClearedReports :
        r.msg.type \in Reportable}

\* The module's thread produces report r.
ModuleReports(r) ==
    /\ job' = r.job
    /\ templates' = [u \in Users |-> templates[u] \cup {f \in Fids : <<u, f>> \in r.stored}]
    /\ UNCHANGED group
=============================================================================
