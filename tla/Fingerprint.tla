---------------------------- MODULE Fingerprint ----------------------------
(***************************************************************************)
(* The fingerprint HAL service (fingerprint/Fingerprint.cpp): createSession *)
(* and the routing of module messages to the open session, composed with   *)
(* the sessions (Session) and the module (LegacyHal).                      *)
(*                                                                         *)
(* The framework is the environment: it may call any entry point of any    *)
(* session it was given, on any binder thread, at any time; its process may *)
(* die.                                                                    *)
(***************************************************************************)
EXTENDS Session

CONSTANTS
    Kinds,          \* the requests the framework makes, "Query" included
    Displays,       \* the display states its contexts carry
    RemovalLists,   \* the arguments of removeEnrollments
    Overlap         \* whether it opens a session before closing the last one

ASSUME FingerprintAssumption ==
    /\ Kinds \subseteq OpKinds \cup {"Query"}
    /\ Displays \subseteq DisplayStates
    /\ RemovalLists \subseteq Seq(Fids \cup {0})
    /\ Overlap \in BOOLEAN

VARIABLES
    mSession,       \* the session that receives module messages
    opened,         \* how far createSession got for each session
    dead            \* sessions whose client died

fpVars == <<mSession, opened, dead>>
vars == <<halVars, sessionVars, fpVars>>

Init ==
    /\ HalInit
    /\ SessionInit
    /\ mSession = NoSession
    /\ opened = [s \in Sessions |-> "no"]
    /\ dead = {}

TypeOK ==
    /\ HalTypeOK
    /\ SessionTypeOK
    /\ mSession \in Sessions \cup {NoSession}
    /\ opened \in [Sessions -> {"no", "opening", "yes"}]
    /\ dead \subseteq Sessions

-----------------------------------------------------------------------------
(* createSession.                                                            *)

\* watchClient, then set_active_group under moduleMutex.  When either fails the
\* session is dropped and nothing has changed.
createSession(t, s) ==
    /\ At(t, "idle") /\ moduleOwner = NoThread
    /\ opened[s] = "no" /\ s \notin dead
    /\ Overlap \/ \A z \in Sessions : opened[z] = "no" \/ (opened[z] = "yes" /\ ses[z].mDetached)
    /\ group' = UserOf[s]
    /\ opened' = [opened EXCEPT ![s] = "opening"]
    /\ Goto(t, [Task("exchange", "create", NoSession, 0) EXCEPT !.next = s])
    /\ UNCHANGED <<job, templates, ses, moduleOwner, mSession, dead>>

\* An entry point is over; createSession hands the session to the framework.
Leave(t) ==
    /\ Goto(t, Free)
    /\ opened' = IF th[t].next = NoSession THEN opened
                 ELSE [opened EXCEPT ![th[t].next] = "yes"]

\* The new session takes the messages; the one before it, if any, is detached.
Exchange(t) ==
    /\ At(t, "exchange")
    /\ mSession' = th[t].next
    /\ IF mSession = NoSession THEN Leave(t)
       ELSE /\ Goto(t, [th[t] EXCEPT !.pc = "detach", !.s = mSession])
            /\ UNCHANGED opened
    /\ UNCHANGED <<halVars, ses, moduleOwner, dead>>

\* Session::detach, called by createSession, close and onClientDied.  A dead
\* client's running operation is cancelled while moduleMutex is held.
detach(t) ==
    /\ At(t, "detach") /\ moduleOwner = NoThread
    /\ LET s == th[t].s
           kill == th[t].what = "death" /\ ~ses[s].mOpEnded
       IN IF ses[s].mDetached
          THEN Leave(t) /\ UNCHANGED <<ses, moduleOwner>>
          ELSE /\ Update(s, [ses[s] EXCEPT !.mDetached = TRUE])
               /\ Goto(t, [th[t] EXCEPT !.pc = IF kill THEN "call" ELSE "ondetach",
                                        !.op = IF kill THEN ses[s].mOp ELSE 0])
               /\ moduleOwner' = IF kill THEN t ELSE NoThread
               /\ UNCHANGED opened
    /\ UNCHANGED <<halVars, mSession, dead>>

\* Mutant: the pointer is reset whichever session is open.
mOnDetachAny(t) ==
    /\ At(t, "ondetach")
    /\ mSession' = NoSession
    /\ Leave(t)
    /\ UNCHANGED <<halVars, ses, moduleOwner, dead>>

\* The onDetach function that createSession gave the session.
mOnDetach(t) ==
    /\ At(t, "ondetach")
    /\ mSession' = IF mSession = th[t].s THEN NoSession ELSE mSession
    /\ Leave(t)
    /\ UNCHANGED <<halVars, ses, moduleOwner, dead>>

\* The binder driver reports the death of s's client.
onClientDied(s) ==
    /\ At(Reaper, "idle") /\ opened[s] # "no" /\ s \notin dead
    /\ dead' = dead \cup {s}
    /\ Goto(Reaper, Task("detach", "death", s, 0))
    /\ UNCHANGED <<halVars, ses, moduleOwner, mSession, opened>>

-----------------------------------------------------------------------------
(* Module messages.                                                          *)

\* Mutant: the sensor is not re-armed.
ReceiveOnly(s, m, next) ==
    Update(s, onMessage(ses[s], UserOf[s], m)) /\ th' = next

\* A message that arrives at s; a held match starts a thread to re-arm.  The
\* service starts as many as it takes: that one must be idle is a bound.
Receive(s, m, next) ==
    /\ Update(s, onMessage(ses[s], UserOf[s], m))
    /\ IF holdsMatch(ses[s], UserOf[s], m)
       THEN \E r \in Rearmers :
               /\ At(r, "idle")
               /\ th' = [next EXCEPT ![r] = Task("wait", "rearm", s, ses[s].mOp)]
       ELSE th' = next

\* The module's thread makes report r, then calls notify.
ModuleNotify ==
    /\ At(Watcher, "idle")
    /\ \E r \in AsyncReports :
          /\ ModuleReports(r)
          /\ Goto(Watcher, [Task("report", "message", NoSession, 0) EXCEPT !.out = <<r.msg>>])
    /\ UNCHANGED <<ses, moduleOwner, fpVars>>

\* notify returns to the module's thread, or into the module call.
Notified(t) ==
    CASE th[t].what = "message" -> Free
      [] th[t].what = "Remove" -> [th[t] EXCEPT !.pc = "call", !.out = <<>>, !.to = NoSession]
      [] OTHER -> [th[t] EXCEPT !.pc = "return", !.out = <<>>, !.to = NoSession]

\* notify copies the session pointer under mSessionMutex ...
NotifyRead(t) ==
    /\ At(t, "report")
    /\ Goto(t, IF mSession = NoSession THEN Notified(t)
               ELSE [th[t] EXCEPT !.pc = "deliver", !.to = mSession])
    /\ UNCHANGED <<halVars, ses, moduleOwner, fpVars>>

\* Mutant: the callback takes moduleMutex.
NotifyLocked(t) ==
    /\ At(t, "deliver") /\ moduleOwner = NoThread
    /\ Receive(th[t].to, Head(th[t].out), [th EXCEPT ![t] = Notified(t)])
    /\ UNCHANGED <<halVars, moduleOwner, fpVars>>

\* ... and calls onMessage after releasing it.
NotifyDeliver(t) ==
    /\ At(t, "deliver")
    /\ Receive(th[t].to, Head(th[t].out), [th EXCEPT ![t] = Notified(t)])
    /\ UNCHANGED <<halVars, moduleOwner, fpVars>>

-----------------------------------------------------------------------------
Usable(s) == opened[s] = "yes" /\ s \notin dead

\* The framework's calls on session s.
ClientCall(t, s) ==
    /\ Usable(s)
    /\ \/ \E k \in Kinds \cap OpKinds :
             \E ids \in IF k = "Remove" THEN RemovalLists ELSE {<<>>} : Request(t, s, k, ids)
       \/ "Authenticate" \in Kinds
             /\ \E c \in ContextsOf(Displays) : authenticateWithContext(t, s, c)
       \/ "Query" \in Kinds /\ Query(t, s)
       \/ \E o \in OpIds : ses[s].mOpKind \in CancellableKinds /\ cancel(t, s, o)
       \/ \E c \in ContextsOf(Displays) : contextChanged(t, s, c)
       \/ close(t, s)
    /\ UNCHANGED fpVars

\* A request that recorded its context goes on.
WaitingBegin(t) ==
    /\ At(t, "wait") /\ th[t].what = "Authenticate"
    /\ Begin(t, th[t].s, "Authenticate", <<>>)
    /\ UNCHANGED fpVars

\* The steps of a thread that is inside an entry point.
ThreadStep(t) ==
    \/ Exchange(t) \/ detach(t) \/ mOnDetach(t) \/ NotifyRead(t) \/ NotifyDeliver(t)
    \/ WaitingBegin(t)
    \/ /\ \/ CallStart(t) \/ CallInvalidate(t) \/ CallRemove(t) \/ CallCancel(t) \/ Return(t)
          \/ QueryCallback(t) \/ stopSensorAfter(t) \/ rearm(t)
       /\ UNCHANGED fpVars

Next ==
    \/ \E t \in Binders, s \in Sessions : createSession(t, s) \/ ClientCall(t, s)
    \/ \E t \in Threads : ThreadStep(t)
    \/ \E s \in Sessions : onClientDied(s)
    \/ ModuleNotify
    \/ Tick /\ UNCHANGED fpVars

Spec == Init /\ [][Next]_vars

\* Every thread inside an entry point goes on, and gets moduleMutex when it is
\* free again and again.  The framework, its death, the module's reports and the
\* clock are under no obligation.
Fairness == \A t \in Threads : SF_vars(ThreadStep(t))

FairSpec == Spec /\ Fairness

-----------------------------------------------------------------------------
(* Properties.                                                               *)

Quiet == \A t \in Threads : At(t, "idle")

\* The results given for operation o of session s.
Given(s, o) == {ses[s].results[o][i] : i \in DOMAIN ses[s].results[o]}

\* An operation ends at most once, whoever ends it: a module message, a failed
\* module call, a re-arm that fails or a context update that releases a match.
OneResult == \A s \in Sessions, o \in OpIds : Len(ses[s].results[o]) <= 1

\* moduleMutex serialises the calls into the module, those of the re-arm threads
\* and of stopSensorAfter included: no two threads are inside it.
InModule(t) == th[t].pc \in {"call", "report", "deliver", "return"} /\ t # Watcher
ModuleSerialised == \A t, u \in Threads : InModule(t) /\ InModule(u) => t = u

\* A thread that calls the module does so for an attached session, however late
\* it got moduleMutex; only the cancel for a dead client is made afterwards.
DetachedNeverReachesModule ==
    \A t \in Threads :
        At(t, "call") /\ ses[th[t].s].mDetached => th[t].what = "death"

\* A success is for the session's own user, and a match held while the screen
\* was off is at most kHeldMatchWindow old when it is released.
SuccessIsEarned ==
    \A s \in Sessions, o \in OpIds : \A r \in Given(s, o) :
        r.name = "Succeeded" => r.gid = UserOf[s] /\ r.age <= HeldMatchWindow

\* No success is delivered while the latest context says that a press is needed
\* and the screen is off.
NoSuccessWhileScreenOff ==
    [][\A s \in Sessions, o \in OpIds :
          (\E r \in Given(s, o)' \ Given(s, o) : r.name = "Succeeded")
              => ~(ses[s].mPressToAuth /\ ses[s].mDisplayState \in {"NO_UI", "AOD"})']_vars

\* A cancellation reaches only the operation it was issued for, whatever was
\* started, replaced or closed while it waited for moduleMutex.
CancelOnlyOwn ==
    \A s \in Sessions, o \in OpIds : \A r \in Given(s, o) :
        r.name = "Canceled" => r.from = <<s, o>>

\* The scan of a cancelled operation never runs again: a re-arm that was under
\* way when the framework cancelled does nothing.
CancelledNeverRearmed ==
    \A s \in Sessions, o \in OpIds :
        job.from = <<s, o>> => \A r \in Given(s, o) : r.name # "Canceled"

\* When all threads are idle a running authentication has the sensor scanning
\* for it, also after held matches and re-arms, and the sensor does not scan for an
\* attached session's first operation once that ended, a released match included.
\* (A message of an earlier operation may end a later one and leave its scan on.)
SensorFollows ==
    Quiet => \A s \in Sessions : ~ses[s].mDetached =>
        /\ runningKind(ses[s], "Authenticate")
              => job.kind = "Authenticate" /\ job.from = <<s, ses[s].mOp>>
        /\ ses[s].mOp = 1 /\ ses[s].mOpEnded => job.from # <<s, 1>>

\* removeEnrollments reports exactly the templates the module deleted for it.
RemovedExact ==
    \A t \in Threads :
        LET x == ses[th[t].s] IN
        At(t, "return") /\ th[t].what = "Remove" /\ runningOp(x, th[t].op)
            => {x.mRemoved[i] : i \in DOMAIN x.mRemoved} = th[t].gone

\* With no createSession under way, an open session is the one that receives the
\* module's messages, even when an older session is closed or dies late.
OpenSessionIsRouted ==
    (\A t \in Threads : th[t].next = NoSession) =>
        \A s \in Sessions : opened[s] = "yes" /\ ~ses[s].mDetached => mSession = s

\* Every session keeps the contract of the class comment in Session.h.
Contract ==
    INSTANCE SessionContract WITH
        op <- [s \in Sessions |-> ses[s].mNextOp],
        kind <- [s \in Sessions |-> ses[s].mOpKind],
        ended <- [s \in Sessions |-> ses[s].mOpEnded],
        detached <- [s \in Sessions |-> ses[s].mDetached],
        results <- [s \in Sessions |-> [o \in OpIds |->
                       [i \in DOMAIN ses[s].results[o] |-> ses[s].results[o][i].name]]]

KeepsContract == Contract!Spec

\* No thread waits forever for moduleMutex or inside an entry point.
CallsReturn == \A t \in Threads : ~At(t, "idle") ~> At(t, "idle")

\* A cancel that found its operation running ends it, or the session is gone.
CancelAnswered ==
    \A s \in Sessions, o \in OpIds :
        (\E t \in Binders : At(t, "call") /\ th[t].what = "cancel" /\ th[t].s = s /\ th[t].op = o)
            ~> ~runningOp(ses[s], o)

-----------------------------------------------------------------------------
(* What comments in the code say and the code does not do (see the README).  *)

\* "Module messages that do not belong to the running operation, or arrive after
\* it ended, are dropped" (Session.h): an operation that succeeds does so with
\* the match of its own scan.
StaleMessagesDropped ==
    \A s \in Sessions, o \in OpIds : \A r \in Given(s, o) :
        r.name = "Succeeded" => r.from = <<s, o>>
=============================================================================
