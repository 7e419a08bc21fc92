------------------------------ MODULE Session ------------------------------
(***************************************************************************)
(* One AIDL fingerprint session (fingerprint/Session.cpp): the state that  *)
(* Session::mMutex guards, and the steps of the threads that work on it.   *)
(*                                                                         *)
(* A section under mMutex makes only one-way callbacks and never waits, so *)
(* it is one atomic function from the session's state to the next.         *)
(* moduleMutex is held across calls into the module, whose synchronous     *)
(* callbacks and the sections of other threads interleave with the caller: *)
(* such an entry point is a sequence of steps of its thread, from taking   *)
(* the lock (merged with the section that follows it) to releasing it      *)
(* (merged with the section before it).                                    *)
(***************************************************************************)
EXTENDS LegacyHal

CONSTANTS
    Binders,        \* threads of the binder pool that serve ISession calls
    Rearmers,       \* the short-lived threads of rearm()
    Reaper,         \* the binder thread that delivers death notices
    Watcher,        \* the module's own callback thread
    NoThread,       \* moduleMutex is free
    MaxOps,         \* bound on mNextOp
    HeldMatchWindow \* kHeldMatchWindow, in clock ticks

Threads == Binders \cup Rearmers \cup {Reaper, Watcher}

ASSUME SessionAssumption ==
    /\ NoThread \notin Threads
    /\ Reaper \notin Binders \cup Rearmers \cup {Watcher}
    /\ Watcher \notin Binders \cup Rearmers
    /\ Binders \cap Rearmers = {}
    /\ MaxOps \in Nat
    /\ HeldMatchWindow \in Nat

VARIABLES
    ses,            \* the state of every session
    th,             \* what every thread is doing
    moduleOwner     \* the holder of moduleMutex

sessionVars == <<ses, th, moduleOwner>>

-----------------------------------------------------------------------------
(* The state under mMutex.                                                   *)

DisplayStates == {"UNKNOWN", "LOCKSCREEN", "NO_UI", "AOD"}

\* OperationContext.  Its authenticateReason is absent, SystemUI's parcelable
\* with press-to-auth on, or any other reason.
ContextsOf(displays) == [displayState : displays, reason : {"absent", "press", "other"}]
Contexts == ContextsOf(DisplayStates)

\* mHeldMatch with mHeldHat and the time since mHeldAt; gid 0 when none is held.
NoMatch == [gid |-> 0, from |-> Nobody, age |-> 0]
Matches == [gid : Users \cup {0}, from : Origins, age : 0..HeldMatchWindow + 1]

\* A terminal callback: what it reports, the request the module produced it for,
\* and for a match the user and how long it was held.
ResultNames == {"Error", "Canceled", "UnableToProcess", "EnrollmentDone", "Succeeded",
                "InteractionDetected", "Enumerated", "Removed", "Invalidated", "Lockout",
                "LockoutCleared"}
Results == [name : ResultNames, from : Origins, gid : Users \cup {0},
            age : 0..HeldMatchWindow + 1, ids : Seq(Fids)]

Result(name, from) == [name |-> name, from |-> from, gid |-> 0, age |-> 0, ids |-> <<>>]

Success(from, gid, age) ==
    [name |-> "Succeeded", from |-> from, gid |-> gid, age |-> age, ids |-> <<>>]

Listing(name, from, ids) == [name |-> name, from |-> from, gid |-> 0, age |-> 0, ids |-> ids]

OpIds == 1..MaxOps

SessionStates ==
    [mNextOp : 0..MaxOps, mOp : 0..MaxOps, mOpKind : OpKinds \cup {"None"}, mOpEnded : BOOLEAN,
     mDetached : BOOLEAN, mEnumerated : Seq(Fids), mRemoved : Seq(Fids),
     mAuthOperationId : 0..MaxOps, mPressToAuth : BOOLEAN, mDisplayState : DisplayStates,
     mHeld : Matches, results : [OpIds -> Seq(Results)]]

\* results records every terminal callback made for each operation.
NewSession ==
    [mNextOp |-> 0, mOp |-> 0, mOpKind |-> "None", mOpEnded |-> TRUE, mDetached |-> FALSE,
     mEnumerated |-> <<>>, mRemoved |-> <<>>, mAuthOperationId |-> 0, mPressToAuth |-> FALSE,
     mDisplayState |-> "UNKNOWN", mHeld |-> NoMatch, results |-> [o \in OpIds |-> <<>>]]

runningOp(x, o) == ~x.mDetached /\ x.mOp = o /\ ~x.mOpEnded

runningKind(x, k) == ~x.mOpEnded /\ x.mOpKind = k

screenGated(x) ==
    runningKind(x, "Authenticate") /\ x.mPressToAuth /\ x.mDisplayState \in {"NO_UI", "AOD"}

\* Mutants: removals of an earlier request are kept; the id is that of the next.
beginKeepingRemoved(x, k) ==
    LET o == x.mNextOp + 1 IN
    [x EXCEPT !.mNextOp = o, !.mOp = o, !.mOpKind = k, !.mOpEnded = FALSE,
              !.mEnumerated = <<>>, !.mHeld = NoMatch]
beginSkippingIds(x, k) ==
    [beginKeepingRemoved(x, k) EXCEPT !.mRemoved = <<>>, !.mOp = x.mNextOp + 2]

beginOperation(x, k) ==
    LET o == x.mNextOp + 1 IN
    [x EXCEPT !.mNextOp = o, !.mOp = o, !.mOpKind = k, !.mOpEnded = FALSE,
              !.mEnumerated = <<>>, !.mRemoved = <<>>, !.mHeld = NoMatch]

\* A terminal callback followed by endOperationLocked().
endOperation(x, r) ==
    [x EXCEPT !.mOpEnded = TRUE, !.mHeld = NoMatch, !.results[x.mOp] = Append(@, r)]

\* Mutant: the fallback does not ask whether the module reported a result.
failReported(x, s, o) ==
    IF x.mOp = o THEN endOperation(x, Result("UnableToProcess", <<s, o>>)) ELSE x

failOperation(x, s, o) ==
    IF runningOp(x, o) THEN endOperation(x, Result("UnableToProcess", <<s, o>>)) ELSE x

updateContext(x, c) ==
    [x EXCEPT !.mDisplayState = c.displayState,
              !.mPressToAuth = IF c.reason = "absent" THEN @ ELSE c.reason = "press"]

\* Mutants: any context update releases the match; its age is not looked at.
wakesScreenOff(y) == ~(y.mDetached \/ y.mOpEnded \/ y.mHeld.gid = 0)
releasesOldMatch(y) == wakesScreenOff(y) /\ ~screenGated(y)

\* The match that a context update releases: the screen came on and the match is
\* recent enough.  Any other update with the screen on forgets it.
contextWakes(y) == ~(y.mDetached \/ y.mOpEnded \/ y.mHeld.gid = 0 \/ screenGated(y))
contextReleases(y) == contextWakes(y) /\ y.mHeld.age <= HeldMatchWindow

onContextChanged(x, c) ==
    LET y == updateContext(x, c) IN
    IF contextReleases(y)
    THEN endOperation(y, Success(y.mHeld.from, y.mHeld.gid, y.mHeld.age))
    ELSE IF contextWakes(y) THEN [y EXCEPT !.mHeld = NoMatch] ELSE y

-----------------------------------------------------------------------------
(* onMessage, one operator per message type.  u is mUserId.                  *)

\* Mutant: no error is relayed while a match would wait.
onErrorGated(x, m) ==
    IF x.mOpEnded \/ screenGated(x) THEN x
    ELSE endOperation(x, Result(IF m.type = "CANCELED" THEN "Canceled" ELSE "Error", m.from))

onError(x, m) ==
    IF x.mOpEnded THEN x
    ELSE endOperation(x, Result(IF m.type = "CANCELED" THEN "Canceled" ELSE "Error", m.from))

onEnrolling(x, u, m) ==
    IF runningKind(x, "Enroll") /\ m.gid = u /\ m.left = 0
    THEN endOperation(x, Result("EnrollmentDone", m.from))
    ELSE x

onRemoved(x, m) ==
    IF runningKind(x, "Remove") /\ m.fid # 0 THEN [x EXCEPT !.mRemoved = Append(@, m.fid)] ELSE x

\* A match that must wait for the screen is kept, and the sensor re-armed.
holdsMatch(x, u, m) ==
    /\ m.type = "AUTHENTICATED" /\ ~x.mDetached
    /\ screenGated(x) /\ m.fid # 0 /\ m.gid = u

onAuthenticated(x, u, m) ==
    CASE runningKind(x, "DetectInteraction") ->
             endOperation(x, Result("InteractionDetected", m.from))
      [] holdsMatch(x, u, m) ->
             [x EXCEPT !.mHeld = [gid |-> m.gid, from |-> m.from, age |-> 0]]
      [] runningKind(x, "Authenticate") /\ ~screenGated(x) /\ m.fid # 0 /\ m.gid = u ->
             endOperation(x, Success(m.from, m.gid, 0))
      [] OTHER -> x

onEnumerating(x, m) ==
    LET y == IF m.fid # 0 THEN [x EXCEPT !.mEnumerated = Append(@, m.fid)] ELSE x IN
    IF ~runningKind(x, "Enumerate") THEN x
    ELSE IF m.left # 0 THEN y
    ELSE [endOperation(y, Listing("Enumerated", m.from, y.mEnumerated))
              EXCEPT !.mEnumerated = <<>>]

\* Mutant: a lockout ends any operation.
onLockoutAny(x, m) ==
    CASE m.type = "LOCKOUT" /\ ~x.mOpEnded -> endOperation(x, Result("Lockout", m.from))
      [] m.type = "CLEARED" /\ runningKind(x, "ResetLockout") ->
             endOperation(x, Result("LockoutCleared", m.from))
      [] OTHER -> x

onLockout(x, m) ==
    CASE m.type = "LOCKOUT" /\ \E k \in {"Authenticate", "DetectInteraction"} : runningKind(x, k) ->
             endOperation(x, Result("Lockout", m.from))
      [] m.type = "CLEARED" /\ runningKind(x, "ResetLockout") ->
             endOperation(x, Result("LockoutCleared", m.from))
      [] OTHER -> x

onInteraction(x, m) ==
    IF runningKind(x, "DetectInteraction")
    THEN endOperation(x, Result("InteractionDetected", m.from))
    ELSE x

\* ACQUIRED is only relayed.
onMessage(x, u, m) ==
    IF x.mDetached THEN x ELSE
    CASE m.type \in {"ERROR", "CANCELED"} -> onError(x, m)
      [] m.type = "ENROLLING" -> onEnrolling(x, u, m)
      [] m.type = "REMOVED" -> onRemoved(x, m)
      [] m.type = "AUTHENTICATED" -> onAuthenticated(x, u, m)
      [] m.type = "ENUMERATING" -> onEnumerating(x, m)
      [] m.type \in {"LOCKOUT", "CLEARED"} -> onLockout(x, m)
      [] m.type = "INTERACTION" -> onInteraction(x, m)
      [] OTHER -> x

-----------------------------------------------------------------------------
(* Threads.                                                                  *)

\* Scans, enumeration and the lockout reset are started by a module call and
\* end with a message; removal and invalidation end before the call returns.
StartedKinds == OpKinds \ {"Remove", "InvalidateAuthenticatorId"}
CancellableKinds == {"Enroll", "Authenticate", "DetectInteraction"}

\* what: the entry point being executed; out, err: what the module call still
\* reports and returns; todo, gone: ids to remove and ids the module removed;
\* to: the session that a message goes to; next: the session that createSession
\* is opening.
Pcs == {"idle", "wait", "call", "report", "return", "callback", "stop", "detach", "ondetach",
        "exchange", "deliver"}
EntryPoints ==
    OpKinds \cup {"None", "rearm", "cancel", "death", "close", "create", "query", "message"}
Tasks ==
    [pc : Pcs, what : EntryPoints,
     s : Sessions \cup {NoSession}, op : 0..MaxOps, out : Seq(Messages), err : BOOLEAN,
     todo : Seq(Fids \cup {0}), gone : SUBSET Fids,
     to : Sessions \cup {NoSession}, next : Sessions \cup {NoSession}]

Free == [pc |-> "idle", what |-> "None", s |-> NoSession, op |-> 0, out |-> <<>>, err |-> FALSE,
         todo |-> <<>>, gone |-> {}, to |-> NoSession, next |-> NoSession]

Task(pc, what, s, op) == [Free EXCEPT !.pc = pc, !.what = what, !.s = s, !.op = op]

SessionInit ==
    /\ ses = [s \in Sessions |-> NewSession]
    /\ th = [t \in Threads |-> Free]
    /\ moduleOwner = NoThread

SessionTypeOK ==
    /\ ses \in [Sessions -> SessionStates]
    /\ th \in [Threads -> Tasks]
    /\ moduleOwner \in Threads \cup {NoThread}

At(t, pc) == th[t].pc = pc
Goto(t, task) == th' = [th EXCEPT ![t] = task]
Update(s, x) == ses' = [ses EXCEPT ![s] = x]

\* The bound on operations counts the requests that wait for moduleMutex, so that
\* none of them is stopped by it.
Room(s) ==
    ses[s].mNextOp + Cardinality({t \in Threads : At(t, "wait") /\ th[t].s = s}) < MaxOps

\* Mutant: a detached session begins operations.
BeginDetached(t, s, k, ids) ==
    /\ moduleOwner = NoThread
    /\ Update(s, [beginOperation(ses[s], k) EXCEPT !.mAuthOperationId = ses[s].mNextOp + 1])
    /\ moduleOwner' = t
    /\ Goto(t, [Task("call", k, s, ses[s].mNextOp + 1) EXCEPT !.todo = ids])
    /\ UNCHANGED halVars

\* enroll, authenticate, detectInteraction, enumerateEnrollments,
\* removeEnrollments, invalidateAuthenticatorId, resetLockout: take moduleMutex
\* and begin the operation, or report a closed session.  Every authenticate
\* request carries an operationId of its own: its op stands for it.
Begin(t, s, k, ids) ==
    /\ moduleOwner = NoThread
    /\ IF ses[s].mDetached
       THEN Goto(t, Free) /\ UNCHANGED <<ses, moduleOwner>>
       ELSE /\ ses[s].mNextOp < MaxOps
            /\ LET x == beginOperation(ses[s], k) IN
               Update(s, IF k = "Authenticate" THEN [x EXCEPT !.mAuthOperationId = x.mOp] ELSE x)
            /\ moduleOwner' = t
            /\ Goto(t, [Task("call", k, s, ses[s].mNextOp + 1) EXCEPT !.todo = ids])
    /\ UNCHANGED halVars

Request(t, s, k, ids) ==
    At(t, "idle") /\ Room(s) /\ Begin(t, s, k, ids)

\* The context is recorded first, without moduleMutex.
authenticateWithContext(t, s, c) ==
    /\ At(t, "idle") /\ Room(s)
    /\ Update(s, updateContext(ses[s], c))
    /\ Goto(t, Task("wait", "Authenticate", s, 0))
    /\ UNCHANGED <<moduleOwner, halVars>>

\* generateChallenge, revokeChallenge, getAuthenticatorId: the module call needs
\* no operation, and the callback follows after moduleMutex is released.
Query(t, s) ==
    /\ At(t, "idle") /\ moduleOwner = NoThread /\ ~ses[s].mDetached
    /\ Goto(t, Task("callback", "query", s, 0))
    /\ UNCHANGED <<ses, moduleOwner, halVars>>

QueryCallback(t) ==
    /\ At(t, "callback")
    /\ Goto(t, Free)
    /\ UNCHANGED <<ses, moduleOwner, halVars>>

\* CancellationSignal::cancel for operation o.
cancel(t, s, o) ==
    /\ At(t, "idle") /\ moduleOwner = NoThread
    /\ runningOp(ses[s], o)
    /\ moduleOwner' = t
    /\ Goto(t, Task("call", "cancel", s, o))
    /\ UNCHANGED <<ses, halVars>>

\* The context update releases a held match, then stops the sensor.
contextChanged(t, s, c) ==
    /\ At(t, "idle")
    /\ Update(s, onContextChanged(ses[s], c))
    /\ IF contextReleases(updateContext(ses[s], c))
       THEN Goto(t, Task("stop", "cancel", s, ses[s].mOp))
       ELSE UNCHANGED th
    /\ UNCHANGED <<moduleOwner, halVars>>

\* Mutant: a later operation's scan is stopped too.
stopSensorAlways(t) ==
    /\ At(t, "stop") /\ moduleOwner = NoThread
    /\ IF ses[th[t].s].mDetached
       THEN Goto(t, Free) /\ UNCHANGED moduleOwner
       ELSE Goto(t, [th[t] EXCEPT !.pc = "call"]) /\ moduleOwner' = t
    /\ UNCHANGED <<ses, halVars>>

stopSensorAfter(t) ==
    /\ At(t, "stop") /\ moduleOwner = NoThread
    /\ LET x == ses[th[t].s] IN
       IF x.mDetached \/ x.mOp # th[t].op
       THEN Goto(t, Free) /\ UNCHANGED moduleOwner
       ELSE Goto(t, [th[t] EXCEPT !.pc = "call"]) /\ moduleOwner' = t
    /\ UNCHANGED <<ses, halVars>>

\* Mutant: the operation may have ended.
rearmAnyway(t) ==
    /\ At(t, "wait") /\ th[t].what = "rearm" /\ moduleOwner = NoThread
    /\ IF ~ses[th[t].s].mDetached
       THEN Goto(t, [th[t] EXCEPT !.pc = "call"]) /\ moduleOwner' = t
       ELSE Goto(t, Free) /\ UNCHANGED moduleOwner
    /\ UNCHANGED <<ses, halVars>>

\* The thread that rearm(op) started takes moduleMutex and looks again.
rearm(t) ==
    /\ At(t, "wait") /\ th[t].what = "rearm" /\ moduleOwner = NoThread
    /\ IF runningOp(ses[th[t].s], th[t].op)
       THEN Goto(t, [th[t] EXCEPT !.pc = "call"]) /\ moduleOwner' = t
       ELSE Goto(t, Free) /\ UNCHANGED moduleOwner
    /\ UNCHANGED <<ses, halVars>>

\* close(): onSessionClosed, then detach(false).
close(t, s) ==
    /\ At(t, "idle") /\ ~ses[s].mDetached
    /\ Goto(t, Task("detach", "close", s, 0))
    /\ UNCHANGED <<ses, moduleOwner, halVars>>

-----------------------------------------------------------------------------
(* Inside the module.                                                        *)

Answer(t, out, err) ==
    Goto(t, [th[t] EXCEPT !.pc = IF out = <<>> THEN "return" ELSE "report", !.out = out, !.err = err])

\* device->enroll, authenticate, enumerate, detectInteraction and resetLockout;
\* a re-armed scan is for the operationId recorded by authenticate().
CallStart(t) ==
    /\ At(t, "call") /\ th[t].what \in StartedKinds \cup {"rearm"}
    /\ LET s == th[t].s
           k == IF th[t].what = "rearm" THEN "Authenticate" ELSE th[t].what
           o == IF k = "Authenticate" THEN ses[s].mAuthOperationId ELSE th[t].op
       IN \/ StartJob(k, s, o) /\ Answer(t, <<>>, FALSE)
          \/ \E r \in Refusals(s, th[t].op) : job' = Idle /\ Answer(t, r.out, r.err)
          \/ /\ k = "ResetLockout"
             /\ UNCHANGED job
             /\ Answer(t, <<Message("CLEARED", <<s, th[t].op>>)>>, FALSE)
    /\ UNCHANGED <<ses, moduleOwner, templates, group>>

\* device->invalidateAuthenticatorId.
CallInvalidate(t) ==
    /\ At(t, "call") /\ th[t].what = "InvalidateAuthenticatorId"
    /\ \E r \in Refusals(th[t].s, th[t].op) \cup {[out |-> <<>>, err |-> FALSE]} :
          Answer(t, r.out, r.err)
    /\ UNCHANGED <<ses, moduleOwner, halVars>>

\* The loop of removeEnrollments: id 0 is skipped.
CallRemove(t) ==
    /\ At(t, "call") /\ th[t].what = "Remove"
    /\ LET s == th[t].s
           left == [th[t] EXCEPT !.todo = Tail(@)]
       IN CASE th[t].todo = <<>> -> Answer(t, <<>>, FALSE) /\ UNCHANGED templates
            [] th[t].todo # <<>> /\ Head(th[t].todo) = 0 -> Goto(t, left) /\ UNCHANGED templates
            [] OTHER ->
                 LET f == Head(th[t].todo) IN
                 \/ RemoveTemplate(UserOf[s], f)
                    /\ Goto(t, [left EXCEPT !.pc = "report", !.gone = @ \cup {f},
                                            !.out = <<RemovedMessage(s, th[t].op, f)>>])
                 \/ UNCHANGED templates /\ Goto(t, left)
                 \/ UNCHANGED templates
                    /\ Goto(t, [left EXCEPT !.pc = "report",
                                            !.out = <<Message("ERROR", <<s, th[t].op>>)>>])
    /\ UNCHANGED <<ses, moduleOwner, job, group>>

\* device->cancel, for cancel(), stopSensorAfter() and a dead client.
CallCancel(t) ==
    /\ At(t, "call") /\ th[t].what \in {"cancel", "death"}
    /\ \E out \in {<<>>, <<Message("CANCELED", <<th[t].s, th[t].op>>)>>} :
          Cancel(out # <<>>) /\ Answer(t, out, FALSE)
    /\ UNCHANGED <<ses, moduleOwner, templates, group>>

\* The module call returned: its return code is handled, the operations that
\* end with the call are ended, and moduleMutex is released.
Finish(x, s, o, what, err) ==
    CASE what \in StartedKinds \cup {"rearm"} -> IF err THEN failOperation(x, s, o) ELSE x
      [] what = "InvalidateAuthenticatorId" ->
             IF err THEN failOperation(x, s, o)
             ELSE IF runningOp(x, o) THEN endOperation(x, Result("Invalidated", <<s, o>>)) ELSE x
      [] what = "Remove" ->
             IF runningOp(x, o)
             THEN [endOperation(x, Listing("Removed", <<s, o>>, x.mRemoved))
                       EXCEPT !.mRemoved = <<>>]
             ELSE x
      [] OTHER -> x

Return(t) ==
    /\ At(t, "return")
    /\ LET s == th[t].s IN
       /\ Update(s, Finish(ses[s], s, th[t].op, th[t].what, th[t].err))
       /\ Goto(t, IF th[t].what = "death" THEN Task("ondetach", "death", s, 0) ELSE Free)
    /\ moduleOwner' = NoThread
    /\ UNCHANGED halVars

\* The clock: a held match grows older.
Tick ==
    /\ \E s \in Sessions : ses[s].mHeld.gid # 0 /\ ses[s].mHeld.age <= HeldMatchWindow
    /\ ses' = [s \in Sessions |->
                  IF ses[s].mHeld.gid # 0 /\ ses[s].mHeld.age <= HeldMatchWindow
                  THEN [ses[s] EXCEPT !.mHeld.age = @ + 1] ELSE ses[s]]
    /\ UNCHANGED <<th, moduleOwner, halVars>>
=============================================================================
