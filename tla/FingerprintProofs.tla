------------------------- MODULE FingerprintProofs -------------------------
(***************************************************************************)
(* Proofs about the fingerprint HAL for every number of sessions, users,   *)
(* threads, templates and operations: the inductive invariant, the safety  *)
(* invariants it implies, and the session contract.                        *)
(***************************************************************************)
EXTENDS SessionLemmas

-----------------------------------------------------------------------------
(* The inductive invariant.                                                  *)

\* Thread t with task k, when own holds moduleMutex and S are the sessions: it
\* is inside the module only while it holds the mutex, and then its session is
\* attached (unless it acts for a dead client) and busy with its request; only
\* the module's own thread reports without the mutex.
TaskInv(t, k, own, S) ==
    /\ k.pc \in {"call", "report", "deliver", "return"} /\ t # Watcher
          => /\ own = t /\ k.s \in Sessions
             /\ k.what # "death" => ~S[k.s].mDetached
             /\ k.what \in OpKinds => S[k.s].mOpKind = k.what
    /\ k.pc \in {"wait", "callback", "stop", "detach", "ondetach"} => k.s \in Sessions
    /\ k.pc = "stop" => k.what = "cancel"
    /\ k.pc \in {"report", "deliver"} => Len(k.out) = 1
    /\ k.pc = "deliver" => k.to \in Sessions
    /\ k.pc = "exchange" => k.next \in Sessions
    /\ t = Watcher => k.pc \in {"idle", "report", "deliver"}
                      /\ (k.pc # "idle" => k.what = "message")
    /\ t # Watcher => k.what # "message"

\* An enrollment under way belongs to a session and needs another sample.
JobInv == job.kind = "Enroll" => job.left # 0 /\ job.from[1] \in Sessions

IInv ==
    /\ TypeOK
    /\ JobInv
    /\ \A s \in Sessions : SInv(s, ses[s])
    /\ \A t \in Threads : TaskInv(t, th[t], moduleOwner, ses)

-----------------------------------------------------------------------------
(* Steps.                                                                    *)

\* What a step does to the sessions: one evolves, or none is touched.
SesStep ==
    \/ \E s \in Sessions : Evolves(s, ses[s], ses'[s]) /\ ses' = [ses EXCEPT ![s] = ses'[s]]
    \/ /\ ses' \in [Sessions -> SessionStates]
       /\ \A s \in Sessions : Evolves(s, ses[s], ses'[s]) /\ Untouched(ses[s], ses'[s])

\* Sessions keep what the invariant says about the holder of moduleMutex.
SameForOwner ==
    \A s \in Sessions : ses'[s].mDetached = ses[s].mDetached /\ ses'[s].mOpKind = ses[s].mOpKind

\* What is shown of every step.
Keeps == IInv' /\ SesStep

FpTypeOK ==
    /\ mSession \in Sessions \cup {NoSession}
    /\ opened \in [Sessions -> {"no", "opening", "yes"}]
    /\ dead \subseteq Sessions

\* A step that respects the sessions, the types and the owner of moduleMutex
\* preserves the invariant if it does for the threads it moves.
LEMMA StepKeeps ==
    ASSUME IInv, SesStep, HalTypeOK', JobInv', FpTypeOK', th' \in [Threads -> Tasks],
           moduleOwner' \in Threads \cup {NoThread},
           \A u \in Threads :
              \/ TaskInv(u, th'[u], moduleOwner', ses')
              \/ /\ th'[u] = th[u]
                 /\ moduleOwner' = moduleOwner \/ moduleOwner # u
                 /\ SameForOwner \/ moduleOwner # u
    PROVE  Keeps
<1>1. ses \in [Sessions -> SessionStates]
  BY DEF IInv, TypeOK, SessionTypeOK
<1>2. ses' \in [Sessions -> SessionStates] /\ \A s \in Sessions : SInv(s, ses'[s])
  <2>1. CASE \E s \in Sessions : Evolves(s, ses[s], ses'[s]) /\ ses' = [ses EXCEPT ![s] = ses'[s]]
    <3>1. PICK s \in Sessions : Evolves(s, ses[s], ses'[s]) /\ ses' = [ses EXCEPT ![s] = ses'[s]]
      BY <2>1
    <3>2. ses'[s] \in SessionStates /\ SInv(s, ses'[s])
      BY <3>1 DEF Evolves
    <3>3. \A z \in Sessions : z # s => ses'[z] = ses[z]
      BY <1>1, <3>1
    <3>4. ses' \in [Sessions -> SessionStates]
      BY <1>1, <3>1, <3>2
    <3> QED
      BY <3>2, <3>3, <3>4 DEF IInv
  <2>2. CASE /\ ses' \in [Sessions -> SessionStates]
             /\ \A s \in Sessions : Evolves(s, ses[s], ses'[s]) /\ Untouched(ses[s], ses'[s])
    BY <2>2 DEF Evolves
  <2> QED
    BY <2>1, <2>2 DEF SesStep
<1>3. ASSUME NEW u \in Threads
      PROVE  TaskInv(u, th'[u], moduleOwner', ses')
  <2>1. TaskInv(u, th[u], moduleOwner, ses)
    BY DEF IInv
  <2>2. CASE /\ th'[u] = th[u]
             /\ moduleOwner' = moduleOwner \/ moduleOwner # u
             /\ SameForOwner \/ moduleOwner # u
    BY <2>1, <2>2 DEF TaskInv, SameForOwner
  <2> QED
    BY <2>2
<1>4. TypeOK'
  BY <1>2 DEF TypeOK, SessionTypeOK, FpTypeOK
<1> QED
  BY <1>2, <1>3, <1>4 DEF IInv, Keeps

\* The parts of the invariant, and the typed parts of a thread's task.
LEMMA Parts ==
    ASSUME IInv
    PROVE  /\ HalTypeOK /\ JobInv /\ FpTypeOK
           /\ ses \in [Sessions -> SessionStates] /\ th \in [Threads -> Tasks]
           /\ moduleOwner \in Threads \cup {NoThread}
           /\ \A s \in Sessions : ses[s] \in SessionStates /\ SInv(s, ses[s])
           /\ \A t \in Threads : /\ th[t] \in Tasks /\ TaskInv(t, th[t], moduleOwner, ses)
                                 /\ InModule(t) => moduleOwner = t
  BY DEF IInv, TypeOK, SessionTypeOK, FpTypeOK, TaskInv, InModule

\* Sessions left alone.
LEMMA SesSame ==
    ASSUME IInv, UNCHANGED ses
    PROVE  SesStep /\ SameForOwner
  BY Parts, SameEvolves DEF SesStep, SameForOwner, Untouched

\* One session evolves.
LEMMA SesOne ==
    ASSUME IInv, NEW s \in Sessions, NEW y, Evolves(s, ses[s], y), Update(s, y)
    PROVE  /\ SesStep /\ ses'[s] = y
           /\ \A z \in Sessions : z # s => ses'[z] = ses[z]
  BY Parts DEF SesStep, Update

\* The module's and the service's state left alone.
LEMMA RestSame ==
    ASSUME IInv
    PROVE  /\ UNCHANGED halVars => HalTypeOK' /\ JobInv'
           /\ UNCHANGED fpVars => FpTypeOK'
  BY Parts DEF halVars, fpVars, HalTypeOK, JobInv, FpTypeOK

\* A step that moves one thread.
LEMMA MovesOne ==
    ASSUME IInv, SesStep, HalTypeOK', JobInv', FpTypeOK',
           NEW t \in Threads, NEW k \in Tasks, Goto(t, k),
           moduleOwner' \in Threads \cup {NoThread},
           moduleOwner' = moduleOwner \/ moduleOwner \in {t, NoThread},
           SameForOwner \/ moduleOwner \in {t, NoThread},
           TaskInv(t, k, moduleOwner', ses')
    PROVE  Keeps
<1>1. th' \in [Threads -> Tasks] /\ th'[t] = k /\ \A u \in Threads : u # t => th'[u] = th[u]
  BY Parts DEF Goto
<1>2. \A u \in Threads : u # NoThread
  BY SessionAssumption
<1> QED
  BY <1>1, <1>2, StepKeeps

\* Free threads and new tasks.
LEMMA Names ==
    /\ OpKinds \cup {"None", "rearm", "cancel", "death", "close", "create", "query", "message"}
          \subseteq EntryPoints
    /\ {"idle", "wait", "call", "report", "return", "callback", "stop", "detach", "ondetach",
        "exchange", "deliver"} \subseteq Pcs
    /\ 0 \in 0..MaxOps
  BY SessionAssumption DEF EntryPoints, Pcs

\* A thread with nothing to do is well typed.
LEMMA FreeTask == Free \in Tasks /\ Free.pc = "idle" /\ Free.what = "None"
<1>1. <<>> \in Seq(Messages) /\ <<>> \in Seq(Fids \cup {0})
  OBVIOUS
<1> QED
  BY <1>1, Names DEF Free, Tasks

\* A task made for a thread is well typed and has the parts it was given.
LEMMA NewTask ==
    ASSUME NEW p \in Pcs, NEW w \in EntryPoints, NEW s \in Sessions \cup {NoSession},
           NEW o \in 0..MaxOps
    PROVE  /\ Task(p, w, s, o) \in Tasks
           /\ Task(p, w, s, o).pc = p /\ Task(p, w, s, o).what = w
           /\ Task(p, w, s, o).s = s /\ Task(p, w, s, o).op = o
  BY FreeTask DEF Task, Tasks

\* A thread that has nothing to do satisfies its part of the invariant.
LEMMA FreeInv ==
    ASSUME NEW t, NEW own, NEW S
    PROVE  TaskInv(t, Free, own, S)
  BY Names, FreeTask DEF TaskInv

\* Messages and context updates neither detach a session nor change its request.
LEMMA MessageKeepsOwner ==
    ASSUME NEW x \in SessionStates, NEW u, NEW m
    PROVE  /\ onMessage(x, u, m).mDetached = x.mDetached
           /\ onMessage(x, u, m).mOpKind = x.mOpKind
<1>1. \A y \in SessionStates : \A r : /\ endOperation(y, r).mDetached = y.mDetached
                                      /\ endOperation(y, r).mOpKind = y.mOpKind
  BY DEF endOperation, SessionStates
<1>2. /\ onError(x, m).mDetached = x.mDetached /\ onError(x, m).mOpKind = x.mOpKind
      /\ onEnrolling(x, u, m).mDetached = x.mDetached /\ onEnrolling(x, u, m).mOpKind = x.mOpKind
      /\ onLockout(x, m).mDetached = x.mDetached /\ onLockout(x, m).mOpKind = x.mOpKind
      /\ onInteraction(x, m).mDetached = x.mDetached /\ onInteraction(x, m).mOpKind = x.mOpKind
  BY <1>1 DEF onError, onEnrolling, onLockout, onInteraction
<1>3. onRemoved(x, m).mDetached = x.mDetached /\ onRemoved(x, m).mOpKind = x.mOpKind
  BY DEF onRemoved, SessionStates
<1>4. onAuthenticated(x, u, m).mDetached = x.mDetached /\ onAuthenticated(x, u, m).mOpKind = x.mOpKind
  BY <1>1 DEF onAuthenticated, SessionStates
<1>5. onEnumerating(x, m).mDetached = x.mDetached /\ onEnumerating(x, m).mOpKind = x.mOpKind
  BY DEF onEnumerating, endOperation, SessionStates
<1> QED
  BY <1>2, <1>3, <1>4, <1>5 DEF onMessage

\* A context update leaves the session's kind and attachment alone.
LEMMA ContextKeepsOwner ==
    ASSUME NEW x \in SessionStates, NEW c
    PROVE  /\ onContextChanged(x, c).mDetached = x.mDetached
           /\ onContextChanged(x, c).mOpKind = x.mOpKind
           /\ updateContext(x, c).mDetached = x.mDetached
           /\ updateContext(x, c).mOpKind = x.mOpKind
  BY DEF onContextChanged, updateContext, endOperation, SessionStates

-----------------------------------------------------------------------------
(* The entry points, as far as the first step takes them.                    *)

\* createSession opens a session and goes on to the exchange.
LEMMA CreateKeeps ==
    ASSUME IInv, NEW t \in Binders, NEW s \in Sessions, createSession(t, s)
    PROVE  Keeps
<1> DEFINE k == [Task("exchange", "create", NoSession, 0) EXCEPT !.next = s]
<1>1. t \in Threads /\ t # Watcher
  BY SessionAssumption DEF Threads
<1>2. /\ Task("exchange", "create", NoSession, 0) \in Tasks
      /\ Task("exchange", "create", NoSession, 0).pc = "exchange"
      /\ Task("exchange", "create", NoSession, 0).what = "create"
  <2>1. /\ "exchange" \in Pcs /\ "create" \in EntryPoints
        /\ NoSession \in Sessions \cup {NoSession} /\ 0 \in 0..MaxOps
    BY Names
  <2> QED
    BY <2>1, NewTask
<1>3. k \in Tasks /\ k.pc = "exchange" /\ k.what = "create" /\ k.next = s
  BY <1>2 DEF Tasks
<1>4. TaskInv(t, k, moduleOwner', ses')
  BY <1>1, <1>3 DEF TaskInv
<1>5. SesStep /\ SameForOwner
  BY SesSame DEF createSession
<1>6. HalTypeOK' /\ JobInv' /\ FpTypeOK'
  BY Parts, HalAssumption DEF createSession, HalTypeOK, JobInv, FpTypeOK
<1> QED
  BY <1>1, <1>3, <1>4, <1>5, <1>6, MovesOne, Parts DEF createSession

\* The seven requests: an operation begins while moduleMutex is free.
LEMMA BeginKeeps ==
    ASSUME IInv, NEW t \in Threads, t # Watcher, NEW s \in Sessions, NEW w \in OpKinds,
           NEW ids \in Seq(Fids \cup {0}), Begin(t, s, w, ids), UNCHANGED fpVars
    PROVE  Keeps
<1>1. HalTypeOK' /\ JobInv' /\ FpTypeOK'
  BY RestSame DEF Begin
<1>2. CASE ses[s].mDetached
  <2>1. Goto(t, Free) /\ UNCHANGED <<ses, moduleOwner>>
    BY <1>2 DEF Begin
  <2> QED
    BY <1>1, <2>1, SesSame, MovesOne, Parts, FreeTask, FreeInv
<1>3. CASE ~ses[s].mDetached
  <2> DEFINE x == beginOperation(ses[s], w)
             y == IF w = "Authenticate" THEN [x EXCEPT !.mAuthOperationId = x.mOp] ELSE x
             b == Task("call", w, s, ses[s].mNextOp + 1)
             k == [b EXCEPT !.todo = ids]
  <2>1. /\ moduleOwner = NoThread /\ ses[s].mNextOp < MaxOps /\ Update(s, y)
        /\ moduleOwner' = t /\ Goto(t, k)
    BY <1>3 DEF Begin
  <2>2. ses[s] \in SessionStates /\ SInv(s, ses[s]) /\ ses[s].mNextOp + 1 \in 0..MaxOps
    BY <2>1, Parts, SessionAssumption DEF SessionStates
  <2>3. Evolves(s, ses[s], y)
    BY <1>3, <2>1, <2>2, BeginEvolves
  <2>4. y.mOpKind = w /\ y.mDetached = FALSE
    BY <1>3, <2>2 DEF beginOperation, SessionStates
  <2>5. b \in Tasks /\ b.pc = "call" /\ b.what = w /\ b.s = s
    BY <2>2, Names, NewTask
  <2>6. k \in Tasks /\ k.pc = "call" /\ k.what = w /\ k.s = s
    BY <2>5 DEF Tasks
  <2> HIDE DEF y, k
  <2>7. SesStep /\ ses'[s] = y
    BY <2>1, <2>3, SesOne
  <2>8. w # "message"
    BY DEF OpKinds
  <2>9. TaskInv(t, k, moduleOwner', ses')
    BY <2>1, <2>4, <2>6, <2>7, <2>8 DEF TaskInv
  <2> QED
    BY <1>1, <2>1, <2>6, <2>7, <2>9, MovesOne
<1> QED
  BY <1>2, <1>3

\* A step that starts a task and leaves the sessions' owners and moduleMutex
\* alone: the task needs no mutex.
LEMMA StartsTask ==
    ASSUME IInv, SesStep, SameForOwner, UNCHANGED <<moduleOwner, halVars, fpVars>>,
           NEW t \in Threads, t # Watcher, NEW p \in {"wait", "callback", "stop", "detach"},
           NEW w \in OpKinds \cup {"rearm", "cancel", "death", "close", "query"},
           NEW s \in Sessions, NEW o \in 0..MaxOps, Goto(t, Task(p, w, s, o)),
           p = "stop" => w = "cancel"
    PROVE  Keeps
<1> DEFINE k == Task(p, w, s, o)
<1>1. k \in Tasks /\ k.pc = p /\ k.what = w /\ k.s = s
  <2>1. p \in Pcs /\ w \in EntryPoints
    BY Names
  <2> QED
    BY <2>1, NewTask
<1>2. w # "message"
  BY DEF OpKinds
<1> HIDE DEF k
<1>3. TaskInv(t, k, moduleOwner', ses')
  BY <1>1, <1>2 DEF TaskInv
<1>4. HalTypeOK' /\ JobInv' /\ FpTypeOK'
  BY RestSame
<1>5. Goto(t, k)
  BY DEF k
<1> QED
  BY <1>1, <1>3, <1>4, <1>5, MovesOne, Parts

\* One session evolves without being detached or given another request.
LEMMA SesOneSame ==
    ASSUME IInv, NEW s \in Sessions, NEW y, Evolves(s, ses[s], y), Update(s, y),
           y.mDetached = ses[s].mDetached, y.mOpKind = ses[s].mOpKind
    PROVE  SesStep /\ SameForOwner
  BY SesOne DEF SameForOwner

\* The framework's calls on a session.
LEMMA ClientCallKeeps ==
    ASSUME IInv, NEW t \in Binders, NEW s \in Sessions, ClientCall(t, s)
    PROVE  Keeps
<1>1. t \in Threads /\ t # Watcher
  BY SessionAssumption DEF Threads
<1>2. ses[s] \in SessionStates /\ SInv(s, ses[s]) /\ 0 \in 0..MaxOps
  BY Parts, Names
<1>3. UNCHANGED fpVars /\ ContextsOf(Displays) \subseteq Contexts
  BY FingerprintAssumption DEF ClientCall, Contexts, ContextsOf
<1>4. ASSUME NEW k \in Kinds \cap OpKinds,
             NEW ids \in IF k = "Remove" THEN RemovalLists ELSE {<<>>}, Request(t, s, k, ids)
      PROVE  Keeps
  <2>1. CASE k = "Remove"
    BY <1>1, <1>3, <1>4, <2>1, BeginKeeps, FingerprintAssumption DEF Request
  <2>2. CASE k # "Remove"
    <3>1. ids = <<>> /\ ids \in Seq(Fids \cup {0})
      BY <2>2
    <3> QED
      BY <1>1, <1>3, <1>4, <3>1, BeginKeeps DEF Request
  <2> QED
    BY <2>1, <2>2
<1>5. ASSUME NEW c \in ContextsOf(Displays), authenticateWithContext(t, s, c)
      PROVE  Keeps
  <2>1. Evolves(s, ses[s], updateContext(ses[s], c))
    BY <1>2, <1>3, UpdateEvolves DEF Evolves
  <2> DEFINE y == updateContext(ses[s], c)
  <2>2. y.mDetached = ses[s].mDetached /\ y.mOpKind = ses[s].mOpKind
    BY <1>2, ContextKeepsOwner
  <2>3. Update(s, y)
    BY <1>5 DEF authenticateWithContext
  <2> HIDE DEF y
  <2>4. SesStep /\ SameForOwner
    BY <2>1, <2>2, <2>3, SesOneSame DEF y
  <2>5. "Authenticate" \in OpKinds
    BY DEF OpKinds
  <2> QED
    BY <1>1, <1>2, <1>3, <1>5, <2>4, <2>5, StartsTask DEF authenticateWithContext
<1>6. ASSUME Query(t, s)
      PROVE  Keeps
  BY <1>1, <1>2, <1>3, <1>6, SesSame, StartsTask DEF Query
<1>7. ASSUME NEW o \in OpIds, cancel(t, s, o)
      PROVE  Keeps
  <2> DEFINE k == Task("call", "cancel", s, o)
  <2>1. o \in 0..MaxOps
    BY DEF OpIds
  <2>2. k \in Tasks /\ k.pc = "call" /\ k.what = "cancel" /\ k.s = s
    BY <2>1, Names, NewTask
  <2>3. /\ moduleOwner' = t /\ moduleOwner = NoThread /\ ~ses[s].mDetached /\ Goto(t, k)
        /\ UNCHANGED <<ses, halVars>>
    BY <1>7 DEF cancel, runningOp
  <2> HIDE DEF k
  <2>4. TaskInv(t, k, moduleOwner', ses')
    BY <1>1, <2>2, <2>3 DEF TaskInv, OpKinds
  <2> QED
    BY <1>1, <1>3, <2>2, <2>3, <2>4, MovesOne, SesSame, RestSame
<1>8. ASSUME NEW c \in ContextsOf(Displays), contextChanged(t, s, c)
      PROVE  Keeps
  <2> DEFINE y == onContextChanged(ses[s], c)
  <2>1. y.mDetached = ses[s].mDetached /\ y.mOpKind = ses[s].mOpKind
    BY <1>2, ContextKeepsOwner
  <2>2. Evolves(s, ses[s], y) /\ Update(s, y)
    BY <1>2, <1>3, <1>8, ContextEvolves DEF contextChanged
  <2> HIDE DEF y
  <2>3. SesStep /\ SameForOwner
    BY <2>1, <2>2, SesOneSame
  <2>4. ses[s].mOp \in 0..MaxOps
    BY <1>2 DEF SessionStates
  <2>5. CASE contextReleases(updateContext(ses[s], c))
    <3>1. Goto(t, Task("stop", "cancel", s, ses[s].mOp)) /\ UNCHANGED <<moduleOwner, halVars, fpVars>>
      BY <1>3, <1>8, <2>5 DEF contextChanged
    <3> QED
      BY <1>1, <2>3, <2>4, <3>1, StartsTask
  <2>6. CASE ~contextReleases(updateContext(ses[s], c))
    <3>1. UNCHANGED <<th, moduleOwner, halVars>>
      BY <1>8, <2>6 DEF contextChanged
    <3> QED
      BY <1>3, <2>3, <3>1, StepKeeps, RestSame, Parts
  <2> QED
    BY <2>5, <2>6
<1>9. ASSUME close(t, s)
      PROVE  Keeps
  BY <1>1, <1>2, <1>3, <1>9, SesSame, StartsTask DEF close
<1> QED
  BY <1>4, <1>5, <1>6, <1>7, <1>8, <1>9 DEF ClientCall

\* The death of a client.
LEMMA DeathKeeps ==
    ASSUME IInv, NEW s \in Sessions, onClientDied(s)
    PROVE  Keeps
<1> DEFINE k == Task("detach", "death", s, 0)
<1>1. Reaper \in Threads /\ Reaper # Watcher
  BY SessionAssumption DEF Threads
<1>2. k \in Tasks /\ k.pc = "detach" /\ k.what = "death" /\ k.s = s
  BY Names, NewTask
<1>3. UNCHANGED <<ses, moduleOwner, halVars>> /\ Goto(Reaper, k)
  BY DEF onClientDied
<1> HIDE DEF k
<1>4. TaskInv(Reaper, k, moduleOwner', ses')
  BY <1>1, <1>2 DEF TaskInv
<1>5. FpTypeOK'
  BY Parts DEF onClientDied, FpTypeOK
<1> QED
  BY <1>1, <1>2, <1>3, <1>4, <1>5, MovesOne, SesSame, RestSame, Parts

-----------------------------------------------------------------------------
(* Threads that wait for moduleMutex, and detachment.                        *)

\* An entry point is over.
LEMMA LeaveKeeps ==
    ASSUME IInv, SesStep, SameForOwner, UNCHANGED <<moduleOwner, halVars, dead>>,
           mSession' \in Sessions \cup {NoSession}, NEW t \in Threads, Leave(t)
    PROVE  Keeps
<1>1. th[t] \in Tasks /\ FpTypeOK
  BY Parts
<1>2. th[t].next \in Sessions \cup {NoSession}
  BY <1>1 DEF Tasks
<1>3. FpTypeOK'
  BY <1>1, <1>2 DEF Leave, FpTypeOK
<1> QED
  BY <1>3, MovesOne, RestSame, Parts, FreeTask, FreeInv DEF Leave

\* createSession replaces the session that messages are routed to.
LEMMA ExchangeKeeps ==
    ASSUME IInv, NEW t \in Threads, Exchange(t)
    PROVE  Keeps
<1>1. /\ th[t] \in Tasks /\ TaskInv(t, th[t], moduleOwner, ses) /\ FpTypeOK
      /\ th[t].pc = "exchange" /\ UNCHANGED <<halVars, ses, moduleOwner, dead>>
  BY Parts DEF Exchange, At
<1>2. mSession' \in Sessions
  BY <1>1 DEF TaskInv, Exchange
<1>3. SesStep /\ SameForOwner
  BY <1>1, SesSame
<1>4. CASE mSession = NoSession
  BY <1>1, <1>2, <1>3, <1>4, LeaveKeeps DEF Exchange
<1>5. CASE mSession # NoSession
  <2> DEFINE k == [th[t] EXCEPT !.pc = "detach", !.s = mSession]
  <2>1. mSession \in Sessions /\ "detach" \in Pcs
    BY <1>1, <1>5, Names DEF FpTypeOK
  <2>2. k \in Tasks /\ k.pc = "detach" /\ k.s = mSession /\ k.what = th[t].what
    BY <1>1, <2>1 DEF Tasks
  <2>3. Goto(t, k) /\ UNCHANGED opened
    BY <1>5 DEF Exchange
  <2> HIDE DEF k
  <2>4. TaskInv(t, k, moduleOwner', ses')
    BY <1>1, <2>1, <2>2 DEF TaskInv
  <2>5. FpTypeOK'
    BY <1>1, <1>2, <2>3 DEF FpTypeOK
  <2> QED
    BY <1>1, <1>3, <2>2, <2>3, <2>4, <2>5, MovesOne, RestSame, Parts
<1> QED
  BY <1>4, <1>5

\* detach() marks the session while moduleMutex is free; for a dead client it
\* keeps the mutex to cancel the running operation.
LEMMA DetachKeeps ==
    ASSUME IInv, NEW t \in Threads, detach(t)
    PROVE  Keeps
<1> DEFINE s == th[t].s
           kill == th[t].what = "death" /\ ~ses[s].mOpEnded
<1>1. /\ th[t] \in Tasks /\ TaskInv(t, th[t], moduleOwner, ses) /\ FpTypeOK
      /\ th[t].pc = "detach" /\ moduleOwner = NoThread /\ UNCHANGED <<halVars, mSession, dead>>
  BY Parts DEF detach, At
<1>2. s \in Sessions /\ t # Watcher /\ th[t].what # "message"
  BY <1>1 DEF TaskInv
<1>3. CASE ses[s].mDetached
  <2>1. Leave(t) /\ UNCHANGED <<ses, moduleOwner>>
    BY <1>3 DEF detach
  <2>2. mSession' \in Sessions \cup {NoSession}
    BY <1>1 DEF FpTypeOK
  <2> QED
    BY <1>1, <2>1, <2>2, LeaveKeeps, SesSame
<1>4. CASE ~ses[s].mDetached
  <2> DEFINE y == [ses[s] EXCEPT !.mDetached = TRUE]
             p == IF kill THEN "call" ELSE "ondetach"
             o == IF kill THEN ses[s].mOp ELSE 0
             k == [th[t] EXCEPT !.pc = p, !.op = o]
  <2>1. Update(s, y) /\ Goto(t, k) /\ moduleOwner' = (IF kill THEN t ELSE NoThread) /\ UNCHANGED opened
    BY <1>4 DEF detach
  <2>2. SesStep
    BY <1>2, <2>1, DetachEvolves, SesOne, Parts
  <2>3. p \in Pcs /\ o \in 0..MaxOps
    BY <1>2, Names, Parts DEF SessionStates
  <2>4. k \in Tasks /\ k.pc = p /\ k.s = s /\ k.what = th[t].what
    BY <1>1, <2>3 DEF Tasks
  <2>5. TaskInv(t, k, moduleOwner', ses')
    <3> HIDE DEF k, s
    <3>1. CASE kill
      BY <1>2, <2>1, <2>4, <3>1 DEF TaskInv, OpKinds
    <3>2. CASE ~kill
      BY <1>2, <2>4, <3>2 DEF TaskInv
    <3> QED
      BY <3>1, <3>2
  <2> HIDE DEF k
  <2>6. FpTypeOK'
    BY <1>1, <2>1 DEF FpTypeOK
  <2> QED
    BY <1>1, <2>1, <2>2, <2>4, <2>5, <2>6, MovesOne, RestSame
<1> QED
  BY <1>3, <1>4

\* onDetach clears the route if it still leads to the closed session.
LEMMA OnDetachKeeps ==
    ASSUME IInv, NEW t \in Threads, mOnDetach(t)
    PROVE  Keeps
<1>1. mSession' \in Sessions \cup {NoSession}
  BY Parts DEF mOnDetach, FpTypeOK
<1> QED
  BY <1>1, LeaveKeeps, SesSame DEF mOnDetach

\* A thread that waited goes into the module with moduleMutex, or gives up.
LEMMA EntersModule ==
    ASSUME IInv, UNCHANGED <<ses, halVars, fpVars>>, moduleOwner = NoThread,
           NEW t \in Threads, t # Watcher, th[t].s \in Sessions,
           th[t].what \notin OpKinds \cup {"message"},
           \/ Goto(t, Free) /\ UNCHANGED moduleOwner
           \/ /\ Goto(t, [th[t] EXCEPT !.pc = "call"]) /\ moduleOwner' = t
              /\ ~ses[th[t].s].mDetached
    PROVE  Keeps
<1>1. HalTypeOK' /\ JobInv' /\ FpTypeOK' /\ SesStep /\ SameForOwner
  BY RestSame, SesSame
<1>2. CASE Goto(t, Free) /\ UNCHANGED moduleOwner
  BY <1>1, <1>2, MovesOne, Parts, FreeTask, FreeInv
<1>3. CASE Goto(t, [th[t] EXCEPT !.pc = "call"]) /\ moduleOwner' = t /\ ~ses[th[t].s].mDetached
  <2> DEFINE k == [th[t] EXCEPT !.pc = "call"]
  <2>1. k \in Tasks /\ k.pc = "call" /\ k.what = th[t].what /\ k.s = th[t].s
    BY Parts, Names DEF Tasks
  <2> HIDE DEF k
  <2>2. TaskInv(t, k, moduleOwner', ses')
    BY <1>3, <2>1 DEF TaskInv
  <2>3. Goto(t, k)
    BY <1>3 DEF k
  <2> QED
    BY <1>1, <1>3, <2>1, <2>2, <2>3, MovesOne
<1> QED
  BY <1>2, <1>3

\* stopSensorAfter: nothing for a detached or busy session, else a cancel.
LEMMA StopKeeps ==
    ASSUME IInv, NEW t \in Threads, stopSensorAfter(t), UNCHANGED fpVars
    PROVE  Keeps
<1>1. th[t].pc = "stop" /\ TaskInv(t, th[t], moduleOwner, ses)
  BY Parts DEF stopSensorAfter, At
<1>2. th[t].s \in Sessions /\ t # Watcher /\ th[t].what = "cancel"
  BY <1>1 DEF TaskInv
<1>3. th[t].what \notin OpKinds \cup {"message"}
  BY <1>2 DEF OpKinds
<1> QED
  BY <1>2, <1>3, EntersModule DEF stopSensorAfter

\* rearm: nothing once the operation ended, else authenticate again.
LEMMA RearmKeeps ==
    ASSUME IInv, NEW t \in Threads, rearm(t), UNCHANGED fpVars
    PROVE  Keeps
<1>1. th[t].pc = "wait" /\ TaskInv(t, th[t], moduleOwner, ses) /\ th[t].what = "rearm"
  BY Parts DEF rearm, At
<1>2. th[t].s \in Sessions /\ t # Watcher
  BY <1>1 DEF TaskInv
<1>3. th[t].what \notin OpKinds \cup {"message"}
  BY <1>1 DEF OpKinds
<1> QED
  BY <1>2, <1>3, EntersModule DEF rearm, runningOp

\* A request that waited for moduleMutex begins its operation.
LEMMA WaitingBeginKeeps ==
    ASSUME IInv, NEW t \in Threads, WaitingBegin(t)
    PROVE  Keeps
<1>1. th[t].pc = "wait" /\ TaskInv(t, th[t], moduleOwner, ses)
  BY Parts DEF WaitingBegin, At
<1>2. th[t].s \in Sessions /\ t # Watcher
  BY <1>1 DEF TaskInv
<1>3. <<>> \in Seq(Fids \cup {0}) /\ "Authenticate" \in OpKinds
  BY DEF OpKinds
<1> QED
  BY <1>2, <1>3, BeginKeeps DEF WaitingBegin

\* The callback of a query, after moduleMutex was released.
LEMMA QueryCallbackKeeps ==
    ASSUME IInv, NEW t \in Threads, QueryCallback(t), UNCHANGED fpVars
    PROVE  Keeps
  BY MovesOne, SesSame, RestSame, Parts, FreeTask, FreeInv DEF QueryCallback

-----------------------------------------------------------------------------
(* Inside the module.                                                        *)

\* What holds of a thread that calls the module.
LEMMA InsideParts ==
    ASSUME IInv, NEW t \in Threads, At(t, "call") \/ At(t, "return")
    PROVE  /\ th[t] \in Tasks /\ t # Watcher /\ moduleOwner = t
           /\ th[t].s \in Sessions /\ th[t].op \in 0..MaxOps
           /\ th[t].what # "death" => ~ses[th[t].s].mDetached
           /\ th[t].what \in OpKinds => ses[th[t].s].mOpKind = th[t].what
           /\ th[t].what # "message"
           /\ <<th[t].s, th[t].op>> \in Origins
<1>1. th[t] \in Tasks /\ TaskInv(t, th[t], moduleOwner, ses)
  BY Parts
<1>2. /\ t # Watcher /\ moduleOwner = t /\ th[t].s \in Sessions
      /\ th[t].what # "death" => ~ses[th[t].s].mDetached
      /\ th[t].what \in OpKinds => ses[th[t].s].mOpKind = th[t].what
      /\ th[t].what # "message"
  BY <1>1 DEF TaskInv, At
<1>3. th[t].op \in 0..MaxOps
  BY <1>1 DEF Tasks
<1> QED
  BY <1>1, <1>2, <1>3, SMTT(30) DEF Origins

\* The thread stays inside the module: its call goes on, reports or returns.
LEMMA StaysInside ==
    ASSUME IInv, UNCHANGED <<ses, moduleOwner, fpVars>>, HalTypeOK', JobInv',
           NEW t \in Threads, At(t, "call"), NEW k \in Tasks, Goto(t, k),
           k.pc \in {"call", "report", "return"}, k.what = th[t].what, k.s = th[t].s,
           k.pc = "report" => Len(k.out) = 1
    PROVE  Keeps
<1>1. TaskInv(t, k, moduleOwner', ses')
  BY InsideParts DEF TaskInv
<1> QED
  BY <1>1, MovesOne, SesSame, RestSame, Parts

\* The module's answer to a call.
LEMMA AnswerKeeps ==
    ASSUME IInv, UNCHANGED <<ses, moduleOwner, fpVars>>, HalTypeOK', JobInv',
           NEW t \in Threads, At(t, "call"), NEW e \in BOOLEAN, NEW out,
           out = <<>> \/ \E m \in Messages : out = <<m>>, Answer(t, out, e)
    PROVE  Keeps
<1> DEFINE p == IF out = <<>> THEN "return" ELSE "report"
           k == [th[t] EXCEPT !.pc = p, !.out = out, !.err = e]
<1>1. out \in Seq(Messages) /\ (out # <<>> => Len(out) = 1) /\ p \in Pcs
  <2>1. CASE out = <<>>
    BY <2>1, Names
  <2>2. ASSUME NEW m \in Messages, out = <<m>>
        PROVE  out \in Seq(Messages) /\ Len(out) = 1
    BY <2>2
  <2>3. p \in Pcs
    BY Names
  <2> QED
    BY <2>1, <2>2, <2>3
<1>2. /\ k \in Tasks /\ k.pc = p /\ k.what = th[t].what /\ k.s = th[t].s /\ k.out = out
  <2>1. th[t] \in Tasks
    BY Parts
  <2> HIDE DEF p
  <2> QED
    BY <1>1, <2>1, ZenonT(40) DEF Tasks
<1>3. Goto(t, k)
  BY DEF Answer
<1> HIDE DEF k
<1> QED
  BY <1>1, <1>2, <1>3, StaysInside

\* Messages have their type.
LEMMA MessageTyped ==
    ASSUME NEW ty \in MessageTypes, NEW f \in Origins,
           NEW i \in Fids \cup {0}, NEW g \in Users \cup {0}, NEW n \in Nat
    PROVE  FingerMessage(ty, i, g, n, f) \in Messages /\ Message(ty, f) \in Messages
<1>1. FingerMessage(ty, i, g, n, f) \in Messages
  BY DEF FingerMessage, Messages
<1>2. Message(ty, f) \in Messages
  BY DEF Message, Messages
<1> QED
  BY <1>1, <1>2

\* A job that starts has its type.
LEMMA JobTyped ==
    ASSUME IInv, NEW w \in OpKinds, NEW s \in Sessions, NEW o \in Nat, UNCHANGED <<templates, group>>
    PROVE  /\ job' = Idle => HalTypeOK' /\ JobInv'
           /\ StartJob(w, s, o) => HalTypeOK' /\ JobInv'
           /\ UNCHANGED job => HalTypeOK' /\ JobInv'
<1>1. HalTypeOK /\ JobInv
  BY Parts
<1>2. Idle \in Jobs /\ Idle.kind = "None"
  BY DEF Idle, Jobs, Nobody, Origins
<1>3. <<s, o>> \in Origins /\ <<s, o>>[1] = s
  BY DEF Origins
<1>4. ASSUME StartJob(w, s, o)
      PROVE  job' \in Jobs /\ job'.kind = w /\ job'.from = <<s, o>>
             /\ (w = "Enroll" => job'.left # 0)
  <2> DEFINE d == IF w = "Enumerate" /\ group # 0 THEN templates[group] ELSE {}
             l == IF w = "Enroll" THEN EnrollSteps ELSE 0
  <2>1. d \in SUBSET Fids
    BY <1>1 DEF HalTypeOK
  <2>2. l \in Nat /\ (w = "Enroll" => l # 0)
    BY HalAssumption
  <2>3. job' = [kind |-> w, from |-> <<s, o>>, todo |-> d, left |-> l]
    BY <1>4 DEF StartJob
  <2> HIDE DEF d, l
  <2> QED
    BY <1>3, <2>1, <2>2, <2>3 DEF Jobs
<1>5. job' = Idle => HalTypeOK' /\ JobInv'
  BY <1>1, <1>2 DEF HalTypeOK, JobInv
<1>6. StartJob(w, s, o) => HalTypeOK' /\ JobInv'
  BY <1>1, <1>3, <1>4 DEF HalTypeOK, JobInv
<1>7. UNCHANGED job => HalTypeOK' /\ JobInv'
  BY <1>1 DEF HalTypeOK, JobInv
<1> QED
  BY <1>5, <1>6, <1>7

\* The messages that a refused call sends.
LEMMA RefusalTyped ==
    ASSUME NEW s \in Sessions, NEW o \in 0..MaxOps, NEW r \in Refusals(s, o)
    PROVE  r.err \in BOOLEAN /\ (r.out = <<>> \/ \E m \in Messages : r.out = <<m>>)
<1>1. <<s, o>> \in Origins
  BY DEF Origins
<1>2. Message("ERROR", <<s, o>>) \in Messages
  BY <1>1 DEF Message, Messages, MessageTypes
<1>3. CASE r = [out |-> <<>>, err |-> TRUE]
  BY <1>3
<1>4. CASE \E e \in BOOLEAN : r = [out |-> <<Message("ERROR", <<s, o>>)>>, err |-> e]
  BY <1>2, <1>4
<1> QED
  BY <1>3, <1>4 DEF Refusals

\* The module starts enroll, authenticate or another job, or refuses.
LEMMA CallStartKeeps ==
    ASSUME IInv, NEW t \in Threads, CallStart(t), UNCHANGED fpVars
    PROVE  Keeps
<1> DEFINE s == th[t].s
           w == IF th[t].what = "rearm" THEN "Authenticate" ELSE th[t].what
           o == IF w = "Authenticate" THEN ses[s].mAuthOperationId ELSE th[t].op
<1>1. /\ At(t, "call") /\ th[t].what \in StartedKinds \cup {"rearm"}
      /\ UNCHANGED <<ses, moduleOwner, templates, group, fpVars>>
  BY DEF CallStart
<1>2. s \in Sessions /\ th[t].op \in 0..MaxOps /\ <<s, th[t].op>> \in Origins
  BY <1>1, InsideParts
<1>3. w \in OpKinds
  BY <1>1 DEF StartedKinds, OpKinds
<1>4. o \in Nat
  <2>1. ses[s] \in SessionStates
    BY <1>2, Parts
  <2>2. ses[s].mAuthOperationId \in 0..MaxOps
    BY <2>1 DEF SessionStates
  <2>3. 0..MaxOps \subseteq Nat
    BY SessionAssumption
  <2> QED
    BY <1>2, <2>2, <2>3
<1>5. \/ StartJob(w, s, o) /\ Answer(t, <<>>, FALSE)
      \/ \E r \in Refusals(s, th[t].op) : job' = Idle /\ Answer(t, r.out, r.err)
      \/ UNCHANGED job /\ Answer(t, <<Message("CLEARED", <<s, th[t].op>>)>>, FALSE)
  BY DEF CallStart
<1> HIDE DEF w, o
<1>6. CASE StartJob(w, s, o) /\ Answer(t, <<>>, FALSE)
  BY <1>1, <1>2, <1>3, <1>4, <1>6, JobTyped, AnswerKeeps
<1>7. CASE \E r \in Refusals(s, th[t].op) : job' = Idle /\ Answer(t, r.out, r.err)
  <2>1. PICK r \in Refusals(s, th[t].op) : job' = Idle /\ Answer(t, r.out, r.err)
    BY <1>7
  <2>2. r.err \in BOOLEAN /\ (r.out = <<>> \/ \E m \in Messages : r.out = <<m>>)
    BY <1>2, RefusalTyped
  <2> QED
    BY <1>1, <1>2, <1>3, <1>4, <2>1, <2>2, JobTyped, AnswerKeeps
<1>8. CASE UNCHANGED job /\ Answer(t, <<Message("CLEARED", <<s, th[t].op>>)>>, FALSE)
  <2>1. Message("CLEARED", <<s, th[t].op>>) \in Messages
    BY <1>2 DEF Message, Messages, MessageTypes
  <2> QED
    BY <1>1, <1>2, <1>3, <1>4, <1>8, <2>1, JobTyped, AnswerKeeps
<1> QED
  BY <1>5, <1>6, <1>7, <1>8

\* The module is asked for its authenticator id.
LEMMA CallInvalidateKeeps ==
    ASSUME IInv, NEW t \in Threads, CallInvalidate(t), UNCHANGED fpVars
    PROVE  Keeps
<1>1. At(t, "call") /\ UNCHANGED <<ses, moduleOwner, halVars, fpVars>>
  BY DEF CallInvalidate
<1>2. th[t].s \in Sessions /\ th[t].op \in 0..MaxOps
  BY <1>1, InsideParts
<1>3. PICK r \in Refusals(th[t].s, th[t].op) \cup {[out |-> <<>>, err |-> FALSE]} :
         Answer(t, r.out, r.err)
  BY DEF CallInvalidate
<1>4. r.err \in BOOLEAN /\ (r.out = <<>> \/ \E m \in Messages : r.out = <<m>>)
  <2>1. CASE r = [out |-> <<>>, err |-> FALSE]
    BY <2>1
  <2>2. CASE r \in Refusals(th[t].s, th[t].op)
    BY <1>2, <2>2, RefusalTyped
  <2> QED
    BY <2>1, <2>2
<1> QED
  BY <1>1, <1>3, <1>4, RestSame, AnswerKeeps

\* The module cancels what it runs, and may report that it did.
LEMMA CallCancelKeeps ==
    ASSUME IInv, NEW t \in Threads, CallCancel(t), UNCHANGED fpVars
    PROVE  Keeps
<1>1. At(t, "call") /\ UNCHANGED <<ses, moduleOwner, templates, group, fpVars>>
  BY DEF CallCancel
<1>2. th[t].s \in Sessions /\ <<th[t].s, th[t].op>> \in Origins
  BY <1>1, InsideParts
<1>3. PICK out \in {<<>>, <<Message("CANCELED", <<th[t].s, th[t].op>>)>>} :
         Cancel(out # <<>>) /\ Answer(t, out, FALSE)
  BY DEF CallCancel
<1>4. Message("CANCELED", <<th[t].s, th[t].op>>) \in Messages
  BY <1>2 DEF Message, Messages, MessageTypes
<1>5. job' = Idle \/ UNCHANGED job
  BY <1>3 DEF Cancel
<1>6. "Enroll" \in OpKinds /\ 0 \in Nat
  BY DEF OpKinds
<1>7. HalTypeOK' /\ JobInv'
  BY <1>1, <1>2, <1>5, <1>6, JobTyped
<1> QED
  BY <1>1, <1>3, <1>4, <1>7, AnswerKeeps

\* The module removes the next listed template.
LEMMA CallRemoveKeeps ==
    ASSUME IInv, NEW t \in Threads, CallRemove(t), UNCHANGED fpVars
    PROVE  Keeps
<1> DEFINE s == th[t].s
           left == [th[t] EXCEPT !.todo = Tail(@)]
           f == Head(th[t].todo)
<1>1. /\ At(t, "call") /\ UNCHANGED <<ses, moduleOwner, job, group, fpVars>>
  BY DEF CallRemove
<1>2. /\ th[t] \in Tasks /\ s \in Sessions /\ <<s, th[t].op>> \in Origins
      /\ th[t].pc = "call"
  BY <1>1, InsideParts DEF At
<1>3. HalTypeOK /\ JobInv /\ UserOf[s] \in Users
  BY <1>2, Parts, HalAssumption
<1>4. UNCHANGED templates => HalTypeOK' /\ JobInv'
  BY <1>1, <1>3 DEF HalTypeOK, JobInv
<1>5. CASE th[t].todo = <<>>
  BY <1>1, <1>4, <1>5, AnswerKeeps DEF CallRemove
<1>6. CASE th[t].todo # <<>>
  <2>1. th[t].todo \in Seq(Fids \cup {0}) /\ Tail(th[t].todo) \in Seq(Fids \cup {0})
        /\ f \in Fids \cup {0}
    <3>1. th[t].todo \in Seq(Fids \cup {0})
      BY <1>2 DEF Tasks
    <3> QED
      BY <1>6, <3>1
  <2>2. left \in Tasks /\ left.pc = "call" /\ left.what = th[t].what /\ left.s = s
        /\ left.gone = th[t].gone
    BY <1>2, <2>1 DEF Tasks
  <2>3. CASE Goto(t, left) /\ UNCHANGED templates
    BY <1>1, <1>4, <2>2, <2>3, StaysInside
  <2>4. CASE /\ f # 0 /\ RemoveTemplate(UserOf[s], f)
             /\ Goto(t, [left EXCEPT !.pc = "report", !.gone = @ \cup {f},
                                     !.out = <<RemovedMessage(s, th[t].op, f)>>])
    <3> DEFINE m == RemovedMessage(s, th[t].op, f)
               g == th[t].gone \cup {f}
               k == [left EXCEPT !.pc = "report", !.gone = g, !.out = <<m>>]
    <3>1. HalTypeOK' /\ JobInv'
      BY <1>1, <1>3, <2>4 DEF HalTypeOK, JobInv, RemoveTemplate
    <3>2. "REMOVED" \in MessageTypes /\ 0 \in Nat /\ UserOf[s] \in Users \cup {0}
      BY <1>3 DEF MessageTypes
    <3>3. m \in Messages
      BY <1>2, <2>1, <3>2, MessageTyped DEF RemovedMessage
    <3>4. g \in SUBSET Fids
      BY <1>2, <2>1, <2>4 DEF Tasks
    <3>5. Goto(t, k)
      BY <2>2, <2>4
    <3>6. <<m>> \in Seq(Messages) /\ Len(<<m>>) = 1 /\ "report" \in Pcs
      BY <3>3, Names
    <3> HIDE DEF m, g, left
    <3>7. k \in Tasks /\ k.pc = "report" /\ k.what = left.what /\ k.s = left.s /\ k.out = <<m>>
      BY <2>2, <3>4, <3>6 DEF Tasks
    <3> HIDE DEF k
    <3> QED
      BY <1>1, <2>2, <3>1, <3>5, <3>6, <3>7, StaysInside
  <2>5. CASE /\ UNCHANGED templates
             /\ Goto(t, [left EXCEPT !.pc = "report",
                                     !.out = <<Message("ERROR", <<s, th[t].op>>)>>])
    <3> DEFINE m == Message("ERROR", <<s, th[t].op>>)
               k == [left EXCEPT !.pc = "report", !.out = <<m>>]
    <3>1. m \in Messages
      BY <1>2 DEF Message, Messages, MessageTypes
    <3>2. <<m>> \in Seq(Messages) /\ Len(<<m>>) = 1 /\ "report" \in Pcs
      BY <3>1, Names
    <3>3. Goto(t, k)
      BY <2>5
    <3> HIDE DEF m, left
    <3>4. k \in Tasks /\ k.pc = "report" /\ k.what = left.what /\ k.s = left.s /\ k.out = <<m>>
      BY <2>2, <3>2 DEF Tasks
    <3> HIDE DEF k
    <3> QED
      BY <1>1, <1>4, <2>2, <2>5, <3>2, <3>3, <3>4, StaysInside
  <2> QED
    BY <1>6, <2>3, <2>4, <2>5 DEF CallRemove
<1> QED
  BY <1>5, <1>6

\* The call returns: its session is settled and moduleMutex released.
LEMMA ReturnKeeps ==
    ASSUME IInv, NEW t \in Threads, Return(t), UNCHANGED fpVars
    PROVE  Keeps
<1> DEFINE s == th[t].s
           y == Finish(ses[s], s, th[t].op, th[t].what, th[t].err)
           k == IF th[t].what = "death" THEN Task("ondetach", "death", s, 0) ELSE Free
<1>1. /\ At(t, "return") /\ Update(s, y) /\ Goto(t, k) /\ moduleOwner' = NoThread
      /\ UNCHANGED <<halVars, fpVars>>
  BY DEF Return
<1>2. /\ th[t] \in Tasks /\ s \in Sessions /\ th[t].op \in 0..MaxOps /\ moduleOwner = t /\ t # Watcher
      /\ th[t].what \in OpKinds => ses[s].mOpKind = th[t].what
  BY <1>1, InsideParts
<1>3. Evolves(s, ses[s], y)
  <2>1. th[t].err \in BOOLEAN
    BY <1>2 DEF Tasks
  <2> QED
    BY <1>2, <2>1, Parts, FinishEvolves
<1>4. k \in Tasks /\ TaskInv(t, k, moduleOwner', ses')
  <2>1. CASE th[t].what = "death"
    <3>1. "ondetach" \in Pcs /\ "death" \in EntryPoints /\ 0 \in 0..MaxOps
      BY Names
    <3>2. k \in Tasks /\ k.pc = "ondetach" /\ k.what = "death" /\ k.s = s
      BY <1>2, <2>1, <3>1, NewTask, SMTT(30)
    <3> HIDE DEF k
    <3> QED
      BY <1>2, <3>2 DEF TaskInv
  <2>2. CASE th[t].what # "death"
    BY <2>2, FreeTask, FreeInv
  <2> QED
    BY <2>1, <2>2
<1> HIDE DEF y, k
<1>5. SesStep
  BY <1>1, <1>2, <1>3, SesOne
<1> QED
  BY <1>1, <1>2, <1>4, <1>5, MovesOne, RestSame

-----------------------------------------------------------------------------
(* Reports.                                                                  *)

\* What the invariant needs of a report of the module's thread.
GoodReport(r) ==
    /\ r.msg \in Messages /\ r.job \in Jobs
    /\ r.job.kind = "Enroll" => r.job.left # 0 /\ r.job.from[1] \in Sessions

\* Reports without a template.
LEMMA ReportGood ==
    ASSUME NEW m \in Messages, NEW j \in Jobs,
           j.kind = "Enroll" => j.left # 0 /\ j.from[1] \in Sessions
    PROVE  GoodReport(Report(m, j))
  BY DEF GoodReport, Report

\* A message the module sends on its own is taken up by its watcher thread.
LEMMA AsyncGood ==
    ASSUME IInv, NEW r \in AsyncReports
    PROVE  GoodReport(r)
<1>1. /\ job \in Jobs /\ group \in Users \cup {0} /\ templates \in [Users -> SUBSET Fids]
      /\ job.kind = "Enroll" => job.left # 0 /\ job.from[1] \in Sessions
  BY Parts DEF HalTypeOK, JobInv
<1>2. job.from \in Origins /\ job.todo \subseteq Fids /\ job.left \in Nat /\ Nobody \in Origins
  BY <1>1 DEF Jobs, Nobody, Origins
<1>3. Idle \in Jobs /\ Idle.kind = "None"
  BY DEF Idle, Jobs, Nobody, Origins
<1>4. ASSUME NEW ty \in MessageTypes
      PROVE  /\ GoodReport(Report(Message(ty, job.from), job))
             /\ GoodReport(Report(Message(ty, job.from), Idle))
             /\ GoodReport(Report(Message(ty, Nobody), job))
  <2>1. Message(ty, job.from) \in Messages /\ Message(ty, Nobody) \in Messages
    BY <1>2 DEF Message, Messages
  <2> QED
    BY <1>1, <1>3, <2>1, ReportGood
<1>5. MessageTypes = {"ERROR", "CANCELED", "ACQUIRED", "ENROLLING", "REMOVED", "AUTHENTICATED",
                      "ENUMERATING", "LOCKOUT", "CLEARED", "INTERACTION"}
  BY DEF MessageTypes
<1>6. CASE r \in ScanReports
  <2> DEFINE Go(type) == Report(Message(type, job.from), job)
             Stop(type) == Report(Message(type, job.from), Idle)
  <2>1. ASSUME NEW f \in Fids, NEW u \in Users
        PROVE  GoodReport(Report(FingerMessage("AUTHENTICATED", f, u, 0, job.from), Idle))
    <3>1. FingerMessage("AUTHENTICATED", f, u, 0, job.from) \in Messages
      BY <1>2 DEF FingerMessage, Messages, MessageTypes
    <3> QED
      BY <1>3, <3>1, ReportGood
  <2>2. \/ r \in {Go("ACQUIRED"), Go("AUTHENTICATED")}
        \/ r \in {Stop("LOCKOUT"), Stop("ERROR"), Stop("INTERACTION")}
        \/ \E f \in Fids, u \in Users :
              r = Report(FingerMessage("AUTHENTICATED", f, u, 0, job.from), Idle)
    BY <1>6 DEF ScanReports
  <2>3. CASE r \in {Go("ACQUIRED"), Go("AUTHENTICATED")}
    BY <1>4, <1>5, <2>3
  <2>4. CASE r \in {Stop("LOCKOUT"), Stop("ERROR"), Stop("INTERACTION")}
    BY <1>4, <1>5, <2>4
  <2> QED
    BY <2>1, <2>2, <2>3, <2>4
<1>7. CASE r \in EnrollReports
  <2> DEFINE u == UserOf[job.from[1]]
             Sample(f) == FingerMessage("ENROLLING", f, u, job.left - 1, job.from)
             Last(f) == [msg |-> Sample(f), job |-> Idle, stored |-> {<<u, f>>}]
             More(f) == Report(Sample(f), [job EXCEPT !.left = @ - 1])
  <2>1. job.kind = "Enroll" /\ u \in Users /\ job.left - 1 \in Nat
    BY <1>1, <1>2, <1>7, HalAssumption DEF EnrollReports
  <2>2. PICK f \in Fids : r = IF job.left = 1 THEN Last(f) ELSE More(f)
    BY <1>7, <2>1 DEF EnrollReports
  <2>3. Sample(f) \in Messages
    BY <1>2, <2>1 DEF FingerMessage, Messages, MessageTypes
  <2> HIDE DEF Sample, u
  <2>4. CASE job.left = 1
    BY <1>3, <2>2, <2>3, <2>4 DEF GoodReport
  <2>5. CASE job.left # 1
    <3> DEFINE j == [job EXCEPT !.left = @ - 1]
    <3>1. j \in Jobs /\ j.left # 0 /\ j.from = job.from
      BY <1>1, <1>2, <2>1, <2>5 DEF Jobs
    <3> QED
      BY <1>1, <2>1, <2>2, <2>3, <2>5, <3>1, ReportGood
  <2> QED
    BY <2>4, <2>5
<1>8. CASE r \in EnumerateReports
  <2>1. CASE job.kind = "Enumerate" /\ job.todo = {}
    BY <1>4, <1>5, <1>8, <2>1 DEF EnumerateReports
  <2>2. CASE job.kind = "Enumerate" /\ job.todo # {}
    <3> DEFINE Rest(f) == IF job.todo = {f} THEN Idle ELSE [job EXCEPT !.todo = @ \ {f}]
               Found(f) == FingerMessage("ENUMERATING", f, group, IF job.todo = {f} THEN 0 ELSE 1,
                                         job.from)
    <3>1. PICK f \in job.todo : r = Report(Found(f), Rest(f))
      BY <1>8, <2>2 DEF EnumerateReports
    <3>2. Found(f) \in Messages
      BY <1>1, <1>2 DEF FingerMessage, Messages, MessageTypes
    <3>3. Rest(f) \in Jobs /\ Rest(f).kind # "Enroll"
      BY <1>1, <1>2, <1>3, <2>2 DEF Jobs
    <3> HIDE DEF Found, Rest
    <3> QED
      BY <3>1, <3>2, <3>3, ReportGood
  <2> QED
    BY <1>8, <2>1, <2>2 DEF EnumerateReports
<1>9. CASE r \in ClearedReports
  <2>1. \/ r = Report(Message("CLEARED", Nobody), job)
        \/ r = Report(Message("CLEARED", job.from), Idle)
    BY <1>9 DEF ClearedReports
  <2> QED
    BY <1>4, <1>5, <2>1
<1> QED
  BY <1>6, <1>7, <1>8, <1>9 DEF AsyncReports

\* The module's watcher thread reports what its job allows.
LEMMA ModuleNotifyKeeps ==
    ASSUME IInv, ModuleNotify
    PROVE  Keeps
<1>1. PICK r \in AsyncReports :
         /\ ModuleReports(r)
         /\ Goto(Watcher, [Task("report", "message", NoSession, 0) EXCEPT !.out = <<r.msg>>])
  BY DEF ModuleNotify
<1>2. GoodReport(r)
  BY AsyncGood
<1>3. UNCHANGED <<ses, moduleOwner, fpVars>> /\ Watcher \in Threads
  BY DEF ModuleNotify, Threads
<1>4. HalTypeOK' /\ JobInv'
  <2>1. job' = r.job /\ group' = group
        /\ templates' = [u \in Users |-> templates[u] \cup {f \in Fids : <<u, f>> \in r.stored}]
    BY <1>1 DEF ModuleReports
  <2>2. templates' \in [Users -> SUBSET Fids]
    BY <2>1, Parts DEF HalTypeOK
  <2> QED
    BY <1>2, <2>1, <2>2, Parts DEF HalTypeOK, JobInv, GoodReport
<1> DEFINE b == Task("report", "message", NoSession, 0)
           k == [b EXCEPT !.out = <<r.msg>>]
<1>5. b \in Tasks /\ b.pc = "report" /\ b.what = "message"
  <2>1. "report" \in Pcs /\ "message" \in EntryPoints /\ 0 \in 0..MaxOps
        /\ NoSession \in Sessions \cup {NoSession}
    BY Names
  <2> QED
    BY <2>1, NewTask
<1>6. <<r.msg>> \in Seq(Messages) /\ Len(<<r.msg>>) = 1
  BY <1>2 DEF GoodReport
<1>7. k \in Tasks /\ k.pc = "report" /\ k.what = "message" /\ k.out = <<r.msg>>
  BY <1>5, <1>6 DEF Tasks
<1>8. Goto(Watcher, k)
  BY <1>1
<1> HIDE DEF k
<1>9. TaskInv(Watcher, k, moduleOwner', ses')
  BY <1>6, <1>7 DEF TaskInv
<1> QED
  BY <1>3, <1>4, <1>7, <1>8, <1>9, MovesOne, SesSame, RestSame, Parts

\* notify returns: to the module's thread, or into the call the module reports from.
LEMMA NotifiedGood ==
    ASSUME IInv, SameForOwner, UNCHANGED moduleOwner,
           NEW t \in Threads, At(t, "report") \/ At(t, "deliver")
    PROVE  Notified(t) \in Tasks /\ TaskInv(t, Notified(t), moduleOwner', ses')
<1>1. th[t] \in Tasks /\ TaskInv(t, th[t], moduleOwner, ses)
  BY Parts
<1>2. CASE th[t].what = "message"
  BY <1>2, FreeTask, FreeInv DEF Notified
<1>3. ASSUME NEW p \in {"call", "return"}, th[t].what # "message",
             Notified(t) = [th[t] EXCEPT !.pc = p, !.out = <<>>, !.to = NoSession]
      PROVE  Notified(t) \in Tasks /\ TaskInv(t, Notified(t), moduleOwner', ses')
  <2> DEFINE k == Notified(t)
  <2>1. /\ t # Watcher /\ moduleOwner = t /\ th[t].s \in Sessions
        /\ th[t].what # "death" => ~ses[th[t].s].mDetached
        /\ th[t].what \in OpKinds => ses[th[t].s].mOpKind = th[t].what
    BY <1>1, <1>3 DEF TaskInv, At
  <2>2. <<>> \in Seq(Messages) /\ p \in Pcs
    BY Names
  <2>3. k \in Tasks /\ k.pc = p /\ k.what = th[t].what /\ k.s = th[t].s
    BY <1>1, <1>3, <2>2 DEF Tasks
  <2> HIDE DEF k
  <2>4. TaskInv(t, k, moduleOwner', ses')
    BY <1>3, <2>1, <2>3 DEF TaskInv, SameForOwner
  <2> QED
    BY <2>3, <2>4 DEF k
<1>4. CASE th[t].what = "Remove"
  BY <1>3, <1>4 DEF Notified
<1>5. CASE th[t].what \notin {"message", "Remove"}
  BY <1>3, <1>5 DEF Notified
<1> QED
  BY <1>2, <1>4, <1>5

\* notify copies the session pointer under mSessionMutex.
LEMMA NotifyReadKeeps ==
    ASSUME IInv, NEW t \in Threads, NotifyRead(t)
    PROVE  Keeps
<1>1. th[t].pc = "report" /\ UNCHANGED <<halVars, ses, moduleOwner, fpVars>>
  BY DEF NotifyRead, At
<1>2. SesStep /\ SameForOwner /\ HalTypeOK' /\ JobInv' /\ FpTypeOK'
  BY <1>1, SesSame, RestSame
<1>3. CASE mSession = NoSession
  <2>1. Goto(t, Notified(t)) /\ At(t, "report")
    BY <1>3 DEF NotifyRead
  <2> QED
    BY <1>1, <1>2, <2>1, NotifiedGood, MovesOne, Parts
<1>4. CASE mSession # NoSession
  <2> DEFINE k == [th[t] EXCEPT !.pc = "deliver", !.to = mSession]
  <2>1. mSession \in Sessions /\ "deliver" \in Pcs /\ th[t] \in Tasks
        /\ TaskInv(t, th[t], moduleOwner, ses)
    BY <1>4, Parts, Names DEF FpTypeOK
  <2>2. k \in Tasks /\ k.pc = "deliver" /\ k.to = mSession /\ k.what = th[t].what /\ k.s = th[t].s
        /\ k.out = th[t].out
    BY <2>1 DEF Tasks
  <2>3. Goto(t, k)
    BY <1>4 DEF NotifyRead
  <2> HIDE DEF k
  <2>4. TaskInv(t, k, moduleOwner', ses')
    BY <1>1, <2>1, <2>2 DEF TaskInv
  <2> QED
    BY <1>1, <1>2, <2>2, <2>3, <2>4, MovesOne, Parts
<1> QED
  BY <1>3, <1>4

\* onMessage at the session that notify read, and the re-arm thread it may start.
LEMMA NotifyDeliverKeeps ==
    ASSUME IInv, NEW t \in Threads, NotifyDeliver(t)
    PROVE  Keeps
<1> DEFINE s == th[t].to
           m == Head(th[t].out)
           y == onMessage(ses[s], UserOf[s], m)
           n == Notified(t)
<1>1. /\ th[t].pc = "deliver" /\ UNCHANGED <<halVars, moduleOwner, fpVars>>
      /\ Receive(s, m, [th EXCEPT ![t] = n])
  BY DEF NotifyDeliver, At
<1>2. th[t] \in Tasks /\ TaskInv(t, th[t], moduleOwner, ses) /\ th \in [Threads -> Tasks]
  BY Parts
<1>3. s \in Sessions /\ m \in Messages
  <2>1. s \in Sessions /\ Len(th[t].out) = 1
    BY <1>1, <1>2 DEF TaskInv
  <2>2. th[t].out \in Seq(Messages)
    BY <1>2 DEF Tasks
  <2> QED
    BY <2>1, <2>2
<1>4. Evolves(s, ses[s], y) /\ y.mDetached = ses[s].mDetached /\ y.mOpKind = ses[s].mOpKind
  <2>1. ses[s] \in SessionStates /\ SInv(s, ses[s])
    BY <1>3, Parts
  <2> HIDE DEF s, m
  <2>2. Evolves(s, ses[s], y)
    BY <1>3, <2>1, MessageEvolves
  <2>3. y.mDetached = ses[s].mDetached /\ y.mOpKind = ses[s].mOpKind
    BY <1>3, <2>1, MessageKeepsOwner, SMTT(30)
  <2> QED
    BY <2>2, <2>3
<1>5. Update(s, y)
  BY <1>1 DEF Receive
<1> HIDE DEF y
<1>6. SesStep /\ SameForOwner
  BY <1>3, <1>4, <1>5, SesOneSame
<1>7. n \in Tasks /\ TaskInv(t, n, moduleOwner', ses')
  BY <1>1, <1>6, NotifiedGood DEF At
<1>8. HalTypeOK' /\ JobInv' /\ FpTypeOK'
  BY <1>1, RestSame
<1> HIDE DEF n
<1>9. CASE th' = [th EXCEPT ![t] = n]
  BY <1>1, <1>6, <1>7, <1>8, <1>9, MovesOne, Parts DEF Goto
<1>10. CASE \E r \in Rearmers :
              /\ At(r, "idle")
              /\ th' = [[th EXCEPT ![t] = n] EXCEPT ![r] = Task("wait", "rearm", s, ses[s].mOp)]
  <2>1. PICK r \in Rearmers :
              /\ At(r, "idle")
              /\ th' = [[th EXCEPT ![t] = n] EXCEPT ![r] = Task("wait", "rearm", s, ses[s].mOp)]
    BY <1>10
  <2> DEFINE k == Task("wait", "rearm", s, ses[s].mOp)
  <2>2. r \in Threads /\ r # Watcher /\ r # t
    BY <1>1, <2>1, SessionAssumption DEF Threads, At
  <2>3. k \in Tasks /\ k.pc = "wait" /\ k.what = "rearm" /\ k.s = s
    <3>1. "wait" \in Pcs /\ "rearm" \in EntryPoints
      BY Names
    <3>2. ses[s].mOp \in 0..MaxOps
      BY <1>3, Parts DEF SessionStates
    <3>3. s \in Sessions \cup {NoSession}
      BY <1>3
    <3> HIDE DEF s
    <3> QED
      BY <3>1, <3>2, <3>3, NewTask
  <2> HIDE DEF k
  <2>4. TaskInv(r, k, moduleOwner', ses')
    BY <1>3, <2>2, <2>3 DEF TaskInv
  <2>5. /\ th' \in [Threads -> Tasks] /\ th'[t] = n /\ th'[r] = k
        /\ \A u \in Threads : u # t /\ u # r => th'[u] = th[u]
    BY <1>2, <1>7, <2>1, <2>2, <2>3 DEF k
  <2> QED
    BY <1>1, <1>6, <1>7, <1>8, <2>4, <2>5, StepKeeps, Parts
<1> QED
  BY <1>1, <1>9, <1>10 DEF Receive

\* Time passes for held matches.
LEMMA TickKeeps ==
    ASSUME IInv, Tick, UNCHANGED fpVars
    PROVE  Keeps
<1> DEFINE Ages(s) == ses[s].mHeld.gid # 0 /\ ses[s].mHeld.age <= HeldMatchWindow
<1>1. \A s \in Sessions :
         ses'[s] = IF Ages(s) THEN [ses[s] EXCEPT !.mHeld.age = @ + 1] ELSE ses[s]
  BY DEF Tick
<1>2. ASSUME NEW s \in Sessions
      PROVE  Evolves(s, ses[s], ses'[s]) /\ Untouched(ses[s], ses'[s])
  <2>1. ses[s] \in SessionStates /\ SInv(s, ses[s])
    BY Parts
  <2>2. CASE Ages(s)
    <3>1. Untouched(ses[s], [ses[s] EXCEPT !.mHeld.age = @ + 1])
      BY <2>1 DEF Untouched, SessionStates
    <3> QED
      BY <1>1, <2>1, <2>2, <3>1, TickEvolves
  <2>3. CASE ~Ages(s)
    BY <1>1, <2>1, <2>3, SameEvolves DEF Untouched
  <2> QED
    BY <2>2, <2>3
<1>3. ses' \in [Sessions -> SessionStates]
  BY <1>2 DEF Tick, Evolves
<1>4. SesStep /\ SameForOwner
  BY <1>2, <1>3 DEF SesStep, SameForOwner, Untouched
<1> QED
  BY <1>4, StepKeeps, RestSame, Parts DEF Tick

-----------------------------------------------------------------------------
(* Theorems.                                                                 *)

\* The invariant holds when the service starts.
LEMMA InitKeeps == Init => IInv
<1> SUFFICES ASSUME Init PROVE IInv
  OBVIOUS
<1>1. HalTypeOK /\ JobInv
  BY HalAssumption DEF Init, HalInit, HalTypeOK, JobInv, Idle, Jobs, Nobody, Origins
<1>2. NewSession \in SessionStates
  <2>1. NoMatch \in Matches
    BY SessionAssumption DEF NoMatch, Matches, Nobody, Origins
  <2>2. <<>> \in Seq(Fids) /\ <<>> \in Seq(Results) /\ 0 \in 0..MaxOps
    BY SessionAssumption
  <2>3. [o \in OpIds |-> <<>>] \in [OpIds -> Seq(Results)] /\ "UNKNOWN" \in DisplayStates
    BY <2>2 DEF DisplayStates
  <2> QED
    BY <2>1, <2>2, <2>3 DEF NewSession, SessionStates
<1>3. ASSUME NEW s \in Sessions
      PROVE  SInv(s, NewSession)
  <2> DEFINE x == NewSession
  <2>1. x.mOp = 0 /\ x.mNextOp = 0 /\ x.mOpEnded /\ x.mHeld.gid = 0
    BY DEF NewSession, NoMatch
  <2>2. \A o \in OpIds : x.results[o] = <<>>
    BY DEF NewSession
  <2>3. Len(<<>>) = 0 /\ DOMAIN <<>> = {}
    OBVIOUS
  <2> HIDE DEF x
  <2>4. SInv(s, x)
    BY <2>1, <2>2, <2>3 DEF SInv
  <2> QED
    BY <2>4 DEF x
<1>4. TypeOK
  BY <1>1, <1>2, FreeTask DEF Init, TypeOK, SessionInit, SessionTypeOK
<1> QED
  BY <1>1, <1>3, <1>4, FreeInv DEF Init, SessionInit, IInv

\* Every step keeps the invariant.
LEMMA NextKeeps == IInv /\ [Next]_vars => Keeps
<1> SUFFICES ASSUME IInv, [Next]_vars PROVE Keeps
  OBVIOUS
<1>1. CASE UNCHANGED vars
  <2>1. UNCHANGED <<halVars, ses, th, moduleOwner, fpVars>>
    BY <1>1 DEF vars, sessionVars
  <2> QED
    BY <2>1, StepKeeps, SesSame, RestSame, Parts
<1>2. ASSUME NEW t \in Threads, ThreadStep(t)
      PROVE  Keeps
  <2>1. CASE Exchange(t) \/ detach(t) \/ mOnDetach(t)
    BY <2>1, ExchangeKeeps, DetachKeeps, OnDetachKeeps
  <2>2. CASE NotifyRead(t) \/ NotifyDeliver(t) \/ WaitingBegin(t)
    BY <2>2, NotifyReadKeeps, NotifyDeliverKeeps, WaitingBeginKeeps
  <2>3. CASE (CallStart(t) \/ CallInvalidate(t) \/ CallRemove(t) \/ CallCancel(t) \/ Return(t))
             /\ UNCHANGED fpVars
    BY <2>3, CallStartKeeps, CallInvalidateKeeps, CallRemoveKeeps, CallCancelKeeps, ReturnKeeps
  <2>4. CASE (QueryCallback(t) \/ stopSensorAfter(t) \/ rearm(t)) /\ UNCHANGED fpVars
    BY <2>4, QueryCallbackKeeps, StopKeeps, RearmKeeps
  <2> QED
    BY <1>2, <2>1, <2>2, <2>3, <2>4 DEF ThreadStep
<1>3. CASE \E t \in Binders, s \in Sessions : createSession(t, s) \/ ClientCall(t, s)
  BY <1>3, CreateKeeps, ClientCallKeeps
<1>4. CASE \E s \in Sessions : onClientDied(s)
  BY <1>4, DeathKeeps
<1>5. CASE ModuleNotify
  BY <1>5, ModuleNotifyKeeps
<1>6. CASE Tick /\ UNCHANGED fpVars
  BY <1>6, TickKeeps
<1> QED
  BY <1>1, <1>2, <1>3, <1>4, <1>5, <1>6 DEF Next

\* The inductive invariant holds in every behaviour of the service.
THEOREM Invariance == Spec => []IInv
<1>1. IInv /\ [Next]_vars => IInv'
  BY NextKeeps DEF Keeps
<1> QED
  BY <1>1, InitKeeps, PTL DEF Spec

\* Every variable keeps its type: the ids of operations stay within the bound,
\* threads and module messages are well formed, and moduleMutex has one owner.
THEOREM TypeCorrect == Spec => []TypeOK
<1>1. IInv => TypeOK
  BY DEF IInv
<1> QED
  BY <1>1, Invariance, PTL

\* An operation ends at most once, whatever the interleaving of module messages,
\* failed calls, re-arms and context updates (endOperationLocked).
THEOREM OneResultHolds == Spec => []OneResult
<1>1. IInv => OneResult
  BY DEF IInv, SInv, OneResult
<1> QED
  BY <1>1, Invariance, PTL

\* moduleMutex serialises the calls into the module.
THEOREM ModuleSerialisedHolds == Spec => []ModuleSerialised
<1>1. IInv => ModuleSerialised
  BY Parts DEF ModuleSerialised
<1> QED
  BY <1>1, Invariance, PTL

\* The module is never called for a detached session, except to cancel the
\* operation of a client that died.
THEOREM DetachedHolds == Spec => []DetachedNeverReachesModule
<1>1. IInv => DetachedNeverReachesModule
  BY DEF IInv, TaskInv, DetachedNeverReachesModule, At
<1> QED
  BY <1>1, Invariance, PTL

\* Every success is of the session's own user, and no match was held longer than
\* kHeldMatchWindow.
THEOREM SuccessHolds == Spec => []SuccessIsEarned
<1>1. IInv => SuccessIsEarned
  <2> SUFFICES ASSUME IInv, NEW s \in Sessions, NEW o \in OpIds, NEW r \in Given(s, o),
                      r.name = "Succeeded"
               PROVE  r.gid = UserOf[s] /\ r.age <= HeldMatchWindow
    BY DEF SuccessIsEarned
  <2>1. PICK i \in DOMAIN ses[s].results[o] : r = ses[s].results[o][i]
    BY DEF Given
  <2>2. SInv(s, ses[s])
    BY Parts
  <2> QED
    BY <2>1, <2>2 DEF SInv
<1> QED
  BY <1>1, Invariance, PTL

-----------------------------------------------------------------------------
(* The contract.                                                             *)

\* A session's results as the contract sees them.
NamesOf(x) == [o \in OpIds |-> [i \in DOMAIN x.results[o] |-> x.results[o][i].name]]

\* A result added to an operation adds its name.
LEMMA NamesOfEnd ==
    ASSUME NEW x, NEW y, NEW o \in OpIds, NEW r,
           y.results[o] = <<r>>, \A p \in OpIds : p # o => y.results[p] = x.results[p]
    PROVE  NamesOf(y) = [NamesOf(x) EXCEPT ![o] = <<r.name>>]
<1>1. [i \in DOMAIN <<r>> |-> <<r>>[i].name] = <<r.name>>
  <2>1. DOMAIN <<r>> = {1} /\ DOMAIN <<r.name>> = {1} /\ <<r>>[1] = r /\ <<r.name>>[1] = r.name
    OBVIOUS
  <2> QED
    BY <2>1
<1>2. NamesOf(y)[o] = <<r.name>>
  BY <1>1 DEF NamesOf
<1>3. \A p \in OpIds : p # o => NamesOf(y)[p] = NamesOf(x)[p]
  BY DEF NamesOf
<1> QED
  BY <1>2, <1>3 DEF NamesOf

\* A session that evolves takes a step of the contract, or none.
LEMMA EvolvesContract ==
    ASSUME IInv, NEW s \in Sessions, Evolves(s, ses[s], ses'[s]), ses' = [ses EXCEPT ![s] = ses'[s]]
    PROVE  Contract!Next \/ UNCHANGED Contract!contractVars
<1> DEFINE x == ses[s]
           y == ses'[s]
<1>1. x \in SessionStates /\ y \in SessionStates /\ SInv(s, x)
  BY Parts DEF Evolves
<1>2. \A z \in Sessions : z # s => ses'[z] = ses[z]
  BY Parts
<1>3. /\ [z \in Sessions |-> ses'[z].mNextOp]
            = [[z \in Sessions |-> ses[z].mNextOp] EXCEPT ![s] = y.mNextOp]
      /\ [z \in Sessions |-> ses'[z].mOpKind]
            = [[z \in Sessions |-> ses[z].mOpKind] EXCEPT ![s] = y.mOpKind]
      /\ [z \in Sessions |-> ses'[z].mOpEnded]
            = [[z \in Sessions |-> ses[z].mOpEnded] EXCEPT ![s] = y.mOpEnded]
      /\ [z \in Sessions |-> ses'[z].mDetached]
            = [[z \in Sessions |-> ses[z].mDetached] EXCEPT ![s] = y.mDetached]
  BY <1>2
<1>4. /\ y.mNextOp = x.mNextOp
            => [z \in Sessions |-> ses'[z].mNextOp] = [z \in Sessions |-> ses[z].mNextOp]
      /\ y.mOpKind = x.mOpKind
            => [z \in Sessions |-> ses'[z].mOpKind] = [z \in Sessions |-> ses[z].mOpKind]
      /\ y.mOpEnded = x.mOpEnded
            => [z \in Sessions |-> ses'[z].mOpEnded] = [z \in Sessions |-> ses[z].mOpEnded]
      /\ y.mDetached = x.mDetached
            => [z \in Sessions |-> ses'[z].mDetached] = [z \in Sessions |-> ses[z].mDetached]
  BY <1>2
<1>5. y.results = x.results
         => [z \in Sessions |-> NamesOf(ses'[z])] = [z \in Sessions |-> NamesOf(ses[z])]
  <2>1. y.results = x.results => NamesOf(y) = NamesOf(x)
    BY DEF NamesOf
  <2> QED
    BY <1>2, <2>1
<1>6. CASE Untouched(x, y)
  <2>1. \A z \in Sessions : Untouched(ses[z], ses'[z])
    BY <1>2, <1>6 DEF Untouched
  <2> QED
    BY <2>1 DEF Untouched, Contract!contractVars
<1>7. CASE Begins(x, y)
  <2>1. Contract!Start(s)
    BY <1>3, <1>4, <1>5, <1>7 DEF Begins, Contract!Start, NamesOf
  <2> QED
    BY <2>1 DEF Contract!Next
<1>8. CASE Ends(x, y)
  <2>1. PICK r \in Results : /\ r.name \in Contract!Terminal(x.mOpKind)
                             /\ y.results = [x.results EXCEPT ![x.mNextOp] = <<r>>]
    BY <1>8 DEF Ends
  <2>2. x.mNextOp \in OpIds
    BY <1>1, <1>8 DEF SInv, Ends
  <2>3. NamesOf(y) = [NamesOf(x) EXCEPT ![x.mNextOp] = <<r.name>>]
    <3>1. x.results \in [OpIds -> Seq(Results)]
      BY <1>1 DEF SessionStates
    <3>2. /\ y.results[x.mNextOp] = <<r>>
          /\ \A p \in OpIds : p # x.mNextOp => y.results[p] = x.results[p]
      BY <2>1, <2>2, <3>1
    <3> DEFINE o == x.mNextOp
    <3>3. o \in OpIds /\ y.results[o] = <<r>>
          /\ \A p \in OpIds : p # o => y.results[p] = x.results[p]
      BY <2>2, <3>2
    <3> HIDE DEF x, y, o
    <3>4. NamesOf(y) = [NamesOf(x) EXCEPT ![o] = <<r.name>>]
      BY <3>3, NamesOfEnd, SMTT(30)
    <3> QED
      BY <3>4 DEF o
  <2>4. [z \in Sessions |-> NamesOf(ses'[z])]
           = [[z \in Sessions |-> NamesOf(ses[z])] EXCEPT ![s][x.mNextOp] = <<r.name>>]
    <3> DEFINE F == [z \in Sessions |-> NamesOf(ses[z])]
               G == [z \in Sessions |-> NamesOf(ses'[z])]
    <3>1. F[s] = NamesOf(x) /\ G[s] = NamesOf(y) /\ \A z \in Sessions : z # s => G[z] = F[z]
      BY <1>2
    <3>2. G = [F EXCEPT ![s] = NamesOf(y)]
      BY <3>1
    <3> HIDE DEF F, G
    <3>3. G = [F EXCEPT ![s][x.mNextOp] = <<r.name>>]
      BY <2>3, <3>1, <3>2
    <3> QED
      BY <3>3 DEF F, G
  <2>5. Contract!End(s)
    BY <1>3, <1>4, <1>8, <2>1, <2>4 DEF Ends, Contract!End, NamesOf
  <2> QED
    BY <2>5 DEF Contract!Next
<1>9. CASE Detaches(x, y)
  <2>1. Contract!Detach(s)
    BY <1>3, <1>4, <1>5, <1>9 DEF Detaches, Contract!Detach, NamesOf
  <2> QED
    BY <2>1 DEF Contract!Next
<1> QED
  BY <1>6, <1>7, <1>8, <1>9 DEF Evolves

\* The service implements the contract of the class comment in Session.h: every
\* step of a thread, of the module or of a client starts, ends or detaches at
\* most one operation or session, and only as the contract allows.
THEOREM ContractHolds == Spec => KeepsContract
<1>1. Init => Contract!Init
  BY SMTT(30) DEF Init, SessionInit, NewSession, Contract!Init
<1>2. IInv /\ [Next]_vars => [Contract!Next]_(Contract!contractVars)
  <2> SUFFICES ASSUME IInv, [Next]_vars
               PROVE  Contract!Next \/ UNCHANGED Contract!contractVars
    OBVIOUS
  <2>1. SesStep
    BY NextKeeps DEF Keeps
  <2>2. CASE \E s \in Sessions : Evolves(s, ses[s], ses'[s]) /\ ses' = [ses EXCEPT ![s] = ses'[s]]
    BY <2>2, EvolvesContract
  <2>3. CASE \A s \in Sessions : Untouched(ses[s], ses'[s])
    BY <2>3 DEF Untouched, Contract!contractVars
  <2> QED
    BY <2>1, <2>2, <2>3 DEF SesStep
<1> QED
  BY <1>1, <1>2, Invariance, PTL DEF Spec, KeepsContract, Contract!Spec
=============================================================================
