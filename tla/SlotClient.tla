----------------------------- MODULE SlotClient -----------------------------
(* SlotClient.java with ParameterBudget.java: one slot's client of the radio  *)
(* daemon. Threads: the slot's handler thread (w), the main thread that       *)
(* enables and disables the slot (main), the binder threads that run the     *)
(* daemon's oneway calls (caller) and its death notices (notice), and the     *)
(* monitor's thread, which posts every change of the status. The daemon,     *)
(* servicemanager and AudioFlinger are external.                             *)
EXTENDS StatusSource, StatusRelay, Sequences, FiniteSetsExt

CONSTANTS
    Scenarios,         \* bounds: how often, together, the slot is enabled or disabled,
                       \* the daemon starts, calls, and the audioserver's status changes,
                       \* and how many Request objects are in use at the same time
    MAX_REQUESTS       \* ParameterBudget.MAX_REQUESTS

ASSUME SlotAssumption ==
    /\ IsFiniteSet(Scenarios)
    /\ Scenarios \subseteq [activations : Nat, daemons : Nat, tokens : Nat, changes : Nat,
                     objects : Nat]
    /\ MAX_REQUESTS \in Nat \ {0}

VARIABLES
    enabled, activation, request,     \* volatile; request is 0 for null
    reqs,         \* the Request objects
    relay,
    binder,       \* the daemon whose binder, service and death are set, 0 for null
    listening,    \* the slot is one of AudioServerMonitor.listeners
    queue,        \* the handler's messages that are due, in order
    timers,       \* its messages that are not due yet
    w,            \* the slot's thread
    main,         \* the main thread
    caller,       \* the binder thread in each Request
    notice,       \* the death notice for each Request
    daemon, daemons,      \* the daemon that runs (0 if none), how many there were
    holds,        \* the Request that the daemon calls
    sent,         \* its calls of each Request that are on their way
    tokens,       \* how many calls there were
    heard,        \* history: the last setError received for each Request
    owed,         \* history: Requests whose daemon has not heard of a death
    last,         \* history: the last call whose parameters AudioFlinger was given
    asked,        \* history: the calls made on each Request
    replies       \* history: how often each call was answered

slotVars == <<enabled, activation, request, reqs, relay, binder, listening, queue, timers>>
daemonVars == <<daemon, daemons, holds, sent, tokens>>
historyVars == <<heard, owed, last, asked, replies>>
vars == <<sourceVars, slotVars, w, main, caller, notice, daemonVars, historyVars>>

Activations == 0..Max({s.activations : s \in Scenarios})
Daemons == 0..Max({s.daemons : s \in Scenarios})
Objects == 1..Max({s.objects : s \in Scenarios})
Tokens == 1..Max({s.tokens : s \in Scenarios})
Whats == {"on", "off", "reconnect", "resend", "lost", "status", "param", "query"}
Calls == [token : Tokens, what : {"param", "query"}, fits : BOOLEAN]

NoRequest == [incarnation |-> 0, b |-> 0, valid |-> FALSE, response |-> FALSE, requests |-> 0,
              closed |-> FALSE]

NoRelay == [NewRelay("GENERIC_FAILURE", 0) EXCEPT !.status = "NONE"]    \* null

Message(what) == [what |-> what, r |-> 0, token |-> 0, status |-> "NONE", sequence |-> 0]
Reconnect == Message("reconnect")
Resend(r) == [Message("resend") EXCEPT !.r = r]
Lost(r) == [Message("lost") EXCEPT !.r = r]
StatusUpdate(s, n) == [Message("status") EXCEPT !.status = s, !.sequence = n]
Work(r, c) == [Message(c.what) EXCEPT !.r = r, !.token = c.token]

Idle == [pc |-> "idle", r |-> 0, b |-> 0, incarnation |-> 0, token |-> 0, out |-> "NONE",
         sequence |-> 0]
Free == [pc |-> "idle", token |-> 0]

Messages ==
    [what : Whats, r : Objects \cup {0}, token : Tokens \cup {0},
     status : AudioErrors \cup {"NONE"}, sequence : Nat]

TypeOK ==
    /\ SourceTypeOK
    /\ enabled \in BOOLEAN /\ activation \in Activations
    /\ request \in Objects \cup {0} /\ holds \in Objects \cup {0}
    /\ reqs \in [Objects -> [incarnation : Activations, b : Daemons, valid : BOOLEAN,
                             response : BOOLEAN, requests : 0..MAX_REQUESTS, closed : BOOLEAN]]
    /\ relay \in Relays \cup {NoRelay} /\ binder \in Daemons /\ listening \in BOOLEAN
    /\ queue \in Seq(Messages) /\ timers \subseteq Messages
    /\ w \in [pc : {"idle", "listen", "postNow", "postLater", "lookup", "link", "linked",
                    "register", "returning", "accept", "setError", "apply", "failed", "slept",
                    "respond"},
              r : Objects \cup {0}, b : Daemons, incarnation : Activations,
              token : Tokens \cup {0}, out : AudioErrors \cup {"NONE"}, sequence : Nat]
    /\ main \in {"idle", "enable", "disable", "invalidate", "remove", "postOn", "postOff"}
    /\ caller \in [Objects -> [pc : {"idle", "rejected", "reply"}, token : Tokens \cup {0}]]
    /\ notice \in [Objects -> {"none", "linked", "post"}]
    /\ daemon \in Daemons /\ daemons \in Daemons
    /\ sent \in [Objects -> Seq(Calls)] /\ tokens \in Tokens \cup {0}
    /\ heard \in [Objects -> AudioErrors \cup {"NONE"}] /\ owed \subseteq Objects
    /\ last \in Tokens \cup {0} /\ asked \in [Objects -> SUBSET Tokens] /\ replies \in [Tokens -> Nat]

Init ==
    /\ SourceInit
    /\ enabled = FALSE /\ activation = 0 /\ request = 0
    /\ reqs = [r \in Objects |-> NoRequest]
    /\ relay = NoRelay /\ binder = 0 /\ listening = FALSE
    /\ queue = <<>> /\ timers = {} /\ w = Idle /\ main = "idle"
    /\ caller = [r \in Objects |-> Free] /\ notice = [r \in Objects |-> "none"]
    /\ daemon \in {0, 1} /\ daemons = daemon /\ holds = 0
    /\ sent = [r \in Objects |-> <<>>] /\ tokens = 0
    /\ heard = [r \in Objects |-> "NONE"] /\ owed = {}
    /\ last = 0 /\ asked = [r \in Objects |-> {}] /\ replies = [t \in Tokens |-> 0]

\* An object that nothing refers to.
Unused(r) ==
    /\ r # request /\ holds # r /\ notice[r] = "none" /\ caller[r] = Free /\ sent[r] = <<>>
    /\ \A m \in timers \cup {queue[i] : i \in DOMAIN queue} : m.r # r

\* There is room for one more of these, and for the Request r, in a scenario.
Room(a, d, t, c, r) ==
    \E s \in Scenarios :
        /\ activation + a <= s.activations /\ daemons + d <= s.daemons
        /\ tokens + t <= s.tokens /\ sequence + c <= s.changes
        /\ \A q \in Objects : q <= s.objects \/ (Unused(q) /\ q # r)

-----------------------------------------------------------------------------
(* Request objects.                                                          *)

active(i) == enabled /\ activation = i

current(r) == reqs[r].valid /\ active(reqs[r].incarnation) /\ request = r

\* removeCallbacksAndMessages(r): the work and the retries of r.
BelongsTo(m, r) == m.what \in {"param", "query", "resend"} /\ m.r = r

\* invalidate() of r, if there is one: what becomes of the objects, the queue
\* and the timers.
Invalidated(r) ==
    IF r = 0 THEN reqs
    ELSE [reqs EXCEPT ![r].valid = FALSE, ![r].closed = TRUE, ![r].requests = 0]
Purged(q, r) == SelectSeq(q, LAMBDA m : ~BelongsTo(m, r))
PurgedTimers(r) == {m \in timers : ~BelongsTo(m, r)}

\* ParameterBudget.acquire. Its bound on characters follows from that on calls.
acquirable(r) == ~reqs[r].closed /\ reqs[r].requests < MAX_REQUESTS

\* Reservation.close.
release(r) == [reqs EXCEPT ![r].requests = IF reqs[r].closed THEN @ ELSE @ - 1]

-----------------------------------------------------------------------------
(* The slot's thread: what its steps have in common.                         *)

Dequeued == Tail(queue)
Next1(what) == w.pc = "idle" /\ queue # <<>> /\ Head(queue).what = what

WithoutReconnect(q) == SelectSeq(q, LAMBDA m : m # Reconnect)

\* scheduleReconnect: the post follows the check of enabled.
scheduleReconnect(q, ts, how) ==
    /\ queue' = WithoutReconnect(q) /\ timers' = ts \ {Reconnect}
    /\ w' = IF enabled THEN [Idle EXCEPT !.pc = how] ELSE Idle

PostReconnect ==
    /\ w.pc \in {"postNow", "postLater"} /\ w' = Idle
    /\ queue' = IF w.pc = "postNow" THEN Append(queue, Reconnect) ELSE queue
    /\ timers' = IF w.pc = "postLater" THEN timers \cup {Reconnect} ELSE timers
    /\ UNCHANGED <<sourceVars, enabled, activation, request, reqs, relay, binder, listening,
                   main, caller, notice, daemonVars, historyVars>>

\* clear(), but for the queue and the timers, which its callers set.
clear ==
    /\ reqs' = Invalidated(request) /\ request' = 0 /\ binder' = 0
    /\ relay' = onUnregistered(relay)
    /\ notice' = [r \in Objects |-> IF r = request /\ notice[r] = "linked" THEN "none"
                                                                          ELSE notice[r]]

ClearAndReconnect(q, how) == clear /\ scheduleReconnect(Purged(q, request), PurgedTimers(request), how)

\* send(status), up to the first setError.
send(x, q, s) ==
    /\ relay' = x
    /\ IF s = "NONE" \/ binder = 0 \/ request = 0 \/ (request # 0 /\ ~current(request))
       THEN w' = Idle /\ queue' = q /\ UNCHANGED timers
       ELSE /\ w' = [Idle EXCEPT !.pc = "setError", !.r = request, !.out = s]
            /\ queue' = SelectSeq(q, LAMBDA m : m # Resend(request))
            /\ timers' = timers \ {Resend(request)}

-----------------------------------------------------------------------------
(* Enabling and disabling.                                                   *)

\* setEnabled on the main thread, one volatile write or one lock at a time.
SetEnabled ==
    /\ \/ /\ main = "idle" /\ Room(1, 0, 0, 0, 0)
          /\ activation' = activation + 1
          /\ main' = IF enabled THEN "disable" ELSE "enable"
          /\ UNCHANGED <<enabled, reqs, listening, queue, timers>>
       \/ /\ main = "enable" /\ main' = "postOn" /\ enabled' = TRUE
          /\ UNCHANGED <<activation, reqs, listening, queue, timers>>
       \/ /\ main = "disable" /\ main' = "invalidate" /\ enabled' = FALSE
          /\ UNCHANGED <<activation, reqs, listening, queue, timers>>
       \/ /\ main = "invalidate" /\ main' = "remove"
          /\ reqs' = Invalidated(request)
          /\ queue' = Purged(queue, request) /\ timers' = PurgedTimers(request)
          /\ UNCHANGED <<enabled, activation, listening>>
       \/ /\ main = "remove" /\ main' = "postOff" /\ listening' = FALSE
          /\ queue' = WithoutReconnect(queue) /\ timers' = timers \ {Reconnect}
          /\ UNCHANGED <<enabled, activation, reqs>>
       \/ /\ main \in {"postOn", "postOff"} /\ main' = "idle"
          /\ queue' = Append(queue, Message(IF main = "postOn" THEN "on" ELSE "off"))
          /\ UNCHANGED <<enabled, activation, reqs, listening, timers>>
    /\ UNCHANGED <<sourceVars, request, relay, binder, w, caller, notice, daemonVars, historyVars>>

\* The posted half of setEnabled(false).
RunOff ==
    /\ Next1("off")
    /\ listening' = FALSE /\ clear /\ w' = Idle
    /\ queue' = Purged(Dequeued, request) /\ timers' = PurgedTimers(request)
    /\ UNCHANGED <<sourceVars, enabled, activation, main, caller, daemonVars, historyVars>>

\* The posted half of setEnabled(true): listen, then look again.
RunOn ==
    /\ Next1("on") /\ queue' = Dequeued
    /\ listening' = (enabled \/ listening)
    /\ w' = IF enabled THEN [Idle EXCEPT !.pc = "listen", !.out = status, !.sequence = sequence]
                       ELSE Idle
    /\ UNCHANGED <<sourceVars, enabled, activation, request, reqs, relay, binder, timers, main,
                   caller, notice, daemonVars, historyVars>>

Listen ==
    /\ w.pc = "listen"
    /\ IF enabled
       THEN /\ relay' = NewRelay(w.out, w.sequence)
            /\ scheduleReconnect(queue, timers, "postNow") /\ UNCHANGED listening
       ELSE w' = Idle /\ listening' = FALSE /\ UNCHANGED <<relay, queue, timers>>
    /\ UNCHANGED <<sourceVars, enabled, activation, request, reqs, binder, main, caller, notice,
                   daemonVars, historyVars>>

-----------------------------------------------------------------------------
(* connect(). services.declared(instance) is taken to be true.               *)

RunReconnect ==
    /\ Next1("reconnect") /\ queue' = Dequeued
    /\ w' = IF enabled /\ ~(binder # 0 /\ request # 0 /\ current(request))
            THEN [Idle EXCEPT !.pc = "lookup", !.incarnation = activation]
            ELSE Idle
    /\ UNCHANGED <<sourceVars, enabled, activation, request, reqs, relay, binder, listening, timers,
                   main, caller, notice, daemonVars, historyVars>>

\* checkService returns nothing, the daemon, or for a while the one that died.
LookupNone ==
    /\ w.pc = "lookup" /\ daemon = 0
    /\ IF active(w.incarnation)
       THEN scheduleReconnect(queue, timers, "postLater")
       ELSE w' = Idle /\ UNCHANGED <<queue, timers>>
    /\ UNCHANGED <<sourceVars, enabled, activation, request, reqs, relay, binder, listening, main,
                   caller, notice, daemonVars, historyVars>>

LookupFound ==
    /\ w.pc = "lookup" /\ daemons # 0
    /\ IF ~active(w.incarnation)
       THEN w' = Idle /\ UNCHANGED <<request, reqs, heard, owed, asked>>
       ELSE \E r \in Objects :
              /\ Unused(r) /\ (\A q \in Objects : Unused(q) => r <= q) /\ Room(0, 0, 0, 0, r)
              /\ reqs' = [reqs EXCEPT ![r] = [NoRequest EXCEPT !.incarnation = w.incarnation,
                                                              !.b = daemons, !.valid = TRUE]]
              /\ request' = r
              /\ w' = [w EXCEPT !.pc = "link", !.r = r, !.b = daemons]
              /\ heard' = [heard EXCEPT ![r] = "NONE"] /\ owed' = owed \ {r}
              /\ asked' = [asked EXCEPT ![r] = {}]
    /\ UNCHANGED <<sourceVars, enabled, activation, relay, binder, listening, queue, timers, main,
                   caller, notice, daemonVars, last, replies>>

\* linkToDeath fails for a dead daemon.
Link ==
    /\ w.pc = "link"
    /\ IF w.b = daemon
       THEN /\ notice' = [notice EXCEPT ![w.r] = "linked"] /\ binder' = w.b
            /\ w' = [w EXCEPT !.pc = "linked"]
            /\ UNCHANGED <<request, reqs, queue, timers>>
       ELSE /\ reqs' = Invalidated(w.r) /\ request' = 0
            /\ scheduleReconnect(Purged(queue, w.r), PurgedTimers(w.r), "postLater")
            /\ UNCHANGED <<notice, binder>>
    /\ UNCHANGED <<sourceVars, enabled, activation, relay, listening, main, caller, daemonVars,
                   historyVars>>

Linked ==
    /\ w.pc = "linked"
    /\ IF current(w.r)
       THEN /\ w' = [w EXCEPT !.pc = "register"]
            /\ UNCHANGED <<reqs, request, binder, relay, notice, queue, timers>>
       ELSE ClearAndReconnect(queue, "postNow")
    /\ UNCHANGED <<sourceVars, enabled, activation, listening, main, caller, daemonVars,
                   historyVars>>

\* setRequestInterface reaches the daemon, which may call the Request at once.
Register ==
    /\ w.pc = "register" /\ w.b = daemon
    /\ holds' = w.r /\ w' = [w EXCEPT !.pc = "returning"]
    /\ UNCHANGED <<sourceVars, slotVars, main, caller, notice, daemon, daemons, sent, tokens,
                   historyVars>>

\* It does not, or returns null, or throws.
RegistrationFails ==
    /\ w.pc = "returning" \/ (w.pc = "register" /\ w.b # daemon)
    /\ ClearAndReconnect(queue, "postLater")
    /\ UNCHANGED <<sourceVars, enabled, activation, listening, main, caller, daemonVars,
                   historyVars>>

publishResponse ==
    /\ w.pc = "returning"
    /\ reqs' = [reqs EXCEPT ![w.r].response = current(w.r)]
    /\ w' = [w EXCEPT !.pc = "accept"]
    /\ UNCHANGED <<sourceVars, enabled, activation, request, relay, binder, listening, queue,
                   timers, main, caller, notice, daemonVars, historyVars>>

Accept ==
    /\ w.pc = "accept"
    /\ IF current(w.r)
       THEN LET x == onRegistered(onAudioStatus(relay, status, sequence)) IN
            send(x, queue, pending(x)) /\ UNCHANGED <<reqs, request, binder, notice>>
       ELSE ClearAndReconnect(queue, "postLater")
    /\ UNCHANGED <<sourceVars, enabled, activation, listening, main, caller, daemonVars,
                   historyVars>>

Connect ==
    \/ RunReconnect \/ LookupNone \/ LookupFound \/ Link \/ Linked \/ Register
    \/ RegistrationFails \/ publishResponse \/ Accept

\* Mutant: the registration is cleared, and not made again.
RunLostOnly ==
    /\ Next1("lost") /\ w' = Idle
    /\ queue' = Purged(Dequeued, request) /\ timers' = PurgedTimers(request)
    /\ clear
    /\ UNCHANGED <<sourceVars, enabled, activation, listening, main, caller, daemonVars,
                   historyVars>>

\* lost(b, owner).
RunLost ==
    /\ Next1("lost")
    /\ LET r == Head(queue).r IN
       IF r = request /\ reqs[r].b = binder
       THEN ClearAndReconnect(Dequeued, "postNow")
       ELSE w' = Idle /\ queue' = Dequeued /\ UNCHANGED <<reqs, request, binder, relay, notice, timers>>
    /\ UNCHANGED <<sourceVars, enabled, activation, listening, main, caller, daemonVars,
                   historyVars>>

-----------------------------------------------------------------------------
(* Reports.                                                                  *)

\* onAudioServerStatus, posted by the monitor with its lock held. A daemon that
\* was told STATUS_OK has to hear of the death.
Publish ==
    /\ Room(0, 0, 0, 1, 0) /\ (Back \/ Died)
    /\ queue' = IF listening THEN Append(queue, StatusUpdate(status', sequence')) ELSE queue
    /\ owed' = IF status = "STATUS_OK" THEN owed \cup {r \in Objects : heard[r] = "STATUS_OK"} ELSE owed
    /\ UNCHANGED <<enabled, activation, request, reqs, relay, binder, listening, timers, w, main,
                   caller, notice, daemonVars, heard, last, asked, replies>>

CloseWindow ==
    /\ Closed
    /\ UNCHANGED <<slotVars, w, main, caller, notice, daemonVars, historyVars>>

RunStatus ==
    /\ Next1("status")
    /\ LET m == Head(queue)
           x == onAudioStatus(relay, m.status, m.sequence) IN
       IF enabled /\ relay # NoRelay
       THEN send(x, Dequeued, IF x = relay THEN "NONE" ELSE pending(x))
       ELSE w' = Idle /\ queue' = Dequeued /\ UNCHANGED <<relay, timers>>
    /\ UNCHANGED <<sourceVars, enabled, activation, request, reqs, binder, listening, main, caller,
                   notice, daemonVars, historyVars>>

RunResend ==
    /\ Next1("resend") /\ send(relay, Dequeued, pending(relay))
    /\ UNCHANGED <<sourceVars, enabled, activation, request, reqs, binder, listening, main, caller,
                   notice, daemonVars, historyVars>>

\* setError is received, and the next status follows.
SetError ==
    /\ w.pc = "setError" /\ daemon = binder
    /\ relay' = onSent(relay, w.out)
    /\ w' = IF pending(relay') = "NONE" THEN Idle ELSE [w EXCEPT !.out = pending(relay')]
    /\ heard' = [heard EXCEPT ![w.r] = w.out]
    /\ owed' = IF w.out = "STATUS_OK" THEN owed ELSE owed \ {w.r}
    /\ UNCHANGED <<sourceVars, enabled, activation, request, reqs, binder, listening, queue, timers,
                   main, caller, notice, daemonVars, last, asked, replies>>

\* Mutant: a status that did not get through is left at that.
SetErrorGivenUp ==
    /\ w.pc = "setError" /\ w' = Idle
    /\ relay' = onSendFailed(relay, w.out)
    /\ UNCHANGED <<sourceVars, enabled, activation, request, reqs, binder, listening, queue, timers,
                   main, caller, notice, daemonVars, historyVars>>

\* The daemon is dead, or its binder buffer is full.
SetErrorFails ==
    /\ w.pc = "setError" /\ w' = Idle
    /\ relay' = onSendFailed(relay, w.out)
    /\ timers' = timers \cup {Resend(w.r)}
    /\ UNCHANGED <<sourceVars, enabled, activation, request, reqs, binder, listening, queue, main,
                   caller, notice, daemonVars, historyVars>>

-----------------------------------------------------------------------------
(* Parameters.                                                               *)

\* setParameters and queryParameters of the slot's thread, up to AudioFlinger.
RunWork ==
    /\ Next1("param") \/ Next1("query")
    /\ queue' = Dequeued
    /\ LET m == Head(queue) IN
       IF ~current(m.r)
       THEN w' = Idle /\ reqs' = release(m.r)
       ELSE /\ w' = [Idle EXCEPT !.r = m.r, !.token = m.token,
                         !.pc = IF m.what = "param" /\ status = "STATUS_OK" THEN "apply" ELSE "respond"]
            /\ UNCHANGED reqs
    /\ UNCHANGED <<sourceVars, enabled, activation, request, relay, binder, listening, timers, main,
                   caller, notice, daemonVars, historyVars>>

\* Recovery.retry: AudioSystem.setParameters, which may succeed, ...
Apply ==
    /\ w.pc = "apply"
    /\ \/ /\ current(w.r) /\ last' = w.token
          /\ w' \in {[w EXCEPT !.pc = "respond"], [w EXCEPT !.pc = "failed"]}
       \/ ~current(w.r) /\ UNCHANGED last /\ w' = [w EXCEPT !.pc = "failed"]
    /\ UNCHANGED <<sourceVars, slotVars, main, caller, notice, daemonVars, heard, owed, asked, replies>>

\* ... and the checks before and after the sleep.
Retry ==
    /\ w.pc \in {"failed", "slept"}
    /\ LET allowed == current(w.r) /\ status = "STATUS_OK" /\ recovering IN
       w' = [w EXCEPT !.pc = IF w.pc = "failed" THEN (IF allowed THEN "slept" ELSE "respond")
                                                ELSE (IF allowed THEN "apply" ELSE "failed")]
    /\ UNCHANGED <<sourceVars, slotVars, main, caller, notice, daemonVars, historyVars>>

\* An answer to call t of Request r, if its daemon still runs.
Answered(r, t) == [replies EXCEPT ![t] = IF reqs[r].b = daemon THEN @ + 1 ELSE @]

\* Mutant: no answer while audioserver is down.
RespondIfRunning ==
    /\ w.pc = "respond" /\ w' = Idle /\ reqs' = release(w.r)
    /\ replies' = IF current(w.r) /\ status = "STATUS_OK" THEN Answered(w.r, w.token) ELSE replies
    /\ UNCHANGED <<sourceVars, enabled, activation, request, relay, binder, listening, queue, timers,
                   main, caller, notice, daemonVars, heard, owed, last, asked>>

Respond ==
    /\ w.pc = "respond" /\ w' = Idle /\ reqs' = release(w.r)
    /\ replies' = IF current(w.r) /\ reqs[w.r].response THEN Answered(w.r, w.token) ELSE replies
    /\ UNCHANGED <<sourceVars, enabled, activation, request, relay, binder, listening, queue, timers,
                   main, caller, notice, daemonVars, heard, owed, last, asked>>

\* Mutant: postAtFrontOfQueue.
EnqueueInFront(r) ==
    /\ caller[r].pc = "idle" /\ sent[r] # <<>> /\ current(r) /\ acquirable(r)
    /\ sent' = [sent EXCEPT ![r] = Tail(@)]
    /\ queue' = <<Work(r, Head(sent[r]))>> \o queue
    /\ reqs' = [reqs EXCEPT ![r].requests = @ + 1]
    /\ UNCHANGED <<sourceVars, enabled, activation, request, relay, binder, listening, timers, w,
                   main, caller, notice, daemon, daemons, holds, tokens, historyVars>>

\* Request.setParameters or queryParameters on a binder thread: enqueue.
Enqueue(r) ==
    /\ caller[r].pc = "idle" /\ sent[r] # <<>>
    /\ sent' = [sent EXCEPT ![r] = Tail(@)]
    /\ LET c == Head(sent[r]) IN
       IF ~current(r) THEN UNCHANGED <<caller, queue, reqs>>
       ELSE IF c.fits /\ acquirable(r)
       THEN /\ queue' = Append(queue, Work(r, c))
            /\ reqs' = [reqs EXCEPT ![r].requests = @ + 1] /\ UNCHANGED caller
       ELSE /\ caller' = [caller EXCEPT ![r] = [pc |-> "rejected", token |-> c.token]]
            /\ UNCHANGED <<queue, reqs>>
    /\ UNCHANGED <<sourceVars, enabled, activation, request, relay, binder, listening, timers, w,
                   main, notice, daemon, daemons, holds, tokens, historyVars>>

\* rejected(): without a reply endpoint the registration is revoked.
Rejected(r) ==
    /\ caller[r].pc = "rejected"
    /\ IF current(r) /\ ~reqs[r].response
       THEN /\ reqs' = Invalidated(r) /\ queue' = Purged(queue, r) /\ timers' = PurgedTimers(r)
       ELSE UNCHANGED <<reqs, queue, timers>>
    /\ caller' = [caller EXCEPT ![r] = IF current(r) /\ reqs[r].response
                                       THEN [@ EXCEPT !.pc = "reply"] ELSE Free]
    /\ UNCHANGED <<sourceVars, enabled, activation, request, relay, binder, listening, w, main,
                   notice, daemonVars, historyVars>>

Reply(r) ==
    /\ caller[r].pc = "reply" /\ caller' = [caller EXCEPT ![r] = Free]
    /\ replies' = Answered(r, caller[r].token)
    /\ UNCHANGED <<sourceVars, slotVars, w, main, notice, daemonVars, heard, owed, last, asked>>

-----------------------------------------------------------------------------
(* The daemon, its death notices, and time.                                  *)

Daemon ==
    /\ \/ /\ daemon = 0 /\ Room(0, 1, 0, 0, 0)
          /\ daemon' = daemons + 1 /\ daemons' = daemons + 1
          /\ UNCHANGED <<holds, sent, tokens, asked>>
       \/ /\ daemon # 0 /\ daemon' = 0 /\ holds' = 0
          /\ UNCHANGED <<daemons, sent, tokens, asked>>
       \/ /\ holds # 0 /\ Room(0, 0, 1, 0, 0) /\ tokens' = tokens + 1
          /\ \E what \in {"param", "query"}, fits \in BOOLEAN :
                sent' = [sent EXCEPT ![holds] =
                           Append(@, [token |-> tokens + 1, what |-> what, fits |-> fits])]
          /\ asked' = [asked EXCEPT ![holds] = @ \cup {tokens + 1}]
          /\ UNCHANGED <<daemon, daemons, holds>>
    /\ UNCHANGED <<sourceVars, slotVars, w, main, caller, notice, heard, owed, last, replies>>

\* The death recipient: invalidate, then post.
DeathNotice(r) ==
    /\ notice[r] = "linked" /\ reqs[r].b # daemon
    /\ notice' = [notice EXCEPT ![r] = "post"]
    /\ reqs' = Invalidated(r) /\ queue' = Purged(queue, r) /\ timers' = PurgedTimers(r)
    /\ UNCHANGED <<sourceVars, enabled, activation, request, relay, binder, listening, w, main,
                   caller, daemonVars, historyVars>>

PostLost(r) ==
    /\ notice[r] = "post" /\ notice' = [notice EXCEPT ![r] = "none"]
    /\ queue' = Append(queue, Lost(r))
    /\ UNCHANGED <<sourceVars, enabled, activation, request, reqs, relay, binder, listening, timers,
                   w, main, caller, daemonVars, historyVars>>

\* A delayed message is due, and goes behind those that were due before it.
Due ==
    /\ \E m \in timers : timers' = timers \ {m} /\ queue' = Append(queue, m)
    /\ UNCHANGED <<sourceVars, enabled, activation, request, reqs, relay, binder, listening, w,
                   main, caller, notice, daemonVars, historyVars>>

SlotThread ==
    \/ PostReconnect \/ RunOff \/ RunOn \/ Listen \/ Connect \/ RunLost
    \/ RunStatus \/ RunResend \/ SetError \/ SetErrorFails
    \/ RunWork \/ Apply \/ Retry \/ Respond

Next ==
    \/ SlotThread \/ SetEnabled \/ Publish \/ CloseWindow \/ Daemon \/ Due
    \/ \E r \in Objects : Enqueue(r) \/ Rejected(r) \/ Reply(r) \/ DeathNotice(r) \/ PostLost(r)

Spec == Init /\ [][Next]_vars

\* Threads run, timers expire, death notices arrive; a daemon that stays up
\* accepts a registration and a report in the end.
FairSpec ==
    /\ Spec
    /\ WF_vars(SlotThread) /\ WF_vars(Due) /\ WF_vars(CloseWindow)
    /\ WF_vars(main # "idle" /\ SetEnabled)
    /\ SF_vars(publishResponse) /\ SF_vars(SetError)
    /\ \A r \in Objects : /\ WF_vars(DeathNotice(r)) /\ WF_vars(PostLost(r))
                         /\ WF_vars(Enqueue(r)) /\ WF_vars(Rejected(r)) /\ WF_vars(Reply(r))

-----------------------------------------------------------------------------
(* Properties.                                                               *)

\* Nothing of the slot is under way on any thread.
Settled ==
    /\ w = Idle /\ queue = <<>> /\ main = "idle"
    /\ \A r \in Objects : notice[r] # "post" /\ (notice[r] = "linked" => reqs[r].b = daemon)

\* Once a registered slot has no report left to make, the daemon has heard the
\* current status, and has heard of every death of audioserver since it was last
\* told STATUS_OK, whatever reports were lost on the way.
RestartIsHeard ==
    Settled /\ relay.registered /\ timers = {} => heard[request] = status /\ request \notin owed

\* An enabled slot with nothing under way is registered with the daemon that
\* runs, or will try again: no order of deaths, revocations and SIM-mode changes
\* makes it forget to.  A disabled one with nothing under way holds no
\* registration, no death link and no listener.
StaysConnected ==
    Settled =>
        IF enabled
        THEN Reconnect \notin timers
                => request # 0 /\ current(request) /\ reqs[request].response /\ binder = daemon
        ELSE request = 0 /\ binder = 0 /\ ~listening /\ \A r \in Objects : notice[r] = "none"

\* Every variable keeps its type.  A call is answered at most once, by the worker
\* or by the binder thread, and every call of a registration that lasts is.  The
\* budget of a registration counts its retained calls, the running one included:
\* nothing leaks and nothing is counted twice.
CallsAnswered ==
    /\ TypeOK
    /\ \A t \in Tokens : replies[t] <= 1
    /\ Settled /\ request # 0 /\ holds = request /\ current(request)
          /\ caller[request] = Free /\ sent[request] = <<>>
              => \A t \in asked[request] : replies[t] = 1
    /\ \A r \in Objects : reqs[r].valid =>
          reqs[r].requests = Len(SelectSeq(queue, LAMBDA m : m.what \in {"param", "query"} /\ m.r = r))
                             + (IF w.r = r /\ w.token # 0 THEN 1 ELSE 0)

\* AudioFlinger is given the calls in the order the daemon made them, across
\* registrations too.
OrderKept == [][last' >= last]_vars

\* If the slot stays enabled and a daemon stays up, it is registered with that
\* daemon from some time on, and the daemon knows the status of audioserver.
Reconnects == <>[](enabled /\ daemon # 0) => <>[](request # 0 /\ current(request) /\ binder = daemon)
StatusIsHeard == <>[](enabled /\ daemon # 0) => <>[](request # 0 /\ heard[request] = status)
=============================================================================
