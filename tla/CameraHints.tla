---------------------------- MODULE CameraHints ----------------------------
(***************************************************************************)
(* power/libqti-perfd-client: CamX's perf hints, forwarded to the power    *)
(* HAL as boosts.  CamX threads update the request table under gLock; one  *)
(* worker thread compares the table with what it told the power HAL last,  *)
(* and makes the setBoost calls with gLock released.                       *)
(*                                                                         *)
(* A section under gLock is one step.  camera_hint_acquire reads the clock *)
(* before it takes the lock, so it is two.  Each setBoost call is a step.  *)
(* Time is counted in units of 1 / UnitsPerMs millisecond, and stands still*)
(* between the worker's plan and its last call: a one-way call is short    *)
(* against a unit.  Left out: pthread_create failing, after which no hint  *)
(* has any effect.                                                         *)
(***************************************************************************)
EXTENDS Integers, Sequences, FiniteSetsExt

CONSTANTS
    Callers,        \* CamX threads
    Hints,          \* what CamX asks for: boosts with milliseconds, 0: until released
    kMaxTimedMs, kMaxHoldMs, kMaxRequests,
    kFirstHandle, MaxHandle,    \* MaxHandle stands for INT_MAX
    UnitsPerMs,
    MaxClock,       \* bound on the clock
    MaxFaults       \* bound on crashes of the power HAL and failing calls

ASSUME HintsAssumption ==
    /\ {kMaxTimedMs, kMaxHoldMs, kMaxRequests, kFirstHandle, UnitsPerMs} \subseteq Nat \ {0}
    /\ Hints \subseteq {"CAMERA_LAUNCH", "CAMERA_SHOT"} \X Nat /\ MaxHandle \in Nat
    /\ MaxClock \in Nat \ {0} /\ MaxFaults \in Nat
    /\ MaxHandle - kFirstHandle >= kMaxRequests

VARIABLES
    clock,
    gRequests,      \* slot -> [handle, boost, deadline], handle 0: free
    gSentDeadline,  \* boost -> deadline the power HAL was told, 0: none
    gDirty,
    gNextHandle,
    caller,         \* thread -> the time camera_hint_acquire read before the lock, 0: not inside
    worker,         \* [pc, actions]: waiting, or the calls still to make
    power,          \* the worker's binder: none, current or dead
    failures,       \* 0, 1, or 2 for more
    hal,            \* the power HAL: [up, ends], boost -> when it ends by itself
    faults,
    \* What happened, for the properties only.
    clean,          \* no call failed and the power HAL never died
    attempts        \* failed attempts since the last hint, capped

table == <<gRequests, gNextHandle>>
history == <<clean, attempts>>
vars == <<clock, table, gSentDeadline, gDirty, caller, worker, power, failures, hal, faults, history>>

Boosts == {"CAMERA_LAUNCH", "CAMERA_SHOT"}
Slots == 1..kMaxRequests
Handles == kFirstHandle..MaxHandle
Free == [handle |-> 0, boost |-> "CAMERA_LAUNCH", deadline |-> 0]
Latest(S) == Max(S \cup {0})

Init ==
    /\ clock = 1
    /\ gRequests = [i \in Slots |-> Free]
    /\ gSentDeadline = [b \in Boosts |-> 0]
    /\ gDirty = FALSE
    /\ gNextHandle = kFirstHandle
    /\ caller = [c \in Callers |-> 0]
    /\ worker = [pc |-> "wait", actions |-> <<>>]
    /\ power = "none"
    /\ failures = 0
    /\ hal = [up |-> TRUE, ends |-> [b \in Boosts |-> 0]]
    /\ faults = 0
    /\ clean = TRUE
    /\ attempts = 0

-----------------------------------------------------------------------------
(* CamX threads. *)

\* Slots of requests whose deadline has passed are free (r.handle = 0).
DropExpired(requests, now) ==
    [i \in Slots |-> IF requests[i].deadline <= now THEN Free ELSE requests[i]]

UsedHandles(requests) == {requests[i].handle : i \in Slots}

\* INT_MAX is followed by kFirstHandle.
Successor(h) == IF h = MaxHandle THEN kFirstHandle ELSE h + 1

\* Mutant: without the search for the handle in the table.
NextHandleUnchecked(requests) == gNextHandle

\* The first handle from gNextHandle on, in cyclic order, that no request has.
next_handle_locked(requests) ==
    LET distance(h) == (h - gNextHandle) % (MaxHandle - kFirstHandle + 1)
        unused == Handles \ UsedHandles(requests)
    IN  CHOOSE h \in unused : \A k \in unused : distance(h) <= distance(k)

wake_worker_locked ==
    /\ gDirty' = TRUE
    /\ attempts' = 0

\* camera_hint_acquire up to the lock.  Its arguments appear in the next step.
Enter(c) ==
    /\ caller[c] = 0
    /\ caller' = [caller EXCEPT ![c] = clock]
    /\ UNCHANGED <<clock, table, gSentDeadline, gDirty, worker, power, failures, hal, faults, history>>

\* camera_hint_acquire under the lock: renews the handle's request, or takes the
\* first free slot, or does nothing when the table is full.
camera_hint_acquire(c, handle, b, duration) ==
    LET now == caller[c]
        ms == IF duration > 0 THEN Min({duration, kMaxTimedMs}) ELSE kMaxHoldMs
        live == DropExpired(gRequests, now)
        own == {i \in Slots : live[i].handle # 0 /\ live[i].handle = handle}
        free == {i \in Slots : live[i].handle = 0}
        put(i, h) == gRequests' = [live EXCEPT ![i] =
            [handle |-> h, boost |-> b, deadline |-> now + ms * UnitsPerMs]]
    IN  /\ now # 0
        /\ caller' = [caller EXCEPT ![c] = 0]
        /\ \/ /\ own # {}
              /\ put(Max(own), handle)
              /\ wake_worker_locked
              /\ UNCHANGED gNextHandle
           \/ /\ own = {} /\ free # {}
              /\ LET h == next_handle_locked(live)
                 IN  put(Min(free), h) /\ gNextHandle' = Successor(h)
              /\ wake_worker_locked
           \/ /\ own = {} /\ free = {}
              /\ gRequests' = live
              /\ UNCHANGED <<gNextHandle, gDirty, attempts>>
        /\ UNCHANGED <<clock, gSentDeadline, worker, power, failures, hal, faults, clean>>

\* Also camera_hint_acquire of a hint that is not a camera hint.
camera_hint_release(handle) ==
    /\ \E i \in Slots :
         /\ gRequests[i].handle = handle
         /\ gRequests' = [gRequests EXCEPT ![i] = Free]
    /\ wake_worker_locked
    /\ UNCHANGED <<clock, gNextHandle, gSentDeadline, caller, worker, power, failures, hal, faults,
                   clean>>

-----------------------------------------------------------------------------
(* The worker. *)

\* Rounded up to a millisecond, at least one.
ms_until(deadline, now) == Max({1, (deadline - now + UnitsPerMs - 1) \div UnitsPerMs})

\* The latest deadline of a request for b that is live at `now`, or 0.
Want(b, now) ==
    Latest({gRequests[i].deadline :
              i \in {j \in Slots : /\ gRequests[j].handle # 0 /\ gRequests[j].boost = b
                                   /\ gRequests[j].deadline > now}})

\* Mutant: a shorter boost is sent without a cancel.
PlanForExtending(b, now) ==
    LET want == Want(b, now)
    IN  IF want = 0 THEN IF gSentDeadline[b] > now THEN <<[boost |-> b, ms |-> -1]>> ELSE <<>>
        ELSE IF want = gSentDeadline[b] THEN <<>>
        ELSE <<[boost |-> b, ms |-> ms_until(want, now)]>>

\* The calls that bring one boost in line: a running boost can only be extended, so a shorter
\* one takes a cancel first.  -1 cancels.
PlanFor(b, now) ==
    LET want == Want(b, now)
        running == gSentDeadline[b] > now
        cancel == IF running /\ want < gSentDeadline[b] THEN <<[boost |-> b, ms |-> -1]>> ELSE <<>>
        start == IF want = 0 \/ (running /\ want = gSentDeadline[b]) THEN <<>>
                 ELSE <<[boost |-> b, ms |-> ms_until(want, now)]>>
    IN  cancel \o start

\* Plans and drops what has expired.  With nothing to send the attempt succeeds.
plan_locked ==
    LET actions == PlanFor("CAMERA_LAUNCH", clock) \o PlanFor("CAMERA_SHOT", clock)
    IN  /\ worker.pc = "wait" /\ gDirty
        /\ gDirty' = FALSE
        /\ gRequests' = DropExpired(gRequests, clock)
        /\ gSentDeadline' = [b \in Boosts |-> Want(b, clock)]
        /\ IF actions = <<>>
             THEN failures' = 0 /\ UNCHANGED worker
             ELSE worker' = [pc |-> "send", actions |-> actions] /\ UNCHANGED failures
        /\ UNCHANGED <<clock, gNextHandle, caller, power, hal, faults, history>>

\* The lookup at the start of send(), when no binder is cached.
Lookup ==
    /\ worker.pc = "send" /\ power = "none" /\ hal.up
    /\ power' = "current"
    /\ UNCHANGED <<clock, table, gSentDeadline, gDirty, caller, worker, failures, hal, faults, history>>

\* libperfmgr, as the comments describe it: a boost is only extended, -1 ends it.
Boosted(ends, action) ==
    [ends EXCEPT ![action.boost] =
        IF action.ms = -1 THEN 0 ELSE Max({@, clock + action.ms * UnitsPerMs})]

\* One setBoost call that is accepted; the last one ends the attempt.
SetBoost ==
    LET rest == Tail(worker.actions)
    IN  /\ worker.pc = "send" /\ power = "current"
        /\ hal' = [hal EXCEPT !.ends = Boosted(@, Head(worker.actions))]
        /\ IF rest = <<>>
             THEN worker' = [pc |-> "wait", actions |-> <<>>] /\ failures' = 0
             ELSE worker' = [worker EXCEPT !.actions = rest] /\ UNCHANGED failures
        /\ UNCHANGED <<clock, table, gSentDeadline, gDirty, caller, power, faults, history>>

\* Mutant: what was sent is remembered after a failure.
FailedKeepsSent ==
    /\ failures' = Min({failures + 1, 2})
    /\ gDirty' = (gDirty \/ failures = 0)
    /\ attempts' = Min({attempts + 1, 3})
    /\ worker' = [pc |-> "wait", actions |-> <<>>]
    /\ clean' = FALSE
    /\ UNCHANGED gSentDeadline

\* worker_main after send() returned false: everything is to be sent again, once
\* without waiting for a hint.
Failed ==
    /\ gSentDeadline' = [b \in Boosts |-> 0]
    /\ failures' = Min({failures + 1, 2})
    /\ gDirty' = (gDirty \/ failures = 0)
    /\ attempts' = Min({attempts + 1, 3})
    /\ worker' = [pc |-> "wait", actions |-> <<>>]
    /\ clean' = FALSE

\* No power HAL is registered.
LookupFails ==
    /\ worker.pc = "send" /\ power = "none" /\ ~hal.up
    /\ Failed
    /\ UNCHANGED <<clock, table, caller, power, hal, faults>>

\* A call fails: the power HAL of this binder is dead, or did not take the call.
SetBoostFails ==
    /\ worker.pc = "send" /\ power # "none"
    /\ power = "current" => faults < MaxFaults
    /\ faults' = IF power = "current" THEN faults + 1 ELSE faults
    /\ power' = "none"
    /\ Failed
    /\ UNCHANGED <<clock, table, caller, hal>>

-----------------------------------------------------------------------------
(* The environment. *)

HalDies ==
    /\ hal.up /\ faults < MaxFaults
    /\ hal' = [up |-> FALSE, ends |-> [b \in Boosts |-> 0]]
    /\ power' = IF power = "current" THEN "dead" ELSE power
    /\ faults' = faults + 1
    /\ clean' = FALSE
    /\ UNCHANGED <<clock, table, gSentDeadline, gDirty, caller, worker, failures, attempts>>

HalStarts ==
    /\ ~hal.up
    /\ hal' = [hal EXCEPT !.up = TRUE]
    /\ UNCHANGED <<clock, table, gSentDeadline, gDirty, caller, worker, power, failures, faults, history>>

Tick ==
    /\ clock < MaxClock /\ worker.pc = "wait"
    /\ clock' = clock + 1
    /\ UNCHANGED <<table, gSentDeadline, gDirty, caller, worker, power, failures, hal, faults, history>>

Worker == plan_locked \/ Lookup \/ SetBoost \/ LookupFails \/ SetBoostFails

\* A handle that no request has is treated like 0.
Next ==
    \/ \E c \in Callers : \/ Enter(c)
                          \/ \E h \in UsedHandles(gRequests) \cup {0}, hint \in Hints :
                               camera_hint_acquire(c, h, hint[1], hint[2])
    \/ \E h \in UsedHandles(gRequests) \ {0} : camera_hint_release(h)
    \/ Worker
    \/ HalDies \/ HalStarts \/ Tick

Spec == Init /\ [][Next]_vars

-----------------------------------------------------------------------------
(* Properties. *)

\* Types.  A deadline is at most the longest request away from the clock.
TypeOK ==
    LET limit == Max({kMaxTimedMs, kMaxHoldMs}) * UnitsPerMs
        calls == [boost : Boosts, ms : Nat \cup {-1}]
    IN  /\ clock \in 1..MaxClock
        /\ gRequests \in [Slots -> [handle : Handles \cup {0}, boost : Boosts, deadline : 0..(clock + limit)]]
        /\ gSentDeadline \in [Boosts -> 0..(clock + limit)]
        /\ gDirty \in BOOLEAN /\ clean \in BOOLEAN
        /\ gNextHandle \in Handles
        /\ caller \in [Callers -> 0..clock]
        /\ worker.pc \in {"wait", "send"} /\ worker.actions \in Seq(calls)
        /\ (worker.pc = "send") = (worker.actions # <<>>)
        /\ power \in {"none", "current", "dead"} /\ (power = "current" => hal.up)
        /\ failures \in 0..2 /\ faults \in 0..MaxFaults /\ attempts \in 0..3
        /\ hal \in [up : BOOLEAN, ends : [Boosts -> Nat]]

\* The worker has nothing to do until the next hint.
Idle == worker.pc = "wait" /\ ~gDirty

\* plan_locked: "the calls that bring it in line".  As long as no call failed,
\* whenever the worker is idle the power HAL runs each boost until its last
\* live request ends, and less than a millisecond longer; with no live request
\* it runs none, but for the rest of that millisecond.  "The power HAL ends every
\* boost on its own timer": whatever failed, never later than the longest request.
HalInLine ==
    \A b \in Boosts :
        /\ hal.ends[b] <= clock + Max({kMaxTimedMs, kMaxHoldMs}) * UnitsPerMs
        /\ Idle /\ clean =>
              LET want == Want(b, clock)
              IN  IF want = 0 THEN hal.ends[b] < clock + UnitsPerMs
                  ELSE hal.ends[b] \in want..(want + UnitsPerMs - 1)

\* worker_main: "Retry once with a fresh lookup (it may have restarted)".  After
\* any crashes and failed calls, once the worker is idle and its last attempt
\* succeeded, no live request is without its boost, unless the power HAL died since;
\* one that is missing is tried twice for a hint, never in a loop.
CoveredAfterSuccess ==
    /\ attempts <= 2
    /\ Idle /\ failures = 0 /\ hal.up /\ power # "dead" =>
        \A b \in Boosts : hal.ends[b] >= Want(b, clock)

\* Every variable keeps its type, and requests in the table have handles of their own, also after gNextHandle wrapped
\* around, so that perf_lock_rel and renewals reach what their handle started.
HandlesDistinct ==
    /\ TypeOK
    /\ \A i, j \in Slots : gRequests[i].handle = gRequests[j].handle /\ i # j => gRequests[i].handle = 0
=============================================================================
