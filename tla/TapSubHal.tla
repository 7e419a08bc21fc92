----------------------------- MODULE TapSubHal -----------------------------
(***************************************************************************)
(* sensors/TapSubHal.cpp: a single and a double tap sensor on the touch    *)
(* controller.  Binder threads record under mMutex which sensors are       *)
(* active; one thread does all node I/O, on a copy of what is wanted that  *)
(* it takes at the start of each round.                                    *)
(*                                                                         *)
(* A section under mMutex and the node access for one sensor are one step  *)
(* each.  Events go out in the step that queued them.  The clock does not  *)
(* wait for the thread: the system may sleep.  Only the double tap is ever *)
(* held (holdEarly), so mEarlyAt and mEarlyDue are one value each.  Left   *)
(* out: the list of sensors, debug(), and calls that only return an error. *)
(***************************************************************************)
EXTENDS Integers, FiniteSetsExt

CONSTANTS
    kIdleNs, kIdleCheckMs, kEarlyNs, kEarlyDelayNs,   \* all in ticks
    Used,           \* the sensors SystemUI listens to
    MaxClock,       \* bound on the clock
    MaxFaults,      \* bound on failing node accesses
    MaxCrashes      \* bound on crashes and restarts

ASSUME TapAssumption ==
    /\ {kIdleNs, kIdleCheckMs, kEarlyNs, kEarlyDelayNs} \subseteq Nat \ {0}
    /\ MaxClock \in Nat \ {0} /\ MaxFaults \in Nat /\ MaxCrashes \in Nat
    /\ Used \subseteq {"single", "double"}

VARIABLES
    clock, faults, crashes,
    mWantArmed,     \* the active sensors
    mEarlyAt,       \* when the held double tap was seen, or 0
    mEarlyDue,      \* when it goes out, or 0
    mMode, mStop,
    mWakeFd,        \* the eventfd is readable
    thread,         \* the thread's place and local variables
    node,           \* the driver: gestures on, gestures reported, low power
    \* What happened, for the properties only.
    fired,          \* sensor -> events since it was last activated; 1 while inactive
    quiet           \* sensor -> ticks its gesture was on in low power, the sensor inactive,
                    \* the thread never late and no node failing

shared == <<mWantArmed, mEarlyAt, mEarlyDue, mMode, mStop>>
history == <<fired, quiet>>
vars == <<clock, faults, crashes, shared, mWakeFd, thread, node, history>>

Sensors == {"single", "double"}

\* The thread before its first round.
FreshThread ==
    [pc |-> "takeover", armed |-> {}, want |-> {}, todo |-> {}, idleSince |-> [i \in Sensors |-> 0],
     earlyDue |-> 0, wakelock |-> FALSE, until |-> 0, gestures |-> {}]

Init ==
    /\ clock = 1 /\ faults = 0 /\ crashes = 0
    /\ mWantArmed = {} /\ mEarlyAt = 0 /\ mEarlyDue = 0 /\ mMode = "NORMAL" /\ mStop = FALSE
    /\ mWakeFd = TRUE
    /\ thread = FreshThread
    /\ node = [on |-> {}, reported |-> {}, lowPower |-> FALSE]
    /\ fired = [i \in Sensors |-> 1]
    /\ quiet = [i \in Sensors |-> 0]

-----------------------------------------------------------------------------
(* Binder threads. *)

\* Mutant: only the condition is notified.
WakeCondition == UNCHANGED mWakeFd

\* Also notifies the condition the thread may wait on.
wakeThread == mWakeFd' = TRUE

activate(i, enabled) ==
    /\ ~mStop
    /\ mWantArmed' = IF enabled THEN mWantArmed \cup {i} ELSE mWantArmed \ {i}
    /\ wakeThread
    /\ IF enabled /\ i \notin mWantArmed
         THEN fired' = [fired EXCEPT ![i] = 0] /\ quiet' = [quiet EXCEPT ![i] = 0]
         ELSE fired' = (IF enabled THEN fired ELSE [fired EXCEPT ![i] = 1]) /\ UNCHANGED quiet
    /\ UNCHANGED <<clock, faults, crashes, mEarlyAt, mEarlyDue, mMode, mStop, thread, node>>

setOperationMode(mode) ==
    /\ ~mStop /\ mMode' = mode
    /\ UNCHANGED <<clock, faults, crashes, mWantArmed, mEarlyAt, mEarlyDue, mStop, mWakeFd, thread,
                   node, history>>

\* What initialize sets: no sensor active, no tap held.
Inactive ==
    /\ mWantArmed' = {} /\ mEarlyAt' = 0 /\ mEarlyDue' = 0 /\ mMode' = "NORMAL"
    /\ wakeThread
    /\ fired' = [i \in Sensors |-> 1]

\* The sensor service restarts and initializes again; the thread goes on.
initialize ==
    /\ ~mStop /\ crashes < MaxCrashes
    /\ crashes' = crashes + 1
    /\ Inactive
    /\ UNCHANGED <<clock, faults, mStop, thread, node, quiet>>

\* ~TapSubHal, up to the join.
Destroy ==
    /\ ~mStop
    /\ mStop' = TRUE /\ wakeThread
    /\ UNCHANGED <<clock, faults, crashes, mWantArmed, mEarlyAt, mEarlyDue, mMode, thread, node, history>>

-----------------------------------------------------------------------------
(* The thread, run(). *)

Fault(n) == faults + n <= MaxFaults /\ faults' = faults + n

\* Mutant: gestures that are on are left alone.
TakeOverNothing ==
    /\ thread.pc = "takeover"
    /\ thread' = [thread EXCEPT !.pc = "wait"]
    /\ UNCHANGED <<clock, faults, crashes, shared, mWakeFd, node, history>>

\* Takes over the gestures that are on, as far as they can be armed.  The first
\* that is drops the gestures reported before, and so may one that cannot be.
TakeOver ==
    /\ thread.pc = "takeover"
    /\ \E bad \in SUBSET node.on, gone \in BOOLEAN :
         /\ Fault(Cardinality(bad))
         /\ gone => bad # {}
         /\ thread' = [thread EXCEPT !.pc = "wait", !.armed = node.on \ bad]
         /\ node' = [node EXCEPT !.reported = IF node.on = bad /\ ~gone THEN @ ELSE {}]
    /\ UNCHANGED <<clock, crashes, shared, mWakeFd, history>>

\* The mode cannot be read: nothing is taken over.
TakeOverFails ==
    /\ thread.pc = "takeover"
    /\ Fault(1)
    /\ thread' = [thread EXCEPT !.pc = "wait"]
    /\ UNCHANGED <<clock, crashes, shared, mWakeFd, node, history>>

\* Mutant: the age of the tap is not checked.
FireEarlyAnyAge ==
    LET keep == [at |-> mEarlyAt, due |-> 0, next |-> 0, fire |-> FALSE]
        drop == [keep EXCEPT !.at = 0]
        due == IF mEarlyDue = 0 THEN clock + kEarlyDelayNs ELSE mEarlyDue
    IN  IF "double" \notin mWantArmed THEN keep
        ELSE IF mEarlyAt = 0 \/ mMode # "NORMAL" THEN drop
        ELSE IF clock - due > kEarlyDelayNs THEN drop
        ELSE IF clock >= due THEN [drop EXCEPT !.fire = TRUE]
        ELSE [keep EXCEPT !.due = due, !.next = due]

\* With mMutex held: what becomes of a held tap at `clock`.
fireEarly ==
    LET keep == [at |-> mEarlyAt, due |-> 0, next |-> 0, fire |-> FALSE]
        drop == [keep EXCEPT !.at = 0]
        due == IF mEarlyDue = 0 THEN clock + kEarlyDelayNs ELSE mEarlyDue
    IN  IF "double" \notin mWantArmed THEN keep
        ELSE IF mEarlyAt = 0 \/ mMode # "NORMAL" THEN drop
        ELSE IF mEarlyDue = 0 /\ clock - mEarlyAt > kEarlyNs THEN drop
        ELSE IF clock - due > kEarlyDelayNs THEN drop
        ELSE IF clock >= due THEN [drop EXCEPT !.fire = TRUE]
        ELSE [keep EXCEPT !.due = due, !.next = due]

\* With mMutex held: the sensors become inactive and their events go out.
fire(S) ==
    /\ mWantArmed' = mWantArmed \ S
    /\ fired' = [i \in Sensors |-> IF i \in S THEN fired[i] + 1 ELSE fired[i]]

\* The start of a round: held taps, and the copy of what is wanted.
Round ==
    LET held == fireEarly
        S == IF held.fire THEN {"double"} ELSE {}
    IN  /\ thread.pc = "wait" /\ ~mStop /\ mWantArmed \cup thread.armed # {}
        /\ fire(S)
        /\ mEarlyAt' = held.at /\ mEarlyDue' = held.due
        /\ thread' = [thread EXCEPT !.pc = "round", !.want = mWantArmed', !.earlyDue = held.next,
                                    !.todo = mWantArmed' \ thread.armed, !.wakelock = held.next # 0]
        /\ UNCHANGED <<clock, faults, crashes, mMode, mStop, mWakeFd, node, quiet>>

\* The next sensor to arm; kSensors starts with the single tap.
Turn(i) == i \in thread.todo /\ (i = "double" => "single" \notin thread.todo)

\* Mutant: every gesture that is turned on drops those reported before.
ArmDropping(i) ==
    /\ thread.pc = "round" /\ Turn(i)
    /\ thread' = [thread EXCEPT !.todo = @ \ {i}, !.armed = @ \cup {i}]
    /\ node' = [node EXCEPT !.on = @ \cup {i}, !.reported = {}]
    /\ UNCHANGED <<clock, faults, crashes, shared, mWakeFd, history>>

\* Turns one gesture on.  The first one drops gestures reported before.
arm(i) ==
    /\ thread.pc = "round" /\ Turn(i)
    /\ thread' = [thread EXCEPT !.todo = @ \ {i}, !.armed = @ \cup {i}]
    /\ node' = [node EXCEPT !.on = @ \cup {i}, !.reported = IF thread.armed = {} THEN {} ELSE @]
    /\ UNCHANGED <<clock, faults, crashes, shared, mWakeFd, history>>

\* arm() fails: the sensor is given up.  The report may have been read.
GiveUp(i) ==
    /\ thread.pc = "round" /\ Turn(i)
    /\ Fault(1)
    /\ thread' = [thread EXCEPT !.todo = @ \ {i}]
    /\ \E gone \in BOOLEAN : node' = [node EXCEPT !.reported = IF gone /\ thread.armed = {} THEN {} ELSE @]
    /\ mWantArmed' = mWantArmed \ {i}
    /\ fired' = [fired EXCEPT ![i] = 1]
    /\ UNCHANGED <<clock, crashes, mEarlyAt, mEarlyDue, mMode, mStop, mWakeFd, quiet>>

\* Mutant: an idle gesture does not limit the wait.
PollUntilEvent(idle) ==
    IF thread.earlyDue # 0 THEN Min({Max({thread.earlyDue, clock}), clock + kIdleCheckMs}) ELSE 0

\* When poll() times out, 0: never.
PollUntil(idle) ==
    IF thread.earlyDue # 0 THEN Min({Max({thread.earlyDue, clock}), clock + kIdleCheckMs})
    ELSE IF idle THEN clock + kIdleCheckMs ELSE 0

\* Turns off what was unused for kIdleNs, by the copy of what is wanted, and
\* decides how long to poll.  `low` is what readMode found; `bad` writes fail.
CheckIdle(low, bad) ==
    LET unused == thread.armed \ thread.want
        off == {i \in unused : low /\ thread.idleSince[i] # 0 /\ clock - thread.idleSince[i] >= kIdleNs}
        idle == unused \ off # {}
        left == thread.armed \ off
    IN  /\ thread.pc = "round" /\ thread.todo = {}
        /\ bad \subseteq off
        /\ low # node.lowPower => unused # {}
        /\ Fault(Cardinality(bad) + IF low = node.lowPower THEN 0 ELSE 1)
        /\ node' = [node EXCEPT !.on = @ \ (off \ bad)]
        /\ quiet' = [i \in Sensors |-> IF i \in off THEN 0 ELSE quiet[i]]
        /\ thread' = [thread EXCEPT
             !.pc = IF left = {} THEN "wait" ELSE "poll",
             !.armed = left, !.want = {}, !.earlyDue = 0,
             !.idleSince = [i \in Sensors |-> IF ~low \/ i \notin unused \ off THEN 0
                                              ELSE IF @[i] = 0 THEN clock ELSE @[i]],
             !.until = IF left = {} THEN 0 ELSE PollUntil(idle)]
        /\ UNCHANGED <<clock, crashes, shared, mWakeFd, fired>>

\* poll() returns, with both descriptors read.
Poll ==
    /\ thread.pc = "poll"
    /\ mWakeFd \/ node.reported # {} \/ (thread.until # 0 /\ clock >= thread.until)
    /\ mWakeFd' = FALSE
    /\ thread' = [thread EXCEPT !.pc = IF node.reported = {} THEN "wait" ELSE "report",
                                !.gestures = node.reported, !.until = 0]
    /\ node' = [node EXCEPT !.reported = {}]
    /\ UNCHANGED <<clock, faults, crashes, shared, history>>

\* poll() fails, with nothing read.
PollFails ==
    /\ thread.pc = "poll"
    /\ Fault(1)
    /\ thread' = [thread EXCEPT !.pc = "wait", !.until = 0]
    /\ UNCHANGED <<clock, crashes, shared, mWakeFd, node, history>>

\* poll() returns for a report that cannot be read; the driver may have taken it
\* for read.
ReportFails ==
    /\ thread.pc = "poll" /\ node.reported # {}
    /\ Fault(1)
    /\ mWakeFd' = FALSE
    /\ thread' = [thread EXCEPT !.pc = "wait", !.until = 0]
    /\ \E gone \in BOOLEAN : node' = [node EXCEPT !.reported = IF gone THEN {} ELSE @]
    /\ UNCHANGED <<clock, crashes, shared, history>>

\* Mutant: a gesture goes out whether or not its sensor is active.
ReportAnyway ==
    LET S == IF mMode = "NORMAL" THEN thread.gestures ELSE {}
    IN  /\ thread.pc = "report"
        /\ fire(S)
        /\ mEarlyAt' = IF "double" \in S THEN 0 ELSE mEarlyAt
        /\ mEarlyDue' = IF "double" \in S THEN 0 ELSE mEarlyDue
        /\ thread' = [thread EXCEPT !.pc = "wait", !.gestures = {}]
        /\ UNCHANGED <<clock, faults, crashes, mMode, mStop, mWakeFd, node, quiet>>

\* Reports gestures of active sensors and holds a double tap of an inactive one.
report ==
    LET S == IF mMode = "NORMAL" THEN thread.gestures ELSE {}
    IN  /\ thread.pc = "report"
        /\ fire(S \cap mWantArmed)
        /\ mEarlyAt' = IF "double" \notin S THEN mEarlyAt ELSE IF "double" \in mWantArmed THEN 0 ELSE clock
        /\ mEarlyDue' = IF "double" \in S THEN 0 ELSE mEarlyDue
        /\ thread' = [thread EXCEPT !.pc = "wait", !.gestures = {}]
        /\ UNCHANGED <<clock, faults, crashes, mMode, mStop, mWakeFd, node, quiet>>

\* The end of run(): what is armed goes off.
Leave ==
    /\ thread.pc = "wait" /\ mStop
    /\ node' = [node EXCEPT !.on = @ \ thread.armed]
    /\ thread' = [FreshThread EXCEPT !.pc = "done"]
    /\ UNCHANGED <<clock, faults, crashes, shared, mWakeFd, history>>

Thread ==
    \/ TakeOver \/ TakeOverFails \/ Round \/ report \/ Leave
    \/ Poll \/ PollFails \/ ReportFails
    \/ \E i \in Sensors : arm(i) \/ GiveUp(i)
    \/ \E low \in {FALSE, node.lowPower}, bad \in SUBSET Sensors : CheckIdle(low, bad)

-----------------------------------------------------------------------------
(* The environment. *)

\* The driver reports a gesture that is on while the controller waits for it.
Tap(i) ==
    /\ node.lowPower /\ i \in node.on
    /\ node' = [node EXCEPT !.reported = @ \cup {i}]
    /\ UNCHANGED <<clock, faults, crashes, shared, mWakeFd, thread, history>>

\* The panel goes off or on.
Panel ==
    /\ node' = [node EXCEPT !.lowPower = ~@]
    /\ quiet' = [i \in Sensors |-> 0]
    /\ UNCHANGED <<clock, faults, crashes, shared, mWakeFd, thread, fired>>

\* The process crashes and is started again; the driver stays as it was.
Crash ==
    /\ crashes < MaxCrashes /\ thread.pc # "done"
    /\ crashes' = crashes + 1
    /\ Inactive
    /\ mStop' = FALSE
    /\ thread' = FreshThread
    /\ quiet' = [i \in Sensors |-> 0]
    /\ UNCHANGED <<clock, faults, node>>

\* The thread waits on the condition or in poll(), with nothing to wake it.
Blocked ==
    \/ thread.pc = "wait" /\ ~mStop /\ mWantArmed \cup thread.armed = {}
    \/ /\ thread.pc = "poll" /\ ~mWakeFd /\ node.reported = {}
       /\ thread.until = 0 \/ clock < thread.until
    \/ thread.pc = "done"

Tick ==
    /\ clock < MaxClock
    /\ clock' = clock + 1
    /\ quiet' = [i \in Sensors |->
         IF faults = 0 /\ Blocked /\ node.lowPower /\ i \in node.on \ mWantArmed THEN quiet[i] + 1 ELSE 0]
    /\ UNCHANGED <<faults, crashes, shared, mWakeFd, thread, node, fired>>

Next ==
    \/ Thread
    \/ \E i \in Sensors : Tap(i)
    \/ \E i \in Used, enabled \in BOOLEAN : activate(i, enabled)
    \/ \E mode \in {"NORMAL", "DATA_INJECTION"} : setOperationMode(mode)
    \/ initialize \/ Destroy \/ Panel \/ Crash \/ Tick

Spec == Init /\ [][Next]_vars

-----------------------------------------------------------------------------
(* Properties. *)

\* Types.
TypeOK ==
    /\ clock \in 1..MaxClock /\ faults \in 0..MaxFaults /\ crashes \in 0..MaxCrashes
    /\ mWantArmed \subseteq Sensors /\ mEarlyAt \in 0..clock /\ mEarlyDue \in 0..(clock + kEarlyDelayNs)
    /\ mMode \in {"NORMAL", "DATA_INJECTION"} /\ mStop \in BOOLEAN /\ mWakeFd \in BOOLEAN
    /\ thread.pc \in {"takeover", "wait", "round", "poll", "report", "done"}
    /\ thread.armed \subseteq Sensors /\ thread.want \subseteq Sensors /\ thread.gestures \subseteq Sensors
    /\ thread.todo \subseteq thread.want \ thread.armed
    /\ thread.idleSince \in [Sensors -> 0..clock] /\ thread.wakelock \in BOOLEAN
    /\ node.on \subseteq Sensors /\ node.reported \subseteq Sensors /\ node.lowPower \in BOOLEAN

\* Every variable keeps its type, and "both sensors are one-shot": an event goes
\* out for an active sensor only, and once for an activation, whether the tap is
\* new or was held.
OneShot == TypeOK /\ \A i \in Sensors : fired[i] <= 1

\* activate() against the thread's stale copy: whenever the thread has gone to
\* sleep, the gesture of every active sensor is on, and a held tap that is
\* scheduled has a timeout and "keeps the system awake while [it] waits".
ReadyToSleep ==
    Blocked /\ ~mStop =>
        /\ mWantArmed \subseteq node.on
        /\ mEarlyDue # 0 /\ "double" \in mWantArmed => thread.wakelock /\ thread.until # 0

\* "One thread does all node I/O", "Take them over": as long as no node failed,
\* the driver has on exactly what the thread believes, also after crashes, and
\* nothing once the thread has ended.
DriverMatches == faults = 0 /\ thread.pc # "takeover" => node.on = thread.armed

\* "Longest a held double tap waits for its sensor": a held tap goes out at most
\* kEarlyNs and twice kEarlyDelayNs after it was seen, even if the system slept.
HeldTapFresh ==
    [][thread.pc = "wait" /\ fired' # fired /\ thread'.pc = "round"
         => clock - mEarlyAt <= kEarlyNs + 2 * kEarlyDelayNs]_vars

\* "A gesture goes off once the controller has been in low power for kIdleNs with
\* its sensor inactive": if the thread is not late, two checks later at the latest.
OffInTime == faults = 0 => \A i \in Sensors : quiet[i] <= kIdleNs + 2 * kIdleCheckMs

\* The thread takes its first gesture: arm() finds none on and drops what was
\* reported before.
Reopens ==
    /\ thread.armed = {} /\ thread' # thread
    /\ thread.pc = "takeover" \/ (thread.pc = "round" /\ thread.todo # {})

\* A gesture that the driver has reported for an active sensor is on its way until
\* the sensor has fired, is released or given up, or the mode is changed.  No step
\* of any thread loses it but two: a report that cannot be read, and arm() with no
\* gesture of the thread's on, which drops the old reports.  That second one can
\* be the tap of a sensor that was active all the time it took: activate() comes
\* after a round has copied what is wanted, the driver reports a tap, the round's
\* idle check turns the gesture off by the copy, and the next round turns it on
\* again and drops the tap.  ("A gesture goes off once the controller has been in
\* low power for kIdleNs with its sensor inactive" is not true of that round.)
ActiveTapKept ==
    [][\A i \in mWantArmed \cap mWantArmed' :
         /\ i \in thread.gestures \cup node.reported
         /\ mMode = "NORMAL" /\ faults' = faults /\ ~Reopens
         => i \in thread'.gestures \cup node'.reported]_vars

=============================================================================
