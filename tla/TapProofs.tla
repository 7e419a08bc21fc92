----------------------------- MODULE TapProofs -----------------------------
(***************************************************************************)
(* What TapSubHal.tla promises, proved for all delays, any clock and any   *)
(* number of faults.                                                       *)
(***************************************************************************)
EXTENDS TapSubHal, FiniteSetTheorems, TLAPS

ThreadRecord ==
    [pc : {"takeover", "wait", "round", "poll", "report", "done"}, armed : SUBSET Sensors,
     want : SUBSET Sensors, todo : SUBSET Sensors, idleSince : [Sensors -> Nat], earlyDue : Nat,
     wakelock : BOOLEAN, until : Nat, gestures : SUBSET Sensors]

NodeRecord == [on : SUBSET Sensors, reported : SUBSET Sensors, lowPower : BOOLEAN]

\* What every variable ranges over.
Ranges ==
    /\ clock \in Nat \ {0} /\ faults \in Nat /\ crashes \in Nat
    /\ mWantArmed \in SUBSET Sensors /\ mEarlyAt \in Nat /\ mEarlyDue \in Nat
    /\ mMode \in {"NORMAL", "DATA_INJECTION"} /\ mStop \in BOOLEAN /\ mWakeFd \in BOOLEAN
    /\ thread \in ThreadRecord /\ node \in NodeRecord
    /\ fired \in [Sensors -> Nat] /\ quiet \in [Sensors -> Nat]

\* The bounds TypeOK puts on top of the ranges.
Limits ==
    /\ clock <= MaxClock /\ faults <= MaxFaults /\ crashes <= MaxCrashes
    /\ mEarlyAt <= clock /\ mEarlyDue <= clock + kEarlyDelayNs
    /\ thread.todo \subseteq thread.want \ thread.armed
    /\ \A i \in Sensors : thread.idleSince[i] <= clock

\* What the thread's place says about its variables.
Places ==
    /\ thread.pc = "takeover" => thread.armed = {}
    /\ thread.pc # "round" => thread.todo = {}
    /\ thread.pc # "report" => thread.gestures = {}
    /\ thread.pc = "done" => mStop /\ thread.armed = {}
    /\ thread.armed \subseteq node.on

\* A sensor has fired since it was activated exactly if it is inactive.
Shots == \A i \in Sensors : fired[i] = IF i \in mWantArmed THEN 0 ELSE 1

\* A scheduled tap was seen at most kEarlyNs and kEarlyDelayNs before it is due.
Held == mEarlyDue # 0 => mEarlyAt # 0 /\ mEarlyDue <= mEarlyAt + kEarlyNs + kEarlyDelayNs

\* While nothing woke the thread, its copy of what is wanted is right.
Copy ==
    ~mWakeFd =>
        /\ thread.pc = "round" =>
             /\ mWantArmed \subseteq thread.armed \cup thread.todo
             /\ mWantArmed \subseteq thread.want
             /\ thread.want \cap (thread.armed \cup thread.todo) \subseteq mWantArmed
             /\ mEarlyDue # 0 /\ "double" \in mWantArmed => thread.wakelock /\ thread.earlyDue # 0
        /\ thread.pc = "poll" =>
             /\ mWantArmed \subseteq thread.armed
             /\ mEarlyDue # 0 /\ "double" \in mWantArmed => thread.wakelock /\ thread.until # 0

\* When the thread polls, an unused gesture limits how long.
Check ==
    thread.pc = "poll" /\ ~mWakeFd =>
        \A i \in thread.armed \ mWantArmed :
            /\ thread.until # 0 /\ thread.until <= clock + kIdleCheckMs
            /\ thread.idleSince[i] # 0 => thread.until < thread.idleSince[i] + kIdleNs + kIdleCheckMs

\* The time gesture i has been idle, against what the thread knows of it.
Idle(i) ==
    faults = 0 /\ quiet[i] # 0 /\ thread.pc # "done" =>
        /\ node.lowPower /\ i \in thread.armed /\ i \notin mWantArmed
        /\ thread.pc # "takeover" /\ (thread.pc = "round" => i \notin thread.want)
        /\ thread.idleSince[i] = 0 =>
             /\ quiet[i] <= kIdleCheckMs
             /\ thread.pc = "poll" /\ ~mWakeFd => thread.until + quiet[i] <= clock + kIdleCheckMs
        /\ thread.idleSince[i] # 0 =>
             /\ thread.idleSince[i] + quiet[i] <= clock + kIdleCheckMs
             /\ clock < thread.idleSince[i] + kIdleNs + kIdleCheckMs

TapInv ==
    /\ Ranges /\ Limits /\ Places /\ Shots /\ Held /\ Copy /\ Check
    /\ DriverMatches /\ OffInTime /\ \A i \in Sensors : Idle(i)

-----------------------------------------------------------------------------
(* The model's operators. *)

\* Max and Min of the two times PollUntil compares.
LEMMA TwoTimes ==
    ASSUME NEW a \in Nat, NEW b \in Nat
    PROVE  /\ Max({a, b}) \in {a, b} /\ Max({a, b}) >= a /\ Max({a, b}) >= b
           /\ Min({a, b}) \in {a, b} /\ Min({a, b}) <= a /\ Min({a, b}) <= b
<1>1. \E x \in {a, b} : \A y \in {a, b} : x >= y
  BY a >= b \/ b >= a
<1>2. \E x \in {a, b} : \A y \in {a, b} : x =< y
  BY a >= b \/ b >= a
<1>3. Max({a, b}) \in {a, b} /\ \A y \in {a, b} : Max({a, b}) >= y
  BY <1>1 DEF Max
<1>4. Min({a, b}) \in {a, b} /\ \A y \in {a, b} : Min({a, b}) =< y
  BY <1>2 DEF Min
<1> QED BY <1>3, <1>4

\* The poll ends kIdleCheckMs from now at the latest if a tap is scheduled or a
\* gesture is idle, and never at 0 then.
LEMMA PollEnds ==
    ASSUME Ranges, NEW idle \in BOOLEAN
    PROVE  /\ PollUntil(idle) \in Nat
           /\ PollUntil(idle) <= clock + kIdleCheckMs
           /\ thread.earlyDue # 0 \/ idle => PollUntil(idle) # 0
<1> DEFINE a == Max({thread.earlyDue, clock})
           b == clock + kIdleCheckMs
<1>1. thread.earlyDue \in Nat /\ clock \in Nat /\ clock # 0 /\ b \in Nat /\ b # 0
  BY TapAssumption DEF Ranges, ThreadRecord
<1>2. a \in Nat /\ a # 0
  BY <1>1, TwoTimes
<1>3. Min({a, b}) \in {a, b} /\ Min({a, b}) <= b
  <2> HIDE DEF a, b
  <2> QED BY <1>1, <1>2, TwoTimes
<1> QED BY <1>1, <1>2, <1>3 DEF PollUntil

\* What fireEarly makes of the held tap.
LEMMA HeldTap ==
    ASSUME Ranges
    PROVE  /\ fireEarly.fire \in BOOLEAN /\ fireEarly.due \in Nat /\ fireEarly.next = fireEarly.due
           /\ fireEarly.at \in {0, mEarlyAt}
           /\ fireEarly.fire => /\ "double" \in mWantArmed /\ mEarlyAt # 0 /\ mEarlyDue # 0
                                /\ clock - mEarlyDue <= kEarlyDelayNs
           /\ fireEarly.due # 0 =>
                /\ fireEarly.at = mEarlyAt /\ mEarlyAt # 0
                /\ \/ fireEarly.due = mEarlyDue
                   \/ fireEarly.due = clock + kEarlyDelayNs /\ clock - mEarlyAt <= kEarlyNs
<1>1. /\ clock \in Nat /\ mEarlyAt \in Nat /\ mEarlyDue \in Nat
      /\ kEarlyNs \in Nat \ {0} /\ kEarlyDelayNs \in Nat \ {0}
  BY TapAssumption DEF Ranges
<1> QED BY <1>1 DEF fireEarly


-----------------------------------------------------------------------------
(* Each step keeps the invariant. *)

\* A round ends with a node that cannot be read.
Fails == TakeOverFails \/ PollFails \/ ReportFails

\* The steps, without the quantifiers of Next.
LEMMA Steps ==
    ASSUME [Next]_vars
    PROVE  \/ TakeOver \/ Round \/ Poll \/ report \/ Leave \/ Fails
           \/ \E i \in Sensors : arm(i) \/ GiveUp(i) \/ Tap(i)
           \/ \E low \in {FALSE, node.lowPower}, bad \in SUBSET Sensors : CheckIdle(low, bad)
           \/ \E i \in Sensors, enabled \in BOOLEAN : activate(i, enabled)
           \/ \E mode \in {"NORMAL", "DATA_INJECTION"} : setOperationMode(mode)
           \/ initialize \/ Destroy \/ Panel \/ Crash \/ Tick \/ UNCHANGED vars
BY TapAssumption, Zenon DEF Next, Thread, Sensors, Fails

\* A set of sensors has a number of members, 0 only if it is empty.
LEMMA Counted ==
    ASSUME NEW S \in SUBSET Sensors
    PROVE  Cardinality(S) \in Nat /\ (Cardinality(S) = 0 => S = {})
<1>1. IsFiniteSet({"single"}) /\ Sensors = {"single"} \cup {"double"}
  BY FS_Singleton DEF Sensors
<1>2. IsFiniteSet(Sensors)
  BY <1>1, FS_AddElement
<1> QED BY <1>2, FS_Subset, FS_CardinalityType, FS_EmptySet

\* Every variable keeps its range.
LEMMA RangesKept ==
    ASSUME TapInv, [Next]_vars
    PROVE  Ranges'
<1> USE TapAssumption DEF TapInv, Ranges, shared, history
<1>1. CASE TakeOver
  <2>1. PICK bad \in SUBSET node.on, gone \in BOOLEAN :
         /\ Fault(Cardinality(bad))
         /\ thread' = [thread EXCEPT !.pc = "wait", !.armed = node.on \ bad]
         /\ node' = [node EXCEPT !.reported = IF node.on = bad /\ ~gone THEN @ ELSE {}]
    BY <1>1, Zenon DEF TakeOver
  <2>2. bad \in SUBSET Sensors /\ faults' \in Nat
    BY <2>1, Counted DEF NodeRecord, Fault
  <2>3. thread' \in ThreadRecord
    BY <2>1, Zenon DEF ThreadRecord, NodeRecord
  <2>4. node' \in NodeRecord
    BY <2>1 DEF NodeRecord
  <2> QED BY <1>1, <2>2, <2>3, <2>4 DEF TakeOver
<1>2. CASE Round
  <2>1. thread' \in ThreadRecord
    BY <1>2, HeldTap, Zenon DEF Round, fire, ThreadRecord
  <2>2. mWantArmed' \in SUBSET Sensors /\ fired' \in [Sensors -> Nat] /\ mEarlyAt' \in Nat /\ mEarlyDue' \in Nat
    BY <1>2, HeldTap DEF Round, fire
  <2> QED BY <1>2, <2>1, <2>2 DEF Round
<1>3. CASE Poll
  <2>1. thread' \in ThreadRecord /\ node' \in NodeRecord
    BY <1>3, Zenon DEF Poll, ThreadRecord, NodeRecord
  <2> QED BY <1>3, <2>1, Zenon DEF Poll
<1>4. CASE report
  <2>1. thread' \in ThreadRecord
    BY <1>4, Zenon DEF report, ThreadRecord
  <2> QED BY <1>4, <2>1 DEF report, fire
<1>5. CASE Leave
  <2>1. thread' \in ThreadRecord /\ node' \in NodeRecord
    BY <1>5, Zenon DEF Leave, FreshThread, ThreadRecord, NodeRecord
  <2> QED BY <1>5, <2>1 DEF Leave
<1>6. ASSUME NEW i \in Sensors, arm(i) \/ GiveUp(i) \/ Tap(i)
      PROVE  Ranges'
  <2>1. CASE arm(i)
    <3>1. thread' \in ThreadRecord
      BY <2>1, Zenon DEF arm, ThreadRecord
    <3>2. node' \in NodeRecord
      BY <2>1, Zenon DEF arm, NodeRecord
    <3> QED BY <2>1, <3>1, <3>2 DEF arm
  <2>2. CASE GiveUp(i)
    <3>1. thread' \in ThreadRecord
      BY <2>2 DEF GiveUp, ThreadRecord
    <3>2. node' \in NodeRecord
      BY <2>2 DEF GiveUp, NodeRecord
    <3>3. faults' \in Nat
      BY <2>2 DEF GiveUp, Fault
    <3> QED BY <2>2, <3>1, <3>2, <3>3 DEF GiveUp
  <2>3. CASE Tap(i)
    <3>1. node' \in NodeRecord
      BY <2>3 DEF Tap, NodeRecord
    <3> QED BY <2>3, <3>1 DEF Tap
  <2> QED BY <1>6, <2>1, <2>2, <2>3
<1>7. ASSUME NEW low \in {FALSE, node.lowPower}, NEW bad \in SUBSET Sensors, CheckIdle(low, bad)
      PROVE  Ranges'
  <2> DEFINE unused == thread.armed \ thread.want
             off == {i \in unused : low /\ thread.idleSince[i] # 0 /\ clock - thread.idleSince[i] >= kIdleNs}
             until == IF thread.armed \ off = {} THEN 0 ELSE PollUntil(unused \ off # {})
             idleSince == [i \in Sensors |-> IF ~low \/ i \notin unused \ off THEN 0
                             ELSE IF thread.idleSince[i] = 0 THEN clock ELSE thread.idleSince[i]]
  <2>4. until \in Nat
    BY PollEnds, Zenon
  <2>5. idleSince \in [Sensors -> Nat]
    BY DEF ThreadRecord
  <2>6. thread' = [thread EXCEPT !.pc = IF thread.armed \ off = {} THEN "wait" ELSE "poll",
                      !.armed = thread.armed \ off, !.want = {}, !.earlyDue = 0,
                      !.idleSince = idleSince, !.until = until]
    BY <1>7 DEF CheckIdle
  <2>1. thread' \in ThreadRecord
    <3> HIDE DEF until, idleSince, off
    <3> QED BY <2>4, <2>5, <2>6, Zenon DEF ThreadRecord
  <2>2. node' \in NodeRecord /\ quiet' \in [Sensors -> Nat]
    BY <1>7 DEF CheckIdle, NodeRecord
  <2>3. faults' \in Nat
    BY <1>7, Counted DEF CheckIdle, Fault
  <2> QED BY <1>7, <2>1, <2>2, <2>3 DEF CheckIdle
<1>8. ASSUME NEW i \in Sensors, NEW enabled \in BOOLEAN, activate(i, enabled)
      PROVE  Ranges'
  BY <1>8 DEF activate, wakeThread
<1>9. CASE \E mode \in {"NORMAL", "DATA_INJECTION"} : setOperationMode(mode)
  BY <1>9 DEF setOperationMode
<1>10. CASE initialize \/ Destroy
  <2>1. CASE initialize
    <3>1. fired' \in [Sensors -> Nat]
      BY <2>1 DEF initialize, Inactive
    <3>2. crashes' \in Nat
      BY <2>1 DEF initialize
    <3> QED BY <2>1, <3>1, <3>2 DEF initialize, Inactive, wakeThread
  <2>2. CASE Destroy
    BY <2>2 DEF Destroy, wakeThread
  <2> QED BY <1>10, <2>1, <2>2
<1>11. CASE Panel
  <2>1. node' \in NodeRecord
    BY <1>11, Zenon DEF Panel, NodeRecord
  <2> QED BY <1>11, <2>1 DEF Panel
<1>12. CASE Crash
  <2>1. FreshThread \in ThreadRecord
    BY DEF FreshThread, ThreadRecord
  <2>2. fired' \in [Sensors -> Nat] /\ quiet' \in [Sensors -> Nat]
    BY <1>12 DEF Crash, Inactive
  <2>3. crashes' \in Nat
    BY <1>12 DEF Crash
  <2> QED BY <1>12, <2>1, <2>2, <2>3, Zenon DEF Crash, Inactive, wakeThread
<1>13. CASE Tick
  BY <1>13 DEF Tick
<1>14. CASE UNCHANGED vars
  BY <1>14 DEF vars
<1>15. CASE Fails
  <2>1. thread' \in ThreadRecord
    <3>1. thread' \in {[thread EXCEPT !.pc = "wait"], [thread EXCEPT !.pc = "wait", !.until = 0]}
      BY <1>15 DEF Fails, TakeOverFails, PollFails, ReportFails
    <3>2. CASE thread' = [thread EXCEPT !.pc = "wait"]
      BY <3>2, Zenon DEF ThreadRecord
    <3>3. CASE thread' = [thread EXCEPT !.pc = "wait", !.until = 0]
      BY <3>3, Zenon DEF ThreadRecord
    <3> QED BY <3>1, <3>2, <3>3
  <2>2. node' \in NodeRecord
    BY <1>15 DEF Fails, TakeOverFails, PollFails, ReportFails, NodeRecord
  <2>3. faults' \in Nat
    BY <1>15 DEF Fails, TakeOverFails, PollFails, ReportFails, Fault
  <2> QED BY <1>15, <2>1, <2>2, <2>3 DEF Fails, TakeOverFails, PollFails, ReportFails
<1> QED BY <1>1, <1>2, <1>3, <1>4, <1>5, <1>6, <1>7, <1>8, <1>9, <1>10, <1>11, <1>12, <1>13, <1>14, <1>15,
        Steps, Zenon


-----------------------------------------------------------------------------
(* What the thread's steps do to the fields of its record and of the node. *)

\* Round: the copy of what is wanted.
LEMMA RoundFields ==
    ASSUME Ranges, Round
    PROVE  /\ thread'.armed = thread.armed /\ thread'.idleSince = thread.idleSince
           /\ thread'.until = thread.until /\ thread'.gestures = thread.gestures
           /\ thread'.pc = "round" /\ thread'.want = mWantArmed'
           /\ thread'.todo = mWantArmed' \ thread.armed /\ thread'.earlyDue = fireEarly.next
           /\ thread'.wakelock = (fireEarly.next # 0)
BY DEF Ranges, ThreadRecord, NodeRecord, Round

\* arm: one gesture goes on.
LEMMA ArmFields ==
    ASSUME Ranges, NEW i, arm(i)
    PROVE  /\ thread'.pc = thread.pc /\ thread'.want = thread.want
           /\ thread'.idleSince = thread.idleSince /\ thread'.earlyDue = thread.earlyDue
           /\ thread'.wakelock = thread.wakelock /\ thread'.until = thread.until
           /\ thread'.gestures = thread.gestures /\ thread'.armed = thread.armed \cup {i}
           /\ thread'.todo = thread.todo \ {i} /\ node'.on = node.on \cup {i}
           /\ node'.lowPower = node.lowPower
           /\ (thread.armed # {} => node'.reported = node.reported)
BY DEF Ranges, ThreadRecord, NodeRecord, arm

\* GiveUp: one sensor is given up.
LEMMA GiveUpFields ==
    ASSUME Ranges, NEW i, GiveUp(i)
    PROVE  /\ thread'.pc = thread.pc /\ thread'.armed = thread.armed
           /\ thread'.want = thread.want /\ thread'.idleSince = thread.idleSince
           /\ thread'.earlyDue = thread.earlyDue /\ thread'.wakelock = thread.wakelock
           /\ thread'.until = thread.until /\ thread'.gestures = thread.gestures
           /\ thread'.todo = thread.todo \ {i} /\ node'.on = node.on
           /\ node'.lowPower = node.lowPower
           /\ (thread.armed # {} => node'.reported = node.reported)
BY DEF Ranges, ThreadRecord, NodeRecord, GiveUp

\* Poll: what was reported is read.
LEMMA PollFields ==
    ASSUME Ranges, Poll
    PROVE  /\ thread'.armed = thread.armed /\ thread'.want = thread.want
           /\ thread'.todo = thread.todo /\ thread'.idleSince = thread.idleSince
           /\ thread'.earlyDue = thread.earlyDue /\ thread'.wakelock = thread.wakelock
           /\ thread'.pc = (IF node.reported = {} THEN "wait" ELSE "report") /\ thread'.until = 0
           /\ thread'.gestures = node.reported /\ node'.on = node.on
           /\ node'.lowPower = node.lowPower
BY DEF Ranges, ThreadRecord, NodeRecord, Poll

\* A failing node: the thread starts over, and the driver keeps what is on.
LEMMA FailsFields ==
    ASSUME Ranges, Fails
    PROVE  /\ thread'.armed = thread.armed /\ thread'.want = thread.want
           /\ thread'.todo = thread.todo /\ thread'.idleSince = thread.idleSince
           /\ thread'.earlyDue = thread.earlyDue /\ thread'.wakelock = thread.wakelock
           /\ thread'.gestures = thread.gestures /\ thread'.pc = "wait"
           /\ thread.pc \in {"takeover", "poll"}
           /\ node'.on = node.on /\ node'.lowPower = node.lowPower
           /\ faults' = faults + 1 /\ faults' <= MaxFaults
           /\ UNCHANGED <<clock, crashes, shared, history>>
<1>1. thread' \in {[thread EXCEPT !.pc = "wait"], [thread EXCEPT !.pc = "wait", !.until = 0]}
  BY DEF Fails, TakeOverFails, PollFails, ReportFails
<1>2. \E gone \in BOOLEAN : node' = [node EXCEPT !.reported = IF gone THEN {} ELSE node.reported]
  BY DEF Fails, TakeOverFails, PollFails, ReportFails, Ranges, NodeRecord
<1>3. /\ thread.pc \in {"takeover", "poll"} /\ faults' = faults + 1 /\ faults' <= MaxFaults
      /\ UNCHANGED <<clock, crashes, shared, history>>
  BY DEF Fails, TakeOverFails, PollFails, ReportFails, Fault
<1> QED BY <1>1, <1>2, <1>3 DEF Ranges, ThreadRecord, NodeRecord

\* report: what was read is dealt with.
LEMMA ReportFields ==
    ASSUME Ranges, report
    PROVE  /\ thread'.armed = thread.armed /\ thread'.want = thread.want
           /\ thread'.todo = thread.todo /\ thread'.idleSince = thread.idleSince
           /\ thread'.earlyDue = thread.earlyDue /\ thread'.wakelock = thread.wakelock
           /\ thread'.until = thread.until /\ thread'.pc = "wait" /\ thread'.gestures = {}
BY DEF Ranges, ThreadRecord, NodeRecord, report

\* Leave: all is off.
LEMMA LeaveFields ==
    ASSUME Ranges, Leave
    PROVE  /\ thread'.pc = "done" /\ thread'.armed = {} /\ thread'.want = {} /\ thread'.todo = {}
           /\ thread'.gestures = {} /\ thread'.until = 0
           /\ thread'.idleSince = [i \in Sensors |-> 0] /\ node'.on = node.on \ thread.armed
           /\ node'.reported = node.reported /\ node'.lowPower = node.lowPower
BY DEF Ranges, ThreadRecord, NodeRecord, Leave, FreshThread

\* TakeOver, by the set of gestures that cannot be armed.
TakesOver(bad) ==
    /\ Fault(Cardinality(bad))
    /\ thread'.pc = "wait" /\ thread'.armed = node.on \ bad /\ thread'.want = thread.want
    /\ thread'.todo = thread.todo /\ thread'.idleSince = thread.idleSince
    /\ thread'.until = thread.until /\ thread'.gestures = thread.gestures
    /\ thread'.wakelock = thread.wakelock /\ thread'.earlyDue = thread.earlyDue
    /\ node'.on = node.on /\ node'.lowPower = node.lowPower

\* TakeOver: the gestures that are on and can be armed.
LEMMA TakeOverFields ==
    ASSUME Ranges, TakeOver
    PROVE  \E bad \in SUBSET Sensors : TakesOver(bad)
<1>1. PICK bad \in SUBSET node.on, gone \in BOOLEAN :
        /\ Fault(Cardinality(bad))
        /\ thread' = [thread EXCEPT !.pc = "wait", !.armed = node.on \ bad]
        /\ node' = [node EXCEPT !.reported = IF node.on = bad /\ ~gone THEN @ ELSE {}]
  BY Zenon DEF TakeOver
<1>2. bad \in SUBSET Sensors
  BY DEF Ranges, NodeRecord
<1> QED BY <1>1, <1>2 DEF TakesOver, Ranges, ThreadRecord, NodeRecord

\* CheckIdle, by the set of gestures it turns off.
TurnsOff(low, bad, off) ==
    /\ \A i \in thread.armed \ thread.want :
         i \in off <=> /\ low /\ thread.idleSince[i] # 0
                       /\ clock >= thread.idleSince[i] + kIdleNs
    /\ bad \subseteq off
    /\ thread'.pc = (IF thread.armed \ off = {} THEN "wait" ELSE "poll")
    /\ thread'.armed = thread.armed \ off /\ thread'.want = {} /\ thread'.todo = {}
    /\ thread'.wakelock = thread.wakelock /\ thread'.gestures = thread.gestures
    /\ \A i \in Sensors : thread'.idleSince[i] =
         IF ~low \/ i \notin (thread.armed \ thread.want) \ off THEN 0
         ELSE IF thread.idleSince[i] = 0 THEN clock ELSE thread.idleSince[i]
    /\ thread'.until <= clock + kIdleCheckMs
    /\ thread.armed \ off # {} /\ (thread.earlyDue # 0 \/ (thread.armed \ thread.want) \ off # {})
         => thread'.until # 0
    /\ \A i \in Sensors : quiet'[i] = IF i \in off THEN 0 ELSE quiet[i]
    /\ node'.on = node.on \ (off \ bad)
    /\ node'.reported = node.reported /\ node'.lowPower = node.lowPower

\* CheckIdle: gestures unused for kIdleNs go off, the others are noted as idle.
LEMMA CheckIdleFields ==
    ASSUME Ranges, NEW low \in BOOLEAN, NEW bad \in SUBSET Sensors, CheckIdle(low, bad)
    PROVE  \E off \in SUBSET (thread.armed \ thread.want) : TurnsOff(low, bad, off)
<1> DEFINE unused == thread.armed \ thread.want
           off == {i \in unused : low /\ thread.idleSince[i] # 0 /\ clock - thread.idleSince[i] >= kIdleNs}
           until == IF thread.armed \ off = {} THEN 0 ELSE PollUntil(unused \ off # {})
           idleSince == [i \in Sensors |-> IF ~low \/ i \notin unused \ off THEN 0
                           ELSE IF thread.idleSince[i] = 0 THEN clock ELSE thread.idleSince[i]]
<1>0. clock + kIdleCheckMs \in Nat
  BY TapAssumption DEF Ranges
<1>1. (unused \ off # {}) \in BOOLEAN /\ PollUntil(unused \ off # {}) <= clock + kIdleCheckMs
  <2> DEFINE idle == unused \ off # {}
  <2>1. idle \in BOOLEAN
    OBVIOUS
  <2> HIDE DEF idle
  <2>2. PollUntil(idle) <= clock + kIdleCheckMs
    BY <2>1, PollEnds
  <2> QED BY <2>1, <2>2 DEF idle
<1>2. thread.armed \ off # {} /\ (thread.earlyDue # 0 \/ unused \ off # {}) => until # 0
  BY PollEnds, Zenon
<1>3. thread' = [thread EXCEPT !.pc = IF thread.armed \ off = {} THEN "wait" ELSE "poll",
                    !.armed = thread.armed \ off, !.want = {}, !.earlyDue = 0,
                    !.idleSince = idleSince, !.until = until]
  BY DEF CheckIdle
<1>4. /\ thread'.pc = (IF thread.armed \ off = {} THEN "wait" ELSE "poll")
      /\ thread'.armed = thread.armed \ off /\ thread'.want = {} /\ thread'.todo = thread.todo
      /\ thread'.wakelock = thread.wakelock /\ thread'.gestures = thread.gestures
      /\ thread'.idleSince = idleSince /\ thread'.until = until
  <2> HIDE DEF until, idleSince, off
  <2> QED BY <1>3 DEF Ranges, ThreadRecord
<1>5. \A i \in unused : i \in off <=> /\ low /\ thread.idleSince[i] # 0
                                      /\ clock >= thread.idleSince[i] + kIdleNs
  BY TapAssumption DEF Ranges, ThreadRecord
<1>6. /\ bad \subseteq off /\ thread.todo = {}
      /\ quiet' = [i \in Sensors |-> IF i \in off THEN 0 ELSE quiet[i]]
      /\ node' = [node EXCEPT !.on = @ \ (off \ bad)]
  BY DEF CheckIdle
<1>7. /\ node'.on = node.on \ (off \ bad)
      /\ node'.reported = node.reported /\ node'.lowPower = node.lowPower
  <2> HIDE DEF off
  <2> QED BY <1>6 DEF Ranges, NodeRecord
<1>8. \A i \in Sensors : idleSince[i] = IF ~low \/ i \notin unused \ off THEN 0
                                        ELSE IF thread.idleSince[i] = 0 THEN clock ELSE thread.idleSince[i]
  OBVIOUS
<1>9. \A i \in Sensors : quiet'[i] = IF i \in off THEN 0 ELSE quiet[i]
  BY <1>6
<1>10. off \in SUBSET unused
  OBVIOUS
<1>11. until <= clock + kIdleCheckMs
  BY <1>0, <1>1
<1> HIDE DEF off, until, idleSince
<1> QED BY <1>2, <1>4, <1>5, <1>6, <1>7, <1>8, <1>9, <1>10, <1>11 DEF TurnsOff


-----------------------------------------------------------------------------
(* The other parts of the invariant. *)

\* The fields' ranges.
LEMMA Fields ==
    ASSUME Ranges
    PROVE  /\ thread.armed \subseteq Sensors /\ thread.want \subseteq Sensors
           /\ thread.todo \subseteq Sensors /\ thread.gestures \subseteq Sensors
           /\ thread.idleSince \in [Sensors -> Nat] /\ thread.until \in Nat /\ thread.earlyDue \in Nat
           /\ node.on \subseteq Sensors /\ node.reported \subseteq Sensors /\ node.lowPower \in BOOLEAN
           /\ thread.pc \in {"takeover", "wait", "round", "poll", "report", "done"}
           /\ thread.wakelock \in BOOLEAN
BY DEF Ranges, ThreadRecord, NodeRecord

\* The thread before its first round.
LEMMA FreshFields ==
    /\ FreshThread.pc = "takeover" /\ FreshThread.armed = {} /\ FreshThread.want = {}
    /\ FreshThread.todo = {} /\ FreshThread.gestures = {} /\ FreshThread.until = 0
    /\ FreshThread.earlyDue = 0 /\ \A i \in Sensors : FreshThread.idleSince[i] = 0
BY DEF FreshThread

\* The thread's variables keep to its place.
LEMMA PlacesKept ==
    ASSUME TapInv, [Next]_vars
    PROVE  Places'
<1> USE DEF TapInv, Places, shared, history
<1>0. Ranges
  OBVIOUS
<1>1. CASE TakeOver
  BY <1>0, <1>1, TakeOverFields, Zenon DEF TakeOver, TakesOver
<1>2. CASE Round
  BY <1>0, <1>2, RoundFields DEF Round
<1>3. CASE Poll
  BY <1>0, <1>3, PollFields DEF Poll
<1>4. CASE report
  BY <1>0, <1>4, ReportFields DEF report
<1>5. CASE Leave
  BY <1>0, <1>5, LeaveFields DEF Leave
<1>6. ASSUME NEW i \in Sensors, arm(i) \/ GiveUp(i) \/ Tap(i)
      PROVE  Places'
  <2>1. CASE arm(i)
    BY <1>0, <2>1, ArmFields, Zenon DEF arm
  <2>2. CASE GiveUp(i)
    BY <1>0, <2>2, GiveUpFields DEF GiveUp
  <2>3. CASE Tap(i)
    BY <1>0, <2>3 DEF Tap, Ranges, NodeRecord
  <2> QED BY <1>6, <2>1, <2>2, <2>3
<1>7. ASSUME NEW low \in {FALSE, node.lowPower}, NEW bad \in SUBSET Sensors, CheckIdle(low, bad)
      PROVE  Places'
  <2>1. low \in BOOLEAN
    BY <1>0, Fields, Zenon
  <2>2. PICK off \in SUBSET (thread.armed \ thread.want) : TurnsOff(low, bad, off)
    BY <1>0, <1>7, <2>1, CheckIdleFields
  <2>3. thread.pc = "round"
    BY <1>7 DEF CheckIdle
  <2> QED BY <2>2, <2>3 DEF TurnsOff
<1>8. CASE \E i \in Sensors, enabled \in BOOLEAN : activate(i, enabled)
  BY <1>8 DEF activate
<1>9. CASE \E mode \in {"NORMAL", "DATA_INJECTION"} : setOperationMode(mode)
  BY <1>9 DEF setOperationMode
<1>10. CASE initialize \/ Destroy
  BY <1>10 DEF initialize, Destroy
<1>11. CASE Panel
  BY <1>11 DEF Panel, Ranges, NodeRecord
<1>12. CASE Crash
  BY <1>12, FreshFields DEF Crash
<1>13. CASE Tick
  BY <1>13 DEF Tick
<1>14. CASE UNCHANGED vars
  BY <1>14 DEF vars
<1>15. CASE Fails
  BY <1>0, <1>15, FailsFields
<1> QED BY <1>1, <1>2, <1>3, <1>4, <1>5, <1>6, <1>7, <1>8, <1>9, <1>10, <1>11, <1>12, <1>13, <1>14, <1>15,
        Steps, Zenon

\* Every variable stays within its bounds.
LEMMA LimitsKept ==
    ASSUME TapInv, [Next]_vars
    PROVE  Limits'
<1> USE TapAssumption DEF TapInv, Limits, shared, history
<1>0. Ranges /\ Places
  OBVIOUS
<1>a. /\ clock \in Nat /\ faults \in Nat /\ crashes \in Nat /\ mEarlyAt \in Nat /\ mEarlyDue \in Nat
      /\ thread.idleSince \in [Sensors -> Nat]
  BY <1>0, Fields DEF Ranges
<1>1. CASE TakeOver
  <2>1. PICK bad \in SUBSET Sensors : TakesOver(bad)
    BY <1>0, <1>1, TakeOverFields
  <2>2. thread.todo = {}
    BY <1>0, <1>1 DEF TakeOver, Places
  <2>3. faults' <= MaxFaults
    BY <1>a, <2>1, Counted DEF TakesOver, Fault
  <2> QED BY <1>1, <1>a, <2>1, <2>2, <2>3 DEF TakeOver, TakesOver
<1>2. CASE Round
  BY <1>0, <1>2, <1>a, RoundFields, HeldTap DEF Round
<1>3. CASE Poll
  BY <1>0, <1>3, <1>a, PollFields DEF Poll
<1>4. CASE report
  BY <1>0, <1>4, <1>a, ReportFields DEF report
<1>5. CASE Leave
  BY <1>0, <1>5, <1>a, LeaveFields DEF Leave
<1>6. ASSUME NEW i \in Sensors, arm(i) \/ GiveUp(i) \/ Tap(i)
      PROVE  Limits'
  <2>1. CASE arm(i)
    <3>1. thread'.todo \subseteq thread'.want \ thread'.armed /\ thread'.idleSince = thread.idleSince
      BY <1>0, <2>1, ArmFields
    <3> QED BY <2>1, <1>a, <3>1 DEF arm
  <2>2. CASE GiveUp(i)
    BY <1>0, <2>2, <1>a, GiveUpFields DEF GiveUp, Fault
  <2>3. CASE Tap(i)
    BY <2>3, <1>a DEF Tap
  <2> QED BY <1>6, <2>1, <2>2, <2>3
<1>7. ASSUME NEW low \in {FALSE, node.lowPower}, NEW bad \in SUBSET Sensors, CheckIdle(low, bad)
      PROVE  Limits'
  <2>1. low \in BOOLEAN
    BY <1>0, Fields, Zenon
  <2>2. faults' <= MaxFaults
    BY <1>7, <1>a, Counted DEF CheckIdle, Fault
  <2>3. thread'.todo \subseteq thread'.want \ thread'.armed /\ \A i \in Sensors : thread'.idleSince[i] <= clock
    BY <1>0, <1>7, <1>a, <2>1, CheckIdleFields DEF TurnsOff
  <2> QED BY <1>7, <1>a, <2>2, <2>3 DEF CheckIdle
<1>8. CASE \E i \in Sensors, enabled \in BOOLEAN : activate(i, enabled)
  BY <1>8 DEF activate
<1>9. CASE \E mode \in {"NORMAL", "DATA_INJECTION"} : setOperationMode(mode)
  BY <1>9 DEF setOperationMode
<1>10. CASE initialize \/ Destroy
  BY <1>10, <1>a DEF initialize, Destroy, Inactive
<1>11. CASE Panel
  BY <1>11 DEF Panel
<1>12. CASE Crash
  BY <1>12, <1>a, FreshFields DEF Crash, Inactive
<1>13. CASE Tick
  BY <1>13, <1>a DEF Tick
<1>14. CASE UNCHANGED vars
  BY <1>14 DEF vars
<1>15. CASE Fails
  BY <1>0, <1>a, <1>15, FailsFields DEF Places
<1> QED BY <1>1, <1>2, <1>3, <1>4, <1>5, <1>6, <1>7, <1>8, <1>9, <1>10, <1>11, <1>12, <1>13, <1>14, <1>15,
        Steps, Zenon


\* A gesture has fired since its activation exactly if it is inactive.
LEMMA ShotsKept ==
    ASSUME TapInv, [Next]_vars
    PROVE  Shots'
<1> USE DEF TapInv, Shots, shared, history
<1>0. Ranges /\ fired \in [Sensors -> Nat]
  BY DEF Ranges
<1>1. CASE TakeOver \/ Poll \/ Leave
  BY <1>1, Zenon DEF TakeOver, Poll, Leave
<1>2. CASE Round
  BY <1>0, <1>2, HeldTap DEF Round, fire
<1>3. CASE report
  BY <1>0, <1>3 DEF report, fire
<1>4. ASSUME NEW i \in Sensors, arm(i) \/ GiveUp(i) \/ Tap(i)
      PROVE  Shots'
  BY <1>0, <1>4 DEF arm, GiveUp, Tap
<1>5. ASSUME NEW low, NEW bad, CheckIdle(low, bad)
      PROVE  Shots'
  BY <1>5 DEF CheckIdle
<1>6. ASSUME NEW i \in Sensors, NEW enabled \in BOOLEAN, activate(i, enabled)
      PROVE  Shots'
  BY <1>0, <1>6 DEF activate
<1>7. CASE \E mode \in {"NORMAL", "DATA_INJECTION"} : setOperationMode(mode)
  BY <1>7 DEF setOperationMode
<1>8. CASE initialize \/ Crash
  BY <1>8 DEF initialize, Crash, Inactive
<1>9. CASE Destroy \/ Panel \/ Tick \/ UNCHANGED vars
  BY <1>9 DEF Destroy, Panel, Tick, vars
<1>10. CASE Fails
  BY <1>0, <1>10, FailsFields
<1> QED BY <1>1, <1>2, <1>3, <1>4, <1>5, <1>6, <1>7, <1>8, <1>9, <1>10, Steps, Zenon

\* A scheduled tap stays recent.
LEMMA HeldKept ==
    ASSUME TapInv, [Next]_vars
    PROVE  Held'
<1> USE TapAssumption DEF TapInv, Held, shared, history
<1>0. Ranges
  OBVIOUS
<1>a. clock \in Nat /\ mEarlyAt \in Nat /\ mEarlyDue \in Nat
  BY DEF Ranges
<1>1. CASE TakeOver \/ Poll \/ Leave
  BY <1>1, Zenon DEF TakeOver, Poll, Leave
<1>2. CASE Round
  BY <1>0, <1>a, <1>2, HeldTap DEF Round
<1>3. CASE report
  BY <1>0, <1>3 DEF report
<1>4. ASSUME NEW i \in Sensors, arm(i) \/ GiveUp(i) \/ Tap(i)
      PROVE  Held'
  BY <1>4 DEF arm, GiveUp, Tap
<1>5. ASSUME NEW low, NEW bad, CheckIdle(low, bad)
      PROVE  Held'
  BY <1>5 DEF CheckIdle
<1>6. CASE \E i \in Sensors, enabled \in BOOLEAN : activate(i, enabled)
  BY <1>6 DEF activate
<1>7. CASE \E mode \in {"NORMAL", "DATA_INJECTION"} : setOperationMode(mode)
  BY <1>7 DEF setOperationMode
<1>8. CASE initialize \/ Crash
  BY <1>8 DEF initialize, Crash, Inactive
<1>9. CASE Destroy \/ Panel \/ Tick \/ UNCHANGED vars
  BY <1>9 DEF Destroy, Panel, Tick, vars
<1>10. CASE Fails
  BY <1>0, <1>10, FailsFields
<1> QED BY <1>1, <1>2, <1>3, <1>4, <1>5, <1>6, <1>7, <1>8, <1>9, <1>10, Steps, Zenon

\* The thread's copy of what is wanted stays right until something wakes it.
LEMMA CopyKept ==
    ASSUME TapInv, [Next]_vars
    PROVE  Copy'
<1> USE DEF TapInv, Copy, shared, history
<1>0. Ranges /\ Limits
  OBVIOUS
<1>1. CASE TakeOver
  BY <1>0, <1>1, TakeOverFields DEF TakesOver
<1>2. CASE Round
  <2>1. fireEarly.due # 0 => fireEarly.next # 0
    BY <1>0, HeldTap
  <2> QED BY <1>0, <1>2, <2>1, RoundFields, Zenon DEF Round
<1>3. CASE Poll
  BY <1>0, <1>3, PollFields
<1>4. CASE report
  BY <1>0, <1>4, ReportFields
<1>5. CASE Leave
  BY <1>0, <1>5, LeaveFields
<1>6. ASSUME NEW i \in Sensors, arm(i) \/ GiveUp(i) \/ Tap(i)
      PROVE  Copy'
  <2>1. CASE arm(i)
    <3>1. i \in thread.todo /\ thread.pc = "round"
      BY <2>1 DEF arm, Turn
    <3>2. /\ thread'.pc = "round" /\ thread'.want = thread.want
          /\ thread'.armed = thread.armed \cup {i} /\ thread'.todo = thread.todo \ {i}
          /\ thread'.wakelock = thread.wakelock /\ thread'.earlyDue = thread.earlyDue
      BY <1>0, <2>1, <3>1, ArmFields
    <3>3. thread'.armed \cup thread'.todo = thread.armed \cup thread.todo
      BY <3>1, <3>2
    <3> QED BY <2>1, <3>1, <3>2, <3>3 DEF arm
  <2>2. CASE GiveUp(i)
    <3>1. /\ thread.pc = "round" /\ thread'.pc = "round" /\ thread'.want = thread.want
          /\ thread'.armed = thread.armed /\ thread'.todo = thread.todo \ {i}
          /\ thread'.wakelock = thread.wakelock /\ thread'.earlyDue = thread.earlyDue
      BY <1>0, <2>2, GiveUpFields DEF GiveUp
    <3>2. i \notin thread.armed /\ mWantArmed' = mWantArmed \ {i}
      BY <1>0, <2>2 DEF GiveUp, Turn, Limits
    <3> QED BY <2>2, <3>1, <3>2 DEF GiveUp
  <2>3. CASE Tap(i)
    BY <2>3 DEF Tap
  <2> QED BY <1>6, <2>1, <2>2, <2>3
<1>7. ASSUME NEW low \in {FALSE, node.lowPower}, NEW bad \in SUBSET Sensors, CheckIdle(low, bad)
      PROVE  Copy'
  <2>1. low \in BOOLEAN
    BY <1>0, Fields, Zenon
  <2>2. PICK off \in SUBSET (thread.armed \ thread.want) : TurnsOff(low, bad, off)
    BY <1>0, <1>7, <2>1, CheckIdleFields
  <2>3. /\ thread.pc = "round" /\ thread.todo = {} /\ mWantArmed' = mWantArmed
        /\ mEarlyDue' = mEarlyDue /\ mWakeFd' = mWakeFd
    BY <1>7 DEF CheckIdle
  <2> QED BY <2>2, <2>3 DEF TurnsOff
<1>8. CASE \E i \in Sensors, enabled \in BOOLEAN : activate(i, enabled)
  BY <1>8 DEF activate, wakeThread
<1>9. CASE \E mode \in {"NORMAL", "DATA_INJECTION"} : setOperationMode(mode)
  BY <1>9 DEF setOperationMode
<1>10. CASE initialize \/ Destroy
  BY <1>10 DEF initialize, Destroy, Inactive, wakeThread
<1>11. CASE Panel
  BY <1>11 DEF Panel
<1>12. CASE Crash
  BY <1>12 DEF Crash, Inactive, wakeThread
<1>13. CASE Tick
  BY <1>13 DEF Tick
<1>14. CASE UNCHANGED vars
  BY <1>14 DEF vars
<1>15. CASE Fails
  BY <1>0, <1>15, FailsFields
<1> QED BY <1>1, <1>2, <1>3, <1>4, <1>5, <1>6, <1>7, <1>8, <1>9, <1>10, <1>11, <1>12, <1>13, <1>14, <1>15,
        Steps, Zenon

\* An unused gesture limits every poll.
LEMMA CheckKept ==
    ASSUME TapInv, [Next]_vars
    PROVE  Check'
<1> USE TapAssumption DEF TapInv, Check, shared, history
<1>0. Ranges
  OBVIOUS
<1>a. clock \in Nat /\ thread.until \in Nat /\ thread.idleSince \in [Sensors -> Nat]
  BY Fields DEF Ranges
<1>1. CASE TakeOver
  BY <1>0, <1>1, TakeOverFields DEF TakesOver
<1>2. CASE Round
  BY <1>0, <1>2, RoundFields
<1>3. CASE Poll
  BY <1>0, <1>3, PollFields
<1>4. CASE report
  BY <1>0, <1>4, ReportFields
<1>5. CASE Leave
  BY <1>0, <1>5, LeaveFields
<1>6. ASSUME NEW i \in Sensors, arm(i) \/ GiveUp(i) \/ Tap(i)
      PROVE  Check'
  <2>1. CASE arm(i)
    BY <1>0, <2>1, ArmFields, Zenon DEF arm
  <2>2. CASE GiveUp(i)
    BY <1>0, <2>2, GiveUpFields DEF GiveUp
  <2>3. CASE Tap(i)
    BY <2>3 DEF Tap
  <2> QED BY <1>6, <2>1, <2>2, <2>3
<1>7. ASSUME NEW low \in {FALSE, node.lowPower}, NEW bad \in SUBSET Sensors, CheckIdle(low, bad)
      PROVE  Check'
  <2>1. low \in BOOLEAN
    BY <1>0, Fields, Zenon
  <2>2. PICK off \in SUBSET (thread.armed \ thread.want) : TurnsOff(low, bad, off)
    BY <1>0, <1>7, <2>1, CheckIdleFields
  <2>3. /\ thread.pc = "round" /\ thread.todo = {} /\ mWantArmed' = mWantArmed
        /\ mWakeFd' = mWakeFd /\ clock' = clock
    BY <1>7 DEF CheckIdle
  <2>4. SUFFICES ASSUME ~mWakeFd, NEW i \in thread'.armed \ mWantArmed
                 PROVE  /\ thread'.until # 0 /\ thread'.until <= clock + kIdleCheckMs
                        /\ thread'.idleSince[i] # 0
                             => thread'.until < thread'.idleSince[i] + kIdleNs + kIdleCheckMs
    BY <2>3
  <2>5. i \in (thread.armed \ thread.want) \ off /\ i \in Sensors
    BY <1>0, <2>2, <2>3, <2>4, Fields DEF Copy, TurnsOff
  <2>6. thread'.until \in Nat
    BY RangesKept DEF Ranges, ThreadRecord
  <2> QED BY <1>a, <2>2, <2>5, <2>6 DEF TurnsOff
<1>8. CASE \E i \in Sensors, enabled \in BOOLEAN : activate(i, enabled)
  BY <1>8 DEF activate, wakeThread
<1>9. CASE \E mode \in {"NORMAL", "DATA_INJECTION"} : setOperationMode(mode)
  BY <1>9 DEF setOperationMode
<1>10. CASE initialize \/ Destroy
  BY <1>10 DEF initialize, Destroy, Inactive, wakeThread
<1>11. CASE Panel
  BY <1>11 DEF Panel
<1>12. CASE Crash
  BY <1>12 DEF Crash, Inactive, wakeThread
<1>13. CASE Tick
  BY <1>13, <1>a DEF Tick
<1>14. CASE UNCHANGED vars
  BY <1>14 DEF vars
<1>15. CASE Fails
  BY <1>0, <1>15, FailsFields
<1> QED BY <1>1, <1>2, <1>3, <1>4, <1>5, <1>6, <1>7, <1>8, <1>9, <1>10, <1>11, <1>12, <1>13, <1>14, <1>15,
        Steps, Zenon

\* The driver stays with what was last armed.
LEMMA DriverKept ==
    ASSUME TapInv, [Next]_vars
    PROVE  DriverMatches'
<1> USE DEF TapInv, DriverMatches, shared, history
<1>0. Ranges /\ faults \in Nat
  BY DEF Ranges
<1>1. CASE TakeOver
  <2>1. PICK bad \in SUBSET Sensors : TakesOver(bad)
    BY <1>0, <1>1, TakeOverFields
  <2> QED BY <1>0, <2>1, Counted DEF TakesOver, Fault
<1>2. CASE Round
  BY <1>0, <1>2, RoundFields DEF Round
<1>3. CASE Poll
  BY <1>0, <1>3, PollFields DEF Poll
<1>4. CASE report
  BY <1>0, <1>4, ReportFields DEF report
<1>5. CASE Leave
  BY <1>0, <1>5, LeaveFields DEF Leave
<1>6. ASSUME NEW i \in Sensors, arm(i) \/ GiveUp(i) \/ Tap(i)
      PROVE  DriverMatches'
  <2>1. CASE arm(i)
    BY <1>0, <2>1, ArmFields, Zenon DEF arm
  <2>2. CASE GiveUp(i)
    BY <1>0, <2>2, GiveUpFields DEF GiveUp, Fault
  <2>3. CASE Tap(i)
    BY <2>3 DEF Tap, Ranges, NodeRecord
  <2> QED BY <1>6, <2>1, <2>2, <2>3
<1>7. ASSUME NEW low \in {FALSE, node.lowPower}, NEW bad \in SUBSET Sensors, CheckIdle(low, bad)
      PROVE  DriverMatches'
  <2>1. low \in BOOLEAN
    BY <1>0, Fields, Zenon
  <2>2. PICK off \in SUBSET (thread.armed \ thread.want) : TurnsOff(low, bad, off)
    BY <1>0, <1>7, <2>1, CheckIdleFields
  <2>3. thread.pc = "round" /\ Fault(Cardinality(bad) + IF low = node.lowPower THEN 0 ELSE 1)
    BY <1>7 DEF CheckIdle
  <2>4. faults' = 0 => faults = 0 /\ bad = {}
    BY <1>0, <2>3, Counted DEF Fault
  <2> QED BY <2>2, <2>3, <2>4 DEF TurnsOff
<1>8. CASE \E i \in Sensors, enabled \in BOOLEAN : activate(i, enabled)
  BY <1>8 DEF activate
<1>9. CASE \E mode \in {"NORMAL", "DATA_INJECTION"} : setOperationMode(mode)
  BY <1>9 DEF setOperationMode
<1>10. CASE initialize \/ Destroy
  BY <1>10 DEF initialize, Destroy
<1>11. CASE Panel
  BY <1>11 DEF Panel, Ranges, NodeRecord
<1>12. CASE Crash
  BY <1>12, FreshFields DEF Crash
<1>13. CASE Tick
  BY <1>13 DEF Tick
<1>14. CASE UNCHANGED vars
  BY <1>14 DEF vars
<1>15. CASE Fails
  BY <1>0, <1>15, FailsFields
<1> QED BY <1>1, <1>2, <1>3, <1>4, <1>5, <1>6, <1>7, <1>8, <1>9, <1>10, <1>11, <1>12, <1>13, <1>14, <1>15,
        Steps, Zenon


\* What Idle and the bound on quiet come to after a step that leaves the thread,
\* the clock and the node's power alone, and frees no sensor for gesture i.
LEMMA IdleFramed ==
    ASSUME NEW i \in Sensors, Idle(i),
           UNCHANGED <<clock, thread, node>>, faults' = 0 => faults = 0,
           quiet'[i] \in {0, quiet[i]}, quiet'[i] # 0 /\ i \notin mWantArmed => i \notin mWantArmed',
           mWakeFd' \in {TRUE, mWakeFd}, mWakeFd \in BOOLEAN
    PROVE  Idle(i)'
BY Zenon DEF Idle

\* The time a gesture has been idle stays within what the thread knows of it.
LEMMA IdleKept ==
    ASSUME TapInv, [Next]_vars, NEW i \in Sensors
    PROVE  Idle(i)'
<1> USE TapAssumption DEF shared, history
<1>0. /\ Ranges /\ Limits /\ Places /\ Copy /\ Check /\ DriverMatches /\ Idle(i)
      /\ faults \in Nat /\ clock \in Nat /\ quiet \in [Sensors -> Nat]
      /\ mWakeFd \in BOOLEAN /\ fired \in [Sensors -> Nat] /\ node.lowPower \in BOOLEAN
  BY Fields DEF TapInv, Ranges
<1>a. /\ thread.until \in Nat /\ thread.idleSince \in [Sensors -> Nat]
      /\ thread'.until \in Nat /\ thread'.idleSince \in [Sensors -> Nat]
  BY <1>0, RangesKept DEF Ranges, ThreadRecord
<1>1. CASE TakeOver
  <2>1. PICK bad \in SUBSET Sensors : TakesOver(bad)
    BY <1>0, <1>1, TakeOverFields
  <2>2. faults' = 0 => faults = 0
    BY <1>0, <2>1, Counted DEF TakesOver, Fault
  <2> QED BY <1>0, <1>1, <2>2 DEF TakeOver, Idle
<1>2. CASE Round
  <2>1. thread'.want = mWantArmed' /\ mWantArmed' \subseteq mWantArmed
    BY <1>0, <1>2, RoundFields DEF Round, fire
  <2> QED BY <1>0, <1>2, <2>1, RoundFields DEF Round, Idle
<1>3. CASE Poll
  BY <1>0, <1>3, PollFields DEF Poll, Idle
<1>4. CASE report
  <2>1. mWantArmed' \subseteq mWantArmed
    BY <1>4 DEF report, fire
  <2> QED BY <1>0, <1>4, <2>1, ReportFields DEF report, Idle
<1>5. CASE Leave
  BY <1>0, <1>5, LeaveFields DEF Idle
<1>6. ASSUME NEW j \in Sensors, arm(j) \/ GiveUp(j) \/ Tap(j)
      PROVE  Idle(i)'
  <2>1. CASE arm(j)
    <3>1. /\ thread'.pc = thread.pc /\ thread'.want = thread.want /\ thread'.idleSince = thread.idleSince
          /\ thread.armed \subseteq thread'.armed /\ thread'.until = thread.until
          /\ node'.lowPower = node.lowPower
      BY <1>0, <2>1, ArmFields
    <3> QED BY <1>0, <2>1, <3>1 DEF arm, Idle
  <2>2. CASE GiveUp(j)
    <3>1. faults' # 0
      BY <1>0, <2>2 DEF GiveUp, Fault
    <3> QED BY <3>1 DEF Idle
  <2>3. CASE Tap(j)
    <3>1. node'.lowPower = node.lowPower
      BY <1>0, <2>3, Zenon DEF Tap, Ranges, NodeRecord
    <3> QED BY <1>0, <2>3, <3>1 DEF Tap, Idle
  <2> QED BY <1>6, <2>1, <2>2, <2>3
<1>7. ASSUME NEW low \in {FALSE, node.lowPower}, NEW bad \in SUBSET Sensors, CheckIdle(low, bad)
      PROVE  Idle(i)'
  <2>1. low \in BOOLEAN
    BY <1>0, Zenon
  <2>2. PICK off \in SUBSET (thread.armed \ thread.want) : TurnsOff(low, bad, off)
    BY <1>0, <1>7, <2>1, CheckIdleFields
  <2>3. /\ thread.pc = "round" /\ mWantArmed' = mWantArmed /\ clock' = clock
        /\ Fault(Cardinality(bad) + IF low = node.lowPower THEN 0 ELSE 1)
    BY <1>7 DEF CheckIdle
  <2>4. SUFFICES ASSUME faults' = 0, quiet'[i] # 0
                 PROVE  Idle(i)'
    BY DEF Idle
  <2>5. faults = 0 /\ low = node.lowPower
    BY <1>0, <2>3, <2>4, Counted DEF Fault
  <2>6. quiet[i] # 0 /\ quiet'[i] = quiet[i] /\ i \notin off
    BY <2>2, <2>4 DEF TurnsOff
  <2>7. /\ low /\ i \in thread.armed /\ i \notin thread.want /\ i \notin mWantArmed
        /\ thread.idleSince[i] = 0 => quiet[i] <= kIdleCheckMs
        /\ thread.idleSince[i] # 0 => thread.idleSince[i] + quiet[i] <= clock + kIdleCheckMs
    BY <1>0, <2>3, <2>5, <2>6 DEF Idle
  <2>8. /\ thread'.pc = "poll" /\ i \in thread'.armed
        /\ thread'.idleSince[i] = IF thread.idleSince[i] = 0 THEN clock ELSE thread.idleSince[i]
        /\ thread.idleSince[i] # 0 => clock < thread.idleSince[i] + kIdleNs
    BY <1>0, <1>a, <2>2, <2>6, <2>7 DEF TurnsOff
  <2>9. clock # 0 /\ quiet[i] \in Nat /\ thread.idleSince[i] \in Nat
    BY <1>0, <1>a DEF Ranges
  <2>10. node'.lowPower = node.lowPower /\ thread'.pc # "takeover" /\ thread'.pc # "round"
    BY <2>2, <2>8 DEF TurnsOff
  <2>11. /\ thread'.idleSince[i] # 0
         /\ thread'.idleSince[i] + quiet[i] <= clock + kIdleCheckMs
         /\ clock < thread'.idleSince[i] + kIdleNs + kIdleCheckMs
    BY <1>0, <2>7, <2>8, <2>9
  <2> QED BY <2>3, <2>5, <2>6, <2>7, <2>8, <2>10, <2>11, Zenon DEF Idle
<1>8. ASSUME NEW j \in Sensors, NEW enabled \in BOOLEAN, activate(j, enabled)
      PROVE  Idle(i)'
  <2>1. i \in mWantArmed' /\ i \notin mWantArmed => quiet'[i] = 0
    BY <1>0, <1>8 DEF activate
  <2>2. quiet'[i] \in {0, quiet[i]}
    BY <1>0, <1>8 DEF activate
  <2> QED BY <1>0, <1>8, <2>1, <2>2, IdleFramed DEF activate, wakeThread
<1>9. CASE \E mode \in {"NORMAL", "DATA_INJECTION"} : setOperationMode(mode)
  BY <1>0, <1>9, IdleFramed DEF setOperationMode
<1>10. CASE initialize \/ Destroy
  BY <1>0, <1>10, IdleFramed, Zenon DEF initialize, Destroy, Inactive, wakeThread
<1>11. CASE Panel
  BY <1>11 DEF Panel, Idle
<1>12. CASE Crash
  BY <1>12 DEF Crash, Idle
<1>13. CASE Tick
  <2>1. SUFFICES ASSUME faults = 0, quiet'[i] # 0, thread.pc # "done"
                 PROVE  Idle(i)'
    BY <1>13 DEF Tick, Idle
  <2>2. Blocked /\ node.lowPower /\ i \in node.on \ mWantArmed /\ quiet'[i] = quiet[i] + 1
    BY <1>13, <2>1 DEF Tick
  <2>3. thread.pc # "takeover"
    BY <2>1, <2>2 DEF Blocked
  <2>4. i \in thread.armed
    BY <1>0, <2>1, <2>2, <2>3 DEF DriverMatches
  <2>5. /\ thread.pc = "poll" /\ ~mWakeFd /\ (thread.until = 0 \/ clock < thread.until)
    BY <2>1, <2>2, <2>4 DEF Blocked
  <2>6. /\ thread.until # 0 /\ thread.until <= clock + kIdleCheckMs /\ clock < thread.until
        /\ thread.idleSince[i] # 0 => thread.until < thread.idleSince[i] + kIdleNs + kIdleCheckMs
    BY <1>0, <2>2, <2>4, <2>5 DEF Check
  <2>7. thread.idleSince[i] \in Nat /\ thread.idleSince[i] <= clock /\ quiet[i] \in Nat
    BY <1>0, <1>a DEF Limits
  <2>8. quiet[i] # 0 =>
        /\ thread.idleSince[i] = 0 => thread.until + quiet[i] <= clock + kIdleCheckMs
        /\ thread.idleSince[i] # 0 => thread.idleSince[i] + quiet[i] <= clock + kIdleCheckMs
    BY <1>0, <2>1, <2>5 DEF Idle
  <2>9. /\ thread.idleSince[i] = 0 => thread.until + quiet[i] + 1 <= clock + 1 + kIdleCheckMs
        /\ thread.idleSince[i] # 0 => /\ thread.idleSince[i] + quiet[i] + 1 <= clock + 1 + kIdleCheckMs
                                      /\ clock + 1 < thread.idleSince[i] + kIdleNs + kIdleCheckMs
        /\ thread.idleSince[i] = 0 => quiet[i] + 1 <= kIdleCheckMs
    BY <1>0, <1>a, <2>6, <2>7, <2>8
  <2> QED BY <1>0, <1>a, <1>13, <2>2, <2>4, <2>5, <2>7, <2>9 DEF Tick, Idle
<1>14. CASE UNCHANGED vars
  BY <1>0, <1>14 DEF vars, Idle
<1>15. CASE Fails
  BY <1>0, <1>15, FailsFields DEF Idle
<1> QED BY <1>1, <1>2, <1>3, <1>4, <1>5, <1>6, <1>7, <1>8, <1>9, <1>10, <1>11, <1>12, <1>13, <1>14, <1>15,
        Steps, Zenon


\* The bound on quiet: from Idle while the thread runs, kept when it ends.
LEMMA InTimeKept ==
    ASSUME TapInv, [Next]_vars
    PROVE  OffInTime'
<1> USE TapAssumption
<1>1. SUFFICES ASSUME faults' = 0, NEW i \in Sensors
               PROVE  quiet'[i] <= kIdleNs + 2 * kIdleCheckMs
  BY DEF OffInTime
<1>2. /\ quiet'[i] \in Nat /\ clock' \in Nat /\ thread'.idleSince[i] \in Nat
  BY RangesKept DEF Ranges, ThreadRecord
<1>3. CASE thread'.pc # "done"
  <2>1. Idle(i)'
    BY IdleKept
  <2> QED BY <1>1, <1>2, <1>3, <2>1 DEF Idle
<1>4. CASE thread'.pc = "done" /\ thread.pc # "done"
  <2>1. Leave
    <3>1. ASSUME TakeOver
          PROVE  thread'.pc # "done"
      BY <3>1, TakeOverFields DEF TapInv, TakesOver
    <3>2. ASSUME NEW low \in {FALSE, node.lowPower}, NEW bad \in SUBSET Sensors, CheckIdle(low, bad)
          PROVE  thread'.pc # "done"
      <4>1. low \in BOOLEAN
        BY Fields, Zenon DEF TapInv
      <4> QED BY <3>2, <4>1, CheckIdleFields DEF TapInv, TurnsOff
    <3>3. ASSUME NEW j \in Sensors, arm(j) \/ GiveUp(j) \/ Tap(j)
          PROVE  thread'.pc = thread.pc
      BY <3>3, ArmFields, GiveUpFields DEF TapInv, Tap
    <3>4. Round \/ Poll \/ report \/ Fails => thread'.pc # "done"
      BY RoundFields, PollFields, ReportFields, FailsFields DEF TapInv
    <3>5. (\E j \in Sensors, enabled \in BOOLEAN : activate(j, enabled)) => thread' = thread
      BY DEF activate
    <3>6. (\E mode \in {"NORMAL", "DATA_INJECTION"} : setOperationMode(mode)) => thread' = thread
      BY DEF setOperationMode
    <3>7. initialize \/ Destroy \/ Panel \/ Tick \/ UNCHANGED vars => thread' = thread
      BY DEF initialize, Destroy, Panel, Tick, vars
    <3>8. Crash => thread'.pc # "done"
      BY FreshFields DEF Crash
    <3> QED BY <1>4, <3>1, <3>2, <3>3, <3>4, <3>5, <3>6, <3>7, <3>8, Steps, Zenon
  <2> QED BY <1>1, <2>1 DEF Leave, TapInv, OffInTime, history
<1>5. CASE thread'.pc = "done" /\ thread.pc = "done"
  <2>1. mStop /\ thread.armed = {}
    BY <1>5 DEF TapInv, Places
  <2>2. faults = 0 => quiet[i] <= kIdleNs + 2 * kIdleCheckMs
    BY DEF TapInv, OffInTime
  <2>3. CASE Tick
    <3>1. node.on = {}
      BY <1>1, <1>5, <2>1, <2>3 DEF TapInv, DriverMatches, Tick
    <3> QED BY <2>3, <3>1 DEF Tick
  <2>4. CASE Panel
    BY <2>4 DEF Panel
  <2>5. CASE UNCHANGED vars
    BY <1>1, <2>2, <2>5 DEF vars, history
  <2>6. ASSUME NEW j \in Sensors, Tap(j)
        PROVE  quiet' = quiet /\ faults' = faults
    BY <2>6 DEF Tap, history
  <2>7. (\E mode \in {"NORMAL", "DATA_INJECTION"} : setOperationMode(mode)) => FALSE
    BY <2>1 DEF setOperationMode
  <2>8. (\E j \in Sensors, enabled \in BOOLEAN : activate(j, enabled)) => FALSE
    BY <2>1 DEF activate
  <2>9. ~(initialize \/ Destroy \/ Crash \/ TakeOver \/ Round \/ Poll \/ report \/ Leave)
    BY <1>5, <2>1 DEF initialize, Destroy, Crash, TakeOver, Round, Poll, report, Leave
  <2>12. ~Fails
    BY <1>5, FailsFields DEF TapInv
  <2>10. \A j \in Sensors : ~arm(j) /\ ~GiveUp(j)
    BY <1>5 DEF arm, GiveUp
  <2>11. ASSUME NEW low, NEW bad
         PROVE  ~CheckIdle(low, bad)
    BY <1>5 DEF CheckIdle
  <2> QED BY <1>1, <2>2, <2>3, <2>4, <2>5, <2>6, <2>7, <2>8, <2>9, <2>10, <2>11, <2>12, Steps, Zenon
<1> QED BY <1>3, <1>4, <1>5

\* TapInv is an invariant of the model.
THEOREM TapInvariant == Spec => []TapInv
<1>1. Init => TapInv
  <2> SUFFICES ASSUME Init PROVE TapInv
    OBVIOUS
  <2> USE TapAssumption DEF Init
  <2>1. /\ thread.pc = "takeover" /\ thread.armed = {} /\ thread.want = {} /\ thread.todo = {}
        /\ thread.gestures = {} /\ thread.until = 0 /\ \A i \in Sensors : thread.idleSince[i] = 0
    BY FreshFields
  <2>2. FreshThread \in ThreadRecord /\ node \in NodeRecord
    BY DEF FreshThread, ThreadRecord, NodeRecord
  <2>7. fired \in [Sensors -> Nat] /\ quiet \in [Sensors -> Nat]
    OBVIOUS
  <2>3. Ranges
    <3>1. /\ clock \in Nat \ {0} /\ faults \in Nat /\ crashes \in Nat
          /\ mEarlyAt \in Nat /\ mEarlyDue \in Nat
      OBVIOUS
    <3> QED BY <2>2, <2>7, <3>1, Zenon DEF Ranges
  <2>4. Places /\ Shots /\ Held /\ Copy /\ Check /\ DriverMatches
    BY <2>1 DEF Places, Shots, Held, Copy, Check, DriverMatches
  <2>6. Limits
    BY <2>1 DEF Limits
  <2>5. OffInTime /\ \A i \in Sensors : Idle(i)
    BY DEF OffInTime, Idle
  <2> QED BY <2>3, <2>4, <2>5, <2>6 DEF TapInv
<1>2. TapInv /\ [Next]_vars => TapInv'
  BY RangesKept, LimitsKept, PlacesKept, ShotsKept, HeldKept, CopyKept, CheckKept, DriverKept,
     InTimeKept, IdleKept DEF TapInv
<1> QED BY <1>1, <1>2, PTL DEF Spec

\* run() and activate(): "both sensors are one-shot", for any delays, clock and faults.
THEOREM OneShotHolds == Spec => []OneShot
<1>1. TapInv => OneShot
  <2> SUFFICES ASSUME TapInv PROVE OneShot
    OBVIOUS
  <2>1. TypeOK
    <3>1. thread.idleSince \in [Sensors -> 0..clock]
      BY Fields DEF TapInv, Ranges, Limits
    <3>2. Ranges /\ Limits
      BY DEF TapInv
    <3>3. faults \in 0..MaxFaults /\ crashes \in 0..MaxCrashes /\ clock \in 1..MaxClock /\ mEarlyAt \in 0..clock
          /\ mEarlyDue \in 0..(clock + kEarlyDelayNs)
      BY <3>2, TapAssumption DEF Ranges, Limits
    <3> QED BY <3>1, <3>2, <3>3, Fields DEF TypeOK, Ranges, Limits
  <2>2. \A i \in Sensors : fired[i] <= 1
    BY DEF TapInv, Shots
  <2> QED BY <2>1, <2>2 DEF OneShot
<1> QED BY <1>1, TapInvariant, PTL

\* activate() against run()'s copy: the thread never goes to sleep with the gesture
\* of an active sensor off, or with a scheduled tap and no timeout or wakelock.
THEOREM ReadyToSleepHolds == Spec => []ReadyToSleep
<1>1. TapInv => ReadyToSleep
  <2> SUFFICES ASSUME TapInv, Blocked, ~mStop
               PROVE  /\ mWantArmed \subseteq node.on
                      /\ mEarlyDue # 0 /\ "double" \in mWantArmed => thread.wakelock /\ thread.until # 0
    BY DEF ReadyToSleep
  <2>1. thread.pc # "done"
    BY DEF TapInv, Places
  <2> QED BY <2>1 DEF TapInv, Places, Copy, Blocked
<1> QED BY <1>1, TapInvariant, PTL

\* run(): as long as no node failed the driver has on what the thread believes.
THEOREM DriverMatchesHolds == Spec => []DriverMatches
<1>1. TapInv => DriverMatches
  BY DEF TapInv
<1> QED BY <1>1, TapInvariant, PTL

\* checkIdle: an unused gesture goes off two checks after kIdleNs at the latest.
THEOREM OffInTimeHolds == Spec => []OffInTime
<1>1. TapInv => OffInTime
  BY DEF TapInv
<1> QED BY <1>1, TapInvariant, PTL

\* fireEarly: no held tap goes out later than kEarlyNs and twice kEarlyDelayNs.
THEOREM HeldTapFreshHolds == Spec => HeldTapFresh
<1> DEFINE Fresh == thread.pc = "wait" /\ fired' # fired /\ thread'.pc = "round"
                      => clock - mEarlyAt <= kEarlyNs + 2 * kEarlyDelayNs
<1>1. TapInv /\ [Next]_vars => [Fresh]_vars
  <2> SUFFICES ASSUME TapInv, [Next]_vars, thread.pc = "wait", fired' # fired, thread'.pc = "round"
               PROVE  clock - mEarlyAt <= kEarlyNs + 2 * kEarlyDelayNs
    OBVIOUS
  <2>1. Round
    <3>1. thread'.pc # thread.pc
      OBVIOUS
    <3>2. ~TakeOver /\ ~Poll /\ ~report /\ ~Fails
      BY DEF TakeOver, Poll, report, Fails, TakeOverFails, PollFails, ReportFails
    <3>3. \A i \in Sensors : ~arm(i) /\ ~GiveUp(i) /\ ~Tap(i)
      BY <3>1 DEF arm, GiveUp, Tap
    <3>4. ASSUME NEW low, NEW bad PROVE ~CheckIdle(low, bad)
      BY DEF CheckIdle
    <3>5. ASSUME NEW i, NEW enabled PROVE ~activate(i, enabled)
      BY <3>1 DEF activate
    <3>6. ASSUME NEW mode PROVE ~setOperationMode(mode)
      BY <3>1 DEF setOperationMode
    <3>7. ~(initialize \/ Destroy \/ Panel \/ Tick \/ UNCHANGED vars)
      BY <3>1 DEF initialize, Destroy, Panel, Tick, vars
    <3>8. ~Leave /\ ~Crash
      BY LeaveFields, FreshFields DEF TapInv, Crash
    <3> QED BY <3>2, <3>3, <3>4, <3>5, <3>6, <3>7, <3>8, Steps, Zenon
  <2>2. fireEarly.fire
    <3>1. fired \in [Sensors -> Nat] /\ fireEarly.fire \in BOOLEAN
      BY HeldTap DEF TapInv, Ranges
    <3>2. ~fireEarly.fire => fired' = [i \in Sensors |-> fired[i]]
      BY <2>1, <3>1 DEF Round, fire
    <3> QED BY <3>1, <3>2
  <2>3. mEarlyAt # 0 /\ mEarlyDue # 0 /\ clock - mEarlyDue <= kEarlyDelayNs
    BY <2>2, HeldTap DEF TapInv
  <2>4. mEarlyDue <= mEarlyAt + kEarlyNs + kEarlyDelayNs
    BY <2>3 DEF TapInv, Held
  <2>5. clock \in Nat /\ mEarlyAt \in Nat /\ mEarlyDue \in Nat
    BY DEF TapInv, Ranges
  <2> QED BY <2>3, <2>4, <2>5, TapAssumption
<1> QED BY <1>1, TapInvariant, PTL DEF Spec, HeldTapFresh


\* arm(), the poll and report(): a reported gesture of an active sensor is lost by
\* no step but a report that cannot be read and arm() with no gesture on.
THEOREM ActiveTapKeptHolds == Spec => ActiveTapKept
<1> DEFINE Tapped(i) == /\ i \in thread.gestures \cup node.reported
                        /\ mMode = "NORMAL" /\ faults' = faults /\ ~Reopens
           Kept == \A i \in mWantArmed \cap mWantArmed' :
                     Tapped(i) => i \in thread'.gestures \cup node'.reported
<1>1. TapInv /\ [Next]_vars => [Kept]_vars
  <2> SUFFICES ASSUME TapInv, [Next]_vars, NEW i \in mWantArmed, i \in mWantArmed', Tapped(i)
               PROVE  i \in thread'.gestures \cup node'.reported
    OBVIOUS
  <2> USE DEF shared, history
  <2>0. Ranges /\ Places
    BY DEF TapInv
  <2>1. CASE TakeOver
    <3>1. thread' # thread
      BY <2>0, <2>1, TakeOverFields DEF TakeOver, TakesOver
    <3> QED BY <2>0, <2>1, <3>1 DEF TakeOver, Places, Reopens
  <2>2. CASE Round
    BY <2>0, <2>2, RoundFields DEF Round
  <2>3. CASE Poll
    BY <2>0, <2>3, PollFields DEF Poll, Places
  <2>4. CASE report
    <3>1. i \notin thread.gestures
      BY <2>4 DEF report, fire
    <3> QED BY <2>4, <3>1 DEF report
  <2>5. CASE Leave
    BY <2>0, <2>5, LeaveFields DEF Leave, Places
  <2>6. ASSUME NEW j \in Sensors, arm(j)
        PROVE  i \in thread'.gestures \cup node'.reported
    <3>1. thread.pc = "round" /\ j \in thread.todo /\ thread' # thread
      BY <2>0, <2>6, ArmFields DEF arm, Turn
    <3>2. thread.armed # {}
      BY <3>1 DEF Reopens
    <3> QED BY <2>0, <2>6, <3>2, ArmFields DEF Places, arm
  <2>7. ASSUME NEW j \in Sensors, GiveUp(j)
        PROVE  i \in thread'.gestures \cup node'.reported
    BY <2>0, <2>7 DEF GiveUp, Fault, Ranges
  <2>8. ASSUME NEW j \in Sensors, Tap(j)
        PROVE  i \in thread'.gestures \cup node'.reported
    BY <2>0, <2>8 DEF Tap, Ranges, NodeRecord
  <2>9. ASSUME NEW low \in {FALSE, node.lowPower}, NEW bad \in SUBSET Sensors, CheckIdle(low, bad)
        PROVE  i \in thread'.gestures \cup node'.reported
    <3>1. low \in BOOLEAN
      BY <2>0, Fields, Zenon
    <3> QED BY <2>0, <2>9, <3>1, CheckIdleFields DEF TurnsOff
  <2>10. CASE \E j \in Sensors, enabled \in BOOLEAN : activate(j, enabled)
    BY <2>10 DEF activate
  <2>11. CASE \E mode \in {"NORMAL", "DATA_INJECTION"} : setOperationMode(mode)
    BY <2>11 DEF setOperationMode
  <2>12. CASE initialize \/ Crash
    BY <2>12 DEF initialize, Crash, Inactive
  <2>13. CASE Panel
    BY <2>0, <2>13 DEF Panel, Ranges, NodeRecord
  <2>14. CASE Destroy \/ Tick \/ UNCHANGED vars
    BY <2>14 DEF Destroy, Tick, vars
  <2>15. CASE Fails
    BY <2>0, <2>15, FailsFields DEF Ranges
  <2> QED BY <2>1, <2>2, <2>3, <2>4, <2>5, <2>6, <2>7, <2>8, <2>9, <2>10, <2>11, <2>12, <2>13, <2>14, <2>15,
             Steps, Zenon
<1> QED BY <1>1, TapInvariant, PTL DEF Spec, ActiveTapKept

=============================================================================
