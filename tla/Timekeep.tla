------------------------------ MODULE Timekeep ------------------------------
(***************************************************************************)
(* timekeepd, which keeps the clock across reboots (timekeep/).  The RTC   *)
(* counts from its last power loss and cannot be set; the daemon saves how *)
(* far the clock is ahead of it, and at boot the clock is set to the       *)
(* counter plus that offset.                                               *)
(*                                                                         *)
(* Time is counted in ticks, TkSec to the second; the counter shows whole  *)
(* seconds.  What each call of the daemon reads or writes is a step of its *)
(* own, and time passes, the clock is set, the phone is suspended, the     *)
(* daemon or the power fails between any two.                              *)
(***************************************************************************)
EXTENDS Integers

CONSTANTS TkSec,          \* ticks in a second
          TkMargin,       \* kUnsetClockMarginMs
          TkRefresh,      \* kRefreshMs, and kRecheckSec
          TkMinWall, TkMaxWall,   \* kMinWallMs, kMaxWallMs
          TkAhead,        \* how far ahead of tkReal the clock may be set
          TkMaxReal, TkMaxSets, TkMaxFaults   \* bounds

(* The margin is a minute, kMinWallMs the start of 2026: a counter that    *)
(* starts at a power loss stays below it for 56 years.                     *)
ASSUME TkAssumption ==
  /\ {TkSec, TkRefresh} \subseteq Nat \ {0} /\ TkMargin \in Nat /\ TkMargin > TkSec
  /\ {TkMinWall, TkMaxWall, TkMaxReal, TkMaxSets, TkMaxFaults} \subseteq Nat
  /\ TkAhead \subseteq Nat
  /\ TkMaxReal + 3 < TkMinWall

VARIABLES tkReal,     \* true time since the start
          tkRtc,      \* time since the PMIC's last power loss
          tkClock,    \* CLOCK_REALTIME
          tkTruth,    \* the true time: [ahead |-> of tkReal, sets |-> , losses |-> of power]
          tkFile,     \* the record: [now |-> as read, safe |-> what a power loss leaves]
          tkTimer,    \* [due |-> expiry, cancelled |-> the clock was set since the last arm]
          tkProc,     \* the running process, see TkProc
          tkFaults

tkVars == <<tkReal, tkRtc, tkClock, tkTruth, tkFile, tkTimer, tkProc, tkFaults>>

(* A record, with the state of the world it was measured in: how often the *)
(* clock had been set, how often the PMIC had lost power, and how far the  *)
(* clock was behind the true time; none of it when the phone slept in the  *)
(* middle of the measurement.                                              *)
TkRecord(offset, rtcSec, world) == [offset |-> offset, rtcSec |-> rtcSec, world |-> world]
TkNone == TkRecord(0, -1, <<>>)
TkThreshold == TkSec                          \* kSaveThresholdMs
Abs(n) == IF n < 0 THEN -n ELSE n

wallMs(r) == r.rtcSec * TkSec + r.offset

valid(r) ==
  /\ r.rtcSec >= 0
  /\ r.offset < TkMaxWall
  /\ wallMs(r) >= TkMinWall /\ wallMs(r) < TkMaxWall

(* The time to set at boot, -1 to leave the clock alone.                   *)
restoreTargetMs(saved, rtcSec, now) ==
  IF Abs(now - rtcSec * TkSec) >= TkMargin THEN -1
  ELSE IF now >= wallMs(saved) THEN -1
  ELSE IF rtcSec < saved.rtcSec THEN wallMs(saved)
  ELSE IF rtcSec * TkSec + saved.offset >= TkMaxWall THEN -1
  ELSE rtcSec * TkSec + saved.offset

(* A mutant of needsSave: the offset is compared by its increase alone.    *)
NeedsSaveForward(saved, current) ==
  /\ valid(current) /\ Abs(current.offset) >= TkMargin
  /\ \/ saved = TkNone
     \/ current.rtcSec < saved.rtcSec
     \/ current.offset - saved.offset >= TkThreshold
     \/ wallMs(current) - wallMs(saved) >= TkRefresh

needsSave(saved, current) ==
  /\ valid(current) /\ Abs(current.offset) >= TkMargin
  /\ \/ saved = TkNone
     \/ current.rtcSec < saved.rtcSec
     \/ Abs(current.offset - saved.offset) >= TkThreshold
     \/ wallMs(current) - wallMs(saved) >= TkRefresh

-----------------------------------------------------------------------------
(* pc: where it is; saved: its copy of the record; rtcSec and current: the *)
(* measurement under way; last: how the last one ended, "torn" after a     *)
(* rename that could not be synced, until a save succeeds.                 *)
TkProc(pc) == [pc |-> pc, saved |-> TkNone, rtcSec |-> 0, current |-> TkNone, last |-> "ok"]

TkInit ==
  /\ tkReal = 0 /\ tkRtc = 3 /\ tkClock = (3 \div TkSec) * TkSec
  /\ tkTruth = [ahead |-> 0, sets |-> 0, losses |-> 0]
  /\ tkFile = [now |-> TkNone, safe |-> TkNone]
  /\ tkTimer = [due |-> 0, cancelled |-> FALSE]
  /\ tkProc = TkProc("restore")
  /\ tkFaults = 0

Truth == tkReal + tkTruth.ahead
TkUp == tkProc.pc # "off"
readRtcSec == tkRtc \div TkSec

TkEnds(how) == IF tkProc.last = "torn" THEN "torn" ELSE how
TkGo(pc) == tkProc' = [tkProc EXCEPT !.pc = pc]
TkFault == tkFaults < TkMaxFaults /\ tkFaults' = tkFaults + 1
TkWorld == <<tkReal, tkRtc, tkClock, tkTruth>>

(* The restoring process: the record and the counter, then the clock.      *)
restoreRead ==
  /\ tkProc.pc = "restore"
  /\ IF tkFile.now = TkNone THEN TkGo("start")
     ELSE tkProc' = [tkProc EXCEPT !.pc = "restore set", !.saved = tkFile.now,
                                   !.rtcSec = readRtcSec]
  /\ UNCHANGED <<TkWorld, tkFile, tkTimer, tkFaults>>

restoreSet ==
  LET target == restoreTargetMs(tkProc.saved, tkProc.rtcSec, tkClock) IN
  /\ tkProc.pc = "restore set"
  /\ tkClock' = IF target = -1 THEN tkClock ELSE target
  /\ TkGo("restored")
  /\ UNCHANGED <<tkReal, tkRtc, tkTruth, tkFile, tkTimer, tkFaults>>

(* Reads fail, or init ends it after timeout_period.                       *)
restoreFails ==
  /\ tkProc.pc \in {"restore", "restore set"} /\ TkFault
  /\ TkGo("start")
  /\ UNCHANGED <<TkWorld, tkFile, tkTimer>>

(* The daemon begins: arm, then loadRecord.                                *)
arm == tkTimer' = [due |-> tkClock + TkRefresh, cancelled |-> FALSE]

TkStart ==
  /\ tkProc.pc \in {"start", "restored"}
  /\ arm
  /\ tkProc' = TkProc("load")
  /\ UNCHANGED <<TkWorld, tkFile, tkFaults>>

loadRecord ==
  /\ tkProc.pc = "load"
  /\ \/ tkProc' = [tkProc EXCEPT !.pc = "measure", !.saved = tkFile.now] /\ UNCHANGED tkFaults
     \/ TkFault /\ TkGo("measure")
  /\ UNCHANGED <<TkWorld, tkFile, tkTimer>>

measureRtc ==
  /\ tkProc.pc = "measure"
  /\ \/ tkProc' = [tkProc EXCEPT !.pc = "measure clock", !.rtcSec = readRtcSec]
        /\ UNCHANGED tkFaults
     \/ TkFault /\ tkProc' = [tkProc EXCEPT !.pc = "wait", !.last = TkEnds("failed")]
  /\ UNCHANGED <<TkWorld, tkFile, tkTimer>>

measureClock ==
  LET current == TkRecord(tkClock - tkProc.rtcSec * TkSec, tkProc.rtcSec,
                          IF readRtcSec > tkProc.rtcSec + 1 THEN <<>>
                          ELSE <<tkTruth.sets, tkTruth.losses, Truth - tkClock>>)
      save    == needsSave(tkProc.saved, current)
  IN
  /\ tkProc.pc = "measure clock"
  /\ tkProc' = [tkProc EXCEPT !.pc = IF save THEN "save" ELSE "wait",
                              !.current = IF save THEN current ELSE TkNone,
                              !.rtcSec = 0, !.last = TkEnds("ok")]
  /\ UNCHANGED <<TkWorld, tkFile, tkTimer, tkFaults>>

(* saveRecord: the temporary file is written and synced, which no other    *)
(* step sees; renamed, which a power loss may undo; the directory synced.  *)
saveFails ==
  /\ tkProc.pc \in {"save", "sync"} /\ TkFault
  /\ tkProc' = [tkProc EXCEPT !.pc = "wait", !.current = TkNone,
                              !.last = IF tkProc.pc = "sync" THEN "torn" ELSE TkEnds("failed")]
  /\ UNCHANGED <<TkWorld, tkFile, tkTimer>>

saveRename ==
  /\ tkProc.pc = "save"
  /\ tkFile' = [tkFile EXCEPT !.now = tkProc.current]
  /\ TkGo("sync")
  /\ UNCHANGED <<TkWorld, tkTimer, tkFaults>>

saveSync ==
  /\ tkProc.pc = "sync"
  /\ tkFile' = [tkFile EXCEPT !.safe = tkFile.now]
  /\ tkProc' = [tkProc EXCEPT !.pc = "wait", !.saved = tkProc.current, !.current = TkNone,
                              !.last = "ok"]
  /\ UNCHANGED <<TkWorld, tkTimer, tkFaults>>

(* The read of the timer returns; the timer is armed before measuring.     *)
TkWake ==
  /\ tkProc.pc = "wait" /\ (tkTimer.cancelled \/ tkClock >= tkTimer.due)
  /\ TkGo("measure")
  /\ arm
  /\ UNCHANGED <<TkWorld, tkFile, tkFaults>>

-----------------------------------------------------------------------------
(* The world.                                                              *)

TkPass(n) ==
  /\ tkReal + n <= TkMaxReal
  /\ tkReal' = tkReal + n /\ tkRtc' = tkRtc + n
  /\ tkClock' = IF TkUp THEN tkClock + n ELSE tkClock

(* Less than a second passes between the reads of counter and clock,       *)
(* unless the phone is suspended there.                                    *)
TkTick ==
  /\ TkPass(1)
  /\ tkProc.pc \in {"restore set", "measure clock"} => readRtcSec = tkProc.rtcSec
  /\ UNCHANGED <<tkTruth, tkFile, tkTimer, tkProc, tkFaults>>

(* The timer is cancelled by a resume as by a set clock.                   *)
TkSuspend ==
  /\ TkUp /\ tkProc.pc \notin {"restore", "restore set", "restored"}
  /\ TkPass(2)
  /\ tkTimer' = [tkTimer EXCEPT !.cancelled = TRUE]
  /\ UNCHANGED <<tkTruth, tkFile, tkProc, tkFaults>>

(* Android sets the clock, from the network or by hand; not before boot    *)
(* has got as far as zygote.                                               *)
TkSetClock(ahead) ==
  /\ TkUp /\ tkProc.pc \notin {"restore", "restore set", "restored"}
  /\ tkTruth.sets < TkMaxSets
  /\ tkTruth' = [tkTruth EXCEPT !.ahead = ahead, !.sets = @ + 1]
  /\ tkClock' = tkReal + ahead
  /\ tkTimer' = [tkTimer EXCEPT !.cancelled = TRUE]
  /\ UNCHANGED <<tkReal, tkRtc, tkFile, tkProc, tkFaults>>

(* The daemon crashes; init starts it again.                               *)
TkCrash ==
  /\ tkProc.pc \notin {"off", "restore", "restore set", "restored", "start"} /\ TkFault
  /\ tkProc' = TkProc("start")
  /\ UNCHANGED <<TkWorld, tkFile, tkTimer>>

(* The phone goes down, at any moment: a rename not yet synced may be lost. *)
TkPowerOff ==
  /\ TkUp /\ tkProc.pc # "restored" /\ TkFault
  /\ tkProc' = TkProc("off")
  /\ \E f \in {tkFile.now, tkFile.safe} : tkFile' = [now |-> f, safe |-> f]
  /\ UNCHANGED <<TkWorld, tkTimer>>

TkBatteryOut ==
  /\ ~TkUp /\ TkFault
  /\ tkRtc' = 0
  /\ tkTruth' = [tkTruth EXCEPT !.losses = @ + 1]
  /\ UNCHANGED <<tkReal, tkClock, tkFile, tkTimer, tkProc>>

(* The kernel copies the counter into the clock.                           *)
TkBoot ==
  /\ ~TkUp
  /\ tkClock' = readRtcSec * TkSec
  /\ tkTimer' = [due |-> 0, cancelled |-> FALSE]
  /\ tkProc' = TkProc("restore")
  /\ UNCHANGED <<tkReal, tkRtc, tkTruth, tkFile, tkFaults>>

TkNext ==
  \/ restoreRead \/ restoreSet \/ restoreFails
  \/ TkStart \/ loadRecord \/ measureRtc \/ measureClock
  \/ saveFails \/ saveRename \/ saveSync \/ TkWake
  \/ TkTick \/ TkSuspend \/ (\E a \in TkAhead : TkSetClock(a))
  \/ TkCrash \/ TkPowerOff \/ TkBatteryOut \/ TkBoot

TkSpec == TkInit /\ [][TkNext]_tkVars

-----------------------------------------------------------------------------
(* How far a record and the restored clock may be off: the counter's       *)
(* second, once when it is saved and once when it is used, a second below  *)
(* the threshold for saving, and the tick between two reads.               *)
TkSlack == 2 * TkSec

(* The clock has been plausible, and clearly set, for as long as a timer   *)
(* lasts.                                                                  *)
LongPlausible ==
  /\ tkClock - TkRefresh >= TkMinWall /\ tkClock < TkMaxWall
  /\ Abs(tkClock - tkRtc) >= TkMargin + TkSec

(* The saved time follows the clock.  While the daemon sleeps with nothing *)
(* to wake it up for, and its last measurement went through, the record on *)
(* disk has the offset of the clock as it is now, whatever was set, and    *)
(* whenever in the middle of a measurement; only a clock that was never    *)
(* set or is implausible is not saved, one that has just become plausible  *)
(* not before the timer expires.  At boot the clock comes out right: if    *)
(* the record was made after the clock was last set, it is never ahead of  *)
(* the true time, not even after a power loss, and when the PMIC kept its  *)
(* power it is not behind either, up to the year 2100.                     *)
ClockKept ==
  /\ tkProc.pc = "wait" /\ tkProc.last = "ok" /\ ~tkTimer.cancelled /\ tkClock < tkTimer.due
     /\ LongPlausible
     => /\ tkFile.now # TkNone
        /\ Abs(tkFile.now.offset - (tkClock - readRtcSec * TkSec)) <= TkSlack
        /\ tkClock - wallMs(tkFile.now) <= 2 * TkRefresh
  /\ tkProc.pc = "restored" /\ tkProc.saved.world # <<>> /\ tkProc.saved.world[1] = tkTruth.sets =>
       LET kept == Truth - tkProc.saved.world[3] IN
       /\ tkClock <= kept + TkSlack
       /\ tkProc.saved.world[2] = tkTruth.losses /\ kept + TkSlack < TkMaxWall
            => tkClock >= kept - TkSlack

=============================================================================
