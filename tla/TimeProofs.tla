---------------------------- MODULE TimeProofs ----------------------------
(* timekeepd's record follows the clock, and the clock that a boot restores *)
(* is right, for any resolution of the counter and any of its margins.      *)
EXTENDS Timekeep, TLAPS

TkPlaces == {"off", "restore", "restore set", "restored", "start", "load", "measure",
             "measure clock", "save", "sync", "wait"}

\* Where the daemon is once its timer is armed.
TkDaemon == {"load", "measure", "measure clock", "save", "sync", "wait"}

TkRecords == [offset : Int, rtcSec : Int, world : {<<>>} \cup (Nat \X Nat \X Int)]

TkTypeOK ==
  /\ tkReal \in Nat /\ tkRtc \in Nat /\ tkClock \in Int /\ tkFaults \in Nat
  /\ tkTruth \in [ahead : Int, sets : Nat, losses : Nat]
  /\ tkFile \in [now : TkRecords, safe : TkRecords]
  /\ tkTimer \in [due : Int, cancelled : BOOLEAN]
  /\ tkProc \in [pc : TkPlaces, saved : TkRecords, rtcSec : Nat, current : TkRecords,
                 last : {"ok", "failed", "torn"}]

\* The counter counts no more than has passed.
TkCounter == tkReal <= TkMaxReal /\ tkRtc <= tkReal + 3

\* What a record says about the true time, after `sets` settings of the clock and
\* `losses` of the PMIC's power: the clock it was made from was not ahead; as long
\* as the clock is not set again, counter and offset stay within two seconds of
\* it, and only a loss of power makes them fall behind.
TkTells(r, sets, losses, rtc, truth) ==
  r.world # <<>> =>
    /\ r.world[1] <= sets /\ r.world[2] <= losses
    /\ r.world[2] = losses => r.rtcSec * TkSec <= rtc
    /\ r.world[1] = sets =>
         /\ wallMs(r) + r.world[3] <= truth
         /\ r.offset + r.world[3] + rtc < truth + 2 * TkSec
         /\ r.world[2] = losses => truth <= r.offset + r.world[3] + rtc

\* A record is none, or one that passed needsSave.
TkSound(r, sets, losses, rtc, truth) ==
  /\ r = TkNone \/ (valid(r) /\ r.offset >= TkMargin)
  /\ TkTells(r, sets, losses, rtc, truth)

TkHeld == {tkFile.now, tkFile.safe, tkProc.saved, tkProc.current}

TkHeldSound == \A r \in TkHeld : TkSound(r, tkTruth.sets, tkTruth.losses, tkRtc, Truth)

\* Until the record is used, the clock is the counter of this boot.
TkBooting ==
  /\ tkProc.pc \in {"restore", "restore set"} => tkRtc - TkSec < tkClock /\ tkClock <= tkRtc
  /\ tkProc.pc = "restore set" =>
       /\ tkProc.rtcSec * TkSec <= tkRtc /\ tkRtc <= tkProc.rtcSec * TkSec + TkSec
       /\ tkProc.saved # TkNone
       /\ tkProc.saved.world # <<>> /\ tkProc.saved.world[2] = tkTruth.losses
            => tkProc.saved.rtcSec <= tkProc.rtcSec

\* The daemon's copies of the record.
TkCopies ==
  /\ tkProc.pc = "measure clock" => tkProc.rtcSec * TkSec <= tkRtc
  /\ tkProc.pc = "load" => tkProc.saved = TkNone
  /\ tkProc.pc \in TkDaemon \ {"sync"} /\ tkProc.last # "torn" => tkProc.saved \in {TkNone, tkFile.now}
  /\ tkProc.pc = "sync" => tkProc.current = tkFile.now
  /\ tkProc.pc \in {"save", "sync"} => tkProc.current # TkNone

\* Why no record would be due: the clock is implausible or was never set.
TkNotDue ==
  \/ tkTimer.due - TkRefresh < TkMinWall
  \/ tkClock >= TkMaxWall
  \/ Abs(tkClock - tkRtc) < TkMargin + TkSec

\* The record has the clock's offset, from no more than two timers ago.
TkOnDisk ==
  /\ tkFile.now # TkNone
  /\ tkClock - tkRtc - TkSec < tkFile.now.offset /\ tkFile.now.offset < tkClock - tkRtc + 2 * TkSec
  /\ tkTimer.due - 2 * TkRefresh < wallMs(tkFile.now)

\* As long as the timer is not cancelled, the measurement under way, and then the
\* record, are those of the clock as it is.
TkFollows ==
  tkProc.pc \in TkDaemon /\ ~tkTimer.cancelled =>
    /\ tkTimer.due <= tkClock + TkRefresh
    /\ tkProc.pc = "measure clock" => tkRtc <= tkProc.rtcSec * TkSec + TkSec
    /\ tkProc.pc \in {"save", "sync"} =>
         /\ tkClock - tkRtc <= tkProc.current.offset /\ tkProc.current.offset <= tkClock - tkRtc + TkSec
         /\ tkTimer.due - TkRefresh <= wallMs(tkProc.current)
    /\ tkProc.pc = "wait" /\ tkProc.last = "ok" => TkOnDisk \/ TkNotDue

\* The clock that restoreSet leaves.
TkRestored ==
  tkProc.pc = "restored" /\ tkProc.saved.world # <<>> /\ tkProc.saved.world[1] = tkTruth.sets =>
    LET kept == Truth - tkProc.saved.world[3] IN
    /\ tkClock <= kept + TkSlack
    /\ tkProc.saved.world[2] = tkTruth.losses /\ kept + TkSlack < TkMaxWall => tkClock >= kept - TkSlack

TkInv == TkTypeOK /\ TkCounter /\ TkHeldSound /\ TkBooting /\ TkCopies /\ TkFollows /\ TkRestored

-----------------------------------------------------------------------------
(* Arithmetic. *)

\* The constants, one by one.
LEMMA Constants ==
  /\ TkSec \in Nat /\ TkSec > 0 /\ TkRefresh \in Nat /\ TkRefresh > 0 /\ TkMargin \in Nat /\ TkMargin > TkSec
  /\ TkMinWall \in Nat /\ TkMaxWall \in Nat /\ TkMaxReal \in Nat /\ TkMaxReal + 3 < TkMinWall
BY TkAssumption

\* How far ahead the clock may be set.
LEMMA Ahead ==
  ASSUME NEW a \in TkAhead
  PROVE  a \in Int
BY TkAssumption

\* readRtcSec, in ticks.
LEMMA Seconds ==
  ASSUME NEW n \in Nat
  PROVE  n \div TkSec \in Nat /\ (n \div TkSec) * TkSec <= n /\ n < (n \div TkSec) * TkSec + TkSec
BY TkAssumption

\* Seconds in ticks.
LEMMA Scaled ==
  ASSUME NEW a \in Int
  PROVE  a * TkSec \in Int /\ (a >= 0 => a * TkSec >= 0)
BY TkAssumption

\* One second more.
LEMMA ScaledNext ==
  ASSUME NEW a \in Int
  PROVE  (a + 1) * TkSec = a * TkSec + TkSec
BY TkAssumption

\* ... and in order.
LEMMA ScaledOrder ==
  ASSUME NEW a \in Int, NEW b \in Int, a <= b
  PROVE  a * TkSec <= b * TkSec
BY TkAssumption

\* TkNone is a record, and no valid one.
LEMMA NoRecord ==
  /\ TkNone \in TkRecords /\ TkNone.world = <<>>
  /\ \A r : r.rtcSec >= 0 => r # TkNone
BY DEF TkNone, TkRecord, TkRecords

\* What a record's fields are.
LEMMA Fields ==
  ASSUME NEW r \in TkRecords
  PROVE  /\ r.offset \in Int /\ r.rtcSec \in Int /\ wallMs(r) \in Int
         /\ wallMs(r) = r.rtcSec * TkSec + r.offset
         /\ r.world # <<>> => r.world[1] \in Nat /\ r.world[2] \in Nat /\ r.world[3] \in Int
<1>1. r.offset \in Int /\ r.rtcSec \in Int
  BY DEF TkRecords
<1>2. r.rtcSec * TkSec \in Int
  BY <1>1, Scaled
<1>3. wallMs(r) = r.rtcSec * TkSec + r.offset
  BY DEF wallMs
<1>4. ASSUME r.world # <<>> PROVE r.world[1] \in Nat /\ r.world[2] \in Nat /\ r.world[3] \in Int
  <2>1. r.world \in Nat \X Nat \X Int
    BY <1>4, Zenon DEF TkRecords
  <2> QED BY <2>1
<1> QED BY <1>1, <1>2, <1>3, <1>4

-----------------------------------------------------------------------------
(* Records as the world moves on. *)

\* Time passes.
LEMMA SoundLater ==
  ASSUME NEW r \in TkRecords, NEW sets \in Nat, NEW losses \in Nat, NEW rtc \in Nat, NEW truth \in Int, NEW n \in Nat,
         TkSound(r, sets, losses, rtc, truth)
  PROVE  TkSound(r, sets, losses, rtc + n, truth + n)
<1>1. PICK o, p, w \in Int : o = r.offset /\ p = r.rtcSec * TkSec /\ w = wallMs(r)
  BY Fields, Scaled, Zenon
<1>2. TkSec \in Nat
  BY TkAssumption
<1>3. CASE r.world # <<>>
  <2>1. PICK s, l, c \in Int : s = r.world[1] /\ l = r.world[2] /\ c = r.world[3]
    <3>1. r.world[1] \in Nat /\ r.world[2] \in Nat /\ r.world[3] \in Int
      BY <1>3, Fields, Zenon
    <3>2. r.world[1] \in Int /\ r.world[2] \in Int
      BY <3>1
    <3> QED BY <3>1, <3>2, Zenon
  <2>2. /\ s <= sets /\ l <= losses
        /\ l = losses => p <= rtc
        /\ s = sets => /\ w + c <= truth /\ o + c + rtc < truth + 2 * TkSec
                       /\ l = losses => truth <= o + c + rtc
    BY <1>1, <1>3, <2>1, Zenon DEF TkSound, TkTells
  <2>3. /\ s <= sets /\ l <= losses
        /\ l = losses => p <= rtc + n
        /\ s = sets => /\ w + c <= truth + n /\ o + c + (rtc + n) < (truth + n) + 2 * TkSec
                       /\ l = losses => truth + n <= o + c + (rtc + n)
    BY <1>2, <2>2
  <2>4. TkTells(r, sets, losses, rtc + n, truth + n)
    BY <1>1, <2>1, <2>3, Zenon DEF TkTells
  <2> QED BY <2>4, Zenon DEF TkSound
<1>4. CASE r.world = <<>>
  BY <1>4, Zenon DEF TkSound, TkTells
<1> QED BY <1>3, <1>4, Zenon

\* The clock is set.
LEMMA SoundSet ==
  ASSUME NEW r \in TkRecords, NEW sets \in Nat, NEW losses \in Nat, NEW rtc \in Nat, NEW truth \in Int, NEW new \in Int,
         TkSound(r, sets, losses, rtc, truth)
  PROVE  TkSound(r, sets + 1, losses, rtc, new)
BY Fields DEF TkSound, TkTells

\* The PMIC loses its power.
LEMMA SoundLoss ==
  ASSUME NEW r \in TkRecords, NEW sets \in Nat, NEW losses \in Nat, NEW rtc \in Nat, NEW truth \in Int,
         TkSound(r, sets, losses, rtc, truth)
  PROVE  TkSound(r, sets, losses + 1, 0, truth)
<1>1. CASE r = TkNone
  BY <1>1, NoRecord DEF TkSound, TkTells
<1>2. CASE valid(r)
  <2>1. PICK o, p, w \in Int : o = r.offset /\ p = r.rtcSec * TkSec /\ w = wallMs(r)
    BY Fields, Scaled, Zenon
  <2>2. ASSUME r.world # <<>>, r.world[1] = sets
        PROVE  wallMs(r) + r.world[3] <= truth /\ r.offset + r.world[3] + 0 < truth + 2 * TkSec
    <3>1. PICK c \in Int : c = r.world[3]
      BY <2>2, Fields
    <3>2. w + c <= truth
      BY <2>1, <2>2, <3>1, Zenon DEF TkSound, TkTells
    <3>3. r.rtcSec \in Int /\ r.rtcSec >= 0 /\ TkSec \in Nat \ {0}
      BY <1>2, Fields, TkAssumption DEF valid
    <3>4. p >= 0 /\ w = p + o
      BY <2>1, <3>3, Fields, Scaled, Zenon
    <3>5. w + c <= truth /\ o + c + 0 < truth + 2 * TkSec
      BY <3>2, <3>3, <3>4
    <3> QED BY <2>1, <3>1, <3>5
  <2>3. r.world # <<>> => r.world[1] <= sets /\ r.world[2] <= losses
    BY DEF TkSound, TkTells
  <2> QED BY <2>2, <2>3, Fields DEF TkSound, TkTells
<1> QED BY <1>1, <1>2 DEF TkSound

\* No record says nothing.
LEMMA SoundNone ==
  ASSUME NEW sets, NEW losses, NEW rtc, NEW truth
  PROVE  TkSound(TkNone, sets, losses, rtc, truth)
BY NoRecord, Zenon DEF TkSound, TkTells

\* measure: the counter was read first, the clock up to two seconds later.
TkMeasured(rtcSec, clock, sets, losses, rtc, truth) ==
  TkRecord(clock - rtcSec * TkSec, rtcSec,
           IF rtc \div TkSec > rtcSec + 1 THEN <<>> ELSE <<sets, losses, truth - clock>>)

\* A measurement is a record, and tells the truth.
LEMMA MeasuredTells ==
  ASSUME NEW rtcSec \in Nat, NEW clock \in Int, NEW sets \in Nat, NEW losses \in Nat, NEW rtc \in Nat, NEW truth \in Int,
         rtcSec * TkSec <= rtc
  PROVE  LET r == TkMeasured(rtcSec, clock, sets, losses, rtc, truth)
         IN  /\ r \in TkRecords /\ r.offset = clock - rtcSec * TkSec /\ r.rtcSec = rtcSec /\ wallMs(r) = clock
             /\ TkTells(r, sets, losses, rtc, truth)
<1> DEFINE r == TkMeasured(rtcSec, clock, sets, losses, rtc, truth)
           w == IF rtc \div TkSec > rtcSec + 1 THEN <<>> ELSE <<sets, losses, truth - clock>>
<1>1. PICK p \in Int : p = rtcSec * TkSec
  BY Scaled
<1>2. r = [offset |-> clock - p, rtcSec |-> rtcSec, world |-> w]
  BY <1>1 DEF TkMeasured, TkRecord
<1>3. w \in {<<>>} \cup (Nat \X Nat \X Int)
  <2>1. truth - clock \in Int
    OBVIOUS
  <2> QED BY <2>1
<1> HIDE DEF w, r
<1>4. r \in TkRecords /\ r.offset = clock - p /\ r.rtcSec = rtcSec /\ r.world = w
  BY <1>1, <1>2, <1>3 DEF TkRecords
<1>5. wallMs(r) = clock
  BY <1>1, <1>4 DEF wallMs
<1>6. TkTells(r, sets, losses, rtc, truth)
  <2>1. CASE w = <<>>
    BY <1>4, <2>1, Zenon DEF TkTells
  <2>2. CASE w = <<sets, losses, truth - clock>> /\ ~(rtc \div TkSec > rtcSec + 1)
    <3>1. w[1] = sets /\ w[2] = losses /\ w[3] = truth - clock
      BY <2>2
    <3>2. rtc < p + 2 * TkSec
      <4>1. PICK q \in Nat : q = rtc \div TkSec /\ rtc < q * TkSec + TkSec
        BY Seconds
      <4>2. q <= rtcSec + 1
        BY <2>2, <4>1
      <4>3. q * TkSec <= p + TkSec /\ q * TkSec \in Int
        <5>1. PICK next \in Int : next = rtcSec + 1
          OBVIOUS
        <5>2. q * TkSec <= next * TkSec /\ q * TkSec \in Int
          BY <4>2, <5>1, Scaled, ScaledOrder
        <5>3. next * TkSec = p + TkSec
          BY <1>1, <5>1, ScaledNext
        <5> QED BY <5>2, <5>3
      <4> QED BY <1>1, <4>1, <4>3, TkAssumption
    <3>3. sets <= sets /\ losses <= losses /\ p <= rtc /\ clock + (truth - clock) <= truth
          /\ (clock - p) + (truth - clock) + rtc < truth + 2 * TkSec
          /\ truth <= (clock - p) + (truth - clock) + rtc
      BY <1>1, <3>2, TkAssumption
    <3> QED BY <1>1, <1>4, <1>5, <3>1, <3>3, Zenon DEF TkTells
  <2> QED BY <2>1, <2>2 DEF w
<1> QED BY <1>1, <1>4, <1>5, <1>6 DEF r

\* A measurement that is saved is sound, and ahead of the counter.
LEMMA MeasuredSound ==
  ASSUME NEW rtcSec \in Nat, NEW clock \in Int, NEW sets \in Nat, NEW losses \in Nat, NEW rtc \in Nat, NEW truth \in Int,
         rtcSec * TkSec <= rtc, rtc <= TkMaxReal + 3, NEW saved,
         needsSave(saved, TkMeasured(rtcSec, clock, sets, losses, rtc, truth))
  PROVE  LET r == TkMeasured(rtcSec, clock, sets, losses, rtc, truth)
         IN  r # TkNone /\ TkSound(r, sets, losses, rtc, truth)
<1> DEFINE r == TkMeasured(rtcSec, clock, sets, losses, rtc, truth)
<1>1. /\ r \in TkRecords /\ r.offset = clock - rtcSec * TkSec /\ r.rtcSec = rtcSec /\ wallMs(r) = clock
      /\ TkTells(r, sets, losses, rtc, truth)
  BY MeasuredTells
<1> HIDE DEF r
<1>2. valid(r) /\ Abs(r.offset) >= TkMargin
  BY DEF needsSave, r
<1>3. clock >= TkMinWall
  BY <1>1, <1>2 DEF valid
<1>4. r.offset >= TkMargin
  <2>1. PICK p \in Int : p = rtcSec * TkSec
    BY Scaled
  <2>2. clock - p >= 0
    <3>1. p <= rtc /\ rtc < TkMinWall /\ TkMinWall \in Nat
      BY <2>1, TkAssumption
    <3> QED BY <1>3, <3>1
  <2>3. r.offset \in Int /\ r.offset >= 0
    BY <1>1, <2>1, <2>2
  <2> QED BY <1>2, <2>3 DEF Abs
<1>5. r # TkNone
  BY <1>1, NoRecord
<1> QED BY <1>1, <1>2, <1>4, <1>5 DEF TkSound, r

-----------------------------------------------------------------------------
(* Types. *)

TkProcs == [pc : TkPlaces, saved : TkRecords, rtcSec : Nat, current : TkRecords, last : {"ok", "failed", "torn"}]

\* A process that starts.
LEMMA NewProc ==
  ASSUME NEW pc \in TkPlaces
  PROVE  /\ TkProc(pc) \in TkProcs /\ TkProc(pc).pc = pc /\ TkProc(pc).saved = TkNone
         /\ TkProc(pc).current = TkNone /\ TkProc(pc).last = "ok"
BY NoRecord DEF TkProc, TkProcs

\* The steps of the process, by what they do to it.
LEMMA ProcTyped ==
  ASSUME TkTypeOK, TkCopies, [TkNext]_tkVars
  PROVE  tkProc' \in TkProcs
<1>1. tkProc \in TkProcs /\ tkFile.now \in TkRecords /\ TkNone \in TkRecords /\ readRtcSec \in Nat
  BY NoRecord, Seconds DEF TkTypeOK, TkProcs, readRtcSec
<1>2. TkEnds("ok") \in {"ok", "failed", "torn"} /\ TkEnds("failed") \in {"ok", "failed", "torn"}
  BY DEF TkEnds
<1>3. CASE \E pc \in TkPlaces : TkGo(pc)
  BY <1>1, <1>3 DEF TkGo, TkProcs
<1>4. CASE restoreRead
  <2>1. CASE TkGo("start")
    BY <1>3, <2>1 DEF TkPlaces
  <2>2. CASE tkProc' = [tkProc EXCEPT !.pc = "restore set", !.saved = tkFile.now, !.rtcSec = readRtcSec]
    BY <1>1, <2>2, Zenon DEF TkProcs, TkPlaces
  <2> QED BY <1>4, <2>1, <2>2, Zenon DEF restoreRead
<1>5. CASE restoreSet \/ restoreFails \/ TkWake \/ saveRename
  <2>1. TkGo("restored") \/ TkGo("start") \/ TkGo("measure") \/ TkGo("sync")
    BY <1>5, Zenon DEF restoreSet, restoreFails, TkWake, saveRename
  <2> QED BY <1>3, <2>1, Zenon DEF TkPlaces
<1>6. CASE TkStart \/ TkCrash \/ TkPowerOff \/ TkBoot
  <2>1. \E pc \in TkPlaces : tkProc' = TkProc(pc)
    BY <1>6, Zenon DEF TkStart, TkCrash, TkPowerOff, TkBoot, TkPlaces
  <2> QED BY <2>1, NewProc
<1>7. CASE loadRecord
  <2>1. CASE TkGo("measure")
    BY <1>3, <2>1 DEF TkPlaces
  <2>2. CASE tkProc' = [tkProc EXCEPT !.pc = "measure", !.saved = tkFile.now]
    BY <1>1, <2>2, Zenon DEF TkProcs, TkPlaces
  <2> QED BY <1>7, <2>1, <2>2, Zenon DEF loadRecord
<1>8. CASE measureRtc
  BY <1>1, <1>2, <1>8, Zenon DEF measureRtc, TkProcs, TkPlaces
<1>9. CASE measureClock
  <2> DEFINE r == TkMeasured(tkProc.rtcSec, tkClock, tkTruth.sets, tkTruth.losses, tkRtc, Truth)
  <2>1. r \in TkRecords
    <3>1. tkProc.rtcSec \in Nat /\ tkProc.rtcSec * TkSec <= tkRtc
      BY <1>1, <1>9, Zenon DEF measureClock, TkCopies, TkProcs
    <3>2. tkTruth.sets \in Nat /\ tkTruth.losses \in Nat /\ Truth \in Int /\ tkClock \in Int /\ tkRtc \in Nat
      BY DEF TkTypeOK, Truth
    <3> QED BY <3>1, <3>2, MeasuredTells, Zenon
  <2>2. tkProc' = [tkProc EXCEPT !.pc = IF needsSave(tkProc.saved, r) THEN "save" ELSE "wait",
                                 !.current = IF needsSave(tkProc.saved, r) THEN r ELSE TkNone,
                                 !.rtcSec = 0, !.last = TkEnds("ok")]
    BY <1>9, Zenon DEF measureClock, TkMeasured, readRtcSec
  <2> HIDE DEF r
  <2> QED BY <1>1, <1>2, <2>1, <2>2, Zenon DEF TkProcs, TkPlaces
<1>10. CASE saveFails
  BY <1>1, <1>2, <1>10, Zenon DEF saveFails, TkProcs, TkPlaces
<1>11. CASE saveSync
  BY <1>1, <1>11, Zenon DEF saveSync, TkProcs, TkPlaces
<1>12. CASE TkTick \/ TkSuspend \/ (\E a \in TkAhead : TkSetClock(a)) \/ TkBatteryOut \/ UNCHANGED tkVars
  <2>1. tkProc' = tkProc
    BY <1>12, Zenon DEF TkTick, TkSuspend, TkSetClock, TkBatteryOut, tkVars
  <2> QED BY <1>1, <2>1
<1> QED BY <1>4, <1>5, <1>6, <1>7, <1>8, <1>9, <1>10, <1>11, <1>12, Zenon DEF TkNext

\* Time passes: the clock advances with it while the phone is up.
LEMMA Passes ==
  ASSUME TkTypeOK, TkTick \/ TkSuspend
  PROVE  \E n \in {1, 2} : /\ tkReal' = tkReal + n /\ tkRtc' = tkRtc + n /\ tkReal + n <= TkMaxReal
                           /\ tkClock' = (IF TkUp THEN tkClock + n ELSE tkClock)
                           /\ TkSuspend => n = 2 /\ TkUp
                           /\ TkTick /\ tkProc.pc \in {"restore set", "measure clock"} => n = 1
<1>1. CASE TkTick
  <2>1. TkPass(1)
    BY <1>1, Zenon DEF TkTick
  <2>2. ~TkSuspend
    <3>1. tkReal \in Nat /\ tkReal' = tkReal + 1
      BY <2>1 DEF TkPass, TkTypeOK
    <3>2. TkSuspend => tkReal' = tkReal + 2
      BY Zenon DEF TkSuspend, TkPass
    <3> QED BY <3>1, <3>2
  <2> QED BY <2>1, <2>2, Zenon DEF TkPass
<1>2. CASE TkSuspend
  <2>1. TkPass(2) /\ TkUp
    BY <1>2, Zenon DEF TkSuspend
  <2>2. ~TkTick
    <3>1. tkReal \in Nat /\ tkReal' = tkReal + 2
      BY <2>1 DEF TkPass, TkTypeOK
    <3>2. TkTick => tkReal' = tkReal + 1
      BY Zenon DEF TkTick, TkPass
    <3> QED BY <3>1, <3>2
  <2> QED BY <2>1, <2>2, Zenon DEF TkPass
<1> QED BY <1>1, <1>2, Zenon

\* Every variable keeps its type.
LEMMA TypeKept ==
  ASSUME TkTypeOK, TkCopies, [TkNext]_tkVars
  PROVE  TkTypeOK'
<1>1. tkProc' \in TkProcs
  BY ProcTyped
<1>2. tkReal' \in Nat /\ tkRtc' \in Nat
  <2>1. CASE tkReal' = tkReal /\ tkRtc' = tkRtc
    BY <2>1 DEF TkTypeOK
  <2>2. CASE TkTick \/ TkSuspend
    <3>1. PICK n \in {1, 2} : tkReal' = tkReal + n /\ tkRtc' = tkRtc + n
      BY <2>2, Passes, Zenon
    <3> QED BY <3>1 DEF TkTypeOK
  <2>3. CASE TkBatteryOut
    BY <2>3 DEF TkBatteryOut, TkTypeOK
  <2> QED BY <2>1, <2>2, <2>3, Zenon DEF TkNext, tkVars, TkWorld, restoreRead, restoreSet, restoreFails, TkStart,
             loadRecord, measureRtc, measureClock, saveFails, saveRename, saveSync, TkWake, TkSetClock, TkCrash,
             TkPowerOff, TkBoot
<1>3. tkTruth' \in [ahead : Int, sets : Nat, losses : Nat]
  <2>1. CASE tkTruth' = tkTruth
    BY <2>1 DEF TkTypeOK
  <2>2. ASSUME NEW a \in TkAhead, TkSetClock(a) PROVE tkTruth' \in [ahead : Int, sets : Nat, losses : Nat]
    <3>1. tkTruth' = [tkTruth EXCEPT !.ahead = a, !.sets = @ + 1]
      BY <2>2, Zenon DEF TkSetClock
    <3>2. a \in Int /\ tkTruth \in [ahead : Int, sets : Nat, losses : Nat]
      BY Ahead DEF TkTypeOK
    <3>3. tkTruth' = [ahead |-> a, sets |-> tkTruth.sets + 1, losses |-> tkTruth.losses]
      BY <3>1, <3>2, Zenon
    <3> QED BY <3>2, <3>3
  <2>3. CASE TkBatteryOut
    BY <2>3 DEF TkBatteryOut, TkTypeOK
  <2> QED BY <2>1, <2>2, <2>3, Zenon DEF TkNext, tkVars, TkWorld, restoreRead, restoreSet, restoreFails, TkStart,
             loadRecord, measureRtc, measureClock, saveFails, saveRename, saveSync, TkWake, TkTick, TkSuspend, TkCrash,
             TkPowerOff, TkBoot
<1>4. tkFaults' \in Nat
  <2>1. tkFaults' = tkFaults \/ TkFault
    BY Zenon DEF TkNext, tkVars, restoreRead, restoreSet, restoreFails, TkStart, loadRecord, measureRtc,
           measureClock, saveFails, saveRename, saveSync, TkWake, TkTick, TkSuspend, TkSetClock, TkCrash, TkPowerOff,
           TkBatteryOut, TkBoot
  <2> QED BY <2>1 DEF TkFault, TkTypeOK
<1>5. tkFile' \in [now : TkRecords, safe : TkRecords]
  <2>1. tkFile \in [now : TkRecords, safe : TkRecords] /\ tkProc.current \in TkRecords
    BY DEF TkTypeOK
  <2>2. CASE tkFile' = tkFile
    BY <2>1, <2>2
  <2>3. CASE saveRename \/ saveSync \/ TkPowerOff
    BY <2>1, <2>3 DEF saveRename, saveSync, TkPowerOff
  <2> QED BY <2>2, <2>3, Zenon DEF TkNext, tkVars, restoreRead, restoreSet, restoreFails, TkStart,
             loadRecord, measureRtc, measureClock, saveFails, TkWake, TkTick, TkSuspend, TkSetClock, TkCrash,
             TkBatteryOut, TkBoot
<1>6. tkClock' \in Int
  <2>1. CASE tkClock' = tkClock
    BY <2>1 DEF TkTypeOK
  <2>2. CASE TkTick \/ TkSuspend
    <3>1. PICK n \in {1, 2} : tkClock' = IF TkUp THEN tkClock + n ELSE tkClock
      BY <2>2, Passes, Zenon
    <3> QED BY <3>1 DEF TkTypeOK
  <2>3. ASSUME NEW a \in TkAhead, TkSetClock(a) PROVE tkClock' \in Int
    <3>1. tkClock' = tkReal + a
      BY <2>3, Zenon DEF TkSetClock
    <3> QED BY <3>1, Ahead DEF TkTypeOK
  <2>4. CASE TkBoot
    BY <2>4, Seconds, Scaled DEF TkBoot, readRtcSec, TkTypeOK
  <2>5. CASE restoreSet
    <3> DEFINE target == restoreTargetMs(tkProc.saved, tkProc.rtcSec, tkClock)
    <3>1. tkProc.saved \in TkRecords /\ tkProc.rtcSec \in Int
      BY DEF TkTypeOK
    <3>2. PICK o, p, w \in Int : o = tkProc.saved.offset /\ p = tkProc.rtcSec * TkSec /\ w = wallMs(tkProc.saved)
      BY <3>1, Fields, Scaled, Zenon
    <3>3. target \in {-1, w, p + o}
      BY <3>2 DEF restoreTargetMs
    <3> HIDE DEF target
    <3>4. tkClock' = IF target = -1 THEN tkClock ELSE target
      BY <2>5, Zenon DEF restoreSet, target
    <3> QED BY <3>2, <3>3, <3>4 DEF TkTypeOK
  <2> QED BY <2>1, <2>2, <2>3, <2>4, <2>5, Zenon DEF TkNext, tkVars, TkWorld, restoreRead, restoreFails, TkStart,
             loadRecord, measureRtc, measureClock, saveFails, saveRename, saveSync, TkWake, TkCrash, TkPowerOff,
             TkBatteryOut
<1>7. tkTimer' \in [due : Int, cancelled : BOOLEAN]
  <2>1. CASE tkTimer' = tkTimer
    BY <2>1 DEF TkTypeOK
  <2>2. CASE arm
    BY <2>2, TkAssumption DEF arm, TkTypeOK
  <2>3. CASE tkTimer' = [due |-> 0, cancelled |-> FALSE]
    BY <2>3
  <2>4. CASE tkTimer' = [tkTimer EXCEPT !.cancelled = TRUE]
    BY <2>4, Zenon DEF TkTypeOK
  <2> QED BY <2>1, <2>2, <2>3, <2>4, Zenon DEF TkNext, tkVars, restoreRead, restoreSet, restoreFails, TkStart,
             loadRecord, measureRtc, measureClock, saveFails, saveRename, saveSync, TkWake, TkTick, TkSuspend,
             TkSetClock, TkCrash, TkPowerOff, TkBatteryOut, TkBoot
<1> QED BY <1>1, <1>2, <1>3, <1>4, <1>5, <1>6, <1>7 DEF TkTypeOK, TkProcs


-----------------------------------------------------------------------------
(* The steps, by what they change. *)

TkStill == tkReal' = tkReal /\ tkRtc' = tkRtc /\ tkTruth' = tkTruth

\* Only the world moves the counter and the true time, and it leaves the process and its file alone.
LEMMA WorldSteps ==
  ASSUME [TkNext]_tkVars
  PROVE  \/ TkStill
         \/ /\ TkTick \/ TkSuspend \/ (\E a \in TkAhead : TkSetClock(a)) \/ TkBatteryOut
            /\ tkProc' = tkProc /\ tkFile' = tkFile
<1>1. CASE TkTick \/ TkSuspend \/ (\E a \in TkAhead : TkSetClock(a)) \/ TkBatteryOut
  BY <1>1, Zenon DEF TkTick, TkSuspend, TkSetClock, TkBatteryOut
<1>2. CASE \/ restoreRead \/ restoreSet \/ restoreFails \/ TkStart \/ loadRecord \/ measureRtc \/ measureClock
           \/ saveFails \/ saveRename \/ saveSync \/ TkWake \/ TkCrash \/ TkPowerOff \/ TkBoot \/ UNCHANGED tkVars
  BY <1>2, Zenon DEF TkStill, restoreRead, restoreSet, restoreFails, TkStart, loadRecord, measureRtc, measureClock,
     saveFails, saveRename, saveSync, TkWake, TkCrash, TkPowerOff, TkBoot, tkVars, TkWorld
<1> QED BY <1>1, <1>2, Zenon DEF TkNext

\* The counter counts no more than has passed, and no more than TkMaxReal and the first three ticks.
LEMMA CounterKept ==
  ASSUME TkTypeOK, TkCounter, [TkNext]_tkVars
  PROVE  TkCounter'
<1>1. tkReal \in Nat /\ tkRtc \in Nat /\ tkReal <= TkMaxReal /\ tkRtc <= tkReal + 3
  BY DEF TkTypeOK, TkCounter
<1>2. CASE TkStill
  BY <1>1, <1>2 DEF TkStill, TkCounter
<1>3. CASE TkTick \/ TkSuspend
  <2>1. PICK n \in {1, 2} : tkReal' = tkReal + n /\ tkRtc' = tkRtc + n /\ tkReal + n <= TkMaxReal
    BY <1>3, Passes, Zenon
  <2> QED BY <1>1, <2>1 DEF TkCounter
<1>4. CASE \E a \in TkAhead : TkSetClock(a)
  <2>1. tkReal' = tkReal /\ tkRtc' = tkRtc
    BY <1>4, Zenon DEF TkSetClock
  <2> QED BY <1>1, <2>1 DEF TkCounter
<1>5. CASE TkBatteryOut
  <2>1. tkReal' = tkReal /\ tkRtc' = 0
    BY <1>5, Zenon DEF TkBatteryOut
  <2> QED BY <1>1, <2>1 DEF TkCounter
<1> QED BY <1>2, <1>3, <1>4, <1>5, WorldSteps, Zenon

\* What measureClock does to the process.
TkMeasures(r) ==
  /\ tkProc.pc = "measure clock" /\ tkFile' = tkFile /\ tkClock' = tkClock /\ tkTimer' = tkTimer /\ TkStill
  /\ tkProc'.saved = tkProc.saved
  /\ tkProc'.last = TkEnds("ok")
  /\ tkProc'.pc = IF needsSave(tkProc.saved, r) THEN "save" ELSE "wait"
  /\ tkProc'.current = IF needsSave(tkProc.saved, r) THEN r ELSE TkNone

\* measureClock makes that measurement.
LEMMA ClockMeasured ==
  ASSUME TkTypeOK, measureClock
  PROVE  TkMeasures(TkMeasured(tkProc.rtcSec, tkClock, tkTruth.sets, tkTruth.losses, tkRtc, Truth))
<1> DEFINE r == TkMeasured(tkProc.rtcSec, tkClock, tkTruth.sets, tkTruth.losses, tkRtc, Truth)
<1>1. tkProc' = [tkProc EXCEPT !.pc = IF needsSave(tkProc.saved, r) THEN "save" ELSE "wait",
                               !.current = IF needsSave(tkProc.saved, r) THEN r ELSE TkNone,
                               !.rtcSec = 0, !.last = TkEnds("ok")]
  BY Zenon DEF measureClock, TkMeasured, readRtcSec
<1>2. tkProc.pc = "measure clock" /\ tkFile' = tkFile /\ tkClock' = tkClock /\ tkTimer' = tkTimer /\ TkStill
  BY Zenon DEF measureClock, TkWorld, TkStill
<1> HIDE DEF r
<1>3. /\ tkProc'.saved = tkProc.saved
      /\ tkProc'.last = TkEnds("ok")
      /\ tkProc'.pc = IF needsSave(tkProc.saved, r) THEN "save" ELSE "wait"
      /\ tkProc'.current = IF needsSave(tkProc.saved, r) THEN r ELSE TkNone
  BY <1>1 DEF TkTypeOK
<1> QED BY <1>2, <1>3, Zenon DEF TkMeasures, r

\* Every other step of the process moves the records it holds around, or drops them.
LEMMA HeldMoved ==
  ASSUME TkTypeOK, [TkNext]_tkVars, ~measureClock
  PROVE  \A r \in TkHeld' : r \in TkHeld \/ r = TkNone
<1> DEFINE Held == TkHeld \cup {TkNone}
<1>1. tkFile.now \in Held /\ tkFile.safe \in Held /\ tkProc.saved \in Held /\ tkProc.current \in Held /\ TkNone \in Held
  BY DEF TkHeld
<1>2. tkProc \in TkProcs /\ tkFile \in [now : TkRecords, safe : TkRecords]
  BY DEF TkTypeOK, TkProcs
<1> HIDE DEF Held
<1>3. tkProc'.saved \in Held /\ tkProc'.current \in Held
  <2>1. CASE \E pc : TkGo(pc)
    <3>1. PICK pc : tkProc' = [tkProc EXCEPT !.pc = pc]
      BY <2>1 DEF TkGo
    <3> QED BY <1>1, <1>2, <3>1 DEF TkProcs
  <2>2. CASE \E pc \in TkPlaces : tkProc' = TkProc(pc)
    BY <1>1, <2>2, NewProc
  <2>3. CASE restoreRead
    <3>1. CASE tkProc' = [tkProc EXCEPT !.pc = "restore set", !.saved = tkFile.now, !.rtcSec = readRtcSec]
      BY <1>1, <1>2, <3>1 DEF TkProcs
    <3> QED BY <2>1, <2>3, <3>1, Zenon DEF restoreRead
  <2>4. CASE loadRecord
    <3>1. CASE tkProc' = [tkProc EXCEPT !.pc = "measure", !.saved = tkFile.now]
      BY <1>1, <1>2, <3>1 DEF TkProcs
    <3> QED BY <2>1, <2>4, <3>1, Zenon DEF loadRecord
  <2>5. CASE measureRtc
    BY <1>1, <1>2, <2>5, Zenon DEF measureRtc, TkProcs
  <2>6. CASE saveFails
    BY <1>1, <1>2, <2>6 DEF saveFails, TkProcs
  <2>7. CASE saveSync
    BY <1>1, <1>2, <2>7 DEF saveSync, TkProcs
  <2>8. CASE restoreSet \/ restoreFails \/ saveRename \/ TkWake
    BY <2>1, <2>8, Zenon DEF restoreSet, restoreFails, saveRename, TkWake
  <2>9. CASE TkStart \/ TkCrash \/ TkPowerOff \/ TkBoot
    <3>1. "load" \in TkPlaces /\ "start" \in TkPlaces /\ "off" \in TkPlaces /\ "restore" \in TkPlaces
      BY DEF TkPlaces
    <3> QED BY <2>2, <2>9, <3>1, Zenon DEF TkStart, TkCrash, TkPowerOff, TkBoot
  <2>10. CASE tkProc' = tkProc
    BY <1>1, <2>10
  <2> QED BY <2>3, <2>4, <2>5, <2>6, <2>7, <2>8, <2>9, <2>10, Zenon DEF TkNext, TkTick, TkSuspend, TkSetClock, TkBatteryOut, tkVars
<1>4. tkFile'.now \in Held /\ tkFile'.safe \in Held
  <2>1. CASE saveRename \/ saveSync
    BY <1>1, <1>2, <2>1 DEF saveRename, saveSync
  <2>2. CASE TkPowerOff
    BY <1>1, <2>2 DEF TkPowerOff
  <2>3. CASE tkFile' = tkFile
    BY <1>1, <2>3
  <2> QED BY <2>1, <2>2, <2>3, Zenon DEF TkNext, tkVars, restoreRead, restoreSet, restoreFails, TkStart,
             loadRecord, measureRtc, saveFails, TkWake, TkTick, TkSuspend, TkSetClock, TkCrash, TkBatteryOut, TkBoot
<1> QED BY <1>3, <1>4, Zenon DEF TkHeld, Held


\* The records, in memory and on disk, keep telling the truth.
LEMMA HeldKept ==
  ASSUME TkTypeOK, TkCounter, TkHeldSound, TkCopies, [TkNext]_tkVars
  PROVE  TkHeldSound'
<1>1. /\ tkReal \in Nat /\ tkRtc \in Nat /\ tkClock \in Int /\ Truth \in Int
      /\ tkTruth.sets \in Nat /\ tkTruth.losses \in Nat /\ tkTruth.ahead \in Int
      /\ tkTruth \in [ahead : Int, sets : Nat, losses : Nat]
  BY DEF TkTypeOK, Truth
<1>2. TkHeld \subseteq TkRecords
  BY DEF TkHeld, TkTypeOK
<1>3. \A r \in TkHeld : TkSound(r, tkTruth.sets, tkTruth.losses, tkRtc, Truth)
  BY DEF TkHeldSound
<1>4. CASE TkStill /\ ~measureClock
  <2>1. tkTruth' = tkTruth /\ tkRtc' = tkRtc /\ Truth' = Truth
    BY <1>4 DEF TkStill, Truth
  <2>2. ASSUME NEW r \in TkHeld' PROVE TkSound(r, tkTruth.sets, tkTruth.losses, tkRtc, Truth)
    BY <1>3, <1>4, <2>2, HeldMoved, SoundNone, Zenon
  <2> QED BY <2>1, <2>2 DEF TkHeldSound
<1>5. CASE measureClock
  <2> DEFINE m == TkMeasured(tkProc.rtcSec, tkClock, tkTruth.sets, tkTruth.losses, tkRtc, Truth)
  <2>1. TkMeasures(m)
    BY <1>5, ClockMeasured
  <2>2. tkProc.rtcSec \in Nat /\ tkProc.rtcSec * TkSec <= tkRtc /\ tkRtc <= TkMaxReal + 3
    <3>1. tkReal <= TkMaxReal /\ tkRtc <= tkReal + 3 /\ TkMaxReal \in Nat
      BY Constants DEF TkCounter
    <3>2. tkRtc <= TkMaxReal + 3
      BY <1>1, <3>1
    <3>3. tkProc.pc = "measure clock" /\ tkProc.rtcSec \in Nat
      BY <2>1, Zenon DEF TkTypeOK, TkMeasures
    <3> QED BY <3>2, <3>3, Zenon DEF TkCopies
  <2>3. needsSave(tkProc.saved, m) => TkSound(m, tkTruth.sets, tkTruth.losses, tkRtc, Truth)
    BY <1>1, <2>2, MeasuredSound, Zenon
  <2> HIDE DEF m
  <2>4. tkTruth' = tkTruth /\ tkRtc' = tkRtc /\ Truth' = Truth
    BY <2>1, Zenon DEF TkStill, Truth, TkMeasures
  <2>5. ASSUME NEW r \in TkHeld' PROVE r \in TkHeld \/ r = TkNone \/ (r = m /\ needsSave(tkProc.saved, m))
    BY <2>1, <2>5, Zenon DEF TkHeld, TkMeasures
  <2>6. ASSUME NEW r \in TkHeld' PROVE TkSound(r, tkTruth.sets, tkTruth.losses, tkRtc, Truth)
    BY <1>3, <2>3, <2>5, <2>6, SoundNone, Zenon
  <2> QED BY <2>4, <2>6 DEF TkHeldSound
<1>6. ASSUME tkProc' = tkProc, tkFile' = tkFile PROVE TkHeld' = TkHeld
  BY <1>6, Zenon DEF TkHeld
<1>7. CASE (TkTick \/ TkSuspend) /\ tkProc' = tkProc /\ tkFile' = tkFile
  <2>1. PICK n \in {1, 2} : tkReal' = tkReal + n /\ tkRtc' = tkRtc + n
    BY <1>7, Passes, Zenon
  <2>2. tkTruth' = tkTruth /\ Truth' = Truth + n /\ n \in Nat
    <3>1. tkTruth' = tkTruth
      BY <1>7, Zenon DEF TkTick, TkSuspend
    <3> QED BY <1>1, <2>1, <3>1 DEF Truth
  <2>3. ASSUME NEW r \in TkHeld PROVE TkSound(r, tkTruth.sets, tkTruth.losses, tkRtc + n, Truth + n)
    BY <1>1, <1>2, <1>3, <2>2, <2>3, SoundLater
  <2> QED BY <1>6, <1>7, <2>1, <2>2, <2>3 DEF TkHeldSound
<1>8. ASSUME NEW a \in TkAhead, TkSetClock(a), tkProc' = tkProc, tkFile' = tkFile PROVE TkHeldSound'
  <2>1. tkTruth' = [tkTruth EXCEPT !.ahead = a, !.sets = @ + 1] /\ tkRtc' = tkRtc /\ tkReal' = tkReal
    BY <1>8, Zenon DEF TkSetClock
  <2>2. tkTruth'.sets = tkTruth.sets + 1 /\ tkTruth'.losses = tkTruth.losses /\ tkTruth'.ahead = a
    BY <1>1, <2>1
  <2>3. Truth' \in Int
    BY <1>1, <2>1, <2>2, Ahead DEF Truth
  <2>4. ASSUME NEW r \in TkHeld PROVE TkSound(r, tkTruth.sets + 1, tkTruth.losses, tkRtc, Truth')
    BY <1>1, <1>2, <1>3, <2>3, <2>4, SoundSet
  <2> QED BY <1>6, <1>8, <2>1, <2>2, <2>4 DEF TkHeldSound
<1>9. CASE TkBatteryOut /\ tkProc' = tkProc /\ tkFile' = tkFile
  <2>1. tkTruth' = [tkTruth EXCEPT !.losses = @ + 1] /\ tkRtc' = 0 /\ tkReal' = tkReal
    BY <1>9, Zenon DEF TkBatteryOut
  <2>2. tkTruth'.sets = tkTruth.sets /\ tkTruth'.losses = tkTruth.losses + 1 /\ tkTruth'.ahead = tkTruth.ahead
    BY <1>1, <2>1
  <2>3. Truth' = Truth
    BY <2>1, <2>2, Zenon DEF Truth
  <2>4. ASSUME NEW r \in TkHeld PROVE TkSound(r, tkTruth.sets, tkTruth.losses + 1, 0, Truth)
    BY <1>1, <1>2, <1>3, <2>4, SoundLoss
  <2> QED BY <1>6, <1>9, <2>1, <2>2, <2>3, <2>4 DEF TkHeldSound
<1> QED BY <1>4, <1>5, <1>7, <1>8, <1>9, WorldSteps, Zenon

\* Until the record is used, the clock is the counter of this boot.
LEMMA BootingKept ==
  ASSUME TkTypeOK, TkHeldSound, TkBooting, [TkNext]_tkVars
  PROVE  TkBooting'
<1>1. /\ tkReal \in Nat /\ tkRtc \in Nat /\ tkClock \in Int /\ tkProc.rtcSec \in Nat
      /\ tkTruth.losses \in Nat /\ tkProc \in TkProcs /\ tkFile.now \in TkRecords
  BY DEF TkTypeOK, TkProcs
<1>2. PICK q \in Nat : q = readRtcSec /\ q * TkSec <= tkRtc /\ tkRtc < q * TkSec + TkSec
  BY <1>1, Seconds DEF readRtcSec
<1>3. CASE tkProc'.pc \notin {"restore", "restore set"}
  BY <1>3, Zenon DEF TkBooting
<1>4. CASE restoreRead
  <2>1. tkFile' = tkFile /\ tkClock' = tkClock /\ TkStill /\ tkProc.pc = "restore"
    BY <1>4, Zenon DEF restoreRead, TkStill, TkWorld
  <2>2. CASE TkGo("start")
    BY <1>1, <1>3, <2>2 DEF TkGo, TkProcs
  <2>3. CASE tkFile.now # TkNone /\ tkProc' = [tkProc EXCEPT !.pc = "restore set", !.saved = tkFile.now, !.rtcSec = readRtcSec]
    <3>1. tkProc'.pc = "restore set" /\ tkProc'.saved = tkFile.now /\ tkProc'.rtcSec = q
      BY <1>1, <1>2, <2>3 DEF TkProcs
    <3>2. tkRtc - TkSec < tkClock /\ tkClock <= tkRtc
      BY <2>1 DEF TkBooting
    <3>3. ASSUME tkFile.now.world # <<>>, tkFile.now.world[2] = tkTruth.losses
          PROVE  tkFile.now.rtcSec <= q
      <4>1. tkFile.now.rtcSec * TkSec <= tkRtc
        BY <3>3, Zenon DEF TkHeldSound, TkHeld, TkSound, TkTells
      <4>2. tkFile.now.rtcSec \in Int
        BY <1>1 DEF TkRecords
      <4>3. CASE ~(tkFile.now.rtcSec <= q)
        <5>1. PICK next \in Int : next = q + 1
          OBVIOUS
        <5>2. next <= tkFile.now.rtcSec
          BY <4>2, <4>3, <5>1
        <5>3. next * TkSec <= tkFile.now.rtcSec * TkSec
          BY <4>2, <5>2, ScaledOrder
        <5>4. next * TkSec = q * TkSec + TkSec
          BY <5>1, ScaledNext
        <5>5. next * TkSec \in Int /\ tkFile.now.rtcSec * TkSec \in Int
          BY <4>2, Scaled
        <5> QED BY <1>1, <1>2, <4>1, <5>3, <5>4, <5>5
      <4> QED BY <4>3
    <3>4. q * TkSec <= tkRtc /\ tkRtc <= q * TkSec + TkSec
      BY <1>1, <1>2, Constants, Scaled
    <3> QED BY <2>1, <2>3, <3>1, <3>2, <3>3, <3>4 DEF TkBooting, TkStill
  <2> QED BY <1>4, <2>2, <2>3, Zenon DEF restoreRead
<1>5. CASE TkTick
  <2>1. PICK n \in {1, 2} : /\ tkRtc' = tkRtc + n /\ tkClock' = (IF TkUp THEN tkClock + n ELSE tkClock)
                            /\ tkProc.pc \in {"restore set", "measure clock"} => n = 1
    BY <1>5, Passes, Zenon
  <2>2. tkProc' = tkProc /\ tkTruth' = tkTruth /\ (tkProc.pc \in {"restore set", "measure clock"} => readRtcSec = tkProc.rtcSec)
    BY <1>5, Zenon DEF TkTick
  <2>3. tkProc.pc \in {"restore", "restore set"} => tkClock' = tkClock + n
    BY <2>1, Zenon DEF TkUp
  <2>4. ASSUME tkProc.pc \in {"restore", "restore set"} PROVE tkRtc' - TkSec < tkClock' /\ tkClock' <= tkRtc'
    <3>1. tkRtc - TkSec < tkClock /\ tkClock <= tkRtc
      BY <2>4, Zenon DEF TkBooting
    <3>2. TkSec \in Nat /\ n \in Nat
      BY Constants
    <3>3. tkRtc' = tkRtc + n /\ tkClock' = tkClock + n
      BY <2>1, <2>3, <2>4, Zenon
    <3> QED BY <1>1, <3>1, <3>2, <3>3
  <2>5. ASSUME tkProc.pc = "restore set"
        PROVE  tkProc.rtcSec * TkSec <= tkRtc' /\ tkRtc' <= tkProc.rtcSec * TkSec + TkSec
    <3>1. q = tkProc.rtcSec /\ tkRtc' = tkRtc + 1
      BY <1>2, <2>1, <2>2, <2>5, Zenon
    <3>2. PICK p \in Int : p = q * TkSec
      BY Scaled
    <3>3. p <= tkRtc + 1 /\ tkRtc + 1 <= p + TkSec
      BY <1>1, <1>2, <3>2, Constants
    <3> QED BY <3>1, <3>2, <3>3
  <2> QED BY <2>2, <2>4, <2>5, Zenon DEF TkBooting
<1>6. CASE TkBoot
  <2>1. tkProc' = TkProc("restore") /\ tkClock' = q * TkSec /\ tkRtc' = tkRtc
    BY <1>2, <1>6 DEF TkBoot
  <2>2. tkProc'.pc = "restore"
    BY <2>1, NewProc, Zenon DEF TkPlaces
  <2>3. tkRtc - TkSec < q * TkSec /\ q * TkSec <= tkRtc
    BY <1>1, <1>2, Constants, Scaled
  <2> QED BY <2>1, <2>2, <2>3, Zenon DEF TkBooting
<1>7. CASE UNCHANGED tkVars
  BY <1>7, Zenon DEF tkVars, TkBooting
<1>8. CASE TkSuspend \/ (\E a \in TkAhead : TkSetClock(a)) \/ TkBatteryOut
  <2>1. tkProc' = tkProc /\ tkProc.pc \notin {"restore", "restore set"}
    BY <1>8, Zenon DEF TkSuspend, TkSetClock, TkBatteryOut, TkUp
  <2> QED BY <1>3, <2>1, Zenon
<1>9. CASE restoreSet \/ restoreFails \/ saveRename \/ TkWake
  <2>1. PICK pc \in {"restored", "start", "sync", "measure"} : tkProc' = [tkProc EXCEPT !.pc = pc]
    BY <1>9, Zenon DEF restoreSet, restoreFails, saveRename, TkWake, TkGo
  <2>2. tkProc'.pc = pc
    BY <1>1, <2>1 DEF TkProcs
  <2> QED BY <1>3, <2>2, Zenon
<1>10. CASE TkStart \/ TkCrash \/ TkPowerOff
  <2>1. PICK pc \in {"load", "start", "off"} : tkProc' = TkProc(pc)
    BY <1>10, Zenon DEF TkStart, TkCrash, TkPowerOff
  <2>2. tkProc'.pc = pc
    BY <2>1, NewProc, Zenon DEF TkPlaces
  <2> QED BY <1>3, <2>2, Zenon
<1>11. CASE loadRecord \/ measureRtc \/ saveFails \/ saveSync
  <2>1. tkProc'.pc \in {"measure", "measure clock", "wait"}
    BY <1>1, <1>11, Zenon DEF loadRecord, measureRtc, saveFails, saveSync, TkGo, TkProcs
  <2> QED BY <1>3, <2>1, Zenon
<1>12. CASE measureClock
  <2>1. tkProc'.pc \in {"save", "wait"}
    BY <1>12, ClockMeasured, Zenon DEF TkMeasures
  <2> QED BY <1>3, <2>1, Zenon
<1> QED BY <1>4, <1>5, <1>6, <1>7, <1>8, <1>9, <1>10, <1>11, <1>12, Zenon DEF TkNext


\* A boot, a restore that does not set the clock, a crash: neither the daemon at work nor a restored clock.
LEMMA Elsewhere ==
  ASSUME TkTypeOK, restoreRead \/ restoreFails \/ TkCrash \/ TkPowerOff \/ TkBoot
  PROVE  tkProc'.pc \notin TkDaemon \cup {"restored"}
<1>1. tkProc \in TkProcs
  BY DEF TkTypeOK, TkProcs
<1>2. CASE restoreRead \/ restoreFails
  <2>1. tkProc'.pc \in {"start", "restore set"}
    BY <1>1, <1>2, Zenon DEF restoreRead, restoreFails, TkGo, TkProcs
  <2> QED BY <2>1, Zenon DEF TkDaemon
<1>3. CASE TkCrash \/ TkPowerOff \/ TkBoot
  <2>1. PICK pc \in {"start", "off", "restore"} : tkProc' = TkProc(pc)
    BY <1>3, Zenon DEF TkCrash, TkPowerOff, TkBoot
  <2>2. tkProc'.pc = pc
    BY <2>1, NewProc, Zenon DEF TkPlaces
  <2> QED BY <2>2, Zenon DEF TkDaemon
<1> QED BY <1>2, <1>3

\* The clock of a boot has been set, or left.
LEMMA RestoreSteps ==
  ASSUME TkTypeOK, restoreSet
  PROVE  /\ tkProc.pc = "restore set" /\ tkProc'.pc = "restored" /\ tkProc'.saved = tkProc.saved /\ TkStill
         /\ LET target == restoreTargetMs(tkProc.saved, tkProc.rtcSec, tkClock)
            IN  tkClock' = IF target = -1 THEN tkClock ELSE target
<1>1. tkProc \in TkProcs /\ tkProc' = [tkProc EXCEPT !.pc = "restored"]
  BY Zenon DEF TkTypeOK, TkProcs, restoreSet, TkGo
<1>2. tkProc'.pc = "restored" /\ tkProc'.saved = tkProc.saved
  BY <1>1 DEF TkProcs
<1> QED BY <1>2, Zenon DEF restoreSet, TkStill

\* What the daemon's steps leave in the process: where it is, its copies, the counter it read, how it went.
TkBecomes(pc, saved, rtcSec, current, last) ==
  /\ tkProc'.pc = pc /\ tkProc'.saved = saved /\ tkProc'.rtcSec = rtcSec /\ tkProc'.current = current
  /\ tkProc'.last = last

\* The daemon's steps, in these terms.
LEMMA DaemonSteps ==
  ASSUME TkTypeOK
  PROVE  /\ TkStart => /\ TkBecomes("load", TkNone, 0, TkNone, "ok") /\ tkFile' = tkFile /\ tkClock' = tkClock
                       /\ TkStill /\ arm
         /\ loadRecord => /\ \/ TkBecomes("measure", tkFile.now, tkProc.rtcSec, tkProc.current, tkProc.last)
                             \/ TkBecomes("measure", tkProc.saved, tkProc.rtcSec, tkProc.current, tkProc.last)
                          /\ tkProc.pc = "load"
                          /\ tkFile' = tkFile /\ tkClock' = tkClock /\ TkStill /\ tkTimer' = tkTimer
         /\ measureRtc => /\ \/ TkBecomes("measure clock", tkProc.saved, readRtcSec, tkProc.current, tkProc.last)
                             \/ TkBecomes("wait", tkProc.saved, tkProc.rtcSec, tkProc.current, TkEnds("failed"))
                          /\ tkProc.pc = "measure"
                          /\ tkFile' = tkFile /\ tkClock' = tkClock /\ TkStill /\ tkTimer' = tkTimer
         /\ saveFails => /\ TkBecomes("wait", tkProc.saved, tkProc.rtcSec, TkNone,
                                      IF tkProc.pc = "sync" THEN "torn" ELSE TkEnds("failed"))
                         /\ tkProc.pc \in {"save", "sync"}
                         /\ tkFile' = tkFile /\ tkClock' = tkClock /\ TkStill /\ tkTimer' = tkTimer
         /\ saveRename => /\ TkBecomes("sync", tkProc.saved, tkProc.rtcSec, tkProc.current, tkProc.last)
                          /\ tkProc.pc = "save"
                          /\ tkFile'.now = tkProc.current /\ tkClock' = tkClock /\ TkStill /\ tkTimer' = tkTimer
         /\ saveSync => /\ TkBecomes("wait", tkProc.current, tkProc.rtcSec, TkNone, "ok")
                        /\ tkProc.pc = "sync"
                        /\ tkFile'.now = tkFile.now /\ tkClock' = tkClock /\ TkStill /\ tkTimer' = tkTimer
         /\ TkWake => /\ TkBecomes("measure", tkProc.saved, tkProc.rtcSec, tkProc.current, tkProc.last)
                      /\ tkProc.pc = "wait"
                      /\ tkFile' = tkFile /\ tkClock' = tkClock /\ TkStill /\ arm
<1>1. tkProc \in TkProcs /\ tkFile \in [now : TkRecords, safe : TkRecords]
  BY DEF TkTypeOK, TkProcs
<1>2. ASSUME NEW pc, TkGo(pc)
      PROVE  TkBecomes(pc, tkProc.saved, tkProc.rtcSec, tkProc.current, tkProc.last)
  BY <1>1, <1>2 DEF TkGo, TkBecomes, TkProcs
<1>3. ASSUME TkStart PROVE TkBecomes("load", TkNone, 0, TkNone, "ok")
  BY <1>3 DEF TkStart, TkProc, TkBecomes
<1>4. ASSUME loadRecord
      PROVE  \/ TkBecomes("measure", tkFile.now, tkProc.rtcSec, tkProc.current, tkProc.last)
             \/ TkBecomes("measure", tkProc.saved, tkProc.rtcSec, tkProc.current, tkProc.last)
  <2>1. CASE tkProc' = [tkProc EXCEPT !.pc = "measure", !.saved = tkFile.now]
    BY <1>1, <2>1 DEF TkBecomes, TkProcs
  <2> QED BY <1>2, <1>4, <2>1, Zenon DEF loadRecord
<1>5. ASSUME measureRtc
      PROVE  \/ TkBecomes("measure clock", tkProc.saved, readRtcSec, tkProc.current, tkProc.last)
             \/ TkBecomes("wait", tkProc.saved, tkProc.rtcSec, tkProc.current, TkEnds("failed"))
  <2>1. CASE tkProc' = [tkProc EXCEPT !.pc = "measure clock", !.rtcSec = readRtcSec]
    BY <1>1, <2>1 DEF TkBecomes, TkProcs
  <2>2. CASE tkProc' = [tkProc EXCEPT !.pc = "wait", !.last = TkEnds("failed")]
    BY <1>1, <2>2 DEF TkBecomes, TkProcs
  <2> QED BY <1>5, <2>1, <2>2, Zenon DEF measureRtc
<1>6. ASSUME saveFails
      PROVE  TkBecomes("wait", tkProc.saved, tkProc.rtcSec, TkNone, IF tkProc.pc = "sync" THEN "torn" ELSE TkEnds("failed"))
  BY <1>1, <1>6 DEF saveFails, TkBecomes, TkProcs
<1>7. ASSUME saveSync PROVE TkBecomes("wait", tkProc.current, tkProc.rtcSec, TkNone, "ok") /\ tkFile'.now = tkFile.now
  BY <1>1, <1>7 DEF saveSync, TkBecomes, TkProcs
<1>8. ASSUME saveRename PROVE tkFile'.now = tkProc.current
  BY <1>1, <1>8 DEF saveRename
<1>9. TkStart => tkFile' = tkFile /\ tkClock' = tkClock /\ TkStill /\ arm
  BY Zenon DEF TkStart, TkWorld, TkStill
<1>10. loadRecord => tkProc.pc = "load" /\ tkFile' = tkFile /\ tkClock' = tkClock /\ TkStill /\ tkTimer' = tkTimer
  BY Zenon DEF loadRecord, TkWorld, TkStill
<1>11. measureRtc => tkProc.pc = "measure" /\ tkFile' = tkFile /\ tkClock' = tkClock /\ TkStill /\ tkTimer' = tkTimer
  BY Zenon DEF measureRtc, TkWorld, TkStill
<1>12. saveFails => /\ tkProc.pc \in {"save", "sync"}
                    /\ tkFile' = tkFile /\ tkClock' = tkClock /\ TkStill /\ tkTimer' = tkTimer
  BY Zenon DEF saveFails, TkWorld, TkStill
<1>13. saveRename => tkProc.pc = "save" /\ tkClock' = tkClock /\ TkStill /\ tkTimer' = tkTimer /\ TkGo("sync")
  BY Zenon DEF saveRename, TkWorld, TkStill
<1>14. saveSync => tkProc.pc = "sync" /\ tkClock' = tkClock /\ TkStill /\ tkTimer' = tkTimer
  BY Zenon DEF saveSync, TkWorld, TkStill
<1>15. TkWake => tkProc.pc = "wait" /\ tkFile' = tkFile /\ tkClock' = tkClock /\ TkStill /\ arm /\ TkGo("measure")
  BY Zenon DEF TkWake, TkWorld, TkStill
<1> QED BY <1>2, <1>3, <1>4, <1>5, <1>6, <1>7, <1>8, <1>9, <1>10, <1>11, <1>12, <1>13, <1>14, <1>15, Zenon


\* The daemon's copy of the record is that of the file, unless a rename is not synced.
LEMMA CopiesKept ==
  ASSUME TkTypeOK, TkCounter, TkCopies, [TkNext]_tkVars
  PROVE  TkCopies'
<1>1. tkReal \in Nat /\ tkRtc \in Nat /\ tkProc.rtcSec \in Nat
  BY DEF TkTypeOK
<1>2. TkEnds("ok") # "torn" => tkProc.last # "torn"
  BY DEF TkEnds
<1>3. TkEnds("failed") # "torn" => tkProc.last # "torn"
  BY DEF TkEnds
<1>4. CASE restoreRead \/ restoreFails \/ TkCrash \/ TkPowerOff \/ TkBoot
  <2>1. tkProc'.pc \notin TkDaemon
    BY <1>4, Elsewhere
  <2> QED BY <2>1, Zenon DEF TkCopies, TkDaemon
<1>5. CASE restoreSet
  <2>1. tkProc'.pc = "restored"
    BY <1>5, RestoreSteps, Zenon
  <2> QED BY <2>1, Zenon DEF TkCopies, TkDaemon
<1>6. CASE TkStart
  <2>1. tkProc'.pc = "load" /\ tkProc'.saved = TkNone
    BY <1>6, DaemonSteps, Zenon DEF TkBecomes
  <2> QED BY <2>1, Zenon DEF TkCopies
<1>7. CASE loadRecord
  <2>1. tkProc'.pc = "measure" /\ tkProc'.saved \in {TkNone, tkFile'.now}
    BY <1>7, DaemonSteps, Zenon DEF TkBecomes, TkCopies
  <2> QED BY <2>1, Zenon DEF TkCopies
<1>8. CASE measureRtc
  <2>1. tkProc.last # "torn" => tkProc'.saved \in {TkNone, tkFile'.now}
    BY <1>8, DaemonSteps, Zenon DEF TkBecomes, TkCopies, TkDaemon
  <2>2. CASE tkProc'.pc = "measure clock" /\ tkProc'.last = tkProc.last /\ tkProc'.rtcSec = readRtcSec /\ tkRtc' = tkRtc
    <3>1. readRtcSec * TkSec <= tkRtc
      BY <1>1, Seconds DEF readRtcSec
    <3> QED BY <2>1, <2>2, <3>1, Zenon DEF TkCopies
  <2>3. CASE tkProc'.pc = "wait" /\ tkProc'.last = TkEnds("failed")
    BY <1>3, <2>1, <2>3, Zenon DEF TkCopies
  <2> QED BY <1>8, <2>2, <2>3, DaemonSteps, Zenon DEF TkBecomes, TkStill
<1>9. CASE measureClock
  <2> DEFINE m == TkMeasured(tkProc.rtcSec, tkClock, tkTruth.sets, tkTruth.losses, tkRtc, Truth)
  <2>1. TkMeasures(m)
    BY <1>9, ClockMeasured
  <2>2. tkProc.pc = "measure clock" /\ tkProc.rtcSec * TkSec <= tkRtc
    BY <2>1, Zenon DEF TkMeasures, TkCopies
  <2>3. needsSave(tkProc.saved, m) => m # TkNone
    <3>1. tkRtc <= TkMaxReal + 3
      BY <1>1, Constants DEF TkCounter
    <3>2. tkTruth.sets \in Nat /\ tkTruth.losses \in Nat /\ Truth \in Int /\ tkClock \in Int
      BY DEF TkTypeOK, Truth
    <3> QED BY <1>1, <2>2, <3>1, <3>2, MeasuredSound, Zenon
  <2> HIDE DEF m
  <2>4. tkProc.last # "torn" => tkProc.saved \in {TkNone, tkFile.now}
    BY <2>2, Zenon DEF TkCopies, TkDaemon
  <2>5. tkProc'.last # "torn" => tkProc'.saved \in {TkNone, tkFile'.now}
    BY <1>2, <2>1, <2>4, Zenon DEF TkMeasures
  <2>6. (tkProc'.pc = "save" /\ tkProc'.current # TkNone) \/ tkProc'.pc = "wait"
    BY <2>1, <2>3, Zenon DEF TkMeasures
  <2> QED BY <2>5, <2>6, Zenon DEF TkCopies
<1>10. CASE saveFails
  <2>1. tkProc'.pc = "wait" /\ tkProc'.saved = tkProc.saved /\ tkFile' = tkFile /\ tkProc.pc \in {"save", "sync"}
        /\ tkProc'.last = IF tkProc.pc = "sync" THEN "torn" ELSE TkEnds("failed")
    BY <1>10, DaemonSteps, Zenon DEF TkBecomes
  <2>2. tkProc'.last # "torn" => tkProc'.saved \in {TkNone, tkFile'.now}
    BY <1>3, <2>1, Zenon DEF TkCopies, TkDaemon
  <2> QED BY <2>1, <2>2, Zenon DEF TkCopies
<1>11. CASE saveRename
  <2>1. tkProc'.pc = "sync" /\ tkProc'.current = tkProc.current /\ tkFile'.now = tkProc.current /\ tkProc.pc = "save"
    BY <1>11, DaemonSteps, Zenon DEF TkBecomes
  <2> QED BY <2>1 DEF TkCopies
<1>12. CASE saveSync
  <2>1. tkProc'.pc = "wait" /\ tkProc'.saved = tkProc.current /\ tkFile'.now = tkFile.now /\ tkProc.pc = "sync"
    BY <1>12, DaemonSteps, Zenon DEF TkBecomes
  <2> QED BY <2>1 DEF TkCopies
<1>13. CASE TkWake
  <2>1. tkProc'.pc = "measure" /\ tkProc'.saved = tkProc.saved /\ tkFile' = tkFile /\ tkProc.pc = "wait"
        /\ tkProc'.last = tkProc.last
    BY <1>13, DaemonSteps, Zenon DEF TkBecomes
  <2> QED BY <2>1 DEF TkCopies, TkDaemon
<1>14. CASE TkTick \/ TkSuspend \/ (\E a \in TkAhead : TkSetClock(a)) \/ TkBatteryOut \/ UNCHANGED tkVars
  <2>1. tkProc' = tkProc /\ tkFile' = tkFile
    BY <1>14, Zenon DEF TkTick, TkSuspend, TkSetClock, TkBatteryOut, tkVars
  <2>2. tkProc.pc = "measure clock" => tkProc.rtcSec * TkSec <= tkRtc'
    <3>1. CASE TkTick \/ TkSuspend
      <4>1. PICK n \in {1, 2} : tkRtc' = tkRtc + n
        BY <3>1, Passes, Zenon
      <4>2. PICK p \in Int : p = tkProc.rtcSec * TkSec
        BY <1>1, Scaled
      <4>3. p <= tkRtc => p <= tkRtc'
        BY <1>1, <4>1
      <4> QED BY <4>2, <4>3, Zenon DEF TkCopies
    <3>2. CASE tkRtc' = tkRtc
      BY <3>2, Zenon DEF TkCopies
    <3>3. CASE TkBatteryOut
      BY <3>3, Zenon DEF TkBatteryOut, TkUp
    <3> QED BY <1>14, <3>1, <3>2, <3>3, Zenon DEF TkSetClock, tkVars
  <2> QED BY <2>1, <2>2, Zenon DEF TkCopies
<1> QED BY <1>4, <1>5, <1>6, <1>7, <1>8, <1>9, <1>10, <1>11, <1>12, <1>13, <1>14, Zenon DEF TkNext


\* Why a measurement need not be saved, with the timer armed at or before it.
LEMMA NotSaved ==
  ASSUME NEW r \in TkRecords, NEW saved \in TkRecords, NEW clock \in Int, NEW rtc \in Nat, NEW p \in Int, NEW due \in Int,
         ~needsSave(saved, r), r.rtcSec >= 0, wallMs(r) = clock, r.offset = clock - p, 0 <= p, p <= rtc, rtc <= p + TkSec,
         due <= clock + TkRefresh
  PROVE  \/ /\ saved # TkNone
            /\ clock - rtc - TkSec < saved.offset /\ saved.offset < clock - rtc + 2 * TkSec
            /\ due - 2 * TkRefresh < wallMs(saved)
         \/ due - TkRefresh < TkMinWall
         \/ clock >= TkMaxWall
         \/ Abs(clock - rtc) < TkMargin + TkSec
<1>1. PICK o, w, s \in Int : o = saved.offset /\ w = wallMs(saved) /\ s = r.offset
  BY Fields
<1>2. TkSec \in Nat /\ TkSec > 0 /\ TkRefresh \in Nat /\ TkMargin \in Nat /\ TkMinWall \in Nat /\ TkMaxWall \in Nat
  BY Constants
<1>3. CASE ~valid(r)
  <2>1. s >= TkMaxWall \/ ~(clock >= TkMinWall) \/ ~(clock < TkMaxWall)
    BY <1>1, <1>2, <1>3 DEF valid
  <2>2. s <= clock
    BY <1>1
  <2>3. clock >= TkMaxWall \/ clock < TkMinWall
    BY <1>2, <2>1, <2>2
  <2>4. clock < TkMinWall => due - TkRefresh < TkMinWall
    BY <1>2
  <2> QED BY <2>3, <2>4
<1>4. CASE ~(Abs(r.offset) >= TkMargin)
  <2>1. ~(Abs(s) >= TkMargin) /\ s = clock - p
    BY <1>1, <1>4
  <2>2. -TkMargin < s /\ s < TkMargin
    BY <1>2, <2>1 DEF Abs
  <2>3. clock - rtc <= s /\ s <= clock - rtc + TkSec
    BY <1>2, <2>1
  <2>4. Abs(clock - rtc) < TkMargin + TkSec
    BY <1>2, <2>2, <2>3 DEF Abs
  <2> QED BY <2>4
<1>5. CASE /\ saved # TkNone /\ ~(Abs(r.offset - saved.offset) >= TkThreshold)
           /\ ~(wallMs(r) - wallMs(saved) >= TkRefresh)
  <2>1. ~(Abs(s - o) >= TkSec) /\ ~(clock - w >= TkRefresh) /\ s = clock - p
    BY <1>1, <1>5 DEF TkThreshold
  <2>2. -TkSec < s - o /\ s - o < TkSec
    BY <1>2, <2>1 DEF Abs
  <2>3. clock - rtc - TkSec < o /\ o < clock - rtc + 2 * TkSec /\ due - 2 * TkRefresh < w
    BY <1>2, <2>1, <2>2
  <2> QED BY <1>1, <1>5, <2>3
<1> QED BY <1>3, <1>4, <1>5, Zenon DEF needsSave


\* As long as the timer is not cancelled, the record follows the clock.
LEMMA FollowsKept ==
  ASSUME TkTypeOK, TkCounter, TkCopies, TkFollows, [TkNext]_tkVars
  PROVE  TkFollows'
<1>1. /\ tkReal \in Nat /\ tkRtc \in Nat /\ tkClock \in Int /\ tkProc.rtcSec \in Nat /\ tkTimer.due \in Int
      /\ tkProc.saved \in TkRecords /\ tkProc.current \in TkRecords /\ tkFile.now \in TkRecords
      /\ tkTimer \in [due : Int, cancelled : BOOLEAN]
  BY DEF TkTypeOK
<1>2. TkSec \in Nat /\ TkSec > 0 /\ TkRefresh \in Nat /\ TkRefresh > 0 /\ TkMargin \in Nat
  BY Constants
<1>3. TkEnds("failed") # "ok"
  BY DEF TkEnds
<1>4. CASE tkProc'.pc \notin TkDaemon
  BY <1>4, Zenon DEF TkFollows
<1>5. CASE restoreRead \/ restoreFails \/ TkCrash \/ TkPowerOff \/ TkBoot
  BY <1>4, <1>5, Elsewhere
<1>6. CASE restoreSet
  <2>1. tkProc'.pc = "restored"
    BY <1>6, RestoreSteps, Zenon
  <2> QED BY <1>4, <2>1 DEF TkDaemon
<1>7. CASE TkStart \/ TkWake
  <2>1. tkProc'.pc \in {"load", "measure"} /\ tkClock' = tkClock /\ arm
    BY <1>7, DaemonSteps, Zenon DEF TkBecomes
  <2>2. tkTimer'.due = tkClock + TkRefresh
    BY <2>1 DEF arm
  <2>3. tkTimer'.due <= tkClock' + TkRefresh
    BY <1>1, <1>2, <2>1, <2>2
  <2> QED BY <2>1, <2>3, Zenon DEF TkFollows
<1>8. CASE loadRecord
  <2>1. tkProc'.pc = "measure" /\ tkClock' = tkClock /\ tkTimer' = tkTimer /\ tkProc.pc = "load"
    BY <1>8, DaemonSteps, Zenon DEF TkBecomes
  <2> QED BY <2>1 DEF TkFollows, TkDaemon
<1>9. CASE measureRtc
  <2>1. tkClock' = tkClock /\ tkTimer' = tkTimer /\ tkRtc' = tkRtc /\ tkProc.pc = "measure"
    BY <1>9, DaemonSteps, Zenon DEF TkStill
  <2>2. CASE tkProc'.pc = "measure clock" /\ tkProc'.rtcSec = readRtcSec
    <3>1. PICK q \in Nat : q = readRtcSec /\ tkRtc < q * TkSec + TkSec
      BY <1>1, Seconds DEF readRtcSec
    <3>2. tkRtc <= q * TkSec + TkSec
      BY <1>1, <1>2, <3>1, Scaled
    <3> QED BY <2>1, <2>2, <3>1, <3>2, Zenon DEF TkFollows, TkDaemon
  <2>3. CASE tkProc'.pc = "wait" /\ tkProc'.last # "ok"
    BY <2>1, <2>3 DEF TkFollows, TkDaemon
  <2> QED BY <1>3, <1>9, <2>2, <2>3, DaemonSteps, Zenon DEF TkBecomes
<1>10. CASE measureClock
  <2> DEFINE m == TkMeasured(tkProc.rtcSec, tkClock, tkTruth.sets, tkTruth.losses, tkRtc, Truth)
  <2>1. TkMeasures(m)
    BY <1>10, ClockMeasured
  <2>2. tkProc.pc = "measure clock" /\ tkTimer' = tkTimer /\ tkClock' = tkClock /\ tkRtc' = tkRtc /\ tkFile' = tkFile
    BY <2>1, Zenon DEF TkMeasures, TkStill
  <2>3. PICK p \in Int : p = tkProc.rtcSec * TkSec /\ 0 <= p
    BY <1>1, Scaled
  <2>4. p <= tkRtc
    BY <2>2, <2>3, Zenon DEF TkCopies
  <2>5. m \in TkRecords /\ m.offset = tkClock - p /\ m.rtcSec = tkProc.rtcSec /\ wallMs(m) = tkClock
    <3>1. tkTruth.sets \in Nat /\ tkTruth.losses \in Nat /\ Truth \in Int
      BY DEF TkTypeOK, Truth
    <3>2. tkProc.rtcSec * TkSec <= tkRtc /\ tkProc.rtcSec \in Nat /\ tkClock \in Int /\ tkRtc \in Nat
      BY <1>1, <2>3, <2>4, Zenon
    <3>3. m \in TkRecords
      BY <3>1, <3>2, MeasuredTells, Zenon
    <3>4. m.offset = tkClock - tkProc.rtcSec * TkSec /\ m.rtcSec = tkProc.rtcSec
      BY DEF TkMeasured, TkRecord
    <3>5. wallMs(m) = tkClock
      <4>1. wallMs(m) = p + (tkClock - p)
        BY <2>3, <3>4, Zenon DEF wallMs
      <4> QED BY <3>2, <4>1
    <3> QED BY <2>3, <3>3, <3>4, <3>5, Zenon
  <2> HIDE DEF m
  <2>6. SUFFICES ASSUME ~tkTimer.cancelled PROVE TkFollows'
    BY <2>2, Zenon DEF TkFollows
  <2>7. tkTimer.due <= tkClock + TkRefresh /\ tkRtc <= p + TkSec
    BY <2>2, <2>3, <2>6, Zenon DEF TkFollows, TkDaemon
  <2>8. CASE needsSave(tkProc.saved, m)
    <3>1. tkProc'.pc = "save" /\ tkProc'.current = m
      BY <2>1, <2>8, Zenon DEF TkMeasures
    <3>2. PICK d \in Int : d = tkTimer.due
      BY <1>1
    <3>3. tkClock - tkRtc <= tkClock - p /\ tkClock - p <= tkClock - tkRtc + TkSec /\ d - TkRefresh <= tkClock
      BY <1>1, <1>2, <2>4, <2>7, <3>2
    <3> QED BY <2>2, <2>5, <2>7, <3>1, <3>2, <3>3, Zenon DEF TkFollows
  <2>9. CASE ~needsSave(tkProc.saved, m)
    <3>1. tkProc'.pc = "wait" /\ tkProc'.last = TkEnds("ok")
      BY <2>1, <2>9, Zenon DEF TkMeasures
    <3>2. SUFFICES ASSUME tkProc'.last = "ok" PROVE (TkOnDisk \/ TkNotDue)'
      BY <2>2, <2>7, <3>1, Zenon DEF TkFollows
    <3>3. tkProc.last # "torn"
      BY <3>1, <3>2 DEF TkEnds
    <3>4. tkProc.saved \in {TkNone, tkFile.now}
      BY <2>2, <3>3, Zenon DEF TkCopies, TkDaemon
    <3>5. \/ /\ tkProc.saved # TkNone
             /\ tkClock - tkRtc - TkSec < tkProc.saved.offset /\ tkProc.saved.offset < tkClock - tkRtc + 2 * TkSec
             /\ tkTimer.due - 2 * TkRefresh < wallMs(tkProc.saved)
          \/ tkTimer.due - TkRefresh < TkMinWall
          \/ tkClock >= TkMaxWall
          \/ Abs(tkClock - tkRtc) < TkMargin + TkSec
      <4>1. m.rtcSec >= 0
        BY <1>1, <2>5
      <4> QED BY <1>1, <2>3, <2>4, <2>5, <2>7, <2>9, <4>1, NotSaved
    <3>6. TkOnDisk \/ TkNotDue
      BY <3>4, <3>5, Zenon DEF TkOnDisk, TkNotDue
    <3> QED BY <2>2, <3>6, Zenon DEF TkOnDisk, TkNotDue
  <2> QED BY <2>8, <2>9
<1>11. CASE saveFails
  <2>1. tkProc'.pc = "wait" /\ tkProc'.last # "ok" /\ tkProc.pc \in {"save", "sync"} /\ tkTimer' = tkTimer /\ tkClock' = tkClock
    BY <1>3, <1>11, DaemonSteps, Zenon DEF TkBecomes
  <2> QED BY <2>1, Zenon DEF TkFollows, TkDaemon
<1>12. CASE saveRename
  <2>1. /\ tkProc'.pc = "sync" /\ tkProc'.current = tkProc.current /\ tkProc.pc = "save"
        /\ tkTimer' = tkTimer /\ tkClock' = tkClock /\ tkRtc' = tkRtc
    BY <1>12, DaemonSteps, Zenon DEF TkBecomes, TkStill
  <2> QED BY <2>1 DEF TkFollows, TkDaemon
<1>13. CASE saveSync
  <2>1. /\ tkProc'.pc = "wait" /\ tkProc.pc = "sync" /\ tkFile'.now = tkFile.now
        /\ tkTimer' = tkTimer /\ tkClock' = tkClock /\ tkRtc' = tkRtc
    BY <1>13, DaemonSteps, Zenon DEF TkBecomes, TkStill
  <2>2. tkProc.current = tkFile.now /\ tkFile.now # TkNone
    BY <2>1 DEF TkCopies
  <2>3. SUFFICES ASSUME ~tkTimer.cancelled PROVE TkFollows'
    BY <2>1 DEF TkFollows
  <2>4. /\ tkTimer.due <= tkClock + TkRefresh
        /\ tkClock - tkRtc <= tkFile.now.offset /\ tkFile.now.offset <= tkClock - tkRtc + TkSec
        /\ tkTimer.due - TkRefresh <= wallMs(tkFile.now)
    BY <2>1, <2>2, <2>3 DEF TkFollows, TkDaemon
  <2>5. PICK o, w \in Int : o = tkFile.now.offset /\ w = wallMs(tkFile.now)
    BY <1>1, Fields
  <2>6. tkClock - tkRtc - TkSec < o /\ o < tkClock - tkRtc + 2 * TkSec /\ tkTimer.due - 2 * TkRefresh < w
    BY <1>1, <1>2, <2>4, <2>5
  <2>7. TkOnDisk'
    BY <2>1, <2>2, <2>5, <2>6, Zenon DEF TkOnDisk
  <2> QED BY <2>1, <2>4, <2>7 DEF TkFollows
<1>14. CASE TkSuspend \/ (\E a \in TkAhead : TkSetClock(a))
  <2>1. tkTimer' = [tkTimer EXCEPT !.cancelled = TRUE]
    BY <1>14, Zenon DEF TkSuspend, TkSetClock
  <2>2. tkTimer'.cancelled
    BY <1>1, <2>1
  <2> QED BY <2>2, Zenon DEF TkFollows
<1>15. CASE TkBatteryOut
  <2>1. tkProc'.pc = "off"
    BY <1>15 DEF TkBatteryOut, TkUp
  <2> QED BY <1>4, <2>1 DEF TkDaemon
<1>16. CASE UNCHANGED tkVars
  BY <1>16, Zenon DEF tkVars, TkFollows, TkOnDisk, TkNotDue
<1>17. CASE TkTick
  <2>1. tkProc' = tkProc /\ tkTimer' = tkTimer /\ tkFile' = tkFile
    BY <1>17, Zenon DEF TkTick
  <2>2. SUFFICES ASSUME tkProc.pc \in TkDaemon, ~tkTimer.cancelled PROVE TkFollows'
    BY <2>1, Zenon DEF TkFollows
  <2>3. PICK n \in {1, 2} : tkRtc' = tkRtc + n /\ tkClock' = tkClock + n /\ (tkProc.pc = "measure clock" => n = 1)
    <3>1. TkUp
      BY <2>2, Zenon DEF TkUp, TkDaemon
    <3> QED BY <1>17, <3>1, Passes, Zenon
  <2>4. tkTimer.due <= tkClock' + TkRefresh /\ tkClock' - tkRtc' = tkClock - tkRtc
    <3>1. tkTimer.due <= tkClock + TkRefresh
      BY <2>2, Zenon DEF TkFollows
    <3>2. n \in Nat
      OBVIOUS
    <3>3. tkTimer.due <= (tkClock + n) + TkRefresh /\ (tkClock + n) - (tkRtc + n) = tkClock - tkRtc
      BY <1>1, <1>2, <3>1, <3>2
    <3> QED BY <2>3, <3>3, Zenon
  <2>5. ASSUME tkProc.pc = "measure clock" PROVE tkRtc' <= tkProc.rtcSec * TkSec + TkSec
    <3>1. PICK p \in Int : p = tkProc.rtcSec * TkSec
      BY <1>1, Scaled
    <3>2. readRtcSec = tkProc.rtcSec
      BY <1>17, <2>5, Zenon DEF TkTick
    <3>3. tkRtc < p + TkSec
      BY <1>1, <3>1, <3>2, Seconds DEF readRtcSec
    <3>4. tkRtc + 1 <= p + TkSec
      BY <1>1, <1>2, <3>3
    <3> QED BY <2>3, <2>5, <3>1, <3>4, Zenon
  <2>6. ASSUME tkProc.pc \in {"save", "sync"}
        PROVE  /\ tkClock' - tkRtc' <= tkProc.current.offset /\ tkProc.current.offset <= tkClock' - tkRtc' + TkSec
               /\ tkTimer.due - TkRefresh <= wallMs(tkProc.current)
    BY <2>2, <2>4, <2>6, Zenon DEF TkFollows
  <2>7. TkOnDisk => TkOnDisk'
    BY <2>1, <2>4, Zenon DEF TkOnDisk
  <2>8. TkNotDue => TkNotDue'
    <3>1. tkClock >= TkMaxWall => tkClock' >= TkMaxWall
      <4>1. n \in Nat /\ TkMaxWall \in Nat
        BY Constants
      <4>2. tkClock >= TkMaxWall => tkClock + n >= TkMaxWall
        BY <1>1, <4>1
      <4> QED BY <2>3, <4>2, Zenon
    <3> QED BY <2>1, <2>4, <3>1, Zenon DEF TkNotDue
  <2>9. tkProc.pc = "wait" /\ tkProc.last = "ok" => (TkOnDisk \/ TkNotDue)'
    BY <2>2, <2>7, <2>8, Zenon DEF TkFollows
  <2> QED BY <2>1, <2>4, <2>5, <2>6, <2>9, Zenon DEF TkFollows
<1> QED BY <1>5, <1>6, <1>7, <1>8, <1>9, <1>10, <1>11, <1>12, <1>13, <1>14, <1>15, <1>16, <1>17, Zenon DEF TkNext


\* The counter was read up to a second ago.
TkJustRead(rtcSec, rtc) == rtcSec * TkSec <= rtc /\ rtc <= rtcSec * TkSec + TkSec

\* Both within a second below rtc.
LEMMA Close ==
  ASSUME NEW s \in Nat, NEW r \in Nat, NEW a \in Int, NEW b \in Int,
         r - s < a, a <= r, b <= r, r <= b + s
  PROVE  -s <= a - b /\ a - b <= s
OBVIOUS

\* The target that restoreSet computes, from a record that the world has not overtaken.
LEMMA Target ==
  ASSUME NEW saved \in TkRecords, NEW sets \in Nat, NEW losses \in Nat, NEW rtc \in Nat, NEW truth \in Int,
         NEW rtcSec \in Nat, NEW clock \in Int,
         saved # TkNone, TkSound(saved, sets, losses, rtc, truth), saved.world # <<>>, saved.world[1] = sets,
         rtc <= TkMaxReal + 3, rtc - TkSec < clock, clock <= rtc,
         TkJustRead(rtcSec, rtc),
         saved.world[2] = losses => saved.rtcSec <= rtcSec
  PROVE  LET target == restoreTargetMs(saved, rtcSec, clock)
             set == IF target = -1 THEN clock ELSE target
             kept == truth - saved.world[3]
         IN  /\ set <= kept + TkSlack
             /\ saved.world[2] = losses /\ kept + TkSlack < TkMaxWall => set >= kept - TkSlack
<1> DEFINE target == restoreTargetMs(saved, rtcSec, clock)
           set == IF target = -1 THEN clock ELSE target
           kept == truth - saved.world[3]
<1>1. PICK o, w \in Int : o = saved.offset /\ w = wallMs(saved)
  BY Fields
<1>2. PICK c, l \in Int : c = saved.world[3] /\ l = saved.world[2]
  BY Fields
<1>3. PICK k \in Int : k = truth - c
  OBVIOUS
<1>4. PICK p \in Int : p = rtcSec * TkSec
  BY Scaled
<1>5. p >= 0 /\ p <= rtc /\ rtc <= p + TkSec
  BY <1>4, Scaled DEF TkJustRead
<1>6. TkSec \in Nat /\ TkSec > 0 /\ TkMargin \in Nat /\ TkMargin > TkSec /\ TkMinWall \in Nat /\ TkMaxWall \in Nat
      /\ TkMaxReal \in Nat /\ TkMaxReal + 3 < TkMinWall
  BY Constants
<1>7. valid(saved) /\ o >= TkMargin /\ TkTells(saved, sets, losses, rtc, truth)
  BY <1>1, Zenon DEF TkSound
<1>8. w >= TkMinWall /\ saved.rtcSec \in Int
  BY <1>1, <1>7, Fields DEF valid
<1>9. w + c <= truth /\ o + c + rtc < truth + 2 * TkSec /\ (l = losses => truth <= o + c + rtc)
  BY <1>1, <1>2, <1>7, Zenon DEF TkTells
<1>10. w <= k /\ o + rtc < k + 2 * TkSec /\ (l = losses => k <= o + rtc)
  BY <1>3, <1>6, <1>9
<1>11. ~(Abs(clock - p) >= TkMargin) /\ ~(clock >= w) /\ clock < w
  <2>1. -TkSec <= clock - p /\ clock - p <= TkSec
    BY <1>5, <1>6, Close
  <2>2. ~(Abs(clock - p) >= TkMargin)
    BY <1>6, <2>1 DEF Abs
  <2>3. clock < w
    <3>1. rtc < TkMinWall
      BY <1>6
    <3> QED BY <1>6, <1>8, <3>1
  <2> QED BY <2>2, <2>3
<1>12. target = IF Abs(clock - p) >= TkMargin THEN -1
              ELSE IF clock >= w THEN -1
              ELSE IF rtcSec < saved.rtcSec THEN w
              ELSE IF p + o >= TkMaxWall THEN -1
              ELSE p + o
  BY <1>1, <1>4, Zenon DEF restoreTargetMs
<1> HIDE DEF target
<1>13. SUFFICES /\ set <= k + 2 * TkSec
                /\ l = losses /\ k + 2 * TkSec < TkMaxWall => set >= k - 2 * TkSec
  BY <1>2, <1>3, Zenon DEF TkSlack, target
<1>14. CASE rtcSec < saved.rtcSec
  <2>1. target = w
    BY <1>11, <1>12, <1>14
  <2>2. l # losses
    BY <1>2, <1>8, <1>14
  <2>3. w # -1 /\ w <= k + 2 * TkSec
    BY <1>6, <1>8, <1>10
  <2> QED BY <2>1, <2>2, <2>3, Zenon
<1>15. CASE ~(rtcSec < saved.rtcSec) /\ p + o >= TkMaxWall
  <2>1. target = -1
    BY <1>11, <1>12, <1>15
  <2>2. clock <= k + 2 * TkSec
    BY <1>6, <1>10, <1>11
  <2>3. l = losses /\ k + 2 * TkSec < TkMaxWall => clock >= k - 2 * TkSec
    <3>1. o + rtc < k + 2 * TkSec /\ p <= rtc /\ p + o >= TkMaxWall /\ TkMaxWall \in Nat /\ TkSec \in Nat
      BY <1>5, <1>6, <1>10, <1>15
    <3> QED BY <3>1
  <2> QED BY <2>1, <2>2, <2>3, Zenon
<1>16. CASE ~(rtcSec < saved.rtcSec) /\ ~(p + o >= TkMaxWall)
  <2>1. target = p + o
    BY <1>11, <1>12, <1>16
  <2>2. p + o # -1
    BY <1>5, <1>6, <1>7
  <2>3. p + o <= k + 2 * TkSec /\ (l = losses => p + o >= k - 2 * TkSec)
    BY <1>5, <1>6, <1>10
  <2> QED BY <2>1, <2>2, <2>3, Zenon
<1> QED BY <1>14, <1>15, <1>16

\* The restored clock is right, and stays so until the daemon starts.
LEMMA RestoredKept ==
  ASSUME TkTypeOK, TkCounter, TkHeldSound, TkBooting, TkRestored, [TkNext]_tkVars
  PROVE  TkRestored'
<1>1. /\ tkReal \in Nat /\ tkRtc \in Nat /\ tkClock \in Int /\ Truth \in Int /\ tkProc.saved \in TkRecords
      /\ tkTruth.sets \in Nat /\ tkTruth.losses \in Nat /\ tkProc.rtcSec \in Nat /\ tkTruth.ahead \in Int
  BY DEF TkTypeOK, Truth
<1>2. CASE restoreSet
  <2>1. /\ tkProc.pc = "restore set" /\ tkProc'.pc = "restored" /\ tkProc'.saved = tkProc.saved
        /\ tkTruth' = tkTruth /\ Truth' = Truth
    BY <1>2, RestoreSteps, Zenon DEF TkStill, Truth
  <2>2. SUFFICES ASSUME tkProc.saved.world # <<>>, tkProc.saved.world[1] = tkTruth.sets
                 PROVE  LET kept == Truth - tkProc.saved.world[3] IN
                        /\ tkClock' <= kept + TkSlack
                        /\ tkProc.saved.world[2] = tkTruth.losses /\ kept + TkSlack < TkMaxWall
                             => tkClock' >= kept - TkSlack
    BY <2>1, Zenon DEF TkRestored
  <2>3. /\ tkRtc - TkSec < tkClock /\ tkClock <= tkRtc /\ TkJustRead(tkProc.rtcSec, tkRtc) /\ tkProc.saved # TkNone
        /\ tkProc.saved.world[2] = tkTruth.losses => tkProc.saved.rtcSec <= tkProc.rtcSec
    BY <2>1, <2>2, Zenon DEF TkBooting, TkJustRead
  <2>4. TkSound(tkProc.saved, tkTruth.sets, tkTruth.losses, tkRtc, Truth)
    BY Zenon DEF TkHeldSound, TkHeld
  <2>5. tkRtc <= TkMaxReal + 3
    BY <1>1, Constants DEF TkCounter
  <2>6. LET target == restoreTargetMs(tkProc.saved, tkProc.rtcSec, tkClock)
        IN  tkClock' = IF target = -1 THEN tkClock ELSE target
    BY <1>2, RestoreSteps, Zenon
  <2> QED BY <1>1, <2>2, <2>3, <2>4, <2>5, <2>6, Target, Zenon
<1>3. CASE TkTick
  <2>1. tkProc' = tkProc /\ tkTruth' = tkTruth /\ tkReal' = tkReal + 1 /\ tkClock' = IF TkUp THEN tkClock + 1 ELSE tkClock
    BY <1>3, Zenon DEF TkTick, TkPass
  <2>2. Truth' = Truth + 1
    BY <1>1, <2>1 DEF Truth
  <2>3. SUFFICES ASSUME tkProc.pc = "restored", tkProc.saved.world # <<>>, tkProc.saved.world[1] = tkTruth.sets
                 PROVE  LET kept == (Truth + 1) - tkProc.saved.world[3] IN
                        /\ tkClock' <= kept + TkSlack
                        /\ tkProc.saved.world[2] = tkTruth.losses /\ kept + TkSlack < TkMaxWall
                             => tkClock' >= kept - TkSlack
    BY <2>1, <2>2, Zenon DEF TkRestored
  <2>4. tkClock' = tkClock + 1
    BY <2>1, <2>3 DEF TkUp
  <2>5. PICK c \in Int : c = tkProc.saved.world[3]
    BY <1>1, <2>3, Fields
  <2>6. /\ tkClock <= Truth - c + TkSlack
        /\ tkProc.saved.world[2] = tkTruth.losses /\ Truth - c + TkSlack < TkMaxWall
                             => tkClock >= Truth - c - TkSlack
    BY <2>3, <2>5, Zenon DEF TkRestored
  <2>7. TkSlack \in Int /\ TkMaxWall \in Nat
    BY Constants DEF TkSlack
  <2>8. /\ tkClock + 1 <= (Truth + 1) - c + TkSlack
        /\ tkProc.saved.world[2] = tkTruth.losses /\ (Truth + 1) - c + TkSlack < TkMaxWall
                             => tkClock + 1 >= (Truth + 1) - c - TkSlack
    BY <1>1, <2>6, <2>7
  <2> QED BY <2>4, <2>5, <2>8, Zenon
<1>4. CASE UNCHANGED tkVars
  <2>1. tkProc' = tkProc /\ tkTruth' = tkTruth /\ tkReal' = tkReal /\ tkClock' = tkClock
    BY <1>4, Zenon DEF tkVars
  <2> QED BY <2>1, Zenon DEF TkRestored, Truth
<1>5. CASE restoreRead \/ restoreFails \/ TkCrash \/ TkPowerOff \/ TkBoot
  BY <1>5, Elsewhere, Zenon DEF TkRestored
<1>6. CASE TkStart \/ loadRecord \/ measureRtc \/ saveFails \/ saveRename \/ saveSync \/ TkWake
  <2>1. tkProc'.pc # "restored"
    BY <1>6, DaemonSteps, Zenon DEF TkBecomes
  <2> QED BY <2>1, Zenon DEF TkRestored
<1>7. CASE measureClock
  <2>1. tkProc'.pc # "restored"
    BY <1>7, ClockMeasured, Zenon DEF TkMeasures
  <2> QED BY <2>1, Zenon DEF TkRestored
<1>8. CASE TkSuspend \/ (\E a \in TkAhead : TkSetClock(a)) \/ TkBatteryOut
  <2>1. tkProc'.pc # "restored"
    BY <1>8, Zenon DEF TkSuspend, TkSetClock, TkBatteryOut, TkUp
  <2> QED BY <2>1, Zenon DEF TkRestored
<1> QED BY <1>2, <1>3, <1>4, <1>5, <1>6, <1>7, <1>8, Zenon DEF TkNext

-----------------------------------------------------------------------------
(* The theorem. *)

\* The first boot: the record is absent, the clock is the counter.
LEMMA TkInitial == TkInit => TkInv
<1> SUFFICES ASSUME TkInit PROVE TkInv
  OBVIOUS
<1>1. /\ tkReal = 0 /\ tkRtc = 3 /\ tkFaults = 0 /\ tkTruth = [ahead |-> 0, sets |-> 0, losses |-> 0]
      /\ tkFile = [now |-> TkNone, safe |-> TkNone] /\ tkTimer = [due |-> 0, cancelled |-> FALSE]
      /\ tkProc = [pc |-> "restore", saved |-> TkNone, rtcSec |-> 0, current |-> TkNone, last |-> "ok"]
  BY Zenon DEF TkInit, TkProc
<1>2. tkClock \in Int /\ tkClock <= tkRtc /\ tkRtc - TkSec < tkClock
  <2>1. 3 \div TkSec \in Nat /\ (3 \div TkSec) * TkSec <= 3 /\ 3 < (3 \div TkSec) * TkSec + TkSec
    BY Seconds
  <2>2. PICK p \in Int : p = (3 \div TkSec) * TkSec
    BY <2>1, Scaled
  <2>3. tkClock = p /\ p <= 3 /\ 3 < p + TkSec /\ TkSec \in Nat
    BY <2>1, <2>2, Constants DEF TkInit
  <2> QED BY <1>1, <2>3
<1>3. TkNone \in TkRecords /\ TkNone.world = <<>>
  BY NoRecord
<1>4. TkTypeOK
  BY <1>1, <1>2, <1>3 DEF TkTypeOK, TkPlaces
<1>5. TkCounter
  BY <1>1, Constants DEF TkCounter
<1>6. TkHeldSound
  <2>1. \A r \in TkHeld : r = TkNone
    BY <1>1 DEF TkHeld
  <2> QED BY <1>3, <2>1, Zenon DEF TkHeldSound, TkSound, TkTells
<1>7. tkProc.pc = "restore"
  BY <1>1
<1>8. TkBooting /\ TkCopies /\ TkFollows /\ TkRestored
  BY <1>2, <1>7 DEF TkBooting, TkCopies, TkFollows, TkRestored, TkDaemon
<1> QED BY <1>4, <1>5, <1>6, <1>8, Zenon DEF TkInv

\* Every step of the processes and of the world keeps the invariant.
LEMMA TkStep == TkInv /\ [TkNext]_tkVars => TkInv'
<1> SUFFICES ASSUME TkInv, [TkNext]_tkVars PROVE TkInv'
  OBVIOUS
<1>1. TkTypeOK /\ TkCounter /\ TkHeldSound /\ TkBooting /\ TkCopies /\ TkFollows /\ TkRestored
  BY Zenon DEF TkInv
<1>2. TkTypeOK' /\ TkCounter' /\ TkHeldSound'
  BY <1>1, TypeKept, CounterKept, HeldKept, Zenon
<1>3. TkBooting' /\ TkCopies'
  BY <1>1, BootingKept, CopiesKept, Zenon
<1>4. TkFollows' /\ TkRestored'
  BY <1>1, FollowsKept, RestoredKept, Zenon
<1> QED BY <1>2, <1>3, <1>4, Zenon DEF TkInv

\* A daemon that waits with nothing to wake it up for has the clock's offset on
\* disk, and a boot's clock is right: what the invariant says of the two places.
LEMMA KeptByInv == TkInv => ClockKept
<1> SUFFICES ASSUME TkInv PROVE ClockKept
  OBVIOUS
<1>1. TkTypeOK /\ TkFollows /\ TkRestored
  BY Zenon DEF TkInv
<1>2. ASSUME tkProc.pc = "wait", tkProc.last = "ok", ~tkTimer.cancelled, tkClock < tkTimer.due, LongPlausible
      PROVE  /\ tkFile.now # TkNone
             /\ Abs(tkFile.now.offset - (tkClock - readRtcSec * TkSec)) <= TkSlack
             /\ tkClock - wallMs(tkFile.now) <= 2 * TkRefresh
  <2>1. /\ tkRtc \in Nat /\ tkClock \in Int /\ tkTimer.due \in Int /\ tkFile.now \in TkRecords
        /\ TkSec \in Nat /\ TkRefresh \in Nat /\ TkMargin \in Nat /\ TkMinWall \in Nat /\ TkMaxWall \in Nat
    BY <1>1, Constants DEF TkTypeOK
  <2>2. TkOnDisk \/ TkNotDue
    BY <1>1, <1>2 DEF TkFollows, TkDaemon
  <2>3. ~TkNotDue
    <3>1. tkTimer.due - TkRefresh >= TkMinWall
      BY <1>2, <2>1 DEF LongPlausible
    <3>2. tkClock - tkRtc \in Int /\ Abs(tkClock - tkRtc) \in Int
      BY <2>1 DEF Abs
    <3>3. ~(tkTimer.due - TkRefresh < TkMinWall)
      BY <2>1, <3>1
    <3>4. ~(tkClock >= TkMaxWall) /\ ~(Abs(tkClock - tkRtc) < TkMargin + TkSec)
      BY <1>2, <2>1, <3>2 DEF LongPlausible
    <3> QED BY <3>3, <3>4, Zenon DEF TkNotDue
  <2>4. PICK o, w \in Int : o = tkFile.now.offset /\ w = wallMs(tkFile.now)
    BY <2>1, Fields
  <2>5. PICK p \in Int : p = readRtcSec * TkSec /\ p <= tkRtc /\ tkRtc < p + TkSec
    BY <2>1, Seconds, Scaled DEF readRtcSec
  <2>6. /\ tkFile.now # TkNone
        /\ tkClock - tkRtc - TkSec < o /\ o < tkClock - tkRtc + 2 * TkSec
        /\ tkTimer.due - 2 * TkRefresh < w
    BY <2>2, <2>3, <2>4, Zenon DEF TkOnDisk
  <2>7. Abs(o - (tkClock - p)) <= TkSlack
    <3>1. o - (tkClock - p) <= 2 * TkSec /\ -(o - (tkClock - p)) <= 2 * TkSec
      BY <2>1, <2>5, <2>6
    <3> QED BY <2>1, <3>1 DEF Abs, TkSlack
  <2>8. tkClock - w <= 2 * TkRefresh
    BY <1>2, <2>1, <2>6
  <2> QED BY <2>4, <2>5, <2>6, <2>7, <2>8, Zenon
<1> QED BY <1>1, <1>2, Zenon DEF ClockKept, TkRestored

\* The saved time follows the clock and the restored clock is right (needsSave,
\* saveRecord and the timer of timekeepd; restoreTargetMs at boot), however the
\* counter is read, the margins are chosen, and crashes, power losses, suspends
\* and settings of the clock fall between the steps.
THEOREM ClockKeptHolds == TkSpec => []ClockKept
<1>1. TkInv /\ [TkNext]_tkVars => TkInv'
  BY TkStep
<1> QED BY TkInitial, <1>1, KeptByInv, PTL DEF TkSpec

=============================================================================
