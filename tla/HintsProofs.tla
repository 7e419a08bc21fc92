---------------------------- MODULE HintsProofs ----------------------------
(***************************************************************************)
(* What CameraHints.tla promises, proved for any callers, hints, limits    *)
(* and number of faults.                                                   *)
(***************************************************************************)
EXTENDS CameraHints, FiniteSetTheorems, TLAPS

RequestRecord == [handle : Handles \cup {0}, boost : Boosts, deadline : Nat]

Action == [boost : Boosts, ms : Nat \cup {-1}]

\* The longest request, in units.
Longest == Max({kMaxTimedMs, kMaxHoldMs}) * UnitsPerMs

\* Calls for boost b only.
Only(calls, b) == \A k \in 1..Len(calls) : calls[k].boost = b

\* Calls for boosts no longer than the longest request.
Within(calls) == \A k \in 1..Len(calls) : calls[k].ms * UnitsPerMs <= Longest

\* What every variable ranges over.
Ranges ==
    /\ clock \in Nat \ {0}
    /\ gRequests \in [Slots -> RequestRecord]
    /\ gSentDeadline \in [Boosts -> Nat]
    /\ gDirty \in BOOLEAN /\ clean \in BOOLEAN
    /\ gNextHandle \in Handles
    /\ caller \in [Callers -> Nat]
    /\ worker \in [pc : {"wait", "send"}, actions : Seq(Action)]
    /\ power \in {"none", "current", "dead"}
    /\ failures \in 0..2 /\ faults \in Nat /\ attempts \in 0..3
    /\ hal \in [up : BOOLEAN, ends : [Boosts -> Nat]]

\* The bounds of TypeOK and of HalInLine on top of the ranges.
Limits ==
    /\ clock <= MaxClock /\ faults <= MaxFaults
    /\ \A i \in Slots : gRequests[i].deadline <= clock + Longest
    /\ \A b \in Boosts : gSentDeadline[b] <= clock + Longest
    /\ \A b \in Boosts : hal.ends[b] <= clock + Longest
    /\ \A c \in Callers : caller[c] <= clock
    /\ (worker.pc = "send") = (worker.actions # <<>>)
    /\ Len(worker.actions) <= 4
    /\ Within(worker.actions)
    /\ power = "current" => hal.up

Distinct ==
    \A i, j \in Slots : gRequests[i].handle = gRequests[j].handle /\ i # j => gRequests[i].handle = 0

\* One retry for a hint.
Retries ==
    /\ attempts <= 2
    /\ gDirty \/ worker.pc = "send" => attempts <= 1
    /\ gDirty /\ worker.pc = "send" => attempts = 0
    /\ gDirty \/ worker.pc = "send" => attempts = 0 \/ failures # 0
    /\ clean => failures = 0 /\ power # "dead"

\* What was sent is what the table asks for.
Sent ==
    ~gDirty /\ (failures = 0 \/ worker.pc = "send") =>
        \A b \in Boosts : Want(b, clock) = IF gSentDeadline[b] > clock THEN gSentDeadline[b] ELSE 0

\* The end of boost b after the k-th of the calls, made at `now`, if it was `end` before.
After1(calls, now, b, end, k) ==
    IF k > Len(calls) \/ calls[k].boost # b THEN end
    ELSE IF calls[k].ms = -1 THEN 0
    ELSE Max({end, now + calls[k].ms * UnitsPerMs})

\* The end of boost b after all of them; there are four at most.
After(calls, now, b, end) ==
    After1(calls, now, b, After1(calls, now, b, After1(calls, now, b, After1(calls, now, b, end, 1), 2), 3), 4)

\* The end of boost b after the calls still to make.
Coming(b) == After(worker.actions, clock, b, hal.ends[b])

\* What the calls will make of the power HAL, and have made of it.
Covered ==
    \A b \in Boosts :
        /\ worker.pc = "wait" /\ power = "none" => gSentDeadline[b] = 0
        /\ worker.pc = "send" /\ power = "none" => After(worker.actions, clock, b, 0) >= gSentDeadline[b]
        /\ power # "dead" => gSentDeadline[b] <= clock \/ Coming(b) >= gSentDeadline[b]
        /\ worker.pc = "send" => gSentDeadline[b] = 0 \/ gSentDeadline[b] > clock

\* With no failure, they make it end when it should.
InLine ==
    clean => \A b \in Boosts :
        IF gSentDeadline[b] > clock
          THEN /\ Coming(b) >= gSentDeadline[b]
               /\ Coming(b) < gSentDeadline[b] + UnitsPerMs
          ELSE Coming(b) < clock + UnitsPerMs

HintsInv == Ranges /\ Limits /\ Distinct /\ Retries /\ Sent /\ Covered /\ InLine


-----------------------------------------------------------------------------
(* The operators. *)

\* A nonempty set of naturals has a least member.
LEMMA LeastNatural ==
    ASSUME NEW S \in SUBSET Nat, S # {}
    PROVE  \E x \in S : \A y \in S : x <= y
<1>1. PICK x \in S : \A y \in S : ~(<<y, x>> \in OpToRel(<, Nat))
  BY NatLessThanWellFounded, WFMin, Zenon
<1>2. \A y \in S : ~(y < x)
  BY <1>1, Zenon DEF OpToRel
<1> QED BY <1>2

\* Min of a nonempty set of naturals.
LEMMA MinNatural ==
    ASSUME NEW S \in SUBSET Nat, S # {}
    PROVE  Min(S) \in S /\ \A y \in S : Min(S) <= y
<1>1. \E x \in S : \A y \in S : x =< y
  BY LeastNatural
<1> QED BY <1>1, Zenon DEF Min

\* Max of a nonempty bounded set of naturals.
LEMMA MaxNatural ==
    ASSUME NEW S \in SUBSET Nat, S # {}, NEW n \in Nat, \A y \in S : y <= n
    PROVE  Max(S) \in S /\ \A y \in S : Max(S) >= y
<1> DEFINE T == {n - y : y \in S}
<1>1. T \in SUBSET Nat /\ T # {}
  <2>1. \A y \in S : n - y \in Nat
    OBVIOUS
  <2>2. PICK y \in S : TRUE
    BY Zenon
  <2>3. n - y \in T
    BY <2>2
  <2> QED BY <2>1, <2>3
<1>2. PICK t \in T : \A u \in T : t <= u
  BY <1>1, LeastNatural, Zenon
<1>3. PICK x \in S : t = n - x
  BY <1>2
<1>4. \A y \in S : n - y \in T
  OBVIOUS
<1>5. \A y \in S : x >= y
  BY <1>2, <1>3, <1>4
<1>6. \E z \in S : \A y \in S : z >= y
  BY <1>5
<1> QED BY <1>6, Zenon DEF Max

\* Max and Min of two naturals.
LEMMA TwoNaturals ==
    ASSUME NEW a \in Nat, NEW b \in Nat
    PROVE  /\ Max({a, b}) \in {a, b} /\ Max({a, b}) >= a /\ Max({a, b}) >= b
           /\ Min({a, b}) \in {a, b} /\ Min({a, b}) <= a /\ Min({a, b}) <= b
<1>1. {a, b} \in SUBSET Nat /\ {a, b} # {} /\ a + b \in Nat /\ \A y \in {a, b} : y <= a + b
  OBVIOUS
<1>2. Max({a, b}) \in {a, b} /\ \A y \in {a, b} : Max({a, b}) >= y
  BY <1>1, MaxNatural
<1>3. Min({a, b}) \in {a, b} /\ \A y \in {a, b} : Min({a, b}) <= y
  BY <1>1, MinNatural
<1> QED BY <1>2, <1>3

\* Products of naturals are monotone.
LEMMA TimesMonotone ==
    ASSUME NEW a \in Nat, NEW b \in Nat, NEW u \in Nat, a <= b
    PROVE  a * u <= b * u /\ a * u \in Nat /\ b * u \in Nat
<1>1. b * u = a * u + (b - a) * u
  OBVIOUS
<1>2. (b - a) * u \in Nat /\ a * u \in Nat /\ b * u \in Nat
  OBVIOUS
<1> QED BY <1>1, <1>2

\* A request asks for at most Longest.
LEMMA LongestBounds ==
    /\ Longest \in Nat /\ UnitsPerMs <= Longest
    /\ \A ms \in Nat : ms <= kMaxTimedMs \/ ms <= kMaxHoldMs => ms * UnitsPerMs <= Longest
<1> DEFINE m == Max({kMaxTimedMs, kMaxHoldMs})
<1>1. m \in Nat /\ m >= 1 /\ m >= kMaxTimedMs /\ m >= kMaxHoldMs /\ UnitsPerMs \in Nat
  BY TwoNaturals, HintsAssumption
<1>2. 1 * UnitsPerMs <= m * UnitsPerMs /\ 1 * UnitsPerMs = UnitsPerMs /\ m * UnitsPerMs \in Nat
  BY <1>1, TimesMonotone
<1>3. ASSUME NEW ms \in Nat, ms <= kMaxTimedMs \/ ms <= kMaxHoldMs
      PROVE  ms * UnitsPerMs <= m * UnitsPerMs
  <2>1. ms <= m
    BY <1>1, <1>3, HintsAssumption
  <2> QED BY <1>1, <2>1, TimesMonotone
<1> QED BY <1>2, <1>3 DEF Longest

\* The milliseconds sent reach the deadline, and stay within a millisecond of it.
LEMMA MsUntil ==
    ASSUME NEW now \in Nat, NEW deadline \in Nat, deadline > now
    PROVE  LET ms == ms_until(deadline, now)
           IN  /\ ms \in Nat /\ ms >= 1
               /\ now + ms * UnitsPerMs >= deadline /\ now + ms * UnitsPerMs < deadline + UnitsPerMs
               /\ deadline <= now + Longest => ms * UnitsPerMs <= Longest
<1> DEFINE U == UnitsPerMs
           d == deadline - now
           q == (d + U - 1) \div U
           m == Max({kMaxTimedMs, kMaxHoldMs})
<1>1. U \in Nat /\ U >= 1 /\ d \in Nat /\ d >= 1 /\ d + U - 1 \in Nat
  BY HintsAssumption
<1>2. q \in Nat /\ q * U <= d + U - 1 /\ d + U - 1 < (q + 1) * U
  <2> DEFINE n == d + U - 1
  <2>1. n \in Nat /\ U \in Nat /\ U > 0
    BY <1>1
  <2> HIDE DEF n, U
  <2>2. n \div U \in Nat /\ (n \div U) * U <= n /\ n < ((n \div U) + 1) * U
    BY <2>1
  <2> QED BY <2>2 DEF n
<1>3. (q + 1) * U = q * U + U
  BY <1>1, <1>2
<1>4. q * U >= d /\ q >= 1
  <2>1. q * U >= d
    BY <1>1, <1>2, <1>3
  <2>2. q # 0
    BY <1>1, <2>1
  <2> QED BY <1>2, <2>1, <2>2
<1>5. ms_until(deadline, now) = q
  <2>1. deadline - now + UnitsPerMs - 1 = d + U - 1
    OBVIOUS
  <2>2. ms_until(deadline, now) = Max({1, q})
    BY <2>1 DEF ms_until
  <2> HIDE DEF q
  <2> QED BY <1>2, <1>4, <2>2, TwoNaturals
<1>6. ASSUME deadline <= now + Longest
      PROVE  q * U <= Longest
  <2>1. m \in Nat /\ Longest = m * U
    BY TwoNaturals, HintsAssumption DEF Longest
  <2>2. CASE q <= m
    BY <1>1, <1>2, <2>1, <2>2, TimesMonotone
  <2>3. CASE q >= m + 1
    <3>1. (m + 1) * U <= q * U
      BY <1>1, <1>2, <2>1, <2>3, TimesMonotone
    <3>2. (m + 1) * U = m * U + U /\ m * U \in Nat /\ q * U \in Nat
      BY <1>1, <1>2, <2>1
    <3> QED BY <1>1, <1>2, <1>6, <2>1, <3>1, <3>2
  <2> QED BY <1>2, <2>1, <2>2, <2>3
<1>7. q * U \in Nat
  BY <1>1, <1>2
<1> HIDE DEF q
<1> QED BY <1>1, <1>2, <1>4, <1>5, <1>6, <1>7


-----------------------------------------------------------------------------
(* Requests and handles. *)

\* A free slot.
LEMMA FreeRequest == Free \in RequestRecord /\ Free.handle = 0 /\ Free.deadline = 0
BY DEF Free, RequestRecord, Boosts

\* The slots of a table after what has expired was dropped.
LEMMA Dropped ==
    ASSUME NEW requests \in [Slots -> RequestRecord], NEW now
    PROVE  LET live == DropExpired(requests, now)
           IN  /\ live \in [Slots -> RequestRecord]
               /\ \A i \in Slots : live[i] = IF requests[i].deadline <= now THEN Free ELSE requests[i]
BY FreeRequest DEF DropExpired

\* next_handle_locked finds a handle no request has: there are more handles than slots.
LEMMA NextHandle ==
    ASSUME NEW requests \in [Slots -> RequestRecord], gNextHandle \in Handles
    PROVE  /\ next_handle_locked(requests) \in Handles
           /\ \A i \in Slots : requests[i].handle # next_handle_locked(requests)
           /\ Successor(next_handle_locked(requests)) \in Handles
<1> DEFINE used == UsedHandles(requests)
           f == [i \in Slots |-> requests[i].handle]
           unused == Handles \ used
           distance(h) == (h - gNextHandle) % (MaxHandle - kFirstHandle + 1)
<1>1. f \in Surjection(Slots, used)
  <2>1. f \in [Slots -> used]
    BY DEF UsedHandles
  <2>2. \A t \in used : \E i \in Slots : f[i] = t
    BY DEF UsedHandles
  <2> QED BY <2>1, <2>2, Zenon DEF Surjection
<1>2. /\ IsFiniteSet(Slots) /\ Cardinality(Slots) = kMaxRequests
  BY FS_Interval, HintsAssumption DEF Slots
<1>3. IsFiniteSet(used) /\ Cardinality(used) <= kMaxRequests
  <2> HIDE DEF f, used
  <2> QED BY <1>1, <1>2, FS_Surjection
<1>4. IsFiniteSet(Handles) /\ Cardinality(Handles) = MaxHandle - kFirstHandle + 1
  <2>1. kFirstHandle \in Int /\ MaxHandle \in Int /\ ~(kFirstHandle > MaxHandle)
    BY HintsAssumption
  <2> QED BY <2>1, FS_Interval DEF Handles
<1>5. unused # {}
  <2>1. SUFFICES ASSUME Handles \subseteq used PROVE FALSE
    BY Zenon
  <2>2. Cardinality(Handles) <= Cardinality(used)
    BY <1>3, <2>1, FS_Subset
  <2>3. Cardinality(used) \in Nat
    BY <1>3, FS_CardinalityType
  <2> HIDE DEF used
  <2> QED BY <1>3, <1>4, <2>2, <2>3, HintsAssumption
<1>6. ASSUME NEW h \in Handles PROVE distance(h) \in Nat
  BY HintsAssumption DEF Handles
<1>7. \E h \in unused : \A k \in unused : distance(h) <= distance(k)
  <2> DEFINE D == {distance(h) : h \in unused}
  <2>1. D \in SUBSET Nat
    BY <1>6
  <2>2. D # {}
    BY <1>5
  <2>3. PICK d \in D : \A e \in D : d <= e
    BY <2>1, <2>2, LeastNatural, Zenon
  <2>4. PICK h \in unused : d = distance(h)
    BY <2>3
  <2>5. \A k \in unused : distance(k) \in D
    OBVIOUS
  <2> QED BY <2>3, <2>4, <2>5
<1>8. next_handle_locked(requests) \in unused
  BY <1>7 DEF next_handle_locked
<1>9. next_handle_locked(requests) \in Handles /\ next_handle_locked(requests) \notin used
  BY <1>8
<1>10. \A i \in Slots : requests[i].handle \in used
  BY DEF UsedHandles
<1>11. Successor(next_handle_locked(requests)) \in Handles
  BY <1>9, HintsAssumption DEF Successor, Handles
<1> QED BY <1>9, <1>10, <1>11


\* Slot i gets request [h, b, deadline], the other slots what is left of theirs.
Puts(live, i, h, b, deadline) ==
    /\ gRequests' = [live EXCEPT ![i] = [handle |-> h, boost |-> b, deadline |-> deadline]]
    /\ \A j \in Slots : j # i => live[j].handle # h

\* camera_hint_acquire: one slot is taken or renewed, or the table is full.
LEMMA Acquired ==
    ASSUME Ranges, Distinct, NEW c \in Callers, NEW handle, NEW b, NEW duration \in Nat,
           camera_hint_acquire(c, handle, b, duration)
    PROVE  LET live == DropExpired(gRequests, caller[c])
           IN  \/ gRequests' = live /\ UNCHANGED <<gNextHandle, gDirty, attempts>>
               \/ /\ gNextHandle' \in Handles /\ gDirty' = TRUE /\ attempts' = 0
                  /\ \E i \in Slots, h \in Handles, deadline \in 0..(caller[c] + Longest) :
                       Puts(live, i, h, b, deadline)
<1> DEFINE now == caller[c]
           live == DropExpired(gRequests, now)
           ms == IF duration > 0 THEN Min({duration, kMaxTimedMs}) ELSE kMaxHoldMs
           own == {i \in Slots : live[i].handle # 0 /\ live[i].handle = handle}
           free == {i \in Slots : live[i].handle = 0}
           deadline == now + ms * UnitsPerMs
           put(i, h) == gRequests' = [live EXCEPT ![i] = [handle |-> h, boost |-> b, deadline |-> deadline]]
<1>1. now \in Nat /\ gRequests \in [Slots -> RequestRecord] /\ gNextHandle \in Handles
  BY DEF Ranges
<1>2. /\ live \in [Slots -> RequestRecord]
      /\ \A i \in Slots : live[i] = IF gRequests[i].deadline <= now THEN Free ELSE gRequests[i]
  BY <1>1, Dropped
<1>3. deadline \in 0..(now + Longest)
  <2>1. ms \in Nat /\ (ms <= kMaxTimedMs \/ ms <= kMaxHoldMs)
    BY TwoNaturals, HintsAssumption
  <2>2. ms * UnitsPerMs \in Nat
    BY <2>1, HintsAssumption
  <2>3. ms * UnitsPerMs <= Longest /\ Longest \in Nat
    BY <2>1, LongestBounds
  <2> HIDE DEF ms
  <2> QED BY <1>1, <2>2, <2>3
<1>4. \/ own # {} /\ put(Max(own), handle) /\ wake_worker_locked /\ UNCHANGED gNextHandle
      \/ /\ own = {} /\ free # {}
         /\ put(Min(free), next_handle_locked(live)) /\ gNextHandle' = Successor(next_handle_locked(live))
         /\ wake_worker_locked
      \/ own = {} /\ free = {} /\ gRequests' = live /\ UNCHANGED <<gNextHandle, gDirty, attempts>>
  BY DEF camera_hint_acquire
<1>5. \A i, j \in Slots : live[i].handle = live[j].handle /\ i # j => live[i].handle = 0
  BY <1>1, <1>2, FreeRequest DEF Distinct
<1>6. CASE own # {} /\ put(Max(own), handle) /\ wake_worker_locked /\ UNCHANGED gNextHandle
  <2>1. PICK i \in own : TRUE
    BY <1>6
  <2>2. own = {i}
    BY <1>5, <2>1
  <2>3. i \in Nat
    BY <2>1 DEF Slots
  <2>4. Max(own) = i
    <3>1. Max({i}) = i
      BY <2>3 DEF Max
    <3> QED BY <2>2, <3>1
  <2>5. i \in Slots /\ handle \in Handles /\ \A j \in Slots : j # i => live[j].handle # handle
    BY <1>2, <1>5, <2>1 DEF RequestRecord
  <2>6. put(i, handle)
    BY <1>6, <2>4
  <2>7. Puts(live, i, handle, b, deadline)
    BY <2>5, <2>6 DEF Puts
  <2>8. gNextHandle' \in Handles /\ gDirty' = TRUE /\ attempts' = 0
    BY <1>1, <1>6 DEF wake_worker_locked
  <2> HIDE DEF deadline, live, now
  <2> QED BY <1>3, <2>5, <2>7, <2>8, Zenon DEF live, now
<1>7. CASE /\ own = {} /\ free # {}
           /\ put(Min(free), next_handle_locked(live)) /\ gNextHandle' = Successor(next_handle_locked(live))
           /\ wake_worker_locked
  <2> DEFINE h == next_handle_locked(live)
  <2>1. Min(free) \in free
    <3>1. free \in SUBSET Nat
      BY DEF Slots
    <3> QED BY <1>7, <3>1, MinNatural
  <2>2. h \in Handles /\ (\A j \in Slots : live[j].handle # h) /\ gNextHandle' \in Handles
    BY <1>1, <1>2, <1>7, NextHandle
  <2>3. Puts(live, Min(free), h, b, deadline)
    BY <1>7, <2>2 DEF Puts
  <2>4. gDirty' = TRUE /\ attempts' = 0 /\ Min(free) \in Slots
    BY <1>7, <2>1 DEF wake_worker_locked
  <2> HIDE DEF deadline, live, now, h, free
  <2> QED BY <1>3, <2>2, <2>3, <2>4, Zenon DEF live, now
<1> QED BY <1>4, <1>6, <1>7, Zenon

\* The deadlines of the requests for b that are live at `now`.
Live(requests, b, now) ==
    {requests[i].deadline : i \in {j \in Slots : /\ requests[j].handle # 0 /\ requests[j].boost = b
                                                 /\ requests[j].deadline > now}}

\* As the clock advances, the live deadlines are those it has not reached.
LEMMA LiveLater ==
    ASSUME NEW requests \in [Slots -> RequestRecord], NEW b \in Boosts, NEW now \in Nat
    PROVE  Live(requests, b, now + 1) = {d \in Live(requests, b, now) : d > now + 1}
<1>1. \A i \in Slots : requests[i].deadline \in Nat
    BY DEF RequestRecord
<1>2. \A i \in Slots : requests[i].deadline > now + 1 => requests[i].deadline > now
    BY <1>1
<1> HIDE DEF RequestRecord
<1> QED BY <1>2, Zenon DEF Live

\* Want is the latest of them, or 0.
LEMMA LatestLive ==
    ASSUME NEW S \in SUBSET Nat, NEW n \in Nat, \A d \in S : d <= n
    PROVE  /\ Latest(S) \in Nat /\ Latest(S) \in S \cup {0}
           /\ \A d \in S : d <= Latest(S)
<1>1. /\ S \cup {0} \in SUBSET Nat /\ S \cup {0} # {} /\ \A d \in S \cup {0} : d <= n
  OBVIOUS
<1>2. Max(S \cup {0}) \in S \cup {0} /\ \A d \in S \cup {0} : Max(S \cup {0}) >= d
  BY <1>1, MaxNatural, Zenon
<1> QED BY <1>1, <1>2, Zenon DEF Latest

\* A set and those of its members that are later than `now`.
LEMMA LatestLater ==
    ASSUME NEW S \in SUBSET Nat, NEW n \in Nat, \A d \in S : d <= n, NEW now \in Nat
    PROVE  Latest({d \in S : d > now}) = IF Latest(S) > now THEN Latest(S) ELSE 0
<1> DEFINE T == {d \in S : d > now}
<1>1. /\ Latest(S) \in Nat /\ Latest(S) \in S \cup {0} /\ \A d \in S : d <= Latest(S)
  BY LatestLive
<1>2. T \in SUBSET Nat /\ \A d \in T : d <= n
  BY Zenon
<1>3. /\ Latest(T) \in Nat /\ Latest(T) \in T \cup {0} /\ \A d \in T : d <= Latest(T)
  BY <1>2, LatestLive
<1> QED BY <1>1, <1>3

\* Want asks for the latest deadline of the live requests.
LEMMA WantLive ==
    ASSUME NEW b, NEW now
    PROVE  Want(b, now) = Latest(Live(gRequests, b, now))
BY DEF Want, Live

\* A live deadline is later than now, and that of a slot.
LEMMA LiveBounds ==
    ASSUME NEW requests \in [Slots -> RequestRecord], NEW b, NEW now \in Nat
    PROVE  /\ Live(requests, b, now) \in SUBSET Nat
           /\ \A d \in Live(requests, b, now) : d > now /\ \E i \in Slots : d = requests[i].deadline
BY DEF Live, RequestRecord


-----------------------------------------------------------------------------
(* The calls the worker plans. *)

\* Two plans one after the other.
LEMMA Joined ==
    ASSUME NEW S, NEW p \in Seq(S), NEW q \in Seq(S)
    PROVE  /\ p \o q \in Seq(S) /\ Len(p \o q) = Len(p) + Len(q)
           /\ Len(p) \in Nat /\ Len(q) \in Nat
           /\ \A k \in 1..(Len(p) + Len(q)) : (p \o q)[k] = IF k <= Len(p) THEN p[k] ELSE q[k - Len(p)]
OBVIOUS

\* The lengths of a plan for one boost.
LEMMA ShortPlan ==
    ASSUME NEW S, NEW p \in Seq(S), Len(p) <= 2
    PROVE  Len(p) = 0 \/ Len(p) = 1 \/ Len(p) = 2
<1>1. PICK n \in Nat : n = Len(p)
  OBVIOUS
<1>2. n = 0 \/ n = 1 \/ n = 2
  BY <1>1
<1> QED BY <1>1, <1>2

\* The plan for one boost: at most a cancel and a start, in that order.
LEMMA PlanForBoost ==
    ASSUME Ranges, Limits, NEW b \in Boosts, NEW w \in Nat, w = Want(b, clock),
           w = 0 \/ w > clock, w <= clock + Longest
    PROVE  LET plan == PlanFor(b, clock)
               s == gSentDeadline[b]
               ms == ms_until(w, clock)
           IN  /\ plan \in Seq(Action) /\ Len(plan) <= 2
               /\ \A k \in 1..Len(plan) : plan[k].boost = b /\ plan[k].ms * UnitsPerMs <= Longest
               /\ s > clock /\ w < s /\ w = 0 => Len(plan) = 1 /\ plan[1].ms = -1
               /\ s > clock /\ w < s /\ w # 0 => Len(plan) = 2 /\ plan[1].ms = -1 /\ plan[2].ms = ms
               /\ s > clock /\ w = s => Len(plan) = 0
               /\ s > clock /\ w > s => Len(plan) = 1 /\ plan[1].ms = ms
               /\ s <= clock /\ w = 0 => Len(plan) = 0
               /\ s <= clock /\ w # 0 => Len(plan) = 1 /\ plan[1].ms = ms
<1> DEFINE s == gSentDeadline[b]
           ms == ms_until(w, clock)
           no == [boost |-> b, ms |-> -1]
           go == [boost |-> b, ms |-> ms]
           running == s > clock
           cancel == IF running /\ w < s THEN <<no>> ELSE <<>>
           start == IF w = 0 \/ (running /\ w = s) THEN <<>> ELSE <<go>>
<1>1. PlanFor(b, clock) = cancel \o start
  BY DEF PlanFor
<1>2. s \in Nat /\ clock \in Nat /\ Longest \in Nat /\ UnitsPerMs \in Nat
  BY LongestBounds, HintsAssumption DEF Ranges
<1>3. no \in Action /\ no.boost = b /\ no.ms = -1 /\ no.ms * UnitsPerMs <= Longest
  BY <1>2 DEF Action
<1>4. w # 0 => go \in Action /\ go.boost = b /\ go.ms = ms /\ go.ms * UnitsPerMs <= Longest
  <2>1. w # 0 => ms \in Nat /\ ms * UnitsPerMs <= Longest
    BY <1>2, MsUntil
  <2> HIDE DEF ms
  <2> QED BY <2>1 DEF Action
<1> HIDE DEF s, no, go, ms
<1>5. CASE running /\ w < s /\ w = 0
  <2>1. PlanFor(b, clock) = <<no>>
    BY <1>1, <1>5
  <2> QED BY <1>2, <1>3, <1>5, <2>1 DEF s
<1>6. CASE running /\ w < s /\ w # 0
  <2> DEFINE plan == PlanFor(b, clock)
  <2>1. plan = <<no>> \o <<go>>
    BY <1>1, <1>2, <1>6
  <2>2. <<no>> \in Seq(Action) /\ <<go>> \in Seq(Action)
    BY <1>3, <1>4, <1>6
  <2>3. plan \in Seq(Action) /\ Len(plan) = 2 /\ plan[1] = no /\ plan[2] = go
    BY <2>1, <2>2, Joined
  <2> HIDE DEF plan
  <2>4. plan \in Seq(Action) /\ Len(plan) = 2 /\ plan[1].boost = b /\ plan[2].boost = b
        /\ plan[1].ms = -1 /\ plan[2].ms = ms
        /\ plan[1].ms * UnitsPerMs <= Longest /\ plan[2].ms * UnitsPerMs <= Longest
    BY <1>3, <1>4, <1>6, <2>3
  <2>5. \A k \in 1..Len(plan) : plan[k].boost = b /\ plan[k].ms * UnitsPerMs <= Longest
    BY <2>4
  <2> QED BY <1>2, <1>6, <2>4, <2>5 DEF s, ms, plan
<1>7. CASE (running /\ w = s) \/ (~running /\ w = 0)
  <2>1. PlanFor(b, clock) = <<>>
    BY <1>1, <1>2, <1>7
  <2> QED BY <1>2, <1>7, <2>1 DEF s
<1>8. CASE (running /\ w > s) \/ (~running /\ w # 0)
  <2>1. PlanFor(b, clock) = <<go>>
    <3>1. cancel = <<>> /\ start = <<go>>
      BY <1>2, <1>8
    <3> HIDE DEF cancel, start
    <3> QED BY <1>1, <3>1
  <2> QED BY <1>2, <1>4, <1>8, <2>1 DEF s, ms
<1> QED BY <1>2, <1>5, <1>6, <1>7, <1>8, SMTT(30)


\* The same without what the calls are.
LEMMA PlanShape ==
    ASSUME Ranges, Limits, NEW b \in Boosts, NEW w \in Nat, w = Want(b, clock),
           w = 0 \/ w > clock, w <= clock + Longest
    PROVE  LET plan == PlanFor(b, clock)
           IN  plan \in Seq(Action) /\ Len(plan) <= 2 /\ Only(plan, b) /\ Within(plan)
<1> DEFINE plan == PlanFor(b, clock)
<1>1. /\ plan \in Seq(Action) /\ Len(plan) <= 2
      /\ \A k \in 1..Len(plan) : plan[k].boost = b /\ plan[k].ms * UnitsPerMs <= Longest
  BY PlanForBoost
<1> HIDE DEF plan
<1>2. Only(plan, b) /\ Within(plan)
  BY <1>1 DEF Only, Within
<1> QED BY <1>1, <1>2 DEF plan

\* Where one call leaves a boost.
LEMMA OneCall ==
    ASSUME NEW calls \in Seq(Action), NEW now \in Nat, NEW b, NEW end \in Nat, NEW k \in 1..4
    PROVE  After1(calls, now, b, end, k) \in Nat
<1>1. CASE k <= Len(calls) /\ calls[k].ms # -1
  <2> DEFINE ms == calls[k].ms
  <2>1. calls[k] \in Action
    BY <1>1
  <2>2. ms \in Nat
    BY <1>1, <2>1 DEF Action
  <2> HIDE DEF ms
  <2>3. ms * UnitsPerMs \in Nat
    BY <2>2, HintsAssumption
  <2>4. now + ms * UnitsPerMs \in Nat
    BY <2>3
  <2>5. Max({end, now + ms * UnitsPerMs}) \in Nat
    BY <2>4, TwoNaturals
  <2> QED BY <2>5 DEF After1, ms
<1>2. CASE ~(k <= Len(calls) /\ calls[k].ms # -1)
  BY <1>2 DEF After1
<1> QED BY <1>1, <1>2

\* Where all of the calls leave a boost.
LEMMA AllCalls ==
    ASSUME NEW calls \in Seq(Action), NEW now \in Nat, NEW b, NEW end \in Nat
    PROVE  After(calls, now, b, end) \in Nat
<1> DEFINE e1 == After1(calls, now, b, end, 1)
           e2 == After1(calls, now, b, e1, 2)
           e3 == After1(calls, now, b, e2, 3)
<1>1. e1 \in Nat
  BY OneCall
<1> HIDE DEF e1
<1>2. e2 \in Nat
  BY <1>1, OneCall
<1> HIDE DEF e2
<1>3. e3 \in Nat
  BY <1>2, OneCall
<1> HIDE DEF e3
<1>4. After1(calls, now, b, e3, 4) \in Nat
  BY <1>3, OneCall
<1> QED BY <1>4 DEF After, e1, e2, e3

\* SetBoost: what the rest of the calls leads to is what all of them did.
LEMMA RestOfCalls ==
    ASSUME NEW calls \in Seq(Action), calls # <<>>, Len(calls) <= 4, NEW now, NEW b, NEW end
    PROVE  After(Tail(calls), now, b, After1(calls, now, b, end, 1)) = After(calls, now, b, end)
<1> DEFINE rest == Tail(calls)
<1>1. Len(rest) = Len(calls) - 1 /\ Len(calls) \in Nat /\ \A k \in 1..Len(rest) : rest[k] = calls[k + 1]
  OBVIOUS
<1> HIDE DEF rest
<1>2. ASSUME NEW e, NEW k \in 1..3
      PROVE  After1(rest, now, b, e, k) = After1(calls, now, b, e, k + 1)
  <2>1. CASE k <= Len(rest)
    <3>1. rest[k] = calls[k + 1] /\ ~(k > Len(rest)) /\ ~(k + 1 > Len(calls))
      BY <1>1, <2>1
    <3> QED BY <3>1 DEF After1
  <2>2. CASE ~(k <= Len(rest))
    <3>1. k > Len(rest) /\ k + 1 > Len(calls)
      BY <1>1, <2>2
    <3> QED BY <3>1 DEF After1
  <2> QED BY <2>1, <2>2
<1>3. ASSUME NEW e
      PROVE  After1(rest, now, b, e, 4) = e
  BY <1>1 DEF After1
<1>4. \A e : After1(rest, now, b, e, 1) = After1(calls, now, b, e, 2)
  BY <1>2
<1>5. \A e : After1(rest, now, b, e, 2) = After1(calls, now, b, e, 3)
  BY <1>2
<1>6. \A e : After1(rest, now, b, e, 3) = After1(calls, now, b, e, 4)
  BY <1>2
<1> QED BY <1>3, <1>4, <1>5, <1>6, Zenon DEF After, rest

\* A boost is moved by its own calls only.
LEMMA OwnCalls ==
    ASSUME NEW p \in Seq(Action), NEW q \in Seq(Action), Len(p) <= 2, Len(q) <= 2,
           NEW a, NEW c, a # c, Only(p, a), Only(q, c), NEW now, NEW end
    PROVE  After(p \o q, now, a, end) = After(p, now, a, end) /\ After(p \o q, now, c, end) = After(q, now, c, end)
<1> DEFINE s == p \o q
<1> USE DEF Only
<1>1. Len(s) = Len(p) + Len(q) /\ \A k \in 1..Len(s) : s[k] = IF k <= Len(p) THEN p[k] ELSE q[k - Len(p)]
  BY Joined
<1> HIDE DEF s
<1>2. ASSUME NEW e, NEW k \in 1..4
      PROVE  After1(s, now, a, e, k) = After1(p, now, a, e, k)
  <2>1. CASE k <= Len(p)
    <3>1. s[k] = p[k] /\ ~(k > Len(s)) /\ ~(k > Len(p))
      BY <1>1, <2>1
    <3> QED BY <3>1 DEF After1
  <2>2. CASE ~(k <= Len(p))
    <3>1. k > Len(p) /\ (k > Len(s) \/ s[k].boost = c)
      BY <1>1, <2>2
    <3> QED BY <3>1 DEF After1
  <2> QED BY <2>1, <2>2
<1>3. ASSUME NEW e, NEW k \in 1..4
      PROVE  After1(s, now, c, e, k) = IF k <= Len(p) THEN e ELSE After1(q, now, c, e, k - Len(p))
  <2>1. CASE k <= Len(p)
    <3>1. s[k].boost = a
      BY <1>1, <2>1
    <3> QED BY <2>1, <3>1 DEF After1
  <2>2. CASE ~(k <= Len(p)) /\ k <= Len(s)
    <3>1. s[k] = q[k - Len(p)] /\ ~(k > Len(s)) /\ ~(k - Len(p) > Len(q))
      BY <1>1, <2>2
    <3> QED BY <2>2, <3>1 DEF After1
  <2>3. CASE ~(k <= Len(p)) /\ ~(k <= Len(s))
    <3>1. k > Len(s) /\ k - Len(p) > Len(q)
      BY <1>1, <2>3
    <3> QED BY <2>3, <3>1 DEF After1
  <2> QED BY <2>1, <2>2, <2>3
<1>4. \A e : After1(q, now, c, e, 3) = e /\ After1(q, now, c, e, 4) = e
  BY DEF After1
<1>7. After(q, now, c, end) = After1(q, now, c, After1(q, now, c, end, 1), 2)
  BY <1>4, Zenon DEF After
<1>5. After(s, now, a, end) = After(p, now, a, end)
  <2>1. \A e : After1(s, now, a, e, 1) = After1(p, now, a, e, 1)
    BY <1>2
  <2>2. \A e : After1(s, now, a, e, 2) = After1(p, now, a, e, 2)
    BY <1>2
  <2>3. \A e : After1(s, now, a, e, 3) = After1(p, now, a, e, 3)
    BY <1>2
  <2>4. \A e : After1(s, now, a, e, 4) = After1(p, now, a, e, 4)
    BY <1>2
  <2> QED BY <2>1, <2>2, <2>3, <2>4, ZenonT(30) DEF After
<1>6. After(s, now, c, end) = After(q, now, c, end)
  <2>1. CASE Len(p) = 0
    <3>1. \A e : After1(s, now, c, e, 1) = After1(q, now, c, e, 1)
      BY <1>3, <2>1
    <3>2. \A e : After1(s, now, c, e, 2) = After1(q, now, c, e, 2)
      BY <1>3, <2>1
    <3>3. \A e : After1(s, now, c, e, 3) = After1(q, now, c, e, 3)
      BY <1>3, <2>1
    <3>4. \A e : After1(s, now, c, e, 4) = After1(q, now, c, e, 4)
      BY <1>3, <2>1
    <3> QED BY <3>1, <3>2, <3>3, <3>4, ZenonT(30) DEF After
  <2>2. CASE Len(p) = 1
    <3>1. \A e : After1(s, now, c, e, 1) = e
      BY <1>3, <2>2
    <3>2. \A e : After1(s, now, c, e, 2) = After1(q, now, c, e, 1)
      BY <1>3, <2>2
    <3>3. \A e : After1(s, now, c, e, 3) = After1(q, now, c, e, 2)
      BY <1>3, <2>2
    <3>4. \A e : After1(s, now, c, e, 4) = e
      BY <1>3, <1>4, <2>2
    <3> DEFINE x == After1(q, now, c, end, 1)
               y == After1(q, now, c, x, 2)
    <3>5. After1(s, now, c, end, 1) = end
      BY <3>1
    <3>6. After1(s, now, c, end, 2) = x
      BY <3>2
    <3>7. After1(s, now, c, x, 3) = y
      BY <3>3
    <3>8. After1(s, now, c, y, 4) = y
      BY <3>4
    <3>9. After(s, now, c, end) = y
      BY <3>5, <3>6, <3>7, <3>8 DEF After
    <3> QED BY <1>7, <3>9
  <2>3. CASE Len(p) = 2
    <3>1. \A e : After1(s, now, c, e, 1) = e
      BY <1>3, <2>3
    <3>2. \A e : After1(s, now, c, e, 2) = e
      BY <1>3, <2>3
    <3>3. \A e : After1(s, now, c, e, 3) = After1(q, now, c, e, 1)
      BY <1>3, <2>3
    <3>4. \A e : After1(s, now, c, e, 4) = After1(q, now, c, e, 2)
      BY <1>3, <2>3
    <3> DEFINE x == After1(q, now, c, end, 1)
               y == After1(q, now, c, x, 2)
    <3>5. After1(s, now, c, end, 1) = end
      BY <3>1
    <3>6. After1(s, now, c, end, 2) = end
      BY <3>2
    <3>7. After1(s, now, c, end, 3) = x
      BY <3>3
    <3>8. After1(s, now, c, x, 4) = y
      BY <3>4
    <3>9. After(s, now, c, end) = y
      BY <3>5, <3>6, <3>7, <3>8 DEF After
    <3> QED BY <1>7, <3>9
  <2> QED BY <2>1, <2>2, <2>3, ShortPlan
<1> QED BY <1>5, <1>6 DEF s


\* What the plan for one boost does to it, wherever it starts from.
LEMMA AfterPlan ==
    ASSUME Ranges, Limits, NEW b \in Boosts, NEW w \in Nat, w = Want(b, clock),
           w = 0 \/ w > clock, w <= clock + Longest, NEW end \in Nat
    PROVE  LET s == gSentDeadline[b]
               e == After(PlanFor(b, clock), clock, b, end)
           IN  /\ (s > clock /\ w = s) \/ (s <= clock /\ w = 0) => e = end
               /\ s > clock /\ w = 0 => e = 0
               /\ w # 0 /\ ~(s > clock /\ w = s) => e >= w
               /\ w # 0 /\ ~(s > clock /\ w = s) => e < w + UnitsPerMs \/ (e = end /\ ~(s > clock /\ w < s))
<1> DEFINE s == gSentDeadline[b]
           ms == ms_until(w, clock)
           plan == PlanFor(b, clock)
           at == clock + ms * UnitsPerMs
           A1(e, k) == After1(plan, clock, b, e, k)
<1>1. clock \in Nat /\ s \in Nat /\ UnitsPerMs \in Nat
  BY HintsAssumption DEF Ranges
<1>2. /\ plan \in Seq(Action) /\ Len(plan) <= 2 /\ \A k \in 1..Len(plan) : plan[k].boost = b
      /\ s > clock /\ w < s /\ w = 0 => Len(plan) = 1 /\ plan[1].ms = -1
      /\ s > clock /\ w < s /\ w # 0 => Len(plan) = 2 /\ plan[1].ms = -1 /\ plan[2].ms = ms
      /\ s > clock /\ w = s => Len(plan) = 0
      /\ s > clock /\ w > s => Len(plan) = 1 /\ plan[1].ms = ms
      /\ s <= clock /\ w = 0 => Len(plan) = 0
      /\ s <= clock /\ w # 0 => Len(plan) = 1 /\ plan[1].ms = ms
  BY PlanForBoost
<1>3. w # 0 => ms \in Nat /\ at \in Nat /\ at >= w /\ at < w + UnitsPerMs
  <2>1. w # 0 => ms \in Nat /\ at >= w /\ at < w + UnitsPerMs
    BY <1>1, MsUntil
  <2>2. w # 0 => ms * UnitsPerMs \in Nat
    <3> HIDE DEF ms
    <3> QED BY <1>1, <2>1
  <2> QED BY <1>1, <2>1, <2>2
<1> HIDE DEF plan, ms
<1>4. ASSUME NEW e, NEW k \in 1..4, k > Len(plan) PROVE A1(e, k) = e
  BY <1>4 DEF After1
<1>5. After(plan, clock, b, end) = A1(A1(A1(A1(end, 1), 2), 3), 4)
  BY DEF After
<1>6. \A e : A1(e, 3) = e /\ A1(e, 4) = e
  BY <1>2, <1>4
<1>7. After(plan, clock, b, end) = A1(A1(end, 1), 2)
  BY <1>5, <1>6, Zenon
<1>8. CASE Len(plan) = 0
  <2>1. \A e : A1(e, 1) = e /\ A1(e, 2) = e
    BY <1>4, <1>8
  <2>2. After(plan, clock, b, end) = end
    BY <1>7, <2>1, Zenon
  <2> QED BY <1>1, <1>2, <1>8, <2>2 DEF plan
<1>9. CASE Len(plan) = 1
  <2>1. \A e : A1(e, 2) = e
    BY <1>4, <1>9
  <2>2. After(plan, clock, b, end) = A1(end, 1)
    BY <1>7, <2>1, Zenon
  <2>3. plan[1].boost = b
    BY <1>2, <1>9
  <2>4. CASE w = 0
    <3>1. A1(end, 1) = 0
      BY <1>1, <1>2, <1>9, <2>3, <2>4 DEF After1
    <3> QED BY <1>1, <1>2, <1>9, <2>2, <2>4, <3>1 DEF plan
  <2>5. CASE w # 0
    <3>1. plan[1].ms = ms /\ ms # -1
      BY <1>1, <1>2, <1>3, <1>9, <2>5
    <3>2. A1(end, 1) = Max({end, at})
      BY <1>9, <2>3, <3>1 DEF After1
    <3>3. Max({end, at}) \in {end, at} /\ Max({end, at}) >= at
      BY <1>3, <2>5, TwoNaturals
    <3> HIDE DEF at
    <3> QED BY <1>1, <1>2, <1>3, <1>9, <2>2, <2>5, <3>2, <3>3 DEF plan
  <2> QED BY <2>4, <2>5
<1>10. CASE Len(plan) = 2
  <2>1. plan[1].boost = b /\ plan[2].boost = b /\ plan[1].ms = -1 /\ plan[2].ms = ms
        /\ s > clock /\ w < s /\ w # 0
    BY <1>1, <1>2, <1>10
  <2>2. ms # -1
    BY <1>3, <2>1
  <2>3. A1(end, 1) = 0
    BY <1>10, <2>1 DEF After1
  <2>4. A1(0, 2) = Max({0, at})
    BY <1>10, <2>1, <2>2 DEF After1
  <2>5. Max({0, at}) = at
    BY <1>3, <2>1, TwoNaturals
  <2> HIDE DEF at
  <2> QED BY <1>1, <1>3, <1>7, <2>1, <2>3, <2>4, <2>5 DEF plan
<1>11. Len(plan) = 0 \/ Len(plan) = 1 \/ Len(plan) = 2
  BY <1>2, ShortPlan
<1> QED BY <1>8, <1>9, <1>10, <1>11, Zenon

\* Want of a table within bounds: 0 or later than now, and never beyond the longest request.
LEMMA WantBounds ==
    ASSUME Ranges, Limits, NEW b \in Boosts
    PROVE  /\ Want(b, clock) \in Nat /\ Want(b, clock) <= clock + Longest
           /\ Want(b, clock) = 0 \/ Want(b, clock) > clock
<1> DEFINE S == Live(gRequests, b, clock)
<1>1. clock \in Nat /\ gRequests \in [Slots -> RequestRecord] /\ clock + Longest \in Nat
  BY LongestBounds DEF Ranges
<1>2. S \in SUBSET Nat /\ \A d \in S : d > clock /\ d <= clock + Longest
  BY <1>1, LiveBounds DEF Limits
<1>3. Latest(S) \in Nat /\ Latest(S) \in S \cup {0}
  BY <1>1, <1>2, LatestLive, Zenon
<1> HIDE DEF S
<1>4. Want(b, clock) = Latest(S)
  BY WantLive DEF S
<1> QED BY <1>1, <1>2, <1>3, <1>4

\* The plan for the one boost and then the plan for the other.
LEMMA TwoPlans ==
    ASSUME NEW p \in Seq(Action), NEW q \in Seq(Action), Len(p) <= 2, Len(q) <= 2,
           Only(p, "CAMERA_LAUNCH"), Only(q, "CAMERA_SHOT"), Within(p), Within(q), NEW now
    PROVE  /\ p \o q \in Seq(Action) /\ Len(p \o q) <= 4 /\ Within(p \o q)
           /\ \A end : /\ After(p \o q, now, "CAMERA_LAUNCH", end) = After(p, now, "CAMERA_LAUNCH", end)
                       /\ After(p \o q, now, "CAMERA_SHOT", end) = After(q, now, "CAMERA_SHOT", end)
<1> DEFINE a == p \o q
<1>1. /\ a \in Seq(Action) /\ Len(a) = Len(p) + Len(q)
      /\ \A k \in 1..(Len(p) + Len(q)) : a[k] = IF k <= Len(p) THEN p[k] ELSE q[k - Len(p)]
  BY Joined
<1>2. ASSUME NEW end
      PROVE  /\ After(a, now, "CAMERA_LAUNCH", end) = After(p, now, "CAMERA_LAUNCH", end)
             /\ After(a, now, "CAMERA_SHOT", end) = After(q, now, "CAMERA_SHOT", end)
  <2>1. "CAMERA_LAUNCH" # "CAMERA_SHOT"
    OBVIOUS
  <2> QED BY <2>1, OwnCalls
<1> HIDE DEF a
<1>3. ASSUME NEW k \in 1..Len(a) PROVE a[k].ms * UnitsPerMs <= Longest
  <2>1. CASE k <= Len(p)
    <3>1. a[k] = p[k] /\ k \in 1..Len(p)
      BY <1>1, <2>1
    <3> QED BY <3>1 DEF Within
  <2>2. CASE ~(k <= Len(p))
    <3>1. a[k] = q[k - Len(p)] /\ k - Len(p) \in 1..Len(q)
      BY <1>1, <2>2
    <3> QED BY <3>1 DEF Within
  <2> QED BY <2>1, <2>2
<1>4. Len(a) <= 4
  BY <1>1
<1>5. Within(a)
  BY <1>3 DEF Within
<1> QED BY <1>1, <1>2, <1>4, <1>5, Zenon DEF a

\* plan_locked: the calls, and what they will make of each boost.
LEMMA Planned ==
    ASSUME Ranges, Limits, plan_locked
    PROVE  /\ worker'.actions \in Seq(Action) /\ Len(worker'.actions) <= 4 /\ Within(worker'.actions)
           /\ worker' \in [pc : {"wait", "send"}, actions : Seq(Action)]
           /\ (worker'.pc = "send") = (worker'.actions # <<>>)
           /\ \A b \in Boosts, end \in Nat :
                After(worker'.actions, clock, b, end) = After(PlanFor(b, clock), clock, b, end)
<1> DEFINE p == PlanFor("CAMERA_LAUNCH", clock)
           q == PlanFor("CAMERA_SHOT", clock)
           a == p \o q
<1>1. ASSUME NEW b \in Boosts
      PROVE  LET plan == PlanFor(b, clock)
             IN  plan \in Seq(Action) /\ Len(plan) <= 2 /\ Only(plan, b) /\ Within(plan)
  BY WantBounds, PlanShape
<1>2. /\ p \in Seq(Action) /\ Len(p) <= 2 /\ Only(p, "CAMERA_LAUNCH") /\ Within(p)
      /\ q \in Seq(Action) /\ Len(q) <= 2 /\ Only(q, "CAMERA_SHOT") /\ Within(q)
  BY <1>1 DEF Boosts
<1>3. \/ a = <<>> /\ worker' = worker
      \/ a # <<>> /\ worker' = [pc |-> "send", actions |-> a]
  BY DEF plan_locked
<1>4. worker.pc = "wait" /\ worker.actions = <<>> /\ worker \in [pc : {"wait", "send"}, actions : Seq(Action)]
  BY DEF plan_locked, Limits, Ranges
<1>5. /\ a \in Seq(Action) /\ Len(a) <= 4 /\ Within(a)
      /\ \A end : /\ After(a, clock, "CAMERA_LAUNCH", end) = After(p, clock, "CAMERA_LAUNCH", end)
                  /\ After(a, clock, "CAMERA_SHOT", end) = After(q, clock, "CAMERA_SHOT", end)
  <2> HIDE DEF p, q
  <2> QED BY <1>2, TwoPlans
<1>6. ASSUME NEW b \in Boosts, NEW end \in Nat
      PROVE  After(a, clock, b, end) = After(PlanFor(b, clock), clock, b, end)
  <2> HIDE DEF a
  <2>1. b = "CAMERA_LAUNCH" \/ b = "CAMERA_SHOT"
    BY Zenon DEF Boosts
  <2> QED BY <1>5, <2>1, Zenon
<1>7. worker'.actions = a /\ (worker'.pc = "send") = (a # <<>>)
      /\ worker' \in [pc : {"wait", "send"}, actions : Seq(Action)]
  <2> HIDE DEF a
  <2>1. CASE a = <<>> /\ worker' = worker
    BY <1>4, <2>1
  <2>2. CASE a # <<>> /\ worker' = [pc |-> "send", actions |-> a]
    BY <1>5, <2>2
  <2> QED BY <1>3, <2>1, <2>2
<1> HIDE DEF a
<1> QED BY <1>5, <1>6, <1>7, Zenon


\* Nothing left to call.
LEMMA NoCalls ==
    ASSUME NEW now, NEW b, NEW end
    PROVE  After(<<>>, now, b, end) = end
<1>1. \A e, k : k \in 1..4 => After1(<<>>, now, b, e, k) = e
  BY DEF After1
<1>2. \A e : /\ After1(<<>>, now, b, e, 1) = e /\ After1(<<>>, now, b, e, 2) = e
             /\ After1(<<>>, now, b, e, 3) = e /\ After1(<<>>, now, b, e, 4) = e
  BY <1>1
<1> QED BY <1>2, Zenon DEF After

\* A call leaves no boost running for longer than the longest request.
LEMMA CallWithin ==
    ASSUME NEW calls \in Seq(Action), calls # <<>>, Within(calls), NEW now \in Nat, NEW b,
           NEW end \in Nat, end <= now + Longest
    PROVE  After1(calls, now, b, end, 1) <= now + Longest
<1>1. Longest \in Nat /\ 1 \in 1..Len(calls) /\ ~(1 > Len(calls)) /\ calls[1] \in Action
  BY LongestBounds
<1>2. calls[1].ms * UnitsPerMs <= Longest
  BY <1>1 DEF Within
<1>3. CASE calls[1].boost = b /\ calls[1].ms # -1
  <2> DEFINE ms == calls[1].ms
             at == now + ms * UnitsPerMs
  <2>1. ms \in Nat
    BY <1>1, <1>3 DEF Action
  <2> HIDE DEF ms
  <2>2. ms * UnitsPerMs \in Nat
    BY <2>1, HintsAssumption
  <2>3. at \in Nat /\ at <= now + Longest
    BY <1>1, <1>2, <2>2 DEF ms
  <2> HIDE DEF at
  <2>4. Max({end, at}) \in {end, at}
    BY <2>3, TwoNaturals
  <2>5. After1(calls, now, b, end, 1) = Max({end, at})
    BY <1>1, <1>3 DEF After1, at, ms
  <2> QED BY <2>3, <2>4, <2>5
<1>4. CASE ~(calls[1].boost = b /\ calls[1].ms # -1)
  BY <1>1, <1>4 DEF After1
<1> QED BY <1>3, <1>4

\* SetBoost: the first of the calls is made, the others are left.
LEMMA Called ==
    ASSUME Ranges, Limits, SetBoost
    PROVE  /\ worker' \in [pc : {"wait", "send"}, actions : Seq(Action)]
           /\ worker'.actions = Tail(worker.actions) /\ worker.actions # <<>>
           /\ (worker'.pc = "send") = (worker'.actions # <<>>)
           /\ Len(worker'.actions) <= 4 /\ Within(worker'.actions)
           /\ hal' \in [up : BOOLEAN, ends : [Boosts -> Nat]] /\ hal'.up = hal.up
           /\ \A b \in Boosts : hal'.ends[b] = After1(worker.actions, clock, b, hal.ends[b], 1)
           /\ failures' = IF worker'.pc = "send" THEN failures ELSE 0
<1> DEFINE calls == worker.actions
           rest == Tail(calls)
           call == Head(calls)
<1>1. /\ worker \in [pc : {"wait", "send"}, actions : Seq(Action)] /\ worker.pc = "send"
      /\ hal \in [up : BOOLEAN, ends : [Boosts -> Nat]] /\ clock \in Nat
      /\ calls \in Seq(Action) /\ calls # <<>> /\ Len(calls) <= 4 /\ Within(calls)
  BY DEF Ranges, Limits, SetBoost
<1>2. /\ hal' = [hal EXCEPT !.ends = Boosted(@, call)]
      /\ IF rest = <<>>
           THEN worker' = [pc |-> "wait", actions |-> <<>>] /\ failures' = 0
           ELSE worker' = [worker EXCEPT !.actions = rest] /\ failures' = failures
  BY DEF SetBoost
<1> HIDE DEF calls
<1>3. /\ rest \in Seq(Action) /\ Len(rest) <= 4 /\ call \in Action /\ call = calls[1] /\ ~(1 > Len(calls))
      /\ Len(rest) = Len(calls) - 1 /\ Len(calls) \in Nat /\ \A k \in 1..Len(rest) : rest[k] = calls[k + 1]
  BY <1>1
<1> HIDE DEF rest, call
<1>4. Within(rest)
  <2>1. ASSUME NEW k \in 1..Len(rest) PROVE rest[k].ms * UnitsPerMs <= Longest
    <3>1. k + 1 \in 1..Len(calls) /\ rest[k] = calls[k + 1]
      BY <1>3
    <3> QED BY <1>1, <3>1 DEF Within
  <2> QED BY <2>1 DEF Within
<1>5. ASSUME NEW b \in Boosts PROVE After1(calls, clock, b, hal.ends[b], 1) \in Nat
  <2>1. hal.ends[b] \in Nat
    BY <1>1
  <2> QED BY <1>1, <2>1, OneCall
<1>6. ASSUME NEW b \in Boosts PROVE Boosted(hal.ends, call)[b] = After1(calls, clock, b, hal.ends[b], 1)
  <2>1. call.boost \in Boosts /\ hal.ends \in [Boosts -> Nat]
    BY <1>1, <1>3 DEF Action
  <2>2. CASE b = call.boost
    BY <1>3, <2>1, <2>2 DEF Boosted, After1
  <2>3. CASE b # call.boost
    BY <1>3, <2>1, <2>3 DEF Boosted, After1
  <2> QED BY <2>2, <2>3
<1>7. Boosted(hal.ends, call) \in [Boosts -> Nat]
  <2>1. Boosted(hal.ends, call) = [b \in Boosts |-> Boosted(hal.ends, call)[b]]
    BY <1>1, Zenon DEF Boosted
  <2> QED BY <1>5, <1>6, <2>1
<1>8. /\ hal' \in [up : BOOLEAN, ends : [Boosts -> Nat]] /\ hal'.up = hal.up
      /\ hal'.ends = Boosted(hal.ends, call)
  BY <1>1, <1>2, <1>7, Zenon
<1>9. /\ worker' \in [pc : {"wait", "send"}, actions : Seq(Action)] /\ worker'.actions = rest
      /\ (worker'.pc = "send") = (rest # <<>>)
      /\ failures' = IF worker'.pc = "send" THEN failures ELSE 0
  <2>1. CASE rest = <<>>
    <3>1. worker' = [pc |-> "wait", actions |-> rest] /\ failures' = 0
      BY <1>2, <2>1
    <3> QED BY <1>3, <2>1, <3>1
  <2>2. CASE rest # <<>>
    <3>1. worker' = [worker EXCEPT !.actions = rest] /\ failures' = failures
      BY <1>2, <2>2
    <3>2. rest \in Seq(Action) /\ worker \in [pc : {"wait", "send"}, actions : Seq(Action)] /\ worker.pc = "send"
      BY <1>1, <1>3
    <3> QED BY <2>2, <3>1, <3>2
  <2> QED BY <2>1, <2>2
<1> QED BY <1>1, <1>3, <1>4, <1>6, <1>8, <1>9, Zenon DEF rest, calls

\* What has expired earlier than now asks for nothing now.
LEMMA DroppedLive ==
    ASSUME NEW requests \in [Slots -> RequestRecord], NEW now \in Nat, NEW old \in Nat, old <= now, NEW b
    PROVE  Live(DropExpired(requests, old), b, now) = Live(requests, b, now)
<1> DEFINE live == DropExpired(requests, old)
<1>1. \A i \in Slots : live[i] = IF requests[i].deadline <= old THEN Free ELSE requests[i]
  BY Dropped
<1>2. \A i \in Slots : requests[i].deadline \in Nat
  BY DEF RequestRecord
<1>3. ASSUME NEW i \in Slots
      PROVE  /\ live[i].deadline > now <=> requests[i].deadline > now
             /\ requests[i].deadline > now => live[i] = requests[i]
  BY <1>1, <1>2, FreeRequest
<1> HIDE DEF live
<1>4. ASSUME NEW d PROVE d \in Live(live, b, now) <=> d \in Live(requests, b, now)
  BY <1>3 DEF Live
<1> QED BY <1>4, Zenon DEF live, Live


-----------------------------------------------------------------------------
(* The steps. *)

Acquires ==
    \E c \in Callers, handle \in UsedHandles(gRequests) \cup {0}, b \in Boosts, duration \in Nat :
        camera_hint_acquire(c, handle, b, duration)

Releases == \E h : camera_hint_release(h)

Enters == \E c \in Callers : Enter(c)

\* The steps of Next, one by one.
LEMMA Steps ==
    ASSUME Next
    PROVE  \/ Enters \/ Acquires \/ Releases
           \/ plan_locked \/ Lookup \/ SetBoost \/ LookupFails \/ SetBoostFails
           \/ HalDies \/ HalStarts \/ Tick
<1>1. \A hint \in Hints : hint[1] \in Boosts /\ hint[2] \in Nat
  BY HintsAssumption DEF Boosts
<1>2. CASE \E c \in Callers, h \in UsedHandles(gRequests) \cup {0}, hint \in Hints :
             camera_hint_acquire(c, h, hint[1], hint[2])
  BY <1>1, <1>2, Zenon DEF Acquires
<1> QED BY <1>2, Zenon DEF Next, Worker, Enters, Releases

\* Requests are added and dropped; nothing of the worker's changes.
Quiet ==
    /\ clock' = clock /\ gSentDeadline' = gSentDeadline /\ worker' = worker /\ power' = power
    /\ failures' = failures /\ hal' = hal /\ faults' = faults /\ clean' = clean

\* Enter, camera_hint_acquire and camera_hint_release are quiet.
LEMMA QuietSteps ==
    ASSUME Enters \/ Acquires \/ Releases
    PROVE  Quiet
<1>1. CASE Enters
  BY <1>1 DEF Enters, Enter, history, Quiet
<1>2. CASE Acquires
  BY <1>2, ZenonT(30) DEF Acquires, camera_hint_acquire, Quiet
<1>3. CASE Releases
  BY <1>3 DEF Releases, camera_hint_release, Quiet
<1> QED BY <1>1, <1>2, <1>3

\* What they do to the table: nothing, dropping what has expired, a request more, or one less.
LEMMA TableSteps ==
    ASSUME Ranges, Limits, Distinct, Enters \/ Acquires \/ Releases
    PROVE  \/ gRequests' = gRequests /\ gNextHandle' = gNextHandle /\ gDirty' = gDirty /\ attempts' = attempts
           \/ /\ gNextHandle' = gNextHandle /\ gDirty' = gDirty /\ attempts' = attempts
              /\ \E old \in Nat : old <= clock /\ gRequests' = DropExpired(gRequests, old)
           \/ /\ gNextHandle' \in Handles /\ gDirty' = TRUE /\ attempts' = 0
              /\ \E old \in Nat, i \in Slots, h \in Handles, b \in Boosts, deadline \in 0..(clock + Longest) :
                   old <= clock /\ Puts(DropExpired(gRequests, old), i, h, b, deadline)
           \/ /\ gNextHandle' = gNextHandle /\ gDirty' = TRUE /\ attempts' = 0
              /\ \E i \in Slots : gRequests' = [gRequests EXCEPT ![i] = Free]
<1>1. CASE Enters
  BY <1>1 DEF Enters, Enter, history, table
<1>2. CASE Acquires
  <2>1. PICK c \in Callers, handle \in UsedHandles(gRequests) \cup {0}, b \in Boosts, duration \in Nat :
          camera_hint_acquire(c, handle, b, duration)
    BY <1>2 DEF Acquires
  <2>2. caller[c] \in Nat /\ caller[c] <= clock /\ clock \in Nat /\ Longest \in Nat
    BY LongestBounds DEF Ranges, Limits
  <2> DEFINE old == caller[c]
             live == DropExpired(gRequests, old)
  <2>3. \/ gRequests' = live /\ UNCHANGED <<gNextHandle, gDirty, attempts>>
        \/ /\ gNextHandle' \in Handles /\ gDirty' = TRUE /\ attempts' = 0
           /\ \E i \in Slots, h \in Handles, deadline \in 0..(old + Longest) : Puts(live, i, h, b, deadline)
    BY <2>1, Acquired, Zenon
  <2>4. CASE gRequests' = live /\ UNCHANGED <<gNextHandle, gDirty, attempts>>
    BY <2>2, <2>4
  <2>5. CASE /\ gNextHandle' \in Handles /\ gDirty' = TRUE /\ attempts' = 0
             /\ \E i \in Slots, h \in Handles, deadline \in 0..(old + Longest) : Puts(live, i, h, b, deadline)
    <3>1. PICK i \in Slots, h \in Handles, deadline \in 0..(old + Longest) : Puts(live, i, h, b, deadline)
      BY <2>5
    <3>2. deadline \in 0..(clock + Longest)
      BY <2>2
    <3> QED BY <2>2, <2>5, <3>1, <3>2, Zenon
  <2> QED BY <2>3, <2>4, <2>5, Zenon
<1>3. CASE Releases
  BY <1>3, Zenon DEF Releases, camera_hint_release, wake_worker_locked
<1> QED BY <1>1, <1>2, <1>3, Zenon

\* A failed attempt.
LEMMA FailedSteps ==
    ASSUME Ranges, LookupFails \/ SetBoostFails
    PROVE  /\ clock' = clock /\ gRequests' = gRequests /\ gNextHandle' = gNextHandle /\ caller' = caller
           /\ hal' = hal /\ power' = "none" /\ worker.pc = "send"
           /\ faults' = faults \/ (faults' = faults + 1 /\ faults < MaxFaults)
           /\ gSentDeadline' = [b \in Boosts |-> 0]
           /\ failures' \in {1, 2}
           /\ gDirty' = (gDirty \/ failures = 0)
           /\ attempts' = IF attempts <= 2 THEN attempts + 1 ELSE 3
           /\ worker' = [pc |-> "wait", actions |-> <<>>]
           /\ clean' = FALSE
<1>1. failures \in 0..2 /\ attempts \in 0..3
  BY DEF Ranges
<1>2. Min({failures + 1, 2}) \in {1, 2} /\ Min({attempts + 1, 3}) = IF attempts <= 2 THEN attempts + 1 ELSE 3
  <2>1. failures + 1 \in Nat /\ 2 \in Nat /\ attempts + 1 \in Nat /\ 3 \in Nat
    BY <1>1
  <2>2. /\ Min({failures + 1, 2}) \in {failures + 1, 2} /\ Min({failures + 1, 2}) <= 2
        /\ Min({attempts + 1, 3}) \in {attempts + 1, 3} /\ Min({attempts + 1, 3}) <= 3
        /\ Min({attempts + 1, 3}) <= attempts + 1
    BY <2>1, TwoNaturals
  <2> QED BY <1>1, <2>2
<1>3. Failed
  BY DEF LookupFails, SetBoostFails
<1>4. CASE LookupFails
  BY <1>2, <1>3, <1>4 DEF LookupFails, Failed, table
<1>5. CASE SetBoostFails
  BY <1>2, <1>3, <1>5 DEF SetBoostFails, Failed, table
<1> QED BY <1>4, <1>5, Zenon


\* The times the callers read.
LEMMA CallerSteps ==
    ASSUME Ranges, Limits, Enters \/ Acquires \/ Releases
    PROVE  caller' \in [Callers -> Nat] /\ \A c \in Callers : caller'[c] <= clock
<1>1. caller \in [Callers -> Nat] /\ clock \in Nat /\ \A c \in Callers : caller[c] <= clock
  BY DEF Ranges, Limits
<1>2. CASE Enters
  <2>1. PICK c \in Callers : caller' = [caller EXCEPT ![c] = clock]
    BY <1>2, Zenon DEF Enters, Enter
  <2> QED BY <1>1, <2>1
<1>3. CASE Acquires
  <2>1. PICK c \in Callers : caller' = [caller EXCEPT ![c] = 0]
    BY <1>3, ZenonT(30) DEF Acquires, camera_hint_acquire
  <2> QED BY <1>1, <2>1
<1>4. CASE Releases
  BY <1>1, <1>4 DEF Releases, camera_hint_release
<1> QED BY <1>2, <1>3, <1>4

\* The table after any of these steps: typed, bounded, with distinct handles.
LEMMA TableKept ==
    ASSUME Ranges, Limits, Distinct, Enters \/ Acquires \/ Releases
    PROVE  /\ gRequests' \in [Slots -> RequestRecord] /\ gNextHandle' \in Handles
           /\ \A i \in Slots : gRequests'[i].deadline <= clock + Longest
           /\ Distinct'
<1>1. /\ gRequests \in [Slots -> RequestRecord] /\ gNextHandle \in Handles /\ clock \in Nat /\ Longest \in Nat
      /\ \A i \in Slots : gRequests[i].deadline <= clock + Longest
  BY LongestBounds DEF Ranges, Limits
<1>2. Free \in RequestRecord /\ Free.handle = 0 /\ Free.deadline = 0
  BY FreeRequest
<1>3. CASE gRequests' = gRequests /\ gNextHandle' = gNextHandle
  BY <1>1, <1>3 DEF Distinct
<1>4. ASSUME NEW old \in Nat
      PROVE  LET live == DropExpired(gRequests, old)
             IN  /\ live \in [Slots -> RequestRecord]
                 /\ \A i \in Slots : live[i].deadline <= clock + Longest
                 /\ \A i, j \in Slots : live[i].handle = live[j].handle /\ i # j => live[i].handle = 0
  <2> DEFINE live == DropExpired(gRequests, old)
  <2>1. /\ live \in [Slots -> RequestRecord]
        /\ \A i \in Slots : live[i] = Free \/ live[i] = gRequests[i]
    BY <1>1, Dropped
  <2> HIDE DEF live
  <2>2. \A i \in Slots : live[i].deadline <= clock + Longest
    BY <1>1, <1>2, <2>1
  <2>3. ASSUME NEW i \in Slots, NEW j \in Slots, live[i].handle = live[j].handle, i # j
        PROVE  live[i].handle = 0
    BY <1>2, <2>1, <2>3 DEF Distinct
  <2> QED BY <2>1, <2>2, <2>3 DEF live
<1>5. CASE /\ gNextHandle' = gNextHandle
           /\ \E old \in Nat : old <= clock /\ gRequests' = DropExpired(gRequests, old)
  <2>1. PICK old \in Nat : gRequests' = DropExpired(gRequests, old)
    BY <1>5
  <2> QED BY <1>1, <1>4, <1>5, <2>1 DEF Distinct
<1>6. CASE /\ gNextHandle' \in Handles
           /\ \E old \in Nat, i \in Slots, h \in Handles, b \in Boosts, deadline \in 0..(clock + Longest) :
                old <= clock /\ Puts(DropExpired(gRequests, old), i, h, b, deadline)
  <2>1. PICK old \in Nat, i \in Slots, h \in Handles, b \in Boosts, deadline \in 0..(clock + Longest) :
          old <= clock /\ Puts(DropExpired(gRequests, old), i, h, b, deadline)
    BY <1>6
  <2> DEFINE live == DropExpired(gRequests, old)
             r == [handle |-> h, boost |-> b, deadline |-> deadline]
  <2>2. /\ live \in [Slots -> RequestRecord]
        /\ \A j \in Slots : live[j].deadline <= clock + Longest
        /\ \A j, k \in Slots : live[j].handle = live[k].handle /\ j # k => live[j].handle = 0
    BY <1>4
  <2>3. gRequests' = [live EXCEPT ![i] = r] /\ \A j \in Slots : j # i => live[j].handle # h
    BY <2>1 DEF Puts
  <2>4. r \in RequestRecord /\ r.deadline <= clock + Longest /\ r.handle = h
    BY <1>1 DEF RequestRecord
  <2> HIDE DEF live, r
  <2>5. gRequests' \in [Slots -> RequestRecord] /\ \A j \in Slots : gRequests'[j] = IF j = i THEN r ELSE live[j]
    BY <2>2, <2>3, <2>4
  <2>6. \A j \in Slots : gRequests'[j].deadline <= clock + Longest
    BY <2>2, <2>4, <2>5
  <2>7. ASSUME NEW j \in Slots, NEW k \in Slots, gRequests'[j].handle = gRequests'[k].handle, j # k
        PROVE  gRequests'[j].handle = 0
    BY <2>2, <2>3, <2>4, <2>5, <2>7
  <2> QED BY <1>6, <2>5, <2>6, <2>7 DEF Distinct
<1>7. CASE gNextHandle' = gNextHandle /\ \E i \in Slots : gRequests' = [gRequests EXCEPT ![i] = Free]
  <2>1. PICK i \in Slots : gRequests' = [gRequests EXCEPT ![i] = Free]
    BY <1>7, Zenon
  <2>2. gRequests' \in [Slots -> RequestRecord] /\ \A j \in Slots : gRequests'[j] = IF j = i THEN Free ELSE gRequests[j]
    BY <1>1, <1>2, <2>1
  <2>3. \A j \in Slots : gRequests'[j].deadline <= clock + Longest
    BY <1>1, <1>2, <2>2
  <2>4. ASSUME NEW j \in Slots, NEW k \in Slots, gRequests'[j].handle = gRequests'[k].handle, j # k
        PROVE  gRequests'[j].handle = 0
    BY <1>2, <2>2, <2>4 DEF Distinct
  <2> QED BY <1>1, <1>7, <2>2, <2>3, <2>4 DEF Distinct
<1> QED BY <1>3, <1>5, <1>6, <1>7, TableSteps, Zenon

\* plan_locked's effect on the table and on what was sent.
LEMMA PlannedTable ==
    ASSUME Ranges, Limits, Distinct, plan_locked
    PROVE  /\ gRequests' = DropExpired(gRequests, clock) /\ gRequests' \in [Slots -> RequestRecord]
           /\ \A i \in Slots : gRequests'[i].deadline <= clock + Longest
           /\ Distinct'
           /\ gSentDeadline' \in [Boosts -> Nat] /\ \A b \in Boosts : gSentDeadline'[b] = Want(b, clock)
           /\ \A b \in Boosts : gSentDeadline'[b] <= clock + Longest
           /\ \A b \in Boosts : gSentDeadline'[b] = 0 \/ gSentDeadline'[b] > clock
<1>1. /\ gRequests \in [Slots -> RequestRecord] /\ clock \in Nat /\ Longest \in Nat
      /\ \A i \in Slots : gRequests[i].deadline <= clock + Longest
  BY LongestBounds DEF Ranges, Limits
<1>2. gRequests' = DropExpired(gRequests, clock) /\ gSentDeadline' = [b \in Boosts |-> Want(b, clock)]
  BY DEF plan_locked
<1>3. /\ gRequests' \in [Slots -> RequestRecord]
      /\ \A i \in Slots : gRequests'[i] = Free \/ gRequests'[i] = gRequests[i]
  BY <1>1, <1>2, Dropped
<1>4. \A i \in Slots : gRequests'[i].deadline <= clock + Longest
  BY <1>1, <1>3, FreeRequest
<1>5. ASSUME NEW i \in Slots, NEW j \in Slots, gRequests'[i].handle = gRequests'[j].handle, i # j
      PROVE  gRequests'[i].handle = 0
  BY <1>3, <1>5, FreeRequest DEF Distinct
<1>6. ASSUME NEW b \in Boosts
      PROVE  /\ Want(b, clock) \in Nat /\ Want(b, clock) <= clock + Longest
             /\ Want(b, clock) = 0 \/ Want(b, clock) > clock
  BY WantBounds
<1> QED BY <1>2, <1>3, <1>4, <1>5, <1>6 DEF Distinct


-----------------------------------------------------------------------------
(* The conjuncts of HintsInv, kept by every step. *)

\* Every variable keeps its range.
LEMMA RangesKept ==
    ASSUME Ranges, Limits, Distinct, [Next]_vars
    PROVE  Ranges'
<1>1. CASE UNCHANGED vars
  BY <1>1 DEF Ranges, vars, table, history
<1>2. CASE Enters \/ Acquires \/ Releases
  <2>1. Quiet /\ caller' \in [Callers -> Nat] /\ gRequests' \in [Slots -> RequestRecord] /\ gNextHandle' \in Handles
    BY <1>2, QuietSteps, CallerSteps, TableKept
  <2>2. (gDirty' = gDirty /\ attempts' = attempts) \/ (gDirty' = TRUE /\ attempts' = 0)
    BY <1>2, TableSteps, Zenon
  <2>3. gDirty' \in BOOLEAN
    BY <2>2, Zenon DEF Ranges
  <2>4. attempts' \in 0..3
    BY <2>2 DEF Ranges
  <2> QED BY <2>1, <2>3, <2>4, Zenon DEF Ranges, Quiet
<1>3. CASE plan_locked
  <2>1. /\ worker' \in [pc : {"wait", "send"}, actions : Seq(Action)] /\ gRequests' \in [Slots -> RequestRecord]
        /\ gSentDeadline' \in [Boosts -> Nat]
    BY <1>3, Planned, PlannedTable
  <2>2. failures' \in 0..2
    <3>1. failures' = 0 \/ failures' = failures
      BY <1>3, Zenon DEF plan_locked
    <3> QED BY <3>1 DEF Ranges
  <2> QED BY <1>3, <2>1, <2>2, Zenon DEF Ranges, plan_locked, history
<1>4. CASE Lookup
  BY <1>4, Zenon DEF Lookup, Ranges, table, history
<1>5. CASE SetBoost
  <2>1. /\ worker' \in [pc : {"wait", "send"}, actions : Seq(Action)]
        /\ hal' \in [up : BOOLEAN, ends : [Boosts -> Nat]]
        /\ failures' = IF worker'.pc = "send" THEN failures ELSE 0
    BY <1>5, Called
  <2>2. failures' \in 0..2
    BY <2>1 DEF Ranges
  <2> QED BY <1>5, <2>1, <2>2, Zenon DEF Ranges, SetBoost, table, history
<1>6. CASE LookupFails \/ SetBoostFails
  <2>1. /\ clock' = clock /\ gRequests' = gRequests /\ gNextHandle' = gNextHandle /\ caller' = caller
        /\ hal' = hal /\ power' = "none"
        /\ faults' = faults \/ (faults' = faults + 1 /\ faults < MaxFaults)
        /\ gSentDeadline' = [b \in Boosts |-> 0]
        /\ failures' \in {1, 2}
        /\ gDirty' = (gDirty \/ failures = 0)
        /\ attempts' = IF attempts <= 2 THEN attempts + 1 ELSE 3
        /\ worker' = [pc |-> "wait", actions |-> <<>>]
        /\ clean' = FALSE
    BY <1>6, FailedSteps, Zenon
  <2>2. failures' \in 0..2 /\ faults' \in Nat /\ attempts' \in 0..3
    BY <2>1 DEF Ranges
  <2>3. gSentDeadline' \in [Boosts -> Nat] /\ worker' \in [pc : {"wait", "send"}, actions : Seq(Action)]
    BY <2>1
  <2> QED BY <2>1, <2>2, <2>3, Zenon DEF Ranges
<1>7. CASE HalDies
  <2>1. hal' \in [up : BOOLEAN, ends : [Boosts -> Nat]] /\ faults' \in Nat
    BY <1>7 DEF HalDies, Ranges
  <2> QED BY <1>7, <2>1, Zenon DEF HalDies, Ranges, table
<1>8. CASE HalStarts
  <2>1. hal' \in [up : BOOLEAN, ends : [Boosts -> Nat]]
    BY <1>8, Zenon DEF HalStarts, Ranges
  <2> QED BY <1>8, <2>1, Zenon DEF HalStarts, Ranges, table, history
<1>9. CASE Tick
  <2>1. clock' \in Nat \ {0}
    BY <1>9 DEF Tick, Ranges
  <2> QED BY <1>9, <2>1, Zenon DEF Tick, Ranges, table, history
<1> QED BY <1>1, <1>2, <1>3, <1>4, <1>5, <1>6, <1>7, <1>8, <1>9, Steps, Zenon

\* Every variable stays within its bounds.
LEMMA LimitsKept ==
    ASSUME Ranges, Limits, Distinct, [Next]_vars
    PROVE  Limits'
<1>1. CASE UNCHANGED vars
  BY <1>1 DEF Limits, vars, table, history
<1>2. CASE Enters \/ Acquires \/ Releases
  <2>1. /\ Quiet /\ \A c \in Callers : caller'[c] <= clock
        /\ \A i \in Slots : gRequests'[i].deadline <= clock + Longest
    BY <1>2, QuietSteps, CallerSteps, TableKept
  <2> QED BY <2>1, Zenon DEF Limits, Quiet
<1>3. CASE plan_locked
  <2>1. /\ (worker'.pc = "send") = (worker'.actions # <<>>)
        /\ Len(worker'.actions) <= 4 /\ Within(worker'.actions)
        /\ \A i \in Slots : gRequests'[i].deadline <= clock + Longest
        /\ \A b \in Boosts : gSentDeadline'[b] <= clock + Longest
    BY <1>3, Planned, PlannedTable
  <2> QED BY <1>3, <2>1, Zenon DEF Limits, plan_locked
<1>4. CASE Lookup
  BY <1>4, Zenon DEF Lookup, Limits, table, history
<1>5. CASE SetBoost
  <2>1. /\ (worker'.pc = "send") = (worker'.actions # <<>>)
        /\ Len(worker'.actions) <= 4 /\ Within(worker'.actions)
        /\ hal'.up = hal.up
        /\ \A b \in Boosts : hal'.ends[b] = After1(worker.actions, clock, b, hal.ends[b], 1)
    BY <1>5, Called
  <2>2. ASSUME NEW b \in Boosts PROVE hal'.ends[b] <= clock + Longest
    <3>1. /\ worker.actions \in Seq(Action) /\ worker.actions # <<>> /\ Within(worker.actions) /\ clock \in Nat
          /\ hal.ends[b] \in Nat /\ hal.ends[b] <= clock + Longest
      BY <1>5 DEF SetBoost, Ranges, Limits
    <3> QED BY <2>1, <3>1, CallWithin
  <2> QED BY <1>5, <2>1, <2>2, Zenon DEF Limits, SetBoost, table, history
<1>6. CASE LookupFails \/ SetBoostFails
  <2>1. /\ clock' = clock /\ gRequests' = gRequests /\ gNextHandle' = gNextHandle /\ caller' = caller
        /\ hal' = hal /\ power' = "none"
        /\ faults' = faults \/ (faults' = faults + 1 /\ faults < MaxFaults)
        /\ gSentDeadline' = [b \in Boosts |-> 0]
        /\ worker' = [pc |-> "wait", actions |-> <<>>]
    BY <1>6, FailedSteps, Zenon
  <2>2. faults' <= MaxFaults
    BY <2>1, HintsAssumption DEF Ranges, Limits
  <2>3. \A b \in Boosts : gSentDeadline'[b] <= clock' + Longest
    BY <2>1, LongestBounds DEF Ranges
  <2>4. /\ (worker'.pc = "send") = (worker'.actions # <<>>) /\ Len(worker'.actions) <= 4
        /\ Within(worker'.actions) /\ ~(power' = "current")
    BY <2>1 DEF Within
  <2> QED BY <2>1, <2>2, <2>3, <2>4, Zenon DEF Limits
<1>7. CASE HalDies
  <2>1. faults' <= MaxFaults
    BY <1>7, HintsAssumption DEF HalDies, Ranges
  <2>2. \A b \in Boosts : hal'.ends[b] <= clock' + Longest
    BY <1>7, LongestBounds DEF HalDies, Ranges
  <2>3. ~(power' = "current")
    BY <1>7 DEF HalDies
  <2> QED BY <1>7, <2>1, <2>2, <2>3, Zenon DEF HalDies, Limits, table
<1>8. CASE HalStarts
  <2>1. hal'.ends = hal.ends /\ hal'.up
    BY <1>8 DEF HalStarts, Ranges
  <2> QED BY <1>8, <2>1, Zenon DEF HalStarts, Limits, table, history
<1>9. CASE Tick
  <2>1. clock' = clock + 1 /\ clock \in Nat /\ Longest \in Nat /\ clock' <= MaxClock
    BY <1>9, LongestBounds, HintsAssumption DEF Tick, Ranges
  <2>2. \A i \in Slots : gRequests[i].deadline <= clock' + Longest
    BY <2>1 DEF Limits, Ranges, RequestRecord
  <2>3. /\ \A b \in Boosts : gSentDeadline[b] <= clock' + Longest
        /\ \A b \in Boosts : hal.ends[b] <= clock' + Longest
        /\ \A c \in Callers : caller[c] <= clock'
    BY <2>1 DEF Limits, Ranges
  <2> QED BY <1>9, <2>1, <2>2, <2>3, Zenon DEF Tick, Limits, table, history
<1> QED BY <1>1, <1>2, <1>3, <1>4, <1>5, <1>6, <1>7, <1>8, <1>9, Steps, Zenon

\* Handles stay distinct.
LEMMA DistinctKept ==
    ASSUME Ranges, Limits, Distinct, [Next]_vars
    PROVE  Distinct'
<1>1. CASE gRequests' = gRequests
  BY <1>1 DEF Distinct
<1>2. CASE Enters \/ Acquires \/ Releases
  BY <1>2, TableKept
<1>3. CASE plan_locked
  BY <1>3, PlannedTable
<1>4. CASE Lookup \/ SetBoost \/ LookupFails \/ SetBoostFails \/ HalDies \/ HalStarts \/ Tick \/ UNCHANGED vars
  BY <1>1, <1>4 DEF Lookup, SetBoost, LookupFails, SetBoostFails, HalDies, HalStarts, Tick, vars, table
<1> QED BY <1>2, <1>3, <1>4, Steps, Zenon


\* One retry for a hint.
LEMMA RetriesKept ==
    ASSUME Ranges, Limits, Distinct, Retries, [Next]_vars
    PROVE  Retries'
<1>1. attempts \in 0..3 /\ failures \in 0..2
  BY DEF Ranges
<1>2. CASE Lookup \/ HalStarts \/ Tick \/ UNCHANGED vars
  <2>1. /\ attempts' = attempts /\ gDirty' = gDirty /\ worker' = worker /\ failures' = failures /\ clean' = clean
        /\ power' \in {power, "current"}
    BY <1>2 DEF Lookup, HalStarts, Tick, vars, table, history
  <2>2. power' = power \/ power' # "dead"
    BY <2>1
  <2> QED BY <2>1, <2>2, Zenon DEF Retries
<1>3. CASE Enters \/ Acquires \/ Releases
  <2>1. Quiet /\ ((gDirty' = gDirty /\ attempts' = attempts) \/ attempts' = 0)
    BY <1>3, QuietSteps, TableSteps, Zenon
  <2> QED BY <2>1 DEF Retries, Quiet
<1>4. CASE plan_locked
  <2>1. /\ worker.pc = "wait" /\ gDirty /\ gDirty' = FALSE /\ attempts' = attempts /\ power' = power /\ clean' = clean
        /\ (failures' = 0 /\ worker' = worker) \/ failures' = failures
    BY <1>4 DEF plan_locked, history
  <2> QED BY <1>1, <2>1 DEF Retries
<1>5. CASE SetBoost
  <2>1. failures' = IF worker'.pc = "send" THEN failures ELSE 0
    BY <1>5, Called
  <2>2. /\ worker.pc = "send" /\ gDirty' = gDirty /\ attempts' = attempts /\ power' = power /\ clean' = clean
    BY <1>5 DEF SetBoost, history
  <2> QED BY <1>1, <2>1, <2>2 DEF Retries
<1>6. CASE LookupFails \/ SetBoostFails
  <2>1. /\ power' = "none" /\ worker.pc = "send"
        /\ failures' \in {1, 2}
        /\ gDirty' = (gDirty \/ failures = 0)
        /\ attempts' = IF attempts <= 2 THEN attempts + 1 ELSE 3
        /\ worker' = [pc |-> "wait", actions |-> <<>>]
        /\ clean' = FALSE
    BY <1>6, FailedSteps, Zenon
  <2>2. worker'.pc = "wait" /\ failures' # 0
    BY <2>1
  <2>3. attempts <= 1 /\ (gDirty \/ failures = 0 => attempts = 0)
    BY <2>1 DEF Retries
  <2>4. attempts' <= 2 /\ (gDirty \/ failures = 0 => attempts' <= 1)
    BY <1>1, <2>1, <2>3
  <2>5. worker'.pc # "send"
    BY <2>2
  <2> QED BY <2>1, <2>2, <2>4, <2>5, Zenon DEF Retries
<1>7. CASE HalDies
  BY <1>7 DEF HalDies, Retries
<1> QED BY <1>2, <1>3, <1>4, <1>5, <1>6, <1>7, Steps, Zenon

\* What was sent is what the table asks for.
LEMMA SentKept ==
    ASSUME Ranges, Limits, Distinct, Sent, [Next]_vars
    PROVE  Sent'
<1>1. gRequests \in [Slots -> RequestRecord] /\ clock \in Nat /\ gSentDeadline \in [Boosts -> Nat]
  BY DEF Ranges
<1>2. ASSUME gRequests' = gRequests, clock' = clock, gSentDeadline' = gSentDeadline,
             ~gDirty' /\ (failures' = 0 \/ worker'.pc = "send") => ~gDirty /\ (failures = 0 \/ worker.pc = "send")
      PROVE  Sent'
  BY <1>2 DEF Sent, Want
<1>3. CASE Lookup \/ HalDies \/ HalStarts \/ UNCHANGED vars
  <2>1. /\ gRequests' = gRequests /\ clock' = clock /\ gSentDeadline' = gSentDeadline /\ gDirty' = gDirty
        /\ failures' = failures /\ worker' = worker
    BY <1>3 DEF Lookup, HalStarts, HalDies, vars, table, history
  <2> QED BY <1>2, <2>1
<1>4. CASE Enters \/ Acquires \/ Releases
  <2>1. Quiet
    BY <1>4, QuietSteps
  <2>2. CASE gDirty' = TRUE
    BY <2>2 DEF Sent
  <2>3. CASE gRequests' = gRequests /\ gDirty' = gDirty
    BY <1>2, <2>1, <2>3 DEF Quiet
  <2>4. CASE gDirty' = gDirty /\ \E old \in Nat : old <= clock /\ gRequests' = DropExpired(gRequests, old)
    <3>1. PICK old \in Nat : old <= clock /\ gRequests' = DropExpired(gRequests, old)
      BY <2>4
    <3>2. ASSUME NEW b \in Boosts PROVE Live(gRequests, b, clock)' = Live(gRequests, b, clock)
      <4>1. Live(DropExpired(gRequests, old), b, clock) = Live(gRequests, b, clock)
        BY <1>1, <3>1, DroppedLive
      <4>2. Live(gRequests, b, clock)' = Live(DropExpired(gRequests, old), b, clock)
        BY <2>1, <3>1 DEF Live, Quiet
      <4> QED BY <4>1, <4>2
    <3>3. ASSUME NEW b \in Boosts PROVE Want(b, clock)' = Want(b, clock)
      BY <3>2, Zenon DEF Want, Live, Latest
    <3> QED BY <2>1, <2>4, <3>3 DEF Sent, Quiet
  <2> QED BY <1>4, <2>2, <2>3, <2>4, TableSteps, Zenon
<1>5. CASE plan_locked
  <2>1. gRequests' = DropExpired(gRequests, clock) /\ \A b \in Boosts : gSentDeadline'[b] = Want(b, clock)
    BY <1>5, PlannedTable
  <2>2. clock' = clock
    BY <1>5 DEF plan_locked
  <2>3. ASSUME NEW b \in Boosts PROVE Want(b, clock)' = Want(b, clock)
    <3>1. Live(DropExpired(gRequests, clock), b, clock) = Live(gRequests, b, clock)
      BY <1>1, DroppedLive
    <3>2. Live(gRequests, b, clock)' = Live(DropExpired(gRequests, clock), b, clock)
      BY <2>1, <2>2 DEF Live
    <3> QED BY <3>1, <3>2, Zenon DEF Want, Live, Latest
  <2>4. \A b \in Boosts : Want(b, clock) = 0 \/ Want(b, clock) > clock
    BY WantBounds
  <2> QED BY <1>1, <2>1, <2>2, <2>3, <2>4 DEF Sent
<1>6. CASE SetBoost
  <2>1. /\ gRequests' = gRequests /\ clock' = clock /\ gSentDeadline' = gSentDeadline /\ gDirty' = gDirty
        /\ worker.pc = "send"
    BY <1>6 DEF SetBoost, table, history
  <2> QED BY <1>2, <2>1
<1>7. CASE LookupFails \/ SetBoostFails
  <2>1. failures' \in {1, 2} /\ worker' = [pc |-> "wait", actions |-> <<>>]
    BY <1>7, FailedSteps, Zenon
  <2>2. failures' # 0 /\ worker'.pc = "wait"
    BY <2>1
  <2> QED BY <2>2 DEF Sent
<1>8. CASE Tick
  <2>1. /\ gRequests' = gRequests /\ clock' = clock + 1 /\ gSentDeadline' = gSentDeadline /\ gDirty' = gDirty
        /\ failures' = failures /\ worker' = worker
    BY <1>8 DEF Tick, table
  <2>2. ASSUME NEW b \in Boosts
        PROVE  Want(b, clock)' = IF Want(b, clock) > clock + 1 THEN Want(b, clock) ELSE 0
    <3> DEFINE S == Live(gRequests, b, clock)
    <3>1. S \in SUBSET Nat /\ clock + Longest \in Nat /\ \A d \in S : d <= clock + Longest
      <4>1. clock + Longest \in Nat
        BY <1>1, LongestBounds
      <4>2. \A i \in Slots : gRequests[i].deadline <= clock + Longest
        BY DEF Limits
      <4> QED BY <1>1, <4>1, <4>2, LiveBounds
    <3>2. Live(gRequests, b, clock + 1) = {d \in S : d > clock + 1}
      BY <1>1, LiveLater
    <3> HIDE DEF S
    <3>3. Latest({d \in S : d > clock + 1}) = IF Latest(S) > clock + 1 THEN Latest(S) ELSE 0
      <4>1. PICK n \in Nat, t \in Nat : n = clock + Longest /\ t = clock + 1
        BY <1>1, <3>1
      <4>2. \A d \in S : d <= n
        BY <3>1, <4>1
      <4>3. Latest({d \in S : d > t}) = IF Latest(S) > t THEN Latest(S) ELSE 0
        BY <3>1, <4>2, LatestLater
      <4> QED BY <4>1, <4>3
    <3>4. Want(b, clock) = Latest(S)
      BY WantLive DEF S
    <3>5. Want(b, clock)' = Latest(Live(gRequests, b, clock + 1))
      BY <2>1 DEF Want, Live
    <3> QED BY <3>2, <3>3, <3>4, <3>5
  <2>3. ASSUME Sent, ~gDirty /\ (failures = 0 \/ worker.pc = "send"), NEW b \in Boosts
        PROVE  Want(b, clock)' = IF gSentDeadline[b] > clock + 1 THEN gSentDeadline[b] ELSE 0
    <3>1. Want(b, clock) = IF gSentDeadline[b] > clock THEN gSentDeadline[b] ELSE 0
      BY <2>3 DEF Sent
    <3>2. gSentDeadline[b] \in Nat
      BY <1>1
    <3> QED BY <1>1, <2>2, <3>1, <3>2
  <2> QED BY <2>1, <2>3 DEF Sent
<1> QED BY <1>3, <1>4, <1>5, <1>6, <1>7, <1>8, Steps, Zenon


\* Waiting, nothing is to come but what is.
LEMMA ComingWaiting ==
    ASSUME Ranges, Limits, worker.pc = "wait", NEW b \in Boosts
    PROVE  worker.actions = <<>> /\ Coming(b) = hal.ends[b] /\ hal.ends[b] \in Nat
<1>1. worker.actions = <<>> /\ hal.ends[b] \in Nat
  BY DEF Ranges, Limits
<1> QED BY <1>1, NoCalls DEF Coming

\* Making a call changes nothing of what is to come.
LEMMA ComingCalled ==
    ASSUME Ranges, Limits, SetBoost, NEW b \in Boosts
    PROVE  Coming(b)' = Coming(b)
<1>1. /\ worker'.actions = Tail(worker.actions) /\ worker.actions # <<>>
      /\ hal'.ends[b] = After1(worker.actions, clock, b, hal.ends[b], 1)
  BY Called
<1>2. worker.actions \in Seq(Action) /\ Len(worker.actions) <= 4 /\ clock' = clock
  BY DEF Ranges, Limits, SetBoost
<1>3. Coming(b)' = After(Tail(worker.actions), clock, b, After1(worker.actions, clock, b, hal.ends[b], 1))
  BY <1>1, <1>2 DEF Coming
<1> QED BY <1>1, <1>2, <1>3, RestOfCalls, SMTT(30) DEF Coming

\* What the calls will make of the power HAL covers what was sent.
LEMMA CoveredKept ==
    ASSUME Ranges, Limits, Distinct, Covered, [Next]_vars
    PROVE  Covered'
<1>1. clock \in Nat /\ gSentDeadline \in [Boosts -> Nat]
  BY DEF Ranges
<1>2. CASE Enters \/ Acquires \/ Releases \/ UNCHANGED vars
  <2>1. Quiet
    BY <1>2, QuietSteps DEF vars, history, Quiet
  <2> QED BY <2>1 DEF Covered, Coming, Quiet
<1>3. CASE plan_locked
  <2>1. SUFFICES ASSUME NEW b \in Boosts
        PROVE  /\ worker'.pc = "wait" /\ power' = "none" => gSentDeadline'[b] = 0
               /\ worker'.pc = "send" /\ power' = "none" => After(worker'.actions, clock', b, 0) >= gSentDeadline'[b]
               /\ power' # "dead" => gSentDeadline'[b] <= clock' \/ Coming(b)' >= gSentDeadline'[b]
               /\ worker'.pc = "send" => gSentDeadline'[b] = 0 \/ gSentDeadline'[b] > clock'
    BY DEF Covered
  <2> DEFINE w == Want(b, clock)
             s == gSentDeadline[b]
             e(end) == After(worker'.actions, clock, b, end)
  <2>2. /\ w \in Nat /\ w <= clock + Longest /\ (w = 0 \/ w > clock) /\ gSentDeadline'[b] = w
        /\ s \in Nat
    BY <1>1, <1>3, WantBounds, PlannedTable
  <2>3. clock' = clock /\ power' = power /\ hal' = hal /\ worker.pc = "wait"
    BY <1>3 DEF plan_locked
  <2>4. Coming(b) = hal.ends[b] /\ hal.ends[b] \in Nat
    BY <2>3, ComingWaiting
  <2>5. Coming(b)' = e(hal.ends[b])
    BY <2>3 DEF Coming
  <2>6. ASSUME NEW end \in Nat
        PROVE  /\ e(end) \in Nat
               /\ (s > clock /\ w = s) \/ (s <= clock /\ w = 0) => e(end) = end
               /\ w # 0 /\ ~(s > clock /\ w = s) => e(end) >= w
    <3>1. e(end) = After(PlanFor(b, clock), clock, b, end) /\ worker'.actions \in Seq(Action)
      BY <1>3, Planned
    <3>2. e(end) \in Nat
      BY <1>1, <3>1, AllCalls
    <3>3. LET a == After(PlanFor(b, clock), clock, b, end)
          IN  /\ (s > clock /\ w = s) \/ (s <= clock /\ w = 0) => a = end
              /\ w # 0 /\ ~(s > clock /\ w = s) => a >= w
      BY <2>2, AfterPlan
    <3> HIDE DEF e, w, s
    <3> QED BY <3>1, <3>2, <3>3
  <2>7. worker'.pc = "wait" => e(0) = 0
    <3>1. worker'.pc = "wait" => worker'.actions = <<>>
      BY <1>3, Planned
    <3> QED BY <3>1, NoCalls
  <2>8. /\ power = "none" => s = 0
        /\ power # "dead" => s <= clock \/ hal.ends[b] >= s
    BY <2>3, <2>4 DEF Covered
  <2> HIDE DEF e, w, s
  <2>9. power = "none" => e(0) >= w /\ e(0) \in Nat
    <3>1. /\ e(0) \in Nat /\ (w # 0 /\ ~(s > clock /\ w = s) => e(0) >= w)
      BY <2>6
    <3> QED BY <1>1, <2>2, <2>8, <3>1
  <2>10. power # "dead" => w <= clock \/ e(hal.ends[b]) >= w
    <3>1. /\ e(hal.ends[b]) \in Nat
          /\ (s > clock /\ w = s) => e(hal.ends[b]) = hal.ends[b]
          /\ w # 0 /\ ~(s > clock /\ w = s) => e(hal.ends[b]) >= w
      BY <2>4, <2>6
    <3> QED BY <1>1, <2>2, <2>4, <2>8, <3>1
  <2>11. worker'.pc = "wait" /\ power = "none" => w = 0
    BY <2>2, <2>7, <2>9
  <2> QED BY <2>2, <2>3, <2>5, <2>9, <2>10, <2>11 DEF e
<1>4. CASE Lookup
  <2>1. /\ clock' = clock /\ gSentDeadline' = gSentDeadline /\ worker' = worker /\ hal' = hal
        /\ power' = "current" /\ power = "none"
    BY <1>4 DEF Lookup
  <2> QED BY <2>1 DEF Covered, Coming
<1>5. CASE SetBoost
  <2>1. clock' = clock /\ gSentDeadline' = gSentDeadline /\ power' = power /\ power = "current" /\ worker.pc = "send"
    BY <1>5 DEF SetBoost
  <2>2. \A b \in Boosts : Coming(b)' = Coming(b)
    BY <1>5, ComingCalled
  <2> QED BY <2>1, <2>2 DEF Covered
<1>6. CASE LookupFails \/ SetBoostFails
  <2>1. clock' = clock /\ gSentDeadline' = [b \in Boosts |-> 0] /\ worker' = [pc |-> "wait", actions |-> <<>>]
    BY <1>6, FailedSteps, Zenon
  <2>2. worker'.pc = "wait" /\ worker'.pc # "send" /\ \A b \in Boosts : gSentDeadline'[b] = 0 /\ 0 <= clock'
    BY <1>1, <2>1
  <2> QED BY <2>2 DEF Covered
<1>7. CASE HalDies
  <2>1. /\ clock' = clock /\ gSentDeadline' = gSentDeadline /\ worker' = worker
        /\ power' = (IF power = "current" THEN "dead" ELSE power)
        /\ \A b \in Boosts : hal'.ends[b] = 0
    BY <1>7 DEF HalDies
  <2>2. worker.pc \in {"wait", "send"} /\ power \in {"none", "current", "dead"}
    BY DEF Ranges
  <2>3. ASSUME NEW b \in Boosts, power' # "dead"
        PROVE  gSentDeadline'[b] <= clock' \/ Coming(b)' >= gSentDeadline'[b]
    <3>1. power = "none"
      BY <2>1, <2>2, <2>3
    <3>2. Coming(b)' = After(worker.actions, clock, b, 0)
      BY <2>1 DEF Coming
    <3>3. CASE worker.pc = "wait"
      BY <1>1, <2>1, <3>1, <3>3 DEF Covered
    <3>4. CASE worker.pc = "send"
      BY <2>1, <3>1, <3>2, <3>4 DEF Covered
    <3> QED BY <2>2, <3>3, <3>4
  <2>4. power' = "none" => power = "none"
    BY <2>1
  <2> QED BY <2>1, <2>3, <2>4 DEF Covered
<1>8. CASE HalStarts
  <2>1. /\ clock' = clock /\ gSentDeadline' = gSentDeadline /\ worker' = worker /\ power' = power
        /\ hal'.ends = hal.ends
    BY <1>8 DEF HalStarts, Ranges
  <2> QED BY <2>1 DEF Covered, Coming
<1>9. CASE Tick
  <2>1. /\ clock' = clock + 1 /\ gSentDeadline' = gSentDeadline /\ worker' = worker /\ power' = power
        /\ hal' = hal /\ worker.pc = "wait"
    BY <1>9 DEF Tick
  <2>2. ASSUME NEW b \in Boosts
        PROVE  Coming(b) = hal.ends[b] /\ Coming(b)' = hal.ends[b]
    <3>1. worker.actions = <<>> /\ Coming(b) = hal.ends[b]
      BY <2>1, ComingWaiting
    <3> QED BY <2>1, <3>1, NoCalls, SMTT(30) DEF Coming
  <2>3. ASSUME NEW b \in Boosts, power # "dead"
        PROVE  gSentDeadline[b] <= clock + 1 \/ Coming(b)' >= gSentDeadline[b]
    BY <1>1, <2>2, <2>3 DEF Covered
  <2> QED BY <2>1, <2>3 DEF Covered
<1> QED BY <1>2, <1>3, <1>4, <1>5, <1>6, <1>7, <1>8, <1>9, Steps, Zenon


\* As long as nothing failed, the calls make each boost end when it should.
LEMMA InLineKept ==
    ASSUME Ranges, Limits, Distinct, InLine, [Next]_vars
    PROVE  InLine'
<1>1. clock \in Nat /\ gSentDeadline \in [Boosts -> Nat] /\ UnitsPerMs \in Nat \ {0}
  BY HintsAssumption DEF Ranges
<1>2. CASE Enters \/ Acquires \/ Releases \/ Lookup \/ UNCHANGED vars
  <2>1. /\ clock' = clock /\ gSentDeadline' = gSentDeadline /\ worker' = worker /\ hal' = hal /\ clean' = clean
    BY <1>2, QuietSteps DEF vars, history, Quiet, Lookup
  <2> QED BY <2>1 DEF InLine, Coming
<1>3. CASE plan_locked
  <2>1. SUFFICES ASSUME clean, NEW b \in Boosts
        PROVE  IF gSentDeadline'[b] > clock'
                 THEN Coming(b)' >= gSentDeadline'[b] /\ Coming(b)' < gSentDeadline'[b] + UnitsPerMs
                 ELSE Coming(b)' < clock' + UnitsPerMs
    BY <1>3 DEF InLine, plan_locked, history
  <2> DEFINE w == Want(b, clock)
             s == gSentDeadline[b]
             end == hal.ends[b]
             e == After(worker'.actions, clock, b, end)
  <2>2. /\ w \in Nat /\ w <= clock + Longest /\ (w = 0 \/ w > clock) /\ gSentDeadline'[b] = w
        /\ s \in Nat
    BY <1>1, <1>3, WantBounds, PlannedTable
  <2>3. clock' = clock /\ hal' = hal /\ worker.pc = "wait"
    BY <1>3 DEF plan_locked
  <2>4. Coming(b) = end /\ end \in Nat
    BY <2>3, ComingWaiting
  <2>5. Coming(b)' = e
    BY <2>3 DEF Coming
  <2>6. e = After(PlanFor(b, clock), clock, b, end) /\ worker'.actions \in Seq(Action)
    BY <1>3, <2>4, Planned
  <2>7. e \in Nat
    BY <1>1, <2>4, <2>6, AllCalls
  <2>8. LET a == After(PlanFor(b, clock), clock, b, end)
        IN  /\ (s > clock /\ w = s) \/ (s <= clock /\ w = 0) => a = end
            /\ s > clock /\ w = 0 => a = 0
            /\ w # 0 /\ ~(s > clock /\ w = s) => a >= w
            /\ w # 0 /\ ~(s > clock /\ w = s) => a < w + UnitsPerMs \/ (a = end /\ ~(s > clock /\ w < s))
    BY <2>2, <2>4, AfterPlan
  <2>9. IF s > clock THEN end >= s /\ end < s + UnitsPerMs ELSE end < clock + UnitsPerMs
    BY <2>1, <2>4 DEF InLine
  <2> HIDE DEF e, w, s, end
  <2>10. /\ (s > clock /\ w = s) \/ (s <= clock /\ w = 0) => e = end
         /\ s > clock /\ w = 0 => e = 0
         /\ w # 0 /\ ~(s > clock /\ w = s) => e >= w
         /\ w # 0 /\ ~(s > clock /\ w = s) => e < w + UnitsPerMs \/ (e = end /\ ~(s > clock /\ w < s))
    BY <2>6, <2>8
  <2>11. IF w > clock THEN e >= w /\ e < w + UnitsPerMs ELSE e < clock + UnitsPerMs
    <3>1. CASE w = 0
      BY <1>1, <2>2, <2>4, <2>9, <2>10, <3>1
    <3>2. CASE w # 0 /\ s > clock /\ w = s
      BY <1>1, <2>2, <2>4, <2>9, <2>10, <3>2
    <3>3. CASE w # 0 /\ ~(s > clock /\ w = s)
      <4>1. w > clock /\ e >= w
        BY <2>2, <2>10, <3>3
      <4>2. e < w + UnitsPerMs
        BY <1>1, <2>2, <2>4, <2>7, <2>9, <2>10, <3>3
      <4> QED BY <4>1, <4>2
    <3> QED BY <3>1, <3>2, <3>3
  <2> QED BY <2>2, <2>3, <2>5, <2>11
<1>4. CASE SetBoost
  <2>1. clock' = clock /\ gSentDeadline' = gSentDeadline /\ clean' = clean
    BY <1>4 DEF SetBoost, history
  <2>2. \A b \in Boosts : Coming(b)' = Coming(b)
    BY <1>4, ComingCalled
  <2> QED BY <2>1, <2>2 DEF InLine
<1>5. CASE LookupFails \/ SetBoostFails \/ HalDies
  <2>1. clean' = FALSE
    BY <1>5, FailedSteps, Zenon DEF HalDies
  <2> QED BY <2>1 DEF InLine
<1>6. CASE HalStarts
  <2>1. /\ clock' = clock /\ gSentDeadline' = gSentDeadline /\ worker' = worker /\ clean' = clean
        /\ hal'.ends = hal.ends
    BY <1>6 DEF HalStarts, Ranges, history
  <2> QED BY <2>1 DEF InLine, Coming
<1>7. CASE Tick
  <2>1. /\ clock' = clock + 1 /\ gSentDeadline' = gSentDeadline /\ worker' = worker /\ clean' = clean
        /\ hal' = hal /\ worker.pc = "wait"
    BY <1>7 DEF Tick, history
  <2>2. SUFFICES ASSUME clean, NEW b \in Boosts
        PROVE  IF gSentDeadline[b] > clock + 1
                 THEN Coming(b)' >= gSentDeadline[b] /\ Coming(b)' < gSentDeadline[b] + UnitsPerMs
                 ELSE Coming(b)' < clock + 1 + UnitsPerMs
    BY <2>1 DEF InLine
  <2> DEFINE s == gSentDeadline[b]
             end == hal.ends[b]
  <2>3. worker.actions = <<>> /\ Coming(b) = end /\ end \in Nat /\ s \in Nat
    BY <1>1, <2>1, ComingWaiting
  <2>4. Coming(b)' = end
    BY <2>1, <2>3, NoCalls DEF Coming
  <2>5. IF s > clock THEN end >= s /\ end < s + UnitsPerMs ELSE end < clock + UnitsPerMs
    BY <2>2, <2>3 DEF InLine
  <2> HIDE DEF s, end
  <2>6. IF s > clock + 1 THEN end >= s /\ end < s + UnitsPerMs ELSE end < clock + 1 + UnitsPerMs
    BY <1>1, <2>3, <2>5
  <2> QED BY <2>4, <2>6 DEF s
<1> QED BY <1>2, <1>3, <1>4, <1>5, <1>6, <1>7, Steps, Zenon

-----------------------------------------------------------------------------
(* The theorems. *)

\* The initial state: an empty table, nothing sent, nothing running.
LEMMA InitHints == Init => HintsInv
<1> SUFFICES ASSUME Init PROVE HintsInv
  OBVIOUS
<1>1. /\ clock = 1 /\ gRequests = [i \in Slots |-> Free] /\ gSentDeadline = [b \in Boosts |-> 0]
      /\ gDirty = FALSE /\ gNextHandle = kFirstHandle /\ caller = [c \in Callers |-> 0]
      /\ worker = [pc |-> "wait", actions |-> <<>>] /\ power = "none" /\ failures = 0
      /\ hal = [up |-> TRUE, ends |-> [b \in Boosts |-> 0]]
      /\ faults = 0 /\ clean = TRUE /\ attempts = 0
  BY DEF Init
<1>2. Free \in RequestRecord /\ Free.handle = 0 /\ Free.deadline = 0
  BY FreeRequest
<1>3. Longest \in Nat /\ UnitsPerMs \in Nat \ {0} /\ MaxClock \in Nat \ {0} /\ MaxFaults \in Nat
  BY LongestBounds, HintsAssumption
<1>4. Ranges
  <2>1. clock \in Nat \ {0} /\ failures \in 0..2 /\ faults \in Nat /\ attempts \in 0..3
    BY <1>1
  <2>2. kFirstHandle \in Handles
    BY HintsAssumption DEF Handles
  <2>3. /\ gRequests \in [Slots -> RequestRecord] /\ gSentDeadline \in [Boosts -> Nat]
        /\ caller \in [Callers -> Nat] /\ worker \in [pc : {"wait", "send"}, actions : Seq(Action)]
        /\ hal \in [up : BOOLEAN, ends : [Boosts -> Nat]]
    BY <1>1, <1>2
  <2> QED BY <1>1, <2>1, <2>2, <2>3, Zenon DEF Ranges
<1>5. Limits
  BY <1>1, <1>2, <1>3 DEF Limits, Within
<1>6. Distinct /\ Retries
  BY <1>1, <1>2 DEF Distinct, Retries
<1>7. ASSUME NEW b \in Boosts PROVE Want(b, clock) = 0 /\ gSentDeadline[b] = 0 /\ Coming(b) = 0
  <2>1. Live(gRequests, b, clock) = {}
    BY <1>1, <1>2 DEF Live
  <2>2. {} \in SUBSET Nat /\ \A d \in {} : d <= 1
    OBVIOUS
  <2>3. Latest({}) \in {} \cup {0}
    BY <2>2, LatestLive
  <2>4. Want(b, clock) = 0
    BY <2>1, <2>3, WantLive
  <2>5. Coming(b) = hal.ends[b]
    BY <1>1, <1>4, <1>5, ComingWaiting
  <2> QED BY <1>1, <2>4, <2>5
<1>8. Sent /\ Covered /\ InLine
  BY <1>1, <1>3, <1>7, SMTT(30) DEF Sent, Covered, InLine
<1> QED BY <1>4, <1>5, <1>6, <1>8 DEF HintsInv

\* The inductive invariant.
THEOREM HintsInvariant == Spec => []HintsInv
<1>1. Init => HintsInv
  BY InitHints
<1>2. HintsInv /\ [Next]_vars => HintsInv'
  BY RangesKept, LimitsKept, DistinctKept, RetriesKept, SentKept, CoveredKept, InLineKept DEF HintsInv
<1> QED BY <1>1, <1>2, PTL DEF Spec

\* camera_hint_acquire, next_handle_locked: whatever CamX's threads ask for, and however often
\* gNextHandle wrapped around, two requests in the table never share a handle, and every
\* variable keeps its type and bounds.
THEOREM HandlesDistinctHolds == Spec => []HandlesDistinct
<1>1. HintsInv => HandlesDistinct
  <2> SUFFICES ASSUME HintsInv PROVE HandlesDistinct
    OBVIOUS
  <2> USE DEF HintsInv
  <2>1. /\ clock \in Nat \ {0} /\ clock <= MaxClock /\ MaxClock \in Nat /\ faults \in Nat /\ faults <= MaxFaults
        /\ MaxFaults \in Nat /\ Longest \in Nat
    BY LongestBounds, HintsAssumption DEF Ranges, Limits
  <2>2. clock \in 1..MaxClock /\ faults \in 0..MaxFaults
    BY <2>1
  <2>3. gRequests \in [Slots -> [handle : Handles \cup {0}, boost : Boosts, deadline : 0..(clock + Longest)]]
    <3>1. /\ gRequests \in [Slots -> RequestRecord]
          /\ \A i \in Slots : gRequests[i].deadline <= clock + Longest
      BY DEF Ranges, Limits
    <3>2. ASSUME NEW i \in Slots
          PROVE  gRequests[i] \in [handle : Handles \cup {0}, boost : Boosts, deadline : 0..(clock + Longest)]
      <4>1. gRequests[i] \in RequestRecord /\ gRequests[i].deadline \in 0..(clock + Longest)
        BY <2>1, <3>1 DEF RequestRecord
      <4> QED BY <4>1 DEF RequestRecord
    <3> QED BY <3>1, <3>2
  <2>4. gSentDeadline \in [Boosts -> 0..(clock + Longest)] /\ caller \in [Callers -> 0..clock]
    BY <2>1 DEF Ranges, Limits
  <2>5. worker.pc \in {"wait", "send"} /\ worker.actions \in Seq([boost : Boosts, ms : Nat \cup {-1}])
    BY DEF Ranges, Action
  <2>6. TypeOK
    BY <2>2, <2>3, <2>4, <2>5, Zenon DEF TypeOK, Ranges, Limits, Longest
  <2> QED BY <2>6 DEF HandlesDistinct, Distinct
<1> QED BY <1>1, HintsInvariant, PTL

\* plan_locked and send: as long as nothing failed, an idle worker leaves each boost running
\* until its last live request ends and less than a millisecond longer; whatever failed, no
\* boost runs for longer than the longest request.
THEOREM HalInLineHolds == Spec => []HalInLine
<1>1. HintsInv => HalInLine
  <2> SUFFICES ASSUME HintsInv, NEW b \in Boosts
      PROVE  /\ hal.ends[b] <= clock + Longest
             /\ Idle /\ clean =>
                  IF Want(b, clock) = 0 THEN hal.ends[b] < clock + UnitsPerMs
                  ELSE hal.ends[b] \in Want(b, clock)..(Want(b, clock) + UnitsPerMs - 1)
    BY DEF HalInLine, Longest
  <2> USE DEF HintsInv
  <2>1. hal.ends[b] <= clock + Longest
    BY DEF Limits
  <2>2. SUFFICES ASSUME Idle, clean
        PROVE  IF Want(b, clock) = 0 THEN hal.ends[b] < clock + UnitsPerMs
               ELSE hal.ends[b] \in Want(b, clock)..(Want(b, clock) + UnitsPerMs - 1)
    BY <2>1
  <2> DEFINE s == gSentDeadline[b]
             end == hal.ends[b]
  <2>3. Want(b, clock) = IF s > clock THEN s ELSE 0
    BY <2>2 DEF Idle, Retries, Sent
  <2>4. Coming(b) = end /\ end \in Nat
    BY <2>2, ComingWaiting DEF Idle
  <2>5. IF s > clock THEN end >= s /\ end < s + UnitsPerMs ELSE end < clock + UnitsPerMs
    BY <2>2, <2>4 DEF InLine
  <2>6. s \in Nat /\ clock \in Nat /\ UnitsPerMs \in Nat
    BY HintsAssumption DEF Ranges
  <2> HIDE DEF s, end
  <2>7. IF (IF s > clock THEN s ELSE 0) = 0 THEN end < clock + UnitsPerMs
        ELSE end \in s..(s + UnitsPerMs - 1)
    BY <2>4, <2>5, <2>6
  <2> QED BY <2>3, <2>6, <2>7 DEF end
<1> QED BY <1>1, HintsInvariant, PTL

\* worker_main: after any crashes and failed calls, an idle worker whose last attempt succeeded
\* has left no live request without its boost, and no hint is tried more than twice.
THEOREM CoveredAfterSuccessHolds == Spec => []CoveredAfterSuccess
<1>1. HintsInv => CoveredAfterSuccess
  <2> SUFFICES ASSUME HintsInv PROVE CoveredAfterSuccess
    OBVIOUS
  <2> USE DEF HintsInv
  <2>1. attempts <= 2
    BY DEF Retries
  <2>2. ASSUME Idle, failures = 0, power # "dead", NEW b \in Boosts
        PROVE  hal.ends[b] >= Want(b, clock)
    <3>1. Want(b, clock) = IF gSentDeadline[b] > clock THEN gSentDeadline[b] ELSE 0
      BY <2>2 DEF Idle, Sent
    <3>2. Coming(b) = hal.ends[b] /\ hal.ends[b] \in Nat
      BY <2>2, ComingWaiting DEF Idle
    <3>3. gSentDeadline[b] <= clock \/ hal.ends[b] >= gSentDeadline[b]
      BY <2>2, <3>2 DEF Covered
    <3>4. gSentDeadline[b] \in Nat /\ clock \in Nat
      BY DEF Ranges
    <3> QED BY <3>1, <3>2, <3>3, <3>4
  <2> QED BY <2>1, <2>2 DEF CoveredAfterSuccess
<1> QED BY <1>1, HintsInvariant, PTL

=============================================================================
