---------------------------- MODULE MonitorProofs ----------------------------
(* The monitor's thread keeps the promise that the slots rely on, however     *)
(* often audioserver starts and crashes.                                     *)
EXTENDS AudioServerMonitor, TLAPS

\* The places of watch() before audioserver is known to run.
Looking == {"flinger", "policy", "link", "ping", "pingPolicy", "begin"}

\* What holds between the steps of watch(): the status agrees with where the
\* thread is, and a restart is only assumed after one was published or the bridge
\* started alone.
WatchInv ==
    /\ pc \in Looking /\ restarted => status # "STATUS_OK"
    /\ pc = "publish" /\ restarted => status # "STATUS_OK"
    /\ pc \in {"await", "died"} => status = "STATUS_OK"
    /\ pc = "died" => window = "none"
    /\ window = "open" => pc \in {"publish", "await"} /\ restarted

\* Whose binders the thread holds: only the latest audioserver answers, so the two
\* it could reach, one after the other, are of one audioserver.
OwnerInv ==
    /\ alive \in {0, starts} /\ \A n \in Names : services[n] <= starts
    /\ flinger <= starts /\ policy <= starts
    /\ pc \in {"link", "ping", "pingPolicy"} => flinger # 0 /\ policy # 0
    /\ pc = "policy" => flinger # 0
    /\ pc \in {"ping", "pingPolicy"} => policy <= flinger
    /\ pc \in {"begin", "publish", "await"} => policy = flinger
    /\ pc = "await" /\ restarted => okFor = flinger

IInv == TypeOK /\ WatchInv /\ OwnerInv

\* The constructor establishes the invariant.
LEMMA InitInv == Init => IInv
<1> SUFFICES ASSUME Init
             PROVE  IInv
  OBVIOUS
<1>1. 0 \in Servers /\ 1 \in Servers
  BY MonitorAssumption DEF Servers
<1>2. services \in [Names -> {0, 1}]
  BY DEF Init, Names
<1>3. okFor \in {0, 1}
  BY <1>2 DEF Init, Names
<1>4. TypeOK
  BY <1>1, <1>2, <1>3 DEF Init, TypeOK
<1>5. WatchInv
  BY DEF Init, WatchInv, Looking
<1>6. OwnerInv
  BY <1>2 DEF Init, OwnerInv, Names
<1> QED
  BY <1>4, <1>5, <1>6 DEF IInv

\* audioserver and servicemanager do not touch the monitor.
LEMMA EnvironmentKeeps ==
    ASSUME IInv, Environment
    PROVE  IInv'
<1>1. UNCHANGED <<status, sequence, window, watchVars, okFor>>
  BY DEF Environment
<1>2. WatchInv'
  BY <1>1 DEF IInv, WatchInv, watchVars
<1>3. alive' \in Servers /\ starts' \in Servers /\ services' \in [Names -> Servers]
  BY MonitorAssumption DEF Environment, Boot, Crash, Register, Forget, IInv, TypeOK, Servers, Names
<1>4. OwnerInv'
  BY <1>1, MonitorAssumption
  DEF Environment, Boot, Crash, Register, Forget, IInv, TypeOK, OwnerInv, Servers, Names, watchVars
<1> QED
  BY <1>1, <1>2, <1>3, <1>4 DEF IInv, TypeOK, watchVars

\* Every step of watch() keeps the invariant.
LEMMA WatchKeeps ==
    ASSUME IInv, Watch
    PROVE  IInv'
<1> USE DEF IInv, TypeOK, WatchInv, OwnerInv, Looking, Servers, envVars
<1>1. CASE Start
  BY <1>1 DEF Start
<1>2. CASE WaitFlinger
  BY <1>2 DEF WaitFlinger, Names
<1>3. CASE WaitPolicy
  BY <1>3 DEF WaitPolicy, Names
<1>4. CASE Link
  BY <1>4 DEF Link, Reach
<1>5. CASE PingFlinger
  BY <1>5 DEF PingFlinger, Reach
<1>6. CASE PingPolicy
  BY <1>6 DEF PingPolicy, Reach
<1>7. CASE Begin
  BY <1>7 DEF Begin
<1>8. CASE PublishOk
  BY <1>8 DEF PublishOk, publish
<1>9. CASE Await
  BY <1>9 DEF Await
<1>10. CASE PublishDied
  BY <1>10 DEF PublishDied, publish
<1> QED
  BY <1>1, <1>2, <1>3, <1>4, <1>5, <1>6, <1>7, <1>8, <1>9, <1>10 DEF Watch

\* The invariant is inductive.
LEMMA StepKeeps == IInv /\ [Next]_vars => IInv'
<1> SUFFICES ASSUME IInv, [Next]_vars
             PROVE  IInv'
  OBVIOUS
<1>1. CASE Expire
  BY <1>1 DEF Expire, IInv, TypeOK, WatchInv, OwnerInv, Looking, envVars, watchVars
<1>2. CASE UNCHANGED vars
  BY <1>2 DEF vars, IInv, TypeOK, WatchInv, OwnerInv, envVars, watchVars
<1> QED
  BY <1>1, <1>2, EnvironmentKeeps, WatchKeeps DEF Next

\* The invariant holds always.
THEOREM MonitorInvariance == Spec => []IInv
  BY InitInv, StepKeeps, PTL DEF Spec

\* A retry window is open only for an audioserver that came back and registered
\* both of its services.
THEOREM WindowHolds == Spec => []WindowIsEarned
<1>1. IInv => WindowIsEarned
  BY DEF IInv, WatchInv, OwnerInv, WindowIsEarned, active
<1> QED
  BY <1>1, MonitorInvariance, PTL

\* AudioServerMonitor implements StatusSource: listeners see STATUS_OK and
\* STATUS_SERVER_DIED in turn, numbered without gaps, and the retry window is
\* closed before a death is published.
THEOREM MonitorKeepsSource == Spec => KeepsSource
<1>1. Init => Source!SourceInit
  BY DEF Init, Source!SourceInit, retryAllowed, isRunning, active
<1>2. IInv /\ [Next]_vars => [Source!SourceNext]_(Source!sourceVars)
  <2> SUFFICES ASSUME IInv, [Next]_vars
               PROVE  Source!SourceNext \/ UNCHANGED Source!sourceVars
    OBVIOUS
  <2> USE DEF retryAllowed, isRunning, active, Source!sourceVars
  <2>1. CASE UNCHANGED <<status, sequence, window>>
    BY <2>1
  <2>2. CASE Expire
    BY <2>2 DEF Expire, Source!SourceNext, Source!Closed
  <2>3. CASE Begin
    BY <2>3 DEF Begin, IInv, WatchInv, Looking
  <2>4. CASE PublishOk
    BY <2>4 DEF PublishOk, publish, IInv, TypeOK, Source!SourceNext, Source!Back
  <2>5. CASE Await
    BY <2>5 DEF Await, Source!SourceNext, Source!Closed
  <2>6. CASE PublishDied
    BY <2>6 DEF PublishDied, publish, IInv, WatchInv, Source!SourceNext, Source!Died
  <2>7. CASE Start \/ WaitFlinger \/ WaitPolicy \/ Link \/ PingFlinger \/ PingPolicy \/ Environment
             \/ UNCHANGED vars
    <3>1. UNCHANGED <<status, sequence, window>>
      BY <2>7 DEF Start, WaitFlinger, WaitPolicy, Link, PingFlinger, PingPolicy, Reach, Environment,
                  vars
    <3> QED
      BY <2>1, <3>1
  <2> QED
    BY <2>2, <2>3, <2>4, <2>5, <2>6, <2>7 DEF Next, Watch
<1> QED
  BY <1>1, <1>2, MonitorInvariance, PTL DEF Spec, KeepsSource, Source!SourceSpec
=============================================================================
