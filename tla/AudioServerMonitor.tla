------------------------- MODULE AudioServerMonitor -------------------------
(* AudioServerMonitor.java with Recovery.java: the thread that follows        *)
(* audioserver through servicemanager and a death link. audioserver and      *)
(* servicemanager are external.                                              *)
EXTENDS Naturals

CONSTANT MaxStarts    \* bound: how often audioserver starts

ASSUME MonitorAssumption == MaxStarts \in Nat \ {0}

VARIABLES
    alive,        \* the audioserver that runs, 0 if none
    starts,       \* how many there were
    services,     \* servicemanager: whose media.audio_flinger and media.audio_policy
    status,       \* an AudioError
    sequence,
    window,       \* Recovery.start: "none", or set and "open", or WINDOW_MS ago
    pc,           \* where watch() is
    restarted, flinger, policy,    \* its locals
    okFor         \* history: the audioserver that STATUS_OK was said of

envVars == <<alive, starts, services>>
watchVars == <<pc, restarted, flinger, policy>>
vars == <<envVars, status, sequence, window, watchVars, okFor>>

Servers == 0..MaxStarts
Names == {"flinger", "policy"}

TypeOK ==
    /\ alive \in Servers /\ starts \in Servers
    /\ services \in [Names -> Servers]
    /\ status \in {"GENERIC_FAILURE", "STATUS_OK", "STATUS_SERVER_DIED"}
    /\ sequence \in Nat
    /\ window \in {"none", "open", "over"}
    /\ pc \in {"start", "flinger", "policy", "link", "ping", "pingPolicy", "begin", "publish",
               "await", "died"}
    /\ restarted \in BOOLEAN
    /\ flinger \in Servers /\ policy \in Servers /\ okFor \in Servers

\* The bridge starts while audioserver is down, starting, running, or dead and
\* still listed. The constructor looks for media.audio_flinger.
Init ==
    /\ starts = 1 /\ alive \in {0, 1}
    /\ services \in {[flinger |-> 0, policy |-> 0], [flinger |-> 1, policy |-> 0],
                     [flinger |-> 1, policy |-> 1]}
    /\ status = IF services.flinger # 0 THEN "STATUS_OK" ELSE "GENERIC_FAILURE"
    /\ sequence = 0 /\ window = "none"
    /\ pc = "start" /\ restarted = FALSE /\ flinger = 0 /\ policy = 0
    /\ okFor = services.flinger

-----------------------------------------------------------------------------
(* audioserver and servicemanager.                                           *)

Boot ==
    /\ alive = 0 /\ starts < MaxStarts
    /\ starts' = starts + 1 /\ alive' = starts + 1
    /\ UNCHANGED services

\* audioserver registers media.audio_flinger, then media.audio_policy.
Register(n) ==
    /\ alive # 0 /\ services[n] # alive
    /\ n = "policy" => services.flinger = alive
    /\ services' = [services EXCEPT ![n] = alive]
    /\ UNCHANGED <<alive, starts>>

Crash == alive # 0 /\ alive' = 0 /\ UNCHANGED <<starts, services>>

\* servicemanager learns of a death later than the processes linked to it may.
Forget(n) ==
    /\ services[n] \notin {0, alive}
    /\ services' = [services EXCEPT ![n] = 0]
    /\ UNCHANGED <<alive, starts>>

Environment ==
    /\ Boot \/ Crash \/ \E n \in Names : Register(n) \/ Forget(n)
    /\ UNCHANGED <<status, sequence, window, watchVars, okFor>>

-----------------------------------------------------------------------------
(* Recovery and the reads of other threads.                                  *)

active == window = "open"
isRunning == status = "STATUS_OK"
retryAllowed == isRunning /\ active

\* WINDOW_MS have passed since begin().
Expire ==
    /\ window = "open" /\ window' = "over"
    /\ UNCHANGED <<envVars, status, sequence, watchVars, okFor>>

-----------------------------------------------------------------------------
(* watch().                                                                  *)

publish(s) ==
    /\ status' = s
    /\ sequence' = IF s = status THEN sequence ELSE sequence + 1

Start ==
    /\ pc = "start"
    /\ restarted' = (status # "STATUS_OK") /\ pc' = "flinger"
    /\ UNCHANGED <<envVars, status, sequence, window, flinger, policy, okFor>>

\* waitForService, for each of the two.
WaitFlinger ==
    /\ pc = "flinger" /\ services.flinger # 0
    /\ flinger' = services.flinger /\ pc' = "policy"
    /\ UNCHANGED <<envVars, status, sequence, window, restarted, policy, okFor>>

WaitPolicy ==
    /\ pc = "policy" /\ services.policy # 0
    /\ policy' = services.policy /\ pc' = "link"
    /\ UNCHANGED <<envVars, status, sequence, window, restarted, flinger, okFor>>

\* A call on a binder: go on if its process runs, else start over (after
\* unlink and RETRY_MS).
Reach(from, server, to) ==
    /\ pc = from
    /\ pc' = IF server = alive THEN to ELSE "flinger"
    /\ UNCHANGED <<envVars, status, sequence, window, restarted, flinger, policy, okFor>>

Link == Reach("link", flinger, "ping")
PingFlinger == Reach("ping", flinger, "pingPolicy")

PingPolicy == Reach("pingPolicy", policy, "begin")

Begin ==
    /\ pc = "begin" /\ pc' = "publish"
    /\ window' = IF restarted THEN "open" ELSE window
    /\ UNCHANGED <<envVars, status, sequence, restarted, flinger, policy, okFor>>

PublishOk ==
    /\ pc = "publish" /\ pc' = "await"
    /\ publish("STATUS_OK")
    /\ okFor' = IF status = "STATUS_OK" THEN okFor ELSE flinger
    /\ UNCHANGED <<envVars, window, restarted, flinger, policy>>

\* Mutant: the window stays open.
AwaitOnly ==
    /\ pc = "await" /\ flinger # alive /\ pc' = "died"
    /\ UNCHANGED <<envVars, status, sequence, window, restarted, flinger, policy, okFor>>

\* The death notice of the linked media.audio_flinger.
Await ==
    /\ pc = "await" /\ flinger # alive /\ pc' = "died"
    /\ window' = "none"
    /\ UNCHANGED <<envVars, status, sequence, restarted, flinger, policy, okFor>>

\* Mutant: the death is noted, not published.
PublishNothing ==
    /\ pc = "died" /\ pc' = "flinger" /\ restarted' = TRUE
    /\ UNCHANGED <<envVars, status, sequence, window, flinger, policy, okFor>>

PublishDied ==
    /\ pc = "died" /\ pc' = "flinger"
    /\ publish("STATUS_SERVER_DIED")
    /\ restarted' = TRUE
    /\ UNCHANGED <<envVars, window, flinger, policy, okFor>>

Watch ==
    \/ Start \/ WaitFlinger \/ WaitPolicy \/ Link \/ PingFlinger \/ PingPolicy
    \/ Begin \/ PublishOk \/ Await \/ PublishDied

Next == Environment \/ Expire \/ Watch

Spec == Init /\ [][Next]_vars

\* The monitor's thread is never blocked but in waitForService and await.
FairSpec == Spec /\ WF_vars(Watch)

-----------------------------------------------------------------------------
(* Properties.                                                               *)

Source == INSTANCE StatusSource WITH recovering <- retryAllowed

\* The listeners see STATUS_OK and STATUS_SERVER_DIED in turn, each change
\* numbered once, and no rejected setParameters is retried once the death of
\* audioserver is known.
KeepsSource == Source!SourceSpec

\* While audioserver is linked, a retry window is open only for one that was not
\* the first the bridge met running, and that registered both of its services.
WindowIsEarned ==
    active /\ pc = "await" => restarted /\ policy = flinger /\ okFor = flinger

\* STATUS_OK does not outlive an audioserver that is gone for good, if the bridge
\* had linked to it.
DeathIsPublished ==
    (pc = "await" /\ alive # flinger) ~> status = "STATUS_SERVER_DIED"
=============================================================================
