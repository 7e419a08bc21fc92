----------------------------- MODULE StatusRelay -----------------------------
(* StatusRelay.java: which audioserver status a slot reports to the radio     *)
(* daemon. One thread uses it, so each method is a function of its state.    *)
EXTENDS Naturals

AudioErrors == {"GENERIC_FAILURE", "STATUS_OK", "STATUS_SERVER_DIED"}

Relays ==
    [status : AudioErrors, sequence : Nat, lastSent : AudioErrors \cup {"NONE"},
     missed : AudioErrors \cup {"NONE"}, registered : BOOLEAN]

NewRelay(s, n) ==
    [status |-> s, sequence |-> n, lastSent |-> "NONE", missed |-> "NONE", registered |-> FALSE]

\* Mutant: a status that was not received and is over is forgotten.
pendingCurrent(x) == IF x.registered /\ x.status # x.lastSent THEN x.status ELSE "NONE"

pending(x) ==
    IF ~x.registered THEN "NONE" ELSE IF x.status # x.lastSent THEN x.status ELSE x.missed

\* Mutant: the order of updates is trusted.
onAudioStatusUnordered(x, s, n) == [x EXCEPT !.status = s, !.sequence = n]

onAudioStatus(x, s, n) ==
    IF n <= x.sequence THEN x ELSE [x EXCEPT !.status = s, !.sequence = n]

onRegistered(x) == [x EXCEPT !.registered = TRUE, !.lastSent = "NONE", !.missed = "NONE"]

onUnregistered(x) == [x EXCEPT !.registered = FALSE]

onSent(x, s) == [x EXCEPT !.lastSent = s, !.missed = "NONE"]

onSendFailed(x, s) == IF s # x.lastSent THEN [x EXCEPT !.missed = s] ELSE x
=============================================================================
