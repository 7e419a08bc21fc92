---------------------------- MODULE StatusSource ----------------------------
(* What AudioServerMonitor promises the slots: whether audioserver runs, a   *)
(* number that counts the changes, and whether rejected parameters may be    *)
(* tried again.                                                              *)
EXTENDS Naturals

VARIABLES status, sequence, recovering

sourceVars == <<status, sequence, recovering>>

Statuses == {"GENERIC_FAILURE", "STATUS_OK", "STATUS_SERVER_DIED"}

SourceTypeOK == status \in Statuses /\ sequence \in Nat /\ recovering \in BOOLEAN

SourceInit == status \in {"GENERIC_FAILURE", "STATUS_OK"} /\ sequence = 0 /\ recovering = FALSE

\* audioserver is back; the retry window is open, or over already.
Back ==
    /\ status # "STATUS_OK"
    /\ status' = "STATUS_OK"
    /\ sequence' = sequence + 1
    /\ recovering' \in BOOLEAN

\* audioserver died: a change that is only published once the window is closed.
Died ==
    /\ status = "STATUS_OK" /\ ~recovering
    /\ status' = "STATUS_SERVER_DIED"
    /\ sequence' = sequence + 1
    /\ UNCHANGED recovering

\* The retry window closes.
Closed == recovering /\ recovering' = FALSE /\ UNCHANGED <<status, sequence>>

SourceNext == Back \/ Died \/ Closed

SourceSpec == SourceInit /\ [][SourceNext]_sourceVars
=============================================================================
