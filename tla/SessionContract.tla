-------------------------- MODULE SessionContract --------------------------
(***************************************************************************)
(* What fingerprint sessions promise the framework (the class comment of   *)
(* fingerprint/Session.h), without threads, locks or the module: in each   *)
(* session operations start one after the other, the running one may end   *)
(* once with a result that its kind allows, an operation that was replaced *)
(* never ends, and a detached session does nothing more.                   *)
(***************************************************************************)
EXTENDS Naturals, Sequences

CONSTANTS Sessions, OpKinds, OpIds

VARIABLES
    op,             \* each session's latest operation, 0 before the first
    kind,           \* its kind
    ended,          \* it has its result, or there is none
    detached,       \* closed, replaced or its client died
    results         \* the results given for each operation

contractVars == <<op, kind, ended, detached, results>>

\* Any operation may fail, be cancelled or not be processed; a kind of operation
\* has its own results besides.
Failures == {"Error", "Canceled", "UnableToProcess"}
Endings ==
    {<<"Enroll", "EnrollmentDone">>, <<"Authenticate", "Succeeded">>, <<"Authenticate", "Lockout">>,
     <<"DetectInteraction", "InteractionDetected">>, <<"DetectInteraction", "Lockout">>,
     <<"Enumerate", "Enumerated">>, <<"Remove", "Removed">>,
     <<"InvalidateAuthenticatorId", "Invalidated">>, <<"ResetLockout", "LockoutCleared">>}
Terminal(k) == Failures \cup {e[2] : e \in {d \in Endings : d[1] = k}}

Init ==
    /\ op = [s \in Sessions |-> 0]
    /\ kind = [s \in Sessions |-> "None"]
    /\ ended = [s \in Sessions |-> TRUE]
    /\ detached = [s \in Sessions |-> FALSE]
    /\ results = [s \in Sessions |-> [o \in OpIds |-> <<>>]]

Start(s) ==
    /\ ~detached[s]
    /\ op' = [op EXCEPT ![s] = @ + 1]
    /\ \E k \in OpKinds : kind' = [kind EXCEPT ![s] = k]
    /\ ended' = [ended EXCEPT ![s] = FALSE]
    /\ UNCHANGED <<detached, results>>

End(s) ==
    /\ ~detached[s] /\ ~ended[s]
    /\ ended' = [ended EXCEPT ![s] = TRUE]
    /\ \E r \in Terminal(kind[s]) : results' = [results EXCEPT ![s][op[s]] = <<r>>]
    /\ UNCHANGED <<op, kind, detached>>

Detach(s) ==
    /\ detached' = [detached EXCEPT ![s] = TRUE]
    /\ UNCHANGED <<op, kind, ended, results>>

Next == \E s \in Sessions : Start(s) \/ End(s) \/ Detach(s)

Spec == Init /\ [][Next]_contractVars
=============================================================================
