---------------------------- MODULE MCSlotClient ----------------------------
(* Bounds for the TLC runs of SlotClient. *)
EXTENDS SlotClient

Scenario(a, d, t, c, o) ==
    [activations |-> a, daemons |-> d, tokens |-> t, changes |-> c, objects |-> o]

\* The slot goes on, off and on again, or off with a third Request in use; or
\* the daemon calls while it stays on, more often than there is room for, or
\* while the status changes.
LifecycleAndCalls == {Scenario(3, 2, 0, 0, 2), Scenario(2, 2, 0, 0, 3),
                      Scenario(1, 1, 3, 0, 2), Scenario(1, 1, 2, 1, 2)}

\* The slot stays on; the daemon and audioserver come and go.
StaysOn == {Scenario(1, 2, 0, 2, 3)}
=============================================================================
