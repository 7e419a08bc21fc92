--------------------------- MODULE MCFingerprint ---------------------------
(* Constants for the TLC runs of Fingerprint. *)
EXTENDS Fingerprint, TLC

CONSTANTS s1, s2, b1, b2, r1, r2

OneUser == [s \in Sessions |-> 1]
TwoUsers == [s \in Sessions |-> IF s = s1 THEN 1 ELSE 2]

NoTemplates == {[u \in Users |-> {}]}
OneTemplate == {[u \in Users |-> {1}]}

Removals == {<<1, 0, 2>>, <<2>>}

ThreadSymmetry == Permutations(Binders) \cup Permutations(Rearmers)
=============================================================================
