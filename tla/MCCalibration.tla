--------------------------- MODULE MCCalibration ---------------------------
(* Small instances of Calibration for TLC.                                  *)
EXTENDS Calibration

CONSTANTS s1, s2, c1, c2, m1, m2
SameModel == [p \in Proc |-> m1]
TwoModels == [p \in Proc |-> IF p \in {s2, c2} THEN m2 ELSE m1]

Complete(m) == [model |-> m, id |-> 0, whole |-> TRUE, synced |-> TRUE]
Torn == [model |-> m1, id |-> 0, whole |-> FALSE, synced |-> FALSE]
Missing == {None}
SomeFile == {None, Torn, Complete(m2), Complete(Unbound)}
=============================================================================
