---------------------------- MODULE MCRunnerStep ----------------------------
(* Small instances of RunnerStep for TLC.                                   *)
EXTENDS RunnerStep

CONSTANTS r1, r2, l1, l2
Prompts == [r \in Req |-> 3]
Limits == [r \in Req |-> 4]
Equal == [l \in Layer |-> Budget]
Uneven == [l \in Layer |-> IF l = l1 THEN Budget ELSE Budget - 1]
AnyLengths == {Equal, Uneven}
=============================================================================
