---------------------------- MODULE MCKVCompression ----------------------------
(* Small instances of KVCompression for TLC.                                    *)
EXTENDS KVCompression, TLC

CONSTANTS r1, r2, r3
Prompts == [r \in Req |-> IF r = r2 THEN 3 ELSE 2]
Outputs == [r \in Req |-> IF r = r1 THEN 3 ELSE IF r = r2 THEN 2 ELSE 1]
PromptThree == [r \in Req |-> 3]
=============================================================================
