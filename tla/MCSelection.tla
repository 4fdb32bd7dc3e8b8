----------------------------- MODULE MCSelection -----------------------------
(* Small instances of Selection for TLC: windows of up to MaxWindow tokens at*)
(* either end, and one to MaxSegments segments.                             *)
EXTENDS Selection

CONSTANTS MaxWindow, MaxSegments
AllConfigs ==
  {c \in [policy : {"global", "v3"}, npu : BOOLEAN, prefix : 0..MaxWindow,
          recent : 0..MaxWindow, segments : 1..MaxSegments] :
     c.policy = "global" => ~c.npu /\ c.segments = 1}
=============================================================================
