---------------------------- MODULE LogicalCache ----------------------------
(***************************************************************************)
(* What KV compression promises a request, without blocks, tables, plans   *)
(* or batches: a cache of its own tokens that grows at the end and may     *)
(* once in a while shrink to Budget of the tokens it holds, chosen by the  *)
(* method, in their original order.  Nothing is ever inserted, reordered,  *)
(* taken from another request or lost outside a compaction.                *)
(***************************************************************************)
EXTENDS Integers, Sequences, FiniteSets

CONSTANTS Req, Budget, Threshold

VARIABLES
  cache, \* per request, the semantic positions held, in cache order
  seen   \* per request, the semantic tokens processed so far

vars == <<cache, seen>>

Positions(from, to) == [i \in 1..to - from |-> from + i - 1]

(* s is what remains of c when some entries are left out.                   *)
Retained(c, K) == [i \in 1..Budget |-> c[CHOOSE j \in K : Cardinality({l \in K : l <= j}) = i]]
Compactions(c) ==
  IF Len(c) < Threshold THEN {}
  ELSE {Retained(c, K) : K \in {K \in SUBSET DOMAIN c : Cardinality(K) = Budget}}

Same(r) == cache'[r] = cache[r] /\ seen'[r] = seen[r]

(* The request is dropped: finished, aborted or preempted.                  *)
Dropped(r) == cache'[r] = <<>> /\ seen'[r] = 0

(* The batch ran tokens of r and may have compacted the cache they are in.  *)
CompactedOrNot(r, c) == cache'[r] \in {c} \cup Compactions(c)

(* A prefill from position 0 on, cached prefix blocks included.             *)
Started(r) == seen'[r] > 0 /\ CompactedOrNot(r, Positions(0, seen'[r]))

(* The next chunk, behind what the cache holds.                             *)
Extended(r) ==
  /\ seen[r] > 0 /\ seen'[r] > seen[r]
  /\ CompactedOrNot(r, cache[r] \o Positions(seen[r], seen'[r]))

Init == cache = [r \in Req |-> <<>>] /\ seen = [r \in Req |-> 0]

Batch == \A r \in Req : Same(r) \/ Dropped(r) \/ Started(r) \/ Extended(r)

Spec == Init /\ [][Batch]_vars
=============================================================================
