------------------------------ MODULE Selection ------------------------------
(***************************************************************************)
(* Which tokens TriAttention keeps, again and again, of one request's      *)
(* cache: the global policy, the V3 policy segment by segment, and its     *)
(* batched form on the NPU.  The scores are any scores.  Equal scores make *)
(* topk a choice, so a policy is the set of selections it may make.        *)
(*                                                                         *)
(* The cache is the sequence of the tokens it holds, named by their        *)
(* position in the request.  A selection is of indices, from 0 as in the   *)
(* code.                                                                   *)
(***************************************************************************)
EXTENDS Integers, Sequences, FiniteSets, SequencesExt

CONSTANTS
  Configs,    \* position_policy, device, protected windows and segments
  Budget,     \* kv_budget
  Threshold,  \* compression_threshold_tokens
  Score,      \* aggregated scores after nan_to_num_
  MaxPrompt,  \* bound: tokens of the prompt
  MaxTokens   \* bound: tokens of the request

Config == [policy : {"global", "v3"}, npu : BOOLEAN,
           prefix : Nat, recent : Nat, segments : Nat \ {0}]

ASSUME ConfigAssumption ==
  \A c \in Configs : c \in Config /\ c.prefix + c.recent <= Budget
ASSUME BoundAssumption ==
  /\ {Budget, Threshold, MaxPrompt, MaxTokens} \subseteq Nat \ {0}
  /\ Budget < Threshold /\ MaxPrompt <= MaxTokens
  /\ Score \subseteq Nat /\ IsFiniteSet(Score)

VARIABLES
  config,
  tokens,  \* tokens of the request
  cache,   \* the tokens whose keys and values the cache holds
  last,    \* scores of the last compression and what it kept, <<>> if none
  raised   \* "V3 selected ..., expected exactly ..."

vars == <<config, tokens, cache, last, raised>>

Ascending(s) == \A i \in 1..Len(s) - 1 : s[i] < s[i + 1]
Indices(scores) == 0..Len(scores) - 1
At(scores, i) == scores[i + 1]

(* The windows at both ends; the configuration keeps them within the budget.*)
Protected(n) == 0..config.prefix - 1 \cup n - config.recent..n - 1

(* torch.topk of the indices S by value.                                    *)
TopK(S, k, value) ==
  {T \in kSubset(k, S) : \A t \in T, u \in S \ T : value[t] >= value[u]}

(* The values of torch.sort: the r-th one has r - 1 entries ahead of it.    *)
Ahead(s, i) == {j \in 1..Len(s) : s[j] < s[i] \/ (s[j] = s[i] /\ j < i)}
SortValues(s) ==
  [r \in 1..Len(s) |-> s[CHOOSE i \in 1..Len(s) : Cardinality(Ahead(s, i)) = r - 1]]

(* Policy "global": the windows have an infinite score.                     *)
RankedBare(scores, i) == At(scores, i) \* mutant: they keep their own
Ranked(scores, i) ==
  IF i \in Protected(Len(scores)) THEN Max(Score) + 1 ELSE At(scores, i)
GlobalKept(scores) ==
  TopK(Indices(scores), Budget, [i \in Indices(scores) |-> Ranked(scores, i)])

----------------------------------------------------------------------------
(* Policy "v3", segment by segment.                                         *)
Middle(n) == n - config.prefix - config.recent
Start(n, s) == config.prefix + (Middle(n) * s) \div config.segments
SegmentIds == 0..config.segments - 1
Segment(n, s) == Start(n, s)..Start(n, s + 1) - 1
EvictFirst(n, b) == Min({n - Budget, b - config.prefix}) \* mutant: the oldest first
EvictedBefore(n, b) == ((n - Budget) * (b - config.prefix)) \div Middle(n)
KeepRounded(n, s) == \* mutant: a quota of its own for each segment
  LET count == Cardinality(Segment(n, s)) IN count - ((n - Budget) * count) \div Middle(n)
KeepCount(n, s) ==
  Cardinality(Segment(n, s))
    - (EvictedBefore(n, Start(n, s + 1)) - EvictedBefore(n, Start(n, s)))
SegmentKept(scores, s) ==
  LET S == Segment(Len(scores), s)
  IN TopK(S, Max({0, KeepCount(Len(scores), s)}), [i \in S |-> At(scores, i)])
V3Kept(scores) ==
  {Protected(Len(scores)) \cup UNION C : C \in Choices({SegmentKept(scores, s) : s \in SegmentIds})}

----------------------------------------------------------------------------
(* The batched form: _v3_batched_plan, for segments of one width without an *)
(* empty quota ...                                                          *)
Width(n) == Middle(n) \div config.segments
Quota(n, s) ==
  Width(n) - ((n - Budget) * ((s + 1) * Width(n))) \div Middle(n)
           + ((n - Budget) * (s * Width(n))) \div Middle(n)
Quotas(n) == {Quota(n, s) : s \in SegmentIds}
Batchable(n) == Middle(n) % config.segments = 0 /\ Min(Quotas(n)) > 0

(* ... one topk over all rows, which orders what it returns by score if the *)
(* quotas differ (if not, the order is lost in the sort that follows) ...   *)
SortNever(n) == FALSE \* mutant: the faster, unordered topk for every shape
SortedTopK(n) == Min(Quotas(n)) # Max(Quotas(n))
RowRanks(scores, s) ==
  LET n == Len(scores)
      value == [i \in 0..Width(n) - 1 |-> At(scores, config.prefix + s * Width(n) + i)]
  IN {q \in UNION {SetToSeqs(T) : T \in TopK(0..Width(n) - 1, Max(Quotas(n)), value)} :
        SortedTopK(n) => \A i \in 1..Len(q) - 1 : value[q[i]] >= value[q[i + 1]]}

(* ... of which each row keeps its quota, in order and shifted to its       *)
(* segment; the ranks behind the quota become the row's width.              *)
Chosen(n, s, q) ==
  LET kept == [r \in DOMAIN q |-> IF r <= Quota(n, s) THEN q[r] ELSE Width(n)]
  IN [r \in DOMAIN q |-> SortValues(kept)[r] + config.prefix + s * Width(n)]

QuotasBefore(n) ==
  LET before[s \in 0..config.segments] ==
        IF s = 0 THEN 0 ELSE before[s - 1] + Quota(n, s - 1)
  IN before

(* The scatter: the ranks behind a quota all write slot 0, in any order, and*)
(* nothing writes the windows, which hold anything until they are filled in.*)
Target(n, s, r) ==
  IF r > Quota(n, s) THEN 0
  ELSE config.prefix + QuotasBefore(n)[s] + r - 1
Writes(n, chosen, t) ==
  {At(chosen, w[1])[w[2]] : w \in
     {v \in SegmentIds \X (1..Max(Quotas(n))) : Target(n, v[1], v[2]) = t}}
Uninitialized == -1
Scattered(n, chosen, t) ==
  IF Writes(n, chosen, t) = {} THEN {Uninitialized} ELSE Writes(n, chosen, t)
FilledNoFirst(n, chosen, t) == \* mutant: slot 0 is not restored
  IF t < config.prefix THEN {t}
  ELSE IF t >= Budget - config.recent THEN {t + n - Budget}
  ELSE Scattered(n, chosen, t)
Filled(n, chosen, t) ==
  IF t < config.prefix THEN {t}
  ELSE IF t >= Budget - config.recent THEN {t + n - Budget}
  ELSE IF t = 0 THEN {At(chosen, 0)[1]}
  ELSE Scattered(n, chosen, t)

Product(sets) == \* the sequences with a member of each of the sets
  {p \in [DOMAIN sets -> UNION Range(sets)] : \A i \in DOMAIN sets : p[i] \in sets[i]}
Results(n, chosen) == Product([i \in 1..Budget |-> Filled(n, chosen, i - 1)])
Rows(scores, s) == {Chosen(Len(scores), s, q) : q \in RowRanks(scores, s)}
BatchedKept(scores) ==
  UNION {Results(Len(scores), chosen) :
           chosen \in Product([i \in 1..config.segments |-> Rows(scores, i - 1)])}

----------------------------------------------------------------------------
(* A prompt, of which nothing is compressed yet.                            *)
Init ==
  /\ config \in Configs
  /\ tokens \in 1..MaxPrompt
  /\ cache = [i \in 1..tokens |-> i - 1]
  /\ last = <<>> /\ raised = FALSE

(* The request grows at its end.                                            *)
Decode ==
  /\ tokens < MaxTokens
  /\ tokens' = tokens + 1
  /\ cache' = Append(cache, tokens)
  /\ last' = <<>>
  /\ UNCHANGED <<config, raised>>

(* select_keep_indices and materialize_token_slots.  The per-segment path   *)
(* refuses windows that leave too few slots, and a selection that has not   *)
(* the size of the budget.                                                  *)
Keep(scores, kept) ==
  /\ cache' = [i \in 1..Len(kept) |-> At(cache, kept[i])]
  /\ last' = [scores |-> scores, kept |-> kept]
  /\ UNCHANGED raised
Batched(scores) == config.policy = "v3" /\ config.npu /\ Batchable(Len(scores))
Sorted(K) == SortValues(SetToSeq(K))

CompressGlobal(scores) ==
  /\ config.policy = "global"
  /\ \E K \in GlobalKept(scores) : Keep(scores, Sorted(K))
CompressBatched(scores) ==
  /\ Batched(scores)
  /\ \E kept \in BatchedKept(scores) : Keep(scores, kept)
CompressV3(scores) ==
  /\ config.policy = "v3" /\ ~Batched(scores)
  /\ \E K \in V3Kept(scores) :
       IF Len(scores) - Budget <= Middle(Len(scores)) /\ Cardinality(K) = Budget
       THEN Keep(scores, Sorted(K))
       ELSE raised' = TRUE /\ UNCHANGED <<cache, last>>
(* The scoring of all layers, heads and ranks: any scores.                  *)
Scores == [1..Len(cache) -> Score]
Compress ==
  /\ Len(cache) >= Threshold
  /\ \E scores \in Scores :
       CompressGlobal(scores) \/ CompressBatched(scores) \/ CompressV3(scores)
  /\ UNCHANGED <<config, tokens>>

(* Nothing is left to do.                                                   *)
Done == tokens = MaxTokens /\ Len(cache) < Threshold /\ UNCHANGED vars

Next == Decode \/ Compress \/ Done
Spec == Init /\ [][Next]_vars

----------------------------------------------------------------------------
(* The types; the cumulative quotas add up, so that select_keep_indices     *)
(* never raises.                                                            *)
TypeOK ==
  /\ config \in Configs /\ tokens \in 1..MaxTokens
  /\ cache \in Seq(0..tokens - 1)
  /\ last # <<>> => Len(last.kept) = Budget
  /\ ~raised

(* However often it is compressed, on whichever path: the cache holds       *)
(* distinct tokens of the request in their order, as many as the plan says. *)
InOrder == Ascending(cache) /\ (last # <<>> => Len(cache) = Budget)

(* The first tokens of the request outlive every compression, and the last  *)
(* ones the one they are the last of.                                       *)
WindowsStay ==
  /\ \A i \in 1..Min({config.prefix, Len(cache)}) : cache[i] = i - 1
  /\ last # <<>> =>
       \A i \in 0..config.recent - 1 : cache[Budget - i] = tokens - 1 - i

(* "This changes execution cost, not the quota rule or protected positions":*)
(* whatever the batched form keeps, the form segment by segment may keep.   *)
BatchedAgrees ==
  last # <<>> /\ config.policy = "v3" => ToSet(last.kept) \in V3Kept(last.scores)

(* "The exact global eviction count is distributed proportionally": no      *)
(* segment is a whole token away from its share.                            *)
Proportional ==
  last # <<>> /\ config.policy = "v3" =>
    LET n == Len(last.scores)
    IN \A s \in SegmentIds :
         LET evicted == Cardinality(Segment(n, s) \ ToSet(last.kept))
             share == (n - Budget) * Cardinality(Segment(n, s))
         IN evicted * Middle(n) - share \in 1 - Middle(n)..Middle(n) - 1
=============================================================================
