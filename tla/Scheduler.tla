----------------------------- MODULE Scheduler -----------------------------
(***************************************************************************)
(* The scheduler side of the KV-compression transaction (stateful.py)      *)
(* driven by the vLLM engine loop it is patched into.                      *)
(*                                                                         *)
(* The plugin wraps three methods of the host scheduler.  schedule() first *)
(* runs before_schedule (BeginSchedule), then the host picks the batch     *)
(* (Admit, ScheduleRunning, Preempt), then after_schedule arms compression *)
(* plans and the batch is queued (EndSchedule).  update_from_output() lets *)
(* the host consume the oldest executed batch and then acknowledges its    *)
(* plans (UpdateFromOutput).  KVCacheManager.free() is wrapped by a hook   *)
(* that every finish, abort and preemption goes through (Freed).           *)
(*                                                                         *)
(* Between schedule() and update_from_output() of one batch the worker     *)
(* executes it (WorkerRuns; module KVCompression gives the worker its      *)
(* state) and, in asynchronous mode, further batches are scheduled.        *)
(***************************************************************************)
EXTENDS Integers, FiniteSets, Sequences, Functions

CONSTANTS
  Req,         \* request ids
  Block,       \* physical KV block ids (integers)
  None,        \* stands for Python's None
  BlockSize,   \* tokens of a full-attention block
  Budget,      \* kv_budget: tokens kept by a compression
  Recompute,   \* recompute_window: tokens between two compressions
  MinOutput,   \* min_output_tokens_for_compression
  Prompt,      \* num_prompt_tokens of each request
  MaxTokens,   \* max_tokens of each request
  Async,       \* scheduler_config.async_scheduling
  Depth,       \* max_concurrent_batches
  APC,         \* cache_config.enable_prefix_caching
  Shared,      \* leading prompt tokens that all requests have in common
  MaxBatch,    \* scheduler_config.max_num_batched_tokens
  MayAbort,    \* requests a client may abort
  LowestFirst  \* the pool hands out the lowest free ids (TRUE) or any (FALSE)

ASSUME RequestAssumption ==
  /\ Prompt \in [Req -> Nat \ {0}]
  /\ MaxTokens \in [Req -> Nat \ {0}]
  /\ MayAbort \subseteq Req
  /\ IsFiniteSet(Req) /\ None \notin Req
ASSUME BlockAssumption == Block \subseteq Int /\ IsFiniteSet(Block)
ASSUME ConfigAssumption ==
  /\ BlockSize \in Nat \ {0}
  /\ Budget \in Nat \ {0} /\ Budget % BlockSize = 0
  /\ Recompute \in Nat \ {0}
  /\ MinOutput \in Nat
  /\ Shared \in Nat
  /\ MaxBatch \in Nat \ {0}
ASSUME ModeAssumption ==
  /\ {Async, APC, LowestFirst} \subseteq BOOLEAN
  /\ Depth \in Nat \ {0}
  /\ ~Async => Depth = 1

VARIABLES
  kv,            \* KV manager, block pool and compression state (a record, below)
  status,        \* Request.status; "finished" requests have left scheduler.requests
  computed,      \* Request.num_computed_tokens
  tokens,        \* Request.num_tokens
  placeholders,  \* Request.num_output_placeholders
  finishedIds,   \* scheduler.finished_req_ids
  resetIds,      \* scheduler.reset_preempted_req_ids
  building,      \* the SchedulerOutput under construction, None between schedules
  queue,         \* outputs scheduled and not yet consumed, oldest first
  ran,           \* how many of them the worker has executed
  owed           \* history: per queued batch, the replaced source blocks that the
                 \* commit found it in front of and that must outlive it

vars == <<kv, status, computed, tokens, placeholders, finishedIds, resetIds,
          building, queue, ran, owed>>

----------------------------------------------------------------------------
(* Types.                                                                   *)

Never == 1 \* next_decode_eligible_step = 1 << 62; every other step is 0
BlockList == Seq(Block)
Plan == [semantic: Int, source: BlockList, dest: BlockList]
Pending == [plan: Plan, ready: BOOLEAN, previous: {None, 0, Never}]
Active == [semantic: Int, physical: Int]
HashKey == (Req \cup {None}) \X Nat
Unhashed == <<None, 0>>
Item == [start: Int, n: Int, kind: {"new", "resumed", "cached"}, blocks: BlockList]
Output == [sched: [Req -> Item \cup {None}], plans: [Req -> Plan \cup {None}],
           sampled: SUBSET Req, preempted: SUBSET Req, finished: SUBSET Req,
           room: Int] \* what is left of the token budget
KV == [table: [Req -> BlockList],                     \* req_to_blocks
       ref: [Block -> Int],                           \* KVCacheBlock.ref_cnt
       hash: [Block -> HashKey],                      \* KVCacheBlock.block_hash
       pending: [Req -> Pending \cup {None}],
       active: [Req -> Active \cup {None}],
       deferred: [Req -> [1..Depth - 1 -> SUBSET Block]],
                              \* deferred_releases by remaining_outputs
       eligible: [Req -> {0, Never}]]  \* Request.next_decode_eligible_step

ASSUME NoneAssumption ==
  None \notin Int \cup Plan \cup Pending \cup Active \cup Item \cup Output

Least(a, b) == IF a <= b THEN a ELSE b
Most(a, b) == IF a >= b THEN a ELSE b
Threshold == Budget + Recompute
BlocksFor(n) == (n + BlockSize - 1) \div BlockSize
Keep == BlocksFor(Budget)

(* What the manager hooks make of a token count of r: the attention group's *)
(* length once the removed tokens are subtracted.                           *)
PhysicalTokens(k, r, n) ==
  IF k.active[r] = None THEN n
  ELSE Most(0, n - (k.active[r].semantic - k.active[r].physical))

----------------------------------------------------------------------------
(* Block accounting.  A request holds block lists at numbered places: its   *)
(* block table, the reservation of its pending transaction, and the sources *)
(* it releases after 1, 2, ... more outputs.                                *)
Table == 0
Reserved == -1
Places(R) == R \X (-1..Depth - 1)
BlocksAt(k, p) ==
  CASE p[2] = Table -> Range(k.table[p[1]])
    [] p[2] = Reserved -> IF k.pending[p[1]] = None THEN {}
                          ELSE Range(k.pending[p[1]].plan.dest)
    [] OTHER -> k.deferred[p[1]][p[2]]
Holders(k, b) == {p \in Places(Req) : b \in BlocksAt(k, p)}

(* BlockPool.free_blocks on the lists at the places P.                      *)
FreeAt(k, P) ==
  [b \in Block |-> k.ref[b] - Cardinality({p \in P : b \in BlocksAt(k, p)})]

FreeBlocks(k) == {b \in Block : k.ref[b] = 0}

(* BlockPool.get_new_blocks(n): the possible results, listed in id order.   *)
Ascending(s) == \A i, j \in DOMAIN s : i < j => s[i] < s[j]
NewBlocks(free, n) ==
  {s \in [1..n -> free] :
     /\ Ascending(s)
     /\ LowestFirst => \A b \in free \ Range(s) : \A i \in 1..n : s[i] < b}

----------------------------------------------------------------------------
(* The plugin's handlers, as functions from one KV record to the next.      *)

(* The wrapped KVCacheManager.free(): forget the compression state of the   *)
(* requests R, give back reservation and deferred sources, and thaw; then   *)
(* the original free gives back the block table.                            *)
ThawedUnguarded(k, R) == \* mutant: restores previous_eligible_step when it is None
  [r \in Req |-> IF r \in R /\ k.pending[r] # None
                 THEN k.pending[r].previous ELSE k.eligible[r]]
Thawed(k, R) ==
  [r \in Req |-> IF r \in R /\ k.pending[r] # None /\ k.pending[r].previous # None
                 THEN k.pending[r].previous ELSE k.eligible[r]]

Emptied == [left \in 1..Depth - 1 |-> {}]
Cleared(f, R, empty) == [r \in Req |-> IF r \in R THEN empty ELSE f[r]]

FreedKeepsDeferred(k, R) == \* mutant: deferred releases are left to the drain
  [k EXCEPT !.ref = FreeAt(k, R \X {Table, Reserved}),
            !.table = Cleared(@, R, <<>>), !.pending = Cleared(@, R, None),
            !.active = Cleared(@, R, None), !.deferred = Cleared(@, R, Emptied),
            !.eligible = Thawed(k, R)]
FreedStaysFrozen(k, R) == \* mutant: the scheduling step is not restored
  [k EXCEPT !.ref = FreeAt(k, Places(R)),
            !.table = Cleared(@, R, <<>>), !.pending = Cleared(@, R, None),
            !.active = Cleared(@, R, None), !.deferred = Cleared(@, R, Emptied)]
FreedStaysActive(k, R) == \* mutant: the removed-token offset survives
  [k EXCEPT !.ref = FreeAt(k, Places(R)),
            !.table = Cleared(@, R, <<>>), !.pending = Cleared(@, R, None),
            !.deferred = Cleared(@, R, Emptied), !.eligible = Thawed(k, R)]
Freed(k, R) ==
  [k EXCEPT !.ref = FreeAt(k, Places(R)),
            !.table = Cleared(@, R, <<>>), !.pending = Cleared(@, R, None),
            !.active = Cleared(@, R, None), !.deferred = Cleared(@, R, Emptied),
            !.eligible = Thawed(k, R)]

(* _discard_pending for every request of R, without and with the            *)
(* active.pop that most callers add.                                        *)
PendingDiscarded(k, R) ==
  [k EXCEPT !.ref = FreeAt(k, R \X {Reserved}),
            !.pending = Cleared(@, R, None), !.eligible = Thawed(k, R)]
Discarded(k, R) ==
  [PendingDiscarded(k, R) EXCEPT !.active = Cleared(@, R, None)]

(* after_output marks the plans whose batch the host has accepted.  Plans   *)
(* are matched by value.                                                    *)
Acknowledged(k, plans) ==
  [k EXCEPT !.pending =
     [r \in Req |-> IF @[r] # None /\ plans[r] = @[r].plan
                    THEN [@[r] EXCEPT !.ready = TRUE] ELSE @[r]]]

(* _drain_deferred_releases: one more output has been consumed.             *)
DrainedLeaks(k) == \* mutant: a release that is due is dropped, not freed
  [k EXCEPT !.deferred = [r \in Req |-> [left \in 1..Depth - 1 |->
                            IF left = Depth - 1 THEN {} ELSE @[r][left + 1]]]]
Drained(k) ==
  [k EXCEPT !.ref = IF Depth = 1 THEN @ ELSE FreeAt(k, Req \X {1}),
            !.deferred = [r \in Req |-> [left \in 1..Depth - 1 |->
                            IF left = Depth - 1 THEN {} ELSE @[r][left + 1]]]]

(* _commit_pending: the private blocks replace the block table; the source  *)
(* is released now (defer = 0) or after `defer` more outputs.  A request    *)
(* whose block table is gone or is another one has its plan discarded (the  *)
(* code raises in the second case: PendingSourceStable excludes it).        *)
ReadyUnacknowledged(k) == \* mutant: a plan is committed before its output is seen
  {r \in Req : k.pending[r] # None}
Ready(k) == {r \in Req : k.pending[r] # None /\ k.pending[r].ready}
Committable(k) == {r \in Ready(k) : k.table[r] = k.pending[r].plan.source}

Committed(k, defer) ==
  LET R == Committable(k)
      d == PendingDiscarded(k, Ready(k) \ R)
  IN [d EXCEPT
       !.ref = IF defer = 0 THEN FreeAt(d, R \X {Table}) ELSE @,
       !.deferred = [r \in Req |-> [left \in 1..Depth - 1 |->
                      IF r \in R /\ left = defer
                      THEN @[r][left] \cup Range(k.table[r]) ELSE @[r][left]]],
       !.table = [r \in Req |-> IF r \in R THEN k.pending[r].plan.dest ELSE @[r]],
       !.active = [r \in Req |-> IF r \in R
                     THEN [semantic |-> k.pending[r].plan.semantic, physical |-> Budget]
                     ELSE @[r]],
       !.pending = Cleared(@, R, None),
       !.eligible = Thawed(d, R)]

(* after_model_output does nothing in synchronous mode.                     *)
CommitThenDrain(k) == \* mutant: the order of its two calls is swapped
  IF Async THEN Drained(Committed(k, Depth - 1)) ELSE k
NeverCommits(k) == \* mutant: the asynchronous commit is forgotten
  IF Async THEN Drained(k) ELSE k
AfterModelOutput(k) == IF Async THEN Committed(Drained(k), Depth - 1) ELSE k

(* The hooked cache_blocks: blocks that n tokens fill get the hash of their *)
(* content, except when the table holds private compressed KV.              *)
Key(r, i) == IF i * BlockSize <= Shared THEN <<None, i>> ELSE <<r, i>>
Filled(k, r, n) == {i \in DOMAIN k.table[r] : i * BlockSize <= n}

CacheBlocksAlways(k, r, n) == \* mutant: active requests are cached like others
  [k EXCEPT !.hash =
     [b \in Block |-> IF APC /\ \E i \in Filled(k, r, n) : k.table[r][i] = b
                      THEN Key(r, CHOOSE i \in Filled(k, r, n) : k.table[r][i] = b)
                      ELSE @[b]]]
CacheBlocks(k, r, n) ==
  [k EXCEPT !.hash =
     [b \in Block |-> IF APC /\ k.active[r] = None
                         /\ \E i \in Filled(k, r, n) : k.table[r][i] = b
                      THEN Key(r, CHOOSE i \in Filled(k, r, n) : k.table[r][i] = b)
                      ELSE @[b]]]

(* prefix_cache_hit_cap, and the lookup that it bounds: the longest run of  *)
(* cached blocks within the cap and the host's own limit.                   *)
PrefixCacheHitCap(r) ==
  IF Prompt[r] < Threshold \/ MaxTokens[r] < MinOutput THEN None
  ELSE Most(0, Least(Prompt[r] - 1, Prompt[r] - Recompute))

HitLimit(r) ==
  IF PrefixCacheHitCap(r) = None THEN tokens[r] - 1
  ELSE Least(tokens[r] - 1, PrefixCacheHitCap(r))

Cached(r, i) == {b \in Block : APC /\ i * BlockSize <= HitLimit(r) /\ kv.hash[b] = Key(r, i)}
HitLengths(r) == {h \in 0..Prompt[r] + MaxTokens[r] :
                    (\A i \in 1..h : Cached(r, i) # {}) /\ Cached(r, h + 1) = {}}
Hits(r) ==
  UNION {{hits \in [1..h -> Block] : \A i \in 1..h : hits[i] \in Cached(r, i)} :
         h \in HitLengths(r)}

(* after_schedule: which scheduled requests are eligible for a plan, and    *)
(* the pending transaction that is recorded for one.                        *)
Armable(k, sched, r) ==
  /\ sched[r] # None
  /\ k.pending[r] = None
  /\ MaxTokens[r] >= MinOutput
  /\ k.active[r] = None => computed[r] = Prompt[r]
  /\ PhysicalTokens(k, r, computed[r]) >= Threshold

PlanFor(k, r, d) == [semantic |-> computed[r], source |-> k.table[r], dest |-> d]

ArmedUnfrozen(k, A, dest) == \* mutant: an asynchronous request is not frozen
  [k EXCEPT !.ref = [b \in Block |-> IF \E r \in A : b \in Range(dest[r]) THEN 1 ELSE @[b]],
            !.hash = [b \in Block |-> IF \E r \in A : b \in Range(dest[r])
                                      THEN Unhashed ELSE @[b]],
            !.pending = [r \in Req |-> IF r \in A
                           THEN [plan |-> PlanFor(k, r, dest[r]), ready |-> FALSE,
                                 previous |-> None]
                           ELSE @[r]]]
Armed(k, A, dest) ==
  [k EXCEPT !.ref = [b \in Block |-> IF \E r \in A : b \in Range(dest[r]) THEN 1 ELSE @[b]],
            !.hash = [b \in Block |-> IF \E r \in A : b \in Range(dest[r])
                                      THEN Unhashed ELSE @[b]],
            !.pending = [r \in Req |-> IF r \in A
                           THEN [plan |-> PlanFor(k, r, dest[r]), ready |-> FALSE,
                                 previous |-> IF Async THEN k.eligible[r] ELSE None]
                           ELSE @[r]],
            !.eligible = [r \in Req |-> IF r \in A /\ Async THEN Never ELSE @[r]]]

----------------------------------------------------------------------------
(* Host operators used by the actions.                                      *)

EmptyOutput == [sched |-> [r \in Req |-> None], plans |-> [r \in Req |-> None],
                sampled |-> {}, preempted |-> {}, finished |-> {}, room |-> MaxBatch]

Known(r) == tokens[r] + placeholders[r]
Live(r) == status[r] # "finished"
HasRequests == (\E r \in Req : Live(r)) \/ finishedIds # {}
Without(R) == [i \in DOMAIN owed |-> {p \in owed[i] : p[1] \notin R}]

(* KVCacheManager.allocate_slots: touch the cached hits, append new blocks. *)
Need(k, r, hits, n) ==
  Most(0, BlocksFor(PhysicalTokens(k, r, n)) - Len(k.table[r]) - hits)
Allocated(k, r, hits, new) ==
  [k EXCEPT !.ref = [b \in Block |-> IF b \in Range(new) THEN 1
                                     ELSE IF b \in Range(hits) THEN @[b] + 1 ELSE @[b]],
            !.hash = [b \in Block |-> IF b \in Range(new) THEN Unhashed ELSE @[b]],
            !.table[r] = @ \o hits \o new]

(* Enter r with n more tokens in the batch; the step that reaches the last  *)
(* known token samples the next one.                                        *)
Scheduled(r, start, n, kind, blocks) ==
  LET samples == start + n = Known(r) IN
  /\ computed' = [computed EXCEPT ![r] = start + n]
  /\ placeholders' = [placeholders EXCEPT ![r] = IF samples THEN @ + 1 ELSE @]
  /\ building' = [building EXCEPT
       !.sched[r] = [start |-> start, n |-> n, kind |-> kind, blocks |-> blocks],
       !.sampled = IF samples THEN @ \cup {r} ELSE @,
       !.room = @ - n]

----------------------------------------------------------------------------
Init ==
  /\ kv = [table |-> [r \in Req |-> <<>>],
           ref |-> [b \in Block |-> 0],
           hash |-> [b \in Block |-> Unhashed],
           pending |-> [r \in Req |-> None],
           active |-> [r \in Req |-> None],
           deferred |-> [r \in Req |-> [left \in 1..Depth - 1 |-> {}]],
           eligible |-> [r \in Req |-> 0]]
  /\ status = [r \in Req |-> "waiting"]
  /\ computed = [r \in Req |-> 0]
  /\ tokens = Prompt
  /\ placeholders = [r \in Req |-> 0]
  /\ finishedIds = {} /\ resetIds = {}
  /\ building = None
  /\ queue = <<>> /\ ran = 0 /\ owed = <<>>

(* schedule(), before the host: before_schedule.                            *)
BeforeScheduleNoCommit(k, finished) == \* mutant: the synchronous commit is forgotten
  Discarded(k, finished)
BeforeSchedule(k, finished) ==
  LET k1 == Discarded(k, finished) IN IF Async THEN k1 ELSE Committed(k1, 0)

BeginSchedule ==
  /\ building = None
  /\ Len(queue) < Depth
  /\ HasRequests
  /\ kv' = BeforeSchedule(kv, finishedIds)
  /\ building' = EmptyOutput
  /\ UNCHANGED <<status, computed, tokens, placeholders, finishedIds, resetIds,
                 queue, ran, owed>>

(* The host continues a running request with as many tokens as the batch    *)
(* has room for, unless the request is frozen or the tokens it may still    *)
(* produce are all in flight.                                               *)
Schedulable(r) ==
  /\ status[r] = "running"
  /\ building.sched[r] = None
  /\ kv.eligible[r] = 0
  /\ Known(r) - Prompt[r] < MaxTokens[r]
  /\ building.room > 0
Chunk(r) == Least(Known(r) - computed[r], building.room)

ScheduleRunning(r) ==
  /\ building # None
  /\ Schedulable(r)
  /\ LET n == computed[r] + Chunk(r) IN
     \E new \in NewBlocks(FreeBlocks(kv), Need(kv, r, 0, n)) :
       /\ kv' = CacheBlocks(Allocated(kv, r, <<>>, new), r, Least(n, tokens[r]))
       /\ Scheduled(r, computed[r], Chunk(r), "cached", new)
  /\ UNCHANGED <<status, tokens, finishedIds, resetIds, queue, ran, owed>>

(* When a running request cannot get its blocks, the host preempts one that *)
(* is not in the batch yet.                                                 *)
Starved(r) ==
  /\ Schedulable(r)
  /\ Need(kv, r, 0, computed[r] + Chunk(r)) > Cardinality(FreeBlocks(kv))

Preempt(victim) ==
  /\ building # None
  /\ status[victim] = "running"
  /\ building.sched[victim] = None
  /\ \E r \in Req : Starved(r)
  /\ kv' = Freed(kv, {victim})
  /\ owed' = Without({victim})
  /\ status' = [status EXCEPT ![victim] = "preempted"]
  /\ computed' = [computed EXCEPT ![victim] = 0]
  /\ building' = [building EXCEPT !.preempted = @ \cup {victim}]
  /\ UNCHANGED <<tokens, placeholders, finishedIds, resetIds, queue, ran>>

(* Behind the running requests, and only if none of them was preempted, the *)
(* host admits waiting ones: prefix lookup under the cap, then slots for    *)
(* the first chunk.                                                         *)
Admissible(r) ==
  /\ status[r] \in {"waiting", "preempted"}
  /\ building.preempted = {} /\ building.room > 0
  /\ \A q \in Req : ~Schedulable(q)
FirstChunk(r, start) == Least(tokens[r] - start, building.room)
Unclaimed(hits) == FreeBlocks(kv) \ Range(hits)

Admit(r) ==
  /\ building # None
  /\ Admissible(r)
  /\ \E hits \in Hits(r) :
       LET start == Len(hits) * BlockSize
           n == FirstChunk(r, start) IN
       \E new \in NewBlocks(Unclaimed(hits), Need(kv, r, Len(hits), start + n)) :
         /\ kv' = CacheBlocks(Allocated(kv, r, hits, new), r, start + n)
         /\ Scheduled(r, start, n, IF status[r] = "waiting" THEN "new" ELSE "resumed",
                      hits \o new)
  /\ status' = [status EXCEPT ![r] = "running"]
  /\ UNCHANGED <<tokens, finishedIds, resetIds, queue, ran, owed>>

(* The host closes the batch when it cannot put more into it.               *)
Fits(r) ==
  /\ Admissible(r)
  /\ \E hits \in Hits(r) :
       LET start == Len(hits) * BlockSize IN
       Need(kv, r, Len(hits), start + FirstChunk(r, start)) <= Cardinality(Unclaimed(hits))

(* after_schedule resets what the batch reports preempted or finished, then *)
(* arms one plan per eligible request for as long as the pool has a full    *)
(* set of private destination blocks.                                       *)
AfterSchedule(k, output, A, dest) ==
  LET reset == output.preempted \cup output.finished
      k1 == Discarded(k, reset)
      C == {r \in Req : Armable(k1, output.sched, r)}
      free == FreeBlocks(k1)
  IN /\ A \subseteq C
     /\ Cardinality(A) = Least(Cardinality(C), Cardinality(free) \div Keep)
     /\ \A r \in A : dest[r] \in [1..Keep -> free] /\ Ascending(dest[r])
     /\ \A r, s \in A : r # s => Range(dest[r]) \cap Range(dest[s]) = {}
     /\ LowestFirst => \A r \in A : \A c \in Range(dest[r]), b \in free :
                         b < c => \E s \in A : b \in Range(dest[s])
     /\ kv' = Armed(k1, A, dest)

EndSchedule ==
  /\ building # None
  /\ \A r \in Req : ~Schedulable(r) /\ ~Fits(r)
  /\ LET output == [building EXCEPT !.finished = finishedIds,
                                    !.preempted = @ \cup resetIds]
     IN \E A \in SUBSET Req :
        \E dest \in [A -> [1..Keep -> FreeBlocks(kv)]] :
          /\ AfterSchedule(kv, output, A, dest)
          /\ queue' = Append(queue, [output EXCEPT !.plans =
               [r \in Req |-> IF r \in A THEN kv'.pending[r].plan ELSE None]])
  /\ building' = None /\ finishedIds' = {} /\ resetIds' = {}
  /\ owed' = Append(owed, {})
  /\ UNCHANGED <<status, computed, tokens, placeholders, ran>>

(* The worker executes queued batches in order, one at a time.  schedule()  *)
(* neither sees nor changes what the worker works on, so its executions are *)
(* interleaved with whole schedule() calls only.                            *)
WorkerRuns ==
  /\ building = None
  /\ ran < Len(queue)
  /\ ran' = ran + 1
  /\ UNCHANGED <<kv, status, computed, tokens, placeholders, finishedIds, resetIds,
                 building, queue, owed>>

(* update_from_output() of the oldest batch: the host appends the sampled   *)
(* tokens and frees the requests F that stop, then the plugin acknowledges. *)
UpdateFromOutput(F) ==
  /\ building = None
  /\ ran > 0
  /\ LET output == Head(queue)
         got == {r \in output.sampled : Live(r)}
         k == Acknowledged(Freed(kv, F), output.plans)
     IN /\ F \subseteq got
        /\ \A r \in got : tokens[r] + 1 - Prompt[r] = MaxTokens[r] => r \in F
        /\ kv' = AfterModelOutput(k)
        /\ tokens' = [r \in Req |-> IF r \in F THEN Prompt[r]
                                    ELSE IF r \in got THEN tokens[r] + 1 ELSE tokens[r]]
        /\ placeholders' = [r \in Req |-> IF r \in F THEN 0
                                          ELSE IF r \in got THEN placeholders[r] - 1
                                          ELSE placeholders[r]]
        /\ owed' = [i \in 1..Len(owed) - 1 |->
             Without(F)[i + 1] \cup
             (IF Async THEN {p \in Committable(k) \X Block : p[2] \in Range(k.table[p[1]])}
              ELSE {})]
  /\ status' = [r \in Req |-> IF r \in F THEN "finished" ELSE status[r]]
  /\ computed' = [r \in Req |-> IF r \in F THEN 0 ELSE computed[r]]
  /\ finishedIds' = finishedIds \cup F
  /\ queue' = Tail(queue) /\ ran' = ran - 1
  /\ UNCHANGED <<resetIds, building>>

(* A client aborts r (finish_requests) between two engine steps.            *)
Abort(r) ==
  /\ building = None
  /\ r \in MayAbort /\ Live(r)
  /\ kv' = Freed(kv, {r})
  /\ owed' = Without({r})
  /\ status' = [status EXCEPT ![r] = "finished"]
  /\ computed' = [computed EXCEPT ![r] = 0]
  /\ tokens' = [tokens EXCEPT ![r] = Prompt[r]]
  /\ placeholders' = [placeholders EXCEPT ![r] = 0]
  /\ finishedIds' = finishedIds \cup {r}
  /\ UNCHANGED <<resetIds, building, queue, ran>>

(* reset_prefix_cache with running requests: preempt all of them, discard   *)
(* their tokens in flight, and drop the hashes once every block is free.    *)
ResetPrefixCache ==
  /\ building = None
  /\ \E r \in Req : status[r] = "running"
  /\ LET R == {r \in Req : status[r] = "running"}
         k == Freed(kv, R)
     IN /\ kv' = IF FreeBlocks(k) = Block
                 THEN [k EXCEPT !.hash = [b \in Block |-> Unhashed]] ELSE k
        /\ owed' = Without(R)
        /\ status' = [r \in Req |-> IF r \in R THEN "preempted" ELSE status[r]]
        /\ computed' = [r \in Req |-> IF r \in R THEN 0 ELSE computed[r]]
        /\ placeholders' = [r \in Req |-> IF r \in R THEN 0 ELSE placeholders[r]]
        /\ queue' = [i \in DOMAIN queue |-> [queue[i] EXCEPT !.sampled = @ \ R]]
        /\ resetIds' = resetIds \cup R
  /\ UNCHANGED <<tokens, finishedIds, building, ran>>

(* Everything has finished and every output has been consumed.              *)
Terminated ==
  /\ building = None /\ queue = <<>> /\ ~HasRequests
  /\ UNCHANGED vars

EngineNext ==
  \/ BeginSchedule
  \/ \E r \in Req : Admit(r)
  \/ \E r \in Req : ScheduleRunning(r)
  \/ \E r \in Req : Preempt(r)
  \/ EndSchedule
  \/ \E F \in SUBSET Req : UpdateFromOutput(F)
  \/ \E r \in Req : Abort(r)
  \/ Terminated

SchedulerNext == EngineNext \/ ResetPrefixCache
Next == SchedulerNext \/ WorkerRuns

Spec == Init /\ [][Next]_vars

(* The engine core loops for as long as there is work, the worker executes  *)
(* what it is sent, and the host's queues are first come, first served.     *)
EngineStep == BeginSchedule \/ EndSchedule \/ \E F \in SUBSET Req : UpdateFromOutput(F)
HostStep == \E r \in Req : Admit(r) \/ ScheduleRunning(r) \/ Preempt(r)
Fairness ==
  /\ WF_vars(EngineStep) /\ WF_vars(HostStep) /\ WF_vars(WorkerRuns)
  /\ \A r \in Req : SF_vars(Admit(r)) /\ SF_vars(ScheduleRunning(r))
(* reset_prefix_cache can undo the work for ever, so liveness is stated for  *)
(* a service on which nobody calls it.                                      *)
FairSpec == Init /\ [][EngineNext \/ WorkerRuns]_vars /\ Fairness

----------------------------------------------------------------------------
(* The types above, and that the worker never runs ahead of the queue.      *)
TypeOK ==
  /\ kv \in KV
  /\ status \in [Req -> {"waiting", "running", "preempted", "finished"}]
  /\ computed \in [Req -> Int]
  /\ tokens \in [Req -> Int]
  /\ placeholders \in [Req -> Int]
  /\ finishedIds \subseteq Req /\ resetIds \subseteq Req
  /\ building \in Output \cup {None}
  /\ queue \in Seq(Output) /\ ran \in 0..Len(queue)
  /\ owed \in Seq(SUBSET (Req \X Block)) /\ Len(owed) = Len(queue)

(* Every block's reference count is the number of block tables,             *)
(* reservations and deferred releases it is in: the free hook, the          *)
(* discards, the commit and the drain between them neither leak a block nor *)
(* free one twice, whatever the order of aborts, preemptions, stops and     *)
(* acknowledgements.                                                        *)
RefExact == \A b \in Block : kv.ref[b] = Cardinality(Holders(kv, b))

(* Private compressed KV, reserved or committed, is held by its request     *)
(* alone and is never in the prefix cache.                                  *)
PrivateBlocks(r) ==
  (IF kv.pending[r] = None THEN {} ELSE Range(kv.pending[r].plan.dest))
  \cup (IF kv.active[r] = None THEN {} ELSE Range(kv.table[r]))
PrivateKV ==
  \A r \in Req : \A b \in PrivateBlocks(r) :
    kv.hash[b] = Unhashed /\ Holders(kv, b) \subseteq Places({r})

(* While a transaction is pending, the request keeps running with the block *)
(* table and the semantic length of its plan: _commit_pending never meets a *)
(* changed block table (its RuntimeError) nor discards a ready plan.        *)
PendingSourceStable ==
  \A r \in Req : kv.pending[r] # None =>
    /\ status[r] = "running"
    /\ kv.table[r] = kv.pending[r].plan.source
    /\ computed[r] = kv.pending[r].plan.semantic

(* In asynchronous mode a request is frozen exactly while its transaction   *)
(* is pending: a request without one is never left frozen, a frozen request *)
(* is never scheduled on the table that the commit replaces.                *)
FrozenIffPending ==
  \A r \in Req : kv.eligible[r] = Never <=> Async /\ kv.pending[r] # None

(* The old blocks of a commit outlive every batch that was already queued   *)
(* when it happened, unless the request itself is freed.                    *)
SourceOutlivesQueue ==
  \A i \in DOMAIN owed : \A p \in owed[i] :
    \E left \in i..Depth - 1 : p[2] \in kv.deferred[p[1]][left]

(* "Commit only plans whose model output has crossed the worker barrier":   *)
(* plans are matched by value, so the output of an earlier transaction on   *)
(* the same blocks can stand for it.  But when a plan is committed, a batch *)
(* in flight that carries it only repeats it: the worker is told before, or *)
(* in that batch, that the request was preempted.                           *)
CommitAfterOutput ==
  [][\A r \in Req : kv.active[r] # kv'.active[r] /\ kv'.active[r] # None =>
       \A i \in DOMAIN queue' : queue'[i].plans[r] = kv.pending[r].plan =>
         \E j \in 1..i : r \in queue'[j].preempted]_vars

(* Every request eventually finishes: transactions are committed, frozen    *)
(* requests thawed, and blocks given back in time for the others.           *)
Progress == \A r \in Req : <>(status[r] = "finished")

(* "Check that the service continues generating after the commit": a        *)
(* committed request gets its next token.                                   *)
ContinuesAfterCommit ==
  \A r \in Req : \A t \in Prompt[r]..Prompt[r] + MaxTokens[r] :
    kv.active[r] # None /\ tokens[r] = t ~> tokens[r] # t \/ status[r] = "finished"
=============================================================================
