# Verification of the KV-compression plugin

TLA+ models of `vllm_ascend_kvcompress`, a plugin that lets vLLM on Ascend NPUs
replace the KV cache of a long request by a shorter, private copy of it while the
request is being served. Paths below are relative to `src/vllm_ascend_kvcompress/`
unless they start with `docs/` or `tests/`.

## 1. The system

vLLM's engine loop calls `schedule()`, sends the batch to a worker, and later
gives the worker's output to `update_from_output()`. In asynchronous mode up to
`max_concurrent_batches` batches are in flight. The plugin patches both sides:

| Part | State | Operations | Talks to |
|---|---|---|---|
| Scheduler-side state (`stateful.py`, `transaction.py`) | `pending` transactions (plan, reserved blocks, ready flag, saved scheduling step), `active` offsets, `deferred_releases` | `before_schedule`, `after_schedule` (arm), `after_output` (acknowledge), `after_model_output` (drain, commit), `_commit_pending`, `_discard_pending`, the hooked `free` | host scheduler and block pool; sends plans with the batch |
| Manager and coordinator hooks (`stateful.py`) | reads `active` | `cache_blocks` guard, semantic-to-physical lengths, prefix-hit cap | host KV manager |
| Host scheduler (vLLM, external) | requests, running/waiting queues, block tables, pool, prefix hashes | admit, continue, preempt, abort, stop, `reset_prefix_cache` | both sides |
| Worker provider (`provider.py`, `plugin.py`) | `pending`, `active`, row offsets, query-observation step | `before_update_states` (commit), `after_update_states`, slot mapping, lengths, `compress_scheduled_requests` | host model runner, the method |
| Method (`methods/`) | statistics, workspaces | score, select, materialize | KV memory |
| Calibration (`calibration.py`) | artifact file, lock file | generate once, validate | several worker processes |
| Hybrid coordinator hooks (`stateful.py`) | reads `active` | count, allocate and skip blocks group by group | host coordinator and its managers, one shared pool |
| Activation (`plugin.py`, `config.py`, `registry.py`) | markers and wrappers of host classes, import hook, registered methods | `register`, import of the runner module, `load_model`, `initialize_kv_cache`, `Scheduler.__init__` | host classes, in every process |
| Compatibility (`host_compat.py`) | aliases, GDN list cache | install when the build needs it; convert tensors to lists | host modules, GDN operator |
| Qualification (`scripts/`) | outcomes of the cases, counts from the server log | submit, read the log, decide | a running service |

A compression is a **transaction**. When the batch that completes a prompt (or in
which an already compacted request reaches the threshold again) is scheduled, the
scheduler reserves private blocks and sends a plan (source table, destination
blocks, semantic length) with the batch; in asynchronous mode it also freezes the
request. The worker, after sampling, copies the kept tokens to the destination.
When the output has been accepted the scheduler *commits*: the private blocks
become the block table and the source is released, in asynchronous mode only
after the batches that are already queued. The worker commits on its side when
the request is next scheduled.

What is hard: the two sides commit at different times; a request can be aborted,
preempted, stopped or reset in every phase of its transaction; blocks are shared
by prefix hits; plans are acknowledged by value; the pool may be too small for
the copy, or for the copy and the deferred source together; lengths are semantic
on one side of a hook and physical on the other. `PROJECT.json` lists every such
hazard at its line, with the properties that watch it.

What makes each part correct:

- scheduler side: no block leaked or freed twice; private KV private and never
  hashed; a pending plan's request untouched; frozen iff pending; source blocks
  outlive queued batches; commit only behind the output; every request finishes;
- worker side: it agrees with every plan, never writes outside its row or twice
  to a slot, and every request's cache is its own tokens in order;
- model runner: offsets, lengths and write slots belong to the request that is in
  the row now, for every layer; the first compression of a prefill finds the whole query
  window, a later one nothing, and no method is ever given a part of a window;
- method: exactly the budgeted number of positions, in order, protected windows
  kept, the same on every path;
- calibration: nobody ever loads a partial artifact, one process at a time
  generates it, all services of a deployment run with the same statistics;
- hybrid groups: what is counted is what is allocated, each group holds its own
  length, and no anchor is a length that rejected drafts take back;
- activation: a process that serves is hooked exactly once, whatever failed before;
- compatibility: the operator gets the lists of this step's tensors;
- qualification: a run that is judged good was served whole, and its evidence is about
  that run, where it has any.

## 2. Modules

| Module | Models |
|---|---|
| `Scheduler` | the scheduler side of the transaction and the engine loop it is patched into |
| `KVCompression` | `Scheduler`, the worker that executes its batches, and the KV memory |
| `LogicalCache` | abstract specification: what compression promises a request |
| `RunnerStep` | one model runner's step: batch rows, lengths, per-layer metadata, query observation |
| `Selection` | which tokens TriAttention keeps: global, V3, and batched V3 |
| `Calibration` | services and commands that share one calibration artifact |
| `HybridGroups` | the scheduler side for a model with several cache groups and draft tokens |
| `Activation` | how each process of a service gets the plugin |
| `GdnLists` | the list bridge of the GDN operator and its cache |
| `Qualification` | how a benchmark run judges the service |
| `Deployment` | the last three together: a service from registration to the verdict on it |
| `SchedulerProofs`, `SystemProofs`, `LogicalProofs` | theorems about `Scheduler` and `KVCompression`, each module on top of the one before |
| `SelectionProofs`, `CalibrationProofs`, `RunnerStepProofs`, `HybridGroupsProofs`, `DeploymentProofs` | theorems about the other modules |
| `MC...` | instances for TLC |

`KVCompression` extends `Scheduler` and instantiates `LogicalCache`. `RunnerStep` looks
inside what `KVCompression` does in one action, `Execute`; it leaves the scheduler open
instead of composing with it. `Selection` refines the arbitrary selection of
`KVCompression`. `HybridGroups` is a second view of the scheduler side: it adds groups and
drafts and leaves out asynchrony and the identities of blocks. `Calibration` is one step
of `Activation`'s `LoadModel` and shares nothing else with it. `Deployment` extends
`Activation`, `GdnLists` and `Qualification` and says where one relies on another.

### Scheduler

`kv` is a record of everything the plugin and the pool keep (`KV`): block tables,
reference counts, hashes, `pending`, `active`, `deferred` (indexed by
`remaining_outputs`), and `next_decode_eligible_step` (0 or `Never`, the code's
`1 << 62`). Each plugin handler is an operator from one such record to the next
(`Freed`, `Discarded`, `Acknowledged`, `Drained`, `Committed`, `Armed`, ...), and the
actions compose them in the order of the code:

| Action | Code |
|---|---|
| `BeginSchedule` | the wrapped `schedule()`: `before_schedule` |
| `Admit`, `ScheduleRunning`, `Preempt` | the host fills the batch (one request per step) |
| `EndSchedule` | `after_schedule`, and the batch is queued |
| `WorkerRuns` | the worker executes the oldest batch it has not executed |
| `UpdateFromOutput(F)` | the host consumes the oldest output, the requests `F` stop; `after_output` |
| `Abort`, `ResetPrefixCache` | `finish_requests`, `reset_prefix_cache` with running requests; both reach the hooked `free` |

Decisions worth knowing:

- A request that has finished is not resubmitted; its id stays `"finished"`.
- `Terminated` lets the engine rest when nothing is left, so deadlock is checked in
  every run.
- `WorkerRuns` is enabled between `schedule()` calls only. It commutes with the
  steps inside one, which neither read nor write what it touches.
- The host's batch closes when nothing more fits. Preemption picks any running
  request that is not in the batch yet, a superset of vLLM's choice of the last.
- The code raises on a changed block table at the commit; the model discards the
  plan and `PendingSourceStable` shows that it never happens. The check in
  `after_schedule` that the table has at least `Keep` blocks is shown by the same
  check of the worker on the same table (`WorkerAgrees`).
- `owed` is a history variable: the source blocks a commit found each queued batch
  behind. Only `SourceOutlivesQueue` reads it.

### KVCompression and LogicalCache

`Execute` is the worker's whole step: `before_update_states` (`Reset`,
`Committing`), the host's row update, `after_update_states` (whose pruning only
concerns requests `Reset` has dropped), the forward pass that writes the KV of the
scheduled tokens at their physical slots (`AfterForward`), and
`compress_scheduled_requests` (`Compressed`) with its checks. A failed check, or a
slot outside the row or written twice, sets `raised`.

The memory stores for each slot whose token it holds, its semantic position, and
whether it was computed on an uncompressed context. The kept tokens are *any*
`Budget` tokens in their original order, which covers every selection policy.

`LogicalCache` knows no blocks, plans or batches: per request, a sequence of token
positions that grows at the end, is dropped on preemption, and may shrink to
`Budget` of its own tokens once it has at least `Threshold` of them. `View` maps the
worker state to it: what the request's next step will read through its row, or
through the pending private blocks it will commit first.

### RunnerStep

The wrapped `execute_model` and `sample_tokens`, cut where the host calls back into the
plugin. The scheduler output is any chunks for any live requests, with any finished
and preempted ones, and a plan for any request that is due.

| Action | Code |
|---|---|
| `Begin` | `execute_model`: `begin_per_layer_step`, `begin_query_step` |
| `UpdateStates` | `before_update_states`, the host's rows in any order, `after_update_states` with `_sync_request_offset_rows` |
| `Prepare` | the host's `_prepare_inputs`: semantic lengths, slots through `physical_positions_for_slot_mapping` |
| `BuildMetadata` | `_build_attention_metadata`, one or more times: `apply_physical_attention_lengths`, `semantic_gdn_metadata`, `per_layer_attention_metadata` |
| `BypassMetadata` | a host that never calls the hooked method |
| `Forward` | `capture_attention_query` from the attention layers; a replayed graph may bypass some |
| `Finish` | `finish_per_layer_step`, `finish_query_step`, `abort_query_step` |
| `Sample` | `compress_scheduled_requests` |
| `Down` | a failed step stops the engine |

Write slots are represented by the number that is subtracted from the position
(`Shift`); `KVCompression` models where that leads. The tensor copies of offsets and
lengths on CPU and device are one variable: the same statements update both, and the
copy from the reused pinned buffer relies on the host's input-preparation event. A
resumed request was preempted before, and the preemption has already dropped what
`before_update_states` drops again when it is resumed. `prefill` and `observed` stand
for the method's buffers: a row is a pair of the prefill it belongs to and its
position, so that rows of an earlier prefill can be told apart.

### Selection

One request is decoded and compressed again and again under one of `Configs`, with
any scores. `torch.topk` may return any of the best sets when scores are equal, so
`GlobalKept`, `V3Kept` and `BatchedKept` are sets of selections. The batched form keeps
the steps of the code: one topk over all rows that is ordered only when the quotas
differ, ranks behind a quota replaced by the row's width, the sort, the shift, the
scatter in which all surplus ranks write slot 0 in any order, the uninitialized
result, and the windows and slot 0 filled in afterwards. `torch.sort` is `SortValues`: every
entry goes to the position of its rank, equal entries in their order. `Compress` gathers the kept
tokens in the order of the result.

### Calibration

| Action | Code |
|---|---|
| `Probe` | `load_model` constructs the configured method, which loads `stats_path` |
| `Ensure`, `Validate` | `ensure_calibration_for_runner`: the unlocked look, `_validate_artifact` |
| `Load` | `initialize_kv_cache` creates the provider, whose method loads the file |
| `StartCommand` | `main` of the command |
| `Acquire`, `Recheck`, `ValidateExisting` | `generate_calibration_artifact` under the flock |
| `Generate`, `Write`, `Publish` | `_generate_payload` and `_atomic_torch_save`: temporary file, fill and fsync, `os.replace` |
| `Raise` | an exception under the lock |
| `Kill`, `PowerLoss`, `Settle`, `Delete` | the environment |

An artifact is a record of the model it is bound to, an identity, and whether it is
whole and synced. After a power loss an unsynced file is torn and the last rename may
be lost. `disturbed` is a history variable: somebody deleted the artifact or replaced it
with `--force`. Between the validation (`calibration.py:141`, `176`) and the load
(`methods/triattention/method.py:69`) a forced replacement is not noticed, so
`ServedIsBound` and `SameStatistics` are stated for a path that nobody disturbs.

### HybridGroups

A hybrid model has one block table per cache group. Compression shortens the attention
group; state groups (Mamba, GDN) stay in semantic lengths and hold a block only for the
state they continue from. The host passes one set of token counts; three coordinator
hooks translate it per group (`GroupTokens`). Draft tokens are scheduled behind the last
accepted token and rolled back if they are rejected. Blocks are counted, not named.

| Action | Code |
|---|---|
| `BeginSchedule` | `before_schedule`: acknowledged plans are committed to the attention table |
| `Schedule` | `remove_skipped_blocks` (`Trimmed`), `get_num_blocks_to_allocate` (`Count`), `allocate_new_blocks` (`Allocated`), in the order of the host's `allocate_slots` |
| `Preempt` | the request does not fit; the hooked `free` of a victim |
| `EndSchedule` | the optimistic advance; `after_schedule` (`Armable`) |
| `Consume`, `EndUpdate` | `update_from_output`: rejected drafts are subtracted, plans acknowledged, requests stop |
| `Abort` | `finish_requests` |

`after_schedule` arms requests in the order of the batch while the pool has room; that
order is open here (`EndSchedule` arms any set the pool has room for that cannot be
extended). The managers of the groups are the host's: `Required`, `Skipped` and
`StateEntry` say what the plugin expects of them.

### Activation, GdnLists, Qualification and Deployment

A process is a record (`ProcState`): how many wrappers of the plugin each host callable
(`Seam`) has, which markers are set, the import hook, the registry, and how far the
runner is. Each installer is an operator from one such record to the next; `Then` is
sequential code, in which nothing follows a raise. A call that raises leaves what it has
changed and may be made again; only a runner module whose import fails is dropped with
its class. A host build and its configuration is a record too (`Host`).

| Action | Code |
|---|---|
| `Register` | `register()`: `TritonRuntime`, `MessageQueueDefaults`, `LazyRunnerHook`, `StatefulHooks` |
| `ImportRunner` | the loader of the import hook: `RoutedExpertsTypes`, the module, `RunnerHooks` |
| `LoadModel` | the wrapped `load_model`: `CreateMethod`, `LayerAwareReplay`, `QueryHook`, `GdnListCompat`, `GroupedTopkRouter`, calibration and the original |
| `InitializeKVCache` | the wrapped `initialize_kv_cache`: `Validated`, provider, `ModelRoutingFlag`, the original, `Bound`, `SlotHooks` |
| `BuildScheduler` | `Scheduler.__init__` with the plugin's state: `CreateMethod`, `SchedulerHost`, `CoordinatorHooks` |

The last argument of the first four says what fails for reasons of its own (`Fails`): an
import, the calibration, or the host's callable itself. What a build does not support is its
`fits`: the configuration (`Validated`), the layout of the cache (`Bound`), the block tables
(`SlotHooks`) or the scheduler (`SchedulerHost`).

`GdnLists` models the cache of converted lists. An address names an object; an object is a
view of a buffer and may be released, after which its address may name another one. A
buffer without a version counter is an inference tensor, which the host fills in place.
`BeginStep` is the hooked `execute_model`, which clears the cache; `BeginDummy` is a dummy
run, which does not; `Convert` and `ConvertView` are the wrapped operator on a tensor of
the metadata and on a temporary view that dies in the call (`AsIntList`).

`Qualification` models the client:

| Action | Code |
|---|---|
| `SendEarlier` | other clients, whose lines are in the log before this run begins |
| `Start` | `main()`: loads the cases, refuses a closed loop with more than one request at a time, notes the size of the log (`offset`) |
| `Submit`, `Return` | `_run_open_loop` (a pool of threads) or `_run_closed_loop` (one request after the other), `run_case` |
| `Collect` | all requests have ended; where a thread's exception comes out |
| `LookAtLog`, `ReadLog` | `_compression_evidence`: no path, a path of no file (`stat` raises), or the size and then the lines behind the offset |
| `Commit`, `Acknowledge`, `Forgets` | the service as the log shows it: a rank acknowledges a commit when the request's next step reaches it |

`Passed` is the exit status of either script, `Comparable` and `Scored` what the comparison and
the score demand of one result. The benchmark script has no `auto` expectation and no closed
loop. A closed loop is a sequence of requests: whether they are the cases again makes no
difference to what is counted. `missing` and `offset.quiet` are history: commits that some rank
never acknowledged, and whether nothing was under way when the run began. `LookAtLog` remembers
in `evidence.size` how much the log held, so that later lines can be told.

`Deployment` joins them: a step of the runner clears the list cache only if its class is
hooked, commit lines come from a hooked scheduler and acknowledgements from hooked ranks.

## 3. Runs

Every passing run checks deadlock too, except `calibrate`, in which every process
comes to rest, and `deployment`, which ends with the verdict.

| Run | Instance | Shows |
|---|---|---|
| `async_deep` | 2 requests, 3 batches in flight, prefix cache, abort, fair engine | `SourceOutlivesQueue`, `RefExact` through a two-step deferral, `Progress` |
| `system_async` | 2 requests sharing a prefix block, asynchronous, abort, reset | `WorkerAgrees`, `HashedBlocksAreExact`, `RefExact`, `PrivateKV`, `FrozenIffPending`, `CacheIsLogical` |
| `system_reuse` | 1 request, the pool hands out any free block, reset | `CommitAfterOutput` and `CacheIsLogical` where a plan recurs by value |
| `system_sync` | 2 requests, blocks of 2 tokens, synchronous, abort, reset | `TypeOK`, `WorkerTypeOK`, `PendingSourceStable` without any freeze, `CacheIsLogical` across block boundaries |
| `tight` | 1 request, a pool of exactly 5 blocks | **violation** of `ContinuesAfterCommit` (section 5) |
| `runner` | 2 requests, 2 layers, chunks of 1 or 2 tokens, hits, one preemption or finish each, a declared method that observes queries, a host that may bypass a hook | `RowsCurrent`, `LengthsOnce`, `BypassFails`, `FailsOnlyIfBypassed`, `WindowComplete` |
| `runner_undeclared` | the same, undeclared, nothing observed, no bypass | **violation** of `FailsOnlyIfBypassed` |
| `selection` | both policies, windows of 0 to 2 tokens, 1 to 3 segments, prompts of up to 7 tokens and a budget of 4 | `InOrder`, `WindowsStay`, `BatchedAgrees`, `Proportional`, nothing raises |
| `calibrate` | 2 services and 2 commands for two models, one with `--force`, one kill, deletion | `PublishedWhole`, `NeverOverwritten`, `SameStatistics`, `ServedIsBound`, `ComesToRest` |
| `calibrate_missing` | no artifact in the beginning | **violation** of `MissingIsGenerated` |
| `hybrid` | 2 requests, an attention group with pages of 2 and a state group with pages of 3 tokens, up to 2 drafts, 10 blocks, one abort | `PoolExact`, `AnchorsAccepted`, `GroupsFit` |
| `deployment` | 21 host builds and configurations with one failing import or call; runs of one or two requests, with the log, without one, or with the path of none, in an open or a closed loop, behind an earlier request; up to 2 commits, 1 or 2 ranks, all labels, scripts and expectations | `ServingIsHooked`, `ListIsCurrent`, `VerdictIsEarned` |

Bounds of the scheduler and system runs, all constants of the cfg files: requests (1 or 2), blocks (4 or 5), prompt
lengths (2 or 3), output lengths (1 to 3), `Depth` (1 to 3), token budget of a batch
(3 or 4), `Budget` and `Recompute` (1 or 2, so that `Threshold` is 2 or 3 and is reached
by a prompt and again by the decode steps of a compacted request). Output lengths
bound every behaviour; nothing else is cut. They are enough for: two transactions
pending at once, a transaction on top of a committed one, prefill in chunks, a
shared prefix block, preemption for lack of blocks, a plan skipped for lack of
blocks, aborts and resets in every phase, and commits with one and two batches
queued. No request of these instances is short enough for `MinOutput` (2, in `hybrid` 1) to
keep it from being compressed: that guard, also in `PrefixCacheHitCap`, is left to the proofs.
`LowestFirst` makes the pool deterministic (a symmetry reduction over interchangeable
blocks); `system_reuse` drops it because block identity matters for plan equality.

In `runner` the threshold is 3 and the budget 2, so that a prompt of three tokens is
compressed, at the end of one, two or three chunks or behind a hit, and the request is
compressed a second time on the next decode step. The prefix cache may hold two of the three
tokens (`MaxHit`) and the window is as long, so that the cap of the hit decides whether the
window is computed. One reset of a request starts its
prefill anew in any step. Two rows are enough for a swap, a join and a leave with equal
and with different offsets; two layers for one that is and one that is not at the
group maximum. Metadata may be built any number of times. In `selection` the shapes
include equal and unequal quotas, uneven widths, empty segments and quotas, no window
at either end, and a second compression of a cache that has gaps; two scores give
every tie. `MaxKills` bounds kills, power losses and exceptions together to one.

In `hybrid` the pages of the groups have no common boundary below six tokens, one prompt
is shorter than a page of the state group plus the threshold and the other spans two, so
that a commit, a rollback and a page boundary of either group fall together in every
way; ten blocks are too few for both requests, so that preemption and skipped plans
occur. With drafts a compacted request is not armed again; without them the same
module allows it, which the proofs cover. In `deployment` a process may register, import
and load again after any failure, one failure is free and any number come from the
build itself; runs are measured on aligned hosts with one and with two ranks, with two requests
that break, return and commit in any order, and with one request where what matters is the log:
none, absent, or with the lines of an earlier request that may still be under way. One cached
list, two addresses and three buffers (one with a version counter), each filled once,
are enough for a reused address, an eviction, a stale buffer and a temporary view.
`Alike` permutes the two ranks, the two requests of one run, the addresses and the two
buffers without a counter, which no definition tells apart.

Fairness (`FairSpec` of `Calibration`): a process that has not been stopped runs on, and
flock wakes up a waiter; nothing is assumed about the environment. Fairness (`FairSpec`
of `Scheduler`): the engine core loops while there is work (`EngineStep`,
`HostStep` weakly fair), the worker executes what it is sent (`WorkerRuns` weakly
fair), and the host's queues are first come first served, so that a request that
can be scheduled again and again is scheduled (`Admit(r)`, `ScheduleRunning(r)` strongly
fair). Nothing is assumed about aborts; `reset_prefix_cache` can undo the work for ever,
so `FairSpec` describes a service on which nobody calls it. No fairness is put on the sampling of a stop token: a request stops at
`MaxTokens`, as the host guarantees.

## 4. Proofs

`SchedulerProofs`, for every value of the constants that satisfies the assumptions
in `Scheduler` (any number of requests and blocks, any depth, block size, budget and
prompt):

- `TypeCorrect`: `Spec => []TypeOK`. One lemma per handler on `KV` records, then one per
  action. The host part needs that prefix hits and new blocks are block lists.
- `FreezeCorrect` and `SourceCorrect`: `FrozenIffPending` and `PendingSourceStable`. Neither
  is inductive. A thaw restores the step *saved* when the request was frozen, so the
  invariant says what is saved (`Disciplined`); the host leaves the table of a pending
  request alone because the request is frozen in asynchronous mode, but in
  synchronous mode because every plan is acknowledged by the only queued batch and
  committed before the next schedule (`SyncCommits`); and a plan is armed on a
  *running* request because whatever is in the batch runs (`BatchRuns`). The
  conjunction `TransactionInv` is inductive (`TransactionCorrect`). The proof abstracts each
  handler into `Handled(k, j)`: it keeps the discipline and leaves the plan and the
  table of what stays pending alone. That relation is transitive, so each action is
  the composition of a few cited lemmas.

Its second half is about the block accounting, by the *places* a block can be held
at: a table, a reservation, a release due in so many outputs.

- `RefCorrect` and `PrivateCorrect`: `RefExact` and `PrivateKV`. Neither is inductive: that a new
  block is nobody else's follows from exact counts, that a shared block is not private from
  its hash, and that a request may be given shared blocks at all from its holding nothing
  when it does not run (`RestIdle`). `AccountingInv` adds these to `TransactionInv`
  (`AccountingCorrect`). A handler releases the blocks at some places and moves those at the
  others by an injection (`Moves`); one lemma about such moves covers the free hook,
  the discards, the drain and both forms of the commit, whose cardinalities need the
  place a source is deferred to be empty: that is why `AfterModelOutput` drains first.
- `OutlivesCorrect`: `SourceOutlivesQueue`. A replaced source is put down for `Depth - 1`
  outputs, at most `Depth - 1` batches are queued behind the one being consumed
  (`QueueBounded`), and both come one nearer to their end with each output.

Its third part extends that to how much a request holds, which is what the worker relies on:

- `ExtentCorrect`: `ExtentInv`, the accounting invariant with `Extent`. A running request has
  blocks for all its computed tokens in the lengths the hooks hand out (`Fitted`); the blocks of
  a table that are not full are unhashed and in no other table (`Unfilled`), so that nobody
  reads what the request will still write; placeholders are the tokens the batches in flight
  will sample (`PlaceholdersExact`); and what has been announced to the worker as finished or
  reset has left the batch, or was resumed in it (`Announced`). A commit swaps the length and
  the table in one step (`Settles`), an output takes back a placeholder, and preemption and
  reset take back all of them.

Its fourth part is about the barrier between a commit and the batches in flight:

- `OutputBarrier`: the action property `CommitAfterOutput`. Plans are matched by value, so what has to be
  known is when a value recurs. `BarrierInv` (`BarrierCorrect`) adds to `ExtentInv` that no chunk is empty
  (`UnderWay`); that a request whose plan is in flight has been computed beyond it once it is scheduled again,
  unless its preemption or reset is on the way to the worker behind that plan (`PlansPass`): hence
  two batches in flight with one plan have a report of that between them (`RepeatsReported`); and that
  no acknowledged plan waits in asynchronous mode (`NoneReady`), so that what an output commits is what
  its own batch carried. The first two need each other: a plan names the length its request had, and
  an empty chunk would let the same length be planned twice.

`SystemProofs`, about scheduler and worker together:

- `AgreementCorrect`: `WorkerAgrees`, no check of the worker raises and no slot is written twice.
  The worker is behind the scheduler by every batch in flight, with as many commits, resets
  and reused blocks in between, so no invariant of one worker state is inductive. What is: there is a *trace* of
  worker states, one after each queued batch (`Follows`), each of which runs its batch through
  (`Fine`: every token has a slot, every plan meets the length and table it was made for), and
  the last of which, after the batch being built, is what the scheduler believes
  of the worker (`Reaches`). An action of the scheduler changes the end of the trace, `EndSchedule` extends
  it, `WorkerRuns` consumes its head (`TrackInv`, `TrackCorrect`).
- `WorkerTypeCorrect`: `WorkerTypeOK`.
- `ExactnessCorrect`: `HashedBlocksAreExact`. Again about the future of the queue: besides the trace of
  states there is one of *facts*, each that a memory cell holds a given token at a given position. A batch
  keeps the facts about cells that it neither writes nor copies to, and adds those about the cells it fills
  (`Learnt`); at the end of the queue the facts cover every hashed block and every
  token of an uncompressed running request (`Recalls`). `RecallInv` is `TrackInv` with such
  a trace (`RecallCorrect`). That a batch forgets no fact about a hashed block uses all the
  earlier invariants: writes go to blocks that are not full (`Unfilled`), copies to reserved
  ones (`PrivateKV`), and blocks lose their hash before they are handed out again.

`LogicalProofs`, the refinement:

- `RefinementCorrect`: `CacheIsLogical`, scheduler, worker and queue implement `LogicalCache` under the
  mapping `View`. The initial states map to initial states, an action of the scheduler is a stutter, and an executed
  batch is a step of the logical cache (`ExecuteIsLogical`). Whether it is one was decided when the
  batch was scheduled, so `ViewInv` (`ViewCorrect`) adds a third trace, of the tokens
  that have run after each queued batch. Along the three traces every batch, the one that is being built
  included, continues a request exactly where the worker will have left it (`Resumes`), neither
  writes nor copies to what a request it continues or passes over sees (`Spared`), and
  begins a request only where the facts say what the prefix holds (`Begins`); the plans of a batch
  copy to places that differ from each other and from every row (`Separate`, `Clear`). `BatchIsLogical` derives
  the step from that: a row that is not touched shows the same (`Untouched`), a chunk appends
  consecutive positions behind a committed or an original cache alike (`SeesMore`), a prefill shows all positions
  from 0 on (`SeesStart`), and a materialized plan leaves the selected positions in their order (`SelectionRetains`:
  the increasing enumeration the code uses is the abstract `Retained`).
  `UnderWay`, from `BarrierInv`, says that the host never schedules an empty chunk, without which a step would not count as progress.

`SelectionProofs`, for every configuration, budget, threshold and set of scores, and prompts and requests of any length:

- `TypeCorrect`: `TypeOK`. The quotas, differences of one rounded-down sum, add up to what the budget
  leaves beside the windows and never exceed their segment (`EvictedGrows`, `QuotasAddUp`), so
  neither the `ValueError` (`selection.py:170`) nor the `RuntimeError` (`selection.py:193`) of
  `select_keep_indices` is raised.
- `OrderKept` and `WindowsKept`: `InOrder` and `WindowsStay`. Neither is inductive: a compression keeps the
  order because the selection lists existing entries of an ordered cache, and the windows because it lists
  theirs, which are the request's only if the cache began and ended with those. `IInv` says that
  (`Holds`), that a cache below the budget was never compressed, and that the last compression kept a listing
  its policy may choose (`KeptOf`).
- `BatchedRefines`: `BatchedAgrees`, the refinement of the loop over segments by the batched form. The row of a segment,
  sorted after the ranks behind its quota were replaced by the row's width, begins with the choice of that
  segment in order; every slot between the windows belongs to one segment (`SlotOwner`), whose row
  is the only one that writes to it, so that the surplus writes and their order do not
  matter (`FilledIs`, `BatchedKeeps`).
- `EvictionsShared`: `Proportional`.

  Sums over segments and sorted rows are functions on numbers, and what they compute is shown for every input by
  taking the set of the numbers that have the property and showing that it has 0 and is closed under +1
  (`Induction`, from a least number, `LeastOf`): no operator parameter is needed. That sorting lists a
  set in increasing order (`SortPermutes`, `SortedEnumerates`) is proved from the definition by ranks. TLC has checked `IInv` on
  the instance of the run `selection`.

`CalibrationProofs`, for any number of services, commands, models and failures:

- `TypeCorrect`: the type invariant with mutual exclusion: whoever is in the locked part
  holds the flock, and only a process that saves has a temporary file.
- `WholeCorrect`: `PublishedWhole`. A generated file is complete *and synced* wherever a
  power loss may look for it (`DurableInv`: at `stats_path`, at the settled name, and in
  the temporary file of whoever is about to rename it).
- `OverwriteCorrect`: `NeverOverwritten`. A process without `--force` that is past the
  recheck knows that there is nothing at the path (`NothingToOverwrite`); mutual
  exclusion keeps it so.
- `StatisticsCorrect`, `BoundCorrect`: `SameStatistics` and `ServedIsBound`. Undisturbed, the path only ever
  goes from empty to one artifact (`OneArtifact`): whatever is loaded is the file that is
  there, and whoever is about to load has accepted it.

`RunnerStepProofs`, for any number of requests, rows and layers, any windows and chunks:

- `TypeCorrect`, `RowsCorrect`: `TypeOK` and `RowsCurrent`. The early return of
  `_sync_request_offset_rows` compares with the last snapshot, so the invariant
  (`RowInv`) says that outside a step the snapshot *is* what the device holds, and that
  between the row update and the synchronization it is what it held; `LiveInv` says that
  only live requests have worker state.
- `LengthsCorrect`: `LengthsOnce`, from what each phase of the step has done to the lengths
  (`LengthsInv`): metadata may be built any number of times, and the replacement reads the
  semantic lengths, not its own result.
- `BypassCorrect`, `FailureCorrect`: a bypass fails the step and nothing else does, for a
  method that declares its per-layer state (`Declared`, assumed by the theorems; without
  it `runner_undeclared` refutes the second). `BypassInv` follows which layers have been
  given metadata and queries from the first hook of the step to the check.
- `WindowCorrect`: the action property `WindowComplete`, of the first compression and the later ones. What every layer has observed of a request that
  has never been compacted belongs to its current prefill and reaches from the window's start as far as the request
  has been computed (`WindowInv`); a prefix hit cannot skip any of it because the hit is capped
  by what the method must recompute (`HitBeforeWindow`), and a layer that was bypassed is noticed before
  the step is sampled from. A compacted request has nothing observed, because the queries are
  discarded when its plan is carried out and a decode step captures none (`AfterInv`).

`HybridGroupsProofs`, for any requests, groups, page sizes, pool and number of drafts:

- `TypeCorrect` and `AnchorsCorrect`: `TypeOK` and `AnchorsAccepted`. The inductive invariant `Inv`
  adds that what may be rolled back lies behind the prompt and was scheduled by this step.
- `PoolCorrect`: `PoolExact`. The blocks of all tables are one set of tagged pairs (`Held`), so
  each handler is a disjoint union or a difference (`HeldMoves`): what `Count` counts is the
  set of entries `Allocated` adds, group by group, whatever `GroupTokens` returns.

- `GroupsCorrect`: `GroupsFit`. Every plan and compression is anchored at a length that has been
  reached, in whole budgets (`Planned`), and a table is never longer than the trimmed length of
  its group plus what this step has scheduled (`Snug`): a state group that has
  been trimmed still ends at the block its request continues from, whatever is rolled back.

`DeploymentProofs`, for any addresses, buffers and cache size, any host builds, processes,
cases and ranks:

- `ListCorrect`: `ListIsCurrent`. While a step is running an entry that is alive belongs to the
  object at its address, and its list is what the buffer holds; nothing is filled between
  the first conversion and the end of the step (`CacheInv`).
- `HookedCorrect`: `ServingIsHooked`. `Sound` says what every process satisfies *in the middle* of
  any call (one wrapper per installed marker, markers only grow: `Later`), `Staged` what a call that
  has returned has achieved, and each installer has a contract (`Call`) that is closed under `Then`,
  so that a call that raises in any place leaves a process in which the next attempt adds
  nothing twice.
- `VerdictCorrect`: `VerdictIsEarned`. The counts of the log are tied to the service by an equation
  that every event keeps (`Tally`): acknowledgements, those still owed and those of dropped
  commits add up to the commits times the ranks. If the service was quiet when the run began,
  the same holds of what the log held then (`Origin`) and so of what has been added
  since. A request that was answered whole owes nothing (`Silent`), and only the run's own requests
  are sent after its start (`Apart`); so once all were answered whole the log grows no
  longer, and what is read is what there is (`Read`). Without a log nothing is read (`Blank`).
- `PartsCorrect`: every behaviour of `Deployment` is one of `Activation`, `GdnLists` and `Qualification`: a
  scheduler that is up is behind ranks that are all hooked (`UpIsHooked`), so a step clears the
  list cache whenever the bridge is enabled and every rank is asked to acknowledge. Hence
  `DeploymentCorrect`, all three promises for the composed system, and `DeploymentTypeCorrect`.

Assumptions: those of the modules, which the configuration checks of the code justify
(`Budget` a multiple of `BlockSize`, `Depth = 1` when synchronous) or which only say that sets of
cases, ranks, hosts and runs are what their names say (`Hosts` are host builds, `Case` and `Rank` are
finite, a process of `Deployment` is a rank's worker or the scheduler's), and `NoneAssumption`,
`WorkerNoneAssumption` (None is not a value of another type: no plan, entry, transaction or block list). TLC evaluates all of them in
every run. The invariants above that no run names are conjunctions of properties runs
name and of facts TLC has checked as invariants of the same instances before the proofs, those about traces
excepted: a trace is under an existential quantifier over functions, and only the proof covers it.

Only model-checked, and why:

- `Progress` and `ComesToRest`: liveness under fairness is out of the prover's reach.
- `ContinuesAfterCommit`, `MissingIsGenerated` and, without the declaration, `FailsOnlyIfBypassed`: the
  runs refute them.

## 5. What the runs say about the code

- **Self-preemption under memory pressure** (`tight`). After an asynchronous commit the
  old table stays allocated until `Depth - 1` more outputs have been consumed, but the
  request's next token is scheduled before that. If no other block is free the host
  preempts the request itself; that frees source and private copy, the prompt is
  prefilled again, reaches the prompt boundary in one chunk, and is compressed again:
  for ever, with a pool in which the same request finishes uncompressed.
  `docs/usage/serving.md:41` says "Check that the service continues generating after the
  commit." A larger pool, or a chunk boundary that misses the prompt end, ends it.
- **Acknowledgement by value.** `stateful.py:283` promises to commit "only plans whose model
  output has crossed the worker barrier", but outputs are matched to plans by value
  (`stateful.py:366`). A new plan can equal that of an output still in flight, be
  acknowledged by it and be committed before its own batch has run. After `reset_prefix_cache` this takes
  a pool that hands out the same blocks again. With three batches in flight it takes no
  reset: a request with a pending plan is preempted because another one needs blocks, the other one finishes or is aborted, and the
  first is prefilled again on the same blocks through prefix hits and armed with an equal plan. `CommitAfterOutput`
  states what remains true, and is proved for every depth: a batch in flight with the plan being committed only repeats
  it, and the worker is told of the preemption in between. That does no harm to the KV: the
  worker executes in order, so whatever reads the new table runs behind the batch that fills it
  (`WorkerAgrees`, `HashedBlocksAreExact` and `CacheIsLogical`, proved for every depth; `system_reuse` contains the
  repetition).
- The same reason makes the deferral conservative: a frozen request is in no queued
  batch, so no batch ever reads the source behind its commit. `SourceOutlivesQueue`
  states the promise of `docs/design/ascend-adaptation-vs-triattention-vllm.md`
  ("releases old blocks only after already queued batches finish").
- **A missing artifact is never generated** (`calibrate_missing`). `load_model` first constructs
  the configured method (`plugin.py:170`), whose constructor loads `stats_path` and raises
  when there is none; `ensure_calibration_for_runner` comes later.
  `docs/development/calibration-artifacts.md:12` promises the generation.
- **A bypass error without a bypass** (`runner_undeclared`). Whether a step needs per-layer
  metadata is read before `_update_states` (`plugin.py:287`) and acted on after it
  (`plugin.py:251`). When the last request with layer-distinct lengths leaves the batch and
  another one is scheduled, the check reports a hook that "was bypassed by the host", and
  the engine fails. Declaring `requires_per_layer_physical_state` avoids it; the document
  allows an undeclared unequal result in eager mode.
- **Completion at a decode step.** `complete_query_observation` is also called when a
  compacted request is compressed again on a decode step, when the prompt's queries have
  long been discarded (`provider.py:545`). `docs/design/methods.md:187` speaks of the final prefill
  step only; a method has to expect both. `WindowComplete` shows that these are the only two
  cases: the first compression of a prefill has its whole window in every layer, a later one
  has nothing.
- **A run without a log.** `--server-log` is optional in both scripts
  (`kvcompress_long_context_run.py:423`, `kvcompress_benchmark_run.py:298`). Without it the
  evidence is no commits and no acknowledgements whatever the service did, so "optional" and
  "forbidden", the `auto` of a B0 run, and the comparison's exact count pass; only "required"
  fails. `VerdictIsEarned` claims what the evidence says for a run with a log, and for a run
  without one only that its requests were answered whole. The log counts for the run only
  if nothing was under way in the service when it began and nobody else sends requests meanwhile: the
  lines are not matched to requests. A path of no file makes the script raise.
- **Acknowledgements of several ranks.** Every rank logs an acknowledgement, the scheduler
  one commit line. The gate of a run (`kvcompress_long_context_run.py:402`,
  `kvcompress_benchmark_run.py`) asks for at least as many acknowledgements as commits,
  so with two ranks it passes with every second commit unacknowledged. The comparison
  demands the exact multiple, which `docs/benchmark/frontier-benchmarking.md:48` asks
  for. `VerdictIsEarned` therefore claims completeness of the run's gate for one rank, and
  of the comparison for any number.

## 6. Plan

Done: the transaction core (`Scheduler`, `KVCompression`, `LogicalCache`), the runner's step,
the selection policies, calibration, hybrid groups with drafts, activation, the GDN list
bridge, and qualification; the refinement of the
logical cache; theorems about every module, in eight proof modules. Next, in this order:

1. `RunnerStep` composed with the worker of `KVCompression`: `Execute` implemented by the steps
   of the runner, under the plans the scheduler really sends.
2. Speculative rows and the auxiliary cache's metadata in `RunnerStep`.
3. Hybrid groups in asynchronous mode, with prefix hits.

Not modelled, and why:

- TriAttention scoring, the device kernels, the GDN operator and its reference fallback:
  floating-point numerics, which TLC cannot evaluate. Selection takes any scores.
- The statistics inside a calibration artifact, for the same reason.
- Preparation and download of datasets, leaderboard and report scripts: sequential
  tooling that shares no state with the plugin.
- Rotation or truncation of the server log while a run is measured
  (`kvcompress_long_context_run.py:370` reads from the end of a log that became shorter), other
  clients during a run, and what the comparison and the score demand beyond counts and whole
  answers: quality, latency and the results they are compared with.
- Parsing of options and manifests, signature inspection of host classes: pure checks;
  their outcome (accepted or refused) is an input of `Activation`.
