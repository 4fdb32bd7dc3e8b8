---------------------------- MODULE HybridGroups ----------------------------
(***************************************************************************)
(* The scheduler side of compression for a hybrid model with speculative   *)
(* decoding (stateful.py).  One request has a block table in every cache   *)
(* group.  Compression shortens the full-attention group only; the state   *)
(* groups (Mamba, GDN) stay in semantic lengths.  The host passes one set  *)
(* of token counts for all groups, and the coordinator hooks translate it  *)
(* group by group when blocks are counted, allocated and skipped.  Drafts  *)
(* make the semantic length optimistic: what is rejected is rolled back    *)
(* after the step.                                                         *)
(*                                                                         *)
(* Scheduling is synchronous; Scheduler models the asynchronous protocol   *)
(* and the identities of blocks.  Here blocks are only counted: a table is *)
(* its length and the set of its entries that hold a block (not null).     *)
(***************************************************************************)
EXTENDS Integers, FiniteSets

CONSTANTS
  Req,         \* request ids
  None,        \* stands for Python's None
  Group,       \* the cache groups
  Attention,   \* attention_group_index
  Page,        \* block size of each group, in tokens
  PoolSize,    \* blocks of the pool all groups share
  Budget,      \* kv_budget
  Recompute,   \* recompute_window
  Prompt,      \* num_prompt_tokens of each request
  MaxTokens,   \* max_tokens of each request
  MinOutput,   \* min_output_tokens_for_compression
  Drafts,      \* num_speculative_tokens, and the host's lookahead
  MayAbort     \* requests a client may abort

ASSUME RequestAssumption ==
  /\ IsFiniteSet(Req)
  /\ Prompt \in [Req -> Nat \ {0}]
  /\ MaxTokens \in [Req -> Nat \ {0}]
  /\ MayAbort \subseteq Req
ASSUME GroupAssumption ==
  /\ IsFiniteSet(Group) /\ Attention \in Group
  /\ Page \in [Group -> Nat \ {0}]
  /\ PoolSize \in Nat
ASSUME ConfigAssumption ==
  /\ Budget \in Nat \ {0} /\ Budget % Page[Attention] = 0
  /\ Recompute \in Nat \ {0}
  /\ MinOutput \in Nat /\ Drafts \in Nat

VARIABLES
  status,    \* Request.status
  computed,  \* Request.num_computed_tokens; optimistic while a batch is out
  tokens,    \* Request.num_tokens: prompt and accepted output
  table,     \* req_to_blocks of each request in each group
  free,      \* BlockPool.get_num_free_blocks
  pending,   \* SchedulerPendingCompression
  active,    \* SchedulerActiveCompression
  batch,     \* per request: what the current batch has scheduled
  phase      \* where the engine loop is

vars == <<status, computed, tokens, table, free, pending, active, batch, phase>>

----------------------------------------------------------------------------
Pending == [semantic: Nat, ready: BOOLEAN]
Active == [semantic: Nat, physical: Nat]
Table == [size: Nat, live: SUBSET Nat]
Item == [n: Nat, drafts: Nat]
Empty == [size |-> 0, live |-> {}]

ASSUME NoneAssumption == None \notin Int \cup Pending \cup Active \cup Item

Threshold == Budget + Recompute
BlocksFor(n, size) == (n + size - 1) \div size
Keep == BlocksFor(Budget, Page[Attention])

(* _physical_tokens of an active compression c.                             *)
PhysicalTokens(n, c) ==
  LET left == n - (c.semantic - c.physical) IN IF left > 0 THEN left ELSE 0

(* The token count of group g when the host passes n for request r.         *)
GroupTokensAll(r, g, n) == \* mutant
  IF active[r] # None THEN PhysicalTokens(n, active[r]) ELSE n
GroupTokens(r, g, n) ==
  IF active[r] # None /\ g = Attention THEN PhysicalTokens(n, active[r]) ELSE n

(* What a manager needs slots for: attention also for the lookahead, state  *)
(* groups for num_tokens_main_model.                                        *)
Wanted(g, n) == IF g = Attention THEN n + Drafts ELSE n

(* The entry of a state group that holds the state after n > 0 tokens, and  *)
(* what remove_skipped_blocks leaves: full attention skips nothing.         *)
StateEntry(g, n) == BlocksFor(n, Page[g])
Skipped(t, g, n) ==
  IF g = Attention THEN t
  ELSE [t EXCEPT !.live = {i \in @ : i >= StateEntry(g, n)}]

(* What the manager of group g has to add to a table for n tokens.          *)
Required(g, n) == BlocksFor(n, Page[g])
Added(t, g, n) == t.size + 1 .. Required(g, n)

(* The hooked coordinator on the tables T of request r: the sum over the    *)
(* groups of get_num_blocks_to_allocate, allocate_new_blocks, and           *)
(* remove_skipped_blocks.                                                   *)
CountAllTranslated(r, T, n) == \* mutant
  Cardinality(UNION {{g} \X Added(T[g], g,
    IF active[r] = None THEN Wanted(g, n) ELSE PhysicalTokens(Wanted(g, n), active[r])) :
    g \in Group})
Count(r, T, n) ==
  Cardinality(UNION {{g} \X Added(T[g], g, GroupTokens(r, g, Wanted(g, n))) :
                     g \in Group})
Allocated(r, T, n) ==
  [g \in Group |->
     LET new == Added(T[g], g, GroupTokens(r, g, Wanted(g, n)))
     IN  [size |-> T[g].size + Cardinality(new), live |-> T[g].live \cup new]]
Trimmed(r) ==
  [g \in Group |-> Skipped(table[r][g], g, GroupTokens(r, g, computed[r]))]

(* The blocks of one request's tables, and the blocks of all requests and   *)
(* of the reservations.                                                     *)
Blocks(T) == UNION {{g} \X T[g].live : g \in Group}
Held == UNION {{r} \X Blocks(table[r]) : r \in Req}
Reserved == {r \in Req : pending[r] # None} \X (1..Keep)

----------------------------------------------------------------------------
Init ==
  /\ status = [r \in Req |-> "waiting"]
  /\ computed = [r \in Req |-> 0]
  /\ tokens = Prompt
  /\ table = [r \in Req |-> [g \in Group |-> Empty]]
  /\ free = PoolSize
  /\ pending = [r \in Req |-> None] /\ active = [r \in Req |-> None]
  /\ batch = [r \in Req |-> None]
  /\ phase = "idle"

(* before_schedule: every acknowledged plan is committed.  The attention    *)
(* table becomes the private copy, the state groups keep theirs.            *)
Committing == {r \in Req : pending[r] # None /\ pending[r].ready}
BeginSchedule ==
  /\ phase = "idle"
  /\ \E r \in Req : status[r] # "finished"
  /\ table' = [r \in Req |->
       IF r \in Committing
       THEN [table[r] EXCEPT ![Attention] = [size |-> Keep, live |-> 1..Keep]]
       ELSE table[r]]
  /\ free' = free + Cardinality(
       {h \in Held : h[1] \in Committing /\ h[2][1] = Attention})
  /\ active' = [r \in Req |->
       IF r \in Committing
       THEN [semantic |-> pending[r].semantic, physical |-> Budget]
       ELSE active[r]]
  /\ pending' = [r \in Req |-> IF r \in Committing THEN None ELSE pending[r]]
  /\ phase' = "building"
  /\ UNCHANGED <<status, computed, tokens, batch>>

(* allocate_slots trims, counts, and allocates what was counted.  Drafts    *)
(* are scheduled behind the last accepted token only.                       *)
Fits(r, n) == Count(r, Trimmed(r), n) <=
                free + Cardinality(Blocks(table[r])) - Cardinality(Blocks(Trimmed(r)))
Schedulable(r, n, d) ==
  /\ phase = "building" /\ batch[r] = None
  /\ status[r] # "finished"
  /\ n \in 1..(tokens[r] - computed[r])
  /\ d > 0 => computed[r] >= Prompt[r] /\ computed[r] = tokens[r] - 1
Schedule(r, n, d) ==
  /\ Schedulable(r, n, d)
  /\ Fits(r, computed[r] + n + d)
  /\ LET T == Allocated(r, Trimmed(r), computed[r] + n + d) IN
     /\ table' = [table EXCEPT ![r] = T]
     /\ free' = free + Cardinality(Blocks(table[r])) - Cardinality(Blocks(T))
  /\ status' = [status EXCEPT ![r] = "running"]
  /\ batch' = [batch EXCEPT ![r] = [n |-> n, drafts |-> d]]
  /\ UNCHANGED <<computed, tokens, pending, active, phase>>

(* The hooked free of request v: it forgets the compression and releases    *)
(* the reservation before the host releases the tables.                     *)
FreeKeepsActive(v, T) == \* mutant
  /\ table' = [T EXCEPT ![v] = [g \in Group |-> Empty]]
  /\ free' = free + Cardinality(Held)
               - Cardinality(UNION {{r} \X Blocks(T[r]) : r \in Req \ {v}})
               + (IF pending[v] = None THEN 0 ELSE Keep)
  /\ pending' = [pending EXCEPT ![v] = None]
  /\ UNCHANGED active
Free(v, T) ==
  /\ table' = [T EXCEPT ![v] = [g \in Group |-> Empty]]
  /\ free' = free + Cardinality(Held)
               - Cardinality(UNION {{r} \X Blocks(T[r]) : r \in Req \ {v}})
               + (IF pending[v] = None THEN 0 ELSE Keep)
  /\ pending' = [pending EXCEPT ![v] = None]
  /\ active' = [active EXCEPT ![v] = None]

(* A running request r does not fit, so the host preempts v.  The trimming  *)
(* of r stays.                                                              *)
Preempt(r, v, n, d) ==
  /\ Schedulable(r, n, d) /\ status[r] = "running"
  /\ ~Fits(r, computed[r] + n + d)
  /\ status[v] = "running" /\ batch[v] = None
  /\ Free(v, [table EXCEPT ![r] = Trimmed(r)])
  /\ status' = [status EXCEPT ![v] = "waiting"]
  /\ computed' = [computed EXCEPT ![v] = 0]
  /\ UNCHANGED <<tokens, batch, phase>>

(* The host advances the computed tokens, drafts included; after_schedule   *)
(* arms plans while the pool has room for the private copy.                 *)
Advanced(r) == IF batch[r] = None THEN computed[r]
               ELSE computed[r] + batch[r].n + batch[r].drafts
ArmableOptimistic(r) == \* mutant
  /\ batch[r] # None /\ pending[r] = None
  /\ MaxTokens[r] >= MinOutput
  /\ IF active[r] = None
     THEN Advanced(r) = Prompt[r] /\ Advanced(r) >= Threshold
     ELSE active[r].physical + Advanced(r) - active[r].semantic >= Threshold
Armable(r) ==
  /\ batch[r] # None /\ batch[r].drafts = 0
  /\ pending[r] = None
  /\ MaxTokens[r] >= MinOutput
  /\ IF active[r] = None
     THEN Advanced(r) = Prompt[r] /\ Advanced(r) >= Threshold
     ELSE /\ active[r].physical + Advanced(r) - active[r].semantic >= Threshold
          /\ Drafts = 0
EndSchedule(A) ==
  /\ phase = "building"
  /\ A \subseteq {r \in Req : Armable(r)}
  /\ Keep * Cardinality(A) <= free
  /\ A # {r \in Req : Armable(r)} => free < Keep * (Cardinality(A) + 1)
  /\ free' = free - Keep * Cardinality(A)
  /\ pending' = [r \in Req |->
       IF r \in A THEN [semantic |-> Advanced(r), ready |-> FALSE] ELSE pending[r]]
  /\ computed' = [r \in Req |-> Advanced(r)]
  /\ phase' = "out"
  /\ UNCHANGED <<status, tokens, table, active, batch>>

(* update_from_output for one request of the batch: rejected drafts are     *)
(* rolled back, a request that has all its tokens samples, and the output   *)
(* acknowledges its plan.  a drafts were accepted.                          *)
Consume(r, a) ==
  LET i == batch[r]
      samples == computed[r] - i.drafts >= tokens[r]
      grown == tokens[r] + 1 + a
      stops == samples /\ grown >= Prompt[r] + MaxTokens[r]
  IN  /\ phase = "out" /\ i # None
      /\ a \in 0..i.drafts
      /\ computed' = [computed EXCEPT ![r] = @ - (i.drafts - a)]
      /\ tokens' = [tokens EXCEPT ![r] = IF samples /\ ~stops THEN grown ELSE @]
      /\ batch' = [batch EXCEPT ![r] = None]
      /\ IF stops
         THEN Free(r, table) /\ status' = [status EXCEPT ![r] = "finished"]
         ELSE /\ pending' = [pending EXCEPT ![r] =
                   IF @ = None THEN None ELSE [@ EXCEPT !.ready = TRUE]]
              /\ UNCHANGED <<status, table, free, active>>
      /\ UNCHANGED phase

(* The whole output has been consumed.                                      *)
EndUpdate ==
  /\ phase = "out" /\ batch = [r \in Req |-> None]
  /\ phase' = "idle"
  /\ UNCHANGED <<status, computed, tokens, table, free, pending, active, batch>>

(* finish_requests; the host drops what the batch computed for r.           *)
Abort(r) ==
  /\ r \in MayAbort /\ status[r] # "finished" /\ phase # "building"
  /\ Free(r, table)
  /\ status' = [status EXCEPT ![r] = "finished"]
  /\ batch' = [batch EXCEPT ![r] = None]
  /\ UNCHANGED <<computed, tokens, phase>>

Terminated ==
  /\ phase = "idle" /\ \A r \in Req : status[r] = "finished"
  /\ UNCHANGED vars

Next ==
  \/ BeginSchedule
  \/ \E r \in Req, d \in 0..Drafts : \E n \in 1..(tokens[r] - computed[r]) :
       \/ Schedule(r, n, d)
       \/ \E v \in Req : Preempt(r, v, n, d)
  \/ \E A \in SUBSET Req : EndSchedule(A)
  \/ \E r \in Req, a \in 0..Drafts : Consume(r, a)
  \/ EndUpdate
  \/ \E r \in Req : Abort(r)
  \/ Terminated

Spec == Init /\ [][Next]_vars

----------------------------------------------------------------------------
(* The types; only a running request has blocks, a plan or a compression,   *)
(* and nothing is scheduled while the engine is idle.                       *)
TypeOK ==
  /\ status \in [Req -> {"waiting", "running", "finished"}]
  /\ computed \in [Req -> Nat]
  /\ tokens \in [Req -> Nat]
  /\ table \in [Req -> [Group -> Table]]
  /\ free \in Int
  /\ pending \in [Req -> Pending \cup {None}]
  /\ active \in [Req -> Active \cup {None}]
  /\ batch \in [Req -> Item \cup {None}]
  /\ phase \in {"idle", "building", "out"}
  /\ phase = "idle" => batch = [r \in Req |-> None]
  /\ \A r \in Req : status[r] # "running" =>
       /\ table[r] = [g \in Group |-> Empty]
       /\ pending[r] = None /\ active[r] = None /\ batch[r] = None

(* What was counted before an allocation is what the allocation takes, so   *)
(* the pool is never overdrawn; and every block is in a table, reserved or  *)
(* free, whichever of them a commit, a preemption or a stop moves.          *)
PoolExact ==
  /\ free >= 0
  /\ free = PoolSize - Cardinality(Held) - Cardinality(Reserved)

(* How far a request is once rejected drafts have been rolled back, at the  *)
(* worst, and where the step that is out started.                           *)
Accepted(r) ==
  IF phase = "out" /\ batch[r] # None THEN computed[r] - batch[r].drafts ELSE computed[r]
Start(r) ==
  IF phase = "out" /\ batch[r] # None
  THEN computed[r] - batch[r].n - batch[r].drafts ELSE computed[r]

(* The anchor of a plan or of a compression is never a length that can roll *)
(* back, so subtracting the removed tokens never falls below zero.          *)
AnchorsAccepted ==
  \A r \in Req :
    /\ pending[r] # None => pending[r].semantic <= Accepted(r)
    /\ active[r] # None => active[r].semantic <= Accepted(r)

(* Every group can hold its own length: the attention table is full and     *)
(* covers the physical length, a state group has the entry it continues     *)
(* from and all entries behind it, at the semantic length.  And compression *)
(* saves what it promises: the attention table never grows with the         *)
(* semantic length.                                                         *)
Length(r, g) ==
  (IF phase = "building" THEN Advanced(r) ELSE computed[r])
    - (IF g = Attention /\ active[r] # None
       THEN active[r].semantic - active[r].physical ELSE 0)
Fit(r, g) ==
  LET t == table[r][g] IN
  /\ Required(g, Length(r, g)) <= t.size
  /\ t.size <= Required(g, Length(r, g) + 2 * Drafts)
  /\ IF g = Attention THEN t.live = 1..t.size
     ELSE {i \in StateEntry(g, Start(r))..t.size : i > 0} \subseteq t.live
GroupsFit == \A r \in Req, g \in Group : status[r] = "running" => Fit(r, g)
=============================================================================
