--------------------------- MODULE KVCompression ---------------------------
(***************************************************************************)
(* The scheduler of module Scheduler and the worker (provider.py and the   *)
(* runner wrappers of plugin.py) that executes its batches.                *)
(*                                                                         *)
(* Executing a batch is one action, as the worker is single threaded:      *)
(* before_update_states resets and commits, the host updates its rows from *)
(* the output, after_update_states prunes, the model writes the new KV at  *)
(* the physical slots, and after sampling compress_scheduled_requests      *)
(* materializes the plans of the batch into their private blocks.          *)
(*                                                                         *)
(* The KV memory holds, per block and offset, whose token it is, its       *)
(* semantic position, and whether it was computed on an uncompressed       *)
(* context.  The selection is any Budget tokens in their original order.   *)
(***************************************************************************)
EXTENDS Scheduler

VARIABLES
  row,      \* runner.requests[r].block_ids and its block-table row, or None
  seen,     \* the runner's computed tokens of r, after the batch
  wpending, \* provider.pending
  wactive,  \* provider.active
  mem,      \* the attention layers' KV memory
  raised    \* a RuntimeError of the provider reached the engine

wvars == <<row, seen, wpending, wactive, mem, raised>>
allvars == <<vars, wvars>>

Token == [owner: Req \cup {None}, pos: Nat, exact: BOOLEAN]
WorkerPending == [semantic: Nat, physical: Nat, blocks: BlockList]

ASSUME WorkerNoneAssumption == None \notin WorkerPending \cup BlockList

----------------------------------------------------------------------------
(* before_update_states, and the host's update of its rows.                 *)

ResetFinished(o) == \* mutant: preempted and resumed requests keep their state
  o.finished
Reset(o) == o.finished \cup o.preempted
            \cup {r \in Req : o.sched[r] # None /\ o.sched[r].kind = "resumed"}
Committing(o) == {r \in Req \ Reset(o) : wpending[r] # None /\ o.sched[r] # None}

RowsAfter(o) ==
  [r \in Req |->
     IF o.sched[r] = None THEN IF r \in o.finished \cup o.preempted THEN None ELSE row[r]
     ELSE IF o.sched[r].kind # "cached" THEN o.sched[r].blocks
     ELSE (IF r \in Committing(o) THEN wpending[r].blocks ELSE row[r]) \o o.sched[r].blocks]

ActiveIsPending(o) == \* mutant: the pending record itself becomes the active one
  [r \in Req |-> IF r \in Reset(o) THEN None
                 ELSE IF r \in Committing(o) THEN wpending[r] ELSE wactive[r]]
ActiveAfter(o) ==
  [r \in Req |->
     IF r \in Reset(o) THEN None
     ELSE IF r \in Committing(o)
     THEN [semantic |-> wpending[r].semantic, physical |-> wpending[r].physical]
     ELSE wactive[r]]

PendingAfter(o) ==
  [r \in Req |-> IF r \in Reset(o) \cup Committing(o) THEN None ELSE wpending[r]]

End(o, r) == o.sched[r].start + o.sched[r].n
SeenAfter(o) ==
  [r \in Req |-> IF o.sched[r] # None THEN End(o, r)
                 ELSE IF r \in o.finished \cup o.preempted THEN 0 ELSE seen[r]]

----------------------------------------------------------------------------
(* The forward pass.                                                        *)

(* Semantic position p of a request with worker state a, in physical slots. *)
Slot(a, p) == IF a = None THEN p ELSE p - (a.semantic - a.physical)
Address(blocks, q) == <<blocks[q \div BlockSize + 1], q % BlockSize>>

Written(r, p, a) ==
  [owner |-> IF p < Shared THEN None ELSE r, pos |-> p, exact |-> a = None]

Writes(o) ==
  UNION {{r} \X (o.sched[r].start..End(o, r) - 1) : r \in {q \in Req : o.sched[q] # None}}

AfterForward(o, rows, act) ==
  LET addressOf == [w \in Writes(o) |-> Address(rows[w[1]], Slot(act[w[1]], w[2]))] IN
  [b \in Block |-> [q \in 0..BlockSize - 1 |->
     IF \E w \in DOMAIN addressOf : addressOf[w] = <<b, q>>
     THEN LET w == CHOOSE w \in DOMAIN addressOf : addressOf[w] = <<b, q>>
          IN Written(w[1], w[2], act[w[1]])
     ELSE mem[b][q]]]

(* Every write of the batch has a block in its row, and a slot of its own.  *)
SlotsExist(o, rows, act) ==
  \A w \in Writes(o) : Slot(act[w[1]], w[2]) \in 0..Len(rows[w[1]]) * BlockSize - 1
SlotsDisjoint(o, rows, act) ==
  \A v, w \in Writes(o) :
    Address(rows[v[1]], Slot(act[v[1]], v[2])) = Address(rows[w[1]], Slot(act[w[1]], w[2]))
      => v = w

----------------------------------------------------------------------------
(* compress_scheduled_requests.                                             *)

Physical(act, r, n) == IF act[r] = None THEN n ELSE act[r].physical + n - act[r].semantic

(* The planned requests that the loop does not pass over, and those among   *)
(* them that are long enough to be compressed.                              *)
Planned(o, act) ==
  {r \in Req :
     /\ o.plans[r] # None /\ o.sched[r] # None
     /\ PendingAfter(o)[r] = None
     /\ MaxTokens[r] >= MinOutput
     /\ act[r] = None => SeenAfter(o)[r] = Prompt[r]}
Due(o, act) == {r \in Planned(o, act) : Physical(act, r, SeenAfter(o)[r]) >= Threshold}

(* The checks of a due plan that raise before anything is materialized.     *)
Disagrees(o, rows, r) ==
  LET plan == o.plans[r] IN
  \/ Len(rows[r]) < Keep
  \/ rows[r] # plan.source
  \/ Len(plan.dest) # Keep \/ Range(plan.dest) \cap Range(rows[r]) # {}

(* method.compress: copy the kept tokens, in order, to the destination.     *)
SelectionsUnsorted(n) == \* mutant: the kept positions are left in score order
  {s \in [1..Budget -> 0..n - 1] : IsInjective(s)}
Selections(n) == {s \in [1..Budget -> 0..n - 1] : Ascending(s)}

MaterializedShort(m, o, rows, R, keep) == \* mutant: the last block is not filled
  [b \in Block |-> [q \in 0..BlockSize - 1 |->
     IF \E r \in R : b \in Range(SubSeq(o.plans[r].dest, 1, Keep - 1))
     THEN LET r == CHOOSE r \in R : b \in Range(o.plans[r].dest)
              i == CHOOSE i \in DOMAIN o.plans[r].dest : o.plans[r].dest[i] = b
              a == Address(rows[r], keep[r][(i - 1) * BlockSize + q + 1])
          IN m[a[1]][a[2]]
     ELSE m[b][q]]]
Materialized(m, o, rows, R, keep) ==
  [b \in Block |-> [q \in 0..BlockSize - 1 |->
     IF \E r \in R : b \in Range(o.plans[r].dest)
     THEN LET r == CHOOSE r \in R : b \in Range(o.plans[r].dest)
              i == CHOOSE i \in DOMAIN o.plans[r].dest : o.plans[r].dest[i] = b
              a == Address(rows[r], keep[r][(i - 1) * BlockSize + q + 1])
          IN m[a[1]][a[2]]
     ELSE m[b][q]]]

(* sample_tokens: the plans of the batch run after sampling; a disagreement *)
(* raises and the engine stops.                                             *)
Compressed(m, o, rows, act) ==
  LET D == Due(o, act)
      n == [r \in D |-> Physical(act, r, SeenAfter(o)[r])]
  IN IF \/ \E r \in Planned(o, act) : SeenAfter(o)[r] # o.plans[r].semantic
        \/ \E r \in D : Disagrees(o, rows, r)
     THEN raised' = TRUE /\ mem' = m /\ wpending' = PendingAfter(o)
     ELSE \E keep \in [D -> UNION {Selections(n[r]) : r \in D}] :
            /\ \A r \in D : keep[r] \in Selections(n[r])
            /\ mem' = Materialized(m, o, rows, D, keep)
            /\ wpending' = [r \in Req |->
                 IF r \in D THEN [semantic |-> SeenAfter(o)[r], physical |-> Budget,
                                  blocks |-> o.plans[r].dest]
                 ELSE PendingAfter(o)[r]]
            /\ UNCHANGED raised

----------------------------------------------------------------------------
WorkerInit ==
  /\ row = [r \in Req |-> None]
  /\ seen = [r \in Req |-> 0]
  /\ wpending = [r \in Req |-> None]
  /\ wactive = [r \in Req |-> None]
  /\ mem = [b \in Block |-> [q \in 0..BlockSize - 1 |->
             [owner |-> None, pos |-> 0, exact |-> FALSE]]]
  /\ raised = FALSE

Execute ==
  /\ ~raised
  /\ WorkerRuns
  /\ LET o == queue[ran + 1]
         rows == RowsAfter(o)
         act == ActiveAfter(o)
     IN /\ row' = rows
        /\ wactive' = act
        /\ seen' = SeenAfter(o)
        /\ IF SlotsExist(o, rows, act) /\ SlotsDisjoint(o, rows, act)
           THEN Compressed(AfterForward(o, rows, act), o, rows, act)
           ELSE raised' = TRUE /\ UNCHANGED <<mem, wpending>>

SystemInit == Init /\ WorkerInit
SystemNext == (SchedulerNext /\ UNCHANGED wvars) \/ Execute
System == SystemInit /\ [][SystemNext]_allvars

----------------------------------------------------------------------------
WorkerTypeOK ==
  /\ row \in [Req -> BlockList \cup {None}]
  /\ seen \in [Req -> Nat]
  /\ wpending \in [Req -> WorkerPending \cup {None}]
  /\ wactive \in [Req -> Active \cup {None}]
  /\ mem \in [Block -> [0..BlockSize - 1 -> Token]]
  /\ raised \in BOOLEAN

(* Scheduler and worker never disagree: whatever the worker lags behind,    *)
(* every plan finds the semantic length, the source table and the private   *)
(* destination it was made from, every token a slot of its own.             *)
WorkerAgrees == ~raised

(* A block in the prefix cache holds, once the queued batches have run, the *)
(* uncompressed KV its hash stands for: no compacted or lossy KV and no     *)
(* other request's tokens are ever served to a prefix hit.                  *)
HashedBlocksAreExact ==
  ran = Len(queue) /\ building = None => \A b \in Block :
    kv.hash[b] # Unhashed => \A q \in 0..BlockSize - 1 :
      LET p == (kv.hash[b][2] - 1) * BlockSize + q IN
      /\ mem[b][q].exact /\ mem[b][q].pos = p
      /\ mem[b][q].owner = IF p < Shared THEN None ELSE kv.hash[b][1]

(* The KV that the next step of r reads, position by position: through its  *)
(* row, or through the blocks of the transaction that step will commit.     *)
Blocks(r) == IF wpending[r] # None THEN wpending[r].blocks ELSE row[r]
Length(r) == IF wpending[r] # None THEN wpending[r].physical
             ELSE Physical(wactive, r, seen[r])
View(r) ==
  IF row[r] = None THEN <<>>
  ELSE [i \in 1..Length(r) |->
          LET a == Address(Blocks(r), i - 1) IN
          IF mem[a[1]][a[2]].owner \in {None, r} THEN mem[a[1]][a[2]].pos ELSE -1]

Logical == INSTANCE LogicalCache WITH cache <- [r \in Req |-> View(r)]

(* Scheduler and worker together implement the logical cache.               *)
CacheIsLogical == Logical!Spec
=============================================================================
