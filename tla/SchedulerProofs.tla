-------------------------- MODULE SchedulerProofs --------------------------
(***************************************************************************)
(* Proofs about Scheduler, for every number of requests, blocks, tokens    *)
(* and batches in flight: type correctness, that an asynchronous request   *)
(* is frozen exactly while its transaction is pending, the accounting of   *)
(* blocks, the extent of what a request holds, and which plans in flight   *)
(* can be equal.                                                           *)
(*                                                                         *)
(* Every handler of the plugin is a function from one KV record to the     *)
(* next, so the lemmas follow the handlers: each maps a well-typed record  *)
(* to a well-typed one and keeps the freeze discipline.                    *)
(***************************************************************************)
EXTENDS Scheduler, FiniteSetTheorems, SequenceTheorems, FunctionTheorems, TLAPS

----------------------------------------------------------------------------
(* Block accounting.                                                        *)

(* There are finitely many places a block can be held at.                   *)
LEMMA PlacesFinite == \A P : P \subseteq Places(Req) => IsFiniteSet(P)
<1>1. IsFiniteSet(-1..Depth - 1)
  BY FS_Interval, ModeAssumption
<1>2. IsFiniteSet(Places(Req))
  BY <1>1, FS_Product, RequestAssumption DEF Places
<1> QED
  BY <1>2, FS_Subset

(* free_blocks keeps reference counts integers.                             *)
LEMMA FreeAtType ==
  ASSUME NEW k \in KV, NEW P \in SUBSET Places(Req)
  PROVE  FreeAt(k, P) \in [Block -> Int]
<1>1. k.ref \in [Block -> Int]
  BY DEF KV
<1>2. ASSUME NEW b \in Block
      PROVE  Cardinality({p \in P : b \in BlocksAt(k, p)}) \in Nat
  <2>1. IsFiniteSet({p \in P : b \in BlocksAt(k, p)})
    BY PlacesFinite
  <2> QED
    BY <2>1, FS_CardinalityType
<1> QED
  BY <1>1, <1>2 DEF FreeAt

(* The fields of a KV record, and a record made of them.                    *)
LEMMA KVFields ==
  ASSUME NEW k \in KV
  PROVE  /\ k.table \in [Req -> BlockList]
         /\ k.ref \in [Block -> Int]
         /\ k.hash \in [Block -> HashKey]
         /\ k.pending \in [Req -> Pending \cup {None}]
         /\ k.active \in [Req -> Active \cup {None}]
         /\ k.deferred \in [Req -> [1..Depth - 1 -> SUBSET Block]]
         /\ k.eligible \in [Req -> {0, Never}]
BY DEF KV

(* Thawing gives back a scheduling step.                                    *)
LEMMA ThawedType ==
  ASSUME NEW k \in KV, NEW R
  PROVE  Thawed(k, R) \in [Req -> {0, Never}]
<1>1. k.pending \in [Req -> Pending \cup {None}] /\ k.eligible \in [Req -> {0, Never}]
  BY KVFields
<1>2. ASSUME NEW r \in Req, k.pending[r] # None, k.pending[r].previous # None
      PROVE  k.pending[r].previous \in {0, Never}
  BY <1>1, <1>2 DEF Pending
<1> QED
  BY <1>1, <1>2 DEF Thawed

----------------------------------------------------------------------------
(* Each handler maps a KV record to a KV record.                            *)

LEMMA FreedType ==
  ASSUME NEW k \in KV, NEW R \in SUBSET Req
  PROVE  Freed(k, R) \in KV
<1>1. FreeAt(k, Places(R)) \in [Block -> Int]
  BY FreeAtType DEF Places
<1>2. Thawed(k, R) \in [Req -> {0, Never}]
  BY ThawedType
<1>3. <<>> \in BlockList
  BY EmptySeq DEF BlockList
<1>4. Emptied \in [1..Depth - 1 -> SUBSET Block]
  BY DEF Emptied
<1> QED
  BY <1>1, <1>2, <1>3, <1>4 DEF Freed, KV, Cleared

LEMMA PendingDiscardedType ==
  ASSUME NEW k \in KV, NEW R \in SUBSET Req
  PROVE  PendingDiscarded(k, R) \in KV
<1>1. FreeAt(k, R \X {Reserved}) \in [Block -> Int]
  BY FreeAtType, ModeAssumption DEF Places, Reserved
<1>2. Thawed(k, R) \in [Req -> {0, Never}]
  BY ThawedType
<1> QED
  BY <1>1, <1>2 DEF PendingDiscarded, KV, Cleared

LEMMA DiscardedType ==
  ASSUME NEW k \in KV, NEW R \in SUBSET Req
  PROVE  Discarded(k, R) \in KV
<1> DEFINE d == PendingDiscarded(k, R)
<1>1. d \in KV
  BY PendingDiscardedType
<1> HIDE DEF d
<1>2. [d EXCEPT !.active = Cleared(@, R, None)] \in KV
  BY <1>1 DEF KV, Cleared
<1> QED
  BY <1>2 DEF Discarded, d

LEMMA AcknowledgedType ==
  ASSUME NEW k \in KV, NEW plans
  PROVE  Acknowledged(k, plans) \in KV
<1>1. ASSUME NEW p \in Pending
      PROVE  [p EXCEPT !.ready = TRUE] \in Pending
  BY DEF Pending
<1>2. k.pending \in [Req -> Pending \cup {None}]
  BY KVFields
<1>3. [r \in Req |-> IF k.pending[r] # None /\ plans[r] = k.pending[r].plan
                     THEN [k.pending[r] EXCEPT !.ready = TRUE] ELSE k.pending[r]]
      \in [Req -> Pending \cup {None}]
  BY <1>1, <1>2
<1> QED
  BY <1>3 DEF Acknowledged, KV

LEMMA DrainedType ==
  ASSUME NEW k \in KV
  PROVE  Drained(k) \in KV
<1>1. Depth = 1 \/ FreeAt(k, Req \X {1}) \in [Block -> Int]
  BY FreeAtType, ModeAssumption DEF Places
<1>2. ASSUME NEW r \in Req, NEW left \in 1..Depth - 1, left # Depth - 1
      PROVE  k.deferred[r][left + 1] \in SUBSET Block
  BY <1>2, KVFields, ModeAssumption
<1> QED
  BY <1>1, <1>2 DEF Drained, KV


LEMMA CommittedType ==
  ASSUME NEW k \in KV, NEW defer
  PROVE  Committed(k, defer) \in KV
<1> DEFINE R == Committable(k)
           d == PendingDiscarded(k, Ready(k) \ R)
<1>1. R \in SUBSET Req /\ Ready(k) \ R \in SUBSET Req
  BY DEF Committable, Ready
<1>2. d \in KV
  BY <1>1, PendingDiscardedType
<1>3. k.pending \in [Req -> Pending \cup {None}] /\ k.table \in [Req -> BlockList]
  BY KVFields
<1>4. ASSUME NEW r \in R
      PROVE  /\ k.pending[r].plan.dest \in BlockList
             /\ [semantic |-> k.pending[r].plan.semantic, physical |-> Budget] \in Active
             /\ Range(k.table[r]) \in SUBSET Block
  <2>1. r \in Req /\ k.pending[r] \in Pending
    BY <1>3, <1>4 DEF Committable, Ready
  <2>2. k.pending[r].plan \in Plan
    BY <2>1 DEF Pending
  <2>3. k.table[r] \in Seq(Block)
    BY <1>3, <2>1 DEF BlockList
  <2> QED
    BY <2>2, <2>3, RangeOfSeq, ConfigAssumption DEF Plan, Active
<1> HIDE DEF d, R
<1>5. FreeAt(d, R \X {Table}) \in [Block -> Int]
  BY <1>1, <1>2, FreeAtType, ModeAssumption DEF Places, Table
<1>6. [r \in Req |-> [left \in 1..Depth - 1 |->
         IF r \in R /\ left = defer
         THEN d.deferred[r][left] \cup Range(k.table[r]) ELSE d.deferred[r][left]]]
      \in [Req -> [1..Depth - 1 -> SUBSET Block]]
  <2>1. d.deferred \in [Req -> [1..Depth - 1 -> SUBSET Block]]
    BY <1>2, KVFields
  <2> QED
    BY <2>1, <1>4
<1>7. [r \in Req |-> IF r \in R THEN k.pending[r].plan.dest ELSE d.table[r]]
      \in [Req -> BlockList]
  BY <1>2, <1>4, KVFields
<1>8. [r \in Req |-> IF r \in R
          THEN [semantic |-> k.pending[r].plan.semantic, physical |-> Budget]
          ELSE d.active[r]] \in [Req -> Active \cup {None}]
  <2>1. d.active \in [Req -> Active \cup {None}]
    BY <1>2, KVFields
  <2> QED
    BY <2>1, <1>4
<1>9. Thawed(d, R) \in [Req -> {0, Never}]
  BY <1>2, ThawedType
<1>10. Cleared(d.pending, R, None) \in [Req -> Pending \cup {None}]
  BY <1>2, KVFields DEF Cleared
<1>11. (IF defer = 0 THEN FreeAt(d, R \X {Table}) ELSE d.ref) \in [Block -> Int]
  BY <1>2, <1>5, KVFields
<1> QED
  BY <1>2, <1>6, <1>7, <1>8, <1>9, <1>10, <1>11 DEF Committed, KV, d, R


LEMMA AfterModelOutputType ==
  ASSUME NEW k \in KV
  PROVE  AfterModelOutput(k) \in KV
BY DrainedType, CommittedType DEF AfterModelOutput

LEMMA BeforeScheduleType ==
  ASSUME NEW k \in KV, NEW R \in SUBSET Req
  PROVE  BeforeSchedule(k, R) \in KV
BY DiscardedType, CommittedType DEF BeforeSchedule

LEMMA CacheBlocksType ==
  ASSUME NEW k \in KV, NEW r \in Req, NEW n
  PROVE  CacheBlocks(k, r, n) \in KV
<1>1. k.table[r] \in Seq(Block) /\ k.hash \in [Block -> HashKey]
  BY KVFields DEF BlockList
<1>2. Filled(k, r, n) \subseteq Nat
  BY <1>1, LenProperties DEF Filled
<1>3. ASSUME NEW i \in Nat
      PROVE  Key(r, i) \in HashKey
  BY DEF Key, HashKey
<1>4. ASSUME NEW b \in Block, \E i \in Filled(k, r, n) : k.table[r][i] = b
      PROVE  Key(r, CHOOSE i \in Filled(k, r, n) : k.table[r][i] = b) \in HashKey
  BY <1>2, <1>3, <1>4
<1> QED
  BY <1>1, <1>4 DEF CacheBlocks, KV

LEMMA ArmedType ==
  ASSUME NEW k \in KV, NEW A \in SUBSET Req, NEW dest,
         \A r \in A : dest[r] \in BlockList /\ computed[r] \in Int
  PROVE  /\ Armed(k, A, dest) \in KV
         /\ \A r \in A : Armed(k, A, dest).pending[r] # None
                         /\ Armed(k, A, dest).pending[r].plan \in Plan
<1>1. Unhashed \in HashKey
  BY DEF Unhashed, HashKey
<1>2. ASSUME NEW r \in A
      PROVE  /\ PlanFor(k, r, dest[r]) \in Plan
             /\ (IF Async THEN k.eligible[r] ELSE None) \in {None, 0, Never}
  BY KVFields DEF PlanFor, Plan
<1>3. ASSUME NEW r \in A
      PROVE  [plan |-> PlanFor(k, r, dest[r]), ready |-> FALSE,
              previous |-> IF Async THEN k.eligible[r] ELSE None] \in Pending
  BY <1>2 DEF Pending
<1>4. [r \in Req |-> IF r \in A
         THEN [plan |-> PlanFor(k, r, dest[r]), ready |-> FALSE,
               previous |-> IF Async THEN k.eligible[r] ELSE None]
         ELSE k.pending[r]] \in [Req -> Pending \cup {None}]
  BY <1>3, KVFields
<1>5. [r \in Req |-> IF r \in A /\ Async THEN Never ELSE k.eligible[r]] \in [Req -> {0, Never}]
  BY KVFields
<1>6. [b \in Block |-> IF \E r \in A : b \in Range(dest[r]) THEN 1 ELSE k.ref[b]]
      \in [Block -> Int]
  BY KVFields
<1>7. [b \in Block |-> IF \E r \in A : b \in Range(dest[r]) THEN Unhashed ELSE k.hash[b]]
      \in [Block -> HashKey]
  BY <1>1, KVFields
<1>8. Armed(k, A, dest) \in KV
  BY <1>4, <1>5, <1>6, <1>7 DEF Armed, KV
<1>9. ASSUME NEW r \in A
      PROVE  /\ Armed(k, A, dest).pending[r] \in Pending
             /\ Armed(k, A, dest).pending[r].plan \in Plan
  <2>1. Armed(k, A, dest).pending[r]
        = [plan |-> PlanFor(k, r, dest[r]), ready |-> FALSE,
           previous |-> IF Async THEN k.eligible[r] ELSE None]
    BY DEF Armed, KV
  <2> QED
    BY <2>1, <1>2, <1>3
<1> QED
  BY <1>8, <1>9, NoneAssumption

----------------------------------------------------------------------------
(* What the host computes is a number, or a list of blocks.                 *)

LEMMA MinMaxType ==
  /\ \A a, b \in Int : Least(a, b) \in Int /\ Most(a, b) \in Int
  /\ \A b \in Int : Most(0, b) \in Nat
BY DEF Least, Most

LEMMA BlocksForType ==
  /\ \A n \in Int : BlocksFor(n) \in Int
  /\ Keep \in Nat
<1>1. \A n \in Int : (n + BlockSize - 1) \div BlockSize \in Int
  BY ConfigAssumption
<1>2. (Budget + BlockSize - 1) \div BlockSize \in Nat
  BY ConfigAssumption
<1> QED
  BY <1>1, <1>2 DEF BlocksFor, Keep

LEMMA NeedType ==
  ASSUME NEW k \in KV, NEW r \in Req, NEW h \in Nat, NEW n \in Int
  PROVE  Need(k, r, h, n) \in Nat
<1>1. k.active[r] \in Active \cup {None} /\ k.table[r] \in Seq(Block)
  BY KVFields DEF BlockList
<1>2. PhysicalTokens(k, r, n) \in Int
  <2>1. CASE k.active[r] = None
    BY <2>1 DEF PhysicalTokens
  <2>2. CASE k.active[r] # None
    <3>1. k.active[r].semantic \in Int /\ k.active[r].physical \in Int
      BY <1>1, <2>2 DEF Active
    <3> QED
      BY <2>2, <3>1 DEF PhysicalTokens, Most
  <2> QED
    BY <2>1, <2>2
<1>3. BlocksFor(PhysicalTokens(k, r, n)) \in Int
  BY <1>2, BlocksForType
<1>4. Len(k.table[r]) \in Nat
  BY <1>1, LenProperties
<1> QED
  BY <1>3, <1>4, SMTT(20) DEF Need, Most

LEMMA FunctionsAreLists ==
  ASSUME NEW n \in Nat, NEW S \in SUBSET Block, NEW s \in [1..n -> S]
  PROVE  s \in BlockList /\ Len(s) \in Nat
<1>1. s \in [1..n -> Block]
  OBVIOUS
<1>2. s \in Seq(Block)
  BY <1>1, SeqDef
<1> QED
  BY <1>2, LenProperties DEF BlockList

LEMMA NewBlocksType ==
  ASSUME NEW free \in SUBSET Block, NEW n \in Nat, NEW s \in NewBlocks(free, n)
  PROVE  s \in BlockList
BY FunctionsAreLists DEF NewBlocks

LEMMA HitsType ==
  ASSUME NEW r \in Req, NEW hits \in Hits(r)
  PROVE  hits \in BlockList /\ Len(hits) \in Nat
<1>1. PICK h \in HitLengths(r) : hits \in [1..h -> Block]
  BY DEF Hits
<1>2. h \in Nat
  BY <1>1, RequestAssumption DEF HitLengths
<1> QED
  BY <1>1, <1>2, FunctionsAreLists

LEMMA AllocatedType ==
  ASSUME NEW k \in KV, NEW r \in Req, NEW hits \in BlockList, NEW new \in BlockList
  PROVE  Allocated(k, r, hits, new) \in KV
<1>1. k.table \in [Req -> BlockList] /\ k.ref \in [Block -> Int]
      /\ k.hash \in [Block -> HashKey]
  BY KVFields
<1>2. k.table[r] \o hits \o new \in BlockList
  BY <1>1, ConcatProperties DEF BlockList
<1>3. Unhashed \in HashKey
  BY DEF Unhashed, HashKey
<1>4. [b \in Block |-> IF b \in Range(new) THEN 1
                       ELSE IF b \in Range(hits) THEN k.ref[b] + 1 ELSE k.ref[b]]
      \in [Block -> Int]
  BY <1>1
<1>5. [b \in Block |-> IF b \in Range(new) THEN Unhashed ELSE k.hash[b]]
      \in [Block -> HashKey]
  BY <1>1, <1>3
<1>6. [k.table EXCEPT ![r] = @ \o hits \o new] \in [Req -> BlockList]
  BY <1>1, <1>2
<1> QED
  BY <1>4, <1>5, <1>6 DEF Allocated, KV

----------------------------------------------------------------------------
(* Type correctness: one lemma per action that does more than reset fields. *)

LEMMA InitType == Init => TypeOK
<1> SUFFICES ASSUME Init
             PROVE  TypeOK
  OBVIOUS
<1>1. <<>> \in BlockList /\ queue \in Seq(Output) /\ owed \in Seq(SUBSET (Req \X Block))
  BY EmptySeq DEF Init, BlockList
<1>2. Unhashed \in HashKey
  BY DEF Unhashed, HashKey
<1>3. kv \in KV
  BY <1>1, <1>2 DEF Init, KV
<1> QED
  BY <1>1, <1>3, RequestAssumption DEF Init, TypeOK

LEMMA ScheduledType ==
  ASSUME TypeOK, building # None,
         NEW r \in Req, NEW start \in Int, NEW n \in Int, NEW blocks \in BlockList,
         NEW kind \in {"new", "resumed", "cached"},
         Scheduled(r, start, n, kind, blocks)
  PROVE  computed' \in [Req -> Int] /\ placeholders' \in [Req -> Int]
         /\ building' \in Output
<1>1. computed' \in [Req -> Int] /\ placeholders' \in [Req -> Int]
  BY DEF Scheduled, TypeOK
<1>2. building \in Output
  BY DEF TypeOK
<1>3. [start |-> start, n |-> n, kind |-> kind, blocks |-> blocks] \in Item
  BY DEF Item
<1>4. building' \in Output
  <2> DEFINE item == [start |-> start, n |-> n, kind |-> kind, blocks |-> blocks]
             sampled == IF start + n = Known(r) THEN building.sampled \cup {r}
                        ELSE building.sampled
  <2>1. [building.sched EXCEPT ![r] = item] \in [Req -> Item \cup {None}]
    BY <1>2, <1>3 DEF Output
  <2>2. sampled \in SUBSET Req
    BY <1>2 DEF Output
  <2>3. building.room - n \in Int
    BY <1>2 DEF Output
  <2>4. building' = [building EXCEPT !.sched = [building.sched EXCEPT ![r] = item],
                                     !.sampled = sampled, !.room = building.room - n]
    BY <1>2 DEF Scheduled, Output
  <2> HIDE DEF item, sampled
  <2> QED
    BY <1>2, <2>1, <2>2, <2>3, <2>4 DEF Output
<1> QED
  BY <1>1, <1>4

LEMMA BeginScheduleType == TypeOK /\ BeginSchedule => TypeOK'
<1> SUFFICES ASSUME TypeOK, BeginSchedule
             PROVE  TypeOK'
  OBVIOUS
<1>1. kv' \in KV
  BY BeforeScheduleType DEF TypeOK, BeginSchedule
<1>2. EmptyOutput \in Output
  BY ConfigAssumption DEF EmptyOutput, Output
<1> QED
  BY <1>1, <1>2 DEF TypeOK, BeginSchedule

LEMMA ScheduleRunningType ==
  ASSUME TypeOK, NEW r \in Req, ScheduleRunning(r)
  PROVE  TypeOK'
<1> DEFINE c == Chunk(r)
           n == computed[r] + c
<1>1. building # None /\ building \in Output
  BY DEF ScheduleRunning, TypeOK
<1>2. c \in Int /\ n \in Int /\ computed[r] \in Int
  BY <1>1 DEF TypeOK, Chunk, Known, Least, Output
<1>3. kv \in KV /\ FreeBlocks(kv) \in SUBSET Block
  BY DEF TypeOK, FreeBlocks
<1>4. Need(kv, r, 0, n) \in Nat
  BY <1>2, <1>3, NeedType
<1>5. PICK new \in NewBlocks(FreeBlocks(kv), Need(kv, r, 0, n)) :
        /\ kv' = CacheBlocks(Allocated(kv, r, <<>>, new), r, Least(n, tokens[r]))
        /\ Scheduled(r, computed[r], c, "cached", new)
  BY DEF ScheduleRunning
<1>6. new \in BlockList
  BY <1>3, <1>4, <1>5, NewBlocksType
<1>7. <<>> \in BlockList
  BY EmptySeq DEF BlockList
<1>8. kv' \in KV
  BY <1>3, <1>5, <1>6, <1>7, AllocatedType, CacheBlocksType
<1> HIDE DEF c, n
<1>9. computed' \in [Req -> Int] /\ placeholders' \in [Req -> Int] /\ building' \in Output
  BY <1>1, <1>2, <1>5, <1>6, ScheduledType
<1> QED
  BY <1>8, <1>9 DEF TypeOK, ScheduleRunning

LEMMA AdmitType ==
  ASSUME TypeOK, NEW r \in Req, Admit(r)
  PROVE  TypeOK'
<1>1. building # None /\ building \in Output
  BY DEF Admit, TypeOK
<1>2. PICK hits \in Hits(r) :
        LET start == Len(hits) * BlockSize
            n == FirstChunk(r, start) IN
        \E new \in NewBlocks(Unclaimed(hits), Need(kv, r, Len(hits), start + n)) :
          /\ kv' = CacheBlocks(Allocated(kv, r, hits, new), r, start + n)
          /\ Scheduled(r, start, n, IF status[r] = "waiting" THEN "new" ELSE "resumed",
                       hits \o new)
  BY DEF Admit
<1> DEFINE start == Len(hits) * BlockSize
           n == FirstChunk(r, start)
           kind == IF status[r] = "waiting" THEN "new" ELSE "resumed"
<1>3. PICK new \in NewBlocks(Unclaimed(hits), Need(kv, r, Len(hits), start + n)) :
        /\ kv' = CacheBlocks(Allocated(kv, r, hits, new), r, start + n)
        /\ Scheduled(r, start, n, kind, hits \o new)
  BY <1>2
<1>4. hits \in BlockList /\ Len(hits) \in Nat
  BY HitsType
<1>5. start \in Int
  BY <1>4, ConfigAssumption
<1> HIDE DEF start
<1>6. n \in Int
  BY <1>1, <1>5 DEF TypeOK, FirstChunk, Least, Output
<1> HIDE DEF n, kind
<1>7. kv \in KV /\ Unclaimed(hits) \in SUBSET Block
  BY DEF TypeOK, Unclaimed, FreeBlocks
<1>8. new \in BlockList
  <2>1. start + n \in Int
    BY <1>5, <1>6
  <2>2. Need(kv, r, Len(hits), start + n) \in Nat
    BY <2>1, <1>4, <1>7, NeedType
  <2> QED
    BY <2>2, <1>3, <1>7, NewBlocksType
<1>9. hits \o new \in BlockList
  BY <1>4, <1>8, ConcatProperties DEF BlockList
<1>10. kv' \in KV
  BY <1>3, <1>4, <1>7, <1>8, AllocatedType, CacheBlocksType
<1>11. kind \in {"new", "resumed", "cached"}
  BY DEF kind
<1>12. computed' \in [Req -> Int] /\ placeholders' \in [Req -> Int] /\ building' \in Output
  BY <1>1, <1>3, <1>5, <1>6, <1>9, <1>11, ScheduledType
<1>13. status' \in [Req -> {"waiting", "running", "preempted", "finished"}]
  BY DEF TypeOK, Admit
<1> QED
  BY <1>10, <1>12, <1>13 DEF TypeOK, Admit

LEMMA WithoutType ==
  ASSUME TypeOK, NEW R
  PROVE  Without(R) \in Seq(SUBSET (Req \X Block)) /\ Len(Without(R)) = Len(owed)
<1>1. owed \in [1..Len(owed) -> SUBSET (Req \X Block)] /\ Len(owed) \in Nat
  BY LenProperties DEF TypeOK
<1>2. Without(R) \in [1..Len(owed) -> SUBSET (Req \X Block)]
  BY <1>1 DEF Without
<1> QED
  BY <1>1, <1>2, SeqDef

LEMMA PreemptType ==
  ASSUME TypeOK, NEW victim \in Req, Preempt(victim)
  PROVE  TypeOK'
<1>1. kv' \in KV
  BY FreedType DEF TypeOK, Preempt
<1>2. building' \in Output
  BY DEF TypeOK, Preempt, Output
<1>3. owed' \in Seq(SUBSET (Req \X Block)) /\ Len(owed') = Len(owed)
  BY WithoutType DEF TypeOK, Preempt
<1> QED
  BY <1>1, <1>2, <1>3 DEF TypeOK, Preempt

LEMMA EndScheduleType == TypeOK /\ EndSchedule => TypeOK'
<1> SUFFICES ASSUME TypeOK, EndSchedule
             PROVE  TypeOK'
  OBVIOUS
<1> DEFINE output == [building EXCEPT !.finished = finishedIds,
                                      !.preempted = @ \cup resetIds]
           k1 == Discarded(kv, output.preempted \cup output.finished)
<1>1. output \in Output
  BY DEF TypeOK, EndSchedule, Output
<1>a. PICK A \in SUBSET Req : \E dest \in [A -> [1..Keep -> FreeBlocks(kv)]] :
        /\ AfterSchedule(kv, output, A, dest)
        /\ queue' = Append(queue, [output EXCEPT !.plans =
             [r \in Req |-> IF r \in A THEN kv'.pending[r].plan ELSE None]])
  BY DEF EndSchedule
<1>2. PICK dest \in [A -> [1..Keep -> FreeBlocks(kv)]] :
        /\ AfterSchedule(kv, output, A, dest)
        /\ queue' = Append(queue, [output EXCEPT !.plans =
             [r \in Req |-> IF r \in A THEN kv'.pending[r].plan ELSE None]])
  BY <1>a
<1> HIDE DEF output
<1>3. k1 \in KV /\ FreeBlocks(k1) \in SUBSET Block
  BY <1>1, DiscardedType DEF TypeOK, Output, FreeBlocks
<1>4. kv' = Armed(k1, A, dest) /\ \A r \in A : dest[r] \in [1..Keep -> FreeBlocks(k1)]
  BY <1>2 DEF AfterSchedule
<1> HIDE DEF k1
<1>5. \A r \in A : dest[r] \in BlockList /\ computed[r] \in Int
  BY <1>3, <1>4, BlocksForType, FunctionsAreLists DEF TypeOK
<1>6. kv' \in KV /\ \A r \in A : kv'.pending[r].plan \in Plan
  BY <1>3, <1>4, <1>5, ArmedType
<1>7. [output EXCEPT !.plans = [r \in Req |-> IF r \in A THEN kv'.pending[r].plan ELSE None]]
      \in Output
  BY <1>1, <1>6 DEF Output
<1>8. queue' \in Seq(Output) /\ Len(queue') = Len(queue) + 1
  BY <1>2, <1>7, AppendProperties DEF TypeOK
<1>9. owed' \in Seq(SUBSET (Req \X Block)) /\ Len(owed') = Len(owed) + 1
  BY AppendProperties DEF TypeOK, EndSchedule
<1>10. ran' \in 0..Len(queue')
  BY <1>8, LenProperties DEF TypeOK, EndSchedule
<1> QED
  BY <1>6, <1>8, <1>9, <1>10 DEF TypeOK, EndSchedule

LEMMA UpdateFromOutputType ==
  ASSUME TypeOK, NEW F \in SUBSET Req, UpdateFromOutput(F)
  PROVE  TypeOK'
<1> DEFINE output == Head(queue)
           got == {r \in output.sampled : Live(r)}
           k == Acknowledged(Freed(kv, F), output.plans)
           late == IF Async
                   THEN {p \in Committable(k) \X Block : p[2] \in Range(k.table[p[1]])}
                   ELSE {}
<1>1. /\ kv' = AfterModelOutput(k)
      /\ tokens' = [r \in Req |-> IF r \in F THEN Prompt[r]
                                  ELSE IF r \in got THEN tokens[r] + 1 ELSE tokens[r]]
      /\ placeholders' = [r \in Req |-> IF r \in F THEN 0
                                        ELSE IF r \in got THEN placeholders[r] - 1
                                        ELSE placeholders[r]]
      /\ owed' = [i \in 1..Len(owed) - 1 |-> Without(F)[i + 1] \cup late]
      /\ queue' = Tail(queue) /\ ran' = ran - 1 /\ ran > 0
  BY DEF UpdateFromOutput
<1>2. k \in KV
  BY FreedType, AcknowledgedType DEF TypeOK
<1>3. late \subseteq Req \X Block
  BY DEF Committable, Ready
<1> HIDE DEF k, got, late
<1>4. kv' \in KV
  BY <1>1, <1>2, AfterModelOutputType
<1>5. tokens' \in [Req -> Int] /\ placeholders' \in [Req -> Int]
  BY <1>1, RequestAssumption DEF TypeOK
<1>6. Len(queue) \in Nat /\ Len(queue) > 0 /\ queue # <<>>
  BY <1>1, LenProperties, EmptySeq DEF TypeOK
<1>7. queue' \in Seq(Output) /\ Len(queue') = Len(queue) - 1 /\ ran' \in 0..Len(queue')
  BY <1>1, <1>6, HeadTailProperties DEF TypeOK
<1>8. owed' \in Seq(SUBSET (Req \X Block)) /\ Len(owed') = Len(owed) - 1
  <2>1. Without(F) \in [1..Len(owed) -> SUBSET (Req \X Block)]
    BY WithoutType, LenProperties
  <2>2. owed' \in [1..Len(owed) - 1 -> SUBSET (Req \X Block)]
    BY <1>1, <1>3, <1>6, <2>1 DEF TypeOK
  <2>3. Len(owed) - 1 \in Nat
    BY <1>6 DEF TypeOK
  <2>4. owed' \in Seq(SUBSET (Req \X Block))
    BY <2>2, <2>3, SeqDef
  <2> QED
    BY <2>2, <2>3, <2>4, LenProperties
<1>9. /\ status' \in [Req -> {"waiting", "running", "preempted", "finished"}]
      /\ computed' \in [Req -> Int]
      /\ finishedIds' \subseteq Req /\ resetIds' \subseteq Req
      /\ building' \in Output \cup {None}
  BY DEF TypeOK, UpdateFromOutput
<1> QED
  BY <1>4, <1>5, <1>7, <1>8, <1>9 DEF TypeOK

LEMMA AbortType ==
  ASSUME TypeOK, NEW r \in Req, Abort(r)
  PROVE  TypeOK'
<1>1. kv' \in KV
  BY FreedType DEF TypeOK, Abort
<1>2. owed' \in Seq(SUBSET (Req \X Block)) /\ Len(owed') = Len(owed)
  BY WithoutType DEF TypeOK, Abort
<1>3. tokens' \in [Req -> Int]
  <2>1. Prompt[r] \in Int /\ tokens \in [Req -> Int]
    BY RequestAssumption DEF TypeOK
  <2>2. tokens' = [tokens EXCEPT ![r] = Prompt[r]]
    BY DEF Abort
  <2> QED
    BY <2>1, <2>2
<1> QED
  BY <1>1, <1>2, <1>3 DEF TypeOK, Abort

LEMMA ResetPrefixCacheType == TypeOK /\ ResetPrefixCache => TypeOK'
<1> SUFFICES ASSUME TypeOK, ResetPrefixCache
             PROVE  TypeOK'
  OBVIOUS
<1> DEFINE R == {r \in Req : status[r] = "running"}
           k == Freed(kv, R)
<1>1. k \in KV
  BY FreedType DEF TypeOK
<1>2. /\ kv' = IF FreeBlocks(k) = Block
               THEN [k EXCEPT !.hash = [b \in Block |-> Unhashed]] ELSE k
      /\ queue' = [i \in DOMAIN queue |-> [queue[i] EXCEPT !.sampled = @ \ R]]
      /\ owed' = Without(R)
  BY DEF ResetPrefixCache
<1> HIDE DEF k
<1>3. kv' \in KV
  <2>1. Unhashed \in HashKey
    BY DEF Unhashed, HashKey
  <2> QED
    BY <1>1, <1>2, <2>1 DEF KV
<1>4. owed' \in Seq(SUBSET (Req \X Block)) /\ Len(owed') = Len(owed)
  BY <1>2, WithoutType
<1>5. queue' \in Seq(Output) /\ Len(queue') = Len(queue)
  <2>1. queue \in [1..Len(queue) -> Output] /\ Len(queue) \in Nat
    BY LenProperties DEF TypeOK
  <2>2. ASSUME NEW o \in Output
        PROVE  [o EXCEPT !.sampled = @ \ R] \in Output
    BY DEF Output
  <2>3. queue' \in [1..Len(queue) -> Output]
    BY <1>2, <2>1, <2>2
  <2>4. queue' \in Seq(Output)
    BY <2>1, <2>3, SeqDef
  <2> QED
    BY <2>1, <2>3, <2>4, LenProperties
<1> QED
  BY <1>3, <1>4, <1>5 DEF TypeOK, ResetPrefixCache

LEMMA NextType == TypeOK /\ [Next]_vars => TypeOK'
<1> SUFFICES ASSUME TypeOK, [Next]_vars
             PROVE  TypeOK'
  OBVIOUS
<1>1. CASE BeginSchedule
  BY <1>1, BeginScheduleType
<1>2. ASSUME NEW r \in Req, Admit(r)
      PROVE  TypeOK'
  BY <1>2, AdmitType
<1>3. ASSUME NEW r \in Req, ScheduleRunning(r)
      PROVE  TypeOK'
  BY <1>3, ScheduleRunningType
<1>4. ASSUME NEW r \in Req, Preempt(r)
      PROVE  TypeOK'
  BY <1>4, PreemptType
<1>5. CASE EndSchedule
  BY <1>5, EndScheduleType
<1>6. ASSUME NEW F \in SUBSET Req, UpdateFromOutput(F)
      PROVE  TypeOK'
  BY <1>6, UpdateFromOutputType
<1>7. ASSUME NEW r \in Req, Abort(r)
      PROVE  TypeOK'
  BY <1>7, AbortType
<1>8. CASE ResetPrefixCache
  BY <1>8, ResetPrefixCacheType
<1>9. CASE WorkerRuns
  BY <1>9, LenProperties DEF TypeOK, WorkerRuns
<1>10. CASE Terminated \/ UNCHANGED vars
  BY <1>10 DEF TypeOK, Terminated, vars
<1> QED
  BY <1>1, <1>2, <1>3, <1>4, <1>5, <1>6, <1>7, <1>8, <1>9, <1>10 DEF Next, SchedulerNext, EngineNext

(* Every variable keeps its type, and the worker never runs ahead of the    *)
(* queue, whatever the interleaving of schedules, executions, updates,      *)
(* aborts and resets.                                                       *)
THEOREM TypeCorrect == Spec => []TypeOK
<1>1. Init => TypeOK
  BY InitType
<1>2. TypeOK /\ [Next]_vars => TypeOK'
  BY NextType
<1> QED
  BY <1>1, <1>2, PTL DEF Spec

----------------------------------------------------------------------------
(* The transaction invariant.  FrozenIffPending and PendingSourceStable are *)
(* not inductive: whether a thaw gives the right step back depends on what  *)
(* was saved when the request was frozen; whether the host can touch the    *)
(* table of a pending request depends on the freeze in asynchronous mode,   *)
(* and in synchronous mode on every plan being acknowledged, hence          *)
(* committed, before the host schedules again.                              *)

(* Frozen iff pending, and the saved step is the right one to restore.      *)
Disciplined(k) ==
  \A r \in Req :
    /\ k.eligible[r] = Never <=> Async /\ k.pending[r] # None
    /\ k.pending[r] # None => k.pending[r].previous = IF Async THEN 0 ELSE None

(* What is in the batch under construction runs and has no transaction.     *)
BatchRuns ==
  building # None => \A r \in Req :
    building.sched[r] # None => status[r] = "running" /\ kv.pending[r] = None

(* In synchronous mode a pending plan is acknowledged or in the one batch   *)
(* that is queued, and none is pending while the host schedules.            *)
SyncCommits ==
  ~Async =>
    /\ building # None => queue = <<>>
    /\ \A r \in Req : kv.pending[r] # None =>
         /\ building = None
         /\ kv.pending[r].ready \/ (queue # <<>> /\ Head(queue).plans[r] = kv.pending[r].plan)

TransactionInv ==
  TypeOK /\ Disciplined(kv) /\ PendingSourceStable /\ BatchRuns /\ SyncCommits

(* j has no transactions but those of k, with the same plans and, where     *)
(* they stay pending, the same block tables.                                *)
KeepsPending(k, j) ==
  \A r \in Req : j.pending[r] # None =>
    /\ k.pending[r] # None
    /\ j.pending[r].plan = k.pending[r].plan
    /\ k.pending[r].ready => j.pending[r].ready
    /\ j.table[r] = k.table[r]

Handled(k, j) == j \in KV /\ Disciplined(j) /\ KeepsPending(k, j)
LEMMA KeepsTransitive ==
  ASSUME NEW k, NEW j, NEW i, KeepsPending(k, j), KeepsPending(j, i)
  PROVE  KeepsPending(k, i)
BY DEF KeepsPending

(* Clearing and thawing the transactions of R.                              *)
LEMMA ThawHandled ==
  ASSUME NEW k \in KV, Disciplined(k), NEW R, NEW j \in KV,
         j.pending = Cleared(k.pending, R, None), j.eligible = Thawed(k, R),
         \A r \in Req \ R : j.table[r] = k.table[r]
  PROVE  Handled(k, j)
<1>1. ASSUME NEW r \in Req, r \in R
      PROVE  j.pending[r] = None /\ j.eligible[r] # Never
  <2>1. j.pending[r] = None
    BY <1>1 DEF Cleared
  <2>2. j.eligible[r] = IF k.pending[r] # None /\ k.pending[r].previous # None
                        THEN k.pending[r].previous ELSE k.eligible[r]
    BY <1>1 DEF Thawed
  <2>3. 0 # Never /\ 0 # None
    BY NoneAssumption DEF Never
  <2>4. CASE k.pending[r] = None
    BY <2>1, <2>2, <2>4 DEF Disciplined
  <2>5. CASE k.pending[r] # None /\ Async
    <3>1. k.pending[r].previous = 0
      BY <2>5 DEF Disciplined
    <3> QED
      BY <2>1, <2>2, <2>3, <2>5, <3>1
  <2>6. CASE k.pending[r] # None /\ ~Async
    <3>1. k.pending[r].previous = None /\ k.eligible[r] # Never
      BY <2>6 DEF Disciplined
    <3> QED
      BY <2>1, <2>2, <3>1
  <2> QED
    BY <2>4, <2>5, <2>6
<1>2. ASSUME NEW r \in Req, r \notin R
      PROVE  j.pending[r] = k.pending[r] /\ j.eligible[r] = k.eligible[r]
  BY <1>2 DEF Cleared, Thawed
<1>3. Disciplined(j)
  BY <1>1, <1>2 DEF Disciplined
<1>4. KeepsPending(k, j)
  BY <1>1, <1>2 DEF KeepsPending
<1> QED
  BY <1>3, <1>4 DEF Handled

(* Leaving transactions, steps and the tables of pending requests alone.    *)
LEMMA UntouchedHandled ==
  ASSUME NEW k \in KV, Disciplined(k), NEW j \in KV,
         j.pending = k.pending, j.eligible = k.eligible,
         \A r \in Req : k.pending[r] # None => j.table[r] = k.table[r]
  PROVE  Handled(k, j)
BY DEF Handled, Disciplined, KeepsPending

LEMMA FreedHandled ==
  ASSUME NEW k \in KV, Disciplined(k), NEW R \in SUBSET Req
  PROVE  Handled(k, Freed(k, R)) /\ \A r \in R : Freed(k, R).pending[r] = None
<1> DEFINE j == Freed(k, R)
<1>1. j \in KV
  BY FreedType
<1>2. /\ j.pending = Cleared(k.pending, R, None)
      /\ j.eligible = Thawed(k, R)
      /\ j.table = Cleared(k.table, R, <<>>)
  BY DEF Freed, KV
<1>3. \A r \in Req \ R : j.table[r] = k.table[r]
  BY <1>2 DEF Cleared
<1>4. \A r \in R : j.pending[r] = None
  BY <1>2 DEF Cleared
<1> HIDE DEF j
<1>5. Handled(k, j)
  BY <1>1, <1>2, <1>3, ThawHandled
<1> QED
  BY <1>4, <1>5 DEF j

LEMMA PendingDiscardedHandled ==
  ASSUME NEW k \in KV, Disciplined(k), NEW R \in SUBSET Req
  PROVE  /\ Handled(k, PendingDiscarded(k, R))
         /\ PendingDiscarded(k, R).pending = Cleared(k.pending, R, None)
<1> DEFINE j == PendingDiscarded(k, R)
<1>1. j \in KV
  BY PendingDiscardedType
<1>2. /\ j.pending = Cleared(k.pending, R, None)
      /\ j.eligible = Thawed(k, R)
      /\ j.table = k.table
  BY DEF PendingDiscarded, KV
<1> HIDE DEF j
<1>3. Handled(k, j)
  BY <1>1, <1>2, ThawHandled
<1> QED
  BY <1>2, <1>3 DEF j

LEMMA DiscardedHandled ==
  ASSUME NEW k \in KV, Disciplined(k), NEW R \in SUBSET Req
  PROVE  Handled(k, Discarded(k, R))
<1> DEFINE d == PendingDiscarded(k, R)
           j == Discarded(k, R)
<1>1. d \in KV /\ j \in KV /\ Handled(k, d)
  BY PendingDiscardedType, DiscardedType, PendingDiscardedHandled
<1>2. j = [d EXCEPT !.active = Cleared(@, R, None)]
  BY DEF Discarded
<1> HIDE DEF d, j
<1>3. j.pending = d.pending /\ j.eligible = d.eligible /\ j.table = d.table
  BY <1>1, <1>2 DEF KV
<1>4. Handled(k, j)
  BY <1>1, <1>3 DEF Handled, Disciplined, KeepsPending
<1> QED
  BY <1>4 DEF j

LEMMA AcknowledgedHandled ==
  ASSUME NEW k \in KV, Disciplined(k), NEW plans
  PROVE  /\ Handled(k, Acknowledged(k, plans))
         /\ \A r \in Req : /\ Acknowledged(k, plans).pending[r] # None
                           /\ plans[r] = k.pending[r].plan
                           => Acknowledged(k, plans).pending[r].ready
<1> DEFINE j == Acknowledged(k, plans)
<1>1. j \in KV
  BY AcknowledgedType
<1>2. /\ j.pending = [r \in Req |-> IF k.pending[r] # None /\ plans[r] = k.pending[r].plan
                                   THEN [k.pending[r] EXCEPT !.ready = TRUE]
                                   ELSE k.pending[r]]
      /\ j.eligible = k.eligible /\ j.table = k.table
  BY DEF Acknowledged, KV
<1> HIDE DEF j
<1>3. ASSUME NEW r \in Req
      PROVE  /\ j.pending[r] = None <=> k.pending[r] = None
             /\ j.pending[r] # None =>
                  /\ j.pending[r].plan = k.pending[r].plan
                  /\ j.pending[r].previous = k.pending[r].previous
                  /\ k.pending[r].ready => j.pending[r].ready
                  /\ plans[r] = k.pending[r].plan => j.pending[r].ready
  <2>1. k.pending[r] \in Pending \cup {None}
    BY KVFields
  <2>2. CASE k.pending[r] # None /\ plans[r] = k.pending[r].plan
    <3>1. j.pending[r] = [k.pending[r] EXCEPT !.ready = TRUE]
      BY <1>2, <2>2
    <3>2. k.pending[r] \in Pending
      BY <2>1, <2>2
    <3>3. /\ j.pending[r] \in Pending /\ j.pending[r].plan = k.pending[r].plan
          /\ j.pending[r].previous = k.pending[r].previous /\ j.pending[r].ready
      BY <3>1, <3>2 DEF Pending
    <3> QED
      BY <3>3, <2>2, NoneAssumption
  <2>3. CASE ~(k.pending[r] # None /\ plans[r] = k.pending[r].plan)
    BY <1>2, <2>3
  <2> QED
    BY <2>2, <2>3
<1>4. Handled(k, j)
  BY <1>1, <1>2, <1>3 DEF Handled, Disciplined, KeepsPending
<1> QED
  BY <1>3, <1>4 DEF j

LEMMA DrainedHandled ==
  ASSUME NEW k \in KV, Disciplined(k)
  PROVE  Handled(k, Drained(k))
<1> DEFINE j == Drained(k)
<1>1. j \in KV
  BY DrainedType
<1>2. j.pending = k.pending /\ j.eligible = k.eligible /\ j.table = k.table
  BY DEF Drained, KV
<1> HIDE DEF j
<1>3. Handled(k, j)
  BY <1>1, <1>2, UntouchedHandled
<1> QED
  BY <1>3 DEF j

LEMMA CommittedHandled ==
  ASSUME NEW k \in KV, Disciplined(k), NEW defer
  PROVE  /\ Handled(k, Committed(k, defer))
         /\ \A r \in Ready(k) : Committed(k, defer).pending[r] = None
<1> DEFINE R == Committable(k)
           d == PendingDiscarded(k, Ready(k) \ R)
           j == Committed(k, defer)
<1>1. R \in SUBSET Req /\ Ready(k) \ R \in SUBSET Req /\ Ready(k) \subseteq Req
  BY DEF Committable, Ready
<1>2. d \in KV /\ j \in KV /\ Handled(k, d)
  BY <1>1, PendingDiscardedType, PendingDiscardedHandled, CommittedType
<1>3. d.pending = Cleared(k.pending, Ready(k) \ R, None)
  BY <1>1, PendingDiscardedHandled
<1>4. /\ j.pending = Cleared(d.pending, R, None)
      /\ j.eligible = Thawed(d, R)
      /\ j.table = [r \in Req |-> IF r \in R THEN k.pending[r].plan.dest ELSE d.table[r]]
  BY <1>2 DEF Committed, KV
<1> HIDE DEF j, d, R
<1>5. Handled(d, j)
  BY <1>2, <1>4, ThawHandled DEF Handled
<1>6. \A r \in Ready(k) : j.pending[r] = None
  BY <1>1, <1>3, <1>4 DEF Cleared
<1>7. Handled(k, j)
  BY <1>2, <1>5, KeepsTransitive DEF Handled
<1> QED
  BY <1>6, <1>7 DEF j
LEMMA BeforeScheduleHandled ==
  ASSUME NEW k \in KV, Disciplined(k), NEW R \in SUBSET Req
  PROVE  /\ Handled(k, BeforeSchedule(k, R))
         /\ ~Async => \A r \in Req : (k.pending[r] # None => k.pending[r].ready)
                                     => BeforeSchedule(k, R).pending[r] = None
<1> DEFINE d == Discarded(k, R)
           j == BeforeSchedule(k, R)
<1>1. d \in KV /\ Handled(k, d)
  BY DiscardedType, DiscardedHandled
<1>2. CASE Async
  <2>1. j = d
    BY <1>2 DEF BeforeSchedule
  <2> QED
    BY <1>1, <1>2, <2>1
<1>3. CASE ~Async
  <2>1. j = Committed(d, 0)
    BY <1>3 DEF BeforeSchedule
  <2> HIDE DEF d, j
  <2>2. Handled(d, j) /\ \A r \in Ready(d) : j.pending[r] = None
    BY <1>1, <2>1, CommittedHandled DEF Handled
  <2>3. Handled(k, j)
    BY <1>1, <2>2, KeepsTransitive DEF Handled
  <2>4. ASSUME NEW r \in Req, k.pending[r] # None => k.pending[r].ready, j.pending[r] # None
        PROVE  FALSE
    <3>1. d.pending[r] # None /\ k.pending[r] # None
      BY <2>2, <2>3, <2>4 DEF Handled, KeepsPending
    <3>2. d.pending[r].ready
      BY <1>1, <2>4, <3>1 DEF Handled, KeepsPending
    <3> QED
      BY <2>2, <2>4, <3>1, <3>2 DEF Ready
  <2> QED
    BY <2>3, <2>4 DEF j
<1> QED
  BY <1>2, <1>3

LEMMA AfterModelOutputHandled ==
  ASSUME NEW k \in KV, Disciplined(k)
  PROVE  Handled(k, AfterModelOutput(k))
<1> DEFINE d == Drained(k)
           j == AfterModelOutput(k)
<1>1. d \in KV /\ Handled(k, d)
  BY DrainedType, DrainedHandled
<1>2. CASE Async
  <2>1. j = Committed(d, Depth - 1)
    BY <1>2 DEF AfterModelOutput
  <2> HIDE DEF d, j
  <2>2. Handled(d, j)
    BY <1>1, <2>1, CommittedHandled DEF Handled
  <2>3. Handled(k, j)
    BY <1>1, <2>2, KeepsTransitive DEF Handled
  <2> QED
    BY <2>3 DEF j
<1>3. CASE ~Async
  <2>1. j = k
    BY <1>3 DEF AfterModelOutput
  <2> QED
    BY <2>1, UntouchedHandled
<1> QED
  BY <1>2, <1>3

(* What the host does to r's table and hashes, when r has no transaction.   *)
LEMMA AllocationHandled ==
  ASSUME NEW k \in KV, Disciplined(k), NEW r \in Req, k.pending[r] = None,
         NEW hits \in BlockList, NEW new \in BlockList, NEW n
  PROVE  /\ Handled(k, CacheBlocks(Allocated(k, r, hits, new), r, n))
         /\ CacheBlocks(Allocated(k, r, hits, new), r, n).pending = k.pending
<1> DEFINE a == Allocated(k, r, hits, new)
           j == CacheBlocks(a, r, n)
<1>1. a \in KV /\ j \in KV
  BY AllocatedType, CacheBlocksType
<1>2. /\ a.pending = k.pending /\ a.eligible = k.eligible
      /\ a.table = [k.table EXCEPT ![r] = @ \o hits \o new]
  BY DEF Allocated, KV
<1> HIDE DEF a
<1>3. j.pending = a.pending /\ j.eligible = a.eligible /\ j.table = a.table
  BY <1>1 DEF CacheBlocks, KV
<1> HIDE DEF j
<1>4. \A q \in Req : k.pending[q] # None => j.table[q] = k.table[q]
  BY <1>2, <1>3, KVFields
<1>5. Handled(k, j)
  BY <1>1, <1>2, <1>3, <1>4, UntouchedHandled, ZenonT(30)
<1> QED
  BY <1>2, <1>3, <1>5 DEF j, a

(* Arming: the plan of r is its table and length, r is frozen.              *)
LEMMA ArmedDisciplined ==
  ASSUME NEW k \in KV, Disciplined(k), NEW A \in SUBSET Req, NEW dest,
         \A r \in A : k.pending[r] = None /\ dest[r] \in BlockList /\ computed[r] \in Int
  PROVE  LET j == Armed(k, A, dest) IN
         /\ Disciplined(j)
         /\ \A r \in A : /\ j.pending[r] # None
                         /\ j.pending[r].plan.source = j.table[r]
                         /\ j.pending[r].plan.semantic = computed[r]
         /\ \A r \in Req \ A : j.pending[r] = k.pending[r] /\ j.table[r] = k.table[r]
<1> DEFINE j == Armed(k, A, dest)
<1>1. /\ j.pending = [r \in Req |-> IF r \in A
                        THEN [plan |-> PlanFor(k, r, dest[r]), ready |-> FALSE,
                              previous |-> IF Async THEN k.eligible[r] ELSE None]
                        ELSE k.pending[r]]
      /\ j.eligible = [r \in Req |-> IF r \in A /\ Async THEN Never ELSE k.eligible[r]]
      /\ j.table = k.table
  BY DEF Armed, KV
<1>2. \A r \in A : j.pending[r] # None
  BY ArmedType
<1> HIDE DEF j
<1>3. ASSUME NEW r \in A
      PROVE  /\ j.pending[r].plan.source = j.table[r]
             /\ j.pending[r].plan.semantic = computed[r]
             /\ j.pending[r].previous = IF Async THEN 0 ELSE None
  <2>1. j.pending[r] = [plan |-> PlanFor(k, r, dest[r]), ready |-> FALSE,
                        previous |-> IF Async THEN k.eligible[r] ELSE None]
    BY <1>1
  <2>2. Async => k.eligible[r] = 0
    BY KVFields DEF Disciplined
  <2> QED
    BY <1>1, <2>1, <2>2 DEF PlanFor
<1>4. Disciplined(j)
  BY <1>1, <1>2, <1>3, ZenonT(30) DEF Disciplined
<1>5. \A r \in Req \ A : j.pending[r] = k.pending[r] /\ j.table[r] = k.table[r]
  BY <1>1
<1> QED
  BY <1>2, <1>3, <1>4, <1>5 DEF j

----------------------------------------------------------------------------
(* The invariant, action by action.                                         *)

LEMMA InitTransaction == Init => TransactionInv
<1> SUFFICES ASSUME Init
             PROVE  TransactionInv
  OBVIOUS
<1>1. \A r \in Req : kv.pending[r] = None /\ kv.eligible[r] = 0
  BY DEF Init
<1>2. building = None
  BY DEF Init
<1> QED
  BY <1>1, <1>2, InitType
     DEF TransactionInv, Disciplined, PendingSourceStable, BatchRuns, SyncCommits, Never

(* A handler leaves every plan that stays pending as good as it was, for    *)
(* requests whose status and length the action does not change.             *)
LEMMA HandledStable ==
  ASSUME PendingSourceStable, Handled(kv, kv'),
         \A r \in Req : kv'.pending[r] # None =>
           status'[r] = status[r] /\ computed'[r] = computed[r]
  PROVE  PendingSourceStable'
BY DEF PendingSourceStable, Handled, KeepsPending

LEMMA BeginScheduleTransaction == TransactionInv /\ BeginSchedule => TransactionInv'
<1> SUFFICES ASSUME TransactionInv, BeginSchedule
             PROVE  TransactionInv'
  OBVIOUS
<1>1. TypeOK' /\ kv \in KV /\ finishedIds \in SUBSET Req /\ Len(queue) \in Nat
  BY BeginScheduleType, LenProperties DEF TransactionInv, TypeOK
<1>2. Handled(kv, kv')
  BY <1>1, BeforeScheduleHandled DEF TransactionInv, BeginSchedule
<1>3. PendingSourceStable'
  BY <1>2, HandledStable DEF TransactionInv, BeginSchedule
<1>4. BatchRuns'
  BY DEF BatchRuns, BeginSchedule, EmptyOutput
<1>5. SyncCommits'
  <2> SUFFICES ASSUME ~Async
               PROVE  queue = <<>> /\ \A r \in Req : kv'.pending[r] = None
    BY DEF SyncCommits, BeginSchedule
  <2>1. queue = <<>>
    BY <1>1, ModeAssumption, EmptySeq DEF TransactionInv, TypeOK, BeginSchedule
  <2>2. \A r \in Req : kv.pending[r] # None => kv.pending[r].ready
    BY <2>1 DEF TransactionInv, SyncCommits
  <2> QED
    BY <1>1, <2>1, <2>2, BeforeScheduleHandled DEF TransactionInv, BeginSchedule
<1> QED
  BY <1>1, <1>2, <1>3, <1>4, <1>5 DEF TransactionInv, Handled
(* A scheduled request is not frozen; in synchronous mode nothing is        *)
(* pending by then.                                                         *)
LEMMA SchedulableHasNoPlan ==
  ASSUME TransactionInv, building # None, NEW r \in Req,
         kv.eligible[r] = 0 \/ status[r] # "running"
  PROVE  kv.pending[r] = None
BY DEF TransactionInv, Disciplined, PendingSourceStable, SyncCommits, Never

LEMMA ScheduleTransaction ==
  ASSUME TransactionInv, building # None, TypeOK', Handled(kv, kv'), NEW r \in Req,
         kv.pending[r] = None, kv'.pending[r] = None,
         NEW start, NEW n, NEW kind, NEW blocks, Scheduled(r, start, n, kind, blocks),
         status' = [status EXCEPT ![r] = "running"], UNCHANGED queue
  PROVE  TransactionInv'
<1>1. building \in Output /\ building' \in Output \cup {None}
      /\ status \in [Req -> {"waiting", "running", "preempted", "finished"}]
      /\ computed \in [Req -> Int]
  BY DEF TransactionInv, TypeOK
<1>2. \A q \in Req \ {r} : computed'[q] = computed[q] /\ status'[q] = status[q]
  BY <1>1 DEF Scheduled
<1>3. \A q \in Req : kv'.pending[q] # None => kv.pending[q] # None
  BY DEF Handled, KeepsPending
<1>4. PendingSourceStable'
  BY <1>2, HandledStable DEF TransactionInv
<1>5. \A q \in Req \ {r} : building'.sched[q] = building.sched[q]
  BY <1>1 DEF Scheduled, Output
<1>6. status'[r] = "running"
  BY <1>1
<1>7. BatchRuns'
  BY <1>2, <1>3, <1>5, <1>6 DEF TransactionInv, BatchRuns
<1>8. ASSUME ~Async
      PROVE  queue' = <<>> /\ \A q \in Req : kv'.pending[q] = None
  BY <1>3, <1>8 DEF TransactionInv, SyncCommits
<1>9. SyncCommits'
  BY <1>8 DEF SyncCommits
<1> QED
  BY <1>4, <1>7, <1>9 DEF TransactionInv, Handled

LEMMA ScheduleRunningTransaction ==
  ASSUME TransactionInv, NEW r \in Req, ScheduleRunning(r)
  PROVE  TransactionInv'
<1> DEFINE n == computed[r] + Chunk(r)
<1>1. building # None /\ kv.eligible[r] = 0 /\ status[r] = "running"
  BY DEF ScheduleRunning, Schedulable
<1>2. kv.pending[r] = None
  BY <1>1, SchedulableHasNoPlan
<1>3. TypeOK'
  BY ScheduleRunningType DEF TransactionInv
<1>4. n \in Int /\ kv \in KV /\ FreeBlocks(kv) \in SUBSET Block
  BY <1>1 DEF TransactionInv, TypeOK, Chunk, Known, Least, Output, FreeBlocks
<1>5. PICK new \in NewBlocks(FreeBlocks(kv), Need(kv, r, 0, n)) :
        /\ kv' = CacheBlocks(Allocated(kv, r, <<>>, new), r, Least(n, tokens[r]))
        /\ Scheduled(r, computed[r], Chunk(r), "cached", new)
  BY DEF ScheduleRunning
<1>6. new \in BlockList /\ <<>> \in BlockList
  BY <1>4, <1>5, NeedType, NewBlocksType, EmptySeq DEF BlockList
<1>7. Handled(kv, kv') /\ kv'.pending = kv.pending
  BY <1>2, <1>4, <1>5, <1>6, AllocationHandled DEF TransactionInv
<1>8. status' = [status EXCEPT ![r] = "running"] /\ queue' = queue
  BY <1>1 DEF TransactionInv, TypeOK, ScheduleRunning
<1> HIDE DEF n
<1> QED
  BY <1>1, <1>2, <1>3, <1>5, <1>7, <1>8, ScheduleTransaction

LEMMA AdmitTransaction ==
  ASSUME TransactionInv, NEW r \in Req, Admit(r)
  PROVE  TransactionInv'
<1>1. building # None /\ status[r] # "running"
  BY DEF Admit, Admissible
<1>2. kv.pending[r] = None
  BY <1>1, SchedulableHasNoPlan
<1>3. TypeOK'
  BY AdmitType DEF TransactionInv
<1>4. PICK hits \in Hits(r) :
        LET start == Len(hits) * BlockSize
            n == FirstChunk(r, start) IN
        \E new \in NewBlocks(Unclaimed(hits), Need(kv, r, Len(hits), start + n)) :
          /\ kv' = CacheBlocks(Allocated(kv, r, hits, new), r, start + n)
          /\ Scheduled(r, start, n, IF status[r] = "waiting" THEN "new" ELSE "resumed",
                       hits \o new)
  BY DEF Admit
<1> DEFINE start == Len(hits) * BlockSize
           n == FirstChunk(r, start)
           kind == IF status[r] = "waiting" THEN "new" ELSE "resumed"
<1>5. PICK new \in NewBlocks(Unclaimed(hits), Need(kv, r, Len(hits), start + n)) :
        /\ kv' = CacheBlocks(Allocated(kv, r, hits, new), r, start + n)
        /\ Scheduled(r, start, n, kind, hits \o new)
  BY <1>4
<1>6. hits \in BlockList /\ Len(hits) \in Nat
  BY HitsType
<1>7. start \in Int
  BY <1>6, ConfigAssumption
<1> HIDE DEF start
<1>8. n \in Int /\ start + n \in Int
  BY <1>1, <1>7 DEF TransactionInv, TypeOK, FirstChunk, Least, Output
<1> HIDE DEF n, kind
<1>9. kv \in KV /\ Unclaimed(hits) \in SUBSET Block
  BY DEF TransactionInv, TypeOK, Unclaimed, FreeBlocks
<1>10. new \in BlockList
  BY <1>5, <1>6, <1>8, <1>9, NeedType, NewBlocksType
<1>11. Handled(kv, kv') /\ kv'.pending = kv.pending
  BY <1>2, <1>5, <1>6, <1>9, <1>10, AllocationHandled DEF TransactionInv
<1>12. status' = [status EXCEPT ![r] = "running"] /\ queue' = queue
  BY DEF Admit
<1> QED
  BY <1>1, <1>2, <1>3, <1>5, <1>11, <1>12, ScheduleTransaction

(* Freeing the requests R, whose status and length may change at will.      *)
LEMMA FreeTransaction ==
  ASSUME TransactionInv, TypeOK', NEW R \in SUBSET Req,
         Handled(kv, kv'), \A r \in R : kv'.pending[r] = None,
         \A r \in Req \ R : status'[r] = status[r] /\ computed'[r] = computed[r],
         building # None => /\ building' # None
                            /\ \A r \in R : building'.sched[r] = None
                            /\ \A r \in Req : building'.sched[r] = building.sched[r],
         building = None => building' = None,
         queue = <<>> <=> queue' = <<>>,
         queue # <<>> => Head(queue').plans = Head(queue).plans
  PROVE  TransactionInv'
<1>1. PendingSourceStable'
  <2>1. \A r \in Req : kv'.pending[r] # None => r \in Req \ R
    OBVIOUS
  <2> QED
    BY <2>1, HandledStable DEF TransactionInv
<1>2. \A r \in Req : kv'.pending[r] # None => kv.pending[r] # None
  BY DEF Handled, KeepsPending
<1>3. BatchRuns'
  BY <1>2 DEF TransactionInv, BatchRuns
<1>4. SyncCommits'
  BY <1>2 DEF TransactionInv, SyncCommits, Handled, KeepsPending
<1> QED
  BY <1>1, <1>3, <1>4 DEF TransactionInv, Handled

LEMMA PreemptTransaction ==
  ASSUME TransactionInv, NEW victim \in Req, Preempt(victim)
  PROVE  TransactionInv'
<1>1. TypeOK' /\ kv \in KV /\ building \in Output /\ building # None
  BY PreemptType DEF TransactionInv, TypeOK, Preempt
<1>2. Handled(kv, kv') /\ \A r \in {victim} : kv'.pending[r] = None
  BY <1>1, FreedHandled DEF TransactionInv, Preempt
<1>3. \A r \in Req \ {victim} : status'[r] = status[r] /\ computed'[r] = computed[r]
  BY DEF TransactionInv, TypeOK, Preempt
<1>4. building' \in Output /\ building'.sched = building.sched
  BY <1>1 DEF Preempt, Output
<1>5. building' # None /\ building.sched[victim] = None
  BY <1>4, NoneAssumption DEF Preempt
<1>6. queue' = queue
  BY DEF Preempt
<1> DEFINE R == {victim}
<1>7. /\ R \in SUBSET Req
      /\ \A r \in R : kv'.pending[r] = None /\ building'.sched[r] = None
      /\ \A r \in Req \ R : status'[r] = status[r] /\ computed'[r] = computed[r]
      /\ \A r \in Req : building'.sched[r] = building.sched[r]
  BY <1>2, <1>3, <1>4, <1>5
<1> HIDE DEF R
<1> QED
  BY <1>1, <1>2, <1>5, <1>6, <1>7, FreeTransaction

LEMMA AbortTransaction ==
  ASSUME TransactionInv, NEW q \in Req, Abort(q)
  PROVE  TransactionInv'
<1>1. TypeOK' /\ kv \in KV
  BY AbortType DEF TransactionInv, TypeOK
<1>2. Handled(kv, kv') /\ \A r \in {q} : kv'.pending[r] = None
  BY <1>1, FreedHandled DEF TransactionInv, Abort
<1>3. \A r \in Req \ {q} : status'[r] = status[r] /\ computed'[r] = computed[r]
  BY DEF TransactionInv, TypeOK, Abort
<1>4. building = None /\ building' = None /\ queue' = queue
  BY DEF Abort
<1> DEFINE R == {q}
<1>5. /\ R \in SUBSET Req
      /\ \A r \in R : kv'.pending[r] = None
      /\ \A r \in Req \ R : status'[r] = status[r] /\ computed'[r] = computed[r]
  BY <1>2, <1>3
<1> HIDE DEF R
<1> QED
  BY <1>1, <1>2, <1>4, <1>5, FreeTransaction

LEMMA ResetPrefixCacheTransaction == TransactionInv /\ ResetPrefixCache => TransactionInv'
<1> SUFFICES ASSUME TransactionInv, ResetPrefixCache
             PROVE  TransactionInv'
  OBVIOUS
<1> DEFINE R == {r \in Req : status[r] = "running"}
           k == Freed(kv, R)
<1>1. TypeOK' /\ kv \in KV /\ queue \in Seq(Output) /\ Len(queue) \in Nat
  BY ResetPrefixCacheType, LenProperties DEF TransactionInv, TypeOK
<1>2. /\ kv' = IF FreeBlocks(k) = Block
               THEN [k EXCEPT !.hash = [b \in Block |-> Unhashed]] ELSE k
      /\ queue' = [i \in DOMAIN queue |-> [queue[i] EXCEPT !.sampled = @ \ R]]
      /\ building = None /\ building' = None
      /\ status' = [r \in Req |-> IF r \in R THEN "preempted" ELSE status[r]]
      /\ computed' = [r \in Req |-> IF r \in R THEN 0 ELSE computed[r]]
  BY DEF ResetPrefixCache
<1>3. R \in SUBSET Req
  OBVIOUS
<1>4. k \in KV /\ Handled(kv, k) /\ \A r \in R : k.pending[r] = None
  BY <1>1, <1>3, FreedType, FreedHandled DEF TransactionInv
<1> HIDE DEF R, k
<1>5. kv' \in KV /\ kv'.pending = k.pending /\ kv'.eligible = k.eligible
      /\ kv'.table = k.table
  <2>1. kv' \in KV
    BY <1>1 DEF TypeOK
  <2> QED
    BY <1>2, <1>4, <2>1 DEF KV
<1>6. Handled(kv, kv') /\ \A r \in R : kv'.pending[r] = None
  BY <1>4, <1>5 DEF Handled, Disciplined, KeepsPending
<1>7. \A r \in Req \ R : status'[r] = status[r] /\ computed'[r] = computed[r]
  BY <1>2
<1>8. queue = <<>> <=> queue' = <<>>
  <2>1. DOMAIN queue' = DOMAIN queue /\ queue' \in Seq(Output)
    BY <1>1, <1>2 DEF TypeOK
  <2>2. Len(queue') = Len(queue)
    BY <1>1, <2>1, LenProperties
  <2> QED
    BY <1>1, <2>1, <2>2, EmptySeq
<1>9. ASSUME queue # <<>>
      PROVE  Head(queue').plans = Head(queue).plans
  <2>1. queue' \in Seq(Output) /\ queue' # <<>>
    BY <1>1, <1>8, <1>9 DEF TypeOK
  <2>2. 1 \in DOMAIN queue /\ queue[1] \in Output
    BY <1>1, <1>9, EmptySeq, LenProperties
  <2>3. Head(queue) = queue[1] /\ Head(queue') = queue'[1]
    BY <1>1, <1>9, <2>1, HeadTailProperties
  <2>4. queue'[1] = [queue[1] EXCEPT !.sampled = @ \ R]
    BY <1>2, <2>2
  <2> QED
    BY <2>2, <2>3, <2>4 DEF Output
<1> QED
  BY <1>1, <1>2, <1>3, <1>6, <1>7, <1>8, <1>9, FreeTransaction

(* In synchronous mode the queue holds one batch, so that every plan still  *)
(* pending is acknowledged by the output that is being consumed.            *)
LEMMA UpdateFromOutputTransaction ==
  ASSUME TransactionInv, NEW F \in SUBSET Req, UpdateFromOutput(F)
  PROVE  TransactionInv'
<1> DEFINE f == Freed(kv, F)
           plans == Head(queue).plans
           k == Acknowledged(f, plans)
<1>1. TypeOK' /\ kv \in KV
  BY UpdateFromOutputType DEF TransactionInv, TypeOK
<1>2. /\ building = None /\ building' = None
      /\ kv' = AfterModelOutput(k)
      /\ status' = [r \in Req |-> IF r \in F THEN "finished" ELSE status[r]]
      /\ computed' = [r \in Req |-> IF r \in F THEN 0 ELSE computed[r]]
      /\ ran > 0
  BY DEF UpdateFromOutput
<1>3. f \in KV /\ Handled(kv, f) /\ \A r \in F : f.pending[r] = None
  BY <1>1, FreedType, FreedHandled DEF TransactionInv
<1>4. k \in KV /\ Handled(f, k)
  BY <1>3, AcknowledgedType, AcknowledgedHandled DEF Handled
<1>5. \A r \in Req : k.pending[r] # None /\ plans[r] = f.pending[r].plan => k.pending[r].ready
  BY <1>3, AcknowledgedHandled DEF Handled
<1> HIDE DEF f, k, plans
<1>6. Handled(k, kv')
  BY <1>2, <1>4, AfterModelOutputHandled DEF Handled
<1>7. Handled(kv, k) /\ Handled(kv, kv')
  BY <1>3, <1>4, <1>6, KeepsTransitive DEF Handled
<1>8. \A r \in F : kv'.pending[r] = None
  BY <1>3, <1>4, <1>6 DEF Handled, KeepsPending
<1>9. PendingSourceStable'
  <2>1. \A r \in Req : kv'.pending[r] # None =>
          status'[r] = status[r] /\ computed'[r] = computed[r]
    BY <1>2, <1>8
  <2> QED
    BY <1>7, <2>1, HandledStable DEF TransactionInv
<1>10. BatchRuns'
  BY <1>2 DEF BatchRuns
<1>11. SyncCommits'
  <2> SUFFICES ASSUME ~Async, NEW r \in Req, kv'.pending[r] # None
               PROVE  kv'.pending[r].ready
    BY <1>2 DEF SyncCommits
  <2>1. k.pending[r] # None /\ f.pending[r] # None /\ kv.pending[r] # None
    BY <1>4, <1>6, <1>7 DEF Handled, KeepsPending
  <2>2. kv.pending[r].ready \/ plans[r] = kv.pending[r].plan
    BY <2>1 DEF TransactionInv, SyncCommits, plans
  <2>3. f.pending[r].plan = kv.pending[r].plan
    BY <1>3, <2>1 DEF Handled, KeepsPending
  <2>4. k.pending[r].ready
    BY <1>5, <1>7, <2>1, <2>2, <2>3 DEF Handled, KeepsPending
  <2> QED
    BY <1>6, <2>1, <2>4 DEF Handled, KeepsPending
<1> QED
  BY <1>1, <1>7, <1>9, <1>10, <1>11 DEF TransactionInv, Handled

(* Arming reads the table and the length of a request that runs in the      *)
(* batch; in synchronous mode that batch is the only one queued.            *)
LEMMA EndScheduleTransaction == TransactionInv /\ EndSchedule => TransactionInv'
<1> SUFFICES ASSUME TransactionInv, EndSchedule
             PROVE  TransactionInv'
  OBVIOUS
<1> DEFINE output == [building EXCEPT !.finished = finishedIds,
                                      !.preempted = @ \cup resetIds]
           reset == output.preempted \cup output.finished
           k1 == Discarded(kv, reset)
<1>1. TypeOK' /\ kv \in KV /\ building # None /\ building \in Output
      /\ output \in Output /\ output.sched = building.sched /\ reset \in SUBSET Req
  BY EndScheduleType DEF TransactionInv, TypeOK, EndSchedule, Output
<1>2. /\ building' = None /\ status' = status /\ computed' = computed
  BY DEF EndSchedule
<1>3. PICK A \in SUBSET Req : \E dest \in [A -> [1..Keep -> FreeBlocks(kv)]] :
        /\ AfterSchedule(kv, output, A, dest)
        /\ queue' = Append(queue, [output EXCEPT !.plans =
             [r \in Req |-> IF r \in A THEN kv'.pending[r].plan ELSE None]])
  BY DEF EndSchedule
<1>4. PICK dest \in [A -> [1..Keep -> FreeBlocks(kv)]] :
        /\ AfterSchedule(kv, output, A, dest)
        /\ queue' = Append(queue, [output EXCEPT !.plans =
             [r \in Req |-> IF r \in A THEN kv'.pending[r].plan ELSE None]])
  BY <1>3
<1> HIDE DEF output
<1>5. k1 \in KV /\ Handled(kv, k1) /\ FreeBlocks(k1) \in SUBSET Block
  BY <1>1, DiscardedType, DiscardedHandled DEF TransactionInv, FreeBlocks
<1>6. /\ kv' = Armed(k1, A, dest)
      /\ \A r \in A : /\ dest[r] \in [1..Keep -> FreeBlocks(k1)]
                      /\ output.sched[r] # None /\ k1.pending[r] = None
  BY <1>4 DEF AfterSchedule, Armable
<1> HIDE DEF reset, k1
<1>7. \A r \in A : dest[r] \in BlockList /\ computed[r] \in Int
  BY <1>5, <1>6, BlocksForType, FunctionsAreLists DEF TransactionInv, TypeOK
<1>8. /\ Disciplined(kv')
      /\ \A r \in A : /\ kv'.pending[r].plan.source = kv'.table[r]
                      /\ kv'.pending[r].plan.semantic = computed[r]
      /\ \A r \in Req \ A : kv'.pending[r] = k1.pending[r] /\ kv'.table[r] = k1.table[r]
  <2> DEFINE j == Armed(k1, A, dest)
  <2>1. Disciplined(k1)
    BY <1>5 DEF Handled
  <2>2. \A r \in A : k1.pending[r] = None /\ dest[r] \in BlockList /\ computed[r] \in Int
    BY <1>6, <1>7
  <2>3. /\ Disciplined(j)
        /\ \A r \in A : /\ j.pending[r].plan.source = j.table[r]
                        /\ j.pending[r].plan.semantic = computed[r]
        /\ \A r \in Req \ A : j.pending[r] = k1.pending[r] /\ j.table[r] = k1.table[r]
    BY <1>5, <2>1, <2>2, ArmedDisciplined
  <2>4. kv' = j
    BY <1>6
  <2> HIDE DEF j
  <2> QED
    BY <2>3, <2>4
<1>9. \A r \in A : status[r] = "running"
  BY <1>1, <1>6 DEF TransactionInv, BatchRuns
<1>10. PendingSourceStable'
  <2> SUFFICES ASSUME NEW r \in Req, kv'.pending[r] # None
               PROVE  /\ status'[r] = "running"
                      /\ kv'.table[r] = kv'.pending[r].plan.source
                      /\ computed'[r] = kv'.pending[r].plan.semantic
    BY DEF PendingSourceStable
  <2>1. CASE r \in A
    BY <1>2, <1>8, <1>9, <2>1
  <2>2. CASE r \notin A
    <3>1. k1.pending[r] # None /\ kv'.pending[r] = k1.pending[r] /\ kv'.table[r] = k1.table[r]
      BY <1>8, <2>2
    <3> QED
      BY <1>2, <1>5, <3>1 DEF TransactionInv, PendingSourceStable, Handled, KeepsPending
  <2> QED
    BY <2>1, <2>2
<1>11. BatchRuns'
  BY <1>2 DEF BatchRuns
<1>12. SyncCommits'
  <2> SUFFICES ASSUME ~Async, NEW r \in Req, kv'.pending[r] # None
               PROVE  queue' # <<>> /\ Head(queue').plans[r] = kv'.pending[r].plan
    BY <1>2 DEF SyncCommits
  <2>1. queue = <<>> /\ kv.pending[r] = None
    BY <1>1 DEF TransactionInv, SyncCommits
  <2>2. r \in A
    BY <1>5, <1>8, <2>1 DEF Handled, KeepsPending
  <2> DEFINE out == [output EXCEPT !.plans =
                       [q \in Req |-> IF q \in A THEN kv'.pending[q].plan ELSE None]]
  <2>3. out.plans[r] = kv'.pending[r].plan
    BY <1>1, <2>2 DEF Output
  <2>4. queue' = Append(queue, out)
    BY <1>4
  <2> HIDE DEF out
  <2>5. queue' = <<out>>
    BY <2>1, <2>4
  <2> QED
    BY <2>3, <2>5
<1> QED
  BY <1>1, <1>8, <1>10, <1>11, <1>12 DEF TransactionInv

LEMMA StutterTransaction ==
  ASSUME TransactionInv,
         UNCHANGED <<kv, status, computed, building, queue>>, TypeOK'
  PROVE  TransactionInv'
BY DEF TransactionInv, Disciplined, PendingSourceStable, BatchRuns, SyncCommits

LEMMA NextTransaction == TransactionInv /\ [Next]_vars => TransactionInv'
<1> SUFFICES ASSUME TransactionInv, [Next]_vars
             PROVE  TransactionInv'
  OBVIOUS
<1>1. CASE BeginSchedule
  BY <1>1, BeginScheduleTransaction
<1>2. ASSUME NEW r \in Req, Admit(r)
      PROVE  TransactionInv'
  BY <1>2, AdmitTransaction
<1>3. ASSUME NEW r \in Req, ScheduleRunning(r)
      PROVE  TransactionInv'
  BY <1>3, ScheduleRunningTransaction
<1>4. ASSUME NEW r \in Req, Preempt(r)
      PROVE  TransactionInv'
  BY <1>4, PreemptTransaction
<1>5. CASE EndSchedule
  BY <1>5, EndScheduleTransaction
<1>6. ASSUME NEW F \in SUBSET Req, UpdateFromOutput(F)
      PROVE  TransactionInv'
  BY <1>6, UpdateFromOutputTransaction
<1>7. ASSUME NEW r \in Req, Abort(r)
      PROVE  TransactionInv'
  BY <1>7, AbortTransaction
<1>8. CASE ResetPrefixCache
  BY <1>8, ResetPrefixCacheTransaction
<1>9. CASE WorkerRuns \/ Terminated \/ UNCHANGED vars
  <2>1. TypeOK'
    BY NextType DEF TransactionInv
  <2>2. UNCHANGED <<kv, status, computed, building, queue>>
    BY <1>9 DEF WorkerRuns, Terminated, vars
  <2> QED
    BY <2>1, <2>2, StutterTransaction
<1> QED
  BY <1>1, <1>2, <1>3, <1>4, <1>5, <1>6, <1>7, <1>8, <1>9 DEF Next, SchedulerNext, EngineNext

(* The invariant that the freeze, the thaw, the acknowledgements and the    *)
(* commits of _commit_pending keep between them.                            *)
THEOREM TransactionCorrect == Spec => []TransactionInv
<1>1. Init => TransactionInv
  BY InitTransaction
<1>2. TransactionInv /\ [Next]_vars => TransactionInv'
  BY NextTransaction
<1> QED
  BY <1>1, <1>2, PTL DEF Spec

(* A request is frozen out of the scheduler exactly while an asynchronous   *)
(* transaction of it is pending, through every abort, preemption, stop,     *)
(* reset and commit: none is left frozen, none scheduled under a plan.      *)
THEOREM FreezeCorrect == Spec => []FrozenIffPending
<1>1. TransactionInv => FrozenIffPending
  BY DEF TransactionInv, Disciplined, FrozenIffPending
<1> QED
  BY <1>1, TransactionCorrect, PTL

(* A pending plan always finds its request running, on the block table and  *)
(* at the semantic length that it was armed with: the RuntimeError of       *)
(* _commit_pending on a changed block table is unreachable.                 *)
THEOREM SourceCorrect == Spec => []PendingSourceStable
<1>1. TransactionInv => PendingSourceStable
  BY DEF TransactionInv
<1> QED
  BY <1>1, TransactionCorrect, PTL

----------------------------------------------------------------------------
(* Block accounting: reference counts are exact, private KV is private, and *)
(* a replaced source outlives the batches that were queued when it was      *)
(* replaced.  Most handlers release the blocks at some places and move      *)
(* those at other places to new ones (MovedAccounted); the others hand out  *)
(* free blocks or share cached ones.                                        *)

(* RefExact of a KV record.                                                 *)
Counted(k) == \A b \in Block : k.ref[b] = Cardinality(Holders(k, b))

(* The places of private KV: reservations, and tables of compacted requests.*)
Secret(k) ==
  {p \in Places(Req) : p[2] = Reserved \/ (p[2] = Table /\ k.active[p[1]] # None)}

(* Each block there is unhashed and nowhere else.                           *)
Exclusive(k) ==
  \A p \in Secret(k) : \A b \in BlocksAt(k, p) :
    /\ k.hash[b] = Unhashed
    /\ \A q \in Places(Req) : b \in BlocksAt(k, q) => q = p

Accounted(k) == Counted(k) /\ Exclusive(k)

----------------------------------------------------------------------------
(* Places and what is at them.                                              *)

LEMMA PlaceFields ==
  ASSUME NEW p \in Places(Req)
  PROVE  /\ p[1] \in Req /\ p[2] \in -1..Depth - 1 /\ p = <<p[1], p[2]>>
         /\ p[2] = Table \/ p[2] = Reserved \/ p[2] \in 1..Depth - 1
BY ModeAssumption DEF Places, Table, Reserved

LEMMA PlaceTypes ==
  ASSUME NEW r \in Req
  PROVE  /\ <<r, Table>> \in Places(Req)
         /\ <<r, Reserved>> \in Places(Req)
         /\ \A left \in 1..Depth - 1 : <<r, left>> \in Places(Req)
BY ModeAssumption DEF Places, Table, Reserved

LEMMA WhatIsAt ==
  ASSUME NEW k, NEW r
  PROVE  /\ BlocksAt(k, <<r, Table>>) = Range(k.table[r])
         /\ BlocksAt(k, <<r, Reserved>>) =
              IF k.pending[r] = None THEN {} ELSE Range(k.pending[r].plan.dest)
BY DEF BlocksAt, Table, Reserved

LEMMA DeferredAt ==
  ASSUME NEW k, NEW r, NEW left \in 1..Depth - 1
  PROVE  BlocksAt(k, <<r, left>>) = k.deferred[r][left]
BY DEF BlocksAt, Table, Reserved

LEMMA BlocksAtType ==
  ASSUME NEW k \in KV, NEW p \in Places(Req)
  PROVE  BlocksAt(k, p) \subseteq Block
<1> DEFINE r == p[1]
<1>1. r \in Req /\ p = <<r, p[2]>> /\ (p[2] = Table \/ p[2] = Reserved \/ p[2] \in 1..Depth - 1)
  BY PlaceFields
<1> HIDE DEF r
<1>2. k.table[r] \in Seq(Block) /\ k.pending[r] \in Pending \cup {None}
      /\ k.deferred[r] \in [1..Depth - 1 -> SUBSET Block]
  BY <1>1, KVFields DEF BlockList
<1>3. CASE p[2] = Table
  <2>1. BlocksAt(k, p) = Range(k.table[r])
    BY <1>1, <1>3, WhatIsAt
  <2> QED
    BY <1>2, <2>1, RangeOfSeq
<1>4. CASE p[2] = Reserved
  <2>1. BlocksAt(k, p) = IF k.pending[r] = None THEN {} ELSE Range(k.pending[r].plan.dest)
    BY <1>1, <1>4, WhatIsAt
  <2>2. k.pending[r] # None => Range(k.pending[r].plan.dest) \subseteq Block
    <3> SUFFICES ASSUME k.pending[r] # None
                 PROVE  Range(k.pending[r].plan.dest) \subseteq Block
      OBVIOUS
    <3>1. k.pending[r] \in Pending
      BY <1>2
    <3>2. k.pending[r].plan \in Plan
      BY <3>1 DEF Pending
    <3>3. k.pending[r].plan.dest \in Seq(Block)
      BY <3>2 DEF Plan, BlockList
    <3> QED
      BY <3>3, RangeOfSeq
  <2> QED
    BY <2>1, <2>2
<1>5. ASSUME NEW left \in 1..Depth - 1, p = <<r, left>>
      PROVE  BlocksAt(k, p) \subseteq Block
  <2>1. BlocksAt(k, <<r, left>>) = k.deferred[r][left]
    BY DeferredAt
  <2> QED
    BY <1>2, <1>5, <2>1
<1> QED
  BY <1>1, <1>3, <1>4, <1>5

LEMMA HoldersFinite ==
  ASSUME NEW k, NEW b
  PROVE  IsFiniteSet(Holders(k, b)) /\ Cardinality(Holders(k, b)) \in Nat
<1>1. IsFiniteSet(Holders(k, b))
  BY PlacesFinite DEF Holders
<1> QED
  BY <1>1, FS_CardinalityType

(* A block that is free is nowhere.                                         *)
LEMMA FreeIsNowhere ==
  ASSUME NEW k, Counted(k), NEW b \in FreeBlocks(k)
  PROVE  Holders(k, b) = {}
<1>1. Cardinality(Holders(k, b)) = 0
  BY DEF Counted, FreeBlocks
<1> QED
  BY <1>1, HoldersFinite, FS_EmptySet

----------------------------------------------------------------------------
(* The blocks at the places P are released, those at every other place p    *)
(* move to the place f[p], and only private places become private ones.     *)
Moves(k, j, P, f) ==
  /\ f \in [Places(Req) \ P -> Places(Req)]
  /\ \A p, q \in Places(Req) \ P : f[p] = f[q] => p = q
  /\ \A p \in Places(Req) \ P : BlocksAt(j, f[p]) = BlocksAt(k, p)
  /\ \A q \in Places(Req) : BlocksAt(j, q) # {} => \E p \in Places(Req) \ P : q = f[p]
  /\ \A p \in Places(Req) \ P : f[p] \in Secret(j) => p \in Secret(k)
  /\ j.ref = FreeAt(k, P) /\ j.hash = k.hash

LEMMA MovedCounted ==
  ASSUME NEW k, NEW j, NEW P \in SUBSET Places(Req), NEW f,
         Moves(k, j, P, f), Counted(k)
  PROVE  Counted(j)
<1> USE DEF Moves
<1> SUFFICES ASSUME NEW b \in Block
             PROVE  j.ref[b] = Cardinality(Holders(j, b))
  BY DEF Counted
<1> DEFINE H == Holders(k, b)
           G == {p \in P : b \in BlocksAt(k, p)}
           g == [p \in H \ G |-> f[p]]
<1>1. H \ G \subseteq Places(Req) \ P /\ G = H \cap P /\ H \subseteq Places(Req)
  BY DEF Holders
<1>2. IsFiniteSet(H) /\ Cardinality(H) \in Nat
  BY HoldersFinite
<1>3. IsFiniteSet(G) /\ IsFiniteSet(H \ G) /\ Cardinality(H \ G) = Cardinality(H) - Cardinality(G)
  <2>1. G \subseteq H
    BY <1>1
  <2>2. IsFiniteSet(G) /\ H \cap G = G
    BY <1>2, <2>1, FS_Subset
  <2>3. IsFiniteSet(H \ G) /\ Cardinality(H \ G) = Cardinality(H) - Cardinality(H \cap G)
    BY <1>2, FS_Difference
  <2> QED
    BY ONLY <2>2, <2>3
<1>4. \A q : q \in Holders(j, b) <=> \E p \in H \ G : q = f[p]
  <2>1. ASSUME NEW q \in Holders(j, b)
        PROVE  \E p \in H \ G : q = f[p]
    <3>1. q \in Places(Req) /\ b \in BlocksAt(j, q)
      BY <2>1 DEF Holders
    <3>2. PICK p \in Places(Req) \ P : q = f[p]
      BY <3>1
    <3>3. b \in BlocksAt(k, p)
      BY <3>1, <3>2
    <3> QED
      BY <1>1, <3>2, <3>3 DEF Holders
  <2>2. ASSUME NEW p \in H \ G
        PROVE  f[p] \in Holders(j, b)
    <3>1. p \in Places(Req) \ P /\ b \in BlocksAt(k, p)
      BY <1>1, <2>2 DEF Holders
    <3> QED
      BY <3>1 DEF Holders
  <2> QED
    BY <2>1, <2>2
<1>5. g \in Bijection(H \ G, Holders(j, b))
  <2>1. g \in [H \ G -> Holders(j, b)]
    BY <1>4
  <2>2. \A p, q \in H \ G : g[p] = g[q] => p = q
    BY <1>1
  <2>3. \A q \in Holders(j, b) : \E p \in H \ G : g[p] = q
    BY <1>4
  <2> QED
    BY <2>1, <2>2, <2>3, Fun_IsBij
<1>6. Cardinality(Holders(j, b)) = Cardinality(H \ G)
  <2>1. ExistsBijection(H \ G, Holders(j, b))
    BY <1>5 DEF ExistsBijection
  <2> QED
    BY <1>3, <2>1, HoldersFinite, FS_Bijection
<1>7. j.ref[b] = k.ref[b] - Cardinality(G)
  BY DEF FreeAt
<1> QED
  BY <1>3, <1>6, <1>7 DEF Counted

LEMMA MovedExclusive ==
  ASSUME NEW k, NEW j, NEW P \in SUBSET Places(Req), NEW f,
         Moves(k, j, P, f), Exclusive(k)
  PROVE  Exclusive(j)
<1> USE DEF Moves
<1> SUFFICES ASSUME NEW q \in Secret(j), NEW b \in BlocksAt(j, q)
             PROVE  /\ j.hash[b] = Unhashed
                    /\ \A o \in Places(Req) : b \in BlocksAt(j, o) => o = q
  BY DEF Exclusive
<1>1. q \in Places(Req)
  BY DEF Secret
<1>2. PICK p \in Places(Req) \ P : q = f[p]
  BY <1>1
<1>3. p \in Secret(k) /\ b \in BlocksAt(k, p)
  BY <1>2
<1>4. k.hash[b] = Unhashed /\ \A o \in Places(Req) : b \in BlocksAt(k, o) => o = p
  BY <1>3 DEF Exclusive
<1>5. ASSUME NEW o \in Places(Req), b \in BlocksAt(j, o)
      PROVE  o = q
  <2>1. PICK m \in Places(Req) \ P : o = f[m]
    BY <1>5
  <2>2. b \in BlocksAt(k, m)
    BY <1>5, <2>1
  <2>3. m = p
    BY <1>4, <2>2
  <2> QED
    BY <1>2, <2>1, <2>3
<1> QED
  BY <1>4, <1>5

(* Releasing some places and leaving the others alone.                      *)
LEMMA Released ==
  ASSUME NEW k, NEW j, NEW P \in SUBSET Places(Req),
         \A p \in Places(Req) \ P : BlocksAt(j, p) = BlocksAt(k, p),
         \A p \in P : BlocksAt(j, p) = {},
         Secret(j) \subseteq Secret(k),
         j.ref = FreeAt(k, P), j.hash = k.hash, Accounted(k)
  PROVE  Accounted(j)
<1> DEFINE f == [p \in Places(Req) \ P |-> p]
<1>1. f \in [Places(Req) \ P -> Places(Req)]
  OBVIOUS
<1>2. \A p \in Places(Req) \ P : f[p] = p
  OBVIOUS
<1> HIDE DEF f
<1>3. Moves(k, j, P, f)
  BY <1>1, <1>2 DEF Moves
<1> QED
  BY <1>3, MovedCounted, MovedExclusive DEF Accounted

(* Nothing is released at places that hold nothing.                         *)
LEMMA NothingFreed ==
  ASSUME NEW k \in KV, NEW P \in SUBSET Places(Req), \A p \in P : BlocksAt(k, p) = {}
  PROVE  FreeAt(k, P) = k.ref
<1>1. ASSUME NEW b \in Block
      PROVE  k.ref[b] - Cardinality({p \in P : b \in BlocksAt(k, p)}) = k.ref[b]
  <2>1. {p \in P : b \in BlocksAt(k, p)} = {}
    OBVIOUS
  <2>2. k.ref[b] \in Int
    BY KVFields
  <2> QED
    BY <2>1, <2>2, FS_EmptySet
<1>2. k.ref = [b \in Block |-> k.ref[b]]
  BY KVFields
<1> QED
  BY <1>1, <1>2 DEF FreeAt

(* What is at a place depends on three fields only.                         *)
LEMMA SameAt ==
  ASSUME NEW k, NEW j, NEW p,
         j.table[p[1]] = k.table[p[1]],
         j.deferred[p[1]] = k.deferred[p[1]],
         j.pending[p[1]] = None <=> k.pending[p[1]] = None,
         k.pending[p[1]] # None => j.pending[p[1]].plan.dest = k.pending[p[1]].plan.dest
  PROVE  BlocksAt(j, p) = BlocksAt(k, p)
BY DEF BlocksAt

----------------------------------------------------------------------------
(* The handlers.                                                            *)

LEMMA FreedAccounted ==
  ASSUME NEW k \in KV, Accounted(k), NEW R \in SUBSET Req
  PROVE  Accounted(Freed(k, R))
<1> DEFINE j == Freed(k, R)
           P == Places(R)
<1>1. j.table = Cleared(k.table, R, <<>>) /\ j.pending = Cleared(k.pending, R, None)
      /\ j.active = Cleared(k.active, R, None) /\ j.deferred = Cleared(k.deferred, R, Emptied)
      /\ j.ref = FreeAt(k, P) /\ j.hash = k.hash
  BY DEF Freed, KV
<1>2. P \in SUBSET Places(Req) /\ \A p \in Places(Req) : p \in P <=> p[1] \in R
  BY DEF Places
<1> HIDE DEF j, P
<1>3. ASSUME NEW p \in Places(Req) \ P
      PROVE  BlocksAt(j, p) = BlocksAt(k, p)
  <2>1. p[1] \in Req \ R
    BY <1>2, PlaceFields
  <2>2. j.table[p[1]] = k.table[p[1]] /\ j.pending[p[1]] = k.pending[p[1]]
        /\ j.deferred[p[1]] = k.deferred[p[1]]
    BY <1>1, <2>1 DEF Cleared
  <2> QED
    BY <2>2, SameAt
<1>4. ASSUME NEW p \in P
      PROVE  BlocksAt(j, p) = {}
  <2>1. p \in Places(Req) /\ p[1] \in R
    BY <1>2
  <2>2. p[1] \in Req /\ (p[2] = Table \/ p[2] = Reserved \/ p[2] \in 1..Depth - 1)
    BY <2>1, PlaceFields
  <2>3. j.table[p[1]] = <<>> /\ j.pending[p[1]] = None /\ j.deferred[p[1]] = Emptied
    BY <1>1, <2>1, <2>2 DEF Cleared
  <2>4. Range(<<>>) = {}
    BY DEF Range
  <2>5. \A left \in 1..Depth - 1 : Emptied[left] = {}
    BY DEF Emptied
  <2> QED
    BY <2>2, <2>3, <2>4, <2>5 DEF BlocksAt, Table, Reserved
<1>5. Secret(j) \subseteq Secret(k)
  <2> SUFFICES ASSUME NEW p \in Secret(j)
               PROVE  p \in Secret(k)
    OBVIOUS
  <2>1. p \in Places(Req) /\ p[1] \in Req
    BY PlaceFields DEF Secret
  <2>2. j.active[p[1]] # None => k.active[p[1]] # None
    BY <1>1, <2>1 DEF Cleared
  <2> QED
    BY <2>1, <2>2 DEF Secret
<1>6. Accounted(j)
  BY <1>1, <1>2, <1>3, <1>4, <1>5, Released
<1> QED
  BY <1>6 DEF j

(* The places with one number.                                              *)
LEMMA PlacesAt ==
  ASSUME NEW R \in SUBSET Req, NEW t, t = Table \/ t = Reserved \/ t \in 1..Depth - 1
  PROVE  R \X {t} \in SUBSET Places(Req)
BY ModeAssumption DEF Places, Table, Reserved

LEMMA PendingDiscardedAccounted ==
  ASSUME NEW k \in KV, Accounted(k), NEW R \in SUBSET Req
  PROVE  Accounted(PendingDiscarded(k, R))
<1> DEFINE j == PendingDiscarded(k, R)
           P == R \X {Reserved}
<1>1. j.table = k.table /\ j.pending = Cleared(k.pending, R, None)
      /\ j.active = k.active /\ j.deferred = k.deferred
      /\ j.ref = FreeAt(k, P) /\ j.hash = k.hash
  BY DEF PendingDiscarded, KV
<1>2. P \in SUBSET Places(Req)
  BY PlacesAt
<1>3. \A p \in Places(Req) : p \in P <=> p[1] \in R /\ p[2] = Reserved
  BY PlaceFields
<1> HIDE DEF j, P
<1>4. ASSUME NEW p \in Places(Req) \ P
      PROVE  BlocksAt(j, p) = BlocksAt(k, p)
  <2>1. p[1] \in Req
    BY PlaceFields
  <2>2. CASE p[1] \notin R
    <3>1. j.pending[p[1]] = k.pending[p[1]]
      BY <1>1, <2>1, <2>2 DEF Cleared
    <3> QED
      BY <1>1, <3>1, SameAt
  <2>3. CASE p[2] # Reserved
    BY <1>1, <2>3 DEF BlocksAt, Table, Reserved
  <2> QED
    BY <1>3, <2>2, <2>3
<1>5. ASSUME NEW p \in P
      PROVE  BlocksAt(j, p) = {}
  <2>1. p[1] \in R /\ p[1] \in Req /\ p[2] = Reserved
    BY <1>2, <1>3
  <2>2. j.pending[p[1]] = None
    BY <1>1, <2>1 DEF Cleared
  <2> QED
    BY <2>1, <2>2 DEF BlocksAt, Table, Reserved
<1>6. Secret(j) \subseteq Secret(k)
  BY <1>1 DEF Secret
<1>7. Accounted(j)
  BY <1>1, <1>2, <1>4, <1>5, <1>6, Released
<1> QED
  BY <1>7 DEF j

(* A record with the same blocks, counts and hashes and no more private     *)
(* places.                                                                  *)
LEMMA SameAccounted ==
  ASSUME NEW k \in KV, Accounted(k), NEW j,
         \A p \in Places(Req) : BlocksAt(j, p) = BlocksAt(k, p),
         Secret(j) \subseteq Secret(k), j.ref = k.ref, j.hash = k.hash
  PROVE  Accounted(j)
<1>1. FreeAt(k, {}) = k.ref
  BY NothingFreed
<1> QED
  BY <1>1, Released

LEMMA DiscardedAccounted ==
  ASSUME NEW k \in KV, Accounted(k), NEW R \in SUBSET Req
  PROVE  Accounted(Discarded(k, R))
<1> DEFINE d == PendingDiscarded(k, R)
           j == Discarded(k, R)
<1>1. d \in KV /\ Accounted(d)
  BY PendingDiscardedType, PendingDiscardedAccounted
<1>2. j = [d EXCEPT !.active = Cleared(d.active, R, None)]
  BY DEF Discarded
<1> HIDE DEF d, j
<1>3. j.table = d.table /\ j.pending = d.pending /\ j.deferred = d.deferred
      /\ j.ref = d.ref /\ j.hash = d.hash /\ j.active = Cleared(d.active, R, None)
  BY <1>1, <1>2 DEF KV
<1>4. \A p \in Places(Req) : BlocksAt(j, p) = BlocksAt(d, p)
  BY <1>3, SameAt
<1>5. Secret(j) \subseteq Secret(d)
  <2> SUFFICES ASSUME NEW p \in Secret(j)
               PROVE  p \in Secret(d)
    OBVIOUS
  <2>1. p \in Places(Req) /\ p[1] \in Req
    BY PlaceFields DEF Secret
  <2>2. j.active[p[1]] # None => d.active[p[1]] # None
    BY <1>3, <2>1 DEF Cleared
  <2> QED
    BY <2>1, <2>2 DEF Secret
<1>6. Accounted(j)
  BY <1>1, <1>3, <1>4, <1>5, SameAccounted
<1> QED
  BY <1>6 DEF j

LEMMA AcknowledgedAccounted ==
  ASSUME NEW k \in KV, Accounted(k), NEW plans
  PROVE  Accounted(Acknowledged(k, plans))
<1> DEFINE j == Acknowledged(k, plans)
<1>1. j.table = k.table /\ j.deferred = k.deferred /\ j.active = k.active
      /\ j.ref = k.ref /\ j.hash = k.hash
      /\ j.pending = [r \in Req |-> IF k.pending[r] # None /\ plans[r] = k.pending[r].plan
                                    THEN [k.pending[r] EXCEPT !.ready = TRUE]
                                    ELSE k.pending[r]]
  BY DEF Acknowledged, KV
<1>2. j \in KV
  BY AcknowledgedType
<1> HIDE DEF j
<1>3. ASSUME NEW r \in Req
      PROVE  /\ j.pending[r] = None <=> k.pending[r] = None
             /\ k.pending[r] # None => j.pending[r].plan.dest = k.pending[r].plan.dest
  <2>1. CASE k.pending[r] # None /\ plans[r] = k.pending[r].plan
    <3>1. k.pending[r] \in Pending
      BY <2>1, KVFields
    <3>2. j.pending[r] = [k.pending[r] EXCEPT !.ready = TRUE]
      BY <1>1, <2>1
    <3>3. j.pending[r] \in Pending /\ j.pending[r].plan = k.pending[r].plan
      BY <3>1, <3>2 DEF Pending
    <3>4. j.pending[r] # None
      BY <3>3, NoneAssumption
    <3> QED
      BY <2>1, <3>3, <3>4
  <2>2. CASE ~(k.pending[r] # None /\ plans[r] = k.pending[r].plan)
    BY <1>1, <2>2
  <2> QED
    BY <2>1, <2>2
<1>4. ASSUME NEW p \in Places(Req)
      PROVE  BlocksAt(j, p) = BlocksAt(k, p)
  <2>1. p[1] \in Req
    BY PlaceFields
  <2>2. /\ j.pending[p[1]] = None <=> k.pending[p[1]] = None
        /\ k.pending[p[1]] # None => j.pending[p[1]].plan.dest = k.pending[p[1]].plan.dest
    BY <1>3, <2>1
  <2>3. j.table[p[1]] = k.table[p[1]] /\ j.deferred[p[1]] = k.deferred[p[1]]
    BY <1>1
  <2> QED
    BY <2>2, <2>3, SameAt
<1>5. Secret(j) \subseteq Secret(k)
  BY <1>1 DEF Secret
<1>6. Accounted(j)
  BY <1>1, <1>4, <1>5, SameAccounted
<1> QED
  BY <1>6 DEF j

(* Draining gives back what is due and moves the rest one output nearer.    *)
LEMMA DrainedAccounted ==
  ASSUME NEW k \in KV, Accounted(k)
  PROVE  Accounted(Drained(k))
<1> DEFINE j == Drained(k)
           P == Req \X {1}
           f == [p \in Places(Req) \ P |-> IF p[2] \in 2..Depth - 1
                                           THEN <<p[1], p[2] - 1>> ELSE p]
<1>1. j.table = k.table /\ j.pending = k.pending /\ j.active = k.active /\ j.hash = k.hash
      /\ j.ref = (IF Depth = 1 THEN k.ref ELSE FreeAt(k, P))
      /\ j.deferred = [r \in Req |-> [left \in 1..Depth - 1 |->
                         IF left = Depth - 1 THEN {} ELSE k.deferred[r][left + 1]]]
  BY DEF Drained, KV
<1> SUFFICES Accounted(j)
  OBVIOUS
<1> HIDE DEF j
<1>2. Secret(j) = Secret(k)
  BY <1>1 DEF Secret
<1>3. CASE Depth = 1
  <2>1. \A p \in Places(Req) : p[2] = Table \/ p[2] = Reserved
    BY <1>3, PlaceFields
  <2>2. \A p \in Places(Req) : BlocksAt(j, p) = BlocksAt(k, p)
    BY <1>1, <2>1 DEF BlocksAt, Table, Reserved
  <2>3. j.ref = k.ref /\ j.hash = k.hash /\ Secret(j) \subseteq Secret(k)
    BY <1>1, <1>2, <1>3
  <2> HIDE DEF P, f
  <2> QED
    BY <2>2, <2>3, SameAccounted
<1>4. CASE Depth # 1
  <2>0. Depth \in Nat /\ Depth > 1
    BY <1>4, ModeAssumption
  <2>1. P \in SUBSET Places(Req)
    BY <2>0, PlacesAt
  <2>2. ASSUME NEW p \in Places(Req) \ P
        PROVE  /\ p[1] \in Req /\ p = <<p[1], p[2]>>
               /\ p[2] = Table \/ p[2] = Reserved \/ p[2] \in 2..Depth - 1
    BY <2>0, PlaceFields
  <2>3. ASSUME NEW p \in Places(Req) \ P
        PROVE  /\ p[2] \in 2..Depth - 1 => f[p] = <<p[1], p[2] - 1>>
               /\ p[2] = Table \/ p[2] = Reserved => f[p] = p
    BY DEF Table, Reserved
  <2>4. f \in [Places(Req) \ P -> Places(Req)]
    <3> SUFFICES ASSUME NEW p \in Places(Req) \ P, p[2] \in 2..Depth - 1
                 PROVE  <<p[1], p[2] - 1>> \in Places(Req)
      OBVIOUS
    <3> QED
      BY <2>0, <2>2 DEF Places
  <2>10. \A p \in Places(Req) : p \in P <=> p[2] = 1
    BY PlaceFields
  <2> HIDE DEF f, P
  <2>5. \A p, q \in Places(Req) \ P : f[p] = f[q] => p = q
    <3> SUFFICES ASSUME NEW p \in Places(Req) \ P, NEW q \in Places(Req) \ P, f[p] = f[q]
                 PROVE  p = q
      OBVIOUS
    <3> QED
      BY <2>0, <2>2, <2>3 DEF Table, Reserved
  <2>6. ASSUME NEW p \in Places(Req) \ P
        PROVE  BlocksAt(j, f[p]) = BlocksAt(k, p)
    <3>1. CASE p[2] = Table \/ p[2] = Reserved
      BY <1>1, <2>3, <3>1 DEF BlocksAt, Table, Reserved
    <3>2. CASE p[2] \in 2..Depth - 1
      <4>1. f[p] = <<p[1], p[2] - 1>> /\ p[1] \in Req
        BY <2>2, <2>3, <3>2
      <4>2. p[2] - 1 \in 1..Depth - 1 /\ p[2] - 1 # Depth - 1 /\ p[2] - 1 + 1 = p[2]
        BY <2>0, <3>2
      <4>3. j.deferred[p[1]][p[2] - 1] = k.deferred[p[1]][p[2]]
        BY <1>1, <4>1, <4>2
      <4> QED
        BY <3>2, <4>1, <4>2, <4>3 DEF BlocksAt, Table, Reserved
    <3> QED
      BY <2>2, <3>1, <3>2
  <2>7. ASSUME NEW q \in Places(Req), BlocksAt(j, q) # {}
        PROVE  \E p \in Places(Req) \ P : q = f[p]
    <3>1. q[1] \in Req /\ q = <<q[1], q[2]>>
          /\ (q[2] = Table \/ q[2] = Reserved \/ q[2] \in 1..Depth - 1)
      BY PlaceFields
    <3>2. CASE q[2] = Table \/ q[2] = Reserved
      <4>1. q \in Places(Req) \ P
        BY <2>10, <3>2 DEF Table, Reserved
      <4> QED
        BY <2>3, <3>2, <4>1
    <3>3. CASE q[2] \in 1..Depth - 1
      <4>1. BlocksAt(j, q) = j.deferred[q[1]][q[2]]
        BY <3>3 DEF BlocksAt, Table, Reserved
      <4>2. q[2] # Depth - 1
        BY <1>1, <2>7, <3>1, <3>3, <4>1
      <4>3. PICK left \in 2..Depth - 1 : q[2] = left - 1
        <5>1. PICK m \in 1..Depth - 1 : q[2] = m
          BY <3>3
        <5>2. m + 1 \in 2..Depth - 1 /\ m = m + 1 - 1
          BY <2>0, <4>2, <5>1
        <5> QED
          BY <5>1, <5>2
      <4>4. <<q[1], left>> \in Places(Req) \ P
        BY <2>0, <2>10, <3>1 DEF Places
      <4>5. f[<<q[1], left>>] = <<q[1], left - 1>>
        BY <2>3, <4>4
      <4> QED
        BY <3>1, <4>3, <4>4, <4>5
    <3> QED
      BY <3>1, <3>2, <3>3
  <2>8. ASSUME NEW p \in Places(Req) \ P, f[p] \in Secret(j)
        PROVE  p \in Secret(k)
    <3>1. CASE p[2] = Table \/ p[2] = Reserved
      BY <1>2, <2>3, <2>8, <3>1
    <3>2. CASE p[2] \in 2..Depth - 1
      BY <2>0, <2>3, <2>8, <3>2 DEF Secret, Table, Reserved
    <3> QED
      BY <2>2, <3>1, <3>2
  <2>9. Moves(k, j, P, f)
    <3>1. j.ref = FreeAt(k, P) /\ j.hash = k.hash
      BY <1>1, <1>4
    <3> QED
      BY <2>4, <2>5, <2>6, <2>7, <2>8, <3>1 DEF Moves
  <2> QED
    BY <2>1, <2>9, MovedCounted, MovedExclusive DEF Accounted
<1> QED
  BY <1>3, <1>4

(* Committing releases or defers the tables of R and moves the reservations *)
(* there.                                                                   *)
Swaps(k, j, R, defer) ==
  /\ \A r \in R : /\ BlocksAt(j, <<r, Table>>) = BlocksAt(k, <<r, Reserved>>)
                  /\ BlocksAt(j, <<r, Reserved>>) = {}
                  /\ defer # Table => BlocksAt(j, <<r, defer>>) = BlocksAt(k, <<r, Table>>)
  /\ \A p \in Places(Req) : p[1] \notin R \/ p[2] \notin {Table, Reserved, defer} =>
       BlocksAt(j, p) = BlocksAt(k, p)
  /\ \A r \in Req \ R : j.active[r] = k.active[r]
  /\ j.ref = FreeAt(k, R \X {defer}) /\ j.hash = k.hash

LEMMA SwappedAccounted ==
  ASSUME NEW k, Accounted(k), NEW j, NEW R \in SUBSET Req, NEW defer,
         defer = Table \/ defer \in 1..Depth - 1, Swaps(k, j, R, defer)
  PROVE  Accounted(j)
<1> USE DEF Swaps
<1> DEFINE P == R \X {defer}
           f == [p \in Places(Req) \ P |->
                   IF p[1] \in R /\ p[2] = Table THEN <<p[1], defer>>
                   ELSE IF p[1] \in R /\ p[2] = Reserved THEN <<p[1], Table>> ELSE p]
<1>1. Table # Reserved /\ defer # Reserved
  BY ModeAssumption DEF Table, Reserved
<1>2. P \in SUBSET Places(Req)
  BY PlacesAt
<1>3. \A p \in Places(Req) : /\ p[1] \in Req /\ p = <<p[1], p[2]>>
                             /\ p \in P <=> p[1] \in R /\ p[2] = defer
  BY PlaceFields
<1>4. \A r \in Req : {<<r, Table>>, <<r, Reserved>>, <<r, defer>>} \subseteq Places(Req)
  BY PlaceTypes
<1>5. f \in [Places(Req) \ P -> Places(Req)]
  BY <1>4, PlaceFields
<1>6. \A p \in Places(Req) \ P :
        /\ p[1] \in R /\ p[2] = Table => f[p] = <<p[1], defer>> /\ defer # Table
        /\ p[1] \in R /\ p[2] = Reserved => f[p] = <<p[1], Table>>
        /\ ~(p[1] \in R /\ p[2] \in {Table, Reserved}) => f[p] = p
  BY <1>1, <1>3
<1> HIDE DEF f, P
<1>7. \A p, q \in Places(Req) \ P : f[p] = f[q] => p = q
  <2> SUFFICES ASSUME NEW p \in Places(Req) \ P, NEW q \in Places(Req) \ P, f[p] = f[q]
               PROVE  p = q
    OBVIOUS
  <2>1. p = <<p[1], p[2]>> /\ q = <<q[1], q[2]>>
    BY <1>3
  <2>2. p[1] \in R => p[2] # defer
    BY <1>3
  <2>3. q[1] \in R => q[2] # defer
    BY <1>3
  <2> QED
    BY <1>1, <1>6, <2>1, <2>2, <2>3
<1>8. \A p \in Places(Req) \ P : BlocksAt(j, f[p]) = BlocksAt(k, p)
  <2> SUFFICES ASSUME NEW p \in Places(Req) \ P
               PROVE  BlocksAt(j, f[p]) = BlocksAt(k, p)
    OBVIOUS
  <2>1. p = <<p[1], p[2]>> /\ (p[1] \in R => p[2] # defer)
    BY <1>3
  <2>2. CASE p[1] \in R /\ p[2] = Table
    BY <1>6, <2>1, <2>2
  <2>3. CASE p[1] \in R /\ p[2] = Reserved
    BY <1>6, <2>1, <2>3
  <2>4. CASE ~(p[1] \in R /\ p[2] \in {Table, Reserved})
    BY <1>6, <2>1, <2>4
  <2> QED
    BY <2>2, <2>3, <2>4
<1>9. \A q \in Places(Req) : BlocksAt(j, q) # {} => \E p \in Places(Req) \ P : q = f[p]
  <2> SUFFICES ASSUME NEW q \in Places(Req), BlocksAt(j, q) # {}
               PROVE  \E p \in Places(Req) \ P : q = f[p]
    OBVIOUS
  <2>1. q = <<q[1], q[2]>> /\ q[1] \in Req
    BY <1>3
  <2>2. CASE q[1] \in R /\ q[2] = Table
    <3>1. <<q[1], Reserved>> \in Places(Req) \ P
      BY <1>1, <1>3, <1>4, <2>1
    <3> QED
      BY <1>6, <2>1, <2>2, <3>1
  <2>3. CASE q[1] \in R /\ q[2] = Reserved
    BY <2>1, <2>3
  <2>4. CASE q[1] \in R /\ q[2] = defer /\ defer # Table
    <3>1. <<q[1], Table>> \in Places(Req) \ P
      BY <1>3, <1>4, <2>1, <2>4
    <3> QED
      BY <1>6, <2>1, <2>4, <3>1
  <2>5. CASE q[1] \notin R \/ q[2] \notin {Table, Reserved, defer}
    <3>1. q \in Places(Req) \ P
      BY <1>3, <2>5
    <3> QED
      BY <1>6, <2>5, <3>1
  <2> QED
    BY <2>2, <2>3, <2>4, <2>5
<1>10. \A p \in Places(Req) \ P : f[p] \in Secret(j) => p \in Secret(k)
  <2> SUFFICES ASSUME NEW p \in Places(Req) \ P, f[p] \in Secret(j)
               PROVE  p \in Secret(k)
    OBVIOUS
  <2>1. CASE p[1] \in R /\ p[2] = Table
    <3>1. f[p] = <<p[1], defer>> /\ defer # Table
      BY <1>6, <2>1
    <3> QED
      BY <1>1, <3>1 DEF Secret
  <2>2. CASE p[2] = Reserved
    BY <2>2 DEF Secret
  <2>3. CASE p[1] \notin R
    <3>1. f[p] = p /\ p[1] \in Req \ R
      BY <1>3, <1>6, <2>3
    <3> QED
      BY <3>1 DEF Secret
  <2>4. CASE p[2] \notin {Table, Reserved}
    <3>1. f[p] = p
      BY <1>6, <2>4
    <3> QED
      BY <2>4, <3>1 DEF Secret
  <2> QED
    BY <2>1, <2>2, <2>3, <2>4
<1>11. Moves(k, j, P, f)
  BY <1>5, <1>7, <1>8, <1>9, <1>10 DEF Moves, P
<1> QED
  BY <1>2, <1>11, MovedCounted, MovedExclusive DEF Accounted

LEMMA CommittedAccounted ==
  ASSUME NEW k \in KV, Accounted(k), NEW defer,
         defer = 0 \/ (defer \in 1..Depth - 1 /\ \A r \in Req : k.deferred[r][defer] = {})
  PROVE  Accounted(Committed(k, defer))
<1> DEFINE R == Committable(k)
           D == Ready(k) \ R
           d == PendingDiscarded(k, D)
           j == Committed(k, defer)
<1>1. R \in SUBSET Req /\ D \in SUBSET Req /\ R \cap D = {}
      /\ \A r \in R : k.pending[r] # None
  BY DEF Committable, Ready
<1>2. d \in KV /\ Accounted(d)
  BY <1>1, PendingDiscardedType, PendingDiscardedAccounted
<1>3. d.table = k.table /\ d.deferred = k.deferred /\ d.active = k.active
      /\ d.pending = Cleared(k.pending, D, None)
  BY DEF PendingDiscarded, KV
<1>4. j = [d EXCEPT
       !.ref = IF defer = 0 THEN FreeAt(d, R \X {Table}) ELSE @,
       !.deferred = [r \in Req |-> [left \in 1..Depth - 1 |->
                      IF r \in R /\ left = defer
                      THEN @[r][left] \cup Range(k.table[r]) ELSE @[r][left]]],
       !.table = [r \in Req |-> IF r \in R THEN k.pending[r].plan.dest ELSE @[r]],
       !.active = [r \in Req |-> IF r \in R
                     THEN [semantic |-> k.pending[r].plan.semantic, physical |-> Budget]
                     ELSE @[r]],
       !.pending = Cleared(@, R, None),
       !.eligible = Thawed(d, R)]
  BY DEF Committed
<1>13. j \in KV
  BY CommittedType
<1> SUFFICES Accounted(j)
  OBVIOUS
<1> HIDE DEF j, d, R, D
<1>5. /\ j.ref = (IF defer = 0 THEN FreeAt(d, R \X {Table}) ELSE d.ref)
      /\ j.hash = d.hash
      /\ j.deferred = [r \in Req |-> [left \in 1..Depth - 1 |->
                        IF r \in R /\ left = defer
                        THEN d.deferred[r][left] \cup Range(k.table[r])
                        ELSE d.deferred[r][left]]]
      /\ j.table = [r \in Req |-> IF r \in R THEN k.pending[r].plan.dest ELSE d.table[r]]
      /\ j.active = [r \in Req |-> IF r \in R
                      THEN [semantic |-> k.pending[r].plan.semantic, physical |-> Budget]
                      ELSE d.active[r]]
      /\ j.pending = Cleared(d.pending, R, None)
  BY <1>2, <1>4 DEF KV
<1>6. ASSUME NEW r \in R
      PROVE  /\ BlocksAt(j, <<r, Table>>) = BlocksAt(d, <<r, Reserved>>)
             /\ BlocksAt(j, <<r, Reserved>>) = {}
             /\ d.pending[r] = k.pending[r]
  <2>1. r \in Req /\ r \notin D /\ k.pending[r] # None
    BY <1>1
  <2>2. d.pending[r] = k.pending[r] /\ j.pending[r] = None /\ j.table[r] = k.pending[r].plan.dest
    BY <1>3, <1>5, <2>1 DEF Cleared
  <2>3. /\ BlocksAt(j, <<r, Table>>) = Range(j.table[r])
        /\ BlocksAt(j, <<r, Reserved>>) =
             IF j.pending[r] = None THEN {} ELSE Range(j.pending[r].plan.dest)
    BY ONLY WhatIsAt, Zenon
  <2>4. BlocksAt(d, <<r, Reserved>>) =
          IF d.pending[r] = None THEN {} ELSE Range(d.pending[r].plan.dest)
    BY ONLY WhatIsAt, Zenon
  <2> QED
    BY ONLY <2>1, <2>2, <2>3, <2>4
<1>7. ASSUME NEW r \in R, defer # Table
      PROVE  /\ BlocksAt(j, <<r, defer>>) = BlocksAt(d, <<r, Table>>)
             /\ BlocksAt(d, <<r, defer>>) = {}
  <2>1. defer \in 1..Depth - 1 /\ r \in Req
    BY <1>1, <1>7 DEF Table
  <2>2. d.deferred[r][defer] = {}
    BY <1>3, <1>7, <2>1 DEF Table
  <2>3. j.deferred[r][defer] = Range(d.table[r])
    BY <1>3, <1>5, <2>1, <2>2
  <2>4. BlocksAt(j, <<r, defer>>) = j.deferred[r][defer]
        /\ BlocksAt(d, <<r, defer>>) = d.deferred[r][defer]
    BY <2>1, DeferredAt
  <2>5. BlocksAt(d, <<r, Table>>) = Range(d.table[r])
    BY WhatIsAt
  <2> QED
    BY <2>2, <2>3, <2>4, <2>5
<1>8. ASSUME NEW p \in Places(Req), p[1] \notin R \/ p[2] \notin {Table, Reserved, defer}
      PROVE  BlocksAt(j, p) = BlocksAt(d, p)
  <2>1. p[1] \in Req /\ (p[2] = Table \/ p[2] = Reserved \/ p[2] \in 1..Depth - 1)
    BY PlaceFields
  <2>2. CASE p[1] \notin R
    <3>1. j.table[p[1]] = d.table[p[1]] /\ j.pending[p[1]] = d.pending[p[1]]
      BY <1>5, <2>1, <2>2 DEF Cleared
    <3>2. d.deferred[p[1]] \in [1..Depth - 1 -> SUBSET Block]
      BY <1>2, <2>1, KVFields
    <3>3. /\ j.deferred[p[1]] \in [1..Depth - 1 -> SUBSET Block]
          /\ \A left \in 1..Depth - 1 : j.deferred[p[1]][left] = d.deferred[p[1]][left]
      <4>1. j.deferred \in [Req -> [1..Depth - 1 -> SUBSET Block]]
        BY <1>13, KVFields
      <4> QED
        BY <1>5, <2>1, <2>2, <4>1
    <3>4. j.deferred[p[1]] = d.deferred[p[1]]
      <4>1. j.deferred[p[1]] = [left \in 1..Depth - 1 |-> j.deferred[p[1]][left]]
        BY <3>3
      <4>2. d.deferred[p[1]] = [left \in 1..Depth - 1 |-> d.deferred[p[1]][left]]
        BY <3>2
      <4> QED
        BY <3>3, <4>1, <4>2, Zenon
    <3> QED
      BY <3>1, <3>4, SameAt
  <2>3. CASE p[2] \notin {Table, Reserved, defer}
    <3>1. j.deferred[p[1]][p[2]] = d.deferred[p[1]][p[2]]
      BY <1>5, <2>1, <2>3
    <3> QED
      BY <2>3, <3>1 DEF BlocksAt
  <2> QED
    BY <1>8, <2>2, <2>3
<1>9. j.ref = FreeAt(d, R \X {defer})
  <2>1. CASE defer = 0
    BY <1>5, <2>1 DEF Table
  <2>2. CASE defer # 0
    <3>1. R \X {defer} \in SUBSET Places(Req)
      BY <1>1, <2>2, PlacesAt
    <3>2. ASSUME NEW p \in R \X {defer}
          PROVE  BlocksAt(d, p) = {}
      <4>1. PICK r \in R : p = <<r, defer>>
        OBVIOUS
      <4> QED
        BY <1>7, <2>2, <4>1 DEF Table
    <3> QED
      BY <1>2, <1>5, <2>2, <3>1, <3>2, NothingFreed
  <2> QED
    BY <2>1, <2>2
<1>10. \A r \in Req \ R : j.active[r] = d.active[r]
  BY <1>5
<1>11. defer = Table \/ defer \in 1..Depth - 1
  BY DEF Table
<1>12. Swaps(d, j, R, defer)
  BY <1>5, <1>6, <1>7, <1>8, <1>9, <1>10 DEF Swaps
<1> QED
  BY <1>1, <1>2, <1>11, <1>12, SwappedAccounted

LEMMA BeforeScheduleAccounted ==
  ASSUME NEW k \in KV, Accounted(k), NEW R \in SUBSET Req
  PROVE  Accounted(BeforeSchedule(k, R))
<1>1. Discarded(k, R) \in KV /\ Accounted(Discarded(k, R))
  BY DiscardedType, DiscardedAccounted
<1>2. Accounted(Committed(Discarded(k, R), 0))
  BY <1>1, CommittedAccounted
<1> QED
  BY <1>1, <1>2 DEF BeforeSchedule

LEMMA AfterModelOutputAccounted ==
  ASSUME NEW k \in KV, Accounted(k)
  PROVE  Accounted(AfterModelOutput(k))
<1>1. Drained(k) \in KV /\ Accounted(Drained(k))
  BY DrainedType, DrainedAccounted
<1>2. Depth - 1 = 0 \/ Depth - 1 \in 1..Depth - 1
  BY ModeAssumption
<1>3. Depth - 1 # 0 => \A r \in Req : Drained(k).deferred[r][Depth - 1] = {}
  <2>1. Drained(k).deferred = [r \in Req |-> [left \in 1..Depth - 1 |->
                         IF left = Depth - 1 THEN {} ELSE k.deferred[r][left + 1]]]
    BY DEF Drained, KV
  <2> QED
    BY <1>2, <2>1
<1>4. Accounted(Committed(Drained(k), Depth - 1))
  BY <1>1, <1>2, <1>3, CommittedAccounted
<1> QED
  BY <1>4 DEF AfterModelOutput

----------------------------------------------------------------------------
(* Handing blocks out.                                                      *)

(* New blocks are free ones; shared ones are hashed, and go to a request    *)
(* that holds none.                                                         *)
LEMMA AllocatedAccounted ==
  ASSUME NEW k \in KV, Accounted(k), NEW r \in Req,
         NEW hits \in BlockList, NEW new \in BlockList,
         Range(new) \subseteq FreeBlocks(k) \ Range(hits),
         \A b \in Range(hits) : k.hash[b] # Unhashed,
         hits = <<>> \/ (k.table[r] = <<>> /\ k.active[r] = None)
  PROVE  Accounted(Allocated(k, r, hits, new))
<1> DEFINE j == Allocated(k, r, hits, new)
           N == Range(new)
           H == Range(hits)
           t == <<r, Table>>
<1>1. k.table[r] \in Seq(Block) /\ hits \in Seq(Block) /\ new \in Seq(Block)
  BY KVFields DEF BlockList
<1>2. Range(k.table[r] \o hits \o new) = Range(k.table[r]) \cup H \cup N
  <2> DEFINE s == k.table[r] \o hits
  <2>1. s \in Seq(Block)
    BY <1>1, ConcatProperties
  <2>2. Range(s) = Range(k.table[r]) \cup Range(hits)
    BY <1>1, RangeConcatenation
  <2> HIDE DEF s
  <2>3. Range(s \o new) = Range(s) \cup Range(new)
    BY <1>1, <2>1, RangeConcatenation
  <2> QED
    BY <2>2, <2>3 DEF s
<1>3. H \subseteq Block /\ N \subseteq Block /\ N \cap H = {}
  BY <1>1, RangeOfSeq
<1>4. H \cap Range(k.table[r]) = {}
  <2>1. Range(<<>>) = {}
    BY DEF Range
  <2> QED
    BY <2>1
<1>5. j.table = [k.table EXCEPT ![r] = k.table[r] \o hits \o new]
      /\ j.pending = k.pending /\ j.active = k.active /\ j.deferred = k.deferred
      /\ j.ref = [b \in Block |-> IF b \in N THEN 1
                                  ELSE IF b \in H THEN k.ref[b] + 1 ELSE k.ref[b]]
      /\ j.hash = [b \in Block |-> IF b \in N THEN Unhashed ELSE k.hash[b]]
  BY DEF Allocated, KV
<1>6. t \in Places(Req) /\ BlocksAt(k, t) = Range(k.table[r])
      /\ BlocksAt(j, t) = BlocksAt(k, t) \cup H \cup N
  <2>1. j.table[r] = k.table[r] \o hits \o new
    BY <1>5, KVFields
  <2>2. BlocksAt(k, t) = Range(k.table[r]) /\ BlocksAt(j, t) = Range(j.table[r])
    BY WhatIsAt
  <2>3. t \in Places(Req)
    BY PlaceTypes
  <2> HIDE DEF j, N, H, t
  <2> QED
    BY <1>2, <2>1, <2>2, <2>3
<1>7. ASSUME NEW p \in Places(Req), p # t
      PROVE  BlocksAt(j, p) = BlocksAt(k, p)
  <2>1. p[1] \in Req /\ p = <<p[1], p[2]>>
    BY PlaceFields
  <2>2. p[2] = Table => j.table[p[1]] = k.table[p[1]]
    BY <1>5, <1>7, <2>1, KVFields
  <2> QED
    BY <1>5, <2>2 DEF BlocksAt
<1>8. \A b \in N : Holders(k, b) = {}
  BY FreeIsNowhere DEF Accounted
<1>9. \A b \in H : k.hash[b] # Unhashed
  OBVIOUS
<1>10. H # {} => k.active[r] = None
  <2>1. Range(<<>>) = {}
    BY DEF Range
  <2> QED
    BY <2>1
<1> SUFFICES Accounted(j)
  OBVIOUS
<1> HIDE DEF j, N, H, t
<1>11. ASSUME NEW b \in Block
       PROVE  j.ref[b] = Cardinality(Holders(j, b))
  <2>1. k.ref[b] = Cardinality(Holders(k, b)) /\ IsFiniteSet(Holders(k, b))
    BY HoldersFinite DEF Accounted, Counted
  <2>2. CASE b \in N
    <3>1. Holders(j, b) = {t}
      BY <1>6, <1>7, <1>8, <2>2 DEF Holders
    <3>2. j.ref[b] = 1
      BY <1>5, <2>2
    <3> QED
      BY <3>1, <3>2, FS_Singleton
  <2>3. CASE b \in H
    <3>1. Holders(j, b) = Holders(k, b) \cup {t}
      BY <1>6, <1>7, <2>3 DEF Holders
    <3>2. t \notin Holders(k, b)
      BY <1>4, <1>6, <2>3 DEF Holders
    <3>3. j.ref[b] = k.ref[b] + 1
      BY <1>3, <1>5, <2>3
    <3> QED
      BY <2>1, <3>1, <3>2, <3>3, FS_AddElement
  <2>4. CASE b \notin N \cup H
    <3>1. Holders(j, b) = Holders(k, b)
      BY <1>6, <1>7, <2>4 DEF Holders
    <3> QED
      BY <1>5, <2>1, <2>4, <3>1
  <2> QED
    BY <2>2, <2>3, <2>4
<1>12. ASSUME NEW p \in Secret(j), NEW b \in BlocksAt(j, p)
       PROVE  /\ j.hash[b] = Unhashed
              /\ \A q \in Places(Req) : b \in BlocksAt(j, q) => q = p
  <2>1. p \in Places(Req) /\ p \in Secret(k)
    BY <1>5 DEF Secret
  <2>2. CASE b \in N
    <3>1. \A q \in Places(Req) : b \in BlocksAt(j, q) => q = t
      BY <1>7, <1>8, <2>2 DEF Holders
    <3>2. j.hash[b] = Unhashed
      BY <1>3, <1>5, <2>2
    <3> QED
      BY <2>1, <3>1, <3>2
  <2>3. CASE b \notin N /\ b \in BlocksAt(k, p)
    <3>1. k.hash[b] = Unhashed /\ \A q \in Places(Req) : b \in BlocksAt(k, q) => q = p
      BY <2>1, <2>3 DEF Accounted, Exclusive
    <3>2. b \notin H
      BY <1>9, <3>1
    <3>3. b \in Block
      BY <2>1, <2>3, BlocksAtType
    <3>4. j.hash[b] = Unhashed
      BY <1>5, <2>3, <3>1, <3>3
    <3> QED
      BY <1>6, <1>7, <2>3, <3>1, <3>2, <3>4
  <2>4. CASE b \notin N /\ b \notin BlocksAt(k, p)
    <3>1. p = t /\ b \in H
      BY <1>6, <1>7, <1>12, <2>1, <2>4
    <3>2. k.active[r] = None
      BY <1>10, <3>1
    <3> QED
      BY <2>1, <3>1, <3>2 DEF Secret, t, Table, Reserved
  <2> QED
    BY <2>2, <2>3, <2>4
<1> QED
  BY <1>11, <1>12 DEF Accounted, Counted, Exclusive

(* Only blocks of a table that holds no compressed KV are cached.           *)
LEMMA CacheBlocksAccounted ==
  ASSUME NEW k \in KV, Accounted(k), NEW r \in Req, NEW n
  PROVE  Accounted(CacheBlocks(k, r, n))
<1> DEFINE j == CacheBlocks(k, r, n)
<1>1. j.table = k.table /\ j.pending = k.pending /\ j.active = k.active
      /\ j.deferred = k.deferred /\ j.ref = k.ref
  BY DEF CacheBlocks, KV
<1>2. ASSUME NEW b \in Block, j.hash[b] # k.hash[b]
      PROVE  k.active[r] = None /\ b \in Range(k.table[r])
  <2>1. APC /\ k.active[r] = None /\ \E i \in Filled(k, r, n) : k.table[r][i] = b
    BY <1>2 DEF CacheBlocks, KV
  <2> QED
    BY <2>1 DEF Filled, Range
<1> SUFFICES Accounted(j)
  OBVIOUS
<1> HIDE DEF j
<1>3. ASSUME NEW p \in Places(Req)
      PROVE  BlocksAt(j, p) = BlocksAt(k, p)
  BY <1>1, SameAt
<1>4. Counted(j)
  BY <1>1, <1>3 DEF Accounted, Counted, Holders
<1>5. ASSUME NEW p \in Secret(j), NEW b \in BlocksAt(j, p)
      PROVE  /\ j.hash[b] = Unhashed
             /\ \A q \in Places(Req) : b \in BlocksAt(j, q) => q = p
  <2>1. p \in Places(Req) /\ p \in Secret(k) /\ b \in BlocksAt(k, p)
    BY <1>1, <1>3, <1>5 DEF Secret
  <2>2. k.hash[b] = Unhashed /\ \A q \in Places(Req) : b \in BlocksAt(k, q) => q = p
    BY <2>1 DEF Accounted, Exclusive
  <2>3. b \in Block
    BY <2>1, BlocksAtType
  <2>4. j.hash[b] = k.hash[b]
    <3> SUFFICES ASSUME j.hash[b] # k.hash[b]
                 PROVE  FALSE
      OBVIOUS
    <3>1. k.active[r] = None /\ b \in BlocksAt(k, <<r, Table>>)
      BY <1>2, <2>3, WhatIsAt
    <3>2. p = <<r, Table>>
      BY <2>2, <3>1, PlaceTypes
    <3> QED
      BY <2>1, <3>1, <3>2 DEF Secret, Table, Reserved
  <2> QED
    BY <1>3, <2>2, <2>4
<1> QED
  BY <1>4, <1>5 DEF Accounted, Exclusive

(* Reservations are made of free blocks, each for one request without one.  *)
LEMMA ArmedAccounted ==
  ASSUME NEW k \in KV, Accounted(k), NEW A \in SUBSET Req, NEW dest,
         \A r \in A : /\ dest[r] \in BlockList /\ computed[r] \in Int
                      /\ k.pending[r] = None
                      /\ Range(dest[r]) \subseteq FreeBlocks(k),
         \A r, s \in A : r # s => Range(dest[r]) \cap Range(dest[s]) = {}
  PROVE  Accounted(Armed(k, A, dest))
<1> DEFINE j == Armed(k, A, dest)
           N == {b \in Block : \E r \in A : b \in Range(dest[r])}
<1>1. j.table = k.table /\ j.active = k.active /\ j.deferred = k.deferred
      /\ j.ref = [b \in Block |-> IF b \in N THEN 1 ELSE k.ref[b]]
      /\ j.hash = [b \in Block |-> IF b \in N THEN Unhashed ELSE k.hash[b]]
  BY DEF Armed, KV
<1>2. \A r \in A : j.pending[r] # None /\ j.pending[r].plan.dest = dest[r]
  <2>1. \A r \in A : j.pending[r] # None
    BY ArmedType
  <2>2. ASSUME NEW r \in A
        PROVE  j.pending[r].plan = PlanFor(k, r, dest[r])
    BY DEF Armed, KV
  <2>3. \A r \in A : PlanFor(k, r, dest[r]).dest = dest[r]
    BY DEF PlanFor
  <2> QED
    BY <2>1, <2>2, <2>3
<1>3. \A r \in Req \ A : j.pending[r] = k.pending[r]
  BY DEF Armed, KV
<1>4. \A b \in N : Holders(k, b) = {}
  BY FreeIsNowhere DEF Accounted
<1>5. \A r \in A : Range(dest[r]) \subseteq N
  BY DEF FreeBlocks
<1>6. \A b \in N : \E r \in A : b \in Range(dest[r])
  OBVIOUS
<1> SUFFICES Accounted(j)
  OBVIOUS
<1> HIDE DEF j, N
<1>7. ASSUME NEW r \in A
      PROVE  /\ BlocksAt(j, <<r, Reserved>>) = Range(dest[r])
             /\ BlocksAt(k, <<r, Reserved>>) = {}
             /\ <<r, Reserved>> \in Places(Req)
  <2>1. r \in Req /\ j.pending[r] # None /\ j.pending[r].plan.dest = dest[r]
        /\ k.pending[r] = None
    BY <1>2
  <2>2. BlocksAt(j, <<r, Reserved>>) =
          IF j.pending[r] = None THEN {} ELSE Range(j.pending[r].plan.dest)
    BY WhatIsAt
  <2>3. BlocksAt(k, <<r, Reserved>>) =
          IF k.pending[r] = None THEN {} ELSE Range(k.pending[r].plan.dest)
    BY WhatIsAt
  <2> QED
    BY <2>1, <2>2, <2>3, PlaceTypes
<1>8. ASSUME NEW p \in Places(Req), p[1] \notin A \/ p[2] # Reserved
      PROVE  BlocksAt(j, p) = BlocksAt(k, p)
  <2>1. p[1] \in Req
    BY PlaceFields
  <2>2. CASE p[1] \notin A
    BY <1>1, <1>3, <2>1, <2>2, SameAt
  <2>3. CASE p[2] # Reserved
    BY <1>1, <2>3 DEF BlocksAt
  <2> QED
    BY <1>8, <2>2, <2>3
<1>9. ASSUME NEW b \in N, NEW r \in A, b \in Range(dest[r])
      PROVE  Holders(j, b) = {<<r, Reserved>>}
  <2>1. <<r, Reserved>> \in Holders(j, b)
    BY <1>7, <1>9 DEF Holders
  <2>2. ASSUME NEW p \in Holders(j, b)
        PROVE  p = <<r, Reserved>>
    <3>1. p \in Places(Req) /\ b \in BlocksAt(j, p) /\ p = <<p[1], p[2]>>
      BY PlaceFields DEF Holders
    <3>2. b \notin BlocksAt(k, p)
      BY <1>4, <3>1 DEF Holders
    <3>3. p[1] \in A /\ p[2] = Reserved
      BY <1>8, <3>1, <3>2
    <3>4. b \in Range(dest[p[1]])
      BY <1>7, <3>1, <3>3
    <3>5. p[1] = r
      BY <1>9, <3>3, <3>4
    <3> QED
      BY <3>1, <3>3, <3>5
  <2> QED
    BY <2>1, <2>2
<1>10. ASSUME NEW b, b \notin N, NEW p \in Places(Req)
       PROVE  b \in BlocksAt(j, p) <=> b \in BlocksAt(k, p)
  <2>1. CASE p[1] \in A /\ p[2] = Reserved
    <3>1. p = <<p[1], Reserved>>
      BY <2>1, PlaceFields
    <3> QED
      BY <1>5, <1>7, <1>10, <2>1, <3>1
  <2>2. CASE ~(p[1] \in A /\ p[2] = Reserved)
    BY <1>8, <2>2
  <2> QED
    BY <2>1, <2>2
<1>11. ASSUME NEW b \in Block
       PROVE  j.ref[b] = Cardinality(Holders(j, b))
  <2>1. CASE b \in N
    <3>1. PICK r \in A : b \in Range(dest[r])
      BY <1>6, <2>1
    <3>2. Holders(j, b) = {<<r, Reserved>>}
      BY <1>9, <2>1, <3>1
    <3>3. j.ref[b] = 1
      BY <1>1, <2>1
    <3> QED
      BY <3>2, <3>3, FS_Singleton
  <2>2. CASE b \notin N
    <3>1. Holders(j, b) = Holders(k, b)
      BY <1>10, <2>2 DEF Holders
    <3>2. j.ref[b] = k.ref[b]
      BY <1>1, <2>2
    <3> QED
      BY <3>1, <3>2 DEF Accounted, Counted
  <2> QED
    BY <2>1, <2>2
<1>12. ASSUME NEW p \in Secret(j), NEW b \in BlocksAt(j, p)
       PROVE  /\ j.hash[b] = Unhashed
              /\ \A q \in Places(Req) : b \in BlocksAt(j, q) => q = p
  <2>1. p \in Places(Req) /\ p \in Secret(k)
    BY <1>1 DEF Secret
  <2>2. CASE b \in N
    <3>1. PICK r \in A : b \in Range(dest[r])
      BY <1>6, <2>2
    <3>2. Holders(j, b) = {<<r, Reserved>>}
      BY <1>9, <2>2, <3>1
    <3>3. \A q \in Places(Req) : b \in BlocksAt(j, q) => q = <<r, Reserved>>
      BY <3>2 DEF Holders
    <3>4. b \in Block
      BY <2>2 DEF N
    <3>5. j.hash[b] = Unhashed
      BY <1>1, <2>2, <3>4
    <3> QED
      BY <1>12, <2>1, <3>3, <3>5
  <2>3. CASE b \notin N
    <3>1. b \in BlocksAt(k, p)
      BY <1>10, <1>12, <2>1, <2>3
    <3>2. k.hash[b] = Unhashed /\ \A q \in Places(Req) : b \in BlocksAt(k, q) => q = p
      BY <2>1, <3>1 DEF Accounted, Exclusive
    <3>3. b \in Block
      BY <2>1, <3>1, BlocksAtType
    <3>4. j.hash[b] = Unhashed
      BY <1>1, <2>3, <3>2, <3>3
    <3> QED
      BY <1>10, <2>3, <3>2, <3>4
  <2> QED
    BY <2>2, <2>3
<1> QED
  BY <1>11, <1>12 DEF Accounted, Counted, Exclusive

(* Dropping every hash.                                                     *)
LEMMA UnhashedAccounted ==
  ASSUME NEW k \in KV, Accounted(k)
  PROVE  Accounted([k EXCEPT !.hash = [b \in Block |-> Unhashed]])
<1> DEFINE j == [k EXCEPT !.hash = [b \in Block |-> Unhashed]]
<1>1. j.table = k.table /\ j.active = k.active /\ j.deferred = k.deferred
      /\ j.pending = k.pending /\ j.ref = k.ref /\ j.hash = [b \in Block |-> Unhashed]
  BY DEF KV
<1> SUFFICES Accounted(j)
  OBVIOUS
<1> HIDE DEF j
<1>2. \A p \in Places(Req) : BlocksAt(j, p) = BlocksAt(k, p)
  BY <1>1, SameAt
<1>3. Counted(j)
  BY <1>1, <1>2 DEF Accounted, Counted, Holders
<1>4. ASSUME NEW p \in Secret(j), NEW b \in BlocksAt(j, p)
      PROVE  /\ j.hash[b] = Unhashed
             /\ \A q \in Places(Req) : b \in BlocksAt(j, q) => q = p
  <2>1. p \in Places(Req) /\ p \in Secret(k) /\ b \in BlocksAt(k, p)
    BY <1>1, <1>2, <1>4 DEF Secret
  <2>2. b \in Block
    BY <2>1, BlocksAtType
  <2> QED
    BY <1>1, <1>2, <2>1, <2>2 DEF Accounted, Exclusive
<1> QED
  BY <1>3, <1>4 DEF Accounted, Exclusive

----------------------------------------------------------------------------
(* A request that holds nothing goes on holding nothing.                    *)
Idle(k, r) == k.table[r] = <<>> /\ k.active[r] = None /\ k.pending[r] = None
KeepsIdle(k, j) == \A r \in Req : Idle(k, r) => Idle(j, r)

LEMMA FreedIdle ==
  ASSUME NEW k \in KV, NEW R \in SUBSET Req
  PROVE  KeepsIdle(k, Freed(k, R)) /\ \A r \in R : Idle(Freed(k, R), r)
<1> DEFINE j == Freed(k, R)
<1>1. j.table = Cleared(k.table, R, <<>>) /\ j.pending = Cleared(k.pending, R, None)
      /\ j.active = Cleared(k.active, R, None)
  BY DEF Freed, KV
<1> HIDE DEF j
<1>2. KeepsIdle(k, j) /\ \A r \in R : Idle(j, r)
  BY <1>1 DEF KeepsIdle, Idle, Cleared
<1> QED
  BY <1>2 DEF j

LEMMA PendingDiscardedIdle ==
  ASSUME NEW k \in KV, NEW R \in SUBSET Req
  PROVE  KeepsIdle(k, PendingDiscarded(k, R))
<1> DEFINE j == PendingDiscarded(k, R)
<1>1. j.table = k.table /\ j.pending = Cleared(k.pending, R, None) /\ j.active = k.active
  BY DEF PendingDiscarded, KV
<1> HIDE DEF j
<1>2. KeepsIdle(k, j)
  BY <1>1 DEF KeepsIdle, Idle, Cleared
<1> QED
  BY <1>2 DEF j

LEMMA DiscardedIdle ==
  ASSUME NEW k \in KV, NEW R \in SUBSET Req
  PROVE  KeepsIdle(k, Discarded(k, R))
<1> DEFINE d == PendingDiscarded(k, R)
           j == Discarded(k, R)
<1>1. d \in KV /\ KeepsIdle(k, d)
  BY PendingDiscardedType, PendingDiscardedIdle
<1>2. j = [d EXCEPT !.active = Cleared(d.active, R, None)]
  BY DEF Discarded
<1> HIDE DEF d, j
<1>3. j.table = d.table /\ j.pending = d.pending /\ j.active = Cleared(d.active, R, None)
  BY <1>1, <1>2 DEF KV
<1>4. KeepsIdle(k, j)
  BY <1>1, <1>3 DEF KeepsIdle, Idle, Cleared
<1> QED
  BY <1>4 DEF j

LEMMA AcknowledgedIdle ==
  ASSUME NEW k \in KV, NEW plans
  PROVE  KeepsIdle(k, Acknowledged(k, plans))
<1> DEFINE j == Acknowledged(k, plans)
<1>1. j.table = k.table /\ j.active = k.active
      /\ j.pending = [r \in Req |-> IF k.pending[r] # None /\ plans[r] = k.pending[r].plan
                                    THEN [k.pending[r] EXCEPT !.ready = TRUE]
                                    ELSE k.pending[r]]
  BY DEF Acknowledged, KV
<1> HIDE DEF j
<1>2. KeepsIdle(k, j)
  BY <1>1 DEF KeepsIdle, Idle
<1> QED
  BY <1>2 DEF j

LEMMA DrainedIdle ==
  ASSUME NEW k \in KV
  PROVE  KeepsIdle(k, Drained(k))
BY DEF KeepsIdle, Idle, Drained, KV

LEMMA CommittedIdle ==
  ASSUME NEW k \in KV, NEW defer
  PROVE  KeepsIdle(k, Committed(k, defer))
<1> DEFINE R == Committable(k)
           D == Ready(k) \ R
           d == PendingDiscarded(k, D)
           j == Committed(k, defer)
<1>1. D \in SUBSET Req /\ \A r \in R : k.pending[r] # None
  BY DEF Committable, Ready
<1>2. d \in KV /\ KeepsIdle(k, d)
  BY <1>1, PendingDiscardedType, PendingDiscardedIdle
<1>3. j = [d EXCEPT
       !.ref = IF defer = 0 THEN FreeAt(d, R \X {Table}) ELSE @,
       !.deferred = [r \in Req |-> [left \in 1..Depth - 1 |->
                      IF r \in R /\ left = defer
                      THEN @[r][left] \cup Range(k.table[r]) ELSE @[r][left]]],
       !.table = [r \in Req |-> IF r \in R THEN k.pending[r].plan.dest ELSE @[r]],
       !.active = [r \in Req |-> IF r \in R
                     THEN [semantic |-> k.pending[r].plan.semantic, physical |-> Budget]
                     ELSE @[r]],
       !.pending = Cleared(@, R, None),
       !.eligible = Thawed(d, R)]
  BY DEF Committed
<1> HIDE DEF j, d, R, D
<1>4. /\ j.table = [r \in Req |-> IF r \in R THEN k.pending[r].plan.dest ELSE d.table[r]]
      /\ j.active = [r \in Req |-> IF r \in R
                      THEN [semantic |-> k.pending[r].plan.semantic, physical |-> Budget]
                      ELSE d.active[r]]
      /\ j.pending = Cleared(d.pending, R, None)
  BY <1>2, <1>3 DEF KV
<1>5. KeepsIdle(k, j)
  BY <1>1, <1>2, <1>4 DEF KeepsIdle, Idle, Cleared
<1> QED
  BY <1>5 DEF j

LEMMA BeforeScheduleIdle ==
  ASSUME NEW k \in KV, NEW R \in SUBSET Req
  PROVE  KeepsIdle(k, BeforeSchedule(k, R))
<1> DEFINE d == Discarded(k, R)
<1>1. d \in KV /\ KeepsIdle(k, d) /\ KeepsIdle(d, Committed(d, 0))
  BY DiscardedType, DiscardedIdle, CommittedIdle
<1>2. BeforeSchedule(k, R) = IF Async THEN d ELSE Committed(d, 0)
  BY DEF BeforeSchedule
<1> HIDE DEF d
<1> QED
  BY <1>1, <1>2 DEF KeepsIdle

LEMMA AfterModelOutputIdle ==
  ASSUME NEW k \in KV
  PROVE  KeepsIdle(k, AfterModelOutput(k))
<1> DEFINE d == Drained(k)
<1>1. d \in KV /\ KeepsIdle(k, d) /\ KeepsIdle(d, Committed(d, Depth - 1))
  BY DrainedType, DrainedIdle, CommittedIdle
<1>2. AfterModelOutput(k) = IF Async THEN Committed(d, Depth - 1) ELSE k
  BY DEF AfterModelOutput
<1> HIDE DEF d
<1> QED
  BY <1>1, <1>2 DEF KeepsIdle

----------------------------------------------------------------------------
(* The accounting invariant.  Exact counts make new blocks nobody else's;   *)
(* shared blocks are cached, hence not private; and a request that is not   *)
(* running holds nothing, so that it can be given shared blocks at all.     *)

RestIdle == \A r \in Req : status[r] # "running" => Idle(kv, r)
AccountingInv == TransactionInv /\ Accounted(kv) /\ RestIdle

LEMMA InitAccounting == Init => AccountingInv
<1> SUFFICES ASSUME Init
             PROVE  AccountingInv
  OBVIOUS
<1>1. /\ \A r \in Req : kv.table[r] = <<>> /\ kv.pending[r] = None /\ kv.active[r] = None
      /\ \A r \in Req : \A left \in 1..Depth - 1 : kv.deferred[r][left] = {}
      /\ \A b \in Block : kv.ref[b] = 0
  BY DEF Init
<1>2. ASSUME NEW p \in Places(Req)
      PROVE  BlocksAt(kv, p) = {}
  <2>1. p[1] \in Req /\ (p[2] = Table \/ p[2] = Reserved \/ p[2] \in 1..Depth - 1)
    BY PlaceFields
  <2>2. Range(<<>>) = {}
    BY DEF Range
  <2> QED
    BY <1>1, <2>1, <2>2 DEF BlocksAt, Table, Reserved
<1>3. ASSUME NEW b \in Block
      PROVE  kv.ref[b] = Cardinality(Holders(kv, b))
  <2>1. Holders(kv, b) = {}
    BY <1>2 DEF Holders
  <2> QED
    BY <1>1, <2>1, FS_EmptySet
<1>4. Accounted(kv)
  BY <1>2, <1>3 DEF Accounted, Counted, Exclusive, Secret
<1>5. RestIdle
  BY <1>1 DEF RestIdle, Idle
<1> QED
  BY <1>4, <1>5, InitTransaction DEF AccountingInv

LEMMA BeginScheduleAccounting ==
  ASSUME AccountingInv, BeginSchedule
  PROVE  Accounted(kv)' /\ RestIdle'
<1>1. kv \in KV /\ finishedIds \in SUBSET Req /\ Accounted(kv) /\ status' = status
      /\ kv' = BeforeSchedule(kv, finishedIds)
  BY DEF AccountingInv, TransactionInv, TypeOK, BeginSchedule
<1>2. Accounted(kv') /\ KeepsIdle(kv, kv')
  BY <1>1, BeforeScheduleAccounted, BeforeScheduleIdle
<1>3. RestIdle'
  BY <1>1, <1>2 DEF AccountingInv, RestIdle, KeepsIdle
<1> QED
  BY <1>2, <1>3 DEF Accounted, Counted, Exclusive, Secret

(* Cached blocks have a hash.                                               *)
LEMMA HitsAreHashed ==
  ASSUME NEW r \in Req, NEW hits \in Hits(r)
  PROVE  \A b \in Range(hits) : kv.hash[b] # Unhashed
<1>1. PICK h \in HitLengths(r) :
        hits \in [1..h -> Block] /\ \A i \in 1..h : hits[i] \in Cached(r, i)
  BY DEF Hits
<1>2. h \in Nat
  BY <1>1, RequestAssumption DEF HitLengths
<1>3. ASSUME NEW b \in Range(hits)
      PROVE  kv.hash[b] # Unhashed
  <2>1. PICK i \in 1..h : b = hits[i]
    BY <1>1 DEF Range
  <2>2. kv.hash[b] = Key(r, i)
    BY <1>1, <2>1 DEF Cached
  <2>3. Key(r, i) = <<None, i>> \/ Key(r, i) = <<r, i>>
    BY DEF Key
  <2>4. i # 0
    BY <1>2
  <2> QED
    BY <2>2, <2>3, <2>4 DEF Unhashed
<1> QED
  BY <1>3

(* Entering a request in the batch.                                         *)
LEMMA EnteredAccounting ==
  ASSUME AccountingInv, NEW r \in Req, NEW hits \in BlockList, NEW new \in BlockList, NEW n,
         Range(new) \subseteq FreeBlocks(kv) \ Range(hits),
         \A b \in Range(hits) : kv.hash[b] # Unhashed,
         hits = <<>> \/ (kv.table[r] = <<>> /\ kv.active[r] = None),
         kv' = CacheBlocks(Allocated(kv, r, hits, new), r, n),
         status' = [status EXCEPT ![r] = "running"]
  PROVE  Accounted(kv)' /\ RestIdle'
<1> DEFINE a == Allocated(kv, r, hits, new)
<1>1. kv \in KV /\ Accounted(kv) /\ status \in [Req -> {"waiting", "running", "preempted", "finished"}]
  BY DEF AccountingInv, TransactionInv, TypeOK
<1>2. a \in KV /\ Accounted(a)
  BY <1>1, AllocatedType, AllocatedAccounted
<1>3. /\ a.pending = kv.pending /\ a.active = kv.active
      /\ a.table = [kv.table EXCEPT ![r] = @ \o hits \o new]
  BY <1>1 DEF Allocated, KV
<1>4. Accounted(kv')
  BY <1>2, CacheBlocksAccounted
<1> HIDE DEF a
<1>5. kv'.pending = kv.pending /\ kv'.active = kv.active /\ kv'.table = a.table
  BY <1>2, <1>3 DEF CacheBlocks, KV, a
<1>6. ASSUME NEW q \in Req, status'[q] # "running"
      PROVE  Idle(kv', q)
  <2>1. q # r /\ status[q] # "running"
    BY <1>1, <1>6
  <2>2. kv'.table[q] = kv.table[q]
    BY <1>1, <1>3, <1>5, <2>1, KVFields
  <2> QED
    BY <1>5, <2>1, <2>2 DEF AccountingInv, RestIdle, Idle
<1> QED
  BY <1>4, <1>6 DEF Accounted, Counted, Exclusive, Secret, RestIdle

LEMMA ScheduleRunningAccounting ==
  ASSUME AccountingInv, NEW r \in Req, ScheduleRunning(r)
  PROVE  Accounted(kv)' /\ RestIdle'
<1> DEFINE n == computed[r] + Chunk(r)
<1>1. building # None /\ status[r] = "running" /\ status' = status
      /\ status \in [Req -> {"waiting", "running", "preempted", "finished"}]
  BY DEF ScheduleRunning, Schedulable, AccountingInv, TransactionInv, TypeOK
<1>2. n \in Int /\ kv \in KV /\ FreeBlocks(kv) \in SUBSET Block
  BY <1>1 DEF AccountingInv, TransactionInv, TypeOK, Chunk, Known, Least, Output, FreeBlocks
<1>3. PICK new \in NewBlocks(FreeBlocks(kv), Need(kv, r, 0, n)) :
        kv' = CacheBlocks(Allocated(kv, r, <<>>, new), r, Least(n, tokens[r]))
  BY DEF ScheduleRunning
<1> HIDE DEF n
<1>4. new \in BlockList /\ <<>> \in BlockList
  BY <1>2, <1>3, NeedType, NewBlocksType, EmptySeq DEF BlockList
<1>5. Range(new) \subseteq FreeBlocks(kv) \ Range(<<>>) /\ Range(<<>>) = {}
  <2>1. Range(<<>>) = {}
    BY DEF Range
  <2>2. Range(new) \subseteq FreeBlocks(kv)
    BY <1>3 DEF NewBlocks, Range
  <2> QED
    BY <2>1, <2>2
<1>6. status' = [status EXCEPT ![r] = "running"]
  BY <1>1
<1> QED
  BY <1>3, <1>4, <1>5, <1>6, EnteredAccounting

LEMMA AdmitAccounting ==
  ASSUME AccountingInv, NEW r \in Req, Admit(r)
  PROVE  Accounted(kv)' /\ RestIdle'
<1>1. building # None /\ status[r] # "running" /\ status' = [status EXCEPT ![r] = "running"]
  BY DEF Admit, Admissible
<1>2. PICK hits \in Hits(r) :
        LET start == Len(hits) * BlockSize
            n == FirstChunk(r, start) IN
        \E new \in NewBlocks(Unclaimed(hits), Need(kv, r, Len(hits), start + n)) :
          kv' = CacheBlocks(Allocated(kv, r, hits, new), r, start + n)
  BY DEF Admit
<1> DEFINE start == Len(hits) * BlockSize
           n == FirstChunk(r, start)
<1>3. PICK new \in NewBlocks(Unclaimed(hits), Need(kv, r, Len(hits), start + n)) :
        kv' = CacheBlocks(Allocated(kv, r, hits, new), r, start + n)
  BY <1>2
<1>4. hits \in BlockList /\ Len(hits) \in Nat
  BY HitsType
<1>5. start \in Int
  BY <1>4, ConfigAssumption
<1> HIDE DEF start
<1>6. n \in Int /\ start + n \in Int
  BY <1>1, <1>5 DEF AccountingInv, TransactionInv, TypeOK, FirstChunk, Least, Output
<1> HIDE DEF n
<1>7. kv \in KV /\ Unclaimed(hits) \in SUBSET Block
  BY DEF AccountingInv, TransactionInv, TypeOK, Unclaimed, FreeBlocks
<1>8. new \in BlockList
  BY <1>3, <1>4, <1>6, <1>7, NeedType, NewBlocksType
<1>9. Range(new) \subseteq FreeBlocks(kv) \ Range(hits)
  BY <1>3 DEF NewBlocks, Range, Unclaimed
<1>10. \A b \in Range(hits) : kv.hash[b] # Unhashed
  BY HitsAreHashed
<1>11. kv.table[r] = <<>> /\ kv.active[r] = None
  BY <1>1 DEF AccountingInv, RestIdle, Idle
<1> QED
  BY <1>1, <1>3, <1>4, <1>8, <1>9, <1>10, <1>11, EnteredAccounting

(* Freeing the requests R, whose status may change at will.                 *)
LEMMA FreeAccounting ==
  ASSUME AccountingInv, NEW R \in SUBSET Req, kv' = Freed(kv, R),
         \A r \in Req \ R : status'[r] = status[r]
  PROVE  Accounted(kv)' /\ RestIdle'
<1>1. kv \in KV /\ Accounted(kv)
  BY DEF AccountingInv, TransactionInv, TypeOK
<1>2. Accounted(kv') /\ KeepsIdle(kv, kv') /\ \A r \in R : Idle(kv', r)
  BY <1>1, FreedAccounted, FreedIdle
<1>3. RestIdle'
  BY <1>2 DEF AccountingInv, RestIdle, KeepsIdle
<1> QED
  BY <1>2, <1>3 DEF Accounted, Counted, Exclusive, Secret

LEMMA PreemptAccounting ==
  ASSUME AccountingInv, NEW victim \in Req, Preempt(victim)
  PROVE  Accounted(kv)' /\ RestIdle'
<1> DEFINE R == {victim}
<1>1. R \in SUBSET Req /\ kv' = Freed(kv, R) /\ \A r \in Req \ R : status'[r] = status[r]
  BY DEF Preempt, AccountingInv, TransactionInv, TypeOK
<1> HIDE DEF R
<1> QED
  BY <1>1, FreeAccounting

LEMMA AbortAccounting ==
  ASSUME AccountingInv, NEW r \in Req, Abort(r)
  PROVE  Accounted(kv)' /\ RestIdle'
<1> DEFINE R == {r}
<1>1. R \in SUBSET Req /\ kv' = Freed(kv, R) /\ \A q \in Req \ R : status'[q] = status[q]
  BY DEF Abort, AccountingInv, TransactionInv, TypeOK
<1> HIDE DEF R
<1> QED
  BY <1>1, FreeAccounting

LEMMA ResetPrefixCacheAccounting ==
  ASSUME AccountingInv, ResetPrefixCache
  PROVE  Accounted(kv)' /\ RestIdle'
<1> DEFINE R == {r \in Req : status[r] = "running"}
           k == Freed(kv, R)
           u == [k EXCEPT !.hash = [b \in Block |-> Unhashed]]
<1>1. /\ kv' = u \/ kv' = k
      /\ status' = [r \in Req |-> IF r \in R THEN "preempted" ELSE status[r]]
      /\ R \in SUBSET Req /\ kv \in KV /\ Accounted(kv)
  BY DEF ResetPrefixCache, AccountingInv, TransactionInv, TypeOK
<1>2. k \in KV /\ Accounted(k) /\ KeepsIdle(kv, k) /\ \A r \in R : Idle(k, r)
  BY <1>1, FreedType, FreedAccounted, FreedIdle
<1> HIDE DEF R, k
<1>3. Accounted(u)
  BY <1>2, UnhashedAccounted
<1>4. u.table = k.table /\ u.active = k.active /\ u.pending = k.pending
  BY <1>2 DEF KV
<1> HIDE DEF u
<1>5. Accounted(kv') /\ KeepsIdle(kv, kv') /\ \A r \in R : Idle(kv', r)
  BY <1>1, <1>2, <1>3, <1>4 DEF KeepsIdle, Idle
<1>6. RestIdle'
  BY <1>1, <1>5 DEF AccountingInv, RestIdle, KeepsIdle
<1> QED
  BY <1>5, <1>6 DEF Accounted, Counted, Exclusive, Secret

LEMMA UpdateFromOutputAccounting ==
  ASSUME AccountingInv, NEW F \in SUBSET Req, UpdateFromOutput(F)
  PROVE  Accounted(kv)' /\ RestIdle'
<1> DEFINE f == Freed(kv, F)
           k == Acknowledged(f, Head(queue).plans)
<1>1. kv \in KV /\ Accounted(kv)
  BY DEF AccountingInv, TransactionInv, TypeOK
<1>2. /\ kv' = AfterModelOutput(k)
      /\ status' = [r \in Req |-> IF r \in F THEN "finished" ELSE status[r]]
  BY DEF UpdateFromOutput
<1>3. f \in KV /\ Accounted(f) /\ KeepsIdle(kv, f) /\ \A r \in F : Idle(f, r)
  BY <1>1, FreedType, FreedAccounted, FreedIdle
<1> HIDE DEF f
<1>4. k \in KV /\ Accounted(k) /\ KeepsIdle(f, k)
  BY <1>3, AcknowledgedType, AcknowledgedAccounted, AcknowledgedIdle
<1> HIDE DEF k
<1>5. Accounted(kv') /\ KeepsIdle(k, kv')
  BY <1>2, <1>4, AfterModelOutputAccounted, AfterModelOutputIdle
<1>6. KeepsIdle(kv, kv') /\ \A r \in F : Idle(kv', r)
  BY <1>3, <1>4, <1>5 DEF KeepsIdle
<1>7. RestIdle'
  BY <1>2, <1>6 DEF AccountingInv, RestIdle, KeepsIdle
<1> QED
  BY <1>5, <1>7 DEF Accounted, Counted, Exclusive, Secret

LEMMA EndScheduleAccounting ==
  ASSUME AccountingInv, EndSchedule
  PROVE  Accounted(kv)' /\ RestIdle'
<1> DEFINE output == [building EXCEPT !.finished = finishedIds,
                                      !.preempted = @ \cup resetIds]
           reset == output.preempted \cup output.finished
           k1 == Discarded(kv, reset)
<1>1. kv \in KV /\ Accounted(kv) /\ building # None /\ building \in Output
      /\ output \in Output /\ output.sched = building.sched /\ reset \in SUBSET Req
      /\ status' = status
  BY DEF AccountingInv, TransactionInv, TypeOK, EndSchedule, Output
<1>2. PICK A \in SUBSET Req : \E dest \in [A -> [1..Keep -> FreeBlocks(kv)]] :
        AfterSchedule(kv, output, A, dest)
  BY DEF EndSchedule
<1>3. PICK dest \in [A -> [1..Keep -> FreeBlocks(kv)]] : AfterSchedule(kv, output, A, dest)
  BY <1>2
<1> HIDE DEF output
<1>4. k1 \in KV /\ Accounted(k1) /\ KeepsIdle(kv, k1) /\ FreeBlocks(k1) \in SUBSET Block
  BY <1>1, DiscardedType, DiscardedAccounted, DiscardedIdle DEF FreeBlocks
<1>5. /\ kv' = Armed(k1, A, dest)
      /\ \A r \in A : /\ dest[r] \in [1..Keep -> FreeBlocks(k1)]
                      /\ output.sched[r] # None /\ k1.pending[r] = None
      /\ \A r, s \in A : r # s => Range(dest[r]) \cap Range(dest[s]) = {}
  BY <1>3 DEF AfterSchedule, Armable
<1> HIDE DEF reset, k1
<1>6. \A r \in A : dest[r] \in BlockList /\ computed[r] \in Int
  BY <1>4, <1>5, BlocksForType, FunctionsAreLists DEF AccountingInv, TransactionInv, TypeOK
<1>7. ASSUME NEW r \in A
      PROVE  Range(dest[r]) \subseteq FreeBlocks(k1)
  <2>1. dest[r] \in [1..Keep -> FreeBlocks(k1)]
    BY <1>5
  <2> QED
    BY <2>1 DEF Range
<1>8. Accounted(Armed(k1, A, dest))
  BY <1>4, <1>5, <1>6, <1>7, ArmedAccounted
<1>9. \A r \in A : status[r] = "running"
  BY <1>1, <1>5 DEF AccountingInv, TransactionInv, BatchRuns
<1>10. \A r \in Req \ A : Idle(k1, r) => Idle(kv', r)
  <2>1. kv'.table = k1.table /\ kv'.active = k1.active
        /\ \A r \in Req \ A : kv'.pending[r] = k1.pending[r]
    BY <1>4, <1>5 DEF Armed, KV
  <2> QED
    BY <2>1 DEF Idle
<1>11. RestIdle'
  BY <1>1, <1>4, <1>9, <1>10 DEF AccountingInv, RestIdle, KeepsIdle
<1> QED
  BY <1>5, <1>8, <1>11 DEF Accounted, Counted, Exclusive, Secret

LEMMA NextAccounting == AccountingInv /\ [Next]_vars => AccountingInv'
<1> SUFFICES ASSUME AccountingInv, [Next]_vars
             PROVE  Accounted(kv)' /\ RestIdle'
  BY NextTransaction DEF AccountingInv
<1>1. CASE BeginSchedule
  BY <1>1, BeginScheduleAccounting
<1>2. ASSUME NEW r \in Req, Admit(r)
      PROVE  Accounted(kv)' /\ RestIdle'
  BY <1>2, AdmitAccounting
<1>3. ASSUME NEW r \in Req, ScheduleRunning(r)
      PROVE  Accounted(kv)' /\ RestIdle'
  BY <1>3, ScheduleRunningAccounting
<1>4. ASSUME NEW r \in Req, Preempt(r)
      PROVE  Accounted(kv)' /\ RestIdle'
  BY <1>4, PreemptAccounting
<1>5. CASE EndSchedule
  BY <1>5, EndScheduleAccounting
<1>6. ASSUME NEW F \in SUBSET Req, UpdateFromOutput(F)
      PROVE  Accounted(kv)' /\ RestIdle'
  BY <1>6, UpdateFromOutputAccounting
<1>7. ASSUME NEW r \in Req, Abort(r)
      PROVE  Accounted(kv)' /\ RestIdle'
  BY <1>7, AbortAccounting
<1>8. CASE ResetPrefixCache
  BY <1>8, ResetPrefixCacheAccounting
<1>9. CASE WorkerRuns \/ Terminated \/ UNCHANGED vars
  <2>1. kv' = kv /\ status' = status
    BY <1>9 DEF WorkerRuns, Terminated, vars
  <2> QED
    BY <2>1 DEF AccountingInv, Accounted, Counted, Exclusive, Secret, RestIdle, Holders
<1> QED
  BY <1>1, <1>2, <1>3, <1>4, <1>5, <1>6, <1>7, <1>8, <1>9 DEF Next, SchedulerNext, EngineNext

(* The accounting that the hooks of the block pool keep between them: exact *)
(* counts, private compressed KV, and nothing held by who does not run.     *)
THEOREM AccountingCorrect == Spec => []AccountingInv
<1>1. Init => AccountingInv
  BY InitAccounting
<1>2. AccountingInv /\ [Next]_vars => AccountingInv'
  BY NextAccounting
<1> QED
  BY <1>1, <1>2, PTL DEF Spec

(* Reference counts are exact: whatever the order of aborts, preemptions,   *)
(* stops, discards, commits and deferred releases, no block leaks and none  *)
(* is freed twice.                                                          *)
THEOREM RefCorrect == Spec => []RefExact
<1>1. AccountingInv => RefExact
  BY DEF AccountingInv, Accounted, Counted, RefExact
<1> QED
  BY <1>1, AccountingCorrect, PTL

(* Compressed KV, reserved or committed, is in no other request's hands and *)
(* never in the prefix cache.                                               *)
THEOREM PrivateCorrect == Spec => []PrivateKV
<1>1. AccountingInv => PrivateKV
  <2> SUFFICES ASSUME AccountingInv, NEW r \in Req, NEW b \in PrivateBlocks(r)
               PROVE  kv.hash[b] = Unhashed /\ Holders(kv, b) \subseteq Places({r})
    BY DEF PrivateKV
  <2>1. PICK t \in {Table, Reserved} :
          <<r, t>> \in Secret(kv) /\ b \in BlocksAt(kv, <<r, t>>)
    <3>1. <<r, Table>> \in Places(Req) /\ <<r, Reserved>> \in Places(Req)
      BY PlaceTypes
    <3>2. CASE kv.pending[r] # None /\ b \in Range(kv.pending[r].plan.dest)
      BY <3>1, <3>2, WhatIsAt DEF Secret
    <3>3. CASE kv.active[r] # None /\ b \in Range(kv.table[r])
      BY <3>1, <3>3, WhatIsAt DEF Secret
    <3> QED
      BY <3>2, <3>3 DEF PrivateBlocks
  <2>2. kv.hash[b] = Unhashed
        /\ \A q \in Places(Req) : b \in BlocksAt(kv, q) => q = <<r, t>>
    BY <2>1 DEF AccountingInv, Accounted, Exclusive
  <2>3. <<r, t>> \in Places({r})
    BY <2>1, ModeAssumption DEF Places, Table, Reserved
  <2> QED
    BY <2>2, <2>3 DEF Holders
<1> QED
  BY <1>1, AccountingCorrect, PTL

----------------------------------------------------------------------------
(* The replaced sources.  A source is put down for as many outputs as       *)
(* batches can be queued besides the one just consumed, and comes one       *)
(* output nearer to its release with each batch that leaves the queue.      *)

QueueBounded == Len(queue) <= Depth /\ (building # None => Len(queue) < Depth)
OutlivesInv == TypeOK /\ QueueBounded /\ SourceOutlivesQueue

(* Deferred releases are not lost.                                          *)
KeepsDeferred(k, j, R) ==
  \A r \in R : \A left \in 1..Depth - 1 : k.deferred[r][left] \subseteq j.deferred[r][left]

LEMMA CommittedDeferred ==
  ASSUME NEW k \in KV, NEW defer
  PROVE  /\ KeepsDeferred(k, Committed(k, defer), Req)
         /\ defer \in 1..Depth - 1 => \A r \in Committable(k) :
              Range(k.table[r]) \subseteq Committed(k, defer).deferred[r][defer]
<1> DEFINE R == Committable(k)
           d == PendingDiscarded(k, Ready(k) \ R)
           j == Committed(k, defer)
<1>1. R \in SUBSET Req /\ Ready(k) \ R \in SUBSET Req
  BY DEF Committable, Ready
<1>2. d \in KV /\ d.deferred = k.deferred
  BY <1>1, PendingDiscardedType DEF PendingDiscarded, KV
<1>3. j.deferred = [r \in Req |-> [left \in 1..Depth - 1 |->
                      IF r \in R /\ left = defer
                      THEN d.deferred[r][left] \cup Range(k.table[r])
                      ELSE d.deferred[r][left]]]
  <2> HIDE DEF d, R
  <2>1. j = [d EXCEPT
       !.ref = IF defer = 0 THEN FreeAt(d, R \X {Table}) ELSE @,
       !.deferred = [r \in Req |-> [left \in 1..Depth - 1 |->
                      IF r \in R /\ left = defer
                      THEN @[r][left] \cup Range(k.table[r]) ELSE @[r][left]]],
       !.table = [r \in Req |-> IF r \in R THEN k.pending[r].plan.dest ELSE @[r]],
       !.active = [r \in Req |-> IF r \in R
                     THEN [semantic |-> k.pending[r].plan.semantic, physical |-> Budget]
                     ELSE @[r]],
       !.pending = Cleared(@, R, None),
       !.eligible = Thawed(d, R)]
    BY DEF Committed, d, R
  <2> HIDE DEF j
  <2> QED
    BY <1>2, <2>1 DEF KV
<1> HIDE DEF j, d, R
<1>4. KeepsDeferred(k, j, Req)
  BY <1>2, <1>3 DEF KeepsDeferred
<1>5. defer \in 1..Depth - 1 => \A r \in R : Range(k.table[r]) \subseteq j.deferred[r][defer]
  BY <1>1, <1>3
<1> QED
  BY <1>4, <1>5 DEF j, R

LEMMA OwedType ==
  ASSUME TypeOK, NEW i \in DOMAIN owed, NEW p \in owed[i]
  PROVE  i \in 1..Len(owed) /\ p[1] \in Req /\ p[2] \in Block
<1>1. owed \in Seq(SUBSET (Req \X Block))
  BY DEF TypeOK
<1>2. i \in 1..Len(owed) /\ owed[i] \in SUBSET (Req \X Block)
  BY <1>1, LenProperties
<1> QED
  BY <1>2

(* Forgetting what is owed to the requests R.                               *)
LEMMA KeptOutlives ==
  ASSUME OutlivesInv, NEW R, KeepsDeferred(kv, kv', Req \ R), owed' = Without(R)
  PROVE  SourceOutlivesQueue'
<1> SUFFICES ASSUME NEW i \in DOMAIN owed', NEW p \in owed'[i]
             PROVE  \E left \in i..Depth - 1 : p[2] \in kv'.deferred[p[1]][left]
  BY DEF SourceOutlivesQueue
<1>1. i \in DOMAIN owed /\ p \in owed[i] /\ p[1] \notin R
  BY DEF Without
<1>2. i \in 1..Len(owed) /\ p[1] \in Req /\ Len(owed) \in Nat
  BY <1>1, OwedType, LenProperties DEF OutlivesInv, TypeOK
<1>3. PICK left \in i..Depth - 1 : p[2] \in kv.deferred[p[1]][left]
  BY <1>1 DEF OutlivesInv, SourceOutlivesQueue
<1>4. left \in 1..Depth - 1
  BY <1>2, ModeAssumption
<1>5. kv.deferred[p[1]][left] \subseteq kv'.deferred[p[1]][left]
  BY <1>1, <1>2, <1>4 DEF KeepsDeferred
<1> QED
  BY <1>3, <1>5

LEMMA WithoutNobody == ASSUME TypeOK PROVE Without({}) = owed
<1>1. owed = [i \in DOMAIN owed |-> owed[i]]
  BY DEF TypeOK
<1>2. \A i \in DOMAIN owed : {p \in owed[i] : p[1] \notin {}} = owed[i]
  OBVIOUS
<1> QED
  BY <1>1, <1>2 DEF Without

LEMMA BeginScheduleOutlives ==
  ASSUME OutlivesInv, BeginSchedule
  PROVE  QueueBounded' /\ SourceOutlivesQueue'
<1> DEFINE d == Discarded(kv, finishedIds)
<1>1. kv \in KV /\ finishedIds \in SUBSET Req /\ TypeOK
      /\ kv' = BeforeSchedule(kv, finishedIds) /\ owed' = owed
  BY DEF OutlivesInv, TypeOK, BeginSchedule
<1>2. d \in KV /\ d.deferred = kv.deferred
  <2>1. d \in KV
    BY <1>1, DiscardedType
  <2> QED
    BY <1>1, <2>1 DEF Discarded, PendingDiscarded, KV
<1>3. kv' = d \/ kv' = Committed(d, 0)
  BY <1>1 DEF BeforeSchedule
<1> HIDE DEF d
<1>4. KeepsDeferred(kv, kv', Req)
  BY <1>2, <1>3, CommittedDeferred DEF KeepsDeferred
<1>5. SourceOutlivesQueue'
  <2>1. owed' = Without({})
    BY <1>1, WithoutNobody
  <2>2. KeepsDeferred(kv, kv', Req \ {})
    BY <1>4 DEF KeepsDeferred
  <2> QED
    BY <2>1, <2>2, KeptOutlives
<1>6. QueueBounded'
  BY DEF BeginSchedule, OutlivesInv, QueueBounded
<1> QED
  BY <1>5, <1>6

(* Steps that leave the deferred releases alone.                            *)
LEMMA SameOutlives ==
  ASSUME OutlivesInv, kv'.deferred = kv.deferred, owed' = owed
  PROVE  SourceOutlivesQueue'
BY DEF OutlivesInv, SourceOutlivesQueue

LEMMA EnteredOutlives ==
  ASSUME OutlivesInv, NEW r \in Req, Admit(r) \/ ScheduleRunning(r)
  PROVE  QueueBounded' /\ SourceOutlivesQueue'
<1>1. \E hits, new, n : kv' = CacheBlocks(Allocated(kv, r, hits, new), r, n)
  <2>1. CASE Admit(r)
    BY <2>1 DEF Admit
  <2>2. CASE ScheduleRunning(r)
    BY <2>2 DEF ScheduleRunning
  <2> QED
    BY <2>1, <2>2
<1>2. PICK hits, new, n : kv' = CacheBlocks(Allocated(kv, r, hits, new), r, n)
  BY <1>1
<1>3. kv'.deferred = kv.deferred
  BY <1>2 DEF CacheBlocks, Allocated, OutlivesInv, TypeOK, KV
<1>4. building # None /\ queue' = queue /\ owed' = owed
  BY DEF Admit, ScheduleRunning
<1>5. QueueBounded'
  BY <1>4 DEF OutlivesInv, QueueBounded
<1> QED
  BY <1>3, <1>4, <1>5, SameOutlives

(* Freeing the requests R.                                                  *)
LEMMA FreeOutlives ==
  ASSUME OutlivesInv, NEW R \in SUBSET Req, kv'.deferred = Freed(kv, R).deferred,
         owed' = Without(R)
  PROVE  SourceOutlivesQueue'
<1>1. Freed(kv, R).deferred = Cleared(kv.deferred, R, Emptied)
  BY DEF Freed, OutlivesInv, TypeOK, KV
<1>2. KeepsDeferred(kv, kv', Req \ R)
  BY <1>1 DEF KeepsDeferred, Cleared
<1> QED
  BY <1>2, KeptOutlives

LEMMA EndScheduleOutlives ==
  ASSUME OutlivesInv, EndSchedule
  PROVE  QueueBounded' /\ SourceOutlivesQueue'
<1>1. kv \in KV /\ queue \in Seq(Output) /\ owed \in Seq(SUBSET (Req \X Block))
      /\ building # None /\ building' = None /\ owed' = Append(owed, {})
  BY DEF OutlivesInv, TypeOK, EndSchedule
<1>2. \E o : queue' = Append(queue, o)
  BY DEF EndSchedule
<1>3. \E R, A, dest : kv' = Armed(Discarded(kv, R), A, dest)
  BY DEF EndSchedule, AfterSchedule
<1>4. kv'.deferred = kv.deferred
  BY <1>1, <1>3 DEF Armed, Discarded, PendingDiscarded, KV
<1>5. Len(queue') = Len(queue) + 1 /\ Len(queue) \in Nat
  BY <1>1, <1>2, AppendProperties, LenProperties
<1>6. QueueBounded'
  BY <1>1, <1>5, ModeAssumption DEF OutlivesInv, QueueBounded
<1>7. SourceOutlivesQueue'
  <2> SUFFICES ASSUME NEW i \in DOMAIN owed', NEW p \in owed'[i]
               PROVE  \E left \in i..Depth - 1 : p[2] \in kv'.deferred[p[1]][left]
    BY DEF SourceOutlivesQueue
  <2>1. i \in DOMAIN owed /\ owed'[i] = owed[i]
    BY <1>1, AppendProperties, LenProperties
  <2> QED
    BY <1>4, <2>1 DEF OutlivesInv, SourceOutlivesQueue
<1> QED
  BY <1>6, <1>7

(* Every batch that stays in the queue is one nearer to its consumption, as *)
(* is every release; what is committed now is put down for the longest time.*)
LEMMA UpdateFromOutputOutlives ==
  ASSUME OutlivesInv, NEW F \in SUBSET Req, UpdateFromOutput(F)
  PROVE  QueueBounded' /\ SourceOutlivesQueue'
<1> DEFINE f == Freed(kv, F)
           k == Acknowledged(f, Head(queue).plans)
           d == Drained(k)
           replaced == IF Async THEN {p \in Committable(k) \X Block :
                                        p[2] \in Range(k.table[p[1]])} ELSE {}
<1>1. kv \in KV /\ queue \in Seq(Output) /\ owed \in Seq(SUBSET (Req \X Block))
      /\ ran \in 0..Len(queue) /\ Len(owed) = Len(queue) /\ Len(queue) \in Nat
  BY LenProperties DEF OutlivesInv, TypeOK
<1>2. /\ building' = None /\ kv' = AfterModelOutput(k) /\ queue' = Tail(queue) /\ ran > 0
      /\ owed' = [i \in 1..Len(owed) - 1 |-> Without(F)[i + 1] \cup replaced]
  BY DEF UpdateFromOutput
<1>3. f \in KV /\ \A r \in Req \ F : f.deferred[r] = kv.deferred[r]
  <2>1. f \in KV
    BY <1>1, FreedType
  <2>2. f.deferred = Cleared(kv.deferred, F, Emptied)
    BY <1>1 DEF Freed, KV
  <2> QED
    BY <2>1, <2>2 DEF Cleared
<1> HIDE DEF f
<1>4. k \in KV /\ k.deferred = f.deferred
  <2>1. k \in KV
    BY <1>3, AcknowledgedType
  <2> QED
    BY <1>3, <2>1 DEF Acknowledged, KV
<1> HIDE DEF k
<1>5. d \in KV /\ d.pending = k.pending /\ d.table = k.table
      /\ d.deferred = [r \in Req |-> [left \in 1..Depth - 1 |->
                         IF left = Depth - 1 THEN {} ELSE k.deferred[r][left + 1]]]
  <2>1. d \in KV
    BY <1>4, DrainedType
  <2> QED
    BY <1>4, <2>1 DEF Drained, KV
<1>6. kv' = IF Async THEN Committed(d, Depth - 1) ELSE k
  BY <1>2 DEF AfterModelOutput
<1> HIDE DEF d
<1>7. Committable(d) = Committable(k)
  BY <1>5 DEF Committable, Ready
<1>8. QueueBounded'
  <2>1. Len(queue') = Len(queue) - 1
    BY <1>1, <1>2, HeadTailProperties, EmptySeq
  <2> QED
    BY <1>1, <1>2, <2>1, ModeAssumption DEF OutlivesInv, QueueBounded
<1>9. SourceOutlivesQueue'
  <2> SUFFICES ASSUME NEW i \in 1..Len(owed) - 1, NEW p \in owed'[i]
               PROVE  \E left \in i..Depth - 1 : p[2] \in kv'.deferred[p[1]][left]
    BY <1>2 DEF SourceOutlivesQueue
  <2>1. i + 1 \in DOMAIN owed /\ i \in 1..Depth - 1 /\ Depth - 1 \in 1..Depth - 1
        /\ Depth \in Nat
    BY <1>1, LenProperties, ModeAssumption DEF OutlivesInv, QueueBounded
  <2>2. Async /\ kv' = Committed(d, Depth - 1)
    BY <1>6, <2>1, ModeAssumption
  <2>3. KeepsDeferred(d, kv', Req)
        /\ \A r \in Committable(d) : Range(d.table[r]) \subseteq kv'.deferred[r][Depth - 1]
    BY <1>5, <2>1, <2>2, CommittedDeferred
  <2>4. CASE p \in Without(F)[i + 1]
    <3>1. p \in owed[i + 1] /\ p[1] \notin F
      BY <2>1, <2>4 DEF Without
    <3>2. p[1] \in Req \ F
      BY <2>1, <3>1, OwedType DEF OutlivesInv
    <3>3. PICK left \in i + 1..Depth - 1 : p[2] \in kv.deferred[p[1]][left]
      BY <2>1, <3>1 DEF OutlivesInv, SourceOutlivesQueue
    <3> DEFINE m == left - 1
    <3>4. m \in 1..Depth - 1 /\ m # Depth - 1 /\ m + 1 = left /\ m \in i..Depth - 1
      BY <2>1
    <3> HIDE DEF m
    <3>5. d.deferred[p[1]][m] = k.deferred[p[1]][m + 1]
      BY <1>5, <3>2, <3>4
    <3>6. k.deferred[p[1]] = kv.deferred[p[1]]
      BY <1>3, <1>4, <3>2
    <3>7. p[2] \in d.deferred[p[1]][m]
      BY <3>3, <3>4, <3>5, <3>6
    <3>8. p[2] \in kv'.deferred[p[1]][m]
      BY <2>3, <3>2, <3>4, <3>7 DEF KeepsDeferred
    <3> QED
      BY <3>4, <3>8
  <2>5. CASE p \in replaced
    <3>1. p[1] \in Committable(d) /\ p[2] \in Range(d.table[p[1]])
      BY <1>5, <1>7, <2>2, <2>5
    <3>2. p[2] \in kv'.deferred[p[1]][Depth - 1]
      BY <2>3, <3>1
    <3>3. Depth - 1 \in i..Depth - 1
      BY <2>1
    <3> QED
      BY <3>2, <3>3
  <2> QED
    BY <1>2, <2>4, <2>5
<1> QED
  BY <1>8, <1>9

LEMMA NextOutlives == OutlivesInv /\ [Next]_vars => OutlivesInv'
<1> SUFFICES ASSUME OutlivesInv, [Next]_vars
             PROVE  QueueBounded' /\ SourceOutlivesQueue'
  BY NextType DEF OutlivesInv
<1>1. CASE BeginSchedule
  BY <1>1, BeginScheduleOutlives
<1>2. ASSUME NEW r \in Req, Admit(r) \/ ScheduleRunning(r)
      PROVE  QueueBounded' /\ SourceOutlivesQueue'
  BY <1>2, EnteredOutlives
<1>3. ASSUME NEW r \in Req, Preempt(r)
      PROVE  QueueBounded' /\ SourceOutlivesQueue'
  <2> DEFINE R == {r}
  <2>1. R \in SUBSET Req /\ kv' = Freed(kv, R) /\ owed' = Without(R)
        /\ building # None /\ queue' = queue
    BY <1>3 DEF Preempt
  <2> HIDE DEF R
  <2> QED
    BY <2>1, FreeOutlives DEF OutlivesInv, QueueBounded
<1>4. CASE EndSchedule
  BY <1>4, EndScheduleOutlives
<1>5. ASSUME NEW F \in SUBSET Req, UpdateFromOutput(F)
      PROVE  QueueBounded' /\ SourceOutlivesQueue'
  BY <1>5, UpdateFromOutputOutlives
<1>6. ASSUME NEW r \in Req, Abort(r)
      PROVE  QueueBounded' /\ SourceOutlivesQueue'
  <2> DEFINE R == {r}
  <2>1. R \in SUBSET Req /\ kv' = Freed(kv, R) /\ owed' = Without(R)
        /\ building' = building /\ queue' = queue
    BY <1>6 DEF Abort
  <2> HIDE DEF R
  <2> QED
    BY <2>1, FreeOutlives DEF OutlivesInv, QueueBounded
<1>7. CASE ResetPrefixCache
  <2> DEFINE R == {r \in Req : status[r] = "running"}
             k == Freed(kv, R)
  <2>1. /\ kv' = k \/ kv' = [k EXCEPT !.hash = [b \in Block |-> Unhashed]]
        /\ R \in SUBSET Req /\ owed' = Without(R) /\ building' = building
        /\ kv \in KV /\ queue \in Seq(Output)
        /\ queue' = [i \in DOMAIN queue |-> [queue[i] EXCEPT !.sampled = @ \ R]]
    BY <1>7 DEF ResetPrefixCache, OutlivesInv, TypeOK
  <2>2. k \in KV
    BY <2>1, FreedType
  <2>3. Len(queue') = Len(queue)
    <3>1. queue' \in Seq(Output)
      BY NextType DEF OutlivesInv, TypeOK
    <3>2. DOMAIN queue' = DOMAIN queue
      BY <2>1
    <3> QED
      BY <2>1, <3>1, <3>2, LenProperties
  <2> HIDE DEF R, k
  <2>4. kv'.deferred = k.deferred
    BY <2>1, <2>2 DEF KV
  <2> QED
    BY <2>1, <2>3, <2>4, FreeOutlives DEF OutlivesInv, QueueBounded, k
<1>8. CASE WorkerRuns \/ Terminated \/ UNCHANGED vars
  <2>1. kv' = kv /\ owed' = owed /\ building' = building /\ queue' = queue
    BY <1>8 DEF WorkerRuns, Terminated, vars
  <2> QED
    BY <2>1 DEF OutlivesInv, QueueBounded, SourceOutlivesQueue
<1> QED
  BY <1>1, <1>2, <1>3, <1>4, <1>5, <1>6, <1>7, <1>8 DEF Next, SchedulerNext, EngineNext

(* The blocks that a commit replaces are held back until every batch that   *)
(* was queued at the commit has been consumed, for any depth of the queue.  *)
THEOREM OutlivesCorrect == Spec => []SourceOutlivesQueue
<1>1. Init => OutlivesInv
  <2> SUFFICES ASSUME Init
               PROVE  OutlivesInv
    OBVIOUS
  <2>1. Len(queue) = 0 /\ building = None /\ DOMAIN owed = {}
    BY EmptySeq DEF Init
  <2> QED
    BY <2>1, InitType, ModeAssumption DEF OutlivesInv, QueueBounded, SourceOutlivesQueue
<1>2. OutlivesInv /\ [Next]_vars => OutlivesInv'
  BY NextOutlives
<1>3. OutlivesInv => SourceOutlivesQueue
  BY DEF OutlivesInv
<1> QED
  BY <1>1, <1>2, <1>3, PTL DEF Spec

----------------------------------------------------------------------------
(* The extent of what a request holds: its block table is long enough for   *)
(* its tokens in the lengths the hooks hand out, the blocks it has yet to   *)
(* fill are its own and unknown to the prefix cache, and its placeholders   *)
(* are the tokens that the batches in flight will sample.  This is what the *)
(* worker relies on (SystemProofs).                                         *)

(* finishedIds and resetIds announce requests that have left the batch; one *)
(* that was reset runs again only if it was resumed in the batch being built.*)
Announced ==
  \A r \in Req :
    /\ r \in finishedIds => status[r] = "finished"
    /\ r \in resetIds => status[r] # "waiting"
    /\ r \in resetIds /\ status[r] = "running" =>
         building # None /\ building.sched[r] # None /\ building.sched[r].kind = "resumed"

(* A request under way holds blocks for all its computed tokens, as long as *)
(* the hooks say they are, and reserves room for exactly the budget.        *)
Fitted ==
  \A r \in Req : status[r] = "running" =>
    /\ PhysicalTokens(kv, r, computed[r]) <= Len(kv.table[r]) * BlockSize
    /\ kv.active[r] # None =>
         kv.active[r].physical = Budget /\ kv.active[r].semantic <= computed[r]
    /\ kv.pending[r] # None => Len(kv.pending[r].plan.dest) = Keep

(* The blocks of a table that are not full are unhashed and in no other     *)
(* table, nor twice in this one.                                            *)
OwnUnfilled(k, c, r, i) ==
  i * BlockSize > PhysicalTokens(k, r, c[r]) =>
    /\ k.hash[k.table[r][i]] = Unhashed
    /\ \A q \in Req : \A j \in DOMAIN k.table[q] :
         k.table[q][j] = k.table[r][i] => q = r /\ j = i
Unfilled(k, c) == \A r \in Req : \A i \in DOMAIN k.table[r] : OwnUnfilled(k, c, r, i)

(* The batches in flight that will sample a token of r; 0 is the one that   *)
(* is being built.                                                          *)
InFlight(r) ==
  {i \in DOMAIN queue : r \in queue[i].sampled}
  \cup {i \in {0} : building # None /\ r \in building.sampled}

PlaceholdersExact ==
  \A r \in Req :
    /\ Live(r) => placeholders[r] = Cardinality(InFlight(r))
    /\ building # None /\ building.sched[r] = None => r \notin building.sampled
TokensKnown ==
  \A r \in Req :
    /\ computed[r] >= 0 /\ tokens[r] >= Prompt[r]
    /\ status[r] = "running" => computed[r] <= Known(r)

(* What an entry of the batch under construction says of its request.       *)
EntryAgrees(r, item) ==
  /\ item.start >= 0 /\ item.n >= 0 /\ item.start + item.n = computed[r]
  /\ kv.active[r] # None => kv.active[r].semantic <= item.start
  /\ item.kind # "cached" => kv.active[r] = None /\ item.blocks = kv.table[r]
BatchAgrees ==
  building # None =>
    /\ building.finished = {}
    /\ \A r \in Req :
         /\ building.plans[r] = None
         /\ building.sched[r] # None => EntryAgrees(r, building.sched[r])
         /\ r \in building.preempted => status[r] # "running"

Extent ==
  /\ Announced /\ PlaceholdersExact /\ TokensKnown /\ BatchAgrees
  /\ Fitted /\ Unfilled(kv, computed)
ExtentInv == AccountingInv /\ Extent

----------------------------------------------------------------------------
(* Arithmetic of blocks.                                                    *)

LEMMA DivisionOf ==
  ASSUME NEW n \in Int, NEW d \in Nat \ {0}
  PROVE  n = d * (n \div d) + (n % d) /\ n % d \in 0..d - 1 /\ n \div d \in Int
OBVIOUS

LEMMA BlocksForCovers == \A n \in Int : BlocksFor(n) \in Int /\ n <= BlocksFor(n) * BlockSize
<1> TAKE n \in Int
<1> DEFINE m == n + BlockSize - 1
           k == m \div BlockSize
<1>1. m \in Int /\ BlockSize \in Nat \ {0}
  BY ConfigAssumption
<1>2. m = BlockSize * k + (m % BlockSize) /\ m % BlockSize \in 0..BlockSize - 1 /\ k \in Int
  BY <1>1, DivisionOf
<1>3. BlocksFor(n) = k
  BY DEF BlocksFor
<1> HIDE DEF k
<1>4. BlockSize * k = k * BlockSize
  BY <1>1, <1>2
<1>5. m <= k * BlockSize + BlockSize - 1
  BY <1>1, <1>2, <1>4
<1> QED
  BY <1>1, <1>2, <1>3, <1>5

LEMMA KeepIsBudget == Keep \in Nat /\ Keep * BlockSize = Budget
<1>1. BlockSize \in Nat \ {0} /\ Budget \in Nat /\ Budget % BlockSize = 0
  BY ConfigAssumption
<1> DEFINE b == Budget \div BlockSize
           m == Budget + BlockSize - 1
           k == m \div BlockSize
           s == m % BlockSize
<1>2. Budget = BlockSize * b /\ b \in Int
  BY <1>1, DivisionOf
<1>3. m = BlockSize * k + s /\ s \in 0..BlockSize - 1 /\ k \in Int
  <2>1. m \in Int
    BY <1>1
  <2> QED
    BY <1>1, <2>1, DivisionOf
<1>4. Keep = k
  BY DEF Keep, BlocksFor
<1> HIDE DEF b, k, s
<1>5. BlockSize * b + BlockSize - 1 = BlockSize * k + s
  BY <1>2, <1>3
<1>6. b = k
  BY <1>1, <1>2, <1>3, <1>5
<1>7. Keep \in Nat
  BY BlocksForType
<1> QED
  BY <1>1, <1>2, <1>3, <1>4, <1>6, <1>7

LEMMA ScaledOrder ==
  ASSUME NEW a \in Int, NEW b \in Int
  PROVE  /\ a <= b <=> a * BlockSize <= b * BlockSize
         /\ a < b => a * BlockSize + BlockSize <= b * BlockSize
         /\ a * BlockSize \in Int
BY ConfigAssumption

(* Lengths that the hooks hand out.                                         *)
LEMMA PhysicalIs ==
  ASSUME NEW k \in KV, NEW r \in Req, NEW n \in Int
  PROVE  /\ PhysicalTokens(k, r, n) \in Int
         /\ k.active[r] = None => PhysicalTokens(k, r, n) = n
         /\ k.active[r] # None => k.active[r].semantic \in Int /\ k.active[r].physical \in Int
         /\ k.active[r] # None /\ k.active[r].physical = Budget /\ k.active[r].semantic <= n =>
              PhysicalTokens(k, r, n) = n - k.active[r].semantic + Budget
<1>1. k.active[r] \in Active \cup {None}
  BY KVFields
<1>2. CASE k.active[r] = None
  BY <1>2 DEF PhysicalTokens
<1>3. CASE k.active[r] # None
  <2>1. k.active[r].semantic \in Int /\ k.active[r].physical \in Int /\ Budget \in Nat
    BY <1>1, <1>3, ConfigAssumption DEF Active
  <2> QED
    BY <1>3, <2>1 DEF PhysicalTokens, Most
<1> QED
  BY <1>2, <1>3

----------------------------------------------------------------------------
(* What the plugin's handlers leave of a request.                           *)

Kept(k, j, r) ==
  /\ j.table[r] = k.table[r] /\ j.active[r] = k.active[r]
  /\ j.pending[r] = None <=> k.pending[r] = None
  /\ k.pending[r] # None => j.pending[r].plan = k.pending[r].plan

CommittedFrom(k, j, r) ==
  /\ k.pending[r] # None /\ j.pending[r] = None
  /\ j.table[r] = k.pending[r].plan.dest
  /\ j.active[r] = [semantic |-> k.pending[r].plan.semantic, physical |-> Budget]

Settles(k, j, r) == Kept(k, j, r) \/ CommittedFrom(k, j, r)

(* Nothing is pending on another table than its source.                     *)
Sourced(k) == \A r \in Req : k.pending[r] # None => k.table[r] = k.pending[r].plan.source

LEMMA KeptThenSettled ==
  ASSUME NEW k, NEW j, NEW i, NEW r, Kept(k, j, r), Settles(j, i, r)
  PROVE  Settles(k, i, r)
BY DEF Kept, Settles, CommittedFrom

LEMMA FreedKeeps ==
  ASSUME NEW k \in KV, NEW R \in SUBSET Req
  PROVE  /\ Freed(k, R).hash = k.hash
         /\ \A r \in Req \ R : Kept(k, Freed(k, R), r)
         /\ Sourced(k) => Sourced(Freed(k, R))
<1>1. /\ Freed(k, R).table = Cleared(k.table, R, <<>>)
      /\ Freed(k, R).pending = Cleared(k.pending, R, None)
      /\ Freed(k, R).active = Cleared(k.active, R, None)
      /\ Freed(k, R).hash = k.hash
  BY DEF Freed, KV
<1> QED
  BY <1>1 DEF Cleared, Kept, Sourced

LEMMA PendingDiscardedKeeps ==
  ASSUME NEW k \in KV, NEW R \in SUBSET Req, NEW j, j = PendingDiscarded(k, R)
  PROVE  /\ j.hash = k.hash /\ j.table = k.table /\ j.active = k.active
         /\ j.pending = Cleared(k.pending, R, None)
BY DEF PendingDiscarded, KV

LEMMA DiscardedKeeps ==
  ASSUME NEW k \in KV, NEW R \in SUBSET Req
  PROVE  /\ Discarded(k, R).hash = k.hash
         /\ \A r \in Req : r \notin R \/ (k.pending[r] = None /\ k.active[r] = None)
                             => Kept(k, Discarded(k, R), r)
         /\ Sourced(k) => Sourced(Discarded(k, R))
<1> DEFINE d == PendingDiscarded(k, R)
<1>1. d \in KV /\ d.hash = k.hash /\ d.table = k.table /\ d.active = k.active
      /\ d.pending = Cleared(k.pending, R, None)
  BY PendingDiscardedType, PendingDiscardedKeeps
<1>2. Discarded(k, R) = [d EXCEPT !.active = Cleared(@, R, None)]
  BY DEF Discarded
<1> HIDE DEF d
<1>3. /\ Discarded(k, R).hash = k.hash /\ Discarded(k, R).table = k.table
      /\ Discarded(k, R).active = Cleared(k.active, R, None)
      /\ Discarded(k, R).pending = Cleared(k.pending, R, None)
  BY <1>1, <1>2 DEF KV
<1> QED
  BY <1>3 DEF Cleared, Kept, Sourced

LEMMA AcknowledgedKeeps ==
  ASSUME NEW k \in KV, NEW plans
  PROVE  /\ Acknowledged(k, plans).hash = k.hash
         /\ \A r \in Req : Kept(k, Acknowledged(k, plans), r)
         /\ Sourced(k) => Sourced(Acknowledged(k, plans))
<1> DEFINE j == Acknowledged(k, plans)
<1>1. /\ j.hash = k.hash /\ j.table = k.table /\ j.active = k.active
      /\ j.pending = [r \in Req |-> IF k.pending[r] # None /\ plans[r] = k.pending[r].plan
                                    THEN [k.pending[r] EXCEPT !.ready = TRUE] ELSE k.pending[r]]
  BY DEF Acknowledged, KV
<1> HIDE DEF j
<1>2. ASSUME NEW r \in Req, k.pending[r] # None
      PROVE  j.pending[r] # None /\ j.pending[r].plan = k.pending[r].plan
  <2>1. k.pending[r] \in Pending
    BY <1>2, KVFields
  <2>2. [k.pending[r] EXCEPT !.ready = TRUE] \in Pending
        /\ [k.pending[r] EXCEPT !.ready = TRUE].plan = k.pending[r].plan
    BY <2>1 DEF Pending
  <2>3. [k.pending[r] EXCEPT !.ready = TRUE] # None
    BY <2>2, NoneAssumption
  <2> QED
    BY <1>1, <1>2, <2>2, <2>3
<1>3. \A r \in Req : k.pending[r] = None => j.pending[r] = None
  BY <1>1
<1>4. \A r \in Req : Kept(k, j, r)
  BY <1>1, <1>2, <1>3 DEF Kept
<1>5. Sourced(k) => Sourced(j)
  BY <1>1, <1>2, <1>3 DEF Sourced
<1> QED
  BY <1>1, <1>4, <1>5 DEF j

LEMMA DrainedKeeps ==
  ASSUME NEW k \in KV
  PROVE  /\ Drained(k).hash = k.hash
         /\ \A r \in Req : Kept(k, Drained(k), r)
         /\ Sourced(k) => Sourced(Drained(k))
<1>1. /\ Drained(k).hash = k.hash /\ Drained(k).table = k.table
      /\ Drained(k).active = k.active /\ Drained(k).pending = k.pending
  BY DEF Drained, KV
<1> QED
  BY <1>1 DEF Kept, Sourced

LEMMA CommittedSettles ==
  ASSUME NEW k \in KV, Sourced(k), NEW defer
  PROVE  /\ Committed(k, defer).hash = k.hash
         /\ \A r \in Req : Settles(k, Committed(k, defer), r)
<1> DEFINE R == Committable(k)
           d == PendingDiscarded(k, Ready(k) \ R)
           j == Committed(k, defer)
<1>1. R \in SUBSET Req /\ Ready(k) \ R = {} /\ \A r \in R : k.pending[r] # None
  BY DEF Committable, Ready, Sourced
<1>2. d \in KV /\ d.hash = k.hash /\ d.table = k.table /\ d.active = k.active
      /\ d.pending = Cleared(k.pending, {}, None)
  BY <1>1, PendingDiscardedType, PendingDiscardedKeeps
<1>3. /\ j.hash = d.hash
      /\ j.pending = Cleared(d.pending, R, None)
      /\ j.table = [r \in Req |-> IF r \in R THEN k.pending[r].plan.dest ELSE d.table[r]]
      /\ j.active = [r \in Req |-> IF r \in R
                      THEN [semantic |-> k.pending[r].plan.semantic, physical |-> Budget]
                      ELSE d.active[r]]
  BY <1>2 DEF Committed, KV
<1> HIDE DEF j, d, R
<1>4. ASSUME NEW r \in Req
      PROVE  Settles(k, j, r)
  BY <1>1, <1>2, <1>3 DEF Settles, Kept, CommittedFrom, Cleared
<1> QED
  BY <1>2, <1>3, <1>4 DEF j

LEMMA BeforeScheduleSettles ==
  ASSUME NEW k \in KV, Sourced(k), NEW R \in SUBSET Req
  PROVE  /\ BeforeSchedule(k, R).hash = k.hash
         /\ \A r \in Req \ R : Settles(k, BeforeSchedule(k, R), r)
<1> DEFINE d == Discarded(k, R)
<1>1. d \in KV /\ d.hash = k.hash /\ Sourced(d) /\ \A r \in Req \ R : Kept(k, d, r)
  BY DiscardedType, DiscardedKeeps
<1>2. BeforeSchedule(k, R) = IF Async THEN d ELSE Committed(d, 0)
  BY DEF BeforeSchedule
<1> HIDE DEF d
<1>3. CASE Async
  BY <1>1, <1>2, <1>3 DEF Settles
<1>4. CASE ~Async
  <2>1. /\ Committed(d, 0).hash = d.hash
        /\ \A r \in Req : Settles(d, Committed(d, 0), r)
    BY <1>1, CommittedSettles
  <2> QED
    BY <1>1, <1>2, <1>4, <2>1, KeptThenSettled
<1> QED
  BY <1>3, <1>4

LEMMA AfterModelOutputSettles ==
  ASSUME NEW k \in KV, Sourced(k)
  PROVE  /\ AfterModelOutput(k).hash = k.hash
         /\ \A r \in Req : Settles(k, AfterModelOutput(k), r)
<1> DEFINE d == Drained(k)
<1>1. d \in KV /\ d.hash = k.hash /\ Sourced(d) /\ \A r \in Req : Kept(k, d, r)
  BY DrainedType, DrainedKeeps
<1>2. AfterModelOutput(k) = IF Async THEN Committed(d, Depth - 1) ELSE k
  BY DEF AfterModelOutput
<1> HIDE DEF d
<1>3. CASE Async
  <2>1. /\ Committed(d, Depth - 1).hash = d.hash
        /\ \A r \in Req : Settles(d, Committed(d, Depth - 1), r)
    BY <1>1, CommittedSettles
  <2> QED
    BY <1>1, <1>2, <1>3, <2>1, KeptThenSettled
<1>4. CASE ~Async
  BY <1>2, <1>4 DEF Settles, Kept
<1> QED
  BY <1>3, <1>4

----------------------------------------------------------------------------
(* What ScheduleRunning and Admit have in common: r enters the batch with n *)
(* tokens from start on, behind the cached blocks hits and with new ones.   *)

Continues(r, hits, start, n, kind) ==
  /\ status[r] = "running" /\ hits = <<>> /\ kind = "cached"
  /\ start = computed[r] /\ start + n <= Known(r)
Starts(r, hits, start, n, kind) ==
  /\ status[r] \in {"waiting", "preempted"} /\ Idle(kv, r) /\ building.preempted = {}
  /\ kind = IF status[r] = "waiting" THEN "new" ELSE "resumed"
  /\ start = Len(hits) * BlockSize /\ start + n <= tokens[r]
  /\ hits \in Hits(r)
Enters(r, hits, new, start, n, kind, c) ==
  /\ building # None /\ building.sched[r] = None /\ kv.pending[r] = None
  /\ hits \in BlockList /\ new \in BlockList
  /\ start \in Nat /\ n \in Nat /\ c \in Int /\ c <= start + n
  /\ kind \in {"new", "resumed", "cached"}
  /\ Continues(r, hits, start, n, kind) \/ Starts(r, hits, start, n, kind)
  /\ Len(new) = Need(kv, r, Len(hits), start + n)
  /\ Range(new) \subseteq FreeBlocks(kv) \ Range(hits) /\ Ascending(new)
  /\ \A b \in Range(hits) : kv.hash[b] # Unhashed
  /\ kv' = CacheBlocks(Allocated(kv, r, hits, new), r, c)
  /\ Scheduled(r, start, n, kind, hits \o new)
  /\ status' = [status EXCEPT ![r] = "running"]
  /\ UNCHANGED <<tokens, finishedIds, resetIds, queue, ran, owed>>

LEMMA ExtentTypes ==
  ASSUME ExtentInv
  PROVE  /\ TypeOK /\ TransactionInv /\ AccountingInv /\ kv \in KV
         /\ computed \in [Req -> Nat] /\ tokens \in [Req -> Nat] /\ placeholders \in [Req -> Int]
         /\ status \in [Req -> {"waiting", "running", "preempted", "finished"}]
         /\ building # None => building \in Output
<1>1. TypeOK /\ TransactionInv /\ AccountingInv
  BY DEF ExtentInv, Extent, AccountingInv, TransactionInv
<1>2. computed \in [Req -> Int] /\ \A r \in Req : computed[r] >= 0
  BY <1>1 DEF TypeOK, ExtentInv, Extent, TokensKnown
<1>3. tokens \in [Req -> Int] /\ \A r \in Req : tokens[r] >= Prompt[r] /\ Prompt[r] \in Nat
  BY <1>1, RequestAssumption DEF TypeOK, ExtentInv, Extent, TokensKnown
<1>4. computed \in [Req -> Nat] /\ tokens \in [Req -> Nat]
  BY <1>2, <1>3
<1>5. building # None => building \in Output
  BY <1>1 DEF TypeOK
<1> QED
  BY <1>1, <1>4, <1>5 DEF TypeOK

LEMMA InFlightFinite ==
  ASSUME TypeOK, NEW r \in Req
  PROVE  IsFiniteSet(InFlight(r)) /\ Cardinality(InFlight(r)) \in Nat
         /\ InFlight(r) \subseteq 0..Len(queue)
<1>1. queue \in Seq(Output)
  BY DEF TypeOK
<1>2. DOMAIN queue = 1..Len(queue) /\ Len(queue) \in Nat
  BY <1>1, LenProperties
<1>3. InFlight(r) \subseteq 0..Len(queue)
  BY <1>2 DEF InFlight
<1>4. IsFiniteSet(0..Len(queue))
  BY <1>2, FS_Interval
<1> QED
  BY <1>3, <1>4, FS_Subset, FS_CardinalityType

LEMMA NewBlocksAre ==
  ASSUME NEW free \in SUBSET Block, NEW m \in Nat, NEW new \in NewBlocks(free, m)
  PROVE  new \in BlockList /\ Len(new) = m /\ Range(new) \subseteq free /\ Ascending(new)
<1>1. new \in [1..m -> free] /\ Ascending(new)
  BY DEF NewBlocks
<1>2. new \in BlockList
  BY NewBlocksType
<1>3. Len(new) = m
  <2>1. DOMAIN new = 1..m /\ DOMAIN new = 1..Len(new) /\ Len(new) \in Nat
    BY <1>1, <1>2, LenProperties DEF BlockList
  <2> QED
    BY <2>1
<1> QED
  BY <1>1, <1>2, <1>3 DEF Range

LEMMA ScheduleRunningEnters ==
  ASSUME ExtentInv, NEW r \in Req, ScheduleRunning(r)
  PROVE  \E new, n, c :
           /\ Enters(r, <<>>, new, computed[r], n, "cached", c)
           /\ computed[r] < Known(r) => n > 0
<1> DEFINE n == Chunk(r)
           m == computed[r] + n
           c == Least(m, tokens[r])
<1>1. /\ building # None /\ status[r] = "running" /\ building.sched[r] = None
      /\ kv.eligible[r] = 0 /\ building.room > 0 /\ building \in Output
      /\ computed[r] \in Nat /\ Known(r) \in Int /\ computed[r] <= Known(r) /\ tokens[r] \in Nat
  BY ExtentTypes DEF ScheduleRunning, Schedulable, ExtentInv, Extent, TokensKnown, Known
<1>2. kv.pending[r] = None
  BY <1>1, ExtentTypes, SchedulableHasNoPlan
<1>3. n \in Nat /\ m \in Nat /\ m <= Known(r) /\ (computed[r] < Known(r) => n > 0)
  <2>1. building.room \in Int
    BY <1>1 DEF Output
  <2> QED
    BY <1>1, <2>1 DEF Chunk, Least
<1>4. c \in Int /\ c <= m
  BY <1>1, <1>3 DEF Least
<1>5. kv \in KV /\ FreeBlocks(kv) \in SUBSET Block
  BY ExtentTypes DEF FreeBlocks
<1>6. PICK new \in NewBlocks(FreeBlocks(kv), Need(kv, r, 0, m)) :
        /\ kv' = CacheBlocks(Allocated(kv, r, <<>>, new), r, c)
        /\ Scheduled(r, computed[r], n, "cached", new)
  BY DEF ScheduleRunning
<1> HIDE DEF n, c
<1>7. new \in BlockList /\ Len(new) = Need(kv, r, 0, m)
      /\ Range(new) \subseteq FreeBlocks(kv) /\ Ascending(new)
  <2>1. Need(kv, r, 0, m) \in Nat
    BY <1>3, <1>5, NeedType
  <2> QED
    BY <1>5, <1>6, <2>1, NewBlocksAre
<1>8. <<>> \in BlockList /\ Len(<<>>) = 0 /\ Range(<<>>) = {} /\ <<>> \o new = new
  BY <1>7, EmptySeq, ConcatEmptySeq DEF BlockList, Range
<1>9. status' = [status EXCEPT ![r] = "running"]
  BY <1>1, ExtentTypes DEF ScheduleRunning
<1>10. Continues(r, <<>>, computed[r], n, "cached")
  BY <1>1, <1>3 DEF Continues
<1>11. UNCHANGED <<tokens, finishedIds, resetIds, queue, ran, owed>>
  BY DEF ScheduleRunning
<1>12. Enters(r, <<>>, new, computed[r], n, "cached", c)
  BY <1>1, <1>2, <1>3, <1>4, <1>6, <1>7, <1>8, <1>9, <1>10, <1>11 DEF Enters
<1> QED
  BY <1>3, <1>12

LEMMA AdmitEnters ==
  ASSUME ExtentInv, NEW r \in Req, Admit(r)
  PROVE  \E hits, new, n, kind, c :
           Enters(r, hits, new, Len(hits) * BlockSize, n, kind, c) /\ n > 0
<1> DEFINE kind == IF status[r] = "waiting" THEN "new" ELSE "resumed"
<1>1. /\ building # None /\ status[r] \in {"waiting", "preempted"} /\ building.preempted = {}
      /\ building.room > 0 /\ building \in Output /\ tokens[r] \in Nat /\ tokens[r] > 0
  BY ExtentTypes, RequestAssumption DEF Admit, Admissible, ExtentInv, Extent, TokensKnown
<1>2. Idle(kv, r)
  BY <1>1 DEF ExtentInv, Extent, AccountingInv, RestIdle
<1>3. building.sched[r] = None
  BY <1>1, ExtentTypes DEF TransactionInv, BatchRuns
<1>4. PICK hits \in Hits(r) :
        LET start == Len(hits) * BlockSize
            n == FirstChunk(r, start) IN
        \E new \in NewBlocks(Unclaimed(hits), Need(kv, r, Len(hits), start + n)) :
          /\ kv' = CacheBlocks(Allocated(kv, r, hits, new), r, start + n)
          /\ Scheduled(r, start, n, kind, hits \o new)
  BY DEF Admit
<1> DEFINE start == Len(hits) * BlockSize
           n == FirstChunk(r, start)
<1>5. PICK new \in NewBlocks(Unclaimed(hits), Need(kv, r, Len(hits), start + n)) :
        /\ kv' = CacheBlocks(Allocated(kv, r, hits, new), r, start + n)
        /\ Scheduled(r, start, n, kind, hits \o new)
  BY <1>4
<1>6. hits \in BlockList /\ Len(hits) \in Nat
  BY HitsType
<1>7. start \in Nat /\ start < tokens[r]
  <2>1. start \in Nat
    BY <1>6, ConfigAssumption
  <2>2. CASE Len(hits) = 0
    BY <1>1, <2>2, ConfigAssumption
  <2>3. CASE Len(hits) # 0
    <3>1. PICK h \in HitLengths(r) :
            hits \in [1..h -> Block] /\ \A i \in 1..h : hits[i] \in Cached(r, i)
      BY DEF Hits
    <3>2. h \in Nat /\ h = Len(hits)
      <4>1. h \in Nat
        BY <3>1, RequestAssumption DEF HitLengths
      <4>2. DOMAIN hits = 1..h /\ DOMAIN hits = 1..Len(hits)
        BY <1>6, <3>1, LenProperties DEF BlockList
      <4> QED
        BY <1>6, <4>1, <4>2
    <3>3. Len(hits) * BlockSize <= HitLimit(r)
      BY <2>3, <3>1, <3>2 DEF Cached
    <3>4. HitLimit(r) <= tokens[r] - 1 /\ HitLimit(r) \in Int
      <4>1. PrefixCacheHitCap(r) = None \/ PrefixCacheHitCap(r) \in Int
        BY RequestAssumption, ConfigAssumption DEF PrefixCacheHitCap, Most, Least
      <4> QED
        BY <1>1, <4>1 DEF HitLimit, Least
    <3> QED
      BY <1>1, <2>1, <3>3, <3>4
  <2> QED
    BY <2>1, <2>2, <2>3
<1> HIDE DEF start
<1>8. n \in Nat /\ start + n <= tokens[r] /\ start + n \in Int /\ n > 0
  <2>1. building.room \in Int
    BY <1>1 DEF Output
  <2> QED
    BY <1>1, <1>7, <2>1 DEF FirstChunk, Least
<1> HIDE DEF n
<1>9. kv \in KV /\ Unclaimed(hits) \in SUBSET Block
      /\ Unclaimed(hits) = FreeBlocks(kv) \ Range(hits)
  BY ExtentTypes DEF Unclaimed, FreeBlocks
<1>10. new \in BlockList /\ Len(new) = Need(kv, r, Len(hits), start + n)
       /\ Range(new) \subseteq FreeBlocks(kv) \ Range(hits) /\ Ascending(new)
  <2>1. Need(kv, r, Len(hits), start + n) \in Nat
    BY <1>6, <1>8, <1>9, NeedType
  <2>2. new \in BlockList /\ Len(new) = Need(kv, r, Len(hits), start + n)
        /\ Range(new) \subseteq Unclaimed(hits) /\ Ascending(new)
    <3>1. Unclaimed(hits) \in SUBSET Block
      BY <1>9
    <3> QED
      BY <3>1, <2>1, NewBlocksAre
  <2> QED
    BY <1>9, <2>2
<1>11. \A b \in Range(hits) : kv.hash[b] # Unhashed
  BY HitsAreHashed
<1>12. status' = [status EXCEPT ![r] = "running"]
       /\ UNCHANGED <<tokens, finishedIds, resetIds, queue, ran, owed>>
  BY DEF Admit
<1>13. Starts(r, hits, start, n, kind) /\ kind \in {"new", "resumed", "cached"}
  BY <1>1, <1>2, <1>8 DEF Starts, start
<1>14. kv.pending[r] = None
  BY <1>2 DEF Idle
<1> HIDE DEF kind
<1>15. Enters(r, hits, new, start, n, kind, start + n)
  BY <1>1, <1>3, <1>5, <1>6, <1>7, <1>8, <1>10, <1>11, <1>12, <1>13, <1>14 DEF Enters
<1> QED
  BY <1>8, <1>15 DEF start

----------------------------------------------------------------------------
(* The blocks that are not full, when the host extends a table.             *)

LEMMA ThreeParts ==
  ASSUME NEW t \in BlockList, NEW h \in BlockList, NEW s \in BlockList
  PROVE  /\ t \o h \o s \in BlockList
         /\ Len(t) \in Nat /\ Len(h) \in Nat /\ Len(s) \in Nat
         /\ Len(t \o h \o s) = Len(t) + Len(h) + Len(s)
         /\ \A i \in DOMAIN (t \o h \o s) :
              \/ i \in 1..Len(t) /\ (t \o h \o s)[i] = t[i]
              \/ i - Len(t) \in 1..Len(h) /\ (t \o h \o s)[i] = h[i - Len(t)]
              \/ i - Len(t) - Len(h) \in 1..Len(s) /\ (t \o h \o s)[i] = s[i - Len(t) - Len(h)]
         /\ \A i \in 1..Len(t) : i \in DOMAIN (t \o h \o s) /\ (t \o h \o s)[i] = t[i]
<1>1. t \in Seq(Block) /\ h \in Seq(Block) /\ s \in Seq(Block)
  BY DEF BlockList
<1>2. /\ t \o h \in Seq(Block) /\ Len(t \o h) = Len(t) + Len(h)
      /\ \A i \in 1..Len(t) + Len(h) :
           (t \o h)[i] = IF i <= Len(t) THEN t[i] ELSE h[i - Len(t)]
  BY <1>1, ConcatProperties
<1>3. Len(t) \in Nat /\ Len(h) \in Nat /\ Len(s) \in Nat
  BY <1>1, LenProperties
<1> DEFINE u == t \o h
<1>4. /\ u \o s \in Seq(Block) /\ Len(u \o s) = Len(u) + Len(s)
      /\ \A i \in 1..Len(u) + Len(s) :
           (u \o s)[i] = IF i <= Len(u) THEN u[i] ELSE s[i - Len(u)]
  BY <1>1, <1>2, ConcatProperties
<1>5. DOMAIN (u \o s) = 1..Len(u \o s)
  BY <1>4, LenProperties
<1>6. t \o h \o s = u \o s
  OBVIOUS
<1> HIDE DEF u
<1>7. Len(u) = Len(t) + Len(h) /\ \A i \in 1..Len(t) + Len(h) :
           u[i] = IF i <= Len(t) THEN t[i] ELSE h[i - Len(t)]
  BY <1>2 DEF u
<1>8. Len(u \o s) = Len(t) + Len(h) + Len(s)
  BY <1>4, <1>7
<1>9. ASSUME NEW i \in DOMAIN (u \o s)
      PROVE  \/ i \in 1..Len(t) /\ (u \o s)[i] = t[i]
             \/ i - Len(t) \in 1..Len(h) /\ (u \o s)[i] = h[i - Len(t)]
             \/ i - Len(t) - Len(h) \in 1..Len(s) /\ (u \o s)[i] = s[i - Len(t) - Len(h)]
  <2>1. i \in 1..Len(t) + Len(h) + Len(s)
    BY <1>3, <1>5, <1>8
  <2>2. (u \o s)[i] = IF i <= Len(u) THEN u[i] ELSE s[i - Len(u)]
    BY <1>4, <1>7, <2>1
  <2>3. CASE i <= Len(t) + Len(h)
    <3>1. (u \o s)[i] = u[i] /\ u[i] = IF i <= Len(t) THEN t[i] ELSE h[i - Len(t)]
      BY <1>3, <1>7, <2>1, <2>2, <2>3
    <3> QED
      BY <1>3, <2>1, <2>3, <3>1
  <2>4. CASE ~(i <= Len(t) + Len(h))
    <3>1. i - Len(u) = i - Len(t) - Len(h) /\ ~(i <= Len(u))
      BY <1>3, <1>7, <2>1, <2>4
    <3>2. (u \o s)[i] = s[i - Len(t) - Len(h)]
      BY <2>2, <3>1
    <3> QED
      BY <1>3, <2>1, <2>4, <3>2
  <2> QED
    BY <1>3, <2>1, <2>3, <2>4
<1>10. ASSUME NEW i \in 1..Len(t)
       PROVE  i \in DOMAIN (u \o s) /\ (u \o s)[i] = t[i]
  <2>1. i \in 1..Len(u) + Len(s) /\ i <= Len(u) /\ i \in 1..Len(t) + Len(h) /\ i <= Len(t)
    BY <1>3, <1>7
  <2> QED
    BY <1>4, <1>5, <1>7, <2>1
<1>11. u \o s \in BlockList
  BY <1>4 DEF BlockList
<1> QED
  BY <1>3, <1>6, <1>8, <1>9, <1>10, <1>11

LEMMA InTable ==
  ASSUME NEW k \in KV, NEW r \in Req
  PROVE  /\ k.table[r] \in BlockList /\ Len(k.table[r]) \in Nat
         /\ DOMAIN k.table[r] = 1..Len(k.table[r])
         /\ \A i \in DOMAIN k.table[r] :
              k.table[r][i] \in Block /\ k.table[r][i] \in BlocksAt(k, <<r, Table>>)
<1>1. k.table[r] \in Seq(Block)
  BY KVFields DEF BlockList
<1>2. /\ Len(k.table[r]) \in Nat /\ DOMAIN k.table[r] = 1..Len(k.table[r])
      /\ \A i \in 1..Len(k.table[r]) : k.table[r][i] \in Block
  BY <1>1, LenProperties, ElementOfSeq
<1>3. BlocksAt(k, <<r, Table>>) = Range(k.table[r])
  BY WhatIsAt
<1>4. \A i \in DOMAIN k.table[r] : k.table[r][i] \in BlocksAt(k, <<r, Table>>)
  BY <1>3 DEF Range
<1> QED
  BY <1>1, <1>2, <1>4 DEF BlockList

LEMMA FreeInNoTable ==
  ASSUME NEW k \in KV, Counted(k), NEW b \in FreeBlocks(k), NEW q \in Req,
         NEW j \in DOMAIN k.table[q]
  PROVE  k.table[q][j] # b
<1>1. Holders(k, b) = {}
  BY FreeIsNowhere
<1>2. b \notin BlocksAt(k, <<q, Table>>)
  BY <1>1, PlaceTypes DEF Holders
<1> QED
  BY <1>2, InTable

LEMMA PhysicalMonotone ==
  ASSUME NEW k \in KV, NEW r \in Req, NEW a \in Int, NEW b \in Int, a <= b
  PROVE  PhysicalTokens(k, r, a) <= PhysicalTokens(k, r, b)
<1>1. k.active[r] # None => k.active[r].semantic \in Int /\ k.active[r].physical \in Int
  BY PhysicalIs
<1> QED
  BY <1>1 DEF PhysicalTokens, Most

LEMMA AllocatedUnfilled ==
  ASSUME NEW k \in KV, Counted(k), NEW c \in [Req -> Nat], Unfilled(k, c),
         NEW r \in Req, NEW hits \in BlockList, NEW new \in BlockList, NEW m \in Nat,
         \A b \in Range(hits) : k.hash[b] # Unhashed,
         Range(new) \subseteq FreeBlocks(k) \ Range(hits), Ascending(new),
         \/ hits = <<>> /\ c[r] <= m
         \/ k.table[r] = <<>> /\ k.active[r] = None /\ Len(hits) * BlockSize <= m
  PROVE  Unfilled(Allocated(k, r, hits, new), [c EXCEPT ![r] = m])
<1> DEFINE a == Allocated(k, r, hits, new)
           d == [c EXCEPT ![r] = m]
           t == k.table[r]
           u == t \o hits \o new
<1>1. a \in KV
  BY AllocatedType
<1>2. /\ a.table = [k.table EXCEPT ![r] = u]
      /\ a.active = k.active
      /\ a.hash = [b \in Block |-> IF b \in Range(new) THEN Unhashed ELSE k.hash[b]]
  BY DEF Allocated, KV
<1>3. /\ a.table[r] = u /\ \A q \in Req \ {r} : a.table[q] = k.table[q]
      /\ d[r] = m /\ \A q \in Req \ {r} : d[q] = c[q]
  BY <1>2, KVFields
<1> HIDE DEF a, d
<1>4. t \in BlockList /\ Len(t) \in Nat /\ DOMAIN t = 1..Len(t)
  BY InTable
<1>5. /\ Len(hits) \in Nat /\ Len(new) \in Nat
      /\ \A i \in DOMAIN u :
           \/ i \in DOMAIN t /\ u[i] = t[i]
           \/ i - Len(t) \in 1..Len(hits) /\ u[i] = hits[i - Len(t)]
           \/ i - Len(t) - Len(hits) \in 1..Len(new) /\ u[i] = new[i - Len(t) - Len(hits)]
  <2>1. t \in BlockList /\ hits \in BlockList /\ new \in BlockList
    BY <1>4
  <2> HIDE DEF t
  <2>2. /\ Len(hits) \in Nat /\ Len(new) \in Nat
        /\ \A i \in DOMAIN (t \o hits \o new) :
             \/ i \in 1..Len(t) /\ (t \o hits \o new)[i] = t[i]
             \/ i - Len(t) \in 1..Len(hits) /\ (t \o hits \o new)[i] = hits[i - Len(t)]
             \/ i - Len(t) - Len(hits) \in 1..Len(new)
                /\ (t \o hits \o new)[i] = new[i - Len(t) - Len(hits)]
    BY ONLY <2>1, ThreeParts, Zenon
  <2> QED
    BY <1>4, <2>2
<1> HIDE DEF u
<1>6. DOMAIN hits = 1..Len(hits) /\ DOMAIN new = 1..Len(new) /\ DOMAIN u \subseteq Int
  <2>1. hits \in Seq(Block) /\ new \in Seq(Block) /\ u \in Seq(Block)
    BY <1>4, ThreeParts DEF u, BlockList
  <2> QED
    BY <2>1, LenProperties
<1>7. \A i \in 1..Len(hits) : hits[i] \in Range(hits)
  BY <1>6 DEF Range
<1>8. \A i \in 1..Len(new) : new[i] \in Range(new) /\ new[i] \in FreeBlocks(k) /\ new[i] \in Block
  BY <1>6 DEF Range, FreeBlocks
<1>9. \A i, j \in 1..Len(new) : new[i] = new[j] => i = j
  <2> SUFFICES ASSUME NEW i \in 1..Len(new), NEW j \in 1..Len(new), new[i] = new[j], i < j
               PROVE  FALSE
    OBVIOUS
  <2>1. new[i] < new[j] /\ new[i] \in Int
    BY <1>6, <1>8, BlockAssumption DEF Ascending
  <2> QED
    BY <2>1
(* A block that some table of k holds unhashed, at one index of it only.    *)
<1>10. ASSUME NEW q \in Req, NEW i \in DOMAIN k.table[q],
              i * BlockSize > PhysicalTokens(k, q, c[q])
       PROVE  /\ a.hash[k.table[q][i]] = Unhashed
              /\ \A p \in Req : \A j \in DOMAIN a.table[p] :
                   a.table[p][j] = k.table[q][i] => p = q /\ j = i
  <2> DEFINE b == k.table[q][i]
  <2>1. /\ k.hash[b] = Unhashed
        /\ \A p \in Req : \A j \in DOMAIN k.table[p] : k.table[p][j] = b => p = q /\ j = i
    BY <1>10 DEF Unfilled, OwnUnfilled
  <2>2. b \in Block /\ b \notin Range(hits) /\ b \notin FreeBlocks(k)
    BY <2>1, InTable, FreeInNoTable
  <2> HIDE DEF b
  <2>3. a.hash[b] = Unhashed
    BY <1>2, <2>1, <2>2
  <2>4. ASSUME NEW p \in Req, NEW j \in DOMAIN a.table[p], a.table[p][j] = b
        PROVE  p = q /\ j = i
    <3>1. CASE p = r
      <4>1. j \in DOMAIN u /\ u[j] = b
        BY <1>3, <2>4, <3>1
      <4>2. j \in DOMAIN t /\ t[j] = b
        BY <1>5, <1>7, <1>8, <2>2, <4>1
      <4> QED
        BY <2>1, <3>1, <4>2
    <3>2. CASE p # r
      BY <1>3, <2>1, <2>4, <3>2
    <3> QED
      BY <3>1, <3>2
  <2> QED
    BY <2>3, <2>4 DEF b
<1>11. ASSUME NEW q \in Req, NEW i \in DOMAIN a.table[q],
              i * BlockSize > PhysicalTokens(a, q, d[q])
       PROVE  /\ a.hash[a.table[q][i]] = Unhashed
              /\ \A p \in Req : \A j \in DOMAIN a.table[p] :
                   a.table[p][j] = a.table[q][i] => p = q /\ j = i
  <2>1. PhysicalTokens(a, q, d[q]) = PhysicalTokens(k, q, d[q])
    BY <1>2 DEF PhysicalTokens
  <2>2. CASE q # r
    BY <1>3, <1>10, <1>11, <2>1, <2>2
  <2>3. CASE q = r
    <3>1. i \in DOMAIN u /\ a.table[r][i] = u[i] /\ i \in Int
      BY <1>3, <1>6, <1>11, <2>3
    <3>2. CASE i \in DOMAIN t /\ u[i] = t[i]
      <4>1. c[r] <= m
        BY <1>4, <3>2, EmptySeq
      <4>2. /\ PhysicalTokens(k, r, c[r]) <= PhysicalTokens(k, r, m)
            /\ PhysicalTokens(k, r, c[r]) \in Int /\ PhysicalTokens(k, r, m) \in Int
        BY <4>1, PhysicalMonotone, PhysicalIs
      <4>3. i * BlockSize > PhysicalTokens(k, r, c[r])
        <5>1. i * BlockSize > PhysicalTokens(k, r, m)
          BY <1>3, <1>11, <2>1, <2>3
        <5>2. i * BlockSize \in Int
          BY <3>1, ScaledOrder
        <5> QED
          BY <4>2, <5>1, <5>2
      <4> QED
        BY <1>10, <2>3, <3>1, <3>2, <4>3
    <3>3. CASE i - Len(t) \in 1..Len(hits)
      <4>1. k.table[r] = <<>> /\ k.active[r] = None /\ Len(hits) * BlockSize <= m
        BY <3>3, EmptySeq
      <4>2. i <= Len(hits)
        BY <3>1, <3>3, <4>1, EmptySeq
      <4>3. i * BlockSize <= Len(hits) * BlockSize /\ i * BlockSize \in Int
            /\ Len(hits) * BlockSize \in Int
        <5>1. i \in Int /\ Len(hits) \in Int
          BY <1>5, <3>1
        <5> QED
          BY <4>2, <5>1, ScaledOrder
      <4>4. PhysicalTokens(k, r, m) = m
        BY <4>1 DEF PhysicalTokens
      <4> QED
        BY <1>3, <1>11, <2>1, <2>3, <4>1, <4>3, <4>4
    <3>4. CASE i - Len(t) - Len(hits) \in 1..Len(new) /\ u[i] = new[i - Len(t) - Len(hits)]
      <4> DEFINE l == i - Len(t) - Len(hits)
                 b == new[l]
      <4>1. b \in Range(new) /\ b \in FreeBlocks(k) /\ b \in Block /\ b \notin Range(hits)
            /\ l \in 1..Len(new) /\ u[i] = b
        BY <1>8, <3>4
      <4>2. a.hash[b] = Unhashed
        BY <1>2, <4>1
      <4>3. ASSUME NEW p \in Req, NEW j \in DOMAIN a.table[p], a.table[p][j] = b
            PROVE  p = r /\ j = i
        <5>1. p = r
          BY <1>3, <4>1, <4>3, FreeInNoTable
        <5>2. j \in DOMAIN u /\ u[j] = b
          BY <1>3, <4>3, <5>1
        <5>3. j - Len(t) - Len(hits) \in 1..Len(new) /\ b = new[j - Len(t) - Len(hits)]
          BY <1>5, <1>7, <4>1, <5>2, FreeInNoTable
        <5>4. j - Len(t) - Len(hits) = l
          BY <1>9, <4>1, <5>3
        <5>5. j \in Int /\ i \in Int /\ Len(t) \in Int /\ Len(hits) \in Int
          BY <1>4, <1>5, <1>6, <3>1, <5>2
        <5>6. j - Len(t) - Len(hits) = i - Len(t) - Len(hits)
          BY <5>4
        <5>7. j = i
          BY <5>5, <5>6
        <5> QED
          BY <5>1, <5>7
      <4> HIDE DEF b
      <4> QED
        BY <2>3, <3>1, <4>1, <4>2, <4>3
    <3> QED
      BY <1>5, <3>1, <3>2, <3>3, <3>4
  <2> QED
    BY <2>2, <2>3
<1>12. Unfilled(a, d)
  BY <1>11 DEF Unfilled, OwnUnfilled
<1> QED
  BY <1>12 DEF a, d

(* Hashing full blocks.                                                     *)
LEMMA CachedUnfilled ==
  ASSUME NEW k \in KV, NEW d \in [Req -> Nat], Unfilled(k, d), NEW r \in Req,
         NEW n \in Int, n <= d[r]
  PROVE  Unfilled(CacheBlocks(k, r, n), d)
<1> DEFINE j == CacheBlocks(k, r, n)
<1>1. j.table = k.table /\ j.active = k.active
      /\ \A b \in Block : j.hash[b] # k.hash[b] =>
           k.active[r] = None /\ \E i \in Filled(k, r, n) : k.table[r][i] = b
  BY DEF CacheBlocks, KV
<1> HIDE DEF j
<1>2. ASSUME NEW q \in Req, NEW i \in DOMAIN j.table[q],
             i * BlockSize > PhysicalTokens(j, q, d[q])
      PROVE  /\ j.hash[j.table[q][i]] = Unhashed
             /\ \A p \in Req : \A l \in DOMAIN j.table[p] :
                  j.table[p][l] = j.table[q][i] => p = q /\ l = i
  <2> DEFINE b == k.table[q][i]
  <2>1. PhysicalTokens(j, q, d[q]) = PhysicalTokens(k, q, d[q])
    BY <1>1 DEF PhysicalTokens
  <2>2. /\ k.hash[b] = Unhashed /\ b \in Block
        /\ \A p \in Req : \A l \in DOMAIN k.table[p] : k.table[p][l] = b => p = q /\ l = i
    BY <1>1, <1>2, <2>1, InTable DEF Unfilled, OwnUnfilled
  <2>3. j.hash[b] = k.hash[b]
    <3> SUFFICES ASSUME j.hash[b] # k.hash[b]
                 PROVE  FALSE
      OBVIOUS
    <3>1. k.active[r] = None /\ \E l \in Filled(k, r, n) : k.table[r][l] = b
      BY <1>1, <2>2
    <3>2. PICK l \in DOMAIN k.table[r] : l * BlockSize <= n /\ k.table[r][l] = b
      BY <3>1 DEF Filled
    <3>3. q = r /\ l = i
      BY <2>2, <3>2
    <3>4. PhysicalTokens(k, r, d[r]) = d[r]
      BY <3>1, PhysicalIs
    <3>5. i * BlockSize \in Int
      <4>1. i \in DOMAIN k.table[q] /\ DOMAIN k.table[q] = 1..Len(k.table[q])
        <5>1. i \in DOMAIN k.table[q]
          BY <1>1, <1>2
        <5> QED
          BY <5>1, InTable
      <4>2. i \in Int
        BY <4>1
      <4> QED
        BY <4>2, ScaledOrder
    <3> QED
      BY <1>2, <2>1, <3>2, <3>3, <3>4, <3>5
  <2> HIDE DEF b
  <2> QED
    BY <1>1, <2>2, <2>3 DEF b
<1>3. Unfilled(j, d)
  BY <1>2 DEF Unfilled, OwnUnfilled
<1> QED
  BY <1>3 DEF j

(* The state after r has entered the batch.                                 *)
Entered(r, hits, new, start, n, kind) ==
  /\ kv'.table = [kv.table EXCEPT ![r] = @ \o hits \o new]
  /\ kv'.active = kv.active /\ kv'.pending = kv.pending
  /\ computed' = [computed EXCEPT ![r] = start + n]
  /\ start + n \in Nat /\ computed' \in [Req -> Nat]
  /\ building \in Output /\ building' # None
  /\ building'.sched = [building.sched EXCEPT ![r] =
       [start |-> start, n |-> n, kind |-> kind, blocks |-> hits \o new]]
  /\ building'.plans = building.plans /\ building'.preempted = building.preempted
  /\ building'.finished = building.finished
  /\ building'.sampled =
       (IF start + n = Known(r) THEN building.sampled \cup {r} ELSE building.sampled)
  /\ placeholders' = [placeholders EXCEPT ![r] = IF start + n = Known(r) THEN @ + 1 ELSE @]

LEMMA EnteredIs ==
  ASSUME ExtentInv, NEW r \in Req, NEW hits, NEW new, NEW start, NEW n, NEW kind, NEW c,
         Enters(r, hits, new, start, n, kind, c)
  PROVE  Entered(r, hits, new, start, n, kind)
<1> DEFINE item == [start |-> start, n |-> n, kind |-> kind, blocks |-> hits \o new]
<1>1. /\ start \in Nat /\ n \in Nat /\ hits \in BlockList /\ new \in BlockList
      /\ kind \in {"new", "resumed", "cached"}
      /\ kv' = CacheBlocks(Allocated(kv, r, hits, new), r, c)
      /\ Scheduled(r, start, n, kind, hits \o new) /\ building # None
  BY DEF Enters
<1>2. kv \in KV /\ building \in Output /\ computed \in [Req -> Nat]
  BY <1>1, ExtentTypes
<1>3. /\ kv'.table = [kv.table EXCEPT ![r] = @ \o hits \o new]
      /\ kv'.active = kv.active /\ kv'.pending = kv.pending
  BY <1>1, <1>2 DEF CacheBlocks, Allocated, KV
<1>4. /\ computed' = [computed EXCEPT ![r] = start + n] /\ start + n \in Nat
      /\ placeholders' = [placeholders EXCEPT ![r] =
              IF start + n = Known(r) THEN @ + 1 ELSE @]
  BY <1>1 DEF Scheduled
<1>5. building' = [building EXCEPT
       !.sched[r] = item,
       !.sampled = IF start + n = Known(r) THEN @ \cup {r} ELSE @,
       !.room = @ - n]
  BY <1>1 DEF Scheduled
<1> HIDE DEF item
<1>6. /\ building'.sched = [building.sched EXCEPT ![r] = item]
      /\ building'.plans = building.plans /\ building'.preempted = building.preempted
      /\ building'.finished = building.finished
      /\ building'.sampled =
           (IF start + n = Known(r) THEN building.sampled \cup {r} ELSE building.sampled)
  BY <1>2, <1>5 DEF Output
<1>7. building' # None
  <2>1. TypeOK /\ hits \o new \in BlockList
    BY <1>1, ExtentTypes, ConcatProperties DEF BlockList
  <2>2. building' \in Output
    BY <1>1, <2>1, ScheduledType
  <2> QED
    BY <2>2, NoneAssumption
<1>8. computed' \in [Req -> Nat]
  BY <1>2, <1>4
<1> QED
  BY <1>2, <1>3, <1>4, <1>6, <1>7, <1>8 DEF item, Entered

LEMMA EnteredData ==
  ASSUME ExtentInv, NEW r \in Req, NEW hits, NEW new, NEW start, NEW n, NEW kind, NEW c,
         Enters(r, hits, new, start, n, kind, c)
  PROVE  Fitted' /\ Unfilled(kv, computed)'
<1> DEFINE m == start + n
           t == kv.table[r]
           a == Allocated(kv, r, hits, new)
           phys == PhysicalTokens(kv, r, m)
<1>1. /\ start \in Nat /\ n \in Nat /\ hits \in BlockList /\ new \in BlockList
      /\ c \in Int /\ c <= m /\ kv.pending[r] = None
      /\ Range(new) \subseteq FreeBlocks(kv) \ Range(hits) /\ Ascending(new)
      /\ \A b \in Range(hits) : kv.hash[b] # Unhashed
      /\ kv' = CacheBlocks(a, r, c) /\ Len(new) = Need(kv, r, Len(hits), m)
      /\ status' = [status EXCEPT ![r] = "running"]
  BY DEF Enters
<1>2. kv \in KV /\ computed \in [Req -> Nat] /\ Accounted(kv) /\ Unfilled(kv, computed) /\ Fitted
      /\ status \in [Req -> {"waiting", "running", "preempted", "finished"}]
  BY ExtentTypes DEF ExtentInv, Extent, AccountingInv
<1>3. /\ kv'.table = [kv.table EXCEPT ![r] = @ \o hits \o new]
      /\ kv'.active = kv.active /\ kv'.pending = kv.pending
      /\ computed' = [computed EXCEPT ![r] = m] /\ m \in Nat /\ computed' \in [Req -> Nat]
  <2>1. Entered(r, hits, new, start, n, kind)
    BY EnteredIs
  <2> QED
    BY <2>1 DEF Entered
<1>4. \/ hits = <<>> /\ computed[r] <= m /\ status[r] = "running" /\ start = computed[r]
      \/ kv.table[r] = <<>> /\ kv.active[r] = None /\ Len(hits) * BlockSize <= m
  <2>1. CASE Continues(r, hits, start, n, kind)
    BY <1>1, <1>2, <2>1 DEF Continues
  <2>2. CASE Starts(r, hits, start, n, kind)
    BY <1>1, <2>2 DEF Starts, Idle
  <2> QED
    BY <2>1, <2>2 DEF Enters
<1> HIDE DEF m
<1>5. Unfilled(kv', computed')
  <2>1. a \in KV
    BY <1>1, <1>2, AllocatedType
  <2>2. Unfilled(a, computed')
    <3>1. Counted(kv)
      BY <1>2 DEF Accounted
    <3>2. Unfilled(a, [computed EXCEPT ![r] = m])
      BY <1>1, <1>2, <1>3, <1>4, <3>1, AllocatedUnfilled
    <3> QED
      BY <1>3, <3>2
  <2>3. c <= computed'[r]
    BY <1>1, <1>2, <1>3
  <2> HIDE DEF a
  <2>4. Unfilled(CacheBlocks(a, r, c), computed')
    BY <1>1, <1>3, <2>1, <2>2, <2>3, CachedUnfilled
  <2> QED
    BY <1>1, <2>4
<1>6. phys \in Int /\ \A q \in Req : \A l \in Int : PhysicalTokens(kv', q, l) = PhysicalTokens(kv, q, l)
  BY <1>2, <1>3, PhysicalIs DEF PhysicalTokens
<1>7. phys <= Len(kv'.table[r]) * BlockSize
  <2>1. t \in BlockList /\ Len(t) \in Nat
    BY <1>2, InTable
  <2>2. kv'.table[r] = t \o hits \o new
    BY <1>2, <1>3, KVFields
  <2> HIDE DEF t
  <2>3. Len(kv'.table[r]) = Len(t) + Len(hits) + Len(new) /\ Len(hits) \in Nat /\ Len(new) \in Nat
    <3>1. hits \in BlockList /\ new \in BlockList
      BY <1>1
    <3>2. Len(t \o hits \o new) = Len(t) + Len(hits) + Len(new)
          /\ Len(hits) \in Nat /\ Len(new) \in Nat
      BY ONLY <2>1, <3>1, ThreeParts, Zenon
    <3> QED
      BY <2>2, <3>2
  <2>4. Len(new) = Most(0, BlocksFor(phys) - Len(t) - Len(hits))
    BY <1>1 DEF Need, t
  <2> HIDE DEF phys
  <2>5. BlocksFor(phys) \in Int /\ phys <= BlocksFor(phys) * BlockSize
    BY <1>6, BlocksForCovers
  <2>6. BlocksFor(phys) <= Len(t) + Len(hits) + Len(new)
    BY <2>1, <2>3, <2>4, <2>5 DEF Most
  <2>7. BlocksFor(phys) * BlockSize <= (Len(t) + Len(hits) + Len(new)) * BlockSize
        /\ BlocksFor(phys) * BlockSize \in Int
        /\ (Len(t) + Len(hits) + Len(new)) * BlockSize \in Int
    <3> DEFINE l == Len(t) + Len(hits) + Len(new)
    <3>1. l \in Int /\ BlocksFor(phys) \in Int /\ BlocksFor(phys) <= l
      BY <2>1, <2>3, <2>5, <2>6
    <3> HIDE DEF l
    <3>2. BlocksFor(phys) * BlockSize <= l * BlockSize
          /\ BlocksFor(phys) * BlockSize \in Int /\ l * BlockSize \in Int
      BY <3>1, ScaledOrder
    <3> QED
      BY <3>2 DEF l
  <2> QED
    BY <1>6, <2>3, <2>5, <2>7
<1>8. ASSUME NEW q \in Req, status'[q] = "running"
      PROVE  /\ PhysicalTokens(kv', q, computed'[q]) <= Len(kv'.table[q]) * BlockSize
             /\ kv'.active[q] # None =>
                  kv'.active[q].physical = Budget /\ kv'.active[q].semantic <= computed'[q]
             /\ kv'.pending[q] # None => Len(kv'.pending[q].plan.dest) = Keep
  <2>1. CASE q = r
    <3>1. computed'[r] = m
      BY <1>2, <1>3
    <3>2. PhysicalTokens(kv', r, m) = phys
      BY <1>3, <1>6
    <3>3. kv.active[r] # None => kv.active[r].physical = Budget /\ kv.active[r].semantic <= m
      <4> SUFFICES ASSUME kv.active[r] # None
                   PROVE  kv.active[r].physical = Budget /\ kv.active[r].semantic <= m
        OBVIOUS
      <4>1. status[r] = "running" /\ computed[r] <= m
        BY <1>4
      <4>2. kv.active[r].physical = Budget /\ kv.active[r].semantic <= computed[r]
        BY <1>2, <4>1 DEF Fitted
      <4>3. kv.active[r].semantic \in Int
        BY <1>2, KVFields DEF Active
      <4> QED
        BY <1>2, <1>3, <4>1, <4>2, <4>3
    <3> QED
      BY <1>1, <1>3, <1>7, <2>1, <3>1, <3>2, <3>3
  <2>2. CASE q # r
    <3>1. computed'[q] = computed[q] /\ kv'.table[q] = kv.table[q] /\ status[q] = "running"
          /\ computed[q] \in Int
      BY <1>1, <1>2, <1>3, <1>8, <2>2, KVFields
    <3>2. PhysicalTokens(kv', q, computed[q]) = PhysicalTokens(kv, q, computed[q])
      BY <1>6, <3>1
    <3> QED
      BY <1>2, <1>3, <3>1, <3>2 DEF Fitted
  <2> QED
    BY <2>1, <2>2
<1>9. Fitted'
  BY <1>8 DEF Fitted
<1> QED
  BY <1>5, <1>9

LEMMA EnteredControl ==
  ASSUME ExtentInv, NEW r \in Req, NEW hits, NEW new, NEW start, NEW n, NEW kind, NEW c,
         Enters(r, hits, new, start, n, kind, c)
  PROVE  Announced' /\ PlaceholdersExact' /\ TokensKnown' /\ BatchAgrees'
<1> DEFINE m == start + n
           item == [start |-> start, n |-> n, kind |-> kind, blocks |-> hits \o new]
           samples == m = Known(r)
<1>1. Entered(r, hits, new, start, n, kind)
  BY EnteredIs
<1>2. /\ kv'.table = [kv.table EXCEPT ![r] = @ \o hits \o new]
      /\ kv'.active = kv.active /\ kv'.pending = kv.pending
      /\ computed' = [computed EXCEPT ![r] = m] /\ m \in Nat
      /\ building \in Output /\ building' # None
      /\ building'.sched = [building.sched EXCEPT ![r] = item]
      /\ building'.plans = building.plans /\ building'.preempted = building.preempted
      /\ building'.finished = building.finished
      /\ building'.sampled = (IF samples THEN building.sampled \cup {r} ELSE building.sampled)
      /\ placeholders' = [placeholders EXCEPT ![r] = IF samples THEN @ + 1 ELSE @]
  BY <1>1 DEF Entered
<1>3. /\ start \in Nat /\ n \in Nat /\ hits \in BlockList /\ new \in BlockList
      /\ building # None /\ building.sched[r] = None
      /\ status' = [status EXCEPT ![r] = "running"]
      /\ tokens' = tokens /\ finishedIds' = finishedIds /\ resetIds' = resetIds /\ queue' = queue
  BY DEF Enters
<1>4. /\ kv \in KV /\ computed \in [Req -> Nat] /\ tokens \in [Req -> Nat]
      /\ placeholders \in [Req -> Int] /\ TypeOK /\ Fitted /\ RestIdle
      /\ status \in [Req -> {"waiting", "running", "preempted", "finished"}]
      /\ building.sched \in [Req -> Item \cup {None}]
  BY <1>2, ExtentTypes DEF ExtentInv, Extent, AccountingInv, Output
<1>5. \/ status[r] = "running" /\ start = computed[r] /\ m <= Known(r) /\ kind = "cached"
      \/ /\ status[r] \in {"waiting", "preempted"} /\ building.preempted = {} /\ m <= tokens[r]
         /\ kv.active[r] = None /\ kv.table[r] = <<>>
         /\ kind = IF status[r] = "waiting" THEN "new" ELSE "resumed"
  BY DEF Enters, Continues, Starts, Idle
<1>6. item \in Item /\ item # None
  <2>1. hits \o new \in BlockList
    BY <1>3, ConcatProperties DEF BlockList
  <2>2. start \in Int /\ n \in Int /\ kind \in {"new", "resumed", "cached"}
    BY <1>3, <1>5
  <2>3. item \in Item
    BY <2>1, <2>2 DEF Item
  <2> QED
    BY <2>3, NoneAssumption
<1>7. building'.sched[r] = item /\ \A q \in Req \ {r} : building'.sched[q] = building.sched[q]
  BY <1>2, <1>4
<1>8. computed'[r] = m /\ \A q \in Req \ {r} : computed'[q] = computed[q]
  BY <1>2, <1>4
<1>9. status'[r] = "running" /\ \A q \in Req \ {r} : status'[q] = status[q]
  BY <1>3, <1>4
<1>10. /\ \A q \in Req \ {r} : placeholders'[q] = placeholders[q]
       /\ placeholders'[r] = IF samples THEN placeholders[r] + 1 ELSE placeholders[r]
  BY <1>2, <1>4
<1>11. \A q \in Req \ {r} : kv'.table[q] = kv.table[q]
  BY <1>2, <1>4, KVFields
<1>12. item.kind = kind /\ item.start = start /\ item.n = n /\ item.blocks = hits \o new
  OBVIOUS
<1> HIDE DEF m, item, samples
<1>13. Announced'
  <2>1. ASSUME NEW q \in Req
        PROVE  /\ q \in finishedIds => status'[q] = "finished"
               /\ q \in resetIds => status'[q] # "waiting"
               /\ q \in resetIds /\ status'[q] = "running" =>
                    building' # None /\ building'.sched[q] # None
                    /\ building'.sched[q].kind = "resumed"
    <3>1. CASE q # r
      BY <1>2, <1>3, <1>7, <1>9, <3>1 DEF ExtentInv, Extent, Announced
    <3>2. CASE q = r
      BY <1>2, <1>3, <1>5, <1>6, <1>7, <1>9, <1>12, <3>2 DEF ExtentInv, Extent, Announced
    <3> QED
      BY <3>1, <3>2
  <2> QED
    BY <1>3, <2>1 DEF Announced
<1>14. PlaceholdersExact'
  <2>1. 0 \notin DOMAIN queue
    <3>1. DOMAIN queue = 1..Len(queue)
      BY <1>4, LenProperties DEF TypeOK
    <3> QED
      BY <3>1
  <2>2. r \notin building.sampled
    BY <1>3 DEF ExtentInv, Extent, PlaceholdersExact
  <2>3. InFlight(r)' = IF samples THEN InFlight(r) \cup {0} ELSE InFlight(r)
    BY <1>2, <1>3 DEF InFlight
  <2>4. 0 \notin InFlight(r)
    BY <2>1, <2>2 DEF InFlight
  <2>5. IsFiniteSet(InFlight(r)) /\ Cardinality(InFlight(r)) \in Nat
    BY <1>4, InFlightFinite
  <2>6. Cardinality(InFlight(r) \cup {0}) = Cardinality(InFlight(r)) + 1
    BY <2>4, <2>5, FS_AddElement
  <2>7. placeholders[r] = Cardinality(InFlight(r))
    BY <1>5 DEF ExtentInv, Extent, PlaceholdersExact, Live
  <2>8. placeholders'[r] = Cardinality(InFlight(r))'
    BY <1>10, <2>3, <2>6, <2>7
  <2>9. ASSUME NEW q \in Req, q # r
        PROVE  /\ Live(q)' => placeholders'[q] = Cardinality(InFlight(q))'
               /\ building'.sched[q] = None => q \notin building'.sampled
    <3>1. q \in building'.sampled <=> q \in building.sampled
      BY <1>2, <2>9
    <3>2. InFlight(q)' = InFlight(q)
      BY <1>2, <1>3, <3>1 DEF InFlight
    <3>3. Live(q)' <=> Live(q)
      BY <1>9, <2>9 DEF Live
    <3>4. building'.sched[q] = building.sched[q] /\ placeholders'[q] = placeholders[q]
      BY <1>7, <1>10, <2>9
    <3> QED
      BY <1>3, <3>1, <3>2, <3>3, <3>4 DEF ExtentInv, Extent, PlaceholdersExact
  <2> QED
    BY <1>2, <1>6, <1>7, <2>8, <2>9 DEF PlaceholdersExact
<1>15. TokensKnown'
  <2>1. placeholders[r] \in Nat
    <3>1. placeholders[r] = Cardinality(InFlight(r))
      BY <1>5 DEF ExtentInv, Extent, PlaceholdersExact, Live
    <3> QED
      BY <1>4, <3>1, InFlightFinite
  <2>2. m <= Known(r)
    BY <1>2, <1>4, <1>5, <2>1 DEF Known
  <2>3. m <= Known(r)'
    BY <1>2, <1>3, <1>4, <1>10, <2>1, <2>2 DEF Known
  <2>4. ASSUME NEW q \in Req
        PROVE  /\ computed'[q] >= 0 /\ tokens'[q] >= Prompt[q]
               /\ status'[q] = "running" => computed'[q] <= Known(q)'
    <3>1. CASE q = r
      BY <1>2, <1>3, <1>8, <2>3, <3>1 DEF ExtentInv, Extent, TokensKnown
    <3>2. CASE q # r
      BY <1>3, <1>8, <1>9, <1>10, <3>2 DEF ExtentInv, Extent, TokensKnown, Known
    <3> QED
      BY <3>1, <3>2
  <2> QED
    BY <2>4 DEF TokensKnown
<1>16. BatchAgrees'
  <2>1. EntryAgrees(r, building.sched[r])'
    <3>1. start + n = computed'[r] /\ start >= 0 /\ n >= 0
      BY <1>3, <1>8 DEF m
    <3>2. kv'.active[r] # None => kv'.active[r].semantic <= start
      BY <1>2, <1>4, <1>5 DEF Fitted
    <3>3. kind # "cached" => kv'.active[r] = None /\ hits \o new = kv'.table[r]
      <4> SUFFICES ASSUME kind # "cached"
                   PROVE  kv'.active[r] = None /\ hits \o new = kv'.table[r]
        OBVIOUS
      <4>1. kv.active[r] = None /\ kv.table[r] = <<>>
        BY <1>5
      <4>2. kv'.table[r] = (<<>> \o hits) \o new
        BY <1>2, <1>4, <4>1, KVFields
      <4>3. <<>> \o hits = hits
        BY <1>3, ConcatEmptySeq DEF BlockList
      <4> QED
        BY <1>2, <4>1, <4>2, <4>3
    <3> QED
      BY <1>7, <1>12, <3>1, <3>2, <3>3 DEF EntryAgrees
  <2>2. ASSUME NEW q \in Req
        PROVE  /\ building'.plans[q] = None
               /\ building'.sched[q] # None => EntryAgrees(q, building.sched[q])'
               /\ q \in building'.preempted => status'[q] # "running"
    <3>1. CASE q = r
      BY <1>2, <1>3, <1>5, <2>1, <3>1 DEF ExtentInv, Extent, BatchAgrees
    <3>2. CASE q # r
      <4>1. building'.sched[q] # None => EntryAgrees(q, building.sched[q])'
        BY <1>2, <1>3, <1>7, <1>8, <1>11, <3>2 DEF ExtentInv, Extent, BatchAgrees, EntryAgrees
      <4> QED
        BY <1>2, <1>3, <1>9, <3>2, <4>1 DEF ExtentInv, Extent, BatchAgrees
    <3> QED
      BY <3>1, <3>2
  <2> QED
    BY <1>2, <1>3, <2>2 DEF ExtentInv, Extent, BatchAgrees
<1> QED
  BY <1>13, <1>14, <1>15, <1>16

----------------------------------------------------------------------------
(* What every other action does to a request that stays under way: nothing, *)
(* or the commit of its pending transaction.                                *)

Steady(r) ==
  /\ kv'.table[r] = kv.table[r] /\ kv'.active[r] = kv.active[r]
  /\ kv'.pending[r] # None => Len(kv'.pending[r].plan.dest) = Keep
StaysUnderWay(r) ==
  /\ status[r] = "running" /\ computed'[r] = computed[r]
  /\ Steady(r) \/ CommittedFrom(kv, kv', r)

LEMMA CommittedLength ==
  ASSUME ExtentInv, NEW r \in Req, status[r] = "running", CommittedFrom(kv, kv', r)
  PROVE  /\ kv.pending[r] \in Pending /\ computed[r] = kv.pending[r].plan.semantic
         /\ PhysicalTokens(kv', r, computed[r]) = Budget
         /\ Len(kv'.table[r]) * BlockSize = Budget /\ Len(kv'.table[r]) = Keep
         /\ kv'.pending[r] = None /\ kv'.table[r] = kv.pending[r].plan.dest
         /\ kv'.active[r].physical = Budget /\ kv'.active[r].semantic = computed[r]
<1>1. kv.pending[r] # None /\ kv.pending[r] \in Pending
  BY ExtentTypes, KVFields DEF CommittedFrom
<1>2. computed[r] = kv.pending[r].plan.semantic /\ computed[r] \in Int
  BY <1>1, ExtentTypes DEF TransactionInv, PendingSourceStable
<1>3. kv'.active[r] = [semantic |-> computed[r], physical |-> Budget]
      /\ kv'.table[r] = kv.pending[r].plan.dest /\ kv'.pending[r] = None
  BY <1>2 DEF CommittedFrom
<1>4. kv'.active[r] # None
  <2>1. kv'.active[r] \in Active
    BY <1>2, <1>3, ConfigAssumption DEF Active
  <2> QED
    BY <2>1, NoneAssumption
<1>5. PhysicalTokens(kv', r, computed[r]) = Budget
  <2>1. kv'.active[r].semantic = computed[r] /\ kv'.active[r].physical = Budget
    BY <1>3
  <2>2. Budget \in Nat
    BY ConfigAssumption
  <2>3. computed[r] - (computed[r] - Budget) = Budget
    BY <1>2, <2>2
  <2> QED
    BY <1>4, <2>1, <2>2, <2>3 DEF PhysicalTokens, Most
<1>6. Len(kv.pending[r].plan.dest) = Keep
  BY <1>1 DEF ExtentInv, Extent, Fitted
<1> QED
  BY <1>1, <1>2, <1>3, <1>5, <1>6, KeepIsBudget

LEMMA SettledData ==
  ASSUME ExtentInv, RestIdle', TypeOK',
         \A b \in Block : kv'.hash[b] \in {kv.hash[b], Unhashed},
         \A r \in Req : status'[r] = "running" => StaysUnderWay(r)
  PROVE  Fitted' /\ Unfilled(kv, computed)'
<1>1. /\ kv \in KV /\ kv' \in KV /\ Exclusive(kv) /\ Fitted /\ Unfilled(kv, computed)
      /\ computed \in [Req -> Nat]
  BY ExtentTypes DEF ExtentInv, Extent, AccountingInv, Accounted, TypeOK
<1>2. ASSUME NEW r \in Req, Steady(r), NEW n \in Int
      PROVE  PhysicalTokens(kv', r, n) = PhysicalTokens(kv, r, n)
  BY <1>2 DEF Steady, PhysicalTokens
<1>3. ASSUME NEW r \in Req, NEW i \in DOMAIN kv'.table[r]
      PROVE  StaysUnderWay(r)
  <2>1. DOMAIN <<>> = {}
    OBVIOUS
  <2>2. status'[r] = "running"
    BY <1>3, <2>1 DEF RestIdle, Idle
  <2> QED
    BY <2>2
<1>4. ASSUME NEW r \in Req, status'[r] = "running"
      PROVE  /\ PhysicalTokens(kv', r, computed'[r]) <= Len(kv'.table[r]) * BlockSize
             /\ kv'.active[r] # None =>
                  kv'.active[r].physical = Budget /\ kv'.active[r].semantic <= computed'[r]
             /\ kv'.pending[r] # None => Len(kv'.pending[r].plan.dest) = Keep
  <2>1. status[r] = "running" /\ computed'[r] = computed[r] /\ computed[r] \in Int
        /\ (Steady(r) \/ CommittedFrom(kv, kv', r))
    BY <1>1, <1>4 DEF StaysUnderWay
  <2>2. CASE Steady(r)
    <3>1. PhysicalTokens(kv', r, computed[r]) = PhysicalTokens(kv, r, computed[r])
      BY <1>2, <2>1, <2>2
    <3> QED
      BY <1>1, <2>1, <2>2, <3>1 DEF Fitted, Steady
  <2>3. CASE CommittedFrom(kv, kv', r)
    <3>1. Budget \in Int
      BY ConfigAssumption
    <3> QED
      BY <2>1, <2>3, <3>1, CommittedLength
  <2> QED
    BY <2>1, <2>2, <2>3
<1>5. ASSUME NEW r \in Req, NEW i \in DOMAIN kv'.table[r],
             i * BlockSize > PhysicalTokens(kv', r, computed'[r])
      PROVE  /\ kv'.hash[kv'.table[r][i]] = Unhashed
             /\ \A q \in Req : \A j \in DOMAIN kv'.table[q] :
                  kv'.table[q][j] = kv'.table[r][i] => q = r /\ j = i
  <2>1. status[r] = "running" /\ computed'[r] = computed[r] /\ computed[r] \in Int
        /\ (Steady(r) \/ CommittedFrom(kv, kv', r))
    BY <1>1, <1>3 DEF StaysUnderWay
  <2>2. ~CommittedFrom(kv, kv', r)
    <3> SUFFICES ASSUME CommittedFrom(kv, kv', r)
                 PROVE  FALSE
      OBVIOUS
    <3>1. /\ PhysicalTokens(kv', r, computed[r]) = Budget
          /\ Len(kv'.table[r]) * BlockSize = Budget
      BY <2>1, CommittedLength
    <3>2. i \in Int /\ i <= Len(kv'.table[r]) /\ Len(kv'.table[r]) \in Int
      <4>1. DOMAIN kv'.table[r] = 1..Len(kv'.table[r]) /\ Len(kv'.table[r]) \in Nat
        BY <1>1, InTable
      <4> QED
        BY <4>1
    <3>3. i * BlockSize <= Budget /\ i * BlockSize \in Int
      BY <3>1, <3>2, ScaledOrder
    <3>4. Budget \in Int
      BY ConfigAssumption
    <3> QED
      BY <1>5, <2>1, <3>1, <3>3, <3>4
  <2>3. Steady(r)
    BY <2>1, <2>2
  <2> DEFINE b == kv.table[r][i]
  <2>4. kv'.table[r] = kv.table[r] /\ i \in DOMAIN kv.table[r]
    BY <2>3 DEF Steady
  <2>5. i * BlockSize > PhysicalTokens(kv, r, computed[r])
    BY <1>2, <1>5, <2>1, <2>3
  <2>6. /\ kv.hash[b] = Unhashed
        /\ \A q \in Req : \A j \in DOMAIN kv.table[q] : kv.table[q][j] = b => q = r /\ j = i
    BY <1>1, <2>4, <2>5 DEF Unfilled, OwnUnfilled
  <2>7. b \in Block /\ b \in BlocksAt(kv, <<r, Table>>)
    BY <1>1, <2>4, InTable
  <2> HIDE DEF b
  <2>8. kv'.hash[b] = Unhashed
    BY <2>6, <2>7
  <2>9. ASSUME NEW q \in Req, NEW j \in DOMAIN kv'.table[q], kv'.table[q][j] = b
        PROVE  q = r /\ j = i
    <3>1. StaysUnderWay(q)
      BY <1>3
    <3>2. CASE Steady(q)
      BY <2>6, <2>9, <3>2 DEF Steady
    <3>3. CASE CommittedFrom(kv, kv', q)
      <4>1. kv.pending[q] # None /\ b \in Range(kv.pending[q].plan.dest)
        BY <2>9, <3>3 DEF CommittedFrom, Range
      <4>2. b \in BlocksAt(kv, <<q, Reserved>>)
        BY <4>1, WhatIsAt
      <4>3. <<q, Reserved>> \in Secret(kv) /\ <<r, Table>> \in Places(Req)
        BY PlaceTypes DEF Secret
      <4>4. <<r, Table>> = <<q, Reserved>>
        BY <1>1, <2>7, <4>2, <4>3 DEF Exclusive
      <4> QED
        BY <4>4 DEF Table, Reserved
    <3> QED
      BY <3>1, <3>2, <3>3 DEF StaysUnderWay
  <2> QED
    BY <2>4, <2>8, <2>9 DEF b
<1> QED
  BY <1>4, <1>5 DEF Fitted, Unfilled, OwnUnfilled

LEMMA SettlesStays ==
  ASSUME ExtentInv, NEW r \in Req, status[r] = "running", computed'[r] = computed[r],
         Settles(kv, kv', r)
  PROVE  StaysUnderWay(r)
<1>1. Fitted
  BY DEF ExtentInv, Extent
<1>2. CASE Kept(kv, kv', r)
  BY <1>1, <1>2 DEF Kept, Fitted, Steady, StaysUnderWay
<1>3. CASE CommittedFrom(kv, kv', r)
  BY <1>3 DEF StaysUnderWay
<1> QED
  BY <1>2, <1>3 DEF Settles

LEMMA PlansAreSourced == ASSUME ExtentInv PROVE Sourced(kv)
BY ExtentTypes DEF TransactionInv, PendingSourceStable, Sourced

(* The tokens in flight do not change where neither queue nor batch does.   *)
LEMMA InFlightSame ==
  ASSUME queue' = queue, NEW r,
         (building # None /\ r \in building.sampled) <=>
         (building' # None /\ r \in building'.sampled)
  PROVE  InFlight(r)' = InFlight(r)
BY DEF InFlight

LEMMA BeginScheduleExtent ==
  ASSUME ExtentInv, AccountingInv', BeginSchedule
  PROVE  Extent'
<1>1. /\ kv' = BeforeSchedule(kv, finishedIds) /\ building' = EmptyOutput /\ building = None
      /\ UNCHANGED <<status, computed, tokens, placeholders, finishedIds, resetIds, queue>>
  BY DEF BeginSchedule
<1>2. kv \in KV /\ finishedIds \in SUBSET Req /\ Sourced(kv) /\ Announced
  BY ExtentTypes, PlansAreSourced DEF ExtentInv, Extent, TypeOK
<1>3. kv'.hash = kv.hash /\ \A r \in Req \ finishedIds : Settles(kv, kv', r)
  BY <1>1, <1>2, BeforeScheduleSettles
<1>4. ASSUME NEW r \in Req, status'[r] = "running"
      PROVE  StaysUnderWay(r)
  <2>1. r \notin finishedIds
    BY <1>1, <1>2, <1>4 DEF Announced
  <2> QED
    BY <1>1, <1>3, <1>4, <2>1, SettlesStays
<1>5. Fitted' /\ Unfilled(kv, computed)'
  BY <1>3, <1>4, SettledData DEF AccountingInv, TransactionInv
<1>6. /\ building'.sched = [r \in Req |-> None] /\ building'.plans = [r \in Req |-> None]
      /\ building'.sampled = {} /\ building'.preempted = {} /\ building'.finished = {}
  BY <1>1 DEF EmptyOutput
<1>7. Announced'
  BY <1>1, <1>2 DEF Announced
<1>8. PlaceholdersExact'
  <2>1. \A r \in Req : InFlight(r)' = InFlight(r)
    BY <1>1, <1>6, InFlightSame
  <2> QED
    BY <1>1, <1>6, <2>1 DEF ExtentInv, Extent, PlaceholdersExact, Live
<1>9. TokensKnown'
  BY <1>1 DEF ExtentInv, Extent, TokensKnown, Known
<1>10. BatchAgrees'
  BY <1>6 DEF BatchAgrees
<1> QED
  BY <1>5, <1>7, <1>8, <1>9, <1>10 DEF Extent

LEMMA PreemptExtent ==
  ASSUME ExtentInv, AccountingInv', NEW victim \in Req, Preempt(victim)
  PROVE  Extent'
<1>1. /\ building # None /\ status[victim] = "running" /\ building.sched[victim] = None
      /\ kv' = Freed(kv, {victim})
      /\ status' = [status EXCEPT ![victim] = "preempted"]
      /\ computed' = [computed EXCEPT ![victim] = 0]
      /\ building' = [building EXCEPT !.preempted = @ \cup {victim}]
      /\ UNCHANGED <<tokens, placeholders, finishedIds, resetIds, queue>>
  BY DEF Preempt
<1>2. /\ kv \in KV /\ building \in Output /\ computed \in [Req -> Nat]
      /\ status \in [Req -> {"waiting", "running", "preempted", "finished"}]
  BY <1>1, ExtentTypes
<1>3. kv'.hash = kv.hash /\ \A r \in Req \ {victim} : Kept(kv, kv', r)
  BY <1>1, <1>2, FreedKeeps
<1>4. /\ status'[victim] = "preempted" /\ computed'[victim] = 0
      /\ \A r \in Req \ {victim} : status'[r] = status[r] /\ computed'[r] = computed[r]
  BY <1>1, <1>2
<1>5. ASSUME NEW r \in Req, status'[r] = "running"
      PROVE  StaysUnderWay(r)
  <2>1. r # victim
    BY <1>4, <1>5
  <2> QED
    BY <1>3, <1>4, <1>5, <2>1, SettlesStays DEF Settles
<1>6. Fitted' /\ Unfilled(kv, computed)'
  BY <1>3, <1>5, SettledData DEF AccountingInv, TransactionInv
<1>7. /\ building'.sched = building.sched /\ building'.plans = building.plans
      /\ building'.sampled = building.sampled /\ building'.finished = building.finished
      /\ building'.preempted = building.preempted \cup {victim} /\ building' \in Output
  BY <1>1, <1>2 DEF Output
<1>8. building' # None
  BY <1>7, NoneAssumption
<1>9. Announced'
  BY <1>1, <1>4, <1>7, <1>8 DEF ExtentInv, Extent, Announced
<1>10. PlaceholdersExact'
  <2>1. \A r \in Req : InFlight(r)' = InFlight(r)
    BY <1>1, <1>7, <1>8, InFlightSame
  <2>2. \A r \in Req : Live(r)' <=> Live(r)
    BY <1>1, <1>4 DEF Live
  <2> QED
    BY <1>1, <1>7, <2>1, <2>2 DEF ExtentInv, Extent, PlaceholdersExact
<1>11. TokensKnown'
  BY <1>1, <1>4 DEF ExtentInv, Extent, TokensKnown, Known
<1>12. BatchAgrees'
  <2>1. ASSUME NEW r \in Req, building.sched[r] # None
        PROVE  EntryAgrees(r, building.sched[r])'
    <3>1. r # victim /\ EntryAgrees(r, building.sched[r])
      BY <1>1, <2>1 DEF ExtentInv, Extent, BatchAgrees
    <3> QED
      BY <1>3, <1>4, <1>7, <3>1 DEF Kept, EntryAgrees
  <2>2. ASSUME NEW r \in Req
        PROVE  /\ building'.plans[r] = None
               /\ building'.sched[r] # None => EntryAgrees(r, building.sched[r])'
               /\ r \in building'.preempted => status'[r] # "running"
    BY <1>1, <1>4, <1>7, <2>1 DEF ExtentInv, Extent, BatchAgrees
  <2> QED
    BY <1>1, <1>7, <2>2 DEF ExtentInv, Extent, BatchAgrees
<1> QED
  BY <1>6, <1>9, <1>10, <1>11, <1>12 DEF Extent

LEMMA AbortExtent ==
  ASSUME ExtentInv, AccountingInv', NEW r \in Req, Abort(r)
  PROVE  Extent'
<1>1. /\ building = None /\ kv' = Freed(kv, {r})
      /\ status' = [status EXCEPT ![r] = "finished"]
      /\ computed' = [computed EXCEPT ![r] = 0]
      /\ tokens' = [tokens EXCEPT ![r] = Prompt[r]]
      /\ placeholders' = [placeholders EXCEPT ![r] = 0]
      /\ finishedIds' = finishedIds \cup {r}
      /\ UNCHANGED <<resetIds, building, queue>>
  BY DEF Abort
<1>2. /\ kv \in KV /\ computed \in [Req -> Nat] /\ tokens \in [Req -> Nat]
      /\ placeholders \in [Req -> Int] /\ Prompt[r] \in Nat
      /\ status \in [Req -> {"waiting", "running", "preempted", "finished"}]
  BY ExtentTypes, RequestAssumption
<1>3. kv'.hash = kv.hash /\ \A q \in Req \ {r} : Kept(kv, kv', q)
  BY <1>1, <1>2, FreedKeeps
<1>4. /\ status'[r] = "finished" /\ computed'[r] = 0 /\ tokens'[r] = Prompt[r]
      /\ \A q \in Req \ {r} : /\ status'[q] = status[q] /\ computed'[q] = computed[q]
                              /\ tokens'[q] = tokens[q] /\ placeholders'[q] = placeholders[q]
  BY <1>1, <1>2
<1>5. ASSUME NEW q \in Req, status'[q] = "running"
      PROVE  StaysUnderWay(q)
  <2>1. q # r
    BY <1>4, <1>5
  <2> QED
    BY <1>3, <1>4, <1>5, <2>1, SettlesStays DEF Settles
<1>6. Fitted' /\ Unfilled(kv, computed)'
  BY <1>3, <1>5, SettledData DEF AccountingInv, TransactionInv
<1>7. Announced'
  BY <1>1, <1>4 DEF ExtentInv, Extent, Announced
<1>8. PlaceholdersExact'
  <2>1. \A q \in Req : InFlight(q)' = InFlight(q)
    BY <1>1, InFlightSame
  <2>2. \A q \in Req : Live(q)' => q # r /\ Live(q)
    BY <1>4 DEF Live
  <2> QED
    BY <1>1, <1>4, <2>1, <2>2 DEF ExtentInv, Extent, PlaceholdersExact
<1>9. TokensKnown'
  BY <1>2, <1>4 DEF ExtentInv, Extent, TokensKnown, Known
<1>10. BatchAgrees'
  BY <1>1 DEF BatchAgrees
<1> QED
  BY <1>6, <1>7, <1>8, <1>9, <1>10 DEF Extent

LEMMA ResetPrefixCacheExtent ==
  ASSUME ExtentInv, AccountingInv', ResetPrefixCache
  PROVE  Extent'
<1> DEFINE R == {r \in Req : status[r] = "running"}
           k == Freed(kv, R)
<1>1. /\ building = None
      /\ kv' = IF FreeBlocks(k) = Block THEN [k EXCEPT !.hash = [b \in Block |-> Unhashed]] ELSE k
      /\ status' = [r \in Req |-> IF r \in R THEN "preempted" ELSE status[r]]
      /\ computed' = [r \in Req |-> IF r \in R THEN 0 ELSE computed[r]]
      /\ placeholders' = [r \in Req |-> IF r \in R THEN 0 ELSE placeholders[r]]
      /\ queue' = [i \in DOMAIN queue |-> [queue[i] EXCEPT !.sampled = @ \ R]]
      /\ resetIds' = resetIds \cup R
      /\ UNCHANGED <<tokens, finishedIds, building>>
  BY DEF ResetPrefixCache
<1>2. kv \in KV /\ k \in KV /\ k.hash = kv.hash /\ TypeOK
  BY ExtentTypes, FreedType, FreedKeeps
<1> HIDE DEF k
<1>3. \A b \in Block : kv'.hash[b] \in {kv.hash[b], Unhashed}
  BY <1>1, <1>2 DEF KV
<1>4. \A r \in Req : status'[r] # "running"
  BY <1>1
<1>5. Fitted' /\ Unfilled(kv, computed)'
  BY <1>3, <1>4, SettledData DEF AccountingInv, TransactionInv
<1>6. Announced'
  BY <1>1, <1>4 DEF ExtentInv, Extent, Announced
<1>7. queue \in Seq(Output) /\ DOMAIN queue = 1..Len(queue)
      /\ \A i \in DOMAIN queue : queue[i] \in Output
  BY <1>2, LenProperties, ElementOfSeq DEF TypeOK
<1>8. ASSUME NEW i \in DOMAIN queue
      PROVE  queue'[i].sampled = queue[i].sampled \ R
  <2>1. queue'[i] = [queue[i] EXCEPT !.sampled = @ \ R]
    BY <1>1
  <2> QED
    BY <1>7, <2>1 DEF Output
<1>9. PlaceholdersExact'
  <2>1. DOMAIN queue' = DOMAIN queue
    BY <1>1
  <2>2. ASSUME NEW r \in Req, r \in R
        PROVE  placeholders'[r] = Cardinality(InFlight(r)')
    <3>1. InFlight(r)' = {}
      BY <1>1, <1>8, <2>1, <2>2 DEF InFlight
    <3>2. placeholders'[r] = 0
      BY <1>1, <2>2
    <3> QED
      BY <3>1, <3>2, FS_EmptySet
  <2>3. ASSUME NEW r \in Req, r \notin R
        PROVE  Live(r)' => placeholders'[r] = Cardinality(InFlight(r)')
    <3> HIDE DEF R
    <3>1. InFlight(r)' = InFlight(r)
      BY <1>1, <1>8, <2>1, <2>3 DEF InFlight
    <3>2. placeholders'[r] = placeholders[r] /\ (Live(r)' <=> Live(r))
      BY <1>1, <2>3 DEF Live
    <3> QED
      BY <3>1, <3>2 DEF ExtentInv, Extent, PlaceholdersExact
  <2> QED
    BY <1>1, <2>2, <2>3 DEF PlaceholdersExact
<1>10. TokensKnown'
  BY <1>1, <1>4 DEF ExtentInv, Extent, TokensKnown
<1>11. BatchAgrees'
  BY <1>1 DEF BatchAgrees
<1> QED
  BY <1>5, <1>6, <1>9, <1>10, <1>11 DEF Extent

(* The tokens in flight once the oldest batch is consumed.                  *)
LEMMA InFlightConsumed ==
  ASSUME TypeOK, building = None, building' = None, queue # <<>>, queue' = Tail(queue),
         NEW r \in Req
  PROVE  Cardinality(InFlight(r))' =
           IF r \in Head(queue).sampled THEN Cardinality(InFlight(r)) - 1
           ELSE Cardinality(InFlight(r))
<1> DEFINE S == {i \in DOMAIN queue : r \in queue[i].sampled}
           T == {i \in DOMAIN queue' : r \in queue'[i].sampled}
           shift == [i \in T |-> i + 1]
<1>1. InFlight(r) = S /\ InFlight(r)' = T
  BY DEF InFlight
<1>2. queue \in Seq(Output) /\ Len(queue) \in Nat /\ DOMAIN queue = 1..Len(queue)
  BY LenProperties DEF TypeOK
<1>3. /\ Len(queue) # 0 /\ queue' \in Seq(Output) /\ Len(queue') = Len(queue) - 1
      /\ \A i \in 1..Len(queue') : queue'[i] = queue[i + 1]
      /\ Head(queue) = queue[1]
  BY <1>2, EmptySeq, HeadTailProperties
<1>4. DOMAIN queue' = 1..Len(queue) - 1
  BY <1>2, <1>3, LenProperties
<1>5. \A i \in Int : i \in T <=> i + 1 \in S \ {1}
  <2> SUFFICES ASSUME NEW i \in Int
               PROVE  i \in T <=> i + 1 \in S \ {1}
    OBVIOUS
  <2>1. i \in DOMAIN queue' <=> i + 1 \in DOMAIN queue /\ i + 1 # 1
    BY <1>2, <1>4
  <2>2. i \in DOMAIN queue' => queue'[i] = queue[i + 1]
    BY <1>2, <1>3, <1>4
  <2> QED
    BY <2>1, <2>2
<1>6. S \subseteq 1..Len(queue) /\ T \subseteq 1..Len(queue) - 1
  BY <1>2, <1>4
<1>7. 1 \in S <=> r \in Head(queue).sampled
  BY <1>2, <1>3
<1> HIDE DEF S, T
<1>8. IsFiniteSet(S) /\ IsFiniteSet(T) /\ Cardinality(S) \in Nat
  <2>1. IsFiniteSet(1..Len(queue)) /\ IsFiniteSet(1..Len(queue) - 1)
    BY <1>2, FS_Interval
  <2> QED
    BY <1>6, <2>1, FS_Subset, FS_CardinalityType
<1>9. Cardinality(T) = Cardinality(S \ {1})
  <2>1. shift \in Bijection(T, S \ {1})
    <3>1. shift \in [T -> S \ {1}]
      BY <1>2, <1>5, <1>6
    <3>2. \A i, j \in T : shift[i] = shift[j] => i = j
      BY <1>2, <1>6
    <3>3. ASSUME NEW s \in S \ {1}
          PROVE  \E i \in T : shift[i] = s
      <4>1. s - 1 \in Int /\ s - 1 + 1 = s
        BY <1>2, <1>6
      <4>2. s - 1 \in T
        BY <1>5, <4>1
      <4> QED
        BY <4>1, <4>2
    <3> QED
      BY <3>1, <3>2, <3>3, Fun_IsBij
  <2>2. ExistsBijection(T, S \ {1})
    BY <2>1 DEF ExistsBijection
  <2> QED
    BY <1>8, <2>2, FS_Bijection
<1>10. CASE 1 \in S
  BY <1>1, <1>7, <1>8, <1>9, <1>10, FS_RemoveElement
<1>11. CASE 1 \notin S
  <2>1. S \ {1} = S
    BY <1>11
  <2> QED
    BY <1>1, <1>7, <1>9, <1>11, <2>1
<1> QED
  BY <1>10, <1>11

LEMMA UpdateFromOutputSettles ==
  ASSUME ExtentInv, NEW F \in SUBSET Req, UpdateFromOutput(F)
  PROVE  kv'.hash = kv.hash /\ \A r \in Req \ F : Settles(kv, kv', r)
<1> DEFINE f == Freed(kv, F)
           k == Acknowledged(f, Head(queue).plans)
<1>0. kv \in KV /\ kv' = AfterModelOutput(k)
  BY ExtentTypes DEF UpdateFromOutput
<1>1. f \in KV /\ f.hash = kv.hash /\ Sourced(f) /\ \A r \in Req \ F : Kept(kv, f, r)
  BY <1>0, FreedType, FreedKeeps, PlansAreSourced
<1> HIDE DEF f
<1>2. k \in KV /\ k.hash = f.hash /\ Sourced(k) /\ \A r \in Req : Kept(f, k, r)
  BY <1>1, AcknowledgedType, AcknowledgedKeeps
<1> HIDE DEF k
<1>3. kv'.hash = k.hash /\ \A r \in Req : Settles(k, kv', r)
  BY <1>0, <1>2, AfterModelOutputSettles
<1>4. ASSUME NEW r \in Req \ F
      PROVE  Settles(kv, kv', r)
  <2>1. Kept(kv, k, r)
    BY <1>1, <1>2 DEF Kept
  <2> QED
    BY <1>3, <2>1, KeptThenSettled
<1> QED
  BY <1>1, <1>2, <1>3, <1>4

LEMMA UpdateFromOutputExtent ==
  ASSUME ExtentInv, AccountingInv', NEW F \in SUBSET Req, UpdateFromOutput(F)
  PROVE  Extent'
<1> DEFINE output == Head(queue)
           got == {r \in output.sampled : Live(r)}
           f == Freed(kv, F)
           k == Acknowledged(f, output.plans)
<1>1. /\ building = None /\ building' = None /\ ran > 0
      /\ kv' = AfterModelOutput(k) /\ F \subseteq got
      /\ tokens' = [r \in Req |-> IF r \in F THEN Prompt[r]
                                  ELSE IF r \in got THEN tokens[r] + 1 ELSE tokens[r]]
      /\ placeholders' = [r \in Req |-> IF r \in F THEN 0
                                        ELSE IF r \in got THEN placeholders[r] - 1
                                        ELSE placeholders[r]]
      /\ status' = [r \in Req |-> IF r \in F THEN "finished" ELSE status[r]]
      /\ computed' = [r \in Req |-> IF r \in F THEN 0 ELSE computed[r]]
      /\ finishedIds' = finishedIds \cup F
      /\ queue' = Tail(queue) /\ resetIds' = resetIds
  BY DEF UpdateFromOutput
<1>2. /\ kv \in KV /\ computed \in [Req -> Nat] /\ tokens \in [Req -> Nat] /\ TypeOK
      /\ placeholders \in [Req -> Int] /\ Prompt \in [Req -> Nat]
  BY ExtentTypes, RequestAssumption
<1>3. kv'.hash = kv.hash /\ \A r \in Req \ F : Settles(kv, kv', r)
  BY UpdateFromOutputSettles
<1> HIDE DEF k
<1>4. ASSUME NEW r \in Req, status'[r] = "running"
      PROVE  StaysUnderWay(r)
  <2>1. r \notin F /\ status[r] = "running" /\ computed'[r] = computed[r]
    BY <1>1, <1>4
  <2> QED
    BY <1>3, <2>1, SettlesStays
<1>5. Fitted' /\ Unfilled(kv, computed)'
  BY <1>3, <1>4, SettledData DEF AccountingInv, TransactionInv
<1>6. Announced'
  BY <1>1 DEF ExtentInv, Extent, Announced
<1>7. PlaceholdersExact'
  <2>1. queue # <<>>
    BY <1>1, <1>2, EmptySeq DEF TypeOK
  <2>2. ASSUME NEW r \in Req, Live(r)'
        PROVE  placeholders'[r] = Cardinality(InFlight(r))'
    <3>1. r \notin F /\ Live(r) /\ placeholders[r] = Cardinality(InFlight(r))
      BY <1>1, <2>2 DEF ExtentInv, Extent, PlaceholdersExact, Live
    <3>2. r \in got <=> r \in output.sampled
      BY <3>1
    <3>3. Cardinality(InFlight(r))' = IF r \in Head(queue).sampled THEN Cardinality(InFlight(r)) - 1
                                      ELSE Cardinality(InFlight(r))
      BY <1>1, <1>2, <2>1, InFlightConsumed
    <3> QED
      BY <1>1, <3>1, <3>2, <3>3
  <2> QED
    BY <1>1, <2>2 DEF PlaceholdersExact
<1>8. TokensKnown'
  <2> HIDE DEF got
  <2>1. ASSUME NEW r \in Req
        PROVE  /\ computed'[r] >= 0 /\ tokens'[r] >= Prompt[r]
               /\ status'[r] = "running" => computed'[r] <= tokens'[r] + placeholders'[r]
    <3>1. /\ computed[r] >= 0 /\ tokens[r] >= Prompt[r]
          /\ status[r] = "running" => computed[r] <= tokens[r] + placeholders[r]
      BY DEF ExtentInv, Extent, TokensKnown, Known
    <3>2. computed[r] \in Nat /\ tokens[r] \in Nat /\ placeholders[r] \in Int /\ Prompt[r] \in Nat
      BY <1>2
    <3>3. CASE r \in F
      BY <1>1, <3>2, <3>3
    <3>4. CASE r \notin F /\ r \in got
      <4>1. computed'[r] = computed[r] /\ tokens'[r] = tokens[r] + 1
            /\ placeholders'[r] = placeholders[r] - 1 /\ status'[r] = status[r]
        BY <1>1, <3>4
      <4>2. tokens'[r] + placeholders'[r] = tokens[r] + placeholders[r]
        BY <3>2, <4>1
      <4> QED
        BY <3>1, <3>2, <4>1, <4>2
    <3>5. CASE r \notin F /\ r \notin got
      BY <1>1, <3>1, <3>5
    <3> QED
      BY <3>3, <3>4, <3>5
  <2> QED
    BY <2>1 DEF TokensKnown, Known
<1>9. BatchAgrees'
  BY <1>1 DEF BatchAgrees
<1> QED
  BY <1>5, <1>6, <1>7, <1>8, <1>9 DEF Extent

(* The tokens in flight once the batch under construction is queued.        *)
LEMMA InFlightQueued ==
  ASSUME TypeOK, building # None, building' = None, NEW o, queue' = Append(queue, o),
         o.sampled = building.sampled, NEW r \in Req
  PROVE  Cardinality(InFlight(r))' = Cardinality(InFlight(r))
<1> DEFINE S == {i \in DOMAIN queue : r \in queue[i].sampled}
           n == Len(queue)
<1>1. n \in Nat /\ DOMAIN queue = 1..n
  BY LenProperties DEF TypeOK
<1>2. /\ DOMAIN queue' = 1..n + 1 /\ queue'[n + 1] = o
      /\ \A i \in 1..n : queue'[i] = queue[i]
  BY DEF TypeOK
<1>3. InFlight(r) = S \cup {i \in {0} : r \in building.sampled}
  BY DEF InFlight
<1>4. InFlight(r)' = S \cup {i \in {n + 1} : r \in building.sampled}
  BY <1>1, <1>2 DEF InFlight
<1>5. 0 \notin S /\ n + 1 \notin S /\ S \subseteq 1..n
  BY <1>1
<1> HIDE DEF S, n
<1>6. IsFiniteSet(S) /\ Cardinality(S) \in Nat
  <2>1. IsFiniteSet(1..n)
    BY <1>1, FS_Interval
  <2> QED
    BY <1>5, <2>1, FS_Subset, FS_CardinalityType
<1>7. CASE r \in building.sampled
  <2>1. InFlight(r) = S \cup {0} /\ InFlight(r)' = S \cup {n + 1}
    BY <1>3, <1>4, <1>7
  <2>2. Cardinality(S \cup {0}) = Cardinality(S) + 1
    BY <1>5, <1>6, FS_AddElement
  <2>3. Cardinality(S \cup {n + 1}) = Cardinality(S) + 1
    BY <1>5, <1>6, FS_AddElement
  <2> QED
    BY <2>1, <2>2, <2>3
<1>8. CASE r \notin building.sampled
  BY <1>3, <1>4, <1>8
<1> QED
  BY <1>7, <1>8

(* A request under way is reset only where it was resumed in this batch.    *)
LEMMA ResetKeeps ==
  ASSUME ExtentInv, building # None, NEW r \in Req, status[r] = "running",
         r \in building.preempted \cup resetIds \cup finishedIds
  PROVE  /\ r \in resetIds /\ building.sched[r] # None /\ building.sched[r].kind = "resumed"
         /\ kv.pending[r] = None /\ kv.active[r] = None
         /\ building.sched[r].blocks = kv.table[r]
<1>1. r \in resetIds
  BY DEF ExtentInv, Extent, Announced, BatchAgrees
<1>2. building.sched[r] # None /\ building.sched[r].kind = "resumed"
  BY <1>1 DEF ExtentInv, Extent, Announced
<1>3. kv.pending[r] = None
  BY <1>2, ExtentTypes DEF TransactionInv, BatchRuns
<1>4. EntryAgrees(r, building.sched[r])
  BY <1>2 DEF ExtentInv, Extent, BatchAgrees
<1> QED
  BY <1>1, <1>2, <1>3, <1>4 DEF EntryAgrees

(* The end of a schedule arms the plans of A, and nothing else happens to a *)
(* request under way.                                                       *)
Closes(A, dest, o) ==
  /\ A \in SUBSET Req
  /\ o.sched = building.sched /\ o.sampled = building.sampled
  /\ o.finished = finishedIds /\ o.preempted = building.preempted \cup resetIds
  /\ o.plans = [r \in Req |-> IF r \in A THEN kv'.pending[r].plan ELSE None]
  /\ queue' = Append(queue, o)
  /\ kv'.table = kv.table
  /\ \A b \in Block : kv'.hash[b] \in {kv.hash[b], Unhashed}
  /\ \A r \in Req : status[r] = "running" => kv'.active[r] = kv.active[r]
  /\ \A r \in Req \ A : status[r] = "running" => kv'.pending[r] = kv.pending[r]
  /\ \A r \in A :
       /\ kv'.pending[r] # None
       /\ kv'.pending[r].plan = [semantic |-> computed[r], source |-> kv.table[r],
                                 dest |-> dest[r]]
       /\ status[r] = "running" /\ building.sched[r] # None
       /\ kv.pending[r] = None /\ MaxTokens[r] >= MinOutput
       /\ kv.active[r] = None => computed[r] = Prompt[r]
       /\ PhysicalTokens(kv, r, computed[r]) >= Threshold
       /\ dest[r] \in BlockList /\ Len(dest[r]) = Keep /\ Range(dest[r]) \subseteq Block
       /\ Ascending(dest[r])

LEMMA EndScheduleCloses ==
  ASSUME ExtentInv, EndSchedule
  PROVE  \E A, dest, o : Closes(A, dest, o)
<1> DEFINE output == [building EXCEPT !.finished = finishedIds, !.preempted = @ \cup resetIds]
           reset == building.preempted \cup resetIds \cup finishedIds
           k1 == Discarded(kv, reset)
<1>1. building # None /\ building \in Output /\ kv \in KV /\ TypeOK
      /\ finishedIds \in SUBSET Req /\ resetIds \in SUBSET Req /\ computed \in [Req -> Nat]
  BY ExtentTypes DEF EndSchedule, TypeOK
<1>2. output.sched = building.sched /\ output.sampled = building.sampled
      /\ output.finished = finishedIds /\ output.preempted = building.preempted \cup resetIds
      /\ output \in Output /\ reset \in SUBSET Req
  BY <1>1 DEF Output
<1>3. PICK A \in SUBSET Req : \E dest \in [A -> [1..Keep -> FreeBlocks(kv)]] :
        /\ AfterSchedule(kv, output, A, dest)
        /\ queue' = Append(queue, [output EXCEPT !.plans =
             [r \in Req |-> IF r \in A THEN kv'.pending[r].plan ELSE None]])
  BY DEF EndSchedule
<1>4. PICK dest \in [A -> [1..Keep -> FreeBlocks(kv)]] :
        /\ AfterSchedule(kv, output, A, dest)
        /\ queue' = Append(queue, [output EXCEPT !.plans =
             [r \in Req |-> IF r \in A THEN kv'.pending[r].plan ELSE None]])
  BY <1>3
<1> DEFINE plans == [r \in Req |-> IF r \in A THEN kv'.pending[r].plan ELSE None]
           o == [output EXCEPT !.plans = plans]
<1>5. o.sched = building.sched /\ o.sampled = building.sampled
      /\ o.finished = finishedIds /\ o.preempted = building.preempted \cup resetIds
      /\ o.plans = plans
  BY <1>2 DEF Output
<1>6. /\ kv' = Armed(k1, A, dest)
      /\ \A r \in A : Armable(k1, building.sched, r)
  <2>1. output.preempted \cup output.finished = reset
    BY <1>2
  <2> HIDE DEF output
  <2> QED
    BY <1>2, <1>4, <2>1 DEF AfterSchedule
<1>7. k1 \in KV /\ k1.hash = kv.hash /\ k1.table = kv.table
      /\ k1.active = Cleared(kv.active, reset, None)
      /\ k1.pending = Cleared(kv.pending, reset, None)
  <2> DEFINE d == PendingDiscarded(kv, reset)
  <2>1. d \in KV /\ d.hash = kv.hash /\ d.table = kv.table /\ d.active = kv.active
        /\ d.pending = Cleared(kv.pending, reset, None)
    BY <1>1, <1>2, PendingDiscardedType, PendingDiscardedKeeps
  <2>2. k1 = [d EXCEPT !.active = Cleared(@, reset, None)]
    BY DEF Discarded
  <2> HIDE DEF d, k1
  <2>3. k1.hash = d.hash /\ k1.table = d.table /\ k1.pending = d.pending
        /\ k1.active = Cleared(d.active, reset, None)
    BY <2>1, <2>2 DEF KV
  <2> QED
    BY <1>1, <1>2, <2>1, <2>3, DiscardedType DEF k1
<1>8. ASSUME NEW r \in Req, status[r] = "running"
      PROVE  k1.active[r] = kv.active[r] /\ k1.pending[r] = kv.pending[r]
  <2>1. CASE r \in reset
    BY <1>1, <1>7, <1>8, <2>1, ResetKeeps DEF Cleared
  <2>2. CASE r \notin reset
    BY <1>7, <2>2 DEF Cleared
  <2> QED
    BY <2>1, <2>2
<1> HIDE DEF k1, output, o, plans, reset
<1>9. /\ kv'.table = k1.table /\ kv'.active = k1.active
      /\ kv'.hash = [b \in Block |-> IF \E r \in A : b \in Range(dest[r])
                                     THEN Unhashed ELSE k1.hash[b]]
      /\ kv'.pending = [r \in Req |-> IF r \in A
           THEN [plan |-> PlanFor(k1, r, dest[r]), ready |-> FALSE,
                 previous |-> IF Async THEN k1.eligible[r] ELSE None]
           ELSE k1.pending[r]]
  BY <1>6, <1>7 DEF Armed, KV
<1>10. queue' = Append(queue, o)
  BY <1>4 DEF o, plans
<1>11. \A b \in Block : kv'.hash[b] \in {kv.hash[b], Unhashed}
  BY <1>7, <1>9
<1>12. \A r \in Req \ A : status[r] = "running" => kv'.pending[r] = kv.pending[r]
  BY <1>8, <1>9
<1>13. ASSUME NEW r \in A
       PROVE  /\ kv'.pending[r] # None
              /\ kv'.pending[r].plan = [semantic |-> computed[r], source |-> kv.table[r],
                                        dest |-> dest[r]]
              /\ status[r] = "running" /\ building.sched[r] # None
              /\ kv.pending[r] = None /\ MaxTokens[r] >= MinOutput
              /\ kv.active[r] = None => computed[r] = Prompt[r]
              /\ PhysicalTokens(kv, r, computed[r]) >= Threshold
              /\ dest[r] \in BlockList /\ Len(dest[r]) = Keep /\ Range(dest[r]) \subseteq Block
              /\ Ascending(dest[r])
  <2>1. r \in Req /\ Armable(k1, building.sched, r)
    BY <1>6
  <2>2. building.sched[r] # None /\ status[r] = "running" /\ kv.pending[r] = None
    BY <1>1, <2>1, ExtentTypes DEF Armable, TransactionInv, BatchRuns
  <2>3. k1.active[r] = kv.active[r]
    BY <1>8, <2>1, <2>2
  <2>4. PhysicalTokens(k1, r, computed[r]) = PhysicalTokens(kv, r, computed[r])
    BY <2>3 DEF PhysicalTokens
  <2>5. kv'.pending[r].plan = [semantic |-> computed[r], source |-> kv.table[r],
                               dest |-> dest[r]]
    BY <1>7, <1>9, <2>1 DEF PlanFor
  <2>6. dest[r] \in [1..Keep -> FreeBlocks(kv)] /\ FreeBlocks(kv) \subseteq Block /\ Keep \in Nat
    BY <1>4, KeepIsBudget DEF FreeBlocks
  <2>7. dest[r] \in BlockList
    BY <2>6, FunctionsAreLists
  <2>8. Len(dest[r]) = Keep
    <3>1. DOMAIN dest[r] = 1..Keep /\ DOMAIN dest[r] = 1..Len(dest[r]) /\ Len(dest[r]) \in Nat
      BY <2>6, <2>7, LenProperties DEF BlockList
    <3> QED
      BY <2>6, <3>1
  <2>9. Range(dest[r]) \subseteq Block
    BY <2>6 DEF Range
  <2>10. kv'.pending[r] # None
    <3> DEFINE plan == PlanFor(k1, r, dest[r])
               previous == IF Async THEN k1.eligible[r] ELSE None
    <3>1. plan \in Plan
      BY <1>1, <1>7, <2>1, <2>7, KVFields DEF PlanFor, Plan
    <3>2. previous \in {None, 0, Never}
      BY <1>7, <2>1, KVFields
    <3>3. kv'.pending[r] = [plan |-> plan, ready |-> FALSE, previous |-> previous]
      BY <1>9, <2>1
    <3> HIDE DEF plan, previous
    <3>4. kv'.pending[r] \in Pending
      BY <3>1, <3>2, <3>3 DEF Pending
    <3> QED
      BY <3>4, NoneAssumption
  <2>11. Ascending(dest[r])
    BY <1>4 DEF AfterSchedule
  <2> QED
    BY <2>1, <2>2, <2>3, <2>4, <2>5, <2>7, <2>8, <2>9, <2>10, <2>11 DEF Armable
<1>14. \A r \in Req : status[r] = "running" => kv'.active[r] = kv.active[r]
  BY <1>8, <1>9
<1>15. Closes(A, dest, o)
  BY <1>5, <1>7, <1>9, <1>10, <1>11, <1>12, <1>13, <1>14 DEF Closes, plans
<1> QED
  BY <1>15

LEMMA EndScheduleExtent ==
  ASSUME ExtentInv, AccountingInv', EndSchedule
  PROVE  Extent'
<1>1. PICK A, dest, o : Closes(A, dest, o)
  BY EndScheduleCloses
<1>2. /\ building # None /\ building' = None /\ finishedIds' = {} /\ resetIds' = {}
      /\ UNCHANGED <<status, computed, tokens, placeholders>>
  BY DEF EndSchedule
<1>3. TypeOK /\ Fitted
  BY ExtentTypes DEF ExtentInv, Extent
<1>4. ASSUME NEW r \in Req, status'[r] = "running"
      PROVE  StaysUnderWay(r)
  <2>1. status[r] = "running" /\ computed'[r] = computed[r]
    BY <1>2, <1>4
  <2>2. kv'.table[r] = kv.table[r] /\ kv'.active[r] = kv.active[r]
    BY <1>1, <2>1 DEF Closes
  <2>3. kv'.pending[r] # None => Len(kv'.pending[r].plan.dest) = Keep
    <3>1. CASE r \in A
      <4>1. kv'.pending[r].plan = [semantic |-> computed[r], source |-> kv.table[r],
                                   dest |-> dest[r]]
        BY <1>1, <3>1 DEF Closes
      <4>2. Len(dest[r]) = Keep
        BY <1>1, <3>1 DEF Closes
      <4> QED
        BY <4>1, <4>2
    <3>2. CASE r \notin A
      <4>1. kv'.pending[r] = kv.pending[r]
        BY <1>1, <2>1, <3>2 DEF Closes
      <4> QED
        BY <1>3, <2>1, <4>1 DEF Fitted
    <3> QED
      BY <3>1, <3>2
  <2> QED
    BY <2>1, <2>2, <2>3 DEF StaysUnderWay, Steady
<1>5. Fitted' /\ Unfilled(kv, computed)'
  <2>1. \A b \in Block : kv'.hash[b] \in {kv.hash[b], Unhashed}
    BY <1>1 DEF Closes
  <2> QED
    BY <1>4, <2>1, SettledData DEF AccountingInv, TransactionInv
<1>6. Announced'
  BY <1>2 DEF Announced
<1>7. PlaceholdersExact'
  <2>1. queue' = Append(queue, o) /\ o.sampled = building.sampled
    BY <1>1 DEF Closes
  <2>2. ASSUME NEW r \in Req, Live(r)'
        PROVE  placeholders'[r] = Cardinality(InFlight(r))'
    <3>1. Cardinality(InFlight(r))' = Cardinality(InFlight(r))
      BY <1>2, <1>3, <2>1, InFlightQueued
    <3>2. Live(r) /\ placeholders'[r] = placeholders[r]
      BY <1>2, <2>2 DEF Live
    <3> QED
      BY <3>1, <3>2 DEF ExtentInv, Extent, PlaceholdersExact
  <2> QED
    BY <1>2, <2>2 DEF PlaceholdersExact
<1>8. TokensKnown'
  BY <1>2 DEF ExtentInv, Extent, TokensKnown, Known
<1>9. BatchAgrees'
  BY <1>2 DEF BatchAgrees
<1> QED
  BY <1>5, <1>6, <1>7, <1>8, <1>9 DEF Extent

LEMMA UnchangedExtent ==
  ASSUME ExtentInv, UNCHANGED <<kv, status, computed, tokens, placeholders, finishedIds,
                                resetIds, building, queue>>
  PROVE  Extent'
<1>1. Announced' /\ TokensKnown'
  BY DEF ExtentInv, Extent, Announced, TokensKnown, Known
<1>2. PlaceholdersExact'
  <2>1. \A r : InFlight(r)' = InFlight(r)
    BY InFlightSame
  <2> QED
    BY <2>1 DEF ExtentInv, Extent, PlaceholdersExact, Live
<1>3. BatchAgrees'
  BY DEF ExtentInv, Extent, BatchAgrees, EntryAgrees
<1>4. Fitted'
  BY DEF ExtentInv, Extent, Fitted, PhysicalTokens
<1>5. Unfilled(kv, computed)'
  BY DEF ExtentInv, Extent, Unfilled, OwnUnfilled, PhysicalTokens
<1> QED
  BY <1>1, <1>2, <1>3, <1>4, <1>5 DEF Extent

LEMMA NextExtent == ExtentInv /\ [Next]_vars => ExtentInv'
<1> SUFFICES ASSUME ExtentInv, [Next]_vars
             PROVE  ExtentInv'
  OBVIOUS
<1>1. AccountingInv'
  BY NextAccounting DEF ExtentInv
<1>2. CASE BeginSchedule
  BY <1>1, <1>2, BeginScheduleExtent DEF ExtentInv
<1>3. ASSUME NEW r \in Req, Admit(r)
      PROVE  ExtentInv'
  <2>1. PICK hits, new, n, kind, c : Enters(r, hits, new, Len(hits) * BlockSize, n, kind, c)
    BY <1>3, AdmitEnters
  <2> QED
    BY <1>1, <2>1, EnteredData, EnteredControl DEF ExtentInv, Extent
<1>4. ASSUME NEW r \in Req, ScheduleRunning(r)
      PROVE  ExtentInv'
  <2>1. PICK new, n, c : Enters(r, <<>>, new, computed[r], n, "cached", c)
    BY <1>4, ScheduleRunningEnters
  <2> QED
    BY <1>1, <2>1, EnteredData, EnteredControl DEF ExtentInv, Extent
<1>5. ASSUME NEW r \in Req, Preempt(r)
      PROVE  ExtentInv'
  BY <1>1, <1>5, PreemptExtent DEF ExtentInv
<1>6. CASE EndSchedule
  BY <1>1, <1>6, EndScheduleExtent DEF ExtentInv
<1>7. ASSUME NEW F \in SUBSET Req, UpdateFromOutput(F)
      PROVE  ExtentInv'
  BY <1>1, <1>7, UpdateFromOutputExtent DEF ExtentInv
<1>8. ASSUME NEW r \in Req, Abort(r)
      PROVE  ExtentInv'
  BY <1>1, <1>8, AbortExtent DEF ExtentInv
<1>9. CASE ResetPrefixCache
  BY <1>1, <1>9, ResetPrefixCacheExtent DEF ExtentInv
<1>10. CASE WorkerRuns \/ Terminated \/ UNCHANGED vars
  <2>1. UNCHANGED <<kv, status, computed, tokens, placeholders, finishedIds,
                    resetIds, building, queue>>
    BY <1>10 DEF WorkerRuns, Terminated, vars
  <2> QED
    BY <1>1, <2>1, UnchangedExtent DEF ExtentInv
<1> QED
  BY <1>2, <1>3, <1>4, <1>5, <1>6, <1>7, <1>8, <1>9, <1>10
     DEF Next, SchedulerNext, EngineNext

LEMMA InitExtent == Init => ExtentInv
<1> SUFFICES ASSUME Init
             PROVE  ExtentInv
  OBVIOUS
<1>1. AccountingInv
  BY InitAccounting
<1>2. /\ kv.table = [r \in Req |-> <<>>] /\ status = [r \in Req |-> "waiting"]
      /\ computed = [r \in Req |-> 0] /\ tokens = Prompt /\ placeholders = [r \in Req |-> 0]
      /\ finishedIds = {} /\ resetIds = {} /\ building = None /\ queue = <<>>
  BY DEF Init
<1>3. Announced /\ BatchAgrees /\ Fitted
  BY <1>2 DEF Announced, BatchAgrees, Fitted
<1>4. PlaceholdersExact
  <2>1. \A r \in Req : InFlight(r) = {}
    BY <1>2 DEF InFlight
  <2> QED
    BY <1>2, <2>1, FS_EmptySet DEF PlaceholdersExact
<1>5. TokensKnown
  <2>1. \A r \in Req : Prompt[r] \in Nat
    BY RequestAssumption
  <2> QED
    BY <1>2, <2>1 DEF TokensKnown
<1>6. Unfilled(kv, computed)
  BY <1>2 DEF Unfilled
<1> QED
  BY <1>1, <1>3, <1>4, <1>5, <1>6 DEF ExtentInv, Extent

(* Whatever is admitted, continued, preempted, compacted or reset, a request*)
(* under way holds blocks for all its tokens in the shortened lengths, its  *)
(* unfilled blocks are its own and out of the prefix cache, and a live      *)
(* request has exactly as many placeholders as tokens in flight.            *)
THEOREM ExtentCorrect == Spec => []ExtentInv
<1>1. Init => ExtentInv
  BY InitExtent
<1>2. ExtentInv /\ [Next]_vars => ExtentInv'
  BY NextExtent
<1> QED
  BY <1>1, <1>2, PTL DEF Spec

----------------------------------------------------------------------------
(* The commit and the outputs in flight.                                    *)

(* A request that runs has run something, and has something left to run.    *)
UnderWay ==
  \A r \in Req : status[r] = "running" => computed[r] > 0 /\ computed[r] < Known(r)

LEMMA EnteredUnderWay ==
  ASSUME ExtentInv, UnderWay,
         NEW r \in Req, NEW hits, NEW new, NEW start, NEW n, NEW kind, NEW c,
         Enters(r, hits, new, start, n, kind, c), n > 0
  PROVE  UnderWay'
<1>1. Entered(r, hits, new, start, n, kind)
  BY EnteredIs
<1>2. /\ computed' = [computed EXCEPT ![r] = start + n]
      /\ placeholders' = [placeholders EXCEPT ![r] = IF start + n = Known(r) THEN @ + 1 ELSE @]
      /\ status' = [status EXCEPT ![r] = "running"] /\ tokens' = tokens
      /\ start \in Nat /\ n \in Nat
  BY <1>1 DEF Entered, Enters
<1>3. /\ computed \in [Req -> Nat] /\ tokens \in [Req -> Nat] /\ placeholders \in [Req -> Int]
      /\ status \in [Req -> {"waiting", "running", "preempted", "finished"}]
  BY ExtentTypes
<1>4. start + n <= Known(r)
  <2>1. CASE Continues(r, hits, start, n, kind)
    BY <2>1 DEF Continues
  <2>2. CASE Starts(r, hits, start, n, kind)
    <3>1. start + n <= tokens[r] /\ Live(r)
      BY <2>2 DEF Starts, Live
    <3>2. placeholders[r] = Cardinality(InFlight(r))
      BY <3>1 DEF ExtentInv, Extent, PlaceholdersExact
    <3>3. placeholders[r] >= 0
      BY <3>2, InFlightFinite, ExtentTypes
    <3> QED
      BY <1>2, <1>3, <3>1, <3>3 DEF Known
  <2> QED
    BY <2>1, <2>2 DEF Enters
<1> SUFFICES ASSUME NEW q \in Req, status'[q] = "running"
             PROVE  computed'[q] > 0 /\ computed'[q] < Known(q)'
  BY DEF UnderWay
<1>5. CASE q = r
  BY <1>2, <1>3, <1>4, <1>5 DEF Known
<1>6. CASE q # r
  <2>1. computed'[q] = computed[q] /\ Known(q)' = Known(q) /\ status[q] = "running"
    BY <1>2, <1>3, <1>6 DEF Known
  <2> QED
    BY <2>1 DEF UnderWay
<1> QED
  BY <1>5, <1>6

LEMMA SteadyUnderWay ==
  ASSUME UnderWay,
         \A r \in Req : status'[r] = "running" =>
           status[r] = "running" /\ computed'[r] = computed[r] /\ Known(r)' = Known(r)
  PROVE  UnderWay'
BY DEF UnderWay

LEMMA NextRunsOn == ExtentInv /\ UnderWay /\ [Next]_vars => UnderWay'
<1> SUFFICES ASSUME ExtentInv, UnderWay, [Next]_vars
             PROVE  UnderWay'
  OBVIOUS
<1>2. /\ computed \in [Req -> Nat] /\ tokens \in [Req -> Nat] /\ placeholders \in [Req -> Int]
      /\ status \in [Req -> {"waiting", "running", "preempted", "finished"}]
  BY ExtentTypes
<1>3. CASE UNCHANGED <<status, computed, tokens, placeholders>>
  BY <1>3, SteadyUnderWay DEF Known
<1>4. CASE SchedulerNext
  <2>1. CASE BeginSchedule \/ EndSchedule \/ Terminated
    BY <1>3, <2>1 DEF BeginSchedule, EndSchedule, Terminated, vars
  <2>2. ASSUME NEW r \in Req, Admit(r)
        PROVE  UnderWay'
    <3>1. PICK hits, new, n, kind, c :
            Enters(r, hits, new, Len(hits) * BlockSize, n, kind, c) /\ n > 0
      BY <2>2, AdmitEnters
    <3> QED
      BY <3>1, EnteredUnderWay
  <2>3. ASSUME NEW r \in Req, ScheduleRunning(r)
        PROVE  UnderWay'
    <3>1. PICK new, n, c : /\ Enters(r, <<>>, new, computed[r], n, "cached", c)
                           /\ computed[r] < Known(r) => n > 0
      BY <2>3, ScheduleRunningEnters
    <3>2. n > 0
      BY <2>3, <3>1 DEF UnderWay, ScheduleRunning, Schedulable
    <3> QED
      BY <3>1, <3>2, EnteredUnderWay
  <2>4. ASSUME NEW r \in Req, Preempt(r)
        PROVE  UnderWay'
    BY <1>2, <2>4, SteadyUnderWay DEF Preempt, Known
  <2>5. ASSUME NEW r \in Req, Abort(r)
        PROVE  UnderWay'
    BY <1>2, <2>5, SteadyUnderWay DEF Abort, Known
  <2>6. CASE ResetPrefixCache
    BY <1>2, <2>6, SteadyUnderWay DEF ResetPrefixCache
  <2>7. ASSUME NEW F \in SUBSET Req, UpdateFromOutput(F)
        PROVE  UnderWay'
    <3> SUFFICES ASSUME NEW r \in Req, status'[r] = "running"
                 PROVE  status[r] = "running" /\ computed'[r] = computed[r] /\ Known(r)' = Known(r)
      BY SteadyUnderWay
    <3>1. r \notin F /\ status[r] = "running" /\ computed'[r] = computed[r]
      BY <2>7 DEF UpdateFromOutput
    <3>2. PICK got : got = {q \in Head(queue).sampled : Live(q)}
      OBVIOUS
    <3>3. /\ tokens' = [q \in Req |-> IF q \in F THEN Prompt[q]
                                      ELSE IF q \in got THEN tokens[q] + 1 ELSE tokens[q]]
          /\ placeholders' = [q \in Req |-> IF q \in F THEN 0
                                            ELSE IF q \in got THEN placeholders[q] - 1
                                            ELSE placeholders[q]]
      BY <2>7, <3>2 DEF UpdateFromOutput
    <3>4. Known(r)' = Known(r)
      BY <1>2, <3>1, <3>3 DEF Known
    <3> QED
      BY <3>1, <3>4
  <2> QED
    BY <1>4, <2>1, <2>2, <2>3, <2>4, <2>5, <2>6, <2>7 DEF SchedulerNext, EngineNext
<1> QED
  BY <1>3, <1>4 DEF Next, WorkerRuns, vars

(* The worker is told, behind the i-th queued batch, that r was preempted.  *)
Reported(r, i) ==
  \/ r \in resetIds
  \/ building # None /\ r \in building.preempted
  \/ \E j \in i + 1..Len(queue) : r \in queue[j].preempted

(* r has been computed up to a plan, and beyond it once it is scheduled.    *)
Reached(r, p) ==
  /\ status[r] = "running" /\ p.semantic <= computed[r]
  /\ building # None /\ building.sched[r] # None => p.semantic < computed[r]

(* So the next plan of a request that carries on is not the one in flight.  *)
PlansPass ==
  \A r \in Req : \A i \in DOMAIN queue : queue[i].plans[r] # None /\ Live(r) =>
    Reported(r, i) \/ Reached(r, queue[i].plans[r])

(* A plan is repeated only by a request that was preempted in between.      *)
RepeatsReported ==
  \A r \in Req : \A o \in DOMAIN queue : \A i \in 1..o - 1 :
    queue[i].plans[r] # None /\ queue[i].plans[r] = queue[o].plans[r] =>
      \E j \in i + 1..o : r \in queue[j].preempted

(* An acknowledged plan is committed in the same step.                      *)
NoneReady(k) == Async => \A r \in Req : k.pending[r] # None => ~k.pending[r].ready

BarrierInv == ExtentInv /\ UnderWay /\ PlansPass /\ RepeatsReported /\ NoneReady(kv)

LEMMA BatchesAre ==
  ASSUME TypeOK
  PROVE  /\ queue \in Seq(Output) /\ Len(queue) \in Nat /\ DOMAIN queue = 1..Len(queue)
         /\ \A i \in DOMAIN queue : /\ queue[i] \in Output
                                    /\ \A r \in Req : queue[i].plans[r] \in Plan \cup {None}
<1>1. queue \in Seq(Output) /\ Len(queue) \in Nat /\ DOMAIN queue = 1..Len(queue)
      /\ \A i \in DOMAIN queue : queue[i] \in Output
  BY LenProperties, ElementOfSeq DEF TypeOK
<1> QED
  BY <1>1 DEF Output

(* Actions that leave the plans in the queue alone and pass over what is    *)
(* under way.                                                               *)
LEMMA SteadyPass ==
  ASSUME PlansPass,
         Len(queue') = Len(queue), DOMAIN queue' = DOMAIN queue,
         \A i \in DOMAIN queue : /\ queue'[i].plans = queue[i].plans
                                 /\ queue'[i].preempted = queue[i].preempted,
         DOMAIN queue = 1..Len(queue), Len(queue) \in Nat,
         \A r \in resetIds : r \in resetIds',
         building # None => /\ building' # None
                            /\ building.preempted \subseteq building'.preempted,
         \A r \in Req : Live(r)' =>
           /\ Live(r)
           /\ \/ r \in resetIds'
              \/ building' # None /\ r \in building'.preempted
              \/ /\ status'[r] = status[r] /\ computed'[r] = computed[r]
                 /\ building' # None /\ building'.sched[r] # None =>
                      building # None /\ building.sched[r] # None
  PROVE  PlansPass'
<1> SUFFICES ASSUME NEW r \in Req, NEW i \in DOMAIN queue, queue[i].plans[r] # None, Live(r)'
             PROVE  Reported(r, i)' \/ Reached(r, queue[i].plans[r])'
  BY DEF PlansPass
<1>1. Live(r) /\ (Reported(r, i) \/ Reached(r, queue[i].plans[r]))
  BY DEF PlansPass
<1>2. Reported(r, i) => Reported(r, i)'
  <2>1. \A j \in i + 1..Len(queue) : j \in DOMAIN queue
    OBVIOUS
  <2> QED
    BY <2>1 DEF Reported
<1>3. CASE r \in resetIds' \/ (building' # None /\ r \in building'.preempted)
  BY <1>3 DEF Reported
<1>4. CASE /\ status'[r] = status[r] /\ computed'[r] = computed[r]
           /\ building' # None /\ building'.sched[r] # None =>
                building # None /\ building.sched[r] # None
  BY <1>1, <1>2, <1>4 DEF Reached
<1> QED
  BY <1>3, <1>4

(* A chunk, which is never empty, takes its request beyond its plans.       *)
LEMMA EnteredPass ==
  ASSUME BarrierInv,
         NEW r \in Req, NEW hits, NEW new, NEW start, NEW n, NEW kind, NEW c,
         Enters(r, hits, new, start, n, kind, c), n > 0
  PROVE  PlansPass'
<1>1. Entered(r, hits, new, start, n, kind)
  BY EnteredIs DEF BarrierInv
<1>2. /\ computed' = [computed EXCEPT ![r] = start + n]
      /\ status' = [status EXCEPT ![r] = "running"] /\ resetIds' = resetIds /\ queue' = queue
      /\ start \in Nat /\ n \in Nat /\ building # None /\ building' # None
      /\ building'.preempted = building.preempted /\ building \in Output
      /\ \A q \in Req \ {r} : building'.sched[q] = building.sched[q]
      /\ building.sched[r] = None
  BY <1>1 DEF Entered, Enters, Output
<1>3. /\ computed \in [Req -> Nat] /\ TypeOK
      /\ status \in [Req -> {"waiting", "running", "preempted", "finished"}]
  BY ExtentTypes DEF BarrierInv
<1> SUFFICES ASSUME NEW q \in Req, NEW i \in DOMAIN queue, queue[i].plans[q] # None, Live(q)'
             PROVE  Reported(q, i)' \/ Reached(q, queue[i].plans[q])'
  BY <1>2 DEF PlansPass
<1>4. Reported(q, i)' <=> Reported(q, i)
  BY <1>2 DEF Reported
<1>5. queue[i].plans[q].semantic \in Int
  <2>1. queue[i].plans[q] \in Plan
    BY <1>3, BatchesAre
  <2> QED
    BY <2>1 DEF Plan
<1>6. CASE q # r
  <2>1. Live(q) /\ status'[q] = status[q] /\ computed'[q] = computed[q]
    BY <1>2, <1>3, <1>6 DEF Live
  <2> QED
    BY <1>2, <1>4, <1>6, <2>1 DEF BarrierInv, PlansPass, Reached
<1>7. CASE q = r
  <2>1. /\ Live(r) /\ computed'[r] = start + n /\ status'[r] = "running"
        /\ status[r] = "running" => start = computed[r]
    BY <1>2, <1>3 DEF Enters, Continues, Starts, Live
  <2>2. Reported(r, i) \/ Reached(r, queue[i].plans[r])
    BY <1>7, <2>1 DEF BarrierInv, PlansPass
  <2>3. ASSUME Reached(r, queue[i].plans[r])
        PROVE  Reached(r, queue[i].plans[r])'
    BY <1>2, <1>3, <1>5, <1>7, <2>1, <2>3 DEF Reached
  <2> QED
    BY <1>4, <1>7, <2>2, <2>3
<1> QED
  BY <1>6, <1>7

LEMMA UpdateFromOutputPass ==
  ASSUME BarrierInv, NEW F \in SUBSET Req, UpdateFromOutput(F)
  PROVE  PlansPass' /\ RepeatsReported'
<1>1. /\ building = None /\ building' = None /\ ran > 0 /\ queue' = Tail(queue)
      /\ resetIds' = resetIds
      /\ status' = [r \in Req |-> IF r \in F THEN "finished" ELSE status[r]]
      /\ computed' = [r \in Req |-> IF r \in F THEN 0 ELSE computed[r]]
  BY DEF UpdateFromOutput
<1>2. TypeOK
  BY ExtentTypes DEF BarrierInv
<1>3. queue \in Seq(Output) /\ Len(queue) \in Nat /\ DOMAIN queue = 1..Len(queue) /\ queue # <<>>
  BY <1>1, <1>2, BatchesAre, EmptySeq DEF TypeOK
<1>4. /\ Len(queue') = Len(queue) - 1 /\ DOMAIN queue' = 1..Len(queue) - 1
      /\ \A i \in 1..Len(queue) - 1 : queue'[i] = queue[i + 1] /\ i + 1 \in DOMAIN queue
  <2>1. queue' \in Seq(Output) /\ Len(queue') = Len(queue) - 1
        /\ \A i \in 1..Len(queue) - 1 : queue'[i] = queue[i + 1]
    BY <1>1, <1>3, HeadTailProperties
  <2>2. DOMAIN queue' = 1..Len(queue')
    BY <2>1, LenProperties
  <2> QED
    BY <1>3, <2>1, <2>2
<1>5. PlansPass'
  <2> SUFFICES ASSUME NEW r \in Req, NEW i \in DOMAIN queue', queue'[i].plans[r] # None, Live(r)'
               PROVE  Reported(r, i)' \/ Reached(r, queue[i].plans[r])'
    BY DEF PlansPass
  <2>1. /\ Live(r) /\ status'[r] = status[r] /\ computed'[r] = computed[r]
    BY <1>1 DEF Live
  <2>2. i + 1 \in DOMAIN queue /\ queue'[i] = queue[i + 1] /\ i \in Nat
    BY <1>3, <1>4
  <2>3. Reported(r, i + 1) \/ Reached(r, queue[i + 1].plans[r])
    BY <2>1, <2>2 DEF BarrierInv, PlansPass
  <2>4. ASSUME Reported(r, i + 1)
        PROVE  Reported(r, i)'
    <3>1. CASE r \in resetIds
      BY <1>1, <3>1 DEF Reported
    <3>2. CASE \E j \in i + 1 + 1..Len(queue) : r \in queue[j].preempted
      <4>1. PICK j \in i + 1 + 1..Len(queue) : r \in queue[j].preempted
        BY <3>2
      <4>2. j - 1 \in i + 1..Len(queue') /\ j - 1 \in 1..Len(queue) - 1 /\ j - 1 + 1 = j
        BY <1>3, <1>4, <2>2, <4>1
      <4>3. queue'[j - 1] = queue[j]
        BY <1>4, <4>2
      <4> QED
        BY <4>1, <4>2, <4>3 DEF Reported
    <3> QED
      BY <1>1, <2>4, <3>1, <3>2 DEF Reported
  <2> QED
    BY <1>1, <2>1, <2>2, <2>3, <2>4 DEF Reached
<1>6. RepeatsReported'
  <2> SUFFICES ASSUME NEW r \in Req, NEW o \in DOMAIN queue', NEW i \in 1..o - 1,
                      queue'[i].plans[r] # None, queue'[i].plans[r] = queue'[o].plans[r]
               PROVE  \E j \in i + 1..o : r \in queue'[j].preempted
    BY DEF RepeatsReported
  <2>1. /\ o + 1 \in DOMAIN queue /\ queue'[o] = queue[o + 1] /\ o \in Nat
        /\ i \in 1..Len(queue) - 1 /\ queue'[i] = queue[i + 1] /\ i + 1 \in 1..o + 1 - 1
    BY <1>3, <1>4
  <2>2. PICK j \in i + 1 + 1..o + 1 : r \in queue[j].preempted
    <3>1. queue[i + 1].plans[r] # None /\ queue[i + 1].plans[r] = queue[o + 1].plans[r]
      BY <2>1
    <3>2. \A m \in 1..o + 1 - 1 :
            queue[m].plans[r] # None /\ queue[m].plans[r] = queue[o + 1].plans[r] =>
              \E j \in m + 1..o + 1 : r \in queue[j].preempted
      BY <2>1 DEF BarrierInv, RepeatsReported
    <3> QED
      BY <2>1, <3>1, <3>2
  <2>3. j - 1 \in i + 1..o /\ j - 1 \in 1..Len(queue) - 1 /\ j - 1 + 1 = j
    BY <1>3, <1>4, <2>1
  <2>4. queue'[j - 1] = queue[j]
    BY <1>4, <2>3
  <2> QED
    BY <2>2, <2>3, <2>4
<1> QED
  BY <1>5, <1>6

(* A request that is given a plan again has been computed further, or its   *)
(* preemption is reported with the new plan at the latest.                  *)
LEMMA EndSchedulePass ==
  ASSUME BarrierInv, EndSchedule
  PROVE  PlansPass' /\ RepeatsReported'
<1>1. PICK A, dest, o : Closes(A, dest, o)
  BY EndScheduleCloses DEF BarrierInv
<1>2. /\ building # None /\ building' = None /\ resetIds' = {}
      /\ status' = status /\ computed' = computed
  BY DEF EndSchedule
<1>3. TypeOK /\ computed \in [Req -> Nat]
  BY ExtentTypes DEF BarrierInv
<1>4. queue \in Seq(Output) /\ Len(queue) \in Nat /\ DOMAIN queue = 1..Len(queue)
      /\ \A i \in DOMAIN queue : \A r \in Req : queue[i].plans[r] \in Plan \cup {None}
  BY <1>3, BatchesAre
<1>5. /\ queue' = Append(queue, o) /\ o.preempted = building.preempted \cup resetIds
      /\ o.plans = [r \in Req |-> IF r \in A THEN kv'.pending[r].plan ELSE None]
  BY <1>1 DEF Closes
<1>6. ASSUME NEW r \in A
      PROVE  /\ r \in Req /\ o.plans[r].semantic = computed[r] /\ status[r] = "running"
             /\ building.sched[r] # None
  <2>1. /\ r \in Req /\ status[r] = "running" /\ building.sched[r] # None
        /\ kv'.pending[r].plan = [semantic |-> computed[r], source |-> kv.table[r],
                                  dest |-> dest[r]]
    BY <1>1 DEF Closes
  <2> QED
    BY <1>5, <2>1
<1>7. /\ Len(queue') = Len(queue) + 1 /\ DOMAIN queue' = 1..Len(queue) + 1
      /\ queue'[Len(queue) + 1] = o /\ \A i \in 1..Len(queue) : queue'[i] = queue[i]
  <2>1. queue' \in Seq(Output)
    BY <1>3, NextType DEF Next, SchedulerNext, EngineNext, TypeOK
  <2>2. Len(queue') = Len(queue) + 1 /\ queue'[Len(queue) + 1] = o
        /\ \A i \in 1..Len(queue) : queue'[i] = queue[i]
    BY <1>4, <1>5, AppendProperties
  <2> QED
    BY <2>1, <2>2, LenProperties
<1>8. ASSUME NEW r \in Req, NEW i \in 1..Len(queue), Reported(r, i)
      PROVE  \E j \in i + 1..Len(queue) + 1 : r \in queue'[j].preempted
  <2>1. CASE r \in o.preempted
    BY <1>4, <1>7, <2>1
  <2>2. CASE \E j \in i + 1..Len(queue) : r \in queue[j].preempted
    <3>1. PICK j \in i + 1..Len(queue) : r \in queue[j].preempted
      BY <2>2
    <3>2. j \in 1..Len(queue) /\ j \in i + 1..Len(queue) + 1
      BY <1>4
    <3> QED
      BY <1>7, <3>1, <3>2
  <2> QED
    BY <1>5, <1>8, <2>1, <2>2 DEF Reported
<1>9. PlansPass'
  <2> SUFFICES ASSUME NEW r \in Req, NEW i \in DOMAIN queue', queue'[i].plans[r] # None, Live(r)'
               PROVE  Reported(r, i)' \/ Reached(r, queue[i].plans[r])'
    BY DEF PlansPass
  <2>1. CASE i = Len(queue) + 1
    <3>1. r \in A
      BY <1>5, <1>7, <2>1
    <3>2. queue'[i].plans[r].semantic = computed[r] /\ status[r] = "running"
      BY <1>6, <1>7, <2>1, <3>1
    <3> QED
      BY <1>2, <1>3, <3>2 DEF Reached
  <2>2. CASE i \in 1..Len(queue)
    <3>1. queue'[i] = queue[i] /\ Live(r)
      BY <1>2, <1>7, <2>2 DEF Live
    <3>2. Reported(r, i) \/ Reached(r, queue[i].plans[r])
      BY <1>4, <2>2, <3>1 DEF BarrierInv, PlansPass
    <3>3. CASE Reported(r, i)
      <4>1. \E j \in i + 1..Len(queue') : r \in queue'[j].preempted
        BY <1>7, <1>8, <2>2, <3>3
      <4> QED
        BY <4>1 DEF Reported
    <3>4. CASE Reached(r, queue[i].plans[r])
      BY <1>2, <3>1, <3>4 DEF Reached
    <3> QED
      BY <3>2, <3>3, <3>4
  <2> QED
    BY <1>4, <1>7, <2>1, <2>2
<1>10. RepeatsReported'
  <2> SUFFICES ASSUME NEW r \in Req, NEW m \in DOMAIN queue', NEW i \in 1..m - 1,
                      queue'[i].plans[r] # None, queue'[i].plans[r] = queue'[m].plans[r]
               PROVE  \E j \in i + 1..m : r \in queue'[j].preempted
    BY DEF RepeatsReported
  <2>1. i \in 1..Len(queue) /\ queue'[i] = queue[i]
    BY <1>4, <1>7
  <2>2. CASE m = Len(queue) + 1
    <3>1. r \in A
      BY <1>5, <1>7, <2>2
    <3>2. queue[i].plans[r].semantic = computed[r] /\ Live(r) /\ building.sched[r] # None
      BY <1>6, <1>7, <2>1, <2>2, <3>1 DEF Live
    <3>3. Reported(r, i) \/ Reached(r, queue[i].plans[r])
      BY <1>4, <2>1, <3>2 DEF BarrierInv, PlansPass
    <3>4. ~ Reached(r, queue[i].plans[r])
      BY <1>2, <1>3, <3>2 DEF Reached
    <3> QED
      BY <1>8, <2>1, <2>2, <3>3, <3>4
  <2>3. CASE m \in 1..Len(queue)
    <3>1. queue'[m] = queue[m]
      BY <1>7, <2>3
    <3>2. PICK j \in i + 1..m : r \in queue[j].preempted
      BY <1>4, <2>1, <2>3, <3>1 DEF BarrierInv, RepeatsReported
    <3>3. queue'[j] = queue[j]
      BY <1>4, <1>7, <2>1, <2>3
    <3> QED
      BY <3>2, <3>3
  <2> QED
    BY <1>4, <1>7, <2>2, <2>3
<1> QED
  BY <1>9, <1>10

(* What is acknowledged is committed at once, and what is armed is not      *)
(* acknowledged yet.                                                        *)
LEMMA ClearedUnready ==
  ASSUME NoneReady(kv), NEW R, kv'.pending = Cleared(kv.pending, R, None)
  PROVE  NoneReady(kv)'
BY DEF NoneReady, Cleared

LEMMA FreedUnready ==
  ASSUME BarrierInv, NEW R \in SUBSET Req, kv' = Freed(kv, R)
  PROVE  NoneReady(kv)'
<1>1. kv \in KV /\ NoneReady(kv)
  BY ExtentTypes DEF BarrierInv
<1>2. kv'.pending = Cleared(kv.pending, R, None)
  BY <1>1 DEF Freed, KV
<1> QED
  BY <1>1, <1>2, ClearedUnready

LEMMA BeginScheduleUnready ==
  ASSUME BarrierInv, BeginSchedule
  PROVE  NoneReady(kv)'
<1>1. kv \in KV /\ NoneReady(kv) /\ finishedIds \in SUBSET Req
  BY ExtentTypes DEF BarrierInv, TypeOK
<1> SUFFICES ASSUME Async PROVE NoneReady(kv)'
  BY DEF NoneReady
<1>2. kv' = Discarded(kv, finishedIds)
  BY DEF BeginSchedule, BeforeSchedule
<1> DEFINE d == PendingDiscarded(kv, finishedIds)
<1>3. d \in KV /\ d.pending = Cleared(kv.pending, finishedIds, None)
  BY <1>1, PendingDiscardedType, PendingDiscardedKeeps
<1>4. kv' = [d EXCEPT !.active = Cleared(@, finishedIds, None)]
  BY <1>2 DEF Discarded
<1> HIDE DEF d
<1>5. kv'.pending = Cleared(kv.pending, finishedIds, None)
  BY <1>3, <1>4 DEF KV
<1> QED
  BY <1>1, <1>5, ClearedUnready

LEMMA EndScheduleArms ==
  ASSUME BarrierInv, EndSchedule
  PROVE  /\ NoneReady(kv)'
         /\ \A r \in Req : kv'.active[r] = None \/ kv'.active[r] = kv.active[r]
<1>1. PICK R \in SUBSET Req : \E A, dest : kv' = Armed(Discarded(kv, R), A, dest)
  <2>1. building # None /\ building \in Output /\ finishedIds \in SUBSET Req
        /\ resetIds \in SUBSET Req
    BY ExtentTypes DEF BarrierInv, TypeOK, EndSchedule
  <2> DEFINE output == [building EXCEPT !.finished = finishedIds, !.preempted = @ \cup resetIds]
  <2>2. output.preempted \cup output.finished \in SUBSET Req
    BY <2>1 DEF Output
  <2>3. \E A, dest : AfterSchedule(kv, output, A, dest)
    BY DEF EndSchedule
  <2> HIDE DEF output
  <2> QED
    BY <2>2, <2>3 DEF AfterSchedule
<1>2. PICK A, dest : kv' = Armed(Discarded(kv, R), A, dest)
  BY <1>1
<1>3. kv \in KV
  BY ExtentTypes DEF BarrierInv
<1> DEFINE d == PendingDiscarded(kv, R)
           k == Discarded(kv, R)
<1>4. k \in KV /\ d \in KV /\ d.pending = Cleared(kv.pending, R, None) /\ d.active = kv.active
  BY <1>3, PendingDiscardedType, DiscardedType, PendingDiscardedKeeps
<1>5. k = [d EXCEPT !.active = Cleared(@, R, None)]
  BY DEF Discarded
<1> HIDE DEF d, k
<1>6. k.pending = Cleared(kv.pending, R, None) /\ k.active = Cleared(kv.active, R, None)
  BY <1>4, <1>5 DEF KV
<1> DEFINE plan == [r \in Req |-> PlanFor(k, r, dest[r])]
           previous == [r \in Req |-> IF Async THEN k.eligible[r] ELSE None]
<1>7. kv'.active = k.active
      /\ kv'.pending = [r \in Req |-> IF r \in A
           THEN [plan |-> plan[r], ready |-> FALSE, previous |-> previous[r]]
           ELSE k.pending[r]]
  BY <1>2, <1>4 DEF Armed, KV, k
<1> HIDE DEF plan, previous
<1>8. ASSUME NEW r \in Req
      PROVE  /\ kv'.pending[r] # None => kv'.pending[r] = kv.pending[r] \/ ~kv'.pending[r].ready
             /\ kv'.active[r] = None \/ kv'.active[r] = kv.active[r]
  BY <1>6, <1>7 DEF Cleared
<1>9. NoneReady(kv)
  BY DEF BarrierInv
<1> QED
  BY <1>8, <1>9 DEF NoneReady

LEMMA CommittedUnready ==
  ASSUME NEW k \in KV, NEW defer
  PROVE  /\ \A r \in Req : Committed(k, defer).pending[r] # None =>
              ~ Committed(k, defer).pending[r].ready
         /\ \A r \in Req \ Ready(k) : Committed(k, defer).pending[r] = k.pending[r]
<1> DEFINE R == Committable(k)
           d == PendingDiscarded(k, Ready(k) \ R)
           j == Committed(k, defer)
<1>1. R \subseteq Ready(k) /\ Ready(k) \in SUBSET Req
  BY DEF Committable, Ready
<1>2. d \in KV /\ d.pending = Cleared(k.pending, Ready(k) \ R, None)
  BY <1>1, PendingDiscardedType, PendingDiscardedKeeps
<1>3. j.pending = Cleared(d.pending, R, None)
  BY <1>2 DEF Committed, KV
<1> HIDE DEF j, d, R
<1>4. \A r \in Req : j.pending[r] = IF r \in Ready(k) THEN None ELSE k.pending[r]
  BY <1>1, <1>2, <1>3 DEF Cleared
<1> QED
  BY <1>4 DEF Ready, j

LEMMA UpdateFromOutputUnready ==
  ASSUME BarrierInv, NEW F \in SUBSET Req, UpdateFromOutput(F)
  PROVE  /\ NoneReady(kv)'
         /\ \A r \in Req \ F : kv.pending[r] # None /\ kv'.pending[r] = None =>
              Head(queue).plans[r] = kv.pending[r].plan
<1> DEFINE f == Freed(kv, F)
           k == Acknowledged(f, Head(queue).plans)
           d == Drained(k)
<1>1. kv \in KV /\ NoneReady(kv) /\ Disciplined(kv)
  BY ExtentTypes DEF BarrierInv, TransactionInv
<1>2. f \in KV /\ \A r \in Req \ F : f.pending[r] = kv.pending[r]
  <2>1. f.pending = Cleared(kv.pending, F, None)
    BY <1>1 DEF Freed, KV
  <2> QED
    BY <1>1, <2>1, FreedType DEF Cleared
<1>3. kv' = AfterModelOutput(k)
  BY DEF UpdateFromOutput
<1> HIDE DEF f
<1>4. /\ k \in KV
      /\ \A r \in Req : f.pending[r] # None /\ Head(queue).plans[r] # f.pending[r].plan =>
           k.pending[r] = f.pending[r]
      /\ \A r \in Req : f.pending[r] # None => k.pending[r] # None
  <2>1. k.pending = [r \in Req |->
           IF f.pending[r] # None /\ Head(queue).plans[r] = f.pending[r].plan
           THEN [f.pending[r] EXCEPT !.ready = TRUE] ELSE f.pending[r]]
    BY <1>2 DEF Acknowledged, KV
  <2>2. k \in KV /\ \A r \in Req : Kept(f, k, r)
    BY <1>2, AcknowledgedType, AcknowledgedKeeps
  <2> QED
    BY <2>1, <2>2 DEF Kept
<1> HIDE DEF k
<1>5. d \in KV /\ d.pending = k.pending
  BY <1>4, DrainedType DEF Drained, KV
<1> HIDE DEF d
<1>6. CASE Async
  <2>1. kv' = Committed(d, Depth - 1)
    BY <1>3, <1>6 DEF AfterModelOutput, d
  <2>2. NoneReady(kv)'
    BY <1>5, <2>1, CommittedUnready DEF NoneReady
  <2>3. ASSUME NEW r \in Req \ F, kv.pending[r] # None, kv'.pending[r] = None,
               Head(queue).plans[r] # kv.pending[r].plan
        PROVE  FALSE
    <3>1. d.pending[r] = kv.pending[r] /\ ~ kv.pending[r].ready
      BY <1>1, <1>2, <1>4, <1>5, <1>6, <2>3 DEF NoneReady
    <3>2. r \notin Ready(d)
      BY <3>1 DEF Ready
    <3>3. kv'.pending[r] = d.pending[r]
      BY <1>5, <2>1, <3>2, CommittedUnready
    <3> QED
      BY <2>3, <3>1, <3>3
  <2> QED
    BY <2>2, <2>3
<1>7. CASE ~Async
  <2>1. kv' = k
    BY <1>3, <1>7 DEF AfterModelOutput
  <2>2. \A r \in Req \ F : kv.pending[r] # None => kv'.pending[r] # None
    BY <1>2, <1>4, <2>1
  <2> QED
    BY <1>7, <2>2 DEF NoneReady
<1> QED
  BY <1>6, <1>7

LEMMA NextUnready == BarrierInv /\ [Next]_vars => NoneReady(kv)'
<1> SUFFICES ASSUME BarrierInv, [Next]_vars
             PROVE  NoneReady(kv)'
  OBVIOUS
<1>1. CASE BeginSchedule
  BY <1>1, BeginScheduleUnready
<1>2. ASSUME NEW r \in Req, Admit(r) \/ ScheduleRunning(r)
      PROVE  NoneReady(kv)'
  <2>1. \E hits, new, start, n, kind, c : Enters(r, hits, new, start, n, kind, c)
    BY <1>2, AdmitEnters, ScheduleRunningEnters DEF BarrierInv
  <2>2. kv'.pending = kv.pending
    BY <2>1, EnteredIs DEF BarrierInv, Entered
  <2> QED
    BY <2>2 DEF BarrierInv, NoneReady
<1>3. ASSUME NEW r \in Req, Preempt(r) \/ Abort(r)
      PROVE  NoneReady(kv)'
  BY <1>3, FreedUnready DEF Preempt, Abort
<1>4. CASE EndSchedule
  BY <1>4, EndScheduleArms
<1>5. ASSUME NEW F \in SUBSET Req, UpdateFromOutput(F)
      PROVE  NoneReady(kv)'
  BY <1>5, UpdateFromOutputUnready
<1>6. CASE ResetPrefixCache
  <2> DEFINE R == {r \in Req : status[r] = "running"}
             k == Freed(kv, R)
  <2>1. kv \in KV /\ k \in KV
    BY ExtentTypes, FreedType DEF BarrierInv
  <2>2. kv' = k \/ kv' = [k EXCEPT !.hash = [b \in Block |-> Unhashed]]
    BY <1>6 DEF ResetPrefixCache
  <2>3. k.pending = Cleared(kv.pending, R, None)
    BY <2>1 DEF Freed, KV
  <2> HIDE DEF k, R
  <2>4. kv'.pending = Cleared(kv.pending, R, None)
    BY <2>1, <2>2, <2>3 DEF KV
  <2> QED
    BY <2>4, ClearedUnready DEF BarrierInv
<1>7. CASE WorkerRuns \/ Terminated \/ UNCHANGED vars
  BY <1>7 DEF BarrierInv, NoneReady, WorkerRuns, Terminated, vars
<1> QED
  BY <1>1, <1>2, <1>3, <1>4, <1>5, <1>6, <1>7 DEF Next, SchedulerNext, EngineNext

LEMMA NextPass == BarrierInv /\ [Next]_vars => PlansPass' /\ RepeatsReported'
<1> SUFFICES ASSUME BarrierInv, [Next]_vars
             PROVE  PlansPass' /\ RepeatsReported'
  OBVIOUS
<1>1. /\ TypeOK /\ DOMAIN queue = 1..Len(queue) /\ Len(queue) \in Nat
      /\ building # None => building \in Output
      /\ status \in [Req -> {"waiting", "running", "preempted", "finished"}]
      /\ computed \in [Req -> Nat] /\ PlansPass /\ RepeatsReported
  BY ExtentTypes, BatchesAre DEF BarrierInv
<1>2. CASE BeginSchedule
  <2>1. /\ building = None /\ building' = EmptyOutput
        /\ UNCHANGED <<status, computed, resetIds, queue>>
    BY <1>2 DEF BeginSchedule
  <2>2. \A r \in Req : building'.sched[r] = None
    BY <2>1 DEF EmptyOutput
  <2>3. \A r \in Req : Live(r)' <=> Live(r)
    BY <2>1 DEF Live
  <2> QED
    BY <1>1, <2>1, <2>2, <2>3, SteadyPass DEF RepeatsReported
<1>3. ASSUME NEW r \in Req, Admit(r)
      PROVE  PlansPass' /\ RepeatsReported'
  <2>1. PICK hits, new, n, kind, c :
          Enters(r, hits, new, Len(hits) * BlockSize, n, kind, c) /\ n > 0
    BY <1>3, AdmitEnters DEF BarrierInv
  <2>2. queue' = queue
    BY <2>1 DEF Enters
  <2> QED
    BY <1>1, <2>1, <2>2, EnteredPass DEF RepeatsReported
<1>4. ASSUME NEW r \in Req, ScheduleRunning(r)
      PROVE  PlansPass' /\ RepeatsReported'
  <2>1. PICK new, n, c : /\ Enters(r, <<>>, new, computed[r], n, "cached", c)
                         /\ computed[r] < Known(r) => n > 0
    BY <1>4, ScheduleRunningEnters DEF BarrierInv
  <2>2. n > 0 /\ queue' = queue
    BY <1>4, <2>1 DEF BarrierInv, UnderWay, ScheduleRunning, Schedulable
  <2> QED
    BY <1>1, <2>1, <2>2, EnteredPass DEF RepeatsReported
<1>5. ASSUME NEW v \in Req, Preempt(v)
      PROVE  PlansPass' /\ RepeatsReported'
  <2>1. /\ building # None /\ building' = [building EXCEPT !.preempted = @ \cup {v}]
        /\ status' = [status EXCEPT ![v] = "preempted"] /\ status[v] = "running"
        /\ computed' = [computed EXCEPT ![v] = 0]
        /\ UNCHANGED <<resetIds, queue>>
    BY <1>5 DEF Preempt
  <2>2. building'.preempted = building.preempted \cup {v} /\ building'.sched = building.sched
        /\ building' \in Output
    BY <1>1, <2>1 DEF Output
  <2>3. building' # None
    BY <2>2, NoneAssumption
  <2>4. \A r \in Req : /\ Live(r)' => Live(r)
                       /\ r = v \/ (status'[r] = status[r] /\ computed'[r] = computed[r])
    BY <1>1, <2>1 DEF Live
  <2>5. PlansPass'
    BY <1>1, <2>1, <2>2, <2>3, <2>4, SteadyPass
  <2> QED
    BY <1>1, <2>1, <2>5 DEF RepeatsReported
<1>6. CASE EndSchedule
  BY <1>6, EndSchedulePass
<1>7. ASSUME NEW F \in SUBSET Req, UpdateFromOutput(F)
      PROVE  PlansPass' /\ RepeatsReported'
  BY <1>7, UpdateFromOutputPass
<1>8. ASSUME NEW v \in Req, Abort(v)
      PROVE  PlansPass' /\ RepeatsReported'
  <2>1. /\ building = None /\ status' = [status EXCEPT ![v] = "finished"]
        /\ computed' = [computed EXCEPT ![v] = 0]
        /\ UNCHANGED <<resetIds, queue, building>>
    BY <1>8 DEF Abort
  <2>2. \A r \in Req : Live(r)' =>
          Live(r) /\ status'[r] = status[r] /\ computed'[r] = computed[r]
    BY <1>1, <2>1 DEF Live
  <2>3. PlansPass'
    BY <1>1, <2>1, <2>2, SteadyPass
  <2> QED
    BY <1>1, <2>1, <2>3 DEF RepeatsReported
<1>9. CASE ResetPrefixCache
  <2>1. PICK R : R = {r \in Req : status[r] = "running"}
    OBVIOUS
  <2>2. /\ building = None /\ building' = None /\ resetIds' = resetIds \cup R
        /\ status' = [r \in Req |-> IF r \in R THEN "preempted" ELSE status[r]]
        /\ computed' = [r \in Req |-> IF r \in R THEN 0 ELSE computed[r]]
        /\ queue' = [i \in DOMAIN queue |-> [queue[i] EXCEPT !.sampled = @ \ R]]
    BY <1>9, <2>1 DEF ResetPrefixCache
  <2>3. /\ DOMAIN queue' = DOMAIN queue /\ Len(queue') = Len(queue)
    <3>1. queue' \in Seq(Output)
      BY <1>1, <1>9, NextType DEF Next, SchedulerNext, TypeOK
    <3> QED
      BY <1>1, <2>2, <3>1, LenProperties
  <2>4. ASSUME NEW i \in DOMAIN queue
        PROVE  queue'[i].plans = queue[i].plans /\ queue'[i].preempted = queue[i].preempted
    <3>1. queue[i] \in Output
      BY <1>1, BatchesAre
    <3> QED
      BY <2>2, <3>1 DEF Output
  <2>5. \A r \in Req : Live(r)' => /\ Live(r)
                                   /\ r \in resetIds' \/ ( /\ status'[r] = status[r]
                                                           /\ computed'[r] = computed[r])
    BY <1>1, <2>1, <2>2 DEF Live
  <2>6. PlansPass'
    BY <1>1, <2>2, <2>3, <2>4, <2>5, SteadyPass
  <2>7. RepeatsReported'
    <3> SUFFICES ASSUME NEW r \in Req, NEW o \in DOMAIN queue, NEW i \in 1..o - 1,
                        queue'[i].plans[r] # None, queue'[i].plans[r] = queue'[o].plans[r]
                 PROVE  \E j \in i + 1..o : r \in queue'[j].preempted
      BY <2>3 DEF RepeatsReported
    <3>1. i \in DOMAIN queue /\ \A j \in i + 1..o : j \in DOMAIN queue
      BY <1>1
    <3>2. \E j \in i + 1..o : r \in queue[j].preempted
      BY <1>1, <2>4, <3>1 DEF RepeatsReported
    <3> QED
      BY <2>4, <3>1, <3>2
  <2> QED
    BY <2>6, <2>7
<1>10. CASE WorkerRuns \/ Terminated \/ UNCHANGED vars
  <2>1. UNCHANGED <<status, computed, resetIds, queue, building>>
    BY <1>10 DEF WorkerRuns, Terminated, vars
  <2>2. \A r \in Req : Live(r)' <=> Live(r)
    BY <2>1 DEF Live
  <2>3. PlansPass'
    BY <1>1, <2>1, <2>2, SteadyPass
  <2> QED
    BY <1>1, <2>1, <2>3 DEF RepeatsReported
<1> QED
  BY <1>2, <1>3, <1>4, <1>5, <1>6, <1>7, <1>8, <1>9, <1>10
     DEF Next, SchedulerNext, EngineNext


LEMMA InitBarrier == Init => BarrierInv
<1> SUFFICES ASSUME Init
             PROVE  BarrierInv
  OBVIOUS
<1>1. ExtentInv
  BY InitExtent
<1>2. /\ queue = <<>> /\ \A r \in Req : status[r] = "waiting" /\ kv.pending[r] = None
  BY DEF Init
<1>3. DOMAIN queue = {}
  BY <1>2
<1> QED
  BY <1>1, <1>2, <1>3 DEF BarrierInv, UnderWay, PlansPass, RepeatsReported, NoneReady

(* A running request always has a chunk left, so that no chunk is empty; a  *)
(* plan is given again only after its request was computed further or its   *)
(* preemption reported; and under asynchronous scheduling no plan waits     *)
(* acknowledged: it is committed in the step that acknowledges it.          *)
THEOREM BarrierCorrect == Spec => []BarrierInv
<1>1. BarrierInv /\ [Next]_vars => BarrierInv'
  BY NextExtent, NextRunsOn, NextPass, NextUnready DEF BarrierInv
<1> QED
  BY InitBarrier, <1>1, PTL DEF Spec

(* Only an output commits, and what it commits is what its batch carried.   *)
LEMMA OnlyOutputsCommit ==
  ASSUME BarrierInv, [Next]_vars, ~\E F \in SUBSET Req : UpdateFromOutput(F),
         NEW r \in Req, kv'.active[r] # None, DOMAIN queue' # {}
  PROVE  kv'.active[r] = kv.active[r]
<1>1. /\ kv \in KV /\ finishedIds \in SUBSET Req /\ DOMAIN queue = 1..Len(queue)
      /\ Len(queue) \in Nat
  <2>1. TypeOK /\ kv \in KV
    BY ExtentTypes DEF BarrierInv
  <2> QED
    BY <2>1, BatchesAre DEF TypeOK
<1>2. CASE BeginSchedule
  <2>1. queue' = queue /\ Len(queue) < Depth /\ kv' = BeforeSchedule(kv, finishedIds)
    BY <1>2 DEF BeginSchedule
  <2>2. Async
    BY <1>1, <2>1, ModeAssumption
  <2> DEFINE d == PendingDiscarded(kv, finishedIds)
  <2>3. kv' = [d EXCEPT !.active = Cleared(@, finishedIds, None)]
    BY <2>1, <2>2 DEF BeforeSchedule, Discarded
  <2>4. d \in KV /\ d.active = kv.active
    BY <1>1, PendingDiscardedType, PendingDiscardedKeeps
  <2> HIDE DEF d
  <2>5. kv'.active = Cleared(kv.active, finishedIds, None)
    BY <2>3, <2>4 DEF KV
  <2> QED
    BY <2>5 DEF Cleared
<1>3. ASSUME NEW q \in Req, Admit(q)
      PROVE  kv'.active = kv.active
  <2>1. PICK hits, new, n, kind, c : Enters(q, hits, new, Len(hits) * BlockSize, n, kind, c)
    BY <1>3, AdmitEnters DEF BarrierInv
  <2> QED
    BY <2>1, EnteredIs DEF BarrierInv, Entered
<1>4. ASSUME NEW q \in Req, ScheduleRunning(q)
      PROVE  kv'.active = kv.active
  <2>1. PICK new, n, c : Enters(q, <<>>, new, computed[q], n, "cached", c)
    BY <1>4, ScheduleRunningEnters DEF BarrierInv
  <2> QED
    BY <2>1, EnteredIs DEF BarrierInv, Entered
<1>5. ASSUME NEW R \in SUBSET Req, kv'.active = Freed(kv, R).active
      PROVE  kv'.active[r] = kv.active[r]
  BY <1>1, <1>5 DEF Freed, KV, Cleared
<1>6. ASSUME NEW q \in Req, Preempt(q) \/ Abort(q)
      PROVE  kv'.active[r] = kv.active[r]
  <2>1. kv' = Freed(kv, {q})
    BY <1>6 DEF Preempt, Abort
  <2> QED
    BY <1>5, <2>1
<1>7. CASE EndSchedule
  BY <1>7, EndScheduleArms
<1>8. CASE ResetPrefixCache
  <2>1. PICK R \in SUBSET Req :
          kv' = Freed(kv, R) \/ kv' = [Freed(kv, R) EXCEPT !.hash = [b \in Block |-> Unhashed]]
    BY <1>8 DEF ResetPrefixCache
  <2>2. Freed(kv, R) \in KV
    BY <1>1, FreedType
  <2>3. kv'.active = Freed(kv, R).active
    BY <2>1, <2>2 DEF KV
  <2> QED
    BY <1>5, <2>3
<1>9. CASE WorkerRuns \/ Terminated \/ UNCHANGED vars
  BY <1>9 DEF WorkerRuns, Terminated, vars
<1> QED
  BY <1>2, <1>3, <1>4, <1>6, <1>7, <1>8, <1>9 DEF Next, SchedulerNext, EngineNext

LEMMA OutputsCommitTheirPlans ==
  ASSUME BarrierInv, BarrierInv', NEW F \in SUBSET Req, UpdateFromOutput(F),
         NEW r \in Req, kv.active[r] # kv'.active[r], kv'.active[r] # None,
         NEW i \in DOMAIN queue', queue'[i].plans[r] = kv.pending[r].plan
  PROVE  \E j \in 1..i : r \in queue'[j].preempted
<1>1. r \notin F
  <2>1. r \in F => status'[r] = "finished"
    BY DEF UpdateFromOutput
  <2>2. RestIdle'
    BY DEF BarrierInv, ExtentInv, Extent, AccountingInv
  <2> QED
    BY <2>1, <2>2 DEF RestIdle, Idle
<1>2. CommittedFrom(kv, kv', r)
  <2>1. Settles(kv, kv', r)
    BY <1>1, UpdateFromOutputSettles DEF BarrierInv
  <2> QED
    BY <2>1 DEF Settles, Kept
<1>3. kv.pending[r] # None /\ Head(queue).plans[r] = kv.pending[r].plan
  BY <1>1, <1>2, UpdateFromOutputUnready DEF CommittedFrom
<1>4. kv.pending[r].plan # None
  <2>1. kv.pending[r].plan \in Plan
    BY <1>3, ExtentTypes, KVFields DEF BarrierInv, Pending
  <2> QED
    BY <2>1, NoneAssumption
<1>5. /\ queue \in Seq(Output) /\ Len(queue) \in Nat /\ DOMAIN queue = 1..Len(queue)
      /\ queue # <<>> /\ queue' = Tail(queue)
  <2>1. queue' = Tail(queue) /\ ran > 0 /\ TypeOK
    BY ExtentTypes DEF UpdateFromOutput, BarrierInv
  <2> QED
    BY <2>1, BatchesAre, EmptySeq DEF TypeOK
<1>6. /\ Head(queue) = queue[1] /\ DOMAIN queue' = 1..Len(queue) - 1
      /\ \A k \in 1..Len(queue) - 1 : queue'[k] = queue[k + 1]
  <2>1. queue' \in Seq(Output) /\ Len(queue') = Len(queue) - 1
        /\ \A k \in 1..Len(queue) - 1 : queue'[k] = queue[k + 1]
    BY <1>5, HeadTailProperties
  <2>2. DOMAIN queue' = 1..Len(queue')
    BY <2>1, LenProperties
  <2> QED
    BY <2>1, <2>2
<1>7. i \in Nat /\ i + 1 \in DOMAIN queue /\ 1 \in 1..i + 1 - 1 /\ queue'[i] = queue[i + 1]
  BY <1>5, <1>6
<1>8. queue[1].plans[r] # None /\ queue[1].plans[r] = queue[i + 1].plans[r]
  BY <1>3, <1>4, <1>6, <1>7
<1>9. PICK j \in 1 + 1..i + 1 : r \in queue[j].preempted
  <2>1. \A m \in 1..i + 1 - 1 :
          queue[m].plans[r] # None /\ queue[m].plans[r] = queue[i + 1].plans[r] =>
            \E j \in m + 1..i + 1 : r \in queue[j].preempted
    BY <1>7 DEF BarrierInv, RepeatsReported
  <2> QED
    BY <1>7, <1>8, <2>1
<1>10. j - 1 \in 1..i /\ j - 1 \in 1..Len(queue) - 1 /\ j - 1 + 1 = j
  BY <1>5, <1>6, <1>7, <1>9
<1> QED
  BY <1>6, <1>9, <1>10

(* Compression commits on an output of the batch that carried its plan; and *)
(* when a batch still in flight carries the same plan, the request was      *)
(* preempted, and the worker is told so in between: it takes the second     *)
(* plan for a new one.                                                      *)
THEOREM OutputBarrier == Spec => CommitAfterOutput
<1>1. BarrierInv /\ BarrierInv' /\ [Next]_vars =>
        [\A r \in Req : kv.active[r] # kv'.active[r] /\ kv'.active[r] # None =>
           \A i \in DOMAIN queue' : queue'[i].plans[r] = kv.pending[r].plan =>
             \E j \in 1..i : r \in queue'[j].preempted]_vars
  <2> SUFFICES ASSUME BarrierInv, BarrierInv', [Next]_vars,
                      NEW r \in Req, kv.active[r] # kv'.active[r], kv'.active[r] # None,
                      NEW i \in DOMAIN queue', queue'[i].plans[r] = kv.pending[r].plan
               PROVE  \E j \in 1..i : r \in queue'[j].preempted
    OBVIOUS
  <2>1. PICK F \in SUBSET Req : UpdateFromOutput(F)
    BY OnlyOutputsCommit
  <2> QED
    BY <2>1, OutputsCommitTheirPlans
<1> QED
  BY <1>1, BarrierCorrect, PTL DEF Spec, CommitAfterOutput
=============================================================================
