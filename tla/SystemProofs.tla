---------------------------- MODULE SystemProofs ----------------------------
(***************************************************************************)
(* Proofs about scheduler and worker together, for every number of         *)
(* requests, blocks and batches in flight.                                 *)
(*                                                                         *)
(* The worker lags behind the scheduler by the batches in flight, so what  *)
(* relates the two is a trace: the worker states that the queued batches   *)
(* will lead to, one after the other.  Its last element, after the batch   *)
(* that is being built, is what the scheduler believes of the worker.      *)
(***************************************************************************)
EXTENDS KVCompression, SchedulerProofs

(* What of the worker's state decides whether it can run a batch.           *)
Snapshots == [row: [Req -> BlockList \cup {None}],
              pending: [Req -> WorkerPending \cup {None}],
              active: [Req -> Active \cup {None}]]
Snapshot == [row |-> row, pending |-> wpending, active |-> wactive]

(* The transaction that the worker has pending once a plan is materialized, *)
(* and what the next step of the request makes of it.                       *)
Commitment(plan) == [semantic |-> plan.semantic, physical |-> Budget, blocks |-> plan.dest]
NextRow(w, r) == IF w.pending[r] # None THEN w.pending[r].blocks ELSE w.row[r]
NextActive(w, r) ==
  IF w.pending[r] # None
  THEN [semantic |-> w.pending[r].semantic, physical |-> w.pending[r].physical]
  ELSE w.active[r]

(* A batch that runs through, from the state w on.                          *)
RowNext(w, o, r) ==
  IF o.sched[r] = None THEN IF r \in o.finished \cup o.preempted THEN None ELSE w.row[r]
  ELSE IF o.sched[r].kind # "cached" THEN o.sched[r].blocks
  ELSE (IF r \in Reset(o) THEN w.row[r] ELSE NextRow(w, r)) \o o.sched[r].blocks
ActiveNext(w, o, r) ==
  IF r \in Reset(o) THEN None
  ELSE IF o.sched[r] # None THEN NextActive(w, r) ELSE w.active[r]
PendingNext(w, o, r) ==
  IF o.plans[r] # None THEN Commitment(o.plans[r])
  ELSE IF r \in Reset(o) \/ o.sched[r] # None THEN None ELSE w.pending[r]
After(w, o) == [row     |-> [r \in Req |-> RowNext(w, o, r)],
                pending |-> [r \in Req |-> PendingNext(w, o, r)],
                active  |-> [r \in Req |-> ActiveNext(w, o, r)]]

(* What the worker needs of a batch o that leads to the state v: every token*)
(* has a slot, and a planned request is long enough and is where its plan   *)
(* was made.                                                                *)
EntryFits(o, v, r) ==
  o.sched[r] # None =>
    /\ o.sched[r].start >= 0 /\ o.sched[r].n >= 0 /\ v.row[r] \in BlockList
    /\ Slot(v.active[r], o.sched[r].start) >= 0
    /\ Slot(v.active[r], End(o, r)) <= Len(v.row[r]) * BlockSize
PlanFits(o, v, r) ==
  o.plans[r] # None =>
    /\ o.sched[r] # None /\ o.plans[r].semantic = End(o, r) /\ MaxTokens[r] >= MinOutput
    /\ v.active[r] = None => End(o, r) = Prompt[r]
    /\ Physical(v.active, r, End(o, r)) >= Threshold
    /\ Physical(v.active, r, End(o, r)) <= Len(v.row[r]) * BlockSize
    /\ ~Disagrees(o, v.row, r)
Fine(o, v) ==
  /\ \A r \in Req : EntryFits(o, v, r) /\ PlanFits(o, v, r)
  /\ SlotsDisjoint(o, v.row, v.active)

(* T[i] is the state of the worker once the i-th queued batch has run.      *)
Follows(T) ==
  /\ T \in [ran..Len(queue) -> Snapshots]
  /\ T[ran] = Snapshot
  /\ \A i \in ran + 1..Len(queue) : T[i] = After(T[i - 1], queue[i]) /\ Fine(queue[i], T[i])

(* The scheduler's state k, with statuses s, is right about the worker's w. *)
AgreesFor(k, s, w, r) ==
  /\ s[r] = "waiting" => w.pending[r] = None /\ w.active[r] = None
  /\ s[r] = "running" =>
       IF k.pending[r] = None
       THEN k.table[r] = NextRow(w, r) /\ k.active[r] = NextActive(w, r)
       ELSE /\ w.pending[r] = Commitment(k.pending[r].plan)
            /\ w.row[r] = k.table[r] /\ w.active[r] = k.active[r]
Agrees(k, s, w) == \A r \in Req : AgreesFor(k, s, w, r)

(* The same for the worker's state after all batches, the one that is being *)
(* built, b, included; w is its state after the queued ones.                *)
Reaches(k, s, b, w) ==
  IF b = None THEN Agrees(k, s, w)
  ELSE After(w, b) \in Snapshots /\ Fine(b, After(w, b)) /\ Agrees(k, s, After(w, b))
Traces(T) == Follows(T) /\ Reaches(kv, status, building, T[Len(queue)])
Tracked == \E T : Traces(T)

TrackInv == ExtentInv /\ ~raised /\ Tracked

----------------------------------------------------------------------------
(* The worker's steps.                                                      *)

LEMMA SnapshotFields ==
  ASSUME NEW w \in Snapshots, NEW r \in Req
  PROVE  /\ w.row[r] \in BlockList \cup {None}
         /\ w.pending[r] \in WorkerPending \cup {None}
         /\ w.active[r] \in Active \cup {None}
         /\ w.pending[r] # None =>
              w.pending[r].semantic \in Nat /\ w.pending[r].physical \in Nat
              /\ w.pending[r].blocks \in BlockList
BY DEF Snapshots, WorkerPending

LEMMA AfterIs ==
  ASSUME NEW w, NEW o, NEW r \in Req
  PROVE  /\ After(w, o).row[r] = RowNext(w, o, r)
         /\ After(w, o).pending[r] = PendingNext(w, o, r)
         /\ After(w, o).active[r] = ActiveNext(w, o, r)
BY DEF After

(* A transaction that is committed is not None.                             *)
LEMMA CommitmentIs ==
  ASSUME NEW plan \in Plan, plan.semantic >= 0
  PROVE  /\ Commitment(plan) \in WorkerPending /\ Commitment(plan) # None
         /\ Commitment(plan).blocks = plan.dest
         /\ Commitment(plan).semantic = plan.semantic /\ Commitment(plan).physical = Budget
<1>1. Commitment(plan) \in WorkerPending
  BY ConfigAssumption DEF Plan, Commitment, WorkerPending
<1> QED
  BY <1>1, WorkerNoneAssumption DEF Commitment

LEMMA OutputFields ==
  ASSUME NEW o \in Output, NEW r \in Req
  PROVE  /\ o.sched[r] \in Item \cup {None} /\ o.plans[r] \in Plan \cup {None}
         /\ o.sched[r] # None =>
              /\ o.sched[r].start \in Int /\ o.sched[r].n \in Int /\ End(o, r) \in Int
              /\ o.sched[r].kind \in {"new", "resumed", "cached"}
              /\ o.sched[r].blocks \in BlockList
         /\ o.plans[r] # None => o.plans[r].dest \in BlockList /\ o.plans[r].semantic \in Int
BY DEF Output, Item, Plan, End

(* The batch leads to a state of the right type.                            *)
LEMMA AfterType ==
  ASSUME NEW w \in Snapshots, NEW o \in Output,
         \A r \in Req : o.sched[r] # None => RowNext(w, o, r) \in BlockList,
         \A r \in Req : o.plans[r] # None => o.plans[r].semantic >= 0
  PROVE  After(w, o) \in Snapshots
<1>1. ASSUME NEW r \in Req
      PROVE  RowNext(w, o, r) \in BlockList \cup {None}
  <2>1. CASE o.sched[r] = None
    BY <2>1, SnapshotFields DEF RowNext
  <2>2. CASE o.sched[r] # None
    BY <2>2
  <2> QED
    BY <2>1, <2>2
<1>2. ASSUME NEW r \in Req
      PROVE  PendingNext(w, o, r) \in WorkerPending \cup {None}
  <2>1. CASE o.plans[r] # None
    <3>1. o.plans[r] \in Plan /\ o.plans[r].semantic >= 0
      BY <2>1, OutputFields
    <3> QED
      BY <2>1, <3>1, CommitmentIs DEF PendingNext
  <2>2. CASE o.plans[r] = None
    BY <2>2, SnapshotFields DEF PendingNext
  <2> QED
    BY <2>1, <2>2
<1>3. ASSUME NEW r \in Req
      PROVE  ActiveNext(w, o, r) \in Active \cup {None}
  <2>1. NextActive(w, r) \in Active \cup {None}
    BY SnapshotFields DEF NextActive, Active
  <2> QED
    BY <2>1, SnapshotFields DEF ActiveNext
<1> QED
  BY <1>1, <1>2, <1>3 DEF After, Snapshots

LEMMA WrittenBy ==
  ASSUME NEW o, NEW x
  PROVE  x \in Writes(o) <=>
           /\ x = <<x[1], x[2]>> /\ x[1] \in Req /\ o.sched[x[1]] # None
           /\ x[2] \in o.sched[x[1]].start..End(o, x[1]) - 1
BY DEF Writes

LEMMA SlotShift ==
  ASSUME NEW a \in Active \cup {None}, NEW p \in Int, NEW q \in Int
  PROVE  Slot(a, p) \in Int /\ Slot(a, p) - Slot(a, q) = p - q
<1>1. CASE a = None
  BY <1>1 DEF Slot
<1>2. CASE a # None
  <2>1. a.semantic \in Int /\ a.physical \in Int
    BY <1>2 DEF Active
  <2> QED
    BY <1>2, <2>1 DEF Slot
<1> QED
  BY <1>1, <1>2

(* Every write of a batch whose tokens all fit has a slot.                  *)
LEMMA FineSlots ==
  ASSUME NEW o \in Output, NEW v \in Snapshots, \A r \in Req : EntryFits(o, v, r)
  PROVE  SlotsExist(o, v.row, v.active)
<1>1. ASSUME NEW x \in Writes(o)
      PROVE  Slot(v.active[x[1]], x[2]) \in 0..Len(v.row[x[1]]) * BlockSize - 1
  <2> DEFINE r == x[1]
             p == x[2]
             l == Len(v.row[r]) * BlockSize
  <2>1. r \in Req /\ o.sched[r] # None /\ p \in o.sched[r].start..End(o, r) - 1
    BY WrittenBy
  <2>2. o.sched[r].start \in Int /\ End(o, r) \in Int
    BY <2>1, OutputFields
  <2>3. /\ v.row[r] \in BlockList /\ Slot(v.active[r], o.sched[r].start) >= 0
        /\ Slot(v.active[r], End(o, r)) <= l
    BY <2>1 DEF EntryFits
  <2>4. v.active[r] \in Active \cup {None}
    BY <2>1, SnapshotFields
  <2>5. l \in Int
    <3>1. Len(v.row[r]) \in Int
      BY <2>3, LenProperties DEF BlockList
    <3> QED
      BY <3>1, ScaledOrder
  <2> HIDE DEF r, p, l
  <2>6. p \in Int /\ p - o.sched[r].start >= 0 /\ End(o, r) - p > 0
    BY <2>1, <2>2
  <2>7. /\ Slot(v.active[r], p) \in Int
        /\ Slot(v.active[r], o.sched[r].start) \in Int /\ Slot(v.active[r], End(o, r)) \in Int
        /\ Slot(v.active[r], p) - Slot(v.active[r], o.sched[r].start) = p - o.sched[r].start
        /\ Slot(v.active[r], End(o, r)) - Slot(v.active[r], p) = End(o, r) - p
    BY <2>2, <2>4, <2>6, SlotShift
  <2>8. Slot(v.active[r], p) \in 0..l - 1
    BY <2>3, <2>5, <2>6, <2>7
  <2> QED
    BY <2>8 DEF r, p, l
<1> QED
  BY <1>1 DEF SlotsExist

(* A batch o that has run through and led to the state v: the requests with  *)
(* a plan kept some Budget of their tokens, in order.                       *)
PlansOf(o) == {r \in Req : o.plans[r] # None}
RanThrough(o, v) ==
  /\ Snapshot' = v /\ raised' = raised /\ seen' = SeenAfter(o)
  /\ \E keep :
       /\ \A r \in PlansOf(o) : keep[r] \in Selections(Physical(v.active, r, End(o, r)))
       /\ mem' = Materialized(AfterForward(o, v.row, v.active), o, v.row, PlansOf(o), keep)

(* A fine batch runs through and leads where the trace says.                *)
LEMMA ExecuteIs ==
  ASSUME Execute, Snapshot \in Snapshots, queue[ran + 1] \in Output,
         Fine(queue[ran + 1], After(Snapshot, queue[ran + 1])),
         After(Snapshot, queue[ran + 1]) \in Snapshots
  PROVE  RanThrough(queue[ran + 1], After(Snapshot, queue[ran + 1]))
<1> DEFINE o == queue[ran + 1]
           w == Snapshot
           v == After(w, o)
           rows == RowsAfter(o)
           act == ActiveAfter(o)
           m == AfterForward(o, rows, act)
           P == PlansOf(o)
<1>1. /\ ~raised /\ row' = rows /\ wactive' = act /\ seen' = SeenAfter(o)
      /\ IF SlotsExist(o, rows, act) /\ SlotsDisjoint(o, rows, act)
         THEN Compressed(m, o, rows, act)
         ELSE raised' = TRUE /\ UNCHANGED <<mem, wpending>>
  BY DEF Execute
<1>2. o \in Output /\ w \in Snapshots /\ v \in Snapshots /\ Fine(o, v)
  OBVIOUS
<1>3. w.row = row /\ w.pending = wpending /\ w.active = wactive
  BY DEF Snapshot
<1> HIDE DEF o, w, m
<1>4. \A r \in Req : r \in Committing(o) <=> r \notin Reset(o) /\ w.pending[r] # None /\ o.sched[r] # None
  BY <1>3 DEF Committing
<1>5. rows = v.row
  <2>1. \A r \in Req : rows[r] = RowNext(w, o, r)
    BY <1>3, <1>4 DEF RowsAfter, RowNext, NextRow
  <2> QED
    BY <2>1 DEF RowsAfter, After
<1>6. act = v.active
  <2>1. \A r \in Req : act[r] = ActiveNext(w, o, r)
    BY <1>3, <1>4 DEF ActiveAfter, ActiveNext, NextActive
  <2> QED
    BY <2>1 DEF ActiveAfter, After
<1>7. \A r \in Req : o.plans[r] # None => PlanFits(o, v, r)
  BY <1>2 DEF Fine
<1> HIDE DEF rows, act
<1>8. Compressed(m, o, rows, act)
  BY <1>1, <1>2, <1>5, <1>6, FineSlots DEF Fine
<1>9. \A r \in Req : PendingAfter(o)[r] = IF r \in Reset(o) \/ r \in Committing(o) THEN None
                                          ELSE w.pending[r]
  BY <1>3 DEF PendingAfter
<1>10. \A r \in Req : o.sched[r] # None => PendingAfter(o)[r] = None
                                           /\ SeenAfter(o)[r] = End(o, r)
  BY <1>4, <1>9 DEF SeenAfter
<1>11. Planned(o, act) = P /\ Due(o, act) = P
  <2>1. \A r \in P : r \in Planned(o, act)
    BY <1>6, <1>7, <1>10 DEF PlansOf, Planned, PlanFits
  <2>2. \A r \in P : r \in Due(o, act)
    BY <1>6, <1>7, <1>10, <2>1 DEF PlansOf, Due, PlanFits
  <2>3. \A r \in Planned(o, act) : r \in P
    BY DEF PlansOf, Planned
  <2>4. Due(o, act) \subseteq Planned(o, act)
    BY DEF Due
  <2> QED
    BY <2>1, <2>2, <2>3, <2>4
<1>12. \A r \in P : SeenAfter(o)[r] = o.plans[r].semantic /\ ~Disagrees(o, rows, r)
  BY <1>5, <1>7, <1>10 DEF PlansOf, PlanFits
<1> HIDE DEF P
<1>13. /\ raised' = raised
       /\ \E keep :
            /\ \A r \in P : keep[r] \in Selections(Physical(act, r, SeenAfter(o)[r]))
            /\ mem' = Materialized(m, o, rows, P, keep)
       /\ wpending' = [r \in Req |-> IF r \in P
             THEN [semantic |-> SeenAfter(o)[r], physical |-> Budget, blocks |-> o.plans[r].dest]
             ELSE PendingAfter(o)[r]]
  BY <1>8, <1>11, <1>12 DEF Compressed
<1>14. wpending' = v.pending
  <2>1. ASSUME NEW r \in Req
        PROVE  wpending'[r] = PendingNext(w, o, r)
    <3>1. CASE r \in P
      <4>1. o.plans[r] # None
        BY <3>1 DEF P, PlansOf
      <4>2. wpending'[r] = [semantic |-> o.plans[r].semantic, physical |-> Budget,
                            blocks |-> o.plans[r].dest]
        BY <1>12, <1>13, <3>1
      <4> QED
        BY <4>1, <4>2 DEF PendingNext, Commitment
    <3>2. CASE r \notin P
      <4>1. o.plans[r] = None /\ wpending'[r] = PendingAfter(o)[r]
        BY <1>13, <3>2 DEF P, PlansOf
      <4> QED
        BY <1>4, <1>9, <4>1 DEF PendingNext
    <3> QED
      BY <3>1, <3>2
  <2> QED
    BY <1>13, <2>1 DEF After
<1>15. row' = v.row /\ wactive' = v.active
  BY <1>1, <1>5, <1>6
<1>16. Snapshot' = v
  BY <1>14, <1>15 DEF Snapshot, After
<1>17. \A r \in P : SeenAfter(o)[r] = End(o, r)
  BY <1>7, <1>10 DEF P, PlansOf, PlanFits
<1>18. \E keep :
         /\ \A r \in P : keep[r] \in Selections(Physical(v.active, r, End(o, r)))
         /\ mem' = Materialized(AfterForward(o, v.row, v.active), o, v.row, P, keep)
  <2>1. PICK keep : /\ \A r \in P : keep[r] \in Selections(Physical(act, r, SeenAfter(o)[r]))
                    /\ mem' = Materialized(m, o, rows, P, keep)
    BY <1>13
  <2>2. \A r \in P : keep[r] \in Selections(Physical(v.active, r, End(o, r)))
    BY <1>6, <1>17, <2>1
  <2>3. mem' = Materialized(AfterForward(o, v.row, v.active), o, v.row, P, keep)
    BY <1>5, <1>6, <2>1 DEF m
  <2> QED
    BY <2>2, <2>3
<1> QED
  BY <1>1, <1>13, <1>16, <1>18 DEF RanThrough, P, o, w

LEMMA QueuedAre ==
  ASSUME TypeOK
  PROVE  /\ Len(queue) \in Nat /\ ran \in 0..Len(queue) /\ DOMAIN queue = 1..Len(queue)
         /\ \A i \in 1..Len(queue) : queue[i] \in Output
BY LenProperties, ElementOfSeq DEF TypeOK

LEMMA FollowsTypes ==
  ASSUME TypeOK, NEW T, Follows(T)
  PROVE  Snapshot \in Snapshots /\ T[Len(queue)] \in Snapshots
BY QueuedAre DEF Follows

LEMMA ExecuteTracks ==
  ASSUME TrackInv, NEW T, Traces(T), NEW S,
         S = [i \in ran + 1..Len(queue) |-> T[i]],
         Execute
  PROVE  ~raised' /\ Traces(S)'
<1>1. Follows(T) /\ Reaches(kv, status, building, T[Len(queue)])
  BY DEF Traces
<1>2. /\ ran < Len(queue) /\ ran' = ran + 1
      /\ UNCHANGED <<kv, status, building, queue>>
  BY DEF Execute, WorkerRuns
<1>3. TypeOK /\ Len(queue) \in Nat /\ ran \in 0..Len(queue)
      /\ \A i \in 1..Len(queue) : queue[i] \in Output
  BY ExtentTypes, QueuedAre DEF TrackInv
<1>4. ran + 1 \in ran + 1..Len(queue) /\ ran + 1 \in 1..Len(queue) /\ ran + 1 - 1 = ran
      /\ ran + 1 \in ran..Len(queue)
  BY <1>2, <1>3
<1>5. T[ran + 1] = After(Snapshot, queue[ran + 1]) /\ Fine(queue[ran + 1], T[ran + 1])
      /\ T[ran + 1] \in Snapshots /\ Snapshot \in Snapshots
  BY <1>1, <1>3, <1>4, FollowsTypes DEF Follows
<1>6. Snapshot' = T[ran + 1] /\ ~raised'
  BY <1>3, <1>4, <1>5, ExecuteIs DEF RanThrough, TrackInv
<1>7. \A i \in ran + 1..Len(queue) : S[i] = T[i]
  OBVIOUS
<1>8. S \in [ran + 1..Len(queue) -> Snapshots]
  BY <1>1, <1>3 DEF Follows
<1>9. \A i \in ran + 1 + 1..Len(queue) :
         S[i] = After(S[i - 1], queue[i]) /\ Fine(queue[i], S[i])
  <2> SUFFICES ASSUME NEW i \in ran + 1 + 1..Len(queue)
               PROVE  S[i] = After(S[i - 1], queue[i]) /\ Fine(queue[i], S[i])
    OBVIOUS
  <2>1. i \in ran + 1..Len(queue) /\ i - 1 \in ran + 1..Len(queue)
    BY <1>3
  <2>2. T[i] = After(T[i - 1], queue[i]) /\ Fine(queue[i], T[i])
    BY <1>1, <2>1 DEF Follows
  <2> QED
    BY <1>7, <2>1, <2>2
<1>10. Follows(S)'
  BY <1>2, <1>4, <1>6, <1>7, <1>8, <1>9 DEF Follows
<1>11. Reaches(kv, status, building, S[Len(queue)])'
  <2>1. Len(queue) \in ran + 1..Len(queue)
    BY <1>2, <1>3
  <2>2. S[Len(queue)] = T[Len(queue)]
    BY <1>7, <2>1
  <2> QED
    BY <1>1, <1>2, <2>2
<1> QED
  BY <1>6, <1>10, <1>11 DEF Traces

----------------------------------------------------------------------------
(* The scheduler's steps.                                                   *)

(* A request that goes on as it was, or whose transaction is committed.     *)
LEMMA SettledAgrees ==
  ASSUME ExtentInv, NEW w \in Snapshots, NEW r \in Req, AgreesFor(kv, status, w, r),
         status'[r] = "waiting" => status[r] = "waiting",
         status'[r] = "running" => status[r] = "running" /\ Settles(kv, kv', r)
  PROVE  AgreesFor(kv', status', w, r)
<1>1. CASE status'[r] = "running" /\ Kept(kv, kv', r)
  BY <1>1 DEF AgreesFor, Kept
<1>2. CASE status'[r] = "running" /\ CommittedFrom(kv, kv', r)
  <2> DEFINE plan == kv.pending[r].plan
  <2>1. /\ kv.pending[r] # None /\ kv'.pending[r] = None /\ kv'.table[r] = plan.dest
        /\ kv'.active[r] = [semantic |-> plan.semantic, physical |-> Budget]
        /\ status[r] = "running"
    BY <1>2 DEF CommittedFrom
  <2>2. plan \in Plan /\ plan.semantic >= 0
    <3>1. kv.pending[r] \in Pending
      BY <2>1, ExtentTypes, KVFields
    <3>2. computed[r] = plan.semantic /\ computed[r] \in Nat
      BY <2>1, ExtentTypes DEF TransactionInv, PendingSourceStable
    <3> QED
      BY <3>1, <3>2 DEF Pending
  <2>3. w.pending[r] = Commitment(plan)
    BY <2>1 DEF AgreesFor
  <2> HIDE DEF plan
  <2>4. NextRow(w, r) = plan.dest
        /\ NextActive(w, r) = [semantic |-> plan.semantic, physical |-> Budget]
    BY <2>2, <2>3, CommitmentIs DEF NextRow, NextActive
  <2> QED
    BY <1>2, <2>1, <2>4 DEF AgreesFor
<1>3. CASE status'[r] # "running"
  BY <1>3 DEF AgreesFor
<1> QED
  BY <1>1, <1>2, <1>3 DEF Settles

(* An action that neither queues a batch nor touches the worker.            *)
LEMMA SameFollows ==
  ASSUME UNCHANGED <<row, wpending, wactive, queue, ran>>, NEW T, Follows(T)
  PROVE  Follows(T)'
BY DEF Follows, Snapshot

LEMMA EmptyAfter ==
  ASSUME NEW w \in Snapshots
  PROVE  After(w, EmptyOutput) = w /\ Fine(EmptyOutput, w)
<1>1. \A r \in Req : EmptyOutput.sched[r] = None /\ EmptyOutput.plans[r] = None
                     /\ r \notin EmptyOutput.finished \cup EmptyOutput.preempted
                     /\ r \notin Reset(EmptyOutput)
  BY DEF EmptyOutput, Reset
<1>2. \A r \in Req : RowNext(w, EmptyOutput, r) = w.row[r]
                     /\ PendingNext(w, EmptyOutput, r) = w.pending[r]
                     /\ ActiveNext(w, EmptyOutput, r) = w.active[r]
  BY <1>1 DEF RowNext, PendingNext, ActiveNext
<1>3. /\ w.row = [r \in Req |-> w.row[r]] /\ w.pending = [r \in Req |-> w.pending[r]]
      /\ w.active = [r \in Req |-> w.active[r]]
      /\ w = [row |-> w.row, pending |-> w.pending, active |-> w.active]
  BY DEF Snapshots
<1>4. After(w, EmptyOutput) = w
  BY <1>2, <1>3 DEF After
<1>5. \A r \in Req : EntryFits(EmptyOutput, w, r) /\ PlanFits(EmptyOutput, w, r)
  BY <1>1 DEF EntryFits, PlanFits
<1>6. Writes(EmptyOutput) = {}
  BY <1>1 DEF Writes
<1> QED
  BY <1>4, <1>5, <1>6 DEF Fine, SlotsDisjoint

LEMMA BeginScheduleTracks ==
  ASSUME TrackInv, NEW T, Traces(T), ExtentInv', BeginSchedule, UNCHANGED wvars
  PROVE  Traces(T)'
<1>1. Follows(T) /\ Reaches(kv, status, building, T[Len(queue)])
  BY DEF Traces
<1> DEFINE w == T[Len(queue)]
<1>2. /\ kv' = BeforeSchedule(kv, finishedIds) /\ building' = EmptyOutput /\ building = None
      /\ UNCHANGED <<status, queue, ran>>
  BY DEF BeginSchedule
<1>3. ExtentInv /\ kv \in KV /\ finishedIds \in SUBSET Req /\ Sourced(kv) /\ Announced
  BY ExtentTypes, PlansAreSourced DEF TrackInv, ExtentInv, Extent, TypeOK
<1>4. w \in Snapshots /\ Agrees(kv, status, w)
  BY <1>1, <1>2, <1>3, FollowsTypes, ExtentTypes DEF Reaches
<1>5. \A r \in Req \ finishedIds : Settles(kv, kv', r)
  BY <1>2, <1>3, BeforeScheduleSettles
<1> HIDE DEF w
<1>6. Agrees(kv', status', w)
  <2> SUFFICES ASSUME NEW r \in Req
               PROVE  AgreesFor(kv', status', w, r)
    BY DEF Agrees
  <2>1. status[r] = "running" => r \notin finishedIds
    BY <1>3 DEF Announced
  <2> QED
    BY <1>2, <1>3, <1>4, <1>5, <2>1, SettledAgrees DEF Agrees
<1>7. building' # None
  <2>1. building' \in Output
    BY <1>2, ConfigAssumption DEF EmptyOutput, Output
  <2> QED
    BY <2>1, NoneAssumption
<1>8. Reaches(kv', status', building', w)
  BY <1>2, <1>4, <1>6, <1>7, EmptyAfter DEF Reaches
<1>9. Follows(T)'
  BY <1>1, <1>2, SameFollows DEF wvars
<1>10. Reaches(kv, status, building, T[Len(queue)])'
  BY <1>2, <1>8 DEF w
<1> QED
  BY <1>9, <1>10 DEF Traces

(* The slots of a block list.                                               *)
LEMMA SlotIndex ==
  ASSUME NEW l \in Nat, NEW s \in 0..l * BlockSize - 1
  PROVE  /\ s \div BlockSize + 1 \in 1..l
         /\ (s \div BlockSize + 1) * BlockSize > s
         /\ s = (s \div BlockSize) * BlockSize + (s % BlockSize)
         /\ s % BlockSize \in 0..BlockSize - 1 /\ s \div BlockSize \in Int
<1> DEFINE k == s \div BlockSize
           m == s % BlockSize
           lb == l * BlockSize
<1>1. BlockSize \in Nat \ {0}
  BY ConfigAssumption
<1>2. lb \in Int /\ s \in Int /\ 0 <= s /\ s < lb
  <2>1. lb \in Int
    BY ScaledOrder
  <2> QED
    BY <2>1
<1>3. s = BlockSize * k + m /\ m \in 0..BlockSize - 1 /\ k \in Int
  BY <1>1, <1>2, DivisionOf
<1> HIDE DEF k, m
<1>4. s = k * BlockSize + m /\ k * BlockSize \in Int
  <2>1. BlockSize * k = k * BlockSize
    BY <1>1, <1>3
  <2> QED
    BY <1>3, <2>1, ScaledOrder
<1>5. k >= 0
  <2> SUFFICES ASSUME k < 0
               PROVE  FALSE
    BY <1>3
  <2>1. k * BlockSize + BlockSize <= 0 * BlockSize
    BY <1>3, ScaledOrder
  <2> QED
    BY <1>1, <1>2, <1>3, <1>4, <2>1
<1>6. k < l
  <2> SUFFICES ASSUME l <= k
               PROVE  FALSE
    BY <1>3
  <2>1. lb <= k * BlockSize
    BY <1>3, ScaledOrder
  <2> QED
    BY <1>1, <1>2, <1>3, <1>4, <2>1
<1>7. k * BlockSize + BlockSize <= (k + 1) * BlockSize /\ (k + 1) * BlockSize \in Int
  <2>1. k + 1 \in Int /\ k < k + 1
    BY <1>3
  <2> QED
    BY <1>3, <2>1, ScaledOrder
<1>8. (k + 1) * BlockSize > s
  BY <1>1, <1>2, <1>3, <1>4, <1>7
<1>9. k + 1 \in 1..l /\ s = k * BlockSize + m
  BY <1>3, <1>4, <1>5, <1>6
<1> QED
  BY <1>3, <1>8, <1>9, Zenon DEF k, m

(* The request that enters the batch, in the state its batch leads to.      *)
LEMMA EnteredRequest ==
  ASSUME ExtentInv, NEW r \in Req, NEW hits, NEW new, NEW start, NEW n, NEW kind, NEW c,
         Enters(r, hits, new, start, n, kind, c), NEW w \in Snapshots,
         AgreesFor(kv, status, After(w, building), r)
  PROVE  /\ RowNext(w, building', r) = kv'.table[r]
         /\ ActiveNext(w, building', r) = kv'.active[r]
         /\ PendingNext(w, building', r) = None
<1> DEFINE o == building
           v == After(w, o)
           p == building'
           item == [start |-> start, n |-> n, kind |-> kind, blocks |-> hits \o new]
<1>1. /\ kv'.table = [kv.table EXCEPT ![r] = @ \o hits \o new] /\ kv'.active = kv.active
      /\ p.sched = [o.sched EXCEPT ![r] = item]
      /\ p.plans = o.plans /\ p.preempted = o.preempted /\ p.finished = o.finished
      /\ o \in Output
  <2>1. Entered(r, hits, new, start, n, kind)
    BY EnteredIs
  <2> QED
    BY <2>1 DEF Entered
<1>2. /\ o # None /\ o.sched[r] = None /\ kv.pending[r] = None
      /\ hits \in BlockList /\ new \in BlockList /\ kind \in {"new", "resumed", "cached"}
      /\ Continues(r, hits, start, n, kind) \/ Starts(r, hits, start, n, kind)
  BY DEF Enters
<1>3. o.finished = {} /\ o.plans[r] = None /\ (r \in o.preempted => status[r] # "running")
  BY <1>2 DEF ExtentInv, Extent, BatchAgrees
<1>4. kv \in KV /\ o.sched \in [Req -> Item \cup {None}]
  BY <1>1, ExtentTypes DEF Output
<1>5. p.sched[r] = item /\ p.sched[r] # None /\ p.plans[r] = None
      /\ kv'.table[r] = kv.table[r] \o hits \o new /\ kv'.active[r] = kv.active[r]
  <2>1. p.sched[r] = item
    BY <1>1, <1>4
  <2>2. item # None
    <3>1. hits \o new \in BlockList
      BY <1>2, ConcatProperties DEF BlockList
    <3>2. item \in Item
      BY <1>2, <3>1 DEF Item, Enters
    <3> QED
      BY <3>2, NoneAssumption
  <2> QED
    BY <1>1, <1>3, <1>4, <2>1, <2>2, KVFields
<1>6. p.sched[r].kind = kind /\ p.sched[r].blocks = hits \o new
  BY <1>5
<1>7. r \in Reset(p) <=> r \in o.preempted \/ kind = "resumed"
  BY <1>1, <1>3, <1>5, <1>6 DEF Reset
<1>8. r \in Reset(o) <=> r \in o.preempted
  BY <1>2, <1>3 DEF Reset
<1> HIDE DEF item, p
<1>9. r \notin o.preempted =>
        v.row[r] = w.row[r] /\ v.pending[r] = w.pending[r] /\ v.active[r] = w.active[r]
  BY <1>2, <1>3, <1>8, AfterIs DEF RowNext, PendingNext, ActiveNext
<1>10. PendingNext(w, p, r) = None
  BY <1>5 DEF PendingNext
<1> HIDE DEF v
<1>11. CASE Continues(r, hits, start, n, kind)
  <2>1. status[r] = "running" /\ hits = <<>> /\ kind = "cached" /\ r \notin o.preempted
    BY <1>3, <1>11 DEF Continues
  <2>2. kv.table[r] = NextRow(w, r) /\ kv.active[r] = NextActive(w, r)
    BY <1>2, <1>9, <2>1 DEF AgreesFor, v, NextRow, NextActive
  <2>3. kv.table[r] \o hits \o new = kv.table[r] \o new /\ hits \o new = new
    <3>1. kv.table[r] \in Seq(Block) /\ new \in Seq(Block)
      BY <1>2, <1>4, KVFields DEF BlockList
    <3> QED
      BY <2>1, <3>1, ConcatEmptySeq
  <2>4. RowNext(w, p, r) = NextRow(w, r) \o new
    BY <1>5, <1>6, <1>7, <2>1, <2>3 DEF RowNext
  <2>5. ActiveNext(w, p, r) = NextActive(w, r)
    BY <1>5, <1>7, <2>1 DEF ActiveNext
  <2> QED
    BY <1>5, <1>10, <2>2, <2>3, <2>4, <2>5 DEF p
<1>12. CASE Starts(r, hits, start, n, kind)
  <2>1. /\ status[r] \in {"waiting", "preempted"} /\ Idle(kv, r) /\ o.preempted = {}
        /\ kind = IF status[r] = "waiting" THEN "new" ELSE "resumed"
    BY <1>12 DEF Starts
  <2>2. kv.table[r] \o hits \o new = hits \o new /\ kv.active[r] = None
    <3>1. hits \in Seq(Block) /\ kv.table[r] = <<>>
      BY <1>2, <2>1 DEF BlockList, Idle
    <3> QED
      BY <2>1, <3>1, ConcatEmptySeq DEF Idle
  <2>3. RowNext(w, p, r) = hits \o new
    BY <1>5, <1>6, <2>1 DEF RowNext
  <2>4. ActiveNext(w, p, r) = None
    <3>1. CASE status[r] = "waiting"
      <4>1. w.active[r] = None /\ w.pending[r] = None
        BY <1>9, <2>1, <3>1 DEF AgreesFor, v
      <4> QED
        BY <1>5, <4>1 DEF ActiveNext, NextActive
    <3>2. CASE status[r] # "waiting"
      BY <1>7, <2>1, <3>2 DEF ActiveNext
    <3> QED
      BY <3>1, <3>2
  <2> QED
    BY <1>5, <1>10, <2>2, <2>3, <2>4 DEF p
<1> QED
  BY <1>2, <1>11, <1>12

(* The others, in the state the batch leads to.                             *)
LEMMA EnteredOther ==
  ASSUME ExtentInv, NEW r \in Req, NEW hits, NEW new, NEW start, NEW n, NEW kind, NEW c,
         Enters(r, hits, new, start, n, kind, c), NEW w, NEW q \in Req, q # r
  PROVE  /\ building'.sched[q] = building.sched[q] /\ building'.plans[q] = None
         /\ building'.sched[q] # None => End(building', q) = End(building, q)
         /\ RowNext(w, building', q) = RowNext(w, building, q)
         /\ ActiveNext(w, building', q) = ActiveNext(w, building, q)
         /\ PendingNext(w, building', q) = PendingNext(w, building, q)
         /\ kv'.table[q] = kv.table[q] /\ kv'.active[q] = kv.active[q]
         /\ kv'.pending[q] = kv.pending[q] /\ status'[q] = status[q]
<1> DEFINE o == building
           p == building'
<1>1. /\ kv'.table = [kv.table EXCEPT ![r] = @ \o hits \o new] /\ kv'.active = kv.active
      /\ kv'.pending = kv.pending
      /\ p.sched = [o.sched EXCEPT ![r] =
           [start |-> start, n |-> n, kind |-> kind, blocks |-> hits \o new]]
      /\ p.plans = o.plans /\ p.preempted = o.preempted /\ p.finished = o.finished
      /\ o \in Output
  <2>1. Entered(r, hits, new, start, n, kind)
    BY EnteredIs
  <2> QED
    BY <2>1 DEF Entered
<1>2. kv \in KV /\ o.sched \in [Req -> Item \cup {None}]
      /\ status \in [Req -> {"waiting", "running", "preempted", "finished"}]
  BY <1>1, ExtentTypes DEF Output
<1>3. status'[q] = status[q]
  BY <1>2 DEF Enters
<1>4. p.sched[q] = o.sched[q] /\ p.plans[q] = o.plans[q] /\ kv'.table[q] = kv.table[q]
      /\ kv'.active[q] = kv.active[q] /\ kv'.pending[q] = kv.pending[q]
  BY <1>1, <1>2, KVFields
<1>5. o.plans[q] = None
  BY DEF ExtentInv, Extent, BatchAgrees, Enters
<1>6. q \in Reset(p) <=> q \in Reset(o)
  BY <1>1, <1>4 DEF Reset
<1> QED
  BY <1>1, <1>3, <1>4, <1>5, <1>6 DEF RowNext, ActiveNext, PendingNext, End

(* The blocks it writes are unhashed and nobody else's.                     *)
LEMMA EnteredUnfilled ==
  ASSUME ExtentInv, NEW r \in Req, NEW hits, NEW new, NEW start, NEW n, NEW kind, NEW c,
         Enters(r, hits, new, start, n, kind, c)
  PROVE  \A i \in DOMAIN kv'.table[r] : i * BlockSize > PhysicalTokens(kv, r, start) =>
           /\ Allocated(kv, r, hits, new).hash[kv'.table[r][i]] = Unhashed
           /\ \A q \in Req : \A j \in DOMAIN kv'.table[q] :
                kv'.table[q][j] = kv'.table[r][i] => q = r /\ j = i
<1> DEFINE a == Allocated(kv, r, hits, new)
           d == [computed EXCEPT ![r] = start]
<1>1. /\ start \in Nat /\ hits \in BlockList /\ new \in BlockList
      /\ Range(new) \subseteq FreeBlocks(kv) \ Range(hits) /\ Ascending(new)
      /\ \A b \in Range(hits) : kv.hash[b] # Unhashed
      /\ kv' = CacheBlocks(a, r, c)
      /\ Continues(r, hits, start, n, kind) \/ Starts(r, hits, start, n, kind)
  BY DEF Enters
<1>2. kv \in KV /\ computed \in [Req -> Nat] /\ Counted(kv) /\ Unfilled(kv, computed)
  BY ExtentTypes DEF ExtentInv, Extent, AccountingInv, Accounted
<1>3. \/ hits = <<>> /\ computed[r] <= start
      \/ kv.table[r] = <<>> /\ kv.active[r] = None /\ Len(hits) * BlockSize <= start
  BY <1>1, <1>2 DEF Continues, Starts, Idle
<1>4. Unfilled(a, d)
  BY <1>1, <1>2, <1>3, AllocatedUnfilled
<1>5. a \in KV
  BY <1>1, <1>2, AllocatedType
<1>6. a.active = kv.active
  BY <1>2 DEF Allocated, KV
<1> HIDE DEF a
<1>7. kv'.table = a.table
  BY <1>1, <1>5 DEF CacheBlocks, KV
<1>8. d[r] = start /\ PhysicalTokens(a, r, start) = PhysicalTokens(kv, r, start)
  BY <1>2, <1>6 DEF PhysicalTokens
<1> QED
  BY <1>4, <1>7, <1>8 DEF Unfilled, OwnUnfilled, a

LEMMA EnteredOwns ==
  ASSUME ExtentInv, NEW r \in Req, NEW hits, NEW new, NEW start, NEW n, NEW kind, NEW c,
         Enters(r, hits, new, start, n, kind, c)
  PROVE  \A i \in DOMAIN kv'.table[r] : i * BlockSize > PhysicalTokens(kv, r, start) =>
           \A q \in Req : \A j \in DOMAIN kv'.table[q] :
             kv'.table[q][j] = kv'.table[r][i] => q = r /\ j = i
BY EnteredUnfilled

(* What is already in the batch reads and writes through its block table.   *)
LEMMA BatchRows ==
  ASSUME ExtentInv, NEW w \in Snapshots, building # None,
         Fine(building, After(w, building)), Agrees(kv, status, After(w, building)),
         NEW q \in Req, building.sched[q] # None
  PROVE  RowNext(w, building, q) = kv.table[q] /\ ActiveNext(w, building, q) = kv.active[q]
<1> DEFINE v == After(w, building)
<1>1. status[q] = "running" /\ kv.pending[q] = None /\ building.plans[q] = None
  BY ExtentTypes DEF TransactionInv, BatchRuns, ExtentInv, Extent, BatchAgrees
<1>2. v.pending[q] = None
  BY <1>1, AfterIs DEF PendingNext
<1>3. kv.table[q] = NextRow(v, q) /\ kv.active[q] = NextActive(v, q)
  BY <1>1 DEF Agrees, AgreesFor
<1> QED
  BY <1>2, <1>3, AfterIs DEF NextRow, NextActive

(* Every request of the batch writes to slots of its own.                   *)
LEMMA EnteredDisjoint ==
  ASSUME ExtentInv, TypeOK',
         NEW r \in Req, NEW hits, NEW new, NEW start, NEW n, NEW kind, NEW c,
         Enters(r, hits, new, start, n, kind, c), NEW o, o = building', o \in Output,
         NEW w, SlotsDisjoint(building, After(w, building).row, After(w, building).active),
         NEW v \in Snapshots, \A q \in Req : EntryFits(o, v, q),
         \A q \in Req : o.sched[q] # None =>
            v.row[q] = kv'.table[q] /\ v.active[q] = kv'.active[q],
         \A q \in Req \ {r} : o.sched[q] # None =>
            v.row[q] = After(w, building).row[q] /\ v.active[q] = After(w, building).active[q]
  PROVE  SlotsDisjoint(o, v.row, v.active)
<1> DEFINE At(x) == Slot(v.active[x[1]], x[2])
           Where(x) == Address(v.row[x[1]], At(x))
<1>1. ASSUME NEW x \in Writes(o)
      PROVE  /\ x[1] \in Req /\ x = <<x[1], x[2]>> /\ o.sched[x[1]] # None
             /\ o.sched[x[1]].start \in Int /\ End(o, x[1]) \in Int
             /\ x[2] \in o.sched[x[1]].start..End(o, x[1]) - 1
             /\ At(x) \in 0..Len(v.row[x[1]]) * BlockSize - 1 /\ Len(v.row[x[1]]) \in Nat
             /\ DOMAIN v.row[x[1]] = 1..Len(v.row[x[1]]) /\ v.active[x[1]] \in Active \cup {None}
  <2>1. SlotsExist(o, v.row, v.active)
    BY FineSlots
  <2>2. x[1] \in Req /\ x = <<x[1], x[2]>> /\ o.sched[x[1]] # None
        /\ x[2] \in o.sched[x[1]].start..End(o, x[1]) - 1
    BY WrittenBy
  <2>3. v.row[x[1]] \in Seq(Block)
    BY <2>2 DEF EntryFits, BlockList
  <2>4. Len(v.row[x[1]]) \in Nat /\ DOMAIN v.row[x[1]] = 1..Len(v.row[x[1]])
    BY <2>3, LenProperties
  <2> QED
    BY <2>1, <2>2, <2>4, OutputFields, SnapshotFields DEF SlotsExist
<1>2. /\ start \in Nat /\ building # None
      /\ Continues(r, hits, start, n, kind) \/ Starts(r, hits, start, n, kind)
  BY DEF Enters
<1>3. o.sched[r].start = start /\ o.sched[r] # None /\ kv'.active = kv.active
  <2>1. Entered(r, hits, new, start, n, kind)
    BY EnteredIs
  <2>2. building.sched \in [Req -> Item \cup {None}]
    BY <2>1 DEF Entered, Output
  <2>3. o.sched[r] = [start |-> start, n |-> n, kind |-> kind, blocks |-> hits \o new]
    BY <2>1, <2>2 DEF Entered
  <2>4. hits \o new \in BlockList /\ n \in Nat /\ kind \in {"new", "resumed", "cached"}
    BY ConcatProperties DEF Enters, BlockList
  <2>5. o.sched[r] \in Item
    BY <1>2, <2>3, <2>4 DEF Item
  <2>6. o.sched[r].start = start
    BY <2>3
  <2>7. kv'.active = kv.active
    BY <2>1 DEF Entered
  <2> QED
    BY <2>5, <2>6, <2>7, NoneAssumption
<1>4. Slot(v.active[r], start) = PhysicalTokens(kv, r, start)
  <2>1. v.active[r] = kv.active[r] /\ kv \in KV /\ start \in Int
    BY <1>2, <1>3, ExtentTypes
  <2>2. kv.active[r] # None => kv.active[r].physical = Budget /\ kv.active[r].semantic <= start
    BY <1>2 DEF Continues, Starts, Idle, ExtentInv, Extent, Fitted
  <2> QED
    BY <2>1, <2>2, PhysicalIs, ConfigAssumption DEF Slot
<1>5. ASSUME NEW x \in Writes(o), NEW y \in Writes(o), x[1] = r, Where(x) = Where(y)
      PROVE  x = y
  <2> DEFINE i == At(x) \div BlockSize + 1
             j == At(y) \div BlockSize + 1
             m == y[1]
  <2>1. /\ i \in 1..Len(v.row[r]) /\ i * BlockSize > At(x)
        /\ At(x) = (At(x) \div BlockSize) * BlockSize + (At(x) % BlockSize)
    BY <1>1, <1>5, SlotIndex
  <2>2. /\ j \in 1..Len(v.row[m])
        /\ At(y) = (At(y) \div BlockSize) * BlockSize + (At(y) % BlockSize)
        /\ At(y) \div BlockSize \in Int /\ At(x) \div BlockSize \in Int
    BY <1>1, SlotIndex
  <2>3. v.row[r][i] = v.row[m][j] /\ At(x) % BlockSize = At(y) % BlockSize
    BY <1>5 DEF Address
  <2>4. i * BlockSize > PhysicalTokens(kv, r, start)
    <3>1. At(x) >= Slot(v.active[r], start)
      <4>1. x[2] \in Int /\ x[2] >= start
        BY <1>1, <1>3, <1>5
      <4>2. v.active[r] \in Active \cup {None} /\ x[2] \in Int /\ start \in Int
        BY <1>1, <1>2, <1>5, <4>1
      <4>3. Slot(v.active[r], x[2]) - Slot(v.active[r], start) = x[2] - start
            /\ Slot(v.active[r], x[2]) \in Int /\ Slot(v.active[r], start) \in Int
        BY <4>2, SlotShift
      <4> QED
        BY <1>2, <1>5, <4>1, <4>3
    <3>2. i \in Int /\ At(x) \in Int /\ PhysicalTokens(kv, r, start) \in Int
      BY <1>1, <1>2, <2>1, ExtentTypes, PhysicalIs
    <3>3. i * BlockSize \in Int
      BY <3>2, ScaledOrder
    <3> QED
      BY <1>4, <2>1, <3>1, <3>2, <3>3
  <2>5. m \in Req /\ v.row[r] = kv'.table[r] /\ v.row[m] = kv'.table[m]
        /\ i \in DOMAIN kv'.table[r] /\ j \in DOMAIN kv'.table[m]
    BY <1>1, <1>5, <2>1, <2>2
  <2>6. m = r /\ j = i
    BY <2>3, <2>4, <2>5, EnteredOwns
  <2>7. At(x) \div BlockSize = At(y) \div BlockSize
    BY <2>2, <2>6
  <2>8. At(x) = At(y)
    BY <2>1, <2>2, <2>3, <2>7
  <2>9. x[2] = y[2]
    <3>1. x[2] \in Int /\ y[2] \in Int /\ v.active[r] \in Active \cup {None}
      BY <1>1, <1>5
    <3>2. Slot(v.active[r], x[2]) - Slot(v.active[r], y[2]) = x[2] - y[2]
          /\ Slot(v.active[r], x[2]) \in Int /\ Slot(v.active[r], y[2]) \in Int
      BY <3>1, SlotShift
    <3>3. At(x) = Slot(v.active[r], x[2]) /\ At(y) = Slot(v.active[r], y[2])
      BY <1>5, <2>6
    <3>4. Slot(v.active[r], x[2]) = Slot(v.active[r], y[2])
      BY <2>8, <3>3
    <3> QED
      BY ONLY <3>1, <3>2, <3>4
  <2> QED
    BY <1>1, <1>5, <2>6, <2>9
<1>6. ASSUME NEW x \in Writes(o), NEW y \in Writes(o), x[1] # r, y[1] # r, Where(x) = Where(y)
      PROVE  x = y
  <2>1. ASSUME NEW z \in Writes(o), z[1] # r
        PROVE  z \in Writes(building) /\ v.row[z[1]] = After(w, building).row[z[1]]
               /\ v.active[z[1]] = After(w, building).active[z[1]]
    <3>1. /\ z = <<z[1], z[2]>> /\ z[1] \in Req /\ o.sched[z[1]] # None
          /\ z[2] \in o.sched[z[1]].start..End(o, z[1]) - 1
      BY WrittenBy
    <3>2. PICK q \in Req : q = z[1]
      BY <3>1
    <3>3. o.sched[q] = building.sched[q] /\ End(o, q) = End(building, q)
      BY <1>1, <2>1, <3>2, EnteredOther
    <3>4. z \in Writes(building)
      BY <3>1, <3>2, <3>3, WrittenBy
    <3> QED
      BY <1>1, <2>1, <3>2, <3>4
  <2> QED
    BY <1>6, <2>1 DEF SlotsDisjoint
<1> HIDE DEF At, Where
<1>7. ASSUME NEW x \in Writes(o), NEW y \in Writes(o), Where(x) = Where(y)
      PROVE  x = y
  BY <1>5, <1>6, <1>7
<1> QED
  BY <1>7 DEF SlotsDisjoint, At, Where

LEMMA EnteredTracks ==
  ASSUME TrackInv, NEW T, Traces(T), ExtentInv',
         NEW r \in Req, NEW hits, NEW new, NEW start, NEW n, NEW kind, NEW c,
         Enters(r, hits, new, start, n, kind, c), UNCHANGED wvars
  PROVE  Traces(T)'
<1>1. Follows(T) /\ Reaches(kv, status, building, T[Len(queue)])
  BY DEF Traces
<1> DEFINE w == T[Len(queue)]
           u == After(w, building)
<1>2. /\ building # None /\ UNCHANGED <<queue, ran>>
      /\ start \in Nat /\ n \in Nat /\ hits \in BlockList /\ new \in BlockList
      /\ kv.pending[r] = None
  BY DEF Enters
<1>3. ExtentInv /\ kv \in KV /\ kv' \in KV /\ TypeOK /\ TypeOK' /\ building' # None
      /\ building \in Output
      /\ status \in [Req -> {"waiting", "running", "preempted", "finished"}]
  <2>1. Entered(r, hits, new, start, n, kind)
    BY EnteredIs DEF TrackInv
  <2> QED
    BY <1>2, <2>1, ExtentTypes
       DEF TrackInv, Entered, ExtentInv, AccountingInv, TransactionInv, TypeOK
<1>4. w \in Snapshots /\ u \in Snapshots /\ Fine(building, u) /\ Agrees(kv, status, u)
  BY <1>1, <1>2, <1>3, FollowsTypes DEF Reaches
<1> HIDE DEF w
<1>5. PICK o : o = building'
  OBVIOUS
<1>6. PICK v : v = After(w, o)
  OBVIOUS
<1>7. o \in Output /\ o # None
  BY <1>3, <1>5 DEF TypeOK
<1>8. RowNext(w, o, r) = kv'.table[r] /\ ActiveNext(w, o, r) = kv'.active[r]
      /\ PendingNext(w, o, r) = None
  BY <1>3, <1>4, <1>5, EnteredRequest DEF Agrees
<1>9. /\ v.row[r] = kv'.table[r] /\ v.active[r] = kv'.active[r] /\ v.pending[r] = None
      /\ \A q \in Req \ {r} : v.row[q] = u.row[q] /\ v.active[q] = u.active[q]
                              /\ v.pending[q] = u.pending[q]
  BY <1>3, <1>5, <1>6, <1>8, AfterIs, EnteredOther
<1>10. \A q \in Req : o.plans[q] = None
  BY <1>5, <1>7 DEF ExtentInv, Extent, BatchAgrees
<1>11. v \in Snapshots
  <2>1. ASSUME NEW q \in Req, o.sched[q] # None
        PROVE  RowNext(w, o, q) \in BlockList
    <3>1. CASE q = r
      BY <1>3, <1>8, <3>1, KVFields
    <3>2. CASE q # r
      <4>1. building.sched[q] # None /\ RowNext(w, o, q) = RowNext(w, building, q)
        BY <1>3, <1>5, <2>1, <3>2, EnteredOther
      <4> QED
        BY <1>2, <1>3, <1>4, <4>1, BatchRows, KVFields
    <3> QED
      BY <3>1, <3>2
  <2> QED
    BY <1>4, <1>6, <1>7, <1>10, <2>1, AfterType
<1>12. ASSUME NEW q \in Req \ {r}, o.sched[q] # None
       PROVE  v.row[q] = kv'.table[q] /\ v.active[q] = kv'.active[q]
  <2>1. building.sched[q] # None /\ kv'.table[q] = kv.table[q] /\ kv'.active[q] = kv.active[q]
    BY <1>3, <1>5, <1>12, EnteredOther
  <2>2. RowNext(w, building, q) = kv.table[q] /\ ActiveNext(w, building, q) = kv.active[q]
    BY <1>2, <1>3, <1>4, <2>1, BatchRows
  <2> QED
    BY <1>9, <2>1, <2>2, AfterIs
<1>13. ASSUME NEW q \in Req
       PROVE  EntryFits(o, v, q)
  <2>1. CASE q = r
    <3>1. /\ o.sched[r].start = start /\ o.sched[r].n = n /\ o.sched[r] # None
          /\ computed'[r] = start + n
      <4>1. Entered(r, hits, new, start, n, kind)
        BY <1>3, EnteredIs
      <4>2. building.sched \in [Req -> Item \cup {None}] /\ computed \in [Req -> Nat]
        BY <1>3, ExtentTypes DEF Output
      <4>3. o.sched[r] = [start |-> start, n |-> n, kind |-> kind, blocks |-> hits \o new]
            /\ computed'[r] = start + n
        BY <1>5, <4>1, <4>2 DEF Entered
      <4>4. hits \o new \in BlockList /\ kind \in {"new", "resumed", "cached"}
        BY ConcatProperties DEF Enters, BlockList
      <4>5. o.sched[r] \in Item
        BY <1>2, <4>3, <4>4 DEF Item
      <4>6. o.sched[r].start = start /\ o.sched[r].n = n
        BY <4>3
      <4> QED
        BY <4>3, <4>5, <4>6, NoneAssumption
    <3>2. status'[r] = "running"
      BY <1>3 DEF Enters
    <3>3. PhysicalTokens(kv', r, start + n) <= Len(kv'.table[r]) * BlockSize
          /\ (kv'.active[r] # None => kv'.active[r].physical = Budget)
      BY <3>1, <3>2 DEF ExtentInv, Extent, Fitted
    <3>4. kv'.active[r] # None => kv'.active[r].semantic <= start
      BY <1>5, <1>7, <3>1 DEF ExtentInv, Extent, BatchAgrees, EntryAgrees
    <3>5. kv'.active[r] \in Active \cup {None} /\ v.row[r] \in BlockList
          /\ Len(kv'.table[r]) \in Nat
      BY <1>3, <1>9, KVFields, InTable
    <3>6. Slot(v.active[r], start) >= 0
      <4>1. CASE kv'.active[r] = None
        BY <1>2, <1>9, <4>1 DEF Slot
      <4>2. CASE kv'.active[r] # None
        <5>1. kv'.active[r].semantic \in Int /\ Budget \in Nat
          BY <3>5, <4>2, ConfigAssumption DEF Active
        <5> QED
          BY <1>2, <1>9, <3>3, <3>4, <4>2, <5>1 DEF Slot
      <4> QED
        BY <4>1, <4>2
    <3>7. Slot(v.active[r], End(o, r)) <= Len(v.row[r]) * BlockSize
      <4> DEFINE l == Len(kv'.table[r]) * BlockSize
      <4>1. l \in Int
        BY <3>5, ScaledOrder
      <4>2. End(o, r) = start + n
        BY <3>1 DEF End
      <4> HIDE DEF l
      <4>3. Slot(kv'.active[r], start + n) <= PhysicalTokens(kv', r, start + n)
            /\ Slot(kv'.active[r], start + n) \in Int /\ PhysicalTokens(kv', r, start + n) \in Int
        <5>1. CASE kv'.active[r] = None
          BY <1>2, <5>1 DEF Slot, PhysicalTokens
        <5>2. CASE kv'.active[r] # None
          <6>1. kv'.active[r].semantic \in Int /\ kv'.active[r].physical \in Int
            BY <3>5, <5>2 DEF Active
          <6> QED
            BY <1>2, <5>2, <6>1 DEF Slot, PhysicalTokens, Most
        <5> QED
          BY <5>1, <5>2
      <4>4. PhysicalTokens(kv', r, start + n) <= l
        BY <3>3 DEF l
      <4>5. Slot(kv'.active[r], start + n) <= l
        BY <4>1, <4>3, <4>4
      <4> QED
        BY <1>9, <4>2, <4>5 DEF l
    <3> QED
      BY <1>2, <2>1, <3>1, <3>5, <3>6, <3>7 DEF EntryFits
  <2>2. CASE q # r
    <3>1. o.sched[q] = building.sched[q] /\ (o.sched[q] # None => End(o, q) = End(building, q))
      BY <1>3, <1>5, <2>2, EnteredOther
    <3>2. EntryFits(building, u, q)
      BY <1>4 DEF Fine
    <3>3. v.row[q] = u.row[q] /\ v.active[q] = u.active[q]
      BY <1>9, <2>2
    <3> HIDE DEF u
    <3> QED
      BY <3>1, <3>2, <3>3 DEF EntryFits
  <2> QED
    BY <2>1, <2>2
<1>14. SlotsDisjoint(o, v.row, v.active)
  <2>1. SlotsDisjoint(building, u.row, u.active)
    BY <1>4 DEF Fine
  <2>2. \A q \in Req : o.sched[q] # None => v.row[q] = kv'.table[q] /\ v.active[q] = kv'.active[q]
    BY <1>9, <1>12
  <2> QED
    BY <1>3, <1>5, <1>7, <1>9, <1>11, <1>13, <2>1, <2>2, EnteredDisjoint
<1>15. Fine(o, v)
  BY <1>10, <1>13, <1>14 DEF Fine, PlanFits
<1>16. Agrees(kv', status', v)
  <2> SUFFICES ASSUME NEW q \in Req
               PROVE  AgreesFor(kv', status', v, q)
    BY DEF Agrees
  <2>1. CASE q = r
    <3>1. status'[r] = "running" /\ kv'.pending[r] = None
      <4>1. Entered(r, hits, new, start, n, kind)
        BY <1>3, EnteredIs
      <4> QED
        BY <1>2, <1>3, <4>1 DEF Entered, Enters
    <3> QED
      BY <1>9, <2>1, <3>1 DEF AgreesFor, NextRow, NextActive
  <2>2. CASE q # r
    <3>1. AgreesFor(kv, status, u, q)
      BY <1>4 DEF Agrees
    <3>2. v.row[q] = u.row[q] /\ v.active[q] = u.active[q] /\ v.pending[q] = u.pending[q]
      BY <1>9, <2>2
    <3>3. kv'.table[q] = kv.table[q] /\ kv'.active[q] = kv.active[q]
          /\ kv'.pending[q] = kv.pending[q] /\ status'[q] = status[q]
      BY <1>3, <2>2, EnteredOther
    <3> HIDE DEF u
    <3> QED
      BY <3>1, <3>2, <3>3 DEF AgreesFor, NextRow, NextActive
  <2> QED
    BY <2>1, <2>2
<1>17. Reaches(kv', status', building', w)
  BY <1>3, <1>5, <1>6, <1>11, <1>15, <1>16 DEF Reaches
<1>18. Follows(T)'
  BY <1>1, <1>2, SameFollows DEF wvars
<1>19. Reaches(kv, status, building, T[Len(queue)])'
  BY <1>2, <1>17 DEF w
<1> QED
  BY <1>18, <1>19 DEF Traces

(* Two batches with the same entries need the same of the rows they write.  *)
LEMMA SameSlots ==
  ASSUME NEW o, NEW p, NEW u, NEW v, p.sched = o.sched,
         \A q \in Req : EntryFits(o, u, q), SlotsDisjoint(o, u.row, u.active),
         \A q \in Req : o.sched[q] # None => v.row[q] = u.row[q] /\ v.active[q] = u.active[q]
  PROVE  SlotsDisjoint(p, v.row, v.active) /\ \A q \in Req : EntryFits(p, v, q)
<1>1. Writes(p) = Writes(o) /\ \A q \in Req : End(p, q) = End(o, q)
  BY DEF Writes, End
<1>2. \A x \in Writes(o) : x[1] \in Req /\ o.sched[x[1]] # None
  BY WrittenBy
<1>3. SlotsDisjoint(p, v.row, v.active)
  BY <1>1, <1>2 DEF SlotsDisjoint
<1> QED
  BY <1>1, <1>3 DEF EntryFits

LEMMA SameFine ==
  ASSUME NEW o, NEW p, NEW u, NEW v, p.sched = o.sched, p.plans = o.plans, Fine(o, u),
         \A q \in Req : o.sched[q] # None => v.row[q] = u.row[q] /\ v.active[q] = u.active[q]
  PROVE  Fine(p, v)
<1>0. SlotsDisjoint(o, u.row, u.active) /\ \A q \in Req : EntryFits(o, u, q)
  BY DEF Fine
<1>1. SlotsDisjoint(p, v.row, v.active) /\ \A q \in Req : EntryFits(p, v, q)
  BY <1>0, SameSlots
<1>2. ASSUME NEW q \in Req
      PROVE  PlanFits(p, v, q)
  <2>1. PlanFits(o, u, q) /\ End(p, q) = End(o, q)
    BY DEF Fine, End
  <2> QED
    BY <2>1 DEF PlanFits, Physical, Disagrees
<1> QED
  BY <1>1, <1>2 DEF Fine

LEMMA PreemptTracks ==
  ASSUME TrackInv, NEW T, Traces(T), ExtentInv', NEW victim \in Req, Preempt(victim), UNCHANGED wvars
  PROVE  Traces(T)'
<1>1. Follows(T) /\ Reaches(kv, status, building, T[Len(queue)])
  BY DEF Traces
<1> DEFINE w == T[Len(queue)]
           u == After(w, building)
<1>2. /\ building # None /\ building.sched[victim] = None
      /\ kv' = Freed(kv, {victim})
      /\ status' = [status EXCEPT ![victim] = "preempted"]
      /\ building' = [building EXCEPT !.preempted = @ \cup {victim}]
      /\ UNCHANGED <<queue, ran>>
  BY DEF Preempt
<1>3. ExtentInv /\ kv \in KV /\ TypeOK /\ building \in Output
      /\ status \in [Req -> {"waiting", "running", "preempted", "finished"}]
  BY <1>2, ExtentTypes DEF TrackInv
<1>4. w \in Snapshots /\ u \in Snapshots /\ Fine(building, u) /\ Agrees(kv, status, u)
  BY <1>1, <1>2, <1>3, FollowsTypes DEF Reaches
<1> HIDE DEF w
<1>5. PICK o : o = building'
  OBVIOUS
<1>6. PICK v : v = After(w, o)
  OBVIOUS
<1>7. /\ o.sched = building.sched /\ o.plans = building.plans /\ o.finished = building.finished
      /\ o.preempted = building.preempted \cup {victim} /\ o \in Output /\ o # None
  <2>1. /\ o.sched = building.sched /\ o.plans = building.plans /\ o.finished = building.finished
        /\ o.preempted = building.preempted \cup {victim} /\ o \in Output
    BY <1>2, <1>3, <1>5 DEF Output
  <2> QED
    BY <2>1, NoneAssumption
<1>8. \A q \in Req \ {victim} : v.row[q] = u.row[q] /\ v.active[q] = u.active[q]
                                /\ v.pending[q] = u.pending[q]
  <2> SUFFICES ASSUME NEW q \in Req \ {victim}
               PROVE  v.row[q] = u.row[q] /\ v.active[q] = u.active[q]
                      /\ v.pending[q] = u.pending[q]
    OBVIOUS
  <2>1. /\ q \in Reset(o) <=> q \in Reset(building)
        /\ q \in o.finished \cup o.preempted <=> q \in building.finished \cup building.preempted
    BY <1>7 DEF Reset
  <2> QED
    BY <1>6, <1>7, <2>1, AfterIs DEF RowNext, ActiveNext, PendingNext
<1>9. \A q \in Req : o.plans[q] = None
  BY <1>2, <1>7 DEF TrackInv, ExtentInv, Extent, BatchAgrees
<1>10. v \in Snapshots
  <2>1. ASSUME NEW q \in Req, o.sched[q] # None
        PROVE  RowNext(w, o, q) \in BlockList
    <3>1. q # victim /\ building.sched[q] # None
      BY <1>2, <1>7, <2>1
    <3>2. RowNext(w, o, q) = u.row[q] /\ u.row[q] \in BlockList
      BY <1>4, <1>6, <1>8, <3>1, AfterIs DEF Fine, EntryFits
    <3> QED
      BY <3>2
  <2> QED
    BY <1>4, <1>6, <1>7, <1>9, <2>1, AfterType
<1>11. Fine(o, v)
  <2>1. \A q \in Req : building.sched[q] # None => q # victim
    BY <1>2
  <2> QED
    BY <1>4, <1>7, <1>8, <2>1, SameFine
<1>12. Agrees(kv', status', v)
  <2> SUFFICES ASSUME NEW q \in Req
               PROVE  AgreesFor(kv', status', v, q)
    BY DEF Agrees
  <2>1. CASE q = victim
    BY <1>2, <1>3, <2>1 DEF AgreesFor
  <2>2. CASE q # victim
    <3>1. status'[q] = status[q] /\ Settles(kv, kv', q)
      BY <1>2, <1>3, <2>2, FreedKeeps DEF Settles
    <3>2. AgreesFor(kv, status, u, q)
      BY <1>4 DEF Agrees
    <3> HIDE DEF u
    <3>3. AgreesFor(kv', status', u, q)
      BY <1>3, <1>4, <3>1, <3>2, SettledAgrees
    <3>4. v.row[q] = u.row[q] /\ v.active[q] = u.active[q] /\ v.pending[q] = u.pending[q]
      BY <1>8, <2>2
    <3> QED
      BY <3>3, <3>4 DEF AgreesFor, NextRow, NextActive
  <2> QED
    BY <2>1, <2>2
<1>13. Reaches(kv', status', building', w)
  BY <1>5, <1>6, <1>7, <1>10, <1>11, <1>12 DEF Reaches
<1>14. Follows(T)'
  BY <1>1, <1>2, SameFollows DEF wvars
<1>15. Reaches(kv, status, building, T[Len(queue)])'
  BY <1>2, <1>13 DEF w
<1> QED
  BY <1>14, <1>15 DEF Traces

LEMMA AbortTracks ==
  ASSUME TrackInv, NEW T, Traces(T), NEW r \in Req, Abort(r), UNCHANGED wvars
  PROVE  Traces(T)'
<1>1. Follows(T) /\ Reaches(kv, status, building, T[Len(queue)])
  BY DEF Traces
<1> DEFINE w == T[Len(queue)]
<1>2. /\ building = None /\ kv' = Freed(kv, {r}) /\ status' = [status EXCEPT ![r] = "finished"]
      /\ UNCHANGED <<queue, ran, building>>
  BY DEF Abort
<1>3. ExtentInv /\ kv \in KV /\ TypeOK
      /\ status \in [Req -> {"waiting", "running", "preempted", "finished"}]
  BY ExtentTypes DEF TrackInv
<1>4. w \in Snapshots /\ Agrees(kv, status, w)
  BY <1>1, <1>2, <1>3, FollowsTypes DEF Reaches
<1> HIDE DEF w
<1>5. Agrees(kv', status', w)
  <2> SUFFICES ASSUME NEW q \in Req
               PROVE  AgreesFor(kv', status', w, q)
    BY DEF Agrees
  <2>1. CASE q = r
    BY <1>2, <1>3, <2>1 DEF AgreesFor
  <2>2. CASE q # r
    <3>1. status'[q] = status[q] /\ Settles(kv, kv', q)
      BY <1>2, <1>3, <2>2, FreedKeeps DEF Settles
    <3> QED
      BY <1>3, <1>4, <3>1, SettledAgrees DEF Agrees
  <2> QED
    BY <2>1, <2>2
<1>6. Reaches(kv', status', building', w)
  BY <1>2, <1>5 DEF Reaches
<1>7. Follows(T)'
  BY <1>1, <1>2, SameFollows DEF wvars
<1>8. Reaches(kv, status, building, T[Len(queue)])'
  BY <1>2, <1>6 DEF w
<1> QED
  BY <1>7, <1>8 DEF Traces

LEMMA UpdateFromOutputTracks ==
  ASSUME TrackInv, NEW T, Traces(T), NEW S,
         S = [i \in ran - 1..Len(queue) - 1 |-> T[i + 1]],
         NEW F \in SUBSET Req, UpdateFromOutput(F), UNCHANGED wvars
  PROVE  Traces(S)'
<1>1. Follows(T) /\ Reaches(kv, status, building, T[Len(queue)])
  BY DEF Traces
<1> DEFINE w == T[Len(queue)]
<1>2. /\ building = None /\ building' = None /\ ran > 0
      /\ queue' = Tail(queue) /\ ran' = ran - 1 /\ Snapshot' = Snapshot
      /\ status' = [r \in Req |-> IF r \in F THEN "finished" ELSE status[r]]
  BY DEF UpdateFromOutput, wvars, Snapshot
<1>3. ExtentInv /\ TypeOK /\ queue \in Seq(Output) /\ Len(queue) \in Nat /\ ran \in 0..Len(queue)
  BY ExtentTypes, QueuedAre DEF TrackInv, TypeOK
<1>4. w \in Snapshots /\ Agrees(kv, status, w)
  BY <1>1, <1>2, <1>3, FollowsTypes DEF Reaches
<1>5. Len(queue') = Len(queue) - 1 /\ \A i \in 1..Len(queue) - 1 : queue'[i] = queue[i + 1]
  <2>1. queue # <<>>
    BY <1>2, <1>3, EmptySeq
  <2> QED
    BY <1>2, <1>3, <2>1, HeadTailProperties
<1>7. \A i \in ran - 1..Len(queue) - 1 : S[i] = T[i + 1]
  OBVIOUS
<1>8. Follows(S)'
  <2>1. S \in [ran - 1..Len(queue) - 1 -> Snapshots]
    <3>1. \A i \in ran - 1..Len(queue) - 1 : T[i + 1] \in Snapshots
      <4>1. \A i \in ran - 1..Len(queue) - 1 : i + 1 \in ran..Len(queue)
        BY <1>3
      <4>2. \A i \in ran..Len(queue) : T[i] \in Snapshots
        BY <1>1 DEF Follows
      <4> QED
        BY <4>1, <4>2
    <3> QED
      BY <3>1
  <2>2. S[ran - 1] = Snapshot
    <3>1. ran - 1 \in ran - 1..Len(queue) - 1 /\ ran - 1 + 1 = ran
      BY <1>3
    <3> QED
      BY <1>1, <1>7, <3>1 DEF Follows
  <2>3. ASSUME NEW i \in ran - 1 + 1..Len(queue) - 1
        PROVE  S[i] = After(S[i - 1], queue'[i]) /\ Fine(queue'[i], S[i])
    <3>1. /\ i \in 1..Len(queue) - 1 /\ i \in ran - 1..Len(queue) - 1
          /\ i - 1 \in ran - 1..Len(queue) - 1 /\ i + 1 \in ran + 1..Len(queue)
          /\ i - 1 + 1 = i /\ i + 1 - 1 = i
      BY <1>2, <1>3
    <3>2. T[i + 1] = After(T[i], queue[i + 1]) /\ Fine(queue[i + 1], T[i + 1])
      BY <1>1, <3>1 DEF Follows
    <3> QED
      BY <1>5, <1>7, <3>1, <3>2
  <2> QED
    BY <1>2, <1>5, <2>1, <2>2, <2>3 DEF Follows
<1>9. S[Len(queue')] = w
  <2>1. Len(queue) - 1 \in ran - 1..Len(queue) - 1 /\ Len(queue) - 1 + 1 = Len(queue)
    BY <1>3
  <2> QED
    BY <1>5, <1>7, <2>1
<1> HIDE DEF w
<1>10. Agrees(kv', status', w)
  <2> SUFFICES ASSUME NEW q \in Req
               PROVE  AgreesFor(kv', status', w, q)
    BY DEF Agrees
  <2>1. CASE q \in F
    BY <1>2, <2>1 DEF AgreesFor
  <2>2. CASE q \notin F
    <3>1. status'[q] = status[q] /\ Settles(kv, kv', q)
      BY <1>2, <1>3, <2>2, UpdateFromOutputSettles
    <3> QED
      BY <1>3, <1>4, <3>1, SettledAgrees DEF Agrees
  <2> QED
    BY <2>1, <2>2
<1>11. Reaches(kv, status, building, S[Len(queue)])'
  BY <1>2, <1>9, <1>10 DEF Reaches
<1> QED
  BY <1>8, <1>11 DEF Traces

LEMMA ResetPrefixCacheTracks ==
  ASSUME TrackInv, NEW T, Traces(T), ResetPrefixCache, UNCHANGED wvars
  PROVE  Traces(T)'
<1>1. Follows(T) /\ Reaches(kv, status, building, T[Len(queue)])
  BY DEF Traces
<1> DEFINE w == T[Len(queue)]
           R == {r \in Req : status[r] = "running"}
<1>2. /\ building = None /\ building' = None /\ ran' = ran /\ Snapshot' = Snapshot
      /\ status' = [r \in Req |-> IF r \in R THEN "preempted" ELSE status[r]]
      /\ queue' = [i \in DOMAIN queue |-> [queue[i] EXCEPT !.sampled = @ \ R]]
  BY DEF ResetPrefixCache, wvars, Snapshot
<1>3. TypeOK /\ Len(queue) \in Nat /\ ran \in 0..Len(queue) /\ DOMAIN queue = 1..Len(queue)
      /\ \A i \in 1..Len(queue) : queue[i] \in Output
  BY ExtentTypes, QueuedAre DEF TrackInv
<1>4. Agrees(kv, status, w)
  BY <1>1, <1>2 DEF Reaches
<1>5. Len(queue') = Len(queue)
  <2>1. queue' \in [1..Len(queue) -> {queue'[i] : i \in 1..Len(queue)}]
    BY <1>2, <1>3
  <2> QED
    BY <1>2, <1>3, <2>1
<1>6. ASSUME NEW i \in ran + 1..Len(queue)
      PROVE  T[i] = After(T[i - 1], queue'[i]) /\ Fine(queue'[i], T[i])
  <2>1. i \in DOMAIN queue /\ queue[i] \in Output
    BY <1>3
  <2>2. /\ queue'[i].sched = queue[i].sched /\ queue'[i].plans = queue[i].plans
        /\ queue'[i].finished = queue[i].finished /\ queue'[i].preempted = queue[i].preempted
    BY <1>2, <2>1 DEF Output
  <2>3. T[i] = After(T[i - 1], queue[i]) /\ Fine(queue[i], T[i])
    BY <1>1 DEF Follows
  <2>4. After(T[i - 1], queue'[i]) = After(T[i - 1], queue[i])
    BY <2>2 DEF After, RowNext, ActiveNext, PendingNext, Reset
  <2>5. Fine(queue'[i], T[i])
    BY <2>2, <2>3, SameFine
  <2> QED
    BY <2>3, <2>4, <2>5
<1>7. Follows(T)'
  BY <1>1, <1>2, <1>5, <1>6 DEF Follows
<1>8. Agrees(kv', status', w)
  <2> SUFFICES ASSUME NEW q \in Req
               PROVE  AgreesFor(kv', status', w, q)
    BY DEF Agrees
  <2>1. status'[q] # "running" /\ (status'[q] = "waiting" => status[q] = "waiting")
    BY <1>2
  <2> QED
    BY <1>4, <2>1 DEF Agrees, AgreesFor
<1>9. Reaches(kv, status, building, T[Len(queue)])'
  BY <1>2, <1>5, <1>8 DEF Reaches
<1> QED
  BY <1>7, <1>9 DEF Traces

(* The batch that is closed leads a request under way where the batch under *)
(* construction led it, except that it may carry a plan.                    *)
LEMMA ClosedRequest ==
  ASSUME ExtentInv, building # None, NEW A, NEW dest, NEW o, Closes(A, dest, o), NEW w,
         NEW r \in Req, status[r] = "running"
  PROVE  /\ RowNext(w, o, r) = RowNext(w, building, r)
         /\ ActiveNext(w, o, r) = ActiveNext(w, building, r)
         /\ r \notin A => PendingNext(w, o, r) = PendingNext(w, building, r)
<1>1. /\ o.sched = building.sched /\ o.finished = finishedIds
      /\ o.preempted = building.preempted \cup resetIds
      /\ o.plans = [q \in Req |-> IF q \in A THEN kv'.pending[q].plan ELSE None]
  BY DEF Closes
<1>2. building.finished = {} /\ building.plans[r] = None /\ r \notin building.preempted
  BY DEF ExtentInv, Extent, BatchAgrees
<1>3. r \in finishedIds \cup resetIds => building.sched[r] # None /\ building.sched[r].kind = "resumed"
  BY ResetKeeps
<1>4. r \in Reset(o) <=> r \in Reset(building)
  BY <1>1, <1>2, <1>3 DEF Reset
<1>5. building.sched[r] = None =>
        r \notin o.finished \cup o.preempted /\ r \notin building.finished \cup building.preempted
  BY <1>1, <1>2, <1>3
<1>6. r \notin A => o.plans[r] = None
  BY <1>1
<1> QED
  BY <1>1, <1>2, <1>4, <1>5, <1>6 DEF RowNext, ActiveNext, PendingNext

LEMMA ClosedWaiting ==
  ASSUME ExtentInv, building # None, NEW A, NEW dest, NEW o, Closes(A, dest, o), NEW w,
         NEW r \in Req, status[r] = "waiting",
         PendingNext(w, building, r) = None, ActiveNext(w, building, r) = None
  PROVE  PendingNext(w, o, r) = None /\ ActiveNext(w, o, r) = None
<1>1. /\ o.sched = building.sched /\ o.finished = finishedIds
      /\ o.preempted = building.preempted \cup resetIds
      /\ o.plans = [q \in Req |-> IF q \in A THEN kv'.pending[q].plan ELSE None]
      /\ \A q \in A : status[q] = "running"
  BY DEF Closes
<1>2. building.finished = {} /\ building.plans[r] = None /\ building.sched[r] = None
  BY ExtentTypes DEF ExtentInv, Extent, BatchAgrees, TransactionInv, BatchRuns
<1>3. o.plans[r] = None /\ (r \in Reset(building) => r \in Reset(o))
  BY <1>1, <1>2 DEF Reset
<1> QED
  BY <1>1, <1>2, <1>3 DEF ActiveNext, PendingNext

(* A plan that has just been made fits the batch that carries it.           *)
LEMMA NewPlanFits ==
  ASSUME ExtentInv, ExtentInv', building # None,
         NEW A, NEW dest, NEW o, Closes(A, dest, o), NEW v, NEW r \in A,
         v.row[r] = kv.table[r], v.active[r] = kv.active[r]
  PROVE  PlanFits(o, v, r)
<1>1. /\ r \in Req /\ o.sched = building.sched /\ o.plans[r] = kv'.pending[r].plan
      /\ kv'.pending[r] # None /\ kv'.table = kv.table
      /\ kv'.pending[r].plan = [semantic |-> computed[r], source |-> kv.table[r],
                                dest |-> dest[r]]
      /\ status[r] = "running" /\ building.sched[r] # None /\ MaxTokens[r] >= MinOutput
      /\ kv.active[r] = None => computed[r] = Prompt[r]
      /\ PhysicalTokens(kv, r, computed[r]) >= Threshold
      /\ Len(dest[r]) = Keep
  BY DEF Closes
<1>2. o.plans[r].semantic = computed[r] /\ o.plans[r].source = kv.table[r]
      /\ o.plans[r].dest = dest[r] /\ kv'.pending[r].plan.dest = dest[r]
  BY <1>1
<1>3. kv \in KV /\ kv' \in KV /\ computed \in [Req -> Nat] /\ Fitted
  BY ExtentTypes DEF ExtentInv, Extent, AccountingInv, TransactionInv, TypeOK
<1>4. End(o, r) = computed[r]
  BY <1>1 DEF ExtentInv, Extent, BatchAgrees, EntryAgrees, End
<1>5. Physical(v.active, r, computed[r]) = PhysicalTokens(kv, r, computed[r])
      /\ PhysicalTokens(kv, r, computed[r]) \in Int
  <2>1. kv.active[r] # None =>
          kv.active[r].physical = Budget /\ kv.active[r].semantic <= computed[r]
    BY <1>1, <1>3 DEF Fitted
  <2>2. computed[r] \in Int /\ Budget \in Int
    BY <1>1, <1>3, ConfigAssumption
  <2>3. kv.active[r] # None => kv.active[r].semantic \in Int
        /\ PhysicalTokens(kv, r, computed[r]) = computed[r] - kv.active[r].semantic + Budget
    BY <1>1, <1>3, <2>1, <2>2, PhysicalIs
  <2>4. kv.active[r] = None => PhysicalTokens(kv, r, computed[r]) = computed[r]
    BY <1>1, <1>3, <2>2, PhysicalIs
  <2> QED
    BY <2>1, <2>2, <2>3, <2>4 DEF Physical
<1>6. PhysicalTokens(kv, r, computed[r]) <= Len(kv.table[r]) * BlockSize
  BY <1>1, <1>3 DEF Fitted
<1>7. Len(kv.table[r]) >= Keep
  <2>1. Len(kv.table[r]) \in Nat /\ Keep \in Nat /\ Keep * BlockSize = Budget
    BY <1>1, <1>3, InTable, KeepIsBudget
  <2>2. Len(kv.table[r]) * BlockSize \in Int /\ Budget \in Nat /\ Recompute \in Nat
    BY <2>1, ScaledOrder, ConfigAssumption
  <2>3. Keep * BlockSize <= Len(kv.table[r]) * BlockSize
    BY <1>1, <1>5, <1>6, <2>1, <2>2 DEF Threshold
  <2> QED
    BY <2>1, <2>3, ScaledOrder
<1>8. Range(dest[r]) \cap Range(kv.table[r]) = {}
  <2> SUFFICES ASSUME NEW b \in Range(dest[r]), b \in Range(kv.table[r])
               PROVE  FALSE
    OBVIOUS
  <2>1. b \in BlocksAt(kv', <<r, Reserved>>) /\ b \in BlocksAt(kv', <<r, Table>>)
    <3>1. /\ b \in Range(kv'.table[r]) /\ b \in Range(kv'.pending[r].plan.dest)
          /\ kv'.pending[r] # None
      BY <1>1, <1>2
    <3> QED
      BY <3>1, WhatIsAt
  <2>2. <<r, Reserved>> \in Secret(kv') /\ <<r, Table>> \in Places(Req)
    BY <1>1, PlaceTypes DEF Secret
  <2>3. Exclusive(kv')
    BY DEF ExtentInv, AccountingInv, Accounted
  <2>4. <<r, Table>> = <<r, Reserved>>
    BY <2>1, <2>2, <2>3 DEF Exclusive
  <2> QED
    BY <2>4 DEF Table, Reserved
<1>9. ~Disagrees(o, v.row, r)
  <2>1. Len(kv.table[r]) \in Nat /\ Keep \in Nat
    BY <1>1, <1>3, InTable, KeepIsBudget
  <2> QED
    BY <1>1, <1>2, <1>7, <1>8, <2>1 DEF Disagrees
<1> QED
  BY <1>1, <1>2, <1>4, <1>5, <1>6, <1>9 DEF PlanFits

LEMMA ClosedFine ==
  ASSUME ExtentInv, ExtentInv', building # None,
         NEW A, NEW dest, NEW o, Closes(A, dest, o), NEW w \in Snapshots,
         Fine(building, After(w, building)), Agrees(kv, status, After(w, building))
  PROVE  Fine(o, After(w, o))
<1> DEFINE u == After(w, building)
           v == After(w, o)
<1>1. /\ A \in SUBSET Req /\ o.sched = building.sched
      /\ o.plans = [q \in Req |-> IF q \in A THEN kv'.pending[q].plan ELSE None]
      /\ \A r \in A : building.sched[r] # None
  BY DEF Closes
<1>2. ASSUME NEW r \in Req, building.sched[r] # None
      PROVE  /\ v.row[r] = u.row[r] /\ v.active[r] = u.active[r]
             /\ v.row[r] = kv.table[r] /\ v.active[r] = kv.active[r]
  <2>1. status[r] = "running"
    BY <1>2, ExtentTypes DEF TransactionInv, BatchRuns
  <2>2. RowNext(w, building, r) = kv.table[r] /\ ActiveNext(w, building, r) = kv.active[r]
    BY <1>2, BatchRows
  <2>3. RowNext(w, o, r) = RowNext(w, building, r) /\ ActiveNext(w, o, r) = ActiveNext(w, building, r)
    BY <2>1, ClosedRequest
  <2> QED
    BY <2>2, <2>3, AfterIs
<1>3. SlotsDisjoint(building, u.row, u.active) /\ \A q \in Req : EntryFits(building, u, q)
  BY DEF Fine
<1> HIDE DEF u, v
<1>4. SlotsDisjoint(o, v.row, v.active) /\ \A q \in Req : EntryFits(o, v, q)
  BY <1>1, <1>2, <1>3, SameSlots
<1>5. ASSUME NEW r \in Req
      PROVE  PlanFits(o, v, r)
  <2>1. CASE r \in A
    BY <1>1, <1>2, <2>1, NewPlanFits
  <2>2. CASE r \notin A
    <3>1. o.plans[r] = None
      BY <1>1, <2>2
    <3> QED
      BY <3>1 DEF PlanFits
  <2> QED
    BY <2>1, <2>2
<1> QED
  BY <1>4, <1>5 DEF Fine, v

LEMMA ClosedAgrees ==
  ASSUME ExtentInv, ExtentInv', building # None, status' = status,
         NEW A, NEW dest, NEW o, Closes(A, dest, o), NEW w \in Snapshots,
         Fine(building, After(w, building)), Agrees(kv, status, After(w, building))
  PROVE  Agrees(kv', status', After(w, o))
<1> SUFFICES ASSUME NEW r \in Req
             PROVE  AgreesFor(kv', status', After(w, o), r)
  BY DEF Agrees
<1>1. /\ A \in SUBSET Req /\ o.sched = building.sched /\ kv'.table = kv.table
      /\ o.plans = [q \in Req |-> IF q \in A THEN kv'.pending[q].plan ELSE None]
      /\ \A q \in Req : status[q] = "running" => kv'.active[q] = kv.active[q]
      /\ \A q \in Req \ A : status[q] = "running" => kv'.pending[q] = kv.pending[q]
      /\ \A q \in A : building.sched[q] # None /\ status[q] = "running" /\ kv'.pending[q] # None
  BY DEF Closes
<1>2. AgreesFor(kv, status, After(w, building), r)
  BY DEF Agrees
<1>3. CASE status[r] = "waiting"
  <2>1. PendingNext(w, building, r) = None /\ ActiveNext(w, building, r) = None
    BY <1>2, <1>3, AfterIs DEF AgreesFor
  <2>2. PendingNext(w, o, r) = None /\ ActiveNext(w, o, r) = None
    BY <1>3, <2>1, ClosedWaiting
  <2> QED
    BY <1>3, <2>2, AfterIs DEF AgreesFor
<1>4. CASE r \in A
  <2>1. RowNext(w, building, r) = kv.table[r] /\ ActiveNext(w, building, r) = kv.active[r]
    BY <1>1, <1>4, BatchRows
  <2>2. RowNext(w, o, r) = RowNext(w, building, r) /\ ActiveNext(w, o, r) = ActiveNext(w, building, r)
    BY <1>1, <1>4, ClosedRequest
  <2>3. o.plans[r] = kv'.pending[r].plan
    BY <1>1, <1>4
  <2>4. o.plans[r] # None
    <3>1. kv'.pending[r] \in Pending
      <4>1. kv' \in KV
        BY DEF ExtentInv, AccountingInv, TransactionInv, TypeOK
      <4> QED
        BY <1>1, <1>4, <4>1, KVFields
    <3>2. kv'.pending[r].plan \in Plan
      BY <3>1 DEF Pending
    <3> QED
      BY <2>3, <3>2, NoneAssumption
  <2>5. PendingNext(w, o, r) = Commitment(kv'.pending[r].plan)
    BY <2>3, <2>4 DEF PendingNext
  <2> QED
    BY <1>1, <1>4, <2>1, <2>2, <2>5, AfterIs DEF AgreesFor
<1>5. CASE status[r] = "running" /\ r \notin A
  <2>1. /\ After(w, o).row[r] = After(w, building).row[r]
        /\ After(w, o).active[r] = After(w, building).active[r]
        /\ After(w, o).pending[r] = After(w, building).pending[r]
    BY <1>5, ClosedRequest, AfterIs
  <2>2. kv'.table[r] = kv.table[r] /\ kv'.active[r] = kv.active[r] /\ kv'.pending[r] = kv.pending[r]
    BY <1>1, <1>5
  <2> QED
    BY <1>2, <2>1, <2>2 DEF AgreesFor, NextRow, NextActive
<1> QED
  BY <1>1, <1>3, <1>4, <1>5 DEF AgreesFor

LEMMA EndScheduleTracks ==
  ASSUME TrackInv, NEW T, Traces(T), ExtentInv', EndSchedule, UNCHANGED wvars,
         NEW A, NEW dest, NEW o, Closes(A, dest, o), NEW S,
         S = [i \in ran..Len(queue) + 1 |->
                IF i = Len(queue) + 1 THEN After(T[Len(queue)], o) ELSE T[i]]
  PROVE  Traces(S)'
<1>1. Follows(T) /\ Reaches(kv, status, building, T[Len(queue)])
  BY DEF Traces
<1> DEFINE w == T[Len(queue)]
           n == Len(queue) + 1
<1>3. /\ building # None /\ building' = None /\ ran' = ran /\ Snapshot' = Snapshot
      /\ status' = status
  BY DEF EndSchedule, wvars, Snapshot
<1>4. ExtentInv /\ TypeOK /\ TypeOK' /\ queue \in Seq(Output) /\ Len(queue) \in Nat
      /\ ran \in 0..Len(queue)
  BY ExtentTypes, QueuedAre DEF TrackInv, TypeOK, ExtentInv, AccountingInv, TransactionInv
<1>5. w \in Snapshots /\ Fine(building, After(w, building))
      /\ Agrees(kv, status, After(w, building))
  BY <1>1, <1>3, <1>4, FollowsTypes DEF Reaches
<1>6. queue' = Append(queue, o)
  BY DEF Closes
<1>7. o \in Output /\ Len(queue') = n /\ queue'[n] = o
      /\ \A i \in 1..Len(queue) : queue'[i] = queue[i]
  <2>1. DOMAIN queue' = 1..n /\ Len(queue') = n /\ queue'[n] = o
        /\ \A i \in 1..Len(queue) : queue'[i] = queue[i]
    BY <1>4, <1>6
  <2>2. queue' \in Seq(Output) /\ n \in DOMAIN queue'
    BY <1>4, <2>1 DEF TypeOK
  <2> QED
    BY <2>1, <2>2
<1>10. S = [i \in ran..n |-> IF i = n THEN After(w, o) ELSE T[i]]
  OBVIOUS
<1> HIDE DEF w
<1>8. Fine(o, After(w, o)) /\ Agrees(kv', status', After(w, o))
  BY <1>3, <1>4, <1>5, ClosedFine, ClosedAgrees
<1>9. After(w, o) \in Snapshots
  <2>1. \A r \in Req : o.sched[r] # None => RowNext(w, o, r) \in BlockList
    BY <1>8, AfterIs DEF Fine, EntryFits
  <2>2. ASSUME NEW r \in Req, o.plans[r] # None
        PROVE  o.plans[r].semantic >= 0
    <3>1. o.sched[r] # None /\ o.plans[r].semantic = End(o, r)
          /\ o.sched[r].start >= 0 /\ o.sched[r].n >= 0
      BY <1>8, <2>2 DEF Fine, PlanFits, EntryFits
    <3> QED
      BY <1>7, <3>1, OutputFields DEF End
  <2> QED
    BY <1>5, <1>7, <2>1, <2>2, AfterType
<1>11. S[n] = After(w, o) /\ \A i \in ran..Len(queue) : S[i] = T[i]
  BY <1>4, <1>10
<1>12. Follows(S)'
  <2>1. S \in [ran..n -> Snapshots]
    <3>1. \A i \in ran..n : i # n => T[i] \in Snapshots
      BY <1>1, <1>4 DEF Follows
    <3> QED
      BY <1>9, <1>10, <3>1
  <2>2. S[ran] = Snapshot
    BY <1>1, <1>4, <1>11 DEF Follows
  <2>3. ASSUME NEW i \in ran + 1..n
        PROVE  S[i] = After(S[i - 1], queue'[i]) /\ Fine(queue'[i], S[i])
    <3>1. CASE i = n
      <4>1. S[i - 1] = w
        BY <1>4, <1>11, <3>1 DEF w
      <4> QED
        BY <1>7, <1>8, <1>11, <3>1, <4>1
    <3>2. CASE i # n
      <4>1. i \in ran + 1..Len(queue) /\ i \in 1..Len(queue) /\ i \in ran..Len(queue)
            /\ i - 1 \in ran..Len(queue)
        BY <1>4, <3>2
      <4>2. T[i] = After(T[i - 1], queue[i]) /\ Fine(queue[i], T[i])
        BY <1>1, <4>1 DEF Follows
      <4> QED
        BY <1>7, <1>11, <4>1, <4>2
    <3> QED
      BY <3>1, <3>2
  <2> QED
    BY <1>3, <1>7, <2>1, <2>2, <2>3 DEF Follows
<1>13. Reaches(kv, status, building, S[Len(queue)])'
  BY <1>3, <1>7, <1>8, <1>11 DEF Reaches
<1> QED
  BY <1>12, <1>13 DEF Traces

LEMMA SameTracks ==
  ASSUME TrackInv, NEW T, Traces(T), UNCHANGED <<kv, status, building, queue, ran>>, UNCHANGED wvars
  PROVE  Traces(T)'
<1>1. Follows(T) /\ Reaches(kv, status, building, T[Len(queue)])
  BY DEF Traces
<1>2. Follows(T)'
  BY <1>1, SameFollows DEF wvars
<1>3. Reaches(kv, status, building, T[Len(queue)])'
  BY <1>1
<1> QED
  BY <1>2, <1>3 DEF Traces

LEMMA NextTracks == TrackInv /\ [SystemNext]_allvars => TrackInv'
<1> SUFFICES ASSUME TrackInv, [SystemNext]_allvars
             PROVE  TrackInv'
  OBVIOUS
<1>0. PICK T : Traces(T)
  BY DEF TrackInv, Tracked
<1>1. ExtentInv'
  <2>1. [Next]_vars
    BY DEF SystemNext, allvars, Execute, Next
  <2> QED
    BY <2>1, NextExtent DEF TrackInv
<1>2. CASE Execute
  <2>1. PICK S : S = [i \in ran + 1..Len(queue) |-> T[i]]
    OBVIOUS
  <2>2. ~raised' /\ Traces(S)'
    BY <1>0, <1>2, <2>1, ExecuteTracks
  <2> QED
    BY <1>1, <2>2 DEF TrackInv, Tracked
<1>3. CASE UNCHANGED wvars /\ SchedulerNext
  <2>0. ~raised'
    BY <1>3 DEF wvars, TrackInv
  <2>1. CASE BeginSchedule
    BY <1>0, <1>1, <1>3, <2>0, <2>1, BeginScheduleTracks DEF TrackInv, Tracked
  <2>2. ASSUME NEW r \in Req, Admit(r)
        PROVE  TrackInv'
    <3>1. PICK hits, new, n, kind, c : Enters(r, hits, new, Len(hits) * BlockSize, n, kind, c)
      BY <2>2, AdmitEnters DEF TrackInv
    <3> QED
      BY <1>0, <1>1, <1>3, <2>0, <3>1, EnteredTracks DEF TrackInv, Tracked
  <2>3. ASSUME NEW r \in Req, ScheduleRunning(r)
        PROVE  TrackInv'
    <3>1. PICK new, n, c : Enters(r, <<>>, new, computed[r], n, "cached", c)
      BY <2>3, ScheduleRunningEnters DEF TrackInv
    <3> QED
      BY <1>0, <1>1, <1>3, <2>0, <3>1, EnteredTracks DEF TrackInv, Tracked
  <2>4. ASSUME NEW r \in Req, Preempt(r)
        PROVE  TrackInv'
    BY <1>0, <1>1, <1>3, <2>0, <2>4, PreemptTracks DEF TrackInv, Tracked
  <2>5. CASE EndSchedule
    <3>1. PICK A, dest, o : Closes(A, dest, o)
      BY <2>5, EndScheduleCloses DEF TrackInv
    <3>2. PICK S : S = [i \in ran..Len(queue) + 1 |->
                          IF i = Len(queue) + 1 THEN After(T[Len(queue)], o) ELSE T[i]]
      OBVIOUS
    <3>3. Traces(S)'
      BY <1>0, <1>1, <1>3, <2>5, <3>1, <3>2, EndScheduleTracks
    <3> QED
      BY <1>1, <2>0, <3>3 DEF TrackInv, Tracked
  <2>6. ASSUME NEW F \in SUBSET Req, UpdateFromOutput(F)
        PROVE  TrackInv'
    <3>1. PICK S : S = [i \in ran - 1..Len(queue) - 1 |-> T[i + 1]]
      OBVIOUS
    <3>2. Traces(S)'
      BY <1>0, <1>3, <2>6, <3>1, UpdateFromOutputTracks
    <3> QED
      BY <1>1, <2>0, <3>2 DEF TrackInv, Tracked
  <2>7. ASSUME NEW r \in Req, Abort(r)
        PROVE  TrackInv'
    BY <1>0, <1>1, <1>3, <2>0, <2>7, AbortTracks DEF TrackInv, Tracked
  <2>8. CASE ResetPrefixCache
    BY <1>0, <1>1, <1>3, <2>0, <2>8, ResetPrefixCacheTracks DEF TrackInv, Tracked
  <2>9. CASE Terminated
    <3>1. UNCHANGED <<kv, status, building, queue, ran>>
      BY <2>9 DEF Terminated, vars
    <3> QED
      BY <1>0, <1>1, <1>3, <2>0, <3>1, SameTracks DEF TrackInv, Tracked
  <2> QED
    BY <1>3, <2>1, <2>2, <2>3, <2>4, <2>5, <2>6, <2>7, <2>8, <2>9 DEF SchedulerNext, EngineNext
<1>4. CASE UNCHANGED allvars
  <2>1. UNCHANGED <<kv, status, building, queue, ran>> /\ UNCHANGED wvars /\ raised' = raised
    BY <1>4 DEF allvars, vars, wvars
  <2> QED
    BY <1>0, <1>1, <2>1, SameTracks DEF TrackInv, Tracked
<1> QED
  BY <1>2, <1>3, <1>4 DEF SystemNext

LEMMA InitTracks == SystemInit => TrackInv
<1> SUFFICES ASSUME SystemInit
             PROVE  TrackInv
  OBVIOUS
<1>1. ExtentInv
  BY InitExtent DEF SystemInit
<1>2. /\ status = [r \in Req |-> "waiting"] /\ building = None /\ queue = <<>> /\ ran = 0
      /\ row = [r \in Req |-> None] /\ wpending = [r \in Req |-> None]
      /\ wactive = [r \in Req |-> None] /\ raised = FALSE
  BY DEF SystemInit, Init, WorkerInit
<1>3. Snapshot \in Snapshots
  BY <1>2 DEF Snapshot, Snapshots
<1>4. Agrees(kv, status, Snapshot)
  BY <1>2 DEF Agrees, AgreesFor, Snapshot
<1>5. Len(queue) = 0
  BY <1>2
<1>6. PICK T : T = [i \in 0..0 |-> Snapshot]
  OBVIOUS
<1>7. Follows(T) /\ T[Len(queue)] = Snapshot
  BY <1>2, <1>3, <1>5, <1>6 DEF Follows
<1>8. Reaches(kv, status, building, T[Len(queue)])
  BY <1>2, <1>4, <1>7 DEF Reaches
<1> QED
  BY <1>1, <1>2, <1>7, <1>8 DEF TrackInv, Tracked, Traces

(* However many batches the worker lags behind, whatever is aborted,        *)
(* preempted or reset meanwhile, the batches in flight lead it to what the  *)
(* scheduler believes of it, and each of them finds what it was made for.   *)
THEOREM TrackCorrect == System => []TrackInv
<1>1. SystemInit => TrackInv
  BY InitTracks
<1>2. TrackInv /\ [SystemNext]_allvars => TrackInv'
  BY NextTracks
<1> QED
  BY <1>1, <1>2, PTL DEF System

(* The provider never raises: every plan finds the length, the table and    *)
(* the destination it was made from, every token a slot of its own.         *)
THEOREM AgreementCorrect == System => []WorkerAgrees
<1>1. TrackInv => WorkerAgrees
  BY DEF TrackInv, WorkerAgrees
<1> QED
  BY <1>1, TrackCorrect, PTL

----------------------------------------------------------------------------
(* The types of the worker's variables: what the memory needs for that is   *)
(* that every copied token lies within the table of its request.            *)

Memory == [Block -> [0..BlockSize - 1 -> Token]]

LEMMA ForwardType ==
  ASSUME mem \in Memory, NEW o \in Output, NEW v \in Snapshots,
         \A r \in Req : EntryFits(o, v, r)
  PROVE  AfterForward(o, v.row, v.active) \in Memory
<1> DEFINE addressOf == [w \in Writes(o) |-> Address(v.row[w[1]], Slot(v.active[w[1]], w[2]))]
           Value(b, q) ==
             IF \E w \in DOMAIN addressOf : addressOf[w] = <<b, q>>
             THEN LET w == CHOOSE w \in DOMAIN addressOf : addressOf[w] = <<b, q>>
                  IN Written(w[1], w[2], v.active[w[1]])
             ELSE mem[b][q]
<1>1. ASSUME NEW w \in Writes(o)
      PROVE  Written(w[1], w[2], v.active[w[1]]) \in Token
  <2>1. /\ w[1] \in Req /\ o.sched[w[1]] # None
        /\ w[2] \in o.sched[w[1]].start..End(o, w[1]) - 1
    BY WrittenBy
  <2>2. o.sched[w[1]].start \in Int /\ End(o, w[1]) \in Int /\ o.sched[w[1]].start >= 0
    BY <2>1, OutputFields DEF EntryFits
  <2>3. w[2] \in Nat
    BY <2>1, <2>2
  <2> QED
    BY <2>1, <2>3 DEF Written, Token
<1>2. ASSUME NEW b \in Block, NEW q \in 0..BlockSize - 1
      PROVE  Value(b, q) \in Token
  <2> HIDE DEF addressOf
  <2>1. DOMAIN addressOf = Writes(o)
    BY DEF addressOf
  <2> QED
    BY <1>1, <2>1 DEF Memory
<1>3. AfterForward(o, v.row, v.active) = [b \in Block |-> [q \in 0..BlockSize - 1 |-> Value(b, q)]]
  BY DEF AfterForward
<1> HIDE DEF Value
<1> QED
  BY <1>2, <1>3 DEF Memory

(* The place in a plan's destination of each of its Budget tokens.          *)
LEMMA KeptIndex ==
  ASSUME NEW i \in 1..Keep, NEW q \in 0..BlockSize - 1
  PROVE  (i - 1) * BlockSize + q + 1 \in 1..Budget
<1>1. BlockSize \in Nat \ {0} /\ Keep \in Nat /\ Keep * BlockSize = Budget /\ Budget \in Nat
  BY KeepIsBudget, ConfigAssumption
<1> DEFINE k == (i - 1) * BlockSize
<1>2. 0 * BlockSize <= k /\ k + BlockSize <= Keep * BlockSize /\ k \in Int
  <2>1. i - 1 \in Int /\ 0 <= i - 1 /\ i - 1 < Keep
    BY <1>1
  <2> QED
    BY <1>1, <2>1, ScaledOrder
<1> HIDE DEF k
<1>3. k + q + 1 \in 1..Budget
  BY <1>1, <1>2
<1> QED
  BY <1>3 DEF k

(* Every token a plan keeps is one of its request's.                        *)
LEMMA KeptSource ==
  ASSUME NEW o \in Output, NEW v \in Snapshots, Fine(o, v), NEW r \in PlansOf(o),
         NEW sel \in Selections(Physical(v.active, r, End(o, r))), NEW j \in 1..Budget
  PROVE  /\ sel[j] \in 0..Len(v.row[r]) * BlockSize - 1
         /\ sel[j] < Physical(v.active, r, End(o, r))
         /\ Address(v.row[r], sel[j])[1] \in Block
         /\ Address(v.row[r], sel[j])[2] \in 0..BlockSize - 1
<1>1. /\ r \in Req /\ o.sched[r] # None
      /\ Physical(v.active, r, End(o, r)) <= Len(v.row[r]) * BlockSize
      /\ v.row[r] \in Seq(Block)
  BY DEF PlansOf, Fine, PlanFits, EntryFits, BlockList
<1>2. Len(v.row[r]) \in Nat /\ Physical(v.active, r, End(o, r)) \in Int
      /\ Len(v.row[r]) * BlockSize \in Int
  <2>1. Len(v.row[r]) \in Nat
    BY <1>1, LenProperties
  <2>2. End(o, r) \in Int /\ v.active[r] \in Active \cup {None}
    BY <1>1, OutputFields, SnapshotFields
  <2>3. Physical(v.active, r, End(o, r)) \in Int
    <3>1. CASE v.active[r] = None
      BY <2>2, <3>1 DEF Physical
    <3>2. CASE v.active[r] # None
      <4>1. v.active[r].semantic \in Int /\ v.active[r].physical \in Int
        BY <2>2, <3>2 DEF Active
      <4> QED
        BY <2>2, <3>2, <4>1 DEF Physical
    <3> QED
      BY <3>1, <3>2
  <2> QED
    BY <2>1, <2>3, ScaledOrder
<1>3. sel[j] \in 0..Physical(v.active, r, End(o, r)) - 1
  BY DEF Selections
<1>4. sel[j] \in 0..Len(v.row[r]) * BlockSize - 1 /\ sel[j] < Physical(v.active, r, End(o, r))
  BY <1>1, <1>2, <1>3
<1>5. sel[j] \div BlockSize + 1 \in 1..Len(v.row[r]) /\ sel[j] % BlockSize \in 0..BlockSize - 1
  BY <1>2, <1>4, SlotIndex
<1>6. v.row[r][sel[j] \div BlockSize + 1] \in Block
  BY <1>1, <1>5, ElementOfSeq
<1> QED
  BY <1>4, <1>5, <1>6 DEF Address

LEMMA MaterializedType ==
  ASSUME NEW m \in Memory, NEW o \in Output, NEW v \in Snapshots, Fine(o, v), NEW keep,
         \A r \in PlansOf(o) : keep[r] \in Selections(Physical(v.active, r, End(o, r)))
  PROVE  Materialized(m, o, v.row, PlansOf(o), keep) \in Memory
<1> DEFINE P == PlansOf(o)
           From(b) == CHOOSE r \in P : b \in Range(o.plans[r].dest)
           Place(b) == CHOOSE i \in DOMAIN o.plans[From(b)].dest : o.plans[From(b)].dest[i] = b
           Source(b, q) == Address(v.row[From(b)], keep[From(b)][(Place(b) - 1) * BlockSize + q + 1])
           Value(b, q) == IF \E r \in P : b \in Range(o.plans[r].dest)
                          THEN m[Source(b, q)[1]][Source(b, q)[2]] ELSE m[b][q]
<1>1. ASSUME NEW b \in Block, NEW q \in 0..BlockSize - 1
      PROVE  Value(b, q) \in Token
  <2>1. CASE \E r \in P : b \in Range(o.plans[r].dest)
    <3>1. From(b) \in P /\ b \in Range(o.plans[From(b)].dest)
      BY <2>1
    <3> HIDE DEF From
    <3>2. Place(b) \in DOMAIN o.plans[From(b)].dest
      BY <3>1 DEF Range
    <3> HIDE DEF Place
    <3>3. Place(b) \in 1..Keep
      <4>1. From(b) \in Req /\ o.plans[From(b)] # None /\ Len(o.plans[From(b)].dest) = Keep
        BY <3>1 DEF PlansOf, Fine, PlanFits, Disagrees
      <4>2. o.plans[From(b)].dest \in Seq(Block)
        BY <4>1, OutputFields DEF BlockList
      <4> QED
        BY <3>2, <4>1, <4>2, LenProperties
    <3>4. (Place(b) - 1) * BlockSize + q + 1 \in 1..Budget
      BY <3>3, KeptIndex
    <3>5. Source(b, q)[1] \in Block /\ Source(b, q)[2] \in 0..BlockSize - 1
      BY <3>1, <3>4, KeptSource
    <3> HIDE DEF Source
    <3> QED
      BY <2>1, <3>5 DEF Memory
  <2>2. CASE ~(\E r \in P : b \in Range(o.plans[r].dest))
    BY <2>2 DEF Memory
  <2> QED
    BY <2>1, <2>2
<1>2. Materialized(m, o, v.row, P, keep) = [b \in Block |-> [q \in 0..BlockSize - 1 |-> Value(b, q)]]
  BY DEF Materialized
<1> HIDE DEF Value
<1> QED
  BY <1>1, <1>2 DEF Memory

LEMMA FirstQueued ==
  ASSUME TrackInv, Execute
  PROVE  /\ queue[ran + 1] \in Output /\ Snapshot \in Snapshots
         /\ Fine(queue[ran + 1], After(Snapshot, queue[ran + 1]))
         /\ After(Snapshot, queue[ran + 1]) \in Snapshots
<1>1. PICK T : Follows(T)
  BY DEF TrackInv, Tracked, Traces
<1>2. /\ ran < Len(queue) /\ Len(queue) \in Nat /\ ran \in 0..Len(queue)
      /\ \A i \in 1..Len(queue) : queue[i] \in Output
  BY ExtentTypes, QueuedAre DEF TrackInv, Execute, WorkerRuns
<1>3. ran + 1 \in ran + 1..Len(queue) /\ ran + 1 \in 1..Len(queue) /\ ran + 1 - 1 = ran
      /\ ran + 1 \in ran..Len(queue) /\ ran \in ran..Len(queue)
  BY <1>2
<1>4. T[ran + 1] = After(T[ran], queue[ran + 1]) /\ Fine(queue[ran + 1], T[ran + 1])
      /\ T[ran] = Snapshot /\ T[ran] \in Snapshots /\ T[ran + 1] \in Snapshots
  BY <1>1, <1>3 DEF Follows
<1> QED
  BY <1>2, <1>3, <1>4

LEMMA ExecuteType ==
  ASSUME TrackInv, WorkerTypeOK, Execute
  PROVE  WorkerTypeOK'
<1> DEFINE o == queue[ran + 1]
           v == After(Snapshot, o)
<1>1. o \in Output /\ Snapshot \in Snapshots /\ Fine(o, v) /\ v \in Snapshots
  BY FirstQueued
<1>2. RanThrough(o, v)
  BY <1>1, ExecuteIs
<1> HIDE DEF o, v
<1>3. row' \in [Req -> BlockList \cup {None}] /\ wpending' \in [Req -> WorkerPending \cup {None}]
      /\ wactive' \in [Req -> Active \cup {None}]
  <2>1. Snapshot' \in Snapshots
    BY <1>1, <1>2 DEF RanThrough
  <2>2. Snapshot'.row = row' /\ Snapshot'.pending = wpending' /\ Snapshot'.active = wactive'
    BY DEF Snapshot
  <2> QED
    BY <2>1, <2>2 DEF Snapshots
<1>4. seen' \in [Req -> Nat]
  <2>1. ASSUME NEW r \in Req, o.sched[r] # None
        PROVE  End(o, r) \in Nat
    <3>1. o.sched[r].start >= 0 /\ o.sched[r].n >= 0
      BY <1>1, <2>1 DEF Fine, EntryFits
    <3> QED
      BY <1>1, <2>1, <3>1, OutputFields DEF End
  <2>2. seen' = SeenAfter(o) /\ seen \in [Req -> Nat]
    BY <1>2 DEF RanThrough, WorkerTypeOK
  <2> QED
    BY <2>1, <2>2 DEF SeenAfter
<1>5. mem' \in Memory
  <2>1. PICK keep :
          /\ \A r \in PlansOf(o) : keep[r] \in Selections(Physical(v.active, r, End(o, r)))
          /\ mem' = Materialized(AfterForward(o, v.row, v.active), o, v.row, PlansOf(o), keep)
    BY <1>2 DEF RanThrough
  <2>2. AfterForward(o, v.row, v.active) \in Memory
    BY <1>1, ForwardType DEF WorkerTypeOK, Memory, Fine
  <2> QED
    BY <1>1, <2>1, <2>2, MaterializedType
<1> QED
  BY <1>2, <1>3, <1>4, <1>5 DEF RanThrough, WorkerTypeOK, Memory

LEMMA NextWorkerType == TrackInv /\ WorkerTypeOK /\ [SystemNext]_allvars => WorkerTypeOK'
<1> SUFFICES ASSUME TrackInv, WorkerTypeOK, [SystemNext]_allvars
             PROVE  WorkerTypeOK'
  OBVIOUS
<1>1. CASE Execute
  BY <1>1, ExecuteType
<1>2. CASE UNCHANGED wvars
  BY <1>2 DEF wvars, WorkerTypeOK
<1> QED
  BY <1>1, <1>2 DEF SystemNext, allvars

LEMMA InitWorkerType == SystemInit => WorkerTypeOK
<1> SUFFICES ASSUME WorkerInit
             PROVE  WorkerTypeOK
  BY DEF SystemInit
<1>1. [owner |-> None, pos |-> 0, exact |-> FALSE] \in Token
  BY DEF Token
<1>2. mem \in [Block -> [0..BlockSize - 1 -> Token]]
  BY <1>1 DEF WorkerInit
<1> QED
  BY <1>2 DEF WorkerInit, WorkerTypeOK

(* The worker's variables keep their types: the tables it writes and copies *)
(* through are always long enough.                                          *)
THEOREM WorkerTypeCorrect == System => []WorkerTypeOK
<1>1. SystemInit => TrackInv /\ WorkerTypeOK
  BY InitTracks, InitWorkerType
<1>2. TrackInv /\ WorkerTypeOK /\ [SystemNext]_allvars => (TrackInv /\ WorkerTypeOK)'
  BY NextTracks, NextWorkerType
<1> QED
  BY <1>1, <1>2, PTL DEF System

----------------------------------------------------------------------------
(* What the KV memory is known to hold.  The fact <<<<b, q>>, t>> says that *)
(* offset q of block b holds the token t.  A batch o that leads to the      *)
(* state v adds what it writes, and leaves of what was known what it neither*)
(* overwrites nor copies over.                                              *)

Cells == Block \X (0..BlockSize - 1)
Holds(f) == f[1] \in Cells /\ mem[f[1][1]][f[1][2]] = f[2]

Site(v, x) == Address(v.row[x[1]], Slot(v.active[x[1]], x[2]))
Sites(o, v) == {Site(v, x) : x \in Writes(o)}
Wrote(o, v) == {<<Site(v, x), Written(x[1], x[2], v.active[x[1]])>> : x \in Writes(o)}
Copied(o) == UNION {Range(o.plans[r].dest) : r \in PlansOf(o)}
Learnt(F, o, v) ==
  {f \in Wrote(o, v) \cup {g \in F : g[1] \notin Sites(o, v)} : f[1][1] \notin Copied(o)}

(* F[i] is known once the i-th queued batch has run; behind the batch b that*)
(* is being built, more is.                                                 *)
Remembers(T, F) ==
  /\ \A f \in F[ran] : Holds(f)
  /\ \A i \in ran + 1..Len(queue) : F[i] = Learnt(F[i - 1], queue[i], T[i])
Foreseen(b, w, F) == IF b = None THEN F ELSE Learnt(F, b, After(w, b))

(* What must be known: the tokens that hashes stand for, and the tokens of  *)
(* the requests under way that were never compacted.                        *)
StandsFor(h, q) ==
  LET p == (h[2] - 1) * BlockSize + q IN
  [owner |-> IF p < Shared THEN None ELSE h[1], pos |-> p, exact |-> TRUE]
HashesKnown(k, F) ==
  \A b \in Block : k.hash[b] # Unhashed =>
    \A q \in 0..BlockSize - 1 : <<<<b, q>>, StandsFor(k.hash[b], q)>> \in F
OriginalKnown(k, c, F, r) ==
  \A p \in 0..c[r] - 1 : <<Address(k.table[r], p), Written(r, p, None)>> \in F
Covered(k, s, c, F) ==
  /\ HashesKnown(k, F)
  /\ \A r \in Req : s[r] = "running" /\ k.active[r] = None => OriginalKnown(k, c, F, r)

Recalls(T, F) ==
  /\ Remembers(T, F)
  /\ Covered(kv, status, computed, Foreseen(building, T[Len(queue)], F[Len(queue)]))
RecallInv == TrackInv /\ \E T, F : Traces(T) /\ Recalls(T, F)

(* A write of a fine batch goes to a cell.                                  *)
LEMMA SiteIsCell ==
  ASSUME NEW o \in Output, NEW v \in Snapshots, \A r \in Req : EntryFits(o, v, r),
         NEW x \in Writes(o)
  PROVE  Site(v, x) \in Cells
<1> DEFINE s == Slot(v.active[x[1]], x[2])
           t == v.row[x[1]]
<1>1. s \in 0..Len(t) * BlockSize - 1
  BY FineSlots DEF SlotsExist
<1>2. t \in Seq(Block) /\ Len(t) \in Nat
  <2>1. x[1] \in Req /\ o.sched[x[1]] # None
    BY WrittenBy
  <2> QED
    BY <2>1, LenProperties DEF EntryFits, BlockList
<1>3. Site(v, x) = <<t[s \div BlockSize + 1], s % BlockSize>>
  BY DEF Site, Address
<1> HIDE DEF s, t
<1>4. s \div BlockSize + 1 \in 1..Len(t) /\ s % BlockSize \in 0..BlockSize - 1
  BY <1>1, <1>2, SlotIndex
<1>5. t[s \div BlockSize + 1] \in Block
  BY <1>2, <1>4, ElementOfSeq
<1> QED
  BY <1>3, <1>4, <1>5 DEF Cells

(* What is learnt from a batch holds once it has run.                       *)
LEMMA LearntHolds ==
  ASSUME NEW o \in Output, NEW v \in Snapshots, Fine(o, v), RanThrough(o, v),
         NEW F, \A f \in F : Holds(f), NEW f \in Learnt(F, o, v)
  PROVE  Holds(f)'
<1> DEFINE b == f[1][1]
           q == f[1][2]
           m == AfterForward(o, v.row, v.active)
           addressOf == [w \in Writes(o) |-> Address(v.row[w[1]], Slot(v.active[w[1]], w[2]))]
<1>1. b \notin Copied(o) /\ (f \in Wrote(o, v) \/ (f \in F /\ f[1] \notin Sites(o, v)))
  BY DEF Learnt
<1>2. f[1] \in Cells
  <2>1. CASE f \in Wrote(o, v)
    <3>1. PICK x \in Writes(o) : f = <<Site(v, x), Written(x[1], x[2], v.active[x[1]])>>
      BY <2>1 DEF Wrote
    <3> QED
      BY <3>1, SiteIsCell DEF Fine
  <2>2. CASE f \in F
    BY <2>2 DEF Holds
  <2> QED
    BY <1>1, <2>1, <2>2
<1>3. b \in Block /\ q \in 0..BlockSize - 1 /\ f[1] = <<b, q>>
  BY <1>2 DEF Cells
<1>4. mem'[b][q] = m[b][q]
  <2>1. PICK keep : mem' = Materialized(m, o, v.row, PlansOf(o), keep)
    BY DEF RanThrough
  <2>2. ~(\E r \in PlansOf(o) : b \in Range(o.plans[r].dest))
    BY <1>1 DEF Copied
  <2> HIDE DEF m, b, q
  <2> QED
    BY <1>3, <2>1, <2>2 DEF Materialized
<1>5. \A w \in Writes(o) : addressOf[w] = Site(v, w)
  BY DEF Site
<1>6. m[b][q] = IF \E w \in DOMAIN addressOf : addressOf[w] = <<b, q>>
                THEN LET w == CHOOSE w \in DOMAIN addressOf : addressOf[w] = <<b, q>>
                     IN Written(w[1], w[2], v.active[w[1]])
                ELSE mem[b][q]
  <2> HIDE DEF b, q
  <2> QED
    BY <1>3 DEF AfterForward
<1>7. DOMAIN addressOf = Writes(o)
  OBVIOUS
<1> HIDE DEF addressOf, m
<1>8. m[b][q] = f[2]
  <2>1. CASE f \in Wrote(o, v)
    <3>1. PICK x \in Writes(o) : f = <<Site(v, x), Written(x[1], x[2], v.active[x[1]])>>
      BY <2>1 DEF Wrote
    <3>2. addressOf[x] = <<b, q>>
      BY <1>3, <1>5, <3>1
    <3>3. PICK w : w = CHOOSE z \in DOMAIN addressOf : addressOf[z] = <<b, q>>
      OBVIOUS
    <3>4. w \in Writes(o) /\ addressOf[w] = <<b, q>>
      BY <1>7, <3>2, <3>3
    <3>5. w = x
      BY <1>5, <3>2, <3>4 DEF Fine, SlotsDisjoint, Site
    <3> QED
      BY <1>6, <1>7, <3>1, <3>2, <3>3, <3>5
  <2>2. CASE f \in F /\ f[1] \notin Sites(o, v)
    <3>1. ~(\E w \in DOMAIN addressOf : addressOf[w] = <<b, q>>)
      BY <1>3, <1>5, <1>7, <2>2 DEF Sites
    <3> QED
      BY <1>6, <2>2, <3>1 DEF Holds
  <2> QED
    BY <1>1, <2>1, <2>2
<1> QED
  BY <1>2, <1>4, <1>8 DEF Holds, Cells

(* Two batches with the same entries write the same, from states that agree *)
(* on the rows they write; with the same plans, they teach the same.        *)
LEMMA SameWrites ==
  ASSUME NEW o, NEW p, NEW u, NEW v, p.sched = o.sched,
         \A q \in Req : o.sched[q] # None => v.row[q] = u.row[q] /\ v.active[q] = u.active[q]
  PROVE  Wrote(p, v) = Wrote(o, u) /\ Sites(p, v) = Sites(o, u)
<1>1. Writes(p) = Writes(o)
  BY DEF Writes, End
<1>2. ASSUME NEW x \in Writes(o)
      PROVE  Site(v, x) = Site(u, x) /\ v.active[x[1]] = u.active[x[1]]
  <2>1. x[1] \in Req /\ o.sched[x[1]] # None
    BY WrittenBy
  <2> QED
    BY <2>1 DEF Site
<1> QED
  BY <1>1, <1>2 DEF Wrote, Sites

LEMMA SameLearnt ==
  ASSUME NEW F, NEW o, NEW p, NEW u, NEW v, p.sched = o.sched, p.plans = o.plans,
         \A q \in Req : o.sched[q] # None => v.row[q] = u.row[q] /\ v.active[q] = u.active[q]
  PROVE  Learnt(F, p, v) = Learnt(F, o, u)
<1>1. Wrote(p, v) = Wrote(o, u) /\ Sites(p, v) = Sites(o, u)
  BY SameWrites
<1>2. Copied(p) = Copied(o)
  BY DEF Copied, PlansOf
<1> QED
  BY <1>1, <1>2 DEF Learnt

LEMMA NothingLearnt == \A F, w : Learnt(F, EmptyOutput, w) = F
<1> SUFFICES ASSUME NEW F, NEW w
             PROVE  Learnt(F, EmptyOutput, w) = F
  OBVIOUS
<1>1. \A r \in Req : EmptyOutput.sched[r] = None /\ EmptyOutput.plans[r] = None
  BY DEF EmptyOutput
<1>2. Writes(EmptyOutput) = {} /\ Copied(EmptyOutput) = {}
  BY <1>1 DEF Writes, Copied, PlansOf
<1>3. Wrote(EmptyOutput, w) = {} /\ Sites(EmptyOutput, w) = {}
  BY <1>2 DEF Wrote, Sites
<1> QED
  BY <1>2, <1>3 DEF Learnt

(* A batch without plans copies nothing over.                               *)
LEMMA NothingCopied ==
  ASSUME NEW o, \A r \in Req : o.plans[r] = None
  PROVE  Copied(o) = {}
BY DEF Copied, PlansOf

(* What the memory is known to hold suffices as long as no block is hashed  *)
(* and the requests under way stay where they are, or commit.               *)
LEMMA SettledCovered ==
  ASSUME ExtentInv, NEW F, Covered(kv, status, computed, F),
         \A b \in Block : kv'.hash[b] \in {kv.hash[b], Unhashed},
         \A r \in Req : status'[r] = "running" =>
            status[r] = "running" /\ computed'[r] = computed[r] /\ Settles(kv, kv', r)
  PROVE  Covered(kv', status', computed', F)
<1>1. HashesKnown(kv', F)
  BY DEF Covered, HashesKnown
<1>2. ASSUME NEW r \in Req, status'[r] = "running", kv'.active[r] = None
      PROVE  OriginalKnown(kv', computed', F, r)
  <2>1. Settles(kv, kv', r) /\ status[r] = "running" /\ computed'[r] = computed[r]
    BY <1>2
  <2>2. ~CommittedFrom(kv, kv', r)
    <3> SUFFICES ASSUME CommittedFrom(kv, kv', r)
                 PROVE  FALSE
      OBVIOUS
    <3>1. kv.pending[r] \in Pending
      BY <2>1, CommittedLength
    <3>2. [semantic |-> kv.pending[r].plan.semantic, physical |-> Budget] \in Active
      BY <3>1, ConfigAssumption DEF Pending, Plan, Active
    <3>3. kv'.active[r] = [semantic |-> kv.pending[r].plan.semantic, physical |-> Budget]
      BY DEF CommittedFrom
    <3> QED
      BY <1>2, <3>2, <3>3, NoneAssumption
  <2>3. kv'.table[r] = kv.table[r] /\ kv.active[r] = None
    BY <1>2, <2>1, <2>2 DEF Settles, Kept
  <2>4. OriginalKnown(kv, computed, F, r)
    BY <2>1, <2>3 DEF Covered
  <2> QED
    BY <2>1, <2>3, <2>4 DEF OriginalKnown
<1> QED
  BY <1>1, <1>2 DEF Covered

LEMMA SameRemembers ==
  ASSUME UNCHANGED <<mem, queue, ran>>, NEW T, NEW F, Remembers(T, F)
  PROVE  Remembers(T, F)'
BY DEF Remembers, Holds

----------------------------------------------------------------------------
(* What is known of the memory, step by step.                               *)

LEMMA BeginScheduleRecalls ==
  ASSUME TrackInv, NEW T, Traces(T), NEW F, Recalls(T, F), BeginSchedule, UNCHANGED wvars
  PROVE  Recalls(T, F)'
<1> DEFINE w == T[Len(queue)]
           G == F[Len(queue)]
<1>1. /\ building = None /\ kv' = BeforeSchedule(kv, finishedIds) /\ building' = EmptyOutput
      /\ UNCHANGED <<status, computed, queue, ran, mem>>
  BY DEF BeginSchedule, wvars
<1>2. ExtentInv /\ kv \in KV /\ finishedIds \in SUBSET Req /\ Sourced(kv)
  BY ExtentTypes, PlansAreSourced DEF TrackInv, TypeOK
<1>3. Covered(kv, status, computed, G)
  BY <1>1 DEF Recalls, Foreseen
<1> HIDE DEF w, G
<1>4. kv'.hash = kv.hash /\ \A r \in Req \ finishedIds : Settles(kv, kv', r)
  BY <1>1, <1>2, BeforeScheduleSettles
<1>5. ASSUME NEW r \in Req, status'[r] = "running"
      PROVE  status[r] = "running" /\ computed'[r] = computed[r] /\ Settles(kv, kv', r)
  <2>1. status[r] = "running" /\ r \notin finishedIds
    BY <1>1, <1>2, <1>5 DEF ExtentInv, Extent, Announced
  <2> QED
    BY <1>1, <1>4, <2>1
<1>6. Covered(kv', status', computed', G)
  BY <1>2, <1>3, <1>4, <1>5, SettledCovered
<1>7. Foreseen(building', w, G) = G
  <2>1. Foreseen(EmptyOutput, w, G) = G
    BY NothingLearnt DEF Foreseen
  <2> QED
    BY <1>1, <2>1
<1>8. Covered(kv', status', computed', Foreseen(building', T[Len(queue')], F[Len(queue')]))
  BY <1>1, <1>6, <1>7 DEF w, G
<1>9. Remembers(T, F)'
  BY <1>1, SameRemembers DEF Recalls
<1> QED
  BY <1>8, <1>9 DEF Recalls

LEMMA PreemptRecalls ==
  ASSUME TrackInv, NEW T, Traces(T), NEW F, Recalls(T, F),
         NEW victim \in Req, Preempt(victim), UNCHANGED wvars
  PROVE  Recalls(T, F)'
<1> DEFINE w == T[Len(queue)]
           u == After(w, building)
           G == F[Len(queue)]
<1>1. /\ building # None /\ building.sched[victim] = None
      /\ kv' = Freed(kv, {victim})
      /\ status' = [status EXCEPT ![victim] = "preempted"]
      /\ computed' = [computed EXCEPT ![victim] = 0]
      /\ building' = [building EXCEPT !.preempted = @ \cup {victim}]
      /\ UNCHANGED <<queue, ran, mem>>
  BY DEF Preempt, wvars
<1>2. ExtentInv /\ kv \in KV /\ building \in Output /\ computed \in [Req -> Nat]
      /\ status \in [Req -> {"waiting", "running", "preempted", "finished"}]
  BY <1>1, ExtentTypes DEF TrackInv
<1>3. Covered(kv, status, computed, Learnt(G, building, u))
  BY <1>1 DEF Recalls, Foreseen
<1>4. PICK o : o = building'
  OBVIOUS
<1>5. PICK v : v = After(w, o)
  OBVIOUS
<1>6. /\ o.sched = building.sched /\ o.plans = building.plans /\ o.finished = building.finished
      /\ o.preempted = building.preempted \cup {victim} /\ o # None
  <2>1. /\ o.sched = building.sched /\ o.plans = building.plans
        /\ o.finished = building.finished
        /\ o.preempted = building.preempted \cup {victim} /\ o \in Output
    BY <1>1, <1>2, <1>4 DEF Output
  <2> QED
    BY <2>1, NoneAssumption
<1>7. ASSUME NEW q \in Req, building.sched[q] # None
      PROVE  v.row[q] = u.row[q] /\ v.active[q] = u.active[q]
  <2>1. q # victim
    BY <1>1, <1>7
  <2>2. q \in Reset(o) <=> q \in Reset(building)
    BY <1>6, <2>1 DEF Reset
  <2> QED
    BY <1>5, <1>6, <1>7, <2>2, AfterIs DEF RowNext, ActiveNext
<1> HIDE DEF w, u, G
<1>8. Learnt(G, o, v) = Learnt(G, building, u)
  BY <1>6, <1>7, SameLearnt
<1>9. kv'.hash = kv.hash /\ \A r \in Req \ {victim} : Settles(kv, kv', r)
  BY <1>1, <1>2, FreedKeeps DEF Settles
<1>10. \A r \in Req : status'[r] = "running" =>
         status[r] = "running" /\ computed'[r] = computed[r] /\ Settles(kv, kv', r)
  BY <1>1, <1>2, <1>9
<1>11. Covered(kv', status', computed', Learnt(G, o, v))
  BY <1>2, <1>3, <1>8, <1>9, <1>10, SettledCovered
<1>12. Foreseen(building', w, G) = Learnt(G, o, v)
  BY <1>4, <1>5, <1>6 DEF Foreseen
<1>13. Covered(kv', status', computed', Foreseen(building', T[Len(queue')], F[Len(queue')]))
  BY <1>1, <1>11, <1>12 DEF w, G
<1>14. Remembers(T, F)'
  BY <1>1, SameRemembers DEF Recalls
<1> QED
  BY <1>13, <1>14 DEF Recalls

LEMMA AbortRecalls ==
  ASSUME TrackInv, NEW T, NEW F, Recalls(T, F), NEW q \in Req, Abort(q), UNCHANGED wvars
  PROVE  Recalls(T, F)'
<1> DEFINE G == F[Len(queue)]
<1>1. /\ building = None /\ kv' = Freed(kv, {q})
      /\ status' = [status EXCEPT ![q] = "finished"]
      /\ computed' = [computed EXCEPT ![q] = 0]
      /\ UNCHANGED <<queue, ran, building, mem>>
  BY DEF Abort, wvars
<1>2. ExtentInv /\ kv \in KV /\ computed \in [Req -> Nat]
      /\ status \in [Req -> {"waiting", "running", "preempted", "finished"}]
  BY ExtentTypes DEF TrackInv
<1>3. Covered(kv, status, computed, G)
  BY <1>1 DEF Recalls, Foreseen
<1> HIDE DEF G
<1>4. kv'.hash = kv.hash /\ \A r \in Req \ {q} : Settles(kv, kv', r)
  BY <1>1, <1>2, FreedKeeps DEF Settles
<1>5. \A r \in Req : status'[r] = "running" =>
        status[r] = "running" /\ computed'[r] = computed[r] /\ Settles(kv, kv', r)
  BY <1>1, <1>2, <1>4
<1>6. Covered(kv', status', computed', G)
  BY <1>2, <1>3, <1>4, <1>5, SettledCovered
<1>7. Covered(kv', status', computed', Foreseen(building', T[Len(queue')], F[Len(queue')]))
  BY <1>1, <1>6 DEF Foreseen, G
<1>8. Remembers(T, F)'
  BY <1>1, SameRemembers DEF Recalls
<1> QED
  BY <1>7, <1>8 DEF Recalls

LEMMA UpdateFromOutputRecalls ==
  ASSUME TrackInv, NEW T, NEW F, Recalls(T, F), NEW S, NEW G,
         S = [i \in ran - 1..Len(queue) - 1 |-> T[i + 1]],
         G = [i \in ran - 1..Len(queue) - 1 |-> F[i + 1]],
         NEW R \in SUBSET Req, UpdateFromOutput(R), UNCHANGED wvars
  PROVE  Recalls(S, G)'
<1> DEFINE H == F[Len(queue)]
<1>1. /\ building = None /\ building' = None /\ ran > 0 /\ mem' = mem
      /\ queue' = Tail(queue) /\ ran' = ran - 1
      /\ status' = [r \in Req |-> IF r \in R THEN "finished" ELSE status[r]]
      /\ computed' = [r \in Req |-> IF r \in R THEN 0 ELSE computed[r]]
  BY DEF UpdateFromOutput, wvars
<1>2. ExtentInv /\ queue \in Seq(Output) /\ Len(queue) \in Nat /\ ran \in 0..Len(queue)
  BY ExtentTypes, QueuedAre DEF TrackInv, TypeOK
<1>3. Len(queue') = Len(queue) - 1 /\ \A i \in 1..Len(queue) - 1 : queue'[i] = queue[i + 1]
  <2>1. queue # <<>>
    BY <1>1, <1>2, EmptySeq
  <2> QED
    BY <1>1, <1>2, <2>1, HeadTailProperties
<1>4. Remembers(T, F) /\ Covered(kv, status, computed, H)
  BY <1>1 DEF Recalls, Foreseen
<1>5. /\ ran - 1 \in ran - 1..Len(queue) - 1 /\ ran - 1 + 1 = ran
      /\ Len(queue) - 1 \in ran - 1..Len(queue) - 1 /\ Len(queue) - 1 + 1 = Len(queue)
  BY <1>2
<1>6. G[ran - 1] = F[ran] /\ G[Len(queue) - 1] = H
  BY <1>5
<1> HIDE DEF H
<1>7. \A f \in G[ran - 1] : Holds(f)'
  BY <1>1, <1>4, <1>6 DEF Remembers, Holds
<1>8. ASSUME NEW i \in ran - 1 + 1..Len(queue) - 1
      PROVE  G[i] = Learnt(G[i - 1], queue'[i], S[i])
  <2>1. /\ i \in 1..Len(queue) - 1 /\ i \in ran - 1..Len(queue) - 1
        /\ i - 1 \in ran - 1..Len(queue) - 1 /\ i + 1 \in ran + 1..Len(queue)
        /\ i - 1 + 1 = i /\ i + 1 - 1 = i
    BY <1>1, <1>2
  <2>2. F[i + 1] = Learnt(F[i], queue[i + 1], T[i + 1])
    BY <1>4, <2>1 DEF Remembers
  <2> QED
    BY <1>3, <2>1, <2>2
<1>9. Remembers(S, G)'
  BY <1>1, <1>3, <1>7, <1>8 DEF Remembers
<1>10. kv'.hash = kv.hash /\ \A r \in Req \ R : Settles(kv, kv', r)
  BY <1>2, UpdateFromOutputSettles
<1>11. \A r \in Req : status'[r] = "running" =>
         status[r] = "running" /\ computed'[r] = computed[r] /\ Settles(kv, kv', r)
  BY <1>1, <1>10
<1>12. Covered(kv', status', computed', H)
  BY <1>2, <1>4, <1>10, <1>11, SettledCovered
<1>13. Covered(kv', status', computed', Foreseen(building', S[Len(queue')], G[Len(queue')]))
  BY <1>1, <1>3, <1>6, <1>12 DEF Foreseen
<1> QED
  BY <1>9, <1>13 DEF Recalls

LEMMA ResetPrefixCacheRecalls ==
  ASSUME TrackInv, NEW T, NEW F, Recalls(T, F), ResetPrefixCache, UNCHANGED wvars
  PROVE  Recalls(T, F)'
<1> DEFINE G == F[Len(queue)]
           R == {r \in Req : status[r] = "running"}
           k == Freed(kv, R)
<1>1. /\ building = None /\ building' = None /\ ran' = ran /\ mem' = mem
      /\ kv' = IF FreeBlocks(k) = Block
               THEN [k EXCEPT !.hash = [b \in Block |-> Unhashed]] ELSE k
      /\ status' = [r \in Req |-> IF r \in R THEN "preempted" ELSE status[r]]
      /\ queue' = [i \in DOMAIN queue |-> [queue[i] EXCEPT !.sampled = @ \ R]]
  BY DEF ResetPrefixCache, wvars
<1>2. ExtentInv /\ kv \in KV /\ Len(queue) \in Nat /\ ran \in 0..Len(queue)
      /\ DOMAIN queue = 1..Len(queue) /\ \A i \in 1..Len(queue) : queue[i] \in Output
  BY ExtentTypes, QueuedAre DEF TrackInv
<1>3. Len(queue') = Len(queue)
  <2>1. queue' \in [1..Len(queue) -> {queue'[i] : i \in 1..Len(queue)}]
    BY <1>1, <1>2
  <2> QED
    BY <1>1, <1>2, <2>1
<1>4. Remembers(T, F) /\ Covered(kv, status, computed, G)
  BY <1>1 DEF Recalls, Foreseen
<1>5. ASSUME NEW i \in ran + 1..Len(queue)
      PROVE  F[i] = Learnt(F[i - 1], queue'[i], T[i])
  <2>1. i \in DOMAIN queue /\ queue[i] \in Output
    BY <1>2
  <2>2. queue'[i].sched = queue[i].sched /\ queue'[i].plans = queue[i].plans
    BY <1>1, <2>1 DEF Output
  <2>3. F[i] = Learnt(F[i - 1], queue[i], T[i])
    BY <1>4 DEF Remembers
  <2> QED
    BY <2>2, <2>3, SameLearnt
<1>6. \A f \in F[ran] : Holds(f)'
  BY <1>1, <1>4 DEF Remembers, Holds
<1>7. Remembers(T, F)'
  BY <1>1, <1>3, <1>5, <1>6 DEF Remembers
<1>8. \A b \in Block : kv'.hash[b] \in {kv.hash[b], Unhashed}
  <2>1. k \in KV /\ k.hash = kv.hash
    <3>1. R \in SUBSET Req
      OBVIOUS
    <3> QED
      BY <1>2, <3>1, FreedType, FreedKeeps
  <2> HIDE DEF k
  <2> QED
    BY <1>1, <2>1 DEF KV
<1>9. \A r \in Req : status'[r] # "running"
  BY <1>1
<1> HIDE DEF G
<1>10. Covered(kv', status', computed', G)
  BY <1>2, <1>4, <1>8, <1>9, SettledCovered
<1>11. Covered(kv', status', computed', Foreseen(building', T[Len(queue')], F[Len(queue')]))
  BY <1>1, <1>3, <1>10 DEF Foreseen, G
<1> QED
  BY <1>7, <1>11 DEF Recalls

LEMMA ExecuteRecalls ==
  ASSUME TrackInv, NEW T, Traces(T), NEW F, Recalls(T, F), NEW S, NEW G,
         S = [i \in ran + 1..Len(queue) |-> T[i]],
         G = [i \in ran + 1..Len(queue) |-> F[i]],
         Execute
  PROVE  Recalls(S, G)'
<1>1. /\ ran < Len(queue) /\ ran' = ran + 1 /\ building = None
      /\ UNCHANGED <<kv, status, computed, building, queue>>
  BY DEF Execute, WorkerRuns
<1>2. TypeOK /\ Len(queue) \in Nat /\ ran \in 0..Len(queue)
  BY ExtentTypes, QueuedAre DEF TrackInv
<1>3. /\ ran + 1 \in ran + 1..Len(queue) /\ ran + 1 - 1 = ran
      /\ Len(queue) \in ran + 1..Len(queue)
  BY <1>1, <1>2
<1>4. Remembers(T, F) /\ Covered(kv, status, computed, F[Len(queue)])
  BY <1>1 DEF Recalls, Foreseen
<1>5. \A i \in ran + 1..Len(queue) : S[i] = T[i] /\ G[i] = F[i]
  OBVIOUS
<1>6. \A f \in G[ran + 1] : Holds(f)'
  <2>1. PICK o : o = queue[ran + 1]
    OBVIOUS
  <2>2. PICK v : v = After(Snapshot, o)
    OBVIOUS
  <2>3. o \in Output /\ v \in Snapshots /\ Fine(o, v) /\ RanThrough(o, v)
    <3>1. /\ queue[ran + 1] \in Output /\ Snapshot \in Snapshots
          /\ Fine(queue[ran + 1], After(Snapshot, queue[ran + 1]))
          /\ After(Snapshot, queue[ran + 1]) \in Snapshots
      BY FirstQueued
    <3>2. RanThrough(queue[ran + 1], After(Snapshot, queue[ran + 1]))
      BY <3>1, ExecuteIs
    <3> QED
      BY <2>1, <2>2, <3>1, <3>2
  <2>4. T[ran + 1] = v
    <3>1. Follows(T)
      BY DEF Traces
    <3>2. T[ran + 1] = After(Snapshot, queue[ran + 1])
      BY <1>2, <1>3, <3>1 DEF Follows
    <3> QED
      BY <2>1, <2>2, <3>2
  <2>5. G[ran + 1] = Learnt(F[ran], o, v) /\ \A f \in F[ran] : Holds(f)
    BY <1>2, <1>3, <1>4, <1>5, <2>1, <2>4 DEF Remembers
  <2> QED
    BY <2>3, <2>5, LearntHolds
<1>7. ASSUME NEW i \in ran + 1 + 1..Len(queue)
      PROVE  G[i] = Learnt(G[i - 1], queue[i], S[i])
  <2>1. i \in ran + 1..Len(queue) /\ i - 1 \in ran + 1..Len(queue)
    BY <1>2
  <2>2. F[i] = Learnt(F[i - 1], queue[i], T[i])
    BY <1>4, <2>1 DEF Remembers
  <2> QED
    BY <1>5, <2>1, <2>2
<1>8. Remembers(S, G)'
  BY <1>1, <1>6, <1>7 DEF Remembers
<1>9. Covered(kv', status', computed', Foreseen(building', S[Len(queue')], G[Len(queue')]))
  BY <1>1, <1>3, <1>4, <1>5 DEF Foreseen
<1> QED
  BY <1>8, <1>9 DEF Recalls

(* The position p of a table that is long enough.                           *)
LEMMA AddressOf ==
  ASSUME NEW t \in BlockList, NEW p \in 0..Len(t) * BlockSize - 1
  PROVE  \E j \in DOMAIN t : \E m \in 0..BlockSize - 1 :
           Address(t, p) = <<t[j], m>> /\ p = (j - 1) * BlockSize + m
           /\ j * BlockSize > p /\ t[j] \in Range(t)
<1>1. t \in Seq(Block) /\ Len(t) \in Nat /\ DOMAIN t = 1..Len(t)
  BY LenProperties DEF BlockList
<1> DEFINE j == p \div BlockSize + 1
           m == p % BlockSize
<1>2. /\ j \in DOMAIN t /\ j * BlockSize > p /\ m \in 0..BlockSize - 1 /\ p \div BlockSize \in Int
      /\ p = (p \div BlockSize) * BlockSize + (p % BlockSize)
  BY <1>1, SlotIndex
<1>3. j - 1 = p \div BlockSize
  BY <1>2
<1>4. Address(t, p) = <<t[j], m>> /\ t[j] \in Range(t)
  BY <1>2 DEF Address, Range
<1>5. p = (j - 1) * BlockSize + m
  BY <1>2, <1>3
<1> HIDE DEF j, m
<1> QED
  BY <1>2, <1>4, <1>5

LEMMA OriginalFits ==
  ASSUME ExtentInv, NEW r \in Req, status[r] = "running", kv.active[r] = None,
         NEW p \in 0..computed[r] - 1
  PROVE  p \in 0..Len(kv.table[r]) * BlockSize - 1
<1>1. computed[r] <= Len(kv.table[r]) * BlockSize
  BY DEF ExtentInv, Extent, Fitted, PhysicalTokens
<1>2. computed[r] \in Nat /\ Len(kv.table[r]) \in Nat
  BY ExtentTypes, InTable
<1>3. Len(kv.table[r]) * BlockSize \in Int
  BY <1>2, ScaledOrder
<1> QED
  BY <1>1, <1>2, <1>3

(* The plans of the batch copy into blocks that are hashed nowhere and in   *)
(* no block table.                                                          *)
LEMMA ClosedCopies ==
  ASSUME ExtentInv', NEW A, NEW dest, NEW o, Closes(A, dest, o), NEW b \in Copied(o)
  PROVE  /\ b \in Block => kv'.hash[b] = Unhashed
         /\ \A q \in Req : b \notin Range(kv'.table[q])
<1>1. o.plans = [r \in Req |-> IF r \in A THEN kv'.pending[r].plan ELSE None]
      /\ \A r \in A : kv'.pending[r] # None
  BY DEF Closes
<1>2. PICK r \in Req : o.plans[r] # None /\ b \in Range(o.plans[r].dest)
  BY DEF Copied, PlansOf
<1>3. r \in A /\ kv'.pending[r] # None /\ b \in Range(kv'.pending[r].plan.dest)
  BY <1>1, <1>2
<1>4. <<r, Reserved>> \in Secret(kv') /\ b \in BlocksAt(kv', <<r, Reserved>>)
  BY <1>3, PlaceTypes, WhatIsAt DEF Secret
<1>5. Exclusive(kv')
  BY DEF ExtentInv, AccountingInv, Accounted
<1>6. kv'.hash[b] = Unhashed
  BY <1>4, <1>5 DEF Exclusive
<1>7. ASSUME NEW q \in Req, b \in Range(kv'.table[q])
      PROVE  FALSE
  <2>1. <<q, Table>> \in Places(Req) /\ b \in BlocksAt(kv', <<q, Table>>)
    BY <1>7, PlaceTypes, WhatIsAt
  <2>2. <<q, Table>> = <<r, Reserved>>
    BY <1>4, <1>5, <2>1 DEF Exclusive
  <2> QED
    BY <2>2 DEF Table, Reserved
<1> QED
  BY <1>6, <1>7

LEMMA ClosedCovered ==
  ASSUME ExtentInv, ExtentInv', NEW A, NEW dest, NEW o, Closes(A, dest, o),
         status' = status, computed' = computed,
         NEW G, Covered(kv, status, computed, G),
         NEW H, H = {f \in G : f[1][1] \notin Copied(o)}
  PROVE  Covered(kv', status', computed', H)
<1>1. /\ kv'.table = kv.table
      /\ \A b \in Block : kv'.hash[b] \in {kv.hash[b], Unhashed}
      /\ \A r \in Req : status[r] = "running" => kv'.active[r] = kv.active[r]
  BY DEF Closes
<1>2. ASSUME NEW b \in Block, kv'.hash[b] # Unhashed, NEW q \in 0..BlockSize - 1
      PROVE  <<<<b, q>>, StandsFor(kv'.hash[b], q)>> \in H
  <2>1. kv'.hash[b] = kv.hash[b] /\ b \notin Copied(o)
    BY <1>1, <1>2, ClosedCopies
  <2>2. <<<<b, q>>, StandsFor(kv.hash[b], q)>> \in G
    BY <1>2, <2>1 DEF Covered, HashesKnown
  <2> QED
    BY <2>1, <2>2
<1>3. ASSUME NEW r \in Req, status'[r] = "running", kv'.active[r] = None,
             NEW p \in 0..computed'[r] - 1
      PROVE  <<Address(kv'.table[r], p), Written(r, p, None)>> \in H
  <2>1. status[r] = "running" /\ kv.active[r] = None /\ p \in 0..computed[r] - 1
    BY <1>1, <1>3
  <2>2. <<Address(kv.table[r], p), Written(r, p, None)>> \in G
    BY <2>1 DEF Covered, OriginalKnown
  <2>3. Address(kv.table[r], p)[1] \in Range(kv.table[r])
    <3>1. kv.table[r] \in BlockList
      BY ExtentTypes, KVFields
    <3> QED
      BY <2>1, <3>1, OriginalFits, AddressOf
  <2>4. Address(kv.table[r], p)[1] \notin Copied(o)
    BY <1>1, <2>3, ClosedCopies
  <2> QED
    BY <1>1, <2>2, <2>4
<1> QED
  BY <1>2, <1>3 DEF Covered, HashesKnown, OriginalKnown

LEMMA EndScheduleRecalls ==
  ASSUME TrackInv, NEW T, Traces(T), NEW F, Recalls(T, F), ExtentInv', EndSchedule,
         UNCHANGED wvars, NEW A, NEW dest, NEW o, Closes(A, dest, o), NEW S, NEW G,
         S = [i \in ran..Len(queue) + 1 |->
                IF i = Len(queue) + 1 THEN After(T[Len(queue)], o) ELSE T[i]],
         G = [i \in ran..Len(queue) + 1 |->
                IF i = Len(queue) + 1 THEN Learnt(F[Len(queue)], o, S[i]) ELSE F[i]]
  PROVE  Recalls(S, G)'
<1> DEFINE w == T[Len(queue)]
           u == After(w, building)
           n == Len(queue) + 1
           H == F[Len(queue)]
<1>1. /\ building # None /\ building' = None /\ ran' = ran /\ mem' = mem
      /\ status' = status /\ computed' = computed
  BY DEF EndSchedule, wvars
<1>2. ExtentInv /\ TypeOK /\ queue \in Seq(Output) /\ Len(queue) \in Nat /\ ran \in 0..Len(queue)
  BY ExtentTypes, QueuedAre DEF TrackInv, TypeOK
<1>3. w \in Snapshots /\ Fine(building, u) /\ Agrees(kv, status, u)
  BY <1>1, <1>2, FollowsTypes DEF Traces, Reaches
<1>4. Remembers(T, F) /\ Covered(kv, status, computed, Learnt(H, building, u))
  BY <1>1 DEF Recalls, Foreseen
<1>5. queue' = Append(queue, o) /\ o.sched = building.sched
  BY DEF Closes
<1>6. Len(queue') = n /\ queue'[n] = o /\ \A i \in 1..Len(queue) : queue'[i] = queue[i]
  BY <1>2, <1>5
<1>7. PICK v : v = After(w, o)
  OBVIOUS
<1>8. ASSUME NEW q \in Req, building.sched[q] # None
      PROVE  v.row[q] = u.row[q] /\ v.active[q] = u.active[q]
  <2>1. status[q] = "running"
    BY <1>1, <1>2, <1>8, ExtentTypes DEF TransactionInv, BatchRuns
  <2> QED
    BY <1>1, <1>2, <1>7, <2>1, AfterIs, ClosedRequest
<1>9. S[n] = v /\ G[n] = Learnt(H, o, v)
      /\ \A i \in ran..Len(queue) : S[i] = T[i] /\ G[i] = F[i]
  <2>1. n \in ran..n /\ \A i \in ran..Len(queue) : i \in ran..n /\ i # n
    BY <1>2
  <2> QED
    BY <1>7, <2>1
<1> HIDE DEF w, u, H
<1>10. G[n] = {f \in Learnt(H, building, u) : f[1][1] \notin Copied(o)}
  <2>1. Wrote(o, v) = Wrote(building, u) /\ Sites(o, v) = Sites(building, u)
    BY <1>5, <1>8, SameWrites
  <2>2. Copied(building) = {}
    BY <1>1, <1>2, NothingCopied DEF ExtentInv, Extent, BatchAgrees
  <2> QED
    BY <1>9, <2>1, <2>2 DEF Learnt
<1>11. Covered(kv', status', computed', G[n])
  <2>1. PICK K : K = Learnt(H, building, u)
    OBVIOUS
  <2>2. PICK L : L = G[n]
    OBVIOUS
  <2>3. L = {f \in K : f[1][1] \notin Copied(o)} /\ Covered(kv, status, computed, K)
    BY <1>4, <1>10, <2>1, <2>2
  <2>4. Covered(kv', status', computed', L)
    BY <1>1, <1>2, <2>3, ClosedCovered
  <2> QED
    BY <2>2, <2>4
<1>12. ASSUME NEW i \in ran + 1..n
       PROVE  G[i] = Learnt(G[i - 1], queue'[i], S[i])
  <2>1. CASE i = n
    <3>1. G[i - 1] = H
      BY <1>2, <1>9, <2>1 DEF H
    <3> QED
      BY <1>6, <1>9, <2>1, <3>1
  <2>2. CASE i # n
    <3>1. i \in ran + 1..Len(queue) /\ i \in 1..Len(queue) /\ i \in ran..Len(queue)
          /\ i - 1 \in ran..Len(queue)
      BY <1>2, <2>2
    <3>2. F[i] = Learnt(F[i - 1], queue[i], T[i])
      BY <1>4, <3>1 DEF Remembers
    <3> QED
      BY <1>6, <1>9, <3>1, <3>2
  <2> QED
    BY <2>1, <2>2
<1>13. \A f \in G[ran] : Holds(f)'
  <2>1. G[ran] = F[ran]
    BY <1>2, <1>9
  <2> QED
    BY <1>1, <1>4, <2>1 DEF Remembers, Holds
<1>14. Remembers(S, G)'
  BY <1>1, <1>6, <1>12, <1>13 DEF Remembers
<1>15. Covered(kv', status', computed', Foreseen(building', S[Len(queue')], G[Len(queue')]))
  BY <1>1, <1>6, <1>11 DEF Foreseen
<1> QED
  BY <1>14, <1>15 DEF Recalls

----------------------------------------------------------------------------
(* What a request that enters the batch adds and leaves.                    *)

(* The inverse of AddressOf.                                                *)
LEMMA FilledAddress ==
  ASSUME NEW t, NEW i \in Int, NEW m \in 0..BlockSize - 1
  PROVE  Address(t, (i - 1) * BlockSize + m) = <<t[i], m>>
<1> DEFINE a == (i - 1) * BlockSize
           p == a + m
           k == p \div BlockSize
           s == p % BlockSize
<1>1. BlockSize \in Nat \ {0} /\ i - 1 \in Int
  BY ConfigAssumption
<1>2. a \in Int
  BY <1>1, ScaledOrder
<1> HIDE DEF a
<1>3. p \in Int
  BY <1>1, <1>2
<1>4. p = BlockSize * k + s /\ s \in 0..BlockSize - 1 /\ k \in Int
  BY <1>1, <1>3, DivisionOf
<1>5. p = a + m
  OBVIOUS
<1> HIDE DEF p, k, s
<1>6. p = k * BlockSize + s /\ k * BlockSize \in Int
  <2>1. BlockSize * k = k * BlockSize
    BY <1>1, <1>4
  <2> QED
    BY <1>4, <2>1, ScaledOrder
<1>7. k = i - 1
  <2>1. CASE k < i - 1
    <3>1. k * BlockSize + BlockSize <= a
      BY <1>1, <1>4, <2>1, ScaledOrder DEF a
    <3> QED
      BY ONLY <1>1, <1>2, <1>4, <1>5, <1>6, <3>1, m \in 0..BlockSize - 1
  <2>2. CASE i - 1 < k
    <3>1. a + BlockSize <= k * BlockSize
      BY <1>1, <1>4, <2>2, ScaledOrder DEF a
    <3> QED
      BY ONLY <1>1, <1>2, <1>4, <1>5, <1>6, <3>1, m \in 0..BlockSize - 1
  <2> QED
    BY <1>1, <1>4, <2>1, <2>2
<1>8. s = m
  <2>1. k * BlockSize = a
    BY <1>7 DEF a
  <2> QED
    BY ONLY <1>1, <1>2, <1>4, <1>5, <1>6, <2>1, m \in 0..BlockSize - 1
<1>9. k + 1 = i
  BY <1>1, <1>7
<1>10. Address(t, p) = <<t[k + 1], s>>
  BY DEF Address, k, s
<1> QED
  BY <1>8, <1>9, <1>10 DEF p, a

(* The content that a hash stands for.                                      *)
LEMMA KeyStands ==
  ASSUME NEW r \in Req, NEW i \in Nat \ {0}, NEW m \in 0..BlockSize - 1
  PROVE  /\ StandsFor(Key(r, i), m) = Written(r, (i - 1) * BlockSize + m, None)
         /\ Key(r, i) # Unhashed
<1> DEFINE p == (i - 1) * BlockSize + m
           b == i * BlockSize
<1>1. BlockSize \in Nat \ {0} /\ Shared \in Nat /\ i - 1 \in Int /\ i \in Int /\ i # 0
  BY ConfigAssumption
<1>2. p < b /\ p \in Int /\ b \in Int
  <2>1. i - 1 < i
    BY <1>1
  <2>2. (i - 1) * BlockSize + BlockSize <= b /\ (i - 1) * BlockSize \in Int /\ b \in Int
    BY <1>1, <2>1, ScaledOrder
  <2> QED
    BY <1>1, <2>2
<1>3. Key(r, i) = IF b <= Shared THEN <<None, i>> ELSE <<r, i>>
  BY DEF Key
<1>4. Key(r, i)[2] = i /\ Key(r, i) # Unhashed
  BY <1>1, <1>3 DEF Unhashed
<1>5. (IF p < Shared THEN None ELSE Key(r, i)[1]) = IF p < Shared THEN None ELSE r
  <2>1. CASE b <= Shared
    BY <1>1, <1>2, <2>1
  <2>2. CASE ~(b <= Shared)
    BY <1>3, <2>2
  <2> QED
    BY <2>1, <2>2
<1>6. StandsFor(Key(r, i), m) =
        [owner |-> IF p < Shared THEN None ELSE Key(r, i)[1], pos |-> p, exact |-> TRUE]
  BY <1>4 DEF StandsFor
<1>7. Written(r, p, None) = [owner |-> IF p < Shared THEN None ELSE r, pos |-> p, exact |-> TRUE]
  BY DEF Written
<1> HIDE DEF p, b
<1>8. StandsFor(Key(r, i), m) = Written(r, p, None)
  BY <1>5, <1>6, <1>7
<1> QED
  BY <1>4, <1>8 DEF p

LEMMA EnteredEntry ==
  ASSUME ExtentInv, NEW r \in Req, NEW hits, NEW new, NEW start, NEW n, NEW kind, NEW c,
         Enters(r, hits, new, start, n, kind, c)
  PROVE  /\ building'.sched[r] # None /\ building'.sched[r].start = start
         /\ End(building', r) = start + n /\ computed'[r] = start + n
         /\ building.sched[r] = None /\ kv'.active = kv.active
<1>1. Entered(r, hits, new, start, n, kind) /\ computed \in [Req -> Nat]
  BY EnteredIs, ExtentTypes
<1>2. building.sched \in [Req -> Item \cup {None}]
  BY <1>1 DEF Entered, Output
<1>3. building'.sched[r] = [start |-> start, n |-> n, kind |-> kind, blocks |-> hits \o new]
  BY <1>1, <1>2 DEF Entered
<1>4. /\ hits \o new \in BlockList /\ kind \in {"new", "resumed", "cached"}
      /\ start \in Int /\ n \in Int
  BY ConcatProperties DEF Enters, BlockList
<1>5. building'.sched[r] \in Item
  BY <1>3, <1>4 DEF Item
<1>6. building'.sched[r].start = start /\ building'.sched[r].n = n
  BY <1>3
<1> QED
  BY <1>1, <1>5, <1>6, NoneAssumption DEF Entered, Enters, End

(* Where the tokens it writes go.                                           *)
LEMMA EnteredSites ==
  ASSUME ExtentInv, NEW r \in Req, NEW hits, NEW new, NEW start, NEW n, NEW kind, NEW c,
         Enters(r, hits, new, start, n, kind, c), NEW o \in Output, o = building',
         NEW v \in Snapshots, \A q \in Req : EntryFits(o, v, q),
         v.row[r] = kv'.table[r], v.active[r] = kv'.active[r],
         NEW x \in Writes(o), x[1] = r
  PROVE  /\ x[2] \in Int /\ x[2] >= start
         /\ Slot(v.active[r], x[2]) >= PhysicalTokens(kv, r, start)
         /\ \E i \in DOMAIN kv'.table[r] : \E m \in 0..BlockSize - 1 :
              /\ Site(v, x) = <<kv'.table[r][i], m>>
              /\ Slot(v.active[r], x[2]) = (i - 1) * BlockSize + m
              /\ i * BlockSize > PhysicalTokens(kv, r, start)
<1> DEFINE s == Slot(v.active[r], x[2])
           t == kv'.table[r]
           l == PhysicalTokens(kv, r, start)
<1>1. /\ start \in Nat /\ building # None
      /\ Continues(r, hits, start, n, kind) \/ Starts(r, hits, start, n, kind)
  BY DEF Enters
<1>2. o.sched[r] # None /\ o.sched[r].start = start /\ kv'.active = kv.active
  BY EnteredEntry
<1>3. x[2] \in Int /\ x[2] >= start
  <2>1. x[2] \in o.sched[r].start..End(o, r) - 1
    BY WrittenBy
  <2> QED
    BY <1>1, <1>2, <2>1
<1>4. t \in BlockList /\ s \in 0..Len(t) * BlockSize - 1
  <2>1. SlotsExist(o, v.row, v.active)
    BY FineSlots
  <2> QED
    BY <1>2, <2>1 DEF SlotsExist, EntryFits
<1>5. Slot(v.active[r], start) = l
  <2>1. v.active[r] = kv.active[r] /\ kv \in KV /\ start \in Int
    BY <1>1, <1>2, ExtentTypes
  <2>2. kv.active[r] # None => kv.active[r].physical = Budget /\ kv.active[r].semantic <= start
    BY <1>1 DEF Continues, Starts, Idle, ExtentInv, Extent, Fitted
  <2> QED
    BY <2>1, <2>2, PhysicalIs, ConfigAssumption DEF Slot
<1>6. s >= l /\ s \in Int /\ l \in Int
  <2>1. v.active[r] \in Active \cup {None} /\ start \in Int
    BY <1>1, SnapshotFields
  <2>2. s - Slot(v.active[r], start) = x[2] - start /\ s \in Int
        /\ Slot(v.active[r], start) \in Int
    BY <1>3, <2>1, SlotShift
  <2> QED
    BY <1>1, <1>3, <1>5, <2>2
<1>7. Site(v, x) = Address(t, s)
  BY DEF Site
<1> HIDE DEF s, t, l
<1>8. PICK i \in DOMAIN t : \E m \in 0..BlockSize - 1 :
        Address(t, s) = <<t[i], m>> /\ s = (i - 1) * BlockSize + m
        /\ i * BlockSize > s /\ t[i] \in Range(t)
  BY <1>4, AddressOf
<1>9. i * BlockSize > l
  <2>1. i \in Int
    BY <1>4, LenProperties DEF BlockList
  <2>2. i * BlockSize \in Int
    BY <2>1, ScaledOrder
  <2> QED
    BY <1>6, <1>8, <2>2
<1> QED
  BY <1>3, <1>6, <1>7, <1>8, <1>9 DEF s, t, l

(* Its tokens are known from now on, and of what was known all that is not  *)
(* in its free slots: what other tables refer to, what it had computed, and *)
(* what hashes stand for.                                                   *)
Gains(G, H, r, hits, new, start, n) ==
  /\ kv.active[r] = None => \A p \in start..start + n - 1 :
       <<Address(kv'.table[r], p), Written(r, p, None)>> \in H
  /\ kv.active[r] = None => \A j \in DOMAIN kv'.table[r] : \A m \in 0..BlockSize - 1 :
       (j - 1) * BlockSize + m < start =>
         \A f \in G : f[1] = <<kv'.table[r][j], m>> => f \in H
  /\ \A q \in Req \ {r} : \A f \in G : f[1][1] \in Range(kv'.table[q]) => f \in H
  /\ \A b \in Block : Allocated(kv, r, hits, new).hash[b] # Unhashed =>
       \A f \in G : f[1][1] = b => f \in H

LEMMA EnteredGains ==
  ASSUME ExtentInv, ExtentInv', NEW r \in Req, NEW hits, NEW new, NEW start, NEW n, NEW kind,
         NEW c, Enters(r, hits, new, start, n, kind, c), NEW o \in Output, o = building',
         NEW v \in Snapshots, \A q \in Req : EntryFits(o, v, q),
         v.row[r] = kv'.table[r], v.active[r] = kv'.active[r],
         NEW u, \A q \in Req \ {r} : v.row[q] = u.row[q] /\ v.active[q] = u.active[q],
         NEW F
  PROVE  Gains(Learnt(F, building, u), Learnt(F, o, v), r, hits, new, start, n)
<1> DEFINE G == Learnt(F, building, u)
           H == Learnt(F, o, v)
           Own(x) == x \in Writes(o) /\ x[1] = r
<1>1. /\ o.sched[r] # None /\ o.sched[r].start = start /\ End(o, r) = start + n
      /\ building.sched[r] = None /\ kv'.active = kv.active
  BY EnteredEntry
<1>2. start \in Nat /\ n \in Nat /\ building # None /\ o # None
  BY NoneAssumption DEF Enters
<1>3. Copied(o) = {} /\ Copied(building) = {}
  <2>1. \A q \in Req : o.plans[q] = None /\ building.plans[q] = None
    BY <1>2 DEF ExtentInv, Extent, BatchAgrees
  <2> QED
    BY <2>1, NothingCopied
<1>4. ASSUME NEW x, x[1] # r
      PROVE  x \in Writes(o) <=> x \in Writes(building)
  <2>1. x[1] \in Req => o.sched[x[1]] = building.sched[x[1]]
          /\ (o.sched[x[1]] # None => End(o, x[1]) = End(building, x[1]))
    BY <1>4, EnteredOther
  <2> QED
    BY <2>1, WrittenBy
<1>5. ASSUME NEW x \in Writes(building)
      PROVE  x[1] # r /\ x \in Writes(o) /\ Site(v, x) = Site(u, x)
             /\ v.active[x[1]] = u.active[x[1]]
  <2>1. x[1] \in Req /\ x[1] # r
    BY <1>1, WrittenBy
  <2> QED
    BY <1>4, <2>1 DEF Site
<1>6. ASSUME NEW f \in G, \A x : Own(x) => f[1] # Site(v, x)
      PROVE  f \in H
  <2>1. CASE f \in Wrote(building, u)
    <3>1. f \in Wrote(o, v)
      BY <1>5, <2>1 DEF Wrote
    <3> QED
      BY <1>3, <3>1 DEF Learnt
  <2>2. CASE f \in F /\ f[1] \notin Sites(building, u)
    <3>1. ASSUME NEW x \in Writes(o), f[1] = Site(v, x)
          PROVE  FALSE
      <4>1. x[1] # r
        BY <1>6, <3>1
      <4>2. x \in Writes(building)
        BY <1>4, <4>1
      <4> QED
        BY <1>5, <2>2, <3>1, <4>2 DEF Sites
    <3>2. f[1] \notin Sites(o, v)
      BY <3>1 DEF Sites
    <3> QED
      BY <1>3, <2>2, <3>2 DEF Learnt
  <2> QED
    BY <2>1, <2>2 DEF Learnt
<1>7. ASSUME NEW x, Own(x)
      PROVE  <<Site(v, x), Written(r, x[2], v.active[r])>> \in H
  <2>1. <<Site(v, x), Written(x[1], x[2], v.active[x[1]])>> \in Wrote(o, v)
    BY <1>7 DEF Wrote
  <2> QED
    BY <1>3, <1>7, <2>1 DEF Learnt
<1> HIDE DEF G, H
<1>8. ASSUME NEW x, Own(x)
      PROVE  /\ x[2] \in Int /\ x[2] >= start
             /\ \E i \in DOMAIN kv'.table[r] : \E m \in 0..BlockSize - 1 :
                  /\ Site(v, x) = <<kv'.table[r][i], m>>
                  /\ Slot(v.active[r], x[2]) = (i - 1) * BlockSize + m
                  /\ i * BlockSize > PhysicalTokens(kv, r, start)
  BY <1>8, EnteredSites
<1>9. \A i \in DOMAIN kv'.table[r] : i * BlockSize > PhysicalTokens(kv, r, start) =>
        /\ Allocated(kv, r, hits, new).hash[kv'.table[r][i]] = Unhashed
        /\ \A q \in Req : \A j \in DOMAIN kv'.table[q] :
             kv'.table[q][j] = kv'.table[r][i] => q = r /\ j = i
  BY EnteredUnfilled
<1>10. ASSUME kv.active[r] = None, NEW p \in start..start + n - 1
       PROVE  <<Address(kv'.table[r], p), Written(r, p, None)>> \in H
  <2> DEFINE x == <<r, p>>
  <2>0. x[1] = r /\ x[2] = p /\ x = <<x[1], x[2]>>
    OBVIOUS
  <2> HIDE DEF x
  <2>1. Own(x)
    <3>1. o.sched[x[1]].start = start /\ End(o, x[1]) = start + n /\ o.sched[x[1]] # None
      BY <1>1, <2>0
    <3>2. x \in Writes(o)
      <4>1. x[1] \in Req /\ x[2] \in start..start + n - 1
        BY <2>0
      <4>2. x[2] \in o.sched[x[1]].start..End(o, x[1]) - 1
        BY <1>2, <3>1, <4>1
      <4> QED
        BY <2>0, <3>1, <4>1, <4>2, WrittenBy
    <3> QED
      BY <2>0, <3>2
  <2>2. v.active[r] = None /\ Site(v, x) = Address(kv'.table[r], p)
    BY <1>1, <1>10, <2>0 DEF Site, Slot
  <2> QED
    BY <1>7, <2>0, <2>1, <2>2
<1>11. ASSUME kv.active[r] = None, NEW j \in DOMAIN kv'.table[r], NEW m \in 0..BlockSize - 1,
              (j - 1) * BlockSize + m < start, NEW f \in G, f[1] = <<kv'.table[r][j], m>>
       PROVE  f \in H
  <2>1. ASSUME NEW x, Own(x), f[1] = Site(v, x)
        PROVE  FALSE
    <3>1. PICK i \in DOMAIN kv'.table[r], m2 \in 0..BlockSize - 1 :
            /\ Site(v, x) = <<kv'.table[r][i], m2>>
            /\ Slot(v.active[r], x[2]) = (i - 1) * BlockSize + m2
            /\ i * BlockSize > PhysicalTokens(kv, r, start)
      BY <1>8, <2>1
    <3>2. kv'.table[r][j] = kv'.table[r][i] /\ m2 = m
      BY <1>11, <2>1, <3>1
    <3>3. j = i
      BY <1>9, <3>1, <3>2
    <3>4. Slot(v.active[r], x[2]) = x[2]
      BY <1>1, <1>11 DEF Slot
    <3>5. x[2] = (j - 1) * BlockSize + m
      BY <3>1, <3>2, <3>3, <3>4
    <3>6. x[2] \in Int /\ x[2] >= start
      BY <1>8, <2>1
    <3> QED
      BY <1>2, <1>11, <3>5, <3>6
  <2> QED
    BY <1>6, <2>1
<1>12. ASSUME NEW q \in Req \ {r}, NEW f \in G, f[1][1] \in Range(kv'.table[q])
       PROVE  f \in H
  <2>1. ASSUME NEW x, Own(x), f[1] = Site(v, x)
        PROVE  FALSE
    <3>1. PICK i \in DOMAIN kv'.table[r], m \in 0..BlockSize - 1 :
            /\ Site(v, x) = <<kv'.table[r][i], m>>
            /\ i * BlockSize > PhysicalTokens(kv, r, start)
      BY <1>8, <2>1
    <3>2. PICK j \in DOMAIN kv'.table[q] : f[1][1] = kv'.table[q][j]
      BY <1>12 DEF Range
    <3>3. kv'.table[q][j] = kv'.table[r][i]
      BY <2>1, <3>1, <3>2
    <3> QED
      BY <1>9, <3>1, <3>3
  <2> QED
    BY <1>6, <2>1
<1>13. ASSUME NEW b \in Block, Allocated(kv, r, hits, new).hash[b] # Unhashed,
              NEW f \in G, f[1][1] = b
       PROVE  f \in H
  <2>1. ASSUME NEW x, Own(x), f[1] = Site(v, x)
        PROVE  FALSE
    <3>1. PICK i \in DOMAIN kv'.table[r], m \in 0..BlockSize - 1 :
            /\ Site(v, x) = <<kv'.table[r][i], m>>
            /\ i * BlockSize > PhysicalTokens(kv, r, start)
      BY <1>8, <2>1
    <3>2. b = kv'.table[r][i]
      BY <1>13, <2>1, <3>1
    <3> QED
      BY <1>9, <1>13, <3>1, <3>2
  <2> QED
    BY <1>6, <2>1
<1> QED
  BY <1>10, <1>11, <1>12, <1>13, Zenon DEF Gains, G, H

LEMMA HitAt ==
  ASSUME NEW r \in Req, NEW hits \in Hits(r), NEW j \in 1..Len(hits)
  PROVE  hits[j] \in Block /\ kv.hash[hits[j]] = Key(r, j)
<1>1. PICK h \in HitLengths(r) :
        hits \in [1..h -> Block] /\ \A i \in 1..h : hits[i] \in Cached(r, i)
  BY DEF Hits
<1>2. hits \in Seq(Block)
  BY HitsType DEF BlockList
<1>3. DOMAIN hits = 1..Len(hits)
  BY <1>2, LenProperties
<1>4. j \in 1..h
  BY <1>1, <1>3
<1> QED
  BY <1>1, <1>4 DEF Cached

(* The block table behind which the tokens of r are found.                  *)
LEMMA EnteredTable ==
  ASSUME ExtentInv, NEW r \in Req, NEW hits, NEW new, NEW start, NEW n, NEW kind, NEW c,
         Enters(r, hits, new, start, n, kind, c)
  PROVE  /\ \A j \in 1..Len(kv.table[r]) : kv'.table[r][j] = kv.table[r][j]
         /\ kv.table[r] = <<>> => \A j \in 1..Len(hits) : kv'.table[r][j] = hits[j]
         /\ \A q \in Req \ {r} : kv'.table[q] = kv.table[q]
<1> DEFINE t == kv.table[r]
           s == t \o hits \o new
<1>1. kv.table \in [Req -> BlockList] /\ hits \in BlockList /\ new \in BlockList
  BY ExtentTypes DEF Enters, KV
<1>2. kv'.table = [kv.table EXCEPT ![r] = @ \o hits \o new]
  BY EnteredIs DEF Entered
<1>3. kv'.table[r] = s /\ \A q \in Req \ {r} : kv'.table[q] = kv.table[q]
  BY <1>1, <1>2
<1>4. t \in BlockList
  BY <1>1
<1> HIDE DEF t, s
<1>5. \A i \in 1..Len(t) : s[i] = t[i]
  BY <1>1, <1>4, ThreeParts DEF s
<1>6. ASSUME t = <<>>, NEW j \in 1..Len(hits)
      PROVE  s[j] = hits[j]
  <2>1. s = hits \o new
    BY <1>1, <1>6, ConcatEmptySeq DEF s, BlockList
  <2> QED
    BY <1>1, <2>1, ConcatProperties DEF BlockList
<1> QED
  BY <1>3, <1>5, <1>6 DEF t

(* The tokens of the request that enters, as far as it has computed them.   *)
LEMMA EnteredOriginal ==
  ASSUME ExtentInv, ExtentInv', NEW r \in Req, NEW hits, NEW new, NEW start, NEW n, NEW kind,
         NEW c, Enters(r, hits, new, start, n, kind, c), kv.active[r] = None,
         NEW G, Covered(kv, status, computed, G),
         NEW H, Gains(G, H, r, hits, new, start, n), NEW p \in 0..start + n - 1
  PROVE  <<Address(kv'.table[r], p), Written(r, p, None)>> \in H
<1>1. /\ start \in Nat /\ n \in Nat /\ hits \in BlockList
      /\ Continues(r, hits, start, n, kind) \/ Starts(r, hits, start, n, kind)
  BY DEF Enters
<1>2. CASE p >= start
  <2>1. p \in start..start + n - 1
    BY <1>1, <1>2
  <2> QED
    BY <2>1 DEF Gains
<1>3. CASE p < start
  <2> DEFINE j == p \div BlockSize + 1
             m == p % BlockSize
             t == kv'.table[r]
  <2>1. p \in 0..start - 1 /\ p \in Int
    BY <1>1, <1>3
  <2>2. Address(t, p) = <<t[j], m>>
    BY DEF Address
  <2>3. kv \in KV /\ kv.table[r] \in BlockList /\ Len(kv.table[r]) \in Nat /\ Len(hits) \in Nat
        /\ kv' \in KV
    BY <1>1, ExtentTypes, InTable, LenProperties
       DEF BlockList, ExtentInv, AccountingInv, TransactionInv, TypeOK
  <2>4. j \in DOMAIN t
    <3>1. status'[r] = "running" /\ kv'.active[r] = None /\ computed'[r] = start + n
      <4>1. kv'.active = kv.active /\ computed'[r] = start + n
        BY EnteredEntry
      <4>2. status'[r] = "running"
        BY ExtentTypes DEF Enters
      <4> QED
        BY <4>1, <4>2
    <3>2. start + n <= Len(t) * BlockSize
      BY <3>1 DEF ExtentInv, Extent, Fitted, PhysicalTokens
    <3>3. Len(t) \in Nat /\ DOMAIN t = 1..Len(t)
      BY <2>3, InTable
    <3>4. Len(t) * BlockSize \in Int
      BY <3>3, ScaledOrder
    <3> HIDE DEF t
    <3>5. p \in 0..Len(t) * BlockSize - 1
      BY <1>1, <3>2, <3>4
    <3> QED
      BY <3>3, <3>5, SlotIndex
  <2>5. CASE Continues(r, hits, start, n, kind)
    <3>1. status[r] = "running" /\ computed[r] = start
      BY <2>5 DEF Continues
    <3>2. <<Address(kv.table[r], p), Written(r, p, None)>> \in G
      BY <2>1, <3>1 DEF Covered, OriginalKnown
    <3>3. p \in 0..Len(kv.table[r]) * BlockSize - 1
      BY <2>1, <3>1, OriginalFits
    <3>4. j \in 1..Len(kv.table[r]) /\ p \div BlockSize \in Int /\ m \in 0..BlockSize - 1
          /\ p = (p \div BlockSize) * BlockSize + (p % BlockSize)
      BY <2>3, <3>3, SlotIndex
    <3>5. j - 1 = p \div BlockSize
      BY <3>4
    <3>6. (j - 1) * BlockSize + m < start
      BY <1>3, <3>4, <3>5
    <3>7. Address(kv.table[r], p) = <<kv.table[r][j], m>> /\ t[j] = kv.table[r][j]
      BY <3>4, EnteredTable DEF Address
    <3> HIDE DEF j, m, t
    <3>8. <<<<t[j], m>>, Written(r, p, None)>> \in G
      BY <3>2, <3>7
    <3>9. <<<<t[j], m>>, Written(r, p, None)>> \in H
      BY <2>4, <3>4, <3>6, <3>8 DEF Gains, t
    <3> QED
      BY <2>2, <3>9 DEF t
  <2>6. CASE Starts(r, hits, start, n, kind)
    <3>1. kv.table[r] = <<>> /\ start = Len(hits) * BlockSize /\ hits \in Hits(r)
      BY <2>6 DEF Starts, Idle
    <3>2. p \in 0..Len(hits) * BlockSize - 1
      BY <2>1, <3>1
    <3>3. j \in 1..Len(hits) /\ p \div BlockSize \in Int /\ m \in 0..BlockSize - 1
          /\ p = (p \div BlockSize) * BlockSize + (p % BlockSize)
      BY <2>3, <3>2, SlotIndex
    <3>4. j - 1 = p \div BlockSize /\ j \in Nat \ {0}
      BY <3>3
    <3>5. p = (j - 1) * BlockSize + m
      BY <3>3, <3>4
    <3>6. t[j] = hits[j] /\ hits[j] \in Block /\ kv.hash[hits[j]] = Key(r, j)
      BY <3>1, <3>3, EnteredTable, HitAt
    <3> HIDE DEF j, m, t
    <3>7. StandsFor(Key(r, j), m) = Written(r, p, None) /\ Key(r, j) # Unhashed
      BY <3>3, <3>4, <3>5, KeyStands
    <3>8. <<<<t[j], m>>, Written(r, p, None)>> \in G
      BY <3>3, <3>6, <3>7 DEF Covered, HashesKnown
    <3>9. <<<<t[j], m>>, Written(r, p, None)>> \in H
      BY <1>3, <2>4, <3>3, <3>5, <3>8 DEF Gains, t
    <3> QED
      BY <2>2, <3>9 DEF t
  <2> QED
    BY <1>1, <2>5, <2>6
<1> QED
  BY <1>1, <1>2, <1>3

LEMMA EnteredCovered ==
  ASSUME ExtentInv, ExtentInv', NEW r \in Req, NEW hits, NEW new, NEW start, NEW n, NEW kind,
         NEW c, Enters(r, hits, new, start, n, kind, c),
         NEW G, Covered(kv, status, computed, G),
         NEW H, Gains(G, H, r, hits, new, start, n)
  PROVE  Covered(kv', status', computed', H)
<1> DEFINE a == Allocated(kv, r, hits, new)
           t == kv'.table[r]
<1>1. /\ start \in Nat /\ n \in Nat /\ hits \in BlockList /\ new \in BlockList
      /\ c \in Int /\ c <= start + n
      /\ kv' = CacheBlocks(a, r, c) /\ status' = [status EXCEPT ![r] = "running"]
  BY DEF Enters
<1>2. /\ kv \in KV /\ computed \in [Req -> Nat]
      /\ status \in [Req -> {"waiting", "running", "preempted", "finished"}]
  BY ExtentTypes
<1>3. /\ Entered(r, hits, new, start, n, kind) /\ computed'[r] = start + n
      /\ kv'.active = kv.active
  BY EnteredIs, EnteredEntry
<1>4. a \in KV /\ a.active = kv.active
      /\ \A b \in Block : a.hash[b] = IF b \in Range(new) THEN Unhashed ELSE kv.hash[b]
  <2>1. a \in KV
    BY <1>1, <1>2, AllocatedType
  <2> QED
    BY <1>2, <2>1 DEF Allocated, KV
<1> HIDE DEF a
<1>5. kv'.table = a.table
      /\ \A b \in Block : kv'.hash[b] =
           IF APC /\ a.active[r] = None /\ \E i \in Filled(a, r, c) : a.table[r][i] = b
           THEN Key(r, CHOOSE i \in Filled(a, r, c) : a.table[r][i] = b) ELSE a.hash[b]
  BY <1>1, <1>4 DEF CacheBlocks, KV
<1>6. ASSUME NEW b \in Block, kv'.hash[b] # Unhashed, NEW m \in 0..BlockSize - 1
      PROVE  <<<<b, m>>, StandsFor(kv'.hash[b], m)>> \in H
  <2>1. CASE APC /\ a.active[r] = None /\ \E i \in Filled(a, r, c) : a.table[r][i] = b
    <3>1. PICK i : i = CHOOSE j \in Filled(a, r, c) : a.table[r][j] = b
      OBVIOUS
    <3>2. i \in Filled(a, r, c) /\ a.table[r][i] = b
      BY <2>1, <3>1
    <3>3. kv'.hash[b] = Key(r, i)
      BY <1>5, <2>1, <3>1
    <3>4. i \in DOMAIN t /\ i * BlockSize <= c /\ t[i] = b
      BY <1>5, <3>2 DEF Filled
    <3>5. i \in Nat \ {0} /\ i \in Int
      <4>1. t \in Seq(Block)
        BY <1>4, <1>5, KVFields DEF BlockList
      <4> QED
        BY <3>4, <4>1, LenProperties
    <3> DEFINE p == (i - 1) * BlockSize + m
    <3>6. p \in 0..start + n - 1
      <4>1. BlockSize \in Nat \ {0} /\ i - 1 \in Int /\ i - 1 < i /\ 0 <= i - 1 /\ 0 \in Int
        BY <3>5, ConfigAssumption
      <4>2. /\ (i - 1) * BlockSize + BlockSize <= i * BlockSize
            /\ (i - 1) * BlockSize \in Int /\ i * BlockSize \in Int
            /\ 0 * BlockSize <= (i - 1) * BlockSize
        BY <3>5, <4>1, ScaledOrder
      <4>3. 0 * BlockSize = 0
        BY <4>1
      <4> QED
        BY <1>1, <3>4, <4>1, <4>2, <4>3
    <3>7. kv.active[r] = None
      BY <1>4, <2>1
    <3>8. Address(t, p) = <<b, m>>
      BY <3>4, <3>5, FilledAddress
    <3>9. StandsFor(Key(r, i), m) = Written(r, p, None)
      BY <3>5, KeyStands
    <3> HIDE DEF p, t
    <3>10. <<Address(t, p), Written(r, p, None)>> \in H
      BY <3>6, <3>7, EnteredOriginal DEF t
    <3> QED
      BY <3>3, <3>8, <3>9, <3>10
  <2>2. CASE ~(APC /\ a.active[r] = None /\ \E i \in Filled(a, r, c) : a.table[r][i] = b)
    <3>1. kv'.hash[b] = a.hash[b] /\ a.hash[b] = kv.hash[b] /\ kv.hash[b] # Unhashed
      BY <1>4, <1>5, <1>6, <2>2
    <3>2. <<<<b, m>>, StandsFor(kv.hash[b], m)>> \in G
      BY <3>1 DEF Covered, HashesKnown
    <3>3. \A f \in G : f[1][1] = b => f \in H
      BY <3>1 DEF Gains, a
    <3> QED
      BY <3>1, <3>2, <3>3
  <2> QED
    BY <2>1, <2>2
<1>7. ASSUME NEW q \in Req, status'[q] = "running", kv'.active[q] = None,
             NEW p \in 0..computed'[q] - 1
      PROVE  <<Address(kv'.table[q], p), Written(q, p, None)>> \in H
  <2>1. CASE q = r
    <3>1. p \in 0..start + n - 1 /\ kv.active[r] = None
      <4>1. computed'[q] = start + n /\ kv.active[r] = None
        BY <1>3, <1>7, <2>1
      <4> QED
        BY <1>1, <4>1
    <3>2. <<Address(kv'.table[r], p), Written(r, p, None)>> \in H
      BY <3>1, EnteredOriginal
    <3> QED
      BY <2>1, <3>2
  <2>2. CASE q # r
    <3>1. status[q] = "running" /\ kv.active[q] = None /\ p \in 0..computed[q] - 1
      BY <1>1, <1>2, <1>3, <1>7, <2>2 DEF Entered
    <3>2. <<Address(kv.table[q], p), Written(q, p, None)>> \in G
      BY <3>1 DEF Covered, OriginalKnown
    <3>3. Address(kv.table[q], p)[1] \in Range(kv.table[q])
      <4>1. kv.table[q] \in BlockList
        BY <1>2, KVFields
      <4> QED
        BY <3>1, <4>1, OriginalFits, AddressOf
    <3>4. kv'.table[q] = kv.table[q]
      BY <2>2, EnteredTable
    <3>5. \A f \in G : f[1][1] \in Range(kv'.table[q]) => f \in H
      BY <2>2 DEF Gains
    <3> QED
      BY <3>2, <3>3, <3>4, <3>5
  <2> QED
    BY <2>1, <2>2
<1> QED
  BY <1>6, <1>7 DEF Covered, HashesKnown, OriginalKnown

LEMMA EnteredRecalls ==
  ASSUME TrackInv, NEW T, Traces(T), NEW F, Recalls(T, F), ExtentInv',
         NEW r \in Req, NEW hits, NEW new, NEW start, NEW n, NEW kind, NEW c,
         Enters(r, hits, new, start, n, kind, c), UNCHANGED wvars
  PROVE  Recalls(T, F)'
<1> DEFINE w == T[Len(queue)]
           u == After(w, building)
           H == F[Len(queue)]
<1>1. building # None /\ UNCHANGED <<queue, ran, mem>>
  BY DEF Enters, wvars
<1>2. ExtentInv /\ TypeOK /\ building' # None /\ building' \in Output
  <2>1. Entered(r, hits, new, start, n, kind)
    BY EnteredIs DEF TrackInv
  <2> QED
    BY <2>1, ExtentTypes
       DEF TrackInv, Entered, ExtentInv, AccountingInv, TransactionInv, TypeOK
<1>3. Covered(kv, status, computed, Learnt(H, building, u))
  BY <1>1 DEF Recalls, Foreseen
<1>4. w \in Snapshots /\ Agrees(kv, status, u)
  BY <1>1, <1>2, FollowsTypes DEF Traces, Reaches
<1>5. PICK o : o = building'
  OBVIOUS
<1>6. PICK v : v = After(w, o)
  OBVIOUS
<1>7. v \in Snapshots /\ \A q \in Req : EntryFits(o, v, q)
  <2>1. Traces(T)'
    BY EnteredTracks
  <2>2. Reaches(kv', status', building', T[Len(queue')])
    BY <2>1 DEF Traces
  <2>3. Reaches(kv', status', o, w)
    BY <1>1, <1>5, <2>2
  <2> HIDE DEF w
  <2> QED
    BY <1>2, <1>5, <1>6, <2>3 DEF Reaches, Fine
<1> HIDE DEF w, H
<1>8. /\ v.row[r] = kv'.table[r] /\ v.active[r] = kv'.active[r]
      /\ \A q \in Req \ {r} : v.row[q] = u.row[q] /\ v.active[q] = u.active[q]
  <2>1. RowNext(w, o, r) = kv'.table[r] /\ ActiveNext(w, o, r) = kv'.active[r]
    BY <1>2, <1>4, <1>5, EnteredRequest DEF Agrees
  <2> QED
    BY <1>2, <1>5, <1>6, <2>1, AfterIs, EnteredOther
<1> HIDE DEF u
<1>9. o \in Output
  BY <1>2, <1>5
<1>10. Gains(Learnt(H, building, u), Learnt(H, o, v), r, hits, new, start, n)
  BY <1>2, <1>5, <1>7, <1>8, <1>9, EnteredGains
<1>11. Covered(kv', status', computed', Learnt(H, o, v))
  BY <1>2, <1>3, <1>10, EnteredCovered
<1>12. Foreseen(building', w, H) = Learnt(H, o, v)
  BY <1>2, <1>5, <1>6 DEF Foreseen
<1>13. Covered(kv', status', computed', Foreseen(building', T[Len(queue')], F[Len(queue')]))
  BY <1>1, <1>11, <1>12 DEF w, H
<1>14. Remembers(T, F)'
  BY <1>1, SameRemembers DEF Recalls
<1> QED
  BY <1>13, <1>14 DEF Recalls

LEMMA SameRecalls ==
  ASSUME NEW T, NEW F, Recalls(T, F),
         UNCHANGED <<kv, status, computed, building, queue, ran, mem>>
  PROVE  Recalls(T, F)'
<1>1. Remembers(T, F)'
  BY SameRemembers DEF Recalls
<1>2. Covered(kv, status, computed, Foreseen(building, T[Len(queue)], F[Len(queue)]))'
  BY DEF Recalls
<1> QED
  BY <1>1, <1>2 DEF Recalls

LEMMA NextRecalls == RecallInv /\ [SystemNext]_allvars => RecallInv'
<1> SUFFICES ASSUME RecallInv, [SystemNext]_allvars
             PROVE  RecallInv'
  OBVIOUS
<1>1. TrackInv
  BY DEF RecallInv
<1>2. PICK T, F : Traces(T) /\ Recalls(T, F)
  BY DEF RecallInv
<1>3. TrackInv' /\ ExtentInv'
  BY <1>1, NextTracks DEF TrackInv
<1> SUFFICES \E S, G : Traces(S)' /\ Recalls(S, G)'
  BY <1>3 DEF RecallInv
<1>4. CASE Execute
  <2>1. PICK S : S = [i \in ran + 1..Len(queue) |-> T[i]]
    OBVIOUS
  <2>2. PICK G : G = [i \in ran + 1..Len(queue) |-> F[i]]
    OBVIOUS
  <2>3. Traces(S)'
    BY <1>1, <1>2, <1>4, <2>1, ExecuteTracks
  <2>4. Recalls(S, G)'
    BY <1>1, <1>2, <1>4, <2>1, <2>2, ExecuteRecalls
  <2> QED
    BY <2>3, <2>4
<1>5. CASE UNCHANGED wvars /\ SchedulerNext
  <2>1. CASE BeginSchedule
    <3>1. Traces(T)'
      BY <1>1, <1>2, <1>3, <1>5, <2>1, BeginScheduleTracks
    <3>2. Recalls(T, F)'
      BY <1>1, <1>2, <1>5, <2>1, BeginScheduleRecalls
    <3> QED
      BY <3>1, <3>2
  <2>2. ASSUME NEW r \in Req, NEW hits, NEW new, NEW start, NEW n, NEW kind, NEW c,
               Enters(r, hits, new, start, n, kind, c)
        PROVE  Traces(T)' /\ Recalls(T, F)'
    <3>1. Traces(T)'
      BY <1>1, <1>2, <1>3, <1>5, <2>2, EnteredTracks
    <3>2. Recalls(T, F)'
      BY <1>1, <1>2, <1>3, <1>5, <2>2, EnteredRecalls
    <3> QED
      BY <3>1, <3>2
  <2>3. ASSUME NEW r \in Req, Admit(r)
        PROVE  \E S, G : Traces(S)' /\ Recalls(S, G)'
    <3>1. PICK hits, new, n, kind, c : Enters(r, hits, new, Len(hits) * BlockSize, n, kind, c)
      BY <1>1, <2>3, AdmitEnters DEF TrackInv
    <3> QED
      BY <2>2, <3>1
  <2>4. ASSUME NEW r \in Req, ScheduleRunning(r)
        PROVE  \E S, G : Traces(S)' /\ Recalls(S, G)'
    <3>1. PICK new, n, c : Enters(r, <<>>, new, computed[r], n, "cached", c)
      BY <1>1, <2>4, ScheduleRunningEnters DEF TrackInv
    <3> QED
      BY <2>2, <3>1
  <2>5. ASSUME NEW r \in Req, Preempt(r)
        PROVE  \E S, G : Traces(S)' /\ Recalls(S, G)'
    <3>1. Traces(T)'
      BY <1>1, <1>2, <1>3, <1>5, <2>5, PreemptTracks
    <3>2. Recalls(T, F)'
      BY <1>1, <1>2, <1>5, <2>5, PreemptRecalls
    <3> QED
      BY <3>1, <3>2
  <2>6. CASE EndSchedule
    <3>1. PICK A, dest, o : Closes(A, dest, o)
      BY <1>1, <2>6, EndScheduleCloses DEF TrackInv
    <3>2. PICK S : S = [i \in ran..Len(queue) + 1 |->
                          IF i = Len(queue) + 1 THEN After(T[Len(queue)], o) ELSE T[i]]
      OBVIOUS
    <3>3. PICK G : G = [i \in ran..Len(queue) + 1 |->
                          IF i = Len(queue) + 1 THEN Learnt(F[Len(queue)], o, S[i]) ELSE F[i]]
      OBVIOUS
    <3>4. Traces(S)'
      BY <1>1, <1>2, <1>3, <1>5, <2>6, <3>1, <3>2, EndScheduleTracks
    <3>5. Recalls(S, G)'
      BY <1>1, <1>2, <1>3, <1>5, <2>6, <3>1, <3>2, <3>3, EndScheduleRecalls
    <3> QED
      BY <3>4, <3>5
  <2>7. ASSUME NEW R \in SUBSET Req, UpdateFromOutput(R)
        PROVE  \E S, G : Traces(S)' /\ Recalls(S, G)'
    <3>1. PICK S : S = [i \in ran - 1..Len(queue) - 1 |-> T[i + 1]]
      OBVIOUS
    <3>2. PICK G : G = [i \in ran - 1..Len(queue) - 1 |-> F[i + 1]]
      OBVIOUS
    <3>3. Traces(S)'
      BY <1>1, <1>2, <1>5, <2>7, <3>1, UpdateFromOutputTracks
    <3>4. Recalls(S, G)'
      BY <1>1, <1>2, <1>5, <2>7, <3>1, <3>2, UpdateFromOutputRecalls
    <3> QED
      BY <3>3, <3>4
  <2>8. ASSUME NEW r \in Req, Abort(r)
        PROVE  \E S, G : Traces(S)' /\ Recalls(S, G)'
    <3>1. Traces(T)'
      BY <1>1, <1>2, <1>5, <2>8, AbortTracks
    <3>2. Recalls(T, F)'
      BY <1>1, <1>2, <1>5, <2>8, AbortRecalls
    <3> QED
      BY <3>1, <3>2
  <2>9. CASE ResetPrefixCache
    <3>1. Traces(T)'
      BY <1>1, <1>2, <1>5, <2>9, ResetPrefixCacheTracks
    <3>2. Recalls(T, F)'
      BY <1>1, <1>2, <1>5, <2>9, ResetPrefixCacheRecalls
    <3> QED
      BY <3>1, <3>2
  <2>10. CASE Terminated
    <3>1. UNCHANGED <<kv, status, computed, building, queue, ran, mem>>
      BY <1>5, <2>10 DEF Terminated, vars, wvars
    <3>2. Traces(T)'
      BY <1>1, <1>2, <1>5, <3>1, SameTracks
    <3>3. Recalls(T, F)'
      BY <1>2, <3>1, SameRecalls
    <3> QED
      BY <3>2, <3>3
  <2> QED
    BY <1>5, <2>1, <2>3, <2>4, <2>5, <2>6, <2>7, <2>8, <2>9, <2>10 DEF SchedulerNext, EngineNext
<1>6. CASE UNCHANGED allvars
  <2>1. UNCHANGED <<kv, status, computed, building, queue, ran, mem>> /\ UNCHANGED wvars
    BY <1>6 DEF allvars, vars, wvars
  <2>2. Traces(T)'
    BY <1>1, <1>2, <2>1, SameTracks
  <2>3. Recalls(T, F)'
    BY <1>2, <2>1, SameRecalls
  <2> QED
    BY <2>2, <2>3
<1> QED
  BY <1>4, <1>5, <1>6 DEF SystemNext

LEMMA InitRecalls == SystemInit => RecallInv
<1> SUFFICES ASSUME SystemInit
             PROVE  RecallInv
  OBVIOUS
<1>1. TrackInv
  BY InitTracks
<1>2. PICK T : Traces(T)
  BY <1>1 DEF TrackInv, Tracked
<1>3. PICK F : F = [i \in 0..0 |-> {}]
  OBVIOUS
<1>4. /\ status = [r \in Req |-> "waiting"] /\ building = None /\ queue = <<>> /\ ran = 0
      /\ kv.hash = [b \in Block |-> Unhashed]
  BY DEF SystemInit, Init
<1>5. Len(queue) = 0 /\ F[0] = {}
  BY <1>3, <1>4
<1>6. Remembers(T, F)
  <2>1. \A f \in F[ran] : Holds(f)
    BY <1>4, <1>5
  <2>2. \A i \in ran + 1..Len(queue) : FALSE
    BY <1>4, <1>5
  <2> QED
    BY <2>1, <2>2 DEF Remembers
<1>7. Covered(kv, status, computed, F[Len(queue)])
  BY <1>4 DEF Covered, HashesKnown
<1>8. Recalls(T, F)
  BY <1>4, <1>6, <1>7 DEF Recalls, Foreseen
<1> QED
  BY <1>1, <1>2, <1>8 DEF RecallInv

(* Whatever the batches in flight still write, and wherever plans are       *)
(* materialized, the memory will hold the content of every hash and the     *)
(* uncompressed tokens of every request that was never compacted.           *)
THEOREM RecallCorrect == System => []RecallInv
<1>1. SystemInit => RecallInv
  BY InitRecalls
<1>2. RecallInv /\ [SystemNext]_allvars => RecallInv'
  BY NextRecalls
<1> QED
  BY <1>1, <1>2, PTL DEF System

LEMMA RecallMeansExact == RecallInv => HashedBlocksAreExact
<1> SUFFICES ASSUME RecallInv, ran = Len(queue), building = None,
                    NEW b \in Block, kv.hash[b] # Unhashed, NEW q \in 0..BlockSize - 1
             PROVE  LET p == (kv.hash[b][2] - 1) * BlockSize + q IN
                    /\ mem[b][q].exact /\ mem[b][q].pos = p
                    /\ mem[b][q].owner = IF p < Shared THEN None ELSE kv.hash[b][1]
  BY DEF HashedBlocksAreExact
<1>1. PICK T, F : Recalls(T, F)
  BY DEF RecallInv
<1>2. HashesKnown(kv, F[ran]) /\ \A f \in F[ran] : Holds(f)
  BY <1>1 DEF Recalls, Remembers, Covered, Foreseen
<1>3. <<<<b, q>>, StandsFor(kv.hash[b], q)>> \in F[ran]
  BY <1>2 DEF HashesKnown
<1>4. mem[b][q] = StandsFor(kv.hash[b], q)
  BY <1>2, <1>3 DEF Holds
<1> QED
  BY <1>4 DEF StandsFor

(* No compacted or lossy KV and no other request's tokens are ever served   *)
(* to a prefix hit: a block in the prefix cache holds what its hash says.   *)
THEOREM ExactnessCorrect == System => []HashedBlocksAreExact
BY RecallCorrect, RecallMeansExact, PTL
=============================================================================
