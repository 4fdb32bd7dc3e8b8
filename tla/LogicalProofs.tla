--------------------------- MODULE LogicalProofs ---------------------------
(***************************************************************************)
(* Scheduler and worker together implement LogicalCache, for every number  *)
(* of requests, blocks and batches in flight.                              *)
(*                                                                         *)
(* What a request sees of the memory through its row changes with each     *)
(* batch that runs, and most of what makes that change a legal one was     *)
(* decided when the batch was scheduled.  So to the traces of SystemProofs,*)
(* of worker states and of facts, comes one of how many tokens have run;   *)
(* along the three, every batch in flight finds what it continues          *)
(* untouched, and behind it what it begins (Displays).  A batch of which   *)
(* that is true is a step of the logical cache (BatchIsLogical).           *)
(***************************************************************************)
EXTENDS SystemProofs

(* What the requests see of the memory.  s says how many tokens of each     *)
(* request the worker has run in the state w.                               *)
SeenNext(o, s) ==
  [r \in Req |-> IF o.sched[r] # None THEN End(o, r)
                 ELSE IF r \in o.finished \cup o.preempted THEN 0 ELSE s[r]]
Shown(w, s, r) ==
  IF w.pending[r] # None THEN w.pending[r].physical ELSE Physical(w.active, r, s[r])
Lined(w, s, r) ==
  w.pending[r] # None => w.row[r] # None /\ s[r] = w.pending[r].semantic

Glance(m, r, a) == IF m[a[1]][a[2]].owner \in {None, r} THEN m[a[1]][a[2]].pos ELSE -1
Sight(m, r, blocks, n) == [i \in 1..n |-> Glance(m, r, Address(blocks, i - 1))]

(* The batch o continues r, or passes it over, and spares what r sees.      *)
Stays(o, w, r) ==
  /\ w.row[r] # None
  /\ IF o.sched[r] = None THEN r \notin o.finished \cup o.preempted
     ELSE o.sched[r].kind = "cached"
Spared(o, w, v, s, r) ==
  /\ Shown(w, s, r) \in 0..Len(NextRow(w, r)) * BlockSize
  /\ \A p \in 0..Shown(w, s, r) - 1 :
       LET a == Address(NextRow(w, r), p) IN a \notin Sites(o, v) /\ a[1] \notin Copied(o)

(* What the batch o, that leads from w and s to v, must find for the facts F*)
(* behind it to be what r then sees.                                        *)
Resumes(o, w, s, r) ==
  r \notin Reset(o) /\ w.row[r] # None /\ o.sched[r].start = s[r] /\ s[r] > 0
Begins(o, v, F, r) ==
  /\ v.active[r] = None
  /\ \A p \in 0..End(o, r) - 1 : <<Address(v.row[r], p), Written(r, p, None)>> \in F
Clear(o, v, r) == Range(v.row[r]) \cap Copied(o) = {}
Shows(o, w, v, s, F, r) ==
  /\ Stays(o, w, r) => Spared(o, w, v, s, r)
  /\ o.sched[r] # None =>
       /\ o.sched[r].n > 0 /\ Clear(o, v, r)
       /\ IF o.sched[r].kind = "cached" THEN Resumes(o, w, s, r) ELSE Begins(o, v, F, r)
Separate(o) ==
  \A q, r \in PlansOf(o) : \A i \in DOMAIN o.plans[q].dest : \A j \in DOMAIN o.plans[r].dest :
    o.plans[q].dest[i] = o.plans[r].dest[j] => q = r /\ i = j

(* The positions that a plan keeps, as a set: what is left of a list there  *)
(* is what the abstract compaction leaves.                                  *)
KeptOf(sel) == {sel[j] + 1 : j \in 1..Budget}
LeftOf(u, sel) == [j \in 1..Budget |-> u[sel[j] + 1]]

LEMMA SelectionRetains ==
  ASSUME NEW n \in Nat, NEW sel \in Selections(n), NEW u, NEW K, K = KeptOf(sel)
  PROVE  /\ K \in SUBSET (1..n) /\ Cardinality(K) = Budget
         /\ Logical!Retained(u, K) = LeftOf(u, sel)
<1>1. Budget \in Nat /\ sel \in [1..Budget -> 0..n - 1]
      /\ \A i, j \in 1..Budget : i < j => sel[i] < sel[j]
  BY ConfigAssumption DEF Selections, Ascending
<1> USE DEF KeptOf, LeftOf
<1>2. K \in SUBSET (1..n)
  BY <1>1
<1> DEFINE Below(j) == {l \in K : l <= sel[j] + 1}
<1>3. ASSUME NEW i \in 0..Budget, NEW M, M = {sel[j] + 1 : j \in 1..i}
      PROVE  Cardinality(M) = i
  <2> DEFINE f == [j \in 1..i |-> sel[j] + 1]
  <2>1. f \in Bijection(1..i, M)
    <3>1. f \in [1..i -> M]
      BY <1>3
    <3>2. \A k, l \in 1..i : k # l => f[k] # f[l]
      <4> SUFFICES ASSUME NEW k \in 1..i, NEW l \in 1..i, k # l
                   PROVE  sel[k] + 1 # sel[l] + 1
        OBVIOUS
      <4>1. k \in 1..Budget /\ l \in 1..Budget
        BY <1>1
      <4>2. sel[k] \in Int /\ sel[l] \in Int /\ sel[k] # sel[l]
        BY <1>1, <4>1
      <4> QED
        BY <4>2
    <3>3. \A m \in M : \E j \in 1..i : f[j] = m
      BY <1>3
    <3> HIDE DEF f
    <3> QED
      BY <3>1, <3>2, <3>3 DEF Bijection, Injection, Surjection, IsInjective
  <2>2. IsFiniteSet(1..i) /\ Cardinality(1..i) = i
    BY <1>1, FS_Interval
  <2>3. ExistsBijection(1..i, M)
    BY <2>1 DEF ExistsBijection
  <2> QED
    BY <2>2, <2>3, FS_Bijection
<1>4. Cardinality(K) = Budget
  BY <1>1, <1>3
<1>5. ASSUME NEW i \in 1..Budget
      PROVE  Cardinality(Below(i)) = i
  <2>1. Below(i) = {sel[j] + 1 : j \in 1..i}
    <3>1. ASSUME NEW j \in 1..Budget
          PROVE  sel[j] + 1 <= sel[i] + 1 <=> j \in 1..i
      <4>1. sel[j] \in Int /\ sel[i] \in Int
        BY <1>1
      <4>2. j < i => sel[j] < sel[i]
        BY <1>1
      <4>3. i < j => sel[i] < sel[j]
        BY <1>1
      <4> QED
        BY <1>1, <4>1, <4>2, <4>3
    <3>2. \A l \in Below(i) : l \in {sel[j] + 1 : j \in 1..i}
      BY <3>1
    <3>3. ASSUME NEW j \in 1..i
          PROVE  sel[j] + 1 \in Below(i)
      <4>1. j \in 1..Budget
        BY <1>1
      <4> QED
        BY <3>1, <4>1
    <3> HIDE DEF Below
    <3> QED
      BY <3>2, <3>3
  <2>2. i \in 0..Budget
    BY <1>1
  <2> HIDE DEF Below
  <2> QED
    BY <1>3, <2>1, <2>2
<1>6. \A S : Logical!Cardinality(S) = Cardinality(S)
  BY DEF Logical!Cardinality, Cardinality
<1>7. ASSUME NEW i \in 1..Budget
      PROVE  (CHOOSE j \in K : Logical!Cardinality({l \in K : l <= j}) = i) = sel[i] + 1
  <2>1. sel[i] + 1 \in K /\ Logical!Cardinality({l \in K : l <= sel[i] + 1}) = i
    BY <1>5, <1>6
  <2>2. ASSUME NEW j \in K, Logical!Cardinality({l \in K : l <= j}) = i
        PROVE  j = sel[i] + 1
    <3>1. PICK k \in 1..Budget : j = sel[k] + 1
      OBVIOUS
    <3>2. Logical!Cardinality(Below(k)) = k
      BY <1>5, <1>6
    <3> QED
      BY <2>2, <3>1, <3>2
  <2> QED
    BY <2>1, <2>2
<1>8. Logical!Retained(u, K) = [j \in 1..Budget |-> u[sel[j] + 1]]
  <2> DEFINE At(i) == CHOOSE j \in K : Logical!Cardinality({l \in K : l <= j}) = i
  <2>1. \A i \in 1..Budget : At(i) = sel[i] + 1
    BY <1>7
  <2>2. Logical!Retained(u, K) = [i \in 1..Budget |-> u[At(i)]]
    BY DEF Logical!Retained
  <2> HIDE DEF At
  <2> QED
    BY <2>1, <2>2
<1> QED
  BY <1>2, <1>4, <1>8

(* The view of r, from what decides whether the worker can run a batch.     *)
LEMMA ViewIs ==
  ASSUME NEW r \in Req
  PROVE  View(r) = IF row[r] = None THEN <<>>
                   ELSE Sight(mem, r, NextRow(Snapshot, r), Shown(Snapshot, seen, r))
BY DEF View, Sight, Glance, Blocks, Length, NextRow, Shown, Snapshot, Physical

LEMMA ViewNext ==
  ASSUME NEW r \in Req, NEW v, Snapshot' = v, NEW s, seen' = s
  PROVE  View(r)' = IF v.row[r] = None THEN <<>>
                    ELSE Sight(mem', r, NextRow(v, r), Shown(v, s, r))
<1>1. row' = v.row /\ wpending' = v.pending /\ wactive' = v.active
  BY DEF Snapshot
<1> QED
  BY <1>1 DEF View, Sight, Glance, Blocks, Length, NextRow, Shown, Physical

(* The cells that a batch does not touch.                                   *)
LEMMA Untouched ==
  ASSUME NEW o \in Output, NEW v \in Snapshots, Fine(o, v), RanThrough(o, v),
         NEW a \in Cells, a \notin Sites(o, v), a[1] \notin Copied(o)
  PROVE  mem'[a[1]][a[2]] = mem[a[1]][a[2]]
<1>1. PICK t : t = mem[a[1]][a[2]]
  OBVIOUS
<1>2. PICK f : f = <<a, t>>
  OBVIOUS
<1>3. Holds(f) /\ f \in Learnt({f}, o, v)
  BY <1>1, <1>2 DEF Holds, Learnt
<1>4. \A g \in {f} : Holds(g)
  BY <1>3
<1>5. Holds(f)'
  BY <1>3, <1>4, LearntHolds
<1> QED
  BY <1>1, <1>2, <1>5 DEF Holds

(* The cells that it writes.                                                *)
LEMMA Recorded ==
  ASSUME NEW o \in Output, NEW v \in Snapshots, Fine(o, v), RanThrough(o, v),
         NEW x \in Writes(o), NEW a, a = Site(v, x), a[1] \notin Copied(o)
  PROVE  mem'[a[1]][a[2]] = Written(x[1], x[2], v.active[x[1]])
<1>1. PICK f : f = <<a, Written(x[1], x[2], v.active[x[1]])>>
  OBVIOUS
<1>2. f \in Learnt({}, o, v)
  BY <1>1 DEF Learnt, Wrote
<1>3. Holds(f)'
  BY <1>2, LearntHolds
<1> QED
  BY <1>1, <1>3 DEF Holds

(* The cells of a row.                                                      *)
LEMMA RowCell ==
  ASSUME NEW t \in BlockList, NEW p \in 0..Len(t) * BlockSize - 1
  PROVE  Address(t, p) \in Cells /\ Address(t, p)[1] \in Range(t)
<1>1. PICK j \in DOMAIN t, m \in 0..BlockSize - 1 : Address(t, p) = <<t[j], m>> /\ t[j] \in Range(t)
  BY AddressOf
<1>2. t[j] \in Block
  BY ElementOfSeq, LenProperties DEF BlockList
<1> QED
  BY <1>1, <1>2 DEF Cells

(* A copied cell holds what its source holds.                               *)
Place(i, q) == (i - 1) * BlockSize + q + 1

LEMMA CopyIs ==
  ASSUME NEW o \in Output, NEW v \in Snapshots, Fine(o, v), Separate(o),
         NEW m \in Memory, NEW keep, NEW r \in PlansOf(o),
         NEW i \in DOMAIN o.plans[r].dest, o.plans[r].dest \in BlockList,
         NEW q \in 0..BlockSize - 1, NEW a, a = Address(v.row[r], keep[r][Place(i, q)])
  PROVE  Materialized(m, o, v.row, PlansOf(o), keep)[o.plans[r].dest[i]][q] = m[a[1]][a[2]]
<1> DEFINE b == o.plans[r].dest[i]
           R == PlansOf(o)
<1>1. b \in Block /\ b \in Range(o.plans[r].dest)
  BY ElementOfSeq, LenProperties DEF BlockList, Range
<1>2. \A z \in R : b \in Range(o.plans[z].dest) => z = r
  BY DEF Separate, Range
<1>3. \A j \in DOMAIN o.plans[r].dest : o.plans[r].dest[j] = b => j = i
  BY DEF Separate
<1>4. (CHOOSE z \in R : b \in Range(o.plans[z].dest)) = r
  BY <1>1, <1>2
<1>5. (CHOOSE j \in DOMAIN o.plans[r].dest : o.plans[r].dest[j] = b) = i
  BY <1>3
<1> HIDE DEF b, R
<1>6. \E z \in R : b \in Range(o.plans[z].dest)
  BY <1>1 DEF R
<1>7. Materialized(m, o, v.row, R, keep)[b][q] =
        LET z == CHOOSE z \in R : b \in Range(o.plans[z].dest)
            j == CHOOSE j \in DOMAIN o.plans[z].dest : o.plans[z].dest[j] = b
            c == Address(v.row[z], keep[z][(j - 1) * BlockSize + q + 1])
        IN m[c[1]][c[2]]
  BY <1>1, <1>6 DEF Materialized
<1>8. Materialized(m, o, v.row, R, keep)[b][q] = m[a[1]][a[2]]
  BY <1>4, <1>5, <1>7 DEF Place
<1> QED
  BY <1>8 DEF b, R

(* A prefill from position 0 on is seen as its positions.                   *)
LEMMA SeesStart ==
  ASSUME NEW o \in Output, NEW v \in Snapshots, NEW r \in Req, o.sched[r] # None,
         NEW G, \A f \in G : Holds(f)', Begins(o, v, G, r)
  PROVE  Sight(mem', r, v.row[r], End(o, r)) = Logical!Positions(0, End(o, r))
<1> DEFINE e == End(o, r)
<1>1. e \in Int
  BY OutputFields
<1>2. ASSUME NEW i \in 1..e
      PROVE  Glance(mem', r, Address(v.row[r], i - 1)) = i - 1
  <2> DEFINE a == Address(v.row[r], i - 1)
  <2>1. i - 1 \in 0..e - 1
    BY <1>1
  <2>2. PICK f : f = <<a, Written(r, i - 1, None)>>
    OBVIOUS
  <2>3. Holds(f)'
    BY <2>1, <2>2 DEF Begins
  <2>4. mem'[a[1]][a[2]] = Written(r, i - 1, None)
    BY <2>2, <2>3 DEF Holds
  <2> HIDE DEF a
  <2>5. Glance(mem', r, a) = i - 1
    BY <2>4 DEF Glance, Written
  <2> QED
    BY <2>5 DEF a
<1> HIDE DEF e
<1>3. Sight(mem', r, v.row[r], e) = [i \in 1..e |-> i - 1]
  BY <1>2 DEF Sight
<1>4. Logical!Positions(0, e) = [i \in 1..e |-> i - 1]
  <2>1. e - 0 = e /\ \A i \in 1..e : 0 + i - 1 = i - 1
    BY <1>1
  <2> QED
    BY <2>1 DEF Logical!Positions
<1> QED
  BY <1>3, <1>4 DEF e

(* The row and the lengths of a request that goes on.                       *)
Continued(w, s, o, v, r) ==
  /\ v.row[r] = NextRow(w, r) \o o.sched[r].blocks
  /\ Physical(v.active, r, End(o, r)) = Shown(w, s, r) + o.sched[r].n
  /\ \A p \in Int : Slot(v.active[r], p) = Shown(w, s, r) + p - s[r]

LEMMA GoesOn ==
  ASSUME NEW w \in Snapshots, NEW s \in [Req -> Nat], NEW o \in Output, NEW v, v = After(w, o),
         NEW r \in Req, o.sched[r] # None, o.sched[r].kind = "cached",
         Lined(w, s, r), Resumes(o, w, s, r), Shown(w, s, r) \in Int
  PROVE  Continued(w, s, o, v, r)
<1>1. v.row[r] = NextRow(w, r) \o o.sched[r].blocks /\ v.active[r] = NextActive(w, r)
  <2>1. r \notin Reset(o)
    BY DEF Resumes
  <2>2. RowNext(w, o, r) = NextRow(w, r) \o o.sched[r].blocks
    BY <2>1 DEF RowNext
  <2>3. ActiveNext(w, o, r) = NextActive(w, r)
    BY <2>1 DEF ActiveNext
  <2> QED
    BY <2>2, <2>3, AfterIs
<1>2. /\ o.sched[r].n \in Int /\ o.sched[r].start \in Int
      /\ End(o, r) = o.sched[r].start + o.sched[r].n /\ o.sched[r].start = s[r]
  BY OutputFields DEF End, Resumes
<1> DEFINE a == v.active[r]
           l == Shown(w, s, r)
<1>3. /\ a = None => l = s[r]
      /\ a # None => a.semantic \in Int /\ a.physical \in Int
                     /\ l = a.physical + s[r] - a.semantic
  <2>1. CASE w.pending[r] = None
    <3>1. a = w.active[r] /\ l = Physical(w.active, r, s[r])
      BY <1>1, <2>1 DEF NextActive, Shown
    <3>2. a \in Active \cup {None}
      BY <3>1, SnapshotFields
    <3> HIDE DEF a, l
    <3> QED
      BY <3>1, <3>2 DEF Physical, Active
  <2>2. CASE w.pending[r] # None
    <3>1. w.pending[r].semantic \in Nat /\ w.pending[r].physical \in Nat
      BY <2>2, SnapshotFields
    <3>2. a = [semantic |-> w.pending[r].semantic, physical |-> w.pending[r].physical]
      BY <1>1, <2>2 DEF NextActive
    <3>3. l = w.pending[r].physical /\ s[r] = w.pending[r].semantic
      BY <2>2 DEF Shown, Lined
    <3>4. a \in Active
      BY <3>1, <3>2 DEF Active
    <3>5. a # None
      BY <3>4, NoneAssumption
    <3> HIDE DEF a, l
    <3> QED
      BY <3>1, <3>2, <3>3, <3>5
  <2> QED
    BY <2>1, <2>2
<1>4. s[r] \in Int
  OBVIOUS
<1>5. Physical(v.active, r, End(o, r)) = l + o.sched[r].n
  <2>1. Physical(v.active, r, End(o, r)) =
          IF a = None THEN End(o, r) ELSE a.physical + End(o, r) - a.semantic
    BY DEF Physical
  <2> HIDE DEF a, l
  <2> QED
    BY <1>2, <1>3, <1>4, <2>1
<1>6. \A p \in Int : Slot(a, p) = l + p - s[r]
  <2> HIDE DEF a, l
  <2> QED
    BY <1>3, <1>4 DEF Slot
<1> QED
  BY <1>1, <1>5, <1>6 DEF Continued

Grown(u, from, to) == u \o Logical!Positions(from, to)

(* What a request saw it still sees, in the same places, and behind it the  *)
(* tokens that the batch has run.                                           *)
LEMMA SeesMore ==
  ASSUME WorkerTypeOK, NEW o \in Output, NEW v \in Snapshots, Fine(o, v), RanThrough(o, v),
         NEW w \in Snapshots, v = After(w, o), NEW s \in [Req -> Nat],
         NEW r \in Req, o.sched[r] # None, o.sched[r].kind = "cached",
         NEW G, Lined(w, s, r), Shows(o, w, v, s, G, r),
         NEW u, u = Sight(mem, r, NextRow(w, r), Shown(w, s, r))
  PROVE  Sight(mem', r, v.row[r], Physical(v.active, r, End(o, r)))
           = Grown(u, s[r], End(o, r))
<1> DEFINE l == Shown(w, s, r)
           n == o.sched[r].n
           old == NextRow(w, r)
<1> o.sched[r].n > 0 /\ Resumes(o, w, s, r) /\ Spared(o, w, v, s, r) /\ Clear(o, v, r)
  BY DEF Shows, Stays, Resumes
<1>1. l \in Nat /\ n \in Nat /\ End(o, r) = s[r] + n /\ s[r] \in Nat /\ o.sched[r].start = s[r]
  <2>1. old \in BlockList /\ Len(old) \in Nat
    <3>1. old \in BlockList
      BY SnapshotFields DEF NextRow, Resumes
    <3> QED
      BY <3>1, LenProperties DEF BlockList
  <2>2. l \in Nat
    BY <2>1, ConfigAssumption DEF Spared
  <2> QED
    BY <2>2, OutputFields DEF End, Resumes
<1>2. old \in BlockList /\ o.sched[r].blocks \in BlockList
  BY SnapshotFields, OutputFields DEF NextRow, Resumes
<1>3. /\ v.row[r] = old \o o.sched[r].blocks
      /\ Physical(v.active, r, End(o, r)) = l + n
      /\ \A p \in Int : Slot(v.active[r], p) = l + p - s[r]
  <2>1. Shown(w, s, r) \in Int
    BY <1>1
  <2>2. Continued(w, s, o, v, r)
    BY <2>1, GoesOn
  <2> QED
    BY <2>2 DEF Continued
<1>4. l \in 0..Len(old) * BlockSize
  BY DEF Spared
<1>5. ASSUME NEW i \in 1..l
      PROVE  Glance(mem', r, Address(v.row[r], i - 1)) = Glance(mem, r, Address(old, i - 1))
  <2> DEFINE p == i - 1
  <2>1. p \in 0..l - 1 /\ p \in 0..Len(old) * BlockSize - 1
    <3>1. Len(old) \in Nat
      BY <1>2, LenProperties DEF BlockList
    <3> DEFINE m == Len(old) * BlockSize
    <3>2. m \in Nat
      BY <3>1, ConfigAssumption
    <3>3. l <= m
      BY <1>4, <3>2
    <3> HIDE DEF m, l
    <3>4. p \in 0..l - 1 /\ p \in 0..m - 1
      BY <1>1, <3>2, <3>3
    <3> QED
      BY <3>4 DEF m
  <2> HIDE DEF p, l
  <2>2. Address(v.row[r], p) = Address(old, p)
    <3>1. Len(old) \in Nat /\ p \div BlockSize + 1 \in 1..Len(old)
      BY <1>2, <2>1, SlotIndex, LenProperties DEF BlockList
    <3>2. (old \o o.sched[r].blocks)[p \div BlockSize + 1] = old[p \div BlockSize + 1]
      BY <1>2, <3>1 DEF BlockList
    <3> QED
      BY <1>3, <3>2 DEF Address
  <2> DEFINE a == Address(old, p)
  <2>3. a \in Cells /\ a \notin Sites(o, v) /\ a[1] \notin Copied(o)
    BY <1>2, <2>1, RowCell DEF Spared, l
  <2>4. mem'[a[1]][a[2]] = mem[a[1]][a[2]]
    <3> HIDE DEF a
    <3> QED
      BY <2>3, Untouched
  <2>5. Glance(mem', r, a) = Glance(mem, r, a)
    BY <2>4 DEF Glance
  <2> QED
    BY <2>2, <2>5 DEF p
<1>6. ASSUME NEW i \in 1..n
      PROVE  Glance(mem', r, Address(v.row[r], l + i - 1)) = s[r] + i - 1
  <2> DEFINE p == s[r] + i - 1
  <2>1. <<r, p>> \in Writes(o)
    <3>1. p \in o.sched[r].start..End(o, r) - 1
      <4> HIDE DEF n
      <4> QED
        BY <1>1
    <3> QED
      BY <3>1 DEF Writes
  <2>2. Slot(v.active[r], p) = l + i - 1
    <3>1. p \in Int /\ l + p - s[r] = l + i - 1
      BY <1>1
    <3> QED
      BY <1>3, <3>1
  <2> DEFINE a == Address(v.row[r], l + i - 1)
  <2>3. a = Site(v, <<r, p>>)
    BY <2>2 DEF Site
  <2>4. a[1] \notin Copied(o)
    <3>1. l + i - 1 \in 0..Len(v.row[r]) * BlockSize - 1
      BY <2>1, <2>2, FineSlots DEF SlotsExist, Fine
    <3>2. v.row[r] \in BlockList
      BY DEF Fine, EntryFits
    <3> QED
      BY <3>1, <3>2, RowCell DEF Clear
  <2>5. mem'[a[1]][a[2]] = Written(r, p, v.active[r])
    <3> HIDE DEF a, p
    <3> QED
      BY <2>1, <2>3, <2>4, Recorded
  <2>6. Glance(mem', r, a) = p
    BY <2>5 DEF Glance, Written
  <2> QED
    BY <2>6
<1>7. u = [i \in 1..l |-> Glance(mem, r, Address(old, i - 1))]
  BY DEF Sight
<1>8. Logical!Positions(s[r], End(o, r)) = [i \in 1..n |-> s[r] + i - 1]
  <2>1. End(o, r) - s[r] = n
    BY <1>1
  <2> QED
    BY <2>1 DEF Logical!Positions
<1>9. ASSUME NEW i \in 1..l
      PROVE  Glance(mem, r, Address(old, i - 1)) \in Int
  <2> DEFINE a == Address(old, i - 1)
             m == Len(old) * BlockSize
  <2>1. i - 1 \in 0..m - 1
    <3>1. Len(old) \in Nat
      BY <1>2, LenProperties DEF BlockList
    <3>2. m \in Nat
      BY <3>1, ConfigAssumption
    <3>3. l <= m
      BY <1>4, <3>2
    <3> HIDE DEF m, l
    <3> QED
      BY <1>1, <3>2, <3>3
  <2>2. a \in Cells
    BY <1>2, <2>1, RowCell
  <2>3. mem[a[1]][a[2]] \in Token
    <3> HIDE DEF a
    <3> QED
      BY <2>2 DEF WorkerTypeOK, Cells
  <2> HIDE DEF a
  <2>4. Glance(mem, r, a) \in Int
    BY <2>3 DEF Glance, Token
  <2> QED
    BY <2>4 DEF a
<1> DEFINE glance == [i \in 1..l + n |-> Glance(mem', r, Address(v.row[r], i - 1))]
           behind == [i \in 1..n |-> s[r] + i - 1]
<1>10. Sight(mem', r, v.row[r], Physical(v.active, r, End(o, r))) = glance
  BY <1>3 DEF Sight
<1>11. glance = u \o behind
  <2>1. u \in Seq(Int) /\ Len(u) = l
    <3> HIDE DEF l, old
    <3> QED
      BY <1>1, <1>7, <1>9
  <2>2. behind \in Seq(Int) /\ Len(behind) = n /\ \A i \in 1..n : behind[i] = s[r] + i - 1
    <3> HIDE DEF n
    <3> QED
      BY <1>1
  <2>3. \A i \in 1..l : glance[i] = u[i]
    <3> HIDE DEF l, old
    <3> QED
      BY <1>1, <1>5, <1>7
  <2>4. ASSUME NEW i \in l + 1..l + n
        PROVE  glance[i] = behind[i - l]
    <3>1. i - l \in 1..n /\ l + (i - l) - 1 = i - 1
      <4> HIDE DEF l, n
      <4> QED
        BY <1>1
    <3>2. glance[i] = Glance(mem', r, Address(v.row[r], i - 1))
      <4> HIDE DEF l, n
      <4> QED
        BY <1>1
    <3>3. Glance(mem', r, Address(v.row[r], i - 1)) = s[r] + (i - l) - 1
      <4> HIDE DEF l, n
      <4> QED
        BY <1>6, <3>1
    <3> QED
      BY <2>2, <3>1, <3>2, <3>3
  <2>5. DOMAIN glance = 1..l + n /\ glance = [i \in 1..l + n |-> glance[i]]
    OBVIOUS
  <2>6. l + n \in Nat
    <3> HIDE DEF l, n
    <3> QED
      BY <1>1
  <2> HIDE DEF glance, behind, l, n
  <2>7. /\ u \o behind \in Seq(Int) /\ Len(u \o behind) = l + n
        /\ \A i \in 1..l + n : (u \o behind)[i] = IF i <= l THEN u[i] ELSE behind[i - l]
    <3>1. /\ u \o behind \in Seq(Int) /\ Len(u \o behind) = Len(u) + Len(behind)
          /\ \A i \in 1..Len(u) + Len(behind) :
               (u \o behind)[i] = IF i <= Len(u) THEN u[i] ELSE behind[i - Len(u)]
      BY <2>1, <2>2, ConcatProperties
    <3> QED
      BY <2>1, <2>2, <3>1
  <2>8. ASSUME NEW i \in 1..l + n
        PROVE  glance[i] = (u \o behind)[i]
    <3>1. i \in 1..l \/ (i \in l + 1..l + n /\ ~(i <= l))
      BY <1>1
    <3>2. CASE i \in 1..l
      <4>1. i <= l
        BY <1>1, <3>2
      <4> QED
        BY <2>3, <2>7, <3>2, <4>1
    <3>3. CASE i \in l + 1..l + n /\ ~(i <= l)
      BY <2>4, <2>7, <3>3
    <3> QED
      BY <3>1, <3>2, <3>3
  <2>9. u \o behind = [i \in 1..l + n |-> (u \o behind)[i]]
    <3>1. u \o behind \in [1..Len(u \o behind) -> Int]
      BY <2>7, LenProperties
    <3> QED
      BY <2>7, <3>1
  <2> QED
    BY <2>5, <2>8, <2>9
<1> QED
  BY <1>8, <1>10, <1>11 DEF Grown

LEMMA PhysicalLength ==
  ASSUME NEW o \in Output, NEW v \in Snapshots, NEW r \in Req, o.sched[r] # None
  PROVE  Physical(v.active, r, End(o, r)) \in Int
<1>1. End(o, r) \in Int /\ v.active[r] \in Active \cup {None}
  BY OutputFields, SnapshotFields
<1>2. CASE v.active[r] = None
  BY <1>1, <1>2 DEF Physical
<1>3. CASE v.active[r] # None
  <2>1. v.active[r].semantic \in Int /\ v.active[r].physical \in Int
    BY <1>1, <1>3 DEF Active
  <2> QED
    BY <1>1, <1>3, <2>1 DEF Physical
<1> QED
  BY <1>2, <1>3

(* A plan leaves what it kept, in order.                                    *)
LEMMA SeesKept ==
  ASSUME WorkerTypeOK, NEW o \in Output, NEW v \in Snapshots, Fine(o, v), Separate(o),
         NEW keep, NEW m \in Memory, mem' = Materialized(m, o, v.row, PlansOf(o), keep),
         NEW r \in PlansOf(o), Clear(o, v, r),
         keep[r] \in Selections(Physical(v.active, r, End(o, r))),
         NEW u, u = Sight(mem', r, v.row[r], Physical(v.active, r, End(o, r)))
  PROVE  Sight(mem', r, o.plans[r].dest, Budget) = LeftOf(u, keep[r])
<1> DEFINE n == Physical(v.active, r, End(o, r))
           sel == keep[r]
           dest == o.plans[r].dest
<1>1. PlanFits(o, v, r) /\ EntryFits(o, v, r) /\ o.plans[r] # None
  BY DEF Fine, PlansOf
<1>2. dest \in BlockList /\ Len(dest) = Keep /\ Keep * BlockSize = Budget
  BY <1>1, OutputFields, KeepIsBudget DEF PlanFits, Disagrees, PlansOf
<1>3. v.row[r] \in BlockList
  BY <1>1 DEF PlanFits, EntryFits
<1>4. ASSUME NEW j \in 1..Budget
      PROVE  Glance(mem', r, Address(dest, j - 1)) = Glance(mem', r, Address(v.row[r], sel[j]))
  <2>1. j - 1 \in 0..Len(dest) * BlockSize - 1 /\ j \in Int
    BY <1>2, ConfigAssumption
  <2>2. PICK i \in DOMAIN dest, q \in 0..BlockSize - 1 :
          Address(dest, j - 1) = <<dest[i], q>> /\ j - 1 = (i - 1) * BlockSize + q
    BY <1>2, <2>1, AddressOf
  <2>3. (i - 1) * BlockSize + q + 1 = j
    <3>1. i \in Int /\ DOMAIN dest = 1..Len(dest)
      BY <1>2, LenProperties DEF BlockList
    <3>2. (i - 1) * BlockSize \in Int
      BY <3>1, ConfigAssumption
    <3> DEFINE k == (i - 1) * BlockSize
    <3> HIDE DEF k
    <3>3. k \in Int /\ j - 1 = k + q /\ q \in Int
      BY <2>2, <3>2 DEF k
    <3>4. k + q + 1 = j
      BY <2>1, <3>3
    <3> QED
      BY <3>4 DEF k
  <2> DEFINE a == Address(v.row[r], sel[j])
  <2>4. sel[j] \in 0..Len(v.row[r]) * BlockSize - 1
    BY KeptSource
  <2>5. a \in Cells /\ a[1] \notin Copied(o)
    BY <1>3, <2>4, RowCell DEF Clear
  <2>6. mem'[dest[i]][q] = m[a[1]][a[2]]
    <3>1. a = Address(v.row[r], keep[r][Place(i, q)])
      BY <2>3 DEF Place
    <3> HIDE DEF a
    <3>2. Materialized(m, o, v.row, PlansOf(o), keep)[dest[i]][q] = m[a[1]][a[2]]
      BY <1>2, <3>1, CopyIs, SMTT(30)
    <3> QED
      BY <3>2
  <2>7. mem'[a[1]][a[2]] = m[a[1]][a[2]]
    <3>1. ~(\E z \in PlansOf(o) : a[1] \in Range(o.plans[z].dest))
      BY <2>5 DEF Copied
    <3> HIDE DEF a
    <3> QED
      BY <2>5, <3>1 DEF Materialized, Cells
  <2> HIDE DEF a, dest
  <2>8. Glance(mem', r, <<dest[i], q>>) = Glance(mem', r, a)
    BY <2>6, <2>7 DEF Glance
  <2> QED
    BY <2>2, <2>8 DEF a
<1>5. n \in Int
  <2>1. r \in Req /\ o.sched[r] # None
    BY <1>1 DEF PlanFits, PlansOf
  <2> QED
    BY <2>1, PhysicalLength
<1>6. ASSUME NEW j \in 1..Budget
      PROVE  Glance(mem', r, Address(v.row[r], sel[j])) = u[sel[j] + 1]
  <2>1. sel[j] \in Nat /\ sel[j] < n /\ n \in Int
    <3>1. sel \in [1..Budget -> 0..n - 1] /\ sel[j] < n
      BY KeptSource DEF Selections
    <3>2. n \in Int
      BY <1>5
    <3> HIDE DEF sel, n
    <3> QED
      BY <3>1, <3>2
  <2>2. sel[j] + 1 \in 1..n /\ sel[j] + 1 - 1 = sel[j]
    <3> HIDE DEF n, sel
    <3> QED
      BY <2>1
  <2>3. \A i \in 1..n : u[i] = Glance(mem', r, Address(v.row[r], i - 1))
    BY DEF Sight
  <2> HIDE DEF n, sel
  <2> QED
    BY <2>1, <2>2, <2>3
<1> HIDE DEF n, sel, dest
<1>7. Sight(mem', r, dest, Budget) = [j \in 1..Budget |-> Glance(mem', r, Address(dest, j - 1))]
  BY DEF Sight
<1>8. Sight(mem', r, dest, Budget) = LeftOf(u, sel)
  BY <1>4, <1>6, <1>7 DEF LeftOf
<1> QED
  BY <1>8 DEF sel, dest

(* What r sees of a batch that runs it is all of its tokens, or, once a plan*)
(* is materialized, a compaction of them.                                   *)
LEMMA SeesCompacted ==
  ASSUME WorkerTypeOK, NEW o \in Output, NEW v \in Snapshots, Fine(o, v), Separate(o),
         RanThrough(o, v), NEW w, v = After(w, o), NEW r \in Req, o.sched[r] # None,
         Clear(o, v, r),
         NEW u, u = Sight(mem', r, v.row[r], Physical(v.active, r, End(o, r)))
  PROVE  View(r)' \in {u} \cup Logical!Compactions(u)
<1> DEFINE n == Physical(v.active, r, End(o, r))
<1>1. PICK s : s = SeenAfter(o)
  OBVIOUS
<1>2. s[r] = End(o, r) /\ seen' = s /\ Snapshot' = v
  BY <1>1 DEF SeenAfter, RanThrough
<1>3. v.row[r] \in BlockList /\ v.row[r] # None
  BY WorkerNoneAssumption DEF Fine, EntryFits
<1>4. View(r)' = Sight(mem', r, NextRow(v, r), Shown(v, s, r))
  BY <1>2, <1>3, ViewNext
<1>5. CASE o.plans[r] = None
  <2>1. v.pending[r] = None
    BY <1>5, AfterIs DEF PendingNext
  <2> QED
    BY <1>2, <1>4, <2>1 DEF NextRow, Shown
<1>6. CASE o.plans[r] # None
  <2>1. r \in PlansOf(o) /\ PlanFits(o, v, r)
    BY <1>6 DEF PlansOf, Fine
  <2>2. v.pending[r] = Commitment(o.plans[r]) /\ v.pending[r] # None
        /\ v.pending[r].blocks = o.plans[r].dest /\ v.pending[r].physical = Budget
    <3>1. o.plans[r] \in Plan /\ o.plans[r].semantic >= 0
      <4>1. o.plans[r] \in Plan /\ o.plans[r].semantic = End(o, r)
        BY <1>6, <2>1, OutputFields DEF PlanFits
      <4>2. o.sched[r].start >= 0 /\ o.sched[r].n >= 0
        BY DEF Fine, EntryFits
      <4> QED
        BY <4>1, <4>2, OutputFields DEF End
    <3>2. v.pending[r] = Commitment(o.plans[r])
      BY <1>6, AfterIs DEF PendingNext
    <3> QED
      BY <3>1, <3>2, CommitmentIs
  <2>3. PICK keep :
          /\ \A q \in PlansOf(o) : keep[q] \in Selections(Physical(v.active, q, End(o, q)))
          /\ mem' = Materialized(AfterForward(o, v.row, v.active), o, v.row, PlansOf(o), keep)
    BY DEF RanThrough
  <2>4. PICK sel : sel = keep[r] /\ sel \in Selections(n)
    BY <2>1, <2>3
  <2>5. View(r)' = LeftOf(u, sel)
    <3>1. View(r)' = Sight(mem', r, o.plans[r].dest, Budget)
      BY <1>4, <2>2 DEF NextRow, Shown
    <3>2. mem \in Memory /\ AfterForward(o, v.row, v.active) \in Memory
      BY ForwardType DEF WorkerTypeOK, Memory, Fine
    <3>3. Sight(mem', r, o.plans[r].dest, Budget) = LeftOf(u, keep[r])
      BY <2>1, <2>3, <3>2, SeesKept
    <3> QED
      BY <2>4, <3>1, <3>3
  <2>6. n \in Nat /\ n >= Threshold /\ Threshold \in Nat
    <3>1. n \in Int /\ n >= Threshold
      <4>1. n \in Int
        BY PhysicalLength
      <4> QED
        BY <1>6, <2>1, <4>1 DEF PlanFits
    <3>2. Threshold \in Nat
      BY ConfigAssumption DEF Threshold
    <3> HIDE DEF n
    <3> QED
      BY <3>1, <3>2
  <2>7. DOMAIN u = 1..n /\ Len(u) = n
    <3>1. u = [i \in 1..n |-> Glance(mem', r, Address(v.row[r], i - 1))]
      BY DEF Sight
    <3> HIDE DEF n
    <3> QED
      BY <2>6, <3>1
  <2>8. PICK K : K = KeptOf(sel)
    OBVIOUS
  <2>9. /\ K \in SUBSET DOMAIN u /\ Logical!Cardinality(K) = Budget
        /\ Logical!Retained(u, K) = View(r)'
    <3>1. Logical!Cardinality(K) = Cardinality(K)
      BY DEF Logical!Cardinality, Cardinality
    <3> HIDE DEF n
    <3>2. /\ K \in SUBSET (1..n) /\ Cardinality(K) = Budget
          /\ Logical!Retained(u, K) = LeftOf(u, sel)
      BY <2>4, <2>6, <2>8, SelectionRetains
    <3> QED
      BY <2>5, <2>7, <3>1, <3>2
  <2>10. ~(Len(u) < Threshold)
    <3> HIDE DEF n
    <3> QED
      BY <2>6, <2>7
  <2>11. Logical!Retained(u, K) \in Logical!Compactions(u)
    <3> HIDE DEF n
    <3> QED
      BY <2>9, <2>10 DEF Logical!Compactions
  <2> QED
    BY <2>9, <2>11
<1> QED
  BY <1>5, <1>6

(* A batch that finds what it must is a step of the logical cache.          *)
LEMMA BatchIsLogical ==
  ASSUME WorkerTypeOK, NEW o \in Output, NEW v \in Snapshots, Fine(o, v), Separate(o),
         RanThrough(o, v), NEW w \in Snapshots, w = Snapshot, v = After(w, o),
         NEW s \in [Req -> Nat], s = seen, NEW G, \A f \in G : Holds(f)',
         NEW r \in Req, Lined(w, s, r), Shows(o, w, v, s, G, r)
  PROVE  Logical!Same(r) \/ Logical!Dropped(r) \/ Logical!Started(r) \/ Logical!Extended(r)
<1>1. PICK z : z = SeenAfter(o)
  OBVIOUS
<1>2. /\ seen' = z /\ Snapshot' = v /\ View(r)' = IF v.row[r] = None THEN <<>>
                                                  ELSE Sight(mem', r, NextRow(v, r), Shown(v, z, r))
      /\ View(r) = IF w.row[r] = None THEN <<>> ELSE Sight(mem, r, NextRow(w, r), Shown(w, s, r))
  BY <1>1, ViewIs, ViewNext DEF RanThrough, Snapshot
<1>3. z[r] = IF o.sched[r] # None THEN End(o, r)
             ELSE IF r \in o.finished \cup o.preempted THEN 0 ELSE seen[r]
  BY <1>1 DEF SeenAfter
<1>4. CASE o.sched[r] = None /\ r \in o.finished \cup o.preempted
  <2>1. v.row[r] = None
    BY <1>4, AfterIs DEF RowNext
  <2> QED
    BY <1>2, <1>3, <1>4, <2>1 DEF Logical!Dropped
<1>5. CASE o.sched[r] = None /\ r \notin o.finished \cup o.preempted
  <2>1. v.row[r] = w.row[r] /\ v.pending[r] = w.pending[r] /\ v.active[r] = w.active[r]
    <3>1. o.plans[r] = None /\ r \notin Reset(o)
      BY <1>5 DEF Fine, PlanFits, Reset
    <3> QED
      BY <1>5, <3>1, AfterIs DEF RowNext, PendingNext, ActiveNext
  <2>2. z[r] = s[r]
    BY <1>3, <1>5
  <2>3. NextRow(v, r) = NextRow(w, r) /\ Shown(v, z, r) = Shown(w, s, r)
    BY <2>1, <2>2 DEF NextRow, Shown, Physical
  <2>4. CASE w.row[r] = None
    BY <1>2, <2>1, <2>2, <2>4 DEF Logical!Same
  <2>5. CASE w.row[r] # None
    <3> DEFINE l == Shown(w, s, r)
               t == NextRow(w, r)
    <3>1. Spared(o, w, v, s, r)
      BY <1>5, <2>5 DEF Shows, Stays
    <3>2. t \in BlockList /\ l \in 0..Len(t) * BlockSize
      BY <2>5, <3>1, SnapshotFields DEF NextRow, Spared
    <3>3. ASSUME NEW i \in 1..l
          PROVE  Glance(mem', r, Address(t, i - 1)) = Glance(mem, r, Address(t, i - 1))
      <4> DEFINE p == i - 1
                 a == Address(t, p)
      <4>1. p \in 0..Len(t) * BlockSize - 1 /\ p \in 0..l - 1
        <5> DEFINE m == Len(t) * BlockSize
        <5>1. m \in Int
          BY <3>2, LenProperties, ConfigAssumption DEF BlockList
        <5>2. l \in 0..m
          BY <3>2
        <5> HIDE DEF m, l
        <5>3. p \in 0..m - 1 /\ p \in 0..l - 1
          BY <5>1, <5>2
        <5> QED
          BY <5>3 DEF m
      <4> HIDE DEF p
      <4>2. a \in Cells /\ a \notin Sites(o, v) /\ a[1] \notin Copied(o)
        BY <3>1, <3>2, <4>1, RowCell DEF Spared
      <4> HIDE DEF a
      <4>3. mem'[a[1]][a[2]] = mem[a[1]][a[2]]
        BY <4>2, Untouched
      <4>4. Glance(mem', r, a) = Glance(mem, r, a)
        BY <4>3 DEF Glance
      <4> QED
        BY <4>4 DEF a, p
    <3>4. Sight(mem', r, t, l) = Sight(mem, r, t, l)
      <4> HIDE DEF t, l
      <4> QED
        BY <3>3 DEF Sight
    <3>5. View(r)' = View(r)
      BY <1>2, <2>1, <2>3, <2>5, <3>4
    <3> QED
      BY <1>2, <2>2, <3>5 DEF Logical!Same
  <2> QED
    BY <2>4, <2>5
<1>6. CASE o.sched[r] # None
  <2>1. o.sched[r].n > 0 /\ Clear(o, v, r) /\ o.sched[r].n \in Int
    BY <1>6, OutputFields DEF Shows
  <2>2. End(o, r) = o.sched[r].start + o.sched[r].n /\ o.sched[r].start \in Nat
    <3>1. o.sched[r].start >= 0
      BY <1>6 DEF Fine, EntryFits
    <3> QED
      BY <1>6, <3>1, OutputFields DEF End
  <2>3. seen'[r] = End(o, r)
    BY <1>2, <1>3, <1>6
  <2>4. PICK u : u = Sight(mem', r, v.row[r], Physical(v.active, r, End(o, r)))
    OBVIOUS
  <2>5. View(r)' \in {u} \cup Logical!Compactions(u)
    BY <1>6, <2>1, <2>4, SeesCompacted
  <2>6. CASE o.sched[r].kind = "cached"
    <3>1. Resumes(o, w, s, r) /\ Spared(o, w, v, s, r)
      BY <1>6, <2>6 DEF Shows, Stays, Resumes
    <3>2. w.row[r] # None /\ s[r] > 0 /\ o.sched[r].start = s[r]
      BY <3>1 DEF Resumes
    <3>3. PICK c : c = Sight(mem, r, NextRow(w, r), Shown(w, s, r))
      OBVIOUS
    <3>4. u = c \o Logical!Positions(s[r], End(o, r))
      <4>1. Sight(mem', r, v.row[r], Physical(v.active, r, End(o, r)))
              = Grown(c, s[r], End(o, r))
        BY <1>6, <2>6, <3>3, SeesMore
      <4> QED
        BY <2>4, <4>1 DEF Grown
    <3>5. View(r) = c
      BY <1>2, <3>2, <3>3
    <3>6. seen'[r] > seen[r]
      BY <2>1, <2>2, <2>3, <3>2
    <3> QED
      BY <2>3, <2>5, <3>2, <3>4, <3>5, <3>6 DEF Logical!Extended, Logical!CompactedOrNot
  <2>7. CASE o.sched[r].kind # "cached"
    <3>1. Begins(o, v, G, r)
      BY <1>6, <2>7 DEF Shows
    <3>2. Physical(v.active, r, End(o, r)) = End(o, r)
      BY <3>1 DEF Begins, Physical
    <3>3. u = Logical!Positions(0, End(o, r))
      BY <1>6, <2>4, <3>1, <3>2, SeesStart
    <3>4. seen'[r] > 0
      BY <2>1, <2>2, <2>3
    <3> QED
      BY <2>3, <2>5, <3>3, <3>4 DEF Logical!Started, Logical!CompactedOrNot
  <2> QED
    BY <2>6, <2>7
<1> QED
  BY <1>4, <1>5, <1>6

(* Where the queued batches, that lead to w and s, leave the requests.      *)
LeftBehind(w, r) ==
  w.row[r] # None /\ status[r] # "running" =>
    r \in finishedIds \cup resetIds \/ (building # None /\ r \in building.preempted)
CaughtUp(s, r) ==
  status[r] = "running" /\ (building = None \/ building.sched[r] = None) => s[r] = computed[r]
Onward(w, s, r) == building # None =>
  /\ status[r] = "running" /\ Stays(building, w, r) =>
       Spared(building, w, After(w, building), s, r)
  /\ building.sched[r] # None =>
       /\ building.sched[r].n > 0
       /\ building.sched[r].kind = "cached" => Resumes(building, w, s, r)
Ends(w, s) == \A r \in Req : LeftBehind(w, r) /\ CaughtUp(s, r) /\ Onward(w, s, r)

(* S[i] says how many tokens the worker has run, F[i] what is known, and all*)
(* queued batches find what they must.                                      *)
Leads(T, F, S) ==
  /\ S \in [ran..Len(queue) -> [Req -> Nat]] /\ S[ran] = seen
  /\ \A i \in ran..Len(queue) : \A r \in Req : Lined(T[i], S[i], r)
  /\ \A i \in ran + 1..Len(queue) :
       /\ S[i] = SeenNext(queue[i], S[i - 1]) /\ Separate(queue[i])
       /\ \A r \in Req : Shows(queue[i], T[i - 1], T[i], S[i - 1], F[i], r)
Displays(T, F, S) == Leads(T, F, S) /\ Ends(T[Len(queue)], S[Len(queue)])

ViewInv ==
  /\ TrackInv /\ WorkerTypeOK /\ UnderWay
  /\ \E T, F, S : Traces(T) /\ Recalls(T, F) /\ Displays(T, F, S)

(* The batch that runs is a step of the logical cache.                      *)
LEMMA ExecuteIsLogical ==
  ASSUME TrackInv, WorkerTypeOK, NEW T, NEW F, NEW S,
         Traces(T), Recalls(T, F), Leads(T, F, S), Execute
  PROVE  Logical!Batch
<1>1. ran < Len(queue) /\ TypeOK /\ Len(queue) \in Nat /\ ran \in 0..Len(queue)
  BY ExtentTypes, QueuedAre DEF TrackInv, Execute, WorkerRuns
<1>2. ran + 1 \in ran + 1..Len(queue) /\ ran + 1 - 1 = ran /\ ran \in ran..Len(queue)
  BY <1>1
<1>3. PICK o : o = queue[ran + 1]
  OBVIOUS
<1>4. PICK w : w = Snapshot
  OBVIOUS
<1>5. PICK v : v = After(w, o)
  OBVIOUS
<1>6. PICK s : s = seen
  OBVIOUS
<1>7. o \in Output /\ w \in Snapshots /\ v \in Snapshots /\ Fine(o, v) /\ RanThrough(o, v)
  <2>1. /\ queue[ran + 1] \in Output /\ Snapshot \in Snapshots
        /\ Fine(queue[ran + 1], After(Snapshot, queue[ran + 1]))
        /\ After(Snapshot, queue[ran + 1]) \in Snapshots
    BY FirstQueued
  <2>2. RanThrough(queue[ran + 1], After(Snapshot, queue[ran + 1]))
    BY <2>1, ExecuteIs
  <2> QED
    BY <1>3, <1>4, <1>5, <2>1, <2>2
<1>8. T[ran] = w /\ T[ran + 1] = v
  <2>1. Follows(T)
    BY DEF Traces
  <2> QED
    BY <1>2, <1>3, <1>4, <1>5, <2>1 DEF Follows
<1>9. PICK G : G = F[ran + 1]
  OBVIOUS
<1>10. \A f \in G : Holds(f)'
  <2>1. PICK H : H = F[ran]
    OBVIOUS
  <2>2. G = Learnt(H, o, v) /\ \A f \in H : Holds(f)
    BY <1>2, <1>3, <1>8, <1>9, <2>1 DEF Recalls, Remembers
  <2> QED
    BY <1>7, <2>2, LearntHolds
<1>11. /\ s \in [Req -> Nat] /\ Separate(o) /\ S[ran] = s
       /\ \A r \in Req : Lined(w, s, r) /\ Shows(o, w, v, s, G, r)
  BY <1>2, <1>3, <1>6, <1>8, <1>9 DEF Leads
<1> QED
  <2> SUFFICES ASSUME NEW r \in Req
               PROVE  Logical!Same(r) \/ Logical!Dropped(r) \/ Logical!Started(r)
                      \/ Logical!Extended(r)
    BY DEF Logical!Batch
  <2>1. Lined(w, s, r) /\ Shows(o, w, v, s, G, r)
    BY <1>11
  <2> QED
    BY <1>4, <1>5, <1>6, <1>7, <1>10, <1>11, <2>1, BatchIsLogical

LEMMA ExecuteDisplays ==
  ASSUME TrackInv, NEW T, Traces(T), NEW F, NEW S, Displays(T, F, S), NEW U, NEW G, NEW Z,
         U = [i \in ran + 1..Len(queue) |-> T[i]],
         G = [i \in ran + 1..Len(queue) |-> F[i]],
         Z = [i \in ran + 1..Len(queue) |-> S[i]],
         Execute
  PROVE  Displays(U, G, Z)'
<1>1. /\ ran < Len(queue) /\ ran' = ran + 1 /\ building = None
      /\ UNCHANGED <<kv, status, computed, building, queue, finishedIds, resetIds>>
  BY DEF Execute, WorkerRuns
<1>2. TypeOK /\ Len(queue) \in Nat /\ ran \in 0..Len(queue)
  BY ExtentTypes, QueuedAre DEF TrackInv
<1>3. /\ ran + 1 \in ran + 1..Len(queue) /\ ran + 1 - 1 = ran /\ ran \in ran..Len(queue)
      /\ Len(queue) \in ran + 1..Len(queue)
      /\ \A i \in ran + 1..Len(queue) : i \in ran..Len(queue)
  BY <1>1, <1>2
<1>4. \A i \in ran + 1..Len(queue) : U[i] = T[i] /\ G[i] = F[i] /\ Z[i] = S[i]
  OBVIOUS
<1>5. Leads(T, F, S) /\ Ends(T[Len(queue)], S[Len(queue)])
  BY DEF Displays
<1>6. seen' = S[ran + 1]
  <2>1. S[ran + 1] = SeenNext(queue[ran + 1], seen)
    <3>1. S[ran] = seen /\ \A i \in ran + 1..Len(queue) : S[i] = SeenNext(queue[i], S[i - 1])
      BY <1>5 DEF Leads
    <3> QED
      BY <1>3, <3>1
  <2>2. seen' = SeenAfter(queue[ran + 1])
    BY DEF Execute
  <2> QED
    BY <2>1, <2>2 DEF SeenNext, SeenAfter
<1>7. Z \in [ran + 1..Len(queue) -> [Req -> Nat]]
  BY <1>3, <1>5 DEF Leads
<1>8. \A i \in ran + 1..Len(queue) : \A r \in Req : Lined(U[i], Z[i], r)
  BY <1>3, <1>4, <1>5 DEF Leads
<1>9. ASSUME NEW i \in ran + 1 + 1..Len(queue)
      PROVE  /\ Z[i] = SeenNext(queue[i], Z[i - 1]) /\ Separate(queue[i])
             /\ \A r \in Req : Shows(queue[i], U[i - 1], U[i], Z[i - 1], G[i], r)
  <2>1. i \in ran + 1..Len(queue) /\ i - 1 \in ran + 1..Len(queue)
    BY <1>2
  <2> QED
    BY <1>4, <1>5, <2>1 DEF Leads
<1>10. Leads(U, G, Z)'
  BY <1>1, <1>3, <1>4, <1>6, <1>7, <1>8, <1>9 DEF Leads
<1>11. Ends(U[Len(queue)], Z[Len(queue)])'
  BY <1>1, <1>3, <1>4, <1>5 DEF Ends, LeftBehind, CaughtUp, Onward
<1> QED
  BY <1>10, <1>11 DEF Displays

LEMMA NextUnderWay == TrackInv /\ UnderWay /\ [SystemNext]_allvars => UnderWay'
<1>1. [SystemNext]_allvars => [Next]_vars
  BY DEF SystemNext, allvars, Execute, Next
<1> QED
  BY <1>1, NextRunsOn DEF TrackInv

----------------------------------------------------------------------------
(* What the requests will see, step by step of the scheduler.               *)

LEMMA SameLeads ==
  ASSUME UNCHANGED <<queue, ran, seen>>, NEW T, NEW F, NEW S, Leads(T, F, S)
  PROVE  Leads(T, F, S)'
BY DEF Leads

(* Between two schedules, requests only leave, and are announced.           *)
LEMMA RestEnds ==
  ASSUME building = None, building' = None, NEW w, NEW s, Ends(w, s),
         \A r \in Req : status'[r] = "running" => status[r] = "running" /\ computed'[r] = computed[r],
         \A r \in Req : status[r] = "running" /\ status'[r] # "running" =>
                          r \in finishedIds' \cup resetIds',
         \A r \in finishedIds \cup resetIds : r \in finishedIds' \cup resetIds'
  PROVE  Ends(w, s)'
<1> SUFFICES ASSUME NEW r \in Req
             PROVE  LeftBehind(w, r)' /\ CaughtUp(s, r)' /\ Onward(w, s, r)'
  BY DEF Ends
<1>1. LeftBehind(w, r) /\ CaughtUp(s, r)
  BY DEF Ends
<1>2. LeftBehind(w, r)'
  BY <1>1 DEF LeftBehind
<1>3. CaughtUp(s, r)'
  BY <1>1 DEF CaughtUp
<1>4. Onward(w, s, r)'
  BY DEF Onward
<1> QED
  BY <1>2, <1>3, <1>4

LEMMA SameDisplays ==
  ASSUME NEW T, NEW F, NEW S, Displays(T, F, S),
         UNCHANGED <<status, computed, building, queue, ran, seen, finishedIds, resetIds>>
  PROVE  Displays(T, F, S)'
<1>1. Leads(T, F, S)'
  BY SameLeads DEF Displays
<1>2. Ends(T[Len(queue)], S[Len(queue)])'
  BY DEF Displays, Ends, LeftBehind, CaughtUp, Onward
<1> QED
  BY <1>1, <1>2 DEF Displays

LEMMA AbortDisplays ==
  ASSUME TrackInv, NEW T, NEW F, NEW S, Displays(T, F, S),
         NEW q \in Req, Abort(q), UNCHANGED wvars
  PROVE  Displays(T, F, S)'
<1>1. /\ building = None /\ building' = None
      /\ status' = [status EXCEPT ![q] = "finished"]
      /\ computed' = [computed EXCEPT ![q] = 0]
      /\ finishedIds' = finishedIds \cup {q}
      /\ UNCHANGED <<queue, ran, resetIds, seen>>
  BY DEF Abort, wvars
<1>2. /\ status \in [Req -> {"waiting", "running", "preempted", "finished"}]
      /\ computed \in [Req -> Nat]
  BY ExtentTypes DEF TrackInv
<1>3. Leads(T, F, S)'
  BY <1>1, SameLeads DEF Displays
<1>4. PICK w : w = T[Len(queue)]
  OBVIOUS
<1>5. PICK s : s = S[Len(queue)]
  OBVIOUS
<1>6. Ends(w, s)'
  <2>1. Ends(w, s)
    BY <1>4, <1>5 DEF Displays
  <2> QED
    BY <1>1, <1>2, <2>1, RestEnds
<1>7. Ends(T[Len(queue)], S[Len(queue)])'
  BY <1>1, <1>4, <1>5, <1>6 DEF Ends, LeftBehind, CaughtUp, Onward
<1> QED
  BY <1>3, <1>7 DEF Displays

LEMMA UpdateFromOutputDisplays ==
  ASSUME TrackInv, NEW T, NEW F, NEW S, Displays(T, F, S), NEW U, NEW G, NEW Z,
         U = [i \in ran - 1..Len(queue) - 1 |-> T[i + 1]],
         G = [i \in ran - 1..Len(queue) - 1 |-> F[i + 1]],
         Z = [i \in ran - 1..Len(queue) - 1 |-> S[i + 1]],
         NEW R \in SUBSET Req, UpdateFromOutput(R), UNCHANGED wvars
  PROVE  Displays(U, G, Z)'
<1>1. /\ building = None /\ building' = None /\ ran > 0 /\ seen' = seen
      /\ queue' = Tail(queue) /\ ran' = ran - 1 /\ resetIds' = resetIds
      /\ status' = [r \in Req |-> IF r \in R THEN "finished" ELSE status[r]]
      /\ computed' = [r \in Req |-> IF r \in R THEN 0 ELSE computed[r]]
      /\ finishedIds' = finishedIds \cup R
  BY DEF UpdateFromOutput, wvars
<1>2. queue \in Seq(Output) /\ Len(queue) \in Nat /\ ran \in 0..Len(queue)
  BY ExtentTypes, QueuedAre DEF TrackInv, TypeOK
<1>3. Len(queue') = Len(queue) - 1 /\ \A i \in 1..Len(queue) - 1 : queue'[i] = queue[i + 1]
  <2>1. queue # <<>>
    BY <1>1, <1>2, EmptySeq
  <2> QED
    BY <1>1, <1>2, <2>1, HeadTailProperties
<1>4. Leads(T, F, S) /\ Ends(T[Len(queue)], S[Len(queue)])
  BY DEF Displays
<1>5. /\ ran - 1 \in ran - 1..Len(queue) - 1 /\ ran - 1 + 1 = ran
      /\ Len(queue) - 1 \in ran - 1..Len(queue) - 1 /\ Len(queue) - 1 + 1 = Len(queue)
      /\ \A i \in ran - 1..Len(queue) - 1 : i + 1 \in ran..Len(queue)
  BY <1>2
<1>6. \A i \in ran - 1..Len(queue) - 1 : U[i] = T[i + 1] /\ G[i] = F[i + 1] /\ Z[i] = S[i + 1]
  OBVIOUS
<1>7. Z \in [ran - 1..Len(queue) - 1 -> [Req -> Nat]] /\ Z[ran - 1] = seen
  BY <1>4, <1>5, <1>6 DEF Leads
<1>8. \A i \in ran - 1..Len(queue) - 1 : \A r \in Req : Lined(U[i], Z[i], r)
  BY <1>4, <1>5, <1>6 DEF Leads
<1>9. ASSUME NEW i \in ran - 1 + 1..Len(queue) - 1
      PROVE  /\ Z[i] = SeenNext(queue'[i], Z[i - 1]) /\ Separate(queue'[i])
             /\ \A r \in Req : Shows(queue'[i], U[i - 1], U[i], Z[i - 1], G[i], r)
  <2>1. /\ i \in 1..Len(queue) - 1 /\ i \in ran - 1..Len(queue) - 1
        /\ i - 1 \in ran - 1..Len(queue) - 1 /\ i + 1 \in ran + 1..Len(queue)
        /\ i - 1 + 1 = i /\ i + 1 - 1 = i
    BY <1>1, <1>2
  <2>2. /\ S[i + 1] = SeenNext(queue[i + 1], S[i]) /\ Separate(queue[i + 1])
        /\ \A r \in Req : Shows(queue[i + 1], T[i], T[i + 1], S[i], F[i + 1], r)
    BY <1>4, <2>1 DEF Leads
  <2> QED
    BY <1>3, <1>6, <2>1, <2>2
<1>10. Leads(U, G, Z)'
  BY <1>1, <1>3, <1>7, <1>8, <1>9 DEF Leads
<1>11. PICK w : w = T[Len(queue)]
  OBVIOUS
<1>12. PICK s : s = S[Len(queue)]
  OBVIOUS
<1>13. Ends(w, s)'
  <2>1. Ends(w, s)
    BY <1>4, <1>11, <1>12
  <2> QED
    BY <1>1, <2>1, RestEnds
<1>14. U[Len(queue')] = w /\ Z[Len(queue')] = s
  BY <1>3, <1>5, <1>6, <1>11, <1>12
<1>15. Ends(U[Len(queue)], Z[Len(queue)])'
  BY <1>13, <1>14 DEF Ends, LeftBehind, CaughtUp, Onward
<1> QED
  BY <1>10, <1>15 DEF Displays

LEMMA SameShows ==
  ASSUME NEW o, NEW p, p.sched = o.sched, p.plans = o.plans, p.finished = o.finished,
         p.preempted = o.preempted
  PROVE  /\ \A s : SeenNext(p, s) = SeenNext(o, s)
         /\ Separate(o) => Separate(p)
         /\ \A w, v, s, F : \A r \in Req : Shows(o, w, v, s, F, r) => Shows(p, w, v, s, F, r)
<1>1. Reset(p) = Reset(o) /\ PlansOf(p) = PlansOf(o) /\ Copied(p) = Copied(o)
  BY DEF Reset, PlansOf, Copied
<1>2. \A r \in Req : End(p, r) = End(o, r)
  BY DEF End
<1>3. \A s : SeenNext(p, s) = SeenNext(o, s)
  BY <1>2 DEF SeenNext
<1>4. Separate(o) => Separate(p)
  BY <1>1 DEF Separate
<1>5. \A v : Sites(p, v) = Sites(o, v)
  BY SameWrites
<1>6. ASSUME NEW w, NEW v, NEW s, NEW F, NEW r \in Req, Shows(o, w, v, s, F, r)
      PROVE  Shows(p, w, v, s, F, r)
  <2>1. Stays(p, w, r) <=> Stays(o, w, r)
    BY DEF Stays
  <2>2. Spared(o, w, v, s, r) => Spared(p, w, v, s, r)
    BY <1>1, <1>5 DEF Spared
  <2>3. Clear(o, v, r) => Clear(p, v, r)
    BY <1>1 DEF Clear
  <2>4. Resumes(o, w, s, r) => Resumes(p, w, s, r)
    BY <1>1 DEF Resumes
  <2>5. Begins(o, v, F, r) => Begins(p, v, F, r)
    BY <1>2 DEF Begins
  <2> QED
    BY <1>6, <2>1, <2>2, <2>3, <2>4, <2>5 DEF Shows
<1> QED
  BY <1>3, <1>4, <1>6

LEMMA ResetPrefixCacheDisplays ==
  ASSUME TrackInv, NEW T, NEW F, NEW S, Displays(T, F, S), ResetPrefixCache, UNCHANGED wvars
  PROVE  Displays(T, F, S)'
<1> DEFINE R == {r \in Req : status[r] = "running"}
<1>1. /\ building = None /\ building' = None /\ ran' = ran /\ seen' = seen
      /\ status' = [r \in Req |-> IF r \in R THEN "preempted" ELSE status[r]]
      /\ queue' = [i \in DOMAIN queue |-> [queue[i] EXCEPT !.sampled = @ \ R]]
      /\ resetIds' = resetIds \cup R /\ finishedIds' = finishedIds
  BY DEF ResetPrefixCache, wvars
<1>2. /\ Len(queue) \in Nat /\ ran \in 0..Len(queue) /\ DOMAIN queue = 1..Len(queue)
      /\ \A i \in 1..Len(queue) : queue[i] \in Output
  BY ExtentTypes, QueuedAre DEF TrackInv
<1>3. Len(queue') = Len(queue)
  <2>1. queue' \in [1..Len(queue) -> {queue'[i] : i \in 1..Len(queue)}]
    BY <1>1, <1>2
  <2> QED
    BY <1>1, <1>2, <2>1
<1>4. Leads(T, F, S) /\ Ends(T[Len(queue)], S[Len(queue)])
  BY DEF Displays
<1>5. ASSUME NEW i \in ran + 1..Len(queue)
      PROVE  /\ S[i] = SeenNext(queue'[i], S[i - 1]) /\ Separate(queue'[i])
             /\ \A r \in Req : Shows(queue'[i], T[i - 1], T[i], S[i - 1], F[i], r)
  <2>1. i \in DOMAIN queue /\ queue[i] \in Output
    BY <1>2
  <2>2. /\ queue'[i].sched = queue[i].sched /\ queue'[i].plans = queue[i].plans
        /\ queue'[i].finished = queue[i].finished /\ queue'[i].preempted = queue[i].preempted
    BY <1>1, <2>1 DEF Output
  <2>3. /\ S[i] = SeenNext(queue[i], S[i - 1]) /\ Separate(queue[i])
        /\ \A r \in Req : Shows(queue[i], T[i - 1], T[i], S[i - 1], F[i], r)
    BY <1>4 DEF Leads
  <2>4. PICK o : o = queue[i]
    OBVIOUS
  <2>5. PICK p : p = queue'[i]
    OBVIOUS
  <2> QED
    BY <2>2, <2>3, <2>4, <2>5, SameShows
<1>6. Leads(T, F, S)'
  BY <1>1, <1>3, <1>4, <1>5 DEF Leads
<1>7. PICK w : w = T[Len(queue)]
  OBVIOUS
<1>8. PICK s : s = S[Len(queue)]
  OBVIOUS
<1>9. Ends(w, s)'
  <2>1. Ends(w, s)
    BY <1>4, <1>7, <1>8
  <2> QED
    BY <1>1, <2>1, RestEnds
<1>10. Ends(T[Len(queue)], S[Len(queue)])'
  BY <1>3, <1>7, <1>8, <1>9 DEF Ends, LeftBehind, CaughtUp, Onward
<1> QED
  BY <1>6, <1>10 DEF Displays

(* The blocks of a request under way cover what it sees.                    *)
LEMMA ShownFits ==
  ASSUME ExtentInv, NEW w \in Snapshots, NEW s, NEW r \in Req, AgreesFor(kv, status, w, r),
         status[r] = "running", s[r] = computed[r], Lined(w, s, r)
  PROVE  /\ w.row[r] # None /\ NextRow(w, r) \in BlockList
         /\ Shown(w, s, r) \in 0..Len(NextRow(w, r)) * BlockSize
         /\ kv.pending[r] = None => Shown(w, s, r) = PhysicalTokens(kv, r, computed[r])
<1>1. kv \in KV /\ computed[r] \in Nat /\ kv.table[r] \in BlockList /\ Len(kv.table[r]) \in Nat
      /\ Budget \in Nat
  BY ExtentTypes, InTable, ConfigAssumption
<1>2. /\ PhysicalTokens(kv, r, computed[r]) <= Len(kv.table[r]) * BlockSize
      /\ kv.active[r] # None =>
           kv.active[r].physical = Budget /\ kv.active[r].semantic <= computed[r]
      /\ kv.pending[r] # None => Len(kv.pending[r].plan.dest) = Keep
  BY DEF ExtentInv, Extent, Fitted
<1>3. Len(kv.table[r]) * BlockSize \in Int
  <2>1. Len(kv.table[r]) \in Int
    BY <1>1
  <2> QED
    BY <2>1, ScaledOrder
<1>4. kv.table[r] # None
  BY <1>1, WorkerNoneAssumption
<1>0. kv.active[r] # None => kv.active[r].semantic \in Int
        /\ PhysicalTokens(kv, r, computed[r]) = computed[r] - kv.active[r].semantic + Budget
  <2>1. computed[r] \in Int
    BY <1>1
  <2> QED
    BY <1>1, <1>2, <2>1, PhysicalIs
<1>5. /\ w.pending[r] \in WorkerPending \cup {None} /\ w.row[r] \in BlockList \cup {None}
      /\ w.pending[r] # None =>
           w.pending[r].semantic \in Nat /\ w.pending[r].physical \in Nat
           /\ w.pending[r].blocks \in BlockList
  BY SnapshotFields
<1>6. CASE kv.pending[r] # None
  <2> DEFINE plan == kv.pending[r].plan
  <2>1. plan \in Plan /\ plan.semantic >= 0
    <3>1. kv.pending[r] \in Pending
      BY <1>1, <1>6, KVFields
    <3>2. computed[r] = plan.semantic
      BY <1>6, ExtentTypes DEF TransactionInv, PendingSourceStable
    <3> QED
      BY <1>1, <3>1, <3>2 DEF Pending
  <2>2. w.pending[r] = Commitment(plan) /\ w.row[r] = kv.table[r]
    BY <1>6 DEF AgreesFor
  <2>3. Len(plan.dest) = Keep
    BY <1>2, <1>6
  <2> HIDE DEF plan
  <2>4. w.pending[r] # None /\ w.pending[r].blocks = plan.dest /\ w.pending[r].physical = Budget
    BY <2>1, <2>2, CommitmentIs
  <2>5. Shown(w, s, r) = Budget /\ NextRow(w, r) = plan.dest
    BY <2>4 DEF Shown, NextRow
  <2>6. Len(NextRow(w, r)) * BlockSize = Budget
    BY <2>3, <2>5, KeepIsBudget
  <2> QED
    BY <1>1, <1>4, <1>5, <1>6, <2>2, <2>4, <2>5, <2>6
<1>7. CASE kv.pending[r] = None
  <2>1. kv.table[r] = NextRow(w, r) /\ kv.active[r] = NextActive(w, r)
    BY <1>7 DEF AgreesFor
  <2>2. CASE w.pending[r] # None
    <3>1. w.row[r] # None /\ computed[r] = w.pending[r].semantic
      BY <2>2 DEF Lined
    <3>2. kv.active[r] = [semantic |-> w.pending[r].semantic, physical |-> w.pending[r].physical]
      BY <2>1, <2>2 DEF NextActive
    <3>3. kv.active[r] \in Active
      BY <1>5, <2>2, <3>2 DEF Active
    <3>4. kv.active[r] # None /\ kv.active[r].semantic = computed[r]
          /\ kv.active[r].physical = w.pending[r].physical
      BY <3>1, <3>2, <3>3, NoneAssumption
    <3>5. PhysicalTokens(kv, r, computed[r]) = Budget
      <4>1. PhysicalTokens(kv, r, computed[r]) = computed[r] - computed[r] + Budget
        BY <1>0, <3>4
      <4> QED
        BY <1>1, <4>1
    <3>6. Shown(w, s, r) = Budget
      BY <1>2, <2>2, <3>4 DEF Shown
    <3> QED
      BY <1>1, <1>2, <1>3, <2>1, <3>1, <3>5, <3>6
  <2>3. CASE w.pending[r] = None
    <3>1. w.row[r] = kv.table[r] /\ w.active[r] = kv.active[r]
      BY <2>1, <2>3 DEF NextRow, NextActive
    <3>2. Shown(w, s, r) = Physical(w.active, r, computed[r])
      BY <2>3 DEF Shown
    <3>3. Shown(w, s, r) = PhysicalTokens(kv, r, computed[r])
          /\ PhysicalTokens(kv, r, computed[r]) \in Nat
      <4>1. CASE kv.active[r] = None
        BY <1>1, <3>1, <3>2, <4>1, PhysicalIs DEF Physical
      <4>2. CASE kv.active[r] # None
        <5>1. kv.active[r].semantic \in Int /\ kv.active[r].physical = Budget
              /\ kv.active[r].semantic <= computed[r]
              /\ PhysicalTokens(kv, r, computed[r]) = computed[r] - kv.active[r].semantic + Budget
          BY <1>0, <1>2, <4>2
        <5> QED
          BY <1>1, <3>1, <3>2, <4>2, <5>1 DEF Physical
      <4> QED
        BY <4>1, <4>2
    <3> QED
      BY <1>1, <1>2, <1>3, <1>4, <2>1, <3>1, <3>3
  <2> QED
    BY <2>2, <2>3
<1> QED
  BY <1>6, <1>7

LEMMA BeginScheduleDisplays ==
  ASSUME TrackInv, NEW T, Traces(T), NEW F, NEW S, Displays(T, F, S),
         BeginSchedule, UNCHANGED wvars
  PROVE  Displays(T, F, S)'
<1>1. /\ building = None /\ building' = EmptyOutput
      /\ UNCHANGED <<status, computed, queue, ran, seen, finishedIds, resetIds>>
  BY DEF BeginSchedule, wvars
<1>2. ExtentInv /\ TypeOK /\ Len(queue) \in Nat /\ ran \in 0..Len(queue)
  BY ExtentTypes, QueuedAre DEF TrackInv
<1>3. PICK w : w = T[Len(queue)]
  OBVIOUS
<1>4. PICK s : s = S[Len(queue)]
  OBVIOUS
<1>5. w \in Snapshots /\ \A r \in Req : AgreesFor(kv, status, w, r)
  <2>1. T[Len(queue)] \in Snapshots /\ Reaches(kv, status, building, T[Len(queue)])
    BY <1>2, FollowsTypes DEF Traces
  <2>2. Reaches(kv, status, building, w)
    BY <1>3, <2>1
  <2> QED
    BY <1>1, <1>3, <2>1, <2>2 DEF Reaches, Agrees
<1>6. Ends(w, s) /\ \A r \in Req : Lined(w, s, r)
  <2>1. Len(queue) \in ran..Len(queue)
    BY <1>2
  <2> QED
    BY <1>3, <1>4, <2>1 DEF Displays, Leads
<1>7. /\ EmptyOutput # None /\ After(w, EmptyOutput) = w
      /\ Sites(EmptyOutput, w) = {} /\ Copied(EmptyOutput) = {}
      /\ \A r \in Req : EmptyOutput.sched[r] = None
  <2>1. EmptyOutput \in Output
    BY ConfigAssumption DEF EmptyOutput, Output
  <2>2. \A r \in Req : EmptyOutput.sched[r] = None /\ EmptyOutput.plans[r] = None
    BY DEF EmptyOutput
  <2>3. Writes(EmptyOutput) = {} /\ Copied(EmptyOutput) = {}
    BY <2>2, NothingCopied DEF Writes
  <2> QED
    BY <1>5, <2>1, <2>2, <2>3, EmptyAfter, NoneAssumption DEF Sites
<1>8. ASSUME NEW r \in Req
      PROVE  LeftBehind(w, r)' /\ CaughtUp(s, r)' /\ Onward(w, s, r)'
  <2>1. LeftBehind(w, r) /\ CaughtUp(s, r)
    BY <1>6 DEF Ends
  <2>2. LeftBehind(w, r)'
    BY <1>1, <2>1 DEF LeftBehind
  <2>3. CaughtUp(s, r)'
    BY <1>1, <2>1 DEF CaughtUp
  <2>4. ASSUME status[r] = "running"
        PROVE  Spared(EmptyOutput, w, w, s, r)
    <3>1. s[r] = computed[r]
      BY <1>1, <2>1, <2>4 DEF CaughtUp
    <3>2. Shown(w, s, r) \in 0..Len(NextRow(w, r)) * BlockSize
      BY <1>2, <1>5, <1>6, <2>4, <3>1, ShownFits
    <3> QED
      BY <1>7, <3>2 DEF Spared
  <2>5. Onward(w, s, r)'
    BY <1>1, <1>7, <2>4 DEF Onward
  <2> QED
    BY <2>2, <2>3, <2>5
<1>9. Ends(T[Len(queue)], S[Len(queue)])'
  BY <1>1, <1>3, <1>4, <1>8 DEF Ends, LeftBehind, CaughtUp, Onward
<1>10. Leads(T, F, S)'
  BY <1>1, SameLeads DEF Displays
<1> QED
  BY <1>9, <1>10 DEF Displays

LEMMA PreemptDisplays ==
  ASSUME TrackInv, NEW T, NEW F, NEW S, Displays(T, F, S),
         NEW victim \in Req, Preempt(victim), UNCHANGED wvars
  PROVE  Displays(T, F, S)'
<1>1. /\ building # None /\ building.sched[victim] = None
      /\ status' = [status EXCEPT ![victim] = "preempted"]
      /\ computed' = [computed EXCEPT ![victim] = 0]
      /\ building' = [building EXCEPT !.preempted = @ \cup {victim}]
      /\ UNCHANGED <<queue, ran, seen, finishedIds, resetIds>>
  BY DEF Preempt, wvars
<1>2. /\ building \in Output /\ computed \in [Req -> Nat]
      /\ status \in [Req -> {"waiting", "running", "preempted", "finished"}]
  BY <1>1, ExtentTypes DEF TrackInv
<1>3. PICK w : w = T[Len(queue)]
  OBVIOUS
<1>4. PICK s : s = S[Len(queue)]
  OBVIOUS
<1>5. Ends(w, s)
  BY <1>3, <1>4 DEF Displays
<1>6. PICK b : b = building
  OBVIOUS
<1>7. PICK o : o = building'
  OBVIOUS
<1>8. /\ o.sched = b.sched /\ o.plans = b.plans /\ o.finished = b.finished
      /\ o.preempted = b.preempted \cup {victim} /\ o # None
  <2>1. /\ o.sched = b.sched /\ o.plans = b.plans /\ o.finished = b.finished
        /\ o.preempted = b.preempted \cup {victim} /\ o \in Output
    BY <1>1, <1>2, <1>6, <1>7 DEF Output
  <2> QED
    BY <2>1, NoneAssumption
<1>9. PICK u : u = After(w, b)
  OBVIOUS
<1>10. PICK v : v = After(w, o)
  OBVIOUS
<1>11. \A q \in Req : q # victim => (q \in Reset(o) <=> q \in Reset(b))
  BY <1>8 DEF Reset
<1>12. ASSUME NEW q \in Req, b.sched[q] # None
       PROVE  v.row[q] = u.row[q] /\ v.active[q] = u.active[q]
  <2>1. q # victim
    BY <1>1, <1>6, <1>12
  <2> QED
    BY <1>8, <1>9, <1>10, <1>11, <1>12, <2>1, AfterIs DEF RowNext, ActiveNext
<1>13. Sites(o, v) = Sites(b, u) /\ Copied(o) = Copied(b)
  <2>1. Sites(o, v) = Sites(b, u)
    BY <1>8, <1>12, SameWrites
  <2> QED
    BY <1>8, <2>1 DEF Copied, PlansOf
<1>14. ASSUME NEW r \in Req
       PROVE  LeftBehind(w, r)' /\ CaughtUp(s, r)' /\ Onward(w, s, r)'
  <2>1. LeftBehind(w, r) /\ CaughtUp(s, r) /\ Onward(w, s, r)
    BY <1>5 DEF Ends
  <2>2. LeftBehind(w, r)'
    <3>1. CASE r = victim
      BY <1>1, <1>7, <1>8, <3>1 DEF LeftBehind
    <3>2. CASE r # victim
      BY <1>1, <1>2, <1>6, <1>7, <1>8, <2>1, <3>2 DEF LeftBehind
    <3> QED
      BY <3>1, <3>2
  <2>3. CaughtUp(s, r)'
    BY <1>1, <1>2, <1>6, <1>7, <1>8, <2>1 DEF CaughtUp
  <2>4. ASSUME status'[r] = "running", Stays(o, w, r)
        PROVE  Spared(o, w, v, s, r)
    <3>1. status[r] = "running"
      BY <1>1, <1>2, <2>4
    <3>2. Stays(b, w, r)
      BY <1>8, <2>4 DEF Stays
    <3>3. Spared(b, w, u, s, r)
      BY <1>1, <1>6, <1>9, <2>1, <3>1, <3>2 DEF Onward
    <3> QED
      BY <1>13, <3>3 DEF Spared
  <2>5. ASSUME o.sched[r] # None
        PROVE  /\ o.sched[r].n > 0
               /\ o.sched[r].kind = "cached" => Resumes(o, w, s, r)
    <3>1. r # victim /\ b.sched[r] # None
      BY <1>1, <1>6, <1>8, <2>5
    <3>2. b.sched[r].n > 0 /\ (b.sched[r].kind = "cached" => Resumes(b, w, s, r))
      BY <1>1, <1>6, <2>1, <3>1 DEF Onward
    <3> QED
      BY <1>8, <1>11, <3>1, <3>2 DEF Resumes
  <2>6. Onward(w, s, r)'
    BY <1>7, <1>10, <2>4, <2>5 DEF Onward
  <2> QED
    BY <2>2, <2>3, <2>6
<1>15. Ends(T[Len(queue)], S[Len(queue)])'
  BY <1>1, <1>3, <1>4, <1>14 DEF Ends, LeftBehind, CaughtUp, Onward
<1>16. Leads(T, F, S)'
  BY <1>1, SameLeads DEF Displays
<1> QED
  BY <1>15, <1>16 DEF Displays

(* What a request that the batch continues or passes over sees lies in its  *)
(* block table, or in what is reserved for it.                              *)
Keeps(k, q, b) ==
  \/ b \in Range(k.table[q])
  \/ k.pending[q] # None /\ b \in Range(k.pending[q].plan.dest)

LEMMA NextRowKept ==
  ASSUME ExtentInv, building # None, NEW w \in Snapshots,
         Fine(building, After(w, building)), Agrees(kv, status, After(w, building)),
         NEW q \in Req, status[q] = "running", Stays(building, w, q)
  PROVE  /\ NextRow(w, q) \in BlockList
         /\ \A b \in Range(NextRow(w, q)) : Keeps(kv, q, b)
         /\ building.sched[q] = None =>
              /\ AgreesFor(kv, status, w, q)
              /\ kv.pending[q] = None => kv.table[q] = NextRow(w, q)
<1>1. building.finished = {} /\ building.plans[q] = None /\ q \notin building.preempted
      /\ building \in Output /\ kv \in KV
  BY ExtentTypes DEF ExtentInv, Extent, BatchAgrees
<1>2. w.row[q] # None /\ (building.sched[q] # None => building.sched[q].kind = "cached")
  BY DEF Stays
<1>3. q \notin Reset(building)
  BY <1>1, <1>2 DEF Reset
<1>4. NextRow(w, q) \in BlockList
  BY <1>2, SnapshotFields DEF NextRow
<1>5. CASE building.sched[q] # None
  <2>1. RowNext(w, building, q) = kv.table[q]
    BY <1>5, BatchRows
  <2>2. RowNext(w, building, q) = NextRow(w, q) \o building.sched[q].blocks
        /\ building.sched[q].blocks \in BlockList
    BY <1>1, <1>2, <1>3, <1>5, OutputFields DEF RowNext
  <2>3. PICK t : t = NextRow(w, q)
    OBVIOUS
  <2>4. PICK e : e = building.sched[q].blocks
    OBVIOUS
  <2>5. t \in Seq(Block) /\ e \in Seq(Block) /\ kv.table[q] = t \o e
    BY <1>4, <2>1, <2>2, <2>3, <2>4 DEF BlockList
  <2>6. \A b \in Range(t) : b \in Range(kv.table[q])
    <3>1. /\ DOMAIN t = 1..Len(t) /\ Len(t) \in Nat /\ Len(e) \in Nat
          /\ DOMAIN (t \o e) = 1..Len(t) + Len(e)
          /\ \A i \in 1..Len(t) : (t \o e)[i] = t[i]
      BY <2>5, LenProperties, ConcatProperties
    <3>2. \A i \in DOMAIN t : i \in DOMAIN kv.table[q] /\ kv.table[q][i] = t[i]
      BY <2>5, <3>1
    <3> QED
      BY <3>2 DEF Range
  <2> QED
    BY <1>4, <1>5, <2>3, <2>6 DEF Keeps
<1>6. CASE building.sched[q] = None
  <2>1. /\ RowNext(w, building, q) = w.row[q] /\ ActiveNext(w, building, q) = w.active[q]
        /\ PendingNext(w, building, q) = w.pending[q]
    BY <1>1, <1>3, <1>6 DEF RowNext, ActiveNext, PendingNext
  <2>2. AgreesFor(kv, status, After(w, building), q)
    BY DEF Agrees
  <2>3. AgreesFor(kv, status, w, q)
    BY <2>1, <2>2, AfterIs DEF AgreesFor, NextRow, NextActive
  <2>4. CASE kv.pending[q] = None
    <3>1. kv.table[q] = NextRow(w, q)
      BY <2>3, <2>4 DEF AgreesFor
    <3> QED
      BY <1>4, <1>6, <2>3, <3>1 DEF Keeps
  <2>5. CASE kv.pending[q] # None
    <3>1. w.pending[q] = Commitment(kv.pending[q].plan)
      BY <2>3, <2>5 DEF AgreesFor
    <3>2. kv.pending[q].plan \in Plan /\ kv.pending[q].plan.semantic >= 0
      <4>1. kv.pending[q] \in Pending
        BY <1>1, <2>5, KVFields
      <4>2. computed[q] = kv.pending[q].plan.semantic /\ computed[q] \in Nat
        BY <2>5, ExtentTypes DEF TransactionInv, PendingSourceStable
      <4> QED
        BY <4>1, <4>2 DEF Pending
    <3>3. NextRow(w, q) = kv.pending[q].plan.dest
      BY <3>1, <3>2, CommitmentIs DEF NextRow
    <3> QED
      BY <1>4, <1>6, <2>3, <2>5, <3>3 DEF Keeps
  <2> QED
    BY <2>4, <2>5
<1> QED
  BY <1>5, <1>6

(* The block a request writes to as it enters is not kept for another.      *)
LEMMA EnteredElsewhere ==
  ASSUME ExtentInv, ExtentInv', NEW r \in Req, NEW hits, NEW new, NEW start, NEW n, NEW kind,
         NEW c, Enters(r, hits, new, start, n, kind, c), NEW q \in Req, q # r,
         NEW i \in DOMAIN kv'.table[r], i * BlockSize > PhysicalTokens(kv, r, start)
  PROVE  ~Keeps(kv, q, kv'.table[r][i])
<1>1. kv'.table[q] = kv.table[q] /\ kv'.pending[q] = kv.pending[q]
  BY EnteredOther
<1>2. kv' \in KV
  BY DEF ExtentInv, AccountingInv, TransactionInv, TypeOK
<1>3. PICK b : b = kv'.table[r][i]
  OBVIOUS
<1>4. ASSUME b \in Range(kv.table[q])
      PROVE  FALSE
  <2>1. PICK j \in DOMAIN kv'.table[q] : kv'.table[q][j] = b
    BY <1>1, <1>4 DEF Range
  <2> QED
    BY <1>3, <2>1, EnteredOwns
<1>5. ASSUME kv.pending[q] # None, b \in Range(kv.pending[q].plan.dest)
      PROVE  FALSE
  <2>1. <<q, Reserved>> \in Secret(kv') /\ b \in BlocksAt(kv', <<q, Reserved>>)
    BY <1>1, <1>5, PlaceTypes, WhatIsAt DEF Secret
  <2>2. <<r, Table>> \in Places(Req) /\ b \in BlocksAt(kv', <<r, Table>>)
    BY <1>2, <1>3, InTable, PlaceTypes
  <2>3. Exclusive(kv')
    BY DEF ExtentInv, AccountingInv, Accounted
  <2>4. <<r, Table>> = <<q, Reserved>>
    BY <2>1, <2>2, <2>3 DEF Exclusive
  <2> QED
    BY <2>4 DEF Table, Reserved
<1> QED
  BY <1>3, <1>4, <1>5 DEF Keeps

(* The slots the batch writes once r has entered: those from before, and    *)
(* slots of r behind what it has computed.                                  *)
LEMMA EnteredWhere ==
  ASSUME ExtentInv, NEW r \in Req, NEW hits, NEW new, NEW start, NEW n, NEW kind, NEW c,
         Enters(r, hits, new, start, n, kind, c), NEW o \in Output, o = building',
         NEW v \in Snapshots, \A q \in Req : EntryFits(o, v, q),
         v.row[r] = kv'.table[r], v.active[r] = kv'.active[r],
         NEW u, \A q \in Req \ {r} : v.row[q] = u.row[q] /\ v.active[q] = u.active[q],
         NEW a \in Sites(o, v), a \notin Sites(building, u)
  PROVE  \E i \in DOMAIN kv'.table[r] : \E m \in 0..BlockSize - 1 :
           /\ a = <<kv'.table[r][i], m>>
           /\ (i - 1) * BlockSize + m >= PhysicalTokens(kv, r, start)
           /\ i * BlockSize > PhysicalTokens(kv, r, start)
<1>1. PICK x \in Writes(o) : a = Site(v, x)
  BY DEF Sites
<1>2. x[1] = r
  <2> SUFFICES ASSUME x[1] # r
               PROVE  FALSE
    OBVIOUS
  <2>1. x = <<x[1], x[2]>> /\ x[1] \in Req /\ o.sched[x[1]] # None
        /\ x[2] \in o.sched[x[1]].start..End(o, x[1]) - 1
    BY WrittenBy
  <2>2. building.sched[x[1]] = o.sched[x[1]] /\ End(building, x[1]) = End(o, x[1])
    BY <2>1, EnteredOther
  <2>3. x \in Writes(building)
    BY <2>1, <2>2, WrittenBy
  <2>4. Site(v, x) = Site(u, x)
    BY <2>1 DEF Site
  <2> QED
    BY <1>1, <2>3, <2>4 DEF Sites
<1>3. Slot(v.active[r], x[2]) >= PhysicalTokens(kv, r, start)
      /\ \E i \in DOMAIN kv'.table[r] : \E m \in 0..BlockSize - 1 :
           /\ Site(v, x) = <<kv'.table[r][i], m>>
           /\ Slot(v.active[r], x[2]) = (i - 1) * BlockSize + m
           /\ i * BlockSize > PhysicalTokens(kv, r, start)
  BY <1>2, EnteredSites
<1>4. PICK i \in DOMAIN kv'.table[r], m \in 0..BlockSize - 1 :
           /\ Site(v, x) = <<kv'.table[r][i], m>>
           /\ Slot(v.active[r], x[2]) = (i - 1) * BlockSize + m
           /\ i * BlockSize > PhysicalTokens(kv, r, start)
  BY <1>3
<1>5. (i - 1) * BlockSize + m >= PhysicalTokens(kv, r, start)
  BY <1>3, <1>4
<1> QED
  BY <1>1, <1>4, <1>5

LEMMA EnteredSparesOthers ==
  ASSUME ExtentInv, ExtentInv', NEW r \in Req, NEW hits, NEW new, NEW start, NEW n, NEW kind,
         NEW c, Enters(r, hits, new, start, n, kind, c), NEW o \in Output, o = building',
         NEW v \in Snapshots, \A q \in Req : EntryFits(o, v, q),
         v.row[r] = kv'.table[r], v.active[r] = kv'.active[r], Copied(o) = {},
         NEW w \in Snapshots, NEW u, u = After(w, building),
         \A q \in Req \ {r} : v.row[q] = u.row[q] /\ v.active[q] = u.active[q],
         Fine(building, u), Agrees(kv, status, u),
         NEW s, NEW q \in Req, q # r, status[q] = "running", Stays(building, w, q),
         Spared(building, w, u, s, q)
  PROVE  Spared(o, w, v, s, q)
<1>1. building # None
  BY DEF Enters
<1>2. NextRow(w, q) \in BlockList /\ \A b \in Range(NextRow(w, q)) : Keeps(kv, q, b)
  BY <1>1, NextRowKept
<1>3. PICK t : t = NextRow(w, q)
  OBVIOUS
<1>4. PICK l : l = Shown(w, s, q)
  OBVIOUS
<1>5. l \in 0..Len(t) * BlockSize
      /\ \A p \in 0..l - 1 : Address(t, p) \notin Sites(building, u)
  BY <1>3, <1>4 DEF Spared
<1>6. t \in BlockList /\ \A b \in Range(t) : Keeps(kv, q, b)
  BY <1>2, <1>3
<1>7. ASSUME NEW p \in 0..l - 1
      PROVE  Address(t, p) \notin Sites(o, v)
  <2>1. PICK a : a = Address(t, p)
    OBVIOUS
  <2>2. a[1] \in Range(t)
    <3>1. Len(t) \in Nat
      BY <1>6, LenProperties DEF BlockList
    <3>2. Len(t) * BlockSize \in Int
      BY <3>1, ScaledOrder
    <3>3. p \in 0..Len(t) * BlockSize - 1
      BY <1>5, <3>2
    <3> QED
      BY <1>6, <2>1, <3>3, AddressOf
  <2> SUFFICES ASSUME a \in Sites(o, v)
               PROVE  FALSE
    BY <2>1
  <2>3. a \notin Sites(building, u)
    BY <1>5, <2>1
  <2>4. PICK i \in DOMAIN kv'.table[r], m \in 0..BlockSize - 1 :
          a = <<kv'.table[r][i], m>> /\ i * BlockSize > PhysicalTokens(kv, r, start)
    BY <2>3, EnteredWhere
  <2>5. ~Keeps(kv, q, kv'.table[r][i])
    BY <2>4, EnteredElsewhere
  <2> QED
    BY <1>6, <2>2, <2>4, <2>5
<1> QED
  BY <1>3, <1>4, <1>5, <1>7 DEF Spared

LEMMA EnteredSparesItself ==
  ASSUME ExtentInv, ExtentInv', NEW r \in Req, NEW hits, NEW new, NEW start, NEW n, NEW kind,
         NEW c, Enters(r, hits, new, start, n, kind, c), NEW o \in Output, o = building',
         NEW v \in Snapshots, \A q \in Req : EntryFits(o, v, q),
         v.row[r] = kv'.table[r], v.active[r] = kv'.active[r], Copied(o) = {},
         NEW w \in Snapshots, NEW u, u = After(w, building),
         \A q \in Req \ {r} : v.row[q] = u.row[q] /\ v.active[q] = u.active[q],
         Fine(building, u), Agrees(kv, status, u),
         NEW s, Ends(w, s), Lined(w, s, r), Continues(r, hits, start, n, kind)
  PROVE  /\ w.row[r] # None /\ s[r] = start /\ start = computed[r]
         /\ Spared(o, w, v, s, r)
<1>1. building # None /\ building.sched[r] = None /\ kv.pending[r] = None
      /\ status[r] = "running" /\ start = computed[r]
  BY DEF Enters, Continues
<1>2. s[r] = computed[r]
  BY <1>1 DEF Ends, CaughtUp
<1>3. building.finished = {} /\ building.plans[r] = None /\ r \notin building.preempted
  BY <1>1 DEF ExtentInv, Extent, BatchAgrees
<1>4. AgreesFor(kv, status, w, r)
  <2>1. r \notin Reset(building)
    BY <1>1, <1>3 DEF Reset
  <2>2. /\ RowNext(w, building, r) = w.row[r] /\ ActiveNext(w, building, r) = w.active[r]
        /\ PendingNext(w, building, r) = w.pending[r]
    BY <1>1, <1>3, <2>1 DEF RowNext, ActiveNext, PendingNext
  <2>3. AgreesFor(kv, status, After(w, building), r)
    BY DEF Agrees
  <2> QED
    BY <2>2, <2>3, AfterIs DEF AgreesFor, NextRow, NextActive
<1>5. /\ w.row[r] # None /\ NextRow(w, r) \in BlockList
      /\ Shown(w, s, r) \in 0..Len(NextRow(w, r)) * BlockSize
      /\ Shown(w, s, r) = PhysicalTokens(kv, r, start)
  BY <1>1, <1>2, <1>4, ShownFits
<1>6. Stays(building, w, r)
  BY <1>1, <1>3, <1>5 DEF Stays
<1>7. Spared(building, w, u, s, r)
  BY <1>1, <1>6 DEF Ends, Onward
<1>8. kv.table[r] = NextRow(w, r)
  BY <1>1, <1>4 DEF AgreesFor
<1>9. PICK t : t = NextRow(w, r)
  OBVIOUS
<1>10. PICK l : l = Shown(w, s, r)
  OBVIOUS
<1>11. /\ t \in BlockList /\ t = kv.table[r] /\ Len(t) \in Nat /\ DOMAIN t = 1..Len(t)
       /\ Len(t) \in Int
  BY <1>5, <1>8, <1>9, LenProperties DEF BlockList
<1>13. /\ l \in 0..Len(t) * BlockSize /\ l = PhysicalTokens(kv, r, start)
       /\ \A p \in 0..l - 1 : Address(t, p) \notin Sites(building, u)
  BY <1>5, <1>7, <1>9, <1>10 DEF Spared
<1>12. ASSUME NEW p \in 0..l - 1
       PROVE  Address(t, p) \notin Sites(o, v)
  <2>1. PICK a : a = Address(t, p)
    OBVIOUS
  <2>2. p \in 0..Len(t) * BlockSize - 1
    <3>1. Len(t) * BlockSize \in Int
      BY <1>11, ScaledOrder
    <3> QED
      BY <1>13, <3>1
  <2>3. PICK j \in DOMAIN t, k \in 0..BlockSize - 1 :
          a = <<t[j], k>> /\ p = (j - 1) * BlockSize + k
    BY <1>11, <2>1, <2>2, AddressOf
  <2> SUFFICES ASSUME a \in Sites(o, v)
               PROVE  FALSE
    BY <2>1
  <2>4. a \notin Sites(building, u)
    BY <1>13, <2>1
  <2>5. PICK i \in DOMAIN kv'.table[r], m \in 0..BlockSize - 1 :
          /\ a = <<kv'.table[r][i], m>>
          /\ (i - 1) * BlockSize + m >= PhysicalTokens(kv, r, start)
          /\ i * BlockSize > PhysicalTokens(kv, r, start)
    BY <2>4, EnteredWhere
  <2>6. kv'.table[r][j] = t[j] /\ j \in DOMAIN kv'.table[r]
    <3>1. kv'.table[r] = kv.table[r] \o hits \o new
      <4>1. kv'.table = [kv.table EXCEPT ![r] = @ \o hits \o new]
        <5>1. Entered(r, hits, new, start, n, kind)
          BY EnteredIs
        <5> QED
          BY <5>1 DEF Entered
      <4>2. kv.table \in [Req -> BlockList]
        BY ExtentTypes DEF KV
      <4> QED
        BY <4>1, <4>2
    <3>2. hits \in BlockList /\ new \in BlockList
      BY DEF Enters
    <3>3. j \in 1..Len(t) /\ j \in 1..Len(t) + Len(hits) + Len(new)
      BY <1>11, <3>2, LenProperties DEF BlockList
    <3>4. DOMAIN kv'.table[r] = 1..Len(kv'.table[r])
          /\ Len(kv'.table[r]) = Len(t) + Len(hits) + Len(new)
      <4>1. kv' \in KV
        BY DEF ExtentInv, AccountingInv, TransactionInv, TypeOK
      <4> QED
        BY <1>11, <3>1, <3>2, <4>1, InTable, ThreeParts
    <3> QED
      BY <1>11, <3>3, <3>4, EnteredTable
  <2>7. i = j /\ m = k
    <3>1. kv'.table[r][j] = kv'.table[r][i] /\ m = k
      BY <2>3, <2>5, <2>6
    <3> QED
      BY <2>5, <2>6, <3>1, EnteredOwns
  <2> QED
    BY <1>13, <2>3, <2>5, <2>7
<1> QED
  BY <1>1, <1>2, <1>5, <1>9, <1>10, <1>12 DEF Spared

LEMMA EnteredDisplays ==
  ASSUME TrackInv, UnderWay, NEW T, Traces(T), NEW F, NEW S, Displays(T, F, S), ExtentInv',
         NEW r \in Req, NEW hits, NEW new, NEW start, NEW n, NEW kind, NEW c,
         Enters(r, hits, new, start, n, kind, c), n > 0, UNCHANGED wvars
  PROVE  Displays(T, F, S)'
<1>1. /\ building # None /\ UNCHANGED <<queue, ran, seen, finishedIds, resetIds>>
      /\ kind \in {"new", "resumed", "cached"}
      /\ Continues(r, hits, start, n, kind) \/ Starts(r, hits, start, n, kind)
      /\ status' = [status EXCEPT ![r] = "running"]
  BY DEF Enters, wvars
<1>2. ExtentInv /\ TypeOK /\ Len(queue) \in Nat /\ ran \in 0..Len(queue)
      /\ computed \in [Req -> Nat]
      /\ status \in [Req -> {"waiting", "running", "preempted", "finished"}]
  BY ExtentTypes, QueuedAre DEF TrackInv
<1>3. Entered(r, hits, new, start, n, kind)
  BY <1>2, EnteredIs
<1>4. /\ building \in Output /\ building' # None
      /\ computed' = [computed EXCEPT ![r] = start + n]
      /\ building'.sched = [building.sched EXCEPT ![r] =
           [start |-> start, n |-> n, kind |-> kind, blocks |-> hits \o new]]
      /\ building'.preempted = building.preempted /\ building'.finished = building.finished
      /\ building'.plans = building.plans
  BY <1>3, ExtentTypes DEF Entered
<1>5. PICK w : w = T[Len(queue)]
  OBVIOUS
<1>6. PICK s : s = S[Len(queue)]
  OBVIOUS
<1>7. PICK b : b = building
  OBVIOUS
<1>8. PICK o : o = building'
  OBVIOUS
<1>9. PICK u : u = After(w, b)
  OBVIOUS
<1>10. PICK v : v = After(w, o)
  OBVIOUS
<1>11. w \in Snapshots /\ Fine(b, u) /\ Agrees(kv, status, u)
  <2>1. T[Len(queue)] \in Snapshots /\ Reaches(kv, status, building, T[Len(queue)])
    BY <1>2, FollowsTypes DEF Traces
  <2>2. Reaches(kv, status, b, w)
    BY <1>5, <1>7, <2>1
  <2> QED
    BY <1>1, <1>5, <1>7, <1>9, <2>1, <2>2 DEF Reaches
<1>12. v \in Snapshots /\ \A q \in Req : EntryFits(o, v, q)
  <2>1. Traces(T)'
    BY EnteredTracks
  <2>2. Reaches(kv', status', building', T[Len(queue')])
    BY <2>1 DEF Traces
  <2>3. Reaches(kv', status', o, w)
    BY <1>1, <1>5, <1>8, <2>2
  <2> QED
    BY <1>4, <1>8, <1>10, <2>3 DEF Reaches, Fine
<1>13. Ends(w, s) /\ \A q \in Req : Lined(w, s, q)
  <2>1. Len(queue) \in ran..Len(queue)
    BY <1>2
  <2> QED
    BY <1>5, <1>6, <2>1 DEF Displays, Leads
<1>14. b.finished = {} /\ b.plans[r] = None /\ b.sched[r] = None /\ o.finished = {}
       /\ (r \in b.preempted => status[r] # "running") /\ o.preempted = b.preempted
       /\ \A q \in Req : o.plans[q] = None
  BY <1>1, <1>2, <1>4, <1>7, <1>8 DEF ExtentInv, Extent, BatchAgrees, Enters
<1>15. /\ v.row[r] = kv'.table[r] /\ v.active[r] = kv'.active[r]
       /\ \A q \in Req \ {r} : v.row[q] = u.row[q] /\ v.active[q] = u.active[q]
  <2>1. RowNext(w, o, r) = kv'.table[r] /\ ActiveNext(w, o, r) = kv'.active[r]
    <3>1. AgreesFor(kv, status, After(w, building), r)
      BY <1>7, <1>9, <1>11 DEF Agrees
    <3> QED
      BY <1>2, <1>8, <1>11, <3>1, EnteredRequest
  <2>2. \A q \in Req \ {r} : RowNext(w, o, q) = RowNext(w, b, q)
                             /\ ActiveNext(w, o, q) = ActiveNext(w, b, q)
    BY <1>2, <1>7, <1>8, EnteredOther
  <2> QED
    BY <1>9, <1>10, <2>1, <2>2, AfterIs
<1>16. Copied(o) = {}
  BY <1>14, NothingCopied
<1>17. o \in Output /\ o # None
  <2>1. building' \in Output \cup {None}
    BY DEF ExtentInv, AccountingInv, TransactionInv, TypeOK
  <2> QED
    BY <1>4, <1>8, <2>1
<1>18. /\ o.sched[r] # None /\ o.sched[r].start = start /\ o.sched[r].n = n
       /\ o.sched[r].kind = kind
       /\ \A q \in Req \ {r} : o.sched[q] = b.sched[q]
  <2>1. o.sched[r] # None
    BY <1>2, <1>8, EnteredEntry
  <2>2. b.sched \in [Req -> Item \cup {None}]
    BY <1>4, <1>7 DEF Output
  <2> QED
    BY <1>4, <1>7, <1>8, <2>1, <2>2
<1>19. Continues(r, hits, start, n, kind) =>
         w.row[r] # None /\ s[r] = start /\ start = computed[r] /\ Spared(o, w, v, s, r)
  BY <1>2, <1>7, <1>8, <1>9, <1>11, <1>12, <1>13, <1>15, <1>16, <1>17, EnteredSparesItself
<1>20. kind = "cached" => Continues(r, hits, start, n, kind)
  BY <1>1 DEF Starts
<1>21. ASSUME NEW q \in Req, q # r, status[q] = "running", Stays(b, w, q), Spared(b, w, u, s, q)
       PROVE  Spared(o, w, v, s, q)
  BY <1>2, <1>7, <1>8, <1>9, <1>11, <1>12, <1>15, <1>16, <1>17, <1>21, EnteredSparesOthers
<1>22. ASSUME NEW q \in Req
       PROVE  LeftBehind(w, q)' /\ CaughtUp(s, q)' /\ Onward(w, s, q)'
  <2>1. LeftBehind(w, q) /\ CaughtUp(s, q) /\ Onward(w, s, q)
    BY <1>13 DEF Ends
  <2>2. q # r => status'[q] = status[q] /\ computed'[q] = computed[q] /\ o.sched[q] = b.sched[q]
    BY <1>1, <1>2, <1>4, <1>18
  <2>3. status'[r] = "running"
    BY <1>1, <1>2
  <2>4. LeftBehind(w, q)'
    BY <1>1, <1>4, <2>1, <2>2, <2>3 DEF LeftBehind
  <2>5. CaughtUp(s, q)'
    BY <1>1, <1>7, <1>8, <1>17, <1>18, <2>1, <2>2 DEF CaughtUp
  <2>6. ASSUME status'[q] = "running", Stays(o, w, q)
        PROVE  Spared(o, w, v, s, q)
    <3>1. CASE q = r
      <4>1. kind = "cached"
        BY <1>18, <2>6, <3>1 DEF Stays
      <4> QED
        BY <1>19, <1>20, <3>1, <4>1
    <3>2. CASE q # r
      <4>1. Stays(b, w, q) /\ status[q] = "running"
        BY <1>14, <2>2, <2>6, <3>2 DEF Stays
      <4>2. Spared(b, w, u, s, q)
        BY <1>1, <1>7, <1>9, <2>1, <4>1 DEF Onward
      <4> QED
        BY <1>21, <3>2, <4>1, <4>2
    <3> QED
      BY <3>1, <3>2
  <2>7. ASSUME o.sched[q] # None
        PROVE  /\ o.sched[q].n > 0
               /\ o.sched[q].kind = "cached" => Resumes(o, w, s, q)
    <3>1. CASE q = r
      <4>1. ASSUME kind = "cached"
            PROVE  Resumes(o, w, s, r)
        <5>1. Continues(r, hits, start, n, kind) /\ status[r] = "running"
          BY <1>20, <4>1 DEF Continues
        <5>2. r \notin Reset(o)
          BY <1>14, <1>18, <4>1, <5>1 DEF Reset
        <5>3. computed[r] > 0
          BY <5>1 DEF UnderWay
        <5> QED
          BY <1>18, <1>19, <5>1, <5>2, <5>3 DEF Resumes
      <4> QED
        BY <1>18, <3>1, <4>1
    <3>2. CASE q # r
      <4>1. b.sched[q] # None /\ o.sched[q] = b.sched[q]
        BY <2>2, <2>7, <3>2
      <4>2. b.sched[q].n > 0 /\ (b.sched[q].kind = "cached" => Resumes(b, w, s, q))
        BY <1>1, <1>7, <2>1, <4>1 DEF Onward
      <4>3. q \in Reset(o) <=> q \in Reset(b)
        BY <1>14, <4>1 DEF Reset
      <4> QED
        BY <4>1, <4>2, <4>3 DEF Resumes
    <3> QED
      BY <3>1, <3>2
  <2>8. Onward(w, s, q)'
    BY <1>8, <1>10, <2>6, <2>7 DEF Onward
  <2> QED
    BY <2>4, <2>5, <2>8
<1>23. Ends(T[Len(queue)], S[Len(queue)])'
  BY <1>1, <1>5, <1>6, <1>22 DEF Ends, LeftBehind, CaughtUp, Onward
<1>24. Leads(T, F, S)'
  BY <1>1, SameLeads DEF Displays
<1> QED
  BY <1>23, <1>24 DEF Displays

(* A finished schedule: what is seen behind the batch o.                    *)
LEMMA ClosedReserves ==
  ASSUME ExtentInv', NEW A, NEW dest, NEW o, Closes(A, dest, o), NEW q \in Req, NEW r \in Req,
         NEW b, o.plans[q] # None, b \in Range(o.plans[q].dest),
         kv'.pending[r] # None, b \in Range(kv'.pending[r].plan.dest)
  PROVE  q = r
<1>1. kv'.pending[q] # None /\ b \in Range(kv'.pending[q].plan.dest)
  BY DEF Closes
<1>2. <<q, Reserved>> \in Secret(kv') /\ b \in BlocksAt(kv', <<q, Reserved>>)
  BY <1>1, PlaceTypes, WhatIsAt DEF Secret
<1>3. <<r, Reserved>> \in Places(Req) /\ b \in BlocksAt(kv', <<r, Reserved>>)
  BY PlaceTypes, WhatIsAt
<1>4. Exclusive(kv')
  BY DEF ExtentInv, AccountingInv, Accounted
<1>5. <<r, Reserved>> = <<q, Reserved>>
  BY <1>2, <1>3, <1>4 DEF Exclusive
<1> QED
  BY <1>5

LEMMA ClosedSeparate ==
  ASSUME ExtentInv', NEW A, NEW dest, NEW o, Closes(A, dest, o)
  PROVE  Separate(o)
<1> SUFFICES ASSUME NEW q \in PlansOf(o), NEW r \in PlansOf(o),
                    NEW i \in DOMAIN o.plans[q].dest, NEW j \in DOMAIN o.plans[r].dest,
                    o.plans[q].dest[i] = o.plans[r].dest[j]
             PROVE  q = r /\ i = j
  BY DEF Separate
<1>1. q \in Req /\ r \in Req /\ o.plans[q] # None /\ o.plans[r] # None
  BY DEF PlansOf
<1>2. PICK b : b = o.plans[q].dest[i]
  OBVIOUS
<1>3. r \in A /\ kv'.pending[r] # None /\ o.plans[r] = kv'.pending[r].plan
      /\ kv'.pending[r].plan = [semantic |-> computed[r], source |-> kv.table[r],
                                dest |-> dest[r]]
      /\ dest[r] \in BlockList /\ Ascending(dest[r]) /\ Range(dest[r]) \subseteq Block
  BY <1>1 DEF Closes
<1>4. o.plans[r].dest = dest[r]
  BY <1>3
<1>5. b \in Range(o.plans[q].dest) /\ b \in Range(kv'.pending[r].plan.dest)
  BY <1>2, <1>3 DEF Range
<1>6. q = r
  BY <1>1, <1>3, <1>5, ClosedReserves
<1>7. i \in DOMAIN dest[r] /\ j \in DOMAIN dest[r] /\ dest[r][i] = dest[r][j]
  BY <1>4, <1>6
<1>8. DOMAIN dest[r] = 1..Len(dest[r]) /\ dest[r][i] \in Int
  <2>1. dest[r][i] \in Block
    BY <1>3, <1>7 DEF Range
  <2> QED
    BY <1>3, <2>1, LenProperties, BlockAssumption DEF BlockList
<1>9. i = j
  <2>1. i < j => dest[r][i] < dest[r][j]
    BY <1>3, <1>7 DEF Ascending
  <2>2. j < i => dest[r][j] < dest[r][i]
    BY <1>3, <1>7 DEF Ascending
  <2>3. i \in Int /\ j \in Int
    BY <1>7, <1>8
  <2> QED
    BY <1>7, <1>8, <2>1, <2>2, <2>3
<1> QED
  BY <1>6, <1>9

(* What the batches lead to once o is the last of them.                     *)
LEMMA ClosedEnds ==
  ASSUME ExtentInv, building # None, building' = None, UNCHANGED <<status, computed>>,
         NEW A, NEW dest, NEW o, Closes(A, dest, o),
         NEW w, NEW v, v = After(w, o), NEW s, Ends(w, s), NEW z, z = SeenNext(o, s)
  PROVE  Ends(v, z)'
<1> SUFFICES ASSUME NEW r \in Req
             PROVE  LeftBehind(v, r)' /\ CaughtUp(z, r)'
  BY DEF Ends, Onward
<1>1. /\ o.sched = building.sched /\ o.finished = finishedIds
      /\ o.preempted = building.preempted \cup resetIds
  BY DEF Closes
<1>2. LeftBehind(w, r) /\ CaughtUp(s, r)
  BY DEF Ends
<1>3. building.sched[r] # None => status[r] = "running"
  BY ExtentTypes DEF TransactionInv, BatchRuns
<1>4. LeftBehind(v, r)'
  <2> SUFFICES ASSUME status[r] # "running", v.row[r] # None
               PROVE  FALSE
    BY DEF LeftBehind
  <2>1. o.sched[r] = None /\ v.row[r] = RowNext(w, o, r)
    BY <1>1, <1>3, AfterIs
  <2>2. w.row[r] # None /\ r \notin o.finished \cup o.preempted
    BY <2>1 DEF RowNext
  <2> QED
    BY <1>1, <1>2, <2>2 DEF LeftBehind
<1>5. CaughtUp(z, r)'
  <2> SUFFICES ASSUME status[r] = "running"
               PROVE  z[r] = computed[r]
    BY DEF CaughtUp
  <2>1. CASE o.sched[r] # None
    <3>1. EntryAgrees(r, building.sched[r])
      BY <1>1, <2>1 DEF ExtentInv, Extent, BatchAgrees
    <3>2. End(o, r) = computed[r]
      BY <1>1, <3>1 DEF EntryAgrees, End
    <3> QED
      BY <2>1, <3>2 DEF SeenNext
  <2>2. CASE o.sched[r] = None
    <3>1. r \notin building.preempted \cup resetIds \cup finishedIds
      BY <1>1, <2>2, ResetKeeps
    <3>2. z[r] = s[r]
      BY <1>1, <2>2, <3>1 DEF SeenNext
    <3> QED
      BY <1>1, <1>2, <2>2, <3>2 DEF CaughtUp
  <2> QED
    BY <2>1, <2>2
<1> QED
  BY <1>4, <1>5

(* The state that a fine batch leads to is in line with what it has run.    *)
LEMMA LinedNext ==
  ASSUME NEW o \in Output, NEW w, NEW v \in Snapshots, v = After(w, o), Fine(o, v),
         NEW s, NEW r \in Req, Lined(w, s, r)
  PROVE  Lined(v, SeenNext(o, s), r)
<1> SUFFICES ASSUME v.pending[r] # None
             PROVE  v.row[r] # None /\ SeenNext(o, s)[r] = v.pending[r].semantic
  BY DEF Lined
<1>1. v.pending[r] = PendingNext(w, o, r) /\ v.row[r] = RowNext(w, o, r)
  BY AfterIs
<1>2. SeenNext(o, s)[r] = IF o.sched[r] # None THEN End(o, r)
                          ELSE IF r \in o.finished \cup o.preempted THEN 0 ELSE s[r]
  BY DEF SeenNext
<1>3. CASE o.plans[r] # None
  <2>1. v.pending[r].semantic = o.plans[r].semantic
    BY <1>1, <1>3 DEF PendingNext, Commitment
  <2>2. o.sched[r] # None /\ o.plans[r].semantic = End(o, r) /\ v.row[r] \in BlockList
    BY <1>3 DEF Fine, PlanFits, EntryFits
  <2> QED
    BY <1>2, <2>1, <2>2, WorkerNoneAssumption
<1>4. CASE o.plans[r] = None
  <2>1. r \notin Reset(o) /\ o.sched[r] = None /\ w.pending[r] = v.pending[r]
    BY <1>1, <1>4 DEF PendingNext
  <2>2. r \notin o.finished \cup o.preempted
    BY <2>1 DEF Reset
  <2>3. v.row[r] = w.row[r]
    BY <1>1, <2>1, <2>2 DEF RowNext
  <2> QED
    BY <1>2, <2>1, <2>2, <2>3 DEF Lined
<1> QED
  BY <1>3, <1>4

(* What was spared by the batch being built is spared by the finished one.  *)
LEMMA ClosedSpares ==
  ASSUME ExtentInv, ExtentInv', building # None, NEW A, NEW dest, NEW o, Closes(A, dest, o),
         NEW w \in Snapshots, NEW u, u = After(w, building), NEW v, v = After(w, o),
         Fine(building, u), Agrees(kv, status, u), Sites(o, v) = Sites(building, u),
         NEW s, NEW r \in Req, status[r] = "running", Stays(building, w, r),
         Spared(building, w, u, s, r)
  PROVE  Spared(o, w, v, s, r)
<1>1. /\ NextRow(w, r) \in BlockList /\ \A b \in Range(NextRow(w, r)) : Keeps(kv, r, b)
  BY NextRowKept
<1>2. PICK t : t = NextRow(w, r)
  OBVIOUS
<1>3. PICK l : l = Shown(w, s, r)
  OBVIOUS
<1>4. /\ l \in 0..Len(t) * BlockSize
      /\ \A p \in 0..l - 1 : Address(t, p) \notin Sites(o, v)
  BY <1>2, <1>3 DEF Spared
<1>5. t \in BlockList /\ \A b \in Range(t) : Keeps(kv, r, b)
  BY <1>1, <1>2
<1>6. ASSUME NEW b, Keeps(kv, r, b)
      PROVE  b \notin Copied(o)
  <2>1. CASE b \in Range(kv.table[r])
    <3>1. kv'.table = kv.table
      BY DEF Closes
    <3> QED
      BY <2>1, <3>1, ClosedCopies
  <2>2. CASE kv.pending[r] # None /\ b \in Range(kv.pending[r].plan.dest)
    <3> SUFFICES ASSUME b \in Copied(o)
                 PROVE  FALSE
      OBVIOUS
    <3>1. PICK q \in Req : o.plans[q] # None /\ b \in Range(o.plans[q].dest)
      BY DEF Copied, PlansOf
    <3>2. q \in A /\ r \notin A
      BY <2>2, <3>1 DEF Closes
    <3>3. kv'.pending[r] = kv.pending[r]
      BY <3>2 DEF Closes
    <3>4. q = r
      BY <2>2, <3>1, <3>3, ClosedReserves
    <3> QED
      BY <3>2, <3>4
  <2> QED
    BY <1>6, <2>1, <2>2 DEF Keeps
<1>7. ASSUME NEW p \in 0..l - 1
      PROVE  Address(t, p)[1] \notin Copied(o)
  <2>1. Len(t) \in Nat
    BY <1>5, LenProperties DEF BlockList
  <2>2. Len(t) * BlockSize \in Int
    BY <2>1, ScaledOrder
  <2>3. p \in 0..Len(t) * BlockSize - 1
    BY <1>4, <2>2
  <2>4. Address(t, p)[1] \in Range(t)
    BY <1>5, <2>3, AddressOf
  <2> QED
    BY <1>5, <1>6, <2>4
<1> QED
  BY <1>2, <1>3, <1>4, <1>7 DEF Spared

LEMMA ClosedShows ==
  ASSUME ExtentInv, ExtentInv', building # None, UNCHANGED <<status, computed>>,
         NEW A, NEW dest, NEW o, Closes(A, dest, o),
         NEW w \in Snapshots, NEW u, u = After(w, building), NEW v, v = After(w, o),
         Fine(building, u), Agrees(kv, status, u),
         NEW s, Ends(w, s), NEW G, Covered(kv', status', computed', G), NEW r \in Req
  PROVE  Shows(o, w, v, s, G, r)
<1>1. /\ o.sched = building.sched /\ o.finished = finishedIds
      /\ o.preempted = building.preempted \cup resetIds /\ kv'.table = kv.table
      /\ \A q \in Req : status[q] = "running" => kv'.active[q] = kv.active[q]
  BY DEF Closes
<1>2. \A q \in Req : building.sched[q] # None => status[q] = "running"
  BY ExtentTypes DEF TransactionInv, BatchRuns
<1>3. ASSUME NEW q \in Req, building.sched[q] # None
      PROVE  /\ v.row[q] = u.row[q] /\ v.active[q] = u.active[q]
             /\ v.row[q] = kv.table[q] /\ v.active[q] = kv.active[q]
  <2>1. status[q] = "running"
    BY <1>2, <1>3
  <2>2. RowNext(w, building, q) = kv.table[q] /\ ActiveNext(w, building, q) = kv.active[q]
    BY <1>3, BatchRows
  <2>3. RowNext(w, o, q) = RowNext(w, building, q)
        /\ ActiveNext(w, o, q) = ActiveNext(w, building, q)
    BY <2>1, ClosedRequest
  <2> QED
    BY <2>2, <2>3, AfterIs
<1>4. Sites(o, v) = Sites(building, u)
  BY <1>1, <1>3, SameWrites
<1>5. LeftBehind(w, r) /\ Onward(w, s, r)
  BY DEF Ends
<1>6. ASSUME Stays(o, w, r)
      PROVE  Spared(o, w, v, s, r)
  <2>1. building.finished = {}
    BY DEF ExtentInv, Extent, BatchAgrees
  <2>2. status[r] = "running" /\ Stays(building, w, r)
    <3>1. CASE o.sched[r] # None
      BY <1>1, <1>2, <1>6, <3>1 DEF Stays
    <3>2. CASE o.sched[r] = None
      BY <1>1, <1>5, <1>6, <2>1, <3>2 DEF Stays, LeftBehind
    <3> QED
      BY <3>1, <3>2
  <2>3. Spared(building, w, u, s, r)
    BY <1>5, <2>2 DEF Onward
  <2> QED
    BY <1>4, <2>2, <2>3, ClosedSpares
<1>7. ASSUME o.sched[r] # None
      PROVE  /\ o.sched[r].n > 0 /\ Clear(o, v, r)
             /\ o.sched[r].kind = "cached" => Resumes(o, w, s, r)
             /\ o.sched[r].kind # "cached" => Begins(o, v, G, r)
  <2>1. /\ building.sched[r] # None /\ status[r] = "running" /\ v.row[r] = kv.table[r]
        /\ v.active[r] = kv.active[r] /\ EntryAgrees(r, building.sched[r])
    BY <1>1, <1>2, <1>3, <1>7 DEF ExtentInv, Extent, BatchAgrees
  <2>2. o.sched[r].n > 0
    BY <1>1, <1>5, <2>1 DEF Onward
  <2>3. Clear(o, v, r)
    BY <1>1, <2>1, ClosedCopies DEF Clear
  <2>4. ASSUME o.sched[r].kind = "cached"
        PROVE  Resumes(o, w, s, r)
    <3>1. Resumes(building, w, s, r)
      BY <1>1, <1>5, <2>1, <2>4 DEF Onward
    <3>2. r \notin Reset(o)
      <4>1. r \notin building.preempted \cup resetIds \cup finishedIds
        BY <1>1, <2>1, <2>4, ResetKeeps
      <4> QED
        BY <1>1, <2>4, <4>1 DEF Reset
    <3> QED
      BY <1>1, <3>1, <3>2 DEF Resumes
  <2>5. ASSUME o.sched[r].kind # "cached"
        PROVE  Begins(o, v, G, r)
    <3>1. kv.active[r] = None /\ End(o, r) = computed[r]
      BY <1>1, <2>1, <2>5 DEF EntryAgrees, End
    <3>2. OriginalKnown(kv', computed', G, r)
      BY <1>1, <2>1, <3>1 DEF Covered
    <3>3. v.active[r] = None /\ v.row[r] = kv'.table[r] /\ computed'[r] = End(o, r)
      BY <1>1, <2>1, <3>1
    <3> QED
      BY <3>2, <3>3 DEF OriginalKnown, Begins
  <2> QED
    BY <2>2, <2>3, <2>4, <2>5
<1> QED
  BY <1>6, <1>7 DEF Shows

LEMMA SeenNextType ==
  ASSUME NEW o \in Output, NEW v, \A r \in Req : EntryFits(o, v, r), NEW s \in [Req -> Nat]
  PROVE  SeenNext(o, s) \in [Req -> Nat]
<1>1. ASSUME NEW r \in Req, o.sched[r] # None
      PROVE  End(o, r) \in Nat
  <2>1. o.sched[r].start >= 0 /\ o.sched[r].n >= 0
    BY <1>1 DEF EntryFits
  <2> QED
    BY <1>1, <2>1, OutputFields DEF End
<1> QED
  BY <1>1 DEF SeenNext

(* U is T with one more element, x, for the batch that joins the queue.     *)
Longer(U, T, x) ==
  /\ U = [i \in DOMAIN U |-> U[i]] /\ DOMAIN U = ran..Len(queue) + 1 /\ U[Len(queue) + 1] = x
  /\ \A i \in ran..Len(queue) : U[i] = T[i]

LEMMA LongerIs ==
  ASSUME Len(queue) \in Nat, ran \in 0..Len(queue), NEW T, NEW x, NEW U,
         U = [i \in ran..Len(queue) + 1 |-> IF i = Len(queue) + 1 THEN x ELSE T[i]]
  PROVE  Longer(U, T, x)
<1>1. Len(queue) + 1 \in ran..Len(queue) + 1
      /\ \A i \in ran..Len(queue) : i \in ran..Len(queue) + 1 /\ i # Len(queue) + 1
  OBVIOUS
<1> QED
  BY <1>1 DEF Longer

LEMMA EndScheduleDisplays ==
  ASSUME TrackInv, NEW T, Traces(T), NEW F, NEW S, Displays(T, F, S),
         ExtentInv', EndSchedule, UNCHANGED wvars,
         NEW A, NEW dest, NEW o, Closes(A, dest, o), NEW U, NEW G, NEW Z,
         Longer(U, T, After(T[Len(queue)], o)), Longer(Z, S, SeenNext(o, S[Len(queue)])),
         NEW x, Longer(G, F, x), Traces(U)', Recalls(U, G)'
  PROVE  Displays(U, G, Z)'
<1> DEFINE n == Len(queue) + 1
<1>1. /\ building # None /\ building' = None /\ ran' = ran /\ seen' = seen
      /\ status' = status /\ computed' = computed
  BY DEF EndSchedule, wvars
<1>2. ExtentInv /\ TypeOK /\ queue \in Seq(Output) /\ Len(queue) \in Nat /\ ran \in 0..Len(queue)
  BY ExtentTypes, QueuedAre DEF TrackInv, TypeOK
<1>3. PICK w : w = T[Len(queue)]
  OBVIOUS
<1>4. PICK s : s = S[Len(queue)]
  OBVIOUS
<1>5. PICK u : u = After(w, building)
  OBVIOUS
<1>6. PICK v : v = After(w, o)
  OBVIOUS
<1>7. PICK z : z = SeenNext(o, s)
  OBVIOUS
<1>8. w \in Snapshots /\ Fine(building, u) /\ Agrees(kv, status, u)
  BY <1>1, <1>2, <1>3, <1>5, FollowsTypes DEF Traces, Reaches
<1>9. /\ Len(queue') = n /\ queue'[n] = o /\ \A i \in 1..Len(queue) : queue'[i] = queue[i]
      /\ o \in Output
  <2>1. queue' = Append(queue, o)
    BY DEF Closes
  <2>2. /\ DOMAIN queue' = 1..n /\ Len(queue') = n /\ queue'[n] = o
        /\ \A i \in 1..Len(queue) : queue'[i] = queue[i]
    BY <1>2, <2>1
  <2>3. queue' \in Seq(Output) /\ n \in DOMAIN queue'
    BY <1>2, <2>2 DEF ExtentInv, AccountingInv, TransactionInv, TypeOK
  <2> QED
    BY <2>2, <2>3
<1>10. /\ U[n] = v /\ Z[n] = z
       /\ \A i \in ran..Len(queue) : U[i] = T[i] /\ G[i] = F[i] /\ Z[i] = S[i]
  BY <1>3, <1>4, <1>6, <1>7 DEF Longer
<1>11. Leads(T, F, S) /\ Ends(w, s) /\ Len(queue) \in ran..Len(queue)
       /\ \A r \in Req : Lined(w, s, r)
  BY <1>2, <1>3, <1>4 DEF Displays, Leads
<1>12. v \in Snapshots /\ Fine(o, v)
  <2>1. Follows(U)'
    BY DEF Traces
  <2>2. n \in ran + 1..n /\ n \in ran..n
    BY <1>2
  <2> QED
    BY <1>1, <1>9, <1>10, <2>1, <2>2 DEF Follows
<1>13. PICK H : H = G[n]
  OBVIOUS
<1>14. Covered(kv', status', computed', H)
  BY <1>1, <1>9, <1>13 DEF Recalls, Foreseen
<1>15. \A r \in Req : Shows(o, w, v, s, H, r)
  BY <1>1, <1>2, <1>5, <1>6, <1>8, <1>11, <1>14, ClosedShows
<1>16. s \in [Req -> Nat]
  BY <1>4, <1>11 DEF Leads
<1>17. z \in [Req -> Nat]
  BY <1>7, <1>9, <1>12, <1>16, SeenNextType DEF Fine
<1>18. \A r \in Req : Lined(v, z, r)
  BY <1>6, <1>7, <1>9, <1>11, <1>12, LinedNext
<1>19. Z \in [ran..n -> [Req -> Nat]] /\ Z[ran] = seen
  <2>1. \A i \in ran..n : i # n => i \in ran..Len(queue)
    BY <1>2
  <2>2. \A i \in ran..n : Z[i] \in [Req -> Nat]
    BY <1>10, <1>11, <1>17, <2>1 DEF Leads
  <2>3. DOMAIN Z = ran..n /\ Z = [i \in DOMAIN Z |-> Z[i]]
    BY DEF Longer
  <2>4. Z[ran] = S[ran]
    BY <1>2, <1>10
  <2> QED
    BY <1>11, <2>2, <2>3, <2>4 DEF Leads
<1>20. \A i \in ran..n : \A r \in Req : Lined(U[i], Z[i], r)
  <2>1. \A i \in ran..n : i # n => i \in ran..Len(queue)
    BY <1>2
  <2> QED
    BY <1>10, <1>11, <1>18, <2>1 DEF Leads
<1>21. ASSUME NEW i \in ran + 1..n
       PROVE  /\ Z[i] = SeenNext(queue'[i], Z[i - 1]) /\ Separate(queue'[i])
              /\ \A r \in Req : Shows(queue'[i], U[i - 1], U[i], Z[i - 1], G[i], r)
  <2>1. CASE i = n
    <3>1. U[i - 1] = w /\ Z[i - 1] = s
      BY <1>2, <1>3, <1>4, <1>10, <1>11, <2>1
    <3>2. Separate(o)
      BY ClosedSeparate
    <3> QED
      BY <1>7, <1>9, <1>10, <1>13, <1>15, <2>1, <3>1, <3>2
  <2>2. CASE i # n
    <3>1. i \in ran + 1..Len(queue) /\ i \in 1..Len(queue) /\ i \in ran..Len(queue)
          /\ i - 1 \in ran..Len(queue)
      BY <1>2, <2>2
    <3>2. /\ S[i] = SeenNext(queue[i], S[i - 1]) /\ Separate(queue[i])
          /\ \A r \in Req : Shows(queue[i], T[i - 1], T[i], S[i - 1], F[i], r)
      BY <1>11, <3>1 DEF Leads
    <3> QED
      BY <1>9, <1>10, <3>1, <3>2
  <2> QED
    BY <2>1, <2>2
<1>22. Leads(U, G, Z)'
  BY <1>1, <1>9, <1>19, <1>20, <1>21 DEF Leads
<1>23. Ends(v, z)'
  BY <1>1, <1>2, <1>6, <1>7, <1>11, ClosedEnds
<1>24. Ends(U[Len(queue)], Z[Len(queue)])'
  BY <1>1, <1>9, <1>10, <1>23 DEF Ends, LeftBehind, CaughtUp, Onward
<1> QED
  BY <1>22, <1>24 DEF Displays

LEMMA NextDisplays ==
  ASSUME ViewInv, [SystemNext]_allvars
  PROVE  \E U, G, Z : Traces(U)' /\ Recalls(U, G)' /\ Displays(U, G, Z)'
<1>1. TrackInv /\ ExtentInv /\ UnderWay
  BY DEF ViewInv, TrackInv
<1>2. PICK T, F, S : Traces(T) /\ Recalls(T, F) /\ Displays(T, F, S)
  BY DEF ViewInv
<1>3. TrackInv' /\ ExtentInv'
  BY <1>1, NextTracks DEF TrackInv
<1>4. CASE Execute
  <2>1. PICK U : U = [i \in ran + 1..Len(queue) |-> T[i]]
    OBVIOUS
  <2>2. PICK G : G = [i \in ran + 1..Len(queue) |-> F[i]]
    OBVIOUS
  <2>3. PICK Z : Z = [i \in ran + 1..Len(queue) |-> S[i]]
    OBVIOUS
  <2>4. Traces(U)'
    BY <1>1, <1>2, <1>4, <2>1, ExecuteTracks
  <2>5. Recalls(U, G)'
    BY <1>1, <1>2, <1>4, <2>1, <2>2, ExecuteRecalls
  <2>6. Displays(U, G, Z)'
    BY <1>1, <1>2, <1>4, <2>1, <2>2, <2>3, ExecuteDisplays
  <2> QED
    BY <2>4, <2>5, <2>6
<1>5. CASE UNCHANGED wvars /\ SchedulerNext
  <2>1. CASE BeginSchedule
    <3>1. Traces(T)'
      BY <1>1, <1>2, <1>3, <1>5, <2>1, BeginScheduleTracks
    <3>2. Recalls(T, F)'
      BY <1>1, <1>2, <1>5, <2>1, BeginScheduleRecalls
    <3>3. Displays(T, F, S)'
      BY <1>1, <1>2, <1>5, <2>1, BeginScheduleDisplays
    <3> QED
      BY <3>1, <3>2, <3>3
  <2>2. ASSUME NEW r \in Req, NEW hits, NEW new, NEW start, NEW n, NEW kind, NEW c,
               Enters(r, hits, new, start, n, kind, c), n > 0
        PROVE  Traces(T)' /\ Recalls(T, F)' /\ Displays(T, F, S)'
    <3>1. Traces(T)'
      BY <1>1, <1>2, <1>3, <1>5, <2>2, EnteredTracks
    <3>2. Recalls(T, F)'
      BY <1>1, <1>2, <1>3, <1>5, <2>2, EnteredRecalls
    <3>3. Displays(T, F, S)'
      BY <1>1, <1>2, <1>3, <1>5, <2>2, EnteredDisplays
    <3> QED
      BY <3>1, <3>2, <3>3
  <2>3. ASSUME NEW r \in Req, Admit(r)
        PROVE  Traces(T)' /\ Recalls(T, F)' /\ Displays(T, F, S)'
    <3>1. PICK hits, new, n, kind, c :
            Enters(r, hits, new, Len(hits) * BlockSize, n, kind, c) /\ n > 0
      BY <1>1, <2>3, AdmitEnters
    <3> QED
      BY <2>2, <3>1
  <2>4. ASSUME NEW r \in Req, ScheduleRunning(r)
        PROVE  Traces(T)' /\ Recalls(T, F)' /\ Displays(T, F, S)'
    <3>1. PICK new, n, c : /\ Enters(r, <<>>, new, computed[r], n, "cached", c)
                           /\ computed[r] < Known(r) => n > 0
      BY <1>1, <2>4, ScheduleRunningEnters
    <3>2. n > 0
      BY <1>1, <2>4, <3>1 DEF UnderWay, ScheduleRunning, Schedulable
    <3> QED
      BY <2>2, <3>1, <3>2
  <2>5. ASSUME NEW r \in Req, Preempt(r)
        PROVE  Traces(T)' /\ Recalls(T, F)' /\ Displays(T, F, S)'
    <3>1. Traces(T)'
      BY <1>1, <1>2, <1>3, <1>5, <2>5, PreemptTracks
    <3>2. Recalls(T, F)'
      BY <1>1, <1>2, <1>5, <2>5, PreemptRecalls
    <3>3. Displays(T, F, S)'
      BY <1>1, <1>2, <1>5, <2>5, PreemptDisplays
    <3> QED
      BY <3>1, <3>2, <3>3
  <2>6. CASE EndSchedule
    <3>1. PICK A, dest, o : Closes(A, dest, o)
      BY <1>1, <2>6, EndScheduleCloses
    <3>2. PICK U : U = [i \in ran..Len(queue) + 1 |->
                          IF i = Len(queue) + 1 THEN After(T[Len(queue)], o) ELSE T[i]]
      OBVIOUS
    <3>3. PICK G : G = [i \in ran..Len(queue) + 1 |->
                          IF i = Len(queue) + 1 THEN Learnt(F[Len(queue)], o, U[i]) ELSE F[i]]
      OBVIOUS
    <3>4. PICK Z : Z = [i \in ran..Len(queue) + 1 |->
                          IF i = Len(queue) + 1 THEN SeenNext(o, S[Len(queue)]) ELSE S[i]]
      OBVIOUS
    <3>5. Traces(U)'
      BY <1>1, <1>2, <1>3, <1>5, <2>6, <3>1, <3>2, EndScheduleTracks
    <3>6. Recalls(U, G)'
      BY <1>1, <1>2, <1>3, <1>5, <2>6, <3>1, <3>2, <3>3, EndScheduleRecalls
    <3>7. Len(queue) \in Nat /\ ran \in 0..Len(queue)
      BY <1>1, ExtentTypes, QueuedAre
    <3>8. /\ Longer(U, T, After(T[Len(queue)], o))
          /\ Longer(Z, S, SeenNext(o, S[Len(queue)]))
      BY <3>2, <3>4, <3>7, LongerIs
    <3>9. PICK x : x = Learnt(F[Len(queue)], o, U[Len(queue) + 1])
      OBVIOUS
    <3>10. Longer(G, F, x)
      <4>1. G = [i \in ran..Len(queue) + 1 |-> IF i = Len(queue) + 1 THEN x ELSE F[i]]
        BY <3>3, <3>9
      <4> QED
        BY <3>7, <4>1, LongerIs
    <3>11. Displays(U, G, Z)'
      BY <1>1, <1>2, <1>3, <1>5, <2>6, <3>1, <3>5, <3>6, <3>8, <3>10, EndScheduleDisplays
    <3> QED
      BY <3>5, <3>6, <3>11
  <2>7. ASSUME NEW R \in SUBSET Req, UpdateFromOutput(R)
        PROVE  \E U, G, Z : Traces(U)' /\ Recalls(U, G)' /\ Displays(U, G, Z)'
    <3>1. PICK U : U = [i \in ran - 1..Len(queue) - 1 |-> T[i + 1]]
      OBVIOUS
    <3>2. PICK G : G = [i \in ran - 1..Len(queue) - 1 |-> F[i + 1]]
      OBVIOUS
    <3>3. PICK Z : Z = [i \in ran - 1..Len(queue) - 1 |-> S[i + 1]]
      OBVIOUS
    <3>4. Traces(U)'
      BY <1>1, <1>2, <1>5, <2>7, <3>1, UpdateFromOutputTracks
    <3>5. Recalls(U, G)'
      BY <1>1, <1>2, <1>5, <2>7, <3>1, <3>2, UpdateFromOutputRecalls
    <3>6. Displays(U, G, Z)'
      BY <1>1, <1>2, <1>5, <2>7, <3>1, <3>2, <3>3, UpdateFromOutputDisplays
    <3> QED
      BY <3>4, <3>5, <3>6
  <2>8. ASSUME NEW r \in Req, Abort(r)
        PROVE  Traces(T)' /\ Recalls(T, F)' /\ Displays(T, F, S)'
    <3>1. Traces(T)'
      BY <1>1, <1>2, <1>5, <2>8, AbortTracks
    <3>2. Recalls(T, F)'
      BY <1>1, <1>2, <1>5, <2>8, AbortRecalls
    <3>3. Displays(T, F, S)'
      BY <1>1, <1>2, <1>5, <2>8, AbortDisplays
    <3> QED
      BY <3>1, <3>2, <3>3
  <2>9. CASE ResetPrefixCache
    <3>1. Traces(T)'
      BY <1>1, <1>2, <1>5, <2>9, ResetPrefixCacheTracks
    <3>2. Recalls(T, F)'
      BY <1>1, <1>2, <1>5, <2>9, ResetPrefixCacheRecalls
    <3>3. Displays(T, F, S)'
      BY <1>1, <1>2, <1>5, <2>9, ResetPrefixCacheDisplays
    <3> QED
      BY <3>1, <3>2, <3>3
  <2>10. CASE Terminated
    <3>1. UNCHANGED <<kv, status, computed, building, queue, ran, mem, seen, finishedIds,
                      resetIds>> /\ UNCHANGED wvars
      BY <1>5, <2>10 DEF Terminated, vars, wvars
    <3>2. Traces(T)'
      BY <1>1, <1>2, <1>5, <3>1, SameTracks
    <3>3. Recalls(T, F)'
      BY <1>2, <3>1, SameRecalls
    <3>4. Displays(T, F, S)'
      BY <1>2, <3>1, SameDisplays
    <3> QED
      BY <3>2, <3>3, <3>4
  <2> QED
    BY <1>5, <2>1, <2>3, <2>4, <2>5, <2>6, <2>7, <2>8, <2>9, <2>10 DEF SchedulerNext, EngineNext
<1>6. CASE UNCHANGED allvars
  <2>1. UNCHANGED <<kv, status, computed, building, queue, ran, mem, seen, finishedIds,
                    resetIds>> /\ UNCHANGED wvars
    BY <1>6 DEF allvars, vars, wvars
  <2>2. Traces(T)'
    BY <1>1, <1>2, <2>1, SameTracks
  <2>3. Recalls(T, F)'
    BY <1>2, <2>1, SameRecalls
  <2>4. Displays(T, F, S)'
    BY <1>2, <2>1, SameDisplays
  <2> QED
    BY <2>2, <2>3, <2>4
<1> QED
  BY <1>4, <1>5, <1>6 DEF SystemNext

LEMMA NextViews == ViewInv /\ [SystemNext]_allvars => ViewInv'
<1> SUFFICES ASSUME ViewInv, [SystemNext]_allvars
             PROVE  ViewInv'
  OBVIOUS
<1>1. TrackInv /\ WorkerTypeOK /\ UnderWay
  BY DEF ViewInv
<1>2. TrackInv' /\ WorkerTypeOK' /\ UnderWay'
  BY <1>1, NextTracks, NextWorkerType, NextUnderWay
<1>3. \E U, G, Z : Traces(U)' /\ Recalls(U, G)' /\ Displays(U, G, Z)'
  BY NextDisplays
<1> QED
  BY <1>2, <1>3 DEF ViewInv

LEMMA InitViews == SystemInit => ViewInv
<1> SUFFICES ASSUME SystemInit
             PROVE  ViewInv
  OBVIOUS
<1>1. TrackInv /\ WorkerTypeOK
  BY InitTracks, InitWorkerType
<1>2. PICK T, F : Traces(T) /\ Recalls(T, F)
  BY InitRecalls DEF RecallInv
<1>3. /\ status = [r \in Req |-> "waiting"] /\ building = None /\ queue = <<>> /\ ran = 0
      /\ row = [r \in Req |-> None] /\ seen = [r \in Req |-> 0]
      /\ wpending = [r \in Req |-> None]
  BY DEF SystemInit, Init, WorkerInit
<1>4. UnderWay
  BY <1>3 DEF UnderWay
<1>5. PICK S : S = [i \in 0..0 |-> seen]
  OBVIOUS
<1>6. Len(queue) = 0 /\ S[0] = seen /\ T[0] = Snapshot
  BY <1>2, <1>3, <1>5 DEF Traces, Follows
<1>7. \A r \in Req : Snapshot.row[r] = None /\ Snapshot.pending[r] = None
  BY <1>3 DEF Snapshot
<1>8. \A r \in Req : Lined(T[0], S[0], r)
  BY <1>6, <1>7 DEF Lined
<1>9. Ends(T[0], S[0])
  BY <1>3, <1>6, <1>7 DEF Ends, LeftBehind, CaughtUp, Onward
<1>10. S \in [0..0 -> [Req -> Nat]]
  BY <1>3, <1>5
<1>11. Leads(T, F, S)
  <2>1. \A i \in 1..0 : FALSE
    OBVIOUS
  <2>2. \A i \in 0..0 : i = 0
    OBVIOUS
  <2> QED
    BY <1>3, <1>6, <1>8, <1>10, <2>1, <2>2 DEF Leads
<1>12. Displays(T, F, S)
  BY <1>6, <1>9, <1>11 DEF Displays
<1> QED
  BY <1>1, <1>2, <1>4, <1>12 DEF ViewInv

(* All batches in flight will find what they continue untouched, and what   *)
(* they begin behind an intact prefix.                                      *)
THEOREM ViewCorrect == System => []ViewInv
<1>1. SystemInit => ViewInv
  BY InitViews
<1>2. ViewInv /\ [SystemNext]_allvars => ViewInv'
  BY NextViews
<1> QED
  BY <1>1, <1>2, PTL DEF System

LEMMA NextIsLogical == ViewInv /\ [SystemNext]_allvars => [Logical!Batch]_(Logical!vars)
<1> SUFFICES ASSUME ViewInv, [SystemNext]_allvars
             PROVE  Logical!Batch \/ UNCHANGED Logical!vars
  OBVIOUS
<1>1. CASE Execute
  <2>1. PICK T, F, S : Traces(T) /\ Recalls(T, F) /\ Displays(T, F, S)
    BY DEF ViewInv
  <2>2. TrackInv /\ WorkerTypeOK /\ Leads(T, F, S)
    BY <2>1 DEF ViewInv, Displays
  <2> QED
    BY <1>1, <2>1, <2>2, ExecuteIsLogical
<1>2. CASE UNCHANGED wvars
  <2>1. UNCHANGED <<seen, row, mem, wpending, wactive>>
    BY <1>2 DEF wvars
  <2> QED
    BY <2>1 DEF Logical!vars, View, Blocks, Length
<1> QED
  BY <1>1, <1>2 DEF SystemNext, allvars, wvars

(* Scheduler and worker together implement the logical cache: a request     *)
(* only ever sees a cache of its own tokens that grows at the end and, now  *)
(* and then, shrinks to the positions that a plan keeps, in their order.    *)
THEOREM RefinementCorrect == System => CacheIsLogical
<1>1. SystemInit => Logical!Init
  BY DEF SystemInit, WorkerInit, View, Logical!Init
<1>2. System => [][Logical!Batch]_(Logical!vars)
  BY InitViews, NextViews, NextIsLogical, PTL DEF System
<1> QED
  BY <1>1, <1>2, PTL DEF System, CacheIsLogical, Logical!Spec
=============================================================================
