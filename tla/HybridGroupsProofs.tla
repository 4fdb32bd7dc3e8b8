------------------------- MODULE HybridGroupsProofs -------------------------
(***************************************************************************)
(* Proofs about HybridGroups, for every number of requests, groups, tokens *)
(* and drafts: the types, that the anchor of a plan or a compression is    *)
(* never a length that can roll back, that the pool's blocks are conserved *)
(* and never overdrawn, and that the table of every group covers exactly   *)
(* the tokens of its request in the lengths of the group.                  *)
(***************************************************************************)
EXTENDS HybridGroups, FiniteSetTheorems, TLAPS

----------------------------------------------------------------------------
(* Tables.                                                                  *)

(* A table has no block behind its end.                                     *)
Filled(t) == t.live \subseteq 1..t.size
Tables == [Group -> {t \in Table : Filled(t)}]

(* The types, with tables that are filled and drafts that can be rolled     *)
(* back.                                                                    *)
Inv ==
  /\ TypeOK
  /\ table \in [Req -> Tables]
  /\ phase = "out" =>
       \A r \in Req : batch[r] # None => computed[r] - batch[r].drafts \in Nat

(* Sizes of the configuration.                                              *)
LEMMA BlocksForType ==
  ASSUME NEW n \in Int, NEW g \in Group
  PROVE  BlocksFor(n, Page[g]) \in Int
BY GroupAssumption DEF BlocksFor

LEMMA KeepType == Keep \in Nat
<1>1. Page[Attention] \in Nat \ {0} /\ Budget \in Nat \ {0}
  BY GroupAssumption, ConfigAssumption
<1>2. ASSUME NEW p \in Nat \ {0}, NEW b \in Nat
      PROVE  (b + p - 1) \div p \in Nat
  <2>1. (b + p - 1) \in Nat BY <1>2
  <2> QED BY <2>1, <1>2
<1> QED BY <1>1, <1>2 DEF Keep, BlocksFor

LEMMA EmptyType == [g \in Group |-> Empty] \in Tables
BY DEF Tables, Table, Empty, Filled

(* The token count of a group is an integer.                                *)
LEMMA GroupTokensType ==
  ASSUME active \in [Req -> Active \cup {None}], NEW r \in Req, NEW g \in Group, NEW n \in Int
  PROVE  GroupTokens(r, g, n) \in Int
BY DEF GroupTokens, PhysicalTokens, Active

(* Trimming and allocating keep tables filled: the one takes blocks, the    *)
(* other adds what was counted.                                             *)
LEMMA SkippedType ==
  ASSUME NEW t \in Table, Filled(t), NEW g \in Group, NEW n
  PROVE  /\ Skipped(t, g, n) \in Table /\ Filled(Skipped(t, g, n))
         /\ Skipped(t, g, n).live \subseteq t.live
<1>1. CASE g = Attention BY <1>1 DEF Skipped
<1>2. CASE g # Attention
  <2>1. Skipped(t, g, n) =
          [size |-> t.size, live |-> {i \in t.live : i >= StateEntry(g, n)}]
    BY <1>2 DEF Skipped, Table
  <2> QED BY <2>1 DEF Table, Filled
<1> QED BY <1>1, <1>2

LEMMA TrimmedType ==
  ASSUME Inv, NEW r \in Req
  PROVE  /\ Trimmed(r) \in Tables
         /\ Blocks(Trimmed(r)) \subseteq Blocks(table[r])
<1> DEFINE T == [g \in Group |-> Skipped(table[r][g], g, GroupTokens(r, g, computed[r]))]
<1>1. Trimmed(r) = T BY DEF Trimmed
<1>2. ASSUME NEW g \in Group
      PROVE  T[g] \in Table /\ Filled(T[g]) /\ T[g].live \subseteq table[r][g].live
  BY SkippedType DEF Inv, Tables
<1>3. T \in Tables BY <1>2 DEF Tables
<1>4. Blocks(T) \subseteq Blocks(table[r])
  <2> HIDE DEF T
  <2> QED BY <1>2 DEF Blocks
<1> QED BY <1>1, <1>3, <1>4

LEMMA AllocatedType ==
  ASSUME Inv, NEW r \in Req, NEW T \in Tables, NEW n \in Int
  PROVE  /\ Allocated(r, T, n) \in Tables
         /\ Blocks(Allocated(r, T, n)) = Blocks(T) \cup
              UNION {{g} \X Added(T[g], g, GroupTokens(r, g, Wanted(g, n))) : g \in Group}
<1> DEFINE new(g) == Added(T[g], g, GroupTokens(r, g, Wanted(g, n)))
           U == [g \in Group |-> [size |-> T[g].size + Cardinality(new(g)),
                                  live |-> T[g].live \cup new(g)]]
<1>1. Allocated(r, T, n) = U BY DEF Allocated
<1>2. ASSUME NEW g \in Group PROVE U[g] \in Table /\ Filled(U[g])
  <2>1. Wanted(g, n) \in Int BY ConfigAssumption DEF Wanted
  <2>2. GroupTokens(r, g, Wanted(g, n)) \in Int
    BY <2>1, GroupTokensType DEF Inv, TypeOK
  <2> DEFINE e == Required(g, GroupTokens(r, g, Wanted(g, n)))
             s == T[g].size
  <2>3. e \in Int BY <2>2, BlocksForType DEF Required
  <2>4. s \in Nat /\ T[g].live \subseteq 1..s BY DEF Tables, Table, Filled
  <2>5. new(g) = s + 1 .. e BY DEF Added
  <2>6. Cardinality(new(g)) = IF s + 1 > e THEN 0 ELSE e - (s + 1) + 1
    <3> HIDE DEF s, e, new
    <3> QED BY <2>3, <2>4, <2>5, FS_Interval
  <2>7. U[g] = [size |-> s + Cardinality(new(g)), live |-> T[g].live \cup new(g)]
    OBVIOUS
  <2> HIDE DEF s, e, new, U
  <2> QED BY <2>3, <2>4, <2>5, <2>6, <2>7 DEF Table, Filled
<1>3. U \in Tables
  <2>1. DOMAIN U = Group /\ U = [g \in Group |-> U[g]] OBVIOUS
  <2> HIDE DEF U
  <2> QED BY <1>2, <2>1 DEF Tables
<1>4. Blocks(U) = Blocks(T) \cup UNION {{g} \X new(g) : g \in Group}
  <2>1. ASSUME NEW g \in Group PROVE U[g].live = T[g].live \cup new(g) OBVIOUS
  <2> HIDE DEF U, new
  <2> QED BY <2>1 DEF Blocks
<1> QED BY <1>1, <1>3, <1>4

----------------------------------------------------------------------------
(* Counting blocks.                                                         *)

(* Disjoint finite sets add up.                                             *)
LEMMA DisjointCount ==
  ASSUME NEW S, NEW T, IsFiniteSet(S), IsFiniteSet(T), S \cap T = {}
  PROVE  /\ IsFiniteSet(S \cup T)
         /\ Cardinality(S) \in Nat /\ Cardinality(T) \in Nat
         /\ Cardinality(S \cup T) = Cardinality(S) + Cardinality(T)
<1>1. Cardinality(S) \in Nat /\ Cardinality(T) \in Nat BY FS_CardinalityType
<1>2. IsFiniteSet(S \cup T) BY FS_Union
<1>3. Cardinality(S \cup T) = Cardinality(S) + Cardinality(T) - Cardinality(S \cap T)
  BY FS_Union
<1>4. Cardinality(S \cap T) = 0 BY FS_EmptySet, Zenon
<1> QED BY <1>1, <1>2, <1>3, <1>4

(* A family of finite sets over a finite index has a finite union.          *)
LEMMA FamilyFinite ==
  ASSUME NEW S, IsFiniteSet(S), NEW f, \A x \in S : IsFiniteSet(f[x])
  PROVE  IsFiniteSet(UNION {f[x] : x \in S})
<1> DEFINE F == {f[x] : x \in S}
           h == [x \in S |-> f[x]]
<1>1. h \in Surjection(S, F) BY DEF Surjection
<1>2. IsFiniteSet(F)
  <2> HIDE DEF F, h
  <2> QED BY <1>1, FS_Surjection
<1> QED BY <1>2, FS_UNION

(* The blocks of a table, and one request's share of them.                  *)
LEMMA BlocksFinite ==
  ASSUME NEW T \in Tables
  PROVE  IsFiniteSet(Blocks(T))
<1> DEFINE f == [g \in Group |-> {g} \X T[g].live]
<1>1. ASSUME NEW g \in Group PROVE IsFiniteSet(f[g])
  <2>1. T[g].live \subseteq 1..T[g].size /\ T[g].size \in Nat
    BY DEF Tables, Table, Filled
  <2>2. IsFiniteSet(1..T[g].size) BY <2>1, FS_Interval
  <2>3. IsFiniteSet(T[g].live) BY <2>1, <2>2, FS_Subset
  <2>4. IsFiniteSet({g} \X T[g].live) BY <2>3, FS_Singleton, FS_Product
  <2> QED BY <2>4
<1>2. IsFiniteSet(UNION {f[g] : g \in Group})
  <2> HIDE DEF f
  <2> QED BY <1>1, FamilyFinite, GroupAssumption
<1>3. Blocks(T) = UNION {f[g] : g \in Group} BY DEF Blocks
<1> QED BY <1>2, <1>3

LEMMA TaggedCount ==
  ASSUME NEW r, NEW S, IsFiniteSet(S)
  PROVE  IsFiniteSet({r} \X S) /\ Cardinality({r} \X S) = Cardinality(S)
<1>1. IsFiniteSet({r}) /\ Cardinality({r}) = 1 BY FS_Singleton
<1>2. Cardinality(S) \in Nat BY FS_CardinalityType
<1> QED BY <1>1, <1>2, FS_Product

(* The blocks of the requests R when their tables are those of tbl.         *)
HeldBy(tbl, R) == UNION {{q} \X Blocks(tbl[q]) : q \in R}

LEMMA HeldFinite ==
  ASSUME NEW tbl \in [Req -> Tables], NEW R \in SUBSET Req
  PROVE  IsFiniteSet(HeldBy(tbl, R)) /\ Cardinality(HeldBy(tbl, R)) \in Nat
<1> DEFINE f == [q \in R |-> {q} \X Blocks(tbl[q])]
<1>1. IsFiniteSet(R) BY RequestAssumption, FS_Subset
<1>2. \A q \in R : IsFiniteSet(f[q]) BY BlocksFinite, TaggedCount
<1>3. IsFiniteSet(UNION {f[q] : q \in R})
  <2> HIDE DEF f
  <2> QED BY <1>1, <1>2, FamilyFinite
<1>4. HeldBy(tbl, R) = UNION {f[q] : q \in R} BY DEF HeldBy
<1> QED BY <1>3, <1>4, FS_CardinalityType

(* The blocks of all requests are those of one and those of the others.     *)
LEMMA HeldSplit ==
  ASSUME NEW tbl \in [Req -> Tables], NEW r \in Req
  PROVE  /\ Cardinality(Blocks(tbl[r])) \in Nat
         /\ Cardinality(HeldBy(tbl, Req)) =
              Cardinality(HeldBy(tbl, Req \ {r})) + Cardinality(Blocks(tbl[r]))
<1> DEFINE A == HeldBy(tbl, Req \ {r})
           B == {r} \X Blocks(tbl[r])
<1>1. IsFiniteSet(A) /\ Cardinality(A) \in Nat BY HeldFinite
<1>2. /\ IsFiniteSet(B) /\ Cardinality(B) = Cardinality(Blocks(tbl[r]))
      /\ Cardinality(Blocks(tbl[r])) \in Nat
  BY BlocksFinite, TaggedCount, FS_CardinalityType
<1>3. HeldBy(tbl, Req) = A \cup B BY DEF HeldBy
<1>4. A \cap B = {} BY DEF HeldBy
<1>5. Cardinality(A \cup B) = Cardinality(A) + Cardinality(B)
  <2> HIDE DEF A, B
  <2> QED BY <1>1, <1>2, <1>4, DisjointCount
<1> QED BY <1>2, <1>3, <1>5

(* A reservation of Keep blocks for each request of P.                      *)
LEMMA ReservationCount ==
  ASSUME NEW P \in SUBSET Req
  PROVE  /\ Cardinality(P) \in Nat
         /\ Cardinality(P \X (1..Keep)) = Keep * Cardinality(P)
<1>1. IsFiniteSet(P) BY RequestAssumption, FS_Subset
<1>2. IsFiniteSet(1..Keep) /\ Cardinality(1..Keep) = Keep BY KeepType, FS_Interval
<1>3. Cardinality(P) \in Nat BY <1>1, FS_CardinalityType
<1>4. Cardinality(P \X (1..Keep)) = Cardinality(P) * Cardinality(1..Keep)
  BY <1>1, <1>2, FS_Product
<1> QED BY <1>2, <1>3, <1>4, KeepType

LEMMA ReservationSplit ==
  ASSUME NEW P \in SUBSET Req, NEW Q \in SUBSET Req, P \cap Q = {}
  PROVE  Cardinality((P \cup Q) \X (1..Keep)) =
           Cardinality(P \X (1..Keep)) + Keep * Cardinality(Q)
<1>1. IsFiniteSet(P) /\ IsFiniteSet(Q) BY RequestAssumption, FS_Subset
<1>2. Cardinality(P \cup Q) = Cardinality(P) + Cardinality(Q)
  BY <1>1, DisjointCount
<1>3. /\ Cardinality(P) \in Nat /\ Cardinality(Q) \in Nat
      /\ Cardinality(P \X (1..Keep)) = Keep * Cardinality(P)
      /\ Cardinality((P \cup Q) \X (1..Keep)) = Keep * Cardinality(P \cup Q)
  BY ReservationCount
<1>4. ASSUME NEW a \in Nat, NEW b \in Nat, NEW k \in Nat
      PROVE  k * (a + b) = k * a + k * b
  OBVIOUS
<1> QED BY <1>2, <1>3, <1>4, KeepType

----------------------------------------------------------------------------
(* The types.                                                               *)

LEMMA InitType == Init => Inv
<1> SUFFICES ASSUME Init PROVE Inv OBVIOUS
<1>1. table \in [Req -> Tables] BY EmptyType DEF Init
<1>2. table \in [Req -> [Group -> Table]] BY <1>1 DEF Tables
<1>3. tokens \in [Req -> Nat] BY RequestAssumption DEF Init
<1> QED BY <1>1, <1>2, <1>3, GroupAssumption DEF Init, Inv, TypeOK

(* What a free leaves, whatever was trimmed before it.                      *)
LEMMA FreeType ==
  ASSUME Inv, NEW v \in Req, NEW T \in [Req -> Tables], Free(v, T)
  PROVE  /\ table' \in [Req -> Tables]
         /\ \A r \in Req : table'[r] = IF r = v THEN [g \in Group |-> Empty] ELSE T[r]
         /\ free' \in Int
         /\ pending' \in [Req -> Pending \cup {None}] /\ pending'[v] = None
         /\ active' \in [Req -> Active \cup {None}] /\ active'[v] = None
         /\ \A r \in Req \ {v} : pending'[r] = pending[r] /\ active'[r] = active[r]
<1>1. Cardinality(Held) \in Nat
  <2>1. Held = HeldBy(table, Req) BY DEF Held, HeldBy
  <2> QED BY <2>1, HeldFinite DEF Inv
<1>2. Cardinality(UNION {{r} \X Blocks(T[r]) : r \in Req \ {v}}) \in Nat
  BY HeldFinite DEF HeldBy
<1>3. free' \in Int BY <1>1, <1>2, KeepType DEF Free, Inv, TypeOK
<1>4. table' \in [Req -> Tables]
      /\ \A r \in Req : table'[r] = IF r = v THEN [g \in Group |-> Empty] ELSE T[r]
  BY EmptyType DEF Free
<1> QED BY <1>3, <1>4 DEF Free, Inv, TypeOK

LEMMA BeginScheduleType == Inv /\ BeginSchedule => Inv'
<1> SUFFICES ASSUME Inv, BeginSchedule PROVE Inv' OBVIOUS
<1>1. [size |-> Keep, live |-> 1..Keep] \in {t \in Table : Filled(t)}
  BY KeepType DEF Table, Filled
<1>2. table' \in [Req -> Tables]
  <2> DEFINE copy == [size |-> Keep, live |-> 1..Keep]
  <2>1. ASSUME NEW r \in Req
        PROVE  [table[r] EXCEPT ![Attention] = copy] \in Tables
    <3> HIDE DEF copy
    <3> QED BY <1>1 DEF Inv, Tables, copy
  <2>2. table' = [r \in Req |-> IF r \in Committing
                  THEN [table[r] EXCEPT ![Attention] = copy] ELSE table[r]]
    BY DEF BeginSchedule
  <2> HIDE DEF copy
  <2> QED BY <2>1, <2>2 DEF Inv
<1>3. table' \in [Req -> [Group -> Table]] BY <1>2 DEF Tables
<1>4. free' \in Int
  <2> DEFINE R == {h \in Held : h[1] \in Committing /\ h[2][1] = Attention}
  <2>1. IsFiniteSet(Held) BY HeldFinite DEF Inv, Held, HeldBy
  <2>2. R \subseteq Held OBVIOUS
  <2>3. Cardinality(R) \in Nat
    <3> HIDE DEF R
    <3> QED BY <2>1, <2>2, FS_Subset, FS_CardinalityType
  <2>4. free' = free + Cardinality(R) BY DEF BeginSchedule
  <2> HIDE DEF R
  <2> QED BY <2>3, <2>4 DEF Inv, TypeOK
<1>5. /\ pending' \in [Req -> Pending \cup {None}]
      /\ \A r \in Req : pending[r] = None => pending'[r] = None
  BY DEF BeginSchedule, Inv, TypeOK
<1>6. /\ active' \in [Req -> Active \cup {None}]
      /\ \A r \in Req : pending[r] = None => active'[r] = active[r]
  <2>1. ASSUME NEW r \in Committing
        PROVE  [semantic |-> pending[r].semantic, physical |-> Budget] \in Active
    BY ConfigAssumption DEF Committing, Inv, TypeOK, Pending, Active
  <2> QED BY <2>1 DEF BeginSchedule, Committing, Inv, TypeOK
<1>7. \A r \in Req : pending[r] = None => table'[r] = table[r]
  BY DEF BeginSchedule, Committing
<1> QED BY <1>2, <1>3, <1>4, <1>5, <1>6, <1>7 DEF BeginSchedule, Inv, TypeOK

(* The tables after a request got its blocks.                               *)
LEMMA ScheduleTables ==
  ASSUME Inv, NEW r \in Req, NEW n \in 1..(tokens[r] - computed[r]), NEW d \in 0..Drafts,
         Schedule(r, n, d)
  PROVE  LET T == Allocated(r, Trimmed(r), computed[r] + n + d) IN
         /\ T \in Tables
         /\ table' \in [Req -> Tables]
         /\ \A q \in Req : table'[q] = IF q = r THEN T ELSE table[q]
<1>1. computed[r] + n + d \in Int BY ConfigAssumption DEF Inv, TypeOK
<1>2. Trimmed(r) \in Tables BY TrimmedType
<1>3. Allocated(r, Trimmed(r), computed[r] + n + d) \in Tables
  BY <1>1, <1>2, AllocatedType
<1>4. table' = [table EXCEPT ![r] = Allocated(r, Trimmed(r), computed[r] + n + d)]
  BY DEF Schedule
<1> QED BY <1>3, <1>4 DEF Inv

LEMMA ScheduleType ==
  ASSUME Inv, NEW r \in Req, NEW n \in 1..(tokens[r] - computed[r]), NEW d \in 0..Drafts,
         Schedule(r, n, d)
  PROVE  Inv'
<1>1. /\ table' \in [Req -> Tables]
      /\ \A q \in Req : q # r => table'[q] = table[q]
  BY ScheduleTables
<1>2. table' \in [Req -> [Group -> Table]] BY <1>1 DEF Tables
<1>3. free' \in Int
  <2>1. Cardinality(Blocks(table[r])) \in Nat
    BY BlocksFinite, FS_CardinalityType DEF Inv
  <2>2. Cardinality(Blocks(Allocated(r, Trimmed(r), computed[r] + n + d))) \in Nat
    BY ScheduleTables, BlocksFinite, FS_CardinalityType
  <2>3. free' = free + Cardinality(Blocks(table[r]))
                  - Cardinality(Blocks(Allocated(r, Trimmed(r), computed[r] + n + d)))
    BY DEF Schedule
  <2> QED BY <2>1, <2>2, <2>3 DEF Inv, TypeOK
<1>4. [n |-> n, drafts |-> d] \in Item
  BY ConfigAssumption DEF Item, Inv, TypeOK
<1>5. /\ batch' \in [Req -> Item \cup {None}]
      /\ \A q \in Req : q # r => batch'[q] = batch[q]
  BY <1>4 DEF Schedule, Inv, TypeOK
<1>6. /\ status' \in [Req -> {"waiting", "running", "finished"}]
      /\ \A q \in Req : status'[q] = IF q = r THEN "running" ELSE status[q]
  BY DEF Schedule, Inv, TypeOK
<1>7. phase' = "building" BY DEF Schedule, Schedulable
<1> QED BY <1>1, <1>2, <1>3, <1>5, <1>6, <1>7 DEF Schedule, Inv, TypeOK

LEMMA PreemptType ==
  ASSUME Inv, NEW r \in Req, NEW v \in Req,
         NEW n \in 1..(tokens[r] - computed[r]), NEW d \in 0..Drafts,
         Preempt(r, v, n, d)
  PROVE  Inv'
<1> DEFINE T == [table EXCEPT ![r] = Trimmed(r)]
<1>1. T \in [Req -> Tables] /\ \A q \in Req : q # r => T[q] = table[q]
  BY TrimmedType DEF Inv
<1>2. Free(v, T) BY DEF Preempt
<1>3. /\ table' \in [Req -> Tables]
      /\ \A q \in Req : table'[q] = IF q = v THEN [g \in Group |-> Empty] ELSE T[q]
      /\ free' \in Int
      /\ pending' \in [Req -> Pending \cup {None}] /\ pending'[v] = None
      /\ active' \in [Req -> Active \cup {None}] /\ active'[v] = None
      /\ \A q \in Req \ {v} : pending'[q] = pending[q] /\ active'[q] = active[q]
  <2> HIDE DEF T
  <2> QED BY <1>1, <1>2, FreeType
<1>4. table' \in [Req -> [Group -> Table]] BY <1>3 DEF Tables
<1>5. computed' \in [Req -> Nat] BY DEF Preempt, Inv, TypeOK
<1>6. /\ status' \in [Req -> {"waiting", "running", "finished"}]
      /\ \A q \in Req : status'[q] = IF q = v THEN "waiting" ELSE status[q]
  BY DEF Preempt, Inv, TypeOK
<1>7. phase' = "building" /\ status[r] = "running" /\ batch[v] = None
      /\ UNCHANGED <<tokens, batch>>
  BY DEF Preempt, Schedulable
<1> HIDE DEF T
<1>8. ASSUME NEW q \in Req, status'[q] # "running"
      PROVE  /\ table'[q] = [g \in Group |-> Empty]
             /\ pending'[q] = None /\ active'[q] = None /\ batch'[q] = None
  <2>1. CASE q = v BY <2>1, <1>3, <1>7
  <2>2. CASE q # v BY <2>2, <1>1, <1>3, <1>6, <1>7, <1>8 DEF Inv, TypeOK
  <2> QED BY <2>1, <2>2
<1> QED BY <1>3, <1>4, <1>5, <1>6, <1>7, <1>8 DEF Inv, TypeOK

(* How far the batch that is built brings a request.                        *)
LEMMA AdvancedType ==
  ASSUME Inv, NEW r \in Req
  PROVE  /\ Advanced(r) \in Nat /\ Advanced(r) >= computed[r]
         /\ batch[r] # None => Advanced(r) - batch[r].drafts >= computed[r]
BY DEF Inv, TypeOK, Advanced, Item

LEMMA EndScheduleType ==
  ASSUME Inv, NEW A \in SUBSET Req, EndSchedule(A)
  PROVE  Inv'
<1>1. \A r \in A : batch[r] # None BY DEF EndSchedule, Armable
<1>2. /\ pending' \in [Req -> Pending \cup {None}]
      /\ \A r \in Req \ A : pending'[r] = pending[r]
  BY AdvancedType DEF EndSchedule, Inv, TypeOK, Pending
<1>3. computed' \in [Req -> Nat] BY AdvancedType DEF EndSchedule
<1>4. free' \in Int
  <2>1. Cardinality(A) \in Nat BY ReservationCount
  <2>2. free' = free - Keep * Cardinality(A) BY DEF EndSchedule
  <2>3. ASSUME NEW k \in Nat, NEW a \in Nat PROVE k * a \in Nat OBVIOUS
  <2> QED BY <2>1, <2>2, <2>3, KeepType DEF Inv, TypeOK
<1>5. phase' = "out" /\ UNCHANGED <<status, tokens, table, active, batch>>
  BY DEF EndSchedule
<1>6. \A r \in Req : batch'[r] # None => computed'[r] - batch'[r].drafts \in Nat
  <2>1. ASSUME NEW r \in Req, batch[r] # None
        PROVE  Advanced(r) - batch[r].drafts \in Nat
    BY <2>1, AdvancedType DEF Inv, TypeOK, Item
  <2> QED BY <2>1, <1>5 DEF EndSchedule
<1> QED BY <1>1, <1>2, <1>3, <1>4, <1>5, <1>6 DEF Inv, TypeOK

LEMMA ConsumeType ==
  ASSUME Inv, NEW r \in Req, NEW a \in 0..Drafts, Consume(r, a)
  PROVE  Inv'
<1> DEFINE i == batch[r]
           samples == computed[r] - i.drafts >= tokens[r]
           grown == tokens[r] + 1 + a
           stops == samples /\ grown >= Prompt[r] + MaxTokens[r]
<1>1. /\ phase = "out" /\ phase' = "out" /\ i # None /\ i \in Item
      /\ status[r] = "running"
  BY DEF Consume, Inv, TypeOK
<1>2. tokens' \in [Req -> Nat]
  <2>1. grown \in Nat BY ConfigAssumption DEF Inv, TypeOK
  <2>2. tokens' = [tokens EXCEPT ![r] = IF samples /\ ~stops THEN grown ELSE @]
    BY DEF Consume
  <2> HIDE DEF samples, stops, grown
  <2> QED BY <2>1, <2>2 DEF Inv, TypeOK
<1>3. /\ batch' \in [Req -> Item \cup {None}]
      /\ \A q \in Req : batch'[q] = IF q = r THEN None ELSE batch[q]
  BY DEF Consume, Inv, TypeOK
<1>4. computed' \in [Req -> Nat] /\ \A q \in Req : q # r => computed'[q] = computed[q]
  <2>1. computed' = [computed EXCEPT ![r] = @ - (batch[r].drafts - a)] BY DEF Consume
  <2>2. /\ computed[r] - batch[r].drafts \in Nat
        /\ batch[r].drafts \in Nat /\ computed[r] \in Nat
    BY <1>1 DEF Inv, TypeOK, Item
  <2>3. a \in 0..batch[r].drafts BY DEF Consume
  <2>4. computed[r] - (batch[r].drafts - a) \in Nat BY <2>2, <2>3
  <2> QED BY <2>1, <2>4 DEF Inv, TypeOK
<1>5. \A q \in Req : batch'[q] # None => computed'[q] - batch'[q].drafts \in Nat
  BY <1>1, <1>3, <1>4 DEF Inv
<1>6. CASE stops
  <2>1. /\ Free(r, table)
        /\ status' = [status EXCEPT ![r] = "finished"]
    BY <1>6 DEF Consume
  <2> HIDE DEF i, samples, grown, stops
  <2>2. /\ table' \in [Req -> Tables]
        /\ \A q \in Req : table'[q] = IF q = r THEN [g \in Group |-> Empty] ELSE table[q]
        /\ free' \in Int
        /\ pending' \in [Req -> Pending \cup {None}] /\ pending'[r] = None
        /\ active' \in [Req -> Active \cup {None}] /\ active'[r] = None
        /\ \A q \in Req \ {r} : pending'[q] = pending[q] /\ active'[q] = active[q]
    BY <2>1, FreeType DEF Inv
  <2>3. table' \in [Req -> [Group -> Table]] BY <2>2 DEF Tables
  <2> QED BY <1>1, <1>2, <1>3, <1>4, <1>5, <2>1, <2>2, <2>3 DEF Inv, TypeOK
<1>7. CASE ~stops
  <2>1. /\ pending' = [pending EXCEPT ![r] =
                         IF @ = None THEN None ELSE [@ EXCEPT !.ready = TRUE]]
        /\ UNCHANGED <<status, table, free, active>>
    BY <1>7 DEF Consume
  <2> HIDE DEF i, samples, grown, stops
  <2>2. pending[r] # None => [pending[r] EXCEPT !.ready = TRUE] \in Pending
    BY DEF Inv, TypeOK, Pending
  <2>3. /\ pending' \in [Req -> Pending \cup {None}]
        /\ \A q \in Req : pending[q] = None => pending'[q] = None
    BY <2>1, <2>2 DEF Inv, TypeOK
  <2> QED BY <1>1, <1>2, <1>3, <1>4, <1>5, <2>1, <2>3 DEF Inv, TypeOK
<1> QED BY <1>6, <1>7

LEMMA EndUpdateType == Inv /\ EndUpdate => Inv'
BY DEF EndUpdate, Inv, TypeOK

LEMMA AbortType ==
  ASSUME Inv, NEW r \in Req, Abort(r)
  PROVE  Inv'
<1>1. Free(r, table) BY DEF Abort
<1>2. /\ table' \in [Req -> Tables]
      /\ \A q \in Req : table'[q] = IF q = r THEN [g \in Group |-> Empty] ELSE table[q]
      /\ free' \in Int
      /\ pending' \in [Req -> Pending \cup {None}] /\ pending'[r] = None
      /\ active' \in [Req -> Active \cup {None}] /\ active'[r] = None
      /\ \A q \in Req \ {r} : pending'[q] = pending[q] /\ active'[q] = active[q]
  BY <1>1, FreeType DEF Inv
<1>3. table' \in [Req -> [Group -> Table]] BY <1>2 DEF Tables
<1>4. /\ batch' \in [Req -> Item \cup {None}]
      /\ \A q \in Req : batch'[q] = IF q = r THEN None ELSE batch[q]
  BY DEF Abort, Inv, TypeOK
<1>5. /\ status' \in [Req -> {"waiting", "running", "finished"}]
      /\ \A q \in Req : status'[q] = IF q = r THEN "finished" ELSE status[q]
      /\ UNCHANGED <<computed, tokens, phase>>
  BY DEF Abort, Inv, TypeOK
<1> QED BY <1>2, <1>3, <1>4, <1>5 DEF Inv, TypeOK

LEMMA NextType == Inv /\ [Next]_vars => Inv'
<1> SUFFICES ASSUME Inv, [Next]_vars PROVE Inv' OBVIOUS
<1>1. CASE BeginSchedule BY <1>1, BeginScheduleType
<1>2. ASSUME NEW r \in Req, NEW d \in 0..Drafts, NEW n \in 1..(tokens[r] - computed[r]),
             Schedule(r, n, d)
      PROVE  Inv'
  BY <1>2, ScheduleType
<1>3. ASSUME NEW r \in Req, NEW d \in 0..Drafts, NEW n \in 1..(tokens[r] - computed[r]),
             NEW v \in Req, Preempt(r, v, n, d)
      PROVE  Inv'
  BY <1>3, PreemptType
<1>4. ASSUME NEW A \in SUBSET Req, EndSchedule(A) PROVE Inv'
  BY <1>4, EndScheduleType
<1>5. ASSUME NEW r \in Req, NEW a \in 0..Drafts, Consume(r, a) PROVE Inv'
  BY <1>5, ConsumeType
<1>6. CASE EndUpdate BY <1>6, EndUpdateType
<1>7. ASSUME NEW r \in Req, Abort(r) PROVE Inv' BY <1>7, AbortType
<1>8. CASE Terminated \/ UNCHANGED vars
  BY <1>8 DEF Terminated, vars, Inv, TypeOK
<1> QED BY <1>1, <1>2, <1>3, <1>4, <1>5, <1>6, <1>7, <1>8 DEF Next

(* Only a running request has blocks, a plan or a compression, and every    *)
(* variable keeps its type.                                                 *)
THEOREM TypeCorrect == Spec => []TypeOK
<1>1. Inv => TypeOK BY DEF Inv
<1> QED BY <1>1, InitType, NextType, PTL DEF Spec

----------------------------------------------------------------------------
(* Anchors.                                                                 *)

(* AnchorsAccepted holds of a request whose accepted length does not fall   *)
(* and whose plan and compression are kept, forgotten, or turned from the   *)
(* one into the other.                                                      *)
LEMMA AnchorKept ==
  ASSUME Inv, Inv', AnchorsAccepted, NEW q \in Req, Accepted(q)' >= Accepted(q),
         \/ pending'[q] = None
         \/ pending[q] # None /\ pending'[q].semantic = pending[q].semantic,
         \/ active'[q] = None
         \/ active[q] # None /\ active'[q] = active[q]
         \/ pending[q] # None /\ active'[q].semantic = pending[q].semantic
  PROVE  /\ pending'[q] # None => pending'[q].semantic <= Accepted(q)'
         /\ active'[q] # None => active'[q].semantic <= Accepted(q)'
<1>1. ASSUME NEW m \in Nat, m <= Accepted(q) PROVE m <= Accepted(q)'
  <2>1. Accepted(q) \in Int /\ Accepted(q)' \in Int
    BY DEF Accepted, Inv, TypeOK, Item
  <2> QED BY <1>1, <2>1
<1>2. /\ pending[q] # None => pending[q].semantic \in Nat
      /\ active[q] # None => active[q].semantic \in Nat
  BY DEF Inv, TypeOK, Pending, Active
<1> HIDE DEF Accepted
<1> QED BY <1>1, <1>2 DEF AnchorsAccepted

LEMMA AnchorsStep == Inv /\ Inv' /\ AnchorsAccepted /\ [Next]_vars => AnchorsAccepted'
<1> DEFINE Bound(q) == /\ pending'[q] # None => pending'[q].semantic <= Accepted(q)'
                       /\ active'[q] # None => active'[q].semantic <= Accepted(q)'
<1> SUFFICES ASSUME Inv, Inv', AnchorsAccepted, [Next]_vars, NEW q \in Req
             PROVE  Bound(q)
  BY DEF AnchorsAccepted
<1>1. CASE BeginSchedule
  <2>1. Accepted(q)' = Accepted(q)
    BY <1>1 DEF BeginSchedule, Accepted
  <2>2. /\ pending'[q] = IF q \in Committing THEN None ELSE pending[q]
        /\ active'[q] = IF q \in Committing
             THEN [semantic |-> pending[q].semantic, physical |-> Budget] ELSE active[q]
        /\ q \in Committing => pending[q] # None
    BY <1>1 DEF BeginSchedule, Committing
  <2>3. Accepted(q)' >= Accepted(q) BY <2>1 DEF Accepted, Inv, TypeOK, Item
  <2> QED BY <2>2, <2>3, AnchorKept
<1>2. ASSUME NEW r \in Req, NEW d \in 0..Drafts, NEW n \in 1..(tokens[r] - computed[r]),
             Schedule(r, n, d)
      PROVE  Bound(q)
  <2>1. Accepted(q)' >= Accepted(q)
    BY <1>2 DEF Schedule, Schedulable, Accepted, Inv, TypeOK, Item
  <2> QED BY <1>2, <2>1, AnchorKept DEF Schedule
<1>3. ASSUME NEW r \in Req, NEW d \in 0..Drafts, NEW n \in 1..(tokens[r] - computed[r]),
             NEW v \in Req, Preempt(r, v, n, d)
      PROVE  Bound(q)
  <2>1. CASE q = v
    BY <1>3, <2>1 DEF Preempt, Free, Inv, TypeOK
  <2>2. CASE q # v
    <3>1. Accepted(q)' >= Accepted(q)
      BY <1>3, <2>2 DEF Preempt, Schedulable, Accepted, Inv, TypeOK, Item
    <3>2. pending'[q] = pending[q] /\ active'[q] = active[q]
      BY <1>3, <2>2 DEF Preempt, Free, Inv, TypeOK
    <3> QED BY <3>1, <3>2, AnchorKept
  <2> QED BY <2>1, <2>2
<1>4. ASSUME NEW A \in SUBSET Req, EndSchedule(A) PROVE Bound(q)
  <2>1. /\ Accepted(q) = computed[q] /\ computed'[q] = Advanced(q)
        /\ phase' = "out" /\ UNCHANGED <<batch, active>>
    BY <1>4 DEF EndSchedule, Accepted, Inv, TypeOK
  <2>2. Accepted(q)' >= Accepted(q)
    BY <2>1, AdvancedType DEF Accepted
  <2>3. CASE q \notin A
    <3>1. pending'[q] = pending[q] BY <1>4, <2>3 DEF EndSchedule
    <3> QED BY <2>1, <2>2, <3>1, AnchorKept
  <2>4. CASE q \in A
    <3>1. /\ batch[q] # None /\ batch[q].drafts = 0
          /\ pending'[q] = [semantic |-> Advanced(q), ready |-> FALSE]
      BY <1>4, <2>4 DEF EndSchedule, Armable
    <3>2. Accepted(q)' = Advanced(q) - 0 BY <2>1, <3>1 DEF Accepted
    <3>3. Advanced(q) \in Nat BY AdvancedType
    <3>4. active[q] # None => active[q].semantic \in Nat /\ active[q].semantic <= computed[q]
      BY <2>1 DEF AnchorsAccepted, Inv, TypeOK, Active
    <3>5. computed[q] \in Nat /\ Advanced(q) >= computed[q]
      BY AdvancedType DEF Inv, TypeOK
    <3> HIDE DEF Accepted, Advanced
    <3> QED BY <2>1, <3>1, <3>2, <3>3, <3>4, <3>5
  <2> QED BY <2>3, <2>4
<1>5. ASSUME NEW r \in Req, NEW a \in 0..Drafts, Consume(r, a) PROVE Bound(q)
  <2>1. phase = "out" /\ phase' = "out" /\ batch[r] # None /\ batch' = [batch EXCEPT ![r] = None]
        /\ computed' = [computed EXCEPT ![r] = @ - (batch[r].drafts - a)]
        /\ a \in 0..batch[r].drafts
    BY <1>5 DEF Consume
  <2>2. Accepted(q)' >= Accepted(q)
    BY <2>1 DEF Accepted, Inv, TypeOK, Item
  <2>3. \/ pending'[q] = None
        \/ pending[q] # None /\ pending'[q].semantic = pending[q].semantic
    BY <1>5 DEF Consume, Free, Inv, TypeOK, Pending
  <2>4. active'[q] = None \/ active'[q] = active[q]
    BY <1>5 DEF Consume, Free, Inv, TypeOK
  <2> QED BY <2>2, <2>3, <2>4, AnchorKept
<1>6. CASE EndUpdate
  <2>1. Accepted(q)' >= Accepted(q)
    BY <1>6 DEF EndUpdate, Accepted, Inv, TypeOK, Item
  <2> QED BY <1>6, <2>1, AnchorKept DEF EndUpdate
<1>7. ASSUME NEW r \in Req, Abort(r) PROVE Bound(q)
  <2>1. CASE q = r BY <1>7, <2>1 DEF Abort, Free, Inv, TypeOK
  <2>2. CASE q # r
    <3>1. Accepted(q)' >= Accepted(q)
      BY <1>7, <2>2 DEF Abort, Accepted, Inv, TypeOK, Item
    <3>2. pending'[q] = pending[q] /\ active'[q] = active[q]
      BY <1>7, <2>2 DEF Abort, Free, Inv, TypeOK
    <3> QED BY <3>1, <3>2, AnchorKept
  <2> QED BY <2>1, <2>2
<1>8. CASE Terminated \/ UNCHANGED vars
  BY <1>8 DEF Terminated, vars, AnchorsAccepted, Accepted
<1> HIDE DEF Bound
<1> QED BY <1>1, <1>2, <1>3, <1>4, <1>5, <1>6, <1>7, <1>8 DEF Next

(* The anchor of a plan or a compression is never a length that can roll    *)
(* back, whatever number of drafts is scheduled and rejected.               *)
THEOREM AnchorsCorrect == Spec => []AnchorsAccepted
<1>1. Init => AnchorsAccepted BY DEF Init, AnchorsAccepted
<1> QED BY <1>1, InitType, NextType, AnchorsStep, PTL DEF Spec

----------------------------------------------------------------------------
(* The pool.                                                                *)

LEMMA HeldIs == Held = HeldBy(table, Req) /\ Held' = HeldBy(table', Req)
BY DEF Held, HeldBy

(* One request's table changes: its blocks are the difference.              *)
LEMMA HeldMoves ==
  ASSUME Inv, table' \in [Req -> Tables], NEW r \in Req,
         \A q \in Req \ {r} : table'[q] = table[q]
  PROVE  /\ Cardinality(Held) \in Nat /\ Cardinality(Held)' \in Nat
         /\ Cardinality(Blocks(table[r])) \in Nat /\ Cardinality(Blocks(table'[r])) \in Nat
         /\ Cardinality(Held)' = Cardinality(Held) - Cardinality(Blocks(table[r]))
                                  + Cardinality(Blocks(table'[r]))
<1>1. HeldBy(table, Req \ {r}) = HeldBy(table', Req \ {r}) BY DEF HeldBy
<1>2. table \in [Req -> Tables] BY DEF Inv
<1>3. /\ Cardinality(HeldBy(table, Req \ {r})) \in Nat
      /\ Cardinality(Held) \in Nat /\ Cardinality(Held') \in Nat
  BY <1>2, HeldFinite, HeldIs
<1>4. /\ Cardinality(Blocks(table[r])) \in Nat
      /\ Cardinality(Held) = Cardinality(HeldBy(table, Req \ {r}))
                               + Cardinality(Blocks(table[r]))
  BY <1>2, HeldSplit, HeldIs
<1>5. /\ Cardinality(Blocks(table'[r])) \in Nat
      /\ Cardinality(Held') = Cardinality(HeldBy(table', Req \ {r}))
                                + Cardinality(Blocks(table'[r]))
  BY HeldSplit, HeldIs
<1> QED BY <1>1, <1>3, <1>4, <1>5

LEMMA InitPool == Init => PoolExact
<1> SUFFICES ASSUME Init PROVE PoolExact OBVIOUS
<1>1. Held = {} BY DEF Init, Held, Blocks, Empty
<1>2. Reserved = {} BY DEF Init, Reserved
<1>3. free = PoolSize /\ PoolSize \in Nat BY GroupAssumption DEF Init
<1> QED BY <1>1, <1>2, <1>3, FS_EmptySet DEF PoolExact

(* A free gives back what the request held and what was reserved for it.    *)
LEMMA FreePool ==
  ASSUME Inv, PoolExact, NEW v \in Req, NEW T \in [Req -> Tables],
         \A r \in Req : Blocks(T[r]) \subseteq Blocks(table[r]),
         Free(v, T)
  PROVE  PoolExact'
<1> DEFINE rest == HeldBy(T, Req \ {v})
           P == {r \in Req : pending[r] # None}
<1>1. /\ free' = free + Cardinality(Held) - Cardinality(rest)
                   + (IF pending[v] = None THEN 0 ELSE Keep)
      /\ pending' = [pending EXCEPT ![v] = None]
      /\ table' = [T EXCEPT ![v] = [g \in Group |-> Empty]]
  BY DEF Free, HeldBy
<1>2. Held' = rest
  <2>1. Blocks([g \in Group |-> Empty]) = {} BY DEF Blocks, Empty
  <2>2. \A q \in Req : table'[q] = IF q = v THEN [g \in Group |-> Empty] ELSE T[q]
    BY <1>1
  <2> QED BY <2>1, <2>2, HeldIs DEF HeldBy
<1>3. /\ Cardinality(Held) \in Nat /\ Cardinality(rest) \in Nat
      /\ Cardinality(rest) <= Cardinality(Held)
  <2>1. IsFiniteSet(Held) BY HeldFinite, HeldIs DEF Inv
  <2>2. rest \subseteq Held BY HeldIs DEF HeldBy
  <2> HIDE DEF rest
  <2> QED BY <2>1, <2>2, FS_Subset, FS_CardinalityType
<1>4. Cardinality(Reserved') =
        Cardinality(Reserved) - (IF pending[v] = None THEN 0 ELSE Keep)
  <2>1. Reserved = P \X (1..Keep) BY DEF Reserved
  <2>2. Reserved' = (P \ {v}) \X (1..Keep) BY <1>1 DEF Reserved, Inv, TypeOK
  <2>3. P \subseteq Req OBVIOUS
  <2>4. CASE pending[v] = None
    <3>1. P \ {v} = P BY <2>4
    <3>2. Cardinality(Reserved) \in Int
      <4>1. Cardinality(P) \in Nat /\ Cardinality(P \X (1..Keep)) = Keep * Cardinality(P)
        BY <2>3, ReservationCount
      <4> QED BY <2>1, <4>1, KeepType
    <3>3. Reserved' = Reserved BY <2>1, <2>2, <3>1
    <3> QED BY <2>4, <3>2, <3>3
  <2>5. CASE pending[v] # None
    <3> DEFINE Q == P \ {v}
    <3>1. P = Q \cup {v} /\ Q \in SUBSET Req /\ {v} \in SUBSET Req /\ Q \cap {v} = {}
      BY <2>3, <2>5
    <3>2. Cardinality(P \X (1..Keep)) = Cardinality(Q \X (1..Keep)) + Keep * Cardinality({v})
      <4>1. Cardinality((Q \cup {v}) \X (1..Keep)) =
              Cardinality(Q \X (1..Keep)) + Keep * Cardinality({v})
        <5> HIDE DEF P, Q
        <5> QED BY <3>1, ReservationSplit
      <4> HIDE DEF P, Q
      <4> QED BY <3>1, <4>1, Zenon
    <3>3. Cardinality({v}) = 1 BY FS_Singleton
    <3>4. Cardinality((P \ {v}) \X (1..Keep)) \in Int
      <4>1. /\ Cardinality(P \ {v}) \in Nat
            /\ Cardinality((P \ {v}) \X (1..Keep)) = Keep * Cardinality(P \ {v})
        BY <2>3, ReservationCount
      <4> QED BY <4>1, KeepType
    <3>5. Cardinality(Reserved) = Cardinality(Reserved') + Keep
      <4> DEFINE x == Cardinality(P \X (1..Keep))
                 y == Cardinality(Q \X (1..Keep))
      <4>1. Cardinality(Reserved) = x /\ Cardinality(Reserved') = y
        <5> HIDE DEF P
        <5> QED BY <2>1, <2>2, Zenon
      <4>2. x = y + Keep * 1
        <5> HIDE DEF P, Q
        <5> QED BY <3>2, <3>3
      <4>3. y \in Int BY <3>4
      <4> HIDE DEF x, y
      <4> QED BY <4>1, <4>2, <4>3, KeepType
    <3> QED BY <2>2, <2>5, <3>4, <3>5, KeepType
  <2> QED BY <2>4, <2>5
<1>5. Cardinality(Reserved) \in Int
  <2>1. P \subseteq Req OBVIOUS
  <2>2. Cardinality(P) \in Nat /\ Cardinality(P \X (1..Keep)) = Keep * Cardinality(P)
    BY <2>1, ReservationCount
  <2> QED BY <2>2, KeepType DEF Reserved
<1> HIDE DEF rest
<1> QED BY <1>1, <1>2, <1>3, <1>4, <1>5, KeepType, GroupAssumption DEF PoolExact, Inv, TypeOK

(* A commit returns the source blocks, and the reservation becomes the      *)
(* attention table.                                                         *)
LEMMA CommitPool == Inv /\ Inv' /\ PoolExact /\ BeginSchedule => PoolExact'
<1> SUFFICES ASSUME Inv, Inv', PoolExact, BeginSchedule PROVE PoolExact' OBVIOUS
<1> DEFINE C == Committing
           P == {r \in Req : pending[r] # None}
           old == {h \in Held : h[1] \in C /\ h[2][1] = Attention}
           copies == C \X ({Attention} \X (1..Keep))
           copy == [size |-> Keep, live |-> 1..Keep]
<1>1. /\ free' = free + Cardinality(old)
      /\ \A r \in Req : pending'[r] = IF r \in C THEN None ELSE pending[r]
      /\ \A r \in Req, g \in Group :
           table'[r][g] = IF r \in C /\ g = Attention THEN copy ELSE table[r][g]
  BY DEF BeginSchedule, Inv, Tables
<1>2. C \subseteq P /\ C \in SUBSET Req BY DEF Committing
<1>3. Held' = (Held \ old) \cup copies
  <2>1. \A h : h \in Held <=> \E r \in Req, g \in Group, i \in Nat :
               i \in table[r][g].live /\ h = <<r, <<g, i>>>>
    BY DEF Held, Blocks, Inv, Tables, Table
  <2>2. \A h : h \in Held' <=> \E r \in Req, g \in Group, i \in Nat :
               i \in table'[r][g].live /\ h = <<r, <<g, i>>>>
    BY DEF Held, Blocks, Inv, Tables, Table
  <2>3. \A h : h \in copies <=> \E r \in C, i \in 1..Keep : h = <<r, <<Attention, i>>>>
    OBVIOUS
  <2>4. copy.live = 1..Keep /\ Attention \in Group BY GroupAssumption
  <2>5. ASSUME NEW h \in Held' PROVE h \in (Held \ old) \cup copies
    <3>1. PICK r \in Req, g \in Group, i \in Nat : i \in table'[r][g].live /\ h = <<r, <<g, i>>>>
      BY <2>2
    <3>2. CASE r \in C /\ g = Attention
      <4>1. i \in 1..Keep BY <1>1, <2>4, <3>1, <3>2
      <4> QED BY <2>3, <3>1, <3>2, <4>1
    <3>3. CASE ~(r \in C /\ g = Attention)
      <4>1. i \in table[r][g].live BY <1>1, <3>1, <3>3
      <4> QED BY <2>1, <3>1, <3>3, <4>1
    <3> QED BY <3>2, <3>3
  <2>6. ASSUME NEW h \in Held \ old PROVE h \in Held'
    <3>1. PICK r \in Req, g \in Group, i \in Nat : i \in table[r][g].live /\ h = <<r, <<g, i>>>>
      BY <2>1
    <3>2. ~(r \in C /\ g = Attention) BY <3>1
    <3>3. i \in table'[r][g].live BY <1>1, <3>1, <3>2
    <3> QED BY <2>2, <3>1, <3>3
  <2>7. ASSUME NEW h \in copies PROVE h \in Held'
    <3>1. PICK r \in C, i \in 1..Keep : h = <<r, <<Attention, i>>>> BY <2>3
    <3>2. i \in table'[r][Attention].live BY <1>1, <1>2, <2>4
    <3>3. i \in Nat BY KeepType
    <3> QED BY <1>2, <2>2, <2>4, <3>1, <3>2, <3>3
  <2> QED BY <2>5, <2>6, <2>7
<1>4. (Held \ old) \cap copies = {}
  BY DEF Committing
<1>5. IsFiniteSet(Held) /\ old \subseteq Held BY HeldFinite, HeldIs DEF Inv
<1>6. /\ Cardinality(Held) \in Nat /\ Cardinality(old) \in Nat
      /\ IsFiniteSet(Held \ old) /\ Cardinality(Held \ old) = Cardinality(Held) - Cardinality(old)
  <2>1. Held \cap old = old BY <1>5
  <2> HIDE DEF old
  <2>2. IsFiniteSet(Held \ old)
        /\ Cardinality(Held \ old) = Cardinality(Held) - Cardinality(Held \cap old)
    BY <1>5, FS_Difference
  <2> QED BY <1>5, <2>1, <2>2, FS_Subset, FS_CardinalityType, Zenon
<1>7. IsFiniteSet(copies) /\ Cardinality(copies) = Keep * Cardinality(C)
      /\ Cardinality(C) \in Nat
  <2>1. IsFiniteSet(C) /\ Cardinality(C) \in Nat
    BY <1>2, RequestAssumption, FS_Subset, FS_CardinalityType
  <2>2. IsFiniteSet(1..Keep) /\ Cardinality(1..Keep) = Keep BY KeepType, FS_Interval
  <2>3. /\ IsFiniteSet({Attention} \X (1..Keep))
        /\ Cardinality({Attention} \X (1..Keep)) = Keep
    BY <2>2, TaggedCount
  <2>4. IsFiniteSet(copies) /\ Cardinality(copies) = Cardinality(C) * Keep
    <3> DEFINE U == {Attention} \X (1..Keep)
    <3>1. IsFiniteSet(C \X U) /\ Cardinality(C \X U) = Cardinality(C) * Cardinality(U)
      <4> HIDE DEF C, U
      <4> QED BY <2>1, <2>3, FS_Product DEF U
    <3> QED BY <2>3, <3>1
  <2> QED BY <2>1, <2>4, KeepType
<1>8. Cardinality(Held') = Cardinality(Held) - Cardinality(old) + Keep * Cardinality(C)
  <2>1. Cardinality((Held \ old) \cup copies) = Cardinality(Held \ old) + Cardinality(copies)
    <3> HIDE DEF old, copies
    <3> QED BY <1>4, <1>6, <1>7, DisjointCount
  <2> HIDE DEF old, copies, C
  <2> QED BY <1>3, <1>6, <1>7, <2>1
<1>9. Cardinality(Reserved) = Cardinality(Reserved') + Keep * Cardinality(C)
  <2> DEFINE Q == P \ C
  <2>1. Reserved = P \X (1..Keep) BY DEF Reserved
  <2>2. Reserved' = Q \X (1..Keep) BY <1>1 DEF Reserved
  <2>3. P = Q \cup C /\ Q \in SUBSET Req /\ C \in SUBSET Req /\ Q \cap C = {}
    BY <1>2
  <2>4. Cardinality((Q \cup C) \X (1..Keep)) =
          Cardinality(Q \X (1..Keep)) + Keep * Cardinality(C)
    <3> HIDE DEF Q, C
    <3> QED BY <2>3, ReservationSplit
  <2> HIDE DEF P, Q, C
  <2> QED BY <2>1, <2>2, <2>3, <2>4, Zenon
<1>10. Cardinality(Reserved') \in Int
  <2>1. /\ Cardinality(P \ C) \in Nat
        /\ Cardinality((P \ C) \X (1..Keep)) = Keep * Cardinality(P \ C)
    BY ReservationCount
  <2>2. Reserved' = (P \ C) \X (1..Keep) BY <1>1 DEF Reserved
  <2> HIDE DEF P, C
  <2> QED BY <2>1, <2>2, KeepType
<1> HIDE DEF old, copies, C
<1>11. Keep * Cardinality(C) \in Nat BY <1>7, KeepType
<1> QED BY <1>1, <1>6, <1>8, <1>9, <1>10, <1>11, GroupAssumption DEF PoolExact, Inv, TypeOK

(* An allocation takes no more than was counted, and it was counted to fit. *)
LEMMA SchedulePool ==
  ASSUME Inv, PoolExact, NEW r \in Req, NEW n \in 1..(tokens[r] - computed[r]),
         NEW d \in 0..Drafts, Schedule(r, n, d)
  PROVE  PoolExact'
<1> DEFINE m == computed[r] + n + d
           S == Trimmed(r)
           T == Allocated(r, S, m)
           new == UNION {{g} \X Added(S[g], g, GroupTokens(r, g, Wanted(g, m))) : g \in Group}
<1>1. m \in Int BY ConfigAssumption DEF Inv, TypeOK
<1>2. S \in Tables BY TrimmedType
<1>3. T \in Tables /\ Blocks(T) = Blocks(S) \cup new BY <1>1, <1>2, AllocatedType
<1>4. /\ IsFiniteSet(Blocks(S)) /\ IsFiniteSet(Blocks(T))
      /\ Cardinality(Blocks(S)) \in Nat /\ Cardinality(Blocks(T)) \in Nat
  <2> HIDE DEF S, T
  <2> QED BY <1>2, <1>3, BlocksFinite, FS_CardinalityType
<1>5. Cardinality(Blocks(T)) <= Cardinality(Blocks(S)) + Cardinality(new)
  <2> HIDE DEF S, T, new
  <2>1. IsFiniteSet(new) BY <1>3, <1>4, FS_Subset
  <2>2. IsFiniteSet(Blocks(S) \cap new) BY <1>4, FS_Intersection
  <2>3. Cardinality(Blocks(S) \cup new) =
          Cardinality(Blocks(S)) + Cardinality(new) - Cardinality(Blocks(S) \cap new)
    BY <1>4, <2>1, FS_Union
  <2>4. Cardinality(new) \in Nat /\ Cardinality(Blocks(S) \cap new) \in Nat
    BY <2>1, <2>2, FS_CardinalityType
  <2>5. Cardinality(Blocks(T)) = Cardinality(Blocks(S) \cup new) BY <1>3, Zenon
  <2> QED BY <1>4, <2>3, <2>4, <2>5
<1>6. /\ Cardinality(new) <= free + Cardinality(Blocks(table[r])) - Cardinality(Blocks(S))
      /\ free' = free + Cardinality(Blocks(table[r])) - Cardinality(Blocks(T))
      /\ UNCHANGED pending
  BY DEF Schedule, Fits, Count
<1>7. /\ table' \in [Req -> Tables]
      /\ \A q \in Req : table'[q] = IF q = r THEN T ELSE table[q]
  BY ScheduleTables
<1>8. /\ Cardinality(Held) \in Nat /\ Cardinality(Held') \in Nat
      /\ Cardinality(Blocks(table[r])) \in Nat
      /\ Cardinality(Held') = Cardinality(Held) - Cardinality(Blocks(table[r]))
                               + Cardinality(Blocks(table'[r]))
  <2> HIDE DEF T
  <2> QED BY <1>7, HeldMoves
<1>9. table'[r] = T BY <1>7
<1>10. Reserved' = Reserved BY <1>6 DEF Reserved
<1>11. Cardinality(Reserved) \in Int /\ Cardinality(new) \in Int
  <2>1. IsFiniteSet(new)
    <3> HIDE DEF S, T, new
    <3> QED BY <1>3, <1>4, FS_Subset
  <2>2. Cardinality(Reserved) \in Int
    <3> DEFINE P == {q \in Req : pending[q] # None}
    <3>1. Reserved = P \X (1..Keep) /\ P \in SUBSET Req BY DEF Reserved
    <3>2. Cardinality(P) \in Nat /\ Cardinality(P \X (1..Keep)) = Keep * Cardinality(P)
      <4> HIDE DEF P
      <4> QED BY <3>1, ReservationCount
    <3> HIDE DEF P
    <3> QED BY <3>1, <3>2, KeepType
  <2> HIDE DEF new
  <2> QED BY <2>1, <2>2, FS_CardinalityType
<1> HIDE DEF S, T, new, m
<1> QED BY <1>4, <1>5, <1>6, <1>8, <1>9, <1>10, <1>11, GroupAssumption DEF PoolExact, Inv, TypeOK

(* Plans are armed only while the pool has room for their copies.           *)
LEMMA ArmPool ==
  ASSUME Inv, PoolExact, NEW A \in SUBSET Req, EndSchedule(A)
  PROVE  PoolExact'
<1> DEFINE P == {r \in Req : pending[r] # None}
<1>1. \A r \in A : pending[r] = None BY DEF EndSchedule, Armable
<1>2. /\ Keep * Cardinality(A) <= free /\ free' = free - Keep * Cardinality(A)
      /\ UNCHANGED table
      /\ \A r \in Req : pending'[r] =
            IF r \in A THEN [semantic |-> Advanced(r), ready |-> FALSE] ELSE pending[r]
  BY DEF EndSchedule
<1>3. \A r \in A : [semantic |-> Advanced(r), ready |-> FALSE] # None
  <2>1. \A r \in A : [semantic |-> Advanced(r), ready |-> FALSE] \in Pending
    BY AdvancedType DEF Pending
  <2> QED BY <2>1, NoneAssumption
<1>4. Reserved = P \X (1..Keep) /\ Reserved' = (P \cup A) \X (1..Keep)
  <2>1. {r \in Req : pending'[r] # None} = P \cup A BY <1>2, <1>3
  <2> QED BY <2>1 DEF Reserved
<1>5. P \in SUBSET Req /\ P \cap A = {} BY <1>1
<1>6. /\ Cardinality((P \cup A) \X (1..Keep)) = Cardinality(P \X (1..Keep)) + Keep * Cardinality(A)
      /\ Cardinality(P) \in Nat /\ Cardinality(P \X (1..Keep)) = Keep * Cardinality(P)
      /\ Cardinality(A) \in Nat
  <2> HIDE DEF P
  <2> QED BY <1>5, ReservationSplit, ReservationCount
<1>7. Keep * Cardinality(A) \in Nat /\ Keep * Cardinality(P) \in Nat
  <2>1. ASSUME NEW k \in Nat, NEW a \in Nat PROVE k * a \in Nat OBVIOUS
  <2> HIDE DEF P
  <2> QED BY <1>6, <2>1, KeepType
<1>8. Held' = Held /\ Cardinality(Held) \in Nat
  BY <1>2, HeldIs, HeldFinite DEF Inv
<1>9. Cardinality(Reserved') = Cardinality(Reserved) + Keep * Cardinality(A)
      /\ Cardinality(Reserved) = Keep * Cardinality(P)
  <2> HIDE DEF P
  <2> QED BY <1>4, <1>6, Zenon
<1> HIDE DEF P
<1> QED BY <1>2, <1>7, <1>8, <1>9, GroupAssumption DEF PoolExact, Inv, TypeOK

LEMMA PoolStep == Inv /\ Inv' /\ PoolExact /\ [Next]_vars => PoolExact'
<1> SUFFICES ASSUME Inv, Inv', PoolExact, [Next]_vars PROVE PoolExact' OBVIOUS
<1>1. CASE BeginSchedule BY <1>1, CommitPool
<1>2. ASSUME NEW r \in Req, NEW d \in 0..Drafts, NEW n \in 1..(tokens[r] - computed[r]),
             Schedule(r, n, d)
      PROVE  PoolExact'
  BY <1>2, SchedulePool
<1>3. ASSUME NEW r \in Req, NEW d \in 0..Drafts, NEW n \in 1..(tokens[r] - computed[r]),
             NEW v \in Req, Preempt(r, v, n, d)
      PROVE  PoolExact'
  <2> DEFINE T == [table EXCEPT ![r] = Trimmed(r)]
  <2>1. /\ T \in [Req -> Tables]
        /\ \A q \in Req : Blocks(T[q]) \subseteq Blocks(table[q])
    <3>1. \A q \in Req : T[q] = IF q = r THEN Trimmed(r) ELSE table[q] BY DEF Inv
    <3> QED BY <3>1, TrimmedType DEF Inv
  <2>2. Free(v, T) BY <1>3 DEF Preempt
  <2> HIDE DEF T
  <2> QED BY <2>1, <2>2, FreePool
<1>4. ASSUME NEW A \in SUBSET Req, EndSchedule(A) PROVE PoolExact'
  BY <1>4, ArmPool
<1>5. ASSUME NEW r \in Req, NEW a \in 0..Drafts, Consume(r, a) PROVE PoolExact'
  <2>1. CASE Free(r, table) BY <2>1, FreePool DEF Inv
  <2>2. CASE ~Free(r, table)
    <3>1. /\ pending' = [pending EXCEPT ![r] =
                           IF @ = None THEN None ELSE [@ EXCEPT !.ready = TRUE]]
          /\ UNCHANGED <<table, free>>
      BY <1>5, <2>2 DEF Consume
    <3>2. pending[r] # None => [pending[r] EXCEPT !.ready = TRUE] # None
      <4>1. pending[r] # None => [pending[r] EXCEPT !.ready = TRUE] \in Pending
        BY DEF Inv, TypeOK, Pending
      <4> QED BY <4>1, NoneAssumption
    <3>3. Reserved' = Reserved BY <3>1, <3>2 DEF Reserved, Inv, TypeOK
    <3> QED BY <3>1, <3>3, HeldIs DEF PoolExact
  <2> QED BY <2>1, <2>2
<1>6. CASE EndUpdate BY <1>6 DEF EndUpdate, PoolExact, Held, Reserved
<1>7. ASSUME NEW r \in Req, Abort(r) PROVE PoolExact'
  BY <1>7, FreePool DEF Abort, Inv
<1>8. CASE Terminated \/ UNCHANGED vars
  BY <1>8 DEF Terminated, vars, PoolExact, Held, Reserved
<1> QED BY <1>1, <1>2, <1>3, <1>4, <1>5, <1>6, <1>7, <1>8 DEF Next

(* Blocks are counted and allocated with the same lengths in every group:   *)
(* the pool is never overdrawn, and no block is lost or freed twice.        *)
THEOREM PoolCorrect == Spec => []PoolExact
<1> QED BY InitType, NextType, InitPool, PoolStep, PTL DEF Spec

----------------------------------------------------------------------------
(* The lengths of the groups.                                               *)

(* Rounding up to blocks is monotone and starts at zero.                    *)
LEMMA RequiredOrder ==
  ASSUME NEW g \in Group, NEW m \in Int, NEW n \in Int
  PROVE  /\ Required(g, m) \in Int /\ StateEntry(g, m) = Required(g, m)
         /\ m <= n => Required(g, m) <= Required(g, n)
         /\ m <= 0 => Required(g, m) <= 0
         /\ Required(g, 0) = 0
<1> DEFINE p == Page[g]
<1>1. p \in Nat \ {0} BY GroupAssumption
<1>2. ASSUME NEW q \in Nat \ {0}, NEW a \in Int, NEW b \in Int
      PROVE  /\ (a + q - 1) \div q \in Int
             /\ a <= b => (a + q - 1) \div q <= (b + q - 1) \div q
  <2> DEFINE x == a + q - 1
             y == b + q - 1
             k == x \div q
             l == y \div q
  <2>1. x \in Int /\ y \in Int BY <1>2
  <2>2. x = q * k + (x % q) /\ x % q \in 0..q - 1 /\ k \in Int BY <1>2, <2>1
  <2>3. y = q * l + (y % q) /\ y % q \in 0..q - 1 /\ l \in Int BY <1>2, <2>1
  <2>4. ASSUME a <= b, l + 1 <= k PROVE FALSE
    <3>1. x <= y BY <2>4
    <3> HIDE DEF x, y, k, l
    <3>2. q * (l + 1) <= q * k BY <1>2, <2>2, <2>3, <2>4
    <3>3. q * (l + 1) = q * l + q BY <1>2, <2>3
    <3> QED BY <1>2, <2>1, <2>2, <2>3, <3>1, <3>2, <3>3
  <2> HIDE DEF k, l
  <2>5. a <= b => k <= l BY <2>2, <2>3, <2>4
  <2> QED BY <2>2, <2>5 DEF k, l
<1>3. ASSUME NEW q \in Nat \ {0} PROVE (0 + q - 1) \div q = 0
  BY <1>3
<1>4. Required(g, 0) = 0 BY <1>1, <1>3 DEF Required, BlocksFor
<1>5. Required(g, m) \in Int /\ (m <= n => Required(g, m) <= Required(g, n))
  BY <1>1, <1>2 DEF Required, BlocksFor
<1>6. m <= 0 => Required(g, m) <= Required(g, 0)
  BY <1>1, <1>2 DEF Required, BlocksFor
<1> QED BY <1>4, <1>5, <1>6 DEF Required, StateEntry

(* A table of group g that holds low tokens, is not larger than high tokens *)
(* need, and has the state after from tokens and every state behind it.     *)
Holds(g, t, low, high, from) ==
  /\ Required(g, low) <= t.size
  /\ t.size <= Required(g, high)
  /\ g = Attention => t.live = 1..t.size
  /\ g # Attention => {i \in StateEntry(g, from)..t.size : i > 0} \subseteq t.live

LEMMA HoldsLess ==
  ASSUME NEW g \in Group, NEW t \in Table,
         NEW low \in Int, NEW high \in Int, NEW from \in Int, Holds(g, t, low, high, from),
         NEW l \in Int, NEW h \in Int, NEW f \in Int, l <= low, high <= h, from <= f
  PROVE  Holds(g, t, l, h, f)
<1>1. t.size \in Nat BY DEF Table
<1>2. /\ Required(g, l) \in Int /\ Required(g, low) \in Int
      /\ Required(g, l) <= Required(g, low)
  BY RequiredOrder
<1>3. /\ Required(g, h) \in Int /\ Required(g, high) \in Int
      /\ Required(g, high) <= Required(g, h)
  BY RequiredOrder
<1>4. /\ StateEntry(g, f) \in Int /\ StateEntry(g, from) \in Int
      /\ StateEntry(g, from) <= StateEntry(g, f)
  BY RequiredOrder
<1>5. ASSUME NEW i \in StateEntry(g, f)..t.size
      PROVE  i \in StateEntry(g, from)..t.size
  BY <1>1, <1>4
<1> QED BY <1>1, <1>2, <1>3, <1>5 DEF Holds

(* An empty table holds nothing.                                            *)
LEMMA EmptyHolds ==
  ASSUME NEW g \in Group, NEW high \in Nat, NEW from \in Int
  PROVE  Holds(g, Empty, 0, high, from)
<1>1. /\ Required(g, 0) = 0 /\ Required(g, high) \in Int
      /\ Required(g, 0) <= Required(g, high)
  BY RequiredOrder
<1>2. Empty.size = 0 /\ Empty.live = {} /\ 1..0 = {} BY DEF Empty
<1>3. StateEntry(g, from) \in Int BY RequiredOrder
<1>4. {i \in StateEntry(g, from)..0 : i > 0} = {} BY <1>3
<1> QED BY <1>1, <1>2, <1>4 DEF Holds

(* Trimming at n tokens leaves the state after n tokens.                    *)
LEMMA SkippedHolds ==
  ASSUME NEW g \in Group, NEW t \in Table,
         NEW low, NEW high, NEW n \in Int, Holds(g, t, low, high, n)
  PROVE  Holds(g, Skipped(t, g, n), low, high, n)
<1>1. CASE g = Attention BY <1>1 DEF Skipped
<1>2. CASE g # Attention
  <2>1. Skipped(t, g, n) =
          [size |-> t.size, live |-> {i \in t.live : i >= StateEntry(g, n)}]
    BY <1>2 DEF Skipped, Table
  <2>2. StateEntry(g, n) \in Int BY RequiredOrder
  <2>3. \A i \in StateEntry(g, n)..t.size : i >= StateEntry(g, n) BY <2>2
  <2> QED BY <1>2, <2>1, <2>3 DEF Holds
<1> QED BY <1>1, <1>2

(* So does allocating for w tokens what was counted.                        *)
LEMMA ExtendedHolds ==
  ASSUME NEW g \in Group, NEW t \in Table, Filled(t), NEW w \in Int, NEW u,
         u = [size |-> t.size + Cardinality(Added(t, g, w)), live |-> t.live \cup Added(t, g, w)],
         NEW low \in Int, NEW high \in Int, NEW from \in Int, Holds(g, t, low, high, from),
         NEW l \in Int, NEW h \in Int, l <= w, high <= h, w <= h \/ w <= 0
  PROVE  Holds(g, u, l, h, from)
<1> DEFINE s == t.size
           e == Required(g, w)
<1>1. s \in Nat /\ e \in Int BY RequiredOrder DEF Table
<1>2. Added(t, g, w) = s + 1 .. e BY DEF Added
<1>3. Cardinality(s + 1 .. e) = IF s + 1 > e THEN 0 ELSE e - (s + 1) + 1
  <2> HIDE DEF s, e
  <2> QED BY <1>1, FS_Interval
<1>4. u.size = IF e > s THEN e ELSE s
  <2>1. u.size = s + Cardinality(s + 1 .. e) BY <1>2
  <2> HIDE DEF s, e
  <2> QED BY <1>1, <1>3, <2>1
<1>5. u.live = t.live \cup (s + 1 .. e) BY <1>2
<1>6. /\ Required(g, l) \in Int /\ Required(g, l) <= e
      /\ Required(g, high) \in Int /\ Required(g, h) \in Int
      /\ Required(g, high) <= Required(g, h)
      /\ e <= Required(g, h) \/ e <= 0
  BY RequiredOrder
<1>7. s <= Required(g, high) BY DEF Holds
<1>8. g = Attention => t.live = 1..s BY DEF Holds
<1>9. g # Attention => {i \in StateEntry(g, from)..s : i > 0} \subseteq t.live BY DEF Holds
<1>10. StateEntry(g, from) \in Int BY RequiredOrder
<1> HIDE DEF s, e
<1>11. Required(g, l) <= u.size /\ u.size <= Required(g, h)
  BY <1>1, <1>4, <1>6, <1>7
<1>12. g = Attention => u.live = 1..u.size
  BY <1>1, <1>4, <1>5, <1>8
<1>13. g # Attention => {i \in StateEntry(g, from)..u.size : i > 0} \subseteq u.live
  BY <1>1, <1>4, <1>5, <1>9, <1>10
<1> QED BY <1>11, <1>12, <1>13 DEF Holds

(* A plan is made for a length that can neither grow nor roll back before   *)
(* it is committed: the step it was made for carries no drafts, and no      *)
(* other step comes between.  A waiting request has computed nothing.       *)
Planned(r) ==
  /\ status[r] = "waiting" => computed[r] = 0
  /\ batch[r] # None => batch[r].drafts <= Drafts
  /\ pending[r] # None =>
       /\ phase # "building" /\ pending[r].semantic = computed[r]
       /\ batch[r] # None => batch[r].drafts = 0
       /\ batch[r] = None => pending[r].ready

(* What a step that is built or out may give back, and what the tables      *)
(* hold: the attention table never more than the drafts ask for beyond what *)
(* is left when all of them are rejected.                                   *)
Rejectable(r) == IF phase # "idle" /\ batch[r] # None THEN batch[r].drafts ELSE 0
Snug(r, g) ==
  Holds(g, table[r][g], Length(r, g), Length(r, g) - Rejectable(r) + 2 * Drafts, Start(r))
FitInv ==
  /\ \A r \in Req : Planned(r)
  /\ \A r \in Req, g \in Group : status[r] # "finished" => Snug(r, g)

LEMMA FitType ==
  ASSUME Inv, NEW r \in Req, NEW g \in Group
  PROVE  /\ Length(r, g) \in Int /\ Rejectable(r) \in Nat /\ Start(r) \in Int
         /\ Drafts \in Nat /\ 2 * Drafts \in Nat /\ table[r][g] \in Table /\ Filled(table[r][g])
<1>1. /\ computed[r] \in Nat /\ Advanced(r) \in Nat
      /\ batch[r] # None => batch[r].n \in Nat /\ batch[r].drafts \in Nat
      /\ active[r] # None => active[r].semantic \in Nat /\ active[r].physical \in Nat
  BY AdvancedType DEF Inv, TypeOK, Item, Active
<1>2. Length(r, g) \in Int
  <2> HIDE DEF Advanced
  <2> QED BY <1>1 DEF Length
<1>3. Start(r) \in Int BY <1>1 DEF Start
<1>4. Drafts \in Nat /\ 2 * Drafts \in Nat BY ConfigAssumption
<1>5. table[r][g] \in Table /\ Filled(table[r][g]) BY DEF Inv, Tables
<1> QED BY <1>1, <1>2, <1>3, <1>4, <1>5 DEF Rejectable

LEMMA InitFit == Init => FitInv
<1> SUFFICES ASSUME Init PROVE FitInv OBVIOUS
<1>1. \A r \in Req : Planned(r) BY DEF Init, Planned
<1>2. ASSUME NEW r \in Req, NEW g \in Group PROVE Snug(r, g)
  <2>1. /\ computed[r] = 0 /\ active[r] = None /\ batch[r] = None /\ phase = "idle"
        /\ table[r][g] = Empty
    BY DEF Init
  <2>2. Length(r, g) = 0 /\ Start(r) = 0 /\ Rejectable(r) = 0
    BY <2>1 DEF Length, Start, Rejectable
  <2>3. 0 - 0 + 2 * Drafts \in Nat BY ConfigAssumption
  <2> QED BY <2>1, <2>2, <2>3, EmptyHolds DEF Snug
<1> QED BY <1>1, <1>2 DEF FitInv

(* A table that stays, under a length that does not grow by more than can   *)
(* be given back.                                                           *)
LEMMA SnugKept ==
  ASSUME Inv, Inv', FitInv, NEW q \in Req, NEW g \in Group, status[q] # "finished",
         table'[q][g] = table[q][g],
         Length(q, g)' <= Length(q, g), Start(q) <= Start(q)',
         Length(q, g) - Rejectable(q) <= Length(q, g)' - Rejectable(q)'
  PROVE  Snug(q, g)'
<1> DEFINE t == table[q][g]
           l == Length(q, g)
           h == Length(q, g) - Rejectable(q) + 2 * Drafts
           f == Start(q)
<1>1. Holds(g, t, l, h, f) BY DEF FitInv, Snug
<1>2. t \in Table /\ l \in Int /\ h \in Int /\ f \in Int
  <2>1. Length(q, g) \in Int /\ Rejectable(q) \in Nat /\ 2 * Drafts \in Nat /\ Start(q) \in Int
        /\ table[q][g] \in Table
    BY FitType
  <2> QED BY <2>1
<1>3. /\ Length(q, g)' \in Int /\ Rejectable(q)' \in Nat /\ Start(q)' \in Int
  <2>1. /\ computed'[q] \in Nat
        /\ batch'[q] # None => batch'[q].n \in Nat /\ batch'[q].drafts \in Nat
        /\ active'[q] # None => active'[q].semantic \in Nat /\ active'[q].physical \in Nat
    BY DEF Inv, TypeOK, Item, Active
  <2>2. Advanced(q)' \in Nat BY <2>1 DEF Advanced
  <2>3. Length(q, g)' \in Int
    <3> HIDE DEF Advanced
    <3> QED BY <2>1, <2>2 DEF Length
  <2> QED BY <2>1, <2>3 DEF Start, Rejectable
<1>4. PICK x : x = Length(q, g)' OBVIOUS
<1>5. PICK y : y = Rejectable(q)' OBVIOUS
<1>6. PICK z : z = Start(q)' OBVIOUS
<1>7. x <= l /\ f <= z /\ h <= x - y + 2 * Drafts /\ x \in Int /\ z \in Int
      /\ x - y + 2 * Drafts \in Int
  <2>1. Length(q, g) \in Int /\ Rejectable(q) \in Int /\ 2 * Drafts \in Int
    BY FitType
  <2> QED BY <1>3, <1>4, <1>5, <1>6, <2>1
<1> HIDE DEF t, l, h, f
<1>8. Holds(g, t, x, x - y + 2 * Drafts, z) BY <1>1, <1>2, <1>7, HoldsLess
<1>9. Snug(q, g)' <=>
        Holds(g, table'[q][g], Length(q, g)',
              Length(q, g)' - Rejectable(q)' + 2 * Drafts, Start(q)')
  BY DEF Snug, Holds, StateEntry, Required
<1> QED BY <1>4, <1>5, <1>6, <1>8, <1>9 DEF t

(* A request no step touches: what its batch, its compression and its       *)
(* computed tokens say stays the same when the phase goes from idle to      *)
(* building or from out to idle without a batch, or not at all.             *)
LEMMA SnugSame ==
  ASSUME Inv, Inv', FitInv, NEW q \in Req, NEW g \in Group, status[q] # "finished",
         table'[q][g] = table[q][g], computed'[q] = computed[q], batch'[q] = batch[q],
         g = Attention => active'[q] = active[q],
         phase' = phase \/ batch[q] = None
  PROVE  Snug(q, g)'
<1>1. Length(q, g)' = Length(q, g) /\ Start(q)' = Start(q) /\ Rejectable(q)' = Rejectable(q)
  BY DEF Length, Advanced, Start, Rejectable
<1>2. Length(q, g) \in Int /\ Start(q) \in Int /\ Rejectable(q) \in Nat BY FitType
<1>3. /\ Length(q, g)' <= Length(q, g) /\ Start(q) <= Start(q)'
      /\ Length(q, g) - Rejectable(q) <= Length(q, g)' - Rejectable(q)'
  BY <1>1, <1>2
<1> QED BY <1>3, SnugKept

(* A commit: the private copy holds the budget, which is what is left of    *)
(* the length the plan was made for.                                        *)
LEMMA CommitFits ==
  ASSUME Inv, Inv', FitInv, BeginSchedule
  PROVE  FitInv'
<1>1. /\ phase = "idle" /\ phase' = "building" /\ batch = [r \in Req |-> None]
      /\ UNCHANGED <<status, computed, tokens, batch>>
  BY DEF BeginSchedule, Inv, TypeOK
<1>2. ASSUME NEW r \in Req
      PROVE  /\ pending'[r] = IF r \in Committing THEN None ELSE pending[r]
             /\ active'[r] = IF r \in Committing
                  THEN [semantic |-> pending[r].semantic, physical |-> Budget] ELSE active[r]
             /\ table'[r] = IF r \in Committing
                  THEN [table[r] EXCEPT ![Attention] = [size |-> Keep, live |-> 1..Keep]]
                  ELSE table[r]
             /\ r \in Committing <=> pending[r] # None /\ pending[r].ready
  BY DEF BeginSchedule, Committing
<1>3. ASSUME NEW r \in Req PROVE Planned(r)'
  BY <1>1, <1>2 DEF FitInv, Planned
<1>4. ASSUME NEW r \in Req, NEW g \in Group, status'[r] # "finished" PROVE Snug(r, g)'
  <2>1. CASE r \notin Committing \/ g # Attention
    <3>1. table'[r][g] = table[r][g]
      <4>1. table[r] \in [Group -> Table] BY DEF Inv, TypeOK
      <4>2. CASE r \in Committing /\ g # Attention BY <1>2, <4>1, <4>2
      <4>3. CASE r \notin Committing BY <1>2, <4>3
      <4> QED BY <2>1, <4>2, <4>3
    <3>2. g = Attention => active'[r] = active[r] BY <1>2, <2>1
    <3>3. status[r] # "finished" /\ computed'[r] = computed[r] /\ batch'[r] = batch[r]
          /\ batch[r] = None
      BY <1>1, <1>4
    <3> QED BY <3>1, <3>2, <3>3, SnugSame
  <2>2. CASE r \in Committing /\ g = Attention
    <3> DEFINE copy == [size |-> Keep, live |-> 1..Keep]
               c == computed[r]
    <3>1. table'[r][g] = copy
      <4>1. table[r] \in [Group -> Table] BY DEF Inv, TypeOK
      <4>2. table'[r] = [table[r] EXCEPT ![Attention] = copy] BY <1>2, <2>2
      <4> HIDE DEF copy
      <4> QED BY <2>2, <4>1, <4>2
    <3>2. active'[r] = [semantic |-> pending[r].semantic, physical |-> Budget]
          /\ pending[r] # None /\ pending[r].semantic = c
      BY <1>2, <2>2 DEF FitInv, Planned
    <3>3. c \in Nat /\ Budget \in Nat BY ConfigAssumption DEF Inv, TypeOK
    <3>4. Length(r, g)' = c - (c - Budget)
      <4>1. active'[r] \in Active BY <3>2, <3>3 DEF Active
      <4>2. active'[r] # None BY <4>1, NoneAssumption
      <4>3. active'[r].semantic = c /\ active'[r].physical = Budget BY <3>2
      <4>4. Advanced(r)' = c BY <1>1 DEF Advanced
      <4> QED BY <1>1, <2>2, <4>2, <4>3, <4>4 DEF Length
    <3>5. Rejectable(r)' = 0 /\ Start(r)' = c BY <1>1 DEF Rejectable, Start
    <3>6. Required(g, Budget) = Keep BY <2>2 DEF Required, Keep
    <3>7. Keep \in Nat BY KeepType
    <3>8. Holds(g, copy, Budget, Budget, c)
      <4>1. copy.size = Keep /\ copy.live = 1..Keep OBVIOUS
      <4> HIDE DEF copy, c
      <4> QED BY <2>2, <3>6, <3>7, <4>1 DEF Holds
    <3>9. copy \in Table BY <3>7 DEF Table
    <3>10. /\ Budget + 2 * Drafts \in Int /\ Budget <= Budget + 2 * Drafts
           /\ Length(r, g)' = Budget
           /\ Length(r, g)' - Rejectable(r)' + 2 * Drafts = Budget + 2 * Drafts
      BY <3>3, <3>4, <3>5, ConfigAssumption
    <3> HIDE DEF copy, c
    <3>11. Holds(g, copy, Budget, Budget + 2 * Drafts, c)
      BY <3>3, <3>8, <3>9, <3>10, HoldsLess
    <3>12. Snug(r, g)' <=>
             Holds(g, table'[r][g], Length(r, g)',
                   Length(r, g)' - Rejectable(r)' + 2 * Drafts, Start(r)')
      BY DEF Snug, Holds, StateEntry, Required
    <3> QED BY <3>1, <3>5, <3>10, <3>11, <3>12
  <2> QED BY <2>1, <2>2
<1> QED BY <1>3, <1>4 DEF FitInv

(* Scheduling: what is allocated is what the new length needs, and no more  *)
(* than the drafts on top of it.                                            *)
LEMMA ScheduleFits ==
  ASSUME Inv, Inv', FitInv, NEW r \in Req, NEW d \in 0..Drafts,
         NEW n \in 1..(tokens[r] - computed[r]), Schedule(r, n, d)
  PROVE  FitInv'
<1>1. /\ phase = "building" /\ phase' = "building" /\ batch[r] = None
      /\ status[r] # "finished"
      /\ UNCHANGED <<computed, tokens, pending, active>>
      /\ status' = [status EXCEPT ![r] = "running"]
      /\ batch' = [batch EXCEPT ![r] = [n |-> n, drafts |-> d]]
  BY DEF Schedule, Schedulable
<1>2. /\ batch'[r] = [n |-> n, drafts |-> d] /\ status'[r] = "running"
      /\ \A q \in Req \ {r} : batch'[q] = batch[q] /\ status'[q] = status[q]
  BY <1>1 DEF Inv, TypeOK
<1>3. n \in Nat /\ d \in Nat /\ computed[r] \in Nat /\ Drafts \in Nat /\ d <= Drafts
      /\ tokens[r] \in Nat /\ 2 * Drafts \in Nat /\ Drafts <= 2 * Drafts
  BY ConfigAssumption DEF Inv, TypeOK
<1>4. batch'[r] # None /\ batch'[r].n = n /\ batch'[r].drafts = d
  <2>1. batch'[r] \in Item BY <1>2, <1>3 DEF Item
  <2> QED BY <1>2, <2>1, NoneAssumption
<1>5. ASSUME NEW q \in Req PROVE Planned(q)'
  <2>1. Planned(q) BY DEF FitInv
  <2>2. CASE q = r
    BY <1>1, <1>2, <1>3, <1>4, <2>1, <2>2 DEF Planned
  <2>3. CASE q # r
    <3>1. batch'[q] = batch[q] /\ status'[q] = status[q] BY <1>2, <2>3
    <3> QED BY <1>1, <2>1, <3>1 DEF Planned
  <2> QED BY <2>2, <2>3
<1>6. ASSUME NEW g \in Group PROVE Snug(r, g)'
  <2> DEFINE c == computed[r]
             m == computed[r] + n + d
             t == table[r][g]
             w == GroupTokens(r, g, Wanted(g, m))
             s == Skipped(t, g, GroupTokens(r, g, c))
             u == [size |-> s.size + Cardinality(Added(s, g, w)),
                   live |-> s.live \cup Added(s, g, w)]
             l == Length(r, g)
  <2>1. /\ c \in Nat /\ m \in Int /\ l \in Int /\ t \in Table /\ Filled(t)
        /\ w \in Int /\ s \in Table /\ Filled(s) /\ GroupTokens(r, g, c) \in Int
    <3>1. m \in Int /\ c \in Int /\ c \in Nat BY <1>3
    <3>2. Wanted(g, m) \in Int BY <3>1, <1>3 DEF Wanted
    <3>3. w \in Int /\ GroupTokens(r, g, c) \in Int
      BY <3>1, <3>2, GroupTokensType DEF Inv, TypeOK
    <3>4. t \in Table /\ Filled(t) /\ l \in Int BY FitType
    <3>5. s \in Table /\ Filled(s) BY <3>3, <3>4, SkippedType
    <3> QED BY <3>1, <3>3, <3>4, <3>5
  <2>2. table'[r][g] = u
    <3>1. table'[r] = Allocated(r, Trimmed(r), m) BY ScheduleTables
    <3>2. Trimmed(r)[g] = s BY DEF Trimmed
    <3> QED BY <3>1, <3>2 DEF Allocated
  <2>3. Start(r) = c /\ Start(r)' = c BY <1>1 DEF Start
  <2>4. Rejectable(r) = 0 /\ Rejectable(r)' = d BY <1>1, <1>4 DEF Rejectable
  <2>5. Holds(g, t, l, l + 2 * Drafts, c)
    <3>1. Snug(r, g) BY <1>1 DEF FitInv
    <3>2. l - 0 + 2 * Drafts = l + 2 * Drafts BY <2>1, <1>3
    <3> HIDE DEF l, c, t
    <3> QED BY <2>3, <2>4, <3>1, <3>2 DEF Snug, l, t
  <2>6. Holds(g, s, l, l + 2 * Drafts, c)
    <3>1. CASE g = Attention
      <4>1. s = t BY <3>1 DEF Skipped
      <4> QED BY <4>1, <2>5
    <3>2. CASE g # Attention
      <4>1. GroupTokens(r, g, c) = c BY <3>2 DEF GroupTokens
      <4> QED BY <4>1, <2>1, <2>5, SkippedHolds
    <3> QED BY <3>1, <3>2
  <2>7. Length(r, g)' = l + n + d
    <3>1. Advanced(r) = c /\ Advanced(r)' = c + n + d BY <1>1, <1>4 DEF Advanced
    <3>2. /\ active[r] # None => active[r].semantic \in Nat /\ active[r].physical \in Nat
      BY DEF Inv, TypeOK, Active
    <3> HIDE DEF Advanced
    <3> QED BY <1>1, <1>3, <3>1, <3>2 DEF Length
  <2>8. /\ l + n + d <= w
        /\ w <= l + n + d - d + 2 * Drafts \/ w <= 0
    <3>1. Advanced(r) = c BY <1>1 DEF Advanced
    <3>2. CASE g # Attention
      <4>1. l = c BY <1>1, <2>1, <3>1, <3>2 DEF Length
      <4>2. w = m BY <3>2 DEF GroupTokens, Wanted
      <4> HIDE DEF l, w
      <4> QED BY <1>3, <4>1, <4>2
    <3>3. CASE g = Attention /\ active[r] = None
      <4>1. l = c BY <1>1, <2>1, <3>1, <3>3 DEF Length
      <4>2. w = m + Drafts BY <3>3 DEF GroupTokens, Wanted
      <4> HIDE DEF l, w
      <4> QED BY <1>3, <4>1, <4>2
    <3>4. CASE g = Attention /\ active[r] # None
      <4> DEFINE x == active[r].semantic - active[r].physical
      <4>1. x \in Int BY <3>4 DEF Inv, TypeOK, Active
      <4>2. l = c - x BY <1>1, <3>1, <3>4 DEF Length
      <4>3. w = IF (m + Drafts) - x > 0 THEN (m + Drafts) - x ELSE 0
        BY <3>4 DEF GroupTokens, Wanted, PhysicalTokens
      <4> HIDE DEF x
      <4> QED BY <1>3, <4>1, <4>2, <4>3
    <3> QED BY <3>2, <3>3, <3>4
  <2> HIDE DEF c, m, t, w, s, l
  <2>9. Holds(g, u, l + n + d, l + n + d - d + 2 * Drafts, c)
    <3>1. /\ l + n + d \in Int /\ l + n + d - d + 2 * Drafts \in Int /\ l + 2 * Drafts \in Int
          /\ l + 2 * Drafts <= l + n + d - d + 2 * Drafts
      BY <1>3, <2>1
    <3> HIDE DEF u
    <3> QED BY <2>1, <2>6, <2>8, <3>1, ExtendedHolds DEF u
  <2>10. Snug(r, g)' <=>
           Holds(g, table'[r][g], Length(r, g)',
                 Length(r, g)' - Rejectable(r)' + 2 * Drafts, Start(r)')
    BY DEF Snug, Holds, StateEntry, Required
  <2>11. Length(r, g)' - Rejectable(r)' + 2 * Drafts = l + n + d - d + 2 * Drafts
    BY <1>3, <2>1, <2>4, <2>7
  <2> HIDE DEF u
  <2> QED BY <2>2, <2>3, <2>7, <2>9, <2>10, <2>11
<1>7. ASSUME NEW q \in Req, NEW g \in Group, status'[q] # "finished", q # r PROVE Snug(q, g)'
  <2>1. table'[q] = table[q] BY <1>7, ScheduleTables
  <2> QED BY <1>1, <1>2, <1>7, <2>1, SnugSame
<1> QED BY <1>5, <1>6, <1>7 DEF FitInv

(* A preemption: r is trimmed at its computed tokens, and the victim starts *)
(* again from nothing.                                                      *)
LEMMA PreemptFits ==
  ASSUME Inv, Inv', FitInv, NEW r \in Req, NEW v \in Req, NEW d \in 0..Drafts,
         NEW n \in 1..(tokens[r] - computed[r]), Preempt(r, v, n, d)
  PROVE  FitInv'
<1> DEFINE T == [table EXCEPT ![r] = Trimmed(r)]
<1>1. /\ phase = "building" /\ phase' = "building" /\ batch[r] = None /\ batch[v] = None
      /\ status[r] = "running" /\ UNCHANGED <<tokens, batch>>
      /\ status' = [status EXCEPT ![v] = "waiting"]
      /\ computed' = [computed EXCEPT ![v] = 0]
  BY DEF Preempt, Schedulable
<1>2. /\ status'[v] = "waiting" /\ computed'[v] = 0
      /\ \A q \in Req \ {v} : status'[q] = status[q] /\ computed'[q] = computed[q]
  BY <1>1 DEF Inv, TypeOK
<1>3. T \in [Req -> Tables] /\ T[r] = Trimmed(r) /\ \A q \in Req \ {r} : T[q] = table[q]
  BY TrimmedType DEF Inv
<1>4. Free(v, T) BY DEF Preempt
<1> HIDE DEF T
<1>5. /\ \A q \in Req : table'[q] = IF q = v THEN [g \in Group |-> Empty] ELSE T[q]
      /\ pending'[v] = None /\ active'[v] = None
      /\ \A q \in Req \ {v} : pending'[q] = pending[q] /\ active'[q] = active[q]
  BY <1>3, <1>4, FreeType
<1>6. ASSUME NEW q \in Req PROVE Planned(q)'
  <2>1. Planned(q) BY DEF FitInv
  <2>2. CASE q = v BY <1>1, <1>2, <1>5, <2>2 DEF Planned
  <2>3. CASE q # v
    <3>1. status'[q] = status[q] /\ computed'[q] = computed[q] /\ pending'[q] = pending[q]
      BY <1>2, <1>5, <2>3
    <3> QED BY <1>1, <2>1, <3>1 DEF Planned
  <2> QED BY <2>2, <2>3
<1>7. ASSUME NEW q \in Req, NEW g \in Group, status'[q] # "finished" PROVE Snug(q, g)'
  <2>1. CASE q = v
    <3>1. table'[v][g] = Empty BY <1>5
    <3>2. Length(v, g)' = 0 /\ Start(v)' = 0 /\ Rejectable(v)' = 0
      BY <1>1, <1>2, <1>5 DEF Length, Advanced, Start, Rejectable
    <3>3. 2 * Drafts \in Nat /\ 0 - 0 + 2 * Drafts = 2 * Drafts BY ConfigAssumption
    <3>4. Holds(g, Empty, 0, 2 * Drafts, 0) BY <3>3, EmptyHolds
    <3>5. Snug(v, g)' <=>
            Holds(g, table'[v][g], Length(v, g)',
                  Length(v, g)' - Rejectable(v)' + 2 * Drafts, Start(v)')
      BY DEF Snug, Holds, StateEntry, Required
    <3> QED BY <2>1, <3>1, <3>2, <3>3, <3>4, <3>5
  <2>2. CASE q # v /\ q # r
    <3>1. table'[q] = table[q] /\ active'[q] = active[q] /\ status[q] # "finished"
          /\ computed'[q] = computed[q]
      BY <1>2, <1>3, <1>5, <1>7, <2>2
    <3> QED BY <1>1, <3>1, SnugSame
  <2>3. CASE q # v /\ q = r
    <3> DEFINE t == table[r][g]
               c == computed[r]
               s == Skipped(t, g, GroupTokens(r, g, c))
               l == Length(r, g)
               h == Length(r, g) - Rejectable(r) + 2 * Drafts
    <3>1. table'[r][g] = s
      <4>1. table'[r] = Trimmed(r) BY <1>3, <1>5, <2>3
      <4> QED BY <4>1 DEF Trimmed
    <3>2. /\ active'[r] = active[r] /\ computed'[r] = computed[r]
      BY <1>2, <1>5, <2>3
    <3>3. Length(r, g)' = l /\ Start(r)' = c /\ Start(r) = c
          /\ Length(r, g)' - Rejectable(r)' + 2 * Drafts = h
      BY <1>1, <3>2 DEF Length, Advanced, Start, Rejectable
    <3>4. Holds(g, t, l, h, c) BY <1>1, <3>3 DEF FitInv, Snug
    <3>5. t \in Table /\ c \in Int BY FitType DEF Inv, TypeOK
    <3>6. Holds(g, s, l, h, c)
      <4>1. CASE g = Attention
        <5>1. s = t BY <4>1 DEF Skipped
        <5> QED BY <3>4, <5>1
      <4>2. CASE g # Attention
        <5>1. GroupTokens(r, g, c) = c BY <4>2 DEF GroupTokens
        <5> HIDE DEF l, h, t, c
        <5> QED BY <3>4, <3>5, <5>1, SkippedHolds DEF s
      <4> QED BY <4>1, <4>2
    <3>7. Snug(r, g)' <=>
            Holds(g, table'[r][g], Length(r, g)',
                  Length(r, g)' - Rejectable(r)' + 2 * Drafts, Start(r)')
      BY DEF Snug, Holds, StateEntry, Required
    <3> HIDE DEF t, c, s, l, h
    <3> QED BY <2>3, <3>1, <3>3, <3>6, <3>7
  <2> QED BY <2>1, <2>2, <2>3
<1> QED BY <1>6, <1>7 DEF FitInv

(* The end of scheduling: the computed tokens are where the batch brings    *)
(* the request, which is where a plan is made for it.                       *)
LEMMA EndScheduleFits ==
  ASSUME Inv, Inv', FitInv, NEW A \in SUBSET Req, EndSchedule(A)
  PROVE  FitInv'
<1>1. /\ phase = "building" /\ phase' = "out"
      /\ UNCHANGED <<status, tokens, table, active, batch>>
      /\ \A r \in Req : computed'[r] = Advanced(r)
      /\ \A r \in Req : pending'[r] =
           IF r \in A THEN [semantic |-> Advanced(r), ready |-> FALSE] ELSE pending[r]
      /\ \A r \in A : batch[r] # None /\ batch[r].drafts = 0
  BY DEF EndSchedule, Armable
<1>2. ASSUME NEW q \in Req PROVE Planned(q)'
  <2>1. Planned(q) BY DEF FitInv
  <2>2. status[q] = "waiting" => Advanced(q) = computed[q]
    BY DEF Inv, TypeOK, Advanced
  <2>3. pending[q] = None BY <1>1, <2>1 DEF Planned
  <2>4. q \notin A => pending'[q] = None BY <1>1, <2>3
  <2>5. q \in A => pending'[q].semantic = computed'[q]
    <3>1. q \in A => pending'[q] = [semantic |-> Advanced(q), ready |-> FALSE]
      BY <1>1
    <3>2. computed'[q] = Advanced(q) BY <1>1
    <3> QED BY <3>1, <3>2
  <2> HIDE DEF Advanced
  <2> QED BY <1>1, <2>1, <2>2, <2>4, <2>5 DEF Planned
<1>3. ASSUME NEW q \in Req, NEW g \in Group, status'[q] # "finished" PROVE Snug(q, g)'
  <2>1. Length(q, g)' = Length(q, g) /\ Rejectable(q)' = Rejectable(q)
    <3> HIDE DEF Advanced
    <3> QED BY <1>1 DEF Length, Rejectable
  <2>2. Start(q)' = Start(q)
    <3>1. batch[q] # None => batch[q].n \in Nat /\ batch[q].drafts \in Nat
      BY DEF Inv, TypeOK, Item
    <3>2. computed[q] \in Nat BY DEF Inv, TypeOK
    <3> QED BY <1>1, <3>1, <3>2 DEF Start, Advanced
  <2>3. Length(q, g) \in Int /\ Start(q) \in Int /\ Rejectable(q) \in Nat BY FitType
  <2>4. /\ Length(q, g)' <= Length(q, g) /\ Start(q) <= Start(q)'
        /\ Length(q, g) - Rejectable(q) <= Length(q, g)' - Rejectable(q)'
    BY <2>1, <2>2, <2>3
  <2> QED BY <1>1, <1>3, <2>4, SnugKept
<1> QED BY <1>2, <1>3 DEF FitInv

(* An output: the drafts that were rejected are rolled back.                *)
LEMMA ConsumeFits ==
  ASSUME Inv, Inv', FitInv, NEW r \in Req, NEW a \in 0..Drafts, Consume(r, a)
  PROVE  FitInv'
<1>1. /\ phase = "out" /\ phase' = "out" /\ batch[r] # None
      /\ batch' = [batch EXCEPT ![r] = None]
      /\ computed' = [computed EXCEPT ![r] = @ - (batch[r].drafts - a)]
      /\ a \in 0..batch[r].drafts
  BY DEF Consume
<1>2. /\ batch'[r] = None /\ computed'[r] = computed[r] - (batch[r].drafts - a)
      /\ \A q \in Req \ {r} : batch'[q] = batch[q] /\ computed'[q] = computed[q]
  BY <1>1 DEF Inv, TypeOK
<1>3. \/ /\ Free(r, table) /\ status' = [status EXCEPT ![r] = "finished"]
      \/ /\ pending' = [pending EXCEPT ![r] =
                          IF @ = None THEN None ELSE [@ EXCEPT !.ready = TRUE]]
         /\ UNCHANGED <<status, table, free, active>>
  BY DEF Consume
<1>4. /\ batch[r].n \in Nat /\ batch[r].drafts \in Nat /\ computed[r] \in Nat /\ a \in Nat
      /\ a <= batch[r].drafts /\ status[r] = "running"
  BY <1>1 DEF Inv, TypeOK, Item
<1>5. \/ status'[r] = "finished" /\ pending'[r] = None
      \/ /\ status'[r] = status[r] /\ table'[r] = table[r] /\ active'[r] = active[r]
         /\ pending[r] = None => pending'[r] = None
         /\ pending[r] # None =>
              pending'[r].semantic = pending[r].semantic /\ pending'[r].ready
  <2>1. CASE Free(r, table) /\ status' = [status EXCEPT ![r] = "finished"]
    BY <2>1 DEF Free, Inv, TypeOK
  <2>2. CASE /\ pending' = [pending EXCEPT ![r] =
                              IF @ = None THEN None ELSE [@ EXCEPT !.ready = TRUE]]
             /\ UNCHANGED <<status, table, free, active>>
    <3>1. pending'[r] = IF pending[r] = None THEN None ELSE [pending[r] EXCEPT !.ready = TRUE]
      BY <2>2 DEF Inv, TypeOK
    <3>2. pending[r] # None => pending[r] \in Pending BY DEF Inv, TypeOK
    <3>3. pending[r] # None =>
            pending'[r].semantic = pending[r].semantic /\ pending'[r].ready
      BY <3>1, <3>2 DEF Pending
    <3> QED BY <2>2, <3>1, <3>3
  <2> QED BY <1>3, <2>1, <2>2
<1>6. \A q \in Req \ {r} : /\ status'[q] = status[q] /\ pending'[q] = pending[q]
                           /\ table'[q] = table[q] /\ active'[q] = active[q]
  BY <1>3 DEF Free, Inv, TypeOK
<1>7. ASSUME NEW q \in Req PROVE Planned(q)'
  <2>1. Planned(q) BY DEF FitInv
  <2>2. CASE q = r
    <3>1. CASE status'[r] = "finished" /\ pending'[r] = None
      BY <1>2, <2>2, <3>1 DEF Planned
    <3>2. CASE status'[r] = status[r] /\ pending[r] = None /\ pending'[r] = None
      BY <1>2, <1>4, <2>2, <3>2 DEF Planned
    <3>3. CASE /\ status'[r] = status[r] /\ pending[r] # None
               /\ pending'[r].semantic = pending[r].semantic /\ pending'[r].ready
      <4>1. batch[r].drafts = 0 /\ pending[r].semantic = computed[r]
        BY <1>1, <2>1, <2>2, <3>3 DEF Planned
      <4>2. computed'[r] = computed[r] BY <1>2, <1>4, <4>1
      <4> QED BY <1>1, <1>2, <1>4, <2>2, <3>3, <4>1, <4>2 DEF Planned
    <3> QED BY <1>5, <3>1, <3>2, <3>3
  <2>3. CASE q # r
    <3>1. /\ status'[q] = status[q] /\ pending'[q] = pending[q]
          /\ batch'[q] = batch[q] /\ computed'[q] = computed[q]
      BY <1>2, <1>6, <2>3
    <3> QED BY <1>1, <2>1, <3>1 DEF Planned
  <2> QED BY <2>2, <2>3
<1>8. ASSUME NEW q \in Req, NEW g \in Group, status'[q] # "finished" PROVE Snug(q, g)'
  <2>1. CASE q # r
    <3>1. /\ table'[q] = table[q] /\ active'[q] = active[q] /\ status[q] # "finished"
          /\ batch'[q] = batch[q] /\ computed'[q] = computed[q]
      BY <1>2, <1>6, <1>8, <2>1
    <3> QED BY <1>1, <3>1, SnugSame
  <2>2. CASE q = r
    <3>1. table'[r] = table[r] /\ active'[r] = active[r] /\ status[r] # "finished"
      BY <1>5, <1>8, <2>2
    <3> DEFINE x == IF g = Attention /\ active[r] # None
                    THEN active[r].semantic - active[r].physical ELSE 0
               k == batch[r].drafts
               c == computed[r]
    <3>2. x \in Int BY DEF Inv, TypeOK, Active
    <3>3. Length(r, g) = c - x /\ Length(r, g)' = c - (k - a) - x
      BY <1>1, <1>2, <3>1 DEF Length
    <3>4. Rejectable(r) = k /\ Rejectable(r)' = 0 BY <1>1, <1>2 DEF Rejectable
    <3>5. Start(r) = c - batch[r].n - k /\ Start(r)' = c - (k - a)
      BY <1>1, <1>2 DEF Start
    <3> HIDE DEF x
    <3>6. /\ Length(r, g)' <= Length(r, g) /\ Start(r) <= Start(r)'
          /\ Length(r, g) - Rejectable(r) <= Length(r, g)' - Rejectable(r)'
      <4> HIDE DEF k, c
      <4>1. k \in Nat /\ c \in Nat /\ a <= k BY <1>4 DEF k, c
      <4> QED BY <1>4, <3>2, <3>3, <3>4, <3>5, <4>1
    <3> QED BY <2>2, <3>1, <3>6, SnugKept
  <2> QED BY <2>1, <2>2
<1> QED BY <1>7, <1>8 DEF FitInv

LEMMA AbortFits ==
  ASSUME Inv, Inv', FitInv, NEW r \in Req, Abort(r)
  PROVE  FitInv'
<1>1. /\ Free(r, table) /\ phase # "building"
      /\ status' = [status EXCEPT ![r] = "finished"]
      /\ batch' = [batch EXCEPT ![r] = None]
      /\ UNCHANGED <<computed, tokens, phase>>
  BY DEF Abort
<1>2. /\ status'[r] = "finished" /\ pending'[r] = None /\ batch'[r] = None
      /\ \A q \in Req \ {r} : /\ status'[q] = status[q] /\ pending'[q] = pending[q]
                              /\ table'[q] = table[q] /\ active'[q] = active[q]
                              /\ batch'[q] = batch[q]
  BY <1>1 DEF Free, Inv, TypeOK
<1>3. ASSUME NEW q \in Req PROVE Planned(q)'
  <2>1. Planned(q) BY DEF FitInv
  <2>2. CASE q = r BY <1>2, <2>2 DEF Planned
  <2>3. CASE q # r BY <1>1, <1>2, <2>1, <2>3 DEF Planned
  <2> QED BY <2>2, <2>3
<1>4. ASSUME NEW q \in Req, NEW g \in Group, status'[q] # "finished" PROVE Snug(q, g)'
  BY <1>1, <1>2, <1>4, SnugSame
<1> QED BY <1>3, <1>4 DEF FitInv

LEMMA FitStep == Inv /\ Inv' /\ FitInv /\ [Next]_vars => FitInv'
<1> SUFFICES ASSUME Inv, Inv', FitInv, [Next]_vars PROVE FitInv' OBVIOUS
<1>1. CASE BeginSchedule BY <1>1, CommitFits
<1>2. ASSUME NEW r \in Req, NEW d \in 0..Drafts, NEW n \in 1..(tokens[r] - computed[r]),
             Schedule(r, n, d)
      PROVE  FitInv'
  BY <1>2, ScheduleFits
<1>3. ASSUME NEW r \in Req, NEW d \in 0..Drafts, NEW n \in 1..(tokens[r] - computed[r]),
             NEW v \in Req, Preempt(r, v, n, d)
      PROVE  FitInv'
  BY <1>3, PreemptFits
<1>4. ASSUME NEW A \in SUBSET Req, EndSchedule(A) PROVE FitInv'
  BY <1>4, EndScheduleFits
<1>5. ASSUME NEW r \in Req, NEW a \in 0..Drafts, Consume(r, a) PROVE FitInv'
  BY <1>5, ConsumeFits
<1>6. CASE EndUpdate
  <2>1. /\ batch = [r \in Req |-> None] /\ phase' = "idle"
        /\ UNCHANGED <<status, computed, tokens, table, free, pending, active, batch>>
    BY <1>6 DEF EndUpdate
  <2>2. ASSUME NEW q \in Req PROVE Planned(q)'
    <3>1. Planned(q) BY DEF FitInv
    <3> QED BY <2>1, <3>1 DEF Planned
  <2>3. ASSUME NEW q \in Req, NEW g \in Group, status'[q] # "finished" PROVE Snug(q, g)'
    BY <2>1, <2>3, SnugSame
  <2> QED BY <2>2, <2>3 DEF FitInv
<1>7. ASSUME NEW r \in Req, Abort(r) PROVE FitInv' BY <1>7, AbortFits
<1>8. CASE Terminated \/ UNCHANGED vars
  <2>1. UNCHANGED vars BY <1>8 DEF Terminated
  <2>2. ASSUME NEW q \in Req PROVE Planned(q)'
    <3>1. Planned(q) BY DEF FitInv
    <3> QED BY <2>1, <3>1 DEF Planned, vars
  <2>3. ASSUME NEW q \in Req, NEW g \in Group, status'[q] # "finished" PROVE Snug(q, g)'
    BY <2>1, <2>3, SnugSame DEF vars
  <2> QED BY <2>2, <2>3 DEF FitInv
<1> QED BY <1>1, <1>2, <1>3, <1>4, <1>5, <1>6, <1>7, <1>8 DEF Next

(* Every group of a running request holds its own length, the semantic one  *)
(* or the physical one, through commits, rejected drafts and preemptions,   *)
(* and the attention table does not grow with the semantic length.          *)
THEOREM GroupsCorrect == Spec => []GroupsFit
<1>1. ASSUME Inv, FitInv PROVE GroupsFit
  <2> SUFFICES ASSUME NEW r \in Req, NEW g \in Group, status[r] = "running" PROVE Fit(r, g)
    BY DEF GroupsFit
  <2> DEFINE t == table[r][g]
             l == Length(r, g)
             h == Length(r, g) - Rejectable(r) + 2 * Drafts
             k == Length(r, g) + 2 * Drafts
  <2>1. Holds(g, t, l, h, Start(r)) BY <1>1 DEF FitInv, Snug
  <2>2. /\ l \in Int /\ h \in Int /\ k \in Int /\ h <= k /\ t \in Table /\ Start(r) \in Int
    <3>1. /\ l \in Int /\ Rejectable(r) \in Nat /\ 2 * Drafts \in Nat /\ t \in Table
          /\ Start(r) \in Int
      BY <1>1, FitType
    <3> QED BY <3>1
  <2> HIDE DEF h
  <2>3. Holds(g, t, l, k, Start(r)) BY <2>1, <2>2, HoldsLess
  <2> QED BY <2>3 DEF Holds, Fit
<1>2. Inv /\ FitInv => GroupsFit BY <1>1
<1> QED BY <1>2, InitType, NextType, InitFit, FitStep, PTL DEF Spec
=============================================================================
