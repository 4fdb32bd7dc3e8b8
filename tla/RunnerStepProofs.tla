-------------------------- MODULE RunnerStepProofs --------------------------
(***************************************************************************)
(* Proofs about RunnerStep, for every number of requests, rows, layers and *)
(* tokens: the types, that the offsets on the device belong to the rows of *)
(* the batch, that each layer gets the lengths of its own cache however    *)
(* often the metadata is built, that a method which declares per-layer     *)
(* state never samples from a step whose hooks the host bypassed, and that *)
(* a first compression has the queries of its whole window.                *)
(***************************************************************************)
EXTENDS RunnerStep, FiniteSetTheorems, TLAPS

----------------------------------------------------------------------------
(* Lists as functions.                                                      *)

LEMMA FunctionsAreLists ==
  ASSUME NEW S, NEW k \in Nat, NEW f \in [1..k -> S]
  PROVE  f \in Seq(S) /\ Len(f) = k /\ DOMAIN f = 1..k
OBVIOUS

LEMMA RowCount == Cardinality(Req) \in Nat
BY RequestAssumption, FS_CardinalityType

(* The rows the host builds: no request twice, and no more than there are.  *)
LEMMA RowsType ==
  ASSUME NEW S \in SUBSET Req, NEW q \in SetToSeqs(S)
  PROVE  \E k \in 0..Cardinality(Req) :
            q \in [1..k -> Req] /\ ToSet(q) \subseteq Req /\ ToSet(q) \subseteq S /\ IsInjective(q)
<1>1. Cardinality(S) \in 0..Cardinality(Req)
  BY RowCount, RequestAssumption, FS_Subset, FS_CardinalityType
<1>2. q \in [1..Cardinality(S) -> S] /\ \A i, j \in 1..Cardinality(S) : i # j => q[i] # q[j]
  BY DEF SetToSeqs
<1>3. q \in [1..Cardinality(S) -> Req] BY <1>2
<1>4. DOMAIN q = 1..Cardinality(S) BY <1>2
<1>5. IsInjective(q) BY <1>2, <1>4 DEF IsInjective
<1>6. ToSet(q) \subseteq S BY <1>2, <1>4 DEF ToSet
<1> QED BY <1>1, <1>3, <1>5, <1>6

----------------------------------------------------------------------------
(* The types and the rows.                                                  *)

(* A compression shortens its request.                                      *)
Shorter(c) ==
  c # None => /\ c \in Compression /\ c.physical < c.semantic
              /\ c.layers # None => \E l \in Layer : c.layers[l] # c.physical

(* What the device has is what was copied last, and zeros behind it; once   *)
(* the rows of a step are there, that is what they must have.               *)
RowInv ==
  /\ \E k \in 0..Cardinality(Req) : snapshot \in [1..k -> Nat]
  /\ offsets = [i \in 1..Cardinality(Req) |-> IF i \in DOMAIN snapshot THEN snapshot[i] ELSE 0]
  /\ hasActive = \E i \in DOMAIN snapshot : snapshot[i] # 0
  /\ \E k \in 0..Cardinality(Req) : rows \in [1..k -> Req]
  /\ stage \notin {"idle", "begun"} =>
       /\ snapshot = [i \in DOMAIN rows |-> Removed(active[rows[i]])]
       /\ hasLayers = \E r \in ToSet(rows) : active[r] # None /\ active[r].layers # None

(* What is scheduled is not finished, and has computed tokens.              *)
LiveInv ==
  /\ stage = "begun" => \A r \in step.finished : step.tokens[r] = 0
  /\ stage \in {"updated", "prepared", "built", "ran", "sample"} =>
       (\A r \in Scheduled : computed[r] \in Nat) /\ ToSet(rows) \subseteq Scheduled

StepType ==
  [tokens: [Req -> Nat], finished: SUBSET Req, preempted: SUBSET Req]

Inv ==
  /\ TypeOK
  /\ step \in StepType
  /\ pending \in [Req -> Compression \cup {None}]
  /\ active \in [Req -> Compression \cup {None}]
  /\ RowInv /\ LiveInv

LEMMA CompressionsShorter ==
  Inv => \A r \in Req : Shorter(pending[r]) /\ Shorter(active[r])
BY DEF Inv, TypeOK, Shorter

LEMMA RemovedType ==
  ASSUME NEW c, Shorter(c)
  PROVE  Removed(c) \in Nat /\ (Removed(c) # 0 <=> c # None)
BY DEF Shorter, Removed, Compression

LEMMA InitInv == Init => Inv
<1> SUFFICES ASSUME Init PROVE Inv OBVIOUS
<1>1. rows \in [1..0 -> Req] /\ snapshot \in [1..0 -> Nat] /\ ToSet(rows) = {}
      /\ IsInjective(rows) /\ DOMAIN snapshot = {}
  BY DEF Init, ToSet, IsInjective
<1>2. 0 \in 0..Cardinality(Req) BY RowCount
<1>3. RowInv BY <1>1, <1>2 DEF Init, RowInv
<1>4. step \in StepType BY DEF Init, NoStep, StepType
<1>5. known \in [Req -> Nat] BY LimitsAssumption DEF Init
<1>6. TypeOK
  BY <1>1, <1>2, <1>5, RowCount DEF Init, TypeOK
<1>7. LiveInv BY DEF Init, LiveInv
<1> QED BY <1>3, <1>4, <1>6, <1>7 DEF Init, Inv

LEMMA BeginInv == Inv /\ Begin => Inv'
<1> SUFFICES ASSUME Inv, Begin PROVE Inv' OBVIOUS
<1>1. step' \in StepType BY LimitsAssumption DEF Begin, StepType, Live
<1>2. tracked' \subseteq Req /\ captured' \subseteq Layer
  BY DEF Begin, BeginQueries, Inv, TypeOK
<1>3. /\ UNCHANGED <<known, computed, pending, active, offsets, snapshot, rows, hasActive,
                     hasLayers>>
      /\ stage' = "begun"
  BY DEF Begin, rowVars
<1>4. LiveInv' BY DEF Begin, LiveInv
<1> QED BY <1>1, <1>2, <1>3, <1>4 DEF Inv, TypeOK, RowInv

(* The host's rows and the compactions of their requests.                   *)
LEMMA UpdateHostType ==
  ASSUME Inv, UpdateHost
  PROVE  /\ \E k \in 0..Cardinality(Req) : rows' \in [1..k -> Req]
         /\ ToSet(rows') \subseteq Req /\ ToSet(rows') \subseteq Scheduled /\ IsInjective(rows')
         /\ known' \in [Req -> Nat]
         /\ computed' \in [Req -> Nat \cup {None}]
         /\ stage = "begun" => \A r \in Scheduled : computed'[r] \in Nat
<1>1. Scheduled \in SUBSET Req BY DEF Scheduled
<1>2. rows' \in SetToSeqs(Scheduled) BY DEF UpdateHost
<1>3. known' \in [Req -> Nat]
  BY LimitsAssumption DEF UpdateHost, Inv, TypeOK
<1>4. /\ computed' \in [Req -> Nat \cup {None}]
      /\ stage = "begun" => \A r \in Scheduled : computed'[r] \in Nat
  <2>1. PICK hit \in [Req -> 0..MaxHit] :
          computed' = [r \in Req |->
            IF r \in step.finished THEN None
            ELSE IF Starts(r) THEN hit[r]
            ELSE IF r \in step.preempted THEN 0 ELSE computed[r]]
    BY DEF UpdateHost
  <2>2. \A r \in Req : hit[r] \in Nat BY LimitsAssumption
  <2>3. computed' \in [Req -> Nat \cup {None}] BY <2>1, <2>2 DEF Inv, TypeOK
  <2>4. ASSUME stage = "begun", NEW r \in Scheduled PROVE computed'[r] \in Nat
    <3>1. r \in Req /\ r \notin step.finished
      BY <2>4 DEF Scheduled, Inv, LiveInv, StepType
    <3>2. ~Starts(r) => r \notin step.preempted /\ computed[r] \in Nat
      BY <3>1 DEF Starts, Reset, Inv, TypeOK
    <3> QED BY <2>1, <2>2, <3>1, <3>2
  <2> QED BY <2>3, <2>4
<1> QED BY <1>1, <1>2, <1>3, <1>4, RowsType

(* Copying only what has changed leaves the offsets of the rows.            *)
LEMMA SyncRowsKeeps ==
  ASSUME Inv, SyncRows,
         NEW k \in 0..Cardinality(Req), rows' \in [1..k -> Req],
         \A r \in Req : Shorter(active'[r])
  PROVE  /\ snapshot' \in [1..k -> Nat]
         /\ snapshot' = [i \in DOMAIN rows' |-> Removed(active'[rows'[i]])]
         /\ offsets' = [i \in 1..Cardinality(Req) |->
                          IF i \in DOMAIN snapshot' THEN snapshot'[i] ELSE 0]
         /\ hasActive' = \E i \in DOMAIN snapshot' : snapshot'[i] # 0
         /\ hasLayers' = \E r \in ToSet(rows') : active'[r] # None /\ active'[r].layers # None
<1>1. DOMAIN rows' = 1..k OBVIOUS
<1>2. RowOffsets \in [1..k -> Nat]
  BY <1>1, RemovedType DEF RowOffsets
<1>3. PICK m \in 0..Cardinality(Req) : snapshot \in [1..m -> Nat] BY DEF Inv, RowInv
<1>4. Len(snapshot) = m /\ DOMAIN snapshot = 1..m BY <1>3, RowCount, FunctionsAreLists
<1>5. snapshot' = RowOffsets
  BY DEF SyncRows, Unmoved
<1>6. DOMAIN snapshot' = 1..k BY <1>2, <1>5
<1>7. /\ offsets' = [i \in 1..Cardinality(Req) |->
                       IF i \in DOMAIN snapshot' THEN snapshot'[i] ELSE 0]
      /\ hasActive' = \E i \in DOMAIN snapshot' : snapshot'[i] # 0
  <2>1. CASE Unmoved
    BY <2>1, <1>5 DEF SyncRows, Unmoved, Inv, RowInv
  <2>2. CASE ~Unmoved
    <3>1. /\ offsets' = [i \in DOMAIN offsets |->
                IF i \in DOMAIN rows' THEN RowOffsets[i]
                ELSE IF i <= Len(snapshot) THEN 0 ELSE offsets[i]]
          /\ hasActive' = \E i \in DOMAIN rows' : RowOffsets[i] # 0
      BY <2>2 DEF SyncRows
    <3>2. DOMAIN offsets = 1..Cardinality(Req)
          /\ \A i \in 1..Cardinality(Req) : i \notin 1..m => offsets[i] = 0
      BY <1>4 DEF Inv, RowInv
    <3> HIDE DEF RowOffsets
    <3> QED BY <1>1, <1>3, <1>4, <1>5, <1>6, <3>1, <3>2, RowCount
  <2> QED BY <2>1, <2>2
<1> QED BY <1>2, <1>5, <1>7 DEF SyncRows, RowOffsets

LEMMA UpdateStatesInv == Inv /\ UpdateStates => Inv'
<1> SUFFICES ASSUME Inv, UpdateStates PROVE Inv' OBVIOUS
<1>1. UpdateHost /\ SyncRows BY DEF UpdateStates
<1>2. PICK k \in 0..Cardinality(Req) : rows' \in [1..k -> Req] BY <1>1, UpdateHostType
<1>3. /\ ToSet(rows') \subseteq Req /\ IsInjective(rows')
      /\ known' \in [Req -> Nat] /\ computed' \in [Req -> Nat \cup {None}]
  BY <1>1, UpdateHostType
<1>4. /\ pending' \in [Req -> Compression \cup {None}]
      /\ active' \in [Req -> Compression \cup {None}]
      /\ \A r \in Req : Shorter(pending'[r]) /\ Shorter(active'[r])
  <2>1. /\ pending \in [Req -> Compression \cup {None}]
        /\ active \in [Req -> Compression \cup {None}]
        /\ \A r \in Req : Shorter(pending[r]) /\ Shorter(active[r])
    BY CompressionsShorter DEF Inv
  <2>2. /\ pending' \in [Req -> Compression \cup {None}]
        /\ active' \in [Req -> Compression \cup {None}]
        /\ \A r \in Req : pending'[r] \in {None, pending[r]}
        /\ \A r \in Req : active'[r] \in {None, pending[r], active[r]}
    BY <2>1 DEF UpdateStates, PendingAfter, ActiveAfter
  <2>3. Shorter(None) BY DEF Shorter
  <2> QED BY <2>1, <2>2, <2>3
<1>5. RowInv'
  <2>1. /\ snapshot' \in [1..k -> Nat]
        /\ snapshot' = [i \in DOMAIN rows' |-> Removed(active'[rows'[i]])]
        /\ offsets' = [i \in 1..Cardinality(Req) |->
                         IF i \in DOMAIN snapshot' THEN snapshot'[i] ELSE 0]
        /\ hasActive' = \E i \in DOMAIN snapshot' : snapshot'[i] # 0
        /\ hasLayers' = \E r \in ToSet(rows') : active'[r] # None /\ active'[r].layers # None
    BY <1>1, <1>2, <1>4, SyncRowsKeeps
  <2> QED BY <1>2, <2>1 DEF RowInv
<1>6. offsets' \in [1..Cardinality(Req) -> Nat]
  <2>1. PICK m \in 0..Cardinality(Req) : snapshot' \in [1..m -> Nat] BY <1>5 DEF RowInv
  <2>2. offsets' = [i \in 1..Cardinality(Req) |->
                    IF i \in DOMAIN snapshot' THEN snapshot'[i] ELSE 0]
    BY <1>5 DEF RowInv
  <2> QED BY <2>1, <2>2
<1>7. stage' \in {"ran", "updated"} /\ step' = step /\ captured' = captured
      /\ tracked' \subseteq Req
  BY DEF UpdateStates, Inv, TypeOK
<1>8. step' \in StepType BY <1>7 DEF Inv
<1>9. TypeOK'
  <2>1. \A r \in Req : \A c \in {pending'[r], active'[r]} \ {None} :
          /\ c \in Compression /\ c.physical < c.semantic
          /\ c.layers # None => \E l \in Layer : c.layers[l] # c.physical
    BY <1>4 DEF Shorter
  <2> QED BY <1>3, <1>6, <1>7, <2>1 DEF Inv, TypeOK
<1>10. LiveInv'
  <2>1. stage = "begun" BY DEF UpdateStates
  <2>2. (\A r \in Scheduled : computed'[r] \in Nat) /\ ToSet(rows') \subseteq Scheduled
    BY <1>1, <2>1, UpdateHostType
  <2>3. Scheduled' = Scheduled BY <1>7 DEF Scheduled
  <2> QED BY <1>7, <2>2, <2>3 DEF LiveInv
<1> QED BY <1>4, <1>5, <1>8, <1>9, <1>10 DEF Inv

(* Steps that leave the rows and the compactions alone.                     *)
LEMMA SameRows ==
  ASSUME Inv, UNCHANGED <<step, known, computed, rows, rowVars>>,
         stage \notin {"idle", "begun"},
         \/ /\ stage \in {"updated", "prepared", "built", "ran"}
            /\ stage' \in {"prepared", "built", "ran", "sample"}
         \/ stage' \in {"failed", "idle"},
         tracked' \subseteq Req, captured' \subseteq Layer
  PROVE  Inv'
<1>1. TypeOK' BY DEF Inv, TypeOK, rowVars
<1>2. RowInv' BY DEF Inv, RowInv, rowVars
<1>3. LiveInv' BY DEF Inv, LiveInv, Scheduled
<1> QED BY <1>1, <1>2, <1>3 DEF Inv, rowVars

(* A plan shortens its request: one is due only above the threshold.        *)
LEMMA PlanIsCompression ==
  ASSUME Inv, stage = "sample", NEW r \in Req, Due(r), NEW len \in LayerLengths
  PROVE  Shorter([semantic |-> Semantic(r), physical |-> Budget, layers |-> Normal(len)])
         /\ [semantic |-> Semantic(r), physical |-> Budget, layers |-> Normal(len)]
              \in Compression
<1>1. Removed(active[r]) \in Nat BY RemovedType, CompressionsShorter
<1>2. step.tokens[r] \in Nat BY DEF Inv, StepType
<1>3. Semantic(r) - Removed(active[r]) >= Threshold BY DEF Due, Physical
<1>4. computed[r] \in Nat BY DEF Due, Inv, LiveInv
<1>5. Semantic(r) \in Nat BY <1>2, <1>4 DEF Semantic
<1>6. Budget \in Nat /\ Budget < Semantic(r)
  BY <1>1, <1>3, <1>5, LimitsAssumption
<1>7. /\ Normal(len) \in LayerLengths \cup {None}
      /\ Normal(len) # None => \E l \in Layer : Normal(len)[l] # Budget
  BY DEF Normal
<1> HIDE DEF Semantic, Normal
<1> QED BY <1>5, <1>6, <1>7 DEF Shorter, Compression

(* The compressions of a step.                                              *)
LEMMA SampleInv == Inv /\ Sample => Inv'
<1> SUFFICES ASSUME Inv, Sample PROVE Inv' OBVIOUS
<1>1. PICK plans \in SUBSET {r \in Req : Due(r)} : Compress(plans) BY DEF Sample
<1>2. PICK len \in [plans -> LayerLengths] :
        pending' = [r \in Req |->
          IF r \in plans
          THEN [semantic |-> Semantic(r), physical |-> Budget, layers |-> Normal(len[r])]
          ELSE pending[r]]
  BY <1>1 DEF Compress
<1>3. ASSUME NEW r \in plans
      PROVE  Shorter([semantic |-> Semantic(r), physical |-> Budget, layers |-> Normal(len[r])])
             /\ [semantic |-> Semantic(r), physical |-> Budget, layers |-> Normal(len[r])]
                  \in Compression
  <2>1. r \in Req /\ Due(r) /\ len[r] \in LayerLengths BY <1>1, <1>2
  <2>2. stage = "sample" BY DEF Sample
  <2> QED BY <2>1, <2>2, PlanIsCompression
<1>4. /\ pending' \in [Req -> Compression \cup {None}]
      /\ \A r \in Req : Shorter(pending'[r])
  <2>1. pending \in [Req -> Compression \cup {None}] /\ \A r \in Req : Shorter(pending[r])
    BY CompressionsShorter DEF Inv
  <2> QED BY <1>2, <1>3, <2>1
<1>5. computed' \in [Req -> Nat \cup {None}] /\ known' \in [Req -> Nat]
  <2>1. \A r \in Scheduled : Semantic(r) \in Nat
    BY DEF Sample, Inv, LiveInv, StepType, Semantic, Scheduled
  <2> HIDE DEF Semantic
  <2> QED BY <2>1 DEF Sample, Inv, TypeOK
<1>6. step' \in StepType BY DEF Sample, NoStep, StepType
<1>7. tracked' \subseteq Req /\ captured' = captured
      /\ UNCHANGED <<rows, active, offsets, snapshot, hasActive, hasLayers>>
  BY <1>1 DEF Sample, Compress, Inv, TypeOK
<1>8. stage' = "idle" BY DEF Sample
<1>9. RowInv' BY <1>7, <1>8 DEF Inv, RowInv
<1>10. TypeOK'
  <2>1. \A r \in Req : \A c \in {pending'[r], active'[r]} \ {None} :
          /\ c \in Compression /\ c.physical < c.semantic
          /\ c.layers # None => \E l \in Layer : c.layers[l] # c.physical
    BY <1>4, <1>7, CompressionsShorter DEF Shorter
  <2> QED BY <1>5, <1>7, <1>8, <2>1 DEF Inv, TypeOK
<1>11. LiveInv' BY <1>8 DEF LiveInv
<1> QED BY <1>4, <1>6, <1>7, <1>9, <1>10, <1>11 DEF Inv

LEMMA NextInv == Inv /\ [Next]_vars => Inv'
<1> SUFFICES ASSUME Inv, [Next]_vars PROVE Inv' OBVIOUS
<1> USE DEF hostVars, rowVars, lengthVars, layerVars, queryVars
<1>1. CASE Begin BY <1>1, BeginInv
<1>2. CASE UpdateStates BY <1>2, UpdateStatesInv
<1>3. CASE Prepare
  BY <1>3, SameRows DEF Prepare, Inv, TypeOK
<1>4. CASE BuildMetadata
  <2>1. \/ stage = "prepared" \/ stage = "built" BY <1>4 DEF BuildMetadata
  <2> QED BY <1>4, <2>1, SameRows DEF BuildMetadata, Inv, TypeOK
<1>5. CASE BypassMetadata
  BY <1>5, SameRows DEF BypassMetadata, Inv, TypeOK
<1>6. CASE Forward
  <2>1. tracked' \subseteq Req /\ captured' \subseteq Layer
    <3>1. Spans \subseteq Req BY DEF Spans, Scheduled
    <3> QED BY <1>6, <3>1 DEF Forward, Inv, TypeOK
  <2> QED BY <1>6, <2>1, SameRows DEF Forward
<1>7. CASE Finish
  <2>1. tracked' \subseteq Req /\ captured' \subseteq Layer
    BY <1>7 DEF Finish, AbortQueries, Inv, TypeOK
  <2>2. stage = "ran" /\ stage' \in {"failed", "idle", "sample"}
    BY <1>7 DEF Finish
  <2> QED BY <1>7, <2>1, <2>2, SameRows DEF Finish
<1>8. CASE Sample BY <1>8, SampleInv
<1>9. CASE Down \/ UNCHANGED vars
  <2>1. UNCHANGED vars BY <1>9 DEF Down
  <2>2. TypeOK' BY <2>1 DEF vars, Inv, TypeOK
  <2>3. RowInv' BY <2>1 DEF vars, Inv, RowInv
  <2>4. LiveInv' BY <2>1 DEF vars, Inv, LiveInv, Scheduled
  <2> QED BY <2>1, <2>2, <2>3, <2>4 DEF vars, Inv
<1> QED BY <1>1, <1>2, <1>3, <1>4, <1>5, <1>6, <1>7, <1>8, <1>9 DEF Next

(* Every compression shortens its request and every variable keeps its      *)
(* type.                                                                    *)
THEOREM TypeCorrect == Spec => []TypeOK
<1>1. Inv => TypeOK BY DEF Inv
<1> QED BY <1>1, InitInv, NextInv, PTL DEF Spec

LEMMA RowsOfInv == Inv => RowsCurrent
<1> SUFFICES ASSUME Inv, stage \notin {"idle", "begun"}
             PROVE  /\ \A i \in DOMAIN offsets : offsets[i] =
                         IF i \in DOMAIN rows THEN Removed(active[rows[i]]) ELSE 0
                    /\ hasActive = \E r \in ToSet(rows) : active[r] # None
  BY DEF RowsCurrent
<1>1. snapshot = [i \in DOMAIN rows |-> Removed(active[rows[i]])] BY DEF Inv, RowInv
<1>2. \A r \in ToSet(rows) : Removed(active[r]) # 0 <=> active[r] # None
  BY RemovedType, CompressionsShorter DEF Inv, TypeOK
<1>3. hasActive = \E i \in DOMAIN rows : Removed(active[rows[i]]) # 0
  BY <1>1 DEF Inv, RowInv
<1>4. hasActive = \E r \in ToSet(rows) : active[r] # None
  BY <1>2, <1>3 DEF ToSet
<1> QED BY <1>1, <1>4 DEF Inv, RowInv

(* Whatever joins, leaves and changes rows, and although equal offsets are  *)
(* not copied again: the device has the offset of the request that is in    *)
(* each row now.                                                            *)
THEOREM RowsCorrect == Spec => []RowsCurrent
<1> QED BY RowsOfInv, InitInv, NextInv, PTL DEF Spec

----------------------------------------------------------------------------
(* The lengths of the step.                                                 *)

(* The sequence lengths are semantic until the offsets have been            *)
(* subtracted, which happens once, after the semantic ones were saved.      *)
LengthsInv ==
  /\ stage \in {"updated", "prepared"} => ~applied
  /\ stage = "prepared" => lens = [i \in DOMAIN rows |-> Semantic(rows[i])]
  /\ stage = "built" /\ ~bypassed =>
       /\ applied = hasActive
       /\ IF applied
          THEN /\ saved = [i \in DOMAIN rows |-> Semantic(rows[i])]
               /\ lens = [i \in DOMAIN rows |-> Semantic(rows[i]) - offsets[i]]
          ELSE lens = [i \in DOMAIN rows |-> Semantic(rows[i])]
  /\ LengthsOnce
  /\ {applied, bypassed, hasActive} \subseteq BOOLEAN

(* One build of the metadata.                                               *)
LEMMA BuildLengths ==
  ASSUME Inv, LengthsInv, BuildMetadata
  PROVE  LengthsInv'
<1> DEFINE sem == [i \in DOMAIN rows |-> Semantic(rows[i])]
           phys == [i \in DOMAIN rows |-> Semantic(rows[i]) - offsets[i]]
<1>1. /\ stage \in {"prepared", "built"} /\ ~bypassed /\ bypassed' = bypassed
      /\ stage' = "built" /\ ApplyLengths
      /\ UNCHANGED <<step, computed, rows, active, offsets, hasActive, hasLayers>>
  BY DEF BuildMetadata, hostVars, rowVars
<1>2. PICK k \in 0..Cardinality(Req) : rows \in [1..k -> Req] BY DEF Inv, RowInv
<1>3. ASSUME NEW i \in DOMAIN rows
      PROVE  /\ rows[i] \in Req /\ Semantic(rows[i]) \in Nat
             /\ offsets[i] = Removed(active[rows[i]]) /\ offsets[i] \in Nat
             /\ Shorter(active[rows[i]])
             /\ ~hasActive => active[rows[i]] = None /\ offsets[i] = 0
             /\ ~hasLayers => active[rows[i]] = None \/ active[rows[i]].layers = None
  <2>1. i \in 1..k /\ i \in 1..Cardinality(Req) BY <1>2, <1>3, RowCount
  <2>2. rows[i] \in Req /\ rows[i] \in ToSet(rows) BY <1>2, <1>3 DEF ToSet
  <2>3. computed[rows[i]] \in Nat /\ step.tokens[rows[i]] \in Nat
    BY <1>1, <2>2 DEF Inv, LiveInv, StepType
  <2>4. Shorter(active[rows[i]]) BY <2>2, CompressionsShorter
  <2>5. /\ DOMAIN offsets = 1..Cardinality(Req) /\ offsets[i] \in Nat
        /\ offsets[i] = Removed(active[rows[i]])
    BY <1>1, <1>3, <2>1, RowsOfInv DEF RowsCurrent, Inv, TypeOK
  <2>6. ~hasActive => active[rows[i]] = None
    BY <1>1, <2>2, RowsOfInv DEF RowsCurrent
  <2>7. ~hasLayers => active[rows[i]] = None \/ active[rows[i]].layers = None
    BY <1>1, <2>2 DEF Inv, RowInv
  <2> QED BY <2>2, <2>3, <2>4, <2>5, <2>6, <2>7 DEF Semantic, Removed
<1>4. /\ applied' = hasActive
      /\ IF applied' THEN saved' = sem /\ lens' = phys ELSE lens' = sem
  <2>1. CASE applied \/ ~hasActive
    <3>1. UNCHANGED <<lens, saved, applied>> BY <1>1, <2>1 DEF ApplyLengths
    <3>2. CASE stage = "prepared"
      <4>1. ~applied /\ lens = sem BY <3>2 DEF LengthsInv
      <4>2. applied = FALSE /\ hasActive = FALSE BY <2>1, <4>1 DEF LengthsInv
      <4> QED BY <3>1, <4>1, <4>2
    <3>3. CASE stage = "built"
      <4>1. applied = hasActive /\ IF applied THEN saved = sem /\ lens = phys ELSE lens = sem
        BY <1>1, <3>3 DEF LengthsInv
      <4> QED BY <3>1, <4>1
    <3> QED BY <1>1, <3>2, <3>3
  <2>2. CASE ~(applied \/ ~hasActive)
    <3>1. /\ saved' = lens /\ applied' = TRUE
          /\ lens' = [i \in DOMAIN lens |-> lens[i] - offsets[i]]
      BY <1>1, <2>2 DEF ApplyLengths
    <3>2. lens = sem BY <1>1, <2>2 DEF LengthsInv
    <3>3. lens' = phys BY <3>1, <3>2
    <3>4. hasActive = TRUE BY <2>2 DEF LengthsInv
    <3> QED BY <3>1, <3>2, <3>3, <3>4
  <2> QED BY <2>1, <2>2
<1>5. GdnLengths = sem BY <1>4 DEF GdnLengths
<1>6. ASSUME NEW i \in DOMAIN rows
      PROVE  lens'[i] = Semantic(rows[i]) - offsets[i] /\ Shift(i) = offsets[i]
  <2>1. Semantic(rows[i]) \in Nat /\ (~hasActive => offsets[i] = 0) BY <1>3, <1>6
  <2> HIDE DEF Semantic
  <2>2. CASE hasActive
    <3>1. lens' = phys BY <1>4, <2>2
    <3> QED BY <2>2, <3>1 DEF Shift
  <2>3. CASE ~hasActive
    <3>1. lens' = sem BY <1>4, <2>3
    <3> QED BY <2>1, <2>3, <3>1 DEF Shift
  <2> QED BY <2>2, <2>3
<1>7. ASSUME NEW i \in DOMAIN rows, NEW l \in Layer
      PROVE  /\ RemovedAt(active[rows[i]], l) \in Int
             /\ ~hasLayers => RemovedAt(active[rows[i]], l) = offsets[i]
  <2>1. /\ Shorter(active[rows[i]])
        /\ Removed(active[rows[i]]) = offsets[i] /\ offsets[i] \in Nat
        /\ ~hasLayers => active[rows[i]] = None \/ active[rows[i]].layers = None
    BY <1>3, <1>7
  <2> DEFINE a == active[rows[i]]
  <2>2. CASE a = None \/ a.layers = None
    <3>1. RemovedAt(a, l) = Removed(a) BY <2>2 DEF RemovedAt
    <3> QED BY <2>1, <3>1
  <2>3. CASE a # None /\ a.layers # None
    <3>1. a.semantic \in Nat /\ a.layers \in LayerLengths
      BY <2>1, <2>3 DEF Shorter, Compression
    <3>2. a.layers[l] \in Int BY <2>3, <3>1, LengthsAssumption, LimitsAssumption
    <3>3. RemovedAt(a, l) = a.semantic - a.layers[l] BY <2>3 DEF RemovedAt
    <3> HIDE DEF a
    <3>4. RemovedAt(a, l) \in Int BY <3>1, <3>2, <3>3
    <3> QED BY <2>1, <2>3, <3>4 DEF a
  <2> QED BY <2>2, <2>3
<1>8. ASSUME NEW i \in DOMAIN rows, NEW l \in Layer
      PROVE  meta'.layers[l][i] =
               LET removed == RemovedAt(active[rows[i]], l)
               IN  [length |-> Semantic(rows[i]) - removed, shift |-> removed]
  <2> DEFINE removed == RemovedAt(active[rows[i]], l)
  <2>1. meta'.layers[l] = IF Specializes THEN LayerMetadata(l) ELSE RowMetadata(lens')
    BY DEF BuildMetadata
  <2>2. /\ lens'[i] = Semantic(rows[i]) - offsets[i] /\ Shift(i) = offsets[i]
        /\ removed \in Int /\ offsets[i] \in Nat /\ Semantic(rows[i]) \in Nat
        /\ ~hasLayers => removed = offsets[i]
    BY <1>3, <1>6, <1>7
  <2>3. CASE Specializes
    <3>1. LayerMetadata(l)[i] =
            [length |-> lens'[i] + offsets[i] - removed,
             shift |-> IF \A j \in DOMAIN rows : RemovedAt(active[rows[j]], l) = offsets[j]
                       THEN Shift(i) ELSE removed]
      BY DEF LayerMetadata
    <3>2. lens'[i] + offsets[i] - removed = Semantic(rows[i]) - removed
      <4> HIDE DEF removed, Semantic
      <4> QED BY <2>2
    <3>3. (IF \A j \in DOMAIN rows : RemovedAt(active[rows[j]], l) = offsets[j]
           THEN Shift(i) ELSE removed) = removed
      BY <2>2
    <3> QED BY <2>1, <2>3, <3>1, <3>2, <3>3
  <2>4. CASE ~Specializes
    <3>1. removed = offsets[i] BY <2>2, <2>4 DEF Specializes
    <3>2. RowMetadata(lens')[i] = [length |-> lens'[i], shift |-> Shift(i)] BY DEF RowMetadata
    <3> QED BY <2>1, <2>2, <2>4, <3>1, <3>2
  <2> QED BY <2>3, <2>4
<1>9. ASSUME NEW i \in DOMAIN rows PROVE meta'.gdn[i] = Semantic(rows[i])
  BY <1>5 DEF BuildMetadata
<1>10. rows' = rows /\ active' = active /\ offsets' = offsets
       /\ \A r : Semantic(r)' = Semantic(r)
  BY <1>1 DEF Semantic
<1>11. LengthsOnce' BY <1>8, <1>9, <1>10 DEF LengthsOnce
<1>12. stage' = "built" /\ hasActive' = hasActive /\ hasActive \in BOOLEAN
       /\ bypassed' \in BOOLEAN
  BY <1>1 DEF LengthsInv
<1> HIDE DEF Semantic
<1> QED BY <1>4, <1>10, <1>11, <1>12 DEF LengthsInv

LEMMA LengthsStep == Inv /\ LengthsInv /\ [Next]_vars => LengthsInv'
<1> SUFFICES ASSUME Inv, LengthsInv, [Next]_vars PROVE LengthsInv' OBVIOUS
<1> USE DEF hostVars, rowVars, lengthVars, layerVars, queryVars
<1>1. CASE Begin
  BY <1>1 DEF Begin, LengthsInv, LengthsOnce
<1>2. CASE UpdateStates
  <2>1. hasActive' \in BOOLEAN
    <3>1. Inv' BY <1>2, UpdateStatesInv
    <3> QED BY <3>1 DEF Inv, RowInv
  <2>2. stage' \in {"ran", "updated"} /\ applied' = FALSE /\ bypassed' = bypassed
    BY <1>2 DEF UpdateStates
  <2> QED BY <2>1, <2>2 DEF LengthsInv, LengthsOnce
<1>3. CASE Prepare
  <2>1. /\ stage = "updated" /\ stage' = "prepared"
        /\ lens' = [i \in DOMAIN rows |-> Semantic(rows[i])]
        /\ UNCHANGED <<step, computed, rows, applied, bypassed, hasActive>>
    BY <1>3 DEF Prepare
  <2>2. lens' = [i \in DOMAIN rows' |-> Semantic(rows[i])'] BY <2>1 DEF Semantic
  <2> QED BY <2>1, <2>2 DEF LengthsInv, LengthsOnce
<1>4. CASE BuildMetadata BY <1>4, BuildLengths
<1>5. CASE BypassMetadata
  BY <1>5 DEF BypassMetadata, LengthsInv, LengthsOnce
<1>6. CASE Forward
  <2>1. \E layers \in SUBSET Layer : bypassed' = (bypassed \/ layers # Layer)
    BY <1>6 DEF Forward
  <2>2. bypassed' \in BOOLEAN BY <2>1
  <2>3. stage' = "ran" /\ UNCHANGED <<applied, hasActive>> BY <1>6 DEF Forward
  <2> QED BY <2>2, <2>3 DEF LengthsInv, LengthsOnce
<1>7. CASE Finish
  <2>1. stage' \in {"failed", "idle", "sample"} /\ UNCHANGED <<applied, hasActive, bypassed>>
    BY <1>7 DEF Finish
  <2> QED BY <2>1 DEF LengthsInv, LengthsOnce
<1>8. CASE Sample
  BY <1>8 DEF Sample, LengthsInv, LengthsOnce
<1>9. CASE Down \/ UNCHANGED vars
  <2>1. UNCHANGED vars BY <1>9 DEF Down
  <2> QED BY <2>1 DEF vars, LengthsInv, LengthsOnce, Semantic
<1> QED BY <1>1, <1>2, <1>3, <1>4, <1>5, <1>6, <1>7, <1>8, <1>9 DEF Next

(* However often the metadata of a step is built, each attention layer gets *)
(* the lengths and write slots of its own cache, and GDN the semantic       *)
(* lengths, whether or not the method has declared per-layer state.         *)
THEOREM LengthsCorrect == Spec => []LengthsOnce
<1>1. Init => LengthsInv BY DEF Init, LengthsInv, LengthsOnce
<1>2. LengthsInv => LengthsOnce BY DEF LengthsInv
<1> QED BY <1>1, <1>2, InitInv, NextInv, LengthsStep, PTL DEF Spec

----------------------------------------------------------------------------
(* Bypassed hooks.                                                          *)

(* What the checks have recorded in a step is whether a hook was bypassed.  *)
BypassInv ==
  /\ {bypassed, required, seen} \subseteq BOOLEAN
  /\ stage \in {"idle", "begun", "updated", "prepared", "sample"} => ~bypassed
  /\ stage \in {"begun", "updated", "prepared", "built", "ran"} =>
       required = (Scheduled # {})
  /\ stage \in {"updated", "prepared", "built"} => Scheduled # {}
  /\ stage \in {"begun", "updated", "prepared"} => (required => ~seen)
  /\ stage = "built" => (bypassed = ~seen)
  /\ stage = "ran" => (bypassed = (LayersMissing \/ QueriesMissing))
  /\ stage = "failed" => bypassed

LEMMA BypassStep ==
  Declared /\ BypassInv /\ [Next]_vars => BypassInv'
<1> SUFFICES ASSUME Declared, BypassInv, [Next]_vars PROVE BypassInv' OBVIOUS
<1> USE DEF hostVars, rowVars, lengthVars, layerVars, queryVars
<1>1. CASE Begin
  <2>1. stage = "idle" /\ stage' = "begun" /\ bypassed' = bypassed
        /\ required' = NeedsLayers(step'.tokens) /\ seen' = (seen /\ ~required')
    BY <1>1 DEF Begin
  <2>2. required' = (Scheduled' # {}) BY <2>1 DEF NeedsLayers, Scheduled
  <2> QED BY <2>1, <2>2 DEF BypassInv
<1>2. CASE UpdateStates
  <2>1. stage = "begun" /\ stage' = (IF Scheduled = {} THEN "ran" ELSE "updated")
        /\ UNCHANGED <<step, bypassed, required, seen>>
    BY <1>2 DEF UpdateStates
  <2>2. Scheduled' = Scheduled BY <2>1 DEF Scheduled
  <2>3. CASE Scheduled = {}
    <3>1. ~LayersMissing' BY <2>1, <2>3 DEF LayersMissing, BypassInv
    <3>2. ~QueriesMissing' BY <2>2, <2>3 DEF QueriesMissing, Observing, Spans
    <3> QED BY <2>1, <2>2, <2>3, <3>1, <3>2 DEF BypassInv
  <2>4. CASE Scheduled # {} BY <2>1, <2>2, <2>4 DEF BypassInv
  <2> QED BY <2>3, <2>4
<1>3. CASE Prepare
  BY <1>3 DEF Prepare, BypassInv, Scheduled
<1>4. CASE BuildMetadata
  BY <1>4 DEF BuildMetadata, BypassInv, Scheduled, Specializes
<1>5. CASE BypassMetadata
  BY <1>5 DEF BypassMetadata, BypassInv, Scheduled
<1>6. CASE Forward
  <2>1. /\ stage = "built" /\ stage' = "ran"
        /\ UNCHANGED <<step, computed, required, seen>>
    BY <1>6 DEF Forward
  <2>2. PICK layers \in SUBSET Layer :
          /\ layers # Layer => MayBypass /\ Observing
          /\ bypassed' = (bypassed \/ layers # Layer)
          /\ captured' = IF Observing THEN layers ELSE {}
    BY <1>6 DEF Forward
  <2>3. Scheduled' = Scheduled /\ Observing' = Observing
    BY <2>1 DEF Scheduled, Observing, Spans
  <2>4. LayersMissing' = ~seen BY <2>1 DEF LayersMissing, BypassInv
  <2>5. QueriesMissing' = (layers # Layer)
    BY <2>2, <2>3 DEF QueriesMissing
  <2> QED BY <2>1, <2>2, <2>3, <2>4, <2>5 DEF BypassInv
<1>7. CASE Finish
  BY <1>7 DEF Finish, BypassInv
<1>8. CASE Sample
  BY <1>8 DEF Sample, BypassInv
<1>9. CASE Down \/ UNCHANGED vars
  <2>1. UNCHANGED vars BY <1>9 DEF Down
  <2> QED BY <2>1 DEF vars, BypassInv, Scheduled, LayersMissing, QueriesMissing, Observing, Spans
<1> QED BY <1>1, <1>2, <1>3, <1>4, <1>5, <1>6, <1>7, <1>8, <1>9 DEF Next

(* If the method declares per-layer state, a step in which the host has     *)
(* bypassed the metadata hook or the query hook of some layer is never      *)
(* sampled from ...                                                         *)
THEOREM BypassCorrect ==
  ASSUME Declared
  PROVE  Spec => []BypassFails
<1>1. Init => BypassInv BY DEF Init, BypassInv, Scheduled, NoStep
<1>2. BypassInv => BypassFails BY DEF BypassInv, BypassFails
<1>3. BypassInv /\ [Next]_vars => BypassInv' BY BypassStep
<1> QED BY <1>1, <1>2, <1>3, PTL DEF Spec

(* ... and no other step fails.                                             *)
THEOREM FailureCorrect ==
  ASSUME Declared
  PROVE  Spec => []FailsOnlyIfBypassed
<1>1. Init => BypassInv BY DEF Init, BypassInv, Scheduled, NoStep
<1>2. BypassInv => FailsOnlyIfBypassed BY DEF BypassInv, FailsOnlyIfBypassed
<1>3. BypassInv /\ [Next]_vars => BypassInv' BY BypassStep
<1> QED BY <1>1, <1>2, <1>3, PTL DEF Spec

----------------------------------------------------------------------------
(* Observed queries.                                                        *)

LEMMA LargestOfTwo ==
  ASSUME NEW a \in Int, NEW b \in Int
  PROVE  Max({a, b}) = IF a >= b THEN a ELSE b
<1> DEFINE m == IF a >= b THEN a ELSE b
<1>1. m \in {a, b} /\ \A y \in {a, b} : m >= y OBVIOUS
<1>2. \A x \in {a, b} : (\A y \in {a, b} : x >= y) => x = m OBVIOUS
<1> QED BY <1>1, <1>2 DEF Max

LEMMA SmallestOfTwo ==
  ASSUME NEW a \in Int, NEW b \in Int
  PROVE  Min({a, b}) = IF a =< b THEN a ELSE b
<1> DEFINE m == IF a =< b THEN a ELSE b
<1>1. m \in {a, b} /\ \A y \in {a, b} : m =< y OBVIOUS
<1>2. \A x \in {a, b} : (\A y \in {a, b} : x =< y) => x = m OBVIOUS
<1> QED BY <1>1, <1>2 DEF Min

(* The first position of the window of a prompt.                            *)
WindowStart(r) == IF Prompt[r] >= Window THEN Prompt[r] - Window ELSE 0

LEMMA WindowStartType ==
  ASSUME NEW r \in Req
  PROVE  WindowStart(r) \in Nat /\ Max({0, Prompt[r] - Window}) = WindowStart(r)
<1>1. Prompt[r] \in Nat /\ Window \in Nat BY LimitsAssumption
<1>2. Max({0, Prompt[r] - Window})
        = IF 0 >= Prompt[r] - Window THEN 0 ELSE Prompt[r] - Window
  BY <1>1, LargestOfTwo
<1> QED BY <1>1, <1>2 DEF WindowStart

(* A prefix hit leaves the window to be computed: the scheduler caps it by  *)
(* what the method declares it must see.                                    *)
LEMMA HitBeforeWindow ==
  ASSUME NEW r \in Req, Prompt[r] >= Threshold
  PROVE  HitCap(r) \in Nat /\ HitCap(r) <= WindowStart(r)
<1>1. /\ Prompt[r] \in Nat /\ Prompt[r] > 0 /\ Threshold \in Nat
      /\ Recompute \in Nat /\ Window \in Nat /\ Window <= Recompute
  BY LimitsAssumption
<1> DEFINE least == Min({Prompt[r] - 1, Prompt[r] - Recompute})
<1>2. least \in Int /\ least <= Prompt[r] - Recompute BY <1>1, SmallestOfTwo
<1>3. HitCap(r) = Max({0, least}) BY <1>1 DEF HitCap
<1> HIDE DEF least
<1>4. Max({0, least}) = IF 0 >= least THEN 0 ELSE least BY <1>2, LargestOfTwo
<1> QED BY <1>1, <1>2, <1>3, <1>4 DEF WindowStart

(* Every layer has observed the window of r in its current prefill, as far  *)
(* as it lies before the position n.                                        *)
ObservedUpTo(r, n) ==
  \A l \in Layer : \A p \in Nat :
    WindowStart(r) <= p /\ p < Prompt[r] /\ p < n => <<prefill[r], p>> \in observed[r][l]

(* How far a request is once the tokens of the step have been run, and      *)
(* whether it may still be compressed for the first time.                   *)
Reached(r) ==
  IF stage \in {"ran", "sample"} /\ r \in Scheduled THEN Semantic(r) ELSE computed[r]
Uncompressed(r) ==
  /\ computed[r] # None /\ active[r] = None /\ pending[r] = None
  /\ Prompt[r] >= Threshold

(* The inductive invariant: observations belong to the current prefill and  *)
(* keep up with it, unless a layer was bypassed, which the check will see.  *)
WindowInv ==
  /\ observed \in [Req -> [Layer -> SUBSET (Nat \X Nat)]] /\ prefill \in [Req -> Nat]
  /\ \A r \in Req, l \in Layer : \A row \in observed[r][l] : row[1] = prefill[r]
  /\ stage = "sample" => complete = (Window > 0)
  /\ stage # "failed" /\ ~(stage = "ran" /\ QueriesMissing) /\ Window > 0 =>
       \A r \in Req : Uncompressed(r) => ObservedUpTo(r, Reached(r))

(* Steps that neither run tokens nor reset a request.                       *)
LEMMA SameObservation ==
  ASSUME WindowInv,
         UNCHANGED <<step, computed, prefill, active, pending>>,
         stage \notin {"ran", "sample", "failed"},
         stage' \notin {"ran", "sample"},
         observed' \in [Req -> [Layer -> SUBSET (Nat \X Nat)]],
         \A r \in Req : computed[r] # None => observed'[r] = observed[r],
         \A r \in Req : observed'[r] = observed[r] \/ observed'[r] = Unobserved
  PROVE  WindowInv'
<1>1. \A r \in Req : Reached(r) = computed[r] /\ Reached(r)' = computed[r]
  BY DEF Reached
<1>2. \A r \in Req, l \in Layer : \A row \in observed'[r][l] : row[1] = prefill'[r]
  BY DEF WindowInv, Unobserved
<1>3. ASSUME NEW r \in Req, Uncompressed(r)', Window > 0
      PROVE  ObservedUpTo(r, Reached(r))'
  <2>1. Uncompressed(r) /\ observed'[r] = observed[r] BY <1>3 DEF Uncompressed
  <2>2. ObservedUpTo(r, Reached(r)) BY <1>3, <2>1 DEF WindowInv
  <2> QED BY <1>1, <2>1, <2>2 DEF ObservedUpTo, WindowStart
<1> QED BY <1>2, <1>3 DEF WindowInv

LEMMA BeginWindow == WindowInv /\ Begin => WindowInv'
<1> SUFFICES ASSUME WindowInv, Begin PROVE WindowInv' OBVIOUS
<1>1. UNCHANGED <<computed, prefill, active, pending>> /\ stage = "idle" /\ stage' = "begun"
      /\ observed' = [r \in Req |-> IF r \in tracked \ Live THEN Unobserved ELSE observed[r]]
  BY DEF Begin, BeginQueries, rowVars
<1>2. Unobserved \in [Layer -> SUBSET (Nat \X Nat)] BY DEF Unobserved
<1>3. observed' \in [Req -> [Layer -> SUBSET (Nat \X Nat)]] BY <1>1, <1>2 DEF WindowInv
<1>4. \A r \in Req : /\ computed[r] # None => observed'[r] = observed[r]
                     /\ observed'[r] = observed[r] \/ observed'[r] = Unobserved
  BY <1>1 DEF Live
<1>5. \A r \in Req, l \in Layer : \A row \in observed'[r][l] : row[1] = prefill'[r]
  BY <1>1, <1>4 DEF WindowInv, Unobserved
<1>6. ASSUME NEW r \in Req, Uncompressed(r)', Window > 0
      PROVE  ObservedUpTo(r, Reached(r))'
  <2>1. Uncompressed(r) /\ observed'[r] = observed[r] BY <1>1, <1>4, <1>6 DEF Uncompressed
  <2>2. ObservedUpTo(r, Reached(r)) BY <1>1, <1>6, <2>1 DEF WindowInv
  <2>3. Reached(r) = computed[r] /\ Reached(r)' = computed[r] BY <1>1 DEF Reached
  <2> QED BY <1>1, <2>1, <2>2, <2>3 DEF ObservedUpTo, WindowStart
<1> QED BY <1>1, <1>3, <1>5, <1>6 DEF WindowInv

(* A request that starts over has observed nothing, and starts before the   *)
(* window.                                                                  *)
LEMMA UpdateStatesWindow == Inv /\ WindowInv /\ UpdateStates => WindowInv'
<1> SUFFICES ASSUME Inv, WindowInv, UpdateStates PROVE WindowInv' OBVIOUS
<1>1. /\ stage = "begun" /\ stage' = (IF Scheduled = {} THEN "ran" ELSE "updated")
      /\ active' = [r \in Req |-> IF computed'[r] = None THEN None ELSE ActiveAfter[r]]
      /\ pending' = [r \in Req |-> IF computed'[r] = None THEN None ELSE PendingAfter[r]]
      /\ observed' = ObservedAfter /\ step' = step /\ UpdateHost
  BY DEF UpdateStates
<1>2. PICK hit \in [Req -> 0..MaxHit] :
        /\ \A r \in Req : hit[r] > 0 => Starts(r) /\ hit[r] <= HitCap(r)
        /\ computed' = [r \in Req |->
             IF r \in step.finished THEN None
             ELSE IF Starts(r) THEN hit[r]
             ELSE IF r \in step.preempted THEN 0 ELSE computed[r]]
  BY <1>1 DEF UpdateHost
<1>3. prefill' = [r \in Req |-> IF r \in Reset THEN prefill[r] + 1 ELSE prefill[r]]
  BY <1>1 DEF UpdateHost
<1>4. Unobserved \in [Layer -> SUBSET (Nat \X Nat)] BY DEF Unobserved
<1>5. observed' \in [Req -> [Layer -> SUBSET (Nat \X Nat)]] /\ prefill' \in [Req -> Nat]
  BY <1>1, <1>3, <1>4 DEF WindowInv, ObservedAfter
<1>6. \A r \in Req, l \in Layer : \A row \in observed'[r][l] : row[1] = prefill'[r]
  BY <1>1, <1>3 DEF WindowInv, ObservedAfter, Unobserved
<1>7. \A r \in Req : Reached(r)' = computed'[r]
  BY <1>1 DEF Reached, Scheduled
<1>8. ASSUME NEW r \in Req, Uncompressed(r)', Window > 0
      PROVE  ObservedUpTo(r, Reached(r))'
  <2>1. Prompt[r] >= Threshold /\ computed'[r] # None /\ active'[r] = None /\ pending'[r] = None
    BY <1>8 DEF Uncompressed
  <2>2. HitCap(r) \in Nat /\ WindowStart(r) \in Nat /\ HitCap(r) <= WindowStart(r)
    BY <2>1, HitBeforeWindow, WindowStartType
  <2>3. hit[r] \in Nat /\ hit[r] <= WindowStart(r)
    <3>1. hit[r] \in Nat /\ (hit[r] > 0 => hit[r] <= HitCap(r))
      BY <1>2, LimitsAssumption
    <3> HIDE DEF HitCap, WindowStart
    <3> QED BY <2>2, <3>1
  <2>4. WindowStart(r)' = WindowStart(r) BY DEF WindowStart
  <2>5. CASE Starts(r) \/ r \in Reset
    <3>1. computed'[r] \in Nat /\ computed'[r] <= WindowStart(r)
      <4> HIDE DEF WindowStart
      <4> QED BY <1>2, <2>1, <2>2, <2>3, <2>5 DEF Reset
    <3> HIDE DEF WindowStart
    <3> QED BY <1>7, <2>2, <2>4, <3>1 DEF ObservedUpTo
  <2>6. CASE ~Starts(r) /\ r \notin Reset
    <3>1. computed'[r] = computed[r] /\ prefill'[r] = prefill[r] /\ observed'[r] = observed[r]
      BY <1>1, <1>2, <1>3, <2>1, <2>6 DEF Reset, ObservedAfter
    <3>2. active[r] = None /\ pending[r] = None
      <4>1. r \notin Committing \/ pending[r] = None
        BY <1>1, <2>1, <2>6 DEF ActiveAfter
      <4>2. r \notin Committing
        BY <4>1 DEF Committing
      <4>3. active[r] = None
        BY <1>1, <2>1, <2>6, <4>2 DEF ActiveAfter
      <4>4. r \in Live BY <2>1, <3>1 DEF Live
      <4>5. pending[r] = None
        BY <1>1, <2>1, <2>6, <4>2, <4>4 DEF PendingAfter, Committing
      <4> QED BY <4>3, <4>5
    <3>3. Uncompressed(r) /\ Reached(r) = computed[r]
      BY <1>1, <2>1, <3>1, <3>2 DEF Uncompressed, Reached
    <3>4. ObservedUpTo(r, computed[r])
      BY <1>1, <1>8, <3>3 DEF WindowInv
    <3> QED BY <1>7, <2>4, <3>1, <3>4 DEF ObservedUpTo
  <2> QED BY <2>5, <2>6
<1>9. stage' # "sample" BY <1>1
<1> QED BY <1>5, <1>6, <1>8, <1>9 DEF WindowInv

(* The attention layers that are not bypassed observe the prompt tokens of  *)
(* the step.                                                                *)
LEMMA SpanCovers ==
  ASSUME Inv, stage = "built", NEW r \in Scheduled, NEW p \in Nat, p < Prompt[r],
         p < Semantic(r)
  PROVE  /\ computed[r] \in Nat
         /\ p < computed[r] \/ (r \in Spans /\ p \in Span(r))
<1>1. r \in Req /\ computed[r] \in Nat /\ step.tokens[r] \in Nat
  BY DEF Inv, LiveInv, Scheduled, StepType
<1>2. Prompt[r] \in Nat BY <1>1, LimitsAssumption
<1>3. Semantic(r) \in Nat BY <1>1 DEF Semantic
<1> HIDE DEF Semantic
<1>4. Min({Semantic(r), Prompt[r]}) = IF Semantic(r) =< Prompt[r] THEN Semantic(r) ELSE Prompt[r]
  BY <1>2, <1>3, SmallestOfTwo
<1>5. Span(r) = computed[r]..(IF Semantic(r) =< Prompt[r] THEN Semantic(r) ELSE Prompt[r]) - 1
  BY <1>4 DEF Span
<1>6. ASSUME ~(p < computed[r]) PROVE r \in Spans /\ p \in Span(r)
  BY <1>1, <1>2, <1>3, <1>5, <1>6 DEF Spans
<1> QED BY <1>1, <1>2, <1>3, <1>5, <1>6

LEMMA ForwardWindow == Inv /\ WindowInv /\ Forward => WindowInv'
<1> SUFFICES ASSUME Inv, WindowInv, Forward PROVE WindowInv' OBVIOUS
<1>1. /\ stage = "built" /\ stage' = "ran"
      /\ UNCHANGED <<step, computed, prefill, active, pending>>
  BY DEF Forward, rowVars
<1>2. PICK layers \in SUBSET Layer :
        /\ layers # Layer => MayBypass /\ Observing
        /\ captured' = IF Observing THEN layers ELSE {}
        /\ observed' = [r \in Req |-> [l \in Layer |->
             observed[r][l] \cup IF Window > 0 /\ l \in layers /\ r \in Spans
                                 THEN {<<prefill[r], p>> : p \in Span(r)} ELSE {}]]
  BY DEF Forward
<1>3. \A r \in Spans : r \in Req /\ Span(r) \subseteq Nat
  <2> SUFFICES ASSUME NEW r \in Spans PROVE r \in Req /\ Span(r) \subseteq Nat OBVIOUS
  <2>1. r \in Req /\ computed[r] \in Nat
    BY <1>1 DEF Spans, Scheduled, Inv, LiveInv
  <2>2. \A p \in Span(r) : p \in Int /\ p >= computed[r] BY DEF Span
  <2> QED BY <2>1, <2>2
<1>4. observed' \in [Req -> [Layer -> SUBSET (Nat \X Nat)]]
  BY <1>2, <1>3 DEF WindowInv
<1>5. \A r \in Req, l \in Layer : \A row \in observed'[r][l] : row[1] = prefill'[r]
  BY <1>1, <1>2 DEF WindowInv
<1>6. Observing' = Observing BY <1>1 DEF Observing, Spans, Scheduled
<1>7. ASSUME NEW r \in Req, Uncompressed(r)', Window > 0, ~QueriesMissing'
      PROVE  ObservedUpTo(r, Reached(r))'
  <2>1. layers = Layer BY <1>2, <1>6, <1>7 DEF QueriesMissing
  <2>2. Uncompressed(r) BY <1>1, <1>7 DEF Uncompressed
  <2>3. ObservedUpTo(r, computed[r])
    BY <1>1, <1>7, <2>2 DEF WindowInv, Reached
  <2>4. WindowStart(r)' = WindowStart(r) /\ prefill'[r] = prefill[r]
    BY <1>1 DEF WindowStart
  <2>5. \A l \in Layer : observed[r][l] \subseteq observed'[r][l] BY <1>2
  <2>6. CASE r \notin Scheduled
    <3>1. Reached(r)' = computed[r] BY <1>1, <2>6 DEF Reached, Scheduled
    <3> QED BY <2>3, <2>4, <2>5, <3>1 DEF ObservedUpTo
  <2>7. CASE r \in Scheduled
    <3>1. Reached(r)' = Semantic(r) BY <1>1, <2>7 DEF Reached, Scheduled, Semantic
    <3>2. ASSUME NEW l \in Layer, NEW p \in Nat,
                 WindowStart(r) <= p, p < Prompt[r], p < Semantic(r)
          PROVE  <<prefill[r], p>> \in observed'[r][l]
      <4>1. p < computed[r] \/ (r \in Spans /\ p \in Span(r))
        BY <1>1, <2>7, <3>2, SpanCovers
      <4>2. CASE p < computed[r] BY <2>3, <2>5, <3>2, <4>2 DEF ObservedUpTo
      <4>3. CASE r \in Spans /\ p \in Span(r) BY <1>2, <1>7, <2>1, <4>3
      <4> QED BY <4>1, <4>2, <4>3
    <3> QED BY <2>4, <3>1, <3>2 DEF ObservedUpTo
  <2> QED BY <2>6, <2>7
<1> QED BY <1>1, <1>4, <1>5, <1>7 DEF WindowInv

(* A step that fails the check of its queries ends; one that passes has     *)
(* observed all layers.                                                     *)
LEMMA FinishWindow == WindowInv /\ Finish => WindowInv'
<1> SUFFICES ASSUME WindowInv, Finish PROVE WindowInv' OBVIOUS
<1>1. stage = "ran" /\ UNCHANGED <<step, computed, prefill, active, pending>>
  BY DEF Finish, hostVars, rowVars
<1>2. CASE LayersMissing \/ QueriesMissing
  <2>1. stage' = "failed" /\ observed' = [r \in Req |-> IF r \in Scheduled THEN Unobserved
                                                       ELSE observed[r]]
    BY <1>2 DEF Finish, AbortQueries
  <2>2. Unobserved \in [Layer -> SUBSET (Nat \X Nat)] BY DEF Unobserved
  <2>3. observed' \in [Req -> [Layer -> SUBSET (Nat \X Nat)]] BY <2>1, <2>2 DEF WindowInv
  <2>4. \A r \in Req, l \in Layer : \A row \in observed'[r][l] : row[1] = prefill'[r]
    BY <1>1, <2>1 DEF WindowInv, Unobserved
  <2> QED BY <1>1, <2>1, <2>3, <2>4 DEF WindowInv
<1>3. CASE ~(LayersMissing \/ QueriesMissing)
  <2>1. /\ stage' = IF Scheduled = {} THEN "idle" ELSE "sample"
        /\ complete' = (Window > 0) /\ observed' = observed
    BY <1>3 DEF Finish
  <2>2. ASSUME NEW r \in Req, Uncompressed(r)', Window > 0
        PROVE  ObservedUpTo(r, Reached(r))'
    <3>1. ObservedUpTo(r, Reached(r))
      BY <1>1, <1>3, <2>2 DEF WindowInv, Uncompressed
    <3>2. Reached(r)' = Reached(r)
      BY <1>1, <2>1 DEF Reached, Scheduled, Semantic
    <3> QED BY <1>1, <2>1, <3>1, <3>2 DEF ObservedUpTo, WindowStart
  <2> QED BY <1>1, <2>1, <2>2 DEF WindowInv
<1> QED BY <1>2, <1>3

(* The tokens of the step count as computed, and whoever is compressed      *)
(* starts a new observation.                                                *)
LEMMA SampleWindow == Inv /\ WindowInv /\ Sample => WindowInv'
<1> SUFFICES ASSUME Inv, WindowInv, Sample PROVE WindowInv' OBVIOUS
<1>1. PICK plans \in SUBSET {r \in Req : Due(r)} : Compress(plans) BY DEF Sample
<1>2. /\ stage = "sample" /\ stage' = "idle" /\ UNCHANGED <<prefill, active>>
      /\ computed' = [r \in Req |-> IF r \in Scheduled THEN Semantic(r) ELSE computed[r]]
  BY DEF Sample
<1>3. PICK len \in [plans -> LayerLengths] :
        pending' = [r \in Req |->
          IF r \in plans
          THEN [semantic |-> Semantic(r), physical |-> Budget, layers |-> Normal(len[r])]
          ELSE pending[r]]
  BY <1>1 DEF Compress
<1>4. observed' = [r \in Req |-> IF r \in plans THEN Unobserved ELSE observed[r]]
  BY <1>1 DEF Compress
<1>5. Unobserved \in [Layer -> SUBSET (Nat \X Nat)] BY DEF Unobserved
<1>6. observed' \in [Req -> [Layer -> SUBSET (Nat \X Nat)]] BY <1>4, <1>5 DEF WindowInv
<1>7. \A r \in Req, l \in Layer : \A row \in observed'[r][l] : row[1] = prefill'[r]
  BY <1>2, <1>4 DEF WindowInv, Unobserved
<1>8. ASSUME NEW r \in Req, Uncompressed(r)', Window > 0
      PROVE  ObservedUpTo(r, Reached(r))'
  <2>1. r \notin plans
    <3> SUFFICES ASSUME r \in plans PROVE FALSE OBVIOUS
    <3>0. r \in plans OBVIOUS
    <3>1. pending'[r] = None BY <1>8 DEF Uncompressed
    <3>2. pending'[r] \in Compression
      <4>1. Due(r) BY <1>1, <3>0
      <4>2. len[r] \in LayerLengths BY <1>3, <3>0
      <4> QED BY <1>2, <1>3, <3>0, <4>1, <4>2, PlanIsCompression
    <3> QED BY <3>1, <3>2, NoneAssumption
  <2>2. pending[r] = None /\ active[r] = None /\ Prompt[r] >= Threshold
    BY <1>2, <1>3, <1>8, <2>1 DEF Uncompressed
  <2>3. computed[r] # None
    <3>1. computed'[r] # None BY <1>8 DEF Uncompressed
    <3>2. r \in Scheduled => computed[r] \in Nat BY <1>2 DEF Inv, LiveInv
    <3> QED BY <1>2, <3>1, <3>2, NoneAssumption
  <2>4. ObservedUpTo(r, Reached(r)) BY <1>2, <1>8, <2>2, <2>3 DEF WindowInv, Uncompressed
  <2>5. Reached(r)' = Reached(r) BY <1>2 DEF Reached
  <2> QED BY <1>2, <1>4, <2>1, <2>4, <2>5 DEF ObservedUpTo, WindowStart
<1> QED BY <1>2, <1>6, <1>7, <1>8 DEF WindowInv

LEMMA WindowStep == Inv /\ WindowInv /\ [Next]_vars => WindowInv'
<1> SUFFICES ASSUME Inv, WindowInv, [Next]_vars PROVE WindowInv' OBVIOUS
<1> USE DEF hostVars, rowVars, lengthVars, layerVars, queryVars
<1>1. CASE Begin BY <1>1, BeginWindow
<1>2. CASE UpdateStates BY <1>2, UpdateStatesWindow
<1>3. CASE Prepare BY <1>3, SameObservation DEF Prepare, WindowInv
<1>4. CASE BuildMetadata BY <1>4, SameObservation DEF BuildMetadata, WindowInv
<1>5. CASE BypassMetadata BY <1>5, SameObservation DEF BypassMetadata, WindowInv
<1>6. CASE Forward BY <1>6, ForwardWindow
<1>7. CASE Finish BY <1>7, FinishWindow
<1>8. CASE Sample BY <1>8, SampleWindow
<1>9. CASE Down \/ UNCHANGED vars
  <2>1. UNCHANGED vars BY <1>9 DEF Down
  <2> QED BY <2>1 DEF vars, WindowInv, Uncompressed, ObservedUpTo, Reached, Scheduled,
             Semantic, QueriesMissing, Observing, Spans, WindowStart
<1> QED BY <1>1, <1>2, <1>3, <1>4, <1>5, <1>6, <1>7, <1>8, <1>9 DEF Next

(* A request that is compressed, or about to be, is past its prompt and has *)
(* observed nothing.                                                        *)
Compressed(r) == pending[r] # None \/ active[r] # None
AfterInv ==
  \A r \in Req : Compressed(r) =>
    computed[r] \in Nat /\ computed[r] >= Prompt[r] /\ observed[r] = Unobserved

LEMMA UpdateStatesAfter ==
  ASSUME AfterInv, UpdateStates, NEW r \in Req, Compressed(r)'
  PROVE  computed'[r] \in Nat /\ computed'[r] >= Prompt[r] /\ observed'[r] = Unobserved
<1>1. /\ active' = [x \in Req |-> IF computed'[x] = None THEN None ELSE ActiveAfter[x]]
      /\ pending' = [x \in Req |-> IF computed'[x] = None THEN None ELSE PendingAfter[x]]
      /\ observed' = ObservedAfter /\ UpdateHost
  BY DEF UpdateStates
<1>2. PICK hit \in [Req -> 0..MaxHit] :
        computed' = [x \in Req |->
          IF x \in step.finished THEN None
          ELSE IF Starts(x) THEN hit[x]
          ELSE IF x \in step.preempted THEN 0 ELSE computed[x]]
  BY <1>1 DEF UpdateHost
<1>3. r \notin Reset /\ Compressed(r)
  BY <1>1 DEF Compressed, ActiveAfter, PendingAfter, Committing
<1>4. computed[r] \in Nat /\ computed[r] >= Prompt[r] /\ observed[r] = Unobserved
  BY <1>3 DEF AfterInv
<1>5. computed[r] # 0 /\ computed[r] # None BY <1>4, LimitsAssumption, NoneAssumption
<1>6. ~Starts(r) BY <1>3, <1>5 DEF Starts
<1>7. computed'[r] = computed[r] BY <1>2, <1>3, <1>6 DEF Reset
<1>8. observed'[r] = observed[r] BY <1>1, <1>3 DEF ObservedAfter
<1> QED BY <1>4, <1>7, <1>8

LEMMA ForwardAfter ==
  ASSUME AfterInv, Forward, NEW r \in Req, Compressed(r)'
  PROVE  computed'[r] \in Nat /\ computed'[r] >= Prompt[r] /\ observed'[r] = Unobserved
<1>1. UNCHANGED <<computed, pending, active>> BY DEF Forward, rowVars
<1>2. computed[r] \in Nat /\ computed[r] >= Prompt[r] /\ observed[r] = Unobserved
  BY <1>1 DEF AfterInv, Compressed
<1>3. Prompt[r] \in Nat BY LimitsAssumption
<1>4. r \notin Spans BY <1>2, <1>3 DEF Spans
<1>5. PICK layers \in SUBSET Layer :
        observed' = [x \in Req |-> [l \in Layer |->
          observed[x][l] \cup IF Window > 0 /\ l \in layers /\ x \in Spans
                              THEN {<<prefill[x], p>> : p \in Span(x)} ELSE {}]]
  BY DEF Forward
<1>6. observed'[r] = [l \in Layer |-> observed[r][l]] BY <1>4, <1>5
<1>7. observed'[r] = Unobserved BY <1>2, <1>6 DEF Unobserved
<1> QED BY <1>1, <1>2, <1>7

LEMMA SampleAfter ==
  ASSUME Inv, AfterInv, Sample, NEW r \in Req, Compressed(r)'
  PROVE  computed'[r] \in Nat /\ computed'[r] >= Prompt[r] /\ observed'[r] = Unobserved
<1>1. PICK plans \in SUBSET {x \in Req : Due(x)} : Compress(plans) BY DEF Sample
<1>2. /\ stage = "sample" /\ active' = active
      /\ computed' = [x \in Req |-> IF x \in Scheduled THEN Semantic(x) ELSE computed[x]]
  BY DEF Sample
<1>3. /\ observed' = [x \in Req |-> IF x \in plans THEN Unobserved ELSE observed[x]]
      /\ r \notin plans => pending'[r] = pending[r]
  BY <1>1 DEF Compress
<1>4. Prompt[r] \in Nat BY LimitsAssumption
<1>5. r \in Scheduled => computed[r] \in Nat /\ step.tokens[r] \in Nat
  BY <1>2 DEF Inv, LiveInv, StepType
<1>6. CASE Compressed(r)
  <2>1. computed[r] \in Nat /\ computed[r] >= Prompt[r] /\ observed[r] = Unobserved
    BY <1>6 DEF AfterInv
  <2>2. computed'[r] \in Nat /\ computed'[r] >= Prompt[r]
    BY <1>2, <1>4, <1>5, <2>1 DEF Semantic
  <2> QED BY <1>3, <2>1, <2>2
<1>7. CASE ~Compressed(r)
  <2>1. r \in plans BY <1>2, <1>3, <1>7 DEF Compressed
  <2>2. r \in Scheduled /\ Semantic(r) = Prompt[r] BY <1>1, <1>7, <2>1 DEF Compressed, Due
  <2> QED BY <1>2, <1>3, <1>4, <2>1, <2>2
<1> QED BY <1>6, <1>7

LEMMA AfterStep == Inv /\ AfterInv /\ [Next]_vars => AfterInv'
<1> SUFFICES ASSUME Inv, AfterInv, [Next]_vars PROVE AfterInv' OBVIOUS
<1> USE DEF hostVars, rowVars, lengthVars, layerVars, queryVars
<1>1. CASE Begin
  <2>1. UNCHANGED <<computed, pending, active>> /\ BeginQueries BY <1>1 DEF Begin
  <2>2. \A r \in Req : observed'[r] \in {observed[r], Unobserved} BY <2>1 DEF BeginQueries
  <2> QED BY <2>1, <2>2 DEF AfterInv, Compressed
<1>2. CASE UpdateStates BY <1>2, UpdateStatesAfter DEF AfterInv
<1>3. CASE Prepare \/ BuildMetadata \/ BypassMetadata \/ Down \/ UNCHANGED vars
  <2>1. UNCHANGED <<computed, pending, active, observed>>
    BY <1>3 DEF Prepare, BuildMetadata, BypassMetadata, Down, vars
  <2> QED BY <2>1 DEF AfterInv, Compressed
<1>4. CASE Forward BY <1>4, ForwardAfter DEF AfterInv
<1>5. CASE Finish
  <2>1. UNCHANGED <<computed, pending, active>> BY <1>5 DEF Finish
  <2>2. \A r \in Req : observed'[r] \in {observed[r], Unobserved}
    BY <1>5 DEF Finish, AbortQueries
  <2> QED BY <2>1, <2>2 DEF AfterInv, Compressed
<1>6. CASE Sample BY <1>6, SampleAfter DEF AfterInv
<1> QED BY <1>1, <1>2, <1>3, <1>4, <1>5, <1>6 DEF Next

(* A request that is compressed for the first time is at the end of its     *)
(* prompt.                                                                  *)
LEMMA WindowAction ==
  ASSUME Inv, WindowInv, AfterInv, [Next]_vars, NEW r \in Req, Completes(r)
  PROVE  /\ complete
         /\ IF active[r] = None THEN WindowObserved(r) ELSE observed[r] = Unobserved
<1>1. Window > 0 /\ stage = "sample" /\ pending[r] = None /\ pending'[r] # None
  BY DEF Completes
<1>2. Sample
  <2>1. ~UNCHANGED vars BY <1>1 DEF vars, rowVars
  <2> QED BY <1>1, <2>1 DEF Next, Begin, UpdateStates, Prepare, BuildMetadata, BypassMetadata,
             Forward, Finish, Down
<1>3. PICK plans \in SUBSET {q \in Req : Due(q)} : Compress(plans) BY <1>2 DEF Sample
<1>4. r \in plans BY <1>1, <1>3 DEF Compress
<1>5. r \in Scheduled /\ Physical(r) >= Threshold
  BY <1>3, <1>4 DEF Due
<1>6. complete BY <1>1 DEF WindowInv
<1>7. ASSUME active[r] # None PROVE observed[r] = Unobserved
  BY <1>7 DEF AfterInv, Compressed
<1>8. ASSUME active[r] = None PROVE WindowObserved(r)
  <2>1. computed[r] \in Nat /\ Prompt[r] \in Nat
    BY <1>1, <1>5, LimitsAssumption DEF Inv, LiveInv
  <2>2. Semantic(r) = Prompt[r] BY <1>3, <1>4, <1>8 DEF Due
  <2>3. Prompt[r] >= Threshold BY <1>5, <1>8, <2>1, <2>2 DEF Physical, Removed
  <2>4. Uncompressed(r) BY <1>1, <1>8, <2>1, <2>3, NoneAssumption DEF Uncompressed
  <2>5. ObservedUpTo(r, Prompt[r])
    <3>1. Reached(r) = Prompt[r] BY <1>1, <1>5, <2>2 DEF Reached
    <3>2. ObservedUpTo(r, Reached(r)) BY <1>1, <2>4 DEF WindowInv
    <3> QED BY <3>1, <3>2
  <2>6. WindowStart(r) \in Nat /\ Max({0, Prompt[r] - Window}) = WindowStart(r)
    BY WindowStartType
  <2> HIDE DEF WindowStart
  <2>7. \A p \in WindowStart(r)..Prompt[r] - 1 : p \in Nat /\ WindowStart(r) <= p /\ p < Prompt[r]
    BY <2>1, <2>6
  <2> QED BY <2>5, <2>6, <2>7 DEF WindowObserved, ObservedUpTo, WindowInv
<1> QED BY <1>6, <1>7, <1>8

(* When the method completes the observation of a request that is           *)
(* compressed for the first time, after any chunks, prefix hits,            *)
(* preemptions and bypassed layers, every layer has the whole query window  *)
(* of the current prefill and nothing of an earlier one; of a request that  *)
(* is compressed again it has nothing.                                      *)
THEOREM WindowCorrect == Spec => WindowComplete
<1>1. Init => WindowInv /\ AfterInv
  BY LimitsAssumption DEF Init, WindowInv, AfterInv, Compressed, Unobserved, Uncompressed
<1>2. Inv /\ WindowInv /\ AfterInv /\ [Next]_vars =>
        [\A r \in Req : Completes(r) =>
           /\ complete
           /\ IF active[r] = None THEN WindowObserved(r) ELSE observed[r] = Unobserved]_vars
  BY WindowAction
<1> QED BY <1>1, <1>2, InitInv, NextInv, WindowStep, AfterStep, PTL DEF Spec, WindowComplete
=============================================================================
