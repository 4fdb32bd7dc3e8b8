------------------------- MODULE CalibrationProofs -------------------------
(* Theorems about Calibration, for any set of services and commands.        *)
EXTENDS Calibration, TLAPS

(* None is no process and no artifact, and the steps of Next by name.       *)
LEMMA NoneIsNothing == None \notin Proc /\ None \notin Artifact
BY ProcessAssumption, ExistingAssumption

LEMMA Steps ==
  ASSUME [Next]_vars
  PROVE  \/ \E p \in Proc : Probe(p) \/ Ensure(p) \/ Validate(p) \/ Load(p)
         \/ \E p \in Proc : StartCommand(p) \/ Acquire(p) \/ Recheck(p) \/ ValidateExisting(p)
         \/ \E p \in Proc : Generate(p) \/ Write(p) \/ Publish(p) \/ Raise(p) \/ Kill(p)
         \/ PowerLoss \/ Settle \/ Delete \/ UNCHANGED vars
BY DEF Next, Run

(* A power loss leaves an artifact or nothing.                              *)
LEMMA SurvivorType ==
  ASSUME NEW a \in Artifact \cup {None}
  PROVE  Survivor(a) \in Artifact \cup {None}
BY NoneIsNothing DEF Survivor, Artifact

(* A step of p from one place inside the lock to a saving place, with a new *)
(* content for its temporary file, keeps the types.                         *)
LEMMA SavingTypes ==
  ASSUME TypeOK, NEW p \in Proc, NEW a \in Artifact,
         NEW from \in {"generate", "write"}, NEW to \in {"write", "publish"},
         Goes(p, from, to), tmp' = [tmp EXCEPT ![p] = a], made' \in Nat,
         UNCHANGED <<file, settled, lock, loaded, kills, disturbed>>
  PROVE  TypeOK'
<1>1. pc' \in [Proc -> Places] /\ pc'[p] = to /\ \A q \in Proc \ {p} : pc'[q] = pc[q]
  BY DEF TypeOK, Goes, Places, InLock
<1>2. tmp' \in [Proc -> Artifact \cup {None}] /\ tmp'[p] = a
      /\ \A q \in Proc \ {p} : tmp'[q] = tmp[q]
  BY DEF TypeOK
<1>3. lock = p
  BY DEF TypeOK, Goes, InLock
<1>4. \A q \in Proc : pc'[q] \in InLock <=> lock' = q
  BY <1>1, <1>3 DEF TypeOK, InLock
<1>5. \A q \in Proc : pc'[q] \in {"write", "publish"} <=> tmp'[q] # None
  BY <1>1, <1>2, NoneIsNothing DEF TypeOK
<1>. QED BY <1>1, <1>2, <1>4, <1>5 DEF TypeOK

(* Every variable has its type, and a process is inside the locked part     *)
(* exactly if it holds the lock: two processes never generate at once.      *)
THEOREM TypeCorrect == Spec => []TypeOK
<1>1. ASSUME Init PROVE TypeOK
  BY <1>1, NoneIsNothing, ExistingAssumption DEF Init, TypeOK, Places, InLock, AtRest
<1>2. ASSUME TypeOK, [Next]_vars PROVE TypeOK'
  <2>1. ASSUME NEW p \in Proc, Probe(p) \/ Ensure(p) \/ Validate(p) PROVE TypeOK'
    BY <1>2, <2>1, NoneIsNothing
    DEF TypeOK, Probe, Ensure, Validate, Goes, Places, InLock, AtRest
  <2>2. ASSUME NEW p \in Proc, Load(p) PROVE TypeOK'
    BY <1>2, <2>2, NoneIsNothing DEF TypeOK, Load, Goes, Places, InLock, AtRest, Readable
  <2>3. ASSUME NEW p \in Proc, StartCommand(p) \/ Acquire(p) \/ Recheck(p) PROVE TypeOK'
    BY <1>2, <2>3, NoneIsNothing
    DEF TypeOK, StartCommand, Acquire, Recheck, Goes, Places, InLock, AtRest
  <2>4. ASSUME NEW p \in Proc, ValidateExisting(p) PROVE TypeOK'
    BY <1>2, <2>4, NoneIsNothing
    DEF TypeOK, ValidateExisting, Returned, Goes, Places, InLock, AtRest
  <2>5. ASSUME NEW p \in Proc, Generate(p) PROVE TypeOK'
    <3>1. [model |-> Serves[p], id |-> made + 1, whole |-> FALSE, synced |-> FALSE] \in Artifact
      BY <1>2 DEF TypeOK, Artifact, Models
    <3>2. made' \in Nat
      BY <1>2, <2>5 DEF TypeOK, Generate
    <3>. QED BY <1>2, <2>5, <3>1, <3>2, SavingTypes DEF Generate
  <2>6. ASSUME NEW p \in Proc, Write(p) PROVE TypeOK'
    <3>1. tmp[p] \in Artifact
      BY <1>2, <2>6 DEF TypeOK, Write, Goes
    <3>2. [tmp[p] EXCEPT !.whole = TRUE, !.synced = TRUE] \in Artifact
      BY <3>1 DEF Artifact
    <3>3. tmp' = [tmp EXCEPT ![p] = [tmp[p] EXCEPT !.whole = TRUE, !.synced = TRUE]]
      BY <1>2, <2>6 DEF TypeOK, Write
    <3>4. made' \in Nat
      BY <1>2, <2>6 DEF TypeOK, Write
    <3>. QED BY <1>2, <2>6, <3>2, <3>3, <3>4, SavingTypes DEF Write
  <2>7. ASSUME NEW p \in Proc, Publish(p) PROVE TypeOK'
    BY <1>2, <2>7, NoneIsNothing
    DEF TypeOK, Publish, Returned, Goes, Places, InLock, AtRest
  <2>8. ASSUME NEW p \in Proc, Raise(p) \/ Kill(p) PROVE TypeOK'
    BY <1>2, <2>8, NoneIsNothing DEF TypeOK, Raise, Kill, Places, InLock, AtRest
  <2>9. ASSUME PowerLoss PROVE TypeOK'
    BY <1>2, <2>9, NoneIsNothing, SurvivorType
    DEF TypeOK, PowerLoss, Places, InLock, AtRest
  <2>10. ASSUME Settle \/ Delete \/ UNCHANGED vars PROVE TypeOK'
    BY <1>2, <2>10 DEF TypeOK, Settle, Delete, vars
  <2>. QED BY <1>2, <2>1, <2>2, <2>3, <2>4, <2>5, <2>6, <2>7, <2>8, <2>9, <2>10, Steps
<1>. QED BY <1>1, <1>2, PTL DEF Spec

----------------------------------------------------------------------------
(* What is visible, or would be after a power loss, is complete and synced  *)
(* if the plugin generated it, and so is what is about to be renamed.       *)
Durable(a) == a # None /\ a.id > 0 => a.whole /\ a.synced
DurableInv ==
  /\ TypeOK /\ Durable(file) /\ Durable(settled)
  /\ \A p \in Proc : pc[p] = "publish" => Durable(tmp[p])

(* A power loss cannot tear what was synced.                                *)
LEMMA SurvivorDurable ==
  ASSUME NEW a \in Artifact \cup {None}, Durable(a)
  PROVE  Durable(Survivor(a))
BY NoneIsNothing DEF Survivor, Durable, Artifact

(* Every step keeps that: a rename needs a complete and synced file.        *)
LEMMA DurableStep ==
  ASSUME DurableInv, TypeOK', [Next]_vars
  PROVE  DurableInv'
<1>1. ASSUME NEW p \in Proc, Probe(p) \/ Ensure(p) \/ Validate(p) \/ Load(p) PROVE DurableInv'
  BY <1>1 DEF DurableInv, TypeOK, Probe, Ensure, Validate, Load, Goes
<1>2. ASSUME NEW p \in Proc,
             StartCommand(p) \/ Acquire(p) \/ Recheck(p) \/ ValidateExisting(p)
      PROVE  DurableInv'
  BY <1>2 DEF DurableInv, TypeOK, StartCommand, Acquire, Recheck, ValidateExisting,
              Returned, Goes
<1>3. ASSUME NEW p \in Proc, Generate(p) PROVE DurableInv'
  BY <1>3 DEF DurableInv, TypeOK, Generate, Goes
<1>4. ASSUME NEW p \in Proc, Write(p) PROVE DurableInv'
  <2>1. tmp[p] \in Artifact
    BY <1>4 DEF DurableInv, TypeOK, Write, Goes
  <2>2. tmp'[p].whole /\ tmp'[p].synced
    BY <1>4, <2>1 DEF DurableInv, TypeOK, Write, Artifact
  <2>3. \A q \in Proc \ {p} : pc'[q] = pc[q] /\ tmp'[q] = tmp[q]
    BY <1>4 DEF DurableInv, TypeOK, Write, Goes
  <2>. QED BY <1>4, <2>2, <2>3 DEF DurableInv, Durable, Write
<1>5. ASSUME NEW p \in Proc, Publish(p) PROVE DurableInv'
  BY <1>5 DEF DurableInv, TypeOK, Publish, Returned, Goes
<1>6. ASSUME NEW p \in Proc, Raise(p) \/ Kill(p) PROVE DurableInv'
  BY <1>6 DEF DurableInv, TypeOK, Raise, Kill
<1>7. ASSUME PowerLoss PROVE DurableInv'
  <2>1. file \in Artifact \cup {None} /\ settled \in Artifact \cup {None}
    BY DEF DurableInv, TypeOK
  <2>2. Durable(file') /\ Durable(settled')
    BY <1>7, <2>1, SurvivorDurable DEF DurableInv, PowerLoss
  <2>3. \A p \in Proc : pc'[p] # "publish"
    BY <1>7 DEF PowerLoss, TypeOK
  <2>. QED BY <2>2, <2>3 DEF DurableInv
<1>8. ASSUME Settle \/ Delete \/ UNCHANGED vars PROVE DurableInv'
  BY <1>8 DEF DurableInv, Settle, Delete, vars, Durable
<1>. QED BY <1>1, <1>2, <1>3, <1>4, <1>5, <1>6, <1>7, <1>8, Steps

(* "Partial files are never exposed at stats_path": a generated artifact    *)
(* that a process can see is complete, also after a power loss.             *)
THEOREM WholeCorrect == Spec => []PublishedWhole
<1>1. ASSUME Init, TypeOK PROVE DurableInv
  BY <1>1, NoneIsNothing, ExistingAssumption DEF Init, DurableInv, Durable
<1>2. ASSUME DurableInv PROVE PublishedWhole
  <2>1. file \in Artifact \cup {None} /\ Durable(file)
    BY <1>2 DEF DurableInv, TypeOK
  <2>2. Durable(Survivor(file))
    BY <2>1, SurvivorDurable
  <2>. QED BY <2>1, <2>2 DEF PublishedWhole, Durable
<1>. QED BY <1>1, <1>2, DurableStep, TypeCorrect, PTL DEF Spec

----------------------------------------------------------------------------
(* An unforced generator works only while there is no file: nobody else can *)
(* publish one under its lock.                                              *)
NothingToOverwrite ==
  /\ TypeOK
  /\ \A p \in Proc \ Forced : pc[p] \in {"generate", "write", "publish"} => file = None

(* Whoever is about to save holds the lock and found no file under it.      *)
LEMMA NothingToOverwriteStep ==
  ASSUME NothingToOverwrite, TypeOK', [Next]_vars
  PROVE  NothingToOverwrite'
<1>1. ASSUME NEW p \in Proc, Probe(p) \/ Ensure(p) \/ Validate(p) \/ Load(p)
      PROVE  NothingToOverwrite'
  BY <1>1 DEF NothingToOverwrite, TypeOK, Probe, Ensure, Validate, Load, Goes
<1>2. ASSUME NEW p \in Proc,
             StartCommand(p) \/ Acquire(p) \/ Recheck(p) \/ ValidateExisting(p)
      PROVE  NothingToOverwrite'
  <2>1. CASE StartCommand(p)
    BY <2>1 DEF NothingToOverwrite, TypeOK, StartCommand, Goes
  <2>2. CASE Acquire(p)
    <3>1. \A q \in Proc : pc'[q] = pc[q] \/ pc'[q] = "recheck"
      BY <2>2 DEF NothingToOverwrite, TypeOK, Acquire, Goes
    <3>2. file' = file
      BY <2>2 DEF Acquire
    <3>. QED BY <3>1, <3>2 DEF NothingToOverwrite
  <2>3. CASE Recheck(p)
    <3>1. pc'[p] = (IF file # None /\ p \notin Forced THEN "existing" ELSE "generate")
          /\ \A q \in Proc \ {p} : pc'[q] = pc[q]
      BY <2>3 DEF NothingToOverwrite, TypeOK, Recheck, Goes
    <3>2. file' = file
      BY <2>3 DEF Recheck
    <3>. QED BY <3>1, <3>2 DEF NothingToOverwrite
  <2>4. CASE ValidateExisting(p)
    BY <2>4 DEF NothingToOverwrite, TypeOK, ValidateExisting, Returned, Goes
  <2>. QED BY <1>2, <2>1, <2>2, <2>3, <2>4
<1>3. ASSUME NEW p \in Proc, Generate(p) \/ Write(p) PROVE NothingToOverwrite'
  BY <1>3 DEF NothingToOverwrite, TypeOK, Generate, Write, Goes
<1>4. ASSUME NEW p \in Proc, Publish(p) PROVE NothingToOverwrite'
  <2>1. lock = p
    BY <1>4 DEF NothingToOverwrite, TypeOK, Publish, Goes, InLock
  <2>2. \A q \in Proc : pc'[q] \notin {"generate", "write", "publish"}
    BY <1>4, <2>1 DEF NothingToOverwrite, TypeOK, Publish, Goes, InLock, Returned
  <2>. QED BY <2>2 DEF NothingToOverwrite
<1>5. ASSUME NEW p \in Proc, Raise(p) \/ Kill(p) PROVE NothingToOverwrite'
  BY <1>5 DEF NothingToOverwrite, TypeOK, Raise, Kill
<1>6. ASSUME PowerLoss PROVE NothingToOverwrite'
  BY <1>6 DEF NothingToOverwrite, TypeOK, PowerLoss
<1>7. ASSUME Settle \/ Delete \/ UNCHANGED vars PROVE NothingToOverwrite'
  BY <1>7 DEF NothingToOverwrite, Settle, Delete, vars
<1>. QED BY <1>1, <1>2, <1>3, <1>4, <1>5, <1>6, <1>7, Steps

(* So it holds in every reachable state.                                    *)
LEMMA NothingToOverwriteCorrect == Spec => []NothingToOverwrite
<1>1. ASSUME Init, TypeOK PROVE NothingToOverwrite
  BY <1>1 DEF Init, NothingToOverwrite
<1>. QED BY <1>1, NothingToOverwriteStep, TypeCorrect, PTL DEF Spec

(* A step keeps the artifact, unless it is deleted, forced or rolled back.   *)
LEMMA KeptStep ==
  ASSUME NothingToOverwrite, [Next]_vars
  PROVE  Kept
<1>1. ASSUME NEW p \in Proc, Publish(p) PROVE Kept
  <2>1. pc[p] = "publish"
    BY <1>1 DEF Publish, Goes
  <2>2. p \in Forced \/ file = None
    BY <2>1 DEF NothingToOverwrite
  <2>. QED BY <2>1, <2>2 DEF Kept
<1>2. ASSUME NEW p \in Proc, Probe(p) \/ Ensure(p) \/ Validate(p) \/ Load(p) \/ StartCommand(p)
      PROVE  Kept
  <2>1. file' = file
    BY <1>2 DEF Probe, Ensure, Validate, Load, StartCommand
  <2>. QED BY <2>1 DEF Kept
<1>3. ASSUME NEW p \in Proc, Acquire(p) \/ Recheck(p) \/ ValidateExisting(p) PROVE Kept
  BY <1>3 DEF Acquire, Recheck, ValidateExisting, Kept
<1>4. ASSUME NEW p \in Proc, Generate(p) \/ Write(p) \/ Raise(p) \/ Kill(p) PROVE Kept
  BY <1>4 DEF Generate, Write, Raise, Kill, Kept
<1>5. ASSUME PowerLoss PROVE Kept
  <2>1. kills \in Nat /\ kills' = kills + 1
    BY <1>5 DEF PowerLoss, NothingToOverwrite, TypeOK
  <2>2. kills' # kills
    BY <2>1
  <2>. QED BY <2>2 DEF Kept
<1>6. ASSUME Settle \/ Delete \/ UNCHANGED vars PROVE Kept
  BY <1>6 DEF Settle, Delete, vars, Kept
<1>. QED BY <1>1, <1>2, <1>3, <1>4, <1>5, <1>6, Steps

(* "An existing artifact is never overwritten during service startup", nor  *)
(* by a command without --force.                                            *)
THEOREM OverwriteCorrect == Spec => NeverOverwritten
<1>1. ASSUME NothingToOverwrite, [Next]_vars PROVE [Kept]_vars
  BY <1>1, KeptStep
<1>. QED BY <1>1, NothingToOverwriteCorrect, PTL DEF Spec, NeverOverwritten

----------------------------------------------------------------------------
(* Until somebody deletes or replaces it, the artifact changes only by a    *)
(* power loss once it is there: all services run with the file, a service   *)
(* that has validated it may rely on it, and no service ever generates.     *)
OneArtifact ==
  /\ NothingToOverwrite
  /\ \A p \in Service : loaded[p] # None => loaded[p] = file /\ Accepted(file, p)
  /\ \A p \in Service : pc[p] \in {"ensure", "validate", "load"} => Readable(file)
  /\ \A p \in Service : pc[p] = "load" => Accepted(file, p)
  /\ \A p \in Service : pc[p] \notin InLock \cup {"acquire"}
  /\ \A p \in Command : pc[p] \notin {"ensure", "validate", "load"}

(* What has been deleted or replaced stays so.                              *)
LEMMA DisturbedForGood ==
  ASSUME [Next]_vars, disturbed
  PROVE  disturbed'
BY Steps DEF Probe, Ensure, Validate, Load, StartCommand, Acquire, Recheck, ValidateExisting,
             Generate, Write, Publish, Raise, Kill, PowerLoss, Settle, Delete, vars

(* One step of such a deployment, process by process.                       *)
LEMMA OneArtifactStep ==
  ASSUME OneArtifact, NothingToOverwrite', [Next]_vars, ~disturbed'
  PROVE  OneArtifact'
<1>. USE DEF OneArtifact, Proc
<1>. TypeOK
  BY DEF NothingToOverwrite
<1>1. ASSUME NEW p \in Proc, Probe(p) PROVE OneArtifact'
  <2>1. p \in Service /\ p \notin Command
    BY <1>1, ProcessAssumption DEF Probe
  <2>2. pc'[p] = (IF Readable(file) THEN "ensure" ELSE "failed")
        /\ \A q \in Proc \ {p} : pc'[q] = pc[q]
    BY <1>1 DEF TypeOK, Probe, Goes
  <2>. QED BY <1>1, <2>1, <2>2 DEF Probe, Accepted, InLock
<1>2. ASSUME NEW p \in Proc, Ensure(p) PROVE OneArtifact'
  <2>1. p \in Service /\ file # None
    BY <1>2 DEF Ensure, Goes, Readable
  <2>. QED BY <1>2, <2>1, ProcessAssumption DEF TypeOK, Ensure, Goes, InLock
<1>3. ASSUME NEW p \in Proc, Validate(p) PROVE OneArtifact'
  <2>1. p \in Service
    BY <1>3 DEF Validate, Goes
  <2>. QED BY <1>3, <2>1, ProcessAssumption DEF TypeOK, Validate, Goes, InLock, Accepted
<1>4. ASSUME NEW p \in Proc, Load(p) PROVE OneArtifact'
  <2>1. p \in Service
    BY <1>4 DEF Load, Goes
  <2>2. Accepted(file, p) /\ Readable(file)
    BY <1>4, <2>1 DEF Load, Goes
  <2>. QED BY <1>4, <2>1, <2>2, ProcessAssumption DEF TypeOK, Load, Goes, InLock
<1>5. ASSUME NEW p \in Proc,
             StartCommand(p) \/ Acquire(p) \/ Recheck(p) \/ Generate(p) \/ Write(p)
      PROVE  OneArtifact'
  <2>1. p \in Command /\ p \notin Service
    BY <1>5, ProcessAssumption
    DEF StartCommand, Acquire, Recheck, Generate, Write, Goes, InLock
  <2>2. file' = file /\ loaded' = loaded
    BY <1>5 DEF StartCommand, Acquire, Recheck, Generate, Write
  <2>3. \A q \in Service : pc'[q] = pc[q]
    BY <1>5, <2>1 DEF TypeOK, StartCommand, Acquire, Recheck, Generate, Write, Goes
  <2>4. \A q \in Command : pc'[q] = pc[q] \/ pc'[q] \in {"acquire"} \cup InLock
    BY <1>5, <2>1
    DEF TypeOK, StartCommand, Acquire, Recheck, Generate, Write, Goes, InLock
  <2>. QED BY <2>2, <2>3, <2>4 DEF Accepted, InLock
<1>6. ASSUME NEW p \in Proc, ValidateExisting(p) PROVE OneArtifact'
  <2>1. p \in Command /\ p \notin Service
    BY <1>6, ProcessAssumption DEF ValidateExisting, Goes, InLock
  <2>2. pc' \in [Proc -> Places] /\ pc'[p] \in {"done", "failed"}
        /\ \A q \in Proc \ {p} : pc'[q] = pc[q]
    BY <1>6, <2>1 DEF TypeOK, ValidateExisting, Goes, Returned, Places, AtRest
  <2>. QED BY <1>6, <2>1, <2>2 DEF ValidateExisting, Accepted
<1>7. ASSUME NEW p \in Proc, Publish(p) PROVE OneArtifact'
  <2>1. p \in Command /\ p \notin Service
    BY <1>7, ProcessAssumption DEF Publish, Goes, InLock
  <2>2. pc'[p] = "done" /\ \A q \in Proc \ {p} : pc'[q] = pc[q]
    BY <1>7, <2>1 DEF TypeOK, Publish, Goes, Returned
  <2>3. file = None
    BY <1>7 DEF Publish, Goes, NothingToOverwrite
  <2>4. \A q \in Service : loaded[q] = None /\ pc[q] \notin {"ensure", "validate", "load"}
    BY <2>3 DEF Readable, Accepted
  <2>. QED BY <1>7, <2>1, <2>2, <2>4 DEF Publish
<1>8. ASSUME NEW p \in Proc, Raise(p) \/ Kill(p) PROVE OneArtifact'
  <2>1. file' = file /\ loaded' = loaded
    BY <1>8 DEF Raise, Kill
  <2>2. \A q \in Proc : pc'[q] \in {pc[q], "failed", "start"}
    BY <1>8 DEF TypeOK, Raise, Kill
  <2>. QED BY <2>1, <2>2 DEF Accepted, InLock
<1>9. ASSUME PowerLoss PROVE OneArtifact'
  <2>1. \A q \in Proc : pc'[q] \in {"done", "failed", "start"}
    BY <1>9 DEF PowerLoss
  <2>2. \A q \in Service : loaded'[q] = None
    BY <1>9 DEF PowerLoss
  <2>. QED BY <2>1, <2>2 DEF InLock
<1>10. ASSUME Settle \/ Delete \/ UNCHANGED vars PROVE OneArtifact'
  BY <1>10 DEF Settle, Delete, vars, Accepted
<1>. QED
  BY <1>1, <1>2, <1>3, <1>4, <1>5, <1>6, <1>7, <1>8, <1>9, <1>10, Steps

(* Whatever process wins the race or is killed: undisturbed, the path goes  *)
(* from empty to one artifact (generate_calibration_artifact).              *)
THEOREM OneArtifactCorrect == Spec => [](~disturbed => OneArtifact)
<1>. DEFINE Inv == ~disturbed => OneArtifact
<1>1. Init /\ NothingToOverwrite => Inv
  BY ProcessAssumption DEF Init, OneArtifact, InLock, Proc
<1>2. ASSUME NothingToOverwrite, Inv, NothingToOverwrite', [Next]_vars PROVE Inv'
  <2>1. disturbed => disturbed'
    BY <1>2, DisturbedForGood DEF NothingToOverwrite
  <2>. QED BY <1>2, <2>1, OneArtifactStep
<1>. HIDE DEF Inv
<1>3. Spec => []Inv
  BY <1>1, <1>2, NothingToOverwriteCorrect, PTL DEF Spec
<1>. QED BY <1>3 DEF Inv

(* All services run with the same statistics, unless somebody deletes the   *)
(* artifact or replaces it with --force between two of them.                *)
THEOREM StatisticsCorrect == Spec => []SameStatistics
<1>1. (~disturbed => OneArtifact) => SameStatistics
  BY DEF OneArtifact, SameStatistics
<1>. QED BY <1>1, OneArtifactCorrect, PTL

(* A service runs with statistics of the model it serves, unless somebody   *)
(* deletes or replaces the artifact between its validation and its load.    *)
THEOREM BoundCorrect == Spec => []ServedIsBound
<1>1. (~disturbed => OneArtifact) => ServedIsBound
  BY DEF OneArtifact, ServedIsBound, Accepted
<1>. QED BY <1>1, OneArtifactCorrect, PTL
=============================================================================
