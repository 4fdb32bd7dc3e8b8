---------------------------- MODULE Calibration ----------------------------
(***************************************************************************)
(* Calibration artifacts: several processes share one stats_path.          *)
(* Services are vLLM workers starting up: the wrapped load_model probes    *)
(* the method, ensure_calibration_for_runner validates or generates the    *)
(* artifact, and the provider loads it when the KV cache is initialized.   *)
(* Commands run `vllm-ascend-kvcompress-calibrate`.  Generation happens    *)
(* under an flock next to the artifact, into a temporary file that is      *)
(* synced and then renamed.  Any process may be killed, the machine may    *)
(* lose power, a generation may raise.                                     *)
(*                                                                         *)
(* All models here have one attention shape, so that only the binding of   *)
(* an artifact (model, revision, fingerprint) tells them apart.            *)
(***************************************************************************)
EXTENDS Integers, FiniteSets

CONSTANTS
  Service,     \* workers that start up
  Command,     \* runs of the command-line generator
  Forced,      \* the commands that were given --force
  None,
  Serves,      \* the model of each process
  Unbound,     \* the model of an artifact that the plugin did not generate
  Existing,    \* artifacts that may be at stats_path in the beginning
  AutoCalibrate, \* auto_calibrate
  MayDelete,   \* an operator may delete the artifact
  MaxKills     \* bound on kills, power losses and failed generations

Proc == Service \cup Command
Models == {Serves[p] : p \in Proc} \cup {Unbound}
Artifact == [model: Models, id: Nat, whole: BOOLEAN, synced: BOOLEAN]

ASSUME ProcessAssumption ==
  /\ Service \cap Command = {} /\ Forced \subseteq Command /\ None \notin Proc
  /\ {AutoCalibrate, MayDelete} \subseteq BOOLEAN /\ MaxKills \in Nat
ASSUME ExistingAssumption ==
  /\ None \notin Artifact
  /\ \A a \in Existing : a = None \/ (a \in Artifact /\ a.id = 0)

VARIABLES
  pc,       \* where each process is
  file,     \* the artifact at stats_path, or None
  settled,  \* what a power loss would leave there if the last rename is lost
  tmp,      \* the temporary file of each process, or None
  lock,     \* the process that holds the flock
  loaded,   \* the statistics a service runs with
  made,     \* generations so far, the identity of artifacts
  kills,    \* kills, power losses and failures so far
  disturbed \* history: an artifact was deleted, or replaced with --force

vars == <<pc, file, settled, tmp, lock, loaded, made, kills, disturbed>>

InLock == {"recheck", "existing", "generate", "write", "publish"}
AtRest == {"serving", "done", "failed"}
Places == {"start", "ensure", "validate", "acquire", "load"} \cup InLock \cup AtRest

Goes(p, from, to) == pc[p] = from /\ pc' = [pc EXCEPT ![p] = to]

(* CalibrationStats.load, and _validate_artifact for the model of p.        *)
Readable(a) == a # None /\ a.whole
AcceptedUnbound(a, p) == Readable(a) \* mutant: the binding is not compared
Accepted(a, p) == Readable(a) /\ a.model \in {Serves[p], Unbound}

----------------------------------------------------------------------------
Init ==
  /\ pc = [p \in Proc |-> "start"]
  /\ file \in Existing /\ settled = file
  /\ tmp = [p \in Proc |-> None]
  /\ lock = None
  /\ loaded = [p \in Service |-> None]
  /\ made = 0 /\ kills = 0 /\ disturbed = FALSE

(* load_model: create_method constructs the method, which loads the file.   *)
Probe(p) ==
  /\ p \in Service
  /\ Goes(p, "start", IF Readable(file) THEN "ensure" ELSE "failed")
  /\ UNCHANGED <<file, settled, tmp, lock, loaded, made, kills, disturbed>>

(* ensure_calibration_for_runner up to its unlocked look at stats_path.     *)
Ensure(p) ==
  /\ Goes(p, "ensure",
          IF file # None THEN "validate" ELSE IF AutoCalibrate THEN "acquire" ELSE "load")
  /\ UNCHANGED <<file, settled, tmp, lock, loaded, made, kills, disturbed>>

Validate(p) ==
  /\ Goes(p, "validate", IF Accepted(file, p) THEN "load" ELSE "failed")
  /\ UNCHANGED <<file, settled, tmp, lock, loaded, made, kills, disturbed>>

(* The provider is created, and its method loads the statistics.            *)
Load(p) ==
  /\ Goes(p, "load", IF Readable(file) THEN "serving" ELSE "failed")
  /\ loaded' = [loaded EXCEPT ![p] = IF Readable(file) THEN file ELSE None]
  /\ UNCHANGED <<file, settled, tmp, lock, made, kills, disturbed>>

StartCommand(p) ==
  /\ p \in Command
  /\ Goes(p, "start", "acquire")
  /\ UNCHANGED <<file, settled, tmp, lock, loaded, made, kills, disturbed>>

----------------------------------------------------------------------------
(* generate_calibration_artifact.                                           *)
Acquire(p) ==
  /\ lock = None
  /\ lock' = p
  /\ Goes(p, "acquire", "recheck")
  /\ UNCHANGED <<file, settled, tmp, loaded, made, kills, disturbed>>

RecheckNothing(p) == \* mutant: the winner of the race is overwritten
  /\ Goes(p, "recheck", "generate")
  /\ UNCHANGED <<file, settled, tmp, lock, loaded, made, kills, disturbed>>
Recheck(p) ==
  /\ Goes(p, "recheck", IF file # None /\ p \notin Forced THEN "existing" ELSE "generate")
  /\ UNCHANGED <<file, settled, tmp, lock, loaded, made, kills, disturbed>>

(* Where generate_calibration_artifact returns to.                          *)
Returned(p) == IF p \in Service THEN "validate" ELSE "done"

ValidateExisting(p) ==
  /\ Goes(p, "existing", IF Accepted(file, p) THEN Returned(p) ELSE "failed")
  /\ lock' = None
  /\ UNCHANGED <<file, settled, tmp, loaded, made, kills, disturbed>>

(* _generate_payload, and _atomic_torch_save: create a temporary file, fill *)
(* and sync it, rename it.                                                  *)
Generate(p) ==
  /\ Goes(p, "generate", "write")
  /\ made' = made + 1
  /\ tmp' = [tmp EXCEPT ![p] =
       [model |-> Serves[p], id |-> made + 1, whole |-> FALSE, synced |-> FALSE]]
  /\ UNCHANGED <<file, settled, lock, loaded, kills, disturbed>>

WriteUnsynced(p) == \* mutant: no fsync before the rename
  /\ Goes(p, "write", "publish")
  /\ tmp' = [tmp EXCEPT ![p].whole = TRUE]
  /\ UNCHANGED <<file, settled, lock, loaded, made, kills, disturbed>>
Write(p) ==
  /\ Goes(p, "write", "publish")
  /\ tmp' = [tmp EXCEPT ![p].whole = TRUE, ![p].synced = TRUE]
  /\ UNCHANGED <<file, settled, lock, loaded, made, kills, disturbed>>

Publish(p) ==
  /\ Goes(p, "publish", Returned(p))
  /\ file' = tmp[p]
  /\ tmp' = [tmp EXCEPT ![p] = None]
  /\ lock' = None
  /\ disturbed' = (disturbed \/ (p \in Forced /\ file # None))
  /\ UNCHANGED <<settled, loaded, made, kills>>

(* An exception under the lock: the temporary file is removed, and leaving  *)
(* the with block closes the lock file.                                     *)
RaiseLocked(p) == \* mutant: the lock is released on the regular path only
  /\ kills < MaxKills /\ kills' = kills + 1
  /\ pc[p] \in InLock /\ pc' = [pc EXCEPT ![p] = "failed"]
  /\ tmp' = [tmp EXCEPT ![p] = None]
  /\ UNCHANGED <<file, settled, lock, loaded, made, disturbed>>
Raise(p) ==
  /\ kills < MaxKills /\ kills' = kills + 1
  /\ pc[p] \in InLock /\ pc' = [pc EXCEPT ![p] = "failed"]
  /\ tmp' = [tmp EXCEPT ![p] = None]
  /\ lock' = None
  /\ UNCHANGED <<file, settled, loaded, made, disturbed>>

----------------------------------------------------------------------------
(* The environment.                                                         *)

(* p is killed and started again.  The kernel drops its flock; a temporary  *)
(* file stays behind under a name that nobody opens.                        *)
Kill(p) ==
  /\ kills < MaxKills /\ kills' = kills + 1
  /\ pc[p] \notin AtRest /\ pc' = [pc EXCEPT ![p] = "start"]
  /\ tmp' = [tmp EXCEPT ![p] = None]
  /\ lock' = IF lock = p THEN None ELSE lock
  /\ UNCHANGED <<file, settled, loaded, made, disturbed>>

(* The machine stops: what was not synced is torn, the last rename may be   *)
(* lost, and the processes that were not done start again.                  *)
Survivor(a) == IF a = None THEN None ELSE [a EXCEPT !.whole = @ /\ a.synced]
PowerLoss ==
  /\ kills < MaxKills /\ kills' = kills + 1
  /\ pc' = [p \in Proc |-> IF pc[p] \in {"done", "failed"} THEN pc[p] ELSE "start"]
  /\ file' \in {Survivor(file), Survivor(settled)} /\ settled' = file'
  /\ tmp' = [p \in Proc |-> None]
  /\ lock' = None
  /\ loaded' = [p \in Service |-> None]
  /\ UNCHANGED <<made, disturbed>>

Settle ==
  /\ settled # file
  /\ settled' = file
  /\ UNCHANGED <<pc, file, tmp, lock, loaded, made, kills, disturbed>>

Delete ==
  /\ MayDelete /\ file # None
  /\ file' = None /\ disturbed' = TRUE
  /\ UNCHANGED <<pc, settled, tmp, lock, loaded, made, kills>>

Run(p) ==
  \/ Probe(p) \/ Ensure(p) \/ Validate(p) \/ Load(p) \/ StartCommand(p)
  \/ Acquire(p) \/ Recheck(p) \/ ValidateExisting(p)
  \/ Generate(p) \/ Write(p) \/ Publish(p)

Next ==
  \/ \E p \in Proc : Run(p)
  \/ \E p \in Proc : Raise(p)
  \/ \E p \in Proc : Kill(p)
  \/ PowerLoss
  \/ Settle
  \/ Delete

Spec == Init /\ [][Next]_vars

(* Every process that is not stopped keeps running, and flock wakes up one  *)
(* of those that wait.  The system stops when all of them are at rest.      *)
FairSpec == Spec /\ \A p \in Proc : WF_vars(Run(p))

----------------------------------------------------------------------------
(* The types; whoever is in the locked part is the one that holds the lock, *)
(* and whoever is saving, nobody else, has a temporary file.                *)
TypeOK ==
  /\ pc \in [Proc -> Places]
  /\ file \in Artifact \cup {None} /\ settled \in Artifact \cup {None}
  /\ tmp \in [Proc -> Artifact \cup {None}]
  /\ lock \in Proc \cup {None}
  /\ loaded \in [Service -> Artifact \cup {None}]
  /\ made \in Nat /\ kills \in Nat /\ disturbed \in BOOLEAN
  /\ \A p \in Proc : pc[p] \in InLock <=> lock = p
  /\ \A p \in Proc : pc[p] \in {"write", "publish"} <=> tmp[p] # None

(* "Partial files are never exposed at stats_path": a generated artifact    *)
(* that a process can see is complete, and still is after a power loss.     *)
PublishedWhole ==
  /\ file # None /\ file.id > 0 => file.whole
  /\ Survivor(file) # None /\ Survivor(file).id > 0 => Survivor(file).whole

(* "A ... differently bound artifact fails startup": a service never runs   *)
(* with statistics of another model, unless somebody deletes or replaces    *)
(* the artifact between its validation and its load.                        *)
ServedIsBound ==
  ~disturbed => \A p \in Service :
    loaded[p] # None => loaded[p].model \in {Serves[p], Unbound}

(* All services of a deployment run with the same statistics, whoever won   *)
(* the race to generate them and whoever was killed, unless somebody        *)
(* deletes or replaces the artifact.                                        *)
SameStatistics ==
  ~disturbed => \A p, q \in Service :
    loaded[p] # None /\ loaded[q] # None => loaded[p] = loaded[q]

(* "An existing artifact is never overwritten during service startup", nor  *)
(* by a command without --force: a file that is there stays, unless it is   *)
(* deleted, forced, or rolled back by a power loss.                         *)
Kept ==
  file # None /\ file' # file =>
    \/ file' = None
    \/ \E p \in Forced : pc[p] = "publish"
    \/ kills' # kills
NeverOverwritten == [][Kept]_vars

(* Nobody waits for ever: once kills stop, every process ends up serving,   *)
(* done or failed.                                                          *)
ComesToRest == <>[](\A p \in Proc : pc[p] \in AtRest)

(* "When stats_path is missing, the Ascend worker" generates the artifact:  *)
(* with auto_calibrate a service does not fail for want of the file.        *)
MissingIsGenerated ==
  [][\A p \in Service : AutoCalibrate /\ pc[p] = "start" /\ file = None => pc'[p] # "failed"]_vars
=============================================================================
