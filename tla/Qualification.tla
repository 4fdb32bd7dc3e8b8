--------------------------- MODULE Qualification ---------------------------
(***************************************************************************)
(* How a service is judged (scripts/kvcompress_long_context_run.py,        *)
(* kvcompress_benchmark_run.py, and the gates of                           *)
(* kvcompress_acceptance_compare.py and kvcompress_benchmark_score.py).  A *)
(* client notes how long the server log is, sends its requests, collects   *)
(* what each of them returned, counts the commit and acknowledgement lines *)
(* that the log has gained, and decides whether the run passed.  The log   *)
(* is optional: without one it has no lines to count, and judges that.     *)
(*                                                                         *)
(* A commit is logged by the scheduler; every rank logs an acknowledgement *)
(* when the request is next scheduled, unless it was preempted or aborted  *)
(* before that.  Any stream may break, with or without an exception.       *)
(***************************************************************************)
EXTENDS Integers, FiniteSets

CONSTANTS
  Case,         \* requests
  Rank,         \* worker processes
  Runs,         \* how the scripts are called, records as in Run
  MaxCommits    \* bound: commits in the server log

Run ==
  [cases: SUBSET Case,            \* what this run may send
   earlier: SUBSET Case,          \* what others have sent before it
   compressible: SUBSET Case,     \* those that reach the threshold
   script: {"long", "benchmark"},
   label: {"B0", "B1"},
   loop: {"open", "closed"},      \* closed: --duration-s, long runs only
   concurrency: Nat \ {0},
   log: {"none", "file", "absent"}, \* --server-log; "absent": of no such file
   expectation: {"auto", "required", "optional", "forbidden"},
   ranks: SUBSET Rank,            \* tensor-parallel ranks of the service
   acksPerCommit: Nat \ {0}]     \* --worker-acks-per-commit of the comparison

ASSUME QualificationAssumption ==
  /\ MaxCommits \in Nat /\ IsFiniteSet(Case) /\ IsFiniteSet(Rank)
  /\ Runs \subseteq Run
  /\ \A r \in Runs :
       /\ r.cases \cap r.earlier = {}
       /\ r.script = "benchmark" => r.expectation # "auto" /\ r.loop = "open"

VARIABLES
  run,          \* the command lines
  outcome,      \* per request: where its thread is, or what it has returned
  outstanding,  \* per request: ranks that have not acknowledged its last commit
  commits,      \* commit lines in the server log
  acks,         \* acknowledgement lines
  missing,      \* history: commits that some rank never acknowledged
  client,       \* what main() is doing
  offset,       \* the log when main() looked at its size first, and whether
                \* nothing of the earlier requests was under way (history)
  evidence      \* the counts it has read, and the log when it looked at its size

qualVars == <<run, outcome, outstanding, commits, acks, missing, client, offset, evidence>>

(* "served": the whole answer to the whole prompt.  "wrong", "short": an    *)
(* answer without the expected text, or not of the forced length.           *)
(* "truncated": the prompt or the stream was cut without an exception, so   *)
(* that the reported prompt length differs or is missing.  "failed":        *)
(* an exception run_case catches.  "crashed": one it does not, for example  *)
(* IncompleteRead.                                                          *)
Ended == {"served", "wrong", "short", "truncated", "failed", "crashed"}
Outcome == {"waiting", "sent"} \cup Ended
In(s) == {c \in run.cases : outcome[c] \in s}
Completed == In({"served", "wrong", "short", "truncated"}) \* error is None
Results == run.cases \ In({"waiting"})
Quiet(c) == outcome[c] \in {"waiting", "served", "wrong", "short"}
NoEvidence == [commits |-> 0, acks |-> 0, size |-> 0]

----------------------------------------------------------------------------
QualInit ==
  /\ run \in Runs
  /\ outcome = [c \in Case |-> "waiting"]
  /\ outstanding = [c \in Case |-> {}]
  /\ commits = 0 /\ acks = 0 /\ missing = 0
  /\ client = "starting" /\ evidence = NoEvidence
  /\ offset = [commits |-> 0, acks |-> 0, missing |-> 0, quiet |-> TRUE]

Send(c) ==
  /\ outcome[c] = "waiting" /\ outcome' = [outcome EXCEPT ![c] = "sent"]
  /\ UNCHANGED <<run, outstanding, commits, acks, missing, client, offset, evidence>>
(* The log may hold the lines of earlier runs against the same service.     *)
SendEarlier(c) == client = "starting" /\ c \in run.earlier /\ Send(c)
(* main() loads the cases and looks at the size of the log; a closed loop   *)
(* raises unless it is asked for one request at a time.                     *)
Start ==
  /\ client = "starting"
  /\ client' = IF run.cases = {} \/ (run.loop = "closed" /\ run.concurrency # 1)
               THEN "died" ELSE "running"
  /\ offset' = [commits |-> commits, acks |-> acks, missing |-> missing,
                quiet |-> \A c \in run.earlier : Quiet(c)]
  /\ UNCHANGED <<run, outcome, outstanding, commits, acks, missing, evidence>>
(* run_open_loop submits all cases to a pool of threads, _run_closed_loop   *)
(* one after the other, until one raises.                                   *)
Submit(c) ==
  /\ client = "running" /\ c \in run.cases
  /\ Cardinality(In({"sent"})) < run.concurrency
  /\ run.loop = "closed" => In({"crashed"}) = {}
  /\ Send(c)

(* The service: it logs a commit of c, also behind a stream that broke,     *)
(* which the ranks in acking will acknowledge; a rank acknowledges; a       *)
(* preemption or reset drops a commit that no step has carried to the ranks *)
(* yet.                                                                     *)
Commit(c, acking) ==
  /\ ~Quiet(c) /\ c \in run.compressible
  /\ outstanding[c] = {} /\ commits < MaxCommits
  /\ commits' = commits + 1
  /\ outstanding' = [outstanding EXCEPT ![c] = acking]
  /\ missing' = IF acking = run.ranks THEN missing ELSE missing + 1
  /\ UNCHANGED <<run, outcome, acks, client, offset, evidence>>
AcknowledgeAgain(c, k) == \* mutant: a rank keeps the update it has applied
  /\ k \in outstanding[c]
  /\ acks' = acks + 1
  /\ UNCHANGED <<run, outcome, outstanding, commits, missing, client, offset, evidence>>
Acknowledge(c, k) ==
  /\ k \in outstanding[c]
  /\ acks' = acks + 1
  /\ outstanding' = [outstanding EXCEPT ![c] = @ \ {k}]
  /\ UNCHANGED <<run, outcome, commits, missing, client, offset, evidence>>
Forgets(c) ==
  /\ outstanding[c] # {} /\ outstanding[c] = run.ranks
  /\ outstanding' = [outstanding EXCEPT ![c] = {}]
  /\ missing' = missing + 1
  /\ UNCHANGED <<run, outcome, commits, acks, client, offset, evidence>>

(* A whole answer is behind a step of the request that carried the commit;  *)
(* a broken stream may leave acknowledgements on their way.                 *)
Return(c, o) ==
  /\ outcome[c] = "sent" /\ o \in Ended
  /\ o \in {"served", "wrong", "short"} => outstanding[c] = {}
  /\ outcome' = [outcome EXCEPT ![c] = o]
  /\ UNCHANGED <<run, outstanding, commits, acks, missing, client, offset, evidence>>

(* All threads have ended: future.result() raises what a thread raised, and *)
(* no result is written.  A closed loop stops after one of the requests.    *)
Collect ==
  /\ client = "running" /\ In({"sent"}) = {}
  /\ IF run.loop = "closed" THEN Results # {} ELSE Results = run.cases
  /\ client' = IF In({"crashed"}) = {} THEN "measured" ELSE "died"
  /\ UNCHANGED <<run, outcome, outstanding, commits, acks, missing, offset, evidence>>
(* compression_evidence: without a log nothing is counted; else the size of *)
(* the log (stat raises if there is none), then what is in it from the      *)
(* offset up to its end.                                                    *)
LookAtLog ==
  /\ client = "measured"
  /\ \/ run.log = "none" /\ client' = "written" /\ evidence' = NoEvidence
     \/ run.log = "absent" /\ client' = "died" /\ UNCHANGED evidence
     \/ /\ run.log = "file" /\ client' = "reading"
        /\ evidence' = [evidence EXCEPT !.size = commits + acks]
  /\ UNCHANGED <<run, outcome, outstanding, commits, acks, missing, offset>>
ReadLog ==
  /\ client = "reading" /\ client' = "written"
  /\ evidence' = [evidence EXCEPT !.commits = commits - offset.commits,
                                  !.acks = acks - offset.acks]
  /\ UNCHANGED <<run, outcome, outstanding, commits, acks, missing, offset>>

QualNext ==
  \/ \E c \in Case :
       \/ SendEarlier(c) \/ Submit(c) \/ Forgets(c)
       \/ Commit(c, run.ranks)
       \/ \E k \in run.ranks : Acknowledge(c, k)
       \/ \E o \in Ended : Return(c, o)
  \/ Start \/ Collect \/ LookAtLog \/ ReadLog

QualSpec == QualInit /\ [][QualNext]_qualVars

----------------------------------------------------------------------------
(* The gates.                                                               *)
Clean == /\ In({"failed"}) = {} /\ In({"truncated"}) = {}
         /\ Completed = Results

(* _compression_evidence_passes of the long-context run.                    *)
Expected == IF run.expectation = "auto"
            THEN IF run.label = "B1" THEN "required" ELSE "optional"
            ELSE run.expectation
EvidencePasses ==
  CASE Expected = "required" -> evidence.commits > 0 /\ evidence.acks >= evidence.commits
    [] Expected = "forbidden" -> evidence.commits = 0 /\ evidence.acks = 0
    [] Expected = "optional" -> evidence.acks >= evidence.commits
LongRunPasses ==
  Clean /\ In({"wrong"}) = {} /\ In({"short"}) = {} /\ EvidencePasses

(* The benchmark run, where B0 ignores the evidence.                        *)
ExpectationMet ==
  \/ run.expectation = "optional"
  \/ run.expectation = "required" /\ evidence.commits > 0
  \/ run.expectation = "forbidden" /\ evidence.commits = 0 /\ evidence.acks = 0
AcksCover == evidence.acks >= evidence.commits
BenchmarkPasses == Clean /\ (run.label = "B1" => ExpectationMet /\ AcksCover)

Passed == IF run.script = "long" THEN LongRunPasses ELSE BenchmarkPasses

(* What the comparison demands of the result of one plugin lifecycle, a     *)
(* long run, and the score of the result of a benchmark run; both demand    *)
(* more, of the quality and of other results.                               *)
CommitAckCountsAtLeast == evidence.acks >= evidence.commits \* mutant
CommitAckCountsMatch == evidence.acks = evidence.commits * run.acksPerCommit
Comparable ==
  run.script = "long" /\ run.label = "B1" /\ Clean /\ CommitAckCountsMatch
Scored == run.script = "benchmark" /\ Clean /\ ExpectationMet /\ AcksCover

(* What the run has added to the log; whether the evidence is about that;   *)
(* whether the evidence bears on the exit status.                           *)
OwnCommits == commits - offset.commits
OwnAcks == acks - offset.acks
OwnMissing == missing - offset.missing
Counted == run.log = "file" /\ offset.quiet
Watched == Passed /\ (run.label = "B1" \/ run.script = "long")
Demands(e) == IF run.script = "long" THEN Expected = e ELSE run.expectation = e

(* A result that is judged good was good.  Every request of it was answered *)
(* whole.  If there is a log, and the service was quiet when the run began, *)
(* the evidence has counted all that the run added to the log and nothing   *)
(* else: with one rank no commit is unacknowledged in a run of the plugin   *)
(* that passes, with any number of ranks none in a result the comparison    *)
(* accepts, and none was made where commits are forbidden.  A run that      *)
(* requires commits does not pass without a log; every other may, whatever  *)
(* was committed.                                                           *)
VerdictIsEarned ==
  client = "written" =>
    /\ Passed \/ Comparable \/ Scored =>
         /\ In({"served", "wrong", "short"}) = Results
         /\ Counted => evidence = [commits |-> OwnCommits, acks |-> OwnAcks,
                                   size |-> commits + acks]
    /\ Passed /\ run.script = "long" => In({"served"}) = Results
    /\ Watched /\ Counted /\ Cardinality(run.ranks) = 1 =>
         OwnMissing = 0 /\ evidence.acks = OwnCommits
    /\ Comparable /\ Counted /\ run.acksPerCommit = Cardinality(run.ranks) =>
         OwnMissing = 0 /\ evidence.acks = OwnCommits * Cardinality(run.ranks)
    /\ Watched /\ Counted /\ Demands("forbidden") => OwnCommits = 0
    /\ Watched /\ Demands("required") =>
         run.log = "file" /\ (offset.quiet => OwnCommits > 0)
=============================================================================
