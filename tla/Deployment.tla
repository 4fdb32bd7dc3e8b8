----------------------------- MODULE Deployment -----------------------------
(***************************************************************************)
(* A service from its first process to the verdict on it: its processes    *)
(* activate the plugin (Activation), the runner of one rank executes steps *)
(* with the list bridge (GdnLists), and a client measures it               *)
(* (Qualification).  The parts meet where one relies on another: the       *)
(* bridge's cache is cleared by the hooked execute_model, and commit and   *)
(* acknowledgement lines come from hooked schedulers and runners only.     *)
(***************************************************************************)
EXTENDS Activation, GdnLists, Qualification

CONSTANT Deployments  \* configurations: a host build, failures, and a run

(* The ranks that are asked to acknowledge are those of the service.        *)
ASSUME DeploymentAssumption == \A d \in Deployments : d.run.ranks = d.host.ranks

vars == <<host, proc, failures, gdnVars, qualVars>>

Hooked(p) == proc[p].layers["runner"] > 0
Up == proc[Engine].scheduling
Bridged == \E p \in host.ranks : proc[p].layers["gdnOp"] > 0

Init == /\ ActInit /\ GdnInit /\ QualInit
        /\ [host |-> host, run |-> run, failures |-> failures] \in Deployments

Activates == ActNext /\ UNCHANGED <<gdnVars, qualVars>>

(* The runner: dummy runs once the model is loaded, steps once it serves.   *)
Steps ==
  /\ Bridged
  /\ IF gdnStep # "idle" THEN GdnNext
     ELSE \/ (\E p \in host.ranks : proc[p].model) /\ BeginDummy
          \/ Up /\ (IF \A p \in host.ranks : Hooked(p) THEN BeginStep ELSE BeginStepUncleared)
          \/ \E a \in Address : Release(a)
  /\ UNCHANGED <<actVars, qualVars>>

(* The service logs commits if its scheduler is hooked; the ranks that are  *)
(* hooked acknowledge them.                                                 *)
Measures ==
  /\ Up
  /\ \/ \E c \in Case :
          \/ SendEarlier(c) \/ Submit(c) \/ Forgets(c)
          \/ proc[Engine].layers["scheduler"] > 0
               /\ Commit(c, {p \in host.ranks : Hooked(p)})
          \/ \E k \in run.ranks : Acknowledge(c, k)
          \/ \E o \in Ended : Return(c, o)
     \/ Start \/ Collect \/ LookAtLog \/ ReadLog
  /\ UNCHANGED <<actVars, gdnVars>>

Next == Activates \/ Steps \/ Measures
Spec == Init /\ [][Next]_vars

(* The types of the parts; no rank acknowledges a commit twice.             *)
TypeOK ==
  /\ ActTypeOK /\ GdnTypeOK
  /\ outcome \in [Case -> Outcome]
  /\ outstanding \in [Case -> SUBSET Rank]
  /\ evidence \in [commits: Nat, acks: Nat, size: Nat]
  /\ missing <= commits /\ acks <= commits * Cardinality(run.ranks)
=============================================================================
