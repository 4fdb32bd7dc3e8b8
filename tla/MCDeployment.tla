---------------------------- MODULE MCDeployment ----------------------------
EXTENDS Deployment, TLC
CONSTANTS engine, w1, w2, c1, c2, c3, c4, a1, a2, b1, b2, b3

(* An aligned host with the plugin on one rank.                             *)
Aligned ==
  [ranks |-> {engine}, enabled |-> TRUE, configured |-> TRUE, chunks |-> "default",
   method |-> "triattention", entryPoints |-> <<>>,
   perLayer |-> FALSE, observes |-> FALSE, graphMode |-> "NONE", layerAware |-> FALSE,
   aligned |-> FALSE, compat |-> FALSE, gdnOp |-> "tensor",
   names |-> {"experts", "step3p5", "dcp", "routingFlag"}, dcpHelper |-> TRUE,
   routedOutput |-> FALSE, accepts |-> {"output", "asyncOutput"}, scaling |-> "core", fits |-> "yes"]
(* A newer vLLM under an older binary, and a method that needs everything.  *)
Newer ==
  [Aligned EXCEPT !.chunks = "set", !.method = "external", !.entryPoints = <<"external">>,
     !.perLayer = TRUE, !.observes = TRUE, !.graphMode = "FULL_AND_PIECEWISE",
     !.layerAware = TRUE, !.aligned = TRUE, !.compat = TRUE, !.gdnOp = "list",
     !.names = {}, !.accepts = {}, !.scaling = "none"]
(* Builds and configurations that must not serve, or not with the plugin.   *)
Rejected ==
  {[Newer EXCEPT !.compat = FALSE, !.names = {"half"}],
   [Newer EXCEPT !.compat = FALSE, !.dcpHelper = FALSE],
   [Newer EXCEPT !.compat = FALSE, !.routedOutput = TRUE],
   [Newer EXCEPT !.compat = FALSE, !.graphMode = "PIECEWISE"],
   [Newer EXCEPT !.compat = FALSE, !.layerAware = FALSE],
   [Newer EXCEPT !.compat = FALSE, !.entryPoints = <<"broken", "external">>],
   [Newer EXCEPT !.compat = FALSE, !.fits = "launch"],
   [Newer EXCEPT !.compat = FALSE, !.fits = "layout"],
   [Newer EXCEPT !.compat = FALSE, !.fits = "slots"],
   [Newer EXCEPT !.compat = FALSE, !.fits = "scheduler"],
   [Newer EXCEPT !.gdnOp = "other"], [Newer EXCEPT !.gdnOp = "missing"],
   [Aligned EXCEPT !.configured = FALSE], [Aligned EXCEPT !.chunks = "bad"]}
Others ==
  {[Newer EXCEPT !.ranks = {w1, w2}, !.compat = FALSE],
   [Newer EXCEPT !.compat = FALSE, !.gdnOp = "list"],
   [Newer EXCEPT !.gdnOp = "tensor"],
   [Aligned EXCEPT !.entryPoints = <<"broken">>],
   [Newer EXCEPT !.enabled = FALSE, !.compat = FALSE]}

NoCases == [cases |-> {}, earlier |-> {}, compressible |-> {c1, c2, c3, c4}, script |-> "long",
            label |-> "B1", loop |-> "open", concurrency |-> 2, log |-> "file",
            expectation |-> "auto", ranks |-> {engine}, acksPerCommit |-> 1]
Calls(ranks) ==  \* a benchmark run without the plugin ignores the expectation
  {r \in {[NoCases EXCEPT !.cases = {c1, c2}, !.script = s,
        !.label = l, !.expectation = x, !.ranks = ranks, !.acksPerCommit = Cardinality(ranks)] :
    s \in {"long", "benchmark"}, l \in {"B0", "B1"},
    x \in {"required", "optional", "forbidden"}} :
     r.script = "benchmark" /\ r.label = "B0" => r.expectation = "optional"}
(* One request, without a log or with the path of a log that is not there.  *)
Unlogged(ranks) == {[r EXCEPT !.cases = {c3}, !.log = l] : r \in Calls(ranks), l \in {"none", "absent"}}
(* One request of the plugin after another that the log has lines of.       *)
Later(ranks, expectations) ==
  {[r EXCEPT !.cases = {c3}, !.earlier = {c4}] :
     r \in {q \in Calls(ranks) : q.label = "B1" /\ <<q.script, q.expectation>> \in expectations}}
(* A closed loop, one request after the other; it refuses two at a time.    *)
Closed == {[r EXCEPT !.loop = "closed", !.concurrency = n] :
             r \in {q \in Calls({engine}) : q.script = "long" /\ q.label = "B1"}, n \in {1, 2}}
Ones == Calls({engine}) \cup Unlogged({engine}) \cup Closed
          \cup Later({engine}, {"long"} \X {"required", "optional", "forbidden"}
                                \cup {<<"benchmark", "required">>})
Twos == Calls({w1, w2}) \cup Unlogged({w1, w2}) \cup Later({w1, w2}, {<<"long", "optional">>})
Configurations ==
  {[host |-> h, run |-> [NoCases EXCEPT !.ranks = h.ranks], failures |-> 1] :
     h \in {Aligned, Newer} \cup Rejected \cup Others}
  \cup {[host |-> Aligned, run |-> r, failures |-> 0] : r \in Ones}
  \cup {[host |-> [Aligned EXCEPT !.ranks = {w1, w2}], run |-> r, failures |-> 0] : r \in Twos}
Builds == {c.host : c \in Configurations}
Scripts == {c.run : c \in Configurations}
Alike == Permutations({w1, w2}) \cup Permutations({c1, c2})
           \cup Permutations({a1, a2}) \cup Permutations({b2, b3})
=============================================================================
