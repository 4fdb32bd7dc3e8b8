----------------------------- MODULE Activation -----------------------------
(***************************************************************************)
(* How a process gets the plugin (plugin.py, registry.py, host_compat.py,  *)
(* the installers of stateful.py).  Each process of a service calls        *)
(* register(); it wraps what is imported already and leaves a finder for   *)
(* the Ascend runner module, whose class is wrapped when it is imported;   *)
(* the wrapped load_model and initialize_kv_cache install the rest.        *)
(*                                                                         *)
(* Every step may raise half way, because the host build lacks a seam or   *)
(* an import fails, and may be tried again in the same process: patches of *)
(* process-wide classes stay, a half imported runner module is dropped     *)
(* with its class.                                                         *)
(***************************************************************************)
EXTENDS Integers, Sequences, FiniteSets

CONSTANTS
  Proc,        \* processes of the service
  Engine,      \* the one that runs the scheduler
  Hosts,       \* host builds and configurations, records as in Host
  MaxFailures  \* bound of failures

(* Host callables that the plugin wraps.                                    *)
Seam == {"queue", "manager", "scheduler", "coordinator", "runner", "gdnBuild", "slots",
         "query", "graph", "gdnOp", "router", "output", "asyncOutput"}
(* Names that Ascend imports and a newer vLLM has dropped.                  *)
Name == {"experts", "step3p5", "dcp", "routingFlag"}

Host ==
  [ranks: SUBSET Proc,       \* the processes that run a model runner
   enabled: BOOLEAN,         \* extension_enabled()
   configured: BOOLEAN,      \* load_runtime_selection() finds a valid selection
   chunks: {"default", "set", "bad"},   \* VLLM_MQ_MAX_CHUNK_BYTES_MB
   method: {"triattention", "external"},
   entryPoints: Seq({"broken", "external"}),
   perLayer: BOOLEAN,        \* requires_per_layer_physical_state
   observes: BOOLEAN,        \* query_window_tokens > 0
   graphMode: {"NONE", "FULL_AND_PIECEWISE", "PIECEWISE"},
   layerAware: BOOLEAN,      \* the seams of layer-aware graph replay
   aligned: BOOLEAN,         \* mamba_cache_mode = "align" in a hybrid model
   compat: BOOLEAN,          \* qwen_gdn_list_compat_enabled()
   gdnOp: {"missing", "tensor", "list", "other"},   \* its schema
   names: SUBSET (Name \cup {"half"}),  \* "half": one of the two experts names
   dcpHelper: BOOLEAN,       \* prepare_dcp_local_seq_lens
   routedOutput: BOOLEAN,    \* aux_output_config.enable_return_routed_experts
   accepts: SUBSET {"output", "asyncOutput"},  \* constructors with routed_experts
   scaling: {"core", "router", "none"}, \* which classifier takes routed_scaling_factor
   fits: {"yes", "launch", "layout", "slots", "scheduler"}]
     \* what is not supported, if anything: the configuration, the layout of the KV
     \* cache, the block tables of the runner, the scheduler

ASSUME ActivationAssumption ==
  /\ Engine \in Proc /\ MaxFailures \in Nat
  /\ Hosts \subseteq Host

VARIABLES
  host,     \* the build and configuration, the same for all processes
  proc,     \* per process: what is installed and how far it is
  failures  \* imports that may still fail for reasons of their own

actVars == <<host, proc, failures>>

ProcState ==
  [layers: [Seam -> 0..2],   \* wrappers of the plugin around each seam
   marked: SUBSET Seam,      \* seams whose marker is set
   names: SUBSET (Name \cup {"half"}),
   finder: BOOLEAN,          \* _runner_patch_finder is on sys.meta_path
   imported: BOOLEAN,        \* the runner module is in sys.modules
   loadedOnce: BOOLEAN,      \* _ENTRY_POINTS_LOADED
   factories: SUBSET {"triattention", "external"},
   registered: BOOLEAN,      \* register() has returned
   model: BOOLEAN,           \* load_model has returned
   provider: {"none", "set", "bound"},  \* the runner's provider
   serving: BOOLEAN,         \* initialize_kv_cache has returned
   scheduling: BOOLEAN,      \* Scheduler.__init__ has returned
   raised: BOOLEAN]          \* the current call raises

----------------------------------------------------------------------------
(* Sequential code: what follows a raise is not executed.                   *)
Then(s, t) == IF s.raised THEN s ELSE t
Raise(s) == [s EXCEPT !.raised = TRUE]
RaiseIf(c, s) == IF c THEN Raise(s) ELSE s
Add(s, n) == [s EXCEPT !.names = @ \cup {n}]

(* The common form of a patch: a marker makes the second call a no-op.      *)
Wrap(s, x) ==
  IF x \in s.marked THEN s
  ELSE [s EXCEPT !.marked = @ \cup {x},
                 !.layers[x] = IF @ < 2 THEN @ + 1 ELSE @]

(* host_compat.py: names and constructor fields the newer vLLM has dropped. *)
RoutedExpertsTypes(s) ==
  IF "experts" \in s.names THEN s ELSE IF "half" \in s.names THEN Raise(s)
  ELSE Add(s, "experts")
Step3p5Alias(s) == Add(s, "step3p5")
DcpLengthAlias(s) ==
  IF "dcp" \in s.names THEN s ELSE IF host.dcpHelper THEN Add(s, "dcp") ELSE Raise(s)
OutputRoutingField(s) == IF "output" \in host.accepts THEN s ELSE Wrap(s, "output")
AsyncOutputRoutingField(s) ==
  IF "asyncOutput" \in host.accepts THEN s ELSE Wrap(s, "asyncOutput")
ModelRoutingFlag(s) ==
  IF "routingFlag" \in s.names THEN s
  ELSE IF host.routedOutput THEN Raise(s) ELSE Add(s, "routingFlag")
GroupedTopkRouter(s) == IF host.scaling = "none" THEN Wrap(s, "router") ELSE s

LayerAwareReplay(s) ==
  IF host.graphMode = "NONE" THEN s
  ELSE IF host.graphMode # "FULL_AND_PIECEWISE" THEN Raise(s)
  ELSE IF "graph" \in s.marked THEN s
  ELSE IF host.layerAware THEN Wrap(s, "graph") ELSE Raise(s)

GdnListCompat(s) ==
  IF ~host.compat THEN s
  ELSE IF host.gdnOp = "missing" THEN Raise(s)
  ELSE IF "gdnOp" \in s.marked \/ host.gdnOp = "tensor" THEN s
  ELSE IF host.gdnOp = "list" THEN Wrap(s, "gdnOp") ELSE Raise(s)

(* plugin.py: the hooks around the runner class.  Everything that can raise *)
(* is in front of the first assignment to the class, the marker is last.    *)
GdnMetadataHook(s) == Wrap(s, "gdnBuild")
RunnerShims(s) ==
  LET a == Step3p5Alias(s)
      b == DcpLengthAlias(a)
      c == Then(b, OutputRoutingField(b))
      d == Then(c, AsyncOutputRoutingField(c))
  IN  Then(d, GdnMetadataHook(d))
RunnerHooksMarkedFirst(s) == \* mutant
  IF "runner" \in s.marked THEN s
  ELSE LET t == RunnerShims([s EXCEPT !.marked = @ \cup {"runner"}])
       IN  Then(t, [t EXCEPT !.layers["runner"] = 1])
RunnerHooks(s) ==
  IF "runner" \in s.marked THEN s
  ELSE LET t == RunnerShims(s) IN Then(t, Wrap(t, "runner"))

LazyRunnerHook(s) ==
  IF s.imported THEN RunnerHooks(s) ELSE [s EXCEPT !.finder = TRUE]

TritonRuntime(s, torn) == RaiseIf(torn = "triton", s)

MessageQueueDefaults(s) ==
  CASE host.chunks = "default" -> s
    [] host.chunks = "bad" -> Raise(s)
    [] host.chunks = "set" -> Wrap(s, "queue")

(* stateful.py: the manager class first, then the scheduler class.          *)
StatefulHooks(s) == Wrap(Wrap(s, "manager"), "scheduler")
SchedulerHost(s) == RaiseIf(host.fits = "scheduler", s)
CoordinatorHooks(s) == IF host.aligned THEN Wrap(s, "coordinator") ELSE s

(* plugin.py: around the attention of a method with a query window, and     *)
(* around the block tables that the runner has allocated.                   *)
QueryHook(s) == IF host.observes THEN Wrap(s, "query") ELSE s
SlotHooks(s) == IF host.fits = "slots" THEN Raise(s) ELSE Wrap(s, "slots")

(* registry.py: the entry points are marked loaded before they are loaded,  *)
(* so what stands behind one that fails is never registered.                *)
MethodEntryPoints(s) ==
  IF s.loadedOnce THEN s
  ELSE LET E == host.entryPoints
           good == {i \in DOMAIN E : \A j \in 1..i : E[j] # "broken"}
       IN  [s EXCEPT !.loadedOnce = TRUE,
                     !.factories = @ \cup {E[i] : i \in good},
                     !.raised = good # DOMAIN E]
CreateMethod(s) ==
  LET t == MethodEntryPoints(s)
  IN  Then(t, IF host.method \in t.factories THEN t ELSE Raise(t))

----------------------------------------------------------------------------
ActInit ==
  /\ host \in Hosts
  /\ proc = [p \in Proc |->
       [layers |-> [x \in Seam |-> 0], marked |-> {}, names |-> host.names,
        finder |-> FALSE, imported |-> FALSE, loadedOnce |-> FALSE,
        factories |-> {"triattention"}, registered |-> FALSE, model |-> FALSE,
        provider |-> "none", serving |-> FALSE, scheduling |-> FALSE, raised |-> FALSE]]
  /\ failures \in 0..MaxFailures

(* A call ends with state t: an exception reaches the host, which may try   *)
(* the call again.                                                          *)
Ends(p, t) == proc' = [proc EXCEPT ![p] = [t EXCEPT !.raised = FALSE]]
(* An import, the calibration or the wrapped callable itself fails.         *)
Fails(torn) ==
  /\ torn => failures > 0
  /\ failures' = IF torn THEN failures - 1 ELSE failures

(* register().  vLLM calls it before it makes the runner; it may be called  *)
(* again at any time.  torn: an import in it fails, after the named part.   *)
Registered(s, torn) ==
  IF ~host.enabled THEN [s EXCEPT !.registered = TRUE]
  ELSE IF ~host.configured THEN Raise(s)
  ELSE LET r == TritonRuntime(s, torn)
           a == Then(r, MessageQueueDefaults(r))
           b == Then(a, IF torn = "core" THEN Raise(a) ELSE LazyRunnerHook(a))
           c == Then(b, IF torn = "stateful" THEN Raise(b) ELSE StatefulHooks(b))
       IN  Then(c, [c EXCEPT !.registered = TRUE])
Register(p, torn) ==
  /\ p \in {Engine} \cup host.ranks
  /\ proc[p].registered \/ ~proc[p].model
  /\ Fails(torn # "none") /\ Ends(p, Registered(proc[p], torn))
  /\ UNCHANGED host

(* The host imports the runner module.  A loader that raises takes the      *)
(* module and its class with it.                                            *)
Imported(s, torn) ==
  LET a == IF s.finder THEN RoutedExpertsTypes(s) ELSE s
      b == Then(a, RaiseIf(torn, a))
      c == Then(b, IF s.finder THEN RunnerHooks(b) ELSE b)
  IN  IF c.raised THEN [c EXCEPT !.marked = @ \ {"runner"}, !.layers["runner"] = 0]
      ELSE [c EXCEPT !.imported = TRUE]
ImportRunner(p, torn) ==
  /\ p \in host.ranks /\ ~proc[p].imported
  /\ Fails(torn) /\ Ends(p, Imported(proc[p], torn))
  /\ UNCHANGED host

(* load_model: the method is probed, what it needs is installed, then the   *)
(* calibration (module Calibration) and the original, which torn stands for.*)
Loaded(s, torn) ==
  LET a == CreateMethod(s)
      b == Then(a, IF host.perLayer THEN LayerAwareReplay(a) ELSE a)
      c == Then(b, QueryHook(b))
      d == Then(c, GdnListCompat(c))
      e == Then(d, GroupedTopkRouter(d))
      f == IF s.layers["runner"] > 0 THEN e ELSE s
      g == Then(f, RaiseIf(torn, f))
  IN  Then(g, [g EXCEPT !.model = TRUE])
LoadModel(p, torn) ==
  /\ p \in host.ranks /\ proc[p].registered
  /\ proc[p].imported /\ ~proc[p].model
  /\ Fails(torn) /\ Ends(p, Loaded(proc[p], torn))
  /\ UNCHANGED host

(* provider.py: the configuration is validated before the runner gets a      *)
(* provider, the layout of its cache when the host has allocated it.        *)
Validated(s) == RaiseIf(host.fits = "launch" \/ host.routedOutput, s)
LayerHost(s) ==
  IF ~host.perLayer \/ host.graphMode = "NONE" \/ "graph" \in s.marked THEN s ELSE Raise(s)
Bound(s) ==
  LET a == Validated(s)
      b == Then(a, IF host.fits = "layout" THEN Raise(a) ELSE LayerHost(a))
  IN  Then(b, [b EXCEPT !.provider = "bound"])

(* initialize_kv_cache.  The bridge for the duplicate MTP layer is undone   *)
(* when the original, which torn stands for, returns or raises.             *)
Initialized(s, torn) ==
  IF s.layers["runner"] = 0
  THEN LET o == RaiseIf(torn, s) IN Then(o, [o EXCEPT !.serving = TRUE])
  ELSE LET a == Then(CreateMethod(s), Validated(CreateMethod(s)))
           b == Then(a, ModelRoutingFlag([a EXCEPT !.provider = "set"]))
           o == Then(b, RaiseIf(torn, b))
           c == Then(o, Bound(o))
           d == Then(c, SlotHooks(c))
       IN  Then(d, [d EXCEPT !.serving = TRUE])
InitializeKVCache(p, torn) ==
  /\ p \in host.ranks /\ proc[p].model /\ ~proc[p].serving
  /\ Fails(torn) /\ Ends(p, Initialized(proc[p], torn))
  /\ UNCHANGED host

(* Scheduler.__init__ with the state of stateful.py, after the caches of    *)
(* all runners.                                                             *)
SchedulerBuilt(s) ==
  IF s.layers["scheduler"] = 0 THEN [s EXCEPT !.scheduling = TRUE]
  ELSE LET a == IF host.method = "triattention" THEN s ELSE CreateMethod(s)
           b == Then(a, SchedulerHost(a))
           c == Then(b, CoordinatorHooks(b))
       IN  Then(c, [c EXCEPT !.scheduling = TRUE])
BuildScheduler ==
  /\ proc[Engine].registered /\ ~proc[Engine].scheduling
  /\ \A r \in host.ranks : proc[r].serving
  /\ Ends(Engine, SchedulerBuilt(proc[Engine]))
  /\ UNCHANGED <<host, failures>>

ActNext ==
  \/ \E p \in Proc, torn \in {"none", "triton", "core", "stateful"} : Register(p, torn)
  \/ \E p \in host.ranks, torn \in BOOLEAN :
       ImportRunner(p, torn) \/ LoadModel(p, torn) \/ InitializeKVCache(p, torn)
  \/ BuildScheduler

ActSpec == ActInit /\ [][ActNext]_actVars

----------------------------------------------------------------------------
(* The types of the activation; no call of a process is left half way.      *)
ActTypeOK ==
  /\ host \in Hosts
  /\ proc \in [Proc -> ProcState]
  /\ \A p \in Proc : ~proc[p].raised
  /\ failures \in 0..MaxFailures

(* What a runner must have when it serves.                                  *)
Needed ==
  {"runner", "gdnBuild", "slots", "manager", "scheduler"}
    \cup (IF host.chunks = "set" THEN {"queue"} ELSE {})
    \cup (IF host.perLayer /\ host.graphMode # "NONE" THEN {"graph"} ELSE {})
    \cup (IF host.observes THEN {"query"} ELSE {})
    \cup (IF host.compat /\ host.gdnOp = "list" THEN {"gdnOp"} ELSE {})
    \cup (IF host.scaling = "none" THEN {"router"} ELSE {})
    \cup ({"output", "asyncOutput"} \ host.accepts)

(* Whatever failed and was tried again on the way, in whichever order       *)
(* registration and import came: a process that serves has a bound provider *)
(* and every hook its configuration needs exactly once; no rank serves on a *)
(* build with anything unsupported but the scheduler, which is then refused *)
(* itself; no callable is ever wrapped twice, and nothing is touched that   *)
(* the host has itself or that is not enabled.                              *)
ServingIsHooked ==
  /\ \A p \in Proc : \A x \in Seam :
       proc[p].layers[x] <= IF host.enabled /\ (x \in Needed \cup {"coordinator"})
                            THEN 1 ELSE 0
  /\ host.enabled =>
       /\ \A p \in host.ranks : proc[p].serving =>
            /\ host.fits \in {"yes", "scheduler"} /\ ~host.routedOutput
            /\ proc[p].provider = "bound"
            /\ \A x \in Needed : proc[p].layers[x] = 1
            /\ {"step3p5", "dcp", "routingFlag"} \subseteq proc[p].names
       /\ proc[Engine].scheduling =>
            /\ host.fits # "scheduler"
            /\ proc[Engine].layers["scheduler"] = 1 /\ proc[Engine].layers["manager"] = 1
            /\ host.aligned => proc[Engine].layers["coordinator"] = 1
=============================================================================
