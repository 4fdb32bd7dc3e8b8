----------------------------- MODULE RunnerStep -----------------------------
(***************************************************************************)
(* One model runner's step, as the plugin wraps it: execute_model (begin   *)
(* the layer and query checks, _update_states, inputs, attention metadata, *)
(* forward pass, finish the checks) and sample_tokens (compress).  The     *)
(* module is about what the provider keeps per batch row and per layer:    *)
(* offsets, lengths, write slots, and the observed prefill queries.  Block *)
(* tables and KV memory are in KVCompression.                              *)
(*                                                                         *)
(* The scheduler is left open: any live request may be scheduled with any  *)
(* chunk, reset, or given a plan when one is due.  The host's event keeps  *)
(* the CPU from rewriting the offsets while they are copied to the device, *)
(* so both copies of them are one variable, and so are the two copies of   *)
(* the sequence lengths, which the same statements update.                 *)
(***************************************************************************)
EXTENDS Integers, Sequences, FiniteSets, SequencesExt

CONSTANTS
  Req, Layer, None,
  Prompt,        \* num_prompt_tokens of each request
  Limit,         \* bound: known tokens of each request
  MaxChunk,      \* bound: tokens of a request in a step
  MaxHit,        \* bound: tokens of a prefix hit
  MaxResets,     \* bound: preemptions and finishes of a request
  Threshold,     \* compression_threshold_tokens
  Budget,        \* max_physical_num_tokens
  Recompute,     \* required_recompute_tokens
  Window,        \* query_window_tokens
  LayerLengths,  \* what the method may return as per-layer lengths, or None
  Declared,      \* requires_per_layer_physical_state
  MayBypass      \* the host may bypass a metadata or an attention hook

ASSUME LimitsAssumption ==
  /\ {Threshold, Budget} \subseteq Nat \ {0} /\ Budget < Threshold
  /\ {Recompute, Window, MaxChunk, MaxHit, MaxResets} \subseteq Nat /\ Window <= Recompute
  /\ {Prompt, Limit} \subseteq [Req -> Nat \ {0}] /\ \A r \in Req : Prompt[r] < Limit[r]
  /\ {Declared, MayBypass} \subseteq BOOLEAN
ASSUME RequestAssumption == IsFiniteSet(Req)
ASSUME LengthsAssumption ==
  \A len \in LayerLengths : len = None \/ len \in [Layer -> 1..Budget]

VARIABLES
  stage,      \* where the step is
  step,       \* tokens, finished and preempted requests of the scheduler output
  bypassed,   \* the host bypassed a hook in this step
  known,      \* tokens of each request: prompt and sampled ones
  computed,   \* num_computed_tokens in runner.requests, None if not there
  prefill,    \* number of each request's current prefill
  rows,       \* input_batch.req_ids
  lens,       \* seq_lens of the rows
  meta,       \* the attention metadata of the step
  pending, active,
  offsets, snapshot, hasActive, hasLayers,  \* _sync_request_offset_rows
  saved, applied,                           \* semantic lengths, lengths applied
  required, seen,                           \* per-layer metadata checks
  tracked, captured, complete,              \* query observation checks
  observed    \* the method's buffers: rows of each request and layer

hostVars == <<step, bypassed, known, computed, prefill, rows>>
rowVars == <<pending, active, offsets, snapshot, hasActive, hasLayers>>
lengthVars == <<lens, meta, saved, applied>>
layerVars == <<required, seen>>
queryVars == <<tracked, captured, complete, observed>>
vars == <<stage, hostVars, rowVars, lengthVars, layerVars, queryVars>>

Live == {r \in Req : computed[r] # None}
Scheduled == {r \in Req : step.tokens[r] > 0}

(* PendingCompression and ActiveCompression; removed_tokens, also per layer.*)
Compression == [semantic: Nat, physical: Nat, layers: LayerLengths \cup {None}]
ASSUME NoneAssumption == None \notin Nat \cup Compression
Removed(a) == IF a = None THEN 0 ELSE a.semantic - a.physical
RemovedAt(a, l) ==
  IF a = None \/ a.layers = None THEN Removed(a) ELSE a.semantic - a.layers[l]

NoStep == [tokens |-> [r \in Req |-> 0], finished |-> {}, preempted |-> {}]
Unobserved == [l \in Layer |-> {}]

----------------------------------------------------------------------------
Init ==
  /\ stage = "idle" /\ step = NoStep /\ bypassed = FALSE
  /\ known = Prompt
  /\ computed = [r \in Req |-> None]
  /\ prefill = [r \in Req |-> 0]
  /\ rows = <<>> /\ lens = <<>> /\ meta = None
  /\ pending = [r \in Req |-> None] /\ active = [r \in Req |-> None]
  /\ offsets = [i \in 1..Cardinality(Req) |-> 0]
  /\ snapshot = <<>> /\ hasActive = FALSE /\ hasLayers = FALSE
  /\ saved = <<>> /\ applied = FALSE
  /\ required = FALSE /\ seen = FALSE
  /\ tracked = {} /\ captured = {} /\ complete = FALSE
  /\ observed = [r \in Req |-> Unobserved]

(* execute_model is called: begin_per_layer_step and begin_query_step,      *)
(* which forgets the requests that are gone.                                *)
NeedsLayers(tokens) == (Declared \/ hasLayers) /\ \E r \in Req : tokens[r] > 0
BeginQueries ==
  /\ tracked' = tracked \cap Live
  /\ observed' = [r \in Req |-> IF r \in tracked \ Live THEN Unobserved ELSE observed[r]]
  /\ captured' = {} /\ complete' = FALSE
Begin ==
  /\ stage = "idle" /\ stage' = "begun"
  /\ \E tokens \in [Req -> 0..MaxChunk], gone \in SUBSET Live :
       \E finished \in SUBSET gone :
         /\ \A r \in gone : prefill[r] < MaxResets
         /\ \A r \in finished : tokens[r] = 0
         /\ \A r \in Req : tokens[r] + (IF r \in Live \ gone THEN computed[r] ELSE 0) <= known[r]
         /\ step' = [tokens |-> tokens, finished |-> finished,
                     preempted |-> gone \ finished]
  /\ required' = NeedsLayers(step'.tokens)
  /\ seen' = (seen /\ ~required')
  /\ BeginQueries
  /\ UNCHANGED <<bypassed, known, computed, prefill, rows, rowVars, lengthVars>>

----------------------------------------------------------------------------
(* before_update_states.                                                    *)
Reset == step.finished \cup step.preempted
Committing == {r \in Scheduled \ Reset : pending[r] # None /\ r \in Live}
ActiveAfter ==
  [r \in Req |-> IF r \in Reset THEN None
                 ELSE IF r \in Committing THEN pending[r] ELSE active[r]]
PendingAfter ==
  [r \in Req |-> IF r \in Reset \cup Scheduled THEN None ELSE pending[r]]
ObservedAfter == [r \in Req |-> IF r \in Reset THEN Unobserved ELSE observed[r]]

(* The host's rows: the scheduled requests in any order.  A request that    *)
(* starts, or starts again, may begin behind a prefix hit.                  *)
HitUncapped(r) == Prompt[r] - 1 \* mutant: the whole prompt but one token
HitCap(r) ==
  IF Prompt[r] < Threshold THEN Prompt[r] - 1
  ELSE Max({0, Min({Prompt[r] - 1, Prompt[r] - Recompute})})
Starts(r) == r \in Scheduled /\ (r \in Reset \/ computed[r] \in {None, 0})
UpdateHost ==
  /\ rows' \in SetToSeqs(Scheduled)
  /\ \E hit \in [Req -> 0..MaxHit] :
       /\ \A r \in Req : hit[r] > 0 => Starts(r) /\ hit[r] <= HitCap(r)
       /\ \A r \in Req : hit[r] + step.tokens[r] <= known[r]
       /\ computed' = [r \in Req |->
            IF r \in step.finished THEN None
            ELSE IF Starts(r) THEN hit[r]
            ELSE IF r \in step.preempted THEN 0 ELSE computed[r]]
  /\ prefill' = [r \in Req |-> IF r \in Reset THEN prefill[r] + 1 ELSE prefill[r]]
  /\ known' = [r \in Req |-> IF r \in step.finished THEN Prompt[r] ELSE known[r]]

(* after_update_states and _sync_request_offset_rows, on the rows and the   *)
(* compactions of the next state: unless they are what they were, write the *)
(* offsets of the rows and clear the rows behind them.                      *)
RowOffsets == [i \in DOMAIN rows' |-> Removed(active'[rows'[i]])]
UnmovedIfActive == hasActive = \E i \in DOMAIN rows' : RowOffsets[i] # 0 \* mutant
Unmoved == RowOffsets = snapshot
SyncRows ==
  /\ hasLayers' = \E r \in ToSet(rows') : active'[r] # None /\ active'[r].layers # None
  /\ IF Unmoved THEN UNCHANGED <<offsets, snapshot, hasActive>>
     ELSE /\ offsets' = [i \in DOMAIN offsets |->
               IF i \in DOMAIN rows' THEN RowOffsets[i]
               ELSE IF i <= Len(snapshot) THEN 0 ELSE offsets[i]]
          /\ snapshot' = RowOffsets
          /\ hasActive' = \E i \in DOMAIN rows' : RowOffsets[i] # 0

UpdateStates ==
  /\ stage = "begun"
  /\ stage' = IF Scheduled = {} THEN "ran" ELSE "updated"
  /\ UpdateHost
  /\ active' = [r \in Req |-> IF computed'[r] = None THEN None ELSE ActiveAfter[r]]
  /\ pending' = [r \in Req |-> IF computed'[r] = None THEN None ELSE PendingAfter[r]]
  /\ SyncRows
  /\ applied' = FALSE
  /\ tracked' = tracked \ Reset
  /\ observed' = ObservedAfter
  /\ UNCHANGED <<step, bypassed, lens, meta, saved, layerVars, captured, complete>>

(* _prepare_inputs of the host: semantic lengths, and write slots through   *)
(* physical_positions_for_slot_mapping.                                     *)
Semantic(r) == computed[r] + step.tokens[r]
Shift(i) == IF hasActive THEN offsets[i] ELSE 0
Prepare ==
  /\ stage = "updated" /\ stage' = "prepared"
  /\ lens' = [i \in DOMAIN rows |-> Semantic(rows[i])]
  /\ UNCHANGED <<hostVars, rowVars, meta, saved, applied, layerVars, queryVars>>

----------------------------------------------------------------------------
(* _build_attention_metadata, any number of times in a step:                *)
(* apply_physical_attention_lengths, semantic_gdn_metadata, and             *)
(* per_layer_attention_metadata if a layer may be different.                *)
ApplyAlways == \* mutant: every build subtracts the offsets
  IF ~hasActive THEN UNCHANGED <<lens, saved, applied>>
  ELSE /\ saved' = lens
       /\ lens' = [i \in DOMAIN lens |-> lens[i] - offsets[i]]
       /\ applied' = TRUE
ApplyLengths ==
  IF applied \/ ~hasActive THEN UNCHANGED <<lens, saved, applied>>
  ELSE /\ saved' = lens
       /\ lens' = [i \in DOMAIN lens |-> lens[i] - offsets[i]]
       /\ applied' = TRUE

RowMetadata(l) == [i \in DOMAIN rows |-> [length |-> l[i], shift |-> Shift(i)]]
LayerMetadata(l) ==
  LET removed == [i \in DOMAIN rows |-> RemovedAt(active[rows[i]], l)]
      shared == \A i \in DOMAIN rows : removed[i] = offsets[i]
  IN [i \in DOMAIN rows |->
       [length |-> lens'[i] + offsets[i] - removed[i],
        shift  |-> IF shared THEN Shift(i) ELSE removed[i]]]

GdnLengths == IF applied' THEN saved' ELSE lens'

SpecializesActive == hasLayers \* mutant: the declaration is forgotten
Specializes == Declared \/ hasLayers

BuildMetadata ==
  /\ stage \in {"prepared", "built"} /\ ~bypassed /\ stage' = "built"
  /\ ApplyLengths
  /\ meta' = [layers |-> [l \in Layer |-> IF Specializes THEN LayerMetadata(l)
                                          ELSE RowMetadata(lens')],
              gdn |-> GdnLengths]
  /\ seen' = (seen \/ Specializes)
  /\ UNCHANGED <<hostVars, rowVars, required, queryVars>>

(* The host attends without having called the hooked method.                *)
BypassMetadata ==
  /\ MayBypass /\ stage = "prepared" /\ stage' = "built"
  /\ bypassed' = TRUE
  /\ UNCHANGED <<step, known, computed, prefill, rows, rowVars, lengthVars, layerVars, queryVars>>

----------------------------------------------------------------------------
(* _query_spans: the prompt tokens in the batch.                            *)
Spans == {r \in Scheduled : computed[r] < Prompt[r]}
Span(r) == computed[r]..Min({Semantic(r), Prompt[r]}) - 1

(* The forward pass: capture_attention_query from the attention layers, of  *)
(* which a replayed graph may bypass some.                                  *)
Observing == Window > 0 /\ Spans # {}
Forward ==
  /\ stage = "built" /\ stage' = "ran"
  /\ \E layers \in SUBSET Layer :
       /\ layers # Layer => MayBypass /\ Observing
       /\ bypassed' = (bypassed \/ layers # Layer)
       /\ captured' = IF Observing THEN layers ELSE {}
       /\ observed' = [r \in Req |-> [l \in Layer |->
            observed[r][l] \cup IF Window > 0 /\ l \in layers /\ r \in Spans
                               THEN {<<prefill[r], p>> : p \in Span(r)} ELSE {}]]
       /\ tracked' = IF Observing /\ layers # {} THEN tracked \cup Spans ELSE tracked
  /\ UNCHANGED <<step, known, computed, prefill, rows, rowVars, lengthVars, layerVars, complete>>

(* finish_per_layer_step and finish_query_step; if one of them raises,      *)
(* abort_query_step, and the engine stops.                                  *)
LayersMissing == required /\ ~seen
QueriesMissingAll == Observing /\ captured = {} \* mutant: any layer will do
QueriesMissing == Observing /\ captured # Layer
AbortQueries ==
  /\ complete' = FALSE /\ captured' = {}
  /\ tracked' = tracked \ Scheduled
  /\ observed' = [r \in Req |-> IF r \in Scheduled THEN Unobserved ELSE observed[r]]
Finish ==
  /\ stage = "ran" /\ required' = FALSE
  /\ IF LayersMissing \/ QueriesMissing
     THEN stage' = "failed" /\ AbortQueries
     ELSE /\ stage' = IF Scheduled = {} THEN "idle" ELSE "sample"
          /\ complete' = (Window > 0)
          /\ UNCHANGED <<captured, tracked, observed>>
  /\ UNCHANGED <<hostVars, rowVars, lengthVars, seen>>

(* sample_tokens: the host samples, then compress_scheduled_requests.  The  *)
(* scheduler may send a plan for every request that is due.                 *)
Physical(r) == Semantic(r) - Removed(active[r])
Due(r) ==
  /\ r \in Scheduled /\ pending[r] = None
  /\ active[r] = None => Semantic(r) = Prompt[r]
  /\ Physical(r) >= Threshold
NormalKept(len) == len \* mutant: equal lengths are kept per layer
Normal(len) == IF len # None /\ \E l \in Layer : len[l] # Budget THEN len ELSE None
Compress(plans) ==
  /\ \E len \in [plans -> LayerLengths] :
       pending' = [r \in Req |->
         IF r \in plans
         THEN [semantic |-> Semantic(r), physical |-> Budget, layers |-> Normal(len[r])]
         ELSE pending[r]]
  /\ observed' = [r \in Req |-> IF r \in plans THEN Unobserved ELSE observed[r]]
  /\ tracked' = tracked \ plans

Sample ==
  /\ stage = "sample" /\ stage' = "idle"
  /\ \E plans \in SUBSET {r \in Req : Due(r)} : Compress(plans)
  /\ computed' = [r \in Req |-> IF r \in Scheduled THEN Semantic(r) ELSE computed[r]]
  /\ known' = [r \in Req |-> IF r \in Scheduled /\ Semantic(r) = known[r] /\ known[r] < Limit[r]
                            THEN known[r] + 1 ELSE known[r]]
  /\ step' = NoStep /\ bypassed' = FALSE /\ meta' = None
  /\ UNCHANGED <<prefill, rows, active, offsets, snapshot, hasActive, hasLayers,
                 lens, saved, applied, layerVars, captured, complete>>

(* A failed engine stays down.                                              *)
Down == stage = "failed" /\ UNCHANGED vars

Next ==
  \/ Begin \/ UpdateStates \/ Prepare \/ BuildMetadata \/ BypassMetadata
  \/ Forward \/ Finish \/ Sample \/ Down

Spec == Init /\ [][Next]_vars

----------------------------------------------------------------------------
(* The types; a compression shortens its request, and per-layer lengths are *)
(* kept only where a layer differs.                                         *)
TypeOK ==
  /\ stage \in {"idle", "begun", "updated", "prepared", "built", "ran", "sample", "failed"}
  /\ known \in [Req -> Nat] /\ computed \in [Req -> Nat \cup {None}]
  /\ \A r \in Req : \A c \in {pending[r], active[r]} \ {None} :
       /\ c \in Compression /\ c.physical < c.semantic
       /\ c.layers # None => \E l \in Layer : c.layers[l] # c.physical
  /\ offsets \in [1..Cardinality(Req) -> Nat]
  /\ ToSet(rows) \subseteq Req /\ IsInjective(rows)
  /\ tracked \subseteq Req /\ captured \subseteq Layer

(* However requests join, leave and change rows, and although nothing is    *)
(* copied while the offsets look the same: the device has the offset of the *)
(* request that is in each row now, and none behind the last row.           *)
RowsCurrent ==
  stage \notin {"idle", "begun"} =>
    /\ \A i \in DOMAIN offsets :
         offsets[i] = IF i \in DOMAIN rows THEN Removed(active[rows[i]]) ELSE 0
    /\ hasActive = \E r \in ToSet(rows) : active[r] # None

(* However often the metadata is built, each attention layer gets the       *)
(* physical lengths and write slots of its own cache, and GDN the semantic  *)
(* lengths.                                                                 *)
LengthsOnce ==
  stage = "built" /\ ~bypassed =>
    \A i \in DOMAIN rows :
      /\ meta.gdn[i] = Semantic(rows[i])
      /\ \A l \in Layer :
           LET removed == RemovedAt(active[rows[i]], l)
           IN meta.layers[l][i] = [length |-> Semantic(rows[i]) - removed, shift |-> removed]

(* A step in which the host bypassed a hook is never sampled from ...       *)
BypassFails == stage = "sample" => ~bypassed

(* ... and no other step fails: "per-layer attention metadata hook was      *)
(* bypassed by the host" is raised only if it was.                          *)
FailsOnlyIfBypassed == stage = "failed" => bypassed

(* When the method completes the observation of the first compression of a  *)
(* prefill, and whatever chunks, prefix hits and preemptions came before,   *)
(* each layer has the whole window of that prefill and nothing of an        *)
(* earlier one.  A later compression, in a decoding step, completes an      *)
(* observation of nothing.  So no method ever sees a part of a window.      *)
Completes(r) == Window > 0 /\ stage = "sample" /\ pending[r] = None /\ pending'[r] # None
WindowObserved(r) ==
  \A l \in Layer :
    /\ \A p \in Max({0, Prompt[r] - Window})..Prompt[r] - 1 : <<prefill[r], p>> \in observed[r][l]
    /\ \A row \in observed[r][l] : row[1] = prefill[r]
WindowComplete ==
  [][\A r \in Req : Completes(r) =>
       /\ complete
       /\ IF active[r] = None THEN WindowObserved(r) ELSE observed[r] = Unobserved]_vars
=============================================================================
