------------------------------ MODULE GdnLists ------------------------------
(***************************************************************************)
(* The list bridge of host_compat.py: on a legacy binary the GDN operator  *)
(* takes integer lists, the host passes device tensors, and the wrapped    *)
(* operator converts them.  A conversion costs a device synchronization,   *)
(* so the lists are cached for the layers of one step, by id(tensor).      *)
(*                                                                         *)
(* An id is an address: it is used again as soon as its object is gone,    *)
(* and the wrapper itself makes temporaries (reshape, [:, 0]).  A tensor   *)
(* made under inference_mode does not count its modifications, and the     *)
(* host fills the same buffers in every step.  The cache is therefore      *)
(* guarded by a weak reference and the version, and cleared when           *)
(* execute_model begins; a dummy run calls the operator without that.      *)
(***************************************************************************)
EXTENDS Integers, Sequences, SequencesExt

CONSTANTS
  Address,     \* what id() may return
  Buffer,      \* storages the host keeps and fills
  Value,       \* what they may hold
  Tracked,     \* buffers with a version counter
  Unset,       \* stands for None
  MaxEntries,  \* _MAX_METADATA_CACHE_ENTRIES
  MaxFills     \* bound: modifications of one buffer

ASSUME ListAssumption ==
  /\ Tracked \subseteq Buffer
  /\ MaxEntries \in Nat \ {0} /\ MaxFills \in Nat
  /\ Unset \notin Buffer /\ 0 \in Value

VARIABLES
  content,  \* what each buffer holds
  version,  \* _version of each buffer
  object,   \* per address: the buffer of the tensor object that lives there
  lists,    \* _gdn_metadata_cache, by id
  order,    \* its ids, least recently used first
  passed,   \* the last list given to the operator, and what its tensor held
  gdnStep   \* what the runner is doing

gdnVars == <<content, version, object, lists, order, passed, gdnStep>>

Entry == [alive: BOOLEAN, version: Nat \cup {Unset}, list: Value]
ASSUME EntryAssumption == Unset \notin Entry /\ Unset \notin [list: Value, held: Value]

(* _version raises for an inference tensor.                                 *)
VersionOf(b) == IF b \in Tracked THEN version[b] ELSE Unset

(* An entry serves a tensor of buffer b at address a if its weak reference  *)
(* still gives that object and the object has not been modified since.      *)
HitUnchecked(a, b) == \* mutant: the id alone decides
  lists[a] # Unset /\ lists[a].version = VersionOf(b)
Hit(a, b) ==
  /\ lists[a] # Unset
  /\ lists[a].alive
  /\ lists[a].version = VersionOf(b)

(* OrderedDict: insertion or move_to_end, then popitem(last=False).         *)
Recent(a) == Append(RemoveFirst(order, a), a)
Evicted(a) ==
  IF Len(Recent(a)) > MaxEntries THEN {Head(Recent(a))} ELSE {}

(* as_int_list for a tensor of buffer b at address a, where the object      *)
(* outlives the call iff lives holds.                                       *)
AsIntList(a, b, lives) ==
  LET list == IF Hit(a, b) THEN lists[a].list ELSE content[b]
      entry == [alive |-> lives, version |-> VersionOf(b), list |-> list]
  IN  /\ lists' = [x \in Address |->
           IF x \in Evicted(a) THEN Unset ELSE IF x = a THEN entry ELSE lists[x]]
      /\ order' = IF Evicted(a) = {} THEN Recent(a) ELSE Tail(Recent(a))
      /\ passed' = [list |-> list, held |-> content[b]]

----------------------------------------------------------------------------
GdnInit ==
  /\ content = [b \in Buffer |-> 0]
  /\ version = [b \in Buffer |-> 0]
  /\ object = [a \in Address |-> Unset]
  /\ lists = [a \in Address |-> Unset] /\ order = <<>>
  /\ passed = Unset
  /\ gdnStep = "idle"

(* execute_model: clear_qwen_gdn_list_compat_cache before anything else.    *)
BeginStepUncleared == \* the class is not hooked
  /\ gdnStep = "idle" /\ gdnStep' = "filling"
  /\ passed' = Unset
  /\ UNCHANGED <<content, version, object, lists, order>>
BeginStep ==
  /\ gdnStep = "idle" /\ gdnStep' = "filling"
  /\ lists' = [a \in Address |-> Unset] /\ order' = <<>>
  /\ passed' = Unset
  /\ UNCHANGED <<content, version, object>>

(* _dummy_run: warm-up and idle data-parallel ranks.                        *)
BeginDummy ==
  /\ gdnStep = "idle" /\ gdnStep' = "dummy"
  /\ passed' = Unset
  /\ UNCHANGED <<content, version, object, lists, order>>

(* The host prepares its inputs: it fills a buffer in place ...             *)
Fill(b, v) ==
  /\ gdnStep \in {"filling", "dummy"}
  /\ version[b] < MaxFills
  /\ content' = [content EXCEPT ![b] = v]
  /\ version' = [version EXCEPT ![b] = @ + 1]
  /\ UNCHANGED <<object, lists, order, passed, gdnStep>>
(* ... and makes a tensor object for the metadata of the step.              *)
Create(a, b) ==
  /\ gdnStep \in {"filling", "dummy"}
  /\ object[a] = Unset
  /\ object' = [object EXCEPT ![a] = b]
  /\ UNCHANGED <<content, version, lists, order, passed, gdnStep>>
(* An object is released; weak references to it are cleared.                *)
Release(a) ==
  /\ object[a] # Unset
  /\ object' = [object EXCEPT ![a] = Unset]
  /\ lists' = [lists EXCEPT ![a] = IF @ = Unset THEN @ ELSE [@ EXCEPT !.alive = FALSE]]
  /\ UNCHANGED <<content, version, order, passed, gdnStep>>

(* The forward pass: the wrapped operator converts the tensor at a, or a    *)
(* temporary view of buffer b at a free address, which dies in the call.    *)
Forward ==
  /\ gdnStep = "filling" /\ gdnStep' = "running"
  /\ UNCHANGED <<content, version, object, lists, order, passed>>
Convert(a) ==
  /\ gdnStep \in {"running", "dummy"}
  /\ object[a] # Unset
  /\ AsIntList(a, object[a], TRUE)
  /\ UNCHANGED <<content, version, object, gdnStep>>
ConvertView(a, b) ==
  /\ gdnStep \in {"running", "dummy"}
  /\ object[a] = Unset
  /\ AsIntList(a, b, FALSE)
  /\ UNCHANGED <<content, version, object, gdnStep>>

EndStep ==
  /\ gdnStep \in {"running", "dummy"}
  /\ gdnStep' = "idle" /\ passed' = Unset
  /\ UNCHANGED <<content, version, object, lists, order>>

GdnNext ==
  \/ BeginStep \/ BeginDummy \/ Forward \/ EndStep
  \/ \E b \in Buffer, v \in Value : Fill(b, v)
  \/ \E a \in Address : Release(a) \/ Convert(a)
  \/ \E a \in Address, b \in Buffer : Create(a, b) \/ ConvertView(a, b)

GdnSpec == GdnInit /\ [][GdnNext]_gdnVars

----------------------------------------------------------------------------
(* The types of the list bridge.                                            *)
GdnTypeOK ==
  /\ content \in [Buffer -> Value]
  /\ version \in [Buffer -> Nat]
  /\ object \in [Address -> Buffer \cup {Unset}]
  /\ lists \in [Address -> Entry \cup {Unset}]
  /\ order \in Seq(Address)
  /\ passed \in [list: Value, held: Value] \cup {Unset}
  /\ gdnStep \in {"idle", "filling", "running", "dummy"}

(* In a step that serves requests, the operator of every layer gets what    *)
(* its tensors hold now: not the list of an object that was at the address  *)
(* before, and not the list of an earlier step.                             *)
ListIsCurrent == gdnStep = "running" /\ passed # Unset => passed.list = passed.held
=============================================================================
