-------------------------- MODULE DeploymentProofs --------------------------
(***************************************************************************)
(* Proofs about a service from its first process to the verdict on it, for *)
(* every number of processes, ranks, cases, buffers and addresses, and for *)
(* every host build: about each of the three parts by itself, and that the *)
(* deployment runs each part as its own specification allows.              *)
(***************************************************************************)
EXTENDS Deployment, FiniteSetTheorems, TLAPS

----------------------------------------------------------------------------
(* The list bridge.  A step begins with an empty cache and fills nothing    *)
(* once it converts, and a weak reference that is alive stands for the      *)
(* object that lives at its address now.                                    *)

(* The types the argument needs; the order of the entries does not matter.  *)
Types ==
  /\ content \in [Buffer -> Value]
  /\ version \in [Buffer -> Nat]
  /\ object \in [Address -> Buffer \cup {Unset}]
  /\ lists \in [Address -> Entry \cup {Unset}]
  /\ passed \in [list: Value, held: Value] \cup {Unset}

(* An entry whose reference is alive.                                       *)
Alive(a) == lists[a] # Unset /\ lists[a].alive

(* The inductive invariant.                                                 *)
CacheInv ==
  /\ Types
  /\ \A a \in Address : Alive(a) => object[a] # Unset
  /\ gdnStep = "filling" => passed = Unset /\ \A a \in Address : lists[a] = Unset
  /\ gdnStep = "running" =>
       /\ \A a \in Address : Alive(a) => lists[a].list = content[object[a]]
       /\ passed # Unset => passed.list = passed.held

(* Initially nothing is cached.                                             *)
LEMMA CacheInit == GdnInit => CacheInv
BY ListAssumption DEF GdnInit, CacheInv, Types, Alive

(* The version of a buffer, and an entry made of it.                        *)
LEMMA VersionType ==
  ASSUME Types, NEW b \in Buffer
  PROVE  VersionOf(b) \in Nat \cup {Unset}
BY DEF Types, VersionOf

(* What one conversion does, for a tensor of buffer b at address a: a hit   *)
(* is possible only for the object that is there.                           *)
LEMMA ConversionKeeps ==
  ASSUME CacheInv, NEW a \in Address, NEW b \in Buffer, NEW lives \in BOOLEAN,
         object[a] \in {b, Unset}, lives <=> object[a] = b,
         AsIntList(a, b, lives),
         gdnStep \in {"running", "dummy"},
         UNCHANGED <<content, version, object, gdnStep>>
  PROVE  CacheInv'
<1> DEFINE list == IF Hit(a, b) THEN lists[a].list ELSE content[b]
           entry == [alive |-> lives, version |-> VersionOf(b), list |-> list]
<1>1. Types BY DEF CacheInv
<1>2. object[a] = Unset => ~Hit(a, b)
  BY DEF CacheInv, Alive, Hit
<1>3. list \in Value
  <2>1. CASE Hit(a, b)
    <3>1. lists[a] \in Entry BY <2>1, <1>1 DEF Hit, Types
    <3> QED BY <2>1, <3>1 DEF Entry
  <2>2. CASE ~Hit(a, b) BY <2>2, <1>1 DEF Types
  <2> QED BY <2>1, <2>2
<1>4. entry \in Entry BY <1>1, <1>3, VersionType DEF Entry
<1>5. entry # Unset BY <1>4, EntryAssumption
<1>6. lists' = [x \in Address |->
          IF x \in Evicted(a) THEN Unset ELSE IF x = a THEN entry ELSE lists[x]]
  BY DEF AsIntList
<1>7. passed' = [list |-> list, held |-> content[b]] BY DEF AsIntList
<1>8. lists' \in [Address -> Entry \cup {Unset}]
  <2> HIDE DEF entry
  <2> QED BY <1>1, <1>4, <1>6 DEF Types
<1>9. Types'
  <2>1. content[b] \in Value BY <1>1 DEF Types
  <2> HIDE DEF list
  <2> QED BY <1>1, <1>3, <1>7, <1>8, <2>1 DEF Types
<1>10. gdnStep = "running" => list = content[b]
  <2> SUFFICES ASSUME gdnStep = "running", Hit(a, b) PROVE lists[a].list = content[b]
    OBVIOUS
  <2>1. object[a] = b BY <1>2
  <2> QED BY <2>1 DEF CacheInv, Alive, Hit
<1>11. ASSUME NEW x \in Address, Alive(x)'
       PROVE  \/ x = a /\ lives /\ lists'[x].list = list
              \/ x # a /\ Alive(x) /\ lists'[x] = lists[x]
  <2>1. x \notin Evicted(a) BY <1>6, <1>11 DEF Alive
  <2>2. CASE x = a
    <3>1. lists'[x] = entry BY <2>1, <2>2, <1>6
    <3> QED BY <3>1, <2>2, <1>11 DEF Alive
  <2>3. CASE x # a BY <2>1, <2>3, <1>6, <1>11 DEF Alive
  <2> QED BY <2>2, <2>3
<1>12. \A x \in Address : Alive(x)' => object'[x] # Unset
  <2> HIDE DEF list
  <2> QED BY <1>11, ListAssumption DEF CacheInv
<1>13. gdnStep = "running" =>
         /\ \A x \in Address : Alive(x)' => lists'[x].list = content'[object'[x]]
         /\ passed' # Unset => passed'.list = passed'.held
  <2> HIDE DEF list
  <2> QED BY <1>7, <1>10, <1>11 DEF CacheInv
<1> QED BY <1>9, <1>12, <1>13 DEF CacheInv

(* Every step of the runner keeps the invariant.                            *)
LEMMA CacheStep == CacheInv /\ [GdnNext]_gdnVars => CacheInv'
<1> SUFFICES ASSUME CacheInv, [GdnNext]_gdnVars PROVE CacheInv' OBVIOUS
<1>1. CASE BeginStep
  BY <1>1 DEF BeginStep, CacheInv, Types, Alive
<1>2. CASE BeginDummy
  BY <1>2 DEF BeginDummy, CacheInv, Types, Alive
<1>3. CASE Forward
  BY <1>3 DEF Forward, CacheInv, Types, Alive
<1>4. CASE EndStep
  BY <1>4 DEF EndStep, CacheInv, Types, Alive
<1>5. ASSUME NEW b \in Buffer, NEW v \in Value, Fill(b, v) PROVE CacheInv'
  BY <1>5 DEF Fill, CacheInv, Types, Alive
<1>6. ASSUME NEW a \in Address, NEW b \in Buffer, Create(a, b) PROVE CacheInv'
  BY <1>6, ListAssumption DEF Create, CacheInv, Types, Alive
<1>7. ASSUME NEW a \in Address, Release(a) PROVE CacheInv'
  <2>1. Types' /\ \A x \in Address : lists'[x] = Unset <=> lists[x] = Unset
    <3>1. \A x \in Address : lists[x] # Unset => [lists[x] EXCEPT !.alive = FALSE] \in Entry
      BY DEF CacheInv, Types, Entry
    <3> QED BY <1>7, <3>1, EntryAssumption DEF Release, CacheInv, Types
  <2>2. \A x \in Address : Alive(x)' => x # a /\ lists'[x] = lists[x]
    <3>1. lists[a] # Unset => lists'[a] = [lists[a] EXCEPT !.alive = FALSE]
      BY <1>7 DEF Release, CacheInv, Types
    <3>2. lists[a] # Unset => lists'[a].alive = FALSE
      BY <3>1 DEF CacheInv, Types, Entry
    <3> QED BY <1>7, <2>1, <3>2 DEF Release, CacheInv, Types, Alive
  <2> QED BY <1>7, <2>1, <2>2 DEF Release, CacheInv, Types, Alive
<1>8. ASSUME NEW a \in Address, Convert(a) PROVE CacheInv'
  <2>1. object[a] \in Buffer BY <1>8 DEF Convert, CacheInv, Types
  <2> QED BY <1>8, <2>1, ConversionKeeps DEF Convert
<1>9. ASSUME NEW a \in Address, NEW b \in Buffer, ConvertView(a, b) PROVE CacheInv'
  BY <1>9, ConversionKeeps, ListAssumption DEF ConvertView
<1>10. CASE UNCHANGED gdnVars
  BY <1>10 DEF gdnVars, CacheInv, Types, Alive
<1> QED BY <1>1, <1>2, <1>3, <1>4, <1>5, <1>6, <1>7, <1>8, <1>9, <1>10 DEF GdnNext

(* In a step that serves requests the operator of every layer gets what its *)
(* tensors hold now, however objects come and go at whatever addresses.     *)
THEOREM ListCorrect == GdnSpec => []ListIsCurrent
<1>1. CacheInv => ListIsCurrent BY DEF CacheInv, ListIsCurrent
<1> QED BY <1>1, CacheInit, CacheStep, PTL DEF GdnSpec

(* A set of natural numbers has a least one.                                *)
LEMMA LeastOf ==
  ASSUME NEW S, S \subseteq Nat, S # {}
  PROVE  Min(S) \in S
<1> DEFINE less == {p \in Nat \X Nat : p[1] < p[2]}
<1>1. IsWellFoundedOn(less, Nat) BY ONLY NatLessThanWellFounded, Zenon DEF OpToRel
<1>2. \E x \in S : \A y \in S : ~ (<<y, x>> \in less)
  <2> HIDE DEF less
  <2> QED BY <1>1, WFMin
<1>3. \A x, y \in Nat : <<y, x>> \in less <=> y < x OBVIOUS
<1> HIDE DEF less
<1>4. PICK x \in S : \A y \in S : ~ (<<y, x>> \in less) BY <1>2
<1>5. ASSUME NEW y \in S PROVE x <= y
  <2>1. x \in Nat /\ y \in Nat OBVIOUS
  <2>2. ~ (y < x) BY <1>3, <1>4, <2>1, Zenon
  <2> QED BY <2>1, <2>2
<1> QED BY <1>5 DEF Min

(* The order of the entries stays a sequence of addresses.                  *)
LEMMA RecentType ==
  ASSUME order \in Seq(Address), NEW a \in Address
  PROVE  /\ Recent(a) \in Seq(Address) /\ Recent(a) # <<>>
<1>1. RemoveFirst(order, a) \in Seq(Address)
  <2> DEFINE I == {i \in 1..Len(order) : order[i] = a}
             k == Min(I)
  <2>1. CASE ~ \E i \in 1..Len(order) : order[i] = a
    BY <2>1 DEF RemoveFirst
  <2>2. CASE \E i \in 1..Len(order) : order[i] = a
    <3>1. I # {} /\ I \subseteq Nat BY <2>2
    <3>2. k \in I
      <4> HIDE DEF I
      <4> QED BY <3>1, LeastOf
    <3>3. RemoveFirst(order, a) = RemoveAt(order, k)
      BY <2>2, <3>1 DEF RemoveFirst, SelectInSeq
    <3>4. k \in 1..Len(order) BY <3>2
    <3> HIDE DEF k
    <3> QED BY <3>3, <3>4 DEF RemoveAt
  <2> QED BY <2>1, <2>2
<1> QED BY <1>1 DEF Recent

(* The types of the bridge, the order of its entries included.              *)
LEMMA OrderStep ==
  ASSUME order \in Seq(Address), gdnStep \in {"idle", "filling", "running", "dummy"},
         Types, [GdnNext]_gdnVars
  PROVE  order' \in Seq(Address) /\ gdnStep' \in {"idle", "filling", "running", "dummy"}
<1>1. ASSUME NEW a \in Address, NEW b, NEW lives, AsIntList(a, b, lives)
      PROVE  order' \in Seq(Address)
  <2>1. Recent(a) \in Seq(Address) /\ Recent(a) # <<>> BY RecentType
  <2>2. Tail(Recent(a)) \in Seq(Address) BY <2>1
  <2>3. order' = IF Evicted(a) = {} THEN Recent(a) ELSE Tail(Recent(a))
    BY <1>1, Zenon DEF AsIntList
  <2> QED BY <2>1, <2>2, <2>3
<1>2. CASE BeginStep \/ BeginDummy \/ Forward \/ EndStep
  <2>1. order' = order \/ order' = <<>>
    BY <1>2 DEF BeginStep, BeginDummy, Forward, EndStep
  <2>2. <<>> \in Seq(Address) OBVIOUS
  <2>3. gdnStep' \in {"idle", "filling", "running", "dummy"}
    BY <1>2 DEF BeginStep, BeginDummy, Forward, EndStep
  <2> QED BY <2>1, <2>2, <2>3
<1>3. ASSUME NEW b \in Buffer, NEW v \in Value, Fill(b, v)
      PROVE  UNCHANGED <<order, gdnStep>>
  BY <1>3 DEF Fill
<1>4. ASSUME NEW a \in Address, Release(a) PROVE UNCHANGED <<order, gdnStep>>
  BY <1>4 DEF Release
<1>5. ASSUME NEW a \in Address, Convert(a)
      PROVE  order' \in Seq(Address) /\ gdnStep' = gdnStep
  BY <1>1, <1>5 DEF Convert
<1>6. ASSUME NEW a \in Address, NEW b \in Buffer, Create(a, b)
      PROVE  UNCHANGED <<order, gdnStep>>
  BY <1>6 DEF Create
<1>7. ASSUME NEW a \in Address, NEW b \in Buffer, ConvertView(a, b)
      PROVE  order' \in Seq(Address) /\ gdnStep' = gdnStep
  BY <1>1, <1>7 DEF ConvertView
<1>8. CASE UNCHANGED gdnVars BY <1>8 DEF gdnVars
<1> QED BY <1>2, <1>3, <1>4, <1>5, <1>6, <1>7, <1>8 DEF GdnNext

(* The list bridge keeps its types.                                         *)
THEOREM GdnTypeCorrect == GdnSpec => []GdnTypeOK
<1> DEFINE I == /\ CacheInv /\ order \in Seq(Address)
                /\ gdnStep \in {"idle", "filling", "running", "dummy"}
<1>1. GdnInit => I BY CacheInit DEF GdnInit
<1>2. I /\ [GdnNext]_gdnVars => I' BY CacheStep, OrderStep DEF CacheInv
<1>3. I => GdnTypeOK BY DEF CacheInv, Types, GdnTypeOK
<1> HIDE DEF I
<1> QED BY <1>1, <1>2, <1>3, PTL DEF GdnSpec

----------------------------------------------------------------------------
(* Activation.  What carries the proof: a seam is wrapped exactly once if   *)
(* its marker is set and not at all otherwise, also in the middle of a call *)
(* that is about to raise, and only seams the configuration asks for are    *)
(* wrapped; and a call that returns has left the hooks of its stage.        *)

AllowedHooks == IF host.enabled THEN Needed \cup {"coordinator"} ELSE {}

(* What is in front of the hooks of the runner class.                       *)
Shimmed(s) ==
  /\ {"gdnBuild"} \cup ({"output", "asyncOutput"} \ host.accepts) \subseteq s.marked
  /\ {"step3p5", "dcp"} \subseteq s.names

(* A process at any point of a call.                                        *)
Sound(s) ==
  /\ s \in ProcState
  /\ \A x \in Seam : s.layers[x] = IF x \in s.marked THEN 1 ELSE 0
  /\ s.marked \subseteq AllowedHooks
  /\ s.finder => host.enabled
  /\ "runner" \in s.marked => Shimmed(s)

(* t is s later in the same call: nothing is taken back.                    *)
Later(s, t) ==
  /\ s.marked \subseteq t.marked /\ s.names \subseteq t.names
  /\ s.finder => t.finder
  /\ t.imported = s.imported /\ t.registered = s.registered
  /\ t.model = s.model /\ t.serving = s.serving /\ t.scheduling = s.scheduling

(* A part of a call brings s to t; unless it raises, t has the hooks H and  *)
(* the names N.                                                             *)
Call(s, t, H, N) ==
  /\ Sound(t) /\ Later(s, t) /\ t.provider = s.provider
  /\ ~t.raised => H \subseteq t.marked /\ N \subseteq t.names

LEMMA HostType == host \in Hosts => host \in Host
BY ActivationAssumption

LEMMA AllowedType == AllowedHooks \subseteq Seam
BY DEF AllowedHooks, Needed, Seam

LEMMA LaterTransitive ==
  ASSUME NEW s, NEW t, NEW u, Later(s, t), Later(t, u)
  PROVE  Later(s, u)
BY DEF Later

LEMMA LaterReflexive == \A s : Later(s, s)
BY DEF Later

(* The elementary changes.                                                  *)
LEMMA WrapCall ==
  ASSUME NEW s, Sound(s), NEW x \in AllowedHooks, x = "runner" => Shimmed(s)
  PROVE  Call(s, Wrap(s, x), {x}, {}) /\ Wrap(s, x).raised = s.raised
<1>1. CASE x \in s.marked
  <2>1. Wrap(s, x) = s BY <1>1 DEF Wrap
  <2> QED BY <1>1, <2>1, LaterReflexive DEF Call
<1>2. CASE x \notin s.marked
  <2> DEFINE m == s.marked \cup {x}
             l == [s.layers EXCEPT ![x] = 1]
             t == [s EXCEPT !.marked = m, !.layers = l]
  <2>1. x \in Seam BY AllowedType
  <2>2. s \in ProcState /\ s.layers \in [Seam -> 0..2] /\ s.layers[x] = 0
    BY <1>2, <2>1 DEF Sound, ProcState
  <2>3. Wrap(s, x) = t
    <3>1. Wrap(s, x) = [s EXCEPT !.marked = m, !.layers[x] = IF @ < 2 THEN @ + 1 ELSE @]
      BY <1>2 DEF Wrap
    <3>2. Wrap(s, x) =
            [s EXCEPT !.marked = m,
                      !.layers = [s.layers EXCEPT ![x] = IF s.layers[x] < 2 THEN s.layers[x] + 1
                                                         ELSE s.layers[x]]]
      BY <3>1, <2>2 DEF ProcState
    <3> QED BY <2>2, <3>2
  <2>4. m \in SUBSET Seam /\ l \in [Seam -> 0..2] BY <2>1, <2>2 DEF ProcState
  <2>5. /\ t \in ProcState
        /\ t.marked = m /\ t.layers = l /\ t.names = s.names /\ t.finder = s.finder
        /\ t.imported = s.imported /\ t.registered = s.registered /\ t.model = s.model
        /\ t.provider = s.provider /\ t.serving = s.serving
        /\ t.scheduling = s.scheduling /\ t.raised = s.raised
    <3> HIDE DEF m, l
    <3> QED BY <2>2, <2>4 DEF ProcState
  <2> HIDE DEF t
  <2>6. \A y \in Seam : t.layers[y] = IF y \in t.marked THEN 1 ELSE 0
    BY <2>1, <2>2, <2>5 DEF Sound
  <2>7. t.marked \subseteq AllowedHooks BY <2>5 DEF Sound
  <2>8. "runner" \in t.marked => Shimmed(t) BY <2>5 DEF Sound, Shimmed
  <2>9. Sound(t) BY <2>5, <2>6, <2>7, <2>8 DEF Sound
  <2> QED BY <2>3, <2>5, <2>9 DEF Call, Later
<1> QED BY <1>1, <1>2

LEMMA AddCall ==
  ASSUME NEW s, Sound(s), NEW n \in Name
  PROVE  Call(s, Add(s, n), {}, {n}) /\ Add(s, n).raised = s.raised
<1>1. s \in ProcState BY DEF Sound
<1>2. /\ Add(s, n) \in ProcState /\ Add(s, n).names = s.names \cup {n}
      /\ \A f \in {"marked", "layers", "finder", "imported", "registered", "model", "provider",
                   "serving", "scheduling", "raised"} : Add(s, n)[f] = s[f]
  BY <1>1 DEF Add, ProcState
<1> QED BY <1>2 DEF Call, Sound, Later, Shimmed

LEMMA RaiseCall ==
  ASSUME NEW s, Sound(s)
  PROVE  Raise(s).raised /\ \A H, N : Call(s, Raise(s), H, N)
<1>1. s \in ProcState BY DEF Sound
<1>2. /\ Raise(s) \in ProcState /\ Raise(s).raised
      /\ \A f \in {"marked", "layers", "finder", "imported", "registered", "model", "provider",
                   "serving", "scheduling", "names"} : Raise(s)[f] = s[f]
  BY <1>1 DEF Raise, ProcState
<1> QED BY <1>2 DEF Call, Sound, Later, Shimmed

(* Nothing is done.                                                         *)
LEMMA NoCall ==
  ASSUME NEW s, Sound(s)
  PROVE  Call(s, s, {}, {})
BY LaterReflexive DEF Call

(* Sequential code.                                                         *)
LEMMA ThenCall ==
  ASSUME NEW s, NEW a, NEW b, NEW H, NEW N, NEW I, NEW M,
         Call(s, a, H, N), ~a.raised => Call(a, b, I, M)
  PROVE  Call(s, Then(a, b), H \cup I, N \cup M)
<1>1. CASE a.raised
  <2>1. Then(a, b) = a BY <1>1 DEF Then
  <2> QED BY <1>1, <2>1 DEF Call
<1>2. CASE ~a.raised
  <2>1. Then(a, b) = b BY <1>2 DEF Then
  <2>2. Later(s, b) BY <1>2, LaterTransitive DEF Call
  <2>3. H \subseteq a.marked /\ N \subseteq a.names BY <1>2 DEF Call
  <2>4. a.marked \subseteq b.marked /\ a.names \subseteq b.names BY <1>2 DEF Call, Later
  <2> QED BY <1>2, <2>1, <2>2, <2>3, <2>4 DEF Call
<1> QED BY <1>1, <1>2

(* The parts of the calls, each from a process s in which nothing has       *)
(* raised yet.                                                              *)
LEMMA RunnerShimsCall ==
  ASSUME host \in Hosts, host.enabled, NEW s, Sound(s)
  PROVE  /\ Call(s, RunnerShims(s), {}, {})
         /\ ~RunnerShims(s).raised => Shimmed(RunnerShims(s))
<1> DEFINE a == Step3p5Alias(s)
           b == DcpLengthAlias(a)
           oc == OutputRoutingField(b)
           c == Then(b, oc)
           od == AsyncOutputRoutingField(c)
           d == Then(c, od)
           oe == GdnMetadataHook(d)
           e == Then(d, oe)
           Lacks(x) == {x} \ host.accepts
<1>1. RunnerShims(s) = e BY DEF RunnerShims
<1>2. Call(s, a, {}, {"step3p5"}) BY AddCall DEF Step3p5Alias, Name
<1>3. Call(a, b, {}, {"dcp"})
  <2>1. Sound(a) BY <1>2 DEF Call
  <2> HIDE DEF a
  <2>2. CASE "dcp" \in a.names
    <3>1. b = a BY <2>2 DEF DcpLengthAlias
    <3> QED BY <2>1, <2>2, <3>1, LaterReflexive DEF Call
  <2>3. CASE "dcp" \notin a.names /\ host.dcpHelper
    <3>1. b = Add(a, "dcp") BY <2>3 DEF DcpLengthAlias
    <3> QED BY <2>1, <3>1, AddCall DEF Name
  <2>4. CASE "dcp" \notin a.names /\ ~host.dcpHelper
    <3>1. b = Raise(a) BY <2>4 DEF DcpLengthAlias
    <3> QED BY <2>1, <3>1, RaiseCall
  <2> QED BY <2>2, <2>3, <2>4
<1>4. Call(s, b, {}, {"step3p5", "dcp"})
  <2> HIDE DEF a, b
  <2>1. /\ Sound(b) /\ Later(s, b) /\ b.provider = s.provider
        /\ ~b.raised => "dcp" \in b.names
    BY <1>2, <1>3, LaterTransitive DEF Call
  <2>2. a.names \subseteq b.names BY <1>3 DEF Call, Later
  <2>3. "step3p5" \in b.names
    <3>1. "step3p5" \in a.names BY DEF a, Step3p5Alias, Add, Sound, ProcState
    <3> QED BY <2>2, <3>1
  <2> QED BY <2>1, <2>3 DEF Call
<1>5. Call(b, oc, Lacks("output"), {})
  <2>1. Sound(b) BY <1>4 DEF Call
  <2> HIDE DEF b
  <2>2. CASE "output" \in host.accepts
    <3>1. oc = b BY <2>2 DEF OutputRoutingField
    <3> QED BY <2>1, <2>2, <3>1, LaterReflexive DEF Call
  <2>3. CASE "output" \notin host.accepts
    <3>1. oc = Wrap(b, "output") BY <2>3 DEF OutputRoutingField
    <3>2. "output" \in AllowedHooks BY <2>3 DEF AllowedHooks, Needed
    <3>3. Call(b, oc, {"output"}, {}) BY <2>1, <3>1, <3>2, WrapCall
    <3> HIDE DEF oc
    <3> QED BY <2>3, <3>3 DEF Call
  <2> QED BY <2>2, <2>3
<1>6. Call(s, c, Lacks("output"), {"step3p5", "dcp"})
  <2> HIDE DEF b, oc
  <2>1. Call(s, Then(b, oc), {} \cup Lacks("output"), {"step3p5", "dcp"} \cup {})
    BY <1>4, <1>5, ThenCall
  <2> QED BY <2>1
<1>7. Call(c, od, Lacks("asyncOutput"), {})
  <2>1. Sound(c) BY <1>6 DEF Call
  <2> HIDE DEF c
  <2>2. CASE "asyncOutput" \in host.accepts
    <3>1. od = c BY <2>2 DEF AsyncOutputRoutingField
    <3> QED BY <2>1, <2>2, <3>1, LaterReflexive DEF Call
  <2>3. CASE "asyncOutput" \notin host.accepts
    <3>1. od = Wrap(c, "asyncOutput") BY <2>3 DEF AsyncOutputRoutingField
    <3>2. "asyncOutput" \in AllowedHooks BY <2>3 DEF AllowedHooks, Needed
    <3>3. Call(c, od, {"asyncOutput"}, {}) BY <2>1, <3>1, <3>2, WrapCall
    <3> HIDE DEF od
    <3> QED BY <2>3, <3>3 DEF Call
  <2> QED BY <2>2, <2>3
<1>8. Call(s, d, {"output", "asyncOutput"} \ host.accepts, {"step3p5", "dcp"})
  <2> HIDE DEF c, od
  <2>1. Call(s, Then(c, od), Lacks("output") \cup Lacks("asyncOutput"), {"step3p5", "dcp"} \cup {})
    BY <1>6, <1>7, ThenCall
  <2>2. Lacks("output") \cup Lacks("asyncOutput") = {"output", "asyncOutput"} \ host.accepts
    OBVIOUS
  <2> QED BY <2>1, <2>2
<1>9. Call(d, oe, {"gdnBuild"}, {})
  <2>1. Sound(d) BY <1>8 DEF Call
  <2>2. "gdnBuild" \in AllowedHooks BY DEF AllowedHooks, Needed
  <2> HIDE DEF d
  <2> QED BY <2>1, <2>2, WrapCall DEF GdnMetadataHook
<1>10. Call(s, e, ({"output", "asyncOutput"} \ host.accepts) \cup {"gdnBuild"},
                 {"step3p5", "dcp"} \cup {})
  <2> HIDE DEF d, oe
  <2> QED BY <1>8, <1>9, ThenCall
<1> HIDE DEF e
<1> QED BY <1>1, <1>10 DEF Call, Shimmed

LEMMA RunnerHooksCall ==
  ASSUME host \in Hosts, host.enabled, NEW s, Sound(s)
  PROVE  Call(s, RunnerHooks(s), {"runner"}, {})
<1>1. CASE "runner" \in s.marked
  <2>1. RunnerHooks(s) = s BY <1>1 DEF RunnerHooks
  <2> QED BY <1>1, <2>1, LaterReflexive DEF Call
<1>2. CASE "runner" \notin s.marked
  <2> DEFINE t == RunnerShims(s)
             u == Wrap(t, "runner")
  <2>1. RunnerHooks(s) = Then(t, u) BY <1>2 DEF RunnerHooks
  <2>2. Call(s, t, {}, {}) /\ (~t.raised => Shimmed(t)) BY RunnerShimsCall
  <2>3. "runner" \in AllowedHooks BY DEF AllowedHooks, Needed
  <2> HIDE DEF t
  <2>4. ~t.raised => Call(t, u, {"runner"}, {}) BY <2>2, <2>3, WrapCall DEF Call
  <2> HIDE DEF u
  <2>5. Call(s, Then(t, u), {} \cup {"runner"}, {} \cup {}) BY <2>2, <2>4, ThenCall
  <2>6. {} \cup {"runner"} = {"runner"} /\ {} \cup {} = {} OBVIOUS
  <2> QED BY <2>1, <2>5, <2>6
<1> QED BY <1>1, <1>2

(* An installer that leaves one hook, or raises, or has nothing to do.      *)
LEMMA LayerAwareReplayCall ==
  ASSUME host \in Hosts, host.enabled, host.perLayer, NEW s, Sound(s)
  PROVE  Call(s, LayerAwareReplay(s), IF host.graphMode # "NONE" THEN {"graph"} ELSE {}, {})
<1>1. CASE host.graphMode = "NONE"
  <2>1. LayerAwareReplay(s) = s BY <1>1 DEF LayerAwareReplay
  <2> QED BY <1>1, <2>1, LaterReflexive DEF Call
<1>2. CASE host.graphMode = "FULL_AND_PIECEWISE" /\ "graph" \in s.marked
  <2>1. LayerAwareReplay(s) = s BY <1>2 DEF LayerAwareReplay
  <2> QED BY <1>2, <2>1, LaterReflexive DEF Call
<1>3. CASE host.graphMode = "FULL_AND_PIECEWISE" /\ "graph" \notin s.marked /\ host.layerAware
  <2>1. LayerAwareReplay(s) = Wrap(s, "graph") BY <1>3 DEF LayerAwareReplay
  <2>2. "graph" \in AllowedHooks BY <1>3 DEF AllowedHooks, Needed
  <2> QED BY <1>3, <2>1, <2>2, WrapCall
<1>4. CASE \/ host.graphMode # "NONE" /\ host.graphMode # "FULL_AND_PIECEWISE"
           \/ host.graphMode = "FULL_AND_PIECEWISE" /\ "graph" \notin s.marked /\ ~host.layerAware
  <2>1. LayerAwareReplay(s) = Raise(s) BY <1>4 DEF LayerAwareReplay
  <2> QED BY <2>1, RaiseCall
<1> QED BY <1>1, <1>2, <1>3, <1>4

LEMMA GdnListCompatCall ==
  ASSUME host \in Hosts, host.enabled, NEW s, Sound(s)
  PROVE  Call(s, GdnListCompat(s),
              IF host.compat /\ host.gdnOp = "list" THEN {"gdnOp"} ELSE {}, {})
<1>1. CASE ~host.compat \/ host.gdnOp = "tensor"
  <2>1. GdnListCompat(s) = s BY <1>1 DEF GdnListCompat
  <2> QED BY <1>1, <2>1, LaterReflexive DEF Call
<1>2. CASE host.compat /\ host.gdnOp = "list"
  <2>1. CASE "gdnOp" \in s.marked
    <3>1. GdnListCompat(s) = s BY <1>2, <2>1 DEF GdnListCompat
    <3> QED BY <2>1, <3>1, LaterReflexive DEF Call
  <2>2. CASE "gdnOp" \notin s.marked
    <3>1. GdnListCompat(s) = Wrap(s, "gdnOp") BY <1>2, <2>2 DEF GdnListCompat
    <3>2. "gdnOp" \in AllowedHooks BY <1>2 DEF AllowedHooks, Needed
    <3> QED BY <1>2, <3>1, <3>2, WrapCall
  <2> QED BY <2>1, <2>2
<1>3. CASE host.compat /\ host.gdnOp \notin {"tensor", "list"}
  <2>1. GdnListCompat(s) = s \/ GdnListCompat(s) = Raise(s) BY <1>3 DEF GdnListCompat
  <2>2. Call(s, s, {}, {}) /\ Call(s, Raise(s), {}, {}) BY NoCall, RaiseCall
  <2> QED BY <1>3, <2>1, <2>2
<1> QED BY <1>1, <1>2, <1>3

LEMMA RouterCall ==
  ASSUME host \in Hosts, host.enabled, NEW s, Sound(s)
  PROVE  Call(s, GroupedTopkRouter(s), IF host.scaling = "none" THEN {"router"} ELSE {}, {})
<1>1. CASE host.scaling = "none"
  <2>1. GroupedTopkRouter(s) = Wrap(s, "router") BY <1>1 DEF GroupedTopkRouter
  <2>2. "router" \in AllowedHooks BY <1>1 DEF AllowedHooks, Needed
  <2> QED BY <1>1, <2>1, <2>2, WrapCall
<1>2. CASE host.scaling # "none"
  <2>1. GroupedTopkRouter(s) = s BY <1>2 DEF GroupedTopkRouter
  <2> QED BY <1>2, <2>1, NoCall
<1> QED BY <1>1, <1>2

LEMMA QueueCall ==
  ASSUME host \in Hosts, host.enabled, NEW s, Sound(s)
  PROVE  Call(s, MessageQueueDefaults(s), IF host.chunks = "set" THEN {"queue"} ELSE {}, {})
<1>1. host.chunks \in {"default", "set", "bad"} BY HostType DEF Host
<1>2. CASE host.chunks = "default"
  <2>1. MessageQueueDefaults(s) = s BY <1>2 DEF MessageQueueDefaults
  <2> QED BY <1>2, <2>1, NoCall
<1>3. CASE host.chunks = "bad"
  <2>1. MessageQueueDefaults(s) = Raise(s) BY <1>3 DEF MessageQueueDefaults
  <2> QED BY <2>1, RaiseCall
<1>4. CASE host.chunks = "set"
  <2>1. MessageQueueDefaults(s) = Wrap(s, "queue") BY <1>4 DEF MessageQueueDefaults
  <2>2. "queue" \in AllowedHooks BY <1>4 DEF AllowedHooks, Needed
  <2> QED BY <1>4, <2>1, <2>2, WrapCall
<1> QED BY <1>1, <1>2, <1>3, <1>4

LEMMA StatefulHooksCall ==
  ASSUME host \in Hosts, host.enabled, NEW s, Sound(s)
  PROVE  Call(s, StatefulHooks(s), {"manager", "scheduler"}, {})
<1> DEFINE a == Wrap(s, "manager")
           b == Wrap(a, "scheduler")
<1>1. {"manager", "scheduler"} \subseteq AllowedHooks BY DEF AllowedHooks, Needed
<1>2. StatefulHooks(s) = b BY DEF StatefulHooks
<1>3. Call(s, a, {"manager"}, {}) /\ a.raised = s.raised BY <1>1, WrapCall
<1> HIDE DEF a
<1>4. Call(a, b, {"scheduler"}, {}) /\ b.raised = a.raised BY <1>1, <1>3, WrapCall DEF Call
<1> HIDE DEF b
<1> QED BY <1>2, <1>3, <1>4, LaterTransitive DEF Call, Later

(* The entry points and the factory of the method change no hook.           *)
LEMMA CreateMethodCall ==
  ASSUME host \in Hosts, NEW s, Sound(s), ~s.raised
  PROVE  Call(s, CreateMethod(s), {}, {})
<1> DEFINE t == MethodEntryPoints(s)
           u == IF host.method \in t.factories THEN t ELSE Raise(t)
<1>1. Call(s, t, {}, {})
  <2>1. CASE s.loadedOnce
    <3>1. t = s BY <2>1 DEF MethodEntryPoints
    <3> QED BY <3>1, NoCall
  <2>2. CASE ~s.loadedOnce
    <3> DEFINE E == host.entryPoints
               good == {i \in DOMAIN E : \A j \in 1..i : E[j] # "broken"}
               f == s.factories \cup {E[i] : i \in good}
               r == good # DOMAIN E
    <3>1. t = [s EXCEPT !.loadedOnce = TRUE, !.factories = f, !.raised = r]
      BY <2>2 DEF MethodEntryPoints, Sound, ProcState
    <3>2. s \in ProcState BY DEF Sound
    <3>3. f \in SUBSET {"triattention", "external"}
      <4>1. E \in Seq({"broken", "external"}) BY HostType DEF Host
      <4>2. ASSUME NEW i \in good PROVE E[i] = "external"
        <5>1. i \in 1..Len(E) /\ E[i] \in {"broken", "external"} BY <4>1
        <5>2. i \in 1..i BY <5>1
        <5> QED BY <5>1, <5>2
      <4>3. s.factories \in SUBSET {"triattention", "external"} BY <3>2 DEF ProcState
      <4> QED BY <4>2, <4>3
    <3> HIDE DEF f, r
    <3>4. r \in BOOLEAN BY DEF r
    <3>5. /\ t \in ProcState
          /\ \A g \in {"marked", "layers", "finder", "imported", "registered", "model",
                       "provider", "serving", "scheduling", "names"} : t[g] = s[g]
      BY <3>1, <3>2, <3>3, <3>4 DEF ProcState
    <3> HIDE DEF t
    <3> QED BY <3>5 DEF Call, Sound, Later, Shimmed
  <2> QED BY <2>1, <2>2
<1>2. ~t.raised => Call(t, u, {}, {})
  <2>1. Sound(t) BY <1>1 DEF Call
  <2> HIDE DEF t
  <2>2. u = t \/ u = Raise(t) OBVIOUS
  <2> QED BY <2>1, <2>2, NoCall, RaiseCall
<1>3. CreateMethod(s) = Then(t, u) BY DEF CreateMethod
<1> HIDE DEF t, u
<1>4. Call(s, Then(t, u), {} \cup {}, {} \cup {}) BY <1>1, <1>2, ThenCall
<1>5. {} \cup {} = {} OBVIOUS
<1> QED BY <1>3, <1>4, <1>5

(* What the calls that have returned in a process have left in it.          *)
RegisterHooks ==
  {"manager", "scheduler"} \cup (IF host.chunks = "set" THEN {"queue"} ELSE {})
ModelHooks ==
  (IF host.perLayer /\ host.graphMode # "NONE" THEN {"graph"} ELSE {})
    \cup (IF host.observes THEN {"query"} ELSE {})
    \cup (IF host.compat /\ host.gdnOp = "list" THEN {"gdnOp"} ELSE {})
    \cup (IF host.scaling = "none" THEN {"router"} ELSE {})
Staged(s) ==
  /\ s.registered /\ host.enabled =>
       /\ RegisterHooks \subseteq s.marked
       /\ IF s.imported THEN "runner" \in s.marked ELSE s.finder
  /\ s.model =>
       /\ s.registered /\ s.imported
       /\ host.enabled => ModelHooks \subseteq s.marked
  /\ s.serving =>
       /\ s.model
       /\ host.enabled =>
            /\ host.fits \in {"yes", "scheduler"} /\ ~host.routedOutput
            /\ s.provider = "bound"
            /\ "slots" \in s.marked /\ "routingFlag" \in s.names
  /\ s.scheduling =>
       /\ s.registered
       /\ host.enabled =>
            /\ host.fits # "scheduler"
            /\ host.aligned => "coordinator" \in s.marked

Settled(s) == Sound(s) /\ Staged(s) /\ ~s.raised

(* The inductive invariant of the activation.                               *)
ActInv ==
  /\ host \in Hosts /\ failures \in 0..MaxFailures
  /\ proc \in [Proc -> ProcState]
  /\ \A p \in Proc : Settled(proc[p])
  /\ proc[Engine].scheduling => \A p \in host.ranks : proc[p].serving

LEMMA StagedLater ==
  ASSUME NEW s, NEW t, Staged(s), Later(s, t), t.provider = s.provider
  PROVE  Staged(t)
BY DEF Staged, Later

(* A call reports what it raised, and ends.                                 *)
LEMMA EndSettles ==
  ASSUME NEW t, Sound(t), Staged(t)
  PROVE  LET u == [t EXCEPT !.raised = FALSE] IN
         /\ Settled(u) /\ u \in ProcState
         /\ \A f \in {"registered", "imported", "model", "serving", "scheduling", "layers"} :
              u[f] = t[f]
<1> DEFINE u == [t EXCEPT !.raised = FALSE]
<1>1. t \in ProcState BY DEF Sound
<1>2. /\ u \in ProcState /\ ~u.raised
      /\ \A f \in {"marked", "layers", "finder", "imported", "registered", "model",
                   "provider", "serving", "scheduling", "names"} : u[f] = t[f]
  BY <1>1 DEF ProcState
<1> HIDE DEF u
<1>3. Sound(u) BY <1>2 DEF Sound, Shimmed
<1>4. Staged(u) BY <1>2 DEF Staged
<1> QED BY <1>2, <1>3, <1>4 DEF Settled, u

(* What is not a hook changes.                                              *)
LEMMA SoundSame ==
  ASSUME NEW s, Sound(s), NEW t \in ProcState, t.layers = s.layers, t.marked = s.marked,
         t.names = s.names, t.finder => host.enabled
  PROVE  Sound(t)
BY DEF Sound, Shimmed

LEMMA RegisteredFlag ==
  ASSUME NEW s, Sound(s), NEW t, t = [s EXCEPT !.registered = TRUE]
  PROVE  /\ Sound(t) /\ t.registered
         /\ \A g \in {"model", "serving", "scheduling", "finder", "imported",
                      "marked", "names", "provider", "raised"} : t[g] = s[g]
<1>1. s \in ProcState BY DEF Sound
<1>2. /\ t \in ProcState /\ t.registered
      /\ \A g \in {"model", "serving", "scheduling", "finder", "imported", "layers",
                   "marked", "names", "provider", "raised"} : t[g] = s[g]
  BY <1>1 DEF ProcState
<1>3. t.finder => host.enabled BY <1>2 DEF Sound
<1> QED BY <1>2, <1>3, SoundSame

(* register().                                                              *)
LEMMA RegisteredSettles ==
  ASSUME host \in Hosts, NEW s, Settled(s), NEW torn, NEW t, t = Registered(s, torn)
  PROVE  /\ Sound(t) /\ Staged(t)
         /\ t.serving = s.serving /\ t.scheduling = s.scheduling
<1> USE DEF Settled
<1>1. CASE ~host.enabled
  <2>1. t = [s EXCEPT !.registered = TRUE] BY <1>1 DEF Registered
  <2>2. /\ Sound(t) /\ t.registered
        /\ \A g \in {"model", "serving", "scheduling", "finder", "imported",
                     "marked", "names", "provider", "raised"} : t[g] = s[g]
    BY <2>1, RegisteredFlag
  <2> QED BY <1>1, <2>2 DEF Staged
<1>2. CASE host.enabled /\ (~host.configured \/ torn = "triton")
  <2>1. t = Raise(s)
    <3>1. Raise(s).raised BY DEF Raise, Sound, ProcState
    <3> QED BY <1>2, <3>1 DEF Registered, TritonRuntime, RaiseIf, Then
  <2>2. Call(s, t, {}, {}) BY <2>1, RaiseCall
  <2> QED BY <2>2, StagedLater DEF Call, Later
<1>3. CASE host.enabled /\ ~(~host.configured \/ torn = "triton")
  <2> DEFINE a == MessageQueueDefaults(s)
             ob == IF torn = "core" THEN Raise(a) ELSE LazyRunnerHook(a)
             b == Then(a, ob)
             oc == IF torn = "stateful" THEN Raise(b) ELSE StatefulHooks(b)
             c == Then(b, oc)
             u == [c EXCEPT !.registered = TRUE]
             Q == IF host.chunks = "set" THEN {"queue"} ELSE {}
             Seen(x) == IF x.imported THEN "runner" \in x.marked ELSE x.finder
  <2>1. t = Then(c, u) BY <1>3 DEF Registered, TritonRuntime, RaiseIf, Then
  <2>2. Call(s, a, Q, {}) BY <1>3, QueueCall
  <2>3. Call(a, ob, {}, {}) /\ (~ob.raised => Seen(ob))
    <3>1. Sound(a) BY <2>2 DEF Call
    <3> HIDE DEF a
    <3>2. CASE torn = "core" BY <3>1, <3>2, RaiseCall
    <3>3. CASE torn # "core" /\ a.imported
      <4>1. ob = RunnerHooks(a) BY <3>3 DEF LazyRunnerHook
      <4>2. Call(a, ob, {"runner"}, {}) BY <1>3, <3>1, <4>1, RunnerHooksCall
      <4> HIDE DEF ob
      <4> QED BY <3>3, <4>2 DEF Call, Later
    <3>4. CASE torn # "core" /\ ~a.imported
      <4>1. ob = [a EXCEPT !.finder = TRUE] BY <3>4 DEF LazyRunnerHook
      <4>2. a \in ProcState BY <3>1 DEF Sound
      <4>3. /\ ob \in ProcState /\ ob.finder
            /\ \A g \in {"registered", "model", "serving", "scheduling", "imported",
                         "marked", "names", "provider", "layers"} : ob[g] = a[g]
        BY <4>1, <4>2 DEF ProcState
      <4> HIDE DEF ob
      <4>4. Sound(ob) BY <1>3, <3>1, <4>3, SoundSame
      <4> QED BY <3>4, <4>3, <4>4 DEF Call, Later
    <3> QED BY <3>2, <3>3, <3>4
  <2>4. Call(s, b, Q, {}) /\ (~b.raised => Seen(b))
    <3> HIDE DEF a, ob, Q
    <3>1. Call(s, Then(a, ob), Q \cup {}, {} \cup {}) BY <2>2, <2>3, ThenCall
    <3>2. Q \cup {} = Q /\ {} \cup {} = {} OBVIOUS
    <3>3. ~b.raised => b = ob BY DEF Then
    <3> HIDE DEF Seen
    <3> QED BY <2>3, <3>1, <3>2, <3>3
  <2>5. Call(b, oc, {"manager", "scheduler"}, {})
    <3>1. Sound(b) BY <2>4 DEF Call
    <3> HIDE DEF b
    <3> QED BY <1>3, <3>1, RaiseCall, StatefulHooksCall
  <2>6. Call(s, c, RegisterHooks, {}) /\ (~c.raised => Seen(c))
    <3> HIDE DEF b, oc, Q
    <3>1. Call(s, Then(b, oc), Q \cup {"manager", "scheduler"}, {} \cup {})
      BY <2>4, <2>5, ThenCall
    <3>2. Q \cup {"manager", "scheduler"} = RegisterHooks /\ {} \cup {} = {}
      BY DEF RegisterHooks, Q
    <3>3. ~c.raised => c = oc /\ ~b.raised BY DEF Then
    <3>4. Seen(b) => Seen(oc) BY <2>5 DEF Call, Later
    <3> HIDE DEF Seen
    <3> QED BY <2>4, <3>1, <3>2, <3>3, <3>4
  <2> HIDE DEF c
  <2>7. CASE c.raised
    <3>1. t = c BY <2>1, <2>7 DEF Then
    <3> QED BY <2>6, <3>1, StagedLater DEF Call, Later
  <2>8. CASE ~c.raised
    <3>1. t = [c EXCEPT !.registered = TRUE] BY <2>1, <2>8 DEF Then
    <3>2. /\ Sound(t) /\ t.registered
          /\ \A g \in {"model", "serving", "scheduling", "finder", "imported",
                       "marked", "names", "provider", "raised"} : t[g] = c[g]
      BY <2>6, <3>1, RegisteredFlag DEF Call
    <3>3. Staged(c) BY <2>6, StagedLater DEF Call
    <3> QED BY <2>6, <2>8, <3>2, <3>3 DEF Staged, Call, Later
  <2> QED BY <2>7, <2>8
<1> QED BY <1>1, <1>2, <1>3

(* The host imports the runner module.                                      *)
LEMMA RoutedExpertsCall ==
  ASSUME NEW s, Sound(s)
  PROVE  Call(s, RoutedExpertsTypes(s), {}, {})
<1>1. CASE RoutedExpertsTypes(s) = s BY <1>1, NoCall
<1>2. CASE RoutedExpertsTypes(s) = Raise(s) BY <1>2, RaiseCall
<1>3. CASE RoutedExpertsTypes(s) = Add(s, "experts")
  <2>1. Call(s, Add(s, "experts"), {}, {"experts"}) BY AddCall DEF Name
  <2> QED BY <1>3, <2>1 DEF Call
<1> QED BY <1>1, <1>2, <1>3 DEF RoutedExpertsTypes

(* A class that goes with its module takes its hooks along.                 *)
LEMMA DroppedFlag ==
  ASSUME NEW s, Sound(s),
         NEW t, t = [s EXCEPT !.marked = @ \ {"runner"}, !.layers["runner"] = 0]
  PROVE  /\ Sound(t) /\ t.marked = s.marked \ {"runner"}
         /\ \A g \in {"registered", "model", "serving", "scheduling", "finder",
                      "imported", "names", "provider", "raised"} : t[g] = s[g]
<1> DEFINE m == s.marked \ {"runner"}
           l == [s.layers EXCEPT !["runner"] = 0]
<1>1. s \in ProcState /\ s.layers \in [Seam -> 0..2] /\ m \in SUBSET Seam
  BY DEF Sound, ProcState
<1>2. l \in [Seam -> 0..2] BY <1>1 DEF Seam
<1>3. t = [s EXCEPT !.marked = m, !.layers = l] BY <1>1 DEF ProcState
<1>4. /\ t \in ProcState /\ t.marked = m /\ t.layers = l
      /\ \A g \in {"registered", "model", "serving", "scheduling", "finder",
                   "imported", "names", "provider", "raised"} : t[g] = s[g]
  <2> HIDE DEF m, l
  <2> QED BY <1>1, <1>2, <1>3 DEF ProcState
<1>5. \A x \in Seam : l[x] = IF x \in m THEN 1 ELSE 0
  BY <1>1 DEF Sound
<1>6. m \subseteq AllowedHooks /\ "runner" \notin m BY DEF Sound
<1>7. t.finder => host.enabled BY <1>4 DEF Sound
<1> HIDE DEF m, l
<1>8. Sound(t) BY <1>4, <1>5, <1>6, <1>7 DEF Sound
<1> QED BY <1>4, <1>8 DEF m

LEMMA ImportedFlag ==
  ASSUME NEW s, Sound(s), NEW t, t = [s EXCEPT !.imported = TRUE]
  PROVE  /\ Sound(t) /\ t.imported
         /\ \A g \in {"registered", "model", "serving", "scheduling", "finder",
                      "marked", "names", "provider", "raised"} : t[g] = s[g]
<1>1. s \in ProcState BY DEF Sound
<1>2. /\ t \in ProcState /\ t.imported
      /\ \A g \in {"registered", "model", "serving", "scheduling", "finder", "layers",
                   "marked", "names", "provider", "raised"} : t[g] = s[g]
  BY <1>1 DEF ProcState
<1>3. t.finder => host.enabled BY <1>2 DEF Sound
<1> QED BY <1>2, <1>3, SoundSame

LEMMA ImportedSettles ==
  ASSUME host \in Hosts, NEW s, Settled(s), ~s.imported, NEW torn,
         NEW t, t = Imported(s, torn)
  PROVE  /\ Sound(t) /\ Staged(t)
         /\ t.serving = s.serving /\ t.scheduling = s.scheduling
<1> USE DEF Settled
<1> DEFINE a == IF s.finder THEN RoutedExpertsTypes(s) ELSE s
           ob == RaiseIf(torn, a)
           b == Then(a, ob)
           oc == IF s.finder THEN RunnerHooks(b) ELSE b
           c == Then(b, oc)
           H == IF s.finder THEN {"runner"} ELSE {}
<1>1. t = IF c.raised THEN [c EXCEPT !.marked = @ \ {"runner"}, !.layers["runner"] = 0]
          ELSE [c EXCEPT !.imported = TRUE]
  BY DEF Imported
<1>2. Call(s, a, {}, {}) BY RoutedExpertsCall, NoCall
<1>3. Call(a, ob, {}, {})
  <2>1. Sound(a) BY <1>2 DEF Call
  <2> HIDE DEF a
  <2> QED BY <2>1, RaiseCall, NoCall DEF RaiseIf
<1>4. Call(s, b, {}, {})
  <2> HIDE DEF a, ob
  <2>1. Call(s, Then(a, ob), {} \cup {}, {} \cup {}) BY <1>2, <1>3, ThenCall
  <2>2. {} \cup {} = {} OBVIOUS
  <2> QED BY <2>1, <2>2
<1>5. Call(b, oc, H, {})
  <2>1. Sound(b) BY <1>4 DEF Call
  <2> HIDE DEF b
  <2>2. CASE s.finder BY <2>1, <2>2, RunnerHooksCall DEF Sound
  <2>3. CASE ~s.finder BY <2>1, <2>3, NoCall
  <2> QED BY <2>2, <2>3
<1>6. Call(s, c, H, {})
  <2> HIDE DEF b, oc, H
  <2>1. Call(s, Then(b, oc), {} \cup H, {} \cup {}) BY <1>4, <1>5, ThenCall
  <2>2. {} \cup H = H /\ {} \cup {} = {} OBVIOUS
  <2> QED BY <2>1, <2>2
<1>7. ~s.model /\ ~s.serving BY DEF Staged
<1>8. Sound(c) /\ Staged(c) BY <1>6, StagedLater DEF Call
<1> HIDE DEF c
<1>9. CASE c.raised
  <2>1. t = [c EXCEPT !.marked = @ \ {"runner"}, !.layers["runner"] = 0] BY <1>1, <1>9
  <2>2. /\ Sound(t) /\ t.marked = c.marked \ {"runner"}
        /\ \A g \in {"registered", "model", "serving", "scheduling", "finder",
                     "imported", "names", "provider", "raised"} : t[g] = c[g]
    BY <1>8, <2>1, DroppedFlag
  <2>3. ~t.imported /\ ~t.model /\ ~t.serving
    BY <1>6, <1>7, <2>2 DEF Call, Later
  <2>4. RegisterHooks \subseteq c.marked => RegisterHooks \subseteq t.marked
    BY <2>2 DEF RegisterHooks
  <2>5. "coordinator" \in c.marked => "coordinator" \in t.marked BY <2>2
  <2>6. Staged(t) BY <1>8, <2>2, <2>3, <2>4, <2>5 DEF Staged
  <2> QED BY <1>6, <2>2, <2>6 DEF Call, Later
<1>10. CASE ~c.raised
  <2>1. t = [c EXCEPT !.imported = TRUE] BY <1>1, <1>10
  <2>2. /\ Sound(t) /\ t.imported
        /\ \A g \in {"registered", "model", "serving", "scheduling", "finder",
                     "marked", "names", "provider", "raised"} : t[g] = c[g]
    BY <1>8, <2>1, ImportedFlag
  <2>3. t.registered /\ host.enabled => "runner" \in t.marked
    BY <1>6, <1>10, <2>2 DEF Staged, Call, Later
  <2>4. ~t.model /\ ~t.serving BY <1>6, <1>7, <2>2 DEF Call, Later
  <2>5. Staged(t) BY <1>8, <2>2, <2>3, <2>4 DEF Staged
  <2> QED BY <1>6, <2>2, <2>5 DEF Call, Later
<1> QED BY <1>9, <1>10

(* One more part that adds hooks only.                                      *)
LEMMA ThenHooks ==
  ASSUME NEW s, NEW a, NEW b, NEW H, NEW I, NEW N,
         Call(s, a, H, N), Sound(a) => Call(a, b, I, {})
  PROVE  Call(s, Then(a, b), H \cup I, N)
<1>1. Call(a, b, I, {}) BY DEF Call
<1>2. Call(s, Then(a, b), H \cup I, N \cup {}) BY <1>1, ThenCall
<1>3. N \cup {} = N OBVIOUS
<1> QED BY <1>2, <1>3

(* load_model.                                                              *)
LEMMA ModelFlag ==
  ASSUME NEW s, Sound(s), NEW t, t = [s EXCEPT !.model = TRUE]
  PROVE  /\ Sound(t) /\ t.model
         /\ \A g \in {"registered", "imported", "serving", "scheduling", "finder",
                      "marked", "names", "provider", "raised"} : t[g] = s[g]
<1>1. s \in ProcState BY DEF Sound
<1>2. /\ t \in ProcState /\ t.model
      /\ \A g \in {"registered", "imported", "serving", "scheduling", "finder", "layers",
                   "marked", "names", "provider", "raised"} : t[g] = s[g]
  BY <1>1 DEF ProcState
<1>3. t.finder => host.enabled BY <1>2 DEF Sound
<1> QED BY <1>2, <1>3, SoundSame

(* A runner module that is imported carries the hooks of an enabled plugin. *)
LEMMA RunnerMarked ==
  ASSUME NEW s, Settled(s), s.registered, s.imported
  PROVE  s.layers["runner"] = (IF host.enabled THEN 1 ELSE 0)
<1>1. s.layers["runner"] = IF "runner" \in s.marked THEN 1 ELSE 0
  BY DEF Settled, Sound, Seam
<1>2. "runner" \in s.marked <=> host.enabled
  BY DEF Settled, Sound, Staged, AllowedHooks
<1> QED BY <1>1, <1>2

LEMMA LoadedSettles ==
  ASSUME host \in Hosts, NEW s, Settled(s), s.registered, s.imported, ~s.model,
         NEW torn, NEW t, t = Loaded(s, torn)
  PROVE  /\ Sound(t) /\ Staged(t)
         /\ t.serving = s.serving /\ t.scheduling = s.scheduling
<1> DEFINE a == CreateMethod(s)
           ob == IF host.perLayer THEN LayerAwareReplay(a) ELSE a
           b == Then(a, ob)
           oc == QueryHook(b)
           c == Then(b, oc)
           od == GdnListCompat(c)
           d == Then(c, od)
           oe == GroupedTopkRouter(d)
           e == Then(d, oe)
           f0 == IF s.layers["runner"] > 0 THEN e ELSE s
           of == RaiseIf(torn, f0)
           f == Then(f0, of)
           H0 == IF host.enabled THEN ModelHooks ELSE {}
           HG == IF host.perLayer /\ host.graphMode # "NONE" THEN {"graph"} ELSE {}
           HQ == IF host.observes THEN {"query"} ELSE {}
           HO == IF host.compat /\ host.gdnOp = "list" THEN {"gdnOp"} ELSE {}
           HR == IF host.scaling = "none" THEN {"router"} ELSE {}
<1>1. t = Then(f, [f EXCEPT !.model = TRUE]) BY DEF Loaded
<1>2. ~s.serving BY DEF Settled, Staged
<1>3. Sound(s) /\ Staged(s) /\ ~s.raised BY DEF Settled
<1>4a. Call(s, f0, H0, {})
  <2>1. CASE ~host.enabled
    <3>1. f0 = s BY <2>1, RunnerMarked
    <3> QED BY <1>3, <2>1, <3>1, NoCall
  <2>2. CASE host.enabled
    <3>1. f0 = e BY <2>2, RunnerMarked
    <3>2. Call(s, a, {}, {}) BY <1>3, CreateMethodCall
    <3>3. Sound(a) => Call(a, ob, HG, {})
      <4> HIDE DEF a
      <4> QED BY <2>2, LayerAwareReplayCall, NoCall
    <3>4. Call(s, b, {} \cup HG, {})
      <4> HIDE DEF a, ob, HG
      <4> QED BY <3>2, <3>3, ThenHooks
    <3>5. Sound(b) => Call(b, oc, HQ, {})
      <4>1. host.observes => "query" \in AllowedHooks
        BY <2>2 DEF AllowedHooks, Needed
      <4> HIDE DEF b
      <4> QED BY <4>1, WrapCall, NoCall DEF QueryHook
    <3>6. Call(s, c, ({} \cup HG) \cup HQ, {})
      <4> HIDE DEF b, oc, HG, HQ
      <4> QED BY <3>4, <3>5, ThenHooks
    <3>7. Sound(c) => Call(c, od, HO, {})
      <4> HIDE DEF c
      <4> QED BY <2>2, GdnListCompatCall
    <3>8. Call(s, d, (({} \cup HG) \cup HQ) \cup HO, {})
      <4> HIDE DEF c, od, HG, HQ, HO
      <4> QED BY <3>6, <3>7, ThenHooks
    <3>9. Sound(d) => Call(d, oe, HR, {})
      <4> HIDE DEF d
      <4> QED BY <2>2, RouterCall
    <3>10. Call(s, e, ((({} \cup HG) \cup HQ) \cup HO) \cup HR, {})
      <4> HIDE DEF d, oe, HG, HQ, HO, HR
      <4> QED BY <3>8, <3>9, ThenHooks
    <3>11. ((({} \cup HG) \cup HQ) \cup HO) \cup HR = ModelHooks
      BY DEF ModelHooks
    <3> HIDE DEF e
    <3> QED BY <2>2, <3>1, <3>10, <3>11
  <2> QED BY <2>1, <2>2
<1>4. Call(s, f, H0, {})
  <2> HIDE DEF f0, H0
  <2>1. Sound(f0) => Call(f0, of, {}, {}) BY RaiseCall, NoCall DEF RaiseIf
  <2> HIDE DEF of
  <2>2. Call(s, Then(f0, of), H0 \cup {}, {}) BY <1>4a, <2>1, ThenHooks
  <2>3. H0 \cup {} = H0 OBVIOUS
  <2> QED BY <2>2, <2>3
<1> HIDE DEF f
<1>5. Sound(f) /\ Staged(f) BY <1>3, <1>4, StagedLater DEF Call
<1>6. CASE f.raised
  <2>1. t = f BY <1>1, <1>6 DEF Then
  <2> QED BY <1>4, <1>5, <2>1 DEF Call, Later
<1>7. CASE ~f.raised
  <2>1. t = [f EXCEPT !.model = TRUE] BY <1>1, <1>7 DEF Then
  <2>2. /\ Sound(t) /\ t.model
        /\ \A g \in {"registered", "imported", "serving", "scheduling", "finder",
                     "marked", "names", "provider", "raised"} : t[g] = f[g]
    BY <1>5, <2>1, ModelFlag
  <2>3. host.enabled => ModelHooks \subseteq t.marked BY <1>4, <1>7, <2>2 DEF Call
  <2>4. t.registered /\ t.imported /\ ~t.serving BY <1>2, <1>4, <2>2 DEF Call, Later
  <2>5. Staged(t) BY <1>5, <2>2, <2>3, <2>4 DEF Staged
  <2> QED BY <1>4, <2>2, <2>5 DEF Call, Later
<1> QED BY <1>6, <1>7

(* initialize_kv_cache.  The provider changes here and nowhere else.        *)
LEMMA ProviderFlag ==
  ASSUME NEW s, Sound(s), NEW v \in {"none", "set", "bound"},
         NEW t, t = [s EXCEPT !.provider = v]
  PROVE  Sound(t) /\ Later(s, t) /\ t.provider = v /\ t.raised = s.raised
<1>1. s \in ProcState BY DEF Sound
<1>2. /\ t \in ProcState /\ t.provider = v
      /\ \A g \in {"registered", "model", "imported", "serving", "scheduling", "finder",
                   "layers", "marked", "names", "raised"} : t[g] = s[g]
  BY <1>1 DEF ProcState
<1>3. t.finder => host.enabled BY <1>2 DEF Sound
<1>4. Sound(t) BY <1>2, <1>3, SoundSame
<1> QED BY <1>2, <1>4 DEF Later

LEMMA ServingFlag ==
  ASSUME NEW s, Sound(s), NEW t, t = [s EXCEPT !.serving = TRUE]
  PROVE  /\ Sound(t) /\ t.serving
         /\ \A g \in {"registered", "model", "imported", "scheduling", "finder",
                      "marked", "names", "provider", "raised"} : t[g] = s[g]
<1>1. s \in ProcState BY DEF Sound
<1>2. /\ t \in ProcState /\ t.serving
      /\ \A g \in {"registered", "model", "imported", "scheduling", "finder", "layers",
                   "marked", "names", "provider", "raised"} : t[g] = s[g]
  BY <1>1 DEF ProcState
<1>3. t.finder => host.enabled BY <1>2 DEF Sound
<1> QED BY <1>2, <1>3, SoundSame

LEMMA ValidatedCall ==
  ASSUME NEW s, Sound(s)
  PROVE  /\ Call(s, Validated(s), {}, {})
         /\ ~Validated(s).raised => host.fits # "launch" /\ ~host.routedOutput
<1>1. CASE host.fits = "launch" \/ host.routedOutput
  <2>1. Validated(s) = Raise(s) BY <1>1 DEF Validated, RaiseIf
  <2> QED BY <2>1, RaiseCall
<1>2. CASE ~(host.fits = "launch" \/ host.routedOutput)
  <2>1. Validated(s) = s BY <1>2 DEF Validated, RaiseIf
  <2> QED BY <1>2, <2>1, NoCall
<1> QED BY <1>1, <1>2

(* A provider is bound only where the launch and the layout fit.            *)
Fitting == host.fits \in {"yes", "slots", "scheduler"} /\ ~host.routedOutput
LEMMA BoundCall ==
  ASSUME host \in Hosts, NEW s, Sound(s)
  PROVE  /\ Sound(Bound(s)) /\ Later(s, Bound(s))
         /\ ~Bound(s).raised => Fitting /\ Bound(s).provider = "bound"
<1> DEFINE a == Validated(s)
           ob == IF host.fits = "layout" THEN Raise(a) ELSE LayerHost(a)
           b == Then(a, ob)
           ot == [b EXCEPT !.provider = "bound"]
<1>1. Bound(s) = Then(b, ot) BY DEF Bound
<1>2. Call(s, a, {}, {}) /\ (~a.raised => host.fits # "launch" /\ ~host.routedOutput)
  BY ValidatedCall
<1>3. Sound(a) => Call(a, ob, {}, {}) /\ (~ob.raised => host.fits # "layout")
  <2> SUFFICES ASSUME Sound(a) PROVE Call(a, ob, {}, {}) /\ (~ob.raised => host.fits # "layout")
    OBVIOUS
  <2> HIDE DEF a
  <2>1. CASE host.fits = "layout" BY <2>1, RaiseCall
  <2>2. CASE host.fits # "layout"
    <3>1. ob = a \/ ob = Raise(a) BY <2>2 DEF LayerHost
    <3> QED BY <2>2, <3>1, RaiseCall, NoCall
  <2> QED BY <2>1, <2>2
<1>4. Call(s, b, {} \cup {}, {})
  <2> HIDE DEF a, ob
  <2> QED BY <1>2, <1>3, ThenHooks
<1>5. ~b.raised => Fitting
  <2>1. ~b.raised => ~a.raised /\ b = ob BY DEF Then
  <2>2. host.fits \in {"yes", "launch", "layout", "slots", "scheduler"}
    BY HostType DEF Host
  <2>3. Sound(a) BY <1>2 DEF Call
  <2> HIDE DEF a, ob, b
  <2> QED BY <1>2, <1>3, <2>1, <2>2, <2>3 DEF Fitting
<1> HIDE DEF b
<1>6. Sound(b) /\ Later(s, b) BY <1>4 DEF Call
<1>7. Sound(ot) /\ Later(b, ot) /\ ot.provider = "bound"
  <2> HIDE DEF ot
  <2> QED BY <1>6, ProviderFlag DEF ot
<1> HIDE DEF ot
<1>8. CASE b.raised
  <2>1. Bound(s) = b BY <1>1, <1>8 DEF Then
  <2> QED BY <1>6, <1>8, <2>1
<1>9. CASE ~b.raised
  <2>1. Bound(s) = ot BY <1>1, <1>9 DEF Then
  <2> QED BY <1>5, <1>6, <1>7, <1>9, <2>1, LaterTransitive
<1> QED BY <1>8, <1>9

LEMMA StagedBefore ==
  ASSUME NEW s, NEW t, Staged(s), Later(s, t), ~s.serving
  PROVE  Staged(t)
BY DEF Staged, Later

LEMMA InitializedSettles ==
  ASSUME host \in Hosts, NEW s, Settled(s), s.model, ~s.serving,
         NEW torn, NEW t, t = Initialized(s, torn)
  PROVE  Sound(t) /\ Staged(t) /\ t.scheduling = s.scheduling
<1> DEFINE C == CreateMethod(s)
           oa == Validated(C)
           a == Then(C, oa)
           w == [a EXCEPT !.provider = "set"]
           ob == ModelRoutingFlag(w)
           b == Then(a, ob)
           oo == RaiseIf(torn, b)
           o == Then(b, oo)
           oc == Bound(o)
           c == Then(o, oc)
           od == SlotHooks(c)
           d == Then(c, od)
           Flag(x) == "routingFlag" \in x.names
           Fits(x) == Fitting /\ x.provider = "bound"
<1>1. Sound(s) /\ Staged(s) /\ ~s.raised BY DEF Settled
<1>2. s.registered /\ s.imported /\ (host.enabled => ModelHooks \subseteq s.marked)
  BY <1>1 DEF Staged
<1>3. CASE ~host.enabled
  <2>1. s.layers["runner"] = 0 BY <1>2, <1>3, RunnerMarked
  <2>2. CASE torn
    <3>1. Raise(s).raised BY <1>1 DEF Raise, Sound, ProcState
    <3>2. t = Raise(s) BY <2>1, <2>2, <3>1 DEF Initialized, RaiseIf, Then
    <3>3. Call(s, t, {}, {}) BY <1>1, <3>2, RaiseCall
    <3> QED BY <1>1, <3>3, StagedLater DEF Call, Later
  <2>3. CASE ~torn
    <3>1. t = [s EXCEPT !.serving = TRUE]
      BY <1>1, <2>1, <2>3 DEF Initialized, RaiseIf, Then
    <3>2. /\ Sound(t) /\ t.serving
          /\ \A g \in {"registered", "model", "imported", "scheduling", "finder",
                       "marked", "names", "provider", "raised"} : t[g] = s[g]
      BY <1>1, <3>1, ServingFlag
    <3> QED BY <1>1, <1>3, <3>2 DEF Staged
  <2> QED BY <2>2, <2>3
<1>4. CASE host.enabled
  <2>1. s.layers["runner"] # 0 BY <1>2, <1>4, RunnerMarked
  <2>2. t = Then(d, [d EXCEPT !.serving = TRUE]) BY <2>1 DEF Initialized
  <2>3. Call(s, C, {}, {}) BY <1>1, CreateMethodCall
  <2>4. Sound(C) => Call(C, oa, {}, {})
    <3> HIDE DEF C
    <3> QED BY ValidatedCall
  <2>5. Call(s, a, {} \cup {}, {})
    <3> HIDE DEF C, oa
    <3> QED BY <2>3, <2>4, ThenHooks
  <2>6. Sound(a) /\ Later(s, a) BY <2>5 DEF Call
  <2>7. Sound(b) /\ Later(s, b) /\ (~b.raised => Flag(b))
    <3> HIDE DEF a
    <3>1. Sound(w) /\ Later(a, w)
      <4> HIDE DEF w
      <4> QED BY <2>6, ProviderFlag DEF w
    <3>2. Call(w, ob, {}, {"routingFlag"})
      <4> HIDE DEF w
      <4>1. CASE "routingFlag" \in w.names
        <5>1. ob = w BY <4>1 DEF ModelRoutingFlag
        <5> QED BY <3>1, <4>1, <5>1, LaterReflexive DEF Call
      <4>2. CASE "routingFlag" \notin w.names /\ ~host.routedOutput
        <5>1. ob = Add(w, "routingFlag") BY <4>2 DEF ModelRoutingFlag
        <5> QED BY <3>1, <5>1, AddCall DEF Name
      <4>3. CASE "routingFlag" \notin w.names /\ host.routedOutput
        <5>1. ob = Raise(w) BY <4>3 DEF ModelRoutingFlag
        <5> QED BY <3>1, <5>1, RaiseCall
      <4> QED BY <4>1, <4>2, <4>3
    <3> HIDE DEF w, ob
    <3>3. Sound(ob) /\ Later(s, ob) /\ (~ob.raised => Flag(ob))
      BY <2>6, <3>1, <3>2, LaterTransitive DEF Call
    <3>4. (b = a /\ a.raised) \/ b = ob BY DEF Then
    <3> HIDE DEF b, Flag
    <3> QED BY <2>6, <3>3, <3>4
  <2>7a. Sound(o) /\ Later(s, o) /\ (~o.raised => Flag(o))
    <3> HIDE DEF b
    <3>1. Call(b, oo, {}, {}) BY <2>7, RaiseCall, NoCall DEF RaiseIf
    <3> HIDE DEF oo
    <3>2. Sound(oo) /\ Later(s, oo) BY <2>7, <3>1, LaterTransitive DEF Call
    <3>3. Flag(b) => Flag(oo) BY <3>1 DEF Call, Later
    <3>4. (b.raised /\ o = b) \/ (~b.raised /\ o = oo) BY DEF Then
    <3> HIDE DEF o, Flag
    <3> QED BY <2>7, <3>2, <3>3, <3>4
  <2>8. Sound(c) /\ Later(s, c) /\ (~c.raised => Flag(c) /\ Fits(c))
    <3> HIDE DEF o
    <3>1. /\ Sound(oc) /\ Later(o, oc)
          /\ ~oc.raised => Fitting /\ oc.provider = "bound"
      BY <2>7a, BoundCall
    <3> HIDE DEF oc
    <3>2. Later(s, oc) BY <2>7a, <3>1, LaterTransitive
    <3>3. Flag(o) => Flag(oc) BY <3>1 DEF Later
    <3>4. ~oc.raised => Fits(oc) BY <3>1
    <3>5. (o.raised /\ c = o) \/ (~o.raised /\ c = oc) BY DEF Then
    <3> HIDE DEF c, Flag, Fits
    <3> QED BY <2>7a, <3>1, <3>2, <3>3, <3>4, <3>5
  <2>9. /\ Sound(d) /\ Later(s, d)
        /\ ~d.raised => /\ Flag(d) /\ Fits(d) /\ "slots" \in d.marked
                        /\ host.fits # "slots"
    <3> HIDE DEF c
    <3>1. "slots" \in AllowedHooks BY <1>4 DEF AllowedHooks, Needed
    <3>2. Call(c, od, {"slots"}, {}) /\ (~od.raised => host.fits # "slots")
      <4>1. CASE host.fits = "slots"
        <5>1. od = Raise(c) BY <4>1 DEF SlotHooks
        <5>2. Call(c, od, {}, {}) /\ od.raised BY <2>8, <5>1, RaiseCall DEF Raise, Sound, ProcState
        <5> HIDE DEF od
        <5> QED BY <5>2 DEF Call
      <4>2. CASE host.fits # "slots"
        <5>1. od = Wrap(c, "slots") BY <4>2 DEF SlotHooks
        <5> QED BY <2>8, <3>1, <4>2, <5>1, WrapCall
      <4> QED BY <4>1, <4>2
    <3> HIDE DEF od
    <3>3. Sound(od) /\ Later(s, od) BY <2>8, <3>2, LaterTransitive DEF Call
    <3>4. ~od.raised => "slots" \in od.marked BY <3>2 DEF Call
    <3>5. Flag(c) => Flag(od) BY <3>2 DEF Call, Later
    <3>6. Fits(c) => Fits(od) BY <3>2 DEF Call
    <3>7. (c.raised /\ d = c) \/ (~c.raised /\ d = od) BY DEF Then
    <3> HIDE DEF d, Flag, Fits
    <3> QED BY <2>8, <3>2, <3>3, <3>4, <3>5, <3>6, <3>7
  <2> HIDE DEF d
  <2>10. Staged(d) BY <1>1, <2>9, StagedBefore
  <2>11. CASE d.raised
    <3>1. t = d BY <2>2, <2>11 DEF Then
    <3> QED BY <2>9, <2>10, <3>1 DEF Later
  <2>12. CASE ~d.raised
    <3>1. t = [d EXCEPT !.serving = TRUE] BY <2>2, <2>12 DEF Then
    <3>2. /\ Sound(t) /\ t.serving
          /\ \A g \in {"registered", "model", "imported", "scheduling", "finder",
                       "marked", "names", "provider", "raised"} : t[g] = d[g]
      BY <2>9, <3>1, ServingFlag
    <3>3. t.model BY <2>9, <3>2 DEF Later
    <3>4. Staged(t) BY <2>9, <2>10, <2>12, <3>2, <3>3 DEF Staged, Fitting
    <3> QED BY <2>9, <3>2, <3>4 DEF Later
  <2> QED BY <2>11, <2>12
<1> QED BY <1>3, <1>4

(* Scheduler.__init__.                                                      *)
LEMMA SchedulingFlag ==
  ASSUME NEW s, Sound(s), NEW t, t = [s EXCEPT !.scheduling = TRUE]
  PROVE  /\ Sound(t) /\ t.scheduling
         /\ \A g \in {"registered", "model", "imported", "serving", "finder",
                      "marked", "names", "provider", "raised"} : t[g] = s[g]
<1>1. s \in ProcState BY DEF Sound
<1>2. /\ t \in ProcState /\ t.scheduling
      /\ \A g \in {"registered", "model", "imported", "serving", "finder", "layers",
                   "marked", "names", "provider", "raised"} : t[g] = s[g]
  BY <1>1 DEF ProcState
<1>3. t.finder => host.enabled BY <1>2 DEF Sound
<1> QED BY <1>2, <1>3, SoundSame

LEMMA SchedulerMarked ==
  ASSUME NEW s, Settled(s), s.registered
  PROVE  s.layers["scheduler"] = (IF host.enabled THEN 1 ELSE 0)
<1>1. s.layers["scheduler"] = IF "scheduler" \in s.marked THEN 1 ELSE 0
  BY DEF Settled, Sound, Seam
<1>2. "scheduler" \in s.marked <=> host.enabled
  BY DEF Settled, Sound, Staged, AllowedHooks, RegisterHooks
<1> QED BY <1>1, <1>2

LEMMA SchedulerBuiltSettles ==
  ASSUME host \in Hosts, NEW s, Settled(s), s.registered, NEW t, t = SchedulerBuilt(s)
  PROVE  Sound(t) /\ Staged(t) /\ t.serving = s.serving
<1> DEFINE a == IF host.method = "triattention" THEN s ELSE CreateMethod(s)
           o == SchedulerHost(a)
           c == Then(a, o)
           ob == CoordinatorHooks(c)
           b == Then(c, ob)
           H == IF host.aligned THEN {"coordinator"} ELSE {}
<1>1. Sound(s) /\ Staged(s) /\ ~s.raised BY DEF Settled
<1>2. CASE ~host.enabled
  <2>1. s.layers["scheduler"] = 0 BY <1>2, SchedulerMarked
  <2>2. t = [s EXCEPT !.scheduling = TRUE] BY <2>1 DEF SchedulerBuilt
  <2>3. /\ Sound(t) /\ t.scheduling
        /\ \A g \in {"registered", "model", "imported", "serving", "finder",
                     "marked", "names", "provider", "raised"} : t[g] = s[g]
    BY <1>1, <2>2, SchedulingFlag
  <2> QED BY <1>1, <1>2, <2>3 DEF Staged
<1>3. CASE host.enabled
  <2>1. s.layers["scheduler"] # 0 BY <1>3, SchedulerMarked
  <2>2. t = Then(b, [b EXCEPT !.scheduling = TRUE]) BY <2>1 DEF SchedulerBuilt
  <2>3. Call(s, a, {}, {}) BY <1>1, CreateMethodCall, NoCall
  <2>3a. Call(s, c, {} \cup {}, {}) /\ (~c.raised => host.fits # "scheduler")
    <3> HIDE DEF a
    <3>1. Sound(a) => Call(a, o, {}, {}) BY RaiseCall, NoCall DEF SchedulerHost, RaiseIf
    <3>2. Sound(a) /\ ~o.raised => host.fits # "scheduler"
      BY DEF SchedulerHost, RaiseIf, Raise, Sound, ProcState
    <3>3. ~c.raised => c = o BY DEF Then
    <3>4. Sound(a) BY <2>3 DEF Call
    <3> HIDE DEF o
    <3>5. Call(s, c, {} \cup {}, {}) BY <2>3, <3>1, ThenHooks
    <3> HIDE DEF c
    <3> QED BY <3>2, <3>3, <3>4, <3>5
  <2>4. Sound(c) => Call(c, ob, H, {})
    <3>1. "coordinator" \in AllowedHooks BY <1>3 DEF AllowedHooks
    <3> HIDE DEF c
    <3> QED BY <3>1, WrapCall, NoCall DEF CoordinatorHooks
  <2>5. Call(s, b, ({} \cup {}) \cup H, {})
    <3> HIDE DEF c, ob, H
    <3> QED BY <2>3a, <2>4, ThenHooks
  <2> HIDE DEF b
  <2>6. Sound(b) /\ Staged(b) BY <1>1, <2>5, StagedLater DEF Call
  <2>7. CASE b.raised
    <3>1. t = b BY <2>2, <2>7 DEF Then
    <3> QED BY <2>5, <2>6, <3>1 DEF Call, Later
  <2>8. CASE ~b.raised
    <3>1. t = [b EXCEPT !.scheduling = TRUE] BY <2>2, <2>8 DEF Then
    <3>2. /\ Sound(t) /\ t.scheduling
          /\ \A g \in {"registered", "model", "imported", "serving", "finder",
                       "marked", "names", "provider", "raised"} : t[g] = b[g]
      BY <2>6, <3>1, SchedulingFlag
    <3>3. t.registered BY <2>5, <3>2 DEF Call, Later
    <3>4. host.aligned => "coordinator" \in t.marked BY <2>5, <2>8, <3>2 DEF Call
    <3>5. host.fits # "scheduler"
      <4>1. ~c.raised BY <2>8 DEF b, Then
      <4> QED BY <2>3a, <4>1
    <3>6. Staged(t) BY <2>6, <3>2, <3>3, <3>4, <3>5 DEF Staged
    <3> QED BY <2>5, <3>2, <3>6 DEF Call, Later
  <2> QED BY <2>7, <2>8
<1> QED BY <1>2, <1>3

(* A call of process p that settles and keeps what other processes rely on. *)
LEMMA CallKeeps ==
  ASSUME ActInv, NEW p \in Proc, NEW t, Sound(t), Staged(t), Ends(p, t),
         proc[p].serving => t.serving,
         t.scheduling => proc[p].scheduling \/ \A r \in host.ranks : proc[r].serving,
         host' = host, failures' \in 0..MaxFailures
  PROVE  ActInv'
<1> DEFINE u == [t EXCEPT !.raised = FALSE]
<1>1. /\ Settled(u) /\ u \in ProcState
      /\ u.serving = t.serving /\ u.scheduling = t.scheduling
  BY EndSettles
<1>2. proc' = [proc EXCEPT ![p] = u] BY DEF Ends
<1> HIDE DEF u
<1>3. proc \in [Proc -> ProcState] /\ proc' \in [Proc -> ProcState]
  BY <1>1, <1>2 DEF ActInv
<1>4. \A q \in Proc : proc'[q] = IF q = p THEN u ELSE proc[q]
  BY <1>2, <1>3
<1>5. \A s : Settled(s)' <=> Settled(s)
  BY DEF Settled, Sound, Staged, Shimmed, AllowedHooks, Needed, RegisterHooks, ModelHooks
<1>6. \A q \in Proc : Settled(proc'[q]) BY <1>1, <1>4 DEF ActInv
<1>7. \A q \in Proc : Settled(proc[q])' BY <1>5, <1>6
<1>8. Engine \in Proc /\ host.ranks \subseteq Proc
  BY ActivationAssumption, HostType DEF Host, ActInv
<1>9. \A q \in Proc : proc[q].serving => proc'[q].serving BY <1>1, <1>4
<1>10. proc'[Engine].scheduling => \A r \in host.ranks : proc'[r].serving
  <2> SUFFICES ASSUME proc'[Engine].scheduling, NEW r \in host.ranks
               PROVE  proc'[r].serving
    OBVIOUS
  <2>1. proc[Engine].scheduling \/ \A q \in host.ranks : proc[q].serving
    BY <1>1, <1>4, <1>8
  <2>2. proc[r].serving BY <2>1 DEF ActInv
  <2> QED BY <1>8, <1>9, <2>2
<1>11. host \in Hosts BY DEF ActInv
<1> QED BY <1>3, <1>7, <1>10, <1>11 DEF ActInv

(* Every step of the activation keeps the invariant.                        *)
LEMMA ActStep == ActInv /\ [ActNext]_actVars => ActInv'
<1> SUFFICES ASSUME ActInv, [ActNext]_actVars PROVE ActInv'
  OBVIOUS
<1>1. /\ host \in Hosts /\ Engine \in Proc /\ host.ranks \subseteq Proc
      /\ failures \in 0..MaxFailures /\ MaxFailures \in Nat
      /\ \A p \in Proc : Settled(proc[p])
  BY ActivationAssumption, HostType DEF Host, ActInv
<1>2. ASSUME NEW p \in Proc, NEW torn \in {"none", "triton", "core", "stateful"},
             Register(p, torn)
      PROVE  ActInv'
  <2> DEFINE t == Registered(proc[p], torn)
  <2>1. /\ Sound(t) /\ Staged(t)
        /\ t.serving = proc[p].serving /\ t.scheduling = proc[p].scheduling
    BY <1>1, RegisteredSettles
  <2>2. Ends(p, t) /\ host' = host BY <1>2 DEF Register
  <2>3. failures' \in 0..MaxFailures BY <1>1, <1>2 DEF Register, Fails
  <2> HIDE DEF t
  <2> QED BY <2>1, <2>2, <2>3, CallKeeps
<1>3. ASSUME NEW p \in host.ranks, NEW torn \in BOOLEAN, ImportRunner(p, torn)
      PROVE  ActInv'
  <2> DEFINE t == Imported(proc[p], torn)
  <2>1. p \in Proc BY <1>1
  <2>2. ~proc[p].imported BY <1>3 DEF ImportRunner
  <2>3. /\ Sound(t) /\ Staged(t)
        /\ t.serving = proc[p].serving /\ t.scheduling = proc[p].scheduling
    BY <1>1, <2>1, <2>2, ImportedSettles
  <2>4. Ends(p, t) /\ host' = host BY <1>3 DEF ImportRunner
  <2>5. failures' \in 0..MaxFailures BY <1>1, <1>3 DEF ImportRunner, Fails
  <2> HIDE DEF t
  <2> QED BY <2>1, <2>3, <2>4, <2>5, CallKeeps
<1>4. ASSUME NEW p \in host.ranks, NEW torn \in BOOLEAN, LoadModel(p, torn)
      PROVE  ActInv'
  <2> DEFINE t == Loaded(proc[p], torn)
  <2>1. p \in Proc BY <1>1
  <2>2. proc[p].registered /\ proc[p].imported /\ ~proc[p].model
    BY <1>4 DEF LoadModel
  <2>3. /\ Sound(t) /\ Staged(t)
        /\ t.serving = proc[p].serving /\ t.scheduling = proc[p].scheduling
    BY <1>1, <2>1, <2>2, LoadedSettles
  <2>4. Ends(p, t) /\ host' = host BY <1>4 DEF LoadModel
  <2>5. failures' \in 0..MaxFailures BY <1>1, <1>4 DEF LoadModel, Fails
  <2> HIDE DEF t
  <2> QED BY <2>1, <2>3, <2>4, <2>5, CallKeeps
<1>5. ASSUME NEW p \in host.ranks, NEW torn \in BOOLEAN, InitializeKVCache(p, torn)
      PROVE  ActInv'
  <2> DEFINE t == Initialized(proc[p], torn)
  <2>1. p \in Proc BY <1>1
  <2>2. proc[p].model /\ ~proc[p].serving BY <1>5 DEF InitializeKVCache
  <2>3. Sound(t) /\ Staged(t) /\ t.scheduling = proc[p].scheduling
    BY <1>1, <2>1, <2>2, InitializedSettles
  <2>4. Ends(p, t) /\ host' = host BY <1>5 DEF InitializeKVCache
  <2>5. failures' \in 0..MaxFailures BY <1>1, <1>5 DEF InitializeKVCache, Fails
  <2> HIDE DEF t
  <2> QED BY <2>1, <2>2, <2>3, <2>4, <2>5, CallKeeps
<1>6. CASE BuildScheduler
  <2> DEFINE t == SchedulerBuilt(proc[Engine])
  <2>1. proc[Engine].registered /\ \A r \in host.ranks : proc[r].serving
    BY <1>6 DEF BuildScheduler
  <2>2. Sound(t) /\ Staged(t) /\ t.serving = proc[Engine].serving
    BY <1>1, <2>1, SchedulerBuiltSettles
  <2>3. Ends(Engine, t) /\ host' = host /\ failures' = failures
    BY <1>6 DEF BuildScheduler
  <2> HIDE DEF t
  <2> QED BY <1>1, <2>1, <2>2, <2>3, CallKeeps
<1>7. CASE UNCHANGED actVars
  BY <1>7 DEF actVars, ActInv, Settled, Sound, Staged, Shimmed, AllowedHooks, Needed,
              RegisterHooks, ModelHooks
<1> QED BY <1>2, <1>3, <1>4, <1>5, <1>6, <1>7 DEF ActNext

(* A process that has called nothing is settled.                            *)
LEMMA ActBegins == ActInit => ActInv
<1> SUFFICES ASSUME ActInit PROVE ActInv
  OBVIOUS
<1> DEFINE fresh ==
       [layers |-> [x \in Seam |-> 0], marked |-> {}, names |-> host.names,
        finder |-> FALSE, imported |-> FALSE, loadedOnce |-> FALSE,
        factories |-> {"triattention"}, registered |-> FALSE, model |-> FALSE,
        provider |-> "none", serving |-> FALSE, scheduling |-> FALSE, raised |-> FALSE]
<1>1. host \in Host BY HostType DEF ActInit
<1>2. host.names \in SUBSET (Name \cup {"half"}) BY <1>1 DEF Host
<1>3. fresh \in ProcState BY <1>2 DEF ProcState
<1>4. /\ fresh.layers = [x \in Seam |-> 0] /\ fresh.marked = {} /\ ~fresh.finder
      /\ ~fresh.registered /\ ~fresh.model /\ ~fresh.serving /\ ~fresh.scheduling
      /\ ~fresh.raised
  OBVIOUS
<1>5. proc = [p \in Proc |-> fresh] BY DEF ActInit
<1> HIDE DEF fresh
<1>6. Settled(fresh) BY <1>3, <1>4 DEF Settled, Sound, Staged
<1>7. Engine \in Proc BY ActivationAssumption
<1> QED BY <1>3, <1>4, <1>5, <1>6, <1>7 DEF ActInit, ActInv

(* The invariant holds what the runs check.                                 *)
LEMMA ActInvHooks == ActInv => ServingIsHooked /\ ActTypeOK
<1> SUFFICES ASSUME ActInv PROVE ServingIsHooked /\ ActTypeOK
  OBVIOUS
<1>1. ActTypeOK BY DEF ActInv, ActTypeOK, Settled
<1>2. /\ Engine \in Proc /\ host.ranks \subseteq Proc
      /\ \A p \in Proc : Sound(proc[p]) /\ Staged(proc[p])
  BY ActivationAssumption, HostType DEF Host, ActInv, Settled
<1>3. Needed \subseteq Seam BY DEF Needed, Seam
<1>4. ASSUME NEW p \in Proc, NEW x \in Seam
      PROVE  proc[p].layers[x] <= IF host.enabled /\ (x \in Needed \cup {"coordinator"})
                                  THEN 1 ELSE 0
  <2>1. proc[p].layers[x] = IF x \in proc[p].marked THEN 1 ELSE 0 BY <1>2 DEF Sound
  <2>2. x \in proc[p].marked => host.enabled /\ x \in Needed \cup {"coordinator"}
    BY <1>2 DEF Sound, AllowedHooks
  <2> QED BY <2>1, <2>2
<1>5. ASSUME host.enabled, NEW p \in host.ranks, proc[p].serving
      PROVE  /\ host.fits \in {"yes", "scheduler"} /\ ~host.routedOutput
             /\ proc[p].provider = "bound"
             /\ \A x \in Needed : proc[p].layers[x] = 1
             /\ {"step3p5", "dcp", "routingFlag"} \subseteq proc[p].names
  <2> DEFINE s == proc[p]
  <2>1. Sound(s) /\ Staged(s) BY <1>2
  <2> HIDE DEF s
  <2>2. s.serving BY <1>5 DEF s
  <2>3. /\ host.fits \in {"yes", "scheduler"} /\ ~host.routedOutput /\ s.provider = "bound"
        /\ "slots" \in s.marked /\ "routingFlag" \in s.names
        /\ RegisterHooks \subseteq s.marked /\ ModelHooks \subseteq s.marked
        /\ "runner" \in s.marked
    BY <1>5, <2>1, <2>2 DEF Staged
  <2>4. Shimmed(s) BY <2>1, <2>3 DEF Sound
  <2>5. Needed = {"runner", "slots", "gdnBuild"} \cup RegisterHooks \cup ModelHooks
                   \cup ({"output", "asyncOutput"} \ host.accepts)
    BY DEF Needed, RegisterHooks, ModelHooks
  <2>6. Needed \subseteq s.marked BY <2>3, <2>4, <2>5 DEF Shimmed
  <2>7. \A x \in Needed : s.layers[x] = 1 BY <1>3, <2>1, <2>6 DEF Sound
  <2> QED BY <2>3, <2>4, <2>7 DEF s, Shimmed
<1>6. ASSUME host.enabled, proc[Engine].scheduling
      PROVE  /\ host.fits # "scheduler"
             /\ proc[Engine].layers["scheduler"] = 1 /\ proc[Engine].layers["manager"] = 1
             /\ host.aligned => proc[Engine].layers["coordinator"] = 1
  <2>1. /\ {"manager", "scheduler"} \subseteq proc[Engine].marked
        /\ host.fits # "scheduler"
        /\ host.aligned => "coordinator" \in proc[Engine].marked
    BY <1>2, <1>6 DEF Staged, RegisterHooks
  <2> QED BY <1>2, <2>1 DEF Sound, Seam
<1> QED BY <1>1, <1>4, <1>5, <1>6 DEF ServingIsHooked

(* Whatever fails on the way, a process that serves has a bound provider    *)
(* and every hook its configuration needs exactly once.                     *)
THEOREM HookedCorrect == ActSpec => [](ServingIsHooked /\ ActTypeOK)
BY ActBegins, ActStep, ActInvHooks, PTL DEF ActSpec

----------------------------------------------------------------------------
(* Qualification.  Every rank owes one acknowledgement per commit: it has   *)
(* been logged, or the rank is still to write it, or the commit was dropped *)
(* and never will be.                                                       *)

WaitingIn(o) == {w \in Case \X Rank : w[2] \in o[w[1]]}
Owed == Cardinality(WaitingIn(outstanding))
Ranks == Cardinality(run.ranks)

QualTypes ==
  /\ run \in Runs
  /\ outcome \in [Case -> Outcome]
  /\ outstanding \in [Case -> SUBSET run.ranks]
  /\ commits \in Nat /\ acks \in Nat /\ missing \in Nat
  /\ client \in {"starting", "running", "measured", "died", "reading", "written"}
  /\ evidence \in [commits: Nat, acks: Nat, size: Nat]
  /\ offset \in [commits: Nat, acks: Nat, missing: Nat, quiet: BOOLEAN]
Tally ==
  /\ acks + Owed + missing * Ranks = commits * Ranks
  /\ Ranks = 0 => missing = 0
(* A request that has not begun, or that was answered whole, has no         *)
(* acknowledgement on its way.                                              *)
Silent == \A c \in Case : Quiet(c) => outstanding[c] = {}
(* Only the requests of this run and the earlier ones are ever sent; those  *)
(* that were answered before this run began stay answered.                  *)
Apart ==
  /\ \A c \in Case : c \notin run.cases \cup run.earlier => outcome[c] = "waiting"
  /\ client = "starting" => \A c \in run.cases : outcome[c] = "waiting"
  /\ client # "starting" /\ offset.quiet => \A c \in run.earlier : Quiet(c)
(* What the log held when the run began.                                    *)
Origin ==
  /\ offset.commits <= commits /\ offset.acks <= acks /\ offset.missing <= missing
  /\ client # "starting" /\ offset.quiet =>
       offset.acks + offset.missing * Ranks = offset.commits * Ranks
(* All requests have ended when main() goes on, and if all were answered    *)
(* and the service was quiet before them the log no longer grows.           *)
Undisturbed == offset.quiet /\ \A c \in run.cases : Quiet(c)
Read ==
  /\ client \in {"measured", "reading", "written"} => In({"sent"}) = {}
  /\ Undisturbed =>
       /\ client = "reading" => evidence.size = commits + acks
       /\ client = "written" /\ run.log = "file" =>
            evidence = [commits |-> OwnCommits, acks |-> OwnAcks, size |-> commits + acks]
(* Without a log nothing has been counted.                                  *)
Blank == run.log # "file" => evidence = NoEvidence /\ client # "reading"

(* The inductive invariant of the qualification.                            *)
QualInv == QualTypes /\ Tally /\ Silent /\ Apart /\ Origin /\ Read /\ Blank

LEMMA RunType ==
  ASSUME run \in Runs
  PROVE  /\ run \in Run /\ run.cases \subseteq Case /\ run.ranks \subseteq Rank
         /\ run.earlier \subseteq Case /\ run.cases \cap run.earlier = {}
         /\ IsFiniteSet(run.ranks) /\ Ranks \in Nat
<1>1. run \in Run BY QualificationAssumption
<1>2. run.cases \subseteq Case /\ run.earlier \subseteq Case /\ run.ranks \subseteq Rank
  BY <1>1 DEF Run
<1>3. IsFiniteSet(run.ranks) BY <1>2, QualificationAssumption, FS_Subset
<1>4. run.cases \cap run.earlier = {} BY QualificationAssumption
<1> QED BY <1>1, <1>2, <1>3, <1>4, FS_CardinalityType DEF Ranks

(* Counting what is owed.                                                   *)
LEMMA WaitingFinite ==
  ASSUME NEW o
  PROVE  IsFiniteSet(WaitingIn(o)) /\ Cardinality(WaitingIn(o)) \in Nat
<1>1. IsFiniteSet(Case \X Rank) BY QualificationAssumption, FS_Product
<1>2. WaitingIn(o) \in SUBSET (Case \X Rank) BY DEF WaitingIn
<1>3. IsFiniteSet(WaitingIn(o)) BY <1>1, <1>2, FS_Subset
<1> QED BY <1>3, FS_CardinalityType

LEMMA OwedType == Owed \in Nat
BY WaitingFinite DEF Owed

LEMMA AskAll ==
  ASSUME NEW o, NEW q, NEW c \in Case, NEW K \in SUBSET Rank,
         DOMAIN o = Case, o[c] = {}, q = [o EXCEPT ![c] = K]
  PROVE  Cardinality(WaitingIn(q)) = Cardinality(WaitingIn(o)) + Cardinality(K)
<1> DEFINE asked == {c} \X K
<1>1. IsFiniteSet(K) BY QualificationAssumption, FS_Subset
<1>2. IsFiniteSet({c}) /\ Cardinality({c}) = 1 BY FS_Singleton
<1>3. IsFiniteSet(asked) /\ Cardinality(asked) = Cardinality(K)
  <2>1. Cardinality(asked) = Cardinality({c}) * Cardinality(K) /\ IsFiniteSet(asked)
    BY <1>1, <1>2, FS_Product
  <2>2. Cardinality(K) \in Nat BY <1>1, FS_CardinalityType
  <2> QED BY <1>2, <2>1, <2>2
<1>4. WaitingIn(q) = WaitingIn(o) \cup asked BY DEF WaitingIn
<1>5. WaitingIn(o) \cap asked = {} BY DEF WaitingIn
<1> HIDE DEF asked
<1>6. Cardinality(WaitingIn(o) \cup asked)
        = Cardinality(WaitingIn(o)) + Cardinality(asked) - Cardinality(WaitingIn(o) \cap asked)
  BY <1>3, WaitingFinite, FS_Union
<1>7. Cardinality(WaitingIn(o)) \in Nat /\ Cardinality(K) \in Nat
  BY <1>1, WaitingFinite, FS_CardinalityType
<1>8. Cardinality(WaitingIn(o) \cap asked) = 0 BY <1>5, FS_EmptySet
<1>9. Cardinality(WaitingIn(q)) = Cardinality(WaitingIn(o) \cup asked) BY <1>4
<1> QED BY <1>3, <1>6, <1>7, <1>8, <1>9

LEMMA DropAll ==
  ASSUME NEW o, NEW q, NEW c \in Case, NEW K \in SUBSET Rank,
         DOMAIN o = Case, o[c] = K, o = [x \in Case |-> o[x]], q = [o EXCEPT ![c] = {}]
  PROVE  Cardinality(WaitingIn(o)) = Cardinality(WaitingIn(q)) + Cardinality(K)
<1>1. DOMAIN q = Case /\ q[c] = {} OBVIOUS
<1>2. o = [q EXCEPT ![c] = K] OBVIOUS
<1> QED BY <1>1, <1>2, AskAll

LEMMA DropOne ==
  ASSUME NEW o, NEW q, NEW c \in Case, NEW k \in Rank,
         DOMAIN o = Case, k \in o[c], q = [o EXCEPT ![c] = @ \ {k}]
  PROVE  Cardinality(WaitingIn(o)) = Cardinality(WaitingIn(q)) + 1
<1>1. WaitingIn(q) = WaitingIn(o) \ {<<c, k>>} BY DEF WaitingIn
<1>2. <<c, k>> \in WaitingIn(o) BY DEF WaitingIn
<1>3. Cardinality(WaitingIn(q)) = Cardinality(WaitingIn(o)) - 1
  BY <1>1, <1>2, WaitingFinite, FS_RemoveElement
<1> QED BY <1>3, WaitingFinite

LEMMA QualBegins == QualInit => QualInv
<1> SUFFICES ASSUME QualInit PROVE QualInv
  OBVIOUS
<1>1. WaitingIn(outstanding) = {} BY DEF QualInit, WaitingIn
<1>2. Owed = 0 BY <1>1, FS_EmptySet DEF Owed
<1>3. Ranks \in Nat BY RunType DEF QualInit
<1>4. QualTypes BY DEF QualInit, QualTypes, Outcome, NoEvidence
<1>5. Tally BY <1>2, <1>3 DEF QualInit, Tally
<1>6. Silent /\ Apart /\ Read /\ Blank
  BY RunType DEF QualInit, Silent, Apart, Read, Blank, Undisturbed
<1>7. Origin BY DEF QualInit, Origin
<1> QED BY <1>4, <1>5, <1>6, <1>7 DEF QualInv

LEMMA OneMore == \A m, r \in Nat : (m + 1) * r = m * r + r /\ m * r \in Nat
OBVIOUS

(* What only moves a request or the client on.                              *)
LEMMA TallySame ==
  ASSUME QualInv, UNCHANGED <<run, outstanding, commits, acks, missing>>
  PROVE  Tally'
BY DEF QualInv, Tally, Owed, Ranks

LEMMA SendKeeps ==
  ASSUME QualInv, NEW c \in Case, SendEarlier(c) \/ Submit(c)
  PROVE  QualInv'
<1>1. /\ UNCHANGED <<run, outstanding, commits, acks, missing, client, offset, evidence>>
      /\ outcome' = [outcome EXCEPT ![c] = "sent"] /\ outcome[c] = "waiting"
      /\ (client = "starting" /\ c \in run.earlier) \/ (client = "running" /\ c \in run.cases)
  BY DEF SendEarlier, Submit, Send
<1>2. QualTypes' BY <1>1 DEF QualInv, QualTypes, Outcome
<1>3. Tally' BY <1>1, TallySame
<1>4. \A x \in Case : outcome'[x] = IF x = c THEN "sent" ELSE outcome[x]
  BY <1>1 DEF QualInv, QualTypes
<1>5. \A x \in Case : Quiet(x)' => x # c /\ Quiet(x) BY <1>4 DEF Quiet
<1>6. Silent' BY <1>1, <1>5 DEF QualInv, Silent
<1>7. run.cases \subseteq Case /\ run.earlier \subseteq Case /\ run.cases \cap run.earlier = {}
  BY RunType DEF QualInv, QualTypes
<1>8. Apart'
  <2>1. \A x \in run.earlier : client # "starting" => x # c BY <1>1, <1>7
  <2>2. \A x \in run.earlier : client # "starting" /\ Quiet(x) => Quiet(x)'
    BY <1>4, <1>7, <2>1 DEF Quiet
  <2>3. client = "starting" => \A x \in run.cases : outcome'[x] = "waiting"
    BY <1>1, <1>4, <1>7 DEF QualInv, Apart
  <2> QED BY <1>1, <1>4, <2>2, <2>3 DEF QualInv, Apart
<1>9. Origin' BY <1>1 DEF QualInv, Origin, Ranks
<1>10. Read' BY <1>1 DEF Read
<1>11. Blank' BY <1>1 DEF QualInv, Blank
<1> QED BY <1>2, <1>3, <1>6, <1>8, <1>9, <1>10, <1>11 DEF QualInv

LEMMA ReturnKeeps ==
  ASSUME QualInv, NEW c \in Case, NEW o \in Ended, Return(c, o)
  PROVE  QualInv'
<1>1. /\ UNCHANGED <<run, outstanding, commits, acks, missing, client, offset, evidence>>
      /\ outcome' = [outcome EXCEPT ![c] = o] /\ outcome[c] = "sent"
      /\ o \in {"served", "wrong", "short"} => outstanding[c] = {}
  BY DEF Return
<1>2. QualTypes' BY <1>1 DEF QualInv, QualTypes, Outcome
<1>3. Tally' BY <1>1, TallySame
<1>4. \A x \in Case : outcome'[x] = IF x = c THEN o ELSE outcome[x]
  BY <1>1 DEF QualInv, QualTypes
<1>5. \A x \in Case : Quiet(x)' => Quiet(x) \/ (x = c /\ o \in {"served", "wrong", "short"})
  BY <1>4 DEF Quiet, Ended
<1>6. Silent' BY <1>1, <1>5 DEF QualInv, Silent
<1>7. ~Quiet(c) BY <1>1 DEF Quiet
<1>8. run.cases \subseteq Case /\ run.earlier \subseteq Case
  BY RunType DEF QualInv, QualTypes
<1>9. Apart'
  <2>1. \A x \in run.earlier : Quiet(x) => Quiet(x)' BY <1>4, <1>7, <1>8 DEF Quiet
  <2>2. c \in run.cases \cup run.earlier BY <1>1 DEF QualInv, Apart
  <2>3. client = "starting" => \A x \in run.cases : outcome'[x] = "waiting"
    BY <1>1, <1>4, <1>8 DEF QualInv, Apart
  <2> QED BY <1>1, <1>4, <2>1, <2>2, <2>3 DEF QualInv, Apart
<1>10. Origin' BY <1>1 DEF QualInv, Origin, Ranks
<1>11. Read'
  <2>1. SUFFICES ASSUME client \in {"measured", "reading", "written"}
                 PROVE  In({"sent"})' = {} /\ Undisturbed' = Undisturbed
    BY <1>1, <2>1 DEF QualInv, Read, OwnCommits, OwnAcks
  <2>2. In({"sent"}) = {} BY <2>1 DEF QualInv, Read
  <2>3. c \notin run.cases BY <1>1, <2>2 DEF In
  <2>4. \A x \in run.cases : outcome'[x] = outcome[x] BY <1>4, <1>8, <2>3
  <2> QED BY <1>1, <2>2, <2>4 DEF In, Undisturbed, Quiet
<1>12. Blank' BY <1>1 DEF QualInv, Blank
<1> QED BY <1>2, <1>3, <1>6, <1>9, <1>10, <1>11, <1>12 DEF QualInv

(* A line is logged for a request that is not quiet: not while the run is   *)
(* undisturbed.                                                             *)
LEMMA LineKeeps ==
  ASSUME QualInv, NEW c \in Case, ~Quiet(c),
         UNCHANGED <<run, outcome, client, offset, evidence>>,
         \A x \in Case : x # c => outstanding'[x] = outstanding[x],
         commits' \in Nat, acks' \in Nat, missing' \in Nat,
         commits' >= commits, acks' >= acks, missing' >= missing
  PROVE  Silent' /\ Apart' /\ Origin' /\ Read' /\ Blank'
<1>1. \A x : Quiet(x)' = Quiet(x) BY DEF Quiet
<1>2. Silent' BY <1>1 DEF QualInv, Silent
<1>3. Apart' BY <1>1 DEF QualInv, Apart
<1>4. Origin'
  <2>1. /\ commits \in Nat /\ acks \in Nat /\ missing \in Nat
        /\ offset.commits \in Nat /\ offset.acks \in Nat /\ offset.missing \in Nat
        /\ offset.commits <= commits /\ offset.acks <= acks /\ offset.missing <= missing
    BY DEF QualInv, QualTypes, Origin
  <2>2. /\ offset.commits <= commits' /\ offset.acks <= acks' /\ offset.missing <= missing'
    BY <2>1
  <2> QED BY <2>2 DEF QualInv, Origin, Ranks
<1>5. c \in run.cases \cup run.earlier
  <2>1. outcome[c] # "waiting" BY DEF Quiet
  <2> QED BY <2>1 DEF QualInv, Apart
<1>6. client # "starting" => ~Undisturbed BY <1>5 DEF QualInv, Apart, Undisturbed
<1>7. Read'
  <2>1. Undisturbed' = Undisturbed BY <1>1 DEF Undisturbed
  <2>2. In({"sent"})' = In({"sent"}) BY DEF In
  <2> QED BY <1>6, <2>1, <2>2 DEF QualInv, Read
<1>8. Blank' BY DEF QualInv, Blank
<1> QED BY <1>2, <1>3, <1>4, <1>7, <1>8

(* The service logs.                                                        *)
LEMMA CommitKeeps ==
  ASSUME QualInv, NEW c \in Case, Commit(c, run.ranks)
  PROVE  QualInv'
<1>1. QualTypes' BY DEF Commit, QualInv, QualTypes
<1>2. /\ run.ranks \in SUBSET Rank /\ Ranks \in Nat /\ Owed \in Nat
      /\ commits \in Nat /\ acks \in Nat /\ missing \in Nat
  BY RunType, OwedType DEF QualInv, QualTypes
<1>3. Owed' = Owed + Ranks
  <2>1. outstanding' = [outstanding EXCEPT ![c] = run.ranks] /\ outstanding[c] = {}
    BY DEF Commit
  <2>2. DOMAIN outstanding = Case BY DEF QualInv, QualTypes
  <2> QED BY <1>2, <2>1, <2>2, AskAll DEF Owed, Ranks
<1>4. Tally'
  <2>1. /\ commits' = commits + 1 /\ acks' = acks /\ missing' = missing /\ run' = run
        /\ Ranks' = Ranks
    BY DEF Commit, Ranks
  <2>2. /\ acks + Owed + missing * Ranks = commits * Ranks
        /\ Ranks = 0 => missing = 0
    BY DEF QualInv, Tally
  <2>3. (commits + 1) * Ranks = commits * Ranks + Ranks BY <1>2, OneMore
  <2>4. missing * Ranks \in Nat /\ commits * Ranks \in Nat BY <1>2, OneMore
  <2>5. acks + (Owed + Ranks) + missing * Ranks = (commits + 1) * Ranks
    BY <1>2, <2>2, <2>3, <2>4
  <2> QED BY <1>3, <2>1, <2>2, <2>5 DEF Tally
<1>5. Silent' /\ Apart' /\ Origin' /\ Read' /\ Blank'
  <2>1. \A x \in Case : x # c => outstanding'[x] = outstanding[x]
    BY DEF Commit, QualInv, QualTypes
  <2>2. ~Quiet(c) /\ UNCHANGED <<run, outcome, client, offset, evidence>> BY DEF Commit
  <2>3. /\ commits' \in Nat /\ acks' \in Nat /\ missing' \in Nat
        /\ commits' >= commits /\ acks' >= acks /\ missing' >= missing
    BY <1>2 DEF Commit
  <2> QED BY <2>1, <2>2, <2>3, LineKeeps
<1> QED BY <1>1, <1>4, <1>5 DEF QualInv

LEMMA AcknowledgeKeeps ==
  ASSUME QualInv, NEW c \in Case, NEW k \in run.ranks, Acknowledge(c, k)
  PROVE  QualInv'
<1>1. QualTypes'
  <2>1. outstanding'  \in [Case -> SUBSET run.ranks]
    BY DEF Acknowledge, QualInv, QualTypes
  <2> QED BY <2>1 DEF Acknowledge, QualInv, QualTypes
<1>2. /\ run.ranks \in SUBSET Rank /\ Ranks \in Nat /\ Owed \in Nat
      /\ commits \in Nat /\ acks \in Nat /\ missing \in Nat
  BY RunType, OwedType DEF QualInv, QualTypes
<1>3. Owed = Owed' + 1 /\ Owed' \in Nat
  <2>1. outstanding' = [outstanding EXCEPT ![c] = @ \ {k}] /\ k \in outstanding[c]
    BY DEF Acknowledge
  <2>2. DOMAIN outstanding = Case BY DEF QualInv, QualTypes
  <2>3. Cardinality(WaitingIn(outstanding')) \in Nat BY WaitingFinite
  <2> QED BY <1>2, <2>1, <2>2, <2>3, DropOne DEF Owed
<1>4. Tally'
  <2>1. /\ commits' = commits /\ acks' = acks + 1 /\ missing' = missing
        /\ Ranks' = Ranks
    BY DEF Acknowledge, Ranks
  <2>2. /\ acks + Owed + missing * Ranks = commits * Ranks
        /\ Ranks = 0 => missing = 0
    BY DEF QualInv, Tally
  <2>3. missing * Ranks \in Nat /\ commits * Ranks \in Nat BY <1>2, OneMore
  <2> DEFINE m == missing * Ranks
             n == commits * Ranks
             p == Owed'
  <2>4. acks + Owed + m = n /\ m \in Nat /\ n \in Nat BY <2>2, <2>3
  <2>5. Owed = p + 1 /\ p \in Nat BY <1>3
  <2>6. (acks + 1) + p + m = n
    <3> HIDE DEF m, n, p
    <3> QED BY <1>2, <2>4, <2>5
  <2> QED BY <2>1, <2>2, <2>6 DEF Tally
<1>5. Silent' /\ Apart' /\ Origin' /\ Read' /\ Blank'
  <2>1. \A x \in Case : x # c => outstanding'[x] = outstanding[x]
    BY DEF Acknowledge, QualInv, QualTypes
  <2>2. ~Quiet(c) BY DEF Acknowledge, QualInv, Silent
  <2>3. /\ commits' \in Nat /\ acks' \in Nat /\ missing' \in Nat
        /\ commits' >= commits /\ acks' >= acks /\ missing' >= missing
    BY <1>2 DEF Acknowledge
  <2>4. UNCHANGED <<run, outcome, client, offset, evidence>> BY DEF Acknowledge
  <2> QED BY <2>1, <2>2, <2>3, <2>4, LineKeeps
<1> QED BY <1>1, <1>4, <1>5 DEF QualInv

LEMMA ForgetsKeeps ==
  ASSUME QualInv, NEW c \in Case, Forgets(c)
  PROVE  QualInv'
<1>1. QualTypes' BY DEF Forgets, QualInv, QualTypes
<1>2. /\ run.ranks \in SUBSET Rank /\ Ranks \in Nat /\ Owed \in Nat
      /\ commits \in Nat /\ acks \in Nat /\ missing \in Nat
      /\ IsFiniteSet(run.ranks)
  BY RunType, OwedType DEF QualInv, QualTypes
<1>3. Owed = Owed' + Ranks /\ Owed' \in Nat /\ Ranks # 0
  <2>1. /\ outstanding' = [outstanding EXCEPT ![c] = {}]
        /\ outstanding[c] = run.ranks /\ run.ranks # {}
    BY DEF Forgets
  <2>2. DOMAIN outstanding = Case /\ outstanding = [x \in Case |-> outstanding[x]]
    BY DEF QualInv, QualTypes
  <2>3. Cardinality(WaitingIn(outstanding')) \in Nat BY WaitingFinite
  <2>4. Ranks # 0 BY <1>2, <2>1, FS_EmptySet DEF Ranks
  <2> QED BY <1>2, <2>1, <2>2, <2>3, <2>4, DropAll DEF Owed, Ranks
<1>4. Tally'
  <2>1. /\ commits' = commits /\ acks' = acks /\ missing' = missing + 1
        /\ Ranks' = Ranks
    BY DEF Forgets, Ranks
  <2>2. acks + Owed + missing * Ranks = commits * Ranks
    BY DEF QualInv, Tally
  <2>3. missing * Ranks \in Nat /\ commits * Ranks \in Nat BY <1>2, OneMore
  <2>4. (missing + 1) * Ranks = missing * Ranks + Ranks BY <1>2, OneMore
  <2> DEFINE m == missing * Ranks
             n == commits * Ranks
             p == Owed'
  <2>5. acks + Owed + m = n /\ m \in Nat /\ n \in Nat BY <2>2, <2>3
  <2>6. Owed = p + Ranks /\ p \in Nat BY <1>3
  <2>7. acks + p + (m + Ranks) = n
    <3> HIDE DEF m, n, p
    <3> QED BY <1>2, <2>5, <2>6
  <2>8. acks' + Owed' + missing' * Ranks' = commits' * Ranks'
    BY <2>1, <2>4, <2>7
  <2> QED BY <1>3, <2>1, <2>8 DEF Tally
<1>5. Silent' /\ Apart' /\ Origin' /\ Read' /\ Blank'
  <2>1. \A x \in Case : x # c => outstanding'[x] = outstanding[x]
    BY DEF Forgets, QualInv, QualTypes
  <2>2. ~Quiet(c) BY DEF Forgets, QualInv, Silent
  <2>3. /\ commits' \in Nat /\ acks' \in Nat /\ missing' \in Nat
        /\ commits' >= commits /\ acks' >= acks /\ missing' >= missing
    BY <1>2 DEF Forgets
  <2>4. UNCHANGED <<run, outcome, client, offset, evidence>> BY DEF Forgets
  <2> QED BY <2>1, <2>2, <2>3, <2>4, LineKeeps
<1> QED BY <1>1, <1>4, <1>5 DEF QualInv

(* Where every request is quiet, no acknowledgement is on its way.          *)
LEMMA QuietTally ==
  ASSUME QualInv, \A c \in run.cases \cup run.earlier : Quiet(c)
  PROVE  acks + missing * Ranks = commits * Ranks
<1>1. \A c \in Case : Quiet(c) BY DEF QualInv, Apart, Quiet
<1>2. WaitingIn(outstanding) = {} BY <1>1 DEF QualInv, Silent, WaitingIn
<1>3. Owed = 0 BY <1>2, FS_EmptySet DEF Owed
<1>4. Ranks \in Nat /\ commits \in Nat /\ acks \in Nat /\ missing \in Nat
  BY RunType DEF QualInv, QualTypes
<1>5. missing * Ranks \in Nat BY <1>4, OneMore
<1> DEFINE m == missing * Ranks
           n == commits * Ranks
<1>6. acks + Owed + m = n BY DEF QualInv, Tally
<1>7. m \in Nat BY <1>5
<1>8. acks + m = n
  <2> HIDE DEF m, n
  <2> QED BY <1>3, <1>4, <1>6, <1>7
<1> QED BY <1>8

(* The client notes where the log stands.                                   *)
LEMMA StartKeeps == QualInv /\ Start => QualInv'
<1> SUFFICES ASSUME QualInv, Start PROVE QualInv'
  OBVIOUS
<1>1. /\ UNCHANGED <<run, outcome, outstanding, commits, acks, missing, evidence>>
      /\ client = "starting" /\ client' \in {"died", "running"}
      /\ offset' = [commits |-> commits, acks |-> acks, missing |-> missing,
                    quiet |-> \A c \in run.earlier : Quiet(c)]
  BY DEF Start
<1>2. commits \in Nat /\ acks \in Nat /\ missing \in Nat BY DEF QualInv, QualTypes
<1>3. QualTypes' BY <1>1, <1>2 DEF QualInv, QualTypes
<1>4. Tally' BY <1>1, TallySame
<1>5. \A x : Quiet(x)' = Quiet(x) BY <1>1 DEF Quiet
<1>6. Silent' BY <1>1, <1>5 DEF QualInv, Silent
<1>7. Apart' BY <1>1, <1>5 DEF QualInv, Apart
<1>8. Origin'
  <2>1. ASSUME offset'.quiet PROVE acks + missing * Ranks = commits * Ranks
    <3>1. \A c \in run.earlier : Quiet(c) BY <1>1, <2>1
    <3>2. \A c \in run.cases : Quiet(c) BY <1>1 DEF QualInv, Apart, Quiet
    <3> QED BY <3>1, <3>2, QuietTally
  <2>2. Ranks' = Ranks BY <1>1 DEF Ranks
  <2>3. offset'.commits = commits /\ offset'.acks = acks /\ offset'.missing = missing
    BY <1>1
  <2> QED BY <1>1, <1>2, <2>1, <2>2, <2>3 DEF Origin
<1>9. Read' BY <1>1 DEF Read
<1>10. Blank' BY <1>1 DEF QualInv, Blank
<1> QED BY <1>3, <1>4, <1>6, <1>7, <1>8, <1>9, <1>10 DEF QualInv

(* The client goes on when all requests have ended.                         *)
LEMMA ClientKeeps ==
  ASSUME QualInv, Collect \/ LookAtLog \/ ReadLog
  PROVE  QualInv'
<1>1. /\ UNCHANGED <<run, outcome, outstanding, commits, acks, missing, offset>>
      /\ client # "starting" /\ client' # "starting"
  BY DEF Collect, LookAtLog, ReadLog
<1>2. Tally' BY <1>1, TallySame
<1>3. \A x : Quiet(x)' = Quiet(x) BY <1>1 DEF Quiet
<1>4. Silent' BY <1>1, <1>3 DEF QualInv, Silent
<1>5. Apart' BY <1>1, <1>3 DEF QualInv, Apart
<1>6. Origin' BY <1>1 DEF QualInv, Origin, Ranks
<1>7. In({"sent"})' = In({"sent"}) /\ Undisturbed' = Undisturbed
  BY <1>1, <1>3 DEF In, Undisturbed
<1>8. /\ evidence \in [commits: Nat, acks: Nat, size: Nat]
      /\ commits \in Nat /\ acks \in Nat /\ OwnCommits \in Nat /\ OwnAcks \in Nat
  BY DEF QualInv, QualTypes, Origin, OwnCommits, OwnAcks
<1>9. CASE Collect
  <2>1. client' \in {"measured", "died"} /\ evidence' = evidence /\ In({"sent"}) = {}
    BY <1>9 DEF Collect
  <2>2. QualTypes' BY <1>1, <2>1 DEF QualInv, QualTypes
  <2>3. Read' BY <1>7, <2>1 DEF Read
  <2>4. Blank' BY <1>1, <2>1 DEF QualInv, Blank
  <2> QED BY <1>2, <1>4, <1>5, <1>6, <2>2, <2>3, <2>4 DEF QualInv
<1>10. CASE LookAtLog /\ run.log # "file"
  <2>1. /\ client' \in {"written", "died"} /\ client = "measured"
        /\ evidence' = NoEvidence
    BY <1>10 DEF LookAtLog, QualInv, Blank
  <2>2. QualTypes' BY <1>1, <2>1 DEF QualInv, QualTypes, NoEvidence
  <2>3. Read' BY <1>1, <1>7, <1>10, <2>1 DEF QualInv, Read
  <2>4. Blank' BY <1>1, <2>1 DEF Blank, NoEvidence
  <2> QED BY <1>2, <1>4, <1>5, <1>6, <2>2, <2>3, <2>4 DEF QualInv
<1>11. CASE LookAtLog /\ run.log = "file"
  <2>1. /\ client' = "reading" /\ client = "measured"
        /\ evidence' = [evidence EXCEPT !.size = commits + acks]
    BY <1>11 DEF LookAtLog
  <2>2. /\ evidence' \in [commits: Nat, acks: Nat, size: Nat]
        /\ evidence'.size = commits + acks
    BY <1>8, <2>1
  <2>3. QualTypes' BY <1>1, <2>1, <2>2 DEF QualInv, QualTypes
  <2>4. Read' BY <1>1, <1>7, <2>1, <2>2 DEF QualInv, Read
  <2>5. Blank' BY <1>1, <1>11 DEF Blank
  <2> QED BY <1>2, <1>4, <1>5, <1>6, <2>3, <2>4, <2>5 DEF QualInv
<1>12. CASE ReadLog
  <2>1. /\ client' = "written" /\ client = "reading"
        /\ evidence' = [evidence EXCEPT !.commits = OwnCommits, !.acks = OwnAcks]
    BY <1>12 DEF ReadLog, OwnCommits, OwnAcks
  <2>2. evidence' = [commits |-> OwnCommits, acks |-> OwnAcks, size |-> evidence.size]
    BY <1>8, <2>1
  <2>3. evidence' \in [commits: Nat, acks: Nat, size: Nat] BY <1>8, <2>2
  <2>4. QualTypes' BY <1>1, <2>1, <2>3 DEF QualInv, QualTypes
  <2>5. OwnCommits' = OwnCommits /\ OwnAcks' = OwnAcks BY <1>1 DEF OwnCommits, OwnAcks
  <2>6. Undisturbed => evidence.size = commits + acks BY <2>1 DEF QualInv, Read
  <2>7. In({"sent"}) = {} BY <2>1 DEF QualInv, Read
  <2>8. Read' BY <1>1, <1>7, <2>1, <2>2, <2>5, <2>6, <2>7 DEF Read
  <2>9. Blank' BY <1>1, <2>1 DEF QualInv, Blank
  <2> QED BY <1>2, <1>4, <1>5, <1>6, <2>4, <2>8, <2>9 DEF QualInv
<1> QED BY <1>9, <1>10, <1>11, <1>12

LEMMA QualStep == QualInv /\ [QualNext]_qualVars => QualInv'
<1> SUFFICES ASSUME QualInv, [QualNext]_qualVars PROVE QualInv'
  OBVIOUS
<1>1. CASE UNCHANGED qualVars
  BY <1>1 DEF qualVars, QualInv, QualTypes, Tally, Silent, Apart, Origin, Read, Blank, Owed,
              Ranks, Undisturbed, Quiet, In, OwnCommits, OwnAcks
<1> QED BY <1>1, SendKeeps, ReturnKeeps, CommitKeeps, AcknowledgeKeeps, ForgetsKeeps,
           StartKeeps, ClientKeeps DEF QualNext

(* What the run itself has added is accounted for too.                      *)
LEMMA Difference ==
  \A m, n, r \in Nat : m <= n => n - m \in Nat /\ (n - m) * r = n * r - m * r
OBVIOUS

LEMMA OwnTally ==
  ASSUME QualInv, Undisturbed, client # "starting"
  PROVE  OwnAcks + OwnMissing * Ranks = OwnCommits * Ranks
<1>1. /\ Ranks \in Nat /\ commits \in Nat /\ acks \in Nat /\ missing \in Nat
      /\ offset.commits \in Nat /\ offset.acks \in Nat /\ offset.missing \in Nat
      /\ offset.commits <= commits /\ offset.acks <= acks /\ offset.missing <= missing
  BY RunType DEF QualInv, QualTypes, Origin
<1>2. \A c \in run.cases \cup run.earlier : Quiet(c) BY DEF QualInv, Apart, Undisturbed
<1> DEFINE m == missing * Ranks
           n == commits * Ranks
           om == offset.missing * Ranks
           on == offset.commits * Ranks
<1>3. acks + m = n BY <1>2, QuietTally
<1>4. offset.acks + om = on BY DEF QualInv, Origin, Undisturbed
<1>5. OwnMissing * Ranks = m - om BY <1>1, Difference DEF OwnMissing
<1>6. OwnCommits * Ranks = n - on BY <1>1, Difference DEF OwnCommits
<1>7. m \in Nat /\ n \in Nat /\ om \in Nat /\ on \in Nat BY <1>1, OneMore
<1>8. (acks - offset.acks) + (m - om) = n - on
  <2> DEFINE a == acks
             oa == offset.acks
  <2>1. a \in Nat /\ oa \in Nat /\ a + m = n /\ oa + om = on BY <1>1, <1>3, <1>4
  <2>2. (a - oa) + (m - om) = n - on
    <3> HIDE DEF m, n, om, on, a, oa
    <3> QED BY <1>7, <2>1
  <2> QED BY <2>2
<1> QED BY <1>5, <1>6, <1>8 DEF OwnAcks

LEMMA NoneMissing == \A m, r \in Nat : m * r = 0 /\ r # 0 => m = 0
OBVIOUS

(* What the gates let through was whole.                                    *)
LEMMA CleanIsWhole ==
  Clean => /\ In({"served", "wrong", "short"}) = Results
           /\ \A c \in run.cases : Quiet(c)
BY DEF Clean, Completed, Results, In, Quiet

LEMMA VerdictHolds == QualInv => VerdictIsEarned
<1> SUFFICES ASSUME QualInv, client = "written" PROVE VerdictIsEarned
  BY DEF VerdictIsEarned
<1> DEFINE Ours == [commits |-> OwnCommits, acks |-> OwnAcks, size |-> commits + acks]
<1>1. /\ Ranks \in Nat
      /\ OwnCommits \in Nat /\ OwnAcks \in Nat /\ OwnMissing \in Nat
      /\ run.expectation \in {"auto", "required", "optional", "forbidden"}
      /\ run.script \in {"long", "benchmark"} /\ run.label \in {"B0", "B1"}
      /\ Expected \in {"required", "optional", "forbidden"}
      /\ run.script = "benchmark" => run.expectation # "auto"
  <2>1. /\ run.expectation \in {"auto", "required", "optional", "forbidden"}
        /\ run.script \in {"long", "benchmark"} /\ run.label \in {"B0", "B1"}
    BY RunType DEF QualInv, QualTypes, Run
  <2>2. run.script = "benchmark" => run.expectation # "auto"
    BY QualificationAssumption DEF QualInv, QualTypes
  <2>3. OwnCommits \in Nat /\ OwnAcks \in Nat /\ OwnMissing \in Nat
    BY DEF QualInv, QualTypes, Origin, OwnCommits, OwnAcks, OwnMissing
  <2> QED BY <2>1, <2>2, <2>3, RunType DEF QualInv, QualTypes, Expected
<1>2. Passed => Clean BY DEF Passed, LongRunPasses, BenchmarkPasses
<1>3. Comparable => Clean BY DEF Comparable
<1>4. Scored => Clean BY DEF Scored
<1>5. ASSUME Clean, Counted
      PROVE  /\ evidence = Ours
             /\ OwnAcks + OwnMissing * Ranks = OwnCommits * Ranks
  <2>1. Undisturbed /\ run.log = "file"
    BY <1>5, CleanIsWhole DEF Counted, Undisturbed
  <2> QED BY <2>1, OwnTally DEF QualInv, Read
<1>6. ASSUME Passed, run.script = "long" PROVE In({"served"}) = Results
  <2>1. In({"wrong"}) = {} /\ In({"short"}) = {} BY <1>6 DEF Passed, LongRunPasses
  <2>2. In({"served", "wrong", "short"}) = Results BY <1>2, <1>6, CleanIsWhole
  <2> QED BY <2>1, <2>2 DEF In
(* What a run of the plugin, or a long run, has passed.                     *)
<1>7. ASSUME Watched
      PROVE  \/ Demands("required") /\ evidence.commits > 0 /\ evidence.acks >= evidence.commits
             \/ /\ Demands("forbidden") /\ evidence.commits = 0 /\ evidence.acks = 0
             \/ /\ Demands("optional") /\ evidence.acks >= evidence.commits
  <2>1. CASE run.script = "long"
    <3>1. EvidencePasses BY <1>7, <2>1 DEF Watched, Passed, LongRunPasses
    <3> QED BY <1>1, <2>1, <3>1 DEF EvidencePasses, Demands
  <2>2. CASE run.script = "benchmark"
    <3>1. ExpectationMet /\ AcksCover
      BY <1>7, <2>2 DEF Watched, Passed, BenchmarkPasses
    <3> QED BY <2>2, <3>1 DEF ExpectationMet, AcksCover, Demands
  <2> QED BY <1>1, <2>1, <2>2
<1>8. \A x, y \in {"required", "optional", "forbidden"} : Demands(x) /\ Demands(y) => x = y
  BY DEF Demands
<1>9. evidence.commits \in Nat /\ evidence.acks \in Nat BY DEF QualInv, QualTypes
<1>10. ASSUME Watched, Counted, Ranks = 1
       PROVE  OwnMissing = 0 /\ evidence.acks = OwnCommits
  <2>1. Clean BY <1>2, <1>10 DEF Watched
  <2>2. evidence.commits = OwnCommits /\ evidence.acks = OwnAcks BY <1>5, <1>10, <2>1
  <2>3. OwnAcks >= OwnCommits BY <1>1, <1>7, <1>10, <2>2
  <2>4. OwnAcks + OwnMissing = OwnCommits
    <3>1. OwnMissing * 1 = OwnMissing /\ OwnCommits * 1 = OwnCommits BY <1>1
    <3> QED BY <1>5, <1>10, <2>1, <3>1
  <2> QED BY <1>1, <2>2, <2>3, <2>4
<1>11. ASSUME Comparable, Counted, run.acksPerCommit = Ranks
       PROVE  OwnMissing = 0 /\ evidence.acks = OwnCommits * Ranks
  <2>1. evidence.acks = evidence.commits * Ranks
    BY <1>11 DEF Comparable, CommitAckCountsMatch
  <2>2. evidence.commits = OwnCommits /\ evidence.acks = OwnAcks BY <1>3, <1>5, <1>11
  <2> DEFINE m == OwnMissing * Ranks
             n == OwnCommits * Ranks
  <2>3. OwnAcks + m = n /\ OwnAcks = n BY <1>3, <1>5, <1>11, <2>1, <2>2
  <2>4. m \in Nat BY <1>1, OneMore
  <2>5. m = 0
    <3> HIDE DEF m, n
    <3> QED BY <1>1, <2>3, <2>4
  <2>6. Ranks = 0 => OwnMissing = 0
    BY DEF QualInv, QualTypes, Tally, Origin, OwnMissing
  <2> QED BY <1>1, <2>2, <2>3, <2>5, <2>6, NoneMissing
<1>12. ASSUME Watched, Counted, Demands("forbidden") PROVE OwnCommits = 0
  <2>1. Clean BY <1>2, <1>12 DEF Watched
  <2>2. evidence.commits = OwnCommits BY <1>5, <1>12, <2>1
  <2> QED BY <1>7, <1>8, <1>12, <2>2
<1>13. ASSUME Watched, Demands("required")
       PROVE  run.log = "file" /\ (offset.quiet => OwnCommits > 0)
  <2>1. Clean /\ evidence.commits > 0 BY <1>2, <1>7, <1>8, <1>13 DEF Watched
  <2>2. run.log = "file" BY <2>1 DEF QualInv, Blank, NoEvidence
  <2>3. offset.quiet => OwnCommits > 0 BY <1>5, <2>1, <2>2 DEF Counted
  <2> QED BY <2>2, <2>3
<1>14. Clean => In({"served", "wrong", "short"}) = Results BY CleanIsWhole
<1> HIDE DEF Ours
<1>15. Passed \/ Comparable \/ Scored =>
         In({"served", "wrong", "short"}) = Results /\ (Counted => evidence = Ours)
  BY <1>2, <1>3, <1>4, <1>5, <1>14
<1> QED BY <1>6, <1>10, <1>11, <1>12, <1>13, <1>15 DEF VerdictIsEarned, Ranks, Ours

(* A run of the scripts that is judged good was served whole; if it counted *)
(* a log that was quiet when it began, it counted its own commits and       *)
(* acknowledgements exactly, and a comparison that is accepted then hides   *)
(* no commit without its acknowledgements.                                  *)
THEOREM VerdictCorrect == QualSpec => []VerdictIsEarned
BY QualBegins, QualStep, VerdictHolds, PTL DEF QualSpec

----------------------------------------------------------------------------
(* The deployment.  A scheduler that is up is up behind ranks that all      *)
(* serve; so, if the plugin is enabled, all of them are hooked: they clear  *)
(* the list cache and acknowledge every commit.                             *)

LEMMA UpIsHooked ==
  ASSUME ActInv, Up
  PROVE  /\ host.enabled => \A p \in host.ranks : Hooked(p)
         /\ proc[Engine].layers["scheduler"] > 0 => host.enabled
<1>1. /\ Engine \in Proc /\ host.ranks \subseteq Proc
      /\ \A p \in Proc : Settled(proc[p])
  BY ActivationAssumption, HostType DEF Host, ActInv
<1>2. ASSUME host.enabled, NEW p \in host.ranks PROVE Hooked(p)
  <2>1. Settled(proc[p]) /\ proc[p].serving BY <1>1, <1>2 DEF ActInv, Up
  <2>2. proc[p].registered /\ proc[p].imported
    BY <2>1 DEF Settled, Staged
  <2>3. proc[p].layers["runner"] = 1 BY <1>2, <2>1, <2>2, RunnerMarked
  <2> QED BY <2>3 DEF Hooked
<1>3. ASSUME proc[Engine].layers["scheduler"] > 0 PROVE host.enabled
  <2>1. Settled(proc[Engine]) /\ proc[Engine].scheduling BY <1>1 DEF Up
  <2>2. proc[Engine].registered BY <2>1 DEF Settled, Staged
  <2>3. proc[Engine].layers["scheduler"] = (IF host.enabled THEN 1 ELSE 0)
    BY <2>1, <2>2, SchedulerMarked
  <2> QED BY <1>3, <2>3
<1> QED BY <1>2, <1>3

(* A bridge is only installed where the plugin is enabled.                  *)
LEMMA BridgedIsEnabled ==
  ASSUME ActInv, Bridged
  PROVE  host.enabled
<1>1. host.ranks \subseteq Proc /\ \A p \in Proc : Sound(proc[p])
  BY HostType DEF Host, ActInv, Settled
<1>2. PICK p \in host.ranks : proc[p].layers["gdnOp"] > 0 BY DEF Bridged
<1>3. "gdnOp" \in proc[p].marked BY <1>1, <1>2 DEF Sound, Seam
<1> QED BY <1>1, <1>3 DEF Sound, AllowedHooks

(* The ranks that a run counts on are those of the service, always.         *)
SameRanks == run.ranks = host.ranks

LEMMA DeploymentBegins == Init => ActInv /\ SameRanks
<1> SUFFICES ASSUME Init PROVE SameRanks
  BY ActBegins DEF Init
<1> DEFINE d == [host |-> host, run |-> run, failures |-> failures]
<1>1. d \in Deployments BY DEF Init
<1>2. d.run = run /\ d.host = host OBVIOUS
<1> HIDE DEF d
<1>3. d.run.ranks = d.host.ranks BY <1>1, DeploymentAssumption
<1> QED BY <1>2, <1>3 DEF SameRanks

(* Each step of the deployment is a step each part allows, or none of it.   *)
LEMMA DeploymentStep ==
  ASSUME ActInv, SameRanks, [Next]_vars
  PROVE  /\ [ActNext]_actVars /\ [GdnNext]_gdnVars /\ [QualNext]_qualVars
         /\ SameRanks'
<1>1. CASE Activates
  <2>1. host' = host
    BY <1>1 DEF Activates, ActNext, Register, ImportRunner, LoadModel,
                InitializeKVCache, BuildScheduler
  <2> QED BY <1>1, <2>1 DEF Activates, SameRanks, qualVars
<1>2. CASE Steps
  <2>1. GdnNext
    <3>1. CASE gdnStep # "idle" BY <1>2, <3>1 DEF Steps
    <3>2. CASE gdnStep = "idle"
      <4>1. CASE BeginDummy BY <4>1 DEF GdnNext
      <4>2. CASE \E a \in Address : Release(a) BY <4>2 DEF GdnNext
      <4>3. CASE Up /\ (IF \A p \in host.ranks : Hooked(p) THEN BeginStep
                        ELSE BeginStepUncleared)
        <5>1. host.enabled BY <1>2, BridgedIsEnabled DEF Steps
        <5>2. \A p \in host.ranks : Hooked(p) BY <4>3, <5>1, UpIsHooked
        <5>3. BeginStep BY <4>3, <5>2
        <5> QED BY <5>3 DEF GdnNext
      <4> QED BY <1>2, <3>2, <4>1, <4>2, <4>3 DEF Steps
    <3> QED BY <3>1, <3>2
  <2> QED BY <1>2, <2>1 DEF Steps, SameRanks, actVars, qualVars
<1>3. CASE Measures
  <2>1. ASSUME NEW c \in Case, proc[Engine].layers["scheduler"] > 0,
               Commit(c, {p \in host.ranks : Hooked(p)})
        PROVE  Commit(c, run.ranks)
    <3>1. \A p \in host.ranks : Hooked(p) BY <1>3, <2>1, UpIsHooked DEF Measures
    <3>2. {p \in host.ranks : Hooked(p)} = run.ranks BY <3>1 DEF SameRanks
    <3> QED BY <2>1, <3>2
  <2>2. QualNext BY <1>3, <2>1 DEF Measures, QualNext
  <2>3. UNCHANGED actVars /\ UNCHANGED gdnVars BY <1>3 DEF Measures
  <2>4. run' = run
    BY <2>2 DEF QualNext, SendEarlier, Submit, Send, Forgets, Commit, Acknowledge, Return,
                Start, Collect, LookAtLog, ReadLog
  <2> QED BY <2>2, <2>3, <2>4 DEF SameRanks, actVars
<1>4. CASE UNCHANGED vars
  BY <1>4 DEF vars, actVars, qualVars, SameRanks
<1> QED BY <1>1, <1>2, <1>3, <1>4 DEF Next

(* A deployment runs its parts as they are specified by themselves: in a    *)
(* service that is up, steps of the runner begin with a cleared list cache  *)
(* and every rank is asked to acknowledge every commit.                     *)
THEOREM PartsCorrect == Spec => ActSpec /\ GdnSpec /\ QualSpec
<1>1. ActInv /\ SameRanks /\ [Next]_vars => (ActInv /\ SameRanks)'
  BY DeploymentStep, ActStep
<1>2. ActInv /\ SameRanks /\ [Next]_vars =>
        [ActNext]_actVars /\ [GdnNext]_gdnVars /\ [QualNext]_qualVars
  BY DeploymentStep
<1>3. Init => ActInit /\ GdnInit /\ QualInit BY DEF Init
<1> QED BY <1>1, <1>2, <1>3, DeploymentBegins, PTL DEF Spec, ActSpec, GdnSpec, QualSpec

(* What the parts promise holds of every deployment.                        *)
THEOREM DeploymentCorrect ==
  Spec => [](ServingIsHooked /\ ListIsCurrent /\ VerdictIsEarned)
BY PartsCorrect, HookedCorrect, ListCorrect, VerdictCorrect, PTL

(* No rank acknowledges a commit twice, and none is missed twice.           *)
LEMMA NotTwice ==
  ASSUME QualInv
  PROVE  missing <= commits /\ acks <= commits * Cardinality(run.ranks)
<1>1. /\ Ranks \in Nat /\ Owed \in Nat
      /\ commits \in Nat /\ acks \in Nat /\ missing \in Nat
  BY RunType, OwedType DEF QualInv, QualTypes
<1>2. missing * Ranks \in Nat /\ commits * Ranks \in Nat BY <1>1, OneMore
<1> DEFINE m == missing * Ranks
           n == commits * Ranks
<1>3. acks + Owed + m = n /\ m \in Nat /\ n \in Nat BY <1>2 DEF QualInv, Tally
<1>4. m <= n /\ acks <= n
  <2> HIDE DEF m, n
  <2> QED BY <1>1, <1>3
<1>5. missing <= commits
  <2>1. CASE Ranks = 0 BY <1>1, <2>1 DEF QualInv, Tally
  <2>2. CASE Ranks # 0
    <3>1. \A x, y, r \in Nat : x * r <= y * r /\ r # 0 => x <= y OBVIOUS
    <3>2. missing * Ranks <= commits * Ranks BY <1>4
    <3> QED BY <1>1, <2>2, <3>1, <3>2
  <2> QED BY <2>1, <2>2
<1> QED BY <1>4, <1>5 DEF Ranks

(* The types of the deployment.                                             *)
THEOREM DeploymentTypeCorrect == Spec => []TypeOK
<1>1. QualInv => /\ outcome \in [Case -> Outcome]
                 /\ outstanding \in [Case -> SUBSET Rank]
                 /\ evidence \in [commits: Nat, acks: Nat, size: Nat]
                 /\ missing <= commits /\ acks <= commits * Cardinality(run.ranks)
  BY NotTwice, RunType DEF QualInv, QualTypes
<1>2. QualSpec => []QualInv BY QualBegins, QualStep, PTL DEF QualSpec
<1>3. ActTypeOK /\ GdnTypeOK /\ QualInv => TypeOK BY <1>1 DEF TypeOK
<1> QED BY <1>2, <1>3, PartsCorrect, HookedCorrect, GdnTypeCorrect, PTL
=============================================================================
