-------------------------- MODULE BuildSessionProofs --------------------------
(***************************************************************************)
(* What is true of every session of builds, of any scripts, disks, targets *)
(* and lengths: prepare's searches and counts are exact, a build without   *)
(* cycles can begin, no edit is missed, and a build that succeeded leaves  *)
(* nothing to do.                                                          *)
(***************************************************************************)
EXTENDS BuildSession, BuildPrepareProofs

-----------------------------------------------------------------------------
(* The inductive invariant.                                                *)

(* The time of a node's file. *)
Time(n) == disk[Path_(n)]

Statuses == {"waiting", "running", "built", "failed"}

(* The script's graph is well formed; no time lies in the future. *)
TypeInv ==
  /\ WellFormed(graph) /\ graph.size <= MaxNodes
  /\ disk \in [DOMAIN disk -> Nat] /\ DOMAIN graph.nodeMap \subseteq DOMAIN disk
  /\ clock \in Nat /\ \A p \in DOMAIN disk : disk[p] <= clock
  /\ status \in [NodeId -> Statuses]

(* prepare succeeded, and the graph still holds what it has found. *)
Held == {"prepared", "building", "success"}

PrepInv ==
  outcome \in Held =>
    /\ prep.inSub \subseteq Ids(graph) /\ IsClosed(graph, prep.inSub)
    /\ prep.inSub = Closure(graph, {graph.nodeMap[asked[k]] : k \in DOMAIN asked})
    /\ prep.dirty \subseteq prep.inSub
    /\ \A t \in Ids(graph) :
         prep.pending[t] = IF t \in prep.inSub /\ t \in prep.dirty
                           THEN CountPending(graph, t, prep.dirty) ELSE 0
    /\ prep.remaining = Cardinality(Todo)
    /\ outcome = "prepared" /\ quiet => prep.dirty = DirtyIn(graph, disk, prep.inSub)

(* Builders run during a build only, of nodes to be built, all whose inputs *)
(* are done.                                                                *)
OrderInv ==
  /\ (\E n \in NodeId : status[n] = "running") => outcome = "building"
  /\ outcome = "prepared" => status = Waiting
  /\ outcome \in {"building", "success"} =>
       \A n \in NodeId : status[n] # "waiting" =>
         n \in Todo /\ \A m \in Todo \cap Inputs(graph, n) : status[m] = "built"
  /\ outcome = "success" => \A n \in Todo : status[n] = "built"

(* What a build has not written yet is older than the build. *)
TimeInv ==
  outcome = "building" =>
    /\ clock > 0
    /\ \A n \in Ids(graph) :
         graph.nodes[n].target /\ status[n] \in {"waiting", "running"} => Time(n) < clock

(* A file that is neither good nor torn shows it, or an input is not good. *)
GoodInv ==
  Acyclic(graph) =>
    \A n \in Ids(graph) :
      /\ ~graph.nodes[n].phony /\ ~graph.nodes[n].always
      /\ Time(n) > 0 /\ n \notin good \cup torn
      => \E d \in Inputs(graph, n) : d \notin good \/ Time(d) = 0 \/ Time(d) > Time(n)

(* Nobody else touches a file: what prepare has passed over stays without a *)
(* reason, and what has been written has none any more.                     *)
CleanInv ==
  Acyclic(graph) /\ quiet /\ outcome \in Held =>
    /\ \A m \in prep.inSub \ prep.dirty :
         ~OwnReason(graph.nodes[m], disk) /\ Inputs(graph, m) \cap prep.dirty = {}
    /\ \A m \in Ids(graph) : status[m] = "built" /\ Writes(m) =>
         Time(m) > 0 /\ \A d \in Inputs(graph, m) : Time(d) <= Time(m)

SInv == TypeInv /\ PrepInv /\ OrderInv /\ TimeInv /\ GoodInv /\ CleanInv

-----------------------------------------------------------------------------
(* The nodes, their files and their inputs.                                *)

(* What an edge count of 0 means.                                          *)
LEMMA TimesPositive ==
  ASSUME NEW S, NEW s \in Seq(S), NEW x
  PROVE  Times(s, x) \in Nat /\ (Times(s, x) = 0 <=> \A i \in DOMAIN s : s[i] # x)
<1> DEFINE X == {i \in DOMAIN s : s[i] = x}
<1>1. Len(s) \in Nat /\ DOMAIN s = 1 .. Len(s)
  BY LenProperties
<1>2. IsFiniteSet(1 .. Len(s))
  BY <1>1, FS_Interval
<1>3. IsFiniteSet(X)
  BY <1>1, <1>2, FS_Subset
<1>4. Cardinality(X) \in Nat /\ (Cardinality(X) = 0 <=> X = {})
  <2> HIDE DEF X
  <2> QED BY <1>3, FS_CardinalityType, FS_EmptySet
<1> QED BY <1>4 DEF Times

(* The nodes' ids are ids of the session; each has a file of its own.      *)
LEMMA NodeFacts ==
  ASSUME TypeInv
  PROVE  /\ GraphClosed(graph) /\ Ids(graph) \subseteq NodeId
         /\ \A n \in Ids(graph) :
              /\ Path_(n) \in DOMAIN disk /\ Time(n) \in Nat /\ Time(n) <= clock
              /\ Path_(n) \in DOMAIN graph.nodeMap /\ graph.nodeMap[Path_(n)] = n
              /\ Inputs(graph, n) \subseteq Ids(graph)
         /\ \A n, m \in Ids(graph) : Path_(n) = Path_(m) => n = m
<1>1. GraphClosed(graph) /\ MapExact(graph)
  BY DEF TypeInv, WellFormed
<1>2. graph.size \in Nat /\ MaxNodes \in Nat /\ graph.size <= MaxNodes
  BY <1>1, BoundsAssumption DEF GraphClosed, TypeInv
<1>3. Ids(graph) \subseteq NodeId
  BY <1>2 DEF Ids, NodeId
<1>4. \A n \in Ids(graph) :
        Path_(n) \in DOMAIN graph.nodeMap /\ graph.nodeMap[Path_(n)] = n
  BY <1>1 DEF MapExact, Path_
<1>5. \A n \in Ids(graph) :
        Path_(n) \in DOMAIN disk /\ Time(n) \in Nat /\ Time(n) <= clock
  BY <1>4 DEF TypeInv, Time
<1>6. \A n, m \in Ids(graph) : Path_(n) = Path_(m) => n = m
  BY <1>4
<1> QED BY <1>1, <1>3, <1>4, <1>5, <1>6, InputsInGraph

(* The sources and deps of a node are the files of its inputs.             *)
LEMMA FilesAreInputs ==
  ASSUME NEW g, WellFormed(g), NEW t \in Ids(g), NEW dsk
  PROVE  OwnFilesDirty(g.nodes[t], dsk) <=>
           \/ dsk[g.nodes[t].output] = 0
           \/ \E d \in Inputs(g, t) : InputDirty(dsk, g.nodes[t].output, g.nodes[d].output)
<1> DEFINE n == g.nodes[t]
           P == DOMAIN g.nodeMap
<1>1. /\ n.sources \in Seq(P) /\ n.deps \in Seq(P) /\ n.waitsOn \in Seq(Ids(g))
      /\ g.nodeMap \in [P -> Ids(g)]
  BY DEF WellFormed, GraphClosed, NodeOver
<1>2. \A d \in Ids(g) :
        Times(n.waitsOn, d) = Times(n.sources, g.nodes[d].output) + Times(n.deps, g.nodes[d].output)
  BY DEF WellFormed, WaitsExact
<1>3. \A p \in P : g.nodes[g.nodeMap[p]].output = p
  BY DEF WellFormed, MapExact
<1>4. /\ DOMAIN n.sources = 1 .. Len(n.sources) /\ \A i \in DOMAIN n.sources : n.sources[i] \in P
      /\ DOMAIN n.deps = 1 .. Len(n.deps) /\ \A i \in DOMAIN n.deps : n.deps[i] \in P
      /\ \A i \in DOMAIN n.waitsOn : n.waitsOn[i] \in Ids(g)
  <2> HIDE DEF n, P
  <2> QED BY <1>1, LenProperties, ElementOfSeq
<1> HIDE DEF n, P
<1>5. ASSUME NEW d \in Ids(g)
      PROVE  /\ Times(n.waitsOn, d) \in Nat
             /\ Times(n.sources, g.nodes[d].output) \in Nat
             /\ Times(n.deps, g.nodes[d].output) \in Nat
             /\ Times(n.waitsOn, d) = 0 <=> \A i \in DOMAIN n.waitsOn : n.waitsOn[i] # d
             /\ Times(n.sources, g.nodes[d].output) = 0 <=>
                  \A i \in DOMAIN n.sources : n.sources[i] # g.nodes[d].output
             /\ Times(n.deps, g.nodes[d].output) = 0 <=>
                  \A i \in DOMAIN n.deps : n.deps[i] # g.nodes[d].output
  BY <1>1, TimesPositive
<1>6. ASSUME NEW d \in Ids(g)
      PROVE  d \in Inputs(g, t) <=>
               \/ \E i \in DOMAIN n.sources : n.sources[i] = g.nodes[d].output
               \/ \E i \in DOMAIN n.deps : n.deps[i] = g.nodes[d].output
  <2>1. d \in Inputs(g, t) <=> Times(n.waitsOn, d) # 0
    BY <1>5 DEF Inputs, n
  <2>2. Times(n.waitsOn, d) # 0 <=>
          \/ Times(n.sources, g.nodes[d].output) # 0
          \/ Times(n.deps, g.nodes[d].output) # 0
    BY <1>2, <1>5
  <2> QED BY <1>5, <2>1, <2>2
<1>7. Inputs(g, t) \subseteq Ids(g)
  BY InputsInGraph DEF WellFormed
<1>8. ASSUME NEW p \in P, \/ \E i \in DOMAIN n.sources : n.sources[i] = p
                          \/ \E i \in DOMAIN n.deps : n.deps[i] = p
      PROVE  \E d \in Inputs(g, t) : g.nodes[d].output = p
  BY <1>1, <1>3, <1>6, <1>8
<1>9. ASSUME OwnFilesDirty(n, dsk), dsk[n.output] # 0
      PROVE  \E d \in Inputs(g, t) : InputDirty(dsk, n.output, g.nodes[d].output)
  <2>1. PICK p \in P : /\ InputDirty(dsk, n.output, p)
                       /\ \/ \E i \in DOMAIN n.sources : n.sources[i] = p
                          \/ \E i \in DOMAIN n.deps : n.deps[i] = p
    BY <1>4, <1>9 DEF OwnFilesDirty
  <2> QED BY <1>8, <2>1
<1>10. ASSUME NEW d \in Inputs(g, t), InputDirty(dsk, n.output, g.nodes[d].output)
       PROVE  OwnFilesDirty(n, dsk)
  BY <1>6, <1>7, <1>10 DEF OwnFilesDirty
<1>11. dsk[n.output] = 0 => OwnFilesDirty(n, dsk)
  BY DEF OwnFilesDirty
<1> QED BY <1>9, <1>10, <1>11 DEF n

(* A reason of one's own, in terms of nodes.                               *)
Stale(n) ==
  Time(n) = 0 \/ \E d \in Inputs(graph, n) : Time(d) = 0 \/ Time(d) > Time(n)

LEMMA ReasonOfNode ==
  ASSUME TypeInv, NEW n \in Ids(graph)
  PROVE  OwnReason(graph.nodes[n], disk) <=>
           graph.nodes[n].always \/ (~graph.nodes[n].phony /\ Stale(n))
<1>1. OwnFilesDirty(graph.nodes[n], disk) <=> Stale(n)
  BY FilesAreInputs DEF TypeInv, Stale, Time, Path_, InputDirty, Newer
<1> QED BY <1>1 DEF OwnReason

LEMMA ReasonOfNodeNext ==
  ASSUME TypeInv', NEW n \in Ids(graph')
  PROVE  OwnReason(graph'.nodes[n], disk') <=>
           graph'.nodes[n].always \/ (~graph'.nodes[n].phony /\ Stale(n)')
<1>1. OwnFilesDirty(graph'.nodes[n], disk') <=>
        \/ disk'[graph'.nodes[n].output] = 0
        \/ \E d \in Inputs(graph', n) :
             InputDirty(disk', graph'.nodes[n].output, graph'.nodes[d].output)
  BY FilesAreInputs DEF TypeInv
<1>2. OwnFilesDirty(graph'.nodes[n], disk') <=> Stale(n)'
  BY <1>1 DEF Stale, Time, Path_, InputDirty, Newer
<1> QED BY <1>2 DEF OwnReason

(* A node that no rule is for waits for nothing and is never built.        *)
LEMMA SourceFacts ==
  ASSUME TypeInv, NEW n \in Ids(graph), ~graph.nodes[n].target
  PROVE  Inputs(graph, n) = {} /\ ~Writes(n) /\ ~graph.nodes[n].phony
<1>1. /\ graph.nodes[n].waitsOn = <<>> /\ ~graph.nodes[n].phony
  BY DEF TypeInv, WellFormed, SourcesPlain
<1> QED BY <1>1 DEF Inputs, Writes

(* What zmm_bg_exec waits for is what zmm_bg_prepare looked at.            *)
LEMMA NeedsAreInputs ==
  ASSUME NEW g, GraphClosed(g), EdgesMirrored(g), NEW t \in Ids(g),
         NEW p, p.inSub \subseteq Ids(g)
  PROVE  Needs(PlanOfPrepared(g, p), t) = (p.inSub \cap p.dirty) \cap Inputs(g, t)
<1> DEFINE todo == p.inSub \cap p.dirty
           dep(d) == g.nodes[d].dependents
<1>1. /\ g.nodes[t].waitsOn \in Seq(Ids(g))
      /\ \A d \in Ids(g) : dep(d) \in Seq(Ids(g))
  BY DEF GraphClosed, NodeOver
<1>2. ASSUME NEW d \in Ids(g)
      PROVE  (\E i \in DOMAIN dep(d) : dep(d)[i] = t) <=> d \in Inputs(g, t)
  <2>1. Times(dep(d), t) = Times(g.nodes[t].waitsOn, d)
    BY DEF EdgesMirrored
  <2>2. Times(dep(d), t) = 0 <=> \A i \in DOMAIN dep(d) : dep(d)[i] # t
    BY <1>1, TimesPositive
  <2>3. Times(g.nodes[t].waitsOn, d) = 0 <=>
          \A i \in DOMAIN g.nodes[t].waitsOn : g.nodes[t].waitsOn[i] # d
    BY <1>1, TimesPositive
  <2> QED BY <2>1, <2>2, <2>3 DEF Inputs
<1>3. \A d \in Ids(g) : DOMAIN dep(d) = 1 .. Len(dep(d))
  BY <1>1, LenProperties
<1>4. /\ PlanOfPrepared(g, p).dirty = todo
      /\ \A d \in Ids(g) : PlanOfPrepared(g, p).dependents[d] = dep(d)
  BY DEF PlanOfPrepared
<1>5. Slots(PlanOfPrepared(g, p)) = UNION {{<<d, i>> : i \in 1 .. Len(dep(d))} : d \in todo}
  BY <1>4 DEF Slots
<1>6. \A d \in todo : \A i \in 1 .. Len(dep(d)) :
        Target(PlanOfPrepared(g, p), <<d, i>>) = dep(d)[i]
  BY <1>4 DEF Target
<1>7. \A d : d \in Needs(PlanOfPrepared(g, p), t) <=>
        d \in todo /\ \E i \in 1 .. Len(dep(d)) : dep(d)[i] = t
  <2> DEFINE q == PlanOfPrepared(g, p)
  <2> HIDE DEF q, todo
  <2>1. ASSUME NEW d \in todo, NEW i \in 1 .. Len(dep(d)), dep(d)[i] = t
        PROVE  d \in Needs(q, t)
    <3>1. <<d, i>> \in SlotsTo(q, t)
      BY <1>5, <1>6, <2>1 DEF SlotsTo, q
    <3> QED BY <3>1 DEF Needs
  <2>2. ASSUME NEW d \in Needs(q, t)
        PROVE  d \in todo /\ \E i \in 1 .. Len(dep(d)) : dep(d)[i] = t
    <3>1. PICK s \in SlotsTo(q, t) : d = s[1]
      BY DEF Needs
    <3>2. PICK e \in todo : \E i \in 1 .. Len(dep(e)) : s = <<e, i>>
      BY <1>5, <3>1 DEF SlotsTo, q
    <3>3. PICK i \in 1 .. Len(dep(e)) : s = <<e, i>>
      BY <3>2
    <3>4. Target(q, s) = t
      BY <3>1 DEF SlotsTo
    <3>5. Target(q, s) = dep(e)[i]
      BY <1>6, <3>3 DEF q
    <3> QED BY <3>1, <3>3, <3>4, <3>5
  <2> QED BY <2>1, <2>2 DEF q
<1> QED BY <1>2, <1>3, <1>7

-----------------------------------------------------------------------------
(* The beginning, and prepare.                                             *)

LEMMA EverythingIsClosed ==
  ASSUME NEW g, GraphClosed(g)
  PROVE  IsClosed(g, Ids(g))
BY InputsInGraph DEF IsClosed

(* At first what is not good is dirty, and what is dirty shows why.        *)
LEMMA SInit == Init => SInv
<1> SUFFICES ASSUME Init PROVE SInv
  OBVIOUS
<1>1. PICK s \in Starts : graph = s.graph /\ disk = s.disk
  BY DEF Init
<1>2. /\ WellFormed(graph) /\ graph.size <= MaxNodes
      /\ disk \in [DOMAIN disk -> Nat] /\ DOMAIN graph.nodeMap \subseteq DOMAIN disk
  BY <1>1, StartsAssumption
<1>3. clock \in Nat /\ \A q \in DOMAIN disk : disk[q] <= clock
  BY <1>2 DEF Init
<1>4. status \in [NodeId -> Statuses] /\ \A n \in NodeId : status[n] = "waiting"
  BY DEF Init, Waiting, Statuses
<1>5. TypeInv
  BY <1>2, <1>3, <1>4 DEF TypeInv
<1>6. PrepInv /\ OrderInv /\ TimeInv /\ CleanInv
  BY <1>4 DEF Init, PrepInv, OrderInv, TimeInv, CleanInv, Held
<1>7. GoodInv
  <2> SUFFICES ASSUME Acyclic(graph), NEW n \in Ids(graph),
                      ~graph.nodes[n].phony, ~graph.nodes[n].always,
                      Time(n) > 0, n \notin good
               PROVE  \E d \in Inputs(graph, n) :
                        d \notin good \/ Time(d) = 0 \/ Time(d) > Time(n)
    BY DEF GoodInv
  <2> DEFINE dirty == DirtyIn(graph, disk, Ids(graph))
  <2>1. GraphClosed(graph) /\ Inputs(graph, n) \subseteq Ids(graph)
    BY <1>5, NodeFacts
  <2>2. n \in dirty /\ \A m \in dirty : m \notin good
    BY DEF Init
  <2>3. JustDirty(graph, disk, dirty, n)
    BY <2>1, EverythingIsClosed, DirtyIsJust
  <2>4. CASE OwnReason(graph.nodes[n], disk)
    <3>1. Stale(n) /\ Time(n) # 0
      BY <1>5, <2>1, <2>4, ReasonOfNode, NodeFacts
    <3> QED BY <3>1 DEF Stale
  <2>5. CASE ~OwnReason(graph.nodes[n], disk)
    BY <2>2, <2>3, <2>5 DEF JustDirty
  <2> QED BY <2>4, <2>5
<1> QED BY <1>5, <1>6, <1>7 DEF SInv

(* A prepare that returns 0.                                               *)
LEMMA AfterPrepareFacts ==
  ASSUME NEW g, GraphClosed(g), NEW dsk, NEW targets \in Targets, AllKnown(g, targets)
  PROVE  LET p == AfterPrepare(g, dsk, targets) IN
         /\ p.inSub \subseteq Ids(g) /\ IsClosed(g, p.inSub)
         /\ p.inSub = Closure(g, {g.nodeMap[targets[k]] : k \in DOMAIN targets})
         /\ p.dirty \subseteq p.inSub /\ p.dirty = DirtyIn(g, dsk, p.inSub)
         /\ \A t \in Ids(g) :
              p.pending[t] = IF t \in p.inSub /\ t \in p.dirty
                             THEN CountPending(g, t, p.dirty) ELSE 0
         /\ p.remaining = Cardinality(p.inSub \cap p.dirty)
<1> DEFINE N == {g.nodeMap[targets[k]] : k \in DOMAIN targets}
           p == AfterPrepare(g, dsk, targets)
<1>1. targets \in Seq(Path \cup {EmptyPath})
  BY TargetsAssumption
<1>2. N \in SUBSET Ids(g) /\ Subgraph(g, targets) = Closure(g, N)
  BY <1>1, SubgraphIsClosure
<1>3. /\ p.inSub = Subgraph(g, targets) /\ p.dirty = DirtyIn(g, dsk, p.inSub)
      /\ p.remaining = Cardinality(p.inSub \cap p.dirty)
      /\ \A t \in Ids(g) : p.pending[t] = IF t \in p.inSub /\ t \in p.dirty
                                          THEN CountPending(g, t, p.dirty) ELSE 0
  BY DEF AfterPrepare
<1> HIDE DEF N, p
<1>4. p.inSub \subseteq Ids(g) /\ IsClosed(g, p.inSub)
  BY <1>2, <1>3, ClosureLeast
<1>5. p.dirty \subseteq p.inSub
  BY <1>3, <1>4, DirtyWithin
<1> QED BY <1>2, <1>3, <1>4, <1>5 DEF N, p

LEMMA PrepareKeeps ==
  ASSUME SInv, NEW targets \in Targets, Prepare(targets)
  PROVE  SInv'
<1> USE DEF SInv
<1>1. /\ UNCHANGED <<graph, disk, clock, good, torn>> /\ status' = Waiting
      /\ outcome' \in {"prepared", "none"}
  BY DEF Prepare, fileVars
<1>2. GraphClosed(graph)
  BY NodeFacts
<1>3. status' \in [NodeId -> Statuses] /\ \A n \in NodeId : status'[n] = "waiting"
  BY <1>1 DEF Waiting, Statuses
<1>4. TypeInv'
  BY <1>1, <1>3 DEF TypeInv
<1>5. GoodInv'
  BY <1>1 DEF GoodInv, Time, Path_
<1>6. OrderInv' /\ TimeInv'
  <2>1. Waiting' = Waiting
    BY DEF Waiting
  <2> QED BY <1>1, <1>3, <2>1 DEF OrderInv, TimeInv
<1>7. CASE AllKnown(graph, targets)
  <2> DEFINE p == AfterPrepare(graph, disk, targets)
  <2>1. /\ p.inSub \subseteq Ids(graph) /\ IsClosed(graph, p.inSub)
        /\ p.inSub = Closure(graph, {graph.nodeMap[targets[k]] : k \in DOMAIN targets})
        /\ p.dirty \subseteq p.inSub /\ p.dirty = DirtyIn(graph, disk, p.inSub)
        /\ \A t \in Ids(graph) :
             p.pending[t] = IF t \in p.inSub /\ t \in p.dirty
                            THEN CountPending(graph, t, p.dirty) ELSE 0
        /\ p.remaining = Cardinality(p.inSub \cap p.dirty)
    BY <1>2, <1>7, AfterPrepareFacts
  <2>2. prep' = p /\ asked' = targets
    BY <1>7 DEF Prepare
  <2> HIDE DEF p
  <2>3. PrepInv'
    BY <1>1, <2>1, <2>2 DEF PrepInv, Todo
  <2>4. ASSUME Acyclic(graph), NEW m \in p.inSub \ p.dirty
        PROVE  ~OwnReason(graph.nodes[m], disk) /\ Inputs(graph, m) \cap p.dirty = {}
    <3>1. JustDirty(graph, disk, p.dirty, m)
      BY <1>2, <2>1, <2>4, DirtyIsJust
    <3> QED BY <3>1 DEF JustDirty
  <2>5. \A m \in Ids(graph) : status'[m] # "built"
    BY <1>3, NodeFacts
  <2>6. CleanInv'
    BY <1>1, <2>2, <2>4, <2>5 DEF CleanInv
  <2> QED BY <1>4, <1>5, <1>6, <2>3, <2>6
<1>8. CASE ~AllKnown(graph, targets)
  <2>1. outcome' = "none"
    BY <1>8 DEF Prepare
  <2> QED BY <1>4, <1>5, <1>6, <2>1 DEF PrepInv, CleanInv, Held
<1> QED BY <1>7, <1>8

-----------------------------------------------------------------------------
(* What the steps do to the files.                                         *)

(* The file of n gets a time that is past.                                 *)
LEMMA FileTouched ==
  ASSUME TypeInv, NEW n \in Ids(graph), NEW v \in Nat, v <= clock',
         graph' = graph, disk' = [disk EXCEPT ![Path_(n)] = v],
         clock' \in Nat, clock <= clock', status' \in [NodeId -> Statuses]
  PROVE  TypeInv' /\ \A m \in Ids(graph) : Time(m)' = IF m = n THEN v ELSE Time(m)
<1>1. /\ Path_(n) \in DOMAIN disk /\ disk \in [DOMAIN disk -> Nat] /\ clock \in Nat
      /\ \A m \in Ids(graph) : /\ Path_(m) \in DOMAIN disk
                               /\ m # n => Path_(m) # Path_(n)
  BY NodeFacts DEF TypeInv
<1>2. /\ DOMAIN disk' = DOMAIN disk /\ disk'[Path_(n)] = v
      /\ \A p \in DOMAIN disk : p # Path_(n) => disk'[p] = disk[p]
      /\ disk' \in [DOMAIN disk' -> Nat]
  BY <1>1
<1>3. \A p \in DOMAIN disk' : disk'[p] <= clock'
  <2> SUFFICES ASSUME NEW p \in DOMAIN disk PROVE disk'[p] <= clock'
    BY <1>2
  <2>1. disk[p] \in Nat /\ disk[p] <= clock
    BY DEF TypeInv
  <2> QED BY <1>1, <1>2, <2>1
<1>4. TypeInv'
  BY <1>2, <1>3 DEF TypeInv
<1>5. ASSUME NEW m \in Ids(graph) PROVE Time(m)' = IF m = n THEN v ELSE Time(m)
  <2>1. Time(m)' = disk'[Path_(m)]
    BY DEF Time, Path_
  <2> QED BY <1>1, <1>2, <2>1 DEF Time
<1> QED BY <1>4, <1>5

(* No file is touched.                                                     *)
LEMMA FilesSame ==
  ASSUME TypeInv, UNCHANGED <<graph, disk>>, clock' \in Nat, clock <= clock',
         status' \in [NodeId -> Statuses]
  PROVE  TypeInv' /\ \A m \in Ids(graph) : Time(m)' = Time(m)
<1>1. \A p \in DOMAIN disk : disk[p] \in Nat /\ disk[p] <= clock /\ clock \in Nat
  BY DEF TypeInv
<1>2. \A p \in DOMAIN disk' : disk'[p] <= clock'
  BY <1>1
<1>3. TypeInv'
  BY <1>2 DEF TypeInv
<1> QED BY <1>3 DEF Time, Path_

(* A start, in terms of the graph.                                         *)
LEMMA StartFacts ==
  ASSUME SInv, NEW n \in Ids(graph), Start(n)
  PROVE  /\ outcome = "building" /\ n \in Todo /\ status[n] = "waiting"
         /\ \A m \in Todo \cap Inputs(graph, n) : status[m] = "built"
         /\ status' = [status EXCEPT ![n] = "running"]
         /\ UNCHANGED <<graph, prep, disk, clock, good, torn, touched, outcome, asked, quiet>>
<1>1. /\ outcome = "building" /\ n \in Todo /\ status[n] = "waiting"
      /\ status' = [status EXCEPT ![n] = "running"]
      /\ UNCHANGED <<graph, prep, disk, clock, good, torn, touched, outcome, asked, quiet>>
      /\ \A m \in [t \in NodeId |-> IF t \in Todo
                                    THEN Needs(PlanOfPrepared(graph, prep), t) ELSE {}][n] :
           status[m] = "built"
  BY DEF Start, Order!Start, fileVars
<1>2. n \in NodeId /\ GraphClosed(graph) /\ EdgesMirrored(graph)
  BY NodeFacts DEF SInv, TypeInv, WellFormed
<1>3. prep.inSub \subseteq Ids(graph)
  BY <1>1 DEF SInv, PrepInv, Held
<1>4. Needs(PlanOfPrepared(graph, prep), n) = Todo \cap Inputs(graph, n)
  BY <1>2, <1>3, NeedsAreInputs DEF Todo
<1> QED BY <1>1, <1>2, <1>4

(* What the builder of n leaves behind when it is done.                    *)
NothingWritten(n) ==
  /\ UNCHANGED <<disk, clock, good, torn>>
  /\ ~(status'[n] = "built" /\ Writes(n))

FileWritten(n) ==
  /\ Writes(n)
  /\ clock' \in Nat /\ clock <= clock'
  /\ good' \ {n} = good \ {n} /\ torn' \ {n} = torn \ {n}
  /\ \E v \in {0, clock'} :
       /\ disk' = [disk EXCEPT ![Path_(n)] = v]
       /\ n \in good' \/ status'[n] = "built" => v = clock'
       /\ n \notin good' \cup torn' => v = 0 \/ \E d \in Inputs(graph, n) : d \notin good

LEMMA EndFacts ==
  ASSUME SInv, NEW n \in Ids(graph), Succeed(n) \/ Fail(n)
  PROVE  /\ status[n] = "running" /\ outcome = "building" /\ n \in Todo
         /\ \E s \in {"built", "failed"} : status' = [status EXCEPT ![n] = s]
         /\ UNCHANGED <<graph, prep, outcome, asked, quiet>>
         /\ NothingWritten(n) \/ FileWritten(n)
<1>1. /\ status[n] = "running" /\ UNCHANGED <<graph, prep, asked, quiet, outcome>>
      /\ \E s \in {"built", "failed"} : status' = [status EXCEPT ![n] = s]
  BY DEF Succeed, Fail, Order!Finish
<1>2. outcome = "building" /\ n \in Todo
  BY <1>1, NodeFacts DEF SInv, OrderInv
<1>3. clock \in Nat
  BY DEF SInv, TypeInv
<1>4. CASE Succeed(n)
  <2>1. CASE Writes(n)
    <3>1. Written(n, Inputs(graph, n) \subseteq good /\ n \notin touched, n \in touched)
      BY <1>4, <2>1 DEF Succeed
    <3>2. FileWritten(n)
      BY <1>3, <2>1, <3>1 DEF Written, FileWritten
    <3> QED BY <1>1, <1>2, <3>2
  <2>2. CASE ~Writes(n)
    BY <1>1, <1>2, <1>4, <2>2 DEF Succeed, NothingWritten
  <2> QED BY <2>1, <2>2
<1>5. CASE Fail(n)
  <2>1. status'[n] = "failed"
    BY <1>5 DEF Fail
  <2>2. CASE UNCHANGED <<disk, clock, good, torn>>
    BY <1>1, <1>2, <2>1, <2>2 DEF NothingWritten
  <2>3. CASE /\ Writes(n) /\ disk' = [disk EXCEPT ![Path_(n)] = 0]
             /\ good' = good \ {n} /\ torn' = torn \ {n} /\ clock' = clock
    <3>1. FileWritten(n)
      BY <1>3, <2>1, <2>3 DEF FileWritten
    <3> QED BY <1>1, <1>2, <3>1
  <2>4. CASE Writes(n) /\ Written(n, FALSE, TRUE)
    <3>1. FileWritten(n)
      BY <1>3, <2>1, <2>4 DEF Written, FileWritten
    <3> QED BY <1>1, <1>2, <3>1
  <2> QED BY <1>5, <2>2, <2>3, <2>4 DEF Fail
<1> QED BY <1>4, <1>5

-----------------------------------------------------------------------------
(* Frames.                                                                 *)

LEMMA PrepFrame ==
  ASSUME PrepInv, UNCHANGED <<graph, prep, asked>>, outcome' \in Held => outcome \in Held,
         outcome' = "prepared" /\ quiet' => outcome = "prepared" /\ quiet /\ disk' = disk
  PROVE  PrepInv'
BY DEF PrepInv, Todo

(* Files, good and torn as they were.                                      *)
LEMMA GoodFrame ==
  ASSUME GoodInv, UNCHANGED <<graph, disk, good, torn>>
  PROVE  GoodInv'
BY DEF GoodInv, Time, Path_

(* Files as they were, and no more of them written by the build.           *)
LEMMA CleanFrame ==
  ASSUME CleanInv, UNCHANGED <<graph, prep, disk>>, quiet' => quiet,
         outcome' \in Held => outcome \in Held,
         \A m \in Ids(graph) : status'[m] = "built" /\ Writes(m) => status[m] = "built"
  PROVE  CleanInv'
<1> SUFFICES ASSUME Acyclic(graph), quiet, outcome \in Held, outcome' \in Held
             PROVE  CleanInv'
  BY DEF CleanInv
<1>1. \A m \in prep'.inSub \ prep'.dirty :
        ~OwnReason(graph'.nodes[m], disk') /\ Inputs(graph', m) \cap prep'.dirty = {}
  BY DEF CleanInv
<1>2. \A m \in Ids(graph) : status'[m] = "built" /\ Writes(m) =>
        Time(m) > 0 /\ \A d \in Inputs(graph, m) : Time(d) <= Time(m)
  BY DEF CleanInv
<1>3. \A m : Time(m)' = Time(m) /\ (Writes(m)' <=> Writes(m))
  BY DEF Time, Path_, Writes
<1> QED BY <1>1, <1>2, <1>3 DEF CleanInv

(* What a step has to show of the files only when no one touches them.     *)
LEMMA CleanNotQuiet ==
  ASSUME ~quiet' \/ outcome' \notin Held PROVE CleanInv'
BY DEF CleanInv

-----------------------------------------------------------------------------
(* Steps that write no file.                                               *)

LEMMA ExecKeeps == ASSUME SInv, Exec PROVE SInv'
<1> USE DEF SInv
<1>1. /\ outcome = "prepared" /\ outcome' = "building" /\ clock' = clock + 1
      /\ UNCHANGED <<graph, prep, status, disk, good, torn, touched, asked, quiet>>
      /\ clock \in Nat
  BY DEF Exec, TypeInv
<1>2. \A n \in NodeId : status[n] = "waiting"
  BY <1>1 DEF OrderInv, Waiting
<1>3. status' \in [NodeId -> Statuses]
  BY <1>1 DEF TypeInv
<1>4. TypeInv' /\ \A m \in Ids(graph) : Time(m)' = Time(m)
  BY <1>1, <1>3, FilesSame
<1>5. PrepInv' /\ GoodInv' /\ CleanInv'
  BY <1>1, PrepFrame, GoodFrame, CleanFrame DEF Held
<1>6. OrderInv'
  BY <1>1, <1>2 DEF OrderInv
<1>7. TimeInv'
  BY <1>1, <1>4, NodeFacts DEF TimeInv
<1> QED BY <1>4, <1>5, <1>6, <1>7

LEMMA StartKeeps == ASSUME SInv, NEW n \in Ids(graph), Start(n) PROVE SInv'
<1> USE DEF SInv
<1>1. /\ outcome = "building" /\ n \in Todo /\ status[n] = "waiting"
      /\ \A m \in Todo \cap Inputs(graph, n) : status[m] = "built"
      /\ status' = [status EXCEPT ![n] = "running"]
      /\ UNCHANGED <<graph, prep, disk, clock, good, torn, touched, outcome, asked, quiet>>
  BY StartFacts
<1>2. /\ n \in NodeId /\ clock \in Nat /\ status \in [NodeId -> Statuses]
      /\ Ids(graph) \subseteq NodeId
  BY NodeFacts DEF TypeInv
<1>3. /\ status' \in [NodeId -> Statuses] /\ status'[n] = "running"
      /\ \A m \in NodeId : m # n => status'[m] = status[m]
  BY <1>1, <1>2 DEF Statuses
<1>4. TypeInv' /\ \A m \in Ids(graph) : Time(m)' = Time(m)
  BY <1>1, <1>2, <1>3, FilesSame
<1>5. PrepInv' /\ GoodInv'
  BY <1>1, PrepFrame, GoodFrame
<1>6. CleanInv'
  BY <1>1, <1>2, <1>3, CleanFrame
<1>7. OrderInv'
  <2>1. Todo' = Todo /\ \A m : Inputs(graph, m)' = Inputs(graph, m)
    BY <1>1 DEF Todo
  <2>2. Todo \subseteq NodeId
    BY <1>1, <1>2 DEF PrepInv, Held, Todo
  <2>3. ASSUME NEW k \in NodeId, status'[k] # "waiting"
        PROVE  k \in Todo /\ \A m \in Todo \cap Inputs(graph, k) : status'[m] = "built"
    BY <1>1, <1>3, <2>2, <2>3 DEF OrderInv
  <2> QED BY <1>1, <2>1, <2>3 DEF OrderInv
<1>8. TimeInv'
  BY <1>1, <1>2, <1>3, <1>4 DEF TimeInv
<1> QED BY <1>4, <1>5, <1>6, <1>7, <1>8

LEMMA ReturnKeeps == ASSUME SInv, Return PROVE SInv'
<1> USE DEF SInv
<1>1. /\ UNCHANGED <<graph, prep, disk, clock, good, torn, asked, quiet, status>>
      /\ outcome = "building" /\ outcome' \in {"success", "failure"}
      /\ outcome' = "success" => \A n \in Todo : status[n] = "built"
      /\ outcome' = "failure" => \A n \in NodeId : status[n] # "running"
  BY DEF Return, Order!Succeed, Order!Fail, fileVars
<1>2. \A n \in NodeId : status[n] # "running"
  BY <1>1 DEF OrderInv
<1>3. TypeInv'
  BY <1>1 DEF TypeInv
<1>4. PrepInv' /\ GoodInv' /\ CleanInv'
  BY <1>1, PrepFrame, GoodFrame, CleanFrame DEF Held
<1>5. OrderInv' /\ TimeInv'
  BY <1>1, <1>2 DEF OrderInv, TimeInv, Todo
<1> QED BY <1>3, <1>4, <1>5

-----------------------------------------------------------------------------
(* The end of a builder.                                                   *)

(* Who waits for a node that runs has not begun.                           *)
LEMMA UsersWait ==
  ASSUME SInv, NEW n \in Ids(graph), status[n] = "running", n \in Todo,
         NEW k \in Ids(graph), n \in Inputs(graph, k)
  PROVE  /\ status[k] = "waiting" /\ k # n /\ graph.nodes[k].target
         /\ outcome = "building" => Time(k) < clock
<1>1. k \in NodeId /\ n \in NodeId
  BY NodeFacts DEF SInv
<1>2. outcome = "building"
  BY <1>1 DEF SInv, OrderInv
<1>3. status[k] = "waiting"
  BY <1>1, <1>2 DEF SInv, OrderInv
<1>4. graph.nodes[k].target
  BY SourceFacts DEF SInv
<1> QED BY <1>2, <1>3, <1>4 DEF SInv, TimeInv

LEMMA EndKeepsOrder ==
  ASSUME SInv, NEW n \in Ids(graph), Succeed(n) \/ Fail(n)
  PROVE  /\ PrepInv' /\ OrderInv'
         /\ status' \in [NodeId -> Statuses] /\ status'[n] # "running"
         /\ \A m \in NodeId : m # n => status'[m] = status[m]
<1> USE DEF SInv
<1>1. /\ status[n] = "running" /\ outcome = "building" /\ n \in Todo
      /\ UNCHANGED <<graph, prep, outcome, asked, quiet>>
  BY EndFacts
<1>2. PICK s \in {"built", "failed"} : status' = [status EXCEPT ![n] = s]
  BY EndFacts
<1>3. /\ n \in NodeId /\ status \in [NodeId -> Statuses] /\ Ids(graph) \subseteq NodeId
  BY NodeFacts DEF TypeInv
<1>4. /\ status' \in [NodeId -> Statuses] /\ status'[n] = s
      /\ \A m \in NodeId : m # n => status'[m] = status[m]
  BY <1>2, <1>3 DEF Statuses
<1>5. PrepInv'
  BY <1>1, PrepFrame
<1>6. Todo' = Todo /\ \A m : Inputs(graph, m)' = Inputs(graph, m)
  BY <1>1 DEF Todo
<1>7. Todo \subseteq Ids(graph)
  BY <1>1 DEF PrepInv, Held, Todo
<1>8. ASSUME NEW k \in NodeId, status'[k] # "waiting"
      PROVE  k \in Todo /\ \A m \in Todo \cap Inputs(graph, k) : status'[m] = "built"
  <2>1. status[k] # "waiting"
    BY <1>1, <1>4, <1>8
  <2>2. k \in Todo /\ \A m \in Todo \cap Inputs(graph, k) : status[m] = "built"
    BY <1>1, <2>1 DEF OrderInv
  <2> QED BY <1>1, <1>3, <1>4, <1>7, <2>2
<1>9. OrderInv'
  BY <1>1, <1>6, <1>8 DEF OrderInv
<1> QED BY <1>4, <1>5, <1>9

LEMMA EndKeepsNothingWritten ==
  ASSUME SInv, NEW n \in Ids(graph), Succeed(n) \/ Fail(n), NothingWritten(n)
  PROVE  SInv'
<1> USE DEF SInv
<1>1. /\ UNCHANGED <<graph, prep, outcome, asked, quiet, disk, clock, good, torn>>
      /\ ~(status'[n] = "built" /\ Writes(n)) /\ clock \in Nat
      /\ status[n] = "running" /\ Ids(graph) \subseteq NodeId
  BY EndFacts, NodeFacts DEF NothingWritten, TypeInv
<1>2. /\ PrepInv' /\ OrderInv' /\ status' \in [NodeId -> Statuses]
      /\ \A m \in NodeId : m # n => status'[m] = status[m]
  BY EndKeepsOrder
<1>3. TypeInv' /\ \A m \in Ids(graph) : Time(m)' = Time(m)
  BY <1>1, <1>2, FilesSame
<1>4. GoodInv'
  BY <1>1, GoodFrame
<1>5. CleanInv'
  BY <1>1, <1>2, CleanFrame
<1>6. TimeInv'
  BY <1>1, <1>2, <1>3 DEF TimeInv
<1> QED BY <1>2, <1>3, <1>4, <1>5, <1>6

(* A written file is at least as new as all others, and no user of it has   *)
(* been written.                                                           *)
LEMMA EndKeepsFileWritten ==
  ASSUME SInv, NEW n \in Ids(graph), Succeed(n) \/ Fail(n), FileWritten(n)
  PROVE  SInv'
<1> USE DEF SInv
<1>1. /\ status[n] = "running" /\ outcome = "building" /\ n \in Todo
      /\ UNCHANGED <<graph, prep, outcome, asked, quiet>>
      /\ Ids(graph) \subseteq NodeId /\ clock \in Nat
  BY EndFacts, NodeFacts DEF TypeInv
<1>2. /\ PrepInv' /\ OrderInv' /\ status' \in [NodeId -> Statuses]
      /\ \A m \in NodeId : m # n => status'[m] = status[m]
      /\ status'[n] # "running"
  BY EndKeepsOrder
<1>3. /\ Writes(n) /\ clock' \in Nat /\ clock <= clock'
      /\ good' \ {n} = good \ {n} /\ torn' \ {n} = torn \ {n}
  BY DEF FileWritten
<1>4. PICK v \in {0, clock'} :
         /\ disk' = [disk EXCEPT ![Path_(n)] = v]
         /\ n \in good' \/ status'[n] = "built" => v = clock'
         /\ n \notin good' \cup torn' => v = 0 \/ \E d \in Inputs(graph, n) : d \notin good
  BY DEF FileWritten
<1>5. TypeInv' /\ \A m \in Ids(graph) : Time(m)' = IF m = n THEN v ELSE Time(m)
  <2>1. v \in Nat /\ v <= clock' /\ graph' = graph
    BY <1>1, <1>3
  <2> QED BY <1>2, <1>3, <1>4, <2>1, FileTouched
<1>6. \A m \in Ids(graph) : /\ Time(m) \in Nat /\ Time(m) <= clock
                            /\ Inputs(graph, m) \subseteq Ids(graph)
  BY NodeFacts
<1>7. \A k \in Ids(graph) : n \in Inputs(graph, k) =>
         status[k] = "waiting" /\ k # n /\ Time(k) < clock
  BY <1>1, UsersWait
<1>8. \A m : Inputs(graph, m)' = Inputs(graph, m) /\ (Writes(m)' <=> Writes(m))
  BY <1>1 DEF Writes
<1>9. clock > 0
  BY <1>1 DEF TimeInv
<1>10. TimeInv'
  <2> SUFFICES ASSUME NEW m \in Ids(graph), graph.nodes[m].target,
                      status'[m] \in {"waiting", "running"}
               PROVE  Time(m)' < clock'
    BY <1>1, <1>3, <1>9 DEF TimeInv
  <2>1. m # n /\ status[m] \in {"waiting", "running"}
    BY <1>1, <1>2, EndFacts
  <2>2. Time(m) < clock
    BY <1>1, <2>1 DEF TimeInv
  <2> QED BY <1>1, <1>3, <1>5, <1>6, <2>1, <2>2
<1>11. GoodInv'
  <2> SUFFICES ASSUME Acyclic(graph), NEW m \in Ids(graph),
                      ~graph.nodes[m].phony, ~graph.nodes[m].always,
                      Time(m)' > 0, m \notin good' \cup torn'
               PROVE  \E d \in Inputs(graph, m) :
                        d \notin good' \/ Time(d)' = 0 \/ Time(d)' > Time(m)'
    BY <1>1, <1>8 DEF GoodInv
  <2>1. CASE m = n
    <3>1. PICK d \in Inputs(graph, n) : d \notin good
      BY <1>4, <1>5, <2>1
    <3>2. d # n
      BY <1>7, <3>1
    <3> QED BY <1>3, <2>1, <3>1, <3>2
  <2>2. CASE m # n
    <3>1. m \notin good \cup torn /\ Time(m)' = Time(m)
      BY <1>3, <1>5, <2>2
    <3>2. PICK d \in Inputs(graph, m) : d \notin good \/ Time(d) = 0 \/ Time(d) > Time(m)
      BY <3>1 DEF GoodInv
    <3>3. CASE d = n
      <4>1. Time(m) < clock /\ Time(d)' = v
        BY <1>5, <1>7, <3>2, <3>3
      <4>2. CASE n \in good'
        <5>1. Time(d)' > Time(m)'
          BY <1>1, <1>3, <1>4, <1>6, <3>1, <4>1, <4>2
        <5> QED BY <5>1
      <4>3. CASE n \notin good'
        BY <3>3, <4>3
      <4> QED BY <4>2, <4>3
    <3>4. CASE d # n
      <4>1. Time(d)' = Time(d) /\ (d \notin good => d \notin good')
        BY <1>3, <1>5, <1>6, <3>4
      <4> QED BY <3>1, <3>2, <4>1
    <3> QED BY <3>3, <3>4
  <2> QED BY <2>1, <2>2
<1>12. CleanInv'
  <2> SUFFICES ASSUME Acyclic(graph), quiet PROVE CleanInv'
    BY <1>1 DEF CleanInv
  <2>1. /\ \A m \in prep.inSub \ prep.dirty :
             ~OwnReason(graph.nodes[m], disk) /\ Inputs(graph, m) \cap prep.dirty = {}
        /\ \A m \in Ids(graph) : status[m] = "built" /\ Writes(m) =>
             Time(m) > 0 /\ \A d \in Inputs(graph, m) : Time(d) <= Time(m)
    BY <1>1 DEF CleanInv, Held
  <2>2. n \in prep.dirty /\ prep.inSub \subseteq Ids(graph)
    BY <1>1 DEF Todo, PrepInv, Held
  <2>3. ASSUME NEW m \in prep.inSub \ prep.dirty
        PROVE  ~OwnReason(graph.nodes[m], disk')
    <3>1. m # n /\ n \notin Inputs(graph, m) /\ m \in Ids(graph)
      BY <2>1, <2>2
    <3>2. Stale(m)' <=> Stale(m)
      BY <1>5, <1>6, <1>8, <3>1 DEF Stale
    <3>3. OwnReason(graph.nodes[m], disk)' <=>
            (graph.nodes[m].always \/ (~graph.nodes[m].phony /\ Stale(m)))'
      BY <1>1, <1>5, <3>1, ReasonOfNodeNext
    <3> QED BY <1>1, <2>1, <3>1, <3>2, <3>3, ReasonOfNode
  <2>4. ASSUME NEW m \in Ids(graph), status'[m] = "built", Writes(m)
        PROVE  Time(m)' > 0 /\ \A d \in Inputs(graph, m) : Time(d)' <= Time(m)'
    <3>1. CASE m = n
      <4>1. Time(m)' = clock'
        BY <1>4, <1>5, <2>4, <3>1
      <4> QED BY <1>1, <1>3, <1>4, <1>5, <1>6, <1>9, <4>1
    <3>2. CASE m # n
      <4>1. status[m] = "built" /\ Time(m)' = Time(m)
        BY <1>1, <1>2, <1>5, <2>4, <3>2
      <4>2. n \notin Inputs(graph, m)
        BY <1>7, <4>1
      <4> QED BY <1>5, <1>6, <2>1, <2>4, <4>1, <4>2
    <3> QED BY <3>1, <3>2
  <2> QED BY <1>1, <1>8, <2>1, <2>3, <2>4 DEF CleanInv
<1> QED BY <1>2, <1>5, <1>10, <1>11, <1>12

LEMMA EndKeeps ==
  ASSUME SInv, NEW n \in Ids(graph), Succeed(n) \/ Fail(n) PROVE SInv'
BY EndFacts, EndKeepsNothingWritten, EndKeepsFileWritten

-----------------------------------------------------------------------------
(* The end of the script, and the developer.                               *)

LEMMA ExitKeeps == ASSUME SInv, Exit PROVE SInv'
<1> USE DEF SInv
<1>1. PICK cut \in SUBSET {n \in Running : Writes(n)} :
        /\ disk' = [p \in DOMAIN disk |->
                      IF \E n \in cut : p = Path_(n) THEN clock ELSE disk[p]]
        /\ good' = good \ cut /\ torn' = torn \cup cut
  BY DEF Exit
<1>2. /\ UNCHANGED <<graph, clock>> /\ status' = Waiting /\ outcome' = "none"
      /\ clock \in Nat
  BY DEF Exit, TypeInv
<1>3. status' \in [NodeId -> Statuses] /\ \A n \in NodeId : status'[n] = "waiting"
  BY <1>2 DEF Waiting, Statuses
<1>4. \A p \in DOMAIN disk : disk[p] \in Nat /\ disk[p] <= clock
  BY DEF TypeInv
<1>5. /\ DOMAIN disk' = DOMAIN disk
      /\ \A p \in DOMAIN disk : disk'[p] \in Nat /\ disk'[p] <= clock
  BY <1>1, <1>2, <1>4
<1>6. disk' \in [DOMAIN disk' -> Nat]
  BY <1>1, <1>5
<1>7. TypeInv'
  BY <1>2, <1>3, <1>5, <1>6 DEF TypeInv
<1>8. PrepInv' /\ OrderInv' /\ TimeInv' /\ CleanInv'
  BY <1>2, <1>3 DEF PrepInv, OrderInv, TimeInv, CleanInv, Held
<1>9. ASSUME NEW m \in Ids(graph), m \notin cut PROVE Time(m)' = Time(m)
  <2>1. /\ cut \subseteq Ids(graph) /\ Path_(m) \in DOMAIN disk
        /\ ~\E n \in cut : Path_(m) = Path_(n)
    BY <1>9, NodeFacts DEF Running
  <2>2. disk'[Path_(m)] = disk[Path_(m)]
    BY <1>1, <2>1
  <2> QED BY <1>2, <2>2 DEF Time, Path_
<1>10. GoodInv'
  <2> SUFFICES ASSUME Acyclic(graph), NEW m \in Ids(graph),
                      ~graph.nodes[m].phony, ~graph.nodes[m].always,
                      Time(m)' > 0, m \notin good' \cup torn'
               PROVE  \E d \in Inputs(graph, m) :
                        d \notin good' \/ Time(d)' = 0 \/ Time(d)' > Time(m)'
    BY <1>2 DEF GoodInv
  <2>1. m \notin cut /\ m \notin good \cup torn /\ Time(m)' = Time(m)
    BY <1>1, <1>9
  <2>2. PICK d \in Inputs(graph, m) : d \notin good \/ Time(d) = 0 \/ Time(d) > Time(m)
    BY <2>1 DEF GoodInv
  <2>3. d \in Ids(graph)
    BY NodeFacts
  <2>4. CASE d \in cut
    BY <1>1, <2>4
  <2>5. CASE d \notin cut
    <3>1. Time(d)' = Time(d)
      BY <1>9, <2>3, <2>5
    <3> QED BY <1>1, <2>1, <2>2, <3>1
  <2> QED BY <2>4, <2>5
<1> QED BY <1>7, <1>8, <1>10

(* What a set of nodes waits for is what its nodes wait for.               *)
LEMMA ClosureOfSet ==
  ASSUME NEW g, GraphClosed(g), NEW S \in SUBSET Ids(g), NEW n \in Closure(g, S)
  PROVE  \E d \in S : n \in Closure(g, {d})
<1> DEFINE T == {k \in Ids(g) : \E d \in S : k \in Closure(g, {d})}
<1>1. S \subseteq T
  BY ClosureOfNode
<1>2. IsClosed(g, T)
  <2> SUFFICES ASSUME NEW k \in T, NEW i \in Inputs(g, k) PROVE i \in T
    BY DEF IsClosed
  <2>1. PICK d \in S : k \in Closure(g, {d})
    OBVIOUS
  <2>2. d \in Ids(g) /\ {d} \in SUBSET Ids(g)
    OBVIOUS
  <2>3. i \in Closure(g, {d}) /\ Inputs(g, k) \subseteq Ids(g)
    BY <2>1, <2>2, ClosureMember, InputsInGraph
  <2> QED BY <2>3
<1> HIDE DEF T
<1>3. Closure(g, S) \subseteq T
  BY <1>1, <1>2, ClosureLeast
<1> QED BY <1>3 DEF T

(* Who uses n has it as an input, or an input that uses it.                *)
LEMMA UserSeesUser ==
  ASSUME TypeInv, NEW n \in Ids(graph), NEW m \in Users(n)
  PROVE  m \in Ids(graph) /\ m # n /\ \E d \in Inputs(graph, m) : d = n \/ d \in Users(n)
<1>1. m \in Ids(graph) /\ m # n /\ n \in Closure(graph, {m})
  BY DEF Users
<1>2. GraphClosed(graph) /\ Inputs(graph, m) \in SUBSET Ids(graph)
  BY <1>1, NodeFacts
<1>3. n \in Closure(graph, Inputs(graph, m))
  BY <1>1, <1>2, ClosureOfNode
<1>4. PICK d \in Inputs(graph, m) : n \in Closure(graph, {d})
  BY <1>2, <1>3, ClosureOfSet
<1> QED BY <1>1, <1>2, <1>4 DEF Users

(* An edited source is newer than all that is not good because of it.      *)
LEMMA EditKeeps == ASSUME SInv, NEW n \in Ids(graph), Edit(n) PROVE SInv'
<1> USE DEF SInv
<1>1. /\ ~graph.nodes[n].target /\ clock' = clock + 1
      /\ disk' = [disk EXCEPT ![Path_(n)] = clock']
      /\ good' = (good \cup {n}) \ Users(n) /\ torn' = torn
      /\ ~quiet' /\ UNCHANGED <<graph, prep, status, outcome, asked>>
      /\ clock \in Nat /\ status \in [NodeId -> Statuses]
  BY DEF Edit, Source, scriptVars, TypeInv
<1>2. TypeInv' /\ \A m \in Ids(graph) : Time(m)' = IF m = n THEN clock' ELSE Time(m)
  <2>1. clock' \in Nat /\ clock <= clock' /\ clock' <= clock'
    BY <1>1
  <2>2. graph' = graph /\ status' \in [NodeId -> Statuses]
    BY <1>1
  <2>3. disk' = [disk EXCEPT ![Path_(n)] = clock']
    BY <1>1
  <2> QED BY <2>1, <2>2, <2>3, FileTouched
<1>3. PrepInv' /\ CleanInv'
  BY <1>1, PrepFrame, CleanNotQuiet
<1>4. OrderInv'
  <2>1. Todo' = Todo /\ Waiting' = Waiting /\ \A m : Inputs(graph, m)' = Inputs(graph, m)
    BY <1>1 DEF Todo, Waiting
  <2> QED BY <1>1, <2>1 DEF OrderInv
<1>5. \A m \in Ids(graph) : Time(m) \in Nat /\ Time(m) <= clock /\ Inputs(graph, m) \subseteq Ids(graph)
  BY NodeFacts
<1>6. TimeInv'
  BY <1>1, <1>2, <1>5 DEF TimeInv
<1>7. GoodInv'
  <2> SUFFICES ASSUME Acyclic(graph), NEW m \in Ids(graph),
                      ~graph.nodes[m].phony, ~graph.nodes[m].always,
                      Time(m)' > 0, m \notin good' \cup torn'
               PROVE  \E d \in Inputs(graph, m) :
                        d \notin good' \/ Time(d)' = 0 \/ Time(d)' > Time(m)'
    BY <1>1 DEF GoodInv
  <2>1. m # n
    BY <1>1 DEF Users
  <2>2. Time(m)' = Time(m) /\ Time(n)' > Time(m)'
    BY <1>1, <1>2, <1>5, <2>1
  <2>3. CASE m \in Users(n)
    <3>1. PICK d \in Inputs(graph, m) : d = n \/ d \in Users(n)
      BY <2>3, UserSeesUser
    <3> QED BY <1>1, <2>2, <3>1
  <2>4. CASE m \notin Users(n)
    <3>1. m \notin good \cup torn /\ Time(m) > 0
      BY <1>1, <2>2, <2>4
    <3>2. PICK d \in Inputs(graph, m) : d \notin good \/ Time(d) = 0 \/ Time(d) > Time(m)
      BY <3>1 DEF GoodInv
    <3>3. CASE d = n
      BY <2>2, <3>3
    <3>4. CASE d # n
      <4>1. Time(d)' = Time(d) /\ (d \notin good => d \notin good')
        BY <1>1, <1>2, <1>5, <3>4
      <4> QED BY <2>2, <3>2, <4>1
    <3> QED BY <3>3, <3>4
  <2> QED BY <2>3, <2>4
<1> QED BY <1>2, <1>3, <1>4, <1>6, <1>7

(* A missing file is seen; so is what is not good because of it.           *)
LEMMA RemoveKeeps == ASSUME SInv, NEW n \in Ids(graph), Remove(n) PROVE SInv'
<1> USE DEF SInv
<1>1. /\ disk' = [disk EXCEPT ![Path_(n)] = 0]
      /\ good' = good \ (IF Source(n) THEN {n} \cup Users(n) ELSE {n})
      /\ torn' = torn \ {n}
      /\ ~quiet' /\ UNCHANGED <<graph, prep, status, outcome, asked, clock>>
      /\ clock \in Nat /\ status \in [NodeId -> Statuses]
  BY DEF Remove, scriptVars, TypeInv
<1>2. TypeInv' /\ \A m \in Ids(graph) : Time(m)' = IF m = n THEN 0 ELSE Time(m)
  <2>1. 0 \in Nat /\ 0 <= clock' /\ clock' \in Nat /\ clock <= clock'
    BY <1>1
  <2>2. graph' = graph /\ status' \in [NodeId -> Statuses]
    BY <1>1
  <2>3. disk' = [disk EXCEPT ![Path_(n)] = 0]
    BY <1>1
  <2> QED BY <2>1, <2>2, <2>3, FileTouched
<1>3. PrepInv' /\ CleanInv'
  BY <1>1, PrepFrame, CleanNotQuiet
<1>4. OrderInv'
  <2>1. Todo' = Todo /\ Waiting' = Waiting /\ \A m : Inputs(graph, m)' = Inputs(graph, m)
    BY <1>1 DEF Todo, Waiting
  <2> QED BY <1>1, <2>1 DEF OrderInv
<1>5. \A m \in Ids(graph) : Time(m) \in Nat /\ Time(m) <= clock /\ Inputs(graph, m) \subseteq Ids(graph)
  BY NodeFacts
<1>6. TimeInv'
  BY <1>1, <1>2, <1>5 DEF TimeInv
<1>7. GoodInv'
  <2> SUFFICES ASSUME Acyclic(graph), NEW m \in Ids(graph),
                      ~graph.nodes[m].phony, ~graph.nodes[m].always,
                      Time(m)' > 0, m \notin good' \cup torn'
               PROVE  \E d \in Inputs(graph, m) :
                        d \notin good' \/ Time(d)' = 0 \/ Time(d)' > Time(m)'
    BY <1>1 DEF GoodInv
  <2>1. m # n /\ Time(m)' = Time(m)
    BY <1>2
  <2>2. CASE Source(n) /\ m \in Users(n)
    <3>1. PICK d \in Inputs(graph, m) : d = n \/ d \in Users(n)
      BY <2>2, UserSeesUser
    <3> QED BY <1>1, <2>2, <3>1
  <2>3. CASE ~(Source(n) /\ m \in Users(n))
    <3>1. m \notin good \cup torn /\ Time(m) > 0
      BY <1>1, <2>1, <2>3
    <3>2. PICK d \in Inputs(graph, m) : d \notin good \/ Time(d) = 0 \/ Time(d) > Time(m)
      BY <3>1 DEF GoodInv
    <3>3. CASE d = n
      BY <1>1, <3>3
    <3>4. CASE d # n
      <4>1. Time(d)' = Time(d) /\ (d \notin good => d \notin good')
        BY <1>1, <1>2, <1>5, <3>4
      <4> QED BY <2>1, <3>2, <4>1
    <3> QED BY <3>3, <3>4
  <2> QED BY <2>2, <2>3
<1> QED BY <1>2, <1>3, <1>4, <1>6, <1>7

-----------------------------------------------------------------------------
LEMMA SInvKept == SInv /\ [Next]_vars => SInv'
<1> SUFFICES ASSUME SInv, [Next]_vars PROVE SInv'
  OBVIOUS
<1>1. ASSUME NEW targets \in Targets, Prepare(targets) PROVE SInv'
  BY <1>1, PrepareKeeps
<1>2. ASSUME Exec PROVE SInv'
  BY <1>2, ExecKeeps
<1>3. ASSUME Return PROVE SInv'
  BY <1>3, ReturnKeeps
<1>4. ASSUME Exit PROVE SInv'
  BY <1>4, ExitKeeps
<1>5. ASSUME NEW n \in Ids(graph), Start(n) PROVE SInv'
  BY <1>5, StartKeeps
<1>6. ASSUME NEW n \in Ids(graph), Succeed(n) \/ Fail(n) PROVE SInv'
  BY <1>6, EndKeeps
<1>7. ASSUME NEW n \in Ids(graph), Edit(n) PROVE SInv'
  BY <1>7, EditKeeps
<1>8. ASSUME NEW n \in Ids(graph), Remove(n) PROVE SInv'
  BY <1>8, RemoveKeeps
<1>9. CASE UNCHANGED vars
  <2>1. /\ UNCHANGED <<graph, prep, disk, clock, good, torn, touched, status, outcome, asked, quiet>>
        /\ clock \in Nat /\ status \in [NodeId -> Statuses]
    BY <1>9 DEF vars, scriptVars, fileVars, SInv, TypeInv
  <2>2. TypeInv'
    BY <2>1, FilesSame DEF SInv
  <2>3. PrepInv' /\ GoodInv' /\ CleanInv'
    BY <2>1, PrepFrame, GoodFrame, CleanFrame DEF SInv
  <2>4. /\ Todo' = Todo /\ Waiting' = Waiting /\ \A m : Inputs(graph, m)' = Inputs(graph, m)
        /\ \A m : Time(m)' = Time(m)
    BY <2>1 DEF Todo, Waiting, Time, Path_
  <2>5. OrderInv' /\ TimeInv'
    BY <2>1, <2>4 DEF OrderInv, TimeInv, SInv
  <2> QED BY <2>2, <2>3, <2>5 DEF SInv
<1> QED BY <1>1, <1>2, <1>3, <1>4, <1>5, <1>6, <1>7, <1>8, <1>9 DEF Next

LEMMA SessionInv == Spec => []SInv
BY SInit, SInvKept, PTL DEF Spec

-----------------------------------------------------------------------------
(* What follows.                                                           *)

(* SearchesExact: plan_subgraph finds the targets and all they wait for, on *)
(* any graph; without cycles eval_node_dirty finds among them exactly those *)
(* that have a reason or wait for one that has.                            *)
THEOREM SearchesFindAll == Spec => []SearchesExact
<1>1. SInv => SearchesExact
  <2> SUFFICES ASSUME SInv, outcome = "prepared" PROVE SearchesExact
    BY DEF SearchesExact
  <2>1. GraphClosed(graph)
    BY NodeFacts DEF SInv
  <2>2. /\ prep.inSub = Closure(graph, {graph.nodeMap[asked[k]] : k \in DOMAIN asked})
        /\ prep.inSub \subseteq Ids(graph) /\ IsClosed(graph, prep.inSub)
        /\ quiet => prep.dirty = DirtyIn(graph, disk, prep.inSub)
    BY DEF SInv, PrepInv, Held
  <2>3. Acyclic(graph) =>
          DirtyIn(graph, disk, prep.inSub) = DirtyByReason(graph, disk, prep.inSub)
    BY <2>1, <2>2, DirtyExact
  <2> QED BY <2>2, <2>3 DEF SearchesExact
<1> QED BY <1>1, SessionInv, PTL

(* PreparedIsPlan: the counters that zmm_bg_prepare takes from waits_on are *)
(* the entries of dependents that worker_fn will count down.               *)
THEOREM PrepareMakesPlans == Spec => []PreparedIsPlan
<1>1. SInv => PreparedIsPlan
  <2> SUFFICES ASSUME SInv, outcome = "prepared" PROVE PreparedIsPlan
    BY DEF PreparedIsPlan
  <2> DEFINE p == PlanOfPrepared(graph, prep)
  <2>1. GraphClosed(graph) /\ EdgesMirrored(graph)
    BY DEF SInv, TypeInv, WellFormed
  <2>2. /\ prep.inSub \subseteq Ids(graph) /\ prep.dirty \subseteq prep.inSub
        /\ \A t \in Ids(graph) :
             prep.pending[t] = IF t \in prep.inSub /\ t \in prep.dirty
                               THEN CountPending(graph, t, prep.dirty) ELSE 0
        /\ prep.remaining = Cardinality(Todo)
    BY DEF SInv, PrepInv, Held
  <2>3. /\ p.dirty = Todo /\ Todo = prep.dirty
        /\ \A d \in Ids(graph) : p.dependents[d] = graph.nodes[d].dependents
    BY <2>2 DEF PlanOfPrepared, Todo
  <2> HIDE DEF p
  <2>4. ASSUME NEW t \in Ids(graph) PROVE prep.pending[t] = PendingAtFirst(p, t)
    <3>1. CountPending(graph, t, prep.dirty) = Cardinality(SlotsTo(p, t))
      BY <2>1, <2>2, <2>3, CountsMirror
    <3> QED BY <2>2, <2>3, <3>1 DEF PendingAtFirst
  <2> QED BY <2>2, <2>3, <2>4 DEF PreparedIsPlan, p
<1> QED BY <1>1, SessionInv, PTL

(* What zmm_bg_prepare hands to zmm_bg_exec is a plan, of finitely many     *)
(* entries: all that is assumed of a plan in BuildExec but for the width of *)
(* the counters.                                                           *)
THEOREM PreparedIsWellFormed ==
  Spec => [](outcome \in Held =>
               /\ PlanOver(Ids(graph), PlanOfPrepared(graph, prep))
               /\ IsFiniteSet(Slots(PlanOfPrepared(graph, prep))))
<1> DEFINE p == PlanOfPrepared(graph, prep)
<1>1. SInv /\ outcome \in Held => PlanOver(Ids(graph), p) /\ IsFiniteSet(Slots(p))
  <2> SUFFICES ASSUME SInv, outcome \in Held
               PROVE  PlanOver(Ids(graph), p) /\ IsFiniteSet(Slots(p))
    OBVIOUS
  <2>1. GraphClosed(graph) /\ IsFiniteSet(Ids(graph))
    BY NodeFacts, IdsFinite DEF SInv
  <2>2. p.dirty \subseteq Ids(graph)
    BY DEF PlanOfPrepared, SInv, PrepInv
  <2>3. /\ p.dependents = [d \in Ids(graph) |-> graph.nodes[d].dependents]
        /\ \A d \in Ids(graph) : graph.nodes[d].dependents \in Seq(Ids(graph))
    BY <2>1 DEF PlanOfPrepared, GraphClosed, NodeOver
  <2>4. p.builders \subseteq Ids(graph)
    BY DEF PlanOfPrepared
  <2>5. PlanOver(Ids(graph), p)
    <3> HIDE DEF p
    <3> QED BY <2>2, <2>3, <2>4 DEF PlanOver
  <2> DEFINE Entries(d) == {<<d, i>> : i \in 1 .. Len(p.dependents[d])}
  <2>6. ASSUME NEW d \in p.dirty PROVE IsFiniteSet(Entries(d))
    <3>1. Len(p.dependents[d]) \in Nat
      <4> HIDE DEF p
      <4> QED BY <2>2, <2>3, LenProperties
    <3>2. IsFiniteSet(1 .. Len(p.dependents[d]))
      <4> DEFINE L == Len(p.dependents[d])
      <4> HIDE DEF p
      <4>1. 1 \in Int /\ L \in Int
        BY <3>1
      <4> HIDE DEF L
      <4>2. IsFiniteSet(1 .. L)
        BY <4>1, FS_Interval
      <4> QED BY <4>2 DEF L
    <3> DEFINE f == [i \in 1 .. Len(p.dependents[d]) |-> <<d, i>>]
    <3>3. f \in Surjection(1 .. Len(p.dependents[d]), Entries(d))
      <4> HIDE DEF p
      <4> QED BY DEF Surjection
    <3> HIDE DEF f, p, Entries
    <3> QED BY <3>2, <3>3, FS_Surjection
  <2>7. IsFiniteSet(p.dirty)
    BY <2>1, <2>2, FS_Subset
  <2>8. IsFiniteSet({Entries(d) : d \in p.dirty})
    <3> DEFINE f == [d \in p.dirty |-> Entries(d)]
    <3> HIDE DEF p, Entries
    <3>1. f \in Surjection(p.dirty, {Entries(d) : d \in p.dirty})
      BY DEF Surjection
    <3> HIDE DEF f
    <3> QED BY <2>7, <3>1, FS_Surjection
  <2>9. IsFiniteSet(UNION {Entries(d) : d \in p.dirty})
    <3> HIDE DEF p, Entries
    <3> QED BY <2>6, <2>8, FS_UNION
  <2> QED BY <2>5, <2>9 DEF Slots
<1> HIDE DEF p
<1> QED BY <1>1, SessionInv, PTL DEF p

(* SomethingIsReady: without cycles zmm_bg_exec finds a leaf.              *)
THEOREM BuildsCanBegin == Spec => []SomethingIsReady
<1>1. SInv => SomethingIsReady
  <2> SUFFICES ASSUME SInv, outcome = "prepared", prep.remaining > 0, Acyclic(graph)
               PROVE  \E t \in Todo : prep.pending[t] = 0
    BY DEF SomethingIsReady
  <2>1. /\ prep.inSub \subseteq Ids(graph) /\ prep.dirty \subseteq prep.inSub
        /\ \A t \in Ids(graph) :
             prep.pending[t] = IF t \in prep.inSub /\ t \in prep.dirty
                               THEN CountPending(graph, t, prep.dirty) ELSE 0
        /\ prep.remaining = Cardinality(Todo)
    BY DEF SInv, PrepInv, Held
  <2>2. Todo = prep.dirty /\ Todo \subseteq Ids(graph) /\ GraphClosed(graph)
    BY <2>1, NodeFacts DEF Todo, SInv
  <2>3. Todo # {}
    BY <2>1, FS_EmptySet
  <2>4. PICK t \in Todo : Inputs(graph, t) \cap Todo = {}
    BY <2>2, <2>3, LowestNode
  <2>5. {i \in DOMAIN graph.nodes[t].waitsOn : graph.nodes[t].waitsOn[i] \in prep.dirty} = {}
    BY <2>2, <2>4 DEF Inputs
  <2>6. CountPending(graph, t, prep.dirty) = 0
    BY <2>5, FS_EmptySet DEF CountPending
  <2> QED BY <2>1, <2>2, <2>6
<1> QED BY <1>1, SessionInv, PTL

(* NothingMissed: whatever was edited, built, failed or killed before, and  *)
(* in whatever order, a prepare of everything finds every file that is not  *)
(* as a fresh build makes it, save what was torn and what a file with the   *)
(* name of a phony target hides.                                           *)
THEOREM NoEditIsMissed == Spec => []NothingMissed
<1>1. SInv => NothingMissed
  <2> DEFINE dirty == DirtyIn(graph, disk, Ids(graph))
  <2> SUFFICES ASSUME SInv, Acyclic(graph), NEW n \in Ids(graph) \ dirty,
                      ~graph.nodes[n].phony, n \notin good,
                      \A m \in Closure(graph, {n}) : m \notin torn /\ ~FileOfPhony(m)
               PROVE  FALSE
    BY DEF NothingMissed
  <2> DEFINE A == {k \in Closure(graph, {n}) : ~graph.nodes[k].phony /\ k \notin good}
  <2>1. GraphClosed(graph) /\ {n} \in SUBSET Ids(graph)
    BY NodeFacts DEF SInv
  <2>2. n \in Closure(graph, {n}) /\ Closure(graph, {n}) \subseteq Ids(graph)
    BY <2>1, ClosureLeast
  <2>3. \A m \in Closure(graph, {n}) : ~OwnReason(graph.nodes[m], disk)
    <3>1. dirty = DirtyByReason(graph, disk, Ids(graph))
      BY <2>1, EverythingIsClosed, DirtyExact
    <3> QED BY <3>1 DEF DirtyByReason
  <2>4. A \in SUBSET Ids(graph) /\ A # {}
    BY <2>2
  <2>5. PICK k \in A : Inputs(graph, k) \cap A = {}
    BY <2>1, <2>4, LowestNode
  <2>6. /\ k \in Ids(graph) /\ k \in Closure(graph, {n}) /\ k \notin torn
        /\ Inputs(graph, k) \subseteq Closure(graph, {n})
    BY <2>1, <2>2, <2>5, ClosureMember
  <2>7. ~graph.nodes[k].always /\ ~Stale(k)
    BY <2>3, <2>5, <2>6, ReasonOfNode DEF SInv
  <2>8. Time(k) > 0
    BY <2>6, <2>7, NodeFacts DEF Stale, SInv
  <2>9. PICK d \in Inputs(graph, k) : d \notin good \/ Time(d) = 0 \/ Time(d) > Time(k)
    BY <2>5, <2>6, <2>7, <2>8 DEF GoodInv, SInv
  <2>10. d \notin good /\ Time(d) # 0
    BY <2>7, <2>9 DEF Stale
  <2>11. graph.nodes[d].phony /\ d \in Closure(graph, {n})
    BY <2>5, <2>6, <2>10
  <2>12. d \in Ids(graph) /\ Time(d) \in Nat
    BY <2>2, <2>11, NodeFacts DEF SInv
  <2>13. FileOfPhony(d)
    BY <2>10, <2>11, <2>12 DEF FileOfPhony, Time
  <2> QED BY <2>11, <2>13
<1> QED BY <1>1, SessionInv, PTL

(* SecondBuildIsEmpty: after a build that returns 0, of files that nobody   *)
(* else touches, what a second prepare finds dirty waits for something that *)
(* no build can make clean.                                                *)
THEOREM BuildsSettle == Spec => []SecondBuildIsEmpty
<1>1. SInv => SecondBuildIsEmpty
  <2> SUFFICES ASSUME SInv, outcome = "success", quiet, Acyclic(graph),
                      NEW n \in DirtyIn(graph, disk, prep.inSub)
               PROVE  \E m \in Closure(graph, {n}) : NeverClean(m)
    BY DEF SecondBuildIsEmpty
  <2>1. GraphClosed(graph)
    BY NodeFacts DEF SInv
  <2>2. /\ prep.inSub \subseteq Ids(graph) /\ IsClosed(graph, prep.inSub)
        /\ prep.dirty \subseteq prep.inSub
    BY DEF SInv, PrepInv, Held
  <2>3. n \in DirtyByReason(graph, disk, prep.inSub)
    BY <2>1, <2>2, DirtyExact
  <2>4. PICK m \in Closure(graph, {n}) : OwnReason(graph.nodes[m], disk)
    BY <2>3 DEF DirtyByReason
  <2>5. n \in prep.inSub /\ {n} \in SUBSET Ids(graph)
    BY <2>2, <2>3 DEF DirtyByReason
  <2>6. m \in prep.inSub /\ m \in Ids(graph)
    <3>1. Closure(graph, {n}) \subseteq prep.inSub
      BY <2>1, <2>2, <2>5, ClosureLeast
    <3> QED BY <2>2, <3>1
  <2>7. /\ \A k \in prep.inSub \ prep.dirty : ~OwnReason(graph.nodes[k], disk)
        /\ \A k \in Ids(graph) : status[k] = "built" /\ Writes(k) =>
             Time(k) > 0 /\ \A d \in Inputs(graph, k) : Time(d) <= Time(k)
    BY DEF SInv, CleanInv, Held
  <2>8. \A k \in prep.dirty : status[k] = "built"
    BY <2>2 DEF SInv, OrderInv, Todo
  <2>9. m \in prep.dirty
    BY <2>4, <2>6, <2>7
  <2>10. ASSUME NEW k \in prep.inSub, Time(k) = 0, k = m \/ k \in Inputs(graph, m),
                ~graph.nodes[m].phony
         PROVE  NeverClean(m)
    <3>1. k \in Ids(graph) /\ graph.nodeMap[Path_(k)] = k /\ disk[Path_(k)] = 0
      BY <2>2, <2>10, NodeFacts DEF SInv, Time
    <3>2. CASE Writes(k)
      <4>1. ~(0 > 0)
        OBVIOUS
      <4>2. k \notin prep.dirty
        BY <2>7, <2>8, <2>10, <3>1, <3>2, <4>1
      <4>3. ~OwnReason(graph.nodes[k], disk)
        BY <2>7, <4>2
      <4>4. ~graph.nodes[k].phony /\ Stale(k)
        BY <2>10, <3>2 DEF Writes, Stale
      <4> QED BY <3>1, <4>3, <4>4, ReasonOfNode DEF SInv
    <3>3. CASE ~Writes(k)
      <4>1. NoFile(Path_(k))
        BY <3>1, <3>3 DEF NoFile
      <4> QED BY <2>10, <4>1 DEF NeverClean
    <3> QED BY <3>2, <3>3
  <2>11. CASE graph.nodes[m].always
    BY <2>11 DEF NeverClean
  <2>12. CASE ~graph.nodes[m].always
    <3>1. ~graph.nodes[m].phony /\ Stale(m)
      BY <2>4, <2>6, <2>12, ReasonOfNode DEF SInv
    <3>2. Inputs(graph, m) \subseteq prep.inSub
      BY <2>2, <2>6 DEF IsClosed
    <3>3. CASE Time(m) = 0
      BY <2>6, <2>10, <3>1, <3>3
    <3>4. ASSUME NEW d \in Inputs(graph, m), Time(d) = 0 PROVE NeverClean(m)
      BY <2>10, <3>1, <3>2, <3>4
    <3>5. ASSUME NEW d \in Inputs(graph, m), Time(d) > Time(m) PROVE NeverClean(m)
      <4>1. Time(d) \in Nat /\ Time(m) \in Nat
        BY <2>2, <2>6, <3>2, NodeFacts DEF SInv
      <4>2. ~Writes(m)
        BY <2>6, <2>7, <2>8, <2>9, <3>5, <4>1
      <4> QED BY <3>1, <3>5, <4>2 DEF NeverClean, Time
    <3> QED BY <3>1, <3>3, <3>4, <3>5 DEF Stale
  <2> QED BY <2>11, <2>12
<1> QED BY <1>1, SessionInv, PTL
=============================================================================
