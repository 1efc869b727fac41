--------------------------- MODULE BuildExecProofs ---------------------------
(***************************************************************************)
(* Proofs about BuildExec for every number of nodes and workers, every set *)
(* of plans and every width of the counters.  For every plan: no wake-up   *)
(* of a worker is lost.  For TopDown plans: IInv of BuildExecInv is        *)
(* inductive, what zmm_bg_exec returns is true, nothing is left when it    *)
(* returns, and every step of the engine is a step of the abstract build   *)
(* of BuildOrder.                                                          *)
(***************************************************************************)
EXTENDS BuildExecInv, TaskQueueProofs, FunctionTheorems, FiniteSetTheorems

-----------------------------------------------------------------------------
(* Plans *)

(* The nodes are finitely many, and so are the entries of a plan. *)
LEMMA NodesFinite == IsFiniteSet(Node)
BY NodeAssumption, FS_Interval

LEMMA SlotsFinite ==
  ASSUME NEW p, IsPlan(p)
  PROVE  IsFiniteSet(Slots(p))
<1> DEFINE Row(d) == {<<d, i>> : i \in 1 .. Len(p.dependents[d])}
           Rows == {Row(d) : d \in p.dirty}
<1>1. ASSUME NEW d \in p.dirty PROVE IsFiniteSet(Row(d))
  <2> DEFINE len == Len(p.dependents[d])
             f == [i \in 1 .. len |-> <<d, i>>]
  <2>1. len \in Nat
    BY DEF IsPlan, PlanOver
  <2>2. IsFiniteSet(1 .. len)
    BY <2>1, FS_Interval
  <2>3. f \in Surjection(1 .. len, Row(d))
    BY DEF Surjection
  <2> HIDE DEF f
  <2> QED BY <2>2, <2>3, FS_Surjection
<1>2. IsFiniteSet(Rows)
  <2> DEFINE f == [d \in p.dirty |-> Row(d)]
  <2>1. f \in Surjection(p.dirty, Rows)
    BY DEF Surjection
  <2>2. IsFiniteSet(p.dirty)
    BY NodesFinite, FS_Subset DEF IsPlan, PlanOver
  <2> HIDE DEF f, Rows
  <2> QED BY <2>1, <2>2, FS_Surjection
<1>3. \A T \in Rows : IsFiniteSet(T)
  BY <1>1
<1> HIDE DEF Rows
<1>4. IsFiniteSet(UNION Rows)
  BY <1>2, <1>3, FS_UNION
<1> QED BY <1>4 DEF Slots, Rows

(* What zmm_bg_prepare counts fits the counters. *)
LEMMA InitialCounters ==
  ASSUME NEW p \in Plans
  PROVE  /\ \A t \in Node : PendingAtFirst(p, t) \in 0 .. WordMax
         /\ Cardinality(p.dirty) \in 0 .. WordMax
<1>1. IsPlan(p) /\ Fits(p)
  BY PlansAssumption
<1>2. IsFiniteSet(p.dirty) /\ IsFiniteSet(Slots(p))
  BY <1>1, NodesFinite, SlotsFinite, FS_Subset DEF IsPlan, PlanOver
<1>3. ASSUME NEW t \in Node
      PROVE  PendingAtFirst(p, t) \in 0 .. WordMax
  <2>1. SlotsTo(p, t) \in SUBSET Slots(p)
    BY DEF SlotsTo
  <2>2. /\ Cardinality(SlotsTo(p, t)) \in Nat
        /\ Cardinality(SlotsTo(p, t)) <= Cardinality(Slots(p))
        /\ Cardinality(Slots(p)) \in Nat
    BY <1>2, <2>1, FS_Subset, FS_CardinalityType
  <2> QED BY <1>1, <2>2, WordMaxAssumption DEF PendingAtFirst, Fits
<1>4. Cardinality(p.dirty) \in 0 .. WordMax
  BY <1>1, <1>2, FS_CardinalityType, WordMaxAssumption DEF Fits
<1> QED BY <1>3, <1>4

-----------------------------------------------------------------------------
(* Types *)

LEMMA TypeInvInit == Init => TypeInv
<1> SUFFICES ASSUME Init PROVE TypeInv
  OBVIOUS
<1>1. IsPlan(plan)
  BY PlansAssumption DEF Init
<1>2. pending \in [Node -> 0 .. WordMax] /\ remaining \in 0 .. WordMax
  BY InitialCounters DEF Init
<1>3. QueueTypeOK /\ RingIntact
  <2>1. NoQueue
    BY DEF Init
  <2>2. buffer \in [0 .. capacity - 1 -> Node \cup {NoNode}]
    BY <2>1 DEF NoQueue
  <2>3. capacity = 0 /\ count = 0 /\ sleepers = {}
    BY <2>1 DEF NoQueue
  <2>4. shutdown \in BOOLEAN
    BY <2>1, Zenon DEF NoQueue
  <2>5. Occupied = {}
    BY <2>3 DEF Occupied
  <2>6. QueueTypeOK
    BY <2>2, <2>3, <2>4 DEF QueueTypeOK
  <2> QED BY <2>3, <2>5, <2>6 DEF RingIntact
<1>4. TypeOK
  <2>1. scan \in 0 .. N
    BY NodeAssumption DEF Init
  <2>2. /\ hasError \in BOOLEAN
        /\ mpc \in MainPoint
        /\ ret \in {-1, 0, 1}
        /\ wpc \in [Worker -> WorkerPoint]
        /\ cur \in [Worker -> Node \cup {NoNode}]
        /\ nxt \in [Worker -> Nat]
        /\ runs \in [Node -> Nat]
        /\ built \in SUBSET Node
        /\ failed \in SUBSET Node
    BY DEF Init, MainPoint, WorkerPoint
  <2> QED BY <1>1, <1>2, <1>3, <2>1, <2>2 DEF TypeOK
<1>5. Lifecycle /\ Assignments
  BY DEF Init, NoQueue, Lifecycle, Assignments, Idle
<1> QED BY <1>3, <1>4, <1>5 DEF TypeInv

(* A step that leaves the queue alone keeps what is known of it. *)
LEMMA QueueFrame ==
  ASSUME UNCHANGED queueVars
  PROVE  /\ QueueTypeOK' = QueueTypeOK
         /\ RingIntact' = RingIntact
         /\ RingWritten' = RingWritten
         /\ Occupied' = Occupied
BY DEF queueVars, QueueTypeOK, RingIntact, RingWritten, Occupied, FirstFree

(* The steps of the main thread that touch neither queue nor workers. *)
MainQuiet ==
  \/ MainReturnsAtOnce \/ MainOutOfMemory \/ MainSeedTest \/ MainSeeded
  \/ MainWaitTest \/ MainSleep \/ MainSpuriousWake \/ MainReturn

LEMMA TypeInvMain ==
  ASSUME TypeInv, MainStep \/ MainSpuriousWake
  PROVE  TypeInv'
<1> USE DEF TypeInv
<1>1. CASE MainQuiet
  <2> USE <1>1 DEF MainQuiet, MainReturnsAtOnce, MainOutOfMemory, MainSeedTest,
          MainSeeded, MainWaitTest, MainSleep, MainSpuriousWake, MainReturn,
          workerVars, historyVars
  <2>1. UNCHANGED queueVars
    OBVIOUS
  <2>2. mpc' \in MainPoint /\ scan' \in 0 .. N
    BY NodeAssumption DEF TypeOK, MainPoint
  <2>3. ret' \in {-1, 0, 1}
    BY DEF TypeOK
  <2>4. TypeOK'
    BY <2>1, <2>2, <2>3, QueueFrame DEF TypeOK
  <2>5. Lifecycle'
    BY <2>1, NodeAssumption DEF TypeOK, Lifecycle, queueVars
  <2>6. Assignments'
    BY DEF Assignments, Idle, Entries, Dependent
  <2> QED BY <2>1, <2>4, <2>5, <2>6, QueueFrame
<1>2. CASE MainInit
  <2> USE <1>2 DEF MainInit, workerVars, historyVars
  <2>0. remaining \in Nat /\ remaining > 0 /\ sleepers \in SUBSET Worker
    BY DEF TypeOK, QueueTypeOK
  <2>1. QueueTypeOK' /\ capacity' > 0
    <3>1. buffer' \in [0 .. capacity' - 1 -> Node \cup {NoNode}]
      BY DEF QueueInit
    <3>2. shutdown' \in BOOLEAN
      BY Zenon DEF QueueInit
    <3>3. /\ capacity' \in Nat /\ capacity' > 0
          /\ head' \in 0 .. capacity' - 1
          /\ tail' \in 0 .. capacity' - 1
          /\ count' \in Nat
          /\ sleepers' \in SUBSET Worker
      BY <2>0 DEF QueueInit
    <3> QED BY <3>1, <3>2, <3>3 DEF QueueTypeOK
  <2>2. RingIntact'
    BY <2>1 DEF QueueInit, QueueTypeOK, RingIntact, Occupied, FirstFree
  <2>3. TypeOK'
    BY <2>1 DEF TypeOK, MainPoint
  <2>4. Lifecycle'
    BY <2>1 DEF TypeOK, Lifecycle
  <2>5. Assignments'
    BY DEF Assignments, Idle, Entries, Dependent
  <2> QED BY <2>2, <2>3, <2>4, <2>5
<1>3. ASSUME NEW w \in Worker, MainSpawn(w)
      PROVE  TypeInv'
  <2> USE <1>3 DEF MainSpawn, historyVars
  <2>1. UNCHANGED queueVars
    OBVIOUS
  <2>2. TypeOK'
    BY <2>1, QueueFrame DEF TypeOK, MainPoint, WorkerPoint
  <2>3. Lifecycle'
    BY <2>1 DEF TypeOK, Lifecycle, queueVars
  <2>4. Assignments'
    BY DEF TypeOK, Assignments, Idle, Entries, Dependent
  <2> QED BY <2>1, <2>2, <2>3, <2>4, QueueFrame
<1>4. CASE MainSeedPush
  <2> USE <1>4 DEF MainSeedPush, workerVars, historyVars
  <2>1. scan < N /\ scan \in Node /\ capacity > 0 /\ capacity' = capacity
    BY NodeAssumption DEF Lifecycle, TypeOK, QueueTypeOK, QueuePush
  <2>2. QueueTypeOK' /\ (RingIntact \/ RingWritten)'
    BY <2>1, QueuePushType, PushKeepsWritten DEF TypeOK
  <2>3. TypeOK'
    BY <2>1, <2>2, NodeAssumption DEF TypeOK, MainPoint
  <2>4. Lifecycle'
    BY <2>1 DEF TypeOK, Lifecycle
  <2>5. Assignments'
    BY DEF Assignments, Idle, Entries, Dependent
  <2> QED BY <2>2, <2>3, <2>4, <2>5
<1>5. CASE MainShutdown
  <2> USE <1>5 DEF MainShutdown, workerVars, historyVars
  <2>1. QueueTypeOK' /\ (RingIntact \/ RingWritten)' /\ capacity' = capacity
    BY
    DEF TypeOK, QueueShutdown, QueueTypeOK, RingIntact, RingWritten, Occupied,
           FirstFree
  <2>2. TypeOK'
    BY <2>1 DEF TypeOK, MainPoint
  <2>3. Lifecycle'
    BY <2>1 DEF TypeOK, Lifecycle, QueueShutdown, QueueTypeOK
  <2>4. Assignments'
    BY DEF Assignments, Idle, Entries, Dependent
  <2> QED BY <2>1, <2>2, <2>3, <2>4
<1> QED BY <1>1, <1>2, <1>3, <1>4, <1>5 DEF MainStep, MainQuiet

(* The steps of a worker that leave the queue alone. *)
WorkerQuiet(w) ==
  \/ WorkerDrain(w) \/ WorkerStart(w) \/ WorkerSucceed(w) \/ WorkerFail(w)
  \/ WorkerSkip(w) \/ WorkerNotify(w) \/ WorkerNotified(w)
  \/ WorkerAbort(w) \/ WorkerFinish(w)

LEMMA DecType ==
  ASSUME NEW x \in 0 .. WordMax
  PROVE  Dec(x) \in 0 .. WordMax
BY WordMaxAssumption DEF Dec

(* What a worker works on, when a step changes that of one worker. *)
LEMMA AssignmentsOfOne ==
  ASSUME Assignments, plan' = plan, NEW w \in Worker,
         \A v \in Worker \ {w} :
           wpc'[v] = wpc[v] /\ cur'[v] = cur[v] /\ nxt'[v] = nxt[v],
         Idle(w)' => cur'[w] = NoNode,
         ~Idle(w)' => cur'[w] \in Node,
         nxt'[w] >= 1,
         wpc'[w] = "push" => /\ nxt'[w] <= Len(Entries(w))'
                             /\ Dependent(w)' \in plan'.dirty
  PROVE  Assignments'
<1> SUFFICES ASSUME NEW v \in Worker
             PROVE  /\ Idle(v)' => cur'[v] = NoNode
                    /\ ~Idle(v)' => cur'[v] \in Node
                    /\ nxt'[v] >= 1
                    /\ wpc'[v] = "push" => /\ nxt'[v] <= Len(Entries(v))'
                                           /\ Dependent(v)' \in plan'.dirty
  BY DEF Assignments
<1>1. CASE v # w
  BY <1>1 DEF Idle, Entries, Dependent, Assignments
<1> QED BY <1>1

LEMMA TypeInvWorker ==
  ASSUME TypeInv, NEW w \in Worker,
         WorkerLocal(w) \/ WorkerLocked(w) \/ WorkerWake(w)
  PROVE  TypeInv'
<1> USE DEF TypeInv
<1>0. plan \in Plans /\ IsPlan(plan)
  BY DEF Lifecycle, TypeOK
<1>1. CASE WorkerQuiet(w)
  <2> USE DEF Goto, mainVars, historyVars, workerVars
  <2>1. CASE WorkerDrain(w)
    <3>1. TypeOK'
      BY <2>1, <1>0, QueueFrame, DecType
      DEF WorkerDrain, TypeOK, MainPoint, WorkerPoint, WakeMain, Assignments,
          Idle
    <3>2. Lifecycle'
      BY <2>1 DEF WorkerDrain, TypeOK, Lifecycle, queueVars, WakeMain
    <3>3. Assignments'
      BY <2>1, <1>0
      DEF WorkerDrain, TypeOK, Assignments, Idle, Entries, Dependent, IsPlan, PlanOver
    <3>4. UNCHANGED queueVars
      BY <2>1 DEF WorkerDrain
    <3> QED BY <3>1, <3>2, <3>3, <3>4, QueueFrame
  <2>2. CASE WorkerStart(w)
    <3>1. TypeOK'
      <4>1. runs' \in [Node -> Nat]
        <5>1. cur[w] \in Node /\ runs \in [Node -> Nat]
          BY <2>2 DEF WorkerStart, TypeOK, Assignments, Idle
        <5>2. runs' = [runs EXCEPT ![cur[w]] = runs[cur[w]] + 1]
          BY <2>2 DEF WorkerStart
        <5> QED BY <5>1, <5>2
      <4>2. wpc' \in [Worker -> WorkerPoint]
        BY <2>2 DEF WorkerStart, TypeOK, WorkerPoint
      <4> QED BY <4>1, <4>2, <2>2, QueueFrame DEF WorkerStart, TypeOK
    <3>2. Lifecycle'
      BY <2>2 DEF WorkerStart, TypeOK, Lifecycle, queueVars, WakeMain
    <3>3. Assignments'
      BY <2>2, <1>0
      DEF WorkerStart, TypeOK, Assignments, Idle, Entries, Dependent, IsPlan, PlanOver
    <3>4. UNCHANGED queueVars
      BY <2>2 DEF WorkerStart
    <3> QED BY <3>1, <3>2, <3>3, <3>4, QueueFrame
  <2>3. CASE WorkerSucceed(w)
    <3>1. TypeOK'
      BY <2>3, <1>0, QueueFrame, DecType
      DEF WorkerSucceed, TypeOK, MainPoint, WorkerPoint, WakeMain, Assignments,
          Idle
    <3>2. Lifecycle'
      BY <2>3 DEF WorkerSucceed, TypeOK, Lifecycle, queueVars, WakeMain
    <3>3. Assignments'
      <4>1. plan' = plan /\ cur' \in [Worker -> Node \cup {NoNode}]
        BY <2>3 DEF WorkerSucceed, TypeOK
      <4>2. \A v \in Worker \ {w} :
              wpc'[v] = wpc[v] /\ cur'[v] = cur[v] /\ nxt'[v] = nxt[v]
        BY <2>3 DEF WorkerSucceed, TypeOK
      <4>3. wpc'[w] = "notify" /\ cur'[w] \in Node /\ nxt'[w] = 1
        BY <2>3 DEF WorkerSucceed, TypeOK, Assignments, Idle
      <4> QED
        BY <4>1, <4>2, <4>3, AssignmentsOfOne DEF Idle, Entries, Dependent
    <3>4. UNCHANGED queueVars
      BY <2>3 DEF WorkerSucceed
    <3> QED BY <3>1, <3>2, <3>3, <3>4, QueueFrame
  <2>4. CASE WorkerFail(w)
    <3>1. TypeOK'
      BY <2>4, <1>0, QueueFrame, DecType
      DEF WorkerFail, TypeOK, MainPoint, WorkerPoint, WakeMain, Assignments,
          Idle
    <3>2. Lifecycle'
      BY <2>4 DEF WorkerFail, TypeOK, Lifecycle, queueVars, WakeMain
    <3>3. Assignments'
      BY <2>4, <1>0
      DEF WorkerFail, TypeOK, Assignments, Idle, Entries, Dependent, IsPlan, PlanOver
    <3>4. UNCHANGED queueVars
      BY <2>4 DEF WorkerFail
    <3> QED BY <3>1, <3>2, <3>3, <3>4, QueueFrame
  <2>5. CASE WorkerSkip(w)
    <3>1. TypeOK'
      BY <2>5, <1>0, QueueFrame, DecType
      DEF WorkerSkip, TypeOK, MainPoint, WorkerPoint, WakeMain, Assignments,
          Idle
    <3>2. Lifecycle'
      BY <2>5 DEF WorkerSkip, TypeOK, Lifecycle, queueVars, WakeMain
    <3>3. Assignments'
      <4>1. plan' = plan /\ cur' \in [Worker -> Node \cup {NoNode}]
        BY <2>5 DEF WorkerSkip, TypeOK
      <4>2. \A v \in Worker \ {w} :
              wpc'[v] = wpc[v] /\ cur'[v] = cur[v] /\ nxt'[v] = nxt[v]
        BY <2>5 DEF WorkerSkip, TypeOK
      <4>3. wpc'[w] = "notify" /\ cur'[w] \in Node /\ nxt'[w] >= 1
        <5>1. nxt'[w] = nxt[w] + 1 /\ nxt[w] \in Nat
          BY <2>5 DEF WorkerSkip, TypeOK
        <5>2. wpc'[w] = "notify" /\ cur'[w] \in Node
          BY <2>5 DEF WorkerSkip, Assignments, Idle
        <5> QED BY <5>1, <5>2
      <4> QED
        BY <4>1, <4>2, <4>3, AssignmentsOfOne DEF Idle, Entries, Dependent
    <3>4. UNCHANGED queueVars
      BY <2>5 DEF WorkerSkip
    <3> QED BY <3>1, <3>2, <3>3, <3>4, QueueFrame
  <2>6. CASE WorkerNotify(w)
    <3>1. TypeOK'
      <4>1. pending' \in [Node -> 0 .. WordMax]
        BY <2>6, DecType DEF WorkerNotify, TypeOK
      <4>2. wpc' \in [Worker -> WorkerPoint] /\ nxt' \in [Worker -> Nat]
        <5>1. CASE pending[Dependent(w)] = 1
          BY <2>6, <5>1 DEF WorkerNotify, TypeOK, WorkerPoint
        <5>2. CASE pending[Dependent(w)] # 1
          <6>1. nxt' = [nxt EXCEPT ![w] = nxt[w] + 1] /\ wpc' = wpc
            BY <2>6, <5>2 DEF WorkerNotify
          <6> QED BY <6>1 DEF TypeOK
        <5> QED BY <5>1, <5>2
      <4> QED BY <4>1, <4>2, <2>6, QueueFrame DEF WorkerNotify, TypeOK
    <3>2. Lifecycle'
      BY <2>6 DEF WorkerNotify, TypeOK, Lifecycle, queueVars, WakeMain
    <3>3. Assignments'
      <4>1. plan' = plan /\ cur' \in [Worker -> Node \cup {NoNode}]
        BY <2>6 DEF WorkerNotify, TypeOK
      <4>2. \A v \in Worker \ {w} :
              wpc'[v] = wpc[v] /\ cur'[v] = cur[v] /\ nxt'[v] = nxt[v]
        BY <2>6 DEF WorkerNotify, TypeOK
      <4>3. /\ wpc'[w] \in {"notify", "push"} /\ cur'[w] = cur[w] /\ cur[w] \in Node
            /\ nxt'[w] >= 1
            /\ wpc'[w] = "push" => /\ nxt'[w] = nxt[w]
                                   /\ nxt[w] <= Len(Entries(w))
                                   /\ Dependent(w) \in plan.dirty
        <5>0. /\ wpc[w] = "notify" /\ cur[w] \in Node /\ cur' = cur
              /\ nxt[w] \in Nat /\ nxt[w] >= 1
              /\ nxt[w] <= Len(Entries(w)) /\ Dependent(w) \in plan.dirty
          BY <2>6 DEF WorkerNotify, TypeOK, Assignments, Idle
        <5>1. CASE pending[Dependent(w)] = 1
          <6>1. wpc'[w] = "push" /\ nxt' = nxt
            BY <2>6, <5>1 DEF WorkerNotify, TypeOK
          <6> QED BY <5>0, <6>1
        <5>2. CASE pending[Dependent(w)] # 1
          <6>1. wpc'[w] = "notify" /\ nxt'[w] = nxt[w] + 1
            BY <2>6, <5>2 DEF WorkerNotify, TypeOK
          <6> QED BY <5>0, <6>1
        <5> QED BY <5>1, <5>2
      <4> QED
        BY <4>1, <4>2, <4>3, AssignmentsOfOne DEF Idle, Entries, Dependent
    <3>4. UNCHANGED queueVars
      BY <2>6 DEF WorkerNotify
    <3> QED BY <3>1, <3>2, <3>3, <3>4, QueueFrame
  <2>7. CASE WorkerNotified(w)
    <3>1. TypeOK'
      BY <2>7, <1>0, QueueFrame, DecType
      DEF WorkerNotified, TypeOK, MainPoint, WorkerPoint, WakeMain,
          Assignments, Idle
    <3>2. Lifecycle'
      BY <2>7 DEF WorkerNotified, TypeOK, Lifecycle, queueVars, WakeMain
    <3>3. Assignments'
      BY <2>7, <1>0
      DEF WorkerNotified, TypeOK, Assignments, Idle, Entries, Dependent, IsPlan, PlanOver
    <3>4. UNCHANGED queueVars
      BY <2>7 DEF WorkerNotified
    <3> QED BY <3>1, <3>2, <3>3, <3>4, QueueFrame
  <2>8. CASE WorkerAbort(w)
    <3>1. TypeOK'
      BY <2>8, <1>0, QueueFrame, DecType
      DEF WorkerAbort, TypeOK, MainPoint, WorkerPoint, WakeMain, Assignments,
          Idle
    <3>2. Lifecycle'
      BY <2>8 DEF WorkerAbort, TypeOK, Lifecycle, queueVars, WakeMain
    <3>3. Assignments'
      BY <2>8, <1>0
      DEF WorkerAbort, TypeOK, Assignments, Idle, Entries, Dependent, IsPlan, PlanOver
    <3>4. UNCHANGED queueVars
      BY <2>8 DEF WorkerAbort
    <3> QED BY <3>1, <3>2, <3>3, <3>4, QueueFrame
  <2>9. CASE WorkerFinish(w)
    <3>1. TypeOK'
      BY <2>9, <1>0, QueueFrame, DecType
      DEF WorkerFinish, TypeOK, MainPoint, WorkerPoint, WakeMain, Assignments,
          Idle
    <3>2. Lifecycle'
      BY <2>9 DEF WorkerFinish, TypeOK, Lifecycle, queueVars, WakeMain
    <3>3. Assignments'
      <4>1. plan' = plan /\ cur' \in [Worker -> Node \cup {NoNode}]
        BY <2>9 DEF WorkerFinish, TypeOK
      <4>2. \A v \in Worker \ {w} :
              wpc'[v] = wpc[v] /\ cur'[v] = cur[v] /\ nxt'[v] = nxt[v]
        BY <2>9 DEF WorkerFinish, TypeOK
      <4>3. wpc'[w] = "pop" /\ cur'[w] = NoNode /\ nxt'[w] = 1
        BY <2>9 DEF WorkerFinish, TypeOK, Assignments, Idle
      <4> QED
        BY <4>1, <4>2, <4>3, AssignmentsOfOne DEF Idle, Entries, Dependent
    <3>4. UNCHANGED queueVars
      BY <2>9 DEF WorkerFinish
    <3> QED BY <3>1, <3>2, <3>3, <3>4, QueueFrame
  <2> QED BY <1>1, <2>1, <2>2, <2>3, <2>4, <2>5, <2>6, <2>7, <2>8, <2>9 DEF WorkerQuiet
<1>2. CASE WorkerSleep(w) \/ WorkerExit(w) \/ WorkerWake(w)
  <2> USE <1>2 DEF WorkerSleep, WorkerExit, WorkerWake, PopSleep, PopClosed,
          SpuriousWake, Goto, mainVars, historyVars, workerVars
  <2>1. /\ UNCHANGED <<buffer, capacity, head, tail, count, shutdown>>
        /\ sleepers' \in SUBSET Worker
    BY DEF TypeOK, QueueTypeOK, queueVars
  <2>2. QueueTypeOK' /\ (RingIntact \/ RingWritten)'
    BY <2>1
    DEF TypeOK, QueueTypeOK, RingIntact, RingWritten, Occupied, FirstFree
  <2>3. TypeOK'
    BY <2>2 DEF TypeOK, WorkerPoint
  <2>4. Lifecycle'
    BY <2>1 DEF TypeOK, Lifecycle
  <2>5. Assignments'
    BY DEF TypeOK, Assignments, Idle, Entries, Dependent
  <2> QED BY <2>2, <2>3, <2>4, <2>5
<1>3. CASE WorkerTake(w)
  <2> USE <1>3 DEF WorkerTake, Goto, mainVars, historyVars
  <2>1. capacity > 0 /\ capacity' = capacity
    BY DEF Lifecycle, PopTake, TypeOK, QueueTypeOK
  <2>2. QueueTypeOK' /\ (RingIntact \/ RingWritten)' /\ Front \in Node
    BY <2>1, PopTakeType, PopKeepsWritten DEF TypeOK
  <2>3. TypeOK'
    BY <2>2 DEF TypeOK, WorkerPoint
  <2>4. Lifecycle'
    BY <2>1 DEF TypeOK, Lifecycle
  <2>5. Assignments'
    BY <2>2 DEF TypeOK, Assignments, Idle, Entries, Dependent
  <2> QED BY <2>2, <2>3, <2>4, <2>5
<1>4. CASE WorkerPush(w)
  <2> USE <1>4 DEF WorkerPush, Goto, mainVars, historyVars
  <2>1. capacity > 0 /\ capacity' = capacity
    BY DEF Lifecycle, QueuePush, TypeOK, QueueTypeOK
  <2>2. Dependent(w) \in Node
    BY <1>0 DEF Assignments, IsPlan, PlanOver
  <2>3. QueueTypeOK' /\ (RingIntact \/ RingWritten)'
    BY <2>1, <2>2, QueuePushType, PushKeepsWritten DEF TypeOK
  <2>4. TypeOK'
    BY <2>3 DEF TypeOK, WorkerPoint
  <2>5. Lifecycle'
    BY <2>1 DEF TypeOK, Lifecycle
  <2>6. Assignments'
    BY DEF TypeOK, Assignments, Idle, Entries, Dependent
  <2> QED BY <2>3, <2>4, <2>5, <2>6
<1> QED
  BY <1>1, <1>2, <1>3, <1>4 DEF WorkerLocal, WorkerLocked, WorkerQuiet

LEMMA TypeInvNext ==
  ASSUME TypeInv, [Next]_vars
  PROVE  TypeInv'
<1>1. CASE MainStep \/ MainSpuriousWake
  BY <1>1, TypeInvMain
<1>2. ASSUME NEW w \in Worker,
             WorkerLocal(w) \/ WorkerLocked(w) \/ WorkerWake(w)
      PROVE  TypeInv'
  BY <1>2, TypeInvWorker
<1>3. CASE UNCHANGED vars
  <2> USE <1>3 DEF vars, mainVars, workerVars, historyVars
  <2>1. UNCHANGED queueVars
    OBVIOUS
  <2>2. TypeOK' /\ Lifecycle'
    BY <2>1, QueueFrame DEF TypeInv, TypeOK, Lifecycle, queueVars
  <2>3. Assignments'
    BY DEF TypeInv, Assignments, Idle, Entries, Dependent
  <2> QED BY <2>1, <2>2, <2>3, QueueFrame DEF TypeInv
<1> QED BY <1>1, <1>2, <1>3 DEF Next, Returned

(* Every variable keeps its type, in every behaviour of every plan, also of *)
(* one that is not TopDown: queue indices stay in the ring, no thread works *)
(* on a slot nobody wrote, counters stay within their width.                *)
THEOREM TypeCorrect == Spec => []TypeOK
<1>1. TypeInv => TypeOK
  BY DEF TypeInv
<1> QED BY <1>1, TypeInvInit, TypeInvNext, PTL DEF Spec

-----------------------------------------------------------------------------
(* Frames: steps that move no token, start nothing, notify nobody. *)

LEMMA TokensFrame ==
  ASSUME TypeInv, Tokens, UNCHANGED <<plan, pending, runs, scan>>,
         mpc' = "seedpush" => mpc = "seedpush",
         Occupied' = Occupied, \A i \in Occupied : buffer'[i] = buffer[i],
         \A v \in Worker : Hand(v)' = Hand(v) \/ Hand(v)' = NoNode
  PROVE  Tokens'
<1>1. UsedUp' /\ MainHolds'
  BY DEF Tokens, UsedUp, MainHolds, Released
<1>2. QueueHolds'
  BY DEF Tokens, QueueHolds, Token, Released
<1>3. WorkersHold'
  BY DEF Tokens, WorkersHold, Token, Released
<1> QED BY <1>1, <1>2, <1>3 DEF Tokens

LEMMA ExecutionsFrame ==
  ASSUME Executions, UNCHANGED <<runs, built, failed>>,
         \A v \in Worker :
           /\ Executing(v)' => Executing(v) /\ cur'[v] = cur[v]
           /\ wpc'[v] = "run" => wpc[v] = "run"
           /\ wpc'[v] \in {"notify", "push", "finish"} =>
                wpc[v] \in {"notify", "push", "finish"}
           /\ wpc'[v] = "abort" => wpc[v] = "abort"
  PROVE  Executions'
<1>1. \A w \in Worker :
        /\ Executing(w)' => runs'[cur'[w]] = 1
        /\ wpc'[w] = "run" => cur'[w] \notin built' \cup failed'
        /\ wpc'[w] \in {"notify", "push", "finish"} => cur'[w] \in built'
        /\ wpc'[w] = "abort" => cur'[w] \in failed'
  BY DEF Executions, Executing
<1>2. \A v, w \in Worker :
        Executing(v)' /\ Executing(w)' /\ v # w => cur'[v] # cur'[w]
  BY DEF Executions
<1> QED BY <1>1, <1>2 DEF Executions

LEMMA CountersFrame ==
  ASSUME CountersExact, UNCHANGED <<plan, pending>>,
         \A t \in plan.dirty :
           SlotsTo(plan, t) \ Notified' = SlotsTo(plan, t) \ Notified
  PROVE  CountersExact'
BY DEF CountersExact

(* An entry is a dirty node and a position in its list of dependents. *)
LEMMA SlotShape ==
  ASSUME NEW p, IsPlan(p), NEW s \in Slots(p)
  PROVE  /\ s[1] \in p.dirty /\ s[1] \in Node
         /\ s[2] \in Nat /\ s[2] >= 1 /\ s[2] <= Len(p.dependents[s[1]])
         /\ s = <<s[1], s[2]>>
BY DEF Slots, IsPlan, PlanOver

(* What a step of worker w can change in Notified: w's own view. *)
LEMMA NotifiedFrame ==
  ASSUME UNCHANGED <<plan, built>>, NEW w \in Worker,
         \A v \in Worker \ {w} : /\ wpc'[v] = wpc[v]
                                 /\ cur'[v] = cur[v]
                                 /\ nxt'[v] = nxt[v],
         NEW s \in Slots(plan),
         s[1] \in built => ((cur'[w] = s[1] => Past(w, s)')
                            <=> (cur[w] = s[1] => Past(w, s)))
  PROVE  s \in Notified' <=> s \in Notified
BY DEF Notified, Past

-----------------------------------------------------------------------------
(* Cardinalities *)

(* A node that is not in the ring has room in it: the ring holds pairwise  *)
(* different dirty nodes and has a slot for each of them.                  *)
LEMMA RoomForOneMore ==
  ASSUME IInv, capacity > 0, NEW n \in plan.dirty,
         \A i \in Occupied : buffer[i] # n
  PROVE  count < capacity
<1> SUFFICES ASSUME count = capacity PROVE FALSE
  BY DEF IInv, RingIntact, TypeInv, TypeOK, QueueTypeOK
<1>1. /\ Occupied = 0 .. capacity - 1
      /\ capacity \in Nat
      /\ buffer \in [0 .. capacity - 1 -> Node \cup {NoNode}]
  BY FullRing DEF IInv, TypeInv, TypeOK, QueueTypeOK
<1>2. buffer \in [0 .. capacity - 1 -> plan.dirty \ {n}]
  BY <1>1 DEF IInv, Tokens, QueueHolds, Token, Released
<1>3. IsFiniteSet(plan.dirty) /\ Cardinality(plan.dirty) = capacity
  BY NodesFinite, FS_Subset DEF IInv, TypeInv, TypeOK, IsPlan, PlanOver, Sized
<1>4. /\ IsFiniteSet(plan.dirty \ {n})
      /\ Cardinality(plan.dirty \ {n}) = capacity - 1
  BY <1>3, FS_RemoveElement
<1>5. /\ IsFiniteSet(0 .. capacity - 1)
      /\ Cardinality(0 .. capacity - 1) = capacity
  BY <1>1, FS_Interval
<1>6. \E i, j \in 0 .. capacity - 1 : i # j /\ buffer[i] = buffer[j]
  <2> DEFINE S == 0 .. capacity - 1
             T == plan.dirty \ {n}
  <2>1. IsFiniteSet(S) /\ IsFiniteSet(T) /\ Cardinality(T) < Cardinality(S)
    BY <1>1, <1>4, <1>5
  <2>2. buffer \in [S -> T]
    BY <1>2
  <2> HIDE DEF S, T
  <2>3. \E i, j \in S : i # j /\ buffer[i] = buffer[j]
    BY <2>1, <2>2, FS_PigeonHole
  <2> QED BY <2>3 DEF S
<1> QED BY <1>1, <1>6 DEF IInv, Tokens, QueueHolds

(* The counter of t is 0 exactly when every node t needs was built and has *)
(* notified t.                                                             *)
LEMMA ReleasedMeansBuilt ==
  ASSUME TypeInv, CountersExact, NEW t \in plan.dirty, pending[t] = 0
  PROVE  Needs(plan, t) \subseteq built
<1>1. IsFiniteSet(SlotsTo(plan, t) \ Notified)
  <2>1. SlotsTo(plan, t) \ Notified \in SUBSET Slots(plan)
    BY DEF SlotsTo
  <2> QED BY <2>1, SlotsFinite, FS_Subset DEF TypeInv, TypeOK
<1>2. SlotsTo(plan, t) \ Notified = {}
  BY <1>1, FS_EmptySet DEF CountersExact
<1> QED BY <1>2 DEF Needs, Notified

-----------------------------------------------------------------------------
(* The steps, one lemma for each that moves a token or counts. *)

Circulation == Executions /\ CountersExact /\ Tokens

(* Steps between idle points: of the main thread outside the seeding loop, *)
(* of workers on their way in and out of queue_pop without a task.         *)
LEMMA IdleSteps ==
  ASSUME IInv,
         UNCHANGED <<plan, pending, cur, nxt, runs, built, failed, scan>>,
         mpc' = "seedpush" => mpc = "seedpush",
         Occupied' = Occupied, \A i \in Occupied : buffer'[i] = buffer[i],
         \A v \in Worker : wpc'[v] = wpc[v] \/ (Idle(v) /\ Idle(v)')
  PROVE  Circulation'
<1>1. \A v \in Worker : Hand(v)' = Hand(v)
  BY DEF Hand, Idle, Dependent, Entries
<1>2. Tokens'
  BY <1>1, TokensFrame DEF IInv
<1>3. Executions'
  BY ExecutionsFrame DEF IInv, Executing, Idle
<1>4. Notified' = Notified
  <2>1. \A v \in Worker, s \in Slots(plan) :
          s[1] \in built => ((cur'[v] = s[1] => Past(v, s)')
                             <=> (cur[v] = s[1] => Past(v, s)))
    BY DEF Past, Idle
  <2> QED BY <2>1 DEF Notified
<1>5. CountersExact'
  BY <1>4, CountersFrame DEF IInv
<1> QED BY <1>2, <1>3, <1>5 DEF Circulation

LEMMA MainIdle ==
  ASSUME IInv,
         \/ MainReturnsAtOnce \/ MainOutOfMemory \/ MainSeeded \/ MainWaitTest
         \/ MainSleep \/ MainSpuriousWake \/ MainShutdown \/ MainReturn
         \/ MainInit \/ (\E w \in Worker : MainSpawn(w))
  PROVE  Circulation'
<1>1. ASSUME UNCHANGED <<plan, pending, scan, workerVars, historyVars>>,
             mpc' # "seedpush",
             UNCHANGED <<buffer, capacity, head, count>>
      PROVE  Circulation'
  <2>1. Occupied' = Occupied
    BY <1>1 DEF Occupied
  <2> QED BY <1>1, <2>1, IdleSteps DEF workerVars, historyVars
<1>2. CASE MainReturnsAtOnce \/ MainOutOfMemory \/ MainSeeded \/ MainWaitTest
  BY <1>1, <1>2 DEF MainReturnsAtOnce, MainOutOfMemory, MainSeeded,
                    MainWaitTest, queueVars
<1>3. CASE MainSleep \/ MainSpuriousWake \/ MainReturn
  BY <1>1, <1>3 DEF MainSleep, MainSpuriousWake, MainReturn, queueVars
<1>4. CASE MainShutdown
  BY <1>1, <1>4 DEF MainShutdown, QueueShutdown
<1>5. CASE MainInit
  <2>1. capacity = 0 /\ count = 0 /\ Occupied = {}
    BY <1>5 DEF MainInit, IInv, TypeInv, TypeOK, QueueTypeOK, Lifecycle, Occupied
  <2>2. Occupied' = {}
    BY <1>5 DEF MainInit, QueueInit, Occupied, IInv, TypeInv, TypeOK
  <2> QED
    BY <1>5, <2>1, <2>2, IdleSteps DEF MainInit, workerVars, historyVars
<1>6. ASSUME NEW w \in Worker, MainSpawn(w)
      PROVE  Circulation'
  <2>1. Occupied' = Occupied
    BY <1>6 DEF MainSpawn, queueVars, Occupied
  <2>2. \A v \in Worker : wpc'[v] = wpc[v] \/ (Idle(v) /\ Idle(v)')
    BY <1>6 DEF MainSpawn, IInv, TypeInv, TypeOK, Idle
  <2>3. mpc' # "seedpush"
    BY <1>6 DEF MainSpawn
  <2> QED BY <1>6, <2>1, <2>2, <2>3, IdleSteps DEF MainSpawn, queueVars, historyVars
<1> QED BY <1>2, <1>3, <1>4, <1>5, <1>6

LEMMA WorkerIdle ==
  ASSUME IInv, NEW w \in Worker,
         WorkerSleep(w) \/ WorkerExit(w) \/ WorkerWake(w)
  PROVE  Circulation'
<1>1. UNCHANGED <<plan, pending, cur, nxt, runs, built, failed, scan, mpc,
                  buffer, capacity, head, count>>
  BY DEF WorkerSleep, WorkerExit, WorkerWake, PopSleep, PopClosed, SpuriousWake,
         queueVars, mainVars, workerVars, historyVars
<1>2. Occupied' = Occupied
  BY <1>1 DEF Occupied
<1>3. \A v \in Worker : wpc'[v] = wpc[v] \/ (Idle(v) /\ Idle(v)')
  BY DEF WorkerSleep, WorkerExit, WorkerWake, Goto, workerVars, IInv, TypeInv,
         TypeOK, Idle
<1> QED BY <1>1, <1>2, <1>3, IdleSteps

(* A worker that lets its task go: Drain, Abort, Finish. *)
LEMMA WorkerLetsGo ==
  ASSUME IInv, NEW w \in Worker,
         WorkerDrain(w) \/ WorkerAbort(w) \/ WorkerFinish(w)
  PROVE  Circulation'
<1> USE DEF WorkerDrain, WorkerAbort, WorkerFinish, Goto, historyVars, mainVars
<1>1. /\ UNCHANGED <<plan, pending, scan, runs, built, failed>>
      /\ wpc'[w] = "pop" /\ cur'[w] = NoNode
      /\ \A v \in Worker \ {w} :
           wpc'[v] = wpc[v] /\ cur'[v] = cur[v] /\ nxt'[v] = nxt[v]
  BY DEF IInv, TypeInv, TypeOK
<1>2. mpc' = "seedpush" => mpc = "seedpush"
  BY DEF WakeMain
<1>3. Occupied' = Occupied /\ buffer' = buffer
  BY DEF queueVars, Occupied
<1>4. \A v \in Worker : Hand(v)' = Hand(v) \/ Hand(v)' = NoNode
  BY <1>1 DEF Hand, Dependent, Entries
<1>5. Tokens'
  BY <1>1, <1>2, <1>3, <1>4, TokensFrame DEF IInv
<1>6. Executions'
  BY <1>1, ExecutionsFrame DEF IInv, Executing
<1>7. Notified' = Notified
  <2>1. ASSUME NEW s \in Slots(plan), s[1] \in built
        PROVE  (cur'[w] = s[1] => Past(w, s)') <=> (cur[w] = s[1] => Past(w, s))
    <3>1. s[1] \in Node /\ s[1] # NoNode
      BY <2>1, NoNodeAssumption DEF IInv, TypeInv, TypeOK
    <3>2. cur[w] = s[1] => Past(w, s)
      <4>1. CASE WorkerDrain(w)
        BY <2>1, <3>1, <4>1
        DEF IInv, Tokens, WorkersHold, Hand, Token, Executions
      <4>2. CASE WorkerAbort(w)
        BY <2>1, <4>2 DEF IInv, Executions
      <4>3. CASE WorkerFinish(w)
        BY <4>3 DEF Past
      <4> QED BY <4>1, <4>2, <4>3
    <3> QED BY <1>1, <3>1, <3>2
  <2> QED BY <1>1, <2>1, NotifiedFrame DEF Notified
<1>8. CountersExact'
  BY <1>1, <1>7, CountersFrame DEF IInv
<1> QED BY <1>5, <1>6, <1>8 DEF Circulation

(* Taking up a node uses its token up. *)
LEMMA StartStep ==
  ASSUME IInv, NEW w \in Worker, WorkerStart(w)
  PROVE  Circulation'
<1> USE DEF WorkerStart, Goto, mainVars, historyVars
<1> DEFINE n == cur[w]
<1>1. /\ n \in Node /\ n # NoNode /\ Hand(w) = n /\ Token(n)
      /\ n \notin built \cup failed
      /\ \A i \in Occupied : buffer[i] # n
      /\ \A v \in Worker \ {w} : Hand(v) # n
  BY NoNodeAssumption DEF IInv, TypeInv, Assignments, Idle, Hand, Tokens, WorkersHold,
     Token, Executions
<1>2. /\ UNCHANGED <<plan, pending, scan, mpc, built, failed, cur, nxt, buffer>>
      /\ wpc'[w] = "run"
      /\ \A v \in Worker \ {w} : wpc'[v] = wpc[v]
      /\ runs'[n] = 1
      /\ \A m \in Node \ {n} : runs'[m] = runs[m]
  BY <1>1 DEF IInv, TypeInv, TypeOK, queueVars, Token
<1>3. Occupied' = Occupied
  BY DEF queueVars, Occupied
<1>4. Executions'
  <2>1. \A m \in Node : runs'[m] \in {0, 1}
    BY <1>2 DEF IInv, Executions
  <2>2. \A m \in built' \cup failed' : runs'[m] = 1
    BY <1>1, <1>2 DEF IInv, Executions, TypeInv, TypeOK
  <2>3. \A v \in Worker :
          /\ Executing(v)' => runs'[cur'[v]] = 1
          /\ wpc'[v] = "run" => cur'[v] \notin built' \cup failed'
          /\ wpc'[v] \in {"notify", "push", "finish"} => cur'[v] \in built'
          /\ wpc'[v] = "abort" => cur'[v] \in failed'
    BY <1>1, <1>2 DEF IInv, Executions, Executing, TypeInv, Assignments, Idle
  <2>4. \A u, v \in Worker :
          Executing(u)' /\ Executing(v)' /\ u # v => cur'[u] # cur'[v]
    BY <1>1, <1>2 DEF IInv, Executions, Executing, Token
  <2> QED BY <1>2, <2>1, <2>2, <2>3, <2>4 DEF IInv, Executions
<1>5. Tokens'
  <2>1. \A v \in Worker \ {w} : Hand(v)' = Hand(v)
    BY <1>2 DEF Hand, Dependent, Entries
  <2>2. Hand(w)' = NoNode
    BY <1>2 DEF Hand
  <2>3. UsedUp'
    BY <1>1, <1>2 DEF IInv, Tokens, UsedUp, Released, Token
  <2>4. MainHolds'
    BY <1>1, <1>2, NodeAssumption
    DEF IInv, Tokens, MainHolds, Released, Token, TypeInv, TypeOK, Lifecycle
  <2>5. QueueHolds'
    BY <1>1, <1>2, <1>3
    DEF IInv, Tokens, QueueHolds, Released, Token, TypeInv, TypeOK, IsPlan, PlanOver
  <2>6. WorkersHold'
    <3>1. \A m \in Node \ {n} : Token(m) => Token(m)'
      BY <1>2 DEF Token, Released
    <3>2. \A v \in Worker \ {w} : Hand(v) # NoNode => Hand(v) \in Node \ {n}
      BY <1>1 DEF IInv, Tokens, WorkersHold, Token, Released, TypeInv, TypeOK, IsPlan, PlanOver
    <3> QED
      BY <1>2, <1>3, <2>1, <2>2, <3>1, <3>2 DEF IInv, Tokens, WorkersHold
  <2> QED BY <2>3, <2>4, <2>5, <2>6 DEF Tokens
<1>6. Notified' = Notified
  <2>1. ASSUME NEW s \in Slots(plan), s[1] \in built
        PROVE  cur[w] # s[1]
    BY <1>1, <2>1
  <2> QED BY <1>2, <2>1, NotifiedFrame DEF Notified
<1>7. CountersExact'
  BY <1>2, <1>6, CountersFrame DEF IInv
<1> QED BY <1>4, <1>5, <1>7 DEF Circulation

(* The end of an execution. *)
LEMMA EndStep ==
  ASSUME IInv, NEW w \in Worker, WorkerSucceed(w) \/ WorkerFail(w)
  PROVE  Circulation'
<1> USE DEF WorkerSucceed, WorkerFail, Goto, mainVars
<1> DEFINE n == cur[w]
<1>1. /\ n \in Node /\ n # NoNode /\ runs[n] = 1 /\ n \notin built \cup failed
      /\ \A v \in Worker \ {w} : Executing(v) => cur[v] # n
  BY NoNodeAssumption DEF IInv, TypeInv, Assignments, Idle, Executions, Executing
<1>2. /\ UNCHANGED <<plan, pending, scan, mpc, runs, cur, buffer>>
      /\ \A v \in Worker \ {w} : wpc'[v] = wpc[v] /\ nxt'[v] = nxt[v]
  BY DEF IInv, TypeInv, TypeOK, queueVars
<1>3. \/ /\ wpc'[w] = "notify" /\ nxt'[w] = 1
         /\ built' = built \cup {n} /\ failed' = failed
      \/ /\ wpc'[w] = "abort"
         /\ built' = built /\ failed' = failed \cup {n}
  BY DEF IInv, TypeInv, TypeOK
<1>4. Tokens'
  <2>1. Occupied' = Occupied
    BY DEF queueVars, Occupied
  <2>2. \A v \in Worker : Hand(v)' = Hand(v) \/ Hand(v)' = NoNode
    BY <1>2, <1>3 DEF Hand, Dependent, Entries
  <2> QED BY <1>2, <2>1, <2>2, TokensFrame DEF IInv
<1>5. Executions'
  <2>1. \A v \in Worker :
          /\ Executing(v)' => runs'[cur'[v]] = 1
          /\ wpc'[v] = "run" => cur'[v] \notin built' \cup failed'
          /\ wpc'[v] \in {"notify", "push", "finish"} => cur'[v] \in built'
          /\ wpc'[v] = "abort" => cur'[v] \in failed'
    BY <1>1, <1>2, <1>3 DEF IInv, Executions, Executing
  <2>2. \A u, v \in Worker :
          Executing(u)' /\ Executing(v)' /\ u # v => cur'[u] # cur'[v]
    BY <1>1, <1>2, <1>3 DEF IInv, Executions, Executing
  <2> QED BY <1>1, <1>2, <1>3, <2>1, <2>2 DEF IInv, Executions
<1>6. CountersExact'
  <2>1. ASSUME NEW s \in Slots(plan)
        PROVE  s \in Notified' <=> s \in Notified
    <3>1. CASE s[1] = n
      <4>1. s[2] \in Nat /\ s[2] >= 1
        BY SlotShape DEF IInv, TypeInv, TypeOK
      <4>2. s \notin Notified
        BY <1>1, <3>1 DEF Notified
      <4>3. ~ Past(w, s)' \/ s[1] \notin built'
        BY <1>1, <1>3, <3>1, <4>1 DEF Past
      <4>4. s \notin Notified'
        BY <1>2, <3>1, <4>3 DEF Notified
      <4> QED BY <4>2, <4>4
    <3>2. CASE s[1] # n
      BY <1>2, <1>3, <2>1, <3>2 DEF Notified, Past
    <3> QED BY <3>1, <3>2
  <2>2. Notified' = Notified
    BY <1>2, <2>1 DEF Notified
  <2> QED BY <1>2, <2>2, CountersFrame DEF IInv
<1> QED BY <1>4, <1>5, <1>6 DEF Circulation

(* Passing an entry that names no dirty node, and the end of the list. *)
LEMMA PassStep ==
  ASSUME IInv, NEW w \in Worker, WorkerSkip(w) \/ WorkerNotified(w)
  PROVE  Circulation'
<1> USE DEF WorkerSkip, WorkerNotified, Goto, mainVars, historyVars
<1>1. /\ UNCHANGED <<plan, pending, scan, mpc, runs, built, failed, cur, buffer>>
      /\ wpc[w] = "notify" /\ nxt[w] \in Nat
      /\ \A v \in Worker \ {w} :
           wpc'[v] = wpc[v] /\ cur'[v] = cur[v] /\ nxt'[v] = nxt[v]
  BY DEF IInv, TypeInv, TypeOK, queueVars
<1>2. \/ /\ wpc'[w] = "notify" /\ nxt'[w] = nxt[w] + 1
         /\ nxt[w] <= Len(Entries(w)) /\ Dependent(w) \notin plan.dirty
      \/ wpc'[w] = "finish" /\ nxt[w] > Len(Entries(w))
  BY DEF IInv, TypeInv, TypeOK
<1>3. Tokens'
  <2>1. Occupied' = Occupied
    BY DEF queueVars, Occupied
  <2>2. \A v \in Worker : Hand(v)' = Hand(v) \/ Hand(v)' = NoNode
    BY <1>1, <1>2 DEF Hand, Dependent, Entries
  <2> QED BY <1>1, <2>1, <2>2, TokensFrame DEF IInv
<1>4. Executions'
  BY <1>1, <1>2, ExecutionsFrame DEF IInv, Executing
<1>5. CountersExact'
  <2>1. ASSUME NEW s \in Slots(plan), Target(plan, s) \in plan.dirty
        PROVE  s \in Notified' <=> s \in Notified
    <3>1. /\ s[2] \in Nat /\ s[2] <= Len(plan.dependents[s[1]])
          /\ Target(plan, s) = plan.dependents[s[1]][s[2]]
      BY SlotShape DEF IInv, TypeInv, TypeOK, Target
    <3>2. cur[w] = s[1] => (Past(w, s)' <=> Past(w, s))
      BY <1>1, <1>2, <2>1, <3>1 DEF Past, Entries, Dependent
    <3> QED BY <1>1, <3>2, NotifiedFrame
  <2>2. \A t \in plan.dirty :
          SlotsTo(plan, t) \ Notified' = SlotsTo(plan, t) \ Notified
    BY <2>1 DEF SlotsTo
  <2> QED BY <1>1, <2>2, CountersFrame DEF IInv
<1> QED BY <1>3, <1>4, <1>5 DEF Circulation

(* A token goes from the ring into a worker's hand. *)
LEMMA TakeStep ==
  ASSUME IInv, NEW w \in Worker, WorkerTake(w)
  PROVE  Circulation'
<1> USE DEF WorkerTake, Goto, mainVars, historyVars
<1> DEFINE n == buffer[head]
<1>1. capacity > 0
  BY DEF IInv, TypeInv, Lifecycle, TypeOK, QueueTypeOK
<1>2. /\ Occupied' = Occupied \ {head} /\ head \in Occupied
      /\ buffer' = buffer
  BY <1>1, PopFrees DEF IInv, TypeInv, TypeOK, PopTake
<1>3. /\ UNCHANGED <<plan, pending, scan, mpc, runs, built, failed, nxt>>
      /\ wpc[w] = "pop" /\ wpc'[w] = "check" /\ cur'[w] = n
      /\ \A v \in Worker \ {w} : wpc'[v] = wpc[v] /\ cur'[v] = cur[v]
  BY DEF IInv, TypeInv, TypeOK, Front
<1>4. Token(n) /\ n \in Node /\ n # NoNode /\ n \notin built
  BY <1>2, NoNodeAssumption
  DEF IInv, Tokens, QueueHolds, RingIntact, Token, Executions
<1>5. Tokens'
  <2>1. \A v \in Worker \ {w} : Hand(v)' = Hand(v)
    BY <1>3 DEF Hand, Dependent, Entries
  <2>2. Hand(w)' = n
    BY <1>3 DEF Hand
  <2>3. UsedUp' /\ MainHolds'
    BY <1>3 DEF IInv, Tokens, UsedUp, MainHolds, Released
  <2>4. QueueHolds'
    BY <1>2, <1>3 DEF IInv, Tokens, QueueHolds, Token, Released
  <2>5. WorkersHold'
    <3>1. \A v \in Worker : Hand(v)' # NoNode => Token(Hand(v)')
      BY <1>3, <1>4, <2>1, <2>2 DEF IInv, Tokens, WorkersHold, Token, Released
    <3>2. \A v \in Worker : Hand(v)' # NoNode =>
            \A i \in Occupied' : buffer'[i] # Hand(v)'
      BY <1>2, <2>1, <2>2 DEF IInv, Tokens, WorkersHold, QueueHolds
    <3>3. \A v \in Worker : Hand(v)' # NoNode =>
            \A u \in Worker : u # v => Hand(u)' # Hand(v)'
      BY <1>2, <1>4, <2>1, <2>2 DEF IInv, Tokens, WorkersHold
    <3> QED BY <1>3, <3>1, <3>2, <3>3 DEF WorkersHold, Token, Released
  <2> QED BY <2>3, <2>4, <2>5 DEF Tokens
<1>6. Executions'
  BY <1>3, ExecutionsFrame DEF IInv, Executing
<1>7. CountersExact'
  <2>1. ASSUME NEW s \in Slots(plan)
        PROVE  s \in Notified' <=> s \in Notified
    <3>1. cur[w] # s[1]
      BY <1>3, SlotShape, NoNodeAssumption
      DEF IInv, TypeInv, TypeOK, Assignments, Idle
    <3> QED BY <1>3, <1>4, <3>1, NotifiedFrame
  <2>2. Notified' = Notified
    BY <1>3, <2>1 DEF Notified
  <2> QED BY <1>3, <2>2, CountersFrame DEF IInv
<1> QED BY <1>5, <1>6, <1>7 DEF Circulation

(* A token goes from a worker's hand into the ring. *)
LEMMA PushStep ==
  ASSUME IInv, NEW w \in Worker, WorkerPush(w)
  PROVE  Circulation' /\ RingIntact'
<1> USE DEF WorkerPush, Goto, mainVars, historyVars
<1> DEFINE n == Dependent(w)
<1>1. capacity > 0
  BY DEF IInv, TypeInv, Lifecycle, TypeOK, QueueTypeOK
<1>2. /\ n \in plan.dirty /\ n \in Node /\ n # NoNode /\ Hand(w) = n
  BY NoNodeAssumption DEF IInv, TypeInv, TypeOK, Assignments, Hand, IsPlan, PlanOver
<1>3. /\ Token(n)
      /\ \A i \in Occupied : buffer[i] # n
      /\ \A v \in Worker \ {w} : Hand(v) # n
  BY <1>2 DEF IInv, Tokens, WorkersHold
<1>4. count < capacity
  BY <1>1, <1>2, <1>3, RoomForOneMore
<1>5. /\ Occupied' = Occupied \cup {tail} /\ tail \notin Occupied
      /\ tail \in 0 .. capacity - 1 /\ RingIntact'
  BY <1>2, <1>4, PushOccupies DEF IInv, TypeInv, TypeOK
<1>6. buffer'[tail] = n /\ \A i \in Occupied : buffer'[i] = buffer[i]
  BY <1>5 DEF IInv, TypeInv, TypeOK, QueueTypeOK, QueuePush, Occupied
<1>7. /\ UNCHANGED <<plan, pending, scan, mpc, runs, built, failed, cur>>
      /\ wpc[w] = "push" /\ wpc'[w] = "notify"
      /\ nxt'[w] = nxt[w] + 1 /\ nxt[w] \in Nat
      /\ \A v \in Worker \ {w} : wpc'[v] = wpc[v] /\ nxt'[v] = nxt[v]
  BY DEF IInv, TypeInv, TypeOK
<1>8. Tokens'
  <2>1. \A v \in Worker \ {w} : Hand(v)' = Hand(v)
    BY <1>7 DEF Hand, Dependent, Entries
  <2>2. Hand(w)' = NoNode
    BY <1>7 DEF Hand
  <2>3. UsedUp' /\ MainHolds'
    BY <1>7 DEF IInv, Tokens, UsedUp, MainHolds, Released
  <2>4. QueueHolds'
    BY <1>3, <1>5, <1>6, <1>7 DEF IInv, Tokens, QueueHolds, Token, Released
  <2>5. WorkersHold'
    BY <1>3, <1>5, <1>6, <1>7, <2>1, <2>2
    DEF IInv, Tokens, WorkersHold, Token, Released
  <2> QED BY <2>3, <2>4, <2>5 DEF Tokens
<1>9. Executions'
  BY <1>7, ExecutionsFrame DEF IInv, Executing
<1>10. CountersExact'
  <2>1. ASSUME NEW s \in Slots(plan)
        PROVE  s \in Notified' <=> s \in Notified
    <3>1. s[2] \in Nat
      BY SlotShape DEF IInv, TypeInv, TypeOK
    <3>2. Past(w, s)' <=> Past(w, s)
      BY <1>7, <3>1 DEF Past
    <3> QED BY <1>7, <3>2, NotifiedFrame
  <2>2. Notified' = Notified
    BY <1>7, <2>1 DEF Notified
  <2> QED BY <1>7, <2>2, CountersFrame DEF IInv
<1> QED BY <1>5, <1>8, <1>9, <1>10 DEF Circulation

(* The seeding loop makes a token of the node it is at, or passes on. *)
LEMMA SeedTestStep ==
  ASSUME IInv, MainSeedTest
  PROVE  Circulation'
<1> USE DEF MainSeedTest, workerVars, historyVars
<1>1. UNCHANGED <<plan, pending, runs, built, failed, wpc, cur, nxt, buffer>>
  BY DEF queueVars
<1>2. Occupied' = Occupied
  BY DEF queueVars, Occupied
<1>3. scan \in Node /\ mpc = "seed"
  BY NodeAssumption DEF IInv, TypeInv, TypeOK
<1>4. \A n \in Node : Released(n) => Released(n)'
  BY <1>1, <1>3, NodeAssumption DEF Released, IInv, TypeInv, TypeOK
<1>5. \A v \in Worker : Hand(v)' = Hand(v)
  BY <1>1 DEF Hand, Dependent, Entries
<1>6. Tokens'
  <2>1. UsedUp'
    BY <1>1, <1>4 DEF IInv, Tokens, UsedUp
  <2>2. MainHolds'
    <3>1. CASE Ready(scan)
      <4>1. runs[scan] = 0
        BY <1>3, NodeAssumption
        DEF IInv, Executions, Tokens, UsedUp, Released
      <4> QED BY <1>1, <3>1, <4>1 DEF MainHolds, Ready
    <3>2. CASE ~ Ready(scan)
      BY <1>3, <3>2 DEF MainHolds
    <3> QED BY <3>1, <3>2
  <2>3. QueueHolds'
    BY <1>1, <1>2, <1>4
    DEF IInv, Tokens, QueueHolds, Token, RingIntact
  <2>4. WorkersHold'
    <3>1. \A v \in Worker : Hand(v) # NoNode => Hand(v) \in Node
      BY DEF IInv, Tokens, WorkersHold, Token, Released, TypeInv, TypeOK, IsPlan, PlanOver
    <3> QED BY <1>1, <1>2, <1>4, <1>5, <3>1 DEF IInv, Tokens, WorkersHold, Token
  <2> QED BY <2>1, <2>2, <2>3, <2>4 DEF Tokens
<1>7. Executions'
  BY <1>1, ExecutionsFrame DEF IInv, Executing
<1>8. CountersExact'
  <2>1. Notified' = Notified
    BY <1>1 DEF Notified, Past
  <2> QED BY <1>1, <2>1, CountersFrame DEF IInv
<1> QED BY <1>6, <1>7, <1>8 DEF Circulation

(* The main thread's token goes into the ring. *)
LEMMA SeedPushStep ==
  ASSUME IInv, MainSeedPush
  PROVE  Circulation' /\ RingIntact'
<1> USE DEF MainSeedPush, workerVars, historyVars
<1>1. /\ capacity > 0 /\ scan \in Node
      /\ scan \in plan.dirty /\ pending[scan] = 0 /\ runs[scan] = 0
  BY NodeAssumption
  DEF IInv, TypeInv, Lifecycle, TypeOK, QueueTypeOK, Tokens, MainHolds
<1>2. /\ \A i \in Occupied : buffer[i] # scan
      /\ \A v \in Worker : Hand(v) # scan
  BY <1>1, NoNodeAssumption, NodeAssumption
  DEF IInv, Tokens, QueueHolds, WorkersHold, Token, Released
<1>3. count < capacity
  BY <1>1, <1>2, RoomForOneMore
<1>4. /\ Occupied' = Occupied \cup {tail} /\ tail \notin Occupied
      /\ tail \in 0 .. capacity - 1 /\ RingIntact'
  BY <1>1, <1>3, PushOccupies DEF IInv, TypeInv, TypeOK
<1>5. buffer'[tail] = scan /\ \A i \in Occupied : buffer'[i] = buffer[i]
  BY <1>4 DEF IInv, TypeInv, TypeOK, QueueTypeOK, QueuePush, Occupied
<1>6. /\ UNCHANGED <<plan, pending, runs, built, failed, wpc, cur, nxt>>
      /\ scan' = scan + 1 /\ mpc' = "seed"
  OBVIOUS
<1> PICK k \in Node : k = scan
  BY <1>1
<1>7. /\ \A n \in Node : Token(n) => Token(n)'
      /\ \A n \in Node : Released(n) => Released(n)'
      /\ Token(k)'
  BY <1>1, <1>6, NodeAssumption DEF Token, Released
<1>8. \A v \in Worker : Hand(v)' = Hand(v)
  BY <1>6 DEF Hand, Dependent, Entries
<1>9. Tokens'
  <2>1. UsedUp' /\ MainHolds'
    BY <1>6, <1>7 DEF IInv, Tokens, UsedUp, MainHolds
  <2>2. QueueHolds'
    <3>1. ASSUME NEW i \in Occupied'
          PROVE  Token(buffer[i])'
      <4>1. CASE i = tail
        BY <1>5, <1>7, <4>1
      <4>2. CASE i # tail
        BY <1>4, <1>5, <1>6, <4>2, NodeAssumption
        DEF IInv, RingIntact, Tokens, QueueHolds, Token, Released
      <4> QED BY <4>1, <4>2
    <3>2. \A i, j \in Occupied' : j # i => buffer'[j] # buffer'[i]
      BY <1>2, <1>4, <1>5 DEF IInv, Tokens, QueueHolds
    <3> QED BY <3>1, <3>2 DEF QueueHolds
  <2>3. WorkersHold'
    <3>1. \A v \in Worker : Hand(v) # NoNode => Hand(v) \in Node
      BY DEF IInv, Tokens, WorkersHold, Token, Released, TypeInv, TypeOK, IsPlan, PlanOver
    <3> QED
      BY <1>2, <1>4, <1>5, <1>6, <1>7, <1>8, <3>1
      DEF IInv, Tokens, WorkersHold, Token, Released
  <2> QED BY <2>1, <2>2, <2>3 DEF Tokens
<1>10. Executions'
  BY <1>6, ExecutionsFrame DEF IInv, Executing
<1>11. CountersExact'
  <2>1. Notified' = Notified
    BY <1>6 DEF Notified, Past
  <2> QED BY <1>6, <2>1, CountersFrame DEF IInv
<1> QED BY <1>4, <1>9, <1>10, <1>11 DEF Circulation

(* Two workers never hold the same node_id while one of them executes it. *)
LEMMA OneNotifier ==
  ASSUME IInv, NEW w \in Worker, Executing(w), NEW v \in Worker, v # w
  PROVE  cur[v] # cur[w]
<1>1. cur[w] \in Node /\ cur[w] # NoNode /\ runs[cur[w]] = 1
  BY NoNodeAssumption
  DEF IInv, TypeInv, Assignments, Idle, Executions, Executing
<1>2. CASE Executing(v)
  BY <1>2 DEF IInv, Executions
<1>3. CASE Idle(v)
  BY <1>1, <1>3 DEF IInv, TypeInv, Assignments
<1>4. CASE wpc[v] = "check"
  BY <1>1, <1>4, NoNodeAssumption
  DEF IInv, TypeInv, Assignments, Idle, Tokens, WorkersHold, Hand, Token
<1> QED
  BY <1>2, <1>3, <1>4
  DEF IInv, TypeInv, TypeOK, WorkerPoint, Executing, Idle

(* One entry is notified: its counter falls by one, and the worker that    *)
(* takes it to 0 holds the token of the dependent.                         *)
LEMMA NotifyStep ==
  ASSUME \A p \in Plans : TopDown(p), IInv, NEW w \in Worker, WorkerNotify(w)
  PROVE  Circulation'
<1> USE DEF WorkerNotify, Goto, mainVars, historyVars
<1>0. Dependent(w) \in Node /\ <<cur[w], nxt[w]>> \in Slots(plan)
  BY DEF IInv, TypeInv, TypeOK, Assignments, Idle, Executions, Executing, Tokens,
         UsedUp, Released, Slots, Entries, IsPlan, PlanOver
<1> PICK t \in Node : t = Dependent(w)
  BY <1>0
<1> PICK s0 \in Slots(plan) : s0 = <<cur[w], nxt[w]>>
  BY <1>0
<1> DEFINE Open(u) == SlotsTo(plan, u) \ Notified
<1>1. /\ UNCHANGED <<plan, scan, mpc, runs, built, failed, cur, buffer>>
      /\ wpc[w] = "notify" /\ nxt[w] \in Nat /\ nxt[w] >= 1
      /\ nxt[w] <= Len(Entries(w)) /\ t \in plan.dirty
      /\ \A v \in Worker \ {w} : wpc'[v] = wpc[v] /\ nxt'[v] = nxt[v]
  BY DEF IInv, TypeInv, TypeOK, Assignments, queueVars
<1>2. /\ pending[t] = 1 => wpc'[w] = "push" /\ nxt'[w] = nxt[w]
      /\ pending[t] # 1 => wpc'[w] = "notify" /\ nxt'[w] = nxt[w] + 1
  BY DEF IInv, TypeInv, TypeOK
<1>3. Occupied' = Occupied
  BY DEF queueVars, Occupied
<1>4. /\ IsPlan(plan) /\ t \in Node /\ t # NoNode
      /\ cur[w] \in plan.dirty /\ cur[w] \in built
      /\ \A v \in Worker \ {w} : cur[v] # cur[w]
  BY <1>1, OneNotifier, NoNodeAssumption
  DEF IInv, TypeInv, TypeOK, IsPlan, PlanOver, Executions, Executing, Assignments, Idle,
      Tokens, UsedUp, Released
<1>5. Target(plan, s0) = t
  BY <1>1, <1>4 DEF Target, Entries, Dependent
<1>6. Notified' = Notified \cup {s0} /\ s0 \notin Notified
  <2>1. s0 \notin Notified
    BY <1>1 DEF Notified, Past
  <2>2. s0 \in Notified'
    <3>1. Past(w, s0)'
      BY <1>1, <1>2 DEF Past
    <3> QED BY <1>1, <1>4, <1>5, <3>1 DEF Notified
  <2>3. ASSUME NEW s \in Slots(plan), s # s0
        PROVE  s \in Notified' <=> s \in Notified
    <3>1. s[2] \in Nat /\ s = <<s[1], s[2]>>
      BY <1>4, SlotShape
    <3>2. cur[w] = s[1] => (Past(w, s)' <=> Past(w, s))
      BY <1>1, <1>2, <2>3, <3>1 DEF Past
    <3> QED BY <1>1, <3>2, NotifiedFrame
  <2> QED BY <1>1, <1>5, <2>1, <2>2, <2>3 DEF Notified
<1>7. /\ IsFiniteSet(Open(t)) /\ s0 \in Open(t)
      /\ Cardinality(Open(t)) \in Nat /\ Cardinality(Open(t)) >= 1
      /\ Cardinality(Open(t) \ {s0}) = Cardinality(Open(t)) - 1
      /\ pending[t] = Cardinality(Open(t))
  <2>1. Open(t) \in SUBSET Slots(plan)
    BY DEF SlotsTo
  <2>2. IsFiniteSet(Open(t)) /\ s0 \in Open(t)
    BY <1>4, <1>5, <1>6, <2>1, SlotsFinite, FS_Subset DEF SlotsTo
  <2>5. pending[t] = Cardinality(Open(t))
    BY <1>1 DEF IInv, CountersExact
  <2> HIDE DEF Open
  <2>3. /\ Cardinality(Open(t)) \in Nat
        /\ Cardinality(Open(t)) >= 1
    BY <2>2, FS_CardinalityType, FS_EmptySet
  <2>4. Cardinality(Open(t) \ {s0}) = Cardinality(Open(t)) - 1
    BY <2>2, FS_RemoveElement
  <2> QED BY <2>2, <2>3, <2>4, <2>5
<1>8. /\ pending'[t] = pending[t] - 1
      /\ \A u \in Node \ {t} : pending'[u] = pending[u]
  BY <1>4, <1>7 DEF Dec, IInv, TypeInv, TypeOK
<1>9. CountersExact'
  <2> SUFFICES ASSUME NEW u \in plan.dirty
               PROVE  pending'[u] = Cardinality(SlotsTo(plan, u) \ Notified')
    BY <1>1 DEF CountersExact
  <2>1. CASE u = t
    <3>1. SlotsTo(plan, t) \ Notified' = Open(t) \ {s0}
      BY <1>6
    <3> QED BY <1>7, <1>8, <2>1, <3>1
  <2>2. CASE u # t
    <3>1. SlotsTo(plan, u) \ Notified' = Open(u)
      BY <1>5, <1>6, <2>2 DEF SlotsTo
    <3> QED BY <1>4, <1>8, <2>2, <3>1 DEF IInv, CountersExact, IsPlan, PlanOver
  <2> QED BY <2>1, <2>2
<1>10. Executions'
  BY <1>1, <1>2, ExecutionsFrame DEF IInv, Executing
<1>11. \A n \in Node : Released(n) => n # t /\ Released(n)'
  BY <1>1, <1>7, <1>8 DEF Released
<1>12. pending[t] = 1 =>
         /\ t < scan /\ runs[t] = 0 /\ pending'[t] = 0
         /\ \A i \in Occupied : buffer[i] # t
         /\ \A v \in Worker : Hand(v) # t
  <2> SUFFICES ASSUME pending[t] = 1
               PROVE  /\ t < scan /\ runs[t] = 0
                      /\ \A i \in Occupied : buffer[i] # t
                      /\ \A v \in Worker : Hand(v) # t
    BY <1>8
  <2>1. Needs(plan, t) \subseteq built
    <3>1. Open(t) \ {s0} = {}
      <4>1. IsFiniteSet(Open(t) \ {s0})
        BY <1>7, FS_RemoveElement
      <4>2. Cardinality(Open(t) \ {s0}) = 0
        BY <1>7
      <4> QED BY <4>1, <4>2, FS_EmptySet
    <3>2. \A s \in SlotsTo(plan, t) : s \in Notified \/ s = s0
      BY <3>1
    <3> QED BY <1>4, <3>2 DEF Needs, Notified
  <2>2. PICK d \in Needs(plan, t) : d > t
    BY <1>1, <1>5 DEF TopDown, Needs, SlotsTo, IInv, TypeInv, Lifecycle
  <2>3. d \in Node /\ d < scan
    BY <2>1, <2>2 DEF IInv, TypeInv, TypeOK, Executions, Tokens, UsedUp, Released
  <2>4. t < scan
    BY <1>4, <2>2, <2>3, NodeAssumption DEF IInv, TypeInv, TypeOK
  <2>5. runs[t] = 0
    BY <1>4, <1>11 DEF IInv, Executions, Tokens, UsedUp
  <2> QED
    BY <1>4, <1>11, <2>4, <2>5
    DEF IInv, Tokens, QueueHolds, WorkersHold, Token
<1>13. Tokens'
  <2>1. \A v \in Worker \ {w} : Hand(v)' = Hand(v)
    BY <1>1 DEF Hand, Dependent, Entries
  <2>2. Hand(w)' = IF pending[t] = 1 THEN t ELSE NoNode
    BY <1>1, <1>2 DEF Hand, Dependent, Entries
  <2>3. UsedUp'
    BY <1>1, <1>11 DEF IInv, Tokens, UsedUp
  <2>4. MainHolds'
    BY <1>1, <1>7, <1>8, NodeAssumption
    DEF IInv, Tokens, MainHolds, TypeInv, Lifecycle, TypeOK
  <2>5. QueueHolds'
    BY <1>1, <1>3, <1>11 DEF IInv, Tokens, QueueHolds, Token, RingIntact
  <2>6. WorkersHold'
    <3>1. \A v \in Worker : Hand(v) # NoNode => Hand(v) \in Node
      BY DEF IInv, Tokens, WorkersHold, Token, Released, TypeInv, TypeOK, IsPlan, PlanOver
    <3>2. pending[t] = 1 => Token(t)'
      BY <1>1, <1>12 DEF Token, Released
    <3>3. \A v \in Worker \ {w} : Hand(v)' # NoNode =>
            /\ Token(Hand(v))'
            /\ \A i \in Occupied' : buffer'[i] # Hand(v)'
            /\ \A u \in Worker : u # v => Hand(u)' # Hand(v)'
      BY <1>1, <1>3, <1>11, <1>12, <2>1, <2>2, <3>1
      DEF IInv, Tokens, WorkersHold, Token
    <3>4. Hand(w)' # NoNode =>
            /\ Token(Hand(w))'
            /\ \A i \in Occupied' : buffer'[i] # Hand(w)'
            /\ \A u \in Worker : u # w => Hand(u)' # Hand(w)'
      BY <1>1, <1>3, <1>12, <2>1, <2>2, <3>2 DEF Token
    <3> QED BY <3>3, <3>4 DEF WorkersHold
  <2> QED BY <2>3, <2>4, <2>5, <2>6 DEF Tokens
<1> QED BY <1>9, <1>10, <1>13 DEF Circulation

-----------------------------------------------------------------------------
(* The ring, and the counter of the nodes that remain. *)

(* The main thread finds as many nodes to build as the ring gets slots. *)
LEMMA SizedStep ==
  ASSUME IInv, [Next]_vars
  PROVE  Sized'
<1>1. CASE MainInit
  BY <1>1 DEF MainInit, QueueInit, IInv, Sized
<1>2. ASSUME plan' = plan, capacity' = capacity,
             mpc' = "start" => mpc = "start" /\ remaining' = remaining
      PROVE  Sized'
  BY <1>2 DEF IInv, Sized
<1>3. CASE MainQuiet
  BY <1>2, <1>3
  DEF MainQuiet, MainReturnsAtOnce, MainOutOfMemory, MainSeedTest, MainSeeded,
      MainWaitTest, MainSleep, MainSpuriousWake, MainReturn, queueVars
<1>4. ASSUME NEW w \in Worker, MainSpawn(w)
      PROVE  Sized'
  BY <1>2, <1>4 DEF MainSpawn, queueVars
<1>5. CASE MainSeedPush \/ MainShutdown
  BY <1>2, <1>5 DEF MainSeedPush, QueuePush, MainShutdown, QueueShutdown
<1>6. ASSUME NEW w \in Worker, WorkerQuiet(w)
      PROVE  Sized'
  <2>1. plan' = plan /\ capacity' = capacity
    BY <1>6 DEF WorkerQuiet, WorkerDrain, WorkerStart, WorkerSucceed, WorkerFail,
       WorkerSkip, WorkerNotify, WorkerNotified, WorkerAbort, WorkerFinish, queueVars
  <2>2. mpc # "start" /\ mpc' # "start"
    <3>1. wpc[w] # "unborn"
      BY <1>6 DEF WorkerQuiet, WorkerDrain, WorkerStart, WorkerSucceed, WorkerFail,
         WorkerSkip, WorkerNotify, WorkerNotified, WorkerAbort, WorkerFinish
    <3>2. mpc # "start"
      BY <3>1 DEF IInv, TypeInv, Lifecycle, TypeOK, QueueTypeOK
    <3> QED
      BY <1>6, <3>2
      DEF WorkerQuiet, WorkerDrain, WorkerStart, WorkerSucceed, WorkerFail,
          WorkerSkip, WorkerNotify, WorkerNotified, WorkerAbort, WorkerFinish,
          WakeMain, mainVars
  <2> QED BY <1>2, <2>1, <2>2
<1>7. ASSUME NEW w \in Worker,
             WorkerSleep(w) \/ WorkerExit(w) \/ WorkerWake(w) \/ WorkerTake(w)
             \/ WorkerPush(w)
      PROVE  Sized'
  BY <1>2, <1>7
  DEF WorkerSleep, WorkerExit, WorkerWake, WorkerTake, WorkerPush, PopSleep,
      PopClosed, SpuriousWake, PopTake, QueuePush, queueVars, mainVars
<1>8. CASE UNCHANGED vars
  BY <1>2, <1>8 DEF vars, queueVars, mainVars
<1> QED
  BY <1>1, <1>3, <1>4, <1>5, <1>6, <1>7, <1>8
  DEF Next, MainStep, MainQuiet, WorkerLocal, WorkerLocked, WorkerQuiet, Returned

(* Nodes and workers are finite, so what remains can be counted. *)
LEMMA RemainingFinite ==
  ASSUME TypeInv
  PROVE  /\ IsFiniteSet(plan.dirty \ built)
         /\ IsFiniteSet(Unreported)
         /\ Cardinality(plan.dirty \ built) \in Nat
         /\ Cardinality(Unreported) \in Nat
<1>1. plan.dirty \ built \in SUBSET Node /\ Unreported \in SUBSET Worker
  BY DEF TypeInv, TypeOK, IsPlan, PlanOver, Unreported
<1>2. IsFiniteSet(plan.dirty \ built) /\ IsFiniteSet(Unreported)
  BY <1>1, NodesFinite, WorkerAssumption, FS_Subset
<1> QED BY <1>2, FS_CardinalityType

LEMMA RemainingStep ==
  ASSUME IInv, [Next]_vars
  PROVE  RemainingExact'
<1>0. /\ remaining = Cardinality(plan.dirty \ built) + Cardinality(Unreported)
      /\ remaining \in Nat
  BY DEF IInv, RemainingExact, TypeInv, TypeOK
<1>1. ASSUME UNCHANGED <<plan, remaining, built>>, Unreported' = Unreported
      PROVE  RemainingExact'
  BY <1>0, <1>1 DEF RemainingExact
<1>2. CASE MainStep \/ MainSpuriousWake
  <2>1. UNCHANGED <<plan, remaining, built>>
    BY <1>2
    DEF MainStep, MainReturnsAtOnce, MainOutOfMemory, MainSeedTest, MainSeeded,
        MainWaitTest, MainSleep, MainSpuriousWake, MainReturn, MainInit,
        MainSpawn, MainSeedPush, MainShutdown, historyVars
  <2>2. \A v \in Worker : wpc'[v] = wpc[v] \/ (Idle(v) /\ Idle(v)')
    BY <1>2
    DEF MainStep, MainReturnsAtOnce, MainOutOfMemory, MainSeedTest, MainSeeded,
        MainWaitTest, MainSleep, MainSpuriousWake, MainReturn, MainInit,
        MainSpawn, MainSeedPush, MainShutdown, workerVars, Idle, IInv, TypeInv,
        TypeOK
  <2>3. Unreported' = Unreported
    BY <2>2 DEF Unreported, Idle
  <2> QED BY <1>1, <2>1, <2>3
<1>3. ASSUME NEW w \in Worker,
             WorkerSleep(w) \/ WorkerTake(w) \/ WorkerExit(w) \/ WorkerWake(w)
             \/ WorkerDrain(w) \/ WorkerStart(w) \/ WorkerFail(w) \/ WorkerSkip(w)
             \/ WorkerNotify(w) \/ WorkerPush(w) \/ WorkerNotified(w)
             \/ WorkerAbort(w)
      PROVE  RemainingExact'
  <2> USE DEF WorkerSleep, WorkerTake, WorkerExit, WorkerWake, WorkerDrain,
          WorkerStart, WorkerFail, WorkerSkip, WorkerNotify, WorkerPush,
          WorkerNotified, WorkerAbort
  <2>1. UNCHANGED <<plan, remaining, built>>
    BY <1>3 DEF historyVars
  <2>2. /\ wpc[w] \in {"notify", "push", "finish"}
             <=> wpc'[w] \in {"notify", "push", "finish"}
        /\ \A v \in Worker \ {w} : wpc'[v] = wpc[v]
    BY <1>3 DEF Goto, workerVars, IInv, TypeInv, TypeOK
  <2>3. Unreported' = Unreported
    BY <2>2 DEF Unreported
  <2> QED BY <1>1, <2>1, <2>3
<1>4. ASSUME NEW w \in Worker, WorkerSucceed(w)
      PROVE  RemainingExact'
  <2>1. /\ cur[w] \in plan.dirty \ built
        /\ plan' = plan /\ remaining' = remaining
        /\ built' = built \cup {cur[w]}
    BY <1>4
    DEF WorkerSucceed, IInv, TypeInv, Assignments, Idle, Executions, Executing,
        Tokens, UsedUp, Released
  <2>2. w \notin Unreported /\ Unreported' = Unreported \cup {w}
    BY <1>4 DEF WorkerSucceed, Goto, Unreported, IInv, TypeInv, TypeOK
  <2>3. plan'.dirty \ built' = (plan.dirty \ built) \ {cur[w]}
    BY <2>1
  <2>4. Cardinality(Unreported') = Cardinality(Unreported) + 1
    BY <2>2, RemainingFinite, FS_AddElement DEF IInv
  <2>5. Cardinality(plan'.dirty \ built') = Cardinality(plan.dirty \ built) - 1
    <3> DEFINE Left == plan.dirty \ built
    <3>1. IsFiniteSet(Left) /\ cur[w] \in Left
      BY <2>1, RemainingFinite DEF IInv
    <3> HIDE DEF Left
    <3>2. Cardinality(Left \ {cur[w]}) = Cardinality(Left) - 1
      BY <3>1, FS_RemoveElement
    <3> QED BY <2>3, <3>2 DEF Left
  <2> QED BY <1>0, <2>1, <2>4, <2>5, RemainingFinite DEF RemainingExact, IInv
<1>5. ASSUME NEW w \in Worker, WorkerFinish(w)
      PROVE  RemainingExact'
  <2>1. plan' = plan /\ built' = built /\ remaining' = Dec(remaining)
    BY <1>5 DEF WorkerFinish, historyVars
  <2>2. w \in Unreported /\ Unreported' = Unreported \ {w}
    BY <1>5 DEF WorkerFinish, Goto, Unreported, IInv, TypeInv, TypeOK
  <2>3. /\ Cardinality(Unreported') = Cardinality(Unreported) - 1
        /\ Cardinality(Unreported) # 0
    BY <2>2, RemainingFinite, FS_RemoveElement, FS_EmptySet DEF IInv
  <2>4. remaining' = remaining - 1
    BY <1>0, <2>1, <2>3, RemainingFinite DEF Dec, IInv
  <2> QED BY <1>0, <2>1, <2>3, <2>4, RemainingFinite DEF RemainingExact, IInv
<1>6. CASE UNCHANGED vars
  <2>1. UNCHANGED <<plan, remaining, built>> /\ Unreported' = Unreported
    BY <1>6 DEF vars, historyVars, workerVars, Unreported
  <2> QED BY <1>1, <2>1
<1> QED
  BY <1>2, <1>3, <1>4, <1>5, <1>6
  DEF Next, WorkerLocal, WorkerLocked, Returned

(* A ring with a slot for every token never overflows. *)
LEMMA RingStep ==
  ASSUME IInv, [Next]_vars
  PROVE  RingIntact'
<1>1. ASSUME UNCHANGED <<buffer, capacity, head, tail, count>>
      PROVE  RingIntact'
  BY <1>1 DEF IInv, RingIntact, Occupied, FirstFree
<1>2. CASE MainInit
  BY <1>2 DEF MainInit, QueueInit, RingIntact, Occupied, FirstFree, IInv, TypeInv,
              TypeOK
<1>3. CASE MainQuiet
  BY <1>1, <1>3
  DEF MainQuiet, MainReturnsAtOnce, MainOutOfMemory, MainSeedTest, MainSeeded,
      MainWaitTest, MainSleep, MainSpuriousWake, MainReturn, queueVars
<1>4. CASE MainShutdown \/ \E w \in Worker : MainSpawn(w)
  BY <1>1, <1>4 DEF MainShutdown, QueueShutdown, MainSpawn, queueVars
<1>5. CASE MainSeedPush
  BY <1>5, SeedPushStep
<1>6. ASSUME NEW w \in Worker, WorkerQuiet(w)
      PROVE  RingIntact'
  BY <1>1, <1>6
  DEF WorkerQuiet, WorkerDrain, WorkerStart, WorkerSucceed, WorkerFail, WorkerSkip,
      WorkerNotify, WorkerNotified, WorkerAbort, WorkerFinish, queueVars
<1>7. ASSUME NEW w \in Worker, WorkerSleep(w) \/ WorkerExit(w) \/ WorkerWake(w)
      PROVE  RingIntact'
  BY <1>1, <1>7
  DEF WorkerSleep, WorkerExit, WorkerWake, PopSleep, PopClosed, SpuriousWake,
      queueVars
<1>8. ASSUME NEW w \in Worker, WorkerTake(w)
      PROVE  RingIntact'
  <2>1. capacity > 0
    BY <1>8 DEF WorkerTake, PopTake, IInv, TypeInv, Lifecycle, TypeOK, QueueTypeOK
  <2> QED BY <1>8, <2>1, PopFrees DEF WorkerTake, IInv, TypeInv, TypeOK
<1>9. ASSUME NEW w \in Worker, WorkerPush(w)
      PROVE  RingIntact'
  BY <1>9, PushStep
<1>10. CASE UNCHANGED vars
  BY <1>1, <1>10 DEF vars, queueVars
<1> QED
  BY <1>2, <1>3, <1>4, <1>5, <1>6, <1>7, <1>8, <1>9, <1>10
  DEF Next, MainStep, MainQuiet, WorkerLocal, WorkerLocked, WorkerQuiet, Returned

-----------------------------------------------------------------------------
(* The invariant is inductive. *)

LEMMA IInvInit == Init => IInv
<1> SUFFICES ASSUME Init PROVE IInv
  OBVIOUS
<1>1. TypeInv
  BY TypeInvInit
<1>2. capacity = 0 /\ Occupied = {} /\ RingIntact
  BY DEF Init, NoQueue, Occupied, RingIntact
<1>3. IsPlan(plan)
  BY <1>1 DEF TypeInv, TypeOK
<1>4. Executions
  BY DEF Init, Executions, Executing
<1>5. Notified = {} /\ Unreported = {}
  BY DEF Init, Notified, Unreported
<1>6. CountersExact
  BY <1>3, <1>5 DEF Init, CountersExact, PendingAtFirst, IsPlan, PlanOver
<1>7. Tokens
  <2>1. \A w \in Worker : Hand(w) = NoNode
    BY DEF Init, Hand
  <2> QED
    BY <1>2, <2>1 DEF Init, Tokens, UsedUp, MainHolds, QueueHolds, WorkersHold
<1>8. Sized
  BY <1>2 DEF Init, Sized
<1>9. RemainingExact
  <2>1. Cardinality({}) = 0
    BY FS_EmptySet
  <2>2. plan.dirty \ built = plan.dirty
    BY DEF Init
  <2> QED
    BY <1>1, <1>5, <2>1, <2>2 DEF Init, RemainingExact, TypeInv, TypeOK
<1> QED BY <1>1, <1>2, <1>4, <1>6, <1>7, <1>8, <1>9 DEF IInv

LEMMA CirculationStep ==
  ASSUME \A p \in Plans : TopDown(p), IInv, [Next]_vars
  PROVE  Circulation'
<1>1. CASE MainStep \/ MainSpuriousWake
  BY <1>1, MainIdle, SeedTestStep, SeedPushStep DEF MainStep
<1>2. ASSUME NEW w \in Worker, WorkerLocal(w)
      PROVE  Circulation'
  BY <1>2, WorkerIdle, TakeStep, WorkerLetsGo, StartStep, EndStep, PassStep,
     NotifyStep, PushStep
  DEF WorkerLocal
<1>3. ASSUME NEW w \in Worker, WorkerLocked(w) \/ WorkerWake(w)
      PROVE  Circulation'
  BY <1>3, WorkerIdle, WorkerLetsGo DEF WorkerLocked
<1>4. CASE UNCHANGED vars
  <2> USE <1>4 DEF vars, queueVars, mainVars, workerVars, historyVars
  <2>1. UNCHANGED <<plan, pending, cur, nxt, runs, built, failed, scan, mpc, wpc,
                    buffer>>
    OBVIOUS
  <2>2. Occupied' = Occupied
    BY DEF Occupied
  <2> QED BY <2>1, <2>2, IdleSteps
<1> QED BY <1>1, <1>2, <1>3, <1>4 DEF Next, Returned

LEMMA IInvNext ==
  ASSUME \A p \in Plans : TopDown(p), IInv, [Next]_vars
  PROVE  IInv'
<1>1. TypeInv'
  BY TypeInvNext DEF IInv
<1> QED
  BY <1>1, RingStep, CirculationStep, SizedStep, RemainingStep
  DEF IInv, Circulation

LEMMA IInvAlways ==
  ASSUME \A p \in Plans : TopDown(p)
  PROVE  Spec => []IInv
BY IInvInit, IInvNext, PTL DEF Spec

-----------------------------------------------------------------------------
(* The properties, for TopDown plans: a build declared from its final       *)
(* targets down, with any number of nodes, of threads, any interleaving and *)
(* any pattern of failures.                                                 *)

(* worker_fn never takes up a node that was taken up before. *)
THEOREM ExecutesAtMostOnce ==
  ASSUME \A p \in Plans : TopDown(p)
  PROVE  Spec => []AtMostOnce
<1>1. IInv => AtMostOnce
  <2> SUFFICES ASSUME IInv, NEW n \in Node
               PROVE  runs[n] <= 1
    BY DEF AtMostOnce
  <2>1. runs[n] = 0 \/ runs[n] = 1
    BY DEF IInv, Executions
  <2> QED BY <2>1
<1> QED BY <1>1, IInvAlways, PTL

(* worker_fn takes up a node only when every dirty node it waits for was    *)
(* executed with success.                                                   *)
THEOREM ExecutesInOrder ==
  ASSUME \A p \in Plans : TopDown(p)
  PROVE  Spec => []DepsFirst
<1>1. IInv => DepsFirst
  <2> SUFFICES ASSUME IInv, NEW n \in Node, runs[n] > 0
               PROVE  Needs(plan, n) \subseteq built
    BY DEF DepsFirst
  <2>1. runs[n] = 1
    BY DEF IInv, Executions
  <2>2. n \in plan.dirty /\ pending[n] = 0
    BY <2>1 DEF IInv, Tokens, UsedUp, Released
  <2> QED BY <2>2, ReleasedMeansBuilt DEF IInv
<1> QED BY <1>1, IInvAlways, PTL

(* queue_push never writes to a full ring. *)
THEOREM RingNeverOverflows ==
  ASSUME \A p \in Plans : TopDown(p)
  PROVE  Spec => []NeverOverflows
<1>1. IInv => NeverOverflows
  BY DEF IInv, RingIntact, NeverOverflows
<1> QED BY <1>1, IInvAlways, PTL

(* pending_deps is the number of notifications still to come. *)
THEOREM PendingCountsExactly ==
  ASSUME \A p \in Plans : TopDown(p)
  PROVE  Spec => []CountersExact
<1>1. IInv => CountersExact
  BY DEF IInv
<1> QED BY <1>1, IInvAlways, PTL

(* remaining_dirty is 0 only when every node was executed and reported. *)
THEOREM RemainingCountsExactly ==
  ASSUME \A p \in Plans : TopDown(p)
  PROVE  Spec => []RemainingExact
<1>1. IInv => RemainingExact
  BY DEF IInv
<1> QED BY <1>1, IInvAlways, PTL

-----------------------------------------------------------------------------
(* How a call ends. *)

(* Before the call has returned: a step that changes neither has_error nor *)
(* what was built or failed.                                               *)
LEMMA EndFrame ==
  ASSUME EndInv, UNCHANGED <<plan, hasError, built, failed>>,
         mpc' # "done",
         mpc' = "start" => mpc = "start",
         shutdown' => mpc' = "join",
         mpc' \in {"shutdown", "join"} => remaining' = 0 \/ hasError,
         \A w \in Worker : wpc'[w] = "exited" => shutdown',
         (\A w \in Worker : wpc'[w] = "exited") => count' = 0
  PROVE  EndInv'
BY DEF EndInv, ErrorKnown, ExitsLate, StopsForReason, Drained, NothingBefore,
       ReturnIsHonest

(* After it: nothing happens but a worker's wake-up, and none is there.    *)
LEMMA EndStays ==
  ASSUME EndInv, UNCHANGED <<plan, hasError, built, failed, mpc, ret, wpc,
                             remaining, count, shutdown>>
  PROVE  EndInv'
BY DEF EndInv, ErrorKnown, ExitsLate, StopsForReason, Drained, NothingBefore,
       ReturnIsHonest

(* A worker with something to do is there only while the call runs. *)
LEMMA WorkingMeansRunning ==
  ASSUME TypeInv, EndInv, NEW w \in Worker, wpc[w] \notin {"unborn", "exited"}
  PROVE  mpc # "done" /\ mpc # "start"
BY DEF TypeInv, Lifecycle, TypeOK, QueueTypeOK, EndInv, ReturnIsHonest

(* Nothing was built and nothing is left to report when nothing remains. *)
LEMMA NothingRemains ==
  ASSUME IInv, remaining = 0
  PROVE  plan.dirty \subseteq built
<1>1. Cardinality(plan.dirty \ built) = 0
  BY RemainingFinite DEF IInv, RemainingExact
<1>2. plan.dirty \ built = {}
  BY <1>1, RemainingFinite, FS_EmptySet DEF IInv
<1> QED BY <1>2

(* A node that failed was dirty and is not built. *)
LEMMA FailureShows ==
  ASSUME IInv, failed # {}
  PROVE  ~(plan.dirty \subseteq built)
<1>1. PICK n \in failed : TRUE
  OBVIOUS
<1>2. n \in Node /\ runs[n] = 1 /\ n \notin built
  BY DEF IInv, Executions, TypeInv, TypeOK
<1>3. n \in plan.dirty
  BY <1>2 DEF IInv, Tokens, UsedUp, Released
<1> QED BY <1>2, <1>3

(* The returns of zmm_bg_exec before it has created a thread. *)
LEMMA EarlyReturn ==
  ASSUME IInv, EndInv, MainReturnsAtOnce \/ MainOutOfMemory
  PROVE  EndInv'
<1> USE DEF MainReturnsAtOnce, MainOutOfMemory, queueVars, workerVars, historyVars
<1>1. /\ mpc = "start" /\ capacity = 0 /\ count = 0
      /\ \A w \in Worker : wpc[w] = "unborn"
  BY DEF IInv, TypeInv, TypeOK, Lifecycle, QueueTypeOK
<1>2. built = {} /\ failed = {}
  BY <1>1 DEF EndInv, NothingBefore
<1>3. plan.dirty \subseteq built <=> remaining = 0
  <2>1. remaining > 0 => plan.dirty # {}
    BY <1>1, FS_EmptySet DEF IInv, Sized
  <2> QED BY <1>2, <2>1, NothingRemains DEF IInv, TypeInv, TypeOK
<1>4. ReturnIsHonest'
  BY <1>1, <1>3 DEF ReturnIsHonest
<1> QED
  BY <1>1, <1>2, <1>4
  DEF EndInv, ErrorKnown, ExitsLate, StopsForReason, Drained, NothingBefore

(* The return after the workers were joined. *)
LEMMA LateReturn ==
  ASSUME IInv, EndInv, MainReturn
  PROVE  EndInv'
<1> USE DEF MainReturn, queueVars, workerVars, historyVars
<1>1. hasError => ~(plan.dirty \subseteq built)
  BY FailureShows DEF EndInv, ErrorKnown
<1>2. ~hasError => plan.dirty \subseteq built
  BY NothingRemains DEF EndInv, StopsForReason
<1>3. count = 0
  BY DEF EndInv, Drained
<1>4. ReturnIsHonest'
  BY <1>1, <1>2, <1>3 DEF ReturnIsHonest
<1> QED
  BY <1>3, <1>4
  DEF EndInv, ErrorKnown, ExitsLate, StopsForReason, Drained, NothingBefore

LEMMA EndMain ==
  ASSUME IInv, EndInv, MainStep \/ MainSpuriousWake
  PROVE  EndInv'
<1>1. mpc \notin {"join", "done"} => ~shutdown /\ \A w \in Worker : wpc[w] # "exited"
  BY DEF EndInv, ExitsLate
<1>2. CASE \/ MainSeedTest \/ MainSeeded \/ MainWaitTest \/ MainSleep
           \/ MainSpuriousWake
  <2> USE <1>2 DEF MainSeedTest, MainSeeded, MainWaitTest, MainSleep,
          MainSpuriousWake, queueVars, workerVars, historyVars
  <2>1. mpc' # "join" /\ mpc' # "done" /\ mpc' # "start"
    OBVIOUS
  <2>2. mpc' = "shutdown" => remaining = 0 \/ hasError
    BY DEF IInv, TypeInv, TypeOK
  <2> QED BY <1>1, <2>1, <2>2, EndFrame, WorkerAssumption
<1>3. CASE MainSeedPush
  <2> USE <1>3 DEF MainSeedPush, QueuePush, workerVars, historyVars
  <2> QED BY <1>1, EndFrame, WorkerAssumption
<1>4. CASE MainInit
  <2> USE <1>4 DEF MainInit, QueueInit, workerVars, historyVars
  <2> QED BY <1>1, EndFrame, WorkerAssumption
<1>5. ASSUME NEW w \in Worker, MainSpawn(w)
      PROVE  EndInv'
  <2> USE <1>5 DEF MainSpawn, queueVars, historyVars
  <2>1. \A v \in Worker : wpc'[v] # "exited"
    BY <1>1 DEF IInv, TypeInv, TypeOK
  <2> QED BY <1>1, <2>1, EndFrame, WorkerAssumption
<1>6. CASE MainShutdown
  <2> USE <1>6 DEF MainShutdown, QueueShutdown, workerVars, historyVars
  <2>1. remaining = 0 \/ hasError
    BY DEF EndInv, StopsForReason
  <2> QED BY <1>1, <2>1, EndFrame, WorkerAssumption
<1> QED
  BY <1>2, <1>3, <1>4, <1>5, <1>6, EarlyReturn, LateReturn DEF MainStep

(* What all steps of one worker have in common. *)
LEMMA WorkerStays ==
  ASSUME TypeInv, NEW w \in Worker, WorkerLocal(w) \/ WorkerLocked(w)
  PROVE  /\ UNCHANGED <<plan, shutdown, ret>>
         /\ wpc[w] \notin {"unborn", "exited"}
         /\ wpc' = [wpc EXCEPT ![w] = wpc'[w]]
         /\ mpc' = mpc \/ (mpc = "asleep" /\ mpc' = "wait")
<1> USE DEF TypeInv, TypeOK, Goto, queueVars, mainVars, workerVars
<1>1. CASE WorkerSleep(w) \/ WorkerTake(w) \/ WorkerExit(w) \/ WorkerPush(w)
  BY <1>1 DEF WorkerSleep, WorkerTake, WorkerExit, WorkerPush, PopSleep, PopTake,
              PopClosed, QueuePush
<1>2. CASE \/ WorkerDrain(w) \/ WorkerStart(w) \/ WorkerSucceed(w) \/ WorkerFail(w)
           \/ WorkerSkip(w) \/ WorkerNotify(w) \/ WorkerNotified(w)
  BY <1>2 DEF WorkerDrain, WorkerStart, WorkerSucceed, WorkerFail, WorkerSkip,
              WorkerNotify, WorkerNotified
<1>3. CASE WorkerAbort(w) \/ WorkerFinish(w)
  BY <1>3 DEF WorkerAbort, WorkerFinish, WakeMain
<1> QED BY <1>1, <1>2, <1>3 DEF WorkerLocal, WorkerLocked

LEMMA EndWorker ==
  ASSUME IInv, EndInv, NEW w \in Worker, WorkerLocal(w) \/ WorkerLocked(w)
  PROVE  EndInv'
<1>1. /\ UNCHANGED <<plan, shutdown, ret>>
      /\ wpc[w] \notin {"unborn", "exited"}
      /\ mpc # "done" /\ mpc # "start"
      /\ mpc' = mpc \/ (mpc = "asleep" /\ mpc' = "wait")
      /\ wpc' = [wpc EXCEPT ![w] = wpc'[w]]
  BY WorkerStays, WorkingMeansRunning DEF IInv
<1>2. wpc \in [Worker -> WorkerPoint]
  BY DEF IInv, TypeInv, TypeOK
<1>3. \A v \in Worker \ {w} : wpc'[v] = wpc[v]
  BY <1>1, <1>2
<1>4. shutdown' => mpc' = "join"
  BY <1>1 DEF EndInv, ExitsLate
<1>5. ASSUME UNCHANGED <<hasError, built, failed, remaining>>, wpc'[w] # "exited"
      PROVE  EndInv'
  <2>1. \A v \in Worker : wpc'[v] = "exited" => shutdown'
    BY <1>1, <1>3, <1>5 DEF EndInv, ExitsLate
  <2>2. mpc' \in {"shutdown", "join"} => remaining' = 0 \/ hasError
    BY <1>1, <1>5 DEF EndInv, StopsForReason
  <2> QED BY <1>1, <1>4, <1>5, <2>1, <2>2, EndFrame
<1>6. CASE \/ WorkerSleep(w) \/ WorkerTake(w) \/ WorkerDrain(w) \/ WorkerStart(w)
           \/ WorkerSkip(w) \/ WorkerNotify(w) \/ WorkerPush(w)
           \/ WorkerNotified(w) \/ WorkerAbort(w)
  <2> USE <1>6 DEF WorkerSleep, WorkerTake, WorkerDrain, WorkerStart, WorkerSkip,
          WorkerNotify, WorkerPush, WorkerNotified, WorkerAbort, Goto, historyVars,
          workerVars
  <2>1. UNCHANGED <<hasError, built, failed, remaining>>
    OBVIOUS
  <2>2. wpc'[w] # "exited"
    BY <1>1, <1>2
  <2> QED BY <1>5, <2>1, <2>2
<1>7. CASE WorkerExit(w)
  <2> USE <1>7 DEF WorkerExit, PopClosed, queueVars, mainVars, historyVars
  <2>1. shutdown /\ count = 0
    OBVIOUS
  <2>2. mpc' \in {"shutdown", "join"} => remaining' = 0 \/ hasError
    BY DEF EndInv, StopsForReason
  <2> QED BY <1>1, <1>4, <2>1, <2>2, EndFrame
<1>8. CASE WorkerSucceed(w)
  <2> USE <1>8 DEF WorkerSucceed, Goto, queueVars, mainVars
  <2>1. wpc'[w] = "notify" /\ mpc' = mpc
    BY <1>2
  <2>2. /\ \A v \in Worker : wpc'[v] = "exited" => shutdown'
        /\ ~\A v \in Worker : wpc'[v] = "exited"
    BY <1>1, <1>3, <2>1 DEF EndInv, ExitsLate
  <2> QED
    BY <1>1, <1>4, <2>1, <2>2
    DEF EndInv, ErrorKnown, ExitsLate, StopsForReason, Drained, NothingBefore,
        ReturnIsHonest
<1>9. CASE WorkerFail(w)
  <2> USE <1>9 DEF WorkerFail, Goto, queueVars, mainVars
  <2>1. wpc'[w] = "abort" /\ mpc' = mpc /\ failed' # {} /\ hasError'
    BY <1>2
  <2>2. /\ \A v \in Worker : wpc'[v] = "exited" => shutdown'
        /\ ~\A v \in Worker : wpc'[v] = "exited"
    BY <1>1, <1>3, <2>1 DEF EndInv, ExitsLate
  <2> QED
    BY <1>1, <1>4, <2>1, <2>2
    DEF EndInv, ErrorKnown, ExitsLate, StopsForReason, Drained, NothingBefore,
        ReturnIsHonest
<1>10. CASE WorkerFinish(w)
  <2> USE <1>10 DEF WorkerFinish, Goto, queueVars, historyVars
  <2>1. remaining # 0
    <3>1. w \in Unreported
      BY DEF Unreported
    <3>2. Cardinality(Unreported) # 0
      BY <3>1, RemainingFinite, FS_EmptySet DEF IInv
    <3> QED BY <3>2, RemainingFinite DEF IInv, RemainingExact
  <2>2. wpc'[w] = "pop"
    BY <1>2
  <2>3. \A v \in Worker : wpc'[v] = "exited" => shutdown'
    BY <1>1, <1>3, <2>2 DEF EndInv, ExitsLate
  <2>4. mpc' \in {"shutdown", "join"} => remaining' = 0 \/ hasError
    BY <1>1, <2>1 DEF EndInv, StopsForReason
  <2> QED BY <1>1, <1>4, <2>2, <2>3, <2>4, EndFrame
<1> QED
  BY <1>6, <1>7, <1>8, <1>9, <1>10 DEF WorkerLocal, WorkerLocked

LEMMA EndNext ==
  ASSUME IInv, EndInv, [Next]_vars
  PROVE  EndInv'
<1>1. ASSUME NEW w \in Worker, WorkerWake(w)
      PROVE  EndInv'
  BY <1>1, EndStays
  DEF WorkerWake, SpuriousWake, mainVars, workerVars, historyVars
<1>2. CASE UNCHANGED vars
  BY <1>2, EndStays DEF vars, queueVars, mainVars, workerVars, historyVars
<1> QED BY <1>1, <1>2, EndMain, EndWorker DEF Next, Returned

LEMMA EndInit == Init => EndInv
BY WorkerAssumption
DEF Init, NoQueue, EndInv, ErrorKnown, ExitsLate, StopsForReason, Drained,
    NothingBefore, ReturnIsHonest

LEMMA EndAlways ==
  ASSUME \A p \in Plans : TopDown(p)
  PROVE  Spec => [](IInv /\ EndInv)
<1>1. Init => IInv /\ EndInv
  BY IInvInit, EndInit
<1>2. IInv /\ EndInv /\ [Next]_vars => (IInv /\ EndInv)'
  BY IInvNext, EndNext
<1> QED BY <1>1, <1>2, PTL DEF Spec

(* zmm_bg_exec returns 0 exactly when all dirty nodes were executed with   *)
(* success, and then as otherwise no worker is left and no task.           *)
THEOREM ReturnsHonestly ==
  ASSUME \A p \in Plans : TopDown(p)
  PROVE  Spec => []ReturnIsHonest
<1>1. EndInv => ReturnIsHonest
  BY DEF EndInv
<1> QED BY <1>1, EndAlways, PTL

-----------------------------------------------------------------------------
(* Wake-ups of workers, for every plan. *)

Awake == {w \in Worker : wpc[w] = "pop" /\ w \notin sleepers}

WakeInv == TypeInv /\ SleepersPop /\ NoTaskOversleeps

LEMMA AwakeFinite ==
  /\ IsFiniteSet(Awake) /\ Cardinality(Awake) \in Nat
  /\ IsFiniteSet(Awake') /\ Cardinality(Awake') \in Nat
<1>1. Awake \in SUBSET Worker /\ Awake' \in SUBSET Worker
  BY DEF Awake
<1> QED BY <1>1, WorkerAssumption, FS_Subset, FS_CardinalityType

(* A push by anybody: if somebody sleeps, the signal sends one more worker *)
(* to queue_pop.                                                           *)
LEMMA PushWakes ==
  ASSUME WakeInv, NEW n \in Node, QueuePush(n),
         \A w \in Worker : wpc[w] = "pop" => wpc'[w] = "pop",
         \A w \in sleepers : wpc'[w] = "pop"
  PROVE  SleepersPop' /\ NoTaskOversleeps'
<1>1. CASE sleepers = {}
  BY <1>1 DEF QueuePush, WakeOne, SleepersPop, NoTaskOversleeps
<1>2. CASE sleepers # {}
  <2>1. PICK w \in sleepers : sleepers' = sleepers \ {w}
    BY <1>2 DEF QueuePush, WakeOne
  <2>2. w \in Worker /\ wpc'[w] = "pop" /\ SleepersPop'
    BY <2>1 DEF WakeInv, TypeInv, TypeOK, QueueTypeOK, SleepersPop
  <2>3. w \notin Awake /\ Awake \cup {w} \subseteq Awake'
    BY <2>1, <2>2 DEF Awake
  <2>4. Cardinality(Awake \cup {w}) = Cardinality(Awake) + 1
    BY <2>3, AwakeFinite, FS_AddElement
  <2>5. Cardinality(Awake \cup {w}) <= Cardinality(Awake')
    BY <2>3, AwakeFinite, FS_Subset
  <2>6. count <= Cardinality(Awake) /\ count' = count + 1 /\ count \in Nat
    BY <1>2 DEF WakeInv, NoTaskOversleeps, Awake, QueuePush, TypeInv, TypeOK,
                QueueTypeOK
  <2>7. count' <= Cardinality(Awake')
    BY <2>4, <2>5, <2>6, AwakeFinite
  <2> QED BY <2>2, <2>7 DEF NoTaskOversleeps, Awake
<1> QED BY <1>1, <1>2

(* A step that takes nobody out of queue_pop and adds no task. *)
LEMMA WakeFrame ==
  ASSUME WakeInv, count' = count,
         sleepers' \subseteq sleepers,
         \A w \in Worker : wpc[w] = "pop" => wpc'[w] = "pop"
  PROVE  SleepersPop' /\ NoTaskOversleeps'
<1>1. SleepersPop'
  BY DEF WakeInv, SleepersPop, TypeInv, TypeOK, QueueTypeOK
<1>2. CASE sleepers' = {}
  BY <1>1, <1>2 DEF NoTaskOversleeps
<1>3. CASE sleepers # {} /\ sleepers' # {}
  <2>1. Awake \subseteq Awake'
    BY DEF Awake
  <2>2. Cardinality(Awake) <= Cardinality(Awake')
    BY <2>1, AwakeFinite, FS_Subset
  <2>3. count <= Cardinality(Awake) /\ count \in Nat
    BY <1>3 DEF WakeInv, NoTaskOversleeps, Awake, TypeInv, TypeOK, QueueTypeOK
  <2>4. count' <= Cardinality(Awake')
    BY <2>2, <2>3, AwakeFinite
  <2> QED BY <1>1, <2>4 DEF NoTaskOversleeps, Awake
<1> QED BY <1>2, <1>3

LEMMA WakeMainStep ==
  ASSUME WakeInv, MainStep \/ MainSpuriousWake
  PROVE  SleepersPop' /\ NoTaskOversleeps'
<1>1. CASE MainQuiet
  BY <1>1, WakeFrame
  DEF MainQuiet, MainReturnsAtOnce, MainOutOfMemory, MainSeedTest, MainSeeded,
      MainWaitTest, MainSleep, MainSpuriousWake, MainReturn, queueVars, workerVars
<1>2. CASE MainSeedPush
  <2>1. scan \in Node
    BY <1>2, NodeAssumption
    DEF MainSeedPush, WakeInv, TypeInv, TypeOK, Lifecycle
  <2> QED
    BY <1>2, <2>1, PushWakes DEF MainSeedPush, workerVars, WakeInv, SleepersPop
<1>3. CASE MainInit
  BY <1>3, WakeFrame
  DEF MainInit, QueueInit, workerVars, WakeInv, TypeInv, Lifecycle, TypeOK,
      QueueTypeOK
<1>4. ASSUME NEW w \in Worker, MainSpawn(w)
      PROVE  SleepersPop' /\ NoTaskOversleeps'
  BY <1>4, WakeFrame DEF MainSpawn, queueVars, WakeInv, TypeInv, TypeOK
<1>5. CASE MainShutdown
  BY <1>5, WakeFrame DEF MainShutdown, QueueShutdown, workerVars
<1> QED BY <1>1, <1>2, <1>3, <1>4, <1>5 DEF MainStep, MainQuiet

LEMMA WakeWorkerStep ==
  ASSUME WakeInv, NEW w \in Worker,
         WorkerLocal(w) \/ WorkerLocked(w) \/ WorkerWake(w)
  PROVE  SleepersPop' /\ NoTaskOversleeps'
<1>0. /\ wpc \in [Worker -> WorkerPoint] /\ count \in Nat
      /\ sleepers \subseteq Worker
  BY DEF WakeInv, TypeInv, TypeOK, QueueTypeOK
<1>1. CASE WorkerQuiet(w)
  <2>1. /\ count' = count /\ sleepers' = sleepers /\ wpc[w] # "pop"
        /\ \A v \in Worker \ {w} : wpc'[v] = wpc[v]
    BY <1>0, <1>1
    DEF WorkerQuiet, WorkerDrain, WorkerStart, WorkerSucceed, WorkerFail,
        WorkerSkip, WorkerNotify, WorkerNotified, WorkerAbort, WorkerFinish,
        Goto, queueVars
  <2> QED BY <2>1, WakeFrame
<1>2. CASE WorkerWake(w)
  BY <1>2, WakeFrame DEF WorkerWake, SpuriousWake, workerVars
<1>3. CASE WorkerSleep(w)
  <2>1. SleepersPop'
    BY <1>3 DEF WorkerSleep, PopSleep, workerVars, WakeInv, SleepersPop
  <2>2. count' = 0
    BY <1>3 DEF WorkerSleep, PopSleep
  <2>3. count' <= Cardinality(Awake')
    BY <2>2, AwakeFinite
  <2> QED BY <2>1, <2>3 DEF NoTaskOversleeps, Awake
<1>4. CASE WorkerTake(w)
  <2>1. /\ wpc[w] = "pop" /\ w \notin sleepers /\ sleepers' = sleepers
        /\ count' = count - 1
        /\ wpc' = [wpc EXCEPT ![w] = "check"]
    BY <1>4 DEF WorkerTake, PopTake, Goto
  <2>2. SleepersPop'
    BY <1>0, <2>1 DEF WakeInv, SleepersPop
  <2>3. CASE sleepers = {}
    BY <2>1, <2>2, <2>3 DEF NoTaskOversleeps
  <2>4. CASE sleepers # {}
    <3>1. w \in Awake /\ Awake' = Awake \ {w}
      BY <1>0, <2>1 DEF Awake
    <3>2. Cardinality(Awake') = Cardinality(Awake) - 1
      BY <3>1, AwakeFinite, FS_RemoveElement
    <3>3. count <= Cardinality(Awake)
      BY <2>4 DEF WakeInv, NoTaskOversleeps, Awake
    <3>4. count' <= Cardinality(Awake')
      BY <1>0, <2>1, <3>2, <3>3, AwakeFinite
    <3> QED BY <2>2, <3>4 DEF NoTaskOversleeps, Awake
  <2> QED BY <2>3, <2>4
<1>5. CASE WorkerExit(w)
  <2>1. /\ w \notin sleepers /\ sleepers' = sleepers /\ count' = 0
        /\ \A v \in Worker \ {w} : wpc'[v] = wpc[v]
    BY <1>0, <1>5 DEF WorkerExit, PopClosed, Goto, queueVars
  <2>2. SleepersPop'
    BY <1>0, <2>1 DEF WakeInv, SleepersPop
  <2>3. count' <= Cardinality(Awake')
    BY <2>1, AwakeFinite
  <2> QED BY <2>2, <2>3 DEF NoTaskOversleeps, Awake
<1>6. CASE WorkerPush(w)
  <2>1. /\ wpc[w] = "push" /\ Dependent(w) \in Node /\ QueuePush(Dependent(w))
        /\ wpc' = [wpc EXCEPT ![w] = "notify"]
    BY <1>6
    DEF WorkerPush, Goto, WakeInv, TypeInv, TypeOK, Assignments, IsPlan, PlanOver
  <2>2. /\ \A v \in Worker : wpc[v] = "pop" => wpc'[v] = "pop"
        /\ \A v \in sleepers : wpc'[v] = "pop"
    BY <1>0, <2>1 DEF WakeInv, SleepersPop
  <2> QED BY <2>1, <2>2, PushWakes
<1> QED
  BY <1>1, <1>2, <1>3, <1>4, <1>5, <1>6
  DEF WorkerLocal, WorkerLocked, WorkerQuiet

(* No wake-up of a worker is lost, whatever the plan (pthread_cond_signal  *)
(* in queue_push, the wait loop of queue_pop): while a worker sleeps every *)
(* task in the ring has an awake worker of its own.                        *)
THEOREM WorkersWokenForTasks == Spec => []NoTaskOversleeps
<1>1. Init => WakeInv
  BY TypeInvInit
  DEF Init, NoQueue, WakeInv, SleepersPop, NoTaskOversleeps
<1>2. WakeInv /\ [Next]_vars => WakeInv'
  <2> SUFFICES ASSUME WakeInv, [Next]_vars PROVE WakeInv'
    OBVIOUS
  <2>1. TypeInv'
    BY TypeInvNext DEF WakeInv
  <2>2. CASE UNCHANGED vars
    BY <2>2, WakeFrame, <2>1 DEF vars, queueVars, workerVars, WakeInv
  <2> QED
    BY <2>1, <2>2, WakeMainStep, WakeWorkerStep DEF Next, Returned, WakeInv
<1>3. WakeInv => NoTaskOversleeps
  BY DEF WakeInv
<1> QED BY <1>1, <1>2, <1>3, PTL DEF Spec

-----------------------------------------------------------------------------
(* The engine implements the abstract build, for TopDown plans. *)

(* What a node's execution means: no worker runs what was built or failed. *)
LEMMA StatusOf ==
  ASSUME IInv, NEW n \in Node
  PROVE  /\ Status(n) \in {"waiting", "running", "built", "failed"}
         /\ Status(n) = "running" <=> \E w \in Worker : wpc[w] = "run" /\ cur[w] = n
         /\ Status(n) = "built" <=> n \in built
         /\ Status(n) = "failed" <=> n \in failed
BY DEF Status, IInv, Executions

LEMMA InitOrder == Init => Order!Init
<1> SUFFICES ASSUME Init PROVE Order!Init
  OBVIOUS
<1>1. IsPlan(plan)
  BY PlansAssumption DEF Init
<1>2. \A n \in Node : Needs(plan, n) \subseteq plan.dirty
  BY <1>1, SlotShape DEF Needs, SlotsTo
<1>3. \A n \in Node : Status(n) = "waiting"
  BY DEF Init, Status
<1>4. mpc # "done"
  BY DEF Init
<1> QED BY <1>1, <1>2, <1>3, <1>4 DEF Order!Init, IsPlan, PlanOver

(* A step that starts and ends no execution and returns nothing. *)
LEMMA OrderStutters ==
  ASSUME UNCHANGED <<plan, built, failed, ret>>,
         mpc' = "done" <=> mpc = "done",
         \A w \in Worker : /\ wpc'[w] = "run" <=> wpc[w] = "run"
                           /\ wpc[w] = "run" => cur'[w] = cur[w]
  PROVE  UNCHANGED Order!orderVars
<1>1. \A n \in Node : Status(n)' = Status(n)
  BY DEF Status
<1>2. [n \in Node |-> Status(n)]' = [n \in Node |-> Status(n)]
  BY <1>1
<1>3. [n \in Node |-> Needs(plan, n)]' = [n \in Node |-> Needs(plan, n)]
  OBVIOUS
<1> QED BY <1>2, <1>3 DEF Order!orderVars

(* WorkerStart is a Start of its node. *)
LEMMA StartIsStart ==
  ASSUME IInv, EndInv, IInv', NEW w \in Worker, WorkerStart(w)
  PROVE  Order!Next
<1> DEFINE n == cur[w]
<1> USE DEF WorkerStart, Goto, mainVars
<1>1. /\ n \in Node /\ n # NoNode /\ Hand(w) = n /\ Token(n)
      /\ mpc # "done" /\ mpc' = mpc /\ plan' = plan
  BY NoNodeAssumption, WorkingMeansRunning
  DEF IInv, TypeInv, Assignments, Idle, Hand, Tokens, WorkersHold
<1>2. n \in plan.dirty /\ Needs(plan, n) \subseteq built
  BY <1>1, ReleasedMeansBuilt DEF Token, Released, IInv
<1>3. Status(n) = "waiting"
  <2>1. n \notin built /\ n \notin failed
    BY <1>1 DEF IInv, Executions, Token
  <2>2. \A v \in Worker : ~(wpc[v] = "run" /\ cur[v] = n)
    BY <1>1 DEF IInv, Executions, Executing, Token
  <2> QED BY <2>1, <2>2 DEF Status
<1>4. \A m \in Needs(plan, n) : m \in Node /\ Status(m) = "built"
  <2>1. built \subseteq Node
    BY DEF IInv, TypeInv, TypeOK
  <2> QED BY <1>2, <2>1, StatusOf
<1>5. wpc \in [Worker -> WorkerPoint] /\ wpc'[w] = "run" /\ cur' = cur
  BY DEF IInv, TypeInv, TypeOK
<1>6. Status(n)' = "running"
  BY <1>5 DEF Status
<1>7. \A m \in Node \ {n} : Status(m)' = Status(m)
  BY <1>5 DEF Status
<1>8. [m \in Node |-> Status(m)]' =
        [[m \in Node |-> Status(m)] EXCEPT ![n] = "running"]
  BY <1>1, <1>6, <1>7
<1> QED BY <1>1, <1>2, <1>3, <1>4, <1>8 DEF Order!Next, Order!Start

(* WorkerSucceed and WorkerFail are the Finish of their node. *)
LEMMA EndIsFinish ==
  ASSUME IInv, EndInv, IInv', NEW w \in Worker, WorkerSucceed(w) \/ WorkerFail(w)
  PROVE  Order!Next
<1> DEFINE n == cur[w]
<1> USE DEF WorkerSucceed, WorkerFail, Goto, mainVars
<1>1. /\ wpc[w] = "run" /\ n \in Node /\ plan' = plan /\ mpc' = mpc /\ ret' = ret
      /\ cur' = cur
      /\ \A v \in Worker \ {w} : wpc'[v] = wpc[v]
      /\ wpc'[w] # "run"
  BY NoNodeAssumption DEF IInv, TypeInv, TypeOK, Assignments, Idle
<1>2. Status(n) = "running"
  BY <1>1, StatusOf
<1>3. \A v \in Worker \ {w} : wpc[v] = "run" => cur[v] # n
  BY <1>1 DEF IInv, Executions, Executing
<1>4. Status(n)' \in {"built", "failed"}
  <2>1. n \in built' \cup failed'
    OBVIOUS
  <2>2. \A v \in Worker : ~(wpc'[v] = "run" /\ cur'[v] = n)
    BY <1>1, <1>3
  <2> QED BY <2>1, <2>2 DEF Status
<1>5. \A m \in Node \ {n} : Status(m)' = Status(m)
  <2> TAKE m \in Node \ {n}
  <2>1. (m \in built' <=> m \in built) /\ (m \in failed' <=> m \in failed)
    OBVIOUS
  <2>2. (\E v \in Worker : wpc'[v] = "run" /\ cur'[v] = m)
          <=> (\E v \in Worker : wpc[v] = "run" /\ cur[v] = m)
    BY <1>1
  <2> QED BY <2>1, <2>2 DEF Status
<1>6. \E s \in {"built", "failed"} :
        [m \in Node |-> Status(m)]' = [[m \in Node |-> Status(m)] EXCEPT ![n] = s]
  BY <1>1, <1>4, <1>5
<1> QED BY <1>1, <1>2, <1>6 DEF Order!Next, Order!Finish

(* The returns are Succeed or Fail. *)
LEMMA ReturnIsReturn ==
  ASSUME IInv, EndInv, EndInv',
         MainReturnsAtOnce \/ MainOutOfMemory \/ MainReturn
  PROVE  Order!Next
<1> USE DEF MainReturnsAtOnce, MainOutOfMemory, MainReturn, queueVars, workerVars,
        historyVars
<1>1. /\ mpc # "done" /\ mpc' = "done"
      /\ UNCHANGED <<plan, built, failed, wpc, cur>>
  OBVIOUS
<1>2. /\ ret' = 0 <=> plan.dirty \subseteq built
      /\ \A w \in Worker : wpc[w] # "run"
  BY <1>1 DEF EndInv, ReturnIsHonest
<1>3. UNCHANGED <<[n \in Node |-> Needs(plan, n)], [n \in Node |-> Status(n)],
                  plan.dirty>>
  <2>1. \A n \in Node : Status(n)' = Status(n)
    BY <1>1 DEF Status
  <2> QED BY <1>1, <2>1
<1>4. plan.dirty \subseteq Node /\ failed \subseteq Node
  BY DEF IInv, TypeInv, TypeOK, IsPlan, PlanOver
<1>5. CASE ret' = 0
  <2>1. \A n \in plan.dirty : Status(n) = "built"
    BY <1>2, <1>4, <1>5, StatusOf
  <2> QED BY <1>1, <1>3, <1>4, <1>5, <2>1 DEF Order!Next, Order!Succeed
<1>6. CASE ret' # 0
  <2>1. \A n \in Node : Status(n) # "running"
    BY <1>2, StatusOf
  <2>2. \/ \E n \in plan.dirty : Status(n) = "failed"
        \/ \A n \in Node : Status(n) = "waiting"
    <3>1. CASE failed = {} /\ built = {}
      BY <1>2, <3>1 DEF Status
    <3>2. CASE failed # {}
      <4>1. PICK n \in failed : TRUE
        BY <3>2
      <4>2. n \in plan.dirty
        BY <1>4, <4>1 DEF IInv, Executions, Tokens, UsedUp, Released
      <4> QED BY <1>4, <4>1, <4>2, StatusOf
    <3>3. CASE failed = {} /\ built # {}
      <4>1. mpc # "start"
        BY <3>3 DEF EndInv, NothingBefore
      <4>2. MainReturn /\ ~hasError
        BY <3>3, <4>1 DEF EndInv, ErrorKnown
      <4> QED BY <1>6, <4>2
    <3> QED BY <3>1, <3>2, <3>3
  <2> QED BY <1>1, <1>3, <1>4, <1>6, <2>1, <2>2 DEF Order!Next, Order!Fail
<1> QED BY <1>5, <1>6

(* The main thread's other steps are none of the abstract build. *)
LEMMA MainStutters ==
  ASSUME IInv,
         \/ MainInit \/ (\E w \in Worker : MainSpawn(w))
         \/ MainSeedTest \/ MainSeedPush \/ MainSeeded
         \/ MainWaitTest \/ MainSleep \/ MainSpuriousWake \/ MainShutdown
  PROVE  UNCHANGED Order!orderVars
<1>1. CASE \/ MainInit \/ MainSeedTest \/ MainSeedPush \/ MainSeeded
           \/ MainWaitTest \/ MainSleep \/ MainSpuriousWake \/ MainShutdown
  BY <1>1, OrderStutters
  DEF MainInit, MainSeedTest, MainSeedPush, MainSeeded, MainWaitTest, MainSleep,
      MainSpuriousWake, MainShutdown, workerVars, historyVars
<1>2. ASSUME NEW w \in Worker, MainSpawn(w)
      PROVE  UNCHANGED Order!orderVars
  BY <1>2, OrderStutters DEF MainSpawn, historyVars, IInv, TypeInv, TypeOK
<1> QED BY <1>1, <1>2

(* Nor are those of a worker that starts and ends no execution. *)
LEMMA WorkerStutters ==
  ASSUME IInv, EndInv, NEW w \in Worker, WorkerLocal(w) \/ WorkerLocked(w),
         ~WorkerStart(w), ~WorkerSucceed(w), ~WorkerFail(w)
  PROVE  UNCHANGED Order!orderVars
<1>1. UNCHANGED <<plan, ret>> /\ (mpc' = "done" <=> mpc = "done")
  BY WorkerStays DEF IInv
<1>2. wpc \in [Worker -> WorkerPoint] /\ cur \in [Worker -> Node \cup {NoNode}]
  BY DEF IInv, TypeInv, TypeOK
<1>3. CASE \/ WorkerSleep(w) \/ WorkerTake(w) \/ WorkerExit(w) \/ WorkerPush(w)
           \/ WorkerDrain(w) \/ WorkerSkip(w) \/ WorkerNotify(w)
           \/ WorkerNotified(w) \/ WorkerAbort(w) \/ WorkerFinish(w)
  <2> USE <1>3 DEF WorkerSleep, WorkerTake, WorkerExit, WorkerPush, WorkerDrain,
          WorkerSkip, WorkerNotify, WorkerNotified, WorkerAbort, WorkerFinish,
          Goto, historyVars, workerVars
  <2>1. UNCHANGED <<built, failed>>
    OBVIOUS
  <2>2. wpc[w] # "run" /\ wpc'[w] # "run"
    BY <1>2
  <2>3. \A v \in Worker \ {w} : wpc'[v] = wpc[v] /\ cur'[v] = cur[v]
    BY <1>2
  <2> QED BY <1>1, <2>1, <2>2, <2>3, OrderStutters
<1> QED BY <1>3 DEF WorkerLocal, WorkerLocked

LEMMA StepIsOrder ==
  ASSUME IInv, EndInv, IInv', EndInv', [Next]_vars
  PROVE  [Order!Next]_(Order!orderVars)
<1>1. CASE MainStep \/ MainSpuriousWake
  BY <1>1, MainStutters, ReturnIsReturn DEF MainStep
<1>2. ASSUME NEW w \in Worker, WorkerLocal(w) \/ WorkerLocked(w)
      PROVE  [Order!Next]_(Order!orderVars)
  BY <1>2, StartIsStart, EndIsFinish, WorkerStutters
<1>3. ASSUME NEW w \in Worker, WorkerWake(w)
      PROVE  [Order!Next]_(Order!orderVars)
  BY <1>3, OrderStutters DEF WorkerWake, mainVars, workerVars, historyVars
<1>4. CASE UNCHANGED vars
  BY <1>4, OrderStutters DEF vars, mainVars, workerVars, historyVars
<1> QED BY <1>1, <1>2, <1>3, <1>4 DEF Next, Returned

(* zmm_bg_exec and its workers build in an order the graph allows, each    *)
(* target at most once, start nothing after the return, and return success *)
(* when all is built and failure only when something failed or nothing was *)
(* started.                                                                *)
THEOREM ExecBuildsInOrder ==
  ASSUME \A p \in Plans : TopDown(p)
  PROVE  Spec => ImplementsOrder
<1>1. Init => Order!Init
  BY InitOrder
<1>2. (IInv /\ EndInv) /\ (IInv /\ EndInv)' /\ [Next]_vars
        => [Order!Next]_(Order!orderVars)
  BY StepIsOrder
<1> QED BY <1>1, <1>2, EndAlways, PTL DEF Spec, ImplementsOrder, Order!Spec
=============================================================================
