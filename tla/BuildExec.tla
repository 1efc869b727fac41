------------------------------ MODULE BuildExec ------------------------------
(***************************************************************************)
(* Phase 3 of a build: zmm_bg_exec and worker_fn of src/src/builder.c, over*)
(* the task queue of TaskQueue, from the state zmm_bg_prepare leaves.      *)
(*                                                                         *)
(* One step is one access to shared state: a critical section of one of    *)
(* the two mutexes, one access to an atomic, a builder called or returned. *)
(* The main thread seeds the queue while the workers already run.          *)
(*                                                                         *)
(* `plan' (see BuildPlan) is never written; `pending' and `remaining' are  *)
(* the counters exec consumes.  `runs', `built' and `failed' are history:  *)
(* no guard reads them.                                                    *)
(***************************************************************************)
EXTENDS TaskQueue, BuildPlan, Sequences, FiniteSets, Integers

CONSTANTS
  N,          \* number of nodes; ids are positions in g->nodes
  Plans,      \* the prepared graphs to execute
  WordMax     \* largest value of the unsigned counters (2^32-1, 2^64-1)

(* A prepared graph over the nodes. *)
IsPlan(p) == PlanOver(Node, p)

(* The counters do not overflow while zmm_bg_prepare counts. *)
Fits(p) ==
  /\ Cardinality(Slots(p)) <= WordMax
  /\ Cardinality(p.dirty) <= WordMax

ASSUME NodeAssumption == N \in Nat /\ Node = 0 .. N - 1
ASSUME WorkerAssumption == IsFiniteSet(Worker) /\ Worker # {}
ASSUME WordMaxAssumption == WordMax \in Nat
ASSUME PlansAssumption == \A p \in Plans : IsPlan(p) /\ Fits(p)

VARIABLES
  plan,       \* the prepared graph
  pending,    \* node -> pending_deps
  remaining,  \* g->remaining_dirty
  hasError,   \* has_error
  mpc,        \* program point of the main thread
  scan,       \* the index of the seeding loop
  ret,        \* what zmm_bg_exec returned
  wpc,        \* worker -> program point
  cur,        \* worker -> node_id
  nxt,        \* worker -> position in the dependents of node_id
  runs,       \* history: node -> how often it was taken up for execution
  built,      \* history: the nodes whose execution succeeded
  failed      \* history: the nodes whose builder failed

mainVars == <<mpc, scan, ret>>
workerVars == <<wpc, cur, nxt>>
historyVars == <<runs, built, failed>>
vars == <<queueVars, plan, pending, remaining, hasError,
          mainVars, workerVars, historyVars>>

MainPoint == {"start", "spawn", "seed", "seedpush", "wait", "dozing",
              "asleep", "shutdown", "join", "done"}
WorkerPoint == {"unborn", "pop", "check", "run", "abort", "notify", "push",
                "finish", "exited"}

TypeOK ==
  /\ QueueTypeOK
  /\ IsPlan(plan)
  /\ pending \in [Node -> 0 .. WordMax]
  /\ remaining \in 0 .. WordMax
  /\ hasError \in BOOLEAN
  /\ mpc \in MainPoint
  /\ scan \in 0 .. N
  /\ ret \in {-1, 0, 1}
  /\ wpc \in [Worker -> WorkerPoint]
  /\ cur \in [Worker -> Node \cup {NoNode}]
  /\ nxt \in [Worker -> Nat]
  /\ runs \in [Node -> Nat]
  /\ built \in SUBSET Node
  /\ failed \in SUBSET Node

-----------------------------------------------------------------------------
(* The state zmm_bg_prepare leaves, and nothing executed yet. *)
Init ==
  /\ NoQueue
  /\ plan \in Plans
  /\ pending = [t \in Node |-> PendingAtFirst(plan, t)]
  /\ remaining = Cardinality(plan.dirty)
  /\ hasError = FALSE
  /\ mpc = "start"
  /\ scan = 0
  /\ ret = 0
  /\ wpc = [w \in Worker |-> "unborn"]
  /\ cur = [w \in Worker |-> NoNode]
  /\ nxt = [w \in Worker |-> 1]
  /\ runs = [n \in Node |-> 0]
  /\ built = {}
  /\ failed = {}

(* x - 1 on an unsigned counter *)
Dec(x) == IF x = 0 THEN WordMax ELSE x - 1

-----------------------------------------------------------------------------
(* The main thread: zmm_bg_exec. *)

MainReturnsAtOnce ==
  /\ mpc = "start"
  /\ remaining = 0
  /\ mpc' = "done"
  /\ ret' = 0
  /\ UNCHANGED <<queueVars, plan, pending, remaining, hasError, scan,
                 workerVars, historyVars>>

(* queue_init fails (-1), or the allocation of threads or ctxs does (1). *)
MainOutOfMemory ==
  /\ mpc = "start"
  /\ remaining > 0
  /\ mpc' = "done"
  /\ ret' \in {-1, 1}
  /\ UNCHANGED <<queueVars, plan, pending, remaining, hasError, scan,
                 workerVars, historyVars>>

(* Faulty variant: a ring sized by the number of threads. *)
MainInitByThreads ==
  /\ mpc = "start"
  /\ remaining > 0
  /\ QueueInit(Cardinality(Worker))
  /\ mpc' = "spawn"
  /\ UNCHANGED <<plan, pending, remaining, hasError, scan, ret, workerVars,
                 historyVars>>

MainInit ==
  /\ mpc = "start"
  /\ remaining > 0
  /\ QueueInit(remaining)
  /\ mpc' = "spawn"
  /\ UNCHANGED <<plan, pending, remaining, hasError, scan, ret, workerVars,
                 historyVars>>

MainSpawn(w) ==
  /\ mpc = "spawn"
  /\ wpc[w] = "unborn"
  /\ wpc' = [wpc EXCEPT ![w] = "pop"]
  /\ mpc' = IF \A v \in Worker \ {w} : wpc[v] # "unborn" THEN "seed" ELSE mpc
  /\ UNCHANGED <<queueVars, plan, pending, remaining, hasError, scan, ret, cur,
                 nxt, historyVars>>

(* Faulty variant: the counter is not looked at. *)
ReadyIfDirty(n) == n \in plan.dirty

(* The seeding loop: the test of one node and, in a step of its own, the push.*)
Ready(n) == n \in plan.dirty /\ pending[n] = 0

MainSeedTest ==
  /\ mpc = "seed"
  /\ scan < N
  /\ IF Ready(scan)
     THEN mpc' = "seedpush" /\ UNCHANGED scan
     ELSE scan' = scan + 1 /\ UNCHANGED mpc
  /\ UNCHANGED <<queueVars, plan, pending, remaining, hasError, ret, workerVars,
                 historyVars>>

MainSeedPush ==
  /\ mpc = "seedpush"
  /\ QueuePush(scan)
  /\ scan' = scan + 1
  /\ mpc' = "seed"
  /\ UNCHANGED <<plan, pending, remaining, hasError, ret, workerVars, historyVars>>

MainSeeded ==
  /\ mpc = "seed"
  /\ scan = N
  /\ mpc' = "wait"
  /\ UNCHANGED <<queueVars, plan, pending, remaining, hasError, scan, ret,
                 workerVars, historyVars>>

(* The wait loop.  The main thread evaluates the condition with done_lock    *)
(* held and keeps the lock ("dozing") until pthread_cond_wait releases it    *)
(* ("asleep").                                                               *)
MainWaitTest ==
  /\ mpc = "wait"
  /\ mpc' = IF remaining > 0 /\ ~hasError THEN "dozing" ELSE "shutdown"
  /\ UNCHANGED <<queueVars, plan, pending, remaining, hasError, scan, ret,
                 workerVars, historyVars>>

MainSleep ==
  /\ mpc = "dozing"
  /\ mpc' = "asleep"
  /\ UNCHANGED <<queueVars, plan, pending, remaining, hasError, scan, ret,
                 workerVars, historyVars>>

MainSpuriousWake ==
  /\ mpc = "asleep"
  /\ mpc' = "wait"
  /\ UNCHANGED <<queueVars, plan, pending, remaining, hasError, scan, ret,
                 workerVars, historyVars>>

MainShutdown ==
  /\ mpc = "shutdown"
  /\ QueueShutdown
  /\ mpc' = "join"
  /\ UNCHANGED <<plan, pending, remaining, hasError, scan, ret, workerVars,
                 historyVars>>

(* Faulty variant: no join. *)
MainReturnWithoutJoin ==
  /\ mpc = "join"
  /\ mpc' = "done"
  /\ ret' = IF hasError THEN 1 ELSE 0
  /\ UNCHANGED <<queueVars, plan, pending, remaining, hasError, scan, workerVars,
                 historyVars>>

(* All joins, the teardown and the return. *)
MainReturn ==
  /\ mpc = "join"
  /\ \A w \in Worker : wpc[w] = "exited"
  /\ mpc' = "done"
  /\ ret' = IF hasError THEN 1 ELSE 0
  /\ UNCHANGED <<queueVars, plan, pending, remaining, hasError, scan, workerVars,
                 historyVars>>

-----------------------------------------------------------------------------
(* A worker: worker_fn. *)

Goto(w, point) == wpc' = [wpc EXCEPT ![w] = point]

(* Nobody else holds done_lock; a worker's own critical sections are steps.  *)
DoneLockFree == mpc # "dozing"

(* pthread_cond_broadcast(done_cond) *)
WakeMain == mpc' = IF mpc = "asleep" THEN "wait" ELSE mpc

WorkerSleep(w) ==
  /\ wpc[w] = "pop"
  /\ PopSleep(w)
  /\ UNCHANGED <<plan, pending, remaining, hasError, mainVars, workerVars,
                 historyVars>>

WorkerTake(w) ==
  /\ wpc[w] = "pop"
  /\ PopTake(w)
  /\ cur' = [cur EXCEPT ![w] = Front]
  /\ Goto(w, "check")
  /\ UNCHANGED <<plan, pending, remaining, hasError, mainVars, nxt, historyVars>>

WorkerExit(w) ==
  /\ wpc[w] = "pop"
  /\ PopClosed(w)
  /\ Goto(w, "exited")
  /\ UNCHANGED <<plan, pending, remaining, hasError, mainVars, cur, nxt,
                 historyVars>>

WorkerWake(w) ==
  /\ SpuriousWake(w)
  /\ UNCHANGED <<plan, pending, remaining, hasError, mainVars, workerVars,
                 historyVars>>

(* has_error is set: the task is dropped. *)
WorkerDrain(w) ==
  /\ wpc[w] = "check"
  /\ hasError
  /\ cur' = [cur EXCEPT ![w] = NoNode]
  /\ Goto(w, "pop")
  /\ UNCHANGED <<queueVars, plan, pending, remaining, hasError, mainVars, nxt,
                 historyVars>>

(* has_error is not set: the node is taken up for execution. *)
WorkerStart(w) ==
  /\ wpc[w] = "check"
  /\ ~hasError
  /\ runs' = [runs EXCEPT ![cur[w]] = @ + 1]
  /\ Goto(w, "run")
  /\ UNCHANGED <<queueVars, plan, pending, remaining, hasError, mainVars, cur,
                 nxt, built, failed>>

(* res = 0: the builder succeeded, or the node has none. *)
WorkerSucceed(w) ==
  /\ wpc[w] = "run"
  /\ built' = built \cup {cur[w]}
  /\ nxt' = [nxt EXCEPT ![w] = 1]
  /\ Goto(w, "notify")
  /\ UNCHANGED <<queueVars, plan, pending, remaining, hasError, mainVars, cur,
                 runs, failed>>

(* res # 0: has_error is stored before done_lock is taken. *)
WorkerFail(w) ==
  /\ wpc[w] = "run"
  /\ cur[w] \in plan.builders
  /\ failed' = failed \cup {cur[w]}
  /\ hasError' = TRUE
  /\ Goto(w, "abort")
  /\ UNCHANGED <<queueVars, plan, pending, remaining, mainVars, cur, nxt, runs,
                 built>>

(* Faulty variants: the broadcast without the lock; the failed node counted  *)
(* as done.                                                                  *)
WorkerAbortUnlocked(w) ==
  /\ wpc[w] = "abort"
  /\ WakeMain
  /\ cur' = [cur EXCEPT ![w] = NoNode]
  /\ Goto(w, "pop")
  /\ UNCHANGED <<queueVars, plan, pending, remaining, hasError, scan, ret, nxt,
                 historyVars>>

WorkerAbortCounting(w) ==
  /\ wpc[w] = "abort"
  /\ DoneLockFree
  /\ WakeMain
  /\ remaining' = Dec(remaining)
  /\ cur' = [cur EXCEPT ![w] = NoNode]
  /\ Goto(w, "pop")
  /\ UNCHANGED <<queueVars, plan, pending, hasError, scan, ret, nxt, historyVars>>

WorkerAbort(w) ==
  /\ wpc[w] = "abort"
  /\ DoneLockFree
  /\ WakeMain
  /\ cur' = [cur EXCEPT ![w] = NoNode]
  /\ Goto(w, "pop")
  /\ UNCHANGED <<queueVars, plan, pending, remaining, hasError, scan, ret, nxt,
                 historyVars>>

(* The notification loop: one entry of node->dependents per step. *)
Entries(w) == plan.dependents[cur[w]]

Dependent(w) == Entries(w)[nxt[w]]

WorkerSkip(w) ==
  /\ wpc[w] = "notify"
  /\ nxt[w] <= Len(Entries(w))
  /\ Dependent(w) \notin plan.dirty
  /\ nxt' = [nxt EXCEPT ![w] = @ + 1]
  /\ UNCHANGED <<queueVars, plan, pending, remaining, hasError, mainVars, wpc,
                 cur, historyVars>>

(* Faulty variant: the counter's old value is taken one too high. *)
WorkerNotifyEarly(w) ==
  /\ wpc[w] = "notify"
  /\ nxt[w] <= Len(Entries(w))
  /\ Dependent(w) \in plan.dirty
  /\ pending' = [pending EXCEPT ![Dependent(w)] = Dec(@)]
  /\ IF pending[Dependent(w)] \in {1, 2}
     THEN Goto(w, "push") /\ UNCHANGED nxt
     ELSE nxt' = [nxt EXCEPT ![w] = @ + 1] /\ UNCHANGED wpc
  /\ UNCHANGED <<queueVars, plan, remaining, hasError, mainVars, cur, historyVars>>

(* atomic_fetch_sub; whoever takes the counter from 1 to 0 pushes. *)
WorkerNotify(w) ==
  /\ wpc[w] = "notify"
  /\ nxt[w] <= Len(Entries(w))
  /\ Dependent(w) \in plan.dirty
  /\ pending' = [pending EXCEPT ![Dependent(w)] = Dec(@)]
  /\ IF pending[Dependent(w)] = 1
     THEN Goto(w, "push") /\ UNCHANGED nxt
     ELSE nxt' = [nxt EXCEPT ![w] = @ + 1] /\ UNCHANGED wpc
  /\ UNCHANGED <<queueVars, plan, remaining, hasError, mainVars, cur, historyVars>>

WorkerPush(w) ==
  /\ wpc[w] = "push"
  /\ QueuePush(Dependent(w))
  /\ nxt' = [nxt EXCEPT ![w] = @ + 1]
  /\ Goto(w, "notify")
  /\ UNCHANGED <<plan, pending, remaining, hasError, mainVars, cur, historyVars>>

WorkerNotified(w) ==
  /\ wpc[w] = "notify"
  /\ nxt[w] > Len(Entries(w))
  /\ Goto(w, "finish")
  /\ UNCHANGED <<queueVars, plan, pending, remaining, hasError, mainVars, cur,
                 nxt, historyVars>>

(* remaining_dirty-- under done_lock; the last one wakes the main thread. *)
WorkerFinish(w) ==
  /\ wpc[w] = "finish"
  /\ DoneLockFree
  /\ remaining' = Dec(remaining)
  /\ IF remaining' = 0 THEN WakeMain ELSE UNCHANGED mpc
  /\ cur' = [cur EXCEPT ![w] = NoNode]
  /\ nxt' = [nxt EXCEPT ![w] = 1]
  /\ Goto(w, "pop")
  /\ UNCHANGED <<queueVars, plan, pending, hasError, scan, ret, historyVars>>

-----------------------------------------------------------------------------
MainStep ==
  \/ MainReturnsAtOnce \/ MainOutOfMemory \/ MainInit
  \/ \E w \in Worker : MainSpawn(w)
  \/ MainSeedTest \/ MainSeedPush \/ MainSeeded
  \/ MainWaitTest \/ MainSleep
  \/ MainShutdown \/ MainReturn

WorkerLocal(w) ==
  \/ WorkerSleep(w) \/ WorkerTake(w) \/ WorkerExit(w)
  \/ WorkerDrain(w) \/ WorkerStart(w) \/ WorkerSucceed(w) \/ WorkerFail(w)
  \/ WorkerSkip(w) \/ WorkerNotify(w) \/ WorkerPush(w) \/ WorkerNotified(w)

(* The steps that contend with the main thread for done_lock. *)
WorkerLocked(w) == WorkerAbort(w) \/ WorkerFinish(w)

(* zmm_bg_exec has returned. *)
Returned == mpc = "done" /\ UNCHANGED vars

Next ==
  \/ MainStep
  \/ MainSpuriousWake
  \/ \E w \in Worker : WorkerLocal(w) \/ WorkerLocked(w) \/ WorkerWake(w)
  \/ Returned

(* Threads are scheduled, builders return, and a thread that keeps asking  *)
(* for done_lock gets it (its holders keep it for a few instructions).     *)
(* Nothing is assumed of spurious wake-ups.                                *)
Fairness ==
  /\ WF_vars(MainStep)
  /\ \A w \in Worker : WF_vars(WorkerLocal(w)) /\ SF_vars(WorkerLocked(w))

Spec == Init /\ [][Next]_vars /\ Fairness

-----------------------------------------------------------------------------
(* No node is executed twice: neither two threads nor the seeding loop and   *)
(* a thread both push it (queue_push in worker_fn and in zmm_bg_exec).       *)
AtMostOnce == \A n \in Node : runs[n] <= 1

(* A node is taken up only after every dirty node it waits for was executed  *)
(* with success (pending_deps in worker_fn), however workers interleave.     *)
DepsFirst ==
  \A n \in Node : runs[n] > 0 => Needs(plan, n) \subseteq built

(* queue_push never writes to a full ring, though it does not look: the ring *)
(* has one slot per dirty node.                                              *)
NeverOverflows == count <= capacity

(* pending_deps counts the entries whose notification is still to come, so   *)
(* it never passes below 0.  An entry of a built node is notified once its   *)
(* worker has moved past it.                                                 *)
Past(w, s) ==
  \/ wpc[w] = "notify" /\ s[2] < nxt[w]
  \/ wpc[w] = "push" /\ s[2] <= nxt[w]
  \/ wpc[w] = "finish"

Notified ==
  {s \in Slots(plan) :
     s[1] \in built /\ \A w \in Worker : cur[w] = s[1] => Past(w, s)}

CountersExact ==
  \A t \in plan.dirty :
    pending[t] = Cardinality(SlotsTo(plan, t) \ Notified)

(* remaining_dirty is the number of nodes not executed yet, plus the workers *)
(* that have executed one and not said so: the main thread never takes the   *)
(* build for complete too early, and the counter never passes below 0.       *)
Unreported == {w \in Worker : wpc[w] \in {"notify", "push", "finish"}}

RemainingExact ==
  remaining = Cardinality(plan.dirty \ built) + Cardinality(Unreported)

(* No lost wake-up: while a worker sleeps, every queued task has an awake    *)
(* worker of its own on its way to queue_pop.                                *)
NoTaskOversleeps ==
  sleepers # {} =>
    count <= Cardinality({w \in Worker : wpc[w] = "pop" /\ w \notin sleepers})

(* zmm_bg_exec returns 0 exactly when every dirty node was executed with     *)
(* success; when it returns no worker is alive and no task is left behind,   *)
(* so the queue, the lock and the flags on its stack are nobody's any more.  *)
ReturnIsHonest ==
  mpc = "done" =>
    /\ ret = 0 <=> plan.dirty \subseteq built
    /\ \A w \in Worker : wpc[w] \in {"unborn", "exited"}
    /\ count = 0

(* zmm_bg_exec returns, whatever fails and however the threads interleave:   *)
(* the main thread cannot miss the last node or an error, and no worker      *)
(* stays in queue_pop.                                                       *)
Termination == <>(mpc = "done")

(* The abstract build.  A node runs while some worker executes it. *)
Status(n) ==
  IF \E w \in Worker : wpc[w] = "run" /\ cur[w] = n THEN "running"
  ELSE IF n \in failed THEN "failed"
  ELSE IF n \in built THEN "built"
  ELSE "waiting"

Order == INSTANCE BuildOrder WITH
  todo    <- plan.dirty,
  needs   <- [n \in Node |-> Needs(plan, n)],
  status  <- [n \in Node |-> Status(n)],
  outcome <- IF mpc # "done" THEN "building"
             ELSE IF ret = 0 THEN "success" ELSE "failure"

(* The engine implements the abstract build: its steps are starts of nodes   *)
(* whose needs are built, completions and one honest return.                 *)
ImplementsOrder == Order!Spec

=============================================================================
