----------------------------- MODULE QueueClient -----------------------------
(***************************************************************************)
(* The task queue under the calling pattern of src/src/builder.c, without  *)
(* the graph: one main thread that pushes until it shuts the queue down,   *)
(* workers that loop on queue_pop and may push while they work on a task   *)
(* (worker_fn pushes the dependents it released, also after the shutdown   *)
(* of an aborted build).  The ring is smaller than the number of pushes,   *)
(* so it wraps around, which it never does within one zmm_bg_exec.         *)
(*                                                                         *)
(* The contract of queue_push, which has no test for a full ring, is the   *)
(* guard `count < capacity' of the two actions that push.                  *)
(***************************************************************************)
EXTENDS TaskQueue, Sequences, FiniteSets

CONSTANTS
  Capacity,   \* the argument of queue_init
  MaxPush     \* bound: the pushes of one behaviour

ASSUME CapacityAssumption == Capacity \in Nat \ {0}

(* zmm_bg_exec creates num_threads of them. *)
ASSUME WorkerAssumption == IsFiniteSet(Worker)

VARIABLES
  wpc,        \* worker -> "pop" | "work" | "exited"
  got,        \* worker -> the node queue_pop returned last
  pushed      \* the pushes so far, capped by MaxPush

vars == <<queueVars, wpc, got, pushed>>

Init ==
  /\ capacity = Capacity
  /\ buffer = [i \in 0 .. Capacity - 1 |-> NoNode]
  /\ head = 0
  /\ tail = 0
  /\ count = 0
  /\ shutdown = FALSE
  /\ sleepers = {}
  /\ wpc = [w \in Worker |-> "pop"]
  /\ got = [w \in Worker |-> NoNode]
  /\ pushed = 0

(* A push by whoever is allowed to: the main thread before the shutdown, a *)
(* worker while it works on a task.                                        *)
Push ==
  /\ count < capacity
  /\ pushed < MaxPush
  /\ \E n \in Node : QueuePush(n)
  /\ pushed' = pushed + 1
  /\ UNCHANGED <<wpc, got>>

MainPush == ~shutdown /\ Push

MainShutdown ==
  /\ ~shutdown
  /\ QueueShutdown
  /\ UNCHANGED <<wpc, got, pushed>>

WorkerSleep(w) ==
  /\ wpc[w] = "pop"
  /\ PopSleep(w)
  /\ UNCHANGED <<wpc, got, pushed>>

WorkerTake(w) ==
  /\ wpc[w] = "pop"
  /\ PopTake(w)
  /\ got' = [got EXCEPT ![w] = Front]
  /\ wpc' = [wpc EXCEPT ![w] = "work"]
  /\ UNCHANGED pushed

WorkerExit(w) ==
  /\ wpc[w] = "pop"
  /\ PopClosed(w)
  /\ wpc' = [wpc EXCEPT ![w] = "exited"]
  /\ UNCHANGED <<got, pushed>>

WorkerPush(w) == wpc[w] = "work" /\ Push

WorkerDone(w) ==
  /\ wpc[w] = "work"
  /\ wpc' = [wpc EXCEPT ![w] = "pop"]
  /\ UNCHANGED <<queueVars, got, pushed>>

Wake(w) == SpuriousWake(w) /\ UNCHANGED <<wpc, got, pushed>>

WorkerStep(w) == WorkerSleep(w) \/ WorkerTake(w) \/ WorkerExit(w) \/ WorkerDone(w)

(* Every worker has exited. *)
Quiet ==
  /\ \A w \in Worker : wpc[w] = "exited"
  /\ UNCHANGED vars

Next ==
  \/ MainPush
  \/ MainShutdown
  \/ \E w \in Worker : WorkerStep(w) \/ WorkerPush(w) \/ Wake(w)
  \/ Quiet

(* A worker that can go on goes on: the mutex is held for a few            *)
(* instructions and a builder returns.  Nobody has to push or to shut down.*)
Fairness == \A w \in Worker : WF_vars(WorkerStep(w))

Spec == Init /\ [][Next]_vars /\ Fairness

-----------------------------------------------------------------------------
(* queue_push/queue_pop implement a FIFO queue: with `Contents' for its    *)
(* items, every step of the ring is a step of FifoQueue, across wrap-around*)
(* and across the shutdown.                                                *)
Fifo == INSTANCE FifoQueue WITH
  items <- Contents, closed <- shutdown, given <- got

ImplementsFifo == Fifo!Spec

(* No lost wake-up (pthread_cond_signal in queue_push): while a worker is  *)
(* asleep, every task in the ring has a worker of its own that is awake    *)
(* and on its way to queue_pop.                                            *)
AwakePoppers == {w \in Worker : wpc[w] = "pop" /\ w \notin sleepers}

NoTaskOversleeps ==
  sleepers # {} => count <= Cardinality(AwakePoppers)

(* After queue_shutdown every worker eventually gets out of queue_pop, the *)
(* ones asleep in it too; pthread_join in zmm_bg_exec relies on it.        *)
WorkersLeave == shutdown ~> (\A w \in Worker : wpc[w] = "exited")

(* Tasks do not stay in the ring while there are workers: no shutdown, no  *)
(* spurious wake-up is needed to get them out.                             *)
TasksAreTaken == count > 0 ~> count = 0
=============================================================================
