------------------------------ MODULE TaskQueue ------------------------------
(***************************************************************************)
(* The task queue of the build engine (src/src/builder.c, "Task Queue      *)
(* Implementation"): a ring of node ids under a mutex and one condition    *)
(* variable.  This module holds the queue's state and one operator per     *)
(* queue function; the modules that use it (QueueClient, BuildExec) say    *)
(* which thread calls which function when.                                 *)
(*                                                                         *)
(* Each function is one critical section of `lock', so each is one step.   *)
(* The condition variable is the set `sleepers' of the workers blocked in  *)
(* pthread_cond_wait.  A woken worker has to take the lock again and       *)
(* re-evaluates the loop of queue_pop: it leaves `sleepers' and calls      *)
(* PopSleep, PopTake or PopClosed again, possibly after somebody else.     *)
(***************************************************************************)
EXTENDS Naturals

CONSTANTS
  Node,     \* the node ids that travel through the queue
  Worker,   \* the threads that pop
  NoNode    \* the content of a slot malloc has returned and nobody has written

ASSUME NoNodeAssumption == NoNode \notin Node

VARIABLES
  buffer,   \* q->buffer, a function on 0 .. capacity-1
  capacity, \* q->capacity
  head,     \* q->head: the slot of the oldest task
  tail,     \* q->tail: the slot the next task goes to
  count,    \* q->count
  shutdown, \* q->shutdown
  sleepers  \* the workers blocked on q->not_empty

queueVars == <<buffer, capacity, head, tail, count, shutdown, sleepers>>

QueueTypeOK ==
  /\ capacity \in Nat
  /\ buffer \in [0 .. capacity - 1 -> Node \cup {NoNode}]
  /\ capacity > 0 => head \in 0 .. capacity - 1 /\ tail \in 0 .. capacity - 1
  /\ count \in Nat
  /\ shutdown \in BOOLEAN
  /\ sleepers \in SUBSET Worker

-----------------------------------------------------------------------------
(* Before queue_init: there is no ring yet, and nobody waits. *)
NoQueue ==
  /\ capacity = 0
  /\ buffer = [i \in 0 .. capacity - 1 |-> NoNode]
  /\ head = 0
  /\ tail = 0
  /\ count = 0
  /\ shutdown = FALSE
  /\ sleepers = {}

(* queue_init(q, cap); its malloc failure is the caller's branch. *)
QueueInit(cap) ==
  /\ capacity' = cap
  /\ buffer' = [i \in 0 .. cap - 1 |-> NoNode]
  /\ head' = 0
  /\ tail' = 0
  /\ count' = 0
  /\ shutdown' = FALSE
  /\ UNCHANGED sleepers

(* (i + 1) % q->capacity *)
Succ(i) == (i + 1) % capacity

(* Faulty variant: nobody is woken. *)
WakeNobody == UNCHANGED sleepers

(* pthread_cond_signal: one of the blocked workers, if there is any. *)
WakeOne ==
  IF sleepers = {}
  THEN UNCHANGED sleepers
  ELSE \E w \in sleepers : sleepers' = sleepers \ {w}

(* Faulty variants: no signal; the tail advanced before the slot is written. *)
QueuePushWithoutSignal(node) ==
  /\ buffer' = [buffer EXCEPT ![tail] = node]
  /\ tail' = Succ(tail)
  /\ count' = count + 1
  /\ UNCHANGED <<capacity, head, shutdown, sleepers>>

QueuePushAfterTail(node) ==
  /\ buffer' = [buffer EXCEPT ![Succ(tail)] = node]
  /\ tail' = Succ(tail)
  /\ count' = count + 1
  /\ WakeOne
  /\ UNCHANGED <<capacity, head, shutdown>>

(* queue_push(q, node): the code does not look at `count' before it writes. *)
QueuePush(node) ==
  /\ buffer' = [buffer EXCEPT ![tail] = node]
  /\ tail' = Succ(tail)
  /\ count' = count + 1
  /\ WakeOne
  /\ UNCHANGED <<capacity, head, shutdown>>

(* queue_pop, the body of its loop: nothing to take, not shut down. *)
PopSleep(w) ==
  /\ w \notin sleepers
  /\ count = 0
  /\ ~shutdown
  /\ sleepers' = sleepers \cup {w}
  /\ UNCHANGED <<buffer, capacity, head, tail, count, shutdown>>

(* queue_pop returns true; the caller receives Front.  A queue that has been *)
(* shut down is still drained.                                               *)
Front == buffer[head]

PopTake(w) ==
  /\ w \notin sleepers
  /\ count > 0
  /\ head' = Succ(head)
  /\ count' = count - 1
  /\ UNCHANGED <<buffer, capacity, tail, shutdown, sleepers>>

(* queue_pop returns false. *)
PopClosed(w) ==
  /\ w \notin sleepers
  /\ count = 0
  /\ shutdown
  /\ UNCHANGED queueVars

(* POSIX lets pthread_cond_wait return without a signal. *)
SpuriousWake(w) ==
  /\ w \in sleepers
  /\ sleepers' = sleepers \ {w}
  /\ UNCHANGED <<buffer, capacity, head, tail, count, shutdown>>

(* Faulty variant: a signal instead of the broadcast. *)
QueueShutdownSignal ==
  /\ shutdown' = TRUE
  /\ WakeOne
  /\ UNCHANGED <<buffer, capacity, head, tail, count>>

(* queue_shutdown(q), with its broadcast. *)
QueueShutdown ==
  /\ shutdown' = TRUE
  /\ sleepers' = {}
  /\ UNCHANGED <<buffer, capacity, head, tail, count>>

-----------------------------------------------------------------------------
(* The slots that hold a task: `count' of them from `head' on, around the    *)
(* end of the ring.                                                          *)
Occupied ==
  {i \in 0 .. capacity - 1 :
     \/ head <= i /\ i < head + count
     \/ i + capacity < head + count}

(* The queue's content, oldest task first. *)
Contents == [k \in 1 .. count |-> buffer[(head + k - 1) % capacity]]

(* The first slot after the occupied ones. *)
FirstFree ==
  IF head + count < capacity THEN head + count ELSE head + count - capacity

(* A ring that never overflowed: its tail is where the tasks end, and the    *)
(* slots that hold a task hold a node.                                       *)
RingIntact ==
  /\ count <= capacity
  /\ capacity > 0 => tail = FirstFree
  /\ \A i \in Occupied : buffer[i] \in Node

(* In a ring that overflowed every slot was written. *)
RingWritten == \A i \in 0 .. capacity - 1 : buffer[i] \in Node
=============================================================================
