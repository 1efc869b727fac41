-------------------------- MODULE QueueClientProofs --------------------------
(***************************************************************************)
(* Two facts about the task queue under the calling pattern of builder.c,  *)
(* for every capacity and every finite set of workers: no wake-up is lost, *)
(* and the ring implements a FIFO queue.  The first needs to know that a   *)
(* sleeper is inside queue_pop, the second that the ring never overflows.  *)
(***************************************************************************)
EXTENDS QueueClient, TaskQueueProofs, FiniteSetTheorems, SequenceTheorems

(* Who sleeps on q->not_empty is in queue_pop. *)
SleepersPop == \A w \in sleepers : wpc[w] = "pop"

ClientTypeOK ==
  /\ QueueTypeOK
  /\ capacity = Capacity
  /\ wpc \in [Worker -> {"pop", "work", "exited"}]

(* The inductive invariant. *)
QInv ==
  /\ ClientTypeOK
  /\ RingIntact
  /\ SleepersPop
  /\ NoTaskOversleeps

-----------------------------------------------------------------------------
(* The awake workers in queue_pop can be counted. *)
LEMMA AwakeFinite ==
  /\ IsFiniteSet(AwakePoppers)
  /\ Cardinality(AwakePoppers) \in Nat
BY WorkerAssumption, FS_Subset, FS_CardinalityType DEF AwakePoppers

LEMMA AwakeFinitePrime ==
  /\ IsFiniteSet(AwakePoppers')
  /\ Cardinality(AwakePoppers') \in Nat
BY WorkerAssumption, FS_Subset, FS_CardinalityType DEF AwakePoppers

(* The queue before the first push satisfies the invariant. *)
LEMMA InitQInv == Init => QInv
<1> SUFFICES ASSUME Init PROVE QInv
  OBVIOUS
<1>1. ClientTypeOK
  <2>1. buffer \in [0 .. capacity - 1 -> Node \cup {NoNode}]
    BY DEF Init
  <2>2. capacity = Capacity /\ sleepers = {} /\ shutdown = FALSE
    BY DEF Init
  <2>3. /\ capacity \in Nat /\ count \in Nat
        /\ head \in 0 .. capacity - 1 /\ tail \in 0 .. capacity - 1
    BY CapacityAssumption DEF Init
  <2>4. wpc \in [Worker -> {"pop", "work", "exited"}]
    BY DEF Init
  <2> QED BY <2>1, <2>2, <2>3, <2>4 DEF ClientTypeOK, QueueTypeOK
<1>2. RingIntact
  BY CapacityAssumption DEF Init, RingIntact, FirstFree, Occupied
<1> QED BY <1>1, <1>2 DEF Init, QInv, SleepersPop, NoTaskOversleeps

(* A push: the ring stays intact, and if anybody sleeps the signal sends a *)
(* worker to the new task.                                                 *)
LEMMA PushKeeps ==
  ASSUME QInv, Push
  PROVE  QInv'
<1> USE DEF QInv
<1>1. PICK n \in Node : QueuePush(n)
  BY DEF Push
<1>2. ClientTypeOK'
  BY <1>1, QueuePushType DEF Push, ClientTypeOK, QueuePush
<1>3. RingIntact'
  BY <1>1, PushOccupies DEF Push, ClientTypeOK
<1>4. SleepersPop'
  BY <1>1 DEF Push, QueuePush, WakeOne, SleepersPop
<1>5. NoTaskOversleeps'
  <2>1. CASE sleepers = {}
    BY <1>1, <2>1 DEF QueuePush, WakeOne, NoTaskOversleeps
  <2>2. CASE sleepers # {}
    <3>1. PICK w \in sleepers : sleepers' = sleepers \ {w}
      BY <1>1, <2>2 DEF QueuePush, WakeOne
    <3>2. AwakePoppers' = AwakePoppers \cup {w} /\ w \notin AwakePoppers
      BY <3>1 DEF Push, AwakePoppers, SleepersPop, ClientTypeOK, QueueTypeOK
    <3>3. Cardinality(AwakePoppers') = Cardinality(AwakePoppers) + 1
      BY <3>2, AwakeFinite, FS_AddElement
    <3> QED
      BY <1>1, <2>2, <3>3, AwakeFinite
      DEF QueuePush, NoTaskOversleeps, ClientTypeOK, QueueTypeOK
  <2> QED BY <2>1, <2>2
<1> QED BY <1>2, <1>3, <1>4, <1>5

(* A pop: one task less and one worker less on its way to queue_pop. *)
LEMMA TakeKeeps ==
  ASSUME QInv, NEW w \in Worker, WorkerTake(w)
  PROVE  QInv'
<1> USE DEF QInv
<1>0. capacity > 0 /\ PopTake(w) /\ w \notin sleepers /\ wpc[w] = "pop"
  BY CapacityAssumption DEF WorkerTake, PopTake, ClientTypeOK
<1>1. ClientTypeOK'
  <2>1. QueueTypeOK'
    BY <1>0, PopTakeType DEF ClientTypeOK
  <2> QED BY <2>1 DEF WorkerTake, PopTake, ClientTypeOK
<1>2. RingIntact'
  BY <1>0, PopFrees DEF ClientTypeOK
<1>3. SleepersPop'
  BY <1>0 DEF WorkerTake, PopTake, SleepersPop, ClientTypeOK, QueueTypeOK
<1>4. NoTaskOversleeps'
  <2>1. AwakePoppers' = AwakePoppers \ {w} /\ w \in AwakePoppers
    BY <1>0 DEF WorkerTake, PopTake, AwakePoppers, ClientTypeOK, QueueTypeOK
  <2>2. Cardinality(AwakePoppers') = Cardinality(AwakePoppers) - 1
    BY <2>1, AwakeFinite, FS_RemoveElement
  <2> QED
    BY <1>0, <2>2, AwakeFinite
    DEF PopTake, NoTaskOversleeps, ClientTypeOK, QueueTypeOK
<1> QED BY <1>1, <1>2, <1>3, <1>4

(* queue_pop about to block: it blocks on an empty ring. *)
LEMMA SleepKeeps ==
  ASSUME QInv, NEW w \in Worker, WorkerSleep(w)
  PROVE  QInv'
<1> USE DEF QInv
<1>1. ClientTypeOK' /\ RingIntact' /\ SleepersPop'
  BY DEF WorkerSleep, PopSleep, ClientTypeOK, QueueTypeOK, RingIntact, Occupied,
         FirstFree, SleepersPop
<1>2. NoTaskOversleeps'
  BY AwakeFinitePrime DEF WorkerSleep, PopSleep, NoTaskOversleeps
<1> QED BY <1>1, <1>2

(* The other steps leave the ring alone, and no awake worker leaves        *)
(* queue_pop while a task is in it.                                        *)
LEMMA QuietKeeps ==
  ASSUME QInv, UNCHANGED <<buffer, capacity, head, tail, count>>,
         shutdown' \in BOOLEAN, sleepers' \in SUBSET Worker,
         wpc' \in [Worker -> {"pop", "work", "exited"}],
         SleepersPop',
         sleepers' = {} \/ count = 0
           \/ (sleepers # {} /\ AwakePoppers \subseteq AwakePoppers')
  PROVE  QInv'
<1> USE DEF QInv
<1>1. ClientTypeOK' /\ RingIntact'
  BY DEF ClientTypeOK, QueueTypeOK, RingIntact, Occupied, FirstFree
<1>2. NoTaskOversleeps'
  <2>1. CASE sleepers' = {} \/ count = 0
    BY <2>1, AwakeFinitePrime DEF NoTaskOversleeps
  <2>2. CASE sleepers # {} /\ AwakePoppers \subseteq AwakePoppers'
    <3>1. Cardinality(AwakePoppers) <= Cardinality(AwakePoppers')
      BY <2>2, AwakeFinitePrime, FS_Subset
    <3> QED
      BY <2>2, <3>1, AwakeFinite, AwakeFinitePrime
      DEF NoTaskOversleeps, ClientTypeOK, QueueTypeOK
  <2> QED BY <2>1, <2>2
<1> QED BY <1>1, <1>2

(* Every step keeps the invariant. *)
LEMMA NextQInv == QInv /\ [Next]_vars => QInv'
<1> SUFFICES ASSUME QInv, [Next]_vars PROVE QInv'
  OBVIOUS
<1>1. CASE MainPush
  BY <1>1, PushKeeps DEF MainPush
<1>2. CASE MainShutdown
  <2> USE <1>2 DEF MainShutdown, QueueShutdown
  <2> QED BY QuietKeeps DEF QInv, ClientTypeOK, SleepersPop
<1>3. ASSUME NEW w \in Worker, WorkerSleep(w) PROVE QInv'
  BY <1>3, SleepKeeps
<1>4. ASSUME NEW w \in Worker, WorkerTake(w) PROVE QInv'
  BY <1>4, TakeKeeps
<1>5. ASSUME NEW w \in Worker, WorkerExit(w) PROVE QInv'
  <2> USE <1>5 DEF WorkerExit, PopClosed, queueVars
  <2> QED BY QuietKeeps DEF QInv, ClientTypeOK, QueueTypeOK, SleepersPop
<1>6. ASSUME NEW w \in Worker, WorkerDone(w) PROVE QInv'
  <2> USE <1>6 DEF WorkerDone, queueVars
  <2>1. AwakePoppers \subseteq AwakePoppers'
    BY DEF AwakePoppers, QInv, ClientTypeOK
  <2> QED BY <2>1, QuietKeeps DEF QInv, ClientTypeOK, QueueTypeOK, SleepersPop
<1>7. ASSUME NEW w \in Worker, WorkerPush(w) PROVE QInv'
  BY <1>7, PushKeeps DEF WorkerPush
<1>8. ASSUME NEW w \in Worker, Wake(w) PROVE QInv'
  <2> USE <1>8 DEF Wake, SpuriousWake
  <2>1. AwakePoppers \subseteq AwakePoppers'
    BY DEF AwakePoppers
  <2> QED BY <2>1, QuietKeeps DEF QInv, ClientTypeOK, QueueTypeOK, SleepersPop
<1>9. CASE UNCHANGED vars
  <2> USE <1>9 DEF vars, queueVars
  <2>1. AwakePoppers' = AwakePoppers
    BY DEF AwakePoppers
  <2> QED BY <2>1, QuietKeeps DEF QInv, ClientTypeOK, QueueTypeOK, SleepersPop
<1> QED
  BY <1>1, <1>2, <1>3, <1>4, <1>5, <1>6, <1>7, <1>8, <1>9 DEF Next, WorkerStep, Quiet

(* No wake-up is lost (pthread_cond_signal in queue_push, the wait loop of *)
(* queue_pop): while anybody sleeps, every task in the ring has an awake   *)
(* worker of its own on its way to queue_pop.                              *)
THEOREM WakeupsSuffice == Spec => []NoTaskOversleeps
<1>1. QInv => NoTaskOversleeps
  BY DEF QInv
<1> QED BY <1>1, InitQInv, NextQInv, PTL DEF Spec

-----------------------------------------------------------------------------
(* The slot `x' places after the first one of a ring of c slots. *)
LEMMA ModOnRing ==
  ASSUME NEW c \in Nat \ {0}, NEW x \in Nat, x < c + c
  PROVE  x % c = IF x < c THEN x ELSE x - c
OBVIOUS

(* A function on 1 .. n is a sequence of length n. *)
LEMMA FunctionIsSeq ==
  ASSUME NEW S, NEW n \in Nat, NEW f \in [1 .. n -> S]
  PROVE  f \in Seq(S) /\ Len(f) = n
BY SeqDef

(* The slot of the k-th task of an intact ring is occupied. *)
LEMMA SlotOf ==
  ASSUME QueueTypeOK, capacity > 0, count <= capacity, NEW k \in 1 .. count
  PROVE  /\ (head + k - 1) % capacity =
              IF head + k - 1 < capacity THEN head + k - 1
                                         ELSE head + k - 1 - capacity
         /\ (head + k - 1) % capacity \in Occupied
<1>1. /\ head + k - 1 \in Nat /\ head + k - 1 < capacity + capacity
      /\ capacity \in Nat \ {0}
  BY DEF QueueTypeOK
<1>2. (head + k - 1) % capacity = IF head + k - 1 < capacity
                                  THEN head + k - 1 ELSE head + k - 1 - capacity
  <2> DEFINE x == head + k - 1
  <2>1. x \in Nat /\ x < capacity + capacity
    BY <1>1
  <2>2. x % capacity = IF x < capacity THEN x ELSE x - capacity
    <3> HIDE DEF x
    <3> QED BY <1>1, <2>1, ModOnRing
  <2> QED BY <1>1, <2>2 DEF QueueTypeOK
<1> QED BY <1>2 DEF QueueTypeOK, Occupied

(* What is in an intact ring is a sequence of nodes, `count' of them. *)
LEMMA ContentsType ==
  ASSUME QueueTypeOK, RingIntact, capacity > 0
  PROVE  /\ Contents \in Seq(Node)
         /\ Len(Contents) = count
<1>1. \A k \in 1 .. count : buffer[(head + k - 1) % capacity] \in Node
  BY SlotOf DEF RingIntact
<1>2. Contents \in [1 .. count -> Node]
  BY <1>1 DEF Contents
<1>3. count \in Nat
  BY DEF QueueTypeOK
<1>4. \A i \in 1 .. count : Contents[i] \in Node
  BY <1>2
<1>5. Contents = [k \in 1 .. count |-> Contents[k]]
  BY <1>2
<1> QED BY <1>2, <1>3, <1>4, <1>5

(* queue_push to a ring that is not full appends to its content. *)
LEMMA PushAppends ==
  ASSUME QueueTypeOK, RingIntact, count < capacity, NEW n \in Node, QueuePush(n)
  PROVE  Contents' = Append(Contents, n)
<1>0. capacity > 0
  BY DEF QueueTypeOK
<1>1. capacity' = capacity /\ head' = head /\ count' = count + 1
  BY DEF QueuePush
<1>2. /\ Contents \in Seq(Node) /\ Len(Contents) = count
      /\ count \in Nat
  BY <1>0, ContentsType DEF QueueTypeOK
<1>3. ASSUME NEW k \in 1 .. count
      PROVE  buffer'[(head + k - 1) % capacity] = Contents[k]
  <2>1. (head + k - 1) % capacity \in Occupied
    BY <1>0, SlotOf DEF RingIntact
  <2>2. (head + k - 1) % capacity # tail
    BY <2>1, PushOccupies
  <2>3. buffer'[(head + k - 1) % capacity] = buffer[(head + k - 1) % capacity]
    BY <2>1, <2>2 DEF QueuePush, QueueTypeOK, Occupied
  <2> QED BY <2>3 DEF Contents
<1>4. buffer'[(head + (count + 1) - 1) % capacity] = n
  <2>1. (head + count) % capacity = tail
    <3>1. /\ head + count \in Nat /\ head + count < capacity + capacity
          /\ capacity \in Nat \ {0}
      BY <1>0 DEF QueueTypeOK
    <3>2. (head + count) % capacity =
            IF head + count < capacity THEN head + count
                                       ELSE head + count - capacity
      <4> DEFINE x == head + count
      <4>1. x % capacity = IF x < capacity THEN x ELSE x - capacity
        <5>1. x \in Nat /\ x < capacity + capacity
          BY <3>1
        <5> HIDE DEF x
        <5> QED BY <3>1, <5>1, ModOnRing
      <4> QED BY <3>1, <4>1 DEF QueueTypeOK
    <3> QED BY <1>0, <3>2 DEF RingIntact, FirstFree
  <2>2. buffer'[tail] = n
    BY <1>0 DEF QueuePush, QueueTypeOK
  <2>3. head + (count + 1) - 1 = head + count
    BY <1>0 DEF QueueTypeOK
  <2> QED BY <2>1, <2>2, <2>3
<1>5. Contents' = [k \in 1 .. count + 1 |-> buffer'[(head + k - 1) % capacity]]
  BY <1>1 DEF Contents
<1>6. /\ Append(Contents, n) \in Seq(Node)
      /\ Len(Append(Contents, n)) = count + 1
      /\ \A k \in 1 .. count : Append(Contents, n)[k] = Contents[k]
      /\ Append(Contents, n)[count + 1] = n
  BY <1>2, AppendProperties
<1>7. \A k \in 1 .. count + 1 :
        /\ Contents'[k] = Append(Contents, n)[k]
        /\ Contents'[k] \in Node
  <2> TAKE k \in 1 .. count + 1
  <2>1. CASE k \in 1 .. count
    BY <1>2, <1>3, <1>5, <1>6, <2>1, ElementOfSeq
  <2>2. CASE k = count + 1
    BY <1>2, <1>4, <1>5, <1>6, <2>2
  <2> QED BY <1>2, <2>1, <2>2
<1>8. Contents' \in [1 .. count + 1 -> Node]
  BY <1>5, <1>7
<1>9. Contents' \in Seq(Node) /\ Len(Contents') = count + 1
  BY <1>2, <1>8, FunctionIsSeq
<1> QED BY <1>6, <1>7, <1>9, SeqEqual

(* queue_pop takes the oldest task. *)
LEMMA PopTakesFirst ==
  ASSUME QueueTypeOK, RingIntact, capacity > 0, NEW w \in Worker, PopTake(w)
  PROVE  /\ Contents # <<>>
         /\ Contents' = Tail(Contents)
         /\ Front = Head(Contents)
<1>1. /\ Contents \in Seq(Node) /\ Len(Contents) = count
      /\ count \in Nat \ {0} /\ count <= capacity
  BY ContentsType DEF QueueTypeOK, PopTake, RingIntact
<1>2. head' = (IF head + 1 = capacity THEN 0 ELSE head + 1)
  BY SuccOnRing DEF QueueTypeOK, PopTake
<1>3. Front = Contents[1]
  <2>1. (head + 1 - 1) % capacity = head
    <3>1. head + 1 - 1 = head /\ head \in Nat /\ head < capacity
      BY DEF QueueTypeOK
    <3> QED BY <3>1 DEF QueueTypeOK
  <2> QED BY <1>1, <2>1 DEF Front, Contents
<1>4. ASSUME NEW k \in 1 .. count - 1
      PROVE  (head' + k - 1) % capacity = (head + (k + 1) - 1) % capacity
  <2>1. /\ capacity \in Nat \ {0}
        /\ head + (k + 1) - 1 = head + k
        /\ head + k \in Nat /\ head + k < capacity + capacity
        /\ head' + k - 1 \in Nat /\ head' + k - 1 < capacity + capacity
    BY <1>1, <1>2 DEF QueueTypeOK
  <2> DEFINE x == head + k
             y == head' + k - 1
  <2>2. x % capacity = IF x < capacity THEN x ELSE x - capacity
    <3>1. x \in Nat /\ x < capacity + capacity
      BY <2>1
    <3> HIDE DEF x
    <3> QED BY <2>1, <3>1, ModOnRing
  <2>3. y % capacity = IF y < capacity THEN y ELSE y - capacity
    <3>1. y \in Nat /\ y < capacity + capacity
      BY <2>1
    <3> HIDE DEF y
    <3> QED BY <2>1, <3>1, ModOnRing
  <2>4. x = y \/ (x = y + capacity /\ y < capacity)
    BY <1>1, <1>2 DEF QueueTypeOK
  <2>5. x % capacity = y % capacity
    <3>1. x \in Nat /\ y \in Nat
      BY <2>1
    <3> HIDE DEF x, y
    <3> QED BY <2>1, <2>2, <2>3, <2>4, <3>1
  <2> QED BY <2>1, <2>5
<1>5. Contents' = [k \in 1 .. count - 1 |-> buffer[(head' + k - 1) % capacity]]
  BY DEF Contents, PopTake
<1>6. /\ Contents # <<>>
      /\ Head(Contents) = Contents[1]
      /\ Tail(Contents) \in Seq(Node) /\ Len(Tail(Contents)) = count - 1
      /\ \A k \in 1 .. count - 1 : Tail(Contents)[k] = Contents[k + 1]
  BY <1>1, HeadTailProperties
<1>7. \A k \in 1 .. count - 1 :
        /\ Contents'[k] = Tail(Contents)[k]
        /\ Contents'[k] \in Node
  <2> TAKE k \in 1 .. count - 1
  <2>1. Contents[k + 1] = buffer[(head + (k + 1) - 1) % capacity]
    BY <1>1 DEF Contents
  <2>2. Contents'[k] = Contents[k + 1]
    BY <1>4, <1>5, <2>1
  <2> QED BY <1>1, <1>6, <2>2, ElementOfSeq
<1>8. Contents' \in [1 .. count - 1 -> Node]
  BY <1>5, <1>7
<1>9. Contents' \in Seq(Node) /\ Len(Contents') = count - 1
  BY <1>1, <1>8, FunctionIsSeq
<1>10. Contents' = Tail(Contents)
  BY <1>6, <1>7, <1>9, SeqEqual
<1> QED BY <1>3, <1>6, <1>10

(* The steps of the queue that neither push nor pop. *)
LEMMA RingUntouched ==
  UNCHANGED <<buffer, capacity, head, count>> => Contents' = Contents
BY DEF Contents

(* A queue after queue_init is an empty FIFO queue. *)
LEMMA InitFifo == Init => Fifo!Init
BY DEF Init, Fifo!Init, Contents

(* A push is a Put. *)
LEMMA PushIsPut ==
  ASSUME QInv, Push
  PROVE  Fifo!Next
<1>1. PICK n \in Node : QueuePush(n)
  BY DEF Push
<1>2. Contents' = Append(Contents, n)
  BY <1>1, PushAppends DEF Push, QInv, ClientTypeOK
<1> QED BY <1>1, <1>2 DEF Push, QueuePush, Fifo!Next, Fifo!Put

(* A pop that returns a task is a Take. *)
LEMMA TakeIsTake ==
  ASSUME QInv, NEW w \in Worker, WorkerTake(w)
  PROVE  Fifo!Next
<1>1. Contents # <<>> /\ Contents' = Tail(Contents) /\ Front = Head(Contents)
  BY CapacityAssumption, PopTakesFirst DEF WorkerTake, QInv, ClientTypeOK
<1> QED BY <1>1 DEF WorkerTake, PopTake, Fifo!Next, Fifo!Take

(* Every step of the ring is a step of the FIFO queue or changes nothing   *)
(* that it shows.                                                          *)
LEMMA StepIsFifo == QInv /\ [Next]_vars => [Fifo!Next]_(Fifo!fifoVars)
<1> SUFFICES ASSUME QInv, [Next]_vars PROVE [Fifo!Next]_(Fifo!fifoVars)
  OBVIOUS
<1> USE RingUntouched
<1>1. CASE MainPush
  BY <1>1, PushIsPut DEF MainPush
<1>2. CASE MainShutdown
  BY <1>2 DEF MainShutdown, QueueShutdown, Fifo!Next, Fifo!Close
<1>3. ASSUME NEW w \in Worker, WorkerStep(w)
      PROVE  [Fifo!Next]_(Fifo!fifoVars)
  <2>1. CASE WorkerTake(w)
    BY <2>1, TakeIsTake
  <2> QED
    BY <1>3, <2>1
    DEF WorkerStep, WorkerSleep, WorkerExit, WorkerDone, PopSleep, PopClosed,
        queueVars, Fifo!fifoVars
<1>4. ASSUME NEW w \in Worker, WorkerPush(w)
      PROVE  [Fifo!Next]_(Fifo!fifoVars)
  BY <1>4, PushIsPut DEF WorkerPush
<1>5. ASSUME NEW w \in Worker, Wake(w)
      PROVE  [Fifo!Next]_(Fifo!fifoVars)
  BY <1>5 DEF Wake, SpuriousWake, Fifo!fifoVars
<1>6. CASE UNCHANGED vars
  BY <1>6 DEF vars, queueVars, Fifo!fifoVars
<1> QED BY <1>1, <1>2, <1>3, <1>4, <1>5, <1>6 DEF Next, Quiet

(* queue_push and queue_pop implement a FIFO queue, around the end of the  *)
(* ring and across queue_shutdown: tasks come out in the order they went   *)
(* in, none is lost and none is given twice.                               *)
THEOREM RingIsFifo == Spec => ImplementsFifo
<1>1. Init => Fifo!Init
  BY InitFifo
<1>2. QInv /\ [Next]_vars => [Fifo!Next]_(Fifo!fifoVars)
  BY StepIsFifo
<1> QED BY <1>1, <1>2, InitQInv, NextQInv, PTL DEF Spec, ImplementsFifo, Fifo!Spec
=============================================================================
