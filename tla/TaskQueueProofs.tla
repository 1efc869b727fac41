--------------------------- MODULE TaskQueueProofs ---------------------------
(***************************************************************************)
(* Facts about the ring of TaskQueue that every user of the queue needs:   *)
(* what a push and a pop do to the set of occupied slots, and that a slot  *)
(* that is popped was written.                                             *)
(***************************************************************************)
EXTENDS TaskQueue, TLAPS

(* (i + 1) % capacity on the indices of the ring (queue_push, queue_pop).  *)
LEMMA SuccOnRing ==
  ASSUME capacity \in Nat \ {0}, NEW x \in 0 .. capacity - 1
  PROVE  Succ(x) = IF x + 1 = capacity THEN 0 ELSE x + 1
BY DEF Succ

(* queue_push keeps the types of the queue's fields. *)
LEMMA QueuePushType ==
  ASSUME QueueTypeOK, NEW n \in Node, QueuePush(n)
  PROVE  QueueTypeOK'
<1>1. capacity > 0 => tail' \in 0 .. capacity - 1
  BY SuccOnRing DEF QueueTypeOK, QueuePush
<1>2. sleepers' \in SUBSET Worker
  BY DEF QueueTypeOK, QueuePush, WakeOne
<1>3. buffer' \in [0 .. capacity - 1 -> Node \cup {NoNode}]
  BY DEF QueueTypeOK, QueuePush
<1> QED BY <1>1, <1>2, <1>3 DEF QueueTypeOK, QueuePush

(* queue_pop keeps the types of the queue's fields. *)
LEMMA PopTakeType ==
  ASSUME QueueTypeOK, capacity > 0, NEW w \in Worker, PopTake(w)
  PROVE  QueueTypeOK'
BY SuccOnRing DEF QueueTypeOK, PopTake

(* queue_push to a ring that is not full: one more slot is occupied, a free *)
(* one, and the tail is again where the tasks end.                          *)
LEMMA PushOccupies ==
  ASSUME QueueTypeOK, RingIntact, count < capacity, NEW n \in Node, QueuePush(n)
  PROVE  /\ Occupied' = Occupied \cup {tail}
         /\ tail \notin Occupied
         /\ tail \in 0 .. capacity - 1
         /\ RingIntact'
<1>0. capacity > 0
  BY DEF QueueTypeOK
<1>1. tail = FirstFree /\ tail' = IF tail + 1 = capacity THEN 0 ELSE tail + 1
  BY <1>0, SuccOnRing DEF QueueTypeOK, QueuePush, RingIntact
<1>2. Occupied' = Occupied \cup {tail} /\ tail \notin Occupied
  BY <1>0, <1>1 DEF QueueTypeOK, QueuePush, Occupied, FirstFree
<1>3. tail' = FirstFree'
  BY <1>0, <1>1 DEF QueueTypeOK, QueuePush, FirstFree
<1> QED
  BY <1>0, <1>1, <1>2, <1>3 DEF QueueTypeOK, QueuePush, RingIntact

(* queue_pop: the slot at head, which was occupied, is free. *)
LEMMA PopFrees ==
  ASSUME QueueTypeOK, RingIntact, capacity > 0, NEW w \in Worker, PopTake(w)
  PROVE  /\ Occupied' = Occupied \ {head}
         /\ head \in Occupied
         /\ RingIntact'
<1>1. tail = FirstFree /\ head' = IF head + 1 = capacity THEN 0 ELSE head + 1
  BY SuccOnRing DEF QueueTypeOK, PopTake, RingIntact
<1>2. Occupied' = Occupied \ {head} /\ head \in Occupied
  BY <1>1 DEF QueueTypeOK, PopTake, Occupied, FirstFree, RingIntact
<1>3. tail' = FirstFree'
  BY <1>1 DEF QueueTypeOK, PopTake, FirstFree, RingIntact
<1> QED BY <1>1, <1>2, <1>3 DEF QueueTypeOK, PopTake, RingIntact

(* A full ring is occupied everywhere. *)
LEMMA FullRing ==
  ASSUME QueueTypeOK, capacity > 0, count = capacity
  PROVE  Occupied = 0 .. capacity - 1
BY DEF QueueTypeOK, Occupied

(* Whatever the caller does, a slot that is popped was written: the ring is *)
(* intact, or it overflowed and every slot was.                             *)
LEMMA PushKeepsWritten ==
  ASSUME QueueTypeOK, RingIntact \/ RingWritten, capacity > 0,
         NEW n \in Node, QueuePush(n)
  PROVE  (RingIntact \/ RingWritten)'
<1>1. CASE RingWritten
  BY <1>1 DEF QueueTypeOK, QueuePush, RingWritten
<1>2. CASE RingIntact /\ count < capacity
  BY <1>2, PushOccupies
<1>3. CASE RingIntact /\ count = capacity
  <2>1. RingWritten
    BY <1>3, FullRing DEF RingIntact, RingWritten
  <2> QED BY <2>1 DEF QueueTypeOK, QueuePush, RingWritten
<1> QED BY <1>1, <1>2, <1>3 DEF QueueTypeOK, RingIntact

LEMMA PopKeepsWritten ==
  ASSUME QueueTypeOK, RingIntact \/ RingWritten, capacity > 0,
         NEW w \in Worker, PopTake(w)
  PROVE  /\ (RingIntact \/ RingWritten)'
         /\ Front \in Node
<1>1. CASE RingWritten
  BY <1>1 DEF QueueTypeOK, PopTake, RingWritten, Front
<1>2. CASE RingIntact
  BY <1>2, PopFrees DEF RingIntact, Front
<1> QED BY <1>1, <1>2
=============================================================================
