------------------------------ MODULE FifoQueue ------------------------------
(***************************************************************************)
(* What the task queue promises its users, without rings, locks and        *)
(* sleepers: tasks come out in the order they went in, none is lost or     *)
(* taken twice, and closing the queue neither adds nor drops a task.       *)
(* TaskQueue implements it for clients that never push to a full ring.     *)
(***************************************************************************)
EXTENDS Sequences

CONSTANTS Node, Worker, NoNode

VARIABLES
  items,    \* the tasks in the queue, oldest first
  closed,   \* TRUE once the queue was shut down
  given     \* worker -> the task the queue gave it last

fifoVars == <<items, closed, given>>

Init ==
  /\ items = <<>>
  /\ closed = FALSE
  /\ given = [w \in Worker |-> NoNode]

Put(n) ==
  /\ items' = Append(items, n)
  /\ UNCHANGED <<closed, given>>

Take(w) ==
  /\ items # <<>>
  /\ items' = Tail(items)
  /\ given' = [given EXCEPT ![w] = Head(items)]
  /\ UNCHANGED closed

Close ==
  /\ closed' = TRUE
  /\ UNCHANGED <<items, given>>

Next ==
  \/ \E n \in Node : Put(n)
  \/ \E w \in Worker : Take(w)
  \/ Close

Spec == Init /\ [][Next]_fifoVars
=============================================================================
