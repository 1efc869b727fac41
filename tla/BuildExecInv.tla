---------------------------- MODULE BuildExecInv -----------------------------
(***************************************************************************)
(* The inductive invariant of BuildExec for plans that are TopDown, in     *)
(* parts; BuildExecProofs proves that it is.                               *)
(*                                                                         *)
(* Its idea: a node comes into circulation once, as a token.  The seeding  *)
(* loop makes the tokens of the leaves, the worker that takes a counter to *)
(* 0 makes the token of any other node.  A token is in exactly one place:  *)
(* the main thread's hand, the hand of a worker about to push it, a slot   *)
(* of the ring, the hand of a worker that popped it; executing the node    *)
(* uses it up.                                                             *)
(***************************************************************************)
EXTENDS BuildExec

Executing(w) == wpc[w] \in {"run", "abort", "notify", "push", "finish"}
Idle(w) == wpc[w] \in {"unborn", "pop", "exited"}

(* The token in the hand of worker w: what it is about to push or to start. *)
Hand(w) ==
  IF wpc[w] = "check" THEN cur[w]
  ELSE IF wpc[w] = "push" THEN Dependent(w)
  ELSE NoNode

(* The ring exists from MainInit on; before it there are no workers.       *)
Lifecycle ==
  /\ plan \in Plans
  /\ capacity = 0 => /\ mpc \in {"start", "done"}
                     /\ \A w \in Worker : wpc[w] = "unborn"
                     /\ count = 0
  /\ capacity > 0 => mpc # "start"
  /\ mpc = "seedpush" => scan < N

(* What a worker works on. *)
Assignments ==
  \A w \in Worker :
    /\ Idle(w) => cur[w] = NoNode
    /\ ~Idle(w) => cur[w] \in Node
    /\ nxt[w] >= 1
    /\ wpc[w] = "push" => /\ nxt[w] <= Len(Entries(w))
                          /\ Dependent(w) \in plan.dirty

TypeInv == TypeOK /\ Lifecycle /\ (RingIntact \/ RingWritten) /\ Assignments

-----------------------------------------------------------------------------
(* From here on for TopDown plans. *)

(* A node was executed once or never, by one worker; what was built was.   *)
Executions ==
  /\ \A n \in Node : runs[n] \in {0, 1}
  /\ \A n \in built \cup failed : runs[n] = 1
  /\ built \cap failed = {}
  /\ \A w \in Worker :
       /\ Executing(w) => runs[cur[w]] = 1
       /\ wpc[w] = "run" => cur[w] \notin built \cup failed
       /\ wpc[w] \in {"notify", "push", "finish"} => cur[w] \in built
       /\ wpc[w] = "abort" => cur[w] \in failed
  /\ \A v, w \in Worker :
       Executing(v) /\ Executing(w) /\ v # w => cur[v] # cur[w]

(* A released node: its counter is 0 and the seeding loop has passed it.   *)
Released(n) == n \in plan.dirty /\ pending[n] = 0 /\ n < scan

(* A token: released and not executed. *)
Token(n) == Released(n) /\ runs[n] = 0

(* What was executed was a token once, and is none any more. *)
UsedUp == \A n \in Node : runs[n] = 1 => Released(n)

MainHolds ==
  mpc = "seedpush" => scan \in plan.dirty /\ pending[scan] = 0 /\ runs[scan] = 0

QueueHolds ==
  \A i \in Occupied :
    /\ Token(buffer[i])
    /\ \A j \in Occupied : j # i => buffer[j] # buffer[i]

WorkersHold ==
  \A w \in Worker : Hand(w) # NoNode =>
    /\ Token(Hand(w))
    /\ \A i \in Occupied : buffer[i] # Hand(w)
    /\ \A v \in Worker : v # w => Hand(v) # Hand(w)

Tokens == UsedUp /\ MainHolds /\ QueueHolds /\ WorkersHold

(* The ring has a slot for every token there can be. *)
Sized ==
  /\ mpc = "start" => remaining = Cardinality(plan.dirty)
  /\ capacity > 0 => capacity = Cardinality(plan.dirty)

IInv ==
  /\ TypeInv
  /\ RingIntact
  /\ Executions
  /\ CountersExact
  /\ Tokens
  /\ Sized
  /\ RemainingExact

-----------------------------------------------------------------------------
(* How a call ends, on top of IInv. *)

(* has_error is stored by the worker whose builder failed, and only then. *)
ErrorKnown == hasError <=> failed # {}

(* Workers leave after the shutdown, which comes after the wait loop. *)
ExitsLate ==
  /\ shutdown => mpc \in {"join", "done"}
  /\ \A w \in Worker : wpc[w] = "exited" => shutdown

(* The wait loop is left for a reason, and the reason stays. *)
StopsForReason == mpc \in {"shutdown", "join"} => remaining = 0 \/ hasError

(* A worker may leave an empty ring that another one pushes to again; the  *)
(* last one to leave finds it empty for good.                              *)
Drained == (\A w \in Worker : wpc[w] = "exited") => count = 0

NothingBefore == mpc = "start" => built = {} /\ failed = {}

EndInv ==
  /\ ErrorKnown
  /\ ExitsLate
  /\ StopsForReason
  /\ Drained
  /\ NothingBefore
  /\ ReturnIsHonest

(* Who sleeps on q->not_empty is in queue_pop. *)
SleepersPop == \A w \in sleepers : wpc[w] = "pop"
=============================================================================
