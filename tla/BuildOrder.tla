----------------------------- MODULE BuildOrder ------------------------------
(***************************************************************************)
(* What a parallel build promises, without threads, queues and counters:   *)
(* a target is built when everything it needs has been built, no target    *)
(* is built again, and the call returns when nothing runs any more, with   *)
(* success exactly when all the work is done.  BuildExec (zmm_bg_exec and  *)
(* its workers) implements it.                                             *)
(***************************************************************************)
CONSTANT Node

VARIABLES
  todo,     \* the nodes to build
  needs,    \* node -> the nodes of todo that it needs built first
  status,   \* node -> "waiting" | "running" | "built" | "failed"
  outcome   \* "building" until the call returns, then "success" or "failure"

orderVars == <<todo, needs, status, outcome>>

Init ==
  /\ todo \subseteq Node
  /\ needs \in [Node -> SUBSET todo]
  /\ status = [n \in Node |-> "waiting"]
  /\ outcome = "building"

Start(n) ==
  /\ outcome = "building"
  /\ n \in todo
  /\ status[n] = "waiting"
  /\ \A m \in needs[n] : status[m] = "built"
  /\ status' = [status EXCEPT ![n] = "running"]
  /\ UNCHANGED <<todo, needs, outcome>>

Finish(n) ==
  /\ status[n] = "running"
  /\ \E s \in {"built", "failed"} : status' = [status EXCEPT ![n] = s]
  /\ UNCHANGED <<todo, needs, outcome>>

Succeed ==
  /\ outcome = "building"
  /\ \A n \in todo : status[n] = "built"
  /\ outcome' = "success"
  /\ UNCHANGED <<todo, needs, status>>

(* A failed target stops the build; so does running out of memory, before  *)
(* anything has started.                                                   *)
Fail ==
  /\ outcome = "building"
  /\ \A n \in Node : status[n] # "running"
  /\ \/ \E n \in todo : status[n] = "failed"
     \/ \A n \in Node : status[n] = "waiting"
  /\ outcome' = "failure"
  /\ UNCHANGED <<todo, needs, status>>

Next == Succeed \/ Fail \/ \E n \in Node : Start(n) \/ Finish(n)

Spec == Init /\ [][Next]_orderVars
=============================================================================
