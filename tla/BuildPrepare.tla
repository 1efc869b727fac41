---------------------------- MODULE BuildPrepare -----------------------------
(***************************************************************************)
(* Phases 1 and 2 of a build: zmm_bg_prepare of src/src/builder.c, with    *)
(* plan_subgraph, eval_node_dirty and is_dirty_stat, and zmm_bg_is_dirty.  *)
(*                                                                         *)
(* The graph g is one of BuildGraph.  The disk gives every path the time   *)
(* of its last modification, 0 when there is no such file: nothing else of *)
(* a file is looked at.                                                    *)
(*                                                                         *)
(* What prepare writes into the nodes is a record: inSub and dirty (sets   *)
(* of ids), pending (id -> pending_deps), remaining.                       *)
(***************************************************************************)
EXTENDS BuildGraph, BuildPlan

(* zmm_bg_init, and the zeroed nodes get_or_put_node appends. *)
Unprepared(g) ==
  [inSub |-> {}, dirty |-> {}, pending |-> [i \in Ids(g) |-> 0], remaining |-> 0]

Inputs(g, t) == {g.nodes[t].waitsOn[i] : i \in DOMAIN g.nodes[t].waitsOn}

Reversed(s) == [i \in 1 .. Len(s) |-> s[Len(s) + 1 - i]]

(* A loop that takes a state s to body[s], until nothing changes. *)
Loop(body) ==
  LET After[s \in DOMAIN body] ==
        LET next == body[s] IN IF next = s THEN s ELSE After[next]
  IN  After

-----------------------------------------------------------------------------
(* plan_subgraph: a depth-first search over waits_on with a stack, top last.  *)
(* (A node that is in the subgraph already is left out when it is popped; the *)
(* code does not even push it.)                                               *)
PlanState(g) == [stack : Seq(Ids(g)), inSub : SUBSET Ids(g)]

Visit(g) ==
  [s \in PlanState(g) |->
     IF s.stack = <<>> THEN s
     ELSE LET id   == s.stack[Len(s.stack)]
              rest == SubSeq(s.stack, 1, Len(s.stack) - 1)
          IN  IF id \in s.inSub THEN [s EXCEPT !.stack = rest]
              ELSE [stack |-> rest \o g.nodes[id].waitsOn,
                    inSub |-> s.inSub \cup {id}]]

-----------------------------------------------------------------------------
(* Faulty variant: an input of the same time counts as newer. *)
NewerOrEqual(disk, out, in) == disk[in] >= disk[out]

(* is_dirty_stat: the input was modified after the output. *)
Newer(disk, out, in) == disk[in] > disk[out]

(* What eval_node_dirty finds with stat: the output or an input is missing, *)
(* or an input is newer.                                                    *)
InputDirty(disk, out, in) == disk[in] = 0 \/ Newer(disk, out, in)

(* Faulty variant: the times of the deps are not compared. *)
OwnFilesDirtySources(n, disk) ==
  \/ disk[n.output] = 0
  \/ \E i \in DOMAIN n.sources : InputDirty(disk, n.output, n.sources[i])
  \/ \E i \in DOMAIN n.deps : disk[n.deps[i]] = 0

OwnFilesDirty(n, disk) ==
  \/ disk[n.output] = 0
  \/ \E i \in DOMAIN n.sources : InputDirty(disk, n.output, n.sources[i])
  \/ \E i \in DOMAIN n.deps : InputDirty(disk, n.output, n.deps[i])

(* eval_node_dirty of a node, once its inputs are evaluated. *)
Verdict(n, disk, dirtyInput) ==
  n.always \/ dirtyInput \/ (~n.phony /\ OwnFilesDirty(n, disk))

(* eval_node_dirty.  Its recursion has a stack, of the calls to come and,     *)
(* under the calls for its inputs, each node that has not returned; met again *)
(* on a cycle it is visited and not dirty.                                    *)
EvalState(g) ==
  [stack   : Seq([op : {"call", "return", "skip"}, id : Ids(g)]),
   visited : SUBSET Ids(g),
   dirty   : SUBSET Ids(g)]

Call(id) == [op |-> "call", id |-> id]
Calls(ids) == [i \in 1 .. Len(ids) |-> Call(ids[i])]

EvalNode(g, disk) ==
  [s \in EvalState(g) |->
     IF s.stack = <<>> THEN s
     ELSE LET top  == s.stack[Len(s.stack)]
              rest == SubSeq(s.stack, 1, Len(s.stack) - 1)
              n    == g.nodes[top.id]
          IN  IF top.op = "return"
              THEN [s EXCEPT !.stack = rest,
                             !.dirty = IF Verdict(n, disk, Inputs(g, top.id) \cap @ # {})
                                       THEN @ \cup {top.id} ELSE @]
              ELSE IF top.op = "skip" \/ top.id \in s.visited
              THEN [s EXCEPT !.stack = rest]
              ELSE [s EXCEPT !.stack = Append(rest, [top EXCEPT !.op = "return"])
                                         \o Calls(Reversed(n.waitsOn)),
                             !.visited = @ \cup {top.id}]]

(* The loop over all nodes calls it for those of the subgraph, the first on top.*)
DirtyIn(g, disk, inSub) ==
  LET Turn(id) == IF id \in inSub THEN Call(id) ELSE [op |-> "skip", id |-> id]
      begin == [stack   |-> [i \in 1 .. g.size |-> Turn(g.size - i)],
                visited |-> {}, dirty |-> {}]
  IN  Loop(EvalNode(g, disk))[begin].dirty

-----------------------------------------------------------------------------
(* Faulty variants: inputs that are named twice are counted once; clean      *)
(* inputs are counted.                                                       *)
CountOnce(g, t, dirty) ==
  Cardinality({d \in dirty : \E i \in DOMAIN g.nodes[t].waitsOn :
                               g.nodes[t].waitsOn[i] = d})

CountAll(g, t, dirty) == Len(g.nodes[t].waitsOn)

(* pending_deps: the entries of waits_on that are dirty. *)
CountPending(g, t, dirty) ==
  Cardinality({i \in DOMAIN g.nodes[t].waitsOn : g.nodes[t].waitsOn[i] \in dirty})

(* The targets (a sequence of paths) up to the first one the graph does not *)
(* know.                                                                    *)
Known(g, targets) ==
  {k \in DOMAIN targets : \A j \in 1 .. k : targets[j] \in DOMAIN g.nodeMap}

(* Faulty variant: the inputs of the targets only. *)
SubgraphShallow(g, targets) ==
  LET starts == {g.nodeMap[targets[k]] : k \in Known(g, targets)}
  IN  starts \cup UNION {Inputs(g, t) : t \in starts}

(* One search after the other, each with the subgraph of those before. *)
Subgraph(g, targets) ==
  LET Start(k) == g.nodeMap[targets[k]]
      starts == [k \in 1 .. Cardinality(Known(g, targets)) |-> Start(k)]
  IN  Loop(Visit(g))[[stack |-> Reversed(starts), inSub |-> {}]].inSub

(* zmm_bg_prepare returns -1: the flags are reset, a part of the subgraph is *)
(* marked, remaining_dirty is that of the previous call.                     *)
AfterUnknown(g, targets, old) ==
  [Unprepared(g) EXCEPT !.inSub = Subgraph(g, targets),
                        !.remaining = old.remaining]

(* zmm_bg_prepare returns 0. *)
AfterPrepare(g, disk, targets) ==
  LET inSub == Subgraph(g, targets)
      dirty == DirtyIn(g, disk, inSub)
  IN  [inSub     |-> inSub,
       dirty     |-> dirty,
       pending   |-> [t \in Ids(g) |-> IF t \in inSub /\ t \in dirty
                                       THEN CountPending(g, t, dirty) ELSE 0],
       remaining |-> Cardinality(inSub \cap dirty)]

AllKnown(g, targets) == Cardinality(Known(g, targets)) = Len(targets)

(* zmm_bg_is_dirty *)
IsDirty(g, prep, target) ==
  target \in DOMAIN g.nodeMap /\ g.nodeMap[target] \in prep.dirty

(* What zmm_bg_exec reads of a prepared graph. *)
PlanOfPrepared(g, prep) ==
  [dirty      |-> prep.inSub \cap prep.dirty,
   dependents |-> [i \in Ids(g) |-> g.nodes[i].dependents],
   builders   |-> {i \in Ids(g) : g.nodes[i].target /\ g.nodes[i].builder}]

-----------------------------------------------------------------------------
(* Reference definitions: what the two searches are to find. *)

(* S and everything it waits for, directly or not. *)
AddInputs(g) ==
  [S \in SUBSET Ids(g) |-> S \cup UNION {Inputs(g, t) : t \in S}]

Closure(g, S) == Loop(AddInputs(g))[S]

Acyclic(g) ==
  \A t \in Ids(g) : t \notin Closure(g, Inputs(g, t))

(* A node has a reason of its own to be built. *)
OwnReason(n, disk) == n.always \/ (~n.phony /\ OwnFilesDirty(n, disk))

(* A node is dirty when it, or something it waits for, has a reason. *)
DirtyByReason(g, disk, inSub) ==
  {t \in inSub : \E m \in Closure(g, {t}) : OwnReason(g.nodes[m], disk)}
=============================================================================
