------------------------------ MODULE BuildPlan ------------------------------
(***************************************************************************)
(* Prepared graphs, the interface between zmm_bg_prepare, which writes     *)
(* them (BuildPrepare), and zmm_bg_exec, which executes them (BuildExec).  *)
(*                                                                         *)
(* A plan p is the part of the graph zmm_bg_exec reads and never writes:   *)
(*   p.dirty       the nodes in the subgraph that are dirty                *)
(*   p.dependents  every node's dependents in the order they were added,   *)
(*                 one entry per source or dep that names the node, so     *)
(*                 with repetitions                                        *)
(*   p.builders    the targets that have a builder                         *)
(***************************************************************************)
EXTENDS Naturals, Sequences, FiniteSets

(* A plan over the nodes with these ids. *)
PlanOver(ids, p) ==
  /\ p.dirty \subseteq ids
  /\ p.dependents \in [ids -> Seq(ids)]
  /\ p.builders \subseteq ids

(* The dependents entries of the dirty nodes, and those that name t. *)
Slots(p) ==
  UNION {{<<d, i>> : i \in 1 .. Len(p.dependents[d])} : d \in p.dirty}

Target(p, s) == p.dependents[s[1]][s[2]]

SlotsTo(p, t) == {s \in Slots(p) : Target(p, s) = t}

(* The dirty nodes t waits for. *)
Needs(p, t) == {s[1] : s \in SlotsTo(p, t)}

(* Faulty variant: nodes instead of entries. *)
PendingByNode(p, t) == IF t \in p.dirty THEN Cardinality(Needs(p, t)) ELSE 0

(* pending_deps of a node when execution begins: one for each entry that will *)
(* be notified.                                                               *)
PendingAtFirst(p, t) == IF t \in p.dirty THEN Cardinality(SlotsTo(p, t)) ELSE 0

(* The seeding loop takes a node whose counter is 0 for a leaf.  That is so  *)
(* when no node is released before the loop has passed it, for instance when *)
(* every dirty node that waits for others waits for one with a greater id:   *)
(* the graph was declared from the final targets down to the sources.        *)
TopDown(p) ==
  \A t \in p.dirty : Needs(p, t) # {} => \E d \in Needs(p, t) : d > t
=============================================================================
