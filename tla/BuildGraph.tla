------------------------------ MODULE BuildGraph ------------------------------
(***************************************************************************)
(* The graph of src/src/builder.c and the calls that build it: zmm_bg_init,*)
(* zmm_bg_add, zmm_bg_add_phony and the TargetBuilder calls they are made  *)
(* of.                                                                     *)
(*                                                                         *)
(* A graph is a value and each C function an operator from graph to graph, *)
(* so that other modules build graphs with the calls a build script makes. *)
(* Allocations succeed; what the code takes for a failed one, a source or  *)
(* dep with an empty path, is here.                                        *)
(***************************************************************************)
EXTENDS Naturals, Sequences, FiniteSets

CONSTANTS
  Path,       \* the paths and phony names a script uses
  EmptyPath   \* the path of length 0

NewNode(p) ==
  [output |-> p, sources |-> <<>>, deps |-> <<>>,
   dependents |-> <<>>, waitsOn |-> <<>>,
   builder |-> FALSE, target |-> FALSE, phony |-> FALSE, always |-> FALSE]

(* zmm_bg_init.  Node ids are positions in g->nodes, so 0 .. size-1. *)
EmptyGraph ==
  [size |-> 0, nodes |-> [i \in {} |-> NewNode(EmptyPath)],
   nodeMap |-> [p \in {} |-> 0]]

Ids(g) == 0 .. g.size - 1

(* A new node for p, with the hash map taking p to id. *)
AppendNode(g, p, id) ==
  [size    |-> g.size + 1,
   nodes   |-> [i \in 0 .. g.size |->
                  IF i = g.size THEN NewNode(p) ELSE g.nodes[i]],
   nodeMap |-> [q \in DOMAIN g.nodeMap \cup {p} |->
                  IF q = p THEN id ELSE g.nodeMap[q]]]

(* get_or_put_node; the id it returns is the result's nodeMap[p]. *)
GetOrPut(g, p) ==
  IF p \in DOMAIN g.nodeMap THEN g ELSE AppendNode(g, p, g.size)

(* Faulty variant: a repeated edge is recorded at one end only. *)
AddEdgeOnce(g, t, p) ==
  LET h == GetOrPut(g, p)
      d == h.nodeMap[p]
  IN  IF \E i \in DOMAIN h.nodes[d].dependents : h.nodes[d].dependents[i] = t
      THEN [h EXCEPT !.nodes[t].waitsOn = Append(@, d)]
      ELSE [h EXCEPT !.nodes[d].dependents = Append(@, t),
                     !.nodes[t].waitsOn = Append(@, d)]

(* add_dependency_edge *)
AddEdge(g, t, p) ==
  LET h == GetOrPut(g, p)
      d == h.nodeMap[p]
  IN  [h EXCEPT !.nodes[d].dependents = Append(@, t),
                !.nodes[t].waitsOn = Append(@, d)]

(* zmm_tg_add_src and zmm_tg_add_dep, one path; an empty one is refused.    *)
AddSrc(g, t, p) ==
  IF p = EmptyPath THEN g
  ELSE AddEdge([g EXCEPT !.nodes[t].sources = Append(@, p)], t, p)

(* Faulty variant: a dep that is a source already gets no edge of its own. *)
AddDepUnlessSource(g, t, p) ==
  IF p = EmptyPath THEN g
  ELSE IF \E i \in DOMAIN g.nodes[t].sources : g.nodes[t].sources[i] = p
       THEN [g EXCEPT !.nodes[t].deps = Append(@, p)]
       ELSE AddEdge([g EXCEPT !.nodes[t].deps = Append(@, p)], t, p)

AddDep(g, t, p) ==
  IF p = EmptyPath THEN g
  ELSE AddEdge([g EXCEPT !.nodes[t].deps = Append(@, p)], t, p)

(* zmm_tg_init with (b) or without a builder; the handle's id is the        *)
(* result's nodeMap[p].                                                     *)
TgInit(g, p, b) ==
  LET h == GetOrPut(g, p)
  IN  [h EXCEPT !.nodes[h.nodeMap[p]].target = TRUE,
                !.nodes[h.nodeMap[p]].builder = b]

SetPhony(g, t) == [g EXCEPT !.nodes[t].phony = TRUE]
SetAlwaysDirty(g, t) == [g EXCEPT !.nodes[t].always = TRUE]

-----------------------------------------------------------------------------
(* A whole rule.  `rule' has the fields output, sources, deps, builder,       *)
(* always and phony, sources and deps as sequences.  The loops of             *)
(* zmm_tg_add_src and zmm_tg_add_dep stop at the first refused path, and the  *)
(* rest of the rule is dropped.                                               *)
UpTo(ps) == LET Bad == {i \in DOMAIN ps : ps[i] = EmptyPath}
            IN  IF Bad = {} THEN Len(ps)
                ELSE (CHOOSE i \in Bad : \A j \in Bad : i <= j) - 1

AddSrcs(g, t, ps) ==
  LET After[i \in 0 .. UpTo(ps)] ==
        IF i = 0 THEN g ELSE AddSrc(After[i - 1], t, ps[i])
  IN  After[UpTo(ps)]

AddDeps(g, t, ps) ==
  LET After[i \in 0 .. UpTo(ps)] ==
        IF i = 0 THEN g ELSE AddDep(After[i - 1], t, ps[i])
  IN  After[UpTo(ps)]

(* zmm_bg_add, and zmm_bg_add_phony when rule.phony. *)
BgAdd(g, rule) ==
  LET h  == TgInit(g, rule.output, rule.builder)
      t  == h.nodeMap[rule.output]
      h1 == IF rule.always THEN SetAlwaysDirty(h, t) ELSE h
      h2 == AddSrcs(h1, t, rule.sources)
      h3 == AddDeps(h2, t, rule.deps)
  IN  IF UpTo(rule.sources) < Len(rule.sources) THEN h2
      ELSE IF UpTo(rule.deps) < Len(rule.deps) \/ ~rule.phony THEN h3
      ELSE SetPhony(h3, t)

(* A script: its rules in the order it declares them. *)
GraphOf(rules) ==
  LET After[i \in 0 .. Len(rules)] ==
        IF i = 0 THEN EmptyGraph ELSE BgAdd(After[i - 1], rules[i])
  IN  After[Len(rules)]

-----------------------------------------------------------------------------
(* What holds of every graph a script makes (BuildScript).                   *)

(* A node of a graph with these ids and these paths in its hash map.  A path *)
(* is in the hash map as soon as a node names it: no edge waits for a node   *)
(* still to be made.                                                         *)
NodeOver(ids, known) ==
  [output : known, sources : Seq(known), deps : Seq(known),
   dependents : Seq(ids), waitsOn : Seq(ids),
   builder : BOOLEAN, target : BOOLEAN, phony : BOOLEAN, always : BOOLEAN]

GraphClosed(g) ==
  /\ g \in [size    : Nat,
            nodes   : [Ids(g) -> NodeOver(Ids(g), DOMAIN g.nodeMap)],
            nodeMap : [DOMAIN g.nodeMap -> Ids(g)]]
  /\ DOMAIN g.nodeMap \subseteq Path \cup {EmptyPath}

(* One node per path, whatever the order of the calls: the hash map takes a  *)
(* path to the node that has it as its output, and every node is in it.      *)
MapExact(g) ==
  /\ \A p \in DOMAIN g.nodeMap : g.nodes[g.nodeMap[p]].output = p
  /\ \A i \in Ids(g) :
       LET p == g.nodes[i].output
       IN  p \in DOMAIN g.nodeMap /\ g.nodeMap[p] = i

Times(s, x) == Cardinality({i \in DOMAIN s : s[i] = x})

(* Both ends of an edge know it equally often, also when a path is named     *)
(* twice, as a source and as a dep, or by its own rule.  zmm_bg_prepare      *)
(* counts at one end (waits_on) what worker_fn counts down from the other    *)
(* (dependents).                                                             *)
EdgesMirrored(g) ==
  \A d, t \in Ids(g) :
    Times(g.nodes[d].dependents, t) = Times(g.nodes[t].waitsOn, d)

(* A node waits for the nodes of the paths it names, as often.               *)
WaitsExact(g) ==
  \A t, d \in Ids(g) :
    LET n == g.nodes[t]
        p == g.nodes[d].output
    IN  Times(n.waitsOn, d) = Times(n.sources, p) + Times(n.deps, p)

(* A node that no zmm_tg_init named is a plain source file: it waits for     *)
(* nothing and has no flag.                                                  *)
SourcesPlain(g) ==
  \A i \in Ids(g) :
    LET n == g.nodes[i]
    IN  n.target \/ (n.waitsOn = <<>> /\ ~n.builder /\ ~n.phony /\ ~n.always)

WellFormed(g) ==
  /\ GraphClosed(g) /\ MapExact(g) /\ EdgesMirrored(g) /\ WaitsExact(g)
  /\ SourcesPlain(g)
=============================================================================
