--------------------------- MODULE MCBuildSession ---------------------------
(***************************************************************************)
(* Instances of BuildSession for TLC: scripts, disks and targets.          *)
(***************************************************************************)
EXTENDS BuildSession

CONSTANTS prog, lib, obj, src   \* paths

Rule(out, srcs, deps) ==
  [output |-> out, sources |-> srcs, deps |-> deps,
   builder |-> TRUE, always |-> FALSE, phony |-> FALSE]

Always(rule) == [rule EXCEPT !.always = TRUE]
Phony(rule) == [rule EXCEPT !.phony = TRUE]
Command(rule) == [rule EXCEPT !.builder = FALSE]

-----------------------------------------------------------------------------
(* For whole sessions. *)

(* From the source up: an object, an archive of it, a program of both. *)
ChainUp ==
  GraphOf(<<Rule(obj, <<src>>, <<>>), Rule(lib, <<obj>>, <<>>),
            Rule(prog, <<lib>>, <<obj>>)>>)

(* From the program down: two objects that share a header, named by one of  *)
(* them twice.                                                              *)
SharedHeader ==
  GraphOf(<<Rule(prog, <<lib, obj>>, <<>>), Rule(lib, <<src>>, <<src>>),
            Rule(obj, <<>>, <<src>>)>>)

(* A phony group over a program of a generated file that is always dirty.   *)
Generated ==
  GraphOf(<<Command(Phony(Rule(prog, <<lib>>, <<>>))),
            Rule(lib, <<obj>>, <<src>>), Always(Rule(obj, <<>>, <<>>))>>)

(* A program that depends on a phony command; an empty path ends its rule.  *)
AfterCommand ==
  GraphOf(<<Rule(prog, <<lib>>, <<obj, EmptyPath, src>>),
            Rule(lib, <<src>>, <<>>), Phony(Rule(obj, <<src>>, <<>>))>>)

SessionGraphs == {ChainUp, SharedHeader, Generated, AfterCommand}

(* Nothing is built yet. *)
CleanTree == [p \in Path |-> IF p = src THEN 1 ELSE 0]

(* The phony command bears the name of a file. *)
PhonyFileTree == [CleanTree EXCEPT ![obj] = 1]

Sessions ==
  {[graph |-> g, disk |-> CleanTree] : g \in SessionGraphs}
    \cup {[graph |-> AfterCommand, disk |-> PhonyFileTree]}

-----------------------------------------------------------------------------
(* For prepare alone: all small graphs over all small disks. *)

(* Rules for the program and the library with any inputs below them, as     *)
(* sources or as deps, and for the object with its source as both; and one  *)
(* of them always dirty or phony.                                           *)
ListOf(S) == SelectSeq(<<lib, obj, src>>, LAMBDA p : p \in S)

LayeredRules ==
  {<<Rule(prog, ListOf(A), <<>>), Rule(lib, <<>>, ListOf(B)),
     Rule(obj, <<src>>, <<src>>)>> :
     A \in SUBSET {lib, obj, src}, B \in SUBSET {obj, src}}

Flagged(rules) ==
  {rules} \cup {[rules EXCEPT ![i] = Always(@)] : i \in {2, 3}}
          \cup {[rules EXCEPT ![i] = Phony(@)] : i \in {2, 3}}

(* Any edges between three paths, cycles included, and one that waits for   *)
(* itself.                                                                  *)
CyclicRules ==
  {<<Rule(lib, ListOf(A), <<>>), Rule(obj, ListOf(B), <<>>),
     Rule(src, <<>>, ListOf(C))>> :
     A \in SUBSET {obj, src}, B \in SUBSET {lib, obj, src}, C \in SUBSET {lib, obj}}

PrepareGraphs ==
  {GraphOf(rules) :
     rules \in CyclicRules \cup UNION {Flagged(r) : r \in LayeredRules}}

(* The clock has run out: nothing is built or edited, only removed.         *)
LastDisks ==
  {f \in [Path -> {MaxTime - 1, MaxTime}] : \E p \in Path : f[p] = MaxTime}

Prepares == {[graph |-> g, disk |-> f] : g \in PrepareGraphs, f \in LastDisks}

-----------------------------------------------------------------------------
AllStarts == Sessions \cup Prepares

(* Also in the wrong order, and a path that no graph knows; some do not know*)
(* the program.                                                             *)
AllTargets ==
  {<<prog>>, <<obj, lib>>, <<lib, EmptyPath>>}
=============================================================================
