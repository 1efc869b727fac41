---------------------------- MODULE BuildSession -----------------------------
(***************************************************************************)
(* Builds one after the other, over a disk that is edited in between:      *)
(* zmm_bg_prepare and zmm_bg_exec as a build script calls them, the        *)
(* builders it passes, the developer, and the death of the script at any   *)
(* moment.  All that a build leaves to the next one is the disk.           *)
(*                                                                         *)
(* Prepare is that of BuildPrepare; exec is BuildOrder, which BuildExec    *)
(* implements.  The script calls exec only after a prepare that succeeded. *)
(*                                                                         *)
(* Files have a time of modification and, as history, whether they are     *)
(* `good': their content is what building everything from the present      *)
(* sources would give.  They are `torn' when a builder wrote them that was *)
(* cut short, or whose inputs were edited while it ran: such a file may be *)
(* newer than inputs it was not made from.                                 *)
(*                                                                         *)
(* About time: edits, and calls of exec, are told apart by the timestamps  *)
(* of the file system; what one exec writes need not be.                   *)
(***************************************************************************)
EXTENDS BuildPrepare

CONSTANTS
  Starts,     \* what it begins with: the graph the script's calls have built
              \* and the disk, a function from paths to times
  Targets,    \* the lists of targets passed to prepare
  MaxNodes,   \* bound on the size of the graphs
  MaxTime     \* bound on the clock

NodeId == 0 .. MaxNodes - 1

ASSUME StartsAssumption ==
  \A s \in Starts :
    /\ WellFormed(s.graph) /\ s.graph.size <= MaxNodes
    /\ s.disk \in [DOMAIN s.disk -> Nat]
    /\ DOMAIN s.graph.nodeMap \subseteq DOMAIN s.disk

ASSUME BoundsAssumption == MaxNodes \in Nat

ASSUME TargetsAssumption == Targets \subseteq Seq(Path \cup {EmptyPath})

VARIABLES
  graph,      \* the BuildGraph; nothing is added to it here
  prep,       \* what prepare has written into it
  disk,       \* path -> time of modification, 0: no such file
  clock,      \* the present time
  good,       \* history: the nodes whose file is as a fresh build makes it
  torn,       \* history: the nodes whose file is cut short or of mixed inputs
  touched,    \* history: running nodes an input of which was edited
  status,     \* node -> "waiting" | "running" | "built" | "failed"
  outcome,    \* "none" | "prepared" | "building" | "success" | "failure"
  asked,      \* history: the targets of the last prepare
  quiet       \* history: no file was touched since the last prepare

scriptVars == <<prep, status, outcome>>
fileVars == <<disk, clock, good, torn, touched>>
vars == <<graph, scriptVars, fileVars, asked, quiet>>

Todo == prep.inSub \cap prep.dirty

Order == INSTANCE BuildOrder WITH
  Node  <- NodeId,
  todo  <- Todo,
  needs <- [n \in NodeId |-> IF n \in Todo
                             THEN Needs(PlanOfPrepared(graph, prep), n) ELSE {}]

Waiting == [n \in NodeId |-> "waiting"]

-----------------------------------------------------------------------------
Path_(n) == graph.nodes[n].output
Source(n) == ~graph.nodes[n].target
Writes(n) ==
  graph.nodes[n].target /\ graph.nodes[n].builder /\ ~graph.nodes[n].phony

(* The nodes whose content depends on n. *)
Users(n) == {t \in Ids(graph) \ {n} : n \in Closure(graph, {t})}

Running == {n \in Ids(graph) : status[n] = "running"}

(* A file that is newer than its inputs was built from them. *)
Init ==
  /\ \E s \in Starts : graph = s.graph /\ disk = s.disk
  /\ prep = Unprepared(graph)
  /\ \E p \in DOMAIN disk : clock = disk[p] /\ \A q \in DOMAIN disk : disk[q] <= clock
  /\ good = Ids(graph) \ DirtyIn(graph, disk, Ids(graph))
  /\ torn = {} /\ touched = {}
  /\ status = Waiting
  /\ outcome = "none"
  /\ asked = <<>>
  /\ quiet = FALSE

(* The script. *)
Prepare(targets) ==
  /\ outcome # "building"
  /\ IF AllKnown(graph, targets)
     THEN /\ prep' = AfterPrepare(graph, disk, targets)
          /\ outcome' = "prepared"
     ELSE /\ prep' = AfterUnknown(graph, targets, prep)
          /\ outcome' = "none"
  /\ status' = Waiting
  /\ asked' = targets
  /\ quiet' = TRUE
  /\ UNCHANGED <<graph, fileVars>>

Exec ==
  /\ outcome = "prepared"
  /\ clock < MaxTime
  /\ clock' = clock + 1
  /\ outcome' = "building"
  /\ UNCHANGED <<graph, prep, status, disk, good, torn, touched, asked, quiet>>

Start(n) ==
  /\ UNCHANGED <<graph, prep, fileVars, asked, quiet>>
  /\ Order!Start(n)

(* A builder ends with its output written, now or a tick later.             *)
Written(n, isGood, isTorn) ==
  /\ clock' \in {clock, clock + 1} /\ clock' <= MaxTime
  /\ disk' = [disk EXCEPT ![Path_(n)] = clock']
  /\ good' = IF isGood THEN good \cup {n} ELSE good \ {n}
  /\ torn' = IF isTorn THEN torn \cup {n} ELSE torn \ {n}

(* A node without a builder succeeds, whether its file is there or not.     *)
Succeed(n) ==
  /\ UNCHANGED <<graph, prep, asked, quiet>>
  /\ Order!Finish(n)
  /\ status'[n] = "built"
  /\ touched' = touched \ {n}
  /\ IF Writes(n)
     THEN Written(n, Inputs(graph, n) \subseteq good /\ n \notin touched, n \in touched)
     ELSE UNCHANGED <<disk, clock, good, torn>>

(* A builder that fails leaves its output alone, removes it, or leaves half *)
(* of it behind.                                                            *)
Fail(n) ==
  /\ UNCHANGED <<graph, prep, asked, quiet>>
  /\ Order!Finish(n)
  /\ status'[n] = "failed"
  /\ graph.nodes[n].target /\ graph.nodes[n].builder
  /\ touched' = touched \ {n}
  /\ \/ UNCHANGED <<disk, clock, good, torn>>
     \/ /\ Writes(n)
        /\ disk' = [disk EXCEPT ![Path_(n)] = 0]
        /\ good' = good \ {n} /\ torn' = torn \ {n}
        /\ UNCHANGED clock
     \/ Writes(n) /\ Written(n, FALSE, TRUE)

Return ==
  /\ UNCHANGED <<graph, prep, fileVars, asked, quiet>>
  /\ Order!Succeed \/ Order!Fail

(* The script exits, or is killed and its builders with it, some of them    *)
(* half-way; the next one declares the same graph.                          *)
Exit ==
  /\ prep' = Unprepared(graph)
  /\ status' = Waiting
  /\ outcome' = "none"
  /\ asked' = <<>>
  /\ quiet' = FALSE
  /\ touched' = {}
  /\ \E cut \in SUBSET {n \in Running : Writes(n)} :
       /\ disk' = [p \in DOMAIN disk |->
                    IF \E n \in cut : p = Path_(n) THEN clock ELSE disk[p]]
       /\ good' = good \ cut /\ torn' = torn \cup cut
  /\ UNCHANGED <<graph, clock>>

-----------------------------------------------------------------------------
(* The developer, also while builders run. *)
Edit(n) ==
  /\ Source(n)
  /\ clock < MaxTime
  /\ clock' = clock + 1
  /\ disk' = [disk EXCEPT ![Path_(n)] = clock']
  /\ good' = (good \cup {n}) \ Users(n)
  /\ touched' = touched \cup {r \in Running : n \in Inputs(graph, r)}
  /\ quiet' = FALSE
  /\ UNCHANGED <<graph, scriptVars, torn, asked>>

Remove(n) ==
  /\ disk[Path_(n)] > 0
  /\ disk' = [disk EXCEPT ![Path_(n)] = 0]
  /\ good' = good \ (IF Source(n) THEN {n} \cup Users(n) ELSE {n})
  /\ torn' = torn \ {n}
  /\ quiet' = FALSE
  /\ UNCHANGED <<graph, scriptVars, clock, touched, asked>>

Next ==
  \/ \E targets \in Targets : Prepare(targets)
  \/ Exec \/ Return \/ Exit
  \/ \E n \in Ids(graph) :
       Start(n) \/ Succeed(n) \/ Fail(n) \/ Edit(n) \/ Remove(n)

Spec == Init /\ [][Next]_vars

-----------------------------------------------------------------------------
(* Whatever was edited, removed, built, failed or interrupted before, and   *)
(* whoever was running meanwhile, a prepare of everything would find every  *)
(* file that is not as a fresh build makes it.  Timestamps                  *)
(* (eval_node_dirty) miss a file only if it, or one it is made from, was    *)
(* cut short or written from inputs edited under its builder, and no such   *)
(* file is taken for good until it is built again; or if it is made from a  *)
(* phony target whose name is that of a file, which stands for all that the *)
(* phony target waits for.  On a graph with cycles the search misses more.  *)
FileOfPhony(n) == graph.nodes[n].phony /\ disk[Path_(n)] > 0

NothingMissed ==
  Acyclic(graph) =>
  LET dirty == DirtyIn(graph, disk, Ids(graph))
  IN  \A n \in Ids(graph) \ dirty :
        \/ graph.nodes[n].phony \/ n \in good
        \/ \E m \in Closure(graph, {n}) : m \in torn \/ FileOfPhony(m)

(* When exec returns 0 and nothing was touched meanwhile, a second build has *)
(* nothing to do, except for what is always dirty or can never be clean: a   *)
(* file is missing that no builder writes (a missing source, a phony input), *)
(* or is older than its inputs and no builder writes it.  (Not on a cycle:   *)
(* there a node is built after one that waits for it was taken for clean.)   *)
NoFile(p) ==
  disk[p] = 0 /\ ~(p \in DOMAIN graph.nodeMap /\ Writes(graph.nodeMap[p]))

NeverClean(n) ==
  \/ graph.nodes[n].always
  \/ ~graph.nodes[n].phony
     /\ \/ \E m \in {n} \cup Inputs(graph, n) : NoFile(Path_(m))
        \/ ~Writes(n) /\ \E d \in Inputs(graph, n) : disk[Path_(d)] > disk[Path_(n)]

SecondBuildIsEmpty ==
  outcome = "success" /\ quiet /\ Acyclic(graph) =>
    \A n \in DirtyIn(graph, disk, prep.inSub) :
      \E m \in Closure(graph, {n}) : NeverClean(m)

(* plan_subgraph finds the targets and all they wait for, once each, on any  *)
(* graph, also one with cycles; and on a graph without cycles eval_node_dirty*)
(* finds among them, though it visits a node once, every node that has a     *)
(* reason or waits for one that has.                                         *)
SearchesExact ==
  outcome = "prepared" =>
    /\ prep.inSub = Closure(graph, {graph.nodeMap[asked[k]] : k \in DOMAIN asked})
    /\ quiet /\ Acyclic(graph) => prep.dirty = DirtyByReason(graph, disk, prep.inSub)

(* prepare counts over waits_on; worker_fn counts down over dependents, and  *)
(* tests other flags.  The two see the same entries: the state prepare       *)
(* leaves is one from which BuildExec starts.                                *)
PreparedIsPlan ==
  outcome = "prepared" =>
    LET p == PlanOfPrepared(graph, prep)
    IN  /\ prep.dirty \subseteq prep.inSub
        /\ \A t \in Ids(graph) : prep.pending[t] = PendingAtFirst(p, t)
        /\ prep.remaining = Cardinality(p.dirty)

(* Without cycles exec can begin, if there is something to do. *)
SomethingIsReady ==
  outcome = "prepared" /\ prep.remaining > 0 /\ Acyclic(graph) =>
    \E t \in Todo : prep.pending[t] = 0

=============================================================================
