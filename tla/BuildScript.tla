----------------------------- MODULE BuildScript -----------------------------
(***************************************************************************)
(* A build script that declares its graph: any calls of zmm_tg_init,       *)
(* zmm_tg_add_src, zmm_tg_add_dep and the two flag setters, in any order,  *)
(* one path per call (a call with more paths is as many calls with one).   *)
(* zmm_bg_add and zmm_bg_add_phony are such calls in a row.                *)
(***************************************************************************)
EXTENDS BuildGraph

CONSTANT MaxCalls   \* bound on the calls of a behaviour

ASSUME MaxCallsAssumption == MaxCalls \in Nat

VARIABLES
  graph,      \* the BuildGraph
  calls       \* the number of calls made

ScriptBegins == graph = EmptyGraph /\ calls = 0

OneCall == calls < MaxCalls /\ calls' = calls + 1

ScriptInit ==
  /\ OneCall
  /\ \E p \in Path \cup {EmptyPath}, b \in BOOLEAN : graph' = TgInit(graph, p, b)

(* A handle of zmm_tg_init is used; it names a target. *)
Handles == {t \in Ids(graph) : graph.nodes[t].target}

ScriptAddSrc ==
  /\ OneCall
  /\ \E t \in Handles, p \in Path \cup {EmptyPath} : graph' = AddSrc(graph, t, p)

ScriptAddDep ==
  /\ OneCall
  /\ \E t \in Handles, p \in Path \cup {EmptyPath} : graph' = AddDep(graph, t, p)

ScriptSetFlag ==
  /\ OneCall
  /\ \E t \in Handles : graph' \in {SetPhony(graph, t), SetAlwaysDirty(graph, t)}

ScriptNext == ScriptInit \/ ScriptAddSrc \/ ScriptAddDep \/ ScriptSetFlag

ScriptSpec == ScriptBegins /\ [][ScriptNext]_<<graph, calls>>

-----------------------------------------------------------------------------
(* What zmm_bg_prepare and zmm_bg_exec rely on in every graph a script made: *)
(* a path finds its node, and both ends of every edge agree.                 *)
GraphExact == MapExact(graph) /\ EdgesMirrored(graph)

(* A node waits for exactly the nodes of the paths it names: what            *)
(* eval_node_dirty compares timestamps with is what it recurses into.        *)
WaitsForInputs == WaitsExact(graph)
=============================================================================
