----------------------------- MODULE MCBuildExec -----------------------------
(***************************************************************************)
(* Instances of BuildExec for TLC: the plans, and the symmetry of workers. *)
(***************************************************************************)
EXTENDS BuildExecInv, TLC

(* The plan with the dirty nodes D in which d lists t entries[<<d, t>>]      *)
(* times as a dependent, in the order of the ids.  What waits for nothing is *)
(* a source file and has no builder.                                         *)
PlanOf(entries, D) ==
  LET Pairs == DOMAIN entries
      Listing[d \in Node, t \in 0 .. N] ==
        IF t = 0 THEN <<>>
        ELSE Listing[d, t - 1] \o
             (IF <<d, t - 1>> \in Pairs
              THEN [i \in 1 .. entries[<<d, t - 1>>] |-> t - 1] ELSE <<>>)
  IN [dirty      |-> D,
      dependents |-> [d \in Node |-> Listing[d, N]],
      builders   |-> {t \in Node : \E d \in Node :
                        <<d, t>> \in Pairs /\ entries[<<d, t>>] > 0}]

(* Edges from greater to smaller ids: every such plan is TopDown. *)
Downward == {e \in Node \X Node : e[1] > e[2]}

(* Every graph of that kind, with up to 2 entries per edge, all dirty. *)
RepeatedPlans == {PlanOf(e, Node) : e \in [Downward -> 0 .. 2]}

(* Every graph of that kind without repetitions, all dirty. *)
DownwardPlans == {PlanOf(e, Node) : e \in [Downward -> 0 .. 1]}

(* A chosen few: two dirty targets next to a clean one, a graph whose edges  *)
(* go both ways and that is still TopDown, one with repeated entries, one    *)
(* with nothing to do.                                                       *)
Edges(E) == [e \in E |-> 1]

ChosenPlans ==
  {PlanOf(Edges({<<3, 0>>, <<3, 1>>, <<3, 2>>}), {0, 1, 3}),
   PlanOf(Edges({<<3, 0>>, <<0, 2>>, <<3, 2>>, <<2, 1>>, <<3, 1>>}), Node),
   PlanOf([e \in {<<3, 1>>, <<1, 0>>} |-> 2], {0, 1, 3}),
   PlanOf(Edges({<<3, 0>>}), {})}

SafetyPlans == DownwardPlans \cup ChosenPlans

(* A graph declared from the sources up: one source, one object file made    *)
(* of it, one program made of the object file.                               *)
BottomUpPlans == {PlanOf(Edges({<<0, 1>>, <<1, 2>>}), Node)}

WorkerSymmetry == Permutations(Worker)
=============================================================================
