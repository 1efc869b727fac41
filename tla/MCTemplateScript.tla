--------------------------- MODULE MCTemplateScript ---------------------------
(***************************************************************************)
(* An instance of TemplateScript for TLC: two sources, two headers.  A     *)
(* source includes the first header or leaves it out, the other always has *)
(* it; the first header may include the second.                            *)
(***************************************************************************)
EXTENDS ScriptInv

SomeForms ==
  [f \in {"s1", "s2", "h1", "h2"} |->
     CASE f = "s1" -> {{}, {"h1"}} [] f = "s2" -> {{"h1"}}
       [] f = "h1" -> {{}, {"h2"}} [] f = "h2" -> {{}}]

SomePaths ==
  {<<"src", "s1">>, <<"src", "s2">>, <<"include", "h1">>, <<"include", "h2">>,
   <<"build", "exe.out">>, <<"build", "libmylib.so">>, <<"test", "s2">>}
    \cup {"obj", "f1", "f2"} \X {"s1", "s2"}

(* Constraint.  After the last tick there are no more plans: the properties  *)
(* speak of the plan of that moment and of the success it may end in, and    *)
(* what was edited, failed or killed then does not come to either.  TLC      *)
(* looks at such a state and does not go on from it.                         *)
MayMatter == clock = MaxClock => Building /\ quiet /\ ~failed
===============================================================================
