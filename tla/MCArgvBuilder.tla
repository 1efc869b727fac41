---------------------------- MODULE MCArgvBuilder ----------------------------
EXTENDS ArgvBuilder

(* The empty argument, a short one and one that fills the first buffer.    *)
SomeTexts == {<<>>, <<"a">>, <<"a", "b", "c">>}
==============================================================================
