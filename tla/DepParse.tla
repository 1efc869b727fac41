------------------------------- MODULE DepParse -------------------------------
(***************************************************************************)
(* zmm_dep_parse of src/src/dep.c, as it is built for POSIX: the           *)
(* prerequisites a compiler wrote into a dependency file.  A file is a     *)
(* sequence of characters; the state is what the code carries from one to  *)
(* the next, and so from one chunk of the file to the next.                *)
(***************************************************************************)
EXTENDS Integers, Sequences, SequencesExt

NewLine == {"LF", "CR"}

Start == [token |-> <<>>, seenColon |-> FALSE, escaping |-> FALSE,
          skipLf |-> FALSE, deps |-> <<>>]

(* COMMIT_TOKEN: what was read before the colon is the target.             *)
Commit(s) ==
  [s EXCEPT !.token = <<>>,
            !.deps = IF s.token # <<>> /\ s.seenColon THEN Append(@, s.token) ELSE @]

(* APPEND_CHAR, whose buffer grows as it has to.                           *)
Keep(s, c) == [s EXCEPT !.token = Append(@, c)]

(* Faulty variant: CRLF is not one line end.                               *)
ContinueLineByOne(s, c) == [s EXCEPT !.escaping = FALSE]

(* A backslash before the end of a line joins the next one to it.          *)
ContinueLine(s, c) == [s EXCEPT !.escaping = FALSE, !.skipLf = (c = "CR")]

Escaped(s, c) ==
  IF c \in NewLine THEN ContinueLine(s, c) ELSE [Keep(s, c) EXCEPT !.escaping = FALSE]

(* The first colon of a line ends its target, others are part of a name.   *)
Colon(s) ==
  IF s.seenColon THEN Keep(s, ":") ELSE [s EXCEPT !.seenColon = TRUE, !.token = <<>>]

Unescaped(s, c) ==
  CASE c = "\\" -> [s EXCEPT !.escaping = TRUE]
    [] c \in NewLine -> [Commit(s) EXCEPT !.seenColon = FALSE]
    [] c = ":" -> Colon(s)
    [] c = " " -> Commit(s)
    [] OTHER -> Keep(s, c)

(* A round of the loop.  The LF of a continuation by CRLF is passed over.  *)
Round(s, c) ==
  LET r == [s EXCEPT !.skipLf = FALSE]
  IN IF s.skipLf /\ c = "LF" THEN r
     ELSE IF s.escaping THEN Escaped(r, c) ELSE Unescaped(r, c)

Parse(file) == Commit(FoldLeft(Round, Start, file)).deps

-----------------------------------------------------------------------------
(* What a compiler writes (external).  A $ is doubled and a backslash      *)
(* written as it is; zmm_dep_parse undoes neither, and the names have none.*)

EscapedName(name, special) ==
  FlattenSeq([i \in DOMAIN name |->
    IF name[i] \in special THEN <<"\\", name[i]>> ELSE <<name[i]>>])

Prerequisite(name) == EscapedName(name, {" ", "#"})
TargetText(name) == EscapedName(name, {" ", "#", ":"})

(* target: first gap second gap ... end of line, and with -MP an empty rule*)
(* for each prerequisite but the first.                                    *)
Written(names, gap, lineEnd, phony) ==
  LET rule(n) == TargetText(n) \o <<":">> \o lineEnd
      all == [i \in DOMAIN names |->
                (IF i = 1 THEN <<>> ELSE gap) \o Prerequisite(names[i])]
      rules == [i \in 1 .. Len(names) - 1 |-> rule(names[i + 1])]
  IN <<"t", ":", " ">> \o FlattenSeq(all) \o lineEnd
       \o (IF phony THEN FlattenSeq(rules) ELSE <<>>)
==============================================================================
