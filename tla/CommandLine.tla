----------------------------- MODULE CommandLine -----------------------------
(***************************************************************************)
(* How the arguments of a command reach sys.c and, on Windows, the program:*)
(* the walk of the _flat functions over a buffer of terminated texts, and  *)
(* the command line of build_win32_cmdline.  How a program takes a command *)
(* line apart is that of the runtime it is built with (external): blanks   *)
(* separate outside of quotes; a quote behind an even number of backslashes*)
(* opens or closes, behind an odd number it is a character; and backslashes*)
(* count half before a quote, and for themselves elsewhere.                *)
(***************************************************************************)
EXTENDS Integers, Sequences, FiniteSets, SequencesExt, FiniteSetsExt

Nul == "nul"
Blank == {" ", "tab"}

(* zmm_sys_exec_flat: the texts begin one behind the other, each behind the *)
(* end of the one before.                                                   *)
StrEnd(buf, i) == Min({j \in i .. Len(buf) : buf[j] = Nul})

Walk(buf, num) ==
  LET At[k \in 0 .. num] == IF k = 0 THEN 1 ELSE StrEnd(buf, At[k - 1]) + 1
  IN  [k \in 1 .. num |-> SubSeq(buf, At[k - 1], StrEnd(buf, At[k - 1]) - 1)]

(* The buffer of an argument vector (ArgvBuilder). *)
Flat(args) == FlattenSeq([k \in DOMAIN args |-> Append(args[k], Nul)])

(* Faulty variant: the empty argument is written as nothing. *)
NeedsQuotesForBlank(arg) == \E j \in DOMAIN arg : arg[j] \in Blank

NeedsQuotes(arg) == arg = <<>> \/ \E j \in DOMAIN arg : arg[j] \in Blank

Quoted(arg) == IF NeedsQuotes(arg) THEN <<"\"">> \o arg \o <<"\"">> ELSE arg

(* build_win32_cmdline *)
Cmdline(args) ==
  FlattenSeq([k \in DOMAIN args |-> (IF k > 1 THEN <<" ">> ELSE <<>>) \o Quoted(args[k])])

-----------------------------------------------------------------------------
(* The program's runtime.  `arg' is the argument begun, `open' whether one   *)
(* is, `run' the number of backslashes just read.                           *)
Slashes(n) == [i \in 1 .. n |-> "\\"]

Close(st) == IF st.open THEN Append(st.args, st.arg \o Slashes(st.run)) ELSE st.args

ReadChar(st, c) ==
  CASE c = "\\" -> [st EXCEPT !.run = @ + 1, !.open = TRUE]
    [] c = "\"" ->
         LET half == st.arg \o Slashes(st.run \div 2)
         IN  IF st.run % 2 = 1 THEN [st EXCEPT !.arg = Append(half, c), !.run = 0]
             ELSE [st EXCEPT !.arg = half, !.run = 0, !.open = TRUE, !.quoted = ~ @]
    [] c \in Blank /\ ~ st.quoted ->
         [args |-> Close(st), arg |-> <<>>, open |-> FALSE, quoted |-> FALSE, run |-> 0]
    [] OTHER -> [st EXCEPT !.arg = @ \o Append(Slashes(st.run), c), !.run = 0, !.open = TRUE]

ArgsRead(line) ==
  Close(FoldLeft(ReadChar,
          [args |-> <<>>, arg |-> <<>>, open |-> FALSE, quoted |-> FALSE, run |-> 0], line))

(* A backslash before the quote that is to close an argument escapes it.    *)
Plain(arg) ==
  /\ ~ Contains(arg, "\"")
  /\ NeedsQuotes(arg) => ~ IsSuffix(<<"\\">>, arg)

ReachProgram(args) ==
  /\ Walk(Flat(args), Len(args)) = args
  /\ ArgsRead(Cmdline(args)) = args <=> \A k \in DOMAIN args : Plain(args[k])
=============================================================================
