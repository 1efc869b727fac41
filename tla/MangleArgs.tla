----------------------------- MODULE MangleArgs ------------------------------
(***************************************************************************)
(* mangle_cli_args of the practical templates: the name of the directory   *)
(* that holds the objects compiled with a list of arguments.  An argument  *)
(* is a sequence of characters.                                            *)
(***************************************************************************)
EXTENDS Integers, Sequences, FiniteSets, SequencesExt

(* Characters that the mangling itself writes, and others, with their bytes.*)
Byte == ("%" :> 37) @@ ("5" :> 53) @@ ("F" :> 70) @@ ("_" :> 95) @@ ("a" :> 97)
ArgChar == DOMAIN Byte

(* slice_cmp *)
Before(a, b) ==
  LET Differ == {i \in DOMAIN a \cap DOMAIN b : a[i] # b[i]}
  IN  IF Differ = {} THEN Len(a) < Len(b)
      ELSE LET i == Min(Differ) IN Byte[a[i]] < Byte[b[i]]

Sorted(args) == SortSeq(args, Before)

(* Faulty variant: what separates arguments is not escaped in them.         *)
IsSafeOrSeparator(c) == c \in {"5", "F", "a", "_"}

(* Letters, digits, the dot and the dash. *)
IsSafe(c) == c \in {"5", "F", "a"}

HexChar(v) == <<"0", "1", "2", "3", "4", "5", "6", "7", "8", "9",
                "A", "B", "C", "D", "E", "F">>[v + 1]

Mangled(c) ==
  IF IsSafe(c) THEN <<c>> ELSE <<"%", HexChar(Byte[c] \div 16), HexChar(Byte[c] % 16)>>

(* st.full: the function has returned, for want of room.                    *)
PutChar(st, c, cap) ==
  IF st.full \/ Len(st.out) + Len(Mangled(c)) > cap THEN [st EXCEPT !.full = TRUE]
  ELSE [st EXCEPT !.out = @ \o Mangled(c)]

PutArg(st, arg, cap) == FoldLeft(LAMBDA s, c : PutChar(s, c, cap), st, arg)

PutSeparator(st, cap) ==
  IF st.full \/ Len(st.out) >= cap THEN st ELSE [st EXCEPT !.out = Append(@, "_")]

Default == <<"d", "e", "f", "a", "u", "l", "t">>

MangleCliArgs(args, cap) ==
  IF args = <<>> THEN IF cap >= 7 THEN Default ELSE <<>>
  ELSE LET sorted == Sorted(args)
       IN  FoldLeft(LAMBDA st, arg : PutArg(PutSeparator(st, cap), arg, cap),
                    PutArg([out |-> <<>>, full |-> FALSE], Head(sorted), cap),
                    Tail(sorted)).out

-----------------------------------------------------------------------------
(* Reference: the arguments that a name tells.  tail: a percent sign and what*)
(* of its digits has been read.                                             *)
Add(args, c) == [args EXCEPT ![Len(args)] = Append(@, c)]

Read(st, c) ==
  IF Len(st.tail) = 2
  THEN [args |-> Add(st.args, CHOOSE x \in ArgChar : Mangled(x) = Append(st.tail, c)),
        tail |-> <<>>]
  ELSE IF st.tail # <<>> \/ c = "%" THEN [st EXCEPT !.tail = Append(@, c)]
  ELSE IF c = "_" THEN [st EXCEPT !.args = Append(@, <<>>)]
  ELSE [st EXCEPT !.args = Add(@, c)]

ArgsTold(name) == FoldLeft(Read, [args |-> << <<>> >>, tail |-> <<>>], name).args

Enough(args) == 7 + 4 * Len(FlattenSeq(args)) + Len(args)

TellsArgs(args) ==
  LET whole == MangleCliArgs(args, Enough(args))
  IN  /\ args # <<>> => ArgsTold(whole) = Sorted(args)
      /\ \A cap \in 0 .. Enough(args) :
           LET name == MangleCliArgs(args, cap)
           IN  Len(name) <= cap /\ IsPrefix(name, whole)
=============================================================================
