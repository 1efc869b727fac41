------------------------------- MODULE TextOps --------------------------------
(***************************************************************************)
(* The text operations of src/src on their inputs: paths (path.c), the     *)
(* digits and the formats of the print functions (print.c), dependency     *)
(* files (dep.c), the readers of compile_commands.json (cc.c) and of .zmm  *)
(* (cli/main.c), the search for files (fs.c), the command lines of sys.c,  *)
(* and the templates' directory for a list of arguments.  A behaviour     *)
(* chooses an operation and grows an input for it, an item at a time; every*)
(* state is an input.                                                      *)
(***************************************************************************)
EXTENDS Integers, Sequences, FiniteSets, SequencesExt

CONSTANTS
  MaxPath, MaxPart, MaxParts,       \* bounds: of a path, of a part, of a join
  MaxNumber,                        \* bound: the last number
  MaxPieces,                        \* bound: pieces of a format
  MaxNames,                         \* bound: prerequisites
  MaxText, MaxFields,               \* bounds: of a string; fields of an object
  MaxArgs, MaxArg,                  \* bounds: arguments, and of one
  MaxEntries                        \* bound: entries of a tree

P == INSTANCE Paths
D == INSTANCE PrintDigits WITH Width <- 13, IntWidth <- 6, Scale <- 1000
F == INSTANCE PrintFormat
M == INSTANCE DepParse
C == INSTANCE CommandParser
Z == INSTANCE CliConfig
L == INSTANCE CommandLine
G == INSTANCE MangleArgs
T == INSTANCE FindFiles

VARIABLE input

vars == <<input>>

Of(op) == input.op = op
Shorter(bound) == Len(input.of) < bound
Grown(item) == input' = [input EXCEPT !.of = Append(@, item)]

-----------------------------------------------------------------------------
(* What the inputs are made of.                                            *)

PathChar == {"a", ".", "/"}
Parts == {part \in SeqOf(PathChar, MaxPart) : ~ P!DoubleSlash(part)}

(* The specifiers print.h lists, each with what it should show; literals   *)
(* that could run into them; escapes, precisions, and one not listed.      *)
Specifiers == {
  <<"i", "8">>, <<"i", "1", "6">>, <<"i", "3", "2">>, <<"i", "6", "4">>,
  <<"u", "8">>, <<"u", "1", "6">>, <<"u", "3", "2">>, <<"u", "6", "4">>,
  <<"u", "s", "z">>, <<"s", "s", "z">>, <<"s", "z">>,
  <<"s">>, <<"c">>, <<"d">>, <<"x">>, <<"p">>, <<"b">>, <<"f">> }

Piece(text, shows) == [text |-> text, shows |-> shows]
Specified(spec, precision) == <<[conversion |-> spec, precision |-> precision]>>

Pieces ==
  { Piece(<<"%">> \o s, Specified(s, IF s = <<"f">> THEN 6 ELSE 0)) : s \in Specifiers }
  \cup { Piece(l, l) : l \in {<<"a">>, <<"z">>, <<"s", "z">>, <<"8">>, <<".", "1">>} }
  \cup { Piece(<<"%", "%">>, <<"%">>), Piece(<<"%", "q">>, <<"%", "q">>),
         Piece(<<"%", ".", "2", "f">>, Specified(<<"f">>, 2)),
         Piece(<<"%", ".", "1", "0", "f">>, Specified(<<"f">>, 10)) }

Names == {<<"a">>, <<"c">>, <<"a", " ", "b">>, <<"#", "b">>, <<"a", ":">>}
Layouts ==
  [gap : {<<" ">>, <<" ", " ">>, <<" ", "\\", "LF", " ">>,
          <<" ", "\\", "CR", "LF", " ">>},
   lineEnd : {<<>>, <<"LF">>, <<"CR", "LF">>},
   phony : BOOLEAN]

Words == {<<>>, <<"n">>, <<"\\", "n">>, <<"\"", "x">>}
Text == {"n", "\n", "\\", "\""}

(* Values of types that a field, or an element, is not expected to have.   *)
Foreign == { [object |-> <<"n">>], [list |-> << <<"n">>, <<"x">> >>],
             [string |-> C!ArgumentsKey], [number |-> TRUE] }

Strings == { [string |-> w] : w \in Words }
Lists == { [list |-> l] : l \in SeqOf(Words, 2) }
OtherKey == <<"O">>
Fields ==
  ({C!DirectoryKey, C!FileKey} \X Strings)
  \cup ({C!ArgumentsKey} \X (Lists \cup (Foreign \ { [list |-> << <<"n">>, <<"x">> >>] })))
  \cup ({OtherKey} \X Foreign)

(* Fields of a .zmm; insides that would be taken for fields.               *)
Inside == [nested |-> << <<Z!ExeKey, [string |-> <<"x">>]>>,
                         <<Z!SourcesKey, [list |-> << <<"n">> >>]>> >>]
Items == {[string |-> <<"n">>], [string |-> Z!ExeKey], [list |-> << <<"x">> >>],
          [number |-> TRUE]}
ConfigFields ==
  ({Z!ExeKey, Z!CompileKey} \X (Strings \cup {[number |-> TRUE], Inside}))
  \cup ({Z!SourcesKey} \X ({ [items |-> l] : l \in SeqOf(Items, 2) }
                            \cup {Inside, [string |-> Z!ExeKey]}))
  \cup ({OtherKey} \X {Inside, [items |-> <<[string |-> Z!ExeKey]>>],
                         [string |-> Z!SourcesKey], [number |-> TRUE]})
OrdinaryConfig == << <<Z!CompileKey, [string |-> <<"g">>]>>,
                     <<Z!SourcesKey, [items |-> <<[string |-> <<"f">>]>>]>> >>

(* Arguments of a command, and of a script.                                *)
ArgTexts == SeqOf({"a", " ", "\"", "\\"}, MaxArg)
ScriptArgs == SeqOf(G!ArgChar, 2)

(* A source, a name that is hidden, and one without an extension.          *)
EntryNames == {<<"a", ".", "c">>, <<".", "g">>, <<"d">>}
EntryKinds == {"file", "dir", "locked", "dangling"}

Ordinary ==
  [fields |-> << <<C!DirectoryKey, [string |-> <<"d">>]>>,
                 <<C!ArgumentsKey, [list |-> << <<"g">>, <<"n">> >>]>>,
                 <<C!FileKey, [string |-> <<"f">>]>> >>]

(* A string grown, as a file and as an argument; and an element grown,     *)
(* before an ordinary one, with or without one of no meaning between them. *)
WithText ==
  << [fields |-> << <<C!FileKey, [string |-> input.of]>>,
                    <<C!ArgumentsKey, [list |-> <<input.of>>]>> >>] >>
None == [none |-> TRUE]
WithFields ==
  << [fields |-> input.of] >>
  \o (IF input.with = None THEN <<>> ELSE << input.with >>) \o << Ordinary >>

-----------------------------------------------------------------------------
Init ==
  \/ \E op \in {"path", "join", "format", "text", "config", "argv", "args", "find"} : input = [op |-> op, of |-> <<>>]
  \/ \E places \in 1 .. 2 : input = [op |-> "number", of |-> 0, with |-> places]
  \/ \E l \in Layouts, n \in Names :
       (l.phony => l.lineEnd # <<>>) /\ input = [op |-> "names", of |-> <<n>>, with |-> l]
  \/ \E e \in {None} \cup { f \in Foreign : ~ C!Has(f, "object") } :
       input = [op |-> "fields", of |-> <<>>, with |-> e]

GrowPath == Of("path") /\ Shorter(MaxPath) /\ \E c \in PathChar : Grown(c)
AddPart == Of("join") /\ Shorter(MaxParts) /\ \E p \in Parts : Grown(p)
AddPiece == Of("format") /\ Shorter(MaxPieces) /\ \E p \in Pieces : Grown(p)
AddName == Of("names") /\ Shorter(MaxNames) /\ \E n \in Names : Grown(n)
GrowText == Of("text") /\ Shorter(MaxText) /\ \E c \in Text : Grown(c)
AddField == Of("fields") /\ Shorter(MaxFields) /\ \E f \in Fields : Grown(f)
AddConfigField ==
  Of("config") /\ Shorter(MaxFields) /\ \E f \in ConfigFields : Grown(f)
NextNumber ==
  /\ Of("number") /\ input.of < MaxNumber
  /\ input' = [input EXCEPT !.of = @ + 1]

AddArg == Of("argv") /\ Shorter(MaxArgs) /\ \E a \in ArgTexts : Grown(a)
AddScriptArg == Of("args") /\ Shorter(MaxArgs) /\ \E a \in ScriptArgs : Grown(a)
AddEntry ==
  /\ Of("find") /\ Cardinality(DOMAIN input.of) < MaxEntries
  /\ \E dir \in {d \in {<<>>} \cup DOMAIN input.of : T!IsDir(input.of, d)},
        name \in EntryNames, kind \in EntryKinds :
       /\ Append(dir, name) \notin DOMAIN input.of
       /\ input' = [input EXCEPT !.of = @ @@ (Append(dir, name) :> kind)]

Next ==
  \/ GrowPath \/ AddPart \/ AddPiece \/ AddName \/ GrowText \/ AddField
  \/ AddConfigField \/ NextNumber \/ AddArg \/ AddScriptArg \/ AddEntry

Spec == Init /\ [][Next]_vars

-----------------------------------------------------------------------------
(* zmm_p_ext, zmm_p_strip_ext, zmm_p_stem and zmm_p_is_hidden agree on     *)
(* where a path's name begins and where its extension does; and for        *)
(* zmm_p_join_arr, joining relative parts is writing them one behind the   *)
(* other, each without its "./", and every run of slashes once.            *)
PathsAsWritten ==
  /\ Of("path") => P!PartsAgree(input.of)
  /\ Of("join") => P!JoinsAsWritten(input.of)

(* format_u64, format_i64, format_hex: every integer is shown exactly, the *)
(* smallest one too; format_f64 rounds half up, where that does not carry  *)
(* into the integer.  zmm_vformat shows each piece of a format as it would *)
(* alone, whatever stands next to it, but for a StringView before a literal*)
(* z; and zmm_snprintf writes what there is room for, and says how much.   *)
PrintedAsAsked ==
  /\ Of("number") =>
       D!ShownExactly(input.of) /\ D!RoundedUnlessCarried(input.of, input.with)
  /\ Of("format") => F!PiecesShown(input.of) /\ F!NeverBeyond(input.of)

(* zmm_dep_parse gives back the prerequisites a compiler wrote: names with *)
(* blanks, colons and hashes, over continued lines with either line end,   *)
(* with and without the rules of -MP.                                      *)
DepsReadBack ==
  Of("names") =>
    M!Parse(M!Written(input.of, input.with.gap, input.with.lineEnd, input.with.phony))
      = input.of

(* zmm_cc_parse gives back what was written, in order and to the letter:   *)
(* the text of a string, and the fields of an object, among values of types*)
(* it does not expect; and the arguments fit the block measured for them.  *)
(* parse_zmm_config reads what a config says, among values it does not     *)
(* expect, if the executable and the command are no objects or arrays.     *)
JsonReadBack ==
  /\ Of("text") \/ Of("fields") =>
       C!ReadBack(IF Of("text") THEN WithText ELSE WithFields)
  /\ Of("config") =>
       \A config \in {input.of, input.of \o OrdinaryConfig} : Z!ConfigReadBack(config)

(* The _flat functions and build_win32_cmdline: a program gets the arguments*)
(* of the vector, empty ones and blanks included; on Windows exactly if none*)
(* holds a quote, and none that is quoted ends in a backslash.             *)
ArgumentsReachProgram == Of("argv") => L!ReachProgram(input.of)

(* mangle_cli_args: a directory of objects belongs to one list of arguments*)
(* only, in whatever order they are given, unless its name was cut for want*)
(* of room; and it is never longer than the buffer.                        *)
DirectoryTellsArgs == Of("args") => G!TellsArgs(input.of)

(* zmm_fs_find finds each file, or directory, that it is asked for once, in*)
(* trees with hidden entries, links that lead nowhere and directories that *)
(* cannot be read; and nothing else.                                       *)
FindsEachOnce == Of("find") => T!FindsEachOnce(input.of, {<<>>, <<".", "c">>})
===============================================================================
