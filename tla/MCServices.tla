------------------------------ MODULE MCServices ------------------------------
(***************************************************************************)
(* Services for TLC, with small constants, and beside them the operations  *)
(* on texts and trees that are functions of their input (TextOps): they are*)
(* one more service.                                                       *)
(***************************************************************************)
EXTENDS Services, TLC

VARIABLE input

X == INSTANCE TextOps
       WITH MaxPath <- 6, MaxPart <- 3, MaxParts <- 3, MaxNumber <- 8191,
            MaxPieces <- 3, MaxNames <- 3, MaxText <- 4, MaxFields <- 2,
            MaxArgs <- 2, MaxArg <- 3, MaxEntries <- 3

(* Blocks below, at and above the 3 bytes of zmm_printf's buffer and the 2 *)
(* of a line's, alone and one after another.                               *)
SomeMessages == {<<1, 1>>, <<1, 3>>, <<5>>}

(* The empty argument, a short one and one that fills the first buffer.    *)
SomeTexts == {<<>>, <<"a">>, <<"a", "b", "c">>}

LinkTarget == <<"b">>

-----------------------------------------------------------------------------
(* The threads of a service are interchangeable. *)
ThreadSymmetry == Permutations(Thread)

MCInit ==
  /\ service \in Service \cup {"text"} /\ Begun
  /\ IF service = "text" THEN X!Init ELSE input = Nothing

UseService == Next /\ UNCHANGED input
UseText == service = "text" /\ X!Next /\ UNCHANGED vars

(* An input may be left as it is at any time. *)
Kept == service = "text" /\ UNCHANGED <<vars, input>>

MCNext == UseService \/ UseText \/ Kept

MCSpec == MCInit /\ [][MCNext]_<<vars, input>>

-----------------------------------------------------------------------------
(* zmm_p_strip_ext and zmm_p_stem agree on where a path's name begins;     *)
(* zmm_p_ext and zmm_p_strip_ext on where its extension does, exactly but  *)
(* for names without one in directories with one; zmm_p_is_hidden and      *)
(* zmm_p_ext on what is hidden and what an extension; and for              *)
(* zmm_p_join_arr, joining relative parts is writing them one behind the   *)
(* other, each without its "./", and every run of slashes once.            *)
PathsAsWritten == service = "text" => X!PathsAsWritten

(* format_u64, format_i64, format_hex: every integer is shown exactly, the *)
(* smallest one too; format_f64 rounds half up, where that does not carry  *)
(* into the integer.  zmm_vformat shows each piece of a format as it would *)
(* alone, whatever stands next to it, but for a StringView before a literal*)
(* z; and zmm_snprintf writes what there is room for, and says how much.   *)
PrintedAsAsked == service = "text" => X!PrintedAsAsked

(* zmm_dep_parse gives back the prerequisites a compiler wrote: names with *)
(* blanks, colons and hashes, over continued lines with either line end,   *)
(* with and without the rules of -MP.                                      *)
DepsReadBack == service = "text" => X!DepsReadBack

(* zmm_cc_parse gives back what was written, in order and to the letter:   *)
(* the text of a string, and the fields of an object, among values of types*)
(* it does not expect; and the arguments fit the block measured for them.  *)
(* parse_zmm_config reads what a config says, among values it does not     *)
(* expect, if the executable and the command are no objects or arrays.     *)
JsonReadBack == service = "text" => X!JsonReadBack

(* The _flat functions and build_win32_cmdline: a program gets the arguments*)
(* of the vector, empty ones and blanks included; on Windows exactly if none*)
(* holds a quote, and none that is quoted ends in a backslash.             *)
ArgumentsReachProgram == service = "text" => X!ArgumentsReachProgram

(* mangle_cli_args: a directory of objects belongs to one list of arguments*)
(* only, in whatever order they are given, unless its name was cut for want*)
(* of room; and it is never longer than the buffer.                        *)
DirectoryTellsArgs == service = "text" => X!DirectoryTellsArgs

(* zmm_fs_find finds each file, or directory, that it is asked for once, in*)
(* trees with hidden entries, links that lead nowhere and directories that *)
(* cannot be read; and nothing else.                                       *)
FindsEachOnce == service = "text" => X!FindsEachOnce
===============================================================================
