------------------------------- MODULE Services -------------------------------
(***************************************************************************)
(* What a script and its builders call (build/build.c): the directories of *)
(* their outputs (MakePath), files copied and trees cleaned (FileTree), the*)
(* argument vector of a command (ArgvBuilder), the entry for it in         *)
(* compile_commands.json (CompileCommands), and printing it (Printer); and *)
(* the front end that compiles and starts the script (CliRebuild).  These  *)
(* share no state, so that a step of one changes nothing another can see: a*)
(* behaviour is one of `service', and the others stay as they began.       *)
(***************************************************************************)
EXTENDS Integers, Sequences, FiniteSets

CONSTANTS
  Thread,                        \* that print, append, make and delete
  FlushCap, LineCap, Messages,   \* Printer
  Char, Texts,                   \* ArgvBuilder: texts are sequences of Char
  BufCap, ArgvCap, PtrSize,
  Name, Target,                  \* MakePath and FileTree
  Source, Exe, Command,          \* CliRebuild
  MaxPrints, MaxAppends, MaxArgvCalls, MaxDepth, MaxClock   \* bounds

VARIABLES
  service,
  pc, blocks, flushBuf, line, lineCap, begun, mutex, out, printed, calls, spans,
  buf, bufCap, block, argv, argvCap, argvRoom, undefined, failed, partial, given,
  argvCalls,
  ccPc, main, lock, ccBuf, file, count, log, appended,
  disk, denied, want, at, status,
  tree, fixed, dry, job, open, result, orig,
  clock, there, changed, config, made, mainAt, cfg, since, code

P == INSTANCE Printer WITH MaxCalls <- MaxPrints
A == INSTANCE ArgvBuilder WITH MaxCalls <- MaxArgvCalls, calls <- argvCalls
C == INSTANCE CompileCommands WITH Builder <- Thread, pc <- ccPc, buf <- ccBuf
M == INSTANCE MakePath
T == INSTANCE FileTree
R == INSTANCE CliRebuild WITH at <- mainAt

(* Lengths and capacities are unsigned; what is appended are C strings.    *)
ASSUME PrinterAssumption == FlushCap \in Nat /\ Messages \subseteq Seq(Nat)
ASSUME ArgvAssumption ==
  /\ A!Nul \notin Char /\ Texts \subseteq Seq(Char)
  /\ BufCap \in Nat /\ ArgvCap \in Nat
ASSUME DepthAssumption == MaxDepth \in Nat

(* Links lead to a directory at the top, and it is not the only one there. *)
ASSUME TargetAssumption ==
  /\ \E n \in Name : Target = <<n>>
  /\ \E n \in Name : <<n>> # Target

(* A config names an executable that is none of the files that are edited: *)
(* compiling would overwrite that file, and an edit pass for a compilation.*)
ASSUME ExeAssumption == Exe \cap (Source \cup {".zmm"}) = {}

printVars == <<pc, blocks, flushBuf, line, lineCap, begun, mutex, out, printed,
               calls, spans>>
argvVars == <<buf, bufCap, block, argv, argvCap, argvRoom, undefined, failed,
              partial, given, argvCalls>>
entriesVars == <<ccPc, main, lock, ccBuf, file, count, log, appended>>
pathsVars == <<disk, denied, want, at, status>>

treesVars == <<tree, fixed, dry, job, open, result, orig>>
mainVars == <<clock, there, changed, config, made, mainAt, cfg, since, code>>

vars == <<service, printVars, argvVars, entriesVars, pathsVars, treesVars, mainVars>>

Nothing == {}
NoPaths ==
  /\ disk = Nothing /\ denied = Nothing /\ want = Nothing
  /\ at = Nothing /\ status = Nothing
NoTrees ==
  /\ tree = Nothing /\ fixed = Nothing /\ dry = Nothing /\ job = Nothing
  /\ open = Nothing /\ result = Nothing /\ orig = Nothing
NoMain ==
  /\ clock = Nothing /\ there = Nothing /\ changed = Nothing /\ config = Nothing
  /\ made = Nothing /\ mainAt = Nothing /\ cfg = Nothing /\ since = Nothing
  /\ code = Nothing

(* Everything but the service used is as it began, or is nothing yet.      *)
Begun ==
  /\ P!Init /\ A!Init /\ C!Init
  /\ IF service = "paths" THEN M!Init ELSE NoPaths
  /\ IF service = "trees" THEN T!Init ELSE NoTrees
  /\ IF service = "main" THEN R!Init ELSE NoMain

Service == {"print", "argv", "entries", "paths", "trees", "main"}
Init == service \in Service /\ Begun

PrintBytes ==
  /\ service = "print" /\ P!Next
  /\ UNCHANGED <<service, argvVars, entriesVars, pathsVars, treesVars, mainVars>>

BuildArgv ==
  /\ service = "argv" /\ A!Next
  /\ UNCHANGED <<service, printVars, entriesVars, pathsVars, treesVars, mainVars>>

AppendEntries ==
  /\ service = "entries" /\ C!Next
  /\ UNCHANGED <<service, printVars, argvVars, pathsVars, treesVars, mainVars>>

MakePaths ==
  /\ service = "paths" /\ M!Next
  /\ UNCHANGED <<service, printVars, argvVars, entriesVars, treesVars, mainVars>>

UseTrees ==
  /\ service = "trees" /\ T!Next
  /\ UNCHANGED <<service, printVars, argvVars, entriesVars, pathsVars, mainVars>>

StartScript ==
  /\ service = "main" /\ R!Next
  /\ UNCHANGED <<service, printVars, argvVars, entriesVars, pathsVars, treesVars>>

(* An argument vector may be left as it is at any time.                    *)
Done == service = "argv" /\ UNCHANGED vars

Next ==
  \/ PrintBytes \/ BuildArgv \/ AppendEntries \/ MakePaths \/ UseTrees
  \/ StartScript \/ Done

Spec == Init /\ [][Next]_vars

-----------------------------------------------------------------------------
(* Every byte that zmm_printf and zmm_lprintf format reaches stdout once,  *)
(* and in its thread's order; and what was collected for zmm_lemit, and    *)
(* what one zmm_printf prints short of its buffer, stays together among the*)
(* output of other threads.                                                *)
OutputWhole == P!NothingLost /\ P!KeptTogether

(* compile_commands.json is an array of whole entries, one for each call   *)
(* of zmm_cc_append, at every moment but for its end.                      *)
EntriesWhole == C!EntriesWhole

(* Each entry of argv has the offset of the text that was appended for it, *)
(* at once or in parts, however the buffers grew.                          *)
TextsKept == A!TextsKept

(* Up to the capacities zmm_argvb_initcap was told, the entries stay good. *)
SafeWithinCapacity == A!SafeWithinCapacity

(* What zmm_fs_create_dir_path returns is true, whoever else makes the same*)
(* directories: 0 when they are there (the last of which it takes a file   *)
(* for, if there is one in its place), 1 for a reason that lasts.          *)
StatusHonest == service = "paths" => M!StatusHonest

(* The functions that delete return 0 only when all is gone, whoever else  *)
(* deletes in the same trees; those that copy, when every file is there and*)
(* no fwrite has failed (what a failed read or fclose leaves out they do   *)
(* not tell); and neither touch anything else.                             *)
TreesHonest == service = "trees" => T!TreesHonest

(* main never starts a script compiled by another command, or from an older*)
(* source, than there was when it compared the times.                      *)
RunsCurrent == service = "main" => R!RunsCurrent
===============================================================================
