--------------------------- MODULE CompileCommands ---------------------------
(***************************************************************************)
(* The writer of compile_commands.json (src/src/cc.c): builders in several *)
(* threads call zmm_cc_append, each for the commands it runs; the script   *)
(* calls zmm_cc_finish when zmm_bg_exec has returned.  cc->buf and the file*)
(* are shared, and zmm_cc_finish takes no lock.                            *)
(*                                                                         *)
(* What is written are pieces: brackets, separators, and the three fields  *)
(* of an entry.  The text of a field and its way back through the parser   *)
(* are in CommandParser.                                                   *)
(***************************************************************************)
EXTENDS Integers, Sequences, FiniteSets, SequencesExt

CONSTANTS
  Builder,    \* the threads
  MaxAppends  \* bound: appends of one thread

VARIABLES
  pc,         \* builder -> where its zmm_cc_append is
  main,       \* "building" | "finishing" | "finished"
  lock,       \* cc->lock: its holder, or {}
  buf, file,  \* cc->buf; what fwrite was given
  count,      \* cc->count
  log,        \* history: the entries, in the order their calls got the lock
  appended    \* builder -> appends begun, capped by MaxAppends

vars == <<pc, main, lock, buf, file, count, log, appended>>

(* The pieces, as tuples: two of punctuation and the fields of entries.    *)
Opening == <<"[">>
Comma == <<",">>
Closing == <<"]">>
Entry(b) == <<b, appended[b]>>
Field(b, name) == Append(Entry(b), name)

(* zmm_cc_init has written the opening bracket. *)
Init ==
  /\ pc = [b \in Builder |-> "idle"]
  /\ main = "building"
  /\ lock = {}
  /\ buf = <<>>
  /\ file = <<Opening>>
  /\ count = 0
  /\ log = <<>>
  /\ appended = [b \in Builder |-> 0]

Goto(b, from, to) == pc[b] = from /\ pc' = [pc EXCEPT ![b] = to]

(* A builder calls zmm_cc_append. *)
Call(b) ==
  /\ main = "building" /\ appended[b] < MaxAppends
  /\ Goto(b, "idle", "enter")
  /\ appended' = [appended EXCEPT ![b] = @ + 1]
  /\ UNCHANGED <<main, lock, buf, file, count, log>>

(* Faulty variant: the lock is not waited for.                             *)
LockAnyway(b) ==
  /\ Goto(b, "enter", "separator")
  /\ lock' = {b}
  /\ log' = Append(log, Entry(b))
  /\ UNCHANGED <<main, buf, file, count, appended>>

Lock(b) ==
  /\ lock = {}
  /\ Goto(b, "enter", "separator")
  /\ lock' = {b}
  /\ log' = Append(log, Entry(b))
  /\ UNCHANGED <<main, buf, file, count, appended>>

Put(b, from, to, pieces) ==
  /\ Goto(b, from, to)
  /\ buf' = buf \o pieces
  /\ UNCHANGED <<main, lock, file, count, log, appended>>

(* Each entry but the first begins by separating it from the one before.   *)
Separate(b) ==
  Put(b, "separator", "directory", IF count > 0 THEN <<Comma>> ELSE <<>>)

PutDirectory(b) == Put(b, "directory", "file", <<Field(b, "directory")>>)
PutFile(b) == Put(b, "file", "arguments", <<Field(b, "file")>>)
PutArguments(b) == Put(b, "arguments", "count", <<Field(b, "arguments")>>)

Count(b) ==
  /\ Goto(b, "count", "flush")
  /\ count' = count + 1
  /\ UNCHANGED <<main, lock, buf, file, log, appended>>

(* ob_flush. *)
Flush(b) ==
  /\ Goto(b, "flush", "unlock")
  /\ file' = file \o buf
  /\ buf' = <<>>
  /\ UNCHANGED <<main, lock, count, log, appended>>

Unlock(b) ==
  /\ Goto(b, "unlock", "idle")
  /\ lock' = {}
  /\ UNCHANGED <<main, buf, file, count, log, appended>>

(* zmm_cc_finish, by a script whose builders have returned. *)
FinishPut ==
  /\ main = "building" /\ \A b \in Builder : pc[b] = "idle"
  /\ main' = "finishing"
  /\ buf' = Append(buf, Closing)
  /\ UNCHANGED <<pc, lock, file, count, log, appended>>

FinishFlush ==
  /\ main = "finishing"
  /\ main' = "finished"
  /\ file' = file \o buf
  /\ buf' = <<>>
  /\ UNCHANGED <<pc, lock, count, log, appended>>

Finished == main = "finished" /\ UNCHANGED vars

AppendStep(b) ==
  \/ Lock(b) \/ Separate(b)
  \/ PutDirectory(b) \/ PutFile(b) \/ PutArguments(b)
  \/ Count(b) \/ Flush(b) \/ Unlock(b)

Next ==
  \/ \E b \in Builder : Call(b) \/ AppendStep(b)
  \/ FinishPut \/ FinishFlush \/ Finished

Spec == Init /\ [][Next]_vars

-----------------------------------------------------------------------------
Names == <<"directory", "file", "arguments">>

(* The n-th piece of the array of these entries: each entry is a bracket   *)
(* or a separator, and its fields.                                         *)
Piece(entries, n) ==
  LET field == (n - 1) % 4 IN
  CASE n = 1 -> Opening
    [] n > 1 /\ field = 0 -> Comma
    [] field > 0 -> Append(entries[(n - 1) \div 4 + 1], Names[field])

(* The array, without its closing bracket. *)
Rendered(entries) ==
  [n \in 1 .. IF entries = <<>> THEN 1 ELSE 4 * Len(entries) |-> Piece(entries, n)]

(* At every moment what was written, the buffer included, is the beginning *)
(* of an array of whole entries, none mixed with another, one for each     *)
(* call; and the finished file is that array.                              *)
EntriesWhole ==
  /\ main # "finished" => IsPrefix(file \o buf, Append(Rendered(log), Closing))
  /\ main = "finished" => file = Append(Rendered(log), Closing)
==============================================================================
