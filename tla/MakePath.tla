------------------------------- MODULE MakePath -------------------------------
(***************************************************************************)
(* zmm_fs_create_dir_path (src/src/fs.c), called by the builders of several*)
(* threads for the directories of their outputs, which overlap.  One step  *)
(* is one mkdir.  Nobody removes anything meanwhile.                       *)
(*                                                                         *)
(* A path is a sequence of names below a directory that exists.            *)
(***************************************************************************)
EXTENDS Integers, Sequences, FiniteSets, SequencesExt

CONSTANTS
  Thread,
  Name,      \* the names of directories and files
  MaxDepth   \* bound: names in a path

VARIABLES
  disk,      \* path -> "none" | "dir" | "file"
  denied,    \* the paths the operating system refuses to create
  want,      \* thread -> the path it asks for
  at,        \* thread -> names of it already tried
  status     \* thread -> "making", then 0 or 1 as a string

vars == <<disk, denied, want, at, status>>

Path == SeqOf(Name, MaxDepth) \ {<<>>}
Parents(p) == {q \in Path : IsStrictPrefix(q, p)}

(* The states a disk can be in. *)
Tree(d) == \A p \in Path : d[p] # "none" => \A q \in Parents(p) : d[q] = "dir"

Init ==
  /\ disk \in {d \in [Path -> {"none", "dir", "file"}] : Tree(d)}
  /\ denied \in {{}} \cup {{p} : p \in Path}
  /\ want \in [Thread -> Path]
  /\ at = [t \in Thread |-> 0]
  /\ status = [t \in Thread |-> "making"]

(* mkdir (external): what it says, and what it does. *)
Outcome(p) ==
  IF disk[p] # "none" THEN "exists"
  ELSE IF \E q \in Parents(p) : disk[q] # "dir" THEN "no parent"
  ELSE IF p \in denied THEN "refused"
  ELSE "made"

Mkdir(p) == disk' = IF Outcome(p) = "made" THEN [disk EXCEPT ![p] = "dir"] ELSE disk

Prefix(t) == SubSeq(want[t], 1, at[t] + 1)

(* A directory above: what mkdir says is not looked at.                    *)
MakeAbove(t) ==
  /\ status[t] = "making" /\ at[t] + 1 < Len(want[t])
  /\ Mkdir(Prefix(t))
  /\ at' = [at EXCEPT ![t] = @ + 1]
  /\ UNCHANGED <<denied, want, status>>

(* Faulty variant: that another thread was first counts as a failure.      *)
FailedIfNotMade(outcome) == outcome # "made"

Failed(outcome) == outcome \notin {"made", "exists"}

MakeLeaf(t) ==
  /\ status[t] = "making" /\ at[t] + 1 = Len(want[t])
  /\ Mkdir(want[t])
  /\ at' = [at EXCEPT ![t] = @ + 1]
  /\ status' = [status EXCEPT ![t] = IF Failed(Outcome(want[t])) THEN "1" ELSE "0"]
  /\ UNCHANGED <<denied, want>>

Returned == (\A t \in Thread : status[t] # "making") /\ UNCHANGED vars

Next == (\E t \in Thread : MakeAbove(t) \/ MakeLeaf(t)) \/ Returned

Spec == Init /\ [][Next]_vars

-----------------------------------------------------------------------------
(* What zmm_fs_create_dir_path takes for the directory it was to make:     *)
(* mkdir says of a file, too, that it exists.  (mkdir -p fails there.)     *)
FileInPlace(p) == disk[p] = "file"

(* A call that returns 0 has its directory, and all above it, whoever made *)
(* them; or it has all above it, and a file stands in its place.           *)
ZeroMeansThere ==
  \A t \in Thread : status[t] = "0" =>
    /\ \A q \in Parents(want[t]) : disk[q] = "dir"
    /\ disk[want[t]] = "dir" \/ FileInPlace(want[t])

(* A call fails only for a reason that lasts: a file where a directory has *)
(* to be, or a directory that cannot be created; never because another     *)
(* thread was faster.                                                      *)
FailsForAReason ==
  \A t \in Thread : status[t] = "1" =>
    \/ \E q \in Parents(want[t]) : disk[q] = "file"
    \/ \E q \in Parents(want[t]) \cup {want[t]} : q \in denied /\ disk[q] = "none"

StatusHonest == ZeroMeansThere /\ FailsForAReason
==============================================================================
