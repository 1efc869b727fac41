------------------------------- MODULE FileTree -------------------------------
(***************************************************************************)
(* Deleting and copying files and trees (zmm_fs_delete_*, zmm_fs_copy_* of *)
(* src/src/fs.c).  Trees that overlap are deleted by several threads at    *)
(* once; or one thread copies.  A step is one entry of a directory, or the *)
(* end of one; the recursion of the code is a stack of open directories.   *)
(*                                                                         *)
(* A path is a sequence of names.  A symbolic link leads to Target.        *)
(***************************************************************************)
EXTENDS Integers, Sequences, FiniteSets, SequencesExt, FiniteSetsExt

CONSTANTS
  Thread,
  Name,       \* the names of files and directories
  Target      \* the directory that links lead to

VARIABLES
  tree,       \* path -> "none", "dir", "link" or the content of a file
  fixed,      \* paths where nothing can be written, made or removed
  dry,        \* fs_dry_delete
  job,        \* thread -> what it was called to do
  open,       \* thread -> its open directories, the innermost last
  result,     \* thread -> "none" before its call, "busy", then "0" or "1"
  orig        \* tree as it was at first (only the properties read it)

vars == <<tree, fixed, dry, job, open, result, orig>>

(* What a file holds: all it should, nothing, or what there was up to a     *)
(* write that failed (cut), a write at the closing of the file that failed  *)
(* (lost), or a read that failed (short).                                   *)
Content == {"text", "empty", "cut", "lost", "short"}
Other == CHOOSE a \in Name : <<a>> # Target

(* Paths up to the third level, and a fourth for what is copied from there.*)
Deep == <<Other, Other, Other>>
Path ==
  (SeqOf(Name, 3) \ {<<>>}) \cup {Target \o <<n, Other, Other>> : n \in Name}
Parent(p) == SubSeq(p, 1, Len(p) - 1)
Below(p) == {q \in DOMAIN tree : IsPrefix(p, q)}

-----------------------------------------------------------------------------
(* The file system (external).                                             *)

(* Where a path leads, links followed; a link does not lead to another.    *)
Leads(d, p) ==
  LET links == {k \in 1 .. Len(p) : d[SubSeq(p, 1, k)] = "link"}
  IN IF links = {} THEN p ELSE Target \o SubSeq(p, Min(links) + 1, Len(p))
Resolve(p) == Leads(tree, p)

(* What remove and rmdir act on: the last name is not followed.            *)
Named(d, p) == Append(Leads(d, Parent(p)), p[Len(p)])
Itself(p) == Named(tree, p)

Kind(p) == tree[Resolve(p)]
Entries(p) == {n \in Name : Append(p, n) \in DOMAIN tree /\ tree[Itself(Append(p, n))] # "none"}
Full(q) == \E n \in Name : Append(q, n) \in DOMAIN tree /\ tree[Append(q, n)] # "none"

(* A path through what is no directory (ENOTDIR).                          *)
Blocked(d, q) == \E k \in 1 .. Len(q) - 1 : d[SubSeq(q, 1, k)] \in Content

(* remove, and rmdir: a path that is not there (ENOENT) counts as removed, *)
(* one that leads through a file does not.                                 *)
RemoveFails(q) ==
  \/ Blocked(tree, q)
  \/ tree[q] # "none" /\ (q \in fixed \/ Full(q))
RmdirFails(q) == RemoveFails(q) \/ tree[q] \in Content \cup {"link"}
Without(q, fails) == IF fails THEN tree ELSE [tree EXCEPT ![q] = "none"]

(* fopen for writing. *)
CanWrite(q) ==
  /\ q \notin fixed /\ tree[q] # "dir"
  /\ Len(q) > 1 => tree[Parent(q)] = "dir"

(* zmm_fs_create_dir_path, alone (MakePath has the steps); its result is   *)
(* not looked at.  It makes what is missing behind a directory, up to the  *)
(* first name it cannot make.                                              *)
WithDirs(p) ==
  LET upTo(k) == SubSeq(p, 1, k)
      free(k) == tree[upTo(k)] = "none" /\ upTo(k) \notin fixed
      made(k) == \E j \in 1 .. k :
                   /\ j > 1 => tree[upTo(j - 1)] = "dir"
                   /\ \A i \in j .. k : free(i)
  IN  [q \in DOMAIN tree |->
         IF \E k \in 1 .. Len(p) : q = upTo(k) /\ made(k) THEN "dir" ELSE tree[q]]

-----------------------------------------------------------------------------
(* What threads are called to do, beside Target; copies go to it or into it.*)
Deletions == [op : {"delete file", "delete dir", "delete tree"},
              path : {<<Other>>, <<Other, Other>>}]
Copies == [op : {"copy file", "copy dir", "copy tree"},
           path : {<<Other>>},
           dst : {Target} \cup {Append(Target, n) : n \in Name}]

(* Trees of two levels, with or without one file on the third; a link is   *)
(* neither Target nor in it, and a directory has one in it at most that is *)
(* not a file.                                                             *)
Planted == {p \in Path : Len(p) < 3} \cup {Deep}
Trees ==
  LET path == Path
      planted == Planted
      Tree(d) == /\ d[Deep] \in {"none", "text"}
                 /\ \A p \in planted :
                      /\ Len(p) > 1 /\ d[p] # "none" => d[Parent(p)] = "dir"
                      /\ IsPrefix(Target, p) => d[p] # "link"
                      /\ Len(p) = 2 /\ Last(p) # Other => d[p] \in {"none", "text"}
  IN  { [p \in path |-> IF p \in planted THEN d[p] ELSE "none"] :
          d \in { d \in [planted -> {"none", "dir", "link", "text"}] : Tree(d) } }

Init ==
  /\ orig \in Trees /\ tree = orig
  /\ fixed \in {{}} \cup {{p} : p \in Planted}
  /\ \/ /\ dry \in {fixed = {}, FALSE}
        /\ job \in [Thread -> Deletions]
        /\ result = [t \in Thread |-> "none"]
     \/ /\ dry = FALSE /\ \A p \in DOMAIN tree : tree[p] # "link"
        /\ \E t \in Thread, copy \in Copies :
             /\ job = [u \in Thread |-> copy]
             /\ result = [u \in Thread |-> IF u = t THEN "none" ELSE "not called"]
  /\ open = [t \in Thread |-> <<>>]

Op(t) == job[t].op
Called(t, op) == result[t] = "none" /\ Op(t) = op
Returns(t, r) == result' = [result EXCEPT ![t] = r] /\ UNCHANGED open
Status(fails) == IF fails THEN "1" ELSE "0"

(* The innermost open directory, and the one it is in when it is left.     *)
Top(t) == Last(open[t])
Reading(t) == open[t] # <<>>
Rest(t) == Front(open[t])
Opened(t, directory) ==
  /\ open' = [open EXCEPT ![t] = Append(@, directory)]
  /\ result' = [result EXCEPT ![t] = "busy"]

-----------------------------------------------------------------------------
(* Deleting.                                                               *)

Directory(p) == [path |-> p, left |-> Entries(p)]

(* Nothing is touched while deleting is only pretended.                    *)
Pretend(t) ==
  /\ result[t] = "none" /\ dry
  /\ Returns(t, "0")
  /\ UNCHANGED <<tree, fixed, dry, job, orig>>

(* delete_tree_cstr opens what it is called for.                           *)
DeleteTree(t) ==
  /\ Called(t, "delete tree") /\ ~ dry /\ Kind(job[t].path) = "dir"
  /\ Opened(t, Directory(job[t].path))
  /\ UNCHANGED <<tree, fixed, dry, job, orig>>

(* zmm_fs_delete_file and zmm_fs_delete_dir; delete_tree_cstr on what is no*)
(* directory.                                                              *)
DeleteOne(t) ==
  /\ ~ dry
  /\ LET q == Itself(job[t].path)
         fails == IF Op(t) = "delete dir" THEN RmdirFails(q) ELSE RemoveFails(q)
     IN /\ \/ Called(t, "delete file") \/ Called(t, "delete dir")
           \/ Called(t, "delete tree") /\ Kind(job[t].path) # "dir"
        /\ tree' = Without(q, fails)
        /\ Returns(t, Status(fails))
  /\ UNCHANGED <<fixed, dry, job, orig>>

(* An entry: it is opened, or removed where it cannot be.                  *)
DeleteEntry(t) ==
  /\ Reading(t) /\ Op(t) = "delete tree"
  /\ \E n \in Top(t).left :
       LET p == Append(Top(t).path, n)
           rest == Append(Rest(t), [Top(t) EXCEPT !.left = @ \ {n}])
       IN IF Kind(p) = "dir"
          THEN /\ open' = [open EXCEPT ![t] = Append(rest, Directory(p))]
               /\ UNCHANGED tree
          ELSE /\ open' = [open EXCEPT ![t] = rest]
               /\ tree' = Without(Itself(p), RemoveFails(Itself(p)))
  /\ UNCHANGED <<fixed, dry, job, result, orig>>

(* The directory itself; only of the outermost the outcome is looked at.   *)
DeleteEmptied(t) ==
  /\ Reading(t) /\ Op(t) = "delete tree" /\ Top(t).left = {}
  /\ LET q == Itself(Top(t).path) IN
     /\ tree' = Without(q, RmdirFails(q))
     /\ open' = [open EXCEPT ![t] = Rest(t)]
     /\ result' = [result EXCEPT ![t] =
                     IF Rest(t) = <<>> THEN Status(RmdirFails(q)) ELSE @]
  /\ UNCHANGED <<fixed, dry, job, orig>>

-----------------------------------------------------------------------------
(* Copying.                                                                *)

(* copy_file_cstr: opening either may fail, and so may writing.  A         *)
(* directory can be opened, and has nothing to read.  An error while       *)
(* reading looks like the end of the file; one while fclose writes what is *)
(* still buffered is not looked at.                                        *)
CopyFile(src, dst, fails) ==
  IF Kind(src) # "none" /\ CanWrite(Resolve(dst))
  THEN \/ /\ fails = FALSE
          /\ tree' = [tree EXCEPT ![Resolve(dst)] =
                        IF Kind(src) = "dir" THEN "empty" ELSE Kind(src)]
       \/ /\ fails = FALSE /\ Kind(src) = "text"
          /\ \E content \in {"short", "lost"} :
               tree' = [tree EXCEPT ![Resolve(dst)] = content]
       \/ fails = TRUE /\ tree' = [tree EXCEPT ![Resolve(dst)] = "cut"]
  ELSE fails = TRUE /\ UNCHANGED tree

CopyOf(p, dst, failed) ==
  [path |-> p, dst |-> dst, left |-> Entries(p), failed |-> failed]

CopyOne(t) ==
  /\ \/ Called(t, "copy file")
     \/ Called(t, "copy tree") /\ Kind(job[t].path) \in Content
  /\ \E fails \in BOOLEAN :
       CopyFile(job[t].path, job[t].dst, fails) /\ Returns(t, Status(fails))
  /\ UNCHANGED <<fixed, dry, job, orig>>

(* copy_dir_cstr makes the destination before it looks at the source,      *)
(* copy_tree_cstr after it.                                                *)
CopyNothing(t) ==
  /\ \/ Called(t, "copy tree") /\ Kind(job[t].path) = "none" /\ UNCHANGED tree
     \/ /\ Called(t, "copy dir") /\ Kind(job[t].path) # "dir"
        /\ tree' = WithDirs(job[t].dst)
  /\ Returns(t, "1")
  /\ UNCHANGED <<fixed, dry, job, orig>>

CopyDirectory(t) ==
  /\ Called(t, "copy dir") \/ Called(t, "copy tree")
  /\ Kind(job[t].path) = "dir"
  /\ tree' = WithDirs(job[t].dst)
  /\ Opened(t, CopyOf(job[t].path, job[t].dst, FALSE))
  /\ UNCHANGED <<fixed, dry, job, orig>>

(* An entry: a file is copied, a directory is gone into, or left out by    *)
(* copy_dir_cstr.                                                          *)
CopyEntry(t) ==
  /\ Reading(t) /\ Op(t) \in {"copy dir", "copy tree"}
  /\ \E n \in Top(t).left :
       LET p == Append(Top(t).path, n)
           dst == Append(Top(t).dst, n)
           rest == [Top(t) EXCEPT !.left = @ \ {n}]
       IN \/ /\ Kind(p) \in Content
             /\ \E fails \in BOOLEAN :
                  /\ CopyFile(p, dst, fails)
                  /\ open' = [open EXCEPT ![t] =
                       Append(Rest(t), [rest EXCEPT !.failed = @ \/ fails])]
          \/ /\ Kind(p) = "dir" /\ Op(t) = "copy dir"
             /\ open' = [open EXCEPT ![t] = Append(Rest(t), rest)]
             /\ UNCHANGED tree
          \/ /\ Kind(p) = "dir" /\ Op(t) = "copy tree"
             /\ tree' = WithDirs(dst)
             /\ open' = [open EXCEPT ![t] =
                  Append(Rest(t), rest) \o <<CopyOf(p, dst, FALSE)>>]
  /\ UNCHANGED <<fixed, dry, job, result, orig>>

(* Faulty variant: what failed in a directory inside is forgotten.         *)
LeftForgetting(stack) == Front(stack)

(* What failed in a directory failed in the one around it.                 *)
Left(stack) ==
  LET outer == Front(stack) IN
  IF outer = <<>> THEN outer
  ELSE [outer EXCEPT ![Len(outer)].failed = @ \/ Last(stack).failed]

CopyLeave(t) ==
  /\ Reading(t) /\ Op(t) \in {"copy dir", "copy tree"} /\ Top(t).left = {}
  /\ open' = [open EXCEPT ![t] = Left(@)]
  /\ result' = [result EXCEPT ![t] =
                  IF Rest(t) = <<>> THEN Status(Top(t).failed) ELSE @]
  /\ UNCHANGED <<tree, fixed, dry, job, orig>>

Done == (\A t \in Thread : result[t] \notin {"none", "busy"}) /\ UNCHANGED vars

Next ==
  \/ \E t \in Thread :
       \/ Pretend(t) \/ DeleteTree(t) \/ DeleteOne(t) \/ DeleteEntry(t)
       \/ DeleteEmptied(t)
       \/ CopyOne(t) \/ CopyNothing(t) \/ CopyDirectory(t) \/ CopyEntry(t)
       \/ CopyLeave(t)
  \/ Done

Spec == Init /\ [][Next]_vars

-----------------------------------------------------------------------------
(* What the properties say of a call that returned.                        *)

Deletes(t) == job[t] \in Deletions
Copied(t) == result[t] = "0" /\ job[t] \in Copies

(* A deletion that returned 0 has left nothing at its path.                *)
DeletedIsGone ==
  \A t \in Thread :
    Deletes(t) /\ ~ dry /\ result[t] = "0" => tree[Itself(job[t].path)] = "none"

(* delete_tree returns 1 for a reason: a file stood where the path it was  *)
(* called for needs a directory; or in what it could reach there is        *)
(* something that is fixed, or a link to a directory, which is emptied but *)
(* cannot be removed with rmdir; never because another thread was faster,  *)
(* or a link leads nowhere.                                                *)
StaysForAReason ==
  \A t \in Thread :
    (Op(t) = "delete tree" /\ result[t] = "1") =>
      \/ Blocked(orig, Named(orig, job[t].path))
      \/ \E p \in Below(job[t].path) :
           LET q == Named(orig, p) IN
           \/ q \in fixed /\ tree[q] # "none"
           \/ orig[q] = "link" /\ orig[Target] = "dir"

(* Deleting changes nothing but what could be reached from a path it was   *)
(* called for; through a link too.                                         *)
DeletesOnlyBelow ==
  (\A t \in Thread : Deletes(t)) =>
  \A q \in DOMAIN tree : tree[q] # orig[q] =>
      /\ ~ dry /\ tree[q] = "none"
      /\ \E t \in Thread : \E p \in Below(job[t].path) : q = Named(orig, p)

(* A copy that returned 0 has what was meant in place: the file, of a      *)
(* directory the files directly in it, of a tree all files.  (A directory  *)
(* that is copied as a file becomes an empty file.)  No file is missing,   *)
(* and none ends where fwrite has failed.  But a file may be incomplete    *)
(* all the same: where reading has failed, or the write that fclose makes  *)
(* of what is still buffered.                                              *)
CopiesAll ==
  \A t \in Thread : Copied(t) =>
    LET from == job[t].path
        meant == { p \in Below(from) :
                     orig[p] = "text"
                     /\ (Op(t) = "copy file" => p = from)
                     /\ (Op(t) = "copy dir" => Parent(p) = from) }
    IN \A p \in meant :
         tree[job[t].dst \o SubSeq(p, Len(from) + 1, Len(p))] \in {"text", "short", "lost"}

(* Copying removes nothing, and changes nothing but at its destination.    *)
CopiesOnlyThere ==
  \A t \in Thread : job[t] \in Copies =>
    \A q \in DOMAIN tree :
      tree[q] # orig[q] =>
        IF IsPrefix(job[t].dst, q) THEN tree[q] # "none" /\ orig[q] # "dir"
        ELSE IsPrefix(q, job[t].dst) /\ tree[q] = "dir"

TreesHonest ==
  /\ DeletedIsGone /\ StaysForAReason /\ DeletesOnlyBelow
  /\ CopiesAll /\ CopiesOnlyThere
===============================================================================
