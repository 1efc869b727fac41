------------------------------ MODULE FindFiles ------------------------------
(***************************************************************************)
(* zmm_fs_find of src/src/fs.c with find_append_recursive.  A tree gives   *)
(* the entries below the working directory their kind: a "file", a "dir",  *)
(* a "locked" directory, that cannot be read, or a "dangling" link, that   *)
(* stat fails on.  An entry is the sequence of the names that lead to it;  *)
(* a name is a sequence of characters.                                     *)
(***************************************************************************)
EXTENDS Integers, Sequences, FiniteSets, SequencesExt

P == INSTANCE Paths

IsDir(tree, path) == path = <<>> \/ tree[path] \in {"dir", "locked"}
CanOpen(tree, path) == path = <<>> \/ tree[path] = "dir"
FindKind(tree, path) == IF IsDir(tree, path) THEN "directory" ELSE "file"

Spelt(path) == Tail(FlattenSeq([i \in DOMAIN path |-> <<"/">> \o path[i]]))

EntriesOf(tree, dir) ==
  {path \in DOMAIN tree : Len(path) = Len(dir) + 1 /\ IsPrefix(dir, path)}

Hides(opts, text) == opts.ignoreHidden /\ P!IsHidden(text)
HasKind(opts, kind) == kind = opts.kind
HasExt(opts, text) == opts.ext = <<>> \/ P!HasExt(text, opts.ext)

(* Directories have no extension. *)
Matches(opts, kind, name) ==
  HasKind(opts, kind) /\ (kind = "directory" => opts.ext = <<>>) /\ HasExt(opts, name)

(* Faulty variant: hidden directories are entered. *)
EntersHidden(tree, opts, path) == opts.recursive /\ IsDir(tree, path)

(* The loop goes on at a hidden entry before it looks at what it is.        *)
Enters(tree, opts, path) ==
  ~ Hides(opts, Last(path)) /\ opts.recursive /\ IsDir(tree, path)

(* A root that is no directory may be a file. *)
RootFile(tree, opts, root) ==
  /\ tree[root] = "file"
  /\ HasKind(opts, "file") /\ ~ Hides(opts, Spelt(root)) /\ HasExt(opts, Spelt(root))

(* readdir gives the entries in any order. *)
RECURSIVE FindIn(_, _, _, _)
FindIn(tree, opts, out, dir) ==
  LET Visit(before, path) ==
        LET matches == /\ ~ Hides(opts, Last(path))
                       /\ Matches(opts, FindKind(tree, path), Last(path))
            found == IF matches THEN Append(before, path) ELSE before
        IN  IF Enters(tree, opts, path) THEN FindIn(tree, opts, found, path) ELSE found
  IN  IF CanOpen(tree, dir) THEN FoldLeft(Visit, out, SetToSeq(EntriesOf(tree, dir)))
      ELSE IF RootFile(tree, opts, dir) THEN Append(out, dir) ELSE out

Find(tree, opts, root) == FindIn(tree, opts, <<>>, root)

-----------------------------------------------------------------------------
(* Reference: what is asked for, wherever it is that the search may go.      *)
Below(root, path) == IsStrictPrefix(root, path)

Wanted(tree, opts, root) ==
  IF ~ IsDir(tree, root) THEN IF RootFile(tree, opts, root) THEN {root} ELSE {}
  ELSE {path \in DOMAIN tree :
          /\ Below(root, path) /\ CanOpen(tree, root)
          /\ opts.recursive \/ Len(path) = Len(root) + 1
          /\ \A n \in Len(root) + 1 .. Len(path) : ~ Hides(opts, path[n])
          /\ \A n \in Len(root) + 1 .. Len(path) - 1 : tree[SubSeq(path, 1, n)] = "dir"
          /\ Matches(opts, FindKind(tree, path), Last(path))}

Options(exts) ==
  [recursive : BOOLEAN, ignoreHidden : BOOLEAN, kind : {"file", "directory"}, ext : exts]

FindsEachOnce(tree, exts) ==
  \A opts \in Options(exts), root \in {<<>>} \cup DOMAIN tree :
    LET out == Find(tree, opts, root)
    IN  IsInjective(out) /\ ToSet(out) = Wanted(tree, opts, root)
=============================================================================
