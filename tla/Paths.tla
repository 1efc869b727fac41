-------------------------------- MODULE Paths --------------------------------
(***************************************************************************)
(* The path operations of src/src/path.c, as they are built for POSIX: "/" *)
(* alone separates.  A path is a sequence of characters, of which only the *)
(* dot and the separator matter.  A view of no characters and a null view  *)
(* are both <<>>.  TextOps evaluates the operations.                       *)
(***************************************************************************)
EXTENDS Integers, Sequences, FiniteSets, SequencesExt, FiniteSetsExt

IsSeparator(c) == c = "/"

-----------------------------------------------------------------------------
(* The scan goes from the end to the start, over separators too.           *)
Ext(p) ==
  LET dots == {i \in 2 .. Len(p) : p[i] = "." /\ ~ IsSeparator(p[i - 1])}
  IN IF dots = {} THEN <<>> ELSE SubSeq(p, Max(dots), Len(p))

(* The first position after the last separator.                            *)
BasenameStart(p) == Max({0} \cup {i \in DOMAIN p : IsSeparator(p[i])}) + 1

BasenameDots(p) == {i \in BasenameStart(p) + 1 .. Len(p) : p[i] = "."}

Stem(p) ==
  IF BasenameDots(p) = {} THEN SubSeq(p, BasenameStart(p), Len(p))
  ELSE SubSeq(p, BasenameStart(p), Max(BasenameDots(p)) - 1)

(* Faulty variant: the first dot of the name ends it.                      *)
StripExtAll(p) ==
  IF BasenameDots(p) = {} THEN p ELSE SubSeq(p, 1, Min(BasenameDots(p)) - 1)

StripExt(p) ==
  IF BasenameDots(p) = {} THEN p ELSE SubSeq(p, 1, Max(BasenameDots(p)) - 1)

HasExt(p, target) == Ext(p) = target

(* Only the last dot is looked at.                                         *)
IsHidden(p) ==
  \E i \in DOMAIN p :
    /\ p[i] = "." /\ \A k \in i + 1 .. Len(p) : p[k] # "."
    /\ i = 1 \/ IsSeparator(p[i - 1])

-----------------------------------------------------------------------------
(* zmm_p_trim_dot_slash: every "./" at the front.                          *)
TrimDotSlash(p) ==
  LET dotted(n) == \A i \in 1 .. 2 * n : p[i] = IF i % 2 = 1 THEN "." ELSE "/"
  IN SubSeq(p, 2 * Max({n \in 0 .. Len(p) \div 2 : dotted(n)}) + 1, Len(p))

(* The slashes at the end are taken off, and remembered.                   *)
WasDir(part) == IsSuffix(<<"/">>, TrimDotSlash(part))
Trimmed(part) ==
  LET t == TrimDotSlash(part)
  IN SubSeq(t, 1, Max({0} \cup {i \in DOMAIN t : t[i] # "/"}))

StandaloneSlash(part) == TrimDotSlash(part) # <<>> /\ Trimmed(part) = <<>>

(* A slash on its own marks the nearest part before it that is not empty.  *)
AddSep(ps, i) ==
  \/ WasDir(ps[i])
  \/ \E j \in i + 1 .. Len(ps) :
       StandaloneSlash(ps[j]) /\ \A k \in i + 1 .. j : Trimmed(ps[k]) = <<>>

(* zmm_p_join_arr *)
Join(ps) ==
  FlattenSeq([i \in DOMAIN ps |->
    IF Trimmed(ps[i]) = <<>> THEN <<>>
    ELSE Trimmed(ps[i]) \o (IF AddSep(ps, i) THEN <<"/">> ELSE <<>>)])

-----------------------------------------------------------------------------
(* A name's extension begins at its last dot, but for one in front.        *)
Dotted(name) == \E i \in 2 .. Len(name) : name[i] = "."

Directories(p) == SubSeq(p, 1, BasenameStart(p) - 1)
Basename(p) == SubSeq(p, BasenameStart(p), Len(p))

(* The name around position i of p.                                        *)
NameAround(p, i) ==
  LET begin == BasenameStart(SubSeq(p, 1, i))
      ends == {k \in i .. Len(p) : IsSeparator(p[k])}
  IN SubSeq(p, begin, Min(ends \cup {Len(p) + 1}) - 1)

NamesWithDots(p) == {NameAround(p, i) : i \in {k \in DOMAIN p : p[k] = "."}}

(* zmm_p_strip_ext and zmm_p_ext cut p at the same place: what the one     *)
(* takes off is what the other gives; unless the name has no extension and *)
(* that of a directory above it has one.  Then zmm_p_strip_ext takes       *)
(* nothing off, and what zmm_p_ext gives is all from that directory's dot, *)
(* with a separator in it: none of the extensions a script asks for.       *)
(* (build.c derives the names of object and dependency files with the one, *)
(* and chooses between compiling and linking with the other.)              *)
CutsAgree(p) ==
  LET reaches == ~ Dotted(Basename(p)) /\ \E name \in NamesWithDots(Directories(p)) : Dotted(name)
  IN IF reaches
     THEN StripExt(p) = p /\ (\E i \in DOMAIN Ext(p) : IsSeparator(Ext(p)[i]))
     ELSE StripExt(p) \o Ext(p) = p

(* zmm_p_strip_ext leaves the directories and the stem, no more.           *)
StemIsStripped(p) == StripExt(p) = Directories(p) \o Stem(p)

(* zmm_p_is_hidden and zmm_p_ext: a name is hidden when it begins with a   *)
(* dot and has no extension (.a.c is not hidden); a path, when the last of *)
(* its names that have a dot is, though the names behind it begin with     *)
(* none.                                                                   *)
HiddenName(name) == name[1] = "." /\ Ext(name) = <<>>
HiddenByName(p) ==
  LET dots == {i \in DOMAIN p : p[i] = "."}
  IN IsHidden(p) <=> dots # {} /\ HiddenName(NameAround(p, Max(dots)))

PartsAgree(p) == CutsAgree(p) /\ StemIsStripped(p) /\ HiddenByName(p)

DoubleSlash(p) == \E i \in 2 .. Len(p) : p[i] = "/" /\ p[i - 1] = "/"

(* Runs of slashes as one. *)
Collapse(p) ==
  LET keep == SelectSeq([i \in DOMAIN p |-> i],
                        LAMBDA i : ~ (i > 1 /\ p[i] = "/" /\ p[i - 1] = "/"))
  IN [k \in DOMAIN keep |-> p[keep[k]]]

(* Parts that are relative, and begin with a name.                         *)
Relative(ps) ==
  /\ \A i \in DOMAIN ps : IsPrefix(<<"/">>, TrimDotSlash(ps[i])) => StandaloneSlash(ps[i])
  /\ \A i \in DOMAIN ps :
       StandaloneSlash(ps[i]) => \E k \in 1 .. i - 1 : Trimmed(ps[k]) # <<>>

(* Joining relative parts is writing them one behind the other, each       *)
(* without its "./", and every run of slashes once.                        *)
JoinsAsWritten(ps) ==
  Relative(ps) =>
    Join(ps) = Collapse(FlattenSeq([i \in DOMAIN ps |-> TrimDotSlash(ps[i])]))
==============================================================================
