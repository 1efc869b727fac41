------------------------------ MODULE ScriptInv ------------------------------
(***************************************************************************)
(* The inductive invariant of TemplateScript, in parts; ScriptProofs       *)
(* proves that it is.                                                      *)
(*                                                                         *)
(* Its idea: times tell the truth about objects.  An object that a         *)
(* compiler would write differently is older than a file the compiler      *)
(* reads, and, as its dependency file was written no later than the last   *)
(* object of its source, older than a file that one names.  An output that *)
(* lacks a source or an object as it is now is older than an object, or    *)
(* the object is older than its source: there is a reason to link it.  So  *)
(* what a scan and a plan find by the times of files contains what is to   *)
(* be built, and what was neither found nor has failed stays as it should  *)
(* be until the script returns.                                            *)
(***************************************************************************)
EXTENDS TemplateScript

(* What a template links first: the library, or the program. *)
Main == IF IsLib THEN Lib ELSE Exe

(* The directories of objects, the one of this run, and all paths. *)
Dirs == {ObjDir(a) : a \in Args}
Dir == ObjDir(args)
Places == Files \cup Objects \cup Links \cup {EmptyPath}

(* Between the scan and the end. *)
Running == at \in {"scanned", "planned", "building"}

TypesOK ==
  /\ kind \in {"minimal-exe", "practical-exe", "practical-lib"}
  /\ clock \in Nat /\ clock > 0
  /\ disk \in [Places -> 0 .. clock] /\ disk[EmptyPath] = 0
  /\ includes \in [Source \cup Header -> SUBSET Header]
  /\ dep \in [Source -> SUBSET Files] /\ listed \in [Source -> SUBSET Files]
  /\ fresh \subseteq Objects /\ whole \subseteq Links /\ blind \subseteq Objects \cup Links
  /\ of \in [Links -> Dirs \cup {"none"}]
  /\ at \in {"idle", "scanned", "planned", "building", "objects", "deps"}
  /\ args \in Args /\ found \subseteq InSrcDir
  /\ todo \subseteq Objects \cup Links \cup {EmptyPath}
  /\ failed \in BOOLEAN

-----------------------------------------------------------------------------
(* Objects. *)

(* A fresh object exists. *)
FreshExist == \A s \in Source : \A d \in Dirs : <<d, s>> \in fresh => Exists(<<d, s>>)

(* The dependency file of a fresh object that is not blind names what a      *)
(* compiler would read now.                                                  *)
DepsKnown ==
  \A s \in Source : \A d \in Dirs :
    <<d, s>> \in fresh /\ <<d, s>> \notin blind => dep[s] = ReadFor(s)

(* An object that is not fresh is older than something a compiler would      *)
(* read, or that is missing;                                                 *)
StaleSeen ==
  \A s \in Source : \A d \in Dirs :
    Exists(<<d, s>>) /\ <<d, s>> \notin fresh =>
      \E p \in ReadFor(s) : InputDirty(disk, <<d, s>>, p)

(* and than something its dependency file names, unless it is blind.         *)
StaleListed ==
  \A s \in Source : \A d \in Dirs :
    Exists(<<d, s>>) /\ <<d, s>> \notin fresh /\ <<d, s>> \notin blind =>
      \E p \in dep[s] : InputDirty(disk, <<d, s>>, p)

(* The dependency files are deleted after all objects.                       *)
NoObjects == at = "deps" => \A s \in Source : \A d \in Dirs : ~Exists(<<d, s>>)

-----------------------------------------------------------------------------
(* What is to be built. *)

(* It was found, or is a test's that was asked for.                          *)
TodoKnown ==
  /\ \A s \in Source : <<Dir, s>> \in todo => s \in found \/ (s \in Test /\ TestExe(s) \in Wanted)
  /\ \A l \in Links : l \in todo => l \in Wanted
  /\ todo # {} => Building
  /\ ~Running => found = {}

(* With an object what is linked from it is to be built, with the library    *)
(* the tests.                                                                *)
TodoUp ==
  /\ \A s \in found : <<Dir, s>> \in todo => Main \in todo
  /\ \A s \in Test : <<Dir, s>> \in todo => TestExe(s) \in todo
  /\ Lib \in todo => \A s \in Test : TestExe(s) \in Wanted => TestExe(s) \in todo

(* As long as an input is to be built, what it is linked into was not linked *)
(* in this run.                                                              *)
LinksOlder ==
  Building =>
    /\ \A s \in Source : <<Dir, s>> \in todo => \A l \in LinksWith(s) : disk[l] < clock
    /\ Lib \in todo => \A s \in Test : disk[TestExe(s)] < clock

-----------------------------------------------------------------------------
(* What is linked. *)

(* The times tell that l is to be linked, when its objects are asked for.    *)
Reason(l) ==
  \/ \E s \in Source :
       /\ l \in LinksWith(s) /\ (Exists(Src(s)) \/ s \in Test)
       /\ InputDirty(disk, l, <<of[l], s>>) \/ Newer(disk, <<of[l], s>>, Src(s))
  \/ /\ Lib \in Links /\ \E s \in Test : l = TestExe(s)
     /\ InputDirty(disk, l, Lib)

(* What exists was linked from objects not written since, or a source was    *)
(* taken from it, or there is a reason to link it again.                     *)
LinksAccounted ==
  \A l \in Links : Exists(l) =>
    of[l] \in Dirs /\ (l \in whole \/ l \in blind \/ Reason(l))

(* What is linked from a source that was found and is gone is blind.         *)
RemovedBlind ==
  \A s \in found :
    disk[Src(s)] = 0 /\ (at = "scanned" \/ <<Dir, s>> \in todo) => LinksWith(s) \subseteq blind

-----------------------------------------------------------------------------
(* The run. *)

(* No dependency file changes between the scan and the plan.                 *)
ListsCurrent == at = "scanned" => \A s \in found \cup Test : listed[s] = dep[s]

(* What a scan finds, and that it is what was found if nothing was edited.   *)
Now == {s \in InSrcDir : Exists(Src(s))}
FoundNow == quiet /\ Running => found = Now
NotBuiltYet == code = "built" => at = "idle"

(* The object of s is not dirty; it is to be built or as it should be.       *)
ObjClean(s) ==
  disk[<<Dir, s>>] # 0 /\ \A p \in {Src(s)} \cup dep[s] : ~InputDirty(disk, <<Dir, s>>, p)
ObjSettled(s) ==
  <<Dir, s>> \in todo \/ ((<<Dir, s>> \in fresh \/ <<Dir, s>> \in blind) /\ ObjClean(s))

LinkGood(l) == l \in whole \/ l \in blind \/ of[l] # Dir

(* Of the sources ss and of what was asked for, everything is to be built,   *)
(* or as it should be and not dirty.                                         *)
SettledWith(ss) ==
  /\ \A s \in ss : ObjSettled(s)
  /\ \A s \in Test : TestExe(s) \in Wanted => ObjSettled(s)
  /\ \/ Main \in todo
     \/ /\ LinkGood(Main) /\ disk[Main] # 0
        /\ \A s \in ss : ~InputDirty(disk, Main, <<Dir, s>>)
  /\ \A s \in Test : TestExe(s) \in Wanted =>
       \/ TestExe(s) \in todo
       \/ /\ LinkGood(TestExe(s)) /\ disk[TestExe(s)] # 0
          /\ ~InputDirty(disk, TestExe(s), <<Dir, s>>)
          /\ ~InputDirty(disk, TestExe(s), Lib)

RunSettled == Building /\ quiet /\ ~failed => SettledWith(found)
Done == at = "idle" /\ code = "built" /\ quiet => todo = {} /\ SettledWith(Now)

RunInv ==
  /\ TypesOK
  /\ FreshExist /\ DepsKnown /\ StaleSeen /\ StaleListed /\ NoObjects
  /\ TodoKnown /\ TodoUp /\ LinksOlder
  /\ LinksAccounted /\ RemovedBlind
  /\ ListsCurrent /\ FoundNow /\ NotBuiltYet /\ RunSettled /\ Done /\ NoEditMissed
=============================================================================
