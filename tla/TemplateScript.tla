---------------------------- MODULE TemplateScript ----------------------------
(***************************************************************************)
(* The build scripts of src/templates: minimal-exe, practical-exe and      *)
(* practical-lib, run again and again with other arguments, over sources   *)
(* that a developer edits, and killed at any moment.                       *)
(*                                                                         *)
(* A script does not know the headers.  The compiler writes the ones it    *)
(* has read into a dependency file, one per source, and the next run of    *)
(* the script reads them there.  Objects lie in a directory of their own   *)
(* for each list of arguments (TextOps has the mangling), dependency files *)
(* and what is linked do not.                                              *)
(*                                                                         *)
(* zmm_bg_build, which the library no longer has, is prepare and exec of   *)
(* the library (BuildPrepare), called as build/build.c does, and the calls *)
(* of zmm_tg_init_out and zmm_tg_add_src_nc are those of zmm_tg_init and   *)
(* zmm_tg_add_src.  A compiler reads and writes in one step; an edit falls *)
(* between two.                                                            *)
(***************************************************************************)
EXTENDS BuildPrepare, SequencesExt

CONSTANTS
  Source,      \* the names of the .c files
  TestSource,  \* those of practical-lib that are not in src/ but a test's
  Header,      \* the names of the headers
  Forms,       \* file -> what it may come to include: sets of headers
  Removable,   \* the files a developer may remove
  Args,        \* lists of arguments, each known by what it is mangled to
  LibArgs,     \* the lists among them with `lib'
  MaxClock,    \* bound on the clock
  MaxFaults    \* bound on failures and kills

ASSUME TemplateAssumption ==
  /\ IsFiniteSet(Source) /\ IsFiniteSet(Header) /\ Source \cap Header = {}
  /\ TestSource \subseteq Source /\ LibArgs \subseteq Args /\ Args # {}
  /\ \A f \in Source \cup Header : Forms[f] # {} /\ UNION Forms[f] \subseteq Header
  /\ Removable \subseteq Source \cup Header
  /\ MaxClock \in Nat /\ MaxFaults \in Nat

VARIABLES
  kind,        \* the template
  clock,
  disk,        \* path -> time of modification, 0: no such file
  includes,    \* source or header -> the headers it names
  dep,         \* source -> the paths in its dependency file, none: no file
  fresh,       \* history: objects a compiler would write the same again
  whole,       \* history: outputs linked from objects not written since
  of,          \* history: output -> the directory its objects were from
  blind,       \* history: objects whose dependency file another run removed,
               \* and outputs that a source was taken from
  at,          \* "idle", "scanned", "planned", "building", "objects", "deps"
  args, found, \* the arguments, and the sources zmm_fs_find has found
  listed,      \* source -> the paths zmm_dep_parse has found
  todo,        \* the outputs that are dirty and not yet built
  failed,      \* has_error of the executor
  code,        \* what the last run came to: "none", "built", "failed"
  quiet,       \* history: nothing was edited since the scan
  faults       \* how many there were

projectVars == <<clock, includes>>
historyVars == <<fresh, whole, of, blind>>
runVars == <<at, args, found, listed, todo, failed, code>>
vars == <<kind, projectVars, disk, dep, historyVars, runVars, quiet, faults>>

-----------------------------------------------------------------------------
(* Paths. *)
Src(s) == <<"src", s>>
Hdr(h) == <<"include", h>>
Exe == <<"build", "exe.out">>
Lib == <<"build", "libmylib.so">>
TestExe(s) == <<"test", s>>

File(f) == IF f \in Source THEN Src(f) ELSE Hdr(f)
Files == {File(f) : f \in Source \cup Header}

(* The names of the directories below build/.obj: of minimal-exe, and one    *)
(* for each list of arguments.                                               *)
AllObjects == {<<d, s>> : d \in Args \cup {"obj"}, s \in Source}
AllLinks == {Exe, Lib} \cup {TestExe(s) : s \in TestSource}

ASSUME PathAssumption ==
  /\ Files \cup AllObjects \cup AllLinks \subseteq Path /\ EmptyPath \notin Path
  /\ Args \cap {"src", "include", "build", "test"} = {}

(* The directory of the objects: minimal-exe has one, the others one for    *)
(* each list of arguments.                                                  *)
ObjDir(a) == IF kind = "minimal-exe" THEN "obj" ELSE a
Obj(a, s) == <<ObjDir(a), s>>
ObjOf(s) == {Obj(a, s) : a \in Args}
Objects == UNION {ObjOf(s) : s \in Source}

(* minimal-exe does not look at the arguments but for the compiler's flags.  *)
AnyArgs == CHOOSE a \in Args : TRUE
ArgsTold == IF kind = "minimal-exe" THEN {AnyArgs} ELSE Args

IsLib == kind = "practical-lib"
Test == IF IsLib THEN TestSource ELSE {}
InSrcDir == Source \ Test
Links == IF IsLib THEN {Lib} \cup {TestExe(s) : s \in Test} ELSE {Exe}

(* The outputs with s in them; what is linked with another output.          *)
LinksWith(s) == IF s \in Test THEN {TestExe(s)} ELSE Links
LinkedWith(l) == IF l = Lib THEN {TestExe(s) : s \in Test} ELSE {}

Exists(p) == disk[p] > 0

(* What the compiler reads for s: the least set of headers with those that s *)
(* and the headers in it name.                                               *)
Closed(hs) == \A h \in hs : includes[h] \subseteq hs

HeadersOf(s) ==
  {h \in Header :
     \A hs \in SUBSET Header : includes[s] \subseteq hs /\ Closed(hs) => h \in hs}

ReadFor(s) == {Src(s)} \cup {Hdr(h) : h \in HeadersOf(s)}

Init ==
  /\ kind \in {"minimal-exe", "practical-exe", "practical-lib"}
  /\ clock = 1
  /\ disk = [p \in Files \cup Objects \cup Links \cup {EmptyPath} |->
               IF p \in Files THEN 1 ELSE 0]
  /\ includes = [f \in Source \cup Header |-> CHOOSE hs \in Forms[f] : TRUE]
  /\ dep = [s \in Source |-> {}]
  /\ fresh = {} /\ whole = {} /\ blind = {} /\ of = [l \in Links |-> "none"]
  /\ at = "idle" /\ args = AnyArgs /\ found = {} /\ listed = dep
  /\ todo = {} /\ failed = FALSE /\ code = "none" /\ quiet = FALSE /\ faults = 0

-----------------------------------------------------------------------------
(* The graph a script declares.  Sources come in the order the directory    *)
(* has them in.                                                             *)

ObjRule(s, deps) ==
  [output |-> Obj(args, s), sources |-> <<Src(s)>>, deps |-> SetToSeq(deps),
   builder |-> TRUE, always |-> FALSE, phony |-> FALSE]

(* Faulty variant: the program is declared after one of its objects. *)
InitExeLate ==
  TgInit(BgAdd(EmptyGraph, ObjRule(CHOOSE s \in Source : TRUE, {})), Exe, TRUE)

InitExe == TgInit(EmptyGraph, Exe, TRUE)

(* practical-lib counts the end of its list of libraries with them: there   *)
(* is one more, with the empty path.                                        *)
InitLibs == TgInit(TgInit(EmptyGraph, Lib, TRUE), EmptyPath, TRUE)

AddToOutputs(g, o) ==
  IF IsLib THEN LET h == AddSrc(g, g.nodeMap[Lib], o)
                IN  AddSrc(h, h.nodeMap[EmptyPath], o)
  ELSE AddSrc(g, g.nodeMap[Exe], o)

(* zmm_bg_add for the object of s, with the paths of its dependency file;   *)
(* the outputs are linked from it.                                          *)
DeclareObject(g, s, deps) == AddToOutputs(BgAdd(g, ObjRule(s, deps)), Obj(args, s))

(* A test's object is added twice.  Of the libraries the test waits for, the *)
(* one with the empty path is refused.                                       *)
DeclareTest(g, s, deps) ==
  LET rule == ObjRule(s, deps)
      h == TgInit(BgAdd(BgAdd(g, rule), rule), TestExe(s), TRUE)
      t == h.nodeMap[TestExe(s)]
  IN  AddDeps(AddSrc(h, t, Obj(args, s)), t, <<Lib, EmptyPath>>)

WithObjects(g, order, deps) ==
  LET After[i \in 0 .. Len(order)] ==
        IF i = 0 THEN g ELSE DeclareObject(After[i - 1], order[i], deps[order[i]])
  IN  After[Len(order)]

WithTests(g, order, deps) ==
  LET After[i \in 0 .. Len(order)] ==
        IF i = 0 THEN g ELSE DeclareTest(After[i - 1], order[i], deps[order[i]])
  IN  After[Len(order)]

Graph(ss, deps) ==
  WithTests(WithObjects(IF IsLib THEN InitLibs ELSE InitExe, SetToSeq(ss), deps), SetToSeq(Test), deps)

(* What is asked for: `lib' leaves the tests out. *)
Wanted == IF IsLib /\ args \in LibArgs THEN {Lib} ELSE Links
ToBuild == IF IsLib THEN Wanted \cup {EmptyPath} ELSE Wanted

Prepared(g) == AfterPrepare(g, disk, SetToSeq(ToBuild))

DirtyOutputs(g) ==
  {g.nodes[n].output : n \in {m \in Prepared(g).dirty : g.nodes[m].builder}}

(* What an output is linked from: its sources and deps.                     *)
LinkedFrom(ss, l) ==
  {Obj(args, s) : s \in {t \in ss : l \in {Exe, Lib, EmptyPath}}}
    \cup {Obj(args, s) : s \in {t \in Test : l = TestExe(t)}}
    \cup {m \in Links : l \in LinkedWith(m)}

(* The sources whose objects are asked for. *)
Compiled(ss) == ss \cup {s \in Test : TestExe(s) \in Wanted}

-----------------------------------------------------------------------------
(* main, up to the graph: the sources in src/, and the dependency file of   *)
(* each.                                                                    *)
Scan(a) ==
  /\ at = "idle"
  /\ at' = "scanned" /\ args' = a /\ code' = "none" /\ quiet' = TRUE
  /\ found' = {s \in InSrcDir : Exists(Src(s))}
  /\ listed' = [s \in Source |-> IF s \in found' \cup Test THEN dep[s] ELSE {}]
  /\ UNCHANGED <<kind, faults, projectVars, disk, dep, historyVars, todo, failed>>

(* zmm_bg_build begins: what is dirty by the times of now. *)
Plan ==
  /\ at = "scanned" /\ clock < MaxClock
  /\ at' = "planned" /\ clock' = clock + 1
  /\ todo' = DirtyOutputs(Graph(found, listed)) /\ failed' = FALSE
  /\ UNCHANGED <<kind, faults, includes, disk, dep, historyVars, args, found, listed, code, quiet>>

Fault == faults < MaxFaults /\ faults' = faults + 1

Building == at \in {"planned", "building"}

(* Faulty variant: a compiler that was killed counts as one that exited.    *)
SucceedsUnlessCode(status) == status # "exited 1"

(* The return value of the builder. *)
Succeeds(status) == status = "exited 0"

(* The builder ends for output p. *)
Built(p, status) ==
  /\ at' = "building"
  /\ todo' = todo \ {p}
  /\ failed' = (failed \/ ~Succeeds(status))
  /\ UNCHANGED <<kind, projectVars, args, found, listed, code, quiet>>

Outdated(ls) == {l \in ls : of[l] = ObjDir(args)}

Compile(s) ==
  /\ Building /\ Obj(args, s) \in todo
  /\ \A p \in ReadFor(s) : Exists(p)
  /\ Built(Obj(args, s), "exited 0")
  /\ disk' = [disk EXCEPT ![Obj(args, s)] = clock]
  /\ dep' = [dep EXCEPT ![s] = ReadFor(s)]
  /\ fresh' = fresh \cup {Obj(args, s)}
  /\ blind' = blind \ ObjOf(s)
  /\ whole' = whole \ Outdated(LinksWith(s))
  /\ UNCHANGED <<faults, of>>

(* The compiler fails, or is killed (external): the object is gone, and the *)
(* dependency file is as it was or gone too.                                *)
FailToCompile(s, status) ==
  /\ Building /\ Obj(args, s) \in todo
  /\ Built(Obj(args, s), status) /\ Fault
  /\ disk' = [disk EXCEPT ![Obj(args, s)] = 0]
  /\ fresh' = fresh \ {Obj(args, s)}
  /\ whole' = whole \ Outdated(LinksWith(s))
  /\ \/ UNCHANGED <<dep, blind>>
     \/ /\ dep' = [dep EXCEPT ![s] = {}]
        /\ blind' = blind \cup {o \in ObjOf(s) \ {Obj(args, s)} : Exists(o)}
  /\ UNCHANGED of

(* A link is not begun after a failure, nor before its inputs are built.    *)
Linkable(l) == Building /\ l \in todo /\ ~failed /\ LinkedFrom(found, l) \cap todo = {}

Link(l) ==
  /\ Linkable(l)
  /\ Built(l, "exited 0")
  /\ disk' = [disk EXCEPT ![l] = clock]
  /\ of' = [of EXCEPT ![l] = ObjDir(args)]
  /\ whole' = (whole \ LinkedWith(l)) \cup {l}
  /\ blind' = blind \ {l}
  /\ UNCHANGED <<faults, dep, fresh>>

FailToLink(l, status) ==
  /\ Linkable(l)
  /\ Built(l, status) /\ Fault
  /\ disk' \in {disk, [disk EXCEPT ![l] = 0]}
  /\ UNCHANGED <<dep, historyVars>>

(* The library with the empty path.  The builder takes it for an object, and *)
(* an object has one source: with several the builder returns 1 (line 172).  *)
(* With one, a compiler is given an object to compile, and no name for what  *)
(* comes of it; it writes nothing, and may find nothing to do and exit with  *)
(* 0, or with 1 (external).                                                  *)
BuildUnnamed(status) ==
  /\ Linkable(EmptyPath)
  /\ status = "exited 0" => Cardinality(found) = 1
  /\ Built(EmptyPath, status)
  /\ UNCHANGED <<faults, disk, dep, historyVars>>

Ends(c) ==
  /\ at' = "idle" /\ code' = c
  /\ found' = {} /\ todo' = {} /\ failed' = FALSE
  /\ listed' = [s \in Source |-> {}]
  /\ args' = IF c = "built" THEN args ELSE AnyArgs

(* zmm_bg_build returns, and main with it. *)
Return ==
  /\ Building
  /\ \/ failed /\ Ends("failed")
     \/ todo = {} /\ ~failed /\ Ends("built")
  /\ UNCHANGED <<kind, faults, projectVars, disk, dep, historyVars, quiet>>

-----------------------------------------------------------------------------
(* `clean': what is linked, the objects of all directories, the dependency  *)
(* files.                                                                   *)

Without(ps) == [p \in DOMAIN disk |-> IF p \in ps THEN 0 ELSE disk[p]]

(* Faulty variant: the dependency files first. *)
TreesDepsFirst == <<"deps", "objects">>

(* The order in which the trees are deleted. *)
Trees == <<"objects", "deps">>

Clean ==
  /\ at = "idle"
  /\ at' = Trees[1] /\ code' = "none" /\ quiet' = FALSE /\ args' = AnyArgs
  /\ disk' = Without(Links) /\ whole' = {}
  /\ UNCHANGED <<kind, faults, projectVars, dep, fresh, of, blind, found, listed, todo, failed>>

(* zmm_fs_delete_tree, of the objects os or the dependency files of ss. *)
Deleted(os, ss) ==
  /\ disk' = Without(os) /\ fresh' = fresh \ os
  /\ dep' = [s \in Source |-> IF s \in ss THEN {} ELSE dep[s]]

DeleteTree ==
  /\ \/ at = "objects" /\ Deleted(Objects, {})
     \/ at = "deps" /\ Deleted({}, Source)
  /\ at' = IF at = Trees[1] THEN Trees[2] ELSE "idle"
  /\ UNCHANGED <<kind, faults, projectVars, whole, of, blind, args, found, listed, todo,
                 failed, code, quiet>>

-----------------------------------------------------------------------------
(* The script is killed, and the compilers with it: between two steps, with *)
(* a dependency file written and not yet its object, or with trees deleted  *)
(* in part.                                                                 *)
Killed ==
  /\ Fault
  /\ at # "idle" /\ Ends("none")
  /\ \/ UNCHANGED <<disk, dep, fresh, blind>>
     \/ /\ Building
        /\ \E s \in Source :
             /\ Obj(args, s) \in todo /\ \A p \in ReadFor(s) : Exists(p)
             /\ dep' = [dep EXCEPT ![s] = ReadFor(s)]
             /\ blind' = blind \ ObjOf(s)
        /\ UNCHANGED <<disk, fresh>>
     \/ /\ at = "objects" /\ \E os \in SUBSET Objects : Deleted(os, {})
        /\ UNCHANGED blind
     \/ /\ at = "deps" /\ \E ss \in SUBSET Source : Deleted({}, ss)
        /\ UNCHANGED blind
  /\ UNCHANGED <<kind, projectVars, whole, of>> /\ quiet' = FALSE

(* The developer. *)
Touched(f) ==
  /\ fresh' = fresh \ UNION {ObjOf(s) : s \in {t \in Source : File(f) \in ReadFor(t)}}
  /\ at' = IF at = "planned" THEN "building" ELSE at
  /\ quiet' = FALSE
  /\ UNCHANGED <<kind, faults, dep, of, args, found, listed, todo, failed, code>>

(* Bound: the last tick is a plan's, as nothing looks at an edit after it.  *)
EditTick == clock + 1 < MaxClock /\ clock' = clock + 1

(* A new source belongs to what is linked. *)
Edit(f) ==
  /\ EditTick
  /\ disk' = [disk EXCEPT ![File(f)] = clock']
  /\ \E hs \in Forms[f] : includes' = [includes EXCEPT ![f] = hs]
  /\ whole' = IF f \in Source /\ ~Exists(File(f)) THEN whole \ LinksWith(f) ELSE whole
  /\ UNCHANGED blind
  /\ Touched(f)

RemoveFile(f) ==
  /\ f \in Removable /\ Exists(File(f))
  /\ EditTick
  /\ disk' = [disk EXCEPT ![File(f)] = 0]
  /\ blind' = IF f \in Source THEN blind \cup LinksWith(f) ELSE blind
  /\ UNCHANGED <<includes, whole>>
  /\ Touched(f)

Next ==
  \/ Plan \/ Return \/ Clean \/ DeleteTree \/ Killed
  \/ \E a \in ArgsTold : Scan(a)
  \/ \E s \in Source : Compile(s)
  \/ \E s \in Source, status \in {"exited 1", "killed"} : FailToCompile(s, status)
  \/ \E l \in Links : Link(l)
  \/ \E l \in Links, status \in {"exited 1", "killed"} : FailToLink(l, status)
  \/ \E status \in {"exited 0", "exited 1"} : BuildUnnamed(status)
  \/ \E f \in Source \cup Header : Edit(f) \/ RemoveFile(f)

Spec == Init /\ [][Next]_vars

-----------------------------------------------------------------------------
(* Whatever was edited, included and left out again, compiled with other     *)
(* arguments, failed, killed or cleaned before: a plan has every object a    *)
(* compiler would write differently now, and everything linked from objects  *)
(* of these arguments that were written since.  Except for objects whose     *)
(* dependency file was removed when the source failed to compile with other  *)
(* arguments.                                                                *)
NoEditMissed ==
  at = "planned" =>
    /\ \A s \in Compiled(found) :
         Obj(args, s) \in todo \cup fresh \cup blind
    /\ quiet => \A l \in Wanted :
         l \in todo \cup whole \cup blind \/ of[l] # ObjDir(args)

(* When the script returns 0 and nothing was edited meanwhile, it has built  *)
(* everything: a second run would find nothing to do (but in practical-lib   *)
(* the library with the empty path, which never comes to exist), the objects *)
(* are those of the present sources, and what it linked has them.            *)
SuccessIsComplete ==
  at = "idle" /\ code = "built" /\ quiet =>
    LET now == {s \in InSrcDir : Exists(Src(s))}
    IN  /\ DirtyOutputs(Graph(now, dep)) \subseteq {EmptyPath}
        /\ \A s \in Compiled(now) : Obj(args, s) \in fresh \cup blind
        /\ \A l \in Wanted : l \in whole \cup blind \/ of[l] # ObjDir(args)

(* The graphs of the two templates for programs are declared from the        *)
(* program down: BuildExecProofs applies to the plans made of them.          *)
(* As long as no header is missing that a dependency file still names: two   *)
(* objects that wait for such a header are released by it, one of them       *)
(* perhaps before the seeding loop has passed.                               *)
PlansAreTopDown ==
  at = "planned" /\ ~IsLib /\ quiet =>
    \/ \E s \in found : \E p \in listed[s] : ~Exists(p)
    \/ LET g == Graph(found, listed) IN TopDown(PlanOfPrepared(g, Prepared(g)))

(* README.md 283 says of the practical templates: "Handles flag changes      *)
(* perfectly".  What the script of practical-exe has linked when it returns  *)
(* 0 was linked from objects compiled with its arguments.                    *)
FlagChangesHandled ==
  at = "idle" /\ code = "built" /\ quiet /\ kind = "practical-exe" =>
    of[Exe] = ObjDir(args)
=============================================================================
