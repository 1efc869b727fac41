------------------------------ MODULE CliRebuild ------------------------------
(***************************************************************************)
(* The front end (main of src/cli/main.c): it reads .zmm, compiles the     *)
(* build script if its executable is older than a source or than .zmm, and *)
(* runs it.  A developer edits between its steps, and may interrupt it.    *)
(*                                                                         *)
(* A file's content is identified by the time it was changed last; every   *)
(* change and every compilation has a time of its own.  While the compiler *)
(* runs nothing is edited, nor .zmm since it was read: an executable       *)
(* written after such an edit would hide it.                               *)
(***************************************************************************)
EXTENDS Integers, FiniteSets

CONSTANTS
  Source,      \* what a config may list
  Exe,         \* the names it may give the executable
  Command,     \* the commands it may give
  MaxClock     \* bound: changes and compilations

VARIABLES
  clock,
  there,       \* the files that exist: sources, executables and ".zmm"
  changed,     \* file -> when it was last written or removed
  config,      \* what .zmm says
  made,        \* executable -> what it was compiled from
  at,          \* "idle", "read", "compiling", "running"
  cfg,         \* the config main has read, nothing when it does not run
  since,       \* when main compared the times (only the property reads it)
  code         \* what main returned, until it runs again

vars == <<clock, there, changed, config, made, at, cfg, since, code>>

File == Source \cup Exe \cup {".zmm"}
None == "none"

(* A config may lack the executable or the command; one that does not parse*)
(* lacks both.                                                             *)
Config ==
  [srcs : SUBSET Source, exe : Exe \cup {None}, cmd : Command \cup {None}]

Nothing == [srcs |-> {}, exe |-> None, cmd |-> None]

Init ==
  /\ clock = 0
  /\ there \in {Source, Source \cup {".zmm"}}
  /\ changed = [f \in File |-> 0]
  /\ config \in {c \in Config : c.exe # None /\ c.cmd # None}
  /\ made = [e \in Exe |-> [cmd |-> None, from |-> [s \in Source |-> 0]]]
  /\ at = "idle" /\ cfg = Nothing /\ since = 0 /\ code = None

-----------------------------------------------------------------------------
(* The developer.                                                          *)

Tick == clock < MaxClock /\ clock' = clock + 1

EditSource ==
  \E s \in Source :
    /\ at # "compiling" /\ Tick
    /\ changed' = [changed EXCEPT ![s] = clock']
    /\ there' \in {there \cup {s}, there \ {s}}
    /\ UNCHANGED <<config, made, at, cfg, since, code>>

EditConfig ==
  /\ at \in {"idle", "running"} /\ Tick
  /\ changed' = [changed EXCEPT ![".zmm"] = clock']
  /\ \/ there' = there \cup {".zmm"} /\ config' \in Config
     \/ there' = there \ {".zmm"} /\ UNCHANGED config
  /\ UNCHANGED <<made, at, cfg, since, code>>

RemoveExe ==
  \E e \in Exe \cap there :
    /\ at = "idle"
    /\ there' = there \ {e}
    /\ UNCHANGED <<clock, changed, config, made, at, cfg, since, code>>

-----------------------------------------------------------------------------
(* main                                                                    *)

Returns(c) == at' = "idle" /\ code' = c /\ cfg' = Nothing /\ since' = 0

Unusable(c) == c.exe = None \/ c.cmd = None

(* No .zmm, or one without what is needed.                                 *)
Refuse ==
  /\ at = "idle"
  /\ ".zmm" \notin there \/ Unusable(config)
  /\ Returns("1")
  /\ UNCHANGED <<clock, there, changed, config, made>>

ReadConfig ==
  /\ at = "idle" /\ ".zmm" \in there /\ ~ Unusable(config)
  /\ at' = "read" /\ cfg' = config /\ code' = None
  /\ UNCHANGED <<clock, there, changed, config, made, since>>

IsDirty(output, inputs) ==
  \/ inputs = {} \/ output \notin there
  \/ \E i \in inputs : i \notin there \/ changed[i] > changed[output]

(* Faulty variant: only the sources are looked at. *)
DirtyBySources == IsDirty(cfg.exe, cfg.srcs)

Dirty == IsDirty(cfg.exe, cfg.srcs) \/ IsDirty(cfg.exe, {".zmm"})

Compare ==
  /\ at = "read"
  /\ at' = IF Dirty THEN "compiling" ELSE "running"
  /\ since' = clock
  /\ UNCHANGED <<clock, there, changed, config, made, cfg, code>>

(* sh -c with the command (external): it writes the executable of the      *)
(* config from what the sources are now.                                   *)
CompileDone ==
  /\ at = "compiling" /\ Tick
  /\ there' = there \cup {cfg.exe}
  /\ changed' = [changed EXCEPT ![cfg.exe] = clock']
  /\ made' = [made EXCEPT ![cfg.exe] =
                [cmd |-> cfg.cmd, from |-> [s \in Source |-> changed[s]]]]
  /\ at' = "running"
  /\ UNCHANGED <<config, cfg, since, code>>

(* It could not be started, was killed, or exited with a code but 0; it    *)
(* leaves the executable alone or removes it.                              *)
CompileFailed ==
  /\ at = "compiling"
  /\ there' \in {there, there \ {cfg.exe}}
  /\ Returns("1")
  /\ UNCHANGED <<clock, changed, config, made>>

(* The script ends: with its code, or not of itself.                       *)
ScriptDone ==
  /\ at = "running"
  /\ \E c \in {"0", "1"} : Returns(c)
  /\ UNCHANGED <<clock, there, changed, config, made>>

(* The front end and what it started are interrupted.                      *)
Interrupted ==
  /\ at # "idle"
  /\ IF at = "compiling" THEN there' \in {there, there \ {cfg.exe}} ELSE UNCHANGED there
  /\ Returns(None)
  /\ UNCHANGED <<clock, changed, config, made>>

Next ==
  \/ EditSource \/ EditConfig \/ RemoveExe
  \/ Refuse \/ ReadConfig \/ Compare \/ CompileDone \/ CompileFailed
  \/ ScriptDone \/ Interrupted

Spec == Init /\ [][Next]_vars

-----------------------------------------------------------------------------
(* The script that main runs was compiled by the command of the config that*)
(* main has read, and from every source of it as it was when main compared *)
(* the times, or as it is after a later change.                            *)
RunsCurrent ==
  at = "running" =>
    LET m == made[cfg.exe] IN
    /\ m.cmd = cfg.cmd
    /\ \A s \in cfg.srcs : changed[s] > since \/ m.from[s] = changed[s]
==============================================================================
