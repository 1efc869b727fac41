--------------------------- MODULE SysExecWindows ---------------------------
(***************************************************************************)
(* Process execution of src/src/sys.c on either platform: the half for     *)
(* POSIX, which is SysExec, or the half for Windows.                       *)
(*                                                                         *)
(* On Windows an end of a pipe is inherited by every program that is       *)
(* started while it is open, unless it was marked otherwise (`marked');    *)
(* the write end never is.  A program is there when CreateProcessA returns,*)
(* a write that nobody can read fails, and the program ends as it likes;   *)
(* one that is terminated exits, too.  The loop that reads is the same.    *)
(* No program writes zero bytes, which would read as the end.              *)
(***************************************************************************)
EXTENDS SysExec

VARIABLE windows   \* what the library is built for

(* CreatePipe, both ends to be inherited, and SetHandleInformation on one. *)
CreatePipe(c) == Pipe(c)
SetReadEnd(c) == Mark(c, "piped", "marked", "read")

Inherited == {e \in OpenEnds : e[2] \notin marked[e[1]]}

CreateProcess(c) ==
  /\ \/ kind[c] = "exec" /\ Goto(c, "marked", "parent")
     \/ kind[c] = "redirect" /\ Goto(c, "call", "waiting")
  /\ child' = [child EXCEPT ![c] = "running"]
  /\ started' = started \cup {c}
  /\ held' = [held EXCEPT ![c] = Inherited]
  /\ kept' = [kept EXCEPT ![c] = Inherited]
  /\ \E n \in 0 .. MaxOutput : total' = [total EXCEPT ![c] = n]
  /\ UNCHANGED <<fdVars, fate, len, cap, starved, result, buffered, wrote>>

(* build_win32_cmdline or CreateProcessA fails. *)
CreateFails(c) == ForkFails(c)

WriteFails(c) ==
  /\ child[c] = "running" /\ wrote[c] < total[c]
  /\ kind[c] = "exec" /\ ~Held(c, "read")
  /\ \E k \in {0, 1} : End(c, [type |-> "exited", code |-> k])

Terminated(c) == child[c] = "running" /\ End(c, [type |-> "exited", code |-> 1])

-----------------------------------------------------------------------------
WindowsCall(c) ==
  \/ CallFails(c) \/ CreatePipe(c) \/ SetReadEnd(c)
  \/ CreateProcess(c) \/ CreateFails(c)
  \/ ParentReads(c) \/ ParentStarves(c)
  \/ Read(c) \/ ReadStarves(c) \/ ReadEnd(c) \/ CloseRead(c) \/ Wait(c)

WindowsProgram(c) == Write(c) \/ WriteFails(c) \/ Exit(c)

CallerStep(c) ==
  /\ IF windows THEN WindowsCall(c) ELSE CallStep(c)
  /\ UNCHANGED windows

ProgramStep(c) ==
  /\ IF windows THEN WindowsProgram(c) ELSE ChildStep(c)
  /\ UNCHANGED windows

KillStep(c) ==
  /\ IF windows THEN Terminated(c) ELSE Killed(c)
  /\ UNCHANGED windows

EitherInit == Init /\ windows \in BOOLEAN

EitherNext ==
  \/ \E c \in Caller : CallerStep(c) \/ ProgramStep(c) \/ KillStep(c)
  \/ Finished /\ UNCHANGED windows

EitherVars == <<vars, windows>>

EitherSpec ==
  /\ EitherInit /\ [][EitherNext]_EitherVars
  /\ \A c \in Caller : WF_EitherVars(CallerStep(c)) /\ WF_EitherVars(ProgramStep(c))

-----------------------------------------------------------------------------
(* A program keeps an end of another call's pipe when it was started while *)
(* the end was open and not marked.  With a write end it delays the other  *)
(* call; with a read end it keeps that call's program waiting, instead of  *)
(* failing, once nobody reads.  The order in which a call opens, marks and *)
(* starts keeps this from being mutual; but for the write end on Windows,  *)
(* which is never marked, so that two calls can wait for each other's      *)
(* programs (and each reads, meanwhile, what its own writes).              *)
KeepsOpen(c, d, end) == c # d /\ child[c] = "running" /\ <<d, end>> \in held[c]

HoldsOneWay ==
  \A c, d \in Caller, end \in IF windows THEN {"read"} ELSE Ends :
    ~(KeepsOpen(c, d, end) /\ KeepsOpen(d, c, end))

-----------------------------------------------------------------------------
(* The inductive invariant of the proofs: the write end is marked on POSIX *)
(* before the fork and never on Windows, and of two calls at most one kept *)
(* an end of the other's pipe, if such ends are marked at all.             *)
EitherInv ==
  /\ CallInv /\ windows \in BOOLEAN
  /\ ReadMarked /\ KeptOneWay("read")
  /\ ~windows => WriteMarked /\ KeptOneWay("write")
  /\ windows => \A c \in Caller : "write" \notin marked[c]
==============================================================================
