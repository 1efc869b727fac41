------------------------------- MODULE SysExec -------------------------------
(***************************************************************************)
(* Process execution of src/src/sys.c (the POSIX half): builders that run  *)
(* in several threads of one process call zmm_sys_exec, which reads the    *)
(* output of a program through a pipe, or zmm_sys_exec_redirect, which     *)
(* only waits for it.                                                      *)
(*                                                                         *)
(* What the threads share is the table of file descriptors: fork() copies  *)
(* it, with the ends of the pipes of other calls in it, and execvp() drops *)
(* from the copy what was marked FD_CLOEXEC when it was made.  A pipe is at*)
(* its end when it is empty and nobody holds its write end any more.       *)
(*                                                                         *)
(* Output is counted in units; who wrote it and in which order is not in   *)
(* doubt, since a pipe has one writing program and keeps order.            *)
(***************************************************************************)
EXTENDS Integers, FiniteSets

CONSTANTS
  Caller,     \* the threads; each makes one call
  PipeSize,   \* units a pipe can hold
  ReadSize,   \* units `buffer' can hold, which is also the first `cap'
  MaxOutput   \* bound: units a program writes

ASSUME SizesAssumption ==
  /\ PipeSize \in Nat \ {0}
  /\ ReadSize \in Nat \ {0}
  /\ MaxOutput \in Nat

VARIABLES
  pc,        \* where each call is
  kind,      \* "exec" | "redirect"
  ends,      \* the ends of the call's pipe that the script has open
  marked,    \* those of them with FD_CLOEXEC
  buffered,  \* units in the pipe
  child,     \* "none" | "forked" | "running" | "zombie" | "reaped"
  held,      \* the pipe ends <<d, end>> the child has open
  kept,      \* those of them that survive its execvp
  total,     \* units the program is going to write
  wrote,     \* units it wrote
  started,   \* history: the calls whose child became the program
  fate,      \* how the child ended
  len, cap,  \* of out_buf
  starved,   \* history: the calls that ran out of memory after the fork
  result     \* what the call returned

callVars == <<pc, len, cap, starved, result>>
fdVars == <<kind, ends, marked>>
childVars == <<child, held, kept, started, total, fate>>
vars == <<callVars, fdVars, childVars, buffered, wrote>>

None == [type |-> "none", code |-> 0]
Error == [type |-> "error", code |-> 1]
Fates ==
  [type : {"exited"}, code : {0, 1}] \cup [type : {"signaled"}, code : {1}]
Ends == {"read", "write"}

TypeOK ==
  /\ pc \in [Caller -> {"call", "piped", "half", "marked", "parent", "reading",
                        "closing", "waiting", "returned"}]
  /\ kind \in [Caller -> {"exec", "redirect"}]
  /\ ends \in [Caller -> SUBSET Ends]
  /\ marked \in [Caller -> SUBSET Ends]
  /\ buffered \in [Caller -> 0 .. PipeSize]
  /\ child \in [Caller -> {"none", "forked", "running", "zombie", "reaped"}]
  /\ held \in [Caller -> SUBSET (Caller \X Ends)]
  /\ kept \in [Caller -> SUBSET (Caller \X Ends)]
  /\ total \in [Caller -> 0 .. MaxOutput]
  /\ wrote \in [Caller -> 0 .. MaxOutput]
  /\ fate \in [Caller -> Fates \cup {None}]
  /\ len \in [Caller -> Nat]
  /\ cap \in [Caller -> Nat]
  /\ starved \cup started \subseteq Caller
  /\ result \in [Caller -> Fates \cup {None, Error}]
  /\ \A c \in Caller : len[c] <= wrote[c] /\ wrote[c] <= total[c]

Init ==
  /\ pc = [c \in Caller |-> "call"]
  /\ kind \in [Caller -> {"exec", "redirect"}]
  /\ ends = [c \in Caller |-> {}]
  /\ marked = [c \in Caller |-> {}]
  /\ buffered = [c \in Caller |-> 0]
  /\ child = [c \in Caller |-> "none"]
  /\ held = [c \in Caller |-> {}]
  /\ kept = [c \in Caller |-> {}]
  /\ total = [c \in Caller |-> 0]
  /\ wrote = [c \in Caller |-> 0]
  /\ fate = [c \in Caller |-> None]
  /\ len = [c \in Caller |-> 0]
  /\ cap = [c \in Caller |-> 0]
  /\ starved = {}
  /\ started = {}
  /\ result = [c \in Caller |-> None]

(* Some process has this end of the pipe of d open. *)
Held(d, end) ==
  end \in ends[d] \/ \E c \in Caller : <<d, end>> \in held[c]

Goto(c, from, to) == pc[c] = from /\ pc' = [pc EXCEPT ![c] = to]

Return(c, from, status) ==
  /\ Goto(c, from, "returned")
  /\ result' = [result EXCEPT ![c] = status]

-----------------------------------------------------------------------------
(* The call. *)

(* No memory for argv_copy, or pipe() fails. *)
CallFails(c) ==
  /\ Return(c, "call", Error)
  /\ UNCHANGED <<len, cap, starved, fdVars, childVars, buffered, wrote>>

(* pipe(): both ends open, and visible to every fork from here on. *)
Pipe(c) ==
  /\ kind[c] = "exec"
  /\ Goto(c, "call", "piped")
  /\ ends' = [ends EXCEPT ![c] = Ends]
  /\ UNCHANGED <<kind, marked, len, cap, starved, result, childVars, buffered, wrote>>

(* fcntl(FD_CLOEXEC) on the one end, then on the other. *)
Mark(c, from, to, end) ==
  /\ Goto(c, from, to)
  /\ marked' = [marked EXCEPT ![c] = @ \cup {end}]
  /\ UNCHANGED <<kind, ends, len, cap, starved, result, childVars, buffered, wrote>>

(* Faulty variant: the write end is not marked. *)
MarkReadOnly(c) == Mark(c, "half", "marked", "read")

MarkRead(c) == Mark(c, "piped", "half", "read")
MarkWrite(c) == Mark(c, "half", "marked", "write")

OpenEnds == {e \in Caller \X Ends : e[2] \in ends[e[1]]}

(* fork(): the child gets every end any call has open, with its flag. *)
Fork(c) ==
  /\ \/ kind[c] = "exec" /\ Goto(c, "marked", "parent")
     \/ kind[c] = "redirect" /\ Goto(c, "call", "waiting")
  /\ child' = [child EXCEPT ![c] = "forked"]
  /\ held' = [held EXCEPT ![c] = OpenEnds]
  /\ kept' = [kept EXCEPT ![c] = {e \in OpenEnds : e[2] \notin marked[e[1]]}]
  /\ UNCHANGED <<fdVars, started, total, fate, len, cap, starved, result, buffered, wrote>>

ForkFails(c) ==
  /\ Return(c, IF kind[c] = "exec" THEN "marked" ELSE "call", Error)
  /\ ends' = [ends EXCEPT ![c] = {}]
  /\ UNCHANGED <<kind, marked, len, cap, starved, childVars, buffered, wrote>>

(* Faulty variant: the parent keeps its write end. *)
ParentReadsOwnEnd(c) ==
  /\ Goto(c, "parent", "reading")
  /\ cap' = [cap EXCEPT ![c] = ReadSize]
  /\ UNCHANGED <<fdVars, len, starved, result, childVars, buffered, wrote>>

(* The parent closes its write end, or the end would never come, and       *)
(* allocates out_buf.                                                      *)
ParentReads(c) ==
  /\ Goto(c, "parent", "reading")
  /\ ends' = [ends EXCEPT ![c] = @ \ {"write"}]
  /\ cap' = [cap EXCEPT ![c] = ReadSize]
  /\ UNCHANGED <<kind, marked, len, starved, result, childVars, buffered, wrote>>

(* No memory for out_buf: the call returns its first `res' and leaves the  *)
(* child to itself, neither read nor waited for.                           *)
ParentStarves(c) ==
  /\ Return(c, "parent", Error)
  /\ ends' = [ends EXCEPT ![c] = {}]
  /\ starved' = starved \cup {c}
  /\ UNCHANGED <<kind, marked, len, cap, childVars, buffered, wrote>>

Fits(c, bytes) == len[c] + bytes <= cap[c]

(* read() returns some of what is there, at most a buffer full; out_buf    *)
(* grows to twice the need when it has to.                                 *)
Read(c) ==
  /\ Goto(c, "reading", "reading")
  /\ \E bytes \in 1 .. ReadSize :
       /\ bytes <= buffered[c]
       /\ buffered' = [buffered EXCEPT ![c] = @ - bytes]
       /\ len' = [len EXCEPT ![c] = @ + bytes]
       /\ cap' = [cap EXCEPT ![c] =
                    IF Fits(c, bytes) THEN @ ELSE (len[c] + bytes) * 2]
  /\ UNCHANGED <<fdVars, starved, result, childVars, wrote>>

(* realloc fails: what was read last is lost and reading ends. *)
ReadStarves(c) ==
  /\ Goto(c, "reading", "closing")
  /\ \E bytes \in 1 .. ReadSize :
       /\ bytes <= buffered[c]
       /\ ~Fits(c, bytes)
       /\ buffered' = [buffered EXCEPT ![c] = @ - bytes]
  /\ starved' = starved \cup {c}
  /\ UNCHANGED <<fdVars, len, cap, result, childVars, wrote>>

(* Faulty variant: nothing there is taken for the end. *)
AtEndIfEmpty(c) == buffered[c] = 0

(* read() returns 0: the pipe is empty and has no writer. *)
AtEnd(c) == buffered[c] = 0 /\ ~Held(c, "write")

ReadEnd(c) ==
  /\ AtEnd(c)
  /\ Goto(c, "reading", "closing")
  /\ UNCHANGED <<fdVars, len, cap, starved, result, childVars, buffered, wrote>>

CloseRead(c) ==
  /\ Goto(c, "closing", "waiting")
  /\ ends' = [ends EXCEPT ![c] = {}]
  /\ UNCHANGED <<kind, marked, len, cap, starved, result, childVars, buffered, wrote>>

(* Faulty variant: waitpid does not block (WNOHANG), and wait_status is    *)
(* the 0 it was initialized with, which reads as an exit with 0.           *)
WaitWithoutBlocking(c) ==
  /\ Return(c, "waiting",
            IF child[c] = "zombie" THEN fate[c] ELSE [type |-> "exited", code |-> 0])
  /\ child' = [child EXCEPT ![c] = IF @ = "zombie" THEN "reaped" ELSE @]
  /\ UNCHANGED <<len, cap, starved, fdVars, held, kept, started, total, fate, buffered, wrote>>

(* waitpid() and the reading of wait_status. *)
Wait(c) ==
  /\ child[c] = "zombie"
  /\ child' = [child EXCEPT ![c] = "reaped"]
  /\ Return(c, "waiting", fate[c])
  /\ UNCHANGED <<len, cap, starved, fdVars, held, kept, started, total, fate, buffered, wrote>>

-----------------------------------------------------------------------------
(* The child. *)

End(c, status) ==
  /\ child' = [child EXCEPT ![c] = "zombie"]
  /\ held' = [held EXCEPT ![c] = {}]
  /\ fate' = [fate EXCEPT ![c] = status]
  /\ UNCHANGED <<callVars, fdVars, kept, started, total, buffered, wrote>>

(* dup2 onto stdout and stderr, close, execvp: what is kept is what was not*)
(* marked, and the write end as the program's output.                      *)
Exec(c) ==
  /\ child[c] = "forked"
  /\ child' = [child EXCEPT ![c] = "running"]
  /\ held' = [held EXCEPT ![c] =
       {e \in kept[c] : e[1] # c}
         \cup (IF kind[c] = "exec" THEN {<<c, "write">>} ELSE {})]
  /\ started' = started \cup {c}
  /\ \E n \in 0 .. MaxOutput : total' = [total EXCEPT ![c] = n]
  /\ UNCHANGED <<callVars, fdVars, kept, fate, buffered, wrote>>

(* execvp fails: _exit(1), an exit like that of a program. *)
ExecFails(c) ==
  child[c] = "forked" /\ End(c, [type |-> "exited", code |-> 1])

(* The program writes; with the pipe full it has to wait.  What it writes  *)
(* under zmm_sys_exec_redirect goes elsewhere.                             *)
Write(c) ==
  /\ child[c] = "running" /\ wrote[c] < total[c]
  /\ kind[c] = "exec" => Held(c, "read") /\ buffered[c] < PipeSize
  /\ wrote' = [wrote EXCEPT ![c] = @ + 1]
  /\ buffered' = [buffered EXCEPT ![c] = IF kind[c] = "exec" THEN @ + 1 ELSE @]
  /\ UNCHANGED <<callVars, fdVars, childVars>>

(* Nobody can read what it writes: SIGPIPE. *)
BreakPipe(c) ==
  /\ child[c] = "running" /\ wrote[c] < total[c]
  /\ kind[c] = "exec" /\ ~Held(c, "read")
  /\ End(c, [type |-> "signaled", code |-> 1])

Exit(c) ==
  /\ child[c] = "running" /\ wrote[c] = total[c]
  /\ \E k \in {0, 1} : End(c, [type |-> "exited", code |-> k])

(* Somebody kills the program. *)
Killed(c) == child[c] = "running" /\ End(c, [type |-> "signaled", code |-> 1])

-----------------------------------------------------------------------------
CallStep(c) ==
  \/ CallFails(c) \/ Pipe(c) \/ MarkRead(c) \/ MarkWrite(c)
  \/ Fork(c) \/ ForkFails(c)
  \/ ParentReads(c) \/ ParentStarves(c)
  \/ Read(c) \/ ReadStarves(c) \/ ReadEnd(c) \/ CloseRead(c) \/ Wait(c)

ChildStep(c) == Exec(c) \/ ExecFails(c) \/ Write(c) \/ BreakPipe(c) \/ Exit(c)

Finished ==
  /\ \A c \in Caller : pc[c] = "returned" /\ child[c] \notin {"forked", "running"}
  /\ UNCHANGED vars

Next == (\E c \in Caller : CallStep(c) \/ ChildStep(c) \/ Killed(c)) \/ Finished

(* Threads are scheduled, and a program that can go on goes on until it    *)
(* ends; whether it may be killed is left open.                            *)
Fairness == \A c \in Caller : WF_vars(CallStep(c)) /\ WF_vars(ChildStep(c))

Spec == Init /\ [][Next]_vars /\ Fairness

-----------------------------------------------------------------------------
(* The memcpy in the loop of zmm_sys_exec stays inside out_buf, however the*)
(* reads split the output.                                                 *)
NoOverrun == \A c \in Caller : len[c] <= cap[c]

(* A status other than TERM_ERROR is that of the call's own child, which is*)
(* then reaped; and no call leaves a child behind unless it had no memory  *)
(* to read its output.                                                     *)
ResultHonest ==
  \A c \in Caller : pc[c] = "returned" =>
    \/ child[c] = "reaped" /\ result[c] = fate[c]
    \/ child[c] = "none" /\ result[c] = Error
    \/ c \in starved /\ result[c] = Error

(* Whatever ends a program, the call returns all it wrote, unless out_buf  *)
(* could not grow.                                                         *)
OutputComplete ==
  \A c \in Caller :
    /\ pc[c] = "returned" /\ kind[c] = "exec"
    /\ result[c] # Error /\ c \notin starved
    => len[c] = wrote[c]

(* No path out of zmm_sys_exec, early or late, leaves an end of its pipe   *)
(* open in the script: a build of many steps would run out of descriptors. *)
DescriptorsClosed == \A c \in Caller : pc[c] = "returned" => ends[c] = {}

(* The window between pipe() and fcntl(FD_CLOEXEC) lets a program of       *)
(* another call hold a call's output open beyond its execvp, so that the   *)
(* call returns no earlier than that program ends.  The order pipe, fcntl, *)
(* fork in each call keeps this from being mutual.                         *)
Holds(c, d) == c # d /\ child[c] = "running" /\ <<d, "write">> \in held[c]

NoMutualHold == \A c, d \in Caller : ~(Holds(c, d) /\ Holds(d, c))

(* Every call returns: the pipe is read until the end before the child is  *)
(* waited for, the end comes, and the child can be waited for.             *)
EveryCallReturns == \A c \in Caller : <>(pc[c] = "returned")

(* sys.h on TERM_ERROR: "The process failed to even start."  A call whose  *)
(* child could not become the program says so.                             *)
NotStartedIsError ==
  \A c \in Caller :
    pc[c] = "returned" /\ c \notin started => result[c] = Error

-----------------------------------------------------------------------------
(* The inductive invariant of the proofs.                                  *)

(* The ends a call has open at each of its points.                         *)
EndsByPoint ==
  \A c \in Caller :
    /\ pc[c] \in {"call", "waiting", "returned"} => ends[c] = {}
    /\ pc[c] \in {"piped", "half", "marked", "parent"} =>
         ends[c] = Ends /\ kind[c] = "exec"
    /\ pc[c] \in {"reading", "closing"} => ends[c] = {"read"} /\ kind[c] = "exec"

(* The child at each point of the call.                                    *)
ChildByPoint ==
  \A c \in Caller :
    /\ pc[c] \in {"call", "piped", "half", "marked"} => child[c] = "none"
    /\ pc[c] \in {"parent", "reading", "closing", "waiting"} =>
         child[c] \in {"forked", "running", "zombie"}
    /\ c \in starved => pc[c] \in {"closing", "waiting", "returned"}
    /\ child[c] \in {"zombie", "reaped"} => fate[c] \in Fates

(* What a child holds: its output as long as it lives, and otherwise what  *)
(* it kept of its inheritance.                                             *)
HeldByChild ==
  \A c \in Caller :
    /\ child[c] = "none" => held[c] = {} /\ kept[c] = {}
    /\ child[c] \in {"zombie", "reaped"} => held[c] = {}
    /\ child[c] = "running" => held[c] \subseteq kept[c] \cup {<<c, "write">>}
    /\ child[c] \in {"forked", "running"} /\ kind[c] = "exec" =>
         <<c, "write">> \in held[c]

(* Every unit written is in the pipe or in out_buf, and there is none to   *)
(* come when the loop has seen the end.                                    *)
Accounted ==
  \A c \in Caller :
    /\ pc[c] \in {"call", "piped", "half", "marked", "parent"} => len[c] = 0
    /\ child[c] \in {"none", "forked"} => wrote[c] = 0
    /\ len[c] + buffered[c] <= wrote[c]
    /\ kind[c] = "exec" /\ c \notin starved => len[c] + buffered[c] = wrote[c]
    /\ /\ pc[c] \in {"closing", "waiting", "returned"}
       /\ kind[c] = "exec" /\ c \notin starved /\ child[c] # "none"
       => buffered[c] = 0 /\ child[c] \in {"zombie", "reaped"}

CallInv ==
  /\ TypeOK /\ EndsByPoint /\ ChildByPoint /\ HeldByChild /\ Accounted
  /\ NoOverrun /\ ResultHonest

(* A call marks its read end first, then its write end, then it forks.     *)
ReadMarked ==
  \A c \in Caller :
    pc[c] \in {"half", "marked", "parent", "reading", "closing"} =>
      "read" \in marked[c]

WriteMarked ==
  \A c \in Caller : pc[c] \in {"marked", "parent"} => "write" \in marked[c]

(* Of two calls at most one kept this end of the other's pipe.             *)
KeptOneWay(end) ==
  \A c, d \in Caller :
    c # d /\ <<d, end>> \in kept[c] => <<c, end>> \notin kept[d]

IInv ==
  /\ CallInv
  /\ ReadMarked /\ WriteMarked
  /\ KeptOneWay("read") /\ KeptOneWay("write")
==============================================================================
