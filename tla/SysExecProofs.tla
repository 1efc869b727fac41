---------------------------- MODULE SysExecProofs ----------------------------
(***************************************************************************)
(* Proofs about SysExec and SysExecWindows, for any number of threads and  *)
(* any sizes: first for POSIX alone, then for either platform.  What the   *)
(* first part shows of the steps of POSIX the second uses as it is; added  *)
(* are the steps of Windows.                                               *)
(***************************************************************************)
EXTENDS SysExecWindows, TLAPS

USE DEF None, Error, Fates, Ends

LEMMA InitKeeps == Init => CallInv
BY SizesAssumption
   DEF Init, CallInv, TypeOK, EndsByPoint, ChildByPoint, HeldByChild, Accounted, NoOverrun, ResultHonest

-----------------------------------------------------------------------------
(* The steps of a call *)

LEMMA CallFailsKeeps ==
  ASSUME CallInv, NEW c \in Caller, CallFails(c)
  PROVE  CallInv'
<1>1. EndsByPoint' /\ ChildByPoint' /\ NoOverrun'
  BY DEF CallInv, EndsByPoint, ChildByPoint, NoOverrun, CallFails,
         Return, Goto, fdVars, childVars
<1>2. TypeOK'
  BY SizesAssumption DEF CallInv, TypeOK, CallFails, Return, Goto, fdVars,
         childVars
<1>3. HeldByChild'
  BY DEF CallInv, HeldByChild, CallFails, Return, Goto, fdVars, childVars
<1>4. Accounted'
  BY SizesAssumption DEF CallInv, TypeOK, ChildByPoint, Accounted, CallFails,
         Return, Goto, fdVars, childVars
<1>5. ResultHonest'
  BY DEF CallInv, TypeOK, ChildByPoint, ResultHonest, CallFails, Return, Goto,
         fdVars, childVars
<1> QED BY <1>1, <1>2, <1>3, <1>4, <1>5 DEF CallInv

LEMMA PipeKeeps ==
  ASSUME CallInv, NEW c \in Caller, Pipe(c)
  PROVE  CallInv'
<1>1. ChildByPoint' /\ Accounted' /\ NoOverrun' /\ ResultHonest'
  BY DEF CallInv, ChildByPoint, Accounted, NoOverrun, ResultHonest, Pipe, Goto,
         childVars
<1>2. TypeOK'
  BY SizesAssumption DEF CallInv, TypeOK, Pipe, Goto, childVars
<1>3. EndsByPoint'
  BY DEF CallInv, TypeOK, EndsByPoint, Pipe, Goto, childVars
<1>4. HeldByChild'
  BY DEF CallInv, HeldByChild, Pipe, Goto, childVars
<1> QED BY <1>1, <1>2, <1>3, <1>4 DEF CallInv

LEMMA MarkReadKeeps ==
  ASSUME CallInv, NEW c \in Caller, MarkRead(c)
  PROVE  CallInv'
<1>1. EndsByPoint' /\ ChildByPoint' /\ Accounted' /\
      NoOverrun' /\ ResultHonest'
  BY DEF CallInv, EndsByPoint, ChildByPoint, Accounted, NoOverrun,
         ResultHonest, MarkRead, Mark, Goto, childVars
<1>2. TypeOK'
  BY SizesAssumption DEF CallInv, TypeOK, MarkRead, Mark, Goto, childVars
<1>3. HeldByChild'
  BY DEF CallInv, HeldByChild, MarkRead, Mark, Goto, childVars
<1> QED BY <1>1, <1>2, <1>3 DEF CallInv

LEMMA MarkWriteKeeps ==
  ASSUME CallInv, NEW c \in Caller, MarkWrite(c)
  PROVE  CallInv'
<1>1. ChildByPoint' /\ Accounted' /\ NoOverrun' /\
      ResultHonest'
  BY DEF CallInv, ChildByPoint, Accounted, NoOverrun, ResultHonest,
         MarkWrite, Mark, Goto, childVars
<1>2. TypeOK'
  BY SizesAssumption DEF CallInv, TypeOK, MarkWrite, Mark, Goto, childVars
<1>3. EndsByPoint'
  BY DEF CallInv, TypeOK, EndsByPoint, MarkWrite, Mark, Goto, childVars
<1>4. HeldByChild'
  BY DEF CallInv, HeldByChild, MarkWrite, Mark, Goto, childVars
<1> QED BY <1>1, <1>2, <1>3, <1>4 DEF CallInv

LEMMA ForkKeeps ==
  ASSUME CallInv, NEW c \in Caller, Fork(c)
  PROVE  CallInv'
<1>1. NoOverrun'
  BY DEF CallInv, NoOverrun, Fork, OpenEnds, Goto, fdVars
<1>2. TypeOK'
  BY SizesAssumption DEF CallInv, TypeOK, Fork, OpenEnds, Goto, fdVars
<1>3. EndsByPoint'
  BY DEF CallInv, TypeOK, EndsByPoint, Fork, OpenEnds, Goto, fdVars
<1>4. ChildByPoint'
  BY DEF CallInv, TypeOK, ChildByPoint, Fork, OpenEnds, Goto, fdVars
<1>5. HeldByChild'
  <2>1. \A d \in Caller \ {c} :
          child'[d] = child[d] /\ held'[d] = held[d] /\ kept'[d] = kept[d]
    BY DEF CallInv, TypeOK, Fork
  <2>2. child'[c] = "forked" /\ held'[c] = OpenEnds /\ kind' = kind
    BY DEF CallInv, TypeOK, Fork, fdVars
  <2>3. kind[c] = "exec" => <<c, "write">> \in OpenEnds
    BY DEF CallInv, EndsByPoint, Fork, Goto, OpenEnds
  <2> QED BY <2>1, <2>2, <2>3 DEF CallInv, HeldByChild
<1>6. Accounted'
  BY SizesAssumption DEF CallInv, TypeOK, EndsByPoint, ChildByPoint, Accounted,
         Fork, OpenEnds, Goto, fdVars
<1>7. ResultHonest'
  BY DEF CallInv, TypeOK, ResultHonest, Fork, OpenEnds, Goto, fdVars
<1> QED BY <1>1, <1>2, <1>3, <1>4, <1>5, <1>6, <1>7 DEF CallInv

LEMMA ForkFailsKeeps ==
  ASSUME CallInv, NEW c \in Caller, ForkFails(c)
  PROVE  CallInv'
<1>1. ChildByPoint' /\ NoOverrun'
  BY DEF CallInv, ChildByPoint, NoOverrun, ForkFails, Return, Goto,
         childVars
<1>2. TypeOK'
  BY SizesAssumption DEF CallInv, TypeOK, ForkFails, Return, Goto, childVars
<1>3. EndsByPoint'
  BY DEF CallInv, TypeOK, EndsByPoint, ForkFails, Return, Goto, childVars
<1>4. HeldByChild'
  BY DEF CallInv, HeldByChild, ForkFails, Return, Goto, childVars
<1>5. Accounted'
  BY SizesAssumption DEF CallInv, TypeOK, ChildByPoint, Accounted, ForkFails,
         Return, Goto, childVars
<1>6. ResultHonest'
  BY DEF CallInv, TypeOK, ChildByPoint, ResultHonest, ForkFails, Return, Goto,
         childVars
<1> QED BY <1>1, <1>2, <1>3, <1>4, <1>5, <1>6 DEF CallInv

LEMMA ParentReadsKeeps ==
  ASSUME CallInv, NEW c \in Caller, ParentReads(c)
  PROVE  CallInv'
<1>1. ChildByPoint' /\ Accounted' /\ ResultHonest'
  BY DEF CallInv, ChildByPoint, Accounted, ResultHonest, ParentReads,
         Goto, childVars
<1>2. TypeOK'
  BY SizesAssumption DEF CallInv, TypeOK, ParentReads, Goto, childVars
<1>3. EndsByPoint'
  BY DEF CallInv, TypeOK, EndsByPoint, ParentReads, Goto, childVars
<1>4. HeldByChild'
  BY DEF CallInv, HeldByChild, ParentReads, Goto, childVars
<1>5. NoOverrun'
  BY SizesAssumption DEF CallInv, TypeOK, Accounted, NoOverrun, ParentReads,
         Goto, childVars
<1> QED BY <1>1, <1>2, <1>3, <1>4, <1>5 DEF CallInv

LEMMA ParentStarvesKeeps ==
  ASSUME CallInv, NEW c \in Caller, ParentStarves(c)
  PROVE  CallInv'
<1>1. Accounted' /\ NoOverrun'
  BY DEF CallInv, Accounted, NoOverrun, ParentStarves, Return, Goto,
         childVars
<1>2. TypeOK'
  BY SizesAssumption DEF CallInv, TypeOK, ParentStarves, Return, Goto, childVars
<1>3. EndsByPoint'
  BY DEF CallInv, TypeOK, EndsByPoint, ParentStarves, Return, Goto, childVars
<1>4. ChildByPoint'
  BY DEF CallInv, TypeOK, ChildByPoint, ParentStarves, Return, Goto, childVars
<1>5. HeldByChild'
  BY DEF CallInv, HeldByChild, ParentStarves, Return, Goto, childVars
<1>6. ResultHonest'
  BY DEF CallInv, TypeOK, ResultHonest, ParentStarves, Return, Goto, childVars
<1> QED BY <1>1, <1>2, <1>3, <1>4, <1>5, <1>6 DEF CallInv

LEMMA ReadKeeps ==
  ASSUME CallInv, NEW c \in Caller, Read(c)
  PROVE  CallInv'
<1>1. EndsByPoint' /\ ChildByPoint' /\ ResultHonest'
  BY DEF CallInv, EndsByPoint, ChildByPoint, ResultHonest, Read,
         Fits, Goto, fdVars, childVars
<1>2. TypeOK'
  BY SizesAssumption DEF CallInv, TypeOK, Accounted, Read, Fits, Goto, fdVars,
         childVars
<1>3. HeldByChild'
  BY DEF CallInv, HeldByChild, Read, Fits, Goto, fdVars, childVars
<1>4. Accounted'
  BY SizesAssumption DEF CallInv, TypeOK, Accounted, Read, Fits, Goto, fdVars,
         childVars
<1>5. NoOverrun'
  BY SizesAssumption DEF CallInv, TypeOK, NoOverrun, Read, Fits, Goto, fdVars,
         childVars
<1> QED BY <1>1, <1>2, <1>3, <1>4, <1>5 DEF CallInv

LEMMA ReadStarvesKeeps ==
  ASSUME CallInv, NEW c \in Caller, ReadStarves(c)
  PROVE  CallInv'
<1>1. EndsByPoint' /\ NoOverrun' /\ ResultHonest'
  BY DEF CallInv, EndsByPoint, NoOverrun, ResultHonest, ReadStarves,
         Fits, Goto, fdVars, childVars
<1>2. TypeOK'
  BY SizesAssumption DEF CallInv, TypeOK, ReadStarves, Fits, Goto, fdVars,
         childVars
<1>3. ChildByPoint'
  BY DEF CallInv, TypeOK, ChildByPoint, ReadStarves, Fits, Goto, fdVars,
         childVars
<1>4. HeldByChild'
  BY DEF CallInv, HeldByChild, ReadStarves, Fits, Goto, fdVars, childVars
<1>5. Accounted'
  BY SizesAssumption DEF CallInv, TypeOK, Accounted, ReadStarves, Fits, Goto,
         fdVars, childVars
<1> QED BY <1>1, <1>2, <1>3, <1>4, <1>5 DEF CallInv

LEMMA ReadEndKeeps ==
  ASSUME CallInv, NEW c \in Caller, ReadEnd(c)
  PROVE  CallInv'
<1>1. EndsByPoint' /\ ChildByPoint' /\ NoOverrun' /\
      ResultHonest'
  BY DEF CallInv, EndsByPoint, ChildByPoint, NoOverrun, ResultHonest,
         ReadEnd, AtEnd, Held, Goto, fdVars, childVars
<1>2. TypeOK'
  BY SizesAssumption DEF CallInv, TypeOK, ReadEnd, AtEnd, Held, Goto, fdVars,
         childVars
<1>3. HeldByChild'
  BY DEF CallInv, HeldByChild, ReadEnd, AtEnd, Held, Goto, fdVars, childVars
<1>4. Accounted'
  BY SizesAssumption DEF CallInv, TypeOK, HeldByChild, Accounted, ReadEnd, AtEnd,
         Held, Goto, fdVars, childVars
<1> QED BY <1>1, <1>2, <1>3, <1>4 DEF CallInv

LEMMA CloseReadKeeps ==
  ASSUME CallInv, NEW c \in Caller, CloseRead(c)
  PROVE  CallInv'
<1>1. ChildByPoint' /\ Accounted' /\ NoOverrun' /\
      ResultHonest'
  BY DEF CallInv, ChildByPoint, Accounted, NoOverrun, ResultHonest,
         CloseRead, Goto, childVars
<1>2. TypeOK'
  BY SizesAssumption DEF CallInv, TypeOK, CloseRead, Goto, childVars
<1>3. EndsByPoint'
  BY DEF CallInv, TypeOK, EndsByPoint, CloseRead, Goto, childVars
<1>4. HeldByChild'
  BY DEF CallInv, HeldByChild, CloseRead, Goto, childVars
<1> QED BY <1>1, <1>2, <1>3, <1>4 DEF CallInv

LEMMA WaitKeeps ==
  ASSUME CallInv, NEW c \in Caller, Wait(c)
  PROVE  CallInv'
<1>1. EndsByPoint' /\ Accounted' /\ NoOverrun'
  BY DEF CallInv, EndsByPoint, Accounted, NoOverrun, Wait, Return,
         Goto, fdVars
<1>2. TypeOK'
  BY SizesAssumption DEF CallInv, TypeOK, Wait, Return, Goto, fdVars
<1>3. ChildByPoint'
  BY DEF CallInv, TypeOK, ChildByPoint, Wait, Return, Goto, fdVars
<1>4. HeldByChild'
  BY DEF CallInv, TypeOK, HeldByChild, Wait, Return, Goto, fdVars
<1>5. ResultHonest'
  BY DEF CallInv, TypeOK, ResultHonest, Wait, Return, Goto, fdVars
<1> QED BY <1>1, <1>2, <1>3, <1>4, <1>5 DEF CallInv

-----------------------------------------------------------------------------
(* The steps of a child *)

(* However a child ends, it holds nothing any more and has a fate. *)
LEMMA EndKeeps ==
  ASSUME CallInv, NEW c \in Caller, NEW status \in Fates,
         child[c] \in {"forked", "running"}, End(c, status)
  PROVE  CallInv'
<1>1. TypeOK'
  BY DEF CallInv, TypeOK, End, callVars, fdVars
<1>2. ChildByPoint'
  BY DEF CallInv, TypeOK, ChildByPoint, End, callVars
<1>3. HeldByChild'
  BY DEF CallInv, TypeOK, HeldByChild, End, fdVars
<1>4. Accounted'
  BY DEF CallInv, TypeOK, Accounted, End, callVars, fdVars
<1>5. ResultHonest'
  BY DEF CallInv, TypeOK, ChildByPoint, ResultHonest, End, callVars
<1>6. EndsByPoint' /\ NoOverrun'
  BY DEF CallInv, EndsByPoint, NoOverrun, End, callVars, fdVars
<1> QED BY <1>1, <1>2, <1>3, <1>4, <1>5, <1>6 DEF CallInv

LEMMA ExecKeeps ==
  ASSUME CallInv, NEW c \in Caller, Exec(c)
  PROVE  CallInv'
<1>1. EndsByPoint' /\ ChildByPoint' /\ Accounted' /\
      NoOverrun' /\ ResultHonest'
  BY DEF CallInv, EndsByPoint, ChildByPoint, Accounted, NoOverrun,
         ResultHonest, Exec, callVars, fdVars
<1>2. TypeOK'
  <2>1. held' \in [Caller -> SUBSET (Caller \X Ends)]
    BY DEF CallInv, TypeOK, Exec
  <2>2. total' \in [Caller -> 0 .. MaxOutput] /\ started' \subseteq Caller
    BY DEF CallInv, TypeOK, Exec
  <2>3. \A d \in Caller : wrote[d] <= total'[d]
    BY DEF CallInv, TypeOK, Accounted, Exec
  <2> QED BY <2>1, <2>2, <2>3 DEF CallInv, TypeOK, Exec, callVars, fdVars
<1>3. HeldByChild'
  <2>1. \A d \in Caller \ {c} :
          child'[d] = child[d] /\ held'[d] = held[d] /\ kept'[d] = kept[d]
    BY DEF CallInv, TypeOK, Exec
  <2>2. child'[c] = "running" /\ kept'[c] = kept[c] /\ kind' = kind
    BY DEF CallInv, TypeOK, Exec, fdVars
  <2>3. held'[c] = {e \in kept[c] : e[1] # c}
                     \cup (IF kind[c] = "exec" THEN {<<c, "write">>} ELSE {})
    BY DEF CallInv, TypeOK, Exec
  <2> QED BY <2>1, <2>2, <2>3 DEF CallInv, HeldByChild
<1> QED BY <1>1, <1>2, <1>3 DEF CallInv

LEMMA ExecFailsKeeps ==
  ASSUME CallInv, NEW c \in Caller, ExecFails(c)
  PROVE  CallInv'
BY EndKeeps DEF ExecFails

LEMMA WriteKeeps ==
  ASSUME CallInv, NEW c \in Caller, Write(c)
  PROVE  CallInv'
<1>1. EndsByPoint' /\ ChildByPoint' /\ NoOverrun' /\
      ResultHonest'
  BY DEF CallInv, EndsByPoint, ChildByPoint, NoOverrun, ResultHonest,
         Write, Held, callVars, fdVars, childVars
<1>2. TypeOK'
  BY SizesAssumption DEF CallInv, TypeOK, Write, Held, callVars, fdVars,
         childVars
<1>3. HeldByChild'
  BY DEF CallInv, HeldByChild, Write, Held, callVars, fdVars, childVars
<1>4. Accounted'
  BY SizesAssumption DEF CallInv, TypeOK, Accounted, Write, Held, callVars,
         fdVars, childVars
<1> QED BY <1>1, <1>2, <1>3, <1>4 DEF CallInv

LEMMA BreakPipeKeeps ==
  ASSUME CallInv, NEW c \in Caller, BreakPipe(c)
  PROVE  CallInv'
BY EndKeeps DEF BreakPipe

LEMMA ExitKeeps ==
  ASSUME CallInv, NEW c \in Caller, Exit(c)
  PROVE  CallInv'
BY EndKeeps DEF Exit

LEMMA KilledKeeps ==
  ASSUME CallInv, NEW c \in Caller, Killed(c)
  PROVE  CallInv'
BY EndKeeps DEF Killed

-----------------------------------------------------------------------------
LEMMA StutterKeeps == ASSUME CallInv, UNCHANGED vars PROVE CallInv'
BY DEF CallInv, TypeOK, EndsByPoint, ChildByPoint, HeldByChild, Accounted,
       NoOverrun, ResultHonest, vars, callVars, fdVars, childVars

LEMMA StepKeeps ==
  ASSUME CallInv, NEW c \in Caller, CallStep(c) \/ ChildStep(c) \/ Killed(c)
  PROVE  CallInv'
<1>1. CASE CallStep(c)
  BY <1>1, CallFailsKeeps, PipeKeeps, MarkReadKeeps, MarkWriteKeeps, ForkKeeps,
     ForkFailsKeeps, ParentReadsKeeps, ParentStarvesKeeps, ReadKeeps,
     ReadStarvesKeeps, ReadEndKeeps, CloseReadKeeps, WaitKeeps DEF CallStep
<1>2. CASE ChildStep(c) \/ Killed(c)
  BY <1>2, ExecKeeps, ExecFailsKeeps, WriteKeeps, BreakPipeKeeps, ExitKeeps,
     KilledKeeps DEF ChildStep
<1> QED BY <1>1, <1>2

-----------------------------------------------------------------------------
(* Marks, and what is kept of other calls' pipes *)

(* Steps that neither mark an end nor bring the call nearer to its fork. *)
LEMMA MarksFrame ==
  ASSUME marked' = marked,
         \A c \in Caller :
           pc'[c] = pc[c] \/ pc'[c] \in {"piped", "waiting", "returned"}
           \/ (pc[c] = "marked" /\ pc'[c] = "parent")
           \/ (pc[c] \in {"parent", "reading"}
                 /\ pc'[c] \in {"reading", "closing"})
  PROVE  /\ ReadMarked => ReadMarked'
         /\ WriteMarked => WriteMarked'
BY DEF ReadMarked, WriteMarked

LEMMA MarksKeep ==
  ASSUME CallInv, NEW c \in Caller, CallStep(c) \/ ChildStep(c) \/ Killed(c)
  PROVE  /\ ReadMarked => ReadMarked'
         /\ WriteMarked => WriteMarked'
<1> USE DEF CallInv, TypeOK, Goto, Return, fdVars, childVars, callVars
<1>1. CASE MarkRead(c)
  BY <1>1 DEF MarkRead, Mark, ReadMarked, WriteMarked
<1>2. CASE MarkWrite(c)
  BY <1>2 DEF MarkWrite, Mark, ReadMarked, WriteMarked
<1>3. CASE \/ CallFails(c) \/ Pipe(c) \/ Fork(c) \/ ForkFails(c) \/ ParentReads(c)
           \/ ParentStarves(c)
  BY <1>3, MarksFrame
  DEF CallFails, Pipe, Fork, ForkFails, ParentReads, ParentStarves
<1>4. CASE \/ Read(c) \/ ReadStarves(c) \/ ReadEnd(c) \/ CloseRead(c) \/ Wait(c)
  BY <1>4, MarksFrame DEF Read, ReadStarves, ReadEnd, CloseRead, Wait
<1>5. CASE ChildStep(c) \/ Killed(c)
  BY <1>5, MarksFrame
  DEF ChildStep, Exec, ExecFails, Write, BreakPipe, Exit, Killed, End
<1> QED BY <1>1, <1>2, <1>3, <1>4, <1>5 DEF CallStep

(* A new program keeps the unmarked ends only, and if those belong to calls *)
(* whose program has not been started, then these have kept nothing yet.   *)
LEMMA InheritsOneWay ==
  ASSUME CallInv, NEW end \in Ends, KeptOneWay(end),
         \A d \in Caller : end \in ends[d] \ marked[d] => child[d] = "none",
         NEW c \in Caller,
         kept' = [kept EXCEPT ![c] = {e \in OpenEnds : e[2] \notin marked[e[1]]}]
  PROVE  KeptOneWay(end)'
<1>1. \A d \in Caller \ {c} : kept'[d] = kept[d]
  BY DEF CallInv, TypeOK
<1>2. ASSUME NEW d \in Caller \ {c}, <<d, end>> \in kept'[c]
      PROVE  kept[d] = {}
  <2>1. end \in ends[d] \ marked[d]
    BY <1>2 DEF CallInv, TypeOK, OpenEnds
  <2> QED BY <2>1 DEF CallInv, HeldByChild
<1> QED BY <1>1, <1>2 DEF KeptOneWay

LEMMA KeptFrame ==
  ASSUME NEW end \in Ends, KeptOneWay(end), kept' = kept
  PROVE  KeptOneWay(end)'
BY DEF KeptOneWay

(* An end that a new program would keep belongs to a call that has not     *)
(* forked.                                                                 *)
LEMMA UnmarkedReadIsEarly ==
  ASSUME CallInv, ReadMarked, NEW d \in Caller, "read" \in ends[d] \ marked[d]
  PROVE  child[d] = "none"
BY DEF CallInv, TypeOK, EndsByPoint, ChildByPoint, ReadMarked

LEMMA UnmarkedWriteIsEarly ==
  ASSUME CallInv, WriteMarked, NEW d \in Caller, "write" \in ends[d] \ marked[d]
  PROVE  child[d] = "none"
BY DEF CallInv, TypeOK, EndsByPoint, ChildByPoint, WriteMarked

LEMMA KeptChanges ==
  ASSUME NEW c \in Caller, CallStep(c) \/ ChildStep(c) \/ Killed(c)
  PROVE  \/ kept' = kept
         \/ kept' = [kept EXCEPT ![c] =
                       {e \in OpenEnds : e[2] \notin marked[e[1]]}]
<1> USE DEF childVars
<1>1. CASE CallStep(c)
  BY <1>1
  DEF CallStep, CallFails, Pipe, MarkRead, MarkWrite, Mark, Fork, ForkFails,
      ParentReads, ParentStarves, Read, ReadStarves, ReadEnd, CloseRead, Wait
<1>2. CASE ChildStep(c) \/ Killed(c)
  BY <1>2 DEF ChildStep, Exec, ExecFails, Write, BreakPipe, Exit, Killed, End
<1> QED BY <1>1, <1>2

LEMMA NextKeeps == IInv /\ [Next]_vars => IInv'
<1> SUFFICES ASSUME IInv, [Next]_vars PROVE IInv'
  OBVIOUS
<1>1. ASSUME NEW c \in Caller, CallStep(c) \/ ChildStep(c) \/ Killed(c)
      PROVE  IInv'
  <2>1. CallInv' /\ ReadMarked' /\ WriteMarked'
    BY <1>1, StepKeeps, MarksKeep DEF IInv
  <2>2. KeptOneWay("read")'
    BY <1>1, KeptChanges, KeptFrame, InheritsOneWay, UnmarkedReadIsEarly DEF IInv
  <2>3. KeptOneWay("write")'
    BY <1>1, KeptChanges, KeptFrame, InheritsOneWay, UnmarkedWriteIsEarly DEF IInv
  <2> QED BY <2>1, <2>2, <2>3 DEF IInv
<1>2. CASE UNCHANGED vars
  BY <1>2, StutterKeeps
  DEF vars, callVars, fdVars, childVars, IInv, ReadMarked, WriteMarked, KeptOneWay
<1> QED BY <1>1, <1>2 DEF Next, Finished

LEMMA InitIInv == Init => IInv
BY InitKeeps DEF Init, IInv, ReadMarked, WriteMarked, KeptOneWay

(* The invariant of all that follows. *)
THEOREM Invariance == Spec => []IInv
BY InitIInv, NextKeeps, PTL DEF Spec

(* Every variable keeps its type; out_buf never says it has more than the  *)
(* program wrote.                                                          *)
THEOREM TypeCorrect == Spec => []TypeOK
<1>1. IInv => TypeOK
  BY DEF IInv, CallInv
<1> QED BY <1>1, Invariance, PTL

(* zmm_sys_exec never writes past out_buf, for every size of the buffers   *)
(* and every splitting of the output by read().                            *)
THEOREM BufferSafe == Spec => []NoOverrun
<1>1. IInv => NoOverrun
  BY DEF IInv, CallInv
<1> QED BY <1>1, Invariance, PTL

(* What zmm_sys_exec returns is the fate of its own child, reaped, however *)
(* many threads execute programs.                                          *)
THEOREM ReturnsFate == Spec => []ResultHonest
<1>1. IInv => ResultHonest
  BY DEF IInv, CallInv
<1> QED BY <1>1, Invariance, PTL

(* A call that found no lack of memory returns all its program wrote.      *)
THEOREM ReturnsAllOutput == Spec => []OutputComplete
<1>1. IInv => OutputComplete
  <2> SUFFICES ASSUME IInv, NEW c \in Caller,
                      pc[c] = "returned", kind[c] = "exec",
                      result[c] # Error, c \notin starved
               PROVE  len[c] = wrote[c]
    BY DEF OutputComplete
  <2>1. child[c] = "reaped"
    BY DEF IInv, CallInv, ResultHonest
  <2>2. len[c] + buffered[c] = wrote[c] /\ buffered[c] = 0
    BY <2>1 DEF IInv, CallInv, Accounted
  <2> QED BY <2>2 DEF IInv, CallInv, TypeOK
<1> QED BY <1>1, Invariance, PTL

(* The window before FD_CLOEXEC lets one of two calls wait for the other's *)
(* program, never each for the other's.                                    *)
THEOREM WaitsOneWay == Spec => []NoMutualHold
<1>1. IInv => NoMutualHold
  <2> SUFFICES ASSUME IInv, NEW c \in Caller, NEW d \in Caller,
                      Holds(c, d), Holds(d, c)
               PROVE  FALSE
    BY DEF NoMutualHold
  <2>1. <<d, "write">> \in kept[c] /\ <<c, "write">> \in kept[d]
    BY DEF IInv, CallInv, HeldByChild, Holds
  <2> QED BY <2>1 DEF IInv, KeptOneWay, Holds
<1> QED BY <1>1, Invariance, PTL

(* A call that has returned has no end of its pipe open. *)
THEOREM NothingLeftOpen == Spec => []DescriptorsClosed
<1>1. IInv => DescriptorsClosed
  BY DEF IInv, CallInv, EndsByPoint, DescriptorsClosed
<1> QED BY <1>1, Invariance, PTL

-----------------------------------------------------------------------------
(* The steps that only Windows has *)

LEMMA SetReadEndKeeps ==
  ASSUME CallInv, NEW c \in Caller, SetReadEnd(c)
  PROVE  CallInv'
<1>1. ChildByPoint' /\ Accounted' /\ NoOverrun' /\ ResultHonest'
  BY DEF CallInv, ChildByPoint, Accounted, NoOverrun, ResultHonest, SetReadEnd,
         Mark, Goto, childVars
<1>2. TypeOK'
  BY SizesAssumption DEF CallInv, TypeOK, SetReadEnd, Mark, Goto, childVars
<1>3. EndsByPoint'
  BY DEF CallInv, TypeOK, EndsByPoint, SetReadEnd, Mark, Goto, childVars
<1>4. HeldByChild'
  BY DEF CallInv, HeldByChild, SetReadEnd, Mark, Goto, childVars
<1> QED BY <1>1, <1>2, <1>3, <1>4 DEF CallInv

(* The program is there at once, with its own write end among what it      *)
(* inherits.                                                               *)
LEMMA CreateProcessKeeps ==
  ASSUME CallInv, NEW c \in Caller, CreateProcess(c),
         \A d \in Caller : "write" \notin marked[d]
  PROVE  CallInv'
<1>1. TypeOK'
  <2>1. held' \in [Caller -> SUBSET (Caller \X Ends)]
    BY DEF CallInv, TypeOK, CreateProcess, Inherited, OpenEnds
  <2>2. kept' \in [Caller -> SUBSET (Caller \X Ends)]
    BY DEF CallInv, TypeOK, CreateProcess, Inherited, OpenEnds
  <2>3. total' \in [Caller -> 0 .. MaxOutput] /\ started' \subseteq Caller
    BY DEF CallInv, TypeOK, CreateProcess
  <2>4. child[c] = "none" \/ pc[c] = "call" \/ pc[c] = "marked"
    BY DEF CreateProcess, Goto
  <2>5. wrote[c] = 0
    BY <2>4 DEF CallInv, ChildByPoint, Accounted
  <2>6. \A d \in Caller : wrote[d] <= total'[d]
    BY <2>5, SizesAssumption DEF CallInv, TypeOK, CreateProcess
  <2> QED
    BY <2>1, <2>2, <2>3, <2>6 DEF CallInv, TypeOK, CreateProcess, Goto, fdVars
<1>2. EndsByPoint'
  BY DEF CallInv, TypeOK, EndsByPoint, CreateProcess, Goto, fdVars
<1>3. ChildByPoint'
  BY DEF CallInv, TypeOK, ChildByPoint, CreateProcess, Goto, fdVars
<1>4. HeldByChild'
  <2>1. \A d \in Caller \ {c} :
          child'[d] = child[d] /\ held'[d] = held[d] /\ kept'[d] = kept[d]
    BY DEF CallInv, TypeOK, CreateProcess
  <2>2. /\ child'[c] = "running" /\ kind' = kind
        /\ held'[c] = Inherited /\ kept'[c] = Inherited
    BY DEF CallInv, TypeOK, CreateProcess, fdVars
  <2>3. kind[c] = "exec" => <<c, "write">> \in Inherited
    BY DEF CallInv, EndsByPoint, CreateProcess, Goto, OpenEnds, Inherited
  <2> QED BY <2>1, <2>2, <2>3 DEF CallInv, HeldByChild
<1>5. Accounted'
  BY SizesAssumption DEF CallInv, TypeOK, EndsByPoint, ChildByPoint, Accounted,
         CreateProcess, Goto, fdVars
<1>6. NoOverrun' /\ ResultHonest'
  BY DEF CallInv, TypeOK, NoOverrun, ResultHonest, CreateProcess, Goto, fdVars
<1> QED BY <1>1, <1>2, <1>3, <1>4, <1>5, <1>6 DEF CallInv

LEMMA WindowsKeeps ==
  ASSUME CallInv, NEW c \in Caller,
         WindowsCall(c) \/ WindowsProgram(c) \/ Terminated(c),
         \A d \in Caller : "write" \notin marked[d]
  PROVE  CallInv'
<1>1. CASE WindowsCall(c)
  BY <1>1, CallFailsKeeps, PipeKeeps, SetReadEndKeeps, CreateProcessKeeps,
     ForkFailsKeeps, ParentReadsKeeps, ParentStarvesKeeps, ReadKeeps,
     ReadStarvesKeeps, ReadEndKeeps, CloseReadKeeps, WaitKeeps
  DEF WindowsCall, CreatePipe, CreateFails
<1>2. CASE WindowsProgram(c)
  <2>1. CASE WriteFails(c)
    BY <2>1, EndKeeps DEF WriteFails
  <2> QED BY <1>2, <2>1, WriteKeeps, ExitKeeps DEF WindowsProgram
<1>3. CASE Terminated(c)
  BY <1>3, EndKeeps DEF Terminated
<1> QED BY <1>1, <1>2, <1>3

(* The read end is marked before a program can inherit the pipe, the write *)
(* end never is.                                                           *)
LEMMA WindowsMarks ==
  ASSUME CallInv, NEW c \in Caller,
         WindowsCall(c) \/ WindowsProgram(c) \/ Terminated(c)
  PROVE  /\ ReadMarked => ReadMarked'
         /\ (\A d \in Caller : "write" \notin marked[d])
              => \A d \in Caller : "write" \notin marked'[d]
<1> USE DEF CallInv, TypeOK, Goto, Return, fdVars, childVars, callVars
<1>1. CASE SetReadEnd(c)
  BY <1>1 DEF SetReadEnd, Mark, ReadMarked
<1>2. CASE \/ CallFails(c) \/ CreatePipe(c) \/ CreateProcess(c) \/ CreateFails(c)
           \/ ParentReads(c) \/ ParentStarves(c)
  BY <1>2, MarksFrame
  DEF CallFails, CreatePipe, Pipe, CreateProcess, CreateFails, ForkFails,
      ParentReads, ParentStarves
<1>3. CASE \/ Read(c) \/ ReadStarves(c) \/ ReadEnd(c) \/ CloseRead(c) \/ Wait(c)
  BY <1>3, MarksFrame DEF Read, ReadStarves, ReadEnd, CloseRead, Wait
<1>4. CASE WindowsProgram(c) \/ Terminated(c)
  BY <1>4, MarksFrame DEF WindowsProgram, Write, WriteFails, Exit, Terminated, End
<1> QED BY <1>1, <1>2, <1>3, <1>4 DEF WindowsCall

LEMMA WindowsKept ==
  ASSUME NEW c \in Caller, WindowsCall(c) \/ WindowsProgram(c) \/ Terminated(c)
  PROVE  \/ kept' = kept
         \/ kept' = [kept EXCEPT ![c] =
                       {e \in OpenEnds : e[2] \notin marked[e[1]]}]
<1> USE DEF childVars
<1>1. CASE WindowsCall(c)
  BY <1>1
  DEF WindowsCall, CallFails, CreatePipe, Pipe, SetReadEnd, Mark, CreateProcess,
      Inherited, CreateFails, ForkFails, ParentReads, ParentStarves, Read,
      ReadStarves, ReadEnd, CloseRead, Wait
<1>2. CASE WindowsProgram(c) \/ Terminated(c)
  BY <1>2 DEF WindowsProgram, Write, WriteFails, Exit, Terminated, End
<1> QED BY <1>1, <1>2

-----------------------------------------------------------------------------
LEMMA EitherNextKeeps == EitherInv /\ [EitherNext]_EitherVars => EitherInv'
<1> SUFFICES ASSUME EitherInv, [EitherNext]_EitherVars PROVE EitherInv'
  OBVIOUS
<1>1. ASSUME NEW c \in Caller, ~windows, windows' = windows,
             CallStep(c) \/ ChildStep(c) \/ Killed(c)
      PROVE  EitherInv'
  <2>1. CallInv' /\ ReadMarked' /\ WriteMarked'
    BY <1>1, StepKeeps, MarksKeep DEF EitherInv
  <2>2. KeptOneWay("read")'
    BY <1>1, KeptChanges, KeptFrame, InheritsOneWay, UnmarkedReadIsEarly
    DEF EitherInv
  <2>3. KeptOneWay("write")'
    BY <1>1, KeptChanges, KeptFrame, InheritsOneWay, UnmarkedWriteIsEarly
    DEF EitherInv
  <2> QED BY <1>1, <2>1, <2>2, <2>3 DEF EitherInv
<1>2. ASSUME NEW c \in Caller, windows, windows' = windows,
             WindowsCall(c) \/ WindowsProgram(c) \/ Terminated(c)
      PROVE  EitherInv'
  <2>1. /\ CallInv' /\ ReadMarked'
        /\ \A d \in Caller : "write" \notin marked'[d]
    BY <1>2, WindowsKeeps, WindowsMarks DEF EitherInv
  <2>2. KeptOneWay("read")'
    BY <1>2, WindowsKept, KeptFrame, InheritsOneWay, UnmarkedReadIsEarly
    DEF EitherInv
  <2> QED BY <1>2, <2>1, <2>2 DEF EitherInv
<1>3. CASE UNCHANGED EitherVars
  <2>1. CallInv'
    BY <1>3, StutterKeeps DEF EitherInv, EitherVars
  <2> QED
    BY <1>3, <2>1
    DEF EitherVars, vars, fdVars, childVars, callVars, EitherInv, ReadMarked,
        WriteMarked, KeptOneWay
<1> QED
  BY <1>1, <1>2, <1>3
  DEF EitherNext, CallerStep, ProgramStep, KillStep, Finished, EitherVars

LEMMA EitherAlways == EitherSpec => []EitherInv
<1>1. EitherInit => EitherInv
  BY InitKeeps
  DEF EitherInit, Init, EitherInv, ReadMarked, WriteMarked, KeptOneWay
<1> QED BY <1>1, EitherNextKeeps, PTL DEF EitherSpec

(* What zmm_sys_exec and zmm_sys_exec_redirect return is the fate of the   *)
(* call's own child, reaped, or an error where the code gives one, on both *)
(* platforms and however many threads execute programs.                    *)
THEOREM ReturnsFateOnEither == EitherSpec => []ResultHonest
<1>1. EitherInv => ResultHonest
  BY DEF EitherInv, CallInv
<1> QED BY <1>1, EitherAlways, PTL

(* A call of zmm_sys_exec that found no lack of memory returns all that its *)
(* program wrote, on both platforms.                                       *)
THEOREM ReturnsAllOutputOnEither == EitherSpec => []OutputComplete
<1>1. EitherInv => OutputComplete
  <2> SUFFICES ASSUME EitherInv, NEW c \in Caller,
                      pc[c] = "returned", kind[c] = "exec",
                      result[c] # Error, c \notin starved
               PROVE  len[c] = wrote[c]
    BY DEF OutputComplete
  <2>1. child[c] = "reaped"
    BY DEF EitherInv, CallInv, ResultHonest
  <2>2. len[c] + buffered[c] = wrote[c] /\ buffered[c] = 0
    BY <2>1 DEF EitherInv, CallInv, Accounted
  <2> QED BY <2>2 DEF EitherInv, CallInv, TypeOK
<1> QED BY <1>1, EitherAlways, PTL

(* No two programs keep ends of each other's pipes, neither end on POSIX,  *)
(* the read end on Windows: what leaks before an end is marked (pipe and   *)
(* fcntl, CreatePipe and SetHandleInformation) leaks one way.              *)
THEOREM HoldsOneWayOnEither == EitherSpec => []HoldsOneWay
<1>1. EitherInv => HoldsOneWay
  <2> SUFFICES ASSUME EitherInv, NEW c \in Caller, NEW d \in Caller,
                      NEW end \in IF windows THEN {"read"} ELSE Ends,
                      KeepsOpen(c, d, end), KeepsOpen(d, c, end)
               PROVE  FALSE
    BY DEF HoldsOneWay
  <2>1. c # d /\ <<d, end>> \in kept[c] /\ <<c, end>> \in kept[d]
    BY DEF EitherInv, CallInv, HeldByChild, KeepsOpen
  <2>2. KeptOneWay(end)
    BY DEF EitherInv
  <2> QED BY <2>1, <2>2 DEF KeptOneWay
<1> QED BY <1>1, EitherAlways, PTL

(* The loop that reads never writes past out_buf, on both platforms.       *)
THEOREM BufferSafeOnEither == EitherSpec => []NoOverrun
<1>1. EitherInv => NoOverrun
  BY DEF EitherInv, CallInv
<1> QED BY <1>1, EitherAlways, PTL

(* A call that has returned has no end of its pipe open, on both platforms. *)
THEOREM NothingLeftOpenOnEither == EitherSpec => []DescriptorsClosed
<1>1. EitherInv => DescriptorsClosed
  BY DEF EitherInv, CallInv, EndsByPoint, DescriptorsClosed
<1> QED BY <1>1, EitherAlways, PTL
==============================================================================
