------------------------------- MODULE Printer -------------------------------
(***************************************************************************)
(* Printing from several threads (src/src/print.c): zmm_printf, which      *)
(* formats into a buffer of its own and hands it to stdout with fwrite     *)
(* whenever it is full, and zmm_lprintf, which collects text in a buffer   *)
(* of the thread that zmm_lemit hands over.                                *)
(*                                                                         *)
(* Formatting yields blocks (zmm_write_block); what a block says does not  *)
(* matter here, only its length.  A byte is its thread, the way it is      *)
(* printed and its number among the bytes that thread printed that way.    *)
(* stdio makes every fwrite atomic, and no more than that.                 *)
(***************************************************************************)
EXTENDS Integers, Sequences, FiniteSets

CONSTANTS
  Thread,
  FlushCap,   \* size of stack_buf in zmm_printf (flush_cap)
  LineCap,    \* TL_INITIAL_CAP
  Messages,   \* the block lengths a call may produce: sequences of numbers
  MaxCalls    \* bound: calls of one thread

VARIABLES
  pc,         \* "idle" | "printf" | "lprintf" | "emit" | "unlock"
  blocks,     \* the lengths of the blocks the call has still to write
  flushBuf,   \* flush_buf of the running zmm_printf, up to flush_len
  line,       \* tl_active_buf of the thread, up to tl_len
  lineCap,    \* tl_cap
  mutex,      \* lemit_mutex: its holder, or {}
  out,        \* what stdout received
  printed,    \* bytes the thread formatted: [now |-> printf, line |-> lprintf]
  begun,      \* history: printed[t].now when the running zmm_printf began
  calls,      \* history: calls begun, capped by MaxCalls
  spans       \* history: the bytes of each zmm_printf and each zmm_lemit

vars == <<pc, blocks, flushBuf, line, lineCap, begun, mutex, out, printed, calls, spans>>

Ways == {"now", "line"}
Bytes(t, way, first, n) == [i \in 1 .. n |-> <<t, way, first + i>>]

Init ==
  /\ pc = [t \in Thread |-> "idle"]
  /\ blocks = [t \in Thread |-> <<>>]
  /\ flushBuf = [t \in Thread |-> <<>>]
  /\ line = [t \in Thread |-> <<>>]
  /\ lineCap = [t \in Thread |-> LineCap]
  /\ begun = [t \in Thread |-> 0]
  /\ mutex = {}
  /\ out = <<>>
  /\ printed = [t \in Thread |-> [way \in Ways |-> 0]]
  /\ calls = [t \in Thread |-> 0]
  /\ spans = {}

-----------------------------------------------------------------------------
(* zmm_write_block for the block the call writes next. *)

Writing(t, call) == pc[t] = call /\ blocks[t] # <<>>
Block(t, way) == Bytes(t, way, printed[t][way], Head(blocks[t]))

BlockDone(t, way) ==
  /\ blocks' = [blocks EXCEPT ![t] = Tail(@)]
  /\ printed' = [printed EXCEPT ![t][way] = @ + Head(blocks[t])]

(* Faulty variant: the buffer is sent one byte early.                      *)
OverflowsEarly(t) == Len(flushBuf[t]) + Head(blocks[t]) >= FlushCap - 1

Overflows(t) == Len(flushBuf[t]) + Head(blocks[t]) >= FlushCap

(* The block does not fit: what was collected goes first.                  *)
FlushFull(t) ==
  /\ Writing(t, "printf") /\ Overflows(t) /\ flushBuf[t] # <<>>
  /\ out' = out \o flushBuf[t]
  /\ flushBuf' = [flushBuf EXCEPT ![t] = <<>>]
  /\ UNCHANGED <<pc, blocks, line, lineCap, begun, mutex, printed, calls, spans>>

(* A block as large as the buffer goes to stdout at once.                  *)
WriteLarge(t) ==
  /\ Writing(t, "printf") /\ flushBuf[t] = <<>> /\ Head(blocks[t]) >= FlushCap
  /\ out' = out \o Block(t, "now")
  /\ BlockDone(t, "now")
  /\ UNCHANGED <<pc, flushBuf, line, lineCap, begun, mutex, calls, spans>>

WriteSmall(t) ==
  /\ Writing(t, "printf")
  /\ ~Overflows(t) \/ (flushBuf[t] = <<>> /\ Head(blocks[t]) < FlushCap)
  /\ flushBuf' = [flushBuf EXCEPT ![t] = @ \o Block(t, "now")]
  /\ BlockDone(t, "now")
  /\ UNCHANGED <<pc, line, lineCap, begun, mutex, out, calls, spans>>

(* tl_cap doubled until it is enough.                                      *)
Grown(cap, needed) ==
  IF needed <= cap THEN cap
  ELSE CHOOSE c \in {cap * 2 ^ k : k \in 1 .. needed} :
         c >= needed /\ c < 2 * needed

WriteLine(t) ==
  /\ Writing(t, "lprintf")
  /\ line' = [line EXCEPT ![t] = @ \o Block(t, "line")]
  /\ lineCap' = [lineCap EXCEPT ![t] = Grown(@, Len(line[t]) + Head(blocks[t]))]
  /\ BlockDone(t, "line")
  /\ UNCHANGED <<pc, flushBuf, begun, mutex, out, calls, spans>>

(* malloc fails: the block is dropped, and `written' does not count it.    *)
DropBlock(t) ==
  /\ Writing(t, "lprintf") /\ Len(line[t]) + Head(blocks[t]) > lineCap[t]
  /\ blocks' = [blocks EXCEPT ![t] = Tail(@)]
  /\ UNCHANGED <<pc, flushBuf, line, lineCap, begun, mutex, out, printed, calls, spans>>

-----------------------------------------------------------------------------
(* The calls. *)

Call(t, to) ==
  /\ pc[t] = "idle" /\ calls[t] < MaxCalls
  /\ pc' = [pc EXCEPT ![t] = to]
  /\ calls' = [calls EXCEPT ![t] = @ + 1]

Begin(t, call) ==
  /\ Call(t, call)
  /\ \E m \in Messages : blocks' = [blocks EXCEPT ![t] = m]
  /\ begun' = [begun EXCEPT ![t] = printed[t].now]
  /\ UNCHANGED <<flushBuf, line, lineCap, mutex, out, printed, spans>>

(* zmm_printf and zmm_lprintf begin.                                       *)
Printf(t) == Begin(t, "printf")
Lprintf(t) == Begin(t, "lprintf")

Span(t, way, first, last) == [thread |-> t, way |-> way, first |-> first, last |-> last]

(* The end of zmm_vformat: the rest goes to stdout.                        *)
PrintfEnd(t) ==
  /\ pc[t] = "printf" /\ blocks[t] = <<>>
  /\ out' = out \o flushBuf[t]
  /\ flushBuf' = [flushBuf EXCEPT ![t] = <<>>]
  /\ pc' = [pc EXCEPT ![t] = "idle"]
  /\ spans' = spans \cup {Span(t, "now", begun[t], printed[t].now)}
  /\ UNCHANGED <<blocks, line, lineCap, begun, mutex, printed, calls>>

LprintfEnd(t) ==
  /\ pc[t] = "lprintf" /\ blocks[t] = <<>>
  /\ pc' = [pc EXCEPT ![t] = "idle"]
  /\ UNCHANGED <<blocks, flushBuf, line, lineCap, begun, mutex, out, printed, calls, spans>>

(* zmm_lemit; with nothing collected it returns at once.                   *)
Lemit(t) ==
  /\ line[t] # <<>>
  /\ Call(t, "emit")
  /\ UNCHANGED <<blocks, flushBuf, line, lineCap, begun, mutex, out, printed, spans>>

EmitWrite(t) ==
  /\ pc[t] = "emit" /\ mutex = {}
  /\ mutex' = {t}
  /\ out' = out \o line[t]
  /\ pc' = [pc EXCEPT ![t] = "unlock"]
  /\ spans' = spans \cup {Span(t, "line", line[t][1][3] - 1, printed[t].line)}
  /\ UNCHANGED <<blocks, flushBuf, line, lineCap, begun, printed, calls>>

(* fflush, unlock, and only then tl_len = 0: the buffer is the thread's.   *)
EmitUnlock(t) ==
  /\ pc[t] = "unlock"
  /\ mutex' = {}
  /\ line' = [line EXCEPT ![t] = <<>>]
  /\ pc' = [pc EXCEPT ![t] = "idle"]
  /\ UNCHANGED <<blocks, flushBuf, lineCap, begun, out, printed, calls, spans>>

-----------------------------------------------------------------------------
Finished ==
  /\ \A t \in Thread : pc[t] = "idle" /\ calls[t] = MaxCalls
  /\ UNCHANGED vars

Step(t) ==
  \/ Printf(t) \/ Lprintf(t) \/ Lemit(t)
  \/ FlushFull(t) \/ WriteLarge(t) \/ WriteSmall(t) \/ PrintfEnd(t)
  \/ WriteLine(t) \/ DropBlock(t) \/ LprintfEnd(t)
  \/ EmitWrite(t) \/ EmitUnlock(t)

Next == (\E t \in Thread : Step(t)) \/ Finished

Spec == Init /\ [][Next]_vars

-----------------------------------------------------------------------------
(* Every byte formatted reaches stdout, or waits in its buffer, once and in*)
(* its thread's order: no path through zmm_write_block loses, repeats or   *)
(* overtakes one, at whatever lengths blocks meet the buffer's end.        *)
Waiting(t, way) ==
  CASE way = "now" -> flushBuf[t]
    [] way = "line" /\ pc[t] # "unlock" -> line[t]
    [] OTHER -> <<>>

Sent(t, way) == printed[t][way] - Len(Waiting(t, way))

(* What stdout has received of a thread's bytes, and in which order.       *)
Arrived(o, t, way, number) ==
  \A n \in 1 .. number : \E k \in 1 .. Len(o) : o[k] = <<t, way, n>>
NoOthers(o, t, way, number) ==
  \A k \in 1 .. Len(o) : o[k][1] = t /\ o[k][2] = way => o[k][3] \in 1 .. number
InOrder(o) ==
  \A k \in 1 .. Len(o) : \A i \in 1 .. k - 1 :
    o[i][1] = o[k][1] /\ o[i][2] = o[k][2] => o[i][3] < o[k][3]

NothingLost ==
  /\ \A t \in Thread, way \in Ways :
       /\ Sent(t, way) >= 0
       /\ Waiting(t, way) = Bytes(t, way, Sent(t, way), Len(Waiting(t, way)))
       /\ Arrived(out, t, way, Sent(t, way))
       /\ NoOthers(out, t, way, Sent(t, way))
  /\ InOrder(out)

(* What stays together: all a thread collected with zmm_lprintf, and what  *)
(* one zmm_printf prints as long as it is shorter than its buffer.  Longer *)
(* ones go out in parts, and other threads' output may come in between.    *)
Adjacent(s) ==
  \E i \in 0 .. Len(out) :
    \A k \in 1 .. s.last - s.first :
      i + k <= Len(out) /\ out[i + k] = <<s.thread, s.way, s.first + k>>

KeptTogether ==
  \A s \in spans :
    s.way = "line" \/ s.last - s.first < FlushCap => Adjacent(s)
==============================================================================
