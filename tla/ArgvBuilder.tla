----------------------------- MODULE ArgvBuilder -----------------------------
(***************************************************************************)
(* The argument vector builder of src/src/args.c: a buffer with the texts  *)
(* of the arguments, each ended by a NUL, and an array of pointers into    *)
(* it.  Both grow with realloc, which may move what it grows.              *)
(*                                                                         *)
(* A pointer is the block it points into and an offset; `block' is the one *)
(* the buffer is in now.  Writing outside of a block has no defined        *)
(* outcome: `undefined' says that it happened, and nothing follows.        *)
(***************************************************************************)
EXTENDS Integers, Sequences

CONSTANTS
  Texts,      \* what is appended: sequences of characters
  BufCap,     \* the arguments of zmm_argvb_initcap
  ArgvCap,
  PtrSize,    \* sizeof(char*)
  MaxCalls    \* bound: the calls of one behaviour

VARIABLES
  buf, bufCap, block,
  argv, argvCap,
  argvRoom,   \* pointers the block of argv has room for
  undefined,  \* a write went outside of its block
  failed,     \* realloc returned NULL
  partial,    \* history: the text of the argument begun by zmm_argvb_pstart
  given,      \* history: the arguments appended
  calls       \* history: calls so far, capped by MaxCalls

vars == <<buf, bufCap, block, argv, argvCap, argvRoom, undefined, failed,
          partial, given, calls>>

Nul == "nul"
None == <<Nul>>

(* zmm_argvb_initcap. *)
Init ==
  /\ buf = <<>> /\ bufCap = BufCap /\ block = 0
  /\ argv = <<>> /\ argvCap = ArgvCap /\ argvRoom = ArgvCap
  /\ undefined = FALSE /\ failed = FALSE
  /\ partial = None
  /\ given = <<>>
  /\ calls = 0

(* The capacity after growth: 1 doubled until it is enough.                *)
PowerOfTwo(needed) ==
  CHOOSE c \in {2 ^ k : k \in 0 .. needed} :
    c >= needed /\ (c = 1 \/ c \div 2 < needed)

(* Faulty variant: a buffer that is just filled grows.                     *)
EnsureBufEarly(needed) ==
  LET size == Len(buf) + needed IN
  IF size < bufCap
  THEN UNCHANGED <<bufCap, block, failed>>
  ELSE /\ bufCap' = PowerOfTwo(size)
       /\ \/ UNCHANGED <<block, failed>>
          \/ block' = block + 1 /\ UNCHANGED failed
          \/ failed' = TRUE /\ UNCHANGED block

(* ensure_buf: in place, moved, or no memory.                              *)
EnsureBuf(needed) ==
  LET size == Len(buf) + needed IN
  IF size <= bufCap
  THEN UNCHANGED <<bufCap, block, failed>>
  ELSE /\ bufCap' = PowerOfTwo(size)
       /\ \/ UNCHANGED <<block, failed>>
          \/ block' = block + 1 /\ UNCHANGED failed
          \/ failed' = TRUE /\ UNCHANGED block

(* ensure_argv: as many bytes as there should be pointers.                 *)
EnsureArgv(needed) ==
  LET size == Len(argv) + needed IN
  IF size <= argvCap
  THEN UNCHANGED <<argvCap, argvRoom>>
  ELSE /\ argvCap' = PowerOfTwo(size)
       /\ argvRoom' = PowerOfTwo(size) \div PtrSize

Call ==
  /\ ~undefined /\ ~failed
  /\ calls < MaxCalls
  /\ calls' = calls + 1

Fails ==
  UNCHANGED <<buf, argv, argvCap, argvRoom, undefined, partial, given>>

(* argv[argv_len++] = a pointer to this offset of the buffer.              *)
PushPointer(offset) ==
  /\ EnsureArgv(1)
  /\ undefined' = (Len(argv) + 1 > argvRoom')
  /\ argv' = Append(argv, [block |-> block', offset |-> offset])

(* Faulty variant: the pointer is taken after the text.                    *)
AppendPointingBehind(arg) ==
  /\ partial = None
  /\ Call
  /\ EnsureBuf(Len(arg) + 1)
  /\ IF failed' THEN Fails
     ELSE /\ PushPointer(Len(buf) + Len(arg))
          /\ buf' = buf \o arg \o <<Nul>>
          /\ given' = Append(given, arg)
          /\ UNCHANGED partial

(* zmm_argvb_append; the calls that append several repeat it.              *)
AppendArg(arg) ==
  /\ partial = None
  /\ Call
  /\ EnsureBuf(Len(arg) + 1)
  /\ IF failed' THEN Fails
     ELSE /\ PushPointer(Len(buf))
          /\ buf' = buf \o arg \o <<Nul>>
          /\ given' = Append(given, arg)
          /\ UNCHANGED partial

(* zmm_argvb_pstart: the pointer is taken before there is any text.        *)
PStart ==
  /\ partial = None
  /\ Call
  /\ UNCHANGED <<buf, bufCap, block, failed, given>>
  /\ PushPointer(Len(buf))
  /\ partial' = <<>>

(* zmm_argvb_pappend.                                                      *)
PAppend(text) ==
  /\ partial # None
  /\ Call
  /\ EnsureBuf(Len(text))
  /\ IF failed' THEN Fails
     ELSE /\ buf' = buf \o text
          /\ partial' = partial \o text
          /\ UNCHANGED <<argv, argvCap, argvRoom, undefined, given>>

(* zmm_argvb_pfinish.                                                      *)
PFinish ==
  /\ partial # None
  /\ Call
  /\ EnsureBuf(1)
  /\ IF failed' THEN Fails
     ELSE /\ buf' = Append(buf, Nul)
          /\ given' = Append(given, partial)
          /\ partial' = None
          /\ UNCHANGED <<argv, argvCap, argvRoom, undefined>>

Next ==
  \/ \E arg \in Texts : AppendArg(arg) \/ PAppend(arg)
  \/ PStart
  \/ PFinish

Spec == Init /\ [][Next]_vars

-----------------------------------------------------------------------------
(* The string that begins at an offset of the buffer.                      *)
StringAt(offset) ==
  LET end == CHOOSE i \in offset + 1 .. Len(buf) :
               buf[i] = Nul /\ \A k \in offset + 1 .. i - 1 : buf[k] # Nul
  IN  SubSeq(buf, offset + 1, end - 1)

Defined == ~undefined /\ ~failed

(* Whatever the growth, and whether an argument came at once or in parts,  *)
(* the i-th entry has the offset of the i-th argument's text.              *)
TextsKept ==
  Defined =>
    /\ Len(argv) = Len(given) + (IF partial = None THEN 0 ELSE 1)
    /\ \A i \in 1 .. Len(given) : StringAt(argv[i].offset) = given[i]

(* Until more is appended than zmm_argvb_initcap was told, nothing moves:  *)
(* every entry is good, up to the last character and the last entry.       *)
PointersValid == \A i \in 1 .. Len(argv) : argv[i].block = block

SafeWithinCapacity ==
  Len(buf) <= BufCap /\ Len(argv) <= ArgvCap /\ ~failed =>
    ~undefined /\ PointersValid

(* README: "Safe string building for compiler/linker arguments".  So that  *)
(* what is built can be executed, every entry points into the buffer.       *)
BuiltArgvIsValid == Defined => PointersValid
==============================================================================
