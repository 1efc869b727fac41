----------------------------- MODULE PrintFormat -----------------------------
(***************************************************************************)
(* The format scanner zmm_vformat of src/src/print.c.  A format is a       *)
(* sequence of characters; what comes out are the characters of literals   *)
(* and, for each conversion, which one it is and its precision.  How a     *)
(* value is converted is in PrintDigits.                                   *)
(*                                                                         *)
(* A format that ends in a percent sign makes the code read behind its     *)
(* end; it has no meaning here.                                            *)
(***************************************************************************)
EXTENDS Integers, Sequences, FiniteSets, SequencesExt, FiniteSetsExt

Nul == "nul"
At(format, i) == IF i \in DOMAIN format THEN format[i] ELSE Nul
Reads(format, i, text) == \A k \in 1 .. Len(text) : At(format, i + k - 1) = text[k]

Digits == <<"0", "1", "2", "3", "4", "5", "6", "7", "8", "9">>

(* The end of the run of digits that begins at i, and its value.           *)
DigitsEnd(format, i) ==
  Min({j \in i .. Len(format) + 1 : ~ Contains(Digits, At(format, j))})
Precision(format, i) ==
  FoldLeft(LAMBDA n, c : 10 * n + SelectInSeq(Digits, LAMBDA d : d = c) - 1,
           0, SubSeq(format, i, DigitsEnd(format, i) - 1))

(* The conversions of more than one character, in the order of the tests.  *)
Longer == <<
  <<"i", "3", "2">>, <<"i", "6", "4">>, <<"i", "1", "6">>, <<"i", "8">>,
  <<"u", "s", "z">>, <<"u", "3", "2">>, <<"u", "6", "4">>, <<"u", "1", "6">>,
  <<"u", "8">>, <<"s", "z">>, <<"s", "s", "z">> >>

Single == {"s", "c", "d", "x", "p", "b", "f"}

(* The conversion at i, or <<>> for one the switch does not know.          *)
Conversion(format, i) ==
  LET k == SelectInSeq(Longer, LAMBDA text : Reads(format, i, text))
  IN IF k > 0 THEN Longer[k]
     ELSE IF At(format, i) \in Single THEN <<At(format, i)>> ELSE <<>>

Shown(conversion, precision) ==
  [conversion |-> conversion,
   precision |-> IF conversion = <<"f">> THEN precision ELSE 0]

(* One round of the loop, from position i: what it writes, and the next i. *)
Literal(format, i) ==
  LET end == Min({j \in i .. Len(format) + 1 : At(format, j) \in {"%", Nul}})
  IN [shows |-> SubSeq(format, i, end - 1), next |-> end]

(* A letter the switch does not know is shown as it is, after its percent. *)
Convert(format, i) ==
  LET given == At(format, i + 1) = "."
      start == IF given THEN DigitsEnd(format, i + 2) ELSE i + 1
      precision == IF given THEN Precision(format, i + 2) ELSE 6
      conversion == Conversion(format, start)
  IN IF conversion = <<>>
     THEN [shows |-> <<"%", At(format, start)>>, next |-> start + 1]
     ELSE [shows |-> <<Shown(conversion, precision)>>,
           next |-> start + Len(conversion)]

Round(format, i) ==
  IF At(format, i) # "%" THEN Literal(format, i)
  ELSE IF At(format, i + 1) = "%" THEN [shows |-> <<"%">>, next |-> i + 2]
  ELSE Convert(format, i)

RECURSIVE ShownFrom(_, _)
ShownFrom(format, i) ==
  IF i > Len(format) THEN <<>>
  ELSE LET r == Round(format, i) IN r.shows \o ShownFrom(format, r.next)

Formatted(format) == ShownFrom(format, 1)

(* zmm_write_block into a buffer of the caller, of `size' bytes. *)
PutBlock(st, block, size) ==
  LET left == IF st.written < size THEN size - st.written ELSE 0
  IN  [buf |-> st.buf \o SubSeq(block, 1, Min({Len(block), left})),
       written |-> st.written + Len(block)]

(* zmm_snprintf and zmm_sprintf: the view they return.                      *)
BoundedView(blocks, size) ==
  LET st == FoldLeft(LAMBDA w, block : PutBlock(w, block, size),
                     [buf |-> <<>>, written |-> 0], blocks)
  IN  [text |-> st.buf, len |-> Min({st.written, size})]

-----------------------------------------------------------------------------
(* A format is put together from pieces, each with what it should show. A  *)
(* StringView before a literal z reads as %sz, as the list of specifiers in*)
(* print.h makes it read.                                                  *)
Ambiguous(pieces) ==
  \E i \in 1 .. Len(pieces) - 1 :
    /\ pieces[i].text = <<"%", "s">>
    /\ pieces[i + 1].text \in {<<"z">>, <<"s", "z">>}

PiecesShown(pieces) ==
  ~ Ambiguous(pieces) =>
    Formatted(FlattenSeq([i \in DOMAIN pieces |-> pieces[i].text]))
      = FlattenSeq([i \in DOMAIN pieces |-> pieces[i].shows])

(* Blocks of any lengths in a buffer of any size: as much as there is room.  *)
NeverBeyond(pieces) ==
  LET blocks == [i \in DOMAIN pieces |-> pieces[i].text]
      whole == FlattenSeq(blocks)
  IN  \A size \in 0 .. Len(whole) + 1 :
        LET view == BoundedView(blocks, size)
        IN  view.text = SubSeq(whole, 1, Min({Len(whole), size})) /\ view.len = Len(view.text)
==============================================================================
