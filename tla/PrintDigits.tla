----------------------------- MODULE PrintDigits -----------------------------
(***************************************************************************)
(* The digits of the conversions of src/src/print.c.  They are numbers;    *)
(* integers have `Width' bits, `int' has `IntWidth'; a double is a number  *)
(* of units of 1/Scale, sign apart.  TextOps evaluates the operations.     *)
(***************************************************************************)
EXTENDS Integers, Sequences, SequencesExt

CONSTANTS
  Width, IntWidth,  \* bits of i64 and of int
  Scale             \* a power of ten

(* format_u64: two digits at a time from the end, one or two at the front. *)
RECURSIVE Pairs(_)
Pairs(val) ==
  IF val >= 100
  THEN Pairs(val \div 100) \o <<(val % 100) \div 10, val % 10>>
  ELSE IF val < 10 THEN <<val>> ELSE <<val \div 10, val % 10>>

FormatU64(val) == IF val = 0 THEN <<0>> ELSE Pairs(val)

RECURSIVE Nibbles(_)
Nibbles(val) == IF val = 0 THEN <<>> ELSE Append(Nibbles(val \div 16), val % 16)

FormatHex(val) == IF val = 0 THEN <<0>> ELSE Nibbles(val)

(* An integer as one of w bits, without and with a sign.                   *)
Unsigned(val, w) == val % (2 ^ w)
Signed(val, w) ==
  LET u == Unsigned(val, w) IN IF u < 2 ^ (w - 1) THEN u ELSE u - 2 ^ w

(* Negating the smallest integer overflows; what the compilers make of it  *)
(* is that integer again, whose bits are the right ones for the cast.      *)
FormatI64(val) ==
  [negative |-> val < 0,
   digits |-> FormatU64(Unsigned(IF val < 0 THEN Signed(-val, Width) ELSE val, Width))]

(* %d takes an int from the arguments, %x an unsigned int.                 *)
FormatD(val) == FormatI64(Signed(val, IntWidth))
FormatX(val) == FormatHex(Unsigned(val, IntWidth))

(* The first `precision' digits of a fraction, as a number.                *)
RECURSIVE Padded(_, _)
Padded(val, n) ==
  IF n = 0 THEN <<>> ELSE Append(Padded(val \div 10, n - 1), val % 10)

(* Faulty variant: cut off, not rounded.                                   *)
FormatF64Truncated(val, precision) ==
  LET int == val \div Scale
      frac == ((val % Scale) * 10 ^ precision) \div Scale
  IN  [int |-> FormatU64(int),
       frac |-> IF precision > 0 THEN Padded(frac, precision) ELSE <<>>]

(* format_f64 for val / Scale.                                             *)
FormatF64(val, precision) ==
  LET int == val \div Scale
      mult == 10 ^ precision
      frac == (2 * (val % Scale) * mult + Scale) \div (2 * Scale)
  IN  [int |-> FormatU64(int),
       frac |-> IF precision > 0 THEN Padded(frac, precision) ELSE <<>>]

-----------------------------------------------------------------------------
Value(digits, base) == FoldLeft(LAMBDA n, d : base * n + d, 0, digits)

Plain(digits) == Len(digits) >= 1 /\ (Len(digits) > 1 => Head(digits) # 0)

Shows(text, n) == (IF text.negative THEN -1 ELSE 1) * Value(text.digits, 10) = n

(* format_u64, format_i64 and format_hex show the number, without leading  *)
(* zeros, for every value of the type, the smallest one too; and %d and %x *)
(* do for every one that an int can hold.                                  *)
ShownExactly(bits) ==
  LET u == Unsigned(bits, Width)
      n == Signed(bits, Width)
      int == Signed(bits, IntWidth)
  IN  /\ Value(FormatU64(u), 10) = u /\ Plain(FormatU64(u))
      /\ Value(FormatHex(u), 16) = u /\ Plain(FormatHex(u))
      /\ Shows(FormatI64(n), n) /\ Plain(FormatI64(n).digits)
      /\ Shows(FormatD(int), int)
      /\ Value(FormatX(int), 16) = Unsigned(int, IntWidth)

(* The number a text of int.frac stands for, in units of 10^-places.       *)
Stands(text, places) == Value(text.int, 10) * 10 ^ places + Value(text.frac, 10)

(* val / Scale in those units, rounded half up.                            *)
Rounded(val, places) == (2 * val * 10 ^ places + Scale) \div (2 * Scale)

(* print.h: "%.{X}f (e.g., %.2f): Rounded floats".  They are, where the    *)
(* rounding does not carry into the integer.                               *)
RoundedUnlessCarried(val, places) ==
  Rounded(val, places) \div 10 ^ places = val \div Scale =>
    Stands(FormatF64(val, places), places) = Rounded(val, places)
==============================================================================
