------------------------------ MODULE MoonNum -------------------------------
(***************************************************************************)
(* The variable-length numbers of update packets (convert_to_moon_num and  *)
(* get_from_moon_num of moon_runtime.c): two units of 16 bits and one of   *)
(* 32, each with its top bit as the mark that another one follows.  The    *)
(* mark of the last unit is one more bit of the number.  The widths are    *)
(* constants, so that small numbers reach every case; a buffer is the      *)
(* sequence of its units.                                                  *)
(***************************************************************************)
EXTENDS Integers, Sequences

CONSTANTS
  HALF,        \* the bits of a uint16_t that carry the number (15)
  WORD         \* the bits of a uint32_t that carry the number (31)

ASSUME WidthAssumption == HALF \in Nat \ {0} /\ WORD \in Nat \ {0}

\* The first number too large to be written (1 << 62).
Limit == 2^(2 * HALF + WORD + 1)

\* _CONVERT_ELEM: the unit for the bits of num above prev, and its mark.
Big(num, prev, width) == num >= 2^(prev + width)
Unit(num, prev, width) ==
  ((num \div 2^prev) % 2^width) + (IF Big(num, prev, width) THEN 2^width ELSE 0)

\* convert_to_moon_num of a number below Limit: the units written.
convert_to_moon_num(num) ==
  CASE ~Big(num, 0, HALF) -> <<Unit(num, 0, HALF)>>
    [] Big(num, 0, HALF) /\ ~Big(num, HALF, HALF) ->
         <<Unit(num, 0, HALF), Unit(num, HALF, HALF)>>
    [] OTHER ->
         <<Unit(num, 0, HALF), Unit(num, HALF, HALF), Unit(num, 2 * HALF, WORD)>>

\* The number of units of the number at the head of buf.
Units(buf) ==
  CASE buf[1] < 2^HALF -> 1
    [] buf[1] >= 2^HALF /\ buf[2] < 2^HALF -> 2
    [] OTHER -> 3

\* get_from_moon_num: the number at the head of buf.
get_from_moon_num(buf) ==
  LET n == Units(buf)
      low == buf[1] % 2^HALF
      mid == IF n >= 2 THEN (buf[2] % 2^HALF) * 2^HALF ELSE 0
      high == IF n = 3 THEN (buf[3] % 2^WORD) * 2^(2 * HALF) ELSE 0
      mark == IF n = 3 /\ buf[3] >= 2^WORD THEN 2^(2 * HALF + WORD) ELSE 0
  IN low + mid + high + mark

\* A sequence of numbers, one after the other, and the first n numbers of buf.
RECURSIVE Pack(_), Unpack(_, _)
Pack(nums) == IF nums = <<>> THEN <<>> ELSE convert_to_moon_num(nums[1]) \o Pack(Tail(nums))
Unpack(buf, n) ==
  IF n = 0 THEN <<>>
  ELSE <<get_from_moon_num(buf)>> \o Unpack(SubSeq(buf, Units(buf) + 1, Len(buf)), n - 1)

\* moon_num_len, in units, of the test in moon_runtime.c
moon_num_len(num) == IF num < 2^HALF THEN 1 ELSE IF num < 2^(2 * HALF) THEN 2 ELSE 3

\* What test_moon_num tests at the borders, for every number: it is written
\* in as many units as moon_num_len says and read back as it was.
NumbersSurvive ==
  \A n \in 0 .. Limit - 1 :
    /\ Len(convert_to_moon_num(n)) = moon_num_len(n)
    /\ get_from_moon_num(convert_to_moon_num(n)) = n
=============================================================================
