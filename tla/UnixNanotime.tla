---------------------------- MODULE UnixNanotime ----------------------------
(***************************************************************************)
(* class UnixNanotime of src/UnixNanotime.hpp.  A time is a word of        *)
(* nanoseconds since 1970; the words from BOUNDARY (seven eighths of the   *)
(* range) on are the times before 1970.  BOUNDARY itself, the earliest     *)
(* one, stands for "uninitialized".                                        *)
(***************************************************************************)
EXTENDS Integers

CONSTANTS
  Word,     \* 2^64
  Second    \* 1000000000

ASSUME NanotimeAssumption ==
  /\ Word \in Nat \ 0 .. 8 /\ Word % 8 = 0
  /\ Second \in Nat \ {0}
  /\ (Word \div 8) % Second # 0

BOUNDARY == 7 * (Word \div 8)

(* int64_t(w)                                                              *)
Signed(w) == IF w < Word \div 2 THEN w ELSE w - Word

(* Division of int64_t in C++: towards zero, the remainder has the sign    *)
(* of the dividend.                                                        *)
Quotient(a, b) == IF a >= 0 THEN a \div b ELSE -((-a) \div b)
Remainder(a, b) == a - b * Quotient(a, b)

(* Mutant: the instant of BOUNDARY is taken as it is.                      *)
AnyNanotime(nt) == nt

from_nanotime_t(nt) == IF nt # BOUNDARY THEN nt ELSE BOUNDARY + 1

from_time_t(t) == (t * Second) % Word

uninitialized == BOUNDARY

(* Mutant: the sign bit decides, as in plain int64_t.                      *)
UpperHalfIsBefore1970(w) == w >= Word \div 2

Before1970(w) == w >= BOUNDARY

to_time_t(w) == IF Before1970(w) THEN Quotient(Signed(w), Second) ELSE w \div Second

to_uint64(w, scale, offset) ==
  (offset + IF Before1970(w) THEN Quotient(Signed(w), scale) ELSE w \div scale) % Word

(* Mutant: both halves of the time are divided as unsigned.                *)
UnsignedTimespec(w) == [sec |-> w \div Second, nsec |-> w % Second]

to_timespec(w) ==
  [sec  |-> to_time_t(w),
   nsec |-> IF Before1970(w) THEN -Remainder(Signed(w), Second) ELSE w % Second]

=============================================================================
