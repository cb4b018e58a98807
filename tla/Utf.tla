-------------------------------- MODULE Utf ---------------------------------
(***************************************************************************)
(* The operators of src/utf.hpp: decode() and encode() of one character,   *)
(* for UTF-8, UTF-16 and UTF-32.  A string is a sequence of code units.    *)
(*                                                                         *)
(* decode() is given what remains of the source.  Its answer says whether  *)
(* that begins with a character (ok), which one (ch), and how far the      *)
(* source has moved (used).                                                *)
(***************************************************************************)
EXTENDS Integers, Sequences

UNI_SUR_HIGH_START   == \hD800
UNI_SUR_HIGH_END     == \hDBFF
UNI_SUR_LOW_START    == \hDC00
UNI_SUR_LOW_END      == \hDFFF
UNI_REPLACEMENT_CHAR == \hFFFD
UNI_MAX_BMP          == \hFFFF
UNI_MAX_LEGAL_UTF32  == \h10FFFF
halfBase             == \h10000
halfModulus          == \h400      \* 2 ^ halfShift, halfMask + 1

trailingBytesForUTF8(b) ==
  CASE b < \hC0 -> 0
    [] b \in \hC0 .. \hDF -> 1
    [] b \in \hE0 .. \hEF -> 2
    [] b \in \hF0 .. \hF7 -> 3
    [] b \in \hF8 .. \hFB -> 4
    [] OTHER -> 5

(* What the marks of 1 to 4 bytes add up to in the sum of the bytes.       *)
offsetsFromUTF8 == <<0, \h3080, \hE2080, \h3C82080>>

firstByteMark == <<0, \hC0, \hE0, \hF0>>

Failed(used) == [ok |-> FALSE, ch |-> 0, used |-> used]

-----------------------------------------------------------------------------
(* isLegalUTF8(source, length)                                             *)

(* Mutant: the second byte is only checked for being a trailing byte.      *)
AnySecondByte(first, a) == a \in \h80 .. \hBF

SecondByteIsLegal(first, a) ==
  /\ a \in \h80 .. \hBF
  /\ first = \hE0 => a >= \hA0
  /\ first = \hED => a <= \h9F
  /\ first = \hF0 => a >= \h90
  /\ first = \hF4 => a <= \h8F

isLegalUTF8(s, n) ==
  /\ n \in 1 .. 4
  /\ \A i \in 3 .. n : s[i] \in \h80 .. \hBF
  /\ n >= 2 => SecondByteIsLegal(s[1], s[2])
  /\ s[1] \notin \h80 .. \hC1
  /\ s[1] <= \hF4

(* decode(): the source ends within the character.                         *)
Truncated(s) == trailingBytesForUTF8(s[1]) >= Len(s)

(* Each byte is added to six more bits than the one before it, marks and   *)
(* all; the marks are then subtracted at once.                             *)
AddUp(s, n) ==
  LET ch[i \in 0 .. n] == IF i = 0 THEN 0 ELSE ch[i - 1] * 64 + s[i]
  IN  ch[n]

decode8(s) ==
  LET n == trailingBytesForUTF8(s[1]) + 1
  IN  IF Truncated(s) \/ ~isLegalUTF8(s, n) THEN Failed(0)
      ELSE [ok |-> TRUE, ch |-> AddUp(s, n) - offsetsFromUTF8[n], used |-> n]

(* Mutant: the low half is not asked for.                                  *)
AnyTrail(u) == TRUE

IsLowSurrogate(u) == u \in UNI_SUR_LOW_START .. UNI_SUR_LOW_END

(* A high surrogate needs a low one after it; a low one alone is let pass. *)
decode16(s) ==
  IF s[1] \notin UNI_SUR_HIGH_START .. UNI_SUR_HIGH_END
  THEN [ok |-> TRUE, ch |-> s[1], used |-> 1]
  ELSE IF Len(s) >= 2 /\ IsLowSurrogate(s[2])
  THEN [ok   |-> TRUE,
        ch   |-> (s[1] - UNI_SUR_HIGH_START) * halfModulus + s[2] - UNI_SUR_LOW_START + halfBase,
        used |-> 2]
  ELSE Failed(1)

decode32(s) == [ok |-> TRUE, ch |-> s[1], used |-> 1]

-----------------------------------------------------------------------------
(* encode(): what is not a scalar value becomes U+FFFD in UTF-8 and UTF-16 *)
(* and stays what it is in UTF-32.                                         *)

IsSurrogate(ch) == ch \in UNI_SUR_HIGH_START .. UNI_SUR_LOW_END

(* Mutant: U+10FFFF is not looked at.                                      *)
EncodableUnbounded(ch) == IF IsSurrogate(ch) THEN UNI_REPLACEMENT_CHAR ELSE ch

Encodable(ch) ==
  IF IsSurrogate(ch) \/ ch > UNI_MAX_LEGAL_UTF32 THEN UNI_REPLACEMENT_CHAR ELSE ch

(* Mutant: the first character of three bytes is written in two.           *)
bytesToWriteUpTo800(ch) ==
  IF ch < \h80 THEN 1 ELSE IF ch <= \h800 THEN 2 ELSE IF ch < \h10000 THEN 3 ELSE 4

bytesToWrite(ch) ==
  IF ch < \h80 THEN 1 ELSE IF ch < \h800 THEN 2 ELSE IF ch < \h10000 THEN 3 ELSE 4

(* The bytes are written from the last to the first, six bits each.        *)
encode8(c) ==
  LET ch == Encodable(c)
      n  == bytesToWrite(ch)
      shifted[i \in 1 .. n] == IF i = n THEN ch ELSE shifted[i + 1] \div 64
  IN  [i \in 1 .. n |->
         IF i = 1 THEN shifted[1] + firstByteMark[n] ELSE \h80 + (shifted[i] % 64)]

encode16(c) ==
  LET ch == Encodable(c)
  IN  IF ch <= UNI_MAX_BMP THEN <<ch>>
      ELSE <<(ch - halfBase) \div halfModulus + UNI_SUR_HIGH_START,
             ((ch - halfBase) % halfModulus) + UNI_SUR_LOW_START>>

encode32(ch) == <<ch>>

=============================================================================
