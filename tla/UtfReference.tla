---------------------------- MODULE UtfReference ----------------------------
(***************************************************************************)
(* The encodings as the Unicode standard defines them, by the value of the *)
(* bits and not, as src/utf.hpp does, by tables and ranges of bytes.       *)
(***************************************************************************)
EXTENDS Integers, Sequences

MaxChar == \h10FFFF

IsScalar(ch) == ch \in 0 .. MaxChar /\ ch \notin \hD800 .. \hDFFF

(* UTF-8, n bytes a character: the least value that needs them, how many   *)
(* values the first of them carries, and which bytes it can be.            *)
Least(n)      == <<0, \h80, \h800, \h10000>>[n]
LeadValues(n) == <<128, 32, 16, 8>>[n]
Lead(n)       == IF n = 1 THEN 0 .. 127 ELSE 256 - 2 * LeadValues(n) .. 255 - LeadValues(n)

Payload(s) ==
  LET value[i \in 1 .. Len(s)] ==
        IF i = 1 THEN s[1] % LeadValues(Len(s)) ELSE value[i - 1] * 64 + (s[i] % 64)
  IN  value[Len(s)]

WellFormed(s) ==
  /\ Len(s) \in 1 .. 4 /\ s[1] \in Lead(Len(s))
  /\ \A i \in 2 .. Len(s) : s[i] \div 64 = 2
  /\ Payload(s) >= Least(Len(s)) /\ IsScalar(Payload(s))

(* UTF-16.  A low surrogate by itself counts as a character.               *)
High(u) == u \div 1024 = 54
Low(u)  == u \div 1024 = 55

(* How many units the character at the beginning of s has in an encoding,  *)
(* 0 if there is none, and which one it is.                                *)
CharSize(e, s) ==
  CASE e = 8  -> LET ns == {n \in 1 .. 4 : n <= Len(s) /\ WellFormed(SubSeq(s, 1, n))}
                 IN  IF ns = {} THEN 0 ELSE CHOOSE n \in ns : TRUE
    [] e = 16 -> IF ~High(s[1]) THEN 1 ELSE IF Len(s) >= 2 /\ Low(s[2]) THEN 2 ELSE 0
    [] e = 32 -> 1

FirstChar(e, s) ==
  CASE e = 8  -> Payload(SubSeq(s, 1, CharSize(8, s)))
    [] e = 16 -> IF High(s[1]) THEN 65536 + (s[1] % 1024) * 1024 + (s[2] % 1024) ELSE s[1]
    [] e = 32 -> s[1]

(* The characters of a string, or NotText.                                 *)
NotText == <<-1>>

Then(ch, text) == IF text = NotText THEN NotText ELSE <<ch>> \o text

Chars(e, s) ==
  LET tail[i \in 1 .. Len(s) + 1] ==
        LET rest == SubSeq(s, i, Len(s))
        IN  IF i > Len(s) THEN <<>>
            ELSE IF CharSize(e, rest) = 0 THEN NotText
            ELSE Then(FirstChar(e, rest), tail[i + CharSize(e, rest)])
  IN  tail[1]

=============================================================================
