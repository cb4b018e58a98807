----------------------------- MODULE UtfConvert -----------------------------
(***************************************************************************)
(* convert() and is_valid_impl() of src/utf.hpp, one character a step, for *)
(* the functions that call them: is_valid, as_str8, as_u16, as_u32.        *)
(***************************************************************************)
EXTENDS Utf

CONSTANTS
  Strings8, Strings16, Strings32   \* strings to convert, by their encoding

ASSUME StringsAssumption ==
  /\ \A s \in Strings8  : s \in Seq(0 .. \hFF)
  /\ \A s \in Strings16 : s \in Seq(0 .. UNI_MAX_BMP)
  /\ \A s \in Strings32 : s \in Seq(Nat)

VARIABLES
  from, to,  \* the encodings; to = 0 for is_valid_impl()
  src,       \* the string
  source,    \* how many code units have been decoded
  converted, \* out
  verdict    \* "running", "ok", or "invalid"

conversion == <<from, to, src, source, converted, verdict>>

ConvertInit ==
  /\ \/ from = 8  /\ src \in Strings8
     \/ from = 16 /\ src \in Strings16
     \/ from = 32 /\ src \in Strings32
  /\ to \in {0, 8, 16, 32} \ {from}
  /\ source = 0 /\ converted = <<>> /\ verdict = "running"

Decode(s) == IF from = 8 THEN decode8(s) ELSE IF from = 16 THEN decode16(s) ELSE decode32(s)

Encode(ch) ==
  CASE to = 0 -> <<>>
    [] to = 8 -> encode8(ch)
    [] to = 16 -> encode16(ch)
    [] to = 32 -> encode32(ch)

Rest == SubSeq(src, source + 1, Len(src))

(* One round of the loop: a character, or return {}.                       *)
Convert ==
  /\ verdict = "running" /\ source < Len(src)
  /\ LET d == Decode(Rest) IN
       /\ source' = source + d.used
       /\ \/ d.ok  /\ converted' = converted \o Encode(d.ch) /\ UNCHANGED verdict
          \/ ~d.ok /\ verdict' = "invalid" /\ converted' = <<>>
  /\ UNCHANGED <<from, to, src>>

ConvertReturn ==
  /\ verdict = "running" /\ source >= Len(src)
  /\ verdict' = "ok"
  /\ UNCHANGED <<from, to, src, source, converted>>

ConvertNext == Convert \/ ConvertReturn

=============================================================================
