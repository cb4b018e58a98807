------------------------ MODULE ConversionProperties ------------------------
(***************************************************************************)
(* What is claimed of src/utf.hpp, src/UnixNanotime.hpp and the times of a *)
(* FileHandle.  A program either converts a text or handles times.         *)
(***************************************************************************)
EXTENDS UtfConvert, UtfReference, FileTimes

VARIABLE job    \* "text" or "times"

ConvertIdle ==
  /\ from = 8 /\ to = 0 /\ src = <<>>
  /\ source = 0 /\ converted = <<>> /\ verdict = "ok"

TimeIdle == TimeInit /\ btime = NoTime /\ mtime = CHOOSE t \in Times : TRUE

Init ==
  \/ job = "text"  /\ ConvertInit /\ TimeIdle
  \/ job = "times" /\ ConvertIdle /\ TimeInit

ConvertText == job = "text" /\ ConvertNext /\ UNCHANGED <<job, times>>
HandleTimes == job = "times" /\ TimeNext /\ UNCHANGED <<job, conversion>>

Next == ConvertText \/ HandleTimes

Spec == Init /\ [][Next]_<<job, conversion, times>>

Units(e) == CASE e = 0 -> {} [] e = 8 -> 0 .. \hFF [] e = 16 -> 0 .. UNI_MAX_BMP [] e = 32 -> Nat

(* Types: nothing is decoded beyond the end of the source, every unit      *)
(* written has the width of its encoding (utf.hpp:471-487), and every time *)
(* is a word (UnixNanotime.hpp:12-14).                                     *)
TypeOK ==
  /\ from \in {8, 16, 32} /\ to \in {0, 8, 16, 32} \ {from}
  /\ source \in 0 .. Len(src)
  /\ \A i \in DOMAIN converted : converted[i] \in Units(to)
  /\ verdict \in {"running", "ok", "invalid"}
  /\ {last_write_time, creation_time, answer} \subseteq 0 .. Word - 1
  /\ btime \in Times \cup {NoTime} /\ {mtime, fetched, born, meant} \subseteq Times \cup {NoTime}

-----------------------------------------------------------------------------
Replaced(cs) ==
  IF to = 32 THEN cs ELSE [i \in DOMAIN cs |-> IF IsScalar(cs[i]) THEN cs[i] ELSE \hFFFD]

(* decode() of UTF-8 takes exactly what the standard calls well formed: no *)
(* longer form than needed, no surrogate, nothing beyond U+10FFFF, nothing *)
(* cut short; and it takes all of it (utf.hpp:162-244).                    *)
DecodeIsExact ==
  from = 8 /\ source < Len(src) =>
    LET d == decode8(Rest)
        prefixes == {SubSeq(Rest, 1, n) : n \in 1 .. 4 \cap 1 .. Len(Rest)}
    IN  /\ d.ok = (\E s \in prefixes : WellFormed(s))
        /\ d.ok => WellFormed(SubSeq(Rest, 1, d.used)) /\ d.ch = Payload(SubSeq(Rest, 1, d.used))

(* At every round of convert() what has been written is, by the standard,  *)
(* the text read so far, U+FFFD in place of what is not a scalar value:    *)
(* as_str8, as_u16 and as_u32 lose, double or split no character           *)
(* (utf.hpp:319-361, 410-487).                                             *)
ConversionKeepsTheText ==
  verdict # "invalid" /\ to # 0 =>
    Chars(to, converted) = Replaced(Chars(from, SubSeq(src, 1, source)))

(* is_valid() is true, and a conversion gives text, exactly for well-formed*)
(* UTF-8, and for UTF-16 in which every high surrogate has its low one; of *)
(* any other string nothing is converted (utf.hpp:457-487).                *)
ValidityIsExact ==
  /\ verdict = "ok" => Chars(from, src) # NotText
  /\ verdict = "invalid" => Chars(from, src) = NotText /\ converted = <<>>

-----------------------------------------------------------------------------
(* A cached time is never the mark of an empty cache: a file is asked for  *)
(* each of its times once, however close the time is to the mark           *)
(* (UnixNanotime.hpp:13, FileHandle.hpp:389-407).                          *)
SentinelIsNeverATime ==
  /\ (last_write_time = uninitialized) <=> (fetched = NoTime)
  /\ (creation_time = uninitialized) <=> (born = NoTime)

(* The instant the word stands for, one nanosecond late for the earliest.  *)
Instant(t) == IF Nanoseconds(t) = BOUNDARY - Word THEN Nanoseconds(t) + 1 ELSE Nanoseconds(t)

(* to_time_t() and to_uint64() give the instant the program has asked for, *)
(* on both sides of 1970 and up to the end of the range, in whole units    *)
(* towards 1970 (UnixNanotime.hpp:16-30).                                  *)
ConversionsKeepTheInstant ==
  meant # NoTime =>
    /\ to_time_t(answer) = Quotient(Instant(meant), Second)
    /\ \A offset \in {0, Word \div 8} :
         to_uint64(answer, Tick, offset) = (Quotient(Instant(meant), Tick) + offset) % Word

(* A time taken from one file and given to another arrives as it was, for  *)
(* times from 1970 on and for whole seconds before (to_timespec, UnixNano- *)
(* time.hpp:32-41).  A fraction of a second before 1970 is turned around.  *)
CopyKeepsTheTime ==
  [][copied' # copied /\ meant # NoTime =>
       \/ Nanoseconds(copied') = Instant(meant)
       \/ meant.sec < 0 /\ Instant(meant) % Second # 0]_times

=============================================================================
