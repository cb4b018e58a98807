------------------------ MODULE IFileTextProperties -------------------------
(***************************************************************************)
(* What is claimed of the text calls of IFile (src/IFile.hpp).             *)
(***************************************************************************)
EXTENDS IFileText, UtfReference

TextOps == {"read_text", "read_text_to_end", "read_char", "starts_with",
            "get_last_write_time"} \cup Lines

(* Types.  The position never leaves the window, the text a call returns   *)
(* is made of bytes of the file, and the collecting loops of IFile.hpp     *)
(* (242-411) count nothing below zero.                                     *)
TextTypeOK ==
  /\ content \in [Files -> Texts] /\ \A f \in Files : size[f] <= Len(content[f])
  /\ buffer_size \in 0 .. buffer_capacity /\ buffer_pos \in Nat
  /\ ~torn /\ pc \in {"idle", "ret"} => buffer_pos <= buffer_size
  /\ \A i \in 0 .. buffer_size - 1 : buffer[i] \in Byte
  /\ left \in 0 .. 5 /\ out \in Seq(Byte)
  /\ call.op \in TextOps \cup {"none", "at_eof", "read_byte", "seek", "open", "close"}

-----------------------------------------------------------------------------
(* Reference: texts as functions of the bytes between two places.          *)

FileBytes(a, b) == SubSeq(content[fd], a + 1, b)

(* "\r\n" becomes "\n", all places at once: the k-th byte that stays.      *)
Normalized(s) ==
  LET Kept    == {i \in 1 .. Len(s) : ~(s[i] = CR /\ i < Len(s) /\ s[i + 1] = LF)}
      Rank(i) == Cardinality({j \in Kept : j <= i})
  IN  [k \in 1 .. Cardinality(Kept) |-> s[CHOOSE i \in Kept : Rank(i) = k]]

(* read_line_via_read_byte() of perf_tests/read_line.cpp, on the bytes up  *)
(* to where it stops reading.                                              *)
LineViaReadByte(s) ==
  LET r[i \in 0 .. Len(s)] ==
        IF i = 0 THEN <<>>
        ELSE IF s[i] # LF THEN Append(r[i - 1], s[i])
        ELSE IF r[i - 1] # <<>> /\ Last(r[i - 1]) = CR THEN Front(r[i - 1]) ELSE r[i - 1]
  IN  r[Len(s)]

(* Where the text of the call begins: behind the BOM, if it is a call at   *)
(* the beginning and the first read could see all of it.                   *)
HasBom == call.start = 0 /\ StartsWithBom(FileBytes(0, size[fd]))

TextStart ==
  IF ~HasBom THEN {call.start} ELSE IF grown > 0 THEN {0, 3} ELSE {3}

Returned(ops, o) == ~torn /\ pc = "ret" /\ call.op \in ops /\ outcome = o

(* No more is to be had: a read has met the end.                           *)
MetTheEnd ==
  /\ Available = 0 /\ is_eof_reached
  /\ grown = 0 => tell = size[fd]

(* The file is a BOM and no more, which the text calls do not step over.   *)
StuckBeforeBom == tell = 0 /\ BomOnly /\ (grown = 0 => size[fd] = 3)

-----------------------------------------------------------------------------
(* read_until(), read_line(), read_line_reae() return the next line, and   *)
(* stop right behind it, wherever the delimiter, a BOM or a "\r\n" lies in *)
(* the buffers: up to the first delimiter, or else to the end.  The text   *)
(* is that of read_text(); without the newline it is what the reference    *)
(* loop of perf_tests/read_line.cpp returns, except that read_line() also  *)
(* removes a '\r' that ends the last line (IFile.hpp:301-389).             *)
LineText(raw) ==
  LET text == IF LastIsLF(raw) \/ (raw # <<>> /\ Last(raw) = call.arg.delim) THEN Front(raw) ELSE raw
  IN  IF call.arg.keep THEN Normalized(raw)
      ELSE CASE call.op = "read_until" -> Normalized(text)
             [] call.op = "read_line_reae" -> LineViaReadByte(raw)
             [] call.op = "read_line" ->
                  IF LastIsLF(raw) THEN LineViaReadByte(raw) ELSE PopCR(LineViaReadByte(raw))

LineIsNext ==
  Returned(Lines, "ok") =>
    \/ \E s \in TextStart :
         LET raw == FileBytes(s, tell)
             d   == call.arg.delim
         IN  /\ tell > s
             /\ \A i \in 1 .. Len(raw) - 1 : raw[i] # d
             /\ Last(raw) = d \/ MetTheEnd
             /\ Result = IF call.op = "read_until" /\ Last(raw) # d THEN Normalized(raw)
                         ELSE LineText(raw)
    \/ call.op = "read_line_reae" /\ out = <<>> /\ tell = call.start

(* read_text() and read_text_to_end() return everything from the position  *)
(* to the end, without the BOM and with "\n" for "\r\n", on a regular file *)
(* and on a stream, though one is read in one go and the other buffer by   *)
(* buffer (IFile.hpp:242-299).                                             *)
TextIsWhole ==
  Returned({"read_text", "read_text_to_end"}, "ok") =>
    \/ /\ \E s \in TextStart : Result = Normalized(FileBytes(s, tell))
       /\ IF call.op = "read_text" /\ file_size # NotRegular
          THEN tell = file_size ELSE MetTheEnd
    \/ call.op = "read_text_to_end" /\ StuckBeforeBom /\ Result = <<>>

(* A line is refused only when nothing is left but, perhaps, a lone BOM    *)
(* (IFile.hpp:303-307, 84-86): a program that asks at_eof() and then reads *)
(* a line gets it.                                                         *)
LinesFailOnlyAtTheEnd ==
  Returned({"read_line", "read_until"}, "UnexpectedEOF") =>
    tell = call.start /\ (MetTheEnd \/ StuckBeforeBom)

(* read_line_reae() reports the end by eof_passed() whenever it returns    *)
(* a line without a newline, and read_line_reae(true) returns nothing only *)
(* there: the loops of Python and Rust it imitates end, and do not end too *)
(* early (IFile.hpp:359-389).                                              *)
ReaeTellsTheEnd ==
  Returned({"read_line_reae"}, "ok") =>
    /\ ~LastIsLF(Values(out)) => eof_indicator /\ (MetTheEnd \/ StuckBeforeBom)
    /\ call.arg.keep /\ Result = <<>> => tell = call.start

(* read_char() takes one character that is well formed by the standard, or *)
(* throws: IFileUnicodeDecodeError for bytes no character begins with,     *)
(* UnexpectedEOF only when the file ends before the character does.  A     *)
(* failed call has stepped over the bytes the first one announced, which   *)
(* may belong to the next characters (IFile.hpp:391-411).                  *)
CharsAreExact ==
  Returned({"read_char"}, outcome) /\ fd # NoFile =>
    \E s \in TextStart :
      LET rest == FileBytes(s, size[fd])
          n    == 1 + Trailing(rest[1])
      IN  CASE TextOutcome = "ok" -> WellFormed(FileBytes(s, tell)) /\ tell = s + Len(out)
            [] TextOutcome = "IFileUnicodeDecodeError" ->
                 /\ tell = s + n
                 /\ \A k \in 1 .. 4 : k <= Len(rest) => ~WellFormed(SubSeq(rest, 1, k))
            [] TextOutcome = "UnexpectedEOF" ->
                 StuckBeforeBom \/ (MetTheEnd /\ (tell > s => s + n > tell))
            [] OTHER -> TRUE

(* starts_with() says true only of a file that starts with the signature,  *)
(* and false of one that does only when the file has grown, when both are  *)
(* empty, or when the signature is longer than what the first read, or a   *)
(* seek back to the beginning, has brought (IFile.hpp:550-559).            *)
StartsWithIsExact ==
  Returned({"starts_with"}, outcome) /\ outcome \in {"true", "false"} =>
    LET starts == IsPrefix(call.arg, FileBytes(0, size[fd])) IN
    /\ tell = 0
    /\ outcome = "true" => starts
    /\ outcome = "false" /\ starts =>
         \/ grown > 0
         \/ call.arg = <<>> /\ size[fd] = 0
         \/ Len(call.arg) > buffer_size /\ buffer_size \in {buffer_capacity, SeekChunk, 2 * SeekChunk}

(* has_no_data_left() is entered only with an empty buffer, and the two    *)
(* assertions of read_line_reae() hold (IFile.hpp:52, 373, 375).           *)
TextAssertionsHold == pc # "aborted"

(* Every text call returns: the loops over the buffers end with the file.  *)
TextCallsReturn == (pc # "idle") ~> (pc = "idle")

=============================================================================
