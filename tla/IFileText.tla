----------------------------- MODULE IFileText ------------------------------
(***************************************************************************)
(* The text calls of class IFile (src/IFile.hpp): whole texts, lines,      *)
(* characters, signatures.  They work on the window of the buffer that     *)
(* IFile keeps, so that the steps of has_no_data_left(), of fh.read() and  *)
(* of the byte calls they make are those of IFile.                         *)
(*                                                                         *)
(* What IFile leaves out, the values of the bytes, is in content.  A call  *)
(* collects in out the places of the bytes it has taken; Result is the     *)
(* text it makes of them when it returns.                                  *)
(***************************************************************************)
EXTENDS IFile, SequencesExt, Utf

CONSTANTS
  Texts,       \* what a file may hold, as sequences of bytes
  Delims,      \* delimiters given to read_until()
  Signatures,  \* strings given to starts_with()
  MaxGrowth    \* bound: so many bytes are written after the program began

(* What a seek back to the beginning reads holds a BOM and more: skip_bom()*)
(* takes a window of three bytes for the whole file.                       *)
ASSUME TextAssumption ==
  /\ SeekChunk > 3
  /\ Texts \subseteq Seq(0 .. 255)
  /\ Delims \subseteq 0 .. 255
  /\ Signatures \subseteq Seq(0 .. 255)
  /\ MaxGrowth \in Nat

VARIABLES
  content,   \* content[f]: the bytes written to f, in the end (never changes)
  grown      \* history: how many bytes have been written since the program began

texts == <<content, grown>>

textVars == <<vars, texts>>

CR  == 13
LF  == 10
BOM == <<\hEF, \hBB, \hBF>>

TextInit ==
  /\ Init
  /\ content \in [Files -> Texts]
  /\ \A f \in Files : size[f] <= Len(content[f])
  /\ grown = 0

(* The values of the bytes that live at the places s.                      *)
Values(s) == [k \in DOMAIN s |-> content[s[k][1]][s[k][2] + 1]]

-----------------------------------------------------------------------------
(* The byte order mark.                                                    *)

(* The bytes buffer[a .. b - 1].                                           *)
Between(a, b) == [k \in 1 .. b - a |-> buffer[a + k - 1]]

StartsWithBom(s) == Len(s) >= 3 /\ SubSeq(s, 1, 3) = BOM

(* Mutant: any place where a buffer starts may have a BOM.                 *)
BomAtAnyBuffer == buffer_pos = 0 /\ StartsWithBom(Values(Between(0, buffer_size)))

BomHere ==
  /\ file_pos_of_buffer_start = 0 /\ buffer_pos = 0
  /\ StartsWithBom(Values(Between(0, buffer_size)))

(* Mutant: a BOM is taken for all there is.                                *)
AnyBom == BomHere

(* skip_bom() gives up: there is a BOM and nothing after it.               *)
BomOnly == BomHere /\ buffer_size = 3

(* buffer_pos after skip_bom() has returned false.                         *)
AfterBom == IF BomHere THEN 3 ELSE buffer_pos

-----------------------------------------------------------------------------
(* What a call makes of the bytes it has taken.                            *)

(* Mutant: every '\r' goes.                                                *)
DropEveryCR(s) == SelectSeq(s, LAMBDA b : b # CR)

(* handle_newlines(): src copies to dest, except a '\r' before a '\n'.     *)
handle_newlines(s) ==
  LET dest[i \in 0 .. Len(s)] ==
        IF i = 0 THEN <<>>
        ELSE IF s[i] = CR /\ i < Len(s) /\ s[i + 1] = LF THEN dest[i - 1]
        ELSE Append(dest[i - 1], s[i])
  IN  dest[Len(s)]

PopCR(s) == IF s # <<>> /\ s[Len(s)] = CR THEN Front(s) ELSE s

(* A line with its "\n" or "\r\n": a "\r\n" becomes "\n".                  *)
EraseCR(s) ==
  IF Len(s) >= 2 /\ s[Len(s)] = LF /\ s[Len(s) - 1] = CR THEN Append(SubSeq(s, 1, Len(s) - 2), LF)
  ELSE s

EraseBom(s) == IF StartsWithBom(s) THEN SubSeq(s, 4, Len(s)) ELSE s

LastIsLF(s) == s # <<>> /\ s[Len(s)] = LF

(* The text a call returns; of read_char() the bytes of the character.     *)
Result ==
  LET bytes == Values(out) IN
  CASE call.op = "read_text" -> handle_newlines(IF call.arg THEN EraseBom(bytes) ELSE bytes)
    [] call.op = "read_text_to_end" -> handle_newlines(bytes)
    [] call.op = "read_until" -> handle_newlines(bytes)
    [] call.op = "read_line" ->
         IF call.arg.keep THEN EraseCR(bytes) ELSE PopCR(bytes)
    [] call.op = "read_line_reae" ->
         IF ~LastIsLF(bytes) THEN bytes
         ELSE IF call.arg.keep THEN EraseCR(bytes) ELSE PopCR(Front(bytes))
    [] OTHER -> bytes

(* read_char() decodes when it has all the bytes.                          *)
TextOutcome ==
  IF call.op = "read_char" /\ outcome = "ok" /\ ~decode8(Values(out)).ok
  THEN "IFileUnicodeDecodeError" ELSE outcome

-----------------------------------------------------------------------------
(* read_text(): call.arg says whether the file is regular.                 *)

(* Mutant: buffer_pos stays behind the BOM.                                *)
DrainInPlace ==
  /\ out' = out \o Between(AfterBom, buffer_size)
  /\ HasNoDataLeft("more", AfterBom, is_eof_reached)
  /\ UNCHANGED left

SkipThenDrain ==
  /\ out' = out \o Between(AfterBom, buffer_size)
  /\ HasNoDataLeft("more", buffer_size, is_eof_reached)
  /\ UNCHANGED left

ReadText ==
  /\ \/ /\ ~AtBeginning
        /\ Begin("read_text", FALSE, "none")
        /\ Throw("ReadTextMustBeCalledAtTheBeginningOfTheFile") /\ UNCHANGED handle
     \/ /\ AtBeginning
        /\ \E s \in FileSizeResults :
             /\ GotFileSize(s)
             /\ \/ s = Unknown /\ Begin("read_text", FALSE, "none") /\ Throw(FileSizeError)
                \/ /\ s = NotRegular
                   /\ Begin("read_text", FALSE, "drain")
                   /\ HasNoDataLeft("body", buffer_pos, is_eof_reached)
                   /\ UNCHANGED <<left, out>>
                \/ s >= 0 /\ Begin("read_text", TRUE, "none") /\ ReadWhole(s)
  /\ UNCHANGED <<world, buffer, buffer_capacity, flags, lost, texts>>

(* Of a stream: whatever follows the BOM, nothing at all included.         *)
ReadTextBody ==
  /\ pc = "body" /\ call.op = "read_text"
  /\ \/ no_data /\ Throw("ok")
     \/ ~no_data /\ SkipThenDrain
  /\ InLoop /\ UNCHANGED <<lost, texts>>

ReadTextToEnd ==
  CallAtEof("read_text_to_end", 0, "drain") /\ UNCHANGED <<left, texts>>

ReadTextToEndBody ==
  /\ pc = "body" /\ call.op = "read_text_to_end"
  /\ \/ (no_data \/ BomOnly) /\ Throw("ok")
     \/ ~(no_data \/ BomOnly) /\ SkipThenDrain
  /\ InLoop /\ UNCHANGED <<lost, texts>>

-----------------------------------------------------------------------------
(* read_until(), read_line(), read_line_reae()                             *)

Lines == {"read_until", "read_line", "read_line_reae"}

ReadUntil(d, keep) == CallAtEof("read_until", [delim |-> d, keep |-> keep], "until")
ReadLine(keep)     == CallAtEof("read_line", [delim |-> LF, keep |-> keep], "until")
ReadLineReae(keep) == CallAtEof("read_line_reae", [delim |-> LF, keep |-> keep], "until")

ReadALine ==
  /\ \E keep \in BOOLEAN :
       ReadLine(keep) \/ ReadLineReae(keep) \/ \E d \in Delims : ReadUntil(d, keep)
  /\ UNCHANGED <<left, texts>>

(* read_line_reae() asks read_until() for the delimiter too.               *)
KeepDelim == call.op = "read_line_reae" \/ call.arg.keep

Found(p) == {i \in p .. buffer_size - 1 : Values(<<buffer[i]>>)[1] = call.arg.delim}

(* Mutant: two bytes are stepped over.                                     *)
ScanOver(p) ==
  LET i == CHOOSE i \in Found(p) : \A j \in Found(p) : i <= j IN
  \/ /\ Found(p) # {}
     /\ out' = out \o Between(p, i + IF KeepDelim THEN 1 ELSE 0)
     /\ buffer_pos' = i + 2
     /\ Finish("ok")
     /\ UNCHANGED <<allocated, window, ret, no_data, transfer>>
  \/ /\ Found(p) = {}
     /\ out' = out \o Between(p, buffer_size)
     /\ HasNoDataLeft("more", buffer_size, is_eof_reached)

(* memchr() from p on: the delimiter, or the rest of the buffer and on.    *)
Scan(p) ==
  LET i == CHOOSE i \in Found(p) : \A j \in Found(p) : i <= j IN
  \/ /\ Found(p) # {}
     /\ out' = out \o Between(p, i + IF KeepDelim THEN 1 ELSE 0)
     /\ buffer_pos' = i + 1
     /\ Finish("ok")
     /\ UNCHANGED <<allocated, window, ret, no_data, transfer>>
  \/ /\ Found(p) = {}
     /\ out' = out \o Between(p, buffer_size)
     /\ HasNoDataLeft("more", buffer_size, is_eof_reached)

(* Mutant: read_line_reae() at the end does not say so.                    *)
NoLineSilent ==
  /\ UNCHANGED eof_indicator
  /\ Throw(IF call.op = "read_line_reae" THEN "ok" ELSE "UnexpectedEOF")

(* Nothing is left when the call begins.                                   *)
NoLine ==
  \/ call.op = "read_line_reae" /\ eof_indicator' = TRUE /\ Throw("ok")
  \/ call.op # "read_line_reae" /\ UNCHANGED eof_indicator /\ Throw("UnexpectedEOF")

(* The end is met after some bytes.  read_line_reae() asserts that it has  *)
(* got some and that nothing is left.                                      *)
LastLine ==
  \/ call.op # "read_line_reae" /\ UNCHANGED eof_indicator /\ Throw("ok")
  \/ /\ call.op = "read_line_reae"
     /\ \/ out # <<>> /\ is_eof_reached /\ buffer_pos = buffer_size
           /\ eof_indicator' = TRUE /\ Throw("ok")
        \/ /\ ~(out # <<>> /\ is_eof_reached /\ buffer_pos = buffer_size)
           /\ pc' = "aborted"
           /\ UNCHANGED <<eof_indicator, allocated, window, buffer_pos, ret, no_data, transfer,
                          left, out, outcome>>

InLine == UNCHANGED <<world, handle, buffer, buffer_capacity, is_eof_reached, call, lost, texts>>

ReadLineBody ==
  /\ pc = "body" /\ call.op \in Lines
  /\ \/ (no_data \/ BomOnly) /\ NoLine
     \/ ~(no_data \/ BomOnly) /\ Scan(AfterBom) /\ UNCHANGED <<left, eof_indicator>>
  /\ InLine

(* Mutant: the end is not looked for.                                      *)
ReadLineMoreRelentless ==
  /\ pc = "more" /\ call.op \in Lines
  /\ Scan(0) /\ UNCHANGED <<left, eof_indicator>>
  /\ InLine

ReadLineMore ==
  /\ pc = "more" /\ call.op \in Lines
  /\ \/ no_data /\ LastLine
     \/ ~no_data /\ Scan(0) /\ UNCHANGED <<left, eof_indicator>>
  /\ InLine

-----------------------------------------------------------------------------
(* read_char(): the first byte, then read_bytes() of as many as it calls   *)
(* for, which asks at_eof() also when it calls for none.                   *)

ReadChar == CallAtEof("read_char", 0, "first") /\ UNCHANGED <<left, texts>>

(* Mutant: every character is taken for a byte.                            *)
NoTrailing(b) == 0

Trailing(b) == trailingBytesForUTF8(b)

ReadCharBody ==
  /\ pc = "body" /\ call.op = "read_char" /\ call.loop = "first"
  /\ \/ /\ no_data \/ BomOnly
        /\ Throw("UnexpectedEOF") /\ UNCHANGED call
     \/ /\ ~(no_data \/ BomOnly)
        /\ out' = <<buffer[AfterBom]>>
        /\ left' = Trailing(Values(<<buffer[AfterBom]>>)[1])
        /\ call' = [call EXCEPT !.loop = "exact"]
        /\ \/ /\ AfterBom + 1 < buffer_size
              /\ buffer_pos' = AfterBom + 1
              /\ no_data' = FALSE /\ pc' = "body"
              /\ UNCHANGED <<allocated, window, ret, outcome, transfer>>
           \/ /\ AfterBom + 1 = buffer_size
              /\ HasNoDataLeft("body", AfterBom + 1, is_eof_reached)
  /\ UNCHANGED <<world, handle, buffer, buffer_capacity, flags, lost, texts>>

-----------------------------------------------------------------------------
(* starts_with(s), get_last_write_time()                                   *)

StartsWith(s) ==
  /\ \/ /\ ~(file_pos_of_buffer_start = 0 /\ buffer_pos = 0)
        /\ Begin("starts_with", s, "none")
        /\ Throw("StartsWithMustBeCalledAtTheBeginningOfTheFile")
        /\ UNCHANGED <<world, handle, buffer, buffer_capacity, flags, lost>>
     \/ /\ file_pos_of_buffer_start = 0 /\ buffer_pos = 0
        /\ CallAtEof("starts_with", s, "none") /\ UNCHANGED left
  /\ UNCHANGED texts

(* Mutant: the part of the signature that the buffer holds is enough.      *)
HoldsPart(s) == \A i \in 1 .. Len(s) : i <= buffer_size => Values(Between(0, buffer_size))[i] = s[i]

HoldsSignature(s) == buffer_size >= Len(s) /\ Values(Between(0, Len(s))) = s

StartsWithBody ==
  /\ pc = "body" /\ call.op = "starts_with"
  /\ Throw(IF ~no_data /\ HoldsSignature(call.arg) THEN "true" ELSE "false")
  /\ InLoop /\ UNCHANGED <<lost, texts>>

(* The time comes with the size, and both are cached.                      *)
GetLastWriteTime ==
  /\ Begin("get_last_write_time", 0, "none")
  /\ \E s \in FileSizeResults :
       /\ GotFileSize(s)
       /\ Throw(IF s = Unknown THEN FileSizeError ELSE "ok")
  /\ UNCHANGED <<world, buffer, buffer_capacity, flags, lost, texts>>

-----------------------------------------------------------------------------
TextCall ==
  \/ ReadText \/ ReadTextToEnd \/ ReadALine \/ ReadChar
  \/ \E s \in Signatures : StartsWith(s)
  \/ GetLastWriteTime

(* Byte calls that come between them.                                      *)
ByteCall ==
  /\ AtEofCall \/ ReadByte \/ (\E p \in Targets : Seek(p)) \/ (\E f \in Files : Open(f)) \/ Close
  /\ UNCHANGED texts

TextStep ==
  \/ ReadTextBody \/ ReadTextToEndBody
  \/ ReadLineBody \/ ReadLineMore
  \/ ReadCharBody \/ StartsWithBody
  \/ Step /\ UNCHANGED texts

(* Another process writes the next byte of the content.                    *)
TextWorld ==
  /\ World
  /\ \A f \in Files : size'[f] <= Len(content[f])
  /\ grown' = IF size' = size THEN grown ELSE grown + 1
  /\ grown' <= MaxGrowth
  /\ UNCHANGED content

(* Bound: an object that has lost its place is only positioned again; what *)
(* other calls do with such a window is IFile's matter.                    *)
Recovery == (\E p \in Targets : Seek(p)) /\ UNCHANGED texts

TextNext ==
  \/ ~torn /\ (TextCall \/ ByteCall)
  \/ torn /\ Recovery
  \/ TextStep
  \/ TextWorld

TextSpec == TextInit /\ [][TextNext]_textVars

TextFairSpec ==
  TextSpec /\ WF_textVars(TextStep /\ ~ReadFails) /\ WF_textVars(TextWorld /\ ended' # ended)

=============================================================================
