-------------------------- MODULE IFileProperties ---------------------------
(***************************************************************************)
(* What is claimed of IFile (src/IFile.hpp): invariants, the abstract      *)
(* specification it implements, and that its calls return.                 *)
(***************************************************************************)
EXTENDS IFile

Ops == {"none", "at_eof", "peek_byte", "read_byte", "read_bytes", "read_bytes_at_most",
        "read_bytes_all", "read_bytes_to_end", "seek", "open", "close",
        "set_buffer_size", "get_file_size"}

Loops == {"none", "exact", "at_most", "drain", "skip"}

PCs == {"idle", "body", "more", "ret", "aborted", "overrun"} \cup Sites

Losses == {"none", "IOError", "UnexpectedEOF", "OSReportedIncorrectFileSize", "SeekFailed",
           "AttemptToReadAClosedFile"}

WorldOK ==
  streams \subseteq Files /\ size \in [Files -> Nat] /\ ended \subseteq Files

HandleOK ==
  /\ fd \in Files \cup {NoFile} /\ off \in Nat
  /\ file_size \in Nat \cup {Unknown, NotRegular}
  /\ zero_at \in Nat \cup {-1}

TransferOK == want \in Nat /\ got \in Nat /\ read_over \in BOOLEAN

BufferOK ==
  /\ allocated \in BOOLEAN /\ buffer_capacity \in Nat
  /\ buffer \in [0 .. buffer_capacity - 1 -> Byte \cup {Garbage}]
  /\ buffer_pos \in Nat /\ buffer_size \in 0 .. buffer_capacity
  /\ \A i \in 0 .. buffer_size - 1 : buffer[i] \in Byte
  /\ file_pos_of_buffer_start \in Nat

FlagsOK == is_eof_reached \in BOOLEAN /\ eof_indicator \in BOOLEAN

PlaceOK == pc \in PCs /\ ret \in {"body", "more"} /\ no_data \in BOOLEAN

CallOK ==
  /\ call \in [op : Ops, arg : Int, loop : Loops, start : Nat]
  /\ left \in Nat /\ out \in Seq(Byte)

(* Types.  The window always lies in the buffer, and no byte of the window *)
(* and no byte given to the caller is uninitialised memory, whatever calls *)
(* have failed before (buffer, buffer_pos, buffer_size in IFile.hpp:36-42).*)
TypeOK ==
  /\ WorldOK /\ HandleOK /\ TransferOK /\ BufferOK /\ FlagsOK /\ PlaceOK /\ CallOK
  /\ lost \in Losses

(* The window of the buffer is what the kernel has just given: its bytes   *)
(* are those of the file from file_pos_of_buffer_start on, and the kernel  *)
(* goes on reading where the window ends (has_no_data_left, seek,          *)
(* read_bytes, close).                                                     *)
Holds(n) == \A i \in 0 .. n - 1 : buffer[i] = <<fd, file_pos_of_buffer_start + i>>

Coherent ==
  /\ ~torn =>
       /\ pc \notin {"fill", "refill", "overrun"} => Holds(buffer_size)
       /\ pc \in {"idle", "body", "more", "ret"} =>
            off = file_pos_of_buffer_start + buffer_size
       /\ pc = "fill" => Holds(got) /\ off = file_pos_of_buffer_start + got
       /\ pc = "bulk" => off = file_pos_of_buffer_start + buffer_size + got
       /\ pc = "whole" => off = got
       /\ fd = NoFile => tell = 0 /\ buffer_size = 0
  /\ pc = "refill" =>
       /\ Holds(got) /\ off = file_pos_of_buffer_start + got
       /\ file_pos_of_buffer_start = SeekBase(call.arg)

(* The sticky flag that saves read() calls at the end of the file is true  *)
(* only when a read has met the end, here or (the file has grown since)    *)
(* before; the indicator of a passed end goes with it, and the position is *)
(* then not beyond the end.  When at_eof() says false, there is a byte to  *)
(* take (has_no_data_left, seek, eof_passed, at_eof).                      *)
EofIsBackedByARead ==
  /\ ~torn /\ pc \in {"idle", "ret"} =>
       /\ is_eof_reached => zero_at \in 0 .. off
       /\ eof_indicator => is_eof_reached
       /\ fd # NoFile => tell <= size[fd]
  /\ pc = "ret" /\ call.op = "at_eof" /\ outcome = "false" => Available > 0

(* A short count of read_bytes_at_most() means the end: read(2) has said   *)
(* that there is nothing more, not beyond the position, nothing is left in *)
(* the buffer, and eof_passed() says so unless the call came at the end    *)
(* already.  A buffer of no bytes reads nothing (set_buffer_size(0)).      *)
ShortReadsMeetTheEnd ==
  pc = "ret" /\ call.op = "read_bytes_at_most" /\ outcome = "ok" /\ Len(out) < call.arg =>
    \/ /\ zero_at # -1 /\ (~torn => zero_at <= tell)
       /\ Available = 0 /\ is_eof_reached /\ no_data
       /\ out # <<>> => eof_indicator
    \/ buffer_capacity = 0 /\ out = <<>>

(* read_bytes() and read_bytes_to_end() return everything: up to the size  *)
(* of a regular file, to the end of a stream, however many short counts    *)
(* read(2) has returned on the way.  Through a buffer of no bytes nothing  *)
(* comes of a stream.                                                      *)
WholeReadsAreComplete ==
  ~torn /\ pc = "ret" /\ outcome = "ok" /\ call.op \in {"read_bytes_all", "read_bytes_to_end"} =>
    \/ call.start + Len(out) = IF file_size = NotRegular THEN zero_at ELSE file_size
    \/ file_size = NotRegular /\ buffer_capacity = 0

(* has_no_data_left() is entered only with an empty buffer: its assert()   *)
(* at IFile.hpp:52 holds.                                                  *)
NoAssertionFails == pc # "aborted"

(* Whatever set_buffer_size() was given, has_no_data_left() never asks for *)
(* more than the buffer has room for; seek() asks for two chunks at most,  *)
(* so that nothing but a seek through a buffer of fewer bytes than these   *)
(* ever writes beyond its end (IFile.hpp:64, 136-141, 192-197).            *)
FillFitsBuffer ==
  /\ pc = "fill" => got + want <= buffer_capacity
  /\ pc = "refill" => got <= buffer_capacity /\ got + want <= 2 * SeekChunk
  /\ pc = "overrun" => call.op = "seek" /\ buffer_capacity < 2 * SeekChunk

-----------------------------------------------------------------------------
(* A caller that sees only positions and bytes sees a ByteStream: a call   *)
(* takes effect when it returns.                                           *)
Position == IF pc \in {"idle", "ret"} THEN tell ELSE call.start

Answered ==
  IF pc = "ret"
  THEN [op |-> call.op, arg |-> call.arg, outcome |-> outcome, bytes |-> out]
  ELSE <<>>

Abstract == INSTANCE ByteStream WITH
  source <- fd, pos <- Position, intact <- ~torn, answer <- Answered

(* The calls of IFile.hpp deliver the bytes of the file in order, none     *)
(* twice and none left out, and leave the position behind them, whatever   *)
(* the buffer, short counts and failures do in between.                    *)
ImplementsByteStream == Abstract!Spec

(* Every call returns: no reading or seeking loop of IFile.hpp goes on for *)
(* ever once the file has stopped growing and a stream has ended.          *)
CallsReturn == (pc # "idle") ~> (pc = "idle")

-----------------------------------------------------------------------------
(* What the comments of IFile.hpp say and the code does not do.            *)

(* IFile.hpp:205, of at_eof(): "it returns true if the file is at the end".*)
(* Reading errors of the operating system are left aside.                  *)
AtEofMeansTheEnd ==
  pc = "ret" /\ call.op = "at_eof" /\ outcome = "true" /\ lost # "IOError" =>
    tell = size[fd]

(* perf_tests/read_line.cpp:47 gives an IFile a "4KiB buffer" (line 54),   *)
(* the SeekChunk of IFile.hpp:13: a size that a buffer may have.           *)
NoReadOverrunsTheBuffer == pc # "overrun"

(* IFile.hpp:217, of eof_passed(): "it returns true if a read operation    *)
(* has attempted to read past the end of the file".                        *)
EofPassedAfterAShortRead ==
  pc = "ret" /\ call.op = "read_bytes_at_most" /\ outcome = "ok" /\ Len(out) < call.arg =>
    eof_indicator

=============================================================================
