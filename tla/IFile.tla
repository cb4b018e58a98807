------------------------------- MODULE IFile --------------------------------
(***************************************************************************)
(* class IFile of src/IFile.hpp: buffered reading of bytes, positioning    *)
(* and end of file, over a FileHandle.                                     *)
(*                                                                         *)
(* A call runs from pc = "idle" to pc = "ret", where its result can be     *)
(* seen, and Take brings the object back to "idle".  In between, pc is the *)
(* place of the fh.read() it waits for ("fill", "refill", "bulk",          *)
(* "whole"), or says that has_no_data_left()/at_eof() has answered:        *)
(* "body" before the work of the call, "more" inside its loop.  A failing  *)
(* assert() ends the program: pc = "aborted".  A read(2) that gives more   *)
(* than the buffer has room for writes over whatever lies behind it: pc =  *)
(* "overrun", from where on nothing is said of the program.                *)
(***************************************************************************)
EXTENDS FileHandle, Sequences

CONSTANTS
  Garbage,          \* an uninitialised byte of a new[] buffer
  DefaultCapacity,  \* IFILE_DEFAULT_BUFFER_SIZE
  Capacities,       \* sizes given to set_buffer_size()
  SeekChunk,        \* IFILE_BUFFER_SIZE_RIGHT_AFTER_SEEK
  NearEnd,          \* IFILE_BUFFER_SIZE_RIGHT_AFTER_SEEK / 8
  Counts,           \* numbers of bytes asked for
  Targets,          \* positions given to seek()
  TornBound         \* bound: out of step, reads fail only before here

(* The default buffer has room for what seek() reads into it; buffers of   *)
(* the sizes given to set_buffer_size(), which refuses none, may have not. *)
ASSUME IFileAssumption ==
  /\ Garbage \notin Byte
  /\ SeekChunk \in Nat \ {0}
  /\ NearEnd \in Nat
  /\ Capacities \subseteq Nat
  /\ DefaultCapacity \in Nat /\ DefaultCapacity >= 2 * SeekChunk
  /\ Counts \subseteq Nat
  /\ Targets \subseteq Int
  /\ TornBound \in Nat

VARIABLES
  allocated,                 \* buffer != nullptr
  buffer,                    \* the bytes of the buffer
  buffer_pos, buffer_size, buffer_capacity,
  file_pos_of_buffer_start, is_eof_reached, eof_indicator,
  pc,                        \* where the running call is
  ret,                       \* where has_no_data_left() returns to
  no_data,                   \* what has_no_data_left()/at_eof() returned
  call,                      \* the running call: its name, argument, loop
  left,                      \* local count: bytes still to be delivered
  out,                       \* bytes delivered to the caller so far
  outcome,                   \* what the call returned or threw
  lost                       \* history: the exception that has left the object
                             \* out of step with the kernel's offset

frame == <<pc, ret, no_data, call, left, out, outcome>>
memory == <<allocated, buffer, buffer_capacity>>
window == <<file_pos_of_buffer_start, buffer_size>>
flags  == <<is_eof_reached, eof_indicator>>

vars == <<world, handle, transfer, memory, window, buffer_pos, flags, frame, lost>>

Sites == {"fill", "refill", "bulk", "whole"}

tell == file_pos_of_buffer_start + buffer_pos

torn == lost # "none"

(* The call throws e, and has lost the place if c holds.                   *)
Lose(c, e) == lost' = IF c /\ ~torn THEN e ELSE lost

NoCall == [op |-> "none", arg |-> 0, loop |-> "none", start |-> 0]

Init ==
  /\ HandleInit
  /\ allocated = FALSE
  /\ buffer_capacity = DefaultCapacity
  /\ buffer = [i \in 0 .. DefaultCapacity - 1 |-> Garbage]
  /\ buffer_pos = 0 /\ buffer_size = 0 /\ file_pos_of_buffer_start = 0
  /\ is_eof_reached = FALSE /\ eof_indicator = FALSE
  /\ pc = "idle" /\ ret = "body" /\ no_data = FALSE /\ call = NoCall
  /\ left = 0 /\ out = <<>> /\ outcome = "ok"
  /\ lost = "none"

-----------------------------------------------------------------------------
(* Control.                                                                *)

Begin(op, arg, loop) ==
  /\ pc = "idle"
  /\ call' = [op |-> op, arg |-> arg, loop |-> loop, start |-> tell]

Finish(o) == pc' = "ret" /\ outcome' = o

(* The caller takes the result, the locals go out of scope.                *)
Take ==
  /\ pc = "ret"
  /\ pc' = "idle" /\ call' = NoCall /\ out' = <<>> /\ outcome' = "ok"
  /\ left' = 0 /\ ret' = "body" /\ no_data' = FALSE
  /\ StartRead(0)
  /\ UNCHANGED <<world, handle, memory, window, buffer_pos, flags, lost>>

(* fh.read(): refused when the file is not open.                           *)
FhRead(sz, site) ==
  \/ /\ fd # NoFile
     /\ StartRead(sz) /\ pc' = site
     /\ UNCHANGED outcome
  \/ /\ fd = NoFile
     /\ Finish("AttemptToReadAClosedFile")
     /\ UNCHANGED transfer

(* has_no_data_left(), entered with buffer_pos = bp and is_eof_reached =   *)
(* at_end, up to its fh.read(); FillReturn is the rest of it.              *)
HasNoDataLeft(next, bp, at_end) ==
  \/ /\ bp = buffer_size /\ at_end
     /\ file_pos_of_buffer_start' = file_pos_of_buffer_start + buffer_size
     /\ buffer_pos' = 0 /\ buffer_size' = 0
     /\ no_data' = TRUE /\ pc' = next
     /\ UNCHANGED <<allocated, ret, outcome, transfer>>
  \/ /\ bp = buffer_size /\ ~at_end
     /\ allocated' = TRUE
     /\ file_pos_of_buffer_start' = file_pos_of_buffer_start + buffer_size
     /\ buffer_pos' = bp /\ ret' = next
     /\ FhRead(buffer_capacity, "fill")
     /\ UNCHANGED <<buffer_size, no_data>>
  \/ /\ bp # buffer_size             \* assert(buffer_pos == buffer_size)
     /\ pc' = "aborted" /\ buffer_pos' = bp
     /\ UNCHANGED <<allocated, window, ret, no_data, outcome, transfer>>

(* at_eof()                                                                *)
AtEof(next) ==
  \/ /\ buffer_pos < buffer_size
     /\ no_data' = FALSE /\ pc' = next
     /\ UNCHANGED <<allocated, window, buffer_pos, ret, outcome, transfer>>
  \/ /\ buffer_pos >= buffer_size
     /\ HasNoDataLeft(next, buffer_pos, is_eof_reached)

-----------------------------------------------------------------------------
(* One step of fh.read(): into the buffer, or into the caller's memory.    *)
(* Nobody compares what is asked for with the capacity of the buffer.      *)

ReadIntoBuffer ==
  /\ pc \in {"fill", "refill"} /\ ~read_over
  /\ \E r \in SysReadResults :
       /\ SysRead(r)
       /\ buffer' = [i \in DOMAIN buffer |->
                       IF got <= i /\ i < got + r THEN <<fd, off + i - got>> ELSE buffer[i]]
       /\ pc' = IF got + r <= buffer_capacity THEN pc ELSE "overrun"
  /\ UNCHANGED <<world, allocated, buffer_capacity, window, buffer_pos, flags, ret, no_data, call,
                 left, out, outcome, lost>>

ReadIntoCaller ==
  /\ pc \in {"bulk", "whole"} /\ ~read_over
  /\ \E r \in SysReadResults :
       /\ SysRead(r)
       /\ out' = out \o [k \in 1 .. r |-> <<fd, off + k - 1>>]
  /\ UNCHANGED <<world, memory, window, buffer_pos, flags, pc, ret, no_data, call, left,
                 outcome, lost>>

(* read(2) returns -1: IOError leaves every member as it was at the call   *)
(* of fh.read(), file_pos_of_buffer_start already moved on in "fill" and   *)
(* "refill".  Calls that fail again and again move tell() on without end:  *)
(* TornBound bounds that.                                                  *)
ReadFails ==
  /\ pc \in Sites /\ ~read_over
  /\ torn => tell < TornBound
  /\ Finish("IOError")
  /\ Lose(got > 0 \/ pc = "refill" \/ (pc = "fill" /\ buffer_size > 0), "IOError")
  /\ UNCHANGED <<world, handle, transfer, memory, window, buffer_pos, flags, ret, no_data,
                 call, left, out>>

(* The rest of has_no_data_left().                                         *)
FillReturn ==
  /\ pc = "fill" /\ read_over
  /\ buffer_size' = got
  /\ is_eof_reached' = (is_eof_reached \/ got < buffer_capacity)
  /\ buffer_pos' = 0
  /\ no_data' = (got = 0)
  /\ pc' = ret
  /\ UNCHANGED <<world, handle, transfer, memory, file_pos_of_buffer_start, eof_indicator,
                 ret, call, left, out, outcome, lost>>

-----------------------------------------------------------------------------
(* The loops of the reading calls.                                         *)

(* memcpy(p, buffer + buffer_pos, n)                                       *)
Copied(n) == [k \in 1 .. n |-> buffer[buffer_pos + k - 1]]

Available == buffer_size - buffer_pos

CopyThenRefill ==
  LET n == IF Available < left THEN Available ELSE left IN
  /\ out' = out \o Copied(n)
  /\ left' = left - n
  /\ \/ /\ left = n
        /\ buffer_pos' = buffer_pos + n
        /\ Finish("ok")
        /\ UNCHANGED <<allocated, window, ret, no_data, transfer>>
     \/ /\ left # n
        /\ HasNoDataLeft("more", buffer_pos + n, is_eof_reached)

(* Append the whole buffer, then refill.                                   *)
DrainThenRefill ==
  /\ out' = out \o Copied(Available)
  /\ HasNoDataLeft("more", buffer_size, is_eof_reached)
  /\ UNCHANGED left

Throw(e) ==
  /\ Finish(e)
  /\ UNCHANGED <<allocated, window, buffer_pos, ret, no_data, transfer, left, out>>

(* What the steps of a loop leave alone.                                   *)
InLoop == UNCHANGED <<world, handle, buffer, buffer_capacity, flags, call>>

-----------------------------------------------------------------------------
(* at_eof(), peek_byte(), read_byte()                                      *)

CallAtEof(op, arg, loop) ==
  /\ Begin(op, arg, loop)
  /\ AtEof("body")
  /\ UNCHANGED <<world, handle, buffer, buffer_capacity, flags, out, lost>>

AtEofCall == CallAtEof("at_eof", 0, "none") /\ UNCHANGED left
PeekByte  == CallAtEof("peek_byte", 0, "none") /\ UNCHANGED left
ReadByte  == CallAtEof("read_byte", 0, "none") /\ UNCHANGED left

AtEofReturn ==
  /\ pc = "body" /\ call.op = "at_eof"
  /\ Throw(IF no_data THEN "true" ELSE "false")
  /\ InLoop /\ UNCHANGED lost

(* The byte is returned; read_byte() also steps over it.                   *)
ByteReturn ==
  /\ pc = "body" /\ call.op \in {"peek_byte", "read_byte"}
  /\ \/ no_data /\ Throw("UnexpectedEOF")
     \/ /\ ~no_data
        /\ out' = Copied(1)
        /\ buffer_pos' = IF call.op = "read_byte" THEN buffer_pos + 1 ELSE buffer_pos
        /\ Finish("ok")
        /\ UNCHANGED <<allocated, window, ret, no_data, transfer, left>>
  /\ InLoop /\ UNCHANGED lost

-----------------------------------------------------------------------------
(* read_bytes(p, count)                                                    *)

ReadBytes(n) == CallAtEof("read_bytes", n, "exact") /\ left' = n

(* The large read: what the buffer holds, then the rest past the buffer.   *)
LargeRead ==
  /\ out' = out \o Copied(Available)
  /\ left' = left - Available
  /\ FhRead(left - Available, "bulk")
  /\ UNCHANGED <<allocated, window, buffer_pos, ret, no_data>>

ReadBytesBody ==
  /\ pc = "body" /\ call.loop = "exact"
  /\ \/ no_data /\ left # 0 /\ Throw("UnexpectedEOF")
     \/ ~(no_data /\ left # 0) /\ left > buffer_capacity /\ LargeRead
     \/ ~(no_data /\ left # 0) /\ left <= buffer_capacity /\ CopyThenRefill
  /\ InLoop /\ UNCHANGED lost

ReadBytesMore ==
  /\ pc = "more" /\ call.loop = "exact"
  /\ \/ no_data /\ Throw("UnexpectedEOF")
     \/ ~no_data /\ CopyThenRefill
  /\ InLoop /\ UNCHANGED lost

(* Mutant: the bytes that came out of the buffer are not counted.          *)
AfterBulkOnly == file_pos_of_buffer_start + left

AfterBulk == file_pos_of_buffer_start + buffer_size + left

BulkReturn ==
  /\ pc = "bulk" /\ read_over
  /\ \/ /\ got < left
        /\ Throw("UnexpectedEOF")
        /\ Lose(got > 0, "UnexpectedEOF")
     \/ /\ got >= left
        /\ file_pos_of_buffer_start' = AfterBulk
        /\ buffer_pos' = 0 /\ buffer_size' = 0
        /\ Finish("ok")
        /\ UNCHANGED <<allocated, ret, no_data, transfer, left, out, lost>>
  /\ InLoop

(* read_bytes_at_most(p, count)                                            *)

ReadBytesAtMost(n) == CallAtEof("read_bytes_at_most", n, "at_most") /\ left' = n

ReadBytesAtMostBody ==
  /\ pc = "body" /\ call.loop = "at_most"
  /\ \/ no_data /\ Throw("ok")        \* return 0
     \/ ~no_data /\ CopyThenRefill
  /\ InLoop /\ UNCHANGED lost

(* Mutant: the end is met, and not remembered.                             *)
ReadBytesAtMostMoreSilent ==
  /\ pc = "more" /\ call.loop = "at_most"
  /\ \/ no_data /\ Throw("ok")
     \/ ~no_data /\ CopyThenRefill
  /\ InLoop /\ UNCHANGED lost

ReadBytesAtMostMore ==
  /\ pc = "more" /\ call.loop = "at_most"
  /\ \/ no_data /\ eof_indicator' = TRUE /\ Throw("ok")
     \/ ~no_data /\ CopyThenRefill /\ UNCHANGED eof_indicator
  /\ UNCHANGED <<world, handle, buffer, buffer_capacity, is_eof_reached, call, lost>>

-----------------------------------------------------------------------------
(* read_bytes() and read_bytes_to_end(): a regular file is read in one go, *)
(* a stream buffer by buffer until it ends.                                *)

GotFileSize(s) == file_size' = s /\ UNCHANGED <<fd, off, zero_at>>

AtBeginning ==
  file_pos_of_buffer_start = 0 /\ buffer_pos = 0 /\ buffer_size = 0

ReadWhole(s) ==
  /\ FhRead(s, "whole")
  /\ UNCHANGED <<allocated, window, buffer_pos, ret, no_data, left, out>>

ReadBytesAll ==
  /\ Begin("read_bytes_all", 0, "drain")
  /\ \/ ~AtBeginning /\ Throw("ReadBytesMustBeCalledAtTheBeginningOfTheFile") /\ UNCHANGED handle
     \/ /\ AtBeginning
        /\ \E s \in FileSizeResults :
             /\ GotFileSize(s)
             /\ \/ s = Unknown /\ Throw(FileSizeError)
                \/ s = NotRegular /\ DrainThenRefill
                \/ s >= 0 /\ ReadWhole(s)
  /\ UNCHANGED <<world, buffer, buffer_capacity, flags, lost>>

WholeReturn ==
  /\ pc = "whole" /\ read_over
  /\ \/ /\ got # file_size
        /\ Throw("OSReportedIncorrectFileSize")
        /\ Lose(got > 0, "OSReportedIncorrectFileSize")
     \/ /\ got = file_size
        /\ file_pos_of_buffer_start' = file_size
        /\ Finish("ok")
        /\ UNCHANGED <<allocated, buffer_size, buffer_pos, ret, no_data, transfer, left, out, lost>>
  /\ InLoop

(* A count that would be negative becomes a size_t that no vector can have.*)
ReadBytesToEnd ==
  /\ \E s \in FileSizeResults :
       /\ GotFileSize(s)
       /\ \/ /\ s = Unknown
             /\ Begin("read_bytes_to_end", 0, "none") /\ Throw(FileSizeError)
          \/ /\ s = NotRegular
             /\ Begin("read_bytes_to_end", 0, "drain") /\ DrainThenRefill
          \/ /\ s >= 0 /\ s < tell
             /\ Begin("read_bytes_to_end", 0, "none") /\ Throw("length_error")
          \/ /\ s >= tell
             /\ Begin("read_bytes_to_end", s - tell, "exact")
             /\ left' = s - tell /\ AtEof("body") /\ UNCHANGED out
  /\ UNCHANGED <<world, buffer, buffer_capacity, flags, lost>>

DrainMore ==
  /\ pc = "more" /\ call.loop = "drain"
  /\ \/ no_data /\ Throw("ok")
     \/ ~no_data /\ DrainThenRefill
  /\ InLoop /\ UNCHANGED lost

-----------------------------------------------------------------------------
(* seek(new_pos)                                                           *)

InWindow(p) ==
  file_pos_of_buffer_start <= p /\ p <= file_pos_of_buffer_start + buffer_size

(* Mutant: rounded up instead of down.                                     *)
SeekBaseAbove(p) == p + SeekChunk - (p % SeekChunk)

SeekBase(p) == p - (p % SeekChunk)      \* new_pos & ~(SeekChunk - 1)

(* Mutant: counted from the position, not from the start of its chunk.     *)
SeekLengthFromPosition(p) ==
  (p - SeekBase(p)) + IF SeekBase(p) + SeekChunk - p < NearEnd THEN 2 * SeekChunk ELSE SeekChunk

SeekLength(p) ==
  IF SeekBase(p) + SeekChunk - p < NearEnd THEN 2 * SeekChunk ELSE SeekChunk

(* Mutant: the target of a seek is not compared with the size.             *)
NothingIsPastTheEnd(p, s) == FALSE

PastTheEnd(p, s) == p > s

(* Mutant: seek() leaves the sticky flag alone.                            *)
ForgetIndicatorOnly == eof_indicator' = FALSE /\ UNCHANGED is_eof_reached

ForgetEof == is_eof_reached' = FALSE /\ eof_indicator' = FALSE

SeekNegative(p) ==
  /\ p < 0
  /\ Begin("seek", p, "none") /\ Throw("SeekFailed")
  /\ UNCHANGED <<world, handle, buffer, buffer_capacity, flags, lost>>

SeekWithinBuffer(p) ==
  /\ p >= 0 /\ InWindow(p)
  /\ Begin("seek", p, "none") /\ ForgetEof
  /\ buffer_pos' = p - file_pos_of_buffer_start
  /\ Finish("ok")
  /\ UNCHANGED <<world, handle, transfer, memory, window, ret, no_data, left, out, lost>>

(* A stream: read until the position is in the buffer.                     *)
SeekForward(p) ==
  \/ /\ p < tell
     /\ Throw("FileDoesNotSupportPositioning")
  \/ /\ p >= tell
     /\ HasNoDataLeft("more", buffer_size, FALSE)
     /\ UNCHANGED <<left, out>>

(* A regular file: read the chunk the position lies in.                    *)
SeekAndRefill(p) ==
  /\ allocated' = TRUE
  /\ file_pos_of_buffer_start' = SeekBase(p)
  /\ UNCHANGED <<buffer_size, buffer_pos, ret, no_data, left, out>>
  /\ \/ /\ fd # NoFile /\ CanSeek
        /\ off' = SeekBase(p)
        /\ StartRead(SeekLength(p)) /\ pc' = "refill"
        /\ UNCHANGED <<outcome, lost>>
     \/ /\ ~(fd # NoFile /\ CanSeek)
        /\ LET e == IF fd = NoFile THEN "AttemptToReadAClosedFile" ELSE "SeekFailed"
           IN  Finish(e) /\ Lose(SeekBase(p) # file_pos_of_buffer_start, e)
        /\ UNCHANGED <<off, transfer>>

SeekOutsideBuffer(p) ==
  /\ p >= 0 /\ ~InWindow(p)
  /\ Begin("seek", p, "skip") /\ ForgetEof
  /\ \E s \in FileSizeResults :
       /\ file_size' = s
       /\ \/ s = Unknown /\ Throw(FileSizeError) /\ UNCHANGED <<off, lost>>
          \/ s = NotRegular /\ SeekForward(p) /\ UNCHANGED <<off, lost>>
          \/ s >= 0 /\ PastTheEnd(p, s) /\ Throw("SeekFailed") /\ UNCHANGED <<off, lost>>
          \/ s >= 0 /\ ~PastTheEnd(p, s) /\ SeekAndRefill(p)
  /\ UNCHANGED <<world, fd, zero_at, buffer, buffer_capacity>>

Seek(p) == SeekNegative(p) \/ SeekWithinBuffer(p) \/ SeekOutsideBuffer(p)

RefillReturn ==
  /\ pc = "refill" /\ read_over
  /\ buffer_size' = got
  /\ is_eof_reached' = (is_eof_reached \/ want > 0)
  /\ buffer_pos' = call.arg - file_pos_of_buffer_start
  /\ Finish("ok")
  /\ lost' = "none"
  /\ UNCHANGED <<world, handle, transfer, memory, file_pos_of_buffer_start, eof_indicator,
                 ret, no_data, call, left, out>>

BeyondWindow == call.arg > file_pos_of_buffer_start + buffer_size

(* Mutant: the emulated seek goes on at the end of the stream.             *)
SeekMoreRelentless ==
  /\ pc = "more" /\ call.loop = "skip"
  /\ \/ /\ BeyondWindow
        /\ HasNoDataLeft("more", buffer_size, is_eof_reached)
        /\ UNCHANGED <<left, out>>
     \/ /\ ~BeyondWindow
        /\ buffer_pos' = call.arg - file_pos_of_buffer_start
        /\ Finish("ok")
        /\ UNCHANGED <<allocated, window, ret, no_data, transfer, left, out>>
  /\ InLoop /\ UNCHANGED lost

SeekMore ==
  /\ pc = "more" /\ call.loop = "skip"
  /\ \/ /\ ~no_data /\ BeyondWindow
        /\ HasNoDataLeft("more", buffer_size, is_eof_reached)
        /\ UNCHANGED <<left, out>>
     \/ no_data /\ BeyondWindow /\ Throw("SeekFailed")
     \/ /\ ~BeyondWindow
        /\ buffer_pos' = call.arg - file_pos_of_buffer_start
        /\ Finish("ok")
        /\ UNCHANGED <<allocated, window, ret, no_data, transfer, left, out>>
  /\ InLoop /\ UNCHANGED lost

-----------------------------------------------------------------------------
(* open(), close(), set_buffer_size(), get_file_size()                     *)

Open(f) ==
  /\ Begin("open", 0, "none")
  /\ \/ fd # NoFile /\ Throw("FileIsAlreadyOpened") /\ UNCHANGED handle
     \/ fd = NoFile /\ Throw("false") /\ UNCHANGED handle
     \/ fd = NoFile /\ Throw("true") /\ OpenHandle(f)
  /\ UNCHANGED <<world, buffer, buffer_capacity, flags, lost>>

(* Mutant: close() forgets where the buffer started.                       *)
ResetWindowSize ==
  /\ buffer_pos' = 0 /\ buffer_size' = 0 /\ UNCHANGED file_pos_of_buffer_start
  /\ is_eof_reached' = FALSE /\ eof_indicator' = FALSE

(* What close() resets beside the handle.  The buffer stays allocated.     *)
ResetWindow ==
  /\ buffer_pos' = 0 /\ buffer_size' = 0 /\ file_pos_of_buffer_start' = 0
  /\ is_eof_reached' = FALSE /\ eof_indicator' = FALSE

Close ==
  /\ Begin("close", 0, "none")
  /\ CloseHandle /\ ResetWindow
  /\ Finish("ok")
  /\ lost' = "none"
  /\ UNCHANGED <<world, transfer, memory, ret, no_data, left, out>>

SetBufferSize(c) ==
  /\ Begin("set_buffer_size", 0, "none")
  /\ \/ /\ allocated
        /\ Finish("IFileBufferAlreadyAllocated")
        /\ UNCHANGED <<buffer, buffer_capacity>>
     \/ /\ ~allocated
        /\ buffer_capacity' = c
        /\ buffer' = [i \in 0 .. c - 1 |-> Garbage]
        /\ Finish("ok")
  /\ UNCHANGED <<world, handle, transfer, allocated, window, buffer_pos, flags, ret,
                 no_data, left, out, lost>>

GetFileSize ==
  /\ Begin("get_file_size", 0, "none")
  /\ \E s \in FileSizeResults :
       /\ GotFileSize(s)
       /\ Throw(CASE s = Unknown -> FileSizeError
                  [] s = NotRegular -> "FileSizeIsUnknown"
                  [] OTHER -> "ok")
  /\ UNCHANGED <<world, buffer, buffer_capacity, flags, lost>>

-----------------------------------------------------------------------------
Call ==
  \/ AtEofCall \/ PeekByte \/ ReadByte
  \/ \E n \in Counts : ReadBytes(n) \/ ReadBytesAtMost(n)
  \/ ReadBytesAll \/ ReadBytesToEnd
  \/ \E p \in Targets : Seek(p)
  \/ \E f \in Files : Open(f)
  \/ Close
  \/ \E c \in Capacities : SetBufferSize(c)
  \/ GetFileSize

Step ==
  \/ ReadIntoBuffer \/ ReadIntoCaller \/ ReadFails
  \/ FillReturn \/ RefillReturn \/ BulkReturn \/ WholeReturn
  \/ AtEofReturn \/ ByteReturn
  \/ ReadBytesBody \/ ReadBytesMore
  \/ ReadBytesAtMostBody \/ ReadBytesAtMostMore
  \/ DrainMore \/ SeekMore
  \/ Take

World ==
  /\ \E f \in Files : Grow(f) \/ EndStream(f)
  /\ UNCHANGED <<handle, transfer, memory, window, buffer_pos, flags, frame, lost>>

Next == Call \/ Step \/ World

Spec == Init /\ [][Next]_vars

(* A running call is scheduled, and the writers of a stream go away at     *)
(* last.  A read(2) that waits is not bound to fail, and nobody is bound   *)
(* to call anything.                                                       *)
FairSpec ==
  Spec /\ WF_vars(Step /\ ~ReadFails) /\ WF_vars(World /\ ended' # ended)

=============================================================================
