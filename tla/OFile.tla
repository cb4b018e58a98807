------------------------------- MODULE OFile --------------------------------
(***************************************************************************)
(* class OFile of src/OFile.hpp: buffered writing over a FileHandle.       *)
(*                                                                         *)
(* A call runs from pc = "idle" to pc = "ret", where its result can be     *)
(* seen, and Take brings the object back to "idle".  In between, pc is the *)
(* fh.write() it waits for ("flush", "fill", "large"), or says what comes  *)
(* next: "body" after the flush() a call starts with, "copy" in the loop   *)
(* of write().  An exception that leaves the destructor ends the program:  *)
(* pc = "terminated".                                                      *)
(***************************************************************************)
EXTENDS WriteHandle

CONSTANTS
  Garbage,          \* an uninitialised byte of a new[] buffer
  DefaultCapacity,  \* OFILE_DEFAULT_BUFFER_SIZE
  Capacities,       \* sizes given to set_buffer_size()
  Counts,           \* numbers of bytes given to write()
  Targets,          \* positions given to seek()
  MaxBytes          \* bound: no more bytes are given to the object

(* write_byte() stores beyond a buffer of capacity 0; the caller of        *)
(* set_buffer_size() must not ask for one.                                 *)
ASSUME OFileAssumption ==
  /\ Garbage \notin Nat
  /\ DefaultCapacity \in Nat \ {0} /\ Capacities \subseteq Nat \ {0}
  /\ Counts \subseteq Nat /\ Targets \subseteq Int
  /\ MaxBytes \in Nat

VARIABLES
  allocated,                   \* buffer != nullptr
  buffer, buffer_pos, buffer_capacity,
  pc,                          \* where the running call is
  call,                        \* its name and its number of bytes or position
  rest,                        \* write(): the bytes p[0 .. sz-1] not yet copied
  outcome,                     \* what the call returned or threw
  serial                       \* the number of bytes given so far

memory == <<allocated, buffer, buffer_capacity>>
vars == <<file, handle, todo, memory, buffer_pos, pc, call, rest, outcome, serial>>

Sites  == {"flush", "fill", "large"}
NoCall == [op |-> "none", arg |-> 0]

Init ==
  /\ HandleInit
  /\ allocated = FALSE /\ buffer_pos = 0 /\ buffer_capacity = DefaultCapacity
  /\ buffer = [i \in 0 .. DefaultCapacity - 1 |-> Garbage]
  /\ pc = "idle" /\ call = NoCall /\ rest = <<>> /\ outcome = "ok" /\ serial = 0

-----------------------------------------------------------------------------
(* Control.                                                                *)

Begin(op, arg) == pc = "idle" /\ call' = [op |-> op, arg |-> arg]

Return(o) == pc' = "ret" /\ outcome' = o

(* Destructors are noexcept.                                               *)
Throw(e) == pc' = (IF call'.op = "destroy" THEN "terminated" ELSE "ret") /\ outcome' = e

(* The caller takes the result, the locals go out of scope.                *)
Take ==
  /\ pc = "ret"
  /\ pc' = "idle" /\ call' = NoCall /\ rest' = <<>> /\ outcome' = "ok"
  /\ UNCHANGED <<file, handle, todo, memory, buffer_pos, serial>>

(* What the caller hands over.                                             *)
Give(n) ==
  /\ serial + n <= MaxBytes
  /\ rest' = [k \in 1 .. n |-> serial + k]
  /\ serial' = serial + n

-----------------------------------------------------------------------------
(* fh.write() of the given bytes, refused when the file is not open.       *)
FhWrite(bytes, site) ==
  \/ /\ is_open
     /\ todo' = bytes /\ pc' = site
     /\ UNCHANGED outcome
  \/ /\ ~is_open
     /\ Throw("AttemptToWriteAClosedFile")
     /\ UNCHANGED todo

WriteSome ==
  /\ pc \in Sites
  /\ \E r \in 1 .. Len(todo) : SysWrite(r)
  /\ UNCHANGED <<memory, buffer_pos, pc, call, rest, outcome, serial>>

(* write(2) returns -1 or 0.  What it has taken before stays written.      *)
WriteFails ==
  /\ pc \in Sites /\ todo # <<>>
  /\ Len(contents) < MaxSize
  /\ todo' = <<>>
  /\ UNCHANGED call /\ Throw("IOError")
  /\ UNCHANGED <<file, handle, memory, buffer_pos, rest, serial>>

(* The bytes in the buffer b, and flush() up to its fh.write().            *)
First(b, n) == [k \in 1 .. n |-> b[k - 1]]
Pending     == First(buffer, buffer_pos)

Flush ==
  \/ buffer_pos = 0 /\ pc' = "body" /\ UNCHANGED <<todo, outcome>>
  \/ buffer_pos # 0 /\ FhWrite(Pending, "flush")

(* Mutant: what has been written stays in the buffer.                      *)
FlushKeepsPosition ==
  /\ pc = "flush" /\ todo = <<>>
  /\ pc' = "body"
  /\ UNCHANGED <<file, handle, todo, memory, buffer_pos, call, rest, outcome, serial>>

FlushReturn ==
  /\ pc = "flush" /\ todo = <<>>
  /\ buffer_pos' = 0 /\ pc' = "body"
  /\ UNCHANGED <<file, handle, todo, memory, call, rest, outcome, serial>>

-----------------------------------------------------------------------------
(* flush(), seek(), close(), ~OFile()                                      *)

FlushFirst(op, arg) ==
  /\ Begin(op, arg) /\ Flush
  /\ UNCHANGED <<file, handle, memory, buffer_pos, rest, serial>>

FlushCall == FlushFirst("flush", 0)
Seek(pos) == FlushFirst("seek", pos)
Close     == FlushFirst("close", 0)
Destroy   == FlushFirst("destroy", 0)

FlushBody ==
  /\ pc = "body" /\ call.op = "flush"
  /\ Return("ok")
  /\ UNCHANGED <<file, handle, todo, memory, buffer_pos, call, rest, serial>>

SeekBody ==
  /\ pc = "body" /\ call.op = "seek"
  /\ SeekHandle(call.arg)
  /\ Return(IF LSeekResult(call.arg) = call.arg THEN "ok" ELSE "SeekFailed")
  /\ UNCHANGED <<file, is_open, appending, todo, memory, buffer_pos, call, rest, serial>>

CloseBody ==
  /\ pc = "body" /\ call.op = "close"
  /\ CloseHandle /\ Return("ok")
  /\ UNCHANGED <<file, todo, memory, buffer_pos, call, rest, serial>>

(* The members are destroyed, and another OFile is made at their place.    *)
DestroyBody ==
  /\ pc = "body" /\ call.op = "destroy"
  /\ CloseHandle /\ Return("ok")
  /\ allocated' = FALSE /\ buffer_pos' = 0 /\ buffer_capacity' = DefaultCapacity
  /\ buffer' = [i \in 0 .. DefaultCapacity - 1 |-> Garbage]
  /\ UNCHANGED <<file, todo, call, rest, serial>>

-----------------------------------------------------------------------------
(* write_byte()                                                            *)

Full(n) == n = buffer_capacity

WriteByte ==
  /\ Begin("write_byte", 1) /\ Give(1)
  /\ allocated' = TRUE
  /\ \/ Full(buffer_pos) /\ Flush
     \/ ~Full(buffer_pos) /\ pc' = "body" /\ UNCHANGED <<todo, outcome>>
  /\ UNCHANGED <<file, handle, buffer, buffer_capacity, buffer_pos>>

WriteByteBody ==
  /\ pc = "body" /\ call.op = "write_byte"
  /\ buffer' = [buffer EXCEPT ![buffer_pos] = Head(rest)]
  /\ buffer_pos' = buffer_pos + 1
  /\ Return("ok")
  /\ UNCHANGED <<file, handle, todo, allocated, buffer_capacity, call, rest, serial>>

-----------------------------------------------------------------------------
(* write(vp, n)                                                            *)

Large(n) == n > buffer_capacity

(* Mutant: a large write does not wait for the bytes in the buffer.        *)
WriteOvertakes(n) ==
  /\ Begin("write", n) /\ Give(n)
  /\ \/ Large(n) /\ pc' = "body" /\ UNCHANGED allocated
     \/ ~Large(n) /\ allocated' = TRUE /\ pc' = "copy"
  /\ UNCHANGED <<file, handle, todo, buffer, buffer_capacity, buffer_pos, outcome>>

Write(n) ==
  /\ Begin("write", n) /\ Give(n)
  /\ \/ Large(n) /\ Flush /\ UNCHANGED allocated
     \/ ~Large(n) /\ allocated' = TRUE /\ pc' = "copy" /\ UNCHANGED <<todo, outcome>>
  /\ UNCHANGED <<file, handle, buffer, buffer_capacity, buffer_pos>>

(* A large write bypasses the buffer.                                      *)
LargeBody ==
  /\ pc = "body" /\ call.op = "write"
  /\ UNCHANGED call /\ FhWrite(rest, "large")
  /\ UNCHANGED <<file, handle, memory, buffer_pos, rest, serial>>

LargeReturn ==
  /\ pc = "large" /\ todo = <<>>
  /\ Return("ok")
  /\ UNCHANGED <<file, handle, todo, memory, buffer_pos, call, rest, serial>>

(* Mutant: sz == 0 is not tested.                                          *)
LoopForEver(bytes) == pc' = "copy" /\ UNCHANGED outcome

(* Go round the loop, or leave it.                                         *)
Loop(bytes) ==
  \/ bytes = <<>> /\ Return("ok")
  \/ bytes # <<>> /\ pc' = "copy" /\ UNCHANGED outcome

(* memcpy(buffer + buffer_pos, p, n), and fh.write() of a full buffer.     *)
Copy ==
  LET room == buffer_capacity - buffer_pos
      n    == IF room < Len(rest) THEN room ELSE Len(rest) IN
  /\ pc = "copy" /\ UNCHANGED call
  /\ buffer' = [i \in DOMAIN buffer |->
                  IF buffer_pos <= i /\ i < buffer_pos + n THEN rest[i - buffer_pos + 1]
                  ELSE buffer[i]]
  /\ buffer_pos' = buffer_pos + n
  /\ rest' = SubSeq(rest, n + 1, Len(rest))
  /\ \/ Full(buffer_pos + n) /\ FhWrite(First(buffer', buffer_capacity), "fill")
     \/ ~Full(buffer_pos + n) /\ Loop(rest') /\ UNCHANGED todo
  /\ UNCHANGED <<file, handle, allocated, buffer_capacity, serial>>

FillReturn ==
  /\ pc = "fill" /\ todo = <<>>
  /\ buffer_pos' = 0
  /\ Loop(rest)
  /\ UNCHANGED <<file, handle, todo, memory, call, rest, serial>>

-----------------------------------------------------------------------------
(* open(), set_buffer_size(), set_last_write_time()                        *)

Open(append) ==
  /\ Begin("open", 0)
  /\ \/ is_open /\ Return("FileIsAlreadyOpened") /\ UNCHANGED <<file, handle>>
     \/ ~is_open /\ Return("true") /\ OpenHandle(append)
     \/ ~is_open /\ Return("false") /\ UNCHANGED <<file, handle>>
  /\ UNCHANGED <<todo, memory, buffer_pos, rest, serial>>

(* Mutant: the buffer is resized while it is in use.                       *)
SetBufferSizeAnytime(c) ==
  /\ Begin("set_buffer_size", 0)
  /\ buffer_capacity' = c
  /\ buffer' = [i \in 0 .. c - 1 |-> Garbage]
  /\ Return("ok")
  /\ UNCHANGED <<file, handle, todo, allocated, buffer_pos, rest, serial>>

SetBufferSize(c) ==
  /\ Begin("set_buffer_size", 0)
  /\ \/ /\ allocated
        /\ Return("OFileBufferAlreadyAllocated")
        /\ UNCHANGED <<buffer, buffer_capacity>>
     \/ /\ ~allocated
        /\ buffer_capacity' = c
        /\ buffer' = [i \in 0 .. c - 1 |-> Garbage]
        /\ Return("ok")
  /\ UNCHANGED <<file, handle, todo, allocated, buffer_pos, rest, serial>>

(* futimens(2) may fail.  Bytes in the buffer are not flushed.             *)
SetLastWriteTime ==
  /\ Begin("set_last_write_time", 0)
  /\ \/ ~is_open /\ Return("AttemptToSetTimeOfAClosedFile") /\ UNCHANGED mtime
     \/ is_open /\ Return("SetLastWriteTimeFailed") /\ UNCHANGED mtime
     \/ is_open /\ Return("ok") /\ mtime' = "set"
  /\ UNCHANGED <<stream, full, contents, handle, todo, memory, buffer_pos, rest, serial>>

-----------------------------------------------------------------------------
Call ==
  \/ FlushCall \/ Close \/ Destroy \/ WriteByte \/ SetLastWriteTime
  \/ \E pos \in Targets : Seek(pos)
  \/ \E n \in Counts : Write(n)
  \/ \E append \in BOOLEAN : Open(append)
  \/ \E c \in Capacities : SetBufferSize(c)

Step ==
  \/ WriteSome \/ WriteFails
  \/ FlushReturn \/ FlushBody \/ SeekBody \/ CloseBody \/ DestroyBody
  \/ WriteByteBody \/ LargeBody \/ LargeReturn \/ Copy \/ FillReturn
  \/ Take

World ==
  /\ ForeignWrite \/ Drain
  /\ UNCHANGED <<handle, todo, memory, buffer_pos, pc, call, rest, outcome, serial>>

Next == Call \/ Step \/ World

Spec == Init /\ [][Next]_vars

(* A running call is scheduled, and the reader of a stream that is full    *)
(* takes bytes out of it at last.  A write(2) that waits is not bound to   *)
(* fail, and nobody is bound to call anything.                             *)
FairSpec ==
  Spec /\ WF_vars(Step /\ ~WriteFails) /\ WF_vars(World /\ full /\ ~full')

=============================================================================
