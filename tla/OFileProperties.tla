-------------------------- MODULE OFileProperties ---------------------------
(***************************************************************************)
(* What is claimed of OFile (src/OFile.hpp): its types, the abstract       *)
(* specification it implements, and that its calls return.                 *)
(***************************************************************************)
EXTENDS OFile

Ops == {"none", "flush", "seek", "close", "destroy", "write_byte", "write", "open",
        "set_buffer_size", "set_last_write_time"}

PCs == {"idle", "body", "copy", "ret", "terminated"} \cup Sites

Byte == Nat \ {0}

(* Types.  The position never passes the end of the buffer, and no byte of *)
(* it that will go to the file, and no byte in the file, is uninitialised  *)
(* memory, whatever calls have failed before (buffer, buffer_pos,          *)
(* buffer_capacity in OFile.hpp:14-15).                                    *)
TypeOK ==
  /\ stream \in BOOLEAN /\ full \in BOOLEAN /\ (full => stream)
  /\ contents \in Seq(Byte \cup {Hole, Foreign})
  /\ mtime \in {"written", "set"}
  /\ is_open \in BOOLEAN /\ appending \in BOOLEAN /\ off \in Nat
  /\ todo \in Seq(Byte) /\ rest \in Seq(Byte) /\ serial \in Nat
  /\ allocated \in BOOLEAN /\ buffer_capacity \in Nat
  /\ buffer \in [0 .. buffer_capacity - 1 -> Byte \cup {Garbage}]
  /\ buffer_pos \in 0 .. buffer_capacity
  /\ \A i \in 0 .. buffer_pos - 1 : buffer[i] \in Byte
  /\ pc \in PCs /\ call \in [op : Ops, arg : Int]

(* write_byte() has room for its byte, also after a flush() or write()     *)
(* that failed with the buffer full (OFile.hpp:66-72).                     *)
RoomForTheByte ==
  pc = "body" /\ call.op = "write_byte" => allocated /\ buffer_pos < buffer_capacity

(* Every call of OFile.hpp returns or throws, if the reader of a stream    *)
(* that is full goes on reading: write(2) waits for that                   *)
(* (FileHandle.hpp:272).                                                   *)
CallsReturn == (pc # "idle") ~> (pc \in {"idle", "terminated"})

-----------------------------------------------------------------------------
(* Where the bytes not yet stored are: at b in fh.write(), in the buffer,  *)
(* and with the caller of write().                                         *)
Unstored ==
  CASE pc = "large" -> todo
    [] pc \in {"flush", "fill"} -> todo \o rest
    [] pc \in {"body", "copy"} -> Pending \o rest
    [] OTHER -> Pending

Running == pc \notin {"idle", "ret", "terminated"}

(* Those of the running call, those of them that flush() has just stored,  *)
(* and the result that the caller finds.                                   *)
Own == IF call.op \in {"write_byte", "write"} /\ Running THEN call.arg ELSE 0

Again ==
  IF pc \in {"flush", "fill"} THEN SubSeq(Pending, 1, buffer_pos - Len(todo)) ELSE <<>>

Answered ==
  IF pc \in {"ret", "terminated"}
  THEN [op |-> call.op, arg |-> call.arg, outcome |-> outcome] ELSE <<>>

Abstract == INSTANCE WriteBehind WITH
  disk <- contents, at <- off, atEnd <- appending \/ stream, opened <- is_open,
  queue <- Unstored, own <- Own, again <- Again, running <- Running, answer <- Answered

(* The bytes given to the calls of OFile.hpp reach the file in order, and  *)
(* where they were aimed at, whatever large writes, full buffers and short *)
(* counts do; none accepted by a call is lost by a later failure.          *)
ImplementsWriteBehind == Abstract!Spec

=============================================================================
