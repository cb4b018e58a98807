---------------------------- MODULE WriteHandle -----------------------------
(***************************************************************************)
(* detail::FileHandle<false>, the writing half of src/FileHandle.hpp in    *)
(* its POSIX branch, together with the file or stream behind fd.           *)
(*                                                                         *)
(* A byte given to the object is modelled by its number: the first byte    *)
(* ever given is 1.  Hole is the zero byte the kernel puts between the end *)
(* of a file and a write beyond it, Foreign a byte of another process.     *)
(*                                                                         *)
(* write() is a loop around the write(2) system call.  Another process may *)
(* write between two system calls, so each of them is a step of its own.   *)
(***************************************************************************)
EXTENDS Integers, Sequences

CONSTANTS
  Hole,
  Foreign,
  MaxSize   \* bound: others and failing calls add to the file only below it

ASSUME WriteHandleAssumption ==
  Hole \notin Nat /\ Foreign \notin Nat /\ MaxSize \in Nat

VARIABLES
  stream,     \* the file is a FIFO or a terminal (never changes)
  full,       \* the stream takes no more bytes until somebody takes some out
  contents,   \* what the file holds, or what has gone through the stream
  mtime,      \* its last write time: "written", or "set" by the object
  is_open,    \* fd # -1
  appending,  \* the file is open with O_APPEND
  off,        \* the kernel's offset of the open file description
  todo        \* write(): the bytes from b on, still to be written

file   == <<stream, full, contents, mtime>>
handle == <<is_open, appending, off>>

HandleInit ==
  /\ stream \in BOOLEAN /\ full \in BOOLEAN /\ (full => stream)
  /\ contents = <<>> /\ mtime = "written"
  /\ is_open = FALSE /\ appending = FALSE /\ off = 0
  /\ todo = <<>>

-----------------------------------------------------------------------------
(* The file: contents c with the bytes s put in after the first p.         *)

Overlay(c, p, s) ==
  [i \in 1 .. (IF Len(c) > p + Len(s) THEN Len(c) ELSE p + Len(s)) |->
     IF p < i /\ i <= p + Len(s) THEN s[i - p]
     ELSE IF i <= Len(c) THEN c[i] ELSE Hole]

(* Where the kernel writes.                                                *)
WritePlace == IF appending \/ stream THEN Len(contents) ELSE off

(* Whoever writes to a stream may fill it.                                 *)
MayFill == full' \in BOOLEAN /\ (full' => stream)

(* Another process appends a byte.                                         *)
ForeignWrite ==
  /\ Len(contents) < MaxSize /\ ~full
  /\ contents' = Append(contents, Foreign)
  /\ mtime' = "written"
  /\ MayFill
  /\ UNCHANGED stream

(* The reader of the stream makes room.                                    *)
Drain ==
  /\ full /\ full' = FALSE
  /\ UNCHANGED <<stream, contents, mtime>>

-----------------------------------------------------------------------------
(* open(): O_APPEND or O_TRUNC.                                            *)
OpenHandle(append) ==
  /\ is_open' = TRUE /\ appending' = append /\ off' = 0
  /\ contents' = IF append \/ stream THEN contents ELSE <<>>
  /\ mtime' = IF append THEN mtime ELSE "written"
  /\ UNCHANGED <<stream, full>>

CloseHandle == is_open' = FALSE /\ appending' = FALSE /\ off' = 0

(* lseek(fd, pos, SEEK_SET): pos, or -1 when it fails.  seek() throws when *)
(* this is not pos, so that seek(-1) never throws and never moves.         *)
LSeekResult(pos) == IF is_open /\ ~stream /\ pos >= 0 THEN pos ELSE -1

SeekHandle(pos) == off' = IF LSeekResult(pos) = -1 THEN off ELSE pos

(* write(2) takes the first r of the bytes that remain.  On a stream that  *)
(* is full it blocks.                                                      *)
SysWrite(r) ==
  /\ ~full /\ MayFill
  /\ contents' = Overlay(contents, WritePlace, SubSeq(todo, 1, r))
  /\ off' = WritePlace + r
  /\ todo' = SubSeq(todo, r + 1, Len(todo))
  /\ mtime' = "written"
  /\ UNCHANGED <<stream, is_open, appending>>

=============================================================================
