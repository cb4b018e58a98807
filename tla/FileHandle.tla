----------------------------- MODULE FileHandle -----------------------------
(***************************************************************************)
(* detail::FileHandle<true>, the reading half of src/FileHandle.hpp in its *)
(* POSIX branch, together with the part of the operating system it talks   *)
(* to: the open file description behind fd and the file it refers to.      *)
(*                                                                         *)
(* A file descriptor is modelled by the file it refers to (NoFile is -1).  *)
(* A byte is modelled by where it lives: <<file, offset>>.  Offsets of a   *)
(* stream (a pipe, a FIFO, a terminal) count the bytes taken from it.      *)
(*                                                                         *)
(* read() is a loop around the read(2) system call.  Another process may   *)
(* act between two system calls, so each of them is a step of its own.     *)
(***************************************************************************)
EXTENDS Integers

CONSTANTS
  Files,         \* what open() can be given the name of
  NoFile,        \* the value -1 of fd
  InitialSizes,  \* possible sizes of a file, or of what a stream holds at first
  MaxSize        \* bound: no file grows beyond this size

ASSUME FilesAssumption ==
  /\ NoFile \notin Files
  /\ InitialSizes \subseteq Nat
  /\ MaxSize \in Nat

VARIABLES
  streams,    \* the files that are not regular (never changes)
  size,       \* size[f]: bytes written to f so far
  ended,      \* streams whose last writer has closed its end
  fd,         \* FileHandle::fd
  off,        \* the kernel's read offset of the open file description
  file_size,  \* FileHandle::file_size, a cache: Unknown, NotRegular or a size
  want,       \* read(): sz, what remains to be read
  got,        \* read(): b - buf, what has been read
  read_over,  \* read(): the loop has ended, got is returned
  zero_at     \* history: where read(2) last had nothing left to give, or -1

world    == <<streams, size, ended>>
handle   == <<fd, off, file_size, zero_at>>
transfer == <<want, got, read_over>>

Unknown    == -1
NotRegular == -2
Byte       == Files \X Nat

HandleInit ==
  /\ streams \in SUBSET Files
  /\ size \in [Files -> InitialSizes]
  /\ ended = {}
  /\ fd = NoFile /\ off = 0 /\ file_size = Unknown /\ zero_at = -1
  /\ want = 0 /\ got = 0 /\ read_over = FALSE

-----------------------------------------------------------------------------
(* The rest of the world: other processes extend a file or a stream one    *)
(* byte at a time, and the writers of a stream go away.                    *)

Grow(f) ==
  /\ f \notin ended
  /\ size[f] < MaxSize
  /\ size' = [size EXCEPT ![f] = @ + 1]
  /\ UNCHANGED <<streams, ended>>

EndStream(f) ==
  /\ f \in streams \ ended
  /\ ended' = ended \cup {f}
  /\ UNCHANGED <<streams, size>>

-----------------------------------------------------------------------------
(* open() and close().  Neither touches the cached file_size.  Opening a   *)
(* stream again starts a new stream of the same shape.                     *)

OpenHandle(f) ==
  /\ fd' = f /\ off' = 0 /\ zero_at' = -1
  /\ UNCHANGED file_size

CloseHandle ==
  /\ fd' = NoFile /\ off' = 0 /\ zero_at' = -1
  /\ UNCHANGED file_size

(* get_file_size(): the cached value, or what fstat(2) says of the file.   *)
(* Unknown stands for the exception it throws instead: the file is not     *)
(* open, or fstat fails.                                                   *)
FileSizeResults ==
  IF file_size # Unknown THEN {file_size}
  ELSE IF fd = NoFile THEN {Unknown}
  ELSE {Unknown, IF fd \in streams THEN NotRegular ELSE size[fd]}

FileSizeError ==
  IF fd = NoFile THEN "AttemptToGetTimeOfAClosedFile" ELSE "FStatFailed"

(* lseek(fd, pos, SEEK_SET) fails on a stream and nowhere else: get_file_  *)
(* size() has been asked before, and pos is not beyond what it answered.   *)
CanSeek == fd \notin streams

-----------------------------------------------------------------------------
(* read(buf, sz)                                                           *)

StartRead(sz) == want' = sz /\ got' = 0 /\ read_over' = FALSE

(* What read(2) may return, errors aside: any positive number of bytes up  *)
(* to what is asked for and what is there; 0 at the end.  On a stream that *)
(* is empty but not ended it blocks, so that no value is possible.         *)
SysReadResults ==
  LET ready == IF size[fd] - off < want THEN size[fd] - off ELSE want
  IN  IF ready > 0 THEN 1 .. ready
      ELSE IF fd \in streams \ ended /\ want > 0 THEN {}
      ELSE {0}

(* Mutant: the loop takes a short count for the end.                       *)
EveryCountEnds(r) == TRUE

(* The loop goes on after a short count.                                   *)
LoopEnds(r) == r = 0 \/ r = want

SysRead(r) ==
  /\ off' = off + r
  /\ got' = got + r
  /\ want' = want - r
  /\ read_over' = LoopEnds(r)
  /\ zero_at' = IF r = 0 /\ want > 0 THEN off ELSE zero_at
  /\ UNCHANGED <<fd, file_size>>

=============================================================================
