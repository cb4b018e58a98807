----------------------------- MODULE FileTimes ------------------------------
(***************************************************************************)
(* The times of a FileHandle (src/FileHandle.hpp, POSIX): a program asks a *)
(* file for its times, and gives a time to another file.  The kernel keeps *)
(* a time as seconds and nanoseconds, 0 <= nsec < Second.                  *)
(***************************************************************************)
EXTENDS UnixNanotime

CONSTANTS
  Times,      \* times the files may have
  Tick        \* nanoseconds in a unit of another clock, 100 on Windows

NoTime == [sec |-> 0, nsec |-> -1]

Nanoseconds(t) == t.sec * Second + t.nsec

(* A time the word can hold.                                               *)
ASSUME FileTimesAssumption ==
  /\ Times # {}
  /\ \A t \in Times : t.sec \in Int /\ t.nsec \in 0 .. Second - 1
  /\ \A t \in Times : Nanoseconds(t) \in BOUNDARY - Word .. BOUNDARY - 1
  /\ Tick \in Nat \ {0}

VARIABLES
  mtime,            \* the last write time of the file
  btime,            \* its creation time, or NoTime: the file system has none
  opened,           \* fd # -1
  last_write_time,  \* FileHandle::last_write_time, a cache
  creation_time,    \* FileHandle::creation_time, a cache
  fetched,          \* history: mtime when last_write_time was filled
  born,             \* history: btime when creation_time was filled
  answer,           \* the UnixNanotime the program has
  meant,            \* history: the time it stands for, or NoTime: it has none
  copied,           \* the last write time given to the other file, or NoTime
  reply             \* what the last call returned or threw

fileTime == <<mtime, btime>>
cache == <<last_write_time, creation_time, fetched, born>>
times == <<fileTime, opened, cache, answer, meant, copied, reply>>

TimeInit ==
  /\ mtime \in Times /\ btime \in Times \cup {NoTime}
  /\ opened = TRUE
  /\ last_write_time = uninitialized /\ creation_time = uninitialized
  /\ fetched = NoTime /\ born = NoTime /\ answer = uninitialized /\ meant = NoTime
  /\ copied = NoTime /\ reply = "none"

(* from_nanotime_t(sec * 1000000000 + nsec)                                *)
FromKernel(t) == from_nanotime_t(Nanoseconds(t) % Word)

Learn(w, t) == answer' = w /\ meant' = t /\ reply' = "ok"

Refuse(e) == reply' = e /\ UNCHANGED <<answer, meant>>

GetLastWriteTime ==
  /\ \/ /\ last_write_time # uninitialized
        /\ Learn(last_write_time, fetched)
        /\ UNCHANGED <<last_write_time, fetched>>
     \/ /\ last_write_time = uninitialized
        /\ \/ ~opened /\ Refuse("AttemptToGetTimeOfAClosedFile")
           \/ opened /\ Refuse("FStatFailed")
        /\ UNCHANGED <<last_write_time, fetched>>
     \/ /\ last_write_time = uninitialized /\ opened
        /\ last_write_time' = FromKernel(mtime) /\ fetched' = mtime
        /\ Learn(last_write_time', mtime)
  /\ UNCHANGED <<fileTime, opened, creation_time, born, copied>>

GetCreationTime ==
  /\ \/ /\ creation_time # uninitialized
        /\ Learn(creation_time, born)
        /\ UNCHANGED <<creation_time, born>>
     \/ /\ creation_time = uninitialized
        /\ \/ ~opened /\ Refuse("AttemptToGetTimeOfAClosedFile")
           \/ opened /\ Refuse("StatXFailed")
        /\ UNCHANGED <<creation_time, born>>
     \/ /\ creation_time = uninitialized /\ opened /\ btime # NoTime
        /\ creation_time' = FromKernel(btime) /\ born' = btime
        /\ Learn(creation_time', btime)
  /\ UNCHANGED <<fileTime, opened, last_write_time, fetched, copied>>

(* The program makes a time from a time_t.                                 *)
FromTimeT ==
  /\ \E t \in Times : t.nsec = 0 /\ Learn(from_time_t(t.sec), t)
  /\ UNCHANGED <<fileTime, opened, cache, copied>>

(* set_last_write_time(answer) of the other file.                          *)
SetLastWriteTime ==
  /\ \/ Refuse("AttemptToSetTimeOfAClosedFile") /\ UNCHANGED copied
     \/ Refuse("SetLastWriteTimeFailed") /\ UNCHANGED copied
     \/ /\ to_timespec(answer).nsec \in 0 .. Second - 1      \* else EINVAL
        /\ copied' = to_timespec(answer)
        /\ reply' = "ok" /\ UNCHANGED <<answer, meant>>
  /\ UNCHANGED <<fileTime, opened, cache>>

(* Another process writes to the file.                                     *)
Touch ==
  /\ mtime' \in Times
  /\ UNCHANGED <<btime, opened, cache, answer, meant, copied, reply>>

(* close() and open() leave the caches alone, whatever file is opened next.*)
Reopen ==
  /\ \/ opened /\ opened' = FALSE /\ UNCHANGED fileTime
     \/ ~opened /\ opened' = TRUE /\ mtime' \in Times /\ btime' \in Times \cup {NoTime}
  /\ UNCHANGED <<cache, answer, meant, copied, reply>>

TimeNext ==
  \/ GetLastWriteTime \/ GetCreationTime
  \/ FromTimeT \/ SetLastWriteTime
  \/ Touch \/ Reopen

=============================================================================
