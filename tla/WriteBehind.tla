---------------------------- MODULE WriteBehind -----------------------------
(***************************************************************************)
(* What OFile (src/OFile.hpp) promises its caller: a queue of bytes on     *)
(* their way to a file.  The bytes of every call join the queue when it    *)
(* begins and leave it for the file in order.  A call that fails may drop  *)
(* bytes of its own, never one that an earlier call has accepted; it may   *)
(* also put back what it has just stored, so that these bytes are stored a *)
(* second time.  No buffer, no system calls.                               *)
(***************************************************************************)
EXTENDS Integers, Sequences

CONSTANTS Hole, Foreign

VARIABLES
  disk, mtime, at,   \* the file, its last write time, where the next byte goes
  atEnd,             \* every byte goes to the end of the file
  opened,
  queue,             \* bytes accepted or being taken, not yet stored
  own,               \* how many of the running call's bytes may be in queue
  again,             \* bytes just stored that a failure would put back
  running,
  answer             \* what the last call returned, NoAnswer when taken

NoAnswer == <<>>

place == <<at, atEnd, opened>>
vars  == <<disk, mtime, place, queue, own, again, running, answer>>

Init ==
  /\ disk = <<>> /\ mtime = "written" /\ at = 0 /\ atEnd \in BOOLEAN /\ opened = FALSE
  /\ queue = <<>> /\ own = 0 /\ again = <<>> /\ running = FALSE /\ answer = NoAnswer

(* The file with s put in at place p, holes before it if it is shorter.    *)
Put(c, p, s) ==
  [i \in 1 .. (IF Len(c) > p + Len(s) THEN Len(c) ELSE p + Len(s)) |->
     CASE i \in p + 1 .. p + Len(s) -> s[i - p]
       [] i \in 1 .. Len(c) /\ i \notin p + 1 .. p + Len(s) -> c[i]
       [] OTHER -> Hole]

Place == IF atEnd THEN Len(disk) ELSE at

Begin ==
  /\ ~running /\ answer = NoAnswer
  /\ running'
  /\ own' = Len(queue') - Len(queue) /\ own' >= 0
  /\ SubSeq(queue', 1, Len(queue)) = queue
  /\ UNCHANGED <<disk, mtime, place, again, answer>>

(* The first n bytes of the queue reach the file.                          *)
Store(n) ==
  /\ running /\ opened
  /\ disk' = Put(disk, Place, SubSeq(queue, 1, n))
  /\ at' = Place + n /\ mtime' = "written"
  /\ queue' = SubSeq(queue, n + 1, Len(queue))
  /\ again' \in {again \o SubSeq(queue, 1, n), <<>>}
  /\ UNCHANGED <<atEnd, opened, own, running, answer>>

Settle ==
  /\ running /\ again # <<>> /\ again' = <<>>
  /\ UNCHANGED <<disk, mtime, place, queue, own, running, answer>>

(* An answer, from a running call or from one that returns at once.        *)
Answers ==
  /\ answer = NoAnswer /\ answer' # NoAnswer
  /\ own' = 0 /\ ~running' /\ again' = <<>>

Barriers == {"flush", "seek", "close", "destroy"}

(* A call succeeds; after a barrier nothing is left to be stored.          *)
Succeeds(a) ==
  /\ a.outcome = "ok" /\ queue' = queue
  /\ a.op \in Barriers => queue = <<>>
  /\ IF a.op \in {"close", "destroy"} THEN ~opened' ELSE opened' = opened
  /\ a.op = "seek" => at' = IF a.arg = -1 THEN at ELSE a.arg
  /\ a.op \notin {"seek", "close", "destroy"} => at' = at
  /\ a.op \notin {"close", "destroy"} => atEnd' = atEnd
  /\ a.op = "set_last_write_time" => opened /\ mtime' = "set"
  /\ a.op # "set_last_write_time" => mtime' = mtime
  /\ disk' = disk

(* A call throws: nothing accepted before it is lost.  Only where there    *)
(* are bytes to store can a flush fail.                                    *)
Fails(a) ==
  /\ a.outcome \notin {"ok", "true", "false"}
  /\ \E d \in 0 .. own :
       d <= Len(queue) /\ queue' = again \o SubSeq(queue, 1, Len(queue) - d)
  /\ a.op \in {"flush", "close", "destroy"} => queue' # <<>>
  /\ UNCHANGED <<disk, mtime, place>>

(* open(): the queue stays; a file opened for appending keeps its bytes.   *)
Opens(a) ==
  /\ a.op = "open" /\ a.outcome \in {"true", "false"}
  /\ IF a.outcome = "false" THEN UNCHANGED <<disk, mtime, place>>
     ELSE /\ ~opened /\ opened' /\ at' = 0
          /\ disk' = IF atEnd' THEN disk ELSE <<>>
          /\ mtime' \in {mtime, "written"} /\ (~atEnd' => mtime' = "written")
  /\ UNCHANGED queue

Answer == Answers /\ (Succeeds(answer') \/ Fails(answer') \/ Opens(answer'))

(* After a destructor has thrown there is nobody left to take the answer.  *)
Take ==
  /\ answer # NoAnswer /\ ~(answer.op = "destroy" /\ answer.outcome # "ok")
  /\ answer' = NoAnswer
  /\ UNCHANGED <<disk, mtime, place, queue, own, again, running>>

Others ==
  /\ disk' = Append(disk, Foreign) /\ mtime' = "written"
  /\ UNCHANGED <<place, queue, own, again, running, answer>>

Next == Begin \/ (\E n \in 1 .. Len(queue) : Store(n)) \/ Settle \/ Answer \/ Take \/ Others

Spec == Init /\ [][Next]_vars

=============================================================================
