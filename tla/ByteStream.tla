----------------------------- MODULE ByteStream -----------------------------
(***************************************************************************)
(* What the byte interface of IFile (src/IFile.hpp) promises its caller:   *)
(* a position in a source of bytes, and calls that each happen at once.    *)
(* No buffer, no system calls, no cached size.                             *)
(*                                                                         *)
(* A call that could not be completed may leave the object out of step     *)
(* with the operating system's read offset (intact = FALSE).  Then nothing *)
(* is promised until the position is set anew.                             *)
(***************************************************************************)
EXTENDS Integers, Sequences

CONSTANT NoFile

VARIABLES
  source,  \* what is read, NoFile when closed
  pos,     \* tell()
  intact,
  answer   \* what the last call returned, NoAnswer when it has been taken

NoAnswer == <<>>

vars == <<source, pos, intact, answer>>

Init == source = NoFile /\ pos = 0 /\ intact = TRUE /\ answer = NoAnswer

(* The n bytes of the source from pos on.                                  *)
Bytes(n) == [k \in 1 .. n |-> <<source, pos + k - 1>>]

Keeps == UNCHANGED <<source, intact>>

(* Reading calls: the next bytes, and the position after them.             *)
Reads(a) ==
  LET n == Len(a.bytes) IN
  /\ a.op \in {"read_byte", "read_bytes", "read_bytes_at_most",
               "read_bytes_all", "read_bytes_to_end"}
  /\ a.outcome = "ok"
  /\ a.op = "read_byte" => n = 1
  /\ a.op = "read_bytes" => n = a.arg
  /\ a.op = "read_bytes_at_most" => n <= a.arg
  /\ a.op = "read_bytes_all" => pos = 0
  /\ a.bytes = Bytes(n) /\ pos' = pos + n
  /\ Keeps

Peeks(a) ==
  /\ a.op = "peek_byte" /\ a.outcome = "ok"
  /\ a.bytes = Bytes(1) /\ pos' = pos
  /\ Keeps

Tells(a) ==
  /\ a.op \in {"at_eof", "get_file_size", "set_buffer_size"}
  /\ a.bytes = <<>> /\ pos' = pos
  /\ Keeps

(* seek() puts the position right even when the object was out of step.    *)
Seeks(a) ==
  /\ a.op = "seek" /\ a.outcome = "ok"
  /\ a.bytes = <<>> /\ pos' = a.arg
  /\ intact => intact'
  /\ UNCHANGED source

Opens(a) ==
  /\ a.op = "open" /\ a.outcome \in {"true", "false", "FileIsAlreadyOpened"}
  /\ a.bytes = <<>> /\ pos' = pos
  /\ a.outcome = "true" => source = NoFile /\ pos = 0
  /\ a.outcome # "true" => source' = source
  /\ UNCHANGED intact

Closes(a) ==
  /\ a.op = "close"
  /\ source' = NoFile /\ pos' = 0 /\ intact'

(* A call that throws has either not moved, or has moved past the bytes    *)
(* the caller has got; a failed forward seek may also skip bytes.          *)
Fails(a) ==
  /\ a.op \notin {"open", "close"}
  /\ a.outcome \notin {"ok", "true", "false"}
  /\ a.bytes = Bytes(Len(a.bytes))
  /\ IF a.op = "seek" THEN pos' >= pos ELSE pos' \in {pos, pos + Len(a.bytes)}
  /\ Keeps

(* A failure that loses the position.                                      *)
Loses(a) ==
  /\ a.outcome \notin {"ok", "true", "false"}
  /\ ~intact'
  /\ UNCHANGED source

(* While out of step, any call but close() and open() answers anything.    *)
Wanders(a) ==
  /\ ~intact /\ a.op \notin {"open", "close"}
  /\ ~intact' /\ UNCHANGED source

WandersOpen(a) ==
  /\ ~intact /\ a.op = "open" /\ ~intact' /\ pos' = pos

Called ==
  /\ answer = NoAnswer /\ answer' # NoAnswer
  /\ LET a == answer' IN
       \/ /\ intact
          /\ Reads(a) \/ Peeks(a) \/ Tells(a) \/ Opens(a) \/ Fails(a) \/ Loses(a)
       \/ Seeks(a) \/ Closes(a)
       \/ Wanders(a) \/ WandersOpen(a)

Take ==
  /\ answer # NoAnswer /\ answer' = NoAnswer
  /\ UNCHANGED <<source, pos, intact>>

Next == Called \/ Take

Spec == Init /\ [][Next]_vars

=============================================================================
