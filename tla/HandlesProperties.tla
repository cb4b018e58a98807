------------------------- MODULE HandlesProperties --------------------------
(***************************************************************************)
(* What is claimed of the ownership of descriptors and buffers in          *)
(* src/UniqueHandle.hpp, src/FileHandle.hpp, src/IFile.hpp, src/OFile.hpp. *)
(***************************************************************************)
EXTENDS Handles

(* Types.  No object holds more bytes than its buffer, and a buffer that   *)
(* is there holds as many as the counters say (OFile.hpp:66-72,            *)
(* IFile.hpp:50-71), however often it is moved.                            *)
HandlesTypeOK ==
  /\ table \in [Descriptors -> Names \cup {Terminal, Nobody}]
  /\ obj \in [Objects -> Members \cup {Gone}]
  /\ \A o \in Objects : Alive(o) /\ obj[o].buffer # NoBuffer => Len(obj[o].buffer) = obj[o].count
  /\ astray \subseteq Names /\ refused \in BOOLEAN /\ dropped \subseteq Descriptors \ Std
  /\ end \in [how : {"running", "terminated", "crashed"}, was : Members]

Holds(o, d) == Alive(o) /\ obj[o].fd = d

(* An object that was opened, and not merely given a standard descriptor.  *)
Opened(o) == Alive(o) /\ obj[o].mine \in Names

(* Two objects never own one descriptor, through all constructions, moves, *)
(* assignments, self-assignments and destructions (UniqueHandle.hpp:13,    *)
(* 21-27, FileHandle.hpp:290-311): nothing is closed twice.                *)
OneOwner ==
  ~refused => \A o, q \in Objects :
    Opened(o) /\ Opened(q) /\ o # q => obj[o].fd # obj[q].fd

(* What an object was opened on is what its descriptor still refers to,    *)
(* though numbers are used again as soon as they are free                  *)
(* (FileHandle.hpp:226-236, 290-311): no call reads from or writes to a    *)
(* file that another object has opened.                                    *)
HandlesAreTheirOwn ==
  ~refused => \A o \in Objects : Opened(o) => table[obj[o].fd] = obj[o].mine

(* A descriptor that open() has got is closed when no object has it any    *)
(* more, except a number that close() takes for a standard handle and one  *)
(* that assign_std_handle() has overwritten (FileHandle.hpp:211, 290-298,  *)
(* 311).                                                                   *)
NothingLeaks ==
  \A d \in Descriptors :
    table[d] \in Names => (\E o \in Objects : Holds(o, d)) \/ d \in Std \cup dropped

(* Bytes given for one file never reach another one, wherever their buffer *)
(* has moved meanwhile and whatever the object is opened on next           *)
(* (OFile.hpp:25-58).  Bytes given to a closed object go to what it is     *)
(* opened on, bytes for standard output to whatever has its number.        *)
BytesReachTheirFile ==
  ~refused => astray = {}

(* The unread bytes of an object are those of the file it is open on: none *)
(* survives a close(), and they move with the handle (IFile.hpp:114-134).  *)
UnreadBytesAreItsOwn ==
  ~refused => \A o \in Ins :
    Opened(o) /\ obj[o].buffer # NoBuffer => ToSet(obj[o].buffer) \subseteq {obj[o].mine}

(* A destructor or a move assignment ends the program only over bytes that *)
(* a failing descriptor would not take, that were given to a closed object *)
(* or that moved away from it; and the null pointer is read only for bytes *)
(* that moved away (OFile.hpp:28, 37, UniqueHandle.hpp:24).                *)
EndsForAReason ==
  /\ end.how = "terminated" =>
       \/ end.was.dirty \/ end.was.fd # -1
       \/ end.was.buffer # NoBuffer /\ Nobody \in ToSet(end.was.buffer)
  /\ end.how = "crashed" => end.was.dirty

(* "OFile(OFile &&f) : ... {f.buffer_pos = 0;}" (OFile.hpp:30), written    *)
(* out for the compiler that "doesn't support defaulted move constructors" *)
(* (29): what is left behind holds no bytes, so that it can be destroyed.  *)
MovedFromIsDestroyed ==
  end.how = "terminated" => ~end.was.dirty

=============================================================================
