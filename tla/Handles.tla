------------------------------ MODULE Handles -------------------------------
(***************************************************************************)
(* Who owns which descriptor: objects of the classes IFile and OFile over  *)
(* detail::FileHandle (src/FileHandle.hpp) and UniqueHandle                *)
(* (src/UniqueHandle.hpp), as they are constructed, opened, moved, closed  *)
(* and destroyed, and the kernel's table of descriptors behind them.       *)
(*                                                                         *)
(* Each call is a single step: the modules IFile and OFile hold what       *)
(* happens inside one.  A byte is modelled by the file it was read from,   *)
(* or that its writer had opened.                                          *)
(***************************************************************************)
EXTENDS Integers, FiniteSets, SequencesExt

CONSTANTS
  Ins,       \* objects of class IFile
  Outs,      \* objects of class OFile
  Names,     \* files that open() can be given the name of
  Terminal,  \* the file behind a standard descriptor
  Nobody,    \* no file
  Gone,      \* the state of an object before its constructor, after its destructor
  NoBuffer,  \* buffer == nullptr
  Stale,     \* an uninitialised byte below buffer_pos
  Capacity,  \* buffer_capacity
  Inherited, \* standard descriptors that may be open when the program begins
  LastFd,    \* descriptors are 0 .. LastFd; open() fails when all are taken
  MaxAlive   \* bound: so many objects live at a time

Objects     == Ins \cup Outs
Std         == 0 .. 2
Descriptors == 0 .. LastFd
Bytes       == Names \cup {Terminal, Nobody, Stale}

(* The members of an object.  count is buffer_pos of an OFile, buffer_size *)
(* - buffer_pos of an IFile; buffer holds these bytes only.  Of the last   *)
(* two, mine is the file the object was opened on and dirty says that it   *)
(* was moved from while count was positive.                                *)
Members ==
  [fd : Descriptors \cup {-1}, buffer : {NoBuffer} \cup Seq(Bytes),
   count : 0 .. Capacity, mine : Names \cup {Terminal, Nobody}, dirty : BOOLEAN]

ASSUME HandlesAssumption ==
  /\ Ins \cap Outs = {}
  /\ {Terminal, Nobody, Stale} \cap Names = {}
  /\ Terminal # Nobody
  /\ Capacity \in Nat \ {0}
  /\ Inherited \subseteq SUBSET (0 .. 2)
  /\ LastFd \in Nat /\ LastFd >= 2
  /\ MaxAlive \in Nat
  /\ Gone \notin Members /\ NoBuffer \notin Seq(Bytes)

VARIABLES
  table,    \* table[d]: the file that the kernel has open as d, or Nobody
  obj,      \* obj[o]: the members of object o
  astray,   \* history: bytes given for one file that reached another one
  end,      \* how the program ended, and the object it ended in
  refused,  \* history: assign_std_handle() has thrown
  dropped   \* history: descriptors above Std that assign_std_handle() overwrote

vars == <<table, obj, astray, end, refused, dropped>>

Default == [fd |-> -1, buffer |-> NoBuffer, count |-> 0, mine |-> Nobody, dirty |-> FALSE]

Running == [how |-> "running", was |-> Default]

Init ==
  /\ \E std \in Inherited :
       table = [d \in Descriptors |-> IF d \in std THEN Terminal ELSE Nobody]
  /\ obj = [o \in Objects |-> Gone]
  /\ astray = {}
  /\ end = Running /\ refused = FALSE /\ dropped = {}

Alive(o) == obj[o] # Gone

RoomForAnother == Cardinality({o \in Objects : Alive(o)}) < MaxAlive

is_std_handle(o, d) == IF o \in Ins THEN d = 0 ELSE d \in {1, 2}

-----------------------------------------------------------------------------
(* FileHandle: close() and the moves.                                      *)

(* Mutant: fd keeps its value.                                             *)
HandleStillThere(r) == r

HandleClosed(r) == [r EXCEPT !.fd = -1, !.mine = Nobody]

(* The table after fh.close() of an object o with the members r: standard  *)
(* descriptors stay open.                                                  *)
TableClosed(o, r) ==
  IF r.fd = -1 \/ is_std_handle(o, r.fd) THEN table ELSE [table EXCEPT ![r.fd] = Nobody]

(* Mutant: the handle is copied.                                           *)
MovedFromKeepsHandle(r) == [r EXCEPT !.buffer = NoBuffer, !.dirty = r.count > 0]

(* What a move leaves behind: no descriptor and no buffer, but the counters*)
(* as they were, which the default move constructors copy.                 *)
MovedFrom(r) ==
  [r EXCEPT !.fd = -1, !.mine = Nobody, !.buffer = NoBuffer, !.dirty = r.dirty \/ r.count > 0]

-----------------------------------------------------------------------------
(* OFile: flush().                                                         *)

(* write(2) refuses a closed descriptor and the null pointer.              *)
CanWrite(r) == r.fd # -1 /\ table[r.fd] # Nobody /\ r.buffer # NoBuffer

(* Mutant: buffer_pos stays.                                               *)
FlushedInPlace(r) == r

Flushed(r) == [r EXCEPT !.count = 0, !.buffer = IF r.count = 0 THEN @ ELSE <<>>,
                        !.dirty = FALSE]

Wrote(r) ==
  IF r.count > 0 /\ table[r.fd] \in Names
  THEN astray \cup ((ToSet(r.buffer) \cap Names) \ {table[r.fd]})
  ELSE astray

FlushSucceeds(r) == r.count = 0 \/ CanWrite(r)

(* A full disk, a closed handle.                                           *)
FlushFails(r) == r.count > 0

Unchanged == UNCHANGED <<end, refused, dropped>>

-----------------------------------------------------------------------------
(* Constructors, open(), assign_std_handle().                              *)

Construct(o) ==
  /\ ~Alive(o) /\ RoomForAnother
  /\ obj' = [obj EXCEPT ![o] = Default]
  /\ UNCHANGED <<table, astray>> /\ Unchanged

(* The kernel gives the lowest descriptor that is free; when there is none,*)
(* or no such file, the call returns false.  Neither class resets its      *)
(* window here.                                                            *)
Open(o, f) ==
  /\ Alive(o) /\ obj[o].fd = -1      \* else FileIsAlreadyOpened
  /\ \E d \in Descriptors :
       /\ table[d] = Nobody /\ \A e \in 0 .. d - 1 : table[e] # Nobody
       /\ table' = [table EXCEPT ![d] = f]
       /\ obj' = [obj EXCEPT ![o].fd = d, ![o].mine = f]
  /\ UNCHANGED astray /\ Unchanged

(* fd is set to any int before it is looked at, and what it held is        *)
(* forgotten.  A FileHandle has no window: here only one that is empty is  *)
(* left behind.                                                            *)
AssignStd(o, d) ==
  /\ Alive(o) /\ obj[o].count = 0
  /\ obj' = [obj EXCEPT ![o].fd = d, ![o].mine = Terminal]
  /\ refused' = (refused \/ ~is_std_handle(o, d))
  /\ dropped' = IF obj[o].fd \in {-1, d} THEN dropped ELSE dropped \cup ({obj[o].fd} \ Std)
  /\ UNCHANGED <<table, astray, end>>

-----------------------------------------------------------------------------
(* The destructors.                                                        *)

(* The program ends in an object with the members r.                       *)
Ends(how, r) ==
  /\ end' = [how |-> how, was |-> r]
  /\ UNCHANGED <<table, obj, astray, refused, dropped>>

(* ~IFile() is ~FileHandle(), which is close(); ~OFile() calls flush()     *)
(* before, and an exception that leaves a destructor ends the program.     *)
Destroy(o) ==
  /\ Alive(o)
  /\ \/ /\ o \in Ins \/ FlushSucceeds(obj[o])
        /\ table' = TableClosed(o, obj[o])
        /\ astray' = IF o \in Outs THEN Wrote(obj[o]) ELSE astray
        /\ obj' = [obj EXCEPT ![o] = Gone]
        /\ Unchanged
     \/ o \in Outs /\ FlushFails(obj[o]) /\ Ends("terminated", obj[o])

-----------------------------------------------------------------------------
(* Moves.                                                                  *)

SameClass(o, q) == {o, q} \subseteq Ins \/ {o, q} \subseteq Outs

MoveConstruct(o, q) ==
  /\ SameClass(o, q) /\ ~Alive(o) /\ Alive(q) /\ RoomForAnother
  /\ obj' = [obj EXCEPT ![o] = obj[q], ![q] = MovedFrom(obj[q])]
  /\ UNCHANGED <<table, astray>> /\ Unchanged

(* Mutant: the destination is overwritten.                                 *)
MoveAssignOver(o, q) ==
  /\ SameClass(o, q) /\ o # q /\ Alive(o) /\ Alive(q)
  /\ obj' = [obj EXCEPT ![o] = obj[q], ![q] = MovedFrom(obj[q])]
  /\ UNCHANGED <<table, astray>> /\ Unchanged

(* move_assign(): destroys the destination and moves the source there,     *)
(* unless they are the same object.  An IFile is assigned member by        *)
(* member, which comes to the same.                                        *)
MoveAssign(o, q) ==
  /\ SameClass(o, q) /\ Alive(o) /\ Alive(q)
  /\ \/ o = q /\ UNCHANGED vars
     \/ /\ o # q /\ (o \in Ins \/ FlushSucceeds(obj[o]))
        /\ table' = TableClosed(o, obj[o])
        /\ astray' = IF o \in Outs THEN Wrote(obj[o]) ELSE astray
        /\ obj' = [obj EXCEPT ![o] = obj[q], ![q] = MovedFrom(obj[q])]
        /\ Unchanged
     \/ o # q /\ o \in Outs /\ FlushFails(obj[o]) /\ Ends("terminated", obj[o])

-----------------------------------------------------------------------------
(* Use: one byte at a time, and close().                                   *)

(* allocate_buffer(): what lies below buffer_pos in a new buffer was never *)
(* stored.                                                                 *)
Allocated(r) == IF r.buffer # NoBuffer THEN r ELSE [r EXCEPT !.buffer = [k \in 1 .. r.count |-> Stale]]

(* buffer[buffer_pos++] = b                                                *)
Store(r) == [r EXCEPT !.buffer = Append(@, r.mine), !.count = @ + 1]

(* write_byte(): a full buffer is flushed, or the flush throws.            *)
WriteByte(o) ==
  LET r == Allocated(obj[o]) IN
  /\ o \in Outs /\ Alive(o)
  /\ \/ /\ r.count < Capacity
        /\ obj' = [obj EXCEPT ![o] = Store(r)] /\ UNCHANGED astray
     \/ /\ r.count = Capacity /\ CanWrite(r)
        /\ obj' = [obj EXCEPT ![o] = Store(Flushed(r))] /\ astray' = Wrote(r)
     \/ /\ r.count = Capacity
        /\ obj' = [obj EXCEPT ![o] = r] /\ UNCHANGED astray
  /\ UNCHANGED table /\ Unchanged

(* Mutant: the buffer is never allocated.                                  *)
FilledUnallocated(r, n) == [r EXCEPT !.buffer = NoBuffer, !.count = n]

(* A new window, of which the caller takes one byte.                       *)
Filled(r, n) == [r EXCEPT !.buffer = [k \in 1 .. n |-> table[r.fd]], !.count = n]

(* read_byte(): from the window, or else from a new one of up to Capacity  *)
(* bytes, unless fh.read() throws.  A window without a buffer is read      *)
(* through a null pointer.                                                 *)
ReadByte(o) ==
  LET r == obj[o] IN
  /\ o \in Ins /\ Alive(o)
  /\ \/ /\ r.count > 0 /\ r.buffer # NoBuffer
        /\ obj' = [obj EXCEPT ![o].count = @ - 1, ![o].buffer = Tail(@)]
        /\ UNCHANGED <<table, astray>> /\ Unchanged
     \/ r.count > 0 /\ r.buffer = NoBuffer /\ Ends("crashed", r)
     \/ /\ r.count = 0
        /\ \/ obj' = [obj EXCEPT ![o] = Allocated(r)]
           \/ /\ r.fd # -1 /\ table[r.fd] # Nobody
              /\ \E n \in 0 .. Capacity - 1 : obj' = [obj EXCEPT ![o] = Filled(r, n)]
        /\ UNCHANGED <<table, astray>> /\ Unchanged

(* Mutant: the handle goes first.                                          *)
CloseThenFlush(o) ==
  /\ o \in Outs /\ Alive(o)
  /\ table' = TableClosed(o, obj[o]) /\ obj' = [obj EXCEPT ![o] = HandleClosed(@)]
  /\ UNCHANGED astray /\ Unchanged

(* OFile::close(); a flush that fails leaves everything as it is.          *)
CloseOut(o) ==
  /\ o \in Outs /\ Alive(o)
  /\ \/ /\ FlushSucceeds(obj[o])
        /\ table' = TableClosed(o, obj[o])
        /\ astray' = Wrote(obj[o])
        /\ obj' = [obj EXCEPT ![o] = HandleClosed(Flushed(@))]
     \/ FlushFails(obj[o]) /\ UNCHANGED <<table, obj, astray>>
  /\ Unchanged

(* Mutant: the window stays.                                               *)
WindowStays(r) == r

ResetWindow(r) ==
  [r EXCEPT !.count = 0, !.dirty = FALSE, !.buffer = IF r.buffer = NoBuffer THEN @ ELSE <<>>]

(* IFile::close()                                                          *)
CloseIn(o) ==
  /\ o \in Ins /\ Alive(o)
  /\ table' = TableClosed(o, obj[o])
  /\ obj' = [obj EXCEPT ![o] = HandleClosed(ResetWindow(@))]
  /\ UNCHANGED astray /\ Unchanged

-----------------------------------------------------------------------------
Call(o) ==
  \/ Construct(o) \/ (\E f \in Names : Open(o, f)) \/ (\E d \in Descriptors \cup {-1} : AssignStd(o, d))
  \/ (\E q \in Objects : MoveConstruct(o, q) \/ MoveAssign(o, q))
  \/ WriteByte(o) \/ ReadByte(o)

(* Bound: after an assignment that was refused the program only cleans up. *)
Next ==
  /\ end = Running
  /\ \E o \in Objects : (~refused /\ Call(o)) \/ CloseOut(o) \/ CloseIn(o) \/ Destroy(o)

Spec == Init /\ [][Next]_vars

=============================================================================
