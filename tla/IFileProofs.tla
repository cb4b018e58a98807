---------------------------- MODULE IFileProofs -----------------------------
(***************************************************************************)
(* Proofs about IFile for every value of its constants: any number of      *)
(* files, buffers of any size, any counts and targets.                     *)
(***************************************************************************)
EXTENDS IFileProperties, SequenceTheorems, TLAPS

(* The frame of the running call, whatever call it is.                     *)
FrameOK ==
  /\ call.start \in Nat /\ (call.loop = "skip" => call.arg \in Int)
  /\ left \in Nat /\ out \in Seq(Byte)

Typed ==
  /\ WorldOK /\ HandleOK /\ TransferOK /\ BufferOK /\ FlagsOK /\ PlaceOK /\ FrameOK
  /\ lost \in Losses

(* What Typed needs to be inductive: what holds at each place a call can   *)
(* be at (has_no_data_left, seek, the loops of the reading calls).         *)
Control ==
  /\ pc \in Sites => fd \in Files
  /\ ~allocated => buffer_size = 0
  /\ pc \in {"fill", "refill"} =>
       /\ allocated /\ got <= buffer_capacity
       /\ \A i \in 0 .. got - 1 : buffer[i] \in Byte
  /\ pc = "fill" => got + want <= buffer_capacity
  /\ pc = "refill" => got + want <= 2 * SeekChunk
  /\ pc = "overrun" => buffer_capacity < 2 * SeekChunk
  /\ pc \in {"refill", "overrun"} => call.op = "seek"
  /\ buffer_pos > buffer_size =>
       file_size \in Nat /\ pc \in {"idle", "refill", "overrun", "ret", "aborted"}
  /\ pc = "body" /\ ~no_data => buffer_pos < buffer_size
  /\ pc = "refill" =>
       call.arg \in Nat /\ file_pos_of_buffer_start = SeekBase(call.arg) /\ file_size \in Nat
  /\ call.loop = "skip" /\ pc \in {"fill", "more"} => file_pos_of_buffer_start <= call.arg

IInv == Typed /\ Control

LEMMA SeekBaseBounds ==
  ASSUME NEW p \in Nat
  PROVE  SeekBase(p) \in Nat /\ SeekBase(p) <= p /\ p - SeekBase(p) < SeekChunk
BY IFileAssumption DEF SeekBase

LEMMA InitIInv == Init => IInv
<1> SUFFICES ASSUME Init PROVE IInv
  OBVIOUS
<1>1. WorldOK
  BY FilesAssumption DEF Init, HandleInit, WorldOK
<1>2. HandleOK /\ TransferOK
  BY DEF Init, HandleInit, HandleOK, TransferOK, Unknown
<1>3. BufferOK
  <2>1. /\ allocated \in BOOLEAN /\ buffer_capacity \in Nat
        /\ buffer \in [0 .. buffer_capacity - 1 -> Byte \cup {Garbage}]
    BY IFileAssumption DEF Init
  <2>2. /\ buffer_pos \in Nat /\ buffer_size \in 0 .. buffer_capacity
        /\ file_pos_of_buffer_start \in Nat
    BY IFileAssumption DEF Init
  <2>3. \A i \in 0 .. buffer_size - 1 : buffer[i] \in Byte
    BY DEF Init
  <2>. QED
    BY <2>1, <2>2, <2>3 DEF BufferOK
<1>4. FlagsOK /\ PlaceOK /\ lost \in Losses
  BY DEF Init, FlagsOK, PlaceOK, PCs, Losses
<1>5. FrameOK
  BY DEF Init, FrameOK, NoCall
<1>6. Control
  BY IFileAssumption DEF Init, Control, Sites, NoCall
<1>. QED
  BY <1>1, <1>2, <1>3, <1>4, <1>5, <1>6 DEF IInv, Typed

-----------------------------------------------------------------------------
(* The steps that are not calls' own: the world, the result taken, read(2).*)

LEMMA TakeIInv == IInv /\ Take => IInv'
<1> SUFFICES ASSUME IInv, Take PROVE IInv'
  OBVIOUS
<1> USE DEF Take, IInv, Typed, StartRead, world, handle, memory, window, flags
<1>1. WorldOK' /\ HandleOK' /\ TransferOK' /\ BufferOK' /\ FlagsOK' /\ lost' \in Losses
  BY DEF WorldOK, HandleOK, TransferOK, BufferOK, FlagsOK
<1>2. PlaceOK'
  BY DEF PlaceOK, PCs
<1>3. FrameOK'
  BY DEF FrameOK, NoCall
<1>4. Control'
  BY DEF Control, Sites, NoCall
<1>. QED
  BY <1>1, <1>2, <1>3, <1>4

LEMMA WorldIInv == IInv /\ World => IInv'
<1> SUFFICES ASSUME IInv, World PROVE IInv'
  OBVIOUS
<1> USE DEF World, IInv, Typed, handle, transfer, memory, window, flags, frame
<1>1. WorldOK'
  BY DEF Grow, EndStream, WorldOK
<1>2. HandleOK' /\ TransferOK' /\ BufferOK' /\ FlagsOK' /\ PlaceOK' /\ FrameOK' /\ lost' \in Losses
  BY DEF HandleOK, TransferOK, BufferOK, FlagsOK, PlaceOK, FrameOK
<1>3. Control'
  BY DEF Control
<1>. QED
  BY <1>1, <1>2, <1>3

LEMMA SysReadCount ==
  ASSUME IInv, pc \in Sites, NEW r \in SysReadResults
  PROVE  r \in 0 .. want
BY DEF SysReadResults, IInv, Typed, WorldOK, HandleOK, TransferOK, Control

LEMMA SysReadOK ==
  ASSUME IInv, pc \in Sites, NEW r \in 0 .. want, SysRead(r)
  PROVE  HandleOK' /\ TransferOK'
BY DEF SysRead, LoopEnds, IInv, Typed, HandleOK, TransferOK

LEMMA ReadIntoBufferIInv == IInv /\ ReadIntoBuffer => IInv'
<1> SUFFICES ASSUME IInv, ReadIntoBuffer PROVE IInv'
  OBVIOUS
<1> USE DEF IInv, Typed, world, window, flags
<1>. PICK r \in SysReadResults :
      /\ SysRead(r)
      /\ buffer' = [i \in DOMAIN buffer |->
                      IF got <= i /\ i < got + r THEN <<fd, off + i - got>> ELSE buffer[i]]
      /\ pc' = IF got + r <= buffer_capacity THEN pc ELSE "overrun"
  BY DEF ReadIntoBuffer
<1>1. r \in 0 .. want
  BY SysReadCount DEF ReadIntoBuffer, Sites
<1>2. HandleOK' /\ TransferOK'
  BY <1>1, SysReadOK DEF ReadIntoBuffer, Sites
<1>3. WorldOK' /\ FlagsOK' /\ PlaceOK' /\ FrameOK' /\ lost' \in Losses
  BY DEF ReadIntoBuffer, WorldOK, FlagsOK, PlaceOK, PCs, FrameOK
<1>4. \A i \in 0 .. buffer_capacity - 1 :
        IF got <= i /\ i < got + r THEN buffer'[i] \in Byte ELSE buffer'[i] = buffer[i]
  BY <1>1 DEF ReadIntoBuffer, Sites, Control, HandleOK, TransferOK, BufferOK, Byte
<1>5. BufferOK'
  <2>1. /\ UNCHANGED <<allocated, buffer_capacity, buffer_pos, buffer_size, file_pos_of_buffer_start>>
        /\ buffer_capacity \in Nat /\ buffer_size \in 0 .. buffer_capacity
        /\ buffer \in [0 .. buffer_capacity - 1 -> Byte \cup {Garbage}]
        /\ \A i \in 0 .. buffer_size - 1 : buffer[i] \in Byte
    BY DEF ReadIntoBuffer, BufferOK
  <2>2. buffer' \in [0 .. buffer_capacity - 1 -> Byte \cup {Garbage}]
    BY <1>4, <2>1
  <2>3. \A i \in 0 .. buffer_size - 1 : buffer'[i] \in Byte
    BY <1>4, <2>1
  <2>. QED
    BY <2>1, <2>2, <2>3 DEF BufferOK
<1>6. Control'
  <2>1. /\ UNCHANGED <<fd, file_size, allocated, buffer_capacity, buffer_pos, buffer_size,
                       file_pos_of_buffer_start, no_data, call>>
        /\ pc \in {"fill", "refill"}
    BY DEF ReadIntoBuffer, SysRead
  <2>2. /\ got' = got + r /\ want' = want - r
        /\ got \in Nat /\ want \in Nat /\ buffer_capacity \in Nat
        /\ got <= buffer_capacity /\ 2 * SeekChunk \in Nat
    BY <2>1, IFileAssumption DEF SysRead, TransferOK, BufferOK, Control
  <2>3. CASE got + r <= buffer_capacity
    <3>1. pc' = pc
      BY <2>3
    <3>2. \A i \in 0 .. got' - 1 : buffer'[i] \in Byte
      BY <1>1, <1>4, <2>1, <2>2, <2>3 DEF Control
    <3>. QED
      BY <1>1, <2>1, <2>2, <2>3, <3>1, <3>2 DEF Control
  <2>4. CASE ~(got + r <= buffer_capacity)
    <3>1. pc' = "overrun" /\ pc = "refill"
      BY <1>1, <2>1, <2>2, <2>4 DEF Control
    <3>2. buffer_capacity < 2 * SeekChunk
      BY <1>1, <2>2, <2>4, <3>1 DEF Control
    <3>. QED
      BY <2>1, <3>1, <3>2 DEF Control, Sites
  <2>. QED
    BY <2>3, <2>4
<1>. QED
  BY <1>2, <1>3, <1>5, <1>6

LEMMA ReadIntoCallerIInv == IInv /\ ReadIntoCaller => IInv'
<1> SUFFICES ASSUME IInv, ReadIntoCaller PROVE IInv'
  OBVIOUS
<1> USE DEF IInv, Typed, world, memory, window, flags
<1>. PICK r \in SysReadResults :
      SysRead(r) /\ out' = out \o [k \in 1 .. r |-> <<fd, off + k - 1>>]
  BY DEF ReadIntoCaller
<1>1. r \in 0 .. want
  BY SysReadCount DEF ReadIntoCaller, Sites
<1>2. HandleOK' /\ TransferOK'
  BY <1>1, SysReadOK DEF ReadIntoCaller, Sites
<1>3. WorldOK' /\ BufferOK' /\ FlagsOK' /\ PlaceOK' /\ lost' \in Losses
  BY DEF ReadIntoCaller, WorldOK, BufferOK, FlagsOK, PlaceOK
<1>4. [k \in 1 .. r |-> <<fd, off + k - 1>>] \in Seq(Byte)
  BY <1>1 DEF ReadIntoCaller, Control, Sites, HandleOK, TransferOK, Byte
<1>5. FrameOK'
  <2>1. out \in Seq(Byte) /\ left' \in Nat /\ call' = call
    BY DEF ReadIntoCaller, FrameOK
  <2>2. out' \in Seq(Byte)
    BY <1>4, <2>1
  <2>. QED
    BY <2>1, <2>2 DEF FrameOK
<1>6. Control'
  BY DEF ReadIntoCaller, SysRead, Control
<1>. QED
  BY <1>2, <1>3, <1>5, <1>6

LEMMA ReadFailsIInv == IInv /\ ReadFails => IInv'
<1> SUFFICES ASSUME IInv, ReadFails PROVE IInv'
  OBVIOUS
<1> USE DEF ReadFails, Finish, IInv, Typed, world, handle, transfer, memory, window, flags
<1>1. WorldOK' /\ HandleOK' /\ TransferOK' /\ BufferOK' /\ FlagsOK' /\ FrameOK'
  BY DEF WorldOK, HandleOK, TransferOK, BufferOK, FlagsOK, FrameOK
<1>2. PlaceOK' /\ lost' \in Losses
  BY DEF PlaceOK, PCs, Lose, Losses
<1>3. Control'
  BY DEF Control, Sites
<1>. QED
  BY <1>1, <1>2, <1>3

LEMMA FillReturnIInv == IInv /\ FillReturn => IInv'
<1> SUFFICES ASSUME IInv, FillReturn PROVE IInv'
  OBVIOUS
<1> USE DEF FillReturn, IInv, Typed, world, handle, transfer, memory
<1>1. WorldOK' /\ HandleOK' /\ TransferOK' /\ FlagsOK' /\ FrameOK' /\ lost' \in Losses
  BY DEF WorldOK, HandleOK, TransferOK, FlagsOK, FrameOK
<1>2. BufferOK'
  BY DEF BufferOK, Control, TransferOK
<1>3. PlaceOK'
  BY DEF PlaceOK, PCs
<1>4. ~no_data' => got # 0
  OBVIOUS
<1>5. Control'
  <2>1. UNCHANGED <<fd, file_size, allocated, buffer, buffer_capacity, got, want, call,
                    file_pos_of_buffer_start>>
    OBVIOUS
  <2>2. /\ pc = "fill" /\ pc' \in {"body", "more"}
        /\ buffer_pos' = 0 /\ buffer_size' = got
    BY DEF PlaceOK
  <2>3. got \in Nat /\ got + want <= buffer_capacity /\ allocated
    BY DEF Control, TransferOK
  <2>. QED
    BY <1>4, <2>1, <2>2, <2>3 DEF Control, Sites
<1>. QED
  BY <1>1, <1>2, <1>3, <1>5

-----------------------------------------------------------------------------
(* The parts calls are made of.                                            *)

LEMMA CopiedOK ==
  ASSUME IInv, NEW n \in Nat, buffer_pos + n <= buffer_size
  PROVE  out \o Copied(n) \in Seq(Byte)
<1>1. Copied(n) \in Seq(Byte)
  BY DEF Copied, IInv, Typed, BufferOK
<1>2. out \in Seq(Byte)
  BY DEF IInv, Typed, FrameOK
<1>. QED
  BY <1>1, <1>2

(* Where a call is after has_no_data_left() has been entered.              *)
LEMMA HasNoDataLeftOK ==
  ASSUME IInv, NEW next \in {"body", "more"}, NEW bp \in Nat, NEW at_end \in BOOLEAN,
         HasNoDataLeft(next, bp, at_end),
         UNCHANGED <<fd, buffer, buffer_capacity>>, HandleOK',
         bp > buffer_size => file_size' \in Nat,
         call'.loop = "skip" => file_pos_of_buffer_start + buffer_size <= call'.arg
  PROVE  TransferOK' /\ BufferOK' /\ PlaceOK' /\ Control'
<1> USE DEF HasNoDataLeft, IInv, Typed, window, transfer
<1>1. CASE bp = buffer_size /\ at_end
  <2>1. TransferOK' /\ PlaceOK'
    BY <1>1 DEF TransferOK, PlaceOK, PCs
  <2>2. BufferOK'
    BY <1>1 DEF BufferOK
  <2>3. Control'
    BY <1>1 DEF Control, BufferOK, Sites
  <2>. QED
    BY <2>1, <2>2, <2>3
<1>2. CASE bp = buffer_size /\ ~at_end
  <2>0. /\ allocated' = TRUE
        /\ file_pos_of_buffer_start' = file_pos_of_buffer_start + buffer_size
        /\ buffer_pos' = buffer_size /\ buffer_size' = buffer_size
        /\ ret' = next /\ no_data' = no_data
        /\ \/ /\ fd # NoFile /\ want' = buffer_capacity /\ got' = 0 /\ read_over' = FALSE
              /\ pc' = "fill"
           \/ pc' = "ret" /\ UNCHANGED <<want, got, read_over>>
    BY <1>2 DEF FhRead, StartRead, Finish
  <2>1. TransferOK'
    <3>1. want' \in Nat /\ got' \in Nat
      BY <2>0 DEF TransferOK, BufferOK
    <3>2. read_over' \in BOOLEAN
      BY <2>0, Zenon DEF TransferOK
    <3>. QED
      BY <3>1, <3>2 DEF TransferOK
  <2>2. PlaceOK'
    BY <2>0 DEF PlaceOK, PCs, Sites
  <2>3. BufferOK'
    <3>1. /\ allocated' \in BOOLEAN /\ buffer_capacity' \in Nat
          /\ buffer' \in [0 .. buffer_capacity' - 1 -> Byte \cup {Garbage}]
      BY <2>0 DEF BufferOK
    <3>2. /\ buffer_pos' \in Nat /\ buffer_size' \in 0 .. buffer_capacity'
          /\ \A i \in 0 .. buffer_size' - 1 : buffer'[i] \in Byte
          /\ file_pos_of_buffer_start' \in Nat
      BY <2>0 DEF BufferOK
    <3>. QED
      BY <3>1, <3>2 DEF BufferOK
  <2>4. Control'
    BY <2>0 DEF Control, BufferOK, Sites, HandleOK
  <2>. QED
    BY <2>1, <2>2, <2>3, <2>4
<1>3. CASE bp # buffer_size
  <2>1. TransferOK' /\ PlaceOK'
    BY <1>3 DEF TransferOK, PlaceOK, PCs
  <2>2. BufferOK'
    BY <1>3 DEF BufferOK
  <2>3. Control'
    BY <1>3 DEF Control, BufferOK, Sites
  <2>. QED
    BY <2>1, <2>2, <2>3
<1>. QED
  BY <1>1, <1>2, <1>3

LEMMA AtEofOK ==
  ASSUME IInv, AtEof("body"),
         UNCHANGED <<fd, buffer, buffer_capacity>>, HandleOK',
         buffer_pos > buffer_size => file_size' \in Nat,
         call'.loop # "skip"
  PROVE  TransferOK' /\ BufferOK' /\ PlaceOK' /\ Control'
<1>1. CASE buffer_pos < buffer_size
  <2> USE <1>1 DEF IInv, Typed
  <2>0. /\ no_data' = FALSE /\ pc' = "body"
        /\ UNCHANGED <<allocated, file_pos_of_buffer_start, buffer_size, buffer_pos, ret, transfer>>
        /\ buffer_pos \in Nat /\ buffer_size \in Nat
    BY DEF AtEof, window, BufferOK
  <2>1. TransferOK' /\ PlaceOK'
    BY <2>0 DEF TransferOK, PlaceOK, PCs, transfer
  <2>2. BufferOK'
    BY <2>0 DEF BufferOK
  <2>3. Control'
    BY <2>0 DEF Control, Sites
  <2>. QED
    BY <2>1, <2>2, <2>3
<1>2. CASE buffer_pos >= buffer_size
  <2>1. buffer_pos \in Nat /\ buffer_size \in Nat
    BY DEF IInv, Typed, BufferOK
  <2>2. HasNoDataLeft("body", buffer_pos, is_eof_reached)
    BY <1>2, <2>1 DEF AtEof
  <2>. QED
    BY <2>1, <2>2, HasNoDataLeftOK DEF IInv, Typed, FlagsOK
<1>. QED
  BY <1>1, <1>2 DEF IInv, Typed, BufferOK

(* A call that is over: the window has not moved.                          *)
LEMMA ThrowOK ==
  ASSUME IInv, NEW e, Throw(e),
         UNCHANGED <<fd, buffer, buffer_capacity>>, HandleOK',
         buffer_pos > buffer_size => file_size' \in Nat
  PROVE  TransferOK' /\ BufferOK' /\ PlaceOK' /\ Control'
<1> USE DEF Throw, Finish, IInv, Typed, window, transfer
<1>1. TransferOK' /\ PlaceOK'
  BY DEF TransferOK, PlaceOK, PCs
<1>2. BufferOK'
  BY DEF BufferOK
<1>3. Control'
  BY DEF Control, Sites
<1>. QED
  BY <1>1, <1>2, <1>3

LEMMA CopyThenRefillOK ==
  ASSUME IInv, CopyThenRefill, buffer_pos <= buffer_size,
         UNCHANGED <<handle, buffer, buffer_capacity, call>>, call.loop # "skip"
  PROVE  TransferOK' /\ BufferOK' /\ PlaceOK' /\ FrameOK' /\ Control'
<1> DEFINE n == IF Available < left THEN Available ELSE left
<1>1. /\ buffer_pos \in Nat /\ buffer_size \in Nat /\ left \in Nat
      /\ n \in Nat /\ n <= left /\ buffer_pos + n <= buffer_size
      /\ left # n => buffer_pos + n = buffer_size
  BY DEF Available, IInv, Typed, BufferOK, FrameOK
<1>2. out' = out \o Copied(n) /\ left' = left - n
  BY DEF CopyThenRefill
<1>3. HandleOK'
  BY DEF IInv, Typed, HandleOK, handle
<1>4. FrameOK'
  <2>1. out' \in Seq(Byte)
    BY <1>1, <1>2, CopiedOK
  <2>2. left' \in Nat
    BY <1>1, <1>2
  <2>. QED
    BY <2>1, <2>2 DEF IInv, Typed, FrameOK
<1>5. CASE left = n
  <2>1. /\ buffer_pos' = buffer_pos + n /\ Finish("ok")
        /\ UNCHANGED <<allocated, window, ret, no_data, transfer>>
    BY <1>5, <1>1 DEF CopyThenRefill
  <2> HIDE DEF n
  <2> USE DEF Finish, IInv, Typed, window, transfer, handle
  <2>2. TransferOK' /\ PlaceOK'
    BY <2>1 DEF TransferOK, PlaceOK, PCs
  <2>3. BufferOK'
    BY <1>1, <2>1 DEF BufferOK
  <2>4. Control'
    BY <1>1, <2>1 DEF Control, Sites
  <2>. QED
    BY <1>4, <2>2, <2>3, <2>4
<1>6. CASE left # n
  <2>1. HasNoDataLeft("more", buffer_pos + n, is_eof_reached)
    BY <1>6 DEF CopyThenRefill
  <2>2. UNCHANGED fd /\ ~(buffer_pos + n > buffer_size) /\ call'.loop # "skip"
    BY <1>1 DEF handle
  <2> HIDE DEF n
  <2>. QED
    BY <1>1, <1>3, <1>4, <2>1, <2>2, HasNoDataLeftOK DEF IInv, Typed, FlagsOK
<1>. QED
  BY <1>5, <1>6

LEMMA DrainThenRefillOK ==
  ASSUME IInv, DrainThenRefill, buffer_pos <= buffer_size,
         UNCHANGED <<fd, buffer, buffer_capacity>>, HandleOK', call'.loop # "skip"
  PROVE  TransferOK' /\ BufferOK' /\ PlaceOK' /\ Control' /\ left' \in Nat /\ out' \in Seq(Byte)
<1>1. /\ Available \in Nat /\ buffer_pos + Available <= buffer_size /\ buffer_size \in Nat
  BY DEF Available, IInv, Typed, BufferOK
<1>2. out' \in Seq(Byte)
  BY <1>1, CopiedOK DEF DrainThenRefill
<1>3. left' \in Nat
  BY DEF DrainThenRefill, IInv, Typed, FrameOK
<1>4. HasNoDataLeft("more", buffer_size, is_eof_reached)
  BY DEF DrainThenRefill
<1>. QED
  BY <1>1, <1>2, <1>3, <1>4, HasNoDataLeftOK DEF IInv, Typed, FlagsOK

-----------------------------------------------------------------------------
(* Calls that ask whether the end is reached before they do anything else. *)

LEMMA CallAtEofIInv ==
  ASSUME IInv, NEW op, NEW arg, NEW loop, loop = "skip" => arg \in Int,
         CallAtEof(op, arg, loop), loop # "skip", left' \in Nat
  PROVE  IInv'
<1> USE DEF CallAtEof, IInv, Typed, world, handle, flags
<1>1. call' = [op |-> op, arg |-> arg, loop |-> loop, start |-> tell] /\ pc = "idle"
  BY DEF Begin
<1>2. FrameOK'
  BY <1>1 DEF FrameOK, tell, BufferOK
<1>3. WorldOK' /\ HandleOK' /\ FlagsOK' /\ lost' \in Losses
  BY DEF WorldOK, HandleOK, FlagsOK
<1>4. buffer_pos > buffer_size => file_size' \in Nat
  BY DEF Control
<1>5. TransferOK' /\ BufferOK' /\ PlaceOK' /\ Control'
  BY <1>1, <1>3, <1>4, AtEofOK
<1>. QED
  BY <1>2, <1>3, <1>5

LEMMA CallsAtEofIInv ==
  IInv /\ (AtEofCall \/ PeekByte \/ ReadByte
             \/ \E n \in Counts : ReadBytes(n) \/ ReadBytesAtMost(n)) => IInv'
<1> SUFFICES ASSUME IInv, AtEofCall \/ PeekByte \/ ReadByte
                            \/ \E n \in Counts : ReadBytes(n) \/ ReadBytesAtMost(n)
             PROVE IInv'
  OBVIOUS
<1>1. left \in Nat
  BY DEF IInv, Typed, FrameOK
<1>2. CASE AtEofCall \/ PeekByte \/ ReadByte
  BY <1>1, <1>2, CallAtEofIInv DEF AtEofCall, PeekByte, ReadByte
<1>3. ASSUME NEW n \in Counts, ReadBytes(n) \/ ReadBytesAtMost(n) PROVE IInv'
  <2>1. n \in Nat
    BY IFileAssumption
  <2>. QED
    BY <1>3, <2>1, CallAtEofIInv DEF ReadBytes, ReadBytesAtMost
<1>. QED
  BY <1>2, <1>3

-----------------------------------------------------------------------------
(* Inside a call.                                                          *)

(* What a step inside a call leaves as it was.                             *)
LEMMA InLoopOK ==
  ASSUME IInv, InLoop
  PROVE  /\ WorldOK' /\ HandleOK' /\ FlagsOK'
         /\ UNCHANGED <<fd, file_size, handle, buffer, buffer_capacity, call>>
         /\ buffer_pos > buffer_size => file_size' \in Nat
         /\ pc \in {"body", "more"} => buffer_pos <= buffer_size
BY DEF InLoop, IInv, Typed, WorldOK, HandleOK, FlagsOK, BufferOK, Control, world, handle, flags

LEMMA AtEofReturnIInv == IInv /\ AtEofReturn => IInv'
<1> SUFFICES ASSUME IInv, AtEofReturn PROVE IInv'
  OBVIOUS
<1> USE DEF AtEofReturn
<1>1. FrameOK' /\ lost' \in Losses
  BY DEF Throw, InLoop, IInv, Typed, FrameOK
<1>2. PICK e : Throw(e)
  OBVIOUS
<1>. QED
  BY <1>1, <1>2, InLoopOK, ThrowOK DEF IInv, Typed

LEMMA ByteReturnIInv == IInv /\ ByteReturn => IInv'
<1> SUFFICES ASSUME IInv, ByteReturn PROVE IInv'
  OBVIOUS
<1>1. InLoop /\ lost' = lost /\ pc = "body"
  BY DEF ByteReturn
<1>2. CASE no_data /\ Throw("UnexpectedEOF")
  <2>1. FrameOK' /\ lost' \in Losses
    BY <1>1, <1>2 DEF Throw, InLoop, IInv, Typed, FrameOK
  <2>. QED
    BY <1>1, <1>2, <2>1, InLoopOK, ThrowOK DEF IInv, Typed
<1>3. CASE ~(no_data /\ Throw("UnexpectedEOF"))
  <2>1. /\ ~no_data /\ out' = Copied(1) /\ pc' = "ret"
        /\ buffer_pos' \in {buffer_pos, buffer_pos + 1}
        /\ UNCHANGED <<allocated, file_pos_of_buffer_start, buffer_size, ret, no_data, want, got,
                       read_over, left>>
    BY <1>3 DEF ByteReturn, Finish, window, transfer
  <2>2. /\ buffer_pos \in Nat /\ buffer_size \in Nat /\ buffer_pos < buffer_size
        /\ buffer_size <= buffer_capacity
    BY <1>1, <2>1 DEF IInv, Typed, BufferOK, Control
  <2>3. buffer' = buffer /\ buffer_capacity' = buffer_capacity /\ call' = call
    BY <1>1 DEF InLoop
  <2>4. FrameOK'
    <3>1. out' \in Seq(Byte)
      BY <2>1, <2>2 DEF Copied, IInv, Typed, BufferOK
    <3>. QED
      BY <2>1, <2>3, <3>1 DEF IInv, Typed, FrameOK
  <2>5. BufferOK'
    BY <2>1, <2>2, <2>3 DEF IInv, Typed, BufferOK
  <2>6. TransferOK' /\ PlaceOK' /\ lost' \in Losses
    BY <1>1, <2>1 DEF IInv, Typed, TransferOK, PlaceOK, PCs
  <2>7. Control'
    BY <2>1, <2>2, <2>3 DEF IInv, Control, Sites
  <2>. QED
    BY <1>1, <2>4, <2>5, <2>6, <2>7, InLoopOK DEF IInv, Typed
<1>. QED
  BY <1>2, <1>3

LEMMA LargeReadOK ==
  ASSUME IInv, LargeRead, left > buffer_capacity, buffer_pos <= buffer_size,
         UNCHANGED <<handle, buffer, buffer_capacity, call>>
  PROVE  TransferOK' /\ BufferOK' /\ PlaceOK' /\ FrameOK' /\ Control'
<1>1. /\ buffer_pos \in Nat /\ buffer_size \in Nat /\ left \in Nat /\ buffer_capacity \in Nat
      /\ Available \in Nat /\ Available <= left /\ buffer_pos + Available <= buffer_size
  BY DEF Available, IInv, Typed, BufferOK, FrameOK
<1>2. /\ out' = out \o Copied(Available) /\ left' = left - Available
      /\ UNCHANGED <<fd, file_size, allocated, file_pos_of_buffer_start, buffer_size, buffer_pos, ret,
                     no_data>>
      /\ \/ /\ fd # NoFile /\ want' = left - Available /\ got' = 0 /\ read_over' = FALSE
            /\ pc' = "bulk"
         \/ pc' = "ret" /\ UNCHANGED <<want, got, read_over>>
  BY DEF LargeRead, FhRead, StartRead, Finish, window, transfer, handle
<1>3. TransferOK'
  <2>1. want' \in Nat /\ got' \in Nat
    BY <1>1, <1>2 DEF IInv, Typed, TransferOK
  <2>2. read_over' \in BOOLEAN
    BY <1>2, Zenon DEF IInv, Typed, TransferOK
  <2>. QED
    BY <2>1, <2>2 DEF TransferOK
<1>4. BufferOK'
  BY <1>2 DEF IInv, Typed, BufferOK
<1>5. PlaceOK'
  BY <1>2 DEF IInv, Typed, PlaceOK, PCs, Sites
<1>6. FrameOK'
  <2>1. out' \in Seq(Byte)
    BY <1>1, <1>2, CopiedOK
  <2>2. left' \in Nat
    BY <1>1, <1>2
  <2>. QED
    BY <2>1, <2>2 DEF IInv, Typed, FrameOK
<1>7. Control'
  BY <1>1, <1>2 DEF IInv, Typed, HandleOK, Control, Sites
<1>. QED
  BY <1>3, <1>4, <1>5, <1>6, <1>7

LEMMA ThrowInLoopOK ==
  ASSUME IInv, NEW e, Throw(e), InLoop
  PROVE  TransferOK' /\ BufferOK' /\ PlaceOK' /\ FrameOK' /\ Control'
<1>1. FrameOK'
  BY DEF Throw, InLoop, IInv, Typed, FrameOK
<1>. QED
  BY <1>1, InLoopOK, ThrowOK

LEMMA ReadBytesLoopIInv == IInv /\ (ReadBytesBody \/ ReadBytesMore) => IInv'
<1> SUFFICES ASSUME IInv, ReadBytesBody \/ ReadBytesMore PROVE IInv'
  OBVIOUS
<1>1. /\ InLoop /\ lost' = lost /\ pc \in {"body", "more"} /\ call.loop = "exact"
      /\ \/ Throw("UnexpectedEOF")
         \/ left > buffer_capacity /\ LargeRead
         \/ CopyThenRefill
  BY DEF ReadBytesBody, ReadBytesMore
<1>2. TransferOK' /\ BufferOK' /\ PlaceOK' /\ FrameOK' /\ Control'
  BY <1>1, InLoopOK, ThrowInLoopOK, LargeReadOK, CopyThenRefillOK
<1>. QED
  BY <1>1, <1>2, InLoopOK DEF IInv, Typed

LEMMA ReadBytesAtMostLoopIInv == IInv /\ (ReadBytesAtMostBody \/ ReadBytesAtMostMore) => IInv'
<1> SUFFICES ASSUME IInv, ReadBytesAtMostBody \/ ReadBytesAtMostMore PROVE IInv'
  OBVIOUS
<1>1. /\ UNCHANGED <<world, handle, buffer, buffer_capacity, is_eof_reached, call, lost>>
      /\ eof_indicator' \in {eof_indicator, TRUE}
      /\ pc \in {"body", "more"} /\ call.loop = "at_most"
      /\ Throw("ok") \/ CopyThenRefill
  BY DEF ReadBytesAtMostBody, ReadBytesAtMostMore, InLoop, flags
<1>2. WorldOK' /\ HandleOK' /\ FlagsOK' /\ lost' \in Losses
  BY <1>1 DEF IInv, Typed, WorldOK, HandleOK, FlagsOK, world, handle
<1>3. buffer_pos <= buffer_size
  BY <1>1 DEF IInv, Typed, BufferOK, Control
<1>4. CASE Throw("ok")
  <2>1. FrameOK'
    BY <1>1, <1>4 DEF Throw, IInv, Typed, FrameOK
  <2>2. UNCHANGED <<fd, buffer, buffer_capacity>> /\ (buffer_pos > buffer_size => file_size' \in Nat)
    BY <1>1, <1>3 DEF handle, IInv, Typed, BufferOK
  <2>. QED
    BY <1>2, <1>4, <2>1, <2>2, ThrowOK DEF IInv, Typed
<1>5. CASE CopyThenRefill
  BY <1>1, <1>2, <1>3, <1>5, CopyThenRefillOK DEF IInv, Typed
<1>. QED
  BY <1>1, <1>4, <1>5

LEMMA DrainMoreIInv == IInv /\ DrainMore => IInv'
<1> SUFFICES ASSUME IInv, DrainMore PROVE IInv'
  OBVIOUS
<1>1. /\ InLoop /\ lost' = lost /\ pc = "more" /\ call.loop = "drain"
      /\ Throw("ok") \/ DrainThenRefill
  BY DEF DrainMore
<1>2. CASE Throw("ok")
  BY <1>1, <1>2, InLoopOK, ThrowInLoopOK DEF IInv, Typed
<1>3. CASE DrainThenRefill
  <2>1. call' = call
    BY <1>1 DEF InLoop
  <2>2. TransferOK' /\ BufferOK' /\ PlaceOK' /\ Control' /\ left' \in Nat /\ out' \in Seq(Byte)
    BY <1>1, <1>3, <2>1, InLoopOK, DrainThenRefillOK
  <2>3. FrameOK'
    BY <2>1, <2>2 DEF IInv, Typed, FrameOK
  <2>. QED
    BY <1>1, <2>2, <2>3, InLoopOK DEF IInv, Typed
<1>. QED
  BY <1>1, <1>2, <1>3

LEMMA BulkReturnIInv == IInv /\ BulkReturn => IInv'
<1> SUFFICES ASSUME IInv, BulkReturn PROVE IInv'
  OBVIOUS
<1>1. InLoop /\ pc = "bulk"
  BY DEF BulkReturn
<1>2. CASE Throw("UnexpectedEOF") /\ Lose(got > 0, "UnexpectedEOF")
  <2>1. lost' \in Losses
    BY <1>2 DEF Lose, Losses, IInv, Typed
  <2>. QED
    BY <1>1, <1>2, <2>1, InLoopOK, ThrowInLoopOK DEF IInv, Typed
<1>3. CASE ~(Throw("UnexpectedEOF") /\ Lose(got > 0, "UnexpectedEOF"))
  <2>1. /\ file_pos_of_buffer_start' = file_pos_of_buffer_start + buffer_size + left
        /\ buffer_pos' = 0 /\ buffer_size' = 0 /\ pc' = "ret"
        /\ UNCHANGED <<allocated, ret, no_data, transfer, left, out, lost, buffer, buffer_capacity, call>>
    BY <1>1, <1>3 DEF BulkReturn, AfterBulk, Finish, InLoop
  <2> USE DEF IInv, Typed, transfer
  <2>2. TransferOK' /\ PlaceOK' /\ FrameOK' /\ lost' \in Losses
    BY <2>1 DEF TransferOK, PlaceOK, PCs, FrameOK
  <2>3. BufferOK'
    BY <2>1 DEF BufferOK, FrameOK
  <2>4. Control'
    BY <2>1 DEF Control, Sites
  <2>. QED
    BY <1>1, <2>2, <2>3, <2>4, InLoopOK
<1>. QED
  BY <1>2, <1>3

LEMMA WholeReturnIInv == IInv /\ WholeReturn => IInv'
<1> SUFFICES ASSUME IInv, WholeReturn PROVE IInv'
  OBVIOUS
<1>1. InLoop /\ pc = "whole"
  BY DEF WholeReturn
<1>2. CASE got # file_size
  <2>1. Throw("OSReportedIncorrectFileSize") /\ Lose(got > 0, "OSReportedIncorrectFileSize")
    BY <1>2 DEF WholeReturn
  <2>2. lost' \in Losses
    BY <2>1 DEF Lose, Losses, IInv, Typed
  <2>. QED
    BY <1>1, <2>1, <2>2, InLoopOK, ThrowInLoopOK DEF IInv, Typed
<1>3. CASE got = file_size
  <2>1. /\ file_pos_of_buffer_start' = got /\ pc' = "ret"
        /\ UNCHANGED <<allocated, buffer_size, buffer_pos, ret, no_data, transfer, left, out, lost,
                       buffer, buffer_capacity, call>>
    BY <1>1, <1>3 DEF WholeReturn, Finish, InLoop
  <2> USE DEF IInv, Typed, transfer
  <2>2. TransferOK' /\ PlaceOK' /\ FrameOK' /\ lost' \in Losses
    BY <2>1 DEF TransferOK, PlaceOK, PCs, FrameOK
  <2>3. BufferOK'
    BY <2>1 DEF BufferOK, TransferOK
  <2>4. Control'
    BY <1>1, <2>1 DEF Control, Sites, BufferOK
  <2>. QED
    BY <1>1, <2>2, <2>3, <2>4, InLoopOK
<1>. QED
  BY <1>2, <1>3

-----------------------------------------------------------------------------
(* Calls that ask for the size of the file first.                          *)

LEMMA BeginOK ==
  ASSUME IInv, NEW op, NEW arg, NEW loop, loop = "skip" => arg \in Int, Begin(op, arg, loop)
  PROVE  /\ pc = "idle" /\ call'.loop = loop /\ call'.arg = arg /\ call'.start \in Nat
         /\ buffer_pos > buffer_size => file_size \in Nat
BY DEF Begin, tell, IInv, Typed, BufferOK, Control

LEMMA FileSizeOK ==
  ASSUME IInv, NEW s \in FileSizeResults
  PROVE  /\ s \in Nat \cup {Unknown, NotRegular}
         /\ file_size \in Nat => s = file_size
         /\ s = NotRegular => file_size \notin Nat
BY DEF FileSizeResults, IInv, Typed, WorldOK, HandleOK, Unknown, NotRegular

(* A call that is over at once.                                            *)
LEMMA OverAtOnce ==
  ASSUME IInv, NEW op, NEW arg, NEW loop, loop = "skip" => arg \in Int, Begin(op, arg, loop),
         NEW e, Throw(e), UNCHANGED <<world, buffer, buffer_capacity, fd>>,
         HandleOK', FlagsOK', lost' \in Losses, file_size \in Nat => file_size' \in Nat
  PROVE  IInv'
<1>1. FrameOK'
  BY BeginOK DEF Throw, IInv, Typed, FrameOK
<1>2. WorldOK'
  BY DEF IInv, Typed, WorldOK, world
<1>3. TransferOK' /\ BufferOK' /\ PlaceOK' /\ Control'
  BY BeginOK, ThrowOK
<1>. QED
  BY <1>1, <1>2, <1>3 DEF IInv, Typed

LEMMA GotFileSizeOK ==
  ASSUME IInv, NEW s \in FileSizeResults, GotFileSize(s)
  PROVE  HandleOK' /\ UNCHANGED fd /\ (file_size \in Nat => file_size' \in Nat)
BY FileSizeOK DEF GotFileSize, IInv, Typed, HandleOK

LEMMA GetFileSizeIInv == IInv /\ GetFileSize => IInv'
<1> SUFFICES ASSUME IInv, GetFileSize PROVE IInv'
  OBVIOUS
<1>1. PICK s \in FileSizeResults : GotFileSize(s) /\ \E e : Throw(e)
  BY DEF GetFileSize
<1>2. PICK e : Throw(e)
  BY <1>1
<1>3. /\ Begin("get_file_size", 0, "none")
      /\ UNCHANGED <<world, buffer, buffer_capacity, flags, lost>>
  BY DEF GetFileSize
<1>4. FlagsOK' /\ lost' \in Losses
  BY <1>3 DEF IInv, Typed, FlagsOK, flags
<1>. QED
  BY <1>1, <1>2, <1>3, <1>4, GotFileSizeOK, OverAtOnce

LEMMA ReadWholeOK ==
  ASSUME IInv, pc = "idle", NEW s \in Nat, ReadWhole(s), buffer_pos = 0, buffer_size = 0,
         UNCHANGED <<fd, buffer, buffer_capacity>>, HandleOK'
  PROVE  TransferOK' /\ BufferOK' /\ PlaceOK' /\ Control' /\ left' \in Nat /\ out' \in Seq(Byte)
<1>1. /\ UNCHANGED <<allocated, file_pos_of_buffer_start, buffer_size, buffer_pos, ret, no_data,
                     left, out>>
      /\ \/ /\ fd # NoFile /\ want' = s /\ got' = 0 /\ read_over' = FALSE
            /\ pc' = "whole"
         \/ pc' = "ret" /\ UNCHANGED <<want, got, read_over>>
  BY DEF ReadWhole, FhRead, StartRead, Finish, window, transfer
<1>2. TransferOK'
  <2>1. want' \in Nat /\ got' \in Nat
    BY <1>1 DEF IInv, Typed, TransferOK
  <2>2. read_over' \in BOOLEAN
    BY <1>1, Zenon DEF IInv, Typed, TransferOK
  <2>. QED
    BY <2>1, <2>2 DEF TransferOK
<1>3. BufferOK' /\ left' \in Nat /\ out' \in Seq(Byte)
  BY <1>1 DEF IInv, Typed, BufferOK, FrameOK
<1>4. PlaceOK'
  BY <1>1 DEF IInv, Typed, PlaceOK, PCs, Sites
<1>5. Control'
  BY <1>1 DEF IInv, Typed, HandleOK, Control, Sites
<1>. QED
  BY <1>2, <1>3, <1>4, <1>5

LEMMA ReadBytesAllIInv == IInv /\ ReadBytesAll => IInv'
<1> SUFFICES ASSUME IInv, ReadBytesAll PROVE IInv'
  OBVIOUS
<1>1. /\ Begin("read_bytes_all", 0, "drain")
      /\ UNCHANGED <<world, buffer, buffer_capacity, flags, lost>>
  BY DEF ReadBytesAll
<1>2. FlagsOK' /\ lost' \in Losses /\ WorldOK'
  BY <1>1 DEF IInv, Typed, FlagsOK, flags, WorldOK, world
<1>3. CASE ~AtBeginning
  <2>1. Throw("ReadBytesMustBeCalledAtTheBeginningOfTheFile") /\ UNCHANGED handle
    BY <1>3 DEF ReadBytesAll
  <2>2. HandleOK' /\ UNCHANGED <<fd, file_size>>
    BY <2>1 DEF IInv, Typed, HandleOK, handle
  <2>. QED
    BY <1>1, <1>2, <2>1, <2>2, OverAtOnce
<1>4. CASE AtBeginning
  <2>1. PICK s \in FileSizeResults :
          /\ GotFileSize(s)
          /\ \/ s = Unknown /\ Throw(FileSizeError)
             \/ s = NotRegular /\ DrainThenRefill
             \/ s >= 0 /\ ReadWhole(s)
    BY <1>4 DEF ReadBytesAll
  <2>2. HandleOK' /\ UNCHANGED fd /\ (file_size \in Nat => file_size' \in Nat)
    BY <2>1, GotFileSizeOK
  <2>3. CASE Throw(FileSizeError)
    BY <1>1, <1>2, <2>2, <2>3, OverAtOnce
  <2>4. buffer_pos = 0 /\ buffer_size = 0
    BY <1>4 DEF AtBeginning
  <2>5. CASE DrainThenRefill
    <3>1. TransferOK' /\ BufferOK' /\ PlaceOK' /\ Control' /\ left' \in Nat /\ out' \in Seq(Byte)
      BY <1>1, <2>2, <2>4, <2>5, BeginOK, DrainThenRefillOK
    <3>. QED
      BY <1>1, <1>2, <2>2, <3>1, BeginOK DEF IInv, Typed, FrameOK
  <2>6. CASE s >= 0 /\ ReadWhole(s)
    <3>1. s \in Nat
      BY <2>6, FileSizeOK DEF Unknown, NotRegular
    <3>2. TransferOK' /\ BufferOK' /\ PlaceOK' /\ Control' /\ left' \in Nat /\ out' \in Seq(Byte)
      BY <1>1, <2>2, <2>4, <2>6, <3>1, BeginOK, ReadWholeOK
    <3>. QED
      BY <1>1, <1>2, <2>2, <3>2, BeginOK DEF IInv, Typed, FrameOK
  <2>. QED
    BY <2>1, <2>3, <2>5, <2>6
<1>. QED
  BY <1>3, <1>4

LEMMA ReadBytesToEndIInv == IInv /\ ReadBytesToEnd => IInv'
<1> SUFFICES ASSUME IInv, ReadBytesToEnd PROVE IInv'
  OBVIOUS
<1>1. UNCHANGED <<world, buffer, buffer_capacity, flags, lost>>
  BY DEF ReadBytesToEnd
<1>2. FlagsOK' /\ lost' \in Losses /\ WorldOK'
  BY <1>1 DEF IInv, Typed, FlagsOK, flags, WorldOK, world
<1>3. PICK s \in FileSizeResults :
        /\ GotFileSize(s)
        /\ \/ Begin("read_bytes_to_end", 0, "none") /\ \E e : Throw(e)
           \/ s = NotRegular /\ Begin("read_bytes_to_end", 0, "drain") /\ DrainThenRefill
           \/ /\ s >= tell
              /\ Begin("read_bytes_to_end", s - tell, "exact")
              /\ left' = s - tell /\ AtEof("body") /\ UNCHANGED out
  BY DEF ReadBytesToEnd
<1>4. HandleOK' /\ UNCHANGED fd /\ (file_size \in Nat => file_size' \in Nat)
  BY <1>3, GotFileSizeOK
<1>5. CASE Begin("read_bytes_to_end", 0, "none") /\ \E e : Throw(e)
  BY <1>1, <1>2, <1>4, <1>5, OverAtOnce
<1>6. CASE s = NotRegular /\ Begin("read_bytes_to_end", 0, "drain") /\ DrainThenRefill
  <2>1. buffer_pos <= buffer_size
    BY <1>6, BeginOK, FileSizeOK DEF IInv, Typed, BufferOK
  <2>2. TransferOK' /\ BufferOK' /\ PlaceOK' /\ Control' /\ left' \in Nat /\ out' \in Seq(Byte)
    BY <1>1, <1>4, <1>6, <2>1, BeginOK, DrainThenRefillOK
  <2>. QED
    BY <1>2, <1>4, <1>6, <2>2, BeginOK DEF IInv, Typed, FrameOK
<1>7. CASE /\ s >= tell
           /\ Begin("read_bytes_to_end", s - tell, "exact")
           /\ left' = s - tell /\ AtEof("body") /\ UNCHANGED out
  <2>1. s - tell \in Nat
    BY <1>7, FileSizeOK DEF tell, IInv, Typed, BufferOK, Unknown, NotRegular
  <2>2. TransferOK' /\ BufferOK' /\ PlaceOK' /\ Control'
    BY <1>1, <1>4, <1>7, <2>1, BeginOK, AtEofOK
  <2>. QED
    BY <1>2, <1>4, <1>7, <2>1, <2>2, BeginOK DEF IInv, Typed, FrameOK
<1>. QED
  BY <1>3, <1>5, <1>6, <1>7

-----------------------------------------------------------------------------
(* seek()                                                                  *)

LEMMA SeekNegativeIInv ==
  ASSUME IInv, NEW p \in Targets, SeekNegative(p)
  PROVE  IInv'
<1>1. /\ Begin("seek", p, "none") /\ Throw("SeekFailed")
      /\ UNCHANGED <<world, handle, buffer, buffer_capacity, flags, lost>>
  BY DEF SeekNegative
<1>2. HandleOK' /\ UNCHANGED <<fd, file_size>> /\ FlagsOK' /\ lost' \in Losses
  BY <1>1 DEF IInv, Typed, HandleOK, handle, FlagsOK, flags
<1>. QED
  BY <1>1, <1>2, IFileAssumption, OverAtOnce

LEMMA SeekWithinBufferIInv ==
  ASSUME IInv, NEW p \in Targets, SeekWithinBuffer(p)
  PROVE  IInv'
<1> USE DEF IInv, Typed
<1>1. /\ p \in Nat /\ InWindow(p) /\ Begin("seek", p, "none") /\ p \in Int
      /\ buffer_pos' = p - file_pos_of_buffer_start
      /\ is_eof_reached' = FALSE /\ eof_indicator' = FALSE /\ pc' = "ret"
      /\ UNCHANGED <<world, handle, transfer, memory, file_pos_of_buffer_start, buffer_size, ret,
                     no_data, left, out, lost>>
  BY IFileAssumption DEF SeekWithinBuffer, ForgetEof, Finish, window
<1>2. WorldOK' /\ HandleOK' /\ TransferOK' /\ FlagsOK' /\ PlaceOK' /\ lost' \in Losses
  BY <1>1 DEF WorldOK, HandleOK, TransferOK, FlagsOK, PlaceOK, PCs, world, handle, transfer
<1>3. FrameOK'
  BY <1>1, BeginOK DEF FrameOK
<1>4. buffer_pos' \in 0 .. buffer_size
  BY <1>1 DEF InWindow, BufferOK
<1>5. BufferOK'
  BY <1>1, <1>4 DEF BufferOK, memory
<1>6. Control'
  BY <1>1, <1>4 DEF BufferOK, Control, Sites, memory
<1>. QED
  BY <1>2, <1>3, <1>5, <1>6

(* A seek reads two chunks at most.                                        *)
LEMMA SeekLengthFits ==
  ASSUME NEW p
  PROVE  SeekLength(p) \in Nat /\ SeekLength(p) <= 2 * SeekChunk
BY IFileAssumption DEF SeekLength

LEMMA SeekForwardOK ==
  ASSUME IInv, NEW p \in Nat, ~InWindow(p), SeekForward(p), Begin("seek", p, "skip"),
         UNCHANGED <<fd, buffer, buffer_capacity>>, HandleOK', file_size \in Nat => file_size' \in Nat
  PROVE  TransferOK' /\ BufferOK' /\ PlaceOK' /\ FrameOK' /\ Control'
<1>1. CASE Throw("FileDoesNotSupportPositioning")
  <2>1. FrameOK'
    BY <1>1, BeginOK DEF Throw, IInv, Typed, FrameOK
  <2>. QED
    BY <1>1, <2>1, BeginOK, ThrowOK
<1>2. CASE p >= tell /\ HasNoDataLeft("more", buffer_size, FALSE) /\ UNCHANGED <<left, out>>
  <2>1. /\ buffer_size \in Nat /\ file_pos_of_buffer_start \in Nat /\ buffer_pos \in Nat
        /\ file_pos_of_buffer_start + buffer_size <= p
    BY <1>2 DEF InWindow, tell, IInv, Typed, BufferOK
  <2>2. FrameOK'
    BY <1>2, BeginOK DEF IInv, Typed, FrameOK
  <2>3. call'.arg = p
    BY BeginOK
  <2>4. HasNoDataLeft("more", buffer_size, FALSE)
    BY <1>2
  <2>5. FALSE \in BOOLEAN /\ ~(buffer_size > buffer_size)
    BY <2>1
  <2>6. TransferOK' /\ BufferOK' /\ PlaceOK' /\ Control'
    BY <2>1, <2>3, <2>4, <2>5, HasNoDataLeftOK
  <2>. QED
    BY <2>2, <2>6
<1>. QED
  BY <1>1, <1>2 DEF SeekForward

LEMMA SeekAndRefillOK ==
  ASSUME IInv, NEW p \in Nat, SeekAndRefill(p), Begin("seek", p, "skip"),
         UNCHANGED <<fd, buffer, buffer_capacity, zero_at>>, file_size' \in Nat
  PROVE  HandleOK' /\ TransferOK' /\ BufferOK' /\ PlaceOK' /\ FrameOK' /\ Control' /\ lost' \in Losses
<1> USE DEF IInv, Typed
<1>1. SeekBase(p) \in Nat
  BY SeekBaseBounds
<1>2. /\ allocated' = TRUE /\ file_pos_of_buffer_start' = SeekBase(p)
      /\ UNCHANGED <<buffer_size, buffer_pos, ret, no_data, left, out>>
      /\ \/ /\ fd # NoFile /\ off' = SeekBase(p) /\ pc' = "refill"
            /\ want' = SeekLength(p) /\ got' = 0 /\ read_over' = FALSE
         \/ pc' = "ret" /\ UNCHANGED <<off, want, got, read_over>>
  BY DEF SeekAndRefill, StartRead, Finish, transfer
<1>3. HandleOK'
  BY <1>1, <1>2 DEF HandleOK
<1>4. TransferOK'
  <2>1. want' \in Nat /\ got' \in Nat
    BY <1>2, SeekLengthFits DEF TransferOK
  <2>2. read_over' \in BOOLEAN
    BY <1>2, Zenon DEF TransferOK
  <2>. QED
    BY <2>1, <2>2 DEF TransferOK
<1>5. BufferOK'
  <2>1. /\ allocated' \in BOOLEAN /\ buffer_capacity' \in Nat
        /\ buffer' \in [0 .. buffer_capacity' - 1 -> Byte \cup {Garbage}]
    BY <1>2 DEF BufferOK
  <2>2. /\ buffer_pos' \in Nat /\ buffer_size' \in 0 .. buffer_capacity'
        /\ \A i \in 0 .. buffer_size' - 1 : buffer'[i] \in Byte
        /\ file_pos_of_buffer_start' \in Nat
    BY <1>1, <1>2 DEF BufferOK
  <2>. QED
    BY <2>1, <2>2 DEF BufferOK
<1>6. PlaceOK'
  BY <1>2 DEF PlaceOK, PCs, Sites
<1>7. FrameOK'
  BY <1>2, BeginOK DEF FrameOK
<1>8. lost' \in Losses
  BY DEF SeekAndRefill, Lose, Losses
<1>9. Control'
  <2>1. call'.arg = p /\ call'.op = "seek"
    BY BeginOK DEF Begin
  <2>2. CASE pc' = "refill" /\ fd # NoFile /\ want' = SeekLength(p) /\ got' = 0
    <3>1. got' <= buffer_capacity /\ got' + want' <= 2 * SeekChunk
      BY <2>2, SeekLengthFits DEF BufferOK
    <3>2. \A i \in 0 .. got' - 1 : buffer'[i] \in Byte
      BY <2>2
    <3>. QED
      BY <1>2, <2>1, <2>2, <3>1, <3>2 DEF Control, BufferOK, HandleOK, Sites
  <2>3. CASE pc' = "ret"
    BY <1>2, <2>3 DEF Control, Sites
  <2>. QED
    BY <1>2, <2>2, <2>3
<1>. QED
  BY <1>3, <1>4, <1>5, <1>6, <1>7, <1>8, <1>9

LEMMA SeekOutsideBufferIInv ==
  ASSUME IInv, NEW p \in Targets, SeekOutsideBuffer(p)
  PROVE  IInv'
<1>1. /\ p \in Nat /\ ~InWindow(p) /\ Begin("seek", p, "skip")
      /\ is_eof_reached' = FALSE /\ eof_indicator' = FALSE
      /\ UNCHANGED <<world, fd, zero_at, buffer, buffer_capacity>>
  BY IFileAssumption DEF SeekOutsideBuffer, ForgetEof
<1>2. PICK s \in FileSizeResults :
        /\ file_size' = s
        /\ \/ (\E e : Throw(e)) /\ UNCHANGED <<off, lost>>
           \/ s = NotRegular /\ SeekForward(p) /\ UNCHANGED <<off, lost>>
           \/ s >= 0 /\ SeekAndRefill(p)
  BY DEF SeekOutsideBuffer
<1>3. FlagsOK' /\ WorldOK' /\ (file_size \in Nat => file_size' \in Nat)
  BY <1>1, <1>2, FileSizeOK DEF IInv, Typed, FlagsOK, WorldOK, world
<1>4. CASE UNCHANGED <<off, lost>>
  <2>1. HandleOK' /\ lost' \in Losses
    BY <1>1, <1>2, <1>4, FileSizeOK DEF IInv, Typed, HandleOK
  <2>2. CASE \E e : Throw(e)
    BY <1>1, <1>3, <2>1, <2>2, OverAtOnce
  <2>3. CASE SeekForward(p)
    BY <1>1, <1>3, <2>1, <2>3, SeekForwardOK DEF IInv, Typed
  <2>4. CASE s >= 0 /\ SeekAndRefill(p)
    <3>1. file_size' \in Nat
      BY <1>2, <2>4, FileSizeOK DEF Unknown, NotRegular
    <3>. QED
      BY <1>1, <1>3, <2>4, <3>1, SeekAndRefillOK DEF IInv, Typed
  <2>. QED
    BY <1>2, <2>2, <2>3, <2>4
<1>5. CASE ~UNCHANGED <<off, lost>>
  <2>1. s >= 0 /\ SeekAndRefill(p)
    BY <1>2, <1>5
  <2>2. file_size' \in Nat
    BY <1>2, <2>1, FileSizeOK DEF Unknown, NotRegular
  <2>. QED
    BY <1>1, <1>3, <2>1, <2>2, SeekAndRefillOK DEF IInv, Typed
<1>. QED
  BY <1>4, <1>5

LEMMA RefillReturnIInv == IInv /\ RefillReturn => IInv'
<1> SUFFICES ASSUME IInv, RefillReturn PROVE IInv'
  OBVIOUS
<1> USE DEF RefillReturn, Finish, IInv, Typed, world, handle, transfer, memory
<1>1. WorldOK' /\ HandleOK' /\ TransferOK' /\ FlagsOK' /\ FrameOK' /\ PlaceOK' /\ lost' \in Losses
  BY DEF WorldOK, HandleOK, TransferOK, FlagsOK, FrameOK, PlaceOK, PCs, Losses
<1>2. buffer_pos' \in Nat
  BY SeekBaseBounds DEF Control
<1>3. BufferOK'
  BY <1>2 DEF BufferOK, Control, TransferOK
<1>4. Control'
  BY DEF Control, Sites
<1>. QED
  BY <1>1, <1>3, <1>4

LEMMA SeekMoreIInv == IInv /\ SeekMore => IInv'
<1> SUFFICES ASSUME IInv, SeekMore PROVE IInv'
  OBVIOUS
<1>1. InLoop /\ lost' = lost /\ pc = "more" /\ call.loop = "skip"
  BY DEF SeekMore
<1>2. /\ file_pos_of_buffer_start <= call.arg /\ buffer_size \in Nat
      /\ file_pos_of_buffer_start \in Nat /\ call.arg \in Int
  BY <1>1 DEF IInv, Typed, BufferOK, FrameOK, Control
<1>3. CASE /\ BeyondWindow /\ HasNoDataLeft("more", buffer_size, is_eof_reached)
           /\ UNCHANGED <<left, out>>
  <2>1. call' = call /\ file_pos_of_buffer_start + buffer_size <= call.arg
    BY <1>1, <1>2, <1>3 DEF BeyondWindow, InLoop
  <2>2. TransferOK' /\ BufferOK' /\ PlaceOK' /\ Control'
    BY <1>1, <1>2, <1>3, <2>1, InLoopOK, HasNoDataLeftOK DEF IInv, Typed, FlagsOK
  <2>3. FrameOK'
    BY <1>3, <2>1 DEF IInv, Typed, FrameOK
  <2>. QED
    BY <1>1, <2>2, <2>3, InLoopOK DEF IInv, Typed
<1>4. CASE Throw("SeekFailed")
  BY <1>1, <1>4, InLoopOK, ThrowInLoopOK DEF IInv, Typed
<1>5. CASE /\ ~BeyondWindow /\ buffer_pos' = call.arg - file_pos_of_buffer_start /\ Finish("ok")
           /\ UNCHANGED <<allocated, window, ret, no_data, transfer, left, out>>
  <2>1. /\ buffer_pos' \in 0 .. buffer_size /\ pc' = "ret"
        /\ UNCHANGED <<allocated, file_pos_of_buffer_start, buffer_size, ret, no_data, transfer,
                       left, out, buffer, buffer_capacity, call>>
    BY <1>1, <1>2, <1>5 DEF BeyondWindow, Finish, window, InLoop
  <2> USE DEF IInv, Typed
  <2>2. TransferOK' /\ PlaceOK' /\ FrameOK' /\ lost' \in Losses
    BY <1>1, <2>1 DEF TransferOK, PlaceOK, PCs, FrameOK, transfer
  <2>3. BufferOK'
    BY <2>1 DEF BufferOK
  <2>4. Control'
    BY <2>1 DEF Control, Sites, BufferOK
  <2>. QED
    BY <1>1, <2>2, <2>3, <2>4, InLoopOK
<1>. QED
  BY <1>3, <1>4, <1>5 DEF SeekMore

-----------------------------------------------------------------------------
(* open(), close(), set_buffer_size()                                      *)

LEMMA OpenIInv ==
  ASSUME IInv, NEW f \in Files, Open(f)
  PROVE  IInv'
<1>1. /\ Begin("open", 0, "none") /\ \E e : Throw(e)
      /\ fd' \in {fd, f} /\ off' \in {off, 0} /\ zero_at' \in {zero_at, -1} /\ file_size' = file_size
      /\ fd' = fd => UNCHANGED handle \/ fd = f
      /\ UNCHANGED <<world, buffer, buffer_capacity, flags, lost>>
  BY DEF Open, OpenHandle, handle
<1>2. HandleOK' /\ FlagsOK' /\ WorldOK' /\ lost' \in Losses
  BY <1>1 DEF IInv, Typed, HandleOK, FlagsOK, flags, WorldOK, world
<1>3. PICK e : Throw(e)
  BY <1>1
<1>4. FrameOK'
  BY <1>1, <1>3, BeginOK DEF Throw, IInv, Typed, FrameOK
<1>5. /\ UNCHANGED <<allocated, file_pos_of_buffer_start, buffer_size, buffer_pos, ret, no_data,
                    transfer, buffer, buffer_capacity, file_size>>
      /\ pc' = "ret"
  BY <1>1, <1>3 DEF Throw, Finish, window
<1>6. TransferOK' /\ BufferOK' /\ PlaceOK'
  BY <1>5 DEF IInv, Typed, TransferOK, BufferOK, PlaceOK, PCs, transfer
<1>7. Control'
  BY <1>5 DEF IInv, Control, Sites
<1>. QED
  BY <1>2, <1>4, <1>6, <1>7 DEF IInv, Typed

LEMMA CloseIInv == IInv /\ Close => IInv'
<1> SUFFICES ASSUME IInv, Close PROVE IInv'
  OBVIOUS
<1>1. /\ Begin("close", 0, "none")
      /\ fd' = NoFile /\ off' = 0 /\ zero_at' = -1 /\ file_size' = file_size
      /\ buffer_pos' = 0 /\ buffer_size' = 0 /\ file_pos_of_buffer_start' = 0
      /\ is_eof_reached' = FALSE /\ eof_indicator' = FALSE /\ lost' = "none" /\ pc' = "ret"
      /\ UNCHANGED <<world, transfer, memory, ret, no_data, left, out>>
  BY DEF Close, CloseHandle, ResetWindow, Finish
<1>2. WorldOK' /\ HandleOK' /\ FlagsOK' /\ lost' \in Losses
  BY <1>1 DEF IInv, Typed, WorldOK, world, HandleOK, FlagsOK, Losses
<1>3. TransferOK' /\ PlaceOK'
  BY <1>1 DEF IInv, Typed, TransferOK, transfer, PlaceOK, PCs
<1>4. BufferOK'
  BY <1>1 DEF IInv, Typed, BufferOK, memory
<1>5. FrameOK'
  BY <1>1, BeginOK DEF IInv, Typed, FrameOK
<1>6. Control'
  BY <1>1 DEF IInv, Typed, Control, Sites, memory
<1>. QED
  BY <1>2, <1>3, <1>4, <1>5, <1>6 DEF IInv, Typed

LEMMA SetBufferSizeIInv ==
  ASSUME IInv, NEW c \in Capacities, SetBufferSize(c)
  PROVE  IInv'
<1> USE DEF IInv, Typed
<1>1. /\ Begin("set_buffer_size", 0, "none") /\ pc' = "ret"
      /\ UNCHANGED <<world, handle, transfer, allocated, file_pos_of_buffer_start, buffer_size,
                     buffer_pos, flags, ret, no_data, left, out, lost>>
      /\ \/ UNCHANGED <<buffer, buffer_capacity>>
         \/ ~allocated /\ buffer_capacity' = c /\ buffer' = [i \in 0 .. c - 1 |-> Garbage]
  BY DEF SetBufferSize, Finish, window
<1>2. WorldOK' /\ HandleOK' /\ TransferOK' /\ FlagsOK' /\ PlaceOK' /\ lost' \in Losses
  BY <1>1 DEF WorldOK, world, HandleOK, handle, TransferOK, transfer, FlagsOK, flags, PlaceOK, PCs
<1>3. FrameOK'
  BY <1>1, BeginOK DEF FrameOK
<1>4. c \in Nat
  BY IFileAssumption
<1>5. CASE UNCHANGED <<buffer, buffer_capacity>>
  <2>1. BufferOK'
    BY <1>1, <1>5 DEF BufferOK
  <2>2. Control'
    BY <1>1, <1>5 DEF Control, Sites, handle
  <2>. QED
    BY <1>2, <1>3, <2>1, <2>2
<1>6. CASE ~allocated /\ buffer_capacity' = c /\ buffer' = [i \in 0 .. c - 1 |-> Garbage]
  <2>1. buffer_size = 0
    BY <1>6 DEF Control
  <2>2. buffer' \in [0 .. c - 1 -> Byte \cup {Garbage}]
    BY <1>6
  <2>3. BufferOK'
    BY <1>1, <1>4, <1>6, <2>1, <2>2 DEF BufferOK
  <2>4. Control'
    BY <1>1, <1>4, <1>6, <2>1 DEF Control, Sites, handle
  <2>. QED
    BY <1>2, <1>3, <2>3, <2>4
<1>. QED
  BY <1>1, <1>5, <1>6

-----------------------------------------------------------------------------

LEMMA StutterIInv == IInv /\ UNCHANGED vars => IInv'
BY DEF vars, world, handle, transfer, memory, window, flags, frame, IInv, Typed, WorldOK, HandleOK,
       TransferOK, BufferOK, FlagsOK, PlaceOK, FrameOK, Control

LEMMA CallIInv == IInv /\ Call => IInv'
<1> SUFFICES ASSUME IInv, Call PROVE IInv'
  OBVIOUS
<1>1. CASE AtEofCall \/ PeekByte \/ ReadByte \/ \E n \in Counts : ReadBytes(n) \/ ReadBytesAtMost(n)
  BY <1>1, CallsAtEofIInv
<1>2. CASE ReadBytesAll \/ ReadBytesToEnd
  BY <1>2, ReadBytesAllIInv, ReadBytesToEndIInv
<1>3. CASE \E p \in Targets : Seek(p)
  BY <1>3, SeekNegativeIInv, SeekWithinBufferIInv, SeekOutsideBufferIInv DEF Seek
<1>4. CASE \E f \in Files : Open(f)
  BY <1>4, OpenIInv
<1>5. CASE Close \/ GetFileSize
  BY <1>5, CloseIInv, GetFileSizeIInv
<1>6. CASE \E c \in Capacities : SetBufferSize(c)
  BY <1>6, SetBufferSizeIInv
<1>. QED
  BY <1>1, <1>2, <1>3, <1>4, <1>5, <1>6 DEF Call

LEMMA StepIInv == IInv /\ Step => IInv'
<1> SUFFICES ASSUME IInv, Step PROVE IInv'
  OBVIOUS
<1>1. CASE ReadIntoBuffer \/ ReadIntoCaller \/ ReadFails
  BY <1>1, ReadIntoBufferIInv, ReadIntoCallerIInv, ReadFailsIInv
<1>2. CASE FillReturn \/ RefillReturn \/ BulkReturn \/ WholeReturn
  BY <1>2, FillReturnIInv, RefillReturnIInv, BulkReturnIInv, WholeReturnIInv
<1>3. CASE AtEofReturn \/ ByteReturn
  BY <1>3, AtEofReturnIInv, ByteReturnIInv
<1>4. CASE ReadBytesBody \/ ReadBytesMore
  BY <1>4, ReadBytesLoopIInv
<1>5. CASE ReadBytesAtMostBody \/ ReadBytesAtMostMore
  BY <1>5, ReadBytesAtMostLoopIInv
<1>6. CASE DrainMore \/ SeekMore \/ Take
  BY <1>6, DrainMoreIInv, SeekMoreIInv, TakeIInv
<1>. QED
  BY <1>1, <1>2, <1>3, <1>4, <1>5, <1>6 DEF Step

LEMMA NextIInv == IInv /\ [Next]_vars => IInv'
BY StutterIInv, CallIInv, StepIInv, WorldIInv DEF Next

(* IInv is an invariant of IFile: what each step of has_no_data_left(), of *)
(* seek() and of the reading loops relies on (IFile.hpp:50-202, 413-523).  *)
THEOREM Invariance == Spec => []IInv
BY InitIInv, NextIInv, PTL DEF Spec

(* The frame names a call of IFile.                                        *)
Named == call \in [op : Ops, arg : Int, loop : Loops, start : Nat]

LEMMA InitNamed == Init => Named
BY DEF Init, Named, NoCall, Ops, Loops

LEMMA BeginNamed ==
  ASSUME IInv, NEW op \in Ops, NEW arg \in Int, NEW loop \in Loops, Begin(op, arg, loop)
  PROVE  Named'
BY DEF Begin, tell, IInv, Typed, BufferOK, Named

LEMMA CallNamed == ASSUME IInv, Call PROVE Named'
<1>1. CASE AtEofCall \/ PeekByte \/ ReadByte \/ \E n \in Counts : ReadBytes(n) \/ ReadBytesAtMost(n)
  <2>1. \E arg \in Counts \cup {0} : \E op \in Ops, loop \in Loops : Begin(op, arg, loop)
    BY <1>1 DEF AtEofCall, PeekByte, ReadByte, ReadBytes, ReadBytesAtMost, CallAtEof, Ops, Loops
  <2>. QED
    BY <2>1, BeginNamed, IFileAssumption
<1>2. CASE ReadBytesAll \/ GetFileSize \/ Close
             \/ (\E f \in Files : Open(f)) \/ \E c \in Capacities : SetBufferSize(c)
  <2>1. \E op \in Ops, loop \in Loops : Begin(op, 0, loop)
    BY <1>2 DEF ReadBytesAll, GetFileSize, Close, Open, SetBufferSize, Ops, Loops
  <2>. QED
    BY <2>1, BeginNamed
<1>3. CASE ReadBytesToEnd
  <2>1. PICK s \in FileSizeResults :
          \E loop \in Loops : \/ Begin("read_bytes_to_end", 0, loop)
                             \/ Begin("read_bytes_to_end", s - tell, loop)
    BY <1>3 DEF ReadBytesToEnd, Loops
  <2>2. s - tell \in Int
    BY FileSizeOK DEF tell, IInv, Typed, BufferOK, Unknown, NotRegular
  <2>. QED
    BY <2>1, <2>2, BeginNamed DEF Ops
<1>4. CASE \E p \in Targets : Seek(p)
  <2>1. \E p \in Targets, loop \in Loops : Begin("seek", p, loop)
    BY <1>4 DEF Seek, SeekNegative, SeekWithinBuffer, SeekOutsideBuffer, Loops
  <2>. QED
    BY <2>1, BeginNamed, IFileAssumption DEF Ops
<1>. QED
  BY <1>1, <1>2, <1>3, <1>4 DEF Call

LEMMA StepNamed == ASSUME Named, Step PROVE Named'
<1>1. UNCHANGED call \/ call' = NoCall
  BY DEF Step, ReadIntoBuffer, ReadIntoCaller, ReadFails, FillReturn, RefillReturn, BulkReturn,
     WholeReturn, AtEofReturn, ByteReturn, ReadBytesBody, ReadBytesMore, ReadBytesAtMostBody,
     ReadBytesAtMostMore, DrainMore, SeekMore, Take, InLoop, frame
<1>. QED
  BY <1>1 DEF Named, NoCall, Ops, Loops

LEMMA NextNamed == IInv /\ Named /\ [Next]_vars => Named'
BY CallNamed, StepNamed DEF Next, World, vars, frame, Named

(* For any files, however many the object is opened on and whatever reads  *)
(* fail: the window stays inside the buffer and only bytes that read(2)    *)
(* has delivered are ever copied out of it.                                *)
THEOREM TypeCorrect == Spec => []TypeOK
<1>1. IInv /\ Named => TypeOK
  BY DEF IInv, Typed, FrameOK, Named, TypeOK, CallOK
<1>. QED
  BY <1>1, Invariance, InitNamed, NextNamed, PTL DEF Spec

(* Whatever set_buffer_size() was given, has_no_data_left() never reads    *)
(* more than the buffer has room for, and only a seek through a buffer     *)
(* smaller than two chunks writes beyond its end (IFile.hpp:64, 136-141,   *)
(* 192-197).                                                               *)
THEOREM NoOverrun == Spec => []FillFitsBuffer
<1>1. IInv => FillFitsBuffer
  BY DEF IInv, Control, FillFitsBuffer
<1>. QED
  BY <1>1, Invariance, PTL

-----------------------------------------------------------------------------
(* The window of the buffer agrees with the kernel: any number of files,   *)
(* opened one after the other, that grow at any time.                      *)

(* What Coherent needs to be inductive: a bulk read asks for what the call *)
(* has left to deliver, and a file is read whole from its beginning only.  *)
Transfers ==
  /\ pc = "bulk" => got + want = left
  /\ pc = "whole" => file_pos_of_buffer_start = 0 /\ buffer_pos = 0 /\ buffer_size = 0

CInv == Coherent /\ Transfers

Resting == {"idle", "body", "more"}

LEMMA InitCInv == Init => CInv
BY DEF Init, HandleInit, CInv, Coherent, Transfers, Holds, torn, tell

LEMMA Resting1 ==
  ASSUME CInv, pc \in Resting, ~torn
  PROVE  /\ Holds(buffer_size) /\ off = file_pos_of_buffer_start + buffer_size
         /\ fd = NoFile => tell = 0 /\ buffer_size = 0
BY DEF CInv, Coherent, Resting

(* A step to a place where no transfer runs.                               *)
LEMMA RestCInv ==
  ASSUME pc' \in Resting \cup {"ret"},
         ~torn' => /\ Holds(buffer_size)' /\ off' = file_pos_of_buffer_start' + buffer_size'
                   /\ fd' = NoFile => tell' = 0 /\ buffer_size' = 0
  PROVE  CInv'
BY DEF CInv, Coherent, Transfers, Resting

LEMMA ThrowCInv ==
  ASSUME IInv, CInv, NEW e, Throw(e), pc \in Resting, UNCHANGED <<fd, off, buffer, lost>>
  PROVE  CInv'
<1>1. /\ UNCHANGED <<file_pos_of_buffer_start, buffer_size, buffer_pos>> /\ pc' = "ret"
  BY DEF Throw, Finish, window
<1>2. torn' = torn /\ tell' = tell /\ (Holds(buffer_size)' <=> Holds(buffer_size))
  BY <1>1 DEF torn, tell, Holds
<1>. QED
  BY <1>1, <1>2, Resting1, RestCInv

LEMMA HasNoDataLeftCInv ==
  ASSUME IInv, CInv, NEW next \in {"body", "more"}, NEW bp \in Nat, NEW at_end \in BOOLEAN,
         HasNoDataLeft(next, bp, at_end), pc \in Resting, UNCHANGED <<fd, off, buffer, lost>>,
         ~torn /\ fd = NoFile => bp = 0
  PROVE  CInv'
<1> USE DEF HasNoDataLeft
<1>0. /\ torn' = torn /\ buffer_size \in Nat /\ file_pos_of_buffer_start \in Nat /\ buffer_pos \in Nat
  BY DEF torn, IInv, Typed, BufferOK
<1>1. CASE bp = buffer_size /\ at_end
  <2>1. /\ file_pos_of_buffer_start' = file_pos_of_buffer_start + buffer_size
        /\ buffer_pos' = 0 /\ buffer_size' = 0 /\ pc' = next
    BY <1>1
  <2>. QED
    BY <1>0, <2>1, Resting1, RestCInv DEF Holds, tell, Resting
<1>2. CASE bp = buffer_size /\ ~at_end
  <2>1. /\ file_pos_of_buffer_start' = file_pos_of_buffer_start + buffer_size
        /\ buffer_pos' = buffer_size /\ buffer_size' = buffer_size
        /\ \/ fd # NoFile /\ got' = 0 /\ pc' = "fill"
           \/ fd = NoFile /\ pc' = "ret"
    BY <1>2 DEF FhRead, StartRead, Finish
  <2>2. CASE pc' = "fill"
    BY <1>0, <2>1, <2>2, Resting1 DEF CInv, Coherent, Transfers, Holds, tell
  <2>3. CASE pc' = "ret"
    <3>1. fd = NoFile
      BY <2>1, <2>3
    <3>2. ~torn => /\ buffer_size = 0 /\ tell = 0 /\ off = file_pos_of_buffer_start + buffer_size
      BY <3>1, Resting1
    <3>3. ~torn => file_pos_of_buffer_start = 0
      BY <1>0, <3>2 DEF tell
    <3>4. ~torn' => buffer_size' = 0 /\ tell' = 0 /\ off' = file_pos_of_buffer_start' + buffer_size'
      BY <1>0, <2>1, <3>2, <3>3 DEF tell
    <3>5. ~torn' => Holds(buffer_size)'
      BY <3>4 DEF Holds
    <3>. QED
      BY <2>3, <3>4, <3>5, RestCInv
  <2>. QED
    BY <2>1, <2>2, <2>3
<1>3. CASE bp # buffer_size
  <2>1. UNCHANGED <<file_pos_of_buffer_start, buffer_size>> /\ buffer_pos' = bp /\ pc' = "aborted"
    BY <1>3 DEF window
  <2>. QED
    BY <1>0, <2>1, Resting1 DEF CInv, Coherent, Transfers, Holds, tell
<1>. QED
  BY <1>1, <1>2, <1>3

LEMMA AtEofCInv ==
  ASSUME IInv, CInv, AtEof("body"), pc \in Resting, UNCHANGED <<fd, off, buffer, lost>>
  PROVE  CInv'
<1>1. buffer_pos \in Nat /\ buffer_size \in Nat /\ is_eof_reached \in BOOLEAN
      /\ file_pos_of_buffer_start \in Nat
  BY DEF IInv, Typed, BufferOK, FlagsOK
<1>2. CASE buffer_pos < buffer_size
  <2>1. UNCHANGED <<file_pos_of_buffer_start, buffer_size, buffer_pos>> /\ pc' = "body"
    BY <1>1, <1>2 DEF AtEof, window
  <2>2. torn' = torn /\ tell' = tell /\ (Holds(buffer_size)' <=> Holds(buffer_size))
    BY <2>1 DEF torn, tell, Holds
  <2>. QED
    BY <2>1, <2>2, Resting1, RestCInv DEF Resting
<1>3. CASE buffer_pos >= buffer_size
  <2>1. HasNoDataLeft("body", buffer_pos, is_eof_reached)
    BY <1>1, <1>3 DEF AtEof
  <2>2. ~torn /\ fd = NoFile => buffer_pos = 0
    BY <1>1, Resting1 DEF tell
  <2>. QED
    BY <1>1, <2>1, <2>2, HasNoDataLeftCInv
<1>. QED
  BY <1>1, <1>2, <1>3

LEMMA CopyThenRefillCInv ==
  ASSUME IInv, CInv, CopyThenRefill, pc \in {"body", "more"}, UNCHANGED <<fd, off, buffer, lost>>
  PROVE  CInv'
<1> DEFINE n == IF Available < left THEN Available ELSE left
<1>1. /\ buffer_pos \in Nat /\ buffer_size \in Nat /\ left \in Nat /\ file_pos_of_buffer_start \in Nat
      /\ buffer_pos <= buffer_size
      /\ n \in Nat /\ buffer_pos + n <= buffer_size /\ is_eof_reached \in BOOLEAN
  BY DEF Available, IInv, Typed, BufferOK, FrameOK, FlagsOK, Control
<1>2. pc \in Resting
  BY DEF Resting
<1>3. CASE left = n
  <2>1. /\ buffer_pos' = buffer_pos + n /\ pc' = "ret"
        /\ UNCHANGED <<file_pos_of_buffer_start, buffer_size>>
    BY <1>1, <1>3 DEF CopyThenRefill, Finish, window
  <2> HIDE DEF n
  <2>2. torn' = torn /\ (Holds(buffer_size)' <=> Holds(buffer_size))
    BY <2>1 DEF torn, Holds
  <2>3. ~torn /\ fd = NoFile => tell' = 0
    BY <1>1, <1>2, <2>1, Resting1 DEF tell
  <2>. QED
    BY <1>2, <2>1, <2>2, <2>3, Resting1, RestCInv
<1>4. CASE left # n
  <2>1. HasNoDataLeft("more", buffer_pos + n, is_eof_reached)
    BY <1>4 DEF CopyThenRefill
  <2> HIDE DEF n
  <2>2. ~torn /\ fd = NoFile => buffer_pos + n = 0
    BY <1>1, <1>2, Resting1
  <2>. QED
    BY <1>1, <1>2, <2>1, <2>2, HasNoDataLeftCInv
<1>. QED
  BY <1>3, <1>4

LEMMA DrainThenRefillCInv ==
  ASSUME IInv, CInv, DrainThenRefill, pc \in Resting, UNCHANGED <<fd, off, buffer, lost>>
  PROVE  CInv'
<1>1. HasNoDataLeft("more", buffer_size, is_eof_reached)
  BY DEF DrainThenRefill
<1>2. buffer_size \in Nat /\ is_eof_reached \in BOOLEAN
  BY DEF IInv, Typed, BufferOK, FlagsOK
<1>3. ~torn /\ fd = NoFile => buffer_size = 0
  BY Resting1
<1>. QED
  BY <1>1, <1>2, <1>3, HasNoDataLeftCInv

-----------------------------------------------------------------------------
(* The steps that are not calls' own.                                      *)

(* A step that moves nothing the agreement is about.                       *)
LEMMA StillCInv ==
  ASSUME CInv, UNCHANGED <<fd, off, buffer, file_pos_of_buffer_start, buffer_size, buffer_pos, pc,
                           got, want, left, call, lost>>
  PROVE  CInv'
BY DEF CInv, Coherent, Transfers, Holds, torn, tell

LEMMA WorldCInv == CInv /\ World => CInv'
BY StillCInv DEF World, handle, transfer, memory, window, frame

LEMMA TakeCInv == CInv /\ Take => CInv'
<1> SUFFICES ASSUME CInv, Take PROVE CInv'
  OBVIOUS
<1>1. /\ pc = "ret" /\ pc' = "idle"
      /\ UNCHANGED <<fd, off, buffer, file_pos_of_buffer_start, buffer_size, buffer_pos, lost>>
  BY DEF Take, handle, memory, window
<1>2. torn' = torn /\ tell' = tell /\ (Holds(buffer_size)' <=> Holds(buffer_size))
  BY <1>1 DEF torn, tell, Holds
<1>. QED
  BY <1>1, <1>2, RestCInv DEF CInv, Coherent, Resting

LEMMA ReadIntoBufferCInv == IInv /\ CInv /\ ReadIntoBuffer => CInv'
<1> SUFFICES ASSUME IInv, CInv, ReadIntoBuffer PROVE CInv'
  OBVIOUS
<1>. PICK r \in SysReadResults :
      /\ SysRead(r)
      /\ buffer' = [i \in DOMAIN buffer |->
                      IF got <= i /\ i < got + r THEN <<fd, off + i - got>> ELSE buffer[i]]
      /\ pc' = IF got + r <= buffer_capacity THEN pc ELSE "overrun"
  BY DEF ReadIntoBuffer
<1>1. /\ pc \in {"fill", "refill"} /\ off' = off + r /\ got' = got + r
      /\ UNCHANGED <<fd, call, file_pos_of_buffer_start, buffer_size, buffer_pos, lost>>
  BY DEF ReadIntoBuffer, SysRead, window
<1>2. /\ r \in Nat /\ got \in Nat /\ off \in Nat /\ file_pos_of_buffer_start \in Nat
      /\ DOMAIN buffer = 0 .. buffer_capacity - 1 /\ buffer_capacity \in Nat
  <2>1. r \in 0 .. want
    BY <1>1, SysReadCount DEF Sites
  <2>2. want \in Nat /\ got \in Nat /\ buffer_capacity \in Nat
    BY DEF IInv, Typed, TransferOK, BufferOK
  <2>. QED
    BY <2>1, <2>2 DEF IInv, Typed, HandleOK, BufferOK
<1>3. ASSUME Holds(got), off = file_pos_of_buffer_start + got, got + r <= buffer_capacity
      PROVE  Holds(got)' /\ off' = file_pos_of_buffer_start' + got'
  <2>1. ASSUME NEW i \in 0 .. got' - 1
        PROVE  buffer'[i] = <<fd, file_pos_of_buffer_start + i>>
    <3>1. i \in DOMAIN buffer /\ i \in Int
      BY <1>1, <1>2, <1>3, <2>1
    <3>2. CASE i < got
      BY <1>2, <1>3, <3>1, <3>2, <2>1 DEF Holds
    <3>3. CASE got <= i
      <4>1. i < got + r /\ off + i - got = file_pos_of_buffer_start + i
        BY <1>1, <1>2, <1>3, <2>1, <3>1
      <4>. QED
        BY <3>1, <3>3, <4>1
    <3>. QED
      BY <1>2, <3>1, <3>2, <3>3
  <2>2. Holds(got)'
    BY <1>1, <2>1 DEF Holds
  <2>. QED
    BY <1>1, <1>2, <1>3, <2>2
<1>4. torn' = torn /\ tell' = tell
  BY <1>1 DEF torn, tell
<1>5. CASE got + r <= buffer_capacity
  BY <1>1, <1>3, <1>4, <1>5 DEF CInv, Coherent, Transfers, SeekBase
<1>6. CASE ~(got + r <= buffer_capacity)
  BY <1>1, <1>4, <1>6 DEF CInv, Coherent, Transfers
<1>. QED
  BY <1>5, <1>6

LEMMA ReadIntoCallerCInv == IInv /\ CInv /\ ReadIntoCaller => CInv'
<1> SUFFICES ASSUME IInv, CInv, ReadIntoCaller PROVE CInv'
  OBVIOUS
<1>. PICK r \in SysReadResults : SysRead(r)
  BY DEF ReadIntoCaller
<1>1. /\ pc \in {"bulk", "whole"} /\ off' = off + r /\ got' = got + r /\ want' = want - r
      /\ UNCHANGED <<fd, pc, left, buffer, file_pos_of_buffer_start, buffer_size, buffer_pos, lost>>
  BY DEF ReadIntoCaller, SysRead, window, memory
<1>2. r \in 0 .. want /\ want \in Nat /\ got \in Nat /\ off \in Nat
      /\ file_pos_of_buffer_start \in Nat /\ buffer_size \in Nat
  BY <1>1, SysReadCount DEF Sites, IInv, Typed, HandleOK, TransferOK, BufferOK
<1>3. torn' = torn /\ tell' = tell /\ (Holds(buffer_size)' <=> Holds(buffer_size))
  BY <1>1 DEF torn, tell, Holds
<1>. QED
  BY <1>1, <1>2, <1>3 DEF CInv, Coherent, Transfers

(* Where a read fails, the object is out of step unless nothing has moved. *)
LEMMA ReadFailsCInv == IInv /\ CInv /\ ReadFails => CInv'
<1> SUFFICES ASSUME IInv, CInv, ReadFails PROVE CInv'
  OBVIOUS
<1>1. /\ pc \in Sites /\ pc' = "ret" /\ fd \in Files
      /\ UNCHANGED <<fd, off, buffer, file_pos_of_buffer_start, buffer_size, buffer_pos>>
      /\ Lose(got > 0 \/ pc = "refill" \/ (pc = "fill" /\ buffer_size > 0), "IOError")
  BY DEF ReadFails, Finish, handle, memory, window, IInv, Control
<1>2. fd # NoFile
  BY <1>1, FilesAssumption
<1>3. CASE torn
  BY <1>1, <1>3, RestCInv DEF Lose, torn
<1>4. CASE ~torn /\ (got > 0 \/ pc = "refill" \/ (pc = "fill" /\ buffer_size > 0))
  BY <1>1, <1>4, RestCInv DEF Lose, torn
<1>5. CASE ~torn /\ ~(got > 0 \/ pc = "refill" \/ (pc = "fill" /\ buffer_size > 0))
  <2>1. got = 0 /\ buffer_size \in Nat /\ pc \in {"fill", "bulk", "whole"}
        /\ file_pos_of_buffer_start \in Nat /\ (pc = "fill" => buffer_size = 0)
    BY <1>1, <1>5 DEF Sites, IInv, Typed, TransferOK, BufferOK
  <2>2. Holds(buffer_size) /\ off = file_pos_of_buffer_start + buffer_size
    BY <1>5, <2>1 DEF CInv, Coherent, Transfers, Holds
  <2>3. Holds(buffer_size)' <=> Holds(buffer_size)
    BY <1>1 DEF Holds
  <2>. QED
    BY <1>1, <1>2, <2>2, <2>3, RestCInv
<1>. QED
  BY <1>3, <1>4, <1>5

LEMMA FillReturnCInv == IInv /\ CInv /\ FillReturn => CInv'
<1> SUFFICES ASSUME IInv, CInv, FillReturn PROVE CInv'
  OBVIOUS
<1>1. /\ pc = "fill" /\ pc' \in {"body", "more"} /\ buffer_size' = got /\ fd \in Files
      /\ UNCHANGED <<fd, off, buffer, file_pos_of_buffer_start, lost>>
  BY DEF FillReturn, handle, memory, IInv, Typed, PlaceOK, Control, Sites
<1>2. torn' = torn /\ (Holds(buffer_size)' <=> Holds(got)) /\ fd # NoFile
  BY <1>1, FilesAssumption DEF torn, Holds
<1>. QED
  BY <1>1, <1>2, RestCInv DEF CInv, Coherent, Resting

LEMMA RefillReturnCInv == IInv /\ CInv /\ RefillReturn => CInv'
<1> SUFFICES ASSUME IInv, CInv, RefillReturn PROVE CInv'
  OBVIOUS
<1>1. /\ pc = "refill" /\ pc' = "ret" /\ buffer_size' = got /\ fd \in Files
      /\ UNCHANGED <<fd, off, buffer, file_pos_of_buffer_start>>
  BY DEF RefillReturn, Finish, handle, memory, IInv, Control, Sites
<1>2. (Holds(buffer_size)' <=> Holds(got)) /\ fd # NoFile
  BY <1>1, FilesAssumption DEF Holds
<1>. QED
  BY <1>1, <1>2, RestCInv DEF CInv, Coherent

-----------------------------------------------------------------------------
(* Inside a call.                                                          *)

LEMMA InLoopSame ==
  ASSUME InLoop
  PROVE  UNCHANGED <<fd, off, buffer>>
BY DEF InLoop, handle

LEMMA BulkReturnCInv == IInv /\ CInv /\ BulkReturn => CInv'
<1> SUFFICES ASSUME IInv, CInv, BulkReturn PROVE CInv'
  OBVIOUS
<1>1. /\ pc = "bulk" /\ pc' = "ret" /\ fd \in Files /\ UNCHANGED <<fd, off, buffer>>
      /\ got \in Nat /\ want \in Nat /\ left \in Nat /\ buffer_size \in Nat
      /\ got + want = left
  BY InLoopSame DEF BulkReturn, Throw, Finish, CInv, Transfers, IInv, Typed, TransferOK, BufferOK,
     FrameOK, Control, Sites
<1>2. fd # NoFile
  BY <1>1, FilesAssumption
<1>3. CASE Throw("UnexpectedEOF") /\ Lose(got > 0, "UnexpectedEOF")
  <2>1. UNCHANGED <<file_pos_of_buffer_start, buffer_size>>
    BY <1>3 DEF Throw, window
  <2>2. ~torn' => ~torn /\ got = 0
    BY <1>1, <1>3 DEF Lose, torn
  <2>3. Holds(buffer_size)' <=> Holds(buffer_size)
    BY <1>1, <2>1 DEF Holds
  <2>. QED
    BY <1>1, <1>2, <2>1, <2>2, <2>3, RestCInv DEF CInv, Coherent, IInv, Typed, BufferOK
<1>4. CASE /\ got >= left /\ file_pos_of_buffer_start' = AfterBulk
           /\ buffer_size' = 0 /\ lost' = lost
  <2>1. got = left
    BY <1>1, <1>4
  <2>2. Holds(buffer_size)'
    BY <1>4 DEF Holds
  <2>3. file_pos_of_buffer_start \in Nat /\ torn' = torn
    BY <1>4 DEF IInv, Typed, BufferOK, torn
  <2>. QED
    BY <1>1, <1>2, <1>4, <2>1, <2>2, <2>3, RestCInv DEF AfterBulk, CInv, Coherent
<1>. QED
  BY <1>3, <1>4 DEF BulkReturn

LEMMA WholeReturnCInv == IInv /\ CInv /\ WholeReturn => CInv'
<1> SUFFICES ASSUME IInv, CInv, WholeReturn PROVE CInv'
  OBVIOUS
<1>1. /\ pc = "whole" /\ pc' = "ret" /\ fd \in Files /\ UNCHANGED <<fd, off, buffer, buffer_size>>
      /\ got \in Nat /\ buffer_size = 0 /\ file_pos_of_buffer_start = 0
  BY InLoopSame DEF WholeReturn, Throw, Finish, window, CInv, Transfers, IInv, Typed, TransferOK,
     Control, Sites
<1>2. fd # NoFile /\ Holds(buffer_size)'
  BY <1>1, FilesAssumption DEF Holds
<1>3. CASE Throw("OSReportedIncorrectFileSize") /\ Lose(got > 0, "OSReportedIncorrectFileSize")
  <2>1. file_pos_of_buffer_start' = 0
    BY <1>1, <1>3 DEF Throw, window
  <2>2. ~torn' => ~torn /\ got = 0
    BY <1>1, <1>3 DEF Lose, torn
  <2>. QED
    BY <1>1, <1>2, <2>1, <2>2, RestCInv DEF CInv, Coherent
<1>4. CASE got = file_size /\ file_pos_of_buffer_start' = file_size /\ lost' = lost
  BY <1>1, <1>2, <1>4, RestCInv DEF torn, CInv, Coherent
<1>. QED
  BY <1>3, <1>4 DEF WholeReturn

LEMMA AtEofReturnCInv == IInv /\ CInv /\ AtEofReturn => CInv'
BY InLoopSame, ThrowCInv DEF AtEofReturn, Resting

LEMMA ByteReturnCInv == IInv /\ CInv /\ ByteReturn => CInv'
<1> SUFFICES ASSUME IInv, CInv, ByteReturn PROVE CInv'
  OBVIOUS
<1>1. InLoop /\ lost' = lost /\ pc = "body" /\ pc \in Resting
  BY DEF ByteReturn, Resting
<1>2. CASE no_data /\ Throw("UnexpectedEOF")
  BY <1>1, <1>2, InLoopSame, ThrowCInv
<1>3. CASE ~(no_data /\ Throw("UnexpectedEOF"))
  <2>1. ~no_data /\ pc' = "ret" /\ UNCHANGED <<file_pos_of_buffer_start, buffer_size>>
    BY <1>3 DEF ByteReturn, Finish, window
  <2>2. buffer_pos \in Nat /\ buffer_size \in Nat /\ buffer_pos < buffer_size
    BY <1>1, <2>1 DEF IInv, Typed, BufferOK, Control
  <2>3. ~torn => fd # NoFile
    BY <1>1, <2>2, Resting1
  <2>4. UNCHANGED <<fd, off, buffer>>
    BY <1>1, InLoopSame
  <2>5. torn' = torn /\ (Holds(buffer_size)' <=> Holds(buffer_size))
    BY <1>1, <2>1, <2>4 DEF torn, Holds
  <2>. QED
    BY <1>1, <2>1, <2>3, <2>4, <2>5, Resting1, RestCInv
<1>. QED
  BY <1>2, <1>3

LEMMA LargeReadCInv ==
  ASSUME IInv, CInv, LargeRead, pc \in {"body", "more"}, UNCHANGED <<fd, off, buffer, lost>>,
         left > buffer_capacity
  PROVE  CInv'
<1>1. /\ left' = left - Available
      /\ UNCHANGED <<file_pos_of_buffer_start, buffer_size, buffer_pos>>
      /\ \/ fd # NoFile /\ want' = left - Available /\ got' = 0 /\ pc' = "bulk"
         \/ pc' = "ret"
  BY DEF LargeRead, FhRead, StartRead, Finish, window
<1>2. /\ torn' = torn /\ tell' = tell /\ (Holds(buffer_size)' <=> Holds(buffer_size))
      /\ pc \in Resting
  BY <1>1 DEF torn, tell, Holds, Resting
<1>3. CASE pc' = "ret"
  BY <1>1, <1>2, <1>3, Resting1, RestCInv
<1>4. CASE fd # NoFile /\ want' = left - Available /\ got' = 0 /\ pc' = "bulk"
  <2>1. /\ left \in Nat /\ Available \in Int /\ buffer_size \in Nat
        /\ file_pos_of_buffer_start \in Nat
    BY DEF Available, IInv, Typed, BufferOK, FrameOK
  <2>2. Transfers'
    BY <1>1, <1>4, <2>1 DEF Transfers
  <2>3. Coherent'
    BY <1>1, <1>2, <1>4, <2>1, Resting1 DEF Coherent
  <2>. QED
    BY <2>2, <2>3 DEF CInv
<1>. QED
  BY <1>1, <1>3, <1>4

LEMMA LoopsCInv ==
  IInv /\ CInv /\ (ReadBytesBody \/ ReadBytesMore \/ ReadBytesAtMostBody \/ ReadBytesAtMostMore
                     \/ DrainMore) => CInv'
<1> SUFFICES ASSUME IInv, CInv, ReadBytesBody \/ ReadBytesMore \/ ReadBytesAtMostBody
                                  \/ ReadBytesAtMostMore \/ DrainMore
             PROVE CInv'
  OBVIOUS
<1>1. /\ UNCHANGED <<fd, off, buffer, lost>> /\ pc \in {"body", "more"} /\ pc \in Resting
      /\ \/ \E e : Throw(e)
         \/ left > buffer_capacity /\ LargeRead
         \/ CopyThenRefill
         \/ DrainThenRefill
  BY DEF ReadBytesBody, ReadBytesMore, ReadBytesAtMostBody, ReadBytesAtMostMore, DrainMore, InLoop,
     handle, Resting
<1>. QED
  BY <1>1, ThrowCInv, LargeReadCInv, CopyThenRefillCInv, DrainThenRefillCInv

LEMMA SeekMoreCInv == IInv /\ CInv /\ SeekMore => CInv'
<1> SUFFICES ASSUME IInv, CInv, SeekMore PROVE CInv'
  OBVIOUS
<1>1. /\ UNCHANGED <<fd, off, buffer, lost>> /\ pc = "more" /\ pc \in Resting
      /\ call.loop = "skip"
  BY InLoopSame DEF SeekMore, Resting
<1>2. /\ buffer_size \in Nat /\ is_eof_reached \in BOOLEAN /\ file_pos_of_buffer_start \in Nat
      /\ file_pos_of_buffer_start <= call.arg /\ call.arg \in Int /\ buffer_pos \in Nat
  BY <1>1 DEF IInv, Typed, BufferOK, FlagsOK, FrameOK, Control
<1>3. CASE HasNoDataLeft("more", buffer_size, is_eof_reached)
  <2>1. ~torn /\ fd = NoFile => buffer_size = 0
    BY <1>1, Resting1
  <2>. QED
    BY <1>1, <1>2, <1>3, <2>1, HasNoDataLeftCInv
<1>4. CASE Throw("SeekFailed")
  BY <1>1, <1>4, ThrowCInv
<1>5. CASE /\ ~BeyondWindow /\ buffer_pos' = call.arg - file_pos_of_buffer_start /\ Finish("ok")
           /\ UNCHANGED <<allocated, window, ret, no_data, transfer, left, out>>
  <2>1. /\ buffer_pos' \in 0 .. buffer_size /\ pc' = "ret"
        /\ UNCHANGED <<file_pos_of_buffer_start, buffer_size>>
    BY <1>1, <1>2, <1>5 DEF BeyondWindow, Finish, window
  <2>2. torn' = torn /\ (Holds(buffer_size)' <=> Holds(buffer_size))
    BY <1>1, <2>1 DEF torn, Holds
  <2>3. ASSUME ~torn, fd = NoFile PROVE tell' = 0
    <3>1. buffer_size = 0 /\ tell = 0
      BY <1>1, <2>3, Resting1
    <3>2. file_pos_of_buffer_start = 0 /\ buffer_pos' = 0
      BY <1>2, <2>1, <3>1 DEF tell
    <3>. QED
      BY <2>1, <3>2 DEF tell
  <2>. QED
    BY <1>1, <2>1, <2>2, <2>3, Resting1, RestCInv
<1>. QED
  BY <1>3, <1>4, <1>5 DEF SeekMore

-----------------------------------------------------------------------------
(* The calls.                                                              *)

LEMMA CallsAtEofCInv ==
  IInv /\ CInv /\ (AtEofCall \/ PeekByte \/ ReadByte
                     \/ \E n \in Counts : ReadBytes(n) \/ ReadBytesAtMost(n)) => CInv'
<1> SUFFICES ASSUME IInv, CInv, AtEofCall \/ PeekByte \/ ReadByte
                                  \/ \E n \in Counts : ReadBytes(n) \/ ReadBytesAtMost(n)
             PROVE CInv'
  OBVIOUS
<1>1. AtEof("body") /\ pc \in Resting /\ UNCHANGED <<fd, off, buffer, lost>>
  BY DEF AtEofCall, PeekByte, ReadByte, ReadBytes, ReadBytesAtMost, CallAtEof, Begin, Resting, handle
<1>. QED
  BY <1>1, AtEofCInv

LEMMA ReadWholeCInv ==
  ASSUME IInv, CInv, NEW s, ReadWhole(s), AtBeginning, pc = "idle", UNCHANGED <<fd, off, buffer, lost>>
  PROVE  CInv'
<1>1. /\ UNCHANGED <<file_pos_of_buffer_start, buffer_size, buffer_pos>>
      /\ \/ fd # NoFile /\ got' = 0 /\ pc' = "whole"
         \/ pc' = "ret"
  BY DEF ReadWhole, FhRead, StartRead, Finish, window
<1>2. /\ torn' = torn /\ tell' = tell /\ (Holds(buffer_size)' <=> Holds(buffer_size))
      /\ pc \in Resting
  BY <1>1 DEF torn, tell, Holds, Resting
<1>3. CASE pc' = "ret"
  BY <1>1, <1>2, <1>3, Resting1, RestCInv
<1>4. CASE fd # NoFile /\ got' = 0 /\ pc' = "whole"
  <2>1. Transfers'
    BY <1>1, <1>4 DEF Transfers, AtBeginning
  <2>2. Coherent'
    BY <1>1, <1>2, <1>4, Resting1 DEF Coherent, AtBeginning
  <2>. QED
    BY <2>1, <2>2 DEF CInv
<1>. QED
  BY <1>1, <1>3, <1>4

LEMMA SizedCallsCInv == IInv /\ CInv /\ (ReadBytesAll \/ ReadBytesToEnd \/ GetFileSize) => CInv'
<1> SUFFICES ASSUME IInv, CInv, ReadBytesAll \/ ReadBytesToEnd \/ GetFileSize PROVE CInv'
  OBVIOUS
<1>1. CASE ReadBytesAll
  <2>1. /\ UNCHANGED <<fd, off, buffer, lost>> /\ pc = "idle"
        /\ \/ \E e : Throw(e)
           \/ DrainThenRefill
           \/ AtBeginning /\ \E s : ReadWhole(s)
    BY <1>1 DEF ReadBytesAll, GotFileSize, Begin, handle
  <2>. QED
    BY <2>1, ThrowCInv, DrainThenRefillCInv, ReadWholeCInv DEF Resting
<1>2. CASE ReadBytesToEnd
  <2>1. /\ UNCHANGED <<fd, off, buffer, lost>> /\ pc = "idle"
        /\ \/ \E e : Throw(e)
           \/ DrainThenRefill
           \/ AtEof("body")
    BY <1>2 DEF ReadBytesToEnd, GotFileSize, Begin
  <2>. QED
    BY <2>1, ThrowCInv, DrainThenRefillCInv, AtEofCInv DEF Resting
<1>3. CASE GetFileSize
  <2>1. UNCHANGED <<fd, off, buffer, lost>> /\ pc = "idle" /\ \E e : Throw(e)
    BY <1>3 DEF GetFileSize, GotFileSize, Begin
  <2>. QED
    BY <2>1, ThrowCInv DEF Resting
<1>. QED
  BY <1>1, <1>2, <1>3

LEMMA SeekNegativeCInv == ASSUME IInv, CInv, NEW p, SeekNegative(p) PROVE CInv'
BY ThrowCInv DEF SeekNegative, Begin, Resting, handle

LEMMA SeekWithinBufferCInv ==
  ASSUME IInv, CInv, NEW p \in Targets, SeekWithinBuffer(p)
  PROVE  CInv'
<1>1. /\ p \in Nat /\ InWindow(p) /\ pc = "idle" /\ pc' = "ret" /\ pc \in Resting
      /\ buffer_pos' = p - file_pos_of_buffer_start
      /\ UNCHANGED <<fd, off, buffer, file_pos_of_buffer_start, buffer_size, lost>>
  BY IFileAssumption DEF SeekWithinBuffer, Finish, Begin, Resting, handle, memory, window
<1>2. buffer_size \in Nat /\ file_pos_of_buffer_start \in Nat /\ buffer_pos \in Nat
  BY DEF IInv, Typed, BufferOK
<1>3. torn' = torn /\ (Holds(buffer_size)' <=> Holds(buffer_size))
  BY <1>1 DEF torn, Holds
<1>4. ~torn /\ fd = NoFile => tell' = 0
  BY <1>1, <1>2, Resting1 DEF tell, InWindow
<1>. QED
  BY <1>1, <1>3, <1>4, Resting1, RestCInv

LEMMA SeekAndRefillCInv ==
  ASSUME IInv, CInv, NEW p \in Nat, SeekAndRefill(p), pc = "idle", call'.arg = p,
         UNCHANGED <<fd, buffer>>
  PROVE  CInv'
<1>1. CASE fd # NoFile /\ CanSeek
  <2>1. /\ file_pos_of_buffer_start' = SeekBase(p) /\ off' = SeekBase(p) /\ got' = 0
        /\ pc' = "refill" /\ fd' # NoFile
    BY <1>1 DEF SeekAndRefill, StartRead
  <2>2. Holds(got)'
    BY <2>1 DEF Holds
  <2>3. off' = file_pos_of_buffer_start' + got'
    BY <2>1, SeekBaseBounds
  <2>4. file_pos_of_buffer_start' = SeekBase(call.arg)'
    BY <2>1 DEF SeekBase
  <2>. QED
    BY <2>1, <2>2, <2>3, <2>4 DEF CInv, Coherent, Transfers
<1>2. CASE ~(fd # NoFile /\ CanSeek)
  <2>1. PICK e \in {"AttemptToReadAClosedFile", "SeekFailed"} :
          Finish(e) /\ Lose(SeekBase(p) # file_pos_of_buffer_start, e)
    BY <1>2 DEF SeekAndRefill
  <2>2. /\ file_pos_of_buffer_start' = SeekBase(p) /\ pc' = "ret"
        /\ UNCHANGED <<buffer_size, buffer_pos, off>>
    BY <1>2, <2>1 DEF SeekAndRefill, Finish
  <2>3. ~torn' => ~torn /\ SeekBase(p) = file_pos_of_buffer_start
    BY <2>1 DEF Lose, torn
  <2>4. CASE torn'
    BY <2>2, <2>4, RestCInv
  <2>5. CASE ~torn'
    <3>1. file_pos_of_buffer_start' = file_pos_of_buffer_start /\ ~torn
      BY <2>2, <2>3, <2>5
    <3>2. tell' = tell /\ (Holds(buffer_size)' <=> Holds(buffer_size))
      BY <2>2, <3>1 DEF tell, Holds
    <3>. QED
      BY <2>2, <3>1, <3>2, Resting1, RestCInv DEF Resting
  <2>. QED
    BY <2>4, <2>5
<1>. QED
  BY <1>1, <1>2

LEMMA SeekOutsideBufferCInv ==
  ASSUME IInv, CInv, NEW p \in Targets, SeekOutsideBuffer(p)
  PROVE  CInv'
<1>1. /\ p \in Nat /\ pc = "idle" /\ pc \in Resting /\ call'.arg = p
      /\ UNCHANGED <<fd, buffer>>
  <2>1. p \in Int
    BY IFileAssumption
  <2>. QED
    BY <2>1 DEF SeekOutsideBuffer, Begin, Resting
<1>2. PICK s \in FileSizeResults :
        \/ (\E e : Throw(e)) /\ UNCHANGED <<off, lost>>
        \/ SeekForward(p) /\ UNCHANGED <<off, lost>>
        \/ SeekAndRefill(p)
  BY DEF SeekOutsideBuffer
<1>3. \/ (\E e : Throw(e)) /\ UNCHANGED <<off, lost>>
      \/ HasNoDataLeft("more", buffer_size, FALSE) /\ UNCHANGED <<off, lost>>
      \/ SeekAndRefill(p)
  BY <1>2 DEF SeekForward
<1>4. buffer_size \in Nat /\ FALSE \in BOOLEAN
  BY DEF IInv, Typed, BufferOK
<1>5. ~torn /\ fd = NoFile => buffer_size = 0
  BY <1>1, Resting1
<1>. QED
  BY <1>1, <1>3, <1>4, <1>5, ThrowCInv, HasNoDataLeftCInv, SeekAndRefillCInv

LEMMA OpenCInv == ASSUME IInv, CInv, NEW f \in Files, Open(f) PROVE CInv'
<1>1. /\ pc = "idle" /\ pc \in Resting /\ pc' = "ret"
      /\ UNCHANGED <<buffer, lost, file_pos_of_buffer_start, buffer_size, buffer_pos>>
  BY DEF Open, Begin, Throw, Finish, window, Resting
<1>2. CASE UNCHANGED handle /\ \E e : Throw(e)
  BY <1>1, <1>2, ThrowCInv DEF handle
<1>3. CASE fd = NoFile /\ OpenHandle(f)
  <2>1. fd' = f /\ off' = 0 /\ f # NoFile
    BY <1>3, FilesAssumption DEF OpenHandle
  <2>2. Holds(buffer_size)' <=> \A i \in 0 .. buffer_size - 1 :
                                   buffer[i] = <<f, file_pos_of_buffer_start + i>>
    BY <1>1, <2>1 DEF Holds
  <2>3. /\ buffer_size \in Nat /\ file_pos_of_buffer_start \in Nat /\ buffer_pos \in Nat
        /\ torn' = torn
    BY <1>1 DEF IInv, Typed, BufferOK, torn
  <2>4. ~torn => buffer_size = 0 /\ file_pos_of_buffer_start = 0
    BY <1>1, <1>3, <2>3, Resting1 DEF tell
  <2>. QED
    BY <1>1, <2>1, <2>2, <2>3, <2>4, RestCInv
<1>. QED
  BY <1>2, <1>3 DEF Open

LEMMA CloseCInv == Close => CInv'
<1> SUFFICES ASSUME Close PROVE CInv'
  OBVIOUS
<1>1. /\ off' = 0 /\ buffer_size' = 0 /\ file_pos_of_buffer_start' = 0 /\ buffer_pos' = 0
      /\ pc' = "ret"
  BY DEF Close, CloseHandle, ResetWindow, Finish
<1>2. Holds(buffer_size)' /\ tell' = 0
  BY <1>1 DEF Holds, tell
<1>. QED
  BY <1>1, <1>2, RestCInv

LEMMA SetBufferSizeCInv == ASSUME IInv, CInv, NEW c, SetBufferSize(c) PROVE CInv'
<1>1. /\ pc \in Resting /\ pc' = "ret" /\ (buffer' = buffer \/ ~allocated)
      /\ UNCHANGED <<fd, off, file_pos_of_buffer_start, buffer_size, buffer_pos, lost>>
  BY DEF SetBufferSize, Begin, Finish, Resting, handle, window
<1>2. torn' = torn /\ tell' = tell
  BY <1>1 DEF torn, tell
<1>3. Holds(buffer_size) => Holds(buffer_size)'
  <2>1. CASE buffer' = buffer
    BY <1>1, <2>1 DEF Holds
  <2>2. CASE ~allocated
    BY <1>1, <2>2 DEF Holds, IInv, Control
  <2>. QED
    BY <1>1, <2>1, <2>2
<1>. QED
  BY <1>1, <1>2, <1>3, Resting1, RestCInv

-----------------------------------------------------------------------------

LEMMA NextCInv == IInv /\ CInv /\ [Next]_vars => CInv'
<1> SUFFICES ASSUME IInv, CInv, [Next]_vars PROVE CInv'
  OBVIOUS
<1>1. CASE Call
  <2>1. CASE \E p \in Targets : Seek(p)
    BY <2>1, SeekNegativeCInv, SeekWithinBufferCInv, SeekOutsideBufferCInv DEF Seek
  <2>2. CASE ~\E p \in Targets : Seek(p)
    BY <1>1, <2>2, CallsAtEofCInv, SizedCallsCInv, OpenCInv, CloseCInv, SetBufferSizeCInv DEF Call
  <2>. QED
    BY <2>1, <2>2
<1>2. CASE Step
  <2>1. CASE \/ ReadIntoBuffer \/ ReadIntoCaller \/ ReadFails
             \/ FillReturn \/ RefillReturn \/ BulkReturn \/ WholeReturn
    BY <2>1, ReadIntoBufferCInv, ReadIntoCallerCInv, ReadFailsCInv, FillReturnCInv, RefillReturnCInv,
       BulkReturnCInv, WholeReturnCInv
  <2>2. CASE \/ AtEofReturn \/ ByteReturn \/ ReadBytesBody \/ ReadBytesMore
             \/ ReadBytesAtMostBody \/ ReadBytesAtMostMore \/ DrainMore \/ SeekMore \/ Take
    BY <2>2, AtEofReturnCInv, ByteReturnCInv, LoopsCInv, SeekMoreCInv, TakeCInv
  <2>. QED
    BY <1>2, <2>1, <2>2 DEF Step
<1>3. CASE World
  BY <1>3, WorldCInv
<1>4. CASE UNCHANGED vars
  BY <1>4, StillCInv DEF vars, handle, transfer, memory, window, frame
<1>. QED
  BY <1>1, <1>2, <1>3, <1>4 DEF Next

(* As long as no failure has left the object out of step, the window of    *)
(* the buffer holds the bytes of the file at file_pos_of_buffer_start and  *)
(* the kernel goes on where it ends: for any files, opened in any order,   *)
(* growing at any time, any capacity and any counts, in every step of      *)
(* every call (has_no_data_left, seek, read_bytes, close).                 *)
THEOREM WindowCoherent == Spec => []Coherent
<1>1. CInv => Coherent
  BY DEF CInv
<1>. QED
  BY <1>1, Invariance, InitCInv, NextCInv, PTL DEF Spec

-----------------------------------------------------------------------------
(* The buffer, whatever call runs: the sticky flag of the end, the read   *)
(* that set it, and the place of the window in the file.  The byte calls    *)
(* and the text calls both rest on it.                                      *)

(* n bytes of the file f from s on.                                        *)
Run(f, s, n) == [k \in 1 .. n |-> <<f, s + k - 1>>]

-----------------------------------------------------------------------------
(* Runs of bytes.                                                          *)

LEMMA RunType ==
  ASSUME NEW f, NEW s \in Nat, NEW n \in Nat
  PROVE  /\ Run(f, s, n) \in Seq({f} \X Nat) /\ Len(Run(f, s, n)) = n
         /\ \A k \in 1 .. n : Run(f, s, n)[k] = <<f, s + k - 1>>
<1>1. \A k \in 1 .. n : <<f, s + k - 1>> \in {f} \X Nat
  OBVIOUS
<1>. QED
  BY <1>1 DEF Run

LEMMA EmptyRun == ASSUME NEW f, NEW s PROVE Run(f, s, 0) = <<>>
<1>1. 1 .. 0 = {}
  OBVIOUS
<1>. QED
  BY <1>1 DEF Run

LEMMA RunOn ==
  ASSUME NEW f, NEW s \in Nat, NEW n \in Nat, NEW m \in Nat
  PROVE  Run(f, s, n) \o Run(f, s + n, m) = Run(f, s, n + m)
<1> DEFINE a == Run(f, s, n)
           c == Run(f, s + n, m)
           b == a \o c
           d == Run(f, s, n + m)
<1>0. s + n \in Nat /\ n + m \in Nat
  OBVIOUS
<1>1. a \in Seq({f} \X Nat) /\ Len(a) = n /\ \A k \in 1 .. n : a[k] = <<f, s + k - 1>>
  BY RunType
<1>2. c \in Seq({f} \X Nat) /\ Len(c) = m /\ \A k \in 1 .. m : c[k] = <<f, s + n + k - 1>>
  BY <1>0, RunType
<1>3. d \in Seq({f} \X Nat) /\ Len(d) = n + m /\ \A k \in 1 .. n + m : d[k] = <<f, s + k - 1>>
  BY <1>0, RunType
<1> HIDE DEF a, c, d
<1>4. b \in Seq({f} \X Nat) /\ Len(b) = n + m
      /\ \A k \in 1 .. n + m : b[k] = IF k <= n THEN a[k] ELSE c[k - n]
  BY <1>1, <1>2, ConcatProperties
<1> HIDE DEF b
<1>5. ASSUME NEW k \in 1 .. n + m PROVE b[k] = d[k]
  <2>1. CASE k <= n
    <3>1. k \in 1 .. n
      BY <2>1
    <3>. QED
      BY <1>1, <1>3, <1>4, <2>1, <3>1
  <2>2. CASE ~(k <= n)
    <3>1. k - n \in 1 .. m /\ s + n + (k - n) - 1 = s + k - 1
      BY <2>2
    <3>2. c[k - n] = <<f, s + n + (k - n) - 1>>
      BY <1>2, <3>1
    <3>. QED
      BY <1>3, <1>4, <2>2, <3>1, <3>2
  <2>. QED
    BY <2>1, <2>2
<1>6. b = d
  BY <1>3, <1>4, <1>5, SeqEqual
<1>. QED
  BY <1>6 DEF a, b, c, d

(* A run of n bytes from s on and one of m from t on make one of z.        *)
Meets(s, n, t, m, z) == s \in Nat /\ n \in Nat /\ m \in Nat /\ t = s + n /\ z = n + m

Joined(f, s, n, t, m, z) == Run(f, s, n) \o Run(f, t, m) = Run(f, s, z)

LEMMA RunsJoin ==
  ASSUME NEW f, NEW s, NEW n, NEW m, NEW t, NEW z, Meets(s, n, t, m, z)
  PROVE  Joined(f, s, n, t, m, z)
<1>1. PICK a \in Nat, b \in Nat, c \in Nat : a = s /\ b = n /\ c = m
  BY DEF Meets
<1>2. Run(f, a, b) \o Run(f, a + b, c) = Run(f, a, b + c)
  BY Zenon, RunOn
<1>. QED
  BY <1>1, <1>2 DEF Meets, Joined

(* The bytes of the window are those of the file at tell().                *)
LEMMA CopiedIsRun ==
  ASSUME IInv, Holds(buffer_size), NEW n \in Nat, buffer_pos + n <= buffer_size
  PROVE  Copied(n) = Run(fd, tell, n)
<1>1. /\ buffer_pos \in Nat /\ buffer_size \in Nat /\ file_pos_of_buffer_start \in Nat
  BY DEF IInv, Typed, BufferOK
<1>2. ASSUME NEW k \in 1 .. n
      PROVE  buffer[buffer_pos + k - 1] = <<fd, tell + k - 1>>
  <2>1. buffer_pos + k - 1 \in 0 .. buffer_size - 1
    BY <1>1
  <2>2. file_pos_of_buffer_start + (buffer_pos + k - 1) = tell + k - 1
    BY <1>1 DEF tell
  <2>. QED
    BY <2>1, <2>2 DEF Holds
<1>. QED
  BY <1>2 DEF Copied, Run

LEMMA CopiedLen ==
  ASSUME IInv, NEW n \in Nat, buffer_pos + n <= buffer_size
  PROVE  out \o Copied(n) \in Seq(Byte) /\ Len(out \o Copied(n)) = Len(out) + n
         /\ Len(out) \in Nat
<1>1. Copied(n) \in Seq(Byte) /\ Len(Copied(n)) = n
  BY DEF Copied, IInv, Typed, BufferOK
<1>2. out \in Seq(Byte) /\ Len(out) \in Nat
  BY DEF IInv, Typed, FrameOK
<1>. QED
  BY <1>1, <1>2, ConcatProperties


-----------------------------------------------------------------------------
LEMMA Numbers ==
  ASSUME IInv
  PROVE  /\ buffer_pos \in Nat /\ buffer_size \in Nat /\ buffer_capacity \in Nat
         /\ file_pos_of_buffer_start \in Nat /\ tell \in Nat /\ off \in Nat
         /\ call.start \in Nat /\ left \in Nat
         /\ got \in Nat /\ want \in Nat /\ is_eof_reached \in BOOLEAN
         /\ out \in Seq(Byte) /\ Len(out) \in Nat
BY DEF IInv, Typed, BufferOK, HandleOK, FrameOK, TransferOK, FlagsOK, tell

LEMMA Enters ==
  ASSUME NEW next, NEW bp, NEW at_end, HasNoDataLeft(next, bp, at_end)
  PROVE  \/ pc' = "aborted" /\ UNCHANGED outcome
         \/ /\ bp = buffer_size
            /\ file_pos_of_buffer_start' = file_pos_of_buffer_start + buffer_size
            /\ \/ /\ pc' = next /\ at_end
                  /\ buffer_pos' = 0 /\ buffer_size' = 0 /\ no_data' = TRUE
               \/ /\ pc' = "fill" /\ ret' = next /\ fd # NoFile /\ got' = 0
                  /\ want' = buffer_capacity /\ read_over' = FALSE
                  /\ buffer_pos' = buffer_size /\ buffer_size' = buffer_size
               \/ /\ pc' = "ret" /\ fd = NoFile /\ outcome' = "AttemptToReadAClosedFile"
                  /\ buffer_pos' = buffer_size /\ buffer_size' = buffer_size
BY DEF HasNoDataLeft, FhRead, StartRead, Finish, window

-----------------------------------------------------------------------------
(* The sticky flag goes back to a read that has met the end.               *)
Flagged ==
  /\ is_eof_reached => zero_at \in 0 .. off
  /\ fd = NoFile => ~is_eof_reached

(* What the running fh.read() was asked for, and why it is over.           *)
Asked ==
  /\ pc \in Sites /\ read_over /\ want > 0 => zero_at = off
  /\ pc = "fill" => got + want = buffer_capacity
  /\ pc = "refill" =>
       ~is_eof_reached /\ ~eof_indicator /\ got + want = SeekLength(call.arg)

(* has_no_data_left() says so at the end only, or through a buffer of no   *)
(* bytes, and has emptied the buffer.                                      *)
Emptied ==
  pc \in {"body", "more"} /\ no_data =>
    /\ is_eof_reached \/ buffer_capacity = 0
    /\ buffer_pos = 0 /\ buffer_size = 0

Ends == Flagged /\ Asked /\ Emptied

(* A stream that has ended stays at its end.                               *)
Dry ==
  fd \in streams /\ zero_at # -1 => zero_at = off /\ fd \in ended /\ size[fd] <= off

WInv == IInv /\ CInv /\ Ends /\ Dry

-----------------------------------------------------------------------------
(* Ends, step by step.                                                     *)

LEMMA ReturnEnds ==
  ASSUME pc' \in {"idle", "ret", "aborted", "overrun"}, Flagged'
  PROVE  Ends'
BY DEF Ends, Asked, Emptied, Sites

LEMMA HasNoDataLeftEnds ==
  ASSUME NEW next \in {"body", "more"}, NEW bp, NEW at_end, HasNoDataLeft(next, bp, at_end),
         UNCHANGED buffer_capacity, Flagged', at_end => is_eof_reached', buffer_capacity \in Nat
  PROVE  Ends'
<1>1. CASE pc' = next /\ at_end /\ buffer_pos' = 0 /\ buffer_size' = 0
  BY <1>1 DEF Ends, Asked, Emptied, Sites
<1>2. CASE pc' = "fill" /\ got' = 0 /\ want' = buffer_capacity /\ read_over' = FALSE
  BY <1>2 DEF Ends, Asked, Emptied, Sites
<1>. QED
  BY <1>1, <1>2, ReturnEnds DEF HasNoDataLeft, FhRead, StartRead, Finish

LEMMA FlaggedStill ==
  ASSUME Flagged, UNCHANGED <<fd, off, zero_at, is_eof_reached>>
  PROVE  Flagged'
BY DEF Flagged

LEMMA AtEofEnds ==
  ASSUME WInv, NEW next \in {"body", "more"}, AtEof(next),
         UNCHANGED <<fd, off, zero_at, is_eof_reached, eof_indicator, buffer_capacity>>
  PROVE  Ends'
<1>1. Flagged' /\ buffer_capacity \in Nat
  BY FlaggedStill, Numbers DEF WInv, Ends
<1>2. CASE HasNoDataLeft(next, buffer_pos, is_eof_reached)
  BY <1>1, <1>2, HasNoDataLeftEnds
<1>3. CASE no_data' = FALSE /\ pc' = next
  BY <1>1, <1>3 DEF Ends, Asked, Emptied, Sites
<1>. QED
  BY <1>2, <1>3 DEF AtEof

LEMMA RefillsEnd ==
  ASSUME WInv, NEW next \in {"body", "more"}, NEW bp, HasNoDataLeft(next, bp, is_eof_reached),
         UNCHANGED <<fd, off, zero_at, is_eof_reached, eof_indicator, buffer_capacity>>
  PROVE  Ends'
BY FlaggedStill, HasNoDataLeftEnds, Numbers DEF WInv, Ends

LEMMA ThrowEnds ==
  ASSUME WInv, NEW e, Throw(e), UNCHANGED <<fd, off, zero_at, is_eof_reached, eof_indicator>>
  PROVE  Ends'
BY FlaggedStill, ReturnEnds DEF Throw, Finish, WInv, Ends

(* A read past the buffer begins, or is refused.                           *)
LEMMA PastTheBufferEnds ==
  ASSUME WInv, NEW n, NEW site \in {"bulk", "whole"}, FhRead(n, site),
         UNCHANGED <<fd, off, zero_at, is_eof_reached, eof_indicator>>
  PROVE  Ends'
<1>1. Flagged'
  BY FlaggedStill DEF WInv, Ends
<1>2. \/ pc' = site /\ read_over' = FALSE
      \/ pc' = "ret"
  BY DEF FhRead, StartRead, Finish
<1>3. CASE pc' = site /\ read_over' = FALSE
  BY <1>1, <1>3 DEF Ends, Asked, Emptied, Sites
<1>. QED
  BY <1>1, <1>2, <1>3, ReturnEnds

LEMMA CallsAtEofEnds ==
  ASSUME WInv, AtEofCall \/ PeekByte \/ ReadByte
                 \/ \E n \in Counts : ReadBytes(n) \/ ReadBytesAtMost(n)
  PROVE  Ends'
<1>1. AtEof("body")
      /\ UNCHANGED <<fd, off, zero_at, is_eof_reached, eof_indicator, buffer_capacity>>
  BY DEF AtEofCall, PeekByte, ReadByte, ReadBytes, ReadBytesAtMost, CallAtEof, handle, flags
<1>. QED
  BY <1>1, AtEofEnds

LEMMA SizedCallsEnd ==
  ASSUME WInv, ReadBytesAll \/ ReadBytesToEnd \/ GetFileSize
  PROVE  Ends'
<1>1. /\ UNCHANGED <<fd, off, zero_at, is_eof_reached, eof_indicator, buffer_capacity>>
      /\ \/ \E e : Throw(e)
         \/ HasNoDataLeft("more", buffer_size, is_eof_reached)
         \/ AtEof("body")
         \/ \E s : FhRead(s, "whole")
  BY DEF ReadBytesAll, ReadBytesToEnd, GetFileSize, GotFileSize, handle, flags, ReadWhole,
     DrainThenRefill
<1>. QED
  BY <1>1, ThrowEnds, RefillsEnd, AtEofEnds, PastTheBufferEnds

LEMMA SeekEnds == ASSUME WInv, NEW p, Seek(p) PROVE Ends'
<1>1. CASE SeekNegative(p)
  <2>1. Throw("SeekFailed") /\ UNCHANGED <<fd, off, zero_at, is_eof_reached, eof_indicator>>
    BY <1>1 DEF SeekNegative, handle, flags
  <2>. QED
    BY <2>1, ThrowEnds
<1>2. CASE SeekWithinBuffer(p)
  <2>1. pc' = "ret" /\ is_eof_reached' = FALSE /\ eof_indicator' = FALSE
    BY <1>2 DEF SeekWithinBuffer, Finish, ForgetEof
  <2>. QED
    BY <2>1, ReturnEnds DEF Flagged
<1>3. CASE SeekOutsideBuffer(p)
  <2>1. /\ call'.arg = p /\ Flagged' /\ UNCHANGED buffer_capacity
        /\ is_eof_reached' = FALSE /\ eof_indicator' = FALSE
        /\ \/ pc' = "ret" \/ HasNoDataLeft("more", buffer_size, FALSE)
           \/ pc' = "refill" /\ StartRead(SeekLength(p))
    BY <1>3 DEF SeekOutsideBuffer, Begin, ForgetEof, Flagged, Throw, Finish, SeekForward, SeekAndRefill
  <2>2. CASE pc' = "refill" /\ StartRead(SeekLength(p))
    <3>1. SeekLength(p) \in Nat
      BY IFileAssumption DEF SeekLength
    <3>2. got' + want' = SeekLength(call'.arg) /\ read_over' = FALSE
      BY <2>1, <2>2, <3>1 DEF StartRead
    <3>3. Asked'
      BY <2>1, <2>2, <3>2 DEF Asked, SeekLength, SeekBase
    <3>. QED
      BY <2>1, <2>2, <3>3 DEF Ends, Emptied
  <2>. QED
    BY <2>1, <2>2, ReturnEnds, HasNoDataLeftEnds, Numbers DEF WInv
<1>. QED
  BY <1>1, <1>2, <1>3 DEF Seek

LEMMA HandleCallsEnd ==
  ASSUME WInv, \/ \E f \in Files : Open(f)
               \/ Close
               \/ \E c \in Capacities : SetBufferSize(c)
  PROVE  Ends'
<1>1. pc' = "ret"
  BY DEF Open, Close, SetBufferSize, Throw, Finish
<1>2. CASE \E f \in Files : Open(f)
  <2>1. PICK f \in Files : Open(f)
    BY <1>2
  <2>2. UNCHANGED <<is_eof_reached, eof_indicator>>
    BY <2>1 DEF Open, flags
  <2>3. CASE UNCHANGED <<fd, off, zero_at>>
    BY <1>1, <2>2, <2>3, FlaggedStill, ReturnEnds DEF WInv, Ends
  <2>4. CASE fd = NoFile /\ fd' = f
    <3>1. ~is_eof_reached
      BY <2>4 DEF WInv, Ends, Flagged
    <3>2. Flagged'
      BY <2>2, <2>4, <3>1, FilesAssumption DEF Flagged
    <3>. QED
      BY <1>1, <3>2, ReturnEnds
  <2>. QED
    BY <2>1, <2>3, <2>4 DEF Open, OpenHandle, handle
<1>3. CASE Close
  BY <1>1, <1>3, ReturnEnds DEF Close, ResetWindow, Flagged
<1>4. CASE \E c \in Capacities : SetBufferSize(c)
  <2>1. UNCHANGED <<fd, off, zero_at, is_eof_reached, eof_indicator>>
    BY <1>4 DEF SetBufferSize, handle, flags
  <2>. QED
    BY <1>1, <2>1, FlaggedStill, ReturnEnds DEF WInv, Ends
<1>. QED
  BY <1>2, <1>3, <1>4

-----------------------------------------------------------------------------
(* A read(2): where it gives nothing is where zero_at points.              *)

LEMMA SysReadEnds ==
  ASSUME WInv, NEW r \in SysReadResults, SysRead(r), pc \in Sites, pc' \in {pc, "overrun"},
         UNCHANGED <<is_eof_reached, eof_indicator, buffer_capacity, call>>
  PROVE  Ends'
<1>1. /\ r \in Nat /\ off \in Nat /\ want \in Nat /\ got \in Nat /\ r <= want
      /\ off' = off + r /\ got' = got + r /\ want' = want - r /\ fd' = fd
      /\ zero_at' = IF r = 0 /\ want > 0 THEN off ELSE zero_at
  BY SysReadCount, Numbers DEF WInv, SysRead, IInv, Typed, TransferOK
<1>2. got' + want' = got + want
  BY <1>1
<1>3. read_over' /\ want' > 0 => zero_at' = off'
  <2>1. read_over' => r = 0 \/ r = want
    BY DEF SysRead, LoopEnds
  <2>2. want' > 0 /\ r = 0 => zero_at' = off'
    <3>1. off + 0 = off /\ want - 0 = want
      BY <1>1
    <3>. QED
      BY <1>1, <3>1
  <2>3. r = want => ~(want' > 0)
    BY <1>1
  <2>. QED
    BY <2>1, <2>2, <2>3
<1>4. Flagged'
  <2>1. (fd = NoFile => ~is_eof_reached) /\ (is_eof_reached => zero_at \in 0 .. off)
    BY DEF WInv, Ends, Flagged
  <2>2. zero_at \in 0 .. off => zero_at' \in 0 .. off'
    BY <1>1
  <2>. QED
    BY <1>1, <2>1, <2>2 DEF Flagged
<1>5. Asked'
  <2>1. pc = "refill" => ~is_eof_reached /\ ~eof_indicator /\ got + want = SeekLength(call.arg)
    BY DEF WInv, Ends, Asked
  <2>2. pc = "fill" => got + want = buffer_capacity
    BY DEF WInv, Ends, Asked
  <2>3. SeekLength(call.arg)' = SeekLength(call.arg)
    BY DEF SeekLength, SeekBase
  <2>4. (pc = "fill" => got + want = buffer_capacity)'
    BY <1>2, <2>2
  <2>5. (pc = "refill" => ~is_eof_reached /\ ~eof_indicator /\ got + want = SeekLength(call.arg))'
    BY <1>2, <2>1, <2>3
  <2>6. CASE pc' = pc
    BY <1>3, <2>4, <2>5, <2>6 DEF Asked
  <2>7. CASE pc' = "overrun"
    BY <2>7 DEF Asked, Sites
  <2>. QED
    BY <2>6, <2>7
<1>. QED
  BY <1>4, <1>5 DEF Ends, Emptied, Sites

LEMMA ReadsEnd == ASSUME WInv, ReadIntoBuffer \/ ReadIntoCaller PROVE Ends'
<1>1. /\ \E r \in SysReadResults : SysRead(r)
      /\ pc \in Sites /\ pc' \in {pc, "overrun"}
      /\ UNCHANGED <<is_eof_reached, eof_indicator, buffer_capacity, call>>
  BY DEF ReadIntoBuffer, ReadIntoCaller, Sites, flags, memory
<1>. QED
  BY <1>1, SysReadEnds

LEMMA ReadFailsEnds == ASSUME WInv, ReadFails PROVE Ends'
<1>1. /\ pc' = "ret"
      /\ UNCHANGED <<fd, off, zero_at, is_eof_reached, eof_indicator>>
  BY DEF ReadFails, Finish, handle, flags
<1>. QED
  BY <1>1, FlaggedStill, ReturnEnds DEF WInv, Ends

(* A short count leaves is_eof_reached set, and the reason for it.         *)
LEMMA FillReturnEnds == ASSUME WInv, FillReturn PROVE Ends'
<1>1. /\ pc = "fill" /\ pc' = ret /\ read_over /\ buffer_size' = got /\ buffer_pos' = 0
      /\ UNCHANGED <<fd, off, zero_at, eof_indicator>>
  BY DEF FillReturn, handle
<1>2. /\ ret \in {"body", "more"} /\ got \in Nat /\ want \in Nat /\ buffer_capacity \in Nat
      /\ off \in Nat /\ fd \in Files
  BY <1>1, Numbers DEF WInv, IInv, Typed, PlaceOK, Control, Sites
<1>3. is_eof_reached' <=> (is_eof_reached \/ got < buffer_capacity)
  BY DEF FillReturn
<1>4. no_data' <=> got = 0
  BY DEF FillReturn
<1>5. got < buffer_capacity => zero_at = off
  <2>1. got + want = buffer_capacity
    BY <1>1 DEF WInv, Ends, Asked
  <2>2. want > 0 => zero_at = off
    BY <1>1 DEF WInv, Ends, Asked, Sites
  <2>. QED
    BY <1>2, <2>1, <2>2
<1>6. Flagged'
  <2>1. is_eof_reached => zero_at \in 0 .. off
    BY DEF WInv, Ends, Flagged
  <2>2. is_eof_reached' => zero_at' \in 0 .. off'
    BY <1>1, <1>2, <1>3, <1>5, <2>1
  <2>. QED
    BY <1>1, <1>2, <2>2, FilesAssumption DEF Flagged
<1>7. Emptied'
  BY <1>1, <1>2, <1>3, <1>4 DEF Emptied, FillReturn, memory
<1>. QED
  BY <1>1, <1>2, <1>6, <1>7 DEF Ends, Asked, Sites

LEMMA RefillReturnEnds == ASSUME WInv, RefillReturn PROVE Ends'
<1>1. /\ pc = "refill" /\ pc' = "ret" /\ read_over
      /\ UNCHANGED <<fd, off, zero_at, eof_indicator>>
  BY DEF RefillReturn, handle, Finish
<1>2. is_eof_reached' <=> (is_eof_reached \/ want > 0)
  BY DEF RefillReturn
<1>3. fd \in Files /\ off \in Nat
  BY <1>1, Numbers DEF WInv, IInv, Control, Sites
<1>4. ~is_eof_reached /\ ~eof_indicator /\ (want > 0 => zero_at = off)
  BY <1>1 DEF WInv, Ends, Asked, Sites
<1>5. Flagged'
  <2>1. is_eof_reached' => zero_at' \in 0 .. off'
    BY <1>1, <1>2, <1>3, <1>4
  <2>. QED
    BY <1>1, <1>3, <2>1, FilesAssumption DEF Flagged
<1>. QED
  BY <1>1, <1>5, ReturnEnds

(* A call that returns, is taken, or ends the program, and the flags stay. *)
LEMMA ReturnsEnd ==
  ASSUME WInv, BulkReturn \/ WholeReturn \/ AtEofReturn \/ ByteReturn \/ Take
  PROVE  Ends'
<1>1. /\ pc' \in {"idle", "ret"}
      /\ UNCHANGED <<fd, off, zero_at, is_eof_reached, eof_indicator>>
  BY DEF BulkReturn, WholeReturn, AtEofReturn, ByteReturn, Take, InLoop, handle, flags, Throw, Finish
<1>. QED
  BY <1>1, FlaggedStill, ReturnEnds DEF WInv, Ends

LEMMA LoopsEnd ==
  ASSUME WInv, ReadBytesBody \/ ReadBytesMore \/ DrainMore \/ SeekMore
  PROVE  Ends'
<1>1. /\ UNCHANGED <<fd, off, zero_at, is_eof_reached, eof_indicator, buffer_capacity>>
      /\ \/ pc' = "ret"
         \/ \E bp : HasNoDataLeft("more", bp, is_eof_reached)
         \/ FhRead(left - Available, "bulk")
  BY DEF ReadBytesBody, ReadBytesMore, DrainMore, SeekMore, CopyThenRefill, DrainThenRefill,
     LargeRead, InLoop, handle, flags, Throw, Finish
<1>2. Flagged'
  BY <1>1, FlaggedStill DEF WInv, Ends
<1>. QED
  BY <1>1, <1>2, ReturnEnds, RefillsEnd, PastTheBufferEnds

(* eof_indicator is set where the end has been met.                        *)
LEMMA ReadBytesAtMostEnds ==
  ASSUME WInv, ReadBytesAtMostBody \/ ReadBytesAtMostMore
  PROVE  Ends'
<1>1. /\ pc \in {"body", "more"}
      /\ UNCHANGED <<fd, off, zero_at, is_eof_reached, buffer_capacity>>
      /\ \/ CopyThenRefill /\ UNCHANGED eof_indicator
         \/ no_data /\ pc' = "ret" /\ eof_indicator' \in {eof_indicator, TRUE}
  BY DEF ReadBytesAtMostBody, ReadBytesAtMostMore, InLoop, handle, flags, Throw, Finish
<1>2. CASE CopyThenRefill /\ UNCHANGED eof_indicator
  <2>1. pc' = "ret" \/ \E bp : HasNoDataLeft("more", bp, is_eof_reached)
    BY <1>2 DEF CopyThenRefill, Finish
  <2>2. Flagged'
    BY <1>1, <1>2, FlaggedStill DEF WInv, Ends
  <2>. QED
    BY <1>1, <1>2, <2>1, <2>2, ReturnEnds, RefillsEnd
<1>3. CASE no_data /\ pc' = "ret" /\ eof_indicator' \in {eof_indicator, TRUE}
  <2>1. Flagged'
    BY <1>1, <1>3 DEF WInv, Ends, Flagged, Emptied
  <2>. QED
    BY <1>3, <2>1, ReturnEnds
<1>. QED
  BY <1>1, <1>2, <1>3

LEMMA StillEnds ==
  ASSUME WInv, UNCHANGED <<handle, transfer, memory, window, buffer_pos, flags, pc, no_data, call>>
  PROVE  Ends'
<1> USE DEF WInv, Ends, handle, transfer, memory, window, flags
<1>1. Flagged'
  BY FlaggedStill
<1>2. Asked'
  BY DEF Asked, SeekLength, SeekBase
<1>3. Emptied'
  BY DEF Emptied
<1>. QED
  BY <1>1, <1>2, <1>3

LEMMA CallEnds == ASSUME WInv, Call PROVE Ends'
BY CallsAtEofEnds, SizedCallsEnd, SeekEnds, HandleCallsEnd DEF Call

LEMMA StepEnds == ASSUME WInv, Step PROVE Ends'
BY ReadsEnd, ReadFailsEnds, FillReturnEnds, RefillReturnEnds, ReturnsEnd, LoopsEnd,
   ReadBytesAtMostEnds DEF Step

LEMMA NextEnds == WInv /\ [Next]_vars => Ends'
BY CallEnds, StepEnds, StillEnds DEF Next, World, vars, frame

-----------------------------------------------------------------------------
(* Nothing comes out of a stream once it has been found to be over.        *)

LEMMA SysReadDry ==
  ASSUME WInv, NEW r \in SysReadResults, SysRead(r), pc \in Sites, UNCHANGED world
  PROVE  Dry'
<1>0. IInv /\ r \in 0 .. want
  BY SysReadCount DEF WInv
<1>1. /\ r \in Nat /\ off \in Nat /\ want \in Nat /\ fd \in Files /\ size[fd] \in Nat
      /\ off' = off + r /\ fd' = fd /\ UNCHANGED <<streams, size, ended>>
      /\ zero_at' = IF r = 0 /\ want > 0 THEN off ELSE zero_at
  <2>1. want \in Nat /\ off \in Nat /\ fd \in Files /\ size[fd] \in Nat
    BY <1>0, Numbers DEF IInv, Typed, WorldOK, Control
  <2>. QED
    BY <1>0, <2>1 DEF SysRead, world
<1>2. off + 0 = off
  BY <1>1
<1>3. CASE fd \in streams /\ zero_at # -1
  <2>1. zero_at = off /\ fd \in ended /\ size[fd] <= off
    BY <1>3 DEF WInv, Dry
  <2>2. r = 0
    <3>1. ~(size[fd] - off > 0) /\ ~(want > 0 /\ size[fd] - off < want /\ size[fd] - off > 0)
      BY <1>1, <2>1
    <3>2. fd \notin streams \ ended
      BY <2>1
    <3>. QED
      BY <1>1, <3>1, <3>2 DEF SysReadResults
  <2>. QED
    BY <1>1, <1>2, <2>1, <2>2 DEF Dry
<1>4. CASE fd \in streams /\ zero_at' # zero_at
  <2>1. r = 0 /\ want > 0 /\ zero_at' = off
    BY <1>1, <1>4
  <2>2. ~(size[fd] - off > 0) /\ fd \notin streams \ ended
    <3>1. 0 \notin 1 .. (IF size[fd] - off < want THEN size[fd] - off ELSE want)
      BY <1>1
    <3>. QED
      BY <1>1, <2>1, <3>1 DEF SysReadResults
  <2>3. size[fd] <= off
    BY <1>1, <2>2
  <2>. QED
    BY <1>1, <1>2, <1>4, <2>1, <2>2, <2>3 DEF Dry
<1>. QED
  BY <1>1, <1>3, <1>4 DEF Dry

LEMMA WorldDry == ASSUME WInv, World PROVE Dry'
<1>1. /\ UNCHANGED <<fd, off, zero_at, streams>>
      /\ \E f \in Files : Grow(f) \/ EndStream(f)
  BY DEF World, handle, Grow, EndStream
<1>2. fd \in ended => fd \in ended' /\ size'[fd] = size[fd]
  BY <1>1 DEF Grow, EndStream, WInv, IInv, Typed, WorldOK
<1>. QED
  BY <1>1, <1>2 DEF WInv, Dry

LEMMA DryStill == ASSUME WInv, UNCHANGED <<world, fd, off, zero_at>> PROVE Dry'
BY DEF WInv, Dry, world

LEMMA SeekDry == ASSUME WInv, NEW p, Seek(p) PROVE Dry'
<1>1. UNCHANGED <<world, fd, off, zero_at>>
      \/ (UNCHANGED <<world, fd>> /\ fd \notin streams)
  BY DEF Seek, SeekNegative, SeekWithinBuffer, SeekOutsideBuffer, SeekAndRefill, CanSeek, handle
<1>2. CASE UNCHANGED <<world, fd>> /\ fd \notin streams
  BY <1>2 DEF Dry, world
<1>. QED
  BY <1>1, <1>2, DryStill

LEMMA HandleCallsDry ==
  ASSUME WInv, (\E f \in Files : Open(f)) \/ Close
  PROVE  Dry'
<1>1. UNCHANGED <<world, fd, off, zero_at>> \/ zero_at' = -1
  BY DEF Open, OpenHandle, Close, CloseHandle, handle
<1>. QED
  BY <1>1, DryStill DEF Dry

LEMMA CallDry == ASSUME WInv, Call PROVE Dry'
<1>1. CASE \/ AtEofCall \/ PeekByte \/ ReadByte
           \/ \E n \in Counts : ReadBytes(n) \/ ReadBytesAtMost(n)
  <2>1. UNCHANGED <<world, fd, off, zero_at>>
    BY <1>1 DEF AtEofCall, PeekByte, ReadByte, ReadBytes, ReadBytesAtMost, CallAtEof, handle
  <2>. QED
    BY <2>1, DryStill
<1>2. CASE ReadBytesAll \/ ReadBytesToEnd \/ GetFileSize
           \/ \E c \in Capacities : SetBufferSize(c)
  <2>1. UNCHANGED <<world, fd, off, zero_at>>
    BY <1>2 DEF ReadBytesAll, ReadBytesToEnd, GetFileSize, SetBufferSize, GotFileSize, handle
  <2>. QED
    BY <2>1, DryStill
<1>. QED
  BY <1>1, <1>2, SeekDry, HandleCallsDry DEF Call

LEMMA StepDry == ASSUME WInv, Step PROVE Dry'
<1>1. CASE ReadIntoBuffer \/ ReadIntoCaller
  <2>1. pc \in Sites /\ UNCHANGED world /\ \E r \in SysReadResults : SysRead(r)
    BY <1>1 DEF ReadIntoBuffer, ReadIntoCaller, Sites
  <2>. QED
    BY <2>1, SysReadDry
<1>2. CASE ~(ReadIntoBuffer \/ ReadIntoCaller)
  <2>1. UNCHANGED world /\ UNCHANGED handle
    BY <1>2 DEF Step, ReadFails, FillReturn, RefillReturn, BulkReturn, WholeReturn, AtEofReturn,
       ByteReturn, ReadBytesBody, ReadBytesMore, ReadBytesAtMostBody, ReadBytesAtMostMore,
       DrainMore, SeekMore, Take, InLoop
  <2>. QED
    BY <2>1, DryStill DEF handle
<1>. QED
  BY <1>1, <1>2

LEMMA NextDry == WInv /\ [Next]_vars => Dry'
<1>1. ASSUME WInv, UNCHANGED vars PROVE Dry'
  BY <1>1, DryStill DEF vars, handle
<1>. QED
  BY <1>1, CallDry, StepDry, WorldDry DEF Next

LEMMA InitWInv == Init => WInv
<1> SUFFICES ASSUME Init PROVE WInv
  OBVIOUS
<1>1. pc = "idle" /\ is_eof_reached = FALSE /\ eof_indicator = FALSE /\ zero_at = -1
  BY DEF Init, HandleInit
<1>2. Ends /\ Dry
  BY <1>1 DEF Ends, Flagged, Asked, Emptied, Dry, Sites
<1>. QED
  BY <1>2, InitIInv, InitCInv DEF WInv

LEMMA NextWInv == WInv /\ [Next]_vars => WInv'
BY NextIInv, NextCInv, NextEnds, NextDry DEF WInv

-----------------------------------------------------------------------------
(* From here on an object opens one file only.  The size that              *)
(* get_file_size() has cached is then a size of that file.                 *)

OneFile == \A f, g \in Files : f = g

Cached ==
  /\ file_size \in Nat => \A f \in Files : file_size <= size[f] /\ f \notin streams
  /\ file_size = NotRegular => Files \subseteq streams

(* The position is in the window, the window in the file.                  *)
Inside ==
  /\ buffer_pos <= buffer_size
  /\ pc # "aborted"
  /\ fd # NoFile => off <= size[fd]
  /\ pc = "refill" => call.arg <= file_size /\ (read_over => call.arg <= off)

PInv == OneFile /\ WInv /\ Cached /\ Inside

LEMMA Numbers2 ==
  ASSUME PInv
  PROVE  /\ IInv /\ CInv /\ buffer_pos \in Nat /\ buffer_size \in Nat /\ off \in Nat /\ got \in Nat
         /\ left \in Nat /\ file_pos_of_buffer_start \in Nat /\ buffer_pos <= buffer_size
         /\ \A f \in Files : size[f] \in Nat
         /\ file_size \in Nat \cup {Unknown, NotRegular} /\ fd \in Files \cup {NoFile}
BY Numbers DEF PInv, WInv, Inside, IInv, Typed, WorldOK, HandleOK

LEMMA FileSizeCached ==
  ASSUME PInv, NEW s \in FileSizeResults
  PROVE  /\ s \in Nat => \A f \in Files : s <= size[f] /\ f \notin streams
         /\ s = NotRegular => Files \subseteq streams
<1>1. CASE file_size # Unknown
  BY <1>1 DEF FileSizeResults, PInv, Cached
<1>2. CASE file_size = Unknown /\ fd = NoFile
  BY <1>2 DEF FileSizeResults, Unknown, NotRegular
<1>3. CASE file_size = Unknown /\ fd # NoFile
  <2>1. s = Unknown \/ (fd \in streams /\ s = NotRegular) \/ (fd \notin streams /\ s = size[fd])
    BY <1>3 DEF FileSizeResults
  <2>2. fd \in Files /\ size[fd] \in Nat /\ \A f \in Files : f = fd
    BY <1>3, Numbers2 DEF PInv, OneFile
  <2>. QED
    BY <2>1, <2>2 DEF Unknown, NotRegular
<1>. QED
  BY <1>1, <1>2, <1>3

LEMMA CallCached == ASSUME PInv, Call PROVE Cached'
<1>1. UNCHANGED world /\ (UNCHANGED file_size \/ file_size' \in FileSizeResults)
  <2>1. CASE \/ AtEofCall \/ PeekByte \/ ReadByte
             \/ \E n \in Counts : ReadBytes(n) \/ ReadBytesAtMost(n)
    BY <2>1 DEF AtEofCall, PeekByte, ReadByte, ReadBytes, ReadBytesAtMost, CallAtEof, handle
  <2>2. CASE ReadBytesAll \/ ReadBytesToEnd \/ GetFileSize
    BY <2>2 DEF ReadBytesAll, ReadBytesToEnd, GetFileSize, GotFileSize, handle
  <2>3. CASE \E p \in Targets : Seek(p)
    BY <2>3 DEF Seek, SeekNegative, SeekWithinBuffer, SeekOutsideBuffer, handle
  <2>4. CASE \E f \in Files : Open(f)
    BY <2>4 DEF Open, OpenHandle, handle
  <2>5. CASE Close \/ \E c \in Capacities : SetBufferSize(c)
    BY <2>5 DEF Close, CloseHandle, SetBufferSize, handle
  <2>. QED
    BY <2>1, <2>2, <2>3, <2>4, <2>5 DEF Call
<1>. QED
  BY <1>1, FileSizeCached DEF PInv, Cached, world

LEMMA CachedStill == ASSUME PInv, UNCHANGED <<streams, size, file_size>> PROVE Cached'
BY DEF PInv, Cached

LEMMA StepCached == ASSUME PInv, Step PROVE Cached'
<1>1. UNCHANGED <<streams, size, file_size>>
  BY DEF Step, ReadIntoBuffer, ReadIntoCaller, SysRead, ReadFails, FillReturn, RefillReturn,
     BulkReturn, WholeReturn, AtEofReturn, ByteReturn, ReadBytesBody, ReadBytesMore,
     ReadBytesAtMostBody, ReadBytesAtMostMore, DrainMore, SeekMore, Take, InLoop, handle, world
<1>. QED
  BY <1>1, CachedStill

LEMMA WorldCached == ASSUME PInv, World PROVE Cached'
<1>1. UNCHANGED <<file_size, streams>> /\ \E f \in Files : Grow(f) \/ EndStream(f)
  BY DEF World, handle, Grow, EndStream
<1>2. \A f \in Files : size'[f] >= size[f] /\ size'[f] \in Nat
  BY <1>1, Numbers2 DEF Grow, EndStream, IInv, Typed, WorldOK
<1>. QED
  BY <1>1, <1>2, Numbers2 DEF PInv, Cached

LEMMA NextCached == PInv /\ [Next]_vars => Cached'
BY CallCached, StepCached, WorldCached, CachedStill DEF Next, vars, world, handle

-----------------------------------------------------------------------------
(* Inside, step by step.                                                   *)

LEMMA RestInside ==
  ASSUME PInv, pc' \notin {"aborted", "refill"}, buffer_pos' <= buffer_size',
         UNCHANGED <<size, fd, off>>
  PROVE  Inside'
BY DEF PInv, Inside

LEMMA HasNoDataLeftInside ==
  ASSUME PInv, NEW next \in {"body", "more"}, NEW at_end, HasNoDataLeft(next, buffer_size, at_end),
         UNCHANGED <<size, fd, off>>
  PROVE  Inside'
<1>1. /\ pc' \in {"body", "more", "fill", "ret"}
      /\ \/ buffer_pos' = 0 /\ buffer_size' = 0
         \/ buffer_pos' = buffer_size /\ buffer_size' = buffer_size
  BY DEF HasNoDataLeft, FhRead, Finish
<1>. QED
  BY <1>1, RestInside, Numbers2

LEMMA AtEofInside ==
  ASSUME PInv, AtEof("body"), UNCHANGED <<size, fd, off>>
  PROVE  Inside'
<1>1. CASE buffer_pos < buffer_size
  <2>1. pc' = "body" /\ UNCHANGED <<buffer_pos, buffer_size>>
    BY <1>1, Numbers2 DEF AtEof, window
  <2>. QED
    BY <2>1, RestInside, Numbers2
<1>2. CASE ~(buffer_pos < buffer_size)
  <2>1. buffer_pos = buffer_size
    BY <1>2, Numbers2
  <2>2. HasNoDataLeft("body", buffer_size, is_eof_reached)
    BY <1>2, <2>1 DEF AtEof
  <2>. QED
    BY <2>2, HasNoDataLeftInside
<1>. QED
  BY <1>1, <1>2

LEMMA SameInside ==
  ASSUME PInv, pc' \notin {"aborted", "refill"}, UNCHANGED <<size, fd, off, buffer_pos, buffer_size>>
  PROVE  Inside'
BY RestInside, Numbers2

LEMMA CopyInside ==
  ASSUME PInv, CopyThenRefill, UNCHANGED <<size, fd, off>>
  PROVE  Inside'
<1> DEFINE n == IF Available < left THEN Available ELSE left
<1>1. \/ /\ left = n /\ buffer_pos' = buffer_pos + n /\ pc' = "ret" /\ UNCHANGED buffer_size
      \/ left # n /\ HasNoDataLeft("more", buffer_pos + n, is_eof_reached)
  BY DEF CopyThenRefill, Finish, window
<1>2. buffer_pos + n <= buffer_size /\ (left # n => buffer_pos + n = buffer_size)
  BY Numbers2 DEF Available
<1> HIDE DEF n
<1>3. CASE left = n
  BY <1>1, <1>2, <1>3, RestInside
<1>4. CASE left # n
  <2>1. HasNoDataLeft("more", buffer_size, is_eof_reached)
    BY <1>1, <1>2, <1>4
  <2>. QED
    BY <2>1, HasNoDataLeftInside
<1>. QED
  BY <1>3, <1>4

LEMMA SeekInside == ASSUME PInv, NEW p \in Targets, Seek(p) PROVE Inside'
<1>0. p \in Int
  BY IFileAssumption
<1>1. CASE SeekNegative(p)
  <2>1. pc' = "ret" /\ UNCHANGED <<size, fd, off, buffer_pos, buffer_size>>
    BY <1>1 DEF SeekNegative, Throw, Finish, world, handle, window
  <2>. QED
    BY <2>1, SameInside
<1>2. CASE SeekWithinBuffer(p)
  <2>1. /\ pc' = "ret" /\ UNCHANGED <<size, fd, off, buffer_size>>
        /\ buffer_pos' = p - file_pos_of_buffer_start
        /\ p <= file_pos_of_buffer_start + buffer_size
    BY <1>2 DEF SeekWithinBuffer, InWindow, Finish, world, handle, window
  <2>2. buffer_pos' <= buffer_size'
    BY <1>0, <2>1, Numbers2
  <2>. QED
    BY <2>1, <2>2, RestInside
<1>3. CASE SeekOutsideBuffer(p)
  <2>1. PICK s \in FileSizeResults :
          /\ UNCHANGED <<size, fd>> /\ file_size' = s /\ call'.arg = p /\ p >= 0
          /\ \/ pc' = "ret" /\ UNCHANGED <<off, buffer_pos, buffer_size>>
             \/ HasNoDataLeft("more", buffer_size, FALSE) /\ UNCHANGED off
             \/ /\ pc' = "refill" /\ UNCHANGED <<buffer_pos, buffer_size>> /\ off' = SeekBase(p)
                /\ read_over' = FALSE /\ s >= 0 /\ p <= s /\ fd # NoFile
    <3>1. PICK s \in FileSizeResults :
            /\ UNCHANGED <<world, fd>> /\ file_size' = s /\ call'.arg = p /\ p >= 0
            /\ \/ s = Unknown /\ Throw(FileSizeError) /\ UNCHANGED off
               \/ s = NotRegular /\ SeekForward(p) /\ UNCHANGED off
               \/ s >= 0 /\ PastTheEnd(p, s) /\ Throw("SeekFailed") /\ UNCHANGED off
               \/ s >= 0 /\ ~PastTheEnd(p, s) /\ SeekAndRefill(p)
      BY <1>3 DEF SeekOutsideBuffer, Begin
    <3>2. s \in Int
      BY <3>1, Numbers2 DEF FileSizeResults, Unknown, NotRegular
    <3>3. ~PastTheEnd(p, s) => p <= s
      BY <1>0, <3>2 DEF PastTheEnd
    <3>. QED
      BY <3>1, <3>3 DEF world, Throw, Finish, SeekForward, SeekAndRefill, StartRead, window
  <2>2. CASE pc' = "ret" /\ UNCHANGED <<off, buffer_pos, buffer_size>>
    BY <2>1, <2>2, SameInside
  <2>3. CASE HasNoDataLeft("more", buffer_size, FALSE) /\ UNCHANGED off
    BY <2>1, <2>3, HasNoDataLeftInside
  <2>4. CASE /\ pc' = "refill" /\ UNCHANGED <<buffer_pos, buffer_size>> /\ off' = SeekBase(p)
             /\ read_over' = FALSE /\ s >= 0 /\ p <= s /\ fd # NoFile
    <3>1. s \in Nat /\ s <= size[fd] /\ size[fd] \in Nat
      <4>1. s \in Int
        BY <2>1, Numbers2 DEF FileSizeResults, Unknown, NotRegular
      <4>2. fd \in Files
        BY <2>4, Numbers2
      <4>. QED
        BY <2>1, <2>4, <4>1, <4>2, FileSizeCached, Numbers2
    <3>2. SeekBase(p) <= p /\ SeekBase(p) \in Nat
      BY <1>0, <2>1, SeekBaseBounds
    <3>3. off' <= size'[fd']
      BY <1>0, <2>1, <2>4, <3>1, <3>2
    <3>. QED
      BY <2>1, <2>4, <3>3, Numbers2 DEF Inside
  <2>. QED
    BY <2>1, <2>2, <2>3, <2>4
<1>. QED
  BY <1>1, <1>2, <1>3 DEF Seek

LEMMA CallInside == ASSUME PInv, Call PROVE Inside'
<1>1. CASE \/ AtEofCall \/ PeekByte \/ ReadByte
           \/ \E n \in Counts : ReadBytes(n) \/ ReadBytesAtMost(n)
  <2>1. AtEof("body") /\ UNCHANGED <<size, fd, off>>
    BY <1>1 DEF AtEofCall, PeekByte, ReadByte, ReadBytes, ReadBytesAtMost, CallAtEof, handle, world
  <2>. QED
    BY <2>1, AtEofInside
<1>2. CASE ReadBytesAll \/ ReadBytesToEnd \/ GetFileSize
  <2>1. /\ UNCHANGED <<size, fd, off>>
        /\ \/ AtEof("body") \/ HasNoDataLeft("more", buffer_size, is_eof_reached)
           \/ pc' \in {"ret", "whole"} /\ UNCHANGED <<buffer_pos, buffer_size>>
    BY <1>2 DEF ReadBytesAll, ReadBytesToEnd, GetFileSize, GotFileSize, handle, world, Throw,
       DrainThenRefill, ReadWhole, FhRead, Finish, window
  <2>. QED
    BY <2>1, AtEofInside, HasNoDataLeftInside, SameInside
<1>3. CASE \E c \in Capacities : SetBufferSize(c)
  <2>1. pc' = "ret" /\ UNCHANGED <<size, fd, off, buffer_pos, buffer_size>>
    BY <1>3 DEF SetBufferSize, Finish, handle, world, window
  <2>. QED
    BY <2>1, SameInside
<1>4. CASE Close
  <2>1. pc' = "ret" /\ fd' = NoFile /\ buffer_pos' = 0 /\ buffer_size' = 0
    BY <1>4 DEF Close, CloseHandle, ResetWindow, Finish
  <2>. QED
    BY <2>1 DEF Inside
<1>5. ASSUME NEW f \in Files, Open(f) PROVE Inside'
  <2>1. /\ pc' = "ret" /\ UNCHANGED <<size, buffer_pos, buffer_size>>
        /\ UNCHANGED <<fd, off>> \/ (fd' = f /\ off' = 0)
    BY <1>5 DEF Open, OpenHandle, Throw, Finish, handle, world, window
  <2>2. CASE UNCHANGED <<fd, off>>
    BY <2>1, <2>2, SameInside
  <2>3. CASE fd' = f /\ off' = 0
    BY <2>1, <2>3, Numbers2 DEF Inside
  <2>. QED
    BY <2>1, <2>2, <2>3
<1>. QED
  BY <1>1, <1>2, <1>3, <1>4, <1>5, SeekInside DEF Call

(* A read gives nothing that the file has not got, and a seek whose read   *)
(* is over has the byte before its target.                                 *)
LEMMA ReadsInside == ASSUME PInv, ReadIntoBuffer \/ ReadIntoCaller PROVE Inside'
<1>1. PICK r \in SysReadResults :
        /\ SysRead(r) /\ pc \in Sites
        /\ pc' \in {pc, "overrun"} /\ UNCHANGED <<size, buffer_pos, buffer_size, call>>
  BY DEF ReadIntoBuffer, ReadIntoCaller, Sites, world, window
<1>2. /\ r \in Nat /\ r <= want /\ want \in Nat /\ off \in Nat /\ got \in Nat
      /\ off' = off + r /\ want' = want - r /\ fd' = fd /\ file_size' = file_size
      /\ fd \in Files /\ size[fd] \in Nat /\ off <= size[fd]
  BY <1>1, SysReadCount, Numbers2, FilesAssumption
  DEF SysRead, PInv, Inside, IInv, Typed, TransferOK, Control
<1>3. off + r <= size[fd]
  <2>1. CASE size[fd] - off > 0 /\ want > 0
    BY <1>1, <1>2, <2>1 DEF SysReadResults
  <2>2. CASE ~(size[fd] - off > 0 /\ want > 0)
    <3>1. r = 0
      BY <1>1, <1>2, <2>2 DEF SysReadResults
    <3>. QED
      BY <1>2, <3>1
  <2>. QED
    BY <2>1, <2>2
<1>4. ASSUME pc = "refill", r = 0 \/ r = want PROVE call.arg <= off + r
  <2>1. /\ call.arg \in Nat /\ off = SeekBase(call.arg) + got
        /\ got + want = SeekLength(call.arg)
    BY <1>4, Numbers2 DEF PInv, WInv, Ends, Asked, CInv, Coherent, IInv, Control
  <2>2. /\ SeekBase(call.arg) \in Nat /\ call.arg - SeekBase(call.arg) < SeekChunk
        /\ SeekLength(call.arg) >= SeekChunk /\ SeekLength(call.arg) \in Nat /\ SeekChunk \in Nat
    BY <2>1, SeekBaseBounds, IFileAssumption DEF SeekLength
  <2>3. CASE r = want
    BY <1>2, <2>1, <2>2, <2>3
  <2>4. CASE r # want
    <3>1. r = 0 /\ want > 0
      BY <1>2, <1>4, <2>4
    <3>2. ~(size[fd] - off > 0)
      <4>1. 0 \notin 1 .. (IF size[fd] - off < want THEN size[fd] - off ELSE want)
        BY <1>2
      <4>. QED
        BY <1>1, <1>2, <3>1, <4>1 DEF SysReadResults
    <3>3. call.arg <= file_size /\ file_size \in Nat
      BY <1>4, Numbers2 DEF PInv, Inside, IInv, Control
    <3>4. file_size <= size[fd]
      BY <1>2, <3>3 DEF PInv, Cached
    <3>. QED
      BY <1>2, <2>1, <3>1, <3>2, <3>3, <3>4
  <2>. QED
    BY <2>3, <2>4
<1>5. read_over' => r = 0 \/ r = want
  BY <1>1 DEF SysRead, LoopEnds
<1>6. (pc = "refill" => call.arg <= file_size /\ (read_over => call.arg <= off))'
  <2>1. pc = "refill" => call.arg <= file_size
    BY DEF PInv, Inside
  <2>. QED
    BY <1>1, <1>2, <1>4, <1>5, <2>1
<1>7. pc' # "aborted" /\ off' <= size'[fd']
  BY <1>1, <1>2, <1>3 DEF Sites
<1>. QED
  BY <1>1, <1>6, <1>7, Numbers2 DEF Inside

LEMMA StepInside == ASSUME PInv, Step PROVE Inside'
<1>1. CASE FillReturn
  <2>1. buffer_pos' = 0 /\ buffer_size' = got /\ pc' = ret /\ UNCHANGED <<size, fd, off>>
    BY <1>1 DEF FillReturn, world, handle
  <2>2. ret \in {"body", "more"}
    BY Numbers2 DEF IInv, Typed, PlaceOK
  <2>. QED
    BY <2>1, <2>2, RestInside, Numbers2
<1>2. CASE RefillReturn
  <2>1. /\ pc = "refill" /\ read_over /\ pc' = "ret" /\ UNCHANGED <<size, fd, off>>
        /\ buffer_size' = got /\ buffer_pos' = call.arg - file_pos_of_buffer_start
    BY <1>2 DEF RefillReturn, Finish, world, handle
  <2>2. call.arg <= off /\ off = file_pos_of_buffer_start + got /\ call.arg \in Nat
    BY <2>1, Numbers2 DEF PInv, Inside, CInv, Coherent, IInv, Control
  <2>3. buffer_pos' <= buffer_size'
    BY <2>1, <2>2, Numbers2
  <2>. QED
    BY <2>1, <2>3, RestInside
<1>3. CASE ReadFails \/ BulkReturn \/ WholeReturn \/ AtEofReturn \/ Take
  <2>1. /\ pc' \in {"ret", "idle"} /\ UNCHANGED <<size, fd, off>>
        /\ \/ UNCHANGED <<buffer_pos, buffer_size>>
           \/ buffer_pos' = 0 /\ buffer_size' = 0
    BY <1>3 DEF ReadFails, BulkReturn, WholeReturn, AtEofReturn, Take, Throw, Finish, InLoop,
       world, handle, window
  <2>. QED
    BY <2>1, RestInside, Numbers2
<1>4. CASE ByteReturn
  <2>1. /\ pc = "body" /\ pc' = "ret" /\ UNCHANGED <<size, fd, off, buffer_size>>
        /\ \/ UNCHANGED buffer_pos
           \/ ~no_data /\ buffer_pos' = buffer_pos + 1
    BY <1>4 DEF ByteReturn, Throw, Finish, InLoop, world, handle, window
  <2>2. ~no_data => buffer_pos < buffer_size
    BY <2>1, Numbers2 DEF IInv, Control
  <2>. QED
    BY <2>1, <2>2, RestInside, Numbers2
<1>5. CASE \/ ReadBytesBody \/ ReadBytesMore \/ ReadBytesAtMostBody \/ ReadBytesAtMostMore
           \/ DrainMore
  <2>1. /\ UNCHANGED <<size, fd, off>>
        /\ \/ CopyThenRefill \/ HasNoDataLeft("more", buffer_size, is_eof_reached)
           \/ pc' \in {"ret", "bulk"} /\ UNCHANGED <<buffer_pos, buffer_size>>
    BY <1>5 DEF ReadBytesBody, ReadBytesMore, ReadBytesAtMostBody, ReadBytesAtMostMore, DrainMore,
       DrainThenRefill, LargeRead, FhRead, Throw, Finish, InLoop, world, handle, window
  <2>. QED
    BY <2>1, CopyInside, HasNoDataLeftInside, SameInside
<1>6. CASE SeekMore
  <2>1. /\ UNCHANGED <<size, fd, off>>
        /\ \/ HasNoDataLeft("more", buffer_size, is_eof_reached)
           \/ pc' = "ret" /\ UNCHANGED <<buffer_pos, buffer_size>>
           \/ /\ pc' = "ret" /\ ~BeyondWindow /\ UNCHANGED buffer_size
              /\ buffer_pos' = call.arg - file_pos_of_buffer_start
    BY <1>6 DEF SeekMore, Throw, Finish, InLoop, world, handle, window
  <2>2. CASE /\ pc' = "ret" /\ ~BeyondWindow /\ UNCHANGED buffer_size
             /\ buffer_pos' = call.arg - file_pos_of_buffer_start
    <3>1. call.arg \in Int
      BY <1>6, Numbers2 DEF SeekMore, IInv, Typed, FrameOK
    <3>2. buffer_pos' <= buffer_size'
      BY <2>2, <3>1, Numbers2 DEF BeyondWindow
    <3>. QED
      BY <2>1, <2>2, <3>2, RestInside
  <2>. QED
    BY <2>1, <2>2, HasNoDataLeftInside, SameInside
<1>. QED
  BY <1>1, <1>2, <1>3, <1>4, <1>5, <1>6, ReadsInside DEF Step

LEMMA WorldInside == ASSUME PInv, World PROVE Inside'
<1>1. /\ UNCHANGED <<fd, off, file_size, buffer_pos, buffer_size, pc, call, read_over>>
      /\ \E f \in Files : Grow(f) \/ EndStream(f)
  BY DEF World, handle, transfer, window, frame
<1>2. \A f \in Files : size'[f] >= size[f] /\ size'[f] \in Nat
  BY <1>1, Numbers2 DEF Grow, EndStream, IInv, Typed, WorldOK
<1>3. fd # NoFile => off' <= size'[fd']
  BY <1>1, <1>2, Numbers2 DEF PInv, Inside
<1>. QED
  BY <1>1, <1>3 DEF PInv, Inside

LEMMA NextInside == PInv /\ [Next]_vars => Inside'
<1>1. ASSUME PInv, UNCHANGED vars PROVE Inside'
  BY <1>1 DEF vars, world, handle, transfer, window, frame, PInv, Inside
<1>. QED
  BY <1>1, CallInside, StepInside, WorldInside DEF Next

LEMMA InitPInv == OneFile /\ Init => PInv
<1> SUFFICES ASSUME OneFile, Init PROVE PInv
  OBVIOUS
<1>1. /\ pc = "idle" /\ buffer_pos = 0 /\ buffer_size = 0 /\ fd = NoFile /\ file_size = Unknown
  BY DEF Init, HandleInit
<1>2. Cached /\ Inside
  BY <1>1 DEF Cached, Inside, Unknown, NotRegular
<1>. QED
  BY <1>2, InitWInv DEF PInv

LEMMA NextPInv == PInv /\ [Next]_vars => PInv'
BY NextWInv, NextCached, NextInside DEF PInv, OneFile
=============================================================================
