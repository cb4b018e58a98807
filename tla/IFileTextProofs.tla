-------------------------- MODULE IFileTextProofs ---------------------------
(***************************************************************************)
(* Proofs about the text calls of IFile for every value of the constants:  *)
(* any texts, delimiters and signatures, a default buffer of any size that *)
(* has room for a seek, and an object that opens one file only.            *)
(***************************************************************************)
EXTENDS IFileTextProperties, IFileProofs, UtfProofs

(* What a text file holds does not change, and there is enough of it.      *)
Contents ==
  /\ content \in [Files -> Texts] /\ \A f \in Files : size[f] <= Len(content[f])
  /\ grown \in Nat

(* A file that has not grown ends where a read has met its end.            *)
EndSeen == grown = 0 /\ fd # NoFile /\ zero_at # -1 => size[fd] <= zero_at

(* A window is as large as was asked for, or else goes up to the end.      *)
Full ==
  fd # NoFile /\ ~torn /\ pc \in Resting \cup {"ret"} /\ buffer_size # 0 =>
    \/ buffer_size \in {buffer_capacity, SeekChunk, 2 * SeekChunk}
    \/ grown = 0 => size[fd] <= off

(* Before the work of a call, and in the loop of one.                      *)
Entering == pc = "body" \/ (pc = "fill" /\ ret = "body")
Looping  == pc = "more" \/ (pc = "fill" /\ ret = "more")

Calls == TextOps \cup {"none", "at_eof", "read_byte", "seek", "open", "close"}

(* Which calls are where, and what they have taken by then.                *)
Shape ==
  /\ call.op \in Calls /\ left \in 0 .. 5
  /\ torn => pc \in {"idle", "ret"} \/ call.op = "seek"
  /\ pc \in Resting \cup {"fill", "refill", "whole", "ret"}
  /\ pc = "idle" => left = 0 /\ out = <<>>
  /\ pc = "refill" => call.op = "seek"
  /\ pc = "whole" => call.op = "read_text"
  /\ pc = "more" /\ ~no_data => buffer_pos = 0 /\ buffer_size > 0

(* What the frame of each call says of it.                                 *)
Framed ==
  /\ call.loop = "exact" => call.op = "read_char"
  /\ call.loop = "skip" => call.op = "seek"
  /\ call.loop # "at_most"
  /\ call.loop = "drain" => call.op \in {"read_text", "read_text_to_end"}
  /\ call.op \in Lines => call.arg \in [delim : 0 .. 255, keep : BOOLEAN]
  /\ call.op \in {"read_line", "read_line_reae"} => call.arg.delim = LF
  /\ call.op = "starts_with" => call.arg \in Signatures

(* A call that has just asked at_eof() has taken nothing.                  *)
Entered ==
  Entering =>
    /\ call.op \in TextOps \cup {"at_eof", "read_byte"}
    /\ call.op = "starts_with" => call.start = 0
    /\ call.loop # "exact" =>
         /\ out = <<>> /\ left = 0
         /\ call.start = IF pc = "body" THEN tell ELSE file_pos_of_buffer_start

LoopOps == {"read_text", "read_text_to_end", "read_char", "seek"} \cup Lines

(* A line that goes on has begun.                                          *)
Looped == Looping => call.op \in LoopOps /\ (call.op \in Lines => out # <<>>)

Where == Shape /\ Framed /\ Entered /\ Looped

Placed == Contents /\ EndSeen /\ Full /\ Where

(* The text calls run with the default buffer, which has room for a seek.  *)
Roomy == buffer_capacity = DefaultCapacity

TInv == PInv /\ Placed /\ Roomy

LEMMA HasRoom == ASSUME Roomy PROVE buffer_capacity \in Nat /\ buffer_capacity >= 2 * SeekChunk
BY IFileAssumption DEF Roomy

-----------------------------------------------------------------------------
(* The bytes of the window.                                                *)

LEMMA BetweenIs ==
  ASSUME IInv, NEW a \in Nat, NEW b \in Nat, a <= b, b <= buffer_size
  PROVE  /\ Between(a, b) \in Seq(Byte) /\ Len(Between(a, b)) = b - a
         /\ \A k \in 1 .. b - a : Between(a, b)[k] = buffer[a + k - 1]
         /\ out \o Between(a, b) \in Seq(Byte)
         /\ Len(out \o Between(a, b)) = Len(out) + (b - a)
<1>1. \A k \in 1 .. b - a : buffer[a + k - 1] \in Byte
  BY DEF IInv, Typed, BufferOK
<1>2. out \in Seq(Byte)
  BY DEF IInv, Typed, FrameOK
<1>. QED
  BY <1>1, <1>2 DEF Between

(* At the places where a call works on the window.                         *)
LEMMA Working ==
  ASSUME TInv, pc \in {"body", "more"}, call.op # "seek"
  PROVE  /\ ~torn /\ fd \in Files /\ Holds(buffer_size)
         /\ off = file_pos_of_buffer_start + buffer_size /\ off <= size[fd]
         /\ ~no_data => buffer_pos < buffer_size
         /\ no_data => is_eof_reached /\ buffer_pos = 0 /\ buffer_size = 0
<1>0. buffer_capacity # 0
  BY HasRoom, IFileAssumption DEF TInv
<1>1. ~torn
  BY DEF TInv, Placed, Where, Shape
<1>2. /\ Holds(buffer_size) /\ off = file_pos_of_buffer_start + buffer_size
      /\ fd = NoFile => buffer_size = 0
  BY <1>1, Resting1 DEF TInv, PInv, WInv, Resting
<1>3. ~no_data => buffer_pos < buffer_size
  BY DEF TInv, Placed, Where, Shape, PInv, WInv, IInv, Control
<1>4. no_data => is_eof_reached /\ buffer_pos = 0 /\ buffer_size = 0
  BY <1>0 DEF TInv, PInv, WInv, Ends, Emptied
<1>5. fd # NoFile
  BY <1>2, <1>3, <1>4, Numbers DEF TInv, PInv, WInv, Ends, Flagged
<1>6. fd \in Files
  BY <1>5 DEF TInv, PInv, WInv, IInv, Typed, HandleOK
<1>. QED
  BY <1>1, <1>2, <1>3, <1>4, <1>5, <1>6 DEF TInv, PInv, Inside

-----------------------------------------------------------------------------
(* The text calls keep what holds of the buffer.                           *)

(* A call that is over.  Only the indicator of a passed end may be new.    *)
LEMMA ThrowPInv ==
  ASSUME PInv, pc \in Resting, NEW e, Throw(e),
         UNCHANGED <<world, fd, off, zero_at, buffer, buffer_capacity, is_eof_reached, lost>>,
         HandleOK', FrameOK', Cached', eof_indicator' \in BOOLEAN
  PROVE  PInv'
<1>1. IInv /\ CInv /\ Ends /\ Dry /\ OneFile /\ buffer_pos <= buffer_size
  BY DEF PInv, WInv, Inside
<1>2. pc' = "ret"
  BY DEF Throw, Finish
<1>3. IInv'
  <2>1. TransferOK' /\ BufferOK' /\ PlaceOK' /\ Control'
    BY <1>1, Numbers, ThrowOK
  <2>2. WorldOK' /\ FlagsOK' /\ lost' \in Losses
    BY <1>1 DEF IInv, Typed, WorldOK, FlagsOK, world
  <2>. QED
    BY <2>1, <2>2 DEF IInv, Typed
<1>4. CInv'
  BY <1>1, ThrowCInv
<1>5. Ends'
  <2>1. Flagged'
    BY <1>1 DEF Ends, Flagged
  <2>. QED
    BY <2>1, <1>2, ReturnEnds
<1>6. Dry'
  BY <1>1, DryStill DEF PInv
<1>7. Inside'
  BY <1>2, SameInside DEF world, Throw, window
<1>. QED
  BY <1>1, <1>3, <1>4, <1>5, <1>6, <1>7 DEF PInv, WInv, OneFile

LEMMA InLoopThrowPInv ==
  ASSUME PInv, pc \in {"body", "more"}, NEW e, Throw(e), UNCHANGED <<eof_indicator, lost>>, InLoop
  PROVE  PInv'
<1>1. IInv /\ pc \in Resting
  BY DEF PInv, WInv, Resting
<1>2. WorldOK' /\ HandleOK' /\ FlagsOK' /\ UNCHANGED <<handle, buffer, buffer_capacity, call, world>>
  BY <1>1, InLoopOK DEF InLoop
<1>3. FrameOK'
  BY <1>1, <1>2 DEF IInv, Typed, FrameOK, Throw
<1>4. Cached'
  BY <1>2, CachedStill DEF world, handle
<1>5. eof_indicator' \in BOOLEAN
  BY <1>1 DEF IInv, Typed, FlagsOK
<1>6. is_eof_reached' = is_eof_reached
  BY DEF InLoop, flags
<1>. QED
  BY <1>1, <1>2, <1>3, <1>4, <1>5, <1>6, ThrowPInv DEF handle

(* A call that asks at_eof() first.                                        *)
LEMMA CallAtEofPInv ==
  ASSUME PInv, NEW op, NEW arg, NEW loop, loop # "skip", CallAtEof(op, arg, loop), UNCHANGED left
  PROVE  PInv'
<1>1. IInv /\ CInv /\ Ends /\ Dry /\ OneFile
  BY DEF PInv, WInv
<1>2. /\ pc \in Resting /\ AtEof("body")
      /\ UNCHANGED <<world, handle, buffer, buffer_capacity, flags, lost>>
  BY DEF CallAtEof, Begin, Resting
<1>3. IInv'
  BY <1>1, CallAtEofIInv DEF IInv, Typed, FrameOK
<1>4. CInv'
  BY <1>1, <1>2, AtEofCInv DEF handle
<1>5. Ends'
  BY <1>2, AtEofEnds DEF PInv, handle, flags
<1>6. Dry'
  BY <1>2, DryStill DEF PInv, handle
<1>7. Cached'
  BY <1>2, CachedStill DEF world, handle
<1>8. Inside'
  BY <1>2, AtEofInside DEF world, handle
<1>. QED
  BY <1>1, <1>3, <1>4, <1>5, <1>6, <1>7, <1>8 DEF PInv, WInv, OneFile

(* The rest of the buffer is taken, and it is filled again.                *)
LEMMA GulpPInv ==
  ASSUME PInv, pc \in {"body", "more"}, NEW p \in Nat, p <= buffer_size,
         out' = out \o Between(p, buffer_size),
         HasNoDataLeft("more", buffer_size, is_eof_reached), call.loop # "skip",
         UNCHANGED <<world, handle, buffer, buffer_capacity, flags, call, left, lost>>
  PROVE  PInv'
<1>1. IInv /\ CInv /\ Ends /\ Dry /\ OneFile /\ pc \in Resting /\ buffer_pos <= buffer_size
  BY DEF PInv, WInv, Inside, Resting
<1>2. out' \in Seq(Byte)
  <2>1. buffer_size \in Nat /\ buffer_size <= buffer_size
    BY <1>1, Numbers
  <2>2. out \o Between(p, buffer_size) \in Seq(Byte)
    BY <1>1, <2>1, BetweenIs
  <2>. QED
    BY <2>2
<1>3. IInv'
  <2>1. HandleOK' /\ WorldOK' /\ FlagsOK' /\ lost' \in Losses
    BY <1>1 DEF IInv, Typed, HandleOK, WorldOK, FlagsOK, handle, world, flags
  <2>2. buffer_size \in Nat /\ is_eof_reached \in BOOLEAN
    BY <1>1, Numbers
  <2>3. TransferOK' /\ BufferOK' /\ PlaceOK' /\ Control'
    BY <1>1, <2>1, <2>2, HasNoDataLeftOK DEF handle
  <2>4. FrameOK'
    BY <1>1, <1>2 DEF IInv, Typed, FrameOK
  <2>. QED
    BY <2>1, <2>3, <2>4 DEF IInv, Typed
<1>4. CInv'
  <2>1. ~torn /\ fd = NoFile => buffer_size = 0
    BY <1>1, Resting1
  <2>. QED
    BY <1>1, <2>1, Numbers, HasNoDataLeftCInv DEF handle
<1>5. Ends'
  BY RefillsEnd DEF PInv, handle, flags
<1>6. Dry'
  BY DryStill DEF PInv, handle
<1>7. Cached'
  BY CachedStill DEF world, handle
<1>8. Inside'
  BY <1>1, Numbers, HasNoDataLeftInside DEF world, handle
<1>. QED
  BY <1>1, <1>3, <1>4, <1>5, <1>6, <1>7, <1>8 DEF PInv, WInv, OneFile

(* The call stops within the window.                                       *)
LEMMA StopPInv ==
  ASSUME PInv, pc \in {"body", "more"}, NEW p \in Nat, p <= buffer_size, buffer_pos' = p,
         out' \in Seq(Byte), Finish("ok"), ~torn, fd \in Files,
         UNCHANGED <<world, handle, transfer, memory, window, flags, ret, no_data, call, left, lost>>
  PROVE  PInv'
<1>1. IInv /\ CInv /\ Ends /\ Dry /\ OneFile /\ pc \in Resting /\ pc' = "ret"
  BY DEF PInv, WInv, Inside, Resting, Finish
<1>2. IInv'
  <2>1. /\ WorldOK' /\ HandleOK' /\ TransferOK' /\ FlagsOK' /\ lost' \in Losses
    BY <1>1 DEF IInv, Typed, WorldOK, HandleOK, TransferOK, FlagsOK, world, handle, transfer, flags
  <2>2. BufferOK' /\ PlaceOK' /\ FrameOK'
    BY <1>1 DEF IInv, Typed, BufferOK, PlaceOK, FrameOK, memory, window, PCs
  <2>3. Control'
    BY <1>1, Numbers DEF IInv, Control, Sites, memory, window
  <2>. QED
    BY <2>1, <2>2, <2>3 DEF IInv, Typed
<1>3. CInv'
  <2>1. Holds(buffer_size) /\ off = file_pos_of_buffer_start + buffer_size
    BY <1>1, Resting1
  <2>2. fd # NoFile
    BY FilesAssumption
  <2>3. Holds(buffer_size)'
    BY <2>1 DEF Holds, memory, window, handle
  <2>. QED
    BY <1>1, <2>1, <2>2, <2>3, RestCInv DEF memory, window, handle
<1>4. Ends'
  BY <1>1, ReturnEnds, FlaggedStill DEF Ends, handle, flags
<1>5. Dry'
  BY DryStill DEF PInv, handle
<1>6. Cached'
  BY CachedStill DEF world, handle
<1>7. Inside'
  BY <1>1, RestInside DEF world, handle, window
<1>. QED
  BY <1>1, <1>2, <1>3, <1>4, <1>5, <1>6, <1>7 DEF PInv, WInv, OneFile

-----------------------------------------------------------------------------
(* Where the text begins.                                                  *)

LEMMA LenValues == ASSUME NEW s \in Seq(Byte) PROVE Len(Values(s)) = Len(s)
BY DEF Values

LEMMA AfterBomIs ==
  ASSUME TInv, pc = "body", call.op # "seek", ~no_data
  PROVE  /\ AfterBom \in Nat /\ AfterBom <= buffer_size
         /\ ~BomOnly => AfterBom < buffer_size
<1>1. IInv /\ buffer_pos \in Nat /\ buffer_size \in Nat /\ buffer_pos < buffer_size
  BY Working, Numbers DEF TInv, PInv, WInv
<1>2. Len(Values(Between(0, buffer_size))) = buffer_size
  <2>1. /\ Between(0, buffer_size) \in Seq(Byte)
        /\ Len(Between(0, buffer_size)) = buffer_size - 0
    <3>1. 0 \in Nat /\ 0 <= buffer_size /\ buffer_size <= buffer_size
      BY <1>1
    <3>. QED
      BY <1>1, <3>1, BetweenIs, Zenon
  <2>2. buffer_size - 0 = buffer_size
    BY <1>1
  <2>. QED
    BY <2>1, <2>2, LenValues
<1>3. BomHere => buffer_size >= 3
  BY <1>2 DEF BomHere, StartsWithBom
<1>. QED
  BY <1>1, <1>3 DEF AfterBom, BomOnly

LEMMA TrailingIsFew == ASSUME NEW b PROVE Trailing(b) \in 0 .. 5
BY DEF Trailing, trailingBytesForUTF8

(* The first byte of a character is taken.                                 *)
LEMMA ReadCharBodyPInv == ASSUME TInv, ReadCharBody PROVE PInv'
<1> USE DEF ReadCharBody
<1>1. /\ PInv /\ IInv /\ CInv /\ Ends /\ Dry /\ OneFile /\ pc = "body" /\ call.op # "seek"
      /\ call.loop # "skip" /\ pc \in Resting
  BY DEF TInv, PInv, WInv, Resting
<1>2. UNCHANGED <<world, handle, buffer, buffer_capacity, flags, lost>>
  OBVIOUS
<1>3. CASE no_data \/ BomOnly
  <2>1. \E e : Throw(e) /\ InLoop /\ UNCHANGED <<eof_indicator, lost>>
    BY <1>3 DEF InLoop, flags
  <2>. QED
    BY <1>1, <2>1, InLoopThrowPInv
<1>4. CASE ~(no_data \/ BomOnly)
  <2>1. AfterBom \in Nat /\ AfterBom < buffer_size /\ ~torn /\ fd \in Files
    BY <1>1, <1>4, AfterBomIs, Working
  <2>2. /\ out' = <<buffer[AfterBom]>>
        /\ left' = Trailing(Values(<<buffer[AfterBom]>>)[1])
        /\ call' = [call EXCEPT !.loop = "exact"]
        /\ \/ /\ AfterBom + 1 < buffer_size
              /\ buffer_pos' = AfterBom + 1
              /\ no_data' = FALSE /\ pc' = "body"
              /\ UNCHANGED <<allocated, window, ret, outcome, transfer>>
           \/ /\ AfterBom + 1 = buffer_size
              /\ HasNoDataLeft("body", AfterBom + 1, is_eof_reached)
    BY <1>4
  <2>3. buffer_size \in Nat /\ is_eof_reached \in BOOLEAN
    BY <1>1, Numbers
  <2>4. /\ WorldOK' /\ HandleOK' /\ FlagsOK' /\ lost' \in Losses
    BY <1>1, <1>2 DEF IInv, Typed, WorldOK, HandleOK, FlagsOK, world, handle, flags
  <2>5. FrameOK'
    <3>1. buffer[AfterBom] \in Byte
      BY <1>1, <2>1, <2>3 DEF IInv, Typed, BufferOK
    <3>2. out' \in Seq(Byte)
      BY <2>2, <3>1
    <3>3. left' \in Nat
      BY <2>2, TrailingIsFew
    <3>4. call'.start \in Nat /\ call'.loop # "skip"
      <4>1. call.start \in Nat
        BY <1>1 DEF IInv, Typed, FrameOK
      <4>. QED
        BY <2>2, <4>1 DEF TInv, Placed, Where, Framed
    <3>. QED
      BY <3>2, <3>3, <3>4 DEF FrameOK
  <2>6. call'.loop # "skip"
    BY <2>2, <1>1
  <2>7. CASE AfterBom + 1 < buffer_size
    <3>1. /\ buffer_pos' = AfterBom + 1 /\ no_data' = FALSE /\ pc' = "body"
          /\ UNCHANGED <<allocated, window, ret, outcome, transfer>>
      BY <2>1, <2>2, <2>3, <2>7
    <3>2. IInv'
      <4>1. TransferOK' /\ PlaceOK'
        BY <1>1, <3>1 DEF IInv, Typed, TransferOK, PlaceOK, PCs, transfer
      <4>3. BufferOK'
        BY <1>1, <1>2, <2>1, <3>1 DEF IInv, Typed, BufferOK, window
      <4>2. Control'
        BY <1>1, <1>2, <2>1, <2>3, <2>6, <2>7, <3>1 DEF IInv, Control, Sites, window
      <4>. QED
        BY <2>4, <2>5, <4>1, <4>2, <4>3 DEF IInv, Typed
    <3>3. CInv'
      <4>1. Holds(buffer_size) /\ off = file_pos_of_buffer_start + buffer_size
        BY <1>1, <2>1, Resting1
      <4>2. Holds(buffer_size)'
        BY <1>2, <3>1, <4>1 DEF Holds, window, handle
      <4>. QED
        BY <1>2, <2>1, <3>1, <4>1, <4>2, FilesAssumption, RestCInv DEF window, handle, Resting
    <3>4. Ends'
      <4>1. Flagged'
        BY <1>1, <1>2, FlaggedStill DEF Ends, handle, flags
      <4>. QED
        BY <3>1, <4>1 DEF Ends, Asked, Emptied, Sites
    <3>5. Inside'
      BY <1>1, <1>2, <2>1, <2>3, <3>1, RestInside DEF world, handle, window
    <3>. QED
      BY <1>1, <1>2, <3>2, <3>3, <3>4, <3>5, DryStill, CachedStill
         DEF PInv, WInv, OneFile, handle, world
  <2>8. CASE AfterBom + 1 = buffer_size
    <3>1. HasNoDataLeft("body", buffer_size, is_eof_reached)
      BY <2>2, <2>3, <2>8
    <3>2. IInv'
      <4>1. TransferOK' /\ BufferOK' /\ PlaceOK' /\ Control'
        BY <1>1, <1>2, <2>3, <2>4, <2>6, <3>1, HasNoDataLeftOK DEF handle
      <4>. QED
        BY <2>4, <2>5, <4>1 DEF IInv, Typed
    <3>3. CInv'
      <4>1. ~(~torn /\ fd = NoFile)
        BY <2>1, FilesAssumption
      <4>. QED
        BY <1>1, <1>2, <2>3, <3>1, <4>1, HasNoDataLeftCInv DEF handle
    <3>4. Ends'
      BY <1>1, <1>2, <3>1, RefillsEnd DEF PInv, handle, flags
    <3>5. Inside'
      BY <1>1, <1>2, <3>1, HasNoDataLeftInside DEF world, handle
    <3>. QED
      BY <1>1, <1>2, <3>2, <3>3, <3>4, <3>5, DryStill, CachedStill
         DEF PInv, WInv, OneFile, handle, world
  <2>. QED
    BY <2>1, <2>3, <2>7, <2>8
<1>. QED
  BY <1>3, <1>4

(* A call that is over at once, perhaps with the size it has asked for.    *)
LEMMA OverAtOncePInv ==
  ASSUME PInv, NEW op, NEW arg, Begin(op, arg, "none"), NEW e, Throw(e),
         UNCHANGED <<world, buffer, buffer_capacity, flags, lost>>,
         UNCHANGED handle \/ \E s \in FileSizeResults : GotFileSize(s)
  PROVE  PInv'
<1>1. IInv /\ CInv /\ Ends /\ Dry /\ OneFile /\ pc \in Resting
  BY DEF PInv, WInv, Begin, Resting
<1>2. HandleOK' /\ UNCHANGED <<fd, off, zero_at>>
  BY <1>1, GotFileSizeOK DEF IInv, Typed, HandleOK, handle, GotFileSize
<1>3. Cached'
  <2>1. CASE UNCHANGED handle
    BY <2>1, CachedStill DEF world, handle
  <2>2. ASSUME NEW s \in FileSizeResults, GotFileSize(s) PROVE Cached'
    BY <2>2, FileSizeCached DEF GotFileSize, Cached, world
  <2>. QED
    BY <2>1, <2>2
<1>4. FrameOK'
  <2>1. call' = [op |-> op, arg |-> arg, loop |-> "none", start |-> tell] /\ tell \in Nat
    BY <1>1, Numbers DEF Begin
  <2>. QED
    BY <1>1, <2>1 DEF IInv, Typed, FrameOK, Throw
<1>5. eof_indicator' \in BOOLEAN /\ UNCHANGED is_eof_reached
  BY <1>1 DEF IInv, Typed, FlagsOK, flags
<1>. QED
  BY <1>1, <1>2, <1>3, <1>4, <1>5, ThrowPInv

LEMMA GetLastWriteTimePInv == ASSUME PInv, GetLastWriteTime PROVE PInv'
<1>1. PICK s \in FileSizeResults : GotFileSize(s) /\ \E e : Throw(e)
  BY DEF GetLastWriteTime
<1>2. PICK e : Throw(e)
  BY <1>1
<1>. QED
  BY <1>1, <1>2, OverAtOncePInv DEF GetLastWriteTime

(* read_text(): refused, of a stream, or in one go.                        *)
LEMMA ReadTextPInv == ASSUME PInv, ReadText PROVE PInv'
<1>0. /\ IInv /\ CInv /\ Ends /\ Dry /\ OneFile /\ pc = "idle" /\ pc \in Resting
      /\ UNCHANGED <<world, buffer, buffer_capacity, flags, lost>>
  BY DEF PInv, WInv, ReadText, Begin, Resting
<1>1. CASE \E e : Begin("read_text", FALSE, "none") /\ Throw(e) /\ UNCHANGED handle
  BY <1>0, <1>1, OverAtOncePInv
<1>2. ASSUME AtBeginning, NEW s \in FileSizeResults, GotFileSize(s),
             \/ s = Unknown /\ Begin("read_text", FALSE, "none") /\ Throw(FileSizeError)
             \/ /\ s = NotRegular
                /\ Begin("read_text", FALSE, "drain")
                /\ HasNoDataLeft("body", buffer_pos, is_eof_reached)
                /\ UNCHANGED <<left, out>>
             \/ s >= 0 /\ Begin("read_text", TRUE, "none") /\ ReadWhole(s)
      PROVE  PInv'
  <2>1. CASE s = Unknown /\ Begin("read_text", FALSE, "none") /\ Throw(FileSizeError)
    BY <1>0, <1>2, <2>1, OverAtOncePInv
  <2>2. /\ HandleOK' /\ UNCHANGED <<fd, off, zero_at>>
        /\ buffer_pos = 0 /\ buffer_size = 0 /\ is_eof_reached \in BOOLEAN
        /\ s \in Nat \cup {Unknown, NotRegular}
    BY <1>0, <1>2, GotFileSizeOK, FileSizeOK, Numbers DEF AtBeginning, GotFileSize
  <2>3. WorldOK' /\ FlagsOK' /\ lost' \in Losses /\ UNCHANGED <<size, is_eof_reached, eof_indicator>>
    BY <1>0 DEF IInv, Typed, WorldOK, FlagsOK, world, flags
  <2>4. Cached'
    BY <1>0, <1>2, FileSizeCached DEF GotFileSize, Cached, world
  <2>5. ASSUME NEW arg, NEW loop, loop # "skip", Begin("read_text", arg, loop),
               left' \in Nat, out' \in Seq(Byte)
        PROVE  FrameOK' /\ call'.loop # "skip"
    <3>1. call' = [op |-> "read_text", arg |-> arg, loop |-> loop, start |-> tell] /\ tell \in Nat
      BY <1>0, <2>5, Numbers DEF Begin
    <3>. QED
      BY <2>5, <3>1 DEF FrameOK
  <2>6. CASE /\ s = NotRegular
             /\ Begin("read_text", FALSE, "drain")
             /\ HasNoDataLeft("body", buffer_pos, is_eof_reached)
             /\ UNCHANGED <<left, out>>
    <3>1. FrameOK' /\ call'.loop # "skip"
      BY <1>0, <2>5, <2>6, Numbers
    <3>2. TransferOK' /\ BufferOK' /\ PlaceOK' /\ Control'
      BY <1>0, <2>2, <2>6, <3>1, HasNoDataLeftOK
    <3>3. CInv'
      BY <1>0, <2>2, <2>6, HasNoDataLeftCInv
    <3>4. Ends'
      BY <1>0, <2>2, <2>3, <2>6, RefillsEnd DEF PInv
    <3>5. Inside'
      BY <2>2, <2>3, <2>6, HasNoDataLeftInside
    <3>. QED
      BY <1>0, <2>2, <2>3, <2>4, <3>1, <3>2, <3>3, <3>4, <3>5, DryStill
         DEF PInv, WInv, OneFile, IInv, Typed
  <2>7. CASE s >= 0 /\ Begin("read_text", TRUE, "none") /\ ReadWhole(s)
    <3>1. s \in Nat
      BY <2>2, <2>7 DEF Unknown, NotRegular
    <3>2. TransferOK' /\ BufferOK' /\ PlaceOK' /\ Control' /\ left' \in Nat /\ out' \in Seq(Byte)
      BY <1>0, <2>2, <2>7, <3>1, ReadWholeOK
    <3>3. FrameOK'
      BY <2>5, <2>7, <3>2
    <3>4. CInv'
      BY <1>0, <1>2, <2>2, <2>7, ReadWholeCInv
    <3>5. FhRead(s, "whole") /\ UNCHANGED <<window, buffer_pos>>
      BY <2>7 DEF ReadWhole
    <3>6. Ends'
      BY <2>2, <2>3, <3>5, PastTheBufferEnds DEF PInv
    <3>7. pc' \in {"whole", "ret"}
      BY <3>5 DEF FhRead, Finish
    <3>8. Inside'
      BY <2>2, <2>3, <3>5, <3>7, SameInside DEF window
    <3>. QED
      BY <1>0, <2>2, <2>3, <2>4, <3>2, <3>3, <3>4, <3>6, <3>8, DryStill
         DEF PInv, WInv, OneFile, IInv, Typed
  <2>. QED
    BY <1>2, <2>1, <2>6, <2>7
<1>. QED
  BY <1>1, <1>2 DEF ReadText

-----------------------------------------------------------------------------
(* memchr(): the first place of the delimiter, or the rest of the buffer.  *)

LEMMA ScanIs ==
  ASSUME IInv, NEW p \in Nat, p <= buffer_size, Scan(p)
  PROVE  \/ \E i \in Found(p) :
              /\ i \in p .. buffer_size - 1 /\ \A j \in Found(p) : i <= j
              /\ out' = out \o Between(p, i + IF KeepDelim THEN 1 ELSE 0)
              /\ buffer_pos' = i + 1 /\ Finish("ok")
              /\ UNCHANGED <<allocated, window, ret, no_data, transfer>>
         \/ /\ Found(p) = {}
            /\ out' = out \o Between(p, buffer_size)
            /\ HasNoDataLeft("more", buffer_size, is_eof_reached)
<1>1. Found(p) \in SUBSET Nat /\ \A i \in Found(p) : i \in p .. buffer_size - 1
  BY Numbers DEF Found
<1>2. CASE Found(p) = {}
  BY <1>2, Zenon DEF Scan
<1>3. CASE Found(p) # {}
  <2> DEFINE i == CHOOSE i \in Found(p) : \A j \in Found(p) : i <= j
  <2>1. i \in Found(p) /\ \A j \in Found(p) : i <= j
    BY <1>1, <1>3, LeastNumber
  <2>2. /\ out' = out \o Between(p, i + IF KeepDelim THEN 1 ELSE 0)
        /\ buffer_pos' = i + 1 /\ Finish("ok")
        /\ UNCHANGED <<allocated, window, ret, no_data, transfer>>
    BY <1>3, Zenon DEF Scan
  <2> HIDE DEF i
  <2>. QED
    BY <1>1, <2>1, <2>2
<1>. QED
  BY <1>2, <1>3

LEMMA ScanPInv ==
  ASSUME TInv, pc \in {"body", "more"}, call.op # "seek", NEW p \in Nat, p <= buffer_size, Scan(p),
         InLine, UNCHANGED <<left, eof_indicator>>
  PROVE  PInv'
<1>1. PInv /\ IInv /\ ~torn /\ fd \in Files /\ call.loop # "skip" /\ buffer_size \in Nat
  BY Working, Numbers DEF TInv, PInv, WInv, Placed, Where, Framed
<1>2. UNCHANGED <<world, handle, buffer, buffer_capacity, flags, call, left, lost>>
  BY DEF InLine, flags
<1>3. CASE HasNoDataLeft("more", buffer_size, is_eof_reached) /\ out' = out \o Between(p, buffer_size)
  BY <1>1, <1>2, <1>3, GulpPInv
<1>4. ASSUME NEW i \in p .. buffer_size - 1,
             out' = out \o Between(p, i + IF KeepDelim THEN 1 ELSE 0),
             buffer_pos' = i + 1, Finish("ok"),
             UNCHANGED <<allocated, window, ret, no_data, transfer>>
      PROVE  PInv'
  <2> DEFINE b == i + IF KeepDelim THEN 1 ELSE 0
  <2>1. b \in Nat /\ p <= b /\ b <= buffer_size
    BY <1>1
  <2> HIDE DEF b
  <2>2. out' \in Seq(Byte)
    BY <1>1, <1>4, <2>1, BetweenIs DEF b
  <2>3. i + 1 \in Nat /\ i + 1 <= buffer_size
    BY <1>1
  <2>. QED
    BY <1>1, <1>2, <1>4, <2>2, <2>3, StopPInv DEF memory
<1>. QED
  BY <1>1, <1>3, <1>4, ScanIs

LEMMA LinePInv == ASSUME TInv, ReadLineBody \/ ReadLineMore PROVE PInv'
<1>1. PInv /\ IInv /\ pc \in {"body", "more"} /\ call.op # "seek" /\ call.op \in Lines /\ InLine
  BY DEF TInv, PInv, WInv, ReadLineBody, ReadLineMore, Lines
<1>2. pc \in Resting /\ HandleOK' /\ Cached' /\ eof_indicator \in BOOLEAN
  BY <1>1, CachedStill DEF InLine, Resting, IInv, Typed, HandleOK, FlagsOK, handle, world
<1>3. ASSUME NEW e, Throw(e), eof_indicator' \in {eof_indicator, TRUE}
      PROVE  PInv'
  <2>1. FrameOK'
    BY <1>1, <1>3 DEF InLine, IInv, Typed, FrameOK, Throw
  <2>. QED
    BY <1>1, <1>2, <1>3, <2>1, ThrowPInv DEF InLine, handle
<1>4. CASE NoLine
  BY <1>3, <1>4 DEF NoLine
<1>5. CASE LastLine /\ pc = "more" /\ no_data
  <2>1. out # <<>> /\ is_eof_reached /\ buffer_pos = buffer_size
    BY <1>1, <1>5, Working DEF TInv, Placed, Where, Looped, Looping
  <2>. QED
    BY <1>3, <1>5, <2>1 DEF LastLine
<1>6. ASSUME NEW p \in Nat, p <= buffer_size, Scan(p), UNCHANGED <<left, eof_indicator>>
      PROVE  PInv'
  BY <1>1, <1>6, ScanPInv
<1>7. CASE ReadLineBody
  <2>1. CASE no_data \/ BomOnly
    BY <1>4, <1>7, <2>1 DEF ReadLineBody
  <2>2. CASE ~(no_data \/ BomOnly)
    BY <1>1, <1>6, <1>7, <2>2, AfterBomIs DEF ReadLineBody
  <2>. QED
    BY <2>1, <2>2
<1>8. CASE ReadLineMore
  BY <1>1, <1>5, <1>6, <1>8, Numbers DEF ReadLineMore
<1>. QED
  BY <1>7, <1>8

-----------------------------------------------------------------------------
(* The other text calls, and a step of any of them.                        *)

LEMMA WholeTextPInv == ASSUME TInv, ReadTextBody \/ ReadTextToEndBody PROVE PInv'
<1>1. /\ PInv /\ IInv /\ pc = "body" /\ call.op # "seek" /\ InLoop /\ UNCHANGED lost
      /\ \/ Throw("ok")
         \/ ~no_data /\ SkipThenDrain
  BY DEF TInv, PInv, WInv, ReadTextBody, ReadTextToEndBody
<1>2. CASE Throw("ok")
  BY <1>1, <1>2, InLoopThrowPInv DEF InLoop, flags
<1>3. CASE ~no_data /\ SkipThenDrain
  <2>1. AfterBom \in Nat /\ AfterBom <= buffer_size
    BY <1>1, <1>3, AfterBomIs
  <2>2. call.loop # "skip"
    BY <1>1 DEF TInv, Placed, Where, Framed
  <2>. QED
    BY <1>1, <1>3, <2>1, <2>2, GulpPInv DEF SkipThenDrain, InLoop
<1>. QED
  BY <1>1, <1>2, <1>3

LEMMA StartsWithPInv ==
  ASSUME PInv, (\E s \in Signatures : StartsWith(s)) \/ StartsWithBody
  PROVE  PInv'
<1>1. ASSUME NEW s, StartsWith(s) PROVE PInv'
  BY <1>1, CallAtEofPInv, OverAtOncePInv DEF StartsWith
<1>2. CASE StartsWithBody
  BY <1>2, InLoopThrowPInv DEF StartsWithBody, InLoop, flags
<1>. QED
  BY <1>1, <1>2

LEMMA TextCallPInv == ASSUME PInv, TextCall PROVE PInv'
<1>1. CASE ReadTextToEnd \/ ReadALine \/ ReadChar
  BY <1>1, CallAtEofPInv DEF ReadTextToEnd, ReadALine, ReadLine, ReadLineReae, ReadUntil, ReadChar
<1>. QED
  BY <1>1, ReadTextPInv, StartsWithPInv, GetLastWriteTimePInv DEF TextCall

(* What of IFile can happen between text calls.                            *)
LEMMA ByteNext ==
  ByteCall \/ Recovery \/ (Step /\ UNCHANGED texts) \/ TextWorld \/ UNCHANGED textVars
    => [Next]_vars
BY DEF ByteCall, Recovery, TextWorld, textVars, Next, Call

LEMMA TextNextPInv == TInv /\ [TextNext]_textVars => PInv'
<1>1. TInv => PInv
  BY DEF TInv
<1>. QED
  BY <1>1, ByteNext, NextPInv, TextCallPInv, WholeTextPInv, LinePInv, ReadCharBodyPInv,
     StartsWithPInv
     DEF TextNext, TextStep

-----------------------------------------------------------------------------
(* Contents and EndSeen, step by step.                                     *)

(* What no step of the object does: write.                                 *)
LEMMA OnlyTheWorld == [TextNext]_textVars => UNCHANGED <<world, texts>> \/ TextWorld
<1>1. ASSUME NEW p, Seek(p) PROVE UNCHANGED world
  BY <1>1 DEF Seek, SeekNegative, SeekWithinBuffer, SeekOutsideBuffer
<1>2. ByteCall \/ Recovery => UNCHANGED <<world, texts>>
  BY <1>1 DEF ByteCall, Recovery, AtEofCall, ReadByte, CallAtEof, Open, Close
<1>3. Step => UNCHANGED world
  BY DEF Step, ReadIntoBuffer, ReadIntoCaller, ReadFails, FillReturn, RefillReturn, BulkReturn,
     WholeReturn, AtEofReturn, ByteReturn, ReadBytesBody, ReadBytesMore, ReadBytesAtMostBody,
     ReadBytesAtMostMore, DrainMore, SeekMore, Take, InLoop
<1>4. TextStep => UNCHANGED <<world, texts>>
  BY <1>3 DEF TextStep, ReadTextBody, ReadTextToEndBody, ReadLineBody, ReadLineMore, ReadCharBody,
     StartsWithBody, InLoop, InLine
<1>5. TextCall => UNCHANGED <<world, texts>>
  BY DEF TextCall, ReadText, ReadTextToEnd, ReadALine, ReadLine, ReadLineReae, ReadUntil,
     ReadChar, StartsWith, GetLastWriteTime, CallAtEof
<1>. QED
  BY <1>2, <1>4, <1>5 DEF TextNext, textVars, vars

LEMMA NextContents == TInv /\ [TextNext]_textVars => Contents'
<1>1. TInv /\ UNCHANGED <<world, texts>> => Contents'
  BY DEF TInv, Placed, Contents, world, texts
<1>2. TInv /\ TextWorld => Contents'
  BY DEF TInv, Placed, Contents, TextWorld
<1>. QED
  BY <1>1, <1>2, OnlyTheWorld

(* A read(2) that gives nothing has met the end.                           *)
LEMMA SysReadEndSeen ==
  ASSUME TInv, pc \in Sites, NEW r \in SysReadResults, SysRead(r), UNCHANGED <<world, texts>>
  PROVE  EndSeen'
<1>1. /\ zero_at' = (IF r = 0 /\ want > 0 THEN off ELSE zero_at) /\ UNCHANGED <<fd, size, grown>>
      /\ off \in Nat /\ want \in Nat /\ fd \in Files /\ size[fd] \in Nat
  BY Numbers, Numbers2 DEF SysRead, world, texts, TInv, PInv, WInv, IInv, Control
<1>2. CASE r = 0 /\ want > 0
  <2>1. size[fd] <= off
    BY <1>1, <1>2 DEF SysReadResults
  <2>. QED
    BY <1>1, <1>2, <2>1 DEF EndSeen
<1>3. CASE ~(r = 0 /\ want > 0)
  BY <1>1, <1>3 DEF TInv, Placed, EndSeen
<1>. QED
  BY <1>2, <1>3

LEMMA WorldEndSeen == ASSUME TInv, TextWorld PROVE EndSeen'
<1>1. /\ UNCHANGED <<fd, zero_at>> /\ grown \in Nat
      /\ grown' = IF size' = size THEN grown ELSE grown + 1
  BY DEF TextWorld, World, handle, TInv, Placed, Contents
<1>. QED
  BY <1>1 DEF TInv, Placed, EndSeen

LEMMA NextEndSeen == TInv /\ [TextNext]_textVars => EndSeen'
<1> SUFFICES ASSUME TInv, [TextNext]_textVars PROVE EndSeen'
  OBVIOUS
<1>1. CASE UNCHANGED <<fd, zero_at>> /\ UNCHANGED <<world, texts>>
  BY <1>1 DEF TInv, Placed, EndSeen, world, texts
<1>2. CASE (ReadIntoBuffer \/ ReadIntoCaller) /\ UNCHANGED <<world, texts>>
  BY <1>2, SysReadEndSeen DEF ReadIntoBuffer, ReadIntoCaller, Sites
<1>3. CASE (\E f \in Files : Open(f)) /\ UNCHANGED <<world, texts>>
  <2>1. UNCHANGED handle \/ zero_at' = -1
    BY <1>3 DEF Open, OpenHandle
  <2>. QED
    BY <1>1, <1>3, <2>1 DEF EndSeen, handle
<1>4. CASE Close
  BY <1>4 DEF Close, CloseHandle, EndSeen
<1>5. ASSUME NEW p, Seek(p) PROVE UNCHANGED <<fd, zero_at>>
  BY <1>5 DEF Seek, SeekNegative, SeekWithinBuffer, SeekOutsideBuffer, handle
<1>6. ByteCall \/ Recovery =>
        (\E f \in Files : Open(f)) \/ Close \/ UNCHANGED <<fd, zero_at>>
  BY <1>5 DEF ByteCall, Recovery, AtEofCall, ReadByte, CallAtEof, handle
<1>7. Step => ReadIntoBuffer \/ ReadIntoCaller \/ UNCHANGED <<fd, zero_at>>
  BY DEF Step, ReadFails, FillReturn, RefillReturn, BulkReturn,
     WholeReturn, AtEofReturn, ByteReturn, ReadBytesBody, ReadBytesMore, ReadBytesAtMostBody,
     ReadBytesAtMostMore, DrainMore, SeekMore, Take, InLoop, handle
<1>8. TextStep => ReadIntoBuffer \/ ReadIntoCaller \/ UNCHANGED <<fd, zero_at>>
  BY <1>7 DEF TextStep, ReadTextBody, ReadTextToEndBody, ReadLineBody, ReadLineMore, ReadCharBody,
     StartsWithBody, InLoop, InLine, handle
<1>9. TextCall => UNCHANGED <<fd, zero_at>>
  BY DEF TextCall, ReadText, ReadTextToEnd, ReadALine, ReadLine, ReadLineReae, ReadUntil,
     ReadChar, StartsWith, GetLastWriteTime, CallAtEof, GotFileSize, handle
<1>. QED
  BY <1>1, <1>2, <1>3, <1>4, <1>6, <1>8, <1>9, OnlyTheWorld, WorldEndSeen
     DEF TextNext, textVars, vars, handle

-----------------------------------------------------------------------------
(* Full, step by step.                                                     *)

LEMMA NoWindowFull ==
  ASSUME \/ pc' \notin Resting \cup {"ret"} \/ torn' \/ buffer_size' = 0 \/ fd' = NoFile
  PROVE  Full'
BY DEF Full

LEMMA SameWindowFull ==
  ASSUME TInv, pc \in Resting \cup {"ret"}, UNCHANGED <<fd, off, buffer_size, buffer_capacity, lost>>,
         UNCHANGED <<world, texts>>
  PROVE  Full'
BY DEF TInv, Placed, Full, torn, world, texts

LEMMA EntersFull ==
  ASSUME NEW next \in {"body", "more"}, NEW bp, NEW at_end, HasNoDataLeft(next, bp, at_end), UNCHANGED fd
  PROVE  Full'
BY Enters, NoWindowFull DEF Resting

LEMMA AtEofFull ==
  ASSUME TInv, pc \in Resting, AtEof("body"), UNCHANGED <<fd, off, buffer_capacity, lost>>,
         UNCHANGED <<world, texts>>
  PROVE  Full'
<1>1. HasNoDataLeft("body", buffer_pos, is_eof_reached) \/ UNCHANGED buffer_size
  BY DEF AtEof, window
<1>. QED
  BY <1>1, EntersFull, SameWindowFull

(* A window that is filled: all that was asked for, or a read met the end. *)
LEMMA FilledFull ==
  ASSUME TInv, pc \in {"fill", "refill"}, FillReturn \/ RefillReturn, UNCHANGED <<world, texts>>
  PROVE  Full'
<1>1. /\ buffer_size' = got /\ read_over /\ UNCHANGED <<fd, off, zero_at, buffer_capacity>>
  BY DEF FillReturn, RefillReturn, handle, memory
<1>2. fd \in Files /\ got \in Nat /\ want \in Nat /\ off \in Nat /\ size[fd] \in Nat
      /\ buffer_capacity \in Nat
  BY Numbers, Numbers2 DEF TInv, PInv, WInv, IInv, Control, Sites
<1>3. CASE want > 0
  <2>1. zero_at = off
    BY <1>1, <1>3 DEF TInv, PInv, WInv, Ends, Asked, Sites
  <2>2. grown = 0 => size[fd] <= off
    BY <1>2, <2>1, FilesAssumption DEF TInv, Placed, EndSeen
  <2>. QED
    BY <1>1, <2>2 DEF Full, world, texts
<1>4. CASE ~(want > 0)
  <2>1. got = got + want
    BY <1>2, <1>4
  <2>2. got \in {buffer_capacity, SeekChunk, 2 * SeekChunk}
    BY <2>1 DEF TInv, PInv, WInv, Ends, Asked, SeekLength
  <2>. QED
    BY <1>1, <2>2 DEF Full
<1>. QED
  BY <1>3, <1>4

LEMMA SeekFull == ASSUME TInv, NEW p \in Targets, Seek(p), UNCHANGED <<world, texts>> PROVE Full'
<1>1. pc \in Resting
  BY DEF Seek, SeekNegative, SeekWithinBuffer, SeekOutsideBuffer, Begin, Resting
<1>2. CASE SeekNegative(p) \/ SeekWithinBuffer(p)
  <2>1. UNCHANGED <<fd, off, buffer_size, buffer_capacity, lost>>
    BY <1>2 DEF SeekNegative, SeekWithinBuffer, Throw, handle, window, memory
  <2>. QED
    BY <1>1, <2>1, SameWindowFull
<1>3. CASE SeekOutsideBuffer(p)
  <2>1. /\ UNCHANGED <<fd, buffer_capacity>>
        /\ \/ \E e : Throw(e) /\ UNCHANGED <<off, lost>>
           \/ SeekForward(p) /\ UNCHANGED <<off, lost>>
           \/ SeekAndRefill(p)
    BY <1>3 DEF SeekOutsideBuffer
  <2>2. CASE \E e : Throw(e) /\ UNCHANGED <<off, lost>>
    BY <1>1, <2>1, <2>2, SameWindowFull DEF Throw, window
  <2>3. CASE SeekForward(p) /\ UNCHANGED <<off, lost>>
    BY <1>1, <2>1, <2>3, SameWindowFull, EntersFull DEF SeekForward, Throw, window
  <2>4. CASE SeekAndRefill(p)
    <3>1. pc' = "refill" \/ (UNCHANGED <<off, buffer_size>> /\ (torn => torn'))
      BY <2>4 DEF SeekAndRefill, Lose, torn
    <3>2. CASE pc' = "refill"
      BY <3>2, NoWindowFull DEF Resting
    <3>3. CASE UNCHANGED <<off, buffer_size>> /\ (torn => torn')
      BY <1>1, <2>1, <3>3 DEF TInv, Placed, Full, world, texts
    <3>. QED
      BY <3>1, <3>2, <3>3
  <2>. QED
    BY <2>1, <2>2, <2>3, <2>4
<1>. QED
  BY <1>2, <1>3 DEF Seek

LEMMA ByteCallFull ==
  ASSUME TInv, ByteCall \/ Recovery, UNCHANGED <<world, texts>>
  PROVE  Full'
<1>1. CASE AtEofCall \/ ReadByte
  <2>1. pc \in Resting /\ AtEof("body") /\ UNCHANGED <<fd, off, buffer_capacity, lost>>
    BY <1>1 DEF AtEofCall, ReadByte, CallAtEof, Begin, handle, Resting
  <2>. QED
    BY <2>1, AtEofFull
<1>2. CASE Close
  BY <1>2, NoWindowFull DEF Close, ResetWindow
<1>3. ASSUME NEW f \in Files, Open(f) PROVE Full'
  <2>1. pc \in Resting /\ UNCHANGED <<buffer_size, buffer_capacity, lost>>
        /\ (UNCHANGED handle \/ fd = NoFile)
    BY <1>3 DEF Open, Begin, Throw, window, Resting
  <2>2. ~torn /\ fd = NoFile => buffer_size = 0
    BY <2>1, Resting1 DEF TInv, PInv, WInv
  <2>. QED
    BY <2>1, <2>2, SameWindowFull, NoWindowFull DEF handle, torn
<1>. QED
  BY <1>1, <1>2, <1>3, SeekFull DEF ByteCall, Recovery

LEMMA StepFull == ASSUME TInv, Step, UNCHANGED <<world, texts>> PROVE Full'
<1>0. UNCHANGED buffer_capacity
  BY DEF Step, ReadIntoBuffer, ReadIntoCaller, ReadFails, FillReturn, RefillReturn, BulkReturn,
     WholeReturn, AtEofReturn, ByteReturn, ReadBytesBody, ReadBytesMore, ReadBytesAtMostBody,
     ReadBytesAtMostMore, DrainMore, SeekMore, Take, InLoop, memory
<1>1. CASE ReadIntoBuffer \/ ReadIntoCaller
  BY <1>1, NoWindowFull DEF ReadIntoBuffer, ReadIntoCaller, frame, Resting
<1>2. CASE FillReturn \/ RefillReturn
  BY <1>2, FilledFull DEF FillReturn, RefillReturn
<1>3. CASE ReadFails
  <2>1. buffer_size' = buffer_size /\ Lose(got > 0 \/ pc = "refill" \/ (pc = "fill" /\ buffer_size > 0), "IOError")
        /\ pc \in Sites
    BY <1>3 DEF ReadFails, window
  <2>2. pc \in {"fill", "refill", "whole"} /\ (pc = "whole" => buffer_size = 0) /\ buffer_size \in Nat
    BY <2>1, Numbers DEF TInv, Placed, Where, Shape, PInv, WInv, CInv, Transfers, Resting, Sites
  <2>3. buffer_size' = 0 \/ torn'
    BY <2>1, <2>2 DEF Lose, torn
  <2>. QED
    BY <2>3, NoWindowFull
<1>4. CASE BulkReturn \/ WholeReturn
  <2>1. pc = "whole" /\ buffer_size' = buffer_size
    BY <1>4 DEF BulkReturn, WholeReturn, TInv, Placed, Where, Shape, Resting, Throw, window
  <2>2. buffer_size = 0
    BY <2>1 DEF TInv, PInv, WInv, CInv, Transfers
  <2>. QED
    BY <2>1, <2>2, NoWindowFull
<1>5. CASE AtEofReturn \/ ByteReturn \/ Take
  <2>1. pc \in Resting \cup {"ret"} /\ UNCHANGED <<fd, off, buffer_size, lost>>
    BY <1>5 DEF AtEofReturn, ByteReturn, Take, InLoop, Throw, window, handle, Resting
  <2>. QED
    BY <1>0, <2>1, SameWindowFull
<1>6. CASE ReadBytesBody \/ ReadBytesMore \/ ReadBytesAtMostBody \/ ReadBytesAtMostMore \/ DrainMore
           \/ SeekMore
  <2>1. pc \in Resting /\ UNCHANGED <<fd, off, lost>>
    BY <1>6 DEF ReadBytesBody, ReadBytesMore, ReadBytesAtMostBody, ReadBytesAtMostMore, DrainMore,
       SeekMore, InLoop, handle, Resting
  <2>2. \/ UNCHANGED buffer_size
        \/ LargeRead
        \/ \E bp, at_end : HasNoDataLeft("more", bp, at_end)
    BY <1>6 DEF ReadBytesBody, ReadBytesMore, ReadBytesAtMostBody, ReadBytesAtMostMore, DrainMore,
       SeekMore, CopyThenRefill, DrainThenRefill, Throw, window
  <2>3. LargeRead => UNCHANGED buffer_size
    BY DEF LargeRead, window
  <2>. QED
    BY <1>0, <2>1, <2>2, <2>3, SameWindowFull, EntersFull
<1>. QED
  BY <1>1, <1>2, <1>3, <1>4, <1>5, <1>6 DEF Step

LEMMA TextCallFull == ASSUME TInv, TextCall, UNCHANGED <<world, texts>> PROVE Full'
<1>1. /\ pc \in Resting /\ UNCHANGED <<fd, off, buffer_capacity, lost>>
      /\ \/ AtEof("body") \/ HasNoDataLeft("body", buffer_pos, is_eof_reached)
         \/ UNCHANGED buffer_size
  BY DEF TextCall, ReadText, ReadTextToEnd, ReadALine, ReadLine, ReadLineReae, ReadUntil,
     ReadChar, StartsWith, GetLastWriteTime, CallAtEof, GotFileSize, handle, Begin, Throw,
     ReadWhole, window, Resting
<1>. QED
  BY <1>1, AtEofFull, EntersFull, SameWindowFull

LEMMA TextStepFull ==
  ASSUME TInv, UNCHANGED <<world, texts>>,
         \/ ReadTextBody \/ ReadTextToEndBody \/ ReadLineBody \/ ReadLineMore \/ ReadCharBody
         \/ StartsWithBody
  PROVE  Full'
<1>1. pc \in Resting /\ UNCHANGED <<fd, off, buffer_capacity, lost>>
  BY DEF ReadTextBody, ReadTextToEndBody, ReadLineBody, ReadLineMore, ReadCharBody, StartsWithBody,
     InLoop, InLine, handle, Resting
<1>2. \/ UNCHANGED buffer_size
      \/ \E next \in {"body", "more"} : \E bp, at_end : HasNoDataLeft(next, bp, at_end)
  BY DEF ReadTextBody, ReadTextToEndBody, ReadLineBody, ReadLineMore, ReadCharBody, StartsWithBody,
     SkipThenDrain, Scan, NoLine, LastLine, Throw, window
<1>. QED
  BY <1>1, <1>2, SameWindowFull, EntersFull

LEMMA WorldFull == ASSUME TInv, TextWorld PROVE Full'
<1>1. /\ UNCHANGED <<fd, off, pc, buffer_size, buffer_capacity, lost>> /\ grown \in Nat
      /\ grown' = IF size' = size THEN grown ELSE grown + 1
  BY DEF TextWorld, World, handle, memory, window, frame, TInv, Placed, Contents
<1>. QED
  BY <1>1 DEF TInv, Placed, Full, torn

LEMMA NextFull == TInv /\ [TextNext]_textVars => Full'
<1> SUFFICES ASSUME TInv, [TextNext]_textVars PROVE Full'
  OBVIOUS
<1>1. CASE UNCHANGED textVars
  BY <1>1 DEF textVars, vars, handle, window, memory, frame, texts, world, TInv, Placed, Full, torn
<1>. QED
  BY <1>1, OnlyTheWorld, WorldFull, ByteCallFull, StepFull, TextCallFull, TextStepFull
     DEF TextNext, TextStep

-----------------------------------------------------------------------------
(* Where which call is, step by step.                                      *)

(* A call that is over.                                                    *)
LEMMA OverWhere ==
  ASSUME pc' = "ret", call'.op \in Calls, left' \in 0 .. 5, Framed'
  PROVE  Where'
BY DEF Where, Shape, Entered, Entering, Looped, Looping, Resting

(* A call that asks at_eof().                                              *)
Asks(op) == op \in TextOps \cup {"at_eof", "read_byte"}

LEMMA AsksWhere ==
  ASSUME TInv, ~torn, UNCHANGED lost, Inside',
         NEW op, Asks(op), NEW arg, NEW loop, loop # "exact",
         Begin(op, arg, loop), op = "starts_with" => tell = 0, Framed',
         AtEof("body") \/ HasNoDataLeft("body", buffer_pos, is_eof_reached), UNCHANGED <<left, out>>
  PROVE  Where'
<1>1. /\ call' = [op |-> op, arg |-> arg, loop |-> loop, start |-> tell] /\ pc = "idle" /\ op \in Calls
      /\ left' = 0 /\ out' = <<>> /\ ~torn'
  BY DEF Begin, TInv, Placed, Where, Shape, torn, Calls, Asks
<1>2. /\ pc' \in {"body", "fill", "ret"}
      /\ pc' = "body" => tell' = tell
      /\ pc' = "fill" => ret' = "body" /\ file_pos_of_buffer_start' = tell
  <2>1. CASE HasNoDataLeft("body", buffer_pos, is_eof_reached)
    <3>1. buffer_pos \in Nat /\ buffer_size \in Nat /\ file_pos_of_buffer_start \in Nat
      BY Numbers DEF TInv, PInv, WInv
    <3>2. /\ buffer_pos = buffer_size /\ pc' \in {"body", "fill", "ret"}
          /\ file_pos_of_buffer_start' = file_pos_of_buffer_start + buffer_size
          /\ pc' = "body" => buffer_pos' = 0
          /\ pc' = "fill" => ret' = "body"
      BY <2>1 DEF HasNoDataLeft, FhRead, Finish, Inside
    <3>. QED
      BY <3>1, <3>2 DEF tell
  <2>2. CASE ~HasNoDataLeft("body", buffer_pos, is_eof_reached)
    <3>1. pc' = "body" /\ UNCHANGED <<window, buffer_pos>>
      BY <2>2 DEF AtEof
    <3>. QED
      BY <3>1 DEF tell, window
  <2>. QED
    BY <2>1, <2>2
<1>. QED
  BY <1>1, <1>2 DEF Where, Shape, Entered, Entering, Looped, Looping, Resting, Asks

(* A call that fills the buffer again and goes on.                         *)
LEMMA RefillsWhere ==
  ASSUME TInv, HasNoDataLeft("more", buffer_size, is_eof_reached)
           \/ HasNoDataLeft("more", buffer_size, FALSE), Inside',
         call'.op \in LoopOps, call'.op \in Lines => out' # <<>>, left' \in 0 .. 5,
         torn' => call'.op = "seek", Framed'
  PROVE  Where'
<1>1. pc' # "aborted"
  BY DEF Inside
<1>2. /\ pc' \in {"more", "fill", "ret"}
      /\ pc' = "fill" => ret' = "more"
      /\ pc' = "more" => no_data' = TRUE
  <2>1. ASSUME NEW at_end, HasNoDataLeft("more", buffer_size, at_end)
        PROVE  /\ pc' \in {"more", "fill", "ret"}
               /\ pc' = "fill" => ret' = "more"
               /\ pc' = "more" => no_data' = TRUE
    BY <1>1, <2>1 DEF HasNoDataLeft, FhRead, Finish
  <2>. QED
    BY <2>1
<1>. QED
  BY <1>2 DEF Where, Shape, Entered, Entering, Looped, Looping, Resting, LoopOps, Calls,
     TextOps, Lines

(* A step that leaves the call where it is.                                *)
LEMMA SameWhere ==
  ASSUME TInv, UNCHANGED <<pc, ret, no_data, call, left, lost, window, buffer_pos>>,
         UNCHANGED out \/ pc \in {"whole", "refill"}
  PROVE  Where'
BY DEF TInv, Placed, Where, Shape, Framed, Entered, Entering, Looped, Looping, Resting, torn,
   tell, window

LEMMA SameFramed ==
  ASSUME Framed, UNCHANGED call
  PROVE  Framed'
BY DEF Framed

LEMMA BeginFramed ==
  ASSUME NEW op, NEW arg, NEW loop, Begin(op, arg, loop),
         loop = "exact" => op = "read_char", loop = "skip" => op = "seek", loop # "at_most",
         loop = "drain" => op \in {"read_text", "read_text_to_end"},
         op \in Lines => arg \in [delim : 0 .. 255, keep : BOOLEAN],
         op \in {"read_line", "read_line_reae"} => arg.delim = LF,
         op = "starts_with" => arg \in Signatures
  PROVE  Framed' /\ call'.op = op /\ pc = "idle"
<1>1. call' = [op |-> op, arg |-> arg, loop |-> loop, start |-> tell] /\ pc = "idle"
  BY DEF Begin
<1>. QED
  BY <1>1 DEF Framed

LEMMA IdleWhere ==
  ASSUME TInv, pc = "idle"
  PROVE  left = 0 /\ out = <<>>
BY DEF TInv, Placed, Where, Shape

(* A call that is over at once.                                            *)
LEMMA AtOnceWhere ==
  ASSUME TInv, NEW op \in Calls \ (Lines \cup {"starts_with"}), NEW arg,
         Begin(op, arg, "none"), pc' = "ret", UNCHANGED left
  PROVE  Where'
<1>1. Framed' /\ call'.op = op /\ pc = "idle"
  BY BeginFramed DEF Lines
<1>. QED
  BY <1>1, IdleWhere, OverWhere

LEMMA ReadTextWhere == ASSUME TInv, ~torn, ReadText, Inside' PROVE Where'
<1>1. pc = "idle" /\ UNCHANGED lost
  BY DEF ReadText, Begin
<1>2. ASSUME NEW e, Begin("read_text", FALSE, "none"), Throw(e) PROVE Where'
  BY <1>2, AtOnceWhere DEF Throw, Finish, Calls, TextOps, Lines
<1>3. CASE /\ Begin("read_text", FALSE, "drain")
           /\ HasNoDataLeft("body", buffer_pos, is_eof_reached)
           /\ UNCHANGED <<left, out>>
  <2>1. Framed'
    BY <1>3, BeginFramed DEF Lines
  <2>. QED
    BY <1>1, <1>3, <2>1, AsksWhere DEF Asks, TextOps
<1>4. ASSUME NEW s, Begin("read_text", TRUE, "none"), ReadWhole(s) PROVE Where'
  <2>1. /\ Framed' /\ call'.op = "read_text" /\ pc' \in {"whole", "ret"} /\ left' = 0 /\ ~torn'
    BY <1>1, <1>4, BeginFramed, IdleWhere DEF ReadWhole, FhRead, Finish, Lines, torn
  <2>. QED
    BY <2>1 DEF Where, Shape, Entered, Entering, Looped, Looping, Resting, Calls, TextOps
<1>. QED
  BY <1>2, <1>3, <1>4 DEF ReadText

LEMMA CallAtEofWhere ==
  ASSUME TInv, ~torn, NEW op, Asks(op), NEW arg, NEW loop, loop # "exact",
         CallAtEof(op, arg, loop), op = "starts_with" => tell = 0, Framed', Inside', UNCHANGED left
  PROVE  Where'
BY AsksWhere DEF CallAtEof

LEMMA ReadALineWhere == ASSUME TInv, ~torn, ReadALine, Inside' PROVE Where'
<1>1. PICK op \in Lines, arg \in [delim : 0 .. 255, keep : BOOLEAN] :
        /\ CallAtEof(op, arg, "until") /\ UNCHANGED left
        /\ op \in {"read_line", "read_line_reae"} => arg.delim = LF
  <2>1. PICK keep \in BOOLEAN :
          ReadLine(keep) \/ ReadLineReae(keep) \/ \E d \in Delims : ReadUntil(d, keep)
    BY DEF ReadALine
  <2>2. LF \in 0 .. 255 /\ \A d \in Delims : d \in 0 .. 255
    BY TextAssumption DEF LF
  <2>3. CASE ReadLine(keep) \/ ReadLineReae(keep)
    BY <2>1, <2>2, <2>3 DEF ReadALine, ReadLine, ReadLineReae, Lines
  <2>4. ASSUME NEW d \in Delims, ReadUntil(d, keep)
        PROVE  \E op \in Lines, arg \in [delim : 0 .. 255, keep : BOOLEAN] :
                 /\ CallAtEof(op, arg, "until") /\ UNCHANGED left
                 /\ op \in {"read_line", "read_line_reae"} => arg.delim = LF
    BY <2>1, <2>2, <2>4 DEF ReadALine, ReadUntil, Lines
  <2>. QED
    BY <2>1, <2>3, <2>4
<1>2. Begin(op, arg, "until") /\ op # "starts_with" /\ Asks(op)
  BY <1>1 DEF CallAtEof, Lines, Asks, TextOps
<1>3. Framed'
  BY <1>1, <1>2, BeginFramed
<1>. QED
  BY <1>1, <1>2, <1>3, CallAtEofWhere

LEMMA StartsWithWhere ==
  ASSUME TInv, ~torn, NEW s \in Signatures, StartsWith(s), Inside'
  PROVE  Where'
<1>1. Begin("starts_with", s, "none") /\ Framed' /\ call'.op = "starts_with" /\ pc = "idle"
  BY BeginFramed DEF StartsWith, CallAtEof, Lines
<1>2. CASE \E e : Throw(e)
  BY <1>1, <1>2, IdleWhere, OverWhere DEF Throw, Finish, Calls, TextOps
<1>3. CASE file_pos_of_buffer_start = 0 /\ buffer_pos = 0 /\ CallAtEof("starts_with", s, "none")
           /\ UNCHANGED left
  BY <1>1, <1>3, CallAtEofWhere DEF tell, Asks, TextOps
<1>. QED
  BY <1>2, <1>3 DEF StartsWith

LEMMA TextCallWhere == ASSUME TInv, ~torn, TextCall, Inside' PROVE Where'
<1>1. CASE ReadTextToEnd
  <2>1. CallAtEof("read_text_to_end", 0, "drain") /\ UNCHANGED left
    BY <1>1 DEF ReadTextToEnd
  <2>2. Framed'
    BY <2>1, BeginFramed DEF CallAtEof, Lines
  <2>. QED
    BY <2>1, <2>2, CallAtEofWhere DEF Asks, TextOps
<1>2. CASE ReadChar
  <2>1. CallAtEof("read_char", 0, "first") /\ UNCHANGED left
    BY <1>2 DEF ReadChar
  <2>2. Framed'
    BY <2>1, BeginFramed DEF CallAtEof, Lines
  <2>. QED
    BY <2>1, <2>2, CallAtEofWhere DEF Asks, TextOps
<1>3. CASE GetLastWriteTime
  <2>1. Begin("get_last_write_time", 0, "none") /\ pc' = "ret" /\ UNCHANGED left
    BY <1>3 DEF GetLastWriteTime, Throw, Finish
  <2>. QED
    BY <2>1, AtOnceWhere DEF Calls, TextOps, Lines
<1>. QED
  BY <1>1, <1>2, <1>3, ReadTextWhere, ReadALineWhere, StartsWithWhere DEF TextCall

(* The byte calls that come between the text calls.                        *)
LEMMA SeekWhere == ASSUME TInv, NEW p \in Targets, Seek(p), Inside' PROVE Where'
<1>1. pc = "idle" /\ Framed' /\ call'.op = "seek" /\ "seek" \in Calls /\ "seek" \in LoopOps
  <2>1. \E loop \in {"none", "skip"} : Begin("seek", p, loop)
    BY DEF Seek, SeekNegative, SeekWithinBuffer, SeekOutsideBuffer
  <2>. QED
    BY <2>1, BeginFramed DEF Lines, Calls, LoopOps
<1>2. left = 0 /\ out = <<>>
  BY <1>1, IdleWhere
<1>3. CASE pc' = "ret" /\ UNCHANGED left
  BY <1>1, <1>2, <1>3, OverWhere
<1>4. CASE HasNoDataLeft("more", buffer_size, FALSE) /\ UNCHANGED <<left, out>>
  BY <1>1, <1>2, <1>4, RefillsWhere DEF Lines
<1>5. CASE pc' = "refill" /\ UNCHANGED <<left, out>>
  BY <1>1, <1>2, <1>5 DEF Where, Shape, Entered, Entering, Looped, Looping, Resting
<1>. QED
  BY <1>3, <1>4, <1>5 DEF Seek, SeekNegative, SeekWithinBuffer, SeekOutsideBuffer, SeekForward,
     SeekAndRefill, Throw, Finish

LEMMA ByteCallWhere ==
  ASSUME TInv, ByteCall \/ Recovery, torn => Recovery, Inside'
  PROVE  Where'
<1>1. ASSUME NEW op \in {"at_eof", "read_byte"}, CallAtEof(op, 0, "none"), UNCHANGED left, ~torn
      PROVE  Where'
  <2>1. Framed'
    BY <1>1, BeginFramed DEF CallAtEof, Lines
  <2>. QED
    BY <1>1, <2>1, CallAtEofWhere DEF Asks
<1>2. ASSUME NEW op \in {"open", "close"}, Begin(op, 0, "none"), pc' = "ret", UNCHANGED left
      PROVE  Where'
  BY <1>2, AtOnceWhere DEF Calls, Lines
<1>3. ASSUME NEW f, Open(f) PROVE Where'
  BY <1>2, <1>3 DEF Open, Throw, Finish
<1>4. Close => Where'
  BY <1>2 DEF Close, Finish
<1>5. Recovery => Where'
  BY SeekWhere DEF Recovery
<1>6. ByteCall /\ ~torn => Where'
  BY <1>1, <1>3, <1>4, SeekWhere DEF ByteCall, AtEofCall, ReadByte
<1>. QED
  BY <1>5, <1>6

(* The loops of IFile, which the text calls share.                         *)
LEMMA FillReturnWhere == ASSUME TInv, FillReturn PROVE Where'
<1>1. /\ ret \in {"body", "more"} /\ got \in Nat /\ pc = "fill"
      /\ buffer_pos' = 0 /\ buffer_size' = got /\ no_data' = (got = 0) /\ pc' = ret
      /\ UNCHANGED <<file_pos_of_buffer_start, ret, call, left, out, lost>>
  BY Numbers DEF FillReturn, TInv, PInv, WInv, IInv, Typed, PlaceOK
<1>2. torn' => call'.op = "seek"
  BY <1>1 DEF TInv, Placed, Where, Shape, torn
<1>3. Shape'
  <2>1. Shape
    BY DEF TInv, Placed, Where
  <2>2. ~no_data' => buffer_size' > 0
    <3>1. no_data' <=> got = 0
      BY <1>1
    <3>2. got # 0 => got > 0
      BY <1>1
    <3>3. buffer_size' = got
      BY <1>1
    <3>. QED
      BY <3>1, <3>2, <3>3
  <2>3. pc' \in Resting \cup {"fill", "refill", "whole", "ret"}
        /\ pc' \notin {"idle", "refill", "whole"}
    BY <1>1 DEF Resting
  <2>. QED
    BY <1>1, <1>2, <2>1, <2>2, <2>3 DEF Shape
<1>4. Framed'
  BY <1>1, SameFramed DEF TInv, Placed, Where
<1>5. Entered'
  <2>1. tell' = file_pos_of_buffer_start
    BY <1>1, Numbers DEF tell, TInv, PInv, WInv
  <2>. QED
    BY <1>1, <2>1 DEF TInv, Placed, Where, Entered, Entering
<1>6. Looped'
  BY <1>1 DEF TInv, Placed, Where, Looped, Looping
<1>. QED
  BY <1>3, <1>4, <1>5, <1>6 DEF Where

(* A call that goes on in its loop, and has taken something more.          *)
LEMMA GoesOnWhere ==
  ASSUME TInv, HasNoDataLeft("more", buffer_size, is_eof_reached), Inside',
         pc = "more" \/ call.op \in {"read_text", "read_text_to_end", "read_char", "seek"},
         UNCHANGED <<call, lost>>,
         out # <<>> => out' # <<>>, left' \in 0 .. 5, pc \in {"body", "more"}
  PROVE  Where'
<1>1. call'.op \in LoopOps
  BY DEF TInv, Placed, Where, Looped, Looping, LoopOps
<1>2. call'.op \in Lines => out' # <<>>
  BY DEF TInv, Placed, Where, Looped, Looping, Lines
<1>3. torn' => call'.op = "seek"
  BY DEF TInv, Placed, Where, Shape, torn, Looped, Looping
<1>4. Framed'
  BY SameFramed DEF TInv, Placed, Where
<1>. QED
  BY <1>1, <1>2, <1>3, <1>4, RefillsWhere

LEMMA ReadBytesLoopWhere == ASSUME TInv, ReadBytesBody \/ ReadBytesMore, Inside' PROVE Where'
<1>1. /\ call.op = "read_char" /\ pc \in {"body", "more"} /\ UNCHANGED <<call, lost>>
      /\ left \in 0 .. 5 /\ pc \in Resting /\ call'.op \in Calls /\ Framed'
  <2>1. /\ call.loop = "exact" /\ pc \in {"body", "more"} /\ UNCHANGED <<call, lost>>
    BY DEF ReadBytesBody, ReadBytesMore, InLoop
  <2>. QED
    BY <2>1, SameFramed DEF TInv, Placed, Where, Framed, Shape, Resting, Calls, TextOps
<1>2. /\ buffer_pos \in Nat /\ buffer_size \in Nat /\ buffer_pos <= buffer_size
      /\ buffer_capacity \in Nat /\ buffer_capacity > 5 /\ out \in Seq(Byte)
  <2>1. buffer_capacity >= 2 * SeekChunk
    BY HasRoom DEF TInv
  <2>2. buffer_capacity > 5
    BY <2>1, Numbers, TextAssumption, IFileAssumption DEF TInv, PInv, WInv
  <2>. QED
    BY <2>2, Numbers DEF TInv, PInv, WInv, Inside
<1>3. (\E e : Throw(e)) \/ CopyThenRefill
  <2>1. ~(left > buffer_capacity)
    BY <1>1, <1>2
  <2>. QED
    BY <2>1 DEF ReadBytesBody, ReadBytesMore
<1>4. CASE \E e : Throw(e)
  BY <1>1, <1>4, OverWhere DEF Throw, Finish
<1>5. CASE CopyThenRefill
  <2> DEFINE n == IF Available < left THEN Available ELSE left
  <2>1. n \in 0 .. 5 /\ n <= Available /\ n <= left /\ buffer_pos + n <= buffer_size
        /\ (n # left => buffer_pos + n = buffer_size)
    BY <1>1, <1>2 DEF Available
  <2>2. /\ out' = out \o Copied(n) /\ left' = left - n
        /\ \/ left = n /\ Finish("ok")
           \/ left # n /\ HasNoDataLeft("more", buffer_pos + n, is_eof_reached)
    BY <1>5 DEF CopyThenRefill
  <2> HIDE DEF n
  <2>3. left' \in 0 .. 5
    BY <1>1, <2>1, <2>2
  <2>4. out # <<>> => out' # <<>>
    BY <1>2, <2>1, <2>2, CopiedLen DEF TInv, PInv, WInv
  <2>5. CASE left = n /\ Finish("ok")
    BY <1>1, <2>3, <2>5, OverWhere DEF Finish
  <2>6. CASE left # n /\ HasNoDataLeft("more", buffer_pos + n, is_eof_reached)
    BY <1>1, <2>1, <2>3, <2>4, <2>6, GoesOnWhere
  <2>. QED
    BY <2>2, <2>5, <2>6
<1>. QED
  BY <1>3, <1>4, <1>5

LEMMA DrainSeekWhere == ASSUME TInv, DrainMore \/ SeekMore, Inside' PROVE Where'
<1>1. /\ pc = "more" /\ UNCHANGED <<call, lost>> /\ left \in 0 .. 5 /\ pc \in Resting
      /\ call'.op \in Calls /\ Framed'
  <2>1. pc = "more" /\ UNCHANGED <<call, lost>>
    BY DEF DrainMore, SeekMore, InLoop
  <2>. QED
    BY <2>1, SameFramed DEF TInv, Placed, Where, Shape, Resting
<1>2. CASE pc' = "ret" /\ UNCHANGED left
  BY <1>1, <1>2, OverWhere
<1>3. CASE HasNoDataLeft("more", buffer_size, is_eof_reached) /\ UNCHANGED left
           /\ (out' = out \/ out' = out \o Copied(Available))
  <2>1. /\ Available \in Nat /\ buffer_pos + Available <= buffer_size /\ out \in Seq(Byte)
    BY Numbers DEF Available, TInv, PInv, WInv, Inside
  <2>2. out # <<>> => out' # <<>>
    BY <1>3, <2>1, CopiedLen DEF TInv, PInv, WInv
  <2>. QED
    BY <1>1, <1>3, <2>2, GoesOnWhere
<1>. QED
  BY <1>2, <1>3 DEF DrainMore, SeekMore, DrainThenRefill, Throw, Finish

(* No seek reads more than the buffer has room for.                        *)
LEMMA Fits == ASSUME TInv, ReadIntoBuffer PROVE pc' = pc
<1>1. PICK r \in SysReadResults : pc' = IF got + r <= buffer_capacity THEN pc ELSE "overrun"
  BY DEF ReadIntoBuffer
<1>2. pc \in {"fill", "refill"} /\ r \in 0 .. want /\ want \in Nat /\ got \in Nat
  BY SysReadCount DEF ReadIntoBuffer, Sites, TInv, PInv, WInv, IInv, Typed, TransferOK
<1>3. got + want <= buffer_capacity
  <2>1. buffer_capacity \in Nat /\ buffer_capacity >= 2 * SeekChunk /\ 2 * SeekChunk \in Nat
    BY HasRoom, IFileAssumption DEF TInv
  <2>2. got + want <= buffer_capacity \/ got + want <= 2 * SeekChunk
    BY <1>2 DEF TInv, PInv, WInv, IInv, Control
  <2>. QED
    BY <1>2, <2>1, <2>2
<1>4. got + r <= buffer_capacity
  BY <1>2, <1>3, HasRoom DEF TInv
<1>. QED
  BY <1>1, <1>4

LEMMA StepWhere == ASSUME TInv, Step, Inside' PROVE Where'
<1>0. left \in 0 .. 5 /\ call.op \in Calls /\ Framed /\ call.loop # "at_most"
      /\ pc \in Resting \cup {"fill", "refill", "whole", "ret"}
  BY DEF TInv, Placed, Where, Shape, Framed
<1>1. CASE ReadIntoBuffer \/ ReadIntoCaller
  BY <1>0, <1>1, Fits, SameWhere DEF ReadIntoBuffer, ReadIntoCaller, Resting
<1>2. CASE ReadFails \/ RefillReturn \/ WholeReturn \/ AtEofReturn \/ ByteReturn
  <2>1. pc' = "ret" /\ UNCHANGED <<call, left>>
    BY <1>2 DEF ReadFails, RefillReturn, WholeReturn, AtEofReturn, ByteReturn, Finish, Throw, InLoop
  <2>. QED
    BY <1>0, <2>1, SameFramed, OverWhere
<1>3. ~BulkReturn /\ ~ReadBytesAtMostBody /\ ~ReadBytesAtMostMore
  BY <1>0 DEF BulkReturn, ReadBytesAtMostBody, ReadBytesAtMostMore, Resting
<1>4. CASE Take
  BY <1>4 DEF Take, NoCall, Where, Shape, Framed, Entered, Entering, Looped, Looping, Resting, Calls,
     TextOps, Lines
<1>. QED
  BY <1>1, <1>2, <1>3, <1>4, FillReturnWhere, ReadBytesLoopWhere, DrainSeekWhere DEF Step

-----------------------------------------------------------------------------
(* The steps of the text calls.                                            *)

LEMMA WholeTextWhere ==
  ASSUME TInv, ReadTextBody \/ ReadTextToEndBody, Inside'
  PROVE  Where'
<1>1. /\ pc = "body" /\ call.op \in {"read_text", "read_text_to_end"} /\ UNCHANGED <<call, lost>>
      /\ left \in 0 .. 5 /\ pc \in Resting /\ call'.op \in Calls /\ Framed'
  <2>1. /\ pc = "body" /\ call.op \in {"read_text", "read_text_to_end"} /\ UNCHANGED <<call, lost>>
    BY DEF ReadTextBody, ReadTextToEndBody, InLoop
  <2>. QED
    BY <2>1, SameFramed DEF TInv, Placed, Where, Shape, Resting
<1>2. CASE pc' = "ret" /\ UNCHANGED left
  BY <1>1, <1>2, OverWhere
<1>3. CASE ~no_data /\ SkipThenDrain
  <2>1. out = <<>>
    BY <1>1 DEF TInv, Placed, Where, Entered, Entering, Framed
  <2>. QED
    BY <1>1, <1>3, <2>1, GoesOnWhere DEF SkipThenDrain
<1>. QED
  BY <1>2, <1>3 DEF ReadTextBody, ReadTextToEndBody, Throw, Finish

LEMMA ScanWhere ==
  ASSUME TInv, pc \in {"body", "more"}, call.op \in Lines, UNCHANGED <<call, lost, left>>,
         NEW p \in Nat, p < buffer_size, Scan(p), Inside'
  PROVE  Where'
<1>1. /\ left' \in 0 .. 5 /\ call'.op \in Calls /\ call'.op \in LoopOps /\ Framed' /\ ~torn'
  <2>1. call.op # "seek"
    BY DEF Lines
  <2>. QED
    BY <2>1, SameFramed, Working DEF TInv, Placed, Where, Shape, LoopOps, torn
<1>2. CASE pc' = "ret"
  BY <1>1, <1>2, OverWhere
<1>3. CASE out' = out \o Between(p, buffer_size) /\ HasNoDataLeft("more", buffer_size, is_eof_reached)
  <2>1. IInv /\ buffer_size \in Nat /\ out \in Seq(Byte)
    BY Numbers DEF TInv, PInv, WInv
  <2>2. Len(out') # 0
    <3>1. Len(out \o Between(p, buffer_size)) = Len(out) + (buffer_size - p)
      BY <2>1, BetweenIs
    <3>2. Len(out) \in Nat
      BY <2>1
    <3>. QED
      BY <1>3, <2>1, <3>1, <3>2
  <2>3. out' # <<>>
    BY <2>2
  <2>. QED
    BY <1>1, <1>3, <2>3, RefillsWhere
<1>. QED
  BY <1>2, <1>3 DEF Scan, Finish

LEMMA LineWhere == ASSUME TInv, ReadLineBody \/ ReadLineMore, Inside' PROVE Where'
<1>1. /\ pc \in {"body", "more"} /\ call.op \in Lines /\ UNCHANGED <<call, lost>>
      /\ left \in 0 .. 5 /\ call'.op \in Calls /\ Framed' /\ call.op # "seek"
  <2>1. pc \in {"body", "more"} /\ call.op \in Lines /\ UNCHANGED <<call, lost>>
    BY DEF ReadLineBody, ReadLineMore, InLine
  <2>. QED
    BY <2>1, SameFramed DEF TInv, Placed, Where, Shape, Lines
<1>2. CASE pc' = "ret" /\ UNCHANGED left
  BY <1>1, <1>2, OverWhere
<1>3. CASE pc = "body" /\ ~(no_data \/ BomOnly) /\ Scan(AfterBom) /\ UNCHANGED left
  <2>1. AfterBom \in Nat /\ AfterBom < buffer_size
    BY <1>1, <1>3, AfterBomIs
  <2>. QED
    BY <1>1, <1>3, <2>1, ScanWhere
<1>4. CASE pc = "more" /\ ~no_data /\ Scan(0) /\ UNCHANGED left
  <2>1. 0 < buffer_size
    BY <1>4, Numbers DEF TInv, Placed, Where, Shape, PInv, WInv
  <2>. QED
    BY <1>1, <1>4, <2>1, ScanWhere
<1>5. pc' # "aborted"
  BY DEF Inside
<1>. QED
  BY <1>2, <1>3, <1>4, <1>5 DEF ReadLineBody, ReadLineMore, NoLine, LastLine, Throw, Finish

LEMMA ReadCharBodyWhere == ASSUME TInv, ReadCharBody, Inside' PROVE Where'
<1>1. CASE Throw("UnexpectedEOF") /\ UNCHANGED call
  BY <1>1, SameFramed, OverWhere DEF Throw, Finish, TInv, Placed, Where, Shape
<1>2. CASE ~(Throw("UnexpectedEOF") /\ UNCHANGED call)
  <2>1. /\ pc = "body" /\ call.op = "read_char"
        /\ left' = Trailing(Values(<<buffer[AfterBom]>>)[1])
        /\ call' = [call EXCEPT !.loop = "exact"]
        /\ \/ no_data' = FALSE /\ pc' = "body"
           \/ HasNoDataLeft("body", AfterBom + 1, is_eof_reached)
        /\ UNCHANGED lost
    BY <1>2 DEF ReadCharBody
  <2>2. left' \in 0 .. 5
    BY <2>1, TrailingIsFew
  <2>3. call'.op = "read_char" /\ call'.loop = "exact"
    BY <2>1
  <2>4. /\ pc' \in {"body", "fill", "ret"}
        /\ pc' = "fill" => ret' = "body"
    BY <2>1 DEF HasNoDataLeft, FhRead, Finish, Inside
  <2>5. ~torn'
    BY <2>1, Working DEF torn
  <2>6. Framed'
    BY <2>3 DEF Framed, Lines
  <2>. QED
    BY <2>2, <2>3, <2>4, <2>5, <2>6 DEF Where, Shape, Entered, Entering, Looped, Looping, Resting,
       Calls, TextOps
<1>. QED
  BY <1>1, <1>2

LEMMA StartsWithBodyWhere == ASSUME TInv, StartsWithBody PROVE Where'
<1>1. pc' = "ret" /\ UNCHANGED <<call, left>>
  BY DEF StartsWithBody, Throw, Finish, InLoop
<1>. QED
  BY <1>1, SameFramed, OverWhere DEF TInv, Placed, Where, Shape

LEMMA NextWhere == ASSUME TInv, [TextNext]_textVars, Inside' PROVE Where'
<1>1. CASE TextWorld \/ UNCHANGED textVars
  BY <1>1, SameWhere DEF TextWorld, World, textVars, vars, frame
<1>2. CASE ~torn /\ (TextCall \/ ByteCall)
  BY <1>2, TextCallWhere, ByteCallWhere
<1>3. CASE torn /\ Recovery
  BY <1>3, ByteCallWhere
<1>4. CASE TextStep
  BY <1>4, StepWhere, WholeTextWhere, LineWhere, ReadCharBodyWhere, StartsWithBodyWhere DEF TextStep
<1>. QED
  BY <1>1, <1>2, <1>3, <1>4 DEF TextNext

LEMMA NextRoomy == TInv /\ [TextNext]_textVars => Roomy'
<1> SUFFICES ASSUME TInv, [TextNext]_textVars PROVE Roomy'
  OBVIOUS
<1>1. CASE TextWorld \/ UNCHANGED textVars
  BY <1>1 DEF TextWorld, World, textVars, vars, memory, TInv, Roomy
<1>2. CASE TextCall
  BY <1>2 DEF TextCall, ReadText, ReadTextToEnd, ReadALine, ReadLine, ReadLineReae, ReadUntil,
     ReadChar, StartsWith, GetLastWriteTime, CallAtEof, TInv, Roomy
<1>3. CASE ByteCall \/ Recovery
  BY <1>3 DEF ByteCall, Recovery, AtEofCall, ReadByte, CallAtEof, Seek, SeekNegative,
     SeekWithinBuffer, SeekOutsideBuffer, Open, Close, memory, TInv, Roomy
<1>4. CASE Step
  BY <1>4 DEF Step, ReadIntoBuffer, ReadIntoCaller, ReadFails, FillReturn, RefillReturn, BulkReturn,
     WholeReturn, AtEofReturn, ByteReturn, ReadBytesBody, ReadBytesMore, ReadBytesAtMostBody,
     ReadBytesAtMostMore, DrainMore, SeekMore, Take, InLoop, memory, TInv, Roomy
<1>5. CASE \/ ReadTextBody \/ ReadTextToEndBody \/ ReadLineBody \/ ReadLineMore \/ ReadCharBody
           \/ StartsWithBody
  BY <1>5 DEF ReadTextBody, ReadTextToEndBody, ReadLineBody, ReadLineMore, ReadCharBody,
     StartsWithBody, InLoop, InLine, TInv, Roomy
<1>. QED
  BY <1>1, <1>2, <1>3, <1>4, <1>5 DEF TextNext, TextStep

LEMMA NextTInv == TInv /\ [TextNext]_textVars => TInv'
<1> SUFFICES ASSUME TInv, [TextNext]_textVars PROVE TInv'
  OBVIOUS
<1>1. PInv'
  BY TextNextPInv
<1>2. Inside'
  BY <1>1 DEF PInv
<1>. QED
  BY <1>1, <1>2, NextContents, NextEndSeen, NextFull, NextWhere, NextRoomy DEF TInv, Placed

LEMMA InitTInv == OneFile /\ TextInit => TInv
<1> SUFFICES ASSUME OneFile, TextInit PROVE TInv
  OBVIOUS
<1>1. PInv
  BY InitPInv DEF TextInit
<1>2. Contents
  BY DEF TextInit, Contents
<1>3. EndSeen /\ Full /\ Where
  BY DEF TextInit, Init, HandleInit, EndSeen, Full, Where, Shape, Framed, Entered, Entering, Looped,
     Looping, NoCall, Calls, TextOps, Lines, Resting, torn
<1>4. Roomy
  BY DEF TextInit, Init, Roomy
<1>. QED
  BY <1>1, <1>2, <1>3, <1>4 DEF TInv, Placed

(* The invariant of the text calls: the window they work on is that of the *)
(* byte calls, it is full or goes up to the end of the file, and each call *)
(* is where it should be, with what it should have taken by then.          *)
THEOREM TInvariance == OneFile /\ TextSpec => []TInv
<1>. QED
  BY InitTInv, NextTInv, PTL DEF TextSpec

(* The types of the text calls, the position within the window and the     *)
(* counts that never go below zero (IFile.hpp:242-411), for an object with *)
(* its default buffer that makes text calls, at_eof(), read_byte(), seek(),*)
(* open() and close(), while the file grows and reads fail.  An object     *)
(* that a failure has left out of step is only positioned again here: what *)
(* retries, read_bytes(), peek_byte() and set_buffer_size() do is proved   *)
(* of IFile alone (TypeCorrect).                                           *)
THEOREM TextTypesHold == OneFile /\ TextSpec => []TextTypeOK
<1>1. TInv => TextTypeOK
  <2> SUFFICES ASSUME TInv PROVE TextTypeOK
    OBVIOUS
  <2>1. /\ buffer_size \in 0 .. buffer_capacity
        /\ \A i \in 0 .. buffer_size - 1 : buffer[i] \in Byte
        /\ buffer_pos \in Nat /\ out \in Seq(Byte)
    BY Numbers DEF TInv, PInv, WInv, IInv, Typed, BufferOK
  <2>2. buffer_pos <= buffer_size
    BY DEF TInv, PInv, Inside
  <2>. QED
    BY <2>1, <2>2 DEF TInv, Placed, Contents, Where, Shape, Calls, TextTypeOK
<1>. QED
  BY <1>1, TInvariance, PTL

(* has_no_data_left() is entered only with an empty buffer, and the two    *)
(* assertions of read_line_reae() hold (IFile.hpp:52, 373, 375).           *)
THEOREM TextAssertions == OneFile /\ TextSpec => []TextAssertionsHold
<1>1. TInv => TextAssertionsHold
  BY DEF TInv, PInv, Inside, TextAssertionsHold
<1>. QED
  BY <1>1, TInvariance, PTL

-----------------------------------------------------------------------------
(* What the calls answer.                                                  *)

(* Another process at work: nothing of the object changes, and the file    *)
(* stays as it is or has grown.                                            *)
LEMMA WorldMoves ==
  ASSUME TInv, TextWorld \/ UNCHANGED textVars
  PROVE  /\ UNCHANGED <<handle, transfer, memory, window, buffer_pos, flags, frame, lost, content>>
         /\ (UNCHANGED <<size, grown>>) \/ grown' > 0
         /\ \A f \in Files : size[f] \in Nat /\ size'[f] \in Nat /\ size[f] <= size'[f]
<1>1. \A f \in Files : size[f] \in Nat
  BY Numbers2 DEF TInv
<1>2. CASE UNCHANGED textVars
  BY <1>1, <1>2 DEF textVars, vars, texts, world
<1>3. CASE TextWorld
  <2>1. UNCHANGED <<handle, transfer, memory, window, buffer_pos, flags, frame, lost, content>>
    BY <1>3 DEF TextWorld, World
  <2>2. (UNCHANGED <<size, grown>>) \/ grown' > 0
    BY <1>3 DEF TextWorld, TInv, Placed, Contents
  <2>3. PICK f \in Files : Grow(f) \/ EndStream(f)
    BY <1>3 DEF TextWorld, World
  <2>4. UNCHANGED size \/ size' = [size EXCEPT ![f] = @ + 1]
    BY <2>3 DEF Grow, EndStream
  <2>5. DOMAIN size = Files
    BY DEF TInv, PInv, WInv, IInv, Typed, WorldOK
  <2>6. \A g \in Files : size'[g] \in Nat /\ size[g] <= size'[g]
    BY <1>1, <2>4, <2>5
  <2>. QED
    BY <1>1, <2>1, <2>2, <2>6
<1>. QED
  BY <1>2, <1>3

Plain == {"ok", "true", "false", "UnexpectedEOF"}

(* The steps that answer a text call.                                      *)
LEMMA Returning ==
  ASSUME TInv, [TextNext]_textVars, pc' = "ret", call'.op \in TextOps \ {"get_last_write_time"},
         outcome' \in Plain
  PROVE  \/ pc = "ret" /\ (TextWorld \/ UNCHANGED textVars)
         \/ ReadLineBody \/ ReadLineMore \/ ReadTextBody \/ ReadTextToEndBody \/ DrainMore
         \/ WholeReturn \/ ReadCharBody \/ ReadBytesBody \/ ReadBytesMore \/ StartsWithBody
<1>1. CASE TextWorld \/ UNCHANGED textVars
  BY <1>1, WorldMoves DEF frame
<1>2. CASE TextCall
  <2>1. /\ ~\E s \in FileSizeResults : FileSizeError \in Plain
        /\ "ReadTextMustBeCalledAtTheBeginningOfTheFile" \notin Plain
        /\ "StartsWithMustBeCalledAtTheBeginningOfTheFile" \notin Plain
        /\ "AttemptToReadAClosedFile" \notin Plain
    BY DEF Plain, FileSizeError
  <2>2. ASSUME NEW op, NEW arg, NEW loop, CallAtEof(op, arg, loop) PROVE FALSE
    BY <2>1, <2>2 DEF CallAtEof, AtEof, HasNoDataLeft, FhRead, Finish
  <2>3. ~ReadTextToEnd /\ ~ReadALine /\ ~ReadChar
    BY <2>2 DEF ReadTextToEnd, ReadALine, ReadLine, ReadLineReae, ReadUntil, ReadChar
  <2>4. ASSUME NEW s, StartsWith(s) PROVE FALSE
    BY <2>1, <2>2, <2>4 DEF StartsWith, Throw, Finish
  <2>5. ~GetLastWriteTime
    BY DEF GetLastWriteTime, Begin
  <2>6. ~ReadText
    BY <2>1 DEF ReadText, Throw, Finish, HasNoDataLeft, FhRead, ReadWhole
  <2>. QED
    BY <1>2, <2>3, <2>4, <2>5, <2>6 DEF TextCall
<1>3. CASE ByteCall \/ Recovery
  <2>1. call'.op \in {"at_eof", "read_byte", "seek", "open", "close"}
    BY <1>3 DEF ByteCall, Recovery, AtEofCall, ReadByte, CallAtEof, Begin, Open, Close, Seek,
       SeekNegative, SeekWithinBuffer, SeekOutsideBuffer
  <2>. QED
    BY <2>1 DEF TextOps, Lines
<1>4. CASE Step
  <2>1. ~ReadIntoBuffer /\ ~ReadIntoCaller
    BY DEF ReadIntoBuffer, ReadIntoCaller, frame
  <2>2. ~ReadFails
    BY DEF ReadFails, Finish, Plain
  <2>3. ~FillReturn
    BY DEF FillReturn, TInv, PInv, WInv, IInv, Typed, PlaceOK
  <2>4. ~RefillReturn
    BY DEF RefillReturn, TInv, Placed, Where, Shape, TextOps, Lines
  <2>5. ~BulkReturn /\ ~ReadBytesAtMostBody /\ ~ReadBytesAtMostMore
    BY DEF BulkReturn, ReadBytesAtMostBody, ReadBytesAtMostMore, TInv, Placed, Where, Shape, Framed,
       Resting
  <2>6. ~AtEofReturn /\ ~ByteReturn
    BY DEF AtEofReturn, ByteReturn, InLoop, TextOps, Lines
  <2>7. ~SeekMore
    BY DEF SeekMore, InLoop, TextOps, Lines, TInv, Placed, Where, Framed
  <2>8. ~Take
    BY DEF Take
  <2>. QED
    BY <1>4, <2>1, <2>2, <2>3, <2>4, <2>5, <2>6, <2>7, <2>8 DEF Step
<1>. QED
  BY <1>1, <1>2, <1>3, <1>4 DEF TextNext, TextStep

(* When has_no_data_left() says so, a read has met the end.                *)
LEMMA EndIsMet ==
  ASSUME TInv, pc \in {"body", "more"}, call.op # "seek", no_data
  PROVE  MetTheEnd /\ Available = 0
<1>1. /\ fd \in Files /\ is_eof_reached /\ buffer_pos = 0 /\ buffer_size = 0
      /\ off = file_pos_of_buffer_start + buffer_size /\ off <= size[fd]
  BY Working
<1>2. zero_at \in 0 .. off
  BY <1>1 DEF TInv, PInv, WInv, Ends, Flagged
<1>3. off \in Nat /\ size[fd] \in Nat /\ file_pos_of_buffer_start \in Nat
  BY <1>1, Numbers2 DEF TInv
<1>4. grown = 0 => size[fd] <= zero_at
  BY <1>1, <1>2, <1>3, FilesAssumption DEF TInv, Placed, EndSeen
<1>. QED
  BY <1>1, <1>2, <1>3, <1>4 DEF MetTheEnd, Available, tell

(* A lone BOM: the window holds all there is.                              *)
LEMMA OnlyBom ==
  ASSUME TInv, pc = "body", call.op # "seek", BomOnly
  PROVE  StuckBeforeBom
<1>1. /\ fd \in Files /\ ~torn /\ file_pos_of_buffer_start = 0 /\ buffer_pos = 0 /\ buffer_size = 3
      /\ off = file_pos_of_buffer_start + buffer_size /\ off <= size[fd] /\ size[fd] \in Nat
  BY Working, Numbers2 DEF TInv, BomOnly, BomHere
<1>2. buffer_capacity \in Nat /\ SeekChunk \in Nat /\ SeekChunk > 3 /\ buffer_capacity > 3
  <2>1. buffer_capacity \in Nat /\ buffer_capacity >= 2 * SeekChunk
    BY HasRoom DEF TInv
  <2>. QED
    BY <2>1, IFileAssumption, TextAssumption
<1>3. buffer_size \notin {buffer_capacity, SeekChunk, 2 * SeekChunk}
  BY <1>1, <1>2
<1>4. grown = 0 => size[fd] <= off
  BY <1>1, <1>3, FilesAssumption DEF TInv, Placed, Full, Resting
<1>. QED
  BY <1>1, <1>4 DEF StuckBeforeBom, tell

(* What is seen of an answer stays true when the file grows.               *)
LEMMA SeenStill ==
  ASSUME TInv, pc = "ret", TextWorld \/ UNCHANGED textVars
  PROVE  /\ MetTheEnd => MetTheEnd'
         /\ StuckBeforeBom => StuckBeforeBom'
         /\ UNCHANGED <<tell, call, out, outcome, eof_indicator, torn, fd>>
<1>1. /\ UNCHANGED <<handle, memory, window, buffer_pos, flags, frame, lost, content>>
      /\ (UNCHANGED <<size, grown>>) \/ grown' > 0
  BY WorldMoves
<1>2. UNCHANGED <<tell, call, out, outcome, eof_indicator, torn, fd, is_eof_reached, buffer_pos,
                  buffer_size, buffer, file_pos_of_buffer_start>>
  BY <1>1 DEF tell, torn, frame, flags, handle, window, memory
<1>3. ASSUME NEW s PROVE Values(s)' = Values(s)
  BY <1>1 DEF Values
<1>4. BomOnly' <=> BomOnly
  BY <1>2, <1>1 DEF BomOnly, BomHere, Values, Between
<1>5. grown' = 0 => grown = 0 /\ size' = size
  BY <1>1
<1>. QED
  BY <1>2, <1>4, <1>5 DEF MetTheEnd, StuckBeforeBom, Available

(* The steps that answer a call for a line: at the end, or at a delimiter. *)
LEMMA LineEnds ==
  ASSUME TInv, ReadLineBody \/ ReadLineMore, pc' = "ret", outcome' \in Plain
  PROVE  /\ call.op \in Lines /\ UNCHANGED <<call, content, grown, size, fd, is_eof_reached, lost>>
         /\ \/ /\ pc = "body" /\ NoLine /\ out = <<>> /\ tell = call.start
               /\ (MetTheEnd \/ StuckBeforeBom)
            \/ pc = "more" /\ LastLine /\ out # <<>> /\ MetTheEnd
            \/ \E p \in Nat, i \in Nat :
                 /\ p <= i /\ i < buffer_size
                 /\ p = IF pc = "body" THEN AfterBom ELSE 0
                 /\ pc = "body" => ~(no_data \/ BomOnly)
                 /\ pc = "more" => ~no_data
                 /\ i \in Found(p) /\ \A j \in p .. i - 1 : j \notin Found(p)
                 /\ out' = out \o Between(p, i + IF KeepDelim THEN 1 ELSE 0)
                 /\ buffer_pos' = i + 1 /\ outcome' = "ok"
                 /\ UNCHANGED <<window, eof_indicator>>
<1>1. /\ call.op \in Lines /\ UNCHANGED <<call, content, grown, size, fd, is_eof_reached, lost>>
      /\ pc \in {"body", "more"} /\ call.op # "seek"
  BY DEF ReadLineBody, ReadLineMore, InLine, Lines, texts, world, handle
<1>2. CASE pc = "body" /\ (no_data \/ BomOnly) /\ NoLine
  <2>1. out = <<>> /\ tell = call.start
    BY <1>1, <1>2 DEF TInv, Placed, Where, Entered, Entering, Framed, Lines
  <2>. QED
    BY <1>1, <1>2, <2>1, EndIsMet, OnlyBom
<1>3. CASE pc = "more" /\ no_data /\ LastLine
  <2>1. out # <<>>
    BY <1>1, <1>3 DEF TInv, Placed, Where, Looped, Looping
  <2>. QED
    BY <1>1, <1>3, <2>1, EndIsMet
<1>4. ASSUME NEW p \in Nat, p = (IF pc = "body" THEN AfterBom ELSE 0), p <= buffer_size,
             pc = "body" => ~(no_data \/ BomOnly), pc = "more" => ~no_data,
             Scan(p), UNCHANGED eof_indicator
      PROVE  \E i \in Nat :
                 /\ p <= i /\ i < buffer_size
                 /\ i \in Found(p) /\ \A j \in p .. i - 1 : j \notin Found(p)
                 /\ out' = out \o Between(p, i + IF KeepDelim THEN 1 ELSE 0)
                 /\ buffer_pos' = i + 1 /\ outcome' = "ok"
                 /\ UNCHANGED <<window, eof_indicator>>
  <2>1. ~HasNoDataLeft("more", buffer_size, is_eof_reached)
    BY DEF HasNoDataLeft, FhRead, Finish, Plain
  <2>2. IInv /\ buffer_size \in Nat
    BY Numbers DEF TInv, PInv, WInv
  <2> DEFINE i == CHOOSE i \in Found(p) : \A j \in Found(p) : i <= j
  <2>3. /\ Found(p) # {}
        /\ out' = out \o Between(p, i + IF KeepDelim THEN 1 ELSE 0)
        /\ buffer_pos' = i + 1 /\ outcome' = "ok" /\ UNCHANGED window
    BY <1>4, <2>1 DEF Scan, Finish
  <2>4. Found(p) \subseteq p .. buffer_size - 1
    BY DEF Found
  <2>5. \E k \in Found(p) : \A j \in Found(p) : k <= j
    <3>1. Found(p) \subseteq Nat
      BY <2>2, <2>4
    <3>. QED
      BY <2>3, <3>1, LeastNumber
  <2>6. i \in Found(p) /\ \A j \in Found(p) : i <= j
    BY <2>5
  <2> HIDE DEF i
  <2>7. i \in Nat /\ p <= i /\ i < buffer_size
    BY <2>2, <2>4, <2>6
  <2>8. \A j \in p .. i - 1 : j \notin Found(p)
    BY <2>6, <2>7
  <2>. QED
    BY <1>4, <2>3, <2>6, <2>7, <2>8
<1>5. CASE pc = "body" /\ ~(no_data \/ BomOnly) /\ Scan(AfterBom) /\ UNCHANGED eof_indicator
  <2>1. AfterBom \in Nat /\ AfterBom <= buffer_size
    BY <1>1, <1>5, AfterBomIs
  <2>. QED
    BY <1>1, <1>4, <1>5, <2>1
<1>6. CASE pc = "more" /\ ~no_data /\ Scan(0) /\ UNCHANGED eof_indicator
  <2>1. 0 <= buffer_size
    BY Numbers DEF TInv, PInv, WInv
  <2>. QED
    BY <1>1, <1>4, <1>6, <2>1
<1>. QED
  BY <1>1, <1>2, <1>3, <1>5, <1>6 DEF ReadLineBody, ReadLineMore

(* Which of them answers which call.                                       *)
LEMMA Answering ==
  ASSUME TInv, [TextNext]_textVars, pc' = "ret", call'.op \in TextOps \ {"get_last_write_time"},
         outcome' \in Plain
  PROVE  \/ pc = "ret" /\ (TextWorld \/ UNCHANGED textVars)
         \/ /\ call.op = call'.op
            /\ \/ call.op \in Lines /\ (ReadLineBody \/ ReadLineMore)
               \/ call.op = "read_text" /\ (ReadTextBody \/ DrainMore \/ WholeReturn)
               \/ call.op = "read_text_to_end" /\ (ReadTextToEndBody \/ DrainMore)
               \/ call.op = "read_char" /\ (ReadCharBody \/ ReadBytesBody \/ ReadBytesMore)
               \/ call.op = "starts_with" /\ StartsWithBody
<1>1. ASSUME ReadCharBody PROVE call.op = "read_char" /\ call'.op = "read_char"
  <2>1. call.op = "read_char" /\ (UNCHANGED call \/ call' = [call EXCEPT !.loop = "exact"])
    BY <1>1 DEF ReadCharBody
  <2>2. CASE UNCHANGED call
    BY <2>1, <2>2
  <2>3. CASE call' = [call EXCEPT !.loop = "exact"]
    BY <2>1, <2>3
  <2>. QED
    BY <2>1, <2>2, <2>3
<1>2. ASSUME ReadLineBody \/ ReadLineMore PROVE call.op \in Lines /\ UNCHANGED call
  BY <1>2 DEF ReadLineBody, ReadLineMore, InLine
<1>3. ASSUME ReadTextBody \/ ReadTextToEndBody \/ StartsWithBody PROVE UNCHANGED call
  BY <1>3 DEF ReadTextBody, ReadTextToEndBody, StartsWithBody, InLoop
<1>4. ASSUME ReadBytesBody \/ ReadBytesMore PROVE call.op = "read_char" /\ UNCHANGED call
  BY <1>4 DEF ReadBytesBody, ReadBytesMore, InLoop, TInv, Placed, Where, Framed
<1>5. ASSUME DrainMore PROVE call.op \in {"read_text", "read_text_to_end"} /\ UNCHANGED call
  BY <1>5 DEF DrainMore, InLoop, TInv, Placed, Where, Framed
<1>6. ASSUME WholeReturn PROVE call.op = "read_text" /\ UNCHANGED call
  BY <1>6 DEF WholeReturn, InLoop, TInv, Placed, Where, Shape
<1>7. /\ ReadTextBody => call.op = "read_text"
      /\ ReadTextToEndBody => call.op = "read_text_to_end"
      /\ StartsWithBody => call.op = "starts_with"
  BY DEF ReadTextBody, ReadTextToEndBody, StartsWithBody
<1>. QED
  BY Returning, <1>1, <1>2, <1>3, <1>4, <1>5, <1>6, <1>7

LEMMA ThrowKeeps ==
  ASSUME NEW e, Throw(e), UNCHANGED <<fd, content, size, grown, buffer, is_eof_reached, call, lost>>
  PROVE  /\ MetTheEnd' <=> MetTheEnd
         /\ StuckBeforeBom' <=> StuckBeforeBom
         /\ UNCHANGED <<tell, out>> /\ pc' = "ret" /\ outcome' = e
<1>1. /\ UNCHANGED <<buffer_pos, buffer_size, file_pos_of_buffer_start, tell, Available, out>>
      /\ pc' = "ret" /\ outcome' = e
  BY DEF Throw, Finish, window, tell, Available
<1>2. BomOnly' <=> BomOnly
  BY <1>1 DEF BomOnly, BomHere, Values, Between
<1>. QED
  BY <1>1, <1>2 DEF MetTheEnd, StuckBeforeBom

LEMMA ThrowsAtTheEnd ==
  ASSUME TInv, ReadLineBody \/ ReadLineMore, NoLine \/ LastLine, Inside'
  PROVE  /\ MetTheEnd' <=> MetTheEnd
         /\ StuckBeforeBom' <=> StuckBeforeBom
         /\ UNCHANGED <<tell, out, call>> /\ pc' = "ret"
         /\ NoLine => outcome' = IF call.op = "read_line_reae" THEN "ok" ELSE "UnexpectedEOF"
         /\ LastLine => outcome' = "ok"
         /\ call.op = "read_line_reae" => eof_indicator' = TRUE
<1>1. UNCHANGED <<fd, content, size, grown, buffer, is_eof_reached, call, lost>>
  BY DEF ReadLineBody, ReadLineMore, InLine, texts, world, handle
<1>2. pc' # "aborted"
  BY DEF Inside
<1>3. \/ NoLine /\ Throw(IF call.op = "read_line_reae" THEN "ok" ELSE "UnexpectedEOF")
      \/ LastLine /\ Throw("ok")
  BY <1>2 DEF NoLine, LastLine
<1>4. call.op = "read_line_reae" => eof_indicator' = TRUE
  BY <1>2 DEF NoLine, LastLine
<1>5. /\ NoLine => outcome' = IF call.op = "read_line_reae" THEN "ok" ELSE "UnexpectedEOF"
      /\ LastLine => outcome' = "ok"
  BY <1>2 DEF NoLine, LastLine, Throw, Finish
<1>. QED
  BY <1>1, <1>3, <1>4, <1>5, ThrowKeeps

LEMMA NextLinesFail ==
  TInv /\ LinesFailOnlyAtTheEnd /\ [TextNext]_textVars => LinesFailOnlyAtTheEnd'
<1> SUFFICES ASSUME TInv, LinesFailOnlyAtTheEnd, [TextNext]_textVars,
                    Returned({"read_line", "read_until"}, "UnexpectedEOF")'
             PROVE  (tell = call.start /\ (MetTheEnd \/ StuckBeforeBom))'
  BY DEF LinesFailOnlyAtTheEnd
<1>1. /\ pc' = "ret" /\ call'.op \in {"read_line", "read_until"} /\ outcome' = "UnexpectedEOF" /\ ~torn'
  BY DEF Returned
<1>2. \/ pc = "ret" /\ (TextWorld \/ UNCHANGED textVars)
      \/ ReadLineBody \/ ReadLineMore
  <2>1. call'.op \in TextOps \ {"get_last_write_time"} /\ outcome' \in Plain
    BY <1>1 DEF TextOps, Lines, Plain
  <2>. QED
    BY <1>1, <2>1, Answering DEF Lines
<1>3. CASE pc = "ret" /\ (TextWorld \/ UNCHANGED textVars)
  <2>1. Returned({"read_line", "read_until"}, "UnexpectedEOF")
    BY <1>3, SeenStill DEF Returned
  <2>. QED
    BY <1>3, <2>1, SeenStill DEF LinesFailOnlyAtTheEnd
<1>4. CASE ReadLineBody \/ ReadLineMore
  <2>1. Inside'
    BY TextNextPInv DEF PInv
  <2>2. outcome' \in Plain /\ outcome' # "ok"
    BY <1>1 DEF Plain
  <2>3. NoLine /\ out = <<>> /\ tell = call.start /\ (MetTheEnd \/ StuckBeforeBom)
    BY <1>1, <1>4, <2>1, <2>2, LineEnds, ThrowsAtTheEnd
  <2>. QED
    BY <1>4, <2>1, <2>3, ThrowsAtTheEnd
<1>. QED
  BY <1>2, <1>3, <1>4

(* A line is refused only at the end, or before a lone BOM, and nothing is *)
(* consumed then (IFile.hpp:303-307, 84-86).                               *)
THEOREM LinesFail == OneFile /\ TextSpec => []LinesFailOnlyAtTheEnd
<1>1. TextInit => LinesFailOnlyAtTheEnd
  BY DEF TextInit, Init, LinesFailOnlyAtTheEnd, Returned
<1>. QED
  BY <1>1, InitTInv, NextTInv, NextLinesFail, PTL DEF TextSpec

-----------------------------------------------------------------------------
(* The bytes a call has taken are bytes of the file.                       *)

LEMMA PartOf ==
  ASSUME NEW S, NEW c \in Seq(S), NEW a \in Nat, NEW b \in Nat, a <= b, b <= Len(c)
  PROVE  /\ SubSeq(c, a + 1, b) \in Seq(S) /\ Len(SubSeq(c, a + 1, b)) = b - a
         /\ \A k \in 1 .. b - a : SubSeq(c, a + 1, b)[k] = c[a + k]
<1>1. Len(c) \in Nat /\ \A i \in a + 1 .. b : c[i] \in S
  OBVIOUS
<1>2. /\ SubSeq(c, a + 1, b) \in Seq(S)
      /\ Len(SubSeq(c, a + 1, b)) = IF a + 1 <= b THEN b - (a + 1) + 1 ELSE 0
      /\ \A i \in 1 .. b - (a + 1) + 1 : SubSeq(c, a + 1, b)[i] = c[a + 1 + i - 1]
  BY <1>1, SubSeqProperties
<1>3. (IF a + 1 <= b THEN b - (a + 1) + 1 ELSE 0) = b - a /\ b - (a + 1) + 1 = b - a
  OBVIOUS
<1>4. \A k \in 1 .. b - a : a + 1 + k - 1 = a + k
  OBVIOUS
<1>. QED
  BY <1>2, <1>3, <1>4

LEMMA TextsOfOctets == Texts \subseteq Seq(Octets) /\ Signatures \subseteq Seq(Octets)
BY TextAssumption DEF Octets

LEMMA TextOfFile ==
  ASSUME Contents, NEW f \in Files
  PROVE  /\ content[f] \in Seq(Octets) /\ Len(content[f]) \in Nat /\ size[f] <= Len(content[f])
         /\ \A k \in 1 .. Len(content[f]) : content[f][k] \in Octets
<1>1. content[f] \in Seq(Octets) /\ size[f] <= Len(content[f])
  BY TextsOfOctets DEF Contents
<1>2. PICK c \in Seq(Octets) : c = content[f]
  BY <1>1
<1>3. Len(c) \in Nat /\ \A k \in 1 .. Len(c) : c[k] \in Octets
  BY LenProperties, ElementOfSeq
<1>. QED
  BY <1>1, <1>2, <1>3

LEMMA PartOfFile ==
  ASSUME Contents, fd \in Files, size[fd] \in Nat, NEW a \in Nat, NEW b \in Nat, a <= b, b <= size[fd]
  PROVE  /\ FileBytes(a, b) \in Seq(Octets) /\ Len(FileBytes(a, b)) = b - a
         /\ \A k \in 1 .. b - a : FileBytes(a, b)[k] = content[fd][a + k]
<1>1. /\ content[fd] \in Seq(Octets) /\ Len(content[fd]) \in Nat /\ b <= Len(content[fd])
  BY TextOfFile
<1> DEFINE c == content[fd]
<1>2. c \in Seq(Octets) /\ Len(c) \in Nat /\ b <= Len(c)
  BY <1>1
<1> HIDE DEF c
<1>3. /\ SubSeq(c, a + 1, b) \in Seq(Octets) /\ Len(SubSeq(c, a + 1, b)) = b - a
      /\ \A k \in 1 .. b - a : SubSeq(c, a + 1, b)[k] = c[a + k]
  BY <1>2, PartOf
<1>. QED
  BY <1>3 DEF FileBytes, c

LEMMA RunOfFile ==
  ASSUME Contents, fd \in Files, size[fd] \in Nat, NEW s \in Nat, NEW n \in Nat, s + n <= size[fd]
  PROVE  Values(Run(fd, s, n)) = FileBytes(s, s + n)
<1>1. /\ Run(fd, s, n) \in Seq({fd} \X Nat) /\ Len(Run(fd, s, n)) = n
      /\ \A k \in 1 .. n : Run(fd, s, n)[k] = <<fd, s + k - 1>>
  BY RunType
<1>2. /\ FileBytes(s, s + n) \in Seq(Octets) /\ Len(FileBytes(s, s + n)) = n
      /\ \A k \in 1 .. n : FileBytes(s, s + n)[k] = content[fd][s + k]
  <2>1. PICK e \in Nat : e = s + n
    OBVIOUS
  <2>2. s <= e /\ e <= size[fd] /\ e - s = n
    BY <2>1
  <2>3. /\ FileBytes(s, e) \in Seq(Octets) /\ Len(FileBytes(s, e)) = e - s
        /\ \A k \in 1 .. e - s : FileBytes(s, e)[k] = content[fd][s + k]
    BY <2>2, PartOfFile
  <2>. QED
    BY <2>1, <2>2, <2>3
<1> DEFINE r == Run(fd, s, n)
           t == FileBytes(s, s + n)
<1>3. /\ r \in Seq({fd} \X Nat) /\ Len(r) = n /\ \A k \in 1 .. n : r[k] = <<fd, s + k - 1>>
      /\ t \in Seq(Octets) /\ Len(t) = n /\ \A k \in 1 .. n : t[k] = content[fd][s + k]
  BY <1>1, <1>2
<1> HIDE DEF r, t
<1>4. DOMAIN r = 1 .. n /\ DOMAIN t = 1 .. n
  BY <1>3
<1>5. \A k \in 1 .. n : content[r[k][1]][r[k][2] + 1] = t[k]
  <2> SUFFICES ASSUME NEW k \in 1 .. n PROVE content[r[k][1]][r[k][2] + 1] = t[k]
    OBVIOUS
  <2>1. r[k] = <<fd, s + k - 1>> /\ t[k] = content[fd][s + k] /\ s + k - 1 + 1 = s + k
    BY <1>3
  <2>. QED
    BY <2>1
<1>6. t = [k \in 1 .. n |-> t[k]]
  BY <1>3, <1>4
<1>. QED
  BY <1>4, <1>5, <1>6 DEF Values, r, t

LEMMA BetweenIsRun ==
  ASSUME IInv, Holds(buffer_size), NEW a \in Nat, NEW b \in Nat, a <= b, b <= buffer_size
  PROVE  Between(a, b) = Run(fd, file_pos_of_buffer_start + a, b - a)
<1>1. \A k \in 1 .. b - a : buffer[a + k - 1] = <<fd, file_pos_of_buffer_start + a + k - 1>>
  <2> SUFFICES ASSUME NEW k \in 1 .. b - a
               PROVE  buffer[a + k - 1] = <<fd, file_pos_of_buffer_start + a + k - 1>>
    OBVIOUS
  <2>1. a + k - 1 \in 0 .. buffer_size - 1 /\ file_pos_of_buffer_start \in Nat
        /\ file_pos_of_buffer_start + (a + k - 1) = file_pos_of_buffer_start + a + k - 1
    BY Numbers
  <2>. QED
    BY <2>1 DEF Holds
<1>. QED
  BY <1>1 DEF Between, Run

(* What the window of a call holds.                                        *)
LEMMA WindowIsFile ==
  ASSUME TInv, pc \in {"body", "more"}, call.op # "seek",
         NEW a \in Nat, NEW b \in Nat, a <= b, b <= buffer_size
  PROVE  /\ Between(a, b) = Run(fd, file_pos_of_buffer_start + a, b - a)
         /\ Values(Between(a, b)) = FileBytes(file_pos_of_buffer_start + a, file_pos_of_buffer_start + b)
         /\ file_pos_of_buffer_start + b <= size[fd]
<1>1. /\ fd \in Files /\ Holds(buffer_size) /\ Contents /\ IInv
      /\ off = file_pos_of_buffer_start + buffer_size /\ off <= size[fd]
  BY Working DEF TInv, Placed, PInv, WInv
<1>2. size[fd] \in Nat /\ file_pos_of_buffer_start \in Nat /\ buffer_size \in Nat
  BY <1>1, Numbers2 DEF TInv
<1>3. Between(a, b) = Run(fd, file_pos_of_buffer_start + a, b - a)
  BY <1>1, BetweenIsRun
<1> DEFINE s == file_pos_of_buffer_start + a
           n == b - a
<1>4. s \in Nat /\ n \in Nat /\ s + n = file_pos_of_buffer_start + b /\ s + n <= size[fd]
  BY <1>1, <1>2
<1> HIDE DEF s, n
<1>5. Values(Run(fd, s, n)) = FileBytes(s, s + n)
  BY <1>1, <1>2, <1>4, RunOfFile
<1>. QED
  BY <1>3, <1>4, <1>5 DEF s, n

-----------------------------------------------------------------------------
(* read_line_reae() and the end.                                           *)

LEMMA FunIsSeq ==
  ASSUME NEW n \in Nat, NEW S, NEW f \in [1 .. n -> S]
  PROVE  f \in Seq(S) /\ Len(f) = n
<1>1. f \in Seq(S)
  BY SeqDef
<1>. QED
  BY <1>1

LEMMA ValuesSeq ==
  ASSUME NEW s \in Seq(Byte)
  PROVE  \E S : Values(s) \in Seq(S) /\ Len(Values(s)) = Len(s) /\ Len(s) \in Nat
                /\ \A k \in 1 .. Len(s) : Values(s)[k] \in S /\ Values(s)[k] = content[s[k][1]][s[k][2] + 1]
<1>1. DOMAIN s = 1 .. Len(s) /\ Len(s) \in Nat
  OBVIOUS
<1> DEFINE S == {Values(s)[k] : k \in 1 .. Len(s)}
<1>2. \A k \in 1 .. Len(s) : Values(s)[k] \in S /\ Values(s)[k] = content[s[k][1]][s[k][2] + 1]
  BY <1>1 DEF Values
<1>3. Values(s) \in [1 .. Len(s) -> S]
  BY <1>1 DEF Values
<1>. QED
  BY <1>1, <1>2, <1>3, FunIsSeq

(* A line that is not empty before its "\r\n" is changed is not after.     *)
LEMMA ErasedIsSome ==
  ASSUME NEW S, NEW b \in Seq(S), b # <<>>, \A k \in 1 .. Len(b) : b[k] \in S
  PROVE  EraseCR(b) # <<>>
<1>1. CASE Len(b) >= 2 /\ b[Len(b)] = LF /\ b[Len(b) - 1] = CR
  <2>1. LF \in S
    BY <1>1
  <2>2. Len(b) - 2 \in 0 .. Len(b)
    BY <1>1
  <2>3. PICK n \in 0 .. Len(b) : n = Len(b) - 2
    BY <2>2
  <2>4. SubSeq(b, 1, n) \in Seq(S)
    BY Prefix
  <2>5. PICK u \in Seq(S) : u = SubSeq(b, 1, n)
    BY <2>4
  <2>6. Append(u, LF) # <<>>
    BY <2>1, AppendProperties
  <2>7. EraseCR(b) = Append(SubSeq(b, 1, Len(b) - 2), LF)
    BY <1>1 DEF EraseCR
  <2>. QED
    BY <2>3, <2>5, <2>6, <2>7
<1>2. CASE ~(Len(b) >= 2 /\ b[Len(b)] = LF /\ b[Len(b) - 1] = CR)
  BY <1>2 DEF EraseCR
<1>. QED
  BY <1>1, <1>2

LEMMA ReaeResultIsSome ==
  ASSUME TInv', call'.op = "read_line_reae", call'.arg.keep, out' # <<>>
  PROVE  Result' # <<>>
<1>1. out' \in Seq(Byte)'
  BY DEF TInv, PInv, WInv, IInv, Typed, FrameOK
<1>2. Byte' = Byte
  BY DEF Byte
<1> DEFINE b == Values(out)'
<1>3. out' \in Seq(Byte) /\ DOMAIN out' = 1 .. Len(out') /\ Len(out') \in Nat /\ Len(out') # 0
  BY <1>1, <1>2
<1>4. PICK S : b \in Seq(S) /\ Len(b) = Len(out') /\ \A k \in 1 .. Len(out') : b[k] \in S
  <2> DEFINE T == {b[k] : k \in 1 .. Len(out')}
  <2>1. b \in [1 .. Len(out') -> T] /\ \A k \in 1 .. Len(out') : b[k] \in T
    BY <1>3 DEF Values
  <2> HIDE DEF b, T
  <2>2. b \in Seq(T) /\ Len(b) = Len(out')
    BY <1>3, <2>1, FunIsSeq
  <2>. QED
    BY <1>3, <2>1, <2>2
<1>5. Result' = IF ~LastIsLF(b) THEN b ELSE EraseCR(b)
  BY DEF Result
<1> HIDE DEF b
<1>6. b # <<>> /\ EraseCR(b) # <<>>
  BY <1>3, <1>4, ErasedIsSome
<1>. QED
  BY <1>5, <1>6

LEMMA NextReaeTells == TInv /\ ReaeTellsTheEnd /\ [TextNext]_textVars => ReaeTellsTheEnd'
<1> SUFFICES ASSUME TInv, ReaeTellsTheEnd, [TextNext]_textVars,
                    Returned({"read_line_reae"}, "ok")'
             PROVE  (/\ ~LastIsLF(Values(out)) => eof_indicator /\ (MetTheEnd \/ StuckBeforeBom)
                     /\ call.arg.keep /\ Result = <<>> => tell = call.start)'
  BY DEF ReaeTellsTheEnd
<1>1. /\ pc' = "ret" /\ call'.op = "read_line_reae" /\ outcome' = "ok" /\ ~torn' /\ TInv' /\ Inside'
  BY NextTInv DEF Returned, TInv, PInv
<1>2. \/ pc = "ret" /\ (TextWorld \/ UNCHANGED textVars)
      \/ ReadLineBody \/ ReadLineMore
  <2>1. call'.op \in TextOps \ {"get_last_write_time"} /\ outcome' \in Plain
    BY <1>1 DEF TextOps, Lines, Plain
  <2>. QED
    BY <1>1, <2>1, Answering DEF Lines
<1>3. CASE pc = "ret" /\ (TextWorld \/ UNCHANGED textVars)
  <2>1. Returned({"read_line_reae"}, "ok")
    BY <1>1, <1>3, SeenStill DEF Returned
  <2>2. UNCHANGED <<tell, call, out, eof_indicator, content>>
    BY <1>3, SeenStill, WorldMoves
  <2>3. Values(out)' = Values(out)
    BY <2>2 DEF Values
  <2>4. Result' = Result
    BY <2>2, <2>3 DEF Result
  <2>. QED
    BY <1>3, <2>1, <2>2, <2>3, <2>4, SeenStill DEF ReaeTellsTheEnd
<1>4. CASE ReadLineBody \/ ReadLineMore
  <2>0. outcome' \in Plain
    BY <1>1 DEF Plain
  <2>1. call.op \in Lines /\ UNCHANGED <<call, content, grown, size, fd, is_eof_reached, lost>>
    BY <1>1, <1>4, <2>0, LineEnds
  <2>2. CASE (NoLine \/ LastLine) /\ (MetTheEnd \/ StuckBeforeBom) /\ (out # <<>> \/ tell = call.start)
    <3>1. /\ MetTheEnd' \/ StuckBeforeBom'
          /\ UNCHANGED <<tell, out, call>> /\ eof_indicator' = TRUE
      BY <1>1, <1>4, <2>1, <2>2, ThrowsAtTheEnd
    <3>2. call'.arg.keep /\ Result' = <<>> => out' = <<>>
      BY <1>1, ReaeResultIsSome
    <3>3. (call'.arg.keep /\ Result' = <<>>) => tell' = call'.start
      BY <2>2, <3>1, <3>2
    <3>. QED
      BY <3>1, <3>3
  <2>3. ASSUME NEW p \in Nat, NEW i \in Nat, p <= i, i < buffer_size, i \in Found(p),
               out' = out \o Between(p, i + IF KeepDelim THEN 1 ELSE 0)
        PROVE  LastIsLF(Values(out))' /\ out' # <<>>
    <3>1. call.op = "read_line_reae" /\ KeepDelim /\ call.arg.delim = LF
      BY <1>1, <2>1 DEF KeepDelim, TInv, Placed, Where, Framed
    <3>2. IInv /\ i + 1 \in Nat /\ p <= i + 1 /\ i + 1 <= buffer_size /\ buffer_size \in Nat
          /\ out \in Seq(Byte) /\ Len(out) \in Nat
      BY <2>3, Numbers DEF TInv, PInv, WInv
    <3>3. PICK e \in Nat, l \in Nat, n \in Nat : e = i + 1 /\ l = Len(out) /\ n = l + (e - p) /\ p < e
      <4>1. PICK e \in Nat : e = i + 1
        OBVIOUS
      <4>2. PICK l \in Nat : l = Len(out)
        BY <3>2
      <4>3. p < e /\ l + (e - p) \in Nat
        BY <2>3, <4>1
      <4>. QED
        BY <4>1, <4>2, <4>3
    <3>4. PICK q : q = Between(p, e)
      OBVIOUS
    <3>5. q \in Seq(Byte) /\ Len(q) = e - p /\ \A k \in 1 .. e - p : q[k] = buffer[p + k - 1]
      <4>1. p <= e /\ e <= buffer_size /\ IInv
        BY <3>2, <3>3
      <4>. QED
        BY <3>4, <4>1, BetweenIs
    <3>6. out' = out \o q /\ n > 0
      BY <2>3, <3>1, <3>3, <3>4
    <3>7. Len(out') = n /\ out' \in Seq(Byte) /\ out'[n] = buffer[i]
      <4>1. e - p \in 1 .. e - p /\ p + (e - p) - 1 = i /\ ~(n <= l)
            /\ n - l = e - p /\ n \in 1 .. l + (e - p)
        BY <3>3
      <4>2. q[e - p] = buffer[i]
        BY <3>5, <4>1
      <4>3. /\ out \o q \in Seq(Byte) /\ Len(out \o q) = Len(out) + Len(q)
            /\ \A k \in 1 .. Len(out) + Len(q) :
                 (out \o q)[k] = IF k <= Len(out) THEN out[k] ELSE q[k - Len(out)]
        BY <3>2, <3>5, ConcatProperties
      <4>4. (out \o q)[n] = q[e - p]
        BY <3>3, <3>5, <4>1, <4>3
      <4>. QED
        BY <3>3, <3>5, <3>6, <4>2, <4>3, <4>4
    <3>8. Values(<<buffer[i]>>)[1] = LF
      BY <2>3, <3>1 DEF Found
    <3>9. content[buffer[i][1]][buffer[i][2] + 1] = LF
      BY <3>8 DEF Values
    <3>10. /\ Len(Values(out)') = n
           /\ Values(out)'[n] = LF
      <4>1. n \in DOMAIN out' /\ DOMAIN out' = 1 .. n
        BY <3>6, <3>7
      <4>2. Values(out)' = [k \in 1 .. n |-> content[out'[k][1]][out'[k][2] + 1]]
        BY <2>1, <4>1 DEF Values
      <4>. QED
        BY <3>7, <3>9, <4>1, <4>2
    <3>11. LastIsLF(Values(out)')
      <4>1. Values(out)' # <<>>
        BY <3>6, <3>10
      <4>. QED
        BY <3>10, <4>1 DEF LastIsLF
    <3>. QED
      BY <3>6, <3>7, <3>11 DEF LastIsLF
  <2>4. CASE ~((NoLine \/ LastLine) /\ (MetTheEnd \/ StuckBeforeBom) /\ (out # <<>> \/ tell = call.start))
    <3>1. PICK p \in Nat, i \in Nat :
                 /\ p <= i /\ i < buffer_size
                 /\ i \in Found(p)
                 /\ out' = out \o Between(p, i + IF KeepDelim THEN 1 ELSE 0)
      BY <1>1, <1>4, <2>0, <2>4, LineEnds
    <3>2. LastIsLF(Values(out))' /\ out' # <<>>
      BY <3>1, <2>3
    <3>. QED
      BY <1>1, <3>2, ReaeResultIsSome
  <2>. QED
    BY <2>2, <2>4
<1>. QED
  BY <1>2, <1>3, <1>4

(* read_line_reae() says that the end is passed whenever it returns a line *)
(* without a newline, and returns nothing only there: the loops of Python  *)
(* and Rust end with the file, and not before (IFile.hpp:359-389).         *)
THEOREM ReaeTells == OneFile /\ TextSpec => []ReaeTellsTheEnd
<1>1. TextInit => ReaeTellsTheEnd
  BY DEF TextInit, Init, ReaeTellsTheEnd, Returned
<1>. QED
  BY <1>1, InitTInv, NextTInv, NextReaeTells, PTL DEF TextSpec

-----------------------------------------------------------------------------
(* starts_with()                                                           *)

LEMMA FirstOf ==
  ASSUME NEW c \in Seq(Octets), NEW n \in Nat, n <= Len(c), NEW t, t = SubSeq(c, 1, n)
  PROVE  t \in Seq(Octets) /\ Len(t) = n /\ \A k \in 1 .. n : t[k] = c[k]
<1>1. n \in 0 .. Len(c)
  OBVIOUS
<1>2. /\ SubSeq(c, 1, n) \in Seq(Octets) /\ Len(SubSeq(c, 1, n)) = n
      /\ \A i \in 1 .. n : SubSeq(c, 1, n)[i] = c[i]
  BY <1>1, Prefix
<1>. QED
  BY <1>2

LEMMA PrefixIs ==
  ASSUME Contents, fd \in Files, size[fd] \in Nat, NEW s \in Seq(Octets)
  PROVE  /\ Len(s) \in Nat
         /\ IsPrefix(s, FileBytes(0, size[fd])) <=> Len(s) <= size[fd] /\ s = FileBytes(0, Len(s))
<1>1. PICK c \in Seq(Octets) : c = content[fd] /\ size[fd] <= Len(c)
  BY TextOfFile
<1>2. PICK n \in Nat : n = size[fd]
  OBVIOUS
<1>3. PICK l \in Nat : l = Len(s)
  OBVIOUS
<1>4. PICK t : t = FileBytes(0, n)
  OBVIOUS
<1>5. /\ t \in Seq(Octets) /\ Len(t) = n /\ \A k \in 1 .. n : t[k] = c[k]
  <2>1. t = SubSeq(c, 1, n)
    BY <1>1, <1>4 DEF FileBytes
  <2>. QED
    <3>1. n <= Len(c)
      BY <1>1, <1>2
    <3>. QED
      BY <2>1, <3>1, FirstOf
<1>6. ASSUME l <= n
      PROVE  SubSeq(t, 1, l) = FileBytes(0, l) /\ SubSeq(s, 1, l) = s
  <2>1. PICK u : u = FileBytes(0, l)
    OBVIOUS
  <2>2. /\ u \in Seq(Octets) /\ Len(u) = l /\ \A k \in 1 .. l : u[k] = c[k]
    <3>1. u = SubSeq(c, 1, l) /\ l <= Len(c)
      BY <1>1, <1>2, <1>6, <2>1 DEF FileBytes
    <3>. QED
      BY <3>1, FirstOf
  <2>3. PICK v : v = SubSeq(t, 1, l)
    OBVIOUS
  <2>4. v \in Seq(Octets) /\ Len(v) = l /\ \A k \in 1 .. l : v[k] = t[k]
    BY <1>5, <1>6, <2>3, FirstOf
  <2>5. v = u
    <3>1. \A k \in 1 .. l : v[k] = u[k]
      BY <1>5, <1>6, <2>2, <2>4
    <3>. QED
      BY <2>2, <2>4, <3>1, SeqEqual
  <2>6. SubSeq(s, 1, l) = s
    BY <1>3, SubSeqFull
  <2>. QED
    BY <2>1, <2>3, <2>5, <2>6
<1>7. IsPrefix(s, t) <=> l <= n /\ SubSeq(s, 1, l) = SubSeq(t, 1, l)
  BY <1>3, <1>5 DEF IsPrefix
<1>. QED
  BY <1>2, <1>3, <1>4, <1>6, <1>7

LEMMA StartsWithAnswer ==
  ASSUME TInv, StartsWithBody
  PROVE  /\ fd \in Files /\ size[fd] \in Nat /\ call.arg \in Seq(Octets)
         /\ tell = 0 /\ outcome' \in {"true", "false"}
         /\ UNCHANGED <<tell, buffer_size, buffer_capacity, fd, content, size, grown, call>>
         /\ outcome' = "true" => IsPrefix(call.arg, FileBytes(0, size[fd]))
         /\ outcome' = "false" /\ IsPrefix(call.arg, FileBytes(0, size[fd])) =>
              \/ grown > 0
              \/ call.arg = <<>> /\ size[fd] = 0
              \/ Len(call.arg) > buffer_size /\ buffer_size \in {buffer_capacity, SeekChunk, 2 * SeekChunk}
<1>1. /\ pc = "body" /\ call.op = "starts_with" /\ InLoop /\ UNCHANGED texts
      /\ outcome' = (IF ~no_data /\ HoldsSignature(call.arg) THEN "true" ELSE "false")
      /\ UNCHANGED <<window, buffer_pos>>
  BY DEF StartsWithBody, Throw, Finish
<1>2. /\ fd \in Files /\ off = file_pos_of_buffer_start + buffer_size /\ off <= size[fd] /\ ~torn
      /\ Contents /\ grown \in Nat /\ (no_data => buffer_pos = 0 /\ buffer_size = 0)
      /\ (~no_data => buffer_pos < buffer_size)
  BY <1>1, Working DEF TInv, Placed, Contents
<1>3. /\ size[fd] \in Nat /\ buffer_size \in Nat /\ file_pos_of_buffer_start \in Nat
      /\ buffer_pos \in Nat
  BY <1>2, Numbers2 DEF TInv
<1>4. call.arg \in Signatures
  BY <1>1 DEF TInv, Placed, Where, Framed
<1>5. PICK s \in Seq(Octets) : s = call.arg
  BY <1>4, TextsOfOctets
<1>6. tell = 0 /\ file_pos_of_buffer_start = 0
  <2>1. tell = 0
    BY <1>1 DEF TInv, Placed, Where, Entered, Entering, Framed
  <2>. QED
    BY <1>3, <2>1 DEF tell
<1>7. UNCHANGED <<tell, buffer_size, buffer_capacity, fd, content, size, grown, call>>
  BY <1>1 DEF InLoop, tell, window, handle, world, texts
<1>8. PICK l \in Nat : l = Len(s)
  OBVIOUS
<1>9. IsPrefix(s, FileBytes(0, size[fd])) <=> l <= size[fd] /\ s = FileBytes(0, l)
  BY <1>2, <1>3, <1>8, PrefixIs
<1>10. l <= buffer_size => Values(Between(0, l)) = FileBytes(0, l) /\ l <= size[fd]
  <2> SUFFICES ASSUME l <= buffer_size
               PROVE  Values(Between(0, l)) = FileBytes(0, l) /\ l <= size[fd]
    OBVIOUS
  <2>1. Values(Between(0, l)) = FileBytes(0 + 0, 0 + l) /\ 0 + l <= size[fd]
    BY <1>1, <1>6, WindowIsFile
  <2>. QED
    BY <2>1
<1>11. HoldsSignature(s) <=> buffer_size >= l /\ Values(Between(0, l)) = s
  BY <1>8 DEF HoldsSignature
<1>12. outcome' = "true" => IsPrefix(s, FileBytes(0, size[fd]))
  BY <1>1, <1>3, <1>5, <1>9, <1>10, <1>11
<1>13. ASSUME outcome' = "false", IsPrefix(s, FileBytes(0, size[fd])), grown = 0
       PROVE  \/ s = <<>> /\ size[fd] = 0
              \/ l > buffer_size /\ buffer_size \in {buffer_capacity, SeekChunk, 2 * SeekChunk}
  <2>1. CASE no_data
    <3>1. MetTheEnd
      BY <1>1, <2>1, EndIsMet
    <3>2. size[fd] = 0
      BY <1>6, <1>13, <3>1 DEF MetTheEnd
    <3>3. l = 0
      BY <1>9, <1>13, <3>2
    <3>4. s = <<>>
      BY <1>8, <3>3, EmptySeq
    <3>. QED
      BY <3>2, <3>4
  <2>2. CASE ~no_data
    <3>1. ~HoldsSignature(s)
      BY <1>1, <1>5, <1>13, <2>2
    <3>2. l > buffer_size
      <4>1. ~(buffer_size >= l)
        BY <1>3, <1>9, <1>10, <1>11, <1>13, <3>1
      <4>. QED
        BY <1>3, <4>1
    <3>3. ~(size[fd] <= off)
      BY <1>2, <1>3, <1>6, <1>9, <1>13, <3>2
    <3>4. buffer_size # 0 /\ fd # NoFile
      BY <1>2, <1>3, <2>2, FilesAssumption
    <3>5. buffer_size \in {buffer_capacity, SeekChunk, 2 * SeekChunk}
      BY <1>1, <1>2, <1>13, <3>3, <3>4 DEF TInv, Placed, Full, Resting
    <3>. QED
      BY <3>2, <3>5
  <2>. QED
    BY <2>1, <2>2
<1>14. grown # 0 => grown > 0
  BY <1>2
<1>15. outcome' \in {"true", "false"}
  BY <1>1
<1>. QED
  BY <1>2, <1>3, <1>5, <1>6, <1>7, <1>8, <1>12, <1>13, <1>14, <1>15

LEMMA PrefixStays ==
  ASSUME Contents, Contents', UNCHANGED <<content, fd>>, fd \in Files, size[fd] \in Nat,
         size'[fd] \in Nat, size[fd] <= size'[fd], NEW s \in Seq(Octets),
         IsPrefix(s, FileBytes(0, size[fd]))
  PROVE  IsPrefix(s, FileBytes(0, size[fd])')
<1>1. PICK c \in Seq(Octets) : c = content[fd] /\ size[fd] <= Len(c) /\ size'[fd] <= Len(c)
  <2>1. content[fd] \in Seq(Octets) /\ size[fd] <= Len(content[fd])
    BY TextOfFile
  <2>2. size'[fd] <= Len(content[fd])
    BY DEF Contents
  <2>. QED
    BY <2>1, <2>2
<1>2. PICK m \in Nat, n \in Nat : m = size[fd] /\ n = size'[fd] /\ m <= n
  OBVIOUS
<1>3. PICK t : t = SubSeq(c, 1, m)
  OBVIOUS
<1>4. PICK u : u = SubSeq(c, 1, n)
  OBVIOUS
<1>5. t \in Seq(Octets) /\ Len(t) = m /\ \A k \in 1 .. m : t[k] = c[k]
  <2>1. m <= Len(c)
    BY <1>1, <1>2
  <2>. QED
    BY <1>3, <2>1, FirstOf
<1>6. u \in Seq(Octets) /\ Len(u) = n /\ \A k \in 1 .. n : u[k] = c[k]
  <2>1. n <= Len(c)
    BY <1>1, <1>2
  <2>. QED
    BY <1>4, <2>1, FirstOf
<1>7. PICK l \in Nat : l = Len(s)
  OBVIOUS
<1>8. IsPrefix(s, t)
  BY <1>1, <1>2, <1>3 DEF FileBytes
<1>9. l <= m /\ SubSeq(s, 1, l) = SubSeq(t, 1, l)
  BY <1>5, <1>7, <1>8 DEF IsPrefix
<1>10. SubSeq(t, 1, l) = SubSeq(u, 1, l)
  <2>1. PICK v : v = SubSeq(t, 1, l)
    OBVIOUS
  <2>2. PICK w : w = SubSeq(u, 1, l)
    OBVIOUS
  <2>3. v \in Seq(Octets) /\ Len(v) = l /\ \A k \in 1 .. l : v[k] = t[k]
    <3>1. l <= Len(t)
      BY <1>5, <1>9
    <3>. QED
      BY <1>5, <2>1, <3>1, FirstOf
  <2>4. w \in Seq(Octets) /\ Len(w) = l /\ \A k \in 1 .. l : w[k] = u[k]
    <3>1. l <= n
      BY <1>2, <1>9
    <3>. QED
      BY <1>6, <2>2, <3>1, FirstOf
  <2>5. \A k \in 1 .. l : v[k] = w[k]
    <3> SUFFICES ASSUME NEW k \in 1 .. l PROVE v[k] = w[k]
      OBVIOUS
    <3>1. k \in 1 .. m /\ k \in 1 .. n
      BY <1>2, <1>9
    <3>. QED
      BY <1>5, <1>6, <2>3, <2>4, <3>1
  <2>6. v = w
    BY <2>3, <2>4, <2>5, SeqEqual
  <2>. QED
    BY <2>1, <2>2, <2>6
<1>11. IsPrefix(s, u)
  BY <1>2, <1>6, <1>7, <1>9, <1>10 DEF IsPrefix
<1>12. u = FileBytes(0, size[fd])'
  BY <1>1, <1>2, <1>4 DEF FileBytes
<1>. QED
  BY <1>11, <1>12

(* The file a signature was looked for in is the one that is open.         *)
SignatureSeen ==
  Returned({"starts_with"}, outcome) /\ outcome \in {"true", "false"} =>
    fd \in Files /\ call.arg \in Seq(Octets)

LEMMA NextStartsWith ==
  TInv /\ SignatureSeen /\ StartsWithIsExact /\ [TextNext]_textVars
    => SignatureSeen' /\ StartsWithIsExact'
<1> SUFFICES ASSUME TInv, SignatureSeen, StartsWithIsExact, [TextNext]_textVars,
                    Returned({"starts_with"}, outcome)', outcome' \in {"true", "false"}
             PROVE  /\ fd' \in Files /\ call'.arg \in Seq(Octets)
                    /\ tell' = 0
                    /\ outcome' = "true" => IsPrefix(call.arg, FileBytes(0, size[fd]))'
                    /\ outcome' = "false" /\ IsPrefix(call.arg, FileBytes(0, size[fd]))' =>
                         \/ grown' > 0
                         \/ call'.arg = <<>> /\ size'[fd'] = 0
                         \/ /\ Len(call'.arg) > buffer_size'
                            /\ buffer_size' \in {buffer_capacity', SeekChunk, 2 * SeekChunk}
  BY DEF SignatureSeen, StartsWithIsExact
<1>1. /\ pc' = "ret" /\ call'.op = "starts_with" /\ outcome' \in {"true", "false"} /\ ~torn' /\ TInv'
      /\ Contents /\ Contents'
  BY NextTInv DEF Returned, TInv, Placed
<1>2. \/ pc = "ret" /\ (TextWorld \/ UNCHANGED textVars)
      \/ StartsWithBody
  <2>1. call'.op \in TextOps \ {"get_last_write_time"} /\ outcome' \in Plain
    BY <1>1 DEF TextOps, Lines, Plain
  <2>. QED
    BY <1>1, <2>1, Answering DEF Lines
<1>3. CASE pc = "ret" /\ (TextWorld \/ UNCHANGED textVars)
  <2>1. /\ UNCHANGED <<tell, call, outcome, content, buffer_size, buffer_capacity, fd>>
        /\ (UNCHANGED <<size, grown>>) \/ grown' > 0
        /\ \A f \in Files : size[f] \in Nat /\ size'[f] \in Nat /\ size[f] <= size'[f]
    BY <1>3, SeenStill, WorldMoves DEF window, memory
  <2>2. Returned({"starts_with"}, outcome)
    BY <1>1, <1>3, <2>1, SeenStill DEF Returned
  <2>3. fd \in Files /\ call.arg \in Seq(Octets) /\ tell = 0
    BY <1>1, <2>1, <2>2 DEF SignatureSeen, StartsWithIsExact
  <2>4. CASE outcome' = "true"
    <3>1. IsPrefix(call.arg, FileBytes(0, size[fd]))
      BY <2>1, <2>2, <2>4 DEF StartsWithIsExact
    <3>2. IsPrefix(call.arg, FileBytes(0, size[fd])')
      BY <1>1, <2>1, <2>3, <3>1, PrefixStays
    <3>. QED
      BY <2>1, <2>3, <2>4, <3>2
  <2>5. CASE outcome' = "false" /\ UNCHANGED <<size, grown>>
    <3>1. FileBytes(0, size[fd])' = FileBytes(0, size[fd])
      BY <2>1, <2>5 DEF FileBytes
    <3>. QED
      BY <2>1, <2>2, <2>3, <2>5, <3>1 DEF StartsWithIsExact
  <2>6. CASE outcome' = "false" /\ grown' > 0
    BY <2>1, <2>3, <2>6
  <2>. QED
    BY <1>1, <2>1, <2>4, <2>5, <2>6
<1>4. CASE StartsWithBody
  <2>1. FileBytes(0, size[fd])' = FileBytes(0, size[fd])
    BY <1>4, StartsWithAnswer DEF FileBytes
  <2>. QED
    BY <1>4, <2>1, StartsWithAnswer
<1>. QED
  BY <1>2, <1>3, <1>4

(* starts_with() says true only of a file that starts with the signature,  *)
(* and false of one that does only when the file has grown, when both are  *)
(* empty, or when the signature is longer than a first read or a seek back *)
(* to the beginning brings (IFile.hpp:550-559).                            *)
THEOREM StartsWithExact == OneFile /\ TextSpec => []StartsWithIsExact
<1>1. TextInit => SignatureSeen /\ StartsWithIsExact
  BY DEF TextInit, Init, SignatureSeen, StartsWithIsExact, Returned
<1>. QED
  BY <1>1, InitTInv, NextTInv, NextStartsWith, PTL DEF TextSpec
=============================================================================
