---------------------------- MODULE OFileProofs -----------------------------
(***************************************************************************)
(* Proofs about OFile for every value of its constants: any positive       *)
(* capacity, any counts, targets and bounds.  First that its buffer is     *)
(* never overrun, then that it implements WriteBehind.                     *)
(***************************************************************************)
EXTENDS OFileProperties, SequenceTheorems, TLAPS

(* What TypeOK needs to be inductive: a buffer that holds bytes exists and *)
(* has room, and a call on its way to copy a byte has one to copy.         *)
Control ==
  /\ buffer_capacity > 0
  /\ ~allocated => buffer_pos = 0
  /\ pc \in {"copy", "fill"} => allocated
  /\ call.op = "write_byte" /\ pc \in {"flush", "body"} => allocated /\ rest # <<>>
  /\ call.op = "write_byte" /\ pc = "body" => buffer_pos < buffer_capacity

OInv == TypeOK /\ Control

FileOK   ==
  /\ stream \in BOOLEAN /\ full \in BOOLEAN /\ (full => stream)
  /\ contents \in Seq(Byte \cup {Hole, Foreign}) /\ mtime \in {"written", "set"}
HandleOK == is_open \in BOOLEAN /\ appending \in BOOLEAN /\ off \in Nat
DataOK   == todo \in Seq(Byte) /\ rest \in Seq(Byte) /\ serial \in Nat
BufferOK ==
  /\ allocated \in BOOLEAN /\ buffer_capacity \in Nat
  /\ buffer \in [0 .. buffer_capacity - 1 -> Byte \cup {Garbage}]
  /\ buffer_pos \in 0 .. buffer_capacity
  /\ \A i \in 0 .. buffer_pos - 1 : buffer[i] \in Byte
PlaceOK  == pc \in PCs /\ call \in [op : Ops, arg : Int]

LEMMA Types == TypeOK <=> FileOK /\ HandleOK /\ DataOK /\ BufferOK /\ PlaceOK
BY DEF TypeOK, FileOK, HandleOK, DataOK, BufferOK, PlaceOK

-----------------------------------------------------------------------------
(* The operators on sequences of bytes.                                    *)

LEMMA OverlayType ==
  ASSUME NEW S, NEW c \in Seq(S \cup {Hole}), NEW p \in Nat, NEW s \in Seq(S)
  PROVE  Overlay(c, p, s) \in Seq(S \cup {Hole})
<1> DEFINE N == IF Len(c) > p + Len(s) THEN Len(c) ELSE p + Len(s)
<1>1. N \in Nat
  OBVIOUS
<1>2. \A i \in 1 .. N :
        (IF p < i /\ i <= p + Len(s) THEN s[i - p] ELSE IF i <= Len(c) THEN c[i] ELSE Hole)
          \in S \cup {Hole}
  OBVIOUS
<1>. QED
  BY <1>1, <1>2 DEF Overlay

LEMMA SubSeqType ==
  ASSUME NEW S, NEW s \in Seq(S), NEW m \in Nat \ {0}, NEW n \in Nat, n <= Len(s)
  PROVE  SubSeq(s, m, n) \in Seq(S)
BY SubSeqProperties

LEMMA FirstType ==
  ASSUME NEW b, NEW n \in Nat, \A i \in 0 .. n - 1 : b[i] \in Byte
  PROVE  First(b, n) \in Seq(Byte)
<1>1. \A k \in 1 .. n : b[k - 1] \in Byte
  OBVIOUS
<1>. QED
  BY <1>1 DEF First

LEMMA GiveType ==
  ASSUME OInv, NEW n \in Nat, Give(n)
  PROVE  rest' \in Seq(Byte) /\ serial' \in Nat /\ (n # 0 => rest' # <<>>)
<1>1. serial \in Nat
  BY DEF OInv, TypeOK
<1>2. rest' = [k \in 1 .. n |-> serial + k] /\ serial' = serial + n
  BY DEF Give
<1>3. \A k \in 1 .. n : serial + k \in Byte
  BY <1>1 DEF Byte
<1>4. rest' \in Seq(Byte) /\ Len(rest') = n
  BY <1>2, <1>3
<1>. QED
  BY <1>1, <1>2, <1>4

-----------------------------------------------------------------------------
LEMMA InitOInv == Init => OInv
<1> SUFFICES ASSUME Init PROVE OInv
  OBVIOUS
<1> USE DEF Init, HandleInit
<1>1. FileOK /\ DataOK
  BY DEF FileOK, DataOK
<1>5. HandleOK
  <2>1. is_open = FALSE /\ appending = FALSE /\ off \in Nat
    OBVIOUS
  <2>. QED
    BY <2>1 DEF HandleOK
<1>2. BufferOK
  <2>1. allocated = FALSE
    OBVIOUS
  <2>2. /\ buffer_capacity \in Nat /\ buffer_pos = 0 /\ buffer_pos \in 0 .. buffer_capacity
        /\ buffer \in [0 .. buffer_capacity - 1 -> Byte \cup {Garbage}]
    BY OFileAssumption
  <2>3. \A i \in 0 .. buffer_pos - 1 : buffer[i] \in Byte
    BY <2>2
  <2>. QED
    BY <2>1, <2>2, <2>3 DEF BufferOK
<1>3. PlaceOK
  BY DEF PlaceOK, PCs, NoCall, Ops
<1>4. Control
  BY OFileAssumption DEF Control, NoCall
<1>. QED
  BY <1>1, <1>2, <1>3, <1>4, <1>5, Types DEF OInv

(* fh.write() and flush() up to their first system call.                   *)

LEMMA FhWriteEffect ==
  ASSUME OInv, NEW bytes \in Seq(Byte), NEW site \in Sites, FhWrite(bytes, site)
  PROVE  todo' \in Seq(Byte) /\ pc' \in {site, "ret", "terminated"}
BY DEF FhWrite, Throw, OInv, TypeOK

LEMMA PendingType == OInv => Pending \in Seq(Byte)
BY FirstType DEF Pending, OInv, TypeOK

LEMMA FlushEffect ==
  ASSUME OInv, Flush
  PROVE  /\ todo' \in Seq(Byte)
         /\ pc' \in {"flush", "body", "ret", "terminated"}
         /\ pc' = "body" => buffer_pos = 0
<1>1. CASE buffer_pos = 0 /\ pc' = "body" /\ UNCHANGED <<todo, outcome>>
  BY <1>1 DEF OInv, TypeOK
<1>2. CASE buffer_pos # 0 /\ FhWrite(Pending, "flush")
  BY <1>2, PendingType, FhWriteEffect DEF Sites
<1>. QED
  BY <1>1, <1>2 DEF Flush

-----------------------------------------------------------------------------
(* The steps, one by one.                                                  *)

LEMMA TakeOInv == OInv /\ Take => OInv'
<1> SUFFICES ASSUME OInv, Take PROVE OInv'
  OBVIOUS
<1> USE DEF OInv, Take, file, handle, memory
<1>1. FileOK' /\ HandleOK' /\ DataOK' /\ BufferOK'
  BY Types DEF FileOK, HandleOK, DataOK, BufferOK
<1>2. PlaceOK'
  BY DEF PlaceOK, PCs, NoCall, Ops
<1>3. Control'
  BY DEF Control, NoCall
<1>. QED
  BY <1>1, <1>2, <1>3 DEF TypeOK, FileOK, HandleOK, DataOK, BufferOK, PlaceOK

LEMMA WorldOInv == OInv /\ World => OInv'
<1> SUFFICES ASSUME OInv, World PROVE OInv'
  OBVIOUS
<1> USE DEF World, handle, memory
<1>1. contents \in Seq(Byte \cup {Hole, Foreign}) /\ stream \in BOOLEAN
  BY DEF OInv, TypeOK
<1>2. FileOK'
  <2>1. CASE ForeignWrite
    <3>1. /\ contents' = Append(contents, Foreign) /\ mtime' = "written" /\ stream' = stream
          /\ full' \in BOOLEAN /\ (full' => stream)
      BY <2>1 DEF ForeignWrite, MayFill
    <3>2. contents' \in Seq(Byte \cup {Hole, Foreign})
      BY <1>1, <3>1, AppendProperties
    <3>. QED
      BY <1>1, <3>1, <3>2 DEF FileOK
  <2>2. CASE Drain
    <3>1. contents' = contents /\ mtime' = mtime /\ stream' = stream /\ full' = FALSE
      BY <2>2 DEF Drain
    <3>2. mtime \in {"written", "set"}
      BY DEF OInv, TypeOK
    <3>. QED
      BY <1>1, <3>1, <3>2 DEF FileOK
  <2>. QED
    BY <2>1, <2>2
<1>3. HandleOK' /\ DataOK' /\ BufferOK' /\ PlaceOK'
  BY Types DEF OInv, HandleOK, DataOK, BufferOK, PlaceOK
<1>4. Control'
  BY DEF OInv, Control
<1>. QED
  BY <1>2, <1>3, <1>4 DEF OInv, TypeOK, FileOK, HandleOK, DataOK, BufferOK, PlaceOK

LEMMA WriteSomeOInv == OInv /\ WriteSome => OInv'
<1> SUFFICES ASSUME OInv, WriteSome PROVE OInv'
  OBVIOUS
<1> USE DEF memory
<1>. PICK r \in 1 .. Len(todo) : SysWrite(r)
  BY DEF WriteSome
<1>1. /\ contents \in Seq((Byte \cup {Foreign}) \cup {Hole}) /\ todo \in Seq(Byte)
      /\ off \in Nat /\ stream \in BOOLEAN
  <2>1. (Byte \cup {Foreign}) \cup {Hole} = Byte \cup {Hole, Foreign}
    OBVIOUS
  <2>. QED
    BY <2>1 DEF OInv, TypeOK
<1>2. WritePlace \in Nat
  BY <1>1 DEF WritePlace
<1>3. SubSeq(todo, 1, r) \in Seq(Byte \cup {Foreign}) /\ SubSeq(todo, r + 1, Len(todo)) \in Seq(Byte)
  <2>1. SubSeq(todo, 1, r) \in Seq(Byte) /\ SubSeq(todo, r + 1, Len(todo)) \in Seq(Byte)
    BY <1>1, SubSeqType
  <2>. QED
    BY <2>1
<1>4. Overlay(contents, WritePlace, SubSeq(todo, 1, r)) \in Seq((Byte \cup {Foreign}) \cup {Hole})
  BY <1>1, <1>2, <1>3, OverlayType
<1>5. FileOK'
  <2>1. contents' \in Seq((Byte \cup {Foreign}) \cup {Hole})
    BY <1>4 DEF SysWrite
  <2>2. (Byte \cup {Foreign}) \cup {Hole} = Byte \cup {Hole, Foreign}
    OBVIOUS
  <2>. QED
    BY <1>1, <2>1, <2>2 DEF SysWrite, MayFill, OInv, TypeOK, FileOK
<1>6. HandleOK'
  BY <1>2 DEF SysWrite, HandleOK, OInv, TypeOK
<1>7. DataOK'
  BY <1>3 DEF SysWrite, WriteSome, DataOK, OInv, TypeOK
<1>8. BufferOK' /\ PlaceOK' /\ Control'
  BY DEF WriteSome, BufferOK, PlaceOK, Control, OInv, TypeOK
<1>. QED
  BY <1>5, <1>6, <1>7, <1>8 DEF OInv, TypeOK, FileOK, HandleOK, DataOK, BufferOK, PlaceOK

LEMMA WriteFailsOInv == OInv /\ WriteFails => OInv'
<1> SUFFICES ASSUME OInv, WriteFails PROVE OInv'
  OBVIOUS
<1> USE DEF file, handle, memory
<1>1. pc' \in {"ret", "terminated"} /\ todo' = <<>>
  BY DEF WriteFails, Throw
<1>2. FileOK' /\ HandleOK' /\ BufferOK'
  BY DEF WriteFails, FileOK, HandleOK, BufferOK, OInv, TypeOK
<1>3. DataOK' /\ PlaceOK'
  BY <1>1 DEF WriteFails, DataOK, PlaceOK, PCs, OInv, TypeOK
<1>4. Control'
  BY <1>1 DEF WriteFails, Control, OInv
<1>. QED
  BY <1>2, <1>3, <1>4 DEF OInv, TypeOK, FileOK, HandleOK, DataOK, BufferOK, PlaceOK

LEMMA FlushReturnOInv == OInv /\ FlushReturn => OInv'
<1> SUFFICES ASSUME OInv, FlushReturn PROVE OInv'
  OBVIOUS
<1> USE DEF FlushReturn, file, handle, memory
<1>1. FileOK' /\ HandleOK' /\ DataOK' /\ PlaceOK'
  BY DEF FileOK, HandleOK, DataOK, PlaceOK, PCs, OInv, TypeOK
<1>2. BufferOK'
  BY DEF BufferOK, OInv, TypeOK
<1>3. Control'
  BY DEF Control, OInv, TypeOK
<1>. QED
  BY <1>1, <1>2, <1>3 DEF OInv, TypeOK, FileOK, HandleOK, DataOK, BufferOK, PlaceOK

(* The calls that begin with a flush().                                    *)
LEMMA FlushFirstOInv ==
  ASSUME OInv, NEW op \in Ops \ {"write_byte"}, NEW arg \in Int, FlushFirst(op, arg)
  PROVE  OInv'
<1> USE DEF file, handle, memory
<1>1. todo' \in Seq(Byte) /\ pc' \in {"flush", "body", "ret", "terminated"}
  BY FlushEffect DEF FlushFirst
<1>2. FileOK' /\ HandleOK' /\ DataOK' /\ BufferOK'
  BY <1>1 DEF FlushFirst, FileOK, HandleOK, DataOK, BufferOK, OInv, TypeOK
<1>3. PlaceOK'
  BY <1>1 DEF FlushFirst, Begin, PlaceOK, PCs, Sites
<1>4. Control'
  BY <1>1 DEF FlushFirst, Begin, Control, OInv
<1>. QED
  BY <1>2, <1>3, <1>4 DEF OInv, TypeOK, FileOK, HandleOK, DataOK, BufferOK, PlaceOK

LEMMA BarrierBodyOInv ==
  OInv /\ (FlushBody \/ SeekBody \/ CloseBody \/ DestroyBody) => OInv'
<1> SUFFICES ASSUME OInv, FlushBody \/ SeekBody \/ CloseBody \/ DestroyBody PROVE OInv'
  OBVIOUS
<1> USE DEF file, handle, memory
<1>1. pc' = "ret" /\ UNCHANGED <<stream, full, contents, mtime, todo, rest, serial, call>>
  BY DEF FlushBody, SeekBody, CloseBody, DestroyBody, Return
<1>2. FileOK' /\ DataOK' /\ PlaceOK'
  BY <1>1 DEF FileOK, DataOK, PlaceOK, PCs, OInv, TypeOK
<1>3. HandleOK'
  <2>1. CASE SeekBody
    <3>1. call.arg \in Int /\ off \in Nat
      BY DEF OInv, TypeOK
    <3>2. off' \in Nat
      BY <2>1, <3>1 DEF SeekBody, SeekHandle, LSeekResult
    <3>. QED
      BY <2>1, <3>2 DEF SeekBody, HandleOK, OInv, TypeOK
  <2>2. CASE FlushBody
    BY <2>2 DEF FlushBody, HandleOK, OInv, TypeOK
  <2>3. CASE CloseBody \/ DestroyBody
    <3>1. is_open' = FALSE /\ appending' = FALSE /\ off' = 0
      BY <2>3 DEF CloseBody, DestroyBody, CloseHandle
    <3>. QED
      BY <3>1 DEF HandleOK
  <2>. QED
    BY <2>1, <2>2, <2>3
<1>4. BufferOK' /\ Control'
  <2>1. CASE DestroyBody
    <3>1. allocated' = FALSE
      BY <2>1 DEF DestroyBody
    <3>2. /\ buffer_capacity' \in Nat \ {0} /\ buffer_pos' = 0
          /\ buffer' \in [0 .. buffer_capacity' - 1 -> Byte \cup {Garbage}]
      BY <2>1, OFileAssumption DEF DestroyBody
    <3>3. \A i \in 0 .. buffer_pos' - 1 : buffer'[i] \in Byte
      BY <3>2
    <3>4. BufferOK'
      <4>1. allocated' \in BOOLEAN /\ buffer_capacity' \in Nat
        BY <3>1, <3>2
      <4>2. buffer_pos' \in 0 .. buffer_capacity'
        BY <3>2
      <4>. QED
        BY <3>2, <3>3, <4>1, <4>2, Zenon DEF BufferOK
    <3>5. Control'
      BY <1>1, <3>1, <3>2 DEF Control
    <3>. QED
      BY <3>4, <3>5
  <2>2. CASE FlushBody \/ SeekBody \/ CloseBody
    BY <1>1, <2>2 DEF FlushBody, SeekBody, CloseBody, BufferOK, Control, OInv, TypeOK
  <2>. QED
    BY <2>1, <2>2
<1>. QED
  BY <1>2, <1>3, <1>4 DEF OInv, TypeOK, FileOK, HandleOK, DataOK, BufferOK, PlaceOK

LEMMA WriteByteOInv == OInv /\ WriteByte => OInv'
<1> SUFFICES ASSUME OInv, WriteByte PROVE OInv'
  OBVIOUS
<1> USE DEF file, handle, memory
<1>1. rest' \in Seq(Byte) /\ serial' \in Nat /\ rest' # <<>>
  BY GiveType DEF WriteByte
<1>2. /\ todo' \in Seq(Byte) /\ pc' \in {"flush", "body", "ret", "terminated"}
      /\ pc' = "body" => buffer_pos < buffer_capacity
  <2>1. CASE Full(buffer_pos) /\ Flush
    BY <2>1, FlushEffect DEF OInv, Control
  <2>2. CASE ~Full(buffer_pos) /\ pc' = "body" /\ UNCHANGED <<todo, outcome>>
    BY <2>2 DEF Full, OInv, TypeOK
  <2>. QED
    BY <2>1, <2>2 DEF WriteByte
<1>3. FileOK' /\ HandleOK' /\ DataOK' /\ BufferOK'
  BY <1>1, <1>2 DEF WriteByte, FileOK, HandleOK, DataOK, BufferOK, OInv, TypeOK
<1>4. PlaceOK'
  BY <1>2 DEF WriteByte, Begin, PlaceOK, PCs, Sites, Ops
<1>5. Control'
  BY <1>1, <1>2 DEF WriteByte, Begin, Control, OInv
<1>. QED
  BY <1>3, <1>4, <1>5 DEF OInv, TypeOK, FileOK, HandleOK, DataOK, BufferOK, PlaceOK

LEMMA WriteByteBodyOInv == OInv /\ WriteByteBody => OInv'
<1> SUFFICES ASSUME OInv, WriteByteBody PROVE OInv'
  OBVIOUS
<1> USE DEF file, handle, memory
<1>1. /\ rest \in Seq(Byte) /\ rest # <<>> /\ allocated
      /\ buffer_capacity \in Nat /\ buffer_pos \in Nat /\ buffer_pos < buffer_capacity
      /\ buffer \in [0 .. buffer_capacity - 1 -> Byte \cup {Garbage}]
      /\ \A i \in 0 .. buffer_pos - 1 : buffer[i] \in Byte
  BY DEF WriteByteBody, OInv, TypeOK, Control
<1>2. Head(rest) \in Byte
  BY <1>1, HeadTailProperties
<1>3. FileOK' /\ HandleOK' /\ DataOK' /\ PlaceOK'
  BY DEF WriteByteBody, Return, FileOK, HandleOK, DataOK, PlaceOK, PCs, OInv, TypeOK
<1>4. BufferOK'
  BY <1>1, <1>2 DEF WriteByteBody, BufferOK
<1>5. Control'
  BY <1>1 DEF WriteByteBody, Return, Control, OInv
<1>. QED
  BY <1>3, <1>4, <1>5 DEF OInv, TypeOK, FileOK, HandleOK, DataOK, BufferOK, PlaceOK

LEMMA WriteOInv == ASSUME OInv, NEW n \in Counts, Write(n) PROVE OInv'
<1> USE DEF file, handle, memory
<1>1. rest' \in Seq(Byte) /\ serial' \in Nat
  BY GiveType, OFileAssumption DEF Write
<1>2. /\ todo' \in Seq(Byte) /\ pc' \in {"flush", "body", "copy", "ret", "terminated"}
      /\ allocated' \in BOOLEAN /\ allocated => allocated'
      /\ pc' = "copy" => allocated'
  <2>1. CASE Large(n) /\ Flush /\ UNCHANGED allocated
    BY <2>1, FlushEffect DEF OInv, TypeOK
  <2>2. CASE ~Large(n) /\ allocated' = TRUE /\ pc' = "copy" /\ UNCHANGED <<todo, outcome>>
    BY <2>2 DEF OInv, TypeOK
  <2>. QED
    BY <2>1, <2>2 DEF Write
<1>3. FileOK' /\ HandleOK' /\ DataOK' /\ BufferOK'
  BY <1>1, <1>2 DEF Write, FileOK, HandleOK, DataOK, BufferOK, OInv, TypeOK
<1>4. PlaceOK'
  BY <1>2, OFileAssumption DEF Write, Begin, PlaceOK, PCs, Sites, Ops
<1>5. Control'
  BY <1>2 DEF Write, Begin, Control, OInv
<1>. QED
  BY <1>3, <1>4, <1>5 DEF OInv, TypeOK, FileOK, HandleOK, DataOK, BufferOK, PlaceOK

LEMMA LargeBodyOInv == OInv /\ (LargeBody \/ LargeReturn) => OInv'
<1> SUFFICES ASSUME OInv, LargeBody \/ LargeReturn PROVE OInv'
  OBVIOUS
<1> USE DEF file, handle, memory
<1>1. rest \in Seq(Byte) /\ todo \in Seq(Byte)
  BY DEF OInv, TypeOK
<1>2. todo' \in Seq(Byte) /\ pc' \in {"large", "ret", "terminated"}
  BY <1>1, FhWriteEffect DEF LargeBody, LargeReturn, Return, Sites
<1>3. FileOK' /\ HandleOK' /\ DataOK' /\ BufferOK' /\ PlaceOK'
  BY <1>2 DEF LargeBody, LargeReturn, FileOK, HandleOK, DataOK, BufferOK, PlaceOK, PCs, Sites,
              OInv, TypeOK
<1>4. Control'
  BY <1>2 DEF LargeBody, LargeReturn, Control, OInv
<1>. QED
  BY <1>3, <1>4 DEF OInv, TypeOK, FileOK, HandleOK, DataOK, BufferOK, PlaceOK

LEMMA CopyOInv == OInv /\ Copy => OInv'
<1> SUFFICES ASSUME OInv, Copy PROVE OInv'
  OBVIOUS
<1> USE DEF file, handle, memory
<1> DEFINE room == buffer_capacity - buffer_pos
           n    == IF room < Len(rest) THEN room ELSE Len(rest)
<1>1. /\ rest \in Seq(Byte) /\ todo \in Seq(Byte) /\ allocated
      /\ buffer_capacity \in Nat /\ buffer_pos \in 0 .. buffer_capacity
      /\ buffer \in [0 .. buffer_capacity - 1 -> Byte \cup {Garbage}]
      /\ \A i \in 0 .. buffer_pos - 1 : buffer[i] \in Byte
  BY DEF Copy, OInv, TypeOK, Control
<1>2. n \in Nat /\ n <= Len(rest) /\ buffer_pos + n <= buffer_capacity
  BY <1>1
<1>3. /\ buffer' = [i \in DOMAIN buffer |->
                      IF buffer_pos <= i /\ i < buffer_pos + n THEN rest[i - buffer_pos + 1]
                      ELSE buffer[i]]
      /\ buffer_pos' = buffer_pos + n
      /\ rest' = SubSeq(rest, n + 1, Len(rest))
      /\ \/ Full(buffer_pos + n) /\ FhWrite(First(buffer', buffer_capacity), "fill")
         \/ ~Full(buffer_pos + n) /\ Loop(rest') /\ UNCHANGED todo
      /\ UNCHANGED <<stream, full, contents, mtime, is_open, appending, off, allocated,
                     buffer_capacity, call, serial>>
  BY DEF Copy
<1> HIDE DEF n
<1>4. \A i \in 0 .. buffer_capacity - 1 :
        IF buffer_pos <= i /\ i < buffer_pos + n THEN buffer'[i] \in Byte
        ELSE buffer'[i] = buffer[i]
  BY <1>1, <1>2, <1>3
<1>5. BufferOK'
  <2>1. buffer' \in [0 .. buffer_capacity - 1 -> Byte \cup {Garbage}]
    BY <1>1, <1>3, <1>4
  <2>2. \A i \in 0 .. (buffer_pos + n) - 1 : buffer'[i] \in Byte
    BY <1>1, <1>2, <1>4
  <2>. QED
    BY <1>1, <1>2, <1>3, <2>1, <2>2 DEF BufferOK
<1>6. rest' \in Seq(Byte)
  BY <1>1, <1>2, <1>3, SubSeqType
<1>7. todo' \in Seq(Byte) /\ pc' \in {"fill", "copy", "ret", "terminated"}
  <2>1. CASE Full(buffer_pos + n) /\ FhWrite(First(buffer', buffer_capacity), "fill")
    <3>1. \A i \in 0 .. buffer_capacity - 1 : buffer'[i] \in Byte
      BY <1>1, <1>2, <1>4, <2>1 DEF Full
    <3>2. First(buffer', buffer_capacity) \in Seq(Byte)
      BY <1>1, <3>1, FirstType
    <3>. QED
      BY <2>1, <3>2, FhWriteEffect DEF Sites
  <2>2. CASE ~Full(buffer_pos + n) /\ Loop(rest') /\ UNCHANGED todo
    BY <1>1, <2>2 DEF Loop, Return
  <2>. QED
    BY <1>3, <2>1, <2>2
<1>8. FileOK' /\ HandleOK' /\ DataOK' /\ PlaceOK'
  BY <1>3, <1>6, <1>7 DEF FileOK, HandleOK, DataOK, PlaceOK, PCs, Sites, OInv, TypeOK
<1>9. Control'
  BY <1>1, <1>3, <1>7 DEF Control, OInv
<1>. QED
  BY <1>5, <1>8, <1>9 DEF OInv, TypeOK, FileOK, HandleOK, DataOK, BufferOK, PlaceOK

LEMMA FillReturnOInv == OInv /\ FillReturn => OInv'
<1> SUFFICES ASSUME OInv, FillReturn PROVE OInv'
  OBVIOUS
<1> USE DEF file, handle, memory
<1>1. pc' \in {"copy", "ret"} /\ allocated
  BY DEF FillReturn, Loop, Return, OInv, Control
<1>2. FileOK' /\ HandleOK' /\ DataOK' /\ PlaceOK'
  BY <1>1 DEF FillReturn, FileOK, HandleOK, DataOK, PlaceOK, PCs, OInv, TypeOK
<1>3. BufferOK' /\ Control'
  BY <1>1 DEF FillReturn, BufferOK, Control, OInv, TypeOK
<1>. QED
  BY <1>2, <1>3 DEF OInv, TypeOK, FileOK, HandleOK, DataOK, BufferOK, PlaceOK

LEMMA OpenOInv == ASSUME OInv, NEW append \in BOOLEAN, Open(append) PROVE OInv'
<1> USE DEF file, handle, memory
<1>1. /\ pc' = "ret" /\ call' = [op |-> "open", arg |-> 0]
      /\ UNCHANGED <<todo, allocated, buffer, buffer_capacity, buffer_pos, rest, serial>>
  BY DEF Open, Begin, Return
<1>2. FileOK' /\ HandleOK'
  <2>1. CASE UNCHANGED <<file, handle>>
    BY <2>1 DEF FileOK, HandleOK, OInv, TypeOK
  <2>2. CASE OpenHandle(append)
    <3>1. is_open' = TRUE /\ appending' \in BOOLEAN /\ off' = 0
      <4>1. is_open' = TRUE /\ appending' = append /\ off' = 0
        BY <2>2 DEF OpenHandle
      <4>. QED
        BY <4>1, Zenon
    <3>2. /\ contents' \in {contents, <<>>} /\ mtime' \in {mtime, "written"}
          /\ stream' = stream /\ full' = full
      BY <2>2 DEF OpenHandle
    <3>3. FileOK'
      <4>1. contents' \in Seq(Byte \cup {Hole, Foreign})
        <5>1. contents \in Seq(Byte \cup {Hole, Foreign})
          BY DEF OInv, TypeOK
        <5>. QED
          BY <3>2, <5>1, EmptySeq, Zenon
      <4>2. mtime' \in {"written", "set"}
        BY <3>2 DEF OInv, TypeOK
      <4>3. stream' \in BOOLEAN /\ full' \in BOOLEAN /\ (full' => stream')
        BY <3>2 DEF OInv, TypeOK
      <4>. QED
        BY <4>1, <4>2, <4>3 DEF FileOK
    <3>. QED
      BY <3>1, <3>3 DEF HandleOK
  <2>. QED
    BY <2>1, <2>2 DEF Open
<1>3. DataOK' /\ BufferOK' /\ PlaceOK' /\ Control'
  BY <1>1 DEF DataOK, BufferOK, PlaceOK, PCs, Ops, Control, OInv, TypeOK
<1>. QED
  BY <1>2, <1>3 DEF OInv, TypeOK, FileOK, HandleOK, DataOK, BufferOK, PlaceOK

LEMMA SetBufferSizeOInv == ASSUME OInv, NEW c \in Capacities, SetBufferSize(c) PROVE OInv'
<1> USE DEF file, handle, memory
<1>1. /\ pc' = "ret" /\ call' = [op |-> "set_buffer_size", arg |-> 0]
      /\ UNCHANGED <<file, handle, todo, allocated, buffer_pos, rest, serial>>
  BY DEF SetBufferSize, Begin, Return
<1>2. FileOK' /\ HandleOK' /\ DataOK' /\ PlaceOK'
  BY <1>1 DEF FileOK, HandleOK, DataOK, PlaceOK, PCs, Ops, OInv, TypeOK
<1>3. BufferOK' /\ Control'
  <2>1. CASE allocated /\ UNCHANGED <<buffer, buffer_capacity>>
    BY <1>1, <2>1 DEF BufferOK, Control, OInv, TypeOK
  <2>2. CASE /\ ~allocated /\ buffer_capacity' = c
             /\ buffer' = [i \in 0 .. c - 1 |-> Garbage]
    BY <1>1, <2>2, OFileAssumption DEF BufferOK, Control, OInv, TypeOK
  <2>. QED
    BY <2>1, <2>2 DEF SetBufferSize
<1>. QED
  BY <1>2, <1>3 DEF OInv, TypeOK, FileOK, HandleOK, DataOK, BufferOK, PlaceOK

LEMMA SetLastWriteTimeOInv == OInv /\ SetLastWriteTime => OInv'
<1> SUFFICES ASSUME OInv, SetLastWriteTime PROVE OInv'
  OBVIOUS
<1> USE DEF file, handle, memory
<1>1. pc' = "ret" /\ call' = [op |-> "set_last_write_time", arg |-> 0] /\ mtime' \in {mtime, "set"}
  BY DEF SetLastWriteTime, Begin, Return
<1>2. FileOK' /\ HandleOK' /\ DataOK' /\ PlaceOK' /\ BufferOK'
  BY <1>1 DEF SetLastWriteTime, FileOK, HandleOK, DataOK, BufferOK, PlaceOK, PCs, Ops, OInv, TypeOK
<1>3. Control'
  BY <1>1 DEF SetLastWriteTime, Control, OInv
<1>. QED
  BY <1>2, <1>3 DEF OInv, TypeOK, FileOK, HandleOK, DataOK, BufferOK, PlaceOK

LEMMA StutterOInv == OInv /\ UNCHANGED vars => OInv'
BY DEF OInv, TypeOK, Control, vars, file, handle, memory

-----------------------------------------------------------------------------
LEMMA CallOInv == OInv /\ Call => OInv'
<1> SUFFICES ASSUME OInv, Call PROVE OInv'
  OBVIOUS
<1>1. CASE FlushCall \/ Close \/ Destroy
  BY <1>1, FlushFirstOInv DEF FlushCall, Close, Destroy, Ops
<1>2. ASSUME NEW pos \in Targets, Seek(pos) PROVE OInv'
  BY <1>2, FlushFirstOInv, OFileAssumption DEF Seek, Ops
<1>3. CASE WriteByte \/ SetLastWriteTime
  BY <1>3, WriteByteOInv, SetLastWriteTimeOInv
<1>4. CASE \/ \E n \in Counts : Write(n)
           \/ \E append \in BOOLEAN : Open(append)
           \/ \E c \in Capacities : SetBufferSize(c)
  BY <1>4, WriteOInv, OpenOInv, SetBufferSizeOInv
<1>. QED
  BY <1>1, <1>2, <1>3, <1>4 DEF Call

LEMMA StepOInv == OInv /\ Step => OInv'
BY WriteSomeOInv, WriteFailsOInv, FlushReturnOInv, BarrierBodyOInv, WriteByteBodyOInv,
   LargeBodyOInv, CopyOInv, FillReturnOInv, TakeOInv DEF Step

(* OInv is an invariant of OFile (OFile.hpp:30-109).                       *)
THEOREM Invariance == Spec => []OInv
<1>1. OInv /\ [Next]_vars => OInv'
  BY StutterOInv, CallOInv, StepOInv, WorldOInv DEF Next
<1>. QED
  BY <1>1, InitOInv, PTL DEF Spec

(* For any positive capacity and whatever writes fail, in flush(), in the  *)
(* loop of write() or in a large write: buffer_pos stays in the buffer and *)
(* only bytes that a caller has given reach the file (OFile.hpp:52-98).    *)
THEOREM TypeCorrect == Spec => []TypeOK
<1>1. OInv => TypeOK
  BY DEF OInv
<1>. QED
  BY <1>1, Invariance, PTL

(* write_byte() never stores beyond the buffer (OFile.hpp:66-72).          *)
THEOREM NoOverrun == Spec => []RoomForTheByte
<1>1. OInv => RoomForTheByte
  BY DEF OInv, Control, RoomForTheByte
<1>. QED
  BY <1>1, Invariance, PTL

-----------------------------------------------------------------------------
(* OFile implements WriteBehind: what its buffer, its loops and its system *)
(* calls do is what a queue of bytes on their way to the file does.        *)

Barriers == {"flush", "seek", "close", "destroy"}

(* Where the bytes of a running call are: what fh.write() has still to     *)
(* write is the end of the buffer, what the caller of write() has not      *)
(* handed over is in rest, and a call past its flush() has an empty buffer.*)
Accounted ==
  /\ pc = "idle" => rest = <<>>
  /\ pc \in Sites => is_open
  /\ pc \in {"flush", "fill"} =>
       /\ buffer_pos # 0 /\ Len(todo) <= buffer_pos
       /\ todo = SubSeq(Pending, buffer_pos - Len(todo) + 1, buffer_pos)
  /\ Running => call.op \in Barriers \cup {"write_byte", "write"}
  /\ pc \in {"copy", "fill", "large"} => call.op = "write"
  /\ pc = "large" \/ (pc = "body" /\ call.op # "write_byte") => buffer_pos = 0
  /\ pc = "large" => Len(todo) <= call.arg
  /\ Running /\ call.op \in Barriers => rest = <<>>
  /\ Running /\ call.op \notin Barriers => Len(rest) <= call.arg
  /\ Running /\ call.op = "write_byte" => Len(rest) = 1
  /\ pc = "ret" /\ call.op = "destroy" => outcome = "ok"

RInv == OInv /\ Accounted

-----------------------------------------------------------------------------
(* Sequences of bytes.                                                     *)

LEMMA PendingIs ==
  ASSUME OInv
  PROVE  /\ Pending \in Seq(Byte) /\ Len(Pending) = buffer_pos
         /\ \A k \in 1 .. buffer_pos : Pending[k] = buffer[k - 1]
<1>1. buffer_pos \in Nat /\ \A i \in 0 .. buffer_pos - 1 : buffer[i] \in Byte
  BY DEF OInv, TypeOK
<1>2. Pending = [k \in 1 .. buffer_pos |-> buffer[k - 1]]
  BY DEF Pending, First
<1>. QED
  BY <1>1, <1>2, PendingType

LEMMA NextPendingIs ==
  ASSUME OInv'
  PROVE  /\ Pending' \in Seq(Byte) /\ Len(Pending') = buffer_pos' /\ buffer_pos' \in Nat
         /\ \A k \in 1 .. buffer_pos' : Pending'[k] = buffer'[k - 1]
<1>1. buffer_pos' \in Nat /\ \A i \in 0 .. buffer_pos' - 1 : buffer'[i] \in Byte
  <2>1. buffer_pos' \in Nat
    BY DEF OInv, TypeOK
  <2>2. \A i \in 0 .. buffer_pos' - 1 : buffer'[i] \in Byte
    BY DEF OInv, TypeOK
  <2>. QED
    BY <2>1, <2>2
<1>2. Pending' = [k \in 1 .. buffer_pos' |-> buffer'[k - 1]]
  BY DEF Pending, First
<1>3. First(buffer', buffer_pos') \in Seq(Byte)
  BY <1>1, FirstType
<1>. QED
  BY <1>1, <1>2, <1>3 DEF First

LEMMA EmptyPending == ASSUME OInv, buffer_pos = 0 PROVE Pending = <<>>
BY PendingIs

(* The first r elements of s \o t, and the others.                         *)
LEMMA CutConcat ==
  ASSUME NEW S, NEW s \in Seq(S), NEW t \in Seq(S), NEW r \in 0 .. Len(s)
  PROVE  /\ SubSeq(s \o t, 1, r) = SubSeq(s, 1, r)
         /\ SubSeq(s \o t, r + 1, Len(s \o t)) = SubSeq(s, r + 1, Len(s)) \o t
<1> DEFINE c == SubSeq(s, r + 1, Len(s))
           a == SubSeq(s \o t, r + 1, Len(s \o t))
           b == c \o t
<1>1. /\ s \o t \in Seq(S) /\ Len(s \o t) = Len(s) + Len(t)
      /\ \A i \in 1 .. Len(s) + Len(t) :
           (s \o t)[i] = IF i <= Len(s) THEN s[i] ELSE t[i - Len(s)]
  BY ConcatProperties
<1>2. SubSeq(s \o t, 1, r) = SubSeq(s, 1, r)
  OBVIOUS
<1>3. c \in Seq(S) /\ Len(c) = Len(s) - r /\ \A i \in 1 .. Len(s) - r : c[i] = s[r + i]
  BY SubSeqProperties
<1>4. a \in Seq(S) /\ Len(a) = Len(s) + Len(t) - r
      /\ \A i \in 1 .. Len(s) + Len(t) - r : a[i] = (s \o t)[r + i]
  BY <1>1, SubSeqProperties
<1> HIDE DEF a, c
<1>5. b \in Seq(S) /\ Len(b) = Len(c) + Len(t)
      /\ \A i \in 1 .. Len(c) + Len(t) : b[i] = IF i <= Len(c) THEN c[i] ELSE t[i - Len(c)]
  BY <1>3, ConcatProperties
<1> HIDE DEF b
<1>6. ASSUME NEW i \in 1 .. Len(a) PROVE a[i] = b[i]
  <2>1. a[i] = IF r + i <= Len(s) THEN s[r + i] ELSE t[r + i - Len(s)]
    BY <1>1, <1>4
  <2>2. b[i] = IF r + i <= Len(s) THEN c[i] ELSE t[r + i - Len(s)]
    <3>1. i - (Len(s) - r) = r + i - Len(s) /\ i \in 1 .. Len(c) + Len(t)
      BY <1>3, <1>4
    <3>. QED
      BY <1>3, <1>5, <3>1
  <2>. QED
    BY <1>3, <2>1, <2>2
<1>7. a = b
  <2>1. Len(a) = Len(b)
    BY <1>3, <1>4, <1>5
  <2>. QED
    BY <1>4, <1>5, <1>6, <2>1, SeqEqual
<1>. QED
  BY <1>2, <1>7 DEF a, b, c

(* What has been written and what has not are the buffer.                  *)
LEMMA JoinAt ==
  ASSUME NEW S, NEW s \in Seq(S), NEW k \in 0 .. Len(s), NEW n \in k .. Len(s)
  PROVE  SubSeq(s, 1, k) \o SubSeq(s, k + 1, n) = SubSeq(s, 1, n)
<1>1. 1 \in 1 .. Len(s) + 1 /\ k \in 1 - 1 .. Len(s) /\ n \in k .. Len(s)
  OBVIOUS
<1>. QED
  BY <1>1, ConcatAdjacentSubSeq

LEMMA JoinSuffix ==
  ASSUME NEW S, NEW s \in Seq(S), NEW n \in 0 .. Len(s)
  PROVE  SubSeq(s, 1, Len(s) - n) \o SubSeq(s, Len(s) - n + 1, Len(s)) = s
<1>1. Len(s) - n \in 0 .. Len(s) /\ Len(s) \in Len(s) - n .. Len(s)
  OBVIOUS
<1>. QED
  BY <1>1, JoinAt, SubSeqFull

LEMMA JoinInAnyOrder ==
  \A s, t, u \in Seq(Byte) : (s \o t) \o u = s \o (t \o u)
BY ConcatAssociative

(* The last n elements of s, when the first r of them are taken.           *)
LEMMA CutSuffix ==
  ASSUME NEW S, NEW s \in Seq(S), NEW n \in 0 .. Len(s), NEW r \in 0 .. n,
         NEW t, t = SubSeq(s, Len(s) - n + 1, Len(s))
  PROVE  /\ Len(t) = n
         /\ SubSeq(t, r + 1, n) = SubSeq(s, Len(s) - (n - r) + 1, Len(s))
         /\ SubSeq(s, 1, Len(s) - n) \o SubSeq(t, 1, r) = SubSeq(s, 1, Len(s) - (n - r))
<1> DEFINE k == Len(s) - n
<1>0. k \in 0 .. Len(s) /\ Len(s) - (n - r) = k + r /\ k + r \in k .. Len(s) /\ n = Len(s) - k
  OBVIOUS
<1> HIDE DEF k
<1>1. t \in Seq(S) /\ Len(t) = n /\ \A i \in 1 .. n : t[i] = s[k + i]
  BY <1>0, SubSeqProperties DEF k
<1>2. SubSeq(t, r + 1, n) = SubSeq(s, k + r + 1, Len(s))
  <2> DEFINE a == SubSeq(t, r + 1, n)
             b == SubSeq(s, k + r + 1, Len(s))
  <2>1. a \in Seq(S) /\ Len(a) = n - r /\ \A i \in 1 .. n - r : a[i] = t[r + i]
    BY <1>1, SubSeqProperties
  <2>2. b \in Seq(S) /\ Len(b) = n - r /\ \A i \in 1 .. n - r : b[i] = s[k + r + i]
    BY <1>0, SubSeqProperties
  <2> HIDE DEF a, b
  <2>3. ASSUME NEW i \in 1 .. n - r PROVE a[i] = b[i]
    <3>1. a[i] = t[r + i] /\ r + i \in 1 .. n
      BY <2>1
    <3>2. t[r + i] = s[k + (r + i)]
      BY <1>1, <3>1
    <3>3. b[i] = s[k + r + i] /\ k + (r + i) = k + r + i
      BY <1>0, <2>2
    <3>. QED
      BY <3>1, <3>2, <3>3
  <2>4. a = b
    BY <2>1, <2>2, <2>3, SeqEqual
  <2>. QED
    BY <2>4 DEF a, b
<1>3. SubSeq(t, 1, r) = SubSeq(s, k + 1, k + r)
  <2> DEFINE a == SubSeq(t, 1, r)
             b == SubSeq(s, k + 1, k + r)
  <2>1. a \in Seq(S) /\ Len(a) = r /\ \A i \in 1 .. r : a[i] = t[i]
    BY <1>1, SubSeqProperties
  <2>2. b \in Seq(S) /\ Len(b) = r /\ \A i \in 1 .. r : b[i] = s[k + i]
    BY <1>0, SubSeqProperties
  <2> HIDE DEF a, b
  <2>3. \A i \in 1 .. r : a[i] = b[i]
    BY <1>0, <1>1, <2>1, <2>2
  <2>4. a = b
    BY <2>1, <2>2, <2>3, SeqEqual
  <2>. QED
    BY <2>4 DEF a, b
<1>4. SubSeq(s, 1, k) \o SubSeq(s, k + 1, k + r) = SubSeq(s, 1, k + r)
  BY <1>0, JoinAt
<1>. QED
  BY <1>0, <1>1, <1>2, <1>3, <1>4 DEF k

LEMMA PutIsOverlay ==
  ASSUME NEW c \in Seq(Byte \cup {Hole, Foreign}), NEW p \in Nat, NEW s \in Seq(Byte)
  PROVE  Abstract!Put(c, p, s) = Overlay(c, p, s)
<1> DEFINE N == IF Len(c) > p + Len(s) THEN Len(c) ELSE p + Len(s)
<1>1. \A i \in 1 .. N :
        (CASE i \in p + 1 .. p + Len(s) -> s[i - p]
           [] i \in 1 .. Len(c) /\ i \notin p + 1 .. p + Len(s) -> c[i]
           [] OTHER -> Hole)
        = (IF p < i /\ i <= p + Len(s) THEN s[i - p] ELSE IF i <= Len(c) THEN c[i] ELSE Hole)
  OBVIOUS
<1>. QED
  BY <1>1 DEF Abstract!Put, Overlay

-----------------------------------------------------------------------------
(* The abstract state where the call may be.                               *)

LEMMA Phases ==
  /\ pc = "idle" => Unstored = Pending /\ Own = 0 /\ Again = <<>> /\ ~Running /\ Answered = <<>>
  /\ pc \in {"ret", "terminated"} =>
       /\ Unstored = Pending /\ Own = 0 /\ Again = <<>> /\ ~Running
       /\ Answered = [op |-> call.op, arg |-> call.arg, outcome |-> outcome]
  /\ pc \in {"body", "copy"} =>
       Unstored = Pending \o rest /\ Again = <<>> /\ Running /\ Answered = <<>>
  /\ pc \in {"flush", "fill"} =>
       /\ Unstored = todo \o rest /\ Again = SubSeq(Pending, 1, buffer_pos - Len(todo))
       /\ Running /\ Answered = <<>>
  /\ pc = "large" => Unstored = todo /\ Again = <<>> /\ Running /\ Answered = <<>>
  /\ Running => Own = IF call.op \in {"write_byte", "write"} THEN call.arg ELSE 0
BY DEF Unstored, Own, Again, Running, Answered

LEMMA NextPhases == Phases!:'
BY DEF Unstored, Own, Again, Running, Answered

LEMMA AnAnswer == ASSUME NEW a, NEW b, NEW c PROVE [op |-> a, arg |-> b, outcome |-> c] # <<>>
OBVIOUS

(* fh.write() and flush() up to their first system call.                   *)
LEMMA FhWriteStarts ==
  ASSUME NEW bytes, NEW site, FhWrite(bytes, site)
  PROVE  \/ is_open /\ todo' = bytes /\ pc' = site /\ UNCHANGED outcome
         \/ /\ ~is_open /\ todo' = todo
            /\ pc' = IF call'.op = "destroy" THEN "terminated" ELSE "ret"
            /\ outcome' = "AttemptToWriteAClosedFile"
BY DEF FhWrite, Throw

LEMMA FlushStarts ==
  ASSUME RInv, Flush
  PROVE  \/ buffer_pos = 0 /\ pc' = "body" /\ UNCHANGED <<todo, outcome>>
         \/ buffer_pos # 0 /\ is_open /\ todo' = Pending /\ pc' = "flush" /\ UNCHANGED outcome
         \/ /\ buffer_pos # 0 /\ ~is_open /\ todo' = todo
            /\ pc' = IF call'.op = "destroy" THEN "terminated" ELSE "ret"
            /\ outcome' = "AttemptToWriteAClosedFile"
BY FhWriteStarts DEF Flush

LEMMA WholeSeq ==
  ASSUME NEW S, NEW s \in Seq(S), NEW n, n = Len(s)
  PROVE  s = SubSeq(s, n - Len(s) + 1, n) /\ SubSeq(s, 1, n - Len(s)) = <<>>
<1>1. Len(s) \in Nat /\ n - Len(s) = 0 /\ n - Len(s) + 1 = 1
  OBVIOUS
<1>2. SubSeq(s, 1, Len(s)) = s
  BY SubSeqFull
<1>3. SubSeq(s, 1, 0) = <<>>
  BY SubSeqEmpty
<1>. QED
  BY <1>1, <1>2, <1>3

LEMMA WholePending ==
  ASSUME OInv
  PROVE  /\ Pending = SubSeq(Pending, buffer_pos - Len(Pending) + 1, buffer_pos)
         /\ SubSeq(Pending, 1, buffer_pos - Len(Pending)) = <<>>
BY PendingIs, WholeSeq

-----------------------------------------------------------------------------
(* Accounted, step by step.                                                *)

LEMMA InitAccounted == Init => Accounted
BY DEF Init, HandleInit, Accounted, Running, Sites

LEMMA FlushFirstAccounted ==
  ASSUME RInv, NEW op \in Barriers, NEW arg, FlushFirst(op, arg)
  PROVE  Accounted'
<1>1. /\ pc = "idle" /\ rest = <<>> /\ rest' = rest /\ call' = [op |-> op, arg |-> arg]
      /\ UNCHANGED <<is_open, buffer, buffer_pos>> /\ Flush
  BY DEF FlushFirst, Begin, RInv, Accounted, handle, memory
<1>2. Pending' = Pending
  BY <1>1 DEF Pending, First
<1>3. /\ Pending = SubSeq(Pending, buffer_pos - Len(Pending) + 1, buffer_pos)
      /\ Len(Pending) = buffer_pos /\ buffer_pos \in Nat
  BY WholePending, PendingIs DEF RInv, OInv, TypeOK
<1>. QED
  BY <1>1, <1>2, <1>3, FlushStarts DEF Accounted, Running, Sites, Barriers

LEMMA WriteByteAccounted == ASSUME RInv, WriteByte PROVE Accounted'
<1>1. /\ pc = "idle" /\ call' = [op |-> "write_byte", arg |-> 1]
      /\ rest' = [k \in 1 .. 1 |-> serial + k]
      /\ UNCHANGED <<is_open, buffer, buffer_pos>>
      /\ Flush \/ (pc' = "body" /\ UNCHANGED <<todo, outcome>>)
  BY DEF WriteByte, Begin, Give, handle, memory
<1>2. Pending' = Pending /\ Len(rest') = 1
  BY <1>1 DEF Pending, First
<1>3. /\ Pending = SubSeq(Pending, buffer_pos - Len(Pending) + 1, buffer_pos)
      /\ Len(Pending) = buffer_pos /\ buffer_pos \in Nat
  BY WholePending, PendingIs DEF RInv, OInv, TypeOK
<1>. QED
  BY <1>1, <1>2, <1>3, FlushStarts DEF Accounted, Running, Sites, Barriers

LEMMA WriteAccounted == ASSUME RInv, NEW n \in Counts, Write(n) PROVE Accounted'
<1>1. /\ pc = "idle" /\ call' = [op |-> "write", arg |-> n]
      /\ rest' = [k \in 1 .. n |-> serial + k]
      /\ UNCHANGED <<is_open, buffer, buffer_pos>>
      /\ Flush \/ (pc' = "copy" /\ UNCHANGED <<todo, outcome>>)
  BY DEF Write, Begin, Give, handle, memory
<1>2. Pending' = Pending /\ Len(rest') = n /\ n \in Nat
  BY <1>1, OFileAssumption DEF Pending, First
<1>3. /\ Pending = SubSeq(Pending, buffer_pos - Len(Pending) + 1, buffer_pos)
      /\ Len(Pending) = buffer_pos /\ buffer_pos \in Nat
  BY WholePending, PendingIs DEF RInv, OInv, TypeOK
<1>. QED
  BY <1>1, <1>2, <1>3, FlushStarts DEF Accounted, Running, Sites, Barriers

(* open(), set_buffer_size() and set_last_write_time() return at once.     *)
LEMMA OthersAccounted ==
  ASSUME RInv,
         \/ SetLastWriteTime
         \/ \E append \in BOOLEAN : Open(append)
         \/ \E c \in Capacities : SetBufferSize(c)
  PROVE  Accounted'
<1>1. pc' = "ret" /\ call'.op \in {"open", "set_buffer_size", "set_last_write_time"}
  BY DEF SetLastWriteTime, Open, SetBufferSize, Begin, Return
<1>. QED
  BY <1>1 DEF Accounted, Running, Sites

LEMMA WriteSomeAccounted == ASSUME RInv, WriteSome PROVE Accounted'
<1>1. PICK r \in 1 .. Len(todo) : SysWrite(r)
  BY DEF WriteSome
<1>2. /\ todo' = SubSeq(todo, r + 1, Len(todo)) /\ todo \in Seq(Byte)
      /\ UNCHANGED <<is_open, buffer, buffer_pos, pc, call, rest, outcome>>
  BY <1>1 DEF SysWrite, WriteSome, RInv, OInv, TypeOK, memory
<1>3. Len(todo') = Len(todo) - r /\ Len(todo) \in Nat
  BY <1>2, SubSeqProperties
<1>4. Pending' = Pending /\ Pending \in Seq(Byte) /\ Len(Pending) = buffer_pos
  BY <1>2, PendingIs DEF Pending, First, RInv
<1>5. pc \in {"flush", "fill"} => todo' = SubSeq(Pending, buffer_pos - Len(todo') + 1, buffer_pos)
  <2>1. SUFFICES ASSUME pc \in {"flush", "fill"}
                 PROVE  SubSeq(todo, r + 1, Len(todo))
                          = SubSeq(Pending, buffer_pos - (Len(todo) - r) + 1, buffer_pos)
    BY <1>2, <1>3
  <2>2. /\ Len(todo) \in 0 .. Len(Pending) /\ r \in 0 .. Len(todo)
        /\ todo = SubSeq(Pending, Len(Pending) - Len(todo) + 1, Len(Pending))
    BY <1>3, <1>4, <2>1 DEF RInv, Accounted
  <2>. QED
    BY <1>4, <2>2, CutSuffix
<1>6. /\ pc \in {"flush", "fill"} => Len(todo') <= buffer_pos
      /\ pc = "large" => Len(todo') <= call.arg
  BY <1>3 DEF RInv, Accounted, OInv, TypeOK
<1>7. UNCHANGED <<is_open, buffer_pos, pc, call, rest, outcome>>
  BY <1>2
<1>. QED
  BY <1>4, <1>5, <1>6, <1>7 DEF RInv, Accounted, Running

LEMMA WriteFailsAccounted == ASSUME RInv, WriteFails PROVE Accounted'
BY DEF WriteFails, Throw, RInv, Accounted, Running, Sites

LEMMA FlushReturnAccounted == ASSUME RInv, FlushReturn PROVE Accounted'
BY DEF FlushReturn, handle, RInv, Accounted, Running, Sites

LEMMA BodyAccounted ==
  ASSUME RInv, FlushBody \/ SeekBody \/ CloseBody \/ DestroyBody \/ WriteByteBody \/ LargeReturn
  PROVE  Accounted'
<1>1. /\ pc' = "ret"
      /\ call'.op = "destroy" => outcome' = "ok"
  BY DEF FlushBody, SeekBody, CloseBody, DestroyBody, WriteByteBody, LargeReturn, Return,
         RInv, Accounted
<1>. QED
  BY <1>1 DEF Accounted, Running, Sites

LEMMA LargeBodyAccounted == ASSUME RInv, LargeBody PROVE Accounted'
<1>1. /\ pc = "body" /\ call.op = "write" /\ FhWrite(rest, "large")
      /\ UNCHANGED <<is_open, buffer, buffer_pos, call, rest>>
  BY DEF LargeBody, handle, memory
<1>. QED
  BY <1>1, FhWriteStarts DEF RInv, Accounted, Running, Sites, Barriers

LEMMA FillReturnAccounted == ASSUME RInv, FillReturn PROVE Accounted'
BY DEF FillReturn, Loop, Return, handle, RInv, Accounted, Running, Sites, Barriers

LEMMA TakeAccounted == ASSUME RInv, Take PROVE Accounted'
BY DEF Take, Accounted, Running, Sites

LEMMA RestAccounted == ASSUME RInv, World \/ UNCHANGED vars PROVE Accounted'
<1>1. UNCHANGED <<is_open, todo, buffer, buffer_pos, pc, call, rest, outcome>>
  BY DEF World, vars, handle, memory
<1>2. Pending' = Pending
  BY <1>1 DEF Pending, First
<1>. QED
  BY <1>1, <1>2 DEF RInv, Accounted, Running

(* The loop of write(): the buffer takes the first n bytes of rest.        *)
LEMMA CopyEffect ==
  ASSUME RInv, Copy
  PROVE  \E n \in 0 .. Len(rest) :
           /\ Pending' = Pending \o SubSeq(rest, 1, n)
           /\ rest' = SubSeq(rest, n + 1, Len(rest))
           /\ buffer_pos' = buffer_pos + n
           /\ UNCHANGED <<stream, contents, mtime, handle, buffer_capacity, call>>
           /\ call.op = "write" /\ pc = "copy"
           /\ \/ /\ buffer_pos' = buffer_capacity /\ buffer_capacity > 0
                 /\ FhWrite(Pending', "fill")
              \/ Loop(rest') /\ UNCHANGED todo
<1> DEFINE room == buffer_capacity - buffer_pos
           n    == IF room < Len(rest) THEN room ELSE Len(rest)
<1>1. /\ rest \in Seq(Byte) /\ buffer_capacity \in Nat /\ buffer_pos \in 0 .. buffer_capacity
      /\ buffer \in [0 .. buffer_capacity - 1 -> Byte \cup {Garbage}] /\ buffer_capacity > 0
      /\ call.op = "write" /\ pc = "copy"
  BY DEF Copy, RInv, OInv, TypeOK, Control, Accounted
<1>2. n \in 0 .. Len(rest) /\ buffer_pos + n <= buffer_capacity
  BY <1>1
<1>3. /\ buffer' = [i \in DOMAIN buffer |->
                      IF buffer_pos <= i /\ i < buffer_pos + n THEN rest[i - buffer_pos + 1]
                      ELSE buffer[i]]
      /\ buffer_pos' = buffer_pos + n
      /\ rest' = SubSeq(rest, n + 1, Len(rest))
      /\ \/ Full(buffer_pos + n) /\ FhWrite(First(buffer', buffer_capacity), "fill")
         \/ ~Full(buffer_pos + n) /\ Loop(rest') /\ UNCHANGED todo
      /\ UNCHANGED <<stream, contents, mtime, handle, buffer_capacity, call>>
  BY DEF Copy, file
<1> HIDE DEF n
<1>4. \A i \in 0 .. buffer_capacity - 1 :
        buffer'[i] = IF buffer_pos <= i /\ i < buffer_pos + n THEN rest[i - buffer_pos + 1]
                     ELSE buffer[i]
  BY <1>1, <1>3
<1>5. Pending' = Pending \o SubSeq(rest, 1, n)
  <2> DEFINE a == Pending'
             c == SubSeq(rest, 1, n)
             b == Pending \o c
  <2>1. OInv'
    BY CopyOInv DEF RInv
  <2>2. a \in Seq(Byte) /\ Len(a) = buffer_pos + n
        /\ \A k \in 1 .. buffer_pos + n : a[k] = buffer'[k - 1]
    BY <1>3, <2>1, NextPendingIs
  <2>3. /\ Pending \in Seq(Byte) /\ Len(Pending) = buffer_pos
        /\ \A k \in 1 .. buffer_pos : Pending[k] = buffer[k - 1]
    BY PendingIs DEF RInv
  <2>4. c \in Seq(Byte) /\ Len(c) = n /\ \A k \in 1 .. n : c[k] = rest[k]
    BY <1>1, <1>2, SubSeqProperties
  <2> HIDE DEF a, c
  <2>5. b \in Seq(Byte) /\ Len(b) = buffer_pos + n
        /\ \A k \in 1 .. buffer_pos + n :
             b[k] = IF k <= buffer_pos THEN Pending[k] ELSE c[k - buffer_pos]
    <3>1. /\ b \in Seq(Byte) /\ Len(b) = Len(Pending) + Len(c)
          /\ \A k \in 1 .. Len(Pending) + Len(c) :
               b[k] = IF k <= Len(Pending) THEN Pending[k] ELSE c[k - Len(Pending)]
      BY <2>3, <2>4, ConcatProperties, Zenon
    <3>. QED
      BY <2>3, <2>4, <3>1
  <2> HIDE DEF b
  <2>6. ASSUME NEW k \in 1 .. buffer_pos + n PROVE a[k] = b[k]
    <3>1. k - 1 \in 0 .. buffer_capacity - 1
      BY <1>1, <1>2
    <3>2. a[k] = IF k <= buffer_pos THEN buffer[k - 1] ELSE rest[k - buffer_pos]
      <4>1. a[k] = buffer'[k - 1]
        BY <2>2
      <4>2. (buffer_pos <= k - 1 <=> ~(k <= buffer_pos)) /\ k - 1 < buffer_pos + n
            /\ (k - 1) - buffer_pos + 1 = k - buffer_pos
        BY <1>1, <1>2
      <4>. QED
        BY <1>4, <3>1, <4>1, <4>2
    <3>3. CASE k <= buffer_pos
      <4>1. k \in 1 .. buffer_pos
        BY <1>1, <3>3
      <4>. QED
        BY <2>3, <2>5, <3>2, <3>3, <4>1
    <3>4. CASE ~(k <= buffer_pos)
      <4>1. k - buffer_pos \in 1 .. n
        BY <1>1, <1>2, <3>4
      <4>. QED
        BY <2>4, <2>5, <3>2, <3>4, <4>1
    <3>. QED
      BY <3>3, <3>4
  <2>7. a = b
    BY <2>2, <2>5, <2>6, SeqEqual
  <2>. QED
    BY <2>7 DEF a, b, c
<1>6. Full(buffer_pos + n) => First(buffer', buffer_capacity) = Pending'
  BY <1>1, <1>3 DEF Full, Pending, First
<1>. QED
  BY <1>1, <1>2, <1>3, <1>5, <1>6 DEF Full

LEMMA CopyAccounted == ASSUME RInv, Copy PROVE Accounted'
<1>1. PICK n \in 0 .. Len(rest) :
        /\ Pending' = Pending \o SubSeq(rest, 1, n)
        /\ rest' = SubSeq(rest, n + 1, Len(rest))
        /\ buffer_pos' = buffer_pos + n
        /\ UNCHANGED <<stream, contents, mtime, handle, buffer_capacity, call>>
        /\ call.op = "write" /\ pc = "copy"
        /\ \/ /\ buffer_pos' = buffer_capacity /\ buffer_capacity > 0
              /\ FhWrite(Pending', "fill")
           \/ Loop(rest') /\ UNCHANGED todo
  BY CopyEffect
<1>2. OInv'
  BY CopyOInv DEF RInv
<1>3. /\ Pending' = SubSeq(Pending', buffer_pos' - Len(Pending') + 1, buffer_pos')
      /\ Len(Pending') = buffer_pos' /\ buffer_pos' \in Nat
  BY <1>2, NextPendingIs, WholeSeq
<1>4. Len(rest') <= Len(rest) /\ Len(rest) <= call.arg /\ Len(rest') \in Nat /\ call.arg \in Int
  BY <1>1, SubSeqProperties DEF RInv, OInv, TypeOK, Accounted, Running, Barriers
<1>5. CASE /\ buffer_pos' = buffer_capacity /\ buffer_capacity > 0
           /\ FhWrite(Pending', "fill")
  <2>1. buffer_pos' # 0 /\ call'.op = "write" /\ call' = call /\ is_open' = is_open
    BY <1>1, <1>3, <1>5 DEF handle
  <2>2. (is_open' /\ todo' = Pending' /\ pc' = "fill") \/ pc' = "ret"
    BY <1>5, <2>1, FhWriteStarts
  <2>. QED
    <3>1. CASE pc' = "ret"
      BY <1>4, <2>1, <3>1 DEF Accounted, Running, Sites
    <3>2. CASE is_open' /\ todo' = Pending' /\ pc' = "fill"
      <4>1. /\ todo' = SubSeq(Pending', buffer_pos' - Len(todo') + 1, buffer_pos')
            /\ Len(todo') = buffer_pos'
        BY <1>3, <3>2, Zenon
      <4>3. Len(todo') <= buffer_pos'
        BY <1>3, <4>1
      <4>2. Len(rest') <= call'.arg
        BY <1>4, <2>1
      <4>. QED
        BY <2>1, <3>2, <4>1, <4>2, <4>3 DEF Accounted, Running, Sites, Barriers
    <3>. QED
      BY <2>2, <3>1, <3>2
<1>6. CASE Loop(rest') /\ UNCHANGED todo
  <2>1. pc' \in {"ret", "copy"} /\ call'.op = "write" /\ call' = call
    BY <1>1, <1>6 DEF Loop, Return
  <2>. QED
    BY <1>4, <2>1 DEF Accounted, Running, Sites, Barriers
<1>. QED
  BY <1>1, <1>5, <1>6

LEMMA NextAccounted == ASSUME RInv, [Next]_vars PROVE Accounted'
<1>1. CASE Call
  BY <1>1, FlushFirstAccounted, WriteByteAccounted, WriteAccounted, OthersAccounted
  DEF Call, FlushCall, Seek, Close, Destroy, Barriers
<1>2. CASE Step
  BY <1>2, WriteSomeAccounted, WriteFailsAccounted, FlushReturnAccounted, BodyAccounted,
     LargeBodyAccounted, CopyAccounted, FillReturnAccounted, TakeAccounted DEF Step
<1>. QED
  BY <1>1, <1>2, RestAccounted DEF Next

LEMMA RInvariance == Spec => []RInv
<1>1. Init => RInv
  BY InitOInv, InitAccounted DEF RInv
<1>2. RInv /\ [Next]_vars => RInv'
  BY StutterOInv, CallOInv, StepOInv, WorldOInv, NextAccounted DEF RInv, Next
<1>. QED
  BY <1>1, <1>2, PTL DEF Spec

-----------------------------------------------------------------------------
(* The steps of the abstract specification.                                *)

outside == <<contents, mtime, off, is_open, appending, stream>>

LEMMA QueueType == RInv => Unstored \in Seq(Byte)
<1> SUFFICES ASSUME RInv PROVE Unstored \in Seq(Byte)
  OBVIOUS
<1>1. todo \in Seq(Byte) /\ rest \in Seq(Byte) /\ Pending \in Seq(Byte)
  BY PendingIs DEF RInv, OInv, TypeOK
<1>2. todo \o rest \in Seq(Byte) /\ Pending \o rest \in Seq(Byte)
  BY <1>1, ConcatProperties
<1>. QED
  BY <1>1, <1>2 DEF Unstored

LEMMA Stutters ==
  ASSUME UNCHANGED <<outside, Unstored, Own, Again, Running, Answered>>
  PROVE  UNCHANGED Abstract!vars
BY DEF outside, Abstract!vars, Abstract!place

LEMMA BeginMaps ==
  ASSUME RInv, pc = "idle", Running', Answered' = <<>>, Again' = <<>>, UNCHANGED outside,
         NEW given \in Seq(Byte), Unstored' = Unstored \o given, Own' = Len(given)
  PROVE  Abstract!Begin
<1>1. ~Running /\ Answered = <<>> /\ Again = <<>>
  BY Phases
<1>2. Unstored \in Seq(Byte)
  BY QueueType
<1>3. /\ Len(Unstored') = Len(Unstored) + Len(given) /\ Len(Unstored) \in Nat /\ Len(given) \in Nat
      /\ SubSeq(Unstored', 1, Len(Unstored)) = Unstored
  <2>1. SubSeq(Unstored', 1, Len(Unstored)) = SubSeq(Unstored, 1, Len(Unstored))
    BY <1>2, CutConcat
  <2>. QED
    BY <1>2, <2>1, ConcatProperties, SubSeqFull
<1>. QED
  BY <1>1, <1>3 DEF Abstract!Begin, Abstract!NoAnswer, Abstract!place, outside

LEMMA AnswerMaps ==
  ASSUME Answered = <<>>, pc' \in {"ret", "terminated"},
         \/ Abstract!Succeeds([op |-> call'.op, arg |-> call'.arg, outcome |-> outcome'])
         \/ Abstract!Fails([op |-> call'.op, arg |-> call'.arg, outcome |-> outcome'])
         \/ Abstract!Opens([op |-> call'.op, arg |-> call'.arg, outcome |-> outcome'])
  PROVE  Abstract!Answer
<1>1. /\ Answered' = [op |-> call'.op, arg |-> call'.arg, outcome |-> outcome']
      /\ Own' = 0 /\ ~Running' /\ Again' = <<>>
  BY NextPhases
<1>2. Answered' # <<>>
  BY <1>1, AnAnswer
<1>. QED
  BY <1>1, <1>2 DEF Abstract!Answer, Abstract!Answers, Abstract!NoAnswer

LEMMA FailMaps ==
  ASSUME RInv, Answered = <<>>, pc' \in {"ret", "terminated"},
         outcome' \notin {"ok", "true", "false"}, UNCHANGED outside,
         NEW d \in 0 .. Own, d <= Len(Unstored),
         Pending' = Again \o SubSeq(Unstored, 1, Len(Unstored) - d),
         call'.op \in {"flush", "close", "destroy"} => Pending' # <<>>
  PROVE  Abstract!Answer
<1>1. Unstored' = Pending'
  BY NextPhases
<1>2. Abstract!Fails([op |-> call'.op, arg |-> call'.arg, outcome |-> outcome'])
  BY <1>1 DEF Abstract!Fails, Abstract!place, outside
<1>. QED
  BY <1>2, AnswerMaps

-----------------------------------------------------------------------------
(* The calls begin.                                                        *)

LEMMA FlushMaps ==
  ASSUME RInv, pc = "idle", Flush, UNCHANGED <<outside, buffer_pos>>, Pending' = Pending,
         rest' \in Seq(Byte),
         IF call'.op \in {"write_byte", "write"} THEN Len(rest') = call'.arg ELSE rest' = <<>>
  PROVE  Abstract!Begin \/ Abstract!Answer
<1>1. /\ Pending \in Seq(Byte) /\ Len(Pending) = buffer_pos /\ buffer_pos \in Nat
      /\ buffer_pos = 0 => Pending = <<>>
  BY PendingIs, EmptyPending DEF RInv, OInv, TypeOK
<1>2. Unstored = Pending /\ Own = 0 /\ Again = <<>> /\ Answered = <<>>
  BY Phases
<1>3. CASE buffer_pos = 0 /\ pc' = "body" /\ UNCHANGED <<todo, outcome>>
  <2>1. /\ Unstored' = Unstored \o rest' /\ Again' = <<>> /\ Running' /\ Answered' = <<>>
        /\ Own' = Len(rest')
    BY <1>2, <1>3, NextPhases
  <2>. QED
    BY <2>1, BeginMaps
<1>4. CASE buffer_pos # 0 /\ is_open /\ todo' = Pending /\ pc' = "flush" /\ UNCHANGED outcome
  <2>1. /\ Unstored' = Unstored \o rest' /\ Running' /\ Answered' = <<>>
        /\ Own' = Len(rest') /\ Again' = SubSeq(Pending', 1, buffer_pos' - Len(todo'))
    BY <1>2, <1>4, NextPhases
  <2>. QED
    BY <1>1, <1>4, <2>1, WholePending, BeginMaps DEF RInv
<1>5. CASE /\ buffer_pos # 0 /\ ~is_open /\ todo' = todo
           /\ pc' = IF call'.op = "destroy" THEN "terminated" ELSE "ret"
           /\ outcome' = "AttemptToWriteAClosedFile"
  <2>1. Pending = <<>> \o SubSeq(Pending, 1, Len(Pending) - 0) /\ Pending # <<>>
    BY <1>1, <1>5, SubSeqFull, ConcatEmptySeq
  <2>. QED
    BY <1>1, <1>2, <1>5, <2>1, FailMaps
<1>. QED
  BY <1>3, <1>4, <1>5, FlushStarts

LEMMA FlushFirstMaps ==
  ASSUME RInv, NEW op \in Barriers, NEW arg, FlushFirst(op, arg)
  PROVE  Abstract!Begin \/ Abstract!Answer
<1>1. /\ pc = "idle" /\ call' = [op |-> op, arg |-> arg] /\ Flush /\ rest' = rest
      /\ UNCHANGED <<outside, buffer, buffer_pos>>
  BY DEF FlushFirst, Begin, outside, file, handle, memory
<1>2. rest' = <<>> /\ rest' \in Seq(Byte)
  BY <1>1 DEF RInv, Accounted
<1>3. Pending' = Pending
  BY <1>1 DEF Pending, First
<1>. QED
  BY <1>1, <1>2, <1>3, FlushMaps DEF Barriers

LEMMA GivenIs ==
  ASSUME RInv, NEW n \in Nat, Give(n)
  PROVE  rest' \in Seq(Byte) /\ Len(rest') = n
<1>1. rest' = [k \in 1 .. n |-> serial + k]
  BY DEF Give
<1>. QED
  BY <1>1, GiveType DEF RInv

(* A call that takes its bytes without a flush().                          *)
LEMMA TakesMaps ==
  ASSUME RInv, pc = "idle", pc' \in {"body", "copy"}, UNCHANGED outside, Pending' = Pending,
         rest' \in Seq(Byte), call'.op \in {"write_byte", "write"}, Len(rest') = call'.arg
  PROVE  Abstract!Begin
<1>1. Unstored = Pending
  BY Phases
<1>2. /\ Unstored' = Unstored \o rest' /\ Again' = <<>> /\ Running' /\ Answered' = <<>>
      /\ Own' = Len(rest')
  BY <1>1, NextPhases
<1>. QED
  BY <1>2, BeginMaps

LEMMA WriteByteMaps == ASSUME RInv, WriteByte PROVE Abstract!Begin \/ Abstract!Answer
<1>1. /\ pc = "idle" /\ call' = [op |-> "write_byte", arg |-> 1] /\ Give(1)
      /\ Flush \/ pc' = "body"
      /\ UNCHANGED <<outside, buffer, buffer_pos>>
  BY DEF WriteByte, Begin, outside, file, handle
<1>2. Pending' = Pending /\ rest' \in Seq(Byte) /\ Len(rest') = 1
  BY <1>1, GivenIs DEF Pending, First
<1>. QED
  BY <1>1, <1>2, FlushMaps, TakesMaps

LEMMA WriteMaps == ASSUME RInv, NEW n \in Counts, Write(n) PROVE Abstract!Begin \/ Abstract!Answer
<1>1. /\ pc = "idle" /\ call' = [op |-> "write", arg |-> n] /\ Give(n)
      /\ Flush \/ pc' = "copy"
      /\ UNCHANGED <<outside, buffer, buffer_pos>>
  BY DEF Write, Begin, outside, file, handle
<1>2. Pending' = Pending /\ rest' \in Seq(Byte) /\ Len(rest') = n
  BY <1>1, GivenIs, OFileAssumption DEF Pending, First
<1>. QED
  BY <1>1, <1>2, FlushMaps, TakesMaps

LEMMA OpenMaps == ASSUME RInv, NEW append \in BOOLEAN, Open(append) PROVE Abstract!Answer
<1>1. /\ pc = "idle" /\ pc' = "ret" /\ call' = [op |-> "open", arg |-> 0]
      /\ UNCHANGED <<buffer, buffer_pos>>
  BY DEF Open, Begin, Return, memory
<1>2. /\ Pending' = Pending /\ Pending \in Seq(Byte)
      /\ Unstored = Pending /\ Unstored' = Pending' /\ Answered = <<>> /\ Own = 0 /\ Again = <<>>
  BY <1>1, PendingIs, Phases, NextPhases DEF Pending, First, RInv
<1>3. CASE is_open /\ outcome' = "FileIsAlreadyOpened" /\ UNCHANGED outside
  <2>1. Pending = <<>> \o SubSeq(Pending, 1, Len(Pending) - 0)
    BY <1>2, SubSeqFull, ConcatEmptySeq
  <2>. QED
    BY <1>1, <1>2, <1>3, <2>1, FailMaps
<1>4. CASE ~is_open /\ outcome' = "true" /\ OpenHandle(append)
  <2>1. /\ ~is_open /\ is_open' /\ off' = 0 /\ mtime' \in {mtime, "written"}
        /\ stream' = stream /\ (appending' <=> append)
        /\ contents' = IF append \/ stream THEN contents ELSE <<>>
        /\ ~append => mtime' = "written"
    BY <1>4 DEF OpenHandle
  <2>2. /\ contents' = IF appending' \/ stream' THEN contents ELSE <<>>
        /\ ~(appending' \/ stream') => mtime' = "written"
    BY <2>1
  <2>. QED
    BY <1>1, <1>2, <1>4, <2>1, <2>2, AnswerMaps DEF Abstract!Opens
<1>5. CASE ~is_open /\ outcome' = "false" /\ UNCHANGED outside
  BY <1>1, <1>2, <1>5, AnswerMaps DEF Abstract!Opens, Abstract!place, outside
<1>. QED
  BY <1>3, <1>4, <1>5 DEF Open, Return, file, handle, outside

(* A call that returns at once, with nothing stored meanwhile.             *)
LEMMA AtOnceMaps ==
  ASSUME RInv, pc = "idle", pc' = "ret", Pending' = Pending,
         call'.op \in {"set_buffer_size", "set_last_write_time"},
         UNCHANGED <<contents, off, is_open, appending, stream>>,
         \/ outcome' = "ok" /\ mtime' = IF call'.op = "set_last_write_time" THEN "set" ELSE mtime
         \/ outcome' \notin {"ok", "true", "false"} /\ UNCHANGED mtime,
         call'.op = "set_last_write_time" /\ outcome' = "ok" => is_open
  PROVE  Abstract!Answer
<1>1. /\ Pending \in Seq(Byte) /\ Unstored = Pending /\ Unstored' = Pending'
      /\ Answered = <<>> /\ Own = 0 /\ Again = <<>>
  BY PendingIs, Phases, NextPhases DEF RInv
<1>2. CASE outcome' = "ok" /\ mtime' = IF call'.op = "set_last_write_time" THEN "set" ELSE mtime
  BY <1>1, <1>2, AnswerMaps DEF Abstract!Succeeds, Abstract!Barriers
<1>3. CASE outcome' \notin {"ok", "true", "false"} /\ UNCHANGED mtime
  <2>1. Pending = <<>> \o SubSeq(Pending, 1, Len(Pending) - 0)
    BY <1>1, SubSeqFull, ConcatEmptySeq
  <2>. QED
    BY <1>1, <1>3, <2>1, FailMaps DEF outside
<1>. QED
  BY <1>2, <1>3

LEMMA SettingsMap ==
  ASSUME RInv, SetLastWriteTime \/ \E c \in Capacities : SetBufferSize(c)
  PROVE  Abstract!Answer
<1>1. CASE SetLastWriteTime
  <2>1. /\ pc = "idle" /\ pc' = "ret" /\ call' = [op |-> "set_last_write_time", arg |-> 0]
        /\ UNCHANGED <<contents, off, is_open, appending, stream, buffer, buffer_pos>>
        /\ \/ outcome' = "ok" /\ mtime' = "set" /\ is_open
           \/ outcome' \notin {"ok", "true", "false"} /\ UNCHANGED mtime
    BY <1>1 DEF SetLastWriteTime, Begin, Return, memory, handle
  <2>2. Pending' = Pending
    BY <2>1 DEF Pending, First
  <2>. QED
    BY <2>1, <2>2, AtOnceMaps
<1>2. ASSUME NEW c \in Capacities, SetBufferSize(c) PROVE Abstract!Answer
  <2>1. /\ pc = "idle" /\ pc' = "ret" /\ call' = [op |-> "set_buffer_size", arg |-> 0]
        /\ UNCHANGED <<contents, mtime, off, is_open, appending, stream, buffer_pos>>
        /\ allocated => UNCHANGED buffer
        /\ outcome' \in {"ok", "OFileBufferAlreadyAllocated"}
    BY <1>2 DEF SetBufferSize, Begin, Return, file, handle
  <2>2. ~allocated => buffer_pos = 0
    BY DEF RInv, OInv, Control
  <2>3. Pending' = Pending
    BY <2>1, <2>2 DEF Pending, First
  <2>. QED
    BY <2>1, <2>3, AtOnceMaps
<1>. QED
  BY <1>1, <1>2

LEMMA CallMaps == ASSUME RInv, Call PROVE Abstract!Begin \/ Abstract!Answer
BY FlushFirstMaps, WriteByteMaps, WriteMaps, OpenMaps, SettingsMap
DEF Call, FlushCall, Seek, Close, Destroy, Barriers

-----------------------------------------------------------------------------
(* The calls go on.                                                        *)

LEMMA WriteSomeMaps == ASSUME RInv, WriteSome PROVE \E n \in 1 .. Len(Unstored) : Abstract!Store(n)
<1>1. PICK r \in 1 .. Len(todo) : SysWrite(r)
  BY DEF WriteSome
<1>2. /\ pc \in Sites /\ is_open /\ todo \in Seq(Byte) /\ rest \in Seq(Byte) /\ off \in Nat
      /\ contents \in Seq(Byte \cup {Hole, Foreign})
      /\ todo' = SubSeq(todo, r + 1, Len(todo))
      /\ contents' = Overlay(contents, WritePlace, SubSeq(todo, 1, r))
      /\ off' = WritePlace + r /\ mtime' = "written"
      /\ UNCHANGED <<stream, is_open, appending, buffer, buffer_pos, pc, call, rest>>
  BY <1>1 DEF SysWrite, WriteSome, RInv, OInv, TypeOK, Accounted, memory
<1>3. /\ Running /\ Running' /\ Own' = Own /\ Answered = <<>> /\ Answered' = <<>>
  BY <1>2, Phases, NextPhases DEF Sites
<1> DEFINE behind == IF pc = "large" THEN <<>> ELSE rest
<1>4. /\ Unstored = todo \o behind /\ Unstored' = todo' \o behind /\ behind \in Seq(Byte)
  <2>1. todo \o <<>> = todo /\ todo' \o <<>> = todo'
    BY <1>2, ConcatEmptySeq, SubSeqProperties
  <2>2. CASE pc = "large"
    BY <1>2, <2>1, <2>2, Phases, NextPhases
  <2>3. CASE pc \in {"flush", "fill"}
    <3>1. Unstored = todo \o rest /\ Unstored' = todo' \o rest
      BY <1>2, <2>3, Phases, NextPhases
    <3>. QED
      BY <1>2, <2>3, <3>1
  <2>. QED
    BY <1>2, <2>2, <2>3 DEF Sites
<1> HIDE DEF behind
<1>5. /\ SubSeq(Unstored, 1, r) = SubSeq(todo, 1, r)
      /\ SubSeq(Unstored, r + 1, Len(Unstored)) = Unstored'
      /\ r \in 1 .. Len(Unstored)
  <2>1. r \in 0 .. Len(todo)
    OBVIOUS
  <2>2. /\ SubSeq(todo \o behind, 1, r) = SubSeq(todo, 1, r)
        /\ SubSeq(todo \o behind, r + 1, Len(todo \o behind)) = SubSeq(todo, r + 1, Len(todo)) \o behind
    BY <1>2, <1>4, <2>1, CutConcat
  <2>3. Len(todo \o behind) = Len(todo) + Len(behind) /\ Len(todo) \in Nat /\ Len(behind) \in Nat
    BY <1>2, <1>4, ConcatProperties
  <2>4. r \in 1 .. Len(todo \o behind)
    BY <2>3
  <2>. QED
    BY <1>2, <1>4, <2>2, <2>4
<1>6. Again' \in {Again \o SubSeq(Unstored, 1, r), <<>>}
  <2>1. CASE pc = "large"
    BY <1>2, <2>1, NextPhases
  <2>2. CASE pc \in {"flush", "fill"}
    <3>1. /\ Pending' = Pending /\ Pending \in Seq(Byte) /\ Len(Pending) = buffer_pos
          /\ Len(todo) \in 0 .. Len(Pending)
          /\ todo = SubSeq(Pending, Len(Pending) - Len(todo) + 1, Len(Pending))
      <4>1. /\ Pending \in Seq(Byte) /\ Len(Pending) = buffer_pos
            /\ Len(todo) <= buffer_pos
            /\ todo = SubSeq(Pending, buffer_pos - Len(todo) + 1, buffer_pos)
        BY <2>2, PendingIs DEF RInv, Accounted
      <4>2. Pending' = Pending
        BY <1>2 DEF Pending, First
      <4>. QED
        BY <1>2, <4>1, <4>2
    <3>2. /\ Again = SubSeq(Pending, 1, Len(Pending) - Len(todo))
          /\ Again' = SubSeq(Pending, 1, Len(Pending) - Len(todo'))
      BY <1>2, <2>2, <3>1, Phases, NextPhases
    <3>3. Len(todo') = Len(todo) - r
      BY <1>2, SubSeqProperties
    <3>4. SubSeq(Pending, 1, Len(Pending) - Len(todo)) \o SubSeq(todo, 1, r)
            = SubSeq(Pending, 1, Len(Pending) - (Len(todo) - r))
      <4>1. r \in 0 .. Len(todo)
        OBVIOUS
      <4>. QED
        BY <3>1, <4>1, CutSuffix
    <3>. QED
      BY <1>5, <3>2, <3>3, <3>4
  <2>. QED
    BY <1>2, <2>1, <2>2 DEF Sites
<1>7. /\ Abstract!Place = WritePlace /\ WritePlace \in Nat
      /\ Abstract!Put(contents, WritePlace, SubSeq(todo, 1, r)) = contents'
  <2>1. Abstract!Place = WritePlace /\ WritePlace \in Nat
    BY <1>2 DEF Abstract!Place, WritePlace
  <2>2. SubSeq(todo, 1, r) \in Seq(Byte)
    BY <1>2, SubSeqProperties
  <2>. QED
    BY <1>2, <2>1, <2>2, PutIsOverlay
<1>8. Abstract!Store(r)
  BY <1>2, <1>3, <1>5, <1>6, <1>7 DEF Abstract!Store
<1>. QED
  BY <1>5, <1>8

(* The bytes of the running call that are not in the buffer are lost, the  *)
(* others are back in the queue.                                           *)
LEMMA WriteFailsMaps == ASSUME RInv, WriteFails PROVE Abstract!Answer
<1>1. /\ pc \in Sites /\ pc' \in {"ret", "terminated"} /\ outcome' = "IOError" /\ call' = call
      /\ UNCHANGED <<outside, buffer, buffer_pos>>
  BY DEF WriteFails, Throw, file, handle, memory, outside
<1>2. /\ todo \in Seq(Byte) /\ rest \in Seq(Byte) /\ Len(rest) \in Nat /\ Len(todo) \in Nat
      /\ Pending \in Seq(Byte) /\ Len(Pending) = buffer_pos /\ buffer_pos \in Nat
      /\ Pending' = Pending
  BY <1>1, PendingIs DEF RInv, OInv, TypeOK, Pending, First
<1>3. Running /\ Answered = <<>>
  BY <1>1, Phases DEF Sites
<1>4. CASE pc \in {"flush", "fill"}
  <2>1. Unstored = todo \o rest /\ Again = SubSeq(Pending, 1, Len(Pending) - Len(todo))
    BY <1>2, <1>4, Phases
  <2>2. /\ buffer_pos # 0 /\ Len(todo) \in 0 .. Len(Pending)
        /\ todo = SubSeq(Pending, Len(Pending) - Len(todo) + 1, Len(Pending))
    BY <1>2, <1>4 DEF RInv, Accounted
  <2>3. Pending = Again \o todo
    BY <1>2, <2>1, <2>2, JoinSuffix
  <2>4. /\ Len(Unstored) = Len(todo) + Len(rest)
        /\ SubSeq(Unstored, 1, Len(Unstored) - Len(rest)) = todo
    <3>1. Len(todo \o rest) = Len(todo) + Len(rest)
      BY <1>2, ConcatProperties
    <3>2. SubSeq(todo \o rest, 1, Len(todo)) = todo
      <4>1. Len(todo) \in 0 .. Len(todo)
        BY <1>2
      <4>. QED
        BY <1>2, <4>1, CutConcat, SubSeqFull
    <3>. QED
      BY <1>2, <2>1, <3>1, <3>2
  <2>5. Len(rest) \in 0 .. Own
    <3>1. call.op \in {"write_byte", "write"} => Len(rest) <= call.arg /\ call.arg \in Int
      BY <1>3 DEF RInv, Accounted, Barriers, OInv, TypeOK
    <3>2. call.op \notin {"write_byte", "write"} => rest = <<>>
      BY <1>3 DEF RInv, Accounted, Barriers
    <3>. QED
      BY <1>2, <1>3, <3>1, <3>2, Phases
  <2>6. Pending' # <<>>
    BY <1>2, <2>2
  <2>. QED
    <3>1. Pending' = Again \o SubSeq(Unstored, 1, Len(Unstored) - Len(rest))
      BY <1>2, <2>3, <2>4
    <3>2. Len(rest) <= Len(Unstored)
      BY <1>2, <2>4
    <3>3. outcome' \notin {"ok", "true", "false"} /\ UNCHANGED outside
      BY <1>1
    <3>. QED
      BY <1>1, <1>3, <2>5, <2>6, <3>1, <3>2, <3>3, FailMaps, Zenon
<1>5. CASE pc = "large"
  <2>1. /\ Unstored = todo /\ Again = <<>> /\ call.op = "write" /\ Len(todo) <= call.arg
        /\ buffer_pos = 0 /\ call.arg \in Int
    BY <1>5, Phases DEF RInv, Accounted, OInv, TypeOK
  <2>2. Pending = <<>> /\ Own = call.arg
    BY <1>3, <2>1, EmptyPending, Phases DEF RInv
  <2>3. SubSeq(Unstored, 1, Len(Unstored) - Len(todo)) = <<>>
    BY <1>2, <2>1, SubSeqEmpty
  <2>4. Pending' = Again \o SubSeq(Unstored, 1, Len(Unstored) - Len(todo))
    BY <1>2, <2>1, <2>2, <2>3
  <2>5. Len(todo) \in 0 .. Own /\ Len(todo) <= Len(Unstored)
    BY <1>2, <2>1, <2>2
  <2>. QED
    BY <1>1, <1>3, <2>1, <2>4, <2>5, FailMaps
<1>. QED
  BY <1>1, <1>4, <1>5 DEF Sites

(* After fh.write(): what flush() has stored is not put back any more.     *)
LEMMA SettleMaps ==
  ASSUME RInv, OInv', pc \in {"flush", "fill"}, todo = <<>>, pc' \in {"body", "copy"},
         buffer_pos' = 0, UNCHANGED <<outside, call, rest>>
  PROVE  Abstract!Settle
<1>1. /\ rest \in Seq(Byte) /\ buffer_pos # 0 /\ buffer_pos \in Nat
      /\ Pending \in Seq(Byte) /\ Len(Pending) = buffer_pos
  BY PendingIs DEF RInv, OInv, TypeOK, Accounted
<1>2. Unstored = rest /\ Unstored' = rest
  <2>1. Pending' \in Seq(Byte) /\ Len(Pending') = 0
    BY NextPendingIs
  <2>2. Pending' = <<>>
    BY <2>1
  <2>. QED
    BY <1>1, <2>2, Phases, NextPhases, ConcatEmptySeq
<1>3. Again # <<>> /\ Again' = <<>>
  <2>1. Again = SubSeq(Pending, 1, Len(Pending))
    BY <1>1, Phases
  <2>. QED
    <3>1. Again = Pending /\ Pending # <<>>
      BY <1>1, <2>1, SubSeqFull
    <3>. QED
      BY <3>1, NextPhases
<1>4. Running /\ Running' /\ Own' = Own /\ Answered = <<>> /\ Answered' = <<>>
  BY Phases, NextPhases
<1>. QED
  BY <1>2, <1>3, <1>4 DEF Abstract!Settle, Abstract!place, outside

LEMMA FlushReturnMaps == ASSUME RInv, FlushReturn PROVE Abstract!Settle
<1>1. OInv'
  BY FlushReturnOInv DEF RInv
<1>. QED
  BY <1>1, SettleMaps DEF FlushReturn, file, handle, outside

(* flush(), seek(), close(), ~OFile(): nothing is left to be stored.       *)
LEMMA BodyMaps ==
  ASSUME RInv, FlushBody \/ SeekBody \/ CloseBody \/ DestroyBody
  PROVE  Abstract!Answer
<1>1. /\ pc = "body" /\ call.op \in Barriers /\ pc' = "ret" /\ call' = call
      /\ buffer_pos = 0 /\ rest = <<>> /\ buffer_pos' = 0
  BY Phases DEF FlushBody, SeekBody, CloseBody, DestroyBody, Return, RInv, Accounted, Barriers
<1>2. Pending = <<>> /\ Pending' = <<>>
  <2>1. OInv'
    BY BarrierBodyOInv DEF RInv
  <2>2. Pending' \in Seq(Byte) /\ Len(Pending') = 0
    BY <1>1, <2>1, NextPendingIs
  <2>. QED
    BY <1>1, <2>2, EmptyPending DEF RInv
<1>3. /\ Unstored = <<>> /\ Unstored' = <<>> /\ Again = <<>> /\ Answered = <<>> /\ 0 \in 0 .. Own
  <2>1. Own = 0
    BY <1>1, Phases DEF Barriers
  <2>. QED
    BY <1>1, <1>2, <2>1, Phases, NextPhases
<1>4. UNCHANGED <<contents, mtime, stream>>
  BY DEF FlushBody, SeekBody, CloseBody, DestroyBody, file
<1>5. CASE FlushBody
  BY <1>1, <1>3, <1>4, <1>5, AnswerMaps DEF FlushBody, Return, handle, Abstract!Succeeds
<1>6. CASE CloseBody \/ DestroyBody
  <2>1. ~is_open' /\ outcome' = "ok" /\ call.op \in {"close", "destroy"}
    BY <1>6 DEF CloseBody, DestroyBody, CloseHandle, Return
  <2>. QED
    BY <1>1, <1>3, <1>4, <2>1, AnswerMaps DEF Abstract!Succeeds
<1>7. CASE SeekBody
  <2>1. /\ call.op = "seek" /\ UNCHANGED <<is_open, appending>>
        /\ off' = IF LSeekResult(call.arg) = -1 THEN off ELSE call.arg
        /\ outcome' = IF LSeekResult(call.arg) = call.arg THEN "ok" ELSE "SeekFailed"
        /\ LSeekResult(call.arg) \in {call.arg, -1}
    BY <1>7 DEF SeekBody, SeekHandle, Return, LSeekResult
  <2>2. CASE LSeekResult(call.arg) = call.arg
    BY <1>1, <1>3, <1>4, <2>1, <2>2, AnswerMaps DEF Abstract!Succeeds
  <2>3. CASE LSeekResult(call.arg) # call.arg
    <3>1. outcome' = "SeekFailed" /\ UNCHANGED outside
      BY <1>4, <2>1, <2>3 DEF outside
    <3>2. Pending' = <<>> \o SubSeq(Unstored, 1, Len(Unstored) - 0) /\ 0 <= Len(Unstored)
      BY <1>2, <1>3, SubSeqEmpty
    <3>. QED
      BY <1>1, <1>3, <2>1, <3>1, <3>2, FailMaps
  <2>. QED
    BY <2>2, <2>3
<1>. QED
  BY <1>5, <1>6, <1>7

(* A call succeeds that has nothing more to store.                         *)
LEMMA WritesMap ==
  ASSUME RInv, Running, call.op \in {"write_byte", "write"}, pc' = "ret", outcome' = "ok",
         UNCHANGED <<outside, call>>, Pending' = Unstored
  PROVE  Abstract!Answer
<1>1. Unstored' = Unstored /\ Answered = <<>>
  BY NextPhases, Phases DEF Running, Answered
<1>. QED
  BY <1>1, AnswerMaps DEF Abstract!Succeeds, Abstract!Barriers, outside

LEMMA WriteByteBodyMaps == ASSUME RInv, WriteByteBody PROVE Abstract!Answer
<1>1. /\ pc = "body" /\ call.op = "write_byte" /\ pc' = "ret" /\ outcome' = "ok"
      /\ buffer' = [buffer EXCEPT ![buffer_pos] = Head(rest)]
      /\ buffer_pos' = buffer_pos + 1
      /\ UNCHANGED <<outside, call, buffer_capacity>>
  BY DEF WriteByteBody, Return, file, handle, outside
<1>2. /\ rest \in Seq(Byte) /\ Len(rest) = 1 /\ buffer_capacity \in Nat
      /\ buffer \in [0 .. buffer_capacity - 1 -> Byte \cup {Garbage}]
      /\ buffer_pos \in Nat /\ buffer_pos < buffer_capacity
      /\ Pending \in Seq(Byte) /\ Len(Pending) = buffer_pos
      /\ \A k \in 1 .. buffer_pos : Pending[k] = buffer[k - 1]
  BY <1>1, PendingIs, Phases DEF RInv, OInv, TypeOK, Control, Accounted
<1>3. Pending' = Pending \o rest
  <2> DEFINE a == Pending'
             b == Pending \o rest
  <2>1. OInv'
    BY WriteByteBodyOInv DEF RInv
  <2>2. /\ a \in Seq(Byte) /\ Len(a) = buffer_pos + 1
        /\ \A k \in 1 .. buffer_pos + 1 : a[k] = buffer'[k - 1]
    BY <1>1, <2>1, NextPendingIs
  <2>3. /\ b \in Seq(Byte) /\ Len(b) = Len(Pending) + Len(rest)
        /\ \A k \in 1 .. Len(Pending) + Len(rest) :
             b[k] = IF k <= Len(Pending) THEN Pending[k] ELSE rest[k - Len(Pending)]
    BY <1>2, ConcatProperties
  <2> HIDE DEF a, b
  <2>4. ASSUME NEW k \in 1 .. buffer_pos + 1 PROVE a[k] = b[k]
    <3>1. CASE k <= buffer_pos
      <4>1. k - 1 \in 0 .. buffer_capacity - 1 /\ k - 1 # buffer_pos /\ k \in 1 .. buffer_pos
        BY <1>2, <3>1
      <4>. QED
        BY <1>1, <1>2, <2>2, <2>3, <3>1, <4>1
    <3>2. CASE k = buffer_pos + 1
      <4>1. k - 1 = buffer_pos /\ buffer_pos \in 0 .. buffer_capacity - 1 /\ k - buffer_pos = 1
            /\ ~(k <= buffer_pos)
        BY <1>2, <3>2
      <4>2. a[k] = Head(rest)
        BY <1>1, <1>2, <2>2, <4>1
      <4>3. b[k] = rest[1] /\ Head(rest) = rest[1]
        BY <1>2, <2>3, <4>1
      <4>. QED
        BY <4>2, <4>3
    <3>. QED
      BY <1>2, <3>1, <3>2
  <2>5. a = b
    BY <1>2, <2>2, <2>3, <2>4, SeqEqual
  <2>. QED
    BY <2>5 DEF a, b
<1>. QED
  BY <1>1, <1>3, Phases, WritesMap

LEMMA LargeBodyMaps ==
  ASSUME RInv, LargeBody
  PROVE  UNCHANGED Abstract!vars \/ Abstract!Answer
<1>1. /\ pc = "body" /\ call.op = "write" /\ FhWrite(rest, "large")
      /\ UNCHANGED <<outside, buffer, buffer_pos, call, rest>>
  BY DEF LargeBody, handle, memory, file, outside
<1>2. /\ rest \in Seq(Byte) /\ Len(rest) \in Nat /\ Len(rest) <= call.arg /\ call.arg \in Int
      /\ buffer_pos = 0
  BY <1>1, Phases DEF RInv, OInv, TypeOK, Accounted, Barriers
<1>3. Pending = <<>> /\ Pending' = <<>>
  BY <1>1, <1>2, EmptyPending DEF RInv, Pending, First
<1>4. /\ Unstored = rest /\ Own = call.arg /\ Again = <<>> /\ Running /\ Answered = <<>>
  BY <1>1, <1>2, <1>3, Phases, ConcatEmptySeq
<1>5. CASE is_open /\ todo' = rest /\ pc' = "large" /\ UNCHANGED outcome
  <2>1. UNCHANGED <<Unstored, Own, Again, Running, Answered>>
    BY <1>1, <1>4, <1>5, NextPhases
  <2>. QED
    BY <1>1, <2>1, Stutters
<1>6. CASE /\ ~is_open /\ todo' = todo
           /\ pc' = IF call'.op = "destroy" THEN "terminated" ELSE "ret"
           /\ outcome' = "AttemptToWriteAClosedFile"
  <2>1. SubSeq(Unstored, 1, Len(Unstored) - Len(rest)) = <<>>
    BY <1>2, <1>4, SubSeqEmpty
  <2>2. Pending' = Again \o SubSeq(Unstored, 1, Len(Unstored) - Len(rest))
    BY <1>3, <1>4, <2>1
  <2>3. Len(rest) \in 0 .. Own /\ Len(rest) <= Len(Unstored)
    BY <1>2, <1>4
  <2>. QED
    BY <1>1, <1>4, <1>6, <2>2, <2>3, FailMaps
<1>. QED
  BY <1>1, <1>5, <1>6, FhWriteStarts

LEMMA LargeReturnMaps == ASSUME RInv, LargeReturn PROVE Abstract!Answer
<1>1. /\ pc = "large" /\ todo = <<>> /\ pc' = "ret" /\ outcome' = "ok"
      /\ UNCHANGED <<outside, buffer, buffer_pos, call>>
  BY DEF LargeReturn, Return, handle, memory, file, outside
<1>2. call.op = "write" /\ buffer_pos = 0
  BY <1>1 DEF RInv, Accounted
<1>3. Pending' = <<>>
  BY <1>1, <1>2, EmptyPending DEF RInv, Pending, First
<1>. QED
  BY <1>1, <1>2, <1>3, Phases, WritesMap

(* memcpy() moves bytes within the queue; a full buffer that cannot be     *)
(* written loses those that it has not taken.                              *)
LEMMA CopyMaps == ASSUME RInv, Copy PROVE UNCHANGED Abstract!vars \/ Abstract!Answer
<1>1. PICK n \in 0 .. Len(rest) :
        /\ Pending' = Pending \o SubSeq(rest, 1, n)
        /\ rest' = SubSeq(rest, n + 1, Len(rest))
        /\ buffer_pos' = buffer_pos + n
        /\ UNCHANGED <<stream, contents, mtime, handle, buffer_capacity, call>>
        /\ call.op = "write" /\ pc = "copy"
        /\ \/ /\ buffer_pos' = buffer_capacity /\ buffer_capacity > 0
              /\ FhWrite(Pending', "fill")
           \/ Loop(rest') /\ UNCHANGED todo
  BY CopyEffect
<1>2. /\ OInv' /\ UNCHANGED outside /\ rest \in Seq(Byte) /\ Pending \in Seq(Byte)
      /\ Len(rest) <= call.arg /\ call.arg \in Int
  BY <1>1, CopyOInv, PendingIs, Phases DEF RInv, OInv, TypeOK, Accounted, Barriers, handle, outside
<1>3. /\ Pending' \in Seq(Byte) /\ rest' \in Seq(Byte) /\ Len(rest') <= Len(rest)
      /\ Len(rest') \in Nat /\ Len(rest) \in Nat /\ Len(Pending') = buffer_pos' /\ Len(Pending') \in Nat
  <2>1. rest' \in Seq(Byte) /\ Len(rest') = Len(rest) - n
    BY <1>1, <1>2, SubSeqProperties
  <2>. QED
    BY <1>2, <2>1, NextPendingIs
<1>4. /\ Unstored = Pending' \o rest' /\ Own = call.arg /\ Again = <<>> /\ Running /\ Answered = <<>>
  <2> DEFINE c == SubSeq(rest, 1, n)
             d == SubSeq(rest, n + 1, Len(rest))
  <2>1. c \in Seq(Byte) /\ d \in Seq(Byte)
    BY <1>2, SubSeqProperties
  <2>2. c \o d = rest
    <3>1. n \in 0 .. Len(rest) /\ Len(rest) \in n .. Len(rest)
      BY <1>3
    <3>. QED
      BY <1>2, <3>1, JoinAt, SubSeqFull
  <2>3. Pending' = Pending \o c /\ rest' = d
    BY <1>1
  <2> HIDE DEF c, d
  <2>4. Pending' \o rest' = Pending \o rest
    <3>1. (Pending \o c) \o d = Pending \o (c \o d)
      <4>1. Pending \in Seq(Byte) /\ c \in Seq(Byte) /\ d \in Seq(Byte)
        BY <1>2, <2>1
      <4>. QED
        BY <4>1, JoinInAnyOrder
    <3>. QED
      BY <2>2, <2>3, <3>1
  <2>. QED
    BY <1>1, <2>4, Phases
<1>5. CASE is_open /\ todo' = Pending' /\ pc' = "fill" /\ UNCHANGED outcome
  <2>1. Again' = <<>>
    <3>1. Again' = SubSeq(Pending', 1, buffer_pos' - Len(todo'))
      BY <1>5, NextPhases
    <3>. QED
      BY <1>3, <1>5, <3>1, WholeSeq
  <2>2. Unstored' = Unstored /\ Own' = Own /\ Running' = Running /\ Answered' = Answered
    BY <1>1, <1>4, <1>5, NextPhases
  <2>. QED
    BY <1>2, <1>4, <2>1, <2>2, Stutters
<1>6. CASE /\ ~is_open /\ todo' = todo
           /\ pc' = IF call'.op = "destroy" THEN "terminated" ELSE "ret"
           /\ outcome' = "AttemptToWriteAClosedFile"
  <2>1. /\ Len(Unstored) = Len(Pending') + Len(rest')
        /\ SubSeq(Unstored, 1, Len(Unstored) - Len(rest')) = Pending'
    <3>1. Len(Pending' \o rest') = Len(Pending') + Len(rest')
      BY <1>3, ConcatProperties
    <3>2. SubSeq(Pending' \o rest', 1, Len(Pending')) = Pending'
      <4>1. Len(Pending') \in 0 .. Len(Pending')
        BY <1>3
      <4>. QED
        BY <1>3, <4>1, CutConcat, SubSeqFull
    <3>. QED
      BY <1>3, <1>4, <3>1, <3>2
  <2>2. Pending' = Again \o SubSeq(Unstored, 1, Len(Unstored) - Len(rest'))
    BY <1>3, <1>4, <2>1, ConcatEmptySeq
  <2>3. Len(rest') \in 0 .. Own /\ Len(rest') <= Len(Unstored)
    BY <1>2, <1>3, <1>4, <2>1
  <2>4. outcome' \notin {"ok", "true", "false"} /\ call'.op = "write" /\ pc' = "ret"
    BY <1>1, <1>6
  <2>. QED
    BY <1>2, <1>4, <2>2, <2>3, <2>4, FailMaps
<1>7. CASE Loop(rest')
  <2>1. CASE rest' = <<>> /\ pc' = "ret" /\ outcome' = "ok"
    <3>1. Pending' = Unstored
      BY <1>3, <1>4, <2>1, ConcatEmptySeq
    <3>. QED
      BY <1>1, <1>2, <1>4, <2>1, <3>1, WritesMap
  <2>2. CASE pc' = "copy"
    <3>1. UNCHANGED <<Unstored, Own, Again, Running, Answered>>
      BY <1>1, <1>4, <2>2, NextPhases
    <3>. QED
      BY <1>2, <3>1, Stutters
  <2>. QED
    BY <1>7, <2>1, <2>2 DEF Loop, Return
<1>. QED
  BY <1>1, <1>5, <1>6, <1>7, FhWriteStarts

LEMMA FillReturnMaps == ASSUME RInv, FillReturn PROVE Abstract!Settle \/ Abstract!Answer
<1>1. /\ pc = "fill" /\ todo = <<>> /\ buffer_pos' = 0 /\ call.op = "write"
      /\ UNCHANGED <<outside, call, rest>> /\ Loop(rest) /\ OInv' /\ rest \in Seq(Byte)
  BY FillReturnOInv DEF FillReturn, file, handle, outside, RInv, Accounted, OInv, TypeOK
<1>2. CASE pc' = "copy"
  BY <1>1, <1>2, SettleMaps
<1>3. CASE rest = <<>> /\ pc' = "ret" /\ outcome' = "ok"
  <2>1. Pending' \in Seq(Byte) /\ Len(Pending') = 0
    BY <1>1, NextPendingIs
  <2>2. Pending' = Unstored
    BY <1>1, <1>3, <2>1, Phases, ConcatEmptySeq
  <2>. QED
    BY <1>1, <1>3, <2>2, Phases, WritesMap
<1>. QED
  BY <1>1, <1>2, <1>3 DEF Loop, Return

LEMMA TakeMaps == ASSUME RInv, Take PROVE Abstract!Take
<1>1. /\ pc = "ret" /\ pc' = "idle" /\ UNCHANGED <<outside, buffer, buffer_pos>>
  BY DEF Take, file, handle, memory, outside
<1>2. Pending' = Pending
  BY <1>1 DEF Pending, First
<1>3. /\ Answered = [op |-> call.op, arg |-> call.arg, outcome |-> outcome] /\ Answered # <<>>
      /\ ~(Answered.op = "destroy" /\ Answered.outcome # "ok")
  BY <1>1, Phases, AnAnswer DEF RInv, Accounted
<1>4. Answered' = <<>> /\ UNCHANGED <<Unstored, Own, Again, Running>>
  <2>1. Running' = Running
    BY <1>1 DEF Running
  <2>. QED
    BY <1>1, <1>2, <2>1, Phases, NextPhases
<1>. QED
  BY <1>1, <1>3, <1>4 DEF Abstract!Take, Abstract!NoAnswer, Abstract!place, outside

LEMMA WorldMaps == ASSUME RInv, World PROVE Abstract!Others \/ UNCHANGED Abstract!vars
<1>1. /\ \/ contents' = Append(contents, Foreign) /\ mtime' = "written"
         \/ contents' = contents /\ mtime' = mtime
      /\ UNCHANGED <<stream, is_open, appending, off, todo, buffer, buffer_pos, pc, call, rest, outcome>>
  BY DEF World, ForeignWrite, Drain, handle, memory
<1>2. Pending' = Pending
  BY <1>1 DEF Pending, First
<1>3. UNCHANGED <<Unstored, Own, Again, Running, Answered>>
  BY <1>1, <1>2 DEF Unstored, Own, Again, Running, Answered
<1>4. CASE contents' = Append(contents, Foreign) /\ mtime' = "written"
  BY <1>1, <1>3, <1>4 DEF Abstract!Others, Abstract!place
<1>5. CASE contents' = contents /\ mtime' = mtime
  BY <1>1, <1>3, <1>5, Stutters DEF outside
<1>. QED
  BY <1>1, <1>4, <1>5

-----------------------------------------------------------------------------
LEMMA InitMaps == Init => Abstract!Init
<1> SUFFICES ASSUME Init PROVE Abstract!Init
  OBVIOUS
<1>1. /\ contents = <<>> /\ mtime = "written" /\ off = 0 /\ is_open = FALSE
      /\ appending \/ stream \in BOOLEAN
  BY DEF Init, HandleInit
<1>2. Pending = <<>>
  BY InitOInv, EmptyPending DEF Init
<1>3. Unstored = <<>> /\ Own = 0 /\ Again = <<>> /\ Running = FALSE /\ Answered = <<>>
  BY <1>2, Phases DEF Init, Running
<1>. QED
  BY <1>1, <1>3 DEF Abstract!Init, Abstract!NoAnswer

LEMMA StepMaps == RInv /\ Step => UNCHANGED Abstract!vars \/ Abstract!Next
BY WriteSomeMaps, WriteFailsMaps, FlushReturnMaps, BodyMaps, WriteByteBodyMaps,
   LargeBodyMaps, LargeReturnMaps, CopyMaps, FillReturnMaps, TakeMaps
DEF Step, Abstract!Next

LEMMA NextMaps == RInv /\ [Next]_vars => [Abstract!Next]_(Abstract!vars)
<1> SUFFICES ASSUME RInv, [Next]_vars PROVE [Abstract!Next]_(Abstract!vars)
  OBVIOUS
<1>1. CASE UNCHANGED vars
  <2>1. /\ UNCHANGED outside
        /\ UNCHANGED <<todo, buffer, buffer_pos, pc, call, rest, outcome>>
    BY <1>1 DEF vars, file, handle, memory, outside
  <2>2. Pending' = Pending
    BY <2>1 DEF Pending, First
  <2>3. UNCHANGED <<Unstored, Own, Again, Running, Answered>>
    BY <2>1, <2>2 DEF Unstored, Own, Again, Running, Answered
  <2>. QED
    BY <2>1, <2>3, Stutters
<1>2. CASE Call
  BY <1>2, CallMaps DEF Abstract!Next
<1>3. CASE Step
  BY <1>3, StepMaps
<1>4. CASE World
  BY <1>4, WorldMaps DEF Abstract!Next
<1>. QED
  BY <1>1, <1>2, <1>3, <1>4 DEF Next

(* OFile is a queue of bytes on their way to a file (OFile.hpp:30-109):    *)
(* whatever fails, comes short or interferes, the bytes given reach the    *)
(* file in order, each where it was aimed at, and none that a call has     *)
(* accepted is lost by a later one, for any capacity, any counts and       *)
(* positions, and any number of calls.                                     *)
THEOREM Refinement == Spec => ImplementsWriteBehind
BY InitMaps, NextMaps, RInvariance, PTL DEF Spec, ImplementsWriteBehind, Abstract!Spec

=============================================================================
