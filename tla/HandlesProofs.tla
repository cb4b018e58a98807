---------------------------- MODULE HandlesProofs ----------------------------
(***************************************************************************)
(* Proofs about the ownership of descriptors, and about the bytes that go  *)
(* with them, for every value of the constants: any number of objects,     *)
(* files and descriptors, any capacity, any standard descriptors open at   *)
(* the beginning.                                                          *)
(***************************************************************************)
EXTENDS HandlesProperties, SequenceTheorems, TLAPS

(* What the members of one object say about its handle until an assignment *)
(* of a standard descriptor is refused: nothing but open() and assign_std_ *)
(* handle() gives it one (FileHandle.hpp:206-236, UniqueHandle.hpp:13-31). *)
HandleOK(o, r) ==
  /\ r.fd = -1 <=> r.mine = Nobody
  /\ r.mine = Terminal => is_std_handle(o, r.fd)
  /\ r.mine \in Names => table[r.fd] = r.mine

HandlesOK ==
  ~refused =>
    /\ \A o \in Objects : Alive(o) => HandleOK(o, obj[o])
    /\ \A o, q \in Objects : Opened(o) /\ Opened(q) /\ o # q => obj[o].fd # obj[q].fd

-----------------------------------------------------------------------------
(* The members of an object, and what the calls make of them.              *)

Sound(r) == r \in Members /\ (r.buffer # NoBuffer => Len(r.buffer) = r.count)

LEMMA Types ==
  HandlesTypeOK <=>
    /\ table \in [Descriptors -> Names \cup {Terminal, Nobody}]
    /\ obj \in [Objects -> Members \cup {Gone}]
    /\ \A o \in Objects : Alive(o) => Sound(obj[o])
    /\ astray \subseteq Names /\ refused \in BOOLEAN /\ dropped \subseteq Descriptors \ Std
    /\ end \in [how : {"running", "terminated", "crashed"}, was : Members]
BY DEF HandlesTypeOK, Sound, Alive

LEMMA DefaultSound ==
  /\ Sound(Default) /\ Default.fd = -1 /\ Default.mine = Nobody
  /\ Default.count = 0 /\ Default.buffer = NoBuffer
BY HandlesAssumption DEF Sound, Default, Members

LEMMA ClosedSound ==
  ASSUME NEW r, Sound(r)
  PROVE  LET c == HandleClosed(r) IN
         Sound(c) /\ c.fd = -1 /\ c.mine = Nobody /\ c.count = r.count /\ c.buffer = r.buffer
BY DEF Sound, HandleClosed, Members

LEMMA MovedFromSound ==
  ASSUME NEW r, Sound(r)
  PROVE  LET m == MovedFrom(r) IN
         /\ Sound(m) /\ m.fd = -1 /\ m.mine = Nobody /\ m.count = r.count /\ m.buffer = NoBuffer
         /\ r.count > 0 => m.dirty
BY DEF Sound, MovedFrom, Members

LEMMA NoBytes == <<>> \in Seq(Bytes) /\ <<>> # NoBuffer /\ Len(<<>>) = 0 /\ ToSet(<<>>) = {}
<1>1. <<>> \in Seq(Bytes)
  OBVIOUS
<1>2. Len(<<>>) = 0 /\ ToSet(<<>>) = {}
  BY DEF ToSet
<1>. QED
  BY <1>1, <1>2, HandlesAssumption

LEMMA FlushedSound ==
  ASSUME NEW r, Sound(r), r.count > 0 => r.buffer # NoBuffer
  PROVE  LET c == Flushed(r) IN
         /\ Sound(c) /\ c.fd = r.fd /\ c.mine = r.mine /\ c.count = 0
         /\ IF r.count = 0 THEN c.buffer = r.buffer ELSE c.buffer = <<>>
         /\ c.buffer = NoBuffer <=> r.buffer = NoBuffer
<1> DEFINE b == IF r.count = 0 THEN r.buffer ELSE <<>>
<1>1. r \in Members /\ (r.count # 0 => r.buffer # NoBuffer)
  BY DEF Sound, Members
<1>2. /\ b \in {NoBuffer} \cup Seq(Bytes) /\ (b # NoBuffer => Len(b) = 0)
      /\ b = NoBuffer <=> r.buffer = NoBuffer
  BY <1>1, NoBytes DEF Sound, Members
<1>3. Flushed(r) = [r EXCEPT !.count = 0, !.buffer = b, !.dirty = FALSE]
  BY DEF Flushed
<1>4. 0 \in 0 .. Capacity
  BY HandlesAssumption
<1>5. IF r.count = 0 THEN b = r.buffer ELSE b = <<>>
  OBVIOUS
<1> HIDE DEF b
<1>. QED
  BY <1>1, <1>2, <1>3, <1>4, <1>5 DEF Sound, Members

LEMMA AllocatedSound ==
  ASSUME NEW r, Sound(r)
  PROVE  LET a == Allocated(r) IN
         /\ Sound(a) /\ a.fd = r.fd /\ a.mine = r.mine /\ a.count = r.count /\ a.dirty = r.dirty
         /\ a.buffer # NoBuffer
         /\ r.buffer # NoBuffer => a.buffer = r.buffer
         /\ r.buffer = NoBuffer => ToSet(a.buffer) \subseteq {Stale} /\ (r.count = 0 => a.buffer = <<>>)
<1>1. CASE r.buffer # NoBuffer
  BY <1>1 DEF Sound, Allocated
<1>2. CASE r.buffer = NoBuffer
  <2> DEFINE f == [k \in 1 .. r.count |-> Stale]
             a == [r EXCEPT !.buffer = f]
  <2>1. r \in Members /\ r.count \in Nat /\ Stale \in Bytes /\ Allocated(r) = a
    BY <1>2, HandlesAssumption DEF Sound, Members, Bytes, Allocated
  <2>2. f \in Seq(Bytes) /\ Len(f) = r.count /\ DOMAIN f = 1 .. r.count
        /\ \A k \in 1 .. r.count : f[k] = Stale
    BY <2>1
  <2>3. f # NoBuffer
    BY <2>2, HandlesAssumption
  <2>4. ToSet(f) \subseteq {Stale}
    BY <2>2 DEF ToSet
  <2>5. r.count = 0 => f = <<>>
    BY <2>2
  <2> HIDE DEF f
  <2>6. /\ a \in Members /\ a.fd = r.fd /\ a.mine = r.mine /\ a.count = r.count
        /\ a.dirty = r.dirty /\ a.buffer = f
    BY <2>1, <2>2 DEF Members
  <2> HIDE DEF a
  <2>. QED
    BY <1>2, <2>1, <2>2, <2>3, <2>4, <2>5, <2>6 DEF Sound
<1>. QED
  BY <1>1, <1>2

LEMMA StoreSound ==
  ASSUME NEW r, Sound(r), r.buffer # NoBuffer, r.count < Capacity
  PROVE  LET s == Store(r) IN
         /\ Sound(s) /\ s.fd = r.fd /\ s.mine = r.mine /\ s.dirty = r.dirty
         /\ s.buffer # NoBuffer /\ ToSet(s.buffer) = ToSet(r.buffer) \cup {r.mine}
<1>1. /\ r \in Members /\ r.buffer \in Seq(Bytes) /\ Len(r.buffer) = r.count
      /\ r.mine \in Bytes /\ r.count + 1 \in 0 .. Capacity
  BY HandlesAssumption DEF Sound, Members, Bytes
<1> DEFINE b == Append(r.buffer, r.mine)
<1>2. b \in Seq(Bytes) /\ Len(b) = r.count + 1 /\ b # NoBuffer
  BY <1>1, HandlesAssumption
<1>3. ToSet(b) = ToSet(r.buffer) \cup {r.mine}
  BY <1>1, AppendProperties DEF ToSet
<1>4. Store(r) = [r EXCEPT !.buffer = b, !.count = r.count + 1]
  BY DEF Store
<1> HIDE DEF b
<1>. QED
  BY <1>1, <1>2, <1>3, <1>4 DEF Sound, Members

LEMMA FilledSound ==
  ASSUME NEW r, Sound(r), NEW n \in 0 .. Capacity, table[r.fd] \in Names \cup {Terminal, Nobody}
  PROVE  LET s == Filled(r, n) IN
         /\ Sound(s) /\ s.fd = r.fd /\ s.mine = r.mine
         /\ s.buffer # NoBuffer /\ ToSet(s.buffer) \subseteq {table[r.fd]}
<1> DEFINE b == [k \in 1 .. n |-> table[r.fd]]
<1>1. b \in Seq(Bytes) /\ Len(b) = n /\ b # NoBuffer /\ ToSet(b) \subseteq {table[r.fd]}
  BY HandlesAssumption DEF ToSet, Bytes
<1>2. Filled(r, n) = [r EXCEPT !.buffer = b, !.count = n]
  BY DEF Filled
<1> HIDE DEF b
<1>. QED
  BY <1>1, <1>2 DEF Sound, Members

(* read_byte(): the byte is taken from the window.                         *)
LEMMA TakenSound ==
  ASSUME NEW r, Sound(r), r.buffer # NoBuffer, r.count > 0
  PROVE  LET s == [r EXCEPT !.count = @ - 1, !.buffer = Tail(@)] IN
         /\ Sound(s) /\ s.fd = r.fd /\ s.mine = r.mine
         /\ s.buffer # NoBuffer /\ ToSet(s.buffer) \subseteq ToSet(r.buffer)
<1>1. /\ r \in Members /\ r.buffer \in Seq(Bytes) /\ Len(r.buffer) = r.count
      /\ r.count - 1 \in 0 .. Capacity /\ r.buffer # <<>>
  BY HandlesAssumption DEF Sound, Members
<1> DEFINE b == Tail(r.buffer)
<1>2. b \in Seq(Bytes) /\ Len(b) = r.count - 1 /\ b # NoBuffer
  <2>1. b \in Seq(Bytes) /\ Len(b) = r.count - 1
    BY <1>1, HeadTailProperties
  <2>. QED
    BY <2>1, HandlesAssumption
<1>3. ToSet(b) \subseteq ToSet(r.buffer)
  BY <1>1, HeadTailProperties DEF ToSet
<1> HIDE DEF b
<1>4. [r EXCEPT !.count = @ - 1, !.buffer = Tail(@)] = [r EXCEPT !.count = r.count - 1, !.buffer = b]
  BY DEF b
<1>. QED
  BY <1>1, <1>2, <1>3, <1>4 DEF Sound, Members

LEMMA ResetSound ==
  ASSUME NEW r, Sound(r)
  PROVE  LET s == ResetWindow(r) IN
         /\ Sound(s) /\ s.fd = r.fd /\ s.mine = r.mine /\ s.count = 0
         /\ s.buffer \in {NoBuffer, <<>>}
<1> DEFINE b == IF r.buffer = NoBuffer THEN r.buffer ELSE <<>>
<1>1. b \in {NoBuffer} \cup Seq(Bytes) /\ (b # NoBuffer => Len(b) = 0) /\ b \in {NoBuffer, <<>>}
  BY NoBytes
<1>2. ResetWindow(r) = [r EXCEPT !.count = 0, !.dirty = FALSE, !.buffer = b]
  BY DEF ResetWindow
<1>3. 0 \in 0 .. Capacity
  BY HandlesAssumption
<1> HIDE DEF b
<1>. QED
  BY <1>1, <1>2, <1>3 DEF Sound, Members

-----------------------------------------------------------------------------
(* What a step does to the table and to the objects: it is a constructor,  *)
(* open(), assign_std_handle(), or one of these.                           *)

(* An object is used: its handle stays.                                    *)
Uses(o) ==
  /\ Alive(o)
  /\ \E r : /\ Sound(r) /\ r.fd = obj[o].fd /\ r.mine = obj[o].mine
            /\ obj' = [obj EXCEPT ![o] = r]
  /\ UNCHANGED <<table, refused, dropped>>

(* An object is closed, or destroyed.                                      *)
Closes(o) ==
  /\ Alive(o) /\ table' = TableClosed(o, obj[o])
  /\ \E r : /\ r = Gone \/ (Sound(r) /\ r.fd = -1 /\ r.mine = Nobody)
            /\ obj' = [obj EXCEPT ![o] = r]
  /\ UNCHANGED <<refused, dropped>>

(* Object q is moved to o, where another one may be destroyed before.      *)
Moves(o, q) ==
  /\ o # q /\ SameClass(o, q) /\ Alive(q)
  /\ table' = IF Alive(o) THEN TableClosed(o, obj[o]) ELSE table
  /\ obj' = [obj EXCEPT ![o] = obj[q], ![q] = MovedFrom(obj[q])]
  /\ UNCHANGED <<refused, dropped>>

Rests == UNCHANGED <<table, obj, refused, dropped>>

LEMMA MoveKinds ==
  ASSUME HandlesTypeOK, NEW o \in Objects, NEW q \in Objects,
         MoveConstruct(o, q) \/ MoveAssign(o, q)
  PROVE  Moves(o, q) \/ Rests
BY DEF MoveConstruct, MoveAssign, Moves, Rests, Unchanged, vars, Ends

LEMMA WriteByteKind ==
  ASSUME HandlesTypeOK, NEW o \in Objects, WriteByte(o)
  PROVE  Uses(o)
<1> DEFINE r == Allocated(obj[o])
<1>1. Alive(o) /\ Sound(obj[o]) /\ UNCHANGED <<table, refused, dropped>>
  BY Types DEF WriteByte, Unchanged
<1>2. Sound(r) /\ r.fd = obj[o].fd /\ r.mine = obj[o].mine /\ r.buffer # NoBuffer
  BY <1>1, AllocatedSound
<1>3. \/ r.count < Capacity /\ obj' = [obj EXCEPT ![o] = Store(r)]
      \/ r.count = Capacity /\ obj' = [obj EXCEPT ![o] = Store(Flushed(r))]
      \/ obj' = [obj EXCEPT ![o] = r]
  BY DEF WriteByte
<1> HIDE DEF r
<1>4. CASE r.count < Capacity /\ obj' = [obj EXCEPT ![o] = Store(r)]
  BY <1>1, <1>2, <1>4, StoreSound DEF Uses
<1>5. CASE r.count = Capacity /\ obj' = [obj EXCEPT ![o] = Store(Flushed(r))]
  <2> DEFINE c == Flushed(r)
  <2>1. Sound(c) /\ c.fd = r.fd /\ c.mine = r.mine /\ c.count < Capacity /\ c.buffer # NoBuffer
    BY <1>2, FlushedSound, HandlesAssumption
  <2> HIDE DEF c
  <2>2. Sound(Store(c)) /\ Store(c).fd = r.fd /\ Store(c).mine = r.mine
    BY <2>1, StoreSound
  <2>. QED
    BY <1>1, <1>2, <1>5, <2>2 DEF Uses, c
<1>6. CASE obj' = [obj EXCEPT ![o] = r]
  BY <1>1, <1>2, <1>6 DEF Uses
<1>. QED
  BY <1>3, <1>4, <1>5, <1>6

LEMMA ReadByteKind ==
  ASSUME HandlesTypeOK, NEW o \in Objects, ReadByte(o)
  PROVE  Uses(o) \/ Rests
<1> DEFINE r == obj[o]
<1>1. Alive(o) /\ Sound(r) /\ UNCHANGED <<table, refused, dropped>>
  BY Types DEF ReadByte, Unchanged, Ends
<1>2. \/ /\ r.count > 0 /\ r.buffer # NoBuffer
         /\ obj' = [obj EXCEPT ![o] = [r EXCEPT !.count = @ - 1, !.buffer = Tail(@)]]
      \/ obj' = obj
      \/ obj' = [obj EXCEPT ![o] = Allocated(r)]
      \/ /\ r.fd # -1
         /\ \E n \in 0 .. Capacity - 1 : obj' = [obj EXCEPT ![o] = Filled(r, n)]
  BY DEF ReadByte, Ends
<1>3. CASE /\ r.count > 0 /\ r.buffer # NoBuffer
           /\ obj' = [obj EXCEPT ![o] = [r EXCEPT !.count = @ - 1, !.buffer = Tail(@)]]
  BY <1>1, <1>3, TakenSound DEF Uses
<1>4. CASE obj' = obj
  BY <1>1, <1>4 DEF Rests
<1>5. CASE obj' = [obj EXCEPT ![o] = Allocated(r)]
  BY <1>1, <1>5, AllocatedSound DEF Uses
<1>6. CASE /\ r.fd # -1
           /\ \E n \in 0 .. Capacity - 1 : obj' = [obj EXCEPT ![o] = Filled(r, n)]
  <2>1. PICK n \in 0 .. Capacity - 1 : obj' = [obj EXCEPT ![o] = Filled(r, n)]
    BY <1>6
  <2>2. table[r.fd] \in Names \cup {Terminal, Nobody} /\ n \in 0 .. Capacity
    BY <1>1, <1>6, Types, HandlesAssumption DEF Sound, Members
  <2>. QED
    BY <1>1, <2>1, <2>2, FilledSound DEF Uses
<1>. QED
  BY <1>2, <1>3, <1>4, <1>5, <1>6

LEMMA CloseKinds ==
  ASSUME HandlesTypeOK, NEW o \in Objects, CloseOut(o) \/ CloseIn(o) \/ Destroy(o)
  PROVE  Closes(o) \/ Rests
<1>1. Alive(o) /\ Sound(obj[o])
  BY Types DEF CloseOut, CloseIn, Destroy
<1>2. CASE CloseOut(o)
  <2>1. CASE FlushSucceeds(obj[o])
    <3>1. Sound(Flushed(obj[o]))
      BY <1>1, <2>1, FlushedSound DEF FlushSucceeds, CanWrite, Sound, Members
    <3>. QED
      BY <1>1, <1>2, <3>1, ClosedSound DEF CloseOut, Closes, Rests, Unchanged
  <2>2. CASE ~FlushSucceeds(obj[o])
    BY <1>2, <2>2 DEF CloseOut, Rests, Unchanged
  <2>. QED
    BY <2>1, <2>2
<1>3. CASE CloseIn(o)
  BY <1>1, <1>3, ResetSound, ClosedSound DEF CloseIn, Closes, Unchanged
<1>4. CASE Destroy(o)
  BY <1>1, <1>4 DEF Destroy, Closes, Rests, Unchanged, Ends
<1>. QED
  BY <1>2, <1>3, <1>4

LEMMA Kinds ==
  ASSUME HandlesTypeOK, [Next]_vars
  PROVE  \/ Rests
         \/ \E o \in Objects :
              \/ Construct(o) \/ (\E f \in Names : Open(o, f))
              \/ ~refused /\ \E d \in Descriptors \cup {-1} : AssignStd(o, d)
              \/ Uses(o) \/ Closes(o) \/ (\E q \in Objects : Moves(o, q))
<1>1. CASE UNCHANGED vars
  BY <1>1 DEF vars, Rests
<1>2. CASE Next
  <2>1. PICK o \in Objects : (~refused /\ Call(o)) \/ CloseOut(o) \/ CloseIn(o) \/ Destroy(o)
    BY <1>2 DEF Next
  <2>2. CASE CloseOut(o) \/ CloseIn(o) \/ Destroy(o)
    BY <2>2, CloseKinds
  <2>3. CASE ~refused /\ Call(o)
    BY <2>3, MoveKinds, WriteByteKind, ReadByteKind DEF Call
  <2>. QED
    BY <2>1, <2>2, <2>3
<1>. QED
  BY <1>1, <1>2

-----------------------------------------------------------------------------
(* Types.                                                                  *)

LEMMA ObjTyped ==
  ASSUME HandlesTypeOK, NEW o \in Objects, NEW r, r = Gone \/ Sound(r), obj' = [obj EXCEPT ![o] = r]
  PROVE  /\ obj' \in [Objects -> Members \cup {Gone}]
         /\ \A p \in Objects : Alive(p)' => Sound(obj'[p])
         /\ obj'[o] = r /\ (r # Gone => Alive(o)')
         /\ \A p \in Objects \ {o} : obj'[p] = obj[p] /\ (Alive(p)' <=> Alive(p))
BY Types DEF Sound, Alive

LEMMA MovesTyped ==
  ASSUME HandlesTypeOK, NEW o \in Objects, NEW q \in Objects, Moves(o, q)
  PROVE  /\ obj' \in [Objects -> Members \cup {Gone}]
         /\ \A p \in Objects : Alive(p)' => Sound(obj'[p])
         /\ obj'[o] = obj[q] /\ obj'[q] = MovedFrom(obj[q]) /\ Alive(o)' /\ Alive(q)'
         /\ \A p \in Objects \ {o, q} : obj'[p] = obj[p] /\ (Alive(p)' <=> Alive(p))
<1>1. Sound(obj[q]) /\ Sound(MovedFrom(obj[q])) /\ o # q /\ Alive(q)
  BY Types, MovedFromSound DEF Moves
<1>2. MovedFrom(obj[q]) # Gone
  BY <1>1, HandlesAssumption DEF Sound
<1>3. obj' = [obj EXCEPT ![o] = obj[q], ![q] = MovedFrom(obj[q])]
  BY DEF Moves
<1> DEFINE m == MovedFrom(obj[q])
<1> HIDE DEF m
<1>4. /\ obj \in [Objects -> Members \cup {Gone}] /\ obj' = [obj EXCEPT ![o] = obj[q], ![q] = m]
      /\ m \in Members /\ m # Gone /\ o # q
      /\ obj[q] \in Members /\ obj[q] # Gone
  BY <1>1, <1>2, <1>3, Types DEF m, Sound, Alive
<1>5. obj' \in [Objects -> Members \cup {Gone}]
  BY <1>4
<1>6. obj'[o] = obj[q] /\ obj'[q] = m /\ \A p \in Objects \ {o, q} : obj'[p] = obj[p]
  BY <1>4
<1>. QED
  BY <1>1, <1>2, <1>4, <1>5, <1>6, Types DEF Alive, m

LEMMA OpenSound ==
  ASSUME HandlesTypeOK, NEW o \in Objects, NEW f \in Names, Open(o, f)
  PROVE  /\ Alive(o) /\ obj[o].fd = -1 /\ UNCHANGED <<refused, dropped>>
         /\ \E d, r :
              /\ d \in Descriptors
              /\ table[d] = Nobody /\ table' = [table EXCEPT ![d] = f]
              /\ Sound(r) /\ r.fd = d /\ r.mine = f
              /\ r.count = obj[o].count /\ r.buffer = obj[o].buffer /\ r.dirty = obj[o].dirty
              /\ obj' = [obj EXCEPT ![o] = r]
<1>1. Alive(o) /\ obj[o].fd = -1 /\ UNCHANGED <<refused, dropped>> /\ Sound(obj[o])
  BY Types DEF Open, Unchanged
<1>2. PICK d \in Descriptors :
        /\ table[d] = Nobody /\ table' = [table EXCEPT ![d] = f]
        /\ obj' = [obj EXCEPT ![o] = [obj[o] EXCEPT !.fd = d, !.mine = f]]
  BY DEF Open
<1> DEFINE r == [obj[o] EXCEPT !.fd = d, !.mine = f]
<1>3. /\ Sound(r) /\ r.fd = d /\ r.mine = f
      /\ r.count = obj[o].count /\ r.buffer = obj[o].buffer /\ r.dirty = obj[o].dirty
  BY <1>1 DEF Sound, Members
<1>4. obj' = [obj EXCEPT ![o] = r]
  BY <1>2
<1> HIDE DEF r
<1>. QED
  BY <1>1, <1>2, <1>3, <1>4

LEMMA AssignSound ==
  ASSUME HandlesTypeOK, NEW o \in Objects, NEW d \in Descriptors \cup {-1}, AssignStd(o, d)
  PROVE  /\ Alive(o) /\ obj[o].count = 0 /\ table' = table
         /\ refused' = (refused \/ ~is_std_handle(o, d))
         /\ dropped' = IF obj[o].fd \in {-1, d} THEN dropped ELSE dropped \cup ({obj[o].fd} \ Std)
         /\ \E r : /\ Sound(r) /\ r.fd = d /\ r.mine = Terminal
                   /\ r.count = 0 /\ r.buffer = obj[o].buffer
                   /\ obj' = [obj EXCEPT ![o] = r]
<1>1. Alive(o) /\ Sound(obj[o]) /\ obj[o].count = 0
  BY Types, HandlesAssumption DEF AssignStd
<1> DEFINE r == [obj[o] EXCEPT !.fd = d, !.mine = Terminal]
<1>2. /\ Sound(r) /\ r.fd = d /\ r.mine = Terminal
      /\ r.count = 0 /\ r.buffer = obj[o].buffer
  BY <1>1 DEF Sound, Members
<1>3. obj' = [obj EXCEPT ![o] = r]
  BY DEF AssignStd
<1> HIDE DEF r
<1>. QED
  BY <1>1, <1>2, <1>3 DEF AssignStd

LEMMA TableClosedTyped ==
  ASSUME HandlesTypeOK, NEW o \in Objects, Alive(o)
  PROVE  /\ TableClosed(o, obj[o]) \in [Descriptors -> Names \cup {Terminal, Nobody}]
         /\ \A d \in Descriptors :
              IF d = obj[o].fd /\ ~is_std_handle(o, d) THEN TableClosed(o, obj[o])[d] = Nobody
              ELSE TableClosed(o, obj[o])[d] = table[d]
<1>1. Sound(obj[o]) /\ table \in [Descriptors -> Names \cup {Terminal, Nobody}]
  BY Types
<1>2. obj[o].fd \in Descriptors \cup {-1} /\ -1 \notin Descriptors
  BY <1>1 DEF Sound, Members, Descriptors
<1>. QED
  BY <1>1, <1>2 DEF TableClosed

LEMMA WroteTyped ==
  ASSUME HandlesTypeOK, NEW r
  PROVE  Wrote(r) \subseteq Names
BY Types DEF Wrote

LEMMA HistoryTyped ==
  ASSUME HandlesTypeOK, [Next]_vars
  PROVE  /\ astray' \subseteq Names
         /\ end' \in [how : {"running", "terminated", "crashed"}, was : Members]
<1>1. CASE UNCHANGED vars
  BY <1>1, Types DEF vars
<1>2. CASE Next
  <2>1. PICK o \in Objects : (~refused /\ Call(o)) \/ CloseOut(o) \/ CloseIn(o) \/ Destroy(o)
    BY <1>2 DEF Next
  <2>2. \/ UNCHANGED <<astray, end>>
        \/ (\E r : astray' = Wrote(r)) /\ UNCHANGED end
        \/ \E how \in {"terminated", "crashed"} : Alive(o) /\ Ends(how, obj[o])
    <3>1. CASE CloseOut(o) \/ CloseIn(o) \/ Destroy(o)
      BY <3>1 DEF CloseOut, CloseIn, Destroy, Unchanged
    <3>2. CASE Construct(o) \/ (\E f \in Names : Open(o, f)) \/ (\E d \in Descriptors \cup {-1} : AssignStd(o, d))
      BY <3>2 DEF Construct, Open, AssignStd, Unchanged
    <3>3. CASE \E q \in Objects : MoveConstruct(o, q) \/ MoveAssign(o, q)
      BY <3>3 DEF MoveConstruct, MoveAssign, Unchanged, vars
    <3>4. CASE WriteByte(o) \/ ReadByte(o)
      BY <3>4 DEF WriteByte, ReadByte, Unchanged
    <3>. QED
      BY <2>1, <3>1, <3>2, <3>3, <3>4 DEF Call
  <2>3. CASE \E how \in {"terminated", "crashed"} : Alive(o) /\ Ends(how, obj[o])
    <3>1. obj[o] \in Members
      BY <2>3, Types DEF Sound
    <3>. QED
      BY <2>3, <3>1, Types DEF Ends
  <2>. QED
    BY <2>2, <2>3, WroteTyped, Types
<1>. QED
  BY <1>1, <1>2

LEMMA InitTyped == Init => HandlesTypeOK
<1> SUFFICES ASSUME Init PROVE HandlesTypeOK
  OBVIOUS
<1>1. table \in [Descriptors -> Names \cup {Terminal, Nobody}]
  BY DEF Init
<1>2. obj = [o \in Objects |-> Gone]
  BY DEF Init
<1>3. end \in [how : {"running", "terminated", "crashed"}, was : Members]
  BY DefaultSound DEF Init, Running, Sound
<1>. QED
  BY <1>1, <1>2, <1>3, Types DEF Init, Alive

LEMMA NextTyped == HandlesTypeOK /\ [Next]_vars => HandlesTypeOK'
<1> SUFFICES ASSUME HandlesTypeOK, [Next]_vars PROVE HandlesTypeOK'
  OBVIOUS
<1> DEFINE Typed ==
      /\ table' \in [Descriptors -> Names \cup {Terminal, Nobody}]
      /\ obj' \in [Objects -> Members \cup {Gone}]
      /\ \A o \in Objects : Alive(o)' => Sound(obj'[o])
      /\ refused' \in BOOLEAN /\ dropped' \subseteq Descriptors \ Std
<1>1. ASSUME Rests PROVE Typed
  <2>1. /\ table' \in [Descriptors -> Names \cup {Terminal, Nobody}]
        /\ obj' \in [Objects -> Members \cup {Gone}] /\ dropped' \subseteq Descriptors \ Std
    BY <1>1, Types DEF Rests
  <2>2. \A o \in Objects : Alive(o)' => Sound(obj'[o])
    BY <1>1, Types DEF Rests, Alive
  <2>3. refused' \in BOOLEAN
    BY <1>1, Types, Zenon DEF Rests
  <2>. QED
    BY <2>1, <2>2, <2>3
<1>2. ASSUME NEW o \in Objects, Construct(o) PROVE Typed
  BY <1>2, Types, ObjTyped, DefaultSound DEF Construct, Unchanged
<1>3. ASSUME NEW o \in Objects, NEW f \in Names, Open(o, f) PROVE Typed
  <2>1. /\ \E r : Sound(r) /\ obj' = [obj EXCEPT ![o] = r]
        /\ \E d \in Descriptors : table' = [table EXCEPT ![d] = f]
        /\ UNCHANGED <<refused, dropped>>
    BY <1>3, OpenSound
  <2>2. table' \in [Descriptors -> Names \cup {Terminal, Nobody}]
    BY <2>1, Types
  <2>3. refused' \in BOOLEAN /\ dropped' \subseteq Descriptors \ Std
    BY <2>1, Types, Zenon
  <2>. QED
    BY <2>1, <2>2, <2>3, ObjTyped, Zenon
<1>4. ASSUME NEW o \in Objects, NEW d \in Descriptors \cup {-1}, AssignStd(o, d) PROVE Typed
  <2>1. /\ \E r : Sound(r) /\ obj' = [obj EXCEPT ![o] = r]
        /\ refused' = (refused \/ ~is_std_handle(o, d))
        /\ dropped' \in {dropped, dropped \cup ({obj[o].fd} \ Std)}
        /\ obj[o].fd = -1 => dropped' = dropped
        /\ table' = table /\ Alive(o)
    BY <1>4, AssignSound
  <2>2. obj[o].fd \in Descriptors \cup {-1}
    BY <2>1, Types DEF Sound, Members
  <2>3. dropped' \subseteq Descriptors \ Std
    BY <2>1, <2>2, Types
  <2>4. refused' \in BOOLEAN
    BY <2>1, Types DEF is_std_handle
  <2>5. table' \in [Descriptors -> Names \cup {Terminal, Nobody}]
    BY <2>1, Types
  <2>. QED
    BY <2>1, <2>3, <2>4, <2>5, ObjTyped, Zenon
<1>5. ASSUME NEW o \in Objects, Uses(o) PROVE Typed
  BY <1>5, Types, ObjTyped DEF Uses
<1>6. ASSUME NEW o \in Objects, Closes(o) PROVE Typed
  BY <1>6, Types, ObjTyped, TableClosedTyped DEF Closes
<1>7. ASSUME NEW o \in Objects, NEW q \in Objects, Moves(o, q) PROVE Typed
  <2>1. table' \in [Descriptors -> Names \cup {Terminal, Nobody}]
    BY <1>7, Types, TableClosedTyped DEF Moves
  <2>. QED
    BY <1>7, <2>1, Types, MovesTyped DEF Moves
<1>8. Typed
  <2> HIDE DEF Typed
  <2>. QED
    BY <1>1, <1>2, <1>3, <1>4, <1>5, <1>6, <1>7, Kinds
<1>9. /\ astray' \subseteq Names
      /\ end' \in [how : {"running", "terminated", "crashed"}, was : Members]
  BY HistoryTyped
<1>. QED
  BY <1>8, <1>9 DEF HandlesTypeOK, Sound, Alive

(* No object ever holds more bytes than its buffer, however often it is    *)
(* moved (OFile.hpp:66-72, IFile.hpp:50-71).                               *)
THEOREM TypeCorrect == Spec => []HandlesTypeOK
BY InitTyped, NextTyped, PTL DEF Spec

-----------------------------------------------------------------------------
(* The handles.                                                            *)

(* A handle of an object that is not touched, over a table that has        *)
(* changed elsewhere.                                                      *)
LEMMA HandleKept ==
  ASSUME NEW p, NEW r, HandleOK(p, r), r.mine \in Names => table'[r.fd] = table[r.fd]
  PROVE  HandleOK(p, r)'
BY DEF HandleOK, is_std_handle

LEMMA NoHandle ==
  ASSUME NEW p, NEW r, r.fd = -1, r.mine = Nobody
  PROVE  HandleOK(p, r)' /\ r.mine \notin Names
BY HandlesAssumption DEF HandleOK

LEMMA OpenedFd ==
  ASSUME HandlesTypeOK, HandlesOK, ~refused, NEW p \in Objects, Opened(p)
  PROVE  /\ obj[p].fd \in Descriptors /\ table[obj[p].fd] = obj[p].mine
         /\ obj[p].mine \in Names /\ obj[p].mine # Nobody
BY Types, HandlesAssumption DEF HandlesOK, HandleOK, Opened, Sound, Members

LEMMA UsesHandles ==
  ASSUME HandlesTypeOK, HandlesOK, NEW o \in Objects, Uses(o)
  PROVE  HandlesOK'
<1> SUFFICES ASSUME ~refused'
             PROVE  /\ \A p \in Objects : Alive(p)' => HandleOK(p, obj[p])'
                    /\ \A p, q \in Objects : Opened(p)' /\ Opened(q)' /\ p # q
                                               => obj'[p].fd # obj'[q].fd
  BY DEF HandlesOK
<1>1. /\ ~refused /\ table' = table /\ Alive(o)
      /\ \A p \in Objects : Alive(p)' => Alive(p) /\ obj'[p].fd = obj[p].fd /\ obj'[p].mine = obj[p].mine
  <2>1. PICK r : /\ Sound(r) /\ r.fd = obj[o].fd /\ r.mine = obj[o].mine
                 /\ obj' = [obj EXCEPT ![o] = r]
    BY DEF Uses
  <2>. QED
    BY <2>1, ObjTyped DEF Uses
<1>2. \A p \in Objects : Alive(p)' => HandleOK(p, obj[p])'
  BY <1>1 DEF HandlesOK, HandleOK, is_std_handle
<1>3. \A p \in Objects : Opened(p)' => Opened(p)
  BY <1>1 DEF Opened
<1>. QED
  BY <1>1, <1>2, <1>3 DEF HandlesOK, Opened

LEMMA ConstructHandles ==
  ASSUME HandlesTypeOK, HandlesOK, NEW o \in Objects, Construct(o)
  PROVE  HandlesOK'
<1> SUFFICES ASSUME ~refused'
             PROVE  /\ \A p \in Objects : Alive(p)' => HandleOK(p, obj[p])'
                    /\ \A p, q \in Objects : Opened(p)' /\ Opened(q)' /\ p # q
                                               => obj'[p].fd # obj'[q].fd
  BY DEF HandlesOK
<1>1. /\ ~refused /\ table' = table /\ obj'[o] = Default
      /\ \A p \in Objects \ {o} : obj'[p] = obj[p] /\ (Alive(p)' <=> Alive(p))
  BY ObjTyped, DefaultSound DEF Construct, Unchanged
<1>2. HandleOK(o, obj[o])' /\ ~Opened(o)'
  BY <1>1, DefaultSound, HandlesAssumption DEF HandleOK, Opened
<1>3. \A p \in Objects \ {o} : Alive(p)' => HandleOK(p, obj[p])'
  BY <1>1 DEF HandlesOK, HandleOK, is_std_handle
<1>4. \A p \in Objects : Opened(p)' => p # o /\ Opened(p) /\ obj'[p] = obj[p]
  BY <1>1, <1>2 DEF Opened
<1>5. \A p, q \in Objects : Opened(p)' /\ Opened(q)' /\ p # q => obj'[p].fd # obj'[q].fd
  BY <1>1, <1>4 DEF HandlesOK
<1>. QED
  BY <1>2, <1>3, <1>5

LEMMA OpenHandles ==
  ASSUME HandlesTypeOK, HandlesOK, NEW o \in Objects, NEW f \in Names, Open(o, f)
  PROVE  HandlesOK'
<1> SUFFICES ASSUME ~refused'
             PROVE  /\ \A p \in Objects : Alive(p)' => HandleOK(p, obj[p])'
                    /\ \A p, q \in Objects : Opened(p)' /\ Opened(q)' /\ p # q
                                               => obj'[p].fd # obj'[q].fd
  BY DEF HandlesOK
<1>1. PICK d, r :
        /\ d \in Descriptors
        /\ table[d] = Nobody /\ table' = [table EXCEPT ![d] = f]
        /\ Sound(r) /\ r.fd = d /\ r.mine = f
        /\ r.count = obj[o].count /\ r.buffer = obj[o].buffer
        /\ obj' = [obj EXCEPT ![o] = r]
  BY OpenSound
<1>2. /\ ~refused /\ obj'[o].fd = d /\ obj'[o].mine = f
      /\ \A p \in Objects \ {o} : obj'[p] = obj[p] /\ (Alive(p)' <=> Alive(p))
  BY <1>1, OpenSound, ObjTyped
<1>3. table'[d] = f /\ \A e \in Descriptors \ {d} : table'[e] = table[e]
  BY <1>1, Types
<1>4. \A p \in Objects : Opened(p) => obj[p].fd \in Descriptors \ {d}
  BY <1>1, <1>2, OpenedFd
<1>5. \A p \in Objects \ {o} : Opened(p)' => Opened(p) /\ obj'[p].fd # d
  BY <1>2, <1>4 DEF Opened
<1>6. HandleOK(o, obj[o])'
  BY <1>1, <1>2, <1>3, HandlesAssumption DEF HandleOK, Descriptors
<1>7. \A p \in Objects \ {o} : Alive(p)' => HandleOK(p, obj[p])'
  BY <1>2, <1>3, <1>4 DEF HandlesOK, HandleOK, Opened, is_std_handle
<1>8. \A p, q \in Objects : Opened(p)' /\ Opened(q)' /\ p # q => obj'[p].fd # obj'[q].fd
  BY <1>2, <1>5 DEF HandlesOK
<1>. QED
  BY <1>6, <1>7, <1>8

LEMMA AssignHandles ==
  ASSUME HandlesTypeOK, HandlesOK, NEW o \in Objects, NEW d \in Descriptors \cup {-1}, ~refused, AssignStd(o, d)
  PROVE  HandlesOK'
<1> SUFFICES ASSUME ~refused'
             PROVE  /\ \A p \in Objects : Alive(p)' => HandleOK(p, obj[p])'
                    /\ \A p, q \in Objects : Opened(p)' /\ Opened(q)' /\ p # q
                                               => obj'[p].fd # obj'[q].fd
  BY DEF HandlesOK
<1>1. /\ table' = table /\ is_std_handle(o, d)
      /\ obj'[o].fd = d /\ obj'[o].mine = Terminal
      /\ \A p \in Objects \ {o} : obj'[p] = obj[p] /\ (Alive(p)' <=> Alive(p))
  <2>1. PICK r : /\ Sound(r) /\ r.fd = d /\ r.mine = Terminal
                 /\ r.count = 0 /\ r.buffer = obj[o].buffer
                 /\ obj' = [obj EXCEPT ![o] = r]
    BY AssignSound
  <2>2. table' = table /\ is_std_handle(o, d)
    BY AssignSound DEF is_std_handle
  <2>. QED
    BY <2>1, <2>2, ObjTyped
<1>2. HandleOK(o, obj[o])' /\ ~Opened(o)'
  BY <1>1, HandlesAssumption DEF HandleOK, Opened, Std, is_std_handle
<1>3. \A p \in Objects \ {o} : Alive(p)' => HandleOK(p, obj[p])'
  BY <1>1 DEF HandlesOK, HandleOK, is_std_handle
<1>4. \A p \in Objects : Opened(p)' => p # o /\ Opened(p) /\ obj'[p] = obj[p]
  BY <1>1, <1>2 DEF Opened
<1>5. \A p, q \in Objects : Opened(p)' /\ Opened(q)' /\ p # q => obj'[p].fd # obj'[q].fd
  BY <1>4 DEF HandlesOK
<1>. QED
  BY <1>2, <1>3, <1>5

(* close() takes nothing from another object: a descriptor that two        *)
(* objects have is a standard one, and stays.                              *)
LEMMA CloseSpares ==
  ASSUME HandlesTypeOK, HandlesOK, ~refused, NEW o \in Objects, Alive(o),
         NEW p \in Objects \ {o}, Opened(p)
  PROVE  TableClosed(o, obj[o])[obj[p].fd] = table[obj[p].fd]
<1>1. obj[p].fd \in Descriptors
  BY OpenedFd
<1>2. CASE obj[o].fd # obj[p].fd \/ is_std_handle(o, obj[p].fd)
  BY <1>1, <1>2, TableClosedTyped
<1>3. CASE obj[o].fd = obj[p].fd /\ ~is_std_handle(o, obj[p].fd)
  <2>1. ~Opened(o)
    BY <1>3 DEF HandlesOK
  <2>2. obj[o].mine \in {Terminal, Nobody}
    BY <2>1, Types DEF Opened, Sound, Members
  <2>3. obj[o].fd = -1
    BY <1>3, <2>2 DEF HandlesOK, HandleOK
  <2>. QED
    BY <1>1, <1>3, <2>3 DEF Descriptors
<1>. QED
  BY <1>2, <1>3

LEMMA ClosesHandles ==
  ASSUME HandlesTypeOK, HandlesOK, NEW o \in Objects, Closes(o)
  PROVE  HandlesOK'
<1> SUFFICES ASSUME ~refused'
             PROVE  /\ \A p \in Objects : Alive(p)' => HandleOK(p, obj[p])'
                    /\ \A p, q \in Objects : Opened(p)' /\ Opened(q)' /\ p # q
                                               => obj'[p].fd # obj'[q].fd
  BY DEF HandlesOK
<1>1. PICK r : /\ r = Gone \/ (Sound(r) /\ r.fd = -1 /\ r.mine = Nobody)
               /\ obj' = [obj EXCEPT ![o] = r]
  BY DEF Closes
<1>2. /\ ~refused /\ Alive(o) /\ table' = TableClosed(o, obj[o])
      /\ obj'[o] = r /\ \A p \in Objects \ {o} : obj'[p] = obj[p] /\ (Alive(p)' <=> Alive(p))
  BY <1>1, ObjTyped DEF Closes
<1>3. Alive(o)' => HandleOK(o, obj[o])' /\ ~Opened(o)'
  BY <1>1, <1>2, NoHandle DEF Alive, Opened
<1>4. \A p \in Objects : Opened(p)' => p # o /\ Opened(p) /\ obj'[p] = obj[p]
  BY <1>2, <1>3 DEF Opened
<1>5. ASSUME NEW p \in Objects \ {o}, Alive(p)' PROVE HandleOK(p, obj[p])'
  <2>1. Alive(p) /\ HandleOK(p, obj[p]) /\ obj'[p] = obj[p]
    BY <1>2, <1>5 DEF HandlesOK
  <2>2. obj[p].mine \in Names => table'[obj[p].fd] = table[obj[p].fd]
    BY <1>2, <2>1, CloseSpares DEF Opened
  <2>. QED
    BY <2>1, <2>2, HandleKept DEF HandleOK, is_std_handle
<1>6. \A p, q \in Objects : Opened(p)' /\ Opened(q)' /\ p # q => obj'[p].fd # obj'[q].fd
  BY <1>2, <1>4 DEF HandlesOK
<1>. QED
  BY <1>3, <1>5, <1>6

LEMMA MovesHandles ==
  ASSUME HandlesTypeOK, HandlesOK, NEW o \in Objects, NEW q \in Objects, Moves(o, q)
  PROVE  HandlesOK'
<1> SUFFICES ASSUME ~refused'
             PROVE  /\ \A p \in Objects : Alive(p)' => HandleOK(p, obj[p])'
                    /\ \A p1, p2 \in Objects : Opened(p1)' /\ Opened(p2)' /\ p1 # p2
                                               => obj'[p1].fd # obj'[p2].fd
  BY DEF HandlesOK
<1>1. /\ ~refused /\ o # q /\ SameClass(o, q) /\ Alive(q)
      /\ table' = IF Alive(o) THEN TableClosed(o, obj[o]) ELSE table
  BY DEF Moves
<1>2. /\ obj'[o] = obj[q] /\ obj'[q].fd = -1 /\ obj'[q].mine = Nobody
      /\ \A p \in Objects \ {o, q} : obj'[p] = obj[p] /\ (Alive(p)' <=> Alive(p))
  BY <1>1, MovesTyped, MovedFromSound, Types
<1>3. \A p \in Objects \ {o} : Opened(p) => table'[obj[p].fd] = table[obj[p].fd]
  BY <1>1, CloseSpares
<1>4. HandleOK(q, obj[q])' /\ ~Opened(q)'
  BY <1>2, HandlesAssumption DEF HandleOK, Opened
<1>5. HandleOK(o, obj[o])' /\ (Opened(o)' => Opened(q))
  <2>1. HandleOK(q, obj[q])
    BY <1>1 DEF HandlesOK
  <2>2. obj[q].mine \in Names => table'[obj[q].fd] = table[obj[q].fd]
    BY <1>1, <1>3 DEF Opened
  <2>3. is_std_handle(o, obj[q].fd) <=> is_std_handle(q, obj[q].fd)
    BY <1>1, HandlesAssumption DEF is_std_handle, SameClass
  <2>. QED
    BY <1>1, <1>2, <2>1, <2>2, <2>3 DEF HandleOK, Opened, is_std_handle
<1>6. ASSUME NEW p \in Objects \ {o, q}, Alive(p)' PROVE HandleOK(p, obj[p])'
  <2>1. Alive(p) /\ HandleOK(p, obj[p]) /\ obj'[p] = obj[p]
    BY <1>1, <1>2, <1>6 DEF HandlesOK
  <2>2. obj[p].mine \in Names => table'[obj[p].fd] = table[obj[p].fd]
    BY <1>3, <2>1 DEF Opened
  <2>. QED
    BY <2>1, <2>2 DEF HandleOK, is_std_handle
<1>7. \A p \in Objects \ {o, q} : Opened(p)' => Opened(p)
  BY <1>2 DEF Opened
<1>8. ASSUME NEW p1 \in Objects, NEW p2 \in Objects, Opened(p1)', Opened(p2)', p1 # p2
      PROVE  obj'[p1].fd # obj'[p2].fd
  <2> DEFINE back(p) == IF p = o THEN q ELSE p
  <2>1. p1 # q /\ p2 # q
    BY <1>4, <1>8
  <2>2. Opened(back(p1)) /\ Opened(back(p2)) /\ back(p1) # back(p2)
    BY <1>5, <1>7, <1>8, <2>1
  <2>3. obj'[p1] = obj[back(p1)] /\ obj'[p2] = obj[back(p2)]
    BY <1>2, <2>1
  <2>. QED
    BY <1>1, <2>2, <2>3 DEF HandlesOK
<1>. QED
  BY <1>4, <1>5, <1>6, <1>8

LEMMA InitHandles == Init => HandlesOK
BY DEF Init, HandlesOK, Alive, Opened

LEMMA NextHandles == HandlesTypeOK /\ HandlesOK /\ [Next]_vars => HandlesOK'
<1> SUFFICES ASSUME HandlesTypeOK, HandlesOK, [Next]_vars PROVE HandlesOK'
  OBVIOUS
<1>1. CASE Rests
  BY <1>1 DEF Rests, HandlesOK, HandleOK, Opened, Alive, is_std_handle
<1>. QED
  BY <1>1, Kinds, UsesHandles, ConstructHandles, OpenHandles, AssignHandles, ClosesHandles, MovesHandles

LEMMA HandlesInvariance == Spec => []HandlesOK
BY InitTyped, NextTyped, InitHandles, NextHandles, PTL DEF Spec

(* Two objects never own one descriptor, through all constructions, moves, *)
(* assignments, self-assignments and destructions of any number of objects *)
(* (UniqueHandle.hpp:13, 21-27, FileHandle.hpp:290-311).                   *)
THEOREM EachHasItsOwn == Spec => []OneOwner
<1>1. HandlesOK => OneOwner
  BY DEF HandlesOK, OneOwner
<1>. QED
  BY <1>1, HandlesInvariance, PTL

(* What an object was opened on is what its descriptor refers to, though   *)
(* the kernel gives the same numbers again (FileHandle.hpp:226-236).       *)
THEOREM OnItsOwnFile == Spec => []HandlesAreTheirOwn
<1>1. HandlesOK => HandlesAreTheirOwn
  BY DEF HandlesOK, HandleOK, Opened, HandlesAreTheirOwn
<1>. QED
  BY <1>1, HandlesInvariance, PTL

-----------------------------------------------------------------------------
(* Leaks: NothingLeaks is inductive.                                       *)

Kept(d) == (\E p \in Objects : Holds(p, d)) \/ d \in Std \cup dropped

LEMMA NextLeaks == HandlesTypeOK /\ NothingLeaks /\ [Next]_vars => NothingLeaks'
<1> SUFFICES ASSUME HandlesTypeOK, NothingLeaks, [Next]_vars,
                    NEW d \in Descriptors, table'[d] \in Names
             PROVE  Kept(d)'
  BY DEF NothingLeaks, Kept, Descriptors
<1>0. /\ table[d] \in Names => Kept(d)
      /\ \A p \in Objects : Holds(p, d) => Alive(p) /\ obj[p].fd = d
      /\ d # -1 /\ Nobody \notin Names /\ Std' = Std
  BY HandlesAssumption DEF NothingLeaks, Kept, Holds, Descriptors, Std
<1>1. CASE Rests
  BY <1>0, <1>1 DEF Rests, Kept, Holds, Alive
<1>2. ASSUME NEW o \in Objects, Construct(o) PROVE Kept(d)'
  <2>1. /\ table' = table /\ dropped' = dropped /\ ~Alive(o)
        /\ \A p \in Objects \ {o} : obj'[p] = obj[p] /\ (Alive(p)' <=> Alive(p))
    BY <1>2, ObjTyped, DefaultSound DEF Construct, Unchanged
  <2>. QED
    BY <1>0, <2>1 DEF Kept, Holds
<1>3. ASSUME NEW o \in Objects, NEW f \in Names, Open(o, f) PROVE Kept(d)'
  <2>1. PICK e, r :
          /\ e \in Descriptors
          /\ table[e] = Nobody /\ table' = [table EXCEPT ![e] = f]
          /\ Sound(r) /\ r.fd = e /\ r.mine = f
          /\ r.count = obj[o].count /\ r.buffer = obj[o].buffer
          /\ obj' = [obj EXCEPT ![o] = r]
    BY <1>3, OpenSound
  <2>2. /\ r # Gone /\ dropped' = dropped /\ obj[o].fd = -1
    BY <1>3, <2>1, OpenSound, HandlesAssumption DEF Sound
  <2>3. /\ Alive(o)' /\ obj'[o] = r
        /\ \A p \in Objects \ {o} : obj'[p] = obj[p] /\ (Alive(p)' <=> Alive(p))
    BY <2>1, <2>2, ObjTyped
  <2>4. CASE d = e
    BY <2>1, <2>3, <2>4 DEF Kept, Holds
  <2>5. CASE d # e
    <3>1. table'[d] = table[d]
      BY <2>1, <2>5, Types
    <3>. QED
      BY <1>0, <2>2, <2>3, <3>1 DEF Kept, Holds
  <2>. QED
    BY <2>4, <2>5
<1>4. ASSUME NEW o \in Objects, NEW e \in Descriptors \cup {-1}, AssignStd(o, e) PROVE Kept(d)'
  <2>1. PICK r : /\ Sound(r) /\ r.fd = e /\ r.mine = Terminal
                 /\ r.count = 0 /\ r.buffer = obj[o].buffer
                 /\ obj' = [obj EXCEPT ![o] = r]
    BY <1>4, AssignSound
  <2>2. /\ r # Gone /\ table' = table
        /\ dropped' = IF obj[o].fd \in {-1, e} THEN dropped ELSE dropped \cup ({obj[o].fd} \ Std)
    BY <1>4, <2>1, AssignSound, HandlesAssumption DEF Sound
  <2>3. \A p \in Objects \ {o} : obj'[p] = obj[p] /\ (Alive(p)' <=> Alive(p))
    BY <2>1, <2>2, ObjTyped
  <2>4. CASE obj[o].fd = d /\ e = d
    BY <2>1, <2>2, <2>4, ObjTyped DEF Kept, Holds
  <2>5. CASE obj[o].fd = d /\ e # d
    BY <1>0, <2>2, <2>5 DEF Kept
  <2>6. CASE obj[o].fd # d
    BY <1>0, <2>2, <2>3, <2>6 DEF Kept, Holds
  <2>. QED
    BY <2>4, <2>5, <2>6
<1>5. ASSUME NEW o \in Objects, Uses(o) PROVE Kept(d)'
  <2>1. PICK r : /\ Sound(r) /\ r.fd = obj[o].fd /\ r.mine = obj[o].mine
                 /\ obj' = [obj EXCEPT ![o] = r]
    BY <1>5 DEF Uses
  <2>2. r # Gone /\ table' = table /\ dropped' = dropped
    BY <1>5, <2>1, HandlesAssumption DEF Uses, Sound
  <2>3. /\ Alive(o)' /\ obj'[o].fd = obj[o].fd
        /\ \A p \in Objects \ {o} : obj'[p] = obj[p] /\ (Alive(p)' <=> Alive(p))
    BY <2>1, <2>2, ObjTyped
  <2>. QED
    BY <1>0, <2>2, <2>3 DEF Kept, Holds
<1>6. ASSUME NEW o \in Objects, Closes(o) PROVE Kept(d)'
  <2>1. PICK r : /\ r = Gone \/ (Sound(r) /\ r.fd = -1 /\ r.mine = Nobody)
                 /\ obj' = [obj EXCEPT ![o] = r]
    BY <1>6 DEF Closes
  <2>2. /\ Alive(o) /\ table' = TableClosed(o, obj[o]) /\ dropped' = dropped
        /\ \A p \in Objects \ {o} : obj'[p] = obj[p] /\ (Alive(p)' <=> Alive(p))
    BY <1>6, <2>1, ObjTyped DEF Closes
  <2>3. table'[d] = table[d] /\ (obj[o].fd = d => is_std_handle(o, d))
    BY <1>0, <2>2, TableClosedTyped
  <2>. QED
    BY <1>0, <2>2, <2>3 DEF Kept, Holds, is_std_handle, Std
<1>7. ASSUME NEW o \in Objects, NEW q \in Objects, Moves(o, q) PROVE Kept(d)'
  <2>1. /\ obj'[o] = obj[q] /\ Alive(o)' /\ dropped' = dropped
        /\ table' = IF Alive(o) THEN TableClosed(o, obj[o]) ELSE table
        /\ \A p \in Objects \ {o, q} : obj'[p] = obj[p] /\ (Alive(p)' <=> Alive(p))
    BY <1>7, MovesTyped DEF Moves
  <2>2. table'[d] = table[d] /\ (Alive(o) /\ obj[o].fd = d => is_std_handle(o, d))
    BY <1>0, <2>1, TableClosedTyped
  <2>. QED
    BY <1>0, <2>1, <2>2 DEF Kept, Holds, is_std_handle, Std
<1>. QED
  BY <1>1, <1>2, <1>3, <1>4, <1>5, <1>6, <1>7, Kinds

(* A descriptor that open() has got is closed once no object has it,       *)
(* whatever is moved, assigned and destroyed, except a number that close() *)
(* takes for a standard one and one that assign_std_handle() has           *)
(* overwritten (FileHandle.hpp:211, 290-298, 311).                         *)
THEOREM ClosedInTheEnd == Spec => []NothingLeaks
<1>1. Init => NothingLeaks
  BY HandlesAssumption DEF Init, NothingLeaks
<1>. QED
  BY <1>1, InitTyped, NextTyped, NextLeaks, PTL DEF Spec

-----------------------------------------------------------------------------
(***************************************************************************)
(* The bytes that an object holds: they stay with the handle that they     *)
(* were read from or are written to, and the program ends only over those  *)
(* that lost it.                                                           *)
(***************************************************************************)

(* What they say about its bytes: those of an OFile were given for what it *)
(* is open on, or while it was closed; those of an IFile were read from    *)
(* what it is open on, and a closed one has none.                          *)
BytesOK(o, r) ==
  r.buffer # NoBuffer =>
    /\ o \in Outs => ToSet(r.buffer) \cap Names \subseteq {r.mine}
    /\ o \in Ins /\ r.mine # Terminal => ToSet(r.buffer) \subseteq {r.mine} \ {Nobody}

AllBytesOK == ~refused => astray = {} /\ \A o \in Objects : Alive(o) => BytesOK(o, obj[o])

(* Bytes that have nowhere to go were moved from or given to a closed      *)
(* object.                                                                 *)
Excused(o, r) ==
  r.count > 0 =>
    /\ o \in Outs /\ r.fd = -1 =>
         r.dirty \/ (r.buffer # NoBuffer /\ Nobody \in ToSet(r.buffer))
    /\ o \in Ins /\ r.buffer = NoBuffer => r.dirty

AllExcused == EndsForAReason /\ \A o \in Objects : Alive(o) => Excused(o, obj[o])

-----------------------------------------------------------------------------
(* One object.                                                             *)

LEMMA EmptyHasNoBytes ==
  ASSUME NEW r, Sound(r), r.count = 0, r.buffer # NoBuffer
  PROVE  ToSet(r.buffer) = {}
BY DEF Sound, Members, ToSet

LEMMA EmptyIsFine ==
  ASSUME NEW o, NEW r, Sound(r), r.count = 0
  PROVE  BytesOK(o, r) /\ Excused(o, r)
BY EmptyHasNoBytes DEF BytesOK, Excused

LEMMA MovedIsFine ==
  ASSUME NEW o \in Objects, NEW q \in Objects, SameClass(o, q), NEW r, Sound(r)
  PROVE  /\ BytesOK(q, r) => BytesOK(o, r)
         /\ Excused(q, r) => Excused(o, r)
         /\ BytesOK(q, MovedFrom(r)) /\ Excused(q, MovedFrom(r))
<1>1. (o \in Ins <=> q \in Ins) /\ (o \in Outs <=> q \in Outs)
  BY HandlesAssumption DEF SameClass
<1> DEFINE m == MovedFrom(r)
<1>2. m.count = r.count /\ m.buffer = NoBuffer /\ (r.count > 0 => m.dirty)
  BY MovedFromSound
<1> HIDE DEF m
<1>3. BytesOK(q, m) /\ Excused(q, m)
  BY <1>2 DEF BytesOK, Excused
<1>. QED
  BY <1>1, <1>3 DEF BytesOK, Excused, m

(* flush(): what is in the buffer was given for what the handle is open on.*)
LEMMA WroteNothingAstray ==
  ASSUME HandlesTypeOK, NEW o \in Outs, NEW r, Sound(r), HandleOK(o, r), BytesOK(o, r),
         FlushSucceeds(r)
  PROVE  Wrote(r) = astray
<1>1. CASE r.count = 0
  BY <1>1 DEF Wrote
<1>2. CASE r.count # 0
  <2>1. r.buffer # NoBuffer
    BY <1>2 DEF FlushSucceeds, CanWrite
  <2>2. ToSet(r.buffer) \cap Names \subseteq {r.mine} /\ (r.mine \in Names => table[r.fd] = r.mine)
    BY <2>1 DEF BytesOK, HandleOK
  <2>3. (ToSet(r.buffer) \cap Names) \ {table[r.fd]} = {}
    BY <2>2
  <2>. QED
    BY <2>3 DEF Wrote
<1>. QED
  BY <1>1, <1>2

LEMMA AllocatedIsFine ==
  ASSUME NEW o \in Outs, NEW r, Sound(r), BytesOK(o, r), Excused(o, r)
  PROVE  BytesOK(o, Allocated(r)) /\ Excused(o, Allocated(r))
<1> DEFINE a == Allocated(r)
<1>1. /\ a.fd = r.fd /\ a.mine = r.mine /\ a.count = r.count /\ a.dirty = r.dirty
      /\ a.buffer # NoBuffer
      /\ r.buffer # NoBuffer => a.buffer = r.buffer
      /\ r.buffer = NoBuffer => ToSet(a.buffer) \subseteq {Stale}
  BY AllocatedSound
<1>2. o \notin Ins /\ Stale \notin Names
  BY HandlesAssumption
<1> HIDE DEF a
<1>3. BytesOK(o, a)
  BY <1>1, <1>2 DEF BytesOK
<1>4. Excused(o, a)
  BY <1>1, <1>2 DEF Excused
<1>. QED
  BY <1>3, <1>4 DEF a

(* buffer[buffer_pos++] = b: a byte given to a closed object is Nobody's.  *)
LEMMA StoredIsFine ==
  ASSUME NEW o \in Outs, NEW r, Sound(r), r.buffer # NoBuffer, r.count < Capacity,
         BytesOK(o, r), HandleOK(o, r)
  PROVE  BytesOK(o, Store(r)) /\ Excused(o, Store(r))
<1> DEFINE s == Store(r)
<1>1. /\ s.fd = r.fd /\ s.mine = r.mine /\ s.buffer # NoBuffer
      /\ ToSet(s.buffer) = ToSet(r.buffer) \cup {r.mine}
  BY StoreSound
<1>2. o \notin Ins
  BY HandlesAssumption
<1> HIDE DEF s
<1>3. BytesOK(o, s)
  BY <1>1, <1>2 DEF BytesOK
<1>4. r.fd = -1 => r.mine = Nobody
  BY DEF HandleOK
<1>5. Excused(o, s)
  BY <1>1, <1>2, <1>4 DEF Excused
<1>. QED
  BY <1>3, <1>5 DEF s

-----------------------------------------------------------------------------
(* The calls.  Each leaves what it touches in order, as long as no         *)
(* assignment of a standard descriptor was refused.                        *)

InOrder(o, r) == Sound(r) /\ BytesOK(o, r) /\ Excused(o, r)

(* One object is touched, and nothing reaches a file that it was not given *)
(* for.                                                                    *)
Tidy(o) ==
  /\ \E r : (r = Gone \/ InOrder(o, r)) /\ obj' = [obj EXCEPT ![o] = r]
  /\ UNCHANGED <<astray, end>>

LEMMA WriteByteTidy ==
  ASSUME HandlesTypeOK, NEW o \in Objects, WriteByte(o),
         HandleOK(o, obj[o]), BytesOK(o, obj[o]), Excused(o, obj[o])
  PROVE  Tidy(o)
<1> DEFINE r == Allocated(obj[o])
<1>1. o \in Outs /\ Sound(obj[o]) /\ UNCHANGED end
  BY Types DEF WriteByte, Unchanged
<1>2. /\ Sound(r) /\ r.fd = obj[o].fd /\ r.mine = obj[o].mine /\ r.buffer # NoBuffer
      /\ r.count = obj[o].count /\ BytesOK(o, r) /\ Excused(o, r)
  BY <1>1, AllocatedSound, AllocatedIsFine
<1>3. HandleOK(o, r)
  BY <1>2 DEF HandleOK
<1>4. \/ r.count < Capacity /\ obj' = [obj EXCEPT ![o] = Store(r)] /\ UNCHANGED astray
      \/ /\ r.count = Capacity /\ CanWrite(r)
         /\ obj' = [obj EXCEPT ![o] = Store(Flushed(r))] /\ astray' = Wrote(r)
      \/ obj' = [obj EXCEPT ![o] = r] /\ UNCHANGED astray
  BY DEF WriteByte
<1> HIDE DEF r
<1>5. CASE r.count < Capacity /\ obj' = [obj EXCEPT ![o] = Store(r)] /\ UNCHANGED astray
  <2>1. InOrder(o, Store(r))
    BY <1>1, <1>2, <1>3, <1>5, StoreSound, StoredIsFine DEF InOrder
  <2>. QED
    BY <1>1, <1>5, <2>1 DEF Tidy
<1>6. CASE /\ r.count = Capacity /\ CanWrite(r)
           /\ obj' = [obj EXCEPT ![o] = Store(Flushed(r))] /\ astray' = Wrote(r)
  <2> DEFINE c == Flushed(r)
  <2>1. Sound(c) /\ c.fd = r.fd /\ c.mine = r.mine /\ c.count = 0 /\ c.buffer # NoBuffer
    BY <1>2, FlushedSound
  <2> HIDE DEF c
  <2>2. c.count < Capacity /\ BytesOK(o, c) /\ HandleOK(o, c)
    BY <1>3, <2>1, EmptyIsFine, HandlesAssumption DEF HandleOK
  <2>3. InOrder(o, Store(c))
    BY <1>1, <2>1, <2>2, StoreSound, StoredIsFine DEF InOrder
  <2>4. Wrote(r) = astray
    BY <1>1, <1>2, <1>3, <1>6, WroteNothingAstray DEF FlushSucceeds
  <2>. QED
    BY <1>1, <1>6, <2>3, <2>4 DEF Tidy, c
<1>7. CASE obj' = [obj EXCEPT ![o] = r] /\ UNCHANGED astray
  BY <1>1, <1>2, <1>7 DEF Tidy, InOrder
<1>. QED
  BY <1>4, <1>5, <1>6, <1>7

(* The program ends in an object that holds bytes which it cannot give.    *)
Excusably ==
  \E o \in Objects : /\ UNCHANGED <<obj, astray>> /\ Alive(o) /\ obj[o].count > 0
                     /\ \/ o \in Outs /\ end' = [how |-> "terminated", was |-> obj[o]]
                        \/ /\ o \in Ins /\ obj[o].buffer = NoBuffer
                           /\ end' = [how |-> "crashed", was |-> obj[o]]

LEMMA ReadByteTidy ==
  ASSUME HandlesTypeOK, NEW o \in Objects, ReadByte(o),
         HandleOK(o, obj[o]), BytesOK(o, obj[o]), Excused(o, obj[o])
  PROVE  Tidy(o) \/ Excusably
<1> DEFINE r == obj[o]
<1>1. o \in Ins /\ o \notin Outs /\ Alive(o) /\ Sound(r)
  BY Types, HandlesAssumption DEF ReadByte
<1>2. \/ /\ r.count > 0 /\ r.buffer # NoBuffer
         /\ obj' = [obj EXCEPT ![o] = [r EXCEPT !.count = @ - 1, !.buffer = Tail(@)]]
         /\ UNCHANGED <<astray, end>>
      \/ Excusably
      \/ r.count = 0 /\ obj' = [obj EXCEPT ![o] = Allocated(r)] /\ UNCHANGED <<astray, end>>
      \/ /\ r.fd # -1 /\ table[r.fd] # Nobody /\ UNCHANGED <<astray, end>>
         /\ \E n \in 0 .. Capacity - 1 : obj' = [obj EXCEPT ![o] = Filled(r, n)]
  BY <1>1 DEF ReadByte, Ends, Unchanged, Excusably
<1>3. CASE /\ r.count > 0 /\ r.buffer # NoBuffer
           /\ obj' = [obj EXCEPT ![o] = [r EXCEPT !.count = @ - 1, !.buffer = Tail(@)]]
           /\ UNCHANGED <<astray, end>>
  <2> DEFINE t == [r EXCEPT !.count = @ - 1, !.buffer = Tail(@)]
  <2>1. /\ Sound(t) /\ t.mine = r.mine
        /\ t.buffer # NoBuffer /\ ToSet(t.buffer) \subseteq ToSet(r.buffer)
    BY <1>1, <1>3, TakenSound
  <2> HIDE DEF t
  <2>2. InOrder(o, t)
    BY <1>1, <1>3, <2>1 DEF InOrder, BytesOK, Excused
  <2>. QED
    BY <1>3, <2>2 DEF Tidy, t
<1>4. CASE r.count = 0 /\ obj' = [obj EXCEPT ![o] = Allocated(r)] /\ UNCHANGED <<astray, end>>
  <2>1. Sound(Allocated(r)) /\ Allocated(r).count = 0
    BY <1>1, <1>4, AllocatedSound
  <2>2. InOrder(o, Allocated(r))
    BY <2>1, EmptyIsFine DEF InOrder
  <2>. QED
    BY <1>4, <2>2 DEF Tidy
<1>5. CASE /\ r.fd # -1 /\ table[r.fd] # Nobody /\ UNCHANGED <<astray, end>>
           /\ \E n \in 0 .. Capacity - 1 : obj' = [obj EXCEPT ![o] = Filled(r, n)]
  <2>1. PICK n \in 0 .. Capacity - 1 : obj' = [obj EXCEPT ![o] = Filled(r, n)]
    BY <1>5
  <2>2. /\ table[r.fd] \in Names \cup {Terminal, Nobody} /\ n \in 0 .. Capacity
        /\ r.mine \in Names \cup {Terminal, Nobody}
    BY <1>1, <1>5, Types, HandlesAssumption DEF Sound, Members
  <2> DEFINE s == Filled(r, n)
  <2>3. /\ Sound(s) /\ s.mine = r.mine /\ s.buffer # NoBuffer
        /\ ToSet(s.buffer) \subseteq {table[r.fd]}
    BY <1>1, <2>2, FilledSound
  <2>4. r.mine # Terminal => table[r.fd] = r.mine
    BY <1>5, <2>2 DEF HandleOK
  <2> HIDE DEF s
  <2>5. InOrder(o, s)
    BY <1>1, <1>5, <2>3, <2>4 DEF InOrder, BytesOK, Excused
  <2>. QED
    BY <1>5, <2>1, <2>5 DEF Tidy, s
<1>. QED
  BY <1>2, <1>3, <1>4, <1>5

(* These may also come after a refusal: then only what ends the program    *)
(* matters.                                                                *)
TidyUnlessRefused(o) ==
  /\ \E r : /\ r = Gone \/ (Sound(r) /\ BytesOK(o, r) /\ Excused(o, r))
            /\ obj' = [obj EXCEPT ![o] = r]
  /\ UNCHANGED <<end, refused>>
  /\ ~refused => UNCHANGED astray

LEMMA ClosesTidy ==
  ASSUME HandlesTypeOK, HandlesOK, AllBytesOK, NEW o \in Objects,
         CloseOut(o) \/ CloseIn(o) \/ Destroy(o)
  PROVE  TidyUnlessRefused(o) \/ UNCHANGED <<obj, astray, end, refused>>
         \/ (Excusably /\ UNCHANGED refused)
<1>1. Alive(o) /\ Sound(obj[o])
  BY Types DEF CloseOut, CloseIn, Destroy
<1>2. o \in Outs /\ FlushSucceeds(obj[o]) /\ ~refused => Wrote(obj[o]) = astray
  BY <1>1, WroteNothingAstray DEF HandlesOK, AllBytesOK
<1>3. CASE CloseOut(o) /\ FlushSucceeds(obj[o]) /\ ~(UNCHANGED <<obj, astray, end, refused>>)
  <2> DEFINE c == Flushed(obj[o])
  <2>1. Sound(c) /\ c.count = 0
    BY <1>1, <1>3, FlushedSound DEF FlushSucceeds, CanWrite, Sound, Members
  <2> HIDE DEF c
  <2>2. Sound(HandleClosed(c)) /\ HandleClosed(c).count = 0
    BY <2>1, ClosedSound
  <2>3. BytesOK(o, HandleClosed(c)) /\ Excused(o, HandleClosed(c))
    BY <2>2, EmptyIsFine
  <2>4. /\ obj' = [obj EXCEPT ![o] = HandleClosed(c)] /\ astray' = Wrote(obj[o])
        /\ UNCHANGED <<end, refused>> /\ o \in Outs
    BY <1>3 DEF CloseOut, Unchanged, c
  <2>. QED
    BY <1>2, <1>3, <2>2, <2>3, <2>4 DEF TidyUnlessRefused
<1>4. CASE CloseOut(o) /\ ~FlushSucceeds(obj[o])
  BY <1>4 DEF CloseOut, Unchanged
<1>5. CASE CloseIn(o)
  <2> DEFINE c == ResetWindow(obj[o])
  <2>1. Sound(c) /\ c.count = 0
    BY <1>1, ResetSound
  <2> HIDE DEF c
  <2>2. Sound(HandleClosed(c)) /\ HandleClosed(c).count = 0
    BY <2>1, ClosedSound
  <2>3. BytesOK(o, HandleClosed(c)) /\ Excused(o, HandleClosed(c))
    BY <2>2, EmptyIsFine
  <2>4. obj' = [obj EXCEPT ![o] = HandleClosed(c)] /\ UNCHANGED <<astray, end, refused>>
    BY <1>5 DEF CloseIn, Unchanged, c
  <2>. QED
    BY <2>2, <2>3, <2>4 DEF TidyUnlessRefused
<1>6. CASE Destroy(o)
  <2>1. CASE o \in Outs /\ FlushFails(obj[o]) /\ Ends("terminated", obj[o])
    BY <1>1, <2>1 DEF FlushFails, Ends, Excusably
  <2>2. CASE /\ o \in Ins \/ FlushSucceeds(obj[o])
             /\ astray' = IF o \in Outs THEN Wrote(obj[o]) ELSE astray
             /\ obj' = [obj EXCEPT ![o] = Gone]
             /\ Unchanged
    <3>1. ~refused => astray' = astray
      BY <1>2, <2>2, HandlesAssumption
    <3>. QED
      BY <2>2, <3>1 DEF TidyUnlessRefused, Unchanged
  <2>. QED
    BY <1>6, <2>1, <2>2 DEF Destroy
<1>. QED
  BY <1>3, <1>4, <1>5, <1>6

(* A move takes the bytes along; what it leaves behind has none.           *)
LEMMA MovesTidy ==
  ASSUME HandlesTypeOK, HandlesOK, AllBytesOK, ~refused, NEW o \in Objects, NEW q \in Objects,
         MoveConstruct(o, q) \/ MoveAssign(o, q)
  PROVE  \/ Moves(o, q) /\ UNCHANGED <<astray, end>>
         \/ UNCHANGED <<obj, astray, end>>
         \/ Excusably
<1>1. Alive(q) /\ SameClass(o, q)
  BY DEF MoveConstruct, MoveAssign
<1>2. o \in Outs /\ Alive(o) /\ FlushSucceeds(obj[o]) => Wrote(obj[o]) = astray
  BY WroteNothingAstray, Types DEF HandlesOK, AllBytesOK
<1>3. CASE MoveConstruct(o, q)
  BY <1>3 DEF MoveConstruct, Moves, Unchanged
<1>4. CASE MoveAssign(o, q)
  <2>1. CASE o = q /\ UNCHANGED vars
    BY <2>1 DEF vars
  <2>2. CASE /\ o # q /\ (o \in Ins \/ FlushSucceeds(obj[o]))
             /\ table' = TableClosed(o, obj[o])
             /\ astray' = IF o \in Outs THEN Wrote(obj[o]) ELSE astray
             /\ obj' = [obj EXCEPT ![o] = obj[q], ![q] = MovedFrom(obj[q])]
             /\ Unchanged
    <3>1. astray' = astray
      BY <1>2, <1>4, <2>2, HandlesAssumption DEF MoveAssign
    <3>. QED
      BY <1>1, <1>4, <2>2, <3>1 DEF Moves, Unchanged, MoveAssign
  <2>3. CASE o # q /\ o \in Outs /\ FlushFails(obj[o]) /\ Ends("terminated", obj[o])
    BY <1>4, <2>3 DEF MoveAssign, FlushFails, Ends, Excusably
  <2>. QED
    BY <1>4, <2>1, <2>2, <2>3 DEF MoveAssign
<1>. QED
  BY <1>3, <1>4

(* open(): a closed object has no bytes of a file; what an OFile was given *)
(* while it was closed goes to the file that it opens.                     *)
LEMMA OpenTidy ==
  ASSUME HandlesTypeOK, HandlesOK, AllBytesOK, AllExcused, ~refused,
         NEW o \in Objects, NEW f \in Names, Open(o, f)
  PROVE  Tidy(o)
<1>1. PICK d, r :
        /\ d \in Descriptors
        /\ table[d] = Nobody /\ table' = [table EXCEPT ![d] = f]
        /\ Sound(r) /\ r.fd = d /\ r.mine = f
        /\ r.count = obj[o].count /\ r.buffer = obj[o].buffer /\ r.dirty = obj[o].dirty
        /\ obj' = [obj EXCEPT ![o] = r]
  BY OpenSound
<1>2. Alive(o) /\ obj[o].fd = -1 /\ UNCHANGED <<astray, end>>
  BY OpenSound DEF Open, Unchanged
<1>3. obj[o].mine = Nobody /\ BytesOK(o, obj[o]) /\ Excused(o, obj[o])
  BY <1>2 DEF HandlesOK, HandleOK, AllBytesOK, AllExcused
<1>4. r.fd # -1 /\ Nobody \notin Names /\ Nobody # Terminal
  BY <1>1, HandlesAssumption DEF Descriptors
<1>5. BytesOK(o, r)
  BY <1>1, <1>3, <1>4 DEF BytesOK
<1>6. Excused(o, r)
  BY <1>1, <1>3, <1>4 DEF Excused
<1>. QED
  BY <1>1, <1>2, <1>5, <1>6 DEF Tidy, InOrder

-----------------------------------------------------------------------------
(* The invariant.                                                          *)

BytesIInv == HandlesTypeOK /\ HandlesOK /\ AllBytesOK /\ AllExcused

LEMMA ByteKinds ==
  ASSUME BytesIInv, [Next]_vars
  PROVE  \/ \E o \in Objects : ~refused /\ Tidy(o)
         \/ \E o \in Objects : TidyUnlessRefused(o)
         \/ \E o, q \in Objects : ~refused /\ Moves(o, q) /\ UNCHANGED <<astray, end>>
         \/ (~refused \/ UNCHANGED refused) /\ (Excusably \/ UNCHANGED <<obj, astray, end>>)
<1>. USE DEF BytesIInv
<1>1. CASE UNCHANGED vars
  BY <1>1 DEF vars
<1>2. CASE Next
  <2>1. PICK o \in Objects : (~refused /\ Call(o)) \/ CloseOut(o) \/ CloseIn(o) \/ Destroy(o)
    BY <1>2 DEF Next
  <2>2. CASE CloseOut(o) \/ CloseIn(o) \/ Destroy(o)
    BY <2>2, ClosesTidy
  <2>3. CASE ~refused /\ Call(o)
    <3>1. CASE Construct(o)
      <4>1. InOrder(o, Default)
        BY DefaultSound, EmptyIsFine DEF InOrder
      <4>. QED
        BY <2>3, <3>1, <4>1 DEF Construct, Tidy, Unchanged
    <3>2. CASE \E f \in Names : Open(o, f)
      BY <2>3, <3>2, OpenTidy
    <3>3. ASSUME NEW d \in Descriptors \cup {-1}, AssignStd(o, d) PROVE Tidy(o)
      <4>1. PICK r : /\ Sound(r) /\ r.fd = d /\ r.mine = Terminal
                     /\ r.count = 0 /\ r.buffer = obj[o].buffer
                     /\ obj' = [obj EXCEPT ![o] = r]
        BY <3>3, AssignSound
      <4>2. InOrder(o, r)
        BY <4>1, EmptyIsFine DEF InOrder
      <4>. QED
        BY <3>3, <4>1, <4>2 DEF Tidy, AssignStd
    <3>4. CASE \E q \in Objects : MoveConstruct(o, q) \/ MoveAssign(o, q)
      BY <2>3, <3>4, MovesTidy
    <3>5. CASE WriteByte(o) \/ ReadByte(o)
      <4>1. Alive(o)
        BY <3>5 DEF WriteByte, ReadByte
      <4>2. HandleOK(o, obj[o]) /\ BytesOK(o, obj[o]) /\ Excused(o, obj[o])
        BY <2>3, <4>1 DEF HandlesOK, AllBytesOK, AllExcused
      <4>. QED
        BY <2>3, <3>5, <4>2, WriteByteTidy, ReadByteTidy
    <3>. QED
      BY <2>3, <3>1, <3>2, <3>3, <3>4, <3>5 DEF Call
  <2>. QED
    BY <2>1, <2>2, <2>3
<1>. QED
  BY <1>1, <1>2

LEMMA TouchedOrKept ==
  ASSUME BytesIInv, NEW o \in Objects, NEW r, r = Gone \/ (Sound(r) /\ BytesOK(o, r) /\ Excused(o, r)),
         obj' = [obj EXCEPT ![o] = r], UNCHANGED end, ~refused => UNCHANGED astray,
         ~refused' => ~refused
  PROVE  AllBytesOK' /\ AllExcused'
<1>1. /\ obj'[o] = r /\ Alive(o)' = (obj'[o] # Gone)
      /\ \A p \in Objects \ {o} : obj'[p] = obj[p] /\ (Alive(p)' <=> Alive(p))
  BY ObjTyped DEF BytesIInv, Alive
<1>2. AllBytesOK'
  BY <1>1 DEF BytesIInv, AllBytesOK, BytesOK
<1>3. AllExcused'
  BY <1>1 DEF BytesIInv, AllExcused, Excused, EndsForAReason
<1>. QED
  BY <1>2, <1>3

LEMMA MovedOrKept ==
  ASSUME BytesIInv, NEW o \in Objects, NEW q \in Objects, Moves(o, q), UNCHANGED <<astray, end>>
  PROVE  AllBytesOK' /\ AllExcused'
<1>1. /\ obj'[o] = obj[q] /\ obj'[q] = MovedFrom(obj[q])
      /\ \A p \in Objects \ {o, q} : obj'[p] = obj[p] /\ (Alive(p)' <=> Alive(p))
  BY MovesTyped DEF BytesIInv
<1>2. /\ Alive(q) /\ Sound(obj[q]) /\ SameClass(o, q) /\ refused' = refused
      /\ Excused(q, obj[q]) /\ (~refused => BytesOK(q, obj[q]))
  BY Types DEF Moves, BytesIInv, AllBytesOK, AllExcused
<1>3. /\ ~refused => BytesOK(o, obj'[o]) /\ BytesOK(q, obj'[q])
      /\ Excused(o, obj'[o]) /\ Excused(q, obj'[q])
  BY <1>1, <1>2, MovedIsFine
<1>4. AllBytesOK'
  BY <1>1, <1>2, <1>3 DEF BytesIInv, AllBytesOK, BytesOK
<1>5. AllExcused'
  BY <1>1, <1>3 DEF BytesIInv, AllExcused, Excused, EndsForAReason
<1>. QED
  BY <1>4, <1>5

LEMMA ExcusablyEnds ==
  ASSUME BytesIInv, Excusably
  PROVE  AllExcused'
<1>1. PICK o \in Objects :
        /\ UNCHANGED <<obj, astray>> /\ Alive(o) /\ obj[o].count > 0
        /\ \/ o \in Outs /\ end' = [how |-> "terminated", was |-> obj[o]]
           \/ /\ o \in Ins /\ obj[o].buffer = NoBuffer
              /\ end' = [how |-> "crashed", was |-> obj[o]]
  BY DEF Excusably
<1>2. Excused(o, obj[o])
  BY <1>1 DEF BytesIInv, AllExcused
<1>3. EndsForAReason'
  BY <1>1, <1>2 DEF Excused, EndsForAReason
<1>. QED
  BY <1>1, <1>3 DEF BytesIInv, AllExcused, Excused, Alive

LEMMA NextBytes == BytesIInv /\ [Next]_vars => AllBytesOK' /\ AllExcused'
<1> SUFFICES ASSUME BytesIInv, [Next]_vars PROVE AllBytesOK' /\ AllExcused'
  OBVIOUS
<1>0. ~refused' => ~refused
  <2>1. CASE Rests
    BY <2>1 DEF Rests
  <2>. QED
    BY <2>1, Kinds, OpenSound, AssignSound DEF BytesIInv, Construct, Unchanged, Uses, Closes, Moves
<1>1. ASSUME NEW o \in Objects, ~refused, Tidy(o) PROVE AllBytesOK' /\ AllExcused'
  BY <1>0, <1>1, TouchedOrKept DEF Tidy, InOrder
<1>2. ASSUME NEW o \in Objects, TidyUnlessRefused(o) PROVE AllBytesOK' /\ AllExcused'
  BY <1>0, <1>2, TouchedOrKept DEF TidyUnlessRefused
<1>3. CASE UNCHANGED <<obj, astray, end>>
  BY <1>0, <1>3 DEF BytesIInv, AllBytesOK, BytesOK, AllExcused, Excused, EndsForAReason, Alive
<1>4. CASE Excusably
  <2>1. UNCHANGED <<obj, astray>>
    BY <1>4 DEF Excusably
  <2>2. AllBytesOK'
    BY <1>0, <2>1 DEF BytesIInv, AllBytesOK, BytesOK, Alive
  <2>. QED
    BY <1>4, <2>2, ExcusablyEnds
<1>. QED
  BY <1>1, <1>2, <1>3, <1>4, ByteKinds, MovedOrKept

LEMMA InitBytes == Init => AllBytesOK /\ AllExcused
BY DEF Init, AllBytesOK, AllExcused, EndsForAReason, Running, Alive

LEMMA BytesInvariance == Spec => []BytesIInv
<1>1. Init => BytesIInv
  BY InitTyped, InitHandles, InitBytes DEF BytesIInv
<1>2. BytesIInv /\ [Next]_vars => BytesIInv'
  BY NextTyped, NextHandles, NextBytes DEF BytesIInv
<1>. QED
  BY <1>1, <1>2, PTL DEF Spec

(* Bytes given for one file never reach another one, however their buffer  *)
(* is moved, flushed, closed or destroyed, and whatever its object is      *)
(* opened on next (OFile.hpp:25-58, UniqueHandle.hpp:13-31).               *)
THEOREM NothingGoesAstray == Spec => []BytesReachTheirFile
<1>1. BytesIInv => BytesReachTheirFile
  BY DEF BytesIInv, AllBytesOK, BytesReachTheirFile
<1>. QED
  BY <1>1, BytesInvariance, PTL

(* No unread byte of one file survives in an object that is opened on      *)
(* another one: close() empties the window, and a move takes it along      *)
(* (IFile.hpp:114-134).                                                    *)
THEOREM WindowGoesWithTheHandle == Spec => []UnreadBytesAreItsOwn
<1>1. BytesIInv => UnreadBytesAreItsOwn
  BY HandlesAssumption DEF BytesIInv, AllBytesOK, BytesOK, Opened, UnreadBytesAreItsOwn, Objects
<1>. QED
  BY <1>1, BytesInvariance, PTL

(* A destructor or a move assignment ends the program only over bytes that *)
(* a failing descriptor would not take, that were given to a closed object *)
(* or that moved away from it (OFile.hpp:28, 37, UniqueHandle.hpp:24).     *)
THEOREM NeverEndsForNothing == Spec => []EndsForAReason
<1>1. BytesIInv => EndsForAReason
  BY DEF BytesIInv, AllExcused
<1>. QED
  BY <1>1, BytesInvariance, PTL

=============================================================================
