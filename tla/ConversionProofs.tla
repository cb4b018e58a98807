--------------------------- MODULE ConversionProofs --------------------------
(***************************************************************************)
(* Proofs about the conversions of texts and of times, for every string,   *)
(* every time the word can hold, and any word and second that meet the     *)
(* assumptions.                                                            *)
(***************************************************************************)
EXTENDS ConversionProperties, UtfProofs

-----------------------------------------------------------------------------
(* Times.                                                                  *)

LEMMA Division ==
  ASSUME NEW a \in Int, NEW b \in Nat \ {0}
  PROVE  a \div b \in Int /\ a % b \in 0 .. b - 1 /\ b * (a \div b) + (a % b) = a
OBVIOUS

LEMMA WholeMultiple ==
  ASSUME NEW k \in Int, NEW b \in Nat \ {0}
  PROVE  (k * b) % b = 0
OBVIOUS

LEMMA WordIs ==
  /\ BOUNDARY \in Nat /\ Word \in Nat /\ Word \div 8 \in Nat
  /\ Word \div 8 >= 2 /\ Word = 8 * (Word \div 8) /\ BOUNDARY = 7 * (Word \div 8)
  /\ Second \in Nat \ {0} /\ Tick \in Nat \ {0}
BY NanotimeAssumption, FileTimesAssumption DEF BOUNDARY

LEMMA TimeIs ==
  ASSUME NEW t \in Times
  PROVE  /\ t # NoTime /\ t.sec \in Int /\ t.nsec \in 0 .. Second - 1
         /\ Nanoseconds(t) \in Int /\ Nanoseconds(t) = t.sec * Second + t.nsec
         /\ BOUNDARY - Word <= Nanoseconds(t) /\ Nanoseconds(t) < BOUNDARY
<1>1. t.sec \in Int /\ t.nsec \in 0 .. Second - 1 /\ Second \in Nat
  BY FileTimesAssumption, WordIs
<1>2. t # NoTime
  BY <1>1 DEF NoTime
<1>3. Nanoseconds(t) \in BOUNDARY - Word .. BOUNDARY - 1
  BY FileTimesAssumption
<1>. QED
  BY <1>1, <1>2, <1>3, WordIs DEF Nanoseconds

(* A time before 1970 is above the boundary, any other one below it.       *)
LEMMA ModWord ==
  ASSUME NEW n \in Int, BOUNDARY - Word <= n, n < BOUNDARY
  PROVE  n % Word = IF n >= 0 THEN n ELSE n + Word
BY WordIs

LEMMA InstantIs ==
  ASSUME NEW t \in Times
  PROVE  /\ Instant(t) \in Int /\ BOUNDARY - Word < Instant(t) /\ Instant(t) < BOUNDARY
         /\ Nanoseconds(t) >= 0 => Instant(t) = Nanoseconds(t)
         /\ Nanoseconds(t) < 0 => Instant(t) < 0
BY TimeIs, WordIs DEF Instant

LEMMA FromKernelIs ==
  ASSUME NEW t \in Times
  PROVE  /\ FromKernel(t) = IF Instant(t) >= 0 THEN Instant(t) ELSE Instant(t) + Word
         /\ FromKernel(t) \in 0 .. Word - 1 /\ FromKernel(t) # BOUNDARY
<1> DEFINE n == Nanoseconds(t)
<1>1. n \in Int /\ BOUNDARY - Word <= n /\ n < BOUNDARY
  BY TimeIs
<1>2. n % Word = IF n >= 0 THEN n ELSE n + Word
  BY <1>1, ModWord
<1>3. FromKernel(t) = IF n % Word # BOUNDARY THEN n % Word ELSE BOUNDARY + 1
  BY DEF FromKernel, from_nanotime_t
<1>4. Instant(t) = IF n = BOUNDARY - Word THEN n + 1 ELSE n
  BY DEF Instant
<1> HIDE DEF n
<1>. QED
  BY <1>1, <1>2, <1>3, <1>4, WordIs

(* No whole second is at the boundary.                                     *)
LEMMA FromTimeTIs ==
  ASSUME NEW t \in Times, t.nsec = 0
  PROVE  from_time_t(t.sec) = FromKernel(t)
<1>1. Nanoseconds(t) = t.sec * Second /\ t.sec \in Int /\ Nanoseconds(t) \in Int
  BY TimeIs, WordIs
<1>2. Nanoseconds(t) # BOUNDARY - Word
  <2>1. SUFFICES ASSUME t.sec * Second = -(Word \div 8) PROVE FALSE
    BY <1>1, WordIs
  <2>2. (-t.sec) * Second = Word \div 8
    BY <1>1, <2>1, WordIs
  <2>3. ((-t.sec) * Second) % Second = 0
    BY <1>1, WholeMultiple, WordIs
  <2>. QED
    BY <2>2, <2>3, NanotimeAssumption
<1>3. from_time_t(t.sec) = Nanoseconds(t) % Word
  BY <1>1 DEF from_time_t
<1>4. Nanoseconds(t) % Word # BOUNDARY
  BY <1>1, <1>2, ModWord, TimeIs, WordIs
<1>. QED
  BY <1>3, <1>4 DEF FromKernel, from_nanotime_t

(* What the program has is the time it stands for, and the caches are what *)
(* they were filled with.                                                  *)
Known ==
  /\ mtime \in Times /\ btime \in Times \cup {NoTime}
  /\ {fetched, born, meant} \subseteq Times \cup {NoTime}
  /\ last_write_time = IF fetched = NoTime THEN uninitialized ELSE FromKernel(fetched)
  /\ creation_time = IF born = NoTime THEN uninitialized ELSE FromKernel(born)
  /\ answer = IF meant = NoTime THEN uninitialized ELSE FromKernel(meant)

LEMMA TimeNextKnown ==
  ASSUME Known, TimeNext
  PROVE  Known'
<1>1. \A t \in Times : t # NoTime /\ FromKernel(t) # uninitialized
  BY TimeIs, FromKernelIs DEF uninitialized
<1>2. CASE GetLastWriteTime
  BY <1>1, <1>2 DEF GetLastWriteTime, Known, Learn, Refuse, fileTime, cache
<1>3. CASE GetCreationTime
  BY <1>1, <1>3 DEF GetCreationTime, Known, Learn, Refuse, fileTime, cache
<1>4. CASE FromTimeT
  BY <1>1, <1>4, FromTimeTIs DEF FromTimeT, Known, Learn, fileTime, cache
<1>5. CASE SetLastWriteTime
  BY <1>5 DEF SetLastWriteTime, Known, Refuse, fileTime, cache
<1>6. CASE Touch
  BY <1>6 DEF Touch, Known, cache
<1>7. CASE Reopen
  BY <1>7 DEF Reopen, Known, fileTime, cache
<1>. QED
  BY <1>2, <1>3, <1>4, <1>5, <1>6, <1>7 DEF TimeNext

LEMMA InitKnown ==
  Init => Known
<1>1. SUFFICES ASSUME Init PROVE Known
  OBVIOUS
<1>2. TimeInit /\ mtime \in Times
  BY <1>1, FileTimesAssumption DEF Init, TimeIdle, TimeInit
<1>. QED
  BY <1>2 DEF TimeInit, Known

LEMMA NextKnown ==
  ASSUME Known, [Next]_<<job, conversion, times>>
  PROVE  Known'
<1>1. CASE HandleTimes
  BY <1>1, TimeNextKnown DEF HandleTimes
<1>2. CASE UNCHANGED times
  BY <1>2 DEF times, fileTime, cache, Known
<1>. QED
  BY <1>1, <1>2 DEF Next, ConvertText

LEMMA AlwaysKnown == Spec => []Known
BY InitKnown, NextKnown, PTL DEF Spec

(* A cached time is never the mark of an empty cache, so that the file is  *)
(* asked for each time once (UnixNanotime.hpp:13, FileHandle.hpp:389-407). *)
THEOREM NeverTheSentinel == Spec => []SentinelIsNeverATime
<1>1. Known => SentinelIsNeverATime
  BY FromKernelIs DEF Known, SentinelIsNeverATime, uninitialized
<1>. QED
  BY <1>1, AlwaysKnown, PTL

(* A word is the instant, below the boundary as it is, above as int64_t.   *)
LEMMA WordOfATime ==
  ASSUME NEW t \in Times, NEW w, w = FromKernel(t)
  PROVE  /\ Before1970(w) <=> Instant(t) < 0
         /\ Before1970(w) => Signed(w) = Instant(t)
         /\ ~Before1970(w) => w = Instant(t)
<1>1. Instant(t) \in Int /\ BOUNDARY - Word < Instant(t) /\ Instant(t) < BOUNDARY
  BY InstantIs
<1>2. w = IF Instant(t) >= 0 THEN Instant(t) ELSE Instant(t) + Word
  BY FromKernelIs
<1>3. Word \div 2 = 4 * (Word \div 8)
  BY WordIs
<1>. QED
  BY <1>1, <1>2, <1>3, WordIs DEF Before1970, Signed

(* to_time_t() and to_uint64() give the instant on both sides of 1970      *)
(* (UnixNanotime.hpp:16-30).                                               *)
THEOREM ConversionsAreExact == Spec => []ConversionsKeepTheInstant
<1>1. Known => ConversionsKeepTheInstant
  <2>1. SUFFICES ASSUME Known, meant # NoTime PROVE ConversionsKeepTheInstant
    BY DEF ConversionsKeepTheInstant
  <2> DEFINE i == Instant(meant)
  <2>2. meant \in Times /\ answer = FromKernel(meant)
    BY <2>1 DEF Known
  <2>3. /\ Before1970(answer) <=> i < 0
        /\ Before1970(answer) => Signed(answer) = i
        /\ ~Before1970(answer) => answer = i
    BY <2>2, WordOfATime
  <2>4. i \in Int
    BY <2>2, InstantIs
  <2> HIDE DEF i
  <2>5. \A b \in Nat \ {0} :
          Quotient(i, b) = IF Before1970(answer) THEN Quotient(Signed(answer), b) ELSE answer \div b
    BY <2>3, <2>4 DEF Quotient
  <2>6. to_time_t(answer) = Quotient(i, Second)
    BY <2>5, WordIs DEF to_time_t
  <2>7. ASSUME NEW offset \in {0, Word \div 8}
        PROVE  to_uint64(answer, Tick, offset) = (Quotient(i, Tick) + offset) % Word
    <3>1. Quotient(i, Tick) \in Int /\ offset \in Int
      BY <2>4, WordIs, Division DEF Quotient
    <3>2. to_uint64(answer, Tick, offset) = (offset + Quotient(i, Tick)) % Word
      BY <2>5, WordIs DEF to_uint64
    <3>. QED
      BY <3>1, <3>2
  <2>. QED
    BY <2>6, <2>7 DEF ConversionsKeepTheInstant, i
<1>. QED
  BY <1>1, AlwaysKnown, PTL

(* The fraction of a second: -(-(n % b)) of C++ is 0 for whole seconds.    *)
LEMMA WholeSeconds ==
  ASSUME NEW n \in Int, n < 0, NEW b \in Nat \ {0}, n % b = 0
  PROVE  /\ Quotient(n, b) * b = n
         /\ Remainder(n, b) = 0
<1>1. (-n) % b = 0
  <2>1. n = b * (n \div b) /\ n \div b \in Int
    BY Division
  <2> DEFINE k == -(n \div b)
  <2>2. -n = k * b /\ k \in Int
    BY <2>1
  <2> HIDE DEF k
  <2>3. (k * b) % b = 0
    BY <2>2, WholeMultiple
  <2>. QED
    BY <2>2, <2>3
<1>2. -n = b * ((-n) \div b) /\ (-n) \div b \in Int
  BY <1>1, Division
<1>3. Quotient(n, b) = -((-n) \div b)
  BY DEF Quotient
<1>. QED
  BY <1>2, <1>3 DEF Remainder

(* A time taken from one file and given to another arrives as it was, but  *)
(* for a fraction of a second before 1970 (UnixNanotime.hpp:32-41).        *)
THEOREM CopiesKeepTheTime == Spec => CopyKeepsTheTime
<1> DEFINE kept == Nanoseconds(copied') = Instant(meant)
           turned == meant.sec < 0 /\ Instant(meant) % Second # 0
<1>1. ASSUME Known, Next, copied' # copied, meant # NoTime
      PROVE  kept \/ turned
  <2> DEFINE i == Instant(meant)
  <2>1. copied' = to_timespec(answer)
    BY <1>1 DEF Next, ConvertText, HandleTimes, TimeNext, GetLastWriteTime, GetCreationTime,
                FromTimeT, SetLastWriteTime, Touch, Reopen, times
  <2>2. meant \in Times /\ answer = FromKernel(meant)
    BY <1>1 DEF Known
  <2>3. /\ Before1970(answer) <=> i < 0
        /\ Before1970(answer) => Signed(answer) = i
        /\ ~Before1970(answer) => answer = i
    BY <2>2, WordOfATime
  <2>4. i \in Int /\ Second \in Nat \ {0}
    BY <2>2, InstantIs, WordIs
  <2>5. CASE i >= 0
    <3>1. copied' = [sec |-> i \div Second, nsec |-> i % Second]
      BY <2>1, <2>3, <2>4, <2>5 DEF to_timespec, to_time_t
    <3>2. Nanoseconds(copied') = (i \div Second) * Second + (i % Second)
      BY <3>1 DEF Nanoseconds
    <3>3. Second * (i \div Second) + (i % Second) = i /\ i \div Second \in Int
      BY <2>4, Division
    <3>4. (i \div Second) * Second = Second * (i \div Second)
      BY <2>4, <3>3
    <3>5. Nanoseconds(copied') = i
      BY <3>2, <3>3, <3>4
    <3>. QED
      BY <3>5
  <2>6. CASE i < 0 /\ i % Second = 0
    <3>1. copied' = [sec |-> Quotient(i, Second), nsec |-> -Remainder(i, Second)]
      BY <2>1, <2>3, <2>6 DEF to_timespec, to_time_t
    <3>2. Nanoseconds(copied') = Quotient(i, Second) * Second - Remainder(i, Second)
      <4>1. Remainder(i, Second) = 0 /\ Quotient(i, Second) * Second = i
        BY <2>4, <2>6, WholeSeconds
      <4>. QED
        BY <2>4, <3>1, <4>1 DEF Nanoseconds
    <3>. QED
      BY <2>4, <2>6, <3>2, WholeSeconds
  <2>7. CASE i < 0 /\ i % Second # 0
    <3>1. Nanoseconds(meant) < 0
      BY <2>2, <2>7, InstantIs, TimeIs
    <3>2. meant.sec \in Int /\ meant.nsec \in Nat /\ meant.sec * Second + meant.nsec < 0
      BY <2>2, <3>1, TimeIs
    <3>3. meant.sec < 0
      BY <2>4, <3>2
    <3>. QED
      BY <2>7, <3>3
  <2>. QED
    BY <2>4, <2>5, <2>6, <2>7
<1>2. ASSUME Known, [Next]_<<job, conversion, times>>
      PROVE  [copied' # copied /\ meant # NoTime => kept \/ turned]_times
  BY <1>1, <1>2 DEF times
<1>. QED
  BY <1>2, AlwaysKnown, PTL DEF Spec, CopyKeepsTheTime

-----------------------------------------------------------------------------
(* The first character of a string.                                        *)

LEMMA UnitsAre ==
  /\ Units(8) = Octets /\ Units(16) = 0 .. UNI_MAX_BMP /\ Units(32) = Nat
  /\ \A e \in {8, 16, 32} : Units(e) \subseteq Nat
<1>1. UNI_MAX_BMP \in Nat
  BY SMT DEF UNI_MAX_BMP
<1>. QED
  BY <1>1 DEF Units, Octets

LEMMA SurrogatesAre ==
  ASSUME NEW u \in Nat
  PROVE  /\ High(u) <=> u \in UNI_SUR_HIGH_START .. UNI_SUR_HIGH_END
         /\ Low(u) <=> IsLowSurrogate(u)
         /\ High(u) => u % 1024 = u - UNI_SUR_HIGH_START
         /\ Low(u) => u % 1024 = u - UNI_SUR_LOW_START
<1>1. (u \div 1024) * 1024 + (u % 1024) = u /\ u % 1024 \in 0 .. 1023 /\ u \div 1024 \in Nat
  BY SMT
<1>2. High(u) <=> u \in UNI_SUR_HIGH_START .. UNI_SUR_HIGH_END
  BY SMT DEF High, UNI_SUR_HIGH_START, UNI_SUR_HIGH_END
<1>3. Low(u) <=> IsLowSurrogate(u)
  BY SMT DEF Low, IsLowSurrogate, UNI_SUR_LOW_START, UNI_SUR_LOW_END
<1>4. High(u) => u % 1024 = u - UNI_SUR_HIGH_START
  BY SMT DEF High, UNI_SUR_HIGH_START
<1>5. Low(u) => u % 1024 = u - UNI_SUR_LOW_START
  BY SMT DEF Low, UNI_SUR_LOW_START
<1>. QED
  BY <1>2, <1>3, <1>4, <1>5

LEMMA PairIs ==
  ASSUME NEW h \in Nat, NEW l \in Nat, High(h), Low(l)
  PROVE  /\ (h - UNI_SUR_HIGH_START) * halfModulus + l - UNI_SUR_LOW_START + halfBase
              = 65536 + (h % 1024) * 1024 + (l % 1024)
         /\ 65536 + (h % 1024) * 1024 + (l % 1024) \in Nat
<1>1. h % 1024 = h - UNI_SUR_HIGH_START /\ l % 1024 = l - UNI_SUR_LOW_START
  BY SurrogatesAre
<1>2. h % 1024 \in Nat /\ l % 1024 \in Nat
  BY SMT
<1>3. UNI_SUR_HIGH_START \in Nat /\ UNI_SUR_LOW_START \in Nat
  BY SMT DEF UNI_SUR_HIGH_START, UNI_SUR_LOW_START
<1>. QED
  BY SMT, <1>1, <1>2, <1>3 DEF halfModulus, halfBase

LEMMA CharSize16Is ==
  ASSUME NEW r
  PROVE  /\ CharSize(16, r) = IF ~High(r[1]) THEN 1
                              ELSE IF Len(r) >= 2 /\ Low(r[2]) THEN 2 ELSE 0
         /\ FirstChar(16, r) = IF High(r[1]) THEN 65536 + (r[1] % 1024) * 1024 + (r[2] % 1024)
                               ELSE r[1]
BY SMT DEF CharSize, FirstChar

LEMMA Decode16Is ==
  ASSUME NEW r \in Seq(Nat), r # <<>>
  PROVE  /\ decode16(r).ok <=> CharSize(16, r) # 0
         /\ decode16(r).ok \in BOOLEAN
         /\ decode16(r).ok => /\ decode16(r).used = CharSize(16, r)
                              /\ decode16(r).ch = FirstChar(16, r) /\ decode16(r).ch \in Nat
                              /\ decode16(r).used \in 1 .. 4 /\ decode16(r).used <= Len(r)
         /\ ~decode16(r).ok => decode16(r).used = 1
<1>1. Len(r) \in Nat \ {0} /\ r[1] \in Nat /\ (Len(r) >= 2 => r[2] \in Nat)
  OBVIOUS
<1>2. CASE ~High(r[1])
  <2>1. r[1] \notin UNI_SUR_HIGH_START .. UNI_SUR_HIGH_END
    BY <1>1, <1>2, SurrogatesAre
  <2>2. decode16(r) = [ok |-> TRUE, ch |-> r[1], used |-> 1]
    BY <2>1 DEF decode16
  <2>. QED
    BY <1>1, <1>2, <2>2, CharSize16Is
<1>3. CASE High(r[1]) /\ Len(r) >= 2 /\ Low(r[2])
  <2>1. r[1] \in UNI_SUR_HIGH_START .. UNI_SUR_HIGH_END /\ IsLowSurrogate(r[2])
    BY <1>1, <1>3, SurrogatesAre
  <2> DEFINE v == (r[1] - UNI_SUR_HIGH_START) * halfModulus + r[2] - UNI_SUR_LOW_START + halfBase
  <2>2. v = 65536 + (r[1] % 1024) * 1024 + (r[2] % 1024) /\ v \in Nat
    BY <1>1, <1>3, PairIs
  <2>3. decode16(r) = [ok |-> TRUE, ch |-> v, used |-> 2]
    BY <1>3, <2>1 DEF decode16
  <2> HIDE DEF v
  <2>4. CharSize(16, r) = 2 /\ FirstChar(16, r) = v
    BY SMT, <1>3, <2>2, CharSize16Is
  <2>. QED
    BY <1>1, <1>3, <2>2, <2>3, <2>4
<1>4. CASE High(r[1]) /\ ~(Len(r) >= 2 /\ Low(r[2]))
  <2>1. r[1] \in UNI_SUR_HIGH_START .. UNI_SUR_HIGH_END /\ ~(Len(r) >= 2 /\ IsLowSurrogate(r[2]))
    BY <1>1, <1>4, SurrogatesAre
  <2>2. decode16(r) = [ok |-> FALSE, ch |-> 0, used |-> 1]
    BY <2>1 DEF decode16, Failed
  <2>. QED
    BY <1>1, <1>4, <2>2, CharSize16Is
<1>. QED
  BY <1>2, <1>3, <1>4

LEMMA Decode32Is ==
  ASSUME NEW r \in Seq(Nat), r # <<>>
  PROVE  /\ CharSize(32, r) = 1 /\ FirstChar(32, r) = r[1] /\ r[1] \in Nat /\ Len(r) >= 1
         /\ decode32(r) = [ok |-> TRUE, ch |-> r[1], used |-> 1]
BY DEF CharSize, FirstChar, decode32

(* decode() of each encoding.                                              *)
LEMMA DecodeIs ==
  ASSUME from \in {8, 16, 32}, NEW r \in Seq(Units(from)), r # <<>>
  PROVE  /\ Decode(r).ok <=> CharSize(from, r) # 0
         /\ Decode(r).ok \in BOOLEAN
         /\ Decode(r).ok => /\ Decode(r).used = CharSize(from, r)
                            /\ Decode(r).ch = FirstChar(from, r) /\ Decode(r).ch \in Nat
                            /\ Decode(r).used \in 1 .. 4 /\ Decode(r).used <= Len(r)
         /\ Decode(r).used \in 0 .. Len(r)
<1>1. Len(r) \in Nat \ {0}
  OBVIOUS
<1>2. CASE from = 8
  <2>1. r \in Seq(Octets) /\ Decode(r) = decode8(r)
    BY <1>2, UnitsAre DEF Decode
  <2> DEFINE d == decode8(r)
  <2>2. /\ d.ok <=> CharSize(8, r) # 0
        /\ d.ok \in BOOLEAN
        /\ d.ok => /\ d.used = CharSize(8, r) /\ d.ch = FirstChar(8, r)
                   /\ d.used \in 1 .. 4 /\ d.used <= Len(r)
                   /\ WellFormed(SubSeq(r, 1, d.used))
        /\ ~d.ok => d.used = 0
    BY <2>1, Decode8Is
  <2> HIDE DEF d
  <2>3. d.ok => d.ch \in Nat
    <3>1. SUFFICES ASSUME d.ok PROVE d.ch \in Nat
      OBVIOUS
    <3>2. d.used \in 1 .. 4 /\ d.used <= Len(r) /\ WellFormed(SubSeq(r, 1, d.used))
      BY <2>2, <3>1
    <3>3. d.ch = Payload(SubSeq(r, 1, d.used))
      BY <2>1, <2>2, <3>1, <3>2, OneSize
    <3>. QED
      BY <2>1, <3>2, <3>3, Agree
  <2>. QED
    BY <1>1, <1>2, <2>1, <2>2, <2>3 DEF d
<1>3. CASE from = 16
  <2>1. r \in Seq(Nat) /\ Decode(r) = decode16(r)
    BY <1>3, UnitsAre DEF Decode
  <2>. QED
    BY <1>1, <1>3, <2>1, Decode16Is
<1>4. CASE from = 32
  <2>1. r \in Seq(Nat) /\ Decode(r) = decode32(r)
    BY <1>4, UnitsAre DEF Decode
  <2>2. /\ CharSize(from, r) = 1 /\ FirstChar(from, r) = r[1] /\ r[1] \in Nat
        /\ Decode(r) = [ok |-> TRUE, ch |-> r[1], used |-> 1]
    BY <1>4, <2>1, Decode32Is
  <2>. QED
    BY <1>1, <2>2
<1>. QED
  BY <1>2, <1>3, <1>4

-----------------------------------------------------------------------------
(* Nothing is decoded beyond the end of the source.                        *)
Sources ==
  /\ from \in {8, 16, 32} /\ to \in {0, 8, 16, 32} \ {from}
  /\ src \in Seq(Units(from)) /\ source \in 0 .. Len(src)

LEMMA RestIs ==
  ASSUME Sources, source < Len(src)
  PROVE  /\ Rest \in Seq(Units(from)) /\ Len(Rest) = Len(src) - source /\ Rest # <<>>
         /\ \A i \in 1 .. Len(Rest) : Rest[i] = src[source + i]
<1> DEFINE U == Units(from)
<1>1. src \in Seq(U) /\ source \in 0 .. Len(src)
  BY DEF Sources
<1> HIDE DEF U
<1>2. /\ Rest \in Seq(U) /\ Len(Rest) = Len(src) - source
      /\ \A i \in 1 .. Len(Rest) : Rest[i] = src[source + i]
  BY <1>1 DEF Rest
<1>3. Rest # <<>>
  BY <1>1, <1>2
<1>. QED
  BY <1>2, <1>3 DEF U

LEMMA DecodeRest ==
  ASSUME Sources, source < Len(src)
  PROVE  /\ Decode(Rest).ok \in BOOLEAN
         /\ source + Decode(Rest).used \in 0 .. Len(src)
         /\ Decode(Rest).ok => source + Decode(Rest).used > source
<1>1. Rest \in Seq(Units(from)) /\ Len(Rest) = Len(src) - source /\ Rest # <<>>
  BY RestIs
<1>2. from \in {8, 16, 32} /\ source \in 0 .. Len(src) /\ Len(src) \in Nat
  BY DEF Sources
<1> DEFINE d == Decode(Rest)
<1>3. d.ok \in BOOLEAN /\ d.used \in 0 .. Len(Rest) /\ (d.ok => d.used \in 1 .. 4)
  BY <1>1, <1>2, DecodeIs
<1> HIDE DEF d
<1>. QED
  BY <1>1, <1>2, <1>3 DEF d

LEMMA InitSources == Init => Sources
<1>1. ASSUME ConvertInit PROVE Sources
  <2>1. source = 0 /\ to \in {0, 8, 16, 32} \ {from}
    BY <1>1 DEF ConvertInit
  <2>2. from \in {8, 16, 32} /\ src \in Seq(Units(from))
    BY <1>1, StringsAssumption, UnitsAre DEF ConvertInit, Octets
  <2>3. Len(src) \in Nat
    BY <2>2
  <2>. QED
    BY <2>1, <2>2, <2>3 DEF Sources
<1>2. ASSUME ConvertIdle PROVE Sources
  BY <1>2 DEF ConvertIdle, Sources
<1>. QED
  BY <1>1, <1>2 DEF Init

LEMMA NextSources == Sources /\ [Next]_<<job, conversion, times>> => Sources'
<1> SUFFICES ASSUME Sources, [Next]_<<job, conversion, times>> PROVE Sources'
  OBVIOUS
<1>1. CASE Convert
  <2>1. source' = source + Decode(Rest).used /\ source < Len(src) /\ UNCHANGED <<from, to, src>>
    BY <1>1 DEF Convert
  <2>2. source' \in 0 .. Len(src)
    BY <2>1, DecodeRest
  <2>. QED
    BY <2>1, <2>2 DEF Sources, Units
<1>2. CASE UNCHANGED <<from, to, src, source>>
  BY <1>2 DEF Sources, Units
<1>. QED
  BY <1>1, <1>2 DEF Next, ConvertText, HandleTimes, ConvertNext, ConvertReturn, conversion

LEMMA AlwaysSources == Spec => []Sources
BY InitSources, NextSources, PTL DEF Spec

(* decode() of UTF-8 takes what the standard calls well formed, all of it, *)
(* and nothing else (utf.hpp:162-244).                                     *)
THEOREM DecodingIsExact == Spec => []DecodeIsExact
<1>1. ASSUME Sources PROVE DecodeIsExact
  <2>1. SUFFICES ASSUME from = 8, source < Len(src)
                 PROVE  LET d == decode8(Rest)
                            prefixes == {SubSeq(Rest, 1, n) : n \in 1 .. 4 \cap 1 .. Len(Rest)}
                        IN  /\ d.ok = (\E s \in prefixes : WellFormed(s))
                            /\ d.ok => /\ WellFormed(SubSeq(Rest, 1, d.used))
                                       /\ d.ch = Payload(SubSeq(Rest, 1, d.used))
    BY DEF DecodeIsExact
  <2> DEFINE r == Rest
             d == decode8(Rest)
  <2>2. r \in Seq(Octets) /\ r # <<>> /\ Len(r) \in Nat
    BY <1>1, <2>1, RestIs, UnitsAre
  <2>3. /\ d.ok <=> CharSize(8, r) # 0
        /\ d.ok \in BOOLEAN
        /\ d.ok => /\ d.used \in 1 .. 4 /\ d.used <= Len(r)
                   /\ WellFormed(SubSeq(r, 1, d.used)) /\ d.ch = FirstChar(8, r)
    BY <2>2, Decode8Is
  <2> HIDE DEF d, r
  <2>4. d.ok => d.ch = Payload(SubSeq(r, 1, d.used))
    BY <2>2, <2>3, OneSize
  <2>5. d.ok <=> \E n \in 1 .. 4 : n <= Len(r) /\ WellFormed(SubSeq(r, 1, n))
    <3>1. ASSUME NEW n \in 1 .. 4, n <= Len(r), WellFormed(SubSeq(r, 1, n)) PROVE d.ok
      <4>1. CharSize(8, r) = n
        BY <2>2, <3>1, OneSize
      <4>. QED
        BY <2>3, <4>1
    <3>. QED
      BY <2>3, <3>1
  <2>6. 1 .. 4 \cap 1 .. Len(r) = {n \in 1 .. 4 : n <= Len(r)}
    BY <2>2
  <2>7. d.ok = (\E s \in {SubSeq(r, 1, n) : n \in 1 .. 4 \cap 1 .. Len(r)} : WellFormed(s))
    BY <2>3, <2>5, <2>6
  <2>. QED
    BY <2>3, <2>4, <2>7 DEF d, r
<1>. QED
  BY <1>1, AlwaysSources, PTL

-----------------------------------------------------------------------------
(* The texts of the tails of a string of n units: size[i] units from i on  *)
(* are the character first[i].                                             *)
TextFrom(g, i, n, size, first) ==
  IF i > n THEN <<>> ELSE IF size[i] = 0 THEN NotText ELSE Then(first[i], g[i + size[i]])

AreTails(g, n, size, first) ==
  g = [i \in 1 .. n + 1 |-> TextFrom(g, i, n, size, first)]

Fits(n, size) == size \in [1 .. n -> Nat] /\ \A i \in 1 .. n : size[i] <= n + 1 - i

From(m, n, f, g) == \A i \in 1 .. n - m : f[i] = g[i + m]

LEMMA TailsExist ==
  ASSUME NEW n \in Nat, NEW size, NEW first, Fits(n, size)
  PROVE  \E g : AreTails(g, n, size, first)
<1> USE DEF Fits
<1> DEFINE Good(k) == \E g : g = [i \in n + 1 - k .. n + 1 |-> TextFrom(g, i, n, size, first)]
           S == {k \in Nat : k <= n => Good(k)}
<1>1. 0 \in S
  <2> DEFINE g == [i \in n + 1 - 0 .. n + 1 |-> <<>>]
  <2>1. g = [i \in n + 1 - 0 .. n + 1 |-> TextFrom(g, i, n, size, first)]
    BY DEF TextFrom
  <2>2. Good(0)
    BY <2>1
  <2>. QED
    BY <2>2
<1>2. ASSUME NEW k \in Nat, k \in S PROVE k + 1 \in S
  <2>1. SUFFICES ASSUME k + 1 <= n PROVE Good(k + 1)
    OBVIOUS
  <2>2. PICK g : g = [i \in n + 1 - k .. n + 1 |-> TextFrom(g, i, n, size, first)]
    BY <1>2, <2>1
  <2> DEFINE j == n + 1 - (k + 1)
  <2>3. j \in 1 .. n /\ j + 1 = n + 1 - k
    BY <2>1
  <2> HIDE DEF j
  <2> DEFINE h == [i \in j .. n + 1 |-> IF i = j THEN TextFrom(g, j, n, size, first) ELSE g[i]]
  <2>4. \A i \in j + 1 .. n + 1 : h[i] = g[i] /\ g[i] = TextFrom(g, i, n, size, first)
    <3>1. g = [i \in j + 1 .. n + 1 |-> TextFrom(g, i, n, size, first)]
      BY <2>2, <2>3
    <3>2. \A i \in j + 1 .. n + 1 : i \in j .. n + 1 /\ i # j
      BY <2>3
    <3>. QED
      BY <3>1, <3>2
  <2>5. ASSUME NEW i \in j .. n + 1 PROVE h[i] = TextFrom(h, i, n, size, first)
    <3>1. h[i] = TextFrom(g, i, n, size, first)
      <4>1. i = j \/ i \in j + 1 .. n + 1
        BY <2>3
      <4>2. j \in j .. n + 1
        BY <2>3
      <4>3. h[j] = TextFrom(g, j, n, size, first)
        BY <4>2
      <4> HIDE DEF h
      <4>. QED
        BY <2>4, <4>1, <4>3
    <3>2. i <= n /\ size[i] # 0 => i + size[i] \in j + 1 .. n + 1
      BY <2>3
    <3>3. i <= n /\ size[i] # 0 => h[i + size[i]] = g[i + size[i]]
      BY <2>4, <3>2
    <3>4. i <= n \/ i > n
      BY <2>3
    <3> HIDE DEF h
    <3>. QED
      BY <2>3, <3>1, <3>3, <3>4 DEF TextFrom
  <2>6. h = [i \in j .. n + 1 |-> TextFrom(h, i, n, size, first)]
    <3>1. h = [i \in j .. n + 1 |-> h[i]]
      OBVIOUS
    <3> HIDE DEF h
    <3>. QED
      BY <2>5, <3>1
  <2>. QED
    BY <2>6 DEF j
<1>3. n \in S
  <2> HIDE DEF S
  <2>. QED
    BY <1>1, <1>2, SetInduction
<1>4. Good(n)
  BY <1>3
<1>5. n + 1 - n = 1
  OBVIOUS
<1>. QED
  BY <1>4, <1>5 DEF AreTails

(* The tails of a tail are those of the whole.                             *)
LEMMA TailsOfATail ==
  ASSUME NEW n \in Nat, NEW m \in 0 .. n,
         NEW size, NEW first, NEW size2, NEW first2, NEW g, NEW h,
         Fits(n, size), From(m, n, size2, size), From(m, n, first2, first),
         AreTails(g, n, size, first), AreTails(h, n - m, size2, first2)
  PROVE  \A j \in 1 .. n - m + 1 : h[j] = g[j + m]
<1> USE DEF Fits, From
<1> DEFINE S == {k \in Nat : \A j \in 1 .. n - m + 1 : n - m + 1 - j <= k => h[j] = g[j + m]}
<1>1. \A i \in 1 .. n + 1 : g[i] = TextFrom(g, i, n, size, first)
  BY DEF AreTails
<1>2. \A j \in 1 .. n - m + 1 : h[j] = TextFrom(h, j, n - m, size2, first2)
  BY DEF AreTails
<1>3. 0 \in S
  <2>1. ASSUME NEW j \in 1 .. n - m + 1, n - m + 1 - j <= 0 PROVE h[j] = g[j + m]
    <3>1. j = n - m + 1 /\ j + m = n + 1
      BY <2>1
    <3>2. h[j] = <<>>
      BY <1>2, <3>1 DEF TextFrom
    <3>3. g[j + m] = <<>>
      BY <1>1, <3>1 DEF TextFrom
    <3>. QED
      BY <3>2, <3>3
  <2>. QED
    BY <2>1
<1>4. ASSUME NEW k \in Nat, k \in S PROVE k + 1 \in S
  <2>1. ASSUME NEW j \in 1 .. n - m + 1, n - m + 1 - j <= k + 1 PROVE h[j] = g[j + m]
    <3>1. CASE n - m + 1 - j <= k
      BY <1>4, <3>1
    <3>2. CASE j <= n - m
      <4>1. j + m \in 1 .. n + 1 /\ j + m <= n /\ j \in 1 .. n - m /\ j + m \in 1 .. n
        BY <3>2
      <4>2. h[j] = IF size2[j] = 0 THEN NotText ELSE Then(first2[j], h[j + size2[j]])
        BY <1>2, <4>1 DEF TextFrom
      <4>3. g[j + m] = IF size[j + m] = 0 THEN NotText
                       ELSE Then(first[j + m], g[(j + m) + size[j + m]])
        BY <1>1, <4>1 DEF TextFrom
      <4>4. size2[j] = size[j + m] /\ first2[j] = first[j + m]
        BY <4>1
      <4>5. size[j + m] \in Nat /\ size[j + m] <= n + 1 - (j + m)
        BY <4>1
      <4>6. size[j + m] # 0 => h[j + size2[j]] = g[(j + m) + size[j + m]]
        <5>1. SUFFICES ASSUME size[j + m] # 0 PROVE h[j + size2[j]] = g[(j + m) + size[j + m]]
          OBVIOUS
        <5>2. PICK z \in Nat : size[j + m] = z /\ size2[j] = z
          BY <4>4, <4>5
        <5>3. /\ j + z \in 1 .. n - m + 1 /\ n - m + 1 - (j + z) <= k
              /\ (j + z) + m = (j + m) + z
          BY <2>1, <4>5, <5>1, <5>2
        <5>4. h[j + z] = g[(j + z) + m]
          BY <1>4, <5>3
        <5>. QED
          BY <5>2, <5>3, <5>4
      <4>. QED
        BY <4>2, <4>3, <4>4, <4>6
    <3>. QED
      BY <2>1, <3>1, <3>2
  <2>. QED
    BY <2>1
<1> HIDE DEF S
<1>5. Nat \subseteq S
  BY <1>3, <1>4, SetInduction
<1>6. ASSUME NEW j \in 1 .. n - m + 1 PROVE h[j] = g[j + m]
  <2>1. n - m + 1 - j \in Nat
    OBVIOUS
  <2>2. n - m + 1 - j \in S
    BY <1>5, <2>1
  <2>. QED
    BY <2>1, <2>2 DEF S
<1>. QED
  BY <1>6

-----------------------------------------------------------------------------
(* The text of a string is that of its first character and of the rest.    *)

Encodings == {8, 16, 32}

LEMMA StringInduction ==
  ASSUME NEW U, NEW S, <<>> \in S,
         \A s \in Seq(U) : s # <<>> /\ (\A r \in Seq(U) : Len(r) < Len(s) => r \in S) => s \in S
  PROVE  Seq(U) \subseteq S
<1> DEFINE N == {n \in Nat : \A s \in Seq(U) : Len(s) <= n => s \in S}
<1>1. 0 \in N
  <2>1. \A s \in Seq(U) : Len(s) <= 0 => s = <<>>
    OBVIOUS
  <2>. QED
    BY <2>1
<1>2. ASSUME NEW n \in Nat, n \in N PROVE n + 1 \in N
  <2>1. ASSUME NEW s \in Seq(U), Len(s) <= n + 1 PROVE s \in S
    <3>1. \A r \in Seq(U) : Len(r) < Len(s) => Len(r) <= n
      BY <2>1
    <3>2. \A r \in Seq(U) : Len(r) < Len(s) => r \in S
      BY <1>2, <3>1
    <3>. QED
      BY <3>2
  <2>. QED
    BY <2>1
<1> HIDE DEF N
<1>3. Nat \subseteq N
  BY <1>1, <1>2, SetInduction
<1>4. ASSUME NEW s \in Seq(U) PROVE s \in S
  <2>1. Len(s) \in N
    BY <1>3
  <2>. QED
    BY <2>1 DEF N
<1>. QED
  BY <1>4

LEMMA Suffix ==
  ASSUME NEW U, NEW s \in Seq(U), NEW i \in 1 .. Len(s) + 1
  PROVE  /\ SubSeq(s, i, Len(s)) \in Seq(U) /\ Len(SubSeq(s, i, Len(s))) = Len(s) + 1 - i
         /\ \A j \in 1 .. Len(s) + 1 - i : SubSeq(s, i, Len(s))[j] = s[i + j - 1]
OBVIOUS

LEMMA SameSeqs ==
  ASSUME NEW U, NEW s \in Seq(U), NEW r \in Seq(U), Len(s) = Len(r),
         \A i \in 1 .. Len(s) : s[i] = r[i]
  PROVE  s = r
OBVIOUS

LEMMA SuffixOfASuffix ==
  ASSUME NEW U, NEW s \in Seq(U), NEW i \in 1 .. Len(s) + 1, NEW j \in 1 .. Len(s) + 2 - i
  PROVE  LET r == SubSeq(s, i, Len(s)) IN
         SubSeq(r, j, Len(r)) = SubSeq(s, i + j - 1, Len(s))
<1> DEFINE r == SubSeq(s, i, Len(s))
           t == SubSeq(r, j, Len(r))
           k == i + j - 1
           u == SubSeq(s, k, Len(s))
<1>1. /\ r \in Seq(U) /\ Len(r) = Len(s) + 1 - i
      /\ \A x \in 1 .. Len(s) + 1 - i : r[x] = s[i + x - 1]
  BY Suffix
<1> HIDE DEF r
<1>2. /\ t \in Seq(U) /\ Len(t) = Len(r) + 1 - j
      /\ \A x \in 1 .. Len(r) + 1 - j : t[x] = r[j + x - 1]
  BY <1>1, Suffix
<1>3. k \in 1 .. Len(s) + 1
  OBVIOUS
<1> HIDE DEF t
<1>4. /\ u \in Seq(U) /\ Len(u) = Len(s) + 1 - k
      /\ \A x \in 1 .. Len(s) + 1 - k : u[x] = s[k + x - 1]
  <2> HIDE DEF k
  <2>. QED
    BY <1>3, Suffix
<1> HIDE DEF u
<1>5. Len(t) = Len(u)
  BY <1>1, <1>2, <1>4
<1>6. ASSUME NEW x \in 1 .. Len(t) PROVE t[x] = u[x]
  <2>1. x \in 1 .. Len(r) + 1 - j /\ j + x - 1 \in 1 .. Len(s) + 1 - i /\ x \in 1 .. Len(s) + 1 - k
    BY <1>1, <1>2
  <2>2. t[x] = r[j + x - 1] /\ r[j + x - 1] = s[i + (j + x - 1) - 1] /\ u[x] = s[k + x - 1]
    BY <1>1, <1>2, <1>4, <2>1
  <2>3. i + (j + x - 1) - 1 = k + x - 1
    OBVIOUS
  <2>. QED
    BY <2>2, <2>3
<1>7. t = u
  BY <1>2, <1>4, <1>5, <1>6, SameSeqs
<1>. QED
  BY <1>7 DEF r, t, u

LEMMA CharSizeIs ==
  ASSUME NEW e \in Encodings, NEW s \in Seq(Units(e)), s # <<>>
  PROVE  /\ CharSize(e, s) \in 0 .. 4 /\ CharSize(e, s) <= Len(s)
         /\ CharSize(e, s) # 0 => FirstChar(e, s) \in Nat
<1>1. CASE e = 8
  <2>1. s \in Seq(Octets)
    BY <1>1, UnitsAre
  <2>2. CASE CharSize(8, s) # 0
    <3>1. PICK n \in 1 .. 4 : n <= Len(s) /\ WellFormed(SubSeq(s, 1, n))
      BY <2>1, <2>2, NoSize
    <3>2. CharSize(8, s) = n /\ FirstChar(8, s) = Payload(SubSeq(s, 1, n))
      BY <2>1, <3>1, OneSize
    <3>3. Payload(SubSeq(s, 1, n)) \in Nat
      BY <2>1, <3>1, Agree
    <3>. QED
      BY <1>1, <3>1, <3>2, <3>3
  <2>3. CASE CharSize(8, s) = 0
    BY <1>1, <2>3
  <2>. QED
    BY <2>2, <2>3
<1>2. CASE e = 16
  <2>1. s \in Seq(Nat)
    BY <1>2, UnitsAre
  <2>2. decode16(s).used \in 1 .. 4 \/ CharSize(16, s) = 0
    BY <2>1, Decode16Is
  <2>. QED
    BY <1>2, <2>1, <2>2, Decode16Is
<1>3. CASE e = 32
  <2>1. s \in Seq(Nat)
    BY <1>3, UnitsAre
  <2>2. CharSize(32, s) = 1 /\ FirstChar(32, s) = s[1] /\ s[1] \in Nat /\ Len(s) >= 1
    BY <2>1, Decode32Is
  <2>. QED
    BY <1>3, <2>2
<1>. QED
  BY <1>1, <1>2, <1>3 DEF Encodings

(* What follows the first character does not matter for it.                *)
LEMMA SameStart ==
  ASSUME NEW e \in Encodings, NEW s \in Seq(Units(e)), NEW r \in Seq(Units(e)), s # <<>>,
         CharSize(e, s) # 0, CharSize(e, s) <= Len(r),
         \A i \in 1 .. CharSize(e, s) : r[i] = s[i]
  PROVE  CharSize(e, r) = CharSize(e, s) /\ FirstChar(e, r) = FirstChar(e, s)
<1>1. CASE e = 8
  <2>1. s \in Seq(Octets) /\ r \in Seq(Octets)
    BY <1>1, UnitsAre
  <2>2. PICK n \in 1 .. 4 : n <= Len(s) /\ WellFormed(SubSeq(s, 1, n))
    BY <1>1, <2>1, NoSize
  <2>3. CharSize(8, s) = n /\ FirstChar(8, s) = Payload(SubSeq(s, 1, n))
    BY <2>1, <2>2, OneSize
  <2>4. n <= Len(r) /\ \A i \in 1 .. n : r[i] = s[i]
    BY <1>1, <2>3
  <2>5. SubSeq(r, 1, n) = SubSeq(s, 1, n)
    <3>1. n \in 0 .. Len(s) /\ n \in 0 .. Len(r)
      BY <2>1, <2>2, <2>4
    <3> DEFINE a == SubSeq(r, 1, n)
               b == SubSeq(s, 1, n)
    <3>2. /\ a \in Seq(Octets) /\ Len(a) = n /\ \A i \in 1 .. n : a[i] = r[i]
          /\ b \in Seq(Octets) /\ Len(b) = n /\ \A i \in 1 .. n : b[i] = s[i]
      BY <2>1, <3>1, Prefix
    <3> HIDE DEF a, b
    <3>3. a = b
      BY <2>4, <3>2, SameSeqs
    <3>. QED
      BY <3>3 DEF a, b
  <2>6. CharSize(8, r) = n /\ FirstChar(8, r) = Payload(SubSeq(r, 1, n))
    BY <2>1, <2>2, <2>4, <2>5, OneSize
  <2>. QED
    BY <1>1, <2>3, <2>5, <2>6
<1>2. CASE e = 16
  <2>1. s \in Seq(Nat) /\ r \in Seq(Nat) /\ Len(s) >= 1
    BY <1>2, UnitsAre
  <2>2. CASE ~High(s[1])
    <3>1. CharSize(16, s) = 1
      BY <2>2, CharSize16Is
    <3>2. Len(r) >= 1 /\ r[1] = s[1]
      BY <1>2, <3>1
    <3>. QED
      BY <1>2, <2>2, <3>1, <3>2, CharSize16Is
  <2>3. CASE High(s[1])
    <3>1. CharSize(16, s) = 2 /\ Len(s) >= 2 /\ Low(s[2])
      BY <1>2, <2>3, CharSize16Is
    <3>2. Len(r) >= 2 /\ r[1] = s[1] /\ r[2] = s[2]
      BY <1>2, <3>1
    <3>3. CharSize(16, r) = 2
      BY <2>3, <3>1, <3>2, CharSize16Is
    <3>4. FirstChar(16, r) = FirstChar(16, s)
      BY <2>3, <3>2, CharSize16Is
    <3>. QED
      BY <1>2, <3>1, <3>3, <3>4
  <2>. QED
    BY <2>2, <2>3
<1>3. CASE e = 32
  <2>1. s \in Seq(Nat) /\ r \in Seq(Nat)
    BY <1>3, UnitsAre
  <2>2. CharSize(32, s) = 1 /\ FirstChar(32, s) = s[1]
    BY <2>1, Decode32Is
  <2>3. Len(r) >= 1 /\ r[1] = s[1]
    BY <1>3, <2>2
  <2>4. r # <<>>
    BY <2>3
  <2>. QED
    BY <1>3, <2>1, <2>2, <2>3, <2>4, Decode32Is
<1>. QED
  BY <1>1, <1>2, <1>3 DEF Encodings

Sizes(e, s)  == [i \in 1 .. Len(s) |-> CharSize(e, SubSeq(s, i, Len(s)))]
Firsts(e, s) == [i \in 1 .. Len(s) |-> FirstChar(e, SubSeq(s, i, Len(s)))]

LEMMA SizesAre ==
  ASSUME NEW e \in Encodings, NEW s \in Seq(Units(e))
  PROVE  /\ Fits(Len(s), Sizes(e, s))
         /\ \A i \in 1 .. Len(s) :
              /\ Sizes(e, s)[i] = CharSize(e, SubSeq(s, i, Len(s)))
              /\ Firsts(e, s)[i] = FirstChar(e, SubSeq(s, i, Len(s)))
              /\ Sizes(e, s)[i] <= Len(s) + 1 - i
              /\ Sizes(e, s)[i] # 0 => Firsts(e, s)[i] \in Nat
<1>1. ASSUME NEW i \in 1 .. Len(s)
      PROVE  LET r == SubSeq(s, i, Len(s)) IN
             /\ CharSize(e, r) \in Nat /\ CharSize(e, r) <= Len(s) + 1 - i
             /\ CharSize(e, r) # 0 => FirstChar(e, r) \in Nat
  <2> DEFINE r == SubSeq(s, i, Len(s))
  <2>1. r \in Seq(Units(e)) /\ Len(r) = Len(s) + 1 - i
    BY Suffix
  <2> HIDE DEF r
  <2>2. r # <<>>
    BY <2>1
  <2>3. /\ CharSize(e, r) \in 0 .. 4 /\ CharSize(e, r) <= Len(r)
        /\ CharSize(e, r) # 0 => FirstChar(e, r) \in Nat
    BY <2>1, <2>2, CharSizeIs
  <2>. QED
    BY <2>1, <2>3 DEF r
<1>. QED
  BY <1>1 DEF Sizes, Firsts, Fits

LEMMA CharsAre ==
  ASSUME NEW e \in Encodings, NEW s \in Seq(Units(e))
  PROVE  \E g : AreTails(g, Len(s), Sizes(e, s), Firsts(e, s)) /\ Chars(e, s) = g[1]
<1> DEFINE n == Len(s)
           Body(f, i) == LET rest == SubSeq(s, i, Len(s))
                         IN  IF i > Len(s) THEN <<>>
                             ELSE IF CharSize(e, rest) = 0 THEN NotText
                             ELSE Then(FirstChar(e, rest), f[i + CharSize(e, rest)])
           text == CHOOSE f : f = [i \in 1 .. Len(s) + 1 |-> Body(f, i)]
<1>1. n \in Nat
  OBVIOUS
<1>2. ASSUME NEW f, NEW i \in 1 .. n + 1
      PROVE  Body(f, i) = TextFrom(f, i, n, Sizes(e, s), Firsts(e, s))
  <2>1. CASE i > n
    BY <2>1 DEF TextFrom
  <2>2. CASE i \in 1 .. n
    <3>1. /\ Sizes(e, s)[i] = CharSize(e, SubSeq(s, i, Len(s)))
          /\ Firsts(e, s)[i] = FirstChar(e, SubSeq(s, i, Len(s)))
      BY <2>2, SizesAre
    <3>. QED
      BY Zenon, <3>1 DEF TextFrom
  <2>. QED
    BY <1>1, <2>1, <2>2
<1>3. Chars(e, s) = text[1]
  BY Zenon DEF Chars
<1> HIDE DEF Body
<1>4. \A f : [i \in 1 .. n + 1 |-> Body(f, i)]
               = [i \in 1 .. n + 1 |-> TextFrom(f, i, n, Sizes(e, s), Firsts(e, s))]
  BY <1>2
<1>5. \E f : f = [i \in 1 .. n + 1 |-> Body(f, i)]
  <2>1. PICK g : AreTails(g, n, Sizes(e, s), Firsts(e, s))
    BY <1>1, SizesAre, TailsExist
  <2>2. g = [i \in 1 .. n + 1 |-> Body(g, i)]
    BY Zenon, <1>4, <2>1 DEF AreTails
  <2>. QED
    BY <2>2
<1>6. text = [i \in 1 .. n + 1 |-> Body(text, i)]
  BY <1>5
<1>7. AreTails(text, n, Sizes(e, s), Firsts(e, s))
  BY Zenon, <1>4, <1>6 DEF AreTails
<1>. QED
  BY <1>3, <1>7

LEMMA CharsOfNone == \A e \in Encodings : Chars(e, <<>>) = <<>>
<1> SUFFICES ASSUME NEW e \in Encodings PROVE Chars(e, <<>>) = <<>>
  OBVIOUS
<1>1. <<>> \in Seq(Units(e)) /\ Len(<<>>) = 0
  OBVIOUS
<1>2. PICK g : AreTails(g, 0, Sizes(e, <<>>), Firsts(e, <<>>)) /\ Chars(e, <<>>) = g[1]
  BY <1>1, CharsAre
<1>3. g[1] = TextFrom(g, 1, 0, Sizes(e, <<>>), Firsts(e, <<>>))
  BY <1>2 DEF AreTails
<1>. QED
  BY <1>2, <1>3 DEF TextFrom

LEMMA CharsOfSome ==
  ASSUME NEW e \in Encodings, NEW s \in Seq(Units(e)), s # <<>>
  PROVE  LET c == CharSize(e, s) IN
         Chars(e, s) = IF c = 0 THEN NotText
                       ELSE Then(FirstChar(e, s), Chars(e, SubSeq(s, c + 1, Len(s))))
<1> DEFINE c == CharSize(e, s)
           n == Len(s)
           r == SubSeq(s, c + 1, Len(s))
<1>1. n \in Nat \ {0} /\ c \in 0 .. n
  BY CharSizeIs
<1>2. PICK g : AreTails(g, n, Sizes(e, s), Firsts(e, s)) /\ Chars(e, s) = g[1]
  BY CharsAre
<1>3. SubSeq(s, 1, Len(s)) = s
  OBVIOUS
<1>4. Sizes(e, s)[1] = c /\ Firsts(e, s)[1] = FirstChar(e, s)
  <2>1. 1 \in 1 .. Len(s)
    BY <1>1
  <2>2. /\ Sizes(e, s)[1] = CharSize(e, SubSeq(s, 1, Len(s)))
        /\ Firsts(e, s)[1] = FirstChar(e, SubSeq(s, 1, Len(s)))
    BY <2>1, SizesAre
  <2>. QED
    BY Zenon, <1>3, <2>2
<1> HIDE DEF n, c
<1>5. g[1] = IF c = 0 THEN NotText ELSE Then(FirstChar(e, s), g[1 + c])
  <2>1. g[1] = TextFrom(g, 1, n, Sizes(e, s), Firsts(e, s))
    <3>1. 1 \in 1 .. n + 1
      BY <1>1
    <3>2. g = [i \in 1 .. n + 1 |-> TextFrom(g, i, n, Sizes(e, s), Firsts(e, s))]
      BY Zenon, <1>2 DEF AreTails
    <3>. QED
      BY Zenon, <3>1, <3>2
  <2>. QED
    BY <1>1, <1>4, <2>1 DEF TextFrom
<1>6. r \in Seq(Units(e)) /\ Len(r) = n - c
  <2>1. c + 1 \in 1 .. Len(s) + 1
    BY <1>1 DEF n
  <2>. QED
    BY <1>1, <2>1, Suffix DEF n
<1>7. PICK h : AreTails(h, n - c, Sizes(e, r), Firsts(e, r)) /\ Chars(e, r) = h[1]
  BY <1>6, CharsAre
<1>8. ASSUME NEW j \in 1 .. n - c
      PROVE  Sizes(e, r)[j] = Sizes(e, s)[j + c] /\ Firsts(e, r)[j] = Firsts(e, s)[j + c]
  <2>1. j \in 1 .. Len(r) /\ j + c \in 1 .. n
    BY <1>1, <1>6
  <2>2. SubSeq(r, j, Len(r)) = SubSeq(s, j + c, Len(s))
    <3>1. c + 1 \in 1 .. Len(s) + 1 /\ j \in 1 .. Len(s) + 2 - (c + 1) /\ (c + 1) + j - 1 = j + c
      BY <1>1 DEF n
    <3>. QED
      BY <3>1, SuffixOfASuffix
  <2>3. /\ Sizes(e, r)[j] = CharSize(e, SubSeq(r, j, Len(r)))
        /\ Firsts(e, r)[j] = FirstChar(e, SubSeq(r, j, Len(r)))
    BY <1>6, <2>1, SizesAre
  <2>4. /\ Sizes(e, s)[j + c] = CharSize(e, SubSeq(s, j + c, Len(s)))
        /\ Firsts(e, s)[j + c] = FirstChar(e, SubSeq(s, j + c, Len(s)))
    BY <2>1, SizesAre DEF n
  <2>. QED
    BY <2>2, <2>3, <2>4
<1>9. Fits(n, Sizes(e, s))
  BY SizesAre DEF n
<1>10. \A j \in 1 .. n - c + 1 : h[j] = g[j + c]
  <2>1. From(c, n, Sizes(e, r), Sizes(e, s)) /\ From(c, n, Firsts(e, r), Firsts(e, s))
    BY <1>8 DEF From
  <2>2. n \in Nat /\ c \in 0 .. n
    BY <1>1
  <2>. QED
    BY <1>2, <1>7, <1>9, <2>1, <2>2, TailsOfATail
<1>11. h[1] = g[1 + c]
  BY <1>1, <1>10
<1>. QED
  BY <1>2, <1>5, <1>7, <1>11 DEF c

LEMMA NotTextIsNoText == NotText \notin Seq(Nat)
BY DEF NotText

LEMMA CharsType ==
  ASSUME NEW e \in Encodings, NEW s \in Seq(Units(e))
  PROVE  Chars(e, s) \in Seq(Nat) \cup {NotText}
<1> DEFINE U == Units(e)
           S == {t \in Seq(U) : Chars(e, t) \in Seq(Nat) \cup {NotText}}
<1>1. <<>> \in S
  <2>1. <<>> \in Seq(U) /\ <<>> \in Seq(Nat)
    OBVIOUS
  <2>. QED
    BY <2>1, CharsOfNone
<1>2. ASSUME NEW t \in Seq(U), t # <<>>, \A r \in Seq(U) : Len(r) < Len(t) => r \in S
      PROVE  t \in S
  <2> DEFINE c == CharSize(e, t)
             r == SubSeq(t, c + 1, Len(t))
  <2>1. Chars(e, t) = IF c = 0 THEN NotText ELSE Then(FirstChar(e, t), Chars(e, r))
    BY <1>2, CharsOfSome
  <2>2. c \in 0 .. Len(t) /\ (c # 0 => FirstChar(e, t) \in Nat)
    BY <1>2, CharSizeIs
  <2>3. CASE c = 0
    BY <2>1, <2>3
  <2>4. CASE c # 0
    <3>1. r \in Seq(U) /\ Len(r) < Len(t)
      <4>1. c + 1 \in 1 .. Len(t) + 1
        BY <2>2
      <4>2. r \in Seq(U) /\ Len(r) = Len(t) + 1 - (c + 1)
        BY <4>1, Suffix
      <4>. QED
        BY <2>2, <2>4, <4>2
    <3>2. Chars(e, r) \in Seq(Nat) \cup {NotText}
      BY <1>2, <3>1
    <3> HIDE DEF r
    <3>3. FirstChar(e, t) \in Nat
      BY <2>2, <2>4
    <3>4. Then(FirstChar(e, t), Chars(e, r)) \in Seq(Nat) \cup {NotText}
      BY <3>2, <3>3 DEF Then
    <3>. QED
      BY <2>1, <2>4, <3>4
  <2>. QED
    BY <2>3, <2>4
<1> HIDE DEF S
<1>3. Seq(U) \subseteq S
  BY <1>1, <1>2, StringInduction
<1>. QED
  BY <1>3 DEF S

LEMMA ConcatIs ==
  ASSUME NEW U, NEW p \in Seq(U), NEW q \in Seq(U)
  PROVE  /\ p \o q \in Seq(U) /\ Len(p \o q) = Len(p) + Len(q)
         /\ \A i \in 1 .. Len(p) : (p \o q)[i] = p[i]
         /\ \A i \in Len(p) + 1 .. Len(p) + Len(q) : (p \o q)[i] = q[i - Len(p)]
OBVIOUS

LEMMA Concatenation ==
  ASSUME NEW U, NEW p \in Seq(U), NEW q \in Seq(U), NEW c \in 0 .. Len(p)
  PROVE  /\ p \o q \in Seq(U) /\ Len(p \o q) = Len(p) + Len(q)
         /\ \A i \in 1 .. Len(p) : (p \o q)[i] = p[i]
         /\ SubSeq(p \o q, c + 1, Len(p \o q)) = SubSeq(p, c + 1, Len(p)) \o q
<1> DEFINE pq == p \o q
           a == SubSeq(pq, c + 1, Len(pq))
           r == SubSeq(p, c + 1, Len(p))
           b == r \o q
<1>1. /\ pq \in Seq(U) /\ Len(pq) = Len(p) + Len(q)
      /\ \A i \in 1 .. Len(p) : pq[i] = p[i]
      /\ \A i \in Len(p) + 1 .. Len(p) + Len(q) : pq[i] = q[i - Len(p)]
  OBVIOUS
<1> HIDE DEF pq
<1>2. /\ r \in Seq(U) /\ Len(r) = Len(p) - c /\ \A i \in 1 .. Len(p) - c : r[i] = p[c + i]
  OBVIOUS
<1> HIDE DEF r
<1>3. /\ b \in Seq(U) /\ Len(b) = Len(r) + Len(q)
      /\ \A i \in 1 .. Len(r) : b[i] = r[i]
      /\ \A i \in Len(r) + 1 .. Len(r) + Len(q) : b[i] = q[i - Len(r)]
  BY <1>2, ConcatIs
<1>4. c + 1 \in 1 .. Len(pq) + 1
  BY <1>1
<1>5. /\ a \in Seq(U) /\ Len(a) = Len(pq) - c /\ \A i \in 1 .. Len(pq) - c : a[i] = pq[c + i]
  BY <1>1, <1>4
<1> HIDE DEF a, b
<1>6. ASSUME NEW i \in 1 .. Len(a) PROVE a[i] = b[i]
  <2>1. CASE i <= Len(r)
    BY <1>1, <1>2, <1>3, <1>5, <2>1
  <2>2. CASE i > Len(r)
    <3>1. c + i \in Len(p) + 1 .. Len(p) + Len(q) /\ i \in Len(r) + 1 .. Len(r) + Len(q)
      BY <1>1, <1>2, <1>5, <2>2
    <3>2. a[i] = q[(c + i) - Len(p)] /\ b[i] = q[i - Len(r)]
      BY <1>1, <1>3, <1>5, <3>1
    <3>3. (c + i) - Len(p) = i - Len(r)
      BY <1>2
    <3>. QED
      BY <3>2, <3>3
  <2>. QED
    BY <1>2, <2>1, <2>2
<1>7. Len(a) = Len(b)
  BY <1>1, <1>2, <1>3, <1>5
<1>8. a = b
  BY <1>3, <1>5, <1>6, <1>7, SameSeqs
<1>. QED
  BY <1>1, <1>8 DEF a, b, pq, r

LEMMA SeqOfOne == ASSUME NEW U, NEW x \in U PROVE <<x>> \in Seq(U)
OBVIOUS

LEMMA ThenJoins ==
  ASSUME NEW ch \in Nat, NEW a \in Seq(Nat), NEW b \in Seq(Nat)
  PROVE  <<ch>> \o (a \o b) = (<<ch>> \o a) \o b
<1>1. PICK c \in Seq(Nat) : c = <<ch>>
  BY SeqOfOne
<1>2. (c \o a) \o b = c \o (a \o b)
  OBVIOUS
<1>. QED
  BY Zenon, <1>1, <1>2

(* The text of two strings, the first of them a text, is that of the two.  *)
Joins(e, p, q) ==
  Chars(e, p) # NotText =>
    Chars(e, p \o q) = IF Chars(e, q) = NotText THEN NotText ELSE Chars(e, p) \o Chars(e, q)

LEMMA TextsJoin ==
  ASSUME NEW e \in Encodings, NEW p \in Seq(Units(e)), NEW q \in Seq(Units(e))
  PROVE  Joins(e, p, q)
<1> DEFINE U == Units(e)
           S == {t \in Seq(U) : Joins(e, t, q)}
           tq == Chars(e, q)
<1>1. tq \in Seq(Nat) \cup {NotText}
  BY CharsType
<1>2. <<>> \in S
  <2>1. <<>> \in Seq(U) /\ <<>> \o q = q /\ Chars(e, <<>>) = <<>>
    BY CharsOfNone
  <2>2. tq # NotText => <<>> \o tq = tq
    BY <1>1
  <2>3. Chars(e, <<>> \o q) = tq
    BY <2>1
  <2>. QED
    BY Zenon, <2>1, <2>2, <2>3 DEF Joins
<1>3. ASSUME NEW t \in Seq(U), t # <<>>, \A r \in Seq(U) : Len(r) < Len(t) => r \in S
      PROVE  t \in S
  <2>1. SUFFICES ASSUME Chars(e, t) # NotText
                 PROVE  Chars(e, t \o q) = IF tq = NotText THEN NotText ELSE Chars(e, t) \o tq
    BY DEF Joins
  <2> DEFINE c == CharSize(e, t)
             ch == FirstChar(e, t)
             r == SubSeq(t, c + 1, Len(t))
             s == t \o q
  <2>2. Chars(e, t) = IF c = 0 THEN NotText ELSE Then(ch, Chars(e, r))
    BY <1>3, CharsOfSome
  <2>3. c # 0 /\ Chars(e, t) = Then(ch, Chars(e, r)) /\ Chars(e, r) # NotText
    BY <2>1, <2>2 DEF Then
  <2>4. c \in 1 .. Len(t) /\ ch \in Nat
    BY <1>3, <2>3, CharSizeIs
  <2>5. r \in Seq(U) /\ Len(r) = Len(t) - c
    <3>1. c + 1 \in 1 .. Len(t) + 1
      BY <2>4
    <3>2. r \in Seq(U) /\ Len(r) = Len(t) + 1 - (c + 1)
      BY <3>1, Suffix
    <3>. QED
      BY <2>4, <3>2
  <2>6. Joins(e, r, q)
    <3>1. Len(r) < Len(t)
      BY <2>4, <2>5
    <3>. QED
      BY <1>3, <2>5, <3>1
  <2>7. /\ s \in Seq(U) /\ Len(s) = Len(t) + Len(q) /\ \A i \in 1 .. Len(t) : s[i] = t[i]
        /\ SubSeq(s, c + 1, Len(s)) = r \o q
    <3>1. c \in 0 .. Len(t)
      BY <2>4
    <3>. QED
      BY <3>1, Concatenation
  <2>8. CharSize(e, s) = c /\ FirstChar(e, s) = ch
    <3>1. c <= Len(s) /\ \A i \in 1 .. c : s[i] = t[i]
      BY <2>4, <2>7
    <3> HIDE DEF s
    <3>. QED
      BY <1>3, <2>3, <2>7, <3>1, SameStart
  <2>9. Chars(e, s) = Then(ch, Chars(e, r \o q))
    <3>1. Len(s) # 0
      BY <2>4, <2>7
    <3>2. s # <<>>
      BY <3>1
    <3> HIDE DEF s
    <3>. QED
      BY <2>3, <2>7, <2>8, <3>2, CharsOfSome
  <2>10. CASE tq = NotText
    BY <2>3, <2>6, <2>9, <2>10 DEF Joins, Then
  <2>11. CASE tq # NotText
    <3> DEFINE tr == Chars(e, r)
    <3>1. Chars(e, r \o q) = tr \o tq
      BY <2>3, <2>6, <2>11 DEF Joins
    <3>2. tr \in Seq(Nat) /\ tq \in Seq(Nat)
      BY <1>1, <2>3, <2>5, <2>11, CharsType
    <3> HIDE DEF tr, tq
    <3>3. tr \o tq \in Seq(Nat)
      BY <3>2
    <3>4. tr \o tq # NotText
      BY <3>3, NotTextIsNoText
    <3>5. <<ch>> \o (tr \o tq) = (<<ch>> \o tr) \o tq
      <4>1. ch \in Nat
        BY <2>4
      <4> HIDE DEF ch
      <4>. QED
        BY Zenon, <3>2, <4>1, ThenJoins
    <3>6. Chars(e, s) = <<ch>> \o (tr \o tq)
      BY Zenon, <2>9, <3>1, <3>4 DEF Then
    <3>7. Chars(e, t) = <<ch>> \o tr
      BY Zenon, <2>3 DEF Then, tr
    <3>. QED
      BY Zenon, <2>11, <3>5, <3>6, <3>7
  <2>. QED
    BY <2>10, <2>11
<1> HIDE DEF S
<1>4. Seq(U) \subseteq S
  BY <1>2, <1>3, StringInduction
<1>. QED
  BY <1>4 DEF S

-----------------------------------------------------------------------------
(* encode() writes one character, by the standard.                         *)

Replacement(ch) == IF IsScalar(ch) THEN ch ELSE \hFFFD

LEMMA CharsOfOne ==
  ASSUME NEW e \in Encodings, NEW s \in Seq(Units(e)), s # <<>>, CharSize(e, s) = Len(s)
  PROVE  Chars(e, s) = <<FirstChar(e, s)>>
<1> DEFINE ch == FirstChar(e, s)
<1>1. Len(s) \in Nat \ {0}
  OBVIOUS
<1>2. SubSeq(s, Len(s) + 1, Len(s)) = <<>>
  OBVIOUS
<1>3. Chars(e, s) = Then(ch, Chars(e, SubSeq(s, Len(s) + 1, Len(s))))
  BY <1>1, CharsOfSome
<1>4. Chars(e, s) = Then(ch, <<>>)
  BY <1>2, <1>3, CharsOfNone
<1>5. ch \in Nat
  BY <1>1, CharSizeIs
<1>6. <<>> # NotText /\ <<>> \in Seq(Nat)
  BY DEF NotText
<1> HIDE DEF ch
<1>7. <<ch>> \o <<>> = <<ch>>
  BY <1>5
<1>8. Chars(e, s) = <<ch>>
  BY Zenon, <1>4, <1>6, <1>7 DEF Then
<1>. QED
  BY <1>8 DEF ch

LEMMA EncodableIs ==
  ASSUME NEW c \in Nat
  PROVE  /\ Encodable(c) = Replacement(c)
         /\ Encodable(c) \in Nat /\ IsScalar(Encodable(c))
<1>1. UNI_SUR_HIGH_START = \hD800 /\ UNI_SUR_LOW_END = \hDFFF
  BY SMT DEF UNI_SUR_HIGH_START, UNI_SUR_LOW_END
<1>2. UNI_MAX_LEGAL_UTF32 = \h10FFFF /\ UNI_REPLACEMENT_CHAR = \hFFFD
  BY SMT DEF UNI_MAX_LEGAL_UTF32, UNI_REPLACEMENT_CHAR
<1>3. Encodable(c) = IF (c >= \hD800 /\ c <= \hDFFF) \/ c > \h10FFFF THEN \hFFFD ELSE c
  BY SMT, <1>1, <1>2 DEF Encodable, IsSurrogate
<1>4. IsScalar(c) <=> c <= \h10FFFF /\ (c < \hD800 \/ c > \hDFFF)
  BY SMT, ScalarIs
<1>5. IsScalar(\hFFFD)
  BY SMT, ScalarIs
<1>6. Encodable(c) = Replacement(c)
  BY SMT, <1>3, <1>4 DEF Replacement
<1>7. IsScalar(Encodable(c)) /\ Encodable(c) \in Nat
  BY SMT, <1>5, <1>6 DEF Replacement
<1>. QED
  BY <1>6, <1>7

(* The bytes of two, three and four.                                       *)
LEMMA TwoBytes ==
  ASSUME NEW ch \in Nat, ch >= \h80, ch < \h800, NEW a, NEW b,
         a = ch \div 64 + \hC0, b = \h80 + (ch % 64)
  PROVE  /\ a \in Octets /\ a \in Lead(2) /\ b \in Octets /\ b \div 64 = 2
         /\ (a % 32) * 64 + (b % 64) = ch /\ ch >= Least(2)
<1>1. PICK x \in Nat, y \in 0 .. 63 : x = ch \div 64 /\ y = ch % 64 /\ ch = x * 64 + y
  BY SMT
<1>2. x \in 2 .. 31
  BY SMT, <1>1
<1>3. a = x + \hC0 /\ b = \h80 + y
  BY SMT, <1>1
<1>4. a \in \hC0 .. \hDF /\ a % 32 = x /\ b \in \h80 .. \hBF /\ b % 64 = y /\ b \div 64 = 2
  BY SMT, <1>2, <1>3
<1>5. (a % 32) * 64 + (b % 64) = ch
  BY SMT, <1>1, <1>4
<1>6. a \in Octets /\ b \in Octets
  BY SMT, <1>4 DEF Octets
<1>. QED
  BY SMT, <1>4, <1>5, <1>6, LeadIs, LeastIs

LEMMA ThreeBytes ==
  ASSUME NEW ch \in Nat, ch >= \h800, ch < \h10000, NEW a, NEW b, NEW c,
         a = (ch \div 64) \div 64 + \hE0, b = \h80 + ((ch \div 64) % 64), c = \h80 + (ch % 64)
  PROVE  /\ a \in Octets /\ a \in Lead(3)
         /\ b \in Octets /\ b \div 64 = 2 /\ c \in Octets /\ c \div 64 = 2
         /\ ((a % 16) * 64 + (b % 64)) * 64 + (c % 64) = ch /\ ch >= Least(3)
<1>1. PICK x \in Nat, y \in 0 .. 63 : x = ch \div 64 /\ y = ch % 64 /\ ch = x * 64 + y
  BY SMT
<1>2. x \in 32 .. 1023
  BY SMT, <1>1
<1>3. PICK v \in Nat, w \in 0 .. 63 : v = x \div 64 /\ w = x % 64 /\ x = v * 64 + w
  BY SMT
<1>4. v \in 0 .. 15
  BY SMT, <1>2, <1>3
<1>5. a = v + \hE0 /\ b = \h80 + w /\ c = \h80 + y
  BY SMT, <1>1, <1>3
<1>6. /\ a \in \hE0 .. \hEF /\ a % 16 = v
      /\ b \in \h80 .. \hBF /\ b % 64 = w /\ b \div 64 = 2
      /\ c \in \h80 .. \hBF /\ c % 64 = y /\ c \div 64 = 2
  BY SMT, <1>4, <1>5
<1>7. ((a % 16) * 64 + (b % 64)) * 64 + (c % 64) = ch
  BY SMT, <1>1, <1>3, <1>6
<1>8. a \in Octets /\ b \in Octets /\ c \in Octets
  BY SMT, <1>6 DEF Octets
<1>. QED
  BY SMT, <1>6, <1>7, <1>8, LeadIs, LeastIs

LEMMA FourBytes ==
  ASSUME NEW ch \in Nat, ch >= \h10000, ch <= \h10FFFF, NEW a, NEW b, NEW c, NEW d,
         a = ((ch \div 64) \div 64) \div 64 + \hF0, b = \h80 + (((ch \div 64) \div 64) % 64),
         c = \h80 + ((ch \div 64) % 64), d = \h80 + (ch % 64)
  PROVE  /\ a \in Octets /\ a \in Lead(4) /\ b \in Octets /\ b \div 64 = 2
         /\ c \in Octets /\ c \div 64 = 2 /\ d \in Octets /\ d \div 64 = 2
         /\ (((a % 8) * 64 + (b % 64)) * 64 + (c % 64)) * 64 + (d % 64) = ch /\ ch >= Least(4)
<1>1. PICK x \in Nat, y \in 0 .. 63 : x = ch \div 64 /\ y = ch % 64 /\ ch = x * 64 + y
  BY SMT
<1>2. x >= 1024 /\ x <= 17407
  BY SMT, <1>1
<1>3. PICK v \in Nat, w \in 0 .. 63 : v = x \div 64 /\ w = x % 64 /\ x = v * 64 + w
  BY SMT
<1>4. v \in 16 .. 271
  BY SMT, <1>2, <1>3
<1>5. PICK t \in Nat, u \in 0 .. 63 : t = v \div 64 /\ u = v % 64 /\ v = t * 64 + u
  BY SMT
<1>6. t \in 0 .. 4
  BY SMT, <1>4, <1>5
<1>7. a = t + \hF0 /\ b = \h80 + u /\ c = \h80 + w /\ d = \h80 + y
  BY SMT, <1>1, <1>3, <1>5
<1>8. /\ a \in \hF0 .. \hF7 /\ a % 8 = t
      /\ b \in \h80 .. \hBF /\ b % 64 = u /\ b \div 64 = 2
      /\ c \in \h80 .. \hBF /\ c % 64 = w /\ c \div 64 = 2
      /\ d \in \h80 .. \hBF /\ d % 64 = y /\ d \div 64 = 2
  BY SMT, <1>6, <1>7
<1>9. (((a % 8) * 64 + (b % 64)) * 64 + (c % 64)) * 64 + (d % 64) = ch
  BY SMT, <1>1, <1>3, <1>5, <1>8
<1>10. a \in Octets /\ b \in Octets /\ c \in Octets /\ d \in Octets
  BY SMT, <1>8 DEF Octets
<1>. QED
  BY SMT, <1>8, <1>9, <1>10, LeadIs, LeastIs

LEMMA BytesToWriteIs ==
  ASSUME NEW ch \in Nat
  PROVE  /\ bytesToWrite(ch) \in {1, 2, 3, 4}
         /\ bytesToWrite(ch) = 1 => ch < \h80
         /\ bytesToWrite(ch) = 2 => ch >= \h80 /\ ch < \h800
         /\ bytesToWrite(ch) = 3 => ch >= \h800 /\ ch < \h10000
         /\ bytesToWrite(ch) = 4 => ch >= \h10000
BY SMT DEF bytesToWrite

LEMMA FirstByteMarksAre ==
  /\ firstByteMark[1] = 0 /\ firstByteMark[2] = \hC0
  /\ firstByteMark[3] = \hE0 /\ firstByteMark[4] = \hF0
BY SMT DEF firstByteMark

LEMMA Encode8Bytes ==
  ASSUME NEW c, Encodable(c) \in Nat
  PROVE  LET ch == Encodable(c)
             n  == bytesToWrite(ch)
         IN
         /\ encode8(c) = [i \in 1 .. n |-> encode8(c)[i]]
         /\ n = 1 => encode8(c)[1] = ch + 0
         /\ n = 2 => encode8(c)[1] = ch \div 64 + \hC0 /\ encode8(c)[2] = \h80 + (ch % 64)
         /\ n = 3 => /\ encode8(c)[1] = (ch \div 64) \div 64 + \hE0
                     /\ encode8(c)[2] = \h80 + ((ch \div 64) % 64)
                     /\ encode8(c)[3] = \h80 + (ch % 64)
         /\ n = 4 => /\ encode8(c)[1] = ((ch \div 64) \div 64) \div 64 + \hF0
                     /\ encode8(c)[2] = \h80 + (((ch \div 64) \div 64) % 64)
                     /\ encode8(c)[3] = \h80 + ((ch \div 64) % 64)
                     /\ encode8(c)[4] = \h80 + (ch % 64)
<1> DEFINE ch == Encodable(c)
           n == bytesToWrite(ch)
           q == encode8(c)
           shifted == CHOOSE f : f = [i \in 1 .. n |-> IF i = n THEN ch ELSE f[i + 1] \div 64]
<1>1. q = [i \in 1 .. n |-> IF i = 1 THEN shifted[1] + firstByteMark[n]
                            ELSE \h80 + (shifted[i] % 64)]
  BY Zenon DEF encode8
<1>2. n \in {1, 2, 3, 4} /\ ch \in Nat
  BY BytesToWriteIs
<1> HIDE DEF ch, n
<1>3. \E f : f = [i \in 1 .. n |-> IF i = n THEN ch ELSE f[i + 1] \div 64]
  <2> DEFINE x == ch \div 64
             y == x \div 64
             z == y \div 64
             g == [i \in 1 .. n |-> IF i = n THEN ch ELSE IF i = n - 1 THEN x
                                    ELSE IF i = n - 2 THEN y ELSE z]
  <2>1. ASSUME NEW i \in 1 .. n PROVE g[i] = IF i = n THEN ch ELSE g[i + 1] \div 64
    <3>1. n \in Nat /\ (i = n \/ i = n - 1 \/ i = n - 2 \/ i = n - 3)
      BY <1>2
    <3>2. i # n => i + 1 \in 1 .. n
      BY <3>1
    <3> HIDE DEF x, y, z
    <3>3. g[i] = IF i = n THEN ch ELSE IF i = n - 1 THEN x ELSE IF i = n - 2 THEN y ELSE z
      OBVIOUS
    <3>4. i # n => g[i + 1] = IF i + 1 = n THEN ch ELSE IF i + 1 = n - 1 THEN x
                              ELSE IF i + 1 = n - 2 THEN y ELSE z
      BY <3>2
    <3> HIDE DEF g
    <3>5. CASE i = n
      BY <3>3, <3>5
    <3>6. CASE i = n - 1
      BY <3>1, <3>3, <3>4, <3>6 DEF x
    <3>7. CASE i = n - 2
      BY <3>1, <3>3, <3>4, <3>7 DEF y
    <3>8. CASE i = n - 3
      BY <3>1, <3>3, <3>4, <3>8 DEF z
    <3>. QED
      BY <3>1, <3>5, <3>6, <3>7, <3>8
  <2>2. g = [i \in 1 .. n |-> IF i = n THEN ch ELSE g[i + 1] \div 64]
    <3>1. g = [i \in 1 .. n |-> g[i]]
      OBVIOUS
    <3> HIDE DEF g
    <3>. QED
      BY <2>1, <3>1
  <2>. QED
    BY <2>2
<1>4. shifted = [i \in 1 .. n |-> IF i = n THEN ch ELSE shifted[i + 1] \div 64]
  BY <1>3
<1> HIDE DEF shifted, q
<1>5. \A i \in 1 .. n : shifted[i] = IF i = n THEN ch ELSE shifted[i + 1] \div 64
  BY <1>4
<1>6. \A i \in 1 .. n : q[i] = IF i = 1 THEN shifted[1] + firstByteMark[n]
                               ELSE \h80 + (shifted[i] % 64)
  BY <1>1
<1>7. q = [i \in 1 .. n |-> q[i]]
  BY <1>1
<1>8. n = 1 => q[1] = ch + 0
  <2>1. HAVE n = 1
  <2>2. shifted[1] = ch /\ q[1] = shifted[1] + firstByteMark[1]
    BY <1>5, <1>6, <2>1
  <2>. QED
    BY <2>1, <2>2, FirstByteMarksAre
<1>9. n = 2 => q[1] = ch \div 64 + \hC0 /\ q[2] = \h80 + (ch % 64)
  <2>1. HAVE n = 2
  <2>2. /\ shifted[2] = ch /\ shifted[1] = shifted[2] \div 64
        /\ q[1] = shifted[1] + firstByteMark[2] /\ q[2] = \h80 + (shifted[2] % 64)
    BY <1>5, <1>6, <2>1
  <2>. QED
    BY <2>1, <2>2, FirstByteMarksAre
<1>10. n = 3 => /\ q[1] = (ch \div 64) \div 64 + \hE0
                /\ q[2] = \h80 + ((ch \div 64) % 64)
                /\ q[3] = \h80 + (ch % 64)
  <2>1. HAVE n = 3
  <2>2. /\ shifted[3] = ch /\ shifted[2] = shifted[3] \div 64 /\ shifted[1] = shifted[2] \div 64
        /\ q[1] = shifted[1] + firstByteMark[3]
        /\ q[2] = \h80 + (shifted[2] % 64) /\ q[3] = \h80 + (shifted[3] % 64)
    BY <1>5, <1>6, <2>1
  <2>. QED
    BY <2>1, <2>2, FirstByteMarksAre
<1>11. n = 4 => /\ q[1] = ((ch \div 64) \div 64) \div 64 + \hF0
                /\ q[2] = \h80 + (((ch \div 64) \div 64) % 64)
                /\ q[3] = \h80 + ((ch \div 64) % 64)
                /\ q[4] = \h80 + (ch % 64)
  <2>1. HAVE n = 4
  <2>2. /\ shifted[4] = ch /\ shifted[3] = shifted[4] \div 64
        /\ shifted[2] = shifted[3] \div 64 /\ shifted[1] = shifted[2] \div 64
        /\ q[1] = shifted[1] + firstByteMark[4] /\ q[2] = \h80 + (shifted[2] % 64)
        /\ q[3] = \h80 + (shifted[3] % 64) /\ q[4] = \h80 + (shifted[4] % 64)
    BY <1>5, <1>6, <2>1
  <2>. QED
    BY <2>1, <2>2, FirstByteMarksAre
<1>. QED
  BY <1>7, <1>8, <1>9, <1>10, <1>11 DEF ch, n, q

LEMMA OneCharacter ==
  ASSUME NEW q \in Seq(Octets), WellFormed(q)
  PROVE  Chars(8, q) = <<Payload(q)>>
<1>1. Len(q) \in 1 .. 4
  BY DEF WellFormed
<1>2. SubSeq(q, 1, Len(q)) = q /\ q # <<>>
  <2>1. SubSeq(q, 1, Len(q)) = q
    BY Zenon, SubSeqFull
  <2>2. q # <<>>
    BY <1>1
  <2>. QED
    BY <2>1, <2>2
<1>3. CharSize(8, q) = Len(q) /\ FirstChar(8, q) = Payload(q)
  <2>1. PICK n \in 1 .. 4 : n = Len(q)
    BY <1>1
  <2>2. SubSeq(q, 1, n) = q /\ n <= Len(q) /\ WellFormed(SubSeq(q, 1, n))
    <3>1. n <= Len(q)
      BY <2>1
    <3>2. SubSeq(q, 1, n) = q
      BY <1>2, <2>1
    <3>. QED
      BY Zenon, <3>1, <3>2
  <2>3. CharSize(8, q) = n /\ FirstChar(8, q) = Payload(SubSeq(q, 1, n))
    BY <2>1, <2>2, OneSize
  <2>. QED
    BY <2>1, <2>2, <2>3
<1>4. q \in Seq(Units(8)) /\ 8 \in Encodings
  BY UnitsAre DEF Encodings
<1>5. Chars(8, q) = <<FirstChar(8, q)>>
  BY <1>2, <1>3, <1>4, CharsOfOne
<1>. QED
  BY <1>3, <1>5

LEMMA SeqOf ==
  ASSUME NEW U, NEW n \in Nat, NEW q, q = [i \in 1 .. n |-> q[i]], \A i \in 1 .. n : q[i] \in U
  PROVE  q \in Seq(U) /\ Len(q) = n
<1>1. q \in [1 .. n -> U]
  BY Zenon
<1>2. q \in Seq(U)
  BY <1>1, SeqDef
<1>3. DOMAIN q = 1 .. n /\ DOMAIN q = 1 .. Len(q) /\ Len(q) \in Nat
  BY <1>1, <1>2, LenProperties
<1>. QED
  BY <1>2, <1>3

LEMMA PayloadOf ==
  ASSUME NEW s \in Seq(Octets)
  PROVE  /\ Len(s) = 1 => Payload(s) = s[1] % 128
         /\ Len(s) = 2 => Payload(s) = (s[1] % 32) * 64 + (s[2] % 64)
         /\ Len(s) = 3 => Payload(s) = ((s[1] % 16) * 64 + (s[2] % 64)) * 64 + (s[3] % 64)
         /\ Len(s) = 4 => Payload(s) =
              (((s[1] % 8) * 64 + (s[2] % 64)) * 64 + (s[3] % 64)) * 64 + (s[4] % 64)
<1>1. LeadValues(1) = 128 /\ LeadValues(2) = 32 /\ LeadValues(3) = 16 /\ LeadValues(4) = 8
  BY DEF LeadValues
<1> DEFINE a == s[1] % LeadValues(Len(s))
<1>2. Len(s) \in 1 .. 4 =>
         /\ Len(s) = 1 => Payload(s) = a
         /\ Len(s) = 2 => Payload(s) = a * 64 + (s[2] % 64)
         /\ Len(s) = 3 => Payload(s) = (a * 64 + (s[2] % 64)) * 64 + (s[3] % 64)
         /\ Len(s) = 4 => Payload(s) = ((a * 64 + (s[2] % 64)) * 64 + (s[3] % 64)) * 64 + (s[4] % 64)
  BY Zenon, PayloadIs
<1> HIDE DEF a
<1>3. /\ Len(s) = 1 => a = s[1] % 128
      /\ Len(s) = 2 => a = s[1] % 32
      /\ Len(s) = 3 => a = s[1] % 16
      /\ Len(s) = 4 => a = s[1] % 8
  BY <1>1 DEF a
<1>. QED
  BY <1>2, <1>3

LEMMA Encode8Is ==
  ASSUME NEW c \in Nat
  PROVE  encode8(c) \in Seq(Octets) /\ Chars(8, encode8(c)) = <<Replacement(c)>>
<1> DEFINE ch == Encodable(c)
           n  == bytesToWrite(ch)
           q  == encode8(c)
<1>1. ch \in Nat /\ ch = Replacement(c) /\ IsScalar(ch)
  BY EncodableIs
<1>2. /\ q = [i \in 1 .. n |-> q[i]]
      /\ n = 1 => q[1] = ch + 0
      /\ n = 2 => q[1] = ch \div 64 + \hC0 /\ q[2] = \h80 + (ch % 64)
      /\ n = 3 => /\ q[1] = (ch \div 64) \div 64 + \hE0
                  /\ q[2] = \h80 + ((ch \div 64) % 64)
                  /\ q[3] = \h80 + (ch % 64)
      /\ n = 4 => /\ q[1] = ((ch \div 64) \div 64) \div 64 + \hF0
                  /\ q[2] = \h80 + (((ch \div 64) \div 64) % 64)
                  /\ q[3] = \h80 + ((ch \div 64) % 64)
                  /\ q[4] = \h80 + (ch % 64)
  BY <1>1, Encode8Bytes
<1>3. /\ n \in {1, 2, 3, 4}
      /\ n = 1 => ch < \h80
      /\ n = 2 => ch >= \h80 /\ ch < \h800
      /\ n = 3 => ch >= \h800 /\ ch < \h10000
      /\ n = 4 => ch >= \h10000
  BY <1>1, BytesToWriteIs
<1> HIDE DEF ch, n, q
<1>4. ch <= \h10FFFF
  BY SMT, <1>1, ScalarIs
<1>5. SUFFICES q \in Seq(Octets) /\ WellFormed(q) /\ Payload(q) = ch
  BY <1>1, OneCharacter DEF q
<1>6. CASE n = 1
  <2>1. q[1] = ch /\ ch < \h80
    BY <1>1, <1>2, <1>3, <1>6
  <2>2. ch \in Octets /\ ch \in Lead(1) /\ ch % 128 = ch /\ ch >= Least(1)
    BY SMT, <1>1, <2>1, LeadIs, LeastIs DEF Octets
  <2>3. \A i \in 1 .. n : q[i] \in Octets
    BY <1>6, <2>1, <2>2
  <2>4. q \in Seq(Octets) /\ Len(q) = 1
    BY <1>2, <1>6, <2>3, SeqOf
  <2>5. Payload(q) = ch
    <3>1. Payload(q) = q[1] % 128
      BY <2>4, PayloadOf
    <3>. QED
      BY <2>1, <2>2, <3>1
  <2>6. \A i \in 2 .. Len(q) : q[i] \div 64 = 2
    BY <2>4
  <2>7. WellFormed(q)
    BY <1>1, <2>1, <2>2, <2>4, <2>5, <2>6 DEF WellFormed
  <2>. QED
    BY <2>4, <2>5, <2>7
<1>7. CASE n = 2
  <2>1. PICK a, b : /\ q[1] = a /\ q[2] = b /\ a = ch \div 64 + \hC0 /\ b = \h80 + (ch % 64)
    BY <1>2, <1>7
  <2>2. /\ a \in Octets /\ a \in Lead(2) /\ b \in Octets /\ b \div 64 = 2
        /\ (a % 32) * 64 + (b % 64) = ch /\ ch >= Least(2)
    BY <1>1, <1>3, <1>7, <2>1, TwoBytes
  <2>3. \A i \in 1 .. n : q[i] \in Octets
    BY <1>7, <2>1, <2>2
  <2>4. q \in Seq(Octets) /\ Len(q) = 2
    BY <1>2, <1>7, <2>3, SeqOf
  <2>5. Payload(q) = ch
    <3>1. Payload(q) = (q[1] % 32) * 64 + (q[2] % 64)
      BY <2>4, PayloadOf
    <3>. QED
      BY <2>1, <2>2, <3>1
  <2>6. \A i \in 2 .. Len(q) : q[i] \div 64 = 2
    <3>1. \A i \in 2 .. Len(q) : i = 2
      BY <2>4
    <3>. QED
      BY <2>1, <2>2, <3>1
  <2>7. WellFormed(q)
    BY <1>1, <2>1, <2>2, <2>4, <2>5, <2>6 DEF WellFormed
  <2>. QED
    BY <2>4, <2>5, <2>7
<1>8. CASE n = 3
  <2>1. PICK a, b, d :
          /\ q[1] = a /\ q[2] = b /\ q[3] = d
          /\ a = (ch \div 64) \div 64 + \hE0 /\ b = \h80 + ((ch \div 64) % 64)
          /\ d = \h80 + (ch % 64)
    BY <1>2, <1>8
  <2>2. /\ a \in Octets /\ a \in Lead(3)
        /\ b \in Octets /\ b \div 64 = 2 /\ d \in Octets /\ d \div 64 = 2
        /\ ((a % 16) * 64 + (b % 64)) * 64 + (d % 64) = ch /\ ch >= Least(3)
    BY <1>1, <1>3, <1>8, <2>1, ThreeBytes
  <2>3. \A i \in 1 .. n : q[i] \in Octets
    BY <1>8, <2>1, <2>2
  <2>4. q \in Seq(Octets) /\ Len(q) = 3
    BY <1>2, <1>8, <2>3, SeqOf
  <2>5. Payload(q) = ch
    <3>1. Payload(q) = ((q[1] % 16) * 64 + (q[2] % 64)) * 64 + (q[3] % 64)
      BY <2>4, PayloadOf
    <3>. QED
      BY <2>1, <2>2, <3>1
  <2>6. \A i \in 2 .. Len(q) : q[i] \div 64 = 2
    <3>1. \A i \in 2 .. Len(q) : i = 2 \/ i = 3
      BY <2>4
    <3>. QED
      BY <2>1, <2>2, <3>1
  <2>7. WellFormed(q)
    BY <1>1, <2>1, <2>2, <2>4, <2>5, <2>6 DEF WellFormed
  <2>. QED
    BY <2>4, <2>5, <2>7
<1>9. CASE n = 4
  <2>1. PICK a, b, d, f :
          /\ q[1] = a /\ q[2] = b /\ q[3] = d /\ q[4] = f
          /\ a = ((ch \div 64) \div 64) \div 64 + \hF0
          /\ b = \h80 + (((ch \div 64) \div 64) % 64)
          /\ d = \h80 + ((ch \div 64) % 64) /\ f = \h80 + (ch % 64)
    BY <1>2, <1>9
  <2>2. /\ a \in Octets /\ a \in Lead(4) /\ b \in Octets /\ b \div 64 = 2
        /\ d \in Octets /\ d \div 64 = 2 /\ f \in Octets /\ f \div 64 = 2
        /\ (((a % 8) * 64 + (b % 64)) * 64 + (d % 64)) * 64 + (f % 64) = ch /\ ch >= Least(4)
    BY <1>1, <1>3, <1>4, <1>9, <2>1, FourBytes
  <2>3. \A i \in 1 .. n : q[i] \in Octets
    BY <1>9, <2>1, <2>2
  <2>4. q \in Seq(Octets) /\ Len(q) = 4
    BY <1>2, <1>9, <2>3, SeqOf
  <2>5. Payload(q) = ch
    <3>1. Payload(q) = (((q[1] % 8) * 64 + (q[2] % 64)) * 64 + (q[3] % 64)) * 64 + (q[4] % 64)
      BY <2>4, PayloadOf
    <3>. QED
      BY <2>1, <2>2, <3>1
  <2>6. \A i \in 2 .. Len(q) : q[i] \div 64 = 2
    <3>1. \A i \in 2 .. Len(q) : i = 2 \/ i = 3 \/ i = 4
      BY <2>4
    <3>. QED
      BY <2>1, <2>2, <3>1
  <2>7. WellFormed(q)
    BY <1>1, <2>1, <2>2, <2>4, <2>5, <2>6 DEF WellFormed
  <2>. QED
    BY <2>4, <2>5, <2>7
<1>. QED
  BY <1>3, <1>6, <1>7, <1>8, <1>9

LEMMA SeqOfTwo == ASSUME NEW U, NEW x \in U, NEW y \in U PROVE <<x, y>> \in Seq(U)
OBVIOUS

LEMMA Encode16Is ==
  ASSUME NEW c \in Nat
  PROVE  encode16(c) \in Seq(0 .. UNI_MAX_BMP) /\ Chars(16, encode16(c)) = <<Replacement(c)>>
<1> DEFINE ch == Encodable(c)
           q  == encode16(c)
<1>1. ch \in Nat /\ ch = Replacement(c) /\ IsScalar(ch)
  BY EncodableIs
<1> DEFINE x == (ch - halfBase) \div halfModulus + UNI_SUR_HIGH_START
           y == ((ch - halfBase) % halfModulus) + UNI_SUR_LOW_START
<1>2. q = IF ch <= UNI_MAX_BMP THEN <<ch>> ELSE <<x, y>>
  BY Zenon DEF encode16
<1> HIDE DEF ch, q
<1>3. ch <= \h10FFFF /\ (ch < \hD800 \/ ch > \hDFFF)
  BY SMT, <1>1, ScalarIs
<1>4. UNI_MAX_BMP \in Nat
  BY SMT DEF UNI_MAX_BMP
<1>5. UNI_MAX_BMP = \hFFFF
  BY SMT DEF UNI_MAX_BMP
<1>6. SUFFICES q \in Seq(0 .. UNI_MAX_BMP) /\ Chars(16, q) = <<ch>>
  BY <1>1 DEF q
<1>7. ASSUME NEW s \in Seq(0 .. UNI_MAX_BMP), s # <<>>, CharSize(16, s) = Len(s)
      PROVE  Chars(16, s) = <<FirstChar(16, s)>>
  <2>1. s \in Seq(Units(16)) /\ 16 \in Encodings
    BY UnitsAre DEF Encodings
  <2>. QED
    BY Zenon, <1>7, <2>1, CharsOfOne
<1>8. CASE ch <= UNI_MAX_BMP
  <2>1. ch \in 0 .. UNI_MAX_BMP
    BY SMT, <1>1, <1>4, <1>8
  <2>2. PICK s \in Seq(0 .. UNI_MAX_BMP) : s = <<ch>>
    BY <2>1, SeqOfOne
  <2>3. s # <<>> /\ Len(s) = 1 /\ s[1] = ch
    BY <2>2
  <2>4. ~High(ch)
    BY SMT, <1>1, <1>3, SurrogatesAre DEF High
  <2>5. CharSize(16, s) = 1 /\ FirstChar(16, s) = ch
    BY <2>3, <2>4, CharSize16Is
  <2>6. Chars(16, s) = <<ch>>
    BY <1>7, <2>3, <2>5
  <2>. QED
    BY <1>2, <1>8, <2>2, <2>6
<1>9. CASE ch > UNI_MAX_BMP
  <2>1. PICK z \in Nat : z = ch - \h10000 /\ z <= \hFFFFF
    BY SMT, <1>1, <1>3, <1>9, <1>5
  <2>2. PICK h \in Nat, l \in 0 .. 1023 : h = z \div 1024 /\ l = z % 1024 /\ z = h * 1024 + l
    BY SMT
  <2>3. h <= 1023
    BY SMT, <2>1, <2>2
  <2>4. x = h + \hD800 /\ y = l + \hDC00
    BY SMT, <2>1, <2>2 DEF halfBase, halfModulus, UNI_SUR_HIGH_START, UNI_SUR_LOW_START
  <2> HIDE DEF x, y
  <2>5. High(x) /\ Low(y) /\ x % 1024 = h /\ y % 1024 = l
    BY SMT, <2>3, <2>4 DEF High, Low
  <2>6. x \in 0 .. UNI_MAX_BMP /\ y \in 0 .. UNI_MAX_BMP
    <3>1. x \in Nat /\ x <= UNI_MAX_BMP /\ y \in Nat /\ y <= UNI_MAX_BMP
      BY SMT, <1>5, <2>3, <2>4
    <3>. QED
      BY SMT, <1>4, <3>1
  <2>7. 65536 + h * 1024 + l = ch
    BY SMT, <1>1, <2>1, <2>2
  <2>8. PICK s \in Seq(0 .. UNI_MAX_BMP) : s = <<x, y>>
    BY <2>6, SeqOfTwo
  <2>9. s # <<>> /\ Len(s) = 2 /\ s[1] = x /\ s[2] = y
    BY <2>8
  <2>10. CharSize(16, s) = 2
    BY <2>5, <2>9, CharSize16Is
  <2>11. FirstChar(16, s) = ch
    <3>1. FirstChar(16, s) = 65536 + (s[1] % 1024) * 1024 + (s[2] % 1024)
      BY SMT, <2>5, <2>9, CharSize16Is
    <3>. QED
      BY SMT, <2>5, <2>9, <2>7, <3>1
  <2>12. Chars(16, s) = <<ch>>
    BY <1>7, <2>9, <2>10, <2>11
  <2>13. ~(ch <= UNI_MAX_BMP)
    BY SMT, <1>1, <1>4, <1>9
  <2>. QED
    BY <1>2, <2>8, <2>12, <2>13
<1>. QED
  BY SMT, <1>1, <1>4, <1>8, <1>9

LEMMA EncodeIs ==
  ASSUME to \in {0, 8, 16, 32}, NEW ch \in Nat
  PROVE  /\ Encode(ch) \in Seq(Units(to))
         /\ to # 0 => Chars(to, Encode(ch)) = <<IF to = 32 THEN ch ELSE Replacement(ch)>>
<1>1. CASE to = 0
  <2>1. Encode(ch) = <<>>
    BY <1>1 DEF Encode
  <2>. QED
    BY <1>1, <2>1
<1>2. CASE to = 8
  <2>1. Encode(ch) = encode8(ch)
    BY <1>2 DEF Encode
  <2>. QED
    BY <1>2, <2>1, Encode8Is, UnitsAre
<1>3. CASE to = 16
  <2>1. Encode(ch) = encode16(ch)
    BY <1>3 DEF Encode
  <2>. QED
    BY <1>3, <2>1, Encode16Is, UnitsAre
<1>4. CASE to = 32
  <2>1. Encode(ch) = <<ch>>
    BY <1>4 DEF Encode, encode32
  <2>2. PICK s \in Seq(Nat) : s = <<ch>>
    BY SeqOfOne
  <2>3. s # <<>> /\ Len(s) = 1 /\ s[1] = ch
    BY <2>2
  <2>4. CharSize(32, s) = 1 /\ FirstChar(32, s) = ch
    BY <2>3, Decode32Is
  <2>5. s \in Seq(Units(32)) /\ 32 \in Encodings
    BY UnitsAre DEF Encodings
  <2>6. Chars(32, s) = <<ch>>
    BY <2>3, <2>4, <2>5, CharsOfOne
  <2>. QED
    BY <1>4, <2>1, <2>2, <2>5, <2>6
<1>. QED
  BY <1>1, <1>2, <1>3, <1>4

-----------------------------------------------------------------------------
(* What has been converted is the text of what has been read.              *)

Before == SubSeq(src, 1, source)

Kept ==
  /\ Sources /\ converted \in Seq(Units(to)) /\ verdict \in {"running", "ok", "invalid"}
  /\ verdict # "invalid" =>
       /\ Chars(from, Before) # NotText
       /\ to # 0 => Chars(to, converted) = Replaced(Chars(from, Before))
  /\ verdict = "ok" => source = Len(src)
  /\ verdict = "invalid" => Chars(from, src) = NotText /\ converted = <<>>

LEMMA UnitsOfNone == <<>> \in Seq(Units(to))
OBVIOUS

LEMMA RestTaken ==
  ASSUME Sources, NEW k \in 0 .. Len(Rest)
  PROVE  /\ SubSeq(src, 1, source + k) = Before \o SubSeq(Rest, 1, k)
         /\ SubSeq(Rest, 1, k) \in Seq(Units(from))
<1> DEFINE U == Units(from)
           a == SubSeq(src, 1, source + k)
           b == SubSeq(Rest, 1, k)
           c == Before \o b
<1>1. src \in Seq(U) /\ source \in 0 .. Len(src)
  BY DEF Sources
<1> HIDE DEF U
<1>2. /\ Rest \in Seq(U) /\ Len(Rest) = Len(src) - source
      /\ \A i \in 1 .. Len(Rest) : Rest[i] = src[source + i]
  BY <1>1 DEF Rest
<1>3. /\ b \in Seq(U) /\ Len(b) = k /\ \A i \in 1 .. k : b[i] = Rest[i]
  BY <1>2, Prefix
<1>4. /\ Before \in Seq(U) /\ Len(Before) = source
      /\ \A i \in 1 .. source : Before[i] = src[i]
  BY <1>1, Prefix DEF Before
<1> HIDE DEF b
<1>5. /\ c \in Seq(U) /\ Len(c) = source + k
      /\ \A i \in 1 .. source : c[i] = Before[i]
      /\ \A i \in source + 1 .. source + k : c[i] = b[i - source]
  <2>1. PICK p \in Seq(U), q \in Seq(U) : p = Before /\ q = b
    BY <1>3, <1>4
  <2>2. /\ p \o q \in Seq(U) /\ Len(p \o q) = Len(p) + Len(q)
        /\ \A i \in 1 .. Len(p) : (p \o q)[i] = p[i]
        /\ \A i \in Len(p) + 1 .. Len(p) + Len(q) : (p \o q)[i] = q[i - Len(p)]
    BY ConcatIs
  <2>3. c = p \o q
    BY <2>1
  <2> HIDE DEF c
  <2>4. Len(p) = source /\ Len(q) = k
    BY <1>3, <1>4, <2>1
  <2>. QED
    BY <1>3, <1>4, <2>1, <2>2, <2>3, <2>4
<1>6. source + k \in 0 .. Len(src)
  BY <1>1, <1>2
<1>7. /\ a \in Seq(U) /\ Len(a) = source + k /\ \A i \in 1 .. source + k : a[i] = src[i]
  BY <1>1, <1>6, Prefix
<1> HIDE DEF a, c
<1>8. ASSUME NEW i \in 1 .. source + k PROVE a[i] = c[i]
  <2>1. CASE i <= source
    BY <1>1, <1>4, <1>5, <1>7, <2>1
  <2>2. CASE i > source
    <3>1. i \in source + 1 .. source + k /\ i - source \in 1 .. k /\ source + (i - source) = i
      BY <1>1, <2>2
    <3>2. i - source \in 1 .. Len(Rest)
      BY <1>2, <3>1
    <3>. QED
      BY <1>2, <1>3, <1>5, <1>7, <3>1, <3>2
  <2>. QED
    BY <1>1, <2>1, <2>2
<1>9. a = c
  BY <1>5, <1>7, <1>8, SameSeqs
<1>. QED
  BY <1>3, <1>9 DEF a, b, c, U

LEMMA BeforeIs ==
  ASSUME Sources
  PROVE  /\ Before \in Seq(Units(from)) /\ Before \o Rest = src
         /\ source = Len(src) => Before = src
         /\ source = 0 => Before = <<>>
<1> DEFINE U == Units(from)
<1>1. src \in Seq(U) /\ source \in 0 .. Len(src)
  BY DEF Sources
<1> HIDE DEF U
<1>2. Before \in Seq(U) /\ (source = Len(src) => Before = src) /\ (source = 0 => Before = <<>>)
  BY <1>1 DEF Before
<1>3. Before \o Rest = src
  <2>1. Rest \in Seq(U) /\ Len(Rest) = Len(src) - source /\ Len(Rest) \in Nat
    BY <1>1 DEF Rest
  <2>2. SubSeq(src, 1, source + Len(Rest)) = Before \o SubSeq(Rest, 1, Len(Rest))
    <3>1. Len(Rest) \in 0 .. Len(Rest)
      BY <2>1
    <3>. QED
      BY Zenon, <3>1, RestTaken
  <2>3. SubSeq(Rest, 1, Len(Rest)) = Rest
    BY <2>1
  <2>4. SubSeq(src, 1, Len(src)) = src /\ source + Len(Rest) = Len(src)
    BY <1>1, <2>1
  <2>. QED
    BY Zenon, <2>2, <2>3, <2>4
<1>. QED
  BY <1>2, <1>3 DEF U

(* The units one round takes are one character.                            *)
LEMMA TakenIs ==
  ASSUME Sources, source < Len(src), Decode(Rest).ok
  PROVE  LET d == Decode(Rest) IN
         /\ d.ch \in Nat /\ d.used \in 0 .. Len(Rest)
         /\ Chars(from, SubSeq(Rest, 1, d.used)) = <<d.ch>>
<1> DEFINE d == Decode(Rest)
           s == SubSeq(Rest, 1, d.used)
<1>1. Rest \in Seq(Units(from)) /\ Rest # <<>> /\ from \in {8, 16, 32}
  BY RestIs DEF Sources
<1>2. /\ d.used = CharSize(from, Rest) /\ d.ch = FirstChar(from, Rest) /\ d.ch \in Nat
      /\ d.used \in 1 .. 4 /\ d.used <= Len(Rest)
  BY <1>1, DecodeIs
<1>3. Len(Rest) \in Nat
  BY <1>1
<1> HIDE DEF d
<1>4. d.used \in 0 .. Len(Rest)
  BY <1>2, <1>3
<1>5. /\ s \in Seq(Units(from)) /\ Len(s) = d.used
      /\ \A i \in 1 .. d.used : s[i] = Rest[i]
  BY <1>1, <1>4, Prefix
<1> HIDE DEF s
<1>6. CharSize(from, s) = d.used /\ FirstChar(from, s) = d.ch
  <2>1. CharSize(from, Rest) # 0 /\ CharSize(from, Rest) <= Len(s)
    BY <1>2, <1>5
  <2>2. \A i \in 1 .. CharSize(from, Rest) : s[i] = Rest[i]
    BY <1>2, <1>5
  <2>. QED
    BY <1>1, <1>2, <1>5, <2>1, <2>2, SameStart DEF Encodings
<1>7. s # <<>>
  BY <1>2, <1>5
<1>8. Chars(from, s) = <<d.ch>>
  BY <1>1, <1>5, <1>6, <1>7, CharsOfOne DEF Encodings
<1>. QED
  BY <1>2, <1>4, <1>8 DEF d, s

(* Nor is there a text where nothing can be decoded.                       *)
LEMMA RefusedIs ==
  ASSUME Sources, source < Len(src), ~Decode(Rest).ok, Chars(from, Before) # NotText
  PROVE  Chars(from, src) = NotText
<1>1. Rest \in Seq(Units(from)) /\ Rest # <<>> /\ from \in {8, 16, 32}
  BY RestIs DEF Sources
<1>2. CharSize(from, Rest) = 0
  BY <1>1, DecodeIs
<1>3. Chars(from, Rest) = NotText
  BY <1>1, <1>2, CharsOfSome DEF Encodings
<1>4. Before \in Seq(Units(from)) /\ Before \o Rest = src
  BY BeforeIs
<1>5. Joins(from, Before, Rest)
  BY <1>1, <1>4, TextsJoin DEF Encodings
<1>. QED
  BY <1>3, <1>4, <1>5 DEF Joins

LEMMA ReplacedJoins ==
  ASSUME NEW cs \in Seq(Nat), NEW ch \in Nat
  PROVE  Replaced(cs \o <<ch>>)
           = Replaced(cs) \o <<IF to = 32 THEN ch ELSE Replacement(ch)>>
<1>1. CASE to = 32
  BY <1>1 DEF Replaced
<1>2. CASE to # 32
  <2> DEFINE a == cs \o <<ch>>
             r == Replaced(cs)
             b == r \o <<Replacement(ch)>>
             l == Replaced(a)
  <2>1. /\ a \in Seq(Nat) /\ Len(a) = Len(cs) + 1 /\ a[Len(cs) + 1] = ch
        /\ \A i \in 1 .. Len(cs) : a[i] = cs[i]
    OBVIOUS
  <2>2. \A c \in Nat : Replacement(c) \in Nat
    BY SMT DEF Replacement
  <2>3. DOMAIN cs = 1 .. Len(cs) /\ \A i \in 1 .. Len(cs) : cs[i] \in Nat
    OBVIOUS
  <2>4. r = [i \in 1 .. Len(cs) |-> Replacement(cs[i])]
    BY <1>2, <2>3 DEF Replaced, Replacement
  <2> HIDE DEF a
  <2>5. DOMAIN a = 1 .. Len(a) /\ \A i \in 1 .. Len(a) : a[i] \in Nat
    BY <2>1
  <2>6. l = [i \in 1 .. Len(a) |-> Replacement(a[i])]
    BY <1>2, <2>5 DEF Replaced, Replacement
  <2> HIDE DEF r, l
  <2>7. r \in Seq(Nat) /\ Len(r) = Len(cs)
    BY <2>2, <2>3, <2>4, SeqOf
  <2>8. l \in Seq(Nat) /\ Len(l) = Len(a)
    BY <2>1, <2>2, <2>5, <2>6, SeqOf
  <2>9. Replacement(ch) \in Nat
    BY <2>2
  <2>10. /\ b \in Seq(Nat) /\ Len(b) = Len(cs) + 1 /\ b[Len(cs) + 1] = Replacement(ch)
         /\ \A i \in 1 .. Len(cs) : b[i] = r[i]
    BY <2>7, <2>9
  <2> HIDE DEF b
  <2>11. ASSUME NEW i \in 1 .. Len(l) PROVE l[i] = b[i]
    <3>1. l[i] = Replacement(a[i])
      BY <2>6, <2>8
    <3>2. CASE i <= Len(cs)
      <4>1. i \in 1 .. Len(cs)
        BY <3>2
      <4>. QED
        BY <2>1, <2>4, <2>10, <3>1, <4>1
    <3>3. CASE i = Len(cs) + 1
      BY <2>1, <2>10, <3>1, <3>3
    <3>. QED
      BY <2>1, <2>8, <3>2, <3>3
  <2>12. l = b
    BY <2>1, <2>8, <2>10, <2>11, SameSeqs
  <2>. QED
    BY <1>2, <2>12 DEF a, l, b, r
<1>. QED
  BY <1>1, <1>2

LEMMA ReplacementIs == \A c \in Nat : Replacement(c) \in Nat
BY SMT DEF Replacement

LEMMA ReplacedType ==
  ASSUME NEW cs \in Seq(Nat)
  PROVE  Replaced(cs) \in Seq(Nat)
<1>1. CASE to = 32
  BY <1>1 DEF Replaced
<1>2. CASE to # 32
  <2> DEFINE r == Replaced(cs)
  <2>1. DOMAIN cs = 1 .. Len(cs) /\ \A i \in 1 .. Len(cs) : cs[i] \in Nat
    OBVIOUS
  <2>2. r = [i \in 1 .. Len(cs) |-> Replacement(cs[i])]
    BY <1>2, <2>1 DEF Replaced, Replacement
  <2> HIDE DEF r
  <2>3. r \in Seq(Nat)
    BY <2>1, <2>2, ReplacementIs, SeqOf
  <2>. QED
    BY <2>3 DEF r
<1>. QED
  BY <1>1, <1>2

LEMMA RoundKeeps ==
  ASSUME Kept, Convert
  PROVE  Kept'
<1> DEFINE d == Decode(Rest)
<1>1. /\ Sources /\ verdict = "running" /\ source < Len(src)
      /\ source' = source + d.used /\ from' = from /\ to' = to /\ src' = src
      /\ \/ d.ok /\ converted' = converted \o Encode(d.ch) /\ verdict' = verdict
         \/ ~d.ok /\ verdict' = "invalid" /\ converted' = <<>>
  BY DEF Kept, Convert
<1>2. Sources'
  <2>1. source' \in 0 .. Len(src)
    BY <1>1, DecodeRest
  <2>. QED
    BY <1>1, <2>1 DEF Sources, Units
<1>3. from \in Encodings /\ to \in {0, 8, 16, 32}
  BY <1>1 DEF Sources, Encodings
<1>4. /\ Chars(from, Before) # NotText
      /\ to # 0 => Chars(to, converted) = Replaced(Chars(from, Before))
      /\ converted \in Seq(Units(to))
  BY <1>1 DEF Kept
<1>5. Before \in Seq(Units(from))
  BY <1>1, BeforeIs
<1>6. CASE d.ok
  <2> DEFINE s == SubSeq(Rest, 1, d.used)
             old == Chars(from, Before)
             new == Chars(from, Before')
             out == IF to = 32 THEN d.ch ELSE Replacement(d.ch)
  <2>1. d.ch \in Nat /\ d.used \in 0 .. Len(Rest) /\ Chars(from, s) = <<d.ch>>
    BY <1>1, <1>6, TakenIs
  <2>2. Before' = Before \o s /\ s \in Seq(Units(from))
    <3>1. SubSeq(src, 1, source + d.used) = Before \o s /\ s \in Seq(Units(from))
      BY <1>1, <2>1, RestTaken
    <3>2. Before' = SubSeq(src, 1, source + d.used)
      BY Zenon, <1>1 DEF Before
    <3>. QED
      BY Zenon, <3>1, <3>2
  <2>3. old \in Seq(Nat)
    BY <1>3, <1>4, <1>5, CharsType
  <2>4. Joins(from, Before, s)
    BY <1>3, <1>5, <2>2, TextsJoin
  <2> HIDE DEF d, s
  <2>5. <<d.ch>> # NotText
    BY <2>1 DEF NotText
  <2>6. new = old \o <<d.ch>>
    BY Zenon, <1>4, <2>1, <2>2, <2>4, <2>5 DEF Joins
  <2>7. new \in Seq(Nat) /\ new # NotText
    <3> HIDE DEF new, old
    <3>1. new \in Seq(Nat)
      BY <2>1, <2>3, <2>6
    <3>. QED
      BY <3>1, NotTextIsNoText
  <2>8. converted' = converted \o Encode(d.ch) /\ verdict' = "running"
    BY <1>1, <1>6 DEF d
  <2>9. /\ Encode(d.ch) \in Seq(Units(to))
        /\ to # 0 => Chars(to, Encode(d.ch)) = <<out>>
    BY <1>3, <2>1, EncodeIs
  <2>10. converted' \in Seq(Units(to))
    <3>1. \A p, q \in Seq(Units(to)) : p \o q \in Seq(Units(to))
      OBVIOUS
    <3>. QED
      BY Zenon, <1>4, <2>8, <2>9, <3>1
  <2>11. ASSUME to # 0 PROVE Chars(to, converted') = Replaced(new)
    <3>1. to \in Encodings
      BY <1>3, <2>11 DEF Encodings
    <3>2. Joins(to, converted, Encode(d.ch))
      BY <1>4, <2>9, <3>1, TextsJoin
    <3>3. Chars(to, converted) \in Seq(Nat) /\ Chars(to, converted) = Replaced(old)
      <4>1. Chars(to, converted) = Replaced(old)
        BY <1>4, <2>11
      <4>2. Replaced(old) \in Seq(Nat)
        BY <2>3, ReplacedType
      <4>. QED
        BY <4>1, <4>2
    <3>4. Chars(to, converted) # NotText
      BY <3>3, NotTextIsNoText
    <3>5. <<out>> # NotText
      <4>1. out \in Nat
        BY <2>1, ReplacementIs
      <4> HIDE DEF out
      <4>. QED
        BY <4>1 DEF NotText
    <3>6. Chars(to, converted') = Replaced(old) \o <<out>>
      BY Zenon, <2>8, <2>9, <2>11, <3>2, <3>3, <3>4, <3>5 DEF Joins
    <3>7. Replaced(old \o <<d.ch>>) = Replaced(old) \o <<out>>
      BY <2>1, <2>3, ReplacedJoins
    <3>. QED
      BY Zenon, <2>6, <3>6, <3>7
  <2>. QED
    BY <1>1, <1>2, <2>7, <2>8, <2>10, <2>11 DEF Kept, Replaced
<1>7. CASE ~d.ok
  <2>1. Chars(from, src) = NotText
    BY <1>1, <1>4, <1>7, RefusedIs
  <2>2. verdict' = "invalid" /\ converted' = <<>>
    BY <1>1, <1>7
  <2>3. <<>> \in Seq(Units(to'))
    OBVIOUS
  <2>. QED
    BY <1>1, <1>2, <2>1, <2>2, <2>3 DEF Kept
<1>. QED
  BY <1>6, <1>7

LEMMA InitKept == Init => Kept
<1> SUFFICES ASSUME Init PROVE Kept
  OBVIOUS
<1>1. Sources
  BY InitSources
<1>2. source = 0 /\ converted = <<>>
  BY DEF Init, ConvertInit, ConvertIdle
<1>3. verdict = "running" \/ (verdict = "ok" /\ src = <<>>)
  BY DEF Init, ConvertInit, ConvertIdle
<1>4. Before = <<>>
  BY <1>1, <1>2, BeforeIs
<1>5. from \in Encodings /\ (to # 0 => to \in Encodings)
  BY <1>1 DEF Sources, Encodings
<1>6. Chars(from, Before) = <<>> /\ (to # 0 => Chars(to, converted) = <<>>)
  BY Zenon, <1>2, <1>4, <1>5, CharsOfNone
<1>7. Replaced(<<>>) = <<>>
  <2>1. DOMAIN <<>> = {}
    OBVIOUS
  <2>2. Replaced(<<>>) \in Seq(Nat) /\ DOMAIN Replaced(<<>>) = {}
    <3>1. <<>> \in Seq(Nat)
      OBVIOUS
    <3>. QED
      BY <2>1, <3>1, ReplacedType DEF Replaced
  <2>. QED
    BY <2>2
<1>8. <<>> # NotText /\ <<>> \in Seq(Units(to)) /\ Len(<<>>) = 0
  BY DEF NotText
<1>9. verdict = "ok" => source = Len(src)
  BY <1>2, <1>3
<1>10. verdict # "invalid" /\ verdict \in {"running", "ok", "invalid"}
  BY <1>3
<1>. QED
  BY Zenon, <1>1, <1>2, <1>6, <1>7, <1>8, <1>9, <1>10 DEF Kept

LEMMA NextKept ==
  ASSUME Kept, [Next]_<<job, conversion, times>>
  PROVE  Kept'
<1>1. CASE Convert
  BY <1>1, RoundKeeps
<1>2. CASE ConvertReturn
  <2>1. /\ verdict = "running" /\ source >= Len(src) /\ verdict' = "ok"
        /\ from' = from /\ to' = to /\ src' = src /\ source' = source /\ converted' = converted
    BY <1>2 DEF ConvertReturn
  <2>2. Sources' /\ Before' = Before
    BY <2>1 DEF Kept, Sources, Units, Before
  <2>3. source = Len(src)
    BY <2>1 DEF Kept, Sources
  <2>. QED
    BY <2>1, <2>2, <2>3 DEF Kept, Replaced
<1>3. CASE UNCHANGED conversion
  <2>1. /\ verdict' = verdict /\ from' = from /\ to' = to /\ src' = src /\ source' = source
        /\ converted' = converted
    BY <1>3 DEF conversion
  <2>2. Sources' /\ Before' = Before
    BY <2>1 DEF Kept, Sources, Units, Before
  <2>. QED
    BY <2>1, <2>2 DEF Kept, Replaced
<1>. QED
  BY <1>1, <1>2, <1>3 DEF Next, ConvertText, HandleTimes, ConvertNext

LEMMA AlwaysKept == Spec => []Kept
<1>1. Init => Kept
  BY InitKept
<1>2. Kept /\ [Next]_<<job, conversion, times>> => Kept'
  BY NextKept
<1>. QED
  BY <1>1, <1>2, PTL DEF Spec

(* At every round what has been written is, by the standard, the text read *)
(* so far, U+FFFD in place of what is not a scalar value: as_str8, as_u16  *)
(* and as_u32 lose, double or split no character (utf.hpp:319-361,         *)
(* 410-487).                                                               *)
THEOREM ConversionsKeepTheText == Spec => []ConversionKeepsTheText
<1>1. Kept => ConversionKeepsTheText
  BY DEF Kept, ConversionKeepsTheText, Before
<1>. QED
  BY <1>1, AlwaysKept, PTL

(* is_valid() is true, and a conversion gives text, exactly for texts      *)
(* (utf.hpp:457-487).                                                      *)
THEOREM ValidityIsExactAlways == Spec => []ValidityIsExact
<1>1. ASSUME Kept PROVE ValidityIsExact
  <2>1. verdict = "ok" => Chars(from, src) # NotText
    <3>1. SUFFICES ASSUME verdict = "ok" PROVE Chars(from, src) # NotText
      OBVIOUS
    <3>2. Sources /\ source = Len(src) /\ Chars(from, Before) # NotText
      BY <1>1, <3>1 DEF Kept
    <3>. QED
      BY <3>2, BeforeIs
  <2>. QED
    BY <1>1, <2>1 DEF Kept, ValidityIsExact
<1>. QED
  BY <1>1, AlwaysKept, PTL

(* Nothing is decoded beyond the end, every unit written has the width of  *)
(* its encoding, and every time is a word (utf.hpp:471-487, UnixNanotime.- *)
(* hpp:12-14).                                                             *)
THEOREM TypesAre == Spec => []TypeOK
<1>1. ASSUME Kept, Known PROVE TypeOK
  <2>1. /\ from \in {8, 16, 32} /\ to \in {0, 8, 16, 32} \ {from} /\ source \in 0 .. Len(src)
        /\ verdict \in {"running", "ok", "invalid"}
    BY <1>1 DEF Kept, Sources
  <2>2. \A i \in DOMAIN converted : converted[i] \in Units(to)
    <3>1. PICK U : U = Units(to)
      OBVIOUS
    <3>2. converted \in Seq(U)
      BY <1>1, <3>1 DEF Kept
    <3>3. \A i \in DOMAIN converted : converted[i] \in U
      BY <3>2
    <3>. QED
      BY <3>1, <3>3
  <2>3. uninitialized \in 0 .. Word - 1
    BY WordIs DEF uninitialized
  <2>4. {last_write_time, creation_time, answer} \subseteq 0 .. Word - 1
    <3>1. last_write_time \in 0 .. Word - 1
      BY <1>1, <2>3, FromKernelIs DEF Known
    <3>2. creation_time \in 0 .. Word - 1
      BY <1>1, <2>3, FromKernelIs DEF Known
    <3>3. answer \in 0 .. Word - 1
      BY <1>1, <2>3, FromKernelIs DEF Known
    <3>. QED
      BY <3>1, <3>2, <3>3
  <2>5. btime \in Times \cup {NoTime} /\ {mtime, fetched, born, meant} \subseteq Times \cup {NoTime}
    BY <1>1 DEF Known
  <2>. QED
    BY <2>1, <2>2, <2>4, <2>5 DEF TypeOK
<1>. QED
  BY <1>1, AlwaysKept, AlwaysKnown, PTL

=============================================================================
