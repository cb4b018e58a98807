-------------------------- MODULE IFileTextResults --------------------------
(***************************************************************************)
(* Proofs of what the text calls return: a whole text is the file with its *)
(* mark and its carriage returns gone, a line is the next one, and a       *)
(* character is the one that begins at the position.  Each follows what a  *)
(* call has collected, from where it began, to what it makes of it.        *)
(***************************************************************************)
EXTENDS IFileTextProofs, FiniteSetTheorems

-----------------------------------------------------------------------------
(* What the loops over a text compute.  A function that is defined by      *)
(* recursion is the one that is written out, since that one satisfies the  *)
(* equations too, and no two do.                                           *)

LEMMA SameFunctions ==
  ASSUME NEW n \in Nat, NEW f, NEW g, f[0] = g[0],
         \A i \in 1 .. n : f[i - 1] = g[i - 1] => f[i] = g[i]
  PROVE  f[n] = g[n]
<1> DEFINE S == {i \in Nat : i <= n => f[i] = g[i]}
<1>1. 0 \in S
  OBVIOUS
<1>2. ASSUME NEW i \in Nat, i \in S PROVE i + 1 \in S
  <2>1. SUFFICES ASSUME i + 1 <= n PROVE f[i + 1] = g[i + 1]
    OBVIOUS
  <2>2. PICK j \in 1 .. n : j = i + 1
    BY <2>1
  <2>3. j - 1 = i /\ f[i] = g[i]
    BY <1>2, <2>1, <2>2
  <2>. QED
    BY <2>2, <2>3
<1> HIDE DEF S
<1>3. n \in S
  BY <1>1, <1>2, SetInduction
<1>. QED
  BY <1>3 DEF S

LEMMA OneLonger ==
  ASSUME NEW S, NEW s \in Seq(S), NEW i \in 1 .. Len(s)
  PROVE  SubSeq(s, 1, i) = Append(SubSeq(s, 1, i - 1), s[i])
OBVIOUS

LEMMA AllOfIt == ASSUME NEW S, NEW s \in Seq(S) PROVE SubSeq(s, 1, Len(s)) = s
OBVIOUS

(* A step of handle_newlines(), and of read_line_via_read_byte().          *)
CRLFAt(s, i) == s[i] = CR /\ i < Len(s) /\ s[i + 1] = LF

Dest(s, g, i) ==
  IF i = 0 THEN <<>> ELSE IF CRLFAt(s, i) THEN g[i - 1] ELSE Append(g[i - 1], s[i])

WithByte(line, b) ==
  IF b # LF THEN Append(line, b)
  ELSE IF line # <<>> /\ Last(line) = CR THEN Front(line) ELSE line

ByteByByte(s, g, i) == IF i = 0 THEN <<>> ELSE WithByte(g[i - 1], s[i])

LEMMA HandleIs ==
  ASSUME NEW s \in Seq(Octets), NEW g, g = [i \in 0 .. Len(s) |-> Dest(s, g, i)]
  PROVE  handle_newlines(s) = g[Len(s)]
<1> DEFINE dest == CHOOSE d : d = [i \in 0 .. Len(s) |->
                     IF i = 0 THEN <<>>
                     ELSE IF s[i] = CR /\ i < Len(s) /\ s[i + 1] = LF THEN d[i - 1]
                     ELSE Append(d[i - 1], s[i])]
<1>1. handle_newlines(s) = dest[Len(s)]
  BY Zenon DEF handle_newlines
<1>2. g = [i \in 0 .. Len(s) |->
                     IF i = 0 THEN <<>>
                     ELSE IF s[i] = CR /\ i < Len(s) /\ s[i + 1] = LF THEN g[i - 1]
                     ELSE Append(g[i - 1], s[i])]
  BY Zenon DEF Dest, CRLFAt
<1>3. dest = [i \in 0 .. Len(s) |->
                     IF i = 0 THEN <<>>
                     ELSE IF s[i] = CR /\ i < Len(s) /\ s[i + 1] = LF THEN dest[i - 1]
                     ELSE Append(dest[i - 1], s[i])]
  BY <1>2
<1> HIDE DEF dest
<1>4. dest = [i \in 0 .. Len(s) |-> Dest(s, dest, i)]
  BY Zenon, <1>3 DEF Dest, CRLFAt
<1>5. PICK n \in Nat : n = Len(s)
  OBVIOUS
<1>6. \A i \in 0 .. n : g[i] = Dest(s, g, i) /\ dest[i] = Dest(s, dest, i)
  BY <1>4, <1>5
<1>7. dest[0] = g[0]
  BY <1>6, <1>5 DEF Dest
<1>8. ASSUME NEW i \in 1 .. n, dest[i - 1] = g[i - 1] PROVE dest[i] = g[i]
  <2>1. i # 0 /\ i \in 0 .. n
    OBVIOUS
  <2>2. g[i] = Dest(s, g, i) /\ dest[i] = Dest(s, dest, i)
    BY <1>6, <2>1
  <2>. QED
    BY Zenon, <1>8, <2>1, <2>2 DEF Dest
<1>9. dest[n] = g[n]
  BY <1>7, <1>8, SameFunctions
<1>. QED
  BY <1>1, <1>5, <1>9

LEMMA LineViaIs ==
  ASSUME NEW s \in Seq(Octets), NEW g, g = [i \in 0 .. Len(s) |-> ByteByByte(s, g, i)]
  PROVE  LineViaReadByte(s) = g[Len(s)]
<1> DEFINE r == CHOOSE r : r = [i \in 0 .. Len(s) |->
                     IF i = 0 THEN <<>>
                     ELSE IF s[i] # LF THEN Append(r[i - 1], s[i])
                     ELSE IF r[i - 1] # <<>> /\ Last(r[i - 1]) = CR THEN Front(r[i - 1])
                          ELSE r[i - 1]]
<1>1. LineViaReadByte(s) = r[Len(s)]
  BY Zenon DEF LineViaReadByte
<1>2. g = [i \in 0 .. Len(s) |->
                     IF i = 0 THEN <<>>
                     ELSE IF s[i] # LF THEN Append(g[i - 1], s[i])
                     ELSE IF g[i - 1] # <<>> /\ Last(g[i - 1]) = CR THEN Front(g[i - 1])
                          ELSE g[i - 1]]
  BY Zenon DEF ByteByByte, WithByte
<1>3. r = [i \in 0 .. Len(s) |->
                     IF i = 0 THEN <<>>
                     ELSE IF s[i] # LF THEN Append(r[i - 1], s[i])
                     ELSE IF r[i - 1] # <<>> /\ Last(r[i - 1]) = CR THEN Front(r[i - 1])
                          ELSE r[i - 1]]
  BY <1>2
<1> HIDE DEF r
<1>4. r = [i \in 0 .. Len(s) |-> ByteByByte(s, r, i)]
  BY Zenon, <1>3 DEF ByteByByte, WithByte
<1>5. PICK n \in Nat : n = Len(s)
  OBVIOUS
<1>6. \A i \in 0 .. n : g[i] = ByteByByte(s, g, i) /\ r[i] = ByteByByte(s, r, i)
  BY <1>4, <1>5
<1>7. r[0] = g[0]
  <2>1. 0 \in 0 .. n
    OBVIOUS
  <2>2. g[0] = ByteByByte(s, g, 0) /\ r[0] = ByteByByte(s, r, 0)
    BY <1>6, <2>1
  <2>3. ByteByByte(s, g, 0) = <<>> /\ ByteByByte(s, r, 0) = <<>>
    BY Zenon DEF ByteByByte
  <2>. QED
    BY <2>2, <2>3
<1>8. ASSUME NEW i \in 1 .. n, r[i - 1] = g[i - 1] PROVE r[i] = g[i]
  <2>1. i # 0 /\ i \in 0 .. n
    OBVIOUS
  <2>2. g[i] = ByteByByte(s, g, i) /\ r[i] = ByteByByte(s, r, i)
    BY <1>6, <2>1
  <2>. QED
    BY Zenon, <1>8, <2>1, <2>2 DEF ByteByByte
<1>9. r[n] = g[n]
  BY <1>7, <1>8, SameFunctions
<1>. QED
  BY <1>1, <1>5, <1>9

(* Counting the bytes that stay gives the place of each.                   *)
Stays(s) == {i \in 1 .. Len(s) : ~(s[i] = CR /\ i < Len(s) /\ s[i + 1] = LF)}

UpTo(K, i) == {j \in K : j <= i}

LEMMA Ranks ==
  ASSUME NEW n \in Nat, NEW K \in SUBSET (1 .. n)
  PROVE  /\ UpTo(K, n) = K /\ Cardinality(UpTo(K, 0)) = 0
         /\ \A i \in 0 .. n : Cardinality(UpTo(K, i)) \in Nat
         /\ \A i \in 1 .. n : i \notin K => UpTo(K, i) = UpTo(K, i - 1)
         /\ \A i \in K : Cardinality(UpTo(K, i)) = Cardinality(UpTo(K, i - 1)) + 1
         /\ \A i, j \in K : Cardinality(UpTo(K, i)) = Cardinality(UpTo(K, j)) => i = j
<1>1. \A k \in K : k \in Nat /\ 1 <= k /\ k <= n
  OBVIOUS
<1>2. IsFiniteSet(K)
  <2>1. 1 \in Int /\ n \in Int
    OBVIOUS
  <2>2. IsFiniteSet(1 .. n)
    BY <2>1, FS_Interval
  <2>. QED
    BY <2>2, FS_Subset
<1>3. ASSUME NEW i PROVE IsFiniteSet(UpTo(K, i)) /\ Cardinality(UpTo(K, i)) \in Nat
  <2>1. UpTo(K, i) \in SUBSET K
    BY DEF UpTo
  <2>2. IsFiniteSet(UpTo(K, i))
    BY <1>2, <2>1, FS_Subset
  <2>. QED
    BY <2>2, FS_CardinalityType
<1>4. UpTo(K, n) = K
  <2>1. \A k \in K : k <= n
    BY <1>1
  <2>. QED
    BY Zenon, <2>1 DEF UpTo
<1>5. Cardinality(UpTo(K, 0)) = 0
  <2>1. \A k \in K : ~(k <= 0)
    BY <1>1
  <2>2. UpTo(K, 0) = {}
    BY Zenon, <2>1 DEF UpTo
  <2>. QED
    BY <2>2, FS_EmptySet
<1>6. ASSUME NEW i \in 1 .. n, i \notin K PROVE UpTo(K, i) = UpTo(K, i - 1)
  <2>1. \A k \in K : k <= i <=> k <= i - 1
    BY <1>1, <1>6
  <2>. QED
    BY <2>1 DEF UpTo
<1>7. ASSUME NEW i \in K PROVE Cardinality(UpTo(K, i)) = Cardinality(UpTo(K, i - 1)) + 1
  <2>1. \A k \in K : k <= i <=> k <= i - 1 \/ k = i
    BY <1>1
  <2>2. ~(i <= i - 1) /\ i <= i
    BY <1>1
  <2>3. UpTo(K, i) = UpTo(K, i - 1) \cup {i} /\ i \notin UpTo(K, i - 1)
    BY <2>1, <2>2 DEF UpTo
  <2>4. IsFiniteSet(UpTo(K, i - 1))
    BY <1>3
  <2>. QED
    BY <2>3, <2>4, FS_AddElement
<1>8. ASSUME NEW i \in K, NEW j \in K, i < j
      PROVE  Cardinality(UpTo(K, i)) < Cardinality(UpTo(K, j))
  <2>1. \A k \in K : k <= i => k <= j - 1
    BY <1>1, <1>8
  <2>2. UpTo(K, i) \in SUBSET UpTo(K, j - 1)
    BY <2>1 DEF UpTo
  <2>3. IsFiniteSet(UpTo(K, j - 1))
    BY <1>3
  <2>4. Cardinality(UpTo(K, i)) <= Cardinality(UpTo(K, j - 1))
    BY <2>2, <2>3, FS_Subset
  <2>5. /\ Cardinality(UpTo(K, i)) \in Nat /\ Cardinality(UpTo(K, j - 1)) \in Nat
        /\ Cardinality(UpTo(K, j)) = Cardinality(UpTo(K, j - 1)) + 1
    BY <1>3, <1>7
  <2>. QED
    BY <2>4, <2>5
<1>9. ASSUME NEW i \in K, NEW j \in K, Cardinality(UpTo(K, i)) = Cardinality(UpTo(K, j)) PROVE i = j
  <2>1. i < j \/ j < i \/ i = j
    BY <1>1
  <2>2. Cardinality(UpTo(K, i)) \in Nat /\ Cardinality(UpTo(K, j)) \in Nat
    BY <1>3
  <2>3. CASE i < j
    BY <1>8, <1>9, <2>2, <2>3
  <2>4. CASE j < i
    BY <1>8, <1>9, <2>2, <2>4
  <2>. QED
    BY <2>1, <2>3, <2>4
<1>. QED
  BY <1>3, <1>4, <1>5, <1>6, <1>7, <1>9

(* handle_newlines() does what it is for.                                  *)
LEMMA NewlinesAreHandled ==
  ASSUME NEW s \in Seq(Octets)
  PROVE  handle_newlines(s) = Normalized(s)
<1> DEFINE K == Stays(s)
           c(i) == Cardinality(UpTo(K, i))
           pick(k) == CHOOSE i \in K : c(i) = k
           g == [i \in 0 .. Len(s) |-> [k \in 1 .. c(i) |-> s[pick(k)]]]
<1>1. PICK n \in Nat : n = Len(s)
  OBVIOUS
<1>2. K \in SUBSET (1 .. n)
  BY <1>1 DEF Stays
<1>3. \A i \in 1 .. n : i \in K <=> ~CRLFAt(s, i)
  BY <1>1 DEF Stays, CRLFAt
<1>4. \A i \in 1 .. n : s[i] \in Octets
  BY <1>1
<1>5. Normalized(s) = [k \in 1 .. Cardinality(K) |-> s[pick(k)]]
  BY Zenon DEF Normalized, Stays, UpTo
<1> HIDE DEF K
<1>6. /\ UpTo(K, n) = K /\ c(0) = 0 /\ \A i \in 0 .. n : c(i) \in Nat
      /\ \A i \in 1 .. n : i \notin K => UpTo(K, i) = UpTo(K, i - 1)
      /\ \A i \in K : c(i) = c(i - 1) + 1
      /\ \A i, j \in K : c(i) = c(j) => i = j
  BY <1>2, Ranks
<1>7. \A i \in K : pick(c(i)) = i
  BY <1>6
<1> HIDE DEF pick
<1>8. ASSUME NEW i \in 0 .. n PROVE g[i] = Dest(s, g, i)
  <2>1. CASE i = 0
    BY <1>1, <1>6, <2>1 DEF Dest
  <2>2. CASE i \in 1 .. n /\ i \notin K
    <3>1. i - 1 \in 0 .. n /\ i # 0 /\ CRLFAt(s, i) /\ UpTo(K, i) = UpTo(K, i - 1)
      BY <1>3, <1>6, <2>2
    <3>2. g[i] = g[i - 1]
      BY <1>1, <3>1
    <3> HIDE DEF g
    <3>. QED
      BY <3>1, <3>2 DEF Dest
  <2>3. CASE i \in K
    <3>1. i \in 1 .. n /\ i - 1 \in 0 .. n /\ i # 0 /\ ~CRLFAt(s, i)
      BY <1>2, <1>3, <2>3
    <3>2. PICK m \in Nat : m = c(i - 1)
      BY <1>6, <3>1
    <3>3. c(i) = m + 1 /\ pick(m + 1) = i
      BY <1>6, <1>7, <2>3, <3>2
    <3> DEFINE u == [k \in 1 .. m |-> s[pick(k)]]
               v == [k \in 1 .. m + 1 |-> s[pick(k)]]
    <3>4. g[i - 1] = u /\ g[i] = v
      BY <1>1, <3>1, <3>2, <3>3
    <3>5. v = Append(u, s[i])
      <4> DEFINE T == {s[pick(k)] : k \in 1 .. m + 1}
      <4>1. u \in [1 .. m -> T] /\ v \in [1 .. m + 1 -> T]
        OBVIOUS
      <4>2. s[i] \in T
        BY <3>3
      <4>3. \A k \in 1 .. m : v[k] = u[k]
        OBVIOUS
      <4>4. v[m + 1] = s[i]
        BY <3>3
      <4> HIDE DEF u, v, T
      <4>5. /\ u \in Seq(T) /\ Len(u) = m
        BY <4>1, FunIsSeq
      <4>6. v \in Seq(T) /\ Len(v) = m + 1
        BY <4>1, FunIsSeq
      <4>7. /\ Append(u, s[i]) \in Seq(T) /\ Len(Append(u, s[i])) = m + 1
            /\ \A k \in 1 .. m : Append(u, s[i])[k] = u[k]
            /\ Append(u, s[i])[m + 1] = s[i]
        BY <4>2, <4>5, AppendProperties
      <4>8. \A k \in 1 .. m + 1 : v[k] = Append(u, s[i])[k]
        BY <4>3, <4>4, <4>7
      <4>. QED
        BY <4>6, <4>7, <4>8, SeqEqual
    <3> HIDE DEF g, u, v
    <3>. QED
      BY <3>1, <3>4, <3>5 DEF Dest
  <2>. QED
    BY <2>1, <2>2, <2>3
<1>9. g = [i \in 0 .. n |-> g[i]]
  BY <1>1
<1>10. g[n] = [k \in 1 .. Cardinality(K) |-> s[pick(k)]]
  BY <1>1, <1>6
<1> HIDE DEF g
<1>11. g = [i \in 0 .. Len(s) |-> Dest(s, g, i)]
  BY <1>1, <1>8, <1>9
<1>12. handle_newlines(s) = g[n]
  BY <1>1, <1>11, HandleIs
<1>. QED
  BY <1>5, <1>10, <1>12

OneLine(s) == \A i \in 1 .. Len(s) - 1 : s[i] # LF

(* A line has no "\r\n" but at its end.                                    *)
LEMMA LineNewlines ==
  ASSUME NEW s \in Seq(Octets), OneLine(s)
  PROVE  handle_newlines(s) = EraseCR(s)
<1>1. PICK n \in Nat : n = Len(s)
  OBVIOUS
<1>2. \A i \in 1 .. n : CRLFAt(s, i) => i = n - 1 /\ s[n] = LF /\ s[n - 1] = CR
  <2> SUFFICES ASSUME NEW i \in 1 .. n, CRLFAt(s, i)
               PROVE  i = n - 1 /\ s[n] = LF /\ s[n - 1] = CR
    OBVIOUS
  <2>1. i < n /\ s[i] = CR /\ s[i + 1] = LF
    BY <1>1 DEF CRLFAt
  <2>2. PICK j \in Nat : j = i + 1
    OBVIOUS
  <2>3. ~(j \in 1 .. n - 1)
    BY <1>1, <2>1, <2>2 DEF OneLine
  <2>4. j = n /\ i = n - 1
    BY <2>1, <2>2, <2>3
  <2>. QED
    BY <2>1, <2>2, <2>4
<1>3. CASE ~(n >= 2 /\ s[n] = LF /\ s[n - 1] = CR)
  <2> DEFINE g == [i \in 0 .. n |-> SubSeq(s, 1, i)]
  <2>1. ASSUME NEW i \in 0 .. n PROVE g[i] = Dest(s, g, i)
    <3>1. CASE i = 0
      BY <3>1 DEF Dest
    <3>2. CASE i \in 1 .. n
      <4>1. ~CRLFAt(s, i)
        BY <1>2, <1>3, <3>2
      <4>2. SubSeq(s, 1, i) = Append(SubSeq(s, 1, i - 1), s[i])
        BY <1>1, <3>2, OneLonger
      <4>3. i # 0 /\ i - 1 \in 0 .. n
        BY <3>2
      <4>4. g[i] = Append(g[i - 1], s[i])
        BY <4>2, <4>3
      <4> HIDE DEF g
      <4>. QED
        BY <4>1, <4>3, <4>4 DEF Dest
    <3>3. i = 0 \/ i \in 1 .. n
      OBVIOUS
    <3>. QED
      BY <3>1, <3>2, <3>3
  <2>2. g = [i \in 0 .. n |-> g[i]] /\ g[n] = SubSeq(s, 1, n)
    OBVIOUS
  <2> HIDE DEF g
  <2>3. g = [i \in 0 .. Len(s) |-> Dest(s, g, i)]
    BY <1>1, <2>1, <2>2
  <2>4. handle_newlines(s) = g[Len(s)]
    BY <2>3, HandleIs
  <2>5. SubSeq(s, 1, n) = s
    BY <1>1, AllOfIt
  <2>6. EraseCR(s) = s
    BY <1>1, <1>3 DEF EraseCR
  <2>. QED
    BY <1>1, <2>2, <2>4, <2>5, <2>6
<1>4. CASE n >= 2 /\ s[n] = LF /\ s[n - 1] = CR
  <2> DEFINE u == SubSeq(s, 1, n - 2)
             g == [i \in 0 .. n |-> IF i = n THEN Append(u, LF) ELSE IF i = n - 1 THEN u ELSE SubSeq(s, 1, i)]
  <2>0. CRLFAt(s, n - 1) /\ ~CRLFAt(s, n)
    <3>1. n - 1 + 1 = n /\ n - 1 < n /\ ~(n < n)
      OBVIOUS
    <3>. QED
      BY <1>1, <1>4, <3>1 DEF CRLFAt
  <2>1. ASSUME NEW i \in 0 .. n PROVE g[i] = Dest(s, g, i)
    <3>1. CASE i = 0
      <4>1. g[0] = SubSeq(s, 1, 0) \/ g[0] = u
        BY <1>4
      <4>2. g[0] = SubSeq(s, 1, 0)
        BY <1>4
      <4>. QED
        BY <3>1, <4>2 DEF Dest
    <3>2. CASE i \in 1 .. n - 2
      <4>1. ~CRLFAt(s, i)
        BY <1>2, <3>2
      <4>2. i \in 1 .. Len(s)
        BY <1>1, <3>2
      <4>3. SubSeq(s, 1, i) = Append(SubSeq(s, 1, i - 1), s[i])
        BY <4>2, OneLonger
      <4>4. i # 0 /\ i - 1 \in 0 .. n /\ i # n /\ i # n - 1 /\ i - 1 # n /\ i - 1 # n - 1
        BY <3>2
      <4>5. g[i] = SubSeq(s, 1, i) /\ g[i - 1] = SubSeq(s, 1, i - 1)
        BY <4>4
      <4> HIDE DEF g
      <4>. QED
        BY <4>1, <4>3, <4>4, <4>5 DEF Dest
    <3>3. CASE i = n - 1
      <4>1. i # 0 /\ i - 1 = n - 2 /\ i - 1 \in 0 .. n /\ i - 1 # n /\ i - 1 # n - 1 /\ i # n
        BY <1>4, <3>3
      <4>2. g[i] = u /\ g[i - 1] = u
        BY <3>3, <4>1
      <4> HIDE DEF g
      <4>. QED
        BY <2>0, <3>3, <4>1, <4>2 DEF Dest
    <3>4. CASE i = n
      <4>1. i # 0 /\ i - 1 = n - 1 /\ i - 1 \in 0 .. n /\ i - 1 # n
        BY <1>4, <3>4
      <4>2. g[i] = Append(u, LF) /\ g[i - 1] = u
        BY <3>4, <4>1
      <4> HIDE DEF g
      <4>. QED
        BY <1>4, <2>0, <3>4, <4>1, <4>2 DEF Dest
    <3>5. i = 0 \/ i \in 1 .. n - 2 \/ i = n - 1 \/ i = n
      OBVIOUS
    <3>. QED
      BY <3>1, <3>2, <3>3, <3>4, <3>5
  <2>2. g = [i \in 0 .. n |-> g[i]] /\ g[n] = Append(u, LF)
    OBVIOUS
  <2> HIDE DEF g
  <2>3. g = [i \in 0 .. Len(s) |-> Dest(s, g, i)]
    BY <1>1, <2>1, <2>2
  <2>4. handle_newlines(s) = g[Len(s)]
    BY <2>3, HandleIs
  <2>5. EraseCR(s) = Append(u, LF)
    BY <1>1, <1>4 DEF EraseCR
  <2>. QED
    BY <1>1, <2>2, <2>4, <2>5
<1>. QED
  BY <1>3, <1>4

(* The reference loop on a line.                                           *)
LEMMA LineByteByByte ==
  ASSUME NEW s \in Seq(Octets), OneLine(s)
  PROVE  LineViaReadByte(s) = IF LastIsLF(s) THEN PopCR(Front(s)) ELSE s
<1>1. PICK n \in Nat : n = Len(s)
  OBVIOUS
<1>2. LastIsLF(s) <=> n > 0 /\ s[n] = LF
  BY <1>1 DEF LastIsLF
<1> DEFINE last == IF LastIsLF(s) THEN PopCR(Front(s)) ELSE s
           g == [i \in 0 .. n |-> IF i = n THEN last ELSE SubSeq(s, 1, i)]
<1>3. ASSUME NEW i \in 0 .. n PROVE g[i] = ByteByByte(s, g, i)
  <2>1. CASE i = 0 /\ n = 0
    <3>1. ~LastIsLF(s)
      BY <1>2, <2>1
    <3>2. s = <<>>
      <4>1. Len(s) = 0
        BY <1>1, <2>1
      <4>. QED
        BY <4>1, EmptySeq
    <3>3. g[i] = <<>>
      BY <2>1, <3>1, <3>2
    <3> HIDE DEF g
    <3>. QED
      BY <2>1, <3>3 DEF ByteByByte
  <2>2. CASE i = 0 /\ n # 0
    <3>1. g[i] = <<>>
      BY <2>2
    <3>. QED
      BY <2>2, <3>1 DEF ByteByByte
  <2>3. CASE i \in 1 .. n
    <3>1. i \in 1 .. Len(s) /\ i # 0 /\ i - 1 \in 0 .. n /\ i - 1 # n
      BY <1>1, <2>3
    <3>2. SubSeq(s, 1, i) = Append(SubSeq(s, 1, i - 1), s[i])
      BY <3>1, OneLonger
    <3>3. g[i - 1] = SubSeq(s, 1, i - 1)
      BY <3>1
    <3>4. g[i] = WithByte(SubSeq(s, 1, i - 1), s[i])
      <4>1. CASE s[i] # LF
        <5>1. g[i] = SubSeq(s, 1, i)
          <6>1. CASE i # n
            BY <6>1
          <6>2. CASE i = n
            <7>1. last = s
              BY <1>2, <4>1, <6>2
            <7>2. SubSeq(s, 1, n) = s
              BY <1>1, AllOfIt
            <7>. QED
              BY <6>2, <7>1, <7>2
          <6>. QED
            BY <6>1, <6>2
        <5> HIDE DEF g
        <5>. QED
          BY Zenon, <3>2, <4>1, <5>1 DEF WithByte
      <4>2. CASE s[i] = LF
        <5>1. i = n
          BY <1>1, <2>3, <4>2 DEF OneLine
        <5>2. g[i] = PopCR(Front(s))
          BY <1>2, <2>3, <4>2, <5>1
        <5> HIDE DEF g
        <5> DEFINE f == SubSeq(s, 1, n - 1)
        <5>3. Front(s) = f
          BY <1>1 DEF Front
        <5> HIDE DEF f
        <5>4. WithByte(f, s[i]) = PopCR(f)
          BY <4>2 DEF WithByte, PopCR, Last
        <5>. QED
          BY <5>1, <5>2, <5>3, <5>4 DEF f
      <4>. QED
        BY <4>1, <4>2
    <3> HIDE DEF g
    <3>. QED
      BY <3>1, <3>3, <3>4 DEF ByteByByte
  <2>. QED
    BY <2>1, <2>2, <2>3
<1>4. g = [i \in 0 .. n |-> g[i]] /\ g[n] = last
  OBVIOUS
<1> HIDE DEF g
<1>5. g = [i \in 0 .. Len(s) |-> ByteByByte(s, g, i)]
  BY <1>1, <1>3, <1>4
<1>6. LineViaReadByte(s) = g[Len(s)]
  BY <1>5, LineViaIs
<1>. QED
  BY <1>1, <1>4, <1>6

(* decode() of all the bytes that the first one calls for.                 *)
LEMMA CharIs ==
  ASSUME NEW rest \in Seq(Octets), NEW n \in 1 .. Len(rest), n = 1 + Trailing(rest[1])
  PROVE  LET s == SubSeq(rest, 1, n) IN
         /\ decode8(s).ok <=> WellFormed(s)
         /\ ~decode8(s).ok => \A k \in 1 .. 4 : k <= Len(rest) => ~WellFormed(SubSeq(rest, 1, k))
<1> DEFINE s == SubSeq(rest, 1, n)
<1>1. /\ s \in Seq(Octets) /\ Len(s) = n /\ \A i \in 1 .. n : s[i] = rest[i]
  <2>1. n \in 0 .. Len(rest)
    OBVIOUS
  <2>. QED
    BY <2>1, Prefix
<1>2. n \in Nat /\ n > 0 /\ 1 \in 1 .. n
  OBVIOUS
<1>3. ASSUME NEW k \in 1 .. 4, k <= Len(rest), WellFormed(SubSeq(rest, 1, k)) PROVE k = n
  <2>1. k = trailingBytesForUTF8(rest[1]) + 1
    BY <1>3, Agree
  <2>2. trailingBytesForUTF8(rest[1]) \in 0 .. 5
    BY TrailingIsFew DEF Trailing
  <2>. QED
    BY <2>1, <2>2 DEF Trailing
<1> HIDE DEF s
<1>4. s[1] = rest[1] /\ s # <<>>
  <2>1. s # <<>>
    BY <1>1, <1>2
  <2>. QED
    BY <1>1, <1>2, <2>1
<1>5. SubSeq(s, 1, n) = s
  BY <1>1, AllOfIt
<1>6. decode8(s).ok => WellFormed(s)
  <2> SUFFICES ASSUME decode8(s).ok PROVE WellFormed(s)
    OBVIOUS
  <2>1. CharSize(8, s) # 0
    BY <1>1, <1>4, Decode8Is
  <2>2. PICK k \in 1 .. 4 : k <= Len(s) /\ WellFormed(SubSeq(s, 1, k))
    BY <1>1, <2>1, NoSize
  <2>3. k = trailingBytesForUTF8(s[1]) + 1
    BY <1>1, <2>2, Agree
  <2>4. trailingBytesForUTF8(rest[1]) \in 0 .. 5
    BY TrailingIsFew DEF Trailing
  <2>5. k = n
    BY <1>4, <2>3, <2>4 DEF Trailing
  <2>. QED
    BY <1>5, <2>2, <2>5
<1>7. ASSUME NEW k \in 1 .. 4, k <= Len(rest), WellFormed(SubSeq(rest, 1, k)) PROVE decode8(s).ok
  <2>1. k = n
    BY <1>3, <1>7
  <2>2. WellFormed(s)
    BY <1>7, <2>1 DEF s
  <2>4. WellFormed(SubSeq(s, 1, k)) /\ k <= Len(s)
    <3>1. SubSeq(s, 1, k) = s
      BY <1>5, <2>1
    <3>2. k <= Len(s)
      BY <1>1, <1>2, <2>1
    <3>. QED
      BY <2>2, <3>1, <3>2
  <2>3. CharSize(8, s) = k
    BY <1>1, <2>4, OneSize
  <2>. QED
    BY <1>1, <1>4, <2>3, Decode8Is
<1>8. WellFormed(s) => decode8(s).ok
  <2> SUFFICES ASSUME WellFormed(s) PROVE decode8(s).ok
    OBVIOUS
  <2>1. n \in 1 .. 4
    BY <1>1 DEF WellFormed
  <2>2. WellFormed(SubSeq(rest, 1, n))
    BY DEF s
  <2>. QED
    BY <1>7, <2>1, <2>2
<1>. QED
  BY <1>6, <1>7, <1>8 DEF s

-----------------------------------------------------------------------------
(* Where the text of a call begins.                                        *)

LEMMA BomOfFile ==
  ASSUME Contents, fd \in Files, size[fd] \in Nat, NEW n \in Nat, n <= size[fd]
  PROVE  /\ StartsWithBom(FileBytes(0, n)) <=> n >= 3 /\ SubSeq(content[fd], 1, 3) = BOM
         /\ n >= 3 => EraseBom(FileBytes(0, n)) = IF SubSeq(content[fd], 1, 3) = BOM
                                                  THEN FileBytes(3, n) ELSE FileBytes(0, n)
         /\ ~(n >= 3) => EraseBom(FileBytes(0, n)) = FileBytes(0, n)
<1>1. PICK c \in Seq(Octets) : c = content[fd] /\ size[fd] <= Len(c)
  BY TextOfFile
<1>2. n <= Len(c)
  BY <1>1
<1>3. PICK t : t = SubSeq(c, 1, n)
  OBVIOUS
<1>4. t \in Seq(Octets) /\ Len(t) = n /\ \A k \in 1 .. n : t[k] = c[k]
  BY <1>2, <1>3, FirstOf
<1>5. t = FileBytes(0, n)
  BY <1>1, <1>3 DEF FileBytes
<1>6. n >= 3 => SubSeq(t, 1, 3) = SubSeq(c, 1, 3) /\ SubSeq(t, 4, Len(t)) = SubSeq(c, 4, n)
  <2> SUFFICES ASSUME n >= 3
               PROVE  SubSeq(t, 1, 3) = SubSeq(c, 1, 3) /\ SubSeq(t, 4, Len(t)) = SubSeq(c, 4, n)
    OBVIOUS
  <2>1. SubSeq(t, 1, 3) = SubSeq(c, 1, 3)
    BY <1>2, <1>4
  <2>2. SubSeq(t, 4, n) = SubSeq(c, 4, n)
    BY <1>2, <1>4
  <2>. QED
    BY <1>4, <2>1, <2>2
<1>7. FileBytes(3, n) = SubSeq(c, 4, n)
  BY <1>1 DEF FileBytes
<1>. QED
  BY <1>1, <1>4, <1>5, <1>6, <1>7 DEF StartsWithBom, EraseBom

LEMMA HasBomIs ==
  ASSUME Contents, fd \in Files, size[fd] \in Nat
  PROVE  HasBom <=> call.start = 0 /\ size[fd] >= 3 /\ SubSeq(content[fd], 1, 3) = BOM
<1>1. PICK n \in Nat : n = size[fd]
  OBVIOUS
<1>2. StartsWithBom(FileBytes(0, n)) <=> n >= 3 /\ SubSeq(content[fd], 1, 3) = BOM
  BY <1>1, BomOfFile
<1>. QED
  BY <1>1, <1>2 DEF HasBom

LEMMA StartsAre ==
  ASSUME TInv
  PROVE  TextStart \subseteq Nat /\ TextStart # {}
<1>1. call.start \in Nat
  BY Numbers DEF TInv, PInv, WInv
<1>. QED
  BY <1>1 DEF TextStart

(* A call that takes something takes it from there.                        *)
LEMMA TextBegins ==
  ASSUME TInv, pc = "body", call.op # "seek", call.loop # "exact", ~no_data
  PROVE  file_pos_of_buffer_start + AfterBom \in TextStart
<1>1. /\ fd \in Files /\ ~torn /\ off = file_pos_of_buffer_start + buffer_size /\ off <= size[fd]
      /\ buffer_pos < buffer_size /\ call.start = tell /\ Contents /\ grown \in Nat
  BY Working DEF TInv, Placed, Where, Entered, Entering, Contents
<1>2. /\ size[fd] \in Nat /\ buffer_size \in Nat /\ buffer_pos \in Nat
      /\ file_pos_of_buffer_start \in Nat
  BY <1>1, Numbers2 DEF TInv
<1>3. HasBom <=> call.start = 0 /\ size[fd] >= 3 /\ SubSeq(content[fd], 1, 3) = BOM
  BY <1>1, <1>2, HasBomIs
<1>4. ASSUME file_pos_of_buffer_start = 0
      PROVE  StartsWithBom(Values(Between(0, buffer_size)))
               <=> buffer_size >= 3 /\ SubSeq(content[fd], 1, 3) = BOM
  <2>1. Values(Between(0, buffer_size)) = FileBytes(0 + 0, 0 + buffer_size) /\ buffer_size <= size[fd]
    <3>1. 0 \in Nat /\ 0 <= buffer_size /\ buffer_size <= buffer_size
      BY <1>2
    <3>2. /\ Values(Between(0, buffer_size))
               = FileBytes(file_pos_of_buffer_start + 0, file_pos_of_buffer_start + buffer_size)
          /\ file_pos_of_buffer_start + buffer_size <= size[fd]
      BY <1>2, <3>1, WindowIsFile
    <3>. QED
      BY <1>2, <1>4, <3>2
  <2>2. Values(Between(0, buffer_size)) = FileBytes(0, buffer_size)
    BY <1>2, <2>1
  <2>. QED
    BY <1>1, <1>2, <2>1, <2>2, BomOfFile
<1>5. CASE BomHere
  <2>1. file_pos_of_buffer_start = 0 /\ call.start = 0 /\ AfterBom = 3
    BY <1>1, <1>2, <1>5 DEF BomHere, AfterBom, tell
  <2>2. HasBom
    BY <1>1, <1>2, <1>3, <1>4, <1>5, <2>1 DEF BomHere
  <2>. QED
    BY <2>1, <2>2 DEF TextStart
<1>6. CASE ~BomHere /\ ~HasBom
  BY <1>1, <1>6 DEF TextStart, AfterBom, tell
<1>7. CASE ~BomHere /\ HasBom
  <2>1. file_pos_of_buffer_start = 0 /\ buffer_pos = 0 /\ size[fd] >= 3 /\ call.start = 0
    BY <1>1, <1>2, <1>3, <1>7 DEF tell
  <2>2. ~(buffer_size >= 3)
    BY <1>3, <1>4, <1>7, <2>1 DEF BomHere
  <2>3. buffer_capacity > 3 /\ SeekChunk > 3 /\ SeekChunk \in Nat /\ buffer_capacity \in Nat
    <3>1. buffer_capacity \in Nat /\ buffer_capacity >= 2 * SeekChunk
      BY HasRoom DEF TInv
    <3>. QED
      BY <3>1, IFileAssumption, TextAssumption
  <2>4. buffer_size \notin {buffer_capacity, SeekChunk, 2 * SeekChunk} /\ buffer_size # 0
    BY <1>1, <1>2, <2>2, <2>3
  <2>5. ~(size[fd] <= off)
    BY <1>1, <1>2, <2>1, <2>2
  <2>6. grown # 0
    BY <1>1, <2>4, <2>5, FilesAssumption DEF TInv, Placed, Full, Resting
  <2>7. 0 \in TextStart
    BY <1>1, <1>7, <2>6 DEF TextStart
  <2>. QED
    BY <1>7, <2>1, <2>7 DEF AfterBom
<1>. QED
  BY <1>5, <1>6, <1>7

(* Nothing is left to take: the text is empty, and begins where it ends.   *)
LEMMA NothingBegins ==
  ASSUME TInv, pc = "body", call.op # "seek", call.loop # "exact", no_data
  PROVE  tell = call.start /\ tell \in TextStart
<1>1. fd \in Files /\ call.start = tell /\ Contents /\ grown \in Nat
  BY Working DEF TInv, Placed, Where, Entered, Entering, Contents
<1>2. size[fd] \in Nat
  BY <1>1, Numbers2 DEF TInv
<1>3. HasBom <=> call.start = 0 /\ size[fd] >= 3 /\ SubSeq(content[fd], 1, 3) = BOM
  BY <1>1, <1>2, HasBomIs
<1>4. grown = 0 => tell = size[fd]
  BY EndIsMet DEF MetTheEnd
<1>5. HasBom => grown > 0 /\ tell = 0
  BY <1>1, <1>2, <1>3, <1>4
<1>. QED
  BY <1>1, <1>5 DEF TextStart

(* When the file grows, the text may begin there still.                    *)
LEMMA StartsStay ==
  ASSUME TInv, Contents', TextWorld \/ UNCHANGED textVars, fd \in Files
  PROVE  TextStart \subseteq TextStart'
<1>1. /\ UNCHANGED <<fd, call, content>> /\ (UNCHANGED <<size, grown>> \/ grown' > 0)
      /\ size[fd] \in Nat /\ size'[fd] \in Nat /\ size[fd] <= size'[fd]
  BY WorldMoves DEF handle, frame
<1>2. HasBom <=> call.start = 0 /\ size[fd] >= 3 /\ SubSeq(content[fd], 1, 3) = BOM
  BY <1>1, HasBomIs DEF TInv, Placed
<1>3. CASE UNCHANGED <<size, grown>>
  BY <1>1, <1>3 DEF TextStart, HasBom, FileBytes
<1>4. CASE grown' > 0
  <2>1. HasBom' <=> call.start = 0 /\ size'[fd] >= 3 /\ SubSeq(content[fd], 1, 3) = BOM
    <3>1. PICK n \in Nat : n = size'[fd]
      BY <1>1
    <3>2. FileBytes(0, size[fd])' = SubSeq(content[fd], 1, n)
      BY <1>1, <3>1 DEF FileBytes
    <3>3. PICK c \in Seq(Octets) : c = content[fd] /\ n <= Len(c)
      <4>1. content[fd] \in Seq(Octets)
        BY TextOfFile DEF TInv, Placed
      <4>. QED
        BY <1>1, <3>1, <4>1 DEF Contents
    <3>4. PICK t : t = SubSeq(c, 1, n)
      OBVIOUS
    <3>5. t \in Seq(Octets) /\ Len(t) = n /\ \A k \in 1 .. n : t[k] = c[k]
      BY <3>3, <3>4, FirstOf
    <3>6. n >= 3 => SubSeq(t, 1, 3) = SubSeq(c, 1, 3)
      BY <3>3, <3>5
    <3>. QED
      BY <1>1, <3>1, <3>2, <3>3, <3>4, <3>5, <3>6 DEF HasBom, StartsWithBom
  <2>2. TextStart' = IF ~HasBom' THEN {call.start} ELSE {0, 3}
    BY <1>1, <1>4 DEF TextStart
  <2>3. HasBom => HasBom'
    BY <1>1, <1>2, <2>1
  <2>4. HasBom' => call.start = 0
    BY <2>1
  <2>. QED
    BY <2>2, <2>3, <2>4 DEF TextStart
<1>. QED
  BY <1>1, <1>3, <1>4

-----------------------------------------------------------------------------
(* What a call has taken while it goes on: all the bytes from where its    *)
(* text begins up to the position, none of them the delimiter of a line,   *)
(* and of a character not all that the first one calls for.                *)

Reached == IF pc = "fill" THEN file_pos_of_buffer_start ELSE tell

Collecting == call.op # "seek" /\ (Looping \/ (Entering /\ call.loop = "exact"))

NoneIsDelim(s) == \A k \in 1 .. Len(out) : content[fd][s + k] # call.arg.delim

CharGoesOn(s) ==
  /\ Len(out) >= 1 /\ Len(out) + left = 1 + Trailing(content[fd][s + 1])
  /\ Looping => left > 0

TakenFrom(s) ==
  /\ out = Run(fd, s, Len(out)) /\ s + Len(out) = Reached
  /\ call.op \in Lines => NoneIsDelim(s)
  /\ call.op = "read_char" => CharGoesOn(s)

Begun == Collecting => \E s \in TextStart : TakenFrom(s)

LEMMA NotCollecting ==
  ASSUME \/ pc' \notin {"body", "more", "fill"}
         \/ call'.op = "seek"
         \/ Entering' /\ call'.loop # "exact"
  PROVE  Begun'
<1>1. ~Collecting'
  BY DEF Collecting, Entering, Looping
<1>. QED
  BY <1>1 DEF Begun

(* The window is empty, and begins where the other has ended.              *)
LEMMA RefillReaches ==
  ASSUME TInv, NEW next \in {"body", "more"}, NEW at_end, HasNoDataLeft(next, buffer_size, at_end),
         pc' \in {"body", "more", "fill"}
  PROVE  /\ Reached' = file_pos_of_buffer_start + buffer_size
         /\ next = "more" => Looping' /\ ~Entering'
         /\ next = "body" => Entering' /\ ~Looping'
<1>1. buffer_size \in Nat /\ file_pos_of_buffer_start \in Nat
  BY Numbers DEF TInv, PInv, WInv
<1>2. /\ file_pos_of_buffer_start' = file_pos_of_buffer_start + buffer_size
      /\ \/ pc' = next /\ buffer_pos' = 0
         \/ pc' = "fill" /\ ret' = next
  BY Enters
<1>. QED
  BY <1>1, <1>2 DEF Reached, tell, Looping, Entering

(* More bytes of the window are taken.                                     *)
LEMMA TakesMore ==
  ASSUME TInv, pc \in {"body", "more"}, call.op # "seek", NEW s \in Nat,
         out = Run(fd, s, Len(out)), NEW a \in Nat, NEW b \in Nat, a <= b, b <= buffer_size,
         s + Len(out) = file_pos_of_buffer_start + a, out' = out \o Between(a, b), UNCHANGED fd
  PROVE  /\ out' = Run(fd', s, Len(out')) /\ s + Len(out') = file_pos_of_buffer_start + b
         /\ Len(out) \in Nat /\ Len(out') = Len(out) + (b - a)
<1>1. file_pos_of_buffer_start \in Nat /\ out \in Seq(Byte)
  BY Numbers DEF TInv, PInv, WInv
<1>2. Between(a, b) = Run(fd, file_pos_of_buffer_start + a, b - a)
  BY WindowIsFile
<1>3. PICK l \in Nat : l = Len(out)
  BY <1>1
<1>4. PICK m \in Nat : m = b - a
  OBVIOUS
<1>5. PICK t \in Nat : t = s + l
  OBVIOUS
<1>6. out' = Run(fd, s, l) \o Run(fd, t, m)
  <2>1. t = file_pos_of_buffer_start + a
    BY <1>3, <1>5
  <2>. QED
    BY <1>2, <1>3, <1>4, <2>1
<1>7. PICK n \in Nat : n = l + m
  OBVIOUS
<1>8. out' = Run(fd, s, n)
  <2>1. Run(fd, s, l) \o Run(fd, t, m) = Run(fd, s, n)
    <3>1. Meets(s, l, t, m, n)
      BY <1>5, <1>7 DEF Meets
    <3>2. Joined(fd, s, l, t, m, n)
      BY Zenon, <3>1, RunsJoin
    <3>. QED
      BY Zenon, <3>2 DEF Joined
  <2>. QED
    BY <1>6, <2>1
<1>9. Len(out') = n
  <2>1. Len(Run(fd, s, n)) = n
    BY RunType
  <2>. QED
    BY <1>8, <2>1
<1>10. s + n = file_pos_of_buffer_start + b
  <2>1. s + l = file_pos_of_buffer_start + a
    BY <1>3
  <2>. QED
    BY <1>1, <1>4, <1>7, <2>1
<1>. QED
  BY <1>3, <1>4, <1>7, <1>8, <1>9, <1>10

(* A byte of the window is the delimiter, or is not, as in the file.       *)
LEMMA FoundIs ==
  ASSUME TInv, pc \in {"body", "more"}, call.op # "seek", NEW p \in Nat,
         NEW i \in p .. buffer_size - 1
  PROVE  i \in Found(p) <=> content[fd][file_pos_of_buffer_start + i + 1] = call.arg.delim
<1>1. /\ buffer_size \in Nat /\ file_pos_of_buffer_start \in Nat
      /\ Holds(buffer_size)
  BY Working, Numbers DEF TInv, PInv, WInv
<1>2. i \in 0 .. buffer_size - 1
  BY <1>1
<1>3. buffer[i] = <<fd, file_pos_of_buffer_start + i>>
  BY <1>1, <1>2 DEF Holds
<1>4. Values(<<buffer[i]>>)[1] = content[fd][file_pos_of_buffer_start + i + 1]
  BY <1>3 DEF Values
<1>. QED
  BY <1>4 DEF Found

LEMMA CopiedIsBetween ==
  ASSUME buffer_pos \in Nat, NEW n \in Nat
  PROVE  Copied(n) = Between(buffer_pos, buffer_pos + n)
<1>1. buffer_pos + n - buffer_pos = n
  OBVIOUS
<1>. QED
  BY <1>1 DEF Copied, Between

LEMMA StartsSame ==
  ASSUME UNCHANGED <<content, size, grown, fd>>, call'.start = call.start
  PROVE  TextStart' = TextStart
BY DEF TextStart, HasBom, FileBytes

LEMMA NoneTaken ==
  ASSUME TInv, pc \in {"body", "more"}, call.op # "seek", NEW s \in Nat, NoneIsDelim(s),
         NEW a \in Nat, NEW b \in Nat, a <= b, b <= buffer_size,
         s + Len(out) = file_pos_of_buffer_start + a, \A j \in a .. b - 1 : j \notin Found(a),
         NEW n \in Nat, n = Len(out) + (b - a)
  PROVE  \A k \in 1 .. n : content[fd][s + k] # call.arg.delim
<1>1. file_pos_of_buffer_start \in Nat /\ buffer_size \in Nat /\ Len(out) \in Nat
  BY Numbers DEF TInv, PInv, WInv
<1>2. PICK l \in Nat : l = Len(out)
  BY <1>1
<1>3. PICK g \in Nat : g = file_pos_of_buffer_start
  BY <1>1
<1>4. s + l = g + a /\ n = l + (b - a)
  BY <1>2, <1>3
<1>5. SUFFICES ASSUME NEW k \in 1 .. n PROVE content[fd][s + k] # call.arg.delim
  OBVIOUS
<1>6. CASE k <= l
  <2>1. k \in 1 .. l
    BY <1>6
  <2>. QED
    BY <1>2, <2>1 DEF NoneIsDelim
<1>7. CASE ~(k <= l)
  <2>1. PICK i \in a .. b - 1 : i = a + (k - l) - 1
    <3>1. a + (k - l) - 1 \in a .. b - 1
      BY <1>4, <1>7
    <3>. QED
      BY <3>1
  <2>2. s + k = g + i + 1
    BY <1>4, <2>1
  <2>3. i \in a .. buffer_size - 1
    BY <1>1
  <2>4. i \in Found(a) <=> content[fd][g + i + 1] = call.arg.delim
    BY <1>3, <2>3, FoundIs
  <2>. QED
    BY <2>2, <2>4
<1>. QED
  BY <1>6, <1>7

(* The rest of the window is taken, and the call goes on.                  *)
LEMMA GulpBegun ==
  ASSUME TInv, pc \in {"body", "more"}, call.op # "seek", NEW s \in TextStart,
         out = Run(fd, s, Len(out)), NEW a \in Nat, a <= buffer_size,
         s + Len(out) = file_pos_of_buffer_start + a, out' = out \o Between(a, buffer_size),
         NEW at_end, HasNoDataLeft("more", buffer_size, at_end),
         UNCHANGED <<content, size, grown, fd, call>>,
         call.op \in Lines => NoneIsDelim(s) /\ Found(a) = {},
         call.op = "read_char" =>
           /\ Len(out) + left = 1 + Trailing(content[fd][s + 1])
           /\ left' = left - (buffer_size - a) /\ left' > 0 /\ (Len(out) >= 1 \/ a < buffer_size)
  PROVE  Begun'
<1>1. s \in Nat
  BY StartsAre
<1>2. buffer_size \in Nat /\ left \in Nat /\ buffer_size <= buffer_size
  BY Numbers DEF TInv, PInv, WInv
<1>3. /\ out' = Run(fd', s, Len(out')) /\ s + Len(out') = file_pos_of_buffer_start + buffer_size
      /\ Len(out) \in Nat /\ Len(out') = Len(out) + (buffer_size - a)
  <2>1. PICK b \in Nat : b = buffer_size
    BY <1>2
  <2>2. a <= b /\ b <= buffer_size /\ out' = out \o Between(a, b) /\ UNCHANGED fd
    BY <2>1
  <2>3. /\ out' = Run(fd', s, Len(out')) /\ s + Len(out') = file_pos_of_buffer_start + b
        /\ Len(out) \in Nat /\ Len(out') = Len(out) + (b - a)
    BY <1>1, <2>2, TakesMore
  <2>. QED
    BY <2>1, <2>3
<1>4. SUFFICES ASSUME pc' \in {"body", "more", "fill"} PROVE Begun'
  BY NotCollecting
<1>5. Reached' = file_pos_of_buffer_start + buffer_size
  <2>1. "more" \in {"body", "more"} /\ HasNoDataLeft("more", buffer_size, at_end)
    OBVIOUS
  <2>. QED
    BY <1>4, <2>1, RefillReaches
<1>6. call'.op \in Lines => NoneIsDelim(s)'
  <2> SUFFICES ASSUME call.op \in Lines PROVE NoneIsDelim(s)'
    OBVIOUS
  <2>1. NoneIsDelim(s) /\ \A j \in a .. buffer_size - 1 : j \notin Found(a)
    OBVIOUS
  <2>2. PICK n \in Nat : n = Len(out) + (buffer_size - a)
    <3>1. PICK l \in Nat : l = Len(out)
      BY <1>3
    <3>2. PICK d \in Nat : d = buffer_size - a
      BY <1>2
    <3>. QED
      BY <3>1, <3>2
  <2>3. \A k \in 1 .. n : content[fd][s + k] # call.arg.delim
    BY <1>1, <1>2, <2>1, <2>2, NoneTaken
  <2>. QED
    BY <1>3, <2>2, <2>3 DEF NoneIsDelim
<1>7. call'.op = "read_char" => CharGoesOn(s)'
  <2> SUFFICES ASSUME call.op = "read_char" PROVE CharGoesOn(s)'
    OBVIOUS
  <2>1. PICK l \in Nat, d \in Nat : l = Len(out) /\ d = buffer_size - a
    BY <1>2, <1>3
  <2>2. /\ l + left = 1 + Trailing(content[fd][s + 1]) /\ left' = left - d /\ left' > 0
        /\ Len(out') = l + d /\ (l >= 1 \/ d >= 1)
    BY <1>2, <1>3, <2>1
  <2>3. Len(out') >= 1 /\ Len(out') + left' = l + left
    BY <1>2, <2>1, <2>2
  <2>. QED
    BY <2>2, <2>3 DEF CharGoesOn
<1>8. TakenFrom(s)'
  BY <1>3, <1>5, <1>6, <1>7 DEF TakenFrom
<1>9. s \in TextStart'
  BY StartsSame
<1>. QED
  BY <1>8, <1>9 DEF Begun

-----------------------------------------------------------------------------
(* Begun, step by step.                                                    *)

LEMMA DrainMoreBegun == ASSUME TInv, Begun, DrainMore, UNCHANGED texts PROVE Begun'
<1>1. /\ pc = "more" /\ call.op \in {"read_text", "read_text_to_end"} /\ pc \in {"body", "more"}
      /\ call.op # "seek" /\ call.op \notin Lines /\ call.op # "read_char"
      /\ UNCHANGED <<content, size, grown, fd, call>>
  BY DEF DrainMore, InLoop, texts, world, handle, TInv, Placed, Where, Framed, Lines
<1>2. CASE Throw("ok")
  BY <1>2, NotCollecting DEF Throw, Finish
<1>3. CASE DrainThenRefill
  <2>1. PICK s \in TextStart : TakenFrom(s)
    BY <1>1 DEF Begun, Collecting, Looping
  <2>2. /\ buffer_pos \in Nat /\ buffer_size \in Nat /\ buffer_pos <= buffer_size
        /\ file_pos_of_buffer_start \in Nat
    BY Numbers2 DEF TInv
  <2>3. s + Len(out) = file_pos_of_buffer_start + buffer_pos /\ out = Run(fd, s, Len(out))
    BY <1>1, <2>1 DEF TakenFrom, Reached, tell
  <2>4. Copied(Available) = Between(buffer_pos, buffer_size)
    <3>1. PICK n \in Nat : n = Available
      BY <2>2 DEF Available
    <3>2. buffer_pos + n = buffer_size
      BY <2>2, <3>1 DEF Available
    <3>. QED
      BY <2>2, <3>1, <3>2, CopiedIsBetween
  <2>5. /\ out' = out \o Between(buffer_pos, buffer_size)
        /\ HasNoDataLeft("more", buffer_size, is_eof_reached)
    BY <1>3, <2>4 DEF DrainThenRefill
  <2>. QED
    BY <1>1, <2>2, <2>3, <2>5, GulpBegun
<1>. QED
  BY <1>2, <1>3 DEF DrainMore

LEMMA Nothing ==
  ASSUME NEW s
  PROVE  <<>> = Run(fd, s, Len(<<>>)) /\ Len(<<>>) = 0
<1>1. Len(<<>>) = 0
  OBVIOUS
<1>. QED
  BY <1>1, EmptyRun

(* What a call finds in the window before it has taken anything.           *)
LEMMA FirstWindow ==
  ASSUME TInv, pc = "body", call.op # "seek", call.loop # "exact", ~no_data
  PROVE  \E s \in TextStart :
           /\ s = file_pos_of_buffer_start + AfterBom /\ s \in Nat
           /\ out = Run(fd, s, Len(out)) /\ Len(out) = 0 /\ s + Len(out) = s
<1>1. PICK s \in TextStart : s = file_pos_of_buffer_start + AfterBom
  BY TextBegins
<1>2. out = <<>>
  BY DEF TInv, Placed, Where, Entered, Entering
<1>3. s \in Nat
  BY StartsAre
<1>4. s + 0 = s
  BY <1>3
<1>. QED
  BY <1>1, <1>2, <1>3, <1>4, Nothing

LEMMA WholeTextBegun ==
  ASSUME TInv, ReadTextBody \/ ReadTextToEndBody
  PROVE  Begun'
<1>1. /\ pc = "body" /\ call.op \in {"read_text", "read_text_to_end"} /\ pc \in {"body", "more"}
      /\ call.op # "seek" /\ call.op \notin Lines /\ call.op # "read_char"
      /\ UNCHANGED <<content, size, grown, fd, call>>
  BY DEF ReadTextBody, ReadTextToEndBody, InLoop, texts, world, handle, Lines
<1>2. CASE Throw("ok")
  BY <1>2, NotCollecting DEF Throw, Finish
<1>3. CASE ~no_data /\ SkipThenDrain
  <2>1. call.loop # "exact"
    BY <1>1 DEF TInv, Placed, Where, Framed
  <2>2. PICK s \in TextStart :
           /\ s = file_pos_of_buffer_start + AfterBom /\ s \in Nat
           /\ out = Run(fd, s, Len(out)) /\ Len(out) = 0 /\ s + Len(out) = s
    BY <1>1, <1>3, <2>1, FirstWindow
  <2>3. AfterBom \in Nat /\ AfterBom <= buffer_size
    BY <1>1, <1>3, AfterBomIs
  <2>4. /\ out' = out \o Between(AfterBom, buffer_size)
        /\ HasNoDataLeft("more", buffer_size, is_eof_reached)
    BY <1>3 DEF SkipThenDrain
  <2>. QED
    BY <1>1, <2>2, <2>3, <2>4, GulpBegun
<1>. QED
  BY <1>2, <1>3 DEF ReadTextBody, ReadTextToEndBody

LEMMA ScanBegun ==
  ASSUME TInv, pc \in {"body", "more"}, call.op \in Lines, NEW s \in TextStart,
         out = Run(fd, s, Len(out)), NoneIsDelim(s), NEW p \in Nat, p <= buffer_size,
         s + Len(out) = file_pos_of_buffer_start + p, Scan(p),
         UNCHANGED <<content, size, grown, fd, call>>
  PROVE  Begun'
<1>1. IInv /\ call.op # "seek" /\ call.op # "read_char"
  BY DEF TInv, PInv, WInv, Lines
<1>2. CASE pc' = "ret"
  BY <1>2, NotCollecting
<1>3. CASE /\ Found(p) = {}
           /\ out' = out \o Between(p, buffer_size)
           /\ HasNoDataLeft("more", buffer_size, is_eof_reached)
  BY <1>1, <1>3, GulpBegun
<1>. QED
  BY <1>1, <1>2, <1>3, ScanIs DEF Finish

LEMMA LineBegun == ASSUME TInv, Begun, ReadLineBody \/ ReadLineMore PROVE Begun'
<1>1. /\ pc \in {"body", "more"} /\ call.op \in Lines /\ call.op # "seek"
      /\ UNCHANGED <<content, size, grown, fd, call>>
  BY DEF ReadLineBody, ReadLineMore, InLine, texts, world, handle, Lines
<1>2. NoLine \/ LastLine => pc' \in {"ret", "aborted"}
  BY DEF NoLine, LastLine, Throw, Finish
<1>3. CASE NoLine \/ LastLine
  BY <1>2, <1>3, NotCollecting
<1>4. CASE pc = "body" /\ ~(no_data \/ BomOnly) /\ Scan(AfterBom)
  <2>1. call.loop # "exact"
    BY <1>1 DEF TInv, Placed, Where, Framed, Lines
  <2>2. PICK s \in TextStart :
           /\ s = file_pos_of_buffer_start + AfterBom /\ s \in Nat
           /\ out = Run(fd, s, Len(out)) /\ Len(out) = 0 /\ s + Len(out) = s
    BY <1>1, <1>4, <2>1, FirstWindow
  <2>3. NoneIsDelim(s)
    BY <2>2 DEF NoneIsDelim
  <2>4. AfterBom \in Nat /\ AfterBom <= buffer_size
    BY <1>1, <1>4, AfterBomIs
  <2>. QED
    BY <1>1, <1>4, <2>2, <2>3, <2>4, ScanBegun
<1>5. CASE pc = "more" /\ ~no_data /\ Scan(0)
  <2>1. PICK s \in TextStart : TakenFrom(s)
    BY <1>1, <1>5 DEF Begun, Collecting, Looping
  <2>2. buffer_pos = 0 /\ buffer_size \in Nat /\ file_pos_of_buffer_start \in Nat
    BY <1>5, Numbers2 DEF TInv, Placed, Where, Shape
  <2>3. s + Len(out) = file_pos_of_buffer_start + 0 /\ out = Run(fd, s, Len(out)) /\ NoneIsDelim(s)
    BY <1>1, <1>5, <2>1, <2>2 DEF TakenFrom, Reached, tell
  <2>4. 0 \in Nat /\ 0 <= buffer_size
    BY <2>2
  <2>. QED
    BY <1>1, <1>5, <2>3, <2>4, ScanBegun
<1>. QED
  BY <1>3, <1>4, <1>5 DEF ReadLineBody, ReadLineMore

LEMMA FirstByte ==
  ASSUME TInv, pc = "body", call.op # "seek", NEW a \in Nat, a < buffer_size,
         NEW s, s = file_pos_of_buffer_start + a
  PROVE  /\ s \in Nat /\ <<buffer[a]>> = Run(fd, s, 1)
         /\ Values(<<buffer[a]>>)[1] = content[fd][s + 1]
<1>1. file_pos_of_buffer_start \in Nat /\ buffer_size \in Nat /\ Holds(buffer_size)
  BY Working, Numbers DEF TInv, PInv, WInv
<1>2. a \in 0 .. buffer_size - 1 /\ s \in Nat /\ s + 1 - 1 = s
  BY <1>1
<1>3. buffer[a] = <<fd, s>>
  BY <1>1, <1>2 DEF Holds
<1>4. <<buffer[a]>> = Run(fd, s, 1)
  <2>1. PICK n \in Nat : n = 1
    OBVIOUS
  <2>2. PICK r : r = Run(fd, s, n)
    OBVIOUS
  <2>3. r \in Seq({fd} \X Nat) /\ Len(r) = n /\ \A k \in 1 .. n : r[k] = <<fd, s + k - 1>>
    BY <1>2, <2>2, RunType
  <2>4. r[1] = <<fd, s>>
    BY <1>2, <2>1, <2>3
  <2>5. PICK q : q = <<r[1]>>
    OBVIOUS
  <2>6. q \in Seq({fd} \X Nat) /\ Len(q) = n /\ \A k \in 1 .. n : q[k] = r[k]
    BY <1>2, <2>1, <2>4, <2>5
  <2>7. r = q
    BY <2>3, <2>6, SeqEqual
  <2>. QED
    BY <1>3, <2>1, <2>2, <2>4, <2>5, <2>7
<1>5. Values(<<buffer[a]>>)[1] = content[fd][s + 1]
  BY <1>3 DEF Values
<1>. QED
  BY <1>2, <1>4, <1>5

LEMMA ReadCharBodyBegun == ASSUME TInv, ReadCharBody PROVE Begun'
<1>1. /\ pc = "body" /\ call.op = "read_char" /\ call.loop # "exact" /\ call.op # "seek"
      /\ UNCHANGED <<content, size, grown, fd>>
  BY DEF ReadCharBody, texts, world, handle
<1>2. CASE Throw("UnexpectedEOF")
  BY <1>2, NotCollecting DEF Throw, Finish
<1>3. CASE ~(no_data \/ BomOnly)
  <2>1. PICK s \in TextStart : s = file_pos_of_buffer_start + AfterBom
    BY <1>1, <1>3, TextBegins
  <2>2. PICK a \in Nat : a = AfterBom /\ a < buffer_size
    BY <1>1, <1>3, AfterBomIs
  <2>3. /\ s \in Nat /\ <<buffer[a]>> = Run(fd, s, 1)
        /\ Values(<<buffer[a]>>)[1] = content[fd][s + 1]
    BY <1>1, <2>1, <2>2, FirstByte
  <2>4. /\ out' = <<buffer[a]>>
        /\ left' = Trailing(Values(<<buffer[a]>>)[1])
        /\ call' = [call EXCEPT !.loop = "exact"]
        /\ \/ a + 1 < buffer_size /\ buffer_pos' = a + 1 /\ pc' = "body" /\ UNCHANGED window
           \/ a + 1 = buffer_size /\ HasNoDataLeft("body", a + 1, is_eof_reached)
    BY <1>3, <2>2, Zenon DEF ReadCharBody
  <2>5. call'.op = "read_char" /\ call'.start = call.start
    BY <1>1, <2>4
  <2>6. SUFFICES ASSUME pc' \in {"body", "more", "fill"} PROVE Begun'
    BY NotCollecting
  <2>7. Reached' = s + 1 /\ ~Looping'
    <3>1. CASE buffer_pos' = a + 1 /\ pc' = "body" /\ UNCHANGED window
      <4>1. file_pos_of_buffer_start \in Nat
        BY Numbers DEF TInv, PInv, WInv
      <4>. QED
        BY <2>1, <2>2, <3>1, <4>1 DEF Reached, tell, window, Looping
    <3>2. CASE a + 1 = buffer_size /\ HasNoDataLeft("body", a + 1, is_eof_reached)
      <4>1. "body" \in {"body", "more"} /\ HasNoDataLeft("body", buffer_size, is_eof_reached)
        BY <3>2
      <4>2. Reached' = file_pos_of_buffer_start + buffer_size /\ ~Looping'
        BY <2>6, <4>1, RefillReaches
      <4>3. file_pos_of_buffer_start \in Nat /\ buffer_size \in Nat
        BY Numbers DEF TInv, PInv, WInv
      <4>. QED
        BY <2>1, <2>2, <3>2, <4>2, <4>3
    <3>. QED
      BY <2>4, <3>1, <3>2
  <2>8. Len(out') = 1 /\ out' = Run(fd', s, 1) /\ left' = Trailing(content[fd][s + 1])
    BY <1>1, <2>3, <2>4
  <2>9. CharGoesOn(s)'
    <3>1. left' \in Nat
      BY <2>8, TrailingIsFew
    <3>. QED
      BY <1>1, <2>7, <2>8, <3>1 DEF CharGoesOn
  <2>10. TakenFrom(s)'
    BY <2>5, <2>7, <2>8, <2>9 DEF TakenFrom, Lines
  <2>11. s \in TextStart'
    BY <1>1, <2>5, StartsSame
  <2>. QED
    BY <2>10, <2>11 DEF Begun
<1>. QED
  BY <1>2, <1>3 DEF ReadCharBody

(* How much of a character a step copies.                                  *)
LEMMA CopiesSome ==
  ASSUME TInv, Begun, ReadBytesBody \/ ReadBytesMore
  PROVE  /\ pc \in {"body", "more"} /\ call.op = "read_char" /\ call.loop = "exact"
         /\ (pc = "more" => left > 0)
         /\ UNCHANGED <<fd, call, world, lost, flags, buffer>>
         /\ \E s \in TextStart : TakenFrom(s) /\ s \in Nat /\ s + Len(out) = tell
         /\ \/ no_data /\ left # 0 /\ Throw("UnexpectedEOF")
            \/ \E n \in Nat :
                 /\ n <= left /\ buffer_pos + n <= buffer_size
                 /\ out' = out \o Between(buffer_pos, buffer_pos + n) /\ left' = left - n
                 /\ \/ left = n /\ buffer_pos' = buffer_pos + n /\ Finish("ok") /\ UNCHANGED window
                    \/ left # n /\ buffer_pos + n = buffer_size
                       /\ HasNoDataLeft("more", buffer_size, is_eof_reached)
<1>1. /\ pc \in {"body", "more"} /\ call.loop = "exact"
      /\ UNCHANGED <<fd, call, world, lost, flags, buffer>>
  BY DEF ReadBytesBody, ReadBytesMore, InLoop, handle
<1>2. call.op = "read_char"
  BY <1>1 DEF TInv, Placed, Where, Framed
<1>3. PICK s \in TextStart : TakenFrom(s)
  BY <1>1, <1>2 DEF Begun, Collecting, Looping, Entering
<1>4. s \in Nat /\ s + Len(out) = tell
  BY <1>1, <1>3, StartsAre DEF TakenFrom, Reached
<1>5. pc = "more" => left > 0
  BY <1>2, <1>3 DEF TakenFrom, CharGoesOn, Looping
<1>6. /\ buffer_pos \in Nat /\ buffer_size \in Nat /\ buffer_pos <= buffer_size /\ left \in 0 .. 5
      /\ buffer_capacity > 5
  <2>1. buffer_capacity \in Nat /\ buffer_capacity >= 2 * SeekChunk
    BY HasRoom DEF TInv
  <2>2. buffer_capacity > 5
    BY <2>1, TextAssumption, IFileAssumption
  <2>. QED
    BY <2>2, Numbers2 DEF TInv, Placed, Where, Shape
<1>7. ~(left > buffer_capacity)
  <2>1. buffer_capacity \in Nat
    BY Numbers DEF TInv, PInv, WInv
  <2>. QED
    BY <1>6, <2>1
<1>8. \/ no_data /\ left # 0 /\ Throw("UnexpectedEOF")
      \/ CopyThenRefill
  BY <1>5, <1>6, <1>7 DEF ReadBytesBody, ReadBytesMore
<1>9. CASE CopyThenRefill
  <2> DEFINE n == IF Available < left THEN Available ELSE left
  <2>1. n \in Nat /\ n <= left /\ buffer_pos + n <= buffer_size
        /\ (n # left => buffer_pos + n = buffer_size)
    BY <1>6 DEF Available
  <2>2. /\ out' = out \o Copied(n) /\ left' = left - n
        /\ \/ left = n /\ buffer_pos' = buffer_pos + n /\ Finish("ok") /\ UNCHANGED window
           \/ left # n /\ HasNoDataLeft("more", buffer_pos + n, is_eof_reached)
    BY <1>9 DEF CopyThenRefill
  <2> HIDE DEF n
  <2>3. Copied(n) = Between(buffer_pos, buffer_pos + n)
    BY <1>6, <2>1, CopiedIsBetween
  <2>4. \/ left = n /\ buffer_pos' = buffer_pos + n /\ Finish("ok") /\ UNCHANGED window
        \/ left # n /\ buffer_pos + n = buffer_size
           /\ HasNoDataLeft("more", buffer_size, is_eof_reached)
    BY <2>1, <2>2
  <2>5. \E m \in Nat :
                 /\ m <= left /\ buffer_pos + m <= buffer_size
                 /\ out' = out \o Between(buffer_pos, buffer_pos + m) /\ left' = left - m
                 /\ \/ left = m /\ buffer_pos' = buffer_pos + m /\ Finish("ok") /\ UNCHANGED window
                    \/ left # m /\ buffer_pos + m = buffer_size
                       /\ HasNoDataLeft("more", buffer_size, is_eof_reached)
    BY <2>1, <2>2, <2>3, <2>4
  <2>. QED
    BY <1>1, <1>2, <1>3, <1>4, <1>5, <2>5
<1>. QED
  BY <1>1, <1>2, <1>3, <1>4, <1>5, <1>8, <1>9

LEMMA BytesBegun == ASSUME TInv, Begun, ReadBytesBody \/ ReadBytesMore, UNCHANGED texts PROVE Begun'
<1>1. /\ pc \in {"body", "more"} /\ call.op = "read_char" /\ call.op # "seek" /\ call.op \notin Lines
      /\ UNCHANGED <<content, size, grown, fd, call>>
  BY CopiesSome DEF texts, world, Lines
<1>2. PICK s \in TextStart : TakenFrom(s) /\ s \in Nat /\ s + Len(out) = tell
  BY CopiesSome
<1>3. CASE pc' = "ret"
  BY <1>3, NotCollecting
<1>4. ASSUME NEW n \in Nat, n <= left, left # n, buffer_pos + n = buffer_size,
             out' = out \o Between(buffer_pos, buffer_pos + n), left' = left - n,
             HasNoDataLeft("more", buffer_size, is_eof_reached)
      PROVE  Begun'
  <2>1. /\ buffer_pos \in Nat /\ buffer_size \in Nat /\ left \in Nat
        /\ file_pos_of_buffer_start \in Nat /\ Len(out) \in Nat
    BY Numbers DEF TInv, PInv, WInv
  <2>2. left' = left - (buffer_size - buffer_pos) /\ left' > 0 /\ buffer_pos <= buffer_size
    BY <1>4, <2>1
  <2>3. /\ out = Run(fd, s, Len(out)) /\ Len(out) >= 1
        /\ Len(out) + left = 1 + Trailing(content[fd][s + 1])
    BY <1>1, <1>2 DEF TakenFrom, CharGoesOn
  <2>4. s + Len(out) = file_pos_of_buffer_start + buffer_pos
    BY <1>2 DEF tell
  <2>5. out' = out \o Between(buffer_pos, buffer_size)
    BY <1>4
  <2>. QED
    BY <1>1, <1>4, <2>1, <2>2, <2>3, <2>4, <2>5, GulpBegun
<1>. QED
  BY <1>3, <1>4, CopiesSome DEF Throw, Finish

(* A step that leaves alone what a call has taken.                         *)
LEMMA SameBegun ==
  ASSUME Begun, UNCHANGED <<fd, content, call, left, out>>, TextStart \subseteq TextStart',
         Collecting' => Collecting /\ Reached' = Reached /\ (Looping' <=> Looping)
  PROVE  Begun'
<1> SUFFICES ASSUME Collecting' PROVE \E s \in TextStart' : TakenFrom(s)'
  BY DEF Begun
<1>1. PICK s \in TextStart : TakenFrom(s)
  BY DEF Begun
<1>2. TakenFrom(s)'
  BY <1>1 DEF TakenFrom, NoneIsDelim, CharGoesOn
<1>. QED
  BY <1>2

LEMMA FillReturnBegun == ASSUME TInv, Begun, FillReturn, UNCHANGED texts PROVE Begun'
<1>1. /\ pc = "fill" /\ pc' = ret /\ buffer_pos' = 0 /\ ret \in {"body", "more"}
      /\ UNCHANGED <<fd, content, size, grown, call, left, out, file_pos_of_buffer_start>>
  BY DEF FillReturn, handle, world, texts, TInv, PInv, WInv, IInv, Typed, PlaceOK
<1>2. Reached' = Reached /\ (Looping' <=> Looping) /\ (Collecting' <=> Collecting)
  <2>1. file_pos_of_buffer_start \in Nat
    BY Numbers DEF TInv, PInv, WInv
  <2>2. pc' # "fill"
    BY <1>1
  <2>3. Reached' = Reached
    BY <1>1, <2>1, <2>2 DEF Reached, tell
  <2>4. (Looping' <=> Looping) /\ (Entering' <=> Entering)
    BY <1>1, <2>2 DEF Looping, Entering
  <2>. QED
    BY <1>1, <2>3, <2>4 DEF Collecting
<1>. QED
  BY <1>1, <1>2, StartsSame, SameBegun

LEMMA StepBegun == ASSUME TInv, Begun, Step, UNCHANGED texts PROVE Begun'
<1>1. CASE ReadIntoBuffer
  <2>1. /\ pc \in {"fill", "refill"}
        /\ UNCHANGED <<fd, content, size, grown, call, left, out, pc, ret, buffer_pos,
                       file_pos_of_buffer_start>>
    BY <1>1, Fits DEF ReadIntoBuffer, SysRead, world, texts, frame, window
  <2>2. Reached' = Reached /\ (Looping' <=> Looping) /\ (Collecting' <=> Collecting)
    BY <2>1 DEF Reached, tell, Looping, Entering, Collecting
  <2>. QED
    BY <2>1, <2>2, StartsSame, SameBegun
<1>2. CASE \/ ReadIntoCaller \/ ReadFails \/ RefillReturn \/ BulkReturn \/ WholeReturn
           \/ AtEofReturn \/ ByteReturn \/ Take
  <2>1. pc' \notin {"body", "more", "fill"}
    BY <1>2 DEF ReadIntoCaller, ReadFails, RefillReturn, BulkReturn, WholeReturn, AtEofReturn,
       ByteReturn, Take, Throw, Finish
  <2>. QED
    BY <2>1, NotCollecting
<1>3. CASE SeekMore
  <2>1. call'.op = "seek"
    BY <1>3 DEF SeekMore, InLoop, TInv, Placed, Where, Framed
  <2>. QED
    BY <2>1, NotCollecting
<1>4. ~ReadBytesAtMostBody /\ ~ReadBytesAtMostMore
  BY DEF ReadBytesAtMostBody, ReadBytesAtMostMore, TInv, Placed, Where, Framed
<1>. QED
  BY <1>1, <1>2, <1>3, <1>4, FillReturnBegun, BytesBegun, DrainMoreBegun DEF Step

(* A call that begins has taken nothing.                                   *)
LEMMA AsksBegun ==
  ASSUME NEW op, NEW arg, NEW loop, loop # "exact", Begin(op, arg, loop),
         AtEof("body") \/ HasNoDataLeft("body", buffer_pos, is_eof_reached)
  PROVE  Begun'
<1>1. call'.loop = loop
  BY DEF Begin
<1>2. pc' \in {"body", "more", "fill"} => Entering'
  BY DEF AtEof, HasNoDataLeft, FhRead, Finish, Entering
<1>. QED
  BY <1>1, <1>2, NotCollecting

LEMMA CallBegun == ASSUME TextCall \/ ByteCall \/ Recovery PROVE Begun'
<1>1. ASSUME NEW op, NEW arg, NEW loop, loop # "exact", CallAtEof(op, arg, loop) PROVE Begun'
  BY <1>1, AsksBegun DEF CallAtEof
<1>2. ASSUME NEW e, Throw(e) PROVE Begun'
  BY <1>2, NotCollecting DEF Throw, Finish
<1>3. ReadTextToEnd \/ ReadChar => Begun'
  BY <1>1 DEF ReadTextToEnd, ReadChar
<1>4. ReadALine => Begun'
  BY <1>1 DEF ReadALine, ReadLine, ReadLineReae, ReadUntil
<1>5. ASSUME NEW s, StartsWith(s) PROVE Begun'
  BY <1>1, <1>2, <1>5 DEF StartsWith
<1>6. GetLastWriteTime => Begun'
  BY <1>2 DEF GetLastWriteTime
<1>7. ASSUME ReadText PROVE Begun'
  <2>1. CASE \E e : Throw(e)
    BY <1>2, <2>1
  <2>2. CASE Begin("read_text", FALSE, "drain") /\ HasNoDataLeft("body", buffer_pos, is_eof_reached)
    BY <2>2, AsksBegun
  <2>3. CASE \E s : ReadWhole(s)
    <3>1. pc' \notin {"body", "more", "fill"}
      BY <2>3 DEF ReadWhole, FhRead, Finish
    <3>. QED
      BY <3>1, NotCollecting
  <2>. QED
    BY <1>7, <2>1, <2>2, <2>3 DEF ReadText
<1>8. ASSUME NEW p, Seek(p) PROVE Begun'
  <2>1. call'.op = "seek"
    BY <1>8 DEF Seek, SeekNegative, SeekWithinBuffer, SeekOutsideBuffer, Begin
  <2>. QED
    BY <2>1, NotCollecting
<1>9. AtEofCall \/ ReadByte => Begun'
  BY <1>1 DEF AtEofCall, ReadByte
<1>10. ASSUME NEW f, Open(f) PROVE Begun'
  BY <1>2, <1>10 DEF Open
<1>11. Close => Begun'
  BY NotCollecting DEF Close, Finish
<1>. QED
  BY <1>3, <1>4, <1>5, <1>6, <1>7, <1>8, <1>9, <1>10, <1>11 DEF TextCall, ByteCall, Recovery

LEMMA CollectingOpen == ASSUME TInv, Collecting PROVE fd \in Files
<1>1. pc \in {"body", "more"} \/ pc = "fill"
  BY DEF Collecting, Looping, Entering
<1>2. pc \in {"body", "more"} => fd \in Files
  BY Working DEF Collecting
<1>3. pc = "fill" => fd \in Files
  BY DEF TInv, PInv, WInv, IInv, Control, Sites
<1>. QED
  BY <1>1, <1>2, <1>3

LEMMA NextBegun == TInv /\ Begun /\ [TextNext]_textVars => Begun'
<1> SUFFICES ASSUME TInv, Begun, [TextNext]_textVars PROVE Begun'
  OBVIOUS
<1>1. CASE TextWorld \/ UNCHANGED textVars
  <2>1. UNCHANGED <<fd, content, call, left, out, pc, ret, buffer_pos, file_pos_of_buffer_start>>
    BY <1>1, WorldMoves DEF handle, frame, window
  <2>2. Reached' = Reached /\ (Looping' <=> Looping) /\ (Collecting' <=> Collecting)
    BY <2>1 DEF Reached, tell, Looping, Entering, Collecting
  <2>3. CASE Collecting
    <3>1. TextStart \subseteq TextStart'
      BY <1>1, <2>3, NextContents, CollectingOpen, StartsStay
    <3>. QED
      BY <2>1, <2>2, <3>1, SameBegun
  <2>4. CASE ~Collecting
    BY <2>2, <2>4 DEF Begun
  <2>. QED
    BY <2>3, <2>4
<1>2. StartsWithBody => Begun'
  BY NotCollecting DEF StartsWithBody, Throw, Finish
<1>. QED
  BY <1>1, <1>2, StepBegun, CallBegun, WholeTextBegun, LineBegun, ReadCharBodyBegun
     DEF TextNext, TextStep

-----------------------------------------------------------------------------
(* A text that is read in one go, or of a stream, and the size of a file   *)
(* that has not grown.                                                     *)

InOneGo ==
  pc = "whole" =>
    /\ call.op = "read_text" /\ call.arg = TRUE /\ call.start = 0
    /\ out = Run(fd, 0, got) /\ file_size \in Nat

OfAStream ==
  call.op = "read_text" /\ pc \in {"body", "more", "fill"} =>
    call.arg = FALSE /\ file_size = NotRegular

SizeKnown == grown = 0 /\ file_size \in Nat => \A f \in Files : size[f] = file_size

Known == InOneGo /\ OfAStream /\ SizeKnown

LEMMA NextFileSize ==
  [TextNext]_textVars => UNCHANGED file_size \/ \E s \in FileSizeResults : file_size' = s
<1>1. TextCall => UNCHANGED file_size \/ \E s \in FileSizeResults : file_size' = s
  BY DEF TextCall, ReadText, ReadTextToEnd, ReadALine, ReadLine, ReadLineReae, ReadUntil,
     ReadChar, StartsWith, GetLastWriteTime, CallAtEof, GotFileSize, handle
<1>2. ASSUME NEW p, Seek(p) PROVE UNCHANGED file_size \/ \E s \in FileSizeResults : file_size' = s
  BY <1>2 DEF Seek, SeekNegative, SeekWithinBuffer, SeekOutsideBuffer, handle
<1>3. ByteCall \/ Recovery => UNCHANGED file_size \/ \E s \in FileSizeResults : file_size' = s
  BY <1>2 DEF ByteCall, Recovery, AtEofCall, ReadByte, CallAtEof, Open, OpenHandle, Close,
     CloseHandle, handle
<1>4. Step => UNCHANGED file_size
  BY DEF Step, ReadIntoBuffer, ReadIntoCaller, SysRead, ReadFails, FillReturn, RefillReturn,
     BulkReturn, WholeReturn, AtEofReturn, ByteReturn, ReadBytesBody, ReadBytesMore,
     ReadBytesAtMostBody, ReadBytesAtMostMore, DrainMore, SeekMore, Take, InLoop, handle
<1>5. TextStep => UNCHANGED file_size
  BY <1>4 DEF TextStep, ReadTextBody, ReadTextToEndBody, ReadLineBody, ReadLineMore, ReadCharBody,
     StartsWithBody, InLoop, InLine, handle
<1>6. TextWorld \/ UNCHANGED textVars => UNCHANGED file_size
  BY DEF TextWorld, World, textVars, vars, handle
<1>. QED
  BY <1>1, <1>3, <1>5, <1>6 DEF TextNext

LEMMA NextSizeKnown == TInv /\ SizeKnown /\ [TextNext]_textVars => SizeKnown'
<1> SUFFICES ASSUME TInv, SizeKnown, [TextNext]_textVars PROVE SizeKnown'
  OBVIOUS
<1>1. CASE TextWorld
  <2>1. UNCHANGED file_size /\ grown \in Nat /\ grown' = IF size' = size THEN grown ELSE grown + 1
    BY <1>1 DEF TextWorld, World, handle, TInv, Placed, Contents
  <2>. QED
    BY <2>1 DEF SizeKnown
<1>2. CASE UNCHANGED <<world, texts>>
  <2>1. UNCHANGED <<size, grown>>
    BY <1>2 DEF world, texts
  <2>2. CASE UNCHANGED file_size
    BY <2>1, <2>2 DEF SizeKnown
  <2>3. ASSUME NEW s \in FileSizeResults, file_size' = s, ~UNCHANGED file_size
        PROVE  SizeKnown'
    <3>1. s \in {Unknown, NotRegular} \/ (fd # NoFile /\ s = size[fd])
      BY <2>3 DEF FileSizeResults
    <3>2. CASE s \in {Unknown, NotRegular}
      BY <2>3, <3>2 DEF SizeKnown, Unknown, NotRegular
    <3>3. CASE fd # NoFile /\ s = size[fd]
      <4>1. fd \in Files /\ \A f \in Files : f = fd
        BY <3>3, Numbers2 DEF TInv, PInv, OneFile
      <4>. QED
        BY <2>1, <2>3, <3>3, <4>1 DEF SizeKnown
    <3>. QED
      BY <3>1, <3>2, <3>3
  <2>. QED
    BY <2>2, <2>3, NextFileSize
<1>. QED
  BY <1>1, <1>2, OnlyTheWorld

LEMMA ReadWholeInOneGo ==
  ASSUME TInv, ReadText, pc' = "whole"
  PROVE  InOneGo'
<1>1. /\ AtBeginning /\ Begin("read_text", TRUE, "none")
      /\ \E s \in FileSizeResults : s >= 0 /\ GotFileSize(s) /\ ReadWhole(s)
  BY DEF ReadText, Throw, Finish, HasNoDataLeft, FhRead
<1>2. PICK s \in FileSizeResults : s >= 0 /\ GotFileSize(s) /\ ReadWhole(s)
  BY <1>1
<1>3. s \in Nat
  <2>1. s \in Nat \cup {Unknown, NotRegular}
    BY FileSizeOK DEF TInv, PInv, WInv
  <2>. QED
    BY <1>2, <2>1 DEF Unknown, NotRegular
<1>4. got' = 0 /\ out' = out
  BY <1>2 DEF ReadWhole, FhRead, StartRead, Finish
<1>5. out = <<>> /\ tell = 0 /\ pc = "idle"
  BY <1>1, IdleWhere DEF AtBeginning, tell, Begin
<1>6. call' = [op |-> "read_text", arg |-> TRUE, loop |-> "none", start |-> 0]
  BY <1>1, <1>5 DEF Begin
<1>7. out' = Run(fd', 0, got')
  BY <1>4, <1>5, EmptyRun
<1>. QED
  BY <1>2, <1>3, <1>6, <1>7 DEF InOneGo, GotFileSize

(* One more piece of the file, read past the buffer.                       *)
LEMMA ReadIntoCallerInOneGo ==
  ASSUME TInv, InOneGo, ReadIntoCaller
  PROVE  InOneGo'
<1>1. SUFFICES ASSUME pc' = "whole" PROVE InOneGo'
  BY DEF InOneGo
<1>2. PICK r \in SysReadResults : SysRead(r) /\ out' = out \o [k \in 1 .. r |-> <<fd, off + k - 1>>]
  BY DEF ReadIntoCaller
<1>3. pc = "whole" /\ UNCHANGED <<call, fd, file_size>>
  BY <1>1, <1>2 DEF ReadIntoCaller, SysRead
<1>4. ~torn /\ call.op = "read_text" /\ got \in Nat /\ off \in Nat /\ want \in Nat
  BY <1>3, Numbers DEF TInv, PInv, WInv, Placed, Where, Shape
<1>5. off = got
  BY <1>3, <1>4 DEF TInv, PInv, WInv, CInv, Coherent
<1>6. r \in Nat /\ got' = got + r
  <2>1. pc \in Sites
    BY <1>3 DEF Sites
  <2>2. r \in Nat
    BY <1>2, <2>1, SysReadCount DEF TInv, PInv, WInv, SysRead
  <2>. QED
    BY <1>2, <2>2 DEF SysRead
<1>7. out = Run(fd, 0, got)
  BY <1>3 DEF InOneGo
<1>8. out' = Run(fd, 0, got) \o Run(fd, got, r)
  <2>1. [k \in 1 .. r |-> <<fd, off + k - 1>>] = Run(fd, got, r)
    BY <1>5 DEF Run
  <2>. QED
    BY <1>2, <1>7, <2>1
<1>9. out' = Run(fd, 0, got + r)
  <2>1. PICK z \in Nat : z = 0
    OBVIOUS
  <2>2. PICK n \in Nat : n = got
    BY <1>4
  <2>3. PICK m \in Nat : m = r
    BY <1>6
  <2>4. PICK k \in Nat : k = n + m
    OBVIOUS
  <2>5. Run(fd, z, n) \o Run(fd, n, m) = Run(fd, z, k)
    <3>1. Meets(z, n, n, m, k)
      BY <2>1, <2>4 DEF Meets
    <3>2. Joined(fd, z, n, n, m, k)
      BY Zenon, <3>1, RunsJoin
    <3>. QED
      BY Zenon, <3>2 DEF Joined
  <2>. QED
    BY <1>8, <2>1, <2>2, <2>3, <2>4, <2>5
<1>10. out' = Run(fd', 0, got')
  BY <1>3, <1>6, <1>9
<1>. QED
  BY <1>3, <1>10 DEF InOneGo

LEMMA NextInOneGo == TInv /\ InOneGo /\ [TextNext]_textVars => InOneGo'
<1> SUFFICES ASSUME TInv, InOneGo, [TextNext]_textVars, pc' = "whole" PROVE InOneGo'
  BY DEF InOneGo
<1>1. CASE TextWorld \/ UNCHANGED textVars
  <2>1. UNCHANGED <<pc, call, out, fd, got, file_size>>
    BY <1>1, WorldMoves DEF handle, frame, transfer
  <2>. QED
    BY <2>1 DEF InOneGo
<1>2. CASE TextCall
  <2>1. ASSUME NEW op, NEW arg, NEW loop, CallAtEof(op, arg, loop) PROVE FALSE
    BY <2>1 DEF CallAtEof, AtEof, HasNoDataLeft, FhRead, Finish
  <2>2. ~ReadTextToEnd /\ ~ReadALine /\ ~ReadChar
    BY <2>1 DEF ReadTextToEnd, ReadALine, ReadLine, ReadLineReae, ReadUntil, ReadChar
  <2>3. ASSUME NEW s, StartsWith(s) PROVE FALSE
    BY <2>1, <2>3 DEF StartsWith, Throw, Finish
  <2>4. ~GetLastWriteTime
    BY DEF GetLastWriteTime, Throw, Finish
  <2>. QED
    BY <1>2, <2>2, <2>3, <2>4, ReadWholeInOneGo DEF TextCall
<1>3. CASE ByteCall \/ Recovery
  <2>1. ASSUME NEW op, NEW arg, NEW loop, CallAtEof(op, arg, loop) PROVE FALSE
    BY <2>1 DEF CallAtEof, AtEof, HasNoDataLeft, FhRead, Finish
  <2>2. ASSUME NEW p, Seek(p) PROVE FALSE
    BY <2>2 DEF Seek, SeekNegative, SeekWithinBuffer, SeekOutsideBuffer, SeekForward, SeekAndRefill,
       HasNoDataLeft, FhRead, Throw, Finish
  <2>3. ~Close /\ ~\E f \in Files : Open(f)
    BY DEF Close, Open, Throw, Finish
  <2>. QED
    BY <1>3, <2>1, <2>2, <2>3 DEF ByteCall, Recovery, AtEofCall, ReadByte
<1>4. CASE Step
  <2>1. ~FillReturn
    BY DEF FillReturn, TInv, PInv, WInv, IInv, Typed, PlaceOK
  <2>2. ~ReadIntoBuffer /\ ~ReadFails /\ ~Take /\ ~RefillReturn /\ ~BulkReturn /\ ~WholeReturn
    BY DEF ReadIntoBuffer, ReadFails, Take, RefillReturn, BulkReturn, WholeReturn, Throw, Finish,
       frame
  <2>3. ~AtEofReturn /\ ~ByteReturn
    BY DEF AtEofReturn, ByteReturn, Throw, Finish
  <2>4. ASSUME NEW n, HasNoDataLeft("more", n, is_eof_reached) PROVE FALSE
    BY <2>4 DEF HasNoDataLeft, FhRead, Finish
  <2>5. ~CopyThenRefill /\ ~DrainThenRefill
    BY <2>4 DEF CopyThenRefill, DrainThenRefill, Finish
  <2>6. ~ReadBytesBody
    BY <2>5 DEF ReadBytesBody, LargeRead, FhRead, Throw, Finish
  <2>7. ~ReadBytesMore /\ ~ReadBytesAtMostBody /\ ~ReadBytesAtMostMore /\ ~DrainMore
    BY <2>5 DEF ReadBytesMore, ReadBytesAtMostBody, ReadBytesAtMostMore, DrainMore, Throw, Finish
  <2>8. ~SeekMore
    BY <2>4 DEF SeekMore, Throw, Finish
  <2>. QED
    BY <1>4, <2>1, <2>2, <2>3, <2>6, <2>7, <2>8, ReadIntoCallerInOneGo DEF Step
<1>5. CASE TextStep /\ ~Step
  <2>1. ASSUME NEW p, HasNoDataLeft("more", p, is_eof_reached) PROVE FALSE
    BY <2>1 DEF HasNoDataLeft, FhRead, Finish
  <2>2. ASSUME NEW e, Throw(e) PROVE FALSE
    BY <2>2 DEF Throw, Finish
  <2>3. ~ReadTextBody /\ ~ReadTextToEndBody /\ ~StartsWithBody
    BY <2>1, <2>2 DEF ReadTextBody, ReadTextToEndBody, StartsWithBody, SkipThenDrain
  <2>4. ASSUME NEW p, Scan(p) PROVE FALSE
    BY <2>1, <2>4 DEF Scan, Finish
  <2>5. ~ReadLineBody /\ ~ReadLineMore
    BY <2>2, <2>4 DEF ReadLineBody, ReadLineMore, NoLine, LastLine
  <2>6. ~ReadCharBody
    BY DEF ReadCharBody, HasNoDataLeft, FhRead, Throw, Finish
  <2>. QED
    BY <1>5, <2>3, <2>5, <2>6 DEF TextStep
<1>. QED
  BY <1>1, <1>2, <1>3, <1>4, <1>5 DEF TextNext, TextStep

LEMMA NextOfAStream == TInv /\ OfAStream /\ [TextNext]_textVars => OfAStream'
<1> SUFFICES ASSUME TInv, OfAStream, [TextNext]_textVars,
                    call'.op = "read_text", pc' \in {"body", "more", "fill"}
             PROVE  call'.arg = FALSE /\ file_size' = NotRegular
  BY DEF OfAStream
<1>1. CASE TextWorld \/ UNCHANGED textVars
  <2>1. UNCHANGED <<pc, call, file_size>>
    BY <1>1, WorldMoves DEF handle, frame
  <2>. QED
    BY <2>1 DEF OfAStream
<1>2. CASE ReadText
  <2>1. \E s \in FileSizeResults :
           /\ GotFileSize(s) /\ s = NotRegular /\ Begin("read_text", FALSE, "drain")
    BY <1>2 DEF ReadText, Throw, Finish, ReadWhole, FhRead
  <2>. QED
    BY <2>1 DEF GotFileSize, Begin
<1>3. CASE (TextCall /\ ~ReadText) \/ ByteCall \/ Recovery
  <2>1. ASSUME NEW op, NEW arg, NEW loop, CallAtEof(op, arg, loop) PROVE call'.op = op
    BY <2>1 DEF CallAtEof, Begin
  <2>2. ~ReadTextToEnd /\ ~ReadALine /\ ~ReadChar
    BY <2>1 DEF ReadTextToEnd, ReadALine, ReadLine, ReadLineReae, ReadUntil, ReadChar
  <2>3. ASSUME NEW s, StartsWith(s) PROVE FALSE
    BY <2>1, <2>3 DEF StartsWith, Begin
  <2>4. ~GetLastWriteTime
    BY DEF GetLastWriteTime, Begin
  <2>5. ASSUME NEW p, Seek(p) PROVE FALSE
    BY <2>5 DEF Seek, SeekNegative, SeekWithinBuffer, SeekOutsideBuffer, Begin
  <2>6. ~Close /\ ~\E f \in Files : Open(f)
    BY DEF Close, Open, Begin
  <2>7. ~AtEofCall /\ ~ReadByte
    BY <2>1 DEF AtEofCall, ReadByte
  <2>. QED
    BY <1>3, <2>2, <2>3, <2>4, <2>5, <2>6, <2>7 DEF ByteCall, Recovery, TextCall
<1>4. CASE Step
  <2>1. UNCHANGED <<call, file_size>> /\ pc \in {"body", "more", "fill"}
    <3>1. UNCHANGED <<call, file_size>> \/ Take
      BY <1>4 DEF Step, ReadIntoBuffer, ReadIntoCaller, SysRead, ReadFails, FillReturn, RefillReturn,
         BulkReturn, WholeReturn, AtEofReturn, ByteReturn, ReadBytesBody, ReadBytesMore,
         ReadBytesAtMostBody, ReadBytesAtMostMore, DrainMore, SeekMore, InLoop, handle, frame
    <3>2. ~Take
      BY DEF Take
    <3>3. pc \in {"body", "more", "fill"}
      BY <1>4 DEF Step, ReadIntoBuffer, ReadIntoCaller, ReadFails, FillReturn, RefillReturn,
         BulkReturn, WholeReturn, AtEofReturn, ByteReturn, ReadBytesBody, ReadBytesMore,
         ReadBytesAtMostBody, ReadBytesAtMostMore, DrainMore, SeekMore, Take, Throw, Finish, frame
    <3>. QED
      BY <3>1, <3>2, <3>3
  <2>. QED
    BY <2>1 DEF OfAStream
<1>5. CASE TextStep /\ ~Step
  <2>1. ASSUME ReadCharBody PROVE FALSE
    <3>1. call.op = "read_char" /\ (UNCHANGED call \/ call' = [call EXCEPT !.loop = "exact"])
      BY <2>1 DEF ReadCharBody
    <3>2. CASE UNCHANGED call
      BY <3>1, <3>2
    <3>3. CASE call' = [call EXCEPT !.loop = "exact"]
      BY <3>1, <3>3
    <3>. QED
      BY <3>1, <3>2, <3>3
  <2>2. ~ReadLineBody /\ ~ReadLineMore
    BY DEF ReadLineBody, ReadLineMore, InLine, Lines
  <2>3. UNCHANGED <<call, file_size>> /\ pc \in {"body", "more", "fill"}
    BY <1>5, <2>1, <2>2 DEF TextStep, ReadTextBody, ReadTextToEndBody, StartsWithBody, InLoop, handle
  <2>. QED
    BY <2>3 DEF OfAStream
<1>. QED
  BY <1>1, <1>2, <1>3, <1>4, <1>5 DEF TextNext, TextStep

LEMMA NextKnown == TInv /\ Known /\ [TextNext]_textVars => Known'
BY NextInOneGo, NextOfAStream, NextSizeKnown DEF Known

LEMMA InitKnown == TextInit => Begun /\ Known
<1> SUFFICES ASSUME TextInit PROVE Begun /\ Known
  OBVIOUS
<1>1. pc = "idle" /\ file_size = -1
  BY DEF TextInit, Init, HandleInit, Unknown
<1>2. -1 \notin Nat
  OBVIOUS
<1>. QED
  BY <1>1, <1>2 DEF Begun, Collecting, Looping, Entering, Known, InOneGo, OfAStream, SizeKnown

-----------------------------------------------------------------------------
(* Whole texts.                                                            *)

(* What a call has taken, as bytes of the file.                            *)
LEMMA TextOut ==
  ASSUME Contents, fd \in Files, size[fd] \in Nat, NEW s \in Nat, NEW e \in Nat, e <= size[fd],
         NEW o, o = Run(fd, s, Len(o)), Len(o) \in Nat, s + Len(o) = e
  PROVE  /\ Values(o) = FileBytes(s, e) /\ FileBytes(s, e) \in Seq(Octets)
         /\ Len(FileBytes(s, e)) = Len(o) /\ s <= e
<1>1. PICK n \in Nat : n = Len(o)
  OBVIOUS
<1>2. s + n = e /\ s <= e /\ e - s = n
  BY <1>1
<1>3. Values(Run(fd, s, n)) = FileBytes(s, s + n)
  BY <1>1, <1>2, RunOfFile
<1>4. FileBytes(s, e) \in Seq(Octets) /\ Len(FileBytes(s, e)) = e - s
  BY <1>2, PartOfFile
<1>. QED
  BY <1>1, <1>2, <1>3, <1>4

LEMMA NoNewlines == handle_newlines(<<>>) = <<>>
<1> DEFINE g == [i \in 0 .. Len(<<>>) |-> <<>>]
<1>1. <<>> \in Seq(Octets) /\ Len(<<>>) = 0
  OBVIOUS
<1>2. g[Len(<<>>)] = <<>> /\ \A i \in 0 .. Len(<<>>) : i = 0
  BY <1>1
<1>3. g = [i \in 0 .. Len(<<>>) |-> Dest(<<>>, g, i)]
  BY <1>2 DEF Dest
<1> HIDE DEF g
<1>4. handle_newlines(<<>>) = g[Len(<<>>)]
  BY <1>1, <1>3, HandleIs
<1>. QED
  BY <1>2, <1>4

WholeText == \E s \in TextStart : Result = Normalized(FileBytes(s, tell))

SameWhole == UNCHANGED <<content, call, out, fd, tell>> /\ TextStart \subseteq TextStart'

LEMMA WholeStays == ASSUME WholeText, SameWhole PROVE WholeText'
<1>1. UNCHANGED <<content, call, out, fd, tell>> /\ TextStart \subseteq TextStart'
  BY DEF SameWhole
<1>2. Result' = Result
  BY <1>1 DEF Result, Values
<1>3. PICK s \in TextStart : Result = Normalized(FileBytes(s, tell))
  BY DEF WholeText
<1>4. FileBytes(s, tell)' = FileBytes(s, tell)
  BY <1>1 DEF FileBytes
<1>5. s \in TextStart' /\ Result' = Normalized(FileBytes(s, tell)')
  BY <1>1, <1>2, <1>3, <1>4
<1>6. \E t \in TextStart' : Result' = Normalized(FileBytes(t, tell)')
  BY <1>5
<1>. QED
  BY <1>6 DEF WholeText

(* A text taken from where it begins up to the position.                   *)
LEMMA TakenIsWhole ==
  ASSUME TInv, fd \in Files, tell <= size[fd], NEW s \in TextStart,
         out = Run(fd, s, Len(out)), s + Len(out) = tell,
         \/ call.op = "read_text_to_end"
         \/ call.op = "read_text" /\ call.arg = FALSE
  PROVE  WholeText
<1>1. Contents /\ size[fd] \in Nat /\ s \in Nat /\ tell \in Nat /\ Len(out) \in Nat
  BY Numbers, Numbers2, StartsAre DEF TInv, PInv, WInv, Placed
<1>2. Values(out) = FileBytes(s, tell) /\ FileBytes(s, tell) \in Seq(Octets)
  BY <1>1, TextOut
<1>3. Result = handle_newlines(Values(out))
  BY DEF Result
<1>4. Result = Normalized(FileBytes(s, tell))
  BY <1>2, <1>3, NewlinesAreHandled
<1>. QED
  BY <1>4 DEF WholeText

(* The end of a text that is taken buffer by buffer.                       *)
TextEnd ==
  \/ call.op = "read_text" /\ file_size = NotRegular
  \/ call.op = "read_text_to_end"

LEMMA DrainedIsWhole ==
  ASSUME TInv, Begun, OfAStream, pc \in {"body", "more"}, no_data, Throw("ok"),
         call.op \in {"read_text", "read_text_to_end"},
         UNCHANGED <<fd, content, size, grown, buffer, is_eof_reached, call, lost, file_size>>
  PROVE  WholeText' /\ TextEnd' /\ MetTheEnd'
<1>1. call.op # "seek" /\ call.loop # "exact"
  BY DEF TInv, Placed, Where, Framed
<1>2. MetTheEnd /\ Available = 0
  BY <1>1, EndIsMet
<1>3. MetTheEnd' /\ UNCHANGED <<tell, out>>
  BY <1>2, ThrowKeeps
<1>4. TextStart' = TextStart
  BY StartsSame
<1>5. TextEnd /\ TextEnd' /\ (call.op = "read_text" => call.arg = FALSE)
  BY DEF TextEnd, OfAStream
<1>6. /\ fd \in Files /\ tell <= size[fd] /\ file_pos_of_buffer_start \in Nat
      /\ tell = file_pos_of_buffer_start
  BY <1>1, Working, Numbers2 DEF TInv, tell
<1>7. \E s \in TextStart : out = Run(fd, s, Len(out)) /\ s + Len(out) = tell
  <2>1. CASE pc = "more"
    BY <1>1, <2>1 DEF Begun, Collecting, Looping, TakenFrom, Reached
  <2>2. CASE pc = "body"
    <3>1. tell \in TextStart /\ tell \in Nat
      BY <1>1, <1>6, <2>2, NothingBegins
    <3>2. out = <<>>
      BY <1>1, <2>2 DEF TInv, Placed, Where, Entered, Entering
    <3>3. out = Run(fd, tell, Len(out)) /\ Len(out) = 0
      BY <3>2, Nothing
    <3>4. tell + 0 = tell
      BY <3>1
    <3>. QED
      BY <3>1, <3>3, <3>4
  <2>. QED
    BY <2>1, <2>2
<1>8. WholeText
  BY <1>5, <1>6, <1>7, TakenIsWhole
<1>9. SameWhole
  BY <1>3, <1>4 DEF SameWhole
<1>. QED
  BY <1>3, <1>5, <1>8, <1>9, WholeStays

(* The end of a text that is taken in one go.                              *)
LEMMA GoneIsWhole ==
  ASSUME TInv, Known, WholeReturn, outcome' = "ok", UNCHANGED texts
  PROVE  WholeText' /\ call'.op = "read_text" /\ tell' = file_size'
<1>1. /\ pc = "whole" /\ UNCHANGED <<call, fd, size, content, grown, file_size, out, buffer_pos>>
      /\ got = file_size /\ file_pos_of_buffer_start' = file_size
  BY DEF WholeReturn, Throw, Finish, InLoop, texts, world, handle
<1>2. /\ call.op = "read_text" /\ call.arg = TRUE /\ call.start = 0
      /\ out = Run(fd, 0, got) /\ file_size \in Nat
  BY <1>1 DEF Known, InOneGo
<1>3. /\ fd \in Files /\ Contents /\ size[fd] \in Nat /\ off = got /\ got \in Nat /\ got <= size[fd]
      /\ buffer_pos = 0 /\ grown \in Nat
  <2>1. fd \in Files /\ fd # NoFile /\ ~torn
    BY <1>1, FilesAssumption DEF TInv, PInv, WInv, IInv, Control, Sites, Placed, Where, Shape
  <2>2. off \in Nat /\ got \in Nat /\ size[fd] \in Nat /\ off <= size[fd]
    BY <2>1, Numbers2 DEF TInv, PInv, Inside
  <2>3. off = got /\ buffer_pos = 0
    BY <1>1, <2>1, <2>2 DEF TInv, PInv, WInv, CInv, Coherent, Transfers
  <2>. QED
    BY <2>1, <2>2, <2>3 DEF TInv, Placed, Contents
<1>4. PICK n \in Nat : n = got
  BY <1>3
<1>5. tell' = n /\ file_size' = n
  BY <1>1, <1>3, <1>4 DEF tell
<1>6. Values(out) = FileBytes(0, n) /\ FileBytes(0, n) \in Seq(Octets)
  <2>1. 0 \in Nat /\ 0 + n = n
    BY <1>4
  <2>2. Len(Run(fd, 0, n)) = n
    BY RunType
  <2>. QED
    BY <1>2, <1>3, <1>4, <2>1, <2>2, TextOut
<1>7. Result = handle_newlines(EraseBom(FileBytes(0, n)))
  BY <1>2, <1>6 DEF Result
<1>8. /\ n >= 3 => EraseBom(FileBytes(0, n)) = IF SubSeq(content[fd], 1, 3) = BOM
                                               THEN FileBytes(3, n) ELSE FileBytes(0, n)
      /\ ~(n >= 3) => EraseBom(FileBytes(0, n)) = FileBytes(0, n)
  BY <1>3, <1>4, BomOfFile
<1>9. HasBom <=> size[fd] >= 3 /\ SubSeq(content[fd], 1, 3) = BOM
  BY <1>2, <1>3, HasBomIs
<1>10. TextStart' = TextStart /\ Result' = Result
  BY <1>1, StartsSame DEF Result, Values
<1>11. \E s \in TextStart : s \in Nat /\ s <= n /\ EraseBom(FileBytes(0, n)) = FileBytes(s, n)
  <2>1. CASE n >= 3 /\ SubSeq(content[fd], 1, 3) = BOM
    <3>1. HasBom
      BY <1>3, <1>4, <1>9, <2>1
    <3>. QED
      BY <1>8, <2>1, <3>1 DEF TextStart
  <2>2. CASE ~(n >= 3 /\ SubSeq(content[fd], 1, 3) = BOM)
    <3>1. EraseBom(FileBytes(0, n)) = FileBytes(0, n)
      BY <1>8, <2>2
    <3>2. HasBom => grown > 0
      <4>1. HasBom => size[fd] # n
        BY <1>3, <1>4, <1>9, <2>2
      <4>2. grown = 0 => size[fd] = n
        BY <1>1, <1>2, <1>3, <1>4 DEF Known, SizeKnown
      <4>. QED
        BY <1>3, <4>1, <4>2
    <3>3. 0 \in TextStart
      BY <1>2, <3>2 DEF TextStart
    <3>. QED
      BY <1>4, <3>1, <3>3
  <2>. QED
    BY <2>1, <2>2
<1>12. PICK s \in TextStart : s \in Nat /\ s <= n /\ EraseBom(FileBytes(0, n)) = FileBytes(s, n)
  BY <1>11
<1>13. FileBytes(s, n) \in Seq(Octets)
  BY <1>3, <1>4, <1>12, PartOfFile
<1>14. Result = Normalized(FileBytes(s, n))
  BY <1>7, <1>12, <1>13, NewlinesAreHandled
<1>15. FileBytes(s, tell)' = FileBytes(s, n)
  BY <1>1, <1>5 DEF FileBytes
<1>16. s \in TextStart' /\ Result' = Normalized(FileBytes(s, tell)')
  BY <1>10, <1>12, <1>14, <1>15
<1>17. \E t \in TextStart' : Result' = Normalized(FileBytes(t, tell)')
  BY <1>16
<1>. QED
  BY <1>1, <1>2, <1>5, <1>17 DEF WholeText

(* Only a file that is open has been read.                                 *)
Reads == Lines \cup {"read_text", "read_text_to_end"}

OpenWhenRead == Returned(Reads, "ok") => fd \in Files

LEMMA ReadsAnswered ==
  ASSUME TInv, [TextNext]_textVars, Returned(Reads, "ok")'
  PROVE  \/ Returned(Reads, "ok") /\ (TextWorld \/ UNCHANGED textVars)
         \/ /\ call.op = call'.op
            /\ \/ call.op \in Lines /\ (ReadLineBody \/ ReadLineMore)
               \/ call.op = "read_text" /\ (ReadTextBody \/ DrainMore \/ WholeReturn)
               \/ call.op = "read_text_to_end" /\ (ReadTextToEndBody \/ DrainMore)
<1>1. /\ pc' = "ret" /\ call'.op \in Reads /\ outcome' = "ok" /\ ~torn'
  BY DEF Returned
<1>2. call'.op \in TextOps \ {"get_last_write_time"} /\ outcome' \in Plain
  BY <1>1 DEF TextOps, Reads, Lines, Plain
<1>3. CASE pc = "ret" /\ (TextWorld \/ UNCHANGED textVars)
  <2>1. Returned(Reads, "ok")
    BY <1>1, <1>3, SeenStill DEF Returned
  <2>. QED
    BY <1>3, <2>1
<1>. QED
  BY <1>1, <1>2, <1>3, Answering DEF Reads, Lines

LEMMA NextOpenWhenRead == TInv /\ OpenWhenRead /\ [TextNext]_textVars => OpenWhenRead'
<1> SUFFICES ASSUME TInv, OpenWhenRead, [TextNext]_textVars, Returned(Reads, "ok")'
             PROVE  fd' \in Files
  BY DEF OpenWhenRead
<1>1. CASE Returned(Reads, "ok") /\ (TextWorld \/ UNCHANGED textVars)
  <2>1. fd' = fd
    BY <1>1, WorldMoves DEF handle
  <2>. QED
    BY <1>1, <2>1 DEF OpenWhenRead
<1>2. CASE ReadLineBody \/ ReadLineMore
  <2>1. pc \in {"body", "more"} /\ call.op # "seek" /\ fd' = fd
    BY <1>2 DEF ReadLineBody, ReadLineMore, InLine, handle, Lines
  <2>. QED
    BY <2>1, Working
<1>3. CASE ReadTextBody \/ ReadTextToEndBody \/ DrainMore
  <2>1. pc \in {"body", "more"} /\ call.op # "seek" /\ fd' = fd
    BY <1>3 DEF ReadTextBody, ReadTextToEndBody, DrainMore, InLoop, handle, TInv, Placed, Where, Framed
  <2>. QED
    BY <2>1, Working
<1>4. CASE WholeReturn
  <2>1. pc = "whole" /\ fd' = fd
    BY <1>4 DEF WholeReturn, InLoop, handle
  <2>. QED
    BY <2>1 DEF TInv, PInv, WInv, IInv, Control, Sites
<1>. QED
  BY <1>1, <1>2, <1>3, <1>4, ReadsAnswered

(* A lone BOM is no text.                                                  *)
LEMMA LoneBom ==
  ASSUME TInv, ReadTextToEndBody, BomOnly
  PROVE  StuckBeforeBom' /\ Result' = <<>> /\ call'.op = "read_text_to_end"
<1>1. /\ pc = "body" /\ call.op = "read_text_to_end" /\ call.op # "seek" /\ Throw("ok")
      /\ UNCHANGED <<fd, content, size, grown, buffer, is_eof_reached, call, lost>>
  BY DEF ReadTextToEndBody, InLoop, texts, world, handle, flags
<1>2. StuckBeforeBom' /\ UNCHANGED <<tell, out>>
  BY <1>1, OnlyBom, ThrowKeeps
<1>3. call.loop # "exact"
  BY <1>1 DEF TInv, Placed, Where, Framed
<1>4. out = <<>>
  BY <1>1, <1>3 DEF TInv, Placed, Where, Entered, Entering
<1>5. out' = <<>> /\ call'.op = "read_text_to_end"
  BY <1>1, <1>2, <1>4
<1>6. Values(<<>>)' = <<>>
  BY DEF Values
<1>7. Result' = handle_newlines(<<>>)
  BY <1>5, <1>6 DEF Result
<1>. QED
  BY <1>2, <1>5, <1>7, NoNewlines

(* The invariant of all the calls that return text.                        *)
Texted == TInv /\ Begun /\ Known /\ OpenWhenRead

LEMMA NextTextIsWhole == Texted /\ TextIsWhole /\ [TextNext]_textVars => TextIsWhole'
<1> SUFFICES ASSUME Texted, TextIsWhole, [TextNext]_textVars,
                    Returned({"read_text", "read_text_to_end"}, "ok")'
             PROVE  \/ /\ WholeText'
                       /\ IF call'.op = "read_text" /\ file_size' # NotRegular
                          THEN tell' = file_size' ELSE MetTheEnd'
                    \/ call'.op = "read_text_to_end" /\ StuckBeforeBom' /\ Result' = <<>>
  BY DEF TextIsWhole, WholeText
<1>1. TInv /\ Begun /\ Known /\ OpenWhenRead /\ OfAStream
  BY DEF Texted, Known
<1>2. /\ pc' = "ret" /\ call'.op \in {"read_text", "read_text_to_end"} /\ outcome' = "ok" /\ ~torn'
      /\ Returned(Reads, "ok")'
  BY DEF Returned, Reads
<1>3. CASE Returned(Reads, "ok") /\ (TextWorld \/ UNCHANGED textVars)
  <2>1. /\ pc = "ret" /\ fd \in Files /\ UNCHANGED <<tell, call, out, outcome, torn, fd>>
        /\ (MetTheEnd => MetTheEnd') /\ (StuckBeforeBom => StuckBeforeBom')
    BY <1>1, <1>3, SeenStill DEF Returned, OpenWhenRead
  <2>2. UNCHANGED <<content, file_size>>
    BY <1>1, <1>3, WorldMoves DEF handle
  <2>3. Contents'
    BY <1>1, NextContents
  <2>4. TextStart \subseteq TextStart'
    BY <1>1, <1>3, <2>1, <2>3, StartsStay
  <2>5. SameWhole
    BY <2>1, <2>2, <2>4 DEF SameWhole
  <2>6. Returned({"read_text", "read_text_to_end"}, "ok")
    BY <1>2, <2>1 DEF Returned
  <2>7. \/ /\ WholeText
           /\ IF call.op = "read_text" /\ file_size # NotRegular
              THEN tell = file_size ELSE MetTheEnd
        \/ call.op = "read_text_to_end" /\ StuckBeforeBom /\ Result = <<>>
    BY <2>6 DEF TextIsWhole, WholeText
  <2>8. WholeText => WholeText'
    BY <2>5, WholeStays
  <2>9. Result' = Result
    BY <2>1, <2>2 DEF Result, Values
  <2>. QED
    BY <2>1, <2>2, <2>7, <2>8, <2>9
<1>4. ASSUME pc \in {"body", "more"}, no_data, Throw("ok"),
             call.op \in {"read_text", "read_text_to_end"}, InLoop, UNCHANGED <<lost, texts>>
      PROVE  WholeText' /\ TextEnd' /\ MetTheEnd'
  <2>1. UNCHANGED <<fd, content, size, grown, buffer, is_eof_reached, call, lost, file_size>>
    BY <1>4 DEF InLoop, texts, world, handle, flags
  <2>. QED
    BY <1>1, <1>4, <2>1, DrainedIsWhole
<1>5. CASE ReadTextBody
  <2>1. pc = "body" /\ call.op = "read_text" /\ InLoop /\ UNCHANGED <<lost, texts>>
    BY <1>5 DEF ReadTextBody
  <2>2. no_data /\ Throw("ok")
    BY <1>2, <1>5 DEF ReadTextBody, SkipThenDrain, HasNoDataLeft, FhRead, Finish
  <2>3. WholeText' /\ TextEnd' /\ MetTheEnd'
    BY <1>4, <2>1, <2>2
  <2>. QED
    BY <2>3 DEF TextEnd
<1>6. CASE ReadTextToEndBody
  <2>1. pc = "body" /\ call.op = "read_text_to_end" /\ InLoop /\ UNCHANGED <<lost, texts>>
    BY <1>6 DEF ReadTextToEndBody
  <2>2. (no_data \/ BomOnly) /\ Throw("ok")
    BY <1>2, <1>6 DEF ReadTextToEndBody, SkipThenDrain, HasNoDataLeft, FhRead, Finish
  <2>3. CASE no_data
    <3>1. WholeText' /\ TextEnd' /\ MetTheEnd'
      BY <1>4, <2>1, <2>2, <2>3
    <3>. QED
      BY <3>1 DEF TextEnd
  <2>4. CASE BomOnly
    BY <1>1, <1>6, <2>4, LoneBom
  <2>. QED
    BY <2>2, <2>3, <2>4
<1>7. CASE DrainMore /\ call.op \in {"read_text", "read_text_to_end"}
  <2>1. pc = "more" /\ InLoop /\ UNCHANGED lost
    BY <1>7 DEF DrainMore
  <2>2. no_data /\ Throw("ok")
    BY <1>2, <1>7 DEF DrainMore, DrainThenRefill, HasNoDataLeft, FhRead, Finish
  <2>3. UNCHANGED texts
    BY <1>2, <2>1, OnlyTheWorld DEF TextWorld, World, frame
  <2>4. WholeText' /\ TextEnd' /\ MetTheEnd'
    BY <1>4, <1>7, <2>1, <2>2, <2>3
  <2>. QED
    BY <2>4 DEF TextEnd
<1>8. CASE WholeReturn
  <2>1. pc = "whole"
    BY <1>8 DEF WholeReturn
  <2>2. UNCHANGED texts
    BY <1>2, <2>1, OnlyTheWorld DEF TextWorld, World, frame
  <2>3. WholeText' /\ call'.op = "read_text" /\ tell' = file_size'
    BY <1>1, <1>2, <1>8, <2>2, GoneIsWhole
  <2>4. file_size' # NotRegular
    BY <1>1, <1>8 DEF WholeReturn, InLoop, handle, Known, InOneGo, NotRegular
  <2>. QED
    BY <2>3, <2>4
<1>. QED
  BY <1>1, <1>2, <1>3, <1>5, <1>6, <1>7, <1>8, ReadsAnswered DEF Lines

LEMMA NextTexted == Texted /\ [TextNext]_textVars => Texted'
BY NextTInv, NextBegun, NextKnown, NextOpenWhenRead DEF Texted

LEMMA InitTexted == OneFile /\ TextInit => Texted
<1>1. TextInit => OpenWhenRead
  BY DEF TextInit, Init, OpenWhenRead, Returned
<1>. QED
  BY <1>1, InitTInv, InitKnown DEF Texted

(* read_text() and read_text_to_end() return everything up to the end, the *)
(* BOM left out and each "\r\n" changed, in one go or buffer by buffer     *)
(* (IFile.hpp:242-299).                                                    *)
THEOREM TextsAreWhole == OneFile /\ TextSpec => []TextIsWhole
<1>1. TextInit => TextIsWhole
  BY DEF TextInit, Init, TextIsWhole, Returned
<1>. QED
  BY <1>1, InitTexted, NextTexted, NextTextIsWhole, PTL DEF TextSpec

-----------------------------------------------------------------------------
(* Lines.                                                                  *)

(* What a call for a line makes of its bytes, and what is expected of it.  *)
MadeOf(bytes) ==
  CASE call.op = "read_until" -> handle_newlines(bytes)
    [] call.op = "read_line" -> IF call.arg.keep THEN EraseCR(bytes) ELSE PopCR(bytes)
    [] OTHER -> IF ~LastIsLF(bytes) THEN bytes
                ELSE IF call.arg.keep THEN EraseCR(bytes) ELSE PopCR(Front(bytes))

Expected(raw) ==
  IF call.op = "read_until" /\ Last(raw) # call.arg.delim THEN Normalized(raw) ELSE LineText(raw)

LineDone(s) ==
  LET raw == FileBytes(s, tell)
      d   == call.arg.delim
  IN  /\ tell > s
      /\ \A i \in 1 .. Len(raw) - 1 : raw[i] # d
      /\ Last(raw) = d \/ MetTheEnd
      /\ Result = Expected(raw)

(* The bytes that a call for a line collects of it.                        *)
CollectedOf(raw, bytes) ==
  \/ bytes = raw /\ (KeepDelim \/ Last(raw) # call.arg.delim)
  \/ bytes = Front(raw) /\ ~KeepDelim /\ Last(raw) = call.arg.delim

LEMMA ShorterByOne ==
  ASSUME NEW S, NEW s \in Seq(S), s # <<>>
  PROVE  /\ Front(s) = SubSeq(s, 1, Len(s) - 1) /\ Front(s) \in Seq(S)
         /\ Last(s) = s[Len(s)] /\ Len(s) >= 1
<1>1. PICK n \in Nat : n = Len(s)
  OBVIOUS
<1>2. n # 0
  BY <1>1
<1>3. n - 1 \in 0 .. Len(s)
  BY <1>1, <1>2
<1>4. SubSeq(s, 1, n - 1) \in Seq(S)
  BY <1>3, Prefix
<1>. QED
  BY <1>1, <1>2, <1>4 DEF Front, Last

LEMMA LineIsAsExpected ==
  ASSUME NEW raw \in Seq(Octets), raw # <<>>, call.op \in Lines, call.arg.keep \in BOOLEAN,
         call.op # "read_until" => call.arg.delim = LF,
         \A i \in 1 .. Len(raw) - 1 : raw[i] # call.arg.delim,
         NEW bytes, CollectedOf(raw, bytes)
  PROVE  MadeOf(bytes) = Expected(raw)
<1>1. Front(raw) \in Seq(Octets) /\ Last(raw) = raw[Len(raw)] /\ Len(raw) >= 1
  BY ShorterByOne
<1>2. LastIsLF(raw) <=> Last(raw) = LF
  BY <1>1 DEF LastIsLF
<1>3. ASSUME call.op # "read_until"
      PROVE  /\ OneLine(raw) /\ EraseCR(raw) = Normalized(raw) /\ call.arg.delim = LF
             /\ LineViaReadByte(raw) = IF LastIsLF(raw) THEN PopCR(Front(raw)) ELSE raw
  <2>1. OneLine(raw) /\ call.arg.delim = LF
    BY <1>3 DEF OneLine
  <2>. QED
    BY <2>1, NewlinesAreHandled, LineNewlines, LineByteByByte
<1>4. CASE call.op = "read_until"
  <2>1. MadeOf(bytes) = handle_newlines(bytes)
    BY <1>4 DEF MadeOf
  <2>2. CASE bytes = raw
    <3>1. MadeOf(bytes) = Normalized(raw)
      BY <2>1, <2>2, NewlinesAreHandled
    <3>2. Last(raw) # call.arg.delim \/ call.arg.keep
      <4>1. CASE KeepDelim
        BY <1>4, <4>1 DEF KeepDelim
      <4>2. CASE ~KeepDelim
        <5>1. raw # Front(raw)
          BY ShorterByOne
        <5>. QED
          BY <2>2, <4>2, <5>1 DEF CollectedOf
      <4>. QED
        BY <4>1, <4>2
    <3>. QED
      BY <1>4, <3>1, <3>2 DEF Expected, LineText
  <2>3. CASE bytes = Front(raw) /\ ~KeepDelim /\ Last(raw) = call.arg.delim
    <3>1. MadeOf(bytes) = Normalized(Front(raw))
      BY <1>1, <2>1, <2>3, NewlinesAreHandled
    <3>2. ~call.arg.keep
      BY <2>3 DEF KeepDelim
    <3>. QED
      BY <1>4, <2>3, <3>1, <3>2 DEF Expected, LineText
  <2>. QED
    BY <2>2, <2>3 DEF CollectedOf
<1>5. CASE call.op = "read_line"
  <2>1. /\ MadeOf(bytes) = (IF call.arg.keep THEN EraseCR(bytes) ELSE PopCR(bytes))
        /\ Expected(raw) = IF call.arg.keep THEN Normalized(raw)
                           ELSE IF LastIsLF(raw) THEN LineViaReadByte(raw)
                           ELSE PopCR(LineViaReadByte(raw))
    BY <1>5 DEF MadeOf, Expected, LineText
  <2>2. KeepDelim <=> call.arg.keep
    BY <1>5 DEF KeepDelim
  <2>3. CASE call.arg.keep
    <3>1. bytes = raw
      BY <2>2, <2>3 DEF CollectedOf
    <3>. QED
      BY <1>3, <1>5, <2>1, <2>3, <3>1
  <2>4. CASE ~call.arg.keep /\ LastIsLF(raw)
    <3>1. bytes = Front(raw)
      BY <1>2, <1>3, <1>5, <2>2, <2>4 DEF CollectedOf
    <3>. QED
      BY <1>3, <1>5, <2>1, <2>4, <3>1
  <2>5. CASE ~call.arg.keep /\ ~LastIsLF(raw)
    <3>1. bytes = raw
      BY <1>2, <1>3, <1>5, <2>2, <2>5 DEF CollectedOf
    <3>. QED
      BY <1>3, <1>5, <2>1, <2>5, <3>1
  <2>. QED
    BY <2>3, <2>4, <2>5
<1>6. CASE call.op = "read_line_reae"
  <2>1. /\ MadeOf(bytes) = (IF ~LastIsLF(bytes) THEN bytes
                            ELSE IF call.arg.keep THEN EraseCR(bytes) ELSE PopCR(Front(bytes)))
        /\ Expected(raw) = IF call.arg.keep THEN Normalized(raw) ELSE LineViaReadByte(raw)
    BY <1>6 DEF MadeOf, Expected, LineText
  <2>2. KeepDelim
    BY <1>6 DEF KeepDelim
  <2>3. bytes = raw
    BY <2>2 DEF CollectedOf
  <2>4. CASE LastIsLF(raw)
    BY <1>3, <1>6, <2>1, <2>3, <2>4
  <2>5. CASE ~LastIsLF(raw)
    <3>1. EraseCR(raw) = raw
      BY <1>1, <1>2, <2>5 DEF EraseCR
    <3>. QED
      BY <1>3, <1>6, <2>1, <2>3, <2>5, <3>1
  <2>. QED
    BY <2>4, <2>5
<1>. QED
  BY <1>4, <1>5, <1>6 DEF Lines

(* A line that has been read: n bytes of the file from s on, with the      *)
(* delimiter or without.                                                   *)
LEMMA LineIsDone ==
  ASSUME TInv, fd \in Files, call.op \in Lines, NEW s \in TextStart, NEW n \in Nat, n >= 1,
         s + n <= size[fd], \A k \in 1 .. n - 1 : content[fd][s + k] # call.arg.delim,
         content[fd][s + n] = call.arg.delim \/ MetTheEnd',
         NEW m \in {n - 1, n}, out' = Run(fd, s, m),
         m = n - 1 <=> content[fd][s + n] = call.arg.delim /\ ~KeepDelim,
         UNCHANGED <<content, size, grown, fd, call>>, tell' = s + n
  PROVE  s \in TextStart' /\ LineDone(s)'
<1>1. Contents /\ size[fd] \in Nat /\ s \in Nat /\ m \in Nat /\ m <= n
  BY Numbers2, StartsAre DEF TInv, Placed
<1>2. PICK e \in Nat : e = s + n
  BY <1>1
<1>3. s <= e /\ e <= size[fd] /\ e - s = n
  BY <1>1, <1>2
<1>4. PICK raw \in Seq(Octets) : raw = FileBytes(s, e) /\ Len(raw) = n
                                 /\ \A k \in 1 .. n : raw[k] = content[fd][s + k]
  BY <1>1, <1>3, PartOfFile
<1>5. raw # <<>> /\ n \in 1 .. n
  BY <1>4
<1>6. /\ Front(raw) = SubSeq(raw, 1, n - 1) /\ Last(raw) = content[fd][s + n]
  BY <1>4, <1>5, ShorterByOne
<1>7. \A k \in 1 .. Len(raw) - 1 : raw[k] # call.arg.delim
  <2>1. \A k \in 1 .. n - 1 : raw[k] # call.arg.delim
    BY <1>4
  <2>. QED
    BY <1>4, <2>1
<1>8. CollectedOf(raw, Values(Run(fd, s, m)))
  <2>1. PICK b \in Nat : b = s + m
    BY <1>1
  <2>2. s <= b /\ b <= size[fd] /\ b - s = m
    BY <1>1, <1>2, <1>3, <2>1
  <2>3. Values(Run(fd, s, m)) = FileBytes(s, b)
    BY <1>1, <2>1, <2>2, RunOfFile
  <2>4. CASE m = n
    <3>1. b = e
      BY <1>2, <2>1, <2>4
    <3>2. m # n - 1
      BY <2>4
    <3>. QED
      BY <1>4, <1>6, <2>3, <3>1, <3>2 DEF CollectedOf
  <2>5. CASE m = n - 1
    <3>1. PICK t \in Seq(Octets) : t = FileBytes(s, b) /\ Len(t) = m
                                   /\ \A k \in 1 .. m : t[k] = content[fd][s + k]
      BY <1>1, <2>2, PartOfFile
    <3>2. PICK f : f = SubSeq(raw, 1, m)
      OBVIOUS
    <3>3. f \in Seq(Octets) /\ Len(f) = m /\ \A k \in 1 .. m : f[k] = raw[k]
      <4>1. m <= Len(raw)
        BY <1>1, <1>4
      <4>. QED
        BY <1>1, <3>2, <4>1, FirstOf
    <3>4. \A k \in 1 .. m : f[k] = t[k]
      <4> SUFFICES ASSUME NEW k \in 1 .. m PROVE f[k] = t[k]
        OBVIOUS
      <4>1. k \in 1 .. n
        BY <1>1
      <4>. QED
        BY <1>4, <3>1, <3>3, <4>1
    <3>5. f = t
      BY <3>1, <3>3, <3>4, SeqEqual
    <3>6. Values(Run(fd, s, m)) = Front(raw)
      BY <1>6, <2>3, <2>5, <3>1, <3>2, <3>5
    <3>. QED
      BY <1>6, <2>5, <3>6 DEF CollectedOf
  <2>. QED
    BY <2>4, <2>5
<1>9. call.arg.keep \in BOOLEAN /\ (call.op # "read_until" => call.arg.delim = LF)
  BY DEF TInv, Placed, Where, Framed, Lines
<1>10. MadeOf(Values(Run(fd, s, m))) = Expected(raw)
  BY <1>5, <1>7, <1>8, <1>9, LineIsAsExpected
<1>11. TextStart' = TextStart
  BY StartsSame
<1>12. FileBytes(s, tell)' = raw
  <2>1. FileBytes(s, tell)' = FileBytes(s, e)
    BY <1>2 DEF FileBytes
  <2>. QED
    BY <1>4, <2>1
<1>13. Result' = Expected(raw)'
  <2>1. Values(out)' = Values(Run(fd, s, m))
    BY DEF Values
  <2>2. Result' = MadeOf(Values(Run(fd, s, m)))
    BY <2>1 DEF Result, MadeOf, Lines
  <2>3. Expected(raw)' = Expected(raw)
    BY DEF Expected, LineText
  <2>. QED
    BY <1>10, <2>2, <2>3
<1>14. tell' > s
  BY <1>1
<1>15. /\ \A i \in 1 .. Len(raw) - 1 : raw[i] # call'.arg.delim
       /\ Last(raw) = call'.arg.delim \/ MetTheEnd'
  BY <1>6, <1>7
<1>. QED
  BY <1>11, <1>12, <1>13, <1>14, <1>15 DEF LineDone

(* Bytes of the window follow those that have been taken.                  *)
LEMMA TakesRun ==
  ASSUME TInv, pc \in {"body", "more"}, call.op # "seek", NEW s \in Nat, NEW l \in Nat,
         out = Run(fd, s, l), NEW a \in Nat, NEW b \in Nat, a <= b, b <= buffer_size,
         s + l = file_pos_of_buffer_start + a
  PROVE  out \o Between(a, b) = Run(fd, s, l + (b - a))
<1>1. Between(a, b) = Run(fd, file_pos_of_buffer_start + a, b - a)
  BY WindowIsFile
<1>2. PICK m \in Nat : m = b - a
  OBVIOUS
<1>3. PICK t \in Nat : t = s + l
  OBVIOUS
<1>4. PICK n \in Nat : n = l + m
  OBVIOUS
<1>5. t = file_pos_of_buffer_start + a
  BY <1>3
<1>6. out \o Between(a, b) = Run(fd, s, l) \o Run(fd, t, m)
  BY <1>1, <1>2, <1>5
<1>7. Run(fd, s, l) \o Run(fd, t, m) = Run(fd, s, n)
  <2>1. Meets(s, l, t, m, n)
    BY <1>3, <1>4 DEF Meets
  <2>2. Joined(fd, s, l, t, m, n)
    BY Zenon, <2>1, RunsJoin
  <2>. QED
    BY Zenon, <2>2 DEF Joined
<1>. QED
  BY <1>2, <1>4, <1>6, <1>7

LEMMA LineBytes ==
  ASSUME TInv, pc \in {"body", "more"}, call.op # "seek", NEW s \in Nat, NEW l \in Nat,
         out = Run(fd, s, l), NEW p \in Nat, NEW i \in Nat, p <= i, i < buffer_size,
         s + l = file_pos_of_buffer_start + p,
         NEW m, m = l + (i - p) + IF KeepDelim THEN 1 ELSE 0
  PROVE  out \o Between(p, i + IF KeepDelim THEN 1 ELSE 0) = Run(fd, s, m)
<1>1. PICK b \in Nat : b = i + IF KeepDelim THEN 1 ELSE 0
  OBVIOUS
<1>2. buffer_size \in Nat
  BY Numbers2 DEF TInv
<1>3. p <= b /\ b <= buffer_size /\ l + (b - p) = m
  BY <1>1, <1>2
<1>4. out \o Between(p, b) = Run(fd, s, l + (b - p))
  BY <1>3, TakesRun
<1>. QED
  BY <1>1, <1>3, <1>4

ScansFrom(p) == p = IF pc = "body" THEN AfterBom ELSE 0

(* The line ends where memchr() has found the delimiter.                   *)
LEMMA LineFound ==
  ASSUME TInv, Begun, ReadLineBody \/ ReadLineMore, UNCHANGED texts,
         NEW p \in Nat, NEW i \in Nat, p <= i, i < buffer_size,
         ScansFrom(p),
         pc = "body" => ~(no_data \/ BomOnly), pc = "more" => ~no_data,
         i \in Found(p), \A j \in p .. i - 1 : j \notin Found(p),
         out' = out \o Between(p, i + IF KeepDelim THEN 1 ELSE 0),
         buffer_pos' = i + 1, UNCHANGED window
  PROVE  \E s \in TextStart' : LineDone(s)'
<1>1. /\ pc \in {"body", "more"} /\ call.op \in Lines /\ call.op # "seek"
      /\ UNCHANGED <<content, size, grown, fd, call>>
  BY DEF ReadLineBody, ReadLineMore, InLine, texts, world, handle, Lines
<1>2. /\ fd \in Files /\ size[fd] \in Nat /\ file_pos_of_buffer_start \in Nat /\ buffer_size \in Nat
      /\ file_pos_of_buffer_start + buffer_size <= size[fd]
  BY <1>1, Working, Numbers2 DEF TInv
<1>3. \E s \in TextStart :
        /\ out = Run(fd, s, Len(out)) /\ NoneIsDelim(s) /\ s \in Nat /\ Len(out) \in Nat
        /\ s + Len(out) = file_pos_of_buffer_start + p
  <2>1. Len(out) \in Nat
    BY Numbers DEF TInv, PInv, WInv
  <2>2. CASE pc = "body"
    <3>1. call.loop # "exact"
      BY <1>1 DEF TInv, Placed, Where, Framed, Lines
    <3>2. PICK s \in TextStart :
             /\ s = file_pos_of_buffer_start + AfterBom /\ s \in Nat
             /\ out = Run(fd, s, Len(out)) /\ Len(out) = 0 /\ s + Len(out) = s
      BY <1>1, <2>2, <3>1, FirstWindow
    <3>3. NoneIsDelim(s)
      BY <3>2 DEF NoneIsDelim
    <3>. QED
      BY <2>1, <2>2, <3>2, <3>3 DEF ScansFrom
  <2>3. CASE pc = "more"
    <3>1. PICK s \in TextStart : TakenFrom(s)
      BY <1>1, <2>3 DEF Begun, Collecting, Looping
    <3>2. buffer_pos = 0 /\ p = 0 /\ s \in Nat
      BY <2>3, <3>1, StartsAre DEF TInv, Placed, Where, Shape, ScansFrom
    <3>3. s + Len(out) = file_pos_of_buffer_start + p /\ out = Run(fd, s, Len(out)) /\ NoneIsDelim(s)
      BY <1>1, <1>2, <2>3, <3>1, <3>2 DEF TakenFrom, Reached, tell
    <3>. QED
      BY <2>1, <3>2, <3>3
  <2>. QED
    BY <1>1, <2>2, <2>3
<1>4. PICK s \in TextStart :
        /\ out = Run(fd, s, Len(out)) /\ NoneIsDelim(s) /\ s \in Nat /\ Len(out) \in Nat
        /\ s + Len(out) = file_pos_of_buffer_start + p
  BY <1>3
<1>5. PICK l \in Nat : l = Len(out)
  BY <1>4
<1>6. PICK g \in Nat : g = file_pos_of_buffer_start
  BY <1>2
<1>7. PICK h \in Nat : h = l + (i - p)
  <2>1. l + (i - p) \in Nat
    OBVIOUS
  <2>. QED
    BY <2>1
<1>8. PICK n \in Nat : n = h + 1
  <2>1. h + 1 \in Nat
    OBVIOUS
  <2>. QED
    BY <2>1
<1>9. s + l = g + p
  BY <1>4, <1>5, <1>6
<1>10. s + h = g + i /\ s + n = g + i + 1 /\ n >= 1 /\ n - 1 = h
  BY <1>4, <1>7, <1>8, <1>9
<1>11. s + n <= size[fd] /\ tell' = s + n
  <2>1. g + i + 1 <= size[fd]
    BY <1>2, <1>6
  <2>2. tell' = g + (i + 1)
    BY <1>6 DEF tell, window
  <2>. QED
    BY <1>6, <1>10, <2>1, <2>2
<1>12. \A k \in 1 .. h : content[fd][s + k] # call.arg.delim
  <2>1. s + Len(out) = file_pos_of_buffer_start + p /\ i <= buffer_size /\ h = Len(out) + (i - p)
    BY <1>2, <1>4, <1>5, <1>7
  <2>. QED
    BY <1>1, <1>4, <2>1, NoneTaken
<1>13. content[fd][s + n] = call.arg.delim
  <2>1. i \in p .. buffer_size - 1
    BY <1>2
  <2>2. content[fd][g + i + 1] = call.arg.delim
    BY <1>1, <1>6, <2>1, FoundIs
  <2>. QED
    BY <1>10, <2>2
<1>14. PICK b \in Nat : b = i + IF KeepDelim THEN 1 ELSE 0
  OBVIOUS
<1>15. PICK m \in Nat : m = IF KeepDelim THEN n ELSE h
  OBVIOUS
<1>16. out' = Run(fd, s, m)
  <2>1. s \in Nat /\ out = Run(fd, s, l) /\ s + l = file_pos_of_buffer_start + p
    BY <1>4, <1>5
  <2>2. pc \in {"body", "more"} /\ call.op # "seek"
    BY <1>1
  <2>3. m = l + (i - p) + IF KeepDelim THEN 1 ELSE 0
    BY <1>7, <1>8, <1>15
  <2>4. out \o Between(p, i + IF KeepDelim THEN 1 ELSE 0) = Run(fd, s, m)
    BY <2>1, <2>2, <2>3, LineBytes
  <2>. QED
    BY <2>4
<1>17. m \in {n - 1, n} /\ (m = n - 1 <=> ~KeepDelim)
  BY <1>10, <1>15
<1>18. \A k \in 1 .. n - 1 : content[fd][s + k] # call.arg.delim
  BY <1>10, <1>12
<1>19. s \in TextStart' /\ LineDone(s)'
  BY <1>1, <1>2, <1>10, <1>11, <1>13, <1>16, <1>17, <1>18, LineIsDone
<1>. QED
  BY <1>19

(* The last line ends with the file.                                       *)
LEMMA LastIsDone ==
  ASSUME TInv, Begun, ReadLineMore, LastLine, out # <<>>, MetTheEnd', UNCHANGED texts,
         UNCHANGED <<tell, out>>
  PROVE  \E s \in TextStart' : LineDone(s)'
<1>1. /\ pc = "more" /\ pc \in {"body", "more"} /\ call.op \in Lines /\ call.op # "seek"
      /\ UNCHANGED <<content, size, grown, fd, call>>
  BY DEF ReadLineMore, InLine, texts, world, handle, Lines
<1>2. /\ fd \in Files /\ size[fd] \in Nat /\ tell \in Nat /\ tell <= size[fd]
  <2>1. /\ fd \in Files /\ size[fd] \in Nat /\ file_pos_of_buffer_start \in Nat
        /\ buffer_size \in Nat /\ buffer_pos \in Nat /\ buffer_pos <= buffer_size
        /\ file_pos_of_buffer_start + buffer_size <= size[fd]
    BY <1>1, Working, Numbers2 DEF TInv
  <2>. QED
    BY <2>1 DEF tell
<1>3. PICK s \in TextStart : TakenFrom(s)
  BY <1>1 DEF Begun, Collecting, Looping
<1>4. out = Run(fd, s, Len(out)) /\ s + Len(out) = tell /\ NoneIsDelim(s)
  BY <1>1, <1>3 DEF TakenFrom, Reached
<1>5. PICK n \in Nat : n = Len(out) /\ n >= 1
  BY Numbers DEF TInv, PInv, WInv
<1>6. /\ \A k \in 1 .. n : content[fd][s + k] # call.arg.delim
  BY <1>4, <1>5 DEF NoneIsDelim
<1>7. content[fd][s + n] # call.arg.delim /\ \A k \in 1 .. n - 1 : content[fd][s + k] # call.arg.delim
  BY <1>5, <1>6
<1>8. n \in {n - 1, n} /\ n # n - 1 /\ out' = Run(fd, s, n) /\ s + n <= size[fd] /\ tell' = s + n
  BY <1>2, <1>4, <1>5
<1>9. s \in TextStart' /\ LineDone(s)'
  BY <1>1, <1>2, <1>5, <1>7, <1>8, LineIsDone
<1>. QED
  BY <1>9

LEMMA LineStays ==
  ASSUME NEW s \in TextStart, LineDone(s), SameWhole, MetTheEnd => MetTheEnd'
  PROVE  s \in TextStart' /\ LineDone(s)'
<1>1. UNCHANGED <<content, call, out, fd, tell>> /\ s \in TextStart'
  BY DEF SameWhole
<1>2. Result' = Result
  BY <1>1 DEF Result, Values
<1>3. FileBytes(s, tell)' = FileBytes(s, tell)
  BY <1>1 DEF FileBytes
<1>4. ASSUME NEW raw PROVE Expected(raw)' = Expected(raw)
  BY <1>1 DEF Expected, LineText
<1>5. Expected(FileBytes(s, tell))' = Expected(FileBytes(s, tell))
  BY <1>1, <1>3 DEF Expected, LineText
<1>. QED
  BY <1>1, <1>2, <1>3, <1>5 DEF LineDone

LEMMA NextLineIsNext == Texted /\ LineIsNext /\ [TextNext]_textVars => LineIsNext'
<1> SUFFICES ASSUME Texted, LineIsNext, [TextNext]_textVars, Returned(Lines, "ok")'
             PROVE  \/ \E s \in TextStart' : LineDone(s)'
                    \/ call'.op = "read_line_reae" /\ out' = <<>> /\ tell' = call'.start
  BY DEF LineIsNext, LineDone, Expected
<1>1. TInv /\ Begun /\ OpenWhenRead
  BY DEF Texted
<1>2. /\ pc' = "ret" /\ call'.op \in Lines /\ outcome' = "ok" /\ ~torn' /\ outcome' \in Plain
      /\ Returned(Reads, "ok")'
  BY DEF Returned, Reads, Plain
<1>3. CASE Returned(Reads, "ok") /\ (TextWorld \/ UNCHANGED textVars)
  <2>1. /\ pc = "ret" /\ fd \in Files /\ UNCHANGED <<tell, call, out, outcome, torn, fd>>
        /\ (MetTheEnd => MetTheEnd')
    BY <1>1, <1>3, SeenStill DEF Returned, OpenWhenRead
  <2>2. UNCHANGED content /\ Contents'
    BY <1>1, <1>3, WorldMoves, NextContents
  <2>3. TextStart \subseteq TextStart'
    BY <1>1, <1>3, <2>1, <2>2, StartsStay
  <2>4. SameWhole
    BY <2>1, <2>2, <2>3 DEF SameWhole
  <2>5. Returned(Lines, "ok")
    BY <1>2, <2>1 DEF Returned
  <2>6. \/ \E s \in TextStart : LineDone(s)
        \/ call.op = "read_line_reae" /\ out = <<>> /\ tell = call.start
    BY <2>5 DEF LineIsNext, LineDone, Expected
  <2>. QED
    BY <2>1, <2>4, <2>6, LineStays
<1>4. CASE ReadLineBody \/ ReadLineMore
  <2>1. Inside'
    BY <1>1, TextNextPInv DEF PInv
  <2>2. UNCHANGED texts
    BY <1>4 DEF ReadLineBody, ReadLineMore, InLine
  <2>3. CASE pc = "body" /\ NoLine /\ out = <<>> /\ tell = call.start
    BY <1>1, <1>2, <1>4, <2>1, <2>3, ThrowsAtTheEnd
  <2>4. CASE pc = "more" /\ LastLine /\ out # <<>> /\ MetTheEnd
    <3>1. MetTheEnd' /\ UNCHANGED <<tell, out>>
      BY <1>1, <1>4, <2>1, <2>4, ThrowsAtTheEnd
    <3>2. ReadLineMore
      BY <1>4, <2>4 DEF ReadLineBody
    <3>. QED
      BY <1>1, <2>2, <2>4, <3>1, <3>2, LastIsDone
  <2>5. ASSUME NEW p \in Nat, NEW i \in Nat, p <= i, i < buffer_size,
               ScansFrom(p),
               pc = "body" => ~(no_data \/ BomOnly), pc = "more" => ~no_data,
               i \in Found(p), \A j \in p .. i - 1 : j \notin Found(p),
               out' = out \o Between(p, i + IF KeepDelim THEN 1 ELSE 0),
               buffer_pos' = i + 1, UNCHANGED window
        PROVE  \E s \in TextStart' : LineDone(s)'
    BY <1>1, <1>4, <2>2, <2>5, LineFound
  <2>. QED
    BY <1>1, <1>2, <1>4, <2>3, <2>4, <2>5, LineEnds DEF ScansFrom
<1>. QED
  BY <1>1, <1>2, <1>3, <1>4, ReadsAnswered DEF Lines

(* A line is what follows up to the first delimiter, or up to the end,     *)
(* wherever the buffers end, and the position is behind it                 *)
(* (IFile.hpp:301-389).                                                    *)
THEOREM LinesAreNext == OneFile /\ TextSpec => []LineIsNext
<1>1. TextInit => LineIsNext
  BY DEF TextInit, Init, LineIsNext, Returned
<1>. QED
  BY <1>1, InitTexted, NextTexted, NextLineIsNext, PTL DEF TextSpec

-----------------------------------------------------------------------------
(* Characters.                                                             *)

(* The first byte at s calls for so many.                                  *)
CharLength(s) == 1 + Trailing(content[fd][s + 1])

Taken(s) ==
  /\ out = Run(fd, s, Len(out)) /\ tell = s + Len(out) /\ tell <= size[fd]
  /\ Len(out) = CharLength(s)

CharTaken == Returned({"read_char"}, "ok") => fd \in Files /\ \E s \in TextStart : Taken(s)

Missed(s) ==
  StuckBeforeBom \/ (MetTheEnd /\ (tell > s => tell <= size[fd] /\ s + CharLength(s) > tell))

CharMissed ==
  Returned({"read_char"}, "UnexpectedEOF") => fd \in Files /\ \E s \in TextStart : Missed(s)

(* Only decode() refuses a character, and it comes after the call.         *)
Undecoded == outcome # "IFileUnicodeDecodeError"

CharSeen == CharTaken /\ CharMissed /\ Undecoded

LEMMA CharsSeen == ASSUME TInv, CharSeen PROVE CharsAreExact
<1> SUFFICES ASSUME ~torn, pc = "ret", call.op = "read_char", fd # NoFile
             PROVE  \E s \in TextStart :
                      LET rest == FileBytes(s, size[fd])
                          n    == 1 + Trailing(rest[1])
                      IN  CASE TextOutcome = "ok" -> WellFormed(FileBytes(s, tell)) /\ tell = s + Len(out)
                            [] TextOutcome = "IFileUnicodeDecodeError" ->
                                 /\ tell = s + n
                                 /\ \A k \in 1 .. 4 : k <= Len(rest) => ~WellFormed(SubSeq(rest, 1, k))
                            [] TextOutcome = "UnexpectedEOF" ->
                                 StuckBeforeBom \/ (MetTheEnd /\ (tell > s => s + n > tell))
                            [] OTHER -> TRUE
  BY DEF CharsAreExact, Returned
<1>1. /\ fd \in Files /\ Contents /\ size[fd] \in Nat /\ tell \in Nat
      /\ out \in Seq(Byte) /\ Len(out) \in Nat
  BY Numbers, Numbers2 DEF TInv, PInv, WInv, Placed
<1>2. TextStart \subseteq Nat /\ TextStart # {}
  BY StartsAre
<1>3. CASE outcome = "ok"
  <2>1. PICK s \in TextStart : Taken(s)
    BY <1>3 DEF CharSeen, CharTaken, Returned
  <2>2. /\ s \in Nat /\ out = Run(fd, s, Len(out)) /\ s + Len(out) = tell /\ tell <= size[fd]
        /\ Len(out) = CharLength(s)
    BY <1>2, <2>1 DEF Taken
  <2>3. Values(out) = FileBytes(s, tell) /\ s <= tell
    BY <1>1, <2>2, TextOut
  <2>4. PICK n \in Nat : n = Len(out) /\ n = CharLength(s)
    BY <1>1, <2>2
  <2>5. n >= 1
    BY <2>4, TrailingIsFew DEF CharLength
  <2>6. PICK rest \in Seq(Octets) : rest = FileBytes(s, size[fd]) /\ Len(rest) = size[fd] - s
                            /\ \A k \in 1 .. size[fd] - s : rest[k] = content[fd][s + k]
    <3>1. PICK z \in Nat : z = size[fd]
      BY <1>1
    <3>2. s <= z /\ z <= size[fd]
      BY <1>1, <2>2, <2>3, <3>1
    <3>3. /\ FileBytes(s, z) \in Seq(Octets) /\ Len(FileBytes(s, z)) = z - s
          /\ \A k \in 1 .. z - s : FileBytes(s, z)[k] = content[fd][s + k]
      BY <1>1, <2>2, <3>2, PartOfFile
    <3>. QED
      BY <3>1, <3>3
  <2>7. n \in 1 .. Len(rest) /\ 1 \in 1 .. size[fd] - s
    BY <1>1, <2>2, <2>4, <2>5, <2>6
  <2>8. n = 1 + Trailing(rest[1])
    BY <2>4, <2>6, <2>7 DEF CharLength
  <2>9. SubSeq(rest, 1, n) = FileBytes(s, tell)
    <3>1. PICK e \in Nat : e = tell
      BY <1>1
    <3>2. PICK t \in Seq(Octets) : t = FileBytes(s, e) /\ Len(t) = e - s
                            /\ \A k \in 1 .. e - s : t[k] = content[fd][s + k]
      <4>1. s <= e /\ e <= size[fd]
        BY <2>2, <2>3, <3>1
      <4>2. /\ FileBytes(s, e) \in Seq(Octets) /\ Len(FileBytes(s, e)) = e - s
            /\ \A k \in 1 .. e - s : FileBytes(s, e)[k] = content[fd][s + k]
        BY <1>1, <2>2, <4>1, PartOfFile
      <4>. QED
        BY <4>2
    <3>3. PICK f : f = SubSeq(rest, 1, n)
      OBVIOUS
    <3>4. f \in Seq(Octets) /\ Len(f) = n /\ \A k \in 1 .. n : f[k] = rest[k]
      BY <2>7, <3>3, FirstOf
    <3>5. e - s = n /\ n <= size[fd] - s
      BY <1>1, <2>2, <2>4, <3>1
    <3>6. \A k \in 1 .. n : f[k] = t[k]
      <4> SUFFICES ASSUME NEW k \in 1 .. n PROVE f[k] = t[k]
        OBVIOUS
      <4>1. k \in 1 .. size[fd] - s /\ k \in 1 .. e - s
        BY <1>1, <2>2, <3>5
      <4>. QED
        BY <2>6, <3>2, <3>4, <4>1
    <3>7. f = t
      BY <3>2, <3>4, <3>5, <3>6, SeqEqual
    <3>. QED
      BY <3>1, <3>2, <3>3, <3>7
  <2>10. PICK c : c = SubSeq(rest, 1, n)
    OBVIOUS
  <2>11. /\ decode8(c).ok <=> WellFormed(c)
         /\ ~decode8(c).ok => \A k \in 1 .. 4 : k <= Len(rest) => ~WellFormed(SubSeq(rest, 1, k))
    BY <2>7, <2>8, <2>10, CharIs
  <2>12. TextOutcome = IF decode8(c).ok THEN "ok" ELSE "IFileUnicodeDecodeError"
    BY <1>3, <2>3, <2>9, <2>10 DEF TextOutcome
  <2>13. tell = s + Len(out) /\ tell = s + (1 + Trailing(rest[1]))
    BY <2>2, <2>4, <2>8
  <2>14. CASE decode8(c).ok
    <3>1. TextOutcome = "ok" /\ WellFormed(FileBytes(s, tell)) /\ tell = s + Len(out)
      BY <2>9, <2>10, <2>11, <2>12, <2>13, <2>14
    <3>. QED
      BY <2>1, <3>1
  <2>15. CASE ~decode8(c).ok
    <3>1. /\ TextOutcome = "IFileUnicodeDecodeError" /\ tell = s + (1 + Trailing(FileBytes(s, size[fd])[1]))
          /\ \A k \in 1 .. 4 : k <= Len(FileBytes(s, size[fd]))
                                 => ~WellFormed(SubSeq(FileBytes(s, size[fd]), 1, k))
      BY <2>6, <2>11, <2>12, <2>13, <2>15
    <3>. QED
      BY <2>1, <3>1
  <2>. QED
    BY <2>14, <2>15
<1>4. CASE outcome = "UnexpectedEOF"
  <2>1. PICK s \in TextStart : Missed(s)
    BY <1>4 DEF CharSeen, CharMissed, Returned
  <2>2. TextOutcome = "UnexpectedEOF"
    BY <1>4 DEF TextOutcome
  <2>3. ASSUME MetTheEnd, tell > s, tell <= size[fd], s + CharLength(s) > tell
        PROVE  s + (1 + Trailing(FileBytes(s, size[fd])[1])) > tell
    <3>1. s \in Nat /\ s <= size[fd] /\ 1 \in 1 .. size[fd] - s
      BY <1>1, <1>2, <2>3
    <3>3. PICK z \in Nat : z = size[fd]
      BY <1>1
    <3>4. s <= z /\ z <= size[fd] /\ 1 \in 1 .. z - s
      BY <3>1, <3>3
    <3>5. \A k \in 1 .. z - s : FileBytes(s, z)[k] = content[fd][s + k]
      BY <1>1, <3>1, <3>4, PartOfFile
    <3>2. FileBytes(s, size[fd])[1] = content[fd][s + 1]
      BY <3>3, <3>4, <3>5
    <3>. QED
      BY <2>3, <3>2 DEF CharLength
  <2>4. StuckBeforeBom \/ (MetTheEnd /\ (tell > s => s + (1 + Trailing(FileBytes(s, size[fd])[1])) > tell))
    BY <2>1, <2>3 DEF Missed
  <2>. QED
    BY <2>1, <2>2, <2>4
<1>5. CASE outcome \notin {"ok", "UnexpectedEOF"}
  <2>1. TextOutcome \notin {"ok", "UnexpectedEOF", "IFileUnicodeDecodeError"}
    BY <1>5 DEF TextOutcome, CharSeen, Undecoded
  <2>2. PICK s \in TextStart : TRUE
    BY <1>2
  <2>. QED
    BY <2>1, <2>2
<1>. QED
  BY <1>3, <1>4, <1>5

LEMMA NextUndecoded == Undecoded /\ [TextNext]_textVars => Undecoded'
<1> SUFFICES ASSUME Undecoded, [TextNext]_textVars PROVE Undecoded'
  OBVIOUS
<1>1. FileSizeError # "IFileUnicodeDecodeError"
  BY DEF FileSizeError
<1>2. CASE TextWorld \/ UNCHANGED textVars
  BY <1>2 DEF TextWorld, World, textVars, vars, frame, Undecoded
<1>3. ASSUME NEW next, NEW bp, NEW at_end, HasNoDataLeft(next, bp, at_end) PROVE Undecoded'
  BY <1>3 DEF HasNoDataLeft, FhRead, Finish, Undecoded
<1>4. ASSUME NEW op, NEW arg, NEW loop, CallAtEof(op, arg, loop) PROVE Undecoded'
  BY <1>3, <1>4 DEF CallAtEof, AtEof, Undecoded
<1>5. CASE TextCall
  <2>1. ReadTextToEnd \/ ReadALine \/ ReadChar => Undecoded'
    BY <1>4 DEF ReadTextToEnd, ReadALine, ReadLine, ReadLineReae, ReadUntil, ReadChar
  <2>2. ASSUME NEW s, StartsWith(s) PROVE Undecoded'
    BY <1>4, <2>2 DEF StartsWith, Throw, Finish, Undecoded
  <2>3. GetLastWriteTime => Undecoded'
    BY <1>1 DEF GetLastWriteTime, Throw, Finish, Undecoded
  <2>4. ReadText => Undecoded'
    BY <1>1, <1>3 DEF ReadText, ReadWhole, FhRead, Throw, Finish, Undecoded
  <2>. QED
    BY <1>5, <2>1, <2>2, <2>3, <2>4 DEF TextCall
<1>6. CASE ByteCall \/ Recovery
  <2>1. ASSUME NEW p, Seek(p) PROVE Undecoded'
    <3>1. SeekNegative(p) \/ SeekWithinBuffer(p) => Undecoded'
      BY DEF SeekNegative, SeekWithinBuffer, Throw, Finish, Undecoded
    <3>2. SeekForward(p) \/ SeekAndRefill(p) => Undecoded'
      BY <1>3 DEF SeekForward, SeekAndRefill, Throw, Finish, Undecoded
    <3>3. SeekOutsideBuffer(p) => Undecoded'
      BY <1>1, <3>2 DEF SeekOutsideBuffer, Throw, Finish, Undecoded
    <3>. QED
      BY <2>1, <3>1, <3>3 DEF Seek
  <2>2. Close \/ (\E f \in Files : Open(f)) => Undecoded'
    BY DEF Close, Open, Throw, Finish, Undecoded
  <2>. QED
    BY <1>4, <1>6, <2>1, <2>2 DEF ByteCall, Recovery, AtEofCall, ReadByte
<1>7. CASE Step
  <2>1. ReadIntoBuffer \/ ReadIntoCaller \/ ReadFails \/ FillReturn \/ RefillReturn => Undecoded'
    BY DEF ReadIntoBuffer, ReadIntoCaller, ReadFails, FillReturn, RefillReturn, frame, Finish, Undecoded
  <2>2. BulkReturn \/ WholeReturn \/ AtEofReturn \/ ByteReturn \/ Take => Undecoded'
    BY DEF BulkReturn, WholeReturn, AtEofReturn, ByteReturn, Take, Throw, Finish, Undecoded
  <2>3. CopyThenRefill \/ DrainThenRefill => Undecoded'
    BY <1>3 DEF CopyThenRefill, DrainThenRefill, Finish, Undecoded
  <2>4. ReadBytesBody \/ ReadBytesMore => Undecoded'
    BY <2>3 DEF ReadBytesBody, ReadBytesMore, LargeRead, FhRead, Throw, Finish, Undecoded
  <2>5. ReadBytesAtMostBody \/ ReadBytesAtMostMore \/ DrainMore => Undecoded'
    BY <2>3 DEF ReadBytesAtMostBody, ReadBytesAtMostMore, DrainMore, Throw, Finish, Undecoded
  <2>6. SeekMore => Undecoded'
    BY <1>3 DEF SeekMore, Throw, Finish, Undecoded
  <2>. QED
    BY <1>7, <2>1, <2>2, <2>4, <2>5, <2>6 DEF Step
<1>8. CASE TextStep /\ ~Step
  <2>1. ReadTextBody \/ ReadTextToEndBody \/ StartsWithBody => Undecoded'
    BY <1>3 DEF ReadTextBody, ReadTextToEndBody, StartsWithBody, SkipThenDrain, Throw, Finish, Undecoded
  <2>2. ASSUME NEW p, Scan(p) PROVE Undecoded'
    BY <1>3, <2>2 DEF Scan, Finish, Undecoded
  <2>3. NoLine \/ LastLine => Undecoded'
    BY DEF NoLine, LastLine, Throw, Finish, Undecoded
  <2>4. ReadLineBody \/ ReadLineMore => Undecoded'
    BY <2>2, <2>3 DEF ReadLineBody, ReadLineMore
  <2>5. ReadCharBody => Undecoded'
    BY <1>3 DEF ReadCharBody, Throw, Finish, Undecoded
  <2>. QED
    BY <1>8, <2>1, <2>4, <2>5 DEF TextStep
<1>. QED
  BY <1>2, <1>5, <1>6, <1>7, <1>8 DEF TextNext, TextStep

(* What a character is when another process has written.                   *)
LEMMA CharsStay ==
  ASSUME TInv, CharTaken, CharMissed, pc = "ret", TextWorld \/ UNCHANGED textVars
  PROVE  CharTaken' /\ CharMissed'
<1>1. /\ UNCHANGED <<tell, call, out, outcome, torn, fd, content, pc>>
      /\ (MetTheEnd => MetTheEnd') /\ (StuckBeforeBom => StuckBeforeBom')
  BY SeenStill, WorldMoves DEF frame
<1>2. Contents'
  <2>1. [TextNext]_textVars
    BY DEF TextNext
  <2>. QED
    BY <2>1, NextContents
<1>3. ASSUME fd \in Files
      PROVE  /\ TextStart \subseteq TextStart' /\ size[fd] \in Nat /\ size'[fd] \in Nat
             /\ size[fd] <= size'[fd] /\ tell \in Nat
  BY <1>2, <1>3, StartsStay, WorldMoves, Numbers DEF TInv, PInv, WInv
<1>4. ASSUME fd \in Files, NEW s, Taken(s) PROVE Taken(s)'
  <2>1. tell' <= size'[fd']
    BY <1>1, <1>3, <1>4 DEF Taken
  <2>2. CharLength(s)' = CharLength(s)
    BY <1>1 DEF CharLength
  <2>. QED
    BY <1>1, <1>4, <2>1, <2>2 DEF Taken
<1>5. ASSUME fd \in Files, NEW s, Missed(s) PROVE Missed(s)'
  <2>1. tell <= size[fd] => tell' <= size'[fd']
    BY <1>1, <1>3, <1>5
  <2>2. CharLength(s)' = CharLength(s)
    BY <1>1 DEF CharLength
  <2>. QED
    BY <1>1, <1>5, <2>1, <2>2 DEF Missed
<1>6. \A o : Returned({"read_char"}, o)' => Returned({"read_char"}, o)
  BY <1>1 DEF Returned
<1>7. CharTaken'
  <2> SUFFICES ASSUME Returned({"read_char"}, "ok")'
               PROVE  fd' \in Files /\ \E s \in TextStart' : Taken(s)'
    BY DEF CharTaken
  <2>1. fd \in Files /\ \E s \in TextStart : Taken(s)
    BY <1>6 DEF CharTaken
  <2>. QED
    BY <1>1, <1>3, <1>4, <2>1
<1>8. CharMissed'
  <2> SUFFICES ASSUME Returned({"read_char"}, "UnexpectedEOF")'
               PROVE  fd' \in Files /\ \E s \in TextStart' : Missed(s)'
    BY DEF CharMissed
  <2>1. fd \in Files /\ \E s \in TextStart : Missed(s)
    BY <1>6 DEF CharMissed
  <2>. QED
    BY <1>1, <1>3, <1>5, <2>1
<1>. QED
  BY <1>7, <1>8

(* Nothing is left, or a lone BOM, when the call begins.                   *)
LEMMA NoChar ==
  ASSUME TInv, ReadCharBody, pc' = "ret", outcome' \in Plain
  PROVE  outcome' = "UnexpectedEOF" /\ fd' \in Files /\ \E s \in TextStart' : Missed(s)'
<1>1. /\ pc = "body" /\ call.op # "seek" /\ call.loop # "exact"
      /\ no_data \/ BomOnly
      /\ Throw("UnexpectedEOF") /\ UNCHANGED call
  BY DEF ReadCharBody, HasNoDataLeft, FhRead, Finish, Plain
<1>2. UNCHANGED <<fd, content, size, grown, buffer, is_eof_reached, lost>>
  BY DEF ReadCharBody, texts, world, handle, flags
<1>3. /\ (MetTheEnd' <=> MetTheEnd) /\ (StuckBeforeBom' <=> StuckBeforeBom)
      /\ UNCHANGED tell /\ outcome' = "UnexpectedEOF"
  BY <1>1, <1>2, ThrowKeeps
<1>4. TextStart' = TextStart /\ fd' \in Files
  BY <1>1, <1>2, StartsSame, Working
<1>5. CASE no_data
  <2>1. tell \in TextStart /\ MetTheEnd /\ tell \in Nat
    BY <1>1, <1>5, NothingBegins, EndIsMet, StartsAre
  <2>2. ~(tell' > tell)
    BY <1>3, <2>1
  <2>3. MetTheEnd' /\ tell \in TextStart'
    BY <1>3, <1>4, <2>1
  <2>4. \E s \in TextStart' : MetTheEnd' /\ ~(tell' > s)
    BY <2>2, <2>3
  <2>. QED
    BY <1>3, <1>4, <2>4 DEF Missed
<1>6. CASE BomOnly
  <2>1. StuckBeforeBom'
    BY <1>1, <1>3, <1>6, OnlyBom
  <2>2. TextStart' # {}
    BY <1>4, StartsAre
  <2>. QED
    BY <1>3, <1>4, <2>1, <2>2 DEF Missed
<1>. QED
  BY <1>1, <1>5, <1>6

(* All its bytes are there, or not.                                        *)
LEMMA RestOfChar ==
  ASSUME TInv, Begun, ReadBytesBody \/ ReadBytesMore, UNCHANGED texts, pc' = "ret", outcome' \in Plain
  PROVE  /\ fd' \in Files
         /\ \/ outcome' = "ok" /\ \E s \in TextStart' : Taken(s)'
            \/ outcome' = "UnexpectedEOF" /\ \E s \in TextStart' : Missed(s)'
<1>1. /\ pc \in {"body", "more"} /\ call.op = "read_char" /\ call.op # "seek" /\ call.loop = "exact"
      /\ UNCHANGED <<content, size, grown, fd, call, lost, is_eof_reached, buffer>>
  BY CopiesSome DEF texts, world, flags
<1>2. PICK s \in TextStart : TakenFrom(s) /\ s \in Nat /\ s + Len(out) = tell
  BY CopiesSome
<1>3. /\ out = Run(fd, s, Len(out)) /\ Len(out) >= 1 /\ Len(out) + left = CharLength(s)
  BY <1>1, <1>2 DEF TakenFrom, CharGoesOn, CharLength
<1>4. TextStart' = TextStart /\ s \in TextStart'
  BY <1>1, <1>2, StartsSame
<1>5. /\ fd \in Files /\ size[fd] \in Nat /\ file_pos_of_buffer_start \in Nat
      /\ buffer_size \in Nat /\ buffer_pos \in Nat /\ buffer_pos <= buffer_size
      /\ file_pos_of_buffer_start + buffer_size <= size[fd] /\ left \in Nat /\ Len(out) \in Nat
  BY <1>1, Working, Numbers, Numbers2 DEF TInv, PInv, WInv
<1>6. CharLength(s)' = CharLength(s)
  BY <1>1 DEF CharLength
<1>7. CASE no_data /\ left # 0 /\ Throw("UnexpectedEOF")
  <2>1. MetTheEnd' /\ UNCHANGED tell /\ outcome' = "UnexpectedEOF"
    BY <1>1, <1>7, EndIsMet, ThrowKeeps
  <2>2. tell <= size[fd] /\ s + CharLength(s) > tell
    BY <1>2, <1>3, <1>5, <1>7 DEF tell
  <2>3. tell' <= size'[fd'] /\ s + CharLength(s)' > tell'
    BY <1>1, <1>6, <2>1, <2>2
  <2>. QED
    BY <1>1, <1>4, <1>5, <2>1, <2>3 DEF Missed
<1>8. ASSUME NEW n \in Nat, n <= left, buffer_pos + n <= buffer_size,
             out' = out \o Between(buffer_pos, buffer_pos + n),
             left = n, buffer_pos' = buffer_pos + n, Finish("ok"), UNCHANGED window
      PROVE  outcome' = "ok" /\ \E t \in TextStart' : Taken(t)'
  <2>1. PICK b \in Nat : b = buffer_pos + n
    BY <1>5, <1>8
  <2>2. PICK l \in Nat : l = Len(out)
    BY <1>5
  <2>3. buffer_pos <= b /\ b <= buffer_size /\ b - buffer_pos = n
    BY <1>5, <1>8, <2>1
  <2>4. s + l = file_pos_of_buffer_start + buffer_pos
    BY <1>2, <2>2 DEF tell
  <2>5. out \o Between(buffer_pos, b) = Run(fd, s, l + (b - buffer_pos))
    <3>1. out = Run(fd, s, l) /\ s \in Nat /\ pc \in {"body", "more"} /\ call.op # "seek"
      BY <1>1, <1>2, <1>3, <2>2
    <3>2. buffer_pos \in Nat
      BY <1>5
    <3>. QED
      BY <2>3, <2>4, <3>1, <3>2, TakesRun
  <2>6. PICK m \in Nat : m = l + n
    BY <1>8, <2>2
  <2>7. out' = Run(fd', s, m)
    BY <1>1, <1>8, <2>1, <2>3, <2>5, <2>6
  <2>8. Len(out') = m
    <3>1. Len(Run(fd', s, m)) = m
      BY <1>2, RunType
    <3>. QED
      BY <2>7, <3>1
  <2>9. tell' = s + m
    <3>1. tell' = file_pos_of_buffer_start + (buffer_pos + n)
      BY <1>8 DEF tell, window
    <3>. QED
      BY <1>2, <1>5, <1>8, <2>4, <2>6, <3>1
  <2>10. tell' <= size'[fd']
    <3>1. tell' = file_pos_of_buffer_start + b
      BY <1>8, <2>1 DEF tell, window
    <3>. QED
      BY <1>1, <1>5, <2>3, <3>1
  <2>11. m = CharLength(s)'
    BY <1>3, <1>6, <1>8, <2>2, <2>6
  <2>12. Taken(s)'
    BY <2>7, <2>8, <2>9, <2>10, <2>11 DEF Taken
  <2>. QED
    BY <1>4, <1>8, <2>12 DEF Finish
<1>9. ASSUME HasNoDataLeft("more", buffer_size, is_eof_reached) PROVE FALSE
  BY <1>9 DEF HasNoDataLeft, FhRead, Finish, Plain
<1>10. \/ no_data /\ left # 0 /\ Throw("UnexpectedEOF")
       \/ \E n \in Nat :
                 /\ n <= left /\ buffer_pos + n <= buffer_size
                 /\ out' = out \o Between(buffer_pos, buffer_pos + n) /\ left' = left - n
                 /\ left = n /\ buffer_pos' = buffer_pos + n /\ Finish("ok") /\ UNCHANGED window
  BY <1>9, CopiesSome
<1>11. (outcome' = "ok" /\ \E t \in TextStart' : Taken(t)')
       \/ (outcome' = "UnexpectedEOF" /\ \E t \in TextStart' : Missed(t)')
  <2>1. no_data /\ left # 0 /\ Throw("UnexpectedEOF") => outcome' = "UnexpectedEOF"
    BY DEF Throw, Finish
  <2>. QED
    BY <1>7, <1>8, <1>10, <2>1
<1>. QED
  BY <1>1, <1>5, <1>11

LEMMA NextCharSeen == TInv /\ Begun /\ CharSeen /\ [TextNext]_textVars => CharSeen'
<1> SUFFICES ASSUME TInv, Begun, CharSeen, [TextNext]_textVars PROVE CharTaken' /\ CharMissed'
  BY NextUndecoded DEF CharSeen
<1>1. CASE pc = "ret" /\ (TextWorld \/ UNCHANGED textVars)
  BY <1>1, CharsStay DEF CharSeen
<1>2. CASE ~Returned({"read_char"}, "ok")' /\ ~Returned({"read_char"}, "UnexpectedEOF")'
  BY <1>2 DEF CharTaken, CharMissed
<1>3. ASSUME ~(pc = "ret" /\ (TextWorld \/ UNCHANGED textVars)),
             Returned({"read_char"}, "ok")' \/ Returned({"read_char"}, "UnexpectedEOF")'
      PROVE  CharTaken' /\ CharMissed'
  <2>1. pc' = "ret" /\ call'.op = "read_char" /\ outcome' \in Plain
    BY <1>3 DEF Returned, Plain
  <2>2. call'.op \in TextOps \ {"get_last_write_time"} /\ call'.op \notin Lines
    BY <2>1 DEF TextOps, Lines
  <2>3. ReadCharBody \/ ReadBytesBody \/ ReadBytesMore
    BY <1>3, <2>1, <2>2, Answering
  <2>4. UNCHANGED texts
    <3>1. pc # "ret"
      BY <2>3 DEF ReadCharBody, ReadBytesBody, ReadBytesMore
    <3>2. ~TextWorld
      BY <2>1, <3>1 DEF TextWorld, World, frame
    <3>. QED
      BY <3>2, OnlyTheWorld
  <2>5. /\ fd' \in Files
        /\ \/ outcome' = "ok" /\ \E s \in TextStart' : Taken(s)'
           \/ outcome' = "UnexpectedEOF" /\ \E s \in TextStart' : Missed(s)'
    BY <2>1, <2>3, <2>4, NoChar, RestOfChar
  <2>. QED
    BY <2>5 DEF CharTaken, CharMissed, Returned
<1>. QED
  BY <1>1, <1>2, <1>3

(* read_char() returns one well-formed character and stands behind it, or  *)
(* says what is wrong with the bytes, whatever they are                    *)
(* (IFile.hpp:391-411).                                                    *)
THEOREM CharsExact == OneFile /\ TextSpec => []CharsAreExact
<1>1. OneFile /\ TextInit => Texted /\ CharSeen
  <2>1. TextInit => CharSeen
    BY DEF TextInit, Init, CharSeen, CharTaken, CharMissed, Undecoded, Returned
  <2>. QED
    BY <2>1, InitTexted
<1>2. Texted /\ CharSeen /\ [TextNext]_textVars => (Texted /\ CharSeen)'
  BY NextTexted, NextCharSeen DEF Texted
<1>3. Texted /\ CharSeen => CharsAreExact
  BY CharsSeen DEF Texted
<1>. QED
  BY <1>1, <1>2, <1>3, PTL DEF TextSpec

=============================================================================
