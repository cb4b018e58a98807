------------------------------ MODULE UtfProofs -----------------------------
(***************************************************************************)
(* Proofs about the characters of a UTF-8 string: the tables and ranges of *)
(* src/utf.hpp against the bits of the standard.  What is said of whole    *)
(* strings and of the texts of a file rests on them.                       *)
(***************************************************************************)
EXTENDS Utf, UtfReference, SequenceTheorems, WellFoundedInduction, TLAPS

-----------------------------------------------------------------------------
(* Induction on numbers, for sets of them.                                 *)

LEMMA LeastNumber ==
  ASSUME NEW S \in SUBSET Nat, S # {}
  PROVE  \E n \in S : \A m \in S : n <= m
<1> DEFINE R == OpToRel(<, Nat)
<1>1. IsWellFoundedOn(R, Nat)
  BY NatLessThanWellFounded
<1>2. \A x, y \in Nat : y < x => <<y, x>> \in R
  BY DEF OpToRel
<1> HIDE DEF R
<1>3. PICK n \in S : \A m \in S : ~ (<<m, n>> \in R)
  BY <1>1, WFMin
<1>4. ASSUME NEW m \in S PROVE n <= m
  <2>1. ~ (<<m, n>> \in R)
    BY <1>3
  <2>. QED
    BY <1>2, <2>1
<1>. QED
  BY <1>4

LEMMA SetInduction ==
  ASSUME NEW S, 0 \in S, \A n \in Nat : n \in S => n + 1 \in S
  PROVE  Nat \subseteq S
<1>1. SUFFICES ASSUME Nat \ S # {} PROVE FALSE
  OBVIOUS
<1>2. PICK n \in Nat \ S : \A m \in Nat \ S : n <= m
  BY <1>1, LeastNumber
<1>3. n - 1 \in Nat /\ n - 1 \notin S
  BY <1>2
<1>. QED
  BY <1>2, <1>3

-----------------------------------------------------------------------------
(* The bytes of a character.  Both sums are functions of at most five      *)
(* values, so that they can be written out.                                *)

Octets == 0 .. \hFF

LEMMA AddToZero == \A b \in Octets : 0 * 64 + b = b
BY DEF Octets

LEMMA AddUpIs ==
  ASSUME NEW s \in Seq(Octets), NEW n \in 1 .. 4, n <= Len(s)
  PROVE  /\ n = 1 => AddUp(s, n) = s[1]
         /\ n = 2 => AddUp(s, n) = s[1] * 64 + s[2]
         /\ n = 3 => AddUp(s, n) = (s[1] * 64 + s[2]) * 64 + s[3]
         /\ n = 4 => AddUp(s, n) = ((s[1] * 64 + s[2]) * 64 + s[3]) * 64 + s[4]
<1> DEFINE ch == CHOOSE ch : ch = [i \in 0 .. n |-> IF i = 0 THEN 0 ELSE ch[i - 1] * 64 + s[i]]
<1>1. \A i \in 1 .. n : s[i] \in Octets
  OBVIOUS
<1>2. \E g : g = [i \in 0 .. n |-> IF i = 0 THEN 0 ELSE g[i - 1] * 64 + s[i]]
  <2> DEFINE a1 == s[1]
             a2 == a1 * 64 + s[2]
             a3 == a2 * 64 + s[3]
             a4 == a3 * 64 + s[4]
             g == [i \in 0 .. n |-> IF i = 0 THEN 0 ELSE IF i = 1 THEN a1 ELSE IF i = 2 THEN a2
                                    ELSE IF i = 3 THEN a3 ELSE a4]
  <2>1. ASSUME NEW i \in 0 .. n PROVE g[i] = IF i = 0 THEN 0 ELSE g[i - 1] * 64 + s[i]
    <3>1. i \in {0, 1, 2, 3, 4} /\ (i >= 1 => s[i] \in Octets)
      BY <1>1
    <3>2. CASE i = 0
      BY <3>2
    <3>3. CASE i = 1
      <4>1. s[1] \in Octets /\ g[0] = 0 /\ g[1] = s[1]
        BY <3>1, <3>3
      <4>2. 0 * 64 + s[1] = s[1]
        BY <4>1, AddToZero
      <4> HIDE DEF g
      <4>. QED
        BY <3>3, <4>1, <4>2
    <3>4. CASE i = 2
      BY <3>4
    <3>5. CASE i = 3
      BY <3>5
    <3>6. CASE i = 4
      BY <3>6
    <3>. QED
      BY <3>1, <3>2, <3>3, <3>4, <3>5, <3>6
  <2>2. g = [i \in 0 .. n |-> IF i = 0 THEN 0 ELSE g[i - 1] * 64 + s[i]]
    <3>1. g = [i \in 0 .. n |-> g[i]]
      OBVIOUS
    <3> HIDE DEF g
    <3>. QED
      BY <2>1, <3>1
  <2>. QED
    BY <2>2
<1>3. ch = [i \in 0 .. n |-> IF i = 0 THEN 0 ELSE ch[i - 1] * 64 + s[i]]
  BY <1>2
<1>4. AddUp(s, n) = ch[n]
  BY Zenon DEF AddUp
<1> HIDE DEF ch
<1>5. \A i \in 1 .. n : ch[i] = ch[i - 1] * 64 + s[i]
  BY <1>3
<1>6. ch[1] = s[1]
  <2>1. ch[0] = 0
    BY <1>3
  <2>2. ch[1] = ch[0] * 64 + s[1] /\ s[1] \in Octets
    BY <1>1, <1>5
  <2>. QED
    BY <2>1, <2>2, AddToZero
<1>7. CASE n = 1
  BY <1>4, <1>6, <1>7
<1>8. CASE n = 2
  BY <1>4, <1>5, <1>6, <1>8
<1>9. CASE n = 3
  <2>1. ch[2] = ch[1] * 64 + s[2] /\ ch[3] = ch[2] * 64 + s[3]
    BY <1>5, <1>9
  <2>. QED
    BY <1>4, <1>6, <1>9, <2>1
<1>10. CASE n = 4
  <2>1. ch[2] = ch[1] * 64 + s[2] /\ ch[3] = ch[2] * 64 + s[3] /\ ch[4] = ch[3] * 64 + s[4]
    BY <1>5, <1>10
  <2>. QED
    BY <1>4, <1>6, <1>10, <2>1
<1>. QED
  BY <1>7, <1>8, <1>9, <1>10

LEMMA PayloadIs ==
  ASSUME NEW s \in Seq(Octets), Len(s) \in 1 .. 4
  PROVE  LET a == s[1] % LeadValues(Len(s)) IN
         /\ Len(s) = 1 => Payload(s) = a
         /\ Len(s) = 2 => Payload(s) = a * 64 + (s[2] % 64)
         /\ Len(s) = 3 => Payload(s) = (a * 64 + (s[2] % 64)) * 64 + (s[3] % 64)
         /\ Len(s) = 4 =>
              Payload(s) = ((a * 64 + (s[2] % 64)) * 64 + (s[3] % 64)) * 64 + (s[4] % 64)
<1> DEFINE n == Len(s)
           a == s[1] % LeadValues(n)
           v == CHOOSE v : v = [i \in 1 .. n |-> IF i = 1 THEN a ELSE v[i - 1] * 64 + (s[i] % 64)]
<1>1. n \in {1, 2, 3, 4}
  OBVIOUS
<1>2. Payload(s) = v[n]
  BY Zenon DEF Payload
<1>3. \E g : g = [i \in 1 .. n |-> IF i = 1 THEN a ELSE g[i - 1] * 64 + (s[i] % 64)]
  <2> HIDE DEF n, a
  <2> DEFINE a2 == a * 64 + (s[2] % 64)
             a3 == a2 * 64 + (s[3] % 64)
             a4 == a3 * 64 + (s[4] % 64)
             g == [i \in 1 .. n |-> IF i = 1 THEN a ELSE IF i = 2 THEN a2
                                    ELSE IF i = 3 THEN a3 ELSE a4]
  <2>1. ASSUME NEW i \in 1 .. n PROVE g[i] = IF i = 1 THEN a ELSE g[i - 1] * 64 + (s[i] % 64)
    <3>1. i \in {1, 2, 3, 4}
      BY <1>1
    <3>2. CASE i = 1
      BY <3>2
    <3>3. CASE i = 2
      BY <1>1, <3>3
    <3>4. CASE i = 3
      BY <1>1, <3>4
    <3>5. CASE i = 4
      BY <1>1, <3>5
    <3>. QED
      BY <3>1, <3>2, <3>3, <3>4, <3>5
  <2>2. g = [i \in 1 .. n |-> IF i = 1 THEN a ELSE g[i - 1] * 64 + (s[i] % 64)]
    <3>1. g = [i \in 1 .. n |-> g[i]]
      OBVIOUS
    <3> HIDE DEF g
    <3>. QED
      BY <2>1, <3>1
  <2>. QED
    BY <2>2
<1> HIDE DEF n, a
<1>4. v = [i \in 1 .. n |-> IF i = 1 THEN a ELSE v[i - 1] * 64 + (s[i] % 64)]
  BY <1>3
<1> HIDE DEF v
<1>5. v[1] = a /\ \A i \in 2 .. n : v[i] = v[i - 1] * 64 + (s[i] % 64)
  BY <1>1, <1>4
<1>6. CASE n = 1
  BY <1>2, <1>5, <1>6 DEF n, a
<1>7. CASE n = 2
  BY <1>2, <1>5, <1>7 DEF n, a
<1>8. CASE n = 3
  <2>1. v[2] = v[1] * 64 + (s[2] % 64) /\ v[3] = v[2] * 64 + (s[3] % 64)
    BY <1>5, <1>8
  <2>. QED
    BY <1>2, <1>5, <1>8, <2>1 DEF n, a
<1>9. CASE n = 4
  <2>1. /\ v[2] = v[1] * 64 + (s[2] % 64) /\ v[3] = v[2] * 64 + (s[3] % 64)
        /\ v[4] = v[3] * 64 + (s[4] % 64)
    BY <1>5, <1>9
  <2>. QED
    BY <1>2, <1>5, <1>9, <2>1 DEF n, a
<1>. QED
  BY <1>1, <1>6, <1>7, <1>8, <1>9

-----------------------------------------------------------------------------
(* UTF-8: the ranges of bytes of utf.hpp are the values of the standard.   *)

TopBits ==
  \A b \in Octets : /\ b \div 64 = 2 <=> b \in \h80 .. \hBF
                    /\ b \in \h80 .. \hBF => b % 64 = b - \h80

LEMMA TopBitsAre == TopBits
BY DEF TopBits, Octets

LEMMA LeadIs ==
  /\ Lead(1) = 0 .. \h7F /\ Lead(2) = \hC0 .. \hDF
  /\ Lead(3) = \hE0 .. \hEF /\ Lead(4) = \hF0 .. \hF7
BY DEF Lead, LeadValues

LEMMA TrailingIs ==
  ASSUME NEW b \in Octets
  PROVE  /\ trailingBytesForUTF8(b) \in 0 .. 5
         /\ trailingBytesForUTF8(b) = 0 <=> b < \hC0
         /\ \A n \in 2 .. 4 : trailingBytesForUTF8(b) = n - 1 <=> b \in Lead(n)
<1>1. trailingBytesForUTF8(b) = IF b < \hC0 THEN 0 ELSE IF b <= \hDF THEN 1
        ELSE IF b <= \hEF THEN 2 ELSE IF b <= \hF7 THEN 3 ELSE IF b <= \hFB THEN 4 ELSE 5
  BY SMT DEF trailingBytesForUTF8, Octets
<1>2. b \in Nat /\ b <= \hFF
  BY DEF Octets
<1> HIDE DEF trailingBytesForUTF8
<1>3. trailingBytesForUTF8(b) = 1 <=> b \in Lead(2)
  BY <1>1, <1>2, LeadIs
<1>4. trailingBytesForUTF8(b) = 2 <=> b \in Lead(3)
  BY <1>1, <1>2, LeadIs
<1>5. trailingBytesForUTF8(b) = 3 <=> b \in Lead(4)
  BY <1>1, <1>2, LeadIs
<1>6. \A n \in 2 .. 4 : n = 2 \/ n = 3 \/ n = 4
  OBVIOUS
<1>. QED
  BY <1>1, <1>2, <1>3, <1>4, <1>5, <1>6

LEMMA ScalarIs ==
  ASSUME NEW v \in Nat
  PROVE  IsScalar(v) <=> v <= \h10FFFF /\ (v < \hD800 \/ v > \hDFFF)
<1>1. MaxChar \in Nat
  BY SMT DEF MaxChar
<1>2. MaxChar = \h10FFFF
  BY SMT DEF MaxChar
<1>3. IsScalar(v) <=> v <= MaxChar /\ v \notin \hD800 .. \hDFFF
  BY SMT, <1>1 DEF IsScalar
<1>4. v \notin \hD800 .. \hDFFF <=> (v < \hD800 \/ v > \hDFFF)
  BY SMT
<1>. QED
  BY SMT, <1>2, <1>3, <1>4

LEMMA LeastIs == Least(1) = 0 /\ Least(2) = \h80 /\ Least(3) = \h800 /\ Least(4) = \h10000
BY SMT DEF Least

LEMMA OffsetsAre ==
  /\ offsetsFromUTF8[1] = 0 /\ offsetsFromUTF8[2] = \h3080
  /\ offsetsFromUTF8[3] = \hE2080 /\ offsetsFromUTF8[4] = \h3C82080
BY SMT DEF offsetsFromUTF8

(* One, two, three and four bytes.                                         *)
LEMMA One ==
  ASSUME NEW a \in Octets
  PROVE  /\ a % 128 \in Nat /\ IsScalar(a % 128)
         /\ a \in Lead(1) => a % 128 = a
         /\ a \in Lead(1) <=> (a < \hC0 /\ a \notin \h80 .. \hC1)
<1>1. a % 128 \in Nat /\ a % 128 < 128
  BY SMT DEF Octets
<1>2. IsScalar(a % 128)
  BY SMT, <1>1, ScalarIs
<1>3. a \in Lead(1) <=> a <= \h7F
  BY SMT, LeadIs DEF Octets
<1>4. a <= \h7F => a % 128 = a
  BY SMT DEF Octets
<1>5. a <= \h7F <=> (a < \hC0 /\ a \notin \h80 .. \hC1)
  BY SMT DEF Octets
<1>. QED
  BY <1>1, <1>2, <1>3, <1>4, <1>5

LEMMA Prefix ==
  ASSUME NEW S, NEW s \in Seq(S), NEW n \in 0 .. Len(s)
  PROVE  /\ SubSeq(s, 1, n) \in Seq(S) /\ Len(SubSeq(s, 1, n)) = n
         /\ \A i \in 1 .. n : SubSeq(s, 1, n)[i] = s[i]
OBVIOUS

(* Well formed by the standard, and legal by utf.hpp, are the same.        *)
AddsTwo(a, b, t, p, sum) ==
  (t = 1 <=> a \in Lead(2)) /\ p = (a % 32) * 64 + (b % 64) /\ sum = a * 64 + b

TwoFine(a, b, t, p, sum) ==
  LET good == a \in Lead(2) /\ b \div 64 = 2 /\ p >= Least(2) /\ IsScalar(p) IN
  /\ good <=> t = 1 /\ SecondByteIsLegal(a, b) /\ a \notin \h80 .. \hC1 /\ a <= \hF4
  /\ good => p \in Nat /\ p = sum - offsetsFromUTF8[2]

LEMMA TwoAgree ==
  ASSUME NEW a \in Octets, NEW b \in Octets,
         NEW t \in 0 .. 5, NEW p \in Int, NEW sum \in Int, AddsTwo(a, b, t, p, sum)
  PROVE  TwoFine(a, b, t, p, sum)
<1>1. /\ t = 1 <=> a \in Lead(2)
      /\ p = (a % 32) * 64 + (b % 64)
      /\ sum = a * 64 + b
  BY DEF AddsTwo
<1>2. b \div 64 = 2 <=> b \in \h80 .. \hBF
  BY TopBitsAre DEF TopBits
<1>3. CASE a \in Lead(2) /\ b \in \h80 .. \hBF
  <2>1. a \in \hC0 .. \hDF /\ a % 32 = a - \hC0
    BY SMT, <1>3, LeadIs
  <2>2. b % 64 = b - \h80
    BY SMT, <1>3
  <2>3. p = a * 64 + b - \h3080 /\ p \in Nat
    BY SMT, <1>1, <1>3, <2>1, <2>2
  <2>4. SecondByteIsLegal(a, b)
    BY SMT, <1>3, <2>1 DEF SecondByteIsLegal
  <2>5. IsScalar(p)
    BY SMT, <1>3, <2>1, <2>3, ScalarIs
  <2>6. p >= Least(2) <=> a >= \hC2
    BY SMT, <1>3, <2>1, <2>3, LeastIs
  <2>7. p = sum - offsetsFromUTF8[2]
    <3>1. p = sum - \h3080
      BY SMT, <1>1, <1>3, <2>1, <2>3
    <3>. QED
      BY SMT, <3>1, OffsetsAre
  <2>8. (p >= Least(2) /\ IsScalar(p)) <=> (SecondByteIsLegal(a, b) /\ a >= \hC2)
    BY Zenon, <2>4, <2>5, <2>6
  <2>9. a >= \hC2 <=> (a \notin \h80 .. \hC1 /\ a <= \hF4)
    BY SMT, <1>3, <2>1
  <2>10. p \in Nat
    BY <2>3
  <2>. QED
    BY Zenon, <1>1, <1>2, <1>3, <2>7, <2>8, <2>9, <2>10 DEF TwoFine
<1>4. CASE ~(a \in Lead(2) /\ b \in \h80 .. \hBF)
  <2>1. SecondByteIsLegal(a, b) => b \in \h80 .. \hBF
    BY DEF SecondByteIsLegal
  <2>. QED
    BY Zenon, <1>1, <1>2, <1>4, <2>1 DEF TwoFine
<1>. QED
  BY <1>3, <1>4

AddsThree(a, b, c, t, p, sum) ==
  /\ t = 2 <=> a \in Lead(3)
  /\ p = ((a % 16) * 64 + (b % 64)) * 64 + (c % 64)
  /\ sum = (a * 64 + b) * 64 + c

ThreeFine(a, b, c, t, p, sum) ==
  LET good == /\ a \in Lead(3) /\ b \div 64 = 2 /\ c \div 64 = 2
              /\ p >= Least(3) /\ IsScalar(p) IN
  /\ good <=> /\ t = 2 /\ c \in \h80 .. \hBF /\ SecondByteIsLegal(a, b)
              /\ a \notin \h80 .. \hC1 /\ a <= \hF4
  /\ good => p \in Nat /\ p = sum - offsetsFromUTF8[3]

LEMMA ThreeAgree ==
  ASSUME NEW a \in Octets, NEW b \in Octets, NEW c \in Octets,
         NEW t \in 0 .. 5, NEW p \in Int, NEW sum \in Int, AddsThree(a, b, c, t, p, sum)
  PROVE  ThreeFine(a, b, c, t, p, sum)
<1>1. /\ t = 2 <=> a \in Lead(3)
      /\ p = ((a % 16) * 64 + (b % 64)) * 64 + (c % 64)
      /\ sum = (a * 64 + b) * 64 + c
  BY DEF AddsThree
<1>2. /\ b \div 64 = 2 <=> b \in \h80 .. \hBF
      /\ c \div 64 = 2 <=> c \in \h80 .. \hBF
  BY TopBitsAre DEF TopBits
<1>3. CASE a \in Lead(3) /\ b \in \h80 .. \hBF /\ c \in \h80 .. \hBF
  <2>1. a \in \hE0 .. \hEF /\ a % 16 = a - \hE0
    BY SMT, <1>3, LeadIs
  <2>2. b % 64 = b - \h80 /\ c % 64 = c - \h80
    BY SMT, <1>3
  <2>3. p = (a * 64 + b) * 64 + c - \hE2080 /\ p \in Nat
    BY SMT, <1>1, <1>3, <2>1, <2>2
  <2>4. p >= Least(3) <=> (a > \hE0 \/ b >= \hA0)
    BY SMT, <1>3, <2>1, <2>3, LeastIs
  <2>5. IsScalar(p) <=> ~(a = \hED /\ b > \h9F)
    BY SMT, <1>3, <2>1, <2>3, ScalarIs
  <2>6. SecondByteIsLegal(a, b) <=> ((a > \hE0 \/ b >= \hA0) /\ ~(a = \hED /\ b > \h9F))
    BY SMT, <1>3, <2>1 DEF SecondByteIsLegal
  <2>7. p = sum - offsetsFromUTF8[3]
    <3>1. p = sum - \hE2080
      BY SMT, <1>1, <1>3, <2>1, <2>3
    <3>. QED
      BY SMT, <3>1, OffsetsAre
  <2>8. (p >= Least(3) /\ IsScalar(p)) <=> SecondByteIsLegal(a, b)
    BY Zenon, <2>4, <2>5, <2>6
  <2>9. a \notin \h80 .. \hC1 /\ a <= \hF4
    BY SMT, <1>3, <2>1
  <2>10. p \in Nat
    BY <2>3
  <2>. QED
    BY Zenon, <1>1, <1>2, <1>3, <2>7, <2>8, <2>9, <2>10 DEF ThreeFine
<1>4. CASE ~(a \in Lead(3) /\ b \in \h80 .. \hBF /\ c \in \h80 .. \hBF)
  <2>1. SecondByteIsLegal(a, b) => b \in \h80 .. \hBF
    BY DEF SecondByteIsLegal
  <2>. QED
    BY Zenon, <1>1, <1>2, <1>4, <2>1 DEF ThreeFine
<1>. QED
  BY <1>3, <1>4

AddsFour(a, b, c, d, t, p, sum) ==
  /\ t = 3 <=> a \in Lead(4)
  /\ p = (((a % 8) * 64 + (b % 64)) * 64 + (c % 64)) * 64 + (d % 64)
  /\ sum = ((a * 64 + b) * 64 + c) * 64 + d

FourFine(a, b, c, d, t, p, sum) ==
  LET good == /\ a \in Lead(4) /\ b \div 64 = 2 /\ c \div 64 = 2 /\ d \div 64 = 2
              /\ p >= Least(4) /\ IsScalar(p) IN
  /\ good <=> /\ t = 3 /\ c \in \h80 .. \hBF /\ d \in \h80 .. \hBF
              /\ SecondByteIsLegal(a, b) /\ a \notin \h80 .. \hC1 /\ a <= \hF4
  /\ good => p \in Nat /\ p = sum - offsetsFromUTF8[4]

LEMMA FourAgree ==
  ASSUME NEW a \in Octets, NEW b \in Octets, NEW c \in Octets, NEW d \in Octets,
         NEW t \in 0 .. 5, NEW p \in Int, NEW sum \in Int, AddsFour(a, b, c, d, t, p, sum)
  PROVE  FourFine(a, b, c, d, t, p, sum)
<1>1. /\ t = 3 <=> a \in Lead(4)
      /\ p = (((a % 8) * 64 + (b % 64)) * 64 + (c % 64)) * 64 + (d % 64)
      /\ sum = ((a * 64 + b) * 64 + c) * 64 + d
  BY DEF AddsFour
<1>2. /\ b \div 64 = 2 <=> b \in \h80 .. \hBF
      /\ c \div 64 = 2 <=> c \in \h80 .. \hBF
      /\ d \div 64 = 2 <=> d \in \h80 .. \hBF
  BY TopBitsAre DEF TopBits
<1>3. CASE a \in Lead(4) /\ b \in \h80 .. \hBF /\ c \in \h80 .. \hBF /\ d \in \h80 .. \hBF
  <2>1. a \in \hF0 .. \hF7 /\ a % 8 = a - \hF0
    BY SMT, <1>3, LeadIs
  <2>2. b % 64 = b - \h80 /\ c % 64 = c - \h80 /\ d % 64 = d - \h80
    BY SMT, <1>3
  <2>3. p = ((a * 64 + b) * 64 + c) * 64 + d - \h3C82080 /\ p \in Nat
    BY SMT, <1>1, <1>3, <2>1, <2>2
  <2>4. p >= Least(4) <=> (a > \hF0 \/ b >= \h90)
    BY SMT, <1>3, <2>1, <2>3, LeastIs
  <2>5. p >= Least(4) => (IsScalar(p) <=> (a < \hF4 \/ (a = \hF4 /\ b <= \h8F)))
    <3>1. p >= \h10000 => (IsScalar(p) <=> (a < \hF4 \/ (a = \hF4 /\ b <= \h8F)))
      BY SMT, <1>3, <2>1, <2>3, ScalarIs
    <3>. QED
      BY SMT, <2>3, <3>1, LeastIs
  <2>6. (SecondByteIsLegal(a, b) /\ a <= \hF4) <=>
          ((a > \hF0 \/ b >= \h90) /\ (a < \hF4 \/ (a = \hF4 /\ b <= \h8F)))
    BY SMT, <1>3, <2>1 DEF SecondByteIsLegal
  <2>7. p = sum - offsetsFromUTF8[4]
    <3>1. p = sum - \h3C82080
      BY SMT, <1>1, <1>3, <2>1, <2>3
    <3>. QED
      BY SMT, <3>1, OffsetsAre
  <2>8. (p >= Least(4) /\ IsScalar(p)) <=> (SecondByteIsLegal(a, b) /\ a <= \hF4)
    BY Zenon, <2>4, <2>5, <2>6
  <2>9. a \notin \h80 .. \hC1
    BY SMT, <1>3, <2>1
  <2>10. p \in Nat
    BY <2>3
  <2>. QED
    BY Zenon, <1>1, <1>2, <1>3, <2>7, <2>8, <2>9, <2>10 DEF FourFine
<1>4. CASE ~(a \in Lead(4) /\ b \in \h80 .. \hBF /\ c \in \h80 .. \hBF /\ d \in \h80 .. \hBF)
  <2>1. SecondByteIsLegal(a, b) => b \in \h80 .. \hBF
    BY DEF SecondByteIsLegal
  <2>. QED
    BY Zenon, <1>1, <1>2, <1>4, <2>1 DEF FourFine
<1>. QED
  BY <1>3, <1>4

(* The first n bytes are a character by the standard exactly when they are *)
(* as many as the table says, and legal; and then it is the same character.*)
LEMMA Agree ==
  ASSUME NEW r \in Seq(Octets), NEW n \in 1 .. 4, n <= Len(r)
  PROVE  LET q == SubSeq(r, 1, n) IN
         /\ WellFormed(q) <=> n = trailingBytesForUTF8(r[1]) + 1 /\ isLegalUTF8(r, n)
         /\ WellFormed(q) => /\ Payload(q) \in Nat /\ IsScalar(Payload(q))
                             /\ Payload(q) = AddUp(r, n) - offsetsFromUTF8[n]
<1> DEFINE q == SubSeq(r, 1, n)
           legal == isLegalUTF8(r, n)
           good == WellFormed(q)
<1>1. q \in Seq(Octets) /\ Len(q) = n /\ \A i \in 1 .. n : q[i] = r[i]
  BY Prefix
<1>2. \A i \in 1 .. n : r[i] \in Octets
  OBVIOUS
<1>3. n \in {1, 2, 3, 4} /\ 0 \in Octets
  BY DEF Octets
<1>4. PICK a \in Octets : r[1] = a
  BY <1>2
<1>5. PICK b \in Octets : n >= 2 => r[2] = b
  BY <1>2, <1>3
<1>6. PICK c \in Octets : n >= 3 => r[3] = c
  BY <1>2, <1>3
<1>7. PICK d \in Octets : n = 4 => r[4] = d
  BY <1>2, <1>3
<1>8. LeadValues(1) = 128 /\ LeadValues(2) = 32 /\ LeadValues(3) = 16 /\ LeadValues(4) = 8
  BY DEF LeadValues
<1>9. PICK p \in Int :
        /\ Payload(q) = p
        /\ n = 1 => p = a % 128
        /\ n = 2 => p = (a % 32) * 64 + (b % 64)
        /\ n = 3 => p = ((a % 16) * 64 + (b % 64)) * 64 + (c % 64)
        /\ n = 4 => p = (((a % 8) * 64 + (b % 64)) * 64 + (c % 64)) * 64 + (d % 64)
  <2>1. /\ n = 1 => Payload(q) = a % 128
        /\ n = 2 => Payload(q) = (a % 32) * 64 + (b % 64)
        /\ n = 3 => Payload(q) = ((a % 16) * 64 + (b % 64)) * 64 + (c % 64)
        /\ n = 4 => Payload(q) = (((a % 8) * 64 + (b % 64)) * 64 + (c % 64)) * 64 + (d % 64)
    <3>1. LET f == q[1] % LeadValues(Len(q)) IN
          /\ Len(q) = 1 => Payload(q) = f
          /\ Len(q) = 2 => Payload(q) = f * 64 + (q[2] % 64)
          /\ Len(q) = 3 => Payload(q) = (f * 64 + (q[2] % 64)) * 64 + (q[3] % 64)
          /\ Len(q) = 4 =>
               Payload(q) = ((f * 64 + (q[2] % 64)) * 64 + (q[3] % 64)) * 64 + (q[4] % 64)
      BY <1>1, PayloadIs
    <3> HIDE DEF q
    <3>. QED
      BY <1>1, <1>3, <1>4, <1>5, <1>6, <1>7, <1>8, <3>1
  <2>2. /\ a % 128 \in Int /\ (a % 32) * 64 + (b % 64) \in Int
        /\ ((a % 16) * 64 + (b % 64)) * 64 + (c % 64) \in Int
        /\ (((a % 8) * 64 + (b % 64)) * 64 + (c % 64)) * 64 + (d % 64) \in Int
    BY SMT DEF Octets
  <2> HIDE DEF q
  <2>3. Payload(q) \in Int
    BY <1>3, <2>1, <2>2
  <2>. QED
    BY <2>1, <2>3
<1>10. PICK sum \in Int :
         /\ AddUp(r, n) = sum
         /\ n = 1 => sum = a
         /\ n = 2 => sum = a * 64 + b
         /\ n = 3 => sum = (a * 64 + b) * 64 + c
         /\ n = 4 => sum = ((a * 64 + b) * 64 + c) * 64 + d
  <2>1. /\ n = 1 => AddUp(r, n) = a
        /\ n = 2 => AddUp(r, n) = a * 64 + b
        /\ n = 3 => AddUp(r, n) = (a * 64 + b) * 64 + c
        /\ n = 4 => AddUp(r, n) = ((a * 64 + b) * 64 + c) * 64 + d
    BY <1>4, <1>5, <1>6, <1>7, AddUpIs
  <2>2. /\ a \in Int /\ a * 64 + b \in Int /\ (a * 64 + b) * 64 + c \in Int
        /\ ((a * 64 + b) * 64 + c) * 64 + d \in Int
    BY SMT DEF Octets
  <2>3. AddUp(r, n) \in Int
    BY <1>3, <2>1, <2>2
  <2>. QED
    BY <2>1, <2>3
<1>11. PICK t \in 0 .. 5 : /\ trailingBytesForUTF8(r[1]) = t
                           /\ t = 0 <=> a < \hC0
                           /\ \A k \in 2 .. 4 : t = k - 1 <=> a \in Lead(k)
  BY <1>4, TrailingIs
<1>12. good <=> /\ a \in Lead(n)
                /\ \A i \in 2 .. n : q[i] \div 64 = 2
                /\ p >= Least(n) /\ IsScalar(p)
  BY <1>1, <1>4, <1>9 DEF WellFormed
<1>13. legal <=> /\ \A i \in 3 .. n : r[i] \in \h80 .. \hBF
                 /\ n >= 2 => SecondByteIsLegal(a, r[2])
                 /\ a \notin \h80 .. \hC1 /\ a <= \hF4
  BY <1>4 DEF isLegalUTF8
<1> HIDE DEF q, legal, good
<1>14. SUFFICES /\ good <=> n = t + 1 /\ legal
                /\ good => p \in Nat /\ IsScalar(p) /\ p = sum - offsetsFromUTF8[n]
  BY <1>9, <1>10, <1>11 DEF q, legal, good
<1>15. CASE n = 1
  <2>1. p = a % 128 /\ sum = a
    BY <1>9, <1>10, <1>15
  <2>2. good <=> a \in Lead(1) /\ p >= 0 /\ IsScalar(p)
    BY <1>12, <1>15, LeastIs
  <2>3. legal <=> a \notin \h80 .. \hC1 /\ a <= \hF4
    BY <1>13, <1>15
  <2>4. /\ p \in Nat /\ IsScalar(p) /\ (a \in Lead(1) => p = a)
        /\ a \in Lead(1) <=> (a < \hC0 /\ a \notin \h80 .. \hC1)
    BY <2>1, One
  <2>5. good <=> t = 0 /\ legal
    BY SMT, <1>11, <2>2, <2>3, <2>4 DEF Octets
  <2>6. good => p = sum - 0
    BY SMT, <2>1, <2>2, <2>4
  <2>. QED
    BY SMT, <1>15, <2>4, <2>5, <2>6, OffsetsAre
<1>16. CASE n = 2
  <2>1. (\A i \in 2 .. n : q[i] \div 64 = 2) <=> (b \div 64 = 2)
    BY <1>1, <1>5, <1>6, <1>7, <1>16
  <2>2. (\A i \in 3 .. n : r[i] \in \h80 .. \hBF) <=> TRUE
    BY <1>6, <1>7, <1>16
  <2>3. SecondByteIsLegal(a, r[2]) <=> SecondByteIsLegal(a, b)
    BY <1>5, <1>16
  <2> DEFINE fine == /\ a \in Lead(2) /\ b \div 64 = 2
                     /\ p >= Least(2) /\ IsScalar(p)
             lawful == SecondByteIsLegal(a, b) /\ a \notin \h80 .. \hC1 /\ a <= \hF4
  <2>4. good <=> fine
    BY Zenon, <1>12, <1>16, <2>1
  <2>5. legal <=> lawful
    <3>1. n >= 2
      BY <1>16
    <3>. QED
      BY Zenon, <1>13, <2>2, <2>3, <3>1
  <2>6. t = 1 <=> a \in Lead(2)
    BY <1>11
  <2>7. /\ fine <=> t = 1 /\ lawful
        /\ fine => p \in Nat /\ p = sum - offsetsFromUTF8[2]
    <3>1. p = (a % 32) * 64 + (b % 64) /\ sum = a * 64 + b
      BY <1>9, <1>10, <1>16
    <3>2. AddsTwo(a, b, t, p, sum)
      BY <2>6, <3>1 DEF AddsTwo
    <3>3. TwoFine(a, b, t, p, sum)
      BY <1>4, <1>9, <3>2, TwoAgree
    <3>. QED
      BY Zenon, <3>3 DEF TwoFine
  <2>8. n = t + 1 <=> t = 1
    BY <1>16
  <2> HIDE DEF fine, lawful
  <2>9. good <=> n = t + 1 /\ legal
    BY Zenon, <2>4, <2>5, <2>7, <2>8
  <2>10. good => IsScalar(p)
    BY <1>12
  <2>11. offsetsFromUTF8[n] = offsetsFromUTF8[2]
    BY <1>16
  <2>. QED
    BY Zenon, <2>4, <2>7, <2>9, <2>10, <2>11
<1>17. CASE n = 3
  <2>1. (\A i \in 2 .. n : q[i] \div 64 = 2) <=> (b \div 64 = 2 /\ c \div 64 = 2)
    BY <1>1, <1>5, <1>6, <1>7, <1>17
  <2>2. (\A i \in 3 .. n : r[i] \in \h80 .. \hBF) <=> (c \in \h80 .. \hBF)
    BY <1>6, <1>7, <1>17
  <2>3. SecondByteIsLegal(a, r[2]) <=> SecondByteIsLegal(a, b)
    BY <1>5, <1>17
  <2> DEFINE fine == /\ a \in Lead(3) /\ b \div 64 = 2 /\ c \div 64 = 2
                     /\ p >= Least(3) /\ IsScalar(p)
             lawful == c \in \h80 .. \hBF /\ SecondByteIsLegal(a, b) /\ a \notin \h80 .. \hC1 /\ a <= \hF4
  <2>4. good <=> fine
    BY Zenon, <1>12, <1>17, <2>1
  <2>5. legal <=> lawful
    <3>1. n >= 2
      BY <1>17
    <3>. QED
      BY Zenon, <1>13, <2>2, <2>3, <3>1
  <2>6. t = 2 <=> a \in Lead(3)
    BY <1>11
  <2>7. /\ fine <=> t = 2 /\ lawful
        /\ fine => p \in Nat /\ p = sum - offsetsFromUTF8[3]
    <3>1. p = ((a % 16) * 64 + (b % 64)) * 64 + (c % 64) /\ sum = (a * 64 + b) * 64 + c
      BY <1>9, <1>10, <1>17
    <3>2. AddsThree(a, b, c, t, p, sum)
      BY <2>6, <3>1 DEF AddsThree
    <3>3. ThreeFine(a, b, c, t, p, sum)
      BY <1>4, <1>9, <3>2, ThreeAgree
    <3>. QED
      BY Zenon, <3>3 DEF ThreeFine
  <2>8. n = t + 1 <=> t = 2
    BY <1>17
  <2> HIDE DEF fine, lawful
  <2>9. good <=> n = t + 1 /\ legal
    BY Zenon, <2>4, <2>5, <2>7, <2>8
  <2>10. good => IsScalar(p)
    BY <1>12
  <2>11. offsetsFromUTF8[n] = offsetsFromUTF8[3]
    BY <1>17
  <2>. QED
    BY Zenon, <2>4, <2>7, <2>9, <2>10, <2>11
<1>18. CASE n = 4
  <2>1. (\A i \in 2 .. n : q[i] \div 64 = 2) <=> (b \div 64 = 2 /\ c \div 64 = 2 /\ d \div 64 = 2)
    BY <1>1, <1>5, <1>6, <1>7, <1>18
  <2>2. (\A i \in 3 .. n : r[i] \in \h80 .. \hBF) <=> (c \in \h80 .. \hBF /\ d \in \h80 .. \hBF)
    BY <1>6, <1>7, <1>18
  <2>3. SecondByteIsLegal(a, r[2]) <=> SecondByteIsLegal(a, b)
    BY <1>5, <1>18
  <2> DEFINE fine == /\ a \in Lead(4) /\ b \div 64 = 2 /\ c \div 64 = 2 /\ d \div 64 = 2
                     /\ p >= Least(4) /\ IsScalar(p)
             lawful == c \in \h80 .. \hBF /\ d \in \h80 .. \hBF /\ SecondByteIsLegal(a, b) /\ a \notin \h80 .. \hC1 /\ a <= \hF4
  <2>4. good <=> fine
    BY Zenon, <1>12, <1>18, <2>1
  <2>5. legal <=> lawful
    <3>1. n >= 2
      BY <1>18
    <3>. QED
      BY Zenon, <1>13, <2>2, <2>3, <3>1
  <2>6. t = 3 <=> a \in Lead(4)
    BY <1>11
  <2>7. /\ fine <=> t = 3 /\ lawful
        /\ fine => p \in Nat /\ p = sum - offsetsFromUTF8[4]
    <3>1. p = (((a % 8) * 64 + (b % 64)) * 64 + (c % 64)) * 64 + (d % 64) /\ sum = ((a * 64 + b) * 64 + c) * 64 + d
      BY <1>9, <1>10, <1>18
    <3>2. AddsFour(a, b, c, d, t, p, sum)
      BY <2>6, <3>1 DEF AddsFour
    <3>3. FourFine(a, b, c, d, t, p, sum)
      BY <1>4, <1>9, <3>2, FourAgree
    <3>. QED
      BY ZenonT(40), <3>3 DEF FourFine
  <2>8. n = t + 1 <=> t = 3
    BY <1>18
  <2> HIDE DEF fine, lawful
  <2>9. good <=> n = t + 1 /\ legal
    BY Zenon, <2>4, <2>5, <2>7, <2>8
  <2>10. good => IsScalar(p)
    BY <1>12
  <2>11. offsetsFromUTF8[n] = offsetsFromUTF8[4]
    BY <1>18
  <2>. QED
    BY Zenon, <2>4, <2>7, <2>9, <2>10, <2>11
<1>. QED
  BY <1>3, <1>15, <1>16, <1>17, <1>18

-----------------------------------------------------------------------------
(* The first character of a string.                                        *)

(* In UTF-8 no more than one number of bytes can be right.                 *)
LEMMA OneSize ==
  ASSUME NEW r \in Seq(Octets), NEW n \in 1 .. 4, n <= Len(r), WellFormed(SubSeq(r, 1, n))
  PROVE  CharSize(8, r) = n /\ FirstChar(8, r) = Payload(SubSeq(r, 1, n))
<1> DEFINE ns == {k \in 1 .. 4 : k <= Len(r) /\ WellFormed(SubSeq(r, 1, k))}
<1>1. \A k \in ns : k = trailingBytesForUTF8(r[1]) + 1
  BY Agree
<1>2. n \in ns
  OBVIOUS
<1>3. ns = {n}
  BY <1>1, <1>2
<1>4. CharSize(8, r) = IF ns = {} THEN 0 ELSE CHOOSE k \in ns : TRUE
  BY DEF CharSize
<1> HIDE DEF ns
<1>5. CharSize(8, r) = n
  BY <1>3, <1>4
<1>. QED
  BY <1>5 DEF FirstChar

LEMMA NoSize ==
  ASSUME NEW r \in Seq(Octets), CharSize(8, r) # 0
  PROVE  \E n \in 1 .. 4 : n <= Len(r) /\ WellFormed(SubSeq(r, 1, n))
<1> DEFINE ns == {k \in 1 .. 4 : k <= Len(r) /\ WellFormed(SubSeq(r, 1, k))}
<1>1. CharSize(8, r) = IF ns = {} THEN 0 ELSE CHOOSE k \in ns : TRUE
  BY DEF CharSize
<1>. QED
  BY Zenon, <1>1

(* decode() of UTF-8 finds the character there is.                         *)
LEMMA Decode8Is ==
  ASSUME NEW r \in Seq(Octets), r # <<>>
  PROVE  /\ decode8(r).ok <=> CharSize(8, r) # 0
         /\ decode8(r).ok \in BOOLEAN
         /\ decode8(r).ok => /\ decode8(r).used = CharSize(8, r)
                             /\ decode8(r).ch = FirstChar(8, r)
                             /\ decode8(r).used \in 1 .. 4 /\ decode8(r).used <= Len(r)
                             /\ WellFormed(SubSeq(r, 1, decode8(r).used))
         /\ ~decode8(r).ok => decode8(r).used = 0
<1> DEFINE t == trailingBytesForUTF8(r[1])
           d == decode8(r)
<1>1. Len(r) \in Nat \ {0} /\ r[1] \in Octets
  OBVIOUS
<1>2. t \in 0 .. 5
  BY <1>1, TrailingIs
<1>3. d = IF t >= Len(r) \/ ~isLegalUTF8(r, t + 1)
          THEN [ok |-> FALSE, ch |-> 0, used |-> 0]
          ELSE [ok |-> TRUE, ch |-> AddUp(r, t + 1) - offsetsFromUTF8[t + 1], used |-> t + 1]
  BY DEF decode8, Truncated, Failed
<1> HIDE DEF t, d
<1>4. CASE t < Len(r) /\ isLegalUTF8(r, t + 1)
  <2>1. t + 1 \in 1 .. 4
    BY <1>4 DEF isLegalUTF8
  <2>2. t + 1 <= Len(r)
    BY <1>1, <1>2, <1>4
  <2>3. /\ WellFormed(SubSeq(r, 1, t + 1))
        /\ Payload(SubSeq(r, 1, t + 1)) = AddUp(r, t + 1) - offsetsFromUTF8[t + 1]
    BY <1>4, <2>1, <2>2, Agree DEF t
  <2>4. CharSize(8, r) = t + 1 /\ FirstChar(8, r) = Payload(SubSeq(r, 1, t + 1))
    BY <2>1, <2>2, <2>3, OneSize
  <2>5. d = [ok |-> TRUE, ch |-> AddUp(r, t + 1) - offsetsFromUTF8[t + 1], used |-> t + 1]
    BY <1>1, <1>2, <1>3, <1>4
  <2>6. d.ok /\ d.used = t + 1 /\ d.ch = FirstChar(8, r)
    BY <2>3, <2>4, <2>5
  <2>7. d.ok \in BOOLEAN
    BY <2>5
  <2>. QED
    BY <2>1, <2>2, <2>3, <2>4, <2>6, <2>7 DEF d
<1>5. CASE ~(t < Len(r) /\ isLegalUTF8(r, t + 1))
  <2>1. d = [ok |-> FALSE, ch |-> 0, used |-> 0]
    BY <1>1, <1>2, <1>3, <1>5
  <2>2. CharSize(8, r) = 0
    <3>1. SUFFICES ASSUME NEW n \in 1 .. 4, n <= Len(r), WellFormed(SubSeq(r, 1, n)) PROVE FALSE
      BY NoSize
    <3>2. n = t + 1 /\ isLegalUTF8(r, n)
      BY <3>1, Agree DEF t
    <3>. QED
      BY <1>1, <1>2, <1>5, <3>1, <3>2
  <2>. QED
    BY <2>1, <2>2 DEF d
<1>. QED
  BY <1>4, <1>5
=============================================================================
