--------------------------- MODULE FrameCodecProofs ---------------------------
(***************************************************************************)
(* What the checksum of a frame can and cannot tell, how a frame is laid    *)
(* out, and what the two ends make of a register's content.               *)
(***************************************************************************)
EXTENDS FrameCodec, SequenceTheorems, WellFoundedInduction, TLAPS

-----------------------------------------------------------------------------
(* The loop that adds up the bytes of a frame. *)

\* Induction over the natural numbers, for a set in place of a predicate.
LEMMA SetInduction ==
    ASSUME NEW S \in SUBSET Nat, 0 \in S, \A n \in S : n + 1 \in S
    PROVE  S = Nat
<1> SUFFICES ASSUME Nat \ S # {} PROVE FALSE
  OBVIOUS
<1> DEFINE less == OpToRel(<, Nat)
<1>1. \A m, n \in Nat : m < n => <<m, n>> \in less
  BY DEF OpToRel
<1>2. IsWellFoundedOn(less, Nat)
  BY NatLessThanWellFounded
<1> HIDE DEF less
<1>3. PICK n \in Nat \ S : \A m \in Nat \ S : <<m, n>> \notin less
  BY <1>2, WFMin
<1>4. n \in Nat /\ n # 0 /\ n \notin S
  BY <1>3
<1>5. n - 1 \in Nat /\ n - 1 < n /\ (n - 1) + 1 = n
  BY <1>4
<1>6. n - 1 \notin S
  BY <1>4, <1>5
<1> QED
  BY <1>1, <1>3, <1>5, <1>6

\* Bytes are numbers.
LEMMA BytesAreNat ==
    ASSUME NEW s \in Seq(Byte)
    PROVE  /\ s \in Seq(Nat) /\ Len(s) \in Nat
           /\ \A k \in 1 .. Len(s) : s[k] \in Byte /\ s[k] \in Nat /\ s[k] <= 255
<1>1. Byte \subseteq Nat /\ \A b \in Byte : b <= 255
  BY DEF Byte
<1>2. s \in Seq(Nat)
  BY <1>1, SeqMonotonic
<1>3. \A k \in 1 .. Len(s) : s[k] \in Byte
  OBVIOUS
<1> QED
  BY <1>1, <1>2, <1>3

\* total adds the numbers of bytes one after the other.
Adds(total, bytes, n) ==
    total = [k \in 0 .. n |-> IF k = 0 THEN 0 ELSE total[k - 1] + bytes[k]]

\* There is such a function, as far as one likes.
LEMMA Adding ==
    ASSUME NEW bytes \in Seq(Nat)
    PROVE  \A n \in Nat : n <= Len(bytes) =>
             \E total \in [0 .. n -> Nat] : Adds(total, bytes, n)
<1> DEFINE Added(n) == \E total \in [0 .. n -> Nat] : Adds(total, bytes, n)
           S == {n \in Nat : n <= Len(bytes) => Added(n)}
<1>1. 0 \in S
  <2> DEFINE none == [k \in 0 .. 0 |-> 0]
  <2>1. none \in [0 .. 0 -> Nat]
    OBVIOUS
  <2>2. Adds(none, bytes, 0)
    BY DEF Adds
  <2>3. Added(0)
    BY <2>1, <2>2
  <2> QED
    BY <2>3
<1>2. ASSUME NEW n \in S PROVE n + 1 \in S
  <2> SUFFICES ASSUME n + 1 <= Len(bytes) PROVE Added(n + 1)
    <3> HIDE DEF Added
    <3> QED
      OBVIOUS
  <2>1. n \in Nat /\ Len(bytes) \in Nat /\ n <= Len(bytes) /\ Added(n)
    BY DEF S
  <2>2. PICK total \in [0 .. n -> Nat] : Adds(total, bytes, n)
    BY <2>1
  <2>3. bytes[n + 1] \in Nat
    BY <2>1
  <2> DEFINE more == [k \in 0 .. n + 1 |-> IF k = n + 1 THEN total[n] + bytes[n + 1] ELSE total[k]]
  <2>4. more \in [0 .. n + 1 -> Nat]
    <3>1. \A k \in 0 .. n + 1 : k # n + 1 => k \in 0 .. n
      BY <2>1
    <3>2. total[n] + bytes[n + 1] \in Nat
      BY <2>1, <2>2, <2>3, SMTT(30)
    <3> QED
      BY <3>1, <3>2
  <2>5. ASSUME NEW k \in 0 .. n + 1
        PROVE  more[k] = IF k = 0 THEN 0 ELSE more[k - 1] + bytes[k]
    <3>1. CASE k = n + 1
      BY <2>1, <3>1
    <3>2. CASE k # n + 1
      <4>1. k \in 0 .. n /\ (k # 0 => k - 1 \in 0 .. n + 1 /\ k - 1 # n + 1)
        BY <2>1, <3>2
      <4>2. total[k] = IF k = 0 THEN 0 ELSE total[k - 1] + bytes[k]
        BY <2>2, <4>1 DEF Adds
      <4> QED
        BY <4>1, <4>2
    <3> QED
      BY <3>1, <3>2
  <2>6. Adds(more, bytes, n + 1)
    BY <2>4, <2>5 DEF Adds
  <2> QED
    BY <2>4, <2>6
<1> HIDE DEF Added
<1>3. S = Nat
  BY <1>1, <1>2, SetInduction
<1> QED
  BY <1>3 DEF Added

\* So Total is what it says.
LEMMA TotalAdds ==
    ASSUME NEW bytes \in Seq(Nat)
    PROVE  \E total : Adds(total, bytes, Len(bytes)) /\ Total(bytes) = total[Len(bytes)]
<1> DEFINE total == CHOOSE g : Adds(g, bytes, Len(bytes))
<1>1. Len(bytes) \in Nat
  OBVIOUS
<1>2. \E g : Adds(g, bytes, Len(bytes))
  BY <1>1, Adding
<1>3. Adds(total, bytes, Len(bytes))
  BY <1>2
<1>4. Total(bytes) = total[Len(bytes)]
  BY DEF Total, Adds
<1> QED
  BY <1>3, <1>4

\* Each of its values.
LEMMA AddsAre ==
    ASSUME NEW f, NEW s, NEW n, Adds(f, s, n), NEW k \in 0 .. n
    PROVE  f[k] = IF k = 0 THEN 0 ELSE f[k - 1] + s[k]
<1> DEFINE h == [i \in 0 .. n |-> IF i = 0 THEN 0 ELSE f[i - 1] + s[i]]
<1>1. f = h
  BY DEF Adds
<1>2. h[k] = IF k = 0 THEN 0 ELSE f[k - 1] + s[k]
  OBVIOUS
<1> HIDE DEF h
<1> QED
  BY <1>1, <1>2

\* f and g have added the same numbers, except for that at j.
Apart(f, g, s, t, j, n) ==
    \E rest \in Nat : /\ f[n] = rest + (IF n < j THEN 0 ELSE s[j])
                     /\ g[n] = rest + (IF n < j THEN 0 ELSE t[j])

\* Where the numbers agree, so do the sums; from where they differ on, the sums
\* do by as much, if they agree again.
LEMMA SumsDiffer ==
    ASSUME NEW s \in Seq(Nat), NEW t \in Seq(Nat), Len(s) = Len(t), NEW j \in 1 .. Len(s),
           \A k \in 1 .. Len(s) : k # j => s[k] = t[k],
           NEW f, NEW g, Adds(f, s, Len(s)), Adds(g, t, Len(s))
    PROVE  \A n \in 0 .. Len(s) : Apart(f, g, s, t, j, n)
<1> DEFINE Differ(n) == Apart(f, g, s, t, j, n)
           S == {n \in Nat : n <= Len(s) => Differ(n)}
<1>0. /\ Len(s) \in Nat /\ j \in Nat
      /\ \A k \in 1 .. Len(s) : s[k] \in Nat /\ t[k] \in Nat
      /\ \A k \in 0 .. Len(s) : /\ f[k] = IF k = 0 THEN 0 ELSE f[k - 1] + s[k]
                                /\ g[k] = IF k = 0 THEN 0 ELSE g[k - 1] + t[k]
  <2>1. Len(s) \in Nat /\ j \in Nat
    OBVIOUS
  <2>2. \A k \in 1 .. Len(s) : s[k] \in Nat
    OBVIOUS
  <2>3. \A k \in 1 .. Len(t) : t[k] \in Nat
    OBVIOUS
  <2> QED
    BY <2>1, <2>2, <2>3, AddsAre
<1>1. 0 \in S
  <2>1. f[0] = 0 + 0 /\ g[0] = 0 + 0 /\ 0 < j
    BY <1>0
  <2> QED
    BY <2>1 DEF Apart
<1>2. ASSUME NEW n \in S PROVE n + 1 \in S
  <2> SUFFICES ASSUME n + 1 <= Len(s) PROVE Differ(n + 1)
    <3> HIDE DEF Apart
    <3> QED
      OBVIOUS
  <2>1. n \in Nat /\ n <= Len(s) /\ Differ(n) /\ n + 1 \in 1 .. Len(s)
    BY <1>0
  <2>2. PICK rest \in Nat : /\ f[n] = rest + (IF n < j THEN 0 ELSE s[j])
                            /\ g[n] = rest + (IF n < j THEN 0 ELSE t[j])
    BY <2>1 DEF Apart
  <2>3. f[n + 1] = f[n] + s[n + 1] /\ g[n + 1] = g[n] + t[n + 1]
    BY <1>0, <2>1
  <2> HIDE DEF S
  <2>4. CASE n + 1 = j
    <3>0. n < j /\ ~(n + 1 < j) /\ rest + 0 = rest
      BY <1>0, <2>1, <2>4
    <3>1. f[n + 1] = rest + s[j] /\ g[n + 1] = rest + t[j]
      BY <2>2, <2>3, <2>4, <3>0
    <3> QED
      BY <2>4, <3>0, <3>1 DEF Apart
  <2>5. CASE n + 1 # j
    <3>1. s[n + 1] = t[n + 1] /\ rest + s[n + 1] \in Nat
      <4>1. s[n + 1] = t[n + 1]
        BY <2>1, <2>5
      <4>2. s[n + 1] \in Nat
        BY <1>0, <2>1
      <4> QED
        BY <4>1, <4>2
    <3>2. /\ f[n + 1] = (rest + s[n + 1]) + (IF n + 1 < j THEN 0 ELSE s[j])
          /\ g[n + 1] = (rest + s[n + 1]) + (IF n + 1 < j THEN 0 ELSE t[j])
      <4>1. CASE n < j
        <5>1. n + 1 < j /\ ~(n + 1 > j)
          BY <1>0, <2>1, <2>5, <4>1
        <5>2. f[n] = rest /\ g[n] = rest
          BY <2>2, <4>1
        <5> QED
          <6>1. f[n + 1] = rest + s[n + 1] /\ g[n + 1] = rest + s[n + 1]
            BY <2>3, <3>1, <5>2
          <6>2. (rest + s[n + 1]) + 0 = rest + s[n + 1]
            BY <3>1
          <6> QED
            BY <5>1, <6>1, <6>2
      <4>2. CASE ~(n < j)
        <5>1. ~(n + 1 < j) /\ s[j] \in Nat /\ t[j] \in Nat
          BY <1>0, <2>1, <2>5, <4>2
        <5> QED
          <6>1. f[n] = rest + s[j] /\ g[n] = rest + t[j]
            BY <2>2, <4>2
          <6>2. f[n + 1] = (rest + s[j]) + s[n + 1] /\ g[n + 1] = (rest + t[j]) + s[n + 1]
            BY <2>3, <3>1, <6>1
          <6>3. s[n + 1] \in Nat
            BY <1>0, <2>1
          <6>4. \A x, y, z \in Nat : (x + y) + z = (x + z) + y
            OBVIOUS
          <6>5. /\ (rest + s[j]) + s[n + 1] = (rest + s[n + 1]) + s[j]
                /\ (rest + t[j]) + s[n + 1] = (rest + s[n + 1]) + t[j]
            BY <5>1, <6>3, <6>4
          <6> QED
            BY <5>1, <6>2, <6>5
      <4> QED
        BY <4>1, <4>2
    <3> QED
      BY <3>1, <3>2 DEF Apart
  <2> QED
    BY <2>4, <2>5
<1> HIDE DEF Apart
<1>3. S = Nat
  BY <1>1, <1>2, SetInduction
<1>4. ASSUME NEW n \in 0 .. Len(s) PROVE Differ(n)
  <2>1. n \in Nat /\ n <= Len(s)
    BY <1>0
  <2>2. n \in S
    <3> HIDE DEF S
    <3> QED
      BY <1>3, <2>1
  <2> QED
    BY <2>1, <2>2
<1> QED
  BY <1>4 DEF Differ

\* A sum of bytes is at most 255 times their number.
LEMMA SumsBounded ==
    ASSUME NEW s \in Seq(Byte), NEW f, Adds(f, s, Len(s))
    PROVE  \A n \in 0 .. Len(s) : f[n] \in Nat /\ f[n] <= 255 * n
<1> DEFINE S == {n \in Nat : n <= Len(s) => f[n] \in Nat /\ f[n] <= 255 * n}
<1>0. /\ Len(s) \in Nat
      /\ \A k \in 1 .. Len(s) : s[k] \in Nat /\ s[k] <= 255
      /\ \A k \in 0 .. Len(s) : f[k] = IF k = 0 THEN 0 ELSE f[k - 1] + s[k]
  BY BytesAreNat, AddsAre
<1>1. 0 \in S
  BY <1>0
<1>2. ASSUME NEW n \in S PROVE n + 1 \in S
  <2> SUFFICES ASSUME n + 1 <= Len(s) PROVE f[n + 1] \in Nat /\ f[n + 1] <= 255 * (n + 1)
    OBVIOUS
  <2>1. /\ n \in Nat /\ f[n] \in Nat /\ f[n] <= 255 * n
        /\ n + 1 \in 1 .. Len(s)
    BY <1>0
  <2>2. f[n + 1] = f[n] + s[n + 1] /\ s[n + 1] \in Nat /\ s[n + 1] <= 255
    BY <1>0, <2>1
  <2> QED
    BY <2>1, <2>2
<1>3. S = Nat
  BY <1>1, <1>2, SetInduction
<1> QED
  BY <1>0, <1>3
\* A total of bytes, and what becomes of it when one of them changes.
LEMMA TotalIsNat ==
    ASSUME NEW s \in Seq(Byte)
    PROVE  Total(s) \in Nat /\ Total(s) <= 255 * Len(s)
<1>1. s \in Seq(Nat) /\ Len(s) \in Nat
  BY BytesAreNat
<1>2. PICK total : Adds(total, s, Len(s)) /\ Total(s) = total[Len(s)]
  BY <1>1, TotalAdds
<1> QED
  BY <1>1, <1>2, SumsBounded

LEMMA TotalChanges ==
    ASSUME NEW s \in Seq(Byte), NEW j \in 1 .. Len(s), NEW b \in Byte
    PROVE  \E rest \in Nat : Total(s) = rest + s[j] /\ Total([s EXCEPT ![j] = b]) = rest + b
<1> DEFINE t == [s EXCEPT ![j] = b]
<1>1. /\ s \in Seq(Nat) /\ Len(s) \in Nat /\ t \in Seq(Nat) /\ Len(t) = Len(s)
      /\ t[j] = b /\ \A k \in 1 .. Len(s) : k # j => s[k] = t[k]
      /\ s[j] \in Nat /\ j <= Len(s) /\ j \in Nat
  <2>1. t \in Seq(Byte)
    OBVIOUS
  <2>2. Len(t) = Len(s) /\ t[j] = b /\ \A k \in 1 .. Len(s) : k # j => s[k] = t[k]
    OBVIOUS
  <2> HIDE DEF t
  <2>3. j \in Nat /\ j <= Len(s)
    BY BytesAreNat
  <2> QED
    BY <2>1, <2>2, <2>3, BytesAreNat
<1> HIDE DEF t
<1>2. PICK f : Adds(f, s, Len(s)) /\ Total(s) = f[Len(s)]
  BY <1>1, TotalAdds
<1>3. PICK g : Adds(g, t, Len(s)) /\ Total(t) = g[Len(s)]
  BY <1>1, TotalAdds
<1>4. PICK rest \in Nat : /\ f[Len(s)] = rest + (IF Len(s) < j THEN 0 ELSE s[j])
                          /\ g[Len(s)] = rest + (IF Len(s) < j THEN 0 ELSE t[j])
  <2>1. Len(s) \in 0 .. Len(s)
    BY <1>1
  <2>2. Adds(f, s, Len(s)) /\ Adds(g, t, Len(s)) /\ s \in Seq(Nat) /\ t \in Seq(Nat)
    BY <1>1, <1>2, <1>3
  <2>3. \A n \in 0 .. Len(s) : Apart(f, g, s, t, j, n)
    BY <1>1, <2>2, SumsDiffer
  <2> QED
    BY <2>1, <2>3 DEF Apart
<1>5. Total(s) = rest + s[j] /\ Total(t) = rest + b
  BY <1>1, <1>2, <1>3, <1>4
<1> QED
  BY <1>5 DEF t

\* The other bytes leave room for a byte of 255.
LEMMA TotalOfChanged ==
    ASSUME NEW s \in Seq(Byte), NEW j \in 1 .. Len(s), NEW b \in Byte
    PROVE  \E rest \in Nat : /\ Total(s) = rest + s[j]
                            /\ Total([s EXCEPT ![j] = b]) = rest + b
                            /\ rest + 255 <= 255 * Len(s)
<1>1. PICK rest \in Nat : Total(s) = rest + s[j] /\ Total([s EXCEPT ![j] = b]) = rest + b
  BY TotalChanges
<1>2. 255 \in Byte
  BY DEF Byte
<1>3. PICK most \in Nat : Total(s) = most + s[j] /\ Total([s EXCEPT ![j] = 255]) = most + 255
  BY <1>2, TotalChanges
<1>4. [s EXCEPT ![j] = 255] \in Seq(Byte) /\ Len([s EXCEPT ![j] = 255]) = Len(s)
  BY <1>2, ExceptSeq
<1>5. most + 255 <= 255 * Len(s)
  BY <1>3, <1>4, TotalIsNat, ZenonT(30)
<1>6. rest = most
  <2>1. s[j] \in Nat
    BY BytesAreNat
  <2> QED
    BY <1>1, <1>3, <2>1
<1> QED
  BY <1>1, <1>5, <1>6

-----------------------------------------------------------------------------
(* The checksum of a total. *)

\* A total is 256 times its high byte plus its low byte, and its checksum is
\* their sum modulo 256; no frame's total exceeds 16 bits (257 bytes of 255).
LEMMA ChecksumIs ==
    ASSUME NEW t \in Nat, t < 65536
    PROVE  /\ t = 256 * (t \div 256) + (t % 256)
           /\ t % 256 \in 0 .. 255 /\ t \div 256 \in 0 .. 255
           /\ Checksum(t) = ((t % 256) + (t \div 256)) % 256
<1>1. t % 65536 = t
  OBVIOUS
<1>2. Checksum(t) = ((t % 256) + (t \div 256)) % 256
  BY <1>1 DEF Checksum
<1>3. t = 256 * (t \div 256) + (t % 256) /\ t % 256 \in 0 .. 255 /\ t \div 256 \in 0 .. 255
  OBVIOUS
<1> QED
  BY <1>2, <1>3

\* Two numbers below 512 that agree modulo 256 are equal or 256 apart.
LEMMA SameByte ==
    ASSUME NEW m \in Nat, NEW n \in Nat, m < 512, n < 512, m % 256 = n % 256
    PROVE  m = n \/ m = n + 256 \/ n = m + 256
<1>1. /\ m = 256 * (m \div 256) + (m % 256) /\ m \div 256 \in {0, 1}
      /\ n = 256 * (n \div 256) + (n % 256) /\ n \div 256 \in {0, 1}
  OBVIOUS
<1>2. m - n = 256 * (m \div 256) - 256 * (n \div 256)
  BY <1>1
<1> QED
  BY <1>1, <1>2

\* The same for a frame that grows by d: only by 255, across a multiple of 256.
LEMMA GrowthSeen ==
    ASSUME NEW t \in Nat, NEW d \in Nat, 0 < d, d <= 255, t + d < 65536,
           Checksum(t) = Checksum(t + d)
    PROVE  d = 255
<1> DEFINE q == t \div 256
           r == t % 256
           p == (t + d) \div 256
           s == (t + d) % 256
<1>1. /\ t = 256 * q + r /\ r \in 0 .. 255 /\ q \in 0 .. 255
      /\ t + d = 256 * p + s /\ s \in 0 .. 255 /\ p \in 0 .. 255
      /\ Checksum(t) = (r + q) % 256 /\ Checksum(t + d) = (s + p) % 256
  BY ChecksumIs
<1> HIDE DEF q, r, p, s
<1>2. r + q = s + p \/ r + q = s + p + 256 \/ s + p = r + q + 256
  <2>1. r + q \in Nat /\ s + p \in Nat /\ r + q < 512 /\ s + p < 512
    BY <1>1
  <2>2. (r + q) % 256 = (s + p) % 256
    BY <1>1
  <2> QED
    BY <2>1, <2>2, SameByte
<1>3. p = q \/ p = q + 1
  BY <1>1
<1> QED
  BY <1>1, <1>2, <1>3

\* A byte that is added to others changes the checksum, or between 0x00 and 0xFF.
LEMMA OneByteAdded ==
    ASSUME NEW rest \in Nat, rest + 255 < 65536,
           NEW a \in Byte, NEW b \in Byte, a # b,
           Checksum(rest + a) = Checksum(rest + b)
    PROVE  (a = 0 /\ b = 255) \/ (b = 0 /\ a = 255)
<1>1. a \in Nat /\ b \in Nat /\ a <= 255 /\ b <= 255
  BY DEF Byte
<1>2. ASSUME NEW x \in Nat, NEW y \in Nat, x < y, y <= 255,
             Checksum(rest + x) = Checksum(rest + y)
      PROVE  x = 0 /\ y = 255
  <2> DEFINE t == rest + x
             d == y - x
  <2>1. t \in Nat /\ d \in Nat /\ 0 < d /\ d <= 255 /\ t + d = rest + y /\ t + d < 65536
    BY <1>2
  <2>2. Checksum(t) = Checksum(t + d)
    BY <1>2, <2>1
  <2> HIDE DEF t, d
  <2>3. d = 255
    BY <2>1, <2>2, GrowthSeen
  <2> QED
    BY <1>2, <2>3 DEF d
<1>3. a < b \/ b < a
  BY <1>1
<1> QED
  BY <1>1, <1>2, <1>3

\* A frame whose bytes other than one add up to rest keeps its checksum when
\* that byte changes from a to b only if one of them is 0x00 and the other 0xFF
\* (FrameBuilder.cpp:96-110, FastLogger.cpp:145-152).
THEOREM OneByteDetected ==
    ASSUME NEW rest \in Nat, rest + 255 < 65536,
           NEW a \in Byte, NEW b \in Byte, a # b,
           Checksum(rest + a) = Checksum(rest + b)
    PROVE  {a, b} = {0, 255}
  BY OneByteAdded

-----------------------------------------------------------------------------
(* Frames. *)

\* A sequence of bytes with its checksum behind it.
LEMMA SealedIs ==
    ASSUME NEW s \in Seq(Byte)
    PROVE  /\ Sealed(s) \in Seq(Byte) /\ Len(Sealed(s)) = Len(s) + 1
           /\ \A i \in 1 .. Len(s) : Sealed(s)[i] = s[i]
           /\ Intact(Sealed(s))
<1>1. calculateCRC(s) \in Byte
  <2>1. Total(s) \in Nat
    BY TotalIsNat
  <2> DEFINE t == Total(s) % 65536
  <2>2. t \in Nat /\ t % 256 \in Nat /\ t \div 256 \in Nat
    BY <2>1
  <2>3. calculateCRC(s) = ((t % 256) + (t \div 256)) % 256
    BY DEF calculateCRC, Checksum
  <2> HIDE DEF t
  <2> QED
    BY <2>2, <2>3 DEF Byte
<1> DEFINE c == calculateCRC(s)
<1> HIDE DEF c
<1>2. /\ Append(s, c) \in Seq(Byte) /\ Len(Append(s, c)) = Len(s) + 1 /\ Len(s) \in Nat
      /\ \A i \in 1 .. Len(s) : Append(s, c)[i] = s[i]
      /\ Append(s, c)[Len(s) + 1] = c
  BY <1>1, AppendProperties DEF c
<1>3. Last(Append(s, c)) = c
  BY <1>2 DEF Last
<1>4. Front(Append(s, c)) = s
  <2>1. Front(Append(s, c)) = SubSeq(Append(s, c), 1, Len(s))
    BY <1>2 DEF Front
  <2>2. /\ SubSeq(Append(s, c), 1, Len(s)) \in Seq(Byte)
        /\ Len(SubSeq(Append(s, c), 1, Len(s))) = Len(s)
        /\ \A i \in 1 .. Len(s) : SubSeq(Append(s, c), 1, Len(s))[i] = s[i]
    BY <1>2
  <2> QED
    BY <2>1, <2>2, SeqEqual
<1> QED
  BY <1>2, <1>3, <1>4 DEF Sealed, Intact, c

\* All but the last byte, and the last.
LEMMA FrontIs ==
    ASSUME NEW s \in Seq(Byte), NEW n \in Nat, Len(s) = n, n > 0
    PROVE  /\ Front(s) \in Seq(Byte) /\ Len(Front(s)) = n - 1 /\ Last(s) = s[n]
           /\ \A i \in 1 .. n - 1 : Front(s)[i] = s[i]
<1>1. Front(s) = SubSeq(s, 1, n - 1) /\ Last(s) = s[n]
  BY DEF Front, Last
<1>2. \A i \in 1 .. n - 1 : s[i] \in Byte
  BY BytesAreNat
<1> QED
  BY <1>1, <1>2

\* Two frames of the same length that differ in one byte, the k-th; a payload
\* has at most 255 bytes.
OneByteApart(frame, changed, k) ==
    /\ Len(frame) \in 2 .. 258 /\ Len(changed) = Len(frame)
    /\ k \in 1 .. Len(frame) /\ frame[k] # changed[k]
    /\ \A i \in 1 .. Len(frame) : i # k => changed[i] = frame[i]

LEMMA ChangedByteIs ==
    ASSUME NEW frame \in Seq(Byte), NEW changed \in Seq(Byte), NEW k,
           OneByteApart(frame, changed, k), Intact(frame), Intact(changed)
    PROVE  (frame[k] = 0 /\ changed[k] = 255) \/ (changed[k] = 0 /\ frame[k] = 255)
<1> DEFINE n == Len(frame)
<1>0. /\ n \in 2 .. 258 /\ k \in 1 .. n /\ Len(frame) = n /\ Len(changed) = n
      /\ frame[k] # changed[k] /\ \A i \in 1 .. n : i # k => changed[i] = frame[i]
  BY DEF OneByteApart
<1> HIDE DEF n
<1> DEFINE b == changed[k]
<1>1. /\ n \in Nat /\ n > 0 /\ n <= 258 /\ n - 1 \in Nat /\ n - 1 > 0
      /\ k \in Nat /\ k >= 1 /\ k <= n
  BY <1>0
<1>2. b \in Byte /\ b # frame[k] /\ \A i \in 1 .. n : changed[i] = IF i = k THEN b ELSE frame[i]
  BY <1>0, BytesAreNat
<1> HIDE DEF b
<1>a. /\ Front(frame) \in Seq(Byte) /\ Len(Front(frame)) = n - 1 /\ Last(frame) = frame[n]
      /\ \A i \in 1 .. n - 1 : Front(frame)[i] = frame[i]
  BY <1>0, <1>1, FrontIs
<1>b. /\ Front(changed) \in Seq(Byte) /\ Len(Front(changed)) = n - 1 /\ Last(changed) = changed[n]
      /\ \A i \in 1 .. n - 1 : Front(changed)[i] = changed[i]
  BY <1>0, <1>1, FrontIs
<1>3. frame[n] = Checksum(Total(Front(frame))) /\ changed[n] = Checksum(Total(Front(changed)))
  BY <1>a, <1>b DEF Intact, calculateCRC
<1>4. CASE k = n
  <2>1. \A i \in 1 .. n - 1 : Front(changed)[i] = Front(frame)[i]
    BY <1>1, <1>2, <1>a, <1>b, <1>4
  <2>2. Front(changed) = Front(frame)
    BY <1>a, <1>b, <2>1, SeqEqual
  <2> QED
    BY <1>1, <1>2, <1>3, <1>4, <2>2
<1>5. CASE k # n
  <2> DEFINE s == Front(frame)
  <2>1. s \in Seq(Byte) /\ Len(s) = n - 1 /\ k \in 1 .. Len(s) /\ s[k] = frame[k] /\ s[k] \in Byte
    <3>1. k \in 1 .. n - 1
      BY <1>1, <1>5
    <3> QED
      BY <1>1, <1>a, <3>1, BytesAreNat
  <2>2. Front(changed) = [s EXCEPT ![k] = b]
    <3>1. /\ [s EXCEPT ![k] = b] \in Seq(Byte) /\ Len([s EXCEPT ![k] = b]) = n - 1
          /\ \A i \in 1 .. n - 1 : [s EXCEPT ![k] = b][i] = IF i = k THEN b ELSE s[i]
      <4> HIDE DEF s
      <4> QED
        BY <1>2, <2>1, ExceptSeq
    <3>2. /\ Front(changed) \in Seq(Byte) /\ Len(Front(changed)) = n - 1
          /\ \A i \in 1 .. n - 1 : Front(changed)[i] = IF i = k THEN b ELSE s[i]
      BY <1>1, <1>2, <1>a, <1>b
    <3> HIDE DEF s
    <3> QED
      BY <3>1, <3>2, SeqEqual
  <2>3. changed[n] = frame[n]
    BY <1>1, <1>2, <1>5
  <2> HIDE DEF s
  <2>4. PICK rest \in Nat : /\ Total(s) = rest + s[k] /\ Total([s EXCEPT ![k] = b]) = rest + b
                            /\ rest + 255 <= 255 * Len(s)
    <3>1. k \in 1 .. Len(s) /\ s \in Seq(Byte) /\ b \in Byte
      BY <1>2, <2>1
    <3> QED
      BY <3>1, TotalOfChanged
  <2>5. rest + 255 < 65536
    BY <1>1, <2>1, <2>4
  <2>6. Checksum(rest + s[k]) = Checksum(rest + b)
    BY <1>3, <2>2, <2>3, <2>4 DEF s
  <2> QED
    <3> DEFINE a == s[k]
    <3>1. a \in Byte /\ b \in Byte /\ a # b /\ rest \in Nat
      BY <1>2, <2>1, <2>4
    <3>2. Checksum(rest + a) = Checksum(rest + b)
      BY <2>6
    <3> HIDE DEF a
    <3>3. (a = 0 /\ b = 255) \/ (b = 0 /\ a = 255)
      BY <2>5, <3>1, <3>2, OneByteAdded
    <3> QED
      BY <2>1, <3>3 DEF a, b
<1> QED
  BY <1>4, <1>5 DEF b

\* Two frames of the same length that differ in one byte cannot both be intact,
\* unless the byte is 0x00 in one and 0xFF in the other, whatever their length
\* (a payload has at most 255 bytes) and wherever the byte: no other change of
\* a byte escapes the check (FrameBuilder.cpp:96-110, FastLogger.cpp:90-94).
THEOREM ChangedByteDetected ==
    ASSUME NEW frame \in Seq(Byte), NEW changed \in Seq(Byte), NEW k,
           OneByteApart(frame, changed, k), Intact(frame), Intact(changed)
    PROVE  {frame[k], changed[k]} = {0, 255}
  BY ChangedByteIs
=============================================================================
