------------------------- MODULE PacketCodecProofs -------------------------
(***************************************************************************)
(* What handlers read is what clients sent, and no view leaves its buffer: *)
(* for any messages, any keys and any exclusive or that undoes itself.     *)
(***************************************************************************)
EXTENDS PacketCodec, SequenceTheorems, TLAPS

Bytes == Seq(Byte)

-----------------------------------------------------------------------------
(* Numbers.                                                                 *)

\* Of the constant itself most steps only need that it is a number: the prover
\* turns an interval between two numerals into the list of what is in it.
LEMMA TwoBytesIs == TwoBytes = 65536
BY SMT DEF TwoBytes

LEMMA TwoBytesNat == TwoBytes \in Nat \ {0}
BY SMT DEF TwoBytes

LEMMA Division ==
    ASSUME NEW v \in Nat, NEW b \in Nat \ {0}
    PROVE  v \div b \in Nat /\ v % b \in 0..b - 1 /\ b * (v \div b) + (v % b) = v
<1>1. v \div b \in Nat
  OBVIOUS
<1>2. v % b \in 0..b - 1
  OBVIOUS
<1>3. b * (v \div b) + (v % b) = v
  OBVIOUS
<1> QED
  BY <1>1, <1>2, <1>3

\* What lies in both orders: two sequences side by side.
LEMMA SideBySide ==
    ASSUME NEW s \in Bytes, NEW t \in Bytes
    PROVE  /\ s \o t \in Bytes /\ Len(s \o t) = Len(s) + Len(t)
           /\ \A i \in 1..Len(s) : (s \o t)[i] = s[i]
           /\ \A i \in Len(s) + 1..Len(s) + Len(t) : (s \o t)[i] = t[i - Len(s)]
BY ConcatProperties DEF Bytes

LEMMA ShortBytes ==
    ASSUME NEW v \in UInt16
    PROVE  /\ Short(v) \in Bytes /\ Len(Short(v)) = 2
           /\ 256 * Short(v)[1] + Short(v)[2] = v
<1>1. PICK hi, lo : hi = v \div 256 /\ lo = v % 256
  OBVIOUS
<1>2. v \in Nat /\ v < 65536
  <2>1. v \in Nat /\ v < TwoBytes
    BY TwoBytesNat DEF UInt16
  <2> QED
    BY <2>1, TwoBytesIs
<1>3. hi \in Nat /\ lo \in 0..256 - 1 /\ 256 * hi + lo = v
  BY <1>1, <1>2, Division, SMT
<1>4. hi \in Byte /\ lo \in Byte
  BY <1>2, <1>3, SMT DEF Byte
<1>5. Short(v) = <<hi, lo>>
  BY <1>1 DEF Short
<1>6. <<hi, lo>> \in Bytes
  BY <1>4 DEF Bytes
<1>7. Len(<<hi, lo>>) = 2 /\ <<hi, lo>>[1] = hi /\ <<hi, lo>>[2] = lo
  OBVIOUS
<1> QED
  BY <1>3, <1>5, <1>6, <1>7, SMT

LEMMA LongBytes ==
    ASSUME NEW v \in UInt16
    PROVE  /\ Long(v) \in Bytes /\ Len(Long(v)) = 4
           /\ LongAt(Long(v), 0) = v
<1>1. TwoBytes \in Nat \ {0}
  BY TwoBytesNat
<1>2. PICK hi, lo : hi = v \div TwoBytes /\ lo = v % TwoBytes
  OBVIOUS
<1>3. v \in Nat /\ v < TwoBytes
  BY <1>1 DEF UInt16
<1>4. hi \in Nat /\ lo \in 0..TwoBytes - 1 /\ TwoBytes * hi + lo = v
  BY <1>1, <1>2, <1>3, Division
<1>5. hi = 0 /\ lo = v
  <2>1. ~(hi >= 1)
    BY <1>1, <1>3, <1>4
  <2>2. hi = 0
    BY <1>4, <2>1
  <2> QED
    BY <1>1, <1>3, <1>4, <2>2
<1>6. hi \in UInt16 /\ lo \in UInt16
  BY <1>1, <1>5 DEF UInt16
<1>7. PICK s, t : s = Short(hi) /\ t = Short(lo)
  OBVIOUS
<1>8. /\ s \in Bytes /\ Len(s) = 2 /\ 256 * s[1] + s[2] = hi
      /\ t \in Bytes /\ Len(t) = 2 /\ 256 * t[1] + t[2] = lo
  BY <1>6, <1>7, ShortBytes
<1>9. PICK l : l = s \o t
  OBVIOUS
<1>10. l \in Bytes /\ Len(l) = 4 /\ l[1] = s[1] /\ l[2] = s[2] /\ l[3] = t[1] /\ l[4] = t[2]
  <2>1. /\ l \in Bytes /\ Len(l) = Len(s) + Len(t) /\ \A i \in 1..Len(s) : l[i] = s[i]
        /\ \A i \in Len(s) + 1..Len(s) + Len(t) : l[i] = t[i - Len(s)]
    BY <1>8, <1>9, SideBySide
  <2> QED
    BY <1>8, <2>1
<1>11. Long(v) = l
  BY <1>2, <1>7, <1>9 DEF Long
<1>12. ShortAt(l, 0) = hi /\ ShortAt(l, 2) = lo
  BY <1>8, <1>10 DEF ShortAt
<1>13. LongAt(l, 0) = TwoBytes * hi + lo
  BY <1>12 DEF LongAt
<1> QED
  BY <1>4, <1>10, <1>11, <1>13

\* Where a number is read from only its own bytes matter.
LEMMA SameShort ==
    ASSUME NEW s, NEW i \in Nat, NEW t, NEW j \in Nat,
           \A x \in 1..2 : s[i + x] = t[j + x]
    PROVE  ShortAt(s, i) = ShortAt(t, j)
BY DEF ShortAt

LEMMA SameLong ==
    ASSUME NEW s, NEW i \in Nat, NEW t, NEW j \in Nat,
           \A x \in 1..4 : s[i + x] = t[j + x]
    PROVE  LongAt(s, i) = LongAt(t, j)
<1>1. ShortAt(s, i) = ShortAt(t, j)
  BY SameShort
<1>2. ShortAt(s, i + 2) = ShortAt(t, j + 2)
  BY DEF ShortAt
<1> QED
  BY <1>1, <1>2 DEF LongAt

-----------------------------------------------------------------------------
(* The cipher.                                                              *)

LEMMA KeyByte ==
    ASSUME NEW k \in Keys, NEW i \in Nat \ {0}
    PROVE  k[((i - 1) % Len(k)) + 1] \in Byte
<1>1. k \in Bytes /\ Len(k) \in Nat \ {0}
  BY CodecAssumption, EmptySeq DEF Bytes
<1>2. ((i - 1) % Len(k)) + 1 \in 1..Len(k)
  BY <1>1
<1> QED
  BY <1>1, <1>2, ElementOfSeq DEF Bytes

\* Xor keeps the length, and undoes itself.
LEMMA XorUndone ==
    ASSUME NEW s \in Bytes, NEW k \in Keys
    PROVE  /\ Xor(s, k) \in Bytes /\ Len(Xor(s, k)) = Len(s)
           /\ Xor(Xor(s, k), k) = s
<1> DEFINE K(i) == k[((i - 1) % Len(k)) + 1]
           x == Xor(s, k)
<1>1. Len(s) \in Nat /\ \A i \in 1..Len(s) : s[i] \in Byte /\ K(i) \in Byte
  BY KeyByte DEF Bytes
<1>2. \A i \in 1..Len(s) : ByteXor(s[i], K(i)) \in Byte
                           /\ ByteXor(ByteXor(s[i], K(i)), K(i)) = s[i]
  BY <1>1, ByteXorAssumption
<1>3. x = [i \in 1..Len(s) |-> ByteXor(s[i], K(i))]
  BY DEF Xor
<1>4. x \in Bytes /\ Len(x) = Len(s)
  BY <1>1, <1>2, <1>3 DEF Bytes
<1>5. Xor(x, k) = [i \in 1..Len(s) |-> ByteXor(x[i], K(i))]
  BY <1>4 DEF Xor
<1> HIDE DEF x
<1>6. \A i \in 1..Len(s) : Xor(x, k)[i] = s[i]
  BY <1>2, <1>3, <1>5
<1>7. Xor(x, k) = s
  <2>1. Xor(x, k) = [i \in 1..Len(s) |-> s[i]]
    BY <1>5, <1>6
  <2>2. s = [i \in 1..Len(s) |-> s[i]]
    BY DEF Bytes
  <2> QED
    BY <2>1, <2>2
<1> QED
  BY <1>4, <1>7 DEF x

-----------------------------------------------------------------------------
(* A packet.                                                                *)

LEMMA MessageParts ==
    ASSUME NEW m \in Messages
    PROVE  /\ m = [id |-> m.id, meta |-> m.meta, data |-> m.data]
           /\ m.id \in UInt16 /\ m.meta \in Bytes /\ m.data \in Bytes
           /\ Len(m.meta) \in UInt16 /\ Len(m.data) \in UInt16
<1>1. m \in [id: UInt16, meta: Bytes, data: Bytes]
  BY CodecAssumption DEF Bytes
<1>2. PICK k, l : k = Len(m.meta) /\ l = Len(m.data)
  OBVIOUS
<1>3. Body + k + l + 2 <= RecvBufSize
  BY <1>2, CodecAssumption
<1>4. k \in Nat /\ l \in Nat
  BY <1>1, <1>2 DEF Bytes
<1>5. k \in UInt16 /\ l \in UInt16
  <2>1. 10 + k + l + 2 <= 65534
    BY <1>3, SMT DEF Body, RecvBufSize
  <2>2. k <= 65534 /\ l <= 65534
    BY <1>4, <2>1, SMT
  <2>3. k <= TwoBytes - 1 /\ l <= TwoBytes - 1
    BY <1>4, <2>2, TwoBytesIs, SMT
  <2> QED
    BY <1>4, <2>3, TwoBytesNat DEF UInt16
<1> QED
  BY <1>1, <1>2, <1>5

LEMMA SameHeader ==
    ASSUME NEW s, NEW t, \A x \in 1..10 : s[x] = t[x]
    PROVE  ShortAt(s, 2) = ShortAt(t, 2) /\ MetaSize(s) = MetaSize(t) /\ DataSize(s) = DataSize(t)
<1>1. \A x \in 1..2 : s[2 + x] = t[2 + x]
  OBVIOUS
<1>2. \A x \in 1..2 : s[4 + x] = t[4 + x]
  OBVIOUS
<1>3. \A x \in 1..4 : s[6 + x] = t[6 + x]
  OBVIOUS
<1>4. MetaSize(s) = MetaSize(t)
  BY <1>2, SameShort DEF MetaSize
<1>5. DataSize(s) = DataSize(t)
  BY <1>3, SameLong DEF DataSize
<1> QED
  BY <1>1, <1>4, <1>5, SameShort

\* Its header says what it is and how long its parts are.
LEMMA HeaderBytes ==
    ASSUME NEW m \in Messages
    PROVE  /\ Header(m) \in Bytes /\ Len(Header(m)) = Body
           /\ ShortAt(Header(m), 2) = m.id
           /\ MetaSize(Header(m)) = Len(m.meta)
           /\ DataSize(Header(m)) = Len(m.data)
<1>1. PICK a, b, c, d : /\ a = Short(MagicStart) /\ b = Short(m.id)
                        /\ c = Short(Len(m.meta)) /\ d = Long(Len(m.data))
  OBVIOUS
<1>2. MagicStart \in UInt16
  BY TwoBytesIs, SMT DEF MagicStart, UInt16
<1>3. /\ a \in Bytes /\ Len(a) = 2 /\ b \in Bytes /\ Len(b) = 2
      /\ c \in Bytes /\ Len(c) = 2 /\ d \in Bytes /\ Len(d) = 4
  BY <1>1, <1>2, MessageParts, ShortBytes, LongBytes
<1>4. ShortAt(b, 0) = m.id /\ ShortAt(c, 0) = Len(m.meta) /\ LongAt(d, 0) = Len(m.data)
  BY <1>1, MessageParts, ShortBytes, LongBytes DEF ShortAt
<1>5. PICK ab, cd : ab = a \o b /\ cd = c \o d
  OBVIOUS
<1>6. /\ ab \in Bytes /\ Len(ab) = 4
      /\ \A x \in 1..2 : ab[2 + x] = b[0 + x]
  <2>1. /\ ab \in Bytes /\ Len(ab) = Len(a) + Len(b)
        /\ \A i \in Len(a) + 1..Len(a) + Len(b) : ab[i] = b[i - Len(a)]
    BY <1>3, <1>5, SideBySide
  <2> QED
    BY <1>3, <2>1
<1>7. /\ cd \in Bytes /\ Len(cd) = 6
      /\ \A x \in 1..2 : cd[x] = c[x]
      /\ \A x \in 1..4 : cd[2 + x] = d[x]
  <2>1. /\ cd \in Bytes /\ Len(cd) = Len(c) + Len(d) /\ \A i \in 1..Len(c) : cd[i] = c[i]
        /\ \A i \in Len(c) + 1..Len(c) + Len(d) : cd[i] = d[i - Len(c)]
    BY <1>3, <1>5, SideBySide
  <2> QED
    BY <1>3, <2>1
<1>8. PICK h : h = ab \o cd
  OBVIOUS
<1>9. /\ h \in Bytes /\ Len(h) = 10
      /\ \A x \in 1..4 : h[x] = ab[x]
      /\ \A x \in 1..6 : h[4 + x] = cd[x]
  <2>1. /\ h \in Bytes /\ Len(h) = Len(ab) + Len(cd) /\ \A i \in 1..Len(ab) : h[i] = ab[i]
        /\ \A i \in Len(ab) + 1..Len(ab) + Len(cd) : h[i] = cd[i - Len(ab)]
    BY <1>6, <1>7, <1>8, SideBySide
  <2> QED
    BY <1>6, <1>7, <2>1
<1>10. Header(m) = h
  BY <1>1, <1>5, <1>8 DEF Header
<1>11. ShortAt(h, 2) = ShortAt(b, 0)
  <2>1. \A x \in 1..2 : h[2 + x] = b[0 + x]
    BY <1>6, <1>9
  <2> QED
    BY <2>1, SameShort
<1>12. MetaSize(h) = ShortAt(c, 0)
  <2>1. \A x \in 1..2 : h[4 + x] = c[0 + x]
    BY <1>7, <1>9
  <2> QED
    BY <2>1, SameShort DEF MetaSize
<1>13. DataSize(h) = LongAt(d, 0)
  <2>1. \A x \in 1..4 : h[6 + x] = d[0 + x]
    BY <1>7, <1>9
  <2> QED
    BY <2>1, SameLong DEF DataSize
<1> QED
  BY <1>4, <1>9, <1>10, <1>11, <1>12, <1>13 DEF Body

\* The packet is its header, its parts and two bytes more.
LEMMA EncodeBytes ==
    ASSUME NEW m \in Messages
    PROVE  /\ Encode(m) \in Bytes
           /\ Len(Encode(m)) = Body + Len(m.meta) + Len(m.data) + 2
           /\ \A x \in 1..Body : Encode(m)[x] = Header(m)[x]
           /\ \A x \in 1..Len(m.meta) : Encode(m)[Body + x] = m.meta[x]
           /\ \A x \in 1..Len(m.data) : Encode(m)[Body + Len(m.meta) + x] = m.data[x]
<1>1. PICK h, z : h = Header(m) /\ z = Short(MagicEnd)
  OBVIOUS
<1>2. MagicEnd \in UInt16
  BY TwoBytesIs, SMT DEF MagicEnd, UInt16
<1>3. h \in Bytes /\ Len(h) = Body /\ z \in Bytes /\ Len(z) = 2
  BY <1>1, <1>2, HeaderBytes, ShortBytes
<1>4. PICK a, b : a = m.meta /\ b = m.data
  OBVIOUS
<1>5. a \in Bytes /\ b \in Bytes /\ Len(a) \in Nat /\ Len(b) \in Nat /\ Body \in Nat
  BY <1>4, MessageParts DEF Body, Bytes
<1>6. PICK ha, bz : ha = h \o a /\ bz = b \o z
  OBVIOUS
<1>7. /\ ha \in Bytes /\ Len(ha) = Body + Len(a)
      /\ \A x \in 1..Body : ha[x] = h[x]
      /\ \A x \in Body + 1..Body + Len(a) : ha[x] = a[x - Body]
  BY <1>3, <1>5, <1>6, SideBySide
<1>8. /\ bz \in Bytes /\ Len(bz) = Len(b) + 2
      /\ \A x \in 1..Len(b) : bz[x] = b[x]
  <2>1. bz \in Bytes /\ Len(bz) = Len(b) + Len(z) /\ \A x \in 1..Len(b) : bz[x] = b[x]
    BY <1>3, <1>5, <1>6, SideBySide
  <2> QED
    BY <1>3, <2>1
<1>9. PICK e : e = ha \o bz
  OBVIOUS
<1>10. Encode(m) = e
  BY <1>1, <1>4, <1>6, <1>9 DEF Encode
<1>11. /\ e \in Bytes /\ Len(e) = Len(ha) + Len(bz)
       /\ \A x \in 1..Len(ha) : e[x] = ha[x]
       /\ \A x \in Len(ha) + 1..Len(ha) + Len(bz) : e[x] = bz[x - Len(ha)]
  BY <1>7, <1>8, <1>9, SideBySide
<1>12. \A x \in 1..Body : e[x] = h[x]
  BY <1>5, <1>7, <1>11
<1>13. \A x \in 1..Len(a) : e[Body + x] = a[x]
  BY <1>5, <1>7, <1>11
<1>14. \A x \in 1..Len(b) : e[Body + Len(a) + x] = b[x]
  BY <1>5, <1>7, <1>8, <1>11
<1>15. Len(e) = Body + Len(a) + Len(b) + 2
  BY <1>5, <1>7, <1>8, <1>11
<1> QED
  BY <1>1, <1>4, <1>10, <1>11, <1>12, <1>13, <1>14, <1>15

\* What is found in a sequence where another one lies is the other one.
LEMMA Slice ==
    ASSUME NEW s \in Bytes, NEW t \in Bytes, NEW at \in Nat, at + Len(t) <= Len(s),
           \A x \in 1..Len(t) : s[at + x] = t[x]
    PROVE  SubSeq(s, at + 1, at + Len(t)) = t
<1>1. Len(t) \in Nat /\ Len(s) \in Nat
  BY DEF Bytes
<1>2. PICK l, p : l = Len(t) /\ p = SubSeq(s, at + 1, at + l)
  BY <1>1
<1>3. \A i \in at + 1..at + l : s[i] \in Byte
  BY <1>1, <1>2, ElementOfSeq DEF Bytes
<1>4. /\ p \in Seq(Byte) /\ Len(p) = l
      /\ \A x \in 1..l : p[x] = s[at + x]
  <2>1. /\ p \in Seq(Byte)
        /\ Len(p) = IF at + 1 <= at + l THEN (at + l) - (at + 1) + 1 ELSE 0
        /\ \A x \in 1..(at + l) - (at + 1) + 1 : p[x] = s[at + 1 + x - 1]
    BY <1>2, <1>3, SubSeqProperties
  <2>2. l \in Nat
    BY <1>1, <1>2
  <2> QED
    BY <2>1, <2>2
<1>5. p = t
  BY <1>2, <1>4, SeqEqual DEF Bytes
<1> QED
  BY <1>2, <1>5

\* A packet cut short is none, and a whole one has in it what was sent.
LEMMA WholeOnly ==
    ASSUME NEW m \in Messages, NEW n \in 0..Len(Encode(m)),
           NEW d, d = SubSeq(Encode(m), 1, n), Parses(d)
    PROVE  /\ n = Len(Encode(m))
           /\ ShortAt(d, 2) = m.id
           /\ SubSeq(d, Body + 1, Body + MetaSize(d)) = m.meta
           /\ SubSeq(d, Body + MetaSize(d) + 1, Body + MetaSize(d) + DataSize(d)) = m.data
<1>1. PICK e, h, a, b : e = Encode(m) /\ h = Header(m) /\ a = m.meta /\ b = m.data
  OBVIOUS
<1>2. PICK la, lb : la = Len(a) /\ lb = Len(b)
  OBVIOUS
<1>3. a \in Bytes /\ b \in Bytes /\ la \in Nat /\ lb \in Nat
  BY <1>1, <1>2, MessageParts DEF Bytes
<1>4. /\ e \in Bytes /\ Len(e) = Body + la + lb + 2
      /\ \A x \in 1..Body : e[x] = h[x]
      /\ \A x \in 1..la : e[Body + x] = a[x]
      /\ \A x \in 1..lb : e[Body + la + x] = b[x]
  BY <1>1, <1>2, EncodeBytes
<1>5. ShortAt(h, 2) = m.id /\ MetaSize(h) = la /\ DataSize(h) = lb
  BY <1>1, <1>2, HeaderBytes
<1>6. Len(e) \in Nat /\ n \in 0..Len(e) /\ d = SubSeq(e, 1, n)
  BY <1>1, <1>4 DEF Bytes
<1>7. /\ d \in Bytes /\ Len(d) = n
      /\ \A x \in 1..n : d[x] = e[x]
  <2>1. \A i \in 1..n : e[i] \in Byte
    BY <1>4, <1>6, ElementOfSeq DEF Bytes
  <2>2. /\ d \in Seq(Byte) /\ Len(d) = IF 1 <= n THEN n - 1 + 1 ELSE 0
        /\ \A x \in 1..n - 1 + 1 : d[x] = e[1 + x - 1]
    BY <1>6, <2>1, SubSeqProperties
  <2> QED
    BY <1>6, <2>2 DEF Bytes
<1>8. n >= 10
  BY <1>6, <1>7 DEF Parses, CanReadBytes, Body
<1>9. ShortAt(d, 2) = m.id /\ MetaSize(d) = la /\ DataSize(d) = lb
  <2>1. \A x \in 1..10 : d[x] = h[x]
    BY <1>4, <1>6, <1>7, <1>8 DEF Body
  <2> QED
    BY <1>5, <2>1, SameHeader
<1>10. n = Len(e)
  <2>1. n >= Body + la + lb + 2
    BY <1>7, <1>9 DEF Parses, CanReadBytes
  <2> QED
    BY <1>3, <1>4, <1>6, <2>1 DEF Body
<1>11. SubSeq(d, Body + 1, Body + la) = a
  <2>1. \A x \in 1..la : d[Body + x] = a[x]
    <3> SUFFICES ASSUME NEW x \in 1..la PROVE d[Body + x] = a[x]
      OBVIOUS
    <3>1. Body + x \in 1..n
      BY <1>3, <1>4, <1>10 DEF Body
    <3> QED
      BY <1>4, <1>7, <3>1
  <2>2. Body \in Nat /\ Body + la <= Len(d)
    BY <1>3, <1>4, <1>7, <1>10 DEF Body
  <2> QED
    BY <1>2, <1>3, <1>7, <2>1, <2>2, Slice
<1>12. SubSeq(d, Body + la + 1, Body + la + lb) = b
  <2>1. PICK at : at = Body + la
    OBVIOUS
  <2>2. at \in Nat /\ at + lb <= Len(d)
    BY <1>3, <1>4, <1>7, <1>10, <2>1 DEF Body
  <2>3. \A x \in 1..lb : d[at + x] = b[x]
    BY <1>3, <1>4, <1>6, <1>7, <1>10, <2>1 DEF Body
  <2> QED
    BY <1>2, <1>3, <1>7, <2>1, <2>2, <2>3, Slice
<1> QED
  BY <1>1, <1>9, <1>10, <1>11, <1>12

-----------------------------------------------------------------------------
(* The invariant.                                                           *)

\* How many messages have been taken from the wire, and how many of them are
\* done with: the last is in hand until it has become a packet or been rejected.
Taken == Len(sent) - Len(wire)
Done == IF pc = "recv" THEN Taken ELSE Taken - 1

\* What was to be read in a message that was sent, and what came of it.
Plain(s) == SubSeq(Encode(s.msg), 1, s.size)
Cipher(s) == Xor(Plain(s), s.key)

Sendings == [msg: Messages, size: Nat, key: Keys]
Readings == [id: UInt16, meta: Bytes, data: Bytes]
Packets == [of: Nat, id: UInt16, meta: Bytes, buf: Nat, at: Nat, len: Nat]

SentInv ==
    /\ key \in Keys /\ sent \in Seq(Sendings)
    /\ \A i \in 1..Len(sent) : sent[i].size \in 0..Len(Encode(sent[i].msg))

WireInv ==
    /\ wire \in Seq(Bytes) /\ Len(wire) <= Len(sent)
    /\ \A i \in 1..Len(wire) : wire[i] = Cipher(sent[Taken + i])

\* The message in hand is in the buffer, and decrypted then at the heap's end.
HandInv ==
    /\ pc \in {"recv", "xor", "parse"}
    /\ recvBuf \in Bytes /\ size \in 0..Len(recvBuf)
    /\ heap \in Seq(Bytes) /\ dec \in 0..Len(heap)
    /\ pc # "recv" => Taken >= 1 /\ SubSeq(recvBuf, 1, size) = Cipher(sent[Taken])
    /\ pc = "parse" => /\ dec \in 1..Len(heap) /\ Len(heap[dec]) = size
                       /\ heap[dec] = Xor(Cipher(sent[Taken]), key)

\* Of a message under the server's key, what has been read is what was sent.
Right(i, msg) == Ours(i) => Good(i) /\ msg = sent[i].msg

View(p) == SubSeq(heap[p.buf], p.at + 1, p.at + p.len)

PacketInv(p) ==
    /\ p.of \in 1..Done
    /\ p.buf \in 1..Len(heap) /\ p.at + p.len <= Len(heap[p.buf])
    /\ Right(p.of, [id |-> p.id, meta |-> p.meta, data |-> View(p)])

QueueInv ==
    /\ queue \in Seq(Packets)
    /\ \A j \in 1..Len(queue) : PacketInv(queue[j])

HandledInv ==
    /\ handled \in Seq([of: Nat, msg: Readings])
    /\ \A j \in 1..Len(handled) :
        handled[j].of \in 1..Done /\ Right(handled[j].of, handled[j].msg)

\* Packets are in the order of their messages, and handled in it.
OrderInv ==
    /\ \A i, j \in 1..Len(handled) : i < j => handled[i].of < handled[j].of
    /\ \A i, j \in 1..Len(queue) : i < j => queue[i].of < queue[j].of
    /\ \A i \in 1..Len(handled), j \in 1..Len(queue) : handled[i].of < queue[j].of

CodecInv == SentInv /\ WireInv /\ HandInv /\ QueueInv /\ HandledInv /\ OrderInv

LEMMA InitInv == Init => CodecInv
<1> SUFFICES ASSUME Init PROVE CodecInv
  OBVIOUS
<1>1. /\ sent \in Seq(Sendings) /\ wire \in Seq(Bytes) /\ heap \in Seq(Bytes)
      /\ queue \in Seq(Packets) /\ handled \in Seq([of: Nat, msg: Readings])
      /\ recvBuf \in Bytes
  BY EmptySeq DEF Init, Bytes
<1>2. Len(sent) = 0 /\ Len(wire) = 0 /\ Len(heap) = 0 /\ Len(queue) = 0 /\ Len(handled) = 0
      /\ Len(recvBuf) = 0
  BY EmptySeq DEF Init
<1>3. SentInv /\ WireInv /\ HandInv
  BY <1>1, <1>2 DEF Init, SentInv, WireInv, HandInv
<1>4. QueueInv /\ HandledInv /\ OrderInv
  BY <1>1, <1>2 DEF QueueInv, HandledInv, OrderInv
<1> QED
  BY <1>3, <1>4 DEF CodecInv

\* What was sent stays, and what was decrypted: histories and heap only grow.
Kept ==
    /\ key' = key
    /\ Len(sent) <= Len(sent') /\ \A i \in 1..Len(sent) : sent'[i] = sent[i]
    /\ Len(heap) <= Len(heap') /\ \A b \in 1..Len(heap) : heap'[b] = heap[b]
    /\ Done <= Done' /\ Done \in Int /\ Done' \in Int /\ Done <= Len(sent)
    /\ Len(sent) \in Nat /\ Len(sent') \in Nat /\ Len(heap) \in Nat /\ Len(heap') \in Nat

LEMMA RightKept ==
    ASSUME Kept, NEW i \in 1..Done, NEW msg, Right(i, msg)
    PROVE  Right(i, msg)'
<1>1. sent'[i] = sent[i] /\ key' = key
  BY DEF Kept
<1>2. Ours(i)' <=> Ours(i)
  BY <1>1 DEF Ours
<1>3. Good(i)' <=> Good(i)
  BY <1>1, <1>2 DEF Good
<1> QED
  BY <1>1, <1>2, <1>3 DEF Right

LEMMA PacketKept ==
    ASSUME Kept, NEW p \in Packets, PacketInv(p)
    PROVE  PacketInv(p)'
<1>1. p.of \in 1..Done /\ p.buf \in 1..Len(heap)
  BY DEF PacketInv
<1>2. heap'[p.buf] = heap[p.buf]
  BY <1>1 DEF Kept
<1>3. View(p)' = View(p)
  BY <1>2 DEF View
<1>4. Right(p.of, [id |-> p.id, meta |-> p.meta, data |-> View(p)])'
  <2>1. Right(p.of, [id |-> p.id, meta |-> p.meta, data |-> View(p)])
    BY DEF PacketInv
  <2> QED
    BY <1>1, <1>3, <2>1, RightKept
<1>5. p.of \in 1..Done' /\ p.buf \in 1..Len(heap')
  BY <1>1 DEF Kept
<1> QED
  BY <1>2, <1>4, <1>5 DEF PacketInv

LEMMA QueueKept ==
    ASSUME Kept, QueueInv, queue' = queue
    PROVE  QueueInv'
<1>1. \A j \in 1..Len(queue) : queue[j] \in Packets /\ PacketInv(queue[j])
  BY ElementOfSeq DEF QueueInv
<1>2. \A j \in 1..Len(queue) : PacketInv(queue[j])'
  <2> SUFFICES ASSUME NEW j \in 1..Len(queue) PROVE PacketInv(queue[j])'
    OBVIOUS
  <2>1. PICK p \in Packets : p = queue[j] /\ PacketInv(p)
    BY <1>1
  <2>2. PacketInv(p)'
    BY <2>1, PacketKept
  <2>3. queue'[j] = p
    BY <2>1
  <2> QED
    BY <2>2, <2>3
<1> QED
  BY <1>2 DEF QueueInv

LEMMA HandledKept ==
    ASSUME Kept, HandledInv, handled' = handled
    PROVE  HandledInv'
<1>1. \A j \in 1..Len(handled) :
        handled[j].of \in 1..Done /\ Right(handled[j].of, handled[j].msg)
  BY DEF HandledInv
<1>2. ASSUME NEW j \in 1..Len(handled)
      PROVE  handled'[j].of \in 1..Done' /\ Right(handled[j].of, handled[j].msg)'
  <2>1. PICK i, msg : i = handled[j].of /\ msg = handled[j].msg
    OBVIOUS
  <2>2. i \in 1..Done /\ Right(i, msg)
    BY <1>1, <2>1
  <2>3. Right(i, msg)'
    BY <2>2, RightKept
  <2>4. i \in 1..Done'
    BY <2>2 DEF Kept
  <2>5. handled'[j].of = i /\ handled'[j].msg = msg
    BY <2>1
  <2> QED
    BY <2>3, <2>4, <2>5
<1> QED
  BY <1>2 DEF HandledInv

\* The others of the invariants, where their variables are left alone.
LEMMA Lengths ==
    ASSUME CodecInv
    PROVE  /\ Len(sent) \in Nat /\ Len(wire) \in Nat /\ Len(heap) \in Nat
           /\ Len(queue) \in Nat /\ Len(handled) \in Nat
           /\ Len(wire) <= Len(sent) /\ Taken \in Nat /\ Done \in Nat /\ Done <= Taken
BY DEF CodecInv, SentInv, WireInv, HandInv, QueueInv, HandledInv, Taken, Done, Bytes

LEMMA CipherBytes ==
    ASSUME NEW s \in Sendings, s.size \in 0..Len(Encode(s.msg))
    PROVE  /\ Plain(s) \in Bytes /\ Len(Plain(s)) = s.size
           /\ Cipher(s) \in Bytes /\ Len(Cipher(s)) = s.size
<1>1. PICK m, n, k, e : m = s.msg /\ n = s.size /\ k = s.key /\ e = Encode(m)
  OBVIOUS
<1>2. m \in Messages /\ k \in Keys
  BY <1>1 DEF Sendings
<1>3. e \in Bytes /\ Len(e) \in Nat /\ n \in 0..Len(e)
  BY <1>1, <1>2, EncodeBytes DEF Bytes
<1>4. PICK p : p = SubSeq(e, 1, n)
  OBVIOUS
<1>5. p \in Bytes /\ Len(p) = n
  <2>1. \A i \in 1..n : e[i] \in Byte
    BY <1>3, ElementOfSeq DEF Bytes
  <2>2. p \in Seq(Byte) /\ Len(p) = IF 1 <= n THEN n - 1 + 1 ELSE 0
    BY <1>3, <1>4, <2>1, SubSeqProperties
  <2> QED
    BY <1>3, <2>2 DEF Bytes
<1>6. Plain(s) = p
  BY <1>1, <1>4 DEF Plain
<1>7. Cipher(s) = Xor(p, k)
  BY <1>1, <1>6 DEF Cipher
<1> QED
  BY <1>1, <1>2, <1>5, <1>6, <1>7, XorUndone

LEMMA SendStep ==
    ASSUME CodecInv, NEW m \in Messages, NEW k \in Keys, NEW n \in 0..Len(Encode(m)),
           ClientSend(m, n, k)
    PROVE  CodecInv'
<1>1. PICK s : s = [msg |-> m, size |-> n, key |-> k]
  OBVIOUS
<1>2. s \in Sendings /\ s.msg = m /\ s.size = n /\ s.key = k
  <2>1. n \in Nat
    BY EncodeBytes DEF Bytes
  <2> QED
    BY <1>1, <2>1 DEF Sendings
<1>3. s.size \in 0..Len(Encode(s.msg))
  BY <1>2, Zenon
<1>4. PICK c : c = Cipher(s)
  OBVIOUS
<1>5. c \in Bytes
  BY <1>2, <1>3, <1>4, CipherBytes
<1>6. sent' = Append(sent, s) /\ wire' = Append(wire, c)
  BY <1>1, <1>2, <1>4, Zenon DEF ClientSend, Cipher, Plain
<1>7. /\ key' = key /\ pc' = pc /\ recvBuf' = recvBuf /\ size' = size /\ heap' = heap
      /\ dec' = dec /\ queue' = queue /\ handled' = handled
  BY DEF ClientSend, ioVars, handlerVars
<1>8. /\ sent \in Seq(Sendings) /\ wire \in Seq(Bytes) /\ key \in Keys
      /\ \A i \in 1..Len(sent) : sent[i].size \in 0..Len(Encode(sent[i].msg))
      /\ \A i \in 1..Len(wire) : wire[i] = Cipher(sent[Taken + i])
  BY DEF CodecInv, SentInv, WireInv
<1>9. /\ Len(sent) \in Nat /\ Len(wire) \in Nat /\ Len(wire) <= Len(sent) /\ Taken \in Nat
      /\ Taken = Len(sent) - Len(wire) /\ Done \in Nat /\ Done <= Taken /\ Len(heap) \in Nat
  BY Lengths DEF Taken
<1>10. /\ sent' \in Seq(Sendings) /\ Len(sent') = Len(sent) + 1
       /\ \A i \in 1..Len(sent) : sent'[i] = sent[i]
       /\ sent'[Len(sent) + 1] = s
  BY <1>2, <1>6, <1>8, AppendProperties
<1>11. /\ wire' \in Seq(Bytes) /\ Len(wire') = Len(wire) + 1
       /\ \A i \in 1..Len(wire) : wire'[i] = wire[i]
       /\ wire'[Len(wire) + 1] = c
  BY <1>5, <1>6, <1>8, AppendProperties
<1>12. Taken' = Taken /\ Done' = Done
  <2>1. Taken' = Taken
    BY <1>9, <1>10, <1>11 DEF Taken
  <2> QED
    BY <1>7, <2>1 DEF Done
<1>13. Kept
  BY <1>7, <1>9, <1>10, <1>12 DEF Kept
<1>14. SentInv'
  <2>1. \A i \in 1..Len(sent') : sent'[i].size \in 0..Len(Encode(sent'[i].msg))
    <3> SUFFICES ASSUME NEW i \in 1..Len(sent')
                 PROVE  sent'[i].size \in 0..Len(Encode(sent'[i].msg))
      OBVIOUS
    <3>1. CASE i \in 1..Len(sent)
      BY <1>8, <1>10, <3>1, Zenon
    <3>2. CASE i = Len(sent) + 1
      BY <1>3, <1>10, <3>2, Zenon
    <3> QED
      BY <1>9, <1>10, <3>1, <3>2
  <2> QED
    BY <1>7, <1>8, <1>10, <2>1 DEF SentInv
<1>15. WireInv'
  <2>1. \A i \in 1..Len(wire') : wire'[i] = Cipher(sent'[Taken + i])
    <3> SUFFICES ASSUME NEW i \in 1..Len(wire') PROVE wire'[i] = Cipher(sent'[Taken + i])
      OBVIOUS
    <3>1. CASE i \in 1..Len(wire)
      <4>1. Taken + i \in 1..Len(sent)
        BY <1>9, <3>1
      <4> QED
        BY <1>8, <1>10, <1>11, <3>1, <4>1, Zenon
    <3>2. CASE i = Len(wire) + 1
      <4>1. Taken + i = Len(sent) + 1
        BY <1>9, <3>2
      <4> QED
        BY <1>4, <1>10, <1>11, <3>2, <4>1, Zenon
    <3> QED
      BY <1>9, <1>11, <3>1, <3>2
  <2>2. Len(wire') <= Len(sent')
    BY <1>9, <1>10, <1>11
  <2> QED
    BY <1>11, <1>12, <2>1, <2>2, Zenon DEF WireInv, Cipher, Plain
<1>16. HandInv'
  <2>1. HandInv
    BY DEF CodecInv
  <2>2. pc # "recv" => sent'[Taken] = sent[Taken]
    <3> SUFFICES ASSUME pc # "recv" PROVE sent'[Taken] = sent[Taken]
      OBVIOUS
    <3>1. Taken >= 1
      BY <2>1 DEF HandInv
    <3>2. Taken \in 1..Len(sent)
      BY <1>9, <3>1
    <3> QED
      BY <1>10, <3>2
  <2> QED
    BY <1>7, <1>12, <2>1, <2>2 DEF HandInv, Cipher, Plain
<1>17. QueueInv' /\ HandledInv'
  BY <1>7, <1>13, QueueKept, HandledKept DEF CodecInv
<1>18. OrderInv'
  BY <1>7 DEF CodecInv, OrderInv
<1> QED
  BY <1>14, <1>15, <1>16, <1>17, <1>18 DEF CodecInv

LEMMA SentCiphers ==
    ASSUME CodecInv, NEW i \in 1..Len(sent)
    PROVE  /\ sent[i] \in Sendings /\ sent[i].size \in 0..Len(Encode(sent[i].msg))
           /\ Cipher(sent[i]) \in Bytes /\ Len(Cipher(sent[i])) = sent[i].size
           /\ Plain(sent[i]) \in Bytes /\ Len(Plain(sent[i])) = sent[i].size
<1>1. sent[i] \in Sendings /\ sent[i].size \in 0..Len(Encode(sent[i].msg))
  BY ElementOfSeq DEF CodecInv, SentInv
<1> QED
  BY <1>1, CipherBytes

LEMMA ReceiveStep ==
    ASSUME CodecInv, Receive
    PROVE  CodecInv'
<1>1. /\ pc = "recv" /\ pc' = "xor" /\ wire # <<>> /\ wire' = Tail(wire)
      /\ key' = key /\ sent' = sent /\ heap' = heap /\ dec' = dec
      /\ queue' = queue /\ handled' = handled
  BY DEF Receive, handlerVars
<1>2. /\ wire \in Seq(Bytes) /\ recvBuf \in Bytes
      /\ \A i \in 1..Len(wire) : wire[i] = Cipher(sent[Taken + i])
  BY DEF CodecInv, WireInv, HandInv
<1>3. /\ Len(sent) \in Nat /\ Len(wire) \in Nat /\ Len(wire) <= Len(sent) /\ Taken \in Nat
      /\ Taken = Len(sent) - Len(wire) /\ Done = Taken /\ Len(heap) \in Nat
  BY <1>1, Lengths DEF Taken, Done
<1>4. /\ Len(wire) >= 1 /\ wire' \in Seq(Bytes) /\ Len(wire') = Len(wire) - 1
      /\ \A i \in 1..Len(wire) - 1 : wire'[i] = wire[i + 1]
  <2>1. /\ Tail(wire) \in Seq(Bytes) /\ Len(Tail(wire)) = Len(wire) - 1
        /\ \A i \in 1..Len(Tail(wire)) : Tail(wire)[i] = wire[i + 1]
    BY <1>1, <1>2, HeadTailProperties
  <2>2. Len(wire) >= 1
    BY <1>1, <1>2, <1>3, EmptySeq
  <2> QED
    BY <1>1, <2>1, <2>2
<1>5. Taken' = Taken + 1 /\ Done' = Taken
  <2>1. Taken' = Taken + 1
    BY <1>1, <1>3, <1>4 DEF Taken
  <2> QED
    BY <1>1, <1>3, <2>1 DEF Done
<1>6. PICK c, old : c = Head(wire) /\ old = SubSeq(recvBuf, size' + 1, Len(recvBuf))
  OBVIOUS
<1>7. size' = Len(c) /\ recvBuf' = c \o old
  BY <1>6 DEF Receive
<1>8. c = Cipher(sent[Taken + 1]) /\ c \in Bytes /\ Len(c) \in Nat
  <2>1. c = wire[1]
    BY <1>2, <1>4, <1>6
  <2>2. c \in Bytes
    BY <1>2, <1>4, <2>1, ElementOfSeq
  <2> QED
    BY <1>2, <1>4, <2>1, <2>2 DEF Bytes
<1>9. old \in Bytes /\ Len(old) \in Nat
  <2>1. Len(recvBuf) \in Nat
    BY <1>2 DEF Bytes
  <2>2. \A i \in size' + 1..Len(recvBuf) : recvBuf[i] \in Byte
    BY <1>2, <1>7, <1>8, <2>1, ElementOfSeq DEF Bytes
  <2>3. old \in Seq(Byte)
    BY <1>6, <1>7, <1>8, <2>1, <2>2, SubSeqProperties
  <2> QED
    BY <2>3 DEF Bytes
<1>10. /\ recvBuf' \in Bytes /\ size' \in 0..Len(recvBuf')
       /\ SubSeq(recvBuf', 1, size') = c
  <2>1. PICK b : b = c \o old
    OBVIOUS
  <2>2. b \in Bytes /\ Len(b) = Len(c) + Len(old) /\ \A x \in 1..Len(c) : b[0 + x] = c[x]
    BY <1>8, <1>9, <2>1, SideBySide
  <2>3. SubSeq(b, 0 + 1, 0 + Len(c)) = c
    BY <1>8, <1>9, <2>2, Slice
  <2>4. SubSeq(b, 1, Len(c)) = c
    BY <1>8, <2>3
  <2> QED
    BY <1>7, <1>8, <1>9, <2>1, <2>2, <2>4
<1>11. SentInv'
  BY <1>1 DEF CodecInv, SentInv
<1>12. WireInv'
  <2>1. \A i \in 1..Len(wire) - 1 : wire'[i] = Cipher(sent[Taken + 1 + i])
    <3> SUFFICES ASSUME NEW i \in 1..Len(wire) - 1 PROVE wire'[i] = Cipher(sent[Taken + 1 + i])
      OBVIOUS
    <3>1. i + 1 \in 1..Len(wire) /\ Taken + (i + 1) = Taken + 1 + i
      BY <1>3
    <3>2. wire'[i] = wire[i + 1]
      BY <1>4
    <3>3. wire[i + 1] = Cipher(sent[Taken + (i + 1)])
      BY <1>2, <3>1, Zenon
    <3> QED
      BY <3>1, <3>2, <3>3, Zenon
  <2> QED
    BY <1>1, <1>3, <1>4, <1>5, <2>1 DEF WireInv, Cipher, Plain
<1>13. HandInv'
  <2>1. HandInv
    BY DEF CodecInv
  <2>2. (Taken >= 1)' /\ SubSeq(recvBuf', 1, size') = Cipher(sent[Taken])'
    BY <1>1, <1>3, <1>5, <1>8, <1>10 DEF Cipher, Plain
  <2> QED
    BY <1>1, <1>10, <2>1, <2>2 DEF HandInv
<1>14. Kept
  BY <1>1, <1>3, <1>5 DEF Kept
<1>15. QueueInv' /\ HandledInv'
  BY <1>1, <1>14, QueueKept, HandledKept DEF CodecInv
<1>16. OrderInv'
  BY <1>1 DEF CodecInv, OrderInv
<1> QED
  BY <1>11, <1>12, <1>13, <1>15, <1>16 DEF CodecInv

LEMMA DecryptStep ==
    ASSUME CodecInv, Decrypt
    PROVE  CodecInv'
<1>1. /\ pc = "xor" /\ pc' = "parse" /\ key' = key /\ sent' = sent /\ wire' = wire
      /\ recvBuf' = recvBuf /\ size' = size /\ queue' = queue /\ handled' = handled
      /\ heap' = Append(heap, Xor(SubSeq(recvBuf, 1, size), key)) /\ dec' = Len(heap')
  BY DEF Decrypt, handlerVars
<1>2. /\ Len(sent) \in Nat /\ Len(wire) \in Nat /\ Len(wire) <= Len(sent) /\ Taken \in Nat
      /\ Taken = Len(sent) - Len(wire) /\ Len(heap) \in Nat /\ Done \in Nat /\ Done <= Taken
  BY Lengths DEF Taken
<1>3. /\ Taken >= 1 /\ SubSeq(recvBuf, 1, size) = Cipher(sent[Taken])
      /\ recvBuf \in Bytes /\ size \in 0..Len(recvBuf) /\ heap \in Seq(Bytes)
      /\ key \in Keys
  BY <1>1 DEF CodecInv, HandInv, SentInv
<1>4. Taken \in 1..Len(sent)
  BY <1>2, <1>3
<1>5. PICK c, x : c = Cipher(sent[Taken]) /\ x = Xor(c, key)
  OBVIOUS
<1>6. c \in Bytes /\ x \in Bytes /\ Len(x) = Len(c) /\ Len(c) = size
  <2>1. c \in Bytes
    BY <1>4, <1>5, SentCiphers
  <2>2. Len(c) = size
    <3>1. PICK l \in Nat : l = Len(recvBuf)
      BY <1>3 DEF Bytes
    <3>2. \A i \in 1..size : recvBuf[i] \in Byte
      BY <1>3, <3>1, ElementOfSeq DEF Bytes
    <3>3. Len(SubSeq(recvBuf, 1, size)) = IF 1 <= size THEN size - 1 + 1 ELSE 0
      BY <1>3, <3>1, <3>2, SubSeqProperties
    <3> QED
      BY <1>3, <1>5, <3>1, <3>3
  <2> QED
    BY <1>3, <1>5, <2>1, <2>2, XorUndone
<1>7. /\ heap' \in Seq(Bytes) /\ Len(heap') = Len(heap) + 1
      /\ \A b \in 1..Len(heap) : heap'[b] = heap[b]
      /\ heap'[Len(heap) + 1] = x
  <2>1. heap' = Append(heap, x)
    BY <1>1, <1>3, <1>5
  <2> QED
    BY <1>3, <1>6, <2>1, AppendProperties
<1>8. Taken' = Taken /\ Done' = Done
  BY <1>1 DEF Taken, Done
<1>9. SentInv' /\ WireInv'
  <2>1. SentInv /\ WireInv
    BY DEF CodecInv
  <2> QED
    BY <1>1, <1>8, <2>1 DEF SentInv, WireInv, Cipher, Plain
<1>10. HandInv'
  <2>1. Cipher(sent[Taken])' = c
    BY <1>1, <1>5, <1>8 DEF Cipher, Plain
  <2>2. heap'[dec'] = x /\ dec' \in 1..Len(heap') /\ dec' \in 0..Len(heap')
    BY <1>1, <1>2, <1>7
  <2> QED
    BY <1>1, <1>3, <1>5, <1>6, <1>7, <1>8, <2>1, <2>2 DEF HandInv
<1>11. Kept
  BY <1>1, <1>2, <1>7, <1>8 DEF Kept
<1>12. QueueInv' /\ HandledInv'
  BY <1>1, <1>11, QueueKept, HandledKept DEF CodecInv
<1>13. OrderInv'
  BY <1>1 DEF CodecInv, OrderInv
<1> QED
  BY <1>9, <1>10, <1>12, <1>13 DEF CodecInv

LEMMA RejectStep ==
    ASSUME CodecInv, Reject
    PROVE  CodecInv'
<1>1. /\ pc = "parse" /\ pc' = "recv" /\ key' = key /\ sent' = sent /\ wire' = wire
      /\ recvBuf' = recvBuf /\ size' = size /\ heap' = heap /\ dec' = dec
      /\ queue' = queue /\ handled' = handled
  BY DEF Reject, handlerVars
<1>2. /\ Len(sent) \in Nat /\ Len(wire) \in Nat /\ Taken \in Nat /\ Done \in Nat
      /\ Taken = Len(sent) - Len(wire) /\ Len(heap) \in Nat
  BY Lengths DEF Taken
<1>3. Taken' = Taken /\ Done = Taken - 1 /\ Done' = Taken
  BY <1>1 DEF Taken, Done
<1>4. SentInv' /\ WireInv' /\ HandInv'
  <2>1. SentInv /\ WireInv /\ HandInv
    BY DEF CodecInv
  <2> QED
    BY <1>1, <1>3, <2>1 DEF SentInv, WireInv, HandInv, Cipher, Plain
<1>5. Kept
  BY <1>1, <1>2, <1>3 DEF Kept
<1>6. QueueInv' /\ HandledInv'
  BY <1>1, <1>5, QueueKept, HandledKept DEF CodecInv
<1>7. OrderInv'
  BY <1>1 DEF CodecInv, OrderInv
<1> QED
  BY <1>4, <1>6, <1>7 DEF CodecInv

LEMMA ReadNumbers ==
    ASSUME NEW d \in Bytes, Len(d) >= 10
    PROVE  ShortAt(d, 2) \in UInt16 /\ MetaSize(d) \in Nat /\ DataSize(d) \in Nat
<1>1. \A i \in 1..10 : d[i] \in Byte
  BY ElementOfSeq DEF Bytes
<1>2. /\ d[3] \in 0..255 /\ d[4] \in 0..255 /\ d[5] \in 0..255 /\ d[6] \in 0..255
      /\ d[7] \in 0..255 /\ d[8] \in 0..255 /\ d[9] \in 0..255 /\ d[10] \in 0..255
  BY <1>1 DEF Byte
<1>3. PICK x \in 0..255, y \in 0..255 : x = d[3] /\ y = d[4]
  BY <1>2
<1>4. 256 * x + y \in UInt16
  <2>1. 256 * x + y \in Nat
    OBVIOUS
  <2>2. 256 * x + y < 65536
    OBVIOUS
  <2>3. 256 * x + y <= TwoBytes - 1
    BY <2>1, <2>2, TwoBytesIs, SMT
  <2> QED
    BY <2>1, <2>3, TwoBytesNat DEF UInt16
<1>5. ShortAt(d, 2) = 256 * x + y
  BY <1>3 DEF ShortAt
<1>6. ShortAt(d, 4) \in Nat /\ ShortAt(d, 6) \in Nat /\ ShortAt(d, 8) \in Nat
  <2>1. ASSUME NEW i \in 0..8 PROVE ShortAt(d, i) \in Nat
    <3>1. i + 1 \in 1..10 /\ i + 2 \in 1..10
      OBVIOUS
    <3>2. d[i + 1] \in Byte /\ d[i + 2] \in Byte
      BY <1>1, <3>1
    <3>3. \A v \in Byte : v \in Nat
      BY DEF Byte
    <3>4. PICK a, b : a = d[i + 1] /\ b = d[i + 2]
      OBVIOUS
    <3>5. a \in Nat /\ b \in Nat
      BY <3>2, <3>3, <3>4
    <3> QED
      BY <3>4, <3>5 DEF ShortAt
  <2> QED
    BY <2>1
<1>7. DataSize(d) \in Nat
  BY <1>6, TwoBytesNat DEF DataSize, LongAt
<1> QED
  BY <1>4, <1>5, <1>6, <1>7 DEF MetaSize

LEMMA PartBytes ==
    ASSUME NEW d \in Bytes, NEW at \in Nat, NEW n \in Nat, at + n <= Len(d)
    PROVE  SubSeq(d, at + 1, at + n) \in Bytes
<1>1. Len(d) \in Nat /\ \A i \in at + 1..at + n : d[i] \in Byte
  BY ElementOfSeq DEF Bytes
<1> QED
  BY <1>1, SubSeqProperties DEF Bytes

LEMMA PushStep ==
    ASSUME CodecInv, Push
    PROVE  CodecInv'
<1>1. /\ pc = "parse" /\ pc' = "recv" /\ key' = key /\ sent' = sent /\ wire' = wire
      /\ recvBuf' = recvBuf /\ size' = size /\ heap' = heap /\ dec' = dec
      /\ handled' = handled /\ Parses(Decrypted)
  BY DEF Push, handlerVars
<1>2. /\ Len(sent) \in Nat /\ Len(wire) \in Nat /\ Taken \in Nat /\ Done \in Nat
      /\ Taken = Len(sent) - Len(wire) /\ Len(heap) \in Nat /\ Len(queue) \in Nat
      /\ Len(handled) \in Nat
  BY Lengths DEF Taken
<1>3. Taken' = Taken /\ Done = Taken - 1 /\ Done' = Taken
  BY <1>1 DEF Taken, Done
<1>4. SentInv' /\ WireInv' /\ HandInv'
  <2>1. SentInv /\ WireInv /\ HandInv
    BY DEF CodecInv
  <2> QED
    BY <1>1, <1>3, <2>1 DEF SentInv, WireInv, HandInv, Cipher, Plain
<1>5. Kept
  BY <1>1, <1>2, <1>3 DEF Kept
<1>6. /\ Taken \in 1..Len(sent) /\ dec \in 1..Len(heap) /\ heap \in Seq(Bytes)
      /\ Len(heap[dec]) = size /\ heap[dec] = Xor(Cipher(sent[Taken]), key)
  <2>1. /\ Taken >= 1 /\ dec \in 1..Len(heap) /\ heap \in Seq(Bytes)
        /\ Len(heap[dec]) = size /\ heap[dec] = Xor(Cipher(sent[Taken]), key)
    BY <1>1 DEF CodecInv, HandInv
  <2>2. Len(wire) <= Len(sent)
    BY DEF CodecInv, WireInv
  <2> QED
    BY <1>2, <2>1, <2>2
<1>7. PICK d : d = heap[dec]
  OBVIOUS
<1>8. d \in Bytes /\ Len(d) \in Nat /\ Decrypted = d
  <2>1. d \in Bytes /\ Len(d) \in Nat
    BY <1>6, <1>7, ElementOfSeq DEF Bytes
  <2>2. Content(dec) = d
    BY <1>2, <1>6, <1>7 DEF Content
  <2>3. SubSeq(d, 1, Len(d)) = d
    BY <2>1, SubSeqFull DEF Bytes
  <2> QED
    BY <1>6, <1>7, <2>1, <2>2, <2>3 DEF Decrypted
<1>9. Parses(d)
  BY <1>1, <1>8
<1>10. Len(d) >= 10
  BY <1>8, <1>9 DEF Parses, CanReadBytes, Body
<1>11. PICK meta, data : meta = MetaSize(d) /\ data = DataSize(d)
  OBVIOUS
<1>12. /\ ShortAt(d, 2) \in UInt16 /\ meta \in Nat /\ data \in Nat
       /\ Body + meta <= Len(d) /\ (Body + meta) + data <= Len(d) /\ Body \in Nat
  <2>1. ShortAt(d, 2) \in UInt16 /\ meta \in Nat /\ data \in Nat
    BY <1>8, <1>10, <1>11, ReadNumbers
  <2>2. Body + meta <= Len(d) /\ (Body + meta) + data <= Len(d)
    BY <1>8, <1>9, <1>11, <2>1 DEF Parses, CanReadBytes, Body
  <2> QED
    BY <2>1, <2>2 DEF Body
<1>13. PICK copy : copy = SubSeq(d, Body + 1, Body + meta)
  OBVIOUS
<1>14. copy \in Bytes
  BY <1>8, <1>12, <1>13, PartBytes
<1>15. PICK at : at = Body + meta
  OBVIOUS
<1>16. PICK p : p = [of |-> Taken, id |-> ShortAt(d, 2), meta |-> copy,
                     buf |-> dec, at |-> at, len |-> data]
  OBVIOUS
<1>17. queue' = Append(queue, p)
  BY <1>8, <1>11, <1>13, <1>15, <1>16 DEF Push, Taken
<1>18. at \in Nat /\ at + data <= Len(d)
  BY <1>8, <1>12, <1>15
<1>19. /\ p \in Packets /\ p.of = Taken /\ p.id = ShortAt(d, 2) /\ p.meta = copy
       /\ p.buf = dec /\ p.at = at /\ p.len = data
  BY <1>2, <1>6, <1>12, <1>14, <1>16, <1>18 DEF Packets
<1>20. Right(p.of, [id |-> p.id, meta |-> p.meta, data |-> View(p)])
  <2>1. PICK s : s = sent[Taken]
    OBVIOUS
  <2>2. /\ s \in Sendings /\ s.size \in 0..Len(Encode(s.msg))
        /\ Plain(s) \in Bytes /\ Cipher(s) = Xor(Plain(s), s.key)
    BY <1>6, <2>1, SentCiphers DEF Cipher
  <2>3. PICK m \in Messages : m = s.msg
    BY <2>2 DEF Sendings
  <2>4. View(p) = SubSeq(d, at + 1, at + data)
    BY <1>7, <1>19 DEF View
  <2>5. ASSUME Ours(Taken)
        PROVE  Good(Taken) /\ [id |-> p.id, meta |-> p.meta, data |-> View(p)] = s.msg
    <3>1. s.key = key /\ key \in Keys
      BY <2>1, <2>2, <2>5 DEF Ours, Sendings
    <3>2. d = Plain(s)
      BY <1>6, <1>7, <2>1, <2>2, <3>1, XorUndone
    <3>3. PICK n : n = s.size
      OBVIOUS
    <3>4. n \in 0..Len(Encode(m)) /\ d = SubSeq(Encode(m), 1, n)
      BY <2>2, <2>3, <3>2, <3>3, Zenon DEF Plain
    <3>5. /\ n = Len(Encode(m)) /\ ShortAt(d, 2) = m.id
          /\ SubSeq(d, Body + 1, Body + MetaSize(d)) = m.meta
          /\ SubSeq(d, Body + MetaSize(d) + 1, Body + MetaSize(d) + DataSize(d)) = m.data
      BY <1>9, <3>4, WholeOnly
    <3>6. p.id = m.id /\ p.meta = m.meta /\ View(p) = m.data
      BY <1>11, <1>13, <1>15, <1>19, <2>4, <3>5, Zenon
    <3>7. [id |-> p.id, meta |-> p.meta, data |-> View(p)] = m
      BY <3>6, MessageParts
    <3>8. Good(Taken)
      BY <2>1, <2>3, <2>5, <3>3, <3>5, Zenon DEF Good
    <3> QED
      BY <2>3, <3>7, <3>8
  <2> QED
    BY <1>19, <2>1, <2>5 DEF Right
<1>21. PacketInv(p)'
  <2>1. p.of \in 1..Done'
    BY <1>3, <1>6, <1>19
  <2>2. p.buf \in 1..Len(heap') /\ p.at + p.len <= Len(heap'[p.buf])
    BY <1>1, <1>6, <1>7, <1>18, <1>19
  <2>3. Right(p.of, [id |-> p.id, meta |-> p.meta, data |-> View(p)])'
    BY <1>1, <1>20 DEF Right, Ours, Good, View
  <2> QED
    BY <2>1, <2>2, <2>3 DEF PacketInv
<1>22. queue \in Seq(Packets)
  BY DEF CodecInv, QueueInv
<1>23. /\ queue' \in Seq(Packets) /\ Len(queue') = Len(queue) + 1
       /\ \A j \in 1..Len(queue) : queue'[j] = queue[j]
       /\ queue'[Len(queue) + 1] = p
  BY <1>17, <1>19, <1>22, AppendProperties
<1>24. QueueInv'
  <2>1. ASSUME NEW j \in 1..Len(queue')
        PROVE  PacketInv(queue[j])'
    <3>1. CASE j \in 1..Len(queue)
      <4>1. PICK q \in Packets : q = queue[j] /\ PacketInv(q)
        BY <1>22, <3>1, ElementOfSeq DEF CodecInv, QueueInv
      <4>2. PacketInv(q)'
        BY <1>5, <4>1, PacketKept
      <4>3. queue'[j] = q
        BY <1>23, <3>1, <4>1
      <4> QED
        BY <4>2, <4>3
    <3>2. CASE j = Len(queue) + 1
      <4>1. queue'[j] = p
        BY <1>23, <3>2
      <4> QED
        BY <1>21, <4>1
    <3> QED
      BY <1>2, <1>23, <3>1, <3>2
  <2> QED
    BY <1>23, <2>1 DEF QueueInv
<1>25. HandledInv'
  BY <1>1, <1>5, HandledKept DEF CodecInv
<1>26. OrderInv'
  <2>1. \A j \in 1..Len(queue) : queue[j].of \in Nat /\ queue[j].of < Taken
    <3> SUFFICES ASSUME NEW j \in 1..Len(queue)
                 PROVE  queue[j].of \in Nat /\ queue[j].of < Taken
      OBVIOUS
    <3>1. PacketInv(queue[j])
      BY DEF CodecInv, QueueInv
    <3>2. queue[j].of \in 1..Done
      BY <3>1 DEF PacketInv
    <3> QED
      BY <1>2, <1>3, <3>2
  <2>2. \A j \in 1..Len(handled) : handled[j].of \in Nat /\ handled[j].of < Taken
    BY <1>2, <1>3 DEF CodecInv, HandledInv
  <2>3. queue'[Len(queue) + 1].of = Taken
    BY <1>19, <1>23
  <2>4. \A i, j \in 1..Len(queue') : i < j => queue'[i].of < queue'[j].of
    <3> SUFFICES ASSUME NEW i \in 1..Len(queue'), NEW j \in 1..Len(queue'), i < j
                 PROVE  queue'[i].of < queue'[j].of
      OBVIOUS
    <3>1. i \in 1..Len(queue)
      BY <1>2, <1>23
    <3>2. CASE j \in 1..Len(queue)
      BY <1>23, <3>1, <3>2 DEF CodecInv, OrderInv
    <3>3. CASE j = Len(queue) + 1
      BY <1>23, <2>1, <2>3, <3>1, <3>3
    <3> QED
      BY <1>2, <1>23, <3>2, <3>3
  <2>5. \A i \in 1..Len(handled), j \in 1..Len(queue') : handled[i].of < queue'[j].of
    <3> SUFFICES ASSUME NEW i \in 1..Len(handled), NEW j \in 1..Len(queue')
                 PROVE  handled[i].of < queue'[j].of
      OBVIOUS
    <3>1. CASE j \in 1..Len(queue)
      BY <1>23, <3>1 DEF CodecInv, OrderInv
    <3>2. CASE j = Len(queue) + 1
      BY <2>2, <2>3, <3>2
    <3> QED
      BY <1>2, <1>23, <3>1, <3>2
  <2> QED
    BY <1>1, <2>4, <2>5 DEF CodecInv, OrderInv
<1> QED
  BY <1>4, <1>24, <1>25, <1>26 DEF CodecInv

LEMMA HandleStep ==
    ASSUME CodecInv, Handle
    PROVE  CodecInv'
<1>1. /\ pc' = pc /\ key' = key /\ sent' = sent /\ wire' = wire
      /\ recvBuf' = recvBuf /\ size' = size /\ heap' = heap /\ dec' = dec
      /\ queue # <<>> /\ queue' = Tail(queue)
  BY DEF Handle, ioVars
<1>2. /\ Len(sent) \in Nat /\ Len(heap) \in Nat /\ Len(queue) \in Nat /\ Done \in Nat
      /\ Len(handled) \in Nat /\ Taken \in Nat /\ Done <= Taken /\ Taken <= Len(sent)
  BY Lengths DEF Taken
<1>3. Taken' = Taken /\ Done' = Done
  BY <1>1 DEF Taken, Done
<1>4. SentInv' /\ WireInv' /\ HandInv'
  <2>1. SentInv /\ WireInv /\ HandInv
    BY DEF CodecInv
  <2> QED
    BY <1>1, <1>3, <2>1 DEF SentInv, WireInv, HandInv, Cipher, Plain
<1>5. Kept
  BY <1>1, <1>2, <1>3 DEF Kept
<1>6. queue \in Seq(Packets) /\ handled \in Seq([of: Nat, msg: Readings]) /\ heap \in Seq(Bytes)
  BY DEF CodecInv, QueueInv, HandledInv, HandInv
<1>7. /\ Len(queue) >= 1 /\ queue' \in Seq(Packets) /\ Len(queue') = Len(queue) - 1
      /\ \A j \in 1..Len(queue) - 1 : queue'[j] = queue[j + 1]
  <2>1. /\ Tail(queue) \in Seq(Packets) /\ Len(Tail(queue)) = Len(queue) - 1
        /\ \A j \in 1..Len(Tail(queue)) : Tail(queue)[j] = queue[j + 1]
    BY <1>1, <1>6, HeadTailProperties
  <2>2. Len(queue) >= 1
    BY <1>1, <1>2, <1>6, EmptySeq
  <2> QED
    BY <1>1, <2>1, <2>2
<1>8. PICK p : p = queue[1]
  OBVIOUS
<1>9. p \in Packets /\ PacketInv(p) /\ Head(queue) = p
  <2>1. p \in Packets /\ PacketInv(p)
    BY <1>2, <1>6, <1>7, <1>8, ElementOfSeq DEF CodecInv, QueueInv
  <2> QED
    BY <1>6, <1>7, <1>8, <2>1
<1>10. /\ p.of \in 1..Done /\ p.of \in Nat /\ p.buf \in 1..Len(heap)
       /\ p.at \in Nat /\ p.len \in Nat /\ p.at + p.len <= Len(heap[p.buf])
       /\ p.id \in UInt16 /\ p.meta \in Bytes
       /\ Right(p.of, [id |-> p.id, meta |-> p.meta, data |-> View(p)])
  BY <1>9 DEF PacketInv, Packets
<1>11. DataOf(p) = View(p) /\ View(p) \in Bytes
  <2>1. heap[p.buf] \in Bytes
    BY <1>6, <1>10, ElementOfSeq
  <2>2. View(p) \in Bytes
    BY <1>10, <2>1, PartBytes DEF View
  <2>3. Content(p.buf) = heap[p.buf]
    BY <1>2, <1>10 DEF Content
  <2> QED
    BY <2>2, <2>3, Zenon DEF DataOf, View
<1>12. PICK msg : msg = [id |-> p.id, meta |-> p.meta, data |-> View(p)]
  OBVIOUS
<1>13. msg \in Readings
  BY <1>10, <1>11, <1>12 DEF Readings
<1>14. PICK h : h = [of |-> p.of, msg |-> msg]
  OBVIOUS
<1>15. h \in [of: Nat, msg: Readings] /\ h.of = p.of /\ h.msg = msg
  BY <1>10, <1>13, <1>14
<1>16. handled' = Append(handled, h)
  BY <1>9, <1>11, <1>12, <1>14, Zenon DEF Handle
<1>17. /\ handled' \in Seq([of: Nat, msg: Readings]) /\ Len(handled') = Len(handled) + 1
       /\ \A j \in 1..Len(handled) : handled'[j] = handled[j]
       /\ handled'[Len(handled) + 1] = h
  BY <1>6, <1>15, <1>16, AppendProperties
<1>18. QueueInv'
  <2>1. ASSUME NEW j \in 1..Len(queue')
        PROVE  PacketInv(queue[j])'
    <3>1. j + 1 \in 1..Len(queue) /\ queue'[j] = queue[j + 1]
      BY <1>2, <1>7
    <3>2. PICK q \in Packets : q = queue[j + 1] /\ PacketInv(q)
      BY <1>6, <3>1, ElementOfSeq DEF CodecInv, QueueInv
    <3>3. PacketInv(q)'
      BY <1>5, <3>2, PacketKept
    <3>4. queue'[j] = q
      BY <3>1, <3>2
    <3> QED
      BY <3>3, <3>4
  <2> QED
    BY <1>7, <2>1 DEF QueueInv
<1>19. HandledInv'
  <2>1. ASSUME NEW j \in 1..Len(handled')
        PROVE  handled'[j].of \in 1..Done' /\ Right(handled[j].of, handled[j].msg)'
    <3>1. PICK g, i, m : g = handled'[j] /\ i = g.of /\ m = g.msg
      OBVIOUS
    <3>2. i \in 1..Done /\ Right(i, m)
      <4>1. CASE j \in 1..Len(handled)
        BY <1>17, <3>1, <4>1 DEF CodecInv, HandledInv
      <4>2. CASE j = Len(handled) + 1
        BY <1>10, <1>12, <1>15, <1>17, <3>1, <4>2
      <4> QED
        BY <1>2, <1>17, <4>1, <4>2
    <3>3. Right(i, m)'
      BY <1>5, <3>2, RightKept
    <3>4. handled'[j].of = i /\ handled'[j].msg = m
      BY <3>1
    <3> QED
      BY <1>3, <3>2, <3>3, <3>4
  <2> QED
    BY <1>17, <2>1 DEF HandledInv
<1>20. OrderInv'
  <2>1. /\ \A i, j \in 1..Len(handled) : i < j => handled[i].of < handled[j].of
        /\ \A i, j \in 1..Len(queue) : i < j => queue[i].of < queue[j].of
        /\ \A i \in 1..Len(handled), j \in 1..Len(queue) : handled[i].of < queue[j].of
    BY DEF CodecInv, OrderInv
  <2>2. handled'[Len(handled) + 1].of = queue[1].of
    BY <1>8, <1>15, <1>17
  <2>3. \A i, j \in 1..Len(handled') : i < j => handled'[i].of < handled'[j].of
    <3> SUFFICES ASSUME NEW i \in 1..Len(handled'), NEW j \in 1..Len(handled'), i < j
                 PROVE  handled'[i].of < handled'[j].of
      OBVIOUS
    <3>1. i \in 1..Len(handled)
      BY <1>2, <1>17
    <3>2. CASE j \in 1..Len(handled)
      BY <1>17, <2>1, <3>1, <3>2
    <3>3. CASE j = Len(handled) + 1
      <4>1. 1 \in 1..Len(queue)
        BY <1>2, <1>7
      <4>2. handled[i].of < queue[1].of
        BY <2>1, <3>1, <4>1
      <4>3. handled'[i] = handled[i] /\ handled'[j].of = queue[1].of
        BY <1>17, <2>2, <3>1, <3>3
      <4> QED
        BY <4>2, <4>3
    <3>4. j \in 1..Len(handled) \/ j = Len(handled) + 1
      BY <1>2, <1>17
    <3> QED
      BY <3>2, <3>3, <3>4
  <2>4. \A i, j \in 1..Len(queue') : i < j => queue'[i].of < queue'[j].of
    <3> SUFFICES ASSUME NEW i \in 1..Len(queue'), NEW j \in 1..Len(queue'), i < j
                 PROVE  queue'[i].of < queue'[j].of
      OBVIOUS
    <3>1. i + 1 \in 1..Len(queue) /\ j + 1 \in 1..Len(queue) /\ i + 1 < j + 1
      BY <1>2, <1>7
    <3>2. queue'[i] = queue[i + 1] /\ queue'[j] = queue[j + 1]
      BY <1>7
    <3> QED
      BY <2>1, <3>1, <3>2
  <2>5. \A i \in 1..Len(handled'), j \in 1..Len(queue') : handled'[i].of < queue'[j].of
    <3> SUFFICES ASSUME NEW i \in 1..Len(handled'), NEW j \in 1..Len(queue')
                 PROVE  handled'[i].of < queue'[j].of
      OBVIOUS
    <3>1. j + 1 \in 1..Len(queue) /\ queue'[j] = queue[j + 1]
      BY <1>2, <1>7
    <3>2. CASE i \in 1..Len(handled)
      BY <1>17, <2>1, <3>1, <3>2
    <3>3. CASE i = Len(handled) + 1
      <4>1. 1 \in 1..Len(queue) /\ 1 < j + 1
        BY <1>2, <1>7
      <4> QED
        BY <2>1, <2>2, <3>1, <3>3, <4>1
    <3> QED
      BY <1>2, <1>17, <3>2, <3>3
  <2> QED
    BY <2>3, <2>4, <2>5 DEF OrderInv
<1> QED
  BY <1>4, <1>18, <1>19, <1>20 DEF CodecInv

LEMMA RefuseStep ==
    ASSUME CodecInv, Refuse
    PROVE  CodecInv'
<1>1. /\ pc' = pc /\ key' = key /\ sent' = sent /\ wire' = wire
      /\ recvBuf' = recvBuf /\ size' = size /\ heap' = heap /\ dec' = dec
      /\ queue # <<>> /\ queue' = Tail(queue) /\ handled' = handled
  BY DEF Refuse, ioVars
<1>2. /\ Len(sent) \in Nat /\ Len(heap) \in Nat /\ Len(queue) \in Nat /\ Done \in Nat
      /\ Len(handled) \in Nat /\ Taken \in Nat /\ Done <= Taken /\ Taken <= Len(sent)
  BY Lengths DEF Taken
<1>3. Taken' = Taken /\ Done' = Done
  BY <1>1 DEF Taken, Done
<1>4. SentInv' /\ WireInv' /\ HandInv'
  <2>1. SentInv /\ WireInv /\ HandInv
    BY DEF CodecInv
  <2> QED
    BY <1>1, <1>3, <2>1 DEF SentInv, WireInv, HandInv, Cipher, Plain
<1>5. Kept
  BY <1>1, <1>2, <1>3 DEF Kept
<1>6. queue \in Seq(Packets)
  BY DEF CodecInv, QueueInv
<1>7. /\ Len(queue) >= 1 /\ queue' \in Seq(Packets) /\ Len(queue') = Len(queue) - 1
      /\ \A j \in 1..Len(queue) - 1 : queue'[j] = queue[j + 1]
  <2>1. /\ Tail(queue) \in Seq(Packets) /\ Len(Tail(queue)) = Len(queue) - 1
        /\ \A j \in 1..Len(Tail(queue)) : Tail(queue)[j] = queue[j + 1]
    BY <1>1, <1>6, HeadTailProperties
  <2>2. Len(queue) >= 1
    BY <1>1, <1>2, <1>6, EmptySeq
  <2> QED
    BY <1>1, <2>1, <2>2
<1>8. \A j \in 1..Len(queue') : j + 1 \in 1..Len(queue) /\ queue'[j] = queue[j + 1]
  BY <1>2, <1>7
<1>9. QueueInv'
  <2>1. ASSUME NEW j \in 1..Len(queue')
        PROVE  PacketInv(queue[j])'
    <3>1. PICK p : p = queue[j + 1]
      OBVIOUS
    <3>2. p \in Packets /\ PacketInv(p)
      BY <1>6, <1>8, <3>1, ElementOfSeq DEF CodecInv, QueueInv
    <3>3. PacketInv(p)'
      BY <1>5, <3>2, PacketKept
    <3>4. queue'[j] = p
      BY <1>8, <3>1
    <3> QED
      BY <3>3, <3>4
  <2> QED
    BY <1>7, <2>1 DEF QueueInv
<1>10. HandledInv'
  BY <1>1, <1>5, HandledKept DEF CodecInv
<1>11. OrderInv'
  <2>1. /\ \A i, j \in 1..Len(handled) : i < j => handled[i].of < handled[j].of
        /\ \A i, j \in 1..Len(queue) : i < j => queue[i].of < queue[j].of
        /\ \A i \in 1..Len(handled), j \in 1..Len(queue) : handled[i].of < queue[j].of
    BY DEF CodecInv, OrderInv
  <2>2. \A i, j \in 1..Len(queue') : i < j => queue'[i].of < queue'[j].of
    <3> SUFFICES ASSUME NEW i \in 1..Len(queue'), NEW j \in 1..Len(queue'), i < j
                 PROVE  queue'[i].of < queue'[j].of
      OBVIOUS
    <3>1. i + 1 < j + 1
      BY <1>2, <1>7
    <3> QED
      BY <1>8, <2>1, <3>1
  <2>3. \A i \in 1..Len(handled), j \in 1..Len(queue') : handled[i].of < queue'[j].of
    BY <1>8, <2>1
  <2> QED
    BY <1>1, <2>1, <2>2, <2>3 DEF OrderInv
<1> QED
  BY <1>4, <1>9, <1>10, <1>11 DEF CodecInv

LEMMA CodecStep ==
    ASSUME CodecInv, [Next]_vars
    PROVE  CodecInv'
<1>1. CASE \E m \in Messages, k \in Keys : \E n \in 0..Len(Encode(m)) : ClientSend(m, n, k)
  BY <1>1, SendStep
<1>2. CASE Receive
  BY <1>2, ReceiveStep
<1>3. CASE Decrypt
  BY <1>3, DecryptStep
<1>4. CASE Push
  BY <1>4, PushStep
<1>5. CASE Reject
  BY <1>5, RejectStep
<1>6. CASE Handle
  BY <1>6, HandleStep
<1>7. CASE Refuse
  BY <1>7, RefuseStep
<1>8. CASE UNCHANGED vars
  BY <1>8 DEF CodecInv, SentInv, WireInv, HandInv, QueueInv, HandledInv, OrderInv, PacketInv,
     Right, View, Ours, Good, Taken, Done, Cipher, Plain, vars, ioVars, handlerVars
<1> QED
  BY <1>1, <1>2, <1>3, <1>4, <1>5, <1>6, <1>7, <1>8 DEF Next, ParsePacket, PacketQueueHandler

LEMMA CodecAlways == Spec => []CodecInv
<1>1. CodecInv /\ [Next]_vars => CodecInv'
  BY CodecStep
<1> QED
  BY InitInv, <1>1, PTL DEF Spec

\* Where the handler thread ended is a message's number, or zero.
LEMMA StoppedAlways == Spec => [](stopped \in Nat)
<1>1. Init => stopped \in Nat
  BY DEF Init
<1>2. CodecInv /\ stopped \in Nat /\ [Next]_vars => (stopped \in Nat)'
  <2> SUFFICES ASSUME CodecInv, stopped \in Nat, [Next]_vars PROVE stopped' \in Nat
    OBVIOUS
  <2>1. CASE Refuse
    <3>1. queue \in Seq(Packets) /\ queue # <<>> /\ stopped' = Head(queue).of
      BY <2>1 DEF Refuse, CodecInv, QueueInv
    <3>2. Head(queue) \in Packets
      BY <3>1, HeadTailProperties
    <3> QED
      BY <3>1, <3>2 DEF Packets
  <2>2. CASE ~Refuse
    <3>1. stopped' = stopped
      BY <2>2 DEF Next, ParsePacket, PacketQueueHandler, ClientSend, Receive, Decrypt, Push,
         Reject, Handle, vars, handlerVars
    <3> QED
      BY <3>1
  <2> QED
    BY <2>1, <2>2
<1> QED
  BY <1>1, <1>2, CodecAlways, PTL DEF Spec

-----------------------------------------------------------------------------
(* The theorems.                                                            *)

\* What a handler reads is what its client sent, and of the messages under the
\* server's key only whole ones become packets, in order.
THEOREM ReadAsSent == Spec => []HandledAsSent
<1>1. CodecInv => HandledAsSent
  <2> SUFFICES ASSUME CodecInv PROVE HandledAsSent
    OBVIOUS
  <2>1. /\ \A j \in 1..Len(handled) : Right(handled[j].of, handled[j].msg)
        /\ \A i, j \in 1..Len(handled) : i < j => handled[i].of < handled[j].of
        /\ DOMAIN handled = 1..Len(handled)
    BY DEF CodecInv, HandledInv, OrderInv
  <2>2. \A h \in Range(handled) : \E j \in 1..Len(handled) : h = handled[j]
    BY <2>1 DEF Range
  <2>3. \A h \in Range(handled) : Ours(h.of) => Good(h.of) /\ h.msg = sent[h.of].msg
    BY <2>1, <2>2 DEF Right
  <2> QED
    BY <2>1, <2>3 DEF HandledAsSent
<1> QED
  BY <1>1, CodecAlways, PTL

\* Buffers hold bytes, and no view leaves its buffer, whatever sizes a message
\* under another key seems to have.
THEOREM ViewsStayInside == Spec => []ViewsInside
<1>1. CodecInv /\ stopped \in Nat => ViewsInside
  <2> SUFFICES ASSUME CodecInv, stopped \in Nat PROVE ViewsInside
    OBVIOUS
  <2>1. /\ \A s \in Range(sent) : s \in Sendings
        /\ \A p \in Range(queue) : p \in Packets /\ PacketInv(p)
    <3>1. /\ \A j \in 1..Len(sent) : sent[j] \in Sendings
          /\ \A j \in 1..Len(queue) : queue[j] \in Packets /\ PacketInv(queue[j])
      BY ElementOfSeq DEF CodecInv, SentInv, QueueInv
    <3>2. DOMAIN sent = 1..Len(sent) /\ DOMAIN queue = 1..Len(queue)
      BY DEF CodecInv, SentInv, QueueInv
    <3> QED
      BY <3>1, <3>2 DEF Range
  <2>2. TypeOK
    <3>1. /\ \A s \in Range(sent) : s.msg \in Messages /\ s.key \in Keys
          /\ \A p \in Range(queue) : p.id \in UInt16 /\ p.meta \in Bytes
      BY <2>1 DEF Sendings, Packets
    <3> QED
      BY <3>1 DEF CodecInv, SentInv, WireInv, HandInv, TypeOK, Bytes
  <2>3. ASSUME NEW p \in Range(queue)
        PROVE  p.at + p.len <= Len(Content(p.buf))
    <3>1. p.buf \in 1..Len(heap) /\ p.at + p.len <= Len(heap[p.buf])
      BY <2>1 DEF PacketInv
    <3>2. Content(p.buf) = heap[p.buf]
      BY <3>1, Lengths DEF Content
    <3> QED
      BY <3>1, <3>2
  <2> QED
    BY <2>2, <2>3 DEF ViewsInside
<1> QED
  BY <1>1, CodecAlways, StoppedAlways, PTL

-----------------------------------------------------------------------------
(* Nothing whole is dropped.                                                *)

LEMMA WholeParses ==
    ASSUME NEW m \in Messages
    PROVE  Parses(Encode(m))
<1>1. PICK e, a, b : e = Encode(m) /\ a = Len(m.meta) /\ b = Len(m.data)
  OBVIOUS
<1>2. a \in Nat /\ b \in Nat
  BY <1>1, MessageParts DEF Bytes
<1>3. Len(e) = Body + a + b + 2 /\ \A x \in 1..10 : e[x] = Header(m)[x]
  BY <1>1, EncodeBytes DEF Body
<1>4. MetaSize(e) = a /\ DataSize(e) = b
  BY <1>1, <1>3, HeaderBytes, SameHeader
<1>5. Parses(e)
  BY <1>2, <1>3, <1>4 DEF Parses, CanReadBytes, Body
<1> QED
  BY <1>1, <1>5

\* Every whole message under the server's key that the io thread is done with
\* is in the deque, has been handled or was refused, which is not done to a
\* ping, whatever messages came before it.
NoneDropped ==
    \A i \in 1..Done :
        Good(i) => \/ \E j \in 1..Len(queue) : queue[j].of = i
                   \/ \E j \in 1..Len(handled) : handled[j].of = i
                   \/ stopped = i /\ Refusable(i)

LEMMA NoneDroppedStep ==
    ASSUME CodecInv, NoneDropped, [Next]_vars
    PROVE  NoneDropped'
<1>1. /\ Len(sent) \in Nat /\ Len(wire) \in Nat /\ Taken \in Nat /\ Done \in Nat
      /\ Taken = Len(sent) - Len(wire) /\ Done <= Taken /\ Taken <= Len(sent)
      /\ Len(queue) \in Nat /\ Len(handled) \in Nat
  BY Lengths DEF Taken
<1>2. /\ queue \in Seq(Packets) /\ handled \in Seq([of: Nat, msg: Readings])
      /\ wire \in Seq(Bytes) /\ sent \in Seq(Sendings)
  BY DEF CodecInv, QueueInv, HandledInv, WireInv, SentInv
<1>3. CASE \E m \in Messages, k \in Keys : \E n \in 0..Len(Encode(m)) : ClientSend(m, n, k)
  <2>1. PICK m \in Messages, k \in Keys : \E n \in 0..Len(Encode(m)) : ClientSend(m, n, k)
    BY <1>3
  <2>2. PICK n \in 0..Len(Encode(m)) : ClientSend(m, n, k)
    BY <2>1
  <2>3. PICK s, c : sent' = Append(sent, s) /\ wire' = Append(wire, c)
    BY <2>2 DEF ClientSend
  <2>4. Len(sent') = Len(sent) + 1 /\ Len(wire') = Len(wire) + 1
    BY <1>2, <2>3
  <2>5. \A i \in 1..Len(sent) : sent'[i] = sent[i]
    BY <1>2, <2>3
  <2>6. pc' = pc /\ key' = key /\ queue' = queue /\ handled' = handled /\ stopped' = stopped
    BY <2>2 DEF ClientSend, ioVars, handlerVars
  <2>7. Done' = Done
    BY <1>1, <2>4, <2>6 DEF Done, Taken
  <2>8. \A i \in 1..Done : (Good(i)' => Good(i)) /\ (Refusable(i) => Refusable(i)')
    BY <1>1, <2>5, <2>6 DEF Good, Ours, Refusable
  <2> QED
    BY <2>6, <2>7, <2>8 DEF NoneDropped
<1>4. CASE Receive
  <2>1. /\ pc = "recv" /\ pc' = "xor" /\ wire # <<>> /\ wire' = Tail(wire)
        /\ key' = key /\ sent' = sent /\ queue' = queue /\ handled' = handled
        /\ stopped' = stopped
    BY <1>4 DEF Receive, handlerVars
  <2>2. Len(wire') = Len(wire) - 1
    BY <1>2, <2>1, HeadTailProperties
  <2>3. Done' = Done
    BY <1>1, <2>1, <2>2 DEF Done, Taken
  <2> QED
    BY <2>1, <2>3 DEF NoneDropped, Good, Ours, Refusable
<1>5. CASE Decrypt
  <2>1. /\ pc = "xor" /\ pc' = "parse" /\ key' = key /\ sent' = sent /\ wire' = wire
        /\ queue' = queue /\ handled' = handled /\ stopped' = stopped
    BY <1>5 DEF Decrypt, handlerVars
  <2> QED
    BY <2>1 DEF NoneDropped, Good, Ours, Refusable, Done, Taken
<1>6. CASE Push
  <2>1. /\ pc = "parse" /\ pc' = "recv" /\ key' = key /\ sent' = sent /\ wire' = wire
        /\ handled' = handled /\ stopped' = stopped
    BY <1>6 DEF Push, handlerVars
  <2>2. PICK p : queue' = Append(queue, p) /\ p.of = Taken
    <3>1. PICK p : /\ queue' = Append(queue, p)
                   /\ p = [of |-> Len(sent) - Len(wire), id |-> ShortAt(Decrypted, 2),
                           meta |-> SubSeq(Decrypted, Body + 1, Body + MetaSize(Decrypted)),
                           buf |-> dec, at |-> Body + MetaSize(Decrypted),
                           len |-> DataSize(Decrypted)]
      BY <1>6 DEF Push
    <3>2. p.of = Len(sent) - Len(wire)
      BY <3>1
    <3> QED
      BY <3>1, <3>2 DEF Taken
  <2>3. /\ Len(queue') = Len(queue) + 1 /\ queue'[Len(queue) + 1] = p
        /\ \A j \in 1..Len(queue) : queue'[j] = queue[j]
    BY <1>2, <2>2
  <2>4. Done = Taken - 1 /\ Done' = Taken
    BY <2>1 DEF Done, Taken
  <2> SUFFICES ASSUME NEW i \in 1..Done', Good(i)'
               PROVE  (\/ \E j \in 1..Len(queue) : queue[j].of = i
                       \/ \E j \in 1..Len(handled) : handled[j].of = i
                       \/ stopped = i /\ Refusable(i))'
    BY DEF NoneDropped
  <2>5. CASE i = Taken
    <3>1. Len(queue) + 1 \in 1..Len(queue') /\ queue'[Len(queue) + 1].of = i
      BY <1>1, <2>2, <2>3, <2>5
    <3> QED
      BY <3>1
  <2>6. CASE i \in 1..Done
    <3>1. Good(i)
      BY <2>1 DEF Good, Ours
    <3>2. CASE \E j \in 1..Len(queue) : queue[j].of = i
      <4>1. PICK j \in 1..Len(queue) : queue[j].of = i
        BY <3>2
      <4>2. j \in 1..Len(queue') /\ queue'[j].of = i
        BY <1>1, <2>3, <4>1
      <4> QED
        BY <4>2
    <3>3. CASE \E j \in 1..Len(handled) : handled[j].of = i
      BY <2>1, <3>3
    <3>4. CASE stopped = i /\ Refusable(i)
      BY <2>1, <3>4 DEF Refusable, Ours
    <3> QED
      BY <2>6, <3>1, <3>2, <3>3, <3>4 DEF NoneDropped
  <2>7. i = Taken \/ i \in 1..Done
    BY <1>1, <2>4
  <2> QED
    BY <2>5, <2>6, <2>7
<1>7. CASE Reject
  <2>1. /\ pc = "parse" /\ pc' = "recv" /\ key' = key /\ sent' = sent /\ wire' = wire
        /\ queue' = queue /\ handled' = handled /\ stopped' = stopped /\ ~Parses(Decrypted)
    BY <1>7 DEF Reject, handlerVars
  <2>2. Done = Taken - 1 /\ Done' = Taken
    BY <2>1 DEF Done, Taken
  <2>3. ~Good(Taken)
    <3> SUFFICES ASSUME Good(Taken) PROVE FALSE
      OBVIOUS
    <3>1. /\ Taken >= 1 /\ dec \in 1..Len(heap) /\ Len(heap[dec]) = size /\ heap \in Seq(Bytes)
          /\ heap[dec] = Xor(Cipher(sent[Taken]), key) /\ key \in Keys
      BY <2>1 DEF CodecInv, HandInv, SentInv
    <3>2. PICK s : s = sent[Taken]
      OBVIOUS
    <3>3. s \in Sendings /\ Plain(s) \in Bytes /\ Cipher(s) = Xor(Plain(s), s.key)
      BY <1>1, <3>1, <3>2, SentCiphers DEF Cipher
    <3>4. s.key = key /\ s.size = Len(Encode(s.msg))
      BY <3>2 DEF Good, Ours
    <3>5. heap[dec] = Plain(s)
      BY <3>1, <3>2, <3>3, <3>4, XorUndone
    <3>6. PICK m \in Messages : m = s.msg
      BY <3>3 DEF Sendings
    <3>7. Plain(s) = Encode(m)
      BY <3>4, <3>6, EncodeBytes, SubSeqFull DEF Plain, Bytes
    <3>8. Decrypted = heap[dec]
      <4>1. PICK d : d = heap[dec]
        OBVIOUS
      <4>2. d \in Bytes
        BY <3>1, <4>1, ElementOfSeq
      <4>3. SubSeq(d, 1, Len(d)) = d
        BY <4>2, SubSeqFull DEF Bytes
      <4>4. Content(dec) = d
        BY <3>1, <4>1 DEF Content
      <4> QED
        BY <3>1, <4>1, <4>3, <4>4 DEF Decrypted
    <3> QED
      BY <2>1, <3>5, <3>7, <3>8, WholeParses
  <2> SUFFICES ASSUME NEW i \in 1..Done', Good(i)'
               PROVE  (\/ \E j \in 1..Len(queue) : queue[j].of = i
                       \/ \E j \in 1..Len(handled) : handled[j].of = i
                       \/ stopped = i /\ Refusable(i))'
    BY DEF NoneDropped
  <2>4. Good(i)
    BY <2>1 DEF Good, Ours
  <2>5. i \in 1..Done
    <3>1. i # Taken
      BY <2>3, <2>4
    <3> QED
      BY <1>1, <2>2, <3>1
  <2> QED
    BY <2>1, <2>4, <2>5 DEF NoneDropped, Refusable, Ours
<1>8. CASE Handle
  <2>1. /\ pc' = pc /\ key' = key /\ sent' = sent /\ wire' = wire
        /\ queue # <<>> /\ queue' = Tail(queue) /\ stopped = 0 /\ stopped' = 0
    BY <1>8 DEF Handle, ioVars
  <2>2. Done' = Done
    BY <2>1 DEF Done, Taken
  <2>3. PICK h : handled' = Append(handled, h) /\ h.of = Head(queue).of
    <3>1. PICK h : /\ handled' = Append(handled, h)
                   /\ h = [of |-> Head(queue).of, msg |->
                            [id |-> Head(queue).id, meta |-> Head(queue).meta,
                             data |-> DataOf(Head(queue))]]
      BY <1>8 DEF Handle
    <3> QED
      BY <3>1
  <2>4. /\ Len(handled') = Len(handled) + 1 /\ handled'[Len(handled) + 1] = h
        /\ \A j \in 1..Len(handled) : handled'[j] = handled[j]
    BY <1>2, <2>3
  <2>5. /\ Len(queue') = Len(queue) - 1 /\ Head(queue) = queue[1] /\ Len(queue) >= 1
        /\ \A j \in 1..Len(queue) - 1 : queue'[j] = queue[j + 1]
    <3>1. /\ Len(Tail(queue)) = Len(queue) - 1
          /\ \A j \in 1..Len(Tail(queue)) : Tail(queue)[j] = queue[j + 1]
      BY <1>2, <2>1, HeadTailProperties
    <3>2. Len(queue) >= 1
      BY <1>1, <1>2, <2>1, EmptySeq
    <3> QED
      BY <1>2, <2>1, <3>1, <3>2
  <2> SUFFICES ASSUME NEW i \in 1..Done', Good(i)'
               PROVE  (\/ \E j \in 1..Len(queue) : queue[j].of = i
                       \/ \E j \in 1..Len(handled) : handled[j].of = i
                       \/ stopped = i /\ Refusable(i))'
    BY DEF NoneDropped
  <2>6. Good(i) /\ i \in 1..Done
    BY <2>1, <2>2 DEF Good, Ours
  <2>7. CASE \E j \in 1..Len(queue) : queue[j].of = i
    <3>1. PICK j \in 1..Len(queue) : queue[j].of = i
      BY <2>7
    <3>2. CASE j = 1
      <4>1. Len(handled) + 1 \in 1..Len(handled') /\ handled'[Len(handled) + 1].of = i
        BY <1>1, <2>3, <2>4, <2>5, <3>1, <3>2
      <4> QED
        BY <4>1
    <3>3. CASE j > 1
      <4>1. j - 1 \in 1..Len(queue) - 1 /\ (j - 1) + 1 = j
        BY <1>1, <3>3
      <4>2. j - 1 \in 1..Len(queue') /\ queue'[j - 1].of = i
        BY <2>5, <3>1, <4>1
      <4> QED
        BY <4>2
    <3> QED
      BY <3>2, <3>3
  <2>8. CASE \E j \in 1..Len(handled) : handled[j].of = i
    <3>1. PICK j \in 1..Len(handled) : handled[j].of = i
      BY <2>8
    <3>2. j \in 1..Len(handled') /\ handled'[j].of = i
      BY <1>1, <2>4, <3>1
    <3> QED
      BY <3>2
  <2>9. ~(stopped = i)
    BY <2>1, <2>6
  <2> QED
    BY <2>6, <2>7, <2>8, <2>9 DEF NoneDropped
<1>9. CASE Refuse
  <2>1. /\ pc' = pc /\ key' = key /\ sent' = sent /\ wire' = wire /\ handled' = handled
        /\ queue # <<>> /\ queue' = Tail(queue) /\ stopped = 0
        /\ Head(queue).id # PingReq /\ stopped' = Head(queue).of
    BY <1>9 DEF Refuse, ioVars
  <2>2. Done' = Done
    BY <2>1 DEF Done, Taken
  <2>3. /\ Len(queue') = Len(queue) - 1 /\ Head(queue) = queue[1] /\ Len(queue) >= 1
        /\ \A j \in 1..Len(queue) - 1 : queue'[j] = queue[j + 1]
    <3>1. /\ Len(Tail(queue)) = Len(queue) - 1
          /\ \A j \in 1..Len(Tail(queue)) : Tail(queue)[j] = queue[j + 1]
      BY <1>2, <2>1, HeadTailProperties
    <3>2. Len(queue) >= 1
      BY <1>1, <1>2, <2>1, EmptySeq
    <3> QED
      BY <1>2, <2>1, <3>1, <3>2
  <2> SUFFICES ASSUME NEW i \in 1..Done', Good(i)'
               PROVE  (\/ \E j \in 1..Len(queue) : queue[j].of = i
                       \/ \E j \in 1..Len(handled) : handled[j].of = i
                       \/ stopped = i /\ Refusable(i))'
    BY DEF NoneDropped
  <2>4. Good(i) /\ i \in 1..Done /\ i # 0
    BY <2>1, <2>2 DEF Good, Ours
  <2>5. CASE \E j \in 1..Len(queue) : queue[j].of = i
    <3>1. PICK j \in 1..Len(queue) : queue[j].of = i
      BY <2>5
    <3>2. CASE j = 1
      <4>1. PICK p : p = queue[1]
        OBVIOUS
      <4>2. p \in Packets /\ PacketInv(p) /\ p.of = i /\ p.id # PingReq
        BY <1>2, <2>1, <2>3, <3>1, <3>2, <4>1, ElementOfSeq DEF CodecInv, QueueInv
      <4>3. Right(i, [id |-> p.id, meta |-> p.meta, data |-> View(p)])
        BY <4>2 DEF PacketInv
      <4>4. sent[i].msg.id = p.id
        <5>1. sent[i].msg = [id |-> p.id, meta |-> p.meta, data |-> View(p)]
          BY <2>4, <4>3 DEF Right, Good
        <5> QED
          BY <5>1
      <4> QED
        BY <2>1, <2>3, <3>1, <3>2, <4>2, <4>4 DEF Refusable, Ours
    <3>3. CASE j > 1
      <4>1. j - 1 \in 1..Len(queue) - 1 /\ (j - 1) + 1 = j
        BY <1>1, <3>3
      <4>2. j - 1 \in 1..Len(queue') /\ queue'[j - 1].of = i
        BY <2>3, <3>1, <4>1
      <4> QED
        BY <4>2
    <3> QED
      BY <3>2, <3>3
  <2>6. CASE \E j \in 1..Len(handled) : handled[j].of = i
    BY <2>1, <2>6
  <2>7. ~(stopped = i)
    BY <2>1, <2>4
  <2> QED
    BY <2>4, <2>5, <2>6, <2>7 DEF NoneDropped
<1>10. CASE UNCHANGED vars
  BY <1>10 DEF NoneDropped, Good, Ours, Refusable, Done, Taken, vars, ioVars, handlerVars
<1> QED
  BY <1>3, <1>4, <1>5, <1>6, <1>7, <1>8, <1>9, <1>10 DEF Next, ParsePacket, PacketQueueHandler

\* Every whole message under the server's key becomes a packet and stays one
\* until it is handled or, if it is no ping, refused.
THEOREM WholeMessagesKept == Spec => []NoneDropped
<1>1. Init => NoneDropped
  <2> SUFFICES ASSUME Init PROVE NoneDropped
    OBVIOUS
  <2>1. Done = 0
    BY DEF Init, Done, Taken
  <2> QED
    BY <2>1 DEF NoneDropped
<1>2. CodecInv /\ NoneDropped /\ [Next]_vars => NoneDropped'
  BY NoneDroppedStep
<1> QED
  BY <1>1, <1>2, CodecAlways, PTL DEF Spec
=============================================================================
