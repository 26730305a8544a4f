---------------------------- MODULE Dcp2Proofs ----------------------------
EXTENDS Dcp2Stream, RecursionLemmas, SequenceTheorems

\* The order in which FoldLeft takes the bytes: the last one first.
LastFirst(n) == [s \in SUBSET (1 .. n) |-> Max(s)]

Total(bytes) == FoldLeft(LAMBDA sum, b : b + sum, 0, bytes)

LEMMA LastOfSome ==
  ASSUME NEW n \in Nat, NEW s \in SUBSET (1 .. n), s # {}
  PROVE  LastFirst(n)[s] \in s
<1> DEFINE T == {n - i : i \in s}
<1>1. T \subseteq Nat /\ T # {}
  <2>1. \A i \in s : i \in Int /\ n - i \in Nat
    OBVIOUS
  <2> QED BY <2>1
<1>2. PICK k \in T : \A m \in T : k <= m
  <2> HIDE DEF T
  <2> QED BY <1>1, LeastMember
<1>3. n - k \in s /\ \A i \in s : n - k >= i
  <2>1. PICK h \in s : k = n - h
    OBVIOUS
  <2>2. h \in Int /\ n - k = h
    BY <2>1
  <2>3. ASSUME NEW i \in s PROVE h >= i
    <3>1. n - i \in T /\ i \in Int
      OBVIOUS
    <3>2. k <= n - i
      BY <1>2, <3>1
    <3> HIDE DEF T
    <3> QED BY <2>1, <2>2, <3>1, <3>2
  <2> QED BY <2>2, <2>3
<1>4. \E x \in s : \A y \in s : x >= y
  BY <1>3
<1> QED BY <1>4 DEF LastFirst, Max

LEMMA TotalIsFolded ==
  ASSUME NEW bytes \in Seq(Bytes)
  PROVE  Total(bytes) = FoldedSum(bytes, 1 .. Len(bytes), LastFirst(Len(bytes)))
<1>1. DOMAIN bytes = 1 .. Len(bytes)
  OBVIOUS
<1> QED
  BY <1>1 DEF Total, FoldLeft, MapThenFoldSet, FoldedSum, SumTurn, LastFirst

LEMMA WiderRange ==
  ASSUME NEW D, NEW A, NEW B, A \subseteq B, NEW f \in [D -> A]
  PROVE  f \in [D -> B]
OBVIOUS

LEMMA ByteValues ==
  /\ Byte \in Nat \ {0} /\ Bytes \subseteq Int
  /\ \A bytes \in Seq(Bytes) : bytes \in [1 .. Len(bytes) -> Int]
<1>1. Byte \in Nat \ {0} /\ Bytes \subseteq Int
  BY ByteAssumption DEF Bytes
<1>2. ASSUME NEW bytes \in Seq(Bytes) PROVE bytes \in [1 .. Len(bytes) -> Int]
  <2>1. bytes \in [1 .. Len(bytes) -> Bytes]
    OBVIOUS
  <2> QED BY <1>1, <2>1, WiderRange
<1> QED BY <1>1, <1>2

LEMMA TotalType == \A bytes \in Seq(Bytes) : Total(bytes) \in Int
<1> SUFFICES ASSUME NEW bytes \in Seq(Bytes) PROVE Total(bytes) \in Int
  OBVIOUS
<1> DEFINE n == Len(bytes)
           D == 1 .. n
<1>1. n \in Nat /\ IsFiniteSet(D) /\ bytes \in [D -> Int]
  BY FS_Interval, ByteValues
<1>2. \A s \in SUBSET D : s # {} => LastFirst(n)[s] \in s
  BY <1>1, LastOfSome
<1>3. Total(bytes) = FoldedSum(bytes, D, LastFirst(n))
  BY TotalIsFolded
<1> HIDE DEF D, n
<1>4. \E iter : IsSum(iter, bytes, D) /\ FoldedSum(bytes, D, LastFirst(n)) = iter[D]
  BY <1>1, <1>2, FoldedSumIsSum
<1> QED BY <1>3, <1>4 DEF IsSum

LEMMA FoldedUpdate ==
  ASSUME NEW n \in Nat, NEW a, NEW b, NEW j,
         a \in [1 .. n -> Int], b \in [1 .. n -> Int], j \in 1 .. n,
         \A i \in 1 .. n : i # j => b[i] = a[i]
  PROVE  FoldedSum(b, 1 .. n, LastFirst(n)) =
           FoldedSum(a, 1 .. n, LastFirst(n)) + b[j] - a[j]
<1> DEFINE D == 1 .. n
           pick == LastFirst(n)
<1>1. IsFiniteSet(D) /\ a \in [D -> Int] /\ b \in [D -> Int] /\ j \in D
  BY FS_Interval
<1>2. \A s \in SUBSET D : s # {} => pick[s] \in s
  BY LastOfSome
<1>3. \A i \in D : i # j => b[i] = a[i]
  OBVIOUS
<1> HIDE DEF D, pick
<1>4. FoldedSum(b, D, pick) = FoldedSum(a, D, pick) + b[j] - a[j]
  BY ONLY <1>1, <1>2, <1>3, SumUpdate
<1> QED BY <1>4 DEF D, pick

\* One byte changed changes the total by as much.
LEMMA TotalUpdate ==
  ASSUME NEW a, NEW b, NEW j,
         a \in Seq(Bytes), b \in Seq(Bytes), Len(a) = Len(b),
         j \in 1 .. Len(a), \A i \in 1 .. Len(a) : i # j => b[i] = a[i]
  PROVE  Total(b) = Total(a) + b[j] - a[j]
<1>1. /\ Total(a) = FoldedSum(a, 1 .. Len(a), LastFirst(Len(a)))
      /\ Total(b) = FoldedSum(b, 1 .. Len(a), LastFirst(Len(a)))
  BY TotalIsFolded
<1>2. /\ Len(a) \in Nat /\ a \in [1 .. Len(a) -> Int] /\ b \in [1 .. Len(a) -> Int]
  BY ByteValues
<1> DEFINE n == Len(a)
<1>3. /\ n \in Nat /\ a \in [1 .. n -> Int] /\ b \in [1 .. n -> Int]
      /\ j \in 1 .. n /\ \A i \in 1 .. n : i # j => b[i] = a[i]
  BY <1>2
<1> HIDE DEF n
<1>4. FoldedSum(b, 1 .. n, LastFirst(n)) =
        FoldedSum(a, 1 .. n, LastFirst(n)) + b[j] - a[j]
  BY ONLY <1>3, FoldedUpdate
<1> QED BY ONLY <1>1, <1>4 DEF n

-----------------------------------------------------------------------------
LEMMA Remainders ==
  ASSUME NEW b \in Nat \ {0}
  PROVE  /\ \A n \in Int : n % b \in 0 .. b - 1
         /\ \A n \in Int : n \div b \in Int /\ n = b * (n \div b) + (n % b)
         /\ \A q \in Int, r \in 0 .. b - 1 : (b * q + r) % b = r /\ (b * q + r) \div b = q
<1>1. \A n \in Int : n % b \in 0 .. b - 1
  OBVIOUS
<1>2. \A n \in Int : n \div b \in Int /\ n = b * (n \div b) + (n % b)
  OBVIOUS
<1>3. ASSUME NEW q \in Int, NEW r \in 0 .. b - 1 PROVE (b * q + r) % b = r
  OBVIOUS
<1>4. ASSUME NEW q \in Int, NEW r \in 0 .. b - 1 PROVE (b * q + r) \div b = q
  OBVIOUS
<1> QED BY <1>1, <1>2, <1>3, <1>4

\* Two numbers less than b apart do not have the same remainder.
LEMMA NearApart ==
  ASSUME NEW b \in Nat \ {0}, NEW m \in Int, NEW n \in Int,
         m < n, n < m + b
  PROVE  m % b # n % b
<1> SUFFICES ASSUME m % b = n % b PROVE FALSE
  OBVIOUS
<1> DEFINE p == m \div b
           q == n \div b
           r == m % b
<1>1. p \in Int /\ q \in Int /\ r \in Int /\ m = b * p + r /\ n = b * q + r
  BY Remainders
<1> HIDE DEF p, q, r
<1> DEFINE k == q - p
<1>2. k \in Int /\ n - m = b * k
  BY <1>1
<1>3. 0 < b * k /\ b * k < b
  BY <1>2
<1> HIDE DEF k
<1>4. CASE k <= 0
  <2>1. b * k <= 0
    BY <1>2, <1>4
  <2> QED BY <1>2, <1>3, <2>1
<1>5. CASE k >= 1
  <2>1. b * k >= b
    BY <1>2, <1>5
  <2> QED BY <1>2, <1>3, <2>1
<1> QED BY <1>2, <1>4, <1>5

-----------------------------------------------------------------------------
\* a and b are alike up to n, except perhaps at j.
Alike(a, b, n, j) == \A i \in 1 .. n : i # j => b[i] = a[i]

LEMMA PrefixFacts ==
  ASSUME NEW a, NEW n, a \in Seq(Bytes), n \in 0 .. Len(a)
  PROVE  /\ SubSeq(a, 1, n) \in Seq(Bytes)
         /\ Len(SubSeq(a, 1, n)) = n
         /\ \A i \in 1 .. n : SubSeq(a, 1, n)[i] = a[i]
<1>1. n \in Nat /\ Len(a) \in Nat /\ \A i \in 1 .. n : i \in 1 .. Len(a)
  OBVIOUS
<1>2. \A i \in 1 .. n : a[i] \in Bytes
  BY <1>1
<1>3. SubSeq(a, 1, n) = [i \in 1 .. n |-> a[i]]
  BY <1>1
<1> QED BY <1>1, <1>2, <1>3

LEMMA Concatenation ==
  ASSUME NEW a, NEW b, a \in Seq(Bytes), b \in Seq(Bytes)
  PROVE  /\ a \o b \in Seq(Bytes) /\ Len(a \o b) = Len(a) + Len(b)
         /\ \A i \in 1 .. Len(a) : (a \o b)[i] = a[i]
         /\ \A i \in 1 .. Len(b) : (a \o b)[Len(a) + i] = b[i]
OBVIOUS

LEMMA Appending ==
  ASSUME NEW a, NEW c, a \in Seq(Bytes), c \in Bytes
  PROVE  /\ Append(a, c) \in Seq(Bytes) /\ Len(Append(a, c)) = Len(a) + 1
         /\ \A i \in 1 .. Len(a) : Append(a, c)[i] = a[i]
         /\ Append(a, c)[Len(a) + 1] = c
OBVIOUS

LEMMA SuffixFacts ==
  ASSUME NEW a, NEW n, a \in Seq(Bytes), n \in 0 .. Len(a)
  PROVE  /\ SubSeq(a, n + 1, Len(a)) \in Seq(Bytes)
         /\ Len(SubSeq(a, n + 1, Len(a))) = Len(a) - n
         /\ \A i \in 1 .. Len(a) - n : SubSeq(a, n + 1, Len(a))[i] = a[n + i]
<1>1. n \in Nat /\ Len(a) \in Nat /\ n <= Len(a)
  OBVIOUS
<1> DEFINE w == Len(a)
           d == SubSeq(a, n + 1, w)
<1>2. d \in Seq(Bytes)
  BY <1>1
<1>3. Len(d) = w - n
  BY <1>1
<1>4. \A i \in 1 .. w - n : d[i] = a[n + i]
  BY <1>1
<1> QED BY <1>2, <1>3, <1>4

LEMMA SamePrefix ==
  ASSUME NEW a, NEW b, NEW n, a \in Seq(Bytes), b \in Seq(Bytes),
         n \in 0 .. Len(a), n \in 0 .. Len(b), \A i \in 1 .. n : b[i] = a[i]
  PROVE  SubSeq(b, 1, n) = SubSeq(a, 1, n)
<1>1. SubSeq(a, 1, n) = [i \in 1 .. n |-> a[i]] /\ SubSeq(b, 1, n) = [i \in 1 .. n |-> b[i]]
  OBVIOUS
<1> QED BY <1>1

LEMMA SumInBytes ==
  ASSUME NEW a, a \in Seq(Bytes)
  PROVE  SumOf(a) = Total(a) % Byte /\ Total(a) \in Int /\ SumOf(a) \in Bytes
<1>1. Total(a) \in Int
  BY TotalType
<1>2. SumOf(a) = Total(a) % Byte
  BY DEF SumOf, Total, u8
<1> HIDE DEF Total
<1>3. Byte \in Nat \ {0}
  BY ByteValues
<1>4. Total(a) % Byte \in 0 .. Byte - 1
  BY ONLY <1>1, <1>3, Remainders
<1> QED BY ONLY <1>1, <1>2, <1>4 DEF Bytes

\* The checksum of a prefix in which one byte was changed is another one.
LEMMA SumCatches ==
  ASSUME NEW a, NEW b, NEW n, NEW j, a \in Seq(Bytes), b \in Seq(Bytes),
         n \in 0 .. Len(a), n \in 0 .. Len(b), j \in 1 .. n,
         Alike(a, b, n, j), a[j] # b[j]
  PROVE  SumOf(SubSeq(b, 1, n)) # SumOf(SubSeq(a, 1, n))
<1> DEFINE c == SubSeq(a, 1, n)
           d == SubSeq(b, 1, n)
<1>1. /\ c \in Seq(Bytes) /\ Len(c) = n /\ \A i \in 1 .. n : c[i] = a[i]
      /\ d \in Seq(Bytes) /\ Len(d) = n /\ \A i \in 1 .. n : d[i] = b[i]
  BY PrefixFacts
<1> HIDE DEF c, d
<1>2. Total(d) = Total(c) + d[j] - c[j]
  <2>1. \A i \in 1 .. Len(c) : i # j => d[i] = c[i]
    BY <1>1 DEF Alike
  <2>2. c \in Seq(Bytes) /\ d \in Seq(Bytes) /\ Len(c) = Len(d) /\ j \in 1 .. Len(c)
    BY <1>1
  <2> QED BY ONLY <2>1, <2>2, TotalUpdate
<1>3. /\ SumOf(c) = Total(c) % Byte /\ SumOf(d) = Total(d) % Byte
      /\ Total(c) \in Int /\ Total(d) \in Int
  BY <1>1, SumInBytes
<1>4. c[j] \in Bytes /\ d[j] \in Bytes /\ c[j] # d[j]
  BY <1>1
<1> DEFINE t == Total(c)
           u == Total(d)
           x == c[j]
           y == d[j]
<1>5. /\ t \in Int /\ u \in Int /\ u = t + y - x /\ x # y
      /\ x \in 0 .. Byte - 1 /\ y \in 0 .. Byte - 1 /\ Byte \in Nat \ {0}
  BY <1>2, <1>3, <1>4, ByteValues DEF Bytes
<1> HIDE DEF t, u, x, y
<1>6. u % Byte # t % Byte
  <2>1. (t < u /\ u < t + Byte) \/ (u < t /\ t < u + Byte)
    BY ONLY <1>5
  <2> QED BY ONLY <1>5, <2>1, NearApart
<1> QED BY ONLY <1>3, <1>6 DEF c, d, t, u

LEMMA HeaderCatches ==
  ASSUME NEW a, NEW b, NEW j, a \in Seq(Bytes), b \in Seq(Bytes),
         Len(a) >= 3, Len(b) >= 3, j \in 1 .. 3,
         Alike(a, b, 3, j), a[j] # b[j]
  PROVE  header_crc(b) # header_crc(a)
<1> DEFINE x == SumOf(SubSeq(a, 1, 3))
           y == SumOf(SubSeq(b, 1, 3))
<1>1. 3 \in 0 .. Len(a) /\ 3 \in 0 .. Len(b)
  OBVIOUS
<1>2. x # y
  BY <1>1, SumCatches
<1>3. x \in Bytes /\ y \in Bytes
  BY <1>1, PrefixFacts, SumInBytes
<1>4. header_crc(a) = (137 + x) % Byte /\ header_crc(b) = (137 + y) % Byte
  BY DEF header_crc, u8, HeaderSeed
<1> HIDE DEF x, y
<1>5. Byte \in Nat \ {0} /\ x \in 0 .. Byte - 1 /\ y \in 0 .. Byte - 1
  BY <1>3, ByteValues DEF Bytes
<1>6. (137 + x) % Byte # (137 + y) % Byte
  <2>1. \/ 137 + x < 137 + y /\ 137 + y < 137 + x + Byte
        \/ 137 + y < 137 + x /\ 137 + x < 137 + y + Byte
    BY ONLY <1>2, <1>5
  <2>2. 137 + x \in Int /\ 137 + y \in Int
    BY ONLY <1>5
  <2> QED BY ONLY <1>5, <2>1, <2>2, NearApart
<1> QED BY ONLY <1>4, <1>6

-----------------------------------------------------------------------------
\* The bytes of a packet, one by one.
Encoded(p, e) ==
  /\ e \in Seq(Bytes)
  /\ Len(e) = HeaderSize + Len(p.data) + (IF Len(p.data) # 0 THEN 1 ELSE 0)
  /\ e[1] = p.dst + p.src * Addresses
  /\ e[2] = p.cmd + p.ack * Commands + p.req * Commands * Acks
  /\ e[3] = Len(p.data)
  /\ e[4] = header_crc(e)
  /\ \A i \in 1 .. Len(p.data) : e[HeaderSize + i] = p.data[i]
  /\ Len(p.data) # 0 => e[Len(e)] = SumOf(SubSeq(e, 1, Len(e) - 1))

\* Products of numbers below others.
LEMMA TwoDigits ==
  ASSUME NEW b \in Nat \ {0}, NEW q \in Nat, NEW r \in 0 .. b - 1, NEW m \in Nat, q < m
  PROVE  r + q * b \in 0 .. m * b - 1
<1>1. q * b >= 0 /\ (m - 1 - q) * b >= 0
  OBVIOUS
<1>2. (m - 1 - q) * b = m * b - b - q * b
  OBVIOUS
<1> DEFINE u == q * b
           v == m * b
<1>3. u \in Int /\ v \in Int
  OBVIOUS
<1>4. u >= 0 /\ v - b - u >= 0
  BY <1>1, <1>2
<1> HIDE DEF u, v
<1>5. r + u \in 0 .. v - 1
  BY <1>3, <1>4
<1> QED BY <1>5 DEF u, v

LEMMA FieldBytes ==
  ASSUME NEW p, IsPacket(p)
  PROVE  /\ p.dst + p.src * Addresses \in Bytes
         /\ p.cmd + p.ack * Commands + p.req * Commands * Acks \in Bytes
         /\ Len(p.data) \in Bytes
<1> DEFINE dst == p.dst
           src == p.src
           cmd == p.cmd
           ack == p.ack
           req == p.req
           nb == Len(p.data)
<1>1. /\ dst \in 0 .. Addresses - 1 /\ src \in 0 .. Addresses - 1
      /\ cmd \in 0 .. Commands - 1 /\ ack \in 0 .. Acks - 1 /\ req \in {0, 1}
      /\ nb \in Nat /\ nb < Byte
  BY DEF IsPacket
<1>2. /\ Byte \in Nat \ {0} /\ Addresses \in Nat \ {0}
      /\ Commands \in Nat \ {0} /\ Acks \in Nat \ {0}
      /\ Byte = Addresses * Addresses /\ Byte = Commands * Acks * 2
  BY ByteAssumption
<1> HIDE DEF dst, src, cmd, ack, req, nb
<1>3. dst + src * Addresses \in 0 .. Addresses * Addresses - 1
  BY ONLY <1>1, <1>2, TwoDigits
<1>4. cmd + ack * Commands \in 0 .. Acks * Commands - 1
  BY ONLY <1>1, <1>2, TwoDigits
<1>5. cmd + ack * Commands + req * Commands * Acks \in 0 .. Byte - 1
  <2> DEFINE m == Commands * Acks
             low == cmd + ack * Commands
  <2>1. m \in Nat \ {0} /\ Byte = m * 2 /\ Acks * Commands = m
    BY ONLY <1>2
  <2>2. req * Commands * Acks = IF req = 0 THEN 0 ELSE m
    BY ONLY <1>1, <1>2
  <2>3. low \in 0 .. m - 1
    BY ONLY <1>4, <2>1
  <2> HIDE DEF m, low
  <2>4. low + (IF req = 0 THEN 0 ELSE m) \in 0 .. Byte - 1
    BY ONLY <2>1, <2>3
  <2> QED BY ONLY <2>2, <2>4 DEF low
<1> QED BY <1>1, <1>2, <1>3, <1>5 DEF Bytes, dst, src, cmd, ack, req, nb

LEMMA ToBytes ==
  ASSUME NEW p, IsPacket(p)
  PROVE  Encoded(p, to_bytes(p))
<1> DEFINE data == p.data
           nb == Len(data)
           b1 == p.dst + p.src * Addresses
           b2 == p.cmd + p.ack * Commands + p.req * Commands * Acks
           fields == <<b1, b2, nb>>
           b4 == header_crc(fields)
           bytes == Append(fields, b4) \o data
           e == to_bytes(p)
<1>1. b1 \in Bytes /\ b2 \in Bytes /\ nb \in Bytes /\ nb \in Nat
  BY FieldBytes DEF IsPacket
<1>2. data \in Seq(Bytes) /\ (data = << >> <=> nb = 0)
  BY DEF IsPacket
<1>3. e = IF data = << >> THEN bytes ELSE Append(bytes, packet_crc(bytes, Len(bytes)))
  BY DEF to_bytes
<1> HIDE DEF data, b1, b2, e
<1>4. fields \in Seq(Bytes) /\ Len(fields) = 3
  BY <1>1
<1>5. b4 \in Bytes
  <2>1. SumOf(SubSeq(fields, 1, 3)) \in Bytes
    <3>1. 3 \in 0 .. Len(fields)
      BY <1>4
    <3> HIDE DEF fields
    <3> QED BY <1>4, <3>1, PrefixFacts, SumInBytes
  <2> DEFINE s == SumOf(SubSeq(fields, 1, 3))
  <2>2. b4 = (137 + s) % Byte
    BY DEF header_crc, u8, HeaderSeed
  <2> HIDE DEF s
  <2>3. Byte \in Nat \ {0} /\ 137 + s \in Int
    <3>1. s \in Int
      BY <2>1, ByteValues DEF s
    <3> QED BY ONLY <3>1, ByteValues
  <2> HIDE DEF b4
  <2>4. (137 + s) % Byte \in 0 .. Byte - 1
    BY ONLY <2>3, Remainders
  <2> QED BY ONLY <2>2, <2>4 DEF Bytes
<1> HIDE DEF b4, nb
<1>6. /\ bytes \in Seq(Bytes) /\ Len(bytes) = 4 + nb
      /\ bytes[1] = b1 /\ bytes[2] = b2 /\ bytes[3] = nb /\ bytes[4] = b4
      /\ \A i \in 1 .. nb : bytes[4 + i] = data[i]
  <2> DEFINE head == Append(fields, b4)
  <2>1. fields[1] = b1 /\ fields[2] = b2 /\ fields[3] = nb
    OBVIOUS
  <2> HIDE DEF fields
  <2>2. /\ head \in Seq(Bytes) /\ Len(head) = 4
        /\ head[1] = b1 /\ head[2] = b2 /\ head[3] = nb /\ head[4] = b4
    <3>1. /\ head \in Seq(Bytes) /\ Len(head) = 4
          /\ \A i \in 1 .. 3 : head[i] = fields[i]
          /\ head[4] = b4
      <4>1. /\ head \in Seq(Bytes) /\ Len(head) = Len(fields) + 1
            /\ \A i \in 1 .. Len(fields) : head[i] = fields[i]
            /\ head[Len(fields) + 1] = b4
        <5> HIDE DEF b4, bytes
        <5> QED BY <1>4, <1>5, Appending
      <4>2. Len(fields) = 3
        BY <1>4
      <4> HIDE DEF head
      <4> QED BY ONLY <4>1, <4>2
    <3> HIDE DEF head
    <3> QED BY <2>1, <3>1
  <2> HIDE DEF head
  <2>3. /\ bytes \in Seq(Bytes) /\ Len(bytes) = Len(head) + Len(data)
        /\ \A i \in 1 .. Len(head) : bytes[i] = head[i]
        /\ \A i \in 1 .. Len(data) : bytes[Len(head) + i] = data[i]
    BY <1>2, <2>2, Concatenation DEF head
  <2> HIDE DEF bytes
  <2>4. bytes[1] = head[1] /\ bytes[2] = head[2] /\ bytes[3] = head[3] /\ bytes[4] = head[4]
    BY <2>2, <2>3
  <2> QED BY <2>2, <2>3, <2>4 DEF nb
<1> HIDE DEF bytes
<1>7. /\ Len(bytes) \in Nat /\ SubSeq(bytes, 1, Len(bytes)) = bytes
      /\ packet_crc(bytes, Len(bytes)) = SumOf(bytes) /\ SumOf(bytes) \in Bytes
  <2>1. SubSeq(bytes, 1, Len(bytes)) = bytes
    BY <1>6
  <2>2. SumOf(bytes) \in Bytes
    BY <1>6, SumInBytes
  <2>3. Len(bytes) \in Nat
    BY <1>6
  <2>4. packet_crc(bytes, Len(bytes)) = SumOf(bytes)
    BY <2>1 DEF packet_crc
  <2> QED BY <2>1, <2>2, <2>3, <2>4
<1>8. /\ e \in Seq(Bytes) /\ Len(e) = 4 + nb + (IF nb # 0 THEN 1 ELSE 0)
      /\ \A i \in 1 .. 4 + nb : e[i] = bytes[i]
      /\ nb # 0 => e[5 + nb] = SumOf(bytes)
  <2> DEFINE c == SumOf(bytes)
  <2>1. CASE nb = 0
    BY <1>1, <1>2, <1>3, <1>6, <2>1
  <2>2. CASE nb # 0
    <3>1. e = Append(bytes, c) /\ c \in Bytes
      BY <1>2, <1>3, <1>7, <2>2
    <3> HIDE DEF c
    <3> QED BY <1>1, <1>6, <2>2, <3>1 DEF c
  <2> QED BY <2>1, <2>2
<1>9. /\ e[1] = b1 /\ e[2] = b2 /\ e[3] = nb /\ e[4] = b4
      /\ \A i \in 1 .. nb : e[4 + i] = data[i]
  <2>1. /\ 1 \in 1 .. 4 + nb /\ 2 \in 1 .. 4 + nb /\ 3 \in 1 .. 4 + nb /\ 4 \in 1 .. 4 + nb
        /\ \A i \in 1 .. nb : 4 + i \in 1 .. 4 + nb
    BY <1>1
  <2> QED BY ONLY <1>6, <1>8, <2>1
<1>10. header_crc(e) = b4
  <2>1. SubSeq(e, 1, 3) = SubSeq(fields, 1, 3)
    <3>1. \A i \in 1 .. 3 : e[i] = fields[i]
      BY <1>9
    <3>2. 3 \in 0 .. Len(e) /\ 3 \in 0 .. Len(fields)
      BY <1>1, <1>4, <1>8
    <3> HIDE DEF fields
    <3> QED BY <1>4, <1>8, <3>1, <3>2, SamePrefix
  <2> QED BY <2>1 DEF header_crc, b4
<1>11. nb # 0 => e[Len(e)] = SumOf(SubSeq(e, 1, Len(e) - 1))
  <2> SUFFICES ASSUME nb # 0 PROVE e[Len(e)] = SumOf(SubSeq(e, 1, Len(e) - 1))
    OBVIOUS
  <2>1. Len(e) = 5 + nb /\ Len(e) - 1 = 4 + nb
    BY <1>1, <1>8
  <2>2. SubSeq(e, 1, 4 + nb) = SubSeq(bytes, 1, 4 + nb)
    <3>1. 4 + nb \in 0 .. Len(e) /\ 4 + nb \in 0 .. Len(bytes)
      BY <1>1, <1>6, <1>8
    <3> QED BY <1>6, <1>8, <3>1, SamePrefix
  <2> QED BY <1>6, <1>7, <1>8, <2>1, <2>2
<1> QED BY <1>8, <1>9, <1>10, <1>11 DEF Encoded, HeaderSize, b1, b2, nb, data, e

-----------------------------------------------------------------------------
\* The size that from_bytes computes in a u8 is the size of the packet.
Fits(p) == packet_size(Len(p.data)) = Len(to_bytes(p))

\* That is so for the packets that have fewer bytes than a u8 counts, and for no
\* other one.
THEOREM SizeFitsShortPackets ==
  ASSUME NEW p, IsPacket(p)
  PROVE  Fits(p) <=> Len(to_bytes(p)) < Byte
<1> DEFINE n == Len(to_bytes(p))
           nb == Len(p.data)
<1>1. nb \in Nat /\ n = HeaderSize + nb + (IF nb # 0 THEN 1 ELSE 0)
  BY ToBytes DEF IsPacket, Encoded
<1>2. Fits(p) <=> n % Byte = n
  BY <1>1 DEF Fits, packet_size, u8
<1> HIDE DEF n, nb
<1>3. n \in Nat
  BY <1>1 DEF HeaderSize
<1>4. n % Byte = n <=> n < Byte
  <2>1. Byte \in Nat \ {0}
    BY ByteAssumption
  <2>2. n % Byte \in 0 .. Byte - 1 /\ (n < Byte => (Byte * 0 + n) % Byte = n)
    BY <1>3, <2>1, Remainders
  <2> QED BY <1>3, <2>1, <2>2
<1> QED BY <1>2, <1>4 DEF n

\* The fields of the first two bytes are found in them again.
LEMMA FieldsParsed ==
  ASSUME NEW p, IsPacket(p), NEW b1, NEW b2,
         b1 = p.dst + p.src * Addresses,
         b2 = p.cmd + p.ack * Commands + p.req * Commands * Acks
  PROVE  /\ b1 % Addresses = p.dst /\ b1 \div Addresses = p.src
         /\ b2 % Commands = p.cmd /\ (b2 \div Commands) % Acks = p.ack
         /\ b2 \div (Commands * Acks) = p.req
<1> DEFINE dst == p.dst
           src == p.src
           cmd == p.cmd
           ack == p.ack
           req == p.req
<1>1. /\ dst \in 0 .. Addresses - 1 /\ src \in 0 .. Addresses - 1
      /\ cmd \in 0 .. Commands - 1 /\ ack \in 0 .. Acks - 1 /\ req \in {0, 1}
  BY DEF IsPacket
<1>2. /\ Addresses \in Nat \ {0} /\ Commands \in Nat \ {0} /\ Acks \in Nat \ {0}
  BY ByteAssumption
<1>3. b1 = dst + src * Addresses /\ b2 = cmd + ack * Commands + req * Commands * Acks
  OBVIOUS
<1> HIDE DEF dst, src, cmd, ack, req
<1>4. b1 % Addresses = dst /\ b1 \div Addresses = src
  <2>1. b1 = Addresses * src + dst /\ src \in Int
    BY ONLY <1>1, <1>2, <1>3
  <2> QED BY ONLY <1>1, <1>2, <2>1, Remainders
<1> DEFINE q == Acks * req + ack
<1>5. /\ q \in Int /\ b2 = Commands * q + cmd /\ req \in Int
  BY ONLY <1>1, <1>2, <1>3
<1>6. b2 % Commands = cmd /\ b2 \div Commands = q
  <2> HIDE DEF q
  <2> QED BY ONLY <1>1, <1>2, <1>5, Remainders
<1>7. q % Acks = ack
  BY ONLY <1>1, <1>2, <1>5, Remainders
<1>8. b2 \div (Commands * Acks) = req
  <2> DEFINE m == Commands * Acks
             low == cmd + ack * Commands
  <2>1. m \in Nat \ {0} /\ Acks * Commands = m
    BY ONLY <1>2
  <2>2. low \in 0 .. m - 1
    <3>1. low \in 0 .. Acks * Commands - 1
      BY ONLY <1>1, <1>2, TwoDigits
    <3> QED BY ONLY <2>1, <3>1
  <2>3. b2 = m * req + low
    <3>1. req * Commands * Acks = m * req
      BY ONLY <1>1, <1>2
    <3>2. low \in Int /\ m * req \in Int
      BY ONLY <1>5, <2>1, <2>2
    <3>3. b2 = low + req * Commands * Acks
      BY ONLY <1>3
    <3> HIDE DEF low, m
    <3> QED BY ONLY <3>1, <3>2, <3>3
  <2> HIDE DEF m, low
  <2>4. (m * req + low) \div m = req
    BY ONLY <1>5, <2>1, <2>2, Remainders
  <2> QED BY ONLY <2>3, <2>4 DEF m
<1> QED BY <1>4, <1>6, <1>7, <1>8 DEF dst, src, cmd, ack, req

Damaged(bytes) ==
  /\ bytes[3] # 0
  /\ packet_crc(bytes, packet_size(bytes[3]) - 1) # bytes[packet_size(bytes[3])]

Parsed(bytes) ==
  Packet(bytes[1] % Addresses, bytes[1] \div Addresses,
         bytes[2] % Commands, (bytes[2] \div Commands) % Acks,
         bytes[2] \div (Commands * Acks),
         SubSeq(bytes, HeaderSize + 1, HeaderSize + bytes[3]))

LEMMA FromBytesCases ==
  ASSUME NEW bytes, Len(bytes) \in Nat
  PROVE  LET r == from_bytes(bytes) IN
    /\ Len(bytes) < HeaderSize => r = Nothing("NEED_MORE_DATA")
    /\ Len(bytes) >= HeaderSize =>
         /\ bytes[4] # header_crc(bytes) => r = Nothing("INVALID_HEADER_CRC")
         /\ bytes[4] = header_crc(bytes) =>
              /\ Len(bytes) < packet_size(bytes[3]) => r = Nothing("NEED_MORE_DATA")
              /\ ~(Len(bytes) < packet_size(bytes[3])) =>
                   /\ Damaged(bytes) => r = Nothing("INVALID_PACKET_CRC")
                   /\ ~Damaged(bytes) =>
                        r = [error |-> "OK", packet |-> Parsed(bytes),
                             end |-> packet_size(bytes[3])]
BY DEF from_bytes, Damaged, Parsed, HeaderSize

LEMMA NothingDecoded ==
  ASSUME NEW why \in {"NEED_MORE_DATA", "INVALID_HEADER_CRC", "INVALID_PACKET_CRC"}
  PROVE  Nothing(why).error = why /\ Nothing(why).end = 0
BY DEF Nothing

LEMMA ParsedPacket ==
  ASSUME NEW p, NEW bytes, IsPacket(p), bytes \in Seq(Bytes),
         Len(to_bytes(p)) <= Len(bytes),
         \A i \in 1 .. Len(to_bytes(p)) : bytes[i] = to_bytes(p)[i]
  PROVE  Parsed(bytes) = p
<1> DEFINE e == to_bytes(p)
           nb == Len(p.data)
           data == p.data
           got == SubSeq(bytes, 5, 4 + bytes[3])
<1>1. Encoded(p, e)
  BY ToBytes
<1>2. data \in Seq(Bytes) /\ nb \in Nat
  BY DEF IsPacket
<1> HIDE DEF e
<1>3. /\ Len(e) \in Nat /\ Len(e) >= 4 + nb
      /\ e[1] = p.dst + p.src * Addresses
      /\ e[2] = p.cmd + p.ack * Commands + p.req * Commands * Acks
      /\ e[3] = nb /\ \A i \in 1 .. nb : e[4 + i] = data[i]
  <2>1. /\ e[1] = p.dst + p.src * Addresses
        /\ e[2] = p.cmd + p.ack * Commands + p.req * Commands * Acks
        /\ e[3] = nb /\ \A i \in 1 .. nb : e[4 + i] = data[i]
    BY <1>1 DEF Encoded, HeaderSize
  <2>2. e \in Seq(Bytes) /\ Len(e) = 4 + nb + (IF nb # 0 THEN 1 ELSE 0)
    BY <1>1 DEF Encoded, HeaderSize
  <2> HIDE DEF nb, data
  <2>3. Len(e) \in Nat /\ Len(e) >= 4 + nb
    BY ONLY <1>2, <2>2
  <2> QED BY <2>1, <2>3
<1>4. Len(e) <= Len(bytes) /\ \A i \in 1 .. Len(e) : bytes[i] = e[i]
  BY DEF e
<1> HIDE DEF nb, data
<1>5. bytes[1] = e[1] /\ bytes[2] = e[2] /\ bytes[3] = nb
  BY <1>2, <1>3, <1>4
<1>6. got = data
  <2>1. got = [i \in 1 .. nb |-> bytes[4 + i]]
    <3>1. 4 + nb <= Len(bytes) /\ Len(bytes) \in Nat
      BY <1>2, <1>3, <1>4
    <3>2. got = SubSeq(bytes, 5, 4 + nb)
      BY <1>5
    <3> HIDE DEF got
    <3>3. /\ Len(got) = nb /\ got \in Seq(Bytes)
          /\ \A i \in 1 .. nb : got[i] = bytes[4 + i]
      BY <1>2, <3>1, <3>2
    <3> QED BY <3>3
  <2>2. \A i \in 1 .. nb : bytes[4 + i] = data[i]
    <3>1. \A i \in 1 .. nb : 4 + i \in 1 .. Len(e)
      BY <1>2, <1>3
    <3> QED BY <1>3, <1>4, <3>1
  <2>3. data = [i \in 1 .. nb |-> data[i]]
    BY <1>2 DEF nb, data
  <2> HIDE DEF got
  <2> QED BY ONLY <2>1, <2>2, <2>3
<1>7. Parsed(bytes) = Packet(p.dst, p.src, p.cmd, p.ack, p.req, data)
  <2>1. /\ bytes[1] % Addresses = p.dst /\ bytes[1] \div Addresses = p.src
        /\ bytes[2] % Commands = p.cmd /\ (bytes[2] \div Commands) % Acks = p.ack
        /\ bytes[2] \div (Commands * Acks) = p.req
    <3>1. /\ bytes[1] = p.dst + p.src * Addresses
          /\ bytes[2] = p.cmd + p.ack * Commands + p.req * Commands * Acks
      BY <1>3, <1>5
    <3> QED BY <3>1, FieldsParsed
  <2>2. Parsed(bytes) =
          Packet(bytes[1] % Addresses, bytes[1] \div Addresses,
                 bytes[2] % Commands, (bytes[2] \div Commands) % Acks,
                 bytes[2] \div (Commands * Acks), got)
    <3>1. HeaderSize + 1 = 5 /\ HeaderSize = 4
      BY DEF HeaderSize
    <3> QED BY <3>1 DEF Parsed
  <2> HIDE DEF got
  <2> QED BY ONLY <1>6, <2>1, <2>2
<1>8. p = Packet(p.dst, p.src, p.cmd, p.ack, p.req, data)
  BY DEF IsPacket, Packet, data
<1> QED BY ONLY <1>7, <1>8

-----------------------------------------------------------------------------
\* What from_bytes says of the beginning of a packet, or of more than it, in
\* which one byte may be another one.
Answered(r, p, bytes, j) ==
  /\ r.error \in DecodeErrors
  /\ r.error = "OK" => /\ r.packet = p /\ r.end = Len(to_bytes(p))
                       /\ Len(to_bytes(p)) <= Len(bytes)
  /\ r.error # "OK" => r.end = 0
  /\ j = 0 => r.error \in {"OK", "NEED_MORE_DATA"}

LEMMA NothingAnswered ==
  ASSUME NEW why \in {"NEED_MORE_DATA", "INVALID_HEADER_CRC", "INVALID_PACKET_CRC"},
         NEW p, NEW bytes, NEW j, j = 0 => why = "NEED_MORE_DATA"
  PROVE  Answered(Nothing(why), p, bytes, j)
BY NothingDecoded DEF Answered, DecodeErrors

LEMMA FromBytesAnswers ==
  ASSUME NEW p, NEW bytes, NEW j, IsPacket(p), Fits(p),
         bytes \in Seq(Bytes), j \in Nat,
         \A i \in 1 .. Len(to_bytes(p)) :
           i <= Len(bytes) /\ i # j => bytes[i] = to_bytes(p)[i]
  PROVE  Answered(from_bytes(bytes), p, bytes, j)
<1> DEFINE e == to_bytes(p)
           r == from_bytes(bytes)
           nb == Len(p.data)
           size == Len(e)
           len == Len(bytes)
<1> SUFFICES Answered(r, p, bytes, j)
  OBVIOUS
<1>1. Encoded(p, e) /\ packet_size(nb) = size
  BY ToBytes DEF Fits
<1>2. nb \in Nat /\ len \in Nat
  BY DEF IsPacket
<1> HIDE DEF e, r
<1>3. \A i \in 1 .. size : i <= len /\ i # j => bytes[i] = e[i]
  BY DEF e
<1> HIDE DEF nb
<1>4. /\ size = 4 + nb + (IF nb # 0 THEN 1 ELSE 0) /\ size \in Nat /\ size >= 4
      /\ e \in Seq(Bytes) /\ e[3] = nb /\ e[4] = header_crc(e)
      /\ nb # 0 => e[size] = SumOf(SubSeq(e, 1, size - 1))
  <2>1. /\ size = 4 + nb + (IF nb # 0 THEN 1 ELSE 0)
        /\ e \in Seq(Bytes) /\ e[3] = nb /\ e[4] = header_crc(e)
        /\ nb # 0 => e[size] = SumOf(SubSeq(e, 1, size - 1))
    BY <1>1 DEF Encoded, HeaderSize, nb
  <2>2. size \in Nat /\ size >= 4
    <3> HIDE DEF size
    <3> QED BY ONLY <1>2, <2>1
  <2> QED BY <2>1, <2>2
<1>5. /\ len < 4 => r = Nothing("NEED_MORE_DATA")
      /\ len >= 4 =>
           /\ bytes[4] # header_crc(bytes) => r = Nothing("INVALID_HEADER_CRC")
           /\ bytes[4] = header_crc(bytes) =>
                /\ len < packet_size(bytes[3]) => r = Nothing("NEED_MORE_DATA")
                /\ ~(len < packet_size(bytes[3])) =>
                     /\ Damaged(bytes) => r = Nothing("INVALID_PACKET_CRC")
                     /\ ~Damaged(bytes) =>
                          r = [error |-> "OK", packet |-> Parsed(bytes),
                               end |-> packet_size(bytes[3])]
  BY <1>2, FromBytesCases DEF HeaderSize, r
<1> HIDE DEF size, len
<1>6. ASSUME r = Nothing("NEED_MORE_DATA") PROVE Answered(r, p, bytes, j)
  BY <1>6, NothingAnswered
<1>7. CASE len < 4
  BY <1>5, <1>6, <1>7
<1>8. CASE len >= 4
  <2>1. 3 \in 0 .. len /\ 3 \in 0 .. size /\ {1, 2, 3, 4} \subseteq 1 .. size
    BY ONLY <1>2, <1>4, <1>8
  <2>2. \A i \in 1 .. 4 : i # j => bytes[i] = e[i]
    BY ONLY <1>2, <1>3, <1>4, <1>8
  <2>3. (\A i \in 1 .. 3 : bytes[i] = e[i]) => header_crc(bytes) = header_crc(e)
    <3> SUFFICES ASSUME \A i \in 1 .. 3 : bytes[i] = e[i]
                 PROVE  header_crc(bytes) = header_crc(e)
      OBVIOUS
    <3>1. SubSeq(bytes, 1, 3) = SubSeq(e, 1, 3)
      BY <1>4, <2>1, SamePrefix DEF len, size
    <3> QED BY <3>1 DEF header_crc
  <2>4. CASE \E i \in 1 .. 4 : bytes[i] # e[i]
    <3>1. j \in 1 .. 4 /\ bytes[j] # e[j] /\ j # 0
      BY <2>2, <2>4
    <3>2. bytes[4] # header_crc(bytes)
      <4>1. CASE j = 4
        <5>1. \A i \in 1 .. 3 : bytes[i] = e[i]
          BY ONLY <2>2, <4>1
        <5> QED BY <1>4, <2>3, <3>1, <4>1, <5>1
      <4>2. CASE j \in 1 .. 3
        <5>1. Alike(e, bytes, 3, j)
          BY <2>2 DEF Alike
        <5>2. header_crc(bytes) # header_crc(e)
          BY <1>4, <1>8, <3>1, <4>2, <5>1, HeaderCatches DEF len, size
        <5>3. bytes[4] = e[4]
          BY <2>2, <4>2
        <5> QED BY <1>4, <5>2, <5>3
      <4> QED BY ONLY <3>1, <4>1, <4>2
    <3>3. r = Nothing("INVALID_HEADER_CRC")
      BY <1>5, <1>8, <3>2
    <3> QED BY <3>1, <3>3, NothingAnswered
  <2>5. CASE \A i \in 1 .. 4 : bytes[i] = e[i]
    <3>1. /\ bytes[4] = header_crc(bytes) /\ bytes[3] = nb
          /\ packet_size(bytes[3]) = size
      <4>1. bytes[4] = e[4] /\ bytes[3] = e[3] /\ \A i \in 1 .. 3 : bytes[i] = e[i]
        BY ONLY <2>5
      <4> QED BY <1>1, <1>4, <2>3, <4>1
    <3>2. CASE len < size
      BY <1>5, <1>6, <1>8, <3>1, <3>2
    <3>3. CASE len >= size
      <4>0. ~(len < size)
        BY ONLY <1>2, <1>4, <3>3
      <4>1. \A i \in 1 .. size : i # j => bytes[i] = e[i]
        BY ONLY <1>2, <1>3, <1>4, <3>3
      <4>2. ASSUME nb # 0
            PROVE  /\ size - 1 \in 0 .. size /\ size - 1 \in 0 .. len
                   /\ size - 1 \in Nat /\ size >= 5 /\ size \in 1 .. size
        BY ONLY <1>2, <1>4, <3>3, <4>2
      <4>3. ASSUME nb # 0, \A i \in 1 .. size - 1 : bytes[i] = e[i]
            PROVE  packet_crc(bytes, size - 1) = e[size]
        <5>1. SubSeq(bytes, 1, size - 1) = SubSeq(e, 1, size - 1)
          BY <1>4, <4>2, <4>3, SamePrefix DEF len, size
        <5> QED BY <1>4, <4>3, <5>1 DEF packet_crc
      <4>4. CASE \A i \in 1 .. size : bytes[i] = e[i]
        <5>1. ~Damaged(bytes)
          <6>1. CASE nb = 0
            BY <3>1, <6>1 DEF Damaged
          <6>2. CASE nb # 0
            <7>1. bytes[size] = e[size] /\ \A i \in 1 .. size - 1 : bytes[i] = e[i]
              BY <1>4, <4>2, <4>4, <6>2
            <7> QED BY <3>1, <4>3, <6>2, <7>1 DEF Damaged
          <6> QED BY <6>1, <6>2
        <5>2. Parsed(bytes) = p
          BY <3>3, <4>4, ParsedPacket DEF e, size, len
        <5>3. r = [error |-> "OK", packet |-> p, end |-> size]
          BY <1>5, <1>8, <3>1, <4>0, <5>1, <5>2
        <5>4. r.error = "OK" /\ r.packet = p /\ r.end = size
          BY ONLY <5>3
        <5>5. size <= len /\ size = Len(to_bytes(p)) /\ len = Len(bytes)
          BY <1>2, <1>4, <3>3 DEF size, e, len
        <5> QED BY ONLY <5>4, <5>5 DEF Answered, DecodeErrors
      <4>5. CASE \E i \in 1 .. size : bytes[i] # e[i]
        <5>1. j \in 1 .. size /\ bytes[j] # e[j] /\ j # 0
          BY <4>1, <4>5
        <5>2. j \notin 1 .. 4
          BY <2>5, <5>1
        <5>3. nb # 0 /\ size >= 5
          BY ONLY <1>2, <1>4, <5>1, <5>2
        <5>4. Damaged(bytes)
          <6>1. CASE j = size
            <7>1. \A i \in 1 .. size - 1 : bytes[i] = e[i]
              BY ONLY <1>4, <4>1, <6>1
            <7> QED BY <3>1, <4>3, <5>1, <5>3, <6>1, <7>1 DEF Damaged
          <6>2. CASE j # size
            <7>1. j \in 1 .. size - 1 /\ size \in 1 .. size /\ size # j
              BY ONLY <1>4, <5>1, <5>3, <6>2
            <7>2. Alike(e, bytes, size - 1, j)
              <8>1. \A i \in 1 .. size - 1 : i \in 1 .. size
                BY ONLY <1>4
              <8> QED BY ONLY <4>1, <8>1 DEF Alike
            <7>3. SumOf(SubSeq(bytes, 1, size - 1)) # SumOf(SubSeq(e, 1, size - 1))
              BY <1>4, <4>2, <5>1, <5>3, <7>1, <7>2, SumCatches DEF len, size
            <7>4. bytes[size] = e[size]
              BY <4>1, <7>1
            <7> QED BY <1>4, <3>1, <5>3, <7>3, <7>4 DEF Damaged, packet_crc
          <6> QED BY <6>1, <6>2
        <5>5. r = Nothing("INVALID_PACKET_CRC")
          BY <1>5, <1>8, <3>1, <4>0, <5>4
        <5> QED BY <5>1, <5>5, NothingAnswered
      <4> QED BY <4>4, <4>5
    <3> QED BY ONLY <1>2, <1>4, <3>2, <3>3
  <2> QED BY <2>4, <2>5
<1> QED BY ONLY <1>2, <1>7, <1>8

-----------------------------------------------------------------------------
(***************************************************************************)
(* The line.  s carries the packets of q after the first r: at[k] of its   *)
(* bytes are those of the packets up to the k-th, and they are what        *)
(* to_bytes made of them, except perhaps the j-th.                         *)
(***************************************************************************)
Carries(s, q, r, at, j) ==
  /\ at \in [r .. Len(q) -> 0 .. Len(s)]
  /\ at[r] = 0 /\ at[Len(q)] = Len(s)
  /\ \A k, l \in r .. Len(q) : k <= l => at[k] <= at[l]
  /\ \A k \in r + 1 .. Len(q) : at[k] = at[k - 1] + Len(to_bytes(q[k]))
  /\ \A k \in r + 1 .. Len(q) : \A i \in 1 .. Len(to_bytes(q[k])) :
       at[k - 1] + i # j => s[at[k - 1] + i] = to_bytes(q[k])[i]

AllPackets(q) == \A k \in 1 .. Len(q) : IsPacket(q[k])

LEMMA PacketBytes ==
  ASSUME NEW p, IsPacket(p)
  PROVE  to_bytes(p) \in Seq(Bytes) /\ Len(to_bytes(p)) \in Nat
<1>1. to_bytes(p) \in Seq(Bytes)
  BY ToBytes DEF Encoded
<1> QED BY <1>1

LEMMA CarriesNothing == Carries(<< >>, << >>, 0, [k \in 0 .. 0 |-> 0], 0)
BY DEF Carries

\* Where the bytes of a packet are.
LEMMA CarriedAt ==
  ASSUME NEW s, NEW q, NEW r, NEW at, NEW j, Carries(s, q, r, at, j),
         Len(s) \in Nat, Len(q) \in Nat, r \in Nat, AllPackets(q),
         NEW k, k \in r + 1 .. Len(q), NEW i, i \in 1 .. Len(to_bytes(q[k]))
  PROVE  /\ at[k - 1] \in 0 .. Len(s) /\ at[k] \in 0 .. Len(s)
         /\ k - 1 \in r .. Len(q) /\ k \in r .. Len(q)
         /\ i \in Nat /\ i >= 1
         /\ at[k - 1] + i <= at[k] /\ at[k - 1] + i \in 1 .. Len(s)
<1> DEFINE n == Len(to_bytes(q[k]))
<1>1. n \in Nat
  BY PacketBytes DEF AllPackets
<1>2. at[k] = at[k - 1] + n /\ at \in [r .. Len(q) -> 0 .. Len(s)]
  BY DEF Carries
<1> HIDE DEF n
<1>3. k - 1 \in r .. Len(q) /\ k \in r .. Len(q)
  OBVIOUS
<1>4. at[k - 1] \in 0 .. Len(s) /\ at[k] \in 0 .. Len(s)
  BY <1>2, <1>3
<1>5. i \in 1 .. n
  BY DEF n
<1> DEFINE u == at[k - 1]
           v == at[k]
           w == Len(s)
<1>6. u \in 0 .. w /\ v \in 0 .. w /\ v = u + n /\ w \in Nat
  BY <1>2, <1>4
<1> HIDE DEF u, v, w
<1>7. i \in Nat /\ i >= 1 /\ u + i <= v /\ u + i \in 1 .. w
  BY ONLY <1>1, <1>5, <1>6
<1> QED BY <1>3, <1>4, <1>7 DEF u, v, w

LEMMA CarriesDamaged ==
  ASSUME NEW s, NEW t, NEW q, NEW r, NEW at, NEW j, Carries(s, q, r, at, 0),
         Len(s) \in Nat, Len(q) \in Nat, r \in Nat, AllPackets(q),
         Len(t) = Len(s), \A i \in 1 .. Len(s) : i # j => t[i] = s[i]
  PROVE  Carries(t, q, r, at, j)
<1>1. ASSUME NEW k \in r + 1 .. Len(q), NEW i \in 1 .. Len(to_bytes(q[k])),
             at[k - 1] + i # j
      PROVE  t[at[k - 1] + i] = to_bytes(q[k])[i]
  <2> DEFINE h == at[k - 1] + i
  <2>1. h \in 1 .. Len(s) /\ h # 0
    <3>1. at[k - 1] + i \in 1 .. Len(s)
      BY CarriedAt
    <3> QED BY <3>1
  <2>2. h # 0 => s[h] = to_bytes(q[k])[i]
    BY DEF Carries
  <2>3. h # j
    BY <1>1
  <2> HIDE DEF h
  <2>4. t[h] = to_bytes(q[k])[i]
    BY <2>1, <2>2, <2>3
  <2> QED BY <2>4 DEF h
<1> QED BY <1>1 DEF Carries

LEMMA CarriesMore ==
  ASSUME NEW s, NEW q, NEW r, NEW at, NEW j, Carries(s, q, r, at, j),
         s \in Seq(Bytes), q \in Seq(Packets), r \in 0 .. Len(q), AllPackets(q),
         NEW p, p \in Packets
  PROVE  \E new : Carries(s \o to_bytes(p), Append(q, p), r, new, j)
<1> DEFINE e == to_bytes(p)
           m == Len(q)
           w == Len(s)
           n == Len(e)
           t == s \o e
           big == Append(q, p)
           new == [k \in r .. m + 1 |-> IF k = m + 1 THEN w + n ELSE at[k]]
<1>1. /\ e \in Seq(Bytes) /\ n \in Nat /\ w \in Nat /\ m \in Nat /\ r \in 0 .. m
      /\ AllPackets(q)
  BY PacketBytes, StreamAssumption
<1>2. /\ Len(t) = w + n
      /\ \A i \in 1 .. w : t[i] = s[i]
      /\ \A i \in 1 .. n : t[w + i] = e[i]
  <2> HIDE DEF e
  <2> QED BY <1>1, Concatenation
<1>3. /\ Len(big) = m + 1 /\ big[m + 1] = p
      /\ \A k \in 1 .. m : big[k] = q[k]
  OBVIOUS
<1>4. /\ at \in [r .. m -> 0 .. w] /\ at[r] = 0 /\ at[m] = w
      /\ \A k, l \in r .. m : k <= l => at[k] <= at[l]
      /\ \A k \in r + 1 .. m : at[k] = at[k - 1] + Len(to_bytes(q[k]))
      /\ \A k \in r + 1 .. m : \A i \in 1 .. Len(to_bytes(q[k])) :
           at[k - 1] + i # j => s[at[k - 1] + i] = to_bytes(q[k])[i]
  BY DEF Carries
<1>5. \A k \in r + 1 .. m : \A i \in 1 .. Len(to_bytes(q[k])) : at[k - 1] + i \in 1 .. w
  <2>1. Len(s) \in Nat /\ Len(q) \in Nat /\ r \in Nat
    BY <1>1
  <2> QED BY <2>1, CarriedAt
<1> HIDE DEF t, big, m, w, n
<1>6. /\ new[m + 1] = w + n /\ \A k \in r .. m : new[k] = at[k] /\ at[k] \in 0 .. w
      /\ m + 1 \in r .. m + 1 /\ r \in r .. m
  BY <1>1, <1>4
<1>7. new \in [r .. m + 1 -> 0 .. w + n]
  <2> SUFFICES ASSUME NEW k \in r .. m + 1
               PROVE  (IF k = m + 1 THEN w + n ELSE at[k]) \in 0 .. w + n
    OBVIOUS
  <2>1. CASE k = m + 1
    BY <1>1, <2>1
  <2>2. CASE k \in r .. m
    <3>1. at[k] \in 0 .. w /\ k # m + 1
      <4>1. k # m + 1
        BY <1>1, <2>2
      <4> QED BY <1>6, <2>2, <4>1
    <3> QED BY <1>1, <3>1
  <2> QED BY <1>1, <2>1, <2>2
<1> HIDE DEF new
<1>8. ASSUME NEW k \in r .. m + 1, NEW l \in r .. m + 1, k <= l PROVE new[k] <= new[l]
  <2>1. CASE l = m + 1
    <3>1. new[k] \in 0 .. w + n
      BY <1>7
    <3> QED BY <1>1, <1>6, <2>1, <3>1
  <2>2. CASE l \in r .. m
    <3>1. k \in r .. m
      BY <1>1, <1>8, <2>2
    <3> QED BY <1>4, <1>6, <1>8, <2>2, <3>1
  <2> QED BY <1>1, <2>1, <2>2
<1>9. ASSUME NEW k \in r + 1 .. m + 1
      PROVE  /\ new[k] = new[k - 1] + Len(to_bytes(big[k]))
             /\ \A i \in 1 .. Len(to_bytes(big[k])) :
                  new[k - 1] + i # j => t[new[k - 1] + i] = to_bytes(big[k])[i]
  <2>1. CASE k = m + 1
    <3>1. big[k] = p /\ new[k - 1] = w /\ new[k] = w + n
      BY <1>1, <1>3, <1>4, <1>6, <2>1
    <3> QED BY <1>2, <3>1 DEF n
  <2>2. CASE k \in r + 1 .. m
    <3>1. k \in 1 .. m /\ k \in r .. m /\ k - 1 \in r .. m
      BY <1>1, <2>2
    <3>2. big[k] = q[k] /\ new[k] = at[k] /\ new[k - 1] = at[k - 1]
      BY <1>3, <1>6, <3>1
    <3>3. \A i \in 1 .. Len(to_bytes(q[k])) : t[at[k - 1] + i] = s[at[k - 1] + i]
      BY <1>2, <1>5, <2>2
    <3>4. /\ at[k] = at[k - 1] + Len(to_bytes(q[k]))
          /\ \A i \in 1 .. Len(to_bytes(q[k])) :
               at[k - 1] + i # j => s[at[k - 1] + i] = to_bytes(q[k])[i]
      BY <1>4, <2>2
    <3> QED BY ONLY <3>2, <3>3, <3>4
  <2> QED BY <1>1, <2>1, <2>2
<1>10. new[r] = 0 /\ Len(big) = m + 1 /\ Len(t) = w + n /\ new[m + 1] = w + n
  BY <1>2, <1>3, <1>4, <1>6
<1>11. Carries(t, big, r, new, j)
  BY <1>7, <1>8, <1>9, <1>10 DEF Carries
<1> QED BY <1>11 DEF t, big

\* The first packet that s carries.
LEMMA CarriedFirst ==
  ASSUME NEW s, NEW q, NEW r, NEW at, NEW j, Carries(s, q, r, at, j),
         Len(s) \in Nat, Len(q) \in Nat, r \in Nat, r < Len(q), AllPackets(q)
  PROVE  LET e == to_bytes(q[r + 1]) IN
         /\ Len(e) \in 0 .. Len(s) /\ at[r + 1] = Len(e)
         /\ \A i \in 1 .. Len(e) : i # j => s[i] = e[i]
<1> DEFINE e == to_bytes(q[r + 1])
           n == Len(e)
<1>1. n \in Nat
  BY PacketBytes DEF AllPackets
<1>2. r + 1 \in r + 1 .. Len(q) /\ (r + 1) - 1 = r /\ r + 1 \in r .. Len(q)
  OBVIOUS
<1>3. /\ at[r] = 0 /\ at[r + 1] = at[(r + 1) - 1] + n /\ at[r + 1] \in 0 .. Len(s)
      /\ \A i \in 1 .. n : at[(r + 1) - 1] + i # j => s[at[(r + 1) - 1] + i] = e[i]
  BY <1>2 DEF Carries
<1> HIDE DEF e, n
<1>4. at[r + 1] = n /\ \A i \in 1 .. n : 0 + i # j => s[0 + i] = e[i]
  BY <1>1, <1>2, <1>3
<1>5. \A i \in 1 .. n : i # j => s[i] = e[i]
  BY <1>4
<1> QED BY <1>3, <1>4, <1>5 DEF e, n

LEMMA CarriesLess ==
  ASSUME NEW s, NEW q, NEW r, NEW at, NEW j, Carries(s, q, r, at, j),
         Len(s) \in Nat, Len(q) \in Nat, r \in Nat, r < Len(q), AllPackets(q), j \in Nat,
         NEW n, n = Len(to_bytes(q[r + 1])),
         NEW t, Len(t) = Len(s) - n, \A i \in 1 .. Len(s) - n : t[i] = s[n + i]
  PROVE  \E new : \E h \in Nat : (j = 0 => h = 0) /\ Carries(t, q, r + 1, new, h)
<1> DEFINE m == Len(q)
           w == Len(s)
           new == [k \in r + 1 .. m |-> at[k] - n]
           h == IF j > n THEN j - n ELSE 0
<1>1. n \in 0 .. w /\ at[r + 1] = n /\ w \in Nat /\ m \in Nat
  BY CarriedFirst
<1>2. /\ at \in [r .. m -> 0 .. w] /\ at[m] = w
      /\ \A k, l \in r .. m : k <= l => at[k] <= at[l]
      /\ \A k \in r + 1 .. m : at[k] = at[k - 1] + Len(to_bytes(q[k]))
      /\ \A k \in r + 1 .. m : \A i \in 1 .. Len(to_bytes(q[k])) :
           at[k - 1] + i # j => s[at[k - 1] + i] = to_bytes(q[k])[i]
  BY DEF Carries
<1>3. \A k \in r + 1 .. m : \A i \in 1 .. Len(to_bytes(q[k])) :
        at[k - 1] + i \in 1 .. w /\ i \in Nat /\ i >= 1
  BY CarriedAt
<1>0. Len(t) = w - n /\ \A i \in 1 .. w - n : t[i] = s[n + i]
  OBVIOUS
<1>m. r < m
  OBVIOUS
<1>p. \A k \in 1 .. m : Len(to_bytes(q[k])) \in Nat
  BY PacketBytes DEF AllPackets
<1> HIDE DEF m, w
<1>4. ASSUME NEW k \in r + 1 .. m PROVE at[k] \in n .. w /\ new[k] = at[k] - n
  <2>1. k \in r .. m /\ r + 1 \in r .. m /\ r + 1 <= k
    BY <1>1, <1>m
  <2>2. at[r + 1] <= at[k] /\ at[k] \in 0 .. w
    BY <1>2, <2>1
  <2> QED BY <1>1, <2>2
<1>5. new \in [r + 1 .. m -> 0 .. w - n]
  <2> SUFFICES ASSUME NEW k \in r + 1 .. m PROVE at[k] - n \in 0 .. w - n
    OBVIOUS
  <2> QED BY <1>1, <1>4
<1>6. h \in Nat /\ (j = 0 => h = 0)
  BY <1>1
<1> HIDE DEF new
<1>7. ASSUME NEW k \in r + 1 .. m, NEW l \in r + 1 .. m, k <= l PROVE new[k] <= new[l]
  <2>1. k \in r .. m /\ l \in r .. m
    OBVIOUS
  <2>2. at[k] <= at[l]
    BY <1>2, <1>7, <2>1
  <2>3. at[k] \in n .. w /\ at[l] \in n .. w /\ new[k] = at[k] - n /\ new[l] = at[l] - n
    BY <1>4
  <2> QED BY <1>1, <2>2, <2>3
<1>8. ASSUME NEW k \in (r + 1) + 1 .. m
      PROVE  /\ new[k] = new[k - 1] + Len(to_bytes(q[k]))
             /\ \A i \in 1 .. Len(to_bytes(q[k])) :
                  new[k - 1] + i # h => t[new[k - 1] + i] = to_bytes(q[k])[i]
  <2> DEFINE e == to_bytes(q[k])
             u == at[k - 1]
  <2>1. k \in r + 1 .. m /\ k - 1 \in r + 1 .. m /\ k \in 1 .. m
    BY <1>1
  <2>2. /\ new[k - 1] = u - n /\ new[k] = at[k] - n /\ u \in n .. w
        /\ at[k] = u + Len(e) /\ Len(e) \in Nat
    BY <1>2, <1>4, <1>p, <2>1
  <2>3. \A i \in 1 .. Len(e) : u + i # j => s[u + i] = e[i]
    BY <1>2, <2>1
  <2>4. \A i \in 1 .. Len(e) : u + i \in 1 .. w /\ i \in Nat /\ i >= 1
    BY <1>3, <2>1
  <2> HIDE DEF e, u
  <2>5. ASSUME NEW i \in 1 .. Len(e), (u - n) + i # h PROVE t[(u - n) + i] = e[i]
    <3>1. u + i \in 1 .. w /\ i \in Nat /\ i >= 1 /\ u \in n .. w /\ n \in Nat /\ w \in Nat
      BY <1>1, <2>2, <2>4
    <3>2. u + i # j
      <4>1. (u - n) + i # (IF j > n THEN j - n ELSE 0) /\ j \in Nat
        BY <2>5
      <4> QED BY ONLY <3>1, <4>1
    <3>3. (u - n) + i \in 1 .. w - n /\ n + ((u - n) + i) = u + i
      BY ONLY <3>1
    <3>4. t[(u - n) + i] = s[n + ((u - n) + i)]
      BY <1>0, <3>3
    <3> QED BY <2>3, <3>2, <3>3, <3>4
  <2>6. new[k] = (u - n) + Len(e)
    BY <1>1, <2>2
  <2> QED BY <2>2, <2>5, <2>6 DEF e
<1>9. new[r + 1] = 0 /\ new[m] = w - n
  <2>1. r + 1 \in r + 1 .. m /\ m \in r + 1 .. m
    BY <1>1, <1>m
  <2>2. new[r + 1] = at[r + 1] - n /\ new[m] = at[m] - n
    BY <1>4, <2>1
  <2> QED BY <1>1, <1>2, <2>2
<1>10. Carries(t, q, r + 1, new, h)
  BY <1>0, <1>5, <1>7, <1>8, <1>9 DEF Carries, m
<1> QED BY <1>6, <1>10

-----------------------------------------------------------------------------
(***************************************************************************)
(* The two ends.  While at most one byte was damaged, what is in the       *)
(* buffer and on the line carries the packets that were not received yet.  *)
(***************************************************************************)
Straight ==
  /\ sent \in Seq(Packets) /\ Len(sent) <= MaxSent
  /\ line \in Seq(Bytes) /\ buffer \in Seq(Bytes)
  /\ received \in Seq(Packets) /\ Len(received) <= Len(sent)
  /\ \A k \in 1 .. Len(received) : received[k] = sent[k]
  /\ error \in DecodeErrors
  /\ IntactAccepted
  /\ \E at : \E j \in Nat :
       (noise = 0 => j = 0) /\ Carries(buffer \o line, sent, Len(received), at, j)

LineInv ==
  /\ noise \in 0 .. MaxNoise
  /\ noise <= 1 => Straight

LEMMA Moved ==
  ASSUME NEW a, NEW b, NEW k, a \in Seq(Bytes), b \in Seq(Bytes), k \in 1 .. Len(b)
  PROVE  /\ SubSeq(b, 1, k) \in Seq(Bytes) /\ SubSeq(b, k + 1, Len(b)) \in Seq(Bytes)
         /\ a \o SubSeq(b, 1, k) \in Seq(Bytes)
         /\ (a \o SubSeq(b, 1, k)) \o SubSeq(b, k + 1, Len(b)) = a \o b
<1> DEFINE c == SubSeq(b, 1, k)
           d == SubSeq(b, k + 1, Len(b))
           w == Len(a)
<1>1. /\ c \in Seq(Bytes) /\ d \in Seq(Bytes) /\ Len(c) = k /\ Len(d) = Len(b) - k
      /\ \A i \in 1 .. k : c[i] = b[i]
      /\ \A i \in 1 .. Len(b) - k : d[i] = b[k + i]
      /\ w \in Nat /\ k \in Nat /\ Len(b) \in Nat /\ k <= Len(b)
  <2>1. k \in Nat /\ Len(b) \in Nat /\ k <= Len(b) /\ w \in Nat /\ k >= 1
    OBVIOUS
  <2>2. c \in Seq(Bytes) /\ Len(c) = k /\ \A i \in 1 .. k : c[i] = b[i]
    BY <2>1, PrefixFacts
  <2>3. /\ d \in Seq(Bytes) /\ Len(d) = Len(b) - k
        /\ \A i \in 1 .. Len(b) - k : d[i] = b[k + i]
    BY <2>1, SuffixFacts
  <2> QED BY <2>1, <2>2, <2>3
<1> HIDE DEF c, d
<1>2. c \o d = b
  <2>1. c \o d = [i \in 1 .. Len(b) |-> b[i]]
    <3>1. Len(c \o d) = Len(b) /\ c \o d \in Seq(Bytes)
      BY <1>1
    <3>2. ASSUME NEW i \in 1 .. Len(b) PROVE (c \o d)[i] = b[i]
      <4>1. CASE i \in 1 .. k
        BY <1>1, <4>1, Concatenation
      <4>2. CASE i \notin 1 .. k
        <5>1. i - k \in 1 .. Len(d) /\ Len(c) + (i - k) = i /\ k + (i - k) = i
          BY <1>1, <4>2
        <5>2. (c \o d)[Len(c) + (i - k)] = d[i - k]
          BY <1>1, <5>1, Concatenation
        <5> QED BY <1>1, <5>1, <5>2
      <4> QED BY <4>1, <4>2
    <3> DEFINE f == c \o d
    <3>3. f \in Seq(Bytes) /\ Len(f) = Len(b) /\ \A i \in 1 .. Len(b) : f[i] = b[i]
      BY <3>1, <3>2
    <3> HIDE DEF f
    <3>4. f = [i \in 1 .. Len(b) |-> b[i]]
      BY <3>3
    <3> QED BY <3>4 DEF f
  <2> QED BY <2>1
<1>3. (a \o c) \o d = a \o (c \o d)
  BY <1>1
<1>4. a \o c \in Seq(Bytes)
  BY <1>1, Concatenation
<1> QED BY <1>1, <1>2, <1>3, <1>4 DEF c, d

LEMMA LineInitInv == Init => LineInv
<1> SUFFICES ASSUME Init PROVE LineInv
  OBVIOUS
<1>1. /\ sent = << >> /\ line = << >> /\ buffer = << >> /\ received = << >>
      /\ error = "NEED_MORE_DATA" /\ noise = 0
  BY DEF Init
<1>2. noise \in 0 .. MaxNoise /\ Len(sent) <= MaxSent
  BY <1>1, StreamAssumption
<1>3. \E at : Carries(buffer \o line, sent, Len(received), at, 0)
  <2>1. buffer \o line = << >> /\ Len(received) = 0
    BY <1>1
  <2> QED BY <1>1, <2>1, CarriesNothing
<1>4. \E at : \E j \in Nat :
        (noise = 0 => j = 0) /\ Carries(buffer \o line, sent, Len(received), at, j)
  BY <1>3
<1>5. Straight
  BY <1>1, <1>2, <1>4 DEF Straight, DecodeErrors, IntactAccepted
<1> QED BY <1>2, <1>5 DEF LineInv

\* What is known of a straight line.
LEMMA StraightTypes ==
  ASSUME Straight
  PROVE  /\ sent \in Seq(Packets) /\ received \in Seq(Packets)
         /\ line \in Seq(Bytes) /\ buffer \in Seq(Bytes) /\ buffer \o line \in Seq(Bytes)
         /\ Len(sent) \in Nat /\ Len(received) \in Nat /\ Len(received) <= Len(sent)
         /\ Len(received) \in 0 .. Len(sent)
         /\ Len(buffer) \in Nat /\ Len(line) \in Nat /\ Len(buffer \o line) \in Nat
         /\ Len(buffer \o line) = Len(buffer) + Len(line)
         /\ AllPackets(sent) /\ MaxSent \in Nat
<1>1. /\ sent \in Seq(Packets) /\ received \in Seq(Packets)
      /\ line \in Seq(Bytes) /\ buffer \in Seq(Bytes) /\ Len(received) <= Len(sent)
  BY DEF Straight
<1>2. Len(sent) \in Nat /\ Len(received) \in Nat /\ Len(buffer) \in Nat /\ Len(line) \in Nat
  BY <1>1
<1>3. buffer \o line \in Seq(Bytes) /\ Len(buffer \o line) = Len(buffer) + Len(line)
  BY <1>1, Concatenation
<1>4. AllPackets(sent)
  <2>1. \A k \in 1 .. Len(sent) : sent[k] \in Packets
    BY <1>1
  <2> QED BY <2>1, StreamAssumption DEF AllPackets
<1> QED BY <1>1, <1>2, <1>3, <1>4, StreamAssumption

LEMMA SendKeeps ==
  ASSUME Straight, Send
  PROVE  Straight'
<1>1. PICK p \in Packets : sent' = Append(sent, p) /\ line' = line \o to_bytes(p)
  BY DEF Send
<1>2. /\ Len(sent) < MaxSent /\ buffer' = buffer /\ received' = received
      /\ error' = error /\ noise' = noise
  BY DEF Send
<1>3. PICK at : \E j \in Nat :
        (noise = 0 => j = 0) /\ Carries(buffer \o line, sent, Len(received), at, j)
  BY DEF Straight
<1>4. PICK j \in Nat :
        (noise = 0 => j = 0) /\ Carries(buffer \o line, sent, Len(received), at, j)
  BY <1>3
<1>5. IsPacket(p) /\ to_bytes(p) \in Seq(Bytes)
  BY StreamAssumption, PacketBytes
<1>6. buffer \o (line \o to_bytes(p)) = (buffer \o line) \o to_bytes(p)
  <2> DEFINE e == to_bytes(p)
  <2>1. e \in Seq(Bytes)
    BY <1>5
  <2> HIDE DEF e
  <2>2. buffer \o (line \o e) = (buffer \o line) \o e
    BY <2>1, StraightTypes
  <2> QED BY <2>2 DEF e
<1>7. \E new : Carries((buffer \o line) \o to_bytes(p), Append(sent, p), Len(received), new, j)
  BY <1>4, StraightTypes, CarriesMore
<1>8. \E new : \E h \in Nat :
        (noise' = 0 => h = 0) /\ Carries(buffer' \o line', sent', Len(received'), new, h)
  BY <1>1, <1>2, <1>4, <1>6, <1>7
<1>9. /\ sent' \in Seq(Packets) /\ Len(sent') = Len(sent) + 1
      /\ \A k \in 1 .. Len(sent) : sent'[k] = sent[k]
  BY <1>1, StraightTypes
<1>10. line' \in Seq(Bytes)
  BY <1>1, <1>5, StraightTypes, Concatenation
<1>11. \A k \in 1 .. Len(received') : received'[k] = sent'[k]
  <2>1. \A k \in 1 .. Len(received) : k \in 1 .. Len(sent)
    BY StraightTypes
  <2> QED BY <1>2, <1>9, <2>1 DEF Straight
<1>12. Len(sent') <= MaxSent /\ Len(received') <= Len(sent')
  BY <1>2, <1>9, StraightTypes
<1> QED
  BY <1>2, <1>8, <1>9, <1>10, <1>11, <1>12 DEF Straight, IntactAccepted

LEMMA ArriveKeeps ==
  ASSUME Straight, Arrive
  PROVE  Straight'
<1>1. PICK k \in 1 .. Len(line) :
        /\ buffer' = buffer \o SubSeq(line, 1, k)
        /\ line' = SubSeq(line, k + 1, Len(line))
  BY DEF Arrive
<1>2. /\ sent' = sent /\ received' = received /\ noise' = noise /\ error' = "OK"
  BY DEF Arrive
<1>3. /\ buffer' \in Seq(Bytes) /\ line' \in Seq(Bytes) /\ buffer' \o line' = buffer \o line
  BY <1>1, StraightTypes, Moved
<1> QED BY <1>2, <1>3 DEF Straight, IntactAccepted, DecodeErrors

\* The first byte that is damaged.
LEMMA DamageKeeps ==
  ASSUME Straight, Damage, noise = 0
  PROVE  Straight'
<1>1. PICK i \in 1 .. Len(line), b \in Bytes : line' = [line EXCEPT ![i] = b]
  BY DEF Damage
<1>2. /\ noise' = 1 /\ sent' = sent /\ buffer' = buffer /\ received' = received
      /\ error' = error
  BY DEF Damage
<1>3. /\ line' \in Seq(Bytes) /\ Len(line') = Len(line)
      /\ \A k \in 1 .. Len(line) : k # i => line'[k] = line[k]
  BY <1>1, StraightTypes
<1>4. PICK at : Carries(buffer \o line, sent, Len(received), at, 0)
  BY DEF Straight
<1> DEFINE s == buffer \o line
           t == buffer \o line'
           h == Len(buffer) + i
<1>5. /\ Len(t) = Len(s) /\ Len(s) = Len(buffer) + Len(line) /\ h \in Nat
      /\ Len(buffer) \in Nat /\ Len(line) \in Nat
  <2>1. Len(t) = Len(buffer) + Len(line')
    BY <1>3, StraightTypes, Concatenation
  <2>2. Len(s) = Len(buffer) + Len(line) /\ Len(buffer) \in Nat /\ Len(line) \in Nat
    BY StraightTypes
  <2>3. h \in Nat
    BY <2>2
  <2> HIDE DEF s, t, h
  <2> QED BY ONLY <1>3, <2>1, <2>2, <2>3
<1>6. ASSUME NEW k \in 1 .. Len(s), k # h PROVE t[k] = s[k]
  <2>1. CASE k \in 1 .. Len(buffer)
    <3>1. s[k] = buffer[k] /\ t[k] = buffer[k]
      BY <1>3, <2>1, StraightTypes, Concatenation
    <3> QED BY <3>1
  <2>2. CASE k \notin 1 .. Len(buffer)
    <3> DEFINE g == k - Len(buffer)
    <3>1. /\ g \in 1 .. Len(line) /\ g \in 1 .. Len(line') /\ Len(buffer) + g = k /\ g # i
      BY <1>3, <1>5, <1>6, <2>2
    <3> HIDE DEF g
    <3>2. s[Len(buffer) + g] = line[g] /\ t[Len(buffer) + g] = line'[g]
      BY <1>3, <3>1, StraightTypes, Concatenation
    <3> QED BY <1>3, <3>1, <3>2
  <2> QED BY <2>1, <2>2
<1> HIDE DEF s, t, h
<1>7. Carries(s, sent, Len(received), at, 0)
  BY <1>4 DEF s
<1>8. Len(s) \in Nat
  BY <1>5
<1>9. Carries(t, sent, Len(received), at, h)
  BY <1>5, <1>6, <1>7, <1>8, StraightTypes, CarriesDamaged
<1>10. \E new : \E j \in Nat :
         (noise' = 0 => j = 0) /\ Carries(buffer' \o line', sent', Len(received'), new, j)
  BY <1>2, <1>5, <1>9 DEF t
<1> QED BY <1>2, <1>3, <1>10 DEF Straight, IntactAccepted

\* What from_bytes answers on the buffer.
LEMMA AnswerToBuffer ==
  ASSUME Straight, \A p \in Packets : Fits(p),
         NEW at, NEW j, j \in Nat,
         Carries(buffer \o line, sent, Len(received), at, j)
  PROVE  \/ /\ Len(received) = Len(sent)
            /\ from_bytes(buffer).error = "NEED_MORE_DATA" /\ from_bytes(buffer).end = 0
         \/ /\ Len(received) < Len(sent)
            /\ Answered(from_bytes(buffer), sent[Len(received) + 1], buffer, j)
<1> DEFINE s == buffer \o line
           r == Len(received)
           m == Len(sent)
<1>1. /\ r \in Nat /\ m \in Nat /\ r <= m /\ Len(s) \in Nat
      /\ Len(buffer) \in Nat /\ Len(line) \in Nat /\ Len(s) = Len(buffer) + Len(line)
      /\ buffer \in Seq(Bytes) /\ line \in Seq(Bytes)
  BY StraightTypes
<1>2. CASE r = m
  <2>1. Len(s) = 0
    BY <1>2 DEF Carries
  <2>2. Len(buffer) < HeaderSize
    <3> HIDE DEF s
    <3>1. Len(buffer) = 0
      <4>1. Len(buffer) \in Nat /\ Len(line) \in Nat /\ Len(s) = Len(buffer) + Len(line)
        BY ONLY <1>1
      <4> DEFINE u == Len(buffer)
                 v == Len(line)
                 w == Len(s)
      <4>2. u \in Nat /\ v \in Nat /\ w = u + v /\ w = 0
        BY ONLY <2>1, <4>1
      <4> HIDE DEF u, v, w
      <4>3. u = 0
        BY ONLY <4>2
      <4> QED BY <4>3 DEF u
    <3> QED BY ONLY <3>1 DEF HeaderSize
  <2>3. from_bytes(buffer) = Nothing("NEED_MORE_DATA")
    BY <1>1, <2>2, FromBytesCases
  <2> QED BY <1>2, <2>3, NothingDecoded
<1>3. CASE r < m
  <2> DEFINE p == sent[r + 1]
  <2>1. p \in Packets /\ IsPacket(p) /\ Fits(p)
    <3>1. r + 1 \in 1 .. m
      BY <1>1, <1>3
    <3>2. p \in Packets
      BY <3>1, StraightTypes
    <3> QED BY <3>2, StreamAssumption
  <2>2. /\ Len(to_bytes(p)) \in 0 .. Len(s)
        /\ \A i \in 1 .. Len(to_bytes(p)) : i # j => s[i] = to_bytes(p)[i]
    <3>1. Carries(s, sent, r, at, j)
      OBVIOUS
    <3>2. AllPackets(sent) /\ Len(sent) \in Nat /\ r \in Nat /\ r < Len(sent)
      BY <1>1, <1>3, StraightTypes
    <3> HIDE DEF s, r
    <3> QED BY ONLY <1>1, <3>1, <3>2, CarriedFirst
  <2>3. ASSUME NEW i \in 1 .. Len(to_bytes(p)), i <= Len(buffer), i # j
        PROVE  buffer[i] = to_bytes(p)[i]
    <3>1. i \in 1 .. Len(buffer)
      BY <1>1, <2>2, <2>3
    <3>2. s[i] = buffer[i]
      BY <1>1, <3>1, Concatenation
    <3> QED BY <2>2, <2>3, <3>2
  <2> HIDE DEF p
  <2>4. Answered(from_bytes(buffer), p, buffer, j)
    BY <1>1, <2>1, <2>3, FromBytesAnswers
  <2> QED BY <1>3, <2>4 DEF p
<1> QED BY <1>1, <1>2, <1>3

\* What a turn of the receiver's loop does: it waits, it stops, or it takes the
\* packet that was sent next.
LEMMA ReceiveStep ==
  ASSUME Straight, \A p \in Packets : Fits(p), Receive
  PROVE  /\ Straight'
         /\ \/ received' = received
            \/ /\ Len(received) < Len(sent)
               /\ received' = Append(received, sent[Len(received) + 1])
<1> DEFINE r == Len(received)
           result == from_bytes(buffer)
           s == buffer \o line
<1>1. PICK at : \E j \in Nat :
        (noise = 0 => j = 0) /\ Carries(s, sent, r, at, j)
  BY DEF Straight
<1>2. PICK j \in Nat : (noise = 0 => j = 0) /\ Carries(s, sent, r, at, j)
  BY <1>1
<1>3. /\ error' = result.error
      /\ buffer' = SubSeq(buffer, result.end + 1, Len(buffer))
      /\ received' = IF result.error = "OK" THEN Append(received, result.packet)
                     ELSE received
      /\ sent' = sent /\ line' = line /\ noise' = noise
  BY DEF Receive
<1>4. \/ Len(received) = Len(sent) /\ result.error = "NEED_MORE_DATA" /\ result.end = 0
      \/ r < Len(sent) /\ Answered(result, sent[r + 1], buffer, j)
  BY <1>2, AnswerToBuffer
<1>5. /\ result.error \in DecodeErrors
      /\ noise = 0 => result.error \in {"OK", "NEED_MORE_DATA"}
      /\ result.error # "OK" => result.end = 0
  BY <1>2, <1>4 DEF Answered, DecodeErrors
<1>6. error' \in DecodeErrors /\ IntactAccepted'
  BY <1>3, <1>5 DEF IntactAccepted
<1> HIDE DEF result
<1>7. CASE result.error # "OK"
  <2>1. buffer' = buffer
    <3>1. result.end = 0
      BY <1>5, <1>7
    <3>2. buffer' = SubSeq(buffer, 1, Len(buffer))
      BY <1>3, <3>1
    <3> QED BY <3>2, StraightTypes
  <2>2. received' = received
    BY <1>3, <1>7
  <2> QED BY <1>3, <1>6, <2>1, <2>2 DEF Straight
<1>8. CASE result.error = "OK"
  <2> DEFINE p == sent[r + 1]
             n == Len(to_bytes(p))
             t == buffer' \o line
  <2>1. /\ r < Len(sent) /\ result.packet = p /\ result.end = n /\ n <= Len(buffer)
    BY <1>4, <1>8 DEF Answered
  <2>2. p \in Packets /\ n \in Nat
    <3>1. r + 1 \in 1 .. Len(sent)
      BY <2>1, StraightTypes
    <3>2. p \in Packets
      BY <3>1, StraightTypes
    <3> QED BY <3>2, StreamAssumption, PacketBytes
  <2>3. n \in 0 .. Len(buffer) /\ buffer' = SubSeq(buffer, n + 1, Len(buffer))
    BY <1>3, <2>1, <2>2, StraightTypes
  <2> HIDE DEF n
  <2>4. /\ buffer' \in Seq(Bytes) /\ Len(buffer') = Len(buffer) - n
        /\ \A i \in 1 .. Len(buffer) - n : buffer'[i] = buffer[n + i]
    BY <2>3, StraightTypes, SuffixFacts
  <2>5. /\ Len(t) = Len(s) - n /\ \A i \in 1 .. Len(s) - n : t[i] = s[n + i]
    <3> DEFINE u == Len(buffer)
               v == Len(line)
    <3>1. /\ u \in Nat /\ v \in Nat /\ Len(s) = u + v /\ Len(t) = (u - n) + v
          /\ n \in 0 .. u /\ n \in Nat /\ Len(buffer') = u - n
          /\ \A i \in 1 .. u : s[i] = buffer[i]
          /\ \A i \in 1 .. v : s[u + i] = line[i]
          /\ \A i \in 1 .. u - n : t[i] = buffer'[i]
          /\ \A i \in 1 .. v : t[(u - n) + i] = line[i]
      <4>1. u \in Nat /\ v \in Nat /\ Len(s) = u + v /\ line \in Seq(Bytes) /\ buffer \in Seq(Bytes)
        BY StraightTypes
      <4>2. /\ \A i \in 1 .. u : s[i] = buffer[i]
            /\ \A i \in 1 .. v : s[u + i] = line[i]
        BY <4>1, Concatenation
      <4>3. /\ Len(t) = Len(buffer') + v
            /\ \A i \in 1 .. Len(buffer') : t[i] = buffer'[i]
            /\ \A i \in 1 .. v : t[Len(buffer') + i] = line[i]
        <5>1. buffer' \in Seq(Bytes) /\ line \in Seq(Bytes)
          BY <2>4, <4>1
        <5> QED BY ONLY <5>1, Concatenation
      <4> HIDE DEF s, t, u, v
      <4>4. Len(buffer') = u - n /\ n \in 0 .. u
        BY <2>3, <2>4 DEF u
      <4> QED BY ONLY <2>2, <4>1, <4>2, <4>3, <4>4
    <3> HIDE DEF s, t, u, v
    <3>2. ASSUME NEW i \in 1 .. (u + v) - n PROVE t[i] = s[n + i]
      <4>1. CASE i <= u - n
        <5>1. i \in 1 .. u - n /\ n + i \in 1 .. u
          BY <3>1, <4>1
        <5> QED BY <2>4, <3>1, <5>1 DEF u
      <4>2. CASE i > u - n
        <5> DEFINE g == i - (u - n)
        <5>1. g \in 1 .. v /\ (u - n) + g = i /\ u + g = n + i
          BY <3>1, <4>2
        <5> HIDE DEF g
        <5>2. t[(u - n) + g] = line[g] /\ s[u + g] = line[g]
          BY <3>1, <5>1
        <5> QED BY <5>1, <5>2
      <4> QED BY <3>1, <4>1, <4>2
    <3> QED BY <3>1, <3>2
  <2>6. \E new : \E h \in Nat : (j = 0 => h = 0) /\ Carries(t, sent, r + 1, new, h)
    <3>1. n = Len(to_bytes(sent[r + 1]))
      BY DEF n
    <3> HIDE DEF t
    <3> QED BY <1>2, <2>1, <2>5, <3>1, StraightTypes, CarriesLess
  <2>7. /\ received' = Append(received, p) /\ received' \in Seq(Packets)
        /\ Len(received') = r + 1 /\ \A k \in 1 .. r : received'[k] = received[k]
        /\ received'[r + 1] = p
    <3>1. received' = Append(received, p)
      BY <1>3, <1>8, <2>1
    <3> HIDE DEF p
    <3> QED BY <2>2, <3>1, StraightTypes
  <2>8. \A k \in 1 .. Len(received') : received'[k] = sent'[k]
    <3> SUFFICES ASSUME NEW k \in 1 .. r + 1 PROVE received'[k] = sent[k]
      BY <1>3, <2>7
    <3>1. r \in Nat /\ (k \in 1 .. r \/ k = r + 1)
      BY StraightTypes
    <3>2. \A i \in 1 .. r : received[i] = sent[i]
      BY DEF Straight
    <3> QED BY <2>7, <3>1, <3>2
  <2>9. \E new : \E h \in Nat :
          (noise' = 0 => h = 0) /\ Carries(buffer' \o line', sent', Len(received'), new, h)
    BY <1>2, <1>3, <2>6, <2>7
  <2>10. /\ sent' \in Seq(Packets) /\ Len(sent') <= MaxSent /\ line' \in Seq(Bytes)
         /\ Len(received') <= Len(sent')
    BY <1>3, <2>1, <2>7, StraightTypes DEF Straight
  <2>11. Straight'
    BY <1>6, <2>4, <2>7, <2>8, <2>9, <2>10 DEF Straight
  <2> QED BY <2>1, <2>7, <2>11
<1> QED BY <1>7, <1>8

LEMMA LineNextInv ==
  ASSUME \A p \in Packets : Fits(p)
  PROVE  LineInv /\ [Next]_vars => LineInv'
<1> SUFFICES ASSUME LineInv, [Next]_vars PROVE LineInv'
  OBVIOUS
<1>1. noise \in 0 .. MaxNoise /\ MaxNoise \in Nat
  BY StreamAssumption DEF LineInv
<1>2. CASE Damage
  <2>1. noise' = noise + 1 /\ noise < MaxNoise
    BY <1>2 DEF Damage
  <2>2. noise' \in 0 .. MaxNoise
    BY <1>1, <2>1
  <2>3. noise' <= 1 => Straight'
    <3> SUFFICES ASSUME noise' <= 1 PROVE Straight'
      OBVIOUS
    <3>1. noise = 0
      BY <1>1, <2>1
    <3>2. Straight
      BY <3>1 DEF LineInv
    <3> QED BY <1>2, <3>1, <3>2, DamageKeeps
  <2> QED BY <2>2, <2>3 DEF LineInv
<1>3. ASSUME noise' = noise, Straight => Straight' PROVE LineInv'
  BY <1>3 DEF LineInv
<1>4. CASE Send
  <2>1. noise' = noise
    BY <1>4 DEF Send
  <2> QED BY <1>3, <1>4, <2>1, SendKeeps
<1>5. CASE Arrive
  <2>1. noise' = noise
    BY <1>5 DEF Arrive
  <2> QED BY <1>3, <1>5, <2>1, ArriveKeeps
<1>6. CASE Receive
  <2>1. noise' = noise
    BY <1>6 DEF Receive
  <2> QED BY <1>3, <1>6, <2>1, ReceiveStep
<1>7. CASE UNCHANGED vars
  BY <1>7 DEF vars, LineInv, Straight, IntactAccepted
<1> QED BY <1>2, <1>4, <1>5, <1>6, <1>7 DEF Next

\* On a line that damages nothing, from_bytes answers none of the packets that
\* to_bytes made with a checksum error, however their bytes are cut into pieces.
THEOREM IntactIsAccepted ==
  ASSUME \A p \in Packets : Fits(p)
  PROVE  Spec => []IntactAccepted
<1>1. LineInv => IntactAccepted
  BY DEF LineInv, Straight, IntactAccepted
<1> QED BY <1>1, LineInitInv, LineNextInv, PTL DEF Spec

\* With at most one byte damaged, everything decoded is a packet that was to be
\* sent.
THEOREM LineTyped ==
  ASSUME \A p \in Packets : Fits(p), MaxNoise <= 1
  PROVE  Spec => []TypeOK
<1>1. LineInv => TypeOK
  <2> SUFFICES ASSUME LineInv PROVE TypeOK
    OBVIOUS
  <2>1. noise <= 1 /\ noise \in 0 .. MaxNoise
    BY StreamAssumption DEF LineInv
  <2> QED BY <2>1 DEF LineInv, Straight, TypeOK
<1> QED BY <1>1, LineInitInv, LineNextInv, PTL DEF Spec

\* With at most one byte damaged, the receiver sees the packets that were sent,
\* in order and whole: no damaged byte turns a packet into another one.
THEOREM LineIsChannel ==
  ASSUME \A p \in Packets : Fits(p), MaxNoise <= 1
  PROVE  Spec => ChannelSpec
<1>1. Init => Channel!Init
  BY DEF Init, Channel!Init
<1>2. LineInv /\ [Next]_vars => [Channel!Next]_<<sent, received>>
  <2> SUFFICES ASSUME LineInv, [Next]_vars
               PROVE  [Channel!Next]_<<sent, received>>
    OBVIOUS
  <2>1. Straight
    BY StreamAssumption DEF LineInv
  <2>2. CASE Send
    BY <2>2 DEF Send, Channel!Next, Channel!Send
  <2>3. CASE Damage
    BY <2>3 DEF Damage
  <2>4. CASE Arrive
    BY <2>4 DEF Arrive
  <2>5. CASE Receive
    <3>1. sent' = sent
      BY <2>5 DEF Receive
    <3> QED BY <2>1, <2>5, <3>1, ReceiveStep DEF Channel!Next, Channel!Receive
  <2>6. CASE UNCHANGED vars
    BY <2>6 DEF vars
  <2> QED BY <2>2, <2>3, <2>4, <2>5, <2>6 DEF Next
<1> QED BY <1>1, <1>2, LineInitInv, LineNextInv, PTL
        DEF Spec, ChannelSpec, Channel!Spec, Channel!channelVars

=============================================================================
