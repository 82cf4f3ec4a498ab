----------------------------- MODULE CodecProofs -----------------------------
(***************************************************************************)
(* The codecs, for every size of a byte: what is encoded is decoded again, *)
(* the checksum of the code is Adler-32, and the cipher inverts.           *)
(***************************************************************************)
EXTENDS Xtea, FiniteSetTheorems, WellFoundedInduction, TLAPS

-----------------------------------------------------------------------------
(***************************************************************************)
(* Induction, and functions defined by it.                                 *)
(***************************************************************************)

\* Every set of naturals that is not empty has a least element.
LEMMA LeastElement ==
    ASSUME NEW S \in SUBSET Nat, S # {}
    PROVE  \E n \in S : \A o \in S : n <= o
<1>1. PICK R : R = OpToRel(<, Nat)
  BY Zenon
<1>2. IsWellFoundedOn(R, Nat)
  BY <1>1, NatLessThanWellFounded, Zenon
<1>3. PICK n \in S : \A o \in S : ~(<<o, n>> \in R)
  BY <1>2, WFMin
<1>4. ASSUME NEW o \in S PROVE n <= o
  <2>1. ~(<<o, n>> \in OpToRel(<, Nat))
    BY <1>1, <1>3, Zenon
  <2>2. ~(o < n)
    BY <2>1 DEF OpToRel
  <2> QED  BY <2>2
<1> QED  BY <1>4

\* What holds of 0, and of i if it holds of i - 1, holds up to n.
LEMMA InductionTo ==
    ASSUME NEW n \in Nat, NEW S, 0 \in S, \A i \in 1 .. n : i - 1 \in S => i \in S
    PROVE  \A i \in 0 .. n : i \in S
<1> SUFFICES ASSUME NEW k \in 0 .. n, k \notin S PROVE FALSE
  OBVIOUS
<1>1. {i \in 0 .. n : i \notin S} \in SUBSET Nat
  OBVIOUS
<1>2. PICK m \in {i \in 0 .. n : i \notin S} : \A o \in {i \in 0 .. n : i \notin S} : m <= o
  BY <1>1, LeastElement
<1>3. m # 0 /\ m \in 1 .. n /\ m \notin S
  BY <1>2
<1>4. m - 1 \in 0 .. n /\ m - 1 \in S
  BY <1>2, <1>3
<1> QED  BY <1>3, <1>4

\* f is the recursion from c by the steps of G.
Recursion(f, n, V, c, G) ==
    /\ f \in [0 .. n -> V] /\ f[0] = c
    /\ \A i \in 1 .. n : f[i] = G[i][f[i - 1]]

\* A function may be defined by its value at 0 and by a step G.
LEMMA RecursionTo ==
    ASSUME NEW n \in Nat, NEW V, NEW c \in V, NEW G \in [1 .. n -> [V -> V]]
    PROVE  \E f : Recursion(f, n, V, c, G)
<1> DEFINE Upto(m, f) == Recursion(f, m, V, c, G)
           S == {m \in 0 .. n : \E f : Upto(m, f)}
<1>1. 0 \in S
  <2>1. PICK f : f = [i \in 0 .. 0 |-> c]
    BY Zenon
  <2>2. Upto(0, f)
    BY <2>1 DEF Recursion
  <2> QED  BY <2>2
<1>2. ASSUME NEW m \in 1 .. n, m - 1 \in S PROVE m \in S
  <2>1. PICK f : Upto(m - 1, f)
    BY <1>2
  <2>2. PICK g : g = [i \in 0 .. m |-> IF i = m THEN G[m][f[m - 1]] ELSE f[i]]
    BY Zenon
  <2>3. G[m][f[m - 1]] \in V
    BY <2>1 DEF Recursion
  <2>4. g \in [0 .. m -> V]
    BY <2>1, <2>2, <2>3 DEF Recursion
  <2>5. g[0] = c
    BY <2>1, <2>2 DEF Recursion
  <2>6. ASSUME NEW i \in 1 .. m PROVE g[i] = G[i][g[i - 1]]
    <3>1. CASE i = m
      BY <2>2, <3>1
    <3>2. CASE i # m
      <4>1. i \in 1 .. m - 1 /\ i \in 0 .. m /\ i - 1 \in 0 .. m /\ i - 1 # m
        BY <3>2
      <4>2. g[i] = f[i] /\ g[i - 1] = f[i - 1]
        BY <2>2, <3>2, <4>1
      <4> QED  BY <2>1, <4>1, <4>2 DEF Recursion
    <3> QED  BY <3>1, <3>2
  <2>7. Upto(m, g)
    BY <2>4, <2>5, <2>6 DEF Recursion
  <2> HIDE DEF Upto
  <2> QED  BY <2>7
<1>3. n \in S
  <2> HIDE DEF S
  <2>1. \A i \in 0 .. n : i \in S
    BY <1>1, <1>2, InductionTo
  <2> QED  BY <2>1
<1> QED  BY <1>3

-----------------------------------------------------------------------------
(***************************************************************************)
(* Numbers in two digits.                                                  *)
(***************************************************************************)

LEMMA DivMod ==
    ASSUME NEW x \in Int, NEW m \in Nat, m > 0
    PROVE  /\ x \div m \in Int /\ x % m \in 0 .. m - 1
           /\ x = m * (x \div m) + (x % m)
OBVIOUS

\* Quotient and remainder are unique.
LEMMA DivModUnique ==
    ASSUME NEW m \in Nat, m > 0, NEW q \in Int, NEW r \in 0 .. m - 1
    PROVE  (m * q + r) \div m = q /\ (m * q + r) % m = r
<1>0. m * q \in Int /\ m * q + r \in Int
  OBVIOUS
<1>1. PICK x : x = m * q + r
  BY Zenon
<1>2. PICK d : d = x \div m
  BY Zenon
<1>3. PICK e : e = x % m
  BY Zenon
<1>4. x \in Int /\ d \in Int /\ e \in 0 .. m - 1 /\ x = m * d + e
  BY <1>0, <1>1, <1>2, <1>3, DivMod
<1>5. m * d + e = m * q + r
  BY <1>1, <1>4
<1>6. d = q
  <2>1. CASE d >= q + 1
    <3>1. m * d >= m * (q + 1)
      BY <1>4, <2>1
    <3>2. m * (q + 1) = m * q + m
      BY <1>4
    <3> QED  BY <1>0, <1>4, <1>5, <3>1, <3>2
  <2>2. CASE q >= d + 1
    <3>1. m * q >= m * (d + 1)
      BY <1>4, <2>2
    <3>2. m * (d + 1) = m * d + m
      BY <1>4
    <3> QED  BY <1>0, <1>4, <1>5, <3>1, <3>2
  <2> QED  BY <1>4, <2>1, <2>2
<1>7. e = r
  BY <1>4, <1>5, <1>6
<1> QED  BY <1>1, <1>2, <1>3, <1>6, <1>7

\* Two digits, the lower one below m and the higher one below n.
LEMMA TwoDigits ==
    ASSUME NEW m \in Nat, m > 0, NEW n \in Nat, n > 0,
           NEW a \in 0 .. m - 1, NEW b \in 0 .. n - 1
    PROVE  a + m * b \in 0 .. m * n - 1
<1>1. m * b \in Nat /\ m * n \in Nat
  OBVIOUS
<1>2. m * b <= m * (n - 1)
  OBVIOUS
<1>3. m * (n - 1) = m * n - m
  OBVIOUS
<1> QED  BY <1>1, <1>2, <1>3

LEMMA HighDigit ==
    ASSUME NEW m \in Nat, m > 0, NEW n \in Nat, n > 0, NEW v \in 0 .. m * n - 1
    PROVE  v \div m \in 0 .. n - 1
<1>0. m * n \in Nat /\ v \in Int
  OBVIOUS
<1>1. PICK q : q = v \div m
  BY Zenon
<1>2. q \in Int /\ \E r \in 0 .. m - 1 : v = m * q + r
  BY <1>0, <1>1, DivMod
<1>3. PICK r \in 0 .. m - 1 : v = m * q + r
  BY <1>2
<1>4. CASE q < 0
  <2>1. m * q <= m * (-1)
    BY <1>2, <1>4
  <2>2. m * q \in Int /\ m * (-1) = -m
    BY <1>2
  <2> QED  BY <1>0, <1>3, <2>1, <2>2
<1>5. CASE q >= n
  <2>1. m * q >= m * n
    BY <1>2, <1>5
  <2>2. m * q \in Int
    BY <1>2
  <2> QED  BY <1>0, <1>3, <2>1, <2>2
<1> QED  BY <1>1, <1>2, <1>4, <1>5

LEMMA ByteFacts ==
    /\ ByteMod \in Nat /\ ByteMod > 1
    /\ U16 \in Nat /\ U16 > 1 /\ U16 = ByteMod * ByteMod
    /\ U32 \in Nat /\ U32 > 1 /\ U32 = U16 * U16
    /\ Byte = 0 .. ByteMod - 1
<1>1. ByteMod \in Nat /\ ByteMod > 1
  BY ByteAssumption
<1>2. U16 = ByteMod * ByteMod /\ U32 = U16 * U16
  BY DEF U16, U32
<1>3. ByteMod * ByteMod \in Nat /\ ByteMod * ByteMod > 1
  BY <1>1
<1>4. U16 \in Nat /\ U16 > 1
  BY <1>2, <1>3
<1>5. U16 * U16 \in Nat /\ U16 * U16 > 1
  BY <1>4
<1> QED  BY <1>1, <1>2, <1>4, <1>5 DEF Byte

LEMMA EncodeU16 ==
    ASSUME NEW v \in Int
    PROVE  /\ encode_u16_le(v) \in Seq(Byte) /\ Len(encode_u16_le(v)) = 2
           /\ encode_u16_le(v)[1] = v % ByteMod
           /\ encode_u16_le(v)[2] = (v \div ByteMod) % ByteMod
<1>1. v % ByteMod \in Byte /\ v \div ByteMod \in Int
  BY ByteFacts, DivMod
<1>2. (v \div ByteMod) % ByteMod \in Byte
  BY <1>1, ByteFacts, DivMod
<1> QED  BY <1>1, <1>2 DEF encode_u16_le

LEMMA EncodeU32 ==
    ASSUME NEW v \in Int
    PROVE  /\ encode_u32_le(v) \in Seq(Byte) /\ Len(encode_u32_le(v)) = 4
           /\ \A i \in 1 .. 2 : encode_u32_le(v)[i] = encode_u16_le(v)[i]
           /\ \A i \in 1 .. 2 : encode_u32_le(v)[i + 2] = encode_u16_le(v \div U16)[i]
<1>1. v \div U16 \in Int
  BY ByteFacts, DivMod
<1>2. PICK x : x = encode_u16_le(v)
  BY Zenon
<1>3. PICK y : y = encode_u16_le(v \div U16)
  BY Zenon
<1>4. x \in Seq(Byte) /\ Len(x) = 2 /\ y \in Seq(Byte) /\ Len(y) = 2
  BY <1>1, <1>2, <1>3, EncodeU16
<1>5. encode_u32_le(v) = x \o y
  BY <1>2, <1>3 DEF encode_u32_le
<1> QED  BY <1>2, <1>3, <1>4, <1>5

\* Memory that holds bytes.
LEMMA DecodeTypes ==
    ASSUME NEW data \in Seq(Byte), NEW at \in Nat
    PROVE  /\ ByteAt(data, at) \in Byte
           /\ decode_u16_le(data, at) \in 0 .. U16 - 1
           /\ decode_u32_le(data, at) \in 0 .. U32 - 1
           /\ decode_u32_be(data, at) \in 0 .. U32 - 1
<1>1. ASSUME NEW i \in Nat PROVE ByteAt(data, i) \in 0 .. ByteMod - 1
  BY ByteFacts DEF ByteAt
<1>2. ASSUME NEW a \in 0 .. ByteMod - 1, NEW b \in 0 .. ByteMod - 1
      PROVE  a + ByteMod * b \in 0 .. U16 - 1
  BY ByteFacts, TwoDigits
<1>3. ASSUME NEW i \in Nat PROVE decode_u16_le(data, i) \in 0 .. U16 - 1
  <2>1. i + 1 \in Nat
    OBVIOUS
  <2> QED  BY <1>1, <1>2, <2>1 DEF decode_u16_le
<1>4. ASSUME NEW a \in 0 .. U16 - 1, NEW b \in 0 .. U16 - 1
      PROVE  a + U16 * b \in 0 .. U32 - 1
  BY ByteFacts, TwoDigits
<1>5. at + 1 \in Nat /\ at + 2 \in Nat /\ at + 3 \in Nat
  OBVIOUS
<1>6. decode_u32_le(data, at) \in 0 .. U32 - 1
  BY <1>3, <1>4, <1>5 DEF decode_u32_le
<1>7. decode_u32_be(data, at) \in 0 .. U32 - 1
  <2>1. PICK lo : lo = ByteAt(data, at + 3) + ByteMod * ByteAt(data, at + 2)
    BY Zenon
  <2>2. PICK hi : hi = ByteAt(data, at + 1) + ByteMod * ByteAt(data, at)
    BY Zenon
  <2>3. lo \in 0 .. U16 - 1 /\ hi \in 0 .. U16 - 1
    BY <1>1, <1>2, <1>5, <2>1, <2>2
  <2>4. decode_u32_be(data, at) = lo + U16 * hi
    BY <2>1, <2>2 DEF decode_u32_be
  <2> QED  BY <1>4, <2>3, <2>4
<1> QED  BY <1>1, <1>3, <1>6, <1>7 DEF Byte

\* The bytes of w lie at data + at.
Holds(data, at, w) == \A i \in 1 .. Len(w) : ByteAt(data, at + i - 1) = w[i]

LEMMA DecodeU16 ==
    ASSUME NEW v \in Int, NEW data, NEW at \in Nat,
           Holds(data, at, encode_u16_le(v))
    PROVE  decode_u16_le(data, at) = v % U16
<1>1. PICK q : q = v \div ByteMod
  BY Zenon
<1>2. PICK r : r = v % ByteMod
  BY Zenon
<1>3. PICK p : p = q \div ByteMod
  BY Zenon
<1>4. PICK s : s = q % ByteMod
  BY Zenon
<1>5. q \in Int /\ r \in 0 .. ByteMod - 1 /\ v = ByteMod * q + r
  BY <1>1, <1>2, ByteFacts, DivMod
<1>6. p \in Int /\ s \in 0 .. ByteMod - 1 /\ q = ByteMod * p + s
  BY <1>3, <1>4, <1>5, ByteFacts, DivMod
<1>7. ByteAt(data, at) = r /\ ByteAt(data, at + 1) = s
  <2>1. PICK w : w = encode_u16_le(v)
    BY Zenon
  <2>2. Len(w) = 2 /\ w[1] = r /\ w[2] = s
    BY <1>1, <1>2, <1>4, <2>1, EncodeU16
  <2>3. \A i \in 1 .. 2 : ByteAt(data, at + i - 1) = w[i]
    BY <2>1, <2>2 DEF Holds
  <2>4. ByteAt(data, at + 1 - 1) = w[1] /\ ByteAt(data, at + 2 - 1) = w[2]
    BY <2>3
  <2>5. at + 1 - 1 = at /\ at + 2 - 1 = at + 1
    OBVIOUS
  <2> QED  BY <2>2, <2>4, <2>5
<1>8. v = U16 * p + (r + ByteMod * s)
  <2>1. ByteMod * (ByteMod * p + s) = (ByteMod * ByteMod) * p + ByteMod * s
    BY <1>6, ByteFacts
  <2>2. v = (ByteMod * ByteMod) * p + ByteMod * s + r
    BY <1>5, <1>6, <2>1
  <2>3. ByteMod * s \in Int /\ (ByteMod * ByteMod) * p \in Int
    BY <1>6, ByteFacts
  <2> QED  BY <1>5, <2>2, <2>3, ByteFacts
<1>9. r + ByteMod * s \in 0 .. U16 - 1
  BY <1>5, <1>6, ByteFacts, TwoDigits
<1>10. v % U16 = r + ByteMod * s
  <2>1. PICK x : x = r + ByteMod * s
    BY Zenon
  <2>2. U16 \in Nat /\ U16 > 0 /\ x \in 0 .. U16 - 1
    BY <1>9, <2>1, ByteFacts
  <2>3. (U16 * p + x) % U16 = x
    BY <1>6, <2>2, DivModUnique
  <2> QED  BY <1>8, <2>1, <2>3
<1> QED  BY <1>7, <1>10 DEF decode_u16_le

LEMMA DecodeU32 ==
    ASSUME NEW v \in 0 .. U32 - 1, NEW data, NEW at \in Nat,
           Holds(data, at, encode_u32_le(v))
    PROVE  decode_u32_le(data, at) = v
<1>1. PICK q : q = v \div U16
  BY Zenon
<1>2. PICK r : r = v % U16
  BY Zenon
<1>3. v \in Int /\ U16 \in Nat /\ U16 > 0
  BY ByteFacts
<1>4. q \in Int /\ r \in 0 .. U16 - 1 /\ v = U16 * q + r
  BY <1>1, <1>2, <1>3, DivMod
<1>5. q \in 0 .. U16 - 1
  BY <1>1, <1>3, ByteFacts, HighDigit
<1>6. PICK w : w = encode_u32_le(v)
  BY Zenon
<1>7. /\ Len(w) = 4
      /\ \A i \in 1 .. 2 : w[i] = encode_u16_le(v)[i]
      /\ \A i \in 1 .. 2 : w[i + 2] = encode_u16_le(q)[i]
  BY <1>1, <1>3, <1>6, EncodeU32
<1>8. \A i \in 1 .. 4 : ByteAt(data, at + i - 1) = w[i]
  BY <1>6, <1>7 DEF Holds
<1>9. Len(encode_u16_le(v)) = 2 /\ Len(encode_u16_le(q)) = 2
  BY <1>3, <1>4, EncodeU16
<1>10. Holds(data, at, encode_u16_le(v))
  BY <1>7, <1>8, <1>9 DEF Holds
<1>11. Holds(data, at + 2, encode_u16_le(q))
  <2>1. ASSUME NEW i \in 1 .. 2 PROVE ByteAt(data, (at + 2) + i - 1) = encode_u16_le(q)[i]
    <3>1. i + 2 \in 1 .. 4 /\ at + (i + 2) - 1 = (at + 2) + i - 1
      OBVIOUS
    <3> QED  BY <1>7, <1>8, <3>1
  <2> QED  BY <1>9, <2>1 DEF Holds
<1>12. decode_u16_le(data, at) = r
  BY <1>2, <1>3, <1>10, DecodeU16
<1>13. decode_u16_le(data, at + 2) = q
  <2>1. at + 2 \in Nat
    OBVIOUS
  <2>2. decode_u16_le(data, at + 2) = q % U16
    BY <1>4, <1>11, <2>1, DecodeU16
  <2>3. (U16 * 0 + q) % U16 = q
    BY <1>3, <1>5, DivModUnique
  <2>4. U16 * 0 + q = q
    BY <1>3, <1>4
  <2> QED  BY <2>2, <2>3, <2>4
<1> QED  BY <1>3, <1>4, <1>12, <1>13 DEF decode_u32_le

\* A value that fits its width is its own remainder.
LEMMA SmallMod ==
    ASSUME NEW m \in Nat, NEW x \in 0 .. m - 1
    PROVE  x % m = x
<1>1. m > 0 /\ m * 0 + x = x
  OBVIOUS
<1> QED  BY <1>1, DivModUnique

LEMMA ElementOf ==
    ASSUME NEW S, NEW s \in Seq(S), NEW i \in 1 .. Len(s)
    PROVE  s[i] \in S
OBVIOUS

LEMMA FunctionIsSeq ==
    ASSUME NEW S, NEW n \in Nat, NEW f \in [1 .. n -> S]
    PROVE  f \in Seq(S) /\ Len(f) = n
OBVIOUS

\* z is x and then y.
Joined(z, T, x, y) ==
    /\ z \in Seq(T) /\ Len(z) = Len(x) + Len(y)
    /\ \A i \in 1 .. Len(x) : z[i] = x[i]
    /\ \A i \in 1 .. Len(y) : z[Len(x) + i] = y[i]

LEMMA ConcatFacts ==
    ASSUME NEW T, NEW x \in Seq(T), NEW y \in Seq(T)
    PROVE  Joined(x \o y, T, x, y)
<1>1. x \o y \in Seq(T)
  OBVIOUS
<1>2. Len(x \o y) = Len(x) + Len(y)
  OBVIOUS
<1>3. ASSUME NEW i \in 1 .. Len(x) PROVE (x \o y)[i] = x[i]
  OBVIOUS
<1>4. ASSUME NEW i \in 1 .. Len(y) PROVE (x \o y)[Len(x) + i] = y[i]
  OBVIOUS
<1> QED  BY <1>1, <1>2, <1>3, <1>4 DEF Joined

\* z is the part of s from m to n.
Part(z, T, s, m, n) ==
    /\ z \in Seq(T) /\ Len(z) = n - m + 1
    /\ \A i \in 1 .. n - m + 1 : z[i] = s[m + i - 1]

LEMMA PartFacts ==
    ASSUME NEW T, NEW s \in Seq(T), NEW m \in Nat, NEW n \in Nat,
           1 <= m, m <= n + 1, n <= Len(s)
    PROVE  Part(SubSeq(s, m, n), T, s, m, n)
<1>1. SubSeq(s, m, n) = [i \in 1 .. n - m + 1 |-> s[m + i - 1]]
  OBVIOUS
<1>2. n - m + 1 \in Nat
  OBVIOUS
<1>3. PICK k : k = n - m + 1
  BY Zenon
<1>4. PICK f : f = [i \in 1 .. k |-> s[m + i - 1]]
  BY Zenon
<1>5. f \in [1 .. k -> T]
  <2>1. ASSUME NEW i \in 1 .. k PROVE s[m + i - 1] \in T
    <3>1. m + i - 1 \in 1 .. Len(s)
      BY <1>3
    <3> QED  BY <3>1, ElementOf
  <2> QED  BY <1>4, <2>1
<1>6. f \in Seq(T) /\ Len(f) = k
  BY <1>2, <1>3, <1>5, FunctionIsSeq
<1> QED  BY <1>1, <1>3, <1>4, <1>6 DEF Part

\* In the byte order of the database.
LEMMA DecodeU32Be ==
    ASSUME NEW v \in 0 .. U32 - 1
    PROVE  BigEndian(v) \in Seq(Byte) /\ decode_u32_be(BigEndian(v), 0) = v
<1>1. PICK w : w = encode_u32_le(v)
  BY Zenon
<1>2. w \in Seq(Byte) /\ Len(w) = 4
  BY <1>1, ByteFacts, EncodeU32
<1>3. PICK x : x = BigEndian(v)
  BY Zenon
<1>4. x = [i \in 1 .. 4 |-> w[(4 - i) + 1]]
  BY <1>1, <1>2, <1>3 DEF BigEndian, Reverse
<1>5. x \in Seq(Byte) /\ Len(x) = 4
  <2>1. ASSUME NEW i \in 1 .. 4 PROVE w[(4 - i) + 1] \in Byte
    <3>1. (4 - i) + 1 \in 1 .. Len(w)
      BY <1>2
    <3> QED  BY <1>2, <3>1, ElementOf
  <2>2. x \in [1 .. 4 -> Byte]
    BY <1>4, <2>1
  <2> QED  BY <2>2, FunctionIsSeq
<1>6. x[1] = w[4] /\ x[2] = w[3] /\ x[3] = w[2] /\ x[4] = w[1]
  BY <1>4
<1>7. /\ ByteAt(x, 0) = w[4] /\ ByteAt(x, 0 + 1) = w[3]
      /\ ByteAt(x, 0 + 2) = w[2] /\ ByteAt(x, 0 + 3) = w[1]
  BY <1>5, <1>6 DEF ByteAt
<1>8. /\ ByteAt(w, 0) = w[1] /\ ByteAt(w, 0 + 1) = w[2]
      /\ ByteAt(w, 0 + 2) = w[3] /\ ByteAt(w, 0 + 2 + 1) = w[4]
  BY <1>2 DEF ByteAt
<1>9. decode_u32_be(x, 0) = decode_u32_le(w, 0)
  BY <1>7, <1>8 DEF decode_u32_be, decode_u32_le, decode_u16_le
<1>10. Holds(w, 0, w)
  <2>1. ASSUME NEW i \in 1 .. 4 PROVE ByteAt(w, 0 + i - 1) = w[i]
    BY <1>2 DEF ByteAt
  <2> QED  BY <1>2, <2>1 DEF Holds
<1>11. decode_u32_le(w, 0) = v
  BY <1>1, <1>10, DecodeU32
<1> QED  BY <1>3, <1>5, <1>9, <1>11

-----------------------------------------------------------------------------
(***************************************************************************)
(* The cipher.                                                             *)
(***************************************************************************)

Word == 0 .. U32 - 1

\* f is the table of xor.
XorTable(f) ==
    f = [a \in Byte |->
          [b \in Byte |-> IF a = 0 THEN b
                          ELSE ((a + b) % 2) + 2 * f[a \div 2][b \div 2]]]

LEMMA XorByteIs == XorByte = [a \in Byte |-> (CHOOSE f : XorTable(f))[a]]
BY DEF XorByte, XorTable

LEMMA Half ==
    ASSUME NEW a \in Nat
    PROVE  a \div 2 \in Nat /\ a \div 2 <= a /\ (a # 0 => a \div 2 <= a - 1)
OBVIOUS

\* There is such a table, ...
LEMMA XorTableExists == \E f : XorTable(f)
<1> DEFINE V == [Byte -> Nat]
           Row(a, f) == [b \in Byte |-> IF a = 0 THEN b
                           ELSE ((a + b) % 2) + 2 * f[a \div 2][b \div 2]]
           Upto(m, f) == f \in [0 .. m -> V] /\ \A a \in 0 .. m : f[a] = Row(a, f)
           S == {m \in Nat : \E f : Upto(m, f)}
<1>0. ByteMod \in Nat /\ ByteMod > 1 /\ Byte = 0 .. ByteMod - 1
  BY ByteFacts
<1>1. 0 \in S
  <2>1. PICK f : f = [a \in 0 .. 0 |-> [b \in Byte |-> b]]
    BY Zenon
  <2>2. [b \in Byte |-> b] \in V
    BY <1>0
  <2>3. f \in [0 .. 0 -> V] /\ f[0] = [b \in Byte |-> b]
    BY <2>1, <2>2
  <2>4. Row(0, f) = [b \in Byte |-> b]
    OBVIOUS
  <2>5. Upto(0, f)
    BY <2>3, <2>4
  <2> QED  BY <2>5
<1>2. ASSUME NEW m \in 1 .. ByteMod - 1, m - 1 \in S PROVE m \in S
  <2>1. PICK f : Upto(m - 1, f)
    BY <1>2
  <2>2. PICK g : g = [a \in 0 .. m |-> IF a = m THEN Row(m, f) ELSE f[a]]
    BY Zenon
  <2>3. Row(m, f) \in V
    <3>1. ASSUME NEW b \in Byte
          PROVE  (IF m = 0 THEN b ELSE ((m + b) % 2) + 2 * f[m \div 2][b \div 2]) \in Nat
      <4>1. m \div 2 \in 0 .. m - 1 /\ b \div 2 \in Byte
        BY <1>0, Half
      <4>2. f[m \div 2] \in V
        BY <2>1, <4>1
      <4>3. f[m \div 2][b \div 2] \in Nat
        BY <4>1, <4>2
      <4>4. (m + b) % 2 \in Nat
        BY <1>0
      <4> QED  BY <1>0, <4>3, <4>4
    <3> QED  BY <3>1
  <2>4. g \in [0 .. m -> V]
    <3>1. ASSUME NEW a \in 0 .. m, a # m PROVE f[a] \in V
      BY <2>1, <3>1
    <3> HIDE DEF V, Row
    <3> QED  BY <2>2, <2>3, <3>1
  <2>5. ASSUME NEW a \in 0 .. m PROVE g[a] = Row(a, g)
    <3>1. CASE a = 0
      <4>1. g[0] = f[0] /\ f[0] = Row(0, f)
        BY <2>1, <2>2
      <4>2. Row(0, f) = Row(0, g)
        OBVIOUS
      <4> HIDE DEF Row
      <4> QED  BY <3>1, <4>1, <4>2
    <3>2. CASE a # 0
      <4>1. a \div 2 \in 0 .. m - 1 /\ a \div 2 \in 0 .. m /\ a \div 2 # m
        BY <3>2, Half
      <4>2. g[a \div 2] = f[a \div 2]
        BY <2>2, <4>1
      <4>3. Row(a, g) = Row(a, f)
        BY <4>2
      <4>4. g[a] = Row(a, f)
        <5>1. a # m => f[a] = Row(a, f)
          BY <2>1
        <5> HIDE DEF Row
        <5> QED  BY <2>2, <5>1
      <4> HIDE DEF Row
      <4> QED  BY <4>3, <4>4
    <3> QED  BY <3>1, <3>2
  <2>6. Upto(m, g)
    <3> HIDE DEF Row, V
    <3> QED  BY <2>4, <2>5
  <2> HIDE DEF Upto
  <2> QED  BY <2>6
<1>3. ByteMod - 1 \in S
  <2> HIDE DEF S
  <2>1. \A i \in 0 .. ByteMod - 1 : i \in S
    <3>1. ByteMod - 1 \in Nat
      BY <1>0
    <3> QED  BY <1>1, <1>2, <3>1, InductionTo
  <2> QED  BY <1>0, <2>1
<1>4. PICK f : Upto(ByteMod - 1, f)
  BY <1>3
<1>5. f = [a \in Byte |-> Row(a, f)]
  <2> HIDE DEF Row, V
  <2> QED  BY <1>0, <1>4
<1> QED  BY <1>5 DEF XorTable

\* ... and what it holds are numbers.
LEMMA XorByteType ==
    \A a, b \in Byte : XorByte[a][b] \in Nat
<1>0. ByteMod \in Nat /\ ByteMod > 1 /\ Byte = 0 .. ByteMod - 1
  BY ByteFacts
<1>1. PICK f : XorTable(f) /\ XorByte = [a \in Byte |-> f[a]]
  BY XorTableExists, XorByteIs
<1> DEFINE Good(a) == \A b \in Byte : f[a][b] \in Nat
           Bad == {a \in Byte : ~Good(a)}
<1>2. ASSUME NEW a \in Byte, NEW b \in Byte
      PROVE  f[a][b] = IF a = 0 THEN b ELSE ((a + b) % 2) + 2 * f[a \div 2][b \div 2]
  BY <1>1 DEF XorTable
<1>3. ASSUME Bad # {} PROVE FALSE
  <2>1. Bad \in SUBSET Nat
    BY <1>0
  <2>2. PICK a \in Bad : \A o \in Bad : a <= o
    <3> HIDE DEF Bad
    <3> QED  BY <1>3, <2>1, LeastElement
  <2>3. PICK b \in Byte : f[a][b] \notin Nat
    BY <2>2
  <2>4. a \in Byte /\ a # 0
    BY <1>0, <1>2, <2>2, <2>3
  <2>5. a \div 2 \in Byte /\ b \div 2 \in Byte /\ a \div 2 < a
    BY <1>0, <2>4, Half
  <2>6. a \div 2 \notin Bad
    <3>1. a \div 2 \in Nat /\ a \in Nat
      BY <1>0, <2>4, <2>5
    <3> QED  BY <2>2, <2>5, <3>1
  <2>7. f[a \div 2][b \div 2] \in Nat
    BY <2>5, <2>6
  <2>8. (a + b) % 2 \in Nat
    BY <1>0, <2>4
  <2>9. f[a][b] = ((a + b) % 2) + 2 * f[a \div 2][b \div 2]
    BY <1>2, <2>3, <2>4
  <2> QED  BY <2>3, <2>7, <2>8, <2>9
<1> QED  BY <1>1, <1>3

LEMMA XorWordType ==
    ASSUME NEW v \in Int, NEW w \in Int
    PROVE  XorWord(v, w) \in Nat
<1>1. PICK x : x = encode_u32_le(v)
  BY Zenon
<1>2. PICK y : y = encode_u32_le(w)
  BY Zenon
<1>3. x \in Seq(Byte) /\ Len(x) = 4 /\ y \in Seq(Byte) /\ Len(y) = 4
  BY <1>1, <1>2, EncodeU32
<1>4. PICK z : z = [i \in 1 .. 4 |-> XorByte[x[i]][y[i]]]
  BY Zenon
<1>5. z \in [1 .. 4 -> Nat]
  <2>1. ASSUME NEW i \in 1 .. 4 PROVE x[i] \in Byte /\ y[i] \in Byte
    <3>1. i \in 1 .. Len(x) /\ i \in 1 .. Len(y)
      BY <1>3
    <3> QED  BY <1>3, <3>1, ElementOf
  <2> QED  BY <1>4, <2>1, XorByteType
<1>6. ASSUME NEW i \in Nat PROVE ByteAt(z, i) \in Nat
  <2>1. z \in Seq(Nat) /\ Len(z) = 4
    BY <1>5, FunctionIsSeq
  <2>2. i \in 0 .. 4 - 1 => z[i + 1] \in Nat
    BY <1>5
  <2> QED  BY <2>1, <2>2 DEF ByteAt
<1>7. XorWord(v, w) = decode_u32_le(z, 0)
  BY <1>1, <1>2, <1>4 DEF XorWord
<1>8. decode_u32_le(z, 0) \in Nat
  <2>1. ASSUME NEW i \in Nat PROVE decode_u16_le(z, i) \in Nat
    <3>1. i + 1 \in Nat
      OBVIOUS
    <3>2. ByteAt(z, i) \in Nat /\ ByteAt(z, i + 1) \in Nat
      BY <1>6, <3>1
    <3> QED  BY <3>2, ByteFacts DEF decode_u16_le
  <2>2. 0 + 2 \in Nat /\ 0 \in Nat
    OBVIOUS
  <2>3. decode_u16_le(z, 0) \in Nat /\ decode_u16_le(z, 0 + 2) \in Nat
    BY <2>1, <2>2
  <2> QED  BY <2>3, ByteFacts DEF decode_u32_le
<1> QED  BY <1>7, <1>8

\* The operations on words, undone.
LEMMA AddMod ==
    ASSUME NEW m \in Nat, m > 0, NEW x \in Int, NEW y \in Int
    PROVE  ((x % m) + y) % m = (x + y) % m
<1>1. PICK q : q = x \div m
  BY Zenon
<1>2. PICK r : r = x % m
  BY Zenon
<1>3. q \in Int /\ r \in 0 .. m - 1 /\ x = m * q + r
  BY <1>1, <1>2, DivMod
<1>4. PICK p : p = (r + y) \div m
  BY Zenon
<1>5. PICK s : s = (r + y) % m
  BY Zenon
<1>6. r + y \in Int
  BY <1>3
<1>7. p \in Int /\ s \in 0 .. m - 1 /\ r + y = m * p + s
  BY <1>4, <1>5, <1>6, DivMod
<1>8. x + y = m * (q + p) + s /\ q + p \in Int
  <2>1. m * (q + p) = m * q + m * p /\ m * q \in Int /\ m * p \in Int
    BY <1>3, <1>7
  <2> QED  BY <1>3, <1>7, <2>1
<1>9. (m * (q + p) + s) % m = s
  BY <1>7, <1>8, DivModUnique
<1> QED  BY <1>2, <1>5, <1>8, <1>9

LEMMA SubtractAdded ==
    ASSUME NEW m \in Nat, m > 0, NEW x \in 0 .. m - 1, NEW y \in Int
    PROVE  (((x + y) % m) - y) % m = x
<1>1. x + y \in Int /\ -y \in Int
  OBVIOUS
<1>2. (((x + y) % m) + (-y)) % m = ((x + y) + (-y)) % m
  BY <1>1, AddMod
<1>3. (x + y) % m \in Int
  BY <1>1, DivMod
<1>4. ((x + y) % m) + (-y) = ((x + y) % m) - y /\ (x + y) + (-y) = x
  BY <1>3
<1>5. x % m = x
  BY SmallMod
<1> QED  BY <1>2, <1>4, <1>5

LEMMA WordFacts ==
    /\ U32 \in Nat /\ U32 > 0 /\ Delta \in Word /\ Rounds \in Nat
    /\ Word \subseteq Nat
    /\ \A x \in Int : x % U32 \in Word
  BY ByteFacts, XteaAssumption, DivMod DEF Word

LEMMA MixType ==
    ASSUME NEW v \in Word
    PROVE  Mix(v) \in Word
<1>1. v \in Int /\ v * 16 \in Int
  BY WordFacts
<1>2. (v * 16) % U32 \in Int /\ v \div 32 \in Int
  BY <1>1, WordFacts
<1>3. XorWord((v * 16) % U32, v \div 32) \in Nat
  BY <1>2, XorWordType
<1>4. XorWord((v * 16) % U32, v \div 32) + v \in Int
  BY <1>1, <1>3
<1> QED  BY <1>4, WordFacts DEF Mix

Keys == [1 .. 4 -> Nat]

LEMMA KeyTypes ==
    ASSUME NEW k \in Keys, NEW sum \in Word
    PROVE  LowKey(k, sum) \in Word /\ HighKey(k, sum) \in Word
<1>1. sum \in Nat
  BY WordFacts
<1>2. sum % 4 \in 0 .. 3 /\ sum \div 2048 \in Int
  BY <1>1
<1>3. (sum \div 2048) % 4 \in 0 .. 3
  BY <1>2
<1>4. k[1 + (sum % 4)] \in Nat
  BY <1>2 DEF Keys
<1>5. k[1 + ((sum \div 2048) % 4)] \in Nat
  BY <1>3 DEF Keys
<1>6. sum + k[1 + (sum % 4)] \in Int /\ sum + k[1 + ((sum \div 2048) % 4)] \in Int
  BY <1>1, <1>4, <1>5
<1> QED  BY <1>6, WordFacts DEF LowKey, HighKey

LEMMA RoundKeyType ==
    ASSUME NEW k \in Keys, NEW v \in Word, NEW sum \in Word
    PROVE  /\ XorWord(Mix(v), LowKey(k, sum)) \in Nat
           /\ XorWord(Mix(v), HighKey(k, sum)) \in Nat
<1>1. Mix(v) \in Int /\ LowKey(k, sum) \in Int /\ HighKey(k, sum) \in Int
  <2>1. Mix(v) \in Word
    BY MixType
  <2>2. LowKey(k, sum) \in Word /\ HighKey(k, sum) \in Word
    BY KeyTypes
  <2>3. \A x \in Word : x \in Int
    BY WordFacts
  <2> QED  BY <2>1, <2>2, <2>3
<1> QED  BY <1>1, XorWordType

\* A round, and the round that undoes it.
LEMMA RoundInverts ==
    ASSUME NEW k \in Keys, NEW v0 \in Word, NEW v1 \in Word, NEW s \in Word
    PROVE  \E a, b \in Word :
             /\ EncodeRound(k, <<v0, v1, s>>) = <<a, b, (s + Delta) % U32>>
             /\ DecodeRound(k, <<a, b, (s + Delta) % U32>>) = <<v0, v1, s>>
<1>1. PICK X : X = XorWord(Mix(v1), LowKey(k, s))
  BY Zenon
<1>2. X \in Nat
  BY <1>1, RoundKeyType
<1>3. PICK a : a = (v0 + X) % U32
  BY Zenon
<1>4. PICK t : t = (s + Delta) % U32
  BY Zenon
<1>5. v0 \in Int /\ v1 \in Int /\ s \in Int /\ Delta \in Int
  BY WordFacts
<1>6. a \in Word /\ t \in Word
  <2>1. v0 + X \in Int /\ s + Delta \in Int
    BY <1>2, <1>5
  <2> QED  BY <1>3, <1>4, <2>1, WordFacts
<1>7. PICK Y : Y = XorWord(Mix(a), HighKey(k, t))
  BY Zenon
<1>8. Y \in Nat
  BY <1>6, <1>7, RoundKeyType
<1>9. PICK b : b = (v1 + Y) % U32
  BY Zenon
<1>10. b \in Word
  <2>1. v1 + Y \in Int
    BY <1>5, <1>8
  <2> QED  BY <1>9, <2>1, WordFacts
<1>11. EncodeRound(k, <<v0, v1, s>>) = <<a, b, t>>
  BY <1>1, <1>3, <1>4, <1>7, <1>9 DEF EncodeRound
<1>12. U32 \in Nat /\ U32 > 0 /\ v0 \in 0 .. U32 - 1 /\ v1 \in 0 .. U32 - 1
       /\ s \in 0 .. U32 - 1
  BY WordFacts DEF Word
<1>17. X \in Int /\ Y \in Int
  BY <1>2, <1>8
<1>13. (b - Y) % U32 = v1
  BY <1>8, <1>9, <1>12, <1>17, SubtractAdded
<1>14. (t - Delta) % U32 = s
  BY <1>4, <1>5, <1>12, SubtractAdded
<1>15. (a - X) % U32 = v0
  BY <1>3, <1>12, <1>17, SubtractAdded
<1>16. DecodeRound(k, <<a, b, t>>) = <<v0, v1, s>>
  <2>1. PICK r : r = <<a, b, t>>
    BY Zenon
  <2>2. r[1] = a /\ r[2] = b /\ r[3] = t
    BY <2>1
  <2>3. DecodeRound(k, r) =
          LET bb == (b - Y) % U32
              ss == (t - Delta) % U32
              aa == (a - XorWord(Mix(bb), LowKey(k, ss))) % U32
          IN  <<aa, bb, ss>>
    BY <1>7, <2>2 DEF DecodeRound
  <2> QED  BY <1>1, <1>13, <1>14, <1>15, <2>1, <2>3
<1> QED  BY <1>4, <1>6, <1>10, <1>11, <1>16

\* f are the rounds of a block.
EncodeRounds(f, k, v0, v1) ==
    f = [i \in 0 .. Rounds |->
           IF i = 0 THEN <<v0, v1, 0>> ELSE EncodeRound(k, f[i - 1])]

DecodeRounds(f, k, v0, v1) ==
    f = [i \in 0 .. Rounds |->
           IF i = 0 THEN <<v0, v1, LastSum>> ELSE DecodeRound(k, f[i - 1])]

LEMMA EncodeBlockIs ==
    ASSUME NEW k, NEW v0, NEW v1
    PROVE  LET f == CHOOSE f : EncodeRounds(f, k, v0, v1)
           IN  EncodeBlock(k, v0, v1) =
                 encode_u32_le(f[Rounds][1]) \o encode_u32_le(f[Rounds][2])
BY DEF EncodeBlock, EncodeRounds

LEMMA DecodeBlockIs ==
    ASSUME NEW k, NEW v0, NEW v1
    PROVE  LET f == CHOOSE f : DecodeRounds(f, k, v0, v1)
           IN  DecodeBlock(k, v0, v1) =
                 encode_u32_le(f[Rounds][1]) \o encode_u32_le(f[Rounds][2])
BY DEF DecodeBlock, DecodeRounds

Triples == {<<a, b, s>> : a \in Word, b \in Word, s \in Word}

LEMMA EncodeRoundType ==
    ASSUME NEW k \in Keys, NEW r \in Triples
    PROVE  /\ EncodeRound(k, r) \in Triples
           /\ EncodeRound(k, r)[3] = (r[3] + Delta) % U32
           /\ DecodeRound(k, EncodeRound(k, r)) = r
<1>1. PICK v0 \in Word, v1 \in Word, s \in Word : r = <<v0, v1, s>>
  BY DEF Triples
<1>2. PICK a \in Word, b \in Word :
        /\ EncodeRound(k, <<v0, v1, s>>) = <<a, b, (s + Delta) % U32>>
        /\ DecodeRound(k, <<a, b, (s + Delta) % U32>>) = <<v0, v1, s>>
  BY RoundInverts
<1>3. (s + Delta) % U32 \in Word
  <2>1. s + Delta \in Int
    BY WordFacts
  <2> QED  BY <2>1, WordFacts
<1>4. PICK t : t = (s + Delta) % U32
  BY Zenon
<1>5. EncodeRound(k, r) = <<a, b, t>> /\ DecodeRound(k, <<a, b, t>>) = r /\ r[3] = s
  BY <1>1, <1>2, <1>4
<1>6. <<a, b, t>> \in Triples
  BY <1>3, <1>4 DEF Triples
<1> QED  BY <1>4, <1>5, <1>6

\* The rounds of the encoder exist, stay words, and add Delta up to LastSum.
LEMMA EncodeRoundsExist ==
    ASSUME NEW k \in Keys, NEW v0 \in Word, NEW v1 \in Word
    PROVE  \E f \in [0 .. Rounds -> Triples] :
             /\ EncodeRounds(f, k, v0, v1)
             /\ f = CHOOSE g : EncodeRounds(g, k, v0, v1)
             /\ f[Rounds][3] = LastSum
<1>0. Rounds \in Nat /\ 0 \in Word /\ U32 \in Nat /\ U32 > 0 /\ Delta \in Int
  BY WordFacts DEF Word
<1>1. PICK c : c = <<v0, v1, 0>>
  BY Zenon
<1>2. c \in Triples
  BY <1>0, <1>1 DEF Triples
<1>3. PICK G : G = [i \in 1 .. Rounds |-> [r \in Triples |-> EncodeRound(k, r)]]
  BY Zenon
<1>4. G \in [1 .. Rounds -> [Triples -> Triples]]
  BY <1>3, EncodeRoundType
<1>5. PICK g \in [0 .. Rounds -> Triples] :
        g[0] = c /\ \A i \in 1 .. Rounds : g[i] = G[i][g[i - 1]]
  <2>1. \E g : Recursion(g, Rounds, Triples, c, G)
    BY <1>0, <1>2, <1>4, RecursionTo
  <2>2. PICK g : Recursion(g, Rounds, Triples, c, G)
    BY <2>1, Zenon
  <2> QED  BY <2>2, Zenon DEF Recursion
<1>6. EncodeRounds(g, k, v0, v1)
  <2>1. ASSUME NEW i \in 0 .. Rounds
        PROVE  g[i] = IF i = 0 THEN <<v0, v1, 0>> ELSE EncodeRound(k, g[i - 1])
    <3>1. CASE i = 0
      BY <1>1, <1>5, <3>1
    <3>2. CASE i # 0
      <4>1. i \in 1 .. Rounds /\ i - 1 \in 0 .. Rounds
        BY <1>0, <3>2
      <4>2. g[i - 1] \in Triples
        BY <4>1
      <4>3. G[i][g[i - 1]] = EncodeRound(k, g[i - 1])
        BY <1>3, <4>1, <4>2
      <4> QED  BY <1>5, <3>2, <4>1, <4>3
    <3> QED  BY <3>1, <3>2
  <2> QED  BY <2>1 DEF EncodeRounds
<1>7. PICK f : EncodeRounds(f, k, v0, v1) /\ f = CHOOSE h : EncodeRounds(h, k, v0, v1)
  BY <1>6, Zenon
<1>8. \A i \in 0 .. Rounds :
        f[i] = IF i = 0 THEN <<v0, v1, 0>> ELSE EncodeRound(k, f[i - 1])
  BY <1>7 DEF EncodeRounds
<1> DEFINE S == {i \in Nat : f[i] \in Triples /\ f[i][3] = (i * Delta) % U32}
<1>9. 0 \in S
  <2>1. f[0] = c
    BY <1>0, <1>1, <1>8
  <2>2. c[3] = 0 /\ 0 * Delta = 0
    BY <1>0, <1>1
  <2>3. 0 % U32 = 0
    BY <1>0, SmallMod DEF Word
  <2> QED  BY <1>2, <2>1, <2>2, <2>3
<1>10. ASSUME NEW i \in 1 .. Rounds, i - 1 \in S PROVE i \in S
  <2>1. i \in 0 .. Rounds /\ i # 0 /\ i \in Nat
    BY <1>0
  <2>2. f[i] = EncodeRound(k, f[i - 1])
    BY <1>8, <2>1
  <2>3. f[i - 1] \in Triples /\ f[i - 1][3] = ((i - 1) * Delta) % U32
    BY <1>10
  <2>4. f[i] \in Triples /\ f[i][3] = (f[i - 1][3] + Delta) % U32
    BY <2>2, <2>3, EncodeRoundType
  <2>5. PICK x : x = (i - 1) * Delta
    BY Zenon
  <2>6. x \in Int /\ x + Delta = i * Delta
    BY <1>0, <2>5
  <2>7. ((x % U32) + Delta) % U32 = (x + Delta) % U32
    BY <1>0, <2>6, AddMod
  <2> QED  BY <2>1, <2>3, <2>4, <2>5, <2>6, <2>7
<1>11. \A i \in 0 .. Rounds : i \in S
  <2> HIDE DEF S
  <2> QED  BY <1>0, <1>9, <1>10, InductionTo
<1>12. f \in [0 .. Rounds -> Triples]
  <2>1. f = [i \in 0 .. Rounds |-> f[i]]
    BY <1>7 DEF EncodeRounds
  <2> QED  BY <1>11, <2>1
<1>13. f[Rounds][3] = LastSum
  BY <1>0, <1>11 DEF LastSum
<1> QED  BY <1>7, <1>12, <1>13

\* The rounds of the decoder are those of the encoder backwards.
LEMMA RoundsInvert ==
    ASSUME NEW k \in Keys, NEW v0 \in Word, NEW v1 \in Word
    PROVE  \E a, b \in Word :
             /\ EncodeBlock(k, v0, v1) = encode_u32_le(a) \o encode_u32_le(b)
             /\ DecodeBlock(k, a, b) = encode_u32_le(v0) \o encode_u32_le(v1)
<1>0. Rounds \in Nat
  BY WordFacts
<1>1. PICK f \in [0 .. Rounds -> Triples] :
        /\ EncodeRounds(f, k, v0, v1)
        /\ f = CHOOSE g : EncodeRounds(g, k, v0, v1)
        /\ f[Rounds][3] = LastSum
  BY EncodeRoundsExist
<1>2. PICK a \in Word, b \in Word, s \in Word : f[Rounds] = <<a, b, s>>
  <2>1. f[Rounds] \in Triples
    BY <1>0
  <2> QED  BY <2>1 DEF Triples
<1>3. f[Rounds][1] = a /\ f[Rounds][2] = b /\ f[Rounds] = <<a, b, LastSum>>
  <2>1. PICK r : r = f[Rounds]
    BY Zenon
  <2>2. r = <<a, b, s>> /\ r[3] = LastSum
    BY <1>1, <1>2, <2>1
  <2>3. r[1] = a /\ r[2] = b /\ r[3] = s
    BY <2>2
  <2> QED  BY <2>1, <2>2, <2>3
<1>4. EncodeBlock(k, v0, v1) = encode_u32_le(a) \o encode_u32_le(b)
  BY <1>1, <1>3, EncodeBlockIs
<1>5. \A i \in 0 .. Rounds :
        f[i] = IF i = 0 THEN <<v0, v1, 0>> ELSE EncodeRound(k, f[i - 1])
  BY <1>1 DEF EncodeRounds
<1>6. PICK g : g = [i \in 0 .. Rounds |-> f[Rounds - i]]
  BY Zenon
<1>7. ASSUME NEW i \in 0 .. Rounds
      PROVE  g[i] = IF i = 0 THEN <<a, b, LastSum>> ELSE DecodeRound(k, g[i - 1])
  <2>1. CASE i = 0
    <3>1. Rounds - 0 = Rounds /\ 0 \in 0 .. Rounds
      BY <1>0
    <3> QED  BY <1>3, <1>6, <2>1, <3>1
  <2>2. CASE i # 0
    <3>1. PICK j \in 0 .. Rounds : j = Rounds - i
      BY <1>0
    <3>2. j + 1 \in 0 .. Rounds /\ j + 1 # 0 /\ (j + 1) - 1 = j
          /\ Rounds - (i - 1) = j + 1 /\ i - 1 \in 0 .. Rounds
      BY <1>0, <2>2, <3>1
    <3>3. g[i] = f[j] /\ g[i - 1] = f[j + 1]
      BY <1>6, <3>1, <3>2
    <3>4. f[j + 1] = EncodeRound(k, f[j])
      BY <1>5, <3>2
    <3>5. f[j] \in Triples
      OBVIOUS
    <3>6. DecodeRound(k, f[j + 1]) = f[j]
      BY <3>4, <3>5, EncodeRoundType
    <3> QED  BY <2>2, <3>3, <3>6
  <2> QED  BY <2>1, <2>2
<1>8. DecodeRounds(g, k, a, b)
  BY <1>6, <1>7 DEF DecodeRounds
<1>9. PICK h : DecodeRounds(h, k, a, b) /\ h = CHOOSE e : DecodeRounds(e, k, a, b)
  BY <1>8, Zenon
<1>10. \A i \in 0 .. Rounds :
        h[i] = IF i = 0 THEN <<a, b, LastSum>> ELSE DecodeRound(k, h[i - 1])
  BY <1>9 DEF DecodeRounds
<1> DEFINE S == {i \in 0 .. Rounds : h[i] = g[i]}
<1>11. 0 \in S
  BY <1>0, <1>7, <1>10
<1>12. ASSUME NEW i \in 1 .. Rounds, i - 1 \in S PROVE i \in S
  <2>1. i \in 0 .. Rounds /\ i # 0 /\ h[i - 1] = g[i - 1]
    BY <1>0, <1>12
  <2> QED  BY <1>7, <1>10, <2>1
<1>13. \A i \in 0 .. Rounds : i \in S
  <2> HIDE DEF S
  <2> QED  BY <1>0, <1>11, <1>12, InductionTo
<1>14. h[Rounds] = <<v0, v1, 0>>
  <2>1. Rounds \in 0 .. Rounds /\ Rounds - Rounds = 0 /\ 0 \in 0 .. Rounds
    BY <1>0
  <2>2. h[Rounds] = f[0]
    BY <1>6, <1>13, <2>1
  <2> QED  BY <1>5, <2>1, <2>2
<1>15. h[Rounds][1] = v0 /\ h[Rounds][2] = v1
  BY <1>14
<1>16. DecodeBlock(k, a, b) = encode_u32_le(v0) \o encode_u32_le(v1)
  BY <1>9, <1>15, DecodeBlockIs
<1> QED  BY <1>4, <1>16

-----------------------------------------------------------------------------
(***************************************************************************)
(* Bytes that are decoded and encoded again.                               *)
(***************************************************************************)

LEMMA EncodeDecodeU16 ==
    ASSUME NEW data \in Seq(Byte), NEW at \in Nat, NEW h \in Int
    PROVE  LET w == encode_u16_le(decode_u16_le(data, at) + U16 * h)
           IN  w[1] = ByteAt(data, at) /\ w[2] = ByteAt(data, at + 1)
<1>0. ByteMod \in Nat /\ ByteMod > 0 /\ U16 = ByteMod * ByteMod
  BY ByteFacts
<1>1. PICK x : x = ByteAt(data, at)
  BY Zenon
<1>2. PICK y : y = ByteAt(data, at + 1)
  BY Zenon
<1>3. x \in 0 .. ByteMod - 1 /\ y \in 0 .. ByteMod - 1
  <2>1. at + 1 \in Nat
    OBVIOUS
  <2> QED  BY <1>1, <1>2, <2>1, DecodeTypes, ByteFacts
<1>4. PICK v : v = decode_u16_le(data, at) + U16 * h
  BY Zenon
<1>5. PICK p : p = ByteMod * h + y
  BY Zenon
<1>6. p \in Int /\ v = ByteMod * p + x
  <2>1. ByteMod * (ByteMod * h + y) = (ByteMod * ByteMod) * h + ByteMod * y
    BY <1>0, <1>3
  <2>2. v = (x + ByteMod * y) + (ByteMod * ByteMod) * h
    BY <1>0, <1>1, <1>2, <1>4 DEF decode_u16_le
  <2>3. ByteMod * y \in Int /\ (ByteMod * ByteMod) * h \in Int /\ ByteMod * h \in Int
    BY <1>0, <1>3
  <2> QED  BY <1>3, <1>5, <2>1, <2>2, <2>3
<1>7. v % ByteMod = x /\ v \div ByteMod = p
  BY <1>0, <1>3, <1>6, DivModUnique
<1>8. p % ByteMod = y
  BY <1>0, <1>3, <1>5, DivModUnique
<1>9. encode_u16_le(v) = <<x, y>>
  BY <1>7, <1>8 DEF encode_u16_le
<1> QED  BY <1>1, <1>2, <1>4, <1>9

LEMMA EncodeDecodeU32 ==
    ASSUME NEW data \in Seq(Byte), NEW at \in Nat, NEW i \in 1 .. 4
    PROVE  encode_u32_le(decode_u32_le(data, at))[i] = ByteAt(data, at + i - 1)
<1>0. U16 \in Nat /\ U16 > 0
  BY ByteFacts
<1>1. PICK l : l = decode_u16_le(data, at)
  BY Zenon
<1>2. PICK h : h = decode_u16_le(data, at + 2)
  BY Zenon
<1>3. l \in 0 .. U16 - 1 /\ h \in 0 .. U16 - 1
  <2>1. at + 2 \in Nat
    OBVIOUS
  <2> QED  BY <1>1, <1>2, <2>1, DecodeTypes
<1>4. PICK v : v = l + U16 * h
  BY Zenon
<1>5. v = decode_u32_le(data, at) /\ v \in Int
  BY <1>0, <1>1, <1>2, <1>3, <1>4 DEF decode_u32_le
<1>6. v \div U16 = h
  <2>1. v = U16 * h + l
    BY <1>0, <1>3, <1>4
  <2> QED  BY <1>0, <1>3, <2>1, DivModUnique
<1>7. PICK x : x = encode_u16_le(v)
  BY Zenon
<1>8. PICK y : y = encode_u16_le(h)
  BY Zenon
<1>9. x[1] = ByteAt(data, at) /\ x[2] = ByteAt(data, at + 1)
  <2>1. h \in Int
    BY <1>3
  <2> QED  BY <1>1, <1>4, <1>7, <2>1, EncodeDecodeU16
<1>10. y[1] = ByteAt(data, at + 2) /\ y[2] = ByteAt(data, at + 2 + 1)
  <2>1. at + 2 \in Nat /\ 0 \in Int
    OBVIOUS
  <2>2. h + U16 * 0 = h
    BY <1>0, <1>3
  <2> QED  BY <1>2, <1>8, <2>1, <2>2, EncodeDecodeU16
<1>11. PICK w : w = encode_u32_le(v)
  BY Zenon
<1>12. w[1] = x[1] /\ w[2] = x[2] /\ w[1 + 2] = y[1] /\ w[2 + 2] = y[2]
  BY <1>5, <1>6, <1>7, <1>8, <1>11, EncodeU32
<1>13. /\ at + 1 - 1 = at /\ at + 2 - 1 = at + 1 /\ at + 3 - 1 = at + 2
       /\ at + 4 - 1 = at + 2 + 1 /\ 1 + 2 = 3 /\ 2 + 2 = 4
  OBVIOUS
<1>14. i = 1 \/ i = 2 \/ i = 3 \/ i = 4
  OBVIOUS
<1> QED  BY <1>5, <1>9, <1>10, <1>11, <1>12, <1>13, <1>14

-----------------------------------------------------------------------------
(***************************************************************************)
(* Sequences put together.                                                 *)
(***************************************************************************)

\* What FlattenSeq does, step by step.
Flattens(f, seqs) ==
    f = [i \in 1 .. Len(seqs) |->
           IF i = 1 THEN seqs[i] ELSE f[i - 1] \o seqs[i]]

LEMMA FlattenSeqIs ==
    ASSUME NEW seqs, Len(seqs) # 0
    PROVE  FlattenSeq(seqs) = (CHOOSE f : Flattens(f, seqs))[Len(seqs)]
BY DEF FlattenSeq, Flattens

LEMMA FlattenSteps ==
    ASSUME NEW T, NEW seqs \in Seq(Seq(T))
    PROVE  \E f \in [0 .. Len(seqs) -> Seq(T)] :
             /\ f[0] = <<>>
             /\ \A i \in 1 .. Len(seqs) : f[i] = f[i - 1] \o seqs[i]
             /\ FlattenSeq(seqs) = f[Len(seqs)]
<1> DEFINE n == Len(seqs)
<1>0. n \in Nat
  OBVIOUS
<1>1. PICK G : G = [i \in 1 .. n |-> [s \in Seq(T) |-> s \o seqs[i]]]
  BY Zenon
<1>2. G \in [1 .. n -> [Seq(T) -> Seq(T)]]
  <2>1. ASSUME NEW i \in 1 .. n, NEW s \in Seq(T) PROVE s \o seqs[i] \in Seq(T)
    <3>1. seqs[i] \in Seq(T)
      BY ElementOf
    <3> QED  BY <3>1
  <2> QED  BY <1>1, <2>1
<1>3. PICK c \in Seq(T) : c = <<>>
  <2>1. <<>> \in Seq(T)
    OBVIOUS
  <2> QED  BY <2>1, Zenon
<1>4. PICK f \in [0 .. n -> Seq(T)] :
        f[0] = <<>> /\ \A i \in 1 .. n : f[i] = G[i][f[i - 1]]
  <2>1. \E f \in [0 .. n -> Seq(T)] :
          f[0] = c /\ \A i \in 1 .. n : f[i] = G[i][f[i - 1]]
    <3>1. PICK V : V = Seq(T)
      BY Zenon
    <3>2. c \in V
      BY <3>1
    <3>3. PICK m : m = n
      BY Zenon
    <3>4. m \in Nat
      BY <1>0, <3>3
    <3>5. G \in [1 .. m -> [V -> V]]
      BY <1>2, <3>1, <3>3
    <3>6. \E f : Recursion(f, m, V, c, G)
      BY <3>2, <3>4, <3>5, RecursionTo
    <3> QED  BY <3>1, <3>3, <3>6 DEF Recursion
  <2> QED  BY <1>3, <2>1
<1>5. ASSUME NEW i \in 1 .. n PROVE f[i] = f[i - 1] \o seqs[i]
  <2>1. f[i - 1] \in Seq(T)
    <3>1. i - 1 \in 0 .. n
      BY <1>0
    <3> QED  BY <1>4, <3>1, Zenon
  <2>2. G[i][f[i - 1]] = f[i - 1] \o seqs[i]
    BY <1>1, <2>1
  <2> QED  BY <1>4, <2>2
<1>6. CASE n = 0
  <2>1. FlattenSeq(seqs) = <<>>
    BY <1>6 DEF FlattenSeq
  <2> QED  BY <1>4, <1>5, <1>6, <2>1
<1>7. CASE n # 0
  <2>1. PICK g : g = [i \in 1 .. n |-> f[i]]
    BY Zenon
  <2>2. ASSUME NEW i \in 1 .. n
        PROVE  f[i] = IF i = 1 THEN seqs[i] ELSE f[i - 1] \o seqs[i]
    <3>1. CASE i = 1
      <4>1. f[1] = f[0] \o seqs[1]
        <5>1. f[i] = f[i - 1] \o seqs[i]
          BY <1>5
        <5>2. i - 1 = 0
          BY <3>1
        <5> QED  BY <3>1, <5>1, <5>2
      <4>2. seqs[1] \in Seq(T)
        BY <3>1, ElementOf
      <4>3. <<>> \o seqs[1] = seqs[1]
        BY <4>2
      <4> QED  BY <1>4, <3>1, <4>1, <4>3
    <3>2. CASE i # 1
      BY <1>5, <3>2
    <3> QED  BY <3>1, <3>2
  <2>3. Flattens(g, seqs)
    <3>1. ASSUME NEW i \in 1 .. n, i # 1 PROVE g[i - 1] = f[i - 1]
      <4>1. i - 1 \in 1 .. n
        BY <3>1
      <4> QED  BY <2>1, <4>1
    <3>2. ASSUME NEW i \in 1 .. n
          PROVE  g[i] = IF i = 1 THEN seqs[i] ELSE g[i - 1] \o seqs[i]
      BY <2>1, <2>2, <3>1
    <3> QED  BY <2>1, <3>2 DEF Flattens
  <2>4. PICK h : Flattens(h, seqs) /\ h = CHOOSE e : Flattens(e, seqs)
    BY <2>3, Zenon
  <2>5. \A i \in 1 .. n : h[i] = IF i = 1 THEN seqs[i] ELSE h[i - 1] \o seqs[i]
    BY <2>4 DEF Flattens
  <2> DEFINE S == {0} \cup {i \in 1 .. n : h[i] = f[i]}
  <2>6. ASSUME NEW i \in 1 .. n, i - 1 \in S PROVE i \in S
    <3>1. i # 1 => h[i - 1] = f[i - 1]
      BY <2>6
    <3>2. h[i] = f[i]
      BY <2>2, <2>5, <3>1
    <3> QED  BY <3>2
  <2>7. \A i \in 0 .. n : i \in S
    <3>1. 0 \in S
      OBVIOUS
    <3> HIDE DEF S
    <3> QED  BY <1>0, <2>6, <3>1, InductionTo
  <2>8. h[n] = f[n]
    BY <1>0, <1>7, <2>7
  <2>9. FlattenSeq(seqs) = f[n]
    BY <1>7, <2>4, <2>8, FlattenSeqIs
  <2> QED  BY <1>4, <1>5, <2>9
<1> QED  BY <1>6, <1>7

\* Blocks of the same length w lie one after the other.
Blocks(d, T, w, seqs) ==
    /\ d \in Seq(T) /\ Len(d) = w * Len(seqs)
    /\ \A i \in 1 .. Len(seqs), j \in 1 .. w : d[w * (i - 1) + j] = seqs[i][j]

LEMMA FlattenBlocks ==
    ASSUME NEW T, NEW w \in Nat, NEW seqs \in Seq(Seq(T)),
           \A i \in 1 .. Len(seqs) : Len(seqs[i]) = w
    PROVE  Blocks(FlattenSeq(seqs), T, w, seqs)
<1> DEFINE n == Len(seqs)
<1>0. n \in Nat
  OBVIOUS
<1>1. PICK f \in [0 .. n -> Seq(T)] :
        /\ f[0] = <<>>
        /\ \A i \in 1 .. n : f[i] = f[i - 1] \o seqs[i]
        /\ FlattenSeq(seqs) = f[n]
  BY FlattenSteps
<1> DEFINE S == {m \in 0 .. n :
                   /\ Len(f[m]) = w * m
                   /\ \A i \in 1 .. m, j \in 1 .. w : f[m][w * (i - 1) + j] = seqs[i][j]}
<1>2. 0 \in S
  <2>1. Len(f[0]) = w * 0
    BY <1>1
  <2> QED  BY <1>0, <2>1
<1>3. ASSUME NEW m \in 1 .. n, m - 1 \in S PROVE m \in S
  <2>1. m - 1 \in 0 .. n /\ Len(f[m - 1]) = w * (m - 1)
    BY <1>3
  <2>2. PICK x : x = f[m - 1]
    BY Zenon
  <2>3. PICK y : y = seqs[m]
    BY Zenon
  <2>4. x \in Seq(T) /\ y \in Seq(T) /\ f[m] = x \o y
    <3>1. y \in Seq(T)
      BY <2>3, ElementOf
    <3> QED  BY <1>1, <2>1, <2>2, <2>3, <3>1
  <2>5. Len(x) = w * (m - 1) /\ Len(y) = w
    BY <2>1, <2>2, <2>3
  <2>6. w * (m - 1) \in Nat /\ w * (m - 1) + w = w * m
    BY <1>0
  <2>7. Len(f[m]) = w * m
    <3>1. Len(x \o y) = Len(x) + Len(y)
      BY <2>4
    <3> QED  BY <2>4, <2>5, <2>6, <3>1
  <2>8. ASSUME NEW i \in 1 .. m, NEW j \in 1 .. w
        PROVE  f[m][w * (i - 1) + j] = seqs[i][j]
    <3>1. w * (i - 1) \in Nat
      BY <1>0
    <3>2. CASE i = m
      <4>1. w * (i - 1) + j = Len(x) + j /\ j \in 1 .. Len(y)
        BY <2>5, <3>2
      <4>2. (x \o y)[Len(x) + j] = y[j]
        BY <2>4, <4>1
      <4> QED  BY <2>3, <2>4, <3>2, <4>1, <4>2
    <3>3. CASE i # m
      <4>1. i \in 1 .. m - 1
        BY <3>3
      <4>2. w * (i - 1) + w <= w * (m - 1)
        <5>1. w * i <= w * (m - 1)
          BY <1>0, <4>1
        <5>2. w * (i - 1) + w = w * i
          BY <1>0
        <5> QED  BY <5>1, <5>2
      <4>3. w * (i - 1) + j \in 1 .. Len(x)
        <5>1. PICK z : z = w * (i - 1)
          BY Zenon
        <5>2. PICK y2 : y2 = w * (m - 1)
          BY Zenon
        <5>3. z \in Nat /\ y2 \in Nat /\ z + w <= y2 /\ Len(x) = y2
          BY <2>5, <2>6, <3>1, <4>2, <5>1, <5>2
        <5>4. z + j \in 1 .. Len(x)
          BY <5>3
        <5> QED  BY <5>1, <5>4
      <4>4. (x \o y)[w * (i - 1) + j] = x[w * (i - 1) + j]
        BY <2>4, <4>3
      <4>5. x[w * (i - 1) + j] = seqs[i][j]
        BY <1>3, <2>2, <4>1
      <4> QED  BY <2>4, <4>4, <4>5
    <3> QED  BY <3>2, <3>3
  <2>9. m \in 0 .. n
    BY <1>0
  <2> QED  BY <2>7, <2>8, <2>9
<1>4. n \in S
  <2> HIDE DEF S
  <2>1. \A m \in 0 .. n : m \in S
    BY <1>0, <1>2, <1>3, InductionTo
  <2> QED  BY <1>0, <2>1
<1>5. f[n] \in Seq(T)
  BY <1>0, <1>1
<1> QED  BY <1>1, <1>4, <1>5 DEF Blocks

-----------------------------------------------------------------------------
(***************************************************************************)
(* The cipher on whole blocks.                                             *)
(***************************************************************************)

LEMMA TwoWords ==
    ASSUME NEW a \in Int, NEW b \in Int
    PROVE  LET w == encode_u32_le(a) \o encode_u32_le(b)
           IN  /\ w \in Seq(Byte) /\ Len(w) = 8
               /\ \A i \in 1 .. 4 : w[i] = encode_u32_le(a)[i]
               /\ \A i \in 1 .. 4 : w[i + 4] = encode_u32_le(b)[i]
<1>1. PICK x : x = encode_u32_le(a)
  BY Zenon
<1>2. PICK y : y = encode_u32_le(b)
  BY Zenon
<1>3. x \in Seq(Byte) /\ y \in Seq(Byte) /\ Len(x) = 4 /\ Len(y) = 4
  BY <1>1, <1>2, EncodeU32
<1>4. /\ x \o y \in Seq(Byte) /\ Len(x \o y) = 8
      /\ \A i \in 1 .. 4 : (x \o y)[i] = x[i]
      /\ \A i \in 1 .. 4 : (x \o y)[i + 4] = y[i]
  <2>1. PICK z : z = x \o y
    BY Zenon
  <2>2. /\ z \in Seq(Byte) /\ Len(z) = Len(x) + Len(y)
        /\ \A i \in 1 .. Len(x) : z[i] = x[i]
        /\ \A i \in 1 .. Len(y) : z[Len(x) + i] = y[i]
    <3>1. Joined(z, Byte, x, y)
      BY <1>3, <2>1, ConcatFacts
    <3> QED  BY <3>1 DEF Joined
  <2>3. \A i \in 1 .. 4 : i + 4 = 4 + i
    OBVIOUS
  <2> QED  BY <1>3, <2>1, <2>2, <2>3
<1> QED  BY <1>1, <1>2, <1>4

\* Where an encoded block lies in memory, the decoder finds the plain words.
LEMMA BlockInverts ==
    ASSUME NEW k \in Keys, NEW v0 \in Word, NEW v1 \in Word
    PROVE  /\ EncodeBlock(k, v0, v1) \in Seq(Byte)
           /\ Len(EncodeBlock(k, v0, v1)) = 8
           /\ \A data : \A at \in Nat : Holds(data, at, EncodeBlock(k, v0, v1)) =>
                DecodeBlock(k, decode_u32_le(data, at), decode_u32_le(data, at + 4))
                  = encode_u32_le(v0) \o encode_u32_le(v1)
<1>1. PICK a \in Word, b \in Word :
        /\ EncodeBlock(k, v0, v1) = encode_u32_le(a) \o encode_u32_le(b)
        /\ DecodeBlock(k, a, b) = encode_u32_le(v0) \o encode_u32_le(v1)
  BY RoundsInvert
<1>2. PICK w : w = EncodeBlock(k, v0, v1)
  BY Zenon
<1>3. PICK x : x = encode_u32_le(a)
  BY Zenon
<1>4. PICK y : y = encode_u32_le(b)
  BY Zenon
<1>5. a \in Int /\ b \in Int /\ a \in 0 .. U32 - 1 /\ b \in 0 .. U32 - 1
  BY WordFacts DEF Word
<1>6. /\ w \in Seq(Byte) /\ Len(w) = 8 /\ Len(x) = 4 /\ Len(y) = 4
      /\ \A i \in 1 .. 4 : w[i] = x[i]
      /\ \A i \in 1 .. 4 : w[i + 4] = y[i]
  <2>1. w = encode_u32_le(a) \o encode_u32_le(b)
    BY <1>1, <1>2
  <2>2. /\ w \in Seq(Byte) /\ Len(w) = 8
        /\ \A i \in 1 .. 4 : w[i] = encode_u32_le(a)[i]
        /\ \A i \in 1 .. 4 : w[i + 4] = encode_u32_le(b)[i]
    BY <1>5, <2>1, TwoWords
  <2>3. Len(x) = 4 /\ Len(y) = 4
    BY <1>3, <1>4, <1>5, EncodeU32
  <2> QED  BY <1>3, <1>4, <2>2, <2>3
<1>7. ASSUME NEW data, NEW at \in Nat, Holds(data, at, w)
      PROVE  decode_u32_le(data, at) = a /\ decode_u32_le(data, at + 4) = b
  <2>1. \A i \in 1 .. 8 : ByteAt(data, at + i - 1) = w[i]
    BY <1>6, <1>7 DEF Holds
  <2>2. Holds(data, at, x)
    BY <1>6, <2>1, SMTT(40) DEF Holds
  <2>3. Holds(data, at + 4, y)
    <3>1. ASSUME NEW i \in 1 .. 4 PROVE ByteAt(data, at + 4 + i - 1) = y[i]
      <4>1. i + 4 \in 1 .. 8 /\ at + (i + 4) - 1 = at + 4 + i - 1
        OBVIOUS
      <4> QED  BY <1>6, <2>1, <4>1
    <3> QED  BY <1>6, <3>1 DEF Holds
  <2>4. at + 4 \in Nat
    OBVIOUS
  <2> QED  BY <1>3, <1>4, <1>5, <2>2, <2>3, <2>4, DecodeU32
<1> QED  BY <1>1, <1>2, <1>6, <1>7

\* The eight bytes at `at', read as two words and written again.
LEMMA RewriteBlock ==
    ASSUME NEW data \in Seq(Byte), NEW at \in Nat, NEW j \in 1 .. 8,
           at + 8 <= Len(data)
    PROVE  (encode_u32_le(decode_u32_le(data, at))
              \o encode_u32_le(decode_u32_le(data, at + 4)))[j] = data[at + j]
<1>1. PICK a : a = decode_u32_le(data, at)
  BY Zenon
<1>2. PICK b : b = decode_u32_le(data, at + 4)
  BY Zenon
<1>3. at + 4 \in Nat /\ U32 \in Nat
  BY ByteFacts
<1>4. a \in Int /\ b \in Int
  BY <1>1, <1>2, <1>3, DecodeTypes
<1>5. PICK w : w = encode_u32_le(a) \o encode_u32_le(b)
  BY Zenon
<1>6. /\ \A i \in 1 .. 4 : w[i] = encode_u32_le(a)[i]
      /\ \A i \in 1 .. 4 : w[i + 4] = encode_u32_le(b)[i]
  BY <1>4, <1>5, TwoWords
<1>7. CASE j \in 1 .. 4
  <2>1. w[j] = ByteAt(data, at + j - 1)
    BY <1>1, <1>6, <1>7, EncodeDecodeU32
  <2>2. at + j - 1 \in 0 .. Len(data) - 1 /\ at + j - 1 + 1 = at + j
    OBVIOUS
  <2> QED  BY <1>1, <1>2, <1>5, <2>1, <2>2 DEF ByteAt
<1>8. CASE j \in 5 .. 8
  <2>1. PICK i \in 1 .. 4 : j = i + 4
    <3>1. j - 4 \in 1 .. 4 /\ j = (j - 4) + 4
      BY <1>8
    <3> QED  BY <3>1
  <2>2. w[j] = ByteAt(data, (at + 4) + i - 1)
    BY <1>2, <1>3, <1>6, <2>1, EncodeDecodeU32
  <2>3. (at + 4) + i - 1 \in 0 .. Len(data) - 1 /\ (at + 4) + i - 1 + 1 = at + j
    BY <2>1
  <2> QED  BY <1>1, <1>2, <1>5, <2>2, <2>3 DEF ByteAt
<1>9. j \in 1 .. 4 \/ j \in 5 .. 8
  OBVIOUS
<1> QED  BY <1>7, <1>8, <1>9

\* What a client decodes with the key the server encoded with, block by block
\* over messages of any length and for any number of rounds, is what was
\* encoded (xtea_encode and xtea_decode of crypto/xtea.c).
THEOREM XteaInverts ==
    ASSUME NEW k \in Keys, NEW data \in Seq(Byte), NEW N \in Nat, Len(data) = 8 * N
    PROVE  /\ xtea_encode(k, data) \in Seq(Byte)
           /\ Len(xtea_encode(k, data)) = Len(data)
           /\ xtea_decode(k, xtea_encode(k, data)) = data
<1> DEFINE V0(n) == decode_u32_le(data, 8 * (n - 1))
           V1(n) == decode_u32_le(data, 8 * (n - 1) + 4)
<1>1. Len(data) \div 8 = N
  OBVIOUS
<1>2. PICK encs : encs = [n \in 1 .. N |-> EncodeBlock(k, V0(n), V1(n))]
  BY Zenon
<1>3. PICK e : e = xtea_encode(k, data)
  BY Zenon
<1>4. e = FlattenSeq(encs)
  BY <1>1, <1>2, <1>3 DEF xtea_encode
<1>5. ASSUME NEW n \in 1 .. N PROVE V0(n) \in Word /\ V1(n) \in Word
  <2>1. 8 * (n - 1) \in Nat /\ 8 * (n - 1) + 4 \in Nat
    OBVIOUS
  <2> QED  BY <2>1, DecodeTypes DEF Word
<1> HIDE DEF V0, V1
<1>6. encs \in Seq(Seq(Byte)) /\ Len(encs) = N
      /\ \A i \in 1 .. Len(encs) : Len(encs[i]) = 8
  <2>1. ASSUME NEW n \in 1 .. N
        PROVE  encs[n] \in Seq(Byte) /\ Len(encs[n]) = 8
    BY <1>2, <1>5, BlockInverts
  <2>2. encs \in [1 .. N -> Seq(Byte)]
    BY <1>2, <2>1
  <2>3. encs \in Seq(Seq(Byte)) /\ Len(encs) = N
    BY <2>2, FunctionIsSeq
  <2> QED  BY <2>1, <2>3
<1>7. /\ e \in Seq(Byte) /\ Len(e) = 8 * N
      /\ \A i \in 1 .. N, j \in 1 .. 8 : e[8 * (i - 1) + j] = encs[i][j]
  <2>1. 8 \in Nat
    OBVIOUS
  <2>2. Blocks(e, Byte, 8, encs)
    BY <1>4, <1>6, <2>1, FlattenBlocks
  <2> QED  BY <1>6, <2>2 DEF Blocks
<1>8. Len(e) \div 8 = N
  BY <1>7
<1>9. ASSUME NEW n \in 1 .. N
      PROVE  DecodeBlock(k, decode_u32_le(e, 8 * (n - 1)),
                            decode_u32_le(e, 8 * (n - 1) + 4))
               = encode_u32_le(V0(n)) \o encode_u32_le(V1(n))
  <2>1. PICK w : w = EncodeBlock(k, V0(n), V1(n))
    BY Zenon
  <2>2. PICK at : at = 8 * (n - 1)
    BY Zenon
  <2>3. at \in Nat /\ at + 8 <= 8 * N
    BY <2>2
  <2>4. encs[n] = w /\ Len(w) = 8
    BY <1>2, <1>6, <2>1
  <2>5. ASSUME NEW i \in 1 .. 8 PROVE ByteAt(e, at + i - 1) = w[i]
    <3>1. e[at + i] = w[i]
      BY <1>7, <2>2, <2>4
    <3>2. at + i - 1 \in 0 .. Len(e) - 1 /\ at + i - 1 + 1 = at + i
      BY <1>7, <2>3
    <3> QED  BY <3>1, <3>2 DEF ByteAt
  <2>6. Holds(e, at, w)
    BY <2>4, <2>5 DEF Holds
  <2> QED  BY <1>5, <2>1, <2>2, <2>3, <2>6, BlockInverts
<1>10. PICK decs : decs = [n \in 1 .. N |->
          encode_u32_le(V0(n)) \o encode_u32_le(V1(n))]
  BY Zenon
<1>11. xtea_decode(k, e) = FlattenSeq(decs)
  <2>1. [n \in 1 .. N |-> DecodeBlock(k, decode_u32_le(e, 8 * (n - 1)),
                                       decode_u32_le(e, 8 * (n - 1) + 4))] = decs
    BY <1>9, <1>10
  <2> QED  BY <1>8, <2>1 DEF xtea_decode
<1>12. decs \in Seq(Seq(Byte)) /\ Len(decs) = N
      /\ \A i \in 1 .. Len(decs) : Len(decs[i]) = 8
  <2>1. ASSUME NEW n \in 1 .. N
        PROVE  decs[n] \in Seq(Byte) /\ Len(decs[n]) = 8
    <3>1. V0(n) \in Int /\ V1(n) \in Int
      <4>1. V0(n) \in Word /\ V1(n) \in Word
        BY <1>5
      <4> QED  BY <4>1, WordFacts DEF Word
    <3> QED  BY <1>10, <3>1, TwoWords
  <2>2. decs \in [1 .. N -> Seq(Byte)]
    BY <1>10, <2>1
  <2>3. decs \in Seq(Seq(Byte)) /\ Len(decs) = N
    BY <2>2, FunctionIsSeq
  <2> QED  BY <2>1, <2>3
<1>13. PICK d : d = FlattenSeq(decs)
  BY Zenon
<1>14. /\ d \in Seq(Byte) /\ Len(d) = 8 * N
       /\ \A i \in 1 .. N, j \in 1 .. 8 : d[8 * (i - 1) + j] = decs[i][j]
  <2>1. 8 \in Nat
    OBVIOUS
  <2>2. Blocks(d, Byte, 8, decs)
    BY <1>12, <1>13, <2>1, FlattenBlocks
  <2> QED  BY <1>12, <2>2 DEF Blocks
<1>15. ASSUME NEW p \in 1 .. 8 * N PROVE d[p] = data[p]
  <2>1. PICK i \in 1 .. N, j \in 1 .. 8 : p = 8 * (i - 1) + j
    <3>1. PICK q : q = (p - 1) \div 8
      BY Zenon
    <3>2. PICK r : r = (p - 1) % 8
      BY Zenon
    <3>3. q \in Int /\ r \in 0 .. 7 /\ p - 1 = 8 * q + r
      BY <3>1, <3>2
    <3>4. PICK i : i = q + 1
      BY Zenon
    <3>5. PICK j : j = r + 1
      BY Zenon
    <3>6. i \in Int /\ j \in 1 .. 8 /\ p = 8 * (i - 1) + j
      BY <3>3, <3>4, <3>5
    <3>7. i \in 1 .. N
      BY <3>6
    <3> QED  BY <3>6, <3>7
  <2>2. 8 * (i - 1) \in Nat /\ 8 * (i - 1) + 8 <= Len(data)
    OBVIOUS
  <2>3. decs[i][j] = data[8 * (i - 1) + j]
    BY <1>10, <2>2, RewriteBlock DEF V0, V1
  <2> QED  BY <1>14, <2>1, <2>3
<1>16. d = data
  BY <1>14, <1>15
<1> QED  BY <1>3, <1>7, <1>11, <1>13, <1>16

-----------------------------------------------------------------------------
(***************************************************************************)
(* The checksum: 32 bits are enough for NMAX bytes, and what comes out is  *)
(* Adler-32.                                                               *)
(***************************************************************************)

AdlerStep(bytes, i, s) ==
    LET a == (s[1] + bytes[i]) % U32
        b == (s[2] + a) % U32
    IN  IF i % NMax = 0 \/ i = Len(bytes) THEN <<a % Base, b % Base>> ELSE <<a, b>>

AdlerSums(f, bytes) ==
    f = [i \in 0 .. Len(bytes) |->
           IF i = 0 THEN <<1, 0>> ELSE AdlerStep(bytes, i, f[i - 1])]

WeightStep(bytes, i, s) ==
    <<s[1] + bytes[i], s[2] + (Len(bytes) - i + 1) * bytes[i]>>

Weights(f, bytes) ==
    f = [i \in 0 .. Len(bytes) |->
           IF i = 0 THEN <<0, 0>> ELSE WeightStep(bytes, i, f[i - 1])]

LEMMA AdlerIs ==
    ASSUME NEW bytes
    PROVE  LET f == CHOOSE f : AdlerSums(f, bytes)
           IN  adler32(bytes) = f[Len(bytes)][1] + U16 * f[Len(bytes)][2]
BY DEF adler32, AdlerSums, AdlerStep

LEMMA Adler32Is ==
    ASSUME NEW bytes
    PROVE  LET f == CHOOSE f : Weights(f, bytes)
           IN  Adler32(bytes) = ((1 + f[Len(bytes)][1]) % Base)
                                + U16 * ((Len(bytes) + f[Len(bytes)][2]) % Base)
BY DEF Adler32, Weights, WeightStep

Pairs == {<<a, b>> : a \in Nat, b \in Nat}

LEMMA PairFacts ==
    /\ \A a, b \in Nat : <<a, b>> \in Pairs
    /\ \A p \in Pairs : p[1] \in Nat /\ p[2] \in Nat
BY DEF Pairs

LEMMA AdlerFacts ==
    /\ Base \in Nat /\ Base >= 2 /\ Base <= U16 /\ NMax \in Nat /\ NMax > 0
    /\ (((ByteMod - 1) * NMax * (NMax + 1)) \div 2) + (NMax + 1) * (Base - 1) < U32
BY AdlerAssumption, ByteFacts

LEMMA ByteIsNat ==
    ASSUME NEW bytes \in Seq(Byte), NEW i \in 1 .. Len(bytes)
    PROVE  bytes[i] \in Nat /\ bytes[i] <= ByteMod - 1
<1>1. bytes[i] \in Byte
  BY ElementOf
<1> QED  BY <1>1, ByteFacts

LEMMA AdlerStepType ==
    ASSUME NEW bytes \in Seq(Byte), NEW i \in 1 .. Len(bytes), NEW s \in Pairs
    PROVE  AdlerStep(bytes, i, s) \in Pairs /\ WeightStep(bytes, i, s) \in Pairs
<1>1. s[1] \in Nat /\ s[2] \in Nat /\ bytes[i] \in Nat
  BY PairFacts, ByteIsNat
<1>2. PICK a : a = (s[1] + bytes[i]) % U32
  BY Zenon
<1>3. a \in Nat
  BY <1>1, <1>2, ByteFacts
<1>4. PICK b : b = (s[2] + a) % U32
  BY Zenon
<1>5. b \in Nat
  BY <1>1, <1>3, <1>4, ByteFacts, SMTT(40)
<1>6. a % Base \in Nat /\ b % Base \in Nat
  BY <1>3, <1>5, AdlerFacts
<1>7. AdlerStep(bytes, i, s) \in {<<a % Base, b % Base>>, <<a, b>>}
  BY <1>2, <1>4 DEF AdlerStep
<1>8. AdlerStep(bytes, i, s) \in Pairs
  BY <1>3, <1>5, <1>6, <1>7, PairFacts
<1>9. s[1] + bytes[i] \in Nat /\ s[2] + (Len(bytes) - i + 1) * bytes[i] \in Nat
  <2>1. Len(bytes) - i + 1 \in Nat
    OBVIOUS
  <2>2. PICK x : x = Len(bytes) - i + 1
    BY Zenon
  <2>3. x * bytes[i] \in Nat
    BY <1>1, <2>1, <2>2, SMTT(40)
  <2> QED  BY <1>1, <2>2, <2>3, SMTT(40)
<1> QED  BY <1>8, <1>9, PairFacts, SMTT(40) DEF WeightStep

LEMMA AdlerSumsExist ==
    ASSUME NEW bytes \in Seq(Byte)
    PROVE  (\E f : AdlerSums(f, bytes)) /\ (\E f : Weights(f, bytes))
<1>1. PICK n : n = Len(bytes)
  BY Zenon
<1>2. n \in Nat
  BY <1>1
<1>3. \E f : AdlerSums(f, bytes)
  <2>1. PICK G : G = [i \in 1 .. n |-> [s \in Pairs |-> AdlerStep(bytes, i, s)]]
    BY Zenon
  <2>2. G \in [1 .. n -> [Pairs -> Pairs]]
    BY <1>1, <2>1, AdlerStepType
  <2>3. PICK c : c = <<1, 0>>
    BY Zenon
  <2>4. c \in Pairs
    BY <2>3, PairFacts
  <2>5. PICK f : Recursion(f, n, Pairs, c, G)
    BY <1>2, <2>2, <2>4, RecursionTo
  <2>6. /\ f \in [0 .. n -> Pairs] /\ f[0] = c
        /\ \A i \in 1 .. n : f[i] = G[i][f[i - 1]]
    BY <2>5 DEF Recursion
  <2>7. ASSUME NEW i \in 0 .. n
        PROVE  f[i] = IF i = 0 THEN <<1, 0>> ELSE AdlerStep(bytes, i, f[i - 1])
    <3>1. CASE i = 0
      BY <2>3, <2>6, <3>1
    <3>2. CASE i # 0
      <4>1. i \in 1 .. n /\ i - 1 \in 0 .. n
        BY <1>2, <3>2
      <4>2. f[i - 1] \in Pairs
        BY <2>6, <4>1
      <4>3. G[i][f[i - 1]] = AdlerStep(bytes, i, f[i - 1])
        BY <2>1, <4>1, <4>2
      <4> QED  BY <2>6, <3>2, <4>1, <4>3
    <3> QED  BY <3>1, <3>2
  <2>8. f = [i \in 0 .. n |-> f[i]]
    BY <2>6
  <2> QED  BY <1>1, <2>7, <2>8 DEF AdlerSums
<1>4. \E f : Weights(f, bytes)
  <2>1. PICK G : G = [i \in 1 .. n |-> [s \in Pairs |-> WeightStep(bytes, i, s)]]
    BY Zenon
  <2>2. G \in [1 .. n -> [Pairs -> Pairs]]
    BY <1>1, <2>1, AdlerStepType
  <2>3. PICK c : c = <<0, 0>>
    BY Zenon
  <2>4. c \in Pairs
    BY <2>3, PairFacts
  <2>5. PICK f : Recursion(f, n, Pairs, c, G)
    BY <1>2, <2>2, <2>4, RecursionTo
  <2>6. /\ f \in [0 .. n -> Pairs] /\ f[0] = c
        /\ \A i \in 1 .. n : f[i] = G[i][f[i - 1]]
    BY <2>5 DEF Recursion
  <2>7. ASSUME NEW i \in 0 .. n
        PROVE  f[i] = IF i = 0 THEN <<0, 0>> ELSE WeightStep(bytes, i, f[i - 1])
    <3>1. CASE i = 0
      BY <2>3, <2>6, <3>1
    <3>2. CASE i # 0
      <4>1. i \in 1 .. n /\ i - 1 \in 0 .. n
        BY <1>2, <3>2
      <4>2. f[i - 1] \in Pairs
        BY <2>6, <4>1
      <4>3. G[i][f[i - 1]] = WeightStep(bytes, i, f[i - 1])
        BY <2>1, <4>1, <4>2
      <4> QED  BY <2>6, <3>2, <4>1, <4>3
    <3> QED  BY <3>1, <3>2
  <2>8. f = [i \in 0 .. n |-> f[i]]
    BY <2>6
  <2> QED  BY <1>1, <2>7, <2>8 DEF Weights
<1> QED  BY <1>3, <1>4

\* The numbers behind NMAX.
LEMMA Triangle ==
    ASSUME NEW X \in Nat, NEW m \in Nat, NEW N \in Nat, m <= N
    PROVE  /\ X * (m + 1) * (m + 2) = X * m * (m + 1) + 2 * ((m + 1) * X)
           /\ X * m * (m + 1) <= X * N * (N + 1)
           /\ X * m * (m + 1) \in Nat
<1>1. X * (m + 1) * (m + 2) = X * m * (m + 1) + 2 * ((m + 1) * X)
  OBVIOUS
<1>2. PICK y : y = m * (m + 1)
  BY Zenon
<1>3. PICK z : z = N * (N + 1)
  BY Zenon
<1>4. y \in Nat /\ z \in Nat
  BY <1>2, <1>3
<1>5. y <= z
  <2>1. PICK d : d = N - m
    BY Zenon
  <2>2. d \in Nat /\ N = m + d
    BY <2>1
  <2>3. z = y + d * (2 * m + d + 1)
    BY <1>2, <1>3, <2>2
  <2>4. d * (2 * m + d + 1) \in Nat
    BY <2>2
  <2> QED  BY <1>4, <2>3, <2>4
<1>6. X * y <= X * z /\ X * y \in Nat
  <2>1. PICK d : d = z - y
    BY Zenon
  <2>2. d \in Nat /\ z = y + d
    BY <1>4, <1>5, <2>1
  <2>3. X * z = X * y + X * d /\ X * d \in Nat /\ X * y \in Nat
    BY <1>4, <2>2
  <2> QED  BY <2>3
<1>7. X * m * (m + 1) = X * y /\ X * N * (N + 1) = X * z
  BY <1>2, <1>3
<1> QED  BY <1>1, <1>6, <1>7

\* The sums m bytes after the last reduction.
SmallSums(m, s1, s2) ==
    /\ s1 <= (Base - 1) + m * (ByteMod - 1)
    /\ 2 * s2 <= 2 * ((m + 1) * (Base - 1)) + (ByteMod - 1) * m * (m + 1)

\* After m + 1 bytes since the last reduction the sums are still below 2^32.
LEMMA SumsBounded ==
    ASSUME NEW m \in 0 .. NMax - 1, NEW s1 \in Nat, NEW s2 \in Nat, NEW v \in Nat,
           v <= ByteMod - 1, SmallSums(m, s1, s2)
    PROVE  /\ SmallSums(m + 1, s1 + v, s2 + (s1 + v))
           /\ s1 + v < U32 /\ s2 + (s1 + v) < U32
<1>1. PICK X : X = ByteMod - 1
  BY Zenon
<1>2. PICK D : D = Base - 1
  BY Zenon
<1>3. X \in Nat /\ D \in Nat /\ m \in Nat /\ m + 1 \in Nat /\ m + 1 <= NMax /\ NMax \in Nat
      /\ U32 \in Nat
  BY <1>1, <1>2, ByteFacts, AdlerFacts
<1>4. PICK P : P = m * X
  BY Zenon
<1>5. PICK Q : Q = (m + 1) * D
  BY Zenon
<1>6. PICK T : T = X * m * (m + 1)
  BY Zenon
<1>7. P \in Nat /\ Q \in Nat /\ (m + 1) * X = P + X /\ (m + 2) * D = Q + D
  BY <1>3, <1>4, <1>5
<1>8. PICK T2 : T2 = X * (m + 1) * (m + 2)
  BY Zenon
<1>9. T \in Nat /\ T2 = T + 2 * (P + X)
  <2>1. m <= m
    BY <1>3
  <2>2. T \in Nat /\ T2 = T + 2 * ((m + 1) * X)
    BY <1>3, <1>6, <1>8, <2>1, Triangle
  <2> QED  BY <1>7, <2>2
<1>10. s1 <= D + P /\ 2 * s2 <= 2 * Q + T /\ v <= X
  BY <1>1, <1>2, <1>4, <1>5, <1>6 DEF SmallSums
<1>11. s1 + v <= D + (P + X)
  BY <1>3, <1>7, <1>10
<1>12. 2 * (s2 + (s1 + v)) <= 2 * (Q + D) + T2
  BY <1>3, <1>7, <1>9, <1>10
<1>13. PICK QN : QN = (NMax + 1) * D
  BY Zenon
<1>14. PICK TN : TN = X * NMax * (NMax + 1)
  BY Zenon
<1>15. QN \in Nat /\ Q + D <= QN
  <2>1. PICK d : d = NMax - (m + 1)
    BY Zenon
  <2>2. d \in Nat /\ NMax + 1 = (m + 2) + d
    BY <1>3, <2>1
  <2>3. QN = (m + 2) * D + d * D /\ d * D \in Nat
    BY <1>3, <1>13, <2>2
  <2> QED  BY <1>3, <1>7, <2>3
<1>16. TN \in Nat /\ T2 <= TN
  <2>1. (m + 1) + 1 = m + 2
    BY <1>3
  <2>2. X * (m + 1) * ((m + 1) + 1) <= X * NMax * (NMax + 1)
    BY <1>3, Triangle
  <2>3. NMax <= NMax
    BY <1>3
  <2>4. X * NMax * (NMax + 1) \in Nat
    BY <1>3, <2>3, Triangle
  <2> QED  BY <1>8, <1>14, <2>1, <2>2, <2>4
<1>17. PICK h : h = TN \div 2
  BY Zenon
<1>18. h \in Nat /\ TN <= 2 * h + 1 /\ h + QN < U32
  <2>1. h \in Nat /\ TN <= 2 * h + 1
    BY <1>16, <1>17
  <2>2. h + QN < U32
    BY <1>1, <1>2, <1>13, <1>14, <1>17, AdlerFacts
  <2> QED  BY <2>1, <2>2
<1>19. s2 + (s1 + v) < U32
  <2>1. PICK b : b = s2 + (s1 + v)
    BY Zenon
  <2>2. b \in Nat /\ 2 * b <= 2 * QN + TN
    BY <1>7, <1>9, <1>12, <1>15, <1>16, <1>3, <2>1
  <2>3. b <= QN + h
    BY <1>15, <1>18, <2>2, <1>16
  <2>4. b < U32
    BY <1>3, <1>15, <1>18, <2>2, <2>3
  <2> QED  BY <2>1, <2>4
<1>20. s1 + v < U32
  BY <1>3, <1>19
<1>21. SmallSums(m + 1, s1 + v, s2 + (s1 + v))
  <2>1. (m + 1) + 1 = m + 2
    BY <1>3
  <2> QED  BY <1>1, <1>2, <1>7, <1>8, <1>11, <1>12, <2>1 DEF SmallSums
<1> QED  BY <1>19, <1>20, <1>21

\* Sums s of a prefix of i of n bytes, with the weighted sums w of that prefix.
SumsAgree(i, n, s, w) ==
    /\ s[1] \in Nat /\ s[2] \in Nat /\ w[1] \in Nat /\ w[2] \in Nat
    /\ s[1] % Base = (1 + w[1]) % Base
    /\ s[2] % Base = (i + w[2] - (n - i) * w[1]) % Base
    /\ SmallSums(i % NMax, s[1], s[2])
    /\ i = n => s[1] < Base /\ s[2] < Base

LEMMA NextMod ==
    ASSUME NEW i \in Nat, NEW m \in Nat, m > 0, i > 0, i % m # 0
    PROVE  i % m = ((i - 1) % m) + 1
<1>1. PICK q : q = (i - 1) \div m
  BY Zenon
<1>2. PICK r : r = (i - 1) % m
  BY Zenon
<1>3. i - 1 \in Int
  OBVIOUS
<1>4. q \in Int /\ r \in 0 .. m - 1 /\ i - 1 = m * q + r
  BY <1>1, <1>2, <1>3, DivMod
<1>5. m * q \in Int /\ i = m * q + (r + 1)
  BY <1>4
<1>6. CASE r + 1 = m
  <2>1. i = m * (q + 1) + 0 /\ q + 1 \in Int /\ 0 \in 0 .. m - 1
    BY <1>4, <1>5, <1>6
  <2>2. i % m = 0
    BY <2>1, DivModUnique
  <2> QED  BY <2>2
<1>7. CASE r + 1 # m
  <2>1. r + 1 \in 0 .. m - 1
    BY <1>4, <1>7
  <2>2. (m * q + (r + 1)) % m = r + 1
    BY <1>4, <2>1, DivModUnique
  <2> QED  BY <1>2, <1>5, <2>2
<1> QED  BY <1>6, <1>7

\* Equal remainders stay equal when the same is added.
LEMMA AddSame ==
    ASSUME NEW m \in Nat, m > 0, NEW x \in Int, NEW y \in Int, NEW z \in Int,
           x % m = y % m
    PROVE  (x + z) % m = (y + z) % m
<1>1. ((x % m) + z) % m = (x + z) % m
  BY AddMod
<1>2. ((y % m) + z) % m = (y + z) % m
  BY AddMod
<1> QED  BY <1>1, <1>2

LEMMA ModMod ==
    ASSUME NEW m \in Nat, m > 0, NEW x \in Int
    PROVE  (x % m) % m = x % m
<1>1. x % m \in 0 .. m - 1
  BY DivMod
<1> QED  BY <1>1, SmallMod

LEMMA SumsAgreeStep ==
    ASSUME NEW bytes \in Seq(Byte), NEW i \in 1 .. Len(bytes), NEW s, NEW w,
           SumsAgree(i - 1, Len(bytes), s, w)
    PROVE  SumsAgree(i, Len(bytes), AdlerStep(bytes, i, s), WeightStep(bytes, i, w))
<1>1. PICK n : n = Len(bytes)
  BY Zenon
<1>2. PICK v : v = bytes[i]
  BY Zenon
<1>3. n \in Nat /\ i \in 1 .. n /\ i \in Nat /\ v \in Nat /\ v <= ByteMod - 1
  BY <1>1, <1>2, ByteIsNat
<1>4. PICK s1 : s1 = s[1]
  BY Zenon
<1>5. PICK s2 : s2 = s[2]
  BY Zenon
<1>6. PICK w1 : w1 = w[1]
  BY Zenon
<1>7. PICK w2 : w2 = w[2]
  BY Zenon
<1>8. PICK m : m = (i - 1) % NMax
  BY Zenon
<1>9. /\ s1 \in Nat /\ s2 \in Nat /\ w1 \in Nat /\ w2 \in Nat
      /\ s1 % Base = (1 + w1) % Base
      /\ s2 % Base = ((i - 1) + w2 - (n - (i - 1)) * w1) % Base
      /\ SmallSums(m, s1, s2)
  BY <1>1, <1>4, <1>5, <1>6, <1>7, <1>8 DEF SumsAgree
<1>10. m \in 0 .. NMax - 1 /\ Base \in Nat /\ Base > 0 /\ NMax \in Nat /\ NMax > 0
  BY <1>3, <1>8, AdlerFacts, DivMod
<1>11. PICK a : a = s1 + v
  BY Zenon
<1>12. PICK b : b = s2 + a
  BY Zenon
<1>13. /\ a \in Nat /\ b \in Nat /\ a < U32 /\ b < U32
       /\ SmallSums(m + 1, a, b)
  BY <1>3, <1>9, <1>10, <1>11, <1>12, SumsBounded
<1>14. a % U32 = a /\ b % U32 = b
  <2>1. U32 \in Nat /\ a \in 0 .. U32 - 1 /\ b \in 0 .. U32 - 1
    BY <1>13, ByteFacts
  <2> QED  BY <2>1, SmallMod
<1>15. PICK t : t = AdlerStep(bytes, i, s)
  BY Zenon
<1>16. t = IF i % NMax = 0 \/ i = n THEN <<a % Base, b % Base>> ELSE <<a, b>>
  <2>1. (s[1] + bytes[i]) % U32 = a
    BY <1>2, <1>4, <1>11, <1>14
  <2>2. (s[2] + a) % U32 = b
    BY <1>5, <1>12, <1>14
  <2> QED  BY <1>1, <1>15, <2>1, <2>2 DEF AdlerStep
<1>17. PICK y1 : y1 = w1 + v
  BY Zenon
<1>18. PICK y2 : y2 = w2 + (n - i + 1) * v
  BY Zenon
<1>19. WeightStep(bytes, i, w) = <<y1, y2>>
  BY <1>1, <1>2, <1>6, <1>7, <1>17, <1>18 DEF WeightStep
<1>20. y1 \in Nat /\ y2 \in Nat
  <2>1. PICK k : k = n - i + 1
    BY Zenon
  <2>2. k \in Nat
    BY <1>3, <2>1
  <2>3. k * v \in Nat
    BY <1>3, <2>2
  <2> QED  BY <1>3, <1>9, <1>17, <1>18, <2>1, <2>3
<1>21. a % Base = (1 + y1) % Base
  <2>1. (s1 + v) % Base = ((1 + w1) + v) % Base
    <3>1. s1 \in Int /\ 1 + w1 \in Int /\ v \in Int
      BY <1>3, <1>9
    <3> QED  BY <1>9, <1>10, <3>1, AddSame
  <2>2. (1 + w1) + v = 1 + y1
    BY <1>3, <1>9, <1>17
  <2> QED  BY <1>11, <2>1, <2>2
<1>22. b % Base = (i + y2 - (n - i) * y1) % Base
  <2>1. PICK z : z = (i - 1) + w2 - (n - (i - 1)) * w1
    BY Zenon
  <2>2. (n - (i - 1)) * w1 \in Int /\ (n - i) * y1 \in Int /\ (n - i) * w1 \in Int
        /\ (n - i) * v \in Int
    BY <1>3, <1>9, <1>20
  <2>3. z \in Int
    BY <1>3, <1>9, <2>1, <2>2
  <2>4. (s2 + a) % Base = (z + a) % Base
    <3>1. s2 \in Int /\ a \in Int /\ s2 % Base = z % Base
      BY <1>9, <1>13, <2>1
    <3> QED  BY <1>10, <2>3, <3>1, AddSame
  <2>5. (z + a) % Base = (a + z) % Base /\ (z + (1 + y1)) = ((1 + y1) + z)
    BY <1>13, <1>20, <2>3
  <2>6. (a + z) % Base = ((1 + y1) + z) % Base
    <3>1. a \in Int /\ 1 + y1 \in Int
      BY <1>13, <1>20
    <3> QED  BY <1>10, <1>21, <2>3, <3>1, AddSame
  <2>7. (1 + y1) + z = i + y2 - (n - i) * y1
    <3>1. (n - (i - 1)) * w1 = (n - i) * w1 + w1
      BY <1>3, <1>9
    <3>2. (n - i + 1) * v = (n - i) * v + v
      BY <1>3
    <3>3. (n - i) * y1 = (n - i) * w1 + (n - i) * v
      BY <1>3, <1>9, <1>17
    <3> QED  BY <1>3, <1>9, <1>17, <1>18, <2>1, <2>2, <3>1, <3>2, <3>3
  <2> QED  BY <1>12, <2>4, <2>5, <2>6, <2>7
<1>23. PICK k : k = i % NMax
  BY Zenon
<1>24. k \in Nat
  BY <1>3, <1>10, <1>23
<1>25. CASE i % NMax = 0 \/ i = n
  <2>1. PICK e : e = a % Base
    BY Zenon
  <2>2. PICK f : f = b % Base
    BY Zenon
  <2>3. e \in 0 .. Base - 1 /\ f \in 0 .. Base - 1
    BY <1>10, <1>13, <2>1, <2>2, DivMod
  <2>4. e % Base = (1 + y1) % Base /\ f % Base = (i + y2 - (n - i) * y1) % Base
    <3>1. (a % Base) % Base = a % Base /\ (b % Base) % Base = b % Base
      <4>1. a \in Int /\ b \in Int
        BY <1>13
      <4> QED  BY <1>10, <4>1, ModMod
    <3> QED  BY <1>21, <1>22, <2>1, <2>2, <3>1
  <2>5. t[1] = e /\ t[2] = f
    BY <1>16, <1>25, <2>1, <2>2
  <2>6. e <= (Base - 1) + k * (ByteMod - 1)
    <3>1. k * (ByteMod - 1) \in Nat
      BY <1>24, ByteFacts
    <3> QED  BY <1>10, <2>3, <3>1
  <2>7. 2 * f <= 2 * ((k + 1) * (Base - 1)) + (ByteMod - 1) * k * (k + 1)
    <3>1. PICK D : D = Base - 1
      BY Zenon
    <3>2. D \in Nat /\ f <= D
      BY <1>10, <2>3, <3>1
    <3>3. (k + 1) * D = k * D + D /\ k * D \in Nat
      BY <1>24, <3>2
    <3>4. (ByteMod - 1) * k * (k + 1) \in Nat
      <4>1. ByteMod - 1 \in Nat /\ k <= k
        BY <1>24, ByteFacts
      <4> QED  BY <1>24, <4>1, Triangle
    <3> QED  BY <2>3, <3>1, <3>2, <3>3, <3>4
  <2>8. e \in Nat /\ f \in Nat /\ e < Base /\ f < Base
    BY <1>10, <2>3
  <2>9. SumsAgree(i, n, t, <<y1, y2>>)
    <3>1. SmallSums(k, e, f)
      BY <2>6, <2>7 DEF SmallSums
    <3> QED  BY <1>20, <1>23, <2>4, <2>5, <2>8, <3>1 DEF SumsAgree
  <2> QED  BY <1>1, <1>15, <1>19, <2>9
<1>26. CASE ~(i % NMax = 0 \/ i = n)
  <2>0. i > 0 /\ i % NMax # 0
    BY <1>3, <1>26
  <2>1. k = m + 1
    BY <1>3, <1>8, <1>10, <1>23, <2>0, NextMod
  <2>2. t[1] = a /\ t[2] = b
    BY <1>16, <1>26
  <2>4. SmallSums(k, a, b)
    BY <1>13, <2>1
  <2>6. SumsAgree(i, n, t, <<y1, y2>>)
    BY <1>13, <1>20, <1>21, <1>22, <1>23, <1>26, <2>2, <2>4 DEF SumsAgree
  <2> QED  BY <1>1, <1>15, <1>19, <2>6
<1> QED  BY <1>25, <1>26

\* The code reduces only every NMAX bytes and lets its sums grow in 32 bits in
\* between: for a message of any length the result is Adler-32 as it is defined
\* (adler32.c).
THEOREM AdlerExact ==
    ASSUME NEW bytes \in Seq(Byte)
    PROVE  adler32(bytes) = Adler32(bytes) /\ adler32(bytes) \in 0 .. U32 - 1
<1>1. PICK n : n = Len(bytes)
  BY Zenon
<1>2. n \in Nat
  BY <1>1
<1>3. PICK s : AdlerSums(s, bytes) /\ s = CHOOSE f : AdlerSums(f, bytes)
  BY AdlerSumsExist, Zenon
<1>4. PICK w : Weights(w, bytes) /\ w = CHOOSE f : Weights(f, bytes)
  BY AdlerSumsExist, Zenon
<1>5. /\ s[0] = <<1, 0>> /\ w[0] = <<0, 0>>
      /\ \A i \in 1 .. n : /\ s[i] = AdlerStep(bytes, i, s[i - 1])
                           /\ w[i] = WeightStep(bytes, i, w[i - 1])
  <2>1. \A i \in 0 .. n : s[i] = IF i = 0 THEN <<1, 0>> ELSE AdlerStep(bytes, i, s[i - 1])
    BY <1>1, <1>3 DEF AdlerSums
  <2>2. \A i \in 0 .. n : w[i] = IF i = 0 THEN <<0, 0>> ELSE WeightStep(bytes, i, w[i - 1])
    BY <1>1, <1>4 DEF Weights
  <2>3. 0 \in 0 .. n /\ \A i \in 1 .. n : i \in 0 .. n /\ i # 0
    BY <1>2
  <2> QED  BY <2>1, <2>2, <2>3
<1> DEFINE S == {i \in 0 .. n : SumsAgree(i, n, s[i], w[i])}
<1>6. 0 \in S
  <2>1. 0 % NMax = 0 /\ (1 + 0) % Base = 1 % Base /\ n * 0 = 0
    BY <1>2, AdlerFacts
  <2>2. (0 + 0 - (n - 0) * 0) = 0 /\ 0 % Base = 0
    BY <1>2, AdlerFacts
  <2>3. /\ 1 <= (Base - 1) + 0 * (ByteMod - 1)
        /\ 2 * 0 <= 2 * ((0 + 1) * (Base - 1)) + (ByteMod - 1) * 0 * (0 + 1)
        /\ 1 < Base /\ 0 < Base
    BY AdlerFacts, ByteFacts
  <2>4. SumsAgree(0, n, <<1, 0>>, <<0, 0>>)
    BY <2>1, <2>2, <2>3 DEF SumsAgree, SmallSums
  <2>5. 0 \in 0 .. n
    BY <1>2
  <2> QED  BY <1>5, <2>4, <2>5
<1>7. ASSUME NEW i \in 1 .. n, i - 1 \in S PROVE i \in S
  <2>1. SumsAgree(i - 1, n, s[i - 1], w[i - 1])
    BY <1>7
  <2>2. SumsAgree(i, n, s[i], w[i])
    BY <1>1, <1>5, <2>1, SumsAgreeStep
  <2>3. i \in 0 .. n
    BY <1>2
  <2> QED  BY <2>2, <2>3
<1>8. SumsAgree(n, n, s[n], w[n])
  <2> HIDE DEF S
  <2>1. \A i \in 0 .. n : i \in S
    BY <1>2, <1>6, <1>7, InductionTo
  <2>2. n \in S
    BY <1>2, <2>1
  <2> USE DEF S
  <2> QED  BY <2>2
<1>9. PICK a : a = s[n][1]
  BY Zenon
<1>10. PICK b : b = s[n][2]
  BY Zenon
<1>11. PICK x : x = w[n][1]
  BY Zenon
<1>12. PICK y : y = w[n][2]
  BY Zenon
<1>13. /\ a \in Nat /\ b \in Nat /\ x \in Nat /\ y \in Nat /\ a < Base /\ b < Base
       /\ a % Base = (1 + x) % Base /\ b % Base = (n + y - (n - n) * x) % Base
  BY <1>8, <1>9, <1>10, <1>11, <1>12 DEF SumsAgree
<1>14. a \in 0 .. Base - 1 /\ b \in 0 .. Base - 1 /\ Base \in Nat
  BY <1>13, AdlerFacts
<1>15. n + y - (n - n) * x = n + y
  BY <1>2, <1>13
<1>16. a = (1 + x) % Base /\ b = (n + y) % Base
  BY <1>13, <1>14, <1>15, SmallMod
<1>17. adler32(bytes) = a + U16 * b
  BY <1>1, <1>3, <1>9, <1>10, AdlerIs
<1>18. Adler32(bytes) = a + U16 * b
  BY <1>1, <1>4, <1>11, <1>12, <1>16, Adler32Is
<1>19. a + U16 * b \in 0 .. U32 - 1
  <2>1. a \in 0 .. U16 - 1 /\ b \in 0 .. U16 - 1 /\ U16 \in Nat /\ U16 > 0
        /\ U32 = U16 * U16
    BY <1>14, AdlerFacts, ByteFacts
  <2> QED  BY <2>1, TwoDigits
<1> QED  BY <1>17, <1>18, <1>19
==============================================================================
