------------------------------- MODULE Bytes -------------------------------
(***************************************************************************)
(* Numbers and strings as bytes in memory (buffer_util.h) and the Adler-32 *)
(* checksum (adler32.c).  A byte has ByteMod values, 256 in the code; the  *)
(* wider types follow from it, so that a smaller ByteMod scales all widths *)
(* and their wrap-around down together.                                    *)
(***************************************************************************)
EXTENDS Integers, Sequences, SequencesExt

CONSTANTS
    ByteMod,  \* 2^8
    Base,     \* BASE of adler32.c, the largest prime below 2^16
    NMax      \* NMAX: bytes that can be summed before 32 bits overflow

Byte == 0 .. ByteMod - 1
U16 == ByteMod * ByteMod
U32 == U16 * U16

ASSUME ByteAssumption == ByteMod \in Nat /\ ByteMod > 1
ASSUME AdlerAssumption ==
    /\ Base \in 2 .. U16
    /\ NMax \in Nat \ {0}
    /\ (((ByteMod - 1) * NMax * (NMax + 1)) \div 2) + (NMax + 1) * (Base - 1) < U32

\* data + at in C: the n bytes after the first `at' ones, as far as data goes.
BytesAt(data, at, n) ==
    SubSeq(data, at + 1, IF at + n > Len(data) THEN Len(data) ELSE at + n)

\* data[at] in C; what lies behind data counts as zero.
ByteAt(data, at) == IF at \in 0 .. Len(data) - 1 THEN data[at + 1] ELSE 0

\* Only the low bits of v are written.
encode_u16_le(v) == <<v % ByteMod, (v \div ByteMod) % ByteMod>>
decode_u16_le(data, at) == ByteAt(data, at) + ByteMod * ByteAt(data, at + 1)

encode_u32_le(v) == encode_u16_le(v) \o encode_u16_le(v \div U16)
decode_u32_le(data, at) == decode_u16_le(data, at) + U16 * decode_u16_le(data, at + 2)

\* The highest byte first.
BigEndian(v) == Reverse(encode_u32_le(v))

\* Mutant: the account id is sent in the byte order of the other protocol.
LittleEndianParameter(v) == encode_u32_le(v)

encode_u32_be(v) == BigEndian(v)
decode_u32_be(data, at) ==
    ByteAt(data, at + 3) + ByteMod * ByteAt(data, at + 2)
    + U16 * (ByteAt(data, at + 1) + ByteMod * ByteAt(data, at))

\* The string at `at': its bytes cut to the destination, what the function
\* returns (a uint16), and the last byte it has read.
decode_tibia_string(data, at, maxlen) ==
    LET len == decode_u16_le(data, at)
        n == IF len >= maxlen THEN maxlen - 1 ELSE len
    IN  [ret |-> (len + 2) % U16, str |-> BytesAt(data, at + 2, n),
         last |-> at + 2 + n]

\* What C makes of bytes: a string ends before its first zero byte.
CString(bytes) ==
    LET zero == SelectInSeq(bytes, LAMBDA b : b = 0)
    IN  IF zero = 0 THEN bytes ELSE SubSeq(bytes, 1, zero - 1)

-----------------------------------------------------------------------------
\* The two 32-bit sums after every byte, reduced after each NMax bytes and at
\* the end.
adler32(bytes) ==
    LET Sum[i \in 0 .. Len(bytes)] ==
          IF i = 0 THEN <<1, 0>>
          ELSE LET s == Sum[i - 1]
                   a == (s[1] + bytes[i]) % U32
                   b == (s[2] + a) % U32
               IN  IF i % NMax = 0 \/ i = Len(bytes)
                   THEN <<a % Base, b % Base>> ELSE <<a, b>>
        all == Sum[Len(bytes)]
    IN  all[1] + U16 * all[2]

\* Adler-32 as its definition has it, over unbounded numbers.
Adler32(bytes) ==
    LET len == Len(bytes)
        Weighted[i \in 0 .. len] ==
          IF i = 0 THEN <<0, 0>>
          ELSE LET s == Weighted[i - 1]
               IN  <<s[1] + bytes[i], s[2] + (len - i + 1) * bytes[i]>>
        all == Weighted[len]
    IN  ((1 + all[1]) % Base) + U16 * ((len + all[2]) % Base)
====
