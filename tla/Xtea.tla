-------------------------------- MODULE Xtea --------------------------------
(***************************************************************************)
(* The block cipher of the messages (crypto/xtea.c).  A word is four bytes *)
(* of Bytes; the key schedule and the round are those of the code.         *)
(***************************************************************************)
EXTENDS Bytes

CONSTANTS
    Rounds,  \* 32
    Delta    \* 0x9E3779B9

ASSUME XteaAssumption == Rounds \in Nat /\ Delta \in 0 .. U32 - 1

\* The xor of two bytes, from the lowest bit up.
XorByte ==
    LET Xor[a \in Byte] ==
          [b \in Byte |-> IF a = 0 THEN b
                          ELSE ((a + b) % 2) + 2 * Xor[a \div 2][b \div 2]]
    IN  [a \in Byte |-> Xor[a]]

XorWord(v, w) ==
    LET x == encode_u32_le(v)
        y == encode_u32_le(w)
    IN  decode_u32_le([i \in 1 .. 4 |-> XorByte[x[i]][y[i]]], 0)

\* (v << 4 ^ v >> 5) + v
Mix(v) == (XorWord((v * 16) % U32, v \div 32) + v) % U32

\* k[sum & 3] and k[sum >> 11 & 3], added to sum.
LowKey(k, sum) == (sum + k[1 + (sum % 4)]) % U32
HighKey(k, sum) == (sum + k[1 + ((sum \div 2048) % 4)]) % U32

\* One round on <<v0, v1, sum>>.
EncodeRound(k, r) ==
    LET a == (r[1] + XorWord(Mix(r[2]), LowKey(k, r[3]))) % U32
        sum == (r[3] + Delta) % U32
        b == (r[2] + XorWord(Mix(a), HighKey(k, sum))) % U32
    IN  <<a, b, sum>>

EncodeBlock(k, v0, v1) ==
    LET Round[i \in 0 .. Rounds] ==
          IF i = 0 THEN <<v0, v1, 0>> ELSE EncodeRound(k, Round[i - 1])
    IN  encode_u32_le(Round[Rounds][1]) \o encode_u32_le(Round[Rounds][2])

\* The constant 0xC6EF3720 of the code is what 32 rounds add up to.
LastSum == (Rounds * Delta) % U32

DecodeRound(k, r) ==
    LET b == (r[2] - XorWord(Mix(r[1]), HighKey(k, r[3]))) % U32
        sum == (r[3] - Delta) % U32
        a == (r[1] - XorWord(Mix(b), LowKey(k, sum))) % U32
    IN  <<a, b, sum>>

DecodeBlock(k, v0, v1) ==
    LET Round[i \in 0 .. Rounds] ==
          IF i = 0 THEN <<v0, v1, LastSum>> ELSE DecodeRound(k, Round[i - 1])
    IN  encode_u32_le(Round[Rounds][1]) \o encode_u32_le(Round[Rounds][2])

\* data is a whole number of blocks of eight bytes.
xtea_encode(k, data) ==
    FlattenSeq([n \in 1 .. Len(data) \div 8 |->
        EncodeBlock(k, decode_u32_le(data, 8 * (n - 1)),
                       decode_u32_le(data, 8 * (n - 1) + 4))])

xtea_decode(k, data) ==
    FlattenSeq([n \in 1 .. Len(data) \div 8 |->
        DecodeBlock(k, decode_u32_le(data, 8 * (n - 1)),
                       decode_u32_le(data, 8 * (n - 1) + 4))])
====
