------------------------------- MODULE Base64 -------------------------------
(***************************************************************************)
(* The base64 of crypto/base64.c, which bcrypt keeps its salts and hashes  *)
(* in.  Characters are their codes.  A text grows byte by byte, and every  *)
(* text is encoded and decoded.                                            *)
(***************************************************************************)
EXTENDS Integers, Sequences

CONSTANTS
    Sample,     \* the bytes of the texts
    MaxText     \* bound on their length

ASSUME Base64Assumption == Sample \subseteq 0 .. 255 /\ MaxText \in Nat

VARIABLE text

\* First and last character of a row of the alphabet, value of the first.
Rows == {<<46, 47, 0>>, <<65, 90, 2>>, <<97, 122, 28>>, <<48, 57, 54>>}

\* The table base64.
base64(v) ==
    LET r == CHOOSE r \in Rows : v \in r[3] .. r[3] + r[2] - r[1]
    IN  r[1] + v - r[3]

\* Mutant: the terminator decodes like the first character of the alphabet.
Decode64Zero(c) ==
    LET rows == {r \in Rows : c \in r[1] .. r[2]}
    IN  IF c = 0 THEN 0 ELSE IF rows = {} THEN 255
        ELSE LET r == CHOOSE r \in rows : TRUE IN r[3] + c - r[1]

\* The table decode64, 0xFF outside the alphabet.
decode64(c) ==
    LET rows == {r \in Rows : c \in r[1] .. r[2]}
    IN  IF rows = {} THEN 255
        ELSE LET r == CHOOSE r \in rows : TRUE IN r[3] + c - r[1]

\* The characters that len bytes take: none for what is missing of a triple.
Chars(len) == 4 * (len \div 3) + (IF len % 3 = 0 THEN 0 ELSE 1 + (len % 3))

\* The i-th six bits of the bytes; bytes after the last one count as zero.
Sextet(data, i) ==
    LET at == 3 * ((i - 1) \div 4)
        p(k) == IF at + k <= Len(data) THEN data[at + k] ELSE 0
    IN  CASE i % 4 = 1 -> p(1) \div 4
          [] i % 4 = 2 -> (p(1) % 4) * 16 + (p(2) \div 16)
          [] i % 4 = 3 -> (p(2) % 16) * 4 + (p(3) \div 64)
          [] i % 4 = 0 -> p(3) % 64

\* The string, with its terminator.
base64_encode(data) ==
    Append([i \in 1 .. Chars(Len(data)) |-> base64(Sextet(data, i))], 0)

\* The i-th byte that the values c give.
Octet(c, i) ==
    LET at == 4 * ((i - 1) \div 3)
    IN  CASE i % 3 = 1 -> (c[at + 1] * 4 + ((c[at + 2] \div 16) % 4)) % 256
          [] i % 3 = 2 -> (c[at + 2] % 16) * 16 + ((c[at + 3] \div 4) % 16)
          [] i % 3 = 0 -> (c[at + 3] % 4) * 64 + c[at + 4]

\* What is returned, and the bytes written: those of the groups before the
\* first one with a character outside the alphabet.  What lies behind the
\* string in memory may be any character, '.' for one.
base64_decode(len, str) ==
    LET c == [i \in 1 .. Chars(len) |->
                IF i > Len(str) THEN 0 ELSE decode64(str[i])]
        bad == {i \in DOMAIN c : c[i] = 255}
        first == CHOOSE i \in bad : \A j \in bad : i <= j
        done == IF bad = {} THEN len ELSE 3 * ((first - 1) \div 4)
    IN  [ret |-> bad = {}, out |-> [i \in 1 .. done |-> Octet(c, i)]]

TextInit == text = <<>>
TextNext ==
    /\ Len(text) < MaxText
    /\ \E b \in Sample : text' = Append(text, b)

-----------------------------------------------------------------------------
\* Decoding gives back every text that was encoded, whatever its length
\* leaves over after the last triple; and a string that is too short for the
\* length asked for is refused, after the whole groups in front of its end
\* have been decoded.
Base64RoundTrip ==
    LET str == base64_encode(text)
    IN  /\ base64_decode(Len(text), str) = [ret |-> TRUE, out |-> text]
        /\ \A more \in 1 .. 4 :
              base64_decode(Len(text) + more, str) =
                [ret |-> FALSE,
                 out |-> SubSeq(text, 1, Len(text) - (Len(text) % 3))]
====
