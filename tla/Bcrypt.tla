------------------------------- MODULE Bcrypt -------------------------------
(***************************************************************************)
(* Password hashes (crypto/bcrypt.c).  A hash string "$2b$10$<salt><hash>" *)
(* is the record of what is formatted into it and parsed out of it again.  *)
(* Blowfish is external but for the way it consumes the key: its result is *)
(* taken to differ whenever the key words, the salt or the rounds differ.  *)
(***************************************************************************)
EXTENDS Base64

CONSTANTS
    Passwords,  \* strings: sequences of bytes without a zero
    Salts,      \* what crypto_random may return: sequences of SaltLen bytes
    Costs,      \* the values of logr that callers ask for
    SaltLen,    \* BCRYPT_SALT_LEN
    KeyBytes    \* 72, the bytes of the 18 key words

ASSUME BcryptAssumption ==
    /\ SaltLen \in Nat /\ KeyBytes \in Nat \ {0}
    /\ \A s \in Salts : s \in [1 .. SaltLen -> 0 .. 255]
    /\ Passwords \subseteq Seq(1 .. 255)
    /\ Costs \subseteq Int

VARIABLE stored  \* a hash and, as a ghost, the password it was made from

NoHash == [pass |-> <<>>, ok |-> FALSE]

\* generate_salt: the cost is clamped, the salt encoded.
generate_salt(logr, csalt) ==
    [minor |-> "b", salt |-> base64_encode(csalt), hash |-> <<>>,
     logr |-> IF logr < 4 THEN 4 ELSE IF logr > 31 THEN 31 ELSE logr]

\* Mutant: the terminator is not part of the key.
KeyWithoutTerminator(pass, minor) ==
    IF pass = <<>> THEN <<0>>
    ELSE IF minor = "b" /\ Len(pass) > KeyBytes THEN SubSeq(pass, 1, KeyBytes)
    ELSE pass

\* The key with its terminator; version b cuts it.
KeyOf(pass, minor) ==
    LET key == Append(pass, 0)
    IN  IF minor = "b" /\ Len(key) > KeyBytes THEN SubSeq(key, 1, KeyBytes)
        ELSE key

\* cyclic_buffer_get_u32 for all key words: the key over and over.
KeyWords(key) == [i \in 1 .. KeyBytes |-> key[1 + ((i - 1) % Len(key))]]

\* blowfish_expandkey1, the 1 << logr rounds of blowfish_expandkey, whose
\* number fits 32 bits and tells the costs apart, and the encoding of the
\* fixed text.
Blowfish(words, csalt, logr) == <<words, csalt, logr>>

\* What is returned and the hash string; s is a salt, or a whole hash.
generate_hash(pass, s) ==
    LET salt == base64_decode(SaltLen, s.salt)
        valid == s.minor \in {"a", "b"} /\ s.logr \in 4 .. 31 /\ salt.ret
    IN  IF ~valid THEN [ret |-> FALSE]
        ELSE [ret |-> TRUE,
              str |-> [minor |-> s.minor, logr |-> s.logr,
                       salt |-> base64_encode(salt.out),
                       hash |-> Blowfish(KeyWords(KeyOf(pass, s.minor)),
                                         salt.out, s.logr)]]

\* hash_cmp: both strings are made of the characters of base64.
hash_cmp(h1, h2) == h1 = h2

bcrypt_checkpass(pass, str) ==
    LET test == generate_hash(pass, str)
    IN  test.ret /\ hash_cmp(str, test.str)

HashInit == stored = NoHash

bcrypt_newhash(pass, logr, csalt) ==
    /\ stored = NoHash
    /\ LET made == generate_hash(pass, generate_salt(logr, csalt))
       IN  stored' = [pass |-> pass, ok |-> made.ret,
                      str |-> IF made.ret THEN made.str ELSE <<>>]

HashNext ==
    \E pass \in Passwords, logr \in Costs, csalt \in Salts :
        bcrypt_newhash(pass, logr, csalt)

-----------------------------------------------------------------------------
\* Whatever the cost asked for and the salt drawn, a hash is made; it accepts
\* the password it was made from, and no other one but those that agree with
\* it in the first 72 bytes, the terminator included: a password is never
\* taken for a repetition of itself.
HashTellsPasswords ==
    stored # NoHash =>
        /\ stored.ok
        /\ \A pass \in Passwords :
              bcrypt_checkpass(pass, stored.str) <=>
                IF Len(pass) < KeyBytes \/ Len(stored.pass) < KeyBytes
                THEN pass = stored.pass
                ELSE SubSeq(pass, 1, KeyBytes) = SubSeq(stored.pass, 1, KeyBytes)
====
