-------------------------------- MODULE Rsa --------------------------------
(***************************************************************************)
(* The server's RSA key (tibia_rsa.c, crypto/rsa.c).  GMP is external: its *)
(* functions are what they compute, mpz_import and mpz_export included,    *)
(* the latter of which writes no leading zero bytes.                       *)
(***************************************************************************)
EXTENDS Bytes

CONSTANTS
    Primes,     \* the primes that keys are made of, of up to four bytes here
    Exponents   \* the exponents tried with them

ASSUME RsaAssumption ==
    /\ Exponents \subseteq Nat
    /\ \A p \in Primes : /\ p \in Nat /\ p > 2
                         /\ \A k \in 2 .. p - 1 : p % k # 0
    /\ \A p, q \in Primes : p * q < U32

VARIABLE ctx    \* struct rsa_ctx; the scratch numbers x0 .. x3 are locals

mpz_powm(x, e, n) ==
    LET Pow[i \in 0 .. e] == IF i = 0 THEN 1 % n ELSE (Pow[i - 1] * x) % n
    IN  Pow[e]

Divides(k, n) == n % k = 0
Coprime(m, n) == ~\E k \in 2 .. m : Divides(k, m) /\ Divides(k, n)
mpz_lcm(m, n) ==
    CHOOSE k \in 1 .. m * n : /\ Divides(m, k) /\ Divides(n, k)
                              /\ \A j \in 1 .. k - 1 : ~(Divides(m, j) /\ Divides(n, j))
mpz_invert(x, n) == CHOOSE y \in 0 .. n - 1 : (x * y) % n = 1 % n

Significant(bytes) ==
    LET first == SelectInSeq(bytes, LAMBDA b : b # 0)
    IN  IF first = 0 THEN <<>> ELSE SubSeq(bytes, first, Len(bytes))

mpz_import(data) ==
    LET Value[i \in 0 .. Len(data)] ==
          IF i = 0 THEN 0 ELSE Value[i - 1] * ByteMod + data[i]
    IN  Value[Len(data)]
mpz_export(v) == Significant(BigEndian(v))

\* rsa_init, rsa_cleanup: no message is short enough for this key.
NoKey == [p |-> 0, q |-> 0, n |-> 0, e |-> 0, dp |-> 0, dq |-> 0, qi |-> 0,
          encoding_limit |-> 0]

\* The key is refused if e does not lie below lambda or shares a factor.
Accepted(p, q, e) ==
    LET lambda == mpz_lcm(p - 1, q - 1) IN lambda > e /\ Coprime(lambda, e)

rsa_setkey(p, q, e) ==
    LET d == mpz_invert(e, mpz_lcm(p - 1, q - 1))
    IN  [p |-> p, q |-> q, n |-> p * q, e |-> e,
         dp |-> d % (p - 1), dq |-> d % (q - 1), qi |-> mpz_invert(q, p),
         encoding_limit |-> Len(mpz_export(p * q))]

rsa_encode(data) == mpz_export(mpz_powm(mpz_import(data), ctx.e, ctx.n))

\* Mutant: the difference is not reduced when it is negative.
DecodeUnreduced(data) ==
    LET x0 == mpz_import(data)
        x1 == mpz_powm(x0, ctx.dp, ctx.p)
        x2 == mpz_powm(x0, ctx.dq, ctx.q)
        x3 == IF x1 < x2 THEN x2 - x1 ELSE x1 - x2
    IN  mpz_export(x2 + ((x3 * ctx.qi) % ctx.p) * ctx.q)

\* Decoding modulo p and q and putting the results together.
rsa_decode(data) ==
    LET x0 == mpz_import(data)
        x1 == mpz_powm(x0, ctx.dp, ctx.p)
        x2 == mpz_powm(x0, ctx.dq, ctx.q)
        x3 == IF x1 < x2 THEN x1 - x2 + ctx.p ELSE x1 - x2
    IN  mpz_export(x2 + ((x3 * ctx.qi) % ctx.p) * ctx.q)

\* Both refuse what is longer than the key and change nothing then.
tibia_rsa_encode(data) ==
    IF ctx.encoding_limit < Len(data) THEN [ret |-> FALSE, out |-> data]
    ELSE [ret |-> TRUE, out |-> rsa_encode(data)]
tibia_rsa_decode(data) ==
    IF ctx.encoding_limit < Len(data) THEN [ret |-> FALSE, out |-> data]
    ELSE [ret |-> TRUE, out |-> rsa_decode(data)]

RsaInit == ctx = NoKey

\* A key that is refused is cleaned up at once.
tibia_rsa_init(p, q, e) ==
    /\ ctx = NoKey
    /\ ctx' = IF Accepted(p, q, e) THEN rsa_setkey(p, q, e) ELSE NoKey

tibia_rsa_shutdown == ctx # NoKey /\ ctx' = NoKey

RsaNext ==
    \/ \E p, q \in Primes, e \in Exponents : p # q /\ tibia_rsa_init(p, q, e)
    \/ tibia_rsa_shutdown

-----------------------------------------------------------------------------
\* Messages as long as the key and shorter ones, of a few bytes each.
Messages == UNION {[1 .. len -> Byte] : len \in 1 .. ctx.encoding_limit}

\* With every key that rsa_setkey accepts, for p smaller than q too, decoding
\* what was encoded gives the message back without its leading zero bytes,
\* as long as the message is a number below n; messages one byte shorter than
\* the limit always are.  Without a key nothing is encoded or decoded.
RsaInverts ==
    IF ctx = NoKey
    THEN \A b \in Byte : ~tibia_rsa_encode(<<b>>).ret /\ ~tibia_rsa_decode(<<b>>).ret
    ELSE \A m \in Messages :
            mpz_import(m) < ctx.n \/ Len(m) < ctx.encoding_limit =>
              LET sent == tibia_rsa_encode(m)
              IN  /\ sent.ret
                  /\ tibia_rsa_decode(sent.out) =
                       [ret |-> TRUE, out |-> Significant(m)]
====
