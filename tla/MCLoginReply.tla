---------------------------- MODULE MCLoginReply ----------------------------
(***************************************************************************)
(* Bytes of four bits.  One client tries every kind of request: good and   *)
(* bad names and passwords, versions, a key that starts with a zero byte,  *)
(* and lengths around the size of a name and around the wrap of 16 bits.   *)
(* The other one only logs in, or mistypes, with a key of its own.         *)
(***************************************************************************)
EXTENDS LoginReply

CONSTANTS c1, c2, b1, b2

MCBufs == {b1, b2}
BufSymmetry == Permutations(MCBufs)

Key1 == <<4660, 22136, 40000, 65535>>
Key2 == <<43981, 1, 300, 7777>>
ZeroKey == <<4656, 22136, 40000, 65535>>

Good == [version |-> "supported", key |-> Key1, alen |-> 2, acc |-> <<1, 2>>,
         plen |-> 1, pwd |-> <<7>>]
Other == [Good EXCEPT !.key = Key2, !.alen = 1, !.acc = <<3>>, !.plen = 2,
                      !.pwd = <<9, 9>>]

MCRequestsOf ==
    c1 :> ({Good,
            [Good EXCEPT !.key = ZeroKey],
            [Good EXCEPT !.pwd = <<8>>],
            [Good EXCEPT !.acc = <<2, 2>>],
            [Good EXCEPT !.alen = 0, !.acc = <<>>],
            [Good EXCEPT !.plen = 0, !.pwd = <<>>],
            [Good EXCEPT !.version = "old"],
            [Good EXCEPT !.version = "other"]}
           \cup {[Good EXCEPT !.alen = a, !.plen = p] :
                   a \in {3, U16 - 2, U16 - 1}, p \in {3, U16 - 1}})
    @@ c2 :> {Other, [Other EXCEPT !.pwd = <<9, 8>>]}

MCAccounts ==
    {[name |-> <<1, 2>>, id |-> 291, pwd |-> <<7>>, chars |-> <<<<5>>, <<6, 7>>>>],
     [name |-> <<3>>, id |-> 12816, pwd |-> <<9, 9>>, chars |-> <<>>]}

\* Long enough for the longest list to fill its last block.
MCMotd == <<11, 12, 13, 14, 15, 1>>
MCSvName == <<13>>

ASSUME MCMessagesFit == MessagesFit
====
