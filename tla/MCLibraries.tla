---------------------------- MODULE MCLibraries ----------------------------
(***************************************************************************)
(* The libraries without threads: the red-black tree, the memory arena,    *)
(* base64, bcrypt and RSA.  They share no state, so each behaviour uses    *)
(* one of them and the states of the run are the sum of theirs.            *)
(***************************************************************************)
EXTENDS RBTree, MemArena, Bcrypt, Rsa

VARIABLE used   \* the library this behaviour is about

libVars == <<vars, arenaVars, text, stored, ctx, used>>

\* Eight keys, one of them on two nodes.
TwinKeys == [n \in 1 .. 9 |-> IF n = 9 THEN 5 ELSE n]

TenKeys == [n \in 1 .. 10 |-> n]

\* Strings of two characters, around the length of the key: four bytes here.
ShortPasswords == UNION {[1 .. n -> {1, 2}] : n \in 0 .. 6}

\* Two bytes, so that the last character of a salt carries four bits.
TwoByteSalts == [1 .. 2 -> {0, 64, 213, 255}]

LibInit ==
    /\ Init /\ ArenaInit /\ TextInit /\ HashInit /\ RsaInit
    /\ used \in {"tree", "arena", "base64", "bcrypt", "rsa"}

UseTree ==
    used = "tree" /\ Next /\ UNCHANGED <<arenaVars, text, stored, ctx, used>>
UseArena ==
    used = "arena" /\ ArenaNext /\ UNCHANGED <<vars, text, stored, ctx, used>>
UseBase64 ==
    used = "base64" /\ TextNext /\ UNCHANGED <<vars, arenaVars, stored, ctx, used>>
UseBcrypt ==
    used = "bcrypt" /\ HashNext /\ UNCHANGED <<vars, arenaVars, text, ctx, used>>
UseRsa ==
    used = "rsa" /\ RsaNext /\ UNCHANGED <<vars, arenaVars, text, stored, used>>

LibNext == UseTree \/ UseArena \/ UseBase64 \/ UseBcrypt \/ UseRsa

LibSpec == LibInit /\ [][LibNext]_libVars
=============================================================================
