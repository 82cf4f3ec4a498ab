----------------------------- MODULE MCStartup -----------------------------
(***************************************************************************)
(* An instance of Startup for TLC: the path of the file and the three ports*)
(* in a table of four slots, so that keys collide, are displaced over the  *)
(* end of the table, or find no room.                                      *)
(***************************************************************************)
EXTENDS Startup, TLC

MCDefaults == <<
    [key |-> "config", value |-> "config.lua"],
    [key |-> "sv_echo_port", value |-> "7777"],
    [key |-> "sv_login_port", value |-> "7171"],
    [key |-> "sv_game_port", value |-> "7172"]>>

MCAbbreviations == {"sv_"}
MCExpands == [a \in MCAbbreviations |-> {"sv_echo_port", "sv_login_port", "sv_game_port"}]
MCValues == {"config.lua", "7777", "7171", "7172"}
MCNumber == ("7777" :> 7777) @@ ("7171" :> 7171) @@ ("7172" :> 7172)
MCPorts == {0, 7777, 7171, 7172}

\* The first key hashes to the last slot; rotating a hash changes nothing else.
\* The abbreviation is looked for around the end of the table or behind it.
MCHashes ==
    {h \in [MCAbbreviations \cup {MCDefaults[n].key : n \in DOMAIN MCDefaults} -> 0 .. 3] :
        h["config"] = 3 /\ h["sv_"] \in {0, 3}}
=============================================================================
