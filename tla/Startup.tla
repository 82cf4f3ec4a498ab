------------------------------- MODULE Startup -------------------------------
(***************************************************************************)
(* main (main.c) up to the start of the server thread, and the services    *)
(* after it: the settings are read (Config), then the protocols registered *)
(* on the ports the settings name (SvcMgr).                                *)
(***************************************************************************)
EXTENDS SvcMgr, Config

CONSTANT Number      \* strtol: the values that are numbers, and the numbers

ASSUME StartupAssumption ==
    /\ MaxProtocols >= 2       \* for those that can share a port
    /\ {"sv_echo_port", "sv_login_port", "sv_game_port"} \subseteq Keys
    /\ 0 \in Ports /\ \A v \in DOMAIN Number : Number[v] \in Ports

allVars == <<vars, cfgVars>>

\* strtol of anything but a number is zero.
config_geti(key) ==
    LET v == config_get(key)
    IN  IF v \in DOMAIN Number THEN Number[v] ELSE 0

\* The keys main asks for.
PortKey(p) ==
    CASE p = "echo"  -> "sv_echo_port"
      [] p = "login" -> "sv_login_port"
      [] p = "game"  -> "sv_game_port"

StartupInit == Init /\ CfgInit

ReadSettings ==
    /\ CfgNext
    /\ UNCHANGED vars

Register ==
    /\ stage = "ready"
    /\ todo # <<>>
    /\ svcmgr_add_protocol(config_geti(PortKey(Head(todo))))
    /\ UNCHANGED cfgVars

\* The start of Winsock or of the completion port fails, or all comes down to
\* the services.
server_internal_init ==
    \/ /\ phase = "config" /\ todo = <<>>
       /\ phase' = "down"
       /\ UNCHANGED <<todo, services, sockets, accepts>>
    \/ svcmgr_init

Serve ==
    /\ \/ stage = "ready" /\ server_internal_init
       \/ svcmgr_shutdown
       \/ \E n \in DOMAIN services, err \in BOOLEAN : service_on_accept(n, err)
    /\ UNCHANGED cfgVars

StartupNext == ReadSettings \/ Register \/ Serve

StartupSpec == StartupInit /\ [][StartupNext]_allVars

-----------------------------------------------------------------------------
StartupTypeOK == TypeOK /\ CfgTypeOK

Configured(p) == config_geti(PortKey(p))

Registered(p) ==
    \E n \in DOMAIN services :
        /\ services[n].port = Configured(p)
        /\ \E k \in DOMAIN services[n].protocols : services[n].protocols[k] = p

\* main ignores what svcmgr_add_protocol returns, and yet every protocol has a
\* service on the port the settings name when the server starts: unless it sends first and another one has the port already, or
\* there are more ports than services.
ServedWhereConfigured ==
    phase = "running" =>
      \A p \in Protocols :
        \/ Registered(p)
        \/ sends_first(p) /\ \E q \in Protocols \ {p} : Configured(q) = Configured(p)
        \/ Cardinality({Configured(q) : q \in Protocols}) > MaxServices
=============================================================================
