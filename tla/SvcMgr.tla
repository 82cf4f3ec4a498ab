------------------------------- MODULE SvcMgr -------------------------------
(***************************************************************************)
(* The service manager of the network thread (server/iocp_svcmgr.c): which *)
(* protocols listen on which ports, and the accept operation that every    *)
(* listening service keeps with the operating system.                      *)
(*                                                                         *)
(* main registers the protocols on the ports of the configuration, then    *)
(* server_init opens the services, then the server thread handles accepts. *)
(* The operating system (external) fails any call it likes.  Nobody calls  *)
(* service_start_closing, so `closing' stays false and is left out.  A     *)
(* socket given to connmgr_start_connection belongs to the connection.     *)
(***************************************************************************)
EXTENDS Integers, Sequences, FiniteSets

CONSTANTS
    Ports,          \* ports the configuration may name
    MaxServices,    \* MAX_SERVER_SERVICES
    MaxProtocols,   \* MAX_SERVICE_PROTOCOLS
    MaxAccepts      \* bound: accept operations that complete

ASSUME SvcAssumption ==
    /\ MaxServices \in Nat \ {0} /\ MaxProtocols \in Nat \ {0}
    /\ MaxAccepts \in Nat

VARIABLES
    todo,       \* protocols main has still to register, in order
    services,   \* the services in use, in order
    phase,      \* "config", "running" or "down"
    sockets,    \* sockets open and not given to a connection
    accepts     \* bound: accept operations completed

vars == <<todo, services, phase, sockets, accepts>>

Protocols == {"echo", "login", "game"}
sends_first(p) == p = "game"

Service ==
    [port : Ports, protocols : Seq(Protocols),
     s : BOOLEAN,           \* s # INVALID_SOCKET
     pending_work : 0 .. 1,
     posted : BOOLEAN]      \* the OS holds the accept operation

TypeOK ==
    /\ todo \in Seq(Protocols)
    /\ services \in Seq(Service)
    /\ phase \in {"config", "running", "down"}
    /\ sockets \in 0 .. 2 * MaxServices
    /\ accepts \in 0 .. MaxAccepts

Init ==
    /\ todo = <<"echo", "login", "game">>
    /\ services = <<>>
    /\ phase = "config"
    /\ sockets = 0
    /\ accepts = 0

-----------------------------------------------------------------------------
OnPort(port) == {i \in DOMAIN services : services[i].port = port}

\* Mutant: a protocol that sends first joins the others.
CanJoinSendsFirst(svc, p) ==
    /\ Len(svc.protocols) < MaxProtocols
    /\ ~sends_first(svc.protocols[1])

\* Mutant: one protocol less fits.
CanJoinOffByOne(svc, p) ==
    /\ ~sends_first(p)
    /\ Len(svc.protocols) + 1 < MaxProtocols
    /\ ~sends_first(svc.protocols[1])

CanJoin(svc, p) ==
    /\ ~sends_first(p)
    /\ Len(svc.protocols) < MaxProtocols
    /\ ~sends_first(svc.protocols[1])

NewService(p, port) ==
    [port |-> port, protocols |-> <<p>>, s |-> FALSE, pending_work |-> 0,
     posted |-> FALSE]

\* main ignores the result: a protocol that is refused is not served.
svcmgr_add_protocol(port) ==
    /\ phase = "config" /\ todo # <<>>
    /\ todo' = Tail(todo)
    /\ \/ /\ OnPort(port) = {} /\ Len(services) < MaxServices
          /\ services' = Append(services, NewService(Head(todo), port))
       \/ /\ OnPort(port) = {} /\ Len(services) >= MaxServices
          /\ UNCHANGED services
       \/ \E i \in OnPort(port) :
            services' = IF CanJoin(services[i], Head(todo))
                        THEN [services EXCEPT ![i].protocols = Append(@, Head(todo))]
                        ELSE services
    /\ UNCHANGED <<phase, sockets, accepts>>

-----------------------------------------------------------------------------
(***************************************************************************)
(* m is a service and the number of open sockets; an operator that calls   *)
(* the operating system is the set of its outcomes.                        *)
(***************************************************************************)

\* service_start_async_accept, when it succeeds.  When it fails it closes the
\* socket it has created and changes nothing.
Accepting(m) ==
    [svc |-> [m.svc EXCEPT !.posted = TRUE, !.pending_work = @ + 1],
     sockets |-> m.sockets + 1]

\* service_open, when it succeeds, on a service that is closed.
Opened(m) ==
    Accepting([svc |-> [m.svc EXCEPT !.s = TRUE], sockets |-> m.sockets + 1])

internal_service_close(m) ==
    [svc |-> [m.svc EXCEPT !.s = FALSE], sockets |-> m.sockets - 1]

\* Mutant: the service keeps listening when no accept can be started.
AsyncAcceptGivesUp(m) == {Accepting(m), m}

\* One of the tries succeeds, or the service is opened again, or it is out.
service_async_accept(m) ==
    {Accepting(m)} \cup
    (IF m.svc.pending_work # 0 THEN {m}
     ELSE LET closed == internal_service_close(m) IN {Opened(closed), closed})

\* Mutant: the completed accept still counts as pending.
CompletedUncounted(m) ==
    [svc |-> [m.svc EXCEPT !.posted = FALSE], sockets |-> m.sockets - 1]

\* service_on_accept: the socket goes to a connection, or after an error is
\* closed; either way it leaves the count.
Completed(m) ==
    [svc |-> [m.svc EXCEPT !.posted = FALSE, !.pending_work = @ - 1],
     sockets |-> m.sockets - 1]

\* Mutant: after an error the accepted socket is forgotten.
OnAcceptLeaks(i, err) ==
    /\ phase = "running" /\ accepts < MaxAccepts
    /\ services[i].posted
    /\ LET c == Completed([svc |-> services[i], sockets |-> sockets])
           k == IF err THEN [c EXCEPT !.sockets = @ + 1] ELSE c
       IN  \E m \in service_async_accept(k) :
             /\ services' = [services EXCEPT ![i] = m.svc]
             /\ sockets' = m.sockets
    /\ accepts' = accepts + 1
    /\ UNCHANGED <<todo, phase>>

\* Without an error connmgr_start_connection runs before the next accept; it
\* leaves the services alone.
service_on_accept(i, err) ==
    /\ phase = "running" /\ accepts < MaxAccepts
    /\ services[i].posted
    /\ \E m \in service_async_accept(Completed([svc |-> services[i],
                                                sockets |-> sockets])) :
         /\ services' = [services EXCEPT ![i] = m.svc]
         /\ sockets' = m.sockets
    /\ accepts' = accepts + 1
    /\ UNCHANGED <<todo, phase>>

\* The services up to n are open.
OpenedUpTo(n) ==
    [i \in DOMAIN services |->
        IF i <= n THEN Opened([svc |-> services[i], sockets |-> 0]).svc
                  ELSE services[i]]

\* The failure path of svcmgr_init and svcmgr_shutdown: the listeners are
\* closed, the sockets and the count of the accepts are left to the exit.
CloseAll(svcs) == [i \in DOMAIN svcs |-> [svcs[i] EXCEPT !.s = FALSE]]

\* All services open, or the one behind the n-th does not.
svcmgr_init ==
    /\ phase = "config" /\ todo = <<>>
    /\ \/ /\ services' = OpenedUpTo(Len(services))
          /\ sockets' = 2 * Len(services)
          /\ phase' = "running"
       \/ \E n \in 0 .. Len(services) - 1 :
            /\ services' = CloseAll(OpenedUpTo(n))
            /\ sockets' = n
            /\ phase' = "down"
    /\ UNCHANGED <<todo, accepts>>

\* server_init could not start the thread, so no accept has been handled.
svcmgr_shutdown ==
    /\ phase = "running" /\ accepts = 0
    /\ services' = CloseAll(services)
    /\ sockets' = sockets - Len(services)
    /\ phase' = "down"
    /\ UNCHANGED <<todo, accepts>>

Next ==
    \/ \E port \in Ports : svcmgr_add_protocol(port)
    \/ svcmgr_init
    \/ svcmgr_shutdown
    \/ \E i \in DOMAIN services, err \in BOOLEAN : service_on_accept(i, err)

Spec == Init /\ [][Next]_vars

-----------------------------------------------------------------------------
\* While the server runs, a service that listens has exactly one accept with the
\* OS, and one that has none does not listen: peers are accepted or refused, never
\* left in the backlog by a service that has given up.
ListeningMeansAccepting ==
    phase = "running" =>
      \A i \in DOMAIN services :
        /\ services[i].s <=> services[i].posted
        /\ services[i].pending_work = IF services[i].posted THEN 1 ELSE 0

\* No socket leaks and none is closed twice, through all the error paths of
\* accepting and reopening: those open are the listeners and the sockets of the
\* accepts the OS holds.
SocketsAccounted ==
    sockets = Cardinality({i \in DOMAIN services : services[i].s})
              + Cardinality({i \in DOMAIN services : services[i].posted})

\* However the ports of the configuration coincide, a connection gets the right
\* protocol: ports do not repeat, and a protocol that sends first, which has no
\* `identify' for service_select_protocol to call, is alone on its port.
ProtocolsUnambiguous ==
    /\ \A i \in DOMAIN services :
         (\E k \in DOMAIN services[i].protocols : sends_first(services[i].protocols[k]))
           => Len(services[i].protocols) = 1
    /\ \A i, j \in DOMAIN services :
         i # j => services[i].port # services[j].port
=============================================================================
