---------------------------- MODULE StartupProofs ----------------------------
(***************************************************************************)
(* The service manager, the settings and the start-up that composes them.  *)
(*                                                                         *)
(* For every set of ports and every number of services, the service        *)
(* manager keeps its invariants: every service that listens has one accept *)
(* with the operating system, no socket leaks, and no two services or      *)
(* protocols can be confused.  Whatever the hash function, the size of the *)
(* table and the number of collisions allowed, the table of Config finds   *)
(* every key that it has stored, with the value last said for it.  And for *)
(* every command line and file and whatever calls of the operating system  *)
(* fail, every protocol is served where the settings say.                  *)
(***************************************************************************)
EXTENDS Startup, FiniteSetTheorems, WellFoundedInduction, TLAPS

-----------------------------------------------------------------------------
(***************************************************************************)
(* The service manager: its inductive invariant.                           *)
(***************************************************************************)

Listening == {i \in DOMAIN services : services[i].s}
Posted == {i \in DOMAIN services : services[i].posted}

\* What TypeOK says but for the number of sockets, which is a consequence of
\* SocketsAccounted and of the number of services.
TypePart ==
    /\ todo \in Seq(Protocols)
    /\ services \in Seq(Service)
    /\ Len(services) <= MaxServices
    /\ phase \in {"config", "running", "down"}
    /\ accepts \in 0 .. MaxAccepts

\* Before svcmgr_init nothing is open.
ClosedBeforeInit ==
    phase = "config" =>
      /\ accepts = 0
      /\ \A i \in DOMAIN services :
           ~services[i].s /\ ~services[i].posted /\ services[i].pending_work = 0

\* Until the first accept is handled every service is open: svcmgr_shutdown may
\* close all of them.
OpenUntilAccept ==
    phase = "running" /\ accepts = 0 =>
      \A i \in DOMAIN services : services[i].s /\ services[i].posted

\* A service is made for its first protocol.
NeverWithoutProtocol ==
    \A i \in DOMAIN services : services[i].protocols # <<>>

SvcInv ==
    /\ TypePart
    /\ ClosedBeforeInit
    /\ OpenUntilAccept
    /\ NeverWithoutProtocol
    /\ ListeningMeansAccepting
    /\ SocketsAccounted
    /\ ProtocolsUnambiguous

-----------------------------------------------------------------------------
(***************************************************************************)
(* Services and sockets.                                                   *)
(***************************************************************************)

\* The first n indexes are n.
LEMMA UpTo ==
    ASSUME NEW n \in Nat
    PROVE  IsFiniteSet(1 .. n) /\ Cardinality(1 .. n) = n
<1>1. /\ IsFiniteSet(1 .. n)
      /\ Cardinality(1 .. n) = IF 1 > n THEN 0 ELSE n - 1 + 1
  BY FS_Interval
<1> QED  BY <1>1

\* The services are finitely many.
LEMMA ServicesFinite ==
    ASSUME TypePart
    PROVE  /\ DOMAIN services = 1 .. Len(services) /\ Len(services) \in Nat
           /\ IsFiniteSet(Listening) /\ Cardinality(Listening) \in 0 .. Len(services)
           /\ IsFiniteSet(Posted) /\ Cardinality(Posted) \in 0 .. Len(services)
<1>1. DOMAIN services = 1 .. Len(services) /\ Len(services) \in Nat
  BY DEF TypePart
<1>2. /\ IsFiniteSet(1 .. Len(services))
      /\ Cardinality(1 .. Len(services)) = Len(services)
  BY <1>1, UpTo
<1>3. /\ Listening \in SUBSET (1 .. Len(services))
      /\ Posted \in SUBSET (1 .. Len(services))
  BY <1>1 DEF Listening, Posted
<1>4. IsFiniteSet(Listening) /\ Cardinality(Listening) <= Len(services)
  BY <1>2, <1>3, FS_Subset
<1>5. IsFiniteSet(Posted) /\ Cardinality(Posted) <= Len(services)
  BY <1>2, <1>3, FS_Subset
<1>6. Cardinality(Listening) \in Nat /\ Cardinality(Posted) \in Nat
  BY <1>4, <1>5, FS_CardinalityType
<1> QED  BY <1>1, <1>4, <1>5, <1>6

\* The type invariant follows.
LEMMA SvcInvType == SvcInv => TypeOK
<1> SUFFICES ASSUME SvcInv PROVE TypeOK
  OBVIOUS
<1>1. sockets = Cardinality(Listening) + Cardinality(Posted)
  BY DEF SvcInv, SocketsAccounted, Listening, Posted
<1>2. sockets \in 0 .. 2 * MaxServices
  BY <1>1, ServicesFinite, SvcAssumption DEF SvcInv, TypePart
<1> QED  BY <1>2 DEF SvcInv, TypePart, TypeOK

\* What the operators of accepting work on.
Work == [svc : Service, sockets : Int]

\* A service that listens or not, has an accept with the OS or not, and is for
\* the rest like the one it was.
Is(svc, old, s, posted) ==
    /\ svc \in Service
    /\ svc.port = old.port /\ svc.protocols = old.protocols
    /\ svc.s = s /\ svc.posted = posted
    /\ svc.pending_work = IF posted THEN 1 ELSE 0

\* The fields of a service after its listener is opened or closed.
LEMMA ListenerChanges ==
    ASSUME NEW svc \in Service, NEW s \in BOOLEAN,
           NEW new, new = [svc EXCEPT !.s = s]
    PROVE  /\ new \in Service
           /\ new.port = svc.port /\ new.protocols = svc.protocols
           /\ new.posted = svc.posted /\ new.pending_work = svc.pending_work
           /\ new.s = s
<1>1. new \in Service
  BY Zenon DEF Service
<1> QED  BY <1>1 DEF Service

\* service_start_async_accept.
LEMMA AcceptingIs ==
    ASSUME NEW m \in Work, NEW old, Is(m.svc, old, TRUE, FALSE)
    PROVE  /\ Accepting(m) \in Work
           /\ Is(Accepting(m).svc, old, TRUE, TRUE)
           /\ Accepting(m).sockets = m.sockets + 1
<1>1. PICK new : new = [m.svc EXCEPT !.posted = TRUE, !.pending_work = @ + 1]
  OBVIOUS
<1>2. m.svc \in Service /\ m.svc.pending_work + 1 = 1 /\ m.sockets \in Int
  BY DEF Is, Work
<1>3. new = [m.svc EXCEPT !.posted = TRUE, !.pending_work = 1]
  BY <1>1, <1>2
<1>4. Is(new, old, TRUE, TRUE)
  <2>1. TRUE \in BOOLEAN /\ 1 \in 0 .. 1
    OBVIOUS
  <2>2. /\ new \in Service
        /\ new.port = m.svc.port /\ new.protocols = m.svc.protocols
        /\ new.s = m.svc.s /\ new.posted = TRUE /\ new.pending_work = 1
    <3>1. new \in Service
      BY <1>2, <1>3, <2>1, Zenon DEF Service
    <3> QED  BY <1>2, <1>3, <3>1 DEF Service
  <2> QED  BY <2>2 DEF Is
<1>5. Accepting(m) = [svc |-> new, sockets |-> m.sockets + 1]
  BY <1>1 DEF Accepting
<1> QED  BY <1>2, <1>4, <1>5 DEF Is, Work

\* service_open on a closed service.
LEMMA OpenedIs ==
    ASSUME NEW m \in Work, NEW old, Is(m.svc, old, FALSE, FALSE)
    PROVE  /\ Opened(m) \in Work
           /\ Is(Opened(m).svc, old, TRUE, TRUE)
           /\ Opened(m).sockets = m.sockets + 2
<1>1. PICK new : new = [m.svc EXCEPT !.s = TRUE]
  OBVIOUS
<1>2. Is(new, old, TRUE, FALSE)
  BY <1>1, ListenerChanges DEF Is
<1>3. PICK k : k = [svc |-> new, sockets |-> m.sockets + 1]
  OBVIOUS
<1>4. /\ k \in Work /\ k.svc = new /\ k.sockets = m.sockets + 1
      /\ m.sockets \in Int
  BY <1>2, <1>3 DEF Is, Work
<1>5. Opened(m) = Accepting(k)
  BY <1>1, <1>3 DEF Opened
<1>6. Accepting(k) \in Work /\ Is(Accepting(k).svc, old, TRUE, TRUE)
      /\ Accepting(k).sockets = k.sockets + 1
  BY <1>2, <1>4, AcceptingIs
<1>7. k.sockets + 1 = m.sockets + 2
  BY <1>4
<1> QED  BY <1>5, <1>6, <1>7, Zenon

\* service_on_accept: the service listens with one accept as before, or it is
\* closed and has none.
LEMMA AcceptedIs ==
    ASSUME NEW svc \in Service, Is(svc, svc, TRUE, TRUE), NEW n \in Int,
           NEW m \in service_async_accept(Completed([svc |-> svc, sockets |-> n]))
    PROVE  \/ Is(m.svc, svc, TRUE, TRUE) /\ m.sockets = n
           \/ Is(m.svc, svc, FALSE, FALSE) /\ m.sockets = n - 2
<1>1. PICK done : done = [svc EXCEPT !.posted = FALSE, !.pending_work = @ - 1]
  OBVIOUS
<1>2. done = [svc EXCEPT !.posted = FALSE, !.pending_work = 0]
  BY <1>1 DEF Is
<1>3. Is(done, svc, TRUE, FALSE)
  <2>1. FALSE \in BOOLEAN /\ 0 \in 0 .. 1
    OBVIOUS
  <2>2. /\ done \in Service
        /\ done.port = svc.port /\ done.protocols = svc.protocols
        /\ done.s = svc.s /\ done.posted = FALSE /\ done.pending_work = 0
    <3>1. done \in Service
      BY <1>2, <2>1, Zenon DEF Service
    <3> QED  BY <1>2, <3>1 DEF Service
  <2> QED  BY <2>2 DEF Is
<1>4. PICK c : c = [svc |-> done, sockets |-> n - 1]
  OBVIOUS
<1>5. Completed([svc |-> svc, sockets |-> n]) = c
  BY <1>1, <1>4 DEF Completed
<1>6. c \in Work /\ c.svc = done /\ c.sockets = n - 1
      /\ c.svc.pending_work = 0
  BY <1>3, <1>4 DEF Is, Work
<1>7. /\ Is(Accepting(c).svc, svc, TRUE, TRUE)
      /\ Accepting(c).sockets = n
  <2>1. /\ Is(Accepting(c).svc, svc, TRUE, TRUE)
        /\ Accepting(c).sockets = c.sockets + 1
    BY <1>3, <1>6, AcceptingIs, Zenon
  <2>2. c.sockets + 1 = n
    BY <1>6
  <2> QED  BY <2>1, <2>2, Zenon
<1>8. PICK shut : shut = [done EXCEPT !.s = FALSE]
  OBVIOUS
<1>9. Is(shut, svc, FALSE, FALSE)
  BY <1>3, <1>8, ListenerChanges DEF Is
<1>10. PICK d : d = [svc |-> shut, sockets |-> n - 2]
  OBVIOUS
<1>11. internal_service_close(c) = d
  <2>1. c.sockets - 1 = n - 2
    BY <1>6
  <2> QED  BY <1>6, <1>8, <1>10, <2>1, Zenon DEF internal_service_close
<1>12. d \in Work /\ d.svc = shut /\ d.sockets = n - 2
  BY <1>9, <1>10 DEF Is, Work
<1>13. /\ Is(Opened(d).svc, svc, TRUE, TRUE)
       /\ Opened(d).sockets = n
  <2>1. /\ Is(Opened(d).svc, svc, TRUE, TRUE)
        /\ Opened(d).sockets = d.sockets + 2
    BY <1>9, <1>12, OpenedIs, Zenon
  <2>2. d.sockets + 2 = n
    BY <1>12
  <2> QED  BY <2>1, <2>2, Zenon
<1>14. m \in {Accepting(c), Opened(d), d}
  BY <1>5, <1>6, <1>11 DEF service_async_accept
<1> QED  BY <1>7, <1>9, <1>12, <1>13, <1>14

-----------------------------------------------------------------------------
(***************************************************************************)
(* Registering protocols.                                                  *)
(***************************************************************************)

LEMMA InitSvcInv == Init => SvcInv
<1> SUFFICES ASSUME Init PROVE SvcInv
  OBVIOUS
<1> USE SvcAssumption DEF Init
<1>1. TypePart
  BY DEF TypePart, Protocols
<1>2. DOMAIN services = {}
  OBVIOUS
<1>3. ClosedBeforeInit /\ OpenUntilAccept /\ NeverWithoutProtocol
  BY <1>2 DEF ClosedBeforeInit, OpenUntilAccept, NeverWithoutProtocol
<1>4. ListeningMeansAccepting /\ ProtocolsUnambiguous
  BY <1>2 DEF ListeningMeansAccepting, ProtocolsUnambiguous
<1>5. SocketsAccounted
  <2>1. Listening = {} /\ Posted = {}
    BY <1>2 DEF Listening, Posted
  <2>2. sockets = Cardinality(Listening) + Cardinality(Posted)
    BY <2>1, FS_EmptySet
  <2> QED  BY <2>2 DEF SocketsAccounted, Listening, Posted
<1> QED  BY <1>1, <1>3, <1>4, <1>5 DEF SvcInv

\* While the services are closed the invariant is about their types, ports and
\* protocols.
LEMMA ConfigStep ==
    ASSUME SvcInv, phase = "config",
           UNCHANGED <<phase, sockets, accepts>>,
           TypePart', NeverWithoutProtocol', ProtocolsUnambiguous',
           \A i \in DOMAIN services' :
             /\ ~services'[i].s /\ ~services'[i].posted
             /\ services'[i].pending_work = 0
    PROVE  SvcInv'
<1>1. ClosedBeforeInit' /\ OpenUntilAccept' /\ ListeningMeansAccepting'
  BY DEF SvcInv, ClosedBeforeInit, OpenUntilAccept, ListeningMeansAccepting
<1>2. Listening = {} /\ Posted = {} /\ Listening' = {} /\ Posted' = {}
  BY DEF SvcInv, ClosedBeforeInit, Listening, Posted
<1>3. sockets = Cardinality(Listening) + Cardinality(Posted)
  BY DEF SvcInv, SocketsAccounted, Listening, Posted
<1>4. sockets' = Cardinality(Listening') + Cardinality(Posted')
  BY <1>2, <1>3
<1>5. SocketsAccounted'
  BY <1>4 DEF SocketsAccounted, Listening, Posted
<1> QED  BY <1>1, <1>5 DEF SvcInv

\* A protocol gets a service of its own.
LEMMA NewServiceStep ==
    ASSUME SvcInv, NEW port \in Ports, NEW p \in Protocols,
           phase = "config", OnPort(port) = {}, Len(services) < MaxServices,
           services' = Append(services, NewService(p, port)),
           todo' \in Seq(Protocols), UNCHANGED <<phase, sockets, accepts>>
    PROVE  SvcInv'
<1> DEFINE n == Len(services) + 1
<1>1. services \in Seq(Service) /\ Len(services) \in Nat
      /\ DOMAIN services = 1 .. Len(services)
  BY DEF SvcInv, TypePart
<1>2. PICK new : new = NewService(p, port)
  OBVIOUS
<1>3. new \in Service /\ new.port = port /\ new.protocols = <<p>>
      /\ ~new.s /\ ~new.posted /\ new.pending_work = 0
  BY <1>2 DEF NewService, Service
<1>4. /\ services' \in Seq(Service) /\ Len(services') = n
      /\ DOMAIN services' = 1 .. n
      /\ \A i \in DOMAIN services' :
           \/ i \in DOMAIN services /\ services'[i] = services[i]
           \/ i = n /\ services'[i] = new
  BY <1>1, <1>2, <1>3
<1> HIDE DEF n
<1>5. TypePart'
  BY <1>1, <1>4, SvcAssumption DEF SvcInv, TypePart, n
<1>6. NeverWithoutProtocol'
  <2>1. <<p>> # <<>>
    OBVIOUS
  <2> QED  BY <1>3, <1>4, <2>1, Zenon DEF SvcInv, NeverWithoutProtocol
<1>7. ASSUME NEW i \in DOMAIN services'
      PROVE  /\ ~services'[i].s /\ ~services'[i].posted
             /\ services'[i].pending_work = 0
  BY <1>3, <1>4, Zenon DEF SvcInv, ClosedBeforeInit
<1>8. ProtocolsUnambiguous'
  <2>1. ASSUME NEW i \in DOMAIN services', NEW k \in DOMAIN services'[i].protocols,
               sends_first(services'[i].protocols[k])
        PROVE  Len(services'[i].protocols) = 1
    <3>1. Len(<<p>>) = 1
      OBVIOUS
    <3> QED  BY <1>3, <1>4, <2>1, <3>1, Zenon DEF SvcInv, ProtocolsUnambiguous
  <2>2. \A i \in DOMAIN services : services[i].port # port
    BY DEF OnPort
  <2>3. ASSUME NEW i \in DOMAIN services', NEW j \in DOMAIN services', i # j
        PROVE  services'[i].port # services'[j].port
    BY <1>3, <1>4, <2>2, <2>3, Zenon DEF SvcInv, ProtocolsUnambiguous
  <2> QED  BY <2>1, <2>3 DEF ProtocolsUnambiguous
<1> QED  BY <1>5, <1>6, <1>7, <1>8, ConfigStep

\* A protocol joins those of a service.
LEMMA JoinStep ==
    ASSUME SvcInv, NEW n \in DOMAIN services, NEW p \in Protocols,
           phase = "config", CanJoin(services[n], p),
           services' = [services EXCEPT ![n].protocols = Append(@, p)],
           todo' \in Seq(Protocols), UNCHANGED <<phase, sockets, accepts>>
    PROVE  SvcInv'
<1>1. services \in Seq(Service) /\ services[n] \in Service
  BY DEF SvcInv, TypePart
<1>2. PICK ps : ps = Append(services[n].protocols, p)
  OBVIOUS
<1>3. PICK new : new = [services[n] EXCEPT !.protocols = ps]
  OBVIOUS
<1>4. /\ services[n].protocols \in Seq(Protocols) /\ ps \in Seq(Protocols)
      /\ Len(ps) > 0 /\ ps # <<>>
      /\ \A k \in DOMAIN ps : \/ /\ k \in DOMAIN services[n].protocols
                                 /\ ps[k] = services[n].protocols[k]
                              \/ ps[k] = p
  BY <1>1, <1>2 DEF Service
<1>5. new \in Service
  BY <1>1, <1>3, <1>4, Zenon DEF Service
<1>6. /\ new.port = services[n].port /\ new.protocols = ps
      /\ new.s = services[n].s /\ new.posted = services[n].posted
      /\ new.pending_work = services[n].pending_work
  BY <1>1, <1>3, <1>5 DEF Service
<1>7. /\ services' = [services EXCEPT ![n] = new]
      /\ services' \in Seq(Service) /\ Len(services') = Len(services)
      /\ DOMAIN services' = DOMAIN services
      /\ services'[n] = new
      /\ \A i \in DOMAIN services : i # n => services'[i] = services[i]
  BY <1>1, <1>2, <1>3, <1>5
<1>8. TypePart'
  BY <1>7 DEF SvcInv, TypePart
<1>9. NeverWithoutProtocol'
  BY <1>4, <1>6, <1>7, Zenon DEF SvcInv, NeverWithoutProtocol
<1>10. ASSUME NEW i \in DOMAIN services'
       PROVE  /\ ~services'[i].s /\ ~services'[i].posted
              /\ services'[i].pending_work = 0
  <2>1. /\ ~services[i].s /\ ~services[i].posted
        /\ services[i].pending_work = 0
    BY <1>7, Zenon DEF SvcInv, ClosedBeforeInit
  <2> QED  BY <1>6, <1>7, <2>1, Zenon
<1>11. ASSUME NEW k \in DOMAIN ps PROVE ~sends_first(ps[k])
  <2>1. ~sends_first(p) /\ ~sends_first(services[n].protocols[1])
    BY DEF CanJoin
  <2>2. ASSUME NEW j \in DOMAIN services[n].protocols
        PROVE  ~sends_first(services[n].protocols[j])
    <3> SUFFICES ASSUME sends_first(services[n].protocols[j]) PROVE FALSE
      OBVIOUS
    <3>1. Len(services[n].protocols) = 1
      BY DEF SvcInv, ProtocolsUnambiguous
    <3>2. j = 1
      BY <1>4, <3>1
    <3> QED  BY <2>1, <3>2
  <2> QED  BY <1>4, <2>1, <2>2, Zenon
<1>12. ProtocolsUnambiguous'
  <2>1. ASSUME NEW i \in DOMAIN services', NEW k \in DOMAIN services'[i].protocols,
               sends_first(services'[i].protocols[k])
        PROVE  Len(services'[i].protocols) = 1
    <3>1. i # n
      BY <1>6, <1>7, <1>11, <2>1
    <3>2. services'[i] = services[i] /\ i \in DOMAIN services
      BY <1>7, <3>1
    <3> QED  BY <2>1, <3>2, Zenon DEF SvcInv, ProtocolsUnambiguous
  <2>2. \A i \in DOMAIN services : services'[i].port = services[i].port
    BY <1>6, <1>7, Zenon
  <2>3. \A i, j \in DOMAIN services' : i # j => services'[i].port # services'[j].port
    <3>1. \A i, j \in DOMAIN services : i # j => services[i].port # services[j].port
      BY DEF SvcInv, ProtocolsUnambiguous
    <3> QED  BY <1>7, <2>2, <3>1
  <2> QED  BY <2>1, <2>3 DEF ProtocolsUnambiguous
<1> QED  BY <1>8, <1>9, <1>10, <1>12, ConfigStep

\* A protocol is refused.
LEMMA RefusedStep ==
    ASSUME SvcInv, phase = "config", todo' \in Seq(Protocols),
           UNCHANGED <<services, phase, sockets, accepts>>
    PROVE  SvcInv'
  BY DEF SvcInv, TypePart, ClosedBeforeInit, OpenUntilAccept,
         NeverWithoutProtocol, ListeningMeansAccepting, SocketsAccounted,
         ProtocolsUnambiguous

LEMMA AddProtocolSvcInv ==
    ASSUME SvcInv, NEW port \in Ports, svcmgr_add_protocol(port)
    PROVE  SvcInv'
<1>1. phase = "config" /\ todo # <<>> /\ todo \in Seq(Protocols)
      /\ UNCHANGED <<phase, sockets, accepts>> /\ todo' = Tail(todo)
  BY DEF svcmgr_add_protocol, SvcInv, TypePart
<1>2. Head(todo) \in Protocols /\ todo' \in Seq(Protocols)
  BY <1>1
<1>3. CASE /\ OnPort(port) = {} /\ Len(services) < MaxServices
           /\ services' = Append(services, NewService(Head(todo), port))
  BY <1>1, <1>2, <1>3, NewServiceStep
<1>4. ASSUME NEW i \in OnPort(port),
             services' = [services EXCEPT ![i].protocols = Append(@, Head(todo))],
             CanJoin(services[i], Head(todo))
      PROVE  SvcInv'
  <2>1. i \in DOMAIN services
    BY <1>4, Zenon DEF OnPort
  <2> QED  BY <1>1, <1>2, <1>4, <2>1, JoinStep
<1>5. CASE UNCHANGED services
  BY <1>1, <1>2, <1>5, RefusedStep
<1> QED  BY <1>3, <1>4, <1>5 DEF svcmgr_add_protocol

-----------------------------------------------------------------------------
(***************************************************************************)
(* Opening and closing the services.                                       *)
(***************************************************************************)

\* The state of the listeners and accepts may change while the ports and the
\* protocols of the services stay as they are.
SameServices ==
    /\ DOMAIN services' = DOMAIN services
    /\ \A i \in DOMAIN services :
         /\ services'[i].port = services[i].port
         /\ services'[i].protocols = services[i].protocols

LEMMA SameRegistered ==
    ASSUME SvcInv, SameServices
    PROVE  NeverWithoutProtocol' /\ ProtocolsUnambiguous'
<1> USE DEF SameServices
<1>1. NeverWithoutProtocol'
  BY Zenon DEF SvcInv, NeverWithoutProtocol
<1>2. ASSUME NEW i \in DOMAIN services', NEW k \in DOMAIN services'[i].protocols,
             sends_first(services'[i].protocols[k])
      PROVE  Len(services'[i].protocols) = 1
  <2>1. i \in DOMAIN services /\ services'[i].protocols = services[i].protocols
    OBVIOUS
  <2> QED  BY <1>2, <2>1 DEF SvcInv, ProtocolsUnambiguous
<1>3. \A i, j \in DOMAIN services' : i # j => services'[i].port # services'[j].port
  BY Zenon DEF SvcInv, ProtocolsUnambiguous
<1> QED  BY <1>1, <1>2, <1>3 DEF ProtocolsUnambiguous

\* What OpenedUpTo makes of the closed services.
LEMMA OpenedUpToIs ==
    ASSUME SvcInv, phase = "config", NEW n \in 0 .. Len(services)
    PROVE  /\ OpenedUpTo(n) \in Seq(Service)
           /\ Len(OpenedUpTo(n)) = Len(services)
           /\ DOMAIN OpenedUpTo(n) = DOMAIN services
           /\ \A i \in DOMAIN services :
                IF i <= n THEN Is(OpenedUpTo(n)[i], services[i], TRUE, TRUE)
                          ELSE Is(OpenedUpTo(n)[i], services[i], FALSE, FALSE)
<1>1. services \in Seq(Service) /\ Len(services) \in Nat
      /\ DOMAIN services = 1 .. Len(services)
      /\ \A i \in DOMAIN services : services[i] \in Service
  BY DEF SvcInv, TypePart
<1>2. ASSUME NEW i \in DOMAIN services
      PROVE  Is(services[i], services[i], FALSE, FALSE)
  BY <1>1 DEF SvcInv, ClosedBeforeInit, Is, Service
<1>3. ASSUME NEW i \in DOMAIN services
      PROVE  Is(Opened([svc |-> services[i], sockets |-> 0]).svc, services[i],
                TRUE, TRUE)
  <2>1. PICK m : m = [svc |-> services[i], sockets |-> 0]
    OBVIOUS
  <2>2. m \in Work /\ m.svc = services[i]
    BY <1>1, <2>1 DEF Work
  <2> QED  BY <1>2, <2>1, <2>2, OpenedIs, Zenon
<1>4. PICK f : f = OpenedUpTo(n)
  OBVIOUS
<1>5. /\ f = [i \in 1 .. Len(services) |-> f[i]]
      /\ \A i \in DOMAIN services :
           f[i] = IF i <= n THEN Opened([svc |-> services[i], sockets |-> 0]).svc
                            ELSE services[i]
  BY <1>1, <1>4, Zenon DEF OpenedUpTo
<1>6. ASSUME NEW i \in DOMAIN services
      PROVE  IF i <= n THEN Is(f[i], services[i], TRUE, TRUE)
                       ELSE Is(f[i], services[i], FALSE, FALSE)
  BY <1>2, <1>3, <1>5, Zenon
<1>7. \A i \in 1 .. Len(services) : f[i] \in Service
  BY <1>1, <1>6 DEF Is
<1>8. f \in Seq(Service) /\ Len(f) = Len(services) /\ DOMAIN f = DOMAIN services
  BY <1>1, <1>5, <1>7
<1> QED  BY <1>4, <1>6, <1>8, Zenon

\* What CloseAll makes of services.
LEMMA CloseAllIs ==
    ASSUME NEW svcs \in Seq(Service)
    PROVE  /\ CloseAll(svcs) \in Seq(Service)
           /\ Len(CloseAll(svcs)) = Len(svcs)
           /\ DOMAIN CloseAll(svcs) = DOMAIN svcs
           /\ \A i \in DOMAIN svcs :
                /\ CloseAll(svcs)[i].port = svcs[i].port
                /\ CloseAll(svcs)[i].protocols = svcs[i].protocols
                /\ ~CloseAll(svcs)[i].s
                /\ CloseAll(svcs)[i].posted = svcs[i].posted
<1>1. DOMAIN svcs = 1 .. Len(svcs) /\ Len(svcs) \in Nat
      /\ \A i \in DOMAIN svcs : svcs[i] \in Service
  OBVIOUS
<1>2. PICK f : f = CloseAll(svcs)
  OBVIOUS
<1>3. /\ f = [i \in 1 .. Len(svcs) |-> f[i]]
      /\ \A i \in DOMAIN svcs : f[i] = [svcs[i] EXCEPT !.s = FALSE]
  BY <1>1, <1>2, Zenon DEF CloseAll
<1>4. ASSUME NEW i \in DOMAIN svcs
      PROVE  /\ f[i] \in Service
             /\ f[i].port = svcs[i].port /\ f[i].protocols = svcs[i].protocols
             /\ f[i].s = FALSE /\ f[i].posted = svcs[i].posted
  <2>1. svcs[i] \in Service /\ f[i] = [svcs[i] EXCEPT !.s = FALSE]
    BY <1>1, <1>3
  <2>2. f[i] \in Service
    BY <2>1, Zenon DEF Service
  <2> QED  BY <2>1, <2>2 DEF Service
<1>5. f \in Seq(Service) /\ Len(f) = Len(svcs) /\ DOMAIN f = DOMAIN svcs
  <2>1. \A i \in 1 .. Len(svcs) : f[i] \in Service
    BY <1>1, <1>4
  <2>2. f = [i \in 1 .. Len(svcs) |-> f[i]]
    BY <1>3
  <2> QED  BY <1>1, <2>1, <2>2
<1> QED  BY <1>2, <1>4, <1>5, Zenon

\* When the services are down, the invariant is about their sockets.
LEMMA DownStep ==
    ASSUME SvcInv, phase' = "down", UNCHANGED <<todo, accepts>>,
           services' \in Seq(Service), Len(services') = Len(services),
           SameServices,
           sockets' = Cardinality(Listening') + Cardinality(Posted')
    PROVE  SvcInv'
<1>1. TypePart'
  BY DEF SvcInv, TypePart
<1>3. NeverWithoutProtocol' /\ ProtocolsUnambiguous'
  BY SameRegistered
<1>4. ClosedBeforeInit' /\ OpenUntilAccept' /\ ListeningMeansAccepting'
  BY DEF ClosedBeforeInit, OpenUntilAccept, ListeningMeansAccepting
<1>5. SocketsAccounted'
  BY DEF SocketsAccounted, Listening, Posted
<1> QED  BY <1>1, <1>3, <1>4, <1>5 DEF SvcInv

LEMMA InitOpensSvcInv == SvcInv /\ svcmgr_init => SvcInv' /\ SameServices
<1> SUFFICES ASSUME SvcInv, svcmgr_init PROVE SvcInv' /\ SameServices
  OBVIOUS
<1>1. phase = "config" /\ UNCHANGED <<todo, accepts>>
  BY DEF svcmgr_init
<1>2. services \in Seq(Service) /\ Len(services) \in Nat
      /\ DOMAIN services = 1 .. Len(services)
  BY DEF SvcInv, TypePart
<1>3. CASE /\ services' = OpenedUpTo(Len(services))
           /\ sockets' = 2 * Len(services)
           /\ phase' = "running"
  <2>1. Len(services) \in 0 .. Len(services)
    BY <1>2
  <2>2. /\ services' \in Seq(Service) /\ Len(services') = Len(services)
        /\ DOMAIN services' = DOMAIN services
        /\ \A i \in DOMAIN services :
             Is(services'[i], services[i], TRUE, TRUE)
    <3> DEFINE f == OpenedUpTo(Len(services))
    <3>1. /\ f \in Seq(Service) /\ Len(f) = Len(services)
          /\ DOMAIN f = DOMAIN services
          /\ \A i \in DOMAIN services :
               IF i <= Len(services) THEN Is(f[i], services[i], TRUE, TRUE)
                                     ELSE Is(f[i], services[i], FALSE, FALSE)
      BY <1>1, <2>1, OpenedUpToIs
    <3>2. \A i \in DOMAIN services : i <= Len(services)
      BY <1>2
    <3> HIDE DEF f
    <3>3. services' = f
      BY <1>3 DEF f
    <3> QED  BY <3>1, <3>2, <3>3, Zenon
  <2>3. TypePart'
    BY <1>1, <1>3, <2>2 DEF SvcInv, TypePart
  <2>s. SameServices
    BY <2>2 DEF Is, SameServices
  <2>4. NeverWithoutProtocol' /\ ProtocolsUnambiguous'
    BY <2>s, SameRegistered
  <2>5. ClosedBeforeInit' /\ OpenUntilAccept' /\ ListeningMeansAccepting'
    BY <1>3, <2>2
       DEF ClosedBeforeInit, OpenUntilAccept, ListeningMeansAccepting, Is
  <2>6. Listening' = 1 .. Len(services) /\ Posted' = 1 .. Len(services)
    BY <1>2, <2>2 DEF Listening, Posted, Is
  <2>7. sockets' = Cardinality(Listening') + Cardinality(Posted')
    BY <1>2, <1>3, <2>6, UpTo
  <2>8. SocketsAccounted'
    BY <2>7 DEF SocketsAccounted, Listening, Posted
  <2> QED  BY <2>s, <2>3, <2>4, <2>5, <2>8 DEF SvcInv
<1>4. ASSUME NEW n \in 0 .. Len(services) - 1,
             services' = CloseAll(OpenedUpTo(n)),
             sockets' = n, phase' = "down"
      PROVE  SvcInv' /\ SameServices
  <2>1. n \in 0 .. Len(services)
    BY <1>2
  <2>2. /\ OpenedUpTo(n) \in Seq(Service)
        /\ Len(OpenedUpTo(n)) = Len(services)
        /\ DOMAIN OpenedUpTo(n) = DOMAIN services
        /\ \A i \in DOMAIN services :
             /\ OpenedUpTo(n)[i].port = services[i].port
             /\ OpenedUpTo(n)[i].protocols = services[i].protocols
             /\ OpenedUpTo(n)[i].posted <=> i <= n
    BY <1>1, <2>1, OpenedUpToIs DEF Is
  <2>3. /\ services' \in Seq(Service) /\ Len(services') = Len(services)
        /\ DOMAIN services' = DOMAIN services
        /\ \A i \in DOMAIN services :
             /\ services'[i].port = services[i].port
             /\ services'[i].protocols = services[i].protocols
             /\ ~services'[i].s
             /\ services'[i].posted <=> i <= n
    BY <1>4, <2>2, CloseAllIs
  <2>4. Listening' = {} /\ Posted' = 1 .. n
    BY <1>2, <2>3 DEF Listening, Posted
  <2>5. sockets' = Cardinality(Listening') + Cardinality(Posted')
    BY <1>4, <2>4, UpTo, FS_EmptySet
  <2>6. SameServices
    BY <2>3 DEF SameServices
  <2> QED  BY <1>1, <1>4, <2>3, <2>5, <2>6, DownStep
<1> QED  BY <1>3, <1>4 DEF svcmgr_init

LEMMA ShutdownSvcInv == SvcInv /\ svcmgr_shutdown => SvcInv' /\ SameServices
<1> SUFFICES ASSUME SvcInv, svcmgr_shutdown PROVE SvcInv' /\ SameServices
  OBVIOUS
<1>1. /\ phase = "running" /\ accepts = 0
      /\ services' = CloseAll(services)
      /\ sockets' = sockets - Len(services)
      /\ phase' = "down"
      /\ UNCHANGED <<todo, accepts>>
  BY DEF svcmgr_shutdown
<1>2. services \in Seq(Service) /\ Len(services) \in Nat
      /\ DOMAIN services = 1 .. Len(services)
  BY DEF SvcInv, TypePart
<1>3. \A i \in DOMAIN services : services[i].s /\ services[i].posted
  BY <1>1 DEF SvcInv, OpenUntilAccept
<1>4. /\ services' \in Seq(Service) /\ Len(services') = Len(services)
      /\ DOMAIN services' = DOMAIN services
      /\ \A i \in DOMAIN services :
           /\ services'[i].port = services[i].port
           /\ services'[i].protocols = services[i].protocols
           /\ ~services'[i].s
           /\ services'[i].posted = services[i].posted
  BY <1>1, <1>2, CloseAllIs
<1>5. /\ Listening = 1 .. Len(services) /\ Posted = 1 .. Len(services)
      /\ Listening' = {} /\ Posted' = 1 .. Len(services)
  BY <1>2, <1>3, <1>4 DEF Listening, Posted
<1>6. sockets = Cardinality(Listening) + Cardinality(Posted)
  BY DEF SvcInv, SocketsAccounted, Listening, Posted
<1>7. sockets' = Cardinality(Listening') + Cardinality(Posted')
  BY <1>1, <1>2, <1>5, <1>6, UpTo, FS_EmptySet
<1>8. SameServices
  BY <1>4 DEF SameServices
<1> QED  BY <1>1, <1>4, <1>7, <1>8, DownStep

-----------------------------------------------------------------------------
(***************************************************************************)
(* Accepting.                                                              *)
(***************************************************************************)

LEMMA OnAcceptSvcInv ==
    ASSUME SvcInv, NEW n \in DOMAIN services, NEW err, service_on_accept(n, err)
    PROVE  SvcInv' /\ SameServices
<1>1. PICK m \in service_async_accept(Completed([svc |-> services[n],
                                                 sockets |-> sockets])) :
        services' = [services EXCEPT ![n] = m.svc] /\ sockets' = m.sockets
  BY DEF service_on_accept
<1>2. /\ phase = "running" /\ phase' = phase /\ todo' = todo
      /\ accepts \in 0 .. MaxAccepts /\ accepts < MaxAccepts
      /\ accepts' = accepts + 1 /\ services[n].posted
  BY DEF service_on_accept, SvcInv, TypePart
<1>3. services \in Seq(Service) /\ services[n] \in Service
      /\ DOMAIN services = 1 .. Len(services)
  BY DEF SvcInv, TypePart
<1>4. Is(services[n], services[n], TRUE, TRUE)
  BY <1>2, <1>3 DEF SvcInv, ListeningMeansAccepting, Is, Service
<1>5. sockets = Cardinality(Listening) + Cardinality(Posted)
  BY DEF SvcInv, SocketsAccounted, Listening, Posted
<1>6. /\ IsFiniteSet(Listening) /\ Cardinality(Listening) \in Nat
      /\ IsFiniteSet(Posted) /\ Cardinality(Posted) \in Nat
  BY ServicesFinite DEF SvcInv
<1>7. sockets \in Int
  BY <1>5, <1>6
<1>8. \/ Is(m.svc, services[n], TRUE, TRUE) /\ m.sockets = sockets
      \/ Is(m.svc, services[n], FALSE, FALSE) /\ m.sockets = sockets - 2
  BY <1>1, <1>3, <1>4, <1>7, AcceptedIs
<1>9. /\ services' \in Seq(Service) /\ Len(services') = Len(services)
      /\ DOMAIN services' = DOMAIN services
      /\ services'[n] = m.svc
      /\ \A i \in DOMAIN services : i # n => services'[i] = services[i]
  <2>1. PICK new : new = m.svc
    OBVIOUS
  <2>2. new \in Service
    BY <1>8, <2>1 DEF Is
  <2>3. services' = [services EXCEPT ![n] = new]
    BY <1>1, <2>1
  <2> QED  BY <1>3, <2>1, <2>2, <2>3
<1>10. TypePart'
  <2>1. accepts' \in 0 .. MaxAccepts
    BY <1>2, SvcAssumption
  <2> QED  BY <1>2, <1>9, <2>1 DEF SvcInv, TypePart
<1>s. SameServices
  <2>1. /\ services'[n].port = services[n].port
        /\ services'[n].protocols = services[n].protocols
    BY <1>8, <1>9 DEF Is
  <2> QED  BY <1>9, <2>1 DEF SameServices
<1>11. NeverWithoutProtocol' /\ ProtocolsUnambiguous'
  BY <1>s, SameRegistered
<1>12. ClosedBeforeInit' /\ OpenUntilAccept'
  BY <1>2 DEF ClosedBeforeInit, OpenUntilAccept
<1>13. ListeningMeansAccepting'
  <2> SUFFICES ASSUME NEW i \in DOMAIN services
               PROVE  /\ services'[i].s <=> services'[i].posted
                      /\ services'[i].pending_work
                           = IF services'[i].posted THEN 1 ELSE 0
    BY <1>9 DEF ListeningMeansAccepting
  <2>1. CASE i = n
    BY <1>8, <1>9, <2>1 DEF Is
  <2>2. CASE i # n
    BY <1>2, <1>9, <2>2 DEF SvcInv, ListeningMeansAccepting
  <2> QED  BY <2>1, <2>2
<1>14. n \in Listening /\ n \in Posted
  BY <1>4 DEF Listening, Posted, Is
<1>15. sockets' = Cardinality(Listening') + Cardinality(Posted')
  <2>1. CASE Is(m.svc, services[n], TRUE, TRUE) /\ m.sockets = sockets
    <3>1. Listening' = Listening /\ Posted' = Posted
      BY <1>4, <1>9, <2>1 DEF Listening, Posted, Is
    <3> QED  BY <1>1, <1>5, <2>1, <3>1
  <2>2. CASE Is(m.svc, services[n], FALSE, FALSE) /\ m.sockets = sockets - 2
    <3>1. Listening' = Listening \ {n} /\ Posted' = Posted \ {n}
      BY <1>9, <2>2 DEF Listening, Posted, Is
    <3>2. /\ Cardinality(Listening \ {n}) = Cardinality(Listening) - 1
          /\ Cardinality(Posted \ {n}) = Cardinality(Posted) - 1
      BY <1>6, <1>14, FS_RemoveElement
    <3> QED  BY <1>1, <1>5, <1>6, <2>2, <3>1, <3>2
  <2> QED  BY <1>8, <2>1, <2>2
<1>16. SocketsAccounted'
  BY <1>15 DEF SocketsAccounted, Listening, Posted
<1> QED  BY <1>s, <1>10, <1>11, <1>12, <1>13, <1>16 DEF SvcInv

-----------------------------------------------------------------------------
(***************************************************************************)
(* The result, for the service manager alone.                              *)
(***************************************************************************)

LEMMA NextSvcInv == SvcInv /\ [Next]_vars => SvcInv'
<1> SUFFICES ASSUME SvcInv, [Next]_vars PROVE SvcInv'
  OBVIOUS
<1>1. CASE UNCHANGED vars
  BY <1>1 DEF vars, SvcInv, TypePart, ClosedBeforeInit, OpenUntilAccept,
              NeverWithoutProtocol, ListeningMeansAccepting, SocketsAccounted,
              ProtocolsUnambiguous
<1> QED
  BY <1>1, AddProtocolSvcInv, InitOpensSvcInv, ShutdownSvcInv, OnAcceptSvcInv
     DEF Next

\* On whatever ports the protocols are registered and whatever calls of the
\* operating system fail, a service that listens has one accept under way, the
\* open sockets are accounted for, and the protocols can be told apart.
THEOREM ServicesSafe ==
    Spec => [](TypeOK /\ ListeningMeansAccepting /\ SocketsAccounted
               /\ ProtocolsUnambiguous)
<1>1. SvcInv => TypeOK /\ ListeningMeansAccepting /\ SocketsAccounted
                /\ ProtocolsUnambiguous
  BY SvcInvType DEF SvcInv
<1> QED  BY <1>1, InitSvcInv, NextSvcInv, PTL DEF Spec

-----------------------------------------------------------------------------
(***************************************************************************)
(* The settings: the inductive invariant of Config.                        *)
(***************************************************************************)

Used(x) == config_table[x].key # ""

\* The loops stay inside their arrays.
TurnInLoop ==
    /\ stage \in {"defaults", "file"} => turn <= Len(Defaults)
    /\ stage = "args" => turn <= MaxArgs + 1
    /\ stage = "ready" => turn = 1

\* The defaults that have had their turn are the only keys of the table.
KeysLoaded ==
    stage = "defaults" =>
      /\ \A x \in Indexes : Used(x) =>
           \E m \in 1 .. turn - 1 : config_table[x].key = Defaults[m].key
      /\ \A m \in DOMAIN Defaults : said[Defaults[m].key] = Defaults[m].value

\* No key is stored twice.
KeysOnce ==
    \A x, y \in Indexes :
        Used(x) /\ config_table[x].key = config_table[y].key => x = y

\* A key is stored in one of the slots where it is looked for.
KeysInReach ==
    \A x \in Indexes : Used(x) =>
        \E n \in 0 .. MaxCollisions - 1 : x = Probe(config_table[x].key, n)

\* A slot has the value last said for its key, unless an abbreviation of the
\* key has changed it.
ValuesSaid ==
    \A x \in Indexes : Used(x) =>
        \/ config_table[x].value = said[config_table[x].key]
        \/ config_table[x].key \in expanded

CfgInv ==
    /\ CfgTypeOK
    /\ TurnInLoop
    /\ KeysLoaded
    /\ KeysOnce
    /\ KeysInReach
    /\ ValuesSaid

-----------------------------------------------------------------------------
(***************************************************************************)
(* Looking for a slot.                                                     *)
(***************************************************************************)

\* Every non-empty set of numbers has a least one.
LEMMA LeastExists ==
    ASSUME NEW S \in SUBSET Nat, S # {}
    PROVE  \E n \in S : \A o \in S : n <= o
<1>1. PICK R : R = OpToRel(<, Nat)
  BY Zenon
<1>2. IsWellFoundedOn(R, Nat)
  BY <1>1, NatLessThanWellFounded, Zenon
<1>3. \E n \in S : \A o \in S : ~(<<o, n>> \in R)
  BY <1>2, WFMin
<1>4. PICK n \in S : \A o \in S : ~(<<o, n>> \in R)
  BY <1>3
<1>5. ASSUME NEW o \in S PROVE n <= o
  <2>1. ~(<<o, n>> \in OpToRel(<, Nat))
    BY <1>1, <1>4, Zenon
  <2>2. ~(o < n)
    BY <2>1 DEF OpToRel
  <2> QED  BY <2>2
<1> QED  BY <1>5

LEMMA SizesAreNumbers ==
    /\ MaxVars \in Nat \ {0} /\ MaxCollisions \in Nat \ {0} /\ MaxArgs \in Nat
<1>1. /\ MaxVars \in Nat \ {0} /\ MaxCollisions \in 1 .. MaxVars
      /\ MaxArgs \in Nat
  BY ConfigAssumption, Zenon
<1> QED  BY <1>1

\* The slots looked at are slots of the table.
LEMMA ProbeInTable ==
    ASSUME CfgTypeOK, NEW name \in Names, NEW n \in Nat
    PROVE  Probe(name, n) \in Indexes
<1>1. hash[name] \in Indexes
  BY DEF CfgTypeOK
<1>2. hash[name] + n \in Nat /\ MaxVars \in Nat \ {0}
  BY <1>1, SizesAreNumbers DEF Indexes
<1>3. (hash[name] + n) % MaxVars \in 0 .. MaxVars - 1
  BY <1>2
<1> QED  BY <1>3 DEF Probe, Indexes

\* What config_var_find returns.
LEMMA FindReturns ==
    ASSUME CfgTypeOK, NEW name \in Names
    PROVE  LET x == config_var_find(name)
           IN  \/ /\ x \in Indexes
                  /\ Matches(name, config_table[x].key)
               \/ /\ x = NotFound
                  /\ \A n \in 0 .. MaxCollisions - 1 :
                       ~Matches(name, config_table[Probe(name, n)].key)
<1> DEFINE hits == {n \in 0 .. MaxCollisions - 1 :
                      Matches(name, config_table[Probe(name, n)].key)}
           first == CHOOSE n \in hits : \A o \in hits : n <= o
<1>1. config_var_find(name) = IF hits = {} THEN NotFound ELSE Probe(name, first)
  BY DEF config_var_find, FirstProbe
<1>2. CASE hits = {}
  BY <1>1, <1>2
<1>3. CASE hits # {}
  <2>1. hits \in SUBSET Nat
    <3>1. hits \in SUBSET (0 .. MaxCollisions - 1)
      BY Zenon
    <3>2. 0 .. MaxCollisions - 1 \in SUBSET Nat
      BY SizesAreNumbers
    <3> QED  BY <3>1, <3>2, Zenon
  <2>2. first \in hits
    <3> HIDE DEF hits
    <3>1. \E n \in hits : \A o \in hits : n <= o
      BY <1>3, <2>1, LeastExists
    <3> QED  BY <3>1
  <2> HIDE DEF first
  <2>3. first \in Nat /\ Matches(name, config_table[Probe(name, first)].key)
    BY <2>2
  <2>4. Probe(name, first) \in Indexes
    BY <2>3, ProbeInTable
  <2> QED  BY <1>1, <1>3, <2>3, <2>4
<1> QED  BY <1>2, <1>3

\* What config_var_insert returns.
LEMMA InsertReturns ==
    ASSUME CfgTypeOK, NEW key \in Names
    PROVE  LET x == config_var_insert(key)
           IN  \/ /\ x \in Indexes /\ ~Used(x)
                  /\ \E n \in 0 .. MaxCollisions - 1 : x = Probe(key, n)
               \/ x = NotFound
<1> DEFINE hits == {n \in 0 .. MaxCollisions - 1 :
                      config_table[Probe(key, n)].key = ""}
           first == CHOOSE n \in hits : \A o \in hits : n <= o
<1>1. config_var_insert(key) = IF hits = {} THEN NotFound ELSE Probe(key, first)
  BY DEF config_var_insert, FirstProbe
<1>2. CASE hits = {}
  BY <1>1, <1>2
<1>3. CASE hits # {}
  <2>1. hits \in SUBSET Nat
    <3>1. hits \in SUBSET (0 .. MaxCollisions - 1)
      BY Zenon
    <3>2. 0 .. MaxCollisions - 1 \in SUBSET Nat
      BY SizesAreNumbers
    <3> QED  BY <3>1, <3>2, Zenon
  <2>2. first \in hits
    <3> HIDE DEF hits
    <3>1. \E n \in hits : \A o \in hits : n <= o
      BY <1>3, <2>1, LeastExists
    <3> QED  BY <3>1
  <2> HIDE DEF first
  <2>3. first \in 0 .. MaxCollisions - 1 /\ first \in Nat
        /\ config_table[Probe(key, first)].key = ""
    <3>1. first \in 0 .. MaxCollisions - 1
          /\ config_table[Probe(key, first)].key = ""
      BY <2>2, Zenon
    <3> QED  BY <2>1, <2>2, <3>1, Zenon
  <2>4. Probe(key, first) \in Indexes
    BY <2>3, ProbeInTable
  <2> QED  BY <1>1, <1>3, <2>3, <2>4 DEF Used
<1> QED  BY <1>2, <1>3

\* There are defaults.
LEMMA DefaultsLen ==
    Len(Defaults) \in Nat \ {0} /\ DOMAIN Defaults = 1 .. Len(Defaults)
<1>1. PICK S : S = [key : STRING, value : Values]
  BY Zenon
<1>2. Defaults \in Seq(S) /\ "config" \in Keys
  BY <1>1, ConfigAssumption, Zenon
<1>3. DOMAIN Defaults # {}
  BY <1>2, Zenon DEF Keys
<1>4. Len(Defaults) \in Nat /\ DOMAIN Defaults = 1 .. Len(Defaults)
  BY <1>2
<1> QED  BY <1>3, <1>4

\* The defaults have keys and values.
LEMMA DefaultsAre ==
    /\ \A m \in DOMAIN Defaults :
         /\ Defaults[m] = [key |-> Defaults[m].key, value |-> Defaults[m].value]
         /\ Defaults[m].key \in Keys /\ Defaults[m].value \in Values
    /\ \A i, j \in DOMAIN Defaults : Defaults[i].key = Defaults[j].key => i = j
    /\ \A k \in Keys : k # "" /\ k \in Names /\ k \notin Abbreviations
<1>1. PICK S : S = [key : STRING, value : Values]
  BY Zenon
<1>2. Defaults \in Seq(S)
  BY <1>1, ConfigAssumption, Zenon
<1>3. ASSUME NEW m \in DOMAIN Defaults
      PROVE  /\ Defaults[m] = [key |-> Defaults[m].key, value |-> Defaults[m].value]
             /\ Defaults[m].key \in Keys /\ Defaults[m].value \in Values
  <2>1. Defaults[m] \in S
    BY <1>2, <1>3
  <2>2. Defaults[m] \in [key : STRING, value : Values]
    BY <1>1, <2>1, Zenon
  <2> QED  BY <2>2 DEF Keys
<1>4. ASSUME NEW k \in Keys PROVE k # "" /\ k \in Names /\ k \notin Abbreviations
  <2>1. Abbreviations \cap Keys = {} /\ "" \notin Names
    BY ConfigAssumption, Zenon
  <2> QED  BY <2>1, Zenon DEF Names
<1>5. \A i, j \in DOMAIN Defaults : Defaults[i].key = Defaults[j].key => i = j
  BY ConfigAssumption, Zenon
<1> QED  BY <1>3, <1>4, <1>5, Zenon

\* A key is found when it is stored, and nothing else is found in its place.
LEMMA FindKey ==
    ASSUME CfgInv, NEW k \in Keys
    PROVE  LET x == config_var_find(k)
           IN  \/ x \in Indexes /\ config_table[x].key = k
               \/ /\ x = NotFound
                  /\ \A y \in Indexes : config_table[y].key # k
<1>1. k # "" /\ k \in Names /\ k \notin Abbreviations
  BY DefaultsAre
<1>2. \A key : Matches(k, key) <=> key = k
  BY <1>1 DEF Matches
<1>3. CASE /\ config_var_find(k) = NotFound
           /\ \A n \in 0 .. MaxCollisions - 1 :
                ~Matches(k, config_table[Probe(k, n)].key)
  <2> SUFFICES ASSUME NEW y \in Indexes, config_table[y].key = k PROVE FALSE
    BY <1>3
  <2>1. Used(y)
    BY <1>1 DEF Used
  <2>2. PICK n \in 0 .. MaxCollisions - 1 : y = Probe(config_table[y].key, n)
    BY <2>1 DEF CfgInv, KeysInReach
  <2> QED  BY <1>2, <1>3, <2>2
<1> QED  BY <1>1, <1>2, <1>3, FindReturns DEF CfgInv

\* An abbreviation finds a key that is stored, if anything.
LEMMA FindAbbreviation ==
    ASSUME CfgTypeOK, NEW name \in Abbreviations,
           config_var_find(name) # NotFound
    PROVE  LET x == config_var_find(name)
           IN  x \in Indexes /\ config_table[x].key \in Keys
<1> DEFINE x == config_var_find(name)
<1>1. name \in Names
  BY DEF Names
<1> HIDE DEF x
<1>2. x \in Indexes /\ Matches(name, config_table[x].key)
  BY <1>1, FindReturns DEF x
<1>3. config_table[x].key \in Keys \cup {""}
  BY <1>2 DEF CfgTypeOK
<1>4. /\ name # "" /\ name \notin Keys
      /\ Expands[name] \in SUBSET Keys
  <2>1. /\ "" \notin Names /\ Abbreviations \cap Keys = {}
        /\ Expands \in [Abbreviations -> SUBSET Keys]
    BY ConfigAssumption, Zenon
  <2> QED  BY <1>1, <2>1
<1>5. config_table[x].key \in Keys
  BY <1>2, <1>3, <1>4, Zenon DEF Matches
<1> QED  BY <1>2, <1>5 DEF x

-----------------------------------------------------------------------------
(***************************************************************************)
(* The loops.                                                              *)
(***************************************************************************)

LEMMA InitCfgInv == CfgInit => CfgInv
<1> SUFFICES ASSUME CfgInit PROVE CfgInv
  OBVIOUS
<1> DEFINE Val(k) == (CHOOSE d \in {Defaults[n] : n \in DOMAIN Defaults} :
                        d.key = k).value
<1>1. ASSUME NEW m \in DOMAIN Defaults
      PROVE  Val(Defaults[m].key) = Defaults[m].value
  <2>1. PICK d : d = CHOOSE e \in {Defaults[n] : n \in DOMAIN Defaults} :
                       e.key = Defaults[m].key
    OBVIOUS
  <2>2. d \in {Defaults[n] : n \in DOMAIN Defaults} /\ d.key = Defaults[m].key
    BY <1>1, <2>1
  <2>3. PICK n \in DOMAIN Defaults : d = Defaults[n]
    BY <2>2
  <2>4. n = m
    <3>1. \A i, j \in DOMAIN Defaults :
            Defaults[i].key = Defaults[j].key => i = j
      BY DefaultsAre
    <3> QED  BY <2>2, <2>3, <3>1
  <2> QED  BY <2>1, <2>3, <2>4
<1>2. ASSUME NEW k \in Keys PROVE Val(k) \in Values
  <2>1. PICK m \in DOMAIN Defaults : k = Defaults[m].key
    BY <1>2 DEF Keys
  <2>2. Val(k) = Defaults[m].value
    BY <1>1, <2>1
  <2> QED  BY <2>2, DefaultsAre
<1>3. said = [k \in Keys |-> Val(k)]
  BY DEF CfgInit
<1> HIDE DEF Val
<1>4. /\ said \in [Keys -> Values \cup {"", "true"}]
      /\ \A m \in DOMAIN Defaults : said[Defaults[m].key] = Defaults[m].value
  BY <1>1, <1>2, <1>3, DefaultsAre
<1>5. \A x \in Indexes : ~Used(x)
  BY DEF CfgInit, Used, Zeroed
<1>t. turn = 1 /\ stage = "defaults"
  BY Zenon DEF CfgInit
<1>6. CfgTypeOK
  <2>1. Hashes \subseteq [Names -> Indexes]
    BY ConfigAssumption, Zenon
  <2>2. hash \in [Names -> Indexes]
    BY <2>1 DEF CfgInit
  <2>3. config_table \in [Indexes -> [key : Keys \cup {""},
                                      value : Values \cup {"", "true"}]]
    BY DEF CfgInit, Zeroed
  <2>4. turn \in 1 .. Len(Defaults) + MaxArgs
    BY <1>t, DefaultsLen, SizesAreNumbers
  <2> QED  BY <1>4, <2>2, <2>3, <2>4 DEF CfgInit, CfgTypeOK
<1>7. TurnInLoop
  BY <1>t, DefaultsLen DEF TurnInLoop
<1>8. KeysLoaded
  BY <1>4, <1>5 DEF KeysLoaded
<1>9. KeysOnce /\ KeysInReach /\ ValuesSaid
  BY <1>5 DEF KeysOnce, KeysInReach, ValuesSaid
<1> QED  BY <1>6, <1>7, <1>8, <1>9 DEF CfgInv

\* The numbers of the turns.
LEMMA Turns ==
    ASSUME NEW t \in 1 .. Len(Defaults) + MaxArgs
    PROVE  /\ t <= Len(Defaults) => t \in DOMAIN Defaults
           /\ t <= MaxArgs => /\ t + 1 \in 1 .. Len(Defaults) + MaxArgs
                              /\ t + 1 <= MaxArgs + 1
  BY DefaultsLen, SizesAreNumbers

\* A turn of a loop over the defaults.
LEMMA NextTurnStays ==
    ASSUME CfgTypeOK, stage \in {"defaults", "file"}, turn <= Len(Defaults),
           NEW next \in {"args", "ready"}, NextTurn(next)
    PROVE  /\ stage' \in {"defaults", "args", "file", "ready"}
           /\ turn' \in 1 .. Len(Defaults) + MaxArgs
           /\ TurnInLoop'
           /\ stage' = "defaults" => stage = "defaults" /\ turn' = turn + 1
<1> USE DefaultsLen, SizesAreNumbers
<1>1. turn \in 1 .. Len(Defaults) + MaxArgs
  BY DEF CfgTypeOK
<1>2. CASE turn < Len(Defaults)
  <2>1. turn' = turn + 1 /\ stage' = stage
    BY <1>2 DEF NextTurn
  <2> QED  BY <1>1, <1>2, <2>1 DEF TurnInLoop
<1>3. CASE ~(turn < Len(Defaults))
  <2>1. turn' = 1 /\ stage' = next
    BY <1>3 DEF NextTurn
  <2> QED  BY <2>1 DEF TurnInLoop
<1> QED  BY <1>2, <1>3

LEMMA LoadDefaultCfgInv == CfgInv /\ LoadDefault => CfgInv'
<1> SUFFICES ASSUME CfgInv, LoadDefault PROVE CfgInv'
  OBVIOUS
<1>1. /\ stage = "defaults" /\ NextTurn("args")
      /\ UNCHANGED <<hash, said, expanded>>
  BY DEF LoadDefault
<1>2. turn \in 1 .. Len(Defaults) + MaxArgs /\ turn <= Len(Defaults)
  BY <1>1 DEF CfgInv, CfgTypeOK, TurnInLoop
<1>3. turn \in DOMAIN Defaults
  BY <1>2, Turns, Zenon
<1>4. PICK d : d = Defaults[turn]
  OBVIOUS
<1>5. /\ d.key \in Keys /\ d.value \in Values /\ d.key # "" /\ d.key \in Names
      /\ d = [key |-> d.key, value |-> d.value]
      /\ said[d.key] = d.value
  BY <1>1, <1>3, <1>4, DefaultsAre DEF CfgInv, KeysLoaded
<1>6. /\ stage' \in {"defaults", "args", "file", "ready"}
      /\ turn' \in 1 .. Len(Defaults) + MaxArgs
      /\ TurnInLoop'
      /\ stage' = "defaults" => turn' = turn + 1
  BY <1>1, <1>2, NextTurnStays DEF CfgInv
<1>t. stage' = "defaults" => turn' - 1 = turn
  BY <1>2, <1>6, DefaultsLen, SizesAreNumbers
<1>7. CASE config_table' = config_table
  <2>1. CfgTypeOK'
    BY <1>1, <1>6, <1>7 DEF CfgInv, CfgTypeOK
  <2>2. KeysOnce' /\ KeysInReach' /\ ValuesSaid'
    BY <1>1, <1>7
       DEF CfgInv, KeysOnce, KeysInReach, ValuesSaid, Used, Probe
  <2>3. KeysLoaded'
    <3>1. \A m \in 1 .. turn - 1 : m \in 1 .. turn
      BY <1>2, DefaultsLen, SizesAreNumbers
    <3>3. \A x \in Indexes : Used(x) =>
            \E m \in 1 .. turn : config_table[x].key = Defaults[m].key
      BY <1>1, <3>1 DEF CfgInv, KeysLoaded
    <3>4. \A m \in DOMAIN Defaults : said'[Defaults[m].key] = Defaults[m].value
      BY <1>1 DEF CfgInv, KeysLoaded
    <3> QED  BY <1>7, <1>t, <3>3, <3>4 DEF KeysLoaded, Used
  <2> QED  BY <1>6, <2>1, <2>2, <2>3 DEF CfgInv
<1>8. ASSUME NEW x \in Indexes, ~Used(x),
             \E n \in 0 .. MaxCollisions - 1 : x = Probe(d.key, n),
             config_table' = [config_table EXCEPT ![x] = d]
      PROVE  CfgInv'
  <2>1. /\ config_table'[x] = d
        /\ \A y \in Indexes : y # x => config_table'[y] = config_table[y]
    BY <1>8 DEF CfgInv, CfgTypeOK
  <2>2. CfgTypeOK'
    <3>1. d \in [key : Keys \cup {""}, value : Values \cup {"", "true"}]
      BY <1>5
    <3>2. config_table' \in [Indexes -> [key : Keys \cup {""},
                                         value : Values \cup {"", "true"}]]
      BY <1>8, <3>1, Zenon DEF CfgInv, CfgTypeOK
    <3> QED  BY <1>1, <1>6, <3>2 DEF CfgInv, CfgTypeOK
  <2>3. ASSUME NEW y \in Indexes, Used(y) PROVE config_table[y].key # d.key
    <3>1. PICK m \in 1 .. turn - 1 : config_table[y].key = Defaults[m].key
      BY <1>1, <2>3 DEF CfgInv, KeysLoaded
    <3>2. m \in DOMAIN Defaults /\ m # turn
      BY <1>2, <1>3, DefaultsLen, SizesAreNumbers
    <3>3. \A i, j \in DOMAIN Defaults :
            Defaults[i].key = Defaults[j].key => i = j
      BY DefaultsAre
    <3> QED  BY <1>3, <1>4, <3>1, <3>2, <3>3
  <2>4. KeysOnce'
    <3> SUFFICES ASSUME NEW y \in Indexes, NEW z \in Indexes, y # z,
                        config_table'[y].key # "",
                        config_table'[y].key = config_table'[z].key
                 PROVE  FALSE
      BY DEF KeysOnce, Used
    <3>1. CASE y = x
      BY <1>5, <2>1, <2>3, <3>1 DEF Used
    <3>2. CASE z = x
      BY <1>5, <2>1, <2>3, <3>2 DEF Used
    <3>3. CASE y # x /\ z # x
      BY <2>1, <3>3 DEF CfgInv, KeysOnce, Used
    <3> QED  BY <3>1, <3>2, <3>3
  <2>5. KeysInReach'
    <3> SUFFICES ASSUME NEW y \in Indexes, config_table'[y].key # ""
                 PROVE  \E n \in 0 .. MaxCollisions - 1 :
                          y = Probe(config_table'[y].key, n)
      BY <1>1 DEF KeysInReach, Used, Probe
    <3>1. CASE y = x
      BY <1>8, <2>1, <3>1
    <3>2. CASE y # x
      BY <2>1, <3>2 DEF CfgInv, KeysInReach, Used
    <3> QED  BY <3>1, <3>2
  <2>6. ValuesSaid'
    <3> SUFFICES ASSUME NEW y \in Indexes, config_table'[y].key # ""
                 PROVE  \/ config_table'[y].value = said[config_table'[y].key]
                        \/ config_table'[y].key \in expanded
      BY <1>1 DEF ValuesSaid, Used
    <3>1. CASE y = x
      BY <1>5, <2>1, <3>1
    <3>2. CASE y # x
      BY <2>1, <3>2 DEF CfgInv, ValuesSaid, Used
    <3> QED  BY <3>1, <3>2
  <2>7. KeysLoaded'
    <3> SUFFICES ASSUME stage' = "defaults"
                 PROVE  \A y \in Indexes : config_table'[y].key # "" =>
                          \E m \in 1 .. turn : config_table'[y].key = Defaults[m].key
      <4>2. \A m \in DOMAIN Defaults : said'[Defaults[m].key] = Defaults[m].value
        BY <1>1 DEF CfgInv, KeysLoaded
      <4> QED  BY <1>t, <4>2 DEF KeysLoaded, Used
    <3> TAKE y \in Indexes
    <3>1. CASE y = x
      <4>1. turn \in 1 .. turn
        BY <1>2, DefaultsLen, SizesAreNumbers
      <4> QED  BY <1>4, <2>1, <3>1, <4>1, Zenon
    <3>2. CASE y # x
      <4>1. Used(y) =>
              \E m \in 1 .. turn - 1 : config_table[y].key = Defaults[m].key
        BY <1>1 DEF CfgInv, KeysLoaded
      <4>2. \A m \in 1 .. turn - 1 : m \in 1 .. turn
        BY <1>2, DefaultsLen, SizesAreNumbers
      <4> QED  BY <2>1, <3>2, <4>1, <4>2 DEF Used
    <3> QED  BY <3>1, <3>2
  <2> QED  BY <1>6, <2>2, <2>4, <2>5, <2>6, <2>7 DEF CfgInv
<1>9. CfgTypeOK /\ d.key \in Names
  BY <1>5 DEF CfgInv
<1> QED  BY <1>4, <1>7, <1>8, <1>9, InsertReturns DEF LoadDefault

\* The command line and the file change values of keys that are stored: the
\* slots keep their keys.
LEMMA SetValueCfgInv ==
    ASSUME CfgInv, NEW x \in Indexes, Used(x),
           NEW v \in Values \cup {"", "true"},
           config_var_set_value(x, v), stage # "defaults", stage' # "defaults",
           stage' \in {"defaults", "args", "file", "ready"},
           turn' \in 1 .. Len(Defaults) + MaxArgs, TurnInLoop', hash' = hash,
           \/ /\ said' = [said EXCEPT ![config_table[x].key] = v]
              /\ UNCHANGED expanded
           \/ /\ expanded' = expanded \cup {config_table[x].key}
              /\ UNCHANGED said
    PROVE  CfgInv'
<1> DEFINE Slot == [key : Keys \cup {""}, value : Values \cup {"", "true"}]
<1>1. /\ config_table \in [Indexes -> Slot] /\ config_table[x] \in Slot
      /\ config_table[x].key \in Keys
  BY DEF CfgInv, CfgTypeOK, Used
<1>2. PICK new : new = [config_table[x] EXCEPT !.value = v]
  OBVIOUS
<1>3. new \in Slot
  BY <1>1, <1>2, Zenon
<1>4. new.key = config_table[x].key /\ new.value = v
  BY <1>1, <1>2
<1>5. config_table' = [config_table EXCEPT ![x] = new]
  BY <1>1, <1>2, Zenon DEF config_var_set_value
<1>6. /\ config_table' \in [Indexes -> Slot]
      /\ config_table'[x] = new
      /\ \A y \in Indexes : y # x => config_table'[y] = config_table[y]
  BY <1>1, <1>3, <1>5
<1>7. \A y \in Indexes : config_table'[y].key = config_table[y].key
  BY <1>4, <1>6
<1>8. CfgTypeOK'
  <2>1. said' \in [Keys -> Values \cup {"", "true"}] /\ expanded' \subseteq Keys
    BY <1>1 DEF CfgInv, CfgTypeOK
  <2> QED  BY <1>6, <2>1 DEF CfgInv, CfgTypeOK
<1>9. KeysLoaded'
  BY DEF KeysLoaded
<1>10. KeysOnce'
  BY <1>7 DEF CfgInv, KeysOnce, Used
<1>11. KeysInReach'
  BY <1>7 DEF CfgInv, KeysInReach, Used, Probe
<1>12. ValuesSaid'
  <2> SUFFICES ASSUME NEW y \in Indexes, Used(y)
               PROVE  \/ config_table'[y].value = said'[config_table[y].key]
                      \/ config_table[y].key \in expanded'
    BY <1>7 DEF ValuesSaid, Used
  <2>1. CASE y = x
    BY <1>1, <1>4, <1>6, <2>1 DEF CfgInv, CfgTypeOK
  <2>2. CASE y # x
    <3>1. config_table[y].key # config_table[x].key
      BY <2>2 DEF CfgInv, KeysOnce
    <3>2. \/ config_table[y].value = said[config_table[y].key]
          \/ config_table[y].key \in expanded
      BY DEF CfgInv, ValuesSaid
    <3>3. config_table[y].key \in Keys
      BY DEF CfgInv, CfgTypeOK, Used
    <3>4. config_table'[y].value = config_table[y].value
      BY <1>6, <2>2
    <3> QED  BY <1>1, <3>1, <3>2, <3>3, <3>4 DEF CfgInv, CfgTypeOK
  <2> QED  BY <2>1, <2>2
<1> QED  BY <1>8, <1>9, <1>10, <1>11, <1>12 DEF CfgInv

\* A step of the later loops that changes no setting.
LEMMA NothingSet ==
    ASSUME CfgInv, UNCHANGED <<config_table, hash, said, expanded>>,
           stage' \in {"args", "file", "ready"},
           turn' \in 1 .. Len(Defaults) + MaxArgs, TurnInLoop'
    PROVE  CfgInv'
<1>1. CfgTypeOK'
  BY DEF CfgInv, CfgTypeOK
<1>2. KeysLoaded'
  BY DEF KeysLoaded
<1>3. KeysOnce' /\ KeysInReach' /\ ValuesSaid'
  BY DEF CfgInv, KeysOnce, KeysInReach, ValuesSaid, Used, Probe
<1> QED  BY <1>1, <1>2, <1>3 DEF CfgInv

LEMMA ParseArgCfgInv ==
    ASSUME CfgInv, NEW name \in Names, NEW val \in Values \cup {""},
           ParseArg(name, val)
    PROVE  CfgInv'
<1>1. /\ stage = "args" /\ turn <= MaxArgs /\ turn' = turn + 1
      /\ UNCHANGED <<hash, stage>>
  BY DEF ParseArg
<1>2. turn \in 1 .. Len(Defaults) + MaxArgs
  BY DEF CfgInv, CfgTypeOK
<1>3. turn' \in 1 .. Len(Defaults) + MaxArgs /\ TurnInLoop'
  <2>1. turn' \in 1 .. Len(Defaults) + MaxArgs /\ turn' <= MaxArgs + 1
    BY <1>1, <1>2, Turns, Zenon
  <2> QED  BY <1>1, <2>1 DEF TurnInLoop
<1>4. PICK x : x = config_var_find(name)
  OBVIOUS
<1>5. PICK v \in Values \cup {"", "true"} : v = IF val = "" THEN "true" ELSE val
  OBVIOUS
<1>6. CASE x = NotFound
  BY <1>1, <1>3, <1>4, <1>6, NothingSet DEF ParseArg
<1>7. CASE x # NotFound /\ name \in Keys
  <2>1. x \in Indexes /\ config_table[x].key = name
    BY <1>4, <1>7, FindKey
  <2>2. Used(x)
    BY <1>7, <2>1, DefaultsAre DEF Used
  <2>3. /\ config_var_set_value(x, v) /\ UNCHANGED expanded
        /\ said' = [said EXCEPT ![config_table[x].key] = v]
    BY <1>4, <1>5, <1>7, <2>1 DEF ParseArg
  <2> QED  BY <1>1, <1>3, <2>1, <2>2, <2>3, SetValueCfgInv
<1>8. CASE x # NotFound /\ name \notin Keys
  <2>1. x \in Indexes /\ config_table[x].key \in Keys
    BY <1>4, <1>8, FindAbbreviation DEF CfgInv, Names
  <2>2. Used(x)
    BY <2>1, DefaultsAre DEF Used
  <2>3. /\ config_var_set_value(x, v) /\ UNCHANGED said
        /\ expanded' = expanded \cup {config_table[x].key}
    BY <1>4, <1>5, <1>8 DEF ParseArg
  <2> QED  BY <1>1, <1>3, <2>1, <2>2, <2>3, SetValueCfgInv
<1> QED  BY <1>6, <1>7, <1>8

LEMMA LoadCfgInv ==
    ASSUME CfgInv, NEW loaded, config_load(loaded)
    PROVE  CfgInv'
<1>1. /\ turn' = 1 /\ stage' \in {"file", "ready"}
      /\ UNCHANGED <<config_table, hash, said, expanded>>
  BY DEF config_load
<1>2. turn' \in 1 .. Len(Defaults) + MaxArgs /\ TurnInLoop'
  BY <1>1, DefaultsLen, SizesAreNumbers DEF TurnInLoop
<1> QED  BY <1>1, <1>2, NothingSet

LEMMA FileVarCfgInv ==
    ASSUME CfgInv, NEW isstring \in BOOLEAN, NEW val \in Values \cup {""},
           FileVar(isstring, val)
    PROVE  CfgInv'
<1>1. stage = "file" /\ NextTurn("ready") /\ UNCHANGED <<hash, expanded>>
  BY DEF FileVar
<1>2. turn \in 1 .. Len(Defaults) + MaxArgs /\ turn <= Len(Defaults)
  BY <1>1 DEF CfgInv, CfgTypeOK, TurnInLoop
<1>3. turn \in DOMAIN Defaults
  BY <1>2, Turns, Zenon
<1>4. /\ stage' \in {"defaults", "args", "file", "ready"}
      /\ turn' \in 1 .. Len(Defaults) + MaxArgs /\ TurnInLoop'
      /\ stage' # "defaults"
  BY <1>1, <1>2, NextTurnStays DEF CfgInv
<1>5. PICK key : key = Defaults[turn].key
  OBVIOUS
<1>6. key \in Keys /\ key # ""
  BY <1>3, <1>5, DefaultsAre
<1>7. PICK x : x = config_var_find(key)
  OBVIOUS
<1>8. CASE x = NotFound \/ ~isstring
  <2>1. UNCHANGED <<config_table, said>>
    BY <1>5, <1>7, <1>8 DEF FileVar
  <2> QED  BY <1>1, <1>4, <2>1, NothingSet
<1>9. CASE x # NotFound /\ isstring
  <2>1. x \in Indexes /\ config_table[x].key = key /\ Used(x)
    BY <1>6, <1>7, <1>9, FindKey DEF Used
  <2>2. /\ config_var_set_value(x, val)
        /\ said' = [said EXCEPT ![config_table[x].key] = val]
    BY <1>5, <1>7, <1>9, <2>1 DEF FileVar
  <2> QED  BY <1>1, <1>4, <2>1, <2>2, SetValueCfgInv
<1> QED  BY <1>8, <1>9

-----------------------------------------------------------------------------
(***************************************************************************)
(* The invariant is inductive, and it is what config_get needs.            *)
(***************************************************************************)

LEMMA NextCfgInv == CfgInv /\ [CfgNext]_cfgVars => CfgInv'
<1> SUFFICES ASSUME CfgInv, [CfgNext]_cfgVars PROVE CfgInv'
  OBVIOUS
<1>1. CASE UNCHANGED cfgVars
  BY <1>1 DEF cfgVars, CfgInv, CfgTypeOK, TurnInLoop, KeysLoaded, KeysOnce,
              KeysInReach, ValuesSaid, Used, Probe
<1> QED
  BY <1>1, LoadDefaultCfgInv, ParseArgCfgInv, LoadCfgInv, FileVarCfgInv
     DEF CfgNext

\* The invariant says what config_get returns.
LEMMA CfgInvHonours == CfgInv => ConfigHonoured
<1> SUFFICES ASSUME CfgInv, NEW k \in Keys
             PROVE  IF Stored(k) THEN config_get(k) = said[k] \/ k \in expanded
                                 ELSE config_get(k) = ""
  BY DEF ConfigHonoured
<1>1. PICK x : x = config_var_find(k)
  OBVIOUS
<1>2. CASE x \in Indexes /\ config_table[x].key = k
  <2>1. Stored(k) /\ Used(x)
    BY <1>2, DefaultsAre DEF Stored, Used
  <2>2. x # NotFound
    BY <1>2, SizesAreNumbers DEF Indexes, NotFound
  <2>3. config_get(k) = config_table[x].value
    BY <1>1, <2>2 DEF config_get
  <2> QED  BY <1>2, <2>1, <2>3 DEF CfgInv, ValuesSaid
<1>3. CASE x = NotFound /\ \A y \in Indexes : config_table[y].key # k
  <2>1. ~Stored(k)
    BY <1>3 DEF Stored
  <2>2. config_get(k) = ""
    BY <1>1, <1>3 DEF config_get
  <2> QED  BY <2>1, <2>2
<1> QED  BY <1>1, <1>2, <1>3, FindKey

-----------------------------------------------------------------------------
(***************************************************************************)
(* Start-up: SvcInv, CfgInv and what main has registered.                  *)
(***************************************************************************)

InOrder == <<"echo", "login", "game">>

\* main registers nothing before the settings are complete, ...
SettingsFirst ==
    stage # "ready" => todo = InOrder /\ services = <<>> /\ phase = "config"

\* ... registers echo, login and game in this order, ...
TodoInOrder ==
    todo \in {InOrder, <<"login", "game">>, <<"game">>, <<>>}

\* ... and starts the server at the end.
RegisteredFirst == phase # "config" => todo = <<>>

\* The protocols that have been registered, or refused.
Done == {p \in Protocols : \A k \in DOMAIN todo : todo[k] # p}

\* A protocol is on the port that the settings name.
OnItsPort ==
    \A n \in DOMAIN services : \A k \in DOMAIN services[n].protocols :
        /\ services[n].protocols[k] \in Done
        /\ Configured(services[n].protocols[k]) = services[n].port

\* A service has at most as many protocols as main has registered.
FewProtocols ==
    \A n \in DOMAIN services : Len(services[n].protocols) <= 3 - Len(todo)

PortsAsked == {Configured(q) : q \in Protocols}

Served(p) ==
    \/ Registered(p)
    \/ sends_first(p) /\ \E q \in Protocols \ {p} : Configured(q) = Configured(p)
    \/ Cardinality(PortsAsked) > MaxServices

DoneServed == \A p \in Done : Served(p)

RegInv ==
    /\ SettingsFirst
    /\ TodoInOrder
    /\ RegisteredFirst
    /\ OnItsPort
    /\ FewProtocols
    /\ DoneServed

StartupInv == SvcInv /\ CfgInv /\ RegInv

-----------------------------------------------------------------------------
(***************************************************************************)
(* The settings, once complete, name the same ports for ever.              *)
(***************************************************************************)

LEMMA SameSettings ==
    ASSUME UNCHANGED cfgVars
    PROVE  /\ \A p : Configured(p)' = Configured(p)
           /\ PortsAsked' = PortsAsked
<1>1. config_table' = config_table /\ hash' = hash
  BY DEF cfgVars
<1>2. ASSUME NEW name PROVE config_var_find(name)' = config_var_find(name)
  BY <1>1 DEF config_var_find, FirstProbe, Probe
<1>3. ASSUME NEW name PROVE config_get(name)' = config_get(name)
  BY <1>1, <1>2 DEF config_get
<1>4. ASSUME NEW p PROVE Configured(p)' = Configured(p)
  BY <1>3 DEF Configured, config_geti
<1> QED  BY <1>4, Zenon DEF PortsAsked

\* A port of the settings is a port.
LEMMA ConfiguredIsPort == \A p \in Protocols : Configured(p) \in Ports
<1>1. /\ 0 \in Ports
      /\ \A v \in DOMAIN Number : Number[v] \in Ports
  BY StartupAssumption, Zenon
<1> QED  BY <1>1, Zenon DEF Configured, config_geti

LEMMA SettingsEnd == CfgNext => stage # "ready"
  BY DEF CfgNext, LoadDefault, ParseArg, config_load, FileVar

-----------------------------------------------------------------------------
(***************************************************************************)
(* Registering one protocol.                                               *)
(***************************************************************************)

\* What is known of the next protocol in the list.
LEMMA TodoSteps ==
    ASSUME TodoInOrder, todo # <<>>, todo' = Tail(todo)
    PROVE  /\ Head(todo) \in Protocols /\ Head(todo) \notin Done
           /\ Done' = Done \cup {Head(todo)}
           /\ TodoInOrder'
           /\ "game" \notin Done
           /\ Len(todo) \in 1 .. 3 /\ Len(todo') = Len(todo) - 1
           /\ Head(todo) # "game" => Len(todo) >= 2
<1>1. CASE todo = InOrder
  <2>1. todo' = <<"login", "game">> /\ Head(todo) = "echo" /\ Len(todo) = 3
    BY <1>1 DEF InOrder
  <2>2. Done = {} /\ Done' = {"echo"}
    BY <1>1, <2>1 DEF InOrder, Done, Protocols
  <2>3. Done' = Done \cup {Head(todo)} /\ "game" \notin Done
        /\ Head(todo) \notin Done
    BY <2>1, <2>2
  <2>4. Len(todo') = Len(todo) - 1 /\ Len(todo) \in 1 .. 3
    BY <2>1
  <2>5. TodoInOrder' /\ Head(todo) \in Protocols
    BY <2>1, Zenon DEF TodoInOrder, Protocols
  <2>6. Head(todo) # "game" => Len(todo) >= 2
    BY <2>1
  <2> QED  BY <2>3, <2>4, <2>5, <2>6, Zenon
<1>2. CASE todo = <<"login", "game">>
  <2>1. todo' = <<"game">> /\ Head(todo) = "login" /\ Len(todo) = 2
    BY <1>2
  <2>2. Done = {"echo"} /\ Done' = {"echo", "login"}
    BY <1>2, <2>1 DEF Done, Protocols
  <2>3. Done' = Done \cup {Head(todo)} /\ "game" \notin Done
        /\ Head(todo) \notin Done
    BY <2>1, <2>2
  <2>4. Len(todo') = Len(todo) - 1 /\ Len(todo) \in 1 .. 3
    BY <2>1
  <2>5. TodoInOrder' /\ Head(todo) \in Protocols
    BY <2>1, Zenon DEF TodoInOrder, Protocols
  <2>6. Head(todo) # "game" => Len(todo) >= 2
    BY <2>1
  <2> QED  BY <2>3, <2>4, <2>5, <2>6, Zenon
<1>3. CASE todo = <<"game">>
  <2>1. todo' = <<>> /\ Head(todo) = "game" /\ Len(todo) = 1
    BY <1>3
  <2>2. Done = {"echo", "login"} /\ Done' = {"echo", "login", "game"}
    BY <1>3, <2>1 DEF Done, Protocols
  <2>3. Done' = Done \cup {Head(todo)} /\ "game" \notin Done
        /\ Head(todo) \notin Done
    BY <2>1, <2>2
  <2>4. Len(todo') = Len(todo) - 1 /\ Len(todo) \in 1 .. 3
    BY <2>1
  <2>5. TodoInOrder' /\ Head(todo) \in Protocols
    BY <2>1, Zenon DEF TodoInOrder, Protocols
  <2>6. Head(todo) # "game" => Len(todo) >= 2
    BY <2>1
  <2> QED  BY <2>3, <2>4, <2>5, <2>6, Zenon
<1> QED  BY <1>1, <1>2, <1>3 DEF TodoInOrder

\* Every service has protocols.
LEMMA ProtocolsOf ==
    ASSUME SvcInv, NEW n \in DOMAIN services
    PROVE  services[n].protocols \in Seq(Protocols) /\ services[n].protocols # <<>>
<1>1. services[n] \in Service
  BY DEF SvcInv, TypePart
<1>2. services[n].protocols \in Seq(Protocols)
  BY <1>1, Zenon DEF Service
<1> QED  BY <1>2 DEF SvcInv, NeverWithoutProtocol

\* There are at most three ports.
LEMMA PortsAskedFinite == IsFiniteSet(PortsAsked)
<1>1. PortsAsked = (({} \cup {Configured("echo")}) \cup {Configured("login")})
                     \cup {Configured("game")}
  BY Zenon DEF PortsAsked, Protocols
<1>2. IsFiniteSet({} \cup {Configured("echo")})
  BY FS_EmptySet, FS_AddElement, Zenon
<1>3. IsFiniteSet(({} \cup {Configured("echo")}) \cup {Configured("login")})
  BY <1>2, FS_AddElement, Zenon
<1> QED  BY <1>1, <1>3, FS_AddElement, Zenon

\* When all services are taken by other ports, there are too many of them.
LEMMA TooManyPorts ==
    ASSUME SvcInv, OnItsPort, NEW p \in Protocols, OnPort(Configured(p)) = {},
           Len(services) >= MaxServices
    PROVE  Cardinality(PortsAsked) > MaxServices
<1> DEFINE Others == PortsAsked \ {Configured(p)}
           f == [n \in 1 .. Len(services) |-> services[n].port]
<1>1. services \in Seq(Service) /\ Len(services) \in Nat
      /\ DOMAIN services = 1 .. Len(services)
  BY DEF SvcInv, TypePart
<1>2. ASSUME NEW n \in DOMAIN services PROVE services[n].port \in Others
  <2>1. services[n].protocols \in Seq(Protocols) /\ services[n].protocols # <<>>
    BY ProtocolsOf
  <2>2. 1 \in DOMAIN services[n].protocols /\ services[n].protocols[1] \in Protocols
    BY <2>1
  <2>3. Configured(services[n].protocols[1]) = services[n].port
    BY <2>2 DEF OnItsPort
  <2>4. services[n].port # Configured(p)
    BY DEF OnPort
  <2>5. services[n].port \in PortsAsked
    BY <2>2, <2>3, Zenon DEF PortsAsked
  <2> QED  BY <2>4, <2>5
<1>3. IsFiniteSet(Others) /\ Cardinality(Others) = Cardinality(PortsAsked) - 1
  <2>1. Configured(p) \in PortsAsked
    BY Zenon DEF PortsAsked
  <2> QED  BY <2>1, PortsAskedFinite, FS_RemoveElement
<1> HIDE DEF Others
<1>4. f \in Injection(1 .. Len(services), Others)
  <2>1. f \in [1 .. Len(services) -> Others]
    BY <1>1, <1>2
  <2>2. \A m, n \in 1 .. Len(services) : f[m] = f[n] => m = n
    BY <1>1 DEF SvcInv, ProtocolsUnambiguous
  <2> HIDE DEF f
  <2> QED  BY <2>1, <2>2 DEF Injection, IsInjective
<1> HIDE DEF f
<1>5. Cardinality(1 .. Len(services)) <= Cardinality(Others)
  BY <1>3, <1>4, FS_Injection
<1>6. Cardinality(1 .. Len(services)) = Len(services)
  BY <1>1, UpTo
<1>7. Cardinality(PortsAsked) \in Nat
  BY PortsAskedFinite, FS_CardinalityType
<1> QED  BY <1>1, <1>3, <1>5, <1>6, <1>7, SvcAssumption

\* A protocol that is not in a list yet joins it unless it sends first.
LEMMA JoinsUnlessFirst ==
    ASSUME SvcInv, RegInv, todo # <<>>, NEW i \in DOMAIN services,
           ~sends_first(Head(todo))
    PROVE  CanJoin(services[i], Head(todo))
<1>1. /\ Len(todo) \in 1 .. 3 /\ "game" \notin Done
      /\ Head(todo) # "game" => Len(todo) >= 2
  <2>1. CASE todo = InOrder
    BY <2>1 DEF InOrder, Done
  <2>2. CASE todo = <<"login", "game">>
    BY <2>2 DEF Done
  <2>3. CASE todo = <<"game">>
    BY <2>3 DEF Done
  <2> QED  BY <2>1, <2>2, <2>3 DEF RegInv, TodoInOrder
<1>2. services[i].protocols \in Seq(Protocols) /\ services[i].protocols # <<>>
  BY ProtocolsOf
<1>3. 1 \in DOMAIN services[i].protocols /\ Len(services[i].protocols) \in Nat
  BY <1>2
<1>4. services[i].protocols[1] \in Done
  BY <1>3 DEF RegInv, OnItsPort
<1>5. ~sends_first(services[i].protocols[1])
  BY <1>1, <1>4 DEF sends_first
<1>6. Len(services[i].protocols) <= 3 - Len(todo)
  BY DEF RegInv, FewProtocols
<1>7. Len(todo) >= 2
  BY <1>1 DEF sends_first
<1>8. MaxProtocols \in Nat /\ MaxProtocols >= 2
  <2>1. MaxProtocols \in Nat \ {0} /\ MaxProtocols >= 2
    BY SvcAssumption, StartupAssumption, Zenon
  <2> QED  BY <2>1
<1>9. Len(services[i].protocols) < MaxProtocols
  BY <1>1, <1>3, <1>6, <1>7, <1>8
<1> QED  BY <1>5, <1>9 DEF CanJoin

\* What registering p may do to the services: a new one for p on its port, or p
\* joins the one on its port; everything else stays.
Grown(p) ==
    /\ \A n \in DOMAIN services' :
         /\ Len(services'[n].protocols) <= 4 - Len(todo)
         /\ \A k \in DOMAIN services'[n].protocols :
              \/ /\ services'[n].protocols[k] = p
                 /\ services'[n].port = Configured(p)
              \/ /\ n \in DOMAIN services /\ k \in DOMAIN services[n].protocols
                 /\ services'[n].port = services[n].port
                 /\ services'[n].protocols[k] = services[n].protocols[k]
    /\ \A n \in DOMAIN services :
         /\ n \in DOMAIN services' /\ services'[n].port = services[n].port
         /\ \A k \in DOMAIN services[n].protocols :
              /\ k \in DOMAIN services'[n].protocols
              /\ services'[n].protocols[k] = services[n].protocols[k]

\* Then the invariant is kept when p is served.
LEMMA GrownRegInv ==
    ASSUME RegInv, todo # <<>>, todo' = Tail(todo),
           NEW p, p = Head(todo), Grown(p), Served(p)',
           UNCHANGED cfgVars, stage = "ready", phase' = "config"
    PROVE  RegInv'
<1>1. /\ Done' = Done \cup {p} /\ TodoInOrder'
      /\ Len(todo) \in 1 .. 3 /\ Len(todo') = Len(todo) - 1
  BY TodoSteps DEF RegInv
<1>2. SettingsFirst' /\ RegisteredFirst'
  BY DEF SettingsFirst, RegisteredFirst, cfgVars
<1>3. OnItsPort'
  <2> SUFFICES ASSUME NEW n \in DOMAIN services',
                      NEW k \in DOMAIN services'[n].protocols
               PROVE  /\ services'[n].protocols[k] \in Done'
                      /\ Configured(services'[n].protocols[k]) = services'[n].port
    BY SameSettings, Zenon DEF OnItsPort
  <2>1. CASE /\ services'[n].protocols[k] = p
             /\ services'[n].port = Configured(p)
    BY <1>1, <2>1, Zenon
  <2>2. CASE /\ n \in DOMAIN services /\ k \in DOMAIN services[n].protocols
             /\ services'[n].port = services[n].port
             /\ services'[n].protocols[k] = services[n].protocols[k]
    BY <1>1, <2>2, Zenon DEF RegInv, OnItsPort
  <2> QED  BY <2>1, <2>2, Zenon DEF Grown
<1>4. FewProtocols'
  <2>1. 4 - Len(todo) = 3 - Len(todo')
    BY <1>1
  <2> QED  BY <2>1, Zenon DEF Grown, FewProtocols
<1>5. DoneServed'
  <2> SUFFICES ASSUME NEW q \in Done PROVE Served(q)'
    BY <1>1, Zenon DEF DoneServed
  <2>1. Registered(q) => Registered(q)'
    <3> SUFFICES ASSUME Registered(q) PROVE Registered(q)'
      OBVIOUS
    <3>1. PICK n \in DOMAIN services :
            /\ services[n].port = Configured(q)
            /\ \E k \in DOMAIN services[n].protocols : services[n].protocols[k] = q
      BY DEF Registered
    <3>2. /\ n \in DOMAIN services' /\ services'[n].port = Configured(q)'
          /\ \A k \in DOMAIN services[n].protocols :
               /\ k \in DOMAIN services'[n].protocols
               /\ services'[n].protocols[k] = services[n].protocols[k]
      BY <3>1, SameSettings, Zenon DEF Grown
    <3>3. \E k \in DOMAIN services'[n].protocols : services'[n].protocols[k] = q
      BY <3>1, <3>2, Zenon
    <3> QED  BY <3>2, <3>3, Zenon DEF Registered
  <2> QED  BY <2>1, SameSettings, Zenon DEF RegInv, DoneServed, Served
<1> QED  BY <1>1, <1>2, <1>3, <1>4, <1>5 DEF RegInv

LEMMA RegisterInv == StartupInv /\ Register => StartupInv'
<1> SUFFICES ASSUME StartupInv, Register PROVE StartupInv'
  OBVIOUS
<1>p. PICK p : p = Head(todo)
  OBVIOUS
<1>1. /\ stage = "ready" /\ todo # <<>> /\ todo' = Tail(todo)
      /\ svcmgr_add_protocol(Configured(p)) /\ UNCHANGED cfgVars
      /\ phase' = phase /\ phase = "config"
  BY <1>p DEF Register, Configured, svcmgr_add_protocol
<1>2. SvcInv /\ RegInv /\ TodoInOrder
  BY DEF StartupInv, RegInv
<1>3. /\ p \in Protocols /\ p \notin Done /\ Configured(p) \in Ports
      /\ Len(todo) \in 1 .. 3
  BY <1>p, <1>1, <1>2, TodoSteps, ConfiguredIsPort
<1>l. 1 <= 4 - Len(todo)
  <2>1. \A l \in 1 .. 3 : 1 <= 4 - l
    OBVIOUS
  <2> QED  BY <1>3, <2>1, Zenon
<1>4. SvcInv'
  BY <1>1, <1>2, <1>3, AddProtocolSvcInv
<1>5. CfgInv'
  BY <1>1, NextCfgInv DEF StartupInv
<1>6. /\ services \in Seq(Service) /\ Len(services) \in Nat
      /\ DOMAIN services = 1 .. Len(services)
  BY <1>2 DEF SvcInv, TypePart
<1>7. ASSUME NEW n \in DOMAIN services
      PROVE  /\ services[n] \in Service
             /\ services[n].protocols \in Seq(Protocols)
             /\ Len(services[n].protocols) \in Nat
             /\ DOMAIN services[n].protocols = 1 .. Len(services[n].protocols)
             /\ Len(services[n].protocols) <= 3 - Len(todo)
             /\ Len(services[n].protocols) <= 4 - Len(todo)
  <2>1. services[n].protocols \in Seq(Protocols)
    BY <1>2, ProtocolsOf
  <2>2. Len(services[n].protocols) <= 3 - Len(todo)
    BY <1>2 DEF RegInv, FewProtocols
  <2>3. services[n] \in Service
    BY <1>6
  <2> QED  BY <1>3, <2>1, <2>2, <2>3
<1>8. ASSUME services' = services PROVE Grown(p)
  BY <1>7, <1>8, Zenon DEF Grown
<1>9. CASE /\ OnPort(Configured(p)) = {} /\ Len(services) < MaxServices
           /\ services' = Append(services, NewService(p, Configured(p)))
  <2>1. PICK new : new = NewService(p, Configured(p))
    OBVIOUS
  <2>2. new.port = Configured(p) /\ new.protocols = <<p>>
    BY <2>1 DEF NewService
  <2>3. /\ DOMAIN services' = 1 .. Len(services) + 1
        /\ services'[Len(services) + 1] = new
        /\ \A n \in DOMAIN services : services'[n] = services[n]
    BY <1>6, <1>9, <2>1
  <2>4. /\ Len(services) + 1 \in DOMAIN services'
        /\ \A n \in DOMAIN services' :
             n \in DOMAIN services \/ n = Len(services) + 1
        /\ \A n \in DOMAIN services : n \in DOMAIN services'
    BY <1>6, <2>3
  <2>5. /\ Len(new.protocols) <= 4 - Len(todo)
        /\ DOMAIN new.protocols = {1} /\ new.protocols[1] = p
    <3>1. Len(new.protocols) = 1 /\ DOMAIN new.protocols = {1}
          /\ new.protocols[1] = p
      BY <2>2
    <3> QED  BY <1>l, <3>1, Zenon
  <2>6. Grown(p)
    <3>1. ASSUME NEW n \in DOMAIN services'
          PROVE  /\ Len(services'[n].protocols) <= 4 - Len(todo)
                 /\ \A k \in DOMAIN services'[n].protocols :
                      \/ /\ services'[n].protocols[k] = p
                         /\ services'[n].port = Configured(p)
                      \/ /\ n \in DOMAIN services /\ k \in DOMAIN services[n].protocols
                         /\ services'[n].port = services[n].port
                         /\ services'[n].protocols[k] = services[n].protocols[k]
      <4>1. CASE n \in DOMAIN services
        BY <1>7, <2>3, <4>1, Zenon
      <4>2. CASE n = Len(services) + 1
        BY <2>2, <2>3, <2>5, <4>2, Zenon
      <4> QED  BY <2>4, <4>1, <4>2, Zenon
    <3> QED  BY <2>3, <2>4, <3>1, Zenon DEF Grown
  <2>7. Served(p)'
    <3>1. Configured(p)' = Configured(p)
      BY <1>1, SameSettings
    <3>2. 1 \in DOMAIN new.protocols
      BY <2>5
    <3>3. /\ services'[Len(services) + 1].port = Configured(p)
          /\ \E k \in DOMAIN services'[Len(services) + 1].protocols :
               services'[Len(services) + 1].protocols[k] = p
      BY <2>2, <2>3, <2>5, <3>2, Zenon
    <3> QED  BY <1>1, <2>4, <3>3, SameSettings, Zenon DEF Served, Registered
  <2> QED  BY <1>1, <1>2, <1>4, <1>5, <2>6, <2>7, GrownRegInv, <1>p DEF StartupInv
<1>10. CASE /\ OnPort(Configured(p)) = {} /\ Len(services) >= MaxServices
            /\ UNCHANGED services
  <2>1. Cardinality(PortsAsked) > MaxServices
    BY <1>2, <1>3, <1>10, TooManyPorts DEF RegInv
  <2>2. Served(p)'
    BY <1>1, <2>1, SameSettings, Zenon DEF Served
  <2> QED  BY <1>1, <1>2, <1>4, <1>5, <1>8, <1>10, <2>2, GrownRegInv, <1>p DEF StartupInv
<1>11. ASSUME NEW i \in OnPort(Configured(p)), CanJoin(services[i], p),
              services' = [services EXCEPT ![i].protocols = Append(@, p)]
       PROVE  StartupInv'
  <2>1. i \in DOMAIN services /\ services[i].port = Configured(p)
    BY <1>11 DEF OnPort
  <2>2. PICK new : new = [services[i] EXCEPT !.protocols = Append(@, p)]
    OBVIOUS
  <2>3. services' = [services EXCEPT ![i] = new]
    BY <1>11, <2>2, Zenon
  <2>4. /\ new.port = services[i].port
        /\ new.protocols = Append(services[i].protocols, p)
    BY <1>7, <2>1, <2>2, Zenon DEF Service
  <2>5. /\ DOMAIN services' = DOMAIN services /\ services'[i] = new
        /\ \A n \in DOMAIN services : n # i => services'[n] = services[n]
    BY <2>1, <2>3, Zenon
  <2>6. /\ Len(new.protocols) <= 4 - Len(todo)
        /\ DOMAIN new.protocols = 1 .. Len(services[i].protocols) + 1
        /\ new.protocols[Len(services[i].protocols) + 1] = p
        /\ \A k \in DOMAIN services[i].protocols :
             new.protocols[k] = services[i].protocols[k]
    BY <1>3, <1>7, <2>1, <2>4
  <2>7. /\ Len(services[i].protocols) + 1 \in DOMAIN new.protocols
        /\ \A k \in DOMAIN new.protocols :
             \/ k \in DOMAIN services[i].protocols
             \/ k = Len(services[i].protocols) + 1
        /\ \A k \in DOMAIN services[i].protocols : k \in DOMAIN new.protocols
    BY <1>7, <2>1, <2>6
  <2>8. Grown(p)
    <3>1. ASSUME NEW n \in DOMAIN services'
          PROVE  /\ Len(services'[n].protocols) <= 4 - Len(todo)
                 /\ \A k \in DOMAIN services'[n].protocols :
                      \/ /\ services'[n].protocols[k] = p
                         /\ services'[n].port = Configured(p)
                      \/ /\ n \in DOMAIN services /\ k \in DOMAIN services[n].protocols
                         /\ services'[n].port = services[n].port
                         /\ services'[n].protocols[k] = services[n].protocols[k]
      <4>1. CASE n # i
        BY <1>7, <2>5, <4>1, Zenon
      <4>2. CASE n = i
        BY <2>1, <2>4, <2>5, <2>6, <2>7, <4>2, Zenon
      <4> QED  BY <4>1, <4>2, Zenon
    <3>2. ASSUME NEW n \in DOMAIN services
          PROVE  /\ n \in DOMAIN services' /\ services'[n].port = services[n].port
                 /\ \A k \in DOMAIN services[n].protocols :
                      /\ k \in DOMAIN services'[n].protocols
                      /\ services'[n].protocols[k] = services[n].protocols[k]
      BY <2>4, <2>5, <2>6, <2>7, Zenon
    <3> QED  BY <3>1, <3>2, Zenon DEF Grown
  <2>9. Served(p)'
    <3>1. /\ services'[i].port = Configured(p)
          /\ \E k \in DOMAIN services'[i].protocols : services'[i].protocols[k] = p
      BY <2>1, <2>4, <2>5, <2>6, <2>7, Zenon
    <3> QED  BY <1>1, <2>1, <2>5, <3>1, SameSettings, Zenon DEF Served, Registered
  <2> QED  BY <1>1, <1>2, <1>4, <1>5, <2>8, <2>9, GrownRegInv, <1>p DEF StartupInv
<1>12. ASSUME NEW i \in OnPort(Configured(p)), ~CanJoin(services[i], p),
              services' = services
       PROVE  StartupInv'
  <2>1. i \in DOMAIN services /\ services[i].port = Configured(p)
    BY <1>12 DEF OnPort
  <2>2. sends_first(p)
    BY <1>p, <1>1, <1>2, <1>12, <2>1, JoinsUnlessFirst
  <2>3. /\ services[i].protocols \in Seq(Protocols)
        /\ services[i].protocols # <<>>
    BY <1>2, <2>1, ProtocolsOf
  <2>4. PICK q : q = services[i].protocols[1]
    OBVIOUS
  <2>5. 1 \in DOMAIN services[i].protocols /\ q \in Protocols
    BY <2>3, <2>4
  <2>6. q \in Done /\ Configured(q) = Configured(p)
    BY <1>2, <2>1, <2>4, <2>5, Zenon DEF RegInv, OnItsPort
  <2>7. q \in Protocols \ {p}
    BY <1>3, <2>5, <2>6, Zenon
  <2>8. Served(p)'
    BY <1>1, <2>2, <2>6, <2>7, SameSettings, Zenon DEF Served
  <2> QED  BY <1>1, <1>2, <1>4, <1>5, <1>8, <1>12, <2>8, GrownRegInv, <1>p DEF StartupInv
<1> QED  BY <1>p, <1>1, <1>9, <1>10, <1>11, <1>12, Zenon DEF svcmgr_add_protocol

-----------------------------------------------------------------------------
(***************************************************************************)
(* The other steps of main, and of the server.                             *)
(***************************************************************************)

LEMMA InitStartupInv == StartupInit => StartupInv
<1> SUFFICES ASSUME StartupInit PROVE StartupInv
  OBVIOUS
<1>1. todo = InOrder /\ services = <<>> /\ phase = "config"
  BY DEF StartupInit, Init, InOrder
<1>2. Done = {}
  BY <1>1 DEF Done, Protocols, InOrder
<1>3. DOMAIN services = {}
  BY <1>1
<1>4. TodoInOrder
  BY <1>1, Zenon DEF TodoInOrder
<1>5. RegInv
  BY <1>1, <1>2, <1>3, <1>4, Zenon
     DEF RegInv, SettingsFirst, RegisteredFirst, OnItsPort, FewProtocols, DoneServed
<1> QED  BY <1>5, InitSvcInv, InitCfgInv DEF StartupInit, StartupInv

LEMMA ReadSettingsInv == StartupInv /\ ReadSettings => StartupInv'
<1> SUFFICES ASSUME StartupInv, ReadSettings PROVE StartupInv'
  OBVIOUS
<1>1. CfgNext /\ UNCHANGED vars
  BY DEF ReadSettings
<1>2. /\ todo' = InOrder /\ services' = <<>> /\ phase' = "config"
  <2>1. todo = InOrder /\ services = <<>> /\ phase = "config"
    BY <1>1, SettingsEnd DEF StartupInv, RegInv, SettingsFirst
  <2> QED  BY <1>1, <2>1 DEF vars
<1>3. Done' = {}
  BY <1>2 DEF Done, Protocols, InOrder
<1>4. DOMAIN services' = {}
  BY <1>2
<1>5. TodoInOrder'
  BY <1>2, Zenon DEF TodoInOrder
<1>6. RegInv'
  BY <1>2, <1>3, <1>4, <1>5, Zenon
     DEF RegInv, SettingsFirst, RegisteredFirst, OnItsPort, FewProtocols, DoneServed
<1>7. SvcInv'
  BY <1>1, NextSvcInv DEF StartupInv
<1>8. CfgInv'
  BY <1>1, NextCfgInv DEF StartupInv
<1> QED  BY <1>6, <1>7, <1>8 DEF StartupInv

\* Once all is registered nothing that happens to the services concerns it.
LEMMA SameServicesRegInv ==
    ASSUME RegInv, SameServices, UNCHANGED cfgVars, todo' = todo,
           todo = <<>> \/ phase' = phase
    PROVE  RegInv'
<1>1. /\ DOMAIN services' = DOMAIN services
      /\ \A n \in DOMAIN services :
           /\ services'[n].port = services[n].port
           /\ services'[n].protocols = services[n].protocols
  BY DEF SameServices
<1>2. Done' = Done /\ TodoInOrder'
  BY DEF Done, RegInv, TodoInOrder
<1>3. RegisteredFirst'
  BY DEF RegInv, RegisteredFirst
<1>4. SettingsFirst'
  <2> SUFFICES ASSUME stage' # "ready"
               PROVE  todo = InOrder /\ services' = <<>> /\ phase' = "config"
    BY DEF SettingsFirst
  <2>1. todo = InOrder /\ services = <<>> /\ phase = "config"
    BY DEF RegInv, SettingsFirst, cfgVars
  <2>2. todo # <<>>
    BY <2>1 DEF InOrder
  <2>3. services' = services
    BY <1>1, <2>1
  <2> QED  BY <2>1, <2>2, <2>3, Zenon
<1>5. OnItsPort'
  BY <1>1, <1>2, SameSettings, Zenon DEF RegInv, OnItsPort
<1>6. FewProtocols'
  BY <1>1, Zenon DEF RegInv, FewProtocols
<1>7. DoneServed'
  <2> SUFFICES ASSUME NEW q \in Done PROVE Served(q)'
    BY <1>2, Zenon DEF DoneServed
  <2>1. Registered(q) => Registered(q)'
    BY <1>1, SameSettings, Zenon DEF Registered
  <2> QED  BY <2>1, SameSettings, Zenon DEF RegInv, DoneServed, Served
<1> QED  BY <1>2, <1>3, <1>4, <1>5, <1>6, <1>7 DEF RegInv

LEMMA ServeInv == StartupInv /\ Serve => StartupInv'
<1> SUFFICES ASSUME StartupInv, Serve PROVE StartupInv'
  OBVIOUS
<1>1. UNCHANGED cfgVars /\ SvcInv /\ RegInv
  BY DEF Serve, StartupInv
<1>2. CfgInv'
  BY <1>1, NextCfgInv DEF StartupInv
<1>3. ASSUME SvcInv', SameServices, todo' = todo, todo = <<>> \/ phase' = phase
      PROVE  StartupInv'
  BY <1>1, <1>2, <1>3, SameServicesRegInv DEF StartupInv
<1>4. CASE svcmgr_init
  <2>1. todo = <<>> /\ todo' = todo
    BY <1>4 DEF svcmgr_init
  <2> QED  BY <1>1, <1>3, <1>4, <2>1, InitOpensSvcInv
<1>5. CASE /\ phase = "config" /\ todo = <<>> /\ phase' = "down"
           /\ UNCHANGED <<todo, services, sockets, accepts>>
  <2>1. SameServices
    BY <1>5 DEF SameServices
  <2>2. /\ services' \in Seq(Service) /\ Len(services') = Len(services)
    BY <1>1, <1>5 DEF SvcInv, TypePart
  <2>3. sockets' = Cardinality(Listening') + Cardinality(Posted')
    BY <1>1, <1>5 DEF SvcInv, SocketsAccounted, Listening, Posted
  <2>4. SvcInv'
    BY <1>1, <1>5, <2>1, <2>2, <2>3, DownStep
  <2> QED  BY <1>3, <1>5, <2>1, <2>4
<1>6. CASE svcmgr_shutdown
  <2>1. todo' = todo /\ phase = "running"
    BY <1>6 DEF svcmgr_shutdown
  <2>2. todo = <<>>
    BY <1>1, <2>1 DEF RegInv, RegisteredFirst
  <2> QED  BY <1>1, <1>3, <1>6, <2>1, <2>2, ShutdownSvcInv
<1>7. ASSUME NEW n \in DOMAIN services, NEW err \in BOOLEAN,
             service_on_accept(n, err)
      PROVE  StartupInv'
  <2>1. todo' = todo /\ phase' = phase
    BY <1>7 DEF service_on_accept
  <2> QED  BY <1>1, <1>3, <1>7, <2>1, OnAcceptSvcInv
<1> QED  BY <1>4, <1>5, <1>6, <1>7 DEF Serve, server_internal_init

-----------------------------------------------------------------------------
(***************************************************************************)
(* The results.                                                            *)
(***************************************************************************)

LEMMA NextStartupInv == StartupInv /\ [StartupNext]_allVars => StartupInv'
<1> SUFFICES ASSUME StartupInv, [StartupNext]_allVars PROVE StartupInv'
  OBVIOUS
<1>1. CASE UNCHANGED allVars
  <2>1. UNCHANGED vars /\ UNCHANGED cfgVars
    BY <1>1 DEF allVars
  <2>2. SvcInv' /\ CfgInv'
    BY <2>1, NextSvcInv, NextCfgInv DEF StartupInv
  <2>3. SameServices /\ todo' = todo /\ phase' = phase
    BY <2>1 DEF vars, SameServices
  <2>4. RegInv'
    BY <2>1, <2>3, SameServicesRegInv DEF StartupInv
  <2> QED  BY <2>2, <2>4 DEF StartupInv
<1> QED  BY <1>1, ReadSettingsInv, RegisterInv, ServeInv DEF StartupNext

\* main, the settings and the services keep StartupInv.
THEOREM StartupKeepsInv == StartupSpec => []StartupInv
  BY InitStartupInv, NextStartupInv, PTL DEF StartupSpec

\* Every value that config.c, iocp_svcmgr.c and main.c keep has its type.
THEOREM StartupTypes == StartupSpec => []StartupTypeOK
<1>1. StartupInv => StartupTypeOK
  BY SvcInvType DEF StartupInv, CfgInv, StartupTypeOK
<1> QED  BY <1>1, StartupKeepsInv, PTL

\* config_get returns the value last said for a key, whatever hash function and
\* size the table of config.c has, and however many keys collide.
THEOREM SettingsHonoured == StartupSpec => []ConfigHonoured
<1>1. StartupInv => ConfigHonoured
  BY CfgInvHonours DEF StartupInv
<1> QED  BY <1>1, StartupKeepsInv, PTL

\* Through every error path of service_on_accept and svcmgr_init, a service that
\* listens has one accept with the operating system.
THEOREM StartupListening == StartupSpec => []ListeningMeansAccepting
<1>1. StartupInv => ListeningMeansAccepting
  BY DEF StartupInv, SvcInv
<1> QED  BY <1>1, StartupKeepsInv, PTL

\* Through the same paths no socket leaks and none is closed twice.
THEOREM StartupSockets == StartupSpec => []SocketsAccounted
<1>1. StartupInv => SocketsAccounted
  BY DEF StartupInv, SvcInv
<1> QED  BY <1>1, StartupKeepsInv, PTL

\* However the ports of the settings coincide, svcmgr_add_protocol leaves
\* service_select_protocol no choice between protocols.
THEOREM StartupProtocols == StartupSpec => []ProtocolsUnambiguous
<1>1. StartupInv => ProtocolsUnambiguous
  BY DEF StartupInv, SvcInv
<1> QED  BY <1>1, StartupKeepsInv, PTL

\* When the server of main runs, every protocol is served on the port that the
\* settings name, with the two exceptions ServedWhereConfigured names.
THEOREM StartupServes == StartupSpec => []ServedWhereConfigured
<1>1. StartupInv => ServedWhereConfigured
  <2> SUFFICES ASSUME StartupInv, phase = "running", NEW p \in Protocols
               PROVE  Served(p)
    BY Zenon DEF ServedWhereConfigured, Served, PortsAsked
  <2>1. todo = <<>>
    BY DEF StartupInv, RegInv, RegisteredFirst
  <2>2. p \in Done
    BY <2>1 DEF Done
  <2> QED  BY <2>2 DEF StartupInv, RegInv, DoneServed
<1> QED  BY <1>1, StartupKeepsInv, PTL
==============================================================================
