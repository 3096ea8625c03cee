-------------------------- MODULE SntpSystemProofs --------------------------
(***************************************************************************)
(* Proofs about the client in its surroundings, for any number of servers  *)
(* of any kind, any network bounds, any host clock, alone or shared,       *)
(* stepped or slewed, steady or set back now and then.                     *)
(***************************************************************************)
EXTENDS SntpUnsteadyHost, SntpClientProofs, FiniteSetTheorems

-----------------------------------------------------------------------------
(* The system's client is the client                                       *)

LEMMA ClockConstants ==
    /\ EraTicks \in Nat /\ EraTicks > 0
    /\ FractionsPerMs \in Nat
<1>1. SecondsMod \in Nat /\ SecondsMod >= 1 /\ FractionsMod \in Nat /\ FractionsMod >= 1
  BY WidthsAssumption DEF SecondsMod
<1>2. SecondsMod * FractionsMod \in Nat /\ SecondsMod * FractionsMod >= 1
  BY <1>1
<1>3. QED
  BY <1>2, WidthsAssumption DEF EraTicks

LEMMA ReadingTypes ==
    ASSUME TypeOKSystem
    PROVE  Now \in Timestamp /\ Stamp(truth) \in Timestamp
<1>1. clock \in Nat /\ truth \in Nat
  BY ClockConstants DEF TypeOKSystem
<1>2. QED
  BY <1>1, StampType DEF Now

(* Every step of the client in this system is one that SntpClient allows:  *)
(* the answers of this host are among those it takes into account.         *)
LEMMA ClientStepIsNext ==
    ASSUME TypeOKSystem, ClientStep
    PROVE  Next
<1>1. Now \in Timestamp
  BY ReadingTypes
<1>2. CASE InnerStep
  BY <1>1, <1>2
  DEF InnerStep, Ask, Listen, Resolve, FindNothing, ReadClock, Next, SendStep, ReceiveStep
<1>3. CASE MakeRequest
  BY <1>1, <1>3 DEF MakeRequest, Next, SendStep
<1>4. CASE Transmit
  BY <1>4 DEF Transmit, Next, SendStep
<1>5. CASE ReadDatagram
  <2>1. \A d \in socket : d.packet \in Datagrams
    BY SystemAssumption DEF TypeOKSystem, Waiting
  <2>2. QED
    BY <1>5, <2>1 DEF ReadDatagram, Next, ReceiveStep
<1>6. CASE SetClock
  BY <1>6 DEF SetClock, Next, ReceiveStep
<1>7. QED
  BY <1>2, <1>3, <1>4, <1>5, <1>6 DEF ClientStep

LEMMA EnvironmentKeepsClient ==
    ASSUME Environment
    PROVE  UNCHANGED vars
BY DEF Environment, Tick, Respond, Arrive, Lose, OtherClientCorrects

LEMMA SystemStepIsClients ==
    ASSUME TypeOKSystem, [NextSystem]_sysVars
    PROVE  [Next]_vars
BY ClientStepIsNext, EnvironmentKeepsClient DEF NextSystem, sysVars

-----------------------------------------------------------------------------
(* Types                                                                   *)

LEMMA ShorterType ==
    ASSUME NEW ticks \in Int
    PROVE  Shorter(ticks) \in Int /\ 2 * AbsoluteOf(Shorter(ticks)) <= EraTicks
<1>1. ticks % EraTicks \in 0 .. EraTicks - 1
  BY ClockConstants
<1>2. QED
  BY <1>1, ClockConstants DEF Shorter, AbsoluteOf

LEMMA OffsetType ==
    ASSUME IInv, pc = "adjust"
    PROVE  Correction.offset \in Int
<1>1. \A t \in Timestamp : AsMillis(t) \in Int
  <2> SUFFICES ASSUME NEW t \in Timestamp PROVE AsMillis(t) \in Int
    OBVIOUS
  <2>1. t.seconds \in Nat /\ t.fractions \in Nat
    BY WidthsAssumption DEF Timestamp, SecondsMod
  <2>2. FractionsToMs(t.fractions) \in Int
    BY <2>1, DivMod, WidthsAssumption DEF FractionsToMs
  <2>3. t.seconds * MsPerSec \in Int
    BY <2>1, WidthsAssumption
  <2>4. QED
    BY <2>2, <2>3 DEF AsMillis
<1>2. TotalMillisecondsInNtpEra \in Int /\ ClockOffsetMaxTimeDifference \in Int
  BY WidthsAssumption DEF TotalMillisecondsInNtpEra, ClockOffsetMaxTimeDifference
<1>3. \A t, u \in Timestamp : SafeTimeDifference(t, u) \in Int
  BY <1>1, <1>2 DEF SafeTimeDifference
<1>4. \A n \in Int : HalfTowardZero(n) \in Int
  BY DEF HalfTowardZero
<1>5. \A t, u, v, w \in Timestamp : CalculateClockOffset(t, u, v, w) \in Int
  BY <1>3, <1>4 DEF CalculateClockOffset
<1>6. /\ lastRequest \in Timestamp /\ receivedAt \in Timestamp /\ buffer \in Packet
  BY DEF IInv, TypeOK
<1>7. /\ ~ IsZero(lastRequest) /\ buffer.mode = "server" /\ buffer.origin = lastRequest
      /\ ~ IsZero(buffer.receive) /\ ~ IsZero(buffer.transmit)
      /\ buffer.stratum # KissStratum
  BY DEF IInv, CorrectionIsAnswer
<1>8. ResponseError(lastRequest, buffer) = "none"
  BY <1>7 DEF ResponseError
<1>9. Correction.offset = CalculateClockOffset(lastRequest, buffer.receive, buffer.transmit, receivedAt)
  BY <1>7, <1>8 DEF Correction, DeserializeResponse
<1>10. buffer.receive \in Timestamp /\ buffer.transmit \in Timestamp
  BY <1>6 DEF Packet
<1>11. QED
  BY <1>5, <1>6, <1>9, <1>10

-----------------------------------------------------------------------------
(* The inductive invariant                                                 *)

(* While a request is being sent, and as long as the application listens   *)
(* for its answer, the client has not moved on to another server.          *)
Current ==
    \/ pc \in {"genAuth", "sendStart", "sendTo", "sendRetry"} \cup ReceiveSteps
    \/ pc = "idle" /\ result \notin MovedOn

(* The datagrams of the remembered request belong to the server in use. *)
Matching ==
    /\ \A d \in net \cup socket : ~ IsZero(RequestOf(d.packet))
    /\ Current => \A d \in net \cup socket :
          RequestOf(d.packet) = lastRequest => d.server = server
    /\ pc \in {"rxTime", "validateAuth", "adjust"} /\ buffer.origin = lastRequest =>
          readFrom = server
    /\ pc \in {"requestTime", "genAuth", "sendStart", "sendTo", "sendRetry"} =>
          addr = server

Datagrammed ==
    /\ net \subseteq OnItsWay /\ IsFiniteSet(net) /\ Cardinality(net) <= MaxInFlight
    /\ socket \subseteq Waiting /\ IsFiniteSet(socket) /\ Cardinality(socket) <= MaxInFlight

SysInv == IInv /\ TypeOKSystem /\ Datagrammed /\ Matching

LEMMA InitSysInv == InitSystem => SysInv
<1> SUFFICES ASSUME InitSystem PROVE SysInv
  OBVIOUS
<1>1. IInv
  BY InitIInv DEF InitSystem
<1>2. truth \in 0 .. EraTicks - 1
  <2>1. PICK error \in InitialErrors : truth = (1 + error) % EraTicks
    BY DEF InitSystem
  <2>2. error \in Int
    BY SystemAssumption, ClockConstants
  <2>3. QED
    BY <2>1, <2>2, ClockConstants
<1>3. clock \in 0 .. EraTicks - 1
  <2>1. SecondsMod \in Nat /\ SecondsMod >= 2 /\ FractionsMod \in Nat /\ FractionsMod >= 1
    BY WidthsAssumption DEF SecondsMod
  <2>2. SecondsMod * FractionsMod >= 2
    BY <2>1
  <2>3. QED
    BY <2>2, ClockConstants DEF InitSystem, EraTicks
<1>4. Datagrammed
  BY FS_EmptySet, SystemAssumption DEF InitSystem, Datagrammed
<1>5. 0 \in DOMAIN Kind
  BY SystemAssumption, ClientAssumption
<1>6. /\ slew \in -SlewLimit .. SlewLimit /\ sinceRequest \in 0 .. MaxAge
      /\ gained \in Int /\ 2 * AbsoluteOf(gained) <= EraTicks
  BY SystemAssumption, ClockConstants DEF InitSystem, AbsoluteOf
<1>7. TypeOKSystem
  BY <1>1, <1>2, <1>3, <1>4, <1>5, <1>6 DEF TypeOKSystem, Datagrammed, InitSystem, IInv
<1>8. Matching
  BY DEF InitSystem, Init, Matching, ReceiveSteps
<1>9. QED
  BY <1>1, <1>4, <1>7, <1>8 DEF SysInv

-----------------------------------------------------------------------------
(* The datagrams under way                                                 *)

LEMMA DatagramTypes ==
    ASSUME Datagrammed
    PROVE  /\ \A d \in net : /\ d = [server |-> d.server, packet |-> d.packet, age |-> d.age]
                            /\ d.server \in DOMAIN Kind /\ d.age \in 0 .. MaxDelay
                            /\ d.packet \in Requests \cup Responses
           /\ \A d \in socket : d.server \in DOMAIN Kind /\ d.packet \in Responses
BY DEF Datagrammed, OnItsWay, Waiting

(* A mode tells a request from a response. *)
LEMMA PacketKinds ==
    /\ \A p \in Requests : p.mode = "client" /\ p.transmit \in Timestamp
    /\ \A p \in Responses : p.mode = "server" /\ p.origin \in Timestamp
<1>1. \A t : RequestPacket(t).mode = "client" /\ RequestPacket(t).transmit = t
  BY DEF RequestPacket
<1>2. QED
  BY <1>1 DEF Requests, Responses

LEMMA ResponseType ==
    ASSUME TypeOKSystem, NEW by \in DOMAIN Kind, NEW request \in Requests
    PROVE  /\ Response(by, request) \in Responses
           /\ RequestOf(Response(by, request)) = request.transmit
<1>1. request.transmit \in Timestamp /\ Stamp(truth) \in Timestamp
  BY PacketKinds, ReadingTypes
<1>2. QED
  BY <1>1 DEF Response, Responses, Strata, KissStratum, RequestOf

(* One more datagram where there is room, or one less. *)
LEMMA QueueGrows ==
    ASSUME NEW queue, IsFiniteSet(queue), Room(queue), NEW d
    PROVE  IsFiniteSet(queue \cup {d}) /\ Cardinality(queue \cup {d}) <= MaxInFlight
<1>1. Cardinality(queue) \in Nat /\ Cardinality(queue) < MaxInFlight /\ MaxInFlight \in Nat
  BY FS_CardinalityType, SystemAssumption DEF Room
<1>2. QED
  BY <1>1, FS_AddElement

LEMMA QueueShrinks ==
    ASSUME NEW queue, IsFiniteSet(queue), Cardinality(queue) <= MaxInFlight, NEW d \in queue
    PROVE  /\ IsFiniteSet(queue \ {d})
           /\ Room(queue \ {d}) /\ Cardinality(queue \ {d}) <= MaxInFlight
<1>1. Cardinality(queue) \in Nat /\ MaxInFlight \in Nat
  BY FS_CardinalityType, SystemAssumption
<1>2. IsFiniteSet(queue \ {d}) /\ Cardinality(queue \ {d}) = Cardinality(queue) - 1
  BY FS_RemoveElement
<1>3. QED
  BY <1>1, <1>2 DEF Room

(* A tick ages every datagram. *)
LEMMA QueueAges ==
    ASSUME Datagrammed, \A d \in net : d.age < MaxDelay,
           net' = {[d EXCEPT !.age = @ + 1] : d \in net}
    PROVE  /\ IsFiniteSet(net') /\ Cardinality(net') <= MaxInFlight
           /\ net' \subseteq OnItsWay
<1> DEFINE f == [d \in net |-> [d EXCEPT !.age = @ + 1]]
<1>1. f \in Surjection(net, net')
  BY DEF Surjection
<1>2. IsFiniteSet(net) /\ Cardinality(net) <= MaxInFlight
  BY DEF Datagrammed
<1>3. IsFiniteSet(net') /\ Cardinality(net') <= Cardinality(net)
  BY <1>1, <1>2, FS_Surjection
<1>4. Cardinality(net) \in Nat /\ Cardinality(net') \in Nat /\ MaxInFlight \in Nat
  BY <1>2, <1>3, FS_CardinalityType, SystemAssumption
<1>5. \A d \in net : [d EXCEPT !.age = @ + 1] \in OnItsWay
  <2> SUFFICES ASSUME NEW d \in net PROVE [d EXCEPT !.age = @ + 1] \in OnItsWay
    OBVIOUS
  <2>1. d \in OnItsWay /\ d.age + 1 \in 0 .. MaxDelay
    BY DatagramTypes, SystemAssumption DEF Datagrammed
  <2>2. QED
    BY <2>1 DEF OnItsWay
<1>6. QED
  BY <1>2, <1>3, <1>4, <1>5

LEMMA ClientDatagrams ==
    ASSUME SysInv, ClientStep
    PROVE  Datagrammed'
<1> USE DEF SysInv
<1>1. CASE InnerStep \/ MakeRequest \/ SetClock
  BY <1>1 DEF InnerStep, MakeRequest, SetClock, Datagrammed
<1>2. CASE Transmit
  <2>1. CASE UNCHANGED net
    BY <1>2, <2>1 DEF Transmit, Datagrammed
  <2>2. CASE /\ Room(net)
             /\ net' = net \cup {[server |-> addr, packet |-> buffer, age |-> 0]}
    <3>1. pc = "sendTo"
      BY <1>2 DEF Transmit, SendAll
    <3>2. addr = server /\ buffer = RequestPacket(lastRequest) /\ lastRequest \in Timestamp
          /\ server \in 0 .. NumServers - 1
      BY <3>1 DEF Matching, IInv, TypeOK, WireMatchesRequest
    <3>3. [server |-> addr, packet |-> buffer, age |-> 0] \in OnItsWay
      BY <3>2, SystemAssumption DEF OnItsWay, Requests
    <3>4. IsFiniteSet(net') /\ Cardinality(net') <= MaxInFlight
      BY <2>2, QueueGrows DEF Datagrammed
    <3>5. QED
      BY <1>2, <2>2, <3>3, <3>4 DEF Transmit, Datagrammed
  <2>3. QED
    BY <1>2, <2>1, <2>2 DEF Transmit
<1>3. CASE ReadDatagram
  BY <1>3, QueueShrinks DEF ReadDatagram, Datagrammed
<1>4. QED
  BY <1>1, <1>2, <1>3 DEF ClientStep

LEMMA EnvironmentDatagrams ==
    ASSUME SysInv, Environment
    PROVE  Datagrammed'
<1> USE DEF SysInv
<1>1. CASE Tick
  BY <1>1, QueueAges DEF Tick, Datagrammed
<1>2. CASE Respond
  <2> DEFINE Reply(d) == [d EXCEPT !.packet = Response(d.server, d.packet), !.age = 0]
  <2>1. PICK d \in net :
           /\ d.packet.mode = "client"
           /\ \/ net' = net \ {d}
              \/ net' = (net \ {d}) \cup {Reply(d)}
              \/ net' = net
              \/ Room(net) /\ net' = net \cup {Reply(d)}
    BY <1>2 DEF Respond
  <2>2. Reply(d) \in OnItsWay
    <3>1. d \in OnItsWay /\ d.packet \in Requests /\ d.server \in DOMAIN Kind
      BY <2>1, DatagramTypes, PacketKinds DEF Datagrammed
    <3>2. Response(d.server, d.packet) \in Responses
      BY <3>1, ResponseType
    <3>3. 0 \in 0 .. MaxDelay
      BY SystemAssumption
    <3>4. \A r \in Responses : [d EXCEPT !.packet = r, !.age = 0] \in OnItsWay
      BY <3>1, <3>3 DEF OnItsWay
    <3>5. QED
      BY <3>2, <3>4
  <2>3. IsFiniteSet(net') /\ Cardinality(net') <= MaxInFlight
    <3> HIDE DEF Reply
    <3>1. IsFiniteSet(net) /\ Cardinality(net) <= MaxInFlight
      BY DEF Datagrammed
    <3>2. /\ IsFiniteSet(net \ {d}) /\ Room(net \ {d}) /\ Cardinality(net \ {d}) <= MaxInFlight
      BY <3>1, QueueShrinks
    <3> DEFINE rest == net \ {d}
    <3>3. IsFiniteSet(rest \cup {Reply(d)}) /\ Cardinality(rest \cup {Reply(d)}) <= MaxInFlight
      BY <3>2, QueueGrows
    <3>4. Room(net) => /\ IsFiniteSet(net \cup {Reply(d)})
                       /\ Cardinality(net \cup {Reply(d)}) <= MaxInFlight
      BY <3>1, QueueGrows
    <3>5. QED
      BY <2>1, <3>1, <3>2, <3>3, <3>4
  <2>4. net' \subseteq OnItsWay
    BY <2>1, <2>2 DEF Datagrammed
  <2>5. QED
    BY <1>2, <2>3, <2>4 DEF Respond, Datagrammed
<1>3. CASE Arrive
  <2>1. PICK d \in net :
           /\ d.packet.mode = "server"
           /\ socket' = IF Room(socket)
                        THEN socket \cup {[server |-> d.server, packet |-> d.packet]}
                        ELSE socket
           /\ net' = net \ {d} \/ net' = net
    BY <1>3 DEF Arrive
  <2>2. d.packet \in Responses /\ d.server \in DOMAIN Kind
    BY <2>1, DatagramTypes, PacketKinds
  <2>3. [server |-> d.server, packet |-> d.packet] \in Waiting
    BY <2>2 DEF Waiting
  <2>4. socket' \subseteq Waiting /\ IsFiniteSet(socket') /\ Cardinality(socket') <= MaxInFlight
    BY <2>1, <2>3, QueueGrows DEF Datagrammed
  <2>5. net' \subseteq OnItsWay /\ IsFiniteSet(net') /\ Cardinality(net') <= MaxInFlight
    BY <2>1, QueueShrinks DEF Datagrammed
  <2>6. QED
    BY <2>4, <2>5 DEF Datagrammed
<1>4. CASE Lose
  BY <1>4, QueueShrinks DEF Lose, Datagrammed
<1>5. CASE OtherClientCorrects
  BY <1>5 DEF OtherClientCorrects, Datagrammed
<1>6. QED
  BY <1>1, <1>2, <1>3, <1>4, <1>5 DEF Environment

-----------------------------------------------------------------------------
(* Types of the clock, the time and the observers                          *)

(* The host's conversion gives whole ticks. *)
LEMMA HostTicks ==
    ASSUME NEW ms \in Int
    PROVE  (ms * FractionsMod) \div MsPerSec \in Int
<1>1. FractionsMod \in Nat /\ MsPerSec \in Nat /\ MsPerSec > 0
  BY WidthsAssumption
<1> DEFINE n == ms * FractionsMod
<1>2. n \in Int
  BY <1>1
<1> HIDE DEF n
<1>3. n \div MsPerSec \in Int
  BY <1>1, <1>2
<1>4. QED
  BY <1>3 DEF n

(* A correction leaves the clock within the era, and slews no more than    *)
(* SlewLimit.                                                              *)
LEMMA SetClockTypes ==
    ASSUME SysInv, SetClock
    PROVE  clock' \in 0 .. EraTicks - 1 /\ slew' \in -SlewLimit .. SlewLimit
<1> DEFINE ticks == (Correction.offset * FractionsMod) \div MsPerSec
<1>1. pc = "adjust" /\ IInv /\ SlewLimit \in Nat /\ clock \in 0 .. EraTicks - 1
  BY SystemAssumption DEF SetClock, AdjustClock, SysInv, TypeOKSystem
<1>2. ticks \in Int
  <2>1. Correction.offset \in Int
    BY <1>1, OffsetType
  <2>2. QED
    BY <2>1, HostTicks
<1>3. \/ AbsoluteOf(ticks) <= SlewLimit /\ slew' = ticks /\ UNCHANGED clock
      \/ slew' = 0 /\ clock' = (clock + ticks) % EraTicks
  BY DEF SetClock
<1> HIDE DEF ticks
<1>4. (clock + ticks) % EraTicks \in 0 .. EraTicks - 1
  BY <1>1, <1>2, ClockConstants
<1>5. AbsoluteOf(ticks) <= SlewLimit => ticks \in -SlewLimit .. SlewLimit
  BY <1>1, <1>2 DEF AbsoluteOf
<1>6. QED
  BY <1>1, <1>3, <1>4, <1>5

LEMMA ClientTypes ==
    ASSUME SysInv, ClientStep
    PROVE  TypeOKSystem'
<1> USE DEF SysInv
<1>1. TypeOK'
  BY NextIInv, ClientStepIsNext DEF IInv
<1>2. clock' \in 0 .. EraTicks - 1 /\ slew' \in -SlewLimit .. SlewLimit
  BY SetClockTypes
  DEF ClientStep, InnerStep, MakeRequest, Transmit, ReadDatagram, TypeOKSystem
<1>3. sinceRequest' \in 0 .. MaxAge /\ gained' \in Int /\ 2 * AbsoluteOf(gained') <= EraTicks
  <2>1. sinceRequest' \in {0, sinceRequest} /\ gained' \in {0, gained}
    BY DEF ClientStep, InnerStep, MakeRequest, Transmit, ReadDatagram, SetClock, observers
  <2>2. 0 \in 0 .. MaxAge /\ 2 * AbsoluteOf(0) <= EraTicks
    BY SystemAssumption, ClockConstants DEF AbsoluteOf
  <2>3. QED
    BY <2>1, <2>2 DEF TypeOKSystem
<1>4. readFrom' \in DOMAIN Kind
  <2>1. readFrom' = readFrom \/ \E d \in socket : readFrom' = d.server
    BY DEF ClientStep, InnerStep, MakeRequest, Transmit, ReadDatagram, SetClock, observers
  <2>2. QED
    BY <2>1, DatagramTypes DEF TypeOKSystem
<1>5. lag' \in Nat /\ truth' \in 0 .. EraTicks - 1
  BY DEF ClientStep, TypeOKSystem
<1>6. QED
  BY <1>1, <1>2, <1>3, <1>4, <1>5, ClientDatagrams DEF TypeOKSystem, Datagrammed

LEMMA TickTypes ==
    ASSUME SysInv, Tick
    PROVE  TypeOKSystem'
<1> USE DEF SysInv
<1>1. /\ Slewing \in {-1, 0, 1}
      /\ Slewing = 1 <=> slew > 0
      /\ Slewing = -1 <=> slew < 0
  <2>1. slew \in Int
    BY SystemAssumption DEF TypeOKSystem
  <2>2. QED
    BY <2>1 DEF Slewing
<1>2. clock' \in 0 .. EraTicks - 1 /\ truth' \in 0 .. EraTicks - 1
  <2>1. clock + 1 + Slewing \in Int /\ truth + 1 \in Int
    BY <1>1, ClockConstants DEF TypeOKSystem
  <2>2. QED
    BY <2>1, ClockConstants DEF Tick
<1>3. slew' \in -SlewLimit .. SlewLimit
  <2>1. slew \in -SlewLimit .. SlewLimit /\ SlewLimit \in Nat /\ slew' = slew - Slewing
    BY SystemAssumption DEF TypeOKSystem, Tick
  <2>2. QED
    BY <1>1, <2>1
<1>4. gained' \in Int /\ 2 * AbsoluteOf(gained') <= EraTicks
  BY <1>1, ShorterType DEF Tick, TypeOKSystem
<1>5. sinceRequest' \in 0 .. MaxAge
  <2>1. MaxAge \in Nat /\ sinceRequest \in 0 .. MaxAge
    BY SystemAssumption DEF TypeOKSystem
  <2>2. sinceRequest' = IF sinceRequest = MaxAge THEN sinceRequest ELSE sinceRequest + 1
    BY DEF Tick
  <2>3. QED
    BY <2>1, <2>2
<1>6. lag' \in Nat
  <2>1. lag \in Nat
    BY DEF TypeOKSystem
  <2>2. lag' \in {lag, lag + 1}
    BY DEF Tick
  <2>3. QED
    BY <2>1, <2>2
<1>7. TypeOK' /\ readFrom' = readFrom
  BY EnvironmentKeepsClient, NextIInv DEF Tick, Environment, IInv
<1>8. Datagrammed'
  BY EnvironmentDatagrams DEF Environment
<1>9. QED
  BY <1>2, <1>3, <1>4, <1>5, <1>6, <1>7, <1>8 DEF TypeOKSystem, Datagrammed

LEMMA EnvironmentTypes ==
    ASSUME SysInv, Environment
    PROVE  TypeOKSystem'
<1> USE DEF SysInv
<1>1. TypeOK' /\ Datagrammed'
  BY EnvironmentKeepsClient, NextIInv, EnvironmentDatagrams DEF IInv
<1>2. CASE Respond \/ Arrive \/ Lose
  BY <1>1, <1>2 DEF Respond, Arrive, Lose, observers, TypeOKSystem, Datagrammed
<1>3. CASE OtherClientCorrects
  <2>1. gained + truth - clock \in Int /\ 0 \in -SlewLimit .. SlewLimit
    <3>1. gained \in Int /\ truth \in Int /\ clock \in Int
      BY ClockConstants DEF TypeOKSystem
    <3>2. SlewLimit \in Nat
      BY SystemAssumption
    <3>3. QED
      BY <3>1, <3>2
  <2>2. gained' \in Int /\ 2 * AbsoluteOf(gained') <= EraTicks
    BY <1>3, <2>1, ShorterType DEF OtherClientCorrects
  <2>3. QED
    BY <1>1, <1>3, <2>1, <2>2 DEF OtherClientCorrects, TypeOKSystem, Datagrammed
<1>4. QED
  BY <1>2, <1>3, TickTypes DEF Environment

-----------------------------------------------------------------------------
(* The datagrams of the remembered request                                 *)

(* What the environment leaves under way was under way, or answers what    *)
(* was, from the server it was sent to.                                    *)
LEMMA EnvironmentMatching ==
    ASSUME SysInv, Environment
    PROVE  Matching'
<1> USE DEF SysInv
<1>1. \A e \in net' \cup socket' : \E d \in net \cup socket :
         e.server = d.server /\ RequestOf(e.packet) = RequestOf(d.packet)
  <2>1. CASE Tick
    BY <2>1 DEF Tick, Datagrammed, OnItsWay
  <2>2. CASE Respond
    <3>1. PICK d \in net :
             /\ d.packet.mode = "client"
             /\ net' \subseteq net \cup {[d EXCEPT !.packet = Response(d.server, d.packet),
                                               !.age = 0]}
      BY <2>2 DEF Respond
    <3>2. d.packet \in Requests /\ d.server \in DOMAIN Kind /\ d \in OnItsWay
      BY <3>1, DatagramTypes, PacketKinds DEF Datagrammed
    <3>3. RequestOf(Response(d.server, d.packet)) = RequestOf(d.packet)
      BY <3>1, <3>2, ResponseType DEF RequestOf
    <3>4. \A r : /\ [d EXCEPT !.packet = r, !.age = 0].server = d.server
                /\ [d EXCEPT !.packet = r, !.age = 0].packet = r
      BY <3>2 DEF OnItsWay
    <3> DEFINE reply == [d EXCEPT !.packet = Response(d.server, d.packet), !.age = 0]
    <3>5. reply.server = d.server /\ RequestOf(reply.packet) = RequestOf(d.packet)
      BY <3>3, <3>4
    <3> HIDE DEF reply
    <3>6. \A e \in net' \cup socket' : e = reply \/ e \in net \cup socket
      BY <2>2, <3>1 DEF Respond, reply
    <3>7. QED
      BY <3>5, <3>6
  <2>3. CASE Arrive
    BY <2>3 DEF Arrive
  <2>4. CASE Lose
    BY <2>4 DEF Lose
  <2>5. CASE OtherClientCorrects
    BY <2>5 DEF OtherClientCorrects
  <2>6. QED
    BY <2>1, <2>2, <2>3, <2>4, <2>5 DEF Environment
<1>2. UNCHANGED <<vars, readFrom>>
  BY EnvironmentKeepsClient
  DEF Environment, Tick, Respond, Arrive, Lose, OtherClientCorrects, observers
<1>3. UNCHANGED <<pc, result, server, addr, lastRequest, buffer, readFrom>>
  BY <1>2 DEF vars, fields
<1>4. Current' = Current
  BY <1>3 DEF Current
<1>5. QED
  BY <1>1, <1>3, <1>4 DEF Matching

(* A step of the client that leaves the datagrams alone. *)
LEMMA KeepsMatching ==
    ASSUME Matching, UNCHANGED <<net, socket, readFrom>>,
           \/ ~ Current'
           \/ IsZero(lastRequest')
           \/ Current /\ UNCHANGED <<server, lastRequest>>,
           pc' \in {"rxTime", "validateAuth", "adjust"} =>
              /\ pc \in {"rxTime", "validateAuth", "adjust"}
              /\ UNCHANGED <<server, lastRequest, buffer>>,
           pc' \in {"requestTime", "genAuth", "sendStart", "sendTo", "sendRetry"} =>
              addr' = server'
    PROVE  Matching'
BY DEF Matching

(* A call that ends with a request given up, or with the server. *)
LEMMA EndsMatching ==
    ASSUME Matching, UNCHANGED <<net, socket, readFrom>>, pc' = "idle",
           result' \in MovedOn \/ IsZero(lastRequest')
    PROVE  Matching'
BY DEF Matching, Current, ReceiveSteps

LEMMA InnerMatching ==
    ASSUME SysInv, InnerStep
    PROVE  Matching'
<1> USE DEF SysInv, Goto, Return, fields, Current, ReceiveSteps, MovedOn
<1>1. Matching /\ UNCHANGED <<net, socket, readFrom>>
  BY DEF InnerStep, observers
<1>2. CASE Ask
  BY <1>1, <1>2, KeepsMatching DEF Ask, SendTimeRequest, Call
<1>3. CASE Listen
  BY <1>1, <1>3, KeepsMatching, ApplicationAssumption DEF Listen, ReceiveTimeResponse, Call
<1>4. CASE Resolve
  BY <1>1, <1>4, KeepsMatching DEF Resolve, ResolveDns
<1>5. pc \in {"requestTime", "genAuth", "sendStart", "sendTo", "sendRetry"} => addr = server
  BY <1>1 DEF Matching
<1>6. CASE GenerateClientAuth
  BY <1>1, <1>5, <1>6, KeepsMatching DEF GenerateClientAuth
<1>7. CASE SendNothing \/ SendFails
  BY <1>1, <1>5, <1>7, KeepsMatching DEF SendNothing, SendFails
<1>8. CASE FindNothing \/ RecvFails(buffer)
  BY <1>1, <1>8, KeepsMatching DEF FindNothing, RecvNothing, RecvFails
<1>9. CASE SendStart(Now) \/ SendRetry(Now)
  BY <1>1, <1>5, <1>9, KeepsMatching DEF SendStart, SendRetry
<1>10. CASE ReceiveStart(Now)
  BY <1>1, <1>10, KeepsMatching DEF ReceiveStart
<1>11. CASE RecvRetry(Now)
  <2>1. CASE Return("TimedOut")
    BY <1>1, <2>1, EndsMatching
  <2>2. CASE UNCHANGED server /\ Return("NothingYet")
    BY <1>1, <1>11, <2>2, KeepsMatching DEF RecvRetry
  <2>3. CASE UNCHANGED server /\ Goto("recvFrom")
    BY <1>1, <1>11, <2>3, KeepsMatching DEF RecvRetry
  <2>4. QED
    BY <1>11, <2>1, <2>2, <2>3 DEF RecvRetry
<1>12. ASSUME NEW rxTime, JudgeResponse(rxTime), pc \in {"rxTime", "validateAuth"},
              UNCHANGED <<addr, packetSize, buffer>>
       PROVE  Matching'
  <2>1. CASE Return("InvalidResponse") /\ UNCHANGED <<server, lastRequest>>
    BY <1>1, <1>12, <2>1, KeepsMatching
  <2>2. CASE Return("Rejected")
    BY <1>1, <2>2, EndsMatching
  <2>3. CASE Goto("adjust") /\ UNCHANGED <<server, lastRequest>>
    BY <1>1, <1>12, <2>3, KeepsMatching
  <2>4. QED
    BY <1>12, <2>1, <2>2, <2>3 DEF JudgeResponse
<1>13. CASE ReceivedAt(Now)
  BY <1>1, <1>12, <1>13, KeepsMatching DEF ReceivedAt
<1>14. CASE ValidateServerAuth
  <2>1. ASSUME NEW error \in {"Auth", "ServerNotAuthenticated"}, Return(error),
               UNCHANGED <<server, lastRequest>>
        PROVE  Matching'
    BY <1>1, <1>14, <2>1, KeepsMatching DEF ValidateServerAuth
  <2>2. QED
    BY <1>12, <1>14, <2>1 DEF ValidateServerAuth
<1>15. QED
  BY <1>2, <1>3, <1>4, <1>6, <1>7, <1>8, <1>9, <1>10, <1>11, <1>13, <1>14
  DEF InnerStep, ReadClock

(* A new request, with random bits that no datagram under way carries. *)
LEMMA MakeRequestMatching ==
    ASSUME SysInv, MakeRequest
    PROVE  Matching'
<1> USE DEF SysInv
<1>1. PICK mask \in RandomMasks : Fresh(mask) /\ RequestTime(Now, mask)
  BY DEF MakeRequest
<1>2. /\ Matching /\ UNCHANGED <<net, socket, readFrom>> /\ pc = "requestTime"
      /\ addr = server /\ addr' = server'
  BY <1>1 DEF MakeRequest, RequestTime, Matching
<1>3. CASE IsZero(Now) /\ lastRequest' = Now /\ Return("Network")
  <2>1. IsZero(lastRequest') /\ pc' = "idle"
    BY <1>3 DEF Return
  <2>2. QED
    BY <1>2, <2>1, EndsMatching
<1>4. CASE /\ lastRequest' \in Unpredictable(Now, mask)
           /\ Goto(IF Configured THEN "genAuth" ELSE "sendStart")
  <2>1. lastRequest' \notin {RequestOf(d.packet) : d \in net \cup socket}
    BY <1>1, <1>4 DEF Fresh, Underway
  <2>2. pc' \in {"genAuth", "sendStart"}
    BY <1>4 DEF Goto
  <2>3. QED
    BY <1>2, <2>1, <2>2 DEF Matching
<1>5. QED
  BY <1>1, <1>3, <1>4 DEF RequestTime

LEMMA TransmitMatching ==
    ASSUME SysInv, Transmit
    PROVE  Matching'
<1> USE DEF SysInv
<1> DEFINE sent == [server |-> addr, packet |-> buffer, age |-> 0]
<1>1. /\ pc = "sendTo" /\ pc' = "idle" /\ Current
      /\ UNCHANGED <<server, addr, lastRequest, buffer, readFrom, socket>>
      /\ net' \subseteq net \cup {sent}
  BY DEF Transmit, SendAll, Return, fields, Current, observers
<1>2. addr = server /\ ~ IsZero(lastRequest) /\ buffer = RequestPacket(lastRequest)
  BY <1>1 DEF Matching, IInv, WireMatchesRequest
<1>3. RequestOf(sent.packet) = lastRequest /\ sent.server = server
  BY <1>2 DEF RequestOf, RequestPacket
<1> HIDE DEF sent
<1>4. \A d \in net' \cup socket' : d = sent \/ d \in net \cup socket
  BY <1>1
<1>5. QED
  BY <1>1, <1>2, <1>3, <1>4 DEF Matching

LEMMA ReadMatching ==
    ASSUME SysInv, ReadDatagram
    PROVE  Matching'
<1> USE DEF SysInv
<1>1. PICK d \in socket :
         RecvPacket(d.packet) /\ socket' = socket \ {d} /\ readFrom' = d.server
  BY DEF ReadDatagram
<1>2. /\ pc = "recvFrom" /\ pc' = "rxTime" /\ buffer' = d.packet
      /\ UNCHANGED <<server, lastRequest, net>> /\ Current
  BY <1>1 DEF ReadDatagram, RecvPacket, Goto, Current, ReceiveSteps
<1>3. RequestOf(d.packet) = d.packet.origin
  BY DatagramTypes, PacketKinds DEF RequestOf
<1>4. QED
  BY <1>1, <1>2, <1>3 DEF Matching

LEMMA SetClockMatching ==
    ASSUME SysInv, SetClock
    PROVE  Matching'
<1>1. UNCHANGED <<net, socket, readFrom>> /\ IsZero(lastRequest') /\ pc' = "idle"
  BY DEF SetClock, AdjustClock, Return, observers, ZeroTime, IsZero
<1>2. QED
  BY <1>1, EndsMatching DEF SysInv

-----------------------------------------------------------------------------
LEMMA NextSysInv == SysInv /\ [NextSystem]_sysVars => SysInv'
<1> SUFFICES ASSUME SysInv, [NextSystem]_sysVars PROVE SysInv'
  OBVIOUS
<1>1. CASE UNCHANGED sysVars
  <2>1. UNCHANGED <<vars, clock, slew, truth, net, socket, lag, observers>>
    BY <1>1 DEF sysVars
  <2>2. UNCHANGED <<fields, pc, locals, result, clock, slew, truth, net, socket, lag,
                    sinceRequest, gained, readFrom>>
    BY <2>1 DEF vars, observers
  <2>3. IInv' /\ TypeOK'
    BY <2>1, NextIInv DEF SysInv, IInv
  <2>4. TypeOKSystem'
    BY <2>2, <2>3 DEF SysInv, TypeOKSystem
  <2>5. Datagrammed' /\ Matching'
    BY <2>2 DEF SysInv, Datagrammed, Matching, Current, fields
  <2>6. QED
    BY <2>3, <2>4, <2>5 DEF SysInv
<1>2. IInv'
  BY SystemStepIsClients, NextIInv DEF SysInv
<1>3. CASE ClientStep
  <2>1. Matching'
    BY <1>3, InnerMatching, MakeRequestMatching, TransmitMatching, ReadMatching,
       SetClockMatching
    DEF ClientStep
  <2>2. QED
    BY <1>2, <1>3, <2>1, ClientTypes, ClientDatagrams DEF SysInv
<1>4. CASE Environment
  BY <1>2, <1>4, EnvironmentTypes, EnvironmentDatagrams, EnvironmentMatching DEF SysInv
<1>5. QED
  BY <1>1, <1>3, <1>4 DEF NextSystem

LEMMA SystemInvariance == SystemSpec => []SysInv
<1>1. InitSystem => SysInv
  BY InitSysInv
<1>2. SysInv /\ [NextSystem]_sysVars => SysInv'
  BY NextSysInv
<1>3. QED
  BY <1>1, <1>2, PTL DEF SystemSpec

(* A tick in which the clock is set back is one in all but the clock. *)
LEMMA FalterSysInv ==
    ASSUME SysInv, Falter
    PROVE  SysInv'
<1> USE DEF SysInv
<1>1. UNCHANGED <<vars, slew, socket, readFrom>>
  BY DEF Falter
<1>2. IInv' /\ TypeOK'
  BY <1>1, NextIInv DEF IInv
<1>3. Datagrammed'
  BY <1>1, QueueAges DEF Falter, Datagrammed
<1>4. clock' \in 0 .. EraTicks - 1 /\ truth' \in 0 .. EraTicks - 1
  <2>1. clock - 1 \in Int /\ truth + 1 \in Int
    BY ClockConstants DEF TypeOKSystem
  <2>2. QED
    BY <2>1, ClockConstants DEF Falter
<1>5. gained' \in Int /\ 2 * AbsoluteOf(gained') <= EraTicks
  <2>1. gained - 2 \in Int
    BY DEF TypeOKSystem
  <2>2. QED
    BY <2>1, ShorterType DEF Falter
<1>6. sinceRequest' \in 0 .. MaxAge /\ lag' \in Nat
  <2>1. MaxAge \in Nat /\ sinceRequest \in 0 .. MaxAge /\ lag \in Nat
    BY SystemAssumption DEF TypeOKSystem
  <2>2. /\ sinceRequest' = IF sinceRequest = MaxAge THEN sinceRequest ELSE sinceRequest + 1
        /\ lag' = lag + 1
    BY DEF Falter
  <2>3. QED
    BY <2>1, <2>2
<1>7. TypeOKSystem'
  BY <1>1, <1>2, <1>3, <1>4, <1>5, <1>6 DEF TypeOKSystem, Datagrammed
<1>8. Matching'
  <2>1. \A e \in net' \cup socket' : \E d \in net \cup socket :
           e.server = d.server /\ e.packet = d.packet
    BY <1>1 DEF Falter, Datagrammed, OnItsWay
  <2>2. UNCHANGED <<pc, result, server, addr, lastRequest, buffer, readFrom>>
    BY <1>1 DEF vars, fields
  <2>3. Current' = Current
    BY <2>2 DEF Current
  <2>4. QED
    BY <2>1, <2>2, <2>3 DEF Matching
<1>9. QED
  BY <1>2, <1>3, <1>7, <1>8

LEMMA UnsteadyInvariance == UnsteadySystemSpec => []SysInv
<1>1. InitSystem => SysInv
  BY InitSysInv
<1>2. SysInv /\ [NextUnsteady]_sysVars => SysInv'
  BY NextSysInv, FalterSysInv DEF NextUnsteady
<1>3. QED
  BY <1>1, <1>2, PTL DEF UnsteadySystemSpec

-----------------------------------------------------------------------------
(* Theorems                                                                *)

(* The client of the system is the client of SntpClient: whatever holds of *)
(* that one - its invariants, and that it implements SntpExchange - holds  *)
(* of a client on a real host (a call borrows the host, and nothing else   *)
(* touches the client).                                                    *)
THEOREM SystemImplementsClient == SystemSpec => Spec
<1>1. InitSystem => Init
  BY DEF InitSystem
<1>2. SysInv /\ [NextSystem]_sysVars => [Next]_vars
  BY SystemStepIsClients DEF SysInv
<1>3. QED
  BY <1>1, <1>2, SystemInvariance, PTL DEF SystemSpec, Spec

(* Clocks stay in the era, corrections slewed within the host's limit and  *)
(* queues within their bounds.                                             *)
THEOREM SystemTypes == SystemSpec => []TypeOKSystem
<1>1. SysInv => TypeOKSystem
  BY DEF SysInv
<1>2. QED
  BY <1>1, SystemInvariance, PTL

(* A correction is attributed to the server that answered, whatever the    *)
(* network does with the datagrams and however often the servers rotate.   *)
THEOREM AnswererCredited == SystemSpec => []CreditedToAnswerer
<1>1. SysInv => CreditedToAnswerer
  BY DEF SysInv, IInv, Matching, CorrectionIsAnswer, CreditedToAnswerer
<1>2. QED
  BY <1>1, SystemInvariance, PTL

-----------------------------------------------------------------------------
(* On a clock that is set back                                             *)

(* However the host's clock misbehaves, its client is still one of         *)
(* SntpClient, and implements SntpExchange.                                *)
THEOREM UnsteadyImplementsClient == UnsteadySystemSpec => Spec
<1>1. InitSystem => Init
  BY DEF InitSystem
<1>2. SysInv /\ [NextUnsteady]_sysVars => [Next]_vars
  <2> SUFFICES ASSUME SysInv, [NextUnsteady]_sysVars PROVE [Next]_vars
    OBVIOUS
  <2>1. CASE [NextSystem]_sysVars
    BY <2>1, SystemStepIsClients DEF SysInv
  <2>2. CASE Falter
    BY <2>2 DEF Falter
  <2>3. QED
    BY <2>1, <2>2 DEF NextUnsteady
<1>3. QED
  BY <1>1, <1>2, UnsteadyInvariance, PTL DEF UnsteadySystemSpec, Spec

(* A correction is still credited to the server that answered, although    *)
(* the times of two requests may come in the wrong order.                  *)
THEOREM AnswererCreditedUnsteady == UnsteadySystemSpec => []CreditedToAnswerer
<1>1. SysInv => CreditedToAnswerer
  BY DEF SysInv, IInv, Matching, CorrectionIsAnswer, CreditedToAnswerer
<1>2. QED
  BY <1>1, UnsteadyInvariance, PTL
=============================================================================
