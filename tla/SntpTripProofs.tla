--------------------------- MODULE SntpTripProofs ---------------------------
(***************************************************************************)
(* Proofs about a whole round trip: how exactly calculate_elapsed_ms and   *)
(* calculate_clock_offset measure it, for any widths, any divisor, any     *)
(* random bits and clocks in any era that satisfy the assumptions, and how *)
(* its answer is understood.                                               *)
(***************************************************************************)
EXTENDS SntpOnWire, SntpSerializerProofs

-----------------------------------------------------------------------------
(* Types, and what is written                                              *)

(* What is written into a buffer of numbers are numbers. *)
LEMMA RequestTyped ==
    ASSUME NEW cells \in [Header \cup Tail -> Nat], NEW t \in Timestamp
    PROVE  SerializeRequest(t, cells) \in [Header \cup Tail -> Nat]
<1>1. t.seconds \in Nat /\ t.fractions \in Nat
  BY WidthsAssumption DEF Timestamp, SecondsMod
<1>2. \A o \in Header \cup Tail : SerializeRequest(t, cells)[o] \in Nat
  BY <1>1 DEF SerializeRequest, Version, ModeClient
<1>3. QED
  BY <1>2 DEF SerializeRequest

LEMMA ResponseTyped ==
    ASSUME NEW cells \in [Header \cup Tail -> Nat], NEW a \in Answers,
           Stamp(servedAt + skew) \in Timestamp, Stamp(repliedAt + skew) \in Timestamp
    PROVE  ResponseTo(cells, a) \in [Header \cup Tail -> Nat]
<1>1. \A t \in Timestamp : t.seconds \in Nat /\ t.fractions \in Nat
  BY WidthsAssumption DEF Timestamp, SecondsMod
<1>2. a.leap \in Nat /\ a.stratum \in Nat /\ a.refId \in Nat
  BY TripAssumption
<1>3. TransmitSeconds \in Header /\ TransmitFractions \in Header
  BY DEF Header, TransmitSeconds, TransmitFractions
<1>4. \A o \in Header \cup Tail : ResponseTo(cells, a)[o] \in Nat
  BY <1>1, <1>2, <1>3 DEF ResponseTo, Version, ModeServer
<1>5. QED
  BY <1>4 DEF ResponseTo

(* The server's clock never reads below tick 0. *)
ServerTicks == servedAt + skew \in Nat /\ repliedAt + skew \in Nat /\ now + skew \in Nat

(* The answer is written over the request in the buffer; every other step  *)
(* of a trip only takes readings of the two clocks.                        *)
LEMMA NextTripTypes ==
    ASSUME TypeOK, ServerTicks, [Next]_vars
    PROVE  TypeOK' /\ ServerTicks'
<1> USE DEF TypeOK, ServerTicks, PhaseStart, Phases
<1>1. now \in Nat /\ skew \in Int
  BY TripAssumption
<1>2. CASE ReachClient
  <2>1. Stamp(servedAt + skew) \in Timestamp /\ Stamp(repliedAt + skew) \in Timestamp
    BY StampDropsEras
  <2>2. buffer' \in [Header \cup Tail -> Nat] /\ answer' \in Answers
    BY <1>2, <2>1, ResponseTyped DEF ReachClient
  <2>3. QED
    BY <1>2, <2>2 DEF ReachClient
<1>3. CASE ReachServer \/ Reply
  BY <1>1, <1>3 DEF ReachServer, Reply
<1>4. CASE Tick \/ UNCHANGED vars
  BY <1>1, <1>4 DEF Tick, vars
<1>5. QED
  BY <1>2, <1>3, <1>4 DEF Next

LEMMA TripTypes == Spec => [](TypeOK /\ ServerTicks)
<1>1. Init => TypeOK /\ ServerTicks
  <2> SUFFICES ASSUME Init PROVE TypeOK /\ ServerTicks
    OBVIOUS
  <2>1. now \in Nat /\ now + skew \in Nat
    BY TripAssumption DEF Init
  <2>2. Stamp(now) \in Timestamp
    BY <2>1, StampDropsEras
  <2>3. request \in Timestamp
    BY <2>2, UnpredictableTime DEF Init
  <2>4. buffer \in [Header \cup Tail -> Nat]
    <3>1. PICK earlier \in Earlier : buffer = SerializeRequest(request, earlier)
      BY DEF Init
    <3>2. earlier \in [Header \cup Tail -> Nat]
      BY TripAssumption
    <3>3. QED
      BY <2>3, <3>1, <3>2, RequestTyped
  <2>5. QED
    BY <2>1, <2>3, <2>4 DEF Init, TypeOK, ServerTicks, Phases, PhaseStart
<1>2. TypeOK /\ ServerTicks /\ [Next]_vars => (TypeOK /\ ServerTicks)'
  BY NextTripTypes
<1>3. QED
  BY <1>1, <1>2, PTL DEF Spec

(* The clocks, the request and the cells of the buffer keep their types,   *)
(* whatever the buffer held (serialize_request, deserialize_response).     *)
THEOREM TripTypeOK == Spec => []TypeOK
BY TripTypes, PTL

(* A request that is on its way is what serialize_request made of the      *)
(* buffer, so nothing of an earlier response goes out with it.             *)
RequestWritten ==
    phase # "done" => \E earlier \in Earlier : buffer = SerializeRequest(request, earlier)

LEMMA WrittenIsOnlyTheRequest == TypeOK /\ RequestWritten => OnlyTheRequestIsSent
<1> SUFFICES ASSUME TypeOK, RequestWritten, phase # "done"
             PROVE  /\ PacketOf(buffer) = RequestPacket(request)
                    /\ \A o \in Header \ {LeapVersionMode, TransmitSeconds, TransmitFractions} :
                          buffer[o] = 0
                    /\ \E earlier \in Earlier : \A o \in Tail : buffer[o] = earlier[o]
  BY DEF OnlyTheRequestIsSent
<1>1. PICK earlier \in Earlier : buffer = SerializeRequest(request, earlier)
  BY DEF RequestWritten
<1>2. DOMAIN earlier = Header \cup Tail /\ Tail = DOMAIN earlier \ Header
  BY TripAssumption
<1>3. PacketOf(buffer) = RequestPacket(request)
      /\ \A o \in DOMAIN earlier \ Header : buffer[o] = earlier[o]
  BY <1>1, <1>2, RequestLayout DEF TypeOK
<1>4. \A o \in Header \ {LeapVersionMode, TransmitSeconds, TransmitFractions} : buffer[o] = 0
  BY <1>1, <1>2
  DEF SerializeRequest, LeapVersionMode, TransmitSeconds, TransmitFractions
<1>5. QED
  BY <1>2, <1>3, <1>4

(* A request carries nothing of what an earlier response left in the       *)
(* buffer, and what is behind its header stays (serialize_request).        *)
THEOREM NothingElseIsSent == Spec => []OnlyTheRequestIsSent
<1>1. Init => RequestWritten
  BY DEF Init, RequestWritten
<1>2. RequestWritten /\ [Next]_vars => RequestWritten'
  BY DEF Next, Tick, ReachServer, Reply, ReachClient, vars, RequestWritten
<1>3. TypeOK /\ RequestWritten => OnlyTheRequestIsSent
  BY WrittenIsOnlyTheRequest
<1>4. QED
  BY <1>1, <1>2, <1>3, TripTypeOK, PTL DEF Spec

(* Two clocks within half an era of each other are told apart correctly,   *)
(* with the right sign, in whatever eras they stand: the 2036 wrap costs   *)
(* nothing.                                                                *)
THEOREM EraSafety == Spec => []EraSafe
<1>1. TypeOK /\ ServerTicks => EraSafe
  <2> SUFFICES ASSUME TypeOK, ServerTicks, WithinHalfEra(TrueDifference(now))
               PROVE  SafeTimeDifference(Stamp(now + skew), Stamp(now)) = TrueDifference(now)
    BY DEF EraSafe
  <2> DEFINE server == Stamp(now + skew)
             client == Stamp(now)
             E == TotalMillisecondsInNtpEra
  <2>1. now \in Nat /\ now + skew \in Nat
    BY DEF TypeOK, ServerTicks
  <2>2. PICK i \in Nat : TrueMs(now + skew) = AsMillis(server) + E * i
    BY <2>1, StampDropsEras
  <2>3. PICK j \in Nat : TrueMs(now) = AsMillis(client) + E * j
    BY <2>1, StampDropsEras
  <2>4. server \in Timestamp /\ client \in Timestamp
    BY <2>1, StampDropsEras
  <2>5. AsMillis(server) \in Int /\ AsMillis(client) \in Int /\ E \in Int
    BY <2>4, AsMillisRange, EraLength
  <2> HIDE DEF server, client, E
  <2>6. E * i - E * j = E * (i - j)
    BY <2>5
  <2>7. TrueDifference(now) = AsMillis(server) - AsMillis(client) + E * (i - j)
    BY <2>2, <2>3, <2>5, <2>6 DEF TrueDifference
  <2>8. i - j \in Int
    OBVIOUS
  <2>9. QED
    BY <2>4, <2>7, <2>8, SmallestDifference DEF server, client, E
<1>2. QED
  BY <1>1, TripTypes, PTL

-----------------------------------------------------------------------------
(* The trip                                                                *)

(* The request is the reading at the start with random bits in its         *)
(* fraction: they move it by less than a millisecond.                      *)
RequestRead == ~ IsZero(request) /\ ReadAt(request, sentAt)

(* No leg of the trip takes longer than MaxLeg. *)
TripTimes ==
    /\ servedAt <= sentAt + MaxLeg
    /\ repliedAt <= sentAt + 2 * MaxLeg
    /\ now <= PhaseStart + MaxLeg

(* What is in the buffer at the end is a response to the request.          *)
Answered ==
    phase = "done" =>
        /\ answer \in Answers
        /\ \E earlier \in Earlier :
              buffer = ResponseTo(SerializeRequest(request, earlier), answer)

TripInv == TypeOK /\ ServerTicks /\ RequestWritten /\ RequestRead /\ TripTimes /\ Answered

LEMMA InitTrip == Init => RequestWritten /\ RequestRead /\ TripTimes /\ Answered
<1> SUFFICES ASSUME Init PROVE RequestWritten /\ RequestRead /\ TripTimes /\ Answered
  OBVIOUS
<1>1. now \in StartTicks /\ now \in Nat /\ sentAt = now
  BY TripAssumption DEF Init
<1>2. PICK mask \in RandomMasks : request \in Unpredictable(Stamp(now), mask)
  BY DEF Init
<1>3. Stamp(now) \in Timestamp /\ ~ IsZero(Stamp(now))
  BY <1>1, StampDropsEras, TripAssumption
<1>4. ~ IsZero(request)
  BY <1>2, <1>3, UnpredictableTime
<1>5. PICK f \in BitOr(Stamp(now).fractions, mask) : request = [Stamp(now) EXCEPT !.fractions = f]
  BY <1>2 DEF Unpredictable
<1>6. request.seconds = Stamp(now).seconds /\ request.fractions = f
  BY <1>3, <1>5 DEF Timestamp
<1>7. Stamp(now).fractions <= f /\ f < Stamp(now).fractions + FractionsPerMs
  <2>1. Stamp(now).fractions \in Int /\ mask \in Int /\ mask < FractionsPerMs
        /\ FractionsPerMs \in Int
    BY <1>3, UnitTypes, RandomAssumption, TripAssumption DEF Timestamp
  <2>2. QED
    BY <2>1 DEF BitOr
<1>8. RequestRead
  BY <1>1, <1>4, <1>6, <1>7 DEF RequestRead, ReadAt
<1>9. TripTimes
  BY <1>1, TripAssumption DEF Init, TripTimes, PhaseStart
<1>10. RequestWritten /\ Answered
  BY DEF Init, RequestWritten, Answered
<1>11. QED
  BY <1>8, <1>9, <1>10

LEMMA NextTrip ==
    ASSUME TypeOK, RequestWritten, RequestRead, TripTimes, Answered, [Next]_vars
    PROVE  (RequestWritten /\ RequestRead /\ TripTimes /\ Answered)'
<1>1. RequestWritten'
  BY DEF Next, Tick, ReachServer, Reply, ReachClient, vars, RequestWritten
<1>2. RequestRead'
  BY DEF Next, Tick, ReachServer, Reply, ReachClient, vars, RequestRead
<1>3. TripTimes'
  <2> USE TripAssumption DEF TypeOK, TripTimes, PhaseStart, Phases
  <2>1. CASE ReachServer \/ Reply \/ ReachClient
    BY <2>1 DEF ReachServer, Reply, ReachClient
  <2>2. CASE Tick \/ UNCHANGED vars
    BY <2>2 DEF Tick, vars
  <2>3. QED
    BY <2>1, <2>2 DEF Next
<1>4. Answered'
  <2>1. CASE Tick \/ ReachServer \/ Reply
    BY <2>1 DEF Tick, ReachServer, Reply, Answered
  <2>2. CASE ReachClient
    <3>1. PICK a \in Answers : answer' = a /\ buffer' = ResponseTo(buffer, a)
      BY <2>2 DEF ReachClient
    <3>2. PICK earlier \in Earlier : buffer = SerializeRequest(request, earlier)
      BY <2>2 DEF ReachClient, RequestWritten
    <3>3. UNCHANGED <<request, skew, servedAt, repliedAt>>
      BY <2>2 DEF ReachClient
    <3>4. buffer' = ResponseTo(SerializeRequest(request, earlier), a)
      BY <3>1, <3>2
    <3>5. buffer' = ResponseTo(SerializeRequest(request, earlier), answer)'
      BY <3>1, <3>3, <3>4 DEF ResponseTo
    <3>6. QED
      BY <3>1, <3>2, <3>5 DEF Answered
  <2>3. CASE UNCHANGED vars
    BY <2>3 DEF vars, Answered, ResponseTo
  <2>4. QED
    BY <2>1, <2>2, <2>3 DEF Next
<1>5. QED
  BY <1>1, <1>2, <1>3, <1>4

LEMMA TripInvariance == Spec => []TripInv
<1>1. Init => RequestWritten /\ RequestRead /\ TripTimes /\ Answered
  BY InitTrip
<1>2. TypeOK /\ RequestWritten /\ RequestRead /\ TripTimes /\ Answered /\ [Next]_vars
      => (RequestWritten /\ RequestRead /\ TripTimes /\ Answered)'
  BY NextTrip
<1>3. TypeOK /\ ServerTicks /\ RequestWritten /\ RequestRead /\ TripTimes /\ Answered => TripInv
  BY DEF TripInv
<1>4. QED
  BY <1>1, <1>2, <1>3, TripTypes, PTL DEF Spec

(* The times of the trip, in seconds and fractions. *)
LEMMA TripReadings ==
    ASSUME TripInv
    PROVE  /\ now \in Nat /\ sentAt \in Nat /\ sentAt <= now
           /\ request \in Timestamp
           /\ request.seconds = SecondOf(sentAt) % SecondsMod
           /\ FractionOf(sentAt) <= request.fractions
           /\ request.fractions < FractionOf(sentAt) + FractionsPerMs
           /\ SecondOf(sentAt) <= SecondOf(now)
           /\ SecondOf(now) - SecondOf(sentAt) < SecondsMod
           /\ now - sentAt < (SecondsMod - 1) * FractionsMod
<1>1. now \in Nat /\ sentAt \in Nat /\ sentAt <= now /\ request \in Timestamp
  BY DEF TripInv, TypeOK, PhaseStart
<1>2. /\ request.seconds = SecondOf(sentAt) % SecondsMod
      /\ FractionOf(sentAt) <= request.fractions
      /\ request.fractions < FractionOf(sentAt) + FractionsPerMs
  BY <1>1, ReadingOf DEF TripInv, RequestRead, ReadAt
<1>3. SecondOf(sentAt) <= SecondOf(now)
  BY <1>1, SecondMonotone
<1>4. now - sentAt < (SecondsMod - 1) * FractionsMod
  <2>1. now <= sentAt + 3 * MaxLeg
    BY TripAssumption DEF TripInv, TypeOK, TripTimes, PhaseStart
  <2>2. (SecondsMod - 1) * FractionsMod \in Int /\ MaxLeg \in Nat
    BY UnitTypes, TripAssumption
  <2>3. QED
    BY <1>1, <2>1, <2>2, TripAssumption
<1>5. SecondOf(now) - SecondOf(sentAt) < SecondsMod
  BY <1>1, <1>4, SecondsApart
<1>6. QED
  BY <1>1, <1>2, <1>3, <1>4, <1>5

(* What the retry loops compute during a trip. *)
ElapsedFormula ==
    ElapsedMs = (SecondOf(now) - SecondOf(sentAt)) * MsPerSec
                   + PartialMs(request.fractions, FractionOf(now))

LEMMA ElapsedDuringTrip ==
    ASSUME TripInv
    PROVE  ElapsedFormula
BY TripReadings, ElapsedBetween DEF TripInv, RequestRead, ElapsedMs, ElapsedFormula

(* calculate_elapsed_ms on a clock that only advances, in whatever era and *)
(* across the wrap: at most a millisecond ahead of the true time, at most  *)
(* two behind.                                                             *)
THEOREM ElapsedIsAccurate == Spec => []ElapsedAccurate
<1>1. TripInv => ElapsedAccurate
  <2> SUFFICES ASSUME TripInv PROVE ElapsedAccurate
    OBVIOUS
  <2> DEFINE r == request.fractions
             f == FractionOf(now)
             g == FractionOf(sentAt)
             ms == (SecondOf(now) - SecondOf(sentAt)) * MsPerSec
  <2>1. now \in Nat /\ sentAt \in Nat /\ request \in Timestamp
        /\ g <= r /\ r < g + FractionsPerMs
    BY TripReadings
  <2>2. r \in Nat /\ f \in Nat /\ g \in Nat
    <3>1. f \in 0 .. FractionsMod - 1 /\ g \in 0 .. FractionsMod - 1
      BY <2>1, ReadingOf
    <3>2. r \in 0 .. FractionsMod - 1 /\ FractionsMod \in Nat
      BY <2>1, UnitTypes DEF Timestamp
    <3>3. QED
      BY <3>1, <3>2
  <2>3. FractionsToMs(g) \in Nat /\ FractionsToMs(r) \in FractionsToMs(g) .. FractionsToMs(g) + 1
    BY <2>1, <2>2, WithinAMillisecond
  <2>4. TrueMs(now) - TrueMs(sentAt) = ms + FractionsToMs(f) - FractionsToMs(g)
        /\ ms \in Int /\ FractionsToMs(f) \in Int
    <3>1. /\ TrueMs(now) = SecondOf(now) * MsPerSec + FractionsToMs(f)
          /\ TrueMs(sentAt) = SecondOf(sentAt) * MsPerSec + FractionsToMs(g)
          /\ SecondOf(now) \in Int /\ SecondOf(sentAt) \in Int /\ MsPerSec \in Int
          /\ FractionsToMs(f) \in Int
      <4>1. /\ TrueMs(now) = SecondOf(now) * MsPerSec + FractionsToMs(f)
            /\ SecondOf(now) \in Nat /\ FractionsToMs(f) \in 0 .. MsPerSec - 1
        BY <2>1, ReadingOf
      <4>2. /\ TrueMs(sentAt) = SecondOf(sentAt) * MsPerSec + FractionsToMs(g)
            /\ SecondOf(sentAt) \in Nat
        BY <2>1, ReadingOf
      <4>3. QED
        BY <4>1, <4>2, UnitTypes
    <3>2. SecondOf(now) * MsPerSec \in Int /\ SecondOf(sentAt) * MsPerSec \in Int
          /\ ms = SecondOf(now) * MsPerSec - SecondOf(sentAt) * MsPerSec
      BY <3>1
    <3> HIDE DEF f, g, ms
    <3>3. QED
      BY <2>3, <3>1, <3>2
  <2>5. ElapsedMs = ms + PartialMs(r, f)
    BY ElapsedDuringTrip DEF ElapsedFormula
  <2>6. /\ PartialMs(r, f) \in Int
        /\ PartialMs(r, f) >= FractionsToMs(f) - FractionsToMs(r) - 1
        /\ PartialMs(r, f) <= FractionsToMs(f) - FractionsToMs(r) + 1
    <3>1. FractionsToMs(r) \in Int /\ FractionsToMs(f) \in Int
      BY <2>3, <2>4
    <3>2. CASE f > r
      BY <2>2, <3>1, <3>2, PartialMsAccurate
    <3>3. CASE f <= r
      BY <2>2, <3>1, <3>3, PartialMsAccurate
    <3>4. QED
      BY <2>2, <3>2, <3>3
  <2> HIDE DEF r, f, g, ms
  <2>7. ElapsedMs \in TrueMs(now) - TrueMs(sentAt) - 2 .. TrueMs(now) - TrueMs(sentAt) + 1
    BY <2>3, <2>4, <2>5, <2>6
  <2>8. QED
    BY <2>7 DEF ElapsedAccurate
<1>2. QED
  BY <1>1, TripInvariance, PTL

(* The measured time never goes back while the clock only advances: the    *)
(* borrowed fraction is never more than the second that has begun.         *)
THEOREM DeadlinesStayReached == Spec => DeadlineStaysReached
<1>1. TripInv => ElapsedFormula
  BY ElapsedDuringTrip
<1>2. TripInv /\ ElapsedFormula /\ ElapsedFormula' /\ [Next]_vars
      => [ElapsedMs' >= ElapsedMs]_vars
  <2> SUFFICES ASSUME TripInv, ElapsedFormula, ElapsedFormula', Next
               PROVE  ElapsedMs' >= ElapsedMs
    OBVIOUS
  <2> DEFINE r == request.fractions
             f == FractionOf(now)
             h == FractionOf(now + 1)
             n == SecondOf(now)
             m == SecondOf(now + 1)
             s == SecondOf(sentAt)
  <2>1. now \in Nat /\ sentAt \in Nat /\ request \in Timestamp
    BY TripReadings
  <2>2. /\ r \in 0 .. FractionsMod - 1 /\ f \in 0 .. FractionsMod - 1
        /\ h \in 0 .. FractionsMod - 1
        /\ n \in Nat /\ m \in Nat /\ s \in Nat /\ MsPerSec \in Nat
    <3>1. now + 1 \in Nat
      BY <2>1
    <3>2. f \in 0 .. FractionsMod - 1 /\ n \in Nat
      BY <2>1, ReadingOf
    <3>3. h \in 0 .. FractionsMod - 1 /\ m \in Nat
      BY <3>1, ReadingOf
    <3>4. r \in 0 .. FractionsMod - 1 /\ s \in Nat /\ MsPerSec \in Nat
      BY <2>1, ReadingOf, UnitTypes DEF Timestamp
    <3>5. QED
      BY <3>2, <3>3, <3>4
  <2>3. ElapsedMs = (n - s) * MsPerSec + PartialMs(r, f)
    BY DEF ElapsedFormula
  <2>4. PartialMs(r, f) \in Int /\ PartialMs(r, h) \in Int
    BY <2>2, PartialMsAccurate, UnitTypes
  <2>5. CASE Tick
    <3>1. now' = now + 1 /\ request' = request /\ sentAt' = sentAt
      BY <2>5 DEF Tick
    <3>2. ElapsedMs' = (m - s) * MsPerSec + PartialMs(r, h)
      <4>1. ElapsedMs' = (SecondOf(now') - SecondOf(sentAt')) * MsPerSec
                            + PartialMs(request'.fractions, FractionOf(now'))
        BY DEF ElapsedFormula
      <4>2. QED
        BY <3>1, <4>1
    <3>3. CASE m = n /\ h = f + 1
      <4>1. PartialMs(r, h) >= PartialMs(r, f)
        BY <2>2, <3>3, PartialMsGrows
      <4>2. (n - s) * MsPerSec \in Int
        BY <2>2
      <4>3. QED
        BY <2>3, <2>4, <3>2, <3>3, <4>1, <4>2
    <3>4. CASE m = n + 1 /\ f = FractionsMod - 1 /\ h = 0
      <4>1. MsPerSec + PartialMs(r, h) >= PartialMs(r, f)
        BY <2>2, <3>4, PartialMsGrows
      <4>2. (n - s) * MsPerSec \in Int /\ (m - s) * MsPerSec = (n - s) * MsPerSec + MsPerSec
        BY <2>2, <3>4
      <4> HIDE DEF r, f, h, n, m, s
      <4>3. QED
        BY <2>2, <2>3, <2>4, <3>2, <4>1, <4>2
    <3>5. QED
      BY <2>1, <3>3, <3>4, NextTick
  <2>6. CASE ReachServer \/ Reply \/ ReachClient
    <3>1. now' = now /\ request' = request
      BY <2>6 DEF ReachServer, Reply, ReachClient
    <3>2. ElapsedMs' = ElapsedMs
      BY <3>1 DEF ElapsedMs
    <3>3. (n - s) * MsPerSec \in Int
      BY <2>2
    <3>4. ElapsedMs \in Int
      BY <2>3, <2>4, <3>3
    <3>5. QED
      BY <3>2, <3>4
  <2>7. QED
    BY <2>5, <2>6 DEF Next
<1>3. QED
  BY <1>1, <1>2, TripInvariance, PTL DEF Spec, DeadlineStaysReached

-----------------------------------------------------------------------------
(* The answer                                                              *)

(* The header a server sends decodes to its answer, its two readings and   *)
(* the timestamp it received: what it wrote is read where it wrote it, and *)
(* the leap and mode bits of the first byte are taken apart correctly.     *)
LEMMA ResponseLayout ==
    ASSUME NEW cells, DOMAIN cells = Header \cup Tail, NEW a \in Answers,
           NEW sent \in Timestamp,
           cells[TransmitSeconds] = sent.seconds, cells[TransmitFractions] = sent.fractions,
           Stamp(servedAt + skew) \in Timestamp, Stamp(repliedAt + skew) \in Timestamp
    PROVE  LET packet == PacketOf(ResponseTo(cells, a))
           IN  /\ packet.mode = "server"
               /\ packet.stratum = KissStratum <=> a.stratum = 0
               /\ packet.code = CodeOf(a.refId)
               /\ packet.leap = LeapWarnings[a.leap + 1]
               /\ packet.origin = sent
               /\ packet.receive = Stamp(servedAt + skew)
               /\ packet.transmit = Stamp(repliedAt + skew)
<1> DEFINE response == ResponseTo(cells, a)
           packet == PacketOf(response)
           received == Stamp(servedAt + skew)
           replied  == Stamp(repliedAt + skew)
<1>1. Header = {0, 1, 2, 3, 4, 8, 12, 16, 20, 24, 28, 32, 36, 40, 44}
  BY DEF Header
<1> USE DEF LeapVersionMode, Stratum, RefId, OriginSeconds, OriginFractions, ReceiveSeconds,
            ReceiveFractions, TransmitSeconds, TransmitFractions
<1>2. /\ response[LeapVersionMode] = a.leap * 64 + Version * 8 + ModeServer
      /\ response[Stratum] = a.stratum
      /\ response[RefId] = a.refId
      /\ response[OriginSeconds] = sent.seconds
      /\ response[OriginFractions] = sent.fractions
      /\ response[ReceiveSeconds] = received.seconds
      /\ response[ReceiveFractions] = received.fractions
      /\ response[TransmitSeconds] = replied.seconds
      /\ response[TransmitFractions] = replied.fractions
  <2>1. \A o \in {0, 1, 12, 24, 28, 32, 36, 40, 44} : o \in DOMAIN cells /\ o \notin Tail
    BY <1>1, TripAssumption
  <2>2. /\ response[LeapVersionMode] = a.leap * 64 + Version * 8 + ModeServer
        /\ response[Stratum] = a.stratum
        /\ response[RefId] = a.refId
    BY <2>1 DEF ResponseTo
  <2>3. /\ response[OriginSeconds] = cells[TransmitSeconds]
        /\ response[OriginFractions] = cells[TransmitFractions]
    BY <2>1 DEF ResponseTo
  <2>4. /\ response[ReceiveSeconds] = received.seconds
        /\ response[ReceiveFractions] = received.fractions
    BY <2>1 DEF ResponseTo
  <2>5. /\ response[TransmitSeconds] = replied.seconds
        /\ response[TransmitFractions] = replied.fractions
    BY <2>1 DEF ResponseTo
  <2>6. QED
    BY <2>2, <2>3, <2>4, <2>5
<1> HIDE DEF response
<1>3. ASSUME NEW t \in Timestamp PROVE [seconds |-> t.seconds, fractions |-> t.fractions] = t
  BY DEF Timestamp
<1>4. packet.origin = sent /\ packet.receive = received /\ packet.transmit = replied
  BY <1>2, <1>3 DEF PacketOf, TimestampAt
<1>5. packet.code = CodeOf(a.refId)
  BY <1>2 DEF PacketOf
<1>6. packet.stratum = KissStratum <=> a.stratum = 0
  BY <1>2 DEF PacketOf, KissStratum
<1>7. packet.mode = "server" /\ packet.leap = LeapWarnings[a.leap + 1]
  <2>1. a.leap \in 0 .. 3
    BY TripAssumption
  <2>2. response[LeapVersionMode] = a.leap * 64 + 36
    BY <1>2, <2>1 DEF Version, ModeServer
  <2>3. /\ response[LeapVersionMode] % 8 = 4
        /\ response[LeapVersionMode] \div 64 = a.leap
    BY <2>1, <2>2
  <2>4. packet.mode = "server"
    <3>1. packet.mode = ModeOf(response[LeapVersionMode])
      BY DEF PacketOf
    <3>2. ModeOf(response[LeapVersionMode]) = "server"
      BY <2>3 DEF ModeOf, ModeServer, ModeClient
    <3>3. QED
      BY <3>1, <3>2
  <2>5. packet.leap = LeapOf(response[LeapVersionMode])
    BY DEF PacketOf
  <2>6. LeapOf(response[LeapVersionMode]) = LeapWarnings[a.leap + 1]
    <3>1. a.leap \in {0, 1, 2, 3}
      BY <2>1
    <3>2. /\ LeapWarnings[1] = "None"
          /\ LeapWarnings[2] = "LastMinuteHas61Seconds"
          /\ LeapWarnings[3] = "LastMinuteHas59Seconds"
          /\ LeapWarnings[4] = "AlarmServerNotSynchronized"
      BY DEF LeapWarnings
    <3>3. QED
      BY <2>3, <3>1, <3>2 DEF LeapOf
  <2>7. QED
    BY <2>4, <2>5, <2>6
<1>8. QED
  BY <1>4, <1>5, <1>6, <1>7 DEF response

(* What deserialize_response makes of the answer that ends the trip. *)
LEMMA AnswerRead ==
    ASSUME TripInv, phase = "done"
    PROVE  LET received == Stamp(servedAt + skew)
               replied  == Stamp(repliedAt + skew)
           IN  /\ IsZero(received) \/ IsZero(replied) => Verdict.tag = "Err"
               /\ ~ IsZero(received) /\ ~ IsZero(replied) /\ answer.stratum = 0 =>
                     Verdict.tag = "Rejected" /\ Verdict.code = CodeOf(answer.refId)
               /\ ~ IsZero(received) /\ ~ IsZero(replied) /\ answer.stratum # 0 =>
                     /\ Verdict.tag = "Accepted"
                     /\ Verdict.serverTime = replied
                     /\ Verdict.leap = LeapWarnings[answer.leap + 1]
                     /\ Verdict.offset = CalculateClockOffset(request, received, replied, Stamp(now))
<1> DEFINE received == Stamp(servedAt + skew)
           replied  == Stamp(repliedAt + skew)
           packet == PacketOf(buffer)
<1>1. received \in Timestamp /\ replied \in Timestamp
  BY StampDropsEras DEF TripInv, ServerTicks
<1>2. answer \in Answers /\ request \in Timestamp /\ ~ IsZero(request)
  BY DEF TripInv, Answered, RequestRead, TypeOK
<1>3. PICK earlier \in Earlier : buffer = ResponseTo(SerializeRequest(request, earlier), answer)
  BY DEF TripInv, Answered
<1> DEFINE cells == SerializeRequest(request, earlier)
<1>4. /\ DOMAIN cells = Header \cup Tail
      /\ cells[TransmitSeconds] = request.seconds
      /\ cells[TransmitFractions] = request.fractions
  <2>1. DOMAIN earlier = Header \cup Tail
    BY TripAssumption
  <2>2. {0, 40, 44} \subseteq Header
    BY DEF Header
  <2>3. QED
    BY <2>1, <2>2
    DEF SerializeRequest, LeapVersionMode, TransmitSeconds, TransmitFractions
<1> HIDE DEF cells
<1>5. /\ packet.mode = "server"
      /\ packet.stratum = KissStratum <=> answer.stratum = 0
      /\ packet.code = CodeOf(answer.refId)
      /\ packet.leap = LeapWarnings[answer.leap + 1]
      /\ packet.origin = request
      /\ packet.receive = received
      /\ packet.transmit = replied
  BY <1>1, <1>2, <1>3, <1>4, ResponseLayout DEF cells
<1> HIDE DEF packet, received, replied
<1>6. ResponseError(request, packet)
        = IF IsZero(received) \/ IsZero(replied) THEN "InvalidResponse" ELSE "none"
  BY <1>2, <1>5 DEF ResponseError
<1>7. Verdict = DeserializeResponse(request, Stamp(now), packet)
  BY DEF Verdict, packet
<1>8. IsZero(received) \/ IsZero(replied) => Verdict.tag = "Err"
  BY <1>6, <1>7 DEF DeserializeResponse
<1>9. ~ IsZero(received) /\ ~ IsZero(replied) /\ answer.stratum = 0 =>
         Verdict.tag = "Rejected" /\ Verdict.code = CodeOf(answer.refId)
  BY <1>5, <1>6, <1>7 DEF DeserializeResponse
<1>10. ~ IsZero(received) /\ ~ IsZero(replied) /\ answer.stratum # 0 =>
          /\ Verdict.tag = "Accepted"
          /\ Verdict.serverTime = replied
          /\ Verdict.leap = packet.leap
          /\ Verdict.offset = CalculateClockOffset(request, received, replied, Stamp(now))
  BY <1>5, <1>6, <1>7 DEF DeserializeResponse
<1>11. QED
  BY <1>5, <1>8, <1>9, <1>10 DEF received, replied

(* Every answer to a request is understood as what it is, whatever the     *)
(* buffer held before, however long the request took and wherever the two  *)
(* clocks stand.                                                           *)
THEOREM AnswersUnderstood == Spec => []AnswerUnderstood
<1>1. TripInv => AnswerUnderstood
  <2> SUFFICES ASSUME TripInv, phase = "done" PROVE AnswerUnderstood
    BY DEF AnswerUnderstood
  <2>1. QED
    BY AnswerRead DEF AnswerUnderstood
<1>2. QED
  BY <1>1, TripInvariance, PTL

-----------------------------------------------------------------------------
(* The offset                                                              *)

(* Milliseconds are read off a staircase whose last step in every second   *)
(* is short; shifting two times by the same number of ticks changes their  *)
(* difference in milliseconds by at most two.                              *)
LEMMA ShiftedDifference ==
    ASSUME NEW x \in Nat, NEW y \in Nat, NEW k \in Int, x + k \in Nat, y + k \in Nat
    PROVE  AbsoluteOf((TrueMs(x + k) - TrueMs(y + k)) - (TrueMs(x) - TrueMs(y))) <= 2
<1> DEFINE F == FractionsMod
           D == FractionsPerMs
           M == MsPerSec
<1>1. /\ F \in Nat /\ F > 0 /\ D \in Nat /\ D > 0 /\ M \in Nat /\ M > 0
      /\ F <= D * M /\ D * (M - 1) < F
  BY UnitTypes, WidthsAssumption, TripAssumption
<1> DEFINE gap == D * M - F
<1>2. gap \in Nat /\ gap < D /\ F \in Int /\ D * M \in Int
  <2> HIDE DEF F, D, M
  <2>1. D * (M - 1) = D * M - D /\ D * M \in Int
    BY <1>1
  <2>2. QED
    BY <1>1, <2>1
(* A time's place on the staircase, if every step were as long. *)
<1> DEFINE Place(t) == t + gap * SecondOf(t)
<1>3. ASSUME NEW t \in Nat
      PROVE  /\ TrueMs(t) \in Nat /\ SecondOf(t) \in Nat /\ Place(t) \in Int
             /\ D * TrueMs(t) <= Place(t) /\ Place(t) < D * TrueMs(t) + D
             /\ F * SecondOf(t) <= t /\ t < F * SecondOf(t) + F
  <2> DEFINE s == SecondOf(t)
             f == FractionOf(t)
             q == FractionsToMs(f)
  <2>1. s \in Nat /\ f \in 0 .. F - 1 /\ t = F * s + f /\ TrueMs(t) = s * M + q
    BY ReadingOf
  <2>2. q \in Nat /\ D * q <= f /\ f < D * q + D
    <3>1. f \in Nat
      BY <1>1, <2>1
    <3>2. QED
      BY <1>1, <3>1, DivMod DEF FractionsToMs
  <2> HIDE DEF s, f, q
  <2>3. Place(t) = t + gap * s
    BY DEF s
  <2> HIDE DEF Place, F, D, M
  <2>4. /\ gap * s = (D * M) * s - F * s
        /\ (D * M) * s \in Int /\ F * s \in Int /\ D * q \in Int
    <3>1. /\ (D * M) \in Int /\ F \in Int /\ s \in Int /\ D \in Int /\ q \in Int
      BY <1>1, <2>1, <2>2
    <3>2. QED
      BY <3>1
  <2>5. D * (s * M + q) = (D * M) * s + D * q
    BY <1>1, <2>1, <2>2
  <2>6. s * M + q \in Nat
    BY <1>1, <2>1, <2>2
  <2> HIDE DEF gap
  <2>7. Place(t) = (D * M) * s + f
    BY <1>1, <2>1, <2>3, <2>4
  <2>8. /\ D * TrueMs(t) <= Place(t) /\ Place(t) < D * TrueMs(t) + D /\ Place(t) \in Int
    BY <1>1, <2>1, <2>2, <2>4, <2>5, <2>7
  <2>9. F * s <= t /\ t < F * s + F
    BY <1>1, <2>1, <2>4
  <2>10. QED
    BY <2>1, <2>6, <2>8, <2>9 DEF s
<1> DEFINE a == TrueMs(x)
           b == TrueMs(y)
           c == TrueMs(x + k)
           d == TrueMs(y + k)
           i == SecondOf(x)
           j == SecondOf(y)
           l == SecondOf(x + k)
           m == SecondOf(y + k)
           e == (l - m) - (i - j)
           z == (c - d) - (a - b)
<1>4. /\ a \in Nat /\ i \in Nat /\ D * a <= x + gap * i /\ x + gap * i < D * a + D
      /\ F * i <= x /\ x < F * i + F
  BY <1>3
<1>5. /\ b \in Nat /\ j \in Nat /\ D * b <= y + gap * j /\ y + gap * j < D * b + D
      /\ F * j <= y /\ y < F * j + F
  BY <1>3
<1>6. /\ c \in Nat /\ l \in Nat /\ D * c <= x + k + gap * l /\ x + k + gap * l < D * c + D
      /\ F * l <= x + k /\ x + k < F * l + F
  BY <1>3
<1>7. /\ d \in Nat /\ m \in Nat /\ D * d <= y + k + gap * m /\ y + k + gap * m < D * d + D
      /\ F * m <= y + k /\ y + k < F * m + F
  BY <1>3
<1> HIDE DEF F, D, M, gap, a, b, c, d, i, j, l, m
<1>8. e \in {-1, 0, 1}
  <2>1. /\ F * i \in Int /\ F * j \in Int /\ F * l \in Int /\ F * m \in Int
        /\ F * e = (F * l - F * m) - (F * i - F * j)
    BY <1>1, <1>4, <1>5, <1>6, <1>7
  <2>2. F * e < 2 * F /\ F * e > -(2 * F)
    BY <1>1, <1>4, <1>5, <1>6, <1>7, <2>1
  <2>3. e \in Int
    BY <1>4, <1>5, <1>6, <1>7
  <2> HIDE DEF e
  <2>4. ASSUME e >= 2 PROVE FALSE
    <3>1. F * e >= F * 2
      BY <1>1, <2>3, <2>4
    <3>2. QED
      BY <1>1, <2>2, <2>3, <3>1
  <2>5. ASSUME e <= -2 PROVE FALSE
    <3>1. F * e <= F * (-2)
      BY <1>1, <2>3, <2>5
    <3>2. QED
      BY <1>1, <2>2, <2>3, <3>1
  <2>6. QED
    BY <2>3, <2>4, <2>5
<1>9. /\ gap * i \in Int /\ gap * j \in Int /\ gap * l \in Int /\ gap * m \in Int
      /\ gap * e = (gap * l - gap * m) - (gap * i - gap * j)
  BY <1>2, <1>4, <1>5, <1>6, <1>7
<1>10. gap * e < D /\ gap * e > -D /\ gap * e \in Int
  <2> HIDE DEF e
  <2>1. QED
    BY <1>1, <1>2, <1>8
<1>11. /\ D * a \in Int /\ D * b \in Int /\ D * c \in Int /\ D * d \in Int
       /\ D * z = (D * c - D * d) - (D * a - D * b)
  BY <1>1, <1>4, <1>5, <1>6, <1>7
<1>12. z \in Int
  BY <1>4, <1>5, <1>6, <1>7
<1> HIDE DEF e, z
<1>13. D * z < 3 * D /\ D * z > -(3 * D)
  BY <1>1, <1>4, <1>5, <1>6, <1>7, <1>9, <1>10, <1>11
<1>14. ASSUME z >= 3 PROVE FALSE
  <2>1. D * z >= D * 3
    BY <1>1, <1>12, <1>14
  <2>2. QED
    BY <1>1, <1>12, <1>13, <2>1
<1>15. ASSUME z <= -3 PROVE FALSE
  <2>1. D * z <= D * (-3)
    BY <1>1, <1>12, <1>15
  <2>2. QED
    BY <1>1, <1>12, <1>13, <2>1
<1>16. z >= -2 /\ z <= 2
  BY <1>12, <1>14, <1>15
<1>17. AbsoluteOf(z) <= 2
  BY <1>12, <1>16 DEF AbsoluteOf
<1>18. QED
  BY <1>17 DEF z, a, b, c, d

(* The request stands for a time at most a millisecond after its reading.  *)
LEMMA RequestStandsFor ==
    ASSUME TripInv
    PROVE  /\ StandsFor(request, RequestMs)
           /\ RequestMs \in TrueMs(sentAt) .. TrueMs(sentAt) + 1
<1> DEFINE r == FractionsToMs(request.fractions)
           g == FractionsToMs(FractionOf(sentAt))
           seconds == SecondOf(sentAt) * MsPerSec
           kept == Stamp(sentAt).seconds * MsPerSec
<1>1. sentAt \in Nat /\ request \in Timestamp
  BY TripReadings
<1>2. /\ Stamp(sentAt) \in Timestamp /\ Stamp(sentAt).fractions = FractionOf(sentAt)
      /\ request.seconds = Stamp(sentAt).seconds
  BY <1>1, StampDropsEras, ReadingOf, TripReadings
<1>3. g \in Nat /\ r \in g .. g + 1
  <2>1. request.fractions \in Nat /\ FractionOf(sentAt) \in Nat
    BY <1>1, <1>2, UnitTypes DEF Timestamp
  <2>2. QED
    BY <2>1, TripReadings, WithinAMillisecond
<1>4. TrueMs(sentAt) = seconds + g /\ RequestMs = seconds + r
  <2>1. TrueMs(sentAt) = seconds + g
    BY <1>1, ReadingOf
  <2>2. QED
    BY <2>1 DEF RequestMs, SecondOf
<1>5. AsMillis(Stamp(sentAt)) = kept + g /\ AsMillis(request) = kept + r
  BY <1>2 DEF AsMillis
<1>6. seconds \in Int /\ kept \in Int
  <2>1. SecondOf(sentAt) \in Int /\ MsPerSec \in Int
    BY <1>1, ReadingOf, UnitTypes
  <2>2. Stamp(sentAt).seconds \in Int
    BY <1>2, UnitTypes DEF Timestamp
  <2>3. QED
    BY <2>1, <2>2
<1>7. PICK eras \in Nat :
         TrueMs(sentAt) = AsMillis(Stamp(sentAt)) + TotalMillisecondsInNtpEra * eras
  BY <1>1, StampDropsEras
<1>8. TotalMillisecondsInNtpEra * eras \in Int
  BY EraLength
<1> HIDE DEF r, g, seconds, kept
<1>9. RequestMs = AsMillis(request) + TotalMillisecondsInNtpEra * eras
  BY <1>3, <1>4, <1>5, <1>6, <1>7, <1>8
<1>10. StandsFor(request, RequestMs)
  BY <1>1, <1>9 DEF StandsFor
<1>11. RequestMs \in TrueMs(sentAt) .. TrueMs(sentAt) + 1
  BY <1>3, <1>4, <1>6
<1>12. QED
  BY <1>10, <1>11

(* calculate_clock_offset is as good as the delay is symmetric: beyond     *)
(* half the difference of the two legs it is never more than three         *)
(* milliseconds off - two for the shifted readings, half for the random    *)
(* bits and half for the division - with clocks in any two eras.           *)
THEOREM OffsetIsAccurate == Spec => []OffsetError
<1>1. TripInv => OffsetError
  <2> SUFFICES ASSUME TripInv, phase = "done", Verdict.tag = "Accepted",
                      WithinHalfEra(TrueMs(servedAt + skew) - RequestMs),
                      WithinHalfEra(TrueMs(repliedAt + skew) - TrueMs(now))
               PROVE  AbsoluteOf(2 * Verdict.offset - 2 * TrueDifference(now))
                        <= AbsoluteOf(OutwardMs - HomewardMs) + 6
    BY DEF OffsetError
  <2>1. /\ now \in Nat /\ sentAt \in Nat /\ servedAt \in Nat /\ repliedAt \in Nat
        /\ skew \in Int
        /\ servedAt + skew \in Nat /\ repliedAt + skew \in Nat /\ now + skew \in Nat
    BY TripAssumption DEF TripInv, TypeOK, ServerTicks
  <2>2. Verdict.offset = CalculateClockOffset(request, Stamp(servedAt + skew),
                                              Stamp(repliedAt + skew), Stamp(now))
    BY AnswerRead
  <2> DEFINE p == TrueMs(sentAt)
             a == TrueMs(servedAt)
             b == TrueMs(repliedAt)
             n == TrueMs(now)
             c == TrueMs(servedAt + skew)
             d == TrueMs(repliedAt + skew)
             m == TrueMs(now + skew)
             r == RequestMs
  <2>3. /\ p \in Int /\ a \in Int /\ b \in Int /\ n \in Int
        /\ c \in Int /\ d \in Int /\ m \in Int
    BY <2>1, StampStandsFor
  <2>4. r \in p .. p + 1
    BY RequestStandsFor
  <2>5. SafeTimeDifference(Stamp(servedAt + skew), request) = c - r
    <3>1. StandsFor(Stamp(servedAt + skew), c) /\ StandsFor(request, r)
      BY <2>1, StampStandsFor, RequestStandsFor
    <3>2. r \in Int
      BY <2>3, <2>4
    <3>3. QED
      BY <2>3, <3>1, <3>2, DifferenceOfTimes
  <2>6. SafeTimeDifference(Stamp(repliedAt + skew), Stamp(now)) = d - n
    <3>1. StandsFor(Stamp(repliedAt + skew), d) /\ StandsFor(Stamp(now), n)
      BY <2>1, StampStandsFor
    <3>2. QED
      BY <2>3, <3>1, DifferenceOfTimes
  <2>7. Verdict.offset = HalfTowardZero((c - r) + (d - n))
    BY <2>2, <2>5, <2>6 DEF CalculateClockOffset
  <2>8. AbsoluteOf((c - m) - (a - n)) <= 2 /\ AbsoluteOf((d - m) - (b - n)) <= 2
    BY <2>1, ShiftedDifference
  <2>9. /\ TrueDifference(now) = m - n
        /\ OutwardMs - HomewardMs = (a - p) - (n - b)
    BY DEF TrueDifference, OutwardMs, HomewardMs
  <2> DEFINE offset == Verdict.offset
  <2> HIDE DEF p, a, b, n, c, d, m, r, offset
  <2>10. r \in Int
    BY <2>3, <2>4
  <2>11. offset \in Int /\ 2 * offset \in (c - r) + (d - n) - 1 .. (c - r) + (d - n) + 1
    BY <2>3, <2>7, <2>10, HalfDoubled DEF offset
  <2>12. AbsoluteOf(2 * offset - 2 * (m - n)) <= AbsoluteOf((a - p) - (n - b)) + 6
    BY <2>3, <2>4, <2>8, <2>10, <2>11 DEF AbsoluteOf
  <2>13. QED
    BY <2>9, <2>12 DEF offset
<1>2. QED
  BY <1>1, TripInvariance, PTL
=============================================================================
