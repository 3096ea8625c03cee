-------------------------- MODULE SntpClientProofs --------------------------
(***************************************************************************)
(* Proofs about the client, for any number of servers, any buffer length,  *)
(* any clock and network, with and without authentication.                 *)
(***************************************************************************)
EXTENDS SntpClientHistory, SntpSerializerProofs

-----------------------------------------------------------------------------
(* Lemmas                                                                  *)

(* The packet size of an authenticated request stays within the buffer and *)
(* the u16.                                                                *)
LEMMA SizeWithBounds ==
    ASSUME NEW size \in AuthSizes, ~ (size > BufferLen - PacketBaseSize)
    PROVE  /\ SizeWith(size) \in 0 .. U16Max
           /\ PacketBaseSize <= SizeWith(size)
           /\ SizeWith(size) <= BufferLen
<1>1. size \in Nat /\ BufferLen \in Nat /\ BufferLen >= PacketBaseSize
  BY ClientAssumption
<1>2. U16Max \in Nat /\ U16Max >= PacketBaseSize
  BY ClientAssumption
<1>3. QED
  BY <1>1, <1>2 DEF SizeWith, PacketBaseSize

-----------------------------------------------------------------------------
(* The inductive invariant                                                 *)

(* The properties the runs check are inductive together: the packet on the *)
(* wire needs the type of the timestamps, the correction the type of the   *)
(* buffer.                                                                 *)
IInv ==
    /\ TypeOK
    /\ PacketFitsBuffer
    /\ WireMatchesRequest
    /\ CorrectionIsAnswer

LEMMA InitIInv == Init => IInv
<1>1. ZeroTime \in Timestamp /\ RequestPacket(ZeroTime) \in Packet
  BY ZeroTimeType, RequestPacketType
<1>2. BufferLen >= PacketBaseSize /\ 0 \in 0 .. NumServers - 1
  BY ClientAssumption
<1>3. PacketBaseSize \in 0 .. U16Max
  BY ClientAssumption DEF PacketBaseSize
<1>4. QED
  BY <1>1, <1>2, <1>3
  DEF Init, IInv, TypeOK, PacketFitsBuffer, WireMatchesRequest, CorrectionIsAnswer,
      Results, PacketBaseSize

(* Rotation stays within the server list (current_server's index is always *)
(* in range).                                                              *)
LEMMA RotateInRange ==
    ASSUME server \in 0 .. NumServers - 1, RotateServer
    PROVE  server' \in 0 .. NumServers - 1
BY ClientAssumption DEF RotateServer

(* The end of a call: the locals and the result are well typed, and the    *)
(* conjuncts about the steps within a call hold of an idle client.         *)
LEMMA ReturnIInv ==
    ASSUME NEW value \in Results, Return(value),
           server' \in 0 .. NumServers - 1, addr' \in Addresses \cup {NoAddress},
           lastRequest' \in Timestamp, packetSize' \in 0 .. U16Max, buffer' \in Packet,
           PacketFitsBuffer'
    PROVE  IInv'
BY ZeroTimeType
DEF Return, IInv, TypeOK, WireMatchesRequest, CorrectionIsAnswer

(* From one callback of a call to the next: the conjuncts that the next    *)
(* step must provide.                                                      *)
LEMMA GotoIInv ==
    ASSUME TypeOK, NEW step \in SendSteps \cup ReceiveSteps, Goto(step),
           server' \in 0 .. NumServers - 1, addr' \in Addresses \cup {NoAddress},
           lastRequest' \in Timestamp, packetSize' \in 0 .. U16Max, buffer' \in Packet,
           {started', receivedAt'} \subseteq Timestamp,
           PacketFitsBuffer', WireMatchesRequest', CorrectionIsAnswer'
    PROVE  IInv'
BY DEF Goto, IInv, TypeOK

(* deserialize_response and what follows it, from either of its callers:   *)
(* only an error-free packet that is no Kiss-o'-Death reaches "adjust".    *)
LEMMA JudgeResponseIInv ==
    ASSUME IInv, NEW rxTime \in Timestamp, JudgeResponse(rxTime),
           UNCHANGED <<addr, packetSize, buffer>>
    PROVE  IInv'
<1> DEFINE verdict == DeserializeResponse(lastRequest, rxTime, buffer)
<1> USE DEF IInv
<1>1. PacketFitsBuffer'
  BY DEF PacketFitsBuffer
<1>2. CASE verdict.tag = "Err" /\ Return("InvalidResponse") /\ UNCHANGED <<server, lastRequest>>
  <2>1. "InvalidResponse" \in Results
    BY DEF Results, ReceiveErrors
  <2>2. QED
    BY <1>1, <1>2, <2>1, ReturnIInv DEF TypeOK
<1>3. CASE /\ RotateServer
           /\ lastRequest' = AfterRejection
           /\ Return("Rejected")
  <2>1. "Rejected" \in Results
    BY DEF Results, Receptions
  <2>2. server' \in 0 .. NumServers - 1
    BY <1>3, RotateInRange DEF TypeOK
  <2>3. lastRequest' \in Timestamp
    BY <1>3, ZeroTimeType DEF TypeOK, AfterRejection
  <2>4. QED
    BY <1>1, <1>3, <2>1, <2>2, <2>3, ReturnIInv DEF TypeOK
<1>4. CASE /\ verdict.tag = "Accepted"
           /\ receivedAt' = rxTime
           /\ Goto("adjust")
           /\ UNCHANGED <<server, lastRequest, started>>
  <2>1. /\ ResponseError(lastRequest, buffer) = "none"
        /\ buffer.stratum # KissStratum
    BY <1>4 DEF DeserializeResponse
  <2>2. CorrectionIsAnswer'
    BY <2>1, <1>4 DEF ResponseError, CorrectionIsAnswer
  <2>3. WireMatchesRequest' /\ "adjust" \in SendSteps \cup ReceiveSteps
    BY <1>4 DEF Goto, WireMatchesRequest, ReceiveSteps
  <2>4. QED
    BY <1>1, <1>4, <2>2, <2>3, GotoIInv DEF TypeOK
<1>5. QED
  BY <1>2, <1>3, <1>4 DEF JudgeResponse

LEMMA SendStepIInv == IInv /\ SendStep => IInv'
<1> SUFFICES ASSUME IInv, SendStep PROVE IInv'
  OBVIOUS
<1> USE DEF IInv
<1>1. ASSUME NEW ms \in BlockTimesMs, SendTimeRequest(ms) PROVE IInv'
  BY <1>1, ClientAssumption
  DEF SendTimeRequest, Call, fields, TypeOK, SendSteps, Results, PacketFitsBuffer,
      WireMatchesRequest, CorrectionIsAnswer
<1>2. CASE ResolveDns
  <2>1. PacketFitsBuffer' /\ "Dns" \in Results
    BY <1>2 DEF ResolveDns, PacketFitsBuffer, Results, SendErrors
  <2>2. CASE Return("Dns") /\ UNCHANGED addr
    BY <1>2, <2>1, <2>2, ReturnIInv DEF ResolveDns, TypeOK
  <2>3. CASE addr' \in Addresses /\ Goto("requestTime") /\ UNCHANGED <<started, receivedAt>>
    BY <1>2, <2>1, <2>3, GotoIInv
    DEF ResolveDns, TypeOK, Goto, SendSteps, WireMatchesRequest, CorrectionIsAnswer
  <2>4. QED
    BY <1>2, <2>2, <2>3 DEF ResolveDns
<1>3. ASSUME NEW now \in Timestamp, NEW mask \in RandomMasks, RequestTime(now, mask)
      PROVE  IInv'
  <2>1. PacketFitsBuffer' /\ "Network" \in Results
    BY <1>3 DEF RequestTime, PacketFitsBuffer, Results, SendErrors
  <2>2. CASE lastRequest' = now /\ Return("Network") /\ UNCHANGED buffer
    BY <1>3, <2>1, <2>2, ReturnIInv DEF RequestTime, TypeOK
  <2>3. CASE /\ ~ IsZero(now)
             /\ lastRequest' \in Unpredictable(now, mask)
             /\ buffer' = RequestPacket(lastRequest')
             /\ Goto(IF Configured THEN "genAuth" ELSE "sendStart")
             /\ UNCHANGED <<started, receivedAt>>
    <3>1. lastRequest' \in Timestamp /\ ~ IsZero(lastRequest')
      BY <2>3, UnpredictableTime
    <3>2. buffer' \in Packet
      BY <2>3, <3>1, RequestPacketType
    <3>3. PICK step \in {"genAuth", "sendStart"} : Goto(step)
      BY <2>3
    <3>4. CorrectionIsAnswer' /\ WireMatchesRequest'
      BY <2>3, <3>1, <3>3 DEF Goto, CorrectionIsAnswer, WireMatchesRequest, IsZero
    <3>5. QED
      BY <1>3, <2>1, <2>3, <3>1, <3>2, <3>3, <3>4, GotoIInv
      DEF RequestTime, TypeOK, SendSteps
  <2>4. QED
    BY <1>3, <2>2, <2>3 DEF RequestTime
<1>4. CASE GenerateClientAuth
  <2>1. CASE Return("Auth") /\ UNCHANGED packetSize
    BY <1>4, <2>1, ReturnIInv
    DEF GenerateClientAuth, TypeOK, PacketFitsBuffer, Results, SendErrors
  <2>2. ASSUME NEW size \in AuthSizes,
               ~ (size > BufferLen - PacketBaseSize),
               packetSize' = SizeWith(size),
               Goto("sendStart"),
               UNCHANGED <<started, receivedAt>>
        PROVE  IInv'
    <3>1. packetSize' \in 0 .. U16Max /\ PacketFitsBuffer'
      BY <2>2, SizeWithBounds DEF PacketFitsBuffer
    <3>2. WireMatchesRequest' /\ CorrectionIsAnswer'
      BY <1>4, <2>2
      DEF GenerateClientAuth, Goto, WireMatchesRequest, CorrectionIsAnswer, IsZero
    <3>3. QED
      BY <1>4, <2>2, <3>1, <3>2, GotoIInv DEF GenerateClientAuth, TypeOK, SendSteps
  <2>3. QED
    BY <1>4, <2>1, <2>2 DEF GenerateClientAuth
<1>5. ASSUME NEW now \in Timestamp, SendStart(now) PROVE IInv'
  BY <1>5
  DEF SendStart, Goto, fields, TypeOK, SendSteps, PacketFitsBuffer, WireMatchesRequest,
      CorrectionIsAnswer, IsZero
<1>6. CASE SendAll \/ SendFails
  BY <1>6, ReturnIInv
  DEF SendAll, SendFails, fields, TypeOK, PacketFitsBuffer, Results, SendErrors
<1>7. CASE SendNothing
  BY <1>7
  DEF SendNothing, Goto, fields, TypeOK, SendSteps, PacketFitsBuffer, WireMatchesRequest,
      CorrectionIsAnswer, IsZero
<1>8. ASSUME NEW now \in Timestamp, SendRetry(now) PROVE IInv'
  <2>1. CASE Return("SendTimeout")
    BY <1>8, <2>1, ReturnIInv
    DEF SendRetry, fields, TypeOK, PacketFitsBuffer, Results, SendErrors
  <2>2. CASE Goto("sendTo") /\ UNCHANGED <<started, receivedAt>>
    BY <1>8, <2>2
    DEF SendRetry, Goto, fields, TypeOK, SendSteps, PacketFitsBuffer, WireMatchesRequest,
        CorrectionIsAnswer, IsZero
  <2>3. QED
    BY <1>8, <2>1, <2>2 DEF SendRetry
<1>9. QED
  BY <1>1, <1>2, <1>3, <1>4, <1>5, <1>6, <1>7, <1>8 DEF SendStep

LEMMA ReceiveStepIInv == IInv /\ ReceiveStep => IInv'
<1> SUFFICES ASSUME IInv, ReceiveStep PROVE IInv'
  OBVIOUS
<1> USE DEF IInv
<1>1. ASSUME NEW ms \in BlockTimesMs, ReceiveTimeResponse(ms) PROVE IInv'
  BY <1>1, ClientAssumption
  DEF ReceiveTimeResponse, Call, fields, TypeOK, ReceiveSteps, Results, PacketFitsBuffer,
      WireMatchesRequest, CorrectionIsAnswer
<1>2. ASSUME NEW now \in Timestamp, ReceiveStart(now) PROVE IInv'
  BY <1>2
  DEF ReceiveStart, Goto, fields, TypeOK, ReceiveSteps, PacketFitsBuffer,
      WireMatchesRequest, CorrectionIsAnswer
<1>3. ASSUME NEW packet \in Datagrams, RecvPacket(packet) PROVE IInv'
  <2>1. buffer' \in Packet /\ PacketFitsBuffer'
    BY <1>3, ClientAssumption DEF RecvPacket, PacketFitsBuffer
  <2>2. QED
    BY <1>3, <2>1, GotoIInv
    DEF RecvPacket, TypeOK, Goto, ReceiveSteps, WireMatchesRequest, CorrectionIsAnswer
<1>4. CASE RecvNothing
  BY <1>4
  DEF RecvNothing, Goto, fields, TypeOK, ReceiveSteps, PacketFitsBuffer,
      WireMatchesRequest, CorrectionIsAnswer
<1>5. ASSUME NEW left \in Datagrams \cup {buffer}, RecvFails(left) PROVE IInv'
  <2>1. buffer' \in Packet /\ PacketFitsBuffer' /\ "Network" \in Results
    BY <1>5, ClientAssumption
    DEF RecvFails, TypeOK, PacketFitsBuffer, Results, ReceiveErrors
  <2>2. QED
    BY <1>5, <2>1, ReturnIInv DEF RecvFails, TypeOK
<1>6. ASSUME NEW now \in Timestamp, RecvRetry(now) PROVE IInv'
  <2>1. PacketFitsBuffer' /\ "TimedOut" \in Results /\ "NothingYet" \in Results
    BY <1>6 DEF RecvRetry, PacketFitsBuffer, Results, Receptions
  <2>2. CASE RotateServer /\ Return("TimedOut")
    BY <1>6, <2>1, <2>2, RotateInRange, ReturnIInv DEF RecvRetry, TypeOK
  <2>3. CASE UNCHANGED server /\ Return("NothingYet")
    BY <1>6, <2>1, <2>3, ReturnIInv DEF RecvRetry, TypeOK
  <2>4. CASE UNCHANGED server /\ Goto("recvFrom") /\ UNCHANGED <<started, receivedAt>>
    BY <1>6, <2>1, <2>4, GotoIInv
    DEF RecvRetry, TypeOK, Goto, ReceiveSteps, WireMatchesRequest, CorrectionIsAnswer
  <2>5. QED
    BY <1>6, <2>2, <2>3, <2>4 DEF RecvRetry
<1>7. ASSUME NEW now \in Timestamp, ReceivedAt(now) PROVE IInv'
  <2>1. CASE receivedAt' = now /\ Goto("validateAuth")
             /\ UNCHANGED <<server, lastRequest, started>>
    BY <1>7, <2>1, GotoIInv
    DEF ReceivedAt, TypeOK, Goto, ReceiveSteps, PacketFitsBuffer, WireMatchesRequest,
        CorrectionIsAnswer
  <2>2. CASE JudgeResponse(now)
    BY <1>7, <2>2, JudgeResponseIInv DEF ReceivedAt
  <2>3. QED
    BY <1>7, <2>1, <2>2 DEF ReceivedAt
<1>8. CASE ValidateServerAuth
  <2>1. CASE JudgeResponse(receivedAt)
    BY <1>8, <2>1, JudgeResponseIInv DEF ValidateServerAuth, TypeOK
  <2>2. ASSUME NEW error \in {"Auth", "ServerNotAuthenticated"}, Return(error),
               UNCHANGED <<server, lastRequest>>
        PROVE  IInv'
    BY <1>8, <2>2, ReturnIInv
    DEF ValidateServerAuth, TypeOK, PacketFitsBuffer, Results, ReceiveErrors
  <2>3. QED
    BY <1>8, <2>1, <2>2 DEF ValidateServerAuth
<1>9. CASE AdjustClock
  BY <1>9, ReturnIInv, ZeroTimeType
  DEF AdjustClock, TypeOK, PacketFitsBuffer, Results, Receptions
<1>10. QED
  BY <1>1, <1>2, <1>3, <1>4, <1>5, <1>6, <1>7, <1>8, <1>9 DEF ReceiveStep

LEMMA NextIInv == IInv /\ [Next]_vars => IInv'
<1>1. ASSUME IInv, UNCHANGED vars PROVE IInv'
  BY <1>1
  DEF vars, fields, locals, IInv, TypeOK, PacketFitsBuffer, WireMatchesRequest,
      CorrectionIsAnswer, IsZero
<1>2. QED
  BY <1>1, SendStepIInv, ReceiveStepIInv DEF Next

(* The inductive invariant holds in every reachable state. *)
THEOREM Invariance == Spec => []IInv
<1>1. Init => IInv
  BY InitIInv
<1>2. IInv /\ [Next]_vars => IInv'
  BY NextIInv
<1>3. QED
  BY <1>1, <1>2, PTL DEF Spec

(* Every variable of the client keeps its type; in particular the server   *)
(* index stays within the list (rotate_server, current_server).            *)
THEOREM TypeCorrect == Spec => []TypeOK
<1>1. IInv => TypeOK
  BY DEF IInv
<1>2. QED
  BY <1>1, Invariance, PTL

(* The slices `buffer[..packet_size]` of send_packet and                   *)
(* receive_time_response are always within the buffer, for every buffer    *)
(* length and everything an authenticator may return.                      *)
THEOREM SlicesInBounds == Spec => []PacketFitsBuffer
<1>1. IInv => PacketFitsBuffer
  BY DEF IInv
<1>2. QED
  BY <1>1, Invariance, PTL

(* The packet handed to send_to carries the timestamp the client keeps,    *)
(* for every reading of the clock and all random bits.                     *)
THEOREM RequestRemembered == Spec => []WireMatchesRequest
<1>1. IInv => WireMatchesRequest
  BY DEF IInv
<1>2. QED
  BY <1>1, Invariance, PTL

(* adjust_clock is called only on behalf of a packet that passed every     *)
(* check of deserialize_response against the outstanding request.          *)
THEOREM OnlyAnswersCorrect == Spec => []CorrectionIsAnswer
<1>1. IInv => CorrectionIsAnswer
  BY DEF IInv
<1>2. QED
  BY <1>1, Invariance, PTL

-----------------------------------------------------------------------------
(* The client implements SntpExchange                                      *)

LEMMA ExchangeInit == Init => Exchange!Init
BY DEF Init, Exchange!Init, ZeroTime, IsZero, CallInProgress

(* A send step maps to a step of an abstract send call, or to none. *)
LEMMA ExchangeSend ==
    ASSUME IInv, SendStep
    PROVE  [Exchange!Next]_Exchange!vars
<1> USE DEF Goto, Return, fields, CallInProgress, SendSteps, Exchange!vars, Exchange!Next,
            Exchange!End
<1>1. ASSUME NEW ms \in BlockTimesMs, SendTimeRequest(ms)
      PROVE  [Exchange!Next]_Exchange!vars
  BY <1>1 DEF SendTimeRequest, Call, Exchange!Begin, IsZero
<1>2. CASE ResolveDns
  BY <1>2 DEF ResolveDns, Exchange!NotSent, IsZero
<1>3. ASSUME NEW now \in Timestamp, NEW mask \in RandomMasks, RequestTime(now, mask)
      PROVE  [Exchange!Next]_Exchange!vars
  <2>1. CASE IsZero(now) /\ lastRequest' = now /\ Return("Network")
    <3>1. Exchange!NoClock
      BY <1>3, <2>1 DEF RequestTime, Exchange!NoClock, IsZero
    <3>2. QED
      BY <3>1
  <2>2. CASE /\ ~ IsZero(now)
             /\ lastRequest' \in Unpredictable(now, mask)
             /\ Goto(IF Configured THEN "genAuth" ELSE "sendStart")
    <3>1. ~ IsZero(lastRequest')
      BY <2>2, UnpredictableTime
    <3>2. Exchange!Request
      BY <1>3, <2>2, <3>1 DEF RequestTime, Exchange!Request, IsZero
    <3>3. QED
      BY <3>2
  <2>3. QED
    BY <1>3, <2>1, <2>2 DEF RequestTime
<1>4. CASE GenerateClientAuth
  BY <1>4 DEF GenerateClientAuth, Exchange!NotSent, IsZero
<1>5. ASSUME NEW now \in Timestamp, SendStart(now) PROVE [Exchange!Next]_Exchange!vars
  BY <1>5 DEF SendStart, IsZero
<1>6. CASE SendAll
  BY <1>6 DEF SendAll, Exchange!Sent, IsZero, IInv, WireMatchesRequest
<1>7. CASE SendNothing \/ SendFails
  BY <1>7 DEF SendNothing, SendFails, Exchange!NotSent, IsZero
<1>8. ASSUME NEW now \in Timestamp, SendRetry(now) PROVE [Exchange!Next]_Exchange!vars
  BY <1>8 DEF SendRetry, Exchange!NotSent, IsZero
<1>9. QED
  BY <1>1, <1>2, <1>3, <1>4, <1>5, <1>6, <1>7, <1>8 DEF SendStep

(* The verdict on a response maps to an answer in the making, a rejection  *)
(* of the request in flight, or a response that changed nothing.           *)
LEMMA ExchangeJudge ==
    ASSUME pc \in {"rxTime", "validateAuth"}, NEW rxTime \in Timestamp,
           JudgeResponse(rxTime)
    PROVE  [Exchange!Next]_Exchange!vars
<1> DEFINE verdict == DeserializeResponse(lastRequest, rxTime, buffer)
<1> USE DEF Goto, Return, CallInProgress, SendSteps, Exchange!vars, Exchange!Next,
            Exchange!End
<1>1. CASE Return("InvalidResponse") /\ UNCHANGED <<server, lastRequest>>
  BY <1>1 DEF Exchange!NotReceived, IsZero
<1>2. CASE /\ verdict.tag = "Rejected"
           /\ RotateServer
           /\ lastRequest' = AfterRejection
           /\ Return("Rejected")
  <2>1. ~ IsZero(lastRequest)
    BY <1>2 DEF DeserializeResponse, ResponseError
  <2>2. ~ IsZero(lastRequest') <=> ~ Configured
    BY <1>2, <2>1 DEF IsZero, ZeroTime, AfterRejection
  <2>3. (~ IsZero(lastRequest'))  = ~ Configured
    BY <2>2, ClientAssumption DEF IsZero
  <2>4. Exchange!Reject
    BY <1>2, <2>1, <2>3 DEF Exchange!Reject, Exchange!NextServer, RotateServer, IsZero
  <2>5. QED
    BY <2>4
<1>3. CASE Goto("adjust") /\ UNCHANGED <<server, lastRequest, started>>
  BY <1>3 DEF IsZero
<1>4. QED
  BY <1>1, <1>2, <1>3 DEF JudgeResponse

LEMMA ExchangeReceive ==
    ASSUME IInv, ReceiveStep
    PROVE  [Exchange!Next]_Exchange!vars
<1> USE DEF Goto, Return, fields, CallInProgress, SendSteps, Exchange!vars, Exchange!Next,
            Exchange!End
<1>1. ASSUME NEW ms \in BlockTimesMs, ReceiveTimeResponse(ms)
      PROVE  [Exchange!Next]_Exchange!vars
  BY <1>1 DEF ReceiveTimeResponse, Call, Exchange!Begin, IsZero
<1>2. ASSUME NEW now \in Timestamp, ReceiveStart(now) PROVE [Exchange!Next]_Exchange!vars
  BY <1>2 DEF ReceiveStart, IsZero
<1>3. ASSUME NEW packet, RecvPacket(packet) PROVE [Exchange!Next]_Exchange!vars
  BY <1>3 DEF RecvPacket, IsZero
<1>4. CASE RecvNothing
  BY <1>4 DEF RecvNothing, IsZero
<1>5. ASSUME NEW left, RecvFails(left) PROVE [Exchange!Next]_Exchange!vars
  BY <1>5 DEF RecvFails, Exchange!NotReceived, IsZero
<1>6. ASSUME NEW now \in Timestamp, RecvRetry(now) PROVE [Exchange!Next]_Exchange!vars
  BY <1>6
  DEF RecvRetry, RotateServer, Exchange!TimeOut, Exchange!NextServer, Exchange!NotReceived,
      IsZero
<1>7. ASSUME NEW now \in Timestamp, ReceivedAt(now) PROVE [Exchange!Next]_Exchange!vars
  <2>1. CASE JudgeResponse(now)
    BY <1>7, <2>1, ExchangeJudge DEF ReceivedAt
  <2>2. CASE Goto("validateAuth") /\ UNCHANGED <<server, lastRequest, started>>
    BY <1>7, <2>2 DEF ReceivedAt, IsZero
  <2>3. QED
    BY <1>7, <2>1, <2>2 DEF ReceivedAt
<1>8. CASE ValidateServerAuth
  <2>1. CASE JudgeResponse(receivedAt)
    BY <1>8, <2>1, ExchangeJudge DEF ValidateServerAuth, IInv, TypeOK
  <2>2. CASE /\ \E error \in {"Auth", "ServerNotAuthenticated"} : Return(error)
             /\ UNCHANGED <<server, lastRequest>>
    BY <1>8, <2>2 DEF ValidateServerAuth, Exchange!NotReceived, IsZero
  <2>3. QED
    BY <1>8, <2>1, <2>2 DEF ValidateServerAuth
<1>9. CASE AdjustClock
  <2>1. Exchange!Synchronise
    BY <1>9
    DEF AdjustClock, Exchange!Synchronise, IInv, CorrectionIsAnswer, IsZero, ZeroTime
  <2>2. QED
    BY <2>1
<1>10. QED
  BY <1>1, <1>2, <1>3, <1>4, <1>5, <1>6, <1>7, <1>8, <1>9 DEF ReceiveStep

LEMMA ExchangeNext == IInv /\ [Next]_vars => [Exchange!Next]_Exchange!vars
<1>1. CASE UNCHANGED vars
  BY <1>1 DEF vars, fields, Exchange!vars, CallInProgress, IsZero
<1>2. QED
  BY <1>1, ExchangeSend, ExchangeReceive DEF Next

(* Every behaviour of the client is one of the abstract client: no answer  *)
(* without a request in flight, none twice for one request, rotation only  *)
(* on a rejection or a timeout, no effect of a call that reports none.     *)
THEOREM Refinement == Spec => ImplementsExchange
<1>1. Init => Exchange!Init
  BY ExchangeInit
<1>2. IInv /\ [Next]_vars => [Exchange!Next]_Exchange!vars
  BY ExchangeNext
<1>3. QED
  BY <1>1, <1>2, Invariance, PTL DEF Spec, ImplementsExchange, Exchange!Spec

-----------------------------------------------------------------------------
(* What the history variables show                                         *)

(* The history only observes: its behaviours are behaviours of the client. *)
LEMMA HistoryIInv == SpecHistory => []IInv
<1>1. InitHistory => IInv
  BY InitIInv DEF InitHistory
<1>2. IInv /\ [NextHistory]_<<vars, history>> => IInv'
  BY NextIInv DEF NextHistory
<1>3. QED
  BY <1>1, <1>2, PTL DEF SpecHistory

(* A timestamp is remembered only by making a request: every other step    *)
(* keeps last_request_time or clears it.                                   *)
LEMMA OnlyRequestsRemember ==
    ASSUME [Next]_vars
    PROVE  pc = "requestTime" \/ lastRequest' = lastRequest \/ IsZero(lastRequest')
BY DEF Next, SendStep, ReceiveStep, SendTimeRequest, Call, ResolveDns, RequestTime,
       GenerateClientAuth, SendStart, SendAll, SendNothing, SendFails, SendRetry,
       ReceiveTimeResponse, ReceiveStart, RecvPacket, RecvNothing, RecvFails, RecvRetry,
       ReceivedAt, ValidateServerAuth, AdjustClock, JudgeResponse, AfterRejection, fields,
       vars, IsZero, ZeroTime

(* AnsweredOnce is not inductive by itself: the reason it holds is that    *)
(* while a request is remembered, it has not been answered.                *)
Unanswered ==
    /\ corrected \in 0 .. 1
    /\ ~ IsZero(lastRequest) => corrected = 0

(* A request corrects the clock at most once, however often its answer is  *)
(* delivered (the clearing at the end of process_response).                *)
THEOREM NoReplay == SpecHistory => []AnsweredOnce
<1>1. InitHistory => Unanswered
  BY DEF InitHistory, Unanswered, Init, ZeroTime, IsZero
<1>2. ASSUME IInv, Unanswered, [NextHistory]_<<vars, history>> PROVE Unanswered'
  <2>1. CASE UNCHANGED <<vars, history>>
    BY <1>2, <2>1 DEF vars, fields, history, Unanswered, IsZero
  <2>2. CASE NextHistory /\ pc = "requestTime"
    BY <2>2 DEF NextHistory, Unanswered
  <2>3. CASE NextHistory /\ pc = "adjust"
    <3>1. corrected = 0
      BY <1>2, <2>3 DEF IInv, CorrectionIsAnswer, Unanswered
    <3>2. IsZero(lastRequest')
      BY <2>3
      DEF NextHistory, Next, SendStep, ReceiveStep, SendTimeRequest, Call, ResolveDns,
          RequestTime, GenerateClientAuth, SendStart, SendAll, SendNothing, SendFails,
          SendRetry, ReceiveTimeResponse, ReceiveStart, RecvPacket, RecvNothing, RecvFails,
          RecvRetry, ReceivedAt, ValidateServerAuth, AdjustClock, ZeroTime, IsZero
    <3>3. QED
      BY <2>3, <3>1, <3>2 DEF NextHistory, Unanswered
  <2>4. CASE NextHistory /\ pc \notin {"requestTime", "adjust"}
    <3>1. lastRequest' = lastRequest \/ IsZero(lastRequest')
      BY <2>4, OnlyRequestsRemember DEF NextHistory
    <3>2. QED
      BY <1>2, <2>4, <3>1 DEF NextHistory, Unanswered, IsZero
  <2>5. QED
    BY <1>2, <2>1, <2>2, <2>3, <2>4
<1>3. Unanswered => AnsweredOnce
  BY DEF Unanswered, AnsweredOnce
<1>4. QED
  BY <1>1, <1>2, <1>3, HistoryIInv, PTL DEF SpecHistory

(* The size changes only on the way to a send, and a send that is about to *)
(* begin is carried out.                                                   *)
LEMMA SizeSteps ==
    ASSUME Next
    PROVE  /\ packetSize' = packetSize \/ pc' = "sendStart"
           /\ pc = "sendStart" => pc' = "sendTo"
BY DEF Next, SendStep, ReceiveStep, SendTimeRequest, Call, ResolveDns, RequestTime,
       GenerateClientAuth, SendStart, SendAll, SendNothing, SendFails, SendRetry,
       ReceiveTimeResponse, ReceiveStart, RecvPacket, RecvNothing, RecvFails, RecvRetry,
       ReceivedAt, ValidateServerAuth, AdjustClock, Goto, fields

(* The response is read at the size of the last packet sent, whatever      *)
(* requests failed in between (packet_size is not reset).                  *)
THEOREM ResponseSize == SpecHistory => []SizeOfLastPacket
<1>1. InitHistory => SizeOfLastPacket
  BY DEF InitHistory, Init, SizeOfLastPacket
<1>2. ASSUME SizeOfLastPacket, [NextHistory]_<<vars, history>> PROVE SizeOfLastPacket'
  <2>1. CASE UNCHANGED <<vars, history>>
    BY <1>2, <2>1 DEF vars, fields, history, SizeOfLastPacket
  <2>2. CASE NextHistory
    <3>1. sentSize' = IF pc = "sendTo" THEN packetSize ELSE sentSize
      BY <2>2 DEF NextHistory
    <3>2. /\ packetSize' = packetSize \/ pc' = "sendStart"
          /\ pc = "sendStart" => pc' = "sendTo"
      BY <2>2, SizeSteps DEF NextHistory
    <3>3. QED
      BY <1>2, <3>1, <3>2 DEF SizeOfLastPacket
  <2>3. QED
    BY <1>2, <2>1, <2>2
<1>3. QED
  BY <1>1, <1>2, PTL DEF SpecHistory

(* During a call there is no result yet, and what an authenticating client *)
(* does about a packet it does after validating that packet.               *)
ResultsLast == pc # "idle" => result = "none"

LEMMA ActingSteps ==
    ASSUME Next, ResultsLast
    PROVE  /\ ResultsLast'
           /\ Configured /\ pc' = "adjust" => pc = "validateAuth"
           /\ Configured /\ result' = "Rejected" => pc = "validateAuth"
<1> USE DEF ResultsLast
<1>1. CASE SendStep
  BY <1>1
  DEF SendStep, SendTimeRequest, Call, ResolveDns, RequestTime, GenerateClientAuth,
      SendStart, SendAll, SendNothing, SendFails, SendRetry, Goto, Return
<1>2. CASE ValidateServerAuth
  BY <1>2 DEF ValidateServerAuth, JudgeResponse, Goto, Return
<1>3. ASSUME NEW now, ReceivedAt(now)
      PROVE  /\ ResultsLast'
             /\ Configured => pc' # "adjust" /\ result' # "Rejected"
  BY <1>3 DEF ReceivedAt, JudgeResponse, Goto, Return
<1>4. CASE \/ \E ms \in BlockTimesMs : ReceiveTimeResponse(ms)
           \/ \E now \in Timestamp : ReceiveStart(now)
           \/ \E packet \in Datagrams : RecvPacket(packet)
           \/ RecvNothing
           \/ \E left \in Datagrams \cup {buffer} : RecvFails(left)
           \/ \E now \in Timestamp : RecvRetry(now)
           \/ AdjustClock
  BY <1>4
  DEF ReceiveTimeResponse, Call, ReceiveStart, RecvPacket, RecvNothing, RecvFails,
      RecvRetry, AdjustClock, Goto, Return
<1>5. QED
  BY <1>1, <1>2, <1>3, <1>4 DEF Next, ReceiveStep

(* An authenticating client corrects the clock and rotates its servers     *)
(* only for a packet its authenticator accepted.                           *)
THEOREM ActionsValidated == SpecHistory => []ActsOnlyOnValidated
<1>1. InitHistory => ResultsLast /\ ActsOnlyOnValidated
  BY DEF InitHistory, Init, ResultsLast, ActsOnlyOnValidated
<1>2. ASSUME ResultsLast, ActsOnlyOnValidated, [NextHistory]_<<vars, history>>
      PROVE  ResultsLast' /\ ActsOnlyOnValidated'
  <2>1. CASE UNCHANGED <<vars, history>>
    BY <1>2, <2>1 DEF vars, history, ResultsLast, ActsOnlyOnValidated
  <2>2. CASE NextHistory
    <3>1. /\ Next
          /\ pc = "validateAuth" =>
                validated' = (result' \notin {"Auth", "ServerNotAuthenticated"})
      BY <2>2 DEF NextHistory
    <3>2. /\ ResultsLast'
          /\ Configured /\ pc' = "adjust" => pc = "validateAuth"
          /\ Configured /\ result' = "Rejected" => pc = "validateAuth"
      BY <1>2, <3>1, ActingSteps
    <3>3. QED
      BY <3>1, <3>2 DEF ResultsLast, ActsOnlyOnValidated
  <2>3. QED
    BY <1>2, <2>1, <2>2
<1>3. QED
  BY <1>1, <1>2, PTL DEF SpecHistory
=============================================================================
