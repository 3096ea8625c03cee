----------------------------- MODULE SntpClient -----------------------------
(***************************************************************************)
(* The SNTP client (client.rs): a state machine over the callbacks of its  *)
(* host - resolve a name, read the clock, send, receive, adjust the clock  *)
(* - and of its authenticator.                                             *)
(*                                                                         *)
(* `pc` names the callback the client is about to make, "idle" when the    *)
(* caller has control.  An action is one callback, whose answer is its     *)
(* parameter, and the code that runs from there to the next callback.      *)
(* Next assumes nothing about the answers: the clock may give any reading, *)
(* the network any of the datagrams, at any time.  A module that models    *)
(* the host supplies the answers instead.                                  *)
(***************************************************************************)
EXTENDS SntpSerializer

CONSTANTS
    NumServers,        \* length of the server list
    Addresses,         \* what resolve_dns may answer
    NoAddress,         \* the 0 a new client holds
    Datagrams,         \* the packets recv_from may deliver
    Configured,        \* Authenticator::CONFIGURED
    AuthSizes,         \* sizes generate_client_auth may return
    BufferLen,         \* length of the network buffer
    ResponseTimeoutMs,
    BlockTimesMs,      \* the caller's block_time_ms arguments
    U16Max             \* u16::MAX                            (code: 65535)

PacketBaseSize == 48

(* NumServers and BufferLen: the two checks of with_authenticator. *)
ASSUME ClientAssumption ==
    /\ NumServers \in Nat \ {0}
    /\ BufferLen \in Nat /\ BufferLen >= PacketBaseSize
    /\ Datagrams \subseteq Packet
    /\ Configured \in BOOLEAN
    /\ U16Max \in Nat /\ U16Max >= PacketBaseSize
    /\ AuthSizes \subseteq 0 .. U16Max
    /\ ResponseTimeoutMs \in Nat
    /\ BlockTimesMs \subseteq Nat

VARIABLES
    \* the fields of Client
    server,      \* current_server
    addr,        \* current_server_addr
    lastRequest, \* last_request_time
    packetSize,  \* packet_size
    buffer,      \* the packet in the network buffer
    \* the call in progress
    pc,
    blockTime,   \* its block_time_ms
    started,     \* the opening of its retry window
    receivedAt,  \* when the response was read
    result       \* what the last call returned

fields == <<server, addr, lastRequest, packetSize, buffer>>
locals == <<blockTime, started, receivedAt>>
vars   == <<fields, pc, locals, result>>

SendSteps    == {"resolve", "requestTime", "genAuth", "sendStart", "sendTo",
                 "sendRetry"}
ReceiveSteps == {"recvStart", "recvFrom", "recvRetry", "rxTime",
                 "validateAuth", "adjust"}

SendErrors    == {"Dns", "Network", "SendTimeout", "Auth"}
ReceiveErrors == {"Network", "InvalidResponse", "Auth", "ServerNotAuthenticated"}
Receptions    == {"Synchronised", "NothingYet", "Rejected", "TimedOut"}
Results       == {"none", "Ok"} \cup SendErrors \cup Receptions \cup ReceiveErrors

TypeOK ==
    /\ server \in 0 .. NumServers - 1
    /\ addr \in Addresses \cup {NoAddress}
    /\ lastRequest \in Timestamp
    /\ packetSize \in 0 .. U16Max
    /\ buffer \in Packet
    /\ pc \in {"idle"} \cup SendSteps \cup ReceiveSteps
    /\ blockTime \in Nat
    /\ {started, receivedAt} \subseteq Timestamp
    /\ result \in Results

(* The buffer is the caller's and may hold anything; zeroes here. *)
Init ==
    /\ server = 0
    /\ addr = NoAddress
    /\ lastRequest = ZeroTime
    /\ packetSize = PacketBaseSize
    /\ buffer = RequestPacket(ZeroTime)
    /\ pc = "idle"
    /\ blockTime = 0
    /\ started = ZeroTime
    /\ receivedAt = ZeroTime
    /\ result = "none"

Goto(step) == pc' = step /\ UNCHANGED <<blockTime, result>>

Return(value) ==
    /\ pc' = "idle"
    /\ result' = value
    /\ blockTime' = 0 /\ started' = ZeroTime /\ receivedAt' = ZeroTime

(* A call by the application begins; `step` is its first callback. *)
Call(step, blockTimeMs) ==
    /\ pc = "idle"
    /\ pc' = step
    /\ blockTime' = blockTimeMs
    /\ result' = "none"
    /\ UNCHANGED <<fields, started, receivedAt>>

-----------------------------------------------------------------------------
(* send_time_request                                                       *)

SendTimeRequest(blockTimeMs) == Call("resolve", blockTimeMs)

ResolveDns ==
    /\ pc = "resolve"
    /\ \/ Return("Dns") /\ UNCHANGED addr
       \/ addr' \in Addresses /\ Goto("requestTime") /\ UNCHANGED <<started, receivedAt>>
    /\ UNCHANGED <<server, lastRequest, packetSize, buffer>>

(* Variant: the reading remembered without the random bits. *)
RequestTimeUnmodified(now, mask) ==
    /\ pc = "requestTime"
    /\ ~ IsZero(now)
    /\ lastRequest' = now
    /\ \E sent \in Unpredictable(now, mask) : buffer' = RequestPacket(sent)
    /\ Goto(IF Configured THEN "genAuth" ELSE "sendStart")
    /\ UNCHANGED <<server, addr, packetSize, started, receivedAt>>

(* The clock reading and serialize_request, which refuses a zero reading:  *)
(* it is stored by then, the buffer untouched.                             *)
RequestTime(now, mask) ==
    /\ pc = "requestTime"
    /\ \/ /\ IsZero(now)
          /\ lastRequest' = now
          /\ Return("Network")
          /\ UNCHANGED buffer
       \/ /\ ~ IsZero(now)
          /\ lastRequest' \in Unpredictable(now, mask)
          /\ buffer' = RequestPacket(lastRequest')
          /\ Goto(IF Configured THEN "genAuth" ELSE "sendStart")
          /\ UNCHANGED <<started, receivedAt>>
    /\ UNCHANGED <<server, addr, packetSize>>

(* The u16 addition saturates. *)
SizeWith(authSize) == IF PacketBaseSize + authSize > U16Max THEN U16Max
                      ELSE PacketBaseSize + authSize

(* Variant: the code's size not compared with the space left. *)
GenerateClientAuthUnchecked ==
    /\ pc = "genAuth"
    /\ \E size \in AuthSizes : packetSize' = SizeWith(size)
    /\ Goto("sendStart")
    /\ UNCHANGED <<server, addr, lastRequest, buffer, started, receivedAt>>

(* Variant: packet_size reset before the code is generated. *)
GenerateClientAuthReset ==
    /\ pc = "genAuth"
    /\ \/ Return("Auth") /\ packetSize' = PacketBaseSize
       \/ \E size \in AuthSizes :
             /\ size <= BufferLen - PacketBaseSize
             /\ packetSize' = SizeWith(size)
             /\ Goto("sendStart")
             /\ UNCHANGED <<started, receivedAt>>
    /\ UNCHANGED <<server, addr, lastRequest, buffer>>

(* A failed or oversized authentication code leaves packet_size as the     *)
(* previous request set it.  The authenticator is lent the whole buffer    *)
(* and could write over the request in it; the model relies on what the    *)
(* trait asks of it: "Append a client authentication code after the        *)
(* 48-byte packet" (generate_client_auth).                                 *)
GenerateClientAuth ==
    /\ pc = "genAuth"
    /\ \/ Return("Auth") /\ UNCHANGED packetSize
       \/ \E size \in AuthSizes :
             IF size > BufferLen - PacketBaseSize
             THEN Return("Auth") /\ UNCHANGED packetSize
             ELSE /\ packetSize' = SizeWith(size)
                  /\ Goto("sendStart")
                  /\ UNCHANGED <<started, receivedAt>>
    /\ UNCHANGED <<server, addr, lastRequest, buffer>>

(* The retry window opens. *)
SendStart(now) ==
    /\ pc = "sendStart"
    /\ started' = now
    /\ Goto("sendTo")
    /\ UNCHANGED <<fields, receivedAt>>

(* The transport takes all of the packet; *)
SendAll ==
    /\ pc = "sendTo"
    /\ Return("Ok")
    /\ UNCHANGED fields

(* nothing, which is retried; *)
SendNothing ==
    /\ pc = "sendTo"
    /\ Goto("sendRetry")
    /\ UNCHANGED <<fields, started, receivedAt>>

(* or fails, or takes a part, which a datagram cannot be. *)
SendFails ==
    /\ pc = "sendTo"
    /\ Return("Network")
    /\ UNCHANGED fields

(* Variant: the retry window never closes. *)
SendRetryUnbounded(now) ==
    /\ pc = "sendRetry"
    /\ Goto("sendTo")
    /\ UNCHANGED <<fields, started, receivedAt>>

SendRetry(now) ==
    /\ pc = "sendRetry"
    /\ IF CalculateElapsedMs(now, started) >= blockTime
       THEN Return("SendTimeout")
       ELSE Goto("sendTo") /\ UNCHANGED <<started, receivedAt>>
    /\ UNCHANGED fields

-----------------------------------------------------------------------------
(* receive_time_response                                                   *)

ReceiveTimeResponse(blockTimeMs) == Call("recvStart", blockTimeMs)

(* The base of the block-time window. *)
ReceiveStart(now) ==
    /\ pc = "recvStart"
    /\ started' = now
    /\ Goto("recvFrom")
    /\ UNCHANGED <<fields, receivedAt>>

(* A whole packet was read; *)
RecvPacket(packet) ==
    /\ pc = "recvFrom"
    /\ buffer' = packet
    /\ Goto("rxTime")
    /\ UNCHANGED <<server, addr, lastRequest, packetSize, started, receivedAt>>

(* nothing was waiting; *)
RecvNothing ==
    /\ pc = "recvFrom"
    /\ Goto("recvRetry")
    /\ UNCHANGED <<fields, started, receivedAt>>

(* the transport failed, or delivered a part of a packet - which may be in *)
(* the buffer all the same.                                                *)
RecvFails(left) ==
    /\ pc = "recvFrom"
    /\ buffer' = left
    /\ Return("Network")
    /\ UNCHANGED <<server, addr, lastRequest, packetSize>>

(* Variants: the index not wrapped, or not past the end of the list. *)
RotateServerUnwrapped == server' = server + 1
RotateServerStops     == server' = IF server + 1 < NumServers THEN server + 1 ELSE server

RotateServer == server' = (server + 1) % NumServers

(* Variant: the block time looked at first. *)
RecvRetryBlockFirst(now) ==
    /\ pc = "recvRetry"
    /\ IF CalculateElapsedMs(now, started) >= blockTime
       THEN UNCHANGED server /\ Return("NothingYet")
       ELSE IF CalculateElapsedMs(now, lastRequest) >= ResponseTimeoutMs
       THEN RotateServer /\ Return("TimedOut")
       ELSE Goto("recvFrom") /\ UNCHANGED <<server, started, receivedAt>>
    /\ UNCHANGED <<addr, lastRequest, packetSize, buffer>>

(* Nothing was read: the response timeout is looked at before the block    *)
(* time, on the same clock reading.                                        *)
RecvRetry(now) ==
    /\ pc = "recvRetry"
    /\ IF CalculateElapsedMs(now, lastRequest) >= ResponseTimeoutMs
       THEN RotateServer /\ Return("TimedOut")
       ELSE /\ UNCHANGED server
            /\ IF CalculateElapsedMs(now, started) >= blockTime
               THEN Return("NothingYet")
               ELSE Goto("recvFrom") /\ UNCHANGED <<started, receivedAt>>
    /\ UNCHANGED <<addr, lastRequest, packetSize, buffer>>

(* Variants: the request forgotten, or kept, after every rejection. *)
AfterRejectionForgotten == ZeroTime
AfterRejectionKept      == lastRequest

(* A rejection ends the request only if it cannot be forged. *)
AfterRejection == IF Configured THEN ZeroTime ELSE lastRequest

(* process_response from deserialize_response on, up to adjust_clock: a    *)
(* malformed response, a Kiss-o'-Death, or a time to hand to the host.     *)
JudgeResponse(rxTime) ==
    LET verdict == DeserializeResponse(lastRequest, rxTime, buffer)
    IN  \/ /\ verdict.tag = "Err"
           /\ Return("InvalidResponse")
           /\ UNCHANGED <<server, lastRequest>>
        \/ /\ verdict.tag = "Rejected"
           /\ RotateServer
           /\ lastRequest' = AfterRejection
           /\ Return("Rejected")
        \/ /\ verdict.tag = "Accepted"
           /\ receivedAt' = rxTime
           /\ Goto("adjust")
           /\ UNCHANGED <<server, lastRequest, started>>

(* Variant: an authenticated response judged without being validated. *)
ReceivedAtUnvalidated(now) ==
    /\ pc = "rxTime"
    /\ JudgeResponse(now)
    /\ UNCHANGED <<addr, packetSize, buffer>>

ReceivedAt(now) ==
    /\ pc = "rxTime"
    /\ IF Configured
       THEN /\ receivedAt' = now
            /\ Goto("validateAuth")
            /\ UNCHANGED <<server, lastRequest, started>>
       ELSE JudgeResponse(now)
    /\ UNCHANGED <<addr, packetSize, buffer>>

ValidateServerAuth ==
    /\ pc = "validateAuth"
    /\ \/ JudgeResponse(receivedAt)
       \/ /\ \E error \in {"Auth", "ServerNotAuthenticated"} : Return(error)
          /\ UNCHANGED <<server, lastRequest>>
    /\ UNCHANGED <<addr, packetSize, buffer>>

(* What adjust_clock is called with. *)
Correction == DeserializeResponse(lastRequest, receivedAt, buffer)

(* Variant: the answered request still remembered. *)
AdjustClockNoClear ==
    /\ pc = "adjust"
    /\ Return("Synchronised")
    /\ UNCHANGED fields

AdjustClock ==
    /\ pc = "adjust"
    /\ lastRequest' = ZeroTime
    /\ Return("Synchronised")
    /\ UNCHANGED <<server, addr, packetSize, buffer>>

-----------------------------------------------------------------------------
SendStep ==
    \/ \E ms \in BlockTimesMs : SendTimeRequest(ms)
    \/ ResolveDns
    \/ \E now \in Timestamp, mask \in RandomMasks : RequestTime(now, mask)
    \/ GenerateClientAuth
    \/ \E now \in Timestamp : SendStart(now)
    \/ SendAll
    \/ SendNothing
    \/ SendFails
    \/ \E now \in Timestamp : SendRetry(now)

ReceiveStep ==
    \/ \E ms \in BlockTimesMs : ReceiveTimeResponse(ms)
    \/ \E now \in Timestamp : ReceiveStart(now)
    \/ \E packet \in Datagrams : RecvPacket(packet)
    \/ RecvNothing
    \/ \E left \in Datagrams \cup {buffer} : RecvFails(left)
    \/ \E now \in Timestamp : RecvRetry(now)
    \/ \E now \in Timestamp : ReceivedAt(now)
    \/ ValidateServerAuth
    \/ AdjustClock

Next == SendStep \/ ReceiveStep

Spec == Init /\ [][Next]_vars

-----------------------------------------------------------------------------
(* Every read and write of the buffer is within it: packet_size covers the *)
(* 48 bytes of the header and never more than the buffer, whatever the     *)
(* authenticator returned on this or on an earlier request.  (The code's   *)
(* fallbacks for a failing slice are therefore never taken.)               *)
PacketFitsBuffer ==
    PacketBaseSize <= packetSize /\ packetSize <= BufferLen

(* What goes on the wire is the request the client remembers: from         *)
(* serialize_request to the last retry of send_to the packet is a client   *)
(* request whose transmit field is last_request_time, random bits          *)
(* included, and not zero - otherwise the honest server's echo would fail  *)
(* the originate check.                                                    *)
WireMatchesRequest ==
    pc \in {"genAuth", "sendStart", "sendTo", "sendRetry"} =>
        /\ ~ IsZero(lastRequest)
        /\ buffer = RequestPacket(lastRequest)

(* The clock is corrected only by the reply to the outstanding request:    *)
(* from a server, echoing last_request_time, without a zero timestamp, and *)
(* not a refusal.                                                          *)
CorrectionIsAnswer ==
    pc = "adjust" =>
        /\ ~ IsZero(lastRequest)
        /\ buffer.mode = "server"
        /\ buffer.origin = lastRequest
        /\ ~ IsZero(buffer.receive)
        /\ ~ IsZero(buffer.transmit)
        /\ buffer.stratum # KissStratum

(* The calls, their outcomes, the rotation of the servers and the request  *)
(* in flight are those of the abstract client of SntpExchange: in          *)
(* particular an answer is used only while a request is in flight and ends *)
(* it, a rejection ends it only for an authenticating client (an           *)
(* unauthenticated one may be forged), and a call that reports neither an  *)
(* answer, a rejection nor a timeout has changed neither server nor        *)
(* request.                                                                *)
CallInProgress == IF pc = "idle" THEN "idle"
                  ELSE IF pc \in SendSteps THEN "send" ELSE "receive"

Exchange == INSTANCE SntpExchange WITH
                pending <- ~ IsZero(lastRequest),
                call    <- CallInProgress,
                outcome <- result

ImplementsExchange == Exchange!Spec
=============================================================================
