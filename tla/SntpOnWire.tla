----------------------------- MODULE SntpOnWire -----------------------------
(***************************************************************************)
(* One round trip of the NTP on-wire protocol, seen by two clocks that may *)
(* stand in different eras.  The clocks, the server and the network are    *)
(* the environment; what is modelled from the code is the codec, writing   *)
(* the request and reading the response in the network buffer, and the     *)
(* arithmetic of SntpTime, applied to the readings such a trip really      *)
(* produces.                                                               *)
(*                                                                         *)
(* Time is counted in absolute ticks (eras included) on the client's       *)
(* clock; the server's clock is `skew` ticks away.  Both only advance      *)
(* during the trip.  The code sees a clock only through Stamp, which drops *)
(* the era.                                                                *)
(***************************************************************************)
EXTENDS SntpBuffer

CONSTANTS
    StartTicks, \* absolute client times at which the trip may start
    Skews,      \* server clock minus client clock, in ticks
    Tail,       \* offsets of the buffer beyond the header
    Earlier,    \* what may be in the buffer before the request is written
    Answers,    \* leap indicator, stratum and reference id of an answer
    MaxLeg      \* bound: ticks a leg of the trip, or the server, may take

(* Both clocks count from a common tick 0.  The random bits are less than  *)
(* a millisecond (the code: 16 bits, "~15 microseconds"), and the last     *)
(* fraction of a second is in its last millisecond ("999 and not 1000").   *)
(* No request is made when the clock reads zero, and a trip, which the     *)
(* code gives up after u32 milliseconds, is shorter than an era.           *)
ASSUME TripAssumption ==
    /\ \A mask \in RandomMasks : mask < FractionsPerMs
    /\ FractionsPerMs * (MsPerSec - 1) < FractionsMod
    /\ StartTicks \subseteq Nat
    /\ \A start \in StartTicks : ~ IsZero(Stamp(start))
    /\ Skews \subseteq Int
    /\ \A start \in StartTicks, s \in Skews : start + s \in Nat
    /\ Header \cap Tail = {}
    /\ Earlier \subseteq [Header \cup Tail -> Nat]
    /\ Answers \subseteq [leap : 0 .. 3, stratum : 0 .. 255, refId : Nat]
    /\ MaxLeg \in Nat
    /\ 3 * MaxLeg < (SecondsMod - 1) * FractionsMod

VARIABLES
    now,       \* the client's clock
    skew,
    request,   \* the timestamp sent: the reading and the random bits
    buffer,    \* the client's network buffer
    answer,    \* what kind of answer came, once it has
    phase,     \* where the datagram is
    sentAt,    \* client time of each step taken so far
    servedAt,
    repliedAt

vars == <<now, skew, request, buffer, answer, phase, sentAt, servedAt, repliedAt>>

NoAnswer == [leap |-> 0, stratum |-> 0, refId |-> 0]

Phases == {"outward", "atServer", "homeward", "done"}

(* How far the server is ahead of the client, read at client time t. *)
TrueDifference(t) == TrueMs(t + skew) - TrueMs(t)

Init ==
    /\ now \in StartTicks
    /\ skew \in Skews
    /\ \E mask \in RandomMasks : request \in Unpredictable(Stamp(now), mask)
    /\ \E earlier \in Earlier : buffer = SerializeRequest(request, earlier)
    /\ answer = NoAnswer
    /\ phase = "outward"
    /\ sentAt = now
    /\ servedAt = now
    /\ repliedAt = now

(* When the current phase began. *)
PhaseStart == CASE phase = "outward"  -> sentAt
                [] phase = "atServer" -> servedAt
                [] OTHER              -> repliedAt

(* The variables' ranges, and that the current phase began after the       *)
(* request was sent and not in the future.                                 *)
TypeOK ==
    /\ {now, sentAt, servedAt, repliedAt} \subseteq Nat
    /\ skew \in Skews
    /\ request \in Timestamp
    /\ buffer \in [Header \cup Tail -> Nat]
    /\ answer \in Answers \cup {NoAnswer}
    /\ phase \in Phases
    /\ sentAt <= PhaseStart /\ PhaseStart <= now

Tick ==
    /\ phase # "done"
    /\ now < PhaseStart + MaxLeg
    /\ now' = now + 1
    /\ UNCHANGED <<skew, request, buffer, answer, phase, sentAt, servedAt, repliedAt>>

ReachServer ==
    /\ phase = "outward"
    /\ phase' = "atServer"
    /\ servedAt' = now
    /\ UNCHANGED <<now, skew, request, buffer, answer, sentAt, repliedAt>>

Reply ==
    /\ phase = "atServer"
    /\ phase' = "homeward"
    /\ repliedAt' = now
    /\ UNCHANGED <<now, skew, request, buffer, answer, sentAt, servedAt>>

(* What a server sends back for the datagram it received: the transmit     *)
(* timestamp echoed, its own two readings, and in the words the client     *)
(* does not look at anything, here ones.                                   *)
ResponseTo(cells, a) ==
    LET received == Stamp(servedAt + skew)
        replied  == Stamp(repliedAt + skew)
    IN  [o \in DOMAIN cells |->
            CASE o = LeapVersionMode   -> a.leap * 64 + Version * 8 + ModeServer
              [] o = Stratum           -> a.stratum
              [] o = RefId             -> a.refId
              [] o = OriginSeconds     -> cells[TransmitSeconds]
              [] o = OriginFractions   -> cells[TransmitFractions]
              [] o = ReceiveSeconds    -> received.seconds
              [] o = ReceiveFractions  -> received.fractions
              [] o = TransmitSeconds   -> replied.seconds
              [] o = TransmitFractions -> replied.fractions
              [] o \in Tail            -> cells[o]
              [] OTHER                 -> 1]

(* The header of the response is read over that of the request. *)
ReachClient ==
    /\ phase = "homeward"
    /\ \E a \in Answers : answer' = a /\ buffer' = ResponseTo(buffer, a)
    /\ phase' = "done"
    /\ UNCHANGED <<now, skew, request, sentAt, servedAt, repliedAt>>

Next == Tick \/ ReachServer \/ Reply \/ ReachClient

Spec == Init /\ [][Next]_vars

-----------------------------------------------------------------------------
Verdict == DeserializeResponse(request, Stamp(now), PacketOf(buffer))

(* What the client's retry loops compute while they wait for the reply.    *)
ElapsedMs == CalculateElapsedMs(Stamp(now), request)

(* The request's time with the era kept: the random bits stay within its   *)
(* second.                                                                 *)
RequestMs == (sentAt \div FractionsMod) * MsPerSec + FractionsToMs(request.fractions)

OutwardMs  == TrueMs(servedAt) - TrueMs(sentAt)
HomewardMs == TrueMs(now) - TrueMs(repliedAt)

(* Two readings without their eras are enough: as long as the clocks are   *)
(* within half an era of each other, safe_time_difference is the true      *)
(* difference, with its sign, whichever side of an era boundary each of    *)
(* them stands on.                                                         *)
EraSafe ==
    WithinHalfEra(TrueDifference(now)) =>
        SafeTimeDifference(Stamp(now + skew), Stamp(now)) = TrueDifference(now)

(* Nothing of an earlier response goes out with a request, whatever words  *)
(* the buffer held: the header is the request and otherwise zero, and what *)
(* is reserved for authentication data behind it is left alone             *)
(* (serialize_request).                                                    *)
OnlyTheRequestIsSent ==
    phase # "done" =>
        /\ PacketOf(buffer) = RequestPacket(request)
        /\ \A o \in Header \ {LeapVersionMode, TransmitSeconds, TransmitFractions} :
              buffer[o] = 0
        /\ \E earlier \in Earlier : \A o \in Tail : buffer[o] = earlier[o]

(* What the two bits of the leap indicator, 0 to 3, announce. *)
LeapWarnings == <<"None", "LastMinuteHas61Seconds", "LastMinuteHas59Seconds",
                  "AlarmServerNotSynchronized">>

(* A server's answer to the request is understood: refused only if one of  *)
(* the server's readings is exactly zero, taken for a Kiss-o'-Death only   *)
(* at stratum 0 - whatever the reference id spells - and otherwise         *)
(* accepted with the server's time of reply and the leap warning it sent   *)
(* in the byte it shares with version and mode (deserialize_response       *)
(* reading at the offsets the server wrote to).                            *)
AnswerUnderstood ==
    phase = "done" =>
        IF IsZero(Stamp(servedAt + skew)) \/ IsZero(Stamp(repliedAt + skew))
        THEN Verdict.tag = "Err"
        ELSE IF answer.stratum = 0
        THEN Verdict.tag = "Rejected" /\ Verdict.code = CodeOf(answer.refId)
        ELSE /\ Verdict.tag = "Accepted"
             /\ Verdict.serverTime = Stamp(repliedAt + skew)
             /\ Verdict.leap = LeapWarnings[answer.leap + 1]

(* calculate_clock_offset cancels a symmetric network delay: what is left  *)
(* of twice the error is the difference of the two legs and at most six    *)
(* milliseconds - the readings and the random bits, each less than one in  *)
(* its place, and the final division - also when an era boundary falls     *)
(* inside the trip.                                                        *)
OffsetError ==
    /\ phase = "done" /\ Verdict.tag = "Accepted"
    /\ WithinHalfEra(TrueMs(servedAt + skew) - RequestMs)
    /\ WithinHalfEra(TrueMs(repliedAt + skew) - TrueMs(now))
    => AbsoluteOf(2 * Verdict.offset - 2 * TrueDifference(now))
          <= AbsoluteOf(OutwardMs - HomewardMs) + 6

(* calculate_elapsed_ms on a clock that only advances, also across the era *)
(* wrap: a deadline fires at most a millisecond of the true time early     *)
(* (the truncations) and at most two late (the random bits, too).          *)
ElapsedAccurate ==
    LET passed == TrueMs(now) - TrueMs(sentAt)
    IN  ElapsedMs \in passed - 2 .. passed + 1

(* On a clock that only advances the measured time never goes back: a      *)
(* deadline of the retry loops, once reached, stays reached.               *)
DeadlineStaysReached == [][ElapsedMs' >= ElapsedMs]_vars
=============================================================================
