--------------------------- MODULE SntpSerializer ---------------------------
(***************************************************************************)
(* The packet codec (serializer.rs): what a request carries, and what a    *)
(* response is taken to mean.  A packet is a record of the header fields   *)
(* the codec reads or writes; their offsets are in SntpBuffer.  The        *)
(* authentication data, which the codec never looks at, is left out.       *)
(***************************************************************************)
EXTENDS SntpTime

CONSTANTS
    FractionsWidth, \* bits of the fractions field                 (code: 32)
    RandomMasks     \* the values random_number >> 16 may take

ASSUME RandomAssumption ==
    /\ FractionsWidth \in Nat
    /\ RandomMasks \subseteq 0 .. FractionsMod - 1

Modes       == {"client", "server", "other"}
KissStratum == 0
Strata      == {KissStratum, 1}     \* 1 stands for every other stratum
KissCodes   == {"DENY", "RSTR", "RATE", "????"}
LeapSeconds == {"None", "LastMinuteHas61Seconds", "LastMinuteHas59Seconds",
                "AlarmServerNotSynchronized"}

Packet == [mode : Modes, stratum : Strata, code : KissCodes,
           leap : LeapSeconds, origin : Timestamp, receive : Timestamp,
           transmit : Timestamp]

-----------------------------------------------------------------------------
(* Requests                                                                *)

Bit(n, i) == (n \div 2^i) % 2

(* The bitwise or of two words; it only sets bits, and only the mask's, so *)
(* it lies between n and the sum.                                          *)
BitOr(n, mask) ==
    {m \in n .. n + mask :
        m < FractionsMod /\ \A i \in 0 .. FractionsWidth - 1 :
            Bit(m, i) = 1 <=> (Bit(n, i) = 1 \/ Bit(mask, i) = 1)}

(* Variant: the random bits added, which may carry out of the fractions. *)
UnpredictableAdded(time, mask) ==
    {[time EXCEPT !.fractions = time.fractions + mask]}

(* serialize_request changes its argument: the random bits go into the low *)
(* bits of the fractions and the caller must remember the modified time.   *)
(* The set has one element.                                                *)
Unpredictable(time, mask) ==
    {[time EXCEPT !.fractions = f] : f \in BitOr(time.fractions, mask)}

(* "Most of a request is zero": the zero words decode as below. *)
RequestPacket(time) ==
    [mode |-> "client", stratum |-> KissStratum, code |-> "????",
     leap |-> "None", origin |-> ZeroTime, receive |-> ZeroTime,
     transmit |-> time]

-----------------------------------------------------------------------------
(* Responses                                                               *)

Errors == {"BadParameter", "InvalidResponse"}

(* Variant: the originate field not compared. *)
ResponseErrorNoEcho(requestTime, packet) ==
    IF IsZero(requestTime) THEN "BadParameter"
    ELSE IF \/ packet.mode # "server"
            \/ \E t \in {packet.origin, packet.receive, packet.transmit} : IsZero(t)
    THEN "InvalidResponse"
    ELSE "none"

(* A response is refused unless it comes from a server, has no zero        *)
(* timestamp and echoes the request exactly.                               *)
ResponseError(requestTime, packet) ==
    IF IsZero(requestTime) THEN "BadParameter"
    ELSE IF \/ packet.mode # "server"
            \/ \E t \in {packet.origin, packet.receive, packet.transmit} : IsZero(t)
            \/ packet.origin # requestTime
    THEN "InvalidResponse"
    ELSE "none"

RejectionKind(code) ==
    CASE code \in {"DENY", "RSTR"} -> "ChangeServer"
      [] code = "RATE"             -> "RetryWithBackoff"
      [] OTHER                     -> "Other"

(* Err(..), Ok(Rejected) or Ok(Accepted), told apart by the tag. *)
DeserializeResponse(requestTime, rxTime, packet) ==
    LET error == ResponseError(requestTime, packet)
    IN  IF error # "none" THEN [tag |-> "Err", error |-> error]
        ELSE IF packet.stratum = KissStratum
        THEN [tag |-> "Rejected", code |-> packet.code,
              kind |-> RejectionKind(packet.code)]
        ELSE [tag |-> "Accepted", serverTime |-> packet.transmit,
              leap |-> packet.leap,
              offset |-> CalculateClockOffset(requestTime, packet.receive,
                                              packet.transmit, rxTime)]
=============================================================================
