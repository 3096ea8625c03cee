----------------------------- MODULE SntpBuffer -----------------------------
(***************************************************************************)
(* The network buffer as the codec sees it (serializer.rs): the fields at  *)
(* their offsets, and what serialize_request writes over whatever an       *)
(* earlier response left there.  A cell is a byte where the codec handles  *)
(* bytes (offsets 0 to 3) and a 32-bit word elsewhere; that both ends      *)
(* write words in network byte order is left out.                          *)
(***************************************************************************)
EXTENDS SntpSerializer

Version     == 4
ModeClient  == 3
ModeServer  == 4

(* mod field *)
LeapVersionMode   == 0
Stratum           == 1
RefId             == 12
OriginSeconds     == 24
OriginFractions   == 28
ReceiveSeconds    == 32
ReceiveFractions  == 36
TransmitSeconds   == 40
TransmitFractions == 44

Header == 0 .. 3 \cup {4 * i : i \in 1 .. 11}

(* The kiss codes, as big-endian ASCII. *)
KodDeny == 1145392729
KodRstr == 1381192786
KodRate == 1380013125

TimestampAt(cells, secondsAt, fractionsAt) ==
    [seconds |-> cells[secondsAt], fractions |-> cells[fractionsAt]]

(* Variant: the header not cleared first. *)
SerializeRequestUncleared(time, cells) ==
    [cells EXCEPT ![LeapVersionMode] = Version * 8 + ModeClient,
                  ![TransmitSeconds] = time.seconds,
                  ![TransmitFractions] = time.fractions]

(* Most of a request is zero, and beyond the header nothing is touched. *)
SerializeRequest(time, cells) ==
    [o \in DOMAIN cells |->
        CASE o = LeapVersionMode   -> Version * 8 + ModeClient
          [] o = TransmitSeconds   -> time.seconds
          [] o = TransmitFractions -> time.fractions
          [] o \in Header \ {LeapVersionMode, TransmitSeconds, TransmitFractions} -> 0
          [] OTHER                 -> cells[o]]

ModeOf(byte) == CASE byte % 8 = ModeServer -> "server"
                  [] byte % 8 = ModeClient -> "client"
                  [] OTHER                 -> "other"

(* Variant: the two leap seconds the wrong way round. *)
LeapOfSwapped(byte) == CASE byte \div 64 = 0 -> "None"
                         [] byte \div 64 = 1 -> "LastMinuteHas59Seconds"
                         [] byte \div 64 = 2 -> "LastMinuteHas61Seconds"
                         [] OTHER            -> "AlarmServerNotSynchronized"

LeapOf(byte) == CASE byte \div 64 = 0 -> "None"
                  [] byte \div 64 = 1 -> "LastMinuteHas61Seconds"
                  [] byte \div 64 = 2 -> "LastMinuteHas59Seconds"
                  [] OTHER            -> "AlarmServerNotSynchronized"

CodeOf(word) == CASE word = KodDeny -> "DENY"
                  [] word = KodRstr -> "RSTR"
                  [] word = KodRate -> "RATE"
                  [] OTHER          -> "????"

(* The fields deserialize_response takes from the buffer. *)
PacketOf(cells) ==
    [mode     |-> ModeOf(cells[LeapVersionMode]),
     stratum  |-> IF cells[Stratum] = 0 THEN KissStratum ELSE 1,
     code     |-> CodeOf(cells[RefId]),
     leap     |-> LeapOf(cells[LeapVersionMode]),
     origin   |-> TimestampAt(cells, OriginSeconds, OriginFractions),
     receive  |-> TimestampAt(cells, ReceiveSeconds, ReceiveFractions),
     transmit |-> TimestampAt(cells, TransmitSeconds, TransmitFractions)]
=============================================================================
