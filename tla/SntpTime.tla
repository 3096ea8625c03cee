------------------------------ MODULE SntpTime ------------------------------
(***************************************************************************)
(* SNTP timestamps and the arithmetic the client and the codec do on them  *)
(* (serializer.rs "the arithmetic", client.rs calculate_elapsed_ms).       *)
(*                                                                         *)
(* A timestamp is two 32-bit halves, whole seconds since 1900 and a binary *)
(* fraction of a second.  Everything here is integer arithmetic, and what  *)
(* can go wrong is at its edges: the era wrap of the seconds, the          *)
(* truncation of fractions to milliseconds by a divisor that is slightly   *)
(* too large, the u64 subtraction that may borrow.  The widths and the     *)
(* divisor are therefore constants: the model checker takes small ones     *)
(* with the same relations between them, the proofs take any.              *)
(*                                                                         *)
(* In this and the other modules a definition commented "Variant" is not   *)
(* part of the model: it is the definition after it with one mistake, put  *)
(* in its place to see that a property notices.                            *)
(***************************************************************************)
EXTENDS Integers

CONSTANTS
    HalfSeconds,    \* half of the seconds field's range      (code: 2^31)
    FractionsMod,   \* ticks of the fractions field per second (code: 2^32)
    FractionsPerMs, \* the divisor of fractionsToMs       (code: 4 295 000)
    MsPerSec,       \* milliseconds per second                 (code: 1000)
    U64Mod          \* range of the u64 of calculateElapsedTimeMs (2^64)

(* The relations between the code's constants that the algorithms rely on: *)
(* the largest fraction must not round up into the next second, and a      *)
(* whole era in milliseconds must fit the unsigned result.                 *)
ASSUME WidthsAssumption ==
    /\ HalfSeconds \in Nat \ {0}
    /\ FractionsMod \in Nat \ {0}
    /\ FractionsPerMs \in Nat \ {0}
    /\ MsPerSec \in Nat \ {0}
    /\ U64Mod \in Nat
    /\ FractionsMod <= FractionsPerMs * MsPerSec
    /\ 2 * (HalfSeconds * MsPerSec) < U64Mod

SecondsMod == 2 * HalfSeconds

Timestamp == [seconds : 0 .. SecondsMod - 1, fractions : 0 .. FractionsMod - 1]

ZeroTime == [seconds |-> 0, fractions |-> 0]

IsZero(t) == t.seconds = 0 /\ t.fractions = 0

(* What a clock that has counted so many ticks reads: the era is dropped.  *)
Stamp(ticks) == [seconds   |-> (ticks \div FractionsMod) % SecondsMod,
                 fractions |-> ticks % FractionsMod]

-----------------------------------------------------------------------------
(* Signed milliseconds.  The code's saturating i64 operations never        *)
(* saturate: every value is within two eras of zero.                       *)

FractionsToMs(fractions) == fractions \div FractionsPerMs

AsMillis(t) == t.seconds * MsPerSec + FractionsToMs(t.fractions)

ClockOffsetMaxTimeDifference == HalfSeconds * MsPerSec

TotalMillisecondsInNtpEra == 2 * (HalfSeconds * MsPerSec)

AbsoluteOf(value) == IF value < 0 THEN -value ELSE value

(* Variant: without the special case of exactly half an era. *)
SafeTimeDifferenceNoTie(server, client) ==
    LET sameEra == AsMillis(server) - AsMillis(client)
    IN  IF AbsoluteOf(sameEra) <= ClockOffsetMaxTimeDifference THEN sameEra
        ELSE IF sameEra < 0 THEN sameEra + TotalMillisecondsInNtpEra
        ELSE sameEra - TotalMillisecondsInNtpEra

(* server - client across the era wrap: of the three ways to place the two *)
(* readings in eras, the one with the smallest absolute difference; at     *)
(* exactly half an era the server is taken to be ahead.                    *)
SafeTimeDifference(server, client) ==
    LET sameEra     == AsMillis(server) - AsMillis(client)
        serverAhead == sameEra + TotalMillisecondsInNtpEra
        clientAhead == sameEra - TotalMillisecondsInNtpEra
    IN  IF AbsoluteOf(sameEra) = ClockOffsetMaxTimeDifference
        THEN ClockOffsetMaxTimeDifference
        ELSE IF /\ AbsoluteOf(sameEra) <= AbsoluteOf(serverAhead)
                /\ AbsoluteOf(sameEra) <= AbsoluteOf(clientAhead)
        THEN sameEra
        ELSE IF AbsoluteOf(serverAhead) < AbsoluteOf(sameEra)
        THEN serverAhead
        ELSE clientAhead

(* Division by two that truncates toward zero, as `/` does in Rust; TLA+'s *)
(* \div rounds down.                                                       *)
HalfTowardZero(n) == IF n < 0 THEN -((-n) \div 2) ELSE n \div 2

(* Variant: the outward difference taken the wrong way round. *)
CalculateClockOffsetSwapped(clientTx, serverRx, serverTx, clientRx) ==
    HalfTowardZero(SafeTimeDifference(clientTx, serverRx)
                   + SafeTimeDifference(serverTx, clientRx))

CalculateClockOffset(clientTx, serverRx, serverTx, clientRx) ==
    HalfTowardZero(SafeTimeDifference(serverRx, clientTx)
                   + SafeTimeDifference(serverTx, clientRx))

-----------------------------------------------------------------------------
(* Variant: the distance of the fractions added whatever its sign. *)
CalculateElapsedMsUnsigned(current, older) ==
    (((current.seconds - older.seconds) % SecondsMod) * MsPerSec
        + AbsoluteOf(current.fractions - older.fractions) \div FractionsPerMs)
            % U64Mod

(* Variant: an era wrap counted one second short. *)
CalculateElapsedMsWrapShort(current, older) ==
    LET seconds == IF current.seconds < older.seconds
                   THEN SecondsMod - 1 - older.seconds + current.seconds
                   ELSE current.seconds - older.seconds
        millis  == seconds * MsPerSec
    IN  IF current.fractions > older.fractions
        THEN (millis + (current.fractions - older.fractions) \div FractionsPerMs)
                % U64Mod
        ELSE (millis - (older.fractions - current.fractions) \div FractionsPerMs)
                % U64Mod

(* Unsigned milliseconds from `older` to `current`.  The seconds are taken *)
(* modulo the era; the fractions are added or subtracted on a u64, and the *)
(* subtraction borrows from the whole u64 when the seconds are equal and   *)
(* the clock went back.                                                    *)
CalculateElapsedMs(current, older) ==
    LET seconds == IF current.seconds < older.seconds
                   THEN SecondsMod - older.seconds + current.seconds
                   ELSE current.seconds - older.seconds
        millis  == seconds * MsPerSec
    IN  IF current.fractions > older.fractions
        THEN (millis + (current.fractions - older.fractions) \div FractionsPerMs)
                % U64Mod
        ELSE (millis - (older.fractions - current.fractions) \div FractionsPerMs)
                % U64Mod

-----------------------------------------------------------------------------
(* What the arithmetic is measured by, not part of the code.               *)

(* Milliseconds since tick 0, truncated within the second as the code does *)
(* it, but with the era kept.                                              *)
TrueMs(ticks) == (ticks \div FractionsMod) * MsPerSec
                    + (ticks % FractionsMod) \div FractionsPerMs

(* A difference that fits half an era; the exact tie only with the server  *)
(* ahead, which is how the code resolves it.                               *)
WithinHalfEra(ms) == /\ ms > -ClockOffsetMaxTimeDifference
                     /\ ms <= ClockOffsetMaxTimeDifference
=============================================================================
