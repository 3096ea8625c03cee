---------------------------- MODULE MCSntpOnWire ----------------------------
(* Two-second eras of 32 ticks, a second of 16 ticks and a divisor of 5:   *)
(* like 4 295 000 it does not divide the second, and the largest fraction  *)
(* converts to one less than MsPerSec.  A millisecond is long enough for   *)
(* the random bits and every truncation to fall together, so that both     *)
(* bounds of ElapsedAccurate and the bound of OffsetError are reached.     *)
EXTENDS SntpOnWire

(* The trip starts anywhere in the second era, so that the server may      *)
(* stand in the era before or after, up to a whole era away.               *)
MCStartTicks == 33 .. 63
MCSkews == -32 .. 32

(* A buffer with an earlier response, and the authentication data that     *)
(* came with it.                                                           *)
MCEarlier == {[o \in Header \cup {48} |-> IF o = LeapVersionMode THEN 164 ELSE 1]}

(* Times with every leap indicator, one of them from a server whose        *)
(* reference id happens to spell DENY, and refusals.                       *)
MCAnswers == {[leap |-> 0, stratum |-> 2, refId |-> KodDeny],
              [leap |-> 1, stratum |-> 1, refId |-> 1],
              [leap |-> 2, stratum |-> 1, refId |-> 1],
              [leap |-> 3, stratum |-> 1, refId |-> 0],
              [leap |-> 0, stratum |-> 0, refId |-> KodDeny],
              [leap |-> 1, stratum |-> 0, refId |-> KodRate],
              [leap |-> 0, stratum |-> 0, refId |-> 1]}
=============================================================================
