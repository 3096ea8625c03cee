---------------------------- MODULE MCSntpSystem ----------------------------
(* A second has one millisecond more than it has ticks, so that a divisor  *)
(* of 1 is a little too large for it, as 4 295 000 is for 2^32: the last   *)
(* millisecond of a second is never read.  An era is 8 to 14 ticks.        *)
EXTENDS SntpUnsteadyHost, TLC

MCOneServer == 0 :> "answers"
MCTwoServers == 0 :> "answers" @@ 1 :> "refuses"
MCThreeServers == 0 :> "silent" @@ 1 :> "answers" @@ 2 :> "refuses"

(* What an application does about an invalid response, the documentation   *)
(* leaves open: it may listen again or ask anew.                           *)
MCListenAfter == {"Ok", "NothingYet", "InvalidResponse"}
MCAskAfter == Results \ {"Ok", "NothingYet"}

(* It always listens again. *)
MCAskAfterPatient == Results \ MCListenAfter
=============================================================================
