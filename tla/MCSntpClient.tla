---------------------------- MODULE MCSntpClient ----------------------------
(* Two servers, eight timestamps, and the datagrams that tell every branch *)
(* of the client apart: for every request the client may have made, a      *)
(* usable answer and a Kiss-o'-Death, and one packet per way of being      *)
(* malformed.                                                              *)
EXTENDS SntpClientHistory, Bitwise

(* The codec's description of `|=` picks the bitwise or, and only it. *)
ASSUME BitOrIsOr ==
    \A n \in 0 .. FractionsMod - 1, mask \in RandomMasks :
        BitOr(n, mask) = {n | mask}

MCAddresses == {"a", "b"}
MCNoAddress == "0"

Reply(origin, stratum) ==
    [mode |-> "server", stratum |-> stratum, code |-> "DENY", leap |-> "None",
     origin |-> origin, receive |-> [seconds |-> 1, fractions |-> 0],
     transmit |-> [seconds |-> 1, fractions |-> 2]]

Malformed(packet) == {[packet EXCEPT !.mode = "client"],
                      [packet EXCEPT !.receive = ZeroTime],
                      [packet EXCEPT !.transmit = ZeroTime]}

MCDatagrams == {Reply(t, s) : t \in Timestamp, s \in Strata}
                 \cup Malformed(Reply([seconds |-> 1, fractions |-> 1], 1))
=============================================================================
