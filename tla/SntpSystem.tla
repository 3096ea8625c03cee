----------------------------- MODULE SntpSystem -----------------------------
(***************************************************************************)
(* The client in its surroundings: a host with a clock that adjust_clock   *)
(* really steps, a network that delays, reorders, duplicates and loses     *)
(* datagrams, servers that answer, refuse or stay silent, and an           *)
(* application that alternates the two calls.  The client's actions are    *)
(* those of SntpClient, given the answers of this host.                    *)
(*                                                                         *)
(* Time goes round: the host's clock and the true time are ticks within an *)
(* era, so behaviours are infinite and the states finite.  What the code   *)
(* sees of them are timestamps anyway.  A tick is a unit of the fractions. *)
(*                                                                         *)
(* A millisecond is no whole number of ticks (2^32 / 1000), and the code's *)
(* divisor is deliberately not exact: 1000 times 4 295 000 is more than    *)
(* 2^32.  What the properties say of ticks and of milliseconds they        *)
(* therefore say in parts of a tick, in which both are whole.              *)
(***************************************************************************)
EXTENDS SntpClient, FiniteSets

CONSTANTS
    Kind,          \* what each server does: "answers", "refuses" or "silent"
    InitialErrors, \* ticks the host's clock may be behind at the start
    ListenAfter,   \* outcomes after which the application calls
    AskAfter,      \*   receive_time_response, or send_time_request
    Duplicating,   \* whether datagrams are duplicated
    SharedHost,    \* whether another client corrects the same clock
    SlewLimit,     \* corrections up to so many ticks are slewed, not stepped
    MaxDelay,      \* bound: ticks a datagram is on its way to or from a server
    MaxInFlight,   \* bound: datagrams on their way, and waiting in the socket
    SlowSteps,     \* bound: the steps of the client during which time passes,
    MaxLag,        \* bound: and how many ticks
    MaxAge         \* bound: ages of a request that the observer tells apart

EraTicks == SecondsMod * FractionsMod

(* What the servers of this system may answer. *)
Responses == [mode : {"server"}, stratum : Strata, code : {"RATE"}, leap : {"None"},
              origin : Timestamp, receive : Timestamp, transmit : Timestamp]

(* The random bits are less than a millisecond (the code: 16 of 32 bits),  *)
(* and a server's address is its index.                                    *)
ASSUME SystemAssumption ==
    /\ \A mask \in RandomMasks : mask < FractionsPerMs
    /\ Addresses = 0 .. NumServers - 1
    /\ Datagrams = Responses
    /\ Kind \in [0 .. NumServers - 1 -> {"answers", "refuses", "silent"}]
    /\ InitialErrors \subseteq 0 .. EraTicks - 1
    /\ ListenAfter \cup AskAfter = Results
    /\ {Duplicating, SharedHost} \subseteq BOOLEAN
    /\ {SlewLimit, MaxDelay, MaxInFlight, MaxLag, MaxAge} \subseteq Nat

(* "A caller loops on NothingYet and sends a fresh request after" a        *)
(* rejection or a timeout, when the client has moved on to another server, *)
(* and again when the name of that one did not resolve.                    *)
MovedOn == {"Dns", "Rejected", "TimedOut"}

ASSUME ApplicationAssumption == ListenAfter \cap MovedOn = {}

VARIABLES
    clock,        \* the host's clock
    slew,         \* ticks it has still to gain (or to lose, if negative)
    truth,        \* the servers' clocks
    net,          \* datagrams on their way, either way
    socket,       \* datagrams that recv_from may return
    lag,          \* ticks since the client's last step
    \* observers
    sinceRequest, \* ticks from the reading in the request to now
    gained,       \* ticks the clock gained on the true time since then
    readFrom      \* the server whose datagram was read last

observers == <<sinceRequest, gained, readFrom>>
sysVars   == <<vars, clock, slew, truth, net, socket, lag, observers>>

Now == Stamp(clock)

(* A difference of two clocks, the shorter way round. *)
Shorter(ticks) == LET forward == ticks % EraTicks
                  IN  IF 2 * forward > EraTicks THEN forward - EraTicks ELSE forward

Requests == {RequestPacket(t) : t \in Timestamp}
Waiting  == [server : DOMAIN Kind, packet : Responses]
OnItsWay == [server : DOMAIN Kind, packet : Requests \cup Responses, age : 0 .. MaxDelay]

TypeOKSystem ==
    /\ TypeOK
    /\ {clock, truth} \subseteq 0 .. EraTicks - 1
    /\ slew \in -SlewLimit .. SlewLimit
    /\ net \subseteq OnItsWay /\ Cardinality(net) <= MaxInFlight
    /\ socket \subseteq Waiting /\ Cardinality(socket) <= MaxInFlight
    /\ lag \in Nat
    /\ sinceRequest \in 0 .. MaxAge
    /\ gained \in Int /\ 2 * AbsoluteOf(gained) <= EraTicks
    /\ readFrom \in DOMAIN Kind

InitSystem ==
    /\ Init
    /\ clock = 1
    /\ \E error \in InitialErrors : truth = (clock + error) % EraTicks
    /\ slew = 0
    /\ net = {} /\ socket = {}
    /\ lag = 0
    /\ sinceRequest = 0 /\ gained = 0 /\ readFrom = 0

-----------------------------------------------------------------------------
(* The application.  "A caller loops on NothingYet and sends a fresh       *)
(* request after either of the other two."                                 *)

Ask    == result \in AskAfter /\ \E ms \in BlockTimesMs : SendTimeRequest(ms)
Listen == result \in ListenAfter /\ \E ms \in BlockTimesMs : ReceiveTimeResponse(ms)

-----------------------------------------------------------------------------
(* The client's steps, with the answers of this host.                      *)

Resolve == ResolveDns /\ (pc' = "requestTime" => addr' = server)

(* Ok(0): nothing was waiting. *)
FindNothing == socket = {} /\ RecvNothing

ReadClock ==
    \/ SendStart(Now) \/ SendRetry(Now)
    \/ ReceiveStart(Now) \/ RecvRetry(Now) \/ ReceivedAt(Now)

(* Steps that change nothing of the host. *)
InnerStep ==
    /\ \/ Ask \/ Listen \/ Resolve \/ GenerateClientAuth
       \/ SendNothing \/ SendFails \/ FindNothing \/ RecvFails(buffer)
       \/ ReadClock \/ ValidateServerAuth
    /\ UNCHANGED <<clock, slew, net, socket, observers>>

Room(queue) == Cardinality(queue) < MaxInFlight

(* The request that a datagram is, or answers. *)
RequestOf(packet) == IF packet.mode = "client" THEN packet.transmit ELSE packet.origin

Underway == {RequestOf(d.packet) : d \in net \cup socket}

(* The random bits keep a request from repeating one whose answer may      *)
(* still come, even if the clock was stepped back in between.              *)
Fresh(mask) == Unpredictable(Now, mask) \cap Underway = {}

MakeRequest ==
    /\ \E mask \in RandomMasks : Fresh(mask) /\ RequestTime(Now, mask)
    /\ sinceRequest' = 0
    /\ gained' = 0
    /\ UNCHANGED <<clock, slew, net, socket, readFrom>>

(* The datagram leaves, or is lost. *)
Transmit ==
    /\ SendAll
    /\ \/ UNCHANGED net
       \/ /\ Room(net)
          /\ net' = net \cup {[server |-> addr, packet |-> buffer, age |-> 0]}
    /\ UNCHANGED <<clock, slew, socket, observers>>

ReadDatagram ==
    /\ \E d \in socket :
          /\ RecvPacket(d.packet)
          /\ socket' = socket \ {d}
          /\ readFrom' = d.server
    /\ UNCHANGED <<clock, slew, net, sinceRequest, gained>>

(* "Whether to step or slew is the implementation's business": this host   *)
(* makes small corrections slowly.  It converts milliseconds to the ticks  *)
(* of its clock, not by the client's divisor.                              *)
SetClock ==
    /\ AdjustClock
    /\ LET ticks == (Correction.offset * FractionsMod) \div MsPerSec
       IN  IF AbsoluteOf(ticks) <= SlewLimit
           THEN slew' = ticks /\ UNCHANGED clock
           ELSE slew' = 0 /\ clock' = (clock + ticks) % EraTicks
    /\ UNCHANGED <<net, socket, observers>>

ClientStep ==
    /\ InnerStep \/ MakeRequest \/ Transmit \/ ReadDatagram \/ SetClock
    /\ lag' = 0
    /\ UNCHANGED truth

-----------------------------------------------------------------------------
(* Time, servers and network.                                              *)

(* What the clock gains in a tick while it is being slewed: it runs twice  *)
(* as fast, or stands still.                                               *)
Slewing == CASE slew > 0 -> 1 [] slew < 0 -> -1 [] OTHER -> 0

(* The client is not kept waiting for ever, nor a datagram.  (A request    *)
(* that would repeat one underway waits for the clock to move.)            *)
Tick ==
    /\ \/ pc \in SlowSteps /\ lag < MaxLag /\ lag' = lag + 1
       \/ pc = "requestTime" /\ ~ (\E mask \in RandomMasks : Fresh(mask)) /\ UNCHANGED lag
    /\ \A d \in net : d.age < MaxDelay
    /\ clock' = (clock + 1 + Slewing) % EraTicks
    /\ slew' = slew - Slewing
    /\ gained' = Shorter(gained + Slewing)
    /\ truth' = (truth + 1) % EraTicks
    /\ net' = {[d EXCEPT !.age = @ + 1] : d \in net}
    /\ sinceRequest' = IF sinceRequest = MaxAge THEN sinceRequest ELSE sinceRequest + 1
    /\ UNCHANGED <<vars, socket, readFrom>>

Response(by, request) ==
    [mode |-> "server",
     stratum |-> IF Kind[by] = "refuses" THEN KissStratum ELSE 1,
     code |-> "RATE", leap |-> "None", origin |-> request.transmit,
     receive |-> Stamp(truth), transmit |-> Stamp(truth)]

(* A request reaches its server; a copy of it may come later. *)
Respond ==
    /\ \E d \in net :
          /\ d.packet.mode = "client"
          /\ LET answers == IF Kind[d.server] = "silent" THEN {}
                            ELSE {[d EXCEPT !.packet = Response(d.server, d.packet),
                                            !.age = 0]}
             IN  \/ net' = (net \ {d}) \cup answers
                 \/ Duplicating /\ Room(net) /\ net' = net \cup answers
    /\ UNCHANGED <<vars, clock, slew, truth, socket, lag, observers>>

(* A response reaches the socket, again with a copy to come, or finds it   *)
(* full and is dropped.                                                    *)
Arrive ==
    /\ \E d \in net :
          /\ d.packet.mode = "server"
          /\ socket' = IF Room(socket)
                       THEN socket \cup {[server |-> d.server, packet |-> d.packet]}
                       ELSE socket
          /\ net' = net \ {d} \/ (Duplicating /\ net' = net)
    /\ UNCHANGED <<vars, clock, slew, truth, lag, observers>>

Lose ==
    /\ \E d \in net : net' = net \ {d}
    /\ UNCHANGED <<vars, clock, slew, truth, socket, lag, observers>>

(* "The same host can serve several clients": another one, between two     *)
(* calls of this one, since a call borrows the host.                       *)
OtherClientCorrects ==
    /\ SharedHost
    /\ pc = "idle"
    /\ clock # truth
    /\ clock' = truth
    /\ slew' = 0
    /\ gained' = Shorter(gained + truth - clock)
    /\ UNCHANGED <<vars, truth, net, socket, lag, sinceRequest, readFrom>>

Environment == Tick \/ Respond \/ Arrive \/ Lose \/ OtherClientCorrects

NextSystem == ClientStep \/ Environment

SystemSpec == InitSystem /\ [][NextSystem]_sysVars

(* The client runs and datagrams arrive.  Strong fairness of Tick: time    *)
(* does not pass only while the client looks elsewhere.                    *)
FairSystemSpec ==
    /\ SystemSpec
    /\ WF_sysVars(ClientStep)
    /\ WF_sysVars(Respond)
    /\ WF_sysVars(Arrive)
    /\ SF_sysVars(Tick)

(* What keeps an exchange from succeeding: the resolver or the transport   *)
(* fails or moves nothing, a datagram is lost on the way or finds the      *)
(* socket full, a server's clock reads exactly zero.                       *)
Fault ==
    \/ pc = "resolve" /\ result' = "Dns"
    \/ pc \in {"sendTo", "recvFrom"} /\ result' = "Network"
    \/ pc = "sendTo" /\ (pc' = "sendRetry" \/ net' = net)
    \/ pc' = pc /\ \E d \in net \ net' :
          \/ d.packet.mode = "server" /\ socket' = socket
          \/ /\ d.packet.mode = "client" /\ Kind[d.server] # "silent"
             /\ IsZero(Stamp(truth)) \/ net' = net \ {d}

-----------------------------------------------------------------------------
(* What the host's clock lacks to the true time, now and when the request  *)
(* was made.                                                               *)
Behind          == Shorter(truth - clock)
BehindAtRequest == Shorter(Behind + gained)

(* Ticks and milliseconds in parts: a second is FractionsMod ticks, or     *)
(* MsPerSec milliseconds, and the product of the two in parts.             *)
Ticks(n)  == n * MsPerSec
Millis(n) == n * FractionsMod

(* The most that a reading loses when its fraction becomes milliseconds:   *)
(* the remainder of the division, and what the divisor is too large by for *)
(* each millisecond of the second (the code: 1.0076 milliseconds).         *)
Loss == Ticks(FractionsPerMs - 1)
            + (FractionsPerMs * MsPerSec - FractionsMod) * (MsPerSec - 1)

(* The rounding of twice an offset: each of its two differences is off by  *)
(* what a reading loses, the request by its random bits, and the division  *)
(* by half a millisecond.                                                  *)
Rounding == 2 * Loss + Ticks(FractionsPerMs - 1) + Millis(1)

(* The differences that the code takes are within half an era, with what   *)
(* the readings lose and the random bits.                                  *)
HalfEraPremise ==
    2 * (Ticks(AbsoluteOf(Behind) + AbsoluteOf(gained) + sinceRequest + FractionsPerMs - 1)
            + Loss) < Ticks(EraTicks)

(* "`offset_ms` is how far this clock is behind the server." (adjust_clock)*)
(* - as well as the round trip it was measured with can tell, to half of   *)
(* it, and as long as the clocks are within half an era of each other.     *)
OffsetIsHowFarBehind ==
    pc = "adjust" /\ HalfEraPremise =>
        AbsoluteOf(Millis(2 * Correction.offset) - Ticks(2 * Behind))
            <= Ticks(sinceRequest) + Rounding

(* What holds even if other clients set the clock during the trip: the     *)
(* offset is the mean of how far the clock was behind when the request was *)
(* made and when the answer was read, to half the round trip - so          *)
(* OffsetIsHowFarBehind if nobody set it in between - whatever datagrams   *)
(* of earlier requests arrive meanwhile, of whichever server, and however  *)
(* late the client gets to read them.                                      *)
CorrectionWithinRoundTrip ==
    pc = "adjust" /\ HalfEraPremise =>
        AbsoluteOf(Millis(2 * Correction.offset) - Ticks(Behind + BehindAtRequest))
            <= Ticks(sinceRequest) + Rounding

(* The server handed to adjust_clock with a correction is the one that     *)
(* answered: a reply that comes after its request timed out, when the      *)
(* client has moved on to another server, is not credited to that one.     *)
CreditedToAnswerer == pc = "adjust" => readFrom = server

(* "The response timeout expired." (Reception::TimedOut): the request is   *)
(* as old as the timeout by the true time, to what a reading loses.        *)
TimedOutHasExpired ==
    [][ pc = "recvRetry" /\ pc' = "idle" /\ result' = "TimedOut" =>
          Millis(ResponseTimeoutMs) <= Ticks(sinceRequest) + Loss ]_sysVars

(* Unless the clock was set back on the whole since the request, a timeout *)
(* is reported when the request is as old as the response timeout - by the *)
(* true time, or by as much more as the clock was set forward - and        *)
(* "nothing yet" only when it is not, whichever of the two deadlines the   *)
(* reading has passed: to what a reading loses, and the request's random   *)
(* bits, and while the age fits an era less a second.                      *)
TimeoutIsTrue ==
    [][ LET age == sinceRequest + gained    \* as the host's clock has it
        IN  /\ pc = "recvRetry" /\ pc' = "idle" /\ ~ IsZero(lastRequest)
            /\ gained >= 0 /\ age < EraTicks - FractionsMod
            => IF result' = "TimedOut"
               THEN Millis(ResponseTimeoutMs) <= Ticks(age) + Loss
               ELSE Ticks(age) <= Millis(ResponseTimeoutMs - 1) + Loss
                                      + Ticks(FractionsPerMs - 1) ]_sysVars

(* Every call returns, whatever the network does, as long as the clock     *)
(* runs ("the block time is only as good as the clock").                   *)
CallsReturn == pc # "idle" ~> pc = "idle"

(* When the faults stop, the client synchronises, again and again: it gets *)
(* past servers that refuse or say nothing, back round the list to one     *)
(* that answers, and past the late answers that are left in the socket.    *)
Synchronises == <>[][~ Fault]_sysVars => []<>(result = "Synchronised")
=============================================================================
