---------------------------- MODULE SntpExchange ----------------------------
(***************************************************************************)
(* What an SNTP client promises its caller, abstractly: the documentation  *)
(* of send_time_request, receive_time_response and their result types,     *)
(* without callbacks, packets or time.                                     *)
(*                                                                         *)
(*   - a send call may put a request in flight, and succeeds only with one *)
(*     in flight;                                                          *)
(*   - a receive call makes at most one of three changes, and what it      *)
(*     returns says which: the answer ends the request, a rejection ends   *)
(*     it only for an authenticating client and moves on to the next       *)
(*     server, so does a timeout, which leaves the request alone;          *)
(*   - every other outcome leaves the server and the request as they were. *)
(***************************************************************************)
EXTENDS Integers

CONSTANTS NumServers, Configured

VARIABLES
    server,   \* the server in use
    pending,  \* a request is in flight
    call,     \* "idle", "send" or "receive"
    outcome   \* of the last call, "none" while one is in progress

vars == <<server, pending, call, outcome>>

Init ==
    /\ server = 0
    /\ pending = FALSE
    /\ call = "idle"
    /\ outcome = "none"

Begin(kind) ==
    /\ call = "idle"
    /\ call' = kind
    /\ outcome' = "none"
    /\ UNCHANGED <<server, pending>>

End(value) == call' = "idle" /\ outcome' = value

NextServer == server' = (server + 1) % NumServers

(* A new request replaces whatever was in flight. *)
Request ==
    /\ call = "send"
    /\ pending' = TRUE
    /\ UNCHANGED <<server, call, outcome>>

(* No request can be made without the time; none is in flight then. *)
NoClock ==
    /\ call = "send"
    /\ pending' = FALSE
    /\ End("Network")
    /\ UNCHANGED server

Sent ==
    /\ call = "send"
    /\ pending
    /\ End("Ok")
    /\ UNCHANGED <<server, pending>>

NotSent ==
    /\ call = "send"
    /\ \E error \in {"Dns", "Network", "SendTimeout", "Auth"} : End(error)
    /\ UNCHANGED <<server, pending>>

Synchronise ==
    /\ call = "receive"
    /\ pending
    /\ pending' = FALSE
    /\ End("Synchronised")
    /\ UNCHANGED server

Reject ==
    /\ call = "receive"
    /\ pending
    /\ pending' = ~ Configured
    /\ NextServer
    /\ End("Rejected")

TimeOut ==
    /\ call = "receive"
    /\ NextServer
    /\ End("TimedOut")
    /\ UNCHANGED pending

NotReceived ==
    /\ call = "receive"
    /\ \E value \in {"NothingYet", "Network", "InvalidResponse", "Auth",
                     "ServerNotAuthenticated"} : End(value)
    /\ UNCHANGED <<server, pending>>

Next ==
    \/ Begin("send") \/ Request \/ NoClock \/ Sent \/ NotSent
    \/ Begin("receive") \/ Synchronise \/ Reject \/ TimeOut \/ NotReceived

Spec == Init /\ [][Next]_vars
=============================================================================
