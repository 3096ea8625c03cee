------------------------- MODULE SntpClientHistory --------------------------
(***************************************************************************)
(* The client with what an observer of its calls remembers.  The actions   *)
(* are those of SntpClient; each is extended with the history it makes.    *)
(***************************************************************************)
EXTENDS SntpClient

VARIABLES
    addrServer, \* the server whose name was resolved to addr; it means
                \* nothing while addr is NoAddress
    sentSize,   \* length of the packet last handed to send_to
    corrected,  \* times the clock was corrected since the last request, up to 2
    validated   \* the authenticator accepted the packet last read

history == <<addrServer, sentSize, corrected, validated>>

InitHistory ==
    /\ Init
    /\ addrServer = 0
    /\ sentSize = PacketBaseSize
    /\ corrected = 0
    /\ validated = FALSE

NextHistory ==
    /\ Next
    /\ addrServer' = IF pc = "resolve" /\ pc' = "requestTime" THEN server ELSE addrServer
    /\ sentSize' = IF pc = "sendTo" THEN packetSize ELSE sentSize
    /\ corrected' = CASE pc = "requestTime" -> 0
                      [] pc = "adjust"      -> IF corrected < 2 THEN corrected + 1 ELSE 2
                      [] OTHER              -> corrected
    /\ validated' = CASE pc = "recvFrom"     -> FALSE
                      [] pc = "validateAuth" -> result' \notin {"Auth", "ServerNotAuthenticated"}
                      [] OTHER               -> validated

SpecHistory == InitHistory /\ [][NextHistory]_<<vars, history>>

-----------------------------------------------------------------------------
(* A request is answered at most once: replaying the datagram, or          *)
(* duplicating it in the network, corrects the clock no second time.       *)
AnsweredOnce == corrected <= 1

(* The size the next response is read at is the size of the packet last    *)
(* handed to the transport, also when generating a later authentication    *)
(* code failed or was too large ("the packet size is deliberately NOT      *)
(* reset here").                                                           *)
SizeOfLastPacket ==
    pc \notin {"sendStart", "sendTo"} => packetSize = sentSize

(* An authenticating client acts on a packet - corrects the clock, or      *)
(* rotates on a rejection - only if that very packet was validated         *)
(* (process_response validates before it deserializes).                    *)
ActsOnlyOnValidated ==
    Configured /\ (pc = "adjust" \/ result = "Rejected") => validated

(* "The resolved address of the server in use." (current_server_address):  *)
(* between calls, and once a name was resolved at all, the address held    *)
(* belongs to the server current_server_index names.                       *)
AddressOfServerInUse == pc = "idle" /\ addr # NoAddress => addrServer = server
=============================================================================
