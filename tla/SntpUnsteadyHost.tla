-------------------------- MODULE SntpUnsteadyHost --------------------------
(***************************************************************************)
(* The system on a host whose clock does not only advance: an interrupt, a *)
(* second time source or a bad oscillator sets it back now and then, also  *)
(* in the middle of a call.  ("If your clock can misbehave, give the       *)
(* caller its own escape.")                                                *)
(***************************************************************************)
EXTENDS SntpSystem

(* A tick of time during which the clock goes back instead. *)
Falter ==
    /\ pc \in SlowSteps /\ lag < MaxLag /\ lag' = lag + 1
    /\ \A d \in net : d.age < MaxDelay
    /\ clock' = (clock - 1) % EraTicks
    /\ gained' = Shorter(gained - 2)
    /\ truth' = (truth + 1) % EraTicks
    /\ net' = {[d EXCEPT !.age = @ + 1] : d \in net}
    /\ sinceRequest' = IF sinceRequest = MaxAge THEN sinceRequest ELSE sinceRequest + 1
    /\ UNCHANGED <<vars, slew, socket, readFrom>>

NextUnsteady == NextSystem \/ Falter

UnsteadySystemSpec == InitSystem /\ [][NextUnsteady]_sysVars

UnsteadySpec ==
    /\ UnsteadySystemSpec
    /\ WF_sysVars(ClientStep) /\ WF_sysVars(Respond) /\ WF_sysVars(Arrive)
    /\ SF_sysVars(Tick)

-----------------------------------------------------------------------------
(* "`block_time_ms` bounds the retrying of a transport that keeps          *)
(* reporting that it sent nothing." (send_time_request): every send call   *)
(* returns, on a clock that goes forward again and again.                  *)
BlockTimeBoundsSend == pc \in SendSteps ~> pc = "idle"
=============================================================================
