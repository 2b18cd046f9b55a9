--------------------------- MODULE TunnelService ---------------------------
(***************************************************************************)
(* What Tunly promises about its one tunnel, with no processes, timers or  *)
(* desktop settings: applications are redirected only while the tunnel is  *)
(* on, a delivery never outlives its tunnel, and connecting always ends.   *)
(***************************************************************************)
VARIABLES phase,     \* "off", "connecting" or "on"
          delivery   \* how applications reach the tunnel, "none" if they do not

vars == <<phase, delivery>>

Deliveries == {"proxy", "transparent"}

Init == phase = "off" /\ delivery = "none"

\* Starting a tunnel takes down the current one first.
Begin == phase' = "connecting" /\ delivery' = "none"

Deliver ==
    /\ phase = "connecting"
    /\ phase' = "on"
    /\ delivery' \in Deliveries

\* The delivery of a tunnel that is on is swapped under it.
Swap ==
    /\ phase = "on"
    /\ delivery' \in Deliveries
    /\ UNCHANGED phase

\* Stopped, failed, dropped, or the tray is gone.
End == phase' = "off" /\ delivery' = "none"

Resolve == phase = "connecting" /\ (Deliver \/ End)

Next == Begin \/ Deliver \/ Swap \/ End

Spec == Init /\ [][Next]_vars /\ WF_vars(Resolve)
=============================================================================
