---------------------------- MODULE FailClosed ------------------------------
(***************************************************************************)
(* What transparent mode promises of the traffic as a whole.  It is        *)
(*   open      sent directly, as without Tunly,                            *)
(*   closed    stopped: nothing goes out with the real address, or         *)
(*   captured  sent through the tunnel, and nothing beside it.             *)
(* Captured traffic is always closed on before it is open again, and open  *)
(* traffic before it is captured: there is no moment of "merely            *)
(* unguarded" in between (netfilter.py:57-60, 94).                         *)
(***************************************************************************)
VARIABLE mode

Init == mode \in {"open", "closed", "captured"}

Close   == mode \in {"open", "captured"} /\ mode' = "closed"
Capture == mode = "closed" /\ mode' = "captured"
Open    == mode = "closed" /\ mode' = "open"

Next == Close \/ Capture \/ Open

Spec == Init /\ [][Next]_mode
=============================================================================
