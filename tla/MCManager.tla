----------------------------- MODULE MCManager -----------------------------
(***************************************************************************)
(* Instances of Manager for TLC: the tunnels in the configuration file at  *)
(* startup.                                                                *)
(***************************************************************************)
EXTENDS Manager, TLC

CONSTANTS home, work   \* tunnel names

\* Two tunnels that authenticate with the agent, with a port each.
TwoAgents == {[name |-> home, port |-> 1, auth |-> "agent"],
              [name |-> work, port |-> 2, auth |-> "agent"]}

\* One tunnel with the agent, one with a password.
OneEach == {[name |-> home, port |-> 1, auth |-> "agent"],
            [name |-> work, port |-> 2, auth |-> "password"]}

\* A single tunnel.
OneAgent == {[name |-> home, port |-> 1, auth |-> "agent"]}
=============================================================================
