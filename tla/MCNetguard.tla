----------------------------- MODULE MCNetguard -----------------------------
(***************************************************************************)
(* Instances of Netguard for TLC.                                          *)
(***************************************************************************)
EXTENDS Netguard, TLC

CONSTANTS g1, r1,                  \* a helper of the tray, a --repair
          web, server, lan,        \* IPv4: the outside, the ssh server, the LAN
          web6, lan6               \* IPv6: the outside, the LAN
=============================================================================
