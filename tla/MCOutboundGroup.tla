--------------------------- MODULE MCOutboundGroup ---------------------------
(* Small instances of OutboundGroup for TLC. *)
EXTENDS OutboundGroup, TLC

CONSTANTS m1, m2, d1
MCOutbounds == <<m1, m2>>
MCNetworks == <<"tcp", "udp">>
MCSupports(m) == IF m = m1 THEN {"tcp"} ELSE {"tcp", "udp"}
=============================================================================
