---------------------------- MODULE MCDNSClient ----------------------------
(* A small instance of DNSClient for TLC. *)
EXTENDS DNSClient

CONSTANTS r1, r2, r3

\* The transport of r1 resolves its own server with r3.
MCParent(r) == IF r = r3 THEN r1 ELSE None
=============================================================================
