----------------------------- MODULE MCPairing -----------------------------
(* A device with two addresses makes one offer. *)
EXTENDS Pairing

CONSTANTS s1, s2

MCHosts == <<"v6", "v4">>
MCSize == [s \in Scans |-> IF s = s1 THEN MaxTransfer - Overhead ELSE MaxTransfer - Overhead + 1]
=============================================================================
