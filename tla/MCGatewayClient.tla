--------------------------- MODULE MCGatewayClient ---------------------------
(* Small instances of GatewayClient for TLC.                                 *)
EXTENDS GatewayClient, TLC

MCSymmetry == Permutations(Guilds) \cup Permutations(Senders)
=============================================================================
