--------------------------- MODULE MCTunnelClient ---------------------------
(***************************************************************************)
(* Instances of TunnelClient for TLC.                                      *)
(***************************************************************************)
EXTENDS TunnelClient
=============================================================================
