-------------------------- MODULE MCTopologyRunner --------------------------
(***************************************************************************)
(* A message that is repeated once, as an exception asks for, or up to     *)
(* twice, as its node is set to, over every status code of HTTP and the    *)
(* two around the end of keepAll.  In the code an exception asks for 10    *)
(* hops.                                                                   *)
(***************************************************************************)
EXTENDS TopologyRunner

HttpStatuses == (100 .. 599) \cup {998, 999}
=============================================================================
