--------------------------- MODULE MCGatewayMain ---------------------------
(* A small instance of GatewayMain for TLC. *)
EXTENDS GatewayMain

MCMainFrame == [frame_id |-> 1, source_ip |-> "edge-1"]
=============================================================================
