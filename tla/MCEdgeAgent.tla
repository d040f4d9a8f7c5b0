---------------------------- MODULE MCEdgeAgent ----------------------------
(* Small instances of EdgeAgent for TLC. *)
EXTENDS EdgeAgent

Q(latency, loss, jitter) == [latency |-> latency, loss |-> loss, jitter |-> jitter]

\* Every threshold from both sides, each mode.
MCQualities ==
  {Q(0, 0, 0), Q(200, 5, 50), Q(201, 5, 50), Q(200, 6, 50), Q(200, 5, 51),
   Q(5000, 50, 0), Q(5001, 0, 0), Q(0, 51, 0)}

MCMonitors == {"m1"}
=============================================================================
