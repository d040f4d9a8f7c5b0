------------------------------ MODULE MCIngest ------------------------------
(***************************************************************************)
(* Small instances for TLC of the two programs of crates/xdp-ingest and of *)
(* the zero-copy buffer of crates/helpers.  A behaviour is one of a single *)
(* part: nothing connects them in the source, so nothing is lost by not    *)
(* mixing them.                                                            *)
(***************************************************************************)
EXTENDS ZeroCopyBuffer

CONSTANTS FrameCounts, PacketBound, Sizes, Ports, OptionWords, Lengths, RingSize

\* A packet's length, a UDP length field (__u16), a number of UMEM frames, and bounds.
ASSUME IngestAssumption ==
  /\ Sizes \subseteq Nat /\ Lengths \subseteq 0..(2 ^ 16 - 1)
  /\ FrameCounts \subseteq Nat
  /\ PacketBound \in Nat /\ RingSize \in Nat

VARIABLES
  part,
  frame_count, running, seen, main, loop, packets_received, parsed,
  ring, last

daemon == <<frame_count, running, seen, main, loop, packets_received, parsed>>
filter == <<ring, last>>

Daemon == INSTANCE XdpDaemon
Filter == INSTANCE XdpFilter

MCInit ==
  /\ part \in {"daemon", "filter", "buffer"}
  /\ Init
  /\ Filter!Init
  /\ Daemon!Init
  /\ part # "daemon" => frame_count = 0

DaemonStep == part = "daemon" /\ UNCHANGED <<part, filter, vars>>

MCNext ==
  \/ Daemon!Next /\ DaemonStep
  \/ part = "filter" /\ Filter!Next /\ UNCHANGED <<part, daemon, vars>>
  \/ part = "buffer" /\ Next /\ UNCHANGED <<part, daemon, filter>>

MCVars == <<part, daemon, filter, vars>>

MCSpec ==
  /\ MCInit /\ [][MCNext]_MCVars
  /\ WF_MCVars(Daemon!Test /\ DaemonStep) /\ WF_MCVars(Daemon!Receive /\ DaemonStep)
  /\ WF_MCVars(Daemon!Exit /\ DaemonStep) /\ WF_MCVars(Daemon!Propagate /\ DaemonStep)

-----------------------------------------------------------------------------
(* The properties of the programs, under names a .cfg can cite.            *)

\* After a signal the daemon comes to its end (main joins the receive loop).
ShutdownCompletes == Daemon!ShutdownCompletes

\* The statistics main prints are final and count what was received (receive_loop).
FinalStatsAreFinal == Daemon!FinalStatsAreFinal

\* Without IP options and but for later fragments, exactly the telemetry datagrams leave
\* a right record (xdp_filter_telemetry).
FilterExact == Filter!FilterExact

\* With room in the ring, exactly the telemetry datagrams leave a record
\* (xdp_filter_telemetry).
FiltersTelemetry == Filter!FiltersTelemetry
=============================================================================
