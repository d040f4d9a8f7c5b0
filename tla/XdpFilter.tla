----------------------------- MODULE XdpFilter -----------------------------
(***************************************************************************)
(* The eBPF program of crates/xdp-ingest/bpf: it looks at a packet's       *)
(* headers, puts a description of every telemetry datagram in a ring       *)
(* buffer for user space, and passes the packet on in every case.          *)
(*                                                                         *)
(* The program reads the UDP header right behind 20 bytes of IP header.  A *)
(* packet with 4 bytes of IP options has them there, and its UDP source    *)
(* port where the program reads the datagram's length.  Nor does it read   *)
(* the fragment offset: behind the IP header of a datagram's later         *)
(* fragments there is payload, which the program takes for a UDP header.   *)
(***************************************************************************)
EXTENDS Integers, Sequences

CONSTANTS
  Sizes,        \* bytes from data to data_end
  Ports,        \* UDP ports
  Lengths,      \* values of the UDP length field
  OptionWords,  \* 16-bit words that 4 bytes of IP options may hold
  RingSize      \* records the ring buffer has room for

EDGE_TELEMETRY_UDP_PORT == 47821

VARIABLES
  ring,   \* records submitted and not yet consumed
  last    \* history: the packet handled last, or no packet

vars == <<ring, last>>

\* later says that a packet is a later fragment of a datagram.  source, dest and len are
\* what stands behind the IP header: ports and a length, or in a later fragment payload.
Packet == [size: Sizes, ip: BOOLEAN, udp: BOOLEAN, later: BOOLEAN,
           options: {<<>>} \cup (OptionWords \X OptionWords),
           source: Ports, dest: Ports, len: Lengths]

\* What stands where the program looks for the UDP header.
udph(p) ==
  IF p.options = <<>>
  THEN [source |-> p.source, dest |-> p.dest, len |-> p.len]
  ELSE [source |-> p.options[1], dest |-> p.options[2], len |-> p.source]

\* Mutant: a header that ends where the packet ends is taken for cut off.
MatchesShort(p) ==
  /\ p.size > 14 /\ p.ip
  /\ p.size > 34 /\ p.udp
  /\ p.size > 42 /\ udph(p).dest = EDGE_TELEMETRY_UDP_PORT

\* Ethernet, IP and UDP headers, each read only if the packet reaches its end.
Matches(p) ==
  /\ p.size >= 14 /\ p.ip
  /\ p.size >= 34 /\ p.udp
  /\ p.size >= 42 /\ udph(p).dest = EDGE_TELEMETRY_UDP_PORT

\* telemetry_meta: payload_len is a __u16.
Meta(p) ==
  [src_port |-> udph(p).source, dst_port |-> udph(p).dest,
   payload_len |-> (udph(p).len - 8) % 2 ^ 16]

Init == ring = <<>> /\ last = <<>>

\* A full ring costs the record; the packet goes on all the same.
xdp_filter_telemetry(p) ==
  /\ last' = p
  /\ ring' = IF Matches(p) /\ Len(ring) < RingSize THEN Append(ring, Meta(p)) ELSE ring

Consume ==
  /\ ring # <<>>
  /\ ring' = Tail(ring)
  /\ UNCHANGED last

Next == (\E p \in Packet : xdp_filter_telemetry(p)) \/ Consume

Spec == Init /\ [][Next]_vars

-----------------------------------------------------------------------------
(* Properties.                                                             *)

\* A UDP datagram for the telemetry port, or the first fragment of one.
IsTelemetry(p) ==
  /\ p.ip /\ p.udp /\ ~p.later /\ p.dest = EDGE_TELEMETRY_UDP_PORT
  /\ p.size >= (IF p.options = <<>> THEN 42 ELSE 46)

\* The UDP header is where the program looks for it.
HeaderInPlace(p) == p.options = <<>> /\ ~p.later

\* Among packets whose UDP header is in its place the filter is exact: a telemetry
\* datagram leaves a record of its source and of its payload's length unless the ring is
\* full, and nothing else leaves one.  The length of a datagram that claims less than a
\* UDP header wraps and is never taken for that of a small payload.  Of packets with IP
\* options and of later fragments it says nothing: they are judged by other bytes.
FilterExact ==
  [][last' # last /\ HeaderInPlace(last') =>
       IF IsTelemetry(last') /\ Len(ring) < RingSize
       THEN /\ Len(ring') = Len(ring) + 1
            /\ LET record == ring'[Len(ring')]
               IN  /\ record.src_port = last'.source
                   /\ IF last'.len >= 8
                      THEN record.payload_len = last'.len - 8
                      ELSE record.payload_len \in (2 ^ 16 - 8)..(2 ^ 16 - 1)
       ELSE ring' = ring]_vars

\* "Filters inbound edge telemetry frames on dedicated UDP port": with room in the
\* ring, exactly the telemetry datagrams leave a record.
FiltersTelemetry ==
  [][last' # last /\ Len(ring) < RingSize => (ring' # ring <=> IsTelemetry(last'))]_vars
=============================================================================
