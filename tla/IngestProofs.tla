---------------------------- MODULE IngestProofs ----------------------------
(***************************************************************************)
(* Proofs about the parts that MCIngest puts together: the zero-copy       *)
(* buffer, for any capacity, width of a usize and bytes, the AF_XDP        *)
(* daemon, for any UMEM, and the eBPF filter, for any packets and ring.    *)
(* Those of the buffer hold of builds that check for overflow and of       *)
(* builds that go on with a wrapped sum.                                   *)
(***************************************************************************)
EXTENDS MCIngest, SequenceTheorems, TLAPS

-----------------------------------------------------------------------------
(* The buffer keeps its positions.                                         *)

Inv == TypeOK /\ PositionsInOrder

\* A sum is a usize, and it is that of the numbers unless the call is noted.
LEMMA Sums ==
  ASSUME NEW pos \in 0..Capacity, NEW count \in Counts, NEW side \in {"write", "read"},
         wrapped \subseteq {"write", "read"}, Note(side, pos + count)
  PROVE  /\ usize(pos + count) \in Nat /\ count \in Nat
         /\ wrapped' \subseteq {"write", "read"} /\ wrapped \subseteq wrapped'
         /\ side \in wrapped' \/ (usize(pos + count) = pos + count /\ wrapped' = wrapped)
BY BufferAssumption DEF usize, Note

LEMMA InitInv == Init => Inv
BY BufferAssumption DEF Init, Inv, TypeOK, PositionsInOrder

\* Every operation keeps the positions in the memory, and but for a wrapped advance_write
\* in order.
LEMMA NextInv ==
  ASSUME Inv, [Next]_vars
  PROVE  Inv'
<1>0. /\ data \in [0..(Capacity - 1) -> Bytes]
      /\ read_pos \in 0..Capacity /\ write_pos \in 0..Capacity /\ Capacity \in Nat
      /\ wrapped \subseteq {"write", "read"}
      /\ read_pos > write_pos => "write" \in wrapped
  BY BufferAssumption DEF Inv, TypeOK, PositionsInOrder
<1>1. CASE write_slice
  BY <1>1 DEF write_slice, Inv, TypeOK, PositionsInOrder
<1>2. ASSUME NEW count \in Counts, advance_write(count)
      PROVE  Inv'
  <2>1. /\ usize(write_pos + count) \in Nat /\ count \in Nat
        /\ wrapped' \subseteq {"write", "read"} /\ wrapped \subseteq wrapped'
        /\ \/ "write" \in wrapped'
           \/ usize(write_pos + count) = write_pos + count /\ wrapped' = wrapped
    BY <1>0, <1>2, Sums DEF advance_write
  <2>2. /\ write_pos' = usize(write_pos + count) /\ write_pos' <= Capacity
        /\ UNCHANGED <<data, read_pos>>
    BY <1>2 DEF advance_write
  <2>3. read_pos' > write_pos' => "write" \in wrapped'
    BY <1>0, <2>1, <2>2
  <2>. QED
    BY <1>0, <2>1, <2>2, <2>3 DEF Inv, TypeOK, PositionsInOrder
<1>3. ASSUME NEW count \in Counts, advance_read(count)
      PROVE  Inv'
  <2>1. /\ usize(read_pos + count) \in Nat
        /\ wrapped' \subseteq {"write", "read"}
    BY <1>0, <1>3, Sums DEF advance_read
  <2>2. /\ read_pos' = usize(read_pos + count) /\ read_pos' <= write_pos
        /\ UNCHANGED <<data, write_pos>>
    BY <1>3 DEF advance_read
  <2>3. read_pos' <= Capacity /\ ~(read_pos' > write_pos')
    BY <1>0, <2>1, <2>2
  <2>. QED
    BY <1>0, <2>1, <2>2, <2>3 DEF Inv, TypeOK, PositionsInOrder
<1>4. CASE reset
  BY <1>4, BufferAssumption DEF reset, Inv, TypeOK, PositionsInOrder
<1>5. CASE UNCHANGED vars
  BY <1>5 DEF vars, Inv, TypeOK, PositionsInOrder
<1>. QED
  BY <1>1, <1>2, <1>3, <1>4, <1>5 DEF Next

\* Whether the build wraps or not, both positions stay in the memory, and the reader is
\* ahead of the writer only after an advance_write that wrapped, until the next reset.
THEOREM BufferSafe == Spec => [](TypeOK /\ PositionsInOrder)
<1>1. Inv /\ [Next]_vars => Inv'
  BY NextInv
<1>. QED
  BY InitInv, <1>1, PTL DEF Spec, Inv

\* In a build that checks for overflow, and with counts too small to overflow in any,
\* no call goes on with a wrapped sum: the reader is never ahead of the writer.
THEOREM InOrderUnlessWrapping ==
  ASSUME NoWrap
  PROVE  Spec => [](wrapped = {} /\ read_pos <= write_pos)
<1>. DEFINE none == wrapped = {}
<1>1. Init => none
  BY DEF Init
<1>2. ASSUME Inv, none, [Next]_vars PROVE none'
  <2>0. /\ read_pos \in 0..Capacity /\ write_pos \in 0..Capacity
    BY <1>2, BufferAssumption DEF Inv, TypeOK, PositionsInOrder
  <2>1. ASSUME NEW pos \in 0..Capacity, NEW count \in Counts, NEW side,
               Computes(pos + count), Note(side, pos + count)
        PROVE  none'
    BY <1>2, <2>1, NoWrap, BufferAssumption DEF NoWrap, Computes, Note
  <2>2. ASSUME NEW count \in Counts, advance_write(count) PROVE none'
    BY <2>0, <2>1, <2>2 DEF advance_write
  <2>3. ASSUME NEW count \in Counts, advance_read(count) PROVE none'
    BY <2>0, <2>1, <2>3 DEF advance_read
  <2>. QED
    BY <1>2, <2>2, <2>3 DEF Next, write_slice, reset, vars
<1>3. Inv /\ none => wrapped = {} /\ read_pos <= write_pos
  BY BufferAssumption DEF Inv, TypeOK, PositionsInOrder
<1>4. Spec => []Inv
  BY BufferSafe DEF Inv
<1>. QED
  BY <1>1, <1>2, <1>3, <1>4, PTL DEF Spec

-----------------------------------------------------------------------------
(* The buffer implements the queue.                                        *)

\* While nothing wrapped the positions are in order.
InOrder == Inv /\ wrapped = {}

\* What is added at the back of s, or taken from its front, makes t of it.
Puts(s, t)  == Len(t) >= Len(s) /\ \A i \in 1..Len(s) : t[i] = s[i]
Takes(s, t) == \E n \in 0..Len(s) : t = SubSeq(s, n + 1, Len(s))

\* A call that leaves wrapped empty went on with the sum of the numbers.
LEMMA Exact ==
  ASSUME NEW pos \in 0..Capacity, NEW count \in Counts, NEW side,
         wrapped' = {}, Note(side, pos + count)
  PROVE  usize(pos + count) = pos + count /\ count \in Nat
BY BufferAssumption DEF usize, Note

\* The bytes between two positions in order.
LEMMA Slice ==
  ASSUME NEW d \in [0..(Capacity - 1) -> Bytes],
         NEW r \in 0..Capacity, NEW w \in 0..Capacity, r <= w,
         NEW s, s = [i \in 1..(w - r) |-> d[r + i - 1]]
  PROVE  /\ s \in Seq(Bytes)
         /\ Len(s) = w - r
         /\ \A i \in 1..(w - r) : s[i] = d[r + i - 1]
<1>1. w - r \in Nat
  BY BufferAssumption
<1>2. s \in [1..(w - r) -> Bytes]
  BY BufferAssumption
<1> QED
  BY <1>1, <1>2

\* What read_slice is while the positions are in order.
LEMMA ReadSlice ==
  ASSUME InOrder
  PROVE  /\ read_slice \in Seq(Bytes)
         /\ Len(read_slice) = write_pos - read_pos
         /\ \A i \in 1..(write_pos - read_pos) : read_slice[i] = data[read_pos + i - 1]
<1> DEFINE s == read_slice
<1>1. s = [i \in 1..(write_pos - read_pos) |-> data[read_pos + i - 1]]
  BY DEF read_slice
<1> HIDE DEF s
<1>2. /\ s \in Seq(Bytes)
      /\ Len(s) = write_pos - read_pos
      /\ \A i \in 1..(write_pos - read_pos) : s[i] = data[read_pos + i - 1]
  BY <1>1, Slice, BufferAssumption DEF InOrder, Inv, TypeOK, PositionsInOrder
<1> QED
  BY <1>2 DEF s

\* The same of the next state.
LEMMA ReadSliceNext ==
  ASSUME InOrder'
  PROVE  /\ read_slice' \in Seq(Bytes)
         /\ Len(read_slice') = write_pos' - read_pos'
         /\ \A i \in 1..(write_pos' - read_pos') : read_slice'[i] = data'[read_pos' + i - 1]
<1> DEFINE s == read_slice'
<1>1. s = [i \in 1..(write_pos' - read_pos') |-> data'[read_pos' + i - 1]]
  BY DEF read_slice
<1> HIDE DEF s
<1>0. /\ data' \in [0..(Capacity - 1) -> Bytes]
      /\ read_pos' \in 0..Capacity /\ write_pos' \in 0..Capacity /\ read_pos' <= write_pos'
  BY BufferAssumption DEF InOrder, Inv, TypeOK, PositionsInOrder
<1>2. /\ s \in Seq(Bytes)
      /\ Len(s) = write_pos' - read_pos'
      /\ \A i \in 1..(write_pos' - read_pos') : s[i] = data'[read_pos' + i - 1]
  BY <1>0, <1>1, Slice
<1> QED
  BY <1>2 DEF s

\* A sequence whose elements are those of s from place n + 1 on is that suffix.
LEMMA SuffixIs ==
  ASSUME NEW S, NEW s \in Seq(S), NEW t \in Seq(S), NEW n \in 0..Len(s),
         Len(t) = Len(s) - n, \A i \in 1..Len(t) : t[i] = s[n + i]
  PROVE  t = SubSeq(s, n + 1, Len(s))
<1> DEFINE u == SubSeq(s, n + 1, Len(s))
<1>1. Len(s) \in Nat /\ Len(t) \in Nat
  BY LenProperties
<1>2. u \in Seq(S) /\ Len(u) = Len(s) - n /\ \A i \in 1..(Len(s) - n) : u[i] = s[n + i]
  BY <1>1, SubSeqProperties
<1> HIDE DEF u
<1>3. Len(t) = Len(u) /\ \A i \in 1..Len(t) : t[i] = u[i]
  BY <1>2
<1>4. t = u
  BY <1>2, <1>3, SeqEqual
<1> QED
  BY <1>4 DEF u

\* Bytes behind the write position are no part of the queue.
LEMMA WriteSliceStutters ==
  ASSUME InOrder, write_slice
  PROVE  read_slice' = read_slice
<1>1. PICK filled \in [0..(Capacity - 1) -> Bytes] :
        /\ \A i \in 0..(write_pos - 1) : filled[i] = data[i]
        /\ data' = filled
  BY DEF write_slice
<1>2. \A i \in 1..(write_pos - read_pos) : data'[read_pos + i - 1] = data[read_pos + i - 1]
  BY <1>1 DEF InOrder, Inv, TypeOK, PositionsInOrder
<1> QED
  BY <1>2 DEF write_slice, read_slice

\* Advancing the write position puts bytes at the back.
LEMMA AdvanceWritePuts ==
  ASSUME InOrder, InOrder', NEW count \in Counts, advance_write(count)
  PROVE  Puts(read_slice, read_slice')
<1>1. read_pos \in 0..Capacity /\ write_pos \in 0..Capacity /\ read_pos <= write_pos
  BY BufferAssumption DEF InOrder, Inv, TypeOK, PositionsInOrder
<1>2. write_pos' = write_pos + count /\ count \in Nat /\ UNCHANGED <<data, read_pos>>
  BY <1>1, Exact DEF advance_write, InOrder
<1>3. Len(read_slice') = write_pos' - read_pos'
      /\ \A i \in 1..(write_pos' - read_pos') : read_slice'[i] = data'[read_pos' + i - 1]
  BY ReadSliceNext
<1>4. Len(read_slice) = write_pos - read_pos
      /\ \A i \in 1..(write_pos - read_pos) : read_slice[i] = data[read_pos + i - 1]
  BY ReadSlice
<1>. QED
  <2>. DEFINE s == read_slice
              t == read_slice'
  <2>1. Puts(s, t) <=> (Len(t) >= Len(s) /\ \A i \in 1..Len(s) : t[i] = s[i])
    BY DEF Puts
  <2>. HIDE DEF s, t
  <2>2. Len(t) >= Len(s) /\ \A i \in 1..Len(s) : t[i] = s[i]
    BY <1>1, <1>2, <1>3, <1>4 DEF s, t
  <2>. QED
    BY <2>1, <2>2 DEF s, t

\* Advancing the read position takes bytes from the front.
LEMMA AdvanceReadTakes ==
  ASSUME InOrder, InOrder', NEW count \in Counts, advance_read(count)
  PROVE  Takes(read_slice, read_slice')
<1>. DEFINE s == read_slice
            t == read_slice'
<1>1. read_pos \in 0..Capacity /\ write_pos \in 0..Capacity /\ read_pos <= write_pos
  BY BufferAssumption DEF InOrder, Inv, TypeOK, PositionsInOrder
<1>2. /\ read_pos' = read_pos + count /\ read_pos + count <= write_pos /\ count \in Nat
      /\ UNCHANGED <<data, write_pos>>
  BY <1>1, Exact DEF advance_read, InOrder
<1>3. /\ t \in Seq(Bytes) /\ Len(t) = write_pos' - read_pos'
      /\ \A i \in 1..(write_pos' - read_pos') : t[i] = data'[read_pos' + i - 1]
  BY ReadSliceNext
<1>4. /\ s \in Seq(Bytes) /\ Len(s) = write_pos - read_pos
      /\ \A i \in 1..(write_pos - read_pos) : s[i] = data[read_pos + i - 1]
  BY ReadSlice
<1>5. count \in 0..Len(s) /\ Len(t) = Len(s) - count
      /\ \A i \in 1..Len(t) : t[i] = s[count + i]
  <2>. HIDE DEF s, t
  <2>. QED BY <1>1, <1>2, <1>3, <1>4
<1>6. t = SubSeq(s, count + 1, Len(s))
  <2>. HIDE DEF s, t
  <2>. QED BY <1>3, <1>4, <1>5, SuffixIs
<1>. QED
  BY <1>5, <1>6 DEF Takes

\* Every byte may be taken at once.
LEMMA AllTaken ==
  ASSUME NEW s \in Seq(Bytes), NEW t \in Seq(Bytes), Len(t) = 0
  PROVE  Takes(s, t)
<1>1. Len(s) \in Nat
  BY LenProperties
<1>2. t = SubSeq(s, Len(s) + 1, Len(s))
  BY <1>1, SuffixIs
<1>. QED
  BY <1>1, <1>2 DEF Takes

\* In every build the buffer is a queue of bytes until a sum wraps, and again from the
\* next reset on: what is written is read once and in order, whatever the producer stores
\* meanwhile.
THEOREM BufferIsQueue == Spec => ImplementsQueue
<1>1. Init => Queue!Init
  BY DEF Init, Queue!Init, promised, read_slice
<1>2. Inv /\ Inv' /\ [Next]_vars => [Queue!Put \/ Queue!Take]_promised
  <2>. SUFFICES ASSUME Inv, Inv', [Next]_vars
                PROVE  Puts(promised, promised') \/ Takes(promised, promised')
                       \/ promised' = promised
    BY DEF Queue!Put, Queue!Take, Puts, Takes
  <2>1. CASE wrapped = {} /\ wrapped' = {}
    <3>0. InOrder /\ InOrder' /\ promised = read_slice /\ promised' = read_slice'
      BY <2>1 DEF InOrder, promised
    <3>1. CASE write_slice
      BY <3>0, <3>1, WriteSliceStutters
    <3>2. ASSUME NEW count \in Counts, advance_write(count)
          PROVE  Puts(promised, promised')
      BY <3>0, <3>2, AdvanceWritePuts
    <3>3. ASSUME NEW count \in Counts, advance_read(count)
          PROVE  Takes(promised, promised')
      BY <3>0, <3>3, AdvanceReadTakes
    <3>4. CASE reset
      <4>1. read_slice' \in Seq(Bytes) /\ Len(read_slice') = 0
        BY <3>0, <3>4, ReadSliceNext DEF reset
      <4>. QED
        BY <3>0, <4>1, ReadSlice, AllTaken
    <3>5. CASE UNCHANGED vars
      BY <3>0, <3>5 DEF vars, read_slice
    <3>. QED
      BY <3>1, <3>2, <3>3, <3>4, <3>5 DEF Next
  <2>2. CASE wrapped = {} /\ wrapped' # {}
    <3>1. promised = read_slice /\ promised' = <<>> /\ InOrder
      BY <2>2 DEF promised, InOrder
    <3>2. Takes(read_slice, <<>>)
      <4>1. <<>> \in Seq(Bytes) /\ Len(<<>>) = 0
        OBVIOUS
      <4>. QED
        BY <3>1, <4>1, ReadSlice, AllTaken
    <3>. QED
      BY <3>1, <3>2
  <2>3. CASE wrapped # {} /\ wrapped' # {}
    BY <2>3 DEF promised
  <2>4. CASE wrapped # {} /\ wrapped' = {}
    <3>1. reset
      BY <2>4 DEF Next, write_slice, advance_write, advance_read, Note, vars
    <3>2. promised = <<>> /\ promised' = read_slice' /\ InOrder'
      BY <2>4 DEF promised, InOrder
    <3>3. read_slice' \in Seq(Bytes) /\ Len(read_slice') = 0
      BY <3>1, <3>2, ReadSliceNext DEF reset
    <3>. QED
      BY <3>2, <3>3
  <2>. QED
    BY <2>1, <2>2, <2>3, <2>4
<1>3. Spec => []Inv
  BY BufferSafe DEF Inv
<1>. QED
  BY <1>1, <1>2, <1>3, PTL DEF Spec, ImplementsQueue, Queue!Spec

-----------------------------------------------------------------------------
(* The AF_XDP daemon.                                                      *)

\* The numbers from 1 to n.
Count(n) == [i \in 1..n |-> i]

LEMMA CountNext ==
  ASSUME NEW n \in Nat
  PROVE  Append(Count(n), n + 1) = Count(n + 1)
<1>1. Count(n) \in Seq(Nat) /\ Len(Count(n)) = n /\ \A i \in 1..n : Count(n)[i] = i
  BY DEF Count
<1>2. PICK s : s = Append(Count(n), n + 1)
  OBVIOUS
<1>3. /\ s \in Seq(Nat) /\ Len(s) = n + 1 /\ s[n + 1] = n + 1
      /\ \A i \in 1..n : s[i] = i
  BY <1>1, <1>2
<1>4. \A i \in 1..(n + 1) : s[i] = i
  BY <1>3
<1>5. s = [i \in 1..(n + 1) |-> s[i]]
  BY <1>3
<1>. QED
  BY <1>2, <1>4, <1>5 DEF Count

\* Packets and telemetry frames go together, and main ends after the receive loop.
DaemonInv ==
  /\ frame_count \in Nat /\ packets_received \in Nat
  /\ frame_count > 0 => parsed = Count(packets_received)
  /\ frame_count = 0 => parsed = <<>>
  /\ main = "exited" => loop = "stopped"

LEMMA DaemonInit == Daemon!Init => DaemonInv
<1>. SUFFICES ASSUME Daemon!Init PROVE DaemonInv
  OBVIOUS
<1>1. Count(0) = <<>>
  BY DEF Count
<1>2. frame_count \in Nat /\ 0 \in Nat /\ main # "exited"
  BY IngestAssumption DEF Daemon!Init
<1>. QED
  BY <1>1, <1>2, Zenon DEF Daemon!Init, DaemonInv

LEMMA DaemonNext == DaemonInv /\ [Daemon!Next]_daemon => DaemonInv'
<1>. SUFFICES ASSUME DaemonInv, [Daemon!Next]_daemon PROVE DaemonInv'
  OBVIOUS
<1>1. CASE Daemon!Receive
  <2>1. /\ UNCHANGED <<frame_count, main>>
        /\ loop = "receive"
        /\ \/ UNCHANGED <<packets_received, parsed>>
           \/ /\ packets_received' = packets_received + 1
              /\ parsed' = IF frame_count > 0 THEN Append(parsed, packets_received + 1)
                                              ELSE parsed
    BY <1>1 DEF Daemon!Receive
  <2>2. main' # "exited"
    BY <2>1 DEF DaemonInv
  <2>3. Append(Count(packets_received), packets_received + 1) = Count(packets_received + 1)
    BY CountNext DEF DaemonInv
  <2>. QED
    BY <2>1, <2>2, <2>3 DEF DaemonInv
<1>2. ASSUME UNCHANGED <<frame_count, packets_received, parsed>>,
             main' = "exited" => loop' = "stopped"
      PROVE  DaemonInv'
  BY <1>2 DEF DaemonInv
<1>3. CASE Daemon!Test
  BY <1>2, <1>3 DEF Daemon!Test, DaemonInv
<1>. QED
  BY <1>1, <1>2, <1>3
     DEF Daemon!Next, Daemon!Signal, Daemon!SignalFails, Daemon!Exit, Daemon!Propagate,
         daemon, DaemonInv

\* Whenever the signal comes and however late the loop sees the flag, the statistics
\* main prints are final and count what receive_loop received.
THEOREM StatsFinal == Daemon!Spec => FinalStatsAreFinal
<1>. DEFINE final ==
       /\ main = "exited" => UNCHANGED <<packets_received, parsed>>
       /\ main' = "exited" =>
            parsed' = [i \in 1..(IF frame_count > 0 THEN packets_received ELSE 0) |-> i]
<1>1. DaemonInv /\ DaemonInv' /\ [Daemon!Next]_daemon => [final]_daemon
  <2>. SUFFICES ASSUME DaemonInv, DaemonInv', Daemon!Next PROVE final
    OBVIOUS
  <2>1. main = "exited" \/ main' = "exited" => UNCHANGED <<frame_count, packets_received, parsed>>
    BY DEF DaemonInv, Daemon!Next, Daemon!Test, Daemon!Receive, Daemon!Signal,
           Daemon!SignalFails, Daemon!Exit, Daemon!Propagate
  <2>2. parsed = [i \in 1..(IF frame_count > 0 THEN packets_received ELSE 0) |-> i]
    <3>1. CASE frame_count > 0
      BY <3>1 DEF DaemonInv, Count
    <3>2. CASE frame_count = 0
      BY <3>2 DEF DaemonInv
    <3>. QED
      BY <3>1, <3>2 DEF DaemonInv
  <2>. QED
    BY <2>1, <2>2
<1>2. Daemon!Spec => []DaemonInv
  BY DaemonInit, DaemonNext, PTL DEF Daemon!Spec, Daemon!vars, daemon
<1>. QED
  BY <1>1, <1>2, PTL DEF FinalStatsAreFinal, Daemon!FinalStatsAreFinal, Daemon!Spec,
                         Daemon!vars, daemon

-----------------------------------------------------------------------------
(* The eBPF filter.                                                        *)

\* A 16-bit length less eight.
LEMMA LessHeader ==
  ASSUME NEW l \in Nat, l < 65536
  PROVE  IF l >= 8 THEN (l - 8) % 65536 = l - 8
         ELSE (l - 8) % 65536 \in (2 ^ 16 - 8)..(2 ^ 16 - 1)
<1>1. CASE l >= 8
  BY <1>1
<1>2. CASE l < 8
  <2>1. (l - 8) % 65536 = l + 65528
    BY <1>2
  <2>2. (l - 8) % 65536 >= 2 ^ 16 - 8 /\ (l - 8) % 65536 <= 2 ^ 16 - 1
    BY <1>2
  <2>3. (l - 8) % 65536 \in (2 ^ 16 - 8)..(2 ^ 16 - 1)
    BY <1>2, <2>1, <2>2
  <2>. QED
    BY <1>2, <2>3
<1>. QED
  BY <1>1, <1>2

Records == {Filter!Meta(p) : p \in Filter!Packet}

\* Every packet whose UDP header is where the filter looks for it leaves the right record
\* or none.
THEOREM FilterRecords == Filter!Spec => FilterExact
<1>. DEFINE exact ==
       last' # last /\ Filter!HeaderInPlace(last') =>
         IF Filter!IsTelemetry(last') /\ Len(ring) < RingSize
         THEN /\ Len(ring') = Len(ring) + 1
              /\ LET record == ring'[Len(ring')]
                 IN  /\ record.src_port = last'.source
                     /\ IF last'.len >= 8
                        THEN record.payload_len = last'.len - 8
                        ELSE record.payload_len \in (2 ^ 16 - 8)..(2 ^ 16 - 1)
         ELSE ring' = ring
<1>1. Filter!Init => ring \in Seq(Records)
  BY DEF Filter!Init
<1>2. ring \in Seq(Records) /\ [Filter!Next]_filter => (ring \in Seq(Records))'
  BY DEF Filter!Next, Filter!xdp_filter_telemetry, Filter!Consume, Records, filter
<1>3. ring \in Seq(Records) /\ [Filter!Next]_filter => [exact]_filter
  <2>. SUFFICES ASSUME ring \in Seq(Records), Filter!Next, last' # last,
                       Filter!HeaderInPlace(last')
                PROVE  exact
    OBVIOUS
  <2>1. PICK p \in Filter!Packet : Filter!xdp_filter_telemetry(p)
    BY DEF Filter!Next, Filter!Consume
  <2>2. /\ last' = p /\ p.options = <<>> /\ ~p.later
        /\ ring' = IF Filter!Matches(p) /\ Len(ring) < RingSize
                   THEN Append(ring, Filter!Meta(p)) ELSE ring
    BY <2>1 DEF Filter!xdp_filter_telemetry, Filter!HeaderInPlace
  <2>3. p.size \in Nat /\ p.len \in Nat /\ p.len < 65536
    <3>1. p.size \in Sizes /\ p.len \in Lengths
      BY DEF Filter!Packet
    <3>2. p.size \in Nat /\ p.len \in 0..(2 ^ 16 - 1)
      BY <3>1, IngestAssumption
    <3>3. 2 ^ 16 = 65536
      OBVIOUS
    <3>. QED
      BY <3>2, <3>3
  <2>4. Filter!udph(p).source = p.source /\ Filter!udph(p).dest = p.dest
        /\ Filter!udph(p).len = p.len
    BY <2>2, Zenon DEF Filter!udph
  <2>5. Filter!Matches(p) <=> Filter!IsTelemetry(p)
    <3>1. p.size >= 42 => p.size >= 14 /\ p.size >= 34
      BY <2>3
    <3>. QED
      BY <2>2, <2>4, <3>1, Zenon DEF Filter!Matches, Filter!IsTelemetry
  <2>6. /\ Filter!Meta(p).src_port = p.source
        /\ IF p.len >= 8 THEN Filter!Meta(p).payload_len = p.len - 8
           ELSE Filter!Meta(p).payload_len \in (2 ^ 16 - 8)..(2 ^ 16 - 1)
    <3>1. Filter!Meta(p).src_port = p.source
      BY <2>4 DEF Filter!Meta
    <3>2. Filter!Meta(p).payload_len = (p.len - 8) % 65536
      <4>1. 2 ^ 16 = 65536
        OBVIOUS
      <4>. QED
        BY <2>4, <4>1 DEF Filter!Meta
    <3>3. PICK n : n = Filter!Meta(p).payload_len
      OBVIOUS
    <3>4. IF p.len >= 8 THEN n = p.len - 8 ELSE n \in (2 ^ 16 - 8)..(2 ^ 16 - 1)
      <4>1. IF p.len >= 8 THEN (p.len - 8) % 65536 = p.len - 8
            ELSE (p.len - 8) % 65536 \in (2 ^ 16 - 8)..(2 ^ 16 - 1)
        BY <2>3, LessHeader
      <4>. QED
        BY <2>3, <3>2, <3>3, <4>1
    <3>. QED
      BY <3>1, <3>3, <3>4, SMT
  <2>7. Filter!Meta(p) \in Records
    BY DEF Records
  <2>8. PICK r : r = Filter!Meta(p)
    OBVIOUS
  <2>9. CASE Filter!IsTelemetry(p) /\ Len(ring) < RingSize
    <3>1. ring' = Append(ring, r) /\ r \in Records
      BY <2>2, <2>5, <2>7, <2>8, <2>9
    <3>2. Len(ring') = Len(ring) + 1 /\ ring'[Len(ring')] = r
      BY <3>1
    <3>. QED
      BY <2>2, <2>6, <2>8, <2>9, <3>2
  <2>10. CASE ~ (Filter!IsTelemetry(p) /\ Len(ring) < RingSize)
    BY <2>2, <2>5, <2>10
  <2>. QED
    BY <2>9, <2>10
<1>. QED
  BY <1>1, <1>2, <1>3, PTL DEF FilterExact, Filter!FilterExact, Filter!Spec,
                               Filter!vars, filter
=============================================================================
