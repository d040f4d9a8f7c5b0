--------------------------- MODULE ContextBuffer ---------------------------
(***************************************************************************)
(* The rolling context buffer of crates/common: frames oldest first, with  *)
(* a running byte count beside them.  A frame is its frame_id and the      *)
(* length of its payload.                                                  *)
(***************************************************************************)
EXTENDS Naturals, Sequences

CONSTANTS
  max_frames,   \* 100 in EdgeAgent::new
  max_bytes     \* 10 MiB in EdgeAgent::new

ASSUME CapsAssumption == max_frames \in Nat /\ max_bytes \in Nat

EmptyBuffer == [frames |-> <<>>, total_bytes |-> 0]

\* The payload bytes of a sequence of frames.
Bytes(frames) ==
  LET sum[n \in 0..Len(frames)] == IF n = 0 THEN 0 ELSE sum[n - 1] + frames[n].size
  IN  sum[Len(frames)]

SaturatingSub(x, y) == IF x >= y THEN x - y ELSE 0

\* Mutant: the youngest frames go first.
EvictYoungest(b, k) ==
  [frames      |-> SubSeq(b.frames, 1, Len(b.frames) - k),
   total_bytes |-> SaturatingSub(b.total_bytes,
                     Bytes(SubSeq(b.frames, Len(b.frames) - k + 1, Len(b.frames))))]

\* b after its k oldest frames are removed, one by one.
Evict(b, k) ==
  [frames      |-> SubSeq(b.frames, k + 1, Len(b.frames)),
   total_bytes |-> SaturatingSub(b.total_bytes, Bytes(SubSeq(b.frames, 1, k)))]

\* Mutant: the byte cap off by one.
FitsByteOff(b, f) == b.total_bytes + f.size < max_bytes /\ Len(b.frames) < max_frames

\* The conditions of both eviction loops are false.
Fits(b, f) == b.total_bytes + f.size <= max_bytes /\ Len(b.frames) < max_frames

\* The loops remove frames from the front until f fits by bytes, then until it fits by
\* frames, or until nothing is left.  Removing more undoes neither, so the two end after
\* as many removals as the first with which f fits by both.
Evictions(b, f) ==
  LET all == Len(b.frames)
  IN  CHOOSE k \in 0..all :
        /\ k = all \/ Fits(Evict(b, k), f)
        /\ \A j \in 0..(k - 1) : ~Fits(Evict(b, j), f)

push(b, f) ==
  LET room == Evict(b, Evictions(b, f))
  IN  [frames |-> Append(room.frames, f), total_bytes |-> room.total_bytes + f.size]

\* Mutant: the byte count is not reset.
clearKeepsBytes(b) == [frames |-> <<>>, total_bytes |-> b.total_bytes]

clear(b) == EmptyBuffer
=============================================================================
