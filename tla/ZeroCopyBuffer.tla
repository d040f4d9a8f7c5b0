--------------------------- MODULE ZeroCopyBuffer ---------------------------
(***************************************************************************)
(* helpers::ZeroCopyBuffer: a block of memory with a position to read from *)
(* and a position to write at.  A producer fills the slice behind the      *)
(* write position and advances it; a consumer takes bytes by advancing the *)
(* read position.  A call that fails changes nothing.                      *)
(*                                                                         *)
(* Positions are usize values.  A build with overflow checks stops the     *)
(* caller when a sum does not fit; a release build, which the workspace's  *)
(* profile leaves without them, goes on with the wrapped one, past both    *)
(* bounds tests.                                                           *)
(***************************************************************************)
EXTENDS Integers, Sequences

CONSTANTS
  Bytes,       \* what a byte may hold
  Zero,        \* the byte of fresh memory
  Capacity,
  Modulus,     \* 2 to the width of a usize
  Counts,      \* the counts callers pass
  Checked      \* whether the build checks for overflow

ASSUME BufferAssumption ==
  /\ Zero \in Bytes
  /\ Capacity \in Nat /\ Modulus \in Nat /\ Capacity < Modulus
  /\ Counts \subseteq 0..(Modulus - 1)
  /\ Checked \in BOOLEAN

VARIABLES
  data, read_pos, write_pos,
  wrapped   \* history: which of "write" and "read" went on with a wrapped sum since the
            \* last reset

vars == <<data, read_pos, write_pos, wrapped>>

\* The sum of two usize values, where the build lets the caller go on with it.
Computes(sum) == Checked => sum < Modulus
usize(sum) == IF sum < Modulus THEN sum ELSE sum - Modulus

Note(side, sum) == wrapped' = IF sum < Modulus THEN wrapped ELSE wrapped \cup {side}

Init ==
  /\ data = [i \in 0..(Capacity - 1) |-> Zero]
  /\ read_pos = 0
  /\ write_pos = 0
  /\ wrapped = {}

\* Mutant: the slice starts at the read position.
write_sliceFromRead ==
  /\ \E filled \in [0..(Capacity - 1) -> Bytes] :
       /\ \A i \in 0..(read_pos - 1) : filled[i] = data[i]
       /\ data' = filled
  /\ UNCHANGED <<read_pos, write_pos, wrapped>>

\* The caller of write_slice stores what it likes in the slice.
write_slice ==
  /\ \E filled \in [0..(Capacity - 1) -> Bytes] :
       /\ \A i \in 0..(write_pos - 1) : filled[i] = data[i]
       /\ data' = filled
  /\ UNCHANGED <<read_pos, write_pos, wrapped>>

\* It panics when the reader is ahead of the writer.
read_slice == [i \in 1..(write_pos - read_pos) |-> data[read_pos + i - 1]]

advance_write(count) ==
  /\ Computes(write_pos + count)
  /\ usize(write_pos + count) <= Capacity
  /\ write_pos' = usize(write_pos + count)
  /\ Note("write", write_pos + count)
  /\ UNCHANGED <<data, read_pos>>

\* Mutant: reads are held to the capacity only.
advance_readPastWritten(count) ==
  /\ Computes(read_pos + count)
  /\ usize(read_pos + count) <= Capacity
  /\ read_pos' = usize(read_pos + count)
  /\ Note("read", read_pos + count)
  /\ UNCHANGED <<data, write_pos>>

advance_read(count) ==
  /\ Computes(read_pos + count)
  /\ usize(read_pos + count) <= write_pos
  /\ read_pos' = usize(read_pos + count)
  /\ Note("read", read_pos + count)
  /\ UNCHANGED <<data, write_pos>>

\* The bytes stay in memory.
reset ==
  /\ read_pos' = 0
  /\ write_pos' = 0
  /\ wrapped' = {}
  /\ UNCHANGED data

Next ==
  \/ write_slice
  \/ \E count \in Counts : advance_write(count) \/ advance_read(count)
  \/ reset

Spec == Init /\ [][Next]_vars

-----------------------------------------------------------------------------
(* Properties.                                                             *)

\* Types of the variables.
TypeOK ==
  /\ data \in [0..(Capacity - 1) -> Bytes]
  /\ read_pos \in Nat /\ write_pos \in Nat
  /\ wrapped \subseteq {"write", "read"}

\* In every build both positions stay in the memory, so that write_slice never panics nor
\* write_available wraps; and until the next reset only a wrapped advance_write lets the
\* reader get ahead of the writer, where read_slice panics and read_available wraps.
PositionsInOrder ==
  /\ write_pos <= Capacity /\ read_pos <= Capacity
  /\ read_pos > write_pos => "write" \in wrapped

\* No sum of a position and a count wraps.
NoWrap == Checked \/ \A count \in Counts : Capacity + count < Modulus

\* The buffer is a queue of bytes: what was written between the positions is read
\* once and in order, whatever is stored behind the write position meanwhile.  A sum that
\* wraps ends the promise, and a reset renews it.
promised == IF wrapped = {} THEN read_slice ELSE <<>>
Queue == INSTANCE ByteQueue WITH queue <- promised
ImplementsQueue == Queue!Spec
=============================================================================
