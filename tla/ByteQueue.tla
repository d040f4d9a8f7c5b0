----------------------------- MODULE ByteQueue -----------------------------
(***************************************************************************)
(* What a byte buffer promises its users: what is put in comes out once,   *)
(* in order, and nothing else comes out.                                   *)
(***************************************************************************)
EXTENDS Integers, Sequences

VARIABLE queue   \* the bytes put in and not yet taken out

Init == queue = <<>>

\* Bytes are added at the back.
Put ==
  /\ Len(queue') >= Len(queue)
  /\ \A i \in 1..Len(queue) : queue'[i] = queue[i]

\* Bytes leave from the front, all of them when the buffer is reset.
Take == \E n \in 0..Len(queue) : queue' = SubSeq(queue, n + 1, Len(queue))

Spec == Init /\ [][Put \/ Take]_queue
=============================================================================
