--------------------------- MODULE MCPqcTransport ---------------------------
(* Small instances of PqcTransport for TLC. *)
EXTENDS PqcTransport, FiniteSets, TLC

CONSTANTS a, b, h1, h2, h3

MCNodes   == {a, b}
MCHandles == {h1, h2, h3}

\* A constraint on the states explored: three frames sealed among two sessions, two
\* among three; once the clock has moved, one frame sealed among two sessions.
SealedFrames ==
  {u \in Handles \X (1..3) : u[1] \in DOMAIN session /\ u[2] <= Len(sent[u[1]])}
ClockMoved == clock # 0 \/ \E h \in DOMAIN session : session[h].last_activity # 0
MCBounded ==
  /\ Cardinality(SealedFrames) <= IF Cardinality(DOMAIN session) = 3 THEN 2 ELSE 3
  /\ ClockMoved => Cardinality(SealedFrames) <= 1 /\ Cardinality(DOMAIN session) <= 2

Sym == Permutations(MCHandles) \cup Permutations(MCNodes)
=============================================================================
