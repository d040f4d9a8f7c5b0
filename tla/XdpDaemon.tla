----------------------------- MODULE XdpDaemon -----------------------------
(***************************************************************************)
(* The af_xdp_daemon of crates/xdp-ingest: a blocking task that receives   *)
(* packets while a flag is up, and main, which waits for a signal, lowers  *)
(* the flag and joins the task.  The flag is an AtomicBool used Relaxed:   *)
(* the task sees the store late, though it does see it.  Reception is      *)
(* simulated in the code: one packet per round, through UMEM frame 0.      *)
(***************************************************************************)
EXTENDS Naturals, Sequences

CONSTANTS
  FrameCounts,   \* UMEM frame counts a ring size gives (0 for a ring below 2 KB)
  PacketBound    \* bound on the packets counted; later rounds leave the count alone

VARIABLES
  frame_count,  \* UMEM frames
  running,      \* the flag, as main stored it
  seen,         \* the flag, as the receive loop sees it
  main,         \* "waiting", "joining", "failed" or "exited"
  loop,         \* "test", "receive" or "stopped"
  packets_received,
  parsed        \* history: frame_id of every telemetry frame parsed

vars == <<frame_count, running, seen, main, loop, packets_received, parsed>>

Init ==
  /\ frame_count \in FrameCounts
  /\ running = TRUE /\ seen = TRUE
  /\ main = "waiting"
  /\ loop = "test"
  /\ packets_received = 0
  /\ parsed = <<>>

-----------------------------------------------------------------------------
(* receive_loop.                                                           *)

Test ==
  /\ loop = "test"
  /\ loop' = IF seen THEN "receive" ELSE "stopped"
  /\ UNCHANGED <<frame_count, running, seen, main, packets_received, parsed>>

\* A round counts a packet whether there was a UMEM frame to receive it or not.
Receive ==
  /\ loop = "receive"
  /\ IF packets_received < PacketBound
     THEN /\ parsed' = IF frame_count > 0 THEN Append(parsed, packets_received + 1) ELSE parsed
          /\ packets_received' = packets_received + 1
     ELSE UNCHANGED <<packets_received, parsed>>
  /\ loop' = "test"
  /\ UNCHANGED <<frame_count, running, seen, main>>

-----------------------------------------------------------------------------
(* main.                                                                   *)

\* Mutant: main goes on to join without lowering the flag.
SignalForgets ==
  /\ main = "waiting"
  /\ main' = "joining"
  /\ UNCHANGED <<frame_count, running, seen, loop, packets_received, parsed>>

Signal ==
  /\ main = "waiting"
  /\ running' = FALSE
  /\ main' = "joining"
  /\ UNCHANGED <<frame_count, seen, loop, packets_received, parsed>>

\* ctrl_c() fails: ? leaves main with the flag still up.
SignalFails ==
  /\ main = "waiting"
  /\ main' = "failed"
  /\ UNCHANGED <<frame_count, running, seen, loop, packets_received, parsed>>

\* Mutant: main does not wait for the task.
ExitUnjoined ==
  /\ main \in {"joining", "failed"}
  /\ main' = "exited"
  /\ UNCHANGED <<frame_count, running, seen, loop, packets_received, parsed>>

\* handle.await, or the runtime's drop, which waits for blocking tasks all the same.
Exit ==
  /\ main \in {"joining", "failed"}
  /\ loop = "stopped"
  /\ main' = "exited"
  /\ UNCHANGED <<frame_count, running, seen, loop, packets_received, parsed>>

Propagate ==
  /\ seen # running
  /\ seen' = running
  /\ UNCHANGED <<frame_count, running, main, loop, packets_received, parsed>>

Next == Test \/ Receive \/ Signal \/ SignalFails \/ Exit \/ Propagate

\* Both tasks are scheduled, and a store becomes visible; a signal need not come.
Spec == Init /\ [][Next]_vars /\ WF_vars(Test) /\ WF_vars(Receive) /\ WF_vars(Exit)
             /\ WF_vars(Propagate)
-----------------------------------------------------------------------------
(* Properties.                                                             *)

\* "Wait for receive loop to finish": after a signal the daemon comes to its end, by
\* whatever round the loop notices the flag.
ShutdownCompletes == main = "joining" ~> main = "exited"

\* The statistics main prints are final and count what was received: it has the socket
\* back from the task, which receives nothing any more, and by then every packet counted
\* made one telemetry frame, numbered in order from 1, or, without UMEM frames, none.
FinalStatsAreFinal ==
  [][/\ main = "exited" => UNCHANGED <<packets_received, parsed>>
     /\ main' = "exited" =>
          parsed' = [i \in 1..(IF frame_count > 0 THEN packets_received ELSE 0) |-> i]]_vars
=============================================================================
