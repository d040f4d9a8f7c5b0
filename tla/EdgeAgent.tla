----------------------------- MODULE EdgeAgent -----------------------------
(***************************************************************************)
(* The edge agent of crates/edge-agent: a mode driven by network quality,  *)
(* frames buffered and routed by mode, and the monitoring threads that     *)
(* start_monitoring spawns and stop() is meant to end.  The agent itself   *)
(* is owned by one thread (&mut self); running is shared with the monitors *)
(* and with whoever start_monitoring returned it to.                       *)
(***************************************************************************)
EXTENDS Naturals, Sequences, FiniteSets, ContextBuffer

CONSTANTS
  Qualities,      \* network measurements: [latency, loss, jitter]
  Sizes,          \* payload lengths of incoming frames
  Monitors,       \* identities of monitoring threads, and the bound on them
  FrameBound,     \* bound on the frames processed
  UpdateBound     \* bound on the mode transitions and on the probes

Quality == [latency: Nat, loss: Nat, jitter: Nat]

ASSUME InputsAssumption == Qualities \subseteq Quality /\ Sizes \subseteq Nat
ASSUME BoundsAssumption == FrameBound \in Nat /\ UpdateBound \in Nat

VARIABLES
  mode, last_mode, network_quality, context_buffer, frame_counter, stats,
  running,      \* Arc<Mutex<bool>>, shared with the monitoring threads and their starters
  monitor,      \* where each monitoring thread is
  stopped,      \* history: running was lowered, and not raised since
  sizes,        \* history: the sizes of the frames processed
  flushed,      \* history: frame_counter when the buffer was last cleared
  cloud         \* history: ids of the frames the cloud backend was given

agent == <<mode, last_mode, network_quality, context_buffer, frame_counter, stats,
           sizes, flushed, cloud>>
threads == <<running, monitor, stopped>>
vars == <<agent, threads>>

Modes == {"Online", "Degraded", "Offline", "Transitioning"}

-----------------------------------------------------------------------------
(* Network quality.                                                        *)

is_degraded(q) == q.latency > 200 \/ q.loss > 5 \/ q.jitter > 50
is_offline(q)  == q.latency > 5000 \/ q.loss > 50

determine_mode(q) ==
  IF is_offline(q) THEN "Offline" ELSE IF is_degraded(q) THEN "Degraded" ELSE "Online"

Perfect == [latency |-> 0, loss |-> 0, jitter |-> 0]

-----------------------------------------------------------------------------
Init ==
  /\ mode = "Online"
  /\ last_mode = "Online"
  /\ network_quality = Perfect
  /\ context_buffer = EmptyBuffer
  /\ frame_counter = 0
  /\ stats = [frames_processed |-> 0, cloud_offloads |-> 0, local_inferences |-> 0,
              mode_transitions |-> 0, probe_count |-> 0]
  /\ running = FALSE
  /\ monitor = [m \in Monitors |-> "none"]
  /\ stopped = FALSE
  /\ sizes = <<>>
  /\ flushed = 0
  /\ cloud = {}

\* transition_mode: the mode is Transitioning only inside the call.  Entering Online
\* logs "Flushing spooled state to cloud backend..." and clears the buffer; the frames
\* in it are not handed to anybody.
transition_mode(new) ==
  /\ mode' = new
  /\ last_mode' = mode
  /\ stats' = [stats EXCEPT !.mode_transitions = @ + 1]
  /\ IF new = "Online"
     THEN context_buffer' = clear(context_buffer) /\ flushed' = frame_counter
     ELSE UNCHANGED <<context_buffer, flushed>>

\* Mutants: the new mode is compared with last_mode; the mode is determined before
\* the measurement is stored.
update_network_qualityLast(q) ==
  /\ stats.mode_transitions < UpdateBound
  /\ network_quality' = q
  /\ LET new == determine_mode(q)
     IN  IF new # last_mode
         THEN transition_mode(new)
         ELSE UNCHANGED <<mode, last_mode, stats, context_buffer, flushed>>
  /\ UNCHANGED <<frame_counter, sizes, cloud, threads>>

update_network_qualityStale(q) ==
  /\ stats.mode_transitions < UpdateBound
  /\ network_quality' = q
  /\ LET new == determine_mode(network_quality)
     IN  IF new # mode
         THEN transition_mode(new)
         ELSE UNCHANGED <<mode, last_mode, stats, context_buffer, flushed>>
  /\ UNCHANGED <<frame_counter, sizes, cloud, threads>>

update_network_quality(q) ==
  /\ stats.mode_transitions < UpdateBound
  /\ network_quality' = q
  /\ LET new == determine_mode(q)
     IN  IF new # mode
         THEN transition_mode(new)
         ELSE UNCHANGED <<mode, last_mode, stats, context_buffer, flushed>>
  /\ UNCHANGED <<frame_counter, sizes, cloud, threads>>

\* The simulated probe only counts; what it returns goes to the caller.
probe_network_quality ==
  /\ stats.probe_count < UpdateBound
  /\ stats' = [stats EXCEPT !.probe_count = @ + 1]
  /\ UNCHANGED <<mode, last_mode, network_quality, context_buffer, frame_counter,
                 sizes, flushed, cloud, threads>>

can_reach_cloud == ~is_offline(network_quality)

\* Mutants: degraded frames stay local; offline frames count as nothing.
RouteDegradedLocal == IF mode = "Online" THEN "cloud" ELSE "local"

RouteOfflineBuffered ==
  IF mode = "Offline" THEN "buffered" ELSE "cloud"

\* Where process_frame sends a frame.
Route ==
  CASE mode = "Online"        -> "cloud"
    [] mode = "Degraded"      -> IF can_reach_cloud THEN "cloud" ELSE "local"
    [] mode = "Offline"       -> "local"
    [] mode = "Transitioning" -> "buffered"

\* A failed local inference is an INFERENCE_ERROR result and is counted all the same.
process_frame(size) ==
  /\ frame_counter < FrameBound
  /\ LET id == frame_counter + 1
     IN  /\ frame_counter' = id
         /\ context_buffer' = push(context_buffer, [id |-> id, size |-> size])
         /\ cloud' = IF Route = "cloud" THEN cloud \cup {id} ELSE cloud
  /\ stats' = [stats EXCEPT
       !.frames_processed = @ + 1,
       !.cloud_offloads   = IF Route = "cloud" THEN @ + 1 ELSE @,
       !.local_inferences = IF Route = "local" THEN @ + 1 ELSE @]
  /\ sizes' = Append(sizes, size)
  /\ UNCHANGED <<mode, last_mode, network_quality, flushed, threads>>

-----------------------------------------------------------------------------
(* Monitoring.                                                             *)

\* A thread is spawned and the caller gets a clone of running, which is not set here.
start_monitoring(m) ==
  /\ monitor[m] = "none"
  /\ monitor' = [monitor EXCEPT ![m] = "check"]
  /\ UNCHANGED <<running, stopped, agent>>

\* while *running { sleep(probe_interval) }
MonitorStep(m) ==
  /\ monitor[m] \in {"check", "sleep"}
  /\ monitor' = [monitor EXCEPT ![m] =
       IF @ = "sleep" THEN "check" ELSE IF running THEN "sleep" ELSE "exited"]
  /\ UNCHANGED <<running, stopped, agent>>

\* A caller of start_monitoring stores into the flag it was given.  It is the only way
\* to raise it.
store_running(up) ==
  /\ \E m \in Monitors : monitor[m] # "none"
  /\ running' = up
  /\ stopped' = ~up
  /\ UNCHANGED <<monitor, agent>>

\* Mutant: stop() only logs.
stopOnlyLogs ==
  /\ stopped' = TRUE
  /\ UNCHANGED <<running, monitor, agent>>

stop ==
  /\ running' = FALSE
  /\ stopped' = TRUE
  /\ UNCHANGED <<monitor, agent>>

Next ==
  \/ \E q \in Qualities : update_network_quality(q)
  \/ probe_network_quality
  \/ \E size \in Sizes : process_frame(size)
  \/ \E m \in Monitors : start_monitoring(m)
  \/ \E m \in Monitors : MonitorStep(m)
  \/ \E up \in BOOLEAN : store_running(up)
  \/ stop

\* Threads are scheduled; nothing obliges the environment to do anything.
Spec == Init /\ [][Next]_vars /\ \A m \in Monitors : WF_vars(MonitorStep(m))

-----------------------------------------------------------------------------
(* Properties.                                                             *)

Stats   == [frames_processed: Nat, cloud_offloads: Nat, local_inferences: Nat,
            mode_transitions: Nat, probe_count: Nat]

\* Types of the variables.
TypeOK ==
  /\ mode \in Modes /\ last_mode \in Modes
  /\ network_quality \in Quality
  /\ context_buffer.frames \in Seq([id: Nat, size: Sizes])
  /\ context_buffer.total_bytes \in Nat
  /\ frame_counter \in Nat /\ flushed \in Nat
  /\ stats \in Stats
  /\ sizes \in Seq(Sizes)
  /\ cloud \subseteq Nat
  /\ running \in BOOLEAN /\ stopped \in BOOLEAN
  /\ monitor \in [Monitors -> {"none", "check", "sleep", "exited"}]

Frames == context_buffer.frames

\* Between calls the mode is what determine_mode says of the stored quality, so
\* process_frame never meets Transitioning and Degraded never falls back to local.
ModeMatchesQuality == mode = determine_mode(network_quality)

Severity == [Online |-> 0, Degraded |-> 1, Offline |-> 2, Transitioning |-> 3]
Worse(q, r) == q.latency >= r.latency /\ q.loss >= r.loss /\ q.jitter >= r.jitter

\* ModeMachine.lean determineMode_monotone, over the agent's steps: a measurement at
\* least as bad in every respect never lowers the severity of the mode.
WorseNetworkNeverMilder ==
  [][Worse(network_quality', network_quality) => Severity[mode'] >= Severity[mode]]_vars

\* The counters agree: every frame went to one place, and the cloud got what the
\* cloud counter says.
StatsAddUp ==
  /\ stats.frames_processed = frame_counter
  /\ stats.frames_processed = stats.cloud_offloads + stats.local_inferences
  /\ Cardinality(cloud) = stats.cloud_offloads

\* A frame goes to the cloud exactly when the last measurement was not offline,
\* whatever the mode has been in between.
OffloadedWhenReachable ==
  [][frame_counter' # frame_counter =>
       (frame_counter' \in cloud' <=> ~is_offline(network_quality))]_vars

\* The buffer holds the most recent frames, all of them newer than the last flush.
BufferIsRecent ==
  \A i \in 1..Len(Frames) :
    /\ Frames[i].id = frame_counter - Len(Frames) + i
    /\ Frames[i].id > flushed
    /\ Frames[i].size = sizes[Frames[i].id]

\* The byte count is the sum of the payloads, through every eviction and flush, and the
\* caps hold after every push (ContextBuffer.lean): frames always, bytes except for a
\* single frame that is larger than the cap by itself.
CapsHold ==
  /\ context_buffer.total_bytes = Bytes(Frames)
  /\ max_frames > 0 => Len(Frames) <= max_frames
  /\ context_buffer.total_bytes <= max_bytes \/ Len(Frames) = 1

\* Frames are evicted only for lack of room: putting the youngest evicted frame back
\* would break a cap.
EvictedForRoom ==
  LET gone == frame_counter - Len(Frames)
  IN  gone > flushed =>
        \/ context_buffer.total_bytes + sizes[gone] > max_bytes
        \/ Len(Frames) >= max_frames

\* stop() ends monitoring, wherever it finds a thread in its loop: once the flag is
\* lowered for good, every thread that was or will be started exits.
StopEndsMonitors ==
  <>[]stopped => \A m \in Monitors : monitor[m] # "none" ~> monitor[m] = "exited"

\* ARCHITECTURE "full recovery (flush spooled state)": going Online, what the buffer
\* loses has reached the cloud backend.
FlushDelivers ==
  [][mode # "Online" /\ mode' = "Online" =>
       \A i \in 1..Len(Frames) : Frames[i].id \in cloud']_vars

\* "Start continuous network monitoring": no monitoring thread ends unless stopped.
MonitoringIsContinuous ==
  [][\A m \in Monitors : monitor[m] # "exited" /\ monitor'[m] = "exited" => stopped]_vars
=============================================================================
