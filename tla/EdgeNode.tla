------------------------------ MODULE EdgeNode ------------------------------
(***************************************************************************)
(* The edge_agent binary: main detects accelerators, reads their sensors,  *)
(* loads a local backend if a model is given, forces a mode if one is      *)
(* asked for, starts monitoring and runs its demonstration frames through  *)
(* the agent.  Meanwhile a device may be unplugged, nvidia-smi may take    *)
(* its time or for ever, and the monitoring thread runs.  Whether a model  *)
(* loads depends on the build and the file.                                *)
(***************************************************************************)
EXTENDS EdgeAgent, Hardware, Inference

CONSTANTS
  Hosts,       \* what may be plugged in: sets of devices
  Arguments,   \* [mode: the --mode given, model: whether --model is, gpu_layers]
  DEMO_FRAMES  \* frames of the demonstration (5)

\* Only NVIDIA devices have a line of nvidia-smi or a model under /proc/driver/nvidia.
ASSUME HostsAssumption ==
  \A devices \in Hosts : \A d \in devices :
    d.smi # {} \/ d.info = "model" => d.vendor = "0x10de"

VARIABLES
  main,          \* where main is
  args,
  host,          \* the devices plugged in
  detected,      \* history: the devices plugged in at detection
  accelerators,
  unread,        \* accelerators whose sensors are still to be read
  asked,         \* the accelerator for which nvidia-smi is running, if it is
  printed,       \* history: the lines "Detected accelerator"
  backend,       \* "simulated" or "llama"
  gpu_layers,    \* layers the model was loaded with
  results        \* history: what process_frame returned

hardware == <<host, detected, accelerators, unread, asked, printed>>
loaded   == <<args, backend, gpu_layers>>
nodeVars == <<vars, inference, hardware, loaded, main, results>>

NodeInit ==
  /\ Init /\ InferInit
  /\ main = "detect"
  /\ args \in Arguments
  /\ host \in Hosts
  /\ detected = {} /\ accelerators = {} /\ unread = {} /\ asked = {} /\ printed = {}
  /\ backend = "simulated" /\ gpu_layers = 0
  /\ results = <<>>

-----------------------------------------------------------------------------
(* main.                                                                   *)

Detect ==
  /\ main = "detect"
  /\ main' = "sensors"
  /\ detected' = host
  /\ \E model \in nvidia_model_names(host) : accelerators' = detect_accelerators(host, model)
  /\ unread' = accelerators'
  /\ UNCHANGED <<host, asked, printed, vars, inference, loaded, results>>

PrintLine(a, reading) ==
  printed' = printed \cup {[accelerator |-> a, reading |-> reading]}

\* Where nvidia-smi is asked, main waits for it.
ReadSensors ==
  /\ main = "sensors"
  /\ \E a \in unread :
       /\ unread' = unread \ {a}
       /\ IF asks_nvidia_smi(a, host)
          THEN main' = "smi" /\ asked' = {a} /\ UNCHANGED printed
          ELSE PrintLine(a, read_sensors(a, host)) /\ UNCHANGED <<main, asked>>
  /\ UNCHANGED <<host, detected, accelerators, vars, inference, loaded, results>>

\* nvidia-smi ends, of its own accord: there is no timeout.
SmiAnswers ==
  /\ main = "smi"
  /\ main' = "sensors"
  /\ \E a \in asked, first \in nvidia_smi_first(host) :
       PrintLine(a, read_nvidia_smi_sensors(first))
  /\ asked' = {}
  /\ UNCHANGED <<host, detected, accelerators, unread, vars, inference, loaded, results>>

\* A model that does not load, or a build without llama.cpp, leaves the simulated
\* backend.  No layers are offloaded without a GPU that can take them.
LoadBackend ==
  /\ main = "sensors" /\ unread = {}
  /\ main' = "mode"
  /\ \/ /\ args.model
        /\ backend' = "llama"
        /\ gpu_layers' = IF \E a \in accelerators : supports_llama_offload(a)
                         THEN args.gpu_layers ELSE 0
     \/ UNCHANGED <<backend, gpu_layers>>
  /\ UNCHANGED <<args, hardware, vars, inference, results>>

\* Mutant: offline is a measurement at the bounds.
ForcedAtBounds ==
  [offline  |-> [latency |-> 5000, loss |-> 50, jitter |-> 0],
   degraded |-> [latency |-> 300, loss |-> 10, jitter |-> 60]]

\* The made-up measurements of the modes that can be forced.
Forced ==
  [offline  |-> [latency |-> 10000, loss |-> 100, jitter |-> 0],
   degraded |-> [latency |-> 300, loss |-> 10, jitter |-> 60]]

ForceMode ==
  /\ main = "mode"
  /\ main' = "monitoring"
  /\ IF args.mode \in DOMAIN Forced
     THEN update_network_quality(Forced[args.mode])
     ELSE UNCHANGED vars
  /\ UNCHANGED <<inference, hardware, loaded, results>>

StartMonitoring ==
  /\ main = "monitoring"
  /\ main' = "frames"
  /\ \E m \in Monitors : start_monitoring(m)
  /\ UNCHANGED <<inference, hardware, loaded, results>>

\* process_frame: the agent's part in one step.  A local frame waits for the backend;
\* the cloud and the simulated backend answer at once.
ProcessFrame ==
  /\ main = "frames" /\ Len(results) < DEMO_FRAMES
  /\ \E size \in Sizes : process_frame(size)
  /\ IF Route = "local" /\ backend = "llama"
     THEN /\ \E limit \in Limits : infer(limit)
          /\ main' = "infer"
          /\ UNCHANGED results
     ELSE /\ results' = Append(results, [source |-> Route, kind |-> "output"])
          /\ UNCHANGED <<main, inference>>
  /\ UNCHANGED <<hardware, loaded>>

\* Mutant: only an output is a result.
ResultOfOutput ==
  /\ main = "infer" /\ phase = "idle" /\ answer.kind = "output"
  /\ main' = "frames"
  /\ results' = Append(results, [source |-> "local", kind |-> answer.kind])
  /\ UNCHANGED <<vars, inference, hardware, loaded>>

\* An error of the backend is a result as well, INFERENCE_ERROR.
Result ==
  /\ main = "infer" /\ phase = "idle"
  /\ main' = "frames"
  /\ results' = Append(results, [source |-> "local", kind |-> answer.kind])
  /\ UNCHANGED <<vars, inference, hardware, loaded>>

Stop ==
  /\ main = "frames" /\ Len(results) = DEMO_FRAMES
  /\ stop
  /\ main' = "done"
  /\ UNCHANGED <<inference, hardware, loaded, results>>

Infer ==
  /\ main = "infer"
  /\ InferStep
  /\ UNCHANGED <<main, vars, hardware, loaded, results>>

MainStep ==
  \/ Detect \/ ReadSensors \/ LoadBackend \/ ForceMode \/ StartMonitoring
  \/ ProcessFrame \/ Infer \/ Result \/ Stop

-----------------------------------------------------------------------------
(* Meanwhile.                                                              *)

Unplug(d) ==
  /\ main \in {"sensors", "smi"}
  /\ d \in host
  /\ host' = host \ {d}
  /\ UNCHANGED <<detected, accelerators, unread, asked, printed, main, results>>
  /\ UNCHANGED <<vars, inference, loaded>>

\* The thread ends with the process, whatever it has come to.
Monitor(m) ==
  /\ main # "done"
  /\ MonitorStep(m)
  /\ UNCHANGED <<main, inference, hardware, loaded, results>>

\* main drops the flag that start_monitoring returned, so nobody stores into it.
NodeNext ==
  \/ MainStep
  \/ SmiAnswers
  \/ \E d \in host : Unplug(d)
  \/ \E m \in Monitors : Monitor(m)

\* main is scheduled, and waits for no other thread.  Nothing makes nvidia-smi end.
NodeSpec == NodeInit /\ [][NodeNext]_nodeVars /\ WF_nodeVars(MainStep)

-----------------------------------------------------------------------------
(* Properties.                                                             *)

\* The cards llama.cpp can use.
Usable(devices) ==
  {d \in devices : d.dir = "drm" /\ d.bare
                     /\ d.vendor \in {"0x10de", "0x1002", "0x1022", "0x8086"}}

\* Layers are offloaded as asked exactly when a card of a vendor that llama.cpp can use
\* was plugged in at detection; an NPU of the same vendor, a connector or a card that
\* cannot be identified is not enough ("gpu_available" in main).
OffloadNeedsGpu ==
  backend = "llama" => gpu_layers = IF Usable(detected) # {} THEN args.gpu_layers ELSE 0

\* On a node with at most one NVIDIA device, the name and the readings main prints for
\* an accelerator are its own, and a device unplugged since detection lends its line to
\* nobody (read_sensors: "for this device").
ReadingsOwn ==
  (\A d, e \in detected : d.vendor = "0x10de" /\ e.vendor = "0x10de" => d = e) =>
    \A line \in printed :
      LET a == line.accelerator
          r == line.reading
      IN  a.name \cup r.temp_c \cup r.power_w \cup r.utilization_pct \subseteq {a.device_path}

AskedMode ==
  CASE args.mode = "offline"  -> "Offline"
    [] args.mode = "degraded" -> "Degraded"
    [] OTHER                  -> "Online"

\* The mode asked for on the command line holds for every frame of the demonstration:
\* offline, all are answered locally and none reaches the cloud; else all reach it.
AskedModeHolds ==
  /\ main \in {"frames", "infer", "done"} => mode = AskedMode
  /\ \A i \in 1..Len(results) : (results[i].source = "local") <=> (args.mode = "offline")
  /\ args.mode = "offline" => cloud = {}

\* main comes to its end with a result for every frame, whatever the backend fails at and
\* whatever is unplugged, unless it waits for ever for an nvidia-smi that it asked for an
\* NVIDIA device ("hwmon first: cheap, no subprocess").
MainFinishes ==
  \/ <>(main = "done" /\ Len(results) = DEMO_FRAMES /\ stats.frames_processed = DEMO_FRAMES)
  \/ <>[](main = "smi" /\ \E a \in asked : a.vendor = "NVIDIA")
=============================================================================
