--------------------------- MODULE EdgeNodeProofs ---------------------------
(***************************************************************************)
(* Proofs about the edge_agent binary: its local inference, the layers it  *)
(* offloads and the mode it was asked for.                                 *)
(***************************************************************************)
EXTENDS EdgeNode, SequenceTheorems, TLAPS

-----------------------------------------------------------------------------
(* Local inference, call by call.                                          *)

\* The batch of a prompt: positions in order, logits for the last token only.
PromptBatch ==
  /\ Len(batch) <= CTX_SIZE
  /\ \A i \in 1..Len(batch) : batch[i] = [pos |-> i - 1, logits |-> i = Len(batch)]

\* What holds of a call at each of its phases.
InferInv ==
  /\ InferTypeOK
  /\ SamplesNewestPosition
  /\ generated <= max_tokens
  /\ phase = "prompt" => PromptBatch
  /\ phase \in {"sampling", "token"} => n_cur = Len(context)
  /\ phase = "token" => n_cur < CTX_SIZE /\ batch = <<[pos |-> n_cur, logits |-> TRUE]>>

LEMMA InferInitInv == InferInit => InferInv
BY InferenceAssumption DEF InferInit, InferInv, InferTypeOK, SamplesNewestPosition

\* A prompt's batch is well typed and in order.
LEMMA AddPromptInv ==
  ASSUME InferInv, NEW n \in PromptSizes, AddPrompt(n)
  PROVE  InferInv'
<1> DEFINE b == [i \in 1..n |-> [pos |-> i - 1, logits |-> i = n]]
<1>1. n \in Nat /\ n <= CTX_SIZE /\ batch' = b /\ phase' = "prompt"
      /\ UNCHANGED <<max_tokens, context, n_cur, generated>>
  BY InferenceAssumption DEF AddPrompt
<1>2. \A i \in 1..n : [pos |-> i - 1, logits |-> i = n] \in [pos: Nat, logits: BOOLEAN]
  BY <1>1
<1>3. b \in Seq([pos: Nat, logits: BOOLEAN]) /\ Len(b) = n
      /\ \A i \in 1..n : b[i] = [pos |-> i - 1, logits |-> i = n]
  BY <1>1, <1>2
<1> HIDE DEF b
<1>4. PromptBatch'
  BY <1>1, <1>3 DEF PromptBatch
<1> QED
  BY <1>1, <1>3, <1>4 DEF InferInv, InferTypeOK, SamplesNewestPosition

\* Decoding a prompt fills the context with the positions of its batch.
LEMMA DecodePromptInv ==
  ASSUME InferInv, DecodePrompt
  PROVE  InferInv'
<1> DEFINE c == [i \in 1..Len(batch) |-> batch[i].pos]
<1>1. /\ phase = "prompt" /\ phase' = "sampling" /\ batch # <<>>
      /\ context' = c /\ n_cur' = Len(batch)
      /\ UNCHANGED <<max_tokens, batch, generated>>
  BY DEF DecodePrompt
<1>2. batch \in Seq([pos: Nat, logits: BOOLEAN]) /\ Len(batch) \in Nat \ {0} /\ PromptBatch
  BY <1>1 DEF InferInv, InferTypeOK
<1>3. ASSUME NEW i \in 1..Len(batch)
      PROVE  batch[i].pos = i - 1
  <2>1. batch[i] = [pos |-> i - 1, logits |-> i = Len(batch)]
    BY <1>2 DEF PromptBatch
  <2> QED
    BY <2>1
<1>4. c \in Seq(Nat) /\ Len(c) = Len(batch) /\ \A i \in 1..Len(batch) : c[i] = i - 1
  <2>1. \A i \in 1..Len(batch) : batch[i].pos \in Nat
    BY <1>2, <1>3
  <2> QED
    BY <1>2, <1>3, <2>1
<1>5. batch[Len(batch)] = [pos |-> Len(batch) - 1, logits |-> TRUE]
  <2>1. Len(batch) \in 1..Len(batch)
    BY <1>2
  <2>2. batch[Len(batch)] = [pos |-> Len(batch) - 1, logits |-> Len(batch) = Len(batch)]
    BY <1>2, <2>1 DEF PromptBatch
  <2> QED
    BY <2>2
<1> HIDE DEF c
<1> QED
  BY <1>1, <1>2, <1>4, <1>5 DEF InferInv, InferTypeOK, SamplesNewestPosition, PromptBatch

\* Decoding a token appends its position.
LEMMA DecodeTokenInv ==
  ASSUME InferInv, DecodeToken
  PROVE  InferInv'
<1>1. /\ phase = "token" /\ phase' = "sampling" /\ n_cur' = n_cur + 1
      /\ context' = Append(context, batch[1].pos)
      /\ UNCHANGED <<max_tokens, batch, generated>>
  BY DEF DecodeToken
<1>2. /\ context \in Seq(Nat) /\ n_cur \in Nat /\ n_cur = Len(context) /\ n_cur < CTX_SIZE
      /\ batch = <<[pos |-> n_cur, logits |-> TRUE]>>
  BY <1>1 DEF InferInv, InferTypeOK
<1>3. Len(batch) = 1 /\ batch[1] = [pos |-> n_cur, logits |-> TRUE] /\ batch[1].pos = n_cur
  BY <1>2
<1>4. /\ context' \in Seq(Nat) /\ Len(context') = n_cur + 1
      /\ \A i \in 1..Len(context) : context'[i] = context[i]
      /\ context'[n_cur + 1] = n_cur
  BY <1>1, <1>2, <1>3
<1>5. \A i \in 1..Len(context') : context'[i] = i - 1
  BY <1>2, <1>4 DEF InferInv, SamplesNewestPosition
<1> QED
  BY <1>1, <1>2, <1>3, <1>4, <1>5, InferenceAssumption DEF InferInv, InferTypeOK, SamplesNewestPosition

LEMMA InferNextInv ==
  ASSUME InferInv, [InferNext]_inference
  PROVE  InferInv'
<1>1. ASSUME NEW limit \in Limits, infer(limit)
      PROVE  InferInv'
  BY <1>1, InferenceAssumption DEF infer, InferInv, InferTypeOK, SamplesNewestPosition
<1>2. ASSUME NEW n \in PromptSizes, AddPrompt(n)
      PROVE  InferInv'
  BY <1>2, AddPromptInv
<1>3. CASE DecodePrompt
  BY <1>3, DecodePromptInv
<1>4. CASE Sample
  <2>1. [pos |-> n_cur, logits |-> TRUE] \in [pos: Nat, logits: BOOLEAN]
    BY DEF InferInv, InferTypeOK
  <2> QED
    BY <1>4, <2>1 DEF Sample, InferInv, InferTypeOK, SamplesNewestPosition
<1>5. CASE DecodeToken
  BY <1>5, DecodeTokenInv
<1>6. CASE Return
  BY <1>6 DEF Return, InferInv, InferTypeOK, SamplesNewestPosition
<1>7. CASE Fail
  BY <1>7 DEF Fail, InferInv, InferTypeOK, SamplesNewestPosition
<1>8. CASE UNCHANGED inference
  BY <1>8 DEF inference, InferInv, InferTypeOK, SamplesNewestPosition, PromptBatch
<1> QED
  BY <1>1, <1>2, <1>3, <1>4, <1>5, <1>6, <1>7, <1>8 DEF InferNext, InferStep

\* Every step of a call is the trait's call, its return, or neither.
LEMMA InferNextRefines ==
  ASSUME InferInv, [InferNext]_inference
  PROVE  [Backend!Infer \/ Backend!Return]_(Backend!vars)
<1> USE DEF Backend!vars
<1>1. ASSUME NEW limit \in Limits, infer(limit)
      PROVE  Backend!Infer
  BY <1>1, InferenceAssumption DEF infer, Backend!Infer
<1>2. ASSUME NEW n \in PromptSizes, AddPrompt(n)
      PROVE  UNCHANGED Backend!vars
  BY <1>2 DEF AddPrompt
<1>3. CASE DecodePrompt \/ Sample \/ DecodeToken
  BY <1>3 DEF DecodePrompt, Sample, DecodeToken
<1>4. CASE Return
  BY <1>4 DEF Return, Backend!Return, Backend!Output, InferInv, InferTypeOK
<1>5. CASE Fail
  BY <1>5 DEF Fail, Backend!Return, Backend!Error
<1>6. CASE UNCHANGED inference
  BY <1>6 DEF inference
<1> QED
  BY <1>1, <1>2, <1>3, <1>4, <1>5, <1>6 DEF InferNext, InferStep

-----------------------------------------------------------------------------
(* The binary calls the backend as InferNext says.                         *)

LEMMA NodeInfers ==
  ASSUME [NodeNext]_nodeVars
  PROVE  [InferNext]_inference
<1>1. CASE ProcessFrame
  BY <1>1 DEF ProcessFrame, InferNext
<1>2. CASE Infer
  BY <1>2 DEF Infer, InferNext
<1>3. CASE Detect \/ ReadSensors \/ SmiAnswers \/ LoadBackend \/ ForceMode
           \/ StartMonitoring \/ Result \/ Stop
  BY <1>3 DEF Detect, ReadSensors, SmiAnswers, LoadBackend, ForceMode, StartMonitoring,
              Result, Stop
<1>4. ASSUME NEW d \in host, Unplug(d)
      PROVE  UNCHANGED inference
  BY <1>4 DEF Unplug
<1>5. ASSUME NEW m \in Monitors, Monitor(m)
      PROVE  UNCHANGED inference
  BY <1>5 DEF Monitor
<1>6. CASE UNCHANGED nodeVars
  BY <1>6 DEF nodeVars
<1> QED
  BY <1>1, <1>2, <1>3, <1>4, <1>5, <1>6 DEF NodeNext, MainStep

\* In the binary, every sample of local inference is taken of the newest position, whose
\* logits were asked for, and the context is filled in order within its size.
THEOREM NodeSamples == NodeSpec => []SamplesNewestPosition
<1>1. NodeInit => InferInv
  BY InferInitInv DEF NodeInit
<1>2. InferInv /\ [NodeNext]_nodeVars => InferInv'
  BY NodeInfers, InferNextInv
<1>3. InferInv => SamplesNewestPosition
  BY DEF InferInv
<1> QED
  BY <1>1, <1>2, <1>3, PTL DEF NodeSpec

\* The safety the trait InferenceBackend promises, for the backend inside the binary: no
\* call returns more tokens than it was asked for.
THEOREM NodeBackend == NodeSpec => Backend!Safety
<1>1. NodeInit => InferInv /\ Backend!Init
  BY InferInitInv DEF NodeInit, InferInit, Backend!Init
<1>2. InferInv /\ [NodeNext]_nodeVars => InferInv'
  BY NodeInfers, InferNextInv
<1>3. InferInv /\ [NodeNext]_nodeVars => [Backend!Infer \/ Backend!Return]_(Backend!vars)
  BY NodeInfers, InferNextRefines
<1> QED
  BY <1>1, <1>2, <1>3, PTL DEF NodeSpec, Backend!Safety

\* How many steps a call has left at most: two for every token it may still generate.
StepsLeft ==
  CASE phase = "idle"     -> 0
    [] phase = "started"  -> 2 * max_tokens + 3
    [] phase = "prompt"   -> 2 * max_tokens + 2
    [] phase = "sampling" -> 2 * (max_tokens - generated) + 1
    [] phase = "token"    -> 2 * (max_tokens - generated) + 2

\* A call runs down with every step, from a number that max_tokens gives.
CallRunsDown ==
  IF phase = "idle"
  THEN StepsLeft' = 2 * max_tokens' + 3
  ELSE StepsLeft' \in Nat /\ StepsLeft' < StepsLeft

LEMMA StepRunsDown ==
  ASSUME InferInv, InferNext
  PROVE  CallRunsDown
<1>0. max_tokens \in Nat /\ generated \in Nat /\ generated <= max_tokens
  BY DEF InferInv, InferTypeOK
<1>1. ASSUME NEW limit \in Limits, infer(limit)
      PROVE  CallRunsDown
  BY <1>1, InferenceAssumption DEF infer, CallRunsDown, StepsLeft
<1>2. ASSUME NEW n \in PromptSizes, AddPrompt(n)
      PROVE  CallRunsDown
  BY <1>0, <1>2 DEF AddPrompt, CallRunsDown, StepsLeft
<1>3. CASE DecodePrompt
  BY <1>0, <1>3 DEF DecodePrompt, CallRunsDown, StepsLeft
<1>4. CASE Sample
  <2>1. /\ StepsLeft = 2 * (max_tokens - generated) + 1
        /\ StepsLeft' = 2 * (max_tokens - (generated + 1)) + 2
        /\ phase # "idle" /\ generated < max_tokens
    BY <1>4 DEF Sample, StepsLeft
  <2>. QED
    BY <1>0, <2>1 DEF CallRunsDown
<1>5. CASE DecodeToken
  BY <1>0, <1>5 DEF DecodeToken, CallRunsDown, StepsLeft
<1>6. CASE Return
  BY <1>0, <1>6 DEF Return, CallRunsDown, StepsLeft
<1>7. CASE Fail
  BY <1>0, <1>7 DEF Fail, CallRunsDown, StepsLeft
<1> QED
  BY <1>1, <1>2, <1>3, <1>4, <1>5, <1>6, <1>7 DEF InferNext, InferStep

\* No call of the backend goes on for ever: whatever the model yields and wherever
\* llama.cpp fails, it is over after at most two steps a token and three more.
THEOREM CallsRunDown == NodeSpec => [][CallRunsDown]_inference
<1>1. NodeInit => InferInv
  BY InferInitInv DEF NodeInit
<1>2. InferInv /\ [NodeNext]_nodeVars => InferInv'
  BY NodeInfers, InferNextInv
<1>3. InferInv /\ [NodeNext]_nodeVars => [CallRunsDown]_inference
  BY NodeInfers, StepRunsDown
<1> QED
  BY <1>1, <1>2, <1>3, PTL DEF NodeSpec

-----------------------------------------------------------------------------
(* Layers are offloaded only to a GPU.                                     *)

LEMMA VendorsUsable ==
  ASSUME NEW id
  PROVE  vendor_from_pci_id(id) \in {"NVIDIA", "AMD", "Intel"}
           <=> id \in {"0x10de", "0x1002", "0x1022", "0x8086"}
BY DEF vendor_from_pci_id

\* An accelerator that takes layers is detected exactly when a usable card is there.
LEMMA DetectsUsable ==
  ASSUME NEW devices, NEW model
  PROVE  (\E a \in detect_accelerators(devices, model) : supports_llama_offload(a))
           <=> Usable(devices) # {}
<1>1. ASSUME NEW a \in detect_accelerators(devices, model), supports_llama_offload(a)
      PROVE  Usable(devices) # {}
  <2>1. a \in detect_drm_gpus(devices, model)
    BY <1>1 DEF detect_accelerators, detect_accel_npus, detect_misc_npus, Accelerator,
                supports_llama_offload
  <2>2. PICK d \in devices : /\ d.dir = "drm" /\ d.bare
                             /\ a.vendor = vendor_from_pci_id(d.vendor)
    BY <2>1 DEF detect_drm_gpus, Accelerator
  <2>3. d \in Usable(devices)
    BY <1>1, <2>2, VendorsUsable DEF Usable, supports_llama_offload
  <2> QED
    BY <2>3
<1>2. ASSUME NEW d \in Usable(devices)
      PROVE  \E a \in detect_accelerators(devices, model) : supports_llama_offload(a)
  <2>1. d \in devices /\ d.dir = "drm" /\ d.bare /\ d.vendor # "absent"
        /\ vendor_from_pci_id(d.vendor) \in {"NVIDIA", "AMD", "Intel"}
    BY <1>2, VendorsUsable DEF Usable
  <2> DEFINE vendor == vendor_from_pci_id(d.vendor)
             name == IF vendor = "NVIDIA" /\ model # {} THEN model ELSE {d}
             a == Accelerator("GPU", vendor, name, d, {d})
  <2>2. a \in detect_drm_gpus(devices, model)
    <3> HIDE DEF vendor, name
    <3> QED BY <2>1 DEF detect_drm_gpus, vendor, name
  <2>3. a.kind = "GPU" /\ a.vendor = vendor
    BY DEF Accelerator
  <2> HIDE DEF a
  <2> QED
    BY <2>1, <2>2, <2>3 DEF detect_accelerators, supports_llama_offload
<1> QED
  BY <1>1, <1>2

GpuInv ==
  /\ main \in {"detect", "sensors", "smi"} => backend = "simulated"
  /\ main \in {"sensors", "smi"} =>
       ((\E a \in accelerators : supports_llama_offload(a)) <=> Usable(detected) # {})
  /\ OffloadNeedsGpu

LEMMA NodeNextGpu ==
  ASSUME GpuInv, [NodeNext]_nodeVars
  PROVE  GpuInv'
<1>1. CASE Detect
  <2>1. PICK model : accelerators' = detect_accelerators(detected', model)
    BY <1>1 DEF Detect
  <2>2. backend = "simulated" /\ backend' = backend
    BY <1>1 DEF Detect, loaded, GpuInv
  <2> QED
    BY <2>1, <2>2, DetectsUsable DEF GpuInv, OffloadNeedsGpu
<1>2. CASE LoadBackend
  <2>1. main' = "mode" /\ backend = "simulated" /\ UNCHANGED <<detected, args>>
    BY <1>2 DEF LoadBackend, hardware, GpuInv
  <2> QED
    BY <1>2, <2>1 DEF LoadBackend, GpuInv, OffloadNeedsGpu
<1>3. CASE ReadSensors \/ SmiAnswers
  BY <1>3 DEF ReadSensors, SmiAnswers, loaded, GpuInv, OffloadNeedsGpu
<1>4. CASE ForceMode \/ StartMonitoring \/ ProcessFrame \/ Infer \/ Result \/ Stop
  BY <1>4 DEF ForceMode, StartMonitoring, ProcessFrame, Infer, Result, Stop, hardware, loaded,
              GpuInv, OffloadNeedsGpu
<1>5. ASSUME NEW d \in host, Unplug(d)
      PROVE  GpuInv'
  BY <1>5 DEF Unplug, loaded, GpuInv, OffloadNeedsGpu
<1>6. ASSUME NEW m \in Monitors, Monitor(m)
      PROVE  GpuInv'
  BY <1>6 DEF Monitor, hardware, loaded, GpuInv, OffloadNeedsGpu
<1>7. CASE UNCHANGED nodeVars
  BY <1>7 DEF nodeVars, hardware, loaded, GpuInv, OffloadNeedsGpu
<1> QED
  BY <1>1, <1>2, <1>3, <1>4, <1>5, <1>6, <1>7 DEF NodeNext, MainStep

\* Whatever is plugged in and unplugged, layers are offloaded exactly when a card that
\* llama.cpp can use was there at detection.
THEOREM Offload == NodeSpec => []OffloadNeedsGpu
<1>1. NodeInit => GpuInv
  BY DEF NodeInit, GpuInv, OffloadNeedsGpu
<1>2. GpuInv /\ [NodeNext]_nodeVars => GpuInv'
  BY NodeNextGpu
<1>3. GpuInv => OffloadNeedsGpu
  BY DEF GpuInv
<1> QED
  BY <1>1, <1>2, <1>3, PTL DEF NodeSpec

-----------------------------------------------------------------------------
(* The mode asked for holds.                                               *)

AskedQuality == IF args.mode \in DOMAIN Forced THEN Forced[args.mode] ELSE Perfect

LEMMA ForcedDomain ==
  /\ DOMAIN Forced = {"offline", "degraded"}
  /\ Forced["offline"] = [latency |-> 10000, loss |-> 100, jitter |-> 0]
  /\ Forced["degraded"] = [latency |-> 300, loss |-> 10, jitter |-> 60]
BY DEF Forced

\* What the forced measurements are taken for, and where their frames go.
LEMMA AskedIsDetermined ==
  /\ determine_mode(AskedQuality) = AskedMode
  /\ is_offline(AskedQuality) <=> args.mode = "offline"
BY ForcedDomain DEF AskedQuality, AskedMode, Perfect, determine_mode, is_offline, is_degraded

AnswerKinds == {"nothing", "error", "output"}
Outcomes    == [source: {"cloud", "local"}, kind: AnswerKinds]

\* Before the mode is forced, nothing has happened; afterwards the agent has the quality
\* and the mode asked for, and waits for the backend only when it is offline.
ModeInv ==
  /\ answer.kind \in AnswerKinds
  /\ results \in Seq(Outcomes)
  /\ main \in {"detect", "sensors", "smi", "mode"} =>
       mode = "Online" /\ network_quality = Perfect /\ results = <<>> /\ cloud = {}
  /\ main \in {"monitoring", "frames", "infer", "done"} =>
       mode = AskedMode /\ network_quality = AskedQuality
  /\ main = "infer" => args.mode = "offline"
  /\ AskedModeHolds

\* A frame of the demonstration goes where the mode asked for says.
LEMMA AskedRoute ==
  ASSUME mode = AskedMode, network_quality = AskedQuality
  PROVE  Route = IF args.mode = "offline" THEN "local" ELSE "cloud"
<1>1. is_offline(network_quality) <=> args.mode = "offline"
  BY AskedIsDetermined
<1> QED
  BY <1>1 DEF AskedMode, Route, can_reach_cloud

LEMMA AnswerKept ==
  ASSUME answer.kind \in AnswerKinds, [InferNext]_inference
  PROVE  answer'.kind \in AnswerKinds
<1>1. CASE Return
  BY <1>1 DEF Return, Backend!Output, AnswerKinds
<1>2. CASE Fail
  BY <1>2 DEF Fail, Backend!Error, AnswerKinds
<1>3. ASSUME answer' = answer
      PROVE  answer'.kind \in AnswerKinds
  BY <1>3
<1> QED
  BY <1>1, <1>2, <1>3
  DEF InferNext, InferStep, infer, AddPrompt, DecodePrompt, Sample, DecodeToken, inference

LEMMA ForceModeInv ==
  ASSUME ModeInv, ForceMode
  PROVE  ModeInv'
<1>1. /\ main = "mode" /\ main' = "monitoring" /\ args' = args
      /\ results = <<>> /\ results' = results /\ answer' = answer
      /\ mode = "Online" /\ network_quality = Perfect /\ cloud = {}
  BY DEF ForceMode, ModeInv, loaded, inference
<1>2. AskedMode' = AskedMode /\ AskedQuality' = AskedQuality
  BY <1>1 DEF AskedMode, AskedQuality
<1>3. mode' = AskedMode /\ network_quality' = AskedQuality /\ cloud' = {}
  <2>1. CASE args.mode \in DOMAIN Forced
    <3>1. update_network_quality(AskedQuality)
      BY <2>1 DEF ForceMode, AskedQuality
    <3>2. network_quality' = AskedQuality /\ cloud' = cloud
          /\ mode' = determine_mode(AskedQuality)
      BY <3>1, <1>1 DEF update_network_quality, transition_mode
    <3> QED
      BY <1>1, <3>2, AskedIsDetermined
  <2>2. CASE args.mode \notin DOMAIN Forced
    BY <1>1, <2>2, ForcedDomain DEF ForceMode, vars, agent, AskedQuality, AskedMode
  <2> QED
    BY <2>1, <2>2
<1> QED
  BY <1>1, <1>2, <1>3 DEF ModeInv, AskedModeHolds

LEMMA ProcessFrameInv ==
  ASSUME ModeInv, ProcessFrame
  PROVE  ModeInv'
<1>1. /\ main = "frames" /\ args' = args
      /\ mode' = mode /\ network_quality' = network_quality
      /\ cloud' = IF Route = "cloud" THEN cloud \cup {frame_counter + 1} ELSE cloud
  BY DEF ProcessFrame, process_frame, loaded
<1>2. AskedMode' = AskedMode /\ AskedQuality' = AskedQuality
  BY <1>1 DEF AskedMode, AskedQuality
<1>3. mode = AskedMode /\ network_quality = AskedQuality /\ answer'.kind \in AnswerKinds
  BY <1>1, NodeInfers, AnswerKept DEF ModeInv, NodeNext, MainStep
<1>4. Route = IF args.mode = "offline" THEN "local" ELSE "cloud"
  BY <1>3, AskedRoute
<1>5. CASE Route = "local" /\ backend = "llama"
  BY <1>1, <1>2, <1>3, <1>4, <1>5 DEF ProcessFrame, ModeInv, AskedModeHolds
<1>6. CASE ~(Route = "local" /\ backend = "llama")
  <2> DEFINE outcome == [source |-> Route, kind |-> "output"]
  <2>1. outcome \in Outcomes /\ outcome.source = Route
    BY <1>4 DEF Outcomes, AnswerKinds
  <2>2. results' = Append(results, outcome) /\ main' = "frames"
    BY <1>1, <1>6 DEF ProcessFrame
  <2> HIDE DEF outcome
  <2>3. /\ results' \in Seq(Outcomes)
        /\ \A i \in 1..Len(results') :
             (i \in 1..Len(results) /\ results'[i] = results[i]) \/ results'[i] = outcome
    BY <2>1, <2>2 DEF ModeInv
  <2>4. \A i \in 1..Len(results') : results'[i].source = "local" <=> args.mode = "offline"
    BY <1>4, <2>1, <2>3 DEF ModeInv, AskedModeHolds
  <2> QED
    BY <1>1, <1>2, <1>3, <1>4, <2>2, <2>3, <2>4 DEF ModeInv, AskedModeHolds
<1> QED
  BY <1>5, <1>6

LEMMA ResultInv ==
  ASSUME ModeInv, Result
  PROVE  ModeInv'
<1> DEFINE outcome == [source |-> "local", kind |-> answer.kind]
<1>1. /\ main = "infer" /\ main' = "frames" /\ args' = args /\ answer' = answer
      /\ UNCHANGED <<mode, network_quality, cloud>>
      /\ results' = Append(results, outcome)
  BY DEF Result, loaded, inference, vars, agent
<1>2. AskedMode' = AskedMode /\ AskedQuality' = AskedQuality
  BY <1>1 DEF AskedMode, AskedQuality
<1>3. outcome \in Outcomes /\ outcome.source = "local"
  BY DEF Outcomes, ModeInv
<1> HIDE DEF outcome
<1>4. /\ results' \in Seq(Outcomes)
      /\ \A i \in 1..Len(results') :
           (i \in 1..Len(results) /\ results'[i] = results[i]) \/ results'[i] = outcome
  BY <1>1, <1>3 DEF ModeInv
<1>5. \A i \in 1..Len(results') : results'[i].source = "local" <=> args.mode = "offline"
  BY <1>1, <1>3, <1>4 DEF ModeInv, AskedModeHolds
<1> QED
  BY <1>1, <1>2, <1>4, <1>5 DEF ModeInv, AskedModeHolds

LEMMA NodeNextMode ==
  ASSUME ModeInv, [NodeNext]_nodeVars
  PROVE  ModeInv'
<1>1. answer'.kind \in AnswerKinds
  BY NodeInfers, AnswerKept DEF ModeInv
<1>2. ASSUME UNCHANGED <<mode, network_quality, cloud, args, results>>,
             \/ main' = main
             \/ /\ main \in {"detect", "sensors", "smi"}
                /\ main' \in {"sensors", "smi", "mode"}
             \/ main \in {"monitoring", "frames"} /\ main' \in {"frames", "done"}
      PROVE  ModeInv'
  BY <1>1, <1>2 DEF ModeInv, AskedModeHolds, AskedMode, AskedQuality
<1>3. CASE Detect
  BY <1>2, <1>3 DEF Detect, vars, agent, loaded
<1>4. CASE ReadSensors \/ SmiAnswers
  BY <1>2, <1>4 DEF ReadSensors, SmiAnswers, vars, agent, loaded
<1>5. CASE LoadBackend
  BY <1>2, <1>5 DEF LoadBackend, vars, agent
<1>6. CASE ForceMode
  BY <1>6, ForceModeInv
<1>7. CASE StartMonitoring
  BY <1>2, <1>7 DEF StartMonitoring, start_monitoring, agent, loaded
<1>8. CASE ProcessFrame
  BY <1>8, ProcessFrameInv
<1>9. CASE Infer
  BY <1>2, <1>9 DEF Infer, vars, agent, loaded
<1>10. CASE Result
  BY <1>10, ResultInv
<1>11. CASE Stop
  BY <1>2, <1>11 DEF Stop, stop, agent, loaded
<1>12. ASSUME NEW d \in host, Unplug(d)
       PROVE  ModeInv'
  BY <1>2, <1>12 DEF Unplug, vars, agent, loaded
<1>13. ASSUME NEW m \in Monitors, Monitor(m)
       PROVE  ModeInv'
  BY <1>2, <1>13 DEF Monitor, MonitorStep, agent, loaded
<1>14. CASE UNCHANGED nodeVars
  BY <1>2, <1>14 DEF nodeVars, vars, agent, loaded
<1> QED
  BY <1>3, <1>4, <1>5, <1>6, <1>7, <1>8, <1>9, <1>10, <1>11, <1>12, <1>13, <1>14
  DEF NodeNext, MainStep

\* The mode asked for on the command line holds for every frame: offline, none reaches
\* the cloud, and else all do.
THEOREM AskedModeKept == NodeSpec => []AskedModeHolds
<1>1. NodeInit => ModeInv
  BY DEF NodeInit, Init, InferInit, Backend!Nothing, AnswerKinds, ModeInv, AskedModeHolds
<1>2. ModeInv /\ [NodeNext]_nodeVars => ModeInv'
  BY NodeNextMode
<1>3. ModeInv => AskedModeHolds
  BY DEF ModeInv
<1> QED
  BY <1>1, <1>2, <1>3, PTL DEF NodeSpec

-----------------------------------------------------------------------------
(* Names and readings are the device's own.                                *)

NvidiaLines(devices) ==
  \A d \in devices : d.smi # {} \/ d.info = "model" => d.vendor = "0x10de"

OneNvidia(devices) ==
  \A d, e \in devices : d.vendor = "0x10de" /\ e.vendor = "0x10de" => d = e

\* An accelerator has its own name and directory, and is taken for NVIDIA's only if its
\* device is.
OwnName(a, devices) ==
  /\ a.device_path \in devices
  /\ a.name \subseteq {a.device_path}
  /\ a.sysfs_device \subseteq {a.device_path}
  /\ a.vendor = "NVIDIA" => a.device_path.vendor = "0x10de"

LEMMA AcceleratorFields ==
  ASSUME NEW kind, NEW vendor, NEW name, NEW d, NEW sysfs_device,
         NEW a, a = Accelerator(kind, vendor, name, d, sysfs_device)
  PROVE  a.vendor = vendor /\ a.name = name /\ a.device_path = d /\ a.sysfs_device = sysfs_device
BY DEF Accelerator

LEMMA NvidiaId ==
  ASSUME NEW id
  PROVE  vendor_from_pci_id(id) = "NVIDIA" <=> id = "0x10de"
BY DEF vendor_from_pci_id

LEMMA DetectedNames ==
  ASSUME NEW devices, NvidiaLines(devices), OneNvidia(devices),
         NEW model \in nvidia_model_names(devices), NEW a \in detect_accelerators(devices, model)
  PROVE  OwnName(a, devices)
<1>1. CASE a \in detect_drm_gpus(devices, model)
  <2> DEFINE name(d) == IF vendor_from_pci_id(d.vendor) = "NVIDIA" /\ model # {}
                        THEN model ELSE {d}
  <2>1. PICK d \in devices :
          a = Accelerator("GPU", vendor_from_pci_id(d.vendor), name(d), d, {d})
    BY <1>1 DEF detect_drm_gpus
  <2>2. name(d) \subseteq {d}
    <3>1. CASE d.vendor = "0x10de" /\ model # {}
      <4>1. PICK e \in devices : e.info = "model" /\ model = {e}
        BY <3>1 DEF nvidia_model_names
      <4>2. e = d
        BY <3>1, <4>1 DEF NvidiaLines, OneNvidia
      <4> QED
        BY <4>1, <4>2
    <3>2. CASE ~(d.vendor = "0x10de" /\ model # {})
      BY <3>2, NvidiaId
    <3> QED
      BY <3>1, <3>2
  <2> HIDE DEF name
  <2> QED
    BY <2>1, <2>2, AcceleratorFields, NvidiaId DEF OwnName
<1>2. CASE a \in detect_accel_npus(devices)
  <2> DEFINE vendor(d) ==
        CASE d.driver = "amdxdna"    -> "AMD"
          [] d.driver = "intel_vpu"  -> "Intel"
          [] d.driver = "qaic"       -> "Qualcomm"
          [] d.driver = "habanalabs" -> "Habana"
          [] d.driver = "none"       -> vendor_from_pci_id(d.vendor)
          [] OTHER                   -> "Other"
  <2>1. \A d : vendor(d) = "NVIDIA" => vendor_from_pci_id(d.vendor) = "NVIDIA"
    OBVIOUS
  <2>2. PICK d \in devices : a = Accelerator("NPU", vendor(d), {d}, d, {d})
    BY <1>2 DEF detect_accel_npus
  <2> HIDE DEF vendor
  <2> QED
    BY <2>1, <2>2, AcceleratorFields, NvidiaId DEF OwnName
<1>3. CASE a \in detect_misc_npus(devices)
  <2> DEFINE vendor == [rknpu |-> "Rockchip", hailo |-> "Hailo"]
  <2>1. \A dir \in DOMAIN vendor : vendor[dir] # "NVIDIA"
    OBVIOUS
  <2>2. PICK d \in devices :
          d.dir \in DOMAIN vendor /\ a = Accelerator("NPU", vendor[d.dir], {d}, d, {})
    BY <1>3 DEF detect_misc_npus
  <2> HIDE DEF vendor
  <2> QED
    BY <2>1, <2>2, AcceleratorFields DEF OwnName
<1> QED
  BY <1>1, <1>2, <1>3 DEF detect_accelerators

OfDevice(r, a) == r.temp_c \cup r.power_w \cup r.utilization_pct \subseteq {a.device_path}

\* A reading of hwmon is of the accelerator's device, as far as that is still there.
LEMMA HwmonOfDevice ==
  ASSUME NEW devices, NEW present, NEW a, OwnName(a, devices)
  PROVE  OfDevice(read_sensors(a, present), a)
<1>1. OfDevice(hwmon(a, present), a)
  BY DEF OfDevice, hwmon, read_hwmon_sensors, OwnName
<1>2. OfDevice(NoReading, a)
  BY DEF OfDevice, NoReading
<1>. QED
  BY <1>1, <1>2 DEF read_sensors

\* nvidia-smi is asked for the only device it may list, or lists none.
LEMMA SmiOfDevice ==
  ASSUME NEW devices, NvidiaLines(devices), OneNvidia(devices),
         NEW present \in SUBSET devices, NEW first \in nvidia_smi_first(present),
         NEW a, OwnName(a, devices), a.vendor = "NVIDIA"
  PROVE  OfDevice(read_nvidia_smi_sensors(first), a)
<1>1. first \subseteq {a.device_path}
  BY DEF nvidia_smi_first, OwnName, NvidiaLines, OneNvidia
<1>. QED
  BY <1>1 DEF OfDevice, read_nvidia_smi_sensors

ReadInv ==
  /\ main = "detect" => NvidiaLines(host) /\ asked = {} /\ printed = {}
  /\ main \in {"sensors", "smi"} =>
       /\ NvidiaLines(detected) /\ host \subseteq detected
       /\ unread \subseteq accelerators /\ asked \subseteq accelerators
       /\ OneNvidia(detected) => \A a \in accelerators : OwnName(a, detected)
  /\ \A a \in asked : a.vendor = "NVIDIA"
  /\ ReadingsOwn

\* A line with an own name and an own reading joins the others.
LEMMA LinePrinted ==
  ASSUME ReadInv, NEW a, NEW reading, PrintLine(a, reading), detected' = detected,
         OneNvidia(detected) => OfDevice(reading, a) /\ OwnName(a, detected)
  PROVE  ReadingsOwn'
BY DEF ReadInv, PrintLine, OneNvidia, OfDevice, OwnName, ReadingsOwn

LEMMA NodeNextRead ==
  ASSUME ReadInv, [NodeNext]_nodeVars
  PROVE  ReadInv'
<1>. USE DEF OneNvidia
<1>1. CASE Detect
  <2>1. /\ main = "detect" /\ main' = "sensors" /\ detected' = host
        /\ UNCHANGED <<host, asked, printed>> /\ unread' = accelerators'
        /\ NvidiaLines(host) /\ printed = {}
    BY <1>1 DEF Detect, ReadInv
  <2>2. PICK model \in nvidia_model_names(host) : accelerators' = detect_accelerators(host, model)
    BY <1>1 DEF Detect
  <2>3. OneNvidia(host) => \A a \in accelerators' : OwnName(a, host)
    BY <2>1, <2>2, DetectedNames
  <2>4. asked = {}
    BY <2>1 DEF ReadInv
  <2>. QED
    BY <2>1, <2>3, <2>4 DEF ReadInv, ReadingsOwn, NvidiaLines
<1>2. CASE ReadSensors
  <2>1. PICK a \in unread :
          /\ unread' = unread \ {a}
          /\ IF asks_nvidia_smi(a, host)
             THEN main' = "smi" /\ asked' = {a} /\ UNCHANGED printed
             ELSE PrintLine(a, read_sensors(a, host)) /\ UNCHANGED <<main, asked>>
    BY <1>2 DEF ReadSensors
  <2>2. /\ main = "sensors" /\ main' \in {"sensors", "smi"}
        /\ UNCHANGED <<host, detected, accelerators>>
    BY <1>2 DEF ReadSensors
  <2>3. a \in accelerators /\ (OneNvidia(detected) => OwnName(a, detected))
    BY <2>1, <2>2 DEF ReadInv
  <2>4. ReadingsOwn'
    <3>1. CASE asks_nvidia_smi(a, host)
      BY <2>1, <2>2, <3>1 DEF ReadInv, ReadingsOwn
    <3>2. CASE ~asks_nvidia_smi(a, host)
      BY <2>1, <2>2, <2>3, <3>2, LinePrinted, HwmonOfDevice
    <3>. QED
      BY <3>1, <3>2
  <2>5. asked' \subseteq accelerators /\ \A b \in asked' : b.vendor = "NVIDIA"
    BY <2>1, <2>2, <2>3 DEF ReadInv, asks_nvidia_smi
  <2>. QED
    BY <2>1, <2>2, <2>4, <2>5 DEF ReadInv, NvidiaLines, OwnName
<1>3. ASSUME UNCHANGED <<detected, asked, printed>>,
             main' \notin {"detect", "sensors", "smi"}
      PROVE  ReadInv'
  BY <1>3 DEF ReadInv, ReadingsOwn
<1>4. CASE LoadBackend \/ ForceMode \/ StartMonitoring \/ ProcessFrame \/ Infer \/ Result \/ Stop
  BY <1>3, <1>4 DEF LoadBackend, ForceMode, StartMonitoring, ProcessFrame, Infer, Result, Stop,
                    hardware
<1>5. ASSUME NEW d \in host, Unplug(d)
      PROVE  ReadInv'
  BY <1>5 DEF Unplug, ReadInv, ReadingsOwn, NvidiaLines, OwnName
<1>6. ASSUME UNCHANGED <<main, hardware>>
      PROVE  ReadInv'
  BY <1>6 DEF hardware, ReadInv, ReadingsOwn, NvidiaLines, OwnName
<1>7. ASSUME NEW m \in Monitors, Monitor(m)
      PROVE  ReadInv'
  BY <1>6, <1>7 DEF Monitor
<1>8. CASE UNCHANGED nodeVars
  BY <1>6, <1>8 DEF nodeVars
<1>9. CASE SmiAnswers
  <2>1. PICK a \in asked, first \in nvidia_smi_first(host) :
          PrintLine(a, read_nvidia_smi_sensors(first))
    BY <1>9 DEF SmiAnswers
  <2>2. /\ main = "smi" /\ main' = "sensors" /\ asked' = {}
        /\ UNCHANGED <<host, detected, accelerators, unread>>
    BY <1>9 DEF SmiAnswers
  <2>3. ReadingsOwn'
    <3>1. /\ NvidiaLines(detected) /\ host \in SUBSET detected /\ a.vendor = "NVIDIA"
          /\ OneNvidia(detected) => OwnName(a, detected)
      BY <2>2 DEF ReadInv
    <3>. QED
      BY <2>1, <2>2, <3>1, LinePrinted, SmiOfDevice
  <2>. QED
    BY <2>2, <2>3 DEF ReadInv, NvidiaLines, OwnName
<1>. QED
  BY <1>1, <1>2, <1>4, <1>5, <1>7, <1>8, <1>9 DEF NodeNext, MainStep

\* On a node with at most one NVIDIA device, names and readings are the device's own.
THEOREM OwnReadings == NodeSpec => []ReadingsOwn
<1>1. NodeInit => ReadInv
  BY HostsAssumption DEF NodeInit, ReadInv, ReadingsOwn, NvidiaLines
<1>2. ReadInv /\ [NodeNext]_nodeVars => ReadInv'
  BY NodeNextRead
<1>3. ReadInv => ReadingsOwn
  BY DEF ReadInv
<1> QED
  BY <1>1, <1>2, <1>3, PTL DEF NodeSpec
=============================================================================
