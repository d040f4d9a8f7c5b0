# A TLA+ verification of SovereignEdge-TEE-Agent

SovereignEdge relays telemetry from an edge device to a cloud model: packets are
picked up on the device, an edge agent decides by network quality where a frame
goes, a post-quantum session carries it to a gateway in a trusted execution
environment, and a proof generator states that an action kept to a policy. The
modules here model the Rust and C code of `crates/`; TLC checks them on small
instances and TLAPS proves the most important results for all instances.

Run TLC with `tlc -config <run>.cfg <module>.tla` and the proofs with
`tlapm PqcTransportProofs.tla` (likewise the other `*Proofs` modules). `PROJECT.json`
lists every run, the source lines of every definition, the hazards, and for every
property a mutation of the code that breaks it.

## 1. Inventory

| Component | State | Operations | Uses |
|---|---|---|---|
| `pqc-transport` sessions | two keys, two nonce counters, last activity | `encrypt`, `decrypt`, `is_expired` | clock |
| `pqc-transport` manager | key pair, mutexed list of mutexed sessions | `establish_session`, `accept_session`, `encrypt_frame`, `decrypt_frame`, `cleanup_expired`, `session_count` | sessions, KEM and AEAD libraries |
| `edge-agent` | mode, last mode, quality, buffer, frame counter, statistics, shared `running` flag | `update_network_quality`, `process_frame`, `probe_network_quality`, `start_monitoring`, `stop` | buffer, backend, callback, monitoring threads |
| `common` buffer | queue of frames, byte count | `push`, `clear` | - |
| `tee-gateway` | sealed token, key in memory, frame count, frames per source | `initialize`, `process_frame` (async), `generate_execution_log` | TEE backend, HTTP |
| `zk-proofs` | policies and setup keys by id, proof counter | `register_policy`, `generate_proof`, `verify_proof`, constraint evaluation | Groth16 library |
| `xdp-ingest` daemon | flag, UMEM, statistics | receive loop, signal, shutdown | a blocking task, Ctrl-C |
| `xdp-ingest` eBPF filter | ring buffer | one call per packet | kernel |
| `helpers` buffer | memory, two positions | `write_slice`, `advance_write`, `advance_read`, `read_slice`, `reset` | - |
| local inference | the batch and the context of one call | `infer` | llama.cpp |
| hardware detection | none: it reads what is there | `detect_accelerators`, `read_sensors`, `supports_llama_offload` | sysfs, `nvidia-smi` |
| binaries `edge_agent`, `tee_gateway` | where `main` is | their `main` | agent, hardware, inference; gateway |
| metrics, builders, fixtures, time | none that lasts | - | prometheus |

The crates interact little at run time: the binaries build one object each and call
it. What couples the parts is data: the agent's frames, the sessions' keys and
counters at both ends of an unreliable network, the gateway's responses that the
log function indexes, the generator's policies that verification reads again.

The hard behaviours:

- **Unreliable delivery.** A session's nonces are counters that no frame carries;
  the datagram network loses, repeats, reorders and damages frames, and handshake
  messages can be delivered twice or to the wrong node.
- **Threads.** A manager is shared: a list lock is held while session locks are
  taken, handles outlive the list, transmission happens after the lock is released.
  The agent's monitors and the XDP daemon's loop test flags others write.
- **Suspension.** The gateway counts a frame before it awaits the cloud, and the
  caller may drop the call there.
- **Partial failure.** `initialize` and `register_policy` have several steps that
  fail separately and leave what earlier steps did; a decode may fail in mid-generation.
- **Stale state.** An accelerator detected a moment ago may be unplugged when its sensors are
  read, and the fallback answers for whichever device is first.
- **Waiting without a timeout.** `main` waits for the `nvidia-smi` it started, and the gateway for
  its HTTP call, for as long as they take.
- **Boundaries.** The nonce limit, buffer caps, `u16` and `usize` wraparound, the
  rounding of integers to floating point, clocks that are set back.

What makes each component correct is stated in section 4 with the runs.

## 2. Modules

| Module | Models |
|---|---|
| `PqcTransport` | key exchange, sessions, managers, network and clock |
| `SecureChannel` | what the transport promises: the abstract specification of `PqcTransport` and of `SessionThreads` |
| `SessionThreads` | the same sessions at the grain of locks and threads |
| `ContextBuffer`, `EdgeAgent` | the buffer as operators, the agent that uses it |
| `TeeGateway` | the gateway, its backend and the cloud's answers |
| `PolicyEvaluator` | constraint evaluation against its declarative meaning |
| `ZkProofs` | registry, generation and verification; its `Evaluate` is `PolicyEvaluator`'s `verify_constraints` in `MCZkProofs` and in the proofs |
| `XdpDaemon`, `XdpFilter` | ingestion in user space and in the kernel |
| `ZeroCopyBuffer`, `ByteQueue` | the byte buffer and the queue it implements |
| `Inference`, `InferenceBackend` | `LlamaCppBackend::infer` token by token, and the trait's promise that it implements |
| `Hardware` | detection and sensors as operators over the devices of a host |
| `EdgeNode` | the `edge_agent` binary: `EdgeAgent`, `Hardware` and `Inference` composed by `main` |
| `GatewayMain` | the `tee_gateway` binary on top of `TeeGateway` |
| `MC*` | values of constants that a .cfg cannot write, and the two side-by-side instances below |
| `*Proofs` | theorems about the component they are named after; `IngestProofs` about daemon, filter and byte buffer, `PolicyEvaluatorProofs` also about evaluator and registry together |

Definitions carry the names of the source. An action is a whole method on its path to
success; a method that returns an error and changes nothing is the absence of the
step. A definition under "Mutant" is a broken variant that no
specification uses: substituted for the definition it is named after, it makes the
property that `PROJECT.json` pairs with it fail.

### PqcTransport

A session is the record behind a handle (`Arc<Mutex<PqcSession>>`); `sessions` is each
manager's list, and a handle dropped from it keeps working, as in the code.
Cryptography is symbolic: a shared secret is named by the key pair and the
encapsulation it came from, and a ciphertext opens exactly under the key, nonce and
associated data of its sealing. Consequences of the code are kept: `accept_session`
remembers nothing, so an encapsulation can be accepted twice, and decapsulation with
the wrong key pair yields another secret, not an error. `wire` is a set whose
elements can be read again (duplication, reordering), removed (`Lose`) or given another
`frame_id` (`Damage`). All nodes share one clock, which `SetClock` moves either way.
`sent` and `delivered` are histories.

### SessionThreads

Every thread has a program counter; mutexes are `owner`. A critical section is split
where another thread could see or need what is inside, and is one step otherwise.
`SetClock` sets the wall clock to any reading, earlier ones too, between any two steps.
The network is in order and loses nothing here, so that what is lost is lost by the
threads: between sealing and transmission a sender may be overtaken by another, and
between taking a frame from the wire and opening it a receiver may. Poisoned mutexes
(a panic while locked) are left out.

### EdgeAgent and ContextBuffer

The agent is owned by one thread, so a method is a step; `Transitioning` exists only
inside a call. Monitors are threads of their own that share `running`; nothing in the library
raises it, but `start_monitoring` returns a clone of it, and whoever has that may store into it at
any time (`store_running`). `stopped` is the history of the flag's being lowered. The eviction
loops of `push` are written as the least number of evictions after which the loop's
condition fails. Measurements are natural numbers; the thresholds of the source
are integral. Replacing the backend or the callback changes no modelled state. The
binary binds the flag that `start_monitoring` returns and never uses it, so `EdgeNode` has no such
store.

### Hardware, Inference and EdgeNode

A device is what sysfs, `/dev`, `/proc/driver/nvidia` and `nvidia-smi` show of it; directories are
listed in any order, so what depends on the first entry is a choice. A reading is told by the
device it came from, which is what the property about it needs. `Inference` counts tokens and
keeps their positions: a call makes a context, puts the prompt in a batch, decodes it, then
samples and decodes one token at a time; every `?` is `Fail`. `InferenceBackend` is the trait's
contract: a call returns, with an error or with at most `max_tokens` tokens.

`EdgeNode` runs `main` of `edge_agent` over the three: detection, sensors (devices may be unplugged
meanwhile, and for an NVIDIA device without a sufficient `hwmon` `main` waits in `smi` until
`nvidia-smi` ends, if it ever does), loading a model, the forced mode, the monitoring thread, the demonstration frames, the
end. The agent's actions are used as they are; a frame that is routed to a loaded local backend
waits in `infer` until the backend answers. Whether a model loads depends on the build and on
the file, so it is a choice.

### TeeGateway

`process_frame` is a step up to the await (`pending`) and one after it; between them
only `Cancel` (the future is dropped) can happen, for the gateway is borrowed. An
answer is a transport error, an HTTP error status, an undecodable body or a number of
choices, zero included. Whether the gateway makes cloud calls (`live`) is fixed when it is
built. The backend is any implementation of the trait: it may fail
to attest or to seal.

`GatewayMain` is the `tee_gateway` binary: `main` takes its key from the environment or simulates,
initializes, sends one frame, awaits its answer, prints and logs it. A key that is not Unicode is
read as none. Its behaviours stand beside those of an arbitrary user of the library, whose calls
`TeeGateway!Next` allows in any order.

### PolicyEvaluator and ZkProofs

Constraints are trees; the evaluator walks them in order and stops at the first error
or decision. It is compared with the meaning of the tree, which has no order. The trees in
question are a constant (`Conditions`, with the `Depth` of each), so evaluation is a recursive
function that can be proved about; a behaviour evaluates one of `Cases`.
`i64 as f64` rounds to a mantissa of `MantissaBits` bits, ties to even. Thresholds are
numbers the float type holds and no fractions, so `==`, which the code computes as a
difference below `EPSILON`, is equality. `ZkProofs` keeps policies and keys in two
maps as the code does, with setup and proving that may fail.

### XdpDaemon and XdpFilter

Reception is simulated in the source (one packet per round), and so it is here. The flag is
used with `Relaxed` ordering: `seen` is the loop's view and follows `running` in a
step of its own. `XdpFilter` models a packet by its length, its protocols, whether it is a later
fragment of a datagram, what its IP options hold where the program looks for a UDP header, and what
stands behind the IP header: ports and a length, or in a later fragment payload. The program
reads neither the header length nor the fragment offset. `FilterExact` is therefore stated for
packets whose UDP header is in its place (`HeaderInPlace`: no options, no later fragment); what
happens to the others is `Ingest_options_claim`. Options are four bytes long; with more of them the
program reads option bytes only. A frame with a VLAN tag has another Ethernet type and is no IP
packet to the program, nor in the property.

### ZeroCopyBuffer

Positions are `usize` values below `Modulus`; `Checked` tells a build with overflow
checks, where an overflowing call panics, from a release build, where the sum wraps. The workspace
sets no `overflow-checks`, so the runs check the release build. `wrapped` is a history: which
of the two positions went on with a wrapped sum since the last reset.

## 3. Bounds and fairness

Bounds are constants named `*Bound`, `Quota`, `Rounds`, `Now`, `NonceLimit`, or sets of
identities. They are small and still reach the interesting cases:

- `PqcTransport`: two sessions make a pair and three let one encapsulation be accepted
  twice; two frame ids tell a damaged header from an intact one; `NonceLimit` 2 lets
  a session reach its hard stop and one frame follow another; two clock readings are
  a clock that moves and one that is set back. `MCBounded` cuts the product of these: at most
  three frames are sealed among two sessions, two among three, and one once the clock has
  moved. Every property refers to at most two sessions and their frames, or to one session and
  the clock.
- `SessionThreads`: two senders with two frames each and a limit of three exhaust the
  counter with a frame left over; two receivers can overtake each other; a cleaner scans
  two sessions while the clock moves to and fro among the readings up to `Now`.
- `EdgeAgent`: measurements on each threshold and just beyond it; four frames through a
  buffer of two, with sizes of zero, below and above the byte cap, and sums that meet it
  exactly; two transitions are a loss of the network and the recovery that flushes. One
  monitoring thread is enough, since monitors share nothing but the flag, which they only read.
- `TeeGateway`: three frames of two sources; tokens that are empty, usable (two, to initialize
  again with another) and not UTF-8; answers with no, one and two choices.
- `EdgeNode`: eight hosts cover every branch of detection and of the sensors (a card with its
  connector, a card whose `hwmon` value does not parse, two NVIDIA cards, accelerators with and
  without a driver, no device), under eight command lines; three frames; a context of four
  positions, prompts from none to one too many, and two tokens asked for, so that either bound of
  the loop ends it.
- `GatewayMain`: keys that are missing, usable and not Unicode, with and without `--simulate`.
- `PolicyEvaluator`: all trees of depth two over two fields; numbers three bits wider
  than the mantissa cover exact, tied and rounded conversions.
- `ZkProofs`: three registrations of two ids with two proofs in between.
- `XdpDaemon`, `XdpFilter`: three packets, with and without UMEM; lengths on both sides of every
  header's end; options and later fragments; a ring of one record.
- `ZeroCopyBuffer`: three bytes and a 3-bit `usize` that wraps, with every count it holds.

`MCZkProofs` and `MCIngest` check several modules in one run. A behaviour moves one of them; the
modules share no variable, so steps of two in one behaviour would reach nothing new.

`CHECK_DEADLOCK FALSE` stands in the configurations whose system may come to rest:
bounds are used up, or nothing obliges the environment to call again. Symmetry is used on nodes and
sessions of `PqcTransport` only, where no property is a liveness property.

Fairness is weak, and only for what a scheduler runs: a monitor's own step, the steps of
threads in `SessionThreads` (weak, since `std::sync::Mutex` is not fair: a thread may lose a
contended lock as often as others can take it, but they take it a bounded number of times), in
`XdpDaemon` the two tasks and the propagation of a store, in `Inference` the running call, and in
`EdgeNode` the main thread, which waits for no other thread. Callers, the network, clocks, devices,
signals and `nvidia-smi` owe nothing: `SmiAnswers` has no fairness, for nothing ends an
`nvidia-smi` that hangs.

## 4. Runs

| Run | Shows |
|---|---|
| `PqcTransport_sessions` | Whatever the network does, an acceptor opens a prefix of what one initiator sealed (`AcceptorGetsPrefix`); counters stop at the limit (`CounterHardStops`); a nonce repeats under a key only if an encapsulation was accepted twice (`NonceReuseNeedsReaccept`); a lost frame silences the session for good (`LossIsPermanent`); cleanup under a clock set back drops only idle sessions (`OnlyIdleSessionsDropped`); the whole implements `SecureChannel`. |
| `SessionThreads_contended` | Contended sessions: unique nonces, loss only by overtaking, `SecureChannel` implemented, cleanup misses no session that is idle by every reading of the clock during the call and unused since it began, every thread finishes (no deadlock between list and session locks). |
| `EdgeAgent_agent` | Mode, routing and counters agree in every state; a worse measurement never lowers severity; a frame goes to the cloud exactly when the last measurement was not offline; the buffer holds the latest frames since the last flush, its byte count is right, caps hold but for one oversize frame, nothing is evicted needlessly; once the flag is lowered for good, by `stop()` or by its holder, every monitor ends, whatever was stored before. |
| `TeeGateway_relay` | The key in memory is the sealed token's through failed and repeated initializations; every frame is accounted for, cancelled ones too; every response can be logged; canned responses have distinct request ids. The binary calls the cloud only under the key of its environment and succeeds only with an answer it logged (`OwnKeyOrNoCall`). |
| `ZkProofs_proofs` | Issued proofs trace to a version they satisfied and to a key of their own policy id. A verdict is the constraint tree's meaning where numbers are exact; errors name a real cause; a verdict reached without some fields does not depend on them; rounding may blur a comparison to equality but never turns it round. |
| `Ingest_parts` | After a signal the daemon ends; the statistics it prints are final and count the packets and frames received. Where the UDP header is in its place the filter is exact, and lengths fit their field. The buffer's positions stay in the memory though sums wrap; until one does, and again after a reset, they are in order and the buffer is a queue of bytes. |
| `EdgeNode_main` | Layers are offloaded exactly when a usable card was there at detection; names and readings printed for an accelerator are its own; the mode of the command line holds for every frame; each sample is taken of the newest position and the context never overflows; `infer` implements `InferenceBackend`; `main` ends with a result for every frame, unless it waits for ever for an `nvidia-smi` that it asked for an NVIDIA device (`MainFinishes`). |

The passing runs reach between three thousand and a million distinct states; the longest takes
about two minutes.

Five runs end in a violation: each checks a statement of the documentation or the
source that the code does not keep.

| Run | Statement | What the code does |
|---|---|---|
| `PqcTransport_nonce_claim` | README: no (key, nonce) reuse | Accepting one handshake message twice gives two sessions the same keys and counters. |
| `EdgeAgent_flush_claim` | ARCHITECTURE: flush spooled state | Going Online clears the spooled frames. |
| `EdgeAgent_monitor_claim` | continuous monitoring | Nothing sets `running`; the thread exits at once. |
| `ZkProofs_compliance_claim` | README: verifiable compliance | A proof verifies against whatever policy has its id now. |
| `Ingest_options_claim` | filters telemetry frames | With IP options the ports are read from the options; the trace is other traffic that is recorded. Telemetry that is missed, and later fragments judged by payload, follow from the same reading of fixed offsets. |

Divergences noted while modelling that have no run of their own; the models follow
the code:

- `README.md` lists a session timeout. Only cleanup looks at it: a handle works past the
  timeout (`pqc-transport/src/lib.rs`, `encrypt` and `decrypt`).
- `README.md`: buffer caps hold after every push. A frame larger than the byte cap drains the
  buffer and is admitted (`CapsHold` states the exception). `verification/README.md` states the precondition;
  `process_frame` does not establish it.
- `README.md`: hash-chained log. The hash of an entry of `generate_execution_log` covers that entry only.
- `proof_count` of the proof generator is read and never advanced, so all its proofs have one id.
- `read_sensors` speaks of the readings "for this device" (`edge-agent/src/hardware.rs:102`). On a
  host with several NVIDIA devices all of them get the first line of `nvidia-smi` and the first
  model name. `ReadingsOwn` is therefore stated for at most one NVIDIA device.
- `advance_write` and `advance_read` add before they compare: a release build wraps, and the
  position passes the test. `PositionsInOrder` says what is left then: both positions stay in the
  memory, but the reader may be ahead of the writer until the next reset, where `read_slice` panics.
- A cleanup reads the wall clock anew for every session, so a clock that is set back meanwhile saves a
  session that was idle when the cleanup began. `CleanupComplete` states the exception.

## 5. Proofs

Assumptions on constants are named `ASSUME`s of the component modules: bounds are natural
numbers, inputs have their types, and what is said below.

**PqcTransport** (`PqcTransportProofs`), for any nodes, handles, frames, limit and clock
readings, from the three assumptions of the module (`NonceLimit` and `Timeout` are natural
numbers, `Times` a non-empty set of them). None of the properties is inductive by itself:
that a session opens only what a peer sealed rests on who holds which key and on what is in the
network. The inductive invariant `IndInv` is the conjunction of `TypeOK`, `KeysPaired` (the
two keys of a session come from one secret under both labels; a SEND key belongs to the session
whose encapsulation made the secret), `CountersExact` (counters are the lengths of
the histories, the i-th sealing used nonce i - 1), `WireSealed` (what is in the network was
sealed by a session, whatever its header says now) and `DeliveredInOrder`. From it:
`TypeCorrect`, `HardStop`, `NonceReuse`, `InOrder` and `AcceptorPrefix`. A SEND key belongs to one
session and its counter never goes back, so after a gap every frame under that key carries another
nonce than the one expected: `SilencedForGood`. `IdleOnly` is about cleanup alone.

`Refinement`: the transport implements `SecureChannel`. Under
`IndInv` opening a session is `OpenEnd` (`KeysPaired` gives that the initiating side is new),
`encrypt_frame` is `Say`, `decrypt_frame` is `Hear` (`WireSealed` gives the sealing end and that
nothing before the frame is missing), and everything else stutters.

**SessionThreads** (`SessionThreadsProofs`), for any number of threads with one task each
(`ThreadsAssumption`). `NoncesUnique` rests on `LockHeld` (a sender is between reading and
counting the nonce exactly while it owns the lock) and `NonceFresh` (what it sealed under is
still the counter's value); this gives `NoncePerFrame`. For losses, `Counted` says that every frame on
its way or already tried carries a nonce the counter has passed. So the frame being counted was
never tried, `attempts` becomes a prefix of `sealed` only by an opening, and the frame opened in its
turn carries the nonce expected, below the limit: `LossByOvertaking`.

For cleanup, `KeptAlive` says that behind a cleaner's position there are only sessions that some
reading of the clock during its call, which may be set back, finds unexpired or that were used since
it began; holding the list lock (`ListHeld`) keeps openers
from disturbing it, so at the end of the list it says what `CleanupComplete` asks (`CleanupDone`).
`ThreadsRefinement` shows the whole implements `SecureChannel`: `Plans` (each
session is opened by one opener, once; `NamesAssumption` keeps the pair's names apart) makes `Create`
an `OpenEnd`, `Count` is `Say`, and `Provenance` (a frame on its way is the one in the history
under its nonce) makes a successful `Open` a `Hear`. `NoThreadsDeadlock` is the safety part of
`AllFinish`: `CanGo` is a thread's guard, and were none to hold, no sender would hold the session's
lock, so no cleaner the list's, so openers, senders, cleaners and receivers would be done in this
order. It asks for a receiver, for without one the wire is never emptied.

**EdgeAgent** (`EdgeAgentProofs`), for any measurements, sizes and caps.
`ModeMatchesQuality` is inductive, and with it `process_frame` meets neither `Transitioning`
nor an unreachable cloud in `Degraded`; `CloudIdsOld` (the cloud's ids were handed out) makes
the next id new to it. Results: `ModeFollowsQuality`, `CountersAgree`, `Offloading`,
`NeverMilder`.

The buffer needs facts about `Bytes`, a recursive function. The library's induction theorems take an
operator and cannot be used, but the well-foundedness of `<` gives the least-number principle, which
is first-order: a set that contains 0 and with each number its successor contains all
(`Inductively`). With it `Bytes` is the end of a running sum (`BytesIs`), so evicting and
appending change it by what goes and comes (`BytesParts`, `BytesAppend`), and `Pushed` says what a
`push` leaves: the frames after the first `k` and the new one, where `k` evictions make room and
`k - 1` would not. `BufferInv` adds to the three properties that the history has a size per frame and
that the last flush is not in the future. A frame evicted now would not have fitted back; one
evicted earlier did not fit into less, and the buffer has only grown since. Results: `RecentFrames`,
`CapsKept`, `NoNeedlessEviction`, for any caps and sizes.

**EdgeNode** (`EdgeNodeProofs`), for any hosts, command lines, prompts, limits and context
size; `HostsAssumption` says that only NVIDIA devices appear in NVIDIA's listings.
`InferInv` is what holds of a call at each phase; it gives `NodeSamples` and, as every step of the
binary is a step of the contract or a stutter, `NodeBackend`. `CallsRunDown` is what is behind the
liveness of a call: `StepsLeft` falls with each of its steps. `GpuInv` carries the answer of
detection to the loading of the model (`Offload`), `ModeInv` the mode that was forced through the
frames, with the waiting for a local answer (`AskedModeKept`), and `ReadInv` what was detected
through the unplugging and the waiting for `nvidia-smi` (`OwnReadings`).

**TeeGateway** (`TeeGatewayProofs`), for any tokens of which the empty one is valid UTF-8
(`TokensAssumption`). `KeyIsSealedToken` is inductive by itself (`KeySealed`); `ChoicesPresent`
(every response kept has a choice) gives `LoggingSafe`, and `IdsGrow` (offline nothing
waits, so ids grow with the frames processed) gives `IdsUnique`. `OwnKey` is about the binary
(`MainSpec`): `BinaryInv` says at each place of `main` what is initialized, pending and returned.
`BinaryUsesLibrary` shows its behaviours to be among the library's, so all of this holds in it
(`BinaryKeepsPromises`). `FramesAccounted` counts over a set of sources by a fold, which is defined
by a recursive function on finite sets: `SumsExist` and `SumsAgree` give it its equation, by the
well-foundedness of strict inclusion, and `TotalCounted` what one more frame does to it. Then
`FramesCounted` needs only that at most one frame is pending.

**ZkProofs** (`ZkProofsProofs`), for any policies, actions, bounds and any evaluator (`Evaluate` is a
constant). `RegistryInv` traces policies and keys to registrations of their id, perhaps
different ones; `Good` is what each issued proof goes on being. Results: `TypeCorrect`, `ProofsHold`,
`OwnKeys`.

**PolicyEvaluator** (`PolicyEvaluatorProofs`), for any set of constraint trees (`Depth` is any
number that is smaller for what a group contains), any mantissa and any submissions.
`check_constraint` and the declarative meanings are recursive functions on trees. The library's
recursion theorems take an operator, so `Recursion` is proved for functions, from the least-number
principle; with it each definition has its equation (`CheckIs`, `SatisfiesIs`, `WellFormedIs`), and
what is proved of trees is proved of one of least depth that fails it (`Lowest`). `InOrder` is what a
loop ends with: the first verdict other than `go`. So a decision is the meaning's
(`DecisionIsMeaning`), an error is the fault of an ill-formed condition (`ErrorIsIllFormed`) and a
decision stays when fields are added (`DecisionStays`). For floats, a magnitude is rounded to a
neighbouring multiple of its ulp (`Rounded`), hence to the same side of any multiple
(`MultipleKept`). A number that a float holds is a multiple of the other's ulp or lies beyond a
power of two that is, which gives `RoundingOrder`; up to 2^`MantissaBits` nothing changes
(`SmallKept`). `ConditionsAssumption` asks that thresholds are numbers a float holds, as their type
says. Results: `EvaluatorSoundAndComplete`, `EvaluatorMonotone`, `EvaluatorRounding`, and with
`ZkProofs` calling this evaluator, `IssuedMeansCompliant`.

**XdpDaemon and XdpFilter** (`IngestProofs`, over the two instances of `MCIngest`), for any bounds,
packet sizes and frames. `DaemonInv` says that the packets counted and the telemetry frames parsed go
together, and that `main` ends only after the receive loop (`StatsFinal`). For the filter,
`FilterRecords` follows each packet whose UDP header is in its place through the tests of its headers; a record's length is
the 16-bit difference, which wraps exactly for datagrams that claim less than a header.

**ZeroCopyBuffer** (`IngestProofs`), for any capacity and width, in builds that check for overflow
and in builds that wrap. `Sums` says that a sum is a `usize` in either case, and the sum of the
numbers unless the call is noted in `wrapped`; so `TypeOK` and `PositionsInOrder` are inductive
together (`BufferSafe`). While nothing wrapped, each operation extends or shortens `read_slice` as
`ByteQueue` says; a wrapping sum ends the promise, as if all was taken, and a reset starts a new one
(`BufferIsQueue`). `InOrderUnlessWrapping` assumes `NoWrap`, that the build checks or callers pass
counts that cannot overflow: then nothing ever wraps, and the positions are in order throughout.

Only model-checked, or out of reach:

- liveness under fairness, which this prover does not handle (`AllFinish`,
  `StopEndsMonitors`, `ShutdownCompletes`, `MainFinishes`, and the part of `ImplementsBackend` that
  says a call returns; its safety part is `NodeBackend`);
- nothing is proved with ENABLED: `CanGo` spells the guards of the threads' actions out, and that
  they are the guards is read off the actions.

Every invariant and every action property that a passing run checks is also a theorem.

## 6. Not modelled

- Text: prompts, generated tokens, display strings of accelerators, argument parsing, the log's
  format.
- Builders, fixtures, metrics, time formatting, configuration and scripts: test data, wrappers
  and formatting without state of their own.
- The HTTP client and llama.cpp: external, modelled by the outcomes the code distinguishes. The
  HTTP client has no timeout, so a call may stay pending for ever; nothing says it must end.
- Cryptographic strength, Groth16 soundness, the isolation of the TEE: assumed by the
  symbolic treatment and not examined.
- The Lean development of `verification/` is about idealized functions; its
  statements are checked here of the code where they meet (monotone modes, buffer
  caps, nonces).

## 7. Plan

The first plan is carried out: the transport with its threads, then agent, gateway, proofs registry,
evaluator, ingestion and the byte buffer; after them hardware detection, local inference and the
two binaries that put the parts together; and theorems for every safety property of the passing runs.
What is left to add: bounds on the steps of `main` and of the threads of `SessionThreads`, as
`CallsRunDown` gives one for a call of the backend, and theorems about the agent inside the
`edge_agent` binary, as `BinaryKeepsPromises` has them for the gateway's.
