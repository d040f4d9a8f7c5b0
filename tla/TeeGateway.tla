----------------------------- MODULE TeeGateway -----------------------------
(***************************************************************************)
(* The relay of crates/tee-gateway: an API token sealed by a TEE backend,  *)
(* frames turned into cloud calls, and what is counted and logged of them. *)
(* The gateway is used through &mut self, so while a call awaits the cloud *)
(* nothing else happens to it; but the caller may drop the call there.     *)
(*                                                                         *)
(* The backend is any TeeBackend: attesting and sealing may fail.  Sealed  *)
(* data is named by what was sealed; only the empty token seals to nothing.*)
(***************************************************************************)
EXTENDS Naturals, Sequences, FiniteSets, FiniteSetsExt

CONSTANTS
  Tokens,       \* API tokens; "" is the empty one
  NotUtf8,      \* those that are not valid UTF-8
  Sources,      \* source_ip of frames
  FrameIds,     \* frame_id of frames
  MaxChoices,   \* bound on the choices in an answer
  FrameBound    \* bound on the frames processed

ASSUME TokensAssumption == NotUtf8 \subseteq Tokens \ {""}
ASSUME BoundsAssumption == MaxChoices \in Nat /\ FrameBound \in Nat

VARIABLES
  live,                    \* whether cloud calls are made: new_live, or new
  attested, sealed_data,   \* SealedStorage
  qwen_api_key,            \* Option<String>: {} or a singleton
  http_client,             \* whether the client was built
  processed_frames,
  session_cache,           \* frame_count by source
  pending,                 \* the frame whose call awaits the cloud: {} or a singleton
  returned,                \* history: what each finished call returned
  cancelled,               \* history: calls dropped while they waited
  panicked                 \* history: generate_execution_log panicked

storage == <<live, attested, sealed_data, qwen_api_key, http_client>>
counts  == <<processed_frames, session_cache>>
vars    == <<storage, counts, pending, returned, cancelled, panicked>>

Frame == [frame_id: FrameIds, source_ip: Sources]

\* String::from_utf8_lossy: invalid tokens lose their identity.
Lossy(token) == IF token \in NotUtf8 THEN "\\uFFFD" ELSE token

-----------------------------------------------------------------------------
Init ==
  /\ live \in BOOLEAN
  /\ attested = FALSE /\ sealed_data = ""
  /\ qwen_api_key = {} /\ http_client = FALSE
  /\ processed_frames = 0
  /\ session_cache = [s \in {} |-> 0]
  /\ pending = {}
  /\ returned = <<>> /\ cancelled = 0 /\ panicked = FALSE

\* Mutant: the key is kept in memory before it is sealed.
initializeKeyFirst(token, attests, seals) ==
  /\ pending = {}
  /\ attested' = (attested \/ attests)
  /\ sealed_data' = IF attests /\ seals THEN token ELSE sealed_data
  /\ IF attests
     THEN qwen_api_key' = {Lossy(token)} /\ http_client' = TRUE
     ELSE UNCHANGED <<qwen_api_key, http_client>>
  /\ UNCHANGED <<live, counts, pending, returned, cancelled, panicked>>

\* Attest, seal, keep the key, build the client: each step only if the one before
\* succeeded, and nothing is undone when one fails.
initialize(token, attests, seals) ==
  /\ pending = {}
  /\ attested' = (attested \/ attests)
  /\ IF attests /\ seals
     THEN /\ sealed_data' = token
          /\ qwen_api_key' = {Lossy(token)}
          /\ http_client' = TRUE
     ELSE UNCHANGED <<sealed_data, qwen_api_key, http_client>>
  /\ UNCHANGED <<live, counts, pending, returned, cancelled, panicked>>

unseal ==
  IF ~attested THEN [ok |-> FALSE, error |-> "AttestationFailed"]
  ELSE IF sealed_data = "" THEN [ok |-> FALSE, error |-> "UnsealingFailed"]
  ELSE [ok |-> TRUE, data |-> sealed_data]

-----------------------------------------------------------------------------
Counted(source) ==
  /\ processed_frames' = processed_frames + 1
  /\ session_cache' = [s \in DOMAIN session_cache \cup {source} |->
       (IF s \in DOMAIN session_cache THEN session_cache[s] ELSE 0)
         + (IF s = source THEN 1 ELSE 0)]

Error(f, error) == [ok |-> FALSE, frame |-> f, error |-> error]
Response(f, id, choices) ==
  [ok |-> TRUE, frame |-> f, request_id |-> id, choices |-> choices]

\* Mutant: requests are numbered by the source's own count.
SimulatedPerSource(f) ==
  Response(f, session_cache'[f.source_ip], 1)

\* The canned response is numbered by the frames processed.
Simulated(f) == Response(f, processed_frames', 1)

\* Mutant: a frame whose call has to wait is not counted.
process_frameCountsLate(f) ==
  /\ pending = {} /\ processed_frames < FrameBound
  /\ IF live /\ qwen_api_key # {} THEN UNCHANGED counts ELSE Counted(f.source_ip)
  /\ IF qwen_api_key = {}
     THEN returned' = Append(returned, Error(f, "ApiKeyNotInitialized")) /\ UNCHANGED pending
     ELSE IF live
     THEN pending' = {f} /\ UNCHANGED returned
     ELSE returned' = Append(returned, Simulated(f)) /\ UNCHANGED pending
  /\ UNCHANGED <<storage, cancelled, panicked>>

\* The frame is counted first, whatever becomes of it.  Without a key the call fails
\* at once; a live call goes out and waits.
process_frame(f) ==
  /\ pending = {} /\ processed_frames < FrameBound
  /\ Counted(f.source_ip)
  /\ IF qwen_api_key = {}
     THEN returned' = Append(returned, Error(f, "ApiKeyNotInitialized")) /\ UNCHANGED pending
     ELSE IF live
     THEN pending' = {f} /\ UNCHANGED returned
     ELSE returned' = Append(returned, Simulated(f)) /\ UNCHANGED pending
  /\ UNCHANGED <<storage, cancelled, panicked>>

\* Answers of the cloud: the request or its body may fail, the status may be an
\* error, the body may not be JSON, and its choices may be missing or empty (0).
Replies ==
  [kind: {"request failed", "HTTP status", "bad JSON"}, choices: {0}]
    \cup [kind: {"JSON"}, choices: 0..MaxChoices]

\* Mutant: an answer without choices is passed on.
OutcomeUnchecked(f, reply) ==
  IF reply.kind = "JSON"
  THEN Response(f, 0, reply.choices)
  ELSE Error(f, "QwenApiError")

\* The request_id is the cloud's; 0 stands for it.
Outcome(f, reply) ==
  IF reply.kind = "JSON" /\ reply.choices > 0
  THEN Response(f, 0, reply.choices)
  ELSE Error(f, "QwenApiError")

Answer(f, reply) ==
  /\ f \in pending
  /\ pending' = {}
  /\ returned' = Append(returned, Outcome(f, reply))
  /\ UNCHANGED <<storage, counts, cancelled, panicked>>

\* The caller drops the future at one of its awaits.
Cancel ==
  /\ pending # {}
  /\ pending' = {}
  /\ cancelled' = cancelled + 1
  /\ UNCHANGED <<storage, counts, returned, panicked>>

\* The log takes choices[0] without looking; the rest of it is formatting and a hash.
generate_execution_log(r) ==
  /\ pending = {} /\ r.ok
  /\ panicked' = (panicked \/ r.choices = 0)
  /\ UNCHANGED <<storage, counts, pending, returned, cancelled>>

Next ==
  \/ \E token \in Tokens, attests, seals \in BOOLEAN : initialize(token, attests, seals)
  \/ \E f \in Frame : process_frame(f)
  \/ \E f \in pending, reply \in Replies : Answer(f, reply)
  \/ Cancel
  \/ \E i \in 1..Len(returned) : generate_execution_log(returned[i])

Spec == Init /\ [][Next]_vars

-----------------------------------------------------------------------------
(* Properties.                                                             *)

is_initialized == qwen_api_key # {} /\ attested

\* The key in memory is the sealed token's, through every failed or repeated
\* initialize: a key is held only under attestation, it reads as what is sealed, and
\* unless the token is empty it can be unsealed again.
KeyIsSealedToken ==
  \A key \in qwen_api_key :
    /\ is_initialized /\ http_client
    /\ Lossy(sealed_data) = key
    /\ key # "" => unseal.ok

Total(f) == FoldSet(LAMBDA s, sum : sum + f[s], 0, DOMAIN f)

\* Every frame is counted once for its source and once in all, whether its call
\* answers, fails, is still waiting or was dropped by the caller.
FramesAccounted ==
  /\ processed_frames = Total(session_cache)
  /\ processed_frames = Len(returned) + cancelled + Cardinality(pending)

\* Every response that process_frame returns can be logged, whatever the cloud sent:
\* generate_execution_log never panics.
AnswersLoggable == ~panicked

\* The canned responses of offline runs carry different request ids ("tee-req-N"),
\* whatever failed in between and whoever sent the frames.
RequestIdsUnique ==
  ~live => \A i, j \in 1..Len(returned) :
    /\ i # j /\ returned[i].ok /\ returned[j].ok
    => returned[i].request_id # returned[j].request_id
=============================================================================
