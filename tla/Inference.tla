----------------------------- MODULE Inference -----------------------------
(***************************************************************************)
(* LlamaCppBackend::infer of crates/edge-agent, one token at a time.       *)
(* llama.cpp is external: making a context, tokenizing and decoding may    *)
(* fail, and sampling may yield any token or the end of generation.  The   *)
(* context and the batch are made for a call and dropped with it.          *)
(*                                                                         *)
(* The names of the specification have a prefix, for EdgeNode extends this *)
(* module beside EdgeAgent.                                                *)
(***************************************************************************)
EXTENDS Naturals, Sequences

CONSTANTS
  CTX_SIZE,      \* positions in a context and room in a batch (512)
  Limits,        \* max_tokens of the calls
  PromptSizes    \* numbers of tokens in a prompt

ASSUME InferenceAssumption ==
  CTX_SIZE \in Nat \ {0} /\ Limits \subseteq Nat /\ PromptSizes \subseteq Nat

VARIABLES
  phase,         \* "idle", "started", "prompt", "sampling" or "token"
  max_tokens,
  batch,         \* tokens to decode: their position, whether logits are asked for
  context,       \* the positions decoded in this call, in order
  n_cur, generated,
  answer         \* what the last finished call returned

inference == <<phase, max_tokens, batch, context, n_cur, generated, answer>>

Backend == INSTANCE InferenceBackend WITH
  busy <- (phase # "idle"), limit <- max_tokens

InferInit ==
  /\ phase = "idle"
  /\ max_tokens = 0
  /\ batch = <<>> /\ context = <<>>
  /\ n_cur = 0 /\ generated = 0
  /\ answer = Backend!Nothing

\* infer is called and makes its context.
infer(limit) ==
  /\ phase = "idle"
  /\ phase' = "started"
  /\ max_tokens' = limit
  /\ batch' = <<>> /\ context' = <<>>
  /\ n_cur' = 0 /\ generated' = 0
  /\ UNCHANGED answer

\* Mutant: logits are asked for the first token.
AddPromptFirst(n) ==
  /\ phase = "started"
  /\ n <= CTX_SIZE
  /\ phase' = "prompt"
  /\ batch' = [i \in 1..n |-> [pos |-> i - 1, logits |-> i = 1]]
  /\ UNCHANGED <<max_tokens, context, n_cur, generated, answer>>

\* The prompt is put into the batch, if all of it fits.
AddPrompt(n) ==
  /\ phase = "started"
  /\ n <= CTX_SIZE
  /\ phase' = "prompt"
  /\ batch' = [i \in 1..n |-> [pos |-> i - 1, logits |-> i = n]]
  /\ UNCHANGED <<max_tokens, context, n_cur, generated, answer>>

\* llama.cpp refuses an empty batch.
DecodePrompt ==
  /\ phase = "prompt"
  /\ batch # <<>>
  /\ phase' = "sampling"
  /\ context' = [i \in 1..Len(batch) |-> batch[i].pos]
  /\ n_cur' = Len(batch)
  /\ UNCHANGED <<max_tokens, batch, generated, answer>>

\* Mutant: one token more than asked for.
SampleOneMore ==
  /\ phase = "sampling"
  /\ generated <= max_tokens /\ n_cur < CTX_SIZE
  /\ phase' = "token"
  /\ generated' = generated + 1
  /\ batch' = <<[pos |-> n_cur, logits |-> TRUE]>>
  /\ UNCHANGED <<max_tokens, context, n_cur, answer>>

\* The loop goes round: a token that does not end generation.
Sample ==
  /\ phase = "sampling"
  /\ generated < max_tokens /\ n_cur < CTX_SIZE
  /\ phase' = "token"
  /\ generated' = generated + 1
  /\ batch' = <<[pos |-> n_cur, logits |-> TRUE]>>
  /\ UNCHANGED <<max_tokens, context, n_cur, answer>>

DecodeToken ==
  /\ phase = "token"
  /\ phase' = "sampling"
  /\ context' = Append(context, batch[1].pos)
  /\ n_cur' = n_cur + 1
  /\ UNCHANGED <<max_tokens, batch, generated, answer>>

\* The loop ends: enough tokens, a full context, or the end of generation.
Return ==
  /\ phase = "sampling"
  /\ phase' = "idle"
  /\ answer' = Backend!Output(generated)
  /\ UNCHANGED <<max_tokens, batch, context, n_cur, generated>>

\* No context, no tokens, a prompt too long for the batch, or a failed decode: ?
\* gives up the call and what was generated.
Fail ==
  /\ phase \in {"started", "prompt", "token"}
  /\ phase' = "idle"
  /\ answer' = Backend!Error
  /\ UNCHANGED <<max_tokens, batch, context, n_cur, generated>>

InferStep ==
  \/ \E n \in PromptSizes : AddPrompt(n)
  \/ DecodePrompt
  \/ Sample
  \/ DecodeToken
  \/ Return
  \/ Fail

InferNext == (\E limit \in Limits : infer(limit)) \/ InferStep

\* A call runs on by itself; nobody need make one.
InferSpec == InferInit /\ [][InferNext]_inference /\ WF_inference(InferStep)

-----------------------------------------------------------------------------
(* Properties.                                                             *)

\* Types of the variables.
InferTypeOK ==
  /\ phase \in {"idle", "started", "prompt", "sampling", "token"}
  /\ max_tokens \in Nat
  /\ batch \in Seq([pos: Nat, logits: BOOLEAN])
  /\ context \in Seq(Nat)
  /\ n_cur \in Nat /\ generated \in Nat

\* The context is filled from position 0, without gap or repetition and never past its
\* size, and every sample is taken of the newest position, whose logits were asked for
\* (the sampler is given the index of the last token of the batch).
SamplesNewestPosition ==
  /\ \A i \in 1..Len(context) : context[i] = i - 1
  /\ Len(context) <= CTX_SIZE
  /\ phase = "sampling" =>
       /\ Len(batch) > 0
       /\ batch[Len(batch)] = [pos |-> Len(context) - 1, logits |-> TRUE]

\* infer keeps what the trait promises: "at most max_tokens tokens", or an error, and
\* every call returns.
ImplementsBackend == Backend!Spec
=============================================================================
