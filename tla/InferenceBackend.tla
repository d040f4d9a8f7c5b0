-------------------------- MODULE InferenceBackend --------------------------
(***************************************************************************)
(* What the agent expects of a local inference backend (the trait          *)
(* InferenceBackend of crates/edge-agent): a call comes back, with an      *)
(* error or with at most as many tokens as were asked for.                 *)
(***************************************************************************)
EXTENDS Naturals

VARIABLES
  busy,     \* a call is in progress
  limit,    \* max_tokens of the last call
  answer    \* what the last finished call returned

vars == <<busy, limit, answer>>

Nothing   == [kind |-> "nothing", tokens |-> 0]
Error     == [kind |-> "error", tokens |-> 0]
Output(n) == [kind |-> "output", tokens |-> n]

Init == ~busy /\ limit \in Nat /\ answer = Nothing

Infer ==
  /\ ~busy /\ busy'
  /\ limit' \in Nat
  /\ UNCHANGED answer

Return ==
  /\ busy /\ ~busy'
  /\ answer' \in {Error} \cup {Output(n) : n \in 0..limit}
  /\ UNCHANGED limit

Safety == Init /\ [][Infer \/ Return]_vars

\* A call never hangs.
Spec == Safety /\ (busy ~> ~busy)
=============================================================================
