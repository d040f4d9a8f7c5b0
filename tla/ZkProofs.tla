------------------------------ MODULE ZkProofs ------------------------------
(***************************************************************************)
(* The proof generator of crates/zk-proofs: policies and setup keys        *)
(* registered by id, proofs issued for actions that satisfy a policy, and  *)
(* the verifier.  Groth16 is a library: setup may fail, proving may fail,  *)
(* and proof bytes have no content here beyond being there.                *)
(***************************************************************************)
EXTENDS Naturals, Sequences

CONSTANTS
  PolicyIds,
  Constraints,        \* circuit_constraints of policies
  Actions,            \* ActionData
  Evaluate(_, _),     \* verify_constraints: "true", "false" or an error
  RegistrationBound,  \* bound on the calls of register_policy
  ProofBound          \* bound on the proofs issued

ASSUME BoundsAssumption == RegistrationBound \in Nat /\ ProofBound \in Nat

VARIABLES
  policies,     \* constraints by policy id
  setup_keys,   \* setup key by policy id; a key is named by the registration it came from
  proof_count,
  registered,   \* history: every registration, in order
  issued        \* history: proofs issued, each with the action it is about

vars == <<policies, setup_keys, proof_count, registered, issued>>

Put(f, id, v) == [x \in DOMAIN f \cup {id} |-> IF x = id THEN v ELSE f[x]]

-----------------------------------------------------------------------------
Init ==
  /\ policies = [id \in {} |-> 0]
  /\ setup_keys = [id \in {} |-> 0]
  /\ proof_count = 0
  /\ registered = <<>>
  /\ issued = <<>>

\* Mutant: one setup serves every policy, the circuit being the same.
register_policySharesKey(id, constraints, setup_ok) ==
  /\ Len(registered) < RegistrationBound
  /\ registered' = Append(registered, [id |-> id, constraints |-> constraints])
  /\ setup_keys' = IF DOMAIN setup_keys # {}
                   THEN Put(setup_keys, id, setup_keys[CHOOSE x \in DOMAIN setup_keys : TRUE])
                   ELSE IF setup_ok THEN Put(setup_keys, id, Len(registered) + 1) ELSE setup_keys
  /\ policies' = Put(policies, id, constraints)
  /\ UNCHANGED <<proof_count, issued>>

\* A registration replaces the policy of its id.  When setup fails the policy is in
\* all the same, with the key of an earlier registration or with none.
register_policy(id, constraints, setup_ok) ==
  /\ Len(registered) < RegistrationBound
  /\ registered' = Append(registered, [id |-> id, constraints |-> constraints])
  /\ setup_keys' = IF setup_ok THEN Put(setup_keys, id, Len(registered) + 1) ELSE setup_keys
  /\ policies' = Put(policies, id, constraints)
  /\ UNCHANGED <<proof_count, issued>>

\* Mutant: an error of the evaluator is taken for satisfied.
SatisfiedLeniently(id, action) == Evaluate(policies[id], action) # "false"

\* The constraint check of generate_proof: an error stops it as a violation does.
Satisfied(id, action) == Evaluate(policies[id], action) = "true"

\* Success needs the policy, its constraints satisfied, and a setup key.  When proving
\* fails a commitment takes the proof's place.  proof_count is read and never counted.
generate_proof(id, action, proved) ==
  /\ Len(issued) < ProofBound
  /\ id \in DOMAIN policies
  /\ Satisfied(id, action)
  /\ id \in DOMAIN setup_keys
  /\ issued' = Append(issued,
       [proof_id |-> proof_count + 1, policy_id |-> id,
        proof_bytes |-> IF proved THEN "Groth16" ELSE "commitment",
        verification_key |-> setup_keys[id], action |-> action])
  /\ UNCHANGED <<policies, setup_keys, proof_count, registered>>

\* verify_proof, for a policy id that is registered: bytes and inputs are there.  Both
\* forms of proof have bytes, and the trace hash is always among the inputs.
valid(proof) == proof.proof_bytes \in {"Groth16", "commitment"}

verify_proof(proof) ==
  [valid |-> valid(proof),
   satisfied_constraints |-> IF valid(proof) THEN Len(policies[proof.policy_id]) ELSE 0]

Next ==
  \/ \E id \in PolicyIds, c \in Constraints, ok \in BOOLEAN : register_policy(id, c, ok)
  \/ \E id \in PolicyIds, a \in Actions, ok \in BOOLEAN : generate_proof(id, a, ok)

Spec == Init /\ [][Next]_vars

-----------------------------------------------------------------------------
(* Properties.                                                             *)

Proof == [proof_id: Nat, policy_id: PolicyIds, proof_bytes: {"Groth16", "commitment"},
          verification_key: 1..RegistrationBound, action: Actions]

\* Types of the variables; a policy without a key is possible, a key without a policy
\* is not.
TypeOK ==
  /\ DOMAIN policies \subseteq PolicyIds
  /\ policies \in [DOMAIN policies -> Constraints]
  /\ DOMAIN setup_keys \subseteq DOMAIN policies
  /\ setup_keys \in [DOMAIN setup_keys -> 1..Len(registered)]
  /\ proof_count \in Nat
  /\ issued \in Seq(Proof)

Proofs == {issued[i] : i \in 1..Len(issued)}
Versions(id) == {registered[i].constraints :
                   i \in {j \in 1..Len(registered) : registered[j].id = id}}

\* Every proof issued is about an action that satisfied some registered version of its
\* policy without an error, and the verifier accepts it for as long as the generator
\* lives: policies are replaced but never removed.
IssuedProofsHold ==
  \A p \in Proofs :
    /\ p.policy_id \in DOMAIN policies /\ verify_proof(p).valid
    /\ \E c \in Versions(p.policy_id) : Evaluate(c, p.action) = "true"

\* The key a proof names was set up by a registration of the proof's own policy id,
\* though perhaps not by the one whose constraints were checked.
KeyOfOwnPolicy ==
  \A p \in Proofs : registered[p.verification_key].id = p.policy_id

\* README "verifiable safety policy compliance": a proof that verifies with every
\* constraint of its policy satisfied is about an action that satisfies them.
ValidMeansCompliant ==
  \A p \in Proofs : verify_proof(p).valid => Evaluate(policies[p.policy_id], p.action) = "true"

=============================================================================
