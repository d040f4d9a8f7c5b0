--------------------------- MODULE ZkProofsProofs ---------------------------
(***************************************************************************)
(* Proofs about ZkProofs, for any policies, any evaluator and any bounds:  *)
(* every proof issued stands for a satisfied version of its policy, stays  *)
(* valid, and names a key that was set up for its own policy id.           *)
(***************************************************************************)
EXTENDS ZkProofs, TLAPS

Registration == [id: PolicyIds, constraints: Constraints]

\* A version of a policy that the action of a proof satisfied.
Holds(proof) ==
  \E i \in 1..Len(registered) :
    /\ registered[i].id = proof.policy_id
    /\ Evaluate(registered[i].constraints, proof.action) = "true"

\* What the registry keeps comes from registrations: a policy and a key each from one
\* of their own id, though perhaps from different ones.
RegistryInv ==
  /\ registered \in Seq(Registration) /\ Len(registered) <= RegistrationBound
  /\ policies \in [DOMAIN policies -> Constraints]
  /\ setup_keys \in [DOMAIN setup_keys -> Nat]
  /\ \A id \in DOMAIN policies :
       \E i \in 1..Len(registered) : registered[i] = [id |-> id, constraints |-> policies[id]]
  /\ DOMAIN setup_keys \subseteq DOMAIN policies
  /\ \A id \in DOMAIN setup_keys :
       setup_keys[id] \in 1..Len(registered) /\ registered[setup_keys[id]].id = id

\* What a proof must go on being.
Good(proof) ==
  /\ proof.policy_id \in DOMAIN policies
  /\ valid(proof)
  /\ Holds(proof)
  /\ proof.verification_key \in 1..Len(registered)
  /\ registered[proof.verification_key].id = proof.policy_id

IssuedProof ==
  [proof_id: Nat, policy_id: PolicyIds, proof_bytes: {"Groth16", "commitment"},
   verification_key: Nat, action: Actions]

IndInv ==
  /\ RegistryInv
  /\ issued \in Seq(IssuedProof)
  /\ proof_count \in Nat
  /\ \A i \in 1..Len(issued) : Good(issued[i])

-----------------------------------------------------------------------------
\* A registration is added to the others.
LEMMA RegistrationAdded ==
  ASSUME RegistryInv, NEW id \in PolicyIds, NEW c \in Constraints, NEW ok \in BOOLEAN,
         register_policy(id, c, ok)
  PROVE  /\ registered' \in Seq(Registration)
         /\ Len(registered) \in Nat
         /\ Len(registered') = Len(registered) + 1
         /\ \A i \in 1..Len(registered) : i \in 1..Len(registered') /\ registered'[i] = registered[i]
         /\ registered'[Len(registered')] = [id |-> id, constraints |-> c]
<1>1. registered \in Seq(Registration) /\ [id |-> id, constraints |-> c] \in Registration
  BY DEF RegistryInv, Registration
<1>2. registered' = Append(registered, [id |-> id, constraints |-> c])
  BY DEF register_policy
<1>. QED
  BY <1>1, <1>2

\* A registration keeps the registry: the policy is the newest registration, and so is
\* its key if setup succeeds.
LEMMA RegisterRegistry ==
  ASSUME RegistryInv, NEW id \in PolicyIds, NEW c \in Constraints, NEW ok \in BOOLEAN,
         register_policy(id, c, ok)
  PROVE  RegistryInv'
<1>1. /\ policies' = Put(policies, id, c)
      /\ setup_keys' = IF ok THEN Put(setup_keys, id, Len(registered) + 1) ELSE setup_keys
  BY DEF register_policy
<1>2. /\ DOMAIN policies' = DOMAIN policies \cup {id}
      /\ policies'[id] = c
      /\ \A x \in DOMAIN policies : x # id => policies'[x] = policies[x]
  BY <1>1 DEF Put
<1>3. ASSUME NEW x \in DOMAIN policies'
      PROVE  \E i \in 1..Len(registered') :
               registered'[i] = [id |-> x, constraints |-> policies'[x]]
  <2>1. CASE x = id
    BY <2>1, <1>2, RegistrationAdded
  <2>2. CASE x # id
    <3>1. x \in DOMAIN policies /\ policies'[x] = policies[x]
      BY <2>2, <1>2
    <3>2. PICK i \in 1..Len(registered) :
                 registered[i] = [id |-> x, constraints |-> policies[x]]
      BY <3>1 DEF RegistryInv
    <3>. QED
      BY <3>1, <3>2, RegistrationAdded
  <2>. QED
    BY <2>1, <2>2
<1>4. ASSUME NEW x \in DOMAIN setup_keys'
      PROVE  /\ x \in DOMAIN policies'
             /\ setup_keys'[x] \in 1..Len(registered') /\ registered'[setup_keys'[x]].id = x
  <2>1. CASE ok /\ x = id
    <3>1. setup_keys'[x] = Len(registered) + 1
      BY <2>1, <1>1 DEF Put
    <3>2. /\ Len(registered) \in Nat /\ Len(registered') = Len(registered) + 1
          /\ registered'[Len(registered')] = [id |-> id, constraints |-> c]
      BY RegistrationAdded
    <3>3. setup_keys'[x] = Len(registered') /\ Len(registered') \in 1..Len(registered')
      BY <3>1, <3>2
    <3>. QED
      BY <2>1, <3>2, <3>3, <1>2
  <2>2. CASE ~(ok /\ x = id)
    <3>1. x \in DOMAIN setup_keys
      BY <2>2, <1>1 DEF Put
    <3>2. setup_keys'[x] = setup_keys[x]
      BY <2>2, <1>1, <3>1 DEF Put
    <3>3. /\ x \in DOMAIN policies
          /\ setup_keys[x] \in 1..Len(registered) /\ registered[setup_keys[x]].id = x
      BY <3>1 DEF RegistryInv
    <3>. QED
      BY <3>2, <3>3, <1>2, RegistrationAdded
  <2>. QED
    BY <2>1, <2>2
<1>5. registered' \in Seq(Registration) /\ Len(registered') <= RegistrationBound
  BY RegistrationAdded, BoundsAssumption DEF register_policy
<1>6. policies' \in [DOMAIN policies' -> Constraints]
  BY <1>1 DEF RegistryInv, Put
<1>7. setup_keys' \in [DOMAIN setup_keys' -> Nat]
  <2>1. Len(registered) + 1 \in Nat
    BY RegistrationAdded
  <2>. QED
    BY <1>1, <2>1 DEF RegistryInv, Put
<1>. QED
  BY <1>3, <1>4, <1>5, <1>6, <1>7 DEF RegistryInv

\* No registration takes anything from a proof.
LEMMA RegisterGood ==
  ASSUME RegistryInv, NEW id \in PolicyIds, NEW c \in Constraints, NEW ok \in BOOLEAN,
         register_policy(id, c, ok), NEW proof, Good(proof)
  PROVE  Good(proof)'
<1>1. proof.policy_id \in DOMAIN policies'
  BY DEF register_policy, Put, Good
<1>2. Holds(proof)'
  <2>1. PICK i \in 1..Len(registered) :
               /\ registered[i].id = proof.policy_id
               /\ Evaluate(registered[i].constraints, proof.action) = "true"
    BY DEF Good, Holds
  <2>2. i \in 1..Len(registered') /\ registered'[i] = registered[i]
    BY RegistrationAdded
  <2>. QED
    BY <2>1, <2>2 DEF Holds
<1>3. /\ proof.verification_key \in 1..Len(registered')
      /\ registered'[proof.verification_key].id = proof.policy_id
  BY RegistrationAdded DEF Good
<1>4. valid(proof)'
  BY DEF Good, valid
<1>. QED
  BY <1>1, <1>2, <1>3, <1>4 DEF Good

\* A proof that is issued is good: the policy that was checked and the key that was
\* used are each of a registration of its id.
LEMMA IssuedGood ==
  ASSUME RegistryInv, proof_count \in Nat, NEW id \in PolicyIds, NEW a \in Actions,
         NEW bytes \in {"Groth16", "commitment"},
         id \in DOMAIN policies, Satisfied(id, a), id \in DOMAIN setup_keys
  PROVE  Good([proof_id |-> proof_count + 1, policy_id |-> id, proof_bytes |-> bytes,
               verification_key |-> setup_keys[id], action |-> a])
<1>1. PICK i \in 1..Len(registered) :
             registered[i] = [id |-> id, constraints |-> policies[id]]
  BY DEF RegistryInv
<1>2. /\ registered[i].id = id
      /\ Evaluate(registered[i].constraints, a) = "true"
  BY <1>1 DEF Satisfied
<1>3. setup_keys[id] \in 1..Len(registered) /\ registered[setup_keys[id]].id = id
  BY DEF RegistryInv
<1>. QED
  BY <1>2, <1>3 DEF Good, Holds, valid

LEMMA Inductive == IndInv /\ [Next]_vars => IndInv'
<1>. SUFFICES ASSUME IndInv, [Next]_vars PROVE IndInv'
  OBVIOUS
<1>1. ASSUME NEW id \in PolicyIds, NEW c \in Constraints, NEW ok \in BOOLEAN,
             register_policy(id, c, ok)
      PROVE  IndInv'
  <2>1. issued' = issued /\ proof_count' = proof_count
    BY <1>1 DEF register_policy
  <2>2. RegistryInv'
    BY <1>1, RegisterRegistry DEF IndInv
  <2>3. ASSUME NEW i \in 1..Len(issued) PROVE Good(issued[i])'
    <3>1. Good(issued[i])
      BY DEF IndInv
    <3>2. RegistryInv
      BY DEF IndInv
    <3>. DEFINE p == issued[i]
    <3>3. p' = p
      BY <2>1
    <3>. QED
      BY <3>1, <3>2, <2>1, <1>1, RegisterGood DEF Good, Holds, valid
  <2>. QED
    BY <2>1, <2>2, <2>3 DEF IndInv
<1>2. ASSUME NEW id \in PolicyIds, NEW a \in Actions, NEW ok \in BOOLEAN,
             generate_proof(id, a, ok)
      PROVE  IndInv'
  <2>. DEFINE proof == [proof_id |-> proof_count + 1, policy_id |-> id,
                        proof_bytes |-> IF ok THEN "Groth16" ELSE "commitment",
                        verification_key |-> setup_keys[id], action |-> a]
  <2>1. /\ issued' = Append(issued, proof)
        /\ UNCHANGED <<policies, setup_keys, proof_count, registered>>
    BY <1>2 DEF generate_proof
  <2>2. Good(proof)
    BY <1>2, IssuedGood DEF IndInv, generate_proof
  <2>3. RegistryInv'
    BY <2>1 DEF IndInv, RegistryInv
  <2>4. proof \in IssuedProof
    <3>1. setup_keys[id] \in Nat
      BY <1>2 DEF generate_proof, IndInv, RegistryInv
    <3>. QED
      BY <3>1 DEF IndInv, IssuedProof
  <2>. HIDE DEF proof
  <2>5. /\ issued' \in Seq(IssuedProof)
        /\ Len(issued') = Len(issued) + 1 /\ Len(issued) \in Nat
        /\ issued'[Len(issued')] = proof
        /\ \A i \in 1..Len(issued) : issued'[i] = issued[i]
    BY <2>1, <2>4 DEF IndInv
  <2>6. ASSUME NEW i \in 1..Len(issued') PROVE Good(issued[i])'
    <3>1. Good(issued'[i])
      <4>1. CASE i = Len(issued')
        BY <4>1, <2>2, <2>5
      <4>2. CASE i # Len(issued')
        <5>1. i \in 1..Len(issued)
          BY <4>2, <2>5
        <5>. QED
          BY <5>1, <2>5 DEF IndInv
      <4>. QED
        BY <4>1, <4>2
    <3>. QED
      BY <3>1, <2>1 DEF Good, Holds, valid
  <2>. QED
    BY <2>1, <2>3, <2>5, <2>6 DEF IndInv
<1>3. CASE UNCHANGED vars
  BY <1>3 DEF vars, IndInv, RegistryInv, Good, Holds, valid
<1>. QED
  BY <1>1, <1>2, <1>3 DEF Next

LEMMA Invariance == Spec => []IndInv
<1>1. Init => IndInv
  BY BoundsAssumption DEF Init, IndInv, RegistryInv, Registration
<1>. QED
  BY <1>1, Inductive, PTL DEF Spec

-----------------------------------------------------------------------------
\* The registry, its keys and the proofs are well typed, and no key is without a policy
\* (register_policy, generate_proof).
THEOREM TypeCorrect == Spec => []TypeOK
<1>1. IndInv => TypeOK
  <2>. SUFFICES ASSUME IndInv PROVE TypeOK
    OBVIOUS
  <2>1. ASSUME NEW id \in DOMAIN policies PROVE id \in PolicyIds
    <3>1. PICK i \in 1..Len(registered) :
                 registered[i] = [id |-> id, constraints |-> policies[id]]
      BY DEF IndInv, RegistryInv
    <3>2. registered[i] \in Registration
      BY DEF IndInv, RegistryInv
    <3>. QED
      BY <3>1, <3>2 DEF Registration
  <2>2. setup_keys \in [DOMAIN setup_keys -> 1..Len(registered)]
    BY DEF IndInv, RegistryInv
  <2>3. issued \in Seq(Proof)
    <3>1. ASSUME NEW i \in 1..Len(issued) PROVE issued[i] \in Proof
      <4>1. issued[i].verification_key \in 1..RegistrationBound
        BY BoundsAssumption DEF IndInv, RegistryInv, Good
      <4>2. issued[i] \in IssuedProof
        BY DEF IndInv
      <4>. QED
        BY <4>1, <4>2 DEF Proof, IssuedProof
    <3>2. issued \in [1..Len(issued) -> Proof] /\ Len(issued) \in Nat
      BY <3>1 DEF IndInv
    <3>. QED
      BY <3>2
  <2>. QED
    BY <2>1, <2>2, <2>3 DEF TypeOK, IndInv, RegistryInv
<1>. QED
  BY <1>1, Invariance, PTL

\* Every proof issued is about an action that satisfied a registered version of its
\* policy, and the verifier goes on accepting it, whatever is registered later.
THEOREM ProofsHold == Spec => []IssuedProofsHold
<1>1. IndInv => IssuedProofsHold
  <2>. SUFFICES ASSUME IndInv, NEW i \in 1..Len(issued)
                PROVE  /\ issued[i].policy_id \in DOMAIN policies
                       /\ verify_proof(issued[i]).valid
                       /\ \E c \in Versions(issued[i].policy_id) :
                            Evaluate(c, issued[i].action) = "true"
    BY DEF IssuedProofsHold, Proofs
  <2>1. Good(issued[i])
    BY DEF IndInv
  <2>2. PICK k \in 1..Len(registered) :
               /\ registered[k].id = issued[i].policy_id
               /\ Evaluate(registered[k].constraints, issued[i].action) = "true"
    BY <2>1 DEF Good, Holds
  <2>3. registered[k].constraints \in Versions(issued[i].policy_id)
    BY <2>2 DEF Versions
  <2>. QED
    BY <2>1, <2>2, <2>3 DEF Good, verify_proof
<1>. QED
  BY <1>1, Invariance, PTL

\* The key a proof names was set up by a registration of the proof's own policy id.
THEOREM OwnKeys == Spec => []KeyOfOwnPolicy
<1>1. IndInv => KeyOfOwnPolicy
  BY DEF IndInv, Good, KeyOfOwnPolicy, Proofs
<1>. QED
  BY <1>1, Invariance, PTL
=============================================================================
