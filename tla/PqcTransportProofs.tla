------------------------- MODULE PqcTransportProofs -------------------------
(***************************************************************************)
(* Proofs about PqcTransport, for any nodes, handles, frames, nonce limit  *)
(* and clock readings: its invariants, and that it implements the abstract *)
(* SecureChannel.                                                          *)
(***************************************************************************)
EXTENDS PqcTransport, TLAPS

-----------------------------------------------------------------------------
(* The inductive invariant.                                                *)

Other(label) == IF label = "SEND" THEN "RECV" ELSE "SEND"

\* A session's two keys come from one secret under the two labels, and only the
\* session that made an encapsulation sends under its SEND key.
KeysPaired ==
  \A h \in DOMAIN session :
    /\ session[h].recv_key = Derive(session[h].send_key.secret,
                                    Other(session[h].send_key.label))
    /\ session[h].send_key.label = "SEND" => session[h].send_key.secret.by = h

\* The i-th sealing of a session uses nonce i - 1.
CountersExact ==
  \A h \in DOMAIN session :
    /\ session[h].send_nonce = Len(sent[h])
    /\ Len(sent[h]) <= NonceLimit
    /\ session[h].recv_nonce = Len(delivered[h])
    /\ \A i \in 1..Len(sent[h]) : sent[h][i].nonce = i - 1

\* Every ciphertext in the network was sealed by a session under that key and
\* nonce; its associated data is the frame_id it was sealed with.
WireSealed ==
  \A e \in wire : \E p \in DOMAIN session :
    /\ session[p].send_key = e.ciphertext.key
    /\ e.ciphertext.nonce < Len(sent[p])
    /\ sent[p][e.ciphertext.nonce + 1].frame
         = [frame_id |-> e.ciphertext.aad, payload |-> e.ciphertext.msg]

IndInv == TypeOK /\ KeysPaired /\ CountersExact /\ WireSealed /\ DeliveredInOrder

-----------------------------------------------------------------------------
(* Type correctness.                                                       *)

\* A session just derived is well typed.
LEMMA NewSessionType ==
  ASSUME TypeOK, NEW k1 \in Key, NEW k2 \in Key
  PROVE  NewSession(k1, k2) \in PqcSession
BY TimesAssumption DEF TypeOK, NewSession, PqcSession

\* Extending a function keeps its type.
LEMMA WithType ==
  ASSUME NEW D, NEW S, NEW f \in [D -> S], NEW h, NEW v \in S
  PROVE  With(f, h, v) \in [D \cup {h} -> S]
BY DEF With

\* Appending to one of a family of sequences keeps the family's type.
LEMMA AppendType ==
  ASSUME NEW D, NEW S, NEW f \in [D -> Seq(S)], NEW h \in D, NEW v \in S
  PROVE  [f EXCEPT ![h] = Append(@, v)] \in [D -> Seq(S)]
OBVIOUS

\* Advancing either counter of a session, and touching it, keeps its type.
LEMMA SessionStepType ==
  ASSUME NEW s \in PqcSession, clock \in Nat
  PROVE  /\ Touched(AfterSend(s)) \in PqcSession
         /\ Touched(AfterReceive(s)) \in PqcSession
<1>1. AfterSend(s) \in PqcSession
  BY DEF AfterSend, PqcSession
<1>2. AfterReceive(s) \in PqcSession
  BY DEF AfterReceive, PqcSession
<1>3. ASSUME NEW r \in PqcSession PROVE Touched(r) \in PqcSession
  BY DEF Touched, PqcSession
<1>. QED
  BY <1>1, <1>2, <1>3

\* Opening a session keeps the types.
LEMMA OpenType ==
  ASSUME TypeOK, NEW h \in Handles \ DOMAIN session, NEW n \in Nodes,
         NEW k1 \in Key, NEW k2 \in Key, Open(h, n, k1, k2),
         encapsulations' \subseteq Encapsulation
  PROVE  TypeOK'
<1>1. NewSession(k1, k2) \in PqcSession
  BY NewSessionType
<1>2. /\ DOMAIN session' = DOMAIN session \cup {h}
      /\ session' \in [DOMAIN session' -> PqcSession]
  BY <1>1 DEF TypeOK, Open, With
<1>3. /\ sent' \in [DOMAIN session' -> Seq(Sealing)]
      /\ delivered' \in [DOMAIN session' -> Seq(Frame)]
  <2>0. <<>> \in Seq(Sealing) /\ <<>> \in Seq(Frame)
    OBVIOUS
  <2>1. With(sent, h, <<>>) \in [DOMAIN session \cup {h} -> Seq(Sealing)]
    BY WithType, <2>0 DEF TypeOK
  <2>2. With(delivered, h, <<>>) \in [DOMAIN session \cup {h} -> Seq(Frame)]
    BY WithType, <2>0 DEF TypeOK
  <2>. QED
    BY <1>2, <2>1, <2>2 DEF Open
<1>4. sessions' \in [Nodes -> SUBSET DOMAIN session']
  BY <1>2 DEF TypeOK, Open
<1>. QED
  BY <1>2, <1>3, <1>4 DEF TypeOK, Open

\* The initial states are well typed.
LEMMA InitType == Init => TypeOK
BY DEF Init, TypeOK

\* Every step keeps the types.
LEMMA NextType == TypeOK /\ [Next]_vars => TypeOK'
<1>. SUFFICES ASSUME TypeOK, [Next]_vars PROVE TypeOK'
  OBVIOUS
<1>1. ASSUME NEW h \in Handles, NEW n \in Nodes, NEW remote \in Nodes,
             establish_session(h, n, remote)
      PROVE  TypeOK'
  <2>. DEFINE out == encapsulate_to_peer(h, remote)
  <2>1. out.secret \in Secret /\ out.encapsulation \in Encapsulation
    BY DEF encapsulate_to_peer, Secret, Encapsulation
  <2>2. Derive(out.secret, "SEND") \in Key /\ Derive(out.secret, "RECV") \in Key
    BY <2>1 DEF Derive, Key
  <2>. QED
    BY <1>1, <2>1, <2>2, OpenType DEF establish_session, TypeOK
<1>2. ASSUME NEW h \in Handles, NEW n \in Nodes, NEW enc \in encapsulations,
             accept_session(h, n, enc)
      PROVE  TypeOK'
  <2>. DEFINE secret == decapsulate_from_peer(n, enc)
  <2>1. secret \in Secret
    BY DEF decapsulate_from_peer, Secret, Encapsulation, TypeOK
  <2>2. Derive(secret, "SEND") \in Key /\ Derive(secret, "RECV") \in Key
    BY <2>1 DEF Derive, Key
  <2>. QED
    BY <1>2, <2>2, OpenType DEF accept_session, TypeOK
<1>3. ASSUME NEW h \in DOMAIN session, NEW f \in Frame, encrypt_frame(h, f)
      PROVE  TypeOK'
  <2>1. session[h] \in PqcSession /\ clock \in Nat
    BY TimesAssumption DEF TypeOK
  <2>2. session' \in [DOMAIN session -> PqcSession]
    <3>1. Touched(AfterSend(session[h])) \in PqcSession
      BY <2>1, SessionStepType
    <3>. QED
      BY <1>3, <3>1 DEF encrypt_frame, encrypt, TypeOK
  <2>3. Sealed(session[h], f) \in EncryptedFrame
    BY <2>1 DEF Sealed, EncryptedFrame, Ciphertext, PqcSession, Frame
  <2>4. [nonce |-> session[h].send_nonce, frame |-> f] \in Sealing
    BY <2>1 DEF PqcSession, Sealing
  <2>5. sent' \in [DOMAIN session -> Seq(Sealing)]
    BY <1>3, <2>4, AppendType DEF TypeOK, encrypt_frame
  <2>. QED
    BY <1>3, <2>2, <2>3, <2>5 DEF TypeOK, encrypt_frame
<1>4. ASSUME NEW h \in DOMAIN session, NEW e \in wire, decrypt_frame(h, e)
      PROVE  TypeOK'
  <2>1. session[h] \in PqcSession /\ clock \in Nat
    BY TimesAssumption DEF TypeOK
  <2>2. session' \in [DOMAIN session -> PqcSession]
    <3>1. Touched(AfterReceive(session[h])) \in PqcSession
      BY <2>1, SessionStepType
    <3>. QED
      BY <1>4, <3>1 DEF decrypt_frame, decrypt, TypeOK
  <2>3. [frame_id |-> e.frame_id, payload |-> e.ciphertext.msg] \in Frame
    BY DEF TypeOK, EncryptedFrame, Ciphertext, Frame
  <2>4. delivered' \in [DOMAIN session -> Seq(Frame)]
    BY <1>4, <2>3, AppendType DEF TypeOK, decrypt_frame
  <2>. QED
    BY <1>4, <2>2, <2>4 DEF TypeOK, decrypt_frame
<1>5. ASSUME NEW n \in Nodes, cleanup_expired(n) PROVE TypeOK'
  BY <1>5 DEF TypeOK, cleanup_expired
<1>6. ASSUME NEW e \in wire, Lose(e) PROVE TypeOK'
  BY <1>6 DEF TypeOK, Lose
<1>7. ASSUME NEW e \in wire, NEW id \in FrameIds, Damage(e, id) PROVE TypeOK'
  <2>1. [e EXCEPT !.frame_id = id] \in EncryptedFrame
    BY DEF TypeOK, EncryptedFrame
  <2>. QED
    BY <1>7, <2>1 DEF TypeOK, Damage
<1>8. ASSUME NEW t \in Times, SetClock(t) PROVE TypeOK'
  BY <1>8 DEF TypeOK, SetClock
<1>9. CASE UNCHANGED vars
  BY <1>9 DEF TypeOK, vars
<1>. QED
  BY <1>1, <1>2, <1>3, <1>4, <1>5, <1>6, <1>7, <1>8, <1>9 DEF Next

\* Sessions, manager lists, network and histories are well typed in every
\* reachable state.
THEOREM TypeCorrect == Spec => []TypeOK
BY InitType, NextType, PTL DEF Spec

-----------------------------------------------------------------------------
(* What each action does to sessions and histories, read off its definition. *)

\* The effects, for the lemmas and proofs below.
Opened(h, k1, k2) ==
  /\ DOMAIN session' = DOMAIN session \cup {h}
  /\ session'[h].send_key = k1 /\ session'[h].recv_key = k2
  /\ session'[h].send_nonce = 0 /\ session'[h].recv_nonce = 0
  /\ sent'[h] = <<>> /\ delivered'[h] = <<>>
  /\ \A x \in DOMAIN session :
       session'[x] = session[x] /\ sent'[x] = sent[x] /\ delivered'[x] = delivered[x]
  /\ wire' = wire

Encrypted(h, f) ==
  /\ DOMAIN session' = DOMAIN session
  /\ session[h].send_nonce < NonceLimit
  /\ session'[h].send_nonce = session[h].send_nonce + 1
  /\ sent'[h] = Append(sent[h], [nonce |-> session[h].send_nonce, frame |-> f])
  /\ \A x \in DOMAIN session :
       /\ session'[x].send_key = session[x].send_key
       /\ session'[x].recv_key = session[x].recv_key
       /\ session'[x].recv_nonce = session[x].recv_nonce
       /\ x # h => session'[x] = session[x] /\ sent'[x] = sent[x]
  /\ delivered' = delivered

Decrypted(h, e) ==
  /\ DOMAIN session' = DOMAIN session
  /\ session'[h].recv_nonce = session[h].recv_nonce + 1
  /\ delivered'[h] = Append(delivered[h],
         [frame_id |-> e.frame_id, payload |-> e.ciphertext.msg])
  /\ \A x \in DOMAIN session :
       /\ session'[x].send_key = session[x].send_key
       /\ session'[x].recv_key = session[x].recv_key
       /\ session'[x].send_nonce = session[x].send_nonce
       /\ x # h => session'[x] = session[x] /\ delivered'[x] = delivered[x]
  /\ sent' = sent /\ wire' = wire

\* Opening adds one session with empty histories and leaves the others alone.
LEMMA OpenEffect ==
  ASSUME TypeOK, NEW h \in Handles \ DOMAIN session, NEW n \in Nodes,
         NEW k1 \in Key, NEW k2 \in Key, Open(h, n, k1, k2)
  PROVE  Opened(h, k1, k2)
BY DEF TypeOK, Open, With, NewSession, Opened

\* encrypt_frame advances one send counter and history, in step.
LEMMA EncryptEffect ==
  ASSUME TypeOK, NEW h \in DOMAIN session, NEW f \in Frame, encrypt_frame(h, f)
  PROVE  Encrypted(h, f)
<1>1. session[h] \in PqcSession
  BY DEF TypeOK
<1>2. LET s == Touched(AfterSend(session[h]))
      IN  /\ s.send_key = session[h].send_key /\ s.recv_key = session[h].recv_key
          /\ s.recv_nonce = session[h].recv_nonce
          /\ s.send_nonce = session[h].send_nonce + 1
  BY <1>1 DEF Touched, AfterSend, PqcSession
<1>. QED
  BY <1>2 DEF TypeOK, encrypt_frame, encrypt, Encrypted

\* decrypt_frame advances one receive counter and history, in step.
LEMMA DecryptEffect ==
  ASSUME TypeOK, NEW h \in DOMAIN session, NEW e \in wire, decrypt_frame(h, e)
  PROVE  Decrypted(h, e)
<1>1. session[h] \in PqcSession
  BY DEF TypeOK
<1>2. LET s == Touched(AfterReceive(session[h]))
      IN  /\ s.send_key = session[h].send_key /\ s.recv_key = session[h].recv_key
          /\ s.send_nonce = session[h].send_nonce
          /\ s.recv_nonce = session[h].recv_nonce + 1
  BY <1>1 DEF Touched, AfterReceive, PqcSession
<1>. QED
  BY <1>2 DEF TypeOK, decrypt_frame, decrypt, Decrypted

-----------------------------------------------------------------------------
(* Each action preserves the inductive invariant.                          *)

\* The two ways of opening a session: its keys are paired, and a SEND key is new.
LEMMA OpenInd ==
  ASSUME IndInv, NEW h \in Handles \ DOMAIN session, NEW n \in Nodes,
         NEW k1 \in Key, NEW k2 \in Key, Open(h, n, k1, k2),
         k2 = Derive(k1.secret, Other(k1.label)),
         k1.label = "SEND" => k1.secret.by = h
  PROVE  KeysPaired' /\ CountersExact' /\ WireSealed' /\ DeliveredInOrder'
<1>0. TypeOK /\ h \notin DOMAIN session
  BY DEF IndInv
<1>e. Opened(h, k1, k2)
  BY <1>0, OpenEffect
<1>1. KeysPaired'
  BY <1>0, <1>e DEF IndInv, KeysPaired, Opened
<1>2. CountersExact'
  BY <1>0, <1>e, NonceLimitAssumption DEF IndInv, CountersExact, Opened
<1>3. WireSealed'
  <2>. SUFFICES ASSUME NEW e \in wire
                PROVE  \E p \in DOMAIN session' :
                         /\ session'[p].send_key = e.ciphertext.key
                         /\ e.ciphertext.nonce < Len(sent'[p])
                         /\ sent'[p][e.ciphertext.nonce + 1].frame
                              = [frame_id |-> e.ciphertext.aad, payload |-> e.ciphertext.msg]
    BY <1>e DEF WireSealed, Opened
  <2>1. PICK p \in DOMAIN session :
           /\ session[p].send_key = e.ciphertext.key
           /\ e.ciphertext.nonce < Len(sent[p])
           /\ sent[p][e.ciphertext.nonce + 1].frame
                = [frame_id |-> e.ciphertext.aad, payload |-> e.ciphertext.msg]
    BY DEF IndInv, WireSealed
  <2>2. p \in DOMAIN session' /\ session'[p] = session[p] /\ sent'[p] = sent[p]
    BY <1>e DEF Opened
  <2>. QED
    BY <2>1, <2>2
<1>4. DeliveredInOrder'
  <2>. SUFFICES ASSUME NEW x \in DOMAIN session', NEW i \in 1..Len(delivered'[x])
                PROVE  \E p \in Peers(x)' : i <= Len(sent'[p])
                                           /\ sent'[p][i].frame = delivered'[x][i]
    BY DEF DeliveredInOrder
  <2>1. x \in DOMAIN session /\ delivered'[x] = delivered[x] /\ session'[x] = session[x]
    BY <1>e DEF Opened
  <2>2. PICK p \in Peers(x) : i <= Len(sent[p]) /\ sent[p][i].frame = delivered[x][i]
    BY <2>1 DEF IndInv, DeliveredInOrder
  <2>3. p \in Peers(x)' /\ sent'[p] = sent[p]
    BY <1>e, <2>1 DEF Opened, Peers
  <2>. QED
    BY <2>1, <2>2, <2>3
<1>. QED
  BY <1>1, <1>2, <1>3, <1>4

\* Sealing a frame uses the next nonce; what it puts on the network is recorded.
LEMMA EncryptInd ==
  ASSUME IndInv, TypeOK', NEW h \in DOMAIN session, NEW f \in Frame, encrypt_frame(h, f)
  PROVE  KeysPaired' /\ CountersExact' /\ WireSealed' /\ DeliveredInOrder'
<1>0. TypeOK /\ session[h] \in PqcSession /\ sent[h] \in Seq(Sealing)
  BY DEF IndInv, TypeOK
<1>e. Encrypted(h, f)
  BY <1>0, EncryptEffect
<1>a. session[h].send_nonce = Len(sent[h]) /\ Len(sent[h]) \in Nat
  BY <1>0 DEF IndInv, CountersExact
<1>b. DEFINE new == [nonce |-> session[h].send_nonce, frame |-> f]
<1>c. /\ Len(sent'[h]) = Len(sent[h]) + 1
      /\ sent'[h][Len(sent[h]) + 1] = new
      /\ \A i \in 1..Len(sent[h]) : sent'[h][i] = sent[h][i]
  <2>1. sent'[h] = Append(sent[h], new)
    BY <1>e DEF Encrypted
  <2>. HIDE DEF new
  <2>2. new \in Sealing
    BY <1>0 DEF new, Sealing, PqcSession
  <2>. QED
    BY <1>0, <2>1, <2>2
<1>d. ASSUME NEW p \in DOMAIN session, NEW i \in 1..Len(sent[p])
      PROVE  i \in 1..Len(sent'[p]) /\ sent'[p][i] = sent[p][i]
  <2>1. CASE p = h
    BY <1>a, <1>c, <2>1
  <2>2. CASE p # h
    BY <1>e, <2>2 DEF Encrypted
  <2>. QED
    BY <2>1, <2>2
<1>1. KeysPaired'
  BY <1>e DEF IndInv, KeysPaired, Encrypted
<1>2. CountersExact'
  <2>. SUFFICES ASSUME NEW x \in DOMAIN session
                PROVE  /\ session'[x].send_nonce = Len(sent'[x])
                       /\ Len(sent'[x]) <= NonceLimit
                       /\ session'[x].recv_nonce = Len(delivered'[x])
                       /\ \A i \in 1..Len(sent'[x]) : sent'[x][i].nonce = i - 1
    BY <1>e DEF CountersExact, Encrypted
  <2>1. CASE x = h
    <3>1. /\ session'[h].send_nonce = Len(sent'[h])
          /\ Len(sent'[h]) <= NonceLimit
      BY <1>a, <1>c, <1>e, NonceLimitAssumption DEF Encrypted
    <3>2. session'[h].recv_nonce = Len(delivered'[h])
      BY <1>e DEF Encrypted, IndInv, CountersExact
    <3>3. ASSUME NEW i \in 1..Len(sent'[h]) PROVE sent'[h][i].nonce = i - 1
      <4>1. CASE i \in 1..Len(sent[h])
        BY <1>c, <4>1 DEF IndInv, CountersExact
      <4>2. CASE i = Len(sent[h]) + 1
        BY <1>a, <1>c, <4>2
      <4>. QED
        BY <1>a, <1>c, <4>1, <4>2
    <3>. QED
      BY <2>1, <3>1, <3>2, <3>3
  <2>2. CASE x # h
    BY <1>e, <2>2 DEF Encrypted, IndInv, CountersExact
  <2>. QED
    BY <2>1, <2>2
<1>3. WireSealed'
  <2>. SUFFICES ASSUME NEW e \in wire'
                PROVE  \E p \in DOMAIN session :
                         /\ session'[p].send_key = e.ciphertext.key
                         /\ e.ciphertext.nonce < Len(sent'[p])
                         /\ sent'[p][e.ciphertext.nonce + 1].frame
                              = [frame_id |-> e.ciphertext.aad, payload |-> e.ciphertext.msg]
    BY <1>e DEF WireSealed, Encrypted
  <2>1. CASE e \in wire
    <3>1. PICK p \in DOMAIN session :
             /\ session[p].send_key = e.ciphertext.key
             /\ e.ciphertext.nonce < Len(sent[p])
             /\ sent[p][e.ciphertext.nonce + 1].frame
                  = [frame_id |-> e.ciphertext.aad, payload |-> e.ciphertext.msg]
      BY <2>1 DEF IndInv, WireSealed
    <3>2. e.ciphertext.nonce \in Nat /\ Len(sent[p]) \in Nat
      BY <1>0, <2>1 DEF TypeOK, EncryptedFrame, Ciphertext
    <3>3. e.ciphertext.nonce + 1 \in 1..Len(sent[p])
      BY <3>1, <3>2
    <3>4. /\ e.ciphertext.nonce + 1 \in 1..Len(sent'[p])
          /\ sent'[p][e.ciphertext.nonce + 1] = sent[p][e.ciphertext.nonce + 1]
      BY <1>d, <3>3
    <3>5. session'[p].send_key = session[p].send_key
      BY <1>e DEF Encrypted
    <3>. QED
      BY <3>1, <3>2, <3>4, <3>5
  <2>2. CASE e = Sealed(session[h], f)
    <3>1. /\ e.ciphertext.key = session[h].send_key
          /\ e.ciphertext.nonce = session[h].send_nonce
          /\ [frame_id |-> e.ciphertext.aad, payload |-> e.ciphertext.msg] = f
      BY <2>2 DEF Sealed, Frame
    <3>2. session'[h].send_key = session[h].send_key
      BY <1>e DEF Encrypted
    <3>. QED
      BY <1>a, <1>c, <3>1, <3>2
  <2>. QED
    BY <2>1, <2>2 DEF encrypt_frame
<1>4. DeliveredInOrder'
  <2>. SUFFICES ASSUME NEW x \in DOMAIN session, NEW i \in 1..Len(delivered[x])
                PROVE  \E p \in Peers(x)' : i <= Len(sent'[p])
                                           /\ sent'[p][i].frame = delivered[x][i]
    BY <1>e DEF DeliveredInOrder, Encrypted
  <2>1. PICK p \in Peers(x) : i <= Len(sent[p]) /\ sent[p][i].frame = delivered[x][i]
    BY DEF IndInv, DeliveredInOrder
  <2>2. p \in DOMAIN session /\ p \in Peers(x)'
    BY <1>e DEF Peers, Encrypted
  <2>3. i \in 1..Len(sent[p])
    BY <1>0, <2>1, <2>2 DEF TypeOK
  <2>. QED
    BY <1>0, <1>d, <2>1, <2>2, <2>3
<1>. QED
  BY <1>1, <1>2, <1>3, <1>4

\* Opening a frame delivers what some peer sealed at the same position.
LEMMA DecryptInd ==
  ASSUME IndInv, NEW h \in DOMAIN session, NEW e \in wire, decrypt_frame(h, e)
  PROVE  KeysPaired' /\ CountersExact' /\ WireSealed' /\ DeliveredInOrder'
<1>0. TypeOK /\ delivered[h] \in Seq(Frame)
  BY DEF IndInv, TypeOK
<1>e. Decrypted(h, e)
  BY <1>0, DecryptEffect
<1>a. session[h].recv_nonce = Len(delivered[h]) /\ Len(delivered[h]) \in Nat
  BY <1>0 DEF IndInv, CountersExact
<1>b. DEFINE new == [frame_id |-> e.frame_id, payload |-> e.ciphertext.msg]
<1>c. /\ Len(delivered'[h]) = Len(delivered[h]) + 1
      /\ delivered'[h][Len(delivered[h]) + 1] = new
      /\ \A i \in 1..Len(delivered[h]) : delivered'[h][i] = delivered[h][i]
  <2>1. delivered'[h] = Append(delivered[h], new)
    BY <1>e DEF Decrypted
  <2>2. new \in Frame
    BY <1>0 DEF TypeOK, Frame, EncryptedFrame, Ciphertext
  <2>. HIDE DEF new
  <2>. QED
    BY <1>0, <2>1, <2>2
<1>1. KeysPaired'
  BY <1>e DEF IndInv, KeysPaired, Decrypted
<1>2. CountersExact'
  <2>. SUFFICES ASSUME NEW x \in DOMAIN session
                PROVE  /\ session'[x].send_nonce = Len(sent'[x])
                       /\ Len(sent'[x]) <= NonceLimit
                       /\ session'[x].recv_nonce = Len(delivered'[x])
                       /\ \A i \in 1..Len(sent'[x]) : sent'[x][i].nonce = i - 1
    BY <1>e DEF CountersExact, Decrypted
  <2>1. session'[x].recv_nonce = Len(delivered'[x])
    <3>1. CASE x = h
      BY <1>a, <1>c, <1>e, <3>1 DEF Decrypted
    <3>2. CASE x # h
      BY <1>e, <3>2 DEF Decrypted, IndInv, CountersExact
    <3>. QED
      BY <3>1, <3>2
  <2>. QED
    BY <1>e, <2>1 DEF Decrypted, IndInv, CountersExact
<1>3. WireSealed'
  BY <1>e DEF IndInv, WireSealed, Decrypted
<1>4. DeliveredInOrder'
  <2>. SUFFICES ASSUME NEW x \in DOMAIN session, NEW i \in 1..Len(delivered'[x])
                PROVE  \E p \in Peers(x) : i <= Len(sent[p])
                                          /\ sent[p][i].frame = delivered'[x][i]
    BY <1>e DEF DeliveredInOrder, Decrypted, Peers
  <2>1. CASE x # h \/ i \in 1..Len(delivered[h])
    <3>1. i \in 1..Len(delivered[x]) /\ delivered'[x][i] = delivered[x][i]
      BY <1>c, <1>e, <2>1 DEF Decrypted
    <3>. QED
      BY <3>1 DEF IndInv, DeliveredInOrder
  <2>2. CASE x = h /\ i = Len(delivered[h]) + 1
    <3>1. /\ e.ciphertext.key = session[h].recv_key
          /\ e.ciphertext.nonce = session[h].recv_nonce
          /\ e.ciphertext.aad = e.frame_id
      BY DEF decrypt_frame, decrypt, Opens
    <3>2. PICK p \in DOMAIN session :
             /\ session[p].send_key = e.ciphertext.key
             /\ e.ciphertext.nonce < Len(sent[p])
             /\ sent[p][e.ciphertext.nonce + 1].frame
                  = [frame_id |-> e.ciphertext.aad, payload |-> e.ciphertext.msg]
      BY DEF IndInv, WireSealed
    <3>3. p \in Peers(x)
      BY <2>2, <3>1, <3>2 DEF Peers
    <3>4. Len(sent[p]) \in Nat
      BY <1>0 DEF TypeOK
    <3>5. i <= Len(sent[p]) /\ sent[p][i].frame = delivered'[x][i]
      BY <1>a, <1>c, <2>2, <3>1, <3>2, <3>4
    <3>. QED
      BY <3>3, <3>5
  <2>. QED
    BY <1>a, <1>c, <2>1, <2>2
<1>. QED
  BY <1>1, <1>2, <1>3, <1>4

\* Damage in transit changes the header only.
LEMMA DamageInd ==
  ASSUME IndInv, NEW e \in wire, NEW id \in FrameIds, Damage(e, id)
  PROVE  WireSealed'
<1>1. [e EXCEPT !.frame_id = id].ciphertext = e.ciphertext
  BY DEF IndInv, TypeOK, EncryptedFrame
<1>2. \A d \in wire' : \E c \in wire : d.ciphertext = c.ciphertext
  BY <1>1 DEF Damage
<1>. QED
  BY <1>2 DEF IndInv, WireSealed, Damage

\* The initial states satisfy the invariant: there is no session yet.
LEMMA InitInd == Init => IndInv
<1>. SUFFICES ASSUME Init PROVE IndInv
  OBVIOUS
<1>1. DOMAIN session = {} /\ wire = {}
  BY DEF Init
<1>. QED
  BY <1>1, InitType DEF IndInv, KeysPaired, CountersExact, WireSealed, DeliveredInOrder

\* Every step preserves the invariant.
LEMMA NextInd == IndInv /\ [Next]_vars => IndInv'
<1>. SUFFICES ASSUME IndInv, [Next]_vars PROVE IndInv'
  OBVIOUS
<1>0. TypeOK /\ TypeOK'
  BY NextType DEF IndInv
<1>. SUFFICES KeysPaired' /\ CountersExact' /\ WireSealed' /\ DeliveredInOrder'
  BY <1>0 DEF IndInv
<1>1. ASSUME NEW h \in Handles, NEW n \in Nodes, NEW remote \in Nodes,
             establish_session(h, n, remote)
      PROVE  KeysPaired' /\ CountersExact' /\ WireSealed' /\ DeliveredInOrder'
  <2>. DEFINE secret == encapsulate_to_peer(h, remote).secret
              k1 == Derive(secret, "SEND")
              k2 == Derive(secret, "RECV")
  <2>1. secret = [kem |-> remote, by |-> h] /\ secret \in Secret
    BY DEF encapsulate_to_peer, Secret, establish_session
  <2>2. k1 \in Key /\ k2 \in Key /\ k2 = Derive(k1.secret, Other(k1.label))
        /\ k1.secret.by = h
    BY <2>1 DEF Derive, Key, Other
  <2>3. h \in Handles \ DOMAIN session /\ Open(h, n, k1, k2)
    BY <1>1 DEF establish_session
  <2>. QED
    BY <2>2, <2>3, OpenInd
<1>2. ASSUME NEW h \in Handles, NEW n \in Nodes, NEW enc \in encapsulations,
             accept_session(h, n, enc)
      PROVE  KeysPaired' /\ CountersExact' /\ WireSealed' /\ DeliveredInOrder'
  <2>. DEFINE secret == decapsulate_from_peer(n, enc)
              k1 == Derive(secret, "RECV")
              k2 == Derive(secret, "SEND")
  <2>1. secret \in Secret
    BY <1>0 DEF decapsulate_from_peer, Secret, Encapsulation, TypeOK
  <2>2. k1 \in Key /\ k2 \in Key /\ k2 = Derive(k1.secret, Other(k1.label))
        /\ k1.label # "SEND"
    BY <2>1 DEF Derive, Key, Other
  <2>3. h \in Handles \ DOMAIN session /\ Open(h, n, k1, k2)
    BY <1>2 DEF accept_session
  <2>. QED
    BY <2>2, <2>3, OpenInd
<1>3. ASSUME NEW h \in DOMAIN session, NEW f \in Frame, encrypt_frame(h, f)
      PROVE  KeysPaired' /\ CountersExact' /\ WireSealed' /\ DeliveredInOrder'
  BY <1>0, <1>3, EncryptInd
<1>4. ASSUME NEW h \in DOMAIN session, NEW e \in wire, decrypt_frame(h, e)
      PROVE  KeysPaired' /\ CountersExact' /\ WireSealed' /\ DeliveredInOrder'
  BY <1>4, DecryptInd
<1>5. ASSUME NEW e \in wire, NEW id \in FrameIds, Damage(e, id)
      PROVE  KeysPaired' /\ CountersExact' /\ WireSealed' /\ DeliveredInOrder'
  BY <1>5, DamageInd
     DEF IndInv, KeysPaired, CountersExact, DeliveredInOrder, Peers, Damage
<1>6. ASSUME session' = session, sent' = sent, delivered' = delivered,
             wire' \subseteq wire
      PROVE  KeysPaired' /\ CountersExact' /\ WireSealed' /\ DeliveredInOrder'
  BY <1>6 DEF IndInv, KeysPaired, CountersExact, WireSealed, DeliveredInOrder, Peers
<1>7. ASSUME NEW n \in Nodes, cleanup_expired(n)
      PROVE  KeysPaired' /\ CountersExact' /\ WireSealed' /\ DeliveredInOrder'
  BY <1>6, <1>7 DEF cleanup_expired
<1>8. ASSUME NEW e \in wire, Lose(e)
      PROVE  KeysPaired' /\ CountersExact' /\ WireSealed' /\ DeliveredInOrder'
  BY <1>6, <1>8 DEF Lose
<1>9. ASSUME NEW t \in Times, SetClock(t)
      PROVE  KeysPaired' /\ CountersExact' /\ WireSealed' /\ DeliveredInOrder'
  BY <1>6, <1>9 DEF SetClock
<1>10. CASE UNCHANGED vars
  BY <1>6, <1>10 DEF vars
<1>. QED
  BY <1>1, <1>2, <1>3, <1>4, <1>5, <1>7, <1>8, <1>9, <1>10 DEF Next

\* The strengthened invariant holds in every reachable state.
LEMMA IndCorrect == Spec => []IndInv
BY InitInd, NextInd, PTL DEF Spec

-----------------------------------------------------------------------------
(* The safety invariants of the runs follow from the inductive one.        *)

\* A SEND key belongs to one session, a RECV key to one if encapsulations are
\* accepted once.
LEMMA OneSessionPerKey ==
  ASSUME IndInv, AcceptedOnce, NEW g \in DOMAIN session, NEW h \in DOMAIN session,
         session[g].send_key = session[h].send_key
  PROVE  g = h
<1>1. session[g] \in PqcSession /\ session[h] \in PqcSession
  BY DEF IndInv, TypeOK
<1>2. session[g].send_key \in Key
  BY <1>1 DEF PqcSession
<1>3. CASE session[g].send_key.label = "SEND"
  BY <1>3 DEF IndInv, KeysPaired
<1>4. CASE session[g].send_key.label # "SEND"
  BY <1>4 DEF AcceptedOnce, Acceptors, Initiators
<1>. QED
  BY <1>3, <1>4

\* No key is used twice with one nonce unless an encapsulation was accepted twice.
THEOREM NonceReuse == Spec => []NonceReuseNeedsReaccept
<1>1. IndInv => NonceReuseNeedsReaccept
  <2>. SUFFICES ASSUME IndInv, AcceptedOnce, NEW u \in Uses, NEW v \in Uses,
                       UsedKey(u) = UsedKey(v), UsedNonce(u) = UsedNonce(v)
                PROVE  u = v
    BY DEF NonceReuseNeedsReaccept, NoNonceReuse
  <2>1. /\ u[1] \in DOMAIN session /\ u[2] \in 1..Len(sent[u[1]]) /\ u = <<u[1], u[2]>>
        /\ v[1] \in DOMAIN session /\ v[2] \in 1..Len(sent[v[1]]) /\ v = <<v[1], v[2]>>
    BY NonceLimitAssumption DEF Uses
  <2>2. u[1] = v[1]
    BY <2>1, OneSessionPerKey DEF UsedKey
  <2>3. UsedNonce(u) = u[2] - 1 /\ UsedNonce(v) = v[2] - 1
    BY <2>1 DEF UsedNonce, IndInv, CountersExact
  <2>4. u[2] = v[2]
    <3>1. \A i, j \in Nat : i - 1 = j - 1 => i = j
      OBVIOUS
    <3>2. u[2] \in Nat /\ v[2] \in Nat
      BY <2>1, NonceLimitAssumption DEF Uses
    <3>3. u[2] - 1 = v[2] - 1
      BY <2>3
    <3>. QED
      BY <3>1, <3>2, <3>3
  <2>. QED
    BY <2>1, <2>2, <2>4
<1>. QED
  BY <1>1, IndCorrect, PTL

\* No nonce at or past the limit is ever used.
THEOREM HardStop == Spec => []CounterHardStops
<1>1. IndInv => CounterHardStops
  <2>. SUFFICES ASSUME IndInv, NEW h \in DOMAIN session, NEW i \in 1..Len(sent[h])
                PROVE  sent[h][i].nonce < NonceLimit
    BY DEF CounterHardStops, IndInv, CountersExact
  <2>1. Len(sent[h]) \in Nat /\ Len(sent[h]) <= NonceLimit /\ sent[h][i].nonce = i - 1
    BY DEF IndInv, TypeOK, CountersExact
  <2>. QED
    BY <2>1, NonceLimitAssumption
<1>. QED
  BY <1>1, IndCorrect, PTL

\* Whatever the network loses, repeats, reorders or damages, each frame opened is
\* the one a peer sealed at that position.
THEOREM InOrder == Spec => []DeliveredInOrder
<1>1. IndInv => DeliveredInOrder
  BY DEF IndInv
<1>. QED
  BY <1>1, IndCorrect, PTL

\* An acceptor's peers are one initiator, so what it opens is a prefix of what
\* that initiator sealed.
THEOREM AcceptorPrefix == Spec => []AcceptorGetsPrefix
<1>1. IndInv => AcceptorGetsPrefix
  <2>. SUFFICES ASSUME IndInv, NEW h \in Acceptors, delivered[h] # <<>>
                PROVE  \E p \in Initiators :
                         /\ session[p].send_key = session[h].recv_key
                         /\ Len(delivered[h]) <= Len(sent[p])
                         /\ \A i \in 1..Len(delivered[h]) : delivered[h][i] = sent[p][i].frame
    BY DEF AcceptorGetsPrefix
  <2>1. h \in DOMAIN session /\ session[h].send_key.label # "SEND"
    BY DEF Acceptors, Initiators
  <2>2. session[h].recv_key = Derive(session[h].send_key.secret, "SEND")
    BY <2>1 DEF IndInv, KeysPaired, Other
  <2>3. \A p \in Peers(h) : p \in Initiators
                           /\ p = session[h].recv_key.secret.by
    <3>. SUFFICES ASSUME NEW p \in Peers(h)
                  PROVE  p \in Initiators /\ p = session[h].recv_key.secret.by
      OBVIOUS
    <3>1. p \in DOMAIN session /\ session[p].send_key = session[h].recv_key
      BY DEF Peers
    <3>2. session[p].send_key.label = "SEND"
      BY <2>2, <3>1 DEF Derive
    <3>. QED
      BY <3>1, <3>2 DEF Initiators, IndInv, KeysPaired
  <2>4. delivered[h] \in Seq(Frame) /\ Len(delivered[h]) \in Nat /\ Len(delivered[h]) # 0
    BY <2>1 DEF IndInv, TypeOK
  <2>5. \A i \in 1..Len(delivered[h]) : \E p \in Peers(h) :
          i <= Len(sent[p]) /\ sent[p][i].frame = delivered[h][i]
    BY <2>1 DEF IndInv, DeliveredInOrder
  <2>. DEFINE q == session[h].recv_key.secret.by
  <2>6. Len(delivered[h]) \in 1..Len(delivered[h])
    BY <2>4
  <2>7. q \in Peers(h) /\ Len(delivered[h]) <= Len(sent[q])
    BY <2>3, <2>5, <2>6
  <2>. QED
    BY <2>3, <2>5, <2>7 DEF Peers
<1>. QED
  BY <1>1, IndCorrect, PTL

-----------------------------------------------------------------------------
(* What a step may never do.                                               *)

\* A session stays stuck through a step that keeps the keys, takes back no counter, leaves
\* its receive counter alone and puts nothing on the wire that it waits for.
LEMMA StuckKept ==
  ASSUME TypeOK, NEW h \in DOMAIN session, Stuck(h),
         DOMAIN session \subseteq DOMAIN session',
         \A x \in DOMAIN session :
           /\ session'[x].send_key = session[x].send_key
           /\ session'[x].recv_key = session[x].recv_key
           /\ session'[x].send_nonce \in {session[x].send_nonce, session[x].send_nonce + 1},
         session'[h].recv_nonce = session[h].recv_nonce,
         \A e \in wire' : \/ \E d \in wire : d.ciphertext = e.ciphertext
                          \/ e.ciphertext.key # session[h].recv_key
                          \/ e.ciphertext.nonce # session[h].recv_nonce
  PROVE  Stuck(h)'
<1>1. h \in Acceptors'
  BY DEF Stuck, Acceptors, Initiators
<1>2. PICK p \in Peers(h) : session[h].recv_nonce < session[p].send_nonce
  BY DEF Stuck
<1>3. p \in Peers(h)'
  BY DEF Peers
<1>4. session'[h].recv_nonce < session'[p].send_nonce
  <2>1. p \in DOMAIN session
    BY DEF Peers
  <2>2. session[h] \in PqcSession /\ session[p] \in PqcSession
    BY <2>1 DEF TypeOK
  <2>3. session[h].recv_nonce \in Nat /\ session[p].send_nonce \in Nat
    BY <2>2 DEF PqcSession
  <2>. QED
    BY <1>2, <2>1, <2>3
<1>5. ~ \E e \in wire' : /\ e.ciphertext.key = session'[h].recv_key
                         /\ e.ciphertext.nonce = session'[h].recv_nonce
  BY DEF Stuck
<1>. QED
  BY <1>1, <1>3, <1>4, <1>5 DEF Stuck

\* A stuck session is not helped by a new one.
LEMMA OpenStuck ==
  ASSUME TypeOK, NEW h \in DOMAIN session, Stuck(h),
         NEW g \in Handles \ DOMAIN session, NEW n \in Nodes,
         NEW k1 \in Key, NEW k2 \in Key, Open(g, n, k1, k2)
  PROVE  Stuck(h)' /\ delivered'[h] = delivered[h]
<1>1. Opened(g, k1, k2)
  BY OpenEffect
<1>. QED
  BY <1>1, StuckKept DEF Opened

\* Nor by its peer's next frame: that carries a later nonce, and nobody else has the key.
LEMMA EncryptStuck ==
  ASSUME IndInv, NEW h \in DOMAIN session, Stuck(h),
         NEW g \in DOMAIN session, NEW f \in Frame, encrypt_frame(g, f)
  PROVE  Stuck(h)' /\ delivered'[h] = delivered[h]
<1>0. TypeOK
  BY DEF IndInv
<1>1. Encrypted(g, f)
  BY <1>0, EncryptEffect
<1>2. wire' = wire \cup {Sealed(session[g], f)}
  BY DEF encrypt_frame
<1>3. PICK p \in Peers(h) : session[h].recv_nonce < session[p].send_nonce
  BY DEF Stuck
<1>4. h \in DOMAIN session /\ session[h].send_key.label # "SEND"
  BY DEF Stuck, Acceptors, Initiators
<1>5. session[h].recv_key.label = "SEND"
  <2>1. session[h].recv_key = Derive(session[h].send_key.secret, "SEND")
    BY <1>4 DEF IndInv, KeysPaired, Other
  <2>2. Derive(session[h].send_key.secret, "SEND").label = "SEND"
    BY DEF Derive
  <2>. QED
    BY <2>1, <2>2
<1>6. ASSUME session[g].send_key = session[h].recv_key
      PROVE  session[g].send_nonce # session[h].recv_nonce
  <2>1. p \in DOMAIN session /\ session[p].send_key = session[g].send_key
    BY <1>6 DEF Peers
  <2>2. p = g
    BY <1>5, <1>6, <2>1 DEF IndInv, KeysPaired
  <2>3. session[h] \in PqcSession /\ session[g] \in PqcSession
    BY <1>0 DEF TypeOK
  <2>4. session[h].recv_nonce \in Nat /\ session[g].send_nonce \in Nat
    BY <2>3 DEF PqcSession
  <2>. QED
    BY <1>3, <2>2, <2>4
<1>7. \A e \in wire' : \/ \E d \in wire : d.ciphertext = e.ciphertext
                       \/ e.ciphertext.key # session[h].recv_key
                       \/ e.ciphertext.nonce # session[h].recv_nonce
  <2>1. /\ Sealed(session[g], f).ciphertext.key = session[g].send_key
        /\ Sealed(session[g], f).ciphertext.nonce = session[g].send_nonce
    BY DEF Sealed
  <2>. QED
    BY <1>2, <1>6, <2>1
<1>8. /\ DOMAIN session \subseteq DOMAIN session'
      /\ \A x \in DOMAIN session :
           /\ session'[x].send_key = session[x].send_key
           /\ session'[x].recv_key = session[x].recv_key
           /\ session'[x].send_nonce \in {session[x].send_nonce, session[x].send_nonce + 1}
      /\ session'[h].recv_nonce = session[h].recv_nonce
      /\ delivered'[h] = delivered[h]
  BY <1>1 DEF Encrypted
<1>. QED
  BY <1>0, <1>7, <1>8, StuckKept

\* A frame opens for a session that is not stuck, or for another one.
LEMMA DecryptStuck ==
  ASSUME TypeOK, NEW h \in DOMAIN session, Stuck(h),
         NEW g \in DOMAIN session, NEW e \in wire, decrypt_frame(g, e)
  PROVE  Stuck(h)' /\ delivered'[h] = delivered[h]
<1>1. Decrypted(g, e)
  BY DecryptEffect
<1>2. g # h
  BY DEF decrypt_frame, decrypt, Opens, Stuck
<1>3. session'[h] = session[h] /\ delivered'[h] = delivered[h] /\ wire' = wire
  BY <1>1, <1>2 DEF Decrypted
<1>. QED
  BY <1>1, <1>3, StuckKept DEF Decrypted

\* One lost frame silences an accepting session for good, whatever is sent or opened
\* afterwards: decrypt waits for a nonce that nobody will use again.
THEOREM SilencedForGood == Spec => LossIsPermanent
<1>1. IndInv /\ [Next]_vars =>
        [\A h \in DOMAIN session : Stuck(h) => Stuck(h)' /\ delivered'[h] = delivered[h]]_vars
  <2>. SUFFICES ASSUME IndInv, Next, NEW h \in DOMAIN session, Stuck(h)
                PROVE  Stuck(h)' /\ delivered'[h] = delivered[h]
    OBVIOUS
  <2>0. TypeOK
    BY DEF IndInv
  <2>1. ASSUME NEW g \in Handles, NEW n \in Nodes, NEW remote \in Nodes,
               establish_session(g, n, remote)
        PROVE  Stuck(h)' /\ delivered'[h] = delivered[h]
    <3>. DEFINE secret == encapsulate_to_peer(g, remote).secret
    <3>1. secret \in Secret
      BY DEF encapsulate_to_peer, Secret
    <3>2. Derive(secret, "SEND") \in Key /\ Derive(secret, "RECV") \in Key
      BY <3>1 DEF Derive, Key
    <3>3. g \in Handles \ DOMAIN session
          /\ Open(g, n, Derive(secret, "SEND"), Derive(secret, "RECV"))
      BY <2>1 DEF establish_session
    <3>. HIDE DEF secret
    <3>. QED
      BY <2>0, <3>2, <3>3, OpenStuck
  <2>2. ASSUME NEW g \in Handles, NEW n \in Nodes, NEW enc \in encapsulations,
               accept_session(g, n, enc)
        PROVE  Stuck(h)' /\ delivered'[h] = delivered[h]
    <3>. DEFINE secret == decapsulate_from_peer(n, enc)
    <3>1. secret \in Secret
      BY <2>0 DEF decapsulate_from_peer, Secret, Encapsulation, TypeOK
    <3>2. Derive(secret, "SEND") \in Key /\ Derive(secret, "RECV") \in Key
      BY <3>1 DEF Derive, Key
    <3>3. g \in Handles \ DOMAIN session
          /\ Open(g, n, Derive(secret, "RECV"), Derive(secret, "SEND"))
      BY <2>2 DEF accept_session
    <3>. HIDE DEF secret
    <3>. QED
      BY <2>0, <3>2, <3>3, OpenStuck
  <2>3. ASSUME session' = session, delivered' = delivered,
               \A e \in wire' : \E d \in wire : d.ciphertext = e.ciphertext
        PROVE  Stuck(h)' /\ delivered'[h] = delivered[h]
    BY <2>0, <2>3, StuckKept
  <2>4. ASSUME NEW e \in wire, NEW id \in FrameIds, Damage(e, id)
        PROVE  Stuck(h)' /\ delivered'[h] = delivered[h]
    <3>1. [e EXCEPT !.frame_id = id].ciphertext = e.ciphertext
      BY <2>0 DEF TypeOK, EncryptedFrame
    <3>. QED
      BY <2>3, <2>4, <3>1 DEF Damage
  <2>5. ASSUME NEW g \in DOMAIN session, NEW f \in Frame, encrypt_frame(g, f)
        PROVE  Stuck(h)' /\ delivered'[h] = delivered[h]
    BY <2>5, EncryptStuck
  <2>6. ASSUME NEW g \in DOMAIN session, NEW e \in wire, decrypt_frame(g, e)
        PROVE  Stuck(h)' /\ delivered'[h] = delivered[h]
    BY <2>0, <2>6, DecryptStuck
  <2>7. ASSUME \/ \E n \in Nodes : cleanup_expired(n)
               \/ \E e \in wire : Lose(e)
               \/ \E t \in Times : SetClock(t)
        PROVE  Stuck(h)' /\ delivered'[h] = delivered[h]
    <3>1. session' = session /\ delivered' = delivered /\ wire' \subseteq wire
      BY <2>7 DEF cleanup_expired, Lose, SetClock
    <3>. QED
      BY <2>3, <3>1
  <2>. QED
    BY <2>1, <2>2, <2>4, <2>5, <2>6, <2>7 DEF Next
<1>. QED
  BY <1>1, IndCorrect, PTL DEF Spec, LossIsPermanent

\* cleanup_expired drops a session only when the clock is past its last use by more than
\* the timeout, and nothing else drops one, wherever the clock is set.
THEOREM IdleOnly == Spec => OnlyIdleSessionsDropped
<1>1. IndInv /\ [Next]_vars =>
        [\A n \in Nodes : \A h \in sessions[n] \ sessions'[n] :
           clock > session[h].last_activity + Timeout]_vars
  <2>. SUFFICES ASSUME IndInv, Next, NEW n \in Nodes, NEW h \in sessions[n] \ sessions'[n]
                PROVE  clock > session[h].last_activity + Timeout
    OBVIOUS
  <2>0. TypeOK
    BY DEF IndInv
  <2>1. PICK m \in Nodes : cleanup_expired(m)
    <3>1. ASSUME NEW g, NEW l \in Nodes, NEW k1, NEW k2, Open(g, l, k1, k2)
          PROVE  sessions[n] \subseteq sessions'[n]
      BY <2>0, <3>1 DEF Open, TypeOK
    <3>. QED
      BY <3>1 DEF Next, establish_session, accept_session, encrypt_frame, decrypt_frame,
         Damage, Lose, SetClock
  <2>2. is_expired(session[h])
    BY <2>0, <2>1 DEF cleanup_expired, TypeOK
  <2>3. clock \in Nat /\ session[h] \in PqcSession
    BY <2>0, TimesAssumption DEF TypeOK
  <2>4. session[h].last_activity \in Nat
    BY <2>3 DEF PqcSession
  <2>. QED
    BY <2>2, <2>3, <2>4, TimeoutAssumption DEF is_expired
<1>. QED
  BY <1>1, IndCorrect, PTL DEF Spec, OnlyIdleSessionsDropped

-----------------------------------------------------------------------------
(* PqcTransport implements SecureChannel: opening a session opens an end,  *)
(* sealing says, a successful opening hears, and everything else the       *)
(* managers, the network and the clock do is a stutter.                    *)
(* The refinement mapping is as in Channel.                                *)

ends == [h \in DOMAIN session |-> [chan |-> session[h].send_key.secret,
                                   side |-> session[h].send_key.label]]
Frames(s) == [i \in 1..Len(s) |-> s[i].frame]
saids == [h \in DOMAIN session |-> Frames(sent[h])]

-----------------------------------------------------------------------------
\* The frames of a history extended by one sealing.
LEMMA FramesAppend ==
  ASSUME NEW s \in Seq(Sealing), NEW x \in Sealing
  PROVE  Frames(Append(s, x)) = Append(Frames(s), x.frame)
<1>1. /\ Len(Append(s, x)) = Len(s) + 1 /\ Len(s) \in Nat
      /\ Append(s, x)[Len(s) + 1] = x
      /\ \A i \in 1..Len(s) : Append(s, x)[i] = s[i]
  OBVIOUS
<1>2. Frames(s) \in Seq(Frame) /\ Len(Frames(s)) = Len(s)
  <2>1. \A i \in 1..Len(s) : s[i] \in Sealing
    OBVIOUS
  <2>2. \A i \in 1..Len(s) : s[i].frame \in Frame
    BY <2>1 DEF Sealing
  <2>. QED
    BY <1>1, <2>2 DEF Frames
<1>3. x.frame \in Frame
  BY DEF Sealing
<1>. DEFINE long == Append(Frames(s), x.frame)
<1>4. /\ long \in Seq(Frame) /\ Len(long) = Len(s) + 1
      /\ long[Len(s) + 1] = x.frame
      /\ \A i \in 1..Len(s) : long[i] = Frames(s)[i]
  BY <1>1, <1>2, <1>3
<1>5. long = [i \in 1..(Len(s) + 1) |-> long[i]]
  BY <1>4
<1>. HIDE DEF long
<1>6. ASSUME NEW i \in 1..(Len(s) + 1) PROVE long[i] = Append(s, x)[i].frame
  <2>1. CASE i \in 1..Len(s)
    BY <1>1, <1>4, <2>1 DEF Frames
  <2>2. CASE i = Len(s) + 1
    BY <1>1, <1>4, <2>2
  <2>. QED
    BY <1>1, <2>1, <2>2
<1>7. Frames(Append(s, x)) = long
  BY <1>1, <1>5, <1>6 DEF Frames
<1>. QED
  BY <1>7 DEF long

\* There is no session at first, so there is no end.
LEMMA InitRefines == Init => Channel!Init
BY DEF Init, Channel!Init

\* Opening a session opens an end; the initiating side of a channel is new,
\* because its secret carries the new session's randomness.
LEMMA OpenRefines ==
  ASSUME IndInv, NEW h \in Handles \ DOMAIN session, NEW n \in Nodes,
         NEW k1 \in Key, NEW k2 \in Key, Open(h, n, k1, k2),
         k1.label = "SEND" => k1.secret.by = h
  PROVE  Channel!Next
<1>0. TypeOK
  BY DEF IndInv
<1>e. Opened(h, k1, k2)
  BY <1>0, OpenEffect
<1>. DEFINE e == [chan |-> k1.secret, side |-> k1.label]
<1>1. e \in Channel!End
  BY DEF Key, Channel!End
<1>2. e.side = "SEND" => \A g \in DOMAIN session : ends[g] # e
  BY DEF ends, IndInv, KeysPaired
<1>3. ends' = Channel!Extend(ends, h, e)
  BY <1>e DEF ends, Opened, Channel!Extend
<1>4. saids' = Channel!Extend(saids, h, <<>>)
  <2>1. Frames(<<>>) = <<>>
    BY DEF Frames
  <2>2. saids' = [x \in DOMAIN session \cup {h} |-> Frames(sent'[x])]
    BY <1>e DEF saids, Frames, Opened
  <2>3. DOMAIN saids = DOMAIN session /\ \A x \in DOMAIN session : saids[x] = Frames(sent[x])
    BY DEF saids
  <2>4. sent'[h] = <<>> /\ \A x \in DOMAIN session : sent'[x] = sent[x]
    BY <1>e DEF Opened
  <2>5. \A x \in DOMAIN session \cup {h} :
          Frames(sent'[x]) = IF x = h THEN <<>> ELSE saids[x]
    BY <2>1, <2>3, <2>4
  <2>. QED
    BY <2>2, <2>3, <2>5 DEF Channel!Extend
<1>5. delivered' = Channel!Extend(delivered, h, <<>>)
  BY <1>0 DEF Open, With, TypeOK, Channel!Extend
<1>6. Channel!OpenEnd(h, e)
  BY <1>2, <1>3, <1>4, <1>5 DEF Channel!OpenEnd, ends, saids, Frames
<1>. QED
  BY <1>1, <1>6 DEF Channel!Next

\* Sealing a frame says it.
LEMMA EncryptRefines ==
  ASSUME IndInv, NEW h \in DOMAIN session, NEW f \in Frame, encrypt_frame(h, f)
  PROVE  Channel!Next
<1>0. TypeOK /\ sent[h] \in Seq(Sealing) /\ session[h] \in PqcSession
  BY DEF IndInv, TypeOK
<1>e. Encrypted(h, f)
  BY <1>0, EncryptEffect
<1>. DEFINE new == [nonce |-> session[h].send_nonce, frame |-> f]
<1>1. new \in Sealing /\ new.frame = f
  BY <1>0 DEF Sealing, PqcSession
<1>2. Frames(sent'[h]) = Append(Frames(sent[h]), f)
  <2>1. sent'[h] = Append(sent[h], new)
    BY <1>e DEF Encrypted
  <2>. HIDE DEF new
  <2>. QED
    BY <1>0, <1>1, <2>1, FramesAppend
<1>3. saids' = [saids EXCEPT ![h] = Append(@, f)]
  <2>1. \A x \in DOMAIN session : x # h => Frames(sent'[x]) = Frames(sent[x])
    BY <1>e DEF Encrypted
  <2>2. saids' = [x \in DOMAIN session |-> Frames(sent'[x])]
    BY <1>e DEF Encrypted, saids, Frames
  <2>. QED
    BY <1>2, <2>1, <2>2 DEF saids
<1>4. ends' = ends
  BY <1>e DEF ends, Encrypted
<1>5. Channel!Say(h, f)
  BY <1>e, <1>3, <1>4 DEF Channel!Say, Encrypted, ends, saids, Frames
<1>. QED
  BY <1>5 DEF Channel!Next, ends

\* A successful opening hears the next frame of the session that sealed it.
LEMMA DecryptRefines ==
  ASSUME IndInv, NEW h \in DOMAIN session, NEW e \in wire, decrypt_frame(h, e)
  PROVE  Channel!Next
<1>0. TypeOK
  BY DEF IndInv
<1>e. Decrypted(h, e)
  BY <1>0, DecryptEffect
<1>1. /\ e.ciphertext.key = session[h].recv_key
      /\ e.ciphertext.nonce = Len(delivered[h])
      /\ e.ciphertext.aad = e.frame_id
  BY DEF decrypt_frame, decrypt, Opens, IndInv, CountersExact
<1>2. PICK p \in DOMAIN session :
         /\ session[p].send_key = e.ciphertext.key
         /\ e.ciphertext.nonce < Len(sent[p])
         /\ sent[p][e.ciphertext.nonce + 1].frame
              = [frame_id |-> e.ciphertext.aad, payload |-> e.ciphertext.msg]
  BY DEF IndInv, WireSealed
<1>3. Len(delivered[h]) \in Nat /\ Len(sent[p]) \in Nat
  BY <1>0 DEF TypeOK
<1>4. /\ Len(saids[p]) = Len(sent[p])
      /\ saids[p][Len(delivered[h]) + 1]
           = [frame_id |-> e.frame_id, payload |-> e.ciphertext.msg]
  BY <1>1, <1>2, <1>3 DEF saids, Frames
<1>5. ends[h].chan = ends[p].chan /\ ends[h].side # ends[p].side
  <2>1. session[p].send_key = Derive(session[h].send_key.secret,
                                     Other(session[h].send_key.label))
    BY <1>1, <1>2 DEF IndInv, KeysPaired
  <2>2. Other(session[h].send_key.label) # session[h].send_key.label
    BY DEF Other
  <2>. QED
    BY <2>1, <2>2 DEF ends, Derive
<1>6. ends' = ends /\ saids' = saids
  BY <1>e DEF ends, saids, Decrypted
<1>7. delivered' = [delivered EXCEPT ![h] = Append(@, saids[p][Len(delivered[h]) + 1])]
  BY <1>4 DEF decrypt_frame
<1>8. Channel!Hear(h, p)
  BY <1>1, <1>2, <1>4, <1>5, <1>6, <1>7
     DEF Channel!Hear, Channel!Opposite, ends, saids, Frames
<1>. QED
  BY <1>8 DEF Channel!Next, ends

\* Every step is a step of the channel or changes nothing it sees.
LEMMA NextRefines == IndInv /\ [Next]_vars => [Channel!Next]_(Channel!chanVars)
<1>. SUFFICES ASSUME IndInv, [Next]_vars PROVE Channel!Next \/ UNCHANGED Channel!chanVars
  OBVIOUS
<1>1. ASSUME NEW h \in Handles, NEW n \in Nodes, NEW remote \in Nodes,
             establish_session(h, n, remote)
      PROVE  Channel!Next
  <2>. DEFINE secret == encapsulate_to_peer(h, remote).secret
              k1 == Derive(secret, "SEND")
              k2 == Derive(secret, "RECV")
  <2>1. h \in Handles \ DOMAIN session /\ Open(h, n, k1, k2)
    BY <1>1 DEF establish_session
  <2>2. k1 \in Key /\ k2 \in Key /\ k1.secret.by = h
    BY <2>1 DEF encapsulate_to_peer, Secret, Derive, Key
  <2>. HIDE DEF k1, k2
  <2>. QED
    BY <2>1, <2>2, OpenRefines
<1>2. ASSUME NEW h \in Handles, NEW n \in Nodes, NEW enc \in encapsulations,
             accept_session(h, n, enc)
      PROVE  Channel!Next
  <2>. DEFINE secret == decapsulate_from_peer(n, enc)
              k1 == Derive(secret, "RECV")
              k2 == Derive(secret, "SEND")
  <2>1. h \in Handles \ DOMAIN session /\ Open(h, n, k1, k2)
    BY <1>2 DEF accept_session
  <2>2. k1 \in Key /\ k2 \in Key /\ k1.label # "SEND"
    BY DEF IndInv, TypeOK, decapsulate_from_peer, Secret, Encapsulation, Derive, Key
  <2>. HIDE DEF k1, k2
  <2>. QED
    BY <2>1, <2>2, OpenRefines
<1>3. ASSUME NEW h \in DOMAIN session, NEW f \in Frame, encrypt_frame(h, f)
      PROVE  Channel!Next
  BY <1>3, EncryptRefines
<1>4. ASSUME NEW h \in DOMAIN session, NEW e \in wire, decrypt_frame(h, e)
      PROVE  Channel!Next
  BY <1>4, DecryptRefines
<1>5. ASSUME session' = session, sent' = sent, delivered' = delivered
      PROVE  UNCHANGED Channel!chanVars
  BY <1>5 DEF Channel!chanVars
<1>. QED
  BY <1>1, <1>2, <1>3, <1>4, <1>5
     DEF Next, vars, cleanup_expired, Lose, Damage, SetClock

\* Over any network the transport keeps the promise of a secure channel: what an
\* end hears was said on the other side, in order, with nothing left out before it.
THEOREM Refinement == Spec => ImplementsChannel
BY InitRefines, NextRefines, IndCorrect, PTL DEF Spec, ImplementsChannel, Channel!Spec
=============================================================================
