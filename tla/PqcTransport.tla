---------------------------- MODULE PqcTransport ----------------------------
(***************************************************************************)
(* The post-quantum transport of crates/pqc-transport: hybrid key exchange,*)
(* sessions with counter nonces, the manager that keeps them, and the      *)
(* datagram network between two managers (README: "Encrypted UDP").        *)
(*                                                                         *)
(* Cryptography is symbolic.  A shared secret is named by the key pair it  *)
(* was computed with and the encapsulation it came from, so both ends hold *)
(* the same secret exactly when the encapsulation reaches the key pair it  *)
(* was made for.  An AEAD opening succeeds exactly under the key, nonce    *)
(* and associated data of the sealing.                                     *)
(***************************************************************************)
EXTENDS Naturals, Sequences

CONSTANTS
  Nodes,       \* processes: each has one HybridKem and one manager
  Handles,     \* identities of sessions (Arc<Mutex<PqcSession>>), and the bound on them
  FrameIds,    \* frame_id values of telemetry frames
  Payloads,    \* payloads of telemetry frames
  NonceLimit,  \* the counter's hard stop, 2^64 in the code
  Timeout,     \* session_timeout_nanos
  Times        \* readings of the wall clock (helpers::time::now_ns)

ASSUME NonceLimitAssumption == NonceLimit \in Nat
ASSUME TimeoutAssumption    == Timeout \in Nat
ASSUME TimesAssumption      == Times \subseteq Nat /\ Times # {}

VARIABLES
  session,        \* the PqcSession behind each handle created so far
  sessions,       \* PqcTransportManager.sessions of each node
  encapsulations, \* HybridEncapsulations handed out by establish_session
  wire,           \* encrypted frames the network may still deliver
  clock,          \* the wall clock
  sent,           \* history: what each session sealed, with the nonce used
  delivered       \* history: what each session opened, in order

vars == <<session, sessions, encapsulations, wire, clock, sent, delivered>>

-----------------------------------------------------------------------------
(* Key exchange.                                                           *)

Secret        == [kem: Nodes, by: Handles]
Key           == [secret: Secret, label: {"SEND", "RECV"}]
Encapsulation == [by: Handles, to: Nodes]
Frame         == [frame_id: FrameIds, payload: Payloads]
Ciphertext    == [key: Key, nonce: Nat, aad: FrameIds, msg: Payloads]
\* The nonce and tag fields of EncryptedFrame are always zero, so they are left out.
EncryptedFrame == [frame_id: FrameIds, ciphertext: Ciphertext]
\* What the history records of one sealing.
Sealing == [nonce: Nat, frame: Frame]
PqcSession == [send_key: Key, recv_key: Key, send_nonce: Nat, recv_nonce: Nat,
               last_activity: Nat]

\* The sender's half: fresh randomness, named by the session it opens.
encapsulate_to_peer(h, remote) ==
  [encapsulation |-> [by |-> h, to |-> remote],
   secret        |-> [kem |-> remote, by |-> h]]

\* The receiver's half uses its own key pair whatever key the encapsulation was
\* made for: ML-KEM never refuses a ciphertext, it yields another secret.
decapsulate_from_peer(local, enc) == [kem |-> local, by |-> enc.by]

\* Mutant: one key for both directions (no domain separation).
DeriveNoSeparation(secret, label) == [secret |-> secret, label |-> "SEND"]

Derive(secret, label) == [secret |-> secret, label |-> label]

NewSession(send_key, recv_key) ==
  [send_key |-> send_key, recv_key |-> recv_key,
   send_nonce |-> 0, recv_nonce |-> 0, last_activity |-> clock]

\* f extended with (or updated at) h.
With(f, h, v) == [x \in DOMAIN f \cup {h} |-> IF x = h THEN v ELSE f[x]]

-----------------------------------------------------------------------------
Init ==
  /\ session = [h \in {} |-> 0]
  /\ sessions = [n \in Nodes |-> {}]
  /\ encapsulations = {}
  /\ wire = {}
  /\ clock \in Times
  /\ sent = [h \in {} |-> <<>>]
  /\ delivered = [h \in {} |-> <<>>]

\* A new session behind a new handle, pushed to the manager's list.
Open(h, n, send_key, recv_key) ==
  /\ session' = With(session, h, NewSession(send_key, recv_key))
  /\ sessions' = [sessions EXCEPT ![n] = @ \cup {h}]
  /\ sent' = With(sent, h, <<>>)
  /\ delivered' = With(delivered, h, <<>>)
  /\ UNCHANGED <<wire, clock>>

establish_session(h, n, remote) ==
  /\ h \in Handles \ DOMAIN session
  /\ LET out == encapsulate_to_peer(h, remote)
     IN  /\ Open(h, n, Derive(out.secret, "SEND"), Derive(out.secret, "RECV"))
         /\ encapsulations' = encapsulations \cup {out.encapsulation}

\* Nothing remembers which encapsulations were accepted: the same one may be
\* accepted again, and one made for another node is accepted too.
accept_session(h, n, enc) ==
  /\ h \in Handles \ DOMAIN session
  /\ LET secret == decapsulate_from_peer(n, enc)
     IN  Open(h, n, Derive(secret, "RECV"), Derive(secret, "SEND"))
  /\ UNCHANGED encapsulations

-----------------------------------------------------------------------------
(* Sessions.  A handle outlives its place in the manager's list, so both   *)
(* operations are open to every handle ever returned.                      *)

Sealed(s, f) ==
  [frame_id   |-> f.frame_id,
   ciphertext |-> [key |-> s.send_key, nonce |-> s.send_nonce,
                   aad |-> f.frame_id, msg |-> f.payload]]

\* The effects of a success on a session's record.
AfterSend(s)    == [s EXCEPT !.send_nonce = s.send_nonce + 1]
\* Mutant: the receive counter is not advanced.
AfterReceiveSame(s) == s

AfterReceive(s) == [s EXCEPT !.recv_nonce = s.recv_nonce + 1]
Touched(s)      == [s EXCEPT !.last_activity = clock]

\* Mutants: the frame_id is not authenticated; any later nonce is accepted.
OpensNoAad(s, e) ==
  e.ciphertext.key = s.recv_key /\ e.ciphertext.nonce = s.recv_nonce

OpensAnyLaterNonce(s, e) ==
  /\ e.ciphertext.key = s.recv_key
  /\ e.ciphertext.nonce >= s.recv_nonce
  /\ e.ciphertext.aad = e.frame_id

\* AEAD opening under the session's own receive counter.
Opens(s, e) ==
  /\ e.ciphertext.key = s.recv_key
  /\ e.ciphertext.nonce = s.recv_nonce
  /\ e.ciphertext.aad = e.frame_id

\* Mutant: the limit is off by one.
encryptPastLimit(h) ==
  /\ session[h].send_nonce <= NonceLimit
  /\ session' = [session EXCEPT ![h] = Touched(AfterSend(session[h]))]

\* PqcSession::encrypt on success; past the limit it returns NonceExhausted
\* and changes nothing.
encrypt(h) ==
  /\ session[h].send_nonce < NonceLimit
  /\ session' = [session EXCEPT ![h] = Touched(AfterSend(session[h]))]

encrypt_frame(h, f) ==
  /\ encrypt(h)
  /\ wire' = wire \cup {Sealed(session[h], f)}
  /\ sent' = [sent EXCEPT ![h] =
                Append(@, [nonce |-> session[h].send_nonce, frame |-> f])]
  /\ UNCHANGED <<sessions, encapsulations, clock, delivered>>

\* PqcSession::decrypt on success; a failed opening changes nothing.
decrypt(h, e) ==
  /\ session[h].recv_nonce < NonceLimit
  /\ Opens(session[h], e)
  /\ session' = [session EXCEPT ![h] = Touched(AfterReceive(session[h]))]

decrypt_frame(h, e) ==
  /\ decrypt(h, e)
  /\ delivered' = [delivered EXCEPT ![h] =
       Append(@, [frame_id |-> e.frame_id, payload |-> e.ciphertext.msg])]
  /\ UNCHANGED <<sessions, encapsulations, wire, clock, sent>>

\* Mutant: the subtraction wraps around when the clock was set back.
is_expiredWrapping(s) ==
  clock < s.last_activity \/ clock - s.last_activity > Timeout

is_expired(s) ==
  LET elapsed == IF clock >= s.last_activity THEN clock - s.last_activity ELSE 0
  IN  elapsed > Timeout

cleanup_expired(n) ==
  /\ sessions' = [sessions EXCEPT ![n] = {h \in @ : ~is_expired(session[h])}]
  /\ UNCHANGED <<session, encapsulations, wire, clock, sent, delivered>>

-----------------------------------------------------------------------------
(* The environment: a network that keeps frames in no order, delivers them *)
(* any number of times, loses them and damages their headers; and a wall   *)
(* clock, which may be set back.                                           *)

Lose(e) ==
  /\ wire' = wire \ {e}
  /\ UNCHANGED <<session, sessions, encapsulations, clock, sent, delivered>>

Damage(e, id) ==
  /\ wire' = (wire \ {e}) \cup {[e EXCEPT !.frame_id = id]}
  /\ UNCHANGED <<session, sessions, encapsulations, clock, sent, delivered>>

SetClock(t) ==
  /\ clock' = t
  /\ UNCHANGED <<session, sessions, encapsulations, wire, sent, delivered>>

Next ==
  \/ \E h \in Handles, n, remote \in Nodes : establish_session(h, n, remote)
  \/ \E h \in Handles, n \in Nodes, enc \in encapsulations : accept_session(h, n, enc)
  \/ \E h \in DOMAIN session, f \in Frame : encrypt_frame(h, f)
  \/ \E h \in DOMAIN session, e \in wire : decrypt_frame(h, e)
  \/ \E n \in Nodes : cleanup_expired(n)
  \/ \E e \in wire : Lose(e)
  \/ \E e \in wire, id \in FrameIds : Damage(e, id)
  \/ \E t \in Times : SetClock(t)

Spec == Init /\ [][Next]_vars

-----------------------------------------------------------------------------
(* Properties.                                                             *)

\* Types of the variables; every session has its two histories, and the managers
\* list sessions that exist.
TypeOK ==
  /\ DOMAIN session \subseteq Handles
  /\ session \in [DOMAIN session -> PqcSession]
  /\ sessions \in [Nodes -> SUBSET DOMAIN session]
  /\ encapsulations \subseteq Encapsulation
  /\ wire \subseteq EncryptedFrame
  /\ clock \in Times
  /\ sent \in [DOMAIN session -> Seq(Sealing)]
  /\ delivered \in [DOMAIN session -> Seq(Frame)]

Initiators == {h \in DOMAIN session : session[h].send_key.label = "SEND"}
Acceptors  == DOMAIN session \ Initiators

\* A use of an AES-GCM key: the i-th sealing of session h.
Uses == {u \in (DOMAIN session) \X (1..NonceLimit) : u[2] <= Len(sent[u[1]])}
UsedKey(u)   == session[u[1]].send_key
UsedNonce(u) == sent[u[1]][u[2]].nonce

\* README "no (key, nonce) reuse": no two sealings, of one session or of two,
\* share a key and a nonce.
NoNonceReuse ==
  \A u, v \in Uses : UsedKey(u) = UsedKey(v) /\ UsedNonce(u) = UsedNonce(v) => u = v

\* No two sessions were accepted from one encapsulation with one key pair.
AcceptedOnce ==
  \A g, h \in Acceptors : session[g].send_key = session[h].send_key => g = h

\* What the counter nonces of PqcSession::encrypt do guarantee across sessions:
\* reuse needs an encapsulation accepted twice.
NonceReuseNeedsReaccept == AcceptedOnce => NoNonceReuse

\* "counter hard-stops at 2^64": no nonce at or past the limit is ever used, and
\* a session's counter tells how many frames it sealed.
CounterHardStops ==
  \A h \in DOMAIN session :
    /\ session[h].send_nonce = Len(sent[h])
    /\ \A i \in 1..Len(sent[h]) : sent[h][i].nonce < NonceLimit

\* The sessions that seal what h opens.
Peers(h) == {p \in DOMAIN session : session[p].send_key = session[h].recv_key}

\* Whatever the network does, the i-th frame a session opens is the i-th frame
\* some peer sealed, under the same frame_id.
DeliveredInOrder ==
  \A h \in DOMAIN session : \A i \in 1..Len(delivered[h]) :
    \E p \in Peers(h) : i <= Len(sent[p]) /\ sent[p][i].frame = delivered[h][i]

\* An accepting session opens a prefix of what one initiator sealed: no loss in
\* the middle, no duplicate, no reordering.
AcceptorGetsPrefix ==
  \A h \in Acceptors : delivered[h] # <<>> =>
    \E p \in Initiators :
      /\ session[p].send_key = session[h].recv_key
      /\ Len(delivered[h]) <= Len(sent[p])
      /\ \A i \in 1..Len(delivered[h]) : delivered[h][i] = sent[p][i].frame

\* The frame an acceptor waits for was sealed and is gone from the network.
Stuck(h) ==
  /\ h \in Acceptors
  /\ \E p \in Peers(h) : session[h].recv_nonce < session[p].send_nonce
  /\ ~ \E e \in wire : /\ e.ciphertext.key = session[h].recv_key
                       /\ e.ciphertext.nonce = session[h].recv_nonce

\* The counter is never resynchronised (decrypt uses recv_nonce, encrypt_frame
\* sends a zero nonce): one lost frame silences the session for good.
LossIsPermanent ==
  [][\A h \in DOMAIN session : Stuck(h) => Stuck(h)' /\ delivered'[h] = delivered[h]]_vars

\* cleanup_expired under a wall clock that may be set back (saturating_sub): it
\* drops a session only when the clock is past its last use by more than the timeout.
OnlyIdleSessionsDropped ==
  [][\A n \in Nodes : \A h \in sessions[n] \ sessions'[n] :
       clock > session[h].last_activity + Timeout]_vars

\* The transport implements its promise: a channel is the secret both ends derived,
\* the side of an end is the label of its sending key.
Channel == INSTANCE SecureChannel WITH
  Ends     <- Handles,
  Channels <- Secret,
  Messages <- Frame,
  end      <- [h \in DOMAIN session |-> [chan |-> session[h].send_key.secret,
                                         side |-> session[h].send_key.label]],
  said     <- [h \in DOMAIN session |-> [i \in 1..Len(sent[h]) |-> sent[h][i].frame]],
  heard    <- delivered

ImplementsChannel == Channel!Spec
=============================================================================
