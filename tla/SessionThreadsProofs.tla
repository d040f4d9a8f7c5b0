------------------------ MODULE SessionThreadsProofs ------------------------
(***************************************************************************)
(* Proofs, for any number of senders, receivers, openers and cleaners: the *)
(* threads sharing a session handle never seal two frames under one nonce, *)
(* only overtaking between the locks and the wire loses a frame, a cleanup *)
(* misses nothing, the whole implements SecureChannel, and the threads are *)
(* never all waiting.                                                      *)
(***************************************************************************)
EXTENDS SessionThreads, SequenceTheorems, TLAPS

Places == {"create", "push", "ready", "seal", "count", "transmit", "open", "scan"}
Carried == [from: Senders \cup {"none"}, n: Int, nonce: Nat]

\* The types the proof needs.
Types ==
  /\ pc \in [Threads -> Places]
  /\ owner \in [{"list", "tx"} -> Threads \cup {"free"}]
  /\ send_nonce \in Nat
  /\ budget \in [Senders \cup Cleaners -> Int]
  /\ hand \in [Senders \cup Receivers -> Carried]
  /\ wire \in Seq(Carried)
  /\ sealed \in Seq(Carried)

\* A sender is between reading and counting the nonce only while it holds the
\* session's lock.
LockHeld == \A t \in Senders : pc[t] \in {"seal", "count"} <=> owner["tx"] = t

\* The nonce a sender sealed under and has not counted yet is the counter's value.
NonceFresh == \A t \in Senders : pc[t] = "count" => hand[t].nonce = send_nonce

\* The counter is the number of frames sealed.
CounterExact == send_nonce = Len(sealed)

IndInv == Types /\ LockHeld /\ NonceFresh /\ CounterExact /\ NoncesUnique

-----------------------------------------------------------------------------
\* Nobody has started and nothing is sealed.
LEMMA InitInd == Init => IndInv
<1>. SUFFICES ASSUME Init PROVE IndInv
  OBVIOUS
<1>1. Types
  BY BoundsAssumption DEF Init, Types, Places, Carried
<1>2. LockHeld /\ NonceFresh
  BY ThreadsAssumption DEF Init, LockHeld, NonceFresh, Threads
<1>3. CounterExact /\ NoncesUnique
  BY DEF Init, CounterExact, NoncesUnique
<1>. QED
  BY <1>1, <1>2, <1>3 DEF IndInv

-----------------------------------------------------------------------------
(* Senders.                                                                *)

\* A sender that gets the lock is the only one past it.
LEMMA LockTxInd ==
  ASSUME IndInv, NEW t \in Senders, LockTx(t)
  PROVE  IndInv'
<1>1. /\ pc' = [pc EXCEPT ![t] = "seal"] /\ pc[t] = "ready"
      /\ owner["tx"] = "free" /\ owner' = [owner EXCEPT !["tx"] = t]
      /\ UNCHANGED <<send_nonce, budget, hand, wire, sealed>>
  BY DEF LockTx, Goto, Acquire, counters, carried, frames
<1>2. Types'
  BY <1>1 DEF IndInv, Types, Places, Threads
<1>3. LockHeld'
  BY <1>1, ThreadsAssumption DEF IndInv, Types, LockHeld, Threads
<1>4. NonceFresh'
  BY <1>1 DEF IndInv, Types, NonceFresh, Threads
<1>. QED
  BY <1>1, <1>2, <1>3, <1>4 DEF IndInv, CounterExact, NoncesUnique

\* Sealing takes the nonce the counter shows.
LEMMA SealInd ==
  ASSUME IndInv, NEW t \in Senders, Seal(t)
  PROVE  IndInv'
<1>. DEFINE new == [from |-> t, n |-> budget[t], nonce |-> send_nonce]
<1>1. /\ pc' = [pc EXCEPT ![t] = "count"] /\ pc[t] = "seal"
      /\ hand' = [hand EXCEPT ![t] = new]
      /\ UNCHANGED <<owner, send_nonce, budget, wire, sealed>>
  BY DEF Seal, Goto, counters, frames
<1>2. new \in Carried /\ new.nonce = send_nonce
  BY DEF IndInv, Types, Carried
<1>. HIDE DEF new
<1>3. Types'
  BY <1>1, <1>2 DEF IndInv, Types, Places, Threads
<1>4. LockHeld'
  BY <1>1 DEF IndInv, Types, LockHeld, Threads
<1>5. NonceFresh'
  BY <1>1, <1>2 DEF IndInv, Types, NonceFresh, Threads
<1>. QED
  BY <1>1, <1>3, <1>4, <1>5 DEF IndInv, CounterExact, NoncesUnique

\* A sender that finds the counter exhausted gives the lock back.
LEMMA ExhaustedInd ==
  ASSUME IndInv, NEW t \in Senders, Exhausted(t)
  PROVE  IndInv'
<1>1. /\ pc' = [pc EXCEPT ![t] = "ready"] /\ pc[t] = "seal"
      /\ owner' = [owner EXCEPT !["tx"] = "free"]
      /\ budget' = [budget EXCEPT ![t] = 0]
      /\ UNCHANGED <<send_nonce, hand, wire, sealed>>
  BY DEF Exhausted, Goto, Release, counters, frames
<1>2. Types'
  BY <1>1 DEF IndInv, Types, Places, Threads
<1>3. LockHeld'
  BY <1>1, ThreadsAssumption DEF IndInv, Types, LockHeld, Threads
<1>4. NonceFresh'
  BY <1>1 DEF IndInv, Types, NonceFresh, Threads
<1>. QED
  BY <1>1, <1>2, <1>3, <1>4 DEF IndInv, CounterExact, NoncesUnique

\* Counting records the frame under the nonce it was sealed with; no other sender
\* holds one that is not counted.
LEMMA CountInd ==
  ASSUME IndInv, NEW t \in Senders, Count(t)
  PROVE  IndInv'
<1>1. /\ pc' = [pc EXCEPT ![t] = "transmit"] /\ pc[t] = "count"
      /\ owner' = [owner EXCEPT !["tx"] = "free"]
      /\ send_nonce' = send_nonce + 1
      /\ sealed' = Append(sealed, hand[t])
      /\ UNCHANGED <<hand, budget, wire>>
  BY DEF Count, Goto, Release, carried
<1>2. hand[t] \in Carried /\ hand[t].nonce = send_nonce
  BY <1>1 DEF IndInv, Types, NonceFresh
<1>3. owner["tx"] = t
  BY <1>1 DEF IndInv, LockHeld
<1>4. /\ sealed' \in Seq(Carried) /\ Len(sealed') = Len(sealed) + 1
      /\ sealed'[Len(sealed) + 1] = hand[t] /\ Len(sealed) \in Nat
      /\ \A i \in 1..Len(sealed) : sealed'[i] = sealed[i]
  <2>1. sealed \in Seq(Carried)
    BY DEF IndInv, Types
  <2>. QED
    BY <1>1, <1>2, <2>1
<1>5. Types'
  BY <1>1, <1>4 DEF IndInv, Types, Places, Threads
<1>6. LockHeld'
  BY <1>1, <1>3, ThreadsAssumption DEF IndInv, Types, LockHeld, Threads
<1>7. NonceFresh'
  BY <1>1, <1>3 DEF IndInv, Types, LockHeld, NonceFresh, Threads
<1>8. CounterExact' /\ NoncesUnique'
  <2>1. send_nonce = Len(sealed)
    BY DEF IndInv, CounterExact
  <2>2. ASSUME NEW i \in 1..(Len(sealed) + 1) PROVE sealed'[i].nonce = i - 1
    <3>1. CASE i \in 1..Len(sealed)
      BY <1>4, <3>1 DEF IndInv, NoncesUnique
    <3>2. CASE i = Len(sealed) + 1
      BY <1>2, <1>4, <2>1, <3>2
    <3>. QED
      BY <1>4, <3>1, <3>2
  <2>. QED
    BY <1>1, <1>4, <2>1, <2>2 DEF CounterExact, NoncesUnique
<1>. QED
  BY <1>5, <1>6, <1>7, <1>8 DEF IndInv

\* Transmission happens outside the lock.
LEMMA TransmitInd ==
  ASSUME IndInv, NEW t \in Senders, Transmit(t)
  PROVE  IndInv'
<1>1. /\ pc' = [pc EXCEPT ![t] = "ready"] /\ pc[t] = "transmit"
      /\ wire' = Append(wire, hand[t])
      /\ budget' = [budget EXCEPT ![t] = budget[t] - 1]
      /\ UNCHANGED <<owner, send_nonce, hand, sealed>>
  BY DEF Transmit, Goto, counters
<1>2. Types'
  BY <1>1 DEF IndInv, Types, Places, Threads
<1>3. LockHeld' /\ NonceFresh'
  BY <1>1 DEF IndInv, Types, LockHeld, NonceFresh, Threads
<1>. QED
  BY <1>1, <1>2, <1>3 DEF IndInv, CounterExact, NoncesUnique

-----------------------------------------------------------------------------
(* Everybody else.                                                         *)

\* A thread that does not seal leaves the senders, the session's lock and the
\* counter alone.
LEMMA OthersInd ==
  ASSUME IndInv, Types', \A t \in Senders : pc'[t] = pc[t] /\ hand'[t] = hand[t],
         owner'["tx"] = owner["tx"], UNCHANGED <<send_nonce, sealed>>
  PROVE  IndInv'
BY DEF IndInv, LockHeld, NonceFresh, CounterExact, NoncesUnique

\* Openers touch their own work and the list only.
LEMMA OpenerInd ==
  ASSUME IndInv, NEW o \in OpenerThreads, OpenerStep(o)
  PROVE  IndInv'
<1>1. \E place \in {"push", "create"} : pc' = [pc EXCEPT ![o] = place]
  BY DEF OpenerStep, Create, Push, Goto
<1>2. UNCHANGED <<owner, send_nonce, budget, hand, wire, sealed>>
  BY DEF OpenerStep, Create, Push, counters, carried, frames
<1>3. Types'
  BY <1>1, <1>2 DEF IndInv, Types, Places, Threads
<1>4. o \notin Senders
  BY ThreadsAssumption
<1>. QED
  BY <1>1, <1>2, <1>3, <1>4, OthersInd DEF IndInv, Types, Threads

\* Receivers take frames from the wire into their own hands.
LEMMA ReceiverInd ==
  ASSUME IndInv, NEW t \in Receivers, ReceiverStep(t)
  PROVE  IndInv'
<1>1. t \notin Senders
  BY ThreadsAssumption
<1>2. CASE Take(t)
  <2>1. /\ pc' = [pc EXCEPT ![t] = "open"]
        /\ hand' = [hand EXCEPT ![t] = Head(wire)]
        /\ wire' = Tail(wire) /\ wire # <<>>
        /\ UNCHANGED <<owner, send_nonce, budget, sealed>>
    BY <1>2 DEF Take, Goto, counters
  <2>2. Types'
    BY <2>1 DEF IndInv, Types, Places, Threads
  <2>. QED
    BY <1>1, <2>1, <2>2, OthersInd DEF IndInv, Types, Threads
<1>3. CASE Open(t)
  <2>1. /\ pc' = [pc EXCEPT ![t] = "ready"]
        /\ UNCHANGED <<owner, send_nonce, budget, hand, wire, sealed>>
    BY <1>3 DEF Open, Goto, carried
  <2>2. Types'
    BY <2>1 DEF IndInv, Types, Places, Threads
  <2>. QED
    BY <1>1, <2>1, <2>2, OthersInd DEF IndInv, Types, Threads
<1>. QED
  BY <1>2, <1>3 DEF ReceiverStep

\* Cleaners hold the list lock; the session's lock they only wait for.
LEMMA CleanerInd ==
  ASSUME IndInv, NEW c \in Cleaners, CleanerStep(c)
  PROVE  IndInv'
<1>1. c \notin Senders /\ c \in Threads
  BY ThreadsAssumption DEF Threads
<1>2. CASE LockList(c)
  <2>1. /\ pc' = [pc EXCEPT ![c] = "scan"]
        /\ owner' = [owner EXCEPT !["list"] = c]
        /\ budget' = [budget EXCEPT ![c] = budget[c] - 1]
        /\ UNCHANGED <<send_nonce, hand, wire, sealed>>
    BY <1>2 DEF LockList, Goto, Acquire, counters, frames
  <2>2. Types'
    BY <1>1, <2>1 DEF IndInv, Types, Places
  <2>. QED
    BY <1>1, <2>1, <2>2, OthersInd DEF IndInv, Types, Threads
<1>3. CASE Check(c)
  <2>1. UNCHANGED <<pc, owner, send_nonce, budget, hand, wire, sealed>>
    BY <1>3 DEF Check, counters, frames
  <2>2. Types'
    BY <2>1 DEF IndInv, Types
  <2>. QED
    BY <2>1, <2>2, OthersInd
<1>4. CASE UnlockList(c)
  <2>1. /\ pc' = [pc EXCEPT ![c] = "ready"]
        /\ owner' = [owner EXCEPT !["list"] = "free"]
        /\ UNCHANGED <<send_nonce, budget, hand, wire, sealed>>
    BY <1>4 DEF UnlockList, Goto, Release, counters, carried, frames
  <2>2. Types'
    BY <1>1, <2>1 DEF IndInv, Types, Places
  <2>. QED
    BY <1>1, <2>1, <2>2, OthersInd DEF IndInv, Types, Threads
<1>. QED
  BY <1>2, <1>3, <1>4 DEF CleanerStep

-----------------------------------------------------------------------------
\* Every step preserves the invariant.
LEMMA NextInd == IndInv /\ [Next]_vars => IndInv'
<1>. SUFFICES ASSUME IndInv, [Next]_vars PROVE IndInv'
  OBVIOUS
<1>1. ASSUME NEW t \in Senders, SenderStep(t) PROVE IndInv'
  BY <1>1, LockTxInd, SealInd, ExhaustedInd, CountInd, TransmitInd DEF SenderStep
<1>2. ASSUME UNCHANGED <<pc, owner, send_nonce, budget, hand, wire, sealed>> PROVE IndInv'
  <2>1. Types'
    BY <1>2 DEF IndInv, Types
  <2>. QED
    BY <1>2, <2>1, OthersInd
<1>3. ASSUME NEW t \in 0..Now, SetClock(t) PROVE IndInv'
  BY <1>2, <1>3 DEF SetClock, counters, frames
<1>4. CASE UNCHANGED vars
  BY <1>2, <1>4 DEF vars, counters, carried, frames
<1>. QED
  BY <1>1, <1>3, <1>4, OpenerInd, ReceiverInd, CleanerInd DEF Next

\* However threads interleave in encrypt_frame on one handle, the i-th frame sealed
\* carries nonce i - 1.
THEOREM NoncePerFrame == Spec => []NoncesUnique
<1>1. IndInv => NoncesUnique
  BY DEF IndInv
<1>. QED
  BY <1>1, InitInd, NextInd, PTL DEF Spec

-----------------------------------------------------------------------------
(* Losses.                                                                 *)

ReceiveTypes == attempts \in Seq(Carried) /\ got \in Seq(Carried) /\ recv_nonce = Len(got)

\* The counter never passes its limit, and a sender about to count is below it.
BelowLimit ==
  /\ send_nonce <= NonceLimit
  /\ \A t \in Senders : pc[t] = "count" => send_nonce < NonceLimit

\* A frame on its way, or tried already, carries a nonce that was counted.
Counted ==
  /\ \A i \in 1..Len(wire) : wire[i].nonce < send_nonce
  /\ \A i \in 1..Len(attempts) : attempts[i].nonce < send_nonce
  /\ \A t \in Senders : pc[t] = "transmit" => hand[t].nonce < send_nonce
  /\ \A t \in Receivers : pc[t] = "open" => hand[t].nonce < send_nonce

LossInv == ReceiveTypes /\ BelowLimit /\ Counted /\ OnlyOvertakingLoses

\* A step that moves no frame and no counter keeps it.
LEMMA QuietLoss ==
  ASSUME LossInv, UNCHANGED <<send_nonce, recv_nonce, frames>>,
         \A t \in Senders : /\ pc'[t] = "count" => send_nonce < NonceLimit
                            /\ pc'[t] = "transmit" => pc[t] = "transmit" /\ hand'[t] = hand[t],
         \A t \in Receivers : pc'[t] = "open" => pc[t] = "open" /\ hand'[t] = hand[t]
  PROVE  LossInv'
<1>1. ReceiveTypes' /\ BelowLimit'
  BY DEF LossInv, ReceiveTypes, BelowLimit, frames
<1>2. Counted'
  BY DEF LossInv, Counted, frames
<1>3. OnlyOvertakingLoses'
  BY DEF LossInv, OnlyOvertakingLoses, frames
<1>. QED
  BY <1>1, <1>2, <1>3 DEF LossInv

\* Counting: the frame is sealed under the value the counter had, which no frame
\* tried so far carries, so nothing tried becomes part of what was sealed.
LEMMA CountLoss ==
  ASSUME IndInv, LossInv, NEW t \in Senders, Count(t)
  PROVE  LossInv'
<1>1. /\ pc' = [pc EXCEPT ![t] = "transmit"] /\ pc[t] = "count"
      /\ send_nonce' = send_nonce + 1
      /\ sealed' = Append(sealed, hand[t])
      /\ UNCHANGED <<hand, wire, attempts, got, recv_nonce>>
  BY DEF Count, Goto, carried
<1>2. /\ hand[t] \in Carried /\ hand[t].nonce = send_nonce
      /\ send_nonce \in Nat /\ send_nonce = Len(sealed)
      /\ sealed \in Seq(Carried) /\ wire \in Seq(Carried) /\ pc \in [Threads -> Places]
      /\ \A x \in Carried : x.nonce \in Nat
  BY <1>1 DEF IndInv, Types, NonceFresh, CounterExact, Carried
<1>3. owner["tx"] = t
  BY <1>1 DEF IndInv, LockHeld
<1>4. \A u \in Senders : u # t => pc[u] # "count"
  BY <1>3 DEF IndInv, LockHeld
<1>5. /\ \A u \in Senders : u # t => pc'[u] = pc[u]
      /\ \A u \in Receivers : pc'[u] = pc[u]
      /\ pc'[t] = "transmit"
  BY <1>1, <1>2, ThreadsAssumption DEF Threads
<1>6. ReceiveTypes'
  BY <1>1 DEF LossInv, ReceiveTypes
<1>7. BelowLimit'
  <2>1. send_nonce < NonceLimit /\ NonceLimit \in Nat
    BY <1>1, BoundsAssumption DEF LossInv, BelowLimit
  <2>. QED
    BY <1>1, <1>2, <1>4, <1>5, <2>1 DEF BelowLimit
<1>8. Counted'
  <2>1. attempts \in Seq(Carried)
    BY DEF LossInv, ReceiveTypes
  <2>2. \A x \in Carried : x.nonce < send_nonce => x.nonce < send_nonce + 1
    BY <1>2
  <2>3. \A u \in Senders \cup Receivers : hand[u] \in Carried
    BY DEF IndInv, Types
  <2>4. \A i \in 1..Len(wire) : wire'[i].nonce < send_nonce'
    BY <1>1, <1>2, <2>2 DEF LossInv, Counted
  <2>5. \A i \in 1..Len(attempts) : attempts'[i].nonce < send_nonce'
    BY <1>1, <2>1, <2>2 DEF LossInv, Counted
  <2>6. ASSUME NEW u \in Senders, pc'[u] = "transmit" PROVE hand'[u].nonce < send_nonce'
    <3>1. CASE u = t
      BY <1>1, <1>2, <3>1
    <3>2. CASE u # t
      BY <1>1, <1>5, <2>2, <2>3, <2>6, <3>2 DEF LossInv, Counted
    <3>. QED
      BY <3>1, <3>2
  <2>7. ASSUME NEW u \in Receivers, pc'[u] = "open" PROVE hand'[u].nonce < send_nonce'
    BY <1>1, <1>5, <2>2, <2>3, <2>7 DEF LossInv, Counted
  <2>. QED
    BY <1>1, <2>4, <2>5, <2>6, <2>7 DEF Counted
<1>9. OnlyOvertakingLoses'
  <2>. SUFFICES ASSUME IsPrefix(attempts, sealed') PROVE IsPrefix(attempts, sealed)
    BY <1>1 DEF LossInv, OnlyOvertakingLoses
  <2>1. /\ attempts \in Seq(Carried) /\ Len(attempts) \in Nat /\ Len(sealed) \in Nat
        /\ Len(sealed') = Len(sealed) + 1 /\ sealed'[Len(sealed) + 1] = hand[t]
        /\ \A i \in 1..Len(sealed) : sealed'[i] = sealed[i]
    BY <1>1, <1>2 DEF LossInv, ReceiveTypes
  <2>2. Len(attempts) <= Len(sealed') /\ \A i \in 1..Len(attempts) : attempts[i] = sealed'[i]
    BY <2>1 DEF IsPrefix
  <2>3. Len(attempts) # Len(sealed) + 1
    <3>1. SUFFICES ASSUME Len(attempts) = Len(sealed) + 1 PROVE FALSE
      OBVIOUS
    <3>2. attempts[Len(sealed) + 1].nonce < send_nonce
      BY <2>1, <3>1 DEF LossInv, Counted
    <3>3. attempts[Len(sealed) + 1] = hand[t]
      BY <2>1, <2>2, <3>1
    <3>. QED
      BY <1>2, <3>2, <3>3
  <2>4. Len(attempts) <= Len(sealed)
    BY <2>1, <2>2, <2>3
  <2>5. \A i \in 1..Len(attempts) : attempts[i] = sealed[i]
    BY <2>1, <2>2, <2>4
  <2>. QED
    BY <1>2, <2>1, <2>4, <2>5 DEF IsPrefix
<1>. QED
  BY <1>6, <1>7, <1>8, <1>9 DEF LossInv

\* A frame goes on the wire as it was counted.
LEMMA TransmitLoss ==
  ASSUME IndInv, LossInv, NEW t \in Senders, Transmit(t)
  PROVE  LossInv'
<1>1. /\ pc' = [pc EXCEPT ![t] = "ready"] /\ pc[t] = "transmit"
      /\ wire' = Append(wire, hand[t])
      /\ UNCHANGED <<send_nonce, recv_nonce, hand, sealed, attempts, got>>
  BY DEF Transmit, Goto, counters
<1>2. wire \in Seq(Carried) /\ hand[t] \in Carried /\ pc \in [Threads -> Places]
  BY DEF IndInv, Types
<1>3. /\ \A u \in Senders : pc'[u] \in {"count", "transmit"} => pc'[u] = pc[u]
      /\ \A u \in Receivers : pc'[u] = pc[u]
  BY <1>1, <1>2, ThreadsAssumption DEF Threads
<1>4. \A i \in 1..Len(wire') : wire'[i].nonce < send_nonce
  <2>1. hand[t].nonce < send_nonce
    BY <1>1 DEF LossInv, Counted
  <2>2. /\ Len(wire') = Len(wire) + 1 /\ Len(wire) \in Nat /\ wire'[Len(wire) + 1] = hand[t]
        /\ \A i \in 1..Len(wire) : wire'[i] = wire[i]
    BY <1>1, <1>2
  <2>. QED
    BY <2>1, <2>2 DEF LossInv, Counted
<1>5. Counted'
  BY <1>1, <1>3, <1>4 DEF LossInv, Counted
<1>. QED
  BY <1>1, <1>3, <1>5 DEF LossInv, ReceiveTypes, BelowLimit, OnlyOvertakingLoses

\* A receiver takes the oldest frame off the wire.
LEMMA TakeLoss ==
  ASSUME IndInv, LossInv, NEW t \in Receivers, Take(t)
  PROVE  LossInv'
<1>1. /\ pc' = [pc EXCEPT ![t] = "open"]
      /\ hand' = [hand EXCEPT ![t] = Head(wire)]
      /\ wire' = Tail(wire) /\ wire # <<>>
      /\ UNCHANGED <<send_nonce, recv_nonce, sealed, attempts, got>>
  BY DEF Take, Goto, counters
<1>2. /\ wire \in Seq(Carried) /\ pc \in [Threads -> Places]
      /\ hand \in [Senders \cup Receivers -> Carried]
  BY DEF IndInv, Types
<1>3. /\ \A u \in Senders : pc'[u] = pc[u] /\ hand'[u] = hand[u]
      /\ \A u \in Receivers : u # t => pc'[u] = pc[u] /\ hand'[u] = hand[u]
      /\ hand'[t] = wire[1]
  BY <1>1, <1>2, ThreadsAssumption DEF Threads
<1>4. /\ wire[1].nonce < send_nonce
      /\ \A i \in 1..Len(wire') : wire'[i].nonce < send_nonce
  <2>1. /\ 1 \in 1..Len(wire) /\ Len(wire') = Len(wire) - 1
        /\ \A i \in 1..Len(wire') : wire'[i] = wire[i + 1] /\ i + 1 \in 1..Len(wire)
    BY <1>1, <1>2
  <2>. QED
    BY <2>1 DEF LossInv, Counted
<1>5. Counted'
  BY <1>1, <1>3, <1>4 DEF LossInv, Counted
<1>. QED
  BY <1>1, <1>3, <1>5 DEF LossInv, ReceiveTypes, BelowLimit, OnlyOvertakingLoses

\* A frame that is tried in its turn carries the nonce the receiver expects.
LEMMA OpenLoss ==
  ASSUME IndInv, LossInv, NEW t \in Receivers, Open(t)
  PROVE  LossInv'
<1>1. /\ pc' = [pc EXCEPT ![t] = "ready"] /\ pc[t] = "open"
      /\ attempts' = Append(attempts, hand[t])
      /\ UNCHANGED <<send_nonce, hand, wire, sealed>>
  BY DEF Open, Goto, carried
<1>2. IF recv_nonce < NonceLimit /\ hand[t].nonce = recv_nonce
      THEN recv_nonce' = recv_nonce + 1 /\ got' = Append(got, hand[t])
      ELSE UNCHANGED <<recv_nonce, got>>
  BY DEF Open
<1>3. /\ attempts \in Seq(Carried) /\ got \in Seq(Carried) /\ recv_nonce = Len(got)
      /\ hand[t] \in Carried /\ pc \in [Threads -> Places] /\ sealed \in Seq(Carried)
  BY DEF LossInv, ReceiveTypes, IndInv, Types
<1>4. /\ attempts' \in Seq(Carried) /\ Len(attempts) \in Nat
      /\ Len(attempts') = Len(attempts) + 1 /\ attempts'[Len(attempts) + 1] = hand[t]
      /\ \A i \in 1..Len(attempts) : attempts'[i] = attempts[i]
  BY <1>1, <1>3
<1>5. ReceiveTypes'
  <2>1. Append(got, hand[t]) \in Seq(Carried) /\ Len(Append(got, hand[t])) = Len(got) + 1
    BY <1>3
  <2>. QED
    BY <1>2, <1>3, <1>4, <2>1 DEF ReceiveTypes
<1>6. /\ \A u \in Senders : pc'[u] = pc[u]
      /\ \A u \in Receivers : pc'[u] = "open" => pc[u] = "open"
  BY <1>1, <1>3, ThreadsAssumption DEF Threads
<1>7. BelowLimit' /\ Counted'
  <2>1. hand[t].nonce < send_nonce
    BY <1>1 DEF LossInv, Counted
  <2>2. \A i \in 1..Len(attempts') : attempts'[i].nonce < send_nonce
    BY <1>4, <2>1 DEF LossInv, Counted
  <2>. QED
    BY <1>1, <1>6, <2>2 DEF LossInv, BelowLimit, Counted
<1>8. OnlyOvertakingLoses'
  <2>. SUFFICES ASSUME IsPrefix(attempts', sealed) PROVE got' = attempts'
    BY <1>1 DEF OnlyOvertakingLoses
  <2>1. Len(attempts') <= Len(sealed) /\ Len(sealed) \in Nat
        /\ \A i \in 1..Len(attempts') : attempts'[i] = sealed[i]
    BY <1>3, <1>4 DEF IsPrefix
  <2>2. IsPrefix(attempts, sealed)
    <3>1. Len(attempts) <= Len(sealed) /\ \A i \in 1..Len(attempts) : attempts[i] = sealed[i]
      BY <1>4, <2>1
    <3>. QED
      BY <1>3, <3>1 DEF IsPrefix
  <2>3. got = attempts
    BY <2>2 DEF LossInv, OnlyOvertakingLoses
  <2>4. hand[t] = sealed[Len(attempts) + 1] /\ Len(attempts) + 1 \in 1..Len(sealed)
    BY <1>4, <2>1
  <2>5. hand[t].nonce = Len(attempts)
    BY <1>4, <2>4 DEF IndInv, NoncesUnique
  <2>6. recv_nonce < NonceLimit
    <3>1. send_nonce = Len(sealed) /\ send_nonce <= NonceLimit /\ NonceLimit \in Nat
      BY BoundsAssumption DEF IndInv, CounterExact, LossInv, BelowLimit
    <3>. QED
      BY <1>3, <1>4, <2>1, <2>3, <3>1
  <2>. QED
    BY <1>1, <1>2, <1>3, <2>3, <2>5, <2>6
<1>. QED
  BY <1>5, <1>7, <1>8 DEF LossInv

LEMMA NextLoss == IndInv /\ LossInv /\ [Next]_vars => LossInv'
<1>. SUFFICES ASSUME IndInv, LossInv, [Next]_vars PROVE LossInv'
  OBVIOUS
<1>0. pc \in [Threads -> Places] /\ hand \in [Senders \cup Receivers -> Carried]
  BY DEF IndInv, Types
<1>c. \A t \in Senders : pc[t] = "count" => send_nonce < NonceLimit
  BY DEF LossInv, BelowLimit
<1>1. ASSUME NEW t \in Senders, SenderStep(t) PROVE LossInv'
  <2>1. CASE LockTx(t) \/ Exhausted(t)
    <3>1. /\ \E place \in {"seal", "ready"} : pc' = [pc EXCEPT ![t] = place]
          /\ UNCHANGED <<send_nonce, recv_nonce, hand, frames>>
      BY <2>1 DEF LockTx, Exhausted, Goto, counters, carried
    <3>. QED
      BY <1>0, <1>c, <3>1, QuietLoss DEF Threads
  <2>2. CASE Seal(t)
    <3>1. /\ pc' = [pc EXCEPT ![t] = "count"] /\ send_nonce < NonceLimit
          /\ \E x : hand' = [hand EXCEPT ![t] = x]
          /\ UNCHANGED <<send_nonce, recv_nonce, frames>>
      BY <2>2 DEF Seal, Goto, counters
    <3>2. t \notin Receivers
      BY ThreadsAssumption
    <3>. QED
      BY <1>0, <1>c, <3>1, <3>2, QuietLoss DEF Threads
  <2>. QED
    BY <1>1, <2>1, <2>2, CountLoss, TransmitLoss DEF SenderStep
<1>2. ASSUME NEW t \in OpenerThreads \cup Cleaners,
             pc' = pc \/ (\E place \in {"push", "create", "scan", "ready"} :
                            pc' = [pc EXCEPT ![t] = place]),
             UNCHANGED <<send_nonce, recv_nonce, hand, frames>>
      PROVE  LossInv'
  BY <1>0, <1>c, <1>2, QuietLoss DEF Threads
<1>3. ASSUME NEW o \in OpenerThreads, OpenerStep(o) PROVE LossInv'
  <2>1. /\ \E place \in {"push", "create"} : pc' = [pc EXCEPT ![o] = place]
        /\ UNCHANGED <<send_nonce, recv_nonce, hand, frames>>
    BY <1>3 DEF OpenerStep, Create, Push, Goto, counters, carried
  <2>. QED
    BY <1>2, <2>1
<1>4. ASSUME NEW c \in Cleaners, CleanerStep(c) PROVE LossInv'
  <2>1. /\ pc' = pc \/ (\E place \in {"scan", "ready"} : pc' = [pc EXCEPT ![c] = place])
        /\ UNCHANGED <<send_nonce, recv_nonce, hand, frames>>
    BY <1>4 DEF CleanerStep, LockList, Check, UnlockList, Goto, counters, carried
  <2>. QED
    BY <1>2, <2>1
<1>5. ASSUME NEW t \in Receivers, ReceiverStep(t) PROVE LossInv'
  BY <1>5, TakeLoss, OpenLoss DEF ReceiverStep
<1>6. CASE (\E t \in 0..Now : SetClock(t)) \/ UNCHANGED vars
  <2>1. UNCHANGED <<pc, send_nonce, recv_nonce, hand, frames>>
    BY <1>6 DEF SetClock, vars, counters, carried
  <2>. QED
    BY <1>c, <2>1, QuietLoss
<1>. QED
  BY <1>1, <1>3, <1>4, <1>5, <1>6 DEF Next

\* Nothing was sent yet.
LEMMA InitLoss == Init => LossInv
<1>. SUFFICES ASSUME Init PROVE LossInv
  OBVIOUS
<1>. QED
  BY BoundsAssumption, ThreadsAssumption DEF Init, LossInv, ReceiveTypes, BelowLimit, Counted,
     OnlyOvertakingLoses, Threads, Carried

\* Whichever threads share the two handles, a frame fails to open only because some
\* frame overtook another between encrypt_frame and decrypt_frame.
THEOREM LossByOvertaking == Spec => []OnlyOvertakingLoses
<1>1. LossInv => OnlyOvertakingLoses
  BY DEF LossInv
<1>. QED
  BY <1>1, InitLoss, InitInd, NextInd, NextLoss, PTL DEF Spec

-----------------------------------------------------------------------------
(* Cleanup.                                                                *)

\* Sessions that a cleaner or anybody can reach exist.
ListTypes ==
  /\ clock \in Nat
  /\ last_activity \in [DOMAIN last_activity -> Nat]
  /\ sessions \in Seq(DOMAIN last_activity)
  /\ scan \in [Cleaners -> [at: Nat, low: Nat]]
  /\ DOMAIN todo = OpenerThreads
  /\ \A o \in OpenerThreads : pc[o] = "push" => Head(todo[o]) \in DOMAIN last_activity

\* A cleaner is inside cleanup_expired only while it holds the list.
ListHeld == \A c \in Cleaners : pc[c] = "scan" <=> owner["list"] = c

\* A cleaner has behind it only sessions that some reading of the clock during its call
\* showed alive, or that were used during it.
KeptAlive ==
  \A c \in Cleaners : pc[c] = "scan" =>
    /\ scan[c].at >= 1 /\ scan[c].low <= clock
    /\ \A i \in 1..Len(sessions) :
         i < scan[c].at => scan[c].low <= last_activity[sessions[i]] + Timeout

CleanInv == ListTypes /\ ListHeld /\ KeptAlive

\* Sessions may be used, a new one included.
LEMMA UseClean ==
  ASSUME CleanInv,
         owner'["list"] = owner["list"], UNCHANGED <<sessions, todo, scan, clock>>,
         \A c \in Cleaners : pc'[c] = pc[c],
         DOMAIN last_activity \subseteq DOMAIN last_activity',
         last_activity' \in [DOMAIN last_activity' -> Nat],
         \A h \in DOMAIN last_activity : last_activity'[h] \in {last_activity[h], clock},
         \A o \in OpenerThreads :
           pc'[o] = "push" => pc[o] = "push" \/ Head(todo[o]) \in DOMAIN last_activity'
  PROVE  CleanInv'
<1>1. ListTypes'
  BY DEF CleanInv, ListTypes
<1>2. ListHeld'
  BY DEF CleanInv, ListHeld
<1>3. KeptAlive'
  <2>. SUFFICES ASSUME NEW c \in Cleaners, pc[c] = "scan"
                PROVE  /\ scan[c].at >= 1 /\ scan[c].low <= clock
                       /\ \A i \in 1..Len(sessions) : i < scan[c].at =>
                            scan[c].low <= last_activity'[sessions[i]] + Timeout
    BY DEF KeptAlive
  <2>1. /\ scan[c] \in [at: Nat, low: Nat] /\ clock \in Nat /\ Timeout \in Nat
        /\ scan[c].at >= 1 /\ scan[c].low <= clock
    BY BoundsAssumption DEF CleanInv, ListTypes, KeptAlive
  <2>2. scan[c].low \in Nat
    BY <2>1
  <2>3. ASSUME NEW i \in 1..Len(sessions), i < scan[c].at
        PROVE  scan[c].low <= last_activity'[sessions[i]] + Timeout
    <3>1. sessions[i] \in DOMAIN last_activity
      BY DEF CleanInv, ListTypes
    <3>2. scan[c].low <= last_activity[sessions[i]] + Timeout
      BY <2>3 DEF CleanInv, KeptAlive
    <3>. QED
      BY <2>1, <2>2, <3>1, <3>2
  <2>. QED
    BY <2>1, <2>2, <2>3
<1>. QED
  BY <1>1, <1>2, <1>3 DEF CleanInv

\* The clock may run on or be set back; the calls under way take note of a lower reading.
LEMMA SetClockClean ==
  ASSUME CleanInv, NEW t \in 0..Now, SetClock(t)
  PROVE  CleanInv'
<1>. DEFINE noted(c) == IF pc[c] = "scan" /\ t < scan[c].low
                        THEN [scan[c] EXCEPT !.low = t] ELSE scan[c]
<1>1. /\ clock' = t /\ t \in Nat
      /\ scan' = [c \in Cleaners |-> noted(c)]
      /\ UNCHANGED <<pc, owner, sessions, todo, last_activity>>
  BY BoundsAssumption DEF SetClock, opening, counters
<1>2. ASSUME NEW c \in Cleaners
      PROVE  /\ scan'[c] \in [at: Nat, low: Nat] /\ scan'[c].at = scan[c].at
             /\ scan'[c].low <= scan[c].low
             /\ pc[c] = "scan" => scan'[c].low <= t
  <2>1. scan'[c] = noted(c) /\ scan[c] \in [at: Nat, low: Nat]
    BY <1>1 DEF CleanInv, ListTypes
  <2>. QED
    BY <1>1, <2>1
<1>3. ListTypes'
  <2>1. scan' \in [Cleaners -> [at: Nat, low: Nat]]
    <3>. HIDE DEF noted
    <3>. QED BY <1>1, <1>2
  <2>. QED
    BY <1>1, <2>1 DEF CleanInv, ListTypes
<1>4. KeptAlive'
  <2>. SUFFICES ASSUME NEW c \in Cleaners, pc[c] = "scan"
                PROVE  /\ scan'[c].at >= 1 /\ scan'[c].low <= t
                       /\ \A i \in 1..Len(sessions) : i < scan'[c].at =>
                            scan'[c].low <= last_activity[sessions[i]] + Timeout
    BY <1>1 DEF KeptAlive
  <2>1. /\ scan[c].at >= 1
        /\ \A i \in 1..Len(sessions) : i < scan[c].at =>
             scan[c].low <= last_activity[sessions[i]] + Timeout
    BY DEF CleanInv, KeptAlive
  <2>2. \A i \in 1..Len(sessions) : last_activity[sessions[i]] + Timeout \in Nat
    BY BoundsAssumption DEF CleanInv, ListTypes
  <2>3. /\ scan[c].low \in Nat /\ scan'[c].low \in Nat /\ scan'[c].low <= scan[c].low
        /\ scan'[c].at = scan[c].at /\ scan'[c].low <= t
    BY <1>2 DEF CleanInv, ListTypes
  <2>. QED
    BY <2>1, <2>2, <2>3
<1>. QED
  BY <1>1, <1>3, <1>4 DEF CleanInv, ListHeld

\* Openers add sessions, and to the list only when nobody scans it.
LEMMA OpenerClean ==
  ASSUME IndInv, CleanInv, NEW o \in OpenerThreads, OpenerStep(o)
  PROVE  CleanInv'
<1>0. /\ pc \in [Threads -> Places] /\ clock \in Nat
      /\ last_activity \in [DOMAIN last_activity -> Nat]
      /\ \A c \in Cleaners : c \in Threads /\ c # o
  BY ThreadsAssumption DEF IndInv, Types, CleanInv, ListTypes, Threads
<1>1. CASE Create(o)
  <2>1. /\ pc' = [pc EXCEPT ![o] = "push"]
        /\ last_activity' = [h \in DOMAIN last_activity \cup {Head(todo[o])} |->
                               IF h = Head(todo[o]) THEN clock ELSE last_activity[h]]
        /\ UNCHANGED <<owner, sessions, todo, scan, clock>>
    BY <1>1 DEF Create, Goto, opening, carried
  <2>2. /\ DOMAIN last_activity' = DOMAIN last_activity \cup {Head(todo[o])}
        /\ last_activity' \in [DOMAIN last_activity' -> Nat]
        /\ \A h \in DOMAIN last_activity : last_activity'[h] \in {last_activity[h], clock}
    BY <1>0, <2>1
  <2>3. \A c \in Cleaners : pc'[c] = pc[c]
    BY <1>0, <2>1
  <2>4. \A u \in OpenerThreads :
          pc'[u] = "push" => pc[u] = "push" \/ Head(todo[u]) \in DOMAIN last_activity'
    BY <1>0, <2>1, <2>2 DEF Threads
  <2>. QED
    BY <2>1, <2>2, <2>3, <2>4, UseClean
<1>2. CASE Push(o)
  <2>1. /\ pc' = [pc EXCEPT ![o] = "create"] /\ pc[o] = "push"
        /\ owner["list"] = "free"
        /\ sessions' = Append(sessions, Head(todo[o]))
        /\ todo' = [todo EXCEPT ![o] = Tail(@)]
        /\ UNCHANGED <<owner, last_activity, scan, clock>>
    BY <1>2 DEF Push, Goto, counters, carried
  <2>2. \A c \in Cleaners : pc[c] # "scan" /\ pc'[c] = pc[c]
    BY <1>0, <2>1, ThreadsAssumption DEF CleanInv, ListHeld, Threads
  <2>3. sessions' \in Seq(DOMAIN last_activity)
    BY <2>1 DEF CleanInv, ListTypes
  <2>4. \A u \in OpenerThreads : u # o => pc'[u] = pc[u] /\ todo'[u] = todo[u]
    BY <1>0, <2>1 DEF CleanInv, ListTypes, Threads
  <2>5. pc'[o] # "push"
    BY <1>0, <2>1 DEF Threads
  <2>6. DOMAIN todo' = OpenerThreads
    BY <2>1 DEF CleanInv, ListTypes
  <2>7. ListTypes'
    BY <2>1, <2>3, <2>4, <2>5, <2>6 DEF CleanInv, ListTypes
  <2>8. ListHeld' /\ KeptAlive'
    BY <2>1, <2>2 DEF CleanInv, ListHeld, KeptAlive
  <2>. QED
    BY <2>7, <2>8 DEF CleanInv
<1>. QED
  BY <1>1, <1>2 DEF OpenerStep

\* Removing the n-th element leaves those before it where they are.
LEMMA RemoveEffect ==
  ASSUME NEW S, NEW s \in Seq(S), NEW n \in 1..Len(s)
  PROVE  /\ RemoveAt(s, n) \in Seq(S) /\ Len(RemoveAt(s, n)) = Len(s) - 1
         /\ \A i \in 1..Len(RemoveAt(s, n)) : i < n => RemoveAt(s, n)[i] = s[i]
<1>. DEFINE front == SubSeq(s, 1, n - 1)
            rest  == SubSeq(s, n + 1, Len(s))
<1>1. /\ front \in Seq(S) /\ Len(front) = n - 1
      /\ \A i \in 1..(n - 1) : front[i] = s[i]
  <2>1. front = [i \in 1..(n - 1) |-> s[i]]
    OBVIOUS
  <2>2. \A i \in 1..(n - 1) : s[i] \in S
    OBVIOUS
  <2>. QED
    BY <2>1, <2>2
<1>2. rest \in Seq(S) /\ Len(rest) = Len(s) - n
  OBVIOUS
<1>3. RemoveAt(s, n) = front \o rest
  BY DEF RemoveAt
<1>. HIDE DEF front, rest
<1>4. /\ front \o rest \in Seq(S) /\ Len(front \o rest) = Len(front) + Len(rest)
  BY <1>1, <1>2, ConcatProperties
<1>5. \A i \in 1..Len(front) : i \in 1..(Len(front) + Len(rest)) /\ i <= Len(front)
  BY <1>1, <1>2
<1>6. \A i \in 1..Len(front) : (front \o rest)[i] = front[i]
  BY <1>1, <1>2, <1>5, ConcatProperties
<1>. QED
  BY <1>1, <1>2, <1>3, <1>4, <1>6

\* retain removes the session at its position, or finds it alive and goes on.
LEMMA CheckClean ==
  ASSUME IndInv, CleanInv, NEW c \in Cleaners, Check(c)
  PROVE  CleanInv'
<1>. DEFINE at == scan[c].at
            h == sessions[at]
<1>1. /\ pc[c] = "scan" /\ at <= Len(sessions)
      /\ IF is_expired(h)
         THEN sessions' = RemoveAt(sessions, at) /\ scan' = scan
         ELSE scan' = [scan EXCEPT ![c].at = @ + 1] /\ sessions' = sessions
      /\ UNCHANGED <<pc, owner, todo, last_activity, clock>>
  BY DEF Check, counters
<1>2. /\ scan \in [Cleaners -> [at: Nat, low: Nat]] /\ at \in Nat /\ scan[c].low \in Nat
      /\ sessions \in Seq(DOMAIN last_activity) /\ clock \in Nat /\ Timeout \in Nat
      /\ last_activity \in [DOMAIN last_activity -> Nat]
  BY BoundsAssumption DEF CleanInv, ListTypes
<1>3. \A d \in Cleaners : pc[d] = "scan" => d = c
  BY <1>1 DEF CleanInv, ListHeld
<1>4. /\ at >= 1 /\ scan[c].low <= clock
      /\ \A i \in 1..Len(sessions) : i < at =>
           scan[c].low <= last_activity[sessions[i]] + Timeout
  BY <1>1 DEF CleanInv, KeptAlive
<1>5. CASE is_expired(h) /\ at \in 1..Len(sessions)
  <2>1. /\ sessions' \in Seq(DOMAIN last_activity) /\ Len(sessions') = Len(sessions) - 1
        /\ \A i \in 1..Len(sessions') : i < at => sessions'[i] = sessions[i]
    <3>1. sessions' = RemoveAt(sessions, at)
      BY <1>1, <1>5
    <3>. HIDE DEF at
    <3>. QED
      BY <1>2, <1>5, <3>1, RemoveEffect
  <2>2. ListTypes'
    BY <1>1, <1>5, <2>1 DEF CleanInv, ListTypes
  <2>3. \A i \in 1..Len(sessions') : i \in 1..Len(sessions)
    BY <1>2, <2>1
  <2>4. KeptAlive'
    BY <1>1, <1>3, <1>4, <1>5, <2>1, <2>3 DEF KeptAlive
  <2>. QED
    BY <1>1, <2>2, <2>4 DEF CleanInv, ListHeld
<1>6. CASE ~is_expired(h) /\ at \in 1..Len(sessions)
  <2>1. scan' = [scan EXCEPT ![c] = [at |-> at + 1, low |-> scan[c].low]]
    BY <1>1, <1>2, <1>6
  <2>2. scan' \in [Cleaners -> [at: Nat, low: Nat]]
        /\ scan'[c].at = at + 1 /\ scan'[c].low = scan[c].low
    BY <1>2, <2>1
  <2>3. ListTypes'
    BY <1>1, <1>6, <2>2 DEF CleanInv, ListTypes
  <2>4. scan[c].low <= last_activity[h] + Timeout
    <3>1. h \in DOMAIN last_activity
      BY <1>2, <1>6
    <3>2. last_activity[h] \in Nat /\ ~(clock > last_activity[h] + Timeout)
      BY <1>2, <1>6, <3>1 DEF is_expired
    <3>. QED
      BY <1>2, <1>4, <3>2
  <2>5. ASSUME NEW i \in 1..Len(sessions), i < at + 1
        PROVE  scan[c].low <= last_activity[sessions[i]] + Timeout
    <3>1. i < at \/ i = at
      BY <1>2, <2>5
    <3>. QED
      BY <1>4, <2>4, <3>1
  <2>6. KeptAlive'
    BY <1>1, <1>3, <1>4, <1>6, <2>2, <2>5 DEF KeptAlive
  <2>. QED
    BY <1>1, <2>3, <2>6 DEF CleanInv, ListHeld
<1>. QED
  BY <1>1, <1>2, <1>4, <1>5, <1>6

\* A call begins at the front of the list, with nothing behind it.
LEMMA LockListClean ==
  ASSUME IndInv, CleanInv, NEW c \in Cleaners, LockList(c)
  PROVE  CleanInv'
<1>1. /\ pc[c] = "ready" /\ pc' = [pc EXCEPT ![c] = "scan"]
      /\ owner["list"] = "free" /\ owner' = [owner EXCEPT !["list"] = c]
      /\ scan' = [scan EXCEPT ![c] = [at |-> 1, low |-> clock]]
      /\ UNCHANGED <<sessions, todo, last_activity, clock>>
  BY DEF LockList, Goto, Acquire, opening, counters
<1>2. /\ pc \in [Threads -> Places] /\ owner \in [{"list", "tx"} -> Threads \cup {"free"}]
      /\ scan \in [Cleaners -> [at: Nat, low: Nat]] /\ clock \in Nat /\ Timeout \in Nat
      /\ sessions \in Seq(DOMAIN last_activity)
      /\ last_activity \in [DOMAIN last_activity -> Nat]
      /\ c \in Threads /\ c \notin OpenerThreads /\ Cleaners \subseteq Threads
  BY BoundsAssumption, ThreadsAssumption DEF IndInv, Types, CleanInv, ListTypes, Threads
<1>3. [at |-> 1, low |-> clock] \in [at: Nat, low: Nat]
  BY <1>2
<1>4. /\ scan' \in [Cleaners -> [at: Nat, low: Nat]]
      /\ scan'[c] = [at |-> 1, low |-> clock]
  BY <1>1, <1>2, <1>3
<1>5. scan'[c].at = 1 /\ scan'[c].low = clock
  BY <1>4
<1>6. \A d \in Cleaners : pc[d] # "scan"
  BY <1>1, <1>2, ThreadsAssumption DEF CleanInv, ListHeld
<1>7. /\ pc'[c] = "scan" /\ owner'["list"] = c
      /\ \A d \in Threads : d # c => pc'[d] = pc[d]
  BY <1>1, <1>2
<1>8. ListTypes'
  <2>1. \A o \in OpenerThreads : pc'[o] = pc[o]
    BY <1>2, <1>7 DEF Threads
  <2>. QED
    BY <1>1, <1>4, <2>1 DEF CleanInv, ListTypes
<1>9. ListHeld'
  BY <1>2, <1>6, <1>7 DEF ListHeld
<1>10. KeptAlive'
  <2>1. \A d \in Cleaners : pc'[d] = "scan" => d = c
    BY <1>2, <1>6, <1>7
  <2>2. 1 >= 1 /\ clock <= clock
    BY <1>2
  <2>3. \A i \in 1..Len(sessions) : ~(i < 1)
    BY <1>2
  <2>. QED
    BY <1>1, <1>5, <2>1, <2>2, <2>3 DEF KeptAlive
<1>. QED
  BY <1>8, <1>9, <1>10 DEF CleanInv

\* A call ends at the end of the list, with all of it behind.
LEMMA UnlockListClean ==
  ASSUME IndInv, CleanInv, NEW c \in Cleaners, UnlockList(c)
  PROVE  /\ CleanInv'
         /\ \A h \in ToSet(sessions') : scan[c].low <= last_activity[h] + Timeout
<1>1. /\ pc[c] = "scan" /\ pc' = [pc EXCEPT ![c] = "ready"]
      /\ scan[c].at > Len(sessions)
      /\ owner' = [owner EXCEPT !["list"] = "free"]
      /\ UNCHANGED <<sessions, todo, last_activity, clock, scan>>
  BY DEF UnlockList, Goto, Release, opening, counters, carried
<1>2. /\ pc \in [Threads -> Places] /\ owner \in [{"list", "tx"} -> Threads \cup {"free"}]
      /\ scan[c].at \in Nat /\ sessions \in Seq(DOMAIN last_activity)
      /\ c \in Threads /\ c \notin OpenerThreads /\ Cleaners \subseteq Threads
  BY ThreadsAssumption DEF IndInv, Types, CleanInv, ListTypes, Threads
<1>3. /\ pc'[c] = "ready" /\ owner'["list"] = "free"
      /\ \A d \in Threads : d # c => pc'[d] = pc[d]
  BY <1>1, <1>2
<1>4. \A d \in Cleaners : pc'[d] # "scan"
  BY <1>1, <1>2, <1>3 DEF CleanInv, ListHeld
<1>5. ListTypes'
  <2>1. \A o \in OpenerThreads : pc'[o] = pc[o]
    BY <1>2, <1>3 DEF Threads
  <2>. QED
    BY <1>1, <2>1 DEF CleanInv, ListTypes
<1>6. ListHeld' /\ KeptAlive'
  BY <1>2, <1>3, <1>4, ThreadsAssumption DEF ListHeld, KeptAlive
<1>7. ASSUME NEW h \in ToSet(sessions')
      PROVE  scan[c].low <= last_activity[h] + Timeout
  <2>1. PICK i \in 1..Len(sessions) : h = sessions[i]
    BY <1>1, <1>2, <1>7 DEF ToSet
  <2>2. i < scan[c].at
    BY <1>1, <1>2, <2>1
  <2>. QED
    BY <1>1, <2>1, <2>2 DEF CleanInv, KeptAlive
<1>. QED
  BY <1>5, <1>6, <1>7 DEF CleanInv

\* Every step preserves the invariant, and one that ends a call finds what the
\* property says.
LEMMA NextClean ==
  IndInv /\ CleanInv /\ [Next]_vars =>
    /\ CleanInv'
    /\ \A c \in Cleaners : pc[c] = "scan" /\ pc'[c] = "ready" =>
         \A h \in ToSet(sessions') : scan[c].low <= last_activity[h] + Timeout
<1>. DEFINE Ends == \E c \in Cleaners : pc[c] = "scan" /\ pc'[c] = "ready"
            Ended(c) == \A h \in ToSet(sessions') :
                          scan[c].low <= last_activity[h] + Timeout
<1>. SUFFICES ASSUME IndInv, CleanInv, [Next]_vars
              PROVE  /\ CleanInv'
                     /\ \A c \in Cleaners : pc[c] = "scan" /\ pc'[c] = "ready" => Ended(c)
  OBVIOUS
<1>. HIDE DEF Ended
<1>0. /\ pc \in [Threads -> Places] /\ owner \in [{"list", "tx"} -> Threads \cup {"free"}]
      /\ clock \in Nat /\ clock <= clock
      /\ last_activity \in [DOMAIN last_activity -> Nat]
  BY DEF IndInv, Types, CleanInv, ListTypes
<1>1. ASSUME NEW t \in Senders \cup Receivers,
             \E place \in Places \ {"push"} : pc' = [pc EXCEPT ![t] = place],
             owner'["list"] = owner["list"], UNCHANGED <<sessions, todo, scan, clock>>,
             last_activity' = last_activity \/ (\E h : last_activity' =
                                                       [last_activity EXCEPT ![h] = clock])
      PROVE  CleanInv' /\ ~Ends
  <2>1. \A d \in OpenerThreads \cup Cleaners : pc'[d] = pc[d]
    BY <1>0, <1>1, ThreadsAssumption DEF Threads
  <2>2. /\ DOMAIN last_activity' = DOMAIN last_activity
        /\ last_activity' \in [DOMAIN last_activity' -> Nat]
        /\ \A h \in DOMAIN last_activity : last_activity'[h] \in {last_activity[h], clock}
    BY <1>0, <1>1
  <2>. QED
    BY <1>1, <2>1, <2>2, UseClean
<1>2. ASSUME NEW t \in Senders, SenderStep(t) PROVE CleanInv' /\ ~Ends
  <2>1. /\ \E place \in Places \ {"push"} : pc' = [pc EXCEPT ![t] = place]
        /\ UNCHANGED <<sessions, todo, scan, clock>>
    BY <1>2 DEF SenderStep, LockTx, Seal, Exhausted, Count, Transmit, Goto, Places,
       opening, carried
  <2>2. owner'["list"] = owner["list"]
    BY <1>0, <1>2 DEF SenderStep, LockTx, Seal, Exhausted, Count, Transmit, Acquire, Release
  <2>3. last_activity' = last_activity \/ last_activity' = [last_activity EXCEPT !["tx"] = clock]
    BY <1>2 DEF SenderStep, LockTx, Seal, Exhausted, Count, Transmit, Touch, counters
  <2>. QED
    BY <1>1, <2>1, <2>2, <2>3
<1>3. ASSUME NEW t \in Receivers, ReceiverStep(t) PROVE CleanInv' /\ ~Ends
  <2>1. /\ \E place \in Places \ {"push"} : pc' = [pc EXCEPT ![t] = place]
        /\ UNCHANGED <<owner, sessions, todo, scan, clock>>
    BY <1>3 DEF ReceiverStep, Take, Open, Goto, Places, opening, carried
  <2>2. last_activity' = last_activity \/ last_activity' = [last_activity EXCEPT !["rx"] = clock]
    BY <1>3 DEF ReceiverStep, Take, Open, Touch, counters
  <2>. QED
    BY <1>1, <2>1, <2>2
<1>4. ASSUME NEW o \in OpenerThreads, OpenerStep(o) PROVE CleanInv' /\ ~Ends
  <2>1. \E place \in {"push", "create"} : pc' = [pc EXCEPT ![o] = place]
    BY <1>4 DEF OpenerStep, Create, Push, Goto
  <2>2. ~Ends
    BY <1>0, <2>1, ThreadsAssumption DEF Threads
  <2>. QED
    BY <1>4, <2>2, OpenerClean
<1>5. ASSUME NEW c \in Cleaners, CleanerStep(c)
      PROVE  /\ CleanInv'
             /\ \A d \in Cleaners : pc[d] = "scan" /\ pc'[d] = "ready" => Ended(d)
  <2>1. CASE LockList(c)
    <3>1. ~Ends
      BY <1>0, <2>1 DEF LockList, Goto, Threads
    <3>. QED
      BY <2>1, <3>1, LockListClean
  <2>2. CASE Check(c)
    <3>1. ~Ends
      BY <2>2 DEF Check
    <3>. QED
      BY <2>2, <3>1, CheckClean
  <2>3. CASE UnlockList(c)
    <3>1. \A d \in Cleaners : d # c => pc'[d] = pc[d]
      BY <1>0, <2>3 DEF UnlockList, Goto, Threads
    <3>2. CleanInv' /\ Ended(c)
      BY <2>3, UnlockListClean DEF Ended
    <3>. QED
      BY <3>1, <3>2
  <2>. QED
    BY <1>5, <2>1, <2>2, <2>3 DEF CleanerStep
<1>6. ASSUME NEW t \in 0..Now, SetClock(t) PROVE CleanInv' /\ ~Ends
  BY <1>6, SetClockClean DEF SetClock
<1>7. CASE UNCHANGED vars
  BY <1>0, <1>7, UseClean DEF vars, opening, counters, carried
<1>. QED
  BY <1>2, <1>3, <1>4, <1>5, <1>6, <1>7 DEF Next

\* Nobody scans and no session is listed.
LEMMA InitClean == Init => CleanInv
<1>. SUFFICES ASSUME Init PROVE CleanInv
  OBVIOUS
<1>1. ListTypes
  BY BoundsAssumption DEF Init, ListTypes, Threads
<1>2. ListHeld /\ KeptAlive
  BY ThreadsAssumption DEF Init, ListHeld, KeptAlive, Threads
<1>. QED
  BY <1>1, <1>2 DEF CleanInv

\* However long a cleanup takes, whoever is in its way and wherever the clock is set, what
\* was expired by every reading during the call is not in the list when it returns.
THEOREM CleanupDone == Spec => CleanupComplete
<1>. DEFINE Complete == \A c \in Cleaners : pc[c] = "scan" /\ pc'[c] = "ready" =>
                         \A h \in ToSet(sessions') :
                           scan[c].low <= last_activity[h] + Timeout
<1>1. IndInv /\ CleanInv /\ [Next]_vars => CleanInv' /\ Complete
  BY NextClean
<1>. HIDE DEF Complete
<1>2. Spec => [][Complete]_vars
  BY <1>1, InitClean, InitInd, NextInd, PTL DEF Spec
<1>. QED
  BY <1>2 DEF CleanupComplete, Complete
-----------------------------------------------------------------------------
(* The promise of SecureChannel.                                           *)

opened == DOMAIN last_activity

\* A frame counted is the one in the history under its nonce.
Sent(f) == f.nonce < Len(sealed) /\ sealed[f.nonce + 1] = f

SenderWork ==
  \A t \in Senders :
    /\ budget[t] \in 0..Quota
    /\ pc[t] \in {"seal", "count", "transmit"} => budget[t] >= 1
    /\ pc[t] \in {"seal", "count"} => "tx" \in opened
    /\ pc[t] = "count" => hand[t].from \in Senders /\ hand[t].n \in 1..Quota

Provenance ==
  /\ \A i \in 1..Len(wire) : Sent(wire[i])
  /\ \A t \in Senders : pc[t] = "transmit" => Sent(hand[t])
  /\ \A t \in Receivers : pc[t] = "open" => Sent(hand[t]) /\ "rx" \in opened

Histories == (sealed # <<>> => "tx" \in opened) /\ (got # <<>> => "rx" \in opened)

\* An opener opens its own sessions, each once.
Plan(o) == IF o = "main" THEN {"tx", "rx"} ELSE {o}

Plans ==
  /\ opened \subseteq Handles
  /\ \A o \in OpenerThreads :
       /\ todo[o] \in Seq(Plan(o))
       /\ \A i, j \in 1..Len(todo[o]) : todo[o][i] = todo[o][j] => i = j
       /\ \A i \in 1..Len(todo[o]) : i > 1 \/ pc[o] = "create" => todo[o][i] \notin opened
       /\ pc[o] = "push" => todo[o] # <<>>

ChanInv == SenderWork /\ Provenance /\ Histories /\ Plans

\* Steps at which senders stay or give up their lock, and which seal, move and open nothing.
LEMMA QuietChan ==
  ASSUME ChanInv, opened' = opened, UNCHANGED <<todo, hand, wire, sealed, got>>,
         \A t \in Senders :
           /\ pc'[t] = pc[t] \/ pc'[t] = "ready"
           /\ budget'[t] = budget[t] \/ (pc'[t] = "ready" /\ budget'[t] \in 0..Quota),
         \A t \in Receivers \cup OpenerThreads : pc'[t] = pc[t]
  PROVE  ChanInv'
<1>1. SenderWork'
  BY DEF ChanInv, SenderWork
<1>2. Provenance' /\ Histories'
  BY DEF ChanInv, Provenance, Histories, Sent
<1>3. Plans'
  BY DEF ChanInv, Plans
<1>. QED
  BY <1>1, <1>2, <1>3 DEF ChanInv

\* A session is opened by the only opener that has it to open, and only once.
LEMMA CreateChan ==
  ASSUME IndInv, CleanInv, ChanInv, NEW o \in OpenerThreads, Create(o)
  PROVE  /\ ChanInv'
         /\ Head(todo[o]) \in Handles \ opened
         /\ opened' = opened \cup {Head(todo[o])}
<1>. DEFINE new == Head(todo[o])
<1>1. /\ pc[o] = "create" /\ pc' = [pc EXCEPT ![o] = "push"] /\ todo[o] # <<>>
      /\ opened' = opened \cup {new}
      /\ UNCHANGED <<todo, hand, wire, sealed, got, budget>>
  BY DEF Create, Goto, opened, opening, carried, frames
<1>2. /\ \A u \in Threads : u # o => pc'[u] = pc[u]
      /\ pc'[o] = "push" /\ o \notin Senders \cup Receivers
  BY <1>1, ThreadsAssumption DEF IndInv, Types, Threads
<1>3. /\ todo[o] \in Seq(Plan(o)) /\ Len(todo[o]) \in Nat /\ Len(todo[o]) >= 1
      /\ new = todo[o][1] /\ new \in Plan(o)
  <2>1. todo[o] \in Seq(Plan(o))
    BY DEF ChanInv, Plans
  <2>. QED
    BY <1>1, <2>1
<1>. HIDE DEF new
<1>4. new \notin opened
  BY <1>1, <1>3 DEF ChanInv, Plans
<1>5. new \in Handles
  BY <1>3 DEF Plan, Handles, OpenerThreads
<1>6. SenderWork' /\ Provenance' /\ Histories'
  BY <1>1, <1>2 DEF ChanInv, SenderWork, Provenance, Histories, Sent, Threads
<1>7. ASSUME NEW u \in OpenerThreads, NEW i \in 1..Len(todo[u]),
             i > 1 \/ pc'[u] = "create"
      PROVE  todo[u][i] \notin opened'
  <2>1. CASE u = o
    <3>1. i > 1 /\ 1 \in 1..Len(todo[o])
      BY <1>2, <1>3, <1>7, <2>1
    <3>2. todo[o][i] # todo[o][1]
      BY <2>1, <3>1 DEF ChanInv, Plans
    <3>3. todo[o][i] \notin opened
      BY <2>1, <3>1 DEF ChanInv, Plans
    <3>. QED
      BY <1>1, <1>3, <2>1, <3>2, <3>3
  <2>2. CASE u # o
    <3>1. todo[u] \in Seq(Plan(u))
      BY DEF ChanInv, Plans
    <3>2. todo[u][i] \in Plan(u)
      BY <3>1
    <3>3. todo[u][i] # new
      BY <1>3, <2>2, <3>2, NamesAssumption DEF Plan, OpenerThreads
    <3>4. todo[u][i] \notin opened
      BY <1>2, <1>7, <2>2 DEF ChanInv, Plans, Threads
    <3>. QED
      BY <1>1, <3>3, <3>4
  <2>. QED
    BY <2>1, <2>2
<1>8. Plans'
  BY <1>1, <1>2, <1>5, <1>7 DEF ChanInv, Plans, Threads
<1>. QED
  BY <1>1, <1>4, <1>5, <1>6, <1>8 DEF ChanInv, new

\* What is pushed was created.
LEMMA PushChan ==
  ASSUME IndInv, CleanInv, ChanInv, NEW o \in OpenerThreads, Push(o)
  PROVE  ChanInv'
<1>1. /\ pc[o] = "push" /\ pc' = [pc EXCEPT ![o] = "create"]
      /\ todo' = [todo EXCEPT ![o] = Tail(todo[o])]
      /\ opened' = opened
      /\ UNCHANGED <<hand, wire, sealed, got, budget>>
  BY DEF Push, Goto, opened, counters, carried, frames
<1>2. /\ \A u \in Threads : u # o => pc'[u] = pc[u]
      /\ o \notin Senders \cup Receivers
      /\ todo'[o] = Tail(todo[o]) /\ \A u \in OpenerThreads : u # o => todo'[u] = todo[u]
      /\ pc'[o] = "create"
  BY <1>1, ThreadsAssumption DEF IndInv, Types, CleanInv, ListTypes, Threads
<1>3. SenderWork' /\ Provenance' /\ Histories'
  BY <1>1, <1>2 DEF ChanInv, SenderWork, Provenance, Histories, Sent, Threads
<1>4. /\ Tail(todo[o]) \in Seq(Plan(o)) /\ Len(Tail(todo[o])) = Len(todo[o]) - 1
      /\ Len(todo[o]) \in Nat
      /\ \A i \in 1..Len(Tail(todo[o])) : Tail(todo[o])[i] = todo[o][i + 1]
  <2>1. todo[o] \in Seq(Plan(o)) /\ todo[o] # <<>>
    BY <1>1 DEF ChanInv, Plans
  <2>. QED
    BY <2>1
<1>5. \A i \in 1..Len(Tail(todo[o])) :
        /\ i + 1 \in 1..Len(todo[o]) /\ i + 1 > 1
        /\ Tail(todo[o])[i] \notin opened
  BY <1>4 DEF ChanInv, Plans
<1>6. ASSUME NEW i \in 1..Len(Tail(todo[o])), NEW j \in 1..Len(Tail(todo[o])),
             Tail(todo[o])[i] = Tail(todo[o])[j]
      PROVE  i = j
  <2>1. i + 1 = j + 1
    BY <1>4, <1>5, <1>6 DEF ChanInv, Plans
  <2>. QED
    BY <1>4, <2>1
<1>7. ASSUME NEW u \in OpenerThreads, u # o
      PROVE  todo'[u] = todo[u] /\ pc'[u] = pc[u]
  BY <1>2, <1>7 DEF Threads
<1>8. Plans'
  <2>. SUFFICES ASSUME NEW u \in OpenerThreads
                PROVE  /\ todo'[u] \in Seq(Plan(u))
                       /\ \A i, j \in 1..Len(todo'[u]) : todo'[u][i] = todo'[u][j] => i = j
                       /\ \A i \in 1..Len(todo'[u]) : i > 1 \/ pc'[u] = "create" =>
                            todo'[u][i] \notin opened
                       /\ pc'[u] = "push" => todo'[u] # <<>>
    BY <1>1 DEF ChanInv, Plans
  <2>1. CASE u = o
    BY <1>2, <1>4, <1>5, <1>6, <2>1
  <2>2. CASE u # o
    BY <1>7, <2>2 DEF ChanInv, Plans
  <2>. QED
    BY <2>1, <2>2
<1>. QED
  BY <1>3, <1>8 DEF ChanInv

\* Taking the lock and sealing.
LEMMA LockSealChan ==
  ASSUME IndInv, ChanInv, NEW t \in Senders, LockTx(t) \/ Seal(t)
  PROVE  ChanInv' /\ opened' = opened /\ UNCHANGED <<sealed, got>>
<1>1. /\ UNCHANGED <<todo, wire, sealed, got, budget>> /\ opened' = opened
      /\ pc' = [pc EXCEPT ![t] = "seal"] \/ pc' = [pc EXCEPT ![t] = "count"]
      /\ budget[t] >= 1 /\ "tx" \in opened
      /\ \A u \in Receivers \cup Senders : u # t => hand'[u] = hand[u]
      /\ pc'[t] = "count" => hand'[t] = [from |-> t, n |-> budget[t], nonce |-> send_nonce]
  <2>0. pc \in [Threads -> Places] /\ t \in Threads /\ hand \in [Senders \cup Receivers -> Carried]
        /\ budget[t] \in 0..Quota /\ Quota \in Nat
    BY BoundsAssumption DEF IndInv, Types, Threads, ChanInv, SenderWork
  <2>1. CASE LockTx(t)
    <3>1. pc' = [pc EXCEPT ![t] = "seal"] /\ budget[t] > 0 /\ Returned("tx")
          /\ UNCHANGED <<opening, counters, carried, frames>>
      BY <2>1 DEF LockTx, Goto
    <3>2. budget[t] >= 1
      BY <2>0, <3>1
    <3>. QED
      BY <2>0, <3>1, <3>2 DEF opening, counters, carried, frames, opened, Returned
  <2>2. CASE Seal(t)
    <3>1. /\ pc[t] = "seal" /\ pc' = [pc EXCEPT ![t] = "count"]
          /\ hand' = [hand EXCEPT ![t] = [from |-> t, n |-> budget[t], nonce |-> send_nonce]]
          /\ UNCHANGED <<opening, counters, budget, frames>>
      BY <2>2 DEF Seal, Goto
    <3>. QED
      BY <2>0, <3>1 DEF opening, counters, frames, opened, ChanInv, SenderWork
  <2>. QED
    BY <2>1, <2>2
<1>2. /\ \A u \in Threads : u # t => pc'[u] = pc[u]
      /\ pc'[t] \in {"seal", "count"} /\ t \notin Receivers \cup OpenerThreads
  BY <1>1, ThreadsAssumption DEF IndInv, Types, Threads
<1>3. SenderWork'
  <2>1. ASSUME NEW u \in Senders, pc'[u] = "count"
        PROVE  hand'[u].from \in Senders /\ hand'[u].n \in 1..Quota
    <3>1. CASE u = t
      <4>1. hand'[u].from = t /\ hand'[u].n = budget[t]
        BY <1>1, <2>1, <3>1
      <4>2. budget[t] \in 0..Quota /\ Quota \in Nat
        BY BoundsAssumption DEF ChanInv, SenderWork
      <4>. QED
        BY <1>1, <4>1, <4>2
    <3>2. CASE u # t
      BY <1>1, <1>2, <2>1, <3>2 DEF ChanInv, SenderWork, Threads
    <3>. QED
      BY <3>1, <3>2
  <2>. QED
    BY <1>1, <1>2, <2>1 DEF ChanInv, SenderWork, Threads
<1>4. Provenance' /\ Histories'
  BY <1>1, <1>2 DEF ChanInv, Provenance, Histories, Sent, Threads
<1>5. Plans'
  BY <1>1, <1>2 DEF ChanInv, Plans, Threads
<1>. QED
  BY <1>1, <1>3, <1>4, <1>5 DEF ChanInv

\* Counting puts the frame in the history, under its nonce.
LEMMA CountChan ==
  ASSUME IndInv, ChanInv, NEW t \in Senders, Count(t)
  PROVE  ChanInv'
<1>1. /\ pc[t] = "count" /\ pc' = [pc EXCEPT ![t] = "transmit"]
      /\ sealed' = Append(sealed, hand[t])
      /\ opened' = opened
      /\ UNCHANGED <<todo, hand, wire, got, budget>>
  BY DEF Count, Goto, Touch, opened, opening, carried
<1>2. /\ \A u \in Threads : u # t => pc'[u] = pc[u]
      /\ pc'[t] = "transmit" /\ t \notin Receivers \cup OpenerThreads
  BY <1>1, ThreadsAssumption DEF IndInv, Types, Threads
<1>3. /\ sealed \in Seq(Carried) /\ wire \in Seq(Carried)
      /\ hand \in [Senders \cup Receivers -> Carried]
      /\ hand[t].nonce = Len(sealed)
  BY <1>1 DEF IndInv, Types, NonceFresh, CounterExact
<1>4. /\ Len(sealed') = Len(sealed) + 1 /\ Len(sealed) \in Nat
      /\ sealed'[Len(sealed) + 1] = hand[t]
      /\ \A i \in 1..Len(sealed) : sealed'[i] = sealed[i]
  BY <1>1, <1>3
<1>5. ASSUME NEW f \in Carried, Sent(f) PROVE Sent(f)'
  <2>1. f.nonce \in Nat
    BY DEF Carried
  <2>. QED
    BY <1>4, <1>5, <2>1 DEF Sent
<1>6. Sent(hand[t])'
  BY <1>1, <1>3, <1>4 DEF Sent
<1>7. SenderWork'
  BY <1>1, <1>2 DEF ChanInv, SenderWork, Threads
<1>8. Provenance'
  <2>1. ASSUME NEW i \in 1..Len(wire) PROVE Sent(wire[i])'
    <3>1. wire[i] \in Carried /\ Sent(wire[i])
      BY <1>3 DEF ChanInv, Provenance
    <3>. QED
      BY <1>1, <1>5, <3>1 DEF Sent
  <2>2. ASSUME NEW u \in Senders, pc'[u] = "transmit" PROVE Sent(hand[u])'
    <3>1. CASE u = t
      BY <1>6, <3>1
    <3>2. CASE u # t
      <4>1. hand[u] \in Carried /\ Sent(hand[u])
        BY <1>2, <1>3, <2>2, <3>2 DEF ChanInv, Provenance, Threads
      <4>. QED
        BY <1>1, <1>5, <4>1 DEF Sent
    <3>. QED
      BY <3>1, <3>2
  <2>3. ASSUME NEW u \in Receivers, pc'[u] = "open" PROVE Sent(hand[u])' /\ "rx" \in opened'
    <3>1. hand[u] \in Carried /\ Sent(hand[u]) /\ "rx" \in opened
      BY <1>2, <1>3, <2>3 DEF ChanInv, Provenance, Threads
    <3>. QED
      BY <1>1, <1>5, <3>1 DEF Sent
  <2>. QED
    BY <1>1, <2>1, <2>2, <2>3 DEF Provenance
<1>9. Histories'
  BY <1>1 DEF ChanInv, SenderWork, Histories
<1>10. Plans'
  BY <1>1, <1>2 DEF ChanInv, Plans, Threads
<1>. QED
  BY <1>7, <1>8, <1>9, <1>10 DEF ChanInv

\* Transmission.
LEMMA TransmitChan ==
  ASSUME IndInv, ChanInv, NEW t \in Senders, Transmit(t)
  PROVE  ChanInv' /\ opened' = opened /\ UNCHANGED <<sealed, got>>
<1>1. /\ pc[t] = "transmit" /\ pc' = [pc EXCEPT ![t] = "ready"]
      /\ wire' = Append(wire, hand[t])
      /\ budget' = [budget EXCEPT ![t] = budget[t] - 1]
      /\ opened' = opened
      /\ UNCHANGED <<todo, hand, sealed, got>>
  BY DEF Transmit, Goto, opened, opening, counters
<1>2. /\ \A u \in Threads : u # t => pc'[u] = pc[u]
      /\ pc'[t] = "ready" /\ t \notin Receivers \cup OpenerThreads
      /\ budget'[t] = budget[t] - 1
      /\ \A u \in Senders : u # t => budget'[u] = budget[u]
  BY <1>1, ThreadsAssumption DEF IndInv, Types, Threads
<1>3. budget[t] - 1 \in 0..Quota
  <2>1. budget[t] \in 0..Quota /\ budget[t] >= 1 /\ Quota \in Nat
    BY <1>1, BoundsAssumption DEF ChanInv, SenderWork
  <2>. QED
    BY <2>1
<1>4. SenderWork'
  BY <1>1, <1>2, <1>3 DEF ChanInv, SenderWork, Threads
<1>5. \A i \in 1..Len(wire') : Sent(wire'[i])
  <2>1. wire \in Seq(Carried) /\ hand[t] \in Carried
    BY DEF IndInv, Types
  <2>2. /\ Len(wire') = Len(wire) + 1 /\ Len(wire) \in Nat /\ wire'[Len(wire) + 1] = hand[t]
        /\ \A i \in 1..Len(wire) : wire'[i] = wire[i]
    BY <1>1, <2>1
  <2>3. Sent(hand[t])
    BY <1>1 DEF ChanInv, Provenance
  <2>. QED
    BY <2>2, <2>3 DEF ChanInv, Provenance
<1>6. Provenance' /\ Histories'
  BY <1>1, <1>2, <1>5 DEF ChanInv, Provenance, Histories, Sent, Threads
<1>7. Plans'
  BY <1>1, <1>2 DEF ChanInv, Plans, Threads
<1>. QED
  BY <1>1, <1>4, <1>6, <1>7 DEF ChanInv

\* Taking a frame off the wire.
LEMMA TakeChan ==
  ASSUME IndInv, ChanInv, NEW t \in Receivers, Take(t)
  PROVE  ChanInv' /\ opened' = opened /\ UNCHANGED <<sealed, got>>
<1>1. /\ pc' = [pc EXCEPT ![t] = "open"] /\ wire # <<>>
      /\ hand' = [hand EXCEPT ![t] = Head(wire)] /\ wire' = Tail(wire)
      /\ opened' = opened /\ "rx" \in opened
      /\ UNCHANGED <<todo, sealed, got, budget>>
  BY DEF Take, Goto, Returned, opened, opening, counters
<1>2. /\ \A u \in Threads : u # t => pc'[u] = pc[u]
      /\ pc'[t] = "open" /\ t \notin Senders \cup OpenerThreads
      /\ hand'[t] = Head(wire) /\ \A u \in Senders \cup Receivers : u # t => hand'[u] = hand[u]
  BY <1>1, ThreadsAssumption DEF IndInv, Types, Threads
<1>3. /\ Head(wire) = wire[1] /\ 1 \in 1..Len(wire) /\ Len(Tail(wire)) = Len(wire) - 1
      /\ Len(wire) \in Nat
      /\ \A i \in 1..Len(Tail(wire)) : Tail(wire)[i] = wire[i + 1]
  <2>1. wire \in Seq(Carried)
    BY DEF IndInv, Types
  <2>. QED
    BY <1>1, <2>1
<1>4. \A i \in 1..Len(Tail(wire)) : i + 1 \in 1..Len(wire)
  BY <1>3
<1>5. Sent(Head(wire)) /\ \A i \in 1..Len(Tail(wire)) : Sent(Tail(wire)[i])
  BY <1>3, <1>4 DEF ChanInv, Provenance
<1>6. SenderWork'
  BY <1>1, <1>2 DEF ChanInv, SenderWork, Threads
<1>7. Provenance' /\ Histories'
  BY <1>1, <1>2, <1>5 DEF ChanInv, Provenance, Histories, Sent, Threads
<1>8. Plans'
  BY <1>1, <1>2 DEF ChanInv, Plans, Threads
<1>. QED
  BY <1>1, <1>6, <1>7, <1>8 DEF ChanInv

\* Opening leaves everything but what was got.
LEMMA OpenChan ==
  ASSUME IndInv, ChanInv, NEW t \in Receivers, Open(t)
  PROVE  ChanInv' /\ opened' = opened /\ sealed' = sealed
<1>1. /\ pc[t] = "open" /\ pc' = [pc EXCEPT ![t] = "ready"]
      /\ opened' = opened /\ UNCHANGED <<todo, hand, wire, sealed, budget>>
  BY DEF Open, Goto, Touch, opened, opening, carried
<1>2. /\ \A u \in Threads : u # t => pc'[u] = pc[u]
      /\ pc'[t] = "ready" /\ t \notin Senders \cup OpenerThreads
  BY <1>1, ThreadsAssumption DEF IndInv, Types, Threads
<1>3. "rx" \in opened
  BY <1>1 DEF ChanInv, Provenance
<1>4. SenderWork' /\ Provenance' /\ Histories'
  BY <1>1, <1>2, <1>3 DEF ChanInv, SenderWork, Provenance, Histories, Sent, Threads
<1>5. Plans'
  BY <1>1, <1>2 DEF ChanInv, Plans, Threads
<1>. QED
  BY <1>1, <1>4, <1>5 DEF ChanInv

\* The remaining steps open, seal and move nothing.
LEMMA RestChan ==
  ASSUME IndInv, ChanInv,
         \/ \E t \in Senders : Exhausted(t)
         \/ \E c \in Cleaners : CleanerStep(c)
         \/ \E t \in 0..Now : SetClock(t)
         \/ UNCHANGED vars
  PROVE  ChanInv' /\ opened' = opened /\ UNCHANGED <<sealed, got>>
<1>0. /\ pc \in [Threads -> Places] /\ budget \in [Senders \cup Cleaners -> Int]
      /\ \A t \in Senders : budget[t] \in 0..Quota
      /\ 0 \in 0..Quota
  BY BoundsAssumption DEF IndInv, Types, ChanInv, SenderWork
<1>1. ASSUME NEW t \in Senders, Exhausted(t)
      PROVE  ChanInv' /\ opened' = opened /\ UNCHANGED <<sealed, got>>
  <2>1. /\ pc' = [pc EXCEPT ![t] = "ready"] /\ budget' = [budget EXCEPT ![t] = 0]
        /\ opened' = opened /\ UNCHANGED <<todo, hand, wire, sealed, got>>
    BY <1>1 DEF Exhausted, Goto, opened, opening, counters, frames
  <2>2. /\ pc'[t] = "ready" /\ budget'[t] = 0
        /\ \A u \in Senders : u # t => pc'[u] = pc[u] /\ budget'[u] = budget[u]
        /\ \A u \in Receivers \cup OpenerThreads : pc'[u] = pc[u]
    BY <1>0, <2>1, ThreadsAssumption DEF Threads
  <2>. QED
    BY <1>0, <2>1, <2>2, QuietChan
<1>2. ASSUME NEW c \in Cleaners, CleanerStep(c)
      PROVE  ChanInv' /\ opened' = opened /\ UNCHANGED <<sealed, got>>
  <2>1. /\ pc' = pc \/ (\E place \in Places : pc' = [pc EXCEPT ![c] = place])
        /\ budget' = budget \/ budget' = [budget EXCEPT ![c] = budget[c] - 1]
        /\ opened' = opened /\ UNCHANGED <<todo, hand, wire, sealed, got>>
    BY <1>2 DEF CleanerStep, LockList, Check, UnlockList, Goto, Places, opened, opening,
       counters, carried, frames
  <2>2. /\ \A u \in Senders : pc'[u] = pc[u] /\ budget'[u] = budget[u]
        /\ \A u \in Receivers \cup OpenerThreads : pc'[u] = pc[u]
    BY <1>0, <2>1, ThreadsAssumption DEF Threads
  <2>. QED
    BY <2>1, <2>2, QuietChan
<1>3. ASSUME (\E t \in 0..Now : SetClock(t)) \/ UNCHANGED vars
      PROVE  ChanInv' /\ opened' = opened /\ UNCHANGED <<sealed, got>>
  <2>1. opened' = opened /\ UNCHANGED <<pc, budget, todo, hand, wire, sealed, got>>
    BY <1>3 DEF SetClock, vars, opened, opening, counters, carried, frames
  <2>. QED
    BY <2>1, QuietChan
<1>. QED
  BY <1>1, <1>2, <1>3

-----------------------------------------------------------------------------
(* The refinement mapping, as in Channel.                                  *)

EndOf(h) == CASE h = "tx" -> [chan |-> "pair", side |-> "SEND"]
              [] h = "rx" -> [chan |-> "pair", side |-> "RECV"]
              [] OTHER    -> [chan |-> h, side |-> "SEND"]

ends   == [h \in opened |-> EndOf(h)]
saids  == [h \in opened |-> IF h = "tx" THEN Plain(sealed) ELSE <<>>]
heards == [h \in opened |-> IF h = "rx" THEN Plain(got) ELSE <<>>]

\* What one more frame adds to a history.
LEMMA PlainAppend ==
  ASSUME NEW s \in Seq(Carried), NEW f \in Carried
  PROVE  Plain(Append(s, f)) = Append(Plain(s), [from |-> f.from, n |-> f.n])
<1>. DEFINE m == [from |-> f.from, n |-> f.n]
            M == [from: Senders \cup {"none"}, n: Int]
            long == Append(Plain(s), m)
<1>1. /\ Len(Append(s, f)) = Len(s) + 1 /\ Len(s) \in Nat
      /\ Append(s, f)[Len(s) + 1] = f
      /\ \A i \in 1..Len(s) : Append(s, f)[i] = s[i]
  OBVIOUS
<1>2. m \in M
  BY DEF Carried
<1>3. Plain(s) \in Seq(M) /\ Len(Plain(s)) = Len(s)
  <2>1. \A i \in 1..Len(s) : s[i] \in Carried
    OBVIOUS
  <2>2. \A i \in 1..Len(s) : [from |-> s[i].from, n |-> s[i].n] \in M
    BY <2>1 DEF Carried
  <2>. HIDE DEF M
  <2>. QED
    BY <1>1, <2>2 DEF Plain
<1>. HIDE DEF m, M
<1>4. /\ long \in Seq(M) /\ Len(long) = Len(s) + 1
      /\ long[Len(s) + 1] = m
      /\ \A i \in 1..Len(s) : long[i] = Plain(s)[i]
  BY <1>1, <1>2, <1>3
<1>. HIDE DEF long
<1>5. long = [i \in 1..(Len(s) + 1) |-> long[i]]
  BY <1>4
<1>6. ASSUME NEW i \in 1..(Len(s) + 1)
      PROVE  long[i] = [from |-> Append(s, f)[i].from, n |-> Append(s, f)[i].n]
  <2>1. CASE i \in 1..Len(s)
    BY <1>1, <1>4, <2>1 DEF Plain
  <2>2. CASE i = Len(s) + 1
    BY <1>1, <1>4, <2>2 DEF m
  <2>. QED
    BY <1>1, <2>1, <2>2
<1>7. Plain(Append(s, f)) = long
  BY <1>1, <1>5, <1>6 DEF Plain
<1>. QED
  BY <1>7 DEF long, m

\* No session has been created at first.
LEMMA InitRefines == Init => Channel!Init
BY DEF Init, Channel!Init

\* A session created is an end opened; nobody else has its side of its channel.
LEMMA CreateRefines ==
  ASSUME IndInv, CleanInv, ChanInv, NEW o \in OpenerThreads, Create(o)
  PROVE  Channel!Next
<1>0. PICK new : new = Head(todo[o])
  OBVIOUS
<1>1. new \in Handles \ opened /\ opened' = opened \cup {new}
  BY <1>0, CreateChan
<1>2. UNCHANGED <<sealed, got>>
  BY DEF Create, frames
<1>e. PICK e : e = EndOf(new)
  OBVIOUS
<1>3. e \in Channel!End
  BY <1>1, <1>e DEF EndOf, Handles, Channel!End
<1>4. ASSUME e.side = "SEND", NEW g \in opened PROVE ends[g] # e
  <2>1. g \in Handles /\ g # new
    BY <1>1 DEF ChanInv, Plans
  <2>2. EndOf(g) # e
    BY <1>1, <1>e, <1>4, <2>1, NamesAssumption DEF EndOf, Handles
  <2>. QED
    BY <2>2 DEF ends
<1>5. ends' = Channel!Extend(ends, new, e)
  BY <1>1, <1>e DEF ends, Channel!Extend
<1>6. Plain(<<>>) = <<>>
  BY DEF Plain
<1>7. (new = "tx" => sealed = <<>>) /\ (new = "rx" => got = <<>>)
  BY <1>1 DEF ChanInv, Histories
<1>8. saids' = Channel!Extend(saids, new, <<>>)
  <2>1. saids' = [x \in opened \cup {new} |-> IF x = "tx" THEN Plain(sealed) ELSE <<>>]
    BY <1>1, <1>2 DEF saids, Plain
  <2>. QED
    BY <1>6, <1>7, <2>1 DEF saids, Channel!Extend
<1>9. heards' = Channel!Extend(heards, new, <<>>)
  <2>1. heards' = [x \in opened \cup {new} |-> IF x = "rx" THEN Plain(got) ELSE <<>>]
    BY <1>1, <1>2 DEF heards, Plain
  <2>. QED
    BY <1>6, <1>7, <2>1 DEF heards, Channel!Extend
<1>10. Channel!OpenEnd(new, e)
  BY <1>1, <1>4, <1>5, <1>8, <1>9
     DEF Channel!OpenEnd, ends, saids, heards, EndOf, Plain, opened
<1>. QED
  BY <1>1, <1>3, <1>10 DEF Channel!Next

\* A frame counted is said.
LEMMA CountRefines ==
  ASSUME IndInv, ChanInv, NEW t \in Senders, Count(t)
  PROVE  Channel!Next
<1>0. PICK m : m = [from |-> hand[t].from, n |-> hand[t].n]
  OBVIOUS
<1>1. /\ pc[t] = "count" /\ sealed' = Append(sealed, hand[t])
      /\ opened' = opened /\ got' = got
  BY DEF Count, Touch, opened
<1>2. m \in [from: Senders, n: 1..Quota] /\ "tx" \in opened
  BY <1>0, <1>1 DEF ChanInv, SenderWork
<1>3. Plain(sealed') = Append(Plain(sealed), m)
  BY <1>0, <1>1, PlainAppend DEF IndInv, Types
<1>4. saids' = [saids EXCEPT !["tx"] = Append(@, m)]
  <2>1. saids' = [x \in opened |-> IF x = "tx" THEN Plain(sealed') ELSE <<>>]
    BY <1>1 DEF saids, Plain
  <2>. QED
    BY <1>2, <1>3, <2>1 DEF saids
<1>5. ends' = ends /\ heards' = heards
  BY <1>1 DEF ends, heards, Plain
<1>6. Channel!Say("tx", m)
  BY <1>4, <1>5 DEF Channel!Say, ends, saids, heards, EndOf, Plain, opened
<1>. QED
  BY <1>2, <1>6 DEF Channel!Next, opened

\* A frame opened is heard: the receive counter is the number of frames opened, and
\* the frame with that nonce is the next one said.
LEMMA OpenRefines ==
  ASSUME IndInv, LossInv, ChanInv, NEW t \in Receivers, Open(t)
  PROVE  Channel!Next \/ UNCHANGED Channel!chanVars
<1>1. opened' = opened /\ sealed' = sealed /\ pc[t] = "open"
  BY OpenChan DEF Open
<1>2. ends' = ends /\ saids' = saids
  BY <1>1 DEF ends, saids, Plain
<1>3. CASE got' = got
  <2>1. heards' = heards
    BY <1>1, <1>3 DEF heards, Plain
  <2>. QED
    BY <1>2, <2>1 DEF Channel!chanVars, ends, saids, heards, EndOf, Plain, opened
<1>4. CASE got' = Append(got, hand[t]) /\ hand[t].nonce = recv_nonce
  <2>1. /\ hand[t].nonce = Len(got) /\ Len(got) \in Nat
        /\ got \in Seq(Carried) /\ hand[t] \in Carried /\ sealed \in Seq(Carried)
    BY <1>4 DEF LossInv, ReceiveTypes, IndInv, Types
  <2>2. /\ Len(got) < Len(sealed) /\ sealed[Len(got) + 1] = hand[t] /\ "rx" \in opened
    BY <1>1, <2>1 DEF ChanInv, Provenance, Sent
  <2>3. "tx" \in opened
    BY <2>1, <2>2 DEF ChanInv, Histories
  <2>. DEFINE m == [from |-> hand[t].from, n |-> hand[t].n]
  <2>4. Plain(got') = Append(Plain(got), m)
    BY <1>4, <2>1, PlainAppend
  <2>5. /\ Len(Plain(got)) = Len(got) /\ Len(Plain(sealed)) = Len(sealed)
        /\ Plain(sealed)[Len(got) + 1] = m
    BY <2>1, <2>2 DEF Plain
  <2>. HIDE DEF m
  <2>6. heards' = [heards EXCEPT !["rx"] = Append(@, m)]
    <3>1. heards' = [x \in opened |-> IF x = "rx" THEN Plain(got') ELSE <<>>]
      BY <1>1 DEF heards, Plain
    <3>. QED
      BY <2>2, <2>4, <3>1 DEF heards
  <2>7. saids["tx"][Len(heards["rx"]) + 1] = m /\ Len(heards["rx"]) < Len(saids["tx"])
    BY <2>2, <2>3, <2>5 DEF saids, heards
  <2>8. heards' = [heards EXCEPT !["rx"] = Append(@, saids["tx"][Len(heards["rx"]) + 1])]
    BY <2>6, <2>7
  <2>9. ends["rx"].chan = ends["tx"].chan /\ ends["rx"].side # ends["tx"].side
    BY <2>2, <2>3 DEF ends, EndOf
  <2>10. Channel!Hear("rx", "tx")
    BY <1>2, <2>7, <2>8, <2>9
       DEF Channel!Hear, Channel!Opposite, ends, saids, heards, EndOf, Plain, opened
  <2>. QED
    BY <2>2, <2>3, <2>10 DEF Channel!Next, opened
<1>. QED
  BY <1>3, <1>4 DEF Open

\* Every step keeps the invariant and is a step of the channel or changes nothing it sees.
LEMMA NextRefines ==
  IndInv /\ LossInv /\ CleanInv /\ ChanInv /\ [Next]_vars =>
    ChanInv' /\ [Channel!Next]_(Channel!chanVars)
<1>. SUFFICES ASSUME IndInv, LossInv, CleanInv, ChanInv, [Next]_vars
              PROVE  ChanInv' /\ (Channel!Next \/ UNCHANGED Channel!chanVars)
  OBVIOUS
<1>1. ASSUME opened' = opened, UNCHANGED <<sealed, got>>
      PROVE  UNCHANGED Channel!chanVars
  BY <1>1 DEF Channel!chanVars, Plain, opened
<1>2. ASSUME NEW o \in OpenerThreads, OpenerStep(o)
      PROVE  ChanInv' /\ (Channel!Next \/ UNCHANGED Channel!chanVars)
  <2>1. CASE Create(o)
    BY <2>1, CreateChan, CreateRefines
  <2>2. CASE Push(o)
    <3>1. opened' = opened /\ UNCHANGED <<sealed, got>>
      BY <2>2 DEF Push, counters, frames, opened
    <3>. QED
      BY <1>1, <2>2, <3>1, PushChan
  <2>. QED
    BY <1>2, <2>1, <2>2 DEF OpenerStep
<1>3. ASSUME NEW t \in Senders, SenderStep(t)
      PROVE  ChanInv' /\ (Channel!Next \/ UNCHANGED Channel!chanVars)
  <2>1. CASE LockTx(t) \/ Seal(t)
    BY <1>1, <2>1, LockSealChan
  <2>2. CASE Exhausted(t)
    BY <1>1, <2>2, RestChan
  <2>3. CASE Count(t)
    BY <2>3, CountChan, CountRefines
  <2>4. CASE Transmit(t)
    BY <1>1, <2>4, TransmitChan
  <2>. QED
    BY <1>3, <2>1, <2>2, <2>3, <2>4 DEF SenderStep
<1>4. ASSUME NEW t \in Receivers, ReceiverStep(t)
      PROVE  ChanInv' /\ (Channel!Next \/ UNCHANGED Channel!chanVars)
  <2>1. CASE Take(t)
    BY <1>1, <2>1, TakeChan
  <2>2. CASE Open(t)
    BY <2>2, OpenChan, OpenRefines
  <2>. QED
    BY <1>4, <2>1, <2>2 DEF ReceiverStep
<1>5. CASE (\E c \in Cleaners : CleanerStep(c)) \/ (\E t \in 0..Now : SetClock(t)) \/ UNCHANGED vars
  BY <1>1, <1>5, RestChan
<1>. QED
  BY <1>2, <1>3, <1>4, <1>5 DEF Next

\* Nothing is said, and every opener has its sessions still to open.
LEMMA InitChan == Init => ChanInv
<1>. SUFFICES ASSUME Init PROVE ChanInv
  OBVIOUS
<1>1. SenderWork /\ Provenance /\ Histories
  BY BoundsAssumption, ThreadsAssumption
     DEF Init, SenderWork, Provenance, Histories, Threads, OpenerThreads
<1>2. ASSUME NEW o \in OpenerThreads
      PROVE  /\ todo[o] \in Seq(Plan(o))
             /\ \A i, j \in 1..Len(todo[o]) : todo[o][i] = todo[o][j] => i = j
             /\ pc[o] = "create"
  <2>1. CASE o = "main"
    <3>1. todo[o] = <<"tx", "rx">> /\ Plan(o) = {"tx", "rx"}
      BY <2>1 DEF Init, Plan
    <3>2. Len(todo[o]) = 2 /\ todo[o] \in Seq(Plan(o))
      BY <3>1
    <3>. QED
      BY <3>1, <3>2 DEF Init, Threads
  <2>2. CASE o # "main"
    <3>1. todo[o] = <<o>> /\ Plan(o) = {o}
      BY <2>2 DEF Init, Plan
    <3>2. Len(todo[o]) = 1 /\ todo[o] \in Seq(Plan(o))
      BY <3>1
    <3>. QED
      BY <3>1, <3>2 DEF Init, Threads
  <2>. QED
    BY <2>1, <2>2
<1>3. opened = {}
  BY DEF Init, opened
<1>4. Plans
  BY <1>2, <1>3 DEF Plans
<1>. QED
  BY <1>1, <1>4 DEF ChanInv

\* However threads interleave, what is heard through the shared handles was said
\* through them, in order, with nothing left out before it.
THEOREM ThreadsRefinement == Spec => ImplementsChannel
<1>1. Init => LossInv /\ CleanInv
  BY InitLoss, InitClean
<1>2. Init => ChanInv
  BY InitChan
<1>3. IndInv /\ CleanInv /\ [Next]_vars => CleanInv'
  BY NextClean
<1>. QED
  BY <1>1, <1>2, <1>3, InitInd, NextInd, NextLoss, NextRefines, InitRefines, PTL
     DEF Spec, ImplementsChannel, Channel!Spec

-----------------------------------------------------------------------------
(* Deadlock.                                                               *)

\* The guards of the steps of each kind of thread.
CanGo(t) ==
  \/ /\ t \in OpenerThreads
     /\ \/ pc[t] = "create" /\ todo[t] # <<>>
        \/ pc[t] = "push" /\ owner["list"] = "free"
  \/ /\ t \in Senders
     /\ \/ pc[t] = "ready" /\ budget[t] > 0 /\ Returned("tx") /\ owner["tx"] = "free"
        \/ pc[t] \in {"seal", "count", "transmit"}
  \/ /\ t \in Receivers
     /\ \/ pc[t] = "ready" /\ wire # <<>> /\ Returned("rx")
        \/ pc[t] = "open"
  \/ /\ t \in Cleaners
     /\ \/ pc[t] = "ready" /\ budget[t] > 0 /\ owner["list"] = "free"
        \/ pc[t] = "scan" /\ (scan[t].at <= Len(sessions) => Unlocked(sessions[scan[t].at]))

\* Threads keep to the places of their task, and only the threads that may take a lock
\* hold it.
Tasks ==
  /\ \A o \in OpenerThreads : pc[o] \in {"create", "push"}
  /\ \A t \in Senders : pc[t] \in {"ready", "seal", "count", "transmit"}
  /\ \A t \in Receivers : pc[t] \in {"ready", "open"}
  /\ \A c \in Cleaners : pc[c] \in {"ready", "scan"} /\ budget[c] \in Nat
  /\ owner["tx"] \in Senders \cup {"free"} /\ owner["list"] \in Cleaners \cup {"free"}

\* The pair is created or still to be.
PairComing == \A h \in {"tx", "rx"} : h \in DOMAIN last_activity \/ h \in ToSet(todo["main"])

StuckInv == Tasks /\ PairComing

\* Every thread is done, or some thread can go on.
NoDeadlock == Finished \/ \E t \in Threads : CanGo(t)

\* Each kind of thread moves among its own places.
LEMMA TasksInd == IndInv /\ Tasks /\ [Next]_vars => Tasks'
<1>. SUFFICES ASSUME IndInv, Tasks, [Next]_vars PROVE Tasks'
  OBVIOUS
<1>0. /\ pc \in [Threads -> Places]
      /\ owner \in [{"list", "tx"} -> Threads \cup {"free"}]
      /\ budget \in [Senders \cup Cleaners -> Int]
  BY DEF IndInv, Types
<1>1. ASSUME NEW o \in OpenerThreads, OpenerStep(o) PROVE Tasks'
  <2>1. \E place \in {"create", "push"} : pc' = [pc EXCEPT ![o] = place]
    BY <1>1 DEF OpenerStep, Create, Push, Goto
  <2>2. UNCHANGED <<owner, budget>>
    BY <1>1 DEF OpenerStep, Create, Push, carried
  <2>3. pc'[o] \in {"create", "push"} /\ \A t \in Threads : t # o => pc'[t] = pc[t]
    BY <1>0, <2>1 DEF Threads
  <2>. QED
    BY <2>2, <2>3, ThreadsAssumption DEF Tasks, Threads
<1>2. ASSUME NEW t \in Senders, SenderStep(t) PROVE Tasks'
  <2>1. \E place \in {"ready", "seal", "count", "transmit"} : pc' = [pc EXCEPT ![t] = place]
    BY <1>2 DEF SenderStep, LockTx, Seal, Exhausted, Count, Transmit, Goto
  <2>2. /\ pc'[t] \in {"ready", "seal", "count", "transmit"}
        /\ \A u \in Threads : u # t => pc'[u] = pc[u]
    BY <1>0, <2>1 DEF Threads
  <2>3. owner' = owner \/ owner' = [owner EXCEPT !["tx"] = t] \/ owner' = [owner EXCEPT !["tx"] = "free"]
    BY <1>2 DEF SenderStep, LockTx, Seal, Exhausted, Count, Transmit, Acquire, Release
  <2>4. owner'["tx"] \in Senders \cup {"free"} /\ owner'["list"] = owner["list"]
    BY <1>0, <2>3 DEF Tasks
  <2>5. \A c \in Cleaners : budget'[c] = budget[c]
    <3>1. \/ budget' = budget \/ budget' = [budget EXCEPT ![t] = 0]
          \/ budget' = [budget EXCEPT ![t] = budget[t] - 1]
      BY <1>2 DEF SenderStep, LockTx, Seal, Exhausted, Count, Transmit, carried
    <3>2. \A c \in Cleaners : c # t
      BY ThreadsAssumption
    <3>. QED
      BY <1>0, <3>1, <3>2
  <2>. QED
    BY <2>2, <2>4, <2>5, ThreadsAssumption DEF Tasks, Threads
<1>3. ASSUME NEW t \in Receivers, ReceiverStep(t) PROVE Tasks'
  <2>1. \E place \in {"ready", "open"} : pc' = [pc EXCEPT ![t] = place]
    BY <1>3 DEF ReceiverStep, Take, Open, Goto
  <2>2. UNCHANGED <<owner, budget>>
    BY <1>3 DEF ReceiverStep, Take, Open, carried
  <2>3. pc'[t] \in {"ready", "open"} /\ \A u \in Threads : u # t => pc'[u] = pc[u]
    BY <1>0, <2>1 DEF Threads
  <2>. QED
    BY <2>2, <2>3, ThreadsAssumption DEF Tasks, Threads
<1>4. ASSUME NEW c \in Cleaners, CleanerStep(c) PROVE Tasks'
  <2>1. pc' = pc \/ \E place \in {"ready", "scan"} : pc' = [pc EXCEPT ![c] = place]
    BY <1>4 DEF CleanerStep, LockList, Check, UnlockList, Goto
  <2>2. pc'[c] \in {"ready", "scan"} /\ \A u \in Threads : u # c => pc'[u] = pc[u]
    BY <1>0, <2>1 DEF Threads, Tasks
  <2>3. owner' = owner \/ owner' = [owner EXCEPT !["list"] = c] \/ owner' = [owner EXCEPT !["list"] = "free"]
    BY <1>4 DEF CleanerStep, LockList, Check, UnlockList, Acquire, Release
  <2>4. owner'["list"] \in Cleaners \cup {"free"} /\ owner'["tx"] = owner["tx"]
    BY <1>0, <2>3 DEF Tasks
  <2>5. budget' = budget \/ (budget[c] > 0 /\ budget' = [budget EXCEPT ![c] = budget[c] - 1])
    BY <1>4 DEF CleanerStep, LockList, Check, UnlockList, carried
  <2>6. \A d \in Cleaners : budget'[d] \in Nat
    BY <1>0, <2>5 DEF Tasks
  <2>. QED
    BY <2>2, <2>4, <2>6, ThreadsAssumption DEF Tasks, Threads
<1>5. CASE (\E t \in 0..Now : SetClock(t)) \/ UNCHANGED vars
  BY <1>5 DEF SetClock, vars, carried, Tasks
<1>. QED
  BY <1>1, <1>2, <1>3, <1>4, <1>5 DEF Next

\* A session to be opened stays so until it is created, and what is created stays.
LEMMA PairInd == IndInv /\ CleanInv /\ ChanInv /\ PairComing /\ [Next]_vars => PairComing'
<1>. SUFFICES ASSUME IndInv, CleanInv, ChanInv, PairComing, [Next]_vars,
                     NEW h \in {"tx", "rx"}
              PROVE  h \in opened' \/ h \in ToSet(todo'["main"])
  BY DEF PairComing, opened
<1>0. /\ h \in opened \/ h \in ToSet(todo["main"])
      /\ "main" \in OpenerThreads /\ DOMAIN todo = OpenerThreads
  BY DEF PairComing, opened, OpenerThreads, CleanInv, ListTypes
<1>1. ASSUME NEW o \in OpenerThreads, Create(o) PROVE opened \subseteq opened' /\ todo' = todo
  BY <1>1 DEF Create, opened, opening
<1>2. ASSUME NEW o \in OpenerThreads, Push(o)
      PROVE  h \in opened' \/ h \in ToSet(todo'["main"])
  <2>1. /\ pc[o] = "push" /\ opened' = opened
        /\ todo' = [todo EXCEPT ![o] = Tail(todo[o])]
    BY <1>2 DEF Push, opened, counters
  <2>2. CASE o # "main" \/ h \in opened
    BY <1>0, <2>1, <2>2
  <2>3. CASE o = "main" /\ h \notin opened
    <3>1. PICK s \in Seq(Plan(o)) : s = todo[o] /\ s # <<>>
      BY <2>1 DEF ChanInv, Plans
    <3>2. Head(s) \in opened
      BY <2>1, <3>1 DEF CleanInv, ListTypes, opened
    <3>3. PICK i \in 1..Len(s) : s[i] = h
      BY <1>0, <2>3, <3>1 DEF ToSet
    <3>4. i # 1
      BY <2>3, <3>1, <3>2, <3>3
    <3>5. /\ i - 1 \in 1..Len(Tail(s)) /\ Tail(s)[i - 1] = s[i]
      <4>1. /\ Len(s) \in Nat /\ Len(Tail(s)) = Len(s) - 1
            /\ \A j \in 1..Len(Tail(s)) : Tail(s)[j] = s[j + 1]
        BY <3>1, HeadTailProperties
      <4>2. i - 1 \in 1..(Len(s) - 1) /\ (i - 1) + 1 = i
        BY <3>4, <4>1
      <4>. QED
        BY <4>1, <4>2
    <3>6. h \in ToSet(Tail(s))
      <4>1. PICK r \in Seq(Plan(o)) : r = Tail(s)
        BY <3>1, HeadTailProperties
      <4>2. DOMAIN r = 1..Len(r) /\ i - 1 \in 1..Len(r) /\ r[i - 1] = h
        BY <3>3, <3>5, <4>1
      <4>3. h \in ToSet(r)
        BY <4>2 DEF ToSet
      <4>. QED
        BY <4>1, <4>3
    <3>7. todo'["main"] = Tail(s)
      BY <1>0, <2>1, <2>3, <3>1
    <3>. QED
      BY <3>6, <3>7
  <2>. QED
    BY <2>2, <2>3
<1>3. ASSUME UNCHANGED todo, opened' = opened PROVE h \in opened' \/ h \in ToSet(todo'["main"])
  BY <1>0, <1>3
<1>4. ASSUME NEW t \in Senders, SenderStep(t) PROVE UNCHANGED todo /\ opened' = opened
  <2>1. \/ UNCHANGED last_activity
        \/ "tx" \in opened /\ Touch("tx")
    <3>1. pc[t] = "count" => "tx" \in opened
      BY DEF ChanInv, SenderWork
    <3>. QED
      BY <1>4, <3>1 DEF SenderStep, LockTx, Seal, Exhausted, Count, Transmit, counters
  <2>2. opened' = opened
    BY <2>1 DEF Touch, opened
  <2>. QED
    BY <1>4, <2>2 DEF SenderStep, LockTx, Seal, Exhausted, Count, Transmit, opening
<1>5. ASSUME NEW t \in Receivers, ReceiverStep(t) PROVE UNCHANGED todo /\ opened' = opened
  <2>1. UNCHANGED last_activity \/ Touch("rx")
    BY <1>5 DEF ReceiverStep, Take, Open, counters
  <2>2. opened' = opened
    BY <2>1 DEF Touch, opened
  <2>. QED
    BY <1>5, <2>2 DEF ReceiverStep, Take, Open, opening
<1>6. ASSUME NEW c \in Cleaners, CleanerStep(c) PROVE UNCHANGED todo /\ opened' = opened
  BY <1>6 DEF CleanerStep, LockList, Check, UnlockList, opening, counters, opened
<1>7. CASE (\E t \in 0..Now : SetClock(t)) \/ UNCHANGED vars
  <2>1. UNCHANGED <<todo, last_activity>>
    BY <1>7 DEF SetClock, vars, opening, counters
  <2>. QED
    BY <1>3, <2>1 DEF opened
<1>. QED
  BY <1>0, <1>1, <1>2, <1>3, <1>4, <1>5, <1>6, <1>7 DEF Next, OpenerStep

\* Were no thread able to go on, no sender would hold the session's lock, so no cleaner
\* the list's; then openers, senders, cleaners and receivers, in this order, are done.
LEMMA SomeoneCanGo ==
  ASSUME Receivers # {}
  PROVE  IndInv /\ CleanInv /\ ChanInv /\ StuckInv => NoDeadlock
<1>. SUFFICES ASSUME IndInv, CleanInv, ChanInv, StuckInv, \A t \in Threads : ~CanGo(t)
              PROVE  Finished
  BY DEF NoDeadlock
<1>0. /\ Tasks /\ PairComing
      /\ \A t \in Senders : t \in Threads
      /\ \A t \in Receivers : t \in Threads
      /\ \A t \in OpenerThreads : t \in Threads
      /\ \A t \in Cleaners : t \in Threads
  BY DEF StuckInv, Threads
<1>1. \A t \in Senders : pc[t] = "ready"
  BY <1>0 DEF Tasks, CanGo
<1>2. owner["tx"] = "free"
  BY <1>0, <1>1 DEF Tasks, IndInv, LockHeld
<1>3. \A c \in Cleaners : pc[c] = "ready"
  <2>1. \A c \in Cleaners : pc[c] # "scan"
    BY <1>0, <1>2 DEF CanGo, Unlocked
  <2>. QED
    BY <1>0, <2>1 DEF Tasks
<1>4. owner["list"] = "free"
  BY <1>0, <1>3 DEF Tasks, CleanInv, ListHeld
<1>5. \A o \in OpenerThreads : todo[o] = <<>>
  BY <1>0, <1>4 DEF Tasks, CanGo
<1>6. Returned("tx") /\ Returned("rx")
  <2>1. \A o \in OpenerThreads : ToSet(todo[o]) = {}
    BY <1>5 DEF ToSet
  <2>2. "main" \in OpenerThreads
    BY DEF OpenerThreads
  <2>. QED
    BY <1>0, <2>1, <2>2 DEF PairComing, Returned
<1>7. \A t \in Senders : budget[t] = 0
  <2>1. \A t \in Senders : ~ (budget[t] > 0)
    BY <1>0, <1>1, <1>2, <1>6 DEF CanGo
  <2>2. \A t \in Senders : budget[t] \in Nat
    BY BoundsAssumption DEF ChanInv, SenderWork
  <2>. QED
    BY <2>1, <2>2
<1>8. \A c \in Cleaners : budget[c] = 0
  <2>1. \A c \in Cleaners : ~ (budget[c] > 0)
    BY <1>0, <1>3, <1>4 DEF CanGo
  <2>. QED
    BY <1>0, <2>1 DEF Tasks
<1>9. \A t \in Receivers : pc[t] = "ready"
  BY <1>0 DEF Tasks, CanGo
<1>10. wire = <<>>
  BY <1>0, <1>6, <1>9 DEF CanGo
<1>. QED
  BY <1>1, <1>3, <1>5, <1>7, <1>8, <1>9, <1>10 DEF Finished

\* Session locks are taken under the list lock and never the other way round: however
\* many threads seal, open, establish and clean up, and whatever the counter and the
\* clock come to, they are never all waiting (some receiver there must be, for the wire
\* to be emptied).
THEOREM NoThreadsDeadlock ==
  ASSUME Receivers # {}
  PROVE  Spec => []NoDeadlock
<1>1. Init => Tasks /\ PairComing
  <2>. SUFFICES ASSUME Init PROVE Tasks /\ PairComing
    OBVIOUS
  <2>1. Tasks
    BY BoundsAssumption, ThreadsAssumption DEF Init, Tasks, Threads
  <2>2. "main" \in OpenerThreads /\ todo["main"] = <<"tx", "rx">>
    BY DEF Init, OpenerThreads
  <2>3. ToSet(<<"tx", "rx">>) = {"tx", "rx"}
    BY DEF ToSet
  <2>. QED
    BY <2>1, <2>2, <2>3 DEF PairComing
<1>2. IndInv /\ CleanInv /\ [Next]_vars => CleanInv'
  BY NextClean
<1>3. IndInv /\ LossInv /\ CleanInv /\ ChanInv /\ [Next]_vars => ChanInv'
  BY NextRefines
<1>4. Init => LossInv /\ CleanInv /\ ChanInv
  BY InitLoss, InitClean, InitChan
<1>5. IndInv /\ CleanInv /\ ChanInv /\ Tasks /\ PairComing => NoDeadlock
  BY SomeoneCanGo DEF StuckInv
<1>. QED
  BY <1>1, <1>2, <1>3, <1>4, <1>5, InitInd, NextInd, NextLoss, TasksInd, PairInd, PTL DEF Spec
=============================================================================
