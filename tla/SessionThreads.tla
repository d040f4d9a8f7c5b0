--------------------------- MODULE SessionThreads ---------------------------
(***************************************************************************)
(* PqcTransportManager under threads.  The manager is shared (&self): its  *)
(* list of sessions is behind one mutex and every session behind its own.  *)
(* Senders share the handle of session "tx", receivers the handle of its   *)
(* peer "rx", openers establish sessions, cleaners call cleanup_expired,   *)
(* which takes session locks while it holds the list lock.  A critical     *)
(* section is split where another thread could see or need what is inside; *)
(* one that touches its data once is a single step.                        *)
(*                                                                         *)
(* Frames travel in order and none is lost, so that whatever goes wrong    *)
(* here is the threads' doing; the network is in PqcTransport.             *)
(***************************************************************************)
EXTENDS Naturals, Sequences, FiniteSets, SequencesExt

CONSTANTS
  Senders,     \* threads that call encrypt_frame on "tx" and transmit the result
  Receivers,   \* threads that take a frame off the wire and call decrypt_frame on "rx"
  Openers,     \* threads that open one more session each, under their own name
  Cleaners,    \* threads that call cleanup_expired
  Quota,       \* bound on the frames of a sender
  Rounds,      \* bound on the calls of a cleaner
  NonceLimit,  \* the counter's hard stop, 2^64 in the code
  Timeout,     \* session_timeout_nanos
  Now          \* bound on the wall clock

ASSUME BoundsAssumption ==
  /\ Quota \in Nat /\ Rounds \in Nat /\ NonceLimit \in Nat
  /\ Timeout \in Nat /\ Now \in Nat

VARIABLES
  pc,             \* where each thread is
  owner,          \* who holds each of the two contended locks, or "free"
  sessions,       \* the manager's list
  todo,           \* the sessions each opener has still to open
  send_nonce,     \* send counter of "tx"
  recv_nonce,     \* receive counter of "rx"
  last_activity,  \* of every session created so far
  clock,
  hand,           \* the frame a sender or a receiver is carrying
  scan,           \* a cleaner's position in the list; history: the lowest reading of the
                  \* clock during its call
  budget,         \* frames a sender may still seal, calls a cleaner may still make
  wire,           \* frames transmitted and not yet taken
  sealed,         \* history: frames in the order they were sealed
  attempts,       \* history: frames in the order their opening was tried
  got             \* history: the ones that were opened

opening  == <<sessions, todo>>
counters == <<send_nonce, recv_nonce, last_activity>>
carried  == <<hand, scan, budget>>
frames   == <<wire, sealed, attempts, got>>
vars     == <<pc, owner, clock, opening, counters, carried, frames>>

\* The thread that sets up the pair of sessions, as the tests of the crate do.
OpenerThreads == Openers \cup {"main"}
Handles       == Openers \cup {"tx", "rx"}
Threads       == Senders \cup Receivers \cup OpenerThreads \cup Cleaners

\* A thread has one task; "free" is not a thread.
ASSUME ThreadsAssumption ==
  /\ Senders \cap (Receivers \cup OpenerThreads \cup Cleaners) = {}
  /\ Receivers \cap (OpenerThreads \cup Cleaners) = {} /\ OpenerThreads \cap Cleaners = {}
  /\ "free" \notin Threads

\* The sessions openers open are not the pair.
ASSUME NamesAssumption == Openers \cap {"tx", "rx", "pair"} = {}

Goto(t, place) == pc' = [pc EXCEPT ![t] = place]
Acquire(l, t)  == owner[l] = "free" /\ owner' = [owner EXCEPT ![l] = t]
Release(l)     == owner' = [owner EXCEPT ![l] = "free"]
Touch(h)       == last_activity' = [last_activity EXCEPT ![h] = clock]

\* A handle is its owner's to share once the call that opens it has returned.
Returned(h) == h \in DOMAIN last_activity /\ \A o \in OpenerThreads : h \notin ToSet(todo[o])

-----------------------------------------------------------------------------
Init ==
  /\ pc = [t \in Threads |-> IF t \in OpenerThreads THEN "create" ELSE "ready"]
  /\ owner = [l \in {"list", "tx"} |-> "free"]
  /\ sessions = <<>>
  /\ todo = [o \in OpenerThreads |-> IF o = "main" THEN <<"tx", "rx">> ELSE <<o>>]
  /\ send_nonce = 0 /\ recv_nonce = 0
  /\ last_activity = [h \in {} |-> 0]
  /\ clock = 0
  /\ hand = [t \in Senders \cup Receivers |-> [from |-> "none", n |-> 0, nonce |-> 0]]
  /\ scan = [c \in Cleaners |-> [at |-> 0, low |-> 0]]
  /\ budget = [t \in Senders \cup Cleaners |-> IF t \in Senders THEN Quota ELSE Rounds]
  /\ wire = <<>> /\ sealed = <<>> /\ attempts = <<>> /\ got = <<>>

-----------------------------------------------------------------------------
(* establish_session and accept_session: the session is created, with its  *)
(* clock reading, before the list lock is asked for.                       *)

Create(o) ==
  /\ pc[o] = "create" /\ todo[o] # <<>>
  /\ Goto(o, "push")
  /\ last_activity' = [h \in DOMAIN last_activity \cup {Head(todo[o])} |->
                         IF h = Head(todo[o]) THEN clock ELSE last_activity[h]]
  /\ UNCHANGED <<owner, opening, send_nonce, recv_nonce, clock, carried, frames>>

\* The session's lock, taken once more for the debug line, is never held across a step:
\* only a cleaner can have the session by now.
Push(o) ==
  /\ pc[o] = "push"
  /\ owner["list"] = "free"
  /\ sessions' = Append(sessions, Head(todo[o]))
  /\ todo' = [todo EXCEPT ![o] = Tail(@)]
  /\ Goto(o, "create")
  /\ UNCHANGED <<owner, counters, clock, carried, frames>>

-----------------------------------------------------------------------------
(* encrypt_frame and the transmission after it.                            *)

\* Mutant: the lock is not waited for.
LockTxShared(t) ==
  /\ pc[t] = "ready" /\ budget[t] > 0 /\ Returned("tx")
  /\ owner' = [owner EXCEPT !["tx"] = t]
  /\ Goto(t, "seal")
  /\ UNCHANGED <<opening, counters, clock, carried, frames>>

LockTx(t) ==
  /\ pc[t] = "ready" /\ budget[t] > 0 /\ Returned("tx")
  /\ Acquire("tx", t)
  /\ Goto(t, "seal")
  /\ UNCHANGED <<opening, counters, clock, carried, frames>>

\* The frame is sealed under the nonce just read.
Seal(t) ==
  /\ pc[t] = "seal" /\ send_nonce < NonceLimit
  /\ hand' = [hand EXCEPT ![t] = [from |-> t, n |-> budget[t], nonce |-> send_nonce]]
  /\ Goto(t, "count")
  /\ UNCHANGED <<owner, opening, counters, clock, scan, budget, frames>>

\* NonceExhausted: the guard is dropped on the way out and the caller gives up.
Exhausted(t) ==
  /\ pc[t] = "seal" /\ send_nonce >= NonceLimit
  /\ Release("tx")
  /\ budget' = [budget EXCEPT ![t] = 0]
  /\ Goto(t, "ready")
  /\ UNCHANGED <<opening, counters, clock, hand, scan, frames>>

\* Mutant: the list is consulted (session_count) under the session lock.
CountUnderList(t) ==
  /\ pc[t] = "count" /\ owner["list"] = "free"
  /\ send_nonce' = send_nonce + 1
  /\ Touch("tx")
  /\ Release("tx")
  /\ sealed' = Append(sealed, hand[t])
  /\ Goto(t, "transmit")
  /\ UNCHANGED <<opening, recv_nonce, clock, carried, wire, attempts, got>>

Count(t) ==
  /\ pc[t] = "count"
  /\ send_nonce' = send_nonce + 1
  /\ Touch("tx")
  /\ Release("tx")
  /\ sealed' = Append(sealed, hand[t])
  /\ Goto(t, "transmit")
  /\ UNCHANGED <<opening, recv_nonce, clock, carried, wire, attempts, got>>

\* The frame is the caller's by now, and no lock is held.
Transmit(t) ==
  /\ pc[t] = "transmit"
  /\ wire' = Append(wire, hand[t])
  /\ budget' = [budget EXCEPT ![t] = @ - 1]
  /\ Goto(t, "ready")
  /\ UNCHANGED <<owner, opening, counters, clock, hand, scan, sealed, attempts, got>>

-----------------------------------------------------------------------------
(* A frame is taken off the wire, then decrypt_frame is called on it.      *)

Take(t) ==
  /\ pc[t] = "ready" /\ wire # <<>> /\ Returned("rx")
  /\ hand' = [hand EXCEPT ![t] = Head(wire)]
  /\ wire' = Tail(wire)
  /\ Goto(t, "open")
  /\ UNCHANGED <<owner, opening, counters, clock, scan, budget, sealed, attempts, got>>

\* Mutant: the receive counter stops one short of the limit.
OpenStopsEarly(t) ==
  /\ pc[t] = "open"
  /\ attempts' = Append(attempts, hand[t])
  /\ IF recv_nonce + 1 < NonceLimit /\ hand[t].nonce = recv_nonce
     THEN /\ recv_nonce' = recv_nonce + 1
          /\ Touch("rx")
          /\ got' = Append(got, hand[t])
     ELSE UNCHANGED <<recv_nonce, last_activity, got>>
  /\ Goto(t, "ready")
  /\ UNCHANGED <<owner, opening, send_nonce, clock, carried, wire, sealed>>

\* Mutant: any later nonce opens.
OpenAnyNonce(t) ==
  /\ pc[t] = "open"
  /\ attempts' = Append(attempts, hand[t])
  /\ IF recv_nonce < NonceLimit /\ hand[t].nonce >= recv_nonce
     THEN /\ recv_nonce' = recv_nonce + 1
          /\ Touch("rx")
          /\ got' = Append(got, hand[t])
     ELSE UNCHANGED <<recv_nonce, last_activity, got>>
  /\ Goto(t, "ready")
  /\ UNCHANGED <<owner, opening, send_nonce, clock, carried, wire, sealed>>

\* A failed opening, or an exhausted counter, leaves the session as it was.
Open(t) ==
  /\ pc[t] = "open"
  /\ attempts' = Append(attempts, hand[t])
  /\ IF recv_nonce < NonceLimit /\ hand[t].nonce = recv_nonce
     THEN /\ recv_nonce' = recv_nonce + 1
          /\ Touch("rx")
          /\ got' = Append(got, hand[t])
     ELSE UNCHANGED <<recv_nonce, last_activity, got>>
  /\ Goto(t, "ready")
  /\ UNCHANGED <<owner, opening, send_nonce, clock, carried, wire, sealed>>

-----------------------------------------------------------------------------
(* cleanup_expired: the list lock is held from the first step to the last. *)

LockList(c) ==
  /\ pc[c] = "ready" /\ budget[c] > 0
  /\ Acquire("list", c)
  /\ scan' = [scan EXCEPT ![c] = [at |-> 1, low |-> clock]]
  /\ budget' = [budget EXCEPT ![c] = @ - 1]
  /\ Goto(c, "scan")
  /\ UNCHANGED <<opening, counters, clock, hand, frames>>

is_expired(h) == clock > last_activity[h] + Timeout

\* Nobody holds the lock of session h across a step, unless h is "tx".
Unlocked(h) == h # "tx" \/ owner["tx"] = "free"

\* Mutant: the position moves on after a removal too.
CheckSkips(c) ==
  /\ pc[c] = "scan" /\ scan[c].at <= Len(sessions)
  /\ LET h == sessions[scan[c].at]
     IN  /\ Unlocked(h)
         /\ sessions' = IF is_expired(h) THEN RemoveAt(sessions, scan[c].at) ELSE sessions
         /\ scan' = [scan EXCEPT ![c].at = @ + 1]
  /\ UNCHANGED <<pc, owner, todo, counters, clock, hand, budget, frames>>

\* retain: one session is locked, looked at and kept or removed.
Check(c) ==
  /\ pc[c] = "scan" /\ scan[c].at <= Len(sessions)
  /\ LET h == sessions[scan[c].at]
     IN  /\ Unlocked(h)
         /\ IF is_expired(h)
            THEN sessions' = RemoveAt(sessions, scan[c].at) /\ UNCHANGED scan
            ELSE scan' = [scan EXCEPT ![c].at = @ + 1] /\ UNCHANGED sessions
  /\ UNCHANGED <<pc, owner, todo, counters, clock, hand, budget, frames>>

UnlockList(c) ==
  /\ pc[c] = "scan" /\ scan[c].at > Len(sessions)
  /\ Release("list")
  /\ Goto(c, "ready")
  /\ UNCHANGED <<opening, counters, clock, carried, frames>>

\* The wall clock: now_ns reads SystemTime, which may be set back as well as run on.
SetClock(t) ==
  /\ clock' = t
  /\ scan' = [c \in Cleaners |->
       IF pc[c] = "scan" /\ t < scan[c].low THEN [scan[c] EXCEPT !.low = t] ELSE scan[c]]
  /\ UNCHANGED <<pc, owner, opening, counters, hand, budget, frames>>

-----------------------------------------------------------------------------
OpenerStep(o)   == Create(o) \/ Push(o)
SenderStep(t)   == LockTx(t) \/ Seal(t) \/ Exhausted(t) \/ Count(t) \/ Transmit(t)
ReceiverStep(t) == Take(t) \/ Open(t)
CleanerStep(c)  == LockList(c) \/ Check(c) \/ UnlockList(c)

Next ==
  \/ \E o \in OpenerThreads : OpenerStep(o)
  \/ \E t \in Senders : SenderStep(t)
  \/ \E t \in Receivers : ReceiverStep(t)
  \/ \E c \in Cleaners : CleanerStep(c)
  \/ \E t \in 0..Now : SetClock(t)

\* Threads are scheduled.  A std Mutex promises no fairness, and none is assumed:
\* a thread waiting for a lock moves on only because the others run out of work.
Fairness ==
  /\ \A o \in OpenerThreads : WF_vars(OpenerStep(o))
  /\ \A t \in Senders : WF_vars(SenderStep(t))
  /\ \A t \in Receivers : WF_vars(ReceiverStep(t))
  /\ \A c \in Cleaners : WF_vars(CleanerStep(c))

Spec == Init /\ [][Next]_vars /\ Fairness

-----------------------------------------------------------------------------
(* Properties.                                                             *)

\* The session lock makes reading and counting the nonce one thing: whichever
\* threads seal, the i-th frame sealed carries nonce i - 1, so no nonce is used twice.
NoncesUnique == \A i \in 1..Len(sealed) : sealed[i].nonce = i - 1

\* Between the session lock and the wire another sender may overtake, and so may
\* another receiver before decrypt_frame; then frames are lost for good.  Nothing
\* else loses one: if openings were tried in sealing order, all of them succeeded.
OnlyOvertakingLoses ==
  IsPrefix(attempts, sealed) => got = attempts

\* cleanup_expired is not one atomic look at the list, and the clock may be set back
\* before it comes to a session, which may save that session.  But it misses nothing: what
\* was expired by every reading of the clock during the call is gone at its end.
CleanupComplete ==
  [][\A c \in Cleaners : pc[c] = "scan" /\ pc'[c] = "ready" =>
       \A h \in ToSet(sessions') : scan[c].low <= last_activity[h] + Timeout]_vars

Finished ==
  /\ \A o \in OpenerThreads : todo[o] = <<>>
  /\ \A t \in Senders \cup Cleaners : pc[t] = "ready" /\ budget[t] = 0
  /\ \A t \in Receivers : pc[t] = "ready"
  /\ wire = <<>>

\* Session locks are taken under the list lock and never the other way round: every
\* call returns, and every frame transmitted is taken.
AllFinish == <>[]Finished

\* Under any interleaving the pair keeps the transport's promise.
Plain(seq) == [i \in 1..Len(seq) |-> [from |-> seq[i].from, n |-> seq[i].n]]

Channel == INSTANCE SecureChannel WITH
  Ends     <- Handles,
  Channels <- Openers \cup {"pair"},
  Messages <- [from: Senders, n: 1..Quota],
  end      <- [h \in DOMAIN last_activity |->
                 CASE h = "tx" -> [chan |-> "pair", side |-> "SEND"]
                   [] h = "rx" -> [chan |-> "pair", side |-> "RECV"]
                   [] OTHER    -> [chan |-> h, side |-> "SEND"]],
  said     <- [h \in DOMAIN last_activity |-> IF h = "tx" THEN Plain(sealed) ELSE <<>>],
  heard    <- [h \in DOMAIN last_activity |-> IF h = "rx" THEN Plain(got) ELSE <<>>]

ImplementsChannel == Channel!Spec
=============================================================================
