-------------------------- MODULE EdgeAgentProofs --------------------------
(***************************************************************************)
(* Proofs about EdgeAgent, for any measurements, frame sizes, buffer caps  *)
(* and monitoring threads: the mode and the stored measurement never drift *)
(* apart, and with that every frame goes where the measurement says.       *)
(***************************************************************************)
EXTENDS EdgeAgent, FiniteSetTheorems, WellFoundedInduction, TLAPS

\* The types the proofs need.  The buffer is left out: routing never reads it.
AgentTypes ==
  /\ mode \in Modes
  /\ network_quality \in Quality
  /\ frame_counter \in Nat
  /\ stats \in Stats

\* The cloud was given ids that were handed out, so the next id is new to it.
CloudIdsOld == cloud \subseteq 1..frame_counter /\ IsFiniteSet(cloud)

IndInv == AgentTypes /\ ModeMatchesQuality /\ CloudIdsOld /\ StatsAddUp

-----------------------------------------------------------------------------
\* Between calls the mode is a settled one.
LEMMA SettledMode ==
  ASSUME ModeMatchesQuality
  PROVE  mode \in {"Online", "Degraded", "Offline"}
BY DEF ModeMatchesQuality, determine_mode

\* A frame goes to the cloud exactly when the stored measurement is not offline, and
\* to local inference otherwise: it is never merely buffered.
LEMMA RouteByQuality ==
  ASSUME ModeMatchesQuality
  PROVE  Route = IF is_offline(network_quality) THEN "local" ELSE "cloud"
<1>1. CASE is_offline(network_quality)
  BY <1>1 DEF ModeMatchesQuality, determine_mode, Route
<1>2. CASE ~is_offline(network_quality)
  BY <1>2 DEF ModeMatchesQuality, determine_mode, Route, can_reach_cloud
<1>. QED
  BY <1>1, <1>2

\* A measurement changes mode and quality together, and counters only by a transition.
LEMMA UpdateEffect ==
  ASSUME AgentTypes, NEW q \in Qualities, update_network_quality(q)
  PROVE  /\ network_quality' = q /\ mode' = determine_mode(q)
         /\ stats' \in Stats
         /\ stats'.frames_processed = stats.frames_processed
         /\ stats'.cloud_offloads = stats.cloud_offloads
         /\ stats'.local_inferences = stats.local_inferences
         /\ UNCHANGED <<frame_counter, cloud>>
<1>1. CASE determine_mode(q) # mode
  BY <1>1 DEF update_network_quality, transition_mode, AgentTypes, Stats
<1>2. CASE determine_mode(q) = mode
  BY <1>2 DEF update_network_quality, AgentTypes
<1>. QED
  BY <1>1, <1>2

\* A frame gets the next id, is counted once, and reaches one place.
LEMMA ProcessEffect ==
  ASSUME AgentTypes, ModeMatchesQuality, NEW size \in Sizes, process_frame(size)
  PROVE  /\ frame_counter' = frame_counter + 1
         /\ stats' \in Stats
         /\ stats'.frames_processed = stats.frames_processed + 1
         /\ IF is_offline(network_quality)
            THEN /\ cloud' = cloud
                 /\ stats'.cloud_offloads = stats.cloud_offloads
                 /\ stats'.local_inferences = stats.local_inferences + 1
            ELSE /\ cloud' = cloud \cup {frame_counter + 1}
                 /\ stats'.cloud_offloads = stats.cloud_offloads + 1
                 /\ stats'.local_inferences = stats.local_inferences
         /\ UNCHANGED <<mode, network_quality>>
<1>1. /\ frame_counter' = frame_counter + 1
      /\ cloud' = IF Route = "cloud" THEN cloud \cup {frame_counter + 1} ELSE cloud
      /\ UNCHANGED <<mode, network_quality>>
  BY DEF process_frame
<1>2. /\ stats' \in Stats
      /\ stats'.frames_processed = stats.frames_processed + 1
      /\ stats'.cloud_offloads
           = IF Route = "cloud" THEN stats.cloud_offloads + 1 ELSE stats.cloud_offloads
      /\ stats'.local_inferences
           = IF Route = "local" THEN stats.local_inferences + 1 ELSE stats.local_inferences
  <2>. DEFINE offloads == IF Route = "cloud" THEN stats.cloud_offloads + 1
                                             ELSE stats.cloud_offloads
              locals   == IF Route = "local" THEN stats.local_inferences + 1
                                             ELSE stats.local_inferences
  <2>1. stats' = [stats EXCEPT !.frames_processed = stats.frames_processed + 1,
                               !.cloud_offloads = offloads, !.local_inferences = locals]
    BY DEF process_frame
  <2>2. stats \in Stats /\ offloads \in Nat /\ locals \in Nat
    BY DEF AgentTypes, Stats
  <2>. HIDE DEF offloads, locals
  <2>3. stats' = [frames_processed |-> stats.frames_processed + 1,
                  cloud_offloads   |-> offloads,
                  local_inferences |-> locals,
                  mode_transitions |-> stats.mode_transitions,
                  probe_count      |-> stats.probe_count]
    BY <2>1, <2>2 DEF Stats
  <2>4. /\ stats.frames_processed + 1 \in Nat
        /\ stats.mode_transitions \in Nat /\ stats.probe_count \in Nat
    BY <2>2 DEF Stats
  <2>5. /\ stats' \in Stats
        /\ stats'.frames_processed = stats.frames_processed + 1
        /\ stats'.cloud_offloads = offloads
        /\ stats'.local_inferences = locals
    BY <2>2, <2>3, <2>4 DEF Stats
  <2>. QED
    BY <2>5 DEF offloads, locals
<1>. QED
  BY <1>1, <1>2, RouteByQuality

-----------------------------------------------------------------------------
\* The agent starts Online under a perfect measurement with nothing counted.
LEMMA InitInd == Init => IndInv
<1>. SUFFICES ASSUME Init PROVE IndInv
  OBVIOUS
<1>1. AgentTypes /\ ModeMatchesQuality
  BY DEF Init, AgentTypes, Modes, Perfect, Quality, Stats, ModeMatchesQuality,
         determine_mode, is_offline, is_degraded
<1>2. IsFiniteSet({}) /\ Cardinality({}) = 0
  BY FS_EmptySet
<1>3. CloudIdsOld /\ StatsAddUp
  BY <1>2 DEF Init, CloudIdsOld, StatsAddUp
<1>. QED
  BY <1>1, <1>3 DEF IndInv

\* Every step preserves the invariant.
LEMMA NextInd == IndInv /\ [Next]_vars => IndInv'
<1>. SUFFICES ASSUME IndInv, [Next]_vars PROVE IndInv'
  OBVIOUS
<1>0. AgentTypes /\ ModeMatchesQuality
  BY DEF IndInv
<1>1. ASSUME NEW q \in Qualities, update_network_quality(q) PROVE IndInv'
  <2>e. /\ network_quality' = q /\ mode' = determine_mode(q)
        /\ stats' \in Stats
        /\ stats'.frames_processed = stats.frames_processed
        /\ stats'.cloud_offloads = stats.cloud_offloads
        /\ stats'.local_inferences = stats.local_inferences
        /\ UNCHANGED <<frame_counter, cloud>>
    BY <1>0, <1>1, UpdateEffect
  <2>1. ModeMatchesQuality'
    BY <2>e DEF ModeMatchesQuality, determine_mode, is_offline, is_degraded
  <2>2. AgentTypes'
    BY <1>0, <2>e, InputsAssumption DEF AgentTypes, determine_mode, Modes
  <2>3. CloudIdsOld' /\ StatsAddUp'
    BY <2>e DEF IndInv, CloudIdsOld, StatsAddUp
  <2>. QED
    BY <2>1, <2>2, <2>3 DEF IndInv
<1>2. ASSUME NEW size \in Sizes, process_frame(size) PROVE IndInv'
  <2>e. /\ frame_counter' = frame_counter + 1
        /\ stats' \in Stats
        /\ stats'.frames_processed = stats.frames_processed + 1
        /\ IF is_offline(network_quality)
           THEN /\ cloud' = cloud
                /\ stats'.cloud_offloads = stats.cloud_offloads
                /\ stats'.local_inferences = stats.local_inferences + 1
           ELSE /\ cloud' = cloud \cup {frame_counter + 1}
                /\ stats'.cloud_offloads = stats.cloud_offloads + 1
                /\ stats'.local_inferences = stats.local_inferences
        /\ UNCHANGED <<mode, network_quality>>
    BY <1>0, <1>2, ProcessEffect
  <2>1. ModeMatchesQuality'
    BY <1>0, <2>e DEF ModeMatchesQuality
  <2>2. AgentTypes'
    BY <1>0, <2>e DEF AgentTypes
  <2>3. cloud \subseteq 1..frame_counter /\ IsFiniteSet(cloud) /\ frame_counter \in Nat
    BY DEF IndInv, CloudIdsOld, AgentTypes
  <2>4. CloudIdsOld' /\ Cardinality(cloud') = stats'.cloud_offloads
    <3>0. Cardinality(cloud) = stats.cloud_offloads
      BY DEF IndInv, StatsAddUp
    <3>1. CASE is_offline(network_quality)
      <4>1. cloud' = cloud /\ stats'.cloud_offloads = stats.cloud_offloads
        BY <2>e, <3>1
      <4>2. cloud \subseteq 1..(frame_counter + 1)
        BY <2>3
      <4>. QED
        BY <2>3, <2>e, <3>0, <4>1, <4>2 DEF CloudIdsOld
    <3>2. CASE ~is_offline(network_quality)
      <4>1. frame_counter + 1 \notin cloud
        BY <2>3
      <4>2. /\ IsFiniteSet(cloud \cup {frame_counter + 1})
            /\ Cardinality(cloud \cup {frame_counter + 1}) = Cardinality(cloud) + 1
        BY <2>3, <4>1, FS_AddElement
      <4>3. /\ cloud' = cloud \cup {frame_counter + 1}
            /\ stats'.cloud_offloads = stats.cloud_offloads + 1
        BY <2>e, <3>2
      <4>4. cloud \cup {frame_counter + 1} \subseteq 1..(frame_counter + 1)
        BY <2>3
      <4>. QED
        BY <2>e, <3>0, <4>2, <4>3, <4>4 DEF CloudIdsOld
    <3>. QED
      BY <3>1, <3>2
  <2>5. StatsAddUp'
    <3>1. /\ stats.frames_processed = frame_counter
          /\ stats.frames_processed = stats.cloud_offloads + stats.local_inferences
          /\ stats.cloud_offloads \in Nat /\ stats.local_inferences \in Nat
      BY DEF IndInv, StatsAddUp, AgentTypes, Stats
    <3>2. stats'.frames_processed = stats'.cloud_offloads + stats'.local_inferences
      BY <2>e, <3>1
    <3>. QED
      BY <2>4, <2>e, <3>1, <3>2 DEF StatsAddUp
  <2>. QED
    BY <2>1, <2>2, <2>4, <2>5 DEF IndInv
<1>3. CASE probe_network_quality
  <2>1. /\ stats' = [stats EXCEPT !.probe_count = stats.probe_count + 1]
        /\ UNCHANGED <<mode, network_quality, frame_counter, cloud>>
    BY <1>3 DEF probe_network_quality
  <2>2. /\ stats' \in Stats
        /\ stats'.frames_processed = stats.frames_processed
        /\ stats'.cloud_offloads = stats.cloud_offloads
        /\ stats'.local_inferences = stats.local_inferences
    BY <1>0, <2>1 DEF AgentTypes, Stats
  <2>3. ModeMatchesQuality'
    BY <2>1 DEF IndInv, ModeMatchesQuality, determine_mode, is_offline, is_degraded
  <2>. QED
    BY <2>1, <2>2, <2>3 DEF IndInv, AgentTypes, CloudIdsOld, StatsAddUp
<1>4. ASSUME UNCHANGED agent PROVE IndInv'
  BY <1>4 DEF agent, IndInv, AgentTypes, ModeMatchesQuality, CloudIdsOld, StatsAddUp
<1>. QED
  BY <1>1, <1>2, <1>3, <1>4 DEF Next, vars, start_monitoring, MonitorStep, store_running,
     stop

\* The strengthened invariant holds in every reachable state.
LEMMA IndCorrect == Spec => []IndInv
BY InitInd, NextInd, PTL DEF Spec

-----------------------------------------------------------------------------
\* Between calls of update_network_quality and process_frame the mode is the one
\* determine_mode gives for the stored measurement.
THEOREM ModeFollowsQuality == Spec => []ModeMatchesQuality
<1>1. IndInv => ModeMatchesQuality
  BY DEF IndInv
<1>. QED
  BY <1>1, IndCorrect, PTL

\* Every frame process_frame counts was counted for one destination, and the cloud
\* was given as many frames as its counter says.
THEOREM CountersAgree == Spec => []StatsAddUp
<1>1. IndInv => StatsAddUp
  BY DEF IndInv
<1>. QED
  BY <1>1, IndCorrect, PTL

\* process_frame sends a frame to the cloud exactly when the last measurement given
\* to update_network_quality was not offline.
THEOREM Offloading == Spec => OffloadedWhenReachable
<1>1. IndInv /\ [Next]_vars =>
        [frame_counter' # frame_counter =>
           (frame_counter' \in cloud' <=> ~is_offline(network_quality))]_vars
  <2>. SUFFICES ASSUME IndInv, Next, frame_counter' # frame_counter
                PROVE  frame_counter' \in cloud' <=> ~is_offline(network_quality)
    BY DEF vars, agent
  <2>0. AgentTypes /\ ModeMatchesQuality
    BY DEF IndInv
  <2>1. PICK size \in Sizes : process_frame(size)
    BY <2>0, UpdateEffect DEF Next, probe_network_quality, start_monitoring, MonitorStep,
       store_running, stop, agent
  <2>2. frame_counter + 1 \notin cloud
    BY DEF IndInv, CloudIdsOld, AgentTypes
  <2>. QED
    BY <2>0, <2>1, <2>2, ProcessEffect
<1>. QED
  BY <1>1, IndCorrect, PTL DEF Spec, OffloadedWhenReachable

\* determine_mode is monotone: is_offline and is_degraded only test upwards.
LEMMA SeverityMonotone ==
  ASSUME NEW q \in Quality, NEW r \in Quality, Worse(r, q)
  PROVE  Severity[determine_mode(r)] >= Severity[determine_mode(q)]
<1>1. /\ is_offline(q) => is_offline(r)
      /\ is_degraded(q) => is_degraded(r)
  BY DEF Worse, is_offline, is_degraded, Quality
<1>. QED
  BY <1>1 DEF determine_mode, Severity

\* Whatever the thresholds' neighbours, a measurement at least as bad as the stored
\* one never lowers the severity of the mode.
THEOREM NeverMilder == Spec => WorseNetworkNeverMilder
<1>1. IndInv /\ IndInv' =>
        (Worse(network_quality', network_quality) => Severity[mode'] >= Severity[mode])
  <2>. SUFFICES ASSUME IndInv, IndInv', Worse(network_quality', network_quality)
                PROVE  Severity[mode'] >= Severity[mode]
    OBVIOUS
  <2>1. network_quality \in Quality /\ network_quality' \in Quality
    BY DEF IndInv, AgentTypes
  <2>2. /\ mode = determine_mode(network_quality)
        /\ mode' = determine_mode(network_quality')
    BY DEF IndInv, ModeMatchesQuality, determine_mode, is_offline, is_degraded
  <2>. QED
    BY <2>1, <2>2, SeverityMonotone
<1>2. IndInv /\ [Next]_vars =>
        [Worse(network_quality', network_quality) => Severity[mode'] >= Severity[mode]]_vars
  BY <1>1, NextInd
<1>. QED
  BY <1>2, IndCorrect, PTL DEF Spec, WorseNetworkNeverMilder

-----------------------------------------------------------------------------
(* Byte counts.  Bytes is a recursive function: what it computes is found  *)
(* by induction, here on a set of numbers, which is first-order.           *)

\* The least-number principle, for a set.
LEMMA Least ==
  ASSUME NEW T \in SUBSET Nat, T # {}
  PROVE  \E x \in T : \A y \in T : x <= y
<1>. DEFINE R == OpToRel(<, Nat)
<1>1. IsWellFoundedOn(R, Nat)
  BY NatLessThanWellFounded
<1>2. \A x, y \in Nat : x < y => <<x, y>> \in R
  BY DEF OpToRel
<1>. HIDE DEF R
<1>3. PICK x \in T : \A y \in T : ~ (<<y, x>> \in R)
  BY <1>1, WFMin
<1>4. ASSUME NEW y \in T PROVE x <= y
  <2>1. x \in Nat /\ y \in Nat /\ ~ (y < x)
    BY <1>2, <1>3
  <2>. QED
    BY <2>1
<1>. QED
  BY <1>4

LEMMA Inductively ==
  ASSUME NEW S, 0 \in S, \A n \in Nat : n \in S => n + 1 \in S
  PROVE  Nat \subseteq S
<1>. SUFFICES ASSUME Nat \ S # {} PROVE FALSE
  OBVIOUS
<1>1. PICK m \in Nat \ S : \A y \in Nat \ S : m <= y
  BY Least
<1>2. m - 1 \in Nat /\ m - 1 < m /\ (m - 1) + 1 = m
  BY <1>1
<1>. QED
  BY <1>1, <1>2

\* A running sum of the sizes of s.
Sums(s, h) ==
  /\ h \in [0..Len(s) -> Int]
  /\ h[0] = 0
  /\ \A i \in 1..Len(s) : h[i] = h[i - 1] + s[i].size

Sized == [id: Nat, size: Nat]

LEMMA SumsExist ==
  ASSUME NEW s \in Seq(Sized)
  PROVE  \E h : Sums(s, h)
<1>. DEFINE Upto(n, h) == /\ h \in [0..n -> Int] /\ h[0] = 0
                          /\ \A i \in 1..n : i <= Len(s) => h[i] = h[i - 1] + s[i].size
            S == {n \in Nat : \E h : Upto(n, h)}
<1>1. 0 \in S
  <2>1. Upto(0, [i \in 0..0 |-> 0])
    OBVIOUS
  <2>. QED
    BY <2>1
<1>2. ASSUME NEW n \in Nat, n \in S PROVE n + 1 \in S
  <2>1. PICK h : Upto(n, h)
    BY <1>2
  <2>. DEFINE g == [i \in 0..(n + 1) |-> IF i <= n THEN h[i]
                       ELSE IF n + 1 <= Len(s) THEN h[n] + s[n + 1].size ELSE 0]
  <2>2. g \in [0..(n + 1) -> Int] /\ g[0] = 0
    <3>1. ASSUME n + 1 <= Len(s) PROVE s[n + 1].size \in Nat
      <4>1. s[n + 1] \in Sized
        BY <3>1
      <4>. QED
        BY <4>1 DEF Sized
    <3>. QED
      BY <2>1, <3>1
  <2>3. ASSUME NEW i \in 1..(n + 1), i <= Len(s) PROVE g[i] = g[i - 1] + s[i].size
    <3>1. CASE i <= n
      BY <2>1, <2>3, <3>1
    <3>2. CASE i = n + 1
      BY <2>1, <2>3, <3>2
    <3>. QED
      BY <3>1, <3>2
  <2>4. Upto(n + 1, g)
    BY <2>2, <2>3
  <2>. HIDE DEF g, Upto
  <2>. QED
    BY <2>4
<1>. HIDE DEF S
<1>3. Nat \subseteq S
  BY <1>1, <1>2, Inductively
<1>4. Len(s) \in S
  BY <1>3
<1>5. PICK h : Upto(Len(s), h)
  BY <1>4 DEF S
<1>6. Sums(s, h)
  BY <1>5 DEF Sums
<1>. QED
  BY <1>6

LEMMA SumsUnique ==
  ASSUME NEW s \in Seq(Sized), NEW h, NEW g, Sums(s, h), Sums(s, g)
  PROVE  h = g
<1>. DEFINE S == {n \in Nat : n <= Len(s) => h[n] = g[n]}
<1>1. 0 \in S
  BY DEF Sums
<1>2. ASSUME NEW n \in Nat, n \in S PROVE n + 1 \in S
  <2>1. CASE n + 1 <= Len(s)
    <3>1. n + 1 \in 1..Len(s) /\ (n + 1) - 1 = n /\ h[n] = g[n]
      BY <1>2, <2>1
    <3>. QED
      BY <3>1 DEF Sums
  <2>. QED
    BY <2>1
<1>. HIDE DEF S
<1>3. Nat \subseteq S
  BY <1>1, <1>2, Inductively
<1>4. \A n \in 0..Len(s) : h[n] = g[n]
  BY <1>3 DEF S
<1>. QED
  BY <1>4 DEF Sums

LEMMA BytesIs ==
  ASSUME NEW s \in Seq(Sized), NEW h, Sums(s, h)
  PROVE  Bytes(s) = h[Len(s)]
<1>. DEFINE Eq(g) == g = [n \in 0..Len(s) |-> IF n = 0 THEN 0 ELSE g[n - 1] + s[n].size]
            sum == CHOOSE g : Eq(g)
<1>1. Eq(h)
  <2>1. ASSUME NEW n \in 0..Len(s)
        PROVE  h[n] = IF n = 0 THEN 0 ELSE h[n - 1] + s[n].size
    BY DEF Sums
  <2>. QED
    BY <2>1 DEF Sums
<1>2. Eq(sum)
  BY <1>1
<1>3. Bytes(s) = sum[Len(s)]
  BY DEF Bytes
<1>. HIDE DEF sum
<1>4. sum[0] = 0 /\ \A i \in 1..Len(s) : sum[i] = sum[i - 1] + s[i].size
  BY <1>2
<1>. DEFINE S == {n \in Nat : n <= Len(s) => sum[n] = h[n]}
<1>5. 0 \in S
  BY <1>4 DEF Sums
<1>6. ASSUME NEW n \in Nat, n \in S PROVE n + 1 \in S
  <2>1. CASE n + 1 <= Len(s)
    <3>1. n + 1 \in 1..Len(s) /\ (n + 1) - 1 = n /\ sum[n] = h[n]
      BY <1>6, <2>1
    <3>. QED
      BY <3>1, <1>4 DEF Sums
  <2>. QED
    BY <2>1
<1>. HIDE DEF S
<1>7. Nat \subseteq S
  BY <1>5, <1>6, Inductively
<1>8. sum[Len(s)] = h[Len(s)]
  BY <1>7 DEF S
<1>. QED
  BY <1>3, <1>8

LEMMA SumsGrow ==
  ASSUME NEW s \in Seq(Sized), NEW h, Sums(s, h), NEW i \in 0..Len(s)
  PROVE  \A j \in i..Len(s) : h[i] <= h[j]
<1>. DEFINE S == {n \in Nat : i + n <= Len(s) => h[i] <= h[i + n]}
<1>1. \A j \in 0..Len(s) : h[j] \in Int
  BY DEF Sums
<1>2. 0 \in S
  BY <1>1
<1>3. ASSUME NEW n \in Nat, n \in S PROVE n + 1 \in S
  <2>1. CASE i + n + 1 <= Len(s)
    <3>1. /\ i + n + 1 \in 1..Len(s) /\ (i + n + 1) - 1 = i + n /\ i + n \in 0..Len(s)
          /\ h[i] <= h[i + n]
      BY <1>3, <2>1
    <3>2. s[i + n + 1] \in Sized
      BY <3>1
    <3>3. s[i + n + 1].size \in Nat
      BY <3>2 DEF Sized
    <3>4. h[i + n + 1] = h[i + n] + s[i + n + 1].size
      BY <3>1 DEF Sums
    <3>5. h[i] <= h[i + n + 1]
      BY <1>1, <3>1, <3>3, <3>4
    <3>. QED
      BY <3>5
  <2>. QED
    BY <2>1
<1>. HIDE DEF S
<1>4. Nat \subseteq S
  BY <1>2, <1>3, Inductively
<1>5. ASSUME NEW j \in i..Len(s) PROVE h[i] <= h[j]
  <2>1. j - i \in S /\ i + (j - i) = j
    BY <1>4
  <2>. QED
    BY <2>1 DEF S
<1>. QED
  BY <1>5

\* The bytes of what is left and of what is taken, in terms of the running sum.
LEMMA BytesParts ==
  ASSUME NEW s \in Seq(Sized), NEW h, Sums(s, h), NEW k \in 0..Len(s)
  PROVE  /\ Bytes(SubSeq(s, 1, k)) = h[k]
         /\ Bytes(SubSeq(s, k + 1, Len(s))) = h[Len(s)] - h[k]
<1>. DEFINE first == SubSeq(s, 1, k)
            rest  == SubSeq(s, k + 1, Len(s))
<1>1. first \in Seq(Sized) /\ Len(first) = k /\ \A i \in 1..k : first[i] = s[i]
  OBVIOUS
<1>2. /\ rest \in Seq(Sized) /\ Len(rest) = Len(s) - k
      /\ \A i \in 1..(Len(s) - k) : rest[i] = s[k + i]
  OBVIOUS
<1>. HIDE DEF first, rest
<1>3. \A i \in 0..Len(s) : h[i] \in Int
  BY DEF Sums
<1>4. Bytes(first) = h[k]
  <2>. DEFINE g == [i \in 0..k |-> h[i]]
  <2>1. Sums(first, g)
    <3>1. g \in [0..Len(first) -> Int] /\ g[0] = 0
      BY <1>1, <1>3 DEF Sums
    <3>2. ASSUME NEW i \in 1..Len(first) PROVE g[i] = g[i - 1] + first[i].size
      <4>1. i \in 1..Len(s) /\ i \in 0..k /\ i - 1 \in 0..k /\ first[i] = s[i]
        BY <1>1
      <4>2. h[i] = h[i - 1] + s[i].size
        BY <4>1 DEF Sums
      <4>. QED
        BY <4>1, <4>2
    <3>. QED
      BY <3>1, <3>2 DEF Sums
  <2>2. g[Len(first)] = h[k]
    BY <1>1
  <2>. HIDE DEF g
  <2>. QED
    BY <1>1, <2>1, <2>2, BytesIs
<1>5. Bytes(rest) = h[Len(s)] - h[k]
  <2>. DEFINE g == [i \in 0..(Len(s) - k) |-> h[k + i] - h[k]]
  <2>1. g \in [0..Len(rest) -> Int] /\ g[0] = 0
    BY <1>2, <1>3
  <2>2. ASSUME NEW i \in 1..Len(rest) PROVE g[i] = g[i - 1] + rest[i].size
    <3>1. k + i \in 1..Len(s) /\ (k + i) - 1 = k + (i - 1) /\ i - 1 \in 0..(Len(s) - k)
      <4>1. Len(s) \in Nat /\ k \in 0..Len(s) /\ i \in 1..(Len(s) - k)
        BY <1>2
      <4>. QED
        BY <4>1
    <3>2. h[k + i] = h[k + (i - 1)] + s[k + i].size
      BY <3>1 DEF Sums
    <3>3. rest[i] = s[k + i]
      BY <1>2
    <3>4. s[k + i] \in Sized
      BY <3>1
    <3>5. s[k + i].size \in Nat
      BY <3>4 DEF Sized
    <3>6. h[k + i] \in Int /\ h[k + (i - 1)] \in Int /\ h[k] \in Int
      BY <1>3, <3>1
    <3>7. g[i] = h[k + i] - h[k] /\ g[i - 1] = h[k + (i - 1)] - h[k]
      BY <1>2, <3>1
    <3>8. h[k + i] - h[k] = (h[k + (i - 1)] - h[k]) + s[k + i].size
      BY <3>2, <3>5, <3>6
    <3>. QED
      BY <3>3, <3>7, <3>8, Zenon
  <2>3. g[Len(rest)] = h[Len(s)] - h[k]
    BY <1>2
  <2>. HIDE DEF g
  <2>4. Sums(rest, g)
    BY <2>1, <2>2 DEF Sums
  <2>. QED
    BY <1>2, <2>3, <2>4, BytesIs
<1>. QED
  BY <1>4, <1>5 DEF first, rest

LEMMA BytesAppend ==
  ASSUME NEW s \in Seq(Sized), NEW f \in Sized
  PROVE  Bytes(Append(s, f)) = Bytes(s) + f.size
<1>. DEFINE t == Append(s, f)
<1>1. /\ t \in Seq(Sized) /\ Len(t) = Len(s) + 1 /\ t[Len(s) + 1] = f
      /\ \A i \in 1..Len(s) : t[i] = s[i]
  OBVIOUS
<1>. HIDE DEF t
<1>2. PICK h : Sums(s, h)
  BY SumsExist
<1>. DEFINE g == [i \in 0..(Len(s) + 1) |-> IF i <= Len(s) THEN h[i] ELSE h[Len(s)] + f.size]
<1>3. g \in [0..Len(t) -> Int] /\ g[0] = 0
  <2>1. f.size \in Nat
    BY DEF Sized
  <2>2. \A i \in 0..Len(s) : h[i] \in Int
    BY <1>2 DEF Sums
  <2>3. g \in [0..(Len(s) + 1) -> Int]
    BY <2>1, <2>2
  <2>. QED
    BY <1>1, <1>2, <2>3 DEF Sums
<1>4. ASSUME NEW i \in 1..Len(t) PROVE g[i] = g[i - 1] + t[i].size
  <2>1. CASE i <= Len(s)
    BY <1>1, <1>2, <2>1 DEF Sums
  <2>2. CASE i = Len(s) + 1
    BY <1>1, <2>2
  <2>. QED
    BY <1>1, <2>1, <2>2
<1>5. g[Len(t)] = h[Len(s)] + f.size
  BY <1>1
<1>. HIDE DEF g
<1>6. Sums(t, g)
  BY <1>3, <1>4 DEF Sums
<1>7. Bytes(t) = g[Len(t)] /\ Bytes(s) = h[Len(s)]
  BY <1>1, <1>2, <1>6, BytesIs
<1>. QED
  BY <1>5, <1>7 DEF t

LEMMA BytesEmpty == Bytes(<<>>) = 0
<1>. DEFINE h == [i \in 0..0 |-> 0]
<1>1. <<>> \in Seq(Sized) /\ Len(<<>>) = 0
  OBVIOUS
<1>2. Sums(<<>>, h) /\ h[0] = 0
  BY <1>1 DEF Sums
<1>. HIDE DEF h
<1>. QED
  BY <1>1, <1>2, BytesIs

-----------------------------------------------------------------------------
(* push.                                                                   *)

\* A buffer that counts its bytes right.
Exact(b) == b.frames \in Seq(Sized) /\ b.total_bytes = Bytes(b.frames)

\* What is left of a buffer is counted right.
LEMMA EvictExact ==
  ASSUME NEW b, Exact(b), NEW h, Sums(b.frames, h), NEW k \in 0..Len(b.frames)
  PROVE  /\ Exact(Evict(b, k))
         /\ Len(Evict(b, k).frames) = Len(b.frames) - k
         /\ \A i \in 1..(Len(b.frames) - k) : Evict(b, k).frames[i] = b.frames[k + i]
         /\ Evict(b, k).total_bytes = h[Len(b.frames)] - h[k]
<1>. DEFINE L == Len(b.frames)
            rest == SubSeq(b.frames, k + 1, L)
<1>1. b.frames \in Seq(Sized) /\ L \in Nat
  BY DEF Exact
<1>2. /\ rest \in Seq(Sized) /\ Len(rest) = L - k
      /\ \A i \in 1..(L - k) : rest[i] = b.frames[k + i]
  BY <1>1
<1>3. /\ b.total_bytes = h[L]
      /\ Bytes(SubSeq(b.frames, 1, k)) = h[k] /\ Bytes(rest) = h[L] - h[k]
  BY <1>1, BytesIs, BytesParts DEF Exact
<1>4. h[k] \in Int /\ h[L] \in Int /\ h[k] <= h[L]
  <2>1. k \in 0..L /\ L \in k..L /\ L \in 0..L
    BY <1>1
  <2>2. h[k] <= h[L]
    BY <1>1, <2>1, SumsGrow
  <2>3. h[k] \in Int /\ h[L] \in Int
    BY <2>1 DEF Sums
  <2>. QED
    BY <2>2, <2>3
<1>5. SaturatingSub(h[L], h[k]) = h[L] - h[k]
  BY <1>4 DEF SaturatingSub
<1>6. Evict(b, k) = [frames |-> rest, total_bytes |-> h[L] - h[k]]
  BY <1>3, <1>5 DEF Evict
<1>. HIDE DEF rest
<1>. QED
  BY <1>2, <1>3, <1>6 DEF Exact

\* The loops stop at the first number of evictions that makes room.
LEMMA EvictionsLeast ==
  ASSUME NEW b, b.frames \in Seq(Sized), NEW f
  PROVE  /\ Evictions(b, f) \in 0..Len(b.frames)
         /\ Evictions(b, f) = Len(b.frames) \/ Fits(Evict(b, Evictions(b, f)), f)
         /\ \A j \in 0..(Evictions(b, f) - 1) : ~Fits(Evict(b, j), f)
<1>. DEFINE L == Len(b.frames)
            Room(k) == k = L \/ Fits(Evict(b, k), f)
            T == {k \in 0..L : Room(k)}
<1>1. L \in Nat
  OBVIOUS
<1>2. L \in T /\ T \in SUBSET Nat
  BY <1>1
<1>3. PICK k \in T : \A y \in T : k <= y
  BY <1>2, Least
<1>4. ASSUME NEW j \in 0..(k - 1) PROVE ~Fits(Evict(b, j), f)
  <2>1. j \in 0..L /\ ~(k <= j)
    BY <1>1, <1>3
  <2>. QED
    BY <2>1, <1>3
<1>5. \E n \in 0..L : Room(n) /\ \A j \in 0..(n - 1) : ~Fits(Evict(b, j), f)
  BY <1>3, <1>4
<1>. QED
  BY <1>5 DEF Evictions

\* What is so after the k oldest frames went and f came, if no fewer would have done.
LEMMA Pushed ==
  ASSUME NEW b, Exact(b), NEW f \in Sized, NEW k \in 0..Len(b.frames), NEW p,
         p.frames = Append(Evict(b, k).frames, f),
         p.total_bytes = Evict(b, k).total_bytes + f.size,
         p = [frames |-> p.frames, total_bytes |-> p.total_bytes],
         k = Len(b.frames) \/ Fits(Evict(b, k), f),
         \A j \in 0..(k - 1) : ~Fits(Evict(b, j), f)
  PROVE  /\ Exact(p)
         /\ Len(p.frames) = Len(b.frames) - k + 1
         /\ \A i \in 1..(Len(b.frames) - k) : p.frames[i] = b.frames[k + i]
         /\ p.frames[Len(b.frames) - k + 1] = f
         /\ p.total_bytes \in Int /\ b.total_bytes \in Int
         /\ \/ k = Len(b.frames)
            \/ p.total_bytes <= max_bytes /\ Len(b.frames) - k + 1 <= max_frames
         /\ k = 0 => p.total_bytes >= b.total_bytes
         /\ k > 0 => \/ p.total_bytes + b.frames[k].size > max_bytes
                     \/ Len(b.frames) - k + 1 >= max_frames
<1>. DEFINE L == Len(b.frames)
            room == Evict(b, k)
<1>1. b.frames \in Seq(Sized) /\ L \in Nat /\ max_frames \in Nat /\ max_bytes \in Nat
  BY CapsAssumption DEF Exact
<1>2. /\ k \in 0..L /\ (k = L \/ Fits(room, f))
      /\ \A j \in 0..(k - 1) : ~Fits(Evict(b, j), f)
  OBVIOUS
<1>3. PICK h : Sums(b.frames, h)
  BY <1>1, SumsExist
<1>4. /\ Exact(room) /\ Len(room.frames) = L - k
      /\ \A i \in 1..(L - k) : room.frames[i] = b.frames[k + i]
      /\ room.total_bytes = h[L] - h[k]
  <2>1. k \in 0..Len(b.frames) /\ Sums(b.frames, h) /\ Exact(b)
    BY <1>2, <1>3
  <2>. QED
    BY <2>1, EvictExact
<1>5. /\ p.frames = Append(room.frames, f)
      /\ p.total_bytes = room.total_bytes + f.size
  OBVIOUS
<1>. HIDE DEF room
<1>6. room.frames \in Seq(Sized) /\ room.total_bytes = Bytes(room.frames) /\ f.size \in Nat
  BY <1>4 DEF Exact, Sized
<1>7. /\ p.frames \in Seq(Sized)
      /\ Len(p.frames) = L - k + 1
      /\ \A i \in 1..(L - k) : p.frames[i] = b.frames[k + i]
      /\ p.frames[L - k + 1] = f
  <2>1. Append(room.frames, f) \in Seq(Sized)
    BY <1>6
  <2>2. /\ Len(Append(room.frames, f)) = Len(room.frames) + 1
        /\ Append(room.frames, f)[Len(room.frames) + 1] = f
        /\ \A i \in 1..Len(room.frames) : Append(room.frames, f)[i] = room.frames[i]
    BY <1>6
  <2>. QED
    BY <1>4, <1>5, <2>1, <2>2
<1>8. Exact(p)
  <2>1. Bytes(Append(room.frames, f)) = Bytes(room.frames) + f.size
    BY <1>6, BytesAppend
  <2>. QED
    BY <1>5, <1>6, <1>7, <2>1 DEF Exact
<1>9. /\ h[L] \in Int /\ h[k] \in Int /\ h[0] = 0 /\ h[k] <= h[L]
      /\ b.total_bytes = h[L]
  <2>1. k \in 0..L /\ L \in k..L /\ L \in 0..L
    BY <1>1, <1>2
  <2>2. h[k] <= h[L]
    BY <1>1, <1>3, <2>1, SumsGrow
  <2>3. h[k] \in Int /\ h[L] \in Int /\ h[0] = 0
    BY <1>3, <2>1 DEF Sums
  <2>4. b.total_bytes = Bytes(b.frames)
    BY DEF Exact
  <2>5. Bytes(b.frames) = h[L]
    BY <1>1, <1>3, BytesIs
  <2>. QED
    BY <2>2, <2>3, <2>4, <2>5
<1>10. /\ p.total_bytes = h[L] - h[k] + f.size
       /\ p.total_bytes \in Int /\ b.total_bytes \in Int
  BY <1>4, <1>5, <1>6, <1>9
<1>11. k = L \/ (p.total_bytes <= max_bytes /\ L - k + 1 <= max_frames)
  <2>1. CASE Fits(room, f)
    <3>1. room.total_bytes + f.size <= max_bytes /\ Len(room.frames) < max_frames
      BY <2>1 DEF Fits
    <3>2. L - k < max_frames
      BY <3>1, <1>4
    <3>3. L - k + 1 <= max_frames
      BY <3>2, <1>1, <1>2
    <3>. QED
      BY <1>5, <3>1, <3>3
  <2>. QED
    BY <1>2, <2>1
<1>12. k = 0 => p.total_bytes >= b.total_bytes
  BY <1>6, <1>9, <1>10
<1>13. ASSUME k > 0
       PROVE  p.total_bytes + b.frames[k].size > max_bytes \/ L - k + 1 >= max_frames
  <2>. DEFINE less == Evict(b, k - 1)
  <2>1. k - 1 \in 0..L /\ k - 1 \in 0..(k - 1) /\ k \in 1..L
    BY <1>1, <1>2, <1>13
  <2>2. ~Fits(less, f)
    BY <1>2, <2>1
  <2>3. Len(less.frames) = L - (k - 1) /\ less.total_bytes = h[L] - h[k - 1]
    BY <1>3, <2>1, EvictExact
  <2>. HIDE DEF less
  <2>4. h[k] = h[k - 1] + b.frames[k].size /\ h[k - 1] \in Int
    BY <1>3, <2>1 DEF Sums
  <2>5. b.frames[k].size \in Nat
    <3>1. b.frames[k] \in Sized
      BY <1>1, <2>1
    <3>. QED
      BY <3>1 DEF Sized
  <2>6. p.total_bytes + b.frames[k].size = less.total_bytes + f.size
    <3>. DEFINE x == h[k - 1]
                y == h[k]
                z == h[L]
                size == b.frames[k].size
    <3>1. /\ x \in Int /\ y \in Int /\ z \in Int /\ size \in Nat /\ f.size \in Nat
          /\ y = x + size /\ p.total_bytes = z - y + f.size /\ less.total_bytes = z - x
      BY <1>6, <1>9, <1>10, <2>3, <2>4, <2>5
    <3>. HIDE DEF x, y, z, size
    <3>2. p.total_bytes + size = less.total_bytes + f.size
      BY <3>1
    <3>. QED
      BY <3>2 DEF size
  <2>7. ~(less.total_bytes + f.size <= max_bytes /\ Len(less.frames) < max_frames)
    BY <2>2 DEF Fits
  <2>8. less.total_bytes \in Int /\ Len(less.frames) = L - k + 1
    BY <1>1, <1>2, <1>9, <2>3, <2>4
  <2>. QED
    BY <1>1, <1>2, <1>6, <2>6, <2>7, <2>8
<1>. QED
  BY <1>2, <1>7, <1>8, <1>10, <1>11, <1>12, <1>13

\* push is that, for the number of evictions the loops stop at.
LEMMA PushEffect ==
  ASSUME NEW b, Exact(b), NEW f \in Sized
  PROVE  \E k \in 0..Len(b.frames) :
           /\ Exact(push(b, f))
           /\ Len(push(b, f).frames) = Len(b.frames) - k + 1
           /\ \A i \in 1..(Len(b.frames) - k) : push(b, f).frames[i] = b.frames[k + i]
           /\ push(b, f).frames[Len(b.frames) - k + 1] = f
           /\ push(b, f).total_bytes \in Int /\ b.total_bytes \in Int
           /\ \/ k = Len(b.frames)
              \/ /\ push(b, f).total_bytes <= max_bytes
                 /\ Len(b.frames) - k + 1 <= max_frames
           /\ k = 0 => push(b, f).total_bytes >= b.total_bytes
           /\ k > 0 => \/ push(b, f).total_bytes + b.frames[k].size > max_bytes
                       \/ Len(b.frames) - k + 1 >= max_frames
<1>1. PICK k \in 0..Len(b.frames) :
        /\ k = Evictions(b, f)
        /\ k = Len(b.frames) \/ Fits(Evict(b, k), f)
        /\ \A j \in 0..(k - 1) : ~Fits(Evict(b, j), f)
  BY EvictionsLeast DEF Exact
<1>. DEFINE p == push(b, f)
<1>2. /\ p.frames = Append(Evict(b, k).frames, f)
      /\ p.total_bytes = Evict(b, k).total_bytes + f.size
      /\ p = [frames |-> p.frames, total_bytes |-> p.total_bytes]
  BY <1>1 DEF push
<1>. HIDE DEF p
<1>3. /\ Exact(p)
      /\ Len(p.frames) = Len(b.frames) - k + 1
      /\ \A i \in 1..(Len(b.frames) - k) : p.frames[i] = b.frames[k + i]
      /\ p.frames[Len(b.frames) - k + 1] = f
      /\ p.total_bytes \in Int /\ b.total_bytes \in Int
      /\ \/ k = Len(b.frames)
         \/ p.total_bytes <= max_bytes /\ Len(b.frames) - k + 1 <= max_frames
      /\ k = 0 => p.total_bytes >= b.total_bytes
      /\ k > 0 => \/ p.total_bytes + b.frames[k].size > max_bytes
                  \/ Len(b.frames) - k + 1 >= max_frames
  <2>1. /\ k \in 0..Len(b.frames)
        /\ k = Len(b.frames) \/ Fits(Evict(b, k), f)
        /\ \A j \in 0..(k - 1) : ~Fits(Evict(b, j), f)
    BY <1>1
  <2>. QED
    BY <1>2, <2>1, Pushed
<1>. QED
  BY <1>3, Zenon DEF p

-----------------------------------------------------------------------------
(* The context buffer through the agent's calls.                           *)

\* The buffer and the history beside it.
BufferTypes ==
  /\ Exact(context_buffer)
  /\ sizes \in Seq(Nat) /\ frame_counter = Len(sizes)
  /\ flushed \in 0..frame_counter

BufferInv == BufferTypes /\ BufferIsRecent /\ CapsHold /\ EvictedForRoom

\* Nothing older than the last flush is in the buffer.
LEMMA FramesSinceFlush ==
  ASSUME BufferTypes, BufferIsRecent
  PROVE  Len(Frames) <= frame_counter - flushed
<1>1. /\ Len(Frames) \in Nat /\ frame_counter \in Nat /\ flushed \in Nat
      /\ flushed <= frame_counter
  BY DEF BufferTypes, Exact, Frames
<1>2. CASE Len(Frames) > 0
  <2>1. 1 \in 1..Len(Frames)
    BY <1>1, <1>2
  <2>2. /\ Frames[1].id = frame_counter - Len(Frames) + 1
        /\ Frames[1].id > flushed
    BY <2>1 DEF BufferIsRecent
  <2>. QED
    BY <1>1, <2>2
<1>. QED
  BY <1>1, <1>2

\* An empty buffer satisfies the invariant when everything up to now is flushed.
Emptied ==
  /\ context_buffer = EmptyBuffer /\ flushed = frame_counter
  /\ sizes \in Seq(Nat) /\ frame_counter = Len(sizes)

LEMMA EmptyInv == Emptied => BufferInv
<1>. SUFFICES ASSUME Emptied PROVE BufferInv
  OBVIOUS
<1>. USE DEF Emptied
<1>1. Frames = <<>> /\ context_buffer.total_bytes = 0 /\ frame_counter \in Nat
  BY DEF Frames, EmptyBuffer
<1>2. Len(Frames) = 0 /\ Frames \in Seq(Sized) /\ Bytes(Frames) = 0
  BY <1>1, BytesEmpty
<1>3. BufferTypes
  BY <1>1, <1>2 DEF BufferTypes, Exact, Frames
<1>4. BufferIsRecent
  BY <1>2 DEF BufferIsRecent
<1>5. CapsHold
  BY <1>1, <1>2, CapsAssumption DEF CapsHold
<1>6. EvictedForRoom
  <2>1. frame_counter - Len(Frames) = flushed /\ ~(flushed > flushed)
    BY <1>1, <1>2
  <2>. QED
    BY <2>1 DEF EvictedForRoom
<1>. QED
  BY <1>3, <1>4, <1>5, <1>6 DEF BufferInv

\* A measurement clears the buffer and remembers when, or touches neither.
LEMMA UpdateBuffer ==
  ASSUME BufferInv, NEW q \in Qualities, update_network_quality(q)
  PROVE  BufferInv'
<1>1. UNCHANGED <<frame_counter, sizes>>
  BY DEF update_network_quality
<1>2. CASE UNCHANGED <<context_buffer, flushed>>
  BY <1>1, <1>2 DEF BufferInv, BufferTypes, BufferIsRecent, CapsHold, EvictedForRoom, Frames
<1>3. CASE context_buffer' = EmptyBuffer /\ flushed' = frame_counter
  <2>1. Emptied'
    BY <1>1, <1>3 DEF BufferInv, BufferTypes, Emptied, EmptyBuffer
  <2>2. (Emptied => BufferInv)'
    BY EmptyInv, PTL
  <2>. QED
    BY <2>1, <2>2
<1>. QED
  BY <1>2, <1>3 DEF update_network_quality, transition_mode, clear

\* A frame goes to the end of the buffer, at the price of the oldest ones at most.
LEMMA ProcessBuffer ==
  ASSUME BufferInv, NEW size \in Sizes, process_frame(size)
  PROVE  BufferInv'
<1>. DEFINE b == context_buffer
            L == Len(b.frames)
            id == frame_counter + 1
            f == [id |-> id, size |-> size]
            p == context_buffer'
<1>1. /\ Exact(b) /\ sizes \in Seq(Nat) /\ frame_counter = Len(sizes)
      /\ frame_counter \in Nat /\ flushed \in Nat /\ flushed <= frame_counter
  BY DEF BufferInv, BufferTypes
<1>2. size \in Nat /\ f \in Sized
  BY <1>1, InputsAssumption DEF Sized
<1>3. /\ p = push(b, f) /\ frame_counter' = id
      /\ sizes' = Append(sizes, size) /\ flushed' = flushed
  BY DEF process_frame
<1>4. L \in Nat /\ b.frames \in Seq(Sized) /\ max_bytes \in Nat /\ max_frames \in Nat
  BY <1>1, CapsAssumption DEF Exact
<1>5. L <= frame_counter - flushed
  BY FramesSinceFlush DEF BufferInv, Frames
<1>6. /\ sizes' \in Seq(Nat) /\ Len(sizes') = id /\ sizes'[id] = size
      /\ \A i \in 1..frame_counter : sizes'[i] = sizes[i] /\ sizes[i] \in Nat
  BY <1>1, <1>2, <1>3
<1>7. f.id = id /\ f.size = size
  OBVIOUS
<1>. HIDE DEF f
<1>8. PICK k \in 0..L :
        /\ Exact(p)
        /\ Len(p.frames) = L - k + 1
        /\ \A i \in 1..(L - k) : p.frames[i] = b.frames[k + i]
        /\ p.frames[L - k + 1] = f
        /\ p.total_bytes \in Int /\ b.total_bytes \in Int
        /\ k = L \/ (p.total_bytes <= max_bytes /\ L - k + 1 <= max_frames)
        /\ k = 0 => p.total_bytes >= b.total_bytes
        /\ k > 0 => \/ p.total_bytes + b.frames[k].size > max_bytes
                    \/ L - k + 1 >= max_frames
  BY <1>1, <1>2, <1>3, PushEffect
<1>. HIDE DEF p
<1>n. /\ L \in Nat /\ k \in Nat /\ k <= L /\ L <= frame_counter - flushed
      /\ frame_counter \in Nat /\ flushed \in Nat /\ flushed <= frame_counter
  BY <1>1, <1>4, <1>5, <1>8
<1>9. BufferTypes'
  BY <1>1, <1>3, <1>6, <1>8 DEF BufferTypes, p
<1>10. Frames' = p.frames /\ Frames = b.frames
  BY DEF Frames, p
<1>11. \A i \in 1..L : /\ b.frames[i].id = frame_counter - L + i
                       /\ b.frames[i].id > flushed
                       /\ b.frames[i].size = sizes[b.frames[i].id]
  BY DEF BufferInv, BufferIsRecent, Frames
<1>12. BufferIsRecent'
  <2>. SUFFICES ASSUME NEW i \in 1..(L - k + 1)
                PROVE  /\ p.frames[i].id = id - (L - k + 1) + i
                       /\ p.frames[i].id > flushed
                       /\ p.frames[i].size = sizes'[p.frames[i].id]
    BY <1>3, <1>8, <1>10 DEF BufferIsRecent
  <2>1. CASE i = L - k + 1
    <3>1. p.frames[i] = f
      BY <1>8, <2>1
    <3>2. id = id - (L - k + 1) + i /\ id > flushed
      <4>. HIDE DEF L
      <4>. QED
        BY <1>n, <2>1
    <3>. QED
      BY <1>6, <1>7, <3>1, <3>2
  <2>2. CASE i <= L - k
    <3>1. k + i \in 1..L /\ i \in 1..(L - k)
      BY <1>4, <2>2
    <3>2. p.frames[i] = b.frames[k + i]
      BY <1>8, <3>1
    <3>3. /\ b.frames[k + i].id = frame_counter - L + (k + i)
          /\ b.frames[k + i].id > flushed
          /\ b.frames[k + i].size = sizes[b.frames[k + i].id]
      BY <1>11, <3>1
    <3>4. /\ frame_counter - L + (k + i) \in 1..frame_counter
          /\ frame_counter - L + (k + i) = id - (L - k + 1) + i
      <4>. HIDE DEF L
      <4>. QED
        BY <1>n, <3>1
    <3>. QED
      BY <1>6, <3>2, <3>3, <3>4
  <2>. QED
    BY <1>4, <2>1, <2>2
<1>13. CapsHold'
  <2>1. p.total_bytes = Bytes(p.frames)
    BY <1>8 DEF Exact
  <2>2. /\ max_frames > 0 => L - k + 1 <= max_frames
        /\ p.total_bytes <= max_bytes \/ L - k + 1 = 1
    BY <1>4, <1>8
  <2>. QED
    BY <1>8, <1>10, <2>1, <2>2 DEF CapsHold, p
<1>14. EvictedForRoom'
  <2>. DEFINE gone == frame_counter - L + k
  <2>1. id - (L - k + 1) = gone
    BY <1>1, <1>4
  <2>. HIDE DEF gone
  <2>2. ASSUME gone > flushed
        PROVE  p.total_bytes + sizes'[gone] > max_bytes \/ L - k + 1 >= max_frames
    <3>1. gone \in 1..frame_counter
      <4>. HIDE DEF L
      <4>. QED
        BY <1>n, <2>2 DEF gone
    <3>2. sizes'[gone] = sizes[gone] /\ sizes[gone] \in Nat
      BY <1>6, <3>1
    <3>3. CASE k = 0
      <4>1. frame_counter - Len(Frames) = gone
        BY <1>1, <1>4, <1>10, <3>3 DEF gone
      <4>2. b.total_bytes + sizes[gone] > max_bytes \/ L >= max_frames
        BY <1>10, <2>2, <4>1 DEF BufferInv, EvictedForRoom
      <4>. QED
        BY <1>4, <1>8, <3>2, <3>3, <4>2
    <3>4. CASE k > 0
      <4>1. k \in 1..L
        BY <1>4, <3>4
      <4>2. b.frames[k].size = sizes[gone]
        BY <1>11, <4>1 DEF gone
      <4>. QED
        BY <1>8, <3>2, <3>4, <4>2
    <3>. QED
      BY <3>3, <3>4
  <2>3. frame_counter' - Len(Frames') = gone
    BY <1>3, <1>8, <1>10, <2>1
  <2>. QED
    BY <1>3, <1>8, <1>10, <2>2, <2>3 DEF EvictedForRoom, p
<1>. QED
  BY <1>9, <1>12, <1>13, <1>14 DEF BufferInv

LEMMA BufferCorrect == Spec => []BufferInv
<1>1. Init => BufferInv
  <2>. SUFFICES ASSUME Init PROVE BufferInv
    OBVIOUS
  <2>1. Emptied
    BY DEF Init, Emptied
  <2>. QED
    BY <2>1, EmptyInv
<1>2. BufferInv /\ [Next]_vars => BufferInv'
  <2>. SUFFICES ASSUME BufferInv, [Next]_vars PROVE BufferInv'
    OBVIOUS
  <2>1. ASSUME NEW q \in Qualities, update_network_quality(q) PROVE BufferInv'
    BY <2>1, UpdateBuffer
  <2>2. ASSUME NEW size \in Sizes, process_frame(size) PROVE BufferInv'
    BY <2>2, ProcessBuffer
  <2>3. ASSUME UNCHANGED <<context_buffer, frame_counter, sizes, flushed>> PROVE BufferInv'
    BY <2>3 DEF BufferInv, BufferTypes, BufferIsRecent, CapsHold, EvictedForRoom, Frames
  <2>. QED
    BY <2>1, <2>2, <2>3 DEF Next, vars, agent, probe_network_quality, start_monitoring,
       MonitorStep, store_running, stop
<1>. QED
  BY <1>1, <1>2, PTL DEF Spec

\* Through every push, eviction and flush the buffer holds the latest frames that
\* process_frame was given, in order, and none from before the last flush.
THEOREM RecentFrames == Spec => []BufferIsRecent
<1>1. BufferInv => BufferIsRecent
  BY DEF BufferInv
<1>. QED
  BY <1>1, BufferCorrect, PTL

\* ContextBuffer::push keeps the running byte count exact and both caps, for any caps
\* and any frame sizes; only a lone frame may be over the byte cap.
THEOREM CapsKept == Spec => []CapsHold
<1>1. BufferInv => CapsHold
  BY DEF BufferInv
<1>. QED
  BY <1>1, BufferCorrect, PTL

\* The eviction loops of ContextBuffer::push remove no frame that could have stayed.
THEOREM NoNeedlessEviction == Spec => []EvictedForRoom
<1>1. BufferInv => EvictedForRoom
  BY DEF BufferInv
<1>. QED
  BY <1>1, BufferCorrect, PTL
=============================================================================
