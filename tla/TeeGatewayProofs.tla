-------------------------- MODULE TeeGatewayProofs --------------------------
(***************************************************************************)
(* Proofs about TeeGateway, for any tokens, sources, frames and answers of *)
(* the cloud: the key stays the sealed token's, every frame is accounted   *)
(* for, offline request ids are unique, and every response can be logged;  *)
(* and the binary, one user of the library, calls the cloud under the key  *)
(* of its environment or not at all.                                       *)
(***************************************************************************)
EXTENDS GatewayMain, FiniteSetTheorems, WellFoundedInduction, TLAPS

Failure == [ok: {FALSE}, frame: Frame, error: {"ApiKeyNotInitialized", "QwenApiError"}]
Success == [ok: {TRUE}, frame: Frame, request_id: Nat, choices: Nat]
Result  == Failure \cup Success

\* The types the proofs need.
Types ==
  /\ processed_frames \in Nat
  /\ pending \subseteq Frame
  /\ returned \in Seq(Result)

\* Every response carries a choice.
ChoicesPresent ==
  \A i \in 1..Len(returned) : returned[i].ok => returned[i].choices > 0

\* Offline nothing waits, and request ids grow up to the number of frames processed.
IdsGrow ==
  ~live =>
    /\ pending = {}
    /\ \A i \in 1..Len(returned) :
         returned[i].ok => returned[i].request_id <= processed_frames
    /\ \A i, j \in 1..Len(returned) :
         i < j /\ returned[i].ok /\ returned[j].ok
           => returned[i].request_id < returned[j].request_id

IndInv == Types /\ ChoicesPresent /\ IdsGrow /\ AnswersLoggable

-----------------------------------------------------------------------------
(* The key.                                                                *)

\* Reading a token leniently loses no emptiness.
LEMMA LossyEmpty == Lossy("") = ""
BY TokensAssumption DEF Lossy

\* An initialization sets all of attestation, token and key, or at most the first.
LEMMA InitializeKey ==
  ASSUME KeyIsSealedToken, NEW token, NEW attests \in BOOLEAN, NEW seals \in BOOLEAN,
         initialize(token, attests, seals)
  PROVE  KeyIsSealedToken'
<1>1. CASE attests /\ seals
  <2>1. /\ attested' = TRUE /\ http_client' = TRUE
        /\ sealed_data' = token /\ qwen_api_key' = {Lossy(token)}
    BY <1>1 DEF initialize
  <2>2. Lossy(sealed_data)' = Lossy(token)
    BY <2>1 DEF Lossy
  <2>3. Lossy(token) # "" => unseal'.ok
    BY <2>1, LossyEmpty DEF unseal
  <2>. QED
    BY <2>1, <2>2, <2>3 DEF KeyIsSealedToken, is_initialized
<1>2. CASE ~(attests /\ seals)
  <2>1. /\ attested' = (attested \/ attests)
        /\ UNCHANGED <<sealed_data, qwen_api_key, http_client>>
    BY <1>2 DEF initialize
  <2>2. ASSUME NEW key \in qwen_api_key
        PROVE  /\ attested' /\ http_client' /\ Lossy(sealed_data)' = key
               /\ key # "" => unseal'.ok
    <3>1. /\ attested /\ http_client /\ Lossy(sealed_data) = key
      BY DEF KeyIsSealedToken, is_initialized
    <3>2. attested' /\ http_client' /\ Lossy(sealed_data)' = key
      BY <2>1, <3>1 DEF Lossy
    <3>3. key # "" => unseal'.ok
      BY <2>1, <3>1, <3>2, LossyEmpty DEF unseal
    <3>. QED
      BY <3>2, <3>3
  <2>. QED
    BY <2>1, <2>2 DEF KeyIsSealedToken, is_initialized
<1>. QED
  BY <1>1, <1>2

\* Through failed and repeated initializations, the key in memory is the sealed
\* token's and is only held under attestation.
THEOREM KeySealed == Spec => []KeyIsSealedToken
<1>1. Init => KeyIsSealedToken
  BY DEF Init, KeyIsSealedToken
<1>2. KeyIsSealedToken /\ [Next]_vars => KeyIsSealedToken'
  <2>. SUFFICES ASSUME KeyIsSealedToken, [Next]_vars PROVE KeyIsSealedToken'
    OBVIOUS
  <2>1. ASSUME NEW token \in Tokens, NEW attests \in BOOLEAN, NEW seals \in BOOLEAN,
               initialize(token, attests, seals)
        PROVE  KeyIsSealedToken'
    BY <2>1, InitializeKey
  <2>2. ASSUME UNCHANGED storage PROVE KeyIsSealedToken'
    BY <2>2 DEF storage, KeyIsSealedToken, is_initialized, Lossy, unseal
  <2>. QED
    BY <2>1, <2>2
       DEF Next, vars, process_frame, Answer, Cancel, generate_execution_log
<1>. QED
  BY <1>1, <1>2, PTL DEF Spec

-----------------------------------------------------------------------------
(* Results.                                                                *)

\* What one more result needs to keep the invariant.
LEMMA ReturnInd ==
  ASSUME IndInv, NEW r \in Result, returned' = Append(returned, r),
         r.ok => r.choices > 0,
         processed_frames' \in Nat, processed_frames' >= processed_frames,
         pending' \subseteq Frame, ~live => pending' = {},
         ~live /\ r.ok => r.request_id = processed_frames' /\ r.request_id > processed_frames,
         UNCHANGED <<live, panicked>>
  PROVE  IndInv'
<1>1. /\ returned \in Seq(Result) /\ Len(returned) \in Nat /\ processed_frames \in Nat
  BY DEF IndInv, Types
<1>2. /\ returned' \in Seq(Result) /\ Len(returned') = Len(returned) + 1
      /\ returned'[Len(returned) + 1] = r
      /\ \A i \in 1..Len(returned) : returned'[i] = returned[i]
  BY <1>1
<1>3. \A i \in 1..Len(returned) : returned[i] \in Result
  BY <1>1
<1>4. Types'
  BY <1>2 DEF Types
<1>5. ChoicesPresent'
  <2>. SUFFICES ASSUME NEW i \in 1..(Len(returned) + 1), returned'[i].ok
                PROVE  returned'[i].choices > 0
    BY <1>2 DEF ChoicesPresent
  <2>1. CASE i \in 1..Len(returned)
    BY <1>2, <2>1 DEF IndInv, ChoicesPresent
  <2>2. CASE i = Len(returned) + 1
    BY <1>2, <2>2
  <2>. QED
    BY <1>1, <2>1, <2>2
<1>6. IdsGrow'
  <2>. SUFFICES ASSUME ~live
                PROVE  /\ \A i \in 1..(Len(returned) + 1) :
                            returned'[i].ok => returned'[i].request_id <= processed_frames'
                       /\ \A i, j \in 1..(Len(returned) + 1) :
                            i < j /\ returned'[i].ok /\ returned'[j].ok
                              => returned'[i].request_id < returned'[j].request_id
    BY <1>2 DEF IdsGrow
  <2>1. ASSUME NEW i \in 1..Len(returned), returned'[i].ok
        PROVE  returned'[i].request_id \in Nat /\ returned'[i].request_id <= processed_frames
    <3>1. returned'[i] \in Success
      BY <1>2, <1>3, <2>1 DEF Result, Failure
    <3>. QED
      BY <1>2, <2>1, <3>1 DEF IndInv, IdsGrow, Success
  <2>2. ASSUME NEW i \in 1..(Len(returned) + 1), returned'[i].ok
        PROVE  returned'[i].request_id <= processed_frames'
    <3>1. CASE i \in 1..Len(returned)
      BY <1>1, <2>1, <2>2, <3>1
    <3>2. CASE i = Len(returned) + 1
      BY <1>2, <2>2, <3>2
    <3>. QED
      BY <1>1, <3>1, <3>2
  <2>3. ASSUME NEW i \in 1..(Len(returned) + 1), NEW j \in 1..(Len(returned) + 1),
               i < j, returned'[i].ok, returned'[j].ok
        PROVE  returned'[i].request_id < returned'[j].request_id
    <3>1. i \in 1..Len(returned)
      BY <1>1, <2>3
    <3>2. CASE j \in 1..Len(returned)
      BY <1>2, <2>3, <3>1, <3>2 DEF IndInv, IdsGrow
    <3>3. CASE j = Len(returned) + 1
      BY <1>1, <1>2, <2>1, <2>3, <3>1, <3>3
    <3>. QED
      BY <1>1, <3>2, <3>3
  <2>. QED
    BY <2>2, <2>3
<1>. QED
  BY <1>4, <1>5, <1>6 DEF IndInv, AnswersLoggable

\* A frame that fails at once, waits for the cloud or gets the canned response.
LEMMA ProcessInd ==
  ASSUME IndInv, NEW f \in Frame, process_frame(f)
  PROVE  IndInv'
<1>1. /\ processed_frames' = processed_frames + 1 /\ processed_frames \in Nat
      /\ UNCHANGED <<live, panicked>>
      /\ pending = {}
  BY DEF process_frame, Counted, storage, IndInv, Types
<1>2. CASE qwen_api_key = {}
  <2>. DEFINE r == Error(f, "ApiKeyNotInitialized")
  <2>1. r \in Result /\ r.ok = FALSE
    BY DEF Error, Result, Failure
  <2>2. returned' = Append(returned, r) /\ pending' = {}
    BY <1>1, <1>2 DEF process_frame
  <2>. HIDE DEF r
  <2>. QED
    BY <1>1, <2>1, <2>2, ReturnInd
<1>3. CASE qwen_api_key # {} /\ live
  <2>1. pending' = {f} /\ returned' = returned
    BY <1>3 DEF process_frame
  <2>. QED
    BY <1>1, <1>3, <2>1 DEF IndInv, Types, ChoicesPresent, IdsGrow, AnswersLoggable
<1>4. CASE qwen_api_key # {} /\ ~live
  <2>. DEFINE r == Simulated(f)
  <2>1. /\ r \in Result /\ r.choices = 1 /\ r.request_id = processed_frames + 1
    BY <1>1 DEF Simulated, Response, Result, Success
  <2>2. returned' = Append(returned, r) /\ pending' = {}
    BY <1>1, <1>4 DEF process_frame
  <2>. HIDE DEF r
  <2>. QED
    BY <1>1, <2>1, <2>2, ReturnInd
<1>. QED
  BY <1>2, <1>3, <1>4

\* Only an answer with choices becomes a response.
LEMMA AnswerInd ==
  ASSUME IndInv, NEW f \in pending, NEW reply \in Replies, Answer(f, reply)
  PROVE  IndInv'
<1>. DEFINE r == Outcome(f, reply)
<1>1. r \in Result /\ (r.ok => r.choices > 0)
  <2>1. f \in Frame
    BY DEF IndInv, Types
  <2>2. reply.choices \in Nat
    <3>1. 0..MaxChoices \subseteq Nat
      BY BoundsAssumption
    <3>2. reply.choices \in {0} \cup (0..MaxChoices)
      BY Zenon DEF Replies
    <3>. QED
      BY <3>1, <3>2
  <2>. QED
    BY <2>1, <2>2 DEF Outcome, Response, Error, Result, Success, Failure
<1>2. /\ returned' = Append(returned, r) /\ pending' = {}
      /\ UNCHANGED <<live, panicked, processed_frames>>
  BY DEF Answer, storage, counts
<1>3. live /\ processed_frames \in Nat
  BY DEF IndInv, IdsGrow, Types
<1>. HIDE DEF r
<1>. QED
  BY <1>1, <1>2, <1>3, ReturnInd

\* There are no results at first.
LEMMA InitInd == Init => IndInv
<1>. SUFFICES ASSUME Init PROVE IndInv
  OBVIOUS
<1>1. returned = <<>> /\ processed_frames = 0 /\ pending = {}
  BY DEF Init
<1>2. Types /\ ChoicesPresent /\ IdsGrow
  BY <1>1 DEF Types, ChoicesPresent, IdsGrow
<1>3. AnswersLoggable
  BY DEF Init, AnswersLoggable
<1>. QED
  BY <1>2, <1>3 DEF IndInv

\* Every step preserves the invariant.
LEMMA NextInd == IndInv /\ [Next]_vars => IndInv'
<1>. SUFFICES ASSUME IndInv, [Next]_vars PROVE IndInv'
  OBVIOUS
<1>1. ASSUME UNCHANGED <<live, processed_frames, returned>>, panicked' => panicked,
             pending' \subseteq pending
      PROVE  IndInv'
  BY <1>1 DEF IndInv, Types, ChoicesPresent, IdsGrow, AnswersLoggable
<1>2. ASSUME NEW token \in Tokens, NEW attests \in BOOLEAN, NEW seals \in BOOLEAN,
             initialize(token, attests, seals)
      PROVE  IndInv'
  BY <1>1, <1>2 DEF initialize, counts
<1>3. CASE Cancel
  BY <1>1, <1>3 DEF Cancel, storage, counts
<1>4. ASSUME NEW i \in 1..Len(returned), generate_execution_log(returned[i])
      PROVE  IndInv'
  <2>0. returned[i] \in Result
    BY DEF IndInv, Types
  <2>1. returned[i].choices > 0 /\ returned[i].ok
    BY <1>4 DEF generate_execution_log, IndInv, ChoicesPresent
  <2>a. returned[i] \in Success
    BY <2>0, <2>1 DEF Result, Failure
  <2>2. returned[i].choices # 0
    BY <2>1, <2>a DEF Success
  <2>3. panicked' => panicked
    BY <1>4, <2>2, Zenon DEF generate_execution_log
  <2>. QED
    BY <1>1, <1>4, <2>3 DEF generate_execution_log, storage, counts
<1>5. CASE UNCHANGED vars
  BY <1>1, <1>5 DEF vars, storage, counts
<1>. QED
  BY <1>2, <1>3, <1>4, <1>5, ProcessInd, AnswerInd DEF Next

\* The strengthened invariant holds in every reachable state.
LEMMA IndCorrect == Spec => []IndInv
BY InitInd, NextInd, PTL DEF Spec

\* Whatever the cloud answers, generate_execution_log never panics on a response of
\* process_frame.
THEOREM LoggingSafe == Spec => []AnswersLoggable
<1>1. IndInv => AnswersLoggable
  BY DEF IndInv
<1>. QED
  BY <1>1, IndCorrect, PTL

\* Canned responses carry different request ids, whatever failed in between.
THEOREM IdsUnique == Spec => []RequestIdsUnique
<1>1. IndInv => RequestIdsUnique
  <2>. SUFFICES ASSUME IndInv, ~live,
                       NEW i \in 1..Len(returned), NEW j \in 1..Len(returned),
                       i # j, returned[i].ok, returned[j].ok
                PROVE  returned[i].request_id # returned[j].request_id
    BY DEF RequestIdsUnique
  <2>0. returned[i] \in Result /\ returned[j] \in Result
    BY DEF IndInv, Types
  <2>1. returned[i] \in Success /\ returned[j] \in Success
    BY <2>0 DEF Result, Failure
  <2>2. returned[i].request_id \in Nat /\ returned[j].request_id \in Nat
    BY <2>1 DEF Success
  <2>3. i < j \/ j < i
    BY DEF IndInv, Types
  <2>. QED
    BY <2>2, <2>3 DEF IndInv, IdsGrow
<1>. QED
  BY <1>1, IndCorrect, PTL

-----------------------------------------------------------------------------
(* Sums over finite sets.                                                  *)

\* Of some subsets of a finite set, one is the smallest.
LEMMA SmallestSubset ==
  ASSUME NEW S, IsFiniteSet(S), NEW B \in SUBSET SUBSET S, B # {}
  PROVE  \E T \in B : \A x \in T : T \ {x} \notin B
<1>. DEFINE F == FiniteSubsetsOf(S)
            R == StrictSubsetOrdering(S)
<1>1. IsWellFoundedOn(R, F)
  BY FS_StrictSubsetOrderingWellFounded
<1>2. B \subseteq F
  BY FS_Subset DEF FiniteSubsetsOf
<1>3. \A T, U \in F : T \subseteq U /\ T # U => <<T, U>> \in R
  BY DEF StrictSubsetOrdering, FiniteSubsetsOf
<1>. HIDE DEF F, R
<1>4. PICK T \in B : \A U \in B : ~ (<<U, T>> \in R)
  BY <1>1, <1>2, WFMin
<1>5. ASSUME NEW x \in T, T \ {x} \in B PROVE FALSE
  BY <1>2, <1>3, <1>4, <1>5
<1>. QED
  BY <1>5

\* h gives the sums of f over the subsets of S.
Sums(f, S, h) ==
  /\ h[{}] = 0
  /\ \A T \in SUBSET S : h[T] \in Nat
  /\ \A T \in SUBSET S : \A x \in T : h[T] = h[T \ {x}] + f[x]

LEMMA SumsExist ==
  ASSUME NEW S, IsFiniteSet(S), NEW f, \A x \in S : f[x] \in Nat
  PROVE  \E h \in [SUBSET S -> Nat] : Sums(f, S, h)
<1>. DEFINE Has(U) == \E h \in [SUBSET U -> Nat] : Sums(f, U, h)
            B == {U \in SUBSET S : ~Has(U)}
<1>. SUFFICES ASSUME B # {} PROVE FALSE
  OBVIOUS
<1>1. PICK T \in B : \A x \in T : T \ {x} \notin B
  BY SmallestSubset
<1>2. T # {}
  <2>. DEFINE h == [U \in {{}} |-> 0]
  <2>1. h \in [SUBSET {} -> Nat] /\ Sums(f, {}, h)
    BY DEF Sums
  <2>2. Has({})
    BY <2>1
  <2>. QED
    BY <2>2
<1>3. PICK a \in T : TRUE
  BY <1>2
<1>. DEFINE rest == T \ {a}
<1>4. PICK h \in [SUBSET rest -> Nat] : Sums(f, rest, h)
  BY <1>1
<1>5. f[a] \in Nat
  BY <1>3
<1>. DEFINE g == [U \in SUBSET T |-> IF a \in U THEN h[U \ {a}] + f[a] ELSE h[U]]
<1>6. \A U \in SUBSET T : h[U \ {a}] \in Nat /\ (a \notin U => h[U] \in Nat /\ U \ {a} = U)
  OBVIOUS
<1>7. g \in [SUBSET T -> Nat]
  BY <1>5, <1>6
<1>8. Sums(f, T, g)
  <2>1. g[{}] = 0
    BY <1>4 DEF Sums
  <2>2. ASSUME NEW U \in SUBSET T, NEW x \in U
        PROVE  g[U] = g[U \ {x}] + f[x]
    <3>0. U \ {x} \in SUBSET T /\ f[x] \in Nat
      OBVIOUS
    <3>1. CASE x = a
      <4>1. g[U] = h[U \ {a}] + f[a] /\ g[U \ {x}] = h[U \ {a}]
        BY <3>0, <3>1
      <4>. QED
        BY <3>1, <4>1
    <3>2. CASE x # a /\ a \in U
      <4>1. g[U] = h[U \ {a}] + f[a] /\ g[U \ {x}] = h[(U \ {x}) \ {a}] + f[a]
        BY <3>0, <3>2
      <4>2. (U \ {x}) \ {a} = (U \ {a}) \ {x} /\ U \ {a} \in SUBSET rest /\ x \in U \ {a}
        BY <3>2
      <4>3. h[U \ {a}] = h[(U \ {a}) \ {x}] + f[x]
        BY <1>4, <4>2 DEF Sums
      <4>4. h[(U \ {x}) \ {a}] \in Nat
        BY <3>0, <1>6
      <4>5. g[U] = (h[(U \ {x}) \ {a}] + f[x]) + f[a] /\ g[U \ {x}] = h[(U \ {x}) \ {a}] + f[a]
        BY <4>1, <4>2, <4>3, Zenon
      <4>. HIDE DEF g
      <4>. QED
        BY <1>5, <3>0, <4>4, <4>5
    <3>3. CASE a \notin U
      <4>1. g[U] = h[U] /\ g[U \ {x}] = h[U \ {x}] /\ U \in SUBSET rest
        BY <3>0, <3>3
      <4>. QED
        BY <1>4, <4>1 DEF Sums
    <3>. QED
      BY <3>1, <3>2, <3>3
  <2>. QED
    BY <1>7, <2>1, <2>2 DEF Sums
<1>. HIDE DEF g
<1>9. Has(T)
  BY <1>7, <1>8
<1>. QED
  BY <1>9

\* Sums over the same numbers are the same.
LEMMA SumsAgree ==
  ASSUME NEW S, IsFiniteSet(S), NEW f, NEW g, \A x \in S : f[x] = g[x],
         NEW h, Sums(f, S, h), NEW k, Sums(g, S, k)
  PROVE  h[S] = k[S]
<1>. DEFINE B == {U \in SUBSET S : h[U] # k[U]}
<1>. SUFFICES ASSUME B # {} PROVE FALSE
  OBVIOUS
<1>1. PICK T \in B : \A x \in T : T \ {x} \notin B
  BY SmallestSubset
<1>2. T # {}
  BY DEF Sums
<1>3. PICK a \in T : TRUE
  BY <1>2
<1>4. h[T \ {a}] = k[T \ {a}]
  BY <1>1, <1>3
<1>5. h[T] = h[T \ {a}] + f[a] /\ k[T] = k[T \ {a}] + g[a] /\ f[a] = g[a]
  BY <1>3 DEF Sums
<1>. QED
  BY <1>4, <1>5

\* Total is the sum.
LEMMA TotalIs ==
  ASSUME NEW f, IsFiniteSet(DOMAIN f), \A x \in DOMAIN f : f[x] \in Nat,
         NEW h, Sums(f, DOMAIN f, h)
  PROVE  Total(f) = h[DOMAIN f]
<1>. DEFINE S == DOMAIN f
            some(T) == CHOOSE x \in T : TRUE
            Eq(iter) == iter = [T \in SUBSET S |->
                          IF T = {} THEN 0 ELSE iter[T \ {some(T)}] + f[some(T)]]
            sum == CHOOSE iter : Eq(iter)
<1>1. PICK k \in [SUBSET S -> Nat] : Sums(f, S, k)
  BY SumsExist
<1>2. \A T \in SUBSET S : T # {} => some(T) \in T
  OBVIOUS
<1>3. Eq(k)
  BY <1>1, <1>2 DEF Sums
<1>4. Eq(sum)
  BY <1>3
<1>5. Total(f) = sum[S]
  BY DEF Total, FoldSet, MapThenFoldSet
<1>. HIDE DEF sum, some
<1>. DEFINE B == {U \in SUBSET S : sum[U] # h[U]}
<1>6. B = {}
  <2>. SUFFICES ASSUME B # {} PROVE FALSE
    OBVIOUS
  <2>1. PICK T \in B : \A x \in T : T \ {x} \notin B
    BY SmallestSubset
  <2>2. T # {}
    BY <1>4 DEF Sums
  <2>3. some(T) \in T
    BY <1>2, <2>2
  <2>4. sum[T] = sum[T \ {some(T)}] + f[some(T)]
    BY <1>4, <2>2
  <2>5. h[T] = h[T \ {some(T)}] + f[some(T)]
    BY <2>3 DEF Sums
  <2>. QED
    BY <2>1, <2>3, <2>4, <2>5
<1>. QED
  BY <1>5, <1>6

\* The counts with one more for source s.
OneMore(f, s) ==
  [x \in DOMAIN f \cup {s} |->
     (IF x \in DOMAIN f THEN f[x] ELSE 0) + (IF x = s THEN 1 ELSE 0)]

LEMMA TotalCounted ==
  ASSUME NEW f, IsFiniteSet(DOMAIN f), \A x \in DOMAIN f : f[x] \in Nat, NEW s
  PROVE  /\ IsFiniteSet(DOMAIN OneMore(f, s))
         /\ \A x \in DOMAIN OneMore(f, s) : OneMore(f, s)[x] \in Nat
         /\ Total(f) \in Nat /\ Total(OneMore(f, s)) = Total(f) + 1
<1>0. PICK g : g = OneMore(f, s)
  OBVIOUS
<1>. DEFINE S == DOMAIN f
            D == S \ {s}
<1>1. DOMAIN g = S \cup {s} /\ IsFiniteSet(DOMAIN g) /\ IsFiniteSet(D)
  BY <1>0, FS_AddElement, FS_RemoveElement DEF OneMore
<1>2. \A x \in DOMAIN g : g[x] \in Nat
  BY <1>0 DEF OneMore
<1>3. \A x \in D : g[x] = f[x]
  BY <1>0 DEF OneMore
<1>4. g[s] = (IF s \in S THEN f[s] ELSE 0) + 1
  BY <1>0 DEF OneMore
<1>5. PICK h \in [SUBSET S -> Nat] : Sums(f, S, h)
  BY SumsExist
<1>6. PICK k \in [SUBSET DOMAIN g -> Nat] : Sums(g, DOMAIN g, k)
  BY <1>1, <1>2, SumsExist
<1>7. Total(f) = h[S] /\ Total(g) = k[DOMAIN g]
  BY <1>1, <1>2, <1>5, <1>6, TotalIs
<1>8. h[D] = k[D]
  <2>1. Sums(f, D, h) /\ Sums(g, D, k)
    BY <1>1, <1>5, <1>6 DEF Sums
  <2>. QED
    BY <1>1, <1>3, <2>1, SumsAgree
<1>9. k[DOMAIN g] = k[D] + g[s]
  <2>1. s \in DOMAIN g /\ (DOMAIN g) \ {s} = D
    BY <1>1
  <2>2. \A x \in DOMAIN g : k[DOMAIN g] = k[(DOMAIN g) \ {x}] + g[x]
    BY <1>6 DEF Sums
  <2>. HIDE DEF D
  <2>. QED
    BY <2>1, <2>2, Zenon
<1>10. h[S] = h[D] + (IF s \in S THEN f[s] ELSE 0) /\ h[S] \in Nat /\ h[D] \in Nat
  <2>1. h[S] \in Nat /\ h[D] \in Nat
    OBVIOUS
  <2>2. CASE s \in S
    BY <1>5, <2>2 DEF Sums
  <2>3. CASE s \notin S
    <3>1. D = S
      BY <2>3
    <3>. HIDE DEF D
    <3>. QED
      BY <2>1, <2>3, <3>1
  <2>. QED
    BY <2>1, <2>2, <2>3
<1>11. (IF s \in S THEN f[s] ELSE 0) \in Nat
  OBVIOUS
<1>12. Total(f) \in Nat /\ Total(g) = Total(f) + 1
  BY <1>4, <1>7, <1>8, <1>9, <1>10, <1>11
<1>. QED
  BY <1>0, <1>1, <1>2, <1>12

\* Nothing counted.
LEMMA TotalNone ==
  ASSUME NEW f, DOMAIN f = {}
  PROVE  Total(f) = 0
<1>1. IsFiniteSet({})
  BY FS_EmptySet
<1>2. PICK h : Sums(f, {}, h)
  BY <1>1, SumsExist
<1>3. Total(f) = h[{}]
  BY <1>1, <1>2, TotalIs
<1>. QED
  BY <1>2, <1>3 DEF Sums

-----------------------------------------------------------------------------
(* Counts.                                                                 *)

\* What the counts need to be compared: there is a count for finitely many sources,
\* and at most one call waits.
Countable ==
  /\ IsFiniteSet(DOMAIN session_cache)
  /\ \A s \in DOMAIN session_cache : session_cache[s] \in Nat
  /\ cancelled \in Nat
  /\ pending = {} \/ \E f \in Frame : pending = {f}

\* Every frame is counted for its source and in all, whatever becomes of its call: it
\* fails, answers, still waits or is dropped.
THEOREM FramesCounted == Spec => []FramesAccounted
<1>. DEFINE Inv == Countable /\ FramesAccounted
<1>1. Init => Inv
  <2>. SUFFICES ASSUME Init PROVE Inv
    OBVIOUS
  <2>1. /\ processed_frames = 0 /\ DOMAIN session_cache = {}
        /\ pending = {} /\ Len(returned) = 0 /\ cancelled = 0
    BY DEF Init
  <2>2. IsFiniteSet({}) /\ Cardinality({}) = 0
    BY FS_EmptySet
  <2>3. Total(session_cache) = 0
    BY <2>1, TotalNone
  <2>. QED
    BY <2>1, <2>2, <2>3 DEF Countable, FramesAccounted
<1>2. IndInv /\ Inv /\ [Next]_vars => Inv'
  <2>. SUFFICES ASSUME IndInv, Inv, [Next]_vars PROVE Inv'
    OBVIOUS
  <2>0. Len(returned) \in Nat /\ returned \in Seq(Result)
    BY DEF IndInv, Types
  <2>e. Cardinality({}) = 0
    BY FS_EmptySet
  <2>s. \A f : Cardinality({f}) = 1
    BY FS_Singleton
  <2>a. \A r : Len(Append(returned, r)) = Len(returned) + 1
    BY <2>0
  <2>1. ASSUME UNCHANGED <<counts, pending, returned, cancelled>> PROVE Inv'
    BY <2>1 DEF counts, Countable, FramesAccounted
  <2>2. ASSUME NEW f \in Frame, process_frame(f) PROVE Inv'
    <3>1. /\ pending = {} /\ UNCHANGED cancelled
          /\ processed_frames' = processed_frames + 1
      BY <2>2 DEF process_frame, Counted
    <3>2. session_cache' = OneMore(session_cache, f.source_ip)
      BY <2>2 DEF process_frame, Counted, OneMore
    <3>3. /\ IsFiniteSet(DOMAIN session_cache')
          /\ \A s \in DOMAIN session_cache' : session_cache'[s] \in Nat
          /\ Total(session_cache) \in Nat
          /\ Total(session_cache') = Total(session_cache) + 1
      BY <3>2, TotalCounted DEF Countable
    <3>4. \/ /\ pending' = {} /\ Cardinality(pending') = 0
             /\ Len(returned') = Len(returned) + 1
          \/ /\ pending' = {f} /\ Cardinality(pending') = 1
             /\ Len(returned') = Len(returned)
      <4>1. \/ pending' = {} /\ Len(returned') = Len(returned) + 1
            \/ pending' = {f} /\ Len(returned') = Len(returned)
        BY <2>2, <2>a, <3>1 DEF process_frame
      <4>. QED
        BY <2>e, <2>s, <4>1, Zenon
    <3>5. Countable'
      BY <3>1, <3>3, <3>4 DEF Countable
    <3>6. processed_frames' = Total(session_cache')
      BY <3>1, <3>3 DEF FramesAccounted
    <3>7. processed_frames = Len(returned) + cancelled /\ cancelled \in Nat
      <4>1. Cardinality(pending) = 0
        BY <2>e, <3>1, Zenon
      <4>. QED
        BY <2>0, <4>1 DEF FramesAccounted, Countable
    <3>8. processed_frames' = Len(returned') + cancelled' + Cardinality(pending')
      BY <2>0, <3>1, <3>4, <3>7
    <3>9. FramesAccounted'
      BY <3>6, <3>8 DEF FramesAccounted
    <3>. QED
      BY <3>5, <3>9
  <2>3. ASSUME NEW f \in pending, NEW reply \in Replies, Answer(f, reply) PROVE Inv'
    <3>1. Len(returned') = Len(returned) + 1 /\ pending' = {} /\ UNCHANGED <<counts, cancelled>>
      BY <2>3, <2>a DEF Answer
    <3>2. Cardinality(pending) = 1
      BY <2>s, Zenon DEF Countable
    <3>3. Cardinality(pending') = 0
      BY <2>e, <3>1, Zenon
    <3>4. Countable' /\ processed_frames' = Total(session_cache')
      BY <3>1 DEF counts, Countable, FramesAccounted
    <3>5. processed_frames = Len(returned) + cancelled + 1 /\ cancelled \in Nat
      BY <3>2 DEF Countable, FramesAccounted
    <3>6. processed_frames' = Len(returned') + cancelled' + Cardinality(pending')
      BY <2>0, <3>1, <3>3, <3>5 DEF counts
    <3>. QED
      BY <3>4, <3>6 DEF FramesAccounted
  <2>4. CASE Cancel
    <3>1. pending' = {} /\ cancelled' = cancelled + 1 /\ UNCHANGED <<counts, returned>>
      BY <2>4 DEF Cancel
    <3>2. Cardinality(pending) = 1
      BY <2>4, <2>s, Zenon DEF Cancel, Countable
    <3>3. Cardinality(pending') = 0
      BY <2>e, <3>1, Zenon
    <3>4. Countable' /\ processed_frames' = Total(session_cache')
      <4>1. UNCHANGED <<processed_frames, session_cache>>
        BY <3>1 DEF counts
      <4>2. cancelled' \in Nat
        BY <3>1 DEF Countable
      <4>3. Countable'
        BY <3>1, <4>1, <4>2 DEF Countable
      <4>. QED
        BY <4>1, <4>3 DEF FramesAccounted
    <3>5. processed_frames = Len(returned) + cancelled + 1 /\ cancelled \in Nat
      BY <3>2 DEF Countable, FramesAccounted
    <3>6. processed_frames' = Len(returned') + cancelled' + Cardinality(pending')
      <4>1. Len(returned') = Len(returned) /\ UNCHANGED processed_frames
        BY <3>1 DEF counts
      <4>. QED
        BY <2>0, <3>1, <3>3, <3>5, <4>1
    <3>. QED
      BY <3>4, <3>6 DEF FramesAccounted
  <2>. QED
    BY <2>1, <2>2, <2>3, <2>4 DEF Next, vars, initialize, generate_execution_log
<1>3. Inv => FramesAccounted
  OBVIOUS
<1>. HIDE DEF Inv
<1>. QED
  BY <1>1, <1>2, <1>3, IndCorrect, PTL DEF Spec

-----------------------------------------------------------------------------
(* The binary.                                                             *)

\* The gateway holds the binary's key, as it was sealed.
HasKey ==
  /\ api_key # "" /\ attested
  /\ sealed_data = api_key /\ qwen_api_key = {Lossy(api_key)}

\* What main knows at each of its places: before the key, before the frame, and from
\* the frame to the end.  There is one result and only once nothing is pending.
BinaryInv ==
  main # "library" =>
    /\ simulate \in BOOLEAN /\ live = ~simulate
    /\ main \in {"start", "frame", "answer", "ok", "failed"}
    /\ ~panicked
    /\ main = "start" => ~attested /\ sealed_data = "" /\ qwen_api_key = {}
    /\ main \in {"start", "frame"} => pending = {} /\ returned = <<>>
    /\ main \in {"frame", "answer"} => HasKey
    /\ main \in {"ok", "failed"} => pending = {}
    /\ pending # {} => live /\ returned = <<>>
    /\ main = "answer" /\ pending = {} => Len(returned) = 1
    /\ main = "ok" => Len(returned) = 1 /\ returned[1].ok
    /\ main = "failed" => returned = <<>> \/ (Len(returned) = 1 /\ ~returned[1].ok)
    /\ \A i \in 1..Len(returned) : returned[i].ok => returned[i].choices # 0

LEMMA BinaryInit == MainInit => BinaryInv
<1>. SUFFICES ASSUME MainInit, main # "library" PROVE BinaryInv
  BY DEF BinaryInv
<1>1. /\ main = "start" /\ live = ~simulate /\ simulate \in BOOLEAN
      /\ attested = FALSE /\ panicked = FALSE /\ sealed_data = "" /\ qwen_api_key = {}
      /\ pending = {} /\ returned = <<>>
  BY Zenon DEF MainInit, Init
<1>2. \A i \in 1..Len(returned) : returned[i].ok => returned[i].choices # 0
  <2>1. Len(returned) = 0
    BY <1>1
  <2>. QED
    BY <2>1
<1>. QED
  BY <1>1, <1>2 DEF BinaryInv

\* One result in an empty list.
LEMMA FirstResult ==
  ASSUME NEW r, returned = <<>>, returned' = Append(returned, r)
  PROVE  Len(returned') = 1 /\ returned'[1] = r
OBVIOUS

LEMMA BinaryNext == BinaryInv /\ [MainNext]_mainVars => BinaryInv'
<1>. SUFFICES ASSUME BinaryInv, [MainNext]_mainVars PROVE BinaryInv'
  OBVIOUS
<1>1. CASE NoKey
  BY <1>1 DEF NoKey, BinaryInv, vars, storage, counts, HasKey
<1>2. CASE Initialize
  <2>1. main = "start" /\ main' = "frame" /\ api_key # "" /\ UNCHANGED api_key
    BY <1>2 DEF Initialize, api_key
  <2>2. /\ attested' = TRUE /\ sealed_data' = api_key /\ qwen_api_key' = {Lossy(api_key)}
        /\ UNCHANGED <<live, pending, returned, panicked, simulate>>
    BY <1>2 DEF Initialize, initialize, counts
  <2>3. HasKey'
    BY <2>1, <2>2 DEF HasKey, Lossy
  <2>. QED
    BY <2>1, <2>2, <2>3 DEF BinaryInv
<1>3. CASE ProcessFrame
  <2>1. /\ main = "frame" /\ main' = "answer" /\ pending = {} /\ returned = <<>>
        /\ HasKey /\ live = ~simulate /\ simulate \in BOOLEAN /\ ~panicked
    BY <1>3 DEF ProcessFrame, BinaryInv
  <2>2. /\ UNCHANGED <<simulate, QWEN_API_KEY, storage, panicked>>
        /\ IF live THEN pending' = {MainFrame} /\ UNCHANGED returned
           ELSE returned' = Append(returned, Simulated(MainFrame)) /\ UNCHANGED pending
    BY <1>3, <2>1 DEF ProcessFrame, process_frame, HasKey
  <2>3. HasKey'
    BY <2>1, <2>2 DEF HasKey, storage, api_key, Lossy
  <2>4. CASE live
    BY <2>1, <2>2, <2>3, <2>4 DEF BinaryInv, storage
  <2>5. CASE ~live
    <3>. DEFINE r == Simulated(MainFrame)
    <3>1. r.choices = 1
      BY DEF Simulated, Response
    <3>2. returned' = Append(returned, r) /\ pending' = {}
      BY <2>1, <2>2, <2>5
    <3>. HIDE DEF r
    <3>3. Len(returned') = 1 /\ returned'[1] = r
      BY <2>1, <3>2, FirstResult
    <3>. QED
      BY <2>1, <2>2, <2>3, <3>1, <3>2, <3>3 DEF BinaryInv, storage
  <2>. QED
    BY <2>4, <2>5
<1>4. CASE Await
  <2>1. main = "answer" /\ HasKey /\ UNCHANGED <<main, simulate, QWEN_API_KEY>>
    BY <1>4 DEF Await, BinaryInv
  <2>2. PICK reply \in Replies : Answer(MainFrame, reply)
    BY <1>4 DEF Await
  <2>. DEFINE r == Outcome(MainFrame, reply)
  <2>3. /\ pending # {} /\ pending' = {} /\ returned' = Append(returned, r)
        /\ UNCHANGED <<storage, panicked>>
    BY <2>2 DEF Answer
  <2>4. r.ok => r.choices # 0
    <3>1. CASE reply.kind = "JSON" /\ reply.choices > 0
      <4>1. reply.choices # 0
        BY <3>1
      <4>. QED
        BY <3>1, <4>1 DEF Outcome, Response
    <3>2. CASE ~(reply.kind = "JSON" /\ reply.choices > 0)
      BY <3>2 DEF Outcome, Error
    <3>. QED
      BY <3>1, <3>2
  <2>. HIDE DEF r
  <2>5. Len(returned') = 1 /\ returned'[1] = r
    BY <2>1, <2>3, FirstResult DEF BinaryInv
  <2>6. HasKey'
    BY <2>1, <2>3 DEF HasKey, storage, api_key, Lossy
  <2>. QED
    BY <2>1, <2>3, <2>4, <2>5, <2>6 DEF BinaryInv, storage
<1>5. CASE Finish
  <2>1. /\ main = "answer" /\ pending = {} /\ Len(returned) = 1
        /\ UNCHANGED <<simulate, QWEN_API_KEY>>
    BY <1>5 DEF Finish, BinaryInv
  <2>2. CASE returned[1].ok
    <3>1. /\ main' = "ok" /\ panicked' = (panicked \/ returned[1].choices = 0)
          /\ UNCHANGED <<storage, pending, returned>>
      BY <1>5, <2>1, <2>2 DEF Finish, generate_execution_log
    <3>2. returned[1].choices # 0
      BY <2>1, <2>2 DEF BinaryInv
    <3>. QED
      BY <2>1, <2>2, <3>1, <3>2 DEF BinaryInv, storage
  <2>3. CASE ~returned[1].ok
    <3>1. main' = "failed" /\ UNCHANGED vars
      BY <1>5, <2>1, <2>3 DEF Finish
    <3>. QED
      BY <2>1, <2>3, <3>1 DEF BinaryInv, vars, storage
  <2>. QED
    BY <2>2, <2>3
<1>6. CASE main = "library" /\ main' = main
  BY <1>6 DEF BinaryInv
<1>7. CASE UNCHANGED mainVars
  BY <1>7 DEF mainVars, vars, storage, BinaryInv, HasKey, api_key, Lossy
<1>. QED
  BY <1>1, <1>2, <1>3, <1>4, <1>5, <1>6, <1>7 DEF MainNext

\* The binary calls the cloud only without --simulate and only under the key of its
\* environment, and it succeeds exactly when its frame was answered.
THEOREM OwnKey == MainSpec => []OwnKeyOrNoCall
<1>1. BinaryInv => OwnKeyOrNoCall
  <2>. SUFFICES ASSUME BinaryInv, main # "library" PROVE OwnKeyOrNoCall
    BY DEF OwnKeyOrNoCall
  <2>1. ASSUME pending # {}
        PROVE  ~simulate /\ qwen_api_key = {QWEN_API_KEY}
                 /\ unseal = [ok |-> TRUE, data |-> QWEN_API_KEY]
    <3>1. ~simulate /\ HasKey
      BY <2>1 DEF BinaryInv
    <3>2. api_key = QWEN_API_KEY /\ QWEN_API_KEY \notin NotUtf8
      BY <3>1 DEF HasKey, api_key
    <3>. QED
      BY <3>1, <3>2 DEF HasKey, Lossy, unseal
  <2>2. main = "ok" => Len(returned) = 1 /\ returned[1].ok /\ ~panicked
    BY DEF BinaryInv
  <2>3. ASSUME main = "failed", NEW i \in 1..Len(returned) PROVE ~returned[i].ok
    <3>1. returned = <<>> \/ (Len(returned) = 1 /\ ~returned[1].ok)
      BY <2>3 DEF BinaryInv
    <3>2. i = 1 /\ Len(returned) = 1
      BY <3>1
    <3>. QED
      BY <3>1, <3>2
  <2>. QED
    BY <2>1, <2>2, <2>3, Zenon DEF OwnKeyOrNoCall
<1>. QED
  BY <1>1, BinaryInit, BinaryNext, PTL DEF MainSpec

\* The binary only does what any user of the library may do, so all that is proved of
\* the library holds in its runs.
THEOREM BinaryUsesLibrary == MainSpec => Spec
<1>. DEFINE Inv == BinaryInv /\ QWEN_API_KEY \in Tokens
<1>1. MainInit => Inv /\ Init
  BY BinaryInit DEF MainInit
<1>2. Inv /\ [MainNext]_mainVars => Inv'
  <2>. SUFFICES ASSUME Inv, [MainNext]_mainVars PROVE Inv'
    OBVIOUS
  <2>1. UNCHANGED QWEN_API_KEY
    BY DEF MainNext, mainVars, NoKey, Initialize, ProcessFrame, Await, Finish
  <2>. QED
    BY <2>1, BinaryNext
<1>3. Inv /\ [MainNext]_mainVars => [Next]_vars
  <2>. SUFFICES ASSUME Inv, MainNext PROVE [Next]_vars
    BY DEF mainVars
  <2>1. CASE NoKey
    BY <2>1 DEF NoKey
  <2>2. CASE Initialize
    <3>1. PICK key : key = api_key
      OBVIOUS
    <3>2. key \in Tokens
      BY <2>2, <3>1, MainAssumption DEF Initialize, api_key
    <3>3. initialize(key, TRUE, TRUE)
      BY <2>2, <3>1 DEF Initialize, initialize
    <3>. QED
      BY <3>2, <3>3 DEF Next
  <2>3. CASE ProcessFrame
    BY <2>3, MainAssumption DEF ProcessFrame, Next
  <2>4. CASE Await
    BY <2>4 DEF Await, Answer, Next
  <2>5. CASE Finish
    <3>1. Len(returned) = 1
      BY <2>5 DEF Finish, BinaryInv
    <3>2. CASE returned[1].ok
      <4>1. generate_execution_log(returned[1]) /\ 1 \in 1..Len(returned)
        BY <2>5, <3>1, <3>2 DEF Finish
      <4>. QED
        BY <4>1 DEF Next
    <3>3. CASE ~returned[1].ok
      BY <2>5, <3>1, <3>3 DEF Finish
    <3>. QED
      BY <3>2, <3>3
  <2>. QED
    BY <2>1, <2>2, <2>3, <2>4, <2>5 DEF MainNext
<1>. HIDE DEF Inv
<1>. QED
  BY <1>1, <1>2, <1>3, PTL DEF MainSpec, Spec

\* In the binary's runs too the key stays the sealed token's, every frame is accounted
\* for, every response can be logged and offline request ids are unique.
THEOREM BinaryKeepsPromises ==
  MainSpec =>
    [](KeyIsSealedToken /\ FramesAccounted /\ AnswersLoggable /\ RequestIdsUnique)
BY BinaryUsesLibrary, KeySealed, FramesCounted, LoggingSafe, IdsUnique, PTL
=============================================================================
