----------------------- MODULE PolicyEvaluatorProofs -----------------------
(***************************************************************************)
(* Proofs about PolicyEvaluator, for constraint trees of any depth and     *)
(* width, any submissions and any mantissa: a verdict is the declarative   *)
(* meaning of the policy, a missing field that was not needed never flips  *)
(* one, and rounding never turns a comparison round.  With ZkProofs, whose *)
(* generator calls this evaluator: what a proof that was issued means.     *)
(***************************************************************************)
EXTENDS ZkProofsProofs, PolicyEvaluator, WellFoundedInduction, TLAPS

-----------------------------------------------------------------------------
(* Induction and recursion along a measure in Nat.                         *)

\* The least-number principle, for a set.
LEMMA Least ==
  ASSUME NEW T \in SUBSET Nat, T # {}
  PROVE  \E x \in T : \A y \in T : x <= y
<1>. DEFINE R == OpToRel(<, Nat)
<1>1. IsWellFoundedOn(R, Nat)
  BY NatLessThanWellFounded
<1>2. \A x, y \in Nat : x < y => <<x, y>> \in R
  BY DEF OpToRel
<1>. HIDE DEF R
<1>3. PICK x \in T : \A y \in T : ~ (<<y, x>> \in R)
  BY <1>1, WFMin
<1>4. ASSUME NEW y \in T PROVE x <= y
  <2>1. x \in Nat /\ y \in Nat /\ ~ (y < x)
    BY <1>2, <1>3
  <2>. QED
    BY <2>1
<1>. QED
  BY <1>4

\* Of a nonempty set, one element has the least measure.
LEMMA Lowest ==
  ASSUME NEW S, NEW m \in [S -> Nat], NEW B \in SUBSET S, B # {}
  PROVE  \E c \in B : \A d \in S : m[d] < m[c] => d \notin B
<1>. DEFINE T == {m[c] : c \in B}
<1>1. T \in SUBSET Nat /\ T # {}
  OBVIOUS
<1>2. PICK x \in T : \A y \in T : x <= y
  BY <1>1, Least
<1>3. PICK c \in B : x = m[c]
  OBVIOUS
<1>4. ASSUME NEW d \in S, m[d] < m[c], d \in B PROVE FALSE
  <2>1. m[d] \in T
    BY <1>4
  <2>2. m[c] <= m[d] /\ m[c] \in Nat /\ m[d] \in Nat
    BY <1>2, <1>3, <2>1
  <2>. QED
    BY <1>4, <2>2
<1>. QED
  BY <1>4

\* G gives an element a value from those of the elements of lower measure.
Descends(G, S, V, m) ==
  \A c \in S : \A f, g \in [S -> V] :
    (\A d \in S : m[d] < m[c] => f[d] = g[d]) => G[<<c, f>>] = G[<<c, g>>]

Solves(f, G, S) == \A c \in S : f[c] = G[<<c, f>>]

\* A function may be defined by its values at lower measures.
LEMMA Recursion ==
  ASSUME NEW S, NEW m \in [S -> Nat], NEW V, NEW v \in V,
         NEW G \in [S \X [S -> V] -> V], Descends(G, S, V, m)
  PROVE  \E f \in [S -> V] : Solves(f, G, S)
<1>. USE DEF Descends, Solves
<1>. DEFINE Upto(n, f) == \A c \in S : m[c] < n => f[c] = G[<<c, f>>]
            N == {n \in Nat : \E f \in [S -> V] : Upto(n, f)}
<1>1. \A f \in [S -> V] : \A c \in S : G[<<c, f>>] \in V
  OBVIOUS
<1>2. N = Nat
  <2>. SUFFICES ASSUME Nat \ N # {} PROVE FALSE
    OBVIOUS
  <2>1. PICK n \in Nat \ N : \A y \in Nat \ N : n <= y
    BY Least
  <2>2. n # 0
    <3>1. [c \in S |-> v] \in [S -> V] /\ Upto(0, [c \in S |-> v])
      OBVIOUS
    <3>2. 0 \in N
      BY <3>1
    <3>. QED
      BY <3>2
  <2>3. n - 1 \in N
    <3>1. n - 1 \in Nat /\ ~ (n <= n - 1)
      BY <2>2
    <3>. QED
      BY <2>1, <3>1
  <2>4. PICK f \in [S -> V] : Upto(n - 1, f)
    BY <2>3
  <2>. DEFINE g == [c \in S |-> IF m[c] < n - 1 THEN f[c] ELSE G[<<c, f>>]]
  <2>5. g \in [S -> V]
    BY <1>1
  <2>6. ASSUME NEW c \in S, m[c] < n PROVE g[c] = G[<<c, g>>]
    <3>1. \A d \in S : m[d] < m[c] => g[d] = f[d]
      <4>1. \A d \in S : m[d] < m[c] => m[d] < n - 1
        BY <2>6
      <4>. QED
        BY <4>1
    <3>2. G[<<c, g>>] = G[<<c, f>>]
      <4>. HIDE DEF g
      <4>. QED
        BY <2>5, <3>1
    <3>3. g[c] = G[<<c, f>>]
      BY <2>4
    <3>. QED
      BY <3>2, <3>3
  <2>7. Upto(n, g)
    BY <2>6
  <2>. HIDE DEF g, Upto
  <2>. QED
    BY <2>5, <2>7
<1>3. ASSUME NEW n \in Nat, NEW k \in Nat, NEW f \in [S -> V], NEW g \in [S -> V],
             Upto(n, f), Upto(k, g)
      PROVE  \A c \in S : m[c] < n /\ m[c] < k => f[c] = g[c]
  <2>. DEFINE B == {c \in S : m[c] < n /\ m[c] < k /\ f[c] # g[c]}
  <2>. SUFFICES ASSUME B # {} PROVE FALSE
    OBVIOUS
  <2>1. PICK c \in B : \A d \in S : m[d] < m[c] => d \notin B
    <3>1. B \in SUBSET S /\ B # {} /\ m \in [S -> Nat]
      OBVIOUS
    <3>. HIDE DEF B, Upto
    <3>. QED
      BY ONLY <3>1, Lowest
  <2>2. \A d \in S : m[d] < m[c] => f[d] = g[d]
    <3>1. m[c] \in Nat /\ m[c] < n /\ m[c] < k /\ \A d \in S : m[d] \in Nat
      OBVIOUS
    <3>. QED
      BY <2>1, <3>1
  <2>3. f[c] = G[<<c, f>>] /\ g[c] = G[<<c, g>>]
    BY <1>3
  <2>. QED
    BY <2>2, <2>3
<1>. DEFINE F(n) == CHOOSE f \in [S -> V] : Upto(n, f)
            h == [c \in S |-> F(m[c] + 1)[c]]
<1>4. \A n \in Nat : F(n) \in [S -> V] /\ Upto(n, F(n))
  BY <1>2
<1>. HIDE DEF F
<1>5. h \in [S -> V]
  BY <1>4
<1>6. ASSUME NEW c \in S PROVE h[c] = G[<<c, h>>]
  <2>. DEFINE f == F(m[c] + 1)
  <2>1. m[c] \in Nat /\ m[c] + 1 \in Nat /\ m[c] < m[c] + 1
    OBVIOUS
  <2>2. f \in [S -> V] /\ Upto(m[c] + 1, f)
    BY <1>4, <2>1
  <2>3. ASSUME NEW d \in S, m[d] < m[c] PROVE h[d] = f[d]
    <3>1. m[d] + 1 \in Nat /\ m[d] < m[d] + 1 /\ m[d] < m[c] + 1
      BY <2>3
    <3>2. F(m[d] + 1) \in [S -> V] /\ Upto(m[d] + 1, F(m[d] + 1))
      BY <1>4, <3>1
    <3>3. F(m[d] + 1)[d] = f[d]
      <4>. HIDE DEF f, Upto
      <4>. QED
        BY <1>3, <2>1, <2>2, <3>1, <3>2
    <3>. QED
      BY <3>3
  <2>4. h[c] = f[c] /\ f[c] = G[<<c, f>>]
    BY <2>1, <2>2
  <2>5. G[<<c, h>>] = G[<<c, f>>]
    <3>. HIDE DEF h, f
    <3>. QED
      BY <1>5, <2>2, <2>3
  <2>. QED
    BY <2>4, <2>5
<1>. QED
  BY <1>5, <1>6

-----------------------------------------------------------------------------
(* The evaluator's recursive definitions.                                  *)

Verdicts == {"true", "false", "MissingField", "InvalidOperator"}

\* What check_constraint makes of the verdicts f of the conditions.
CheckBody(c, action, f) ==
  CASE c.kind = "And" ->
         CheckInOrder([i \in 1..Len(c.conditions) |-> f[c.conditions[i]]], "true")
    [] c.kind = "Or" ->
         CheckInOrder([i \in 1..Len(c.conditions) |-> f[c.conditions[i]]], "false")
    [] c.kind = "Range"     -> CheckRange(c, action)
    [] c.kind = "Threshold" -> CheckThreshold(c, action)

SatBody(c, action, f) ==
  CASE c.kind = "And" -> \A i \in 1..Len(c.conditions) : f[c.conditions[i]]
    [] c.kind = "Or"  -> \E i \in 1..Len(c.conditions) : f[c.conditions[i]]
    [] c.kind = "Range" ->
         c.field \in DOMAIN action /\ action[c.field] \in c.min..c.max
    [] c.kind = "Threshold" ->
         /\ c.field \in DOMAIN action /\ c.operator \in Operators
         /\ Compare(action[c.field], c.operator, c.value)

FormedBody(c, action, f) ==
  IF c.kind \in {"And", "Or"}
  THEN \A i \in 1..Len(c.conditions) : f[c.conditions[i]]
  ELSE /\ c.field \in DOMAIN action
       /\ c.kind = "Threshold" => c.operator \in Operators

\* The conditions of a group are shallower constraints.
LEMMA GroupConditions ==
  ASSUME NEW c \in Conditions, c.kind \in {"And", "Or"}
  PROVE  /\ c.conditions \in Seq(Conditions) /\ Len(c.conditions) \in Nat
         /\ \A i \in 1..Len(c.conditions) :
              c.conditions[i] \in Conditions /\ Depth[c.conditions[i]] < Depth[c]
<1>1. /\ c.conditions \in Seq(Conditions)
      /\ \A i \in 1..Len(c.conditions) : Depth[c.conditions[i]] < Depth[c]
  BY ConditionsAssumption
<1>. QED
  BY <1>1

LEMMA KindsOf ==
  ASSUME NEW c \in Conditions
  PROVE  c.kind \in {"And", "Or", "Range", "Threshold"}
BY ConditionsAssumption

\* The verdicts of a list of conditions.
LEMMA VerdictList ==
  ASSUME NEW n \in Nat, NEW s, NEW f, \A i \in 1..n : f[s[i]] \in Verdicts,
         NEW vs, vs = [i \in 1..n |-> f[s[i]]]
  PROVE  /\ vs \in Seq(Verdicts) /\ Len(vs) = n
         /\ \A i \in 1..n : vs[i] = f[s[i]]
<1>1. vs \in [1..n -> Verdicts]
  OBVIOUS
<1>. QED
  BY <1>1

\* A loop ends at the first verdict other than go.
LEMMA InOrder ==
  ASSUME NEW vs \in Seq(Verdicts), NEW go \in Verdicts
  PROVE  /\ CheckInOrder(vs, go) \in Verdicts
         /\ \/ CheckInOrder(vs, go) = go /\ \A i \in 1..Len(vs) : vs[i] = go
            \/ \E k \in 1..Len(vs) : /\ CheckInOrder(vs, go) = vs[k] /\ vs[k] # go
                                     /\ \A j \in 1..(k - 1) : vs[j] = go
<1>. DEFINE ending == {i \in 1..Len(vs) : vs[i] # go}
<1>1. CASE ending = {}
  BY <1>1 DEF CheckInOrder
<1>2. CASE ending # {}
  <2>. DEFINE First(i) == \A j \in ending : i <= j
              k == CHOOSE i \in ending : First(i)
  <2>1. ending \in SUBSET Nat
    OBVIOUS
  <2>2. \E i \in ending : First(i)
    <3>. HIDE DEF ending
    <3>. QED
      BY <1>2, <2>1, Least
  <2>3. k \in ending /\ First(k)
    BY <2>2
  <2>4. CheckInOrder(vs, go) = vs[k]
    BY <1>2 DEF CheckInOrder
  <2>. HIDE DEF k
  <2>5. k \in 1..Len(vs) /\ vs[k] # go /\ vs[k] \in Verdicts
    BY <2>3
  <2>6. ASSUME NEW j \in 1..(k - 1) PROVE vs[j] = go
    <3>1. j \in 1..Len(vs) /\ ~ (k <= j)
      BY <2>5
    <3>. QED
      BY <2>3, <3>1
  <2>. QED
    BY <2>4, <2>5, <2>6
<1>. QED
  BY <1>1, <1>2

LEMMA CheckBodyType ==
  ASSUME NEW c \in Conditions, NEW action, NEW f,
         \A d \in Conditions : Depth[d] < Depth[c] => f[d] \in Verdicts
  PROVE  CheckBody(c, action, f) \in Verdicts
<1>1. CASE c.kind \in {"And", "Or"}
  <2>1. PICK vs : vs = [i \in 1..Len(c.conditions) |-> f[c.conditions[i]]]
    OBVIOUS
  <2>2. vs \in Seq(Verdicts)
    BY <1>1, <2>1, GroupConditions, VerdictList
  <2>3. CheckInOrder(vs, "true") \in Verdicts /\ CheckInOrder(vs, "false") \in Verdicts
    BY <2>2, InOrder DEF Verdicts
  <2>4. CheckBody(c, action, f) \in {CheckInOrder(vs, "true"), CheckInOrder(vs, "false")}
    BY <1>1, <2>1 DEF CheckBody
  <2>. QED
    BY <2>3, <2>4
<1>2. CASE c.kind = "Range"
  BY <1>2 DEF CheckBody, CheckRange, Decided, Verdicts
<1>3. CASE c.kind = "Threshold"
  BY <1>3 DEF CheckBody, CheckThreshold, Decided, Verdicts
<1>. QED
  BY <1>1, <1>2, <1>3, KindsOf

LEMMA CheckBodyLocal ==
  ASSUME NEW c \in Conditions, NEW action, NEW f, NEW g,
         \A d \in Conditions : Depth[d] < Depth[c] => f[d] = g[d]
  PROVE  /\ CheckBody(c, action, f) = CheckBody(c, action, g)
         /\ SatBody(c, action, f) = SatBody(c, action, g)
         /\ FormedBody(c, action, f) = FormedBody(c, action, g)
<1>1. CASE c.kind \in {"And", "Or"}
  <2>1. \A i \in 1..Len(c.conditions) : f[c.conditions[i]] = g[c.conditions[i]]
    BY <1>1, GroupConditions
  <2>2. [i \in 1..Len(c.conditions) |-> f[c.conditions[i]]]
          = [i \in 1..Len(c.conditions) |-> g[c.conditions[i]]]
    BY <2>1
  <2>3. CheckBody(c, action, f) = CheckBody(c, action, g)
    BY <1>1, <2>2, Zenon DEF CheckBody
  <2>4. SatBody(c, action, f) = SatBody(c, action, g)
    BY <1>1, <2>1, Zenon DEF SatBody
  <2>5. FormedBody(c, action, f) = FormedBody(c, action, g)
    BY <1>1, <2>1, Zenon DEF FormedBody
  <2>. QED
    BY <2>3, <2>4, <2>5
<1>2. CASE c.kind \in {"Range", "Threshold"}
  BY <1>2, Zenon DEF CheckBody, SatBody, FormedBody
<1>. QED
  BY <1>1, <1>2, KindsOf

\* check_constraint gives every constraint what it makes of its conditions' verdicts.
LEMMA CheckIs ==
  ASSUME NEW action
  PROVE  \E f \in [Conditions -> Verdicts] : \A c \in Conditions :
           check_constraint(c, action) = f[c] /\ f[c] = CheckBody(c, action, f)
<1>. DEFINE G == [p \in Conditions \X [Conditions -> Verdicts] |-> CheckBody(p[1], action, p[2])]
<1>0. Depth \in [Conditions -> Nat] /\ "true" \in Verdicts
  BY ConditionsAssumption DEF Verdicts
<1>1. G \in [Conditions \X [Conditions -> Verdicts] -> Verdicts]
  BY CheckBodyType
<1>2. \A c \in Conditions : \A f \in [Conditions -> Verdicts] :
        G[<<c, f>>] = CheckBody(c, action, f)
  OBVIOUS
<1>. HIDE DEF G
<1>3. Descends(G, Conditions, Verdicts, Depth)
  BY <1>2, CheckBodyLocal DEF Descends
<1>4. PICK f \in [Conditions -> Verdicts] : Solves(f, G, Conditions)
  BY ONLY <1>0, <1>1, <1>3, Recursion
<1>. DEFINE Eq(k) == k = [c \in Conditions |-> CheckBody(c, action, k)]
            check == CHOOSE k : Eq(k)
<1>5. Eq(f)
  BY <1>2, <1>4 DEF Solves
<1>6. Eq(check)
  BY <1>5
<1>7. \A c : check_constraint(c, action) = check[c]
  BY DEF check_constraint, CheckBody
<1>. HIDE DEF check
<1>8. \A c \in Conditions : check[c] = CheckBody(c, action, check)
  BY <1>6
<1>9. \A c \in Conditions : check[c] \in Verdicts
  <2>. DEFINE B == {c \in Conditions : check[c] \notin Verdicts}
  <2>. SUFFICES ASSUME B # {} PROVE FALSE
    OBVIOUS
  <2>0. B # {}
    OBVIOUS
  <2>1. PICK c \in B : \A d \in Conditions : Depth[d] < Depth[c] => d \notin B
    <3>1. B \in SUBSET Conditions
      OBVIOUS
    <3>. HIDE DEF B
    <3>. QED
      BY ONLY <1>0, <2>0, <3>1, Lowest
  <2>2. \A d \in Conditions : Depth[d] < Depth[c] => check[d] \in Verdicts
    BY <2>1
  <2>. QED
    BY <1>8, <2>2, CheckBodyType
<1>10. check \in [Conditions -> Verdicts]
  BY <1>6, <1>8, <1>9
<1>. QED
  BY <1>7, <1>8, <1>10

LEMMA BodiesBoolean ==
  ASSUME NEW c \in Conditions, NEW action, NEW f
  PROVE  SatBody(c, action, f) \in BOOLEAN /\ FormedBody(c, action, f) \in BOOLEAN
<1>1. CASE c.kind = "And"
  BY <1>1, Zenon DEF SatBody, FormedBody
<1>2. CASE c.kind = "Or"
  BY <1>2, Zenon DEF SatBody, FormedBody
<1>3. CASE c.kind = "Range"
  BY <1>3, Zenon DEF SatBody, FormedBody
<1>4. CASE c.kind = "Threshold"
  BY <1>4, Zenon DEF SatBody, FormedBody
<1>. QED
  BY <1>1, <1>2, <1>3, <1>4, KindsOf

\* Satisfies and WellFormed likewise.
LEMMA SatisfiesIs ==
  ASSUME NEW action
  PROVE  \E f \in [Conditions -> BOOLEAN] : \A c \in Conditions :
           Satisfies(c, action) = f[c] /\ f[c] = SatBody(c, action, f)
<1>. DEFINE G == [p \in Conditions \X [Conditions -> BOOLEAN] |-> SatBody(p[1], action, p[2])]
<1>0. Depth \in [Conditions -> Nat] /\ TRUE \in BOOLEAN
  BY ConditionsAssumption
<1>1. \A c \in Conditions : \A f : 
        (\A d \in Conditions : Depth[d] < Depth[c] => f[d] \in BOOLEAN)
          => SatBody(c, action, f) \in BOOLEAN
  BY BodiesBoolean
<1>2. G \in [Conditions \X [Conditions -> BOOLEAN] -> BOOLEAN]
  BY <1>1
<1>3. \A c \in Conditions : \A f \in [Conditions -> BOOLEAN] :
        G[<<c, f>>] = SatBody(c, action, f)
  BY Zenon
<1>. HIDE DEF G
<1>4. ASSUME NEW c \in Conditions, NEW f \in [Conditions -> BOOLEAN],
             NEW g \in [Conditions -> BOOLEAN],
             \A d \in Conditions : Depth[d] < Depth[c] => f[d] = g[d]
      PROVE  G[<<c, f>>] = G[<<c, g>>]
  <2>1. SatBody(c, action, f) = SatBody(c, action, g)
    BY <1>4, CheckBodyLocal
  <2>. QED
    BY <1>3, <2>1, Zenon
<1>5. PICK f \in [Conditions -> BOOLEAN] : Solves(f, G, Conditions)
  <2>1. PICK V : V = BOOLEAN
    OBVIOUS
  <2>2. G \in [Conditions \X [Conditions -> V] -> V] /\ TRUE \in V
    BY <1>2, <2>1, Zenon
  <2>3. Descends(G, Conditions, V, Depth)
    BY <1>4, <2>1, Zenon DEF Descends
  <2>4. \E f \in [Conditions -> V] : Solves(f, G, Conditions)
    BY ONLY <1>0, <2>2, <2>3, Recursion
  <2>. QED
    BY <2>1, <2>4, Zenon
<1>. DEFINE Eq(k) == k = [c \in Conditions |-> SatBody(c, action, k)]
            sat == CHOOSE k : Eq(k)
<1>6. Eq(f)
  <2>1. f = [c \in Conditions |-> f[c]]
    OBVIOUS
  <2>2. \A c \in Conditions : f[c] = SatBody(c, action, f)
    BY <1>3, <1>5, Zenon DEF Solves
  <2>. QED
    BY <2>1, <2>2, Zenon
<1>7. Eq(sat)
  BY <1>6, Zenon
<1>8. \A c : Satisfies(c, action) = sat[c]
  BY Zenon DEF Satisfies, SatBody
<1>. HIDE DEF sat
<1>9. \A c \in Conditions : sat[c] = SatBody(c, action, sat)
  BY <1>7, Zenon
<1>10. \A c \in Conditions : sat[c] \in BOOLEAN
  <2>1. \A c \in Conditions : \A g : SatBody(c, action, g) \in BOOLEAN
    BY BodiesBoolean
  <2>. QED
    BY <1>9, <2>1
<1>11. sat \in [Conditions -> BOOLEAN]
  BY <1>7, <1>10
<1>. QED
  BY <1>8, <1>9, <1>11, Zenon

LEMMA WellFormedIs ==
  ASSUME NEW action
  PROVE  \E f \in [Conditions -> BOOLEAN] : \A c \in Conditions :
           WellFormed(c, action) = f[c] /\ f[c] = FormedBody(c, action, f)
<1>. DEFINE G == [p \in Conditions \X [Conditions -> BOOLEAN] |-> FormedBody(p[1], action, p[2])]
<1>0. Depth \in [Conditions -> Nat] /\ TRUE \in BOOLEAN
  BY ConditionsAssumption
<1>1. \A c \in Conditions : \A f : 
        (\A d \in Conditions : Depth[d] < Depth[c] => f[d] \in BOOLEAN)
          => FormedBody(c, action, f) \in BOOLEAN
  BY BodiesBoolean
<1>2. G \in [Conditions \X [Conditions -> BOOLEAN] -> BOOLEAN]
  BY <1>1
<1>3. \A c \in Conditions : \A f \in [Conditions -> BOOLEAN] :
        G[<<c, f>>] = FormedBody(c, action, f)
  BY Zenon
<1>. HIDE DEF G
<1>4. ASSUME NEW c \in Conditions, NEW f \in [Conditions -> BOOLEAN],
             NEW g \in [Conditions -> BOOLEAN],
             \A d \in Conditions : Depth[d] < Depth[c] => f[d] = g[d]
      PROVE  G[<<c, f>>] = G[<<c, g>>]
  <2>1. FormedBody(c, action, f) = FormedBody(c, action, g)
    BY <1>4, CheckBodyLocal
  <2>. QED
    BY <1>3, <2>1, Zenon
<1>5. PICK f \in [Conditions -> BOOLEAN] : Solves(f, G, Conditions)
  <2>1. PICK V : V = BOOLEAN
    OBVIOUS
  <2>2. G \in [Conditions \X [Conditions -> V] -> V] /\ TRUE \in V
    BY <1>2, <2>1, Zenon
  <2>3. Descends(G, Conditions, V, Depth)
    BY <1>4, <2>1, Zenon DEF Descends
  <2>4. \E f \in [Conditions -> V] : Solves(f, G, Conditions)
    BY ONLY <1>0, <2>2, <2>3, Recursion
  <2>. QED
    BY <2>1, <2>4, Zenon
<1>. DEFINE Eq(k) == k = [c \in Conditions |-> FormedBody(c, action, k)]
            formed == CHOOSE k : Eq(k)
<1>6. Eq(f)
  <2>1. f = [c \in Conditions |-> f[c]]
    OBVIOUS
  <2>2. \A c \in Conditions : f[c] = FormedBody(c, action, f)
    BY <1>3, <1>5, Zenon DEF Solves
  <2>. QED
    BY <2>1, <2>2, Zenon
<1>7. Eq(formed)
  BY <1>6, Zenon
<1>8. \A c : WellFormed(c, action) = formed[c]
  BY Zenon DEF WellFormed, FormedBody
<1>. HIDE DEF formed
<1>9. \A c \in Conditions : formed[c] = FormedBody(c, action, formed)
  BY <1>7, Zenon
<1>10. \A c \in Conditions : formed[c] \in BOOLEAN
  <2>1. \A c \in Conditions : \A g : FormedBody(c, action, g) \in BOOLEAN
    BY BodiesBoolean
  <2>. QED
    BY <1>9, <2>1
<1>11. formed \in [Conditions -> BOOLEAN]
  BY <1>7, <1>10
<1>. QED
  BY <1>8, <1>9, <1>11, Zenon

\* The verdict of a group, from those of its conditions.
LEMMA GroupVerdict ==
  ASSUME NEW c \in Conditions, NEW action, NEW f \in [Conditions -> Verdicts],
         NEW go \in Verdicts,
         \/ c.kind = "And" /\ go = "true"
         \/ c.kind = "Or" /\ go = "false"
  PROVE  \/ /\ CheckBody(c, action, f) = go
            /\ \A i \in 1..Len(c.conditions) : f[c.conditions[i]] = go
         \/ \E k \in 1..Len(c.conditions) :
              /\ CheckBody(c, action, f) = f[c.conditions[k]] /\ f[c.conditions[k]] # go
              /\ \A j \in 1..(k - 1) : f[c.conditions[j]] = go
<1>1. PICK vs : vs = [i \in 1..Len(c.conditions) |-> f[c.conditions[i]]]
  OBVIOUS
<1>2. /\ vs \in Seq(Verdicts) /\ Len(vs) = Len(c.conditions)
      /\ \A i \in 1..Len(c.conditions) : vs[i] = f[c.conditions[i]]
  <2>1. \A i \in 1..Len(c.conditions) : f[c.conditions[i]] \in Verdicts
    BY GroupConditions
  <2>. QED
    BY <1>1, <2>1, GroupConditions, VerdictList
<1>3. CheckBody(c, action, f) = CheckInOrder(vs, go)
  BY <1>1, Zenon DEF CheckBody
<1>4. CASE CheckInOrder(vs, go) = go /\ \A i \in 1..Len(vs) : vs[i] = go
  BY <1>2, <1>3, <1>4
<1>5. CASE \E k \in 1..Len(vs) : /\ CheckInOrder(vs, go) = vs[k] /\ vs[k] # go
                                 /\ \A j \in 1..(k - 1) : vs[j] = go
  <2>1. PICK k \in 1..Len(vs) : /\ CheckInOrder(vs, go) = vs[k] /\ vs[k] # go
                                /\ \A j \in 1..(k - 1) : vs[j] = go
    BY <1>5
  <2>2. k \in 1..Len(c.conditions) /\ \A j \in 1..(k - 1) : j \in 1..Len(c.conditions)
    BY <1>2, <2>1, GroupConditions
  <2>. QED
    BY <1>2, <1>3, <2>1, <2>2
<1>. QED
  BY <1>2, <1>4, <1>5, InOrder

\* The submitted numbers are numbers a float holds.
Held(action) == \A f \in DOMAIN action : action[f] \in Int /\ AsFloat(action[f]) = action[f]

\* A constraint on one field decides as its meaning does.
LEMMA LeafMeaning ==
  ASSUME NEW c \in Conditions, c.kind \in {"Range", "Threshold"}, NEW action, Held(action),
         NEW f, NEW g
  PROVE  /\ CheckBody(c, action, f) = "true" => SatBody(c, action, g)
         /\ CheckBody(c, action, f) = "false" => ~SatBody(c, action, g)
<1>1. CASE c.kind = "Range"
  <2>1. c.min \in Int /\ c.max \in Int
    BY <1>1, ConditionsAssumption
  <2>2. CheckBody(c, action, f) = CheckRange(c, action)
    BY <1>1, Zenon DEF CheckBody
  <2>3. SatBody(c, action, g) <=> c.field \in DOMAIN action /\ action[c.field] \in c.min..c.max
    BY <1>1, Zenon DEF SatBody
  <2>4. c.field \in DOMAIN action => action[c.field] \in Int
    BY DEF Held
  <2>. QED
    BY <2>1, <2>2, <2>3, <2>4 DEF CheckRange, Decided
<1>2. CASE c.kind = "Threshold"
  <2>1. CheckBody(c, action, f) = CheckThreshold(c, action)
    BY <1>2, Zenon DEF CheckBody
  <2>2. SatBody(c, action, g) <=>
          /\ c.field \in DOMAIN action /\ c.operator \in Operators
          /\ Compare(action[c.field], c.operator, c.value)
    BY <1>2, Zenon DEF SatBody
  <2>3. c.field \in DOMAIN action => AsFloat(action[c.field]) = action[c.field]
    BY DEF Held
  <2>4. CASE c.field \in DOMAIN action /\ c.operator \in Operators
    <3>1. CheckThreshold(c, action) = Decided(Compare(action[c.field], c.operator, c.value))
      BY <2>3, <2>4, Zenon DEF CheckThreshold
    <3>. QED
      BY <2>1, <2>2, <2>4, <3>1 DEF Decided
  <2>5. CASE c.field \notin DOMAIN action \/ c.operator \notin Operators
    <3>1. CheckThreshold(c, action) \in {"MissingField", "InvalidOperator"}
      BY <2>5 DEF CheckThreshold
    <3>. QED
      BY <2>1, <3>1
  <2>. QED
    BY <2>4, <2>5
<1>. QED
  BY <1>1, <1>2

\* Trees of constraints: a decided verdict is the meaning's.
LEMMA DecisionIsMeaning ==
  ASSUME NEW action, Held(action), NEW c \in Conditions
  PROVE  /\ check_constraint(c, action) = "true" => Satisfies(c, action)
         /\ check_constraint(c, action) = "false" => ~Satisfies(c, action)
<1>1. PICK f \in [Conditions -> Verdicts] : \A d \in Conditions :
             check_constraint(d, action) = f[d] /\ f[d] = CheckBody(d, action, f)
  BY CheckIs
<1>2. PICK g \in [Conditions -> BOOLEAN] : \A d \in Conditions :
             Satisfies(d, action) = g[d] /\ g[d] = SatBody(d, action, g)
  BY SatisfiesIs
<1>. DEFINE Right(d) == (f[d] = "true" => g[d]) /\ (f[d] = "false" => ~g[d])
            B == {d \in Conditions : ~Right(d)}
<1>3. ASSUME NEW d \in Conditions, \A e \in Conditions : Depth[e] < Depth[d] => Right(e)
      PROVE  Right(d)
  <2>1. CASE d.kind = "And"
    <3>1. \A i \in 1..Len(d.conditions) : Right(d.conditions[i])
      BY <1>3, <2>1, GroupConditions
    <3>2. g[d] <=> \A i \in 1..Len(d.conditions) : g[d.conditions[i]]
      BY <1>2, <2>1, Zenon DEF SatBody
    <3>3. \/ f[d] = "true" /\ \A i \in 1..Len(d.conditions) : f[d.conditions[i]] = "true"
          \/ \E k \in 1..Len(d.conditions) : f[d] = f[d.conditions[k]] /\ f[d.conditions[k]] # "true"
      BY <1>1, <2>1, GroupVerdict DEF Verdicts
    <3>. QED
      BY <3>1, <3>2, <3>3, Zenon
  <2>2. CASE d.kind = "Or"
    <3>1. \A i \in 1..Len(d.conditions) : Right(d.conditions[i])
      BY <1>3, <2>2, GroupConditions
    <3>2. g[d] <=> \E i \in 1..Len(d.conditions) : g[d.conditions[i]]
      BY <1>2, <2>2, Zenon DEF SatBody
    <3>3. \/ f[d] = "false" /\ \A i \in 1..Len(d.conditions) : f[d.conditions[i]] = "false"
          \/ \E k \in 1..Len(d.conditions) : f[d] = f[d.conditions[k]] /\ f[d.conditions[k]] # "false"
      BY <1>1, <2>2, GroupVerdict DEF Verdicts
    <3>4. "true" # "false"
      OBVIOUS
    <3>. QED
      BY <3>1, <3>2, <3>3, <3>4, Zenon
  <2>3. CASE d.kind \in {"Range", "Threshold"}
    <3>1. /\ CheckBody(d, action, f) = "true" => SatBody(d, action, g)
          /\ CheckBody(d, action, f) = "false" => ~SatBody(d, action, g)
      BY <2>3, LeafMeaning
    <3>. QED
      BY <1>1, <1>2, <3>1, Zenon
  <2>. QED
    BY <2>1, <2>2, <2>3, KindsOf
<1>4. B = {}
  <2>. SUFFICES ASSUME B # {} PROVE FALSE
    OBVIOUS
  <2>1. B \in SUBSET Conditions /\ B # {} /\ Depth \in [Conditions -> Nat]
    BY ConditionsAssumption
  <2>2. PICK d \in B : \A e \in Conditions : Depth[e] < Depth[d] => e \notin B
    <3>. HIDE DEF B
    <3>. QED
      BY ONLY <2>1, Lowest
  <2>. QED
    BY <1>3, <2>2
<1>. QED
  BY <1>1, <1>2, <1>4, Zenon

\* The evaluator fails only on ill-formed constraints.
LEMMA ErrorIsIllFormed ==
  ASSUME NEW action, NEW c \in Conditions, check_constraint(c, action) \notin {"true", "false"}
  PROVE  ~WellFormed(c, action)
<1>1. PICK f \in [Conditions -> Verdicts] : \A d \in Conditions :
             check_constraint(d, action) = f[d] /\ f[d] = CheckBody(d, action, f)
  BY CheckIs
<1>2. PICK g \in [Conditions -> BOOLEAN] : \A d \in Conditions :
             WellFormed(d, action) = g[d] /\ g[d] = FormedBody(d, action, g)
  BY WellFormedIs
<1>. DEFINE Fails(d) == f[d] \notin {"true", "false"}
            B == {d \in Conditions : Fails(d) /\ g[d]}
<1>3. ASSUME NEW d \in Conditions, Fails(d),
             \A e \in Conditions : Depth[e] < Depth[d] => e \notin B
      PROVE  ~g[d]
  <2>1. CASE d.kind \in {"And", "Or"}
    <3>1. \E k \in 1..Len(d.conditions) : f[d] = f[d.conditions[k]]
      BY <1>1, <1>3, <2>1, GroupVerdict DEF Verdicts
    <3>2. PICK k \in 1..Len(d.conditions) : f[d] = f[d.conditions[k]]
      BY <3>1
    <3>3. d.conditions[k] \in Conditions /\ Depth[d.conditions[k]] < Depth[d]
      BY <2>1, GroupConditions
    <3>4. Fails(d.conditions[k])
      BY <1>3, <3>2
    <3>5. ~g[d.conditions[k]]
      BY <1>3, <3>3, <3>4, Zenon
    <3>6. g[d] => \A i \in 1..Len(d.conditions) : g[d.conditions[i]]
      BY <1>2, <2>1, Zenon DEF FormedBody
    <3>. QED
      BY <3>5, <3>6, Zenon
  <2>2. CASE d.kind = "Range"
    <3>1. f[d] = CheckRange(d, action)
      BY <1>1, <2>2, Zenon DEF CheckBody
    <3>2. d.field \notin DOMAIN action
      BY <1>3, <3>1 DEF CheckRange, Decided
    <3>3. g[d] => d.field \in DOMAIN action
      BY <1>2, <2>2 DEF FormedBody
    <3>. QED
      BY <3>2, <3>3
  <2>3. CASE d.kind = "Threshold"
    <3>1. f[d] = CheckThreshold(d, action)
      BY <1>1, <2>3, Zenon DEF CheckBody
    <3>2. d.field \notin DOMAIN action \/ d.operator \notin Operators
      BY <1>3, <3>1 DEF CheckThreshold, Decided
    <3>3. g[d] => d.field \in DOMAIN action /\ d.operator \in Operators
      BY <1>2, <2>3 DEF FormedBody
    <3>. QED
      BY <3>2, <3>3
  <2>. QED
    BY <2>1, <2>2, <2>3, KindsOf
<1>4. B = {}
  <2>. SUFFICES ASSUME B # {} PROVE FALSE
    OBVIOUS
  <2>1. B \in SUBSET Conditions /\ B # {} /\ Depth \in [Conditions -> Nat]
    BY ConditionsAssumption
  <2>2. PICK d \in B : \A e \in Conditions : Depth[e] < Depth[d] => e \notin B
    <3>. HIDE DEF B
    <3>. QED
      BY ONLY <2>1, Lowest
  <2>. QED
    BY <1>3, <2>2
<1>. QED
  BY <1>1, <1>2, <1>4, Zenon

\* What an action knows, a fuller one knows too.
Extends(more, action) ==
  \A f \in DOMAIN action : f \in DOMAIN more /\ more[f] = action[f]

\* A decided verdict never depends on the fields that were not there.
LEMMA DecisionStays ==
  ASSUME NEW action, NEW more, Extends(more, action), NEW c \in Conditions,
         check_constraint(c, action) \in {"true", "false"}
  PROVE  check_constraint(c, more) = check_constraint(c, action)
<1>1. PICK f \in [Conditions -> Verdicts] : \A d \in Conditions :
             check_constraint(d, action) = f[d] /\ f[d] = CheckBody(d, action, f)
  BY CheckIs
<1>2. PICK g \in [Conditions -> Verdicts] : \A d \in Conditions :
             check_constraint(d, more) = g[d] /\ g[d] = CheckBody(d, more, g)
  BY CheckIs
<1>. DEFINE Flips(d) == f[d] \in {"true", "false"} /\ g[d] # f[d]
            B == {d \in Conditions : Flips(d)}
<1>3. ASSUME NEW d \in Conditions, f[d] \in {"true", "false"},
             \A e \in Conditions : Depth[e] < Depth[d] => ~Flips(e)
      PROVE  g[d] = f[d]
  <2>1. CASE d.kind \in {"And", "Or"}
    <3>1. PICK go \in {"true", "false"} : \/ d.kind = "And" /\ go = "true"
                                          \/ d.kind = "Or" /\ go = "false"
      BY <2>1
    <3>2. go \in Verdicts
      BY <3>1 DEF Verdicts
    <3>3. \A i \in 1..Len(d.conditions) : ~Flips(d.conditions[i])
      BY <1>3, <2>1, GroupConditions
    <3>4. \/ f[d] = go /\ \A i \in 1..Len(d.conditions) : f[d.conditions[i]] = go
          \/ \E k \in 1..Len(d.conditions) :
               /\ f[d] = f[d.conditions[k]] /\ f[d.conditions[k]] # go
               /\ \A j \in 1..(k - 1) : f[d.conditions[j]] = go
      BY <1>1, <3>1, <3>2, GroupVerdict
    <3>5. \/ g[d] = go /\ \A i \in 1..Len(d.conditions) : g[d.conditions[i]] = go
          \/ \E k \in 1..Len(d.conditions) :
               /\ g[d] = g[d.conditions[k]] /\ g[d.conditions[k]] # go
               /\ \A j \in 1..(k - 1) : g[d.conditions[j]] = go
      BY <1>2, <3>1, <3>2, GroupVerdict
    <3>6. CASE f[d] = go /\ \A i \in 1..Len(d.conditions) : f[d.conditions[i]] = go
      <4>1. \A i \in 1..Len(d.conditions) : g[d.conditions[i]] = go
        BY <3>1, <3>3, <3>6
      <4>. QED
        BY <3>5, <3>6, <4>1
    <3>7. CASE \E k \in 1..Len(d.conditions) :
               /\ f[d] = f[d.conditions[k]] /\ f[d.conditions[k]] # go
               /\ \A j \in 1..(k - 1) : f[d.conditions[j]] = go
      <4>1. PICK k \in 1..Len(d.conditions) :
               /\ f[d] = f[d.conditions[k]] /\ f[d.conditions[k]] # go
               /\ \A j \in 1..(k - 1) : f[d.conditions[j]] = go
        BY <3>7
      <4>2. g[d.conditions[k]] = f[d.conditions[k]]
        BY <1>3, <3>3, <4>1
      <4>3. \A j \in 1..(k - 1) : g[d.conditions[j]] = go
        <5>1. \A j \in 1..(k - 1) : j \in 1..Len(d.conditions)
          BY <2>1, GroupConditions
        <5>. QED
          BY <3>1, <3>3, <4>1, <5>1
      <4>4. PICK l \in 1..Len(d.conditions) :
               /\ g[d] = g[d.conditions[l]] /\ g[d.conditions[l]] # go
               /\ \A j \in 1..(l - 1) : g[d.conditions[j]] = go
        BY <3>5, <4>1, <4>2
      <4>5. l = k
        <5>1. k \in Nat /\ l \in Nat /\ 1 <= k /\ 1 <= l
          OBVIOUS
        <5>2. ~ (l \in 1..(k - 1)) /\ ~ (k \in 1..(l - 1))
          BY <4>1, <4>2, <4>3, <4>4
        <5>. QED
          BY <5>1, <5>2
      <4>. QED
        BY <4>1, <4>2, <4>4, <4>5
    <3>. QED
      BY <3>4, <3>6, <3>7
  <2>2. CASE d.kind = "Range"
    <3>1. f[d] = CheckRange(d, action) /\ g[d] = CheckRange(d, more)
      BY <1>1, <1>2, <2>2, Zenon DEF CheckBody
    <3>2. d.field \in DOMAIN action
      BY <1>3, <3>1 DEF CheckRange
    <3>3. d.field \in DOMAIN more /\ more[d.field] = action[d.field]
      BY <3>2 DEF Extends
    <3>. QED
      BY <3>1, <3>2, <3>3, Zenon DEF CheckRange
  <2>3. CASE d.kind = "Threshold"
    <3>1. f[d] = CheckThreshold(d, action) /\ g[d] = CheckThreshold(d, more)
      BY <1>1, <1>2, <2>3, Zenon DEF CheckBody
    <3>2. d.field \in DOMAIN action
      BY <1>3, <3>1 DEF CheckThreshold
    <3>3. d.field \in DOMAIN more /\ more[d.field] = action[d.field]
      BY <3>2 DEF Extends
    <3>. QED
      BY <3>1, <3>2, <3>3, Zenon DEF CheckThreshold
  <2>. QED
    BY <2>1, <2>2, <2>3, KindsOf
<1>4. B = {}
  <2>. SUFFICES ASSUME B # {} PROVE FALSE
    OBVIOUS
  <2>1. B \in SUBSET Conditions /\ B # {} /\ Depth \in [Conditions -> Nat]
    BY ConditionsAssumption
  <2>2. PICK d \in B : \A e \in Conditions : Depth[e] < Depth[d] => e \notin B
    <3>. HIDE DEF B
    <3>. QED
      BY ONLY <2>1, Lowest
  <2>. QED
    BY <1>3, <2>2
<1>. QED
  BY <1>1, <1>2, <1>4

-----------------------------------------------------------------------------
(* Powers of two, and the rounding of i64 to f64.                          *)

LEMMA NatInduct ==
  ASSUME NEW T \in SUBSET Nat, 0 \in T, \A n \in T : n + 1 \in T
  PROVE  T = Nat
<1>. SUFFICES ASSUME Nat \ T # {} PROVE FALSE
  OBVIOUS
<1>1. PICK n \in Nat \ T : \A y \in Nat \ T : n <= y
  BY Least
<1>2. n # 0 /\ n - 1 \in Nat /\ ~ (n <= n - 1) /\ (n - 1) + 1 = n
  BY <1>1
<1>. QED
  BY <1>1, <1>2

\* The recursive equation of Pow2.
LEMMA Pow2Is ==
  /\ Pow2 \in [Nat -> Nat]
  /\ Pow2[0] = 1
  /\ \A n \in Nat : Pow2[n + 1] = 2 * Pow2[n]
<1>. DEFINE m == [n \in Nat |-> n]
            G == [p \in Nat \X [Nat -> Nat] |-> IF p[1] = 0 THEN 1 ELSE 2 * p[2][p[1] - 1]]
<1>1. m \in [Nat -> Nat] /\ 1 \in Nat /\ G \in [Nat \X [Nat -> Nat] -> Nat]
  <2>1. \A n \in Nat : n # 0 => n - 1 \in Nat
    OBVIOUS
  <2>. QED
    BY <2>1
<1>2. \A n \in Nat : \A f \in [Nat -> Nat] : G[<<n, f>>] = (IF n = 0 THEN 1 ELSE 2 * f[n - 1])
  OBVIOUS
<1>3. \A n \in Nat : n # 0 => n - 1 \in Nat /\ m[n - 1] < m[n]
  OBVIOUS
<1>. HIDE DEF m, G
<1>4. Descends(G, Nat, Nat, m)
  BY <1>2, <1>3 DEF Descends
<1>5. PICK f \in [Nat -> Nat] : Solves(f, G, Nat)
  BY ONLY <1>1, <1>4, Recursion
<1>. DEFINE Eq(g) == g = [n \in Nat |-> IF n = 0 THEN 1 ELSE 2 * g[n - 1]]
<1>6. Eq(f)
  BY <1>2, <1>5 DEF Solves
<1>7. Pow2 = CHOOSE g : Eq(g)
  BY DEF Pow2
<1>8. Eq(Pow2)
  BY <1>6, <1>7
<1>. DEFINE T == {n \in Nat : Pow2[n] \in Nat}
<1>9. T = Nat
  <2>1. 0 \in T
    BY <1>8
  <2>2. ASSUME NEW n \in T PROVE n + 1 \in T
    <3>1. n + 1 \in Nat /\ n + 1 # 0 /\ (n + 1) - 1 = n /\ Pow2[n] \in Nat
      OBVIOUS
    <3>2. Pow2[n + 1] = 2 * Pow2[n]
      BY <1>8, <3>1
    <3>. QED
      BY <3>1, <3>2
  <2>. HIDE DEF T
  <2>3. T \in SUBSET Nat
    BY DEF T
  <2>. QED
    BY ONLY <2>1, <2>2, <2>3, NatInduct
<1>10. Pow2 \in [Nat -> Nat]
  BY <1>8, <1>9
<1>11. Pow2[0] = 1
  BY <1>8
<1>12. ASSUME NEW n \in Nat PROVE Pow2[n + 1] = 2 * Pow2[n]
  <2>1. n + 1 \in Nat /\ n + 1 # 0 /\ (n + 1) - 1 = n
    OBVIOUS
  <2>. QED
    BY <1>8, <2>1
<1>. QED
  BY <1>10, <1>11, <1>12

\* A number is smaller than its power.
LEMMA Pow2Above ==
  ASSUME NEW n \in Nat
  PROVE  n < Pow2[n] /\ Pow2[n] \in Nat \ {0}
<1>. DEFINE T == {i \in Nat : i < Pow2[i]}
<1>1. 0 \in T
  BY Pow2Is
<1>2. ASSUME NEW i \in T PROVE i + 1 \in T
  <2>1. i \in Nat /\ i < Pow2[i] /\ Pow2[i] \in Nat /\ Pow2[i + 1] = 2 * Pow2[i]
    BY Pow2Is
  <2>2. i + 1 \in Nat /\ i + 1 < 2 * Pow2[i]
    BY <2>1
  <2>. QED
    BY <2>1, <2>2
<1>3. T \in SUBSET Nat
  OBVIOUS
<1>4. T = Nat
  <2>. HIDE DEF T
  <2>. QED
    BY ONLY <1>1, <1>2, <1>3, NatInduct
<1>5. n < Pow2[n] /\ Pow2[n] \in Nat
  BY <1>4, Pow2Is
<1>. QED
  BY <1>5

LEMMA Pow2Sum ==
  ASSUME NEW a \in Nat, NEW b \in Nat
  PROVE  Pow2[a + b] = Pow2[a] * Pow2[b]
<1>. DEFINE T == {i \in Nat : Pow2[a + i] = Pow2[a] * Pow2[i]}
<1>1. 0 \in T
  <2>1. Pow2[a] \in Nat /\ Pow2[0] = 1 /\ a + 0 = a
    BY Pow2Is
  <2>. QED
    BY <2>1
<1>2. ASSUME NEW i \in T PROVE i + 1 \in T
  <2>1. i \in Nat /\ a + i \in Nat /\ a + (i + 1) = (a + i) + 1
    OBVIOUS
  <2>2. /\ Pow2[a] \in Nat /\ Pow2[i] \in Nat /\ Pow2[i + 1] = 2 * Pow2[i]
        /\ Pow2[(a + i) + 1] = 2 * Pow2[a + i]
    BY <2>1, Pow2Is
  <2>3. Pow2[a + i] = Pow2[a] * Pow2[i]
    OBVIOUS
  <2>4. \A x, y \in Nat : 2 * (x * y) = x * (2 * y)
    OBVIOUS
  <2>5. Pow2[(a + i) + 1] = Pow2[a] * Pow2[i + 1]
    BY <2>2, <2>3, <2>4
  <2>. QED
    BY <2>1, <2>5
<1>3. T \in SUBSET Nat
  OBVIOUS
<1>4. T = Nat
  <2>. HIDE DEF T
  <2>. QED
    BY ONLY <1>1, <1>2, <1>3, NatInduct
<1>. QED
  BY <1>4

\* A greater power is a multiple of a smaller one.
LEMMA Pow2Divides ==
  ASSUME NEW a \in Nat, NEW b \in Nat, a <= b
  PROVE  \E k \in Nat \ {0} : Pow2[b] = Pow2[a] * k
<1>1. PICK d \in Nat : b = a + d
  <2>1. b - a \in Nat /\ b = a + (b - a)
    OBVIOUS
  <2>. QED
    BY <2>1
<1>2. Pow2[b] = Pow2[a] * Pow2[d] /\ Pow2[d] \in Nat \ {0}
  BY <1>1, Pow2Sum, Pow2Above
<1>. QED
  BY <1>2

LEMMA Pow2Monotone ==
  ASSUME NEW a \in Nat, NEW b \in Nat
  PROVE  /\ a <= b => Pow2[a] <= Pow2[b]
         /\ a < b => 2 * Pow2[a] <= Pow2[b]
<1>1. ASSUME NEW i \in Nat, NEW j \in Nat, i <= j PROVE Pow2[i] <= Pow2[j]
  <2>1. PICK k \in Nat \ {0} : Pow2[j] = Pow2[i] * k
    BY <1>1, Pow2Divides
  <2>2. Pow2[i] \in Nat
    BY Pow2Is
  <2>3. \A x \in Nat : \A y \in Nat \ {0} : x <= x * y
    OBVIOUS
  <2>. QED
    BY <2>1, <2>2, <2>3
<1>2. ASSUME a < b PROVE 2 * Pow2[a] <= Pow2[b]
  <2>1. a + 1 \in Nat /\ a + 1 <= b
    BY <1>2
  <2>. QED
    BY <1>1, <2>1, Pow2Is
<1>. QED
  BY <1>1, <1>2

\* The exponent of a magnitude's last mantissa bit.
LEMMA UlpIs ==
  ASSUME NEW n \in Nat
  PROVE  \E e \in Nat : /\ Ulp(n) = Pow2[e]
                        /\ MantissaBits + e \in Nat /\ n < Pow2[MantissaBits + e]
                        /\ e = 0 \/ (e - 1 \in Nat /\ Pow2[MantissaBits + (e - 1)] <= n)
<1>0. MantissaBits \in Nat
  BY CasesAssumption
<1>. DEFINE T == {e \in Nat : n < Pow2[MantissaBits + e]}
            Last(e) == n < Pow2[MantissaBits + e] /\ (e = 0 \/ n >= Pow2[MantissaBits + e - 1])
<1>1. n \in T
  <2>1. MantissaBits + n \in Nat /\ n <= MantissaBits + n
    BY <1>0
  <2>2. n < Pow2[n] /\ Pow2[n] <= Pow2[MantissaBits + n] /\ Pow2[n] \in Nat /\ Pow2[MantissaBits + n] \in Nat
    BY <2>1, Pow2Above, Pow2Monotone
  <2>. QED
    BY <2>2
<1>2. PICK e \in T : \A y \in T : e <= y
  <2>1. T \in SUBSET Nat /\ T # {}
    BY <1>1
  <2>. HIDE DEF T
  <2>. QED
    BY ONLY <2>1, Least
<1>3. e \in 0..n /\ Last(e)
  <2>1. e \in Nat /\ e <= n /\ n < Pow2[MantissaBits + e]
    BY <1>1, <1>2
  <2>2. ASSUME e # 0 PROVE n >= Pow2[MantissaBits + e - 1]
    <3>1. e - 1 \in Nat /\ ~ (e <= e - 1) /\ MantissaBits + (e - 1) = MantissaBits + e - 1
      BY <1>0, <2>1, <2>2
    <3>2. ~ (n < Pow2[MantissaBits + (e - 1)])
      BY <1>2, <3>1
    <3>3. MantissaBits + (e - 1) \in Nat
      BY <1>0, <3>1
    <3>4. Pow2[MantissaBits + (e - 1)] \in Nat
      BY <3>3, Pow2Is
    <3>. QED
      BY <3>1, <3>2, <3>4
  <2>. QED
    BY <2>1, <2>2
<1>. DEFINE last == CHOOSE i \in 0..n : Last(i)
<1>4. last \in 0..n /\ Last(last)
  BY <1>3
<1>5. Ulp(n) = Pow2[last]
  BY DEF Ulp
<1>. HIDE DEF last
<1>6. last \in Nat /\ MantissaBits + last \in Nat
  BY <1>0, <1>4
<1>7. last = 0 \/ (last - 1 \in Nat /\ MantissaBits + last - 1 = MantissaBits + (last - 1))
  BY <1>0, <1>6
<1>8. last = 0 \/ Pow2[MantissaBits + (last - 1)] <= n
  <2>. SUFFICES ASSUME last # 0 PROVE Pow2[MantissaBits + (last - 1)] <= n
    OBVIOUS
  <2>1. MantissaBits + (last - 1) \in Nat
    BY <1>0, <1>7
  <2>2. Pow2[MantissaBits + (last - 1)] \in Nat
    BY <2>1, Pow2Is
  <2>. QED
    BY <1>4, <1>7, <2>2
<1>. QED
  BY <1>4, <1>5, <1>6, <1>7, <1>8

LEMMA Division ==
  ASSUME NEW n \in Nat, NEW u \in Nat \ {0}
  PROVE  n \div u \in Nat /\ n % u \in 0..(u - 1) /\ n = u * (n \div u) + (n % u)
OBVIOUS

\* A magnitude is rounded to one of the two multiples of its ulp around it, and stays
\* when it is one.
LEMMA Rounded ==
  ASSUME NEW n \in Nat, NEW u \in Nat \ {0}, u = Ulp(n)
  PROVE  \E k \in Nat, r \in 0..(u - 1) :
           /\ n = u * k + r
           /\ \/ RoundMagnitude(n) = u * k
              \/ r > 0 /\ RoundMagnitude(n) = u * (k + 1)
<1>. DEFINE k == n \div u
            r == n % u
            up == 2 * r > u \/ (2 * r = u /\ k % 2 = 1)
<1>1. k \in Nat /\ r \in 0..(u - 1) /\ n = u * k + r
  BY Division
<1>2. RoundMagnitude(n) = u * (IF up THEN k + 1 ELSE k)
  BY DEF RoundMagnitude
<1>3. up => r > 0
  <2>. HIDE DEF k, r
  <2>. QED
    BY <1>1
<1>. HIDE DEF k, r, up
<1>. QED
  BY <1>1, <1>2, <1>3

LEMMA Products ==
  ASSUME NEW u \in Nat, NEW j \in Nat, NEW k \in Nat
  PROVE  /\ u * j \in Nat /\ u * (k + 1) = u * k + u
         /\ j <= k => u * j <= u * k
OBVIOUS

\* Rounding a magnitude stays on its side of every multiple of its ulp.
LEMMA MultipleKept ==
  ASSUME NEW n \in Nat, NEW u \in Nat \ {0}, u = Ulp(n), NEW j \in Nat
  PROVE  /\ n <= u * j => RoundMagnitude(n) <= u * j
         /\ n >= u * j => RoundMagnitude(n) >= u * j
<1>1. PICK k \in Nat, r \in 0..(u - 1) :
           /\ n = u * k + r
           /\ \/ RoundMagnitude(n) = u * k
              \/ r > 0 /\ RoundMagnitude(n) = u * (k + 1)
  BY Rounded
<1>2. PICK w : w = RoundMagnitude(n)
  OBVIOUS
<1>3. \/ w = u * k
      \/ r > 0 /\ w = u * (k + 1)
  BY <1>1, <1>2
<1>4. /\ u * j \in Nat /\ u * k \in Nat /\ u * (k + 1) = u * k + u /\ k + 1 \in Nat
      /\ j <= k => u * j <= u * k
      /\ k + 1 <= j => u * (k + 1) <= u * j
      /\ k <= j => u * k <= u * j
      /\ j + 1 <= k => u * (j + 1) <= u * k
      /\ u * (j + 1) = u * j + u
  BY Products
<1>5. r \in Nat /\ 0 <= r /\ r < u /\ n = u * k + r
  BY <1>1
<1>6. ASSUME n <= u * j PROVE w <= u * j
  <2>1. CASE j <= k
    <3>1. r = 0 /\ u * k = u * j
      BY ONLY <1>4, <1>5, <1>6, <2>1
    <3>. QED
      BY ONLY <1>3, <1>4, <3>1
  <2>2. CASE k + 1 <= j
    BY ONLY <1>3, <1>4, <2>2, u \in Nat
  <2>. QED
    BY <2>1, <2>2
<1>7. ASSUME n >= u * j PROVE w >= u * j
  <2>1. CASE j <= k
    BY ONLY <1>3, <1>4, <2>1, u \in Nat
  <2>2. CASE k + 1 <= j
    BY ONLY <1>4, <1>5, <1>7, <2>2, u \in Nat
  <2>. QED
    BY <2>1, <2>2
<1>. QED
  BY <1>2, <1>6, <1>7

LEMMA UlpPositive ==
  ASSUME NEW n \in Nat
  PROVE  Ulp(n) \in Nat \ {0} /\ RoundMagnitude(n) \in Nat
<1>1. PICK e \in Nat : Ulp(n) = Pow2[e]
  BY UlpIs
<1>2. Ulp(n) \in Nat \ {0}
  BY <1>1, Pow2Above
<1>3. PICK u \in Nat \ {0} : u = Ulp(n)
  BY <1>2
<1>4. PICK k \in Nat : RoundMagnitude(n) = u * k \/ RoundMagnitude(n) = u * (k + 1)
  BY <1>3, Rounded
<1>5. u * k \in Nat /\ k + 1 \in Nat /\ u * (k + 1) \in Nat
  BY Products
<1>. QED
  BY <1>2, <1>4, <1>5

\* Rounding a magnitude stays on its side of every magnitude that rounding keeps.
LEMMA MagnitudeOrder ==
  ASSUME NEW a \in Nat, NEW w \in Nat, RoundMagnitude(w) = w
  PROVE  /\ a <= w => RoundMagnitude(a) <= w
         /\ a >= w => RoundMagnitude(a) >= w
<1>. DEFINE M == MantissaBits
<1>0. M \in Nat /\ 1 <= M
  BY CasesAssumption
<1>. HIDE DEF M
<1>1. PICK e \in Nat : /\ Ulp(a) = Pow2[e] /\ M + e \in Nat /\ a < Pow2[M + e]
                       /\ e = 0 \/ (e - 1 \in Nat /\ Pow2[M + (e - 1)] <= a)
  BY UlpIs DEF M
<1>2. PICK d \in Nat : /\ Ulp(w) = Pow2[d] /\ M + d \in Nat /\ w < Pow2[M + d]
                       /\ d = 0 \/ (d - 1 \in Nat /\ Pow2[M + (d - 1)] <= w)
  BY UlpIs DEF M
<1>3. PICK u \in Nat \ {0} : u = Ulp(a)
  BY UlpPositive
<1>4. PICK q \in Nat : w = Pow2[d] * q
  <2>1. PICK v \in Nat \ {0} : v = Ulp(w)
    BY UlpPositive
  <2>2. PICK k \in Nat : RoundMagnitude(w) = v * k \/ RoundMagnitude(w) = v * (k + 1)
    BY <2>1, Rounded
  <2>3. k + 1 \in Nat
    OBVIOUS
  <2>. QED
    BY <1>2, <2>1, <2>2, <2>3
<1>5. ASSUME e <= d PROVE \E j \in Nat : w = u * j
  <2>1. PICK p \in Nat \ {0} : Pow2[d] = Pow2[e] * p
    BY <1>5, Pow2Divides
  <2>2. w = (u * p) * q
    <3>1. Pow2[d] = u * p
      BY <1>1, <1>3, <2>1
    <3>. QED
      BY <1>4, <3>1, Zenon
  <2>3. p * q \in Nat /\ (u * p) * q = u * (p * q)
    BY ONLY p \in Nat, q \in Nat, u \in Nat
  <2>. QED
    BY <2>2, <2>3
<1>6. CASE e <= d
  <2>1. PICK j \in Nat : w = u * j
    BY <1>5, <1>6
  <2>2. /\ a <= u * j => RoundMagnitude(a) <= u * j
        /\ a >= u * j => RoundMagnitude(a) >= u * j
    BY <1>3, MultipleKept
  <2>. QED
    BY <2>1, <2>2
<1>7. CASE d < e
  <2>1. e - 1 \in Nat /\ d <= e - 1 /\ Pow2[M + (e - 1)] <= a /\ M + (e - 1) \in Nat
    BY <1>0, <1>1, <1>7
  <2>2. w < Pow2[M + (e - 1)]
    <3>1. M + d <= M + (e - 1) /\ M + d \in Nat
      BY <1>0, <2>1
    <3>2. Pow2[M + d] <= Pow2[M + (e - 1)] /\ Pow2[M + d] \in Nat /\ Pow2[M + (e - 1)] \in Nat
      BY <2>1, <3>1, Pow2Monotone, Pow2Is
    <3>. QED
      BY <1>2, <3>2
  <2>3. PICK j \in Nat : Pow2[M + (e - 1)] = u * j
    <3>1. e <= M + (e - 1)
      BY <1>0
    <3>2. PICK i \in Nat : i = M + (e - 1)
      BY <2>1
    <3>3. PICK j \in Nat \ {0} : Pow2[i] = Pow2[e] * j
      BY <3>1, <3>2, Pow2Divides
    <3>4. u = Pow2[e]
      BY <1>1, <1>3
    <3>. QED
      BY <3>2, <3>3, <3>4
  <2>4. RoundMagnitude(a) >= Pow2[M + (e - 1)]
    <3>1. a >= u * j => RoundMagnitude(a) >= u * j
      BY <1>3, MultipleKept
    <3>2. a >= u * j
      <4>1. Pow2[M + (e - 1)] \in Nat
        BY <2>1, Pow2Is
      <4>. QED
        BY <2>1, <2>3, <4>1
    <3>. QED
      BY <2>3, <3>1, <3>2
  <2>5. RoundMagnitude(a) \in Nat /\ Pow2[M + (e - 1)] \in Nat
    BY <2>1, UlpPositive, Pow2Is
  <2>. QED
    BY <2>1, <2>2, <2>4, <2>5
<1>. QED
  BY <1>6, <1>7

\* Rounding to f64 stays on its side of every number a float holds.
LEMMA RoundingOrder ==
  ASSUME NEW x \in Int, NEW v \in Int, AsFloat(v) = v
  PROVE  /\ AsFloat(x) \in Int
         /\ x <= v => AsFloat(x) <= v
         /\ x >= v => AsFloat(x) >= v
<1>1. CASE x >= 0 /\ v >= 0
  <2>1. x \in Nat /\ v \in Nat
    BY <1>1
  <2>2. AsFloat(x) = RoundMagnitude(x) /\ RoundMagnitude(v) = v
    BY <2>1 DEF AsFloat
  <2>. QED
    BY <2>1, <2>2, MagnitudeOrder, UlpPositive
<1>2. CASE x >= 0 /\ v < 0
  <2>1. x \in Nat
    BY <1>2
  <2>2. AsFloat(x) = RoundMagnitude(x)
    BY <2>1 DEF AsFloat
  <2>3. RoundMagnitude(x) \in Nat
    BY <2>1, UlpPositive
  <2>. QED
    BY <1>2, <2>2, <2>3
<1>3. CASE x < 0 /\ v >= 0
  <2>1. -x \in Nat
    BY <1>3
  <2>2. AsFloat(x) = -RoundMagnitude(-x)
    BY <1>3 DEF AsFloat
  <2>3. RoundMagnitude(-x) \in Nat
    BY <2>1, UlpPositive
  <2>. QED
    BY <1>3, <2>2, <2>3
<1>4. CASE x < 0 /\ v < 0
  <2>1. PICK a \in Nat, w \in Nat : a = -x /\ w = -v
    <3>1. -x \in Nat /\ -v \in Nat
      BY <1>4
    <3>. QED
      BY <3>1
  <2>2. AsFloat(x) = -RoundMagnitude(a) /\ AsFloat(v) = -RoundMagnitude(w)
    BY <1>4, <2>1 DEF AsFloat
  <2>3. RoundMagnitude(a) \in Nat /\ RoundMagnitude(w) \in Nat
    BY UlpPositive
  <2>4. RoundMagnitude(w) = w
    BY <2>1, <2>2, <2>3
  <2>5. /\ a <= w => RoundMagnitude(a) <= w
        /\ a >= w => RoundMagnitude(a) >= w
    BY <2>4, MagnitudeOrder
  <2>. QED
    BY <2>1, <2>2, <2>3, <2>5
<1>. QED
  BY <1>1, <1>2, <1>3, <1>4

\* A magnitude of at most MantissaBits bits is kept, and so is the next power of two.
LEMMA SmallKept ==
  ASSUME NEW n \in Nat, n <= Pow2[MantissaBits]
  PROVE  RoundMagnitude(n) = n
<1>. DEFINE M == MantissaBits
<1>0. M \in Nat /\ 1 <= M /\ M + 0 = M /\ M - 1 \in Nat /\ M = (M - 1) + 1
  BY CasesAssumption
<1>. HIDE DEF M
<1>1. PICK e \in Nat : /\ Ulp(n) = Pow2[e] /\ M + e \in Nat /\ n < Pow2[M + e]
                       /\ e = 0 \/ (e - 1 \in Nat /\ Pow2[M + (e - 1)] <= n)
  BY UlpIs DEF M
<1>2. PICK u \in Nat \ {0} : u = Ulp(n)
  BY UlpPositive
<1>3. n <= Pow2[M]
  BY DEF M
<1>4. \E j \in Nat : n = u * j
  <2>1. CASE e = 0
    <3>1. u = 1 /\ n = 1 * n
      BY <1>1, <1>2, <2>1, Pow2Is
    <3>. QED
      BY <3>1
  <2>2. CASE e # 0
    <3>1. e - 1 \in Nat /\ M + (e - 1) \in Nat /\ Pow2[M + (e - 1)] <= n
      BY <1>0, <1>1, <2>2
    <3>2. e = 1
      <4>. SUFFICES ASSUME e # 1 PROVE FALSE
        OBVIOUS
      <4>1. M < M + (e - 1)
        BY <1>0, <2>2
      <4>2. /\ 2 * Pow2[M] <= Pow2[M + (e - 1)] /\ Pow2[M] \in Nat \ {0}
            /\ Pow2[M + (e - 1)] \in Nat
        BY <1>0, <3>1, <4>1, Pow2Monotone, Pow2Above
      <4>. QED
        BY <1>3, <3>1, <4>2
    <3>3. u = 2
      <4>1. Pow2[0 + 1] = 2 * Pow2[0] /\ Pow2[0] = 1 /\ 0 + 1 = 1
        BY Pow2Is
      <4>. QED
        BY <1>1, <1>2, <3>2, <4>1
    <3>4. n = Pow2[M]
      <4>1. M + (e - 1) = M /\ Pow2[M] \in Nat
        BY <1>0, <3>2, Pow2Is
      <4>. QED
        BY <1>3, <3>1, <4>1
    <3>5. Pow2[M] = 2 * Pow2[M - 1] /\ Pow2[M - 1] \in Nat
      BY <1>0, Pow2Is
    <3>. QED
      BY <3>3, <3>4, <3>5
  <2>. QED
    BY <2>1, <2>2
<1>5. PICK j \in Nat : n = u * j
  BY <1>4
<1>6. /\ n <= u * j => RoundMagnitude(n) <= u * j
      /\ n >= u * j => RoundMagnitude(n) >= u * j
  BY <1>2, MultipleKept
<1>7. RoundMagnitude(n) \in Nat
  BY UlpPositive
<1>. QED
  BY <1>5, <1>6, <1>7

-----------------------------------------------------------------------------
(* The evaluation of a policy.                                             *)

LEMMA PolicyVerdict ==
  ASSUME NEW p \in Seq(Conditions), NEW action
  PROVE  /\ verify_constraints(p, action) \in Verdicts
         /\ \A i \in 1..Len(p) : p[i] \in Conditions /\ check_constraint(p[i], action) \in Verdicts
         /\ \/ /\ verify_constraints(p, action) = "true"
               /\ \A i \in 1..Len(p) : check_constraint(p[i], action) = "true"
            \/ \E k \in 1..Len(p) :
                 /\ verify_constraints(p, action) = check_constraint(p[k], action)
                 /\ check_constraint(p[k], action) # "true"
                 /\ \A j \in 1..(k - 1) : check_constraint(p[j], action) = "true"
<1>1. PICK f \in [Conditions -> Verdicts] : \A d \in Conditions :
             check_constraint(d, action) = f[d] /\ f[d] = CheckBody(d, action, f)
  BY CheckIs
<1>2. Len(p) \in Nat /\ \A i \in 1..Len(p) : p[i] \in Conditions
  OBVIOUS
<1>3. \A i \in 1..Len(p) : check_constraint(p[i], action) = f[p[i]] /\ f[p[i]] \in Verdicts
  BY <1>1, <1>2
<1>4. PICK vs : vs = [i \in 1..Len(p) |-> f[p[i]]]
  OBVIOUS
<1>5. /\ vs \in Seq(Verdicts) /\ Len(vs) = Len(p)
      /\ \A i \in 1..Len(p) : vs[i] = f[p[i]]
  BY <1>2, <1>3, <1>4, VerdictList
<1>6. [i \in 1..Len(p) |-> check_constraint(p[i], action)] = vs
  BY <1>3, <1>4
<1>7. verify_constraints(p, action) = CheckInOrder(vs, "true")
  BY <1>6, Zenon DEF verify_constraints
<1>8. "true" \in Verdicts
  BY DEF Verdicts
<1>9. /\ CheckInOrder(vs, "true") \in Verdicts
      /\ \/ CheckInOrder(vs, "true") = "true" /\ \A i \in 1..Len(vs) : vs[i] = "true"
         \/ \E k \in 1..Len(vs) : /\ CheckInOrder(vs, "true") = vs[k] /\ vs[k] # "true"
                                  /\ \A j \in 1..(k - 1) : vs[j] = "true"
  BY <1>5, <1>8, InOrder
<1>10. \A i \in 1..Len(p) : vs[i] = check_constraint(p[i], action)
  BY <1>3, <1>5
<1>11. \A k \in 1..Len(p) : \A j \in 1..(k - 1) : j \in 1..Len(p)
  BY <1>2
<1>12. CASE CheckInOrder(vs, "true") = "true" /\ \A i \in 1..Len(vs) : vs[i] = "true"
  BY <1>2, <1>3, <1>5, <1>7, <1>8, <1>10, <1>12
<1>13. CASE \E k \in 1..Len(vs) : /\ CheckInOrder(vs, "true") = vs[k] /\ vs[k] # "true"
                                  /\ \A j \in 1..(k - 1) : vs[j] = "true"
  <2>1. PICK k \in 1..Len(p) : /\ CheckInOrder(vs, "true") = vs[k] /\ vs[k] # "true"
                               /\ \A j \in 1..(k - 1) : vs[j] = "true"
    BY <1>5, <1>13
  <2>2. /\ verify_constraints(p, action) = check_constraint(p[k], action)
        /\ check_constraint(p[k], action) # "true"
        /\ \A j \in 1..(k - 1) : check_constraint(p[j], action) = "true"
    BY <1>7, <1>10, <1>11, <2>1
  <2>. QED
    BY <1>2, <1>3, <1>7, <1>9, <2>2
<1>. QED
  BY <1>9, <1>12, <1>13

\* The inductive invariant: a case as the assumption gives it, and no verdict or the
\* evaluator's on it.
EvaluationInv ==
  /\ policy \in Seq(Conditions)
  /\ \A f \in DOMAIN data : data[f] \in Int
  /\ verdict = "none" \/ verdict = verify_constraints(policy, data)

\* Whatever is evaluated is one of the cases, and its verdict is the evaluator's.
THEOREM EvaluationInvariant == Evaluation => []EvaluationInv
<1>1. EvaluationInit => EvaluationInv
  BY CasesAssumption DEF EvaluationInit, EvaluationInv
<1>2. EvaluationInv /\ [Judge]_evaluation => EvaluationInv'
  <2>. SUFFICES ASSUME EvaluationInv, [Judge]_evaluation PROVE EvaluationInv'
    OBVIOUS
  <2>1. CASE Judge
    <3>1. policy' = policy /\ data' = data /\ verdict' = verify_constraints(policy, data)
      BY <2>1 DEF Judge
    <3>. QED
      BY <3>1 DEF EvaluationInv
  <2>2. CASE UNCHANGED evaluation
    <3>1. policy' = policy /\ data' = data /\ verdict' = verdict
      BY <2>2 DEF evaluation
    <3>. QED
      BY <3>1 DEF EvaluationInv
  <2>. QED
    BY <2>1, <2>2
<1>. QED
  BY <1>1, <1>2, PTL DEF Evaluation

\* A number within the mantissa is held exactly.
LEMMA SmallIsHeld ==
  ASSUME NEW x \in Int, Abs(x) <= Pow2[MantissaBits]
  PROVE  AsFloat(x) = x
<1>1. CASE x < 0
  <2>1. PICK n \in Nat : n = -x
    <3>1. -x \in Nat
      BY <1>1
    <3>. QED
      BY <3>1
  <2>2. RoundMagnitude(n) = n
    BY <1>1, <2>1, SmallKept DEF Abs
  <2>. QED
    BY <1>1, <2>1, <2>2 DEF AsFloat
<1>2. CASE ~ (x < 0)
  <2>1. x \in Nat
    BY <1>2
  <2>2. RoundMagnitude(x) = x
    BY <1>2, <2>1, SmallKept DEF Abs
  <2>. QED
    BY <1>2, <2>2 DEF AsFloat
<1>. QED
  BY <1>1, <1>2

LEMMA ExactIsHeld == EvaluationInv /\ Exact => Held(data)
BY SmallIsHeld DEF EvaluationInv, Exact, Held

\* README "sound and complete against declarative semantics", and Policy.lean
\* check_wf_some: whatever the constraint trees and however they nest, a decided verdict
\* is what the policy means for data that a float holds, and an error means that the
\* policy is ill-formed for the data.
THEOREM EvaluatorSoundAndComplete == Evaluation => []SoundAndComplete
<1>1. EvaluationInv => SoundAndComplete
  <2>. SUFFICES ASSUME EvaluationInv PROVE SoundAndComplete
    OBVIOUS
  <2>1. policy \in Seq(Conditions) /\ (verdict = "none" \/ verdict = verify_constraints(policy, data))
    BY DEF EvaluationInv
  <2>2. /\ \A i \in 1..Len(policy) : policy[i] \in Conditions
        /\ \/ /\ verify_constraints(policy, data) = "true"
              /\ \A i \in 1..Len(policy) : check_constraint(policy[i], data) = "true"
           \/ \E k \in 1..Len(policy) :
                /\ verify_constraints(policy, data) = check_constraint(policy[k], data)
                /\ check_constraint(policy[k], data) # "true"
    BY <2>1, PolicyVerdict
  <2>3. ASSUME Exact, verdict \in {"true", "false"} PROVE verdict = "true" <=> SatisfiesAll
    <3>1. Held(data)
      BY <2>3, ExactIsHeld
    <3>2. \A i \in 1..Len(policy) :
            /\ check_constraint(policy[i], data) = "true" => Satisfies(policy[i], data)
            /\ check_constraint(policy[i], data) = "false" => ~Satisfies(policy[i], data)
      BY <2>2, <3>1, DecisionIsMeaning
    <3>3. verdict = verify_constraints(policy, data)
      BY <2>1, <2>3
    <3>4. CASE verdict = "true"
      <4>1. \A i \in 1..Len(policy) : check_constraint(policy[i], data) = "true"
        BY <2>2, <3>3, <3>4
      <4>2. SatisfiesAll
        BY <3>2, <4>1, Zenon DEF SatisfiesAll
      <4>. QED
        BY <3>4, <4>2
    <3>5. CASE verdict = "false"
      <4>1. PICK k \in 1..Len(policy) : check_constraint(policy[k], data) = "false"
        BY <2>2, <3>3, <3>5
      <4>2. ~SatisfiesAll
        BY <3>2, <4>1, Zenon DEF SatisfiesAll
      <4>. QED
        BY <3>5, <4>2
    <3>. QED
      BY <2>3, <3>4, <3>5
  <2>4. ASSUME verdict \in {"MissingField", "InvalidOperator"} PROVE ~WellFormedAll
    <3>1. verdict = verify_constraints(policy, data)
      BY <2>1, <2>4
    <3>2. PICK k \in 1..Len(policy) : check_constraint(policy[k], data) \notin {"true", "false"}
      BY <2>2, <2>4, <3>1
    <3>3. ~WellFormed(policy[k], data)
      BY <2>2, <3>2, ErrorIsIllFormed
    <3>. QED
      BY <3>3, Zenon DEF WellFormedAll
  <2>. QED
    BY <2>3, <2>4, Zenon DEF SoundAndComplete
<1>. QED
  BY <1>1, EvaluationInvariant, PTL

\* Short circuits hide missing fields only where they do not matter: no value that a
\* missing field could have had would have changed a decided verdict.
THEOREM EvaluatorMonotone == Evaluation => []MissingFieldsNeverFlip
<1>1. EvaluationInv => MissingFieldsNeverFlip
  <2>. SUFFICES ASSUME EvaluationInv, verdict \in {"true", "false"}, NEW more \in Submissions,
                       Extends(more, data)
                PROVE  verify_constraints(policy, more) = verdict
    BY DEF MissingFieldsNeverFlip, Extends
  <2>1. policy \in Seq(Conditions) /\ verdict = verify_constraints(policy, data)
    BY DEF EvaluationInv
  <2>2. /\ \A i \in 1..Len(policy) : policy[i] \in Conditions
        /\ \/ /\ verify_constraints(policy, data) = "true"
              /\ \A i \in 1..Len(policy) : check_constraint(policy[i], data) = "true"
           \/ \E k \in 1..Len(policy) :
                /\ verify_constraints(policy, data) = check_constraint(policy[k], data)
                /\ check_constraint(policy[k], data) # "true"
                /\ \A j \in 1..(k - 1) : check_constraint(policy[j], data) = "true"
    BY <2>1, PolicyVerdict
  <2>3. \/ /\ verify_constraints(policy, more) = "true"
           /\ \A i \in 1..Len(policy) : check_constraint(policy[i], more) = "true"
        \/ \E k \in 1..Len(policy) :
             /\ verify_constraints(policy, more) = check_constraint(policy[k], more)
             /\ check_constraint(policy[k], more) # "true"
             /\ \A j \in 1..(k - 1) : check_constraint(policy[j], more) = "true"
    BY <2>1, PolicyVerdict
  <2>4. \A i \in 1..Len(policy) : check_constraint(policy[i], data) \in {"true", "false"} =>
          check_constraint(policy[i], more) = check_constraint(policy[i], data)
    BY <2>2, DecisionStays
  <2>5. CASE verdict = "true"
    <3>1. \A i \in 1..Len(policy) : check_constraint(policy[i], data) = "true"
      BY <2>1, <2>2, <2>5
    <3>2. \A i \in 1..Len(policy) : check_constraint(policy[i], more) = "true"
      BY <2>4, <3>1
    <3>. QED
      BY <2>3, <2>5, <3>2
  <2>6. CASE verdict = "false"
    <3>1. PICK k \in 1..Len(policy) :
                /\ check_constraint(policy[k], data) = "false"
                /\ \A j \in 1..(k - 1) : check_constraint(policy[j], data) = "true"
      BY <2>1, <2>2, <2>6
    <3>2. Len(policy) \in Nat /\ \A j \in 1..(k - 1) : j \in 1..Len(policy)
      BY <2>1
    <3>3. /\ check_constraint(policy[k], more) = "false"
          /\ \A j \in 1..(k - 1) : check_constraint(policy[j], more) = "true"
      BY <2>4, <3>1, <3>2
    <3>4. PICK l \in 1..Len(policy) :
             /\ verify_constraints(policy, more) = check_constraint(policy[l], more)
             /\ check_constraint(policy[l], more) # "true"
             /\ \A j \in 1..(l - 1) : check_constraint(policy[j], more) = "true"
      BY <2>3, <3>3
    <3>5. l = k
      <4>1. k \in Nat /\ l \in Nat /\ 1 <= k /\ 1 <= l
        BY <3>2
      <4>2. ~ (l \in 1..(k - 1)) /\ ~ (k \in 1..(l - 1))
        BY <3>3, <3>4
      <4>. QED
        BY <4>1, <4>2
    <3>. QED
      BY <2>6, <3>3, <3>4, <3>5
  <2>. QED
    BY <2>5, <2>6
<1>. QED
  BY <1>1, EvaluationInvariant, PTL

\* Past 2^53 the conversion to f64 rounds, but it never turns a comparison round: a
\* strict one that succeeds is right, and an inclusive one that is right succeeds.
THEOREM EvaluatorRounding == Evaluation => []RoundingKeepsOrder
<1>1. EvaluationInv => RoundingKeepsOrder
  <2>. SUFFICES ASSUME EvaluationInv, NEW i \in 1..Len(policy), verdict \in {"true", "false"},
                       Len(policy) = 1, policy[i].kind = "Threshold"
                PROVE  IF policy[i].operator \in {">", "<"}
                       THEN verdict = "true" => Satisfies(policy[i], data)
                       ELSE Satisfies(policy[i], data) => verdict = "true"
    BY DEF RoundingKeepsOrder
  <2>1. /\ policy \in Seq(Conditions) /\ verdict = verify_constraints(policy, data)
        /\ \A f \in DOMAIN data : data[f] \in Int
    BY DEF EvaluationInv
  <2>2. PICK c \in Conditions : c = policy[i]
    BY <2>1
  <2>3. check_constraint(c, data) = verdict
    <3>1. i = 1 /\ \A k \in 1..Len(policy) : k = i
      OBVIOUS
    <3>2. \/ /\ verify_constraints(policy, data) = "true"
             /\ \A k \in 1..Len(policy) : check_constraint(policy[k], data) = "true"
          \/ \E k \in 1..Len(policy) :
               verify_constraints(policy, data) = check_constraint(policy[k], data)
      BY <2>1, PolicyVerdict
    <3>. QED
      BY <2>1, <2>2, <3>1, <3>2
  <2>4. c.kind = "Threshold" /\ c.value \in Int /\ AsFloat(c.value) = c.value
    <3>1. c.kind = "Threshold"
      BY <2>2
    <3>. QED
      BY <3>1, ConditionsAssumption
  <2>5. verdict = CheckThreshold(c, data)
    <3>1. PICK f \in [Conditions -> Verdicts] : \A d \in Conditions :
               check_constraint(d, data) = f[d] /\ f[d] = CheckBody(d, data, f)
      BY CheckIs
    <3>2. verdict = CheckBody(c, data, f)
      BY <2>3, <3>1
    <3>. QED
      BY <2>4, <3>2, Zenon DEF CheckBody
  <2>6. /\ c.field \in DOMAIN data /\ c.operator \in Operators
        /\ verdict = "true" <=> Compare(AsFloat(data[c.field]), c.operator, c.value)
    BY <2>5 DEF CheckThreshold, Decided
  <2>7. Satisfies(c, data) <=> Compare(data[c.field], c.operator, c.value)
    <3>1. PICK g \in [Conditions -> BOOLEAN] : \A d \in Conditions :
               Satisfies(d, data) = g[d] /\ g[d] = SatBody(d, data, g)
      BY SatisfiesIs
    <3>2. Satisfies(c, data) <=> SatBody(c, data, g)
      BY <3>1, Zenon
    <3>. QED
      BY <2>4, <2>6, <3>2, Zenon DEF SatBody
  <2>8. PICK x \in Int, v \in Int, y \in Int :
             /\ x = data[c.field] /\ v = c.value /\ y = AsFloat(x)
             /\ x <= v => y <= v
             /\ x >= v => y >= v
    BY <2>1, <2>4, <2>6, RoundingOrder
  <2>9. /\ verdict = "true" <=> Compare(y, c.operator, v)
        /\ Satisfies(c, data) <=> Compare(x, c.operator, v)
    BY <2>6, <2>7, <2>8
  <2>10. IF c.operator \in {">", "<"}
         THEN Compare(y, c.operator, v) => Compare(x, c.operator, v)
         ELSE Compare(x, c.operator, v) => Compare(y, c.operator, v)
    <3>1. c.operator \in Operators
      BY <2>6
    <3>2. PICK op \in Operators : op = c.operator
      BY <3>1
    <3>3. /\ Compare(y, ">", v) => Compare(x, ">", v)
          /\ Compare(y, "<", v) => Compare(x, "<", v)
          /\ Compare(x, ">=", v) => Compare(y, ">=", v)
          /\ Compare(x, "<=", v) => Compare(y, "<=", v)
          /\ Compare(x, "==", v) => Compare(y, "==", v)
      BY <2>8 DEF Compare
    <3>4. \/ op \in {">", "<"}
          \/ op \in {">=", "<=", "=="}
      BY DEF Operators
    <3>5. CASE op \in {">", "<"}
      BY <3>2, <3>3, <3>5
    <3>6. CASE op \in {">=", "<=", "=="}
      BY <3>2, <3>3, <3>6
    <3>. QED
      BY <3>4, <3>5, <3>6
  <2>. QED
    BY <2>2, <2>9, <2>10
<1>. QED
  BY <1>1, EvaluationInvariant, PTL

-----------------------------------------------------------------------------
(* What a proof of ZkProofs means.                                         *)

\* The action of the proof satisfies a registered version of its policy, by the
\* declarative meaning of constraints.
Compliant(proof) ==
  \E c \in Versions(proof.policy_id) : \A k \in 1..Len(c) : Satisfies(c[k], proof.action)

\* generate_proof calls this evaluator: with numbers that a float holds, every proof
\* ever issued is about an action that really satisfies a registered version of its
\* policy, however the policy is replaced later.
THEOREM IssuedMeansCompliant ==
  ASSUME Constraints \subseteq Seq(Conditions),
         \A a \in Actions : \A f \in DOMAIN a : a[f] \in Int /\ Abs(a[f]) <= Pow2[MantissaBits],
         \A c \in Constraints, a \in Actions : Evaluate(c, a) = verify_constraints(c, a)
  PROVE  Spec => [](\A i \in 1..Len(issued) : Compliant(issued[i]))
<1>1. IndInv => \A i \in 1..Len(issued) : Compliant(issued[i])
  <2>. SUFFICES ASSUME IndInv, NEW i \in 1..Len(issued) PROVE Compliant(issued[i])
    OBVIOUS
  <2>1. PICK k \in 1..Len(registered) :
               /\ registered[k].id = issued[i].policy_id
               /\ Evaluate(registered[k].constraints, issued[i].action) = "true"
    BY DEF IndInv, Good, Holds
  <2>2. PICK c, a : c = registered[k].constraints /\ a = issued[i].action
    OBVIOUS
  <2>3. c \in Constraints
    <3>1. registered[k] \in Registration
      BY DEF IndInv, RegistryInv
    <3>. QED
      BY <2>2, <3>1 DEF Registration
  <2>4. a \in Actions
    <3>1. issued[i] \in IssuedProof
      BY DEF IndInv
    <3>. QED
      BY <2>2, <3>1 DEF IssuedProof
  <2>5. verify_constraints(c, a) = "true" /\ c \in Seq(Conditions)
    BY <2>1, <2>2, <2>3, <2>4
  <2>6. \A j \in 1..Len(c) : c[j] \in Conditions /\ check_constraint(c[j], a) = "true"
    BY <2>5, PolicyVerdict
  <2>7. Held(a)
    BY <2>4, SmallIsHeld DEF Held
  <2>8. \A j \in 1..Len(c) : Satisfies(c[j], a)
    BY <2>6, <2>7, DecisionIsMeaning
  <2>9. c \in Versions(issued[i].policy_id)
    BY <2>1, <2>2 DEF Versions
  <2>. QED
    BY <2>2, <2>8, <2>9, Zenon DEF Compliant
<1>. QED
  BY <1>1, Invariance, PTL
=============================================================================
