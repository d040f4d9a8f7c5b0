-------------------------- MODULE PolicyEvaluator --------------------------
(***************************************************************************)
(* The constraint evaluator of crates/zk-proofs: a policy is a list of     *)
(* constraints over the named integers of an action, checked left to right *)
(* with the first error or the first decision winning.  Thresholds compare *)
(* an i64 converted to f64, here with MantissaBits bits instead of 53.     *)
(***************************************************************************)
EXTENDS Integers, Sequences

CONSTANTS
  MantissaBits,  \* 53 for f64
  Conditions,    \* constraints, with all the conditions within them
  Depth,         \* how deep each one's tree is
  Submissions,   \* numeric_values of actions: functions from fields to integers
  Cases          \* pairs of a list of constraints (circuit_constraints) and a submission

-----------------------------------------------------------------------------
(* i64 as f64: round to the nearest number with MantissaBits bits, ties to *)
(* the even one.                                                           *)

Pow2[n \in Nat] == IF n = 0 THEN 1 ELSE 2 * Pow2[n - 1]

Abs(n) == IF n < 0 THEN -n ELSE n

\* The weight of the last mantissa bit of a number of this magnitude.
Ulp(n) == Pow2[CHOOSE e \in 0..n : /\ n < Pow2[MantissaBits + e]
                                   /\ e = 0 \/ n >= Pow2[MantissaBits + e - 1]]

RoundMagnitude(n) ==
  LET u    == Ulp(n)
      down == n \div u
      rest == n % u
      up   == 2 * rest > u \/ (2 * rest = u /\ down % 2 = 1)
  IN  u * (IF up THEN down + 1 ELSE down)

\* Mutant: the value goes through a narrower integer first.
AsFloatNarrow(n) == ((n + 2 ^ (MantissaBits + 1)) % 2 ^ (MantissaBits + 2)) - 2 ^ (MantissaBits + 1)

AsFloat(n) == IF n < 0 THEN -RoundMagnitude(-n) ELSE RoundMagnitude(n)

-----------------------------------------------------------------------------
(* Constraints, and the evaluator's verdicts Ok(true), Ok(false), Err.     *)

Range(field, min, max) == [kind |-> "Range", field |-> field, min |-> min, max |-> max]
Threshold(field, operator, value) ==
  [kind |-> "Threshold", field |-> field, operator |-> operator, value |-> value]
And(conditions) == [kind |-> "And", conditions |-> conditions]
Or(conditions)  == [kind |-> "Or", conditions |-> conditions]

Operators == {">", ">=", "<", "<=", "=="}

Compare(a, operator, b) ==
  CASE operator = ">"  -> a > b
    [] operator = ">=" -> a >= b
    [] operator = "<"  -> a < b
    [] operator = "<=" -> a <= b
    [] operator = "==" -> a = b

Decided(b) == IF b THEN "true" ELSE "false"

\* Mutant: a missing field reads as 0.
CheckRangeDefaults(c, data) ==
  LET v == IF c.field \in DOMAIN data THEN data[c.field] ELSE 0
  IN  Decided(v >= c.min /\ v <= c.max)

CheckRange(c, data) ==
  IF c.field \notin DOMAIN data THEN "MissingField"
  ELSE Decided(data[c.field] >= c.min /\ data[c.field] <= c.max)

\* The field is looked up before the operator is.
CheckThreshold(c, data) ==
  IF c.field \notin DOMAIN data THEN "MissingField"
  ELSE IF c.operator \notin Operators THEN "InvalidOperator"
  ELSE Decided(Compare(AsFloat(data[c.field]), c.operator, c.value))

\* Mutant: only the last condition counts.
CheckLast(verdicts, go) == IF verdicts = <<>> THEN go ELSE verdicts[Len(verdicts)]

\* The loop over conditions: the first verdict other than go ends it.
CheckInOrder(verdicts, go) ==
  LET ending == {i \in 1..Len(verdicts) : verdicts[i] # go}
  IN  IF ending = {} THEN go
      ELSE verdicts[CHOOSE i \in ending : \A j \in ending : i <= j]

\* A group never looks at what its verdict no longer needs.
check_constraint(c, action) ==
  LET check[d \in Conditions] ==
        CASE d.kind = "And" ->
               CheckInOrder([i \in 1..Len(d.conditions) |-> check[d.conditions[i]]], "true")
          [] d.kind = "Or" ->
               CheckInOrder([i \in 1..Len(d.conditions) |-> check[d.conditions[i]]], "false")
          [] d.kind = "Range"     -> CheckRange(d, action)
          [] d.kind = "Threshold" -> CheckThreshold(d, action)
  IN  check[c]

verify_constraints(constraints, action) ==
  CheckInOrder([i \in 1..Len(constraints) |-> check_constraint(constraints[i], action)], "true")

\* Constraints are finite trees of the four kinds; a threshold is a number that a float
\* holds, and a submission gives numbers.
ASSUME ConditionsAssumption ==
  /\ Depth \in [Conditions -> Nat]
  /\ \A c \in Conditions :
       \/ /\ c.kind \in {"And", "Or"} /\ c.conditions \in Seq(Conditions)
          /\ \A i \in 1..Len(c.conditions) : Depth[c.conditions[i]] < Depth[c]
       \/ c.kind = "Range" /\ c.min \in Int /\ c.max \in Int
       \/ c.kind = "Threshold" /\ c.value \in Int /\ AsFloat(c.value) = c.value

ASSUME CasesAssumption ==
  /\ MantissaBits \in Nat \ {0}
  /\ \A case \in Cases : /\ case[1] \in Seq(Conditions)
                         /\ \A f \in DOMAIN case[2] : case[2][f] \in Int

-----------------------------------------------------------------------------
(* One evaluation of one case.                                             *)

VARIABLES policy, data, verdict
evaluation == <<policy, data, verdict>>

EvaluationInit ==
  /\ \E case \in Cases : policy = case[1] /\ data = case[2]
  /\ verdict = "none"

Judge ==
  /\ verdict = "none"
  /\ verdict' = verify_constraints(policy, data)
  /\ UNCHANGED <<policy, data>>

Evaluation == EvaluationInit /\ [][Judge]_evaluation

-----------------------------------------------------------------------------
(* Properties.  The declarative meaning of a constraint, over exact values.*)

Satisfies(c, action) ==
  LET sat[d \in Conditions] ==
        CASE d.kind = "And" -> \A i \in 1..Len(d.conditions) : sat[d.conditions[i]]
          [] d.kind = "Or"  -> \E i \in 1..Len(d.conditions) : sat[d.conditions[i]]
          [] d.kind = "Range" ->
               d.field \in DOMAIN action /\ action[d.field] \in d.min..d.max
          [] d.kind = "Threshold" ->
               /\ d.field \in DOMAIN action /\ d.operator \in Operators
               /\ Compare(action[d.field], d.operator, d.value)
  IN  sat[c]

\* Every field a constraint reads is there, and every operator exists.
WellFormed(c, action) ==
  LET formed[d \in Conditions] ==
        IF d.kind \in {"And", "Or"}
        THEN \A i \in 1..Len(d.conditions) : formed[d.conditions[i]]
        ELSE /\ d.field \in DOMAIN action
             /\ d.kind = "Threshold" => d.operator \in Operators
  IN  formed[c]

SatisfiesAll  == \A i \in 1..Len(policy) : Satisfies(policy[i], data)
WellFormedAll == \A i \in 1..Len(policy) : WellFormed(policy[i], data)
Exact == \A f \in DOMAIN data : Abs(data[f]) <= Pow2[MantissaBits]

\* README "sound and complete against declarative semantics": a decided verdict is
\* the meaning's, on ill-formed input too, where short circuits hide later errors; and
\* (Policy.lean check_wf_some) the evaluator fails only on ill-formed input.
SoundAndComplete ==
  /\ Exact /\ verdict \in {"true", "false"} => (verdict = "true" <=> SatisfiesAll)
  /\ verdict \in {"MissingField", "InvalidOperator"} => ~WellFormedAll

\* Short circuits hide missing fields, but only where they do not matter: a verdict
\* decided without some fields stays the same whatever values they are given.
MissingFieldsNeverFlip ==
  verdict \in {"true", "false"} =>
    \A more \in Submissions :
      (\A f \in DOMAIN data : f \in DOMAIN more /\ more[f] = data[f])
        => verify_constraints(policy, more) = verdict

\* Past 2^53 the conversion to f64 rounds.  It never turns an order around: a strict
\* comparison that succeeds is right, and an inclusive one that is right succeeds.
RoundingKeepsOrder ==
  \A i \in 1..Len(policy) :
    verdict \in {"true", "false"} /\ Len(policy) = 1 /\ policy[i].kind = "Threshold" =>
      IF policy[i].operator \in {">", "<"}
      THEN verdict = "true" => Satisfies(policy[i], data)
      ELSE Satisfies(policy[i], data) => verdict = "true"
=============================================================================
