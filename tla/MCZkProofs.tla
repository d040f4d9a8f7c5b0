----------------------------- MODULE MCZkProofs -----------------------------
(***************************************************************************)
(* Small instances of ZkProofs for TLC, with the evaluator of              *)
(* PolicyEvaluator.  A behaviour is one of the registry or one of the      *)
(* evaluator: they share no state, so nothing is lost by not mixing them.  *)
(***************************************************************************)
EXTENDS ZkProofs, PolicyEvaluator

Fields == {"speed", "temp"}
MCSubmissions == UNION {[fields -> 0..2] : fields \in SUBSET Fields}

\* Trees of depth two: every kind, a reversed range, an unknown operator.
Leaves == {Range("speed", 0, 1), Range("speed", 1, 0), Threshold("temp", "==", 1),
           Threshold("temp", ">", 0), Threshold("speed", "=~", 1)}
Lists(conditions) ==
  {<<>>} \cup {<<c>> : c \in conditions} \cup {<<c, d>> : c \in conditions, d \in conditions}
Groups(conditions) ==
  {And(l) : l \in Lists(conditions)} \cup {Or(l) : l \in Lists(conditions)}
Simple == Groups(Leaves)
Nested == Groups(Leaves \cup Simple)
Trees  == {<<c>> : c \in Nested} \cup {<<c, d>> : c \in Leaves, d \in Leaves \cup Simple}

\* Numbers with up to three bits more than the mantissa holds, against thresholds a
\* float can hold.
Wide        == -40..40
Comparisons == {Threshold("speed", op, v) : op \in Operators, v \in {w \in Wide : AsFloat(w) = w}}

MCCases == (Trees \X MCSubmissions) \cup ({<<c>> : c \in Comparisons} \X [{"speed"} -> Wide])

\* A limit, and the same with a stricter one on top of it.
Slow == Range("speed", 0, 2)
Cool == Threshold("temp", "<", 1)
MCConstraints == {<<Slow>>, <<Slow, Cool>>}
MCActions     == {[f \in {"speed"} |-> 1], [f \in {"speed", "temp"} |-> 1],
                  [f \in {"speed", "temp"} |-> 0]}

\* Every constraint above with its depth.
Depths == [c \in Leaves \cup Nested \cup Comparisons \cup {Slow, Cool} |->
             IF c.kind \notin {"And", "Or"} THEN 0 ELSE IF c \in Simple THEN 1 ELSE 2]
AllConditions == DOMAIN Depths
MCConditions  == AllConditions
MCDepth       == Depths

NoEvaluation == policy = <<>> /\ data = <<>> /\ verdict = "idle"

MCInit == Init /\ (EvaluationInit \/ NoEvaluation)
MCNext ==
  \/ verdict = "idle" /\ Next /\ UNCHANGED evaluation
  \/ Judge /\ UNCHANGED vars
MCSpec == MCInit /\ [][MCNext]_<<vars, evaluation>>
=============================================================================
