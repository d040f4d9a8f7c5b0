SPECIFICATION MCSpec
CONSTANTS
  PolicyIds = {"safety-1", "safety-2"}
  Constraints <- MCConstraints
  Actions <- MCActions
  Evaluate <- verify_constraints
  RegistrationBound = 3
  ProofBound = 2
  MantissaBits = 3
  Conditions <- MCConditions
  Depth <- MCDepth
  Submissions <- MCSubmissions
  Cases <- MCCases
INVARIANTS IssuedProofsHold KeyOfOwnPolicy
INVARIANTS SoundAndComplete MissingFieldsNeverFlip RoundingKeepsOrder
CHECK_DEADLOCK FALSE
