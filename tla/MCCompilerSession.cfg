CONSTANTS
  Texts = {text1, text2}
  MaxCompiles = 3
SPECIFICATION Spec
INVARIANTS FreshInputs SuccessIsCoherent NoSilentError FailureIsExplained
CHECK_DEADLOCK FALSE
