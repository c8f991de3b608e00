SPECIFICATION Spec
CONSTANTS
  ParameterSets = {44, 65, 87}
  Near = 1
  Ws <- MCWs
  CS2s <- MCCS2s
  CT0s <- MCCT0s
INVARIANTS DecomposeExact RejectsAsSpecified HintAsSpecified VerifierSeesW1
\* A coefficient is done when it was verified.
CHECK_DEADLOCK FALSE
