\* Blocks of three bytes: two full blocks in and three out, in calls of any
\* lengths; challenges with three coefficients of four; all parameter sets and
\* configurations, polynomials of three coefficients, two blocks at first and
\* two candidates in each, two slow streams in a call; one input of the
\* permutation, whose bytes are all different from those around them.
CONSTANTS
  Rate = 3
  Byte = {b1, b2}
  MaxInput = 6
  MaxOutput = 9
  N = 4
  TAU = 3
  SeedBytes = 4
  SignBytes = 1
  Horizon = 4
  ParameterSets = {44, 65, 87}
  Coefficients = 3
  PerBlock = 2
  NBLOCKS = 2
  Vector = 2
  SlowHorizon = 2
  MaxSlow = 2
  LongHorizon = 3
  Inputs <- MCInputs
SPECIFICATION HashingSpec
INVARIANTS OutputIsShake ChallengeAsSpecified PermutationAsSpecified SampledAsSpecified
\* A challenge or the polynomials were drawn.
CHECK_DEADLOCK FALSE
