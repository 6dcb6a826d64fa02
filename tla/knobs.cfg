SPECIFICATION Spec
CONSTANTS
  Run = {r1, r2}
  Kernels <- MCKernels
  Envs <- MCEnvs
  MixEnvs <- MCMixEnvs
INVARIANTS AsAsked HintsAreCollapsed
CHECK_DEADLOCK FALSE
