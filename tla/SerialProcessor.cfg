SPECIFICATION Spec
CONSTANTS
  F = 2
  R = 2
  Inputs <- MCInputs
INVARIANTS
  Computes
PROPERTIES
  OncePerPress
  ReadyAgain
