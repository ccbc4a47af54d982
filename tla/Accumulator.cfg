SPECIFICATION Spec
CONSTANTS
  Settings <- MCSettings
  MaxAdditions = 66
INVARIANTS
  HoldsTheSum
PROPERTIES
  OncePerPress
