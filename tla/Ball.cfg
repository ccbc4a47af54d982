SPECIFICATION BallFairSpec
CONSTANTS
  Modulus = 32
  Ball_X_Max = 22
  Ball_Y_Max = 18
  Ball_Size = 4
INVARIANTS
  BallTypeOK
  StaysInside
PROPERTY Recalled
