SPECIFICATION FairSpec
CONSTANTS
  RamWords = 8
  FillWords = 6
  Programs <- MCPrograms
  Switches = {0, 1, 1023}
INVARIANT TypeOK
PROPERTIES
  ImplementsLc3
  OnePressOnePause
  InstructionEnds
