SPECIFICATION FairSpec
CONSTANT Switches = {0, 85, 128, 255}
INVARIANTS
  TypeOK
  Product
PROPERTY MultiplyEnds
