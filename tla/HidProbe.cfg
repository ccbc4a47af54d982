SPECIFICATION FairSpec
CONSTANTS
  Devices <- MCDevices
  BufSize = 12
  MaxDevices = 3
INVARIANTS
  TypeOK
  ReadsOnlyFresh
  BoundAsDescribed
PROPERTY ProbeReturns
CHECK_DEADLOCK FALSE
