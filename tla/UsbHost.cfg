SPECIFICATION FairSpec
CONSTANTS
  Kinds <- MCKinds
  NoDevice = NoDevice
  DevSpeed <- MCDevSpeed
  DevClass <- MCDevClass
  DevMps <- MCDevMps
  NumDevices = 3
  Rcodes = {255}
  MaxPlugs = 2
  ResetRaisesCondet = TRUE
INVARIANTS
  TypeOK
  HostAgreesWithDevice
  DriverBoundToDevice
  EpinfoNotNull
  ErrorNamesItsCause
  AddressesContiguous
PROPERTIES
  ImplementsConnection
  EnumerationTerminates
  UnplugIsNoticed
