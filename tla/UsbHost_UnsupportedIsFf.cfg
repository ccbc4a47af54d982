SPECIFICATION Spec
CONSTANTS
  Kinds <- MCKinds
  NoDevice = NoDevice
  DevSpeed <- MCDevSpeed
  DevClass <- MCDevClass
  DevMps <- MCDevMps
  NumDevices = 3
  Rcodes = {14, 255}
  MaxPlugs = 1
  ResetRaisesCondet = TRUE
PROPERTY UnsupportedIsFf
