SPECIFICATION FairSpec
CONSTANTS
  USB_NAK_LIMIT = 2
  USB_RETRY_LIMIT = 2
  DescrPackets = 2
  PacketsPerReport = 1
  MaxReports = 3
  MaxFaults = 4
  LateAnswers = FALSE
INVARIANTS
  TypeOK
  ReportsInOrder
  NothingLost
  ControlDone
PROPERTIES
  PollsImplementPipe
  CallsEnd
  EveryReportArrives
