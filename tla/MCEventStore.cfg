SPECIFICATION FairSpec
CONSTANTS
  DeviceId = "lumahome"
  Manual = manual
  Night = night
  Mode = {manual, night}
  Null = null
  Malformed = malformed
  MaxInt = 3
  MaxEvents = 2
  MaxLimit = 2
  Requests <- MCRequests
  Limits = {0, 2}
  OldFiles <- MCOldFiles
  Handlers = {h1, h2}
  MaxClock = 1
  MaxFaults = 1
INVARIANTS TypeOK ServerErrorsAreFaults HistoryReadable ReportedIsStored
PROPERTIES ImplementsLog EventuallyServes
