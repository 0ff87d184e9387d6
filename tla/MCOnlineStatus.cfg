SPECIFICATION StatusSpec
CONSTANTS
  Wrap = 10
  ConnectTimeout = 3
  RetryInitial = 1
  RetryMax = 3
  Interval = 3
  MaxCall = 2
  MaxPass = 2
  OnlineTimeout = 9
INVARIANTS
  TypeOK
  RetryInTime
  HeartbeatInTime
  OnlineIsAnswered
  StaysOnline
