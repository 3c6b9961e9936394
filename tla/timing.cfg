SPECIFICATION Spec
CONSTANTS
  short = short
  mid = mid
  long = long
  NoMsg = NoMsg
  Msg = {short, mid, long}
  Interval <- MCInterval
  Longest = 4480
  TimeThreshold = 7200000
  HkIdle = 640
  Start <- MCStart
  Moments <- MCMoments
INVARIANTS
  TypeOK
  LatenessBounded
  AbandonedIsParked
PROPERTIES
  ParkedInALaterHour
  ShortWaitIsNotParked
