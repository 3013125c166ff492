SPECIFICATION FairSpec
CONSTANTS
  Run = {r1, r2}
  Worker = {w1, w2}
  NoRun = NoRun
  MaxStalls = 1
  MaxFaults = 1
  Days = {1}
  DefaultDays = 0
  Interval = 1
  Date <- Dates
  MaxDay = 2
  MaxRequests = 1
  MaxChanges = 1
  NoSetting = NoSetting
INVARIANTS TypeOK RunsDoneOnce SettingKept
PROPERTIES  PurgesBehave DuePurged
CHECK_DEADLOCK FALSE
