SPECIFICATION DeviceTimeSpec
CONSTANTS
  Hold <- TwoSeconds
  MaxAge <- FiveSeconds
  MaxDelta <- TwoSeconds
  Patience <- FiveSeconds
  Delay <- OneSecond
  Domains <- OtherClocks
  Shifts <- Settings
  LargestTime <- EndOfTime
  Horizon <- LongEnough
INVARIANTS
  BoardLeads
  DeviceTimeChosen
  DeviceTimeSent
