SPECIFICATION FairSpec
CONSTANTS
  MaxSessions = 1
  MaxGenerations = 1
  MaxWaiting = 1
  MaxFaults = 1
  Faults = {"hang", "update", "release"}
PROPERTY IdleSessionCloses
PROPERTY OwnerGivenBack
