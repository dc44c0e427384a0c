SPECIFICATION Spec
CONSTANTS
  Sources <- McSources
  Order <- ClusterOrder
  Timeout <- ClusterTimeout
  Budget <- McBudget
  Raising <- McRaising
  NoReading = NoReading
  Garbled = Garbled
  NoFile = NoFile
  MaxTime = 0
  MaxChanges = 0
  MaxFaults = 2
PROPERTY StalledSourceDisappears
CHECK_DEADLOCK FALSE
