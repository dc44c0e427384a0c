SPECIFICATION Spec
CONSTANTS
  Sources <- McSources
  Order <- NativeHaOrder
  Timeout <- NativeHaTimeout
  Budget <- McBudget
  Raising <- McRaising
  NoReading = NoReading
  Garbled = Garbled
  NoFile = NoFile
  MaxTime = 7
  MaxChanges = 1
  MaxFaults = 1
INVARIANTS TypeOK StampHonest IInv
PROPERTIES PublishedInTime Converges
CHECK_DEADLOCK FALSE
