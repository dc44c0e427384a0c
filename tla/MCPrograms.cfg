SPECIFICATION ProgramsSpec
CONSTANTS
  RDQM = RDQM
  NATIVEHA = NATIVEHA
  PACEMAKER = PACEMAKER
  NoOverride = NoOverride
  Pending = Pending
  Unresolvable = Unresolvable
  MaxChanges = 3
  ResourceNames <- McNames
  MaxPeers = 2
  NoToken = NoToken
  Garbled = Garbled
  Indent = Indent
  NoResource = NoResource
  CriticalQueues <- McQueues
  CriticalChannels <- McChannels
  Stacks <- McStacks
  Hosts = {h1, h2}
  NoHost = NoHost
  Window = 2
  MaxEvents = 3
INVARIANTS
  TypeOK RdqmNodeIsRdqm OnlyWhatIsThere StillStackResolved
  ParseTypeOK OwnBlockOnly ExactForOnePeer ResyncVisible
  BoardsFit PillsAreRight FlowIsOwn RoundTripIsRight
CHECK_DEADLOCK FALSE
