SPECIFICATION ParseSpec
CONSTANTS
  ResourceNames <- McNames
  MaxPeers = 2
  NoToken = NoToken
  Garbled = Garbled
  Indent = Indent
  NoResource = NoResource
INVARIANT StandAloneShows
CHECK_DEADLOCK FALSE
