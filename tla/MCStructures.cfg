SPECIFICATION StructuresSpec
CONSTANTS
  N = 2
  Chunks = {k1, k2, k3, k4}
  Commands = {ready, finish}
  NoCommand = NoCommand
  MaxQueued = 3
  Msgs = {m1, m2, m3}
  Contents = {k1, k2}
  NoContent = NoContent
  NoMsg = NoMsg
  MaxRefs = 2
  Keys = {0, 1}
  MaxElement = 2
  Thetas = {0, 1}
  Cap = 2
  Garbage = {1, 3}
  MaxBackups = 1
  MaxLives = 2
  Sizes = {0, 4, 8, 255, 256}
  Numbers <- OptionNumbers
  MaxSets = 2
  ByteBits = 2
  Uris <- MCUris
  Masks <- MCMasks
  Peers <- MCPeers
  MaxFilters = 1
  Base = 4
  Identities <- MCIdentities
CHECK_DEADLOCK FALSE
INVARIANTS
  PointersLive
  MsgInv
  
  
  OptionsInv
  EndpointInv
  FiltersDecide
  HandshakeAgrees
PROPERTY ImplementsFIFO
