SPECIFICATION Spec
CONSTANTS
  Full = 15
  Depth = 64
  Tries = 8
  Guard = 2
  ByteTime = 10
  ReadTimes = {6, 7, 8}
  PopTime = 4
  Garbled <- MCGarbled
INVARIANT ReadsWholePackets
INVARIANT SearchIsAligned
PROPERTY PacketIsSeen
PROPERTY JamIsCleared
