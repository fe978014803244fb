SPECIFICATION Spec
CONSTANTS
  ChunkSize = 4
  Layouts <- MCPinched
  Multimedia = {1}
  Priorities <- MCPriorities
  MaxChunk = 2
  MaxChanges = 1
  MaxSessions = 0
INVARIANT BordersAreKept
