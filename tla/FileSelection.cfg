SPECIFICATION Spec
CONSTANTS
  ChunkSize = 4
  Layouts <- MCLayouts
  Multimedia = {1}
  Priorities <- MCPriorities
  MaxChunk = 2
  MaxChanges = 2
  MaxSessions = 1
INVARIANTS HaveIsStored ChunksLeftIsFresh WantedCanBeFetched
PROPERTY WantedIsFetched
