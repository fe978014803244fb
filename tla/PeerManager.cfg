SPECIFICATION Spec
CONSTANTS
  Managers = {"m1", "m2"}
  Remotes <- MCRemotes
  Self = "self"
  Worlds <- MCWorlds
  Chunks = {c1}
  MaxAuths = 1
  MaxConnecting = 2
  Slots = 1
  MaxIncoming = 1
INVARIANTS LimitsAreKept OnePeerEach SwarmIsCounted
PROPERTIES HandshakesEnd
