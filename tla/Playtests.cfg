CONSTANTS
  First = c1
  Second = c2
  Callers = {c1, c2}
  Commands <- TheCommands
  MaxPlayers = 2
  NoSession = NoSession
  StartAttempts = 2
  MaxCommands = 1
  MaxFaults = 1
SPECIFICATION FairPlaytestsSpec
INVARIANTS OwnSessions RunCleans
PROPERTIES CommandsEnd
CHECK_DEADLOCK FALSE
