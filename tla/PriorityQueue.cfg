SPECIFICATION ScenarioSpec
CONSTANTS
  NoNpg = NoNpg
  Npgs = {6}
  Messages <- MCMessages
  Npg <- MCNpg
  Terminal <- MCTerminal
  Priority <- MCPriority
  Staleness <- MCStaleness
  Workers = {w1, w2}
  Resend = FALSE
  MaxNow = 3
  Low <- MCLow
  High <- MCHigh
  Flat <- MCFlat
  RTT <- MCRTT
  Brief <- MCBrief
  Mixed <- MCMixed
  Free <- OneNpg
  FreeNow = 2
SYMMETRY Symmetry
INVARIANTS TypeOK Conservation ScenariosAsExpected FloodProtection
PROPERTIES SentInPrecedence OnlyStalePurged FreshAtReading
