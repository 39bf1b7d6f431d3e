SPECIFICATION FairSpec
CONSTANTS
  NoNpg = NoNpg
  Npgs = {6, 7}
  Messages <- Stream
  Npg <- MCNpg
  Terminal <- MCTerminal
  Priority <- MCPriority
  Staleness <- MCStaleness
  Workers = {w1}
  Resend = TRUE
  MaxNow = 2
PROPERTY TerminalSent
