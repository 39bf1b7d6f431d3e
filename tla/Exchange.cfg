SPECIFICATION Spec
CONSTANTS
  Fields <- MCFields
  Values <- MCValues
  Literals <- MCLiterals
  ScannedNumber <- MCScanned
  Reports <- MCReports
  NoMessage = NoMessage
  TicksPerSecond = 2
  Hair = Hair
  AllTracks = AllTracks
  DefaultTTL = 4
  TTLs = {2}
  Receiver = receiver
  StaleAge = 2
  Damage = {67, 72}
  MaxSends = 2
  MaxReceives = 3
  MaxNow = 5
INVARIANTS TypeOK NearlyLatest Intact BaselinesAgree
PROPERTIES TableSpec ExpiredWithinSecond
