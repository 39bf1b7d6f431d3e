SPECIFICATION Spec
CONSTANTS
  Fields <- MCFields
  Values <- MCValues
  Literals <- MCLiterals
  ScannedNumber <- MCScanned
  Reports <- InPosition
  NoMessage = NoMessage
  TicksPerSecond = 2
  Hair = Hair
  AllTracks = AllTracks
  DefaultTTL = 4
  TTLs = {2}
  Receiver = receiver
  StaleAge = 2
  Damage = {}
  MaxSends = 2
  MaxReceives = 3
  MaxNow = 5
INVARIANT SameWorkAlways
