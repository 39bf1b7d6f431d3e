SPECIFICATION Spec
CONSTANTS
  Fields <- MCFields
  Values <- MCValues
  Literals <- MCLiterals
  ScannedNumber <- MCScanned
  Workers = {w1, w2}
  Ids = {"A"}
  AllTracks = AllTracks
  Messages <- OneTrack
  Kinds = {"J2.2", "J3.2"}
  DefaultTTL = 1
  TTLs = {0}
  MaxReceives = 3
  MaxNow = 3
SYMMETRY Symmetry
INVARIANTS TypeOK KeepLatest VersionCountsWrites SafetyNetUnused
PROPERTIES AbortsNeedInterference OnlyExpiredRemoved UndefinedOnlyAfterSweep
