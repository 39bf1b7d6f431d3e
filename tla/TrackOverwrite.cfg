SPECIFICATION WholeSpec
CONSTANTS
  Fields <- MCFields
  Values <- MCValues
  Literals <- MCLiterals
  ScannedNumber <- MCScanned
  Workers = {w1, w2}
  Ids = {"A"}
  AllTracks = AllTracks
  Messages <- PlainTrack
  Kinds = {"J2.2"}
  DefaultTTL = 1
  TTLs = {0}
  MaxReceives = 3
  MaxNow = 3
SYMMETRY Symmetry
PROPERTY NewerPreserved
