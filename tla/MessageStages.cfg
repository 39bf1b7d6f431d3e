SPECIFICATION Spec
CONSTANTS
  Fields <- MCFields
  Values <- MCValues
  Literals <- MCLiterals
  ScannedNumber <- MCScanned
  TicksPerSecond = 2
  Hair = Hair
  Reports <- MCReports
  NoMessage = NoMessage
  Clock = {4, 5}
INVARIANTS TypeOK PreparedAlike PayloadFaithful BitErrorsDetected
           TransmittedUnlessDenied ClampedAlike SpecialRepairs
