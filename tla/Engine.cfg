SPECIFICATION FairSpec
CONSTANTS
  Fields <- MCFields
  Values <- MCValues
  Literals <- MCLiterals
  ScannedNumber <- MCScanned
  Definitions <- MCDefinitions
  Injected = {Raw}
  Nodes = {"n1", "n2"}
  StageIds = {"T", "U"}
  Raw = Raw
  NoDef = NoDef
INVARIANTS TypeOK LoadedNeverMisroutes ForwardProgress SkipsAreDeclared BothBooleansRouted
PROPERTIES RunTerminates WalkSpec
