SPECIFICATION Spec
CONSTANTS
  Keys <- MCKeys
  Policies <- MCPolicies
  FirstKeys <- MCFirst
  FirstPages <- MCPages
  Foreigns <- MCForeigns
  Fresh = p
  Native = Native
  Gone = Gone
  Elsewhere = Elsewhere
  None = None
  k1 = k1
  k2 = k2
  p = p
  q = q
  MaxForeign = 1
  MaxMoves = 1
  MaxActs = 1
INVARIANTS
  PublishesOnCertainty
PROPERTIES
  SaveReplacesWhatWasSeen
  WorkSurvives
