SPECIFICATION Spec
CONSTANTS
  None = None
  a = a b = b p1 = p1 p2 = p2 p3 = p3 a1 = a1 a2 = a2 a3 = a3 b1 = b1 g = g k1 = k1 k2 = k2
  Models = {a1, a2, a3, b1}
  Aliases = {a, b}
  Providers = {p1, p2, p3}
  Alias <- MCAlias
  Provider <- MCProvider
  Passthrough = {b1}
  Groups = {g}
  Keys = {k1, k2}
  Files <- MCFiles
  Discovered = {a1, a2, a3, b1}
  MaxTouches = 1
  MaxSaves = 2
  Actives <- MCActives
  MaxTrouble = 1
CHECK_DEADLOCK FALSE
INVARIANTS PreviewMatchesRoutes
PROPERTIES  ChoicesSurvive 
