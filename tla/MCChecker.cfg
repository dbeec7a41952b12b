SPECIFICATION SpecAll
CONSTANTS
  None = None
  Now = 1
  Resolves <- MCResolves
  NameOrder <- MCNameOrder
  Sources <- MCPanicSources
  Answers <- MCAnswers
  Ingresses <- MCIngresses
  OwnLabel <- MCOwnLabel
  ValuesOf <- MCValuesOf
  GlobalSources <- NoSources
  Services <- MCServices
INVARIANT CheckerNeverPanics
CHECK_DEADLOCK FALSE
