SPECIFICATION SpecAll
CONSTANTS
  None = None
  Now = 1
  Resolves <- MCResolves
  NameOrder <- MCNameOrder
  Sources <- NoSources
  Answers <- MCAnswers
  Ingresses <- MCIngresses
  OwnLabel <- MCOwnLabel
  ValuesOf <- MCValuesOf
  GlobalSources <- MCDefectSources
  Services <- MCServices
INVARIANT SpecializedAgrees
CHECK_DEADLOCK FALSE
