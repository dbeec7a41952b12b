SPECIFICATION SpecAll
CONSTANTS
  None = None
  Now = 1
  Resolves <- MCResolves
  NameOrder <- MCNameOrder
  Sources <- MCIngressSources
  Answers <- MCAnswers
  Ingresses <- MCIngresses
  OwnLabel <- MCOwnLabel
  ValuesOf <- MCValuesOf
  GlobalSources <- NoSources
  Services <- MCServices
INVARIANT IngressKept
CHECK_DEADLOCK FALSE
