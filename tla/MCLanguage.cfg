SPECIFICATION SpecAll
CONSTANTS
  None = None
  Now = 1
  Resolves <- MCResolves
  NameOrder <- MCNameOrder
  Sources <- MCSources
  Answers <- MCAnswers
  Ingresses <- MCIngresses
  OwnLabel <- MCOwnLabel
  ValuesOf <- MCValuesOf
  GlobalSources <- MCGlobalSources
  Services <- MCServices
INVARIANTS
  ProgramTypeOK
  TypeSound
  MeaningKept
  NoRecursion
  CutKeepsMeaning
  PolicyDecides
  IngressGuarded
  SpecializedAgrees
  SelfContained
CHECK_DEADLOCK FALSE
