CONSTANTS
  Signals <- MCSignals
  GuardSets <- MCGuardSets
  RaiseSignos <- MCRaiseSignos
  RaiseParams = {"none"}
  FaultCodes <- MCFaultCodes
  FaultParams = {"access"}
  Deciders = 1
  Debuggers = {TRUE, FALSE}
  KeepInstalled = TRUE
  MarksSoftware = TRUE
  AbandonRule = "any"
  MaxDepth = 6
SPECIFICATION Spec
INVARIANT NoAbort
