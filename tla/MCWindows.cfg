CONSTANTS
  Signals <- MCSignals
  GuardSets <- MCGuardSets
  RaiseSignos <- MCRaiseSignos
  RaiseParams = {"none"}
  FaultCodes <- MCFaultCodes
  FaultParams = {"access"}
  Deciders = 1
  Debuggers = {TRUE, FALSE}
  KeepInstalled = TRUE
  MarksSoftware = TRUE
  AbandonRule = "once"
  MaxDepth = 6
SPECIFICATION Spec
INVARIANTS TypeOK ChainsMatchStack DecidedOnce UnclaimedMarkIsOwn
PROPERTY RaiseSurvives
