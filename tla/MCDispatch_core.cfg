SPECIFICATION Spec
CONSTANTS
  Notifs = {n1, n2}
  Devices = {d1}
  Providers = {fcm}
  ProviderChoices <- OneProvider
  Keys = {k1}
  NoKey = NoKey
  NoOne = NoOne
  Specs <- ExplicitSpecs
  FanoutMaxRetry = 0
  SendMaxRetry = 1
  FaultKinds <- AllFaultKinds
  MaxFaults = 1
SYMMETRY Symmetry
INVARIANTS TypeOK HandlerInv OutcomeTruthful OneFanoutPerKey
PROPERTIES TerminalStays ImplementsContract
