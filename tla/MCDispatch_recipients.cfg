SPECIFICATION Spec
CONSTANTS
  Notifs = {n1}
  Devices = {d1, d2}
  Providers = {fcm}
  ProviderChoices <- OneProvider
  Keys = {}
  NoKey = NoKey
  NoOne = NoOne
  Specs <- FindingSpecs
  FanoutMaxRetry = 1
  SendMaxRetry = 1
  FaultKinds <- Crashes
  MaxFaults = 2
SYMMETRY Symmetry
INVARIANTS NothingLost TotalsExact
