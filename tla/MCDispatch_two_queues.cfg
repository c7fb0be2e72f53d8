SPECIFICATION Spec
CONSTANTS
  Notifs = {n1}
  Devices = {d1}
  Providers = {fcm, apns}
  ProviderChoices <- AnyProvider
  Keys = {}
  NoKey = NoKey
  NoOne = NoOne
  Specs <- ExplicitSpecs
  FanoutMaxRetry = 1
  SendMaxRetry = 1
  FaultKinds <- AllFaultKinds
  MaxFaults = 1
PROPERTY TerminalStays
