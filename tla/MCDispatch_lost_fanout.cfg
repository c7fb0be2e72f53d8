SPECIFICATION FairSpec
CONSTANTS
  Notifs = {n1, n2}
  Devices = {d1}
  Providers = {fcm}
  ProviderChoices <- OneProvider
  Keys = {k1}
  NoKey = NoKey
  NoOne = NoOne
  Specs <- ExplicitSpecs
  FanoutMaxRetry = 1
  SendMaxRetry = 0
  FaultKinds <- AllFaultKinds
  MaxFaults = 1
PROPERTY AcceptedSettles
