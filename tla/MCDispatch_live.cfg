SPECIFICATION FairSpec
CONSTANTS
  Notifs = {n1}
  Devices = {d1}
  Providers = {fcm}
  ProviderChoices <- OneProvider
  Keys = {}
  NoKey = NoKey
  NoOne = NoOne
  Specs <- AllSpecs
  FanoutMaxRetry = 1
  SendMaxRetry = 1
  FaultKinds <- Crashes
  MaxFaults = 2
PROPERTIES AcceptedSettlesOrArchives FaultlessSettles
