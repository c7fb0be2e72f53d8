SPECIFICATION MCSpec
CONSTANTS
  LoadDevices = {d1, d2}
  LoadNotifs = {n1, n2}
  OtherDevices = {d3, d4, d5}
  OtherNotifs = {n3}
  Pages = {v1}
  NoNotif = NoNotif
  Concurrency = 1
  SampleSize = 1
INVARIANTS TypeOK CompletionTruthful FinalPageComplete
PROPERTIES LoadTestEnds PollingStops
CHECK_DEADLOCK FALSE
