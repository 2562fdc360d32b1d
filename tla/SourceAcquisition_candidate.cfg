SPECIFICATION Spec
CONSTANTS
  Worker = {w1}
  Url = {u1}
  TargetKind = "event_candidate"
  Gap = {"official_source"}
  WebGap = {"official_source"}
  Coverage = {"none"}
  QueryCount <- MCQueryCount
  ProviderPages <- MCProviderPages
  MediaLimit = 1
  MediaPerSource = 1
  MaxSourcePages = 3
  MaxPagesPerRun = 2
  ZeroYield = 2
  MaxWave = 2
  MaxCycles = 1
  InputsMayChange = FALSE
  PagesSpanWaves = TRUE
  MaxUpsets = 0
PROPERTY RefusalExplained
