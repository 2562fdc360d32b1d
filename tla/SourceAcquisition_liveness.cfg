SPECIFICATION RetriedSpec
CONSTANTS
  Worker = {w1, w2}
  Url = {u1}
  TargetKind = "incident_day"
  Gap = {"official_source", "identity"}
  WebGap = {"official_source"}
  Coverage = {"ready", "identity", "official_source"}
  QueryCount <- MCQueryCount
  ProviderPages <- MCOnePage
  MediaLimit = 1
  MediaPerSource = 1
  MaxSourcePages = 3
  MaxPagesPerRun = 2
  ZeroYield = 2
  MaxWave = 2
  MaxCycles = 2
  InputsMayChange = FALSE
  PagesSpanWaves = FALSE
  MaxUpsets = 0
PROPERTIES RequestsEnd TargetSettles
