SPECIFICATION Spec
CONSTANTS
  Worker = {w1, w2}
  Url = {u1}
  TargetKind = "incident_day"
  Gap = {"official_source"}
  WebGap = {"official_source"}
  QueryCount <- MCQueryCount
  ProviderPages <- MCProviderPages
  MediaLimit = 1
  Coverage = {"ready", "official_source"}
  MediaPerSource = 1
  MaxSourcePages = 3
  MaxPagesPerRun = 2
  ZeroYield = 2
  MaxWave = 2
  MaxCycles = 1
  InputsMayChange = TRUE
  PagesSpanWaves = TRUE
  MaxUpsets = 1
SYMMETRY Symmetry
INVARIANTS TypeOK RequestsExtendChain CursorInPlan SessionsOfRuns
PROPERTIES LedgerSpec RefusalExplained
