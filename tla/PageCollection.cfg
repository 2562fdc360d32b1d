SPECIFICATION Spec
CONSTANTS
  NoUrl = NoUrl
  u1 = u1
  u2 = u2
  u3 = u3
  Url <- MCUrl
  Published <- MCPublished
  Restored <- MCRestored
  Body = {b1, b2, b3}
  Digest = {d1, d2, d3, d4}
  MediaLimit = 3
  VideoLimit = 1
  MediaPerSource = 2
  MaxAnalyses = 2
  MaxPagesPerRun = 3
  HasProvider = TRUE
SYMMETRY Symmetry
INVARIANTS TypeOK TicketsWithinLimits NothingTwice PageAsPosted HonestWithoutFailure
