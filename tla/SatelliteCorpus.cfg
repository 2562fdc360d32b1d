\* Six products on two tracks over two cells, pages of a catalogue of two, credits for
\* a pair and a half and output for one product.
SPECIFICATION Spec
CONSTANTS
  c1 = c1
  c2 = c2
  Track <- MCTrack
  FirstPost = 4
  Cell = {c1, c2}
  Footprints <- MCFootprints
  Standings <- MCStandings
  MaxPages = 2
  MaxPairs = 2
  MaxCredits = 3
  MaxOutput = 1
INVARIANTS
  TypeOK
  PairsAsDefined
  ReportHonest
CHECK_DEADLOCK FALSE
