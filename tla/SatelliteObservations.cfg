\* Two calls over a Sentinel-1 change, whose reference may be replaced, a thermal
\* product, and one of another collection; three upsets, of which one may be the
\* authorisation of credits.
SPECIFICATION FairSpec
CONSTANTS
  c1 = c1
  c2 = c2
  Call = {c1, c2}
  Artifact = {"s1", "r1", "r2", "f1", "m1"}
  Processor <- MCProcessor
  Reference = {"r1", "r2"}
  Foreign = {"m1"}
  Malformed = {}
  FirstTickets = {"s1", "r1", "f1", "m1"}
  MaxUpsets = 3
INVARIANTS
  TypeOK
  PaidOnce
PROPERTIES
  LedgerSpec
  RemainingHonest
  AllObserved
