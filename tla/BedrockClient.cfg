\* Two threads and a lot of three; ticks of 100 s, so that four attempts of 95 s
\* meet a margin of 300 s, and credentials that live long enough to be cached once.
SPECIFICATION FairSpec
CONSTANTS
  t1 = t1
  t2 = t2
  Thread = {t1, t2}
  NoThread = NoThread
  Lot = 3
  MaxAttempts = 4
  Margin = 3
  Lifetime = 5
  MaxClock = 6
  MaxLost = 1
  MaxStarts = 2
INVARIANTS
  TypeOK
  PaidWithinLots
  SignedWithValid
PROPERTIES
  CallsEnd
CHECK_DEADLOCK FALSE
