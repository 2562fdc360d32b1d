\* Two runs over a photo and a video, two attempts each; the video may come only
\* with a wave reopened while they run.
SPECIFICATION FairSpec
CONSTANTS
  r1 = r1
  r2 = r2
  Run = {r1, r2}
  Kind <- MCKind
  FirstTickets = {1}
  Transcription = FALSE
  Evidence = TRUE
  MaxPerRun = 2
  MaxAttempts = 2
  MaxReopenings = 1
  MaxUpsets = 1
INVARIANTS
  TypeOK
  AttemptsInOrder
PROPERTIES
  LedgerSpec
  ReceiptHonest
  MediaSettles
