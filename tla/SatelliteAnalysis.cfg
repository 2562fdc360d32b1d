\* Two calls at a time over two artifacts, two upsets, one retry of the client.
SPECIFICATION FairSpec
CONSTANTS
  c1 = c1
  c2 = c2
  Call = {c1, c2}
  LastArtifact = 2
  SdkAttempts = 2
  MaxPolls = 1
  MaxUpsets = 2
INVARIANTS
  TypeOK
  InvokesItsOwn
  WaitIsResumable
PROPERTIES
  CallsEnd
  AllAnalysed
