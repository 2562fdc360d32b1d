\* The same instance, against the docstring of the provider.
SPECIFICATION Spec
CONSTANTS
  c1 = c1
  c2 = c2
  Call = {c1, c2}
  LastArtifact = 2
  SdkAttempts = 2
  MaxPolls = 1
  MaxUpsets = 2
INVARIANTS
  NoDuplicateJob
