\* MAX_RPC_BYTES is ten times the default buffer of a Unix socket; three segments
\* over a buffer of two already do not fit.
SPECIFICATION Spec
CONSTANTS
  MaxFrame = 3
  Buffer = 2
INVARIANT FrameDelivered
CHECK_DEADLOCK FALSE
