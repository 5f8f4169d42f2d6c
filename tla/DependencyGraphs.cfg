SPECIFICATION FairSpec
CONSTANTS
  Nodes = {1, 2, 3}
  Names = {1, 2, 3, 4}
  EdgeIds = {1, 2, 3, 4}
INVARIANTS VerdictExact DownstreamExact
PROPERTIES Ordering Terminates
CHECK_DEADLOCK FALSE
