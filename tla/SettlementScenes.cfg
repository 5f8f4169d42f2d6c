SPECIFICATION Scenario
CONSTANTS
  Workers = {w1, w2, w3}
  Pair = {w1, w2}
  Clerk = w3
  Actors = {u1, u2, u3}
  Authorizations = {a1}
  MaxAmount = 2
  MaxThresholds = 1
  Program <- Casting
INVARIANTS RecordsTyped OnceOnly RecordsTrue SerialPromises
PROPERTIES QuorumSpec HoldStopsMoney
CHECK_DEADLOCK FALSE
