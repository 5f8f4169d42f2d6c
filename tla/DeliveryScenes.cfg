SPECIFICATION Spec
CONSTANTS
  Pair = {w1, w2}
  Clerk = w1
  Program <- Casting
INVARIANTS RecordsTyped OnceOnly RecordsBacked SerialPromises
PROPERTIES StepsAllowed
CHECK_DEADLOCK FALSE
