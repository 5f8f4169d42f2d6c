SPECIFICATION Spec
CONSTANTS
  Pair = {w1, w2}
  Clerk = w1
  Program <- Casting
  Ledger <- Account
INVARIANTS RecordsTyped OnceOnly ClaimsBacked SerialPromises ChainsLinked
PROPERTIES StepsAllowed ReportsMonotone
CHECK_DEADLOCK FALSE
