CONSTANTS
  Lockers = {t1, t2, t3}
  Checkers = {c1}
  TTL = 2
  MaxTime = 4
  Serialized = TRUE
SPECIFICATION Spec
PROPERTIES ImplementsAtomicTTLLock
