SPECIFICATION Spec
CONSTANTS
  Threads = {t1, t2, t3}
  Max = 2
  Desired = 0
  Updates <- ReleaseSizes
  MaxReleased = 3
INVARIANTS TypeOK Conservation NoLostWakeup
PROPERTIES ImplementsPermits TimedAttemptEnds
