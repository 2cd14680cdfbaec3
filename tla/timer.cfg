SPECIFICATION Spec
CONSTANTS
  Timers = {t1, t2}
  WaitTimes <- TwoTimes
  SpuriousWakeups = TRUE
  MaxElapsed = 2
INVARIANTS TypeOK NoLostKill
PROPERTIES TickSpacing WaitEnds
