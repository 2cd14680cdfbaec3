SPECIFICATION Spec
CONSTANTS
  Timers = {t1, t2}
  WaitTimes <- OneTime
  SpuriousWakeups = FALSE
  MaxElapsed = 2
PROPERTIES TickNotEarly
