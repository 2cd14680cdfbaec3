\* Two threads that are in the middle of a login when the requests are used up stop.
SPECIFICATION Spec
CONSTANTS
  Threads = {t1, t2}
  Levels <- TwoLevels
  MaxRequests = 4
INVARIANTS TypeOK AnswerBelongs LevelAgrees
SYMMETRY Symmetry
CHECK_DEADLOCK FALSE
