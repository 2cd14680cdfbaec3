\* When the bounded changes are used up and no object is left, nothing happens any more.
SPECIFICATION Spec
CONSTANTS
  Watchdogs = {w1, w2, w3}
  MaxChanges = 6
  MaxServed = 2
INVARIANTS OneNotificationPerReport ListIsWanted
PROPERTIES KeepsNotifying
CHECK_DEADLOCK FALSE
