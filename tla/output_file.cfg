SPECIFICATION SpecCast
CONSTANTS
  plain = plain
  uff = uff
  walker = walker
  Processes = {plain, uff}
  Appending = {plain}
  Walkers = {walker}
  Matching = {"x"}
  Lengths = {3}
  FileNames <- AllFiles
  SortedNames <- ShortNames
INVARIANTS TypeOK StreamMatchesName DataLines SortsSafely
PROPERTIES FailsForAReason OpenEnds DeletesInside DeleteFailsForAReason ListingComplete
