SPECIFICATION FairSpec
CONSTANTS
  Occurrences = {1, 3, 4, 6}
  ScanLimit = 2
  MaxTime = 7
  None = None
CHECK_DEADLOCK FALSE
INVARIANTS NoOccurrenceSkipped OncePerOccurrence
PROPERTY OccurrenceIsServed
