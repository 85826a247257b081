\* A save that overtakes the build in progress.
SPECIFICATION FairSpec
CONSTANTS
  None = None
  s1 = s1
  s2 = s2
  Saves = {s1}
  Kind <- ConfigAndToken
  Readers = {}
  MaxAsks = 0
  MayBreak = FALSE
  MayAbandon = FALSE
  Enabled = {TRUE}
PROPERTIES
  TakesEffect
