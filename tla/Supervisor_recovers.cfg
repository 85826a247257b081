\* Requests beside saves that break and mend the settings, some dropped half way.
SPECIFICATION FairSpec
CONSTANTS
  None = None
  s1 = s1
  s2 = s2
  Saves = {s1, s2}
  Kind <- ConfigAndToken
  Readers = {}
  MaxAsks = 2
  MayBreak = TRUE
  MayAbandon = TRUE
  Enabled = {FALSE}
INVARIANTS
  PassesAsked
PROPERTIES
  RequestServed
  Recovers
