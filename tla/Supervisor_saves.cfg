\* Two handlers that write both documents, good or not, beside the loop and a reader.
SPECIFICATION Spec
CONSTANTS
  None = None
  s1 = s1
  s2 = s2
  Saves = {s1, s2}
  Kind <- SecretAndTracker
  Readers = {r1}
  MaxAsks = 0
  MayBreak = FALSE
  MayAbandon = FALSE
  Enabled = {TRUE}
INVARIANTS
  ReadsSaved
  MissesOnlyRaced
PROPERTIES
  SavesKept
