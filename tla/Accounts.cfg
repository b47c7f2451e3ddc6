SPECIFICATION Spec
CONSTANTS
  Emails = {e1, e2}
  NoEmail = NoEmail
  Signups = {s1, s2}
  AccessTTL = 1
  RefreshTTL = 2
  MaxTime = 4
SYMMETRY AccountSymmetry
INVARIANTS
  TypeOK
  RefusedIsTaken
  ServedRecently
PROPERTIES
  SilenceEndsSession
CHECK_DEADLOCK FALSE
