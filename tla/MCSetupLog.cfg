SPECIFICATION FairSpec
CONSTANTS
  Caller = {c1, c2}
  MaxSessions = 3
  MaxEntries = 2
INVARIANTS TypeOK FileIsCurrent PageIsRecent
PROPERTIES NeverBackwards CallsReturn
