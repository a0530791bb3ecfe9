CONSTANTS
  MaxVersion = 5
  Absent = {3}
  Broken = {2}
  Lookups = {l1, l2}
SPECIFICATION FairSpec
INVARIANTS NoUseAfterClose NoLeak InfoNotNewer
PROPERTY ReplacementServed
CHECK_DEADLOCK FALSE
