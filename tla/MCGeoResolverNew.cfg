CONSTANTS
  MaxVersion = 2
  Absent = {}
  Broken = {}
  Lookups = {l1}
SPECIFICATION FairSpec
PROPERTY ReplacementNoticed
CHECK_DEADLOCK FALSE
