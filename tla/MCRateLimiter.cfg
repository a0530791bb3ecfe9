CONSTANTS
  Client = {c1, c2, c3}
  NoClient = NoClient
  Handler = {h1, h2, h3}
  Limit = 2
  MaxClients = 2
  MaxMinute = 1
SPECIFICATION Spec
SYMMETRY Symmetry
INVARIANTS TableBounded LimitedButForRollbacks
PROPERTY RefusalJustified
CHECK_DEADLOCK FALSE
