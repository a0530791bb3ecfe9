CONSTANTS
  Client = {c1, c2}
  NoClient = NoClient
  Handler = {h1, h2}
  Limit = 1
  MaxClients = 2
  MaxMinute = 1
SPECIFICATION Spec
INVARIANT LimitedPerMinute
CHECK_DEADLOCK FALSE
