SPECIFICATION Spec
CONSTANTS
  Clients = {run, route}
  s1 = s1
  s2 = s2
  desk = desk
  web = web
  Sockets = {s1, s2}
  Sessions = {desk}
  SessionOf <- Reconnecting
  MaxOps = 2
  MaxCrashes = 1
  MaxFailures = 1
  MaxCancels = 1
INVARIANT
  OpenIsRegistered
CHECK_DEADLOCK FALSE
