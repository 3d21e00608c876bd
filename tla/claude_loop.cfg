SPECIFICATION Spec
CONSTANTS
  Runs = {g1, g2}
  Alerts = {x1}
  Triaged = {x1}
  Messages = {m1}
  Nobody = Nobody
  MaxSessionsPerDay = 1
  MaxConsecutiveErrors = 2
  Windows = {"none", "done", "answer"}
  MaxPolls = 1
  MaxClears = 1
  MaxFaults = 1
  MaxRestarts = 1
  MaxDay = 2
  
PROPERTIES ClearStartsFresh 
CHECK_DEADLOCK FALSE
