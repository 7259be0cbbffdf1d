SPECIFICATION Spec
CONSTANTS
  p1 = p1
  p2 = p2
  t1 = t1
  t2 = t2
  t3 = t3
  Processes <- TwoProcesses
  Tasks <- TwoTasks
  Home <- TwoHome
  TokenTTL = 3
  FallbackTTL = 2
  Margin = 1
  Epoch = 100
  MaxLogins = 2
  MaxCrashes = 0
  MaxTime = 3
PROPERTIES
  FreshWhenSent
