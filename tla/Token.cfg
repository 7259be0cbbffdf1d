SPECIFICATION Spec
CONSTANTS
  p1 = p1
  p2 = p2
  t1 = t1
  t2 = t2
  t3 = t3
  Processes <- OneProcess
  Tasks <- OneTasks
  Home <- OneHome
  TokenTTL = 4
  FallbackTTL = 3
  Margin = 2
  Epoch = 100
  MaxLogins = 2
  MaxCrashes = 1
  MaxTime = 4
INVARIANTS
  TypeOK
  SharedFresh
PROPERTIES
  OwnCookiesMatch
  NoNeedlessLogin
  FreshWhenSent
  EveryCallerAnswered
