SPECIFICATION Spec
CONSTANTS
  p1 = p1  p2 = p2  t1 = t1  t2 = t2  t3 = t3
  Process = {p1, p2}
  Thread = {t1, t2, t3}
  ProcessOf <- MCProcessOf
  NoProcess = NoProcess
  NoThread = NoThread
  Stale = Stale
  d0 = d0  d1 = d1
  Dict = {d0, d1}
  EmptyDict = d0
  NoDict = NoDict
  Missing = Missing
  MaxTries = 1
  MaxNesting = 2
  Faults = {"read"}
  NestAfterFailure = {"lock", "read"}
INVARIANTS
  ChecksHold
