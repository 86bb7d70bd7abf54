SPECIFICATION Spec
CONSTANTS
  p1 = p1  p2 = p2  t1 = t1  t2 = t2  t3 = t3
  Process = {p1, p2}
  Thread = {t1, t2, t3}
  ProcessOf <- MCProcessOf
  NoThread = NoThread
  Brand = {"AAAA"}
  NoBrand = ""
  Event = {"W1I"}
  MaxNesting = 2
  Faults = {"timeout"}
PROPERTIES
  BrandScopesCalls
