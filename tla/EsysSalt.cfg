\* A session without a secret after a salted one.
SPECIFICATION Spec
CONSTANTS
  t1 = t1  t2 = t2  s1 = s1  n1 = n1  p1 = p1
  Commands = {"StartAuthSession"}
  Profile <- MCProfile
  MaxSubmissions = 2
  Globals <- MCNoGlobals
  MinObject = 1
  MaxObject = 4
  None = None
  TpmHandle = {s1, p1}
  KindOf <- MCKindOf
  Permanent = Permanent
  Blank = Blank
  Absent = Absent
  TctiAsync = TRUE
  Overlap = FALSE
  Faults = FALSE
PROPERTIES UnsaltedSessionStarts
