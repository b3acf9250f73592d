\* The node that EvictControl makes on entry.
SPECIFICATION Spec
CONSTANTS
  t1 = t1  t2 = t2  s1 = s1  n1 = n1  p1 = p1
  Commands = {"EvictControl", "CreatePrimary"}
  Profile <- MCProfile
  MaxSubmissions = 1
  Globals <- MCNoGlobals
  MinObject = 1
  MaxObject = 5
  None = None
  TpmHandle = {t1, p1}
  KindOf <- MCKindOf
  Permanent = Permanent
  Blank = Blank
  Absent = Absent
  TctiAsync = TRUE
  Overlap = FALSE
  Faults = FALSE
INVARIANTS NoOrphans
