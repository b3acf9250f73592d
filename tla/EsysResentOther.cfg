\* A FromTPMPublic refused while a GetRandom is pending, which is then resubmitted.
SPECIFICATION Spec
CONSTANTS
  t1 = t1  t2 = t2  s1 = s1  n1 = n1  p1 = p1
  Commands = {"GetRandom", "ReadPublic"}
  Profile <- MCProfile
  MaxSubmissions = 2
  Globals <- MCNoGlobals
  MinObject = 1
  MaxObject = 2
  None = None
  TpmHandle = {t1}
  KindOf <- MCKindOf
  Permanent = Permanent
  Blank = Blank
  Absent = Absent
  TctiAsync = TRUE
  Overlap = TRUE
  Faults = FALSE
PROPERTIES CommandCycle
