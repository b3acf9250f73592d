\* Esys_TR_FromTPMPublic_Async called while a command is pending.
SPECIFICATION Spec
CONSTANTS
  t1 = t1  t2 = t2  s1 = s1  n1 = n1  p1 = p1
  Commands = {"CreatePrimary", "FlushContext", "ReadPublic"}
  Profile <- MCProfile
  MaxSubmissions = 2
  Globals <- MCNoGlobals
  MinObject = 1
  MaxObject = 4
  None = None
  TpmHandle = {t1}
  KindOf <- MCKindOf
  Permanent = Permanent
  Blank = Blank
  Absent = Absent
  TctiAsync = TRUE
  Overlap = TRUE
  Faults = FALSE
PROPERTIES SuccessDelivered
