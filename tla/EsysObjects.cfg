\* Keys and saved sessions loaded, saved again (which closes the node of a session), and evicted
\* into persistent memory and back; over a TCTI that only blocks.
SPECIFICATION Spec
CONSTANTS
  t1 = t1  t2 = t2  s1 = s1  n1 = n1  p1 = p1
  Commands = {"ContextLoad", "ContextSave", "EvictControl"}
  Profile <- MCProfile
  MaxSubmissions = 1
  Globals <- MCNoGlobals
  MinObject = 1
  MaxObject = 3
  None = None
  TpmHandle = {t1, p1, s1}
  KindOf <- MCKindOf
  Permanent = Permanent
  Blank = Blank
  Absent = Absent
  TctiAsync = FALSE
  Overlap = FALSE
  Faults = TRUE
INVARIANTS NothingLost
