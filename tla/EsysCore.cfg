\* The life of one key: loaded, imported again, read, flushed; every failure.
SPECIFICATION FairSpec
CONSTANTS
  t1 = t1  t2 = t2  s1 = s1  n1 = n1  p1 = p1
  Commands = {"Load", "FlushContext", "ReadPublic"}
  Profile <- MCProfile
  MaxSubmissions = 2
  Globals <- MCGlobals
  MinObject = 1
  MaxObject = 3
  None = None
  TpmHandle = {t1}
  KindOf <- MCKindOf
  Permanent = Permanent
  Blank = Blank
  Absent = Absent
  TctiAsync = TRUE
  Overlap = FALSE
  Faults = TRUE
INVARIANTS TypeOK LayersAgree HeldIsLive NoOrphans HandlesFresh SubmissionsCounted
PROPERTIES SuccessDelivered CommandCycle EveryCallReturns
