\* One command of each of the 22 profiles, without transport faults; Esys_TR_FromTPMPublic
\* also while a command is pending.
SPECIFICATION Spec
CONSTANTS
  t1 = t1  t2 = t2  s1 = s1  n1 = n1  p1 = p1
  Commands = {"ActivateCredential", "ChangeEPS", "ContextLoad", "ContextSave", "CreateLoaded",
    "ECC_Parameters", "EvictControl", "FlushContext", "GetSessionAuditDigest",
    "HashSequenceStart", "HierarchyChangeAuth", "NV_DefineSpace", "NV_Increment",
    "NV_ReadPublic", "NV_UndefineSpace", "NV_UndefineSpaceSpecial", "PolicyAuthValue",
    "ReadClock", "ReadPublic", "SequenceComplete", "StartAuthSession", "Startup"}
  Profile <- MCProfile
  MaxSubmissions = 2
  Globals <- MCNoGlobals
  MinObject = 1
  MaxObject = 2
  None = None
  TpmHandle = {t1}
  KindOf <- MCKindOf
  Permanent = Permanent
  Blank = Blank
  Absent = Absent
  TctiAsync = TRUE
  Overlap = TRUE
  Faults = FALSE
INVARIANTS LayersAgree
PROPERTIES SameCommandResent
