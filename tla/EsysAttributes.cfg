\* Attributes set while a response is awaited.
SPECIFICATION Spec
CONSTANTS
  s1 = s1  s2 = s2  o1 = o1
  Sessions = {s1, s2}
  Objects = {o1}
  NvIndices = {o1}
  a = a  Secrets = {a}
  NoByte = NoByte  Password = Password  None = None
  Usages <- MCUsages
  Starts <- MCStarts
  AttributeSets <- MCAttributeSets
  TpmCycle = 2  CallerCycle = 1
  Faults = TRUE
PROPERTIES AttributesStay
CHECK_DEADLOCK FALSE
