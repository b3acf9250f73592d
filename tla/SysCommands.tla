---------------------------- MODULE SysCommands ----------------------------
(***************************************************************************)
(* The commands of the SAPI: what Tss2_Sys_<command>_Prepare marshals and  *)
(* allows, and what Tss2_Sys_<command>_Complete unmarshals.  A command is  *)
(* handles in its command, the form of its first parameter, whether others *)
(* follow, what may be set for it, handles of its response, the form of    *)
(* the first result, whether others follow.                                *)
(***************************************************************************)
EXTENDS Integers

(* Forms of the first parameter: "optional", a sized buffer that may be NULL
   and set later (decryptNull); "lax", one that may be NULL; "plain", another
   type.  Forms of the first result: "sized", a buffer; "nested", a structure
   behind its size; "plain". *)
Command(name, handles, param, more, allowed, rspHandles, result, moreResults) ==
  [name |-> name, handles |-> handles, param |-> param, more |-> more,
   allowed |-> allowed, rspHandles |-> rspHandles, result |-> result,
   moreResults |-> moreResults]

None   == {}
Auth   == {"auth"}                      \* authAllowed
AuthIn == {"decrypt", "auth"}           \* and decryptAllowed
AuthOut == {"encrypt", "auth"}          \* and encryptAllowed
AuthInOut == {"decrypt", "encrypt", "auth"}

(* The commands whose first parameter is a TPM2B around a structure. *)
Structured == {"Commit", "Create", "CreateLoaded", "CreatePrimary", "ECDH_ZGen",
               "LoadExternal", "ZGen_2Phase"}
-----------------------------------------------------------------------------
AC_GetCapability == Command("AC_GetCapability", 1, "plain", TRUE, Auth, 0, "plain", TRUE)
AC_Send == Command("AC_Send", 3, "optional", FALSE, AuthIn, 0, "plain", FALSE)
ActivateCredential == Command("ActivateCredential", 2, "optional", TRUE, AuthInOut, 0, "sized", FALSE)
Certify == Command("Certify", 2, "optional", TRUE, AuthInOut, 0, "sized", TRUE)
CertifyCreation == Command("CertifyCreation", 2, "optional", TRUE, AuthInOut, 0, "sized", TRUE)
ChangeEPS == Command("ChangeEPS", 1, "none", FALSE, Auth, 0, "none", FALSE)
ChangePPS == Command("ChangePPS", 1, "none", FALSE, Auth, 0, "none", FALSE)
Clear == Command("Clear", 1, "none", FALSE, Auth, 0, "none", FALSE)
ClearControl == Command("ClearControl", 1, "plain", FALSE, Auth, 0, "none", FALSE)
ClockRateAdjust == Command("ClockRateAdjust", 1, "plain", FALSE, Auth, 0, "none", FALSE)
ClockSet == Command("ClockSet", 1, "plain", FALSE, Auth, 0, "none", FALSE)
Commit == Command("Commit", 1, "optional", TRUE, AuthInOut, 0, "nested", TRUE)
ContextLoad == Command("ContextLoad", 0, "plain", FALSE, None, 1, "none", FALSE)
ContextSave == Command("ContextSave", 1, "none", FALSE, None, 0, "plain", FALSE)
Create == Command("Create", 1, "optional", TRUE, AuthInOut, 0, "sized", TRUE)
CreateLoaded == Command("CreateLoaded", 1, "optional", TRUE, AuthInOut, 1, "sized", TRUE)
CreatePrimary == Command("CreatePrimary", 1, "optional", TRUE, AuthInOut, 1, "nested", TRUE)
DictionaryAttackLockReset == Command("DictionaryAttackLockReset", 1, "none", FALSE, Auth, 0, "none", FALSE)
DictionaryAttackParameters == Command("DictionaryAttackParameters", 1, "plain", TRUE, Auth, 0, "none", FALSE)
Duplicate == Command("Duplicate", 2, "optional", TRUE, AuthInOut, 0, "sized", TRUE)
ECC_Parameters == Command("ECC_Parameters", 0, "plain", FALSE, Auth, 0, "plain", FALSE)
ECDH_KeyGen == Command("ECDH_KeyGen", 1, "none", FALSE, AuthOut, 0, "nested", TRUE)
ECDH_ZGen == Command("ECDH_ZGen", 1, "lax", FALSE, AuthInOut, 0, "nested", FALSE)
EC_Ephemeral == Command("EC_Ephemeral", 0, "plain", FALSE, AuthOut, 0, "nested", TRUE)
EncryptDecrypt == Command("EncryptDecrypt", 1, "plain", TRUE, AuthInOut, 0, "sized", TRUE)
EncryptDecrypt2 == Command("EncryptDecrypt2", 1, "lax", TRUE, AuthInOut, 0, "sized", TRUE)
EventSequenceComplete == Command("EventSequenceComplete", 2, "lax", FALSE, AuthIn, 0, "plain", FALSE)
EvictControl == Command("EvictControl", 2, "plain", FALSE, Auth, 0, "none", FALSE)
FieldUpgradeData == Command("FieldUpgradeData", 0, "lax", FALSE, AuthIn, 0, "plain", TRUE)
FieldUpgradeStart == Command("FieldUpgradeStart", 2, "optional", TRUE, AuthIn, 0, "none", FALSE)
FirmwareRead == Command("FirmwareRead", 0, "plain", FALSE, AuthOut, 0, "sized", FALSE)
FlushContext == Command("FlushContext", 1, "none", FALSE, None, 0, "none", FALSE)
GetCapability == Command("GetCapability", 0, "plain", TRUE, Auth, 0, "plain", TRUE)
GetCommandAuditDigest == Command("GetCommandAuditDigest", 2, "optional", TRUE, AuthInOut, 0, "sized", TRUE)
GetRandom == Command("GetRandom", 0, "plain", FALSE, AuthOut, 0, "sized", FALSE)
GetSessionAuditDigest == Command("GetSessionAuditDigest", 3, "optional", TRUE, AuthInOut, 0, "sized", TRUE)
GetTestResult == Command("GetTestResult", 0, "none", FALSE, AuthOut, 0, "sized", TRUE)
GetTime == Command("GetTime", 2, "optional", TRUE, AuthInOut, 0, "sized", TRUE)
HMAC == Command("HMAC", 1, "optional", TRUE, AuthInOut, 0, "sized", FALSE)
HMAC_Start == Command("HMAC_Start", 1, "optional", TRUE, AuthIn, 1, "none", FALSE)
Hash == Command("Hash", 0, "optional", TRUE, AuthInOut, 0, "sized", TRUE)
HashSequenceStart == Command("HashSequenceStart", 0, "optional", TRUE, AuthIn, 1, "none", FALSE)
HierarchyChangeAuth == Command("HierarchyChangeAuth", 1, "lax", FALSE, AuthIn, 0, "none", FALSE)
HierarchyControl == Command("HierarchyControl", 1, "plain", TRUE, Auth, 0, "none", FALSE)
Import == Command("Import", 1, "optional", TRUE, AuthInOut, 0, "sized", FALSE)
IncrementalSelfTest == Command("IncrementalSelfTest", 0, "plain", FALSE, Auth, 0, "plain", FALSE)
Load == Command("Load", 1, "optional", TRUE, AuthInOut, 1, "sized", FALSE)
LoadExternal == Command("LoadExternal", 0, "optional", TRUE, AuthInOut, 1, "sized", FALSE)
MakeCredential == Command("MakeCredential", 1, "optional", TRUE, AuthInOut, 0, "sized", TRUE)
NV_Certify == Command("NV_Certify", 3, "optional", TRUE, AuthInOut, 0, "sized", TRUE)
NV_ChangeAuth == Command("NV_ChangeAuth", 1, "lax", FALSE, AuthIn, 0, "none", FALSE)
NV_DefineSpace == Command("NV_DefineSpace", 1, "optional", TRUE, AuthIn, 0, "none", FALSE)
NV_Extend == Command("NV_Extend", 2, "lax", FALSE, AuthIn, 0, "none", FALSE)
NV_GlobalWriteLock == Command("NV_GlobalWriteLock", 1, "none", FALSE, Auth, 0, "none", FALSE)
NV_Increment == Command("NV_Increment", 2, "none", FALSE, Auth, 0, "none", FALSE)
NV_Read == Command("NV_Read", 2, "plain", TRUE, AuthOut, 0, "sized", FALSE)
NV_ReadLock == Command("NV_ReadLock", 2, "none", FALSE, Auth, 0, "none", FALSE)
NV_ReadPublic == Command("NV_ReadPublic", 1, "none", FALSE, AuthOut, 0, "nested", TRUE)
NV_SetBits == Command("NV_SetBits", 2, "plain", FALSE, Auth, 0, "none", FALSE)
NV_UndefineSpace == Command("NV_UndefineSpace", 2, "none", FALSE, Auth, 0, "none", FALSE)
NV_UndefineSpaceSpecial == Command("NV_UndefineSpaceSpecial", 2, "none", FALSE, Auth, 0, "none", FALSE)
NV_Write == Command("NV_Write", 2, "optional", TRUE, AuthIn, 0, "none", FALSE)
NV_WriteLock == Command("NV_WriteLock", 2, "none", FALSE, Auth, 0, "none", FALSE)
ObjectChangeAuth == Command("ObjectChangeAuth", 2, "lax", FALSE, AuthInOut, 0, "sized", FALSE)
PCR_Allocate == Command("PCR_Allocate", 1, "plain", FALSE, Auth, 0, "plain", TRUE)
PCR_Event == Command("PCR_Event", 1, "lax", FALSE, AuthIn, 0, "plain", FALSE)
PCR_Extend == Command("PCR_Extend", 1, "plain", FALSE, Auth, 0, "none", FALSE)
PCR_Read == Command("PCR_Read", 0, "plain", FALSE, Auth, 0, "plain", TRUE)
PCR_Reset == Command("PCR_Reset", 1, "none", FALSE, Auth, 0, "none", FALSE)
PCR_SetAuthPolicy == Command("PCR_SetAuthPolicy", 1, "optional", TRUE, AuthIn, 0, "none", FALSE)
PCR_SetAuthValue == Command("PCR_SetAuthValue", 1, "lax", FALSE, AuthIn, 0, "none", FALSE)
PP_Commands == Command("PP_Commands", 1, "plain", TRUE, Auth, 0, "none", FALSE)
PolicyAuthValue == Command("PolicyAuthValue", 1, "none", FALSE, Auth, 0, "none", FALSE)
PolicyAuthorize == Command("PolicyAuthorize", 1, "optional", TRUE, AuthIn, 0, "none", FALSE)
PolicyAuthorizeNV == Command("PolicyAuthorizeNV", 3, "none", FALSE, Auth, 0, "none", FALSE)
PolicyCommandCode == Command("PolicyCommandCode", 1, "plain", FALSE, Auth, 0, "none", FALSE)
PolicyCounterTimer == Command("PolicyCounterTimer", 1, "optional", TRUE, AuthIn, 0, "none", FALSE)
PolicyCpHash == Command("PolicyCpHash", 1, "lax", FALSE, AuthIn, 0, "none", FALSE)
PolicyDuplicationSelect == Command("PolicyDuplicationSelect", 1, "optional", TRUE, AuthIn, 0, "none", FALSE)
PolicyGetDigest == Command("PolicyGetDigest", 1, "none", FALSE, AuthOut, 0, "sized", FALSE)
PolicyLocality == Command("PolicyLocality", 1, "plain", FALSE, Auth, 0, "none", FALSE)
PolicyNV == Command("PolicyNV", 3, "optional", TRUE, AuthIn, 0, "none", FALSE)
PolicyNameHash == Command("PolicyNameHash", 1, "lax", FALSE, AuthIn, 0, "none", FALSE)
PolicyNvWritten == Command("PolicyNvWritten", 1, "plain", FALSE, Auth, 0, "none", FALSE)
PolicyOR == Command("PolicyOR", 1, "plain", FALSE, Auth, 0, "none", FALSE)
PolicyPCR == Command("PolicyPCR", 1, "optional", TRUE, AuthIn, 0, "none", FALSE)
PolicyPassword == Command("PolicyPassword", 1, "none", FALSE, Auth, 0, "none", FALSE)
PolicyPhysicalPresence == Command("PolicyPhysicalPresence", 1, "none", FALSE, Auth, 0, "none", FALSE)
PolicyRestart == Command("PolicyRestart", 1, "none", FALSE, Auth, 0, "none", FALSE)
PolicySecret == Command("PolicySecret", 2, "optional", TRUE, AuthInOut, 0, "sized", TRUE)
PolicySigned == Command("PolicySigned", 2, "optional", TRUE, AuthInOut, 0, "sized", TRUE)
PolicyTemplate == Command("PolicyTemplate", 1, "lax", FALSE, AuthIn, 0, "none", FALSE)
PolicyTicket == Command("PolicyTicket", 1, "optional", TRUE, AuthIn, 0, "none", FALSE)
Policy_AC_SendSelect == Command("Policy_AC_SendSelect", 1, "optional", TRUE, AuthIn, 0, "none", FALSE)
Quote == Command("Quote", 1, "optional", TRUE, AuthInOut, 0, "sized", TRUE)
RSA_Decrypt == Command("RSA_Decrypt", 1, "optional", TRUE, AuthInOut, 0, "sized", FALSE)
RSA_Encrypt == Command("RSA_Encrypt", 1, "optional", TRUE, AuthInOut, 0, "sized", FALSE)
ReadClock == Command("ReadClock", 0, "none", FALSE, None, 0, "plain", FALSE)
ReadPublic == Command("ReadPublic", 1, "none", FALSE, AuthOut, 0, "nested", TRUE)
Rewrap == Command("Rewrap", 2, "optional", TRUE, AuthInOut, 0, "sized", TRUE)
SelfTest == Command("SelfTest", 0, "plain", FALSE, Auth, 0, "none", FALSE)
SequenceComplete == Command("SequenceComplete", 1, "optional", TRUE, AuthInOut, 0, "sized", TRUE)
SequenceUpdate == Command("SequenceUpdate", 1, "lax", FALSE, AuthIn, 0, "none", FALSE)
SetAlgorithmSet == Command("SetAlgorithmSet", 1, "plain", FALSE, Auth, 0, "none", FALSE)
SetCommandCodeAuditStatus == Command("SetCommandCodeAuditStatus", 1, "plain", TRUE, Auth, 0, "none", FALSE)
SetPrimaryPolicy == Command("SetPrimaryPolicy", 1, "optional", TRUE, AuthIn, 0, "none", FALSE)
Shutdown == Command("Shutdown", 0, "plain", FALSE, Auth, 0, "none", FALSE)
Sign == Command("Sign", 1, "optional", TRUE, AuthIn, 0, "plain", FALSE)
StartAuthSession == Command("StartAuthSession", 2, "optional", TRUE, AuthInOut, 1, "sized", FALSE)
Startup == Command("Startup", 0, "plain", FALSE, None, 0, "none", FALSE)
StirRandom == Command("StirRandom", 0, "lax", FALSE, AuthIn, 0, "none", FALSE)
TestParms == Command("TestParms", 0, "plain", FALSE, Auth, 0, "none", FALSE)
Unseal == Command("Unseal", 1, "none", FALSE, AuthOut, 0, "sized", FALSE)
Vendor_TCG_Test == Command("Vendor_TCG_Test", 0, "lax", FALSE, AuthInOut, 0, "sized", FALSE)
VerifySignature == Command("VerifySignature", 1, "optional", TRUE, AuthIn, 0, "plain", FALSE)
ZGen_2Phase == Command("ZGen_2Phase", 1, "optional", TRUE, AuthInOut, 0, "nested", TRUE)
-----------------------------------------------------------------------------
AllCommands == {
   AC_GetCapability, AC_Send, ActivateCredential, Certify, CertifyCreation,
   ChangeEPS, ChangePPS, Clear, ClearControl, ClockRateAdjust, ClockSet,
   Commit, ContextLoad, ContextSave, Create, CreateLoaded, CreatePrimary,
   DictionaryAttackLockReset, DictionaryAttackParameters, Duplicate,
   ECC_Parameters, ECDH_KeyGen, ECDH_ZGen, EC_Ephemeral, EncryptDecrypt,
   EncryptDecrypt2, EventSequenceComplete, EvictControl, FieldUpgradeData,
   FieldUpgradeStart, FirmwareRead, FlushContext, GetCapability,
   GetCommandAuditDigest, GetRandom, GetSessionAuditDigest, GetTestResult,
   GetTime, HMAC, HMAC_Start, Hash, HashSequenceStart, HierarchyChangeAuth,
   HierarchyControl, Import, IncrementalSelfTest, Load, LoadExternal,
   MakeCredential, NV_Certify, NV_ChangeAuth, NV_DefineSpace, NV_Extend,
   NV_GlobalWriteLock, NV_Increment, NV_Read, NV_ReadLock, NV_ReadPublic,
   NV_SetBits, NV_UndefineSpace, NV_UndefineSpaceSpecial, NV_Write,
   NV_WriteLock, ObjectChangeAuth, PCR_Allocate, PCR_Event, PCR_Extend,
   PCR_Read, PCR_Reset, PCR_SetAuthPolicy, PCR_SetAuthValue, PP_Commands,
   PolicyAuthValue, PolicyAuthorize, PolicyAuthorizeNV, PolicyCommandCode,
   PolicyCounterTimer, PolicyCpHash, PolicyDuplicationSelect,
   PolicyGetDigest, PolicyLocality, PolicyNV, PolicyNameHash,
   PolicyNvWritten, PolicyOR, PolicyPCR, PolicyPassword,
   PolicyPhysicalPresence, PolicyRestart, PolicySecret, PolicySigned,
   PolicyTemplate, PolicyTicket, Policy_AC_SendSelect, Quote, RSA_Decrypt,
   RSA_Encrypt, ReadClock, ReadPublic, Rewrap, SelfTest, SequenceComplete,
   SequenceUpdate, SetAlgorithmSet, SetCommandCodeAuditStatus,
   SetPrimaryPolicy, Shutdown, Sign, StartAuthSession, Startup, StirRandom,
   TestParms, Unseal, Vendor_TCG_Test, VerifySignature, ZGen_2Phase}

(* commandArray: the commands with as many handles; another command has none. *)
OneHandle == {
   "PolicyRestart", "Create", "Load", "ReadPublic", "MakeCredential",
   "Unseal", "Import", "RSA_Encrypt", "RSA_Decrypt", "ECDH_KeyGen",
   "ECDH_ZGen", "ZGen_2Phase", "EncryptDecrypt", "EncryptDecrypt2", "HMAC",
   "HMAC_Start", "SequenceUpdate", "SequenceComplete", "Quote", "Commit",
   "VerifySignature", "Sign", "SetCommandCodeAuditStatus", "PCR_Extend",
   "PCR_Event", "PCR_Allocate", "PCR_SetAuthPolicy", "PCR_SetAuthValue",
   "PCR_Reset", "PolicyTicket", "PolicyOR", "PolicyPCR", "PolicyLocality",
   "PolicyNvWritten", "PolicyCounterTimer", "PolicyCommandCode",
   "PolicyPhysicalPresence", "PolicyCpHash", "PolicyNameHash",
   "PolicyDuplicationSelect", "PolicyAuthorize", "PolicyAuthValue",
   "PolicyPassword", "PolicyGetDigest", "PolicyTemplate", "CreatePrimary",
   "HierarchyControl", "SetPrimaryPolicy", "ChangePPS", "ChangeEPS", "Clear",
   "ClearControl", "HierarchyChangeAuth", "DictionaryAttackLockReset",
   "DictionaryAttackParameters", "PP_Commands", "SetAlgorithmSet",
   "ContextSave", "FlushContext", "ClockSet", "ClockRateAdjust",
   "NV_DefineSpace", "NV_ReadPublic", "NV_GlobalWriteLock", "NV_ChangeAuth",
   "CreateLoaded", "AC_GetCapability", "Policy_AC_SendSelect"}
TwoHandles == {
   "StartAuthSession", "ActivateCredential", "ObjectChangeAuth", "Duplicate",
   "Rewrap", "EventSequenceComplete", "Certify", "CertifyCreation",
   "GetCommandAuditDigest", "GetTime", "PolicySigned", "PolicySecret",
   "FieldUpgradeStart", "EvictControl", "NV_UndefineSpace",
   "NV_UndefineSpaceSpecial", "NV_Write", "NV_Increment", "NV_Extend",
   "NV_SetBits", "NV_WriteLock", "NV_Read", "NV_ReadLock"}
ThreeHandles == {
   "GetSessionAuditDigest", "PolicyNV", "NV_Certify", "PolicyAuthorizeNV",
   "AC_Send"}
OneResponseHandle == {
   "StartAuthSession", "Load", "LoadExternal", "HMAC_Start",
   "HashSequenceStart", "CreatePrimary", "ContextLoad", "CreateLoaded"}

GetNumCommandHandles(name) ==
  CASE name \in OneHandle -> 1 [] name \in TwoHandles -> 2
    [] name \in ThreeHandles -> 3 [] OTHER -> 0
GetNumResponseHandles(name) == IF name \in OneResponseHandle THEN 1 ELSE 0
=============================================================================
