---------------------------- MODULE EsysCommands ----------------------------
(***************************************************************************)
(* What the Esys_X_Async functions of the 113 commands in                  *)
(* src/tss2-esys/api do of their own, and the profiles of the commands for *)
(* module EsysContext.                                                     *)
(***************************************************************************)
EXTENDS Naturals, EsysResponses

(* An Async function that takes session handles: how many ESYS_TR objects it
   looks up, in the order of the command's handle area; how many sessions
   check_session_feasibility demands; and for how many of the objects, from the
   first on, iesys_compute_session_value is given the authorisation value.  salts:
   it encrypts a salt with the first object.  blob: it unmarshals a blob.  value:
   the first member of what it stores is no ESYS_TR but a value or a pointer; with
   an object, the first member is the ESYS_TR of that. *)
Takes(objects, mandatory, authorized) ==
  [objects |-> objects, sessions |-> TRUE, mandatory |-> mandatory,
   authorized |-> authorized, salts |-> FALSE, blob |-> FALSE, value |-> objects = 0]

(* An Async function that takes none. *)
TakesNoSession(objects) ==
  [Takes(objects, 0, 0) EXCEPT !.sessions = FALSE]

(* An Async function that stores no parameter at all. *)
TakesNothing == [Takes(0, 0, 0) EXCEPT !.value = FALSE]
-----------------------------------------------------------------------------
Esys_ActivateCredential_Async == Takes(2, 1, 2)
Esys_Certify_Async == Takes(2, 1, 2)
Esys_CertifyCreation_Async == Takes(2, 1, 1)
Esys_ChangeEPS_Async == Takes(1, 1, 1)
Esys_ChangePPS_Async == Takes(1, 1, 1)
Esys_Clear_Async == Takes(1, 1, 1)
Esys_ClearControl_Async == Takes(1, 1, 1)
Esys_ClockRateAdjust_Async == Takes(1, 1, 1)
Esys_ClockSet_Async == Takes(1, 1, 1)
Esys_Commit_Async == Takes(1, 1, 1)
Esys_ContextLoad_Async == [TakesNoSession(0) EXCEPT !.blob = TRUE]
Esys_ContextSave_Async == TakesNoSession(1)
Esys_Create_Async == Takes(1, 1, 1)
Esys_CreateLoaded_Async == Takes(1, 1, 1)
Esys_CreatePrimary_Async == Takes(1, 1, 1)
Esys_DictionaryAttackLockReset_Async == Takes(1, 1, 1)
Esys_DictionaryAttackParameters_Async == Takes(1, 1, 1)
Esys_Duplicate_Async == Takes(2, 1, 1)
Esys_ECC_Parameters_Async == Takes(0, 0, 0)
Esys_ECDH_KeyGen_Async == Takes(1, 0, 0)
Esys_ECDH_ZGen_Async == Takes(1, 1, 1)
Esys_EC_Ephemeral_Async == Takes(0, 0, 0)
Esys_EncryptDecrypt_Async == Takes(1, 1, 1)
Esys_EncryptDecrypt2_Async == Takes(1, 1, 1)
Esys_EventSequenceComplete_Async == Takes(2, 1, 2)
Esys_EvictControl_Async == Takes(2, 1, 1)
Esys_FieldUpgradeData_Async == Takes(0, 0, 0)
Esys_FieldUpgradeStart_Async == Takes(2, 1, 1)
Esys_FirmwareRead_Async == Takes(0, 0, 0)
Esys_FlushContext_Async == TakesNoSession(1)
Esys_GetCapability_Async == Takes(0, 0, 0)
Esys_GetCommandAuditDigest_Async == Takes(2, 1, 2)
Esys_GetRandom_Async == Takes(0, 0, 0)
Esys_GetSessionAuditDigest_Async == Takes(3, 1, 2)
Esys_GetTestResult_Async == TakesNothing
Esys_GetTime_Async == Takes(2, 1, 2)
Esys_HMAC_Async == Takes(1, 1, 1)
Esys_HMAC_Start_Async == Takes(1, 1, 1)
Esys_Hash_Async == Takes(0, 0, 0)
Esys_HashSequenceStart_Async == Takes(0, 0, 0)
Esys_HierarchyChangeAuth_Async == Takes(1, 1, 1)
Esys_HierarchyControl_Async == Takes(1, 1, 1)
Esys_Import_Async == Takes(1, 1, 1)
Esys_IncrementalSelfTest_Async == Takes(0, 0, 0)
Esys_Load_Async == Takes(1, 1, 1)
Esys_LoadExternal_Async == Takes(0, 0, 0)
Esys_MakeCredential_Async == Takes(1, 0, 0)
Esys_NV_Certify_Async == Takes(3, 1, 2)
Esys_NV_ChangeAuth_Async == Takes(1, 1, 1)
Esys_NV_DefineSpace_Async == Takes(1, 1, 1)
Esys_NV_Extend_Async == Takes(2, 1, 1)
Esys_NV_GlobalWriteLock_Async == Takes(1, 1, 1)
Esys_NV_Increment_Async == Takes(2, 1, 1)
Esys_NV_Read_Async == Takes(2, 1, 1)
Esys_NV_ReadLock_Async == Takes(2, 1, 1)
Esys_NV_ReadPublic_Async == Takes(1, 0, 0)
Esys_NV_SetBits_Async == Takes(2, 1, 1)
Esys_NV_UndefineSpace_Async == Takes(2, 1, 1)
Esys_NV_UndefineSpaceSpecial_Async == Takes(2, 1, 2)
Esys_NV_Write_Async == Takes(2, 1, 1)
Esys_NV_WriteLock_Async == Takes(2, 1, 1)
Esys_ObjectChangeAuth_Async == Takes(2, 1, 1)
Esys_PCR_Allocate_Async == Takes(1, 1, 1)
Esys_PCR_Event_Async == Takes(1, 1, 1)
Esys_PCR_Extend_Async == Takes(1, 1, 1)
Esys_PCR_Read_Async == Takes(0, 0, 0)
Esys_PCR_Reset_Async == Takes(1, 1, 1)
Esys_PCR_SetAuthPolicy_Async == Takes(1, 1, 1)
Esys_PCR_SetAuthValue_Async == Takes(1, 1, 1)
Esys_PP_Commands_Async == Takes(1, 1, 1)
Esys_PolicyAuthValue_Async == Takes(1, 0, 0)
Esys_PolicyAuthorize_Async == Takes(1, 0, 0)
Esys_PolicyAuthorizeNV_Async == Takes(3, 1, 1)
Esys_PolicyCommandCode_Async == Takes(1, 0, 0)
Esys_PolicyCounterTimer_Async == Takes(1, 0, 0)
Esys_PolicyCpHash_Async == Takes(1, 0, 0)
Esys_PolicyDuplicationSelect_Async == Takes(1, 0, 0)
Esys_PolicyGetDigest_Async == Takes(1, 0, 0)
Esys_PolicyLocality_Async == Takes(1, 0, 0)
Esys_PolicyNV_Async == Takes(3, 1, 1)
Esys_PolicyNameHash_Async == Takes(1, 0, 0)
Esys_PolicyNvWritten_Async == Takes(1, 0, 0)
Esys_PolicyOR_Async == Takes(1, 0, 0)
Esys_PolicyPCR_Async == Takes(1, 0, 0)
Esys_PolicyPassword_Async == Takes(1, 0, 0)
Esys_PolicyPhysicalPresence_Async == Takes(1, 0, 0)
Esys_PolicyRestart_Async == Takes(1, 0, 0)
Esys_PolicySecret_Async == Takes(2, 1, 1)
Esys_PolicySigned_Async == Takes(2, 0, 0)
Esys_PolicyTemplate_Async == Takes(1, 0, 0)
Esys_PolicyTicket_Async == Takes(1, 0, 0)
Esys_Quote_Async == Takes(1, 1, 1)
Esys_RSA_Decrypt_Async == Takes(1, 1, 1)
Esys_RSA_Encrypt_Async == Takes(1, 0, 0)
Esys_ReadClock_Async == TakesNothing
Esys_ReadPublic_Async == Takes(1, 0, 0)
Esys_Rewrap_Async == Takes(2, 1, 1)
Esys_SelfTest_Async == Takes(0, 0, 0)
Esys_SequenceComplete_Async == Takes(1, 1, 1)
Esys_SequenceUpdate_Async == Takes(1, 1, 1)
Esys_SetAlgorithmSet_Async == Takes(1, 1, 1)
Esys_SetCommandCodeAuditStatus_Async == Takes(1, 1, 1)
Esys_SetPrimaryPolicy_Async == Takes(1, 1, 1)
Esys_Shutdown_Async == Takes(0, 0, 0)
Esys_Sign_Async == Takes(1, 1, 1)
Esys_StartAuthSession_Async == [Takes(2, 0, 0) EXCEPT !.salts = TRUE]
Esys_Startup_Async == TakesNoSession(0)
Esys_StirRandom_Async == Takes(0, 0, 0)
Esys_TestParms_Async == Takes(0, 0, 0)
Esys_Unseal_Async == Takes(1, 1, 1)
Esys_Vendor_TCG_Test_Async == Takes(0, 0, 0)
Esys_VerifySignature_Async == Takes(1, 0, 0)
Esys_ZGen_2Phase_Async == Takes(1, 1, 1)
-----------------------------------------------------------------------------
(* The Async function of every command, by its name. *)
Async ==
  [ ActivateCredential |-> Esys_ActivateCredential_Async,
    Certify |-> Esys_Certify_Async,
    CertifyCreation |-> Esys_CertifyCreation_Async,
    ChangeEPS |-> Esys_ChangeEPS_Async,
    ChangePPS |-> Esys_ChangePPS_Async,
    Clear |-> Esys_Clear_Async,
    ClearControl |-> Esys_ClearControl_Async,
    ClockRateAdjust |-> Esys_ClockRateAdjust_Async,
    ClockSet |-> Esys_ClockSet_Async,
    Commit |-> Esys_Commit_Async,
    ContextLoad |-> Esys_ContextLoad_Async,
    ContextSave |-> Esys_ContextSave_Async,
    Create |-> Esys_Create_Async,
    CreateLoaded |-> Esys_CreateLoaded_Async,
    CreatePrimary |-> Esys_CreatePrimary_Async,
    DictionaryAttackLockReset |-> Esys_DictionaryAttackLockReset_Async,
    DictionaryAttackParameters |-> Esys_DictionaryAttackParameters_Async,
    Duplicate |-> Esys_Duplicate_Async,
    ECC_Parameters |-> Esys_ECC_Parameters_Async,
    ECDH_KeyGen |-> Esys_ECDH_KeyGen_Async,
    ECDH_ZGen |-> Esys_ECDH_ZGen_Async,
    EC_Ephemeral |-> Esys_EC_Ephemeral_Async,
    EncryptDecrypt |-> Esys_EncryptDecrypt_Async,
    EncryptDecrypt2 |-> Esys_EncryptDecrypt2_Async,
    EventSequenceComplete |-> Esys_EventSequenceComplete_Async,
    EvictControl |-> Esys_EvictControl_Async,
    FieldUpgradeData |-> Esys_FieldUpgradeData_Async,
    FieldUpgradeStart |-> Esys_FieldUpgradeStart_Async,
    FirmwareRead |-> Esys_FirmwareRead_Async,
    FlushContext |-> Esys_FlushContext_Async,
    GetCapability |-> Esys_GetCapability_Async,
    GetCommandAuditDigest |-> Esys_GetCommandAuditDigest_Async,
    GetRandom |-> Esys_GetRandom_Async,
    GetSessionAuditDigest |-> Esys_GetSessionAuditDigest_Async,
    GetTestResult |-> Esys_GetTestResult_Async,
    GetTime |-> Esys_GetTime_Async,
    HMAC |-> Esys_HMAC_Async,
    HMAC_Start |-> Esys_HMAC_Start_Async,
    Hash |-> Esys_Hash_Async,
    HashSequenceStart |-> Esys_HashSequenceStart_Async,
    HierarchyChangeAuth |-> Esys_HierarchyChangeAuth_Async,
    HierarchyControl |-> Esys_HierarchyControl_Async,
    Import |-> Esys_Import_Async,
    IncrementalSelfTest |-> Esys_IncrementalSelfTest_Async,
    Load |-> Esys_Load_Async,
    LoadExternal |-> Esys_LoadExternal_Async,
    MakeCredential |-> Esys_MakeCredential_Async,
    NV_Certify |-> Esys_NV_Certify_Async,
    NV_ChangeAuth |-> Esys_NV_ChangeAuth_Async,
    NV_DefineSpace |-> Esys_NV_DefineSpace_Async,
    NV_Extend |-> Esys_NV_Extend_Async,
    NV_GlobalWriteLock |-> Esys_NV_GlobalWriteLock_Async,
    NV_Increment |-> Esys_NV_Increment_Async,
    NV_Read |-> Esys_NV_Read_Async,
    NV_ReadLock |-> Esys_NV_ReadLock_Async,
    NV_ReadPublic |-> Esys_NV_ReadPublic_Async,
    NV_SetBits |-> Esys_NV_SetBits_Async,
    NV_UndefineSpace |-> Esys_NV_UndefineSpace_Async,
    NV_UndefineSpaceSpecial |-> Esys_NV_UndefineSpaceSpecial_Async,
    NV_Write |-> Esys_NV_Write_Async,
    NV_WriteLock |-> Esys_NV_WriteLock_Async,
    ObjectChangeAuth |-> Esys_ObjectChangeAuth_Async,
    PCR_Allocate |-> Esys_PCR_Allocate_Async,
    PCR_Event |-> Esys_PCR_Event_Async,
    PCR_Extend |-> Esys_PCR_Extend_Async,
    PCR_Read |-> Esys_PCR_Read_Async,
    PCR_Reset |-> Esys_PCR_Reset_Async,
    PCR_SetAuthPolicy |-> Esys_PCR_SetAuthPolicy_Async,
    PCR_SetAuthValue |-> Esys_PCR_SetAuthValue_Async,
    PP_Commands |-> Esys_PP_Commands_Async,
    PolicyAuthValue |-> Esys_PolicyAuthValue_Async,
    PolicyAuthorize |-> Esys_PolicyAuthorize_Async,
    PolicyAuthorizeNV |-> Esys_PolicyAuthorizeNV_Async,
    PolicyCommandCode |-> Esys_PolicyCommandCode_Async,
    PolicyCounterTimer |-> Esys_PolicyCounterTimer_Async,
    PolicyCpHash |-> Esys_PolicyCpHash_Async,
    PolicyDuplicationSelect |-> Esys_PolicyDuplicationSelect_Async,
    PolicyGetDigest |-> Esys_PolicyGetDigest_Async,
    PolicyLocality |-> Esys_PolicyLocality_Async,
    PolicyNV |-> Esys_PolicyNV_Async,
    PolicyNameHash |-> Esys_PolicyNameHash_Async,
    PolicyNvWritten |-> Esys_PolicyNvWritten_Async,
    PolicyOR |-> Esys_PolicyOR_Async,
    PolicyPCR |-> Esys_PolicyPCR_Async,
    PolicyPassword |-> Esys_PolicyPassword_Async,
    PolicyPhysicalPresence |-> Esys_PolicyPhysicalPresence_Async,
    PolicyRestart |-> Esys_PolicyRestart_Async,
    PolicySecret |-> Esys_PolicySecret_Async,
    PolicySigned |-> Esys_PolicySigned_Async,
    PolicyTemplate |-> Esys_PolicyTemplate_Async,
    PolicyTicket |-> Esys_PolicyTicket_Async,
    Quote |-> Esys_Quote_Async,
    RSA_Decrypt |-> Esys_RSA_Decrypt_Async,
    RSA_Encrypt |-> Esys_RSA_Encrypt_Async,
    ReadClock |-> Esys_ReadClock_Async,
    ReadPublic |-> Esys_ReadPublic_Async,
    Rewrap |-> Esys_Rewrap_Async,
    SelfTest |-> Esys_SelfTest_Async,
    SequenceComplete |-> Esys_SequenceComplete_Async,
    SequenceUpdate |-> Esys_SequenceUpdate_Async,
    SetAlgorithmSet |-> Esys_SetAlgorithmSet_Async,
    SetCommandCodeAuditStatus |-> Esys_SetCommandCodeAuditStatus_Async,
    SetPrimaryPolicy |-> Esys_SetPrimaryPolicy_Async,
    Shutdown |-> Esys_Shutdown_Async,
    Sign |-> Esys_Sign_Async,
    StartAuthSession |-> Esys_StartAuthSession_Async,
    Startup |-> Esys_Startup_Async,
    StirRandom |-> Esys_StirRandom_Async,
    TestParms |-> Esys_TestParms_Async,
    Unseal |-> Esys_Unseal_Async,
    Vendor_TCG_Test |-> Esys_Vendor_TCG_Test_Async,
    VerifySignature |-> Esys_VerifySignature_Async,
    ZGen_2Phase |-> Esys_ZGen_2Phase_Async]

AllCommands == DOMAIN Async

(* The profile EsysContext takes of a command. *)
ProfileOf(c) ==
  [objects |-> Async[c].objects,  sessions |-> Async[c].sessions,
   salts   |-> Async[c].salts,    blob     |-> Async[c].blob,
   value   |-> Async[c].value,
   creates |-> Finish[c].creates, yields   |-> Finish[c].yields,
   finds   |-> Finish[c].finds,   closed   |-> Finish[c].closed,
   early   |-> Finish[c].early,   evicts   |-> Finish[c].evicts,
   public  |-> Finish[c].public]
=============================================================================
