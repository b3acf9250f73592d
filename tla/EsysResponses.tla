--------------------------- MODULE EsysResponses ---------------------------
(***************************************************************************)
(* What the Esys_X_Finish functions of the 113 commands in                 *)
(* src/tss2-esys/api do of their own.  The control flow they share is in   *)
(* module EsysContext.                                                     *)
(***************************************************************************)
Kind == {"transient", "session", "nv", "persistent"}

(* A Finish function that delivers the response and leaves the list of resource
   nodes alone.  creates: allocates a node for a new object.  yields: the TPM's
   handles it may get for it.  finds: parameters whose nodes it looks up again,
   in the copies stored by Async.  closed: it closes them when they are of these
   kinds.  early: it does so before the response is verified.  checked: it calls
   iesys_check_response.  evicts: see EsysContext!FinishEvicts.  public: the
   kinds of handle that Esys_TR_FromTPMPublic reads with this command. *)
Plain ==
  [creates |-> FALSE, yields |-> {}, finds |-> {}, closed |-> {},
   early |-> FALSE, checked |-> TRUE, evicts |-> FALSE, public |-> {}]

Creates(kinds) == [Plain EXCEPT !.creates = TRUE, !.yields = kinds]
Updates(i)     == [Plain EXCEPT !.finds = {i}]
Closes(i)      == [Plain EXCEPT !.finds = {i}, !.closed = Kind]
-----------------------------------------------------------------------------
Esys_ActivateCredential_Finish == Plain
Esys_Certify_Finish == Plain
Esys_CertifyCreation_Finish == Plain
Esys_ChangeEPS_Finish == Plain
Esys_ChangePPS_Finish == Plain
Esys_Clear_Finish == Plain
Esys_ClearControl_Finish == Plain
Esys_ClockRateAdjust_Finish == Plain
Esys_ClockSet_Finish == Plain
Esys_Commit_Finish == Plain
Esys_ContextLoad_Finish == [Creates({"transient", "session"}) EXCEPT !.checked = FALSE]
Esys_ContextSave_Finish == [Updates(1) EXCEPT !.closed = {"session"}, !.checked = FALSE]
Esys_Create_Finish == Plain
Esys_CreateLoaded_Finish == Creates({"transient"})
Esys_CreatePrimary_Finish == Creates({"transient"})
Esys_DictionaryAttackLockReset_Finish == Plain
Esys_DictionaryAttackParameters_Finish == Plain
Esys_Duplicate_Finish == Plain
Esys_ECC_Parameters_Finish == Plain
Esys_ECDH_KeyGen_Finish == Plain
Esys_ECDH_ZGen_Finish == Plain
Esys_EC_Ephemeral_Finish == Plain
Esys_EncryptDecrypt_Finish == Plain
Esys_EncryptDecrypt2_Finish == Plain
Esys_EventSequenceComplete_Finish == Plain
Esys_EvictControl_Finish ==
  [Plain EXCEPT !.creates = TRUE, !.finds = {2}, !.evicts = TRUE]
Esys_FieldUpgradeData_Finish == Plain
Esys_FieldUpgradeStart_Finish == Plain
Esys_FirmwareRead_Finish == Plain
Esys_FlushContext_Finish == [Closes(1) EXCEPT !.checked = FALSE]
Esys_GetCapability_Finish == Plain
Esys_GetCommandAuditDigest_Finish == Plain
Esys_GetRandom_Finish == Plain
Esys_GetSessionAuditDigest_Finish == Plain
Esys_GetTestResult_Finish == Plain
Esys_GetTime_Finish == Plain
Esys_HMAC_Finish == Plain
Esys_HMAC_Start_Finish == Creates({"transient"})
Esys_Hash_Finish == Plain
Esys_HashSequenceStart_Finish == Creates({"transient"})
Esys_HierarchyChangeAuth_Finish == [Updates(1) EXCEPT !.early = TRUE]
Esys_HierarchyControl_Finish == Plain
Esys_Import_Finish == Plain
Esys_IncrementalSelfTest_Finish == Plain
Esys_Load_Finish == Creates({"transient"})
Esys_LoadExternal_Finish == Creates({"transient"})
Esys_MakeCredential_Finish == Plain
Esys_NV_Certify_Finish == Plain
Esys_NV_ChangeAuth_Finish == [Updates(1) EXCEPT !.early = TRUE]
Esys_NV_DefineSpace_Finish == Creates({"nv"})
Esys_NV_Extend_Finish == Plain
Esys_NV_GlobalWriteLock_Finish == Plain
Esys_NV_Increment_Finish == Updates(2)
Esys_NV_Read_Finish == Plain
Esys_NV_ReadLock_Finish == Updates(2)
Esys_NV_ReadPublic_Finish == [Updates(1) EXCEPT !.public = {"nv"}]
Esys_NV_SetBits_Finish == Updates(2)
Esys_NV_UndefineSpace_Finish == Closes(2)
Esys_NV_UndefineSpaceSpecial_Finish == [Closes(1) EXCEPT !.early = TRUE]
Esys_NV_Write_Finish == Updates(2)
Esys_NV_WriteLock_Finish == Updates(2)
Esys_ObjectChangeAuth_Finish == Plain
Esys_PCR_Allocate_Finish == Plain
Esys_PCR_Event_Finish == Plain
Esys_PCR_Extend_Finish == Plain
Esys_PCR_Read_Finish == Plain
Esys_PCR_Reset_Finish == Plain
Esys_PCR_SetAuthPolicy_Finish == Plain
Esys_PCR_SetAuthValue_Finish == Plain
Esys_PP_Commands_Finish == Plain
Esys_PolicyAuthValue_Finish == Updates(1)
Esys_PolicyAuthorize_Finish == Plain
Esys_PolicyAuthorizeNV_Finish == Plain
Esys_PolicyCommandCode_Finish == Plain
Esys_PolicyCounterTimer_Finish == Plain
Esys_PolicyCpHash_Finish == Plain
Esys_PolicyDuplicationSelect_Finish == Plain
Esys_PolicyGetDigest_Finish == Plain
Esys_PolicyLocality_Finish == Plain
Esys_PolicyNV_Finish == Plain
Esys_PolicyNameHash_Finish == Plain
Esys_PolicyNvWritten_Finish == Plain
Esys_PolicyOR_Finish == Plain
Esys_PolicyPCR_Finish == Plain
Esys_PolicyPassword_Finish == Updates(1)
Esys_PolicyPhysicalPresence_Finish == Plain
Esys_PolicyRestart_Finish == Plain
Esys_PolicySecret_Finish == Plain
Esys_PolicySigned_Finish == Plain
Esys_PolicyTemplate_Finish == Plain
Esys_PolicyTicket_Finish == Plain
Esys_Quote_Finish == Plain
Esys_RSA_Decrypt_Finish == Plain
Esys_RSA_Encrypt_Finish == Plain
Esys_ReadClock_Finish == Plain
Esys_ReadPublic_Finish == [Plain EXCEPT !.public = {"transient", "persistent", "session"}]
Esys_Rewrap_Finish == Plain
Esys_SelfTest_Finish == Plain
Esys_SequenceComplete_Finish == Closes(1)
Esys_SequenceUpdate_Finish == Plain
Esys_SetAlgorithmSet_Finish == Plain
Esys_SetCommandCodeAuditStatus_Finish == Plain
Esys_SetPrimaryPolicy_Finish == Plain
Esys_Shutdown_Finish == Plain
Esys_Sign_Finish == Plain
Esys_StartAuthSession_Finish == [Creates({"session"}) EXCEPT !.finds = {1, 2}]
Esys_Startup_Finish == [Plain EXCEPT !.checked = FALSE]
Esys_StirRandom_Finish == Plain
Esys_TestParms_Finish == Plain
Esys_Unseal_Finish == Plain
Esys_Vendor_TCG_Test_Finish == Plain
Esys_VerifySignature_Finish == Plain
Esys_ZGen_2Phase_Finish == Plain
-----------------------------------------------------------------------------
(* The Finish function of every command, by its name. *)
Finish ==
  [ ActivateCredential |-> Esys_ActivateCredential_Finish,
    Certify |-> Esys_Certify_Finish,
    CertifyCreation |-> Esys_CertifyCreation_Finish,
    ChangeEPS |-> Esys_ChangeEPS_Finish,
    ChangePPS |-> Esys_ChangePPS_Finish,
    Clear |-> Esys_Clear_Finish,
    ClearControl |-> Esys_ClearControl_Finish,
    ClockRateAdjust |-> Esys_ClockRateAdjust_Finish,
    ClockSet |-> Esys_ClockSet_Finish,
    Commit |-> Esys_Commit_Finish,
    ContextLoad |-> Esys_ContextLoad_Finish,
    ContextSave |-> Esys_ContextSave_Finish,
    Create |-> Esys_Create_Finish,
    CreateLoaded |-> Esys_CreateLoaded_Finish,
    CreatePrimary |-> Esys_CreatePrimary_Finish,
    DictionaryAttackLockReset |-> Esys_DictionaryAttackLockReset_Finish,
    DictionaryAttackParameters |-> Esys_DictionaryAttackParameters_Finish,
    Duplicate |-> Esys_Duplicate_Finish,
    ECC_Parameters |-> Esys_ECC_Parameters_Finish,
    ECDH_KeyGen |-> Esys_ECDH_KeyGen_Finish,
    ECDH_ZGen |-> Esys_ECDH_ZGen_Finish,
    EC_Ephemeral |-> Esys_EC_Ephemeral_Finish,
    EncryptDecrypt |-> Esys_EncryptDecrypt_Finish,
    EncryptDecrypt2 |-> Esys_EncryptDecrypt2_Finish,
    EventSequenceComplete |-> Esys_EventSequenceComplete_Finish,
    EvictControl |-> Esys_EvictControl_Finish,
    FieldUpgradeData |-> Esys_FieldUpgradeData_Finish,
    FieldUpgradeStart |-> Esys_FieldUpgradeStart_Finish,
    FirmwareRead |-> Esys_FirmwareRead_Finish,
    FlushContext |-> Esys_FlushContext_Finish,
    GetCapability |-> Esys_GetCapability_Finish,
    GetCommandAuditDigest |-> Esys_GetCommandAuditDigest_Finish,
    GetRandom |-> Esys_GetRandom_Finish,
    GetSessionAuditDigest |-> Esys_GetSessionAuditDigest_Finish,
    GetTestResult |-> Esys_GetTestResult_Finish,
    GetTime |-> Esys_GetTime_Finish,
    HMAC |-> Esys_HMAC_Finish,
    HMAC_Start |-> Esys_HMAC_Start_Finish,
    Hash |-> Esys_Hash_Finish,
    HashSequenceStart |-> Esys_HashSequenceStart_Finish,
    HierarchyChangeAuth |-> Esys_HierarchyChangeAuth_Finish,
    HierarchyControl |-> Esys_HierarchyControl_Finish,
    Import |-> Esys_Import_Finish,
    IncrementalSelfTest |-> Esys_IncrementalSelfTest_Finish,
    Load |-> Esys_Load_Finish,
    LoadExternal |-> Esys_LoadExternal_Finish,
    MakeCredential |-> Esys_MakeCredential_Finish,
    NV_Certify |-> Esys_NV_Certify_Finish,
    NV_ChangeAuth |-> Esys_NV_ChangeAuth_Finish,
    NV_DefineSpace |-> Esys_NV_DefineSpace_Finish,
    NV_Extend |-> Esys_NV_Extend_Finish,
    NV_GlobalWriteLock |-> Esys_NV_GlobalWriteLock_Finish,
    NV_Increment |-> Esys_NV_Increment_Finish,
    NV_Read |-> Esys_NV_Read_Finish,
    NV_ReadLock |-> Esys_NV_ReadLock_Finish,
    NV_ReadPublic |-> Esys_NV_ReadPublic_Finish,
    NV_SetBits |-> Esys_NV_SetBits_Finish,
    NV_UndefineSpace |-> Esys_NV_UndefineSpace_Finish,
    NV_UndefineSpaceSpecial |-> Esys_NV_UndefineSpaceSpecial_Finish,
    NV_Write |-> Esys_NV_Write_Finish,
    NV_WriteLock |-> Esys_NV_WriteLock_Finish,
    ObjectChangeAuth |-> Esys_ObjectChangeAuth_Finish,
    PCR_Allocate |-> Esys_PCR_Allocate_Finish,
    PCR_Event |-> Esys_PCR_Event_Finish,
    PCR_Extend |-> Esys_PCR_Extend_Finish,
    PCR_Read |-> Esys_PCR_Read_Finish,
    PCR_Reset |-> Esys_PCR_Reset_Finish,
    PCR_SetAuthPolicy |-> Esys_PCR_SetAuthPolicy_Finish,
    PCR_SetAuthValue |-> Esys_PCR_SetAuthValue_Finish,
    PP_Commands |-> Esys_PP_Commands_Finish,
    PolicyAuthValue |-> Esys_PolicyAuthValue_Finish,
    PolicyAuthorize |-> Esys_PolicyAuthorize_Finish,
    PolicyAuthorizeNV |-> Esys_PolicyAuthorizeNV_Finish,
    PolicyCommandCode |-> Esys_PolicyCommandCode_Finish,
    PolicyCounterTimer |-> Esys_PolicyCounterTimer_Finish,
    PolicyCpHash |-> Esys_PolicyCpHash_Finish,
    PolicyDuplicationSelect |-> Esys_PolicyDuplicationSelect_Finish,
    PolicyGetDigest |-> Esys_PolicyGetDigest_Finish,
    PolicyLocality |-> Esys_PolicyLocality_Finish,
    PolicyNV |-> Esys_PolicyNV_Finish,
    PolicyNameHash |-> Esys_PolicyNameHash_Finish,
    PolicyNvWritten |-> Esys_PolicyNvWritten_Finish,
    PolicyOR |-> Esys_PolicyOR_Finish,
    PolicyPCR |-> Esys_PolicyPCR_Finish,
    PolicyPassword |-> Esys_PolicyPassword_Finish,
    PolicyPhysicalPresence |-> Esys_PolicyPhysicalPresence_Finish,
    PolicyRestart |-> Esys_PolicyRestart_Finish,
    PolicySecret |-> Esys_PolicySecret_Finish,
    PolicySigned |-> Esys_PolicySigned_Finish,
    PolicyTemplate |-> Esys_PolicyTemplate_Finish,
    PolicyTicket |-> Esys_PolicyTicket_Finish,
    Quote |-> Esys_Quote_Finish,
    RSA_Decrypt |-> Esys_RSA_Decrypt_Finish,
    RSA_Encrypt |-> Esys_RSA_Encrypt_Finish,
    ReadClock |-> Esys_ReadClock_Finish,
    ReadPublic |-> Esys_ReadPublic_Finish,
    Rewrap |-> Esys_Rewrap_Finish,
    SelfTest |-> Esys_SelfTest_Finish,
    SequenceComplete |-> Esys_SequenceComplete_Finish,
    SequenceUpdate |-> Esys_SequenceUpdate_Finish,
    SetAlgorithmSet |-> Esys_SetAlgorithmSet_Finish,
    SetCommandCodeAuditStatus |-> Esys_SetCommandCodeAuditStatus_Finish,
    SetPrimaryPolicy |-> Esys_SetPrimaryPolicy_Finish,
    Shutdown |-> Esys_Shutdown_Finish,
    Sign |-> Esys_Sign_Finish,
    StartAuthSession |-> Esys_StartAuthSession_Finish,
    Startup |-> Esys_Startup_Finish,
    StirRandom |-> Esys_StirRandom_Finish,
    TestParms |-> Esys_TestParms_Finish,
    Unseal |-> Esys_Unseal_Finish,
    Vendor_TCG_Test |-> Esys_Vendor_TCG_Test_Finish,
    VerifySignature |-> Esys_VerifySignature_Finish,
    ZGen_2Phase |-> Esys_ZGen_2Phase_Finish]
=============================================================================
