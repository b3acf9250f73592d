# A TLA+ model of tpm2-tss

This directory models the TPM2 Software Stack in `src/`: the ESYS API with its
contexts, resource handles and command cycle, its sessions and the verification of
responses, the SYS layer and the marshalling under it, and the TCTI transports at the
bottom. TLC checks the models on small instances; TLAPS proves the invariants that
matter most for every instance.

All paths below are relative to the repository.

## 1. The system

An application calls ESYS. ESYS keeps the metadata of the objects the application
works with, fills in names, session nonces and authorisation values, and drives SYS.
SYS marshals one command at a time into a buffer and hands it to a TCTI, which moves
bytes to a TPM (a device, a simulator) and back. Everything is called synchronously on
the application's thread; asynchrony comes from the split of each call into `_Async`
and `_Finish`, between which the application may call anything else.

| Component | Source | State | Operations |
|---|---|---|---|
| ESYS context | `src/tss2-esys/esys_context.c`, `esys_int.h` | `state`, `submissionCount`, `in` (a union), `timeout`, `salt`, `esys_handle_cnt`, `rsrc_list` | Initialize, Finalize, SetTimeout, GetTcti, GetPollHandles |
| ESYS commands | `src/tss2-esys/api/Esys_*.c` (113) | the context's | `Esys_X`, `Esys_X_Async`, `Esys_X_Finish` |
| ESYS handles | `src/tss2-esys/esys_tr.c` | `rsrc_list`, `esys_handle` | TR_FromTPMPublic, TR_Close, TR_Serialize, TR_Deserialize, TR_SetAuth, TR_GetName |
| ESYS sessions, verification | `src/tss2-esys/esys_iutil.c`, `esys_crypto.c` | `IESYS_SESSION` of every node: `nonceTPM`, `nonceCaller`, `sessionKey`, `sessionValue` and its two sizes, `bound_entity`, `sessionAttributes`, `type_policy_session`; `auth` of a node; `salt` | gen_auths, check_response, compute_session_value, compute_encrypted_salt, TRSess_SetAttributes |
| ESYS crypto backends | `src/tss2-esys/esys_crypto.c`, `esys_crypto_ossl.c`, `_gcrypt.c` | library contexts, each opened, fed, and finished or aborted within one function | hash, HMAC, AES, RSA, ECDH; KDFa, KDFe, XOR obfuscation over them |
| ESYS metadata | `src/tss2-esys/esys_mu.c` | none | marshal and unmarshal `IESYS_RESOURCE` |
| SYS execution | `src/tss2-sys/api/Tss2_Sys_Execute.c`, `Set*.c`, `Get*.c`, `sysapi_util.c` | `previousStage`, `cmdBuffer`, `nextData`, `cpBuffer`, `cpBufferUsedSize`, `rsp_header`, four flags | SetCmdAuths, Get/SetDecryptParam, ExecuteAsync, ExecuteFinish, Get/SetEncryptParam, GetCpBuffer, GetRpBuffer, GetRspAuths |
| SYS commands | `src/tss2-sys/api/Tss2_Sys_*.c` (115) | the context's | Prepare, Complete |
| TCTI device, mssim, TBS | `src/tss2-tcti` | `state`, `locality`, `header`, `cancel`, sockets | transmit, receive, cancel, set_locality, finalize |
| Marshalling | `src/tss2-mu` | none | one pair of functions per type |
| Utilities | `src/util` | none | logging, I/O loops, key-value strings |

What makes this hard to get right, and what the properties are about:

* **One command, three state machines.** ESYS (`INIT`, `SENT`, `RESUBMISSION`,
  `INTERNALERROR`), SYS (`previousStage`) and TCTI (`TRANSMIT`, `RECEIVE`) each
  believe something about whether a command is under way. Every error path of 113
  Finish functions must leave them in agreement or mark the context as broken.
* **Resubmission.** `YIELDED`, `TESTING` and `RETRY` make Finish call Async again with
  what Async stored in the union `in`. What is stored must still be what was sent.
* **Handles.** Every call of a creating Finish takes a number and makes a node before
  it knows whether there is a response; on every other path it must give that node
  back, and never another one.
* **Objects in the TPM.** The TPM has created an object before ESYS has verified the
  response: a failure in between must not leave a working context whose application
  has no name for the object.
* **Calls between Async and Finish.** `Esys_TR_Close`, `Esys_TR_Deserialize`,
  `Esys_TR_FromTPMPublic_Async` and `Esys_SetTimeout` do not look at the state first.
* **Polling.** A timeout of zero is the default, and not every TCTI supports it.
* **Two halves of a session.** ESYS and the TPM each keep nonces, a key and an
  authorisation value and compute HMACs from them, without ever comparing them. A retry,
  a refused command, a command that changes or deletes what it authorises with, must
  leave both halves in step, or the next command fails.
* **One buffer for everything.** SAPI puts a command together in place: SetCmdAuths
  moves the parameters behind an authorisation area, SetDecryptParam moves the rest
  behind a parameter that was not there, and the response overwrites it all. Offsets
  kept from one call are used by the next.

* **Contexts of two libraries.** Every digest opens a context that some function must
  release exactly once, whichever call fails; the two backends differ in what a failed
  call leaves. KDFa writes whole digests where the caller reads fewer bytes.

## 2. The modules

| Module | What it is |
|---|---|
| `EsysCommands`, `EsysResponses` | The table of the 113 commands: what each Async takes, and what each Finish does of its own. One definition per function. |
| `EsysContext` | One ESYS context over SYS, TCTI and TPM. One action per API call or TPM answer. The profile of a command is a CONSTANT. |
| `EsysCommandCycle` | The abstract specification: one command at a time, delivered or lost with its context, retried unchanged and at most so often. |
| `EsysContextProofs` | The inductive invariant of `EsysContext` and the theorems. |
| `EsysCycleProofs` | `EsysContext` implements `EsysCommandCycle`; nothing is lost, left behind or kept from the application. |
| `Tcti` | The abstract TCTI: the states and checks of `tcti-common`, and responses in the order of the commands. |
| `TctiDevice`, `TctiMssim` | The two implementations, over the kernel driver and over the simulator. |
| `TctiDeviceProofs` | `TctiDevice` implements `Tcti`, for any number of commands. |
| `TctiMssimProofs` | The streams of the simulator are read at message boundaries, cancelling is undone, a cancelled command shifts the responses, and the context implements `Tcti`. |
| `EsysSessions` | The sessions of an ESYS context and of the TPM: keys, nonces, HMACs, parameter encryption, policies, verification. |
| `EsysSessionsProofs` | The two inductive invariants of `EsysSessions`: nonces, values, keys, corrupted responses; then HMACs, accepted authorisations, verified responses and encryption. |
| `EsysCrypto` | The digests, HMACs, derived keys and masks of ESYS over the two crypto backends, call by call. |
| `EsysCryptoProofs` | The inductive invariant of `EsysCrypto`: contexts, room, derived bytes and masks. |
| `TssMu` | Marshalling and unmarshalling of base types, sized buffers and the structures in them, over buffers of cells. |
| `SysCommands` | The table of the 115 SAPI commands: handles, the form of the first parameter and result, what may be set on them. |
| `SysContext` | One SAPI context: its buffer, its fields, every call that changes them, over `TssMu` and `SysCommands`. |
| `TssMuProofs` | What the marshalling functions promise, for every buffer and offset. |
| `SysContextProofs` | The inductive invariants of `SysContext`: types, layout and stages; that the TPM gets the command the application means, and the application what the TPM answers. |
| `MCEsysContext`, `MCEsysAllCommands`, `MCEsysSessions`, `MCSysContext` | Instances for TLC. |

`EsysContext` sees of SYS the stage and of sessions the outcome; `SysContext` and
`EsysSessions` stand for what is behind these. `SysContext` uses `TssMu` as its
functions; `TctiDevice` and `TctiMssim` implement the `Tcti` that `EsysContext` and
`SysContext` assume: responses come back once, in order, whole.

### EsysContext and the code

| Model | Code |
|---|---|
| `state`, `submissionCount`, `timeout`, `salt` | the fields of `ESYS_CONTEXT`; `salt` is "`salt.size > 0`", `timeout` is "-1" or "polling" |
| `in` | the union of stored parameters with the command whose members were last written: its ESYS_TR members and a parameter, either of which may have been overwritten |
| `rsrc`, `esys_handle_cnt`, `esys_handle` | the list of `RSRC_NODE_T` as a function from `ESYS_TR` to the TPM handle of the node; `Blank` is the zeroed handle of a new node |
| `previousStage`, `tcti` | the stage of the SYS context, the state of the TCTI |
| `wire`, `tpm` | the bytes under way and what exists in the TPM (external) |
| `call` | what the application is doing: its pending command, whether inside a one-call function, the saved timeout; `sent` counts transmissions for `SubmissionsCounted` |
| `held`, `dropped` | the numbers the application got and still owns; the TPM handles whose metadata it closed itself |
| `Start` | `Esys_X_Async`, alone or as the first half of `Esys_X`: `iesys_check_sequence_async`, `check_session_feasibility`, `store_input_parameters`, the lookups, the salt or the blob, Prepare, `iesys_gen_auths`, `Tss2_Sys_ExecuteAsync` |
| `Async...` | the outcomes of that function: refused, unsalted, unprepared, unsent, sent. Resubmission uses the same operators |
| `FromTPMPublic`, `FromTPMPublicRefused` | `Esys_TR_FromTPMPublic_Async`, and the same call while the context is busy |
| `TpmAnswers` | the TPM or its resource manager answers; success, a code that asks to retry, any other, `CANCELED`, a response that does not verify, a malformed header |
| `Finish...` | one call of `Esys_X_Finish`, one action per exit |
| `TR_Close`, `TR_Deserialize`, `SetTimeout`, `Reinitialize` | the calls that do not look at the state; Finalize followed by Initialize |

The record `Profile[c]` says what Async and Finish of command `c` do of their own:
how many objects are looked up, whether session handles are taken, whether a salt is
encrypted or a blob unmarshalled, whether Finish makes a node, which stored parameters
it looks up again, which of their nodes it closes (before or after the response is
verified), and whether the first thing it stores is a value or a pointer rather than an
ESYS_TR. The table has 22 different profiles. `MCEsysAllCommands`
assumes, and TLC evaluates, that the commands it issues have all of them. The fields
`mandatory`, `authorized` and `checked` record how the command treats its sessions;
`EsysContext` abstracts from them.

`Esys_TR_FromTPMPublic_Async` writes its new number over the first member of the union
before the state is checked (`esys_tr.c`, 150 and 156), whatever command has stored its
parameters there. `FirstOverwritten` does so: the number replaces the first ESYS_TR, or,
in a command whose stored parameters begin otherwise (the 18 that store something but
take no object: the size of GetRandom, the algorithm of Hash, the hierarchy of
LoadExternal, a pointer), it becomes the parameter. A resubmission takes either as it
finds it. With a number in place of an ESYS_TR the lookup fails; with one in place of a
value the command is sent with another value, or is refused; with one in place of a
pointer anything may come of it, which the model has as the same two outcomes. When no
command is pending nothing reads the number: the next Async stores over it.

What is abstracted:

* Response parameters, names, digests and authorisation values have no value here. A
  response verifies or does not (`rc = "corrupt"`), authorisation of bound objects may
  be empty or not.
* Session handles are not among the arguments: `AsyncInfeasible` is the outcome
  "the sessions are refused".
* Numbers start at `MinObject`; the code starts at a random number.
* Memory allocation, marshalling and hashing failures happen only with `Faults`, as the
  exits they lead to.
* A transient or persistent handle counts as a key for `compute_encrypted_salt`; one
  that names something else is the same exit as a failed encryption.
* `Esys_TR_SetAuth`, `GetName`, `Serialize` and `Esys_GetPollHandles` change nothing
  that is modelled. `Esys_TR_Deserialize` is given a blob of a persistent object or one
  that does not unmarshal.

### The TCTIs and the code

`EsysContext` sees of a TCTI the variable `tcti` and the outcomes of receive; `Tcti`
says what stands behind them, and the two implementations are shown to be one.

| Model | Code |
|---|---|
| `state`, `locality`, `sized`, `cancel` | `TSS2_TCTI_COMMON_CONTEXT.state`, `.locality`, "`.header.size` is set", `TSS2_TCTI_MSSIM_CONTEXT.cancel` |
| `toSim`, `fromSim` | the two directions of `tpm_sock`, message by message: setup and command; size, response and zeros |
| `tpm_sock`, `platform_sock`, `fd` | open, lost, or closed by finalize |
| `sim`, `cancelOn`, `driver` | the simulator with its cancel flag, the kernel driver with its one slot (external) |
| `sent`, `answered`, `abandoned` | history: the last command transmitted, the one answered last, the numbers of the cancelled ones |
| `Transmit`, `Receive...`, `Cancel`, `SetLocality`, `Finalize`, `Initialize` | the functions of the context, one action per exit that changes something |
| `SimReads`, `SimAnswers`, `DriverAnswers`, `ConnectionLost`, `HangUp` | the other side |

A receive of the simulator's TCTI blocks; it is one action, taken when all it reads is
there or the connection has ended. A write that fails is taken for the loss of its
connection, and the application calls nothing between Finalize and Initialize. A write
to the device that the driver refuses, the refused timeouts and the calls that are not
implemented change nothing. `tcti_mssim_init_context_data` sets every field but `cancel`,
which is what the memory of the context holds: `Init` and `Initialize` leave it open. When
the platform connection fails in the middle of
CANCEL_ON or CANCEL_OFF, the simulator may have heard it or not.

### EsysSessions and the code

| Model | Code |
|---|---|
| `sessions[s]` | the `IESYS_SESSION` of the node of a session, field by field; a session is also its TPM handle |
| `auth[o]` | `RSRC_NODE_T.auth` of an object; an object without a node is not in its domain |
| `salt` | `ESYS_CONTEXT.salt`, which stays after the session it was made for |
| `wire` | the command or response under way, with what ESYS computed for it; `believed`, `right` and `policies` remember for the properties what ESYS knew at the time |
| `tpm`, `tpmAuth` | the TPM's halves of the sessions and its authorisation values (external) |
| `compute_session_value`, `..._NULL` | `iesys_compute_session_value`, with and without an object; the second returns before `sizeHmacValue` is set |
| `Renewed`, `Param`, `compute_hmac`, `gen_auths`, `Submit` | `iesys_gen_auths` and what it calls, in its order: session values, caller nonces, encryption of the parameter, HMACs |
| `Unencryptable` | more than one session that decrypts or encrypts, or no parameter to decrypt |
| `Use`, `ChangeAuth`, `UndefineSpecial`, `Policy`, `FlushContext`, `StartAuthSession` | the Async functions whose Finish treats sessions or authorisation values differently; `Use` stands for the others |
| `SetAuth`, `SetAttributes`, `Close` | `Esys_TR_SetAuth`, `Esys_TRSess_SetAttributes`, `Esys_TR_Close` |
| `TpmExecutes`, `TpmRefuses`, `Corrupt` | the TPM checks and executes, refuses or asks to retry; a response corrupted on its way |
| `ChangedAuth`, `Recomputed` | what Finish of the two ChangeAuth commands and of UndefineSpaceSpecial changes before the response is verified |
| `Received`, `Verified`, `check_response`, `Checked` | `iesys_check_response` and `iesys_check_rp_hmacs`: the nonce and attributes of a slot are replaced, then its HMAC compared, in the order of the slots |
| `Secret`, `Keyed`, `Started` | the part of `Esys_StartAuthSession_Finish` that derives the session key |
| `FinishRetry`, `FinishError`, `FinishVerified`, `FinishUnverified` | the exits of a Finish |

Cryptography is symbolic. An HMAC, a key or a ciphertext is a record of what goes into
it, so that two are equal when, and only when, both sides used the same inputs; that is
all the library and the properties ask of it. What is a size in the code stays one: an
HMAC key is a prefix of `sessionValue` of length `sizeHmacValue`, bytes never written
are `NoByte`, and the subtraction in UndefineSpaceSpecial wraps at 2^16.
A session key and an authorisation value have size 0 or 1. There is one hash algorithm,
and audit sessions are left out: the code treats their attribute as one more bit of the
HMAC. Nonces are counters that wrap: `TpmCycle` for the TPM's and `CallerCycle` for the
caller's.

### EsysCrypto and the code

`EsysSessions` takes an HMAC for the record of its inputs; `EsysCrypto` is what stands
behind it: which parts are fed to the library, in which order, and what is left of the
contexts when a call fails.

| Model | Code |
|---|---|
| `backend` | the library that `esys_crypto.h` selects; it never changes |
| `call` | the function called, with its algorithm, the size of its key or parameter, and which optional parts are not NULL |
| `context` | the local `cryptoContext` (not set, set, NULL), the blob, the library's context and key behind it, and what was fed |
| `kdf`, `xor` | the local variables of `iesys_crypto_KDFa` (with the output, byte by byte) and of `iesys_xor_parameter_obfuscation` |
| `ossl_...`, `gcrypt_...` | the functions of the backends, each as the set of outcomes it has on a context |
| `Begin`, `Start`, `Update`, `Finish`, `Error` | `iesys_crypto_pHash`, `authHmac`, `KDFaHmac`, `KDFe`, `iesys_get_name` and `iesys_nv_get_name`, one step for each call of the backend, and their error exits |
| `KDFa_block`, `KDFa_done`, `Mask`, `NextBlock` | the loops of KDFa and of the obfuscation |
| `SymAes`, `SessionKeyed` | what is done with the key: AES of a parameter; the session key |
| `left` | what the computation left allocated when its function returned |

A byte of a derived key is the block it comes from (the parts fed to its HMAC) and the
offset in it. The marshalling of a counter into four bytes cannot fail and is part of
`Update`. The buffers for digests are large enough in every caller, so that BAD_SIZE
is not among the outcomes. Label, nonces and names are parts without content.

### SysContext, TssMu and the code

| Model | Code |
|---|---|
| `previousStage`, `cmdBuffer`, `nextData`, `cpBuffer`, `cpBufferUsedSize`, `numResponseHandles`, `authsCount`, `decryptNull`, `rsp_header`, `allowed` | the fields of `_TSS2_SYS_CONTEXT_BLOB`; `allowed` is the set of the three `...Allowed` flags; `cpBuffer` is the offset of the pointer |
| `Prepare`, `PrepareFails`, `PrepareRefused` | `Tss2_Sys_X_Prepare` with `CommonPreparePrologue` and `CommonPrepareEpilogue`: succeeding, without room, and in the wrong stage |
| `SetCmdAuths`, `SetNoAuths`, `SetCmdAuthsFails` | `Tss2_Sys_SetCmdAuths` |
| `ReplaceDecryptParam`, `InsertDecryptParam` | `Tss2_Sys_SetDecryptParam` of a parameter that was given to Prepare, and of one that was NULL |
| `ExecuteAsync`, `ExecuteFinish` | the functions of these names; a Finish that gets `TRY_AGAIN` changes nothing and is no step |
| `SetEncryptParam`, `Complete` | `Tss2_Sys_SetEncryptParam`; `Tss2_Sys_X_Complete` with `CommonComplete` |
| `RpBuffer`, `RspAuths`, `DecryptParamSize` | what `GetRpBuffer`, `GetRspAuths` and `GetDecryptParam` return; they change nothing |
| `Initialize` | `Tss2_Sys_Initialize`, on new memory or a context in use |
| `TpmExecutes`, `TpmRefuses`, `TpmStammers` | the TPM executes what was meant and refuses all else; or its response has a malformed header (external) |
| `asked`, `reply`, `spoilt`, `prepares` | history: what the application means, what was answered, what is known to be wrong with the buffer, a count for the bound |
| `Marshal`, `MarshalEach`, `MarshalNested`, `Unmarshal`, `UnmarshalSized`, `UnmarshalNested` | the functions of `src/tss2-mu`: base types and plain TPM2Bs; rows of them; sized buffers around a structure |
| `Destination` | where the caller wants a sized result: the size its field already has, and the room of its type; a structure is refused over one that is there, a buffer beyond the room |

A cell of a buffer stands for a base type, a size field or a unit of the contents of a
sized buffer, so a header has three cells in place of ten bytes. Sizes are checked as in
the code, cell by cell. The structures and unions of `src/tss2-mu` are sequences of
these calls, each behind the same test for room; a parameter other than the first is
one value. `SysCommands` gives the form of every command: whether its first parameter
is a sized buffer that may be NULL, that may have size 0, or no buffer at all, whether
the first result is a sized structure, and which flags Prepare sets; `Structured` names
the commands whose first parameter is a structure behind its size. `ResponseRead` is
about results read into empty destinations that have room for them.

`spoilt` makes the properties precise: an application may legally do things after which
the buffer is known not to hold the command (a Prepare that failed half way, a second
area of authorisations, a failed SetCmdAuths which has set the tag, a parameter inserted
before others, a cancelled command whose buffer holds a response). The properties say
what holds while nothing of that list has happened, so the list is itself a result:
whatever else is called, in any order, the command is intact.

## 3. The properties

| Property | It says | It would catch |
|---|---|---|
| `TypeOK` | the types, with `submissionCount <= MaxSubmissions` | |
| `LayersAgree` | ESYS, SYS and TCTI agree on whether a command is under way | an error path that forgets to reset or to mark the context |
| `HeldIsLive` | a number the application owns has a node | an error path that closes another call's node |
| `NoOrphans` | a node has an owner, or belongs to the pending import | a poll or error that keeps its new node |
| `HandlesFresh` | numbers the counter has not reached are unused | reuse of a number |
| `NothingLost` | what the TPM holds can be named by the application | a failure after the TPM created an object that leaves the context usable |
| `SubmissionsCounted` | the counter is the number of transmissions, within the limit | a stale count, off by one |
| `SuccessDelivered` | a command the TPM executed is reported as success | a lookup after a close, a clobbered parameter |
| `CommandCycle` | the context implements `EsysCommandCycle` | a resubmission that sends something else |
| `SameCommandResent` | a retry names the objects the command named first, whatever was written over its stored parameters meanwhile; excepted are commands whose stored parameters begin with a value | a refused import that keeps its node, which FlushContext or NV_Write then finds |
| `EveryCallReturns` | a command comes to an end | an endless resubmission |
| `AuthorizationsAccepted` | the TPM computes each HMAC, password and nonce of a command as ESYS did, when both know the same authorisation values and keys | a nonce or session value stale after a retry, a refusal or a changed value |
| `ResponsesVerify` | a response that arrives as sent verifies, also when the command changed the value in the key, or deleted the object | the order of changing the value and checking the HMAC |
| `NoncesAgree` | both sides of a session have the same `nonceTPM` before a command and under way | a failure that leaves one side behind |
| `EncryptionAgrees` | parameter and result are decrypted with the key they were encrypted with | the value of the HMAC used to encrypt |
| `AuthsFollow` | an authorisation value that was the TPM's before a command is so after it | a change kept although the command failed, or forgotten |
| `KeysAgree` | a session starts with the TPM's key and bound entity | a stale salt, the order of value and salt |
| `CorruptedNotDelivered` | what an HMAC session protects is not delivered after it was corrupted | a check that stops at the number of authorisations |
| `LayoutAgrees` | while a command is put together its parameters end where it ends, within the buffer | an area counted in one field only |
| `ParametersFound` | GetCpBuffer and GetDecryptParam find the parameters wherever they were moved | a pointer not moved with them |
| `SentAsMeant` | what is sent is the command the application means | parameters overwritten by the area, a size not fixed up, a tag left from the last command |
| `ResponseRead` | handles, results, GetRpBuffer and GetRspAuths are those of the response | an offset that forgets the size of the parameters |
| `StageAgrees` | a context waits exactly while a response is under way, or the last was malformed | a stage not set on an error path |
| `ContextValid` | no call works on a context that was freed, never made, or is of the other kind | an abort after a finish that closed, the abort of the wrong kind |
| `ContextsReleased` | a computation leaves nothing allocated, but for the four cases named in section 5 | an error exit that forgets the context |
| `RoomKept` | the whole digests KDFa writes stay in the buffer of each caller | room for what is read instead of what is written |
| `DerivedIsRead` | each byte of a key or vector is that of the block with its number, counted on from the counter passed | a counter increased late, a block at the wrong place |
| `MaskedOnce` | each byte of an obfuscated parameter is masked once, and no byte of a mask is used twice | a counter not handed on, a short last block |
| `IsTcti` (both TCTIs) | the context implements `Tcti` | a response delivered twice, to the wrong command, or after a timeout gave it up |
| `Framed` | both streams of the simulator are read at message boundaries; `header.size` is set exactly between the size and the response | a size query followed by a cancel, a part left unread |
| `ShiftedByCancels` | the responses still to be read are those of the latest commands in order, one more than the context knows of for each command cancelled | a second command in flight, a response dropped |
| `CancelUndone` | no call leaves the simulator cancelling without the context knowing, while the platform connection works | CANCEL_OFF forgotten |
| `DriverAgrees` | the context waits exactly while the driver holds a command or response | an exit of receive that keeps or gives up the state wrongly |
| `EveryCommandEnds` (both TCTIs) | a command that was sent is answered or fails | a request the simulator cannot read, a state nobody leaves |

`ShiftedByCancels` states what cancellation means in this code: Cancel returns the
context to TRANSMIT at once and nobody takes the response of the cancelled command out
of the socket, so every later receive returns the response of an earlier command, as
many commands back as were cancelled. `CancelUndone` excepts a platform connection that
is lost or closed: `tcti_mssim_receive` clears its flag even if CANCEL_OFF fails, and a
new context does not send it.

The session properties say what must hold under which knowledge, and their premises name
what the code is known to do differently: `Leftover` (a session that authorises nothing
keeps the last `sizeHmacValue`; run `session_value`), `CountedTwice` (one session that
decrypts and encrypts), `Miscounted` (a policy that does not ask for the value, and the
subtraction in UndefineSpaceSpecial), and the encryption by a PolicyPassword session.
`AuthorizationsAccepted` has the policy of the TPM's half as a premise, for a policy is
used up by the command it authorises and ESYS does not follow that. Its premise
`CountedInClear` was found by the proof: the library puts the nonce of a session that
decrypts or encrypts into the HMAC of the first slot, also after PolicyPassword, when it
sends that session without attributes and the TPM does not count it. The run has no
policy session in the second slot and would not have met it; with one, it takes twice as
long and finds the property true with that premise and violated without.

`EsysCommandCycle` is refined under the mapping given in `EsysContext`: its `phase` is
`state`, its `job` the request on the wire, its `attempts` the counter. That the job
stays the same over a retry is what makes the refinement more than bookkeeping: the
request is rebuilt from `in` and `rsrc` at each resubmission. The refinement holds
without `Overlap`. With it, GetRandom may be resubmitted for another number of bytes
(`EsysResentOther.cfg`, section 5), and of the other commands `SameCommandResent` says
what remains: the job stays the same for each that stores an ESYS_TR first or nothing.

## 4. The runs

| Run | Instance | Shows |
|---|---|---|
| `core` | Load, FlushContext, ReadPublic, import; 1 transient handle, 3 numbers, 2 submissions, all faults, fairness | all properties of `EsysContext` but `NothingLost` and `SameCommandResent` |
| `objects` | ContextLoad, ContextSave, EvictControl; a transient, a persistent and a session handle, 3 numbers; a TCTI that refuses to poll | `NothingLost` |
| `all_commands` | one command of each profile; imports called while another command is pending | `LayersAgree`, `SameCommandResent` |
| `sessions` | two sessions, an object that is also an NV index, one value | the seven session properties and `TypeOK` |
| `sapi` | one command of every form, 10 cells, 2 authorisations, 2 commands one after the other | `LayoutAgrees`, `ParametersFound`, `SentAsMeant`, `ResponseRead`, `StageAgrees`, `TypeOK` |
| `crypto` | both backends, every algorithm and key size, parameters of 0, 1, 20, 21 and 65 bytes | `ContextValid`, `ContextsReleased`, `RoomKept`, `DerivedIsRead`, `MaskedOnce`, `TypeOK` |
| `mssim` | three commands, two localities, cancellation, both connections lost, any number of contexts | `Framed`, `ShiftedByCancels`, `CancelUndone`, `EveryCommandEnds`, `IsTcti` |
| `device` | eight commands, timeouts, interrupted polls, a device that goes away | `DriverAgrees`, `EveryCommandEnds`, `IsTcti` |

Bounds. `MaxSubmissions = 2` has a first, a last and a resubmission between; 5, as in
the code, adds more of the same. `MaxObject` bounds the numbers a behaviour may use up;
three or four allow a number that was taken and given back, one that is held and one
that is new, and a command is started only if it can finish within the bound, so that
no error path is cut off. Three commands on the simulator allow two cancelled ones and
one that reads the response of the first. One TPM handle per range lets the TPM reuse the handle after
a flush. With two, or with another kind, nothing new happens to one context, since
commands go one at a time. The TPM refuses any command at any time.

In `sessions`, `s1` is salted or a policy session and `s2` salted and bound to the
object, so that the two have different keys; the commands have each number of slots from
none to two, with a password, one session or both, and the object authorised once or
twice. A third slot is treated like the second. Two nonces of the TPM (`TpmCycle = 2`)
tell a session that has moved on from one that has not; a caller's nonce need not be
told apart, as it is sent with the command. The object is also an NV index, so that its
node can be deleted. In `sapi`, ten cells hold every command without authorisations and
only some with two, so that every check of the room is met from both sides; sizes 2
and 3 allow a parameter replaced by one of another size and a destination that is too
small, and 6 a structure of which only the first members fit. Two Prepare calls are enough
for all that a command can leave behind for the next; `Later` names the forms of the
second.

In `crypto` nothing is bounded but the sizes of parameters: none, less than a digest, one
SHA-1 digest, one byte more, and more than one digest of every algorithm (64 is the
longest), so that every loop turns never, once and more often and ends in a whole and in
a broken block.

`objects` allows three numbers: one for the object, and two for EvictControl, which takes
one on entry and another for the persistent copy. The NV commands are in `all_commands`
and, with the deletion of the node before the response is verified, in `sessions`;
`NothingLost` is proved for them as for all others (section 6).

Deadlock is checked in all passing runs but `sessions` and `sapi`: there a context in
`INTERNALERROR`, or one that has used up its commands, may stop.

Fairness. `EveryCallReturns` assumes that the TPM answers each command it receives in
the end, and that an application which has started a command polls it until it ends:
the one-call functions do so in a loop (`Esys_Load.c`, 104 to 117), and an application
of the split calls is told to by `TRY_AGAIN`. There is no fairness of the kind of
answer: the TPM may ask for a resubmission whenever it is asked. `EveryCommandEnds`
assumes that the simulator and the driver serve their connection and that an
application which has transmitted receives in the end, as `Tss2_Sys_ExecuteFinish` does.

## 5. What the code does not do as described

Each of these is a run that TLC ends with a counterexample, for a property taken from a
comment of the code.

| Run | Property | What happens |
|---|---|---|
| `salt` | `UnsaltedSessionStarts` | `iesys_compute_encrypted_salt` leaves `salt.size` set. A later StartAuthSession without key and bound object takes the branch that derives a session key (`Esys_StartAuthSession.c:419`), finds no secret and returns GENERAL_FAILURE; the TPM has started the session and the context stays in `INTERNALERROR`. |
| `overlap` | `SuccessDelivered` | `Esys_TR_FromTPMPublic_Async` writes `esys_handle` and the union before the state is checked. Refused while a FlushContext is pending, it makes that Finish fail after the TPM flushed the object. |
| `session_value` | `SessionKeyOnly` | A session that has authorised an object and is then used only to encrypt or decrypt: `iesys_compute_session_value` returns (`esys_iutil.c:974`) before `sizeHmacValue` is set, and the HMAC key is the session key followed by the value of the old object, or by bytes never written. The TPM refuses. |
| `decrypt_null` | `InsertedParamSent` | `Tss2_Sys_SetDecryptParam` of a parameter that was NULL in Prepare moves the others by the size of the parameter area, not by that of the new parameter (line 51); unless the two are equal, as in the one test, the TPM gets another command. |

Six more counterexamples have a configuration beside the runs:

| Configuration | Property | What happens |
|---|---|---|
| `EsysEvictOrphans.cfg` | `NoOrphans` | EvictControl makes a node on entry that no path fills in or frees on success. |
| `EsysResentOther.cfg` | `CommandCycle` | A FromTPMPublic refused while a GetRandom is pending has written its number over `bytesRequested`. When the TPM then answers with RETRY, `Esys_GetRandom.c:266` resubmits with the number in its place: a command the application did not issue. The same holds of the other commands that store a value or a pointer first. |
| `TctiDeviceErrors.cfg` | `FailureFreesContext` | When `poll()` or `read()` fails, `tcti_device_receive` returns past its label `out` and the state stays RECEIVE, where `tcti-common.h` has TRANSMIT; after a failed `read()` the response is gone and the context can neither transmit nor receive. |
| `EsysAttributes.cfg` | `AttributesStay` | `Esys_TRSess_SetAttributes` called between Async and Finish is undone: Finish replaces the attributes by those of the response (`esys_iutil.c:864`). |
| `SysNewStructures.cfg` | `ResponseRead` | The unmarshalling of a sized structure does not look at the result of unmarshalling the structure: with one unknown to the library Complete succeeds, reads on behind the size field and returns other results. |
| `EsysHmacKey.cfg` | `HmacReleased` | `iesys_cryptossl_hmac_start` makes `hkey` (`esys_crypto_ossl.c:347`) and frees it on its error path only; the context of the library takes a reference of its own, so that every HMAC leaves a key behind, where the comment of `hmac_finish` (429 to 430) has "the resources of the HMAC object are released". |

Others were met and have no run:

* `Tss2_Sys_Execute.c`, 109 to 112, says that a TPM error resets the stage to PREPARE;
  all but `CANCELED` leave RECEIVE_RESPONSE (line 122), which the next Prepare accepts.
* `esys_int.h`, 977, calls `_ESYS_MAX_SUBMISSIONS` the number of resubmissions; the
  counter starts at 1 with the first transmission, so that 4 are made, as the test
  `esys-resubmissions.c:359` expects.
* A TCTI that only blocks answers a poll with BAD_VALUE, and Finish then marks the
  context as broken (`FinishTransportError` in run `objects`), where its documentation has
  TRY_AGAIN. The initial timeout of a context is a poll.
* `esys_context.c`, 122, says that Finalize flushes the objects from the TPM; it frees
  their nodes only.
* `send_sim_session_end` (`tcti-mssim.c`, 124 to 136) returns when the marshalling
  succeeded and so never sends the message; `tcti_mssim_finalize` does not set FINAL.
* `iesys_gen_auths` adds the authorisation value to the key of a policy session whether or
  not the policy asks for it (`esys_iutil.c`, 1001 to 1006); sends PolicyPassword
  sessions without attributes (1308) after having encrypted with them and counted their
  nonce in the HMAC of the first session; and counts a session that both decrypts and
  encrypts twice in that HMAC (1318 to 1321).
* `Esys_NV_UndefineSpaceSpecial.c:333` subtracts the size of the value of the node from
  `sizeHmacValue`, which may not contain it; the difference wraps.
* Three more exits leave contexts of the crypto library, which `ContextsReleased`
  excepts: `iesys_crypto_KDFe` calls the abort of an HMAC for a hash
  (`esys_crypto.c:464`), which refuses it by its type; the two functions for names free
  the blob alone when marshalling or hashing fails and nothing when finishing fails
  (`esys_iutil.c`, 1446, 1453, 1505, 1512); AES with gcrypt closes its handle on success
  only.
* A hash with a known digest size for which the backend has no HMAC (SHA-384 with
  gcrypt, SM3 with both) fails in `Esys_StartAuthSession_Finish` (line 474) when the TPM
  has started the session.
* `Tss2_Sys_EncryptDecrypt` allows the first parameter to be decrypted, which is a byte
  and not a sized buffer (`Tss2_Sys_GetDecryptParam.c:29`).
* `Tss2_Sys_SetCmdAuths` sets the tag (line 42) before it checks the size.
* A Complete after a Complete reads behind the results; nothing refuses it.
* After a response with a malformed tag or size the stage stays SEND_COMMAND
  (`Tss2_Sys_Execute.c`, 85 and 97), though nothing is under way: only
  `Tss2_Sys_Initialize` helps (the exception in `StageAgrees`).
* `tcti_mssim_cancel` sets `cancel` and the state TRANSMIT; the flag "indicating if a
  command has been cancelled" (`tcti-mssim.h:38`) then stays for the next command.

## 6. The proofs

`EsysContextProofs` proves, for every set of commands, every table of profiles that
meets `ContextAssumption`, all bounds, with and without `Overlap` and `Faults`:

* `TypeCorrect`: `Spec => []TypeOK`
* `LayersInAgreement`: `Spec => []LayersAgree`
* `CountIsRight`: `Spec => []SubmissionsCounted`
* `NumbersFresh`: `Spec => []HandlesFresh`
* `HandlesLive`: `Spec => []HeldIsLive`

The assumptions are those of `ContextAssumption`: kinds of the constants, and of the
profiles what the table shows, such as that EvictControl takes two objects and that a
command used by `Esys_TR_FromTPMPublic` creates and closes nothing. TLC evaluates them
in every run with the table's own profiles.

The inductive invariant `IInv` adds to `TypeOK` and `LayersAgree`

* `CallOK`: while the application believes a command to be pending, the context is
  `SENT`, the union holds that command with as many parameters as it takes, the counter
  is the number of transmissions, and there are enough numbers left below the bound for
  the Finish calls it may still need. Without it, a resubmission could find another
  command's parameters, and the type of the counter would not be inductive;
* `StoredOK`: what is stored or on the wire for EvictControl names a persistent handle,
  and what is on the wire is a command. Without it the node of the persistent copy, and
  the set of objects in the TPM, would have no type.

Async is one operator with five outcomes, called from the application and from Finish;
`AsyncType` shows once that each outcome leaves the layers in agreement, and the lemmas
about `Start`, `FromTPMPublic` and `FinishResubmits` use it. `FailedType` and
`FinishedType` do the same for the exits of Finish.

`HandlesFresh` is inductive relative to `IInv`: only `Alloc` makes the node of an
object, and always at the counter. `HeldIsLive` needs one more fact, `WrappedOK`: the
number in `esys_handle` of a pending import lies below the counter and is not the
application's, so that closing its node on failure takes nothing from the application.

`EsysCycleProofs` goes on from there, under the same assumptions:

* `CyclesCommands`: `Spec => CommandCycle`, without `Overlap` or without commands that
  store a value or a pointer first
* `ResendsTheSame`: `Spec => SameCommandResent`, with `Overlap` and all commands
* `NothingIsLost`: `Spec => []NothingLost`
* `NoNodeIsLeft`: `Spec => []NoOrphans`, without `Overlap` and without EvictControl, of
  which `FromTPMPublicRefused` and `EsysEvictOrphans.cfg` (section 5) show why
* `SuccessIsDelivered`: `Spec => SuccessDelivered`, without `Overlap` and without
  commands that salt a session (run `salt`)

Its invariant `CycleInv` adds three parts:

* `ResendOK`: each stored parameter designates what it designated when the command was
  sent: its node is the one whose handle is in the request, or is closed; and the
  parameter is the one in the request, unless the command stores a value first and
  `Overlap` allows a FromTPMPublic to overwrite it. It holds because numbers are never
  used twice (`HandlesFresh`), and because the number a refused FromTPMPublic writes in
  place of an ESYS_TR has no node, so that the resubmission fails rather than names
  another object. Hence `ResendsTheSame`, and a retry is the same job where nothing can
  be overwritten but an ESYS_TR, which is the condition of `CyclesCommands`. The other
  theorems need no such condition.
* `AnswerOK`: what a response says of the TPM: only a creating command has created
  something, and what a closing command closed is gone.
* `CoverOK`: every object in the TPM has a node the application names, or was dropped,
  or is in the response on its way. With the other two, the nodes that Finish closes
  name objects the TPM has removed, and a response with an object in it ends in a node
  or in a context that is unusable.

Every action maps to one of `EsysCommandCycle` or to a stutter: a first transmission to
Submit, a further one to Retry, INIT to Deliver, INTERNALERROR to Break.
`SuccessIsDelivered` needs one more fact, `ArgsOK`: without `Overlap` the parameters in
the union are those the application gave.

`TctiDeviceProofs` proves, for any number of commands:

* `TypeCorrect`: `Spec => []TypeOK`
* `DriverInAgreement`: `Spec => []DriverAgrees`, while `read()` does not fail
* `DeviceIsTcti`: `Spec => IsTcti`, on the same condition. The invariant adds `Closed`:
  a descriptor that is not open has nothing in the driver, and it is closed exactly in
  FINAL. Each action maps to one of `Tcti`; a timeout, an interrupted poll and the
  driver's own step map to none.

`TctiMssimProofs` proves, for any number of commands, cancellations and lost connections:

* `TypeCorrect`: `Spec => []TypeOK`
* `StreamsFramed`: `Spec => []Framed`
* `CancellingUndone`: `Spec => CancelUndone`
* `ResponsesShifted`: `Spec => []ShiftedByCancels`
* `MssimIsTcti`: `Spec => IsTcti`

from `MssimAssumption`. The invariant `StreamInv` adds `ResponsesWhole` and
`CommandsWhole` (each stream begins where its reader is, every message is followed by the
one that must follow it, and only a lost connection may have cut the last) and
`NothingLeft` (an ended connection has left nothing behind). Without them `Framed`, which
speaks of the beginning of the stream, says nothing of what is read after it.

The last two are about `Underway`, the commands whose responses are still to be read,
which spans both streams and what the simulator executes. `CommandsIn` selects the
commands of one kind of message from a stream; it is defined by counting (the k-th is
that of the message up to which there are k of the kind) rather than by recursion over
the stream, so that the prover can show, from facts about cardinalities, that the
commands of a stream that is written to are followed by those written
(`CommandsContinued`) and that reading a message takes its command from the front
(`CommandsPast`). With that, one lemma per action says what it does to `Underway`
(`UnderwayStep`): a command sent is appended, a response read takes the head, the size
query and both steps of the simulator change nothing. That the simulator's reading
changes nothing needs `PairsAgree`: a setup message and the command after it are of the
same command, so that the command runs in the locality it was sent with. For
`ShiftedByCancels` the invariant adds `CancelsCounted`: the commands cancelled have
numbers below the one that waits, so that each cancellation counts once. For `IsTcti`,
receive maps to `Receive` or, when CANCEL_OFF fails after the response was read, to
`ReceiveFails`, which takes the response too; an end of file maps to the other case of
`ReceiveFails`.

`EsysSessionsProofs` proves, for any sets of sessions, objects and values, any usages of
up to three slots, any nonces, with and without corruption:

* `NoncesOfBothSides`: `Spec => []NoncesAgree`
* `NothingCorruptedDelivered`: `Spec => CorruptedNotDelivered`
* `AuthValuesFollow`: `Spec => AuthsFollow`
* `SessionKeysAgree`: `Spec => KeysAgree`

from `EsysSessionsAssumption`. `NoncesAgree` is silent while a response is on its way,
which is when the two halves differ. `SessionsInv` says how: `SlotsSent` (a slot sent
without an HMAC does not continue its session, any other has the caller's nonce in its
HMAC, so that what the TPM accepts as a password was sent as one); `Done` (once the TPM
has succeeded, sessions outside the slots still agree, those in the slots have the nonce
their HMAC covers, and a session just started is what `TpmStarted` made); `Whole` and
`Altered` (each HMAC covers nonce and result, until one of them was replaced);
`UnderWay` and `StillRight` (the sessions and the salt of the pending command are still
there; values that were right are so until the TPM changes them). It claims nothing of a
context in `INTERNALERROR`, which does nothing more. That a replaced nonce or result is
noticed rests on `FreshNonces`: a new nonce is not the last one.

The second half of the module proves, from the same assumption:

* `TypeCorrect`: `Spec => []TypeOK`
* `AuthorizationsAreAccepted`: `Spec => []AuthorizationsAccepted`
* `VerifiedResponses`: `Spec => []ResponsesVerify`
* `EncryptionInAgreement`: `Spec => []EncryptionAgrees`

The invariant `HmacsInv`, inductive relative to `SessionsInv`, adds what the keys are made
of. `Typed` bounds the bytes of `sessionValue` and its two sizes, also after the
subtraction that wraps. `Pairs`: the session keys of both sides have one size, and if they
are equal so are the bound entities. `ValuesComputed`: while a command is pending the key
and the value are the first bytes of `sessionValue`, and `sizeHmacValue` takes in the value
unless the session is bound to the object. `CommandSent` and `CommandAnswered` say of each
slot with which key, nonces and attributes its HMAC was made, by the library and by the
TPM; the second says which key Finish will use for the first slot of a command that changes
the value in it. `EncryptionAgrees` has no premise about session keys: a TPM that has
accepted the HMAC of a session made it with the same key, and since the sizes agree, equal
HMAC keys begin with equal session keys (`AcceptedSlot`), although one of them may hold an
authorisation value the other does not.

`TssMuProofs` proves what each function promises, from any cursor within any buffer:

* `MarshalKeepsPromise`, `MarshalEachKeepsPromise`, `MarshalNestedKeepsPromise`: what
  lies before the offset stays, nothing is written beyond the room, and on success all
  of it has been written; of a row of base types, or of a structure behind its size, a
  part may have been written on failure, the second behind an offset that has not moved;
* `UnmarshalKeepsPromise`: no read goes beyond the end, whatever sizes the buffer
  announces and whatever the destination has room for.

`SysContextProofs` proves, for every set of commands, all sizes of buffer and
parameters, any number of authorisations, with and without malformed responses:

* `TypeCorrect`: `Spec => []TypeOK`. Offsets stay in the buffer, but for `cpBuffer` of
  parameters for which there is no room;
* `LayoutInPlace`: `Spec => []LayoutAgrees`
* `StagesAgree`: `Spec => []StageAgrees`

from `SysAssumption` (kinds of the constants) and `CommandsAssumption` (each line of the
table agrees with `commandArray`), which TLC evaluates in the runs `sapi` and
`decrypt_null`. The inductive invariant `IInv` adds to the two properties and the type

* `LayoutOK`: the parameters begin behind the header, and in stage PREPARE the size in
  the header lies within the buffer, also of a command that was spoilt; without it
  ExecuteAsync could send from beyond the buffer;
* `AnswerOK`: what is under way fits into the buffer and has a header; without it
  ExecuteFinish would leave the type of the buffer.

The second part of the module proves, from `IInv` and the same assumptions:

* `CommandsSentAsMeant`: `Spec => []SentAsMeant`
* `ParametersAreFound`: `Spec => []ParametersFound`

The invariant `LaidInv` adds `CommandLaid`: while nothing is spoilt, each part of the
command meant (header, handles, area, parameters) is at its place in the buffer. Each
action that writes is shown to lay its part and to leave, or to move whole, the others;
`ParamsShape`, that the first parameter is its size field and as many units, is what
SetDecryptParam relies on when it replaces one. This is where the lemmas on `Written`
and `Slice` are used: a slice of what was written is what was written, and a slice
beside it is what was there.

The third part is the way back:

* `ResponsesAreRead`: `ASSUME ~NewStructures PROVE Spec => []ResponseRead`

The assumption is that every structure the TPM answers with is one the library can
unmarshal; without it the property is false, as `SysNewStructures.cfg` shows (section 5).
Malformed headers, refusals and cancelled commands are not excluded. The invariant
`ReadInv` adds to `IInv`

* `FieldsAgree`: while nothing is spoilt the number of response handles, the flags and the
  number of authorisations are those of the command under way. They are set by Prepare
  and SetCmdAuths and used after the response, and the other calls in between must leave
  them;
* `AnsweredAsked`: a response under way with a proper header is the TPM's reply to the
  command asked. It takes the header's own checks to tell it from a malformed one;
* `ReplyReceived`: once received, each part of the reply lies at its place in the buffer,
  also after SetEncryptParam. That step is the hard one: the size field in the buffer must
  be that of the first result (`SizedResult`: any other result, or the first
  authorisation, is no size field), the units written over it must end where they ended,
  and the results behind, the authorisations and the sizes must stay.

`ReplyRead` then follows Complete, Tss2_Sys_GetRpBuffer and Tss2_Sys_GetRspAuths over a
buffer so laid: `TakePlaced` says that unmarshalling cells where they lie returns them and
ends behind them.

`EsysCryptoProofs` proves, for either library, every algorithm, the AES key sizes and
parameters of any size:

* `TypeCorrect`: `Spec => []TypeOK`
* `ContextsValid`: `Spec => []ContextValid`, `ContextsAreReleased`:
  `Spec => []ContextsReleased`
* `RoomIsKept`: `Spec => []RoomKept`
* `DerivedBytesAreRead`: `Spec => []DerivedIsRead`
* `ParametersAreMaskedOnce`: `Spec => []MaskedOnce`

from `CryptoAssumption`. The invariant `CryptoInv` adds `Contextual` (a context in use is
whole, one at an error exit is whole or given up: this decides what each exit leaves),
`Feeding` (what the HMAC has been fed and what is still to be fed are the parts of the
block that is counted), `Deriving` (whole blocks are written, as many as the counter has
moved on, each byte that of its place; a block is begun only while bytes are missing) and
`Masking` (the masked bytes are those of one derivation from counter 0, and while a rest
is left they are whole blocks, as many as the counter says). The room follows from
`Deriving` for each digest size: whole digests begun before the last byte needed end
within the buffer (`BlocksFit`).

Only model-checked: `EveryCallReturns` and `EveryCommandEnds`, which are liveness under
fairness and beyond the prover.

## 7. Not modelled, and what is left

* Of the crypto backends RSA encryption, ECDH and random numbers (one function each that
  calls the library in a row); `esys_mu.c` (byte layout of stored metadata), `src/util`
  and the Windows TCTI (synchronous calls of the operating system).
* Of `src/tss2-mu`, the structures and unions one by one: each is a sequence of the calls
  `TssMu` models, and which fields follow each other is data.
* Two ESYS contexts over one TPM, the random start of their numbers, and the dynamic
  loading of a default TCTI.
* `session_tab`'s raw pointers across an `Esys_TR_Close` between Async and Finish:
  `Close` is restricted to a context that waits for nothing. Audit attributes.
* `EsysContext` and `EsysSessions` are not composed: the first has the outcome
  "the response does not verify" where the second computes it.

## 8. Running

    tlc -config EsysCore.cfg MCEsysContext.tla          # also EsysObjects.cfg
    tlc -config EsysAllCommands.cfg MCEsysAllCommands.tla
    tlc -config EsysSessions.cfg MCEsysSessions.tla
    tlc -config EsysCrypto.cfg EsysCrypto.tla
    tlc -config SysSapi.cfg MCSysContext.tla
    tlc -config TctiMssim.cfg TctiMssim.tla
    tlc -config TctiDevice.cfg TctiDevice.tla

Counterexamples:

    tlc -config EsysOverlap.cfg MCEsysContext.tla       # also EsysSalt.cfg, EsysEvictOrphans.cfg, EsysResentOther.cfg
    tlc -config EsysSessionValue.cfg MCEsysSessions.tla # also EsysAttributes.cfg
    tlc -config SysInserted.cfg MCSysContext.tla        # also SysNewStructures.cfg
    tlc -config EsysHmacKey.cfg EsysCrypto.tla
    tlc -config TctiDeviceErrors.cfg TctiDevice.tla

Proofs:

    tlapm EsysContextProofs.tla
    tlapm EsysCycleProofs.tla
    tlapm EsysSessionsProofs.tla
    tlapm TctiDeviceProofs.tla
    tlapm TctiMssimProofs.tla
    tlapm TssMuProofs.tla
    tlapm SysContextProofs.tla
    tlapm EsysCryptoProofs.tla
