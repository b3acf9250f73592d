---------------------------- MODULE SysContext ----------------------------
(***************************************************************************)
(* A SAPI context: the buffer in which a command is put together and in    *)
(* which its response arrives, and the calls of an application on it.      *)
(* Every action is one call that changes the context, or the TPM's answer. *)
(* An application calls as the SAPI asks; what it is known to spoil by a   *)
(* call the library accepts or half refuses is recorded in spoilt.         *)
(***************************************************************************)
EXTENDS TssMu, SysCommands

CONSTANTS
  Commands,        \* commands an application uses a context for,
  Later,           \* bound: those after which it uses it for another of them
  Sizes,           \* sizes of a sized parameter or result
  MaxCmdSize,      \* _TSS2_SYS_CONTEXT_BLOB.maxCmdSize
  MaxAuths,        \* authorisations of a command, TPM2_MAX_SESSION_NUM
  NewStructures,   \* does the TPM answer with structures unknown to the library?
  Faults,          \* may a response be malformed?
  MaxPrepares      \* bound: the successful Prepare calls of a behaviour

HeaderSize == 3    \* tag, size, command or response code

ASSUME SysAssumption ==
  /\ Commands \subseteq AllCommands /\ Later \subseteq AllCommands
  /\ Sizes \subseteq Nat \ {0}
  /\ MaxCmdSize \in Nat /\ MaxCmdSize >= HeaderSize
  /\ MaxAuths \in Nat /\ MaxPrepares \in Nat
  /\ NewStructures \in BOOLEAN /\ Faults \in BOOLEAN

(* Prepare and Complete of every command agree with commandArray, and only a
   command with a first parameter has one decrypted. *)
ASSUME CommandsAssumption == \A c \in AllCommands :
  /\ c \in [name : STRING, handles : 0..3, param : {"none", "plain", "lax", "optional"},
            more : BOOLEAN, allowed : SUBSET AuthInOut, rspHandles : 0..1,
            result : {"none", "plain", "sized", "nested"}, moreResults : BOOLEAN]
  /\ c.handles = GetNumCommandHandles(c.name)
  /\ c.rspHandles = GetNumResponseHandles(c.name)
  /\ "decrypt" \in c.allowed => c.param # "none"

VARIABLES
  \* fields of _TSS2_SYS_CONTEXT_BLOB
  previousStage, cmdBuffer, nextData, cpBuffer, cpBufferUsedSize,
  numResponseHandles, authsCount, decryptNull, rsp_header,
  allowed,         \* decryptAllowed, encryptAllowed, authAllowed
  \* the TPM behind the TCTI
  wire,            \* the command or the response under way
  \* history
  asked,           \* the command as the application means it
  reply,           \* what the TPM answered to it
  spoilt,          \* what has been done to the context since
  prepares         \* the number of successful Prepare calls

layout  == <<cpBuffer, cpBufferUsedSize, numResponseHandles, authsCount>>
flags   == <<allowed, decryptNull>>
context == <<previousStage, cmdBuffer, nextData, layout, flags, rsp_header>>
history == <<asked, reply, spoilt, prepares>>
vars    == <<context, wire, history>>
-----------------------------------------------------------------------------
(* Cells of commands and responses.                                         *)

NoSessions == 0   \* TPM2_ST_NO_SESSIONS,
Sessions   == 1   \* TPM2_ST_SESSIONS,
Invalid    == 2   \* and any other tag
Success    == 0   \* responseCode
Refused    == 1
Canceled   == 2   \* TPM2_RC_CANCELED

Tag(t)     == Cell("tag", t)
Code(c)    == Cell("code", c)
Value      == Cell("value", 0)
Handles(n) == [i \in 1..n |-> Cell("handle", i)]
Auths(n)   == [i \in 1..n |-> Cell("auth", i)]

First(c, n) == CASE c.param = "none"  -> <<>>
                 [] c.param = "plain" -> <<Value>>
                 [] OTHER             -> Sized(n, Plain)
Rest(c) == IF c.more THEN <<Value>> ELSE <<>>

Area(n) == IF n = 0 THEN <<>> ELSE <<SizeField(n)>> \o Auths(n)
Packet(tag, code, handles, rest) ==
  <<Tag(tag), SizeField(HeaderSize + Len(handles) + Len(rest)), Code(code)>>
     \o handles \o rest

(* The command the application means. *)
Meant == Packet(IF asked.auths = 0 THEN NoSessions ELSE Sessions, 0,
                Handles(asked.cmd.handles), Area(asked.auths) \o asked.params)

(* The response the TPM gives. *)
Answer(r) ==
  IF r.tag = Sessions
  THEN Packet(r.tag, r.code, Handles(r.handles),
              <<SizeField(Len(r.params))>> \o r.params \o Auths(r.auths))
  ELSE Packet(r.tag, r.code, Handles(r.handles), r.params)

Nothing  == [cmd |-> Startup, params |-> <<>>, auths |-> 0]
NoReply  == [tag |-> NoSessions, code |-> Refused, handles |-> 0, params |-> <<>>, auths |-> 0]
Quiet    == [phase |-> "idle", cells |-> <<>>]
NoHeader == [tag |-> NoSessions, responseSize |-> 0, responseCode |-> Success]

commandSize == cmdBuffer[1].value
WithSize(buffer, n) == [buffer EXCEPT ![1] = SizeField(n)]
WithTag(buffer, t)  == [buffer EXCEPT ![0] = Tag(t)]

(* Tss2_Sys_Initialize on memory of any contents. *)
Init ==
  /\ previousStage = "INITIALIZE"
  /\ cmdBuffer = [i \in 0 .. MaxCmdSize - 1 |-> SizeField(0)]
  /\ nextData = 0 /\ cpBuffer = 0 /\ cpBufferUsedSize = 0
  /\ numResponseHandles = 0 /\ authsCount = 0
  /\ allowed = {} /\ decryptNull = FALSE
  /\ rsp_header = NoHeader
  /\ wire = Quiet
  /\ asked = Nothing /\ reply = NoReply /\ spoilt = {} /\ prepares = 0
-----------------------------------------------------------------------------
(* Putting a command together.                                              *)

(* CommonPreparePrologue up to its check: the flags of the last command are
   cleared whether or not another may be prepared. *)
PrepareRefused ==
  /\ previousStage = "SEND_COMMAND"
  /\ allowed' = {} /\ decryptNull' = FALSE /\ nextData' = 0
  /\ spoilt' = spoilt \union {"flags"}
  /\ UNCHANGED <<previousStage, cmdBuffer, layout, rsp_header, wire, asked, reply, prepares>>

(* Mutant: the tag of the last command stays. *)
CopyCommandHeader_NoTag == [cmdBuffer EXCEPT ![2] = Code(0)]
CopyCommandHeader == [cmdBuffer EXCEPT ![0] = Tag(NoSessions), ![2] = Code(0)]

(* Tss2_Sys_<command>_Prepare: the header, handles, the first parameter, the
   others. *)
Marshalled(c, n) ==
  LET handles == MarshalEach(Cursor(CopyCommandHeader, HeaderSize), MaxCmdSize,
                             Handles(c.handles))
      first   == IF c.name \in Structured THEN MarshalNested(handles, MaxCmdSize, First(c, n))
                                          ELSE Marshal(handles, MaxCmdSize, First(c, n))
      rest    == Marshal(first, MaxCmdSize, Rest(c))
  IN  [handles |-> handles.ok, all |-> rest]

IsNull(c, n) == c.param = "optional" /\ n = 0

(* CommonPreparePrologue, the marshalling and CommonPrepareEpilogue. *)
Prepare(c, n) ==
  LET end == Marshalled(c, n).all
      cp  == HeaderSize + GetNumCommandHandles(c.name)
  IN
  /\ previousStage # "SEND_COMMAND" /\ prepares < MaxPrepares
  /\ end.ok
  /\ cmdBuffer' = WithSize(end.buffer, end.offset) /\ nextData' = end.offset
  /\ numResponseHandles' = GetNumResponseHandles(c.name)
  /\ cpBuffer' = cp /\ cpBufferUsedSize' = end.offset - cp
  /\ allowed' = c.allowed /\ decryptNull' = IsNull(c, n)
  /\ previousStage' = "PREPARE"
  /\ asked' = [cmd |-> c, params |-> First(c, n) \o Rest(c), auths |-> 0]
  /\ reply' = NoReply /\ spoilt' = {} /\ prepares' = prepares + 1
  /\ UNCHANGED <<authsCount, rsp_header, wire>>

(* There is no room: the stage stays, PREPARE among others. *)
PrepareFails(c, n) ==
  LET end == Marshalled(c, n).all
  IN
  /\ previousStage # "SEND_COMMAND" /\ prepares < MaxPrepares
  /\ ~end.ok
  /\ cmdBuffer' = end.buffer /\ nextData' = end.offset
  /\ numResponseHandles' = GetNumResponseHandles(c.name)
  /\ cpBuffer' = HeaderSize + GetNumCommandHandles(c.name)
  /\ allowed' = {} /\ decryptNull' = (Marshalled(c, n).handles /\ IsNull(c, n))
  /\ spoilt' = spoilt \union {"mixture"} /\ prepares' = prepares + 1
  /\ UNCHANGED <<previousStage, cpBufferUsedSize, authsCount, rsp_header, wire, asked, reply>>
-----------------------------------------------------------------------------
(* Tss2_Sys_SetCmdAuths of n authorisations.                                *)

(* An application goes on with a command only when its Prepare succeeded and
   it has not been executed. *)
Whole == previousStage = "PREPARE" /\ spoilt \intersect {"mixture", "cancelled"} = {}

AuthsAllowed == Whole /\ "auth" \in allowed

(* What a second area, or none after one, does to the command. *)
Repeated == IF asked.auths = 0 THEN {} ELSE {"repeated"}

SetNoAuths ==
  /\ AuthsAllowed
  /\ authsCount' = 0 /\ spoilt' = spoilt \union Repeated
  /\ UNCHANGED <<previousStage, cmdBuffer, nextData, cpBuffer, cpBufferUsedSize,
                 numResponseHandles, flags, rsp_header, wire, asked, reply, prepares>>

(* Mutant: the area is written before the parameters are moved. *)
WithArea_Late(n) ==
  LET filled == Written(cmdBuffer, cpBuffer, Area(n))
      params == Slice(filled, cpBuffer, cpBufferUsedSize)
  IN  WithSize(Written(filled, cpBuffer + 1 + n, params), commandSize + 1 + n)
(* The parameters are moved to make room for the area. *)
WithArea(n) ==
  LET params == Slice(cmdBuffer, cpBuffer, cpBufferUsedSize)
      moved  == Written(cmdBuffer, cpBuffer + 1 + n, params)
  IN  WithSize(Written(moved, cpBuffer, Area(n)), commandSize + 1 + n)

SetCmdAuths(n) ==
  /\ AuthsAllowed
  /\ commandSize + 1 + n <= MaxCmdSize
  /\ cmdBuffer' = WithTag(WithArea(n), Sessions)
  /\ cpBuffer' = cpBuffer + 1 + n
  /\ authsCount' = n
  /\ asked' = [asked EXCEPT !.auths = n] /\ spoilt' = spoilt \union Repeated
  /\ UNCHANGED <<previousStage, nextData, cpBufferUsedSize, numResponseHandles,
                 flags, rsp_header, wire, reply, prepares>>

(* The tag is set before the size is checked. *)
SetCmdAuthsFails(n) ==
  /\ AuthsAllowed
  /\ commandSize + 1 + n > MaxCmdSize
  /\ cmdBuffer' = WithTag(cmdBuffer, Sessions) /\ authsCount' = 0
  /\ spoilt' = spoilt \union {"tag"}
  /\ UNCHANGED <<previousStage, nextData, cpBuffer, cpBufferUsedSize, numResponseHandles,
                 flags, rsp_header, wire, asked, reply, prepares>>
-----------------------------------------------------------------------------
(* Tss2_Sys_SetDecryptParam: the first parameter, encrypted.                *)

(* Tss2_Sys_GetDecryptParam.  The application does not ask for that of
   EncryptDecrypt, which is no sized buffer. *)
DecryptParamSize == cmdBuffer[cpBuffer].value
DecryptAllowed(n) ==
  /\ Whole /\ "decrypt" \in allowed
  /\ asked.cmd.param # "plain"
  /\ commandSize + n <= MaxCmdSize

MeantEncrypted(n) ==
  [asked EXCEPT !.params = Sized(n, Cipher) \o Rest(asked.cmd)]

ReplaceDecryptParam(n) ==
  /\ DecryptAllowed(n)
  /\ DecryptParamSize = n
  /\ cmdBuffer' = Written(cmdBuffer, cpBuffer, Sized(n, Cipher))
  /\ asked' = MeantEncrypted(n)
  /\ UNCHANGED <<previousStage, nextData, layout, flags, rsp_header, wire, reply,
                 spoilt, prepares>>

Others == Slice(cmdBuffer, cpBuffer + 1, cpBufferUsedSize - 1)
MovedTo == cpBuffer + cpBufferUsedSize + 1

(* Mutant: the size of the command is not fixed up. *)
WithDecryptParam_OldSize(n) ==
  Written(Written(cmdBuffer, MovedTo, Others), cpBuffer, Sized(n, Cipher))
(* The other parameters are moved by the size of the parameter area. *)
WithDecryptParam(n) ==
  WithSize(Written(Written(cmdBuffer, MovedTo, Others), cpBuffer, Sized(n, Cipher)),
           commandSize + n)

InsertDecryptParam(n) ==
  /\ DecryptAllowed(n)
  /\ DecryptParamSize = 0 /\ decryptNull
  /\ cpBufferUsedSize >= 1 /\ MovedTo + Len(Others) <= MaxCmdSize
  /\ cmdBuffer' = WithDecryptParam(n)
  /\ cpBufferUsedSize' = cpBufferUsedSize + n
  /\ asked' = MeantEncrypted(n)
  /\ spoilt' = IF Others = <<>> \/ cpBufferUsedSize = n THEN spoilt
               ELSE spoilt \union {"inserted"}
  /\ UNCHANGED <<previousStage, nextData, cpBuffer, numResponseHandles, authsCount,
                 flags, rsp_header, wire, reply, prepares>>
-----------------------------------------------------------------------------
(* Execution.                                                               *)

(* Mutant: the stage stays. *)
ExecuteAsync_StillPrepared ==
  /\ previousStage = "PREPARE"
  /\ wire.phase = "idle"
  /\ wire' = [phase |-> "sent", cells |-> Slice(cmdBuffer, 0, commandSize)]
  /\ UNCHANGED <<context, history>>
ExecuteAsync ==
  /\ previousStage = "PREPARE"
  /\ wire.phase = "idle"
  /\ wire' = [phase |-> "sent", cells |-> Slice(cmdBuffer, 0, commandSize)]
  /\ previousStage' = "SEND_COMMAND"
  /\ UNCHANGED <<cmdBuffer, nextData, layout, flags, rsp_header, history>>

(* The TPM executes what it was meant to get, and refuses all else. *)
Results(c, n, what) ==
  CASE c.result = "none"  -> <<>>
    [] c.result = "plain" -> <<Value>>
    [] OTHER              -> Sized(n, what)
Executed(c, n, what) ==
  [tag |-> wire.cells[1].value, code |-> Success, handles |-> c.rspHandles,
   params |-> Results(c, n, what) \o (IF c.moreResults THEN <<Value>> ELSE <<>>),
   auths |-> asked.auths]
Kinds(c) == {Plain}
  \union (IF "encrypt" \in c.allowed /\ asked.auths > 0 THEN {Cipher} ELSE {})
  \union (IF NewStructures /\ c.result = "nested" THEN {Foreign} ELSE {})

Answers(r, cells) ==
  /\ wire.phase = "sent" /\ Len(cells) <= MaxCmdSize
  /\ reply' = r /\ wire' = [phase |-> "answered", cells |-> cells]
  /\ UNCHANGED <<context, asked, spoilt, prepares>>

TpmExecutes ==
  /\ wire.cells = Meant
  /\ \E n \in Sizes, what \in Kinds(asked.cmd) :
       LET r == Executed(asked.cmd, n, what) IN Answers(r, Answer(r))
TpmRefuses == \E code \in {Refused, Canceled} :
  LET r == [NoReply EXCEPT !.code = code] IN Answers(r, Answer(r))
TpmStammers ==
  /\ Faults
  /\ \E header \in {<<Tag(Invalid), SizeField(HeaderSize)>>,
                    <<Tag(NoSessions), SizeField(MaxCmdSize + 1)>>,
                    <<Tag(NoSessions), SizeField(HeaderSize - 1)>>} :
       Answers(NoReply, header \o <<Code(Success)>>)

(* Tss2_Sys_ExecuteFinish once the TCTI has the response; until then it
   changes nothing. *)
ExecuteFinish ==
  LET buffer == Written(cmdBuffer, 0, wire.cells)
      header == [tag |-> buffer[0].value, responseSize |-> buffer[1].value,
                 responseCode |-> buffer[2].value]
      wrongTag  == header.tag \notin {NoSessions, Sessions}
      wrongSize == header.responseSize > MaxCmdSize
      again     == header.responseSize < HeaderSize \/ header.responseCode = Canceled
  IN
  /\ previousStage = "SEND_COMMAND" /\ wire.phase = "answered"
  /\ cmdBuffer' = buffer /\ wire' = Quiet
  /\ nextData' = IF wrongTag THEN 1 ELSE IF wrongSize THEN 2 ELSE HeaderSize
  /\ rsp_header' = IF wrongTag THEN [rsp_header EXCEPT !.tag = header.tag]
                   ELSE IF wrongSize THEN [header EXCEPT !.responseCode = rsp_header.responseCode]
                   ELSE header
  /\ previousStage' = IF wrongTag \/ wrongSize THEN "SEND_COMMAND"
                      ELSE IF again THEN "PREPARE" ELSE "RECEIVE_RESPONSE"
  /\ spoilt' = IF previousStage' = "PREPARE" THEN spoilt \union {"cancelled"} ELSE spoilt
  /\ UNCHANGED <<layout, flags, asked, reply, prepares>>
-----------------------------------------------------------------------------
(* Taking a response apart.                                                 *)

EncryptParam == HeaderSize + numResponseHandles + 1

(* Tss2_Sys_SetEncryptParam: the first result, decrypted in place. *)
SetEncryptParam(n) ==
  /\ previousStage = "RECEIVE_RESPONSE" /\ rsp_header.responseCode = Success
  /\ "encrypt" \in allowed /\ cmdBuffer[0] # Tag(NoSessions)
  /\ cmdBuffer[EncryptParam] = SizeField(n) /\ EncryptParam + n < MaxCmdSize
  /\ cmdBuffer' = Written(cmdBuffer, EncryptParam + 1, Contents(n, Plain))
  /\ reply' = [reply EXCEPT !.params = Results(asked.cmd, n, Plain) \o
                            SubSeq(@, n + 2, Len(@))]
  /\ UNCHANGED <<previousStage, nextData, layout, flags, rsp_header, wire, asked,
                 spoilt, prepares>>

(* Tss2_Sys_<command>_Complete: the handles of the response, CommonComplete,
   the results, the first of them into a destination of the caller. *)
(* Mutant: the size of the parameters is not skipped. *)
ParamsStart_AtSize == HeaderSize + numResponseHandles
(* Where CommonComplete leaves nextData. *)
ParamsStart == HeaderSize + numResponseHandles
               + (IF cmdBuffer[0] = Tag(Sessions) THEN 1 ELSE 0)
Completed(dest) ==
  LET c       == asked.cmd
      handles == Unmarshal(Cursor(cmdBuffer, nextData), MaxCmdSize, c.rspHandles)
      params  == [handles EXCEPT !.offset = IF handles.ok THEN ParamsStart ELSE @]
      first   == CASE c.result = "none"   -> params
                   [] c.result = "plain"  -> Unmarshal(params, MaxCmdSize, 1)
                   [] c.result = "sized"  -> UnmarshalSized(params, MaxCmdSize, dest)
                   [] c.result = "nested" -> UnmarshalNested(params, MaxCmdSize, dest)
  IN  IF c.moreResults THEN Unmarshal(first, MaxCmdSize, 1) ELSE first

Complete ==
  /\ previousStage = "RECEIVE_RESPONSE" /\ rsp_header.responseCode = Success
  /\ \E said \in Sizes \union {0}, room \in Sizes :
       nextData' = Completed(Destination(said, room)).offset
  /\ UNCHANGED <<previousStage, cmdBuffer, layout, flags, rsp_header, wire, history>>

(* Tss2_Sys_GetRpBuffer. *)
RpBuffer ==
  IF rsp_header.tag = Sessions
  THEN Slice(cmdBuffer, HeaderSize + numResponseHandles + 1,
             cmdBuffer[HeaderSize + numResponseHandles].value)
  ELSE Slice(cmdBuffer, HeaderSize + numResponseHandles,
             rsp_header.responseSize - HeaderSize - numResponseHandles)

(* Tss2_Sys_GetRspAuths: where the authorisations of the response are, and
   how many are read; the calls that may be made. *)
RspAuthsAllowed ==
  /\ previousStage = "RECEIVE_RESPONSE" /\ rsp_header.responseCode = Success
  /\ "auth" \in allowed /\ rsp_header.tag = Sessions
RspAuthsStart == HeaderSize + numResponseHandles + 1
                 + cmdBuffer[HeaderSize + numResponseHandles].value
RspAuths ==
  IF RspAuthsStart + authsCount <= rsp_header.responseSize
  THEN Slice(cmdBuffer, RspAuthsStart, authsCount) ELSE <<>>

(* Tss2_Sys_Initialize on a context whose response will not come any more. *)
Initialize ==
  /\ wire.phase = "idle" /\ previousStage # "INITIALIZE"
  /\ previousStage' = "INITIALIZE"
  /\ allowed' = {} /\ decryptNull' = FALSE /\ nextData' = 0
  /\ UNCHANGED <<cmdBuffer, layout, rsp_header, wire, history>>

Units(c) == IF c.param \in {"optional", "lax"} THEN Sizes \union {0} ELSE {0}
Preparable == IF prepares = 0 THEN Commands ELSE IF asked.cmd \in Later THEN Later ELSE {}

Next ==
  \/ PrepareRefused
  \/ \E c \in Preparable : \E n \in Units(c) : Prepare(c, n) \/ PrepareFails(c, n)
  \/ SetNoAuths
  \/ \E n \in 1..MaxAuths : SetCmdAuths(n) \/ SetCmdAuthsFails(n)
  \/ \E n \in Sizes : ReplaceDecryptParam(n) \/ InsertDecryptParam(n)
  \/ ExecuteAsync
  \/ TpmExecutes \/ TpmRefuses \/ TpmStammers
  \/ ExecuteFinish
  \/ \E n \in Sizes : SetEncryptParam(n)
  \/ Complete
  \/ Initialize

Spec == Init /\ [][Next]_vars
-----------------------------------------------------------------------------
(* Properties.                                                              *)

Cells == [kind : {"tag", "size", "code", "handle", "value", "unit", "auth"}, value : Nat]

(* The type of every variable.  Offsets stay in the buffer, but for those of
   parameters for which there is no room. *)
TypeOK ==
  /\ previousStage \in {"INITIALIZE", "PREPARE", "SEND_COMMAND", "RECEIVE_RESPONSE"}
  /\ cmdBuffer \in [0 .. MaxCmdSize - 1 -> Cells]
  /\ nextData \in 0 .. MaxCmdSize + 2 /\ cpBuffer \in 0 .. MaxCmdSize + HeaderSize
  /\ cpBufferUsedSize \in 0..MaxCmdSize
  /\ numResponseHandles \in 0..1 /\ authsCount \in 0..MaxAuths
  /\ allowed \subseteq AuthInOut /\ decryptNull \in BOOLEAN
  /\ rsp_header \in [tag : 0..2, responseSize : Nat, responseCode : 0..2]
  /\ wire \in [phase : {"idle", "sent", "answered"}, cells : Seq(Cells)]
  /\ asked \in [cmd : AllCommands, params : Seq(Cells), auths : 0..MaxAuths]
  /\ reply \in [tag : 0..1, code : 0..2, handles : 0..1, params : Seq(Cells), auths : 0..MaxAuths]
  /\ spoilt \subseteq {"flags", "mixture", "repeated", "tag", "inserted", "cancelled"}
  /\ prepares \in 0..MaxPrepares

(* While a command is put together, its parameters are where the fields of the
   context say, and end where the command ends: what is moved for an
   authorisation area stays in the buffer. *)
LayoutAgrees ==
  Whole => /\ cpBuffer + cpBufferUsedSize = commandSize
           /\ commandSize <= MaxCmdSize

(* Tss2_Sys_GetCpBuffer returns the parameters of the command, over which the
   HMACs of the sessions are computed, and Tss2_Sys_GetDecryptParam the first
   of them, wherever the authorisation area has moved them to. *)
ParametersFound ==
  previousStage = "PREPARE" /\ spoilt = {} =>
    /\ Slice(cmdBuffer, cpBuffer, cpBufferUsedSize) = asked.params
    /\ "decrypt" \in allowed /\ asked.cmd.param # "plain" =>
         DecryptParamSize = asked.params[1].value

(* The TPM gets the command the application means. *)
SentAsMeant == wire.phase = "sent" /\ spoilt = {} => wire.cells = Meant

(* The comment at Tss2_Sys_SetDecryptParam.c:49, "make room for the decrypt
   param": so does a command whose first parameter is set after Prepare. *)
InsertedParamSent ==
  wire.phase = "sent" /\ spoilt \subseteq {"inserted"} => wire.cells = Meant

(* An empty destination with room for any result. *)
Ample == Destination(0, MaxCmdSize)

(* The handles and results that Complete returns into empty destinations with
   room for them, the buffer over which the HMACs of the response are computed
   and the authorisations are those of the response, as long as nothing was done
   to the context since. *)
ResponseRead ==
  /\ previousStage = "RECEIVE_RESPONSE" /\ rsp_header.responseCode = Success
  /\ spoilt = {}
  => /\ RpBuffer = reply.params
     /\ nextData = HeaderSize =>
          Completed(Ample).ok /\ Completed(Ample).read = Handles(reply.handles) \o reply.params
     /\ reply.auths > 0 => RspAuthsAllowed /\ RspAuths = Auths(reply.auths)

(* A context waits for a response exactly while one is under way, or the last
   one was malformed and nothing but Tss2_Sys_Initialize helps. *)
StageAgrees ==
  /\ wire.phase # "idle" => previousStage = "SEND_COMMAND"
  /\ previousStage = "SEND_COMMAND" /\ wire.phase = "idle" =>
       rsp_header.tag = Invalid \/ rsp_header.responseSize > MaxCmdSize
=============================================================================
