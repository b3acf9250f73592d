---------------------------- MODULE EsysContext ----------------------------
(***************************************************************************)
(* One ESYS_CONTEXT of tss2-esys, driven by one application thread, over   *)
(* the stage machine of its SYS context, the state of its TCTI context and *)
(* a TPM.  A command is started by Esys_X_Async and polled by              *)
(* Esys_X_Finish until that returns something else than TRY_AGAIN; the     *)
(* one-call Esys_X does both with an infinite timeout.  Every action below *)
(* is one whole call of the API, or one answer of the TPM.                 *)
(*                                                                         *)
(* All 113 commands share the control flow; what differs between them is   *)
(* the record Profile[c], taken from module EsysCommands.                  *)
(***************************************************************************)
EXTENDS Integers, Sequences, FiniteSets

CONSTANTS
  Commands,        \* names of the commands the application may issue
  Profile,         \* what distinguishes the commands (see ProfileType)
  MaxSubmissions,  \* _ESYS_MAX_SUBMISSIONS
  Globals,         \* ESYS_TR numbers of the permanent entities used
  MinObject,       \* ESYS_TR_MIN_OBJECT
  MaxObject,       \* bound: the last ESYS_TR number a behaviour may use
  None,            \* ESYS_TR_NONE
  TpmHandle,       \* handles of objects, sessions and NV indices in the TPM
  KindOf,          \* the range of TPM handle values a handle lies in
  Permanent,       \* the TPM handle of a permanent entity (and TPM2_RH_NULL)
  Blank,           \* the zeroed handle of a resource node just allocated
  Absent,          \* no resource node
  TctiAsync,       \* does the TCTI accept a timeout other than BLOCK?
  Overlap,         \* may FromTPMPublic_Async be called while one is pending?
  Faults           \* may transport and response verification fail?

Kind == {"transient", "session", "nv", "persistent"}

(* What the Async and Finish functions of a command do of their own. *)
ProfileType ==
  [ objects  : 0..3,        \* ESYS_TR parameters looked up, sessions aside
    sessions : BOOLEAN,     \* takes session handles (and checks them)
    salts    : BOOLEAN,     \* encrypts a salt with the key in parameter 1
    blob     : BOOLEAN,     \* unmarshals a blob of the application
    value    : BOOLEAN,     \* stores a value or pointer before anything else
    creates  : BOOLEAN,     \* allocates a resource node on every Finish
    yields   : SUBSET Kind, \* what the TPM hands back to a creating command
    finds    : SUBSET (1..3), \* parameters Finish looks up again
    closed   : SUBSET Kind, \* ... and closes, if of one of these kinds
    early    : BOOLEAN,     \* ... before the response is verified
    evicts   : BOOLEAN,     \* EvictControl
    public   : SUBSET Kind ] \* what Esys_TR_FromTPMPublic reads with it

ObjectTR == MinObject..MaxObject
NodeTR   == Globals \cup ObjectTR
ESYS_TR  == NodeTR \cup {None}
Handles  == TpmHandle \cup {Permanent, Blank}
Transients  == { t \in TpmHandle : KindOf[t] = "transient" }
Persistents == { t \in TpmHandle : KindOf[t] = "persistent" }

(* What a command carries beside its handles, Blank where that does not matter;
   or the ESYS_TR number that was written over it in the union of parameters. *)
Parameter      == Persistents \cup {Blank} \cup ObjectTR
Overwritten(p) == p \in ObjectTR

(* The largest number of handles one command can still burn. *)
Burnt(c, submissions) ==
  IF ~Profile[c].creates THEN 0
  ELSE MaxSubmissions - submissions + (IF Profile[c].evicts THEN 2 ELSE 1)

ASSUME ContextAssumption ==
  /\ Profile \in [Commands -> ProfileType]
  /\ MaxSubmissions \in Nat \ {0}
  /\ MinObject \in Nat /\ MaxObject \in Nat /\ MinObject <= MaxObject
  /\ Globals \subseteq Nat /\ \A g \in Globals : g < MinObject
  /\ None \notin Nat
  /\ KindOf \in [TpmHandle -> Kind]
  /\ {Permanent, Blank, Absent} \cap TpmHandle = {}
  /\ Permanent # Blank /\ Permanent # Absent /\ Blank # Absent
  /\ TctiAsync \in BOOLEAN /\ Overlap \in BOOLEAN /\ Faults \in BOOLEAN
  /\ "none" \notin Commands
  /\ \A c \in Commands :
       /\ Profile[c].finds \subseteq 1..Profile[c].objects
       /\ Profile[c].public # {} => /\ Profile[c].objects = 1
                                   /\ ~Profile[c].creates
                                   /\ Profile[c].closed = {}
       /\ Profile[c].creates => Profile[c].closed = {}
       /\ Profile[c].value => Profile[c].objects = 0
       /\ Profile[c].evicts => Profile[c].objects = 2 /\ Profile[c].creates
       /\ Profile[c].salts => Profile[c].objects = 2 /\ Profile[c].creates
                               /\ ~Profile[c].evicts
-----------------------------------------------------------------------------
VARIABLES
  state,           \* ESYS_CONTEXT.state
  submissionCount, \* ESYS_CONTEXT.submissionCount
  in,              \* ESYS_CONTEXT.in, a union: the last command stored in it
  timeout,         \* ESYS_CONTEXT.timeout: -1 is "block"
  rsrc,            \* ESYS_CONTEXT.rsrc_list: handle -> TPM handle of its node
  esys_handle_cnt, \* ESYS_CONTEXT.esys_handle_cnt
  esys_handle,     \* ESYS_CONTEXT.esys_handle
  salt,            \* is ESYS_CONTEXT.salt.size > 0?
  previousStage,   \* stage of the SYS context
  tcti,            \* state of the TCTI context
  wire,            \* the command or response between TCTI and TPM
  tpm,             \* what exists in the TPM
  call,            \* the command the application believes to be pending
  held,            \* ESYS_TR numbers the application got and still owns
  dropped          \* TPM handles whose metadata the application closed

esysVars == <<state, submissionCount, in, rsrc, esys_handle_cnt, esys_handle, salt>>
appVars  == <<call, timeout, held, dropped>>
vars == <<esysVars, previousStage, tcti, wire, tpm, appVars>>

Input   == [cmd : Commands, args : Seq(ESYS_TR), param : Parameter]
NoInput == [cmd |-> "none", args |-> <<>>, param |-> Blank]
Request == [cmd : Commands, handles : Seq(Handles), param : Parameter]
NoRequest == [cmd |-> "none", handles |-> <<>>, param |-> Blank]
Traffic(phase, req, rc, t) == [phase |-> phase, req |-> req, rc |-> rc, handle |-> t]
Quiet == Traffic("idle", NoRequest, "success", Blank)
RC == {"success", "retry", "error", "canceled", "corrupt", "malformed"}
Call == [cmd : Commands, args : Seq(ESYS_TR), param : Parameter,
         wrapped : BOOLEAN, oneCall : BOOLEAN, saved : {"block", "poll"},
         sent : Nat]
NoCall == [cmd |-> "none", args |-> <<>>, param |-> Blank, wrapped |-> FALSE,
           oneCall |-> FALSE, saved |-> "poll", sent |-> 0]

TypeOK ==
  /\ state \in {"INIT", "SENT", "RESUBMISSION", "INTERNALERROR"}
  /\ submissionCount \in 0..MaxSubmissions
  /\ in \in Input \cup {NoInput}
  /\ timeout \in {"block", "poll"}
  /\ rsrc \in [NodeTR -> Handles \cup {Absent}]
  /\ esys_handle_cnt \in MinObject..(MaxObject + 1)
  /\ esys_handle \in ESYS_TR
  /\ salt \in BOOLEAN
  /\ previousStage \in {"INITIALIZE", "PREPARE", "SEND_COMMAND",
                        "RECEIVE_RESPONSE"}
  /\ tcti \in {"TRANSMIT", "RECEIVE"}
  /\ wire \in [phase : {"idle", "command", "response"},
               req : Request \cup {NoRequest}, rc : RC, handle : Handles]
  /\ tpm \in SUBSET TpmHandle
  /\ call \in Call \cup {NoCall}
  /\ held \in SUBSET ObjectTR
  /\ dropped \in SUBSET TpmHandle

Init ==
  /\ state = "INIT" /\ submissionCount = 0 /\ in = NoInput
  /\ timeout = "poll"
  /\ rsrc = [h \in NodeTR |-> Absent]
  /\ esys_handle_cnt = MinObject /\ esys_handle = None /\ salt = FALSE
  /\ previousStage = "INITIALIZE" /\ tcti = "TRANSMIT"
  /\ wire = Quiet
  /\ tpm \in SUBSET Persistents
  /\ call = NoCall /\ held = {} /\ dropped = {}
-----------------------------------------------------------------------------
(* The list of resource nodes. *)

Names(R, a)    == a \in ObjectTR => R[a] # Absent
Close(R, gone) == [h \in NodeTR |-> IF h \in gone THEN Absent ELSE R[h]]
Alloc(R, h, t) == [R EXCEPT ![h] = t]

(* esys_GetResourceObject creates the node of a permanent entity on demand;
   the lookups stop at the first handle that is not known. *)
LookUp(R, args) ==
  [h \in NodeTR |->
     IF /\ h \in Globals /\ R[h] = Absent
        /\ \E i \in 1..Len(args) :
             args[i] = h /\ \A j \in 1..i : Names(R, args[j])
     THEN Permanent ELSE R[h]]

Resolvable(R, args) == \A i \in 1..Len(args) : Names(R, args[i])

Resolve(R, args) ==
  [i \in 1..Len(args) |->
     IF args[i] \in ObjectTR THEN R[args[i]] ELSE Permanent]

(* What the Finish of command c looks up again among the stored parameters,
   the nodes it closes, and whether the lookups succeed. *)
FoundAgain(c, args) == { args[i] : i \in Profile[c].finds }
Closing(c, args) ==
  { h \in FoundAgain(c, args) \cap NodeTR :
      rsrc[h] \in TpmHandle /\ KindOf[rsrc[h]] \in Profile[c].closed }
(* Mutant: the nodes are closed before they are looked up. *)
Found_AfterClosing(c, args) ==
  \A h \in FoundAgain(c, args) : Names(Close(rsrc, Closing(c, args)), h)
Found(c, args) == \A h \in FoundAgain(c, args) : Names(rsrc, h)
-----------------------------------------------------------------------------
(* The body common to all Esys_X_Async functions.  R is the list it finds,  *)
(* n the submission it is, s the stage of the SYS context, and gone the     *)
(* nodes its caller closes when it fails.                                   *)

(* Mutant: the objects are not stored. *)
Stored_Nothing(c, args, p) ==
  [cmd |-> c, args |-> [i \in 1..Len(args) |-> None], param |-> p]
Stored(c, args, p) == [cmd |-> c, args |-> args, param |-> p]
NoTraffic == wire' = Quiet /\ tcti' = "TRANSMIT"

(* A first submission that is not sent leaves the lower layers alone; before
   another one a response was received. *)
Settled(n) == IF n = 1 THEN UNCHANGED <<tcti, wire>> ELSE NoTraffic

(* check_session_feasibility refuses the session handles. *)
AsyncInfeasible(c, R, gone) ==
  /\ Profile[c].sessions
  /\ state' = "INIT" /\ submissionCount' = 1 /\ rsrc' = Close(R, gone)
  /\ UNCHANGED <<in, salt, previousStage, tcti, wire>>

(* iesys_compute_encrypted_salt wants the node of a key; without a key it
   leaves the salt of an earlier call where it is. *)
Salted(c, args)      == Profile[c].salts /\ args[1] # None
Saltable(R, c, args) ==
  Salted(c, args) => /\ args[1] \in ObjectTR
                     /\ R[args[1]] \in Transients \cup Persistents

(* The salt cannot be computed, or the blob of a ContextLoad cannot be
   unmarshalled: Async returns without giving the context back.  A blob that
   was unmarshalled once is read again through the pointer in the union. *)
AsyncUnsalted(c, args, p, n, s, R, gone) ==
  /\ Resolvable(R, args)
  /\ \/ Salted(c, args) /\ (Faults \/ ~Saltable(R, c, args))
     \/ Profile[c].blob /\ (n = 1 \/ Overwritten(p))
  /\ state' = "INTERNALERROR" /\ submissionCount' = n
  /\ in' = Stored(c, args, p)
  /\ rsrc' = Close(LookUp(R, args), gone)
  /\ UNCHANGED salt /\ previousStage' = s
  /\ Settled(n)

(* Mutant: a resubmission that fails here does not reset the state. *)
AsyncUnprepared_Stuck(c, args, p, n, s, R, gone) ==
  /\ state' = (IF n > 1 THEN "RESUBMISSION" ELSE "INIT") /\ submissionCount' = n
  /\ in' = Stored(c, args, p)
  /\ rsrc' = Close(LookUp(R, args), gone)
  /\ \/ /\ ~Resolvable(R, args)
        /\ previousStage' = s /\ UNCHANGED salt
     \/ /\ Resolvable(R, args) /\ Saltable(R, c, args)
        /\ Faults \/ s = "SEND_COMMAND" \/ Overwritten(p)
        /\ previousStage' \in {s, "PREPARE"} /\ salt' = (salt \/ Salted(c, args))
  /\ Settled(n)
(* A lookup, the preparation of the SAPI buffer or the authorisation values
   fail; the parameters are stored already.  A number written over a pointer or
   a size may be marshalled, or be refused. *)
AsyncUnprepared(c, args, p, n, s, R, gone) ==
  /\ state' = "INIT" /\ submissionCount' = n
  /\ in' = Stored(c, args, p)
  /\ rsrc' = Close(LookUp(R, args), gone)
  /\ \/ /\ ~Resolvable(R, args)
        /\ previousStage' = s /\ UNCHANGED salt
     \/ /\ Resolvable(R, args) /\ Saltable(R, c, args)
        /\ Faults \/ s = "SEND_COMMAND" \/ Overwritten(p)
        /\ previousStage' \in {s, "PREPARE"} /\ salt' = (salt \/ Salted(c, args))
  /\ Settled(n)

(* Tss2_Tcti_Transmit fails, or finds the TCTI in another state; before a
   resubmission the receive has just put it back to TRANSMIT. *)
AsyncUnsent(c, args, p, n, s, R, gone) ==
  /\ s # "SEND_COMMAND" /\ Resolvable(R, args) /\ Saltable(R, c, args)
  /\ Faults \/ (n = 1 /\ tcti # "TRANSMIT")
  /\ state' = "INTERNALERROR" /\ submissionCount' = n
  /\ in' = Stored(c, args, p)
  /\ rsrc' = Close(LookUp(R, args), gone)
  /\ salt' = (salt \/ Salted(c, args)) /\ previousStage' = "PREPARE"
  /\ Settled(n)

Transmitted(c, args, p, n, s, R) ==
  /\ s # "SEND_COMMAND" /\ Resolvable(R, args) /\ Saltable(R, c, args)
  /\ n > 1 \/ tcti = "TRANSMIT"
  /\ state' = "SENT" /\ previousStage' = "SEND_COMMAND" /\ tcti' = "RECEIVE"
  /\ in' = Stored(c, args, p) /\ rsrc' = LookUp(R, args)
  /\ salt' = (salt \/ Salted(c, args))
  /\ LET req == [cmd |-> c, handles |-> Resolve(R, args), param |-> p]
     IN  wire' = Traffic("command", req, "success", Blank)

(* Mutant: the count of the previous command is not cleared. *)
AsyncSent_NoReset(c, args, p, n, s, R) ==
  Transmitted(c, args, p, n, s, R)
    /\ submissionCount' = IF n = 1 THEN submissionCount + 1 ELSE n
AsyncSent(c, args, p, n, s, R) ==
  Transmitted(c, args, p, n, s, R) /\ submissionCount' = n
-----------------------------------------------------------------------------
(* Calls that start a command.  The bound MaxObject leaves every started    *)
(* command enough handles to finish.                                        *)

Room(n) == esys_handle_cnt + n <= MaxObject + 1

(* Mutant: a number is taken and the counter stays. *)
Number_Stays(n) == esys_handle_cnt' = esys_handle_cnt + 0 * n
(* esys_handle_cnt++, n times. *)
Number(n) == esys_handle_cnt' = esys_handle_cnt + n

Idle == state = "INIT" /\ call = NoCall

Nameable == held \cup Globals \cup {None}
            \cup { h \in ObjectTR : h < esys_handle_cnt /\ rsrc[h] = Absent }

Parameters(c) == IF Profile[c].evicts THEN Persistents ELSE {Blank}

Started(c, args, p, w, one) ==
  /\ call' = [cmd |-> c, args |-> args, param |-> p, wrapped |-> w,
              oneCall |-> one, saved |-> timeout, sent |-> 1]
  /\ timeout' = IF one THEN "block" ELSE timeout

(* Esys_X_Async, on its own or from the one-call Esys_X. *)
Start(c, args, p, one) ==
  /\ Idle /\ Room(Burnt(c, 1))
  /\ \/ /\ \/ AsyncInfeasible(c, rsrc, {})
           \/ AsyncUnsalted(c, args, p, 1, previousStage, rsrc, {})
           \/ AsyncUnprepared(c, args, p, 1, previousStage, rsrc, {})
           \/ AsyncUnsent(c, args, p, 1, previousStage, rsrc, {})
        /\ UNCHANGED <<call, timeout>>
     \/ AsyncSent(c, args, p, 1, previousStage, rsrc) /\ Started(c, args, p, FALSE, one)
  /\ UNCHANGED <<esys_handle_cnt, esys_handle, tpm, held, dropped>>

(* Esys_TR_FromTPMPublic_Async: the new node is made first, then the public
   area is read with it. *)
FromTPMPublic(c, t, one) ==
  LET h == esys_handle_cnt
      R == Alloc(rsrc, h, t)
  IN  /\ Idle /\ Room(1)
      /\ KindOf[t] \in Profile[c].public
      /\ Number(1) /\ esys_handle' = h
      /\ \/ /\ \/ AsyncInfeasible(c, R, {h})
               \/ AsyncUnprepared(c, <<h>>, Blank, 1, previousStage, R, {h})
               \/ AsyncUnsent(c, <<h>>, Blank, 1, previousStage, R, {h})
            /\ UNCHANGED <<call, timeout>>
         \/ /\ AsyncSent(c, <<h>>, Blank, 1, previousStage, R)
            /\ Started(c, <<h>>, Blank, TRUE, one)
      /\ UNCHANGED <<tpm, held, dropped>>

(* The number is written over the first member of the union, whatever command
   has stored its parameters there: an ESYS_TR, or else a value or a pointer. *)
FirstOverwritten(i, h) ==
  [i EXCEPT !.args  = IF @ = <<>> THEN @ ELSE <<h>> \o Tail(@),
            !.param = IF i.cmd \in Commands /\ Profile[i.cmd].value THEN h ELSE @]

(* Mutant: the error path does not close the new node, which FlushContext and
   the like then find. *)
FromTPMPublicRefused_Keeps ==
  /\ Overlap /\ ~call.oneCall
  /\ state \in {"SENT", "INTERNALERROR"}
  /\ Room(1 + IF call = NoCall THEN 0 ELSE Burnt(call.cmd, call.sent))
  /\ Number(1)
  /\ esys_handle' = esys_handle_cnt
  /\ in' = FirstOverwritten(in, esys_handle_cnt)
  /\ \E t \in TpmHandle : rsrc' = Alloc(rsrc, esys_handle_cnt, t)
  /\ UNCHANGED <<state, submissionCount, salt, previousStage, tcti, wire, tpm, appVars>>
(* The same call refused by iesys_check_sequence_async, because a command is
   pending or the context has failed: by then it has already made its node,
   remembered it in esys_handle and written it into the union of parameters. *)
FromTPMPublicRefused ==
  /\ Overlap /\ ~call.oneCall
  /\ state \in {"SENT", "INTERNALERROR"}
  /\ Room(1 + IF call = NoCall THEN 0 ELSE Burnt(call.cmd, call.sent))
  /\ Number(1)
  /\ esys_handle' = esys_handle_cnt
  /\ in' = FirstOverwritten(in, esys_handle_cnt)
  /\ UNCHANGED <<state, submissionCount, rsrc, salt, previousStage, tcti, wire, tpm,
                 appVars>>
-----------------------------------------------------------------------------
(* The TPM answers the command it was sent.                                 *)

(* External: the requests a TPM may execute, and what that changes. *)
Accepts(req) ==
  LET P == Profile[req.cmd]
  IN  /\ \A i \in 1..Len(req.handles) : req.handles[i] \in tpm \cup {Permanent}
      /\ P.closed # {} => \A i \in P.finds : req.handles[i] \in tpm \ Persistents
      /\ P.evicts => /\ req.handles[2] \in tpm \cap (Transients \cup Persistents)
                     /\ IF req.handles[2] \in Transients THEN req.param \notin tpm
                        ELSE req.param = req.handles[2]

Executed(req, t) ==
  LET P    == Profile[req.cmd]
      gone == { x \in tpm \cap {req.handles[i] : i \in P.finds} : KindOf[x] \in P.closed }
  IN CASE P.evicts -> tpm' = IF req.handles[2] \in Persistents
                             THEN tpm \ {req.handles[2]} ELSE tpm \cup {req.param}
       [] P.creates /\ ~P.evicts -> tpm' = tpm \cup {t}
       [] OTHER -> tpm' = tpm \ gone

Yielded(req) ==
  LET P == Profile[req.cmd]
  IN IF P.creates /\ ~P.evicts
     THEN { t \in TpmHandle \ tpm : KindOf[t] \in P.yields } ELSE {Blank}

TpmAnswers(rc) ==
  /\ wire.phase = "command"
  /\ rc \in {"corrupt", "malformed"} => Faults
  /\ IF rc \in {"success", "corrupt", "malformed"}
     THEN \E t \in Yielded(wire.req) :
            /\ Accepts(wire.req)
            /\ Executed(wire.req, t)
            /\ wire' = Traffic("response", wire.req, rc, t)
     ELSE /\ wire' = Traffic("response", wire.req, rc, Blank)
          /\ UNCHANGED tpm
  /\ UNCHANGED <<esysVars, previousStage, tcti, appVars>>
-----------------------------------------------------------------------------
(* Esys_X_Finish for the pending command.                                   *)

(* Mutant: the error path closes the node left in esys_handle by an earlier call. *)
Cleanup_Always == {esys_handle} \cap ObjectTR
(* Nodes the caller's error path closes: the one of FromTPMPublic. *)
Cleanup == IF call.wrapped THEN {esys_handle} ELSE {}

(* A creating command takes a handle on every call and gives the node back
   unless it succeeds. *)
Burn == Number(IF Profile[call.cmd].creates THEN 1 ELSE 0)

Returned ==
  /\ call' = NoCall
  /\ timeout' = IF call.oneCall THEN call.saved ELSE timeout

(* A Finish that fails and leaves the context in state s. *)
Failed(s) ==
  /\ state' = s /\ rsrc' = Close(rsrc, Cleanup)
  /\ Burn /\ Returned
  /\ UNCHANGED <<submissionCount, in, esys_handle, salt, tpm, held, dropped>>

Polled == state = "SENT" /\ call # NoCall
          /\ (call.wrapped => rsrc[esys_handle] # Absent)
Responded == Polled /\ wire.phase = "response"
             /\ (timeout = "block" \/ TctiAsync)

(* Esys_TR_FromTPMPublic_Finish does not find the node in esys_handle: it
   fails without ever calling the Finish of the command that is pending. *)
FinishLost ==
  /\ state = "SENT" /\ call.wrapped /\ rsrc[esys_handle] = Absent
  /\ Returned
  /\ UNCHANGED <<esysVars, previousStage, tcti, wire, tpm, held, dropped>>

(* Mutant: TRY_AGAIN returns without giving the new node back. *)
FinishTryAgain_Leaks ==
  /\ Polled /\ wire.phase = "command" /\ timeout = "poll" /\ TctiAsync
  /\ Room(Burnt(call.cmd, call.sent) + 1) /\ Burn
  /\ rsrc' = IF Profile[call.cmd].creates
             THEN Alloc(rsrc, esys_handle_cnt, Blank) ELSE rsrc
  /\ UNCHANGED <<state, submissionCount, in, esys_handle, salt, previousStage,
                 tcti, wire, tpm, appVars>>
(* The timeout expires first; an asynchronous TCTI reports TRY_AGAIN. *)
FinishTryAgain ==
  /\ Polled /\ wire.phase = "command" /\ timeout = "poll" /\ TctiAsync
  /\ Room(Burnt(call.cmd, call.sent) + 1) /\ Burn
  /\ UNCHANGED <<state, submissionCount, in, rsrc, esys_handle, salt, previousStage,
                 tcti, wire, tpm, appVars>>

(* Receiving fails: a TCTI that only blocks refuses the timeout with BAD_VALUE,
   or an I/O error after which the TCTI drops the response or not.  A ContextLoad
   may fail before it, when it unmarshals its blob through an overwritten pointer. *)
Unreceived ==
  /\ Polled
  /\ \/ timeout = "poll" /\ ~TctiAsync /\ UNCHANGED tcti
     \/ Faults /\ (timeout = "block" \/ TctiAsync) /\ tcti' \in {tcti, "TRANSMIT"}
     \/ Profile[call.cmd].blob /\ Overwritten(in.param) /\ UNCHANGED tcti
  /\ UNCHANGED <<previousStage, wire>>

(* Mutant: an error of the lower layers leaves the context usable. *)
FinishTransportError_Usable == Unreceived /\ Failed("INIT")
FinishTransportError        == Unreceived /\ Failed("INTERNALERROR")

(* The header of the response is not one: the stage stays, or goes back to
   PREPARE if the size field is too small. *)
FinishMalformed ==
  /\ Responded /\ wire.rc = "malformed"
  /\ previousStage' \in {"SEND_COMMAND", "PREPARE"} /\ NoTraffic
  /\ Failed("INTERNALERROR")

(* Mutant: at the limit the command is sent once more, and not counted. *)
FinishExhausted_Again ==
  /\ Responded /\ wire.rc = "retry" /\ submissionCount >= MaxSubmissions
  /\ AsyncSent(call.cmd, in.args, in.param, submissionCount, "RECEIVE_RESPONSE", rsrc)
  /\ UNCHANGED <<call, timeout, esys_handle_cnt, esys_handle, tpm, held, dropped>>
(* RETRY, TESTING or YIELDED after the last submission. *)
FinishExhausted ==
  /\ Responded /\ wire.rc = "retry" /\ submissionCount >= MaxSubmissions
  /\ previousStage' = "RECEIVE_RESPONSE" /\ NoTraffic
  /\ Failed("INIT")

(* Finish goes to RESUBMISSION and calls X_Async with what the union of
   parameters holds. *)
Resubmitted ==
  LET n == submissionCount + 1
      s == "RECEIVE_RESPONSE"
  IN \/ /\ \/ AsyncUnsalted(call.cmd, in.args, in.param, n, s, rsrc, Cleanup)
           \/ AsyncUnprepared(call.cmd, in.args, in.param, n, s, rsrc, Cleanup)
           \/ AsyncUnsent(call.cmd, in.args, in.param, n, s, rsrc, Cleanup)
        /\ Returned
     \/ /\ AsyncSent(call.cmd, in.args, in.param, n, s, rsrc)
        /\ call' = [call EXCEPT !.sent = @ + 1] /\ UNCHANGED timeout

(* Mutant: off by one, the command is submitted once too often. *)
FinishResubmits_OneMore ==
  /\ Responded /\ wire.rc = "retry" /\ submissionCount <= MaxSubmissions
  /\ Resubmitted /\ Burn
  /\ UNCHANGED <<esys_handle, tpm, held, dropped>>
(* RETRY, TESTING or YIELDED before. *)
FinishResubmits ==
  /\ Responded /\ wire.rc = "retry" /\ submissionCount < MaxSubmissions
  /\ Resubmitted /\ Burn
  /\ UNCHANGED <<esys_handle, tpm, held, dropped>>

(* Any other response code of the TPM or its resource manager. *)
FinishTpmError ==
  /\ Responded /\ wire.rc \in {"error", "canceled"}
  /\ previousStage' = IF wire.rc = "canceled" THEN "PREPARE" ELSE "RECEIVE_RESPONSE"
  /\ NoTraffic /\ Failed("INIT")

(* Esys_TR_Close is given the stored parameter itself and sets it to NONE. *)
Invalidated(c) ==
  in' = [in EXCEPT !.args =
           [i \in DOMAIN in.args |->
              IF i \in Profile[c].finds /\ in.args[i] \in Closing(c, in.args)
              THEN None ELSE in.args[i]]]

(* iesys_check_response or Tss2_Sys_X_Complete fails. *)
FinishCorrupt ==
  /\ Responded /\ wire.rc = "corrupt"
  /\ previousStage' = "RECEIVE_RESPONSE" /\ NoTraffic
  /\ state' = "INTERNALERROR"
  /\ IF Profile[call.cmd].early
     THEN /\ rsrc' = Close(rsrc, Cleanup \cup Closing(call.cmd, in.args))
          /\ Invalidated(call.cmd)
     ELSE rsrc' = Close(rsrc, Cleanup) /\ UNCHANGED in
  /\ Burn /\ Returned
  /\ UNCHANGED <<submissionCount, esys_handle, salt, tpm, held, dropped>>

Succeeded ==
  /\ Responded /\ wire.rc = "success"
  /\ NoTraffic /\ previousStage' = "RECEIVE_RESPONSE"
  /\ Returned
  /\ UNCHANGED <<submissionCount, esys_handle, salt, tpm>>

(* The key of a new session is derived when a salt is left in the context or
   an object is bound, but not without a secret: that takes a key of this very
   call, or an object whose authorisation value, unknown here, is not empty. *)
KeyDerived(c, args)  == Profile[c].salts /\ (args[2] # None \/ salt)
Secretless(c, args)  == KeyDerived(c, args) /\ (args[1] = None \/ Faults)
SecretKnown(c, args) == KeyDerived(c, args) => args[1] # None \/ args[2] # None

(* A creating command keeps its node and hands the handle out, unless a
   parameter it needs for the node is gone or no session key can be derived. *)
FinishCreates ==
  /\ Succeeded /\ Profile[call.cmd].creates /\ ~Profile[call.cmd].evicts
  /\ UNCHANGED in
  /\ \/ /\ Found(call.cmd, in.args) /\ SecretKnown(call.cmd, in.args)
        /\ state' = "INIT"
        /\ rsrc' = Alloc(rsrc, esys_handle_cnt, wire.handle)
        /\ held' = held \cup {esys_handle_cnt}
        /\ dropped' = dropped \ {wire.handle}
     \/ /\ ~Found(call.cmd, in.args)
        /\ state' = "INTERNALERROR" /\ UNCHANGED <<rsrc, held, dropped>>
     \/ /\ Found(call.cmd, in.args) /\ Secretless(call.cmd, in.args)
        /\ state' = "INTERNALERROR"
        /\ rsrc' = Alloc(rsrc, esys_handle_cnt, wire.handle)
        /\ UNCHANGED <<held, dropped>>
  /\ Burn

(* The other commands update, or close, the nodes they find through the stored
   parameters; if one is gone the context is left in INTERNALERROR.
   FromTPMPublic then hands out the handle of its node. *)
FinishOther ==
  LET c == call.cmd IN
  /\ Succeeded /\ ~Profile[c].creates
  /\ \/ /\ Found(c, in.args)
        /\ state' = "INIT"
        /\ rsrc' = Close(rsrc, Closing(c, in.args)) /\ Invalidated(c)
        /\ held' = (held \ Closing(c, in.args)) \cup Cleanup
        /\ dropped' = dropped \ { rsrc[h] : h \in Cleanup }
     \/ /\ ~Found(c, in.args)
        /\ state' = "INTERNALERROR"
        /\ rsrc' = Close(rsrc, Cleanup) /\ UNCHANGED <<in, held, dropped>>
  /\ Burn

(* Mutant: the node of the transient object becomes that of the copy. *)
FinishEvicts_Moves ==
  LET h == in.args[2]
      n == esys_handle_cnt
  IN  /\ Succeeded /\ Profile[call.cmd].evicts
      /\ state' = "INIT" /\ UNCHANGED <<in, dropped, held>>
      /\ IF h \in ObjectTR /\ rsrc[h] \in Transients
         THEN rsrc' = Alloc(rsrc, h, in.param) ELSE UNCHANGED rsrc
      /\ Burn
(* EvictControl: the node made on entry is never filled in.  An object that
   was persistent leaves no new handle; otherwise a second node is made for
   the persistent copy. *)
FinishEvicts ==
  LET h == in.args[2]
      n == esys_handle_cnt
  IN  /\ Succeeded /\ Profile[call.cmd].evicts
      /\ UNCHANGED <<in, dropped>>
      /\ \/ /\ h = None \/ ~Names(rsrc, h)
            /\ state' = "INTERNALERROR"
            /\ Burn /\ UNCHANGED <<rsrc, held>>
         \/ /\ h # None /\ Names(rsrc, h)
            /\ state' = "INIT"
            /\ IF Resolve(rsrc, <<h>>)[1] \in Persistents
               THEN /\ rsrc' = Alloc(rsrc, n, Blank)
                    /\ Burn /\ UNCHANGED held
               ELSE /\ rsrc' = Alloc(Alloc(rsrc, n, Blank), n + 1, in.param)
                    /\ Number(2)
                    /\ held' = held \cup {n + 1}

Finish ==
  \/ FinishLost \/ FinishTryAgain \/ FinishTransportError \/ FinishMalformed
  \/ FinishExhausted \/ FinishResubmits \/ FinishTpmError \/ FinishCorrupt
  \/ FinishCreates \/ FinishEvicts \/ FinishOther
-----------------------------------------------------------------------------
(* Calls that touch metadata only; none of them looks at the state.         *)

(* Esys_TR_Close forgets an object the TPM keeps. *)
TR_Close(h) ==
  /\ ~call.oneCall /\ h \in held
  /\ rsrc' = Close(rsrc, {h})
  /\ held' = held \ {h}
  /\ dropped' = dropped \cup ({rsrc[h]} \cap TpmHandle)
  /\ UNCHANGED <<state, submissionCount, in, esys_handle_cnt, esys_handle, salt,
                 previousStage, tcti, wire, tpm, call, timeout>>

(* Esys_TR_Deserialize of a blob naming TPM handle t; a blob that does not
   unmarshal leaves the node blank, and its handle with the application. *)
TR_Deserialize(t) ==
  /\ ~call.oneCall
  /\ Room(1 + IF call = NoCall THEN 0 ELSE Burnt(call.cmd, call.sent))
  /\ rsrc' = Alloc(rsrc, esys_handle_cnt, t)
  /\ Number(1)
  /\ held' = held \cup {esys_handle_cnt}
  /\ UNCHANGED <<state, submissionCount, in, esys_handle, salt, previousStage, tcti,
                 wire, tpm, call, timeout, dropped>>

SetTimeout(t) ==
  /\ ~call.oneCall /\ timeout # t /\ timeout' = t
  /\ UNCHANGED <<esysVars, previousStage, tcti, wire, tpm, call, held, dropped>>

(* Esys_Finalize and a new Esys_Initialize over a fresh connection: the list
   is freed, nothing is flushed. *)
Reinitialize ==
  /\ call = NoCall
  /\ state' = "INIT" /\ submissionCount' = 0 /\ in' = NoInput
  /\ timeout' = "poll"
  /\ rsrc' = [h \in NodeTR |-> Absent]
  /\ esys_handle_cnt' = MinObject /\ esys_handle' = None /\ salt' = FALSE
  /\ previousStage' = "INITIALIZE" /\ NoTraffic
  /\ held' = {} /\ dropped' = dropped \cup tpm
  /\ UNCHANGED <<tpm, call>>
-----------------------------------------------------------------------------
Arguments(c) == [1..Profile[c].objects -> Nameable]

Next ==
  \/ \E c \in Commands, one \in BOOLEAN :
       \/ \E args \in Arguments(c), p \in Parameters(c) : Start(c, args, p, one)
       \/ \E t \in TpmHandle : FromTPMPublic(c, t, one)
  \/ FromTPMPublicRefused
  \/ \E rc \in RC : TpmAnswers(rc)
  \/ Finish
  \/ \E h \in ObjectTR : TR_Close(h)
  \/ \E t \in Persistents \cup {Blank} : TR_Deserialize(t)
  \/ \E t \in {"block", "poll"} : SetTimeout(t)
  \/ Reinitialize

Spec == Init /\ [][Next]_vars

(* The TPM answers every command it receives in the end, and an application
   that started a command polls it until it ends. *)
Answers  == \E rc \in RC : TpmAnswers(rc)
Fairness == WF_vars(Answers) /\ WF_vars(Finish)
FairSpec == Spec /\ Fairness
-----------------------------------------------------------------------------
(* Properties.                                                              *)

(* The three layers agree on whether a command is under way between any two
   calls: while a command is pending the SYS context waits for a response and
   the TCTI may receive one; while the context is free both accept the next
   command; and RESUBMISSION never outlives a call. *)
LayersAgree ==
  /\ state # "RESUBMISSION"
  /\ state = "SENT" => /\ previousStage = "SEND_COMMAND" /\ tcti = "RECEIVE"
                       /\ wire.phase # "idle"
  /\ state = "INIT" => /\ previousStage # "SEND_COMMAND" /\ tcti = "TRANSMIT"
                       /\ wire.phase = "idle"

(* Every number the application owns names a live node of a working context,
   whatever was resubmitted, failed or was closed meanwhile. *)
HeldIsLive ==
  state # "INTERNALERROR" => \A h \in held : rsrc[h] # Absent

(* While the context works, no node outlives the call that made it unless its
   number was handed to the application: Finish gives back the node of a create
   that is polled again, resubmitted or failed. *)
NoOrphans ==
  state # "INTERNALERROR" => \A h \in ObjectTR : rsrc[h] # Absent =>
     h \in held \/ (call.wrapped /\ h = esys_handle)

(* A number that was used once is not handed out a second time. *)
HandlesFresh ==
  \A h \in ObjectTR : h >= esys_handle_cnt => rsrc[h] = Absent /\ h \notin held

(* While the context works, every object, session and index in the TPM can be
   named by the application, unless it closed the metadata itself: no error
   that leaves the context usable hides an object the TPM has created. *)
NothingLost ==
  state = "INIT" =>
    \A t \in tpm \ Persistents : t \in dropped \/ \E h \in held : rsrc[h] = t

(* The counter behind the limit counts the transmissions of this command. *)
SubmissionsCounted ==
  state = "SENT" /\ call # NoCall =>
    submissionCount = call.sent /\ call.sent <= MaxSubmissions

(* A command that the TPM executed, and whose objects the application still
   owns, is reported as such: it does not leave the context unusable. *)
SuccessDelivered ==
  [][ /\ wire.phase = "response" /\ wire.rc = "success" /\ wire'.phase = "idle"
      /\ state = "SENT" /\ call # NoCall
      /\ \A i \in 1..Len(call.args) :
           call.wrapped \/ call.args[i] \in held \cup Globals \cup {None}
      => state' = "INIT" ]_vars

(* A command that was sent comes to an end: the TPM may ask for a bounded
   number of resubmissions only. *)
EveryCallReturns == (call # NoCall) ~> (call = NoCall)

(* Commands are carried out one at a time, and what is resubmitted is what was
   submitted first. *)
Cycle == INSTANCE EsysCommandCycle
           WITH phase    <- CASE state = "INIT" -> "idle"
                              [] state = "SENT" -> "pending"
                              [] OTHER -> "dead",
                job      <- IF state = "SENT" THEN wire.req ELSE NoRequest,
                attempts <- IF state = "SENT" THEN submissionCount ELSE 0,
                Jobs <- Request, NoJob <- NoRequest, MaxAttempts <- MaxSubmissions
CommandCycle == Cycle!Spec

(* Whatever FromTPMPublic writes over the stored parameters of a pending
   command meanwhile, a retry does not turn it into a command on another object:
   the number written has no node, and the resubmission is refused.  This is so
   of every command whose parameters begin with an ESYS_TR or that has none; the
   size, algorithm or pointer the other ones begin with is resubmitted as it is
   found (Esys_GetRandom.c:266). *)
SameCommandResent ==
  [][ /\ state = "SENT" /\ state' = "SENT" /\ submissionCount' # submissionCount
      /\ ~Profile[call.cmd].value
      => wire'.req = wire.req ]_vars
-----------------------------------------------------------------------------
(* What comments of the code promise and the code does not do.              *)

(* esys_int.h: ESYS_CONTEXT.salt is the salt used during a StartAuthSession; a
   session started without a key and without a bound object uses none, and is
   there when the TPM has started it. *)
UnsaltedSessionStarts ==
  [][ /\ state = "SENT" /\ call # NoCall /\ wire.rc = "success"
      /\ Profile[call.cmd].salts /\ call.args = <<None, None>>
      /\ wire.phase = "response" /\ wire'.phase = "idle"
      => state' = "INIT" ]_vars
=============================================================================
