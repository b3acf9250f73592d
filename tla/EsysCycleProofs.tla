-------------------------- MODULE EsysCycleProofs --------------------------
(***************************************************************************)
(* What an ESYS_CONTEXT promises about its commands and about the objects  *)
(* in the TPM, for every table of commands and all bounds: what is         *)
(* resubmitted is what was submitted, no object is lost, no node is left   *)
(* behind, and what the TPM has executed is delivered.                     *)
(***************************************************************************)
EXTENDS EsysContextProofs

(* What the parameter a, an ESYS_TR, was to the TPM when the command was sent:
   the node may have been closed since, but no other has taken its number. *)
Designates(a, t) ==
  IF a \in ObjectTR THEN a < esys_handle_cnt /\ rsrc[a] \in {Absent, t}
                    ELSE t = Permanent

(* Does a FromTPMPublic meanwhile overwrite a parameter of the command that is
   no ESYS_TR? *)
Overwrites(c) == Overlap /\ Profile[c].value

(* The parameters in the union are those that were sent, or the first of them is
   a number that has no node; but a value or pointer is overwritten unnoticed. *)
ResendOK ==
  call # NoCall =>
    /\ wire.req.cmd = call.cmd
    /\ Overwrites(call.cmd) \/ wire.req.param = in.param
    /\ wire.req.handles \in Seq(Handles)
    /\ Len(wire.req.handles) = Len(in.args)
    /\ \A i \in 1..Len(in.args) : Designates(in.args[i], wire.req.handles[i])

Done == {"success", "corrupt", "malformed"}

(* What a response says of the TPM: what a creating command created, that
   what a closing command closed is gone, and that EvictControl was sent an
   object. *)
AnswerOK ==
  wire.phase = "response" =>
    LET req == wire.req  P == Profile[req.cmd] IN
    /\ wire.rc \notin Done \/ ~P.creates \/ P.evicts => wire.handle = Blank
    /\ wire.rc = "success" /\ ~P.creates =>
         \A i \in P.finds : LET t == req.handles[i] IN
           t \in TpmHandle /\ KindOf[t] \in P.closed => t \notin tpm
    /\ wire.rc = "success" /\ P.evicts => req.handles[2] # Permanent

(* While a response is on its way, what it created has no node yet. *)
CoverOK ==
  state # "INTERNALERROR" =>
    \A t \in tpm \ Persistents :
      \/ t \in dropped \/ \E h \in held : rsrc[h] = t
      \/ wire.phase = "response" /\ wire.handle = t

CycleInv == LiveInv /\ ResendOK /\ AnswerOK /\ CoverOK
-----------------------------------------------------------------------------
(* Lemmas on nodes and parameters.                                          *)

(* The numbers are integers. *)
LEMMA Numbers ==
  ASSUME IInv
  PROVE  /\ esys_handle_cnt \in Int /\ MinObject \in Nat
         /\ \A x \in ObjectTR : x \in Int /\ x \in NodeTR /\ x \notin Globals /\ x # None
         /\ \A x \in held : x \in ObjectTR
<1>1. esys_handle_cnt \in Int
  BY Bounds DEF IInv, TypeOK
<1>2. \A x \in ObjectTR : x \in Int /\ x \in NodeTR /\ x \notin Globals /\ x # None
  <2>1. \A x \in ObjectTR : x \in Int /\ x \in Nat /\ x >= MinObject
    BY Bounds DEF ObjectTR
  <2> QED
    BY <2>1, ContextAssumption DEF NodeTR
<1> QED
  BY <1>1, <1>2, Bounds DEF IInv, TypeOK

(* The lookups leave the nodes of objects alone. *)
LEMMA LookUpNodes ==
  ASSUME NEW R, NEW args, NEW x \in ObjectTR
  PROVE  LookUp(R, args)[x] = R[x]
<1>1. x \notin Globals /\ x \in NodeTR
  BY ContextAssumption DEF ObjectTR, NodeTR
<1> QED
  BY <1>1 DEF LookUp

(* An Async function that sends a command leaves the nodes of objects alone;
   one that does not closes those its caller asks it to close, and no others. *)
LEMMA AsyncNodes ==
  ASSUME NEW c, NEW args, NEW p, NEW n, NEW s, NEW R, NEW gone,
         \/ n = 1 /\ AsyncInfeasible(c, R, gone)
         \/ AsyncUnsalted(c, args, p, n, s, R, gone)
         \/ AsyncUnprepared(c, args, p, n, s, R, gone)
         \/ AsyncUnsent(c, args, p, n, s, R, gone)
         \/ AsyncSent(c, args, p, n, s, R),
         NEW x \in ObjectTR
  PROVE  rsrc'[x] = IF state' # "SENT" /\ x \in gone THEN Absent ELSE R[x]
<1>1. x \in NodeTR /\ LookUp(R, args)[x] = R[x]
  BY LookUpNodes DEF NodeTR
<1>2. CASE AsyncSent(c, args, p, n, s, R)
  BY <1>1, <1>2 DEF AsyncSent, Transmitted
<1>3. CASE ~AsyncSent(c, args, p, n, s, R)
  <2>1. /\ state' # "SENT"
        /\ rsrc' = Close(R, gone) \/ rsrc' = Close(LookUp(R, args), gone)
    BY <1>3 DEF AsyncInfeasible, AsyncUnsalted, AsyncUnprepared, AsyncUnsent
  <2> QED
    BY <1>1, <2>1 DEF Close
<1> QED
  BY <1>2, <1>3

(* A parameter in front of the others but the first. *)
LEMMA ReplacedHead ==
  ASSUME NEW S, NEW s \in Seq(S), s # <<>>, NEW h \in S
  PROVE  LET a == <<h>> \o Tail(s) IN
         Len(a) = Len(s) /\ \A i \in 1..Len(s) : a[i] = IF i = 1 THEN h ELSE s[i]
<1> DEFINE a == <<h>> \o Tail(s)
<1>1. /\ Tail(s) \in Seq(S) /\ Len(Tail(s)) = Len(s) - 1 /\ Len(s) \in Nat
      /\ \A i \in 1..Len(Tail(s)) : Tail(s)[i] = s[i + 1]
  BY HeadTailProperties, LenProperties
<1>2. <<h>> \in Seq(S) /\ Len(<<h>>) = 1 /\ <<h>>[1] = h
  OBVIOUS
<1>3. /\ Len(a) = Len(s)
      /\ \A i \in 1..Len(s) : a[i] = IF i <= 1 THEN <<h>>[i] ELSE Tail(s)[i - 1]
  BY <1>1, <1>2, ConcatProperties
<1>4. ASSUME NEW i \in 1..Len(s)
      PROVE  a[i] = IF i = 1 THEN h ELSE s[i]
  <2>1. CASE i = 1
    BY <1>2, <1>3, <2>1
  <2>2. CASE i # 1
    <3>1. i - 1 \in 1..Len(Tail(s)) /\ ~(i <= 1) /\ (i - 1) + 1 = i
      BY <1>1, <2>2
    <3>2. Tail(s)[i - 1] = s[i]
      BY <1>1, <3>1
    <3> QED
      BY <1>3, <2>2, <3>1, <3>2
  <2> QED
    BY <2>1, <2>2
<1> QED
  BY <1>3, <1>4

(* A request on its way is one. *)
LEMMA OnItsWay ==
  ASSUME IInv, wire.phase # "idle"
  PROVE  /\ wire.req \in Request /\ wire.req.cmd \in Commands
         /\ wire.req.handles \in Seq(Handles)
<1>1. wire.req \in Request \cup {NoRequest} /\ wire.req.cmd \in Commands
  BY DEF IInv, TypeOK, StoredOK, Carries
<1>2. wire.req # NoRequest
  BY <1>1, ContextAssumption DEF NoRequest
<1> QED
  BY <1>1, <1>2 DEF Request
-----------------------------------------------------------------------------
(* What is stored is what was sent.                                         *)

(* A command that is sent is stored as it is sent. *)
LEMMA SentAsStored ==
  ASSUME IInv, NEW c, NEW args \in Seq(ESYS_TR), NEW p, NEW n, NEW s, NEW R \in Lists,
         AsyncSent(c, args, p, n, s, R), call'.cmd = c,
         \A i \in 1..Len(args) : args[i] \in ObjectTR => args[i] < esys_handle_cnt'
  PROVE  ResendOK'
<1> DEFINE req == [cmd |-> c, handles |-> Resolve(R, args), param |-> p]
<1>1. /\ wire' = [phase |-> "command", req |-> req, rc |-> "success", handle |-> Blank]
      /\ Resolvable(R, args) /\ rsrc' = LookUp(R, args)
      /\ in' = [cmd |-> c, args |-> args, param |-> p]
  BY DEF AsyncSent, Transmitted, Traffic, Stored
<1>2. Resolve(R, args) \in Seq(Handles) /\ Len(args) \in Nat
  BY <1>1, ResolveType, LenProperties
<1>3. Len(Resolve(R, args)) = Len(args)
  <2>1. DOMAIN Resolve(R, args) = 1..Len(args)
    BY DEF Resolve
  <2> QED
    BY <1>2, <2>1, LenProperties
<1>4. ASSUME NEW i \in 1..Len(args)
      PROVE  Designates(args[i], Resolve(R, args)[i])'
  BY <1>1, <1>4, LookUpNodes DEF Designates, Resolve
<1>5. /\ wire'.req.cmd = c /\ wire'.req.param = p
      /\ wire'.req.handles = Resolve(R, args) /\ in'.args = args /\ in'.param = p
  BY <1>1
<1>6. \A i \in 1..Len(in'.args) : Designates(in.args[i], wire.req.handles[i])'
  BY <1>4, <1>5 DEF Designates
<1> QED
  BY <1>2, <1>3, <1>5, <1>6 DEF ResendOK

(* It stays so while the counter runs, nodes are closed, and only new numbers
   get nodes. *)
LEMMA StaysStored ==
  ASSUME IInv, ResendOK, call # NoCall => call'.cmd = call.cmd,
         call = NoCall => call' = NoCall,
         wire'.req = wire.req, UNCHANGED in,
         esys_handle_cnt' \in Int, esys_handle_cnt' >= esys_handle_cnt,
         \A x \in ObjectTR : x < esys_handle_cnt => rsrc'[x] \in {Absent, rsrc[x]}
  PROVE  ResendOK'
<1> SUFFICES ASSUME call' # NoCall
             PROVE  ResendOK'
  BY DEF ResendOK
<1>1. call # NoCall /\ call'.cmd = call.cmd
  OBVIOUS
<1>2. ASSUME NEW a, NEW t, Designates(a, t)
      PROVE  Designates(a, t)'
  BY <1>2, Numbers DEF Designates
<1>3. \A i \in 1..Len(in.args) : Designates(in.args[i], wire.req.handles[i])'
  <2>1. ASSUME NEW i \in 1..Len(in.args)
        PROVE  Designates(in.args[i], wire.req.handles[i])'
    <3>1. Designates(in.args[i], wire.req.handles[i])
      BY <1>1 DEF ResendOK
    <3>2. in'.args[i] = in.args[i] /\ wire'.req.handles[i] = wire.req.handles[i]
      OBVIOUS
    <3> QED
      BY <1>2, <3>1, <3>2 DEF Designates
  <2> QED
    BY <2>1
<1> QED
  BY <1>1, <1>3 DEF ResendOK

(* The first submission. *)
LEMMA ResendStart ==
  ASSUME LiveInv, ResendOK, NEW c \in Commands, NEW one \in BOOLEAN,
         NEW args \in Arguments(c), NEW p \in Parameters(c), Start(c, args, p, one)
  PROVE  ResendOK'
<1>1. CASE UNCHANGED <<call, timeout>>
  BY <1>1 DEF Start, Idle, ResendOK
<1>2. CASE /\ AsyncSent(c, args, p, 1, previousStage, rsrc)
           /\ Started(c, args, p, FALSE, one)
  <2>1. args \in [1..Profile[c].objects -> Nameable] /\ Profile[c].objects \in Nat
    BY ContextAssumption DEF Arguments, ProfileType
  <2>2. Nameable \subseteq ESYS_TR
    BY DEF Nameable, LiveInv, IInv, TypeOK, ESYS_TR, NodeTR
  <2>3. args \in Seq(ESYS_TR) /\ Len(args) = Profile[c].objects
    <3>1. args \in [1..Profile[c].objects -> ESYS_TR]
      BY <2>1, <2>2
    <3> QED
      BY <2>1, <3>1, FunctionIsSeq
  <2>4. ASSUME NEW x \in Nameable, x \in ObjectTR
        PROVE  x < esys_handle_cnt
    <3>1. x \in Int /\ esys_handle_cnt \in Int /\ x \notin Globals /\ x # None
      BY <2>4, Numbers DEF LiveInv
    <3>2. x \in held => x < esys_handle_cnt
      BY <2>4, <3>1 DEF LiveInv, HandlesFresh
    <3> QED
      BY <3>1, <3>2 DEF Nameable
  <2>5. \A i \in 1..Len(args) : args[i] \in ObjectTR => args[i] < esys_handle_cnt'
    BY <2>1, <2>3, <2>4 DEF Start
  <2>6. call'.cmd = c /\ rsrc \in Lists
    BY <1>2 DEF Started, LiveInv, IInv, TypeOK, Lists
  <2> QED
    BY <1>2, <2>3, <2>5, <2>6, SentAsStored DEF LiveInv
<1> QED
  BY <1>1, <1>2 DEF Start

(* The first submission of a command that reads the public area of an object. *)
LEMMA ResendFromTPMPublic ==
  ASSUME LiveInv, ResendOK, NEW c \in Commands, NEW one \in BOOLEAN,
         NEW t \in TpmHandle, FromTPMPublic(c, t, one)
  PROVE  ResendOK'
<1> DEFINE h == esys_handle_cnt
           R == Alloc(rsrc, h, t)
<1>1. CASE UNCHANGED <<call, timeout>>
  BY <1>1 DEF FromTPMPublic, Idle, ResendOK
<1>2. CASE /\ AsyncSent(c, <<h>>, Blank, 1, previousStage, R)
           /\ Started(c, <<h>>, Blank, TRUE, one)
  <2>1. h \in ObjectTR /\ h \in Int
    BY NextNumber, Numbers DEF FromTPMPublic, Room, LiveInv
  <2>2. <<h>> \in Seq(ESYS_TR) /\ Len(<<h>>) = 1 /\ <<h>>[1] = h
    BY <2>1 DEF ESYS_TR, NodeTR
  <2>3. R \in Lists
    BY AllocType DEF LiveInv, IInv, TypeOK, Lists, Handles
  <2>4. \A i \in 1..Len(<<h>>) : <<h>>[i] \in ObjectTR => <<h>>[i] < esys_handle_cnt'
    BY <2>1, <2>2 DEF FromTPMPublic, Number
  <2>5. call'.cmd = c
    BY <1>2 DEF Started
  <2> QED
    BY <1>2, <2>2, <2>3, <2>4, <2>5, SentAsStored DEF LiveInv
<1> QED
  BY <1>1, <1>2 DEF FromTPMPublic

(* Refused, it puts a new number, which has no node, in place of the first stored
   ESYS_TR, where a resubmission will not find it, or in place of a value. *)
LEMMA ResendRefused ==
  ASSUME LiveInv, ResendOK, FromTPMPublicRefused
  PROVE  ResendOK'
<1> DEFINE h == esys_handle_cnt
<1> SUFFICES ASSUME call' # NoCall
             PROVE  ResendOK'
  BY DEF ResendOK
<1>1. /\ call' = call /\ call # NoCall /\ wire' = wire /\ rsrc' = rsrc
      /\ esys_handle_cnt' = h + 1
  BY DEF FromTPMPublicRefused, appVars, Number
<1>2. h \in Int /\ h \in ObjectTR /\ rsrc[h] = Absent
  <2> DEFINE k == Burnt(call.cmd, call.sent)
  <2>1. k \in Nat /\ h + (1 + k) <= MaxObject + 1
    BY <1>1, PendingFacts, BurntBounds DEF FromTPMPublicRefused, Room, LiveInv
  <2>2. h \in Int /\ h \in ObjectTR
    <3> HIDE DEF k
    <3> QED
      BY <2>1, NextNumber DEF LiveInv
  <2> QED
    BY <2>2 DEF LiveInv, HandlesFresh
<1>3. /\ in.cmd = call.cmd /\ call.cmd \in Commands /\ in.args \in Seq(ESYS_TR)
      /\ in'.args = IF in.args = <<>> THEN <<>> ELSE <<h>> \o Tail(in.args)
      /\ in'.param = IF Profile[call.cmd].value THEN h ELSE in.param
      /\ Overwrites(call.cmd) \/ wire.req.param = in'.param
  <2>1. /\ in.cmd = call.cmd /\ call.cmd \in Commands /\ in.args \in Seq(ESYS_TR)
    BY <1>1, PendingFacts DEF LiveInv
  <2>2. Overlap /\ in' = FirstOverwritten(in, h)
    BY DEF FromTPMPublicRefused
  <2>3. /\ in'.args = IF in.args = <<>> THEN <<>> ELSE <<h>> \o Tail(in.args)
        /\ in'.param = IF Profile[call.cmd].value THEN h ELSE in.param
    BY <1>2, <2>1, <2>2, OverwrittenFirst DEF LiveInv
  <2> QED
    BY <1>1, <2>1, <2>2, <2>3 DEF ResendOK, Overwrites
<1>4. CASE in.args = <<>>
  <2>1. in'.args = in.args /\ Len(in.args) = 0
    BY <1>3, <1>4
  <2> QED
    BY <1>1, <1>3, <2>1 DEF ResendOK
<1>5. CASE in.args # <<>>
  <2> DEFINE a == <<h>> \o Tail(in.args)
  <2>1. in.args \in Seq(ESYS_TR) /\ h \in ESYS_TR
    BY <1>2, <1>3 DEF ESYS_TR, NodeTR
  <2>2. Len(a) = Len(in.args)
        /\ \A i \in 1..Len(in.args) : a[i] = IF i = 1 THEN h ELSE in.args[i]
    BY <1>5, <2>1, ReplacedHead
  <2>3. in'.args = a
    BY <1>3, <1>5
  <2> HIDE DEF a
  <2>4. ASSUME NEW i \in 1..Len(in.args)
        PROVE  Designates(in.args[i], wire.req.handles[i])'
    <3>1. CASE i = 1
      BY <1>1, <1>2, <2>2, <2>3, <3>1 DEF Designates
    <3>2. CASE i # 1
      <4>1. Designates(in.args[i], wire.req.handles[i])
        BY <1>1 DEF ResendOK
      <4>2. in.args[i] \in ObjectTR => in.args[i] \in Int
        BY Numbers DEF LiveInv
      <4>3. in'.args[i] = in.args[i]
        BY <2>2, <2>3, <3>2
      <4> QED
        BY <1>1, <1>2, <4>1, <4>2, <4>3 DEF Designates
    <3> QED
      BY <3>1, <3>2
  <2> QED
    BY <1>1, <1>3, <2>2, <2>3, <2>4 DEF ResendOK, Designates
<1> QED
  BY <1>4, <1>5

(* A resubmission sends the stored parameters again. *)
LEMMA ResendFinish ==
  ASSUME LiveInv, ResendOK, Finish
  PROVE  ResendOK'
<1>1. esys_handle_cnt \in Int
  BY Numbers DEF LiveInv
<1>2. CASE Returned
  BY <1>2 DEF Returned, ResendOK
<1>3. CASE FinishTryAgain
  <2>1. /\ wire' = wire /\ in' = in /\ call' = call /\ rsrc' = rsrc
        /\ esys_handle_cnt' \in {esys_handle_cnt, esys_handle_cnt + 1}
    BY <1>1, <1>3 DEF FinishTryAgain, appVars, Burn, Number
  <2> QED
    BY <1>1, <2>1, StaysStored DEF LiveInv
<1>4. CASE FinishResubmits /\ ~Returned
  <2> DEFINE n == submissionCount + 1
             s == "RECEIVE_RESPONSE"
  <2>1. /\ AsyncSent(call.cmd, in.args, in.param, n, s, rsrc) /\ Burn
        /\ call' = [call EXCEPT !.sent = @ + 1] /\ call # NoCall
    BY <1>4 DEF FinishResubmits, Resubmitted, Responded, Polled
  <2>2. in.args \in Seq(ESYS_TR) /\ call'.cmd = call.cmd /\ rsrc \in Lists
    BY <2>1, PendingFacts DEF LiveInv, IInv, TypeOK, Lists, Call
  <2>3. ASSUME NEW i \in 1..Len(in.args), in.args[i] \in ObjectTR
        PROVE  in.args[i] < esys_handle_cnt'
    <3>1. in.args[i] < esys_handle_cnt
      BY <2>1, <2>3 DEF ResendOK, Designates
    <3>2. esys_handle_cnt' \in {esys_handle_cnt, esys_handle_cnt + 1}
      BY <1>1, <2>1 DEF Burn, Number
    <3>3. in.args[i] \in Int
      BY <2>3, Numbers DEF LiveInv
    <3> QED
      BY <1>1, <3>1, <3>2, <3>3
  <2> QED
    BY <2>1, <2>2, <2>3, SentAsStored DEF LiveInv
<1> QED
  BY <1>2, <1>3, <1>4
  DEF Finish, FinishLost, FinishTransportError, FinishMalformed, FinishExhausted,
      FinishTpmError, Failed, FinishCorrupt, FinishCreates, FinishEvicts, FinishOther,
      Succeeded

(* Every step keeps what is stored and what was sent the same. *)
LEMMA ResendStep ==
  ASSUME LiveInv, ResendOK, [Next]_vars
  PROVE  ResendOK'
<1>1. esys_handle_cnt \in Int
  BY Numbers DEF LiveInv
<1>2. CASE /\ UNCHANGED <<call, in>> /\ wire'.req = wire.req
           /\ UNCHANGED <<rsrc, esys_handle_cnt>>
  BY <1>1, <1>2, StaysStored DEF LiveInv
<1>3. ASSUME NEW rc \in RC, TpmAnswers(rc)
      PROVE  ResendOK'
  <2>1. wire'.req = wire.req
    BY <1>3 DEF TpmAnswers, Traffic
  <2> QED
    BY <1>2, <1>3, <2>1 DEF TpmAnswers, esysVars, appVars
<1>4. ASSUME NEW h \in ObjectTR, TR_Close(h)
      PROVE  ResendOK'
  <2>1. \A x \in ObjectTR : rsrc'[x] \in {Absent, rsrc[x]}
    BY <1>4 DEF TR_Close, Close, NodeTR
  <2>2. UNCHANGED <<call, in, wire, esys_handle_cnt>>
    BY <1>4 DEF TR_Close
  <2> QED
    BY <1>1, <2>1, <2>2, StaysStored DEF LiveInv
<1>5. ASSUME NEW t, TR_Deserialize(t)
      PROVE  ResendOK'
  <2>1. UNCHANGED <<call, in, wire>> /\ esys_handle_cnt' = esys_handle_cnt + 1
    BY <1>5 DEF TR_Deserialize, Number
  <2>2. ASSUME NEW x \in ObjectTR, x < esys_handle_cnt
        PROVE  rsrc'[x] = rsrc[x]
    <3>1. x # esys_handle_cnt
      BY <1>1, <2>2, Numbers DEF LiveInv
    <3> QED
      BY <1>5, <3>1 DEF TR_Deserialize, Alloc
  <2> QED
    BY <1>1, <2>1, <2>2, StaysStored DEF LiveInv
<1>6. ASSUME NEW t, SetTimeout(t)
      PROVE  ResendOK'
  BY <1>2, <1>6 DEF SetTimeout, esysVars
<1>7. CASE Reinitialize
  BY <1>7 DEF Reinitialize, ResendOK
<1>8. CASE UNCHANGED vars
  BY <1>2, <1>8 DEF vars, esysVars, appVars
<1> QED
  BY <1>3, <1>4, <1>5, <1>6, <1>7, <1>8, ResendStart, ResendFromTPMPublic, ResendRefused,
     ResendFinish DEF Next
-----------------------------------------------------------------------------
(* What a response says of the TPM.                                         *)

(* Async puts a command on its way, or nothing, or leaves what there is. *)
LEMMA AsyncWire ==
  ASSUME NEW c, NEW args, NEW p, NEW n, NEW s, NEW R, NEW gone,
         \/ n = 1 /\ AsyncInfeasible(c, R, gone)
         \/ AsyncUnsalted(c, args, p, n, s, R, gone)
         \/ AsyncUnprepared(c, args, p, n, s, R, gone)
         \/ AsyncUnsent(c, args, p, n, s, R, gone)
         \/ AsyncSent(c, args, p, n, s, R)
  PROVE  /\ wire' = wire \/ wire'.phase # "response"
         /\ n # 1 => wire'.phase # "response"
<1>1. Quiet.phase = "idle"
  BY QuietType
<1> QED
  BY <1>1
  DEF AsyncInfeasible, AsyncUnsalted, AsyncUnprepared, AsyncUnsent, AsyncSent, Transmitted,
      Settled, NoTraffic, Traffic

(* Only the TPM puts a response on its way, and only then changes. *)
LEMMA WireStep ==
  ASSUME [Next]_vars, \A rc \in RC : ~TpmAnswers(rc)
  PROVE  tpm' = tpm /\ (wire' = wire \/ wire'.phase # "response")
<1>1. Quiet.phase = "idle"
  BY QuietType
<1>2. ASSUME NEW c, NEW args, NEW p, NEW one, Start(c, args, p, one)
      PROVE  tpm' = tpm /\ (wire' = wire \/ wire'.phase # "response")
  BY <1>2, AsyncWire DEF Start
<1>3. ASSUME NEW c, NEW t, NEW one, FromTPMPublic(c, t, one)
      PROVE  tpm' = tpm /\ (wire' = wire \/ wire'.phase # "response")
  BY <1>3, AsyncWire DEF FromTPMPublic
<1>4. CASE FinishResubmits
  <2>1. wire' = wire \/ wire'.phase # "response"
    BY <1>4, AsyncWire DEF FinishResubmits, Resubmitted
  <2> QED
    BY <1>4, <2>1 DEF FinishResubmits
<1>5. CASE \/ FinishLost \/ FinishTryAgain \/ FinishTransportError \/ FinishMalformed
           \/ FinishExhausted \/ FinishTpmError \/ FinishCorrupt
  BY <1>1, <1>5
  DEF FinishLost, FinishTryAgain, appVars, FinishTransportError, Unreceived, FinishMalformed,
      FinishExhausted, FinishTpmError, FinishCorrupt, NoTraffic, Failed
<1>6. CASE FinishCreates \/ FinishEvicts \/ FinishOther
  BY <1>1, <1>6 DEF FinishCreates, FinishEvicts, FinishOther, Succeeded, NoTraffic
<1>7. CASE FromTPMPublicRefused \/ Reinitialize \/ UNCHANGED vars
  BY <1>1, <1>7 DEF FromTPMPublicRefused, Reinitialize, NoTraffic, vars
<1>8. ASSUME NEW x, TR_Close(x) \/ TR_Deserialize(x) \/ SetTimeout(x)
      PROVE  tpm' = tpm /\ (wire' = wire \/ wire'.phase # "response")
  BY <1>8 DEF TR_Close, TR_Deserialize, SetTimeout
<1> QED
  BY <1>2, <1>3, <1>4, <1>5, <1>6, <1>7, <1>8 DEF Next, Finish

(* A response tells what the TPM did. *)
LEMMA AnswerStepOK ==
  ASSUME IInv, AnswerOK, [Next]_vars
  PROVE  AnswerOK'
<1> DEFINE req == wire.req
           P   == Profile[req.cmd]
<1>1. CASE \A rc \in RC : ~TpmAnswers(rc)
  BY <1>1, WireStep DEF AnswerOK
<1>2. ASSUME NEW rc \in RC, TpmAnswers(rc)
      PROVE  AnswerOK'
  <2>1. wire.phase = "command" /\ req.cmd \in Commands /\ tpm \in SUBSET TpmHandle
    BY <1>2, OnItsWay DEF TpmAnswers, IInv, TypeOK
  <2>2. CASE rc \notin Done
    <3>1. wire' = [phase |-> "response", req |-> req, rc |-> rc, handle |-> Blank]
      BY <1>2, <2>2 DEF TpmAnswers, Traffic, Done
    <3> QED
      BY <2>2, <3>1 DEF AnswerOK, Done
  <2>3. CASE rc \in Done
    <3>1. PICK t \in Yielded(req) : /\ Accepts(req) /\ Executed(req, t)
                                    /\ wire' = Traffic("response", req, rc, t)
      BY <1>2, <2>3 DEF TpmAnswers, Done
    <3>2. wire' = [phase |-> "response", req |-> req, rc |-> rc, handle |-> t]
      BY <3>1 DEF Traffic
    <3>3. ~P.creates \/ P.evicts => t = Blank
      BY <3>1 DEF Yielded
    <3>4. ASSUME ~P.creates, NEW i \in P.finds, req.handles[i] \in TpmHandle,
                 KindOf[req.handles[i]] \in P.closed
          PROVE  req.handles[i] \notin tpm'
      <4>1. ~P.evicts
        BY <2>1, <3>4, ContextAssumption
      <4>2. tpm' = tpm \ { x \in tpm \cap {req.handles[j] : j \in P.finds} :
                             KindOf[x] \in P.closed }
        BY <3>1, <3>4, <4>1 DEF Executed
      <4> QED
        BY <3>4, <4>2
    <3>5. P.evicts => req.handles[2] # Permanent
      BY <2>1, <3>1, ContextAssumption DEF Accepts
    <3> HIDE DEF P
    <3> QED
      BY <2>3, <3>2, <3>3, <3>4, <3>5 DEF AnswerOK, Done, P
  <2> QED
    BY <2>2, <2>3
<1> QED
  BY <1>1, <1>2
-----------------------------------------------------------------------------
(* No object is lost.                                                       *)

(* A step that leaves the application its numbers, these their nodes, and the
   TPM what it has. *)
LEMMA StaysCovered ==
  ASSUME CoverOK, state # "INTERNALERROR", tpm' \subseteq tpm,
         dropped \subseteq dropped',
         \A h \in held : h \in held' /\ rsrc'[h] = rsrc[h],
         wire.phase = "response" =>
           wire' = wire \/ wire.handle \notin tpm
  PROVE  CoverOK'
BY DEF CoverOK

(* A response that is not a success created nothing. *)
LEMMA NothingCreated ==
  ASSUME IInv, AnswerOK, wire.phase = "response", wire.rc \notin Done
  PROVE  wire.handle \notin tpm
BY ContextAssumption DEF AnswerOK, IInv, TypeOK

(* Starting a command. *)
LEMMA CoverStart ==
  ASSUME LiveInv, CoverOK, NEW c, NEW args, NEW p, NEW one, Start(c, args, p, one)
  PROVE  CoverOK'
<1>1. ASSUME NEW h \in held
      PROVE  rsrc'[h] = rsrc[h]
  <2>1. h \in ObjectTR
    BY Numbers DEF LiveInv
  <2>2. CASE AsyncInfeasible(c, rsrc, {})
    BY <2>1, <2>2, Numbers DEF AsyncInfeasible, Close, LiveInv
  <2>3. CASE \/ AsyncUnsalted(c, args, p, 1, previousStage, rsrc, {})
             \/ AsyncUnprepared(c, args, p, 1, previousStage, rsrc, {})
             \/ AsyncUnsent(c, args, p, 1, previousStage, rsrc, {})
             \/ AsyncSent(c, args, p, 1, previousStage, rsrc)
    BY <2>1, <2>3, AsyncNodes
  <2> QED
    BY <2>2, <2>3 DEF Start
<1>2. state # "INTERNALERROR" /\ wire.phase # "response"
  BY DEF Start, Idle, LiveInv, IInv, LayersAgree
<1> QED
  BY <1>1, <1>2, StaysCovered DEF Start

(* Reading the public area of an object: the new node is not held yet. *)
LEMMA CoverFromTPMPublic ==
  ASSUME LiveInv, CoverOK, NEW c, NEW t, NEW one, FromTPMPublic(c, t, one)
  PROVE  CoverOK'
<1> DEFINE n == esys_handle_cnt
           R == Alloc(rsrc, n, t)
<1>1. ASSUME NEW h \in held
      PROVE  rsrc'[h] = rsrc[h]
  <2>1. h \in ObjectTR /\ h # n
    BY Numbers, NextIsFree DEF LiveInv
  <2>2. CASE AsyncInfeasible(c, R, {n})
    BY <2>1, <2>2, Numbers DEF AsyncInfeasible, Close, LiveInv, Alloc
  <2>3. CASE \/ AsyncUnsalted(c, <<n>>, Blank, 1, previousStage, R, {n})
             \/ AsyncUnprepared(c, <<n>>, Blank, 1, previousStage, R, {n})
             \/ AsyncUnsent(c, <<n>>, Blank, 1, previousStage, R, {n})
             \/ AsyncSent(c, <<n>>, Blank, 1, previousStage, R)
    <3> DEFINE args == <<n>>
               gone == {n}
    <3>1. h \in ObjectTR /\ h \notin gone
      BY <2>1
    <3> HIDE DEF R, args, gone
    <3>2. rsrc'[h] = IF state' # "SENT" /\ h \in gone THEN Absent ELSE R[h]
      BY <2>3, <3>1, AsyncNodes DEF args, gone
    <3>3. rsrc'[h] = R[h]
      BY <3>1, <3>2
    <3> QED
      BY <2>1, <3>3 DEF Alloc, R
  <2> QED
    BY <2>2, <2>3 DEF FromTPMPublic
<1>2. state # "INTERNALERROR" /\ wire.phase # "response"
  BY DEF FromTPMPublic, Idle, LiveInv, IInv, LayersAgree
<1> QED
  BY <1>1, <1>2, StaysCovered DEF FromTPMPublic

(* What Finish closes for a command that succeeded is gone from the TPM. *)
LEMMA ClosedIsGone ==
  ASSUME LiveInv, ResendOK, AnswerOK, call # NoCall, wire.phase = "response",
         wire.rc = "success", ~Profile[call.cmd].creates,
         NEW h \in Closing(call.cmd, in.args), h \in held
  PROVE  rsrc[h] \notin tpm
<1>1. h \in ObjectTR /\ rsrc[h] \in TpmHandle
      /\ KindOf[rsrc[h]] \in Profile[call.cmd].closed
  BY Numbers DEF LiveInv, Closing
<1>2. PICK i \in Profile[call.cmd].finds : h = in.args[i]
  BY DEF Closing, FoundAgain
<1>3. i \in 1..Len(in.args)
  BY <1>2, PendingFacts, ContextAssumption DEF LiveInv
<1>4. wire.req.cmd = call.cmd /\ Designates(h, wire.req.handles[i])
  BY <1>2, <1>3 DEF ResendOK
<1>5. rsrc[h] = wire.req.handles[i]
  BY <1>1, <1>4, ContextAssumption DEF Designates
<1> QED
  BY <1>1, <1>2, <1>4, <1>5 DEF AnswerOK

(* Finish hands out the node of what was created. *)
LEMMA CoverFinish ==
  ASSUME CycleInv, Finish
  PROVE  CoverOK'
<1> USE DEF CycleInv
<1> DEFINE n == esys_handle_cnt
<1>1. call # NoCall
  BY DEF Finish, FinishLost, FinishTryAgain, FinishTransportError, Unreceived,
         FinishMalformed, FinishExhausted, FinishResubmits, FinishTpmError, FinishCorrupt,
         FinishCreates, FinishEvicts, FinishOther, Succeeded, Responded, Polled, NoCall
<1>2. /\ Cleanup \cap held = {} /\ state = "SENT"
      /\ \A h \in held : h \in ObjectTR /\ h \in NodeTR /\ rsrc[h] # Absent
  BY <1>1, CleanupKeeps
<1>3. n \in Int /\ n \notin held /\ n + 1 \notin held
  BY NextIsFree
<1>4. tpm \in SUBSET TpmHandle
  BY DEF LiveInv, IInv, TypeOK
<1>5. CASE FinishLost \/ FinishTryAgain
  BY <1>2, <1>5, StaysCovered DEF FinishLost, FinishTryAgain, esysVars, appVars
<1>6. CASE FinishTransportError \/ FinishMalformed \/ FinishCorrupt
  BY <1>6 DEF FinishTransportError, FinishMalformed, FinishCorrupt, Failed, CoverOK
<1>7. CASE FinishExhausted \/ FinishTpmError
  <2>1. /\ rsrc' = Close(rsrc, Cleanup) /\ UNCHANGED <<held, dropped, tpm>>
        /\ wire.phase = "response" /\ wire.rc \notin Done
    BY <1>7 DEF FinishExhausted, FinishTpmError, Failed, Responded, Done
  <2>2. \A h \in held : rsrc'[h] = rsrc[h]
    BY <1>2, <2>1 DEF Close
  <2>3. wire.handle \notin tpm
    BY <2>1, NothingCreated DEF LiveInv
  <2> QED
    BY <1>2, <2>1, <2>2, <2>3, StaysCovered
<1>8. CASE FinishResubmits
  <2>1. UNCHANGED <<held, dropped, tpm>> /\ wire.phase = "response" /\ wire.rc \notin Done
    BY <1>8 DEF FinishResubmits, Responded, Done
  <2>2. ASSUME NEW h \in held
        PROVE  rsrc'[h] = rsrc[h]
    <3>1. h \in ObjectTR /\ h \notin Cleanup
      BY <1>2
    <3>2. rsrc'[h] = IF state' # "SENT" /\ h \in Cleanup THEN Absent ELSE rsrc[h]
      BY <1>8, <3>1, AsyncNodes DEF FinishResubmits, Resubmitted
    <3> QED
      BY <3>1, <3>2
  <2>3. wire.handle \notin tpm
    BY <2>1, NothingCreated DEF LiveInv
  <2> QED
    BY <1>2, <2>1, <2>2, <2>3, StaysCovered
<1>9. CASE FinishCreates
  <2> SUFFICES ASSUME state' # "INTERNALERROR", NEW t \in tpm \ Persistents
               PROVE  t \in dropped' \/ \E h \in held' : rsrc'[h] = t
    BY <1>9 DEF CoverOK, FinishCreates, Succeeded
  <2>1. /\ rsrc' = Alloc(rsrc, n, wire.handle) /\ held' = held \cup {n}
        /\ dropped' = dropped \ {wire.handle}
    BY <1>9 DEF FinishCreates
  <2>2. n \in NodeTR /\ DOMAIN rsrc = NodeTR
    BY <1>1, <1>9, PendingFacts, BurntBounds, NextNumber
    DEF FinishCreates, LiveInv, NodeTR, IInv, TypeOK
  <2>3. CASE t = wire.handle
    BY <2>1, <2>2, <2>3 DEF Alloc
  <2>4. CASE t # wire.handle
    <3>1. t \in dropped \/ \E h \in held : rsrc[h] = t
      BY <1>2, <2>4 DEF CoverOK
    <3>2. \A h \in held : rsrc'[h] = rsrc[h]
      BY <1>3, <2>1 DEF Alloc
    <3> QED
      BY <2>1, <2>4, <3>1, <3>2
  <2> QED
    BY <2>3, <2>4
<1>10. CASE FinishEvicts
  <2>1. /\ wire.phase = "response" /\ Profile[call.cmd].evicts
        /\ tpm' = tpm /\ dropped' = dropped
    BY <1>10 DEF FinishEvicts, Succeeded, Responded
  <2>2. wire.handle = Blank
    BY <1>1, <2>1 DEF ResendOK, AnswerOK
  <2>3. wire.handle \notin tpm
    BY <1>4, <2>2, ContextAssumption
  <2>4. ASSUME state' # "INTERNALERROR", NEW h \in held
        PROVE  h \in held' /\ rsrc'[h] = rsrc[h]
    <3>1. h # n /\ h # n + 1 /\ h \in NodeTR /\ DOMAIN rsrc = NodeTR
      BY <1>2, <1>3 DEF LiveInv, IInv, TypeOK
    <3>2. \/ rsrc' = Alloc(rsrc, n, Blank) /\ held' = held
          \/ /\ rsrc' = Alloc(Alloc(rsrc, n, Blank), n + 1, in.param)
             /\ held' = held \cup {n + 1}
      BY <1>10, <2>4 DEF FinishEvicts
    <3>3. CASE rsrc' = Alloc(rsrc, n, Blank) /\ held' = held
      BY <3>1, <3>3 DEF Alloc
    <3>4. CASE /\ rsrc' = Alloc(Alloc(rsrc, n, Blank), n + 1, in.param)
               /\ held' = held \cup {n + 1}
      BY <3>1, <3>4 DEF Alloc
    <3> QED
      BY <3>2, <3>3, <3>4
  <2> QED
    BY <1>2, <2>1, <2>3, <2>4, StaysCovered DEF CoverOK
<1>11. CASE FinishOther
  <2> DEFINE gone == Closing(call.cmd, in.args)
  <2> SUFFICES ASSUME state' # "INTERNALERROR", NEW t \in tpm \ Persistents
               PROVE  t \in dropped' \/ \E h \in held' : rsrc'[h] = t
    BY <1>11 DEF CoverOK, FinishOther, Succeeded
  <2>1. /\ rsrc' = Close(rsrc, gone) /\ held' = (held \ gone) \cup Cleanup
        /\ dropped' = dropped \ { rsrc[h] : h \in Cleanup }
        /\ wire.phase = "response" /\ wire.rc = "success" /\ ~Profile[call.cmd].creates
    BY <1>11 DEF FinishOther, Succeeded, Responded
  <2>2. wire.handle # t
    <3>1. wire.handle = Blank
      BY <1>1, <2>1 DEF ResendOK, AnswerOK
    <3> QED
      BY <1>4, <3>1, ContextAssumption
  <2>3. \A h \in Cleanup : h \in NodeTR /\ h \notin gone
    BY <1>1, PendingFacts DEF Cleanup, Closing, LiveInv, NodeTR
  <2>4. CASE \E h \in Cleanup : rsrc[h] = t
    BY <2>1, <2>3, <2>4 DEF Close
  <2>5. CASE t \in dropped /\ ~\E h \in Cleanup : rsrc[h] = t
    BY <2>1, <2>5
  <2>6. ASSUME NEW h \in held, rsrc[h] = t
        PROVE  h \in held' /\ rsrc'[h] = t
    <3>1. h \notin gone
      BY <1>1, <2>1, <2>6, ClosedIsGone
    <3> QED
      BY <1>2, <2>1, <2>6, <3>1 DEF Close
  <2>7. t \in dropped \/ \E h \in held : rsrc[h] = t
    BY <1>2, <2>2 DEF CoverOK
  <2> QED
    BY <2>4, <2>5, <2>6, <2>7
<1> QED
  BY <1>5, <1>6, <1>7, <1>8, <1>9, <1>10, <1>11 DEF Finish

(* Every step leaves every object in the TPM to somebody. *)
LEMMA CoverStep ==
  ASSUME CycleInv, [Next]_vars
  PROVE  CoverOK'
<1> USE DEF CycleInv
<1>1. CASE state = "INTERNALERROR" /\ state' = state
  BY <1>1 DEF CoverOK
<1>2. CASE UNCHANGED <<state, tpm, dropped, held, rsrc, wire>>
  BY <1>2 DEF CoverOK
<1>3. ASSUME NEW rc \in RC, TpmAnswers(rc)
      PROVE  CoverOK'
  <2>1. /\ UNCHANGED <<state, held, rsrc, dropped>> /\ wire.phase = "command"
    BY <1>3 DEF TpmAnswers, esysVars, appVars
  <2>2. CASE rc \notin {"success", "corrupt", "malformed"}
    BY <1>3, <2>1, <2>2 DEF TpmAnswers, CoverOK
  <2>3. CASE rc \in {"success", "corrupt", "malformed"}
    <3>1. PICK t \in Yielded(wire.req) :
            /\ Executed(wire.req, t) /\ wire' = Traffic("response", wire.req, rc, t)
      BY <1>3, <2>3 DEF TpmAnswers
    <3>2. wire'.phase = "response" /\ wire'.handle = t
      BY <3>1 DEF Traffic
    <3>3. tpm' \subseteq tpm \cup {t} \cup Persistents
      <4>1. wire.req.cmd \in Commands
            /\ (Profile[wire.req.cmd].evicts => wire.req.param \in Persistents)
        BY <2>1, OnItsWay DEF LiveInv, IInv, StoredOK, Carries, Evicting
      <4>2. CASE Profile[wire.req.cmd].evicts
        BY <3>1, <4>1, <4>2 DEF Executed
      <4>3. CASE ~Profile[wire.req.cmd].evicts
        BY <3>1, <4>3 DEF Executed
      <4> QED
        BY <4>2, <4>3
    <3> QED
      BY <2>1, <3>2, <3>3 DEF CoverOK
  <2> QED
    BY <2>2, <2>3
<1>4. ASSUME NEW h \in ObjectTR, TR_Close(h)
      PROVE  CoverOK'
  <2>1. /\ UNCHANGED <<state, tpm, wire>> /\ held' = held \ {h}
        /\ dropped' = dropped \cup ({rsrc[h]} \cap TpmHandle)
        /\ tpm \in SUBSET TpmHandle
    BY <1>4 DEF TR_Close, LiveInv, IInv, TypeOK
  <2>2. \A x \in held \ {h} : rsrc'[x] = rsrc[x]
    BY <1>4, Numbers DEF TR_Close, Close, LiveInv
  <2> QED
    BY <2>1, <2>2 DEF CoverOK
<1>5. ASSUME NEW t, TR_Deserialize(t)
      PROVE  CoverOK'
  <2>1. \A h \in held : h \in held' /\ rsrc'[h] = rsrc[h]
    BY <1>5, NextIsFree DEF TR_Deserialize, Alloc
  <2>2. UNCHANGED <<state, tpm, wire, dropped>>
    BY <1>5 DEF TR_Deserialize
  <2> QED
    BY <2>1, <2>2 DEF CoverOK
<1>6. CASE Reinitialize
  BY <1>6 DEF Reinitialize, CoverOK
<1>7. CASE FromTPMPublicRefused
  BY <1>2, <1>7 DEF FromTPMPublicRefused, appVars
<1>8. ASSUME NEW t, SetTimeout(t)
      PROVE  CoverOK'
  BY <1>2, <1>8 DEF SetTimeout, esysVars
<1>9. CASE UNCHANGED vars
  BY <1>2, <1>9 DEF vars, esysVars, appVars
<1> QED
  BY <1>3, <1>4, <1>5, <1>6, <1>7, <1>8, <1>9, CoverStart, CoverFromTPMPublic, CoverFinish
  DEF Next

(* The parts of the invariant hold together. *)
LEMMA CycleInvariant == Spec => []CycleInv
<1>1. Init => ResendOK /\ AnswerOK /\ CoverOK
  <2> SUFFICES ASSUME Init
               PROVE  ResendOK /\ AnswerOK /\ CoverOK
    OBVIOUS
  <2>1. wire.phase = "idle" /\ call = NoCall /\ tpm \subseteq Persistents
    BY QuietType DEF Init
  <2> QED
    BY <2>1 DEF ResendOK, AnswerOK, CoverOK
<1>2. CycleInv /\ [Next]_vars => ResendOK' /\ AnswerOK' /\ CoverOK'
  BY ResendStep, AnswerStepOK, CoverStep DEF CycleInv, LiveInv
<1>3. Spec => []LiveInv
  BY LiveInvariant
<1> QED
  BY <1>1, <1>2, <1>3, PTL DEF Spec, CycleInv

(* As long as the context works, whatever exists in the TPM can be named by the
   application, unless it closed the metadata itself: no response is dropped
   after the TPM created something, and what Finish closes the TPM has removed. *)
THEOREM NothingIsLost == Spec => []NothingLost
<1>1. CycleInv => NothingLost
  BY DEF CycleInv, CoverOK, NothingLost, LiveInv, IInv, LayersAgree
<1> QED
  BY <1>1, CycleInvariant, PTL
-----------------------------------------------------------------------------
(* Commands are carried out one at a time.                                  *)

(* A context that becomes unusable breaks the cycle. *)
LEMMA CycleFree ==
  ASSUME state \in {"INIT", "SENT"}, state' = "INTERNALERROR"
  PROVE  Cycle!Break
BY DEF Cycle!Break, Cycle!Free

(* One that is free again has delivered the pending command, *)
LEMMA CycleDeliver ==
  ASSUME state = "SENT", state' = "INIT"
  PROVE  Cycle!Deliver
BY DEF Cycle!Deliver, Cycle!Free

(* one that stays as it is goes on with it, *)
LEMMA CycleStutter ==
  ASSUME state' = state,
         state = "SENT" => wire'.req = wire.req /\ submissionCount' = submissionCount
  PROVE  UNCHANGED Cycle!vars
BY DEF Cycle!vars

(* and a new one begins anew. *)
LEMMA CycleRenew ==
  ASSUME state' = "INIT"
  PROVE  Cycle!Renew
BY DEF Cycle!Renew, Cycle!Free

(* A command that is started. *)
LEMMA CycleSubmit ==
  ASSUME IInv', state = "INIT", NEW c, NEW args, NEW p, NEW s, NEW R,
         AsyncSent(c, args, p, 1, s, R)
  PROVE  Cycle!Submit
<1>1. state' = "SENT" /\ submissionCount' = 1 /\ wire'.phase = "command"
  BY DEF AsyncSent, Transmitted, Traffic
<1>2. wire'.req \in Request
  <2>1. wire'.req \in Request \cup {NoRequest} /\ wire'.req.cmd \in Commands
    BY <1>1 DEF IInv, TypeOK, StoredOK, Carries
  <2> QED
    BY <2>1, ContextAssumption DEF NoRequest
<1> QED
  BY <1>1, <1>2 DEF Cycle!Submit

(* What is sent again is what was sent, unless a value of it was overwritten. *)
LEMMA SentAgain ==
  ASSUME IInv, ResendOK, call # NoCall, ~Overwrites(call.cmd), NEW n, NEW s,
         AsyncSent(call.cmd, in.args, in.param, n, s, rsrc)
  PROVE  wire'.req = wire.req
<1> DEFINE H == wire.req.handles
           F == Resolve(rsrc, in.args)
<1>1. state = "SENT" /\ wire.phase # "idle"
  BY PendingFacts DEF IInv, LayersAgree
<1>2. /\ wire.req \in Request /\ H \in Seq(Handles)
  BY <1>1, OnItsWay
<1>3. Len(H) = Len(in.args) /\ Len(in.args) \in Nat
  BY PendingFacts, LenProperties DEF ResendOK
<1>4. ASSUME NEW i \in 1..Len(in.args)
      PROVE  F[i] = H[i]
  <2>1. Designates(in.args[i], H[i])
    BY <1>4 DEF ResendOK
  <2>2. in.args[i] \in ObjectTR => rsrc[in.args[i]] # Absent
    BY <1>4 DEF AsyncSent, Transmitted, Resolvable, Names
  <2> QED
    BY <1>4, <2>1, <2>2 DEF Resolve, Designates
<1>5. F = H
  <2>1. DOMAIN F = 1..Len(in.args) /\ F = [i \in 1..Len(in.args) |-> F[i]]
    BY DEF Resolve
  <2>2. DOMAIN H = 1..Len(in.args) /\ H = [i \in 1..Len(in.args) |-> H[i]]
    BY <1>2, <1>3, LenProperties, SeqDef
  <2> HIDE DEF F, H
  <2> QED
    BY <1>4, <2>1, <2>2
<1>6. wire'.req = [cmd |-> call.cmd, handles |-> F, param |-> in.param]
  BY DEF AsyncSent, Transmitted, Traffic
<1>7. wire.req.cmd = call.cmd /\ wire.req.param = in.param
  BY DEF ResendOK
<1> QED
  BY <1>2, <1>5, <1>6, <1>7 DEF Request

(* A resubmission is a retry, or the end of the command. *)
LEMMA CycleResubmits ==
  ASSUME IInv, ResendOK, FinishResubmits, \A c \in Commands : ~Overwrites(c)
  PROVE  Cycle!Next
<1> DEFINE n == submissionCount + 1
           s == "RECEIVE_RESPONSE"
<1>1. /\ state = "SENT" /\ call # NoCall /\ submissionCount < MaxSubmissions
      /\ ~Overwrites(call.cmd)
  BY PendingFacts DEF FinishResubmits, Responded, Polled
<1>2. CASE AsyncSent(call.cmd, in.args, in.param, n, s, rsrc)
  <2>1. wire'.req = wire.req
    BY <1>1, <1>2, SentAgain
  <2>2. state' = "SENT" /\ submissionCount' = n
    BY <1>2 DEF AsyncSent, Transmitted
  <2>3. Cycle!Retry
    BY <1>1, <2>1, <2>2 DEF Cycle!Retry
  <2> QED
    BY <2>3 DEF Cycle!Next
<1>3. CASE ~AsyncSent(call.cmd, in.args, in.param, n, s, rsrc)
  <2>1. state' \in {"INIT", "INTERNALERROR"}
    BY <1>3 DEF FinishResubmits, Resubmitted, AsyncUnsalted, AsyncUnprepared, AsyncUnsent
  <2> QED
    BY <1>1, <2>1, CycleFree, CycleDeliver DEF Cycle!Next
<1> QED
  BY <1>2, <1>3

(* Every step of the context is a step of the cycle, or none. *)
LEMMA CycleStep ==
  ASSUME CycleInv, IInv', [Next]_vars, \A c \in Commands : ~Overwrites(c)
  PROVE  [Cycle!Next]_Cycle!vars
<1> USE DEF CycleInv, LiveInv
<1>1. ASSUME NEW c, NEW args, NEW p, NEW one, Start(c, args, p, one)
      PROVE  [Cycle!Next]_Cycle!vars
  <2>1. state = "INIT"
    BY <1>1 DEF Start, Idle
  <2>2. CASE AsyncSent(c, args, p, 1, previousStage, rsrc)
    BY <2>1, <2>2, CycleSubmit DEF Cycle!Next
  <2>3. CASE ~AsyncSent(c, args, p, 1, previousStage, rsrc)
    <3>1. state' \in {"INIT", "INTERNALERROR"}
      BY <1>1, <2>3 DEF Start, AsyncInfeasible, AsyncUnsalted, AsyncUnprepared, AsyncUnsent
    <3> QED
      BY <2>1, <3>1, CycleFree, CycleStutter DEF Cycle!Next
  <2> QED
    BY <2>2, <2>3
<1>2. ASSUME NEW c, NEW t, NEW one, FromTPMPublic(c, t, one)
      PROVE  [Cycle!Next]_Cycle!vars
  <2> DEFINE h == esys_handle_cnt
             R == Alloc(rsrc, h, t)
  <2>1. state = "INIT"
    BY <1>2 DEF FromTPMPublic, Idle
  <2>2. CASE AsyncSent(c, <<h>>, Blank, 1, previousStage, R)
    BY <2>1, <2>2, CycleSubmit DEF Cycle!Next
  <2>3. CASE ~AsyncSent(c, <<h>>, Blank, 1, previousStage, R)
    <3>1. state' \in {"INIT", "INTERNALERROR"}
      BY <1>2, <2>3 DEF FromTPMPublic, AsyncInfeasible, AsyncUnprepared, AsyncUnsent
    <3> QED
      BY <2>1, <3>1, CycleFree, CycleStutter DEF Cycle!Next
  <2> QED
    BY <2>2, <2>3
<1>3. ASSUME NEW rc, TpmAnswers(rc)
      PROVE  [Cycle!Next]_Cycle!vars
  <2>1. wire'.req = wire.req /\ UNCHANGED <<state, submissionCount>>
    BY <1>3 DEF TpmAnswers, Traffic, esysVars
  <2> QED
    BY <2>1, CycleStutter
<1>4. CASE FinishLost \/ FinishTryAgain
  <2>1. UNCHANGED <<state, submissionCount, wire>>
    BY <1>4 DEF FinishLost, FinishTryAgain, esysVars
  <2> QED
    BY <2>1, CycleStutter
<1>5. CASE FinishResubmits
  BY <1>5, CycleResubmits
<1>6. CASE \/ FinishTransportError \/ FinishMalformed \/ FinishExhausted \/ FinishTpmError
           \/ FinishCorrupt \/ FinishCreates \/ FinishEvicts \/ FinishOther
  <2>1. state = "SENT" /\ state' \in {"INIT", "INTERNALERROR"}
    BY <1>6 DEF FinishTransportError, Unreceived, FinishMalformed, FinishExhausted,
                FinishTpmError, Failed, FinishCorrupt, FinishCreates, FinishEvicts,
                FinishOther, Succeeded, Responded, Polled
  <2> QED
    BY <2>1, CycleFree, CycleDeliver DEF Cycle!Next
<1>7. CASE Reinitialize
  BY <1>7, CycleRenew DEF Reinitialize, Cycle!Next
<1>8. ASSUME NEW x, \/ FromTPMPublicRefused \/ TR_Close(x) \/ TR_Deserialize(x)
                    \/ SetTimeout(x) \/ UNCHANGED vars
      PROVE  [Cycle!Next]_Cycle!vars
  <2>1. UNCHANGED <<state, submissionCount, wire>>
    BY <1>8 DEF FromTPMPublicRefused, TR_Close, TR_Deserialize, SetTimeout, vars, esysVars
  <2> QED
    BY <2>1, CycleStutter
<1> QED
  BY <1>1, <1>2, <1>3, <1>4, <1>5, <1>6, <1>7, <1>8 DEF Next, Finish

(* The context implements the cycle of module EsysCommandCycle: one command at a
   time, retried unchanged and a bounded number of times, even if nodes it
   names were closed meanwhile.  A FromTPMPublic called meanwhile changes that for
   the commands whose stored parameters begin with a value or a pointer. *)
THEOREM CyclesCommands ==
  ASSUME ~Overlap \/ \A c \in Commands : ~Profile[c].value
  PROVE  Spec => CommandCycle
<1>1. Init => Cycle!Init
  BY DEF Init, Cycle!Init
<1>2. CycleInv /\ IInv' /\ [Next]_vars => [Cycle!Next]_Cycle!vars
  BY CycleStep DEF Overwrites
<1>3. CycleInv => IInv
  BY DEF CycleInv, LiveInv
<1> QED
  BY <1>1, <1>2, <1>3, CycleInvariant, PTL DEF Spec, CommandCycle, Cycle!Spec

(* Only a resubmission counts up while a command is pending. *)
LEMMA ResentStep ==
  ASSUME IInv, ResendOK, [Next]_vars, state = "SENT", state' = "SENT",
         submissionCount' # submissionCount, ~Profile[call.cmd].value
  PROVE  wire'.req = wire.req
<1>1. FinishResubmits
  BY DEF Next, Start, FromTPMPublic, Idle, FromTPMPublicRefused, TpmAnswers, Finish,
         FinishLost, FinishTryAgain, FinishTransportError, FinishMalformed,
         FinishExhausted, FinishTpmError, Failed, FinishCorrupt, FinishCreates,
         FinishEvicts, FinishOther, Succeeded, TR_Close, TR_Deserialize, SetTimeout,
         Reinitialize, vars, esysVars
<1>2. /\ call # NoCall
      /\ AsyncSent(call.cmd, in.args, in.param, submissionCount + 1, "RECEIVE_RESPONSE", rsrc)
  BY <1>1 DEF FinishResubmits, Resubmitted, Responded, Polled, AsyncUnsalted,
              AsyncUnprepared, AsyncUnsent
<1> QED
  BY <1>2, SentAgain DEF Overwrites

(* A retry never names another object, and never carries another parameter
   unless the first member of what is stored is a value or a pointer, whatever is
   called while the command is pending. *)
THEOREM ResendsTheSame == Spec => SameCommandResent
<1>1. CycleInv /\ [Next]_vars =>
        [ /\ state = "SENT" /\ state' = "SENT" /\ submissionCount' # submissionCount
          /\ ~Profile[call.cmd].value
          => wire'.req = wire.req ]_vars
  BY ResentStep DEF CycleInv, LiveInv
<1> QED
  BY <1>1, CycleInvariant, PTL DEF Spec, SameCommandResent
-----------------------------------------------------------------------------
(* No node is left behind.                                                  *)

(* A context that is free owns nothing but what the application holds. *)
LEMMA OrphanStart ==
  ASSUME LiveInv, NoOrphans, NEW c, NEW args, NEW p, NEW one, Start(c, args, p, one)
  PROVE  NoOrphans'
<1>1. Untouched(rsrc, rsrc')
  BY AsyncUntouched DEF Start
<1>2. state # "INTERNALERROR" /\ ~call.wrapped /\ held' = held
  BY DEF Start, Idle, NoCall
<1> QED
  BY <1>1, <1>2 DEF NoOrphans, Untouched

(* The node made for a public area is the one in esys_handle, or closed again. *)
LEMMA OrphanFromTPMPublic ==
  ASSUME LiveInv, NoOrphans, NEW c, NEW t, NEW one, FromTPMPublic(c, t, one)
  PROVE  NoOrphans'
<1> DEFINE n == esys_handle_cnt
           R == Alloc(rsrc, n, t)
<1> SUFFICES ASSUME state' # "INTERNALERROR", NEW x \in ObjectTR, rsrc'[x] # Absent
             PROVE  x \in held' \/ (call'.wrapped /\ x = esys_handle')
  BY DEF NoOrphans
<1>1. state # "INTERNALERROR" /\ ~call.wrapped /\ held' = held /\ esys_handle' = n
  BY DEF FromTPMPublic, Idle, NoCall
<1>2. Untouched(R, rsrc')
  BY AsyncUntouched DEF FromTPMPublic
<1>3. CASE x # n
  BY <1>1, <1>2, <1>3 DEF Untouched, Alloc, NoOrphans
<1>4. CASE x = n
  <2>1. CASE AsyncInfeasible(c, R, {n})
    BY <1>4, <2>1 DEF AsyncInfeasible, Close, NodeTR
  <2>2. CASE AsyncUnprepared(c, <<n>>, Blank, 1, previousStage, R, {n})
    BY <1>4, <2>2 DEF AsyncUnprepared, Close, NodeTR
  <2>3. CASE AsyncUnsent(c, <<n>>, Blank, 1, previousStage, R, {n})
    BY <2>3 DEF AsyncUnsent
  <2>4. CASE Started(c, <<n>>, Blank, TRUE, one)
    BY <1>1, <1>4, <2>4 DEF Started
  <2> QED
    BY <2>1, <2>2, <2>3, <2>4 DEF FromTPMPublic
<1> QED
  BY <1>3, <1>4

(* Finish gives its node back, hands it out, or leaves the context unusable. *)
LEMMA OrphanFinish ==
  ASSUME LiveInv, NoOrphans, Finish, ~FinishEvicts
  PROVE  NoOrphans'
<1> SUFFICES ASSUME state' # "INTERNALERROR", NEW x \in ObjectTR, rsrc'[x] # Absent
             PROVE  x \in held' \/ (call'.wrapped /\ x = esys_handle')
  BY DEF NoOrphans
<1>1. call # NoCall /\ x \in NodeTR
  BY DEF Finish, FinishLost, FinishTryAgain, FinishTransportError, Unreceived,
         FinishMalformed, FinishExhausted, FinishResubmits, FinishTpmError, FinishCorrupt,
         FinishCreates, FinishEvicts, FinishOther, Succeeded, Responded, Polled, NoCall,
         NodeTR
<1>2. state = "SENT"
  BY <1>1, PendingFacts DEF LiveInv
<1>3. rsrc[x] # Absent => x \in held \/ (call.wrapped /\ x = esys_handle)
  BY <1>2 DEF NoOrphans
<1>4. Cleanup = IF call.wrapped THEN {esys_handle} ELSE {}
  BY DEF Cleanup
<1>5. CASE FinishLost
  BY <1>3, <1>5 DEF FinishLost, esysVars
<1>6. CASE FinishTryAgain
  BY <1>3, <1>6 DEF FinishTryAgain, appVars
<1>7. CASE FinishTransportError \/ FinishMalformed \/ FinishExhausted \/ FinishTpmError
  <2>1. rsrc' = Close(rsrc, Cleanup) /\ held' = held
    BY <1>7 DEF FinishTransportError, FinishMalformed, FinishExhausted, FinishTpmError, Failed
  <2>2. x \notin Cleanup /\ rsrc[x] # Absent
    BY <1>1, <2>1 DEF Close
  <2> QED
    BY <1>3, <1>4, <2>1, <2>2
<1>8. CASE FinishResubmits
  <2>1. held' = held /\ esys_handle' = esys_handle
    BY <1>8 DEF FinishResubmits
  <2>2. rsrc'[x] = IF state' # "SENT" /\ x \in Cleanup THEN Absent ELSE rsrc[x]
    BY <1>8, AsyncNodes DEF FinishResubmits, Resubmitted
  <2>3. state' = "SENT" => call'.wrapped = call.wrapped
    <3>1. state' = "SENT" => call' = [call EXCEPT !.sent = @ + 1]
      BY <1>8 DEF FinishResubmits, Resubmitted, AsyncUnsalted, AsyncUnprepared, AsyncUnsent
    <3> QED
      BY <1>1, <3>1, PendingFacts DEF LiveInv, Call
  <2> QED
    BY <1>3, <1>4, <2>1, <2>2, <2>3
<1>9. CASE FinishCorrupt
  BY <1>9 DEF FinishCorrupt
<1>10. CASE FinishCreates
  <2>1. /\ rsrc' = Alloc(rsrc, esys_handle_cnt, wire.handle)
        /\ held' = held \cup {esys_handle_cnt} /\ Profile[call.cmd].creates
    BY <1>10 DEF FinishCreates
  <2>2. ~call.wrapped
    BY <1>1, <2>1, PendingFacts DEF LiveInv
  <2> QED
    BY <1>3, <2>1, <2>2 DEF Alloc
<1>11. CASE FinishOther
  <2>1. /\ rsrc' = Close(rsrc, Closing(call.cmd, in.args))
        /\ held' = (held \ Closing(call.cmd, in.args)) \cup Cleanup
    BY <1>11 DEF FinishOther
  <2> QED
    BY <1>1, <1>3, <1>4, <2>1 DEF Close
<1> QED
  BY <1>5, <1>6, <1>7, <1>8, <1>9, <1>10, <1>11 DEF Finish

(* As long as the context works, every node of an object belongs to the
   application or to the pending FromTPMPublic: however often Finish was called
   for a create, the nodes it made meanwhile are gone.  EvictControl leaves a
   node behind, and so does a FromTPMPublic that overwrites esys_handle. *)
THEOREM NoNodeIsLeft ==
  ASSUME ~Overlap, \A c \in Commands : ~Profile[c].evicts
  PROVE  Spec => []NoOrphans
<1>1. Init => NoOrphans
  BY DEF Init, NoOrphans, NodeTR
<1>2. LiveInv /\ NoOrphans /\ [Next]_vars => NoOrphans'
  <2> SUFFICES ASSUME LiveInv, NoOrphans, [Next]_vars
               PROVE  NoOrphans'
    OBVIOUS
  <2>1. CASE UNCHANGED <<state, rsrc, held, call, esys_handle>>
    BY <2>1 DEF NoOrphans
  <2>2. ASSUME NEW rc, TpmAnswers(rc)
        PROVE  NoOrphans'
    BY <2>1, <2>2 DEF TpmAnswers, esysVars, appVars
  <2>3. ~FinishEvicts
    <3>1. FinishEvicts => call # NoCall /\ Profile[call.cmd].evicts
      BY DEF FinishEvicts, Succeeded, Responded, Polled
    <3> QED
      BY <3>1, PendingFacts DEF LiveInv
  <2>4. ASSUME NEW h \in ObjectTR, TR_Close(h)
        PROVE  NoOrphans'
    <3>1. UNCHANGED <<state, call, esys_handle>> /\ held' = held \ {h}
          /\ rsrc' = Close(rsrc, {h})
      BY <2>4 DEF TR_Close
    <3> QED
      BY <3>1 DEF NoOrphans, Close, NodeTR
  <2>5. ASSUME NEW t, TR_Deserialize(t)
        PROVE  NoOrphans'
    <3>1. /\ UNCHANGED <<state, call, esys_handle>>
          /\ held' = held \cup {esys_handle_cnt}
          /\ \A x \in ObjectTR : x # esys_handle_cnt => rsrc'[x] = rsrc[x]
      BY <2>5 DEF TR_Deserialize, Alloc
    <3> QED
      BY <3>1 DEF NoOrphans
  <2>6. ASSUME NEW t, SetTimeout(t)
        PROVE  NoOrphans'
    BY <2>1, <2>6 DEF SetTimeout, esysVars
  <2>7. CASE Reinitialize
    BY <2>7 DEF Reinitialize, NoOrphans, NodeTR
  <2>8. CASE UNCHANGED vars
    BY <2>1, <2>8 DEF vars, esysVars, appVars
  <2>9. ~FromTPMPublicRefused
    BY DEF FromTPMPublicRefused
  <2> QED
    BY <2>2, <2>3, <2>4, <2>5, <2>6, <2>7, <2>8, <2>9, OrphanStart, OrphanFromTPMPublic,
       OrphanFinish DEF Next
<1> QED
  BY <1>1, <1>2, LiveInvariant, PTL DEF Spec
-----------------------------------------------------------------------------
(* What was executed is delivered.                                          *)

(* The parameters in the union are those the application gave. *)
ArgsOK == call # NoCall => /\ in.args = call.args
                           /\ call.wrapped => in.args = <<esys_handle>>

(* Nothing but a refused FromTPMPublic writes them in between. *)
LEMMA ArgsStep ==
  ASSUME IInv, ArgsOK, ~Overlap, [Next]_vars
  PROVE  ArgsOK'
<1>1. CASE call' = NoCall
  BY <1>1 DEF ArgsOK
<1>2. CASE UNCHANGED <<in, call, esys_handle>>
  BY <1>2 DEF ArgsOK
<1>3. ASSUME NEW c, NEW args, NEW p, NEW one, Start(c, args, p, one)
      PROVE  ArgsOK'
  <2>1. CASE UNCHANGED <<call, timeout>>
    BY <1>1, <1>3, <2>1 DEF Start, Idle
  <2>2. CASE /\ AsyncSent(c, args, p, 1, previousStage, rsrc)
             /\ Started(c, args, p, FALSE, one)
    BY <2>2, SentType DEF Started, ArgsOK
  <2> QED
    BY <1>3, <2>1, <2>2 DEF Start
<1>4. ASSUME NEW c, NEW t, NEW one, FromTPMPublic(c, t, one)
      PROVE  ArgsOK'
  <2> DEFINE h == esys_handle_cnt
  <2>1. CASE UNCHANGED <<call, timeout>>
    BY <1>1, <1>4, <2>1 DEF FromTPMPublic, Idle
  <2>2. CASE /\ AsyncSent(c, <<h>>, Blank, 1, previousStage, Alloc(rsrc, h, t))
             /\ Started(c, <<h>>, Blank, TRUE, one)
    <3>1. in'.args = <<h>> /\ call'.args = <<h>> /\ esys_handle' = h
      BY <1>4, <2>2, SentType DEF Started, FromTPMPublic
    <3> QED
      BY <3>1 DEF ArgsOK
  <2> QED
    BY <1>4, <2>1, <2>2 DEF FromTPMPublic
<1>5. CASE FinishResubmits
  <2>1. CASE Returned
    BY <1>1, <2>1 DEF Returned
  <2>2. CASE ~Returned
    <3>1. /\ AsyncSent(call.cmd, in.args, in.param, submissionCount + 1,
                       "RECEIVE_RESPONSE", rsrc)
          /\ call' = [call EXCEPT !.sent = @ + 1] /\ call # NoCall
          /\ esys_handle' = esys_handle
      BY <1>5, <2>2 DEF FinishResubmits, Resubmitted, Responded, Polled
    <3>2. in'.args = in.args
      BY <3>1, SentType
    <3>3. call'.args = call.args /\ call'.wrapped = call.wrapped
      BY <3>1, PendingFacts DEF Call
    <3> QED
      BY <3>1, <3>2, <3>3 DEF ArgsOK
  <2> QED
    BY <2>1, <2>2
<1>6. CASE FinishTryAgain
  BY <1>2, <1>6 DEF FinishTryAgain, appVars
<1>7. CASE \/ FinishLost \/ FinishTransportError \/ FinishMalformed \/ FinishExhausted
           \/ FinishTpmError \/ FinishCorrupt \/ FinishCreates \/ FinishEvicts \/ FinishOther
  BY <1>1, <1>7
  DEF FinishLost, FinishTransportError, FinishMalformed, FinishExhausted, FinishTpmError,
      Failed, FinishCorrupt, FinishCreates, FinishEvicts, FinishOther, Succeeded, Returned
<1>8. ASSUME NEW x, \/ TpmAnswers(x) \/ TR_Close(x) \/ TR_Deserialize(x) \/ SetTimeout(x)
                    \/ UNCHANGED vars
      PROVE  ArgsOK'
  BY <1>2, <1>8
  DEF TpmAnswers, TR_Close, TR_Deserialize, SetTimeout, vars, esysVars, appVars
<1>9. CASE Reinitialize
  BY <1>1, <1>9 DEF Reinitialize
<1>10. ~FromTPMPublicRefused
  BY DEF FromTPMPublicRefused
<1> QED
  BY <1>3, <1>4, <1>5, <1>6, <1>7, <1>8, <1>9, <1>10 DEF Next, Finish

(* The nodes that Finish looks up are there. *)
LEMMA AllFound ==
  ASSUME LiveInv, ArgsOK, call # NoCall, Polled,
         \A i \in 1..Len(call.args) :
           call.wrapped \/ call.args[i] \in held \cup Globals \cup {None}
  PROVE  /\ Found(call.cmd, in.args)
         /\ \A i \in 1..Len(in.args) : Names(rsrc, in.args[i])
<1>1. in.args = call.args /\ (call.wrapped => in.args = <<esys_handle>>)
  BY DEF ArgsOK
<1>2. state # "INTERNALERROR" /\ Profile[call.cmd].finds \subseteq 1..Len(in.args)
  BY PendingFacts, ContextAssumption DEF LiveInv
<1>3. ASSUME NEW i \in 1..Len(in.args)
      PROVE  Names(rsrc, in.args[i])
  <2>1. CASE call.wrapped
    BY <1>1, <2>1 DEF Polled, Names
  <2>2. CASE ~call.wrapped
    <3>1. in.args[i] \in held \cup Globals \cup {None}
      BY <1>1, <2>2
    <3> QED
      BY <1>2, <3>1, Numbers DEF Names, LiveInv, HeldIsLive
  <2> QED
    BY <2>1, <2>2
<1> QED
  BY <1>2, <1>3 DEF Found, FoundAgain

(* A successful response to EvictControl is one about an object. *)
LEMMA EvictsObject ==
  ASSUME IInv, ResendOK, AnswerOK, call # NoCall, wire.phase = "response",
         wire.rc = "success", Profile[call.cmd].evicts
  PROVE  2 \in 1..Len(in.args) /\ in.args[2] \in ObjectTR
<1>1. 2 \in 1..Len(in.args)
  BY PendingFacts, ContextAssumption
<1>2. wire.req.handles[2] # Permanent
  BY DEF AnswerOK, ResendOK
<1>3. Designates(in.args[2], wire.req.handles[2])
  BY <1>1 DEF ResendOK
<1> QED
  BY <1>1, <1>2, <1>3 DEF Designates

(* What a successful response leaves behind. *)
LEMMA DeliverStep ==
  ASSUME CycleInv, ArgsOK, \A c \in Commands : ~Profile[c].salts, [Next]_vars,
         wire.phase = "response", wire.rc = "success", wire'.phase = "idle",
         state = "SENT", call # NoCall,
         \A i \in 1..Len(call.args) :
           call.wrapped \/ call.args[i] \in held \cup Globals \cup {None}
  PROVE  state' = "INIT"
<1> USE DEF CycleInv
<1>1. call.cmd \in Commands
  BY PendingFacts DEF LiveInv
<1>2. FinishCreates \/ FinishEvicts \/ FinishOther
  BY DEF Next, Start, FromTPMPublic, Idle, FromTPMPublicRefused, TpmAnswers, Finish,
         FinishLost, FinishTryAgain, FinishTransportError, Unreceived, FinishMalformed,
         FinishExhausted, FinishResubmits, FinishTpmError, FinishCorrupt, Responded,
         TR_Close, TR_Deserialize, SetTimeout, Reinitialize, vars
<1>3. Polled
  BY <1>2 DEF FinishCreates, FinishEvicts, FinishOther, Succeeded, Responded
<1>4. /\ Found(call.cmd, in.args)
      /\ \A i \in 1..Len(in.args) : Names(rsrc, in.args[i])
  BY <1>3, AllFound
<1>5. CASE FinishCreates
  <2>1. ~Secretless(call.cmd, in.args)
    BY <1>1 DEF Secretless, KeyDerived
  <2> QED
    BY <1>4, <1>5, <2>1 DEF FinishCreates
<1>6. CASE FinishOther
  BY <1>4, <1>6 DEF FinishOther
<1>7. CASE FinishEvicts
  <2>1. 2 \in 1..Len(in.args) /\ in.args[2] \in ObjectTR
    BY <1>7, EvictsObject DEF FinishEvicts, LiveInv
  <2>2. in.args[2] # None /\ Names(rsrc, in.args[2])
    BY <1>4, <2>1, Numbers DEF LiveInv
  <2> QED
    BY <1>7, <2>2 DEF FinishEvicts
<1> QED
  BY <1>2, <1>5, <1>6, <1>7

(* What the TPM has executed the application learns of, as long as it owns the
   objects it named: Finish finds again all the nodes it needs.  A salted
   session may still fail, and a FromTPMPublic may overwrite the parameters. *)
THEOREM SuccessIsDelivered ==
  ASSUME ~Overlap, \A c \in Commands : ~Profile[c].salts
  PROVE  Spec => SuccessDelivered
<1>1. Init => ArgsOK
  BY DEF Init, ArgsOK
<1>2. IInv /\ ArgsOK /\ [Next]_vars => ArgsOK'
  BY ArgsStep
<1>3. CycleInv /\ ArgsOK /\ [Next]_vars =>
        [ /\ wire.phase = "response" /\ wire.rc = "success" /\ wire'.phase = "idle"
          /\ state = "SENT" /\ call # NoCall
          /\ \A i \in 1..Len(call.args) :
               call.wrapped \/ call.args[i] \in held \cup Globals \cup {None}
          => state' = "INIT" ]_vars
  BY DeliverStep
<1>4. CycleInv => IInv
  BY DEF CycleInv, LiveInv
<1> QED
  BY <1>1, <1>2, <1>3, <1>4, CycleInvariant, PTL DEF Spec, SuccessDelivered
=============================================================================
