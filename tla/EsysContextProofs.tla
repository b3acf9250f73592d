------------------------- MODULE EsysContextProofs -------------------------
(***************************************************************************)
(* What holds of EsysContext for every set of commands, every table of     *)
(* their profiles and all bounds: the types of its state, that the layers  *)
(* below agree with it, that the submissions are counted and that no       *)
(* handle number is used twice.                                            *)
(***************************************************************************)
EXTENDS EsysContext, SequenceTheorems, TLAPS

Lists == [NodeTR -> Handles \cup {Absent}]
(* The bounds are numbers. *)
LEMMA Bounds ==
  /\ MinObject \in Nat /\ MaxObject \in Nat /\ MinObject <= MaxObject
  /\ MaxSubmissions \in Nat \ {0}
BY ContextAssumption
(* Room for one more and what is left is room for what is left after one. *)
LEMMA OneMore ==
  ASSUME NEW m \in Int, NEW n \in {m, m + 1}, NEW b \in Nat, NEW x \in Int,
         m + (b + 1) <= x + 1
  PROVE  n + b <= x + 1
OBVIOUS
-----------------------------------------------------------------------------
(* The list of resource nodes.                                              *)

(* Closing nodes (Esys_TR_Close) yields a list again. *)
LEMMA CloseType ==
  ASSUME NEW R \in Lists, NEW gone
  PROVE  Close(R, gone) \in Lists
BY DEF Lists, Close

(* So does making a node (esys_CreateResourceObject). *)
LEMMA AllocType ==
  ASSUME NEW R \in Lists, NEW h, NEW t \in Handles \cup {Absent}
  PROVE  Alloc(R, h, t) \in Lists
BY DEF Lists, Alloc

(* So do the lookups that make the nodes of permanent entities. *)
LEMMA LookUpType ==
  ASSUME NEW R \in Lists, NEW args
  PROVE  LookUp(R, args) \in Lists
BY DEF Lists, LookUp, Handles

(* A function on 1..n is a sequence. *)
LEMMA FunctionIsSeq ==
  ASSUME NEW S, NEW n \in Nat, NEW f \in [1..n -> S]
  PROVE  f \in Seq(S) /\ Len(f) = n
<1>1. f \in Seq(S)
  BY SeqDef
<1> QED
  BY <1>1, LenProperties

(* Parameters that are known resolve to handles of the TPM. *)
LEMMA ResolveType ==
  ASSUME NEW R \in Lists, NEW args \in Seq(ESYS_TR), Resolvable(R, args)
  PROVE  Resolve(R, args) \in Seq(Handles)
<1> DEFINE f == Resolve(R, args)
<1>1. Len(args) \in Nat
  BY LenProperties
<1>2. ASSUME NEW i \in 1..Len(args)
      PROVE  f[i] \in Handles
  BY <1>2 DEF Resolve, Resolvable, Names, Lists, NodeTR, Handles
<1>3. f \in [1..Len(args) -> Handles]
  BY <1>2 DEF Resolve
<1> QED
  BY <1>1, <1>3, FunctionIsSeq
-----------------------------------------------------------------------------
(* The inductive invariant.                                                 *)

(* What is stored of EvictControl names a persistent handle. *)
Evicting(r) == r.cmd \in Commands /\ Profile[r.cmd].evicts => r.param \in Persistents

(* What is on its way between the TCTI and the TPM is a command, or the
   response to one. *)
Carries(w) == Evicting(w.req) /\ (w.phase # "idle" => w.req.cmd \in Commands)

StoredOK == Evicting(in) /\ Carries(wire)

(* While a command is pending, its parameters are those in the union, it has
   been submitted as often as submissionCount says, and the bound leaves it the
   handles it can still take. *)
CallOK ==
  call # NoCall =>
    /\ state = "SENT" /\ submissionCount = call.sent /\ call.sent >= 1
    /\ in.cmd = call.cmd
    /\ Len(in.args) = Profile[call.cmd].objects
    /\ Room(Burnt(call.cmd, call.sent))
    /\ call.wrapped => /\ esys_handle \in ObjectTR /\ ~Profile[call.cmd].creates
                       /\ Profile[call.cmd].closed = {}

IInv == TypeOK /\ CallOK /\ StoredOK /\ LayersAgree

(* The part of the state that the Async functions write. *)
States == {"INIT", "SENT", "RESUBMISSION", "INTERNALERROR"}
Stages == {"INITIALIZE", "PREPARE", "SEND_COMMAND", "RECEIVE_RESPONSE"}
Wires  == [phase : {"idle", "command", "response"},
           req : Request \cup {NoRequest}, rc : RC, handle : Handles]

AsyncOK ==
  /\ state \in States /\ submissionCount \in 0..MaxSubmissions
  /\ in \in Input \cup {NoInput} /\ rsrc \in Lists /\ salt \in BOOLEAN
  /\ previousStage \in Stages /\ tcti \in {"TRANSMIT", "RECEIVE"} /\ wire \in Wires
  /\ StoredOK /\ LayersAgree

(* A context that stores no command. *)
LEMMA NoInputType ==
  /\ Evicting(NoInput) /\ [h \in NodeTR |-> Absent] \in Lists
  /\ MinObject \in MinObject..(MaxObject + 1) /\ 0 \in 0..MaxSubmissions
<1>1. Evicting(NoInput)
  BY ContextAssumption DEF NoInput, Evicting
<1> QED
  BY <1>1, Bounds DEF Lists

(* Between two commands nothing is under way. *)
LEMMA QuietType ==
  Quiet \in Wires /\ Carries(Quiet) /\ Quiet.phase = "idle"
<1>1. Quiet = [phase |-> "idle", req |-> NoRequest, rc |-> "success", handle |-> Blank]
  BY DEF Quiet, Traffic
<1>2. Carries(Quiet)
  BY <1>1, ContextAssumption DEF NoRequest, Carries, Evicting
<1> QED
  BY <1>1, <1>2 DEF Wires, RC, Handles

(* The arguments with which Async is called: by the application, or again by
   Finish, which has just received a response. *)
Arguing(c, args, p, n, s, R) ==
  /\ c \in Commands /\ args \in Seq(ESYS_TR) /\ p \in Parameter
  /\ Profile[c].evicts => p \in Persistents
  /\ n \in 1..MaxSubmissions /\ R \in Lists
  /\ IF n = 1 THEN s = previousStage /\ state = "INIT" ELSE s = "RECEIVE_RESPONSE"

(* Every outcome of an Async function leaves the layers in agreement. *)
LEMMA AsyncType ==
  ASSUME IInv, NEW c, NEW args, NEW p, NEW n, NEW s, NEW R, NEW gone,
         Arguing(c, args, p, n, s, R),
         \/ n = 1 /\ AsyncInfeasible(c, R, gone)
         \/ AsyncUnsalted(c, args, p, n, s, R, gone)
         \/ AsyncUnprepared(c, args, p, n, s, R, gone)
         \/ AsyncUnsent(c, args, p, n, s, R, gone)
         \/ AsyncSent(c, args, p, n, s, R)
  PROVE  AsyncOK'
<1>1. /\ Stored(c, args, p) \in Input /\ Evicting(Stored(c, args, p))
  BY DEF Arguing, Stored, Input, Evicting
<1>2. /\ LookUp(R, args) \in Lists /\ Close(R, gone) \in Lists
      /\ Close(LookUp(R, args), gone) \in Lists
  BY CloseType, LookUpType DEF Arguing
<1>3. Quiet \in Wires /\ Carries(Quiet) /\ Quiet.phase = "idle"
  BY QuietType
<1>4. /\ previousStage \in Stages /\ tcti \in {"TRANSMIT", "RECEIVE"}
      /\ wire \in Wires /\ in \in Input \cup {NoInput} /\ salt \in BOOLEAN
      /\ (salt \/ Salted(c, args)) \in BOOLEAN
  BY DEF IInv, TypeOK, Stages, Wires, Salted
<1>5. n \in 0..MaxSubmissions /\ s \in Stages
  BY <1>4, ContextAssumption DEF Arguing, Stages
<1>6. CASE n = 1 /\ AsyncInfeasible(c, R, gone)
  BY <1>2, <1>4, <1>5, <1>6
  DEF AsyncInfeasible, AsyncOK, IInv, StoredOK, LayersAgree, Arguing, States, Evicting, Carries
<1>7. ASSUME Settled(n)
      PROVE  /\ tcti' \in {"TRANSMIT", "RECEIVE"} /\ wire' \in Wires
             /\ Carries(wire)'
             /\ \/ tcti' = "TRANSMIT" /\ wire'.phase = "idle"
                \/ n = 1 /\ UNCHANGED <<tcti, wire>>
  BY <1>7, <1>3, <1>4 DEF Settled, NoTraffic, IInv, StoredOK, Evicting, Carries
<1>8. CASE AsyncUnsalted(c, args, p, n, s, R, gone)
  BY <1>1, <1>2, <1>4, <1>5, <1>7, <1>8
  DEF AsyncUnsalted, AsyncOK, StoredOK, LayersAgree, States, Evicting, Carries
<1>9. CASE AsyncUnprepared(c, args, p, n, s, R, gone)
  <2>1. /\ state' = "INIT" /\ submissionCount' = n /\ in' = Stored(c, args, p)
        /\ rsrc' = Close(LookUp(R, args), gone) /\ Settled(n)
        /\ previousStage' \in {s, "PREPARE"} /\ salt' \in BOOLEAN
    BY <1>9, <1>4 DEF AsyncUnprepared
  <2>2. s # "SEND_COMMAND" /\ (n = 1 => tcti = "TRANSMIT" /\ wire.phase = "idle")
    BY DEF Arguing, IInv, LayersAgree
  <2> QED
    BY <2>1, <2>2, <1>1, <1>2, <1>5, <1>7
    DEF AsyncOK, StoredOK, LayersAgree, States, Stages, Evicting, Carries
<1>10. CASE AsyncUnsent(c, args, p, n, s, R, gone)
  BY <1>1, <1>2, <1>4, <1>5, <1>7, <1>10
  DEF AsyncUnsent, AsyncOK, StoredOK, LayersAgree, States, Stages, Evicting, Carries
<1>11. CASE AsyncSent(c, args, p, n, s, R)
  <2> DEFINE req == [cmd |-> c, handles |-> Resolve(R, args), param |-> p]
  <2>1. Resolvable(R, args)
    BY <1>11 DEF AsyncSent, Transmitted
  <2>2. req \in Request /\ Evicting(req) /\ req.cmd \in Commands
    BY <2>1, ResolveType DEF Arguing, Request, Evicting
  <2>3. wire' = [phase |-> "command", req |-> req, rc |-> "success", handle |-> Blank]
    BY <1>11 DEF AsyncSent, Transmitted, Traffic
  <2>4. wire' \in Wires /\ wire'.phase = "command" /\ Carries(wire')
    BY <2>2, <2>3 DEF Wires, RC, Handles, Carries
  <2> QED
    BY <2>2, <2>4, <1>1, <1>2, <1>4, <1>5, <1>11
    DEF AsyncSent, Transmitted, AsyncOK, StoredOK, LayersAgree, States, Stages, Evicting
<1> QED
  BY <1>6, <1>8, <1>9, <1>10, <1>11
-----------------------------------------------------------------------------
(* Facts about the pending command.                                         *)

(* The part of the state that the Async functions do not write. *)
RestOK ==
  /\ timeout \in {"block", "poll"}
  /\ esys_handle_cnt \in MinObject..(MaxObject + 1) /\ esys_handle \in ESYS_TR
  /\ tpm \in SUBSET TpmHandle /\ call \in Call \cup {NoCall}
  /\ held \in SUBSET ObjectTR /\ dropped \in SUBSET TpmHandle

(* The invariant in the parts that different calls write. *)
LEMMA Parts == /\ IInv <=> AsyncOK /\ RestOK /\ CallOK
               /\ IInv' <=> AsyncOK' /\ RestOK' /\ CallOK'
BY DEF IInv, TypeOK, AsyncOK, RestOK, States, Stages, Wires, Lists

(* A command that takes handles leaves room for those it still takes. *)
LEMMA BurntBounds ==
  ASSUME NEW c \in Commands, NEW n \in 0..MaxSubmissions
  PROVE  /\ Burnt(c, n) \in Nat
         /\ Profile[c].creates => Burnt(c, n) >= 1
         /\ Profile[c].evicts => Burnt(c, n) >= 2
         /\ n < MaxSubmissions /\ Profile[c].creates => Burnt(c, n + 1) = Burnt(c, n) - 1
         /\ ~Profile[c].creates => Burnt(c, n) = 0 /\ Burnt(c, n + 1) = 0
<1>1. Profile[c].evicts => Profile[c].creates
  BY ContextAssumption
<1> QED
  BY <1>1, ContextAssumption DEF Burnt

(* What the invariant says of the command that is pending. *)
LEMMA PendingFacts ==
  ASSUME IInv, call # NoCall
  PROVE  /\ call \in Call /\ call.cmd \in Commands /\ state = "SENT"
         /\ in \in Input /\ in.cmd = call.cmd /\ in.args \in Seq(ESYS_TR)
         /\ Len(in.args) = Profile[call.cmd].objects /\ in.param \in Parameter
         /\ Profile[call.cmd].evicts => in.param \in Persistents
         /\ call.sent \in 1..MaxSubmissions /\ submissionCount = call.sent
         /\ esys_handle_cnt + Burnt(call.cmd, call.sent) <= MaxObject + 1
         /\ call.wrapped => /\ esys_handle \in ObjectTR /\ ~Profile[call.cmd].creates
                       /\ Profile[call.cmd].closed = {}
<1>1. call \in Call /\ call.cmd \in Commands
  BY DEF IInv, TypeOK, Call
<1>2. in # NoInput
  BY <1>1, ContextAssumption DEF IInv, CallOK, NoInput
<1>3. in \in Input
  BY <1>2 DEF IInv, TypeOK
<1> QED
  BY <1>1, <1>3 DEF IInv, CallOK, TypeOK, Input, StoredOK, Evicting, Room

(* The first number that is free is one of an object, as long as there is room. *)
LEMMA NextNumber ==
  ASSUME IInv, NEW k \in Nat, esys_handle_cnt + k <= MaxObject + 1
  PROVE  /\ esys_handle_cnt \in Int /\ esys_handle_cnt + k \in MinObject..(MaxObject + 1)
         /\ k >= 1 => esys_handle_cnt \in ObjectTR
         /\ k >= 2 => esys_handle_cnt + 1 \in ObjectTR
BY ContextAssumption DEF IInv, TypeOK, ObjectTR

(* Returning restores the timeout that was set before a one-call function. *)
LEMMA ReturnedType ==
  ASSUME IInv, call # NoCall, Returned
  PROVE  /\ timeout' \in {"block", "poll"} /\ call' = NoCall
         /\ call' \in Call \cup {NoCall} /\ CallOK'
<1>1. call.saved \in {"block", "poll"}
  BY PendingFacts DEF Call
<1> QED
  BY <1>1 DEF Returned, CallOK, IInv, TypeOK

(* What one call of Finish takes off the numbers that are left. *)
LEMMA BurnType ==
  ASSUME IInv, call # NoCall, Burn
  PROVE  esys_handle_cnt' \in MinObject..(MaxObject + 1)
<1> DEFINE k == IF Profile[call.cmd].creates THEN 1 ELSE 0
<1>1. k \in Nat /\ k <= Burnt(call.cmd, call.sent) /\ Burnt(call.cmd, call.sent) \in Nat
  BY PendingFacts, BurntBounds
<1>2. esys_handle_cnt \in Int
  BY DEF IInv, TypeOK, ObjectTR
<1>3. esys_handle_cnt + k <= MaxObject + 1
  BY <1>1, <1>2, PendingFacts, ContextAssumption
<1> QED
  BY <1>1, <1>3, NextNumber DEF Burn, Number

(* A Finish that fails. *)
LEMMA FailedType ==
  ASSUME IInv, call # NoCall, NEW s \in {"INIT", "INTERNALERROR"}, Failed(s),
         \/ previousStage' \in Stages \ {"SEND_COMMAND"} /\ NoTraffic
         \/ /\ s = "INTERNALERROR" /\ previousStage' \in Stages
            /\ tcti' \in {"TRANSMIT", "RECEIVE"}
            /\ wire' \in Wires /\ Carries(wire)'
  PROVE  IInv'
<1>1. wire' \in Wires /\ Carries(wire)' /\ tcti' \in {"TRANSMIT", "RECEIVE"}
      /\ previousStage' \in Stages
  BY QuietType DEF NoTraffic, Evicting, Carries
<1>2. rsrc \in Lists /\ in \in Input \cup {NoInput} /\ salt \in BOOLEAN
      /\ submissionCount \in 0..MaxSubmissions /\ Evicting(in)
  BY DEF IInv, TypeOK, Lists, StoredOK
<1>3. AsyncOK'
  BY <1>1, <1>2, CloseType, QuietType
  DEF AsyncOK, Failed, States, Stages, StoredOK, Evicting, Carries, LayersAgree, NoTraffic
<1>4. RestOK'
  BY ReturnedType, BurnType DEF Failed, RestOK, IInv, TypeOK
<1> QED
  BY <1>3, <1>4, ReturnedType, Parts DEF Failed
-----------------------------------------------------------------------------
(* The steps that start a command.                                          *)

(* A command starts with a record of itself and a timeout. *)
LEMMA StartedType ==
  ASSUME IInv, NEW c \in Commands, NEW args \in Seq(ESYS_TR), NEW p \in Parameter,
         NEW w \in BOOLEAN, NEW one \in BOOLEAN, Started(c, args, p, w, one)
  PROVE  /\ call' \in Call /\ timeout' \in {"block", "poll"}
         /\ call'.cmd = c /\ call'.sent = 1 /\ call'.wrapped = w
<1>1. timeout \in {"block", "poll"}
  BY DEF IInv, TypeOK
<1> QED
  BY <1>1 DEF Started, Call

(* What AsyncSent leaves behind is what CallOK asks of a pending command. *)
LEMMA SentType ==
  ASSUME NEW c, NEW args, NEW p, NEW n, NEW s, NEW R, AsyncSent(c, args, p, n, s, R)
  PROVE  /\ state' = "SENT" /\ submissionCount' = n
         /\ in' = [cmd |-> c, args |-> args, param |-> p]
         /\ in'.cmd = c /\ in'.args = args
BY DEF AsyncSent, Transmitted, Stored

(* Esys_X_Async keeps the invariant. *)
LEMMA StartStep ==
  ASSUME IInv, NEW c \in Commands, NEW one \in BOOLEAN, NEW args \in Arguments(c),
         NEW p \in Parameters(c), Start(c, args, p, one)
  PROVE  IInv'
<1>1. Profile[c].objects \in Nat
  BY ContextAssumption DEF ProfileType
<1>2. Nameable \subseteq ESYS_TR
  BY DEF Nameable, IInv, TypeOK, ESYS_TR, NodeTR
<1>3. args \in [1..Profile[c].objects -> ESYS_TR]
  BY <1>2 DEF Arguments
<1>4. args \in Seq(ESYS_TR) /\ Len(args) = Profile[c].objects
  BY <1>1, <1>3, FunctionIsSeq
<1>5. p \in Parameter /\ (Profile[c].evicts => p \in Persistents)
  BY DEF Parameters, Parameter
<1>6. Arguing(c, args, p, 1, previousStage, rsrc)
  BY <1>4, <1>5, ContextAssumption DEF Arguing, Start, Idle, IInv, TypeOK, Lists
<1>7. AsyncOK'
  BY <1>6, AsyncType DEF Start
<1>8. CASE UNCHANGED <<call, timeout>>
  BY <1>7, <1>8, Parts DEF Start, Idle, CallOK, RestOK, IInv, TypeOK
<1>9. CASE AsyncSent(c, args, p, 1, previousStage, rsrc) /\ Started(c, args, p, FALSE, one)
  <2>1. /\ call' \in Call /\ timeout' \in {"block", "poll"}
        /\ call'.cmd = c /\ call'.sent = 1 /\ call'.wrapped = FALSE
    BY <1>4, <1>5, <1>9, StartedType
  <2>2. RestOK'
    BY <2>1 DEF Start, RestOK, IInv, TypeOK
  <2>3. state' = "SENT" /\ submissionCount' = 1 /\ in'.cmd = c /\ in'.args = args
    BY <1>9, SentType
  <2>4. Room(Burnt(c, 1))'
    BY DEF Start, Room, Burnt
  <2>5. CallOK'
    BY <1>4, <2>1, <2>3, <2>4 DEF CallOK, Room, Burnt
  <2> QED
    BY <1>7, <2>2, <2>5, Parts
<1> QED
  BY <1>8, <1>9 DEF Start

(* Esys_TR_FromTPMPublic_Async keeps the invariant. *)
LEMMA FromTPMPublicStep ==
  ASSUME IInv, NEW c \in Commands, NEW one \in BOOLEAN, NEW t \in TpmHandle,
         FromTPMPublic(c, t, one)
  PROVE  IInv'
<1> DEFINE h == esys_handle_cnt
           R == Alloc(rsrc, h, t)
<1>1. /\ Profile[c].objects = 1 /\ ~Profile[c].creates /\ ~Profile[c].evicts
      /\ Profile[c].closed = {}
  BY ContextAssumption DEF FromTPMPublic
<1>2. /\ h \in ObjectTR /\ h + 1 \in MinObject..(MaxObject + 1)
      /\ esys_handle_cnt' = h + 1 /\ esys_handle' = h
  BY NextNumber DEF FromTPMPublic, Room, Number
<1>3. <<h>> \in Seq(ESYS_TR) /\ Len(<<h>>) = 1
  BY <1>2 DEF ESYS_TR, NodeTR
<1>4. R \in Lists
  BY AllocType DEF IInv, TypeOK, Lists, Handles
<1>5. Blank \in Parameter
  BY DEF Parameter
<1>6. Arguing(c, <<h>>, Blank, 1, previousStage, R)
  BY <1>1, <1>3, <1>4, <1>5, ContextAssumption DEF Arguing, FromTPMPublic, Idle
<1>7. AsyncOK'
  BY <1>6, AsyncType DEF FromTPMPublic
<1>8. CASE UNCHANGED <<call, timeout>>
  BY <1>2, <1>7, <1>8, Parts
  DEF FromTPMPublic, Idle, CallOK, RestOK, IInv, TypeOK, ESYS_TR, NodeTR
<1>9. CASE AsyncSent(c, <<h>>, Blank, 1, previousStage, R)
           /\ Started(c, <<h>>, Blank, TRUE, one)
  <2>1. /\ call' \in Call /\ timeout' \in {"block", "poll"}
        /\ call'.cmd = c /\ call'.sent = 1 /\ call'.wrapped = TRUE
    BY <1>3, <1>5, <1>9, StartedType
  <2>2. RestOK'
    BY <1>2, <2>1 DEF FromTPMPublic, RestOK, IInv, TypeOK, ESYS_TR, NodeTR
  <2>3. state' = "SENT" /\ submissionCount' = 1 /\ in'.cmd = c /\ in'.args = <<h>>
    BY <1>9, SentType
  <2>4. Burnt(c, 1) = 0
    BY <1>1 DEF Burnt
  <2>5. CallOK'
    BY <1>1, <1>2, <1>3, <2>1, <2>3, <2>4 DEF CallOK, Room, Burnt
  <2> QED
    BY <1>7, <2>2, <2>5, Parts
<1> QED
  BY <1>8, <1>9 DEF FromTPMPublic

(* A number written over the first stored parameter leaves as many of them, and
   leaves the other one alone unless it comes first. *)
LEMMA OverwrittenFirst ==
  ASSUME IInv, NEW h \in ObjectTR
  PROVE  LET j == FirstOverwritten(in, h) IN
         /\ j \in Input \cup {NoInput} /\ Evicting(j)
         /\ j.cmd = in.cmd /\ Len(j.args) = Len(in.args)
         /\ j.args = IF in.args = <<>> THEN <<>> ELSE <<h>> \o Tail(in.args)
         /\ j.param = IF in.cmd \in Commands /\ Profile[in.cmd].value THEN h ELSE in.param
<1> DEFINE j == FirstOverwritten(in, h)
           a == <<h>> \o Tail(in.args)
           q == IF in.cmd \in Commands /\ Profile[in.cmd].value THEN h ELSE in.param
<1>1. in \in Input \cup {NoInput} /\ Evicting(in) /\ h \in ESYS_TR /\ h \in Parameter
  BY DEF IInv, TypeOK, StoredOK, ESYS_TR, NodeTR, Parameter
<1>2. CASE in = NoInput
  <2>1. in.args = <<>> /\ in.cmd = "none" /\ in.cmd \notin Commands
    BY <1>2, ContextAssumption DEF NoInput
  <2>2. j = in
    BY <1>2, <2>1 DEF FirstOverwritten, NoInput
  <2> QED
    BY <1>1, <2>1, <2>2
<1>3. CASE in \in Input
  <2>1. in.args \in Seq(ESYS_TR) /\ in.cmd \in Commands /\ in.param \in Parameter
    BY <1>3 DEF Input
  <2>2. q \in Parameter /\ (Profile[in.cmd].evicts => q \in Persistents)
    BY <1>1, <2>1, ContextAssumption DEF Evicting
  <2>3. CASE in.args = <<>>
    <3>1. j = [in EXCEPT !.param = q]
      BY <1>3, <2>3 DEF FirstOverwritten, Input
    <3>2. j \in Input /\ j.cmd = in.cmd /\ j.args = in.args /\ j.param = q
      BY <1>3, <2>2, <3>1 DEF Input
    <3> QED
      BY <2>2, <2>3, <3>2 DEF Evicting
  <2>4. CASE in.args # <<>>
    <3>1. /\ Tail(in.args) \in Seq(ESYS_TR) /\ Len(Tail(in.args)) = Len(in.args) - 1
          /\ Len(in.args) \in Nat
      BY <2>1, <2>4, HeadTailProperties, LenProperties
    <3>2. <<h>> \in Seq(ESYS_TR) /\ Len(<<h>>) = 1
      BY <1>1
    <3>3. a \in Seq(ESYS_TR) /\ Len(a) = Len(in.args)
      BY <3>1, <3>2, ConcatProperties
    <3>4. j = [in EXCEPT !.args = a, !.param = q]
      BY <1>3, <2>4 DEF FirstOverwritten, Input
    <3>5. j \in Input /\ j.cmd = in.cmd /\ j.args = a /\ j.param = q
      <4> HIDE DEF a, q
      <4> QED
        BY <1>3, <2>2, <3>3, <3>4 DEF Input
    <3> QED
      BY <2>2, <2>4, <3>3, <3>5 DEF Evicting
  <2> QED
    BY <2>3, <2>4
<1> QED
  BY <1>1, <1>2, <1>3

(* The same call refused: the parameters stay a sequence of the same length. *)
LEMMA RefusedStep ==
  ASSUME IInv, FromTPMPublicRefused
  PROVE  IInv'
<1> DEFINE h == esys_handle_cnt
           k == IF call = NoCall THEN 0 ELSE Burnt(call.cmd, call.sent)
<1>1. k \in Nat /\ (call = NoCall \/ call.cmd \in Commands)
  BY PendingFacts, BurntBounds
<1>2. h + (1 + k) <= MaxObject + 1
  BY DEF FromTPMPublicRefused, Room
<1>3. h \in Int /\ h + (1 + k) \in MinObject..(MaxObject + 1) /\ h \in ObjectTR
  BY <1>1, <1>2, NextNumber
<1>4. /\ h + 1 \in MinObject..(MaxObject + 1) /\ esys_handle_cnt' = h + 1
      /\ h + 1 + k <= MaxObject + 1
  <2> HIDE DEF k
  <2>1. h + 1 \in MinObject..(MaxObject + 1) /\ h + 1 + k <= MaxObject + 1
    BY <1>1, <1>2, <1>3, ContextAssumption DEF ObjectTR
  <2> QED
    BY <2>1 DEF FromTPMPublicRefused, Number
<1>5. h \in ESYS_TR
  BY <1>3 DEF ESYS_TR, NodeTR
<1>6. /\ in' = FirstOverwritten(in, h) /\ in' \in Input \cup {NoInput}
      /\ Evicting(in') /\ in'.cmd = in.cmd /\ Len(in'.args) = Len(in.args)
  BY <1>3, OverwrittenFirst DEF FromTPMPublicRefused
<1>7. AsyncOK'
  BY <1>6 DEF FromTPMPublicRefused, AsyncOK, IInv, TypeOK, StoredOK, LayersAgree,
              Evicting, Carries, States, Stages, Wires, Lists
<1>8. RestOK'
  BY <1>3, <1>4, <1>5 DEF FromTPMPublicRefused, appVars, RestOK, IInv, TypeOK
<1>9. CallOK'
  <2> SUFFICES ASSUME call' # NoCall
               PROVE  CallOK'
    BY DEF CallOK
  <2>1. call' = call /\ call # NoCall /\ UNCHANGED <<state, submissionCount>>
    BY DEF FromTPMPublicRefused, appVars
  <2>2. esys_handle' = h /\ k = Burnt(call.cmd, call.sent)
    BY <2>1 DEF FromTPMPublicRefused
  <2> QED
    BY <1>3, <1>4, <1>6, <2>1, <2>2 DEF CallOK, IInv, Room, Burnt
<1> QED
  BY <1>7, <1>8, <1>9, Parts
-----------------------------------------------------------------------------
(* The TPM.                                                                 *)

(* What a TPM executes changes the set of what exists in it, and no more. *)
LEMMA ExecutedType ==
  ASSUME IInv, wire.phase = "command", NEW t \in Yielded(wire.req), Executed(wire.req, t)
  PROVE  t \in Handles /\ tpm' \in SUBSET TpmHandle
<1>1. wire.req.cmd \in Commands /\ tpm \in SUBSET TpmHandle
  BY DEF IInv, TypeOK, StoredOK, Carries
<1>2. CASE Profile[wire.req.cmd].evicts
  <2>1. wire.req.param \in TpmHandle
    BY <1>1, <1>2 DEF IInv, StoredOK, Carries, Evicting, Persistents
  <2> QED
    BY <1>1, <1>2, <2>1 DEF Executed, Yielded, Handles
<1>3. CASE ~Profile[wire.req.cmd].evicts /\ Profile[wire.req.cmd].creates
  BY <1>1, <1>3 DEF Executed, Yielded, Handles
<1>4. CASE ~Profile[wire.req.cmd].evicts /\ ~Profile[wire.req.cmd].creates
  BY <1>1, <1>4 DEF Executed, Yielded, Handles
<1> QED
  BY <1>2, <1>3, <1>4

(* A response keeps the invariant. *)
LEMMA AnswerStep ==
  ASSUME IInv, NEW rc \in RC, TpmAnswers(rc)
  PROVE  IInv'
<1>1. wire.phase = "command" /\ UNCHANGED <<esysVars, previousStage, tcti, appVars>>
  BY DEF TpmAnswers
<1>2. PICK t \in Handles :
        wire' = Traffic("response", wire.req, rc, t) /\ tpm' \in SUBSET TpmHandle
  <2>1. CASE rc \in {"success", "corrupt", "malformed"}
    BY <2>1, <1>1, ExecutedType DEF TpmAnswers
  <2>2. CASE rc \notin {"success", "corrupt", "malformed"}
    BY <2>2 DEF TpmAnswers, IInv, TypeOK, Handles
  <2> QED
    BY <2>1, <2>2
<1>3. wire.req \in Request \cup {NoRequest}
  BY DEF IInv, TypeOK
<1>4. wire' \in Wires /\ wire'.phase = "response" /\ wire'.req = wire.req
  BY <1>2, <1>3 DEF Traffic, Wires
<1>5. Carries(wire)'
  BY <1>1, <1>4 DEF IInv, StoredOK, Carries, Evicting
<1>6. AsyncOK'
  BY <1>1, <1>4, <1>5
  DEF esysVars, IInv, TypeOK, AsyncOK, States, Stages, Lists, StoredOK, LayersAgree, Evicting
<1>7. RestOK' /\ CallOK'
  BY <1>1, <1>2 DEF esysVars, appVars, IInv, TypeOK, RestOK, CallOK, Room
<1> QED
  BY <1>6, <1>7, Parts
-----------------------------------------------------------------------------
(* The steps of Finish.                                                     *)

(* Esys_TR_FromTPMPublic_Finish that does not find its node. *)
LEMMA FinishLostStep ==
  ASSUME IInv, FinishLost
  PROVE  IInv'
<1>1. call # NoCall
  BY DEF FinishLost, NoCall
<1>2. AsyncOK'
  BY DEF FinishLost, esysVars, IInv, TypeOK, AsyncOK, States, Stages, Lists, Wires,
         StoredOK, LayersAgree, Carries, Evicting
<1>3. RestOK'
  BY <1>1, ReturnedType DEF FinishLost, esysVars, RestOK, IInv, TypeOK
<1> QED
  BY <1>1, <1>2, <1>3, ReturnedType, Parts DEF FinishLost

(* A poll before the response is there: Finish gives its node back. *)
LEMMA FinishTryAgainStep ==
  ASSUME IInv, FinishTryAgain
  PROVE  IInv'
<1>1. call # NoCall /\ UNCHANGED <<call, state, submissionCount, in, esys_handle>>
  BY DEF FinishTryAgain, Polled, appVars
<1>2. AsyncOK'
  BY DEF FinishTryAgain, IInv, TypeOK, AsyncOK, States, Stages, Lists, Wires,
         StoredOK, LayersAgree, Carries, Evicting
<1>3. esys_handle_cnt' \in MinObject..(MaxObject + 1)
  BY <1>1, BurnType DEF FinishTryAgain
<1>4. RestOK'
  BY <1>3 DEF FinishTryAgain, appVars, RestOK, IInv, TypeOK
<1>5. Room(Burnt(call.cmd, call.sent))'
  <2> DEFINE b == Burnt(call.cmd, call.sent)
  <2>1. b \in Nat /\ esys_handle_cnt \in Int /\ esys_handle_cnt + (b + 1) <= MaxObject + 1
    BY <1>1, PendingFacts, BurntBounds, ContextAssumption
    DEF FinishTryAgain, Room, IInv, TypeOK
  <2>2. esys_handle_cnt' \in {esys_handle_cnt, esys_handle_cnt + 1}
    BY <2>1 DEF FinishTryAgain, Burn, Number
  <2>3. esys_handle_cnt' + b <= MaxObject + 1
    BY <2>1, <2>2, Bounds, OneMore
  <2> QED
    BY <1>1, <2>3 DEF Room, Burnt
<1>6. CallOK'
  BY <1>1, <1>5 DEF CallOK, IInv
<1> QED
  BY <1>2, <1>4, <1>6, Parts

(* The errors of the transport and of the TPM that end a command. *)
LEMMA FinishErrorStep ==
  ASSUME IInv, FinishTransportError \/ FinishMalformed \/ FinishExhausted \/ FinishTpmError
  PROVE  IInv'
<1>1. call # NoCall
  BY DEF FinishTransportError, Unreceived, FinishMalformed, FinishExhausted, FinishTpmError,
         Responded, Polled
<1>2. CASE FinishTransportError
  <2>1. /\ previousStage' \in Stages /\ tcti' \in {"TRANSMIT", "RECEIVE"}
        /\ wire' \in Wires /\ Carries(wire)'
    BY <1>2 DEF FinishTransportError, Unreceived, IInv, TypeOK, Stages, Wires, StoredOK,
                Carries, Evicting
  <2> QED
    BY <1>1, <1>2, <2>1, FailedType DEF FinishTransportError
<1>3. CASE FinishMalformed
  <2>1. /\ previousStage' \in Stages /\ tcti' \in {"TRANSMIT", "RECEIVE"}
        /\ wire' \in Wires /\ Carries(wire)'
    BY <1>3, QuietType DEF FinishMalformed, NoTraffic, Stages, Carries, Evicting
  <2> QED
    BY <1>1, <1>3, <2>1, FailedType DEF FinishMalformed
<1>4. CASE FinishExhausted
  <2>1. previousStage' \in Stages \ {"SEND_COMMAND"}
    BY <1>4 DEF FinishExhausted, Stages
  <2> QED
    BY <1>1, <1>4, <2>1, FailedType DEF FinishExhausted
<1>5. CASE FinishTpmError
  <2>1. previousStage' \in Stages \ {"SEND_COMMAND"}
    BY <1>5 DEF FinishTpmError, Stages
  <2> QED
    BY <1>1, <1>5, <2>1, FailedType DEF FinishTpmError
<1> QED
  BY <1>2, <1>3, <1>4, <1>5

(* A resubmission. *)
LEMMA FinishResubmitsStep ==
  ASSUME IInv, FinishResubmits
  PROVE  IInv'
<1> DEFINE n == submissionCount + 1
           c == call.cmd
           s == "RECEIVE_RESPONSE"
<1>1. call # NoCall /\ submissionCount < MaxSubmissions /\ Burn
  BY DEF FinishResubmits, Responded, Polled
<1>2. /\ c \in Commands /\ call \in Call /\ submissionCount = call.sent
      /\ call.sent \in 1..MaxSubmissions
      /\ esys_handle_cnt + Burnt(c, call.sent) <= MaxObject + 1
      /\ Len(in.args) = Profile[c].objects
      /\ call.wrapped => /\ esys_handle \in ObjectTR /\ ~Profile[c].creates
                         /\ Profile[c].closed = {}
  BY <1>1, PendingFacts
<1>3. n \in 2..MaxSubmissions /\ call.sent + 1 = n
  BY <1>1, <1>2, ContextAssumption
<1>4. Resubmitted /\ UNCHANGED <<esys_handle, tpm, held, dropped>>
  BY DEF FinishResubmits
<1>5. esys_handle_cnt' \in MinObject..(MaxObject + 1)
  BY <1>1, BurnType
<1>6. Arguing(c, in.args, in.param, n, s, rsrc)
  BY <1>1, <1>2, <1>3, PendingFacts DEF Arguing, IInv, TypeOK, Lists
<1>7. AsyncOK'
  BY <1>4, <1>6, AsyncType DEF Resubmitted
<1>8. CASE Returned
  BY <1>1, <1>4, <1>5, <1>7, <1>8, ReturnedType, Parts DEF RestOK, IInv, TypeOK
<1>9. CASE /\ AsyncSent(c, in.args, in.param, n, s, rsrc)
           /\ call' = [call EXCEPT !.sent = @ + 1] /\ UNCHANGED timeout
  <2>1. /\ call' \in Call /\ call'.sent = n /\ call'.cmd = c
        /\ call'.wrapped = call.wrapped
    BY <1>2, <1>3, <1>9 DEF Call
  <2>2. state' = "SENT" /\ submissionCount' = n /\ in'.cmd = c /\ in'.args = in.args
    BY <1>9, SentType
  <2>3. esys_handle_cnt' + Burnt(c, n) <= MaxObject + 1
    <3>1. CASE Profile[c].creates
      <4>1. Burnt(c, n) = Burnt(c, call.sent) - 1 /\ Burnt(c, call.sent) \in Nat
        BY <1>1, <1>2, <1>3, <3>1, BurntBounds
      <4>2. esys_handle_cnt' = esys_handle_cnt + 1 /\ esys_handle_cnt \in Int
        BY <1>1, <3>1 DEF Burn, Number, IInv, TypeOK
      <4> QED
        BY <1>2, <4>1, <4>2, ContextAssumption
    <3>2. CASE ~Profile[c].creates
      <4>1. Burnt(c, n) = 0
        BY <3>2 DEF Burnt
      <4> QED
        BY <1>5, <4>1, ContextAssumption
    <3> QED
      BY <3>1, <3>2
  <2>4. RestOK'
    BY <1>4, <1>5, <1>9, <2>1 DEF RestOK, IInv, TypeOK
  <2>5. CallOK'
    BY <1>2, <1>4, <2>1, <2>2, <2>3 DEF CallOK, Room, Burnt
  <2> QED
    BY <1>7, <2>4, <2>5, Parts
<1> QED
  BY <1>4, <1>8, <1>9 DEF Resubmitted

(* Esys_TR_Close inside a Finish leaves a sequence of parameters. *)
LEMMA InvalidatedType ==
  ASSUME in \in Input, NEW c, Invalidated(c)
  PROVE  in' \in Input /\ in'.cmd = in.cmd /\ in'.param = in.param
<1> DEFINE f == [i \in DOMAIN in.args |->
                   IF i \in Profile[c].finds /\ in.args[i] \in Closing(c, in.args)
                   THEN None ELSE in.args[i]]
<1>1. /\ in.args \in Seq(ESYS_TR) /\ Len(in.args) \in Nat
      /\ DOMAIN in.args = 1..Len(in.args)
  BY LenProperties DEF Input
<1>2. ASSUME NEW i \in 1..Len(in.args)
      PROVE  in.args[i] \in ESYS_TR
  BY <1>1, <1>2, ElementOfSeq
<1>3. f \in [1..Len(in.args) -> ESYS_TR]
  BY <1>1, <1>2 DEF ESYS_TR
<1>4. f \in Seq(ESYS_TR)
  BY <1>1, <1>3, FunctionIsSeq
<1>5. in' = [in EXCEPT !.args = f]
  BY DEF Invalidated
<1> QED
  BY <1>4, <1>5 DEF Input

(* A Finish that has received a response and ends the command. *)
LEMMA FinishedType ==
  ASSUME IInv, call # NoCall, Returned, NoTraffic, previousStage' = "RECEIVE_RESPONSE",
         UNCHANGED <<submissionCount, esys_handle, salt, tpm>>,
         state' \in {"INIT", "INTERNALERROR"}, rsrc' \in Lists,
         in' \in Input, in'.cmd = in.cmd, in'.param = in.param,
         esys_handle_cnt' \in MinObject..(MaxObject + 1),
         held' \in SUBSET ObjectTR, dropped' \in SUBSET TpmHandle
  PROVE  IInv'
<1>1. AsyncOK'
  BY QuietType, ContextAssumption
  DEF NoTraffic, IInv, TypeOK, AsyncOK, States, Stages, StoredOK, LayersAgree, Evicting,
      Carries
<1>2. RestOK'
  BY ReturnedType DEF IInv, TypeOK, RestOK
<1> QED
  BY <1>1, <1>2, ReturnedType, Parts

(* The node that Finish closes for its caller is one of an object. *)
LEMMA CleanupType ==
  ASSUME IInv, call # NoCall
  PROVE  Cleanup \subseteq ObjectTR
BY PendingFacts DEF Cleanup

(* A response that does not verify. *)
LEMMA FinishCorruptStep ==
  ASSUME IInv, FinishCorrupt
  PROVE  IInv'
<1>1. call # NoCall
  BY DEF FinishCorrupt, Responded, Polled
<1>2. in \in Input /\ rsrc \in Lists
  BY <1>1, PendingFacts DEF IInv, TypeOK, Lists
<1>3. rsrc' \in Lists
  BY <1>2, CloseType DEF FinishCorrupt
<1>4. in' \in Input /\ in'.cmd = in.cmd /\ in'.param = in.param
  BY <1>2, InvalidatedType DEF FinishCorrupt
<1>5. esys_handle_cnt' \in MinObject..(MaxObject + 1)
  BY <1>1, BurnType DEF FinishCorrupt
<1>6. held' \in SUBSET ObjectTR /\ dropped' \in SUBSET TpmHandle
  BY DEF FinishCorrupt, IInv, TypeOK
<1> QED
  BY <1>1, <1>3, <1>4, <1>5, <1>6, FinishedType DEF FinishCorrupt

(* The response to a command that creates an object, a session or an index. *)
LEMMA FinishCreatesStep ==
  ASSUME IInv, FinishCreates
  PROVE  IInv'
<1>1. call # NoCall /\ Profile[call.cmd].creates
  BY DEF FinishCreates, Succeeded, Responded, Polled
<1>2. in \in Input /\ rsrc \in Lists /\ wire.handle \in Handles
  BY <1>1, PendingFacts DEF IInv, TypeOK, Lists
<1>3. rsrc' \in Lists
  BY <1>2, AllocType DEF FinishCreates
<1>4. esys_handle_cnt \in ObjectTR
  BY <1>1, PendingFacts, BurntBounds, NextNumber
<1>5. held' \in SUBSET ObjectTR /\ dropped' \in SUBSET TpmHandle
  BY <1>4 DEF FinishCreates, IInv, TypeOK
<1>6. esys_handle_cnt' \in MinObject..(MaxObject + 1)
  BY <1>1, BurnType DEF FinishCreates
<1>7. state' \in {"INIT", "INTERNALERROR"} /\ UNCHANGED in
  BY DEF FinishCreates
<1> QED
  BY <1>1, <1>2, <1>3, <1>5, <1>6, <1>7, FinishedType DEF FinishCreates, Succeeded

(* The response to any other command, EvictControl aside. *)
LEMMA FinishOtherStep ==
  ASSUME IInv, FinishOther
  PROVE  IInv'
<1>1. call # NoCall
  BY DEF FinishOther, Succeeded, Responded, Polled
<1>2. in \in Input /\ rsrc \in Lists
  BY <1>1, PendingFacts DEF IInv, TypeOK, Lists
<1>3. rsrc' \in Lists
  BY <1>2, CloseType DEF FinishOther
<1>4. in' \in Input /\ in'.cmd = in.cmd /\ in'.param = in.param
  BY <1>2, InvalidatedType DEF FinishOther
<1>5. held' \in SUBSET ObjectTR /\ dropped' \in SUBSET TpmHandle
  BY <1>1, CleanupType DEF FinishOther, IInv, TypeOK
<1>6. esys_handle_cnt' \in MinObject..(MaxObject + 1)
  BY <1>1, BurnType DEF FinishOther
<1>7. state' \in {"INIT", "INTERNALERROR"}
  BY DEF FinishOther
<1> QED
  BY <1>1, <1>3, <1>4, <1>5, <1>6, <1>7, FinishedType DEF FinishOther, Succeeded

(* EvictControl needs the numbers of two nodes. *)
LEMMA FinishEvictsStep ==
  ASSUME IInv, FinishEvicts
  PROVE  IInv'
<1> DEFINE n == esys_handle_cnt
<1>1. call # NoCall /\ Profile[call.cmd].evicts
  BY DEF FinishEvicts, Succeeded, Responded, Polled
<1>2. in \in Input /\ rsrc \in Lists /\ in.param \in TpmHandle
  BY <1>1, PendingFacts DEF IInv, TypeOK, Lists, Persistents
<1>3. n \in ObjectTR /\ n + 1 \in ObjectTR /\ n + 2 \in MinObject..(MaxObject + 1)
  <2>1. Burnt(call.cmd, call.sent) \in Nat /\ Burnt(call.cmd, call.sent) >= 2
    BY <1>1, PendingFacts, BurntBounds
  <2>2. n \in Int /\ n + 2 <= MaxObject + 1
    BY <1>1, <2>1, PendingFacts, ContextAssumption DEF IInv, TypeOK
  <2> QED
    BY <2>2, NextNumber
<1>4. Alloc(rsrc, n, Blank) \in Lists
  BY <1>2, AllocType DEF Handles
<1>5. rsrc' \in Lists
  BY <1>2, <1>4, AllocType DEF FinishEvicts, Handles
<1>6. held' \in SUBSET ObjectTR /\ dropped' \in SUBSET TpmHandle
  BY <1>3 DEF FinishEvicts, IInv, TypeOK
<1>7. esys_handle_cnt' \in MinObject..(MaxObject + 1)
  BY <1>1, <1>3, BurnType DEF FinishEvicts, Number
<1>8. state' \in {"INIT", "INTERNALERROR"} /\ UNCHANGED in
  BY DEF FinishEvicts
<1> QED
  BY <1>1, <1>2, <1>5, <1>6, <1>7, <1>8, FinishedType DEF FinishEvicts, Succeeded
-----------------------------------------------------------------------------
(* The calls that touch metadata only.                                      *)

(* Esys_TR_Close. *)
LEMMA CloseStep ==
  ASSUME IInv, NEW h \in ObjectTR, TR_Close(h)
  PROVE  IInv'
<1>1. rsrc' \in Lists
  BY CloseType DEF TR_Close, IInv, TypeOK, Lists
<1>2. AsyncOK'
  BY <1>1 DEF TR_Close, AsyncOK, IInv, TypeOK, States, Stages, Wires, StoredOK,
              LayersAgree, Evicting, Carries
<1>3. RestOK' /\ CallOK'
  BY DEF TR_Close, RestOK, CallOK, Room, Burnt, IInv, TypeOK
<1> QED
  BY <1>2, <1>3, Parts

(* Esys_TR_Deserialize. *)
LEMMA DeserializeStep ==
  ASSUME IInv, NEW t \in Persistents \cup {Blank}, TR_Deserialize(t)
  PROVE  IInv'
<1> DEFINE n == esys_handle_cnt
           k == IF call = NoCall THEN 0 ELSE Burnt(call.cmd, call.sent)
<1>1. k \in Nat /\ n + (1 + k) <= MaxObject + 1
  BY PendingFacts, BurntBounds DEF TR_Deserialize, Room
<1>2. n \in Int /\ n + (1 + k) \in MinObject..(MaxObject + 1) /\ n \in ObjectTR
  BY <1>1, NextNumber
<1>3. n + 1 \in MinObject..(MaxObject + 1) /\ n + 1 + k <= MaxObject + 1
  <2> HIDE DEF k
  <2> QED
    BY <1>1, <1>2, ContextAssumption DEF ObjectTR
<1>4. rsrc' \in Lists
  BY AllocType DEF TR_Deserialize, IInv, TypeOK, Lists, Handles, Persistents
<1>5. AsyncOK'
  BY <1>4 DEF TR_Deserialize, AsyncOK, IInv, TypeOK, States, Stages, Wires, StoredOK,
              LayersAgree, Evicting, Carries
<1>6. RestOK'
  BY <1>2, <1>3 DEF TR_Deserialize, Number, RestOK, IInv, TypeOK
<1>7. CallOK'
  BY <1>3 DEF TR_Deserialize, Number, CallOK, Room, Burnt, IInv
<1> QED
  BY <1>5, <1>6, <1>7, Parts

(* Esys_SetTimeout. *)
LEMMA TimeoutStep ==
  ASSUME IInv, NEW t \in {"block", "poll"}, SetTimeout(t)
  PROVE  IInv'
<1>1. AsyncOK'
  BY DEF SetTimeout, esysVars, AsyncOK, IInv, TypeOK, States, Stages, Wires, Lists,
         StoredOK, LayersAgree, Evicting, Carries
<1>2. RestOK' /\ CallOK'
  BY DEF SetTimeout, esysVars, RestOK, CallOK, Room, Burnt, IInv, TypeOK
<1> QED
  BY <1>1, <1>2, Parts

(* Esys_Finalize and a new Esys_Initialize. *)
LEMMA ReinitializeStep ==
  ASSUME IInv, Reinitialize
  PROVE  IInv'
<1>1. /\ rsrc' \in Lists /\ Evicting(in)' /\ in' = NoInput /\ submissionCount' = 0
      /\ esys_handle_cnt' \in MinObject..(MaxObject + 1) /\ Carries(wire)'
      /\ wire' \in Wires /\ wire'.phase = "idle" /\ tcti' = "TRANSMIT"
  BY NoInputType, QuietType DEF Reinitialize, NoTraffic, Evicting, Carries
<1>2. AsyncOK'
  BY <1>1, NoInputType DEF Reinitialize, AsyncOK, States, Stages, StoredOK, LayersAgree
<1>3. RestOK' /\ CallOK'
  BY <1>1 DEF Reinitialize, RestOK, CallOK, ESYS_TR, IInv, TypeOK
<1> QED
  BY <1>2, <1>3, Parts
-----------------------------------------------------------------------------
(* The invariant.                                                           *)

(* Esys_Initialize establishes it. *)
LEMMA InitHolds == Init => IInv
<1> SUFFICES ASSUME Init
             PROVE  IInv
  OBVIOUS
<1>1. /\ rsrc \in Lists /\ Evicting(in) /\ in = NoInput /\ submissionCount = 0
      /\ esys_handle_cnt \in MinObject..(MaxObject + 1) /\ Carries(wire)
      /\ wire \in Wires /\ wire.phase = "idle"
  BY NoInputType, QuietType DEF Init
<1>2. AsyncOK
  BY <1>1, NoInputType DEF Init, AsyncOK, States, Stages, StoredOK, LayersAgree
<1>3. RestOK /\ CallOK
  BY <1>1 DEF Init, RestOK, CallOK, ESYS_TR, Persistents
<1> QED
  BY <1>2, <1>3, Parts

(* Every step keeps it. *)
LEMMA StepHolds == IInv /\ [Next]_vars => IInv'
<1> SUFFICES ASSUME IInv, [Next]_vars
             PROVE  IInv'
  OBVIOUS
<1>1. ASSUME NEW c \in Commands, NEW one \in BOOLEAN, NEW args \in Arguments(c),
             NEW p \in Parameters(c), Start(c, args, p, one)
      PROVE  IInv'
  BY <1>1, StartStep
<1>2. ASSUME NEW c \in Commands, NEW one \in BOOLEAN, NEW t \in TpmHandle,
             FromTPMPublic(c, t, one)
      PROVE  IInv'
  BY <1>2, FromTPMPublicStep
<1>3. CASE FromTPMPublicRefused
  BY <1>3, RefusedStep
<1>4. ASSUME NEW rc \in RC, TpmAnswers(rc)
      PROVE  IInv'
  BY <1>4, AnswerStep
<1>5. CASE Finish
  BY <1>5, FinishLostStep, FinishTryAgainStep, FinishErrorStep, FinishResubmitsStep,
     FinishCorruptStep, FinishCreatesStep, FinishEvictsStep, FinishOtherStep DEF Finish
<1>6. ASSUME NEW h \in ObjectTR, TR_Close(h)
      PROVE  IInv'
  BY <1>6, CloseStep
<1>7. ASSUME NEW t \in Persistents \cup {Blank}, TR_Deserialize(t)
      PROVE  IInv'
  BY <1>7, DeserializeStep
<1>8. ASSUME NEW t \in {"block", "poll"}, SetTimeout(t)
      PROVE  IInv'
  BY <1>8, TimeoutStep
<1>9. CASE Reinitialize
  BY <1>9, ReinitializeStep
<1>10. CASE UNCHANGED vars
  BY <1>10 DEF vars, esysVars, appVars, IInv, TypeOK, CallOK, Room, Burnt, StoredOK,
              Evicting, Carries, LayersAgree
<1> QED
  BY <1>1, <1>2, <1>3, <1>4, <1>5, <1>6, <1>7, <1>8, <1>9, <1>10 DEF Next

(* The invariant holds in every state. *)
LEMMA InvariantHolds == Spec => []IInv
BY InitHolds, StepHolds, PTL DEF Spec

(* The types of the whole state: in particular, that a number beyond the list
   is never taken and that the parameters stored for a resubmission are those
   of some command. *)
THEOREM TypeCorrect == Spec => []TypeOK
<1>1. IInv => TypeOK
  BY DEF IInv
<1> QED
  BY <1>1, InvariantHolds, PTL

(* Whenever no call is running, ESYS, SYS and TCTI agree on whether a command is
   under way, whatever the application, the transport and the TPM did. *)
THEOREM LayersInAgreement == Spec => []LayersAgree
<1>1. IInv => LayersAgree
  BY DEF IInv
<1> QED
  BY <1>1, InvariantHolds, PTL

(* The count that the limit of resubmissions is compared with is the number of
   times the pending command was sent, and the limit is kept. *)
THEOREM CountIsRight == Spec => []SubmissionsCounted
<1>1. IInv => SubmissionsCounted
  BY PendingFacts DEF SubmissionsCounted
<1> QED
  BY <1>1, InvariantHolds, PTL
-----------------------------------------------------------------------------
(* No number is used twice.                                                 *)

(* Only the node of the number just taken is new. *)
Untouched(R, Q) == \A x \in ObjectTR : R[x] = Absent => Q[x] = Absent

(* Closing nodes makes none. *)
LEMMA CloseUntouched ==
  ASSUME NEW R, NEW gone
  PROVE  Untouched(R, Close(R, gone))
BY DEF Untouched, Close, NodeTR

(* Looking up parameters makes nodes of permanent entities only. *)
LEMMA LookUpUntouched ==
  ASSUME NEW R, NEW args
  PROVE  Untouched(R, LookUp(R, args))
<1>1. \A x \in ObjectTR : x \notin Globals /\ x \in NodeTR
  BY ContextAssumption DEF ObjectTR, NodeTR
<1> QED
  BY <1>1 DEF Untouched, LookUp

(* No outcome of an Async function makes the node of an object. *)
LEMMA AsyncUntouched ==
  ASSUME NEW c, NEW args, NEW p, NEW n, NEW s, NEW R, NEW gone,
         \/ n = 1 /\ AsyncInfeasible(c, R, gone)
         \/ AsyncUnsalted(c, args, p, n, s, R, gone)
         \/ AsyncUnprepared(c, args, p, n, s, R, gone)
         \/ AsyncUnsent(c, args, p, n, s, R, gone)
         \/ AsyncSent(c, args, p, n, s, R)
  PROVE  Untouched(R, rsrc')
<1>1. \/ rsrc' = Close(R, gone) \/ rsrc' = Close(LookUp(R, args), gone)
      \/ rsrc' = LookUp(R, args)
  BY DEF AsyncInfeasible, AsyncUnsalted, AsyncUnprepared, AsyncUnsent, AsyncSent, Transmitted
<1>2. Untouched(R, LookUp(R, args)) /\ Untouched(R, Close(R, gone))
      /\ Untouched(LookUp(R, args), Close(LookUp(R, args), gone))
  BY CloseUntouched, LookUpUntouched
<1> QED
  BY <1>1, <1>2 DEF Untouched

(* A step that takes k numbers, and gives nodes to no others, to begin with. *)
LEMMA FreshStep ==
  ASSUME IInv, HandlesFresh, NEW k \in Nat, esys_handle_cnt' = esys_handle_cnt + k,
         \A x \in ObjectTR : x >= esys_handle_cnt + k =>
            /\ rsrc[x] = Absent => rsrc'[x] = Absent
            /\ x \notin held => x \notin held'
  PROVE  HandlesFresh'
<1>1. esys_handle_cnt \in Int
  BY Bounds DEF IInv, TypeOK
<1>2. ASSUME NEW x \in ObjectTR, x >= esys_handle_cnt'
      PROVE  rsrc'[x] = Absent /\ x \notin held'
  <2>1. x \in Int
    BY Bounds DEF ObjectTR
  <2>2. x >= esys_handle_cnt + k /\ x >= esys_handle_cnt
    BY <1>1, <1>2, <2>1
  <2> QED
    BY <2>2 DEF HandlesFresh
<1> QED
  BY <1>2 DEF HandlesFresh

(* The number that is taken lies below those that are left. *)
LEMMA AllocFresh ==
  ASSUME IInv, NEW R, NEW t, NEW x \in ObjectTR, NEW k \in Nat, k >= 1,
         x >= esys_handle_cnt + k
  PROVE  /\ x # esys_handle_cnt /\ (k >= 2 => x # esys_handle_cnt + 1)
         /\ Alloc(R, esys_handle_cnt, t)[x] = R[x]
         /\ k >= 2 => Alloc(R, esys_handle_cnt + 1, t)[x] = R[x]
<1>1. x \in Int /\ esys_handle_cnt \in Int
  BY Bounds DEF IInv, TypeOK, ObjectTR
<1>2. x # esys_handle_cnt /\ (k >= 2 => x # esys_handle_cnt + 1)
  BY <1>1
<1> QED
  BY <1>2 DEF Alloc

(* A step that gives no object a node and the application no number. *)
LEMMA FreshUntouched ==
  ASSUME IInv, HandlesFresh, NEW k \in Nat, esys_handle_cnt' = esys_handle_cnt + k,
         Untouched(rsrc, rsrc'), held' \subseteq held
  PROVE  HandlesFresh'
BY FreshStep DEF Untouched

(* The same for a step of Finish, which takes one number or none. *)
LEMMA FreshBurnt ==
  ASSUME IInv, HandlesFresh, Burn, Untouched(rsrc, rsrc'), held' \subseteq held
  PROVE  HandlesFresh'
<1> DEFINE k == IF Profile[call.cmd].creates THEN 1 ELSE 0
<1>1. k \in Nat /\ esys_handle_cnt' = esys_handle_cnt + k
  BY DEF Burn, Number
<1> QED
  BY <1>1, FreshUntouched

(* Esys_X_Async takes no number. *)
LEMMA FreshStart ==
  ASSUME IInv, HandlesFresh, NEW c, NEW args, NEW p, NEW one, Start(c, args, p, one)
  PROVE  HandlesFresh'
<1>1. Untouched(rsrc, rsrc')
  BY AsyncUntouched DEF Start
<1>2. esys_handle_cnt' = esys_handle_cnt + 0 /\ held' = held
  BY Bounds DEF Start, IInv, TypeOK
<1> QED
  BY <1>1, <1>2, FreshUntouched

(* Esys_TR_FromTPMPublic_Async takes one, whose node it makes first. *)
LEMMA FreshFromTPMPublic ==
  ASSUME IInv, HandlesFresh, NEW c, NEW t, NEW one, FromTPMPublic(c, t, one)
  PROVE  HandlesFresh'
<1> DEFINE R == Alloc(rsrc, esys_handle_cnt, t)
<1>1. Untouched(R, rsrc')
  BY AsyncUntouched DEF FromTPMPublic
<1>2. ASSUME NEW x \in ObjectTR, x >= esys_handle_cnt + 1
      PROVE  rsrc[x] = Absent => rsrc'[x] = Absent
  BY <1>1, <1>2, AllocFresh DEF Untouched
<1>3. esys_handle_cnt' = esys_handle_cnt + 1 /\ held' = held
  BY DEF FromTPMPublic, Number
<1> QED
  BY <1>2, <1>3, FreshStep

(* A Finish takes the number before it knows how it ends. *)
LEMMA FreshFinish ==
  ASSUME IInv, HandlesFresh, Finish
  PROVE  HandlesFresh'
<1>1. Untouched(rsrc, rsrc) /\ \A gone : Untouched(rsrc, Close(rsrc, gone))
  BY CloseUntouched DEF Untouched
<1>2. CASE FinishLost
  <2>1. esys_handle_cnt' = esys_handle_cnt + 0 /\ UNCHANGED <<rsrc, held>>
    BY <1>2, Bounds DEF FinishLost, esysVars, IInv, TypeOK
  <2> QED
    BY <1>1, <2>1, FreshUntouched
<1>3. CASE FinishTryAgain
  BY <1>1, <1>3, FreshBurnt DEF FinishTryAgain, appVars
<1>4. CASE FinishTransportError \/ FinishMalformed \/ FinishExhausted \/ FinishTpmError
  <2>1. Burn /\ rsrc' = Close(rsrc, Cleanup) /\ held' = held
    BY <1>4 DEF FinishTransportError, FinishMalformed, FinishExhausted, FinishTpmError, Failed
  <2> QED
    BY <1>1, <2>1, FreshBurnt
<1>5. CASE FinishResubmits
  <2>1. Burn /\ held' = held /\ Untouched(rsrc, rsrc')
    BY <1>5, AsyncUntouched DEF FinishResubmits, Resubmitted
  <2> QED
    BY <2>1, FreshBurnt
<1>6. CASE FinishCorrupt
  <2>1. Burn /\ held' = held /\ Untouched(rsrc, rsrc')
    BY <1>1, <1>6 DEF FinishCorrupt
  <2> QED
    BY <2>1, FreshBurnt
<1>7. CASE FinishCreates
  <2>1. esys_handle_cnt' = esys_handle_cnt + 1
    BY <1>7 DEF FinishCreates, Burn, Number
  <2>2. ASSUME NEW x \in ObjectTR, x >= esys_handle_cnt + 1
        PROVE  /\ rsrc[x] = Absent => rsrc'[x] = Absent
               /\ x \notin held => x \notin held'
    BY <1>7, <2>2, AllocFresh DEF FinishCreates
  <2> QED
    BY <2>1, <2>2, FreshStep
<1>8. CASE FinishEvicts
  <2>1. CASE Burn /\ rsrc' \in {rsrc, Alloc(rsrc, esys_handle_cnt, Blank)} /\ held' = held
    <3>1. esys_handle_cnt' = esys_handle_cnt + 1
      BY <1>8, <2>1, ContextAssumption, PendingFacts
      DEF FinishEvicts, Succeeded, Responded, Polled, Burn, Number
    <3>2. ASSUME NEW x \in ObjectTR, x >= esys_handle_cnt + 1
          PROVE  rsrc[x] = Absent => rsrc'[x] = Absent
      BY <2>1, <3>2, AllocFresh
    <3> QED
      BY <2>1, <3>1, <3>2, FreshStep
  <2>2. CASE /\ rsrc' = Alloc(Alloc(rsrc, esys_handle_cnt, Blank), esys_handle_cnt + 1, in.param)
             /\ Number(2) /\ held' = held \cup {esys_handle_cnt + 1}
    <3>1. esys_handle_cnt' = esys_handle_cnt + 2
      BY <2>2 DEF Number
    <3>2. ASSUME NEW x \in ObjectTR, x >= esys_handle_cnt + 2
          PROVE  /\ rsrc[x] = Absent => rsrc'[x] = Absent
                 /\ x \notin held => x \notin held'
      BY <2>2, <3>2, AllocFresh
    <3> QED
      BY <3>1, <3>2, FreshStep
  <2> QED
    BY <1>8, <2>1, <2>2 DEF FinishEvicts
<1>9. CASE FinishOther
  <2>1. Burn /\ Untouched(rsrc, rsrc')
    BY <1>1, <1>9 DEF FinishOther
  <2>2. Cleanup \subseteq { x \in ObjectTR : rsrc[x] # Absent }
    BY <1>9, PendingFacts DEF FinishOther, Succeeded, Responded, Polled, Cleanup
  <2>3. ~Profile[call.cmd].creates
    BY <1>9 DEF FinishOther
  <2>4. esys_handle_cnt' = esys_handle_cnt + 0
    BY <2>1, <2>3, Bounds DEF Burn, Number, IInv, TypeOK
  <2>5. held' \subseteq held \cup Cleanup
    BY <1>9 DEF FinishOther
  <2>6. ASSUME NEW x \in ObjectTR, x >= esys_handle_cnt + 0
        PROVE  /\ rsrc[x] = Absent => rsrc'[x] = Absent
               /\ x \notin held => x \notin held'
    <3>1. x >= esys_handle_cnt
      BY <2>6, Bounds DEF IInv, TypeOK
    <3>2. x \notin Cleanup
      BY <2>2, <3>1 DEF HandlesFresh
    <3> QED
      BY <2>1, <2>5, <3>2 DEF Untouched
  <2> QED
    BY <2>4, <2>6, FreshStep
<1> QED
  BY <1>2, <1>3, <1>4, <1>5, <1>6, <1>7, <1>8, <1>9 DEF Finish

(* A number is handed out once: every number the counter has not reached has no
   node and does not belong to the application, however often Finish took a
   number and gave its node back. *)
THEOREM NumbersFresh == Spec => []HandlesFresh
<1>1. Init => HandlesFresh
  BY DEF Init, HandlesFresh, NodeTR
<1>2. IInv /\ HandlesFresh /\ [Next]_vars => HandlesFresh'
  <2> SUFFICES ASSUME IInv, HandlesFresh, [Next]_vars
               PROVE  HandlesFresh'
    OBVIOUS
  <2>1. ASSUME NEW c, NEW args, NEW p, NEW one, Start(c, args, p, one)
        PROVE  HandlesFresh'
    BY <2>1, FreshStart
  <2>2. ASSUME NEW c, NEW t, NEW one, FromTPMPublic(c, t, one)
        PROVE  HandlesFresh'
    BY <2>2, FreshFromTPMPublic
  <2>3. CASE FromTPMPublicRefused
    <3>1. esys_handle_cnt' = esys_handle_cnt + 1 /\ UNCHANGED <<rsrc, held>>
      BY <2>3 DEF FromTPMPublicRefused, Number, appVars
    <3> QED
      BY <3>1, FreshUntouched DEF Untouched
  <2>4. CASE UNCHANGED <<esys_handle_cnt, rsrc, held>>
    BY <2>4 DEF HandlesFresh
  <2>5. ASSUME NEW rc, TpmAnswers(rc)
        PROVE  HandlesFresh'
    BY <2>4, <2>5 DEF TpmAnswers, esysVars, appVars
  <2>6. CASE Finish
    BY <2>6, FreshFinish
  <2>7. ASSUME NEW h, TR_Close(h)
        PROVE  HandlesFresh'
    <3>1. esys_handle_cnt' = esys_handle_cnt + 0 /\ held' \subseteq held
      BY <2>7, Bounds DEF TR_Close, IInv, TypeOK
    <3>2. Untouched(rsrc, rsrc')
      BY <2>7, CloseUntouched DEF TR_Close
    <3> QED
      BY <3>1, <3>2, FreshUntouched
  <2>8. ASSUME NEW t, TR_Deserialize(t)
        PROVE  HandlesFresh'
    <3>1. esys_handle_cnt' = esys_handle_cnt + 1
      BY <2>8 DEF TR_Deserialize, Number
    <3>2. ASSUME NEW x \in ObjectTR, x >= esys_handle_cnt + 1
          PROVE  /\ rsrc[x] = Absent => rsrc'[x] = Absent
                 /\ x \notin held => x \notin held'
      BY <2>8, <3>2, AllocFresh DEF TR_Deserialize
    <3> QED
      BY <3>1, <3>2, FreshStep
  <2>9. ASSUME NEW t, SetTimeout(t)
        PROVE  HandlesFresh'
    BY <2>4, <2>9 DEF SetTimeout, esysVars
  <2>10. CASE Reinitialize
    BY <2>10 DEF Reinitialize, HandlesFresh, NodeTR
  <2>11. CASE UNCHANGED vars
    BY <2>4, <2>11 DEF vars, esysVars, appVars
  <2> QED
    BY <2>1, <2>2, <2>3, <2>5, <2>6, <2>7, <2>8, <2>9, <2>10, <2>11 DEF Next
<1> QED
  BY <1>1, <1>2, InvariantHolds, PTL DEF Spec
-----------------------------------------------------------------------------
(* Every number of the application names a node.                            *)

(* The node of a pending FromTPMPublic is not the application's yet, so that an
   error path may close it. *)
WrappedOK == call # NoCall /\ call.wrapped =>
               esys_handle < esys_handle_cnt /\ esys_handle \notin held

LiveInv == IInv /\ HandlesFresh /\ HeldIsLive /\ WrappedOK

(* All nodes are left that are not among those to be closed. *)
Spared(R, Q, gone) == \A x \in ObjectTR \ gone : R[x] # Absent => Q[x] # Absent

(* An Async function closes at most the nodes its caller asks it to close. *)
LEMMA AsyncKeeps ==
  ASSUME NEW c, NEW args, NEW p, NEW n, NEW s, NEW R, NEW gone,
         \/ n = 1 /\ AsyncInfeasible(c, R, gone)
         \/ AsyncUnsalted(c, args, p, n, s, R, gone)
         \/ AsyncUnprepared(c, args, p, n, s, R, gone)
         \/ AsyncUnsent(c, args, p, n, s, R, gone)
         \/ AsyncSent(c, args, p, n, s, R)
  PROVE  Spared(R, rsrc', gone)
<1>1. \/ rsrc' = Close(R, gone) \/ rsrc' = Close(LookUp(R, args), gone)
      \/ rsrc' = LookUp(R, args)
  BY DEF AsyncInfeasible, AsyncUnsalted, AsyncUnprepared, AsyncUnsent, AsyncSent, Transmitted
<1>2. \A x \in ObjectTR : R[x] # Absent => LookUp(R, args)[x] # Absent
  BY ContextAssumption DEF LookUp, NodeTR
<1> QED
  BY <1>1, <1>2 DEF Spared, Close, NodeTR

(* The error paths of a pending command leave the application's nodes alone. *)
LEMMA CleanupKeeps ==
  ASSUME LiveInv, call # NoCall
  PROVE  /\ Cleanup \cap held = {} /\ state = "SENT"
         /\ \A h \in held : h \in ObjectTR /\ h \in NodeTR /\ rsrc[h] # Absent
<1>1. Cleanup \cap held = {}
  BY DEF LiveInv, WrappedOK, Cleanup
<1>2. state = "SENT"
  BY PendingFacts DEF LiveInv
<1> QED
  BY <1>1, <1>2 DEF LiveInv, HeldIsLive, IInv, TypeOK, NodeTR

(* The number that is taken next is not the application's. *)
LEMMA NextIsFree ==
  ASSUME LiveInv
  PROVE  /\ esys_handle_cnt \in Int /\ esys_handle_cnt \notin held
         /\ esys_handle_cnt + 1 \notin held
<1>1. esys_handle_cnt \in Int
  BY Bounds DEF LiveInv, IInv, TypeOK
<1>2. \A h \in held : h \in ObjectTR /\ h \in Int
  BY Bounds DEF LiveInv, IInv, TypeOK, ObjectTR
<1> QED
  BY <1>1, <1>2 DEF LiveInv, HandlesFresh

(* Esys_X_Async and Esys_TR_FromTPMPublic_Async. *)
LEMMA LiveStart ==
  ASSUME LiveInv, NEW c, NEW args, NEW p, NEW one, Start(c, args, p, one)
  PROVE  HeldIsLive' /\ WrappedOK'
<1>1. \A h \in held : h \in ObjectTR /\ rsrc[h] # Absent
  BY DEF LiveInv, HeldIsLive, IInv, TypeOK, Start, Idle
<1>2. Spared(rsrc, rsrc', {})
  BY AsyncKeeps DEF Start
<1>3. call' = NoCall \/ ~call'.wrapped
  BY DEF Start, Idle, Started
<1> QED
  BY <1>1, <1>2, <1>3 DEF HeldIsLive, WrappedOK, Start, Spared

(* Esys_TR_FromTPMPublic_Async closes no node but the one it made. *)
LEMMA LiveFromTPMPublic ==
  ASSUME LiveInv, NEW c, NEW t \in TpmHandle, NEW one, FromTPMPublic(c, t, one)
  PROVE  HeldIsLive' /\ WrappedOK'
<1> DEFINE h == esys_handle_cnt
           R == Alloc(rsrc, h, t)
<1>1. h \notin held /\ h \in Int
  BY NextIsFree
<1>2. \A x \in held : x \in ObjectTR /\ R[x] # Absent /\ x # h
  BY <1>1 DEF LiveInv, HeldIsLive, IInv, TypeOK, FromTPMPublic, Idle, Alloc, NodeTR
<1>3. Spared(R, rsrc', {h})
  BY AsyncKeeps DEF FromTPMPublic
<1>4. esys_handle' < esys_handle_cnt' /\ esys_handle' \notin held /\ held' = held
  BY <1>1 DEF FromTPMPublic, Number
<1> QED
  BY <1>2, <1>3, <1>4 DEF HeldIsLive, WrappedOK, Spared

(* When it is refused, the number it leaves in esys_handle is a new one. *)
LEMMA LiveRefused ==
  ASSUME LiveInv, FromTPMPublicRefused
  PROVE  HeldIsLive' /\ WrappedOK'
BY NextIsFree DEF FromTPMPublicRefused, Number, appVars, LiveInv, HeldIsLive, WrappedOK

(* Finish closes the node of FromTPMPublic when it fails, and otherwise those that
   the application names no longer. *)
LEMMA LiveFinish ==
  ASSUME LiveInv, Finish
  PROVE  HeldIsLive' /\ WrappedOK'
<1>1. esys_handle_cnt \in Int /\ esys_handle_cnt \notin held
      /\ esys_handle_cnt + 1 \notin held
  BY NextIsFree
<1>2. call # NoCall
  BY DEF Finish, FinishLost, FinishTryAgain, FinishTransportError, Unreceived,
         FinishMalformed, FinishExhausted, FinishResubmits, FinishTpmError, FinishCorrupt,
         FinishCreates, FinishEvicts, FinishOther, Succeeded, Responded, Polled, NoCall
<1>3. /\ Cleanup \cap held = {}
      /\ \A h \in held : h \in ObjectTR /\ h \in NodeTR /\ rsrc[h] # Absent
  BY <1>2, CleanupKeeps
<1>4. ASSUME Returned
      PROVE  WrappedOK'
  BY <1>4 DEF Returned, WrappedOK
<1>5. CASE FinishLost
  BY <1>3, <1>4, <1>5 DEF FinishLost, esysVars, HeldIsLive
<1>6. CASE FinishTryAgain
  BY <1>1, <1>3, <1>6
  DEF FinishTryAgain, Burn, Number, appVars, HeldIsLive, LiveInv, WrappedOK, IInv, TypeOK,
      CallOK
<1>7. CASE FinishTransportError \/ FinishMalformed \/ FinishExhausted \/ FinishTpmError
  <2>1. Returned /\ rsrc' = Close(rsrc, Cleanup) /\ held' = held
    BY <1>7 DEF FinishTransportError, FinishMalformed, FinishExhausted, FinishTpmError, Failed
  <2> QED
    BY <1>3, <1>4, <2>1 DEF HeldIsLive, Close
<1>8. CASE FinishResubmits
  <2>1. \A h \in held : rsrc'[h] # Absent
    <3>1. \A h \in held : h \in ObjectTR /\ rsrc[h] # Absent /\ h \notin Cleanup
      BY <1>3
    <3>2. Spared(rsrc, rsrc', Cleanup)
      BY <1>8, AsyncKeeps DEF FinishResubmits, Resubmitted
    <3> QED
      BY <3>1, <3>2 DEF Spared
  <2>2. held' = held /\ esys_handle' = esys_handle /\ Burn
    BY <1>8 DEF FinishResubmits
  <2>3. CASE ~Returned
    <3>1. call'.wrapped = call.wrapped
      BY <1>2, <1>8, <2>3, PendingFacts DEF FinishResubmits, Resubmitted, LiveInv, Call
    <3>2. call.wrapped => esys_handle \in Int
      BY <1>2, Bounds, PendingFacts DEF LiveInv, ObjectTR
    <3> QED
      BY <1>1, <1>2, <2>1, <2>2, <3>1, <3>2
      DEF HeldIsLive, LiveInv, WrappedOK, Burn, Number
  <2> QED
    BY <1>4, <2>1, <2>2, <2>3 DEF HeldIsLive
<1>9. CASE FinishCorrupt
  BY <1>4, <1>9 DEF FinishCorrupt, HeldIsLive
<1>10. CASE FinishCreates
  <2>1. wire.handle # Absent
    BY ContextAssumption DEF LiveInv, IInv, TypeOK, Handles
  <2>2. state' # "INTERNALERROR" =>
          /\ rsrc' = Alloc(rsrc, esys_handle_cnt, wire.handle)
          /\ held' = held \cup {esys_handle_cnt}
    BY <1>10 DEF FinishCreates
  <2>3. esys_handle_cnt \in NodeTR
    BY <1>2, <1>10, PendingFacts, BurntBounds, NextNumber
    DEF FinishCreates, LiveInv, NodeTR
  <2>4. DOMAIN rsrc = NodeTR
    BY DEF LiveInv, IInv, TypeOK
  <2>5. HeldIsLive'
    BY <1>3, <2>1, <2>2, <2>3, <2>4 DEF HeldIsLive, Alloc
  <2> QED
    BY <1>4, <1>10, <2>5 DEF FinishCreates, Succeeded
<1>11. CASE FinishEvicts
  <2> DEFINE n == esys_handle_cnt
  <2>1. /\ call.cmd \in Commands /\ Profile[call.cmd].evicts
        /\ in.param # Absent /\ Blank # Absent
    BY <1>2, <1>11, PendingFacts, ContextAssumption
    DEF FinishEvicts, Succeeded, Responded, Polled, LiveInv, Persistents
  <2>2. n \in NodeTR /\ n + 1 \in NodeTR
    <3>1. Burnt(call.cmd, call.sent) \in Nat /\ Burnt(call.cmd, call.sent) >= 2
      BY <1>2, <2>1, PendingFacts, BurntBounds DEF LiveInv
    <3>2. n + 2 <= MaxObject + 1
      BY <1>1, <1>2, <3>1, PendingFacts, Bounds DEF LiveInv
    <3> QED
      BY <3>2, NextNumber DEF LiveInv, NodeTR
  <2>3. DOMAIN rsrc = NodeTR
    BY DEF LiveInv, IInv, TypeOK
  <2>4. state' # "INTERNALERROR" =>
          \/ rsrc' = Alloc(rsrc, n, Blank) /\ held' = held
          \/ /\ rsrc' = Alloc(Alloc(rsrc, n, Blank), n + 1, in.param)
             /\ held' = held \cup {n + 1}
    BY <1>11 DEF FinishEvicts
  <2>5. HeldIsLive'
    BY <1>3, <2>1, <2>2, <2>3, <2>4 DEF HeldIsLive, Alloc
  <2> QED
    BY <1>4, <1>11, <2>5 DEF FinishEvicts, Succeeded
<1>12. CASE FinishOther
  <2> DEFINE gone == Closing(call.cmd, in.args)
  <2>1. state' # "INTERNALERROR" =>
          rsrc' = Close(rsrc, gone) /\ held' = (held \ gone) \cup Cleanup
    BY <1>12 DEF FinishOther
  <2>2. Cleanup \cap gone = {} /\ \A h \in Cleanup : h \in NodeTR /\ rsrc[h] # Absent
    BY <1>2, <1>12, PendingFacts
    DEF FinishOther, Succeeded, Responded, Polled, Cleanup, Closing, LiveInv, NodeTR
  <2>3. HeldIsLive'
    BY <1>3, <2>1, <2>2 DEF HeldIsLive, Close
  <2> QED
    BY <1>4, <1>12, <2>3 DEF FinishOther, Succeeded
<1> QED
  BY <1>5, <1>6, <1>7, <1>8, <1>9, <1>10, <1>11, <1>12 DEF Finish

(* Both hold together with what was proved before. *)
LEMMA LiveInvariant == Spec => []LiveInv
<1>1. Init => HeldIsLive /\ WrappedOK
  BY DEF Init, HeldIsLive, WrappedOK
<1>2. LiveInv /\ [Next]_vars => HeldIsLive' /\ WrappedOK'
  <2> SUFFICES ASSUME LiveInv, [Next]_vars
               PROVE  HeldIsLive' /\ WrappedOK'
    OBVIOUS
  <2>1. ASSUME NEW c, NEW args, NEW p, NEW one, Start(c, args, p, one)
        PROVE  HeldIsLive' /\ WrappedOK'
    BY <2>1, LiveStart
  <2>2. ASSUME NEW c, NEW t \in TpmHandle, NEW one, FromTPMPublic(c, t, one)
        PROVE  HeldIsLive' /\ WrappedOK'
    BY <2>2, LiveFromTPMPublic
  <2>3. CASE FromTPMPublicRefused
    BY <2>3, LiveRefused
  <2>4. CASE UNCHANGED <<state, esys_handle, esys_handle_cnt, rsrc, held, call>>
    BY <2>4 DEF LiveInv, HeldIsLive, WrappedOK
  <2>5. ASSUME NEW rc, TpmAnswers(rc)
        PROVE  HeldIsLive' /\ WrappedOK'
    BY <2>4, <2>5 DEF TpmAnswers, esysVars, appVars
  <2>6. CASE Finish
    BY <2>6, LiveFinish
  <2>7. ASSUME NEW h, TR_Close(h)
        PROVE  HeldIsLive' /\ WrappedOK'
    <3>1. held \subseteq NodeTR
      BY DEF LiveInv, IInv, TypeOK, NodeTR
    <3> QED
      BY <2>7, <3>1 DEF TR_Close, LiveInv, HeldIsLive, WrappedOK, Close
  <2>8. ASSUME NEW t \in Persistents \cup {Blank}, TR_Deserialize(t)
        PROVE  HeldIsLive' /\ WrappedOK'
    <3>1. t # Absent
      BY <2>8, ContextAssumption DEF Persistents
    <3>2. esys_handle_cnt' = esys_handle_cnt + 1 /\ held' = held \cup {esys_handle_cnt}
          /\ rsrc' = Alloc(rsrc, esys_handle_cnt, t)
          /\ UNCHANGED <<state, call, esys_handle>>
      BY <2>8 DEF TR_Deserialize, Number
    <3>3. DOMAIN rsrc = NodeTR /\ esys_handle_cnt \in NodeTR
      <4>1. esys_handle_cnt + 1 <= MaxObject + 1
        <5> DEFINE k == IF call = NoCall THEN 0 ELSE Burnt(call.cmd, call.sent)
        <5>1. k \in Nat
          BY PendingFacts, BurntBounds DEF LiveInv
        <5>2. esys_handle_cnt + (1 + k) <= MaxObject + 1
          BY <2>8 DEF TR_Deserialize, Room
        <5> HIDE DEF k
        <5> QED
          BY <5>1, <5>2, NextIsFree, Bounds
      <4> QED
        BY <4>1, NextNumber DEF LiveInv, IInv, TypeOK, NodeTR
    <3>4. HeldIsLive'
      BY <3>1, <3>2, <3>3 DEF LiveInv, HeldIsLive, Alloc
    <3>5. call # NoCall /\ call.wrapped => esys_handle \in Int
      BY Bounds, PendingFacts DEF LiveInv, ObjectTR
    <3>6. WrappedOK'
      BY <3>2, <3>5, NextIsFree DEF LiveInv, WrappedOK
    <3> QED
      BY <3>4, <3>6
  <2>9. ASSUME NEW t, SetTimeout(t)
        PROVE  HeldIsLive' /\ WrappedOK'
    BY <2>4, <2>9 DEF SetTimeout, esysVars
  <2>10. CASE Reinitialize
    BY <2>10 DEF Reinitialize, HeldIsLive, WrappedOK
  <2>11. CASE UNCHANGED vars
    BY <2>4, <2>11 DEF vars, esysVars, appVars
  <2> QED
    BY <2>1, <2>2, <2>3, <2>5, <2>6, <2>7, <2>8, <2>9, <2>10, <2>11 DEF Next
<1> QED
  BY <1>1, <1>2, InvariantHolds, NumbersFresh, PTL DEF Spec, LiveInv

(* As long as the context works, every number the application owns names a node
   of the list: no retry, resubmission or failure of a command closes a node
   that was handed out. *)
THEOREM HandlesLive == Spec => []HeldIsLive
<1>1. LiveInv => HeldIsLive
  BY DEF LiveInv
<1> QED
  BY <1>1, LiveInvariant, PTL
=============================================================================
