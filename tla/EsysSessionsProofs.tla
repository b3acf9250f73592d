------------------------ MODULE EsysSessionsProofs ------------------------
(***************************************************************************)
(* Proofs about EsysSessions, for any number of sessions, objects and      *)
(* authorisation values, any usages and nonces.  From SessionsInv: both    *)
(* sides agree on nonceTPM, nothing corrupted is delivered, authorisation  *)
(* values follow those of the TPM and session keys agree.  From HmacsInv,  *)
(* which adds the keys of the HMACs and of the parameter encryption: the   *)
(* type invariant, the TPM accepts the authorisations, its responses       *)
(* verify and both sides agree on what is encrypted.                       *)
(***************************************************************************)
EXTENDS EsysSessions, TLAPS, SequenceTheorems, FiniteSetTheorems

NodeFields == {"sessionType", "type_policy_session", "sessionKey", "sessionValue",
               "sizeSessionValue", "sizeHmacValue", "bound_entity",
               "sessionAttributes", "nonceCaller", "nonceTPM"}
SessionFields == {"type", "policy", "nonceTPM", "bound_entity", "sessionKey"}

(* A node of a session, and a session of the TPM, as far as the proofs need. *)
IsNode(node) == DOMAIN node = NodeFields /\ node.nonceCaller \in 0 .. CallerCycle - 1
IsSession(session) ==
  DOMAIN session = SessionFields /\ session.nonceTPM \in 0 .. TpmCycle - 1

IsCommand(c) ==
  /\ c.objects \in Seq(Objects) /\ c.slots \in Seq(Sessions \union {Password})
  /\ c.op \in {"change", "undefine"} => Len(c.objects) = 1

Answer    == wire.phase = "answered"
Succeeded == Answer /\ wire.rc = "success"
Unsigned(i) == InClear(Asked, i, sessions)

Phases ==
  /\ state \in {"INIT", "SENT", "INTERNALERROR"}
  /\ wire.phase \in {"idle", "sent", "answered"}
  /\ state = "SENT" <=> wire.phase # "idle"

(* The nodes of the library and the sessions of the TPM. *)
BothSides ==
  /\ \A s \in DOMAIN sessions : IsNode(sessions[s])
  /\ \A s \in DOMAIN tpm : IsSession(tpm[s])

(* No nonce differs until the TPM has done what a command asks. *)
SameNonces ==
  \A s \in DOMAIN sessions \cap DOMAIN tpm : sessions[s].nonceTPM = tpm[s].nonceTPM

(* The command under way: its sessions stay, the one it starts is new, and
   its salt is the one in the context. *)
UnderWay ==
  /\ IsCommand(Asked) /\ InSlots(Asked) \subseteq DOMAIN sessions
  /\ Asked.op = "start" => /\ Asked.arg.session \notin DOMAIN sessions
                           /\ Asked.arg.salted => salt = Salt(Asked.arg)

(* Values that were right are so until the TPM changes them, and then they are
   what the command asks for. *)
StillRight ==
  \A i \in DOMAIN Asked.objects :
    Asked.objects[i] \in wire.right =>
      IF Succeeded /\ Asked.op \in {"change", "undefine"}
      THEN Asked.op = "change" => tpmAuth[Asked.objects[i]] = Asked.arg
      ELSE wire.believed[i] = tpmAuth[Asked.objects[i]]

(* Slots of a command without an HMAC do not continue their session; the
   others have one. *)
SlotsSent ==
  /\ DOMAIN wire.auths = DOMAIN Asked.slots
  /\ \A i \in DOMAIN Asked.slots :
       IF Unsigned(i) THEN wire.auths[i].attributes = {}
       ELSE wire.auths[i].hmac.newer \in 0 .. CallerCycle - 1

AnswerFields == {"phase", "command", "rc", "result", "auths", "intact",
                 "encrypting", "believed", "right", "policies"}
AuthFields == {"nonce", "attributes", "hmac"}
NoResult == Cipher(<<>>, NoNonce, NoNonce)

(* A response as the TPM sent it: every slot with an HMAC covers the nonce and
   the result. *)
Whole ==
  /\ wire.result # NoResult
  /\ \A i \in DOMAIN Asked.slots :
       /\ wire.auths[i].nonce # NoNonce =>
            /\ Asked.slots[i] # Password
            /\ wire.auths[i].nonce \in 0 .. TpmCycle - 1
            /\ wire.auths[i].hmac.newer = wire.auths[i].nonce
       /\ ~Unsigned(i) => wire.auths[i].hmac.hash = wire.result
(* And after it was corrupted: some slot covers something else. *)
Altered ==
  \/ \A i \in DOMAIN Asked.slots : ~Unsigned(i) => wire.auths[i].hmac.hash # wire.result
  \/ \E i \in DOMAIN Asked.slots :
       /\ Asked.slots[i] # Password
       /\ wire.auths[i].hmac.newer \notin {NoNonce, wire.auths[i].nonce}

SlotsAnswered ==
  \/ wire.auths = <<>> /\ ~wire.intact
  \/ /\ DOMAIN wire.auths = DOMAIN Asked.slots
     /\ \A i \in DOMAIN Asked.slots : DOMAIN wire.auths[i] = AuthFields
     /\ \A i \in DOMAIN Asked.slots :
          Asked.slots[i] \in InSlots(Asked) \cap DOMAIN tpm =>
            ~Unsigned(i) /\ wire.auths[i].hmac.newer = tpm[Asked.slots[i]].nonceTPM
     /\ IF wire.intact THEN Whole ELSE Altered

(* What the TPM has done when it answers success: nonces differ in the slots
   only, and a new session has the first nonce and the key of TpmStarted. *)
Done ==
  /\ DOMAIN wire = AnswerFields
  /\ \A s \in (DOMAIN sessions \cap DOMAIN tpm) \ InSlots(Asked) :
       sessions[s].nonceTPM = tpm[s].nonceTPM
  /\ SlotsAnswered
  /\ Asked.op = "start" => /\ Asked.arg.session \in DOMAIN tpm
                           /\ tpm[Asked.arg.session] = TpmStarted(Asked.arg)

SessionsInv ==
  /\ Phases
  /\ state # "INTERNALERROR" =>
       /\ BothSides
       /\ ~Succeeded => SameNonces
       /\ state = "SENT" => UnderWay /\ StillRight
       /\ Sent => SlotsSent
       /\ Succeeded => Done
-----------------------------------------------------------------------------
(* Nonces.                                                                  *)

(* A new nonce is one, and not the last. *)
LEMMA FreshNonces ==
  /\ \A n \in 0 .. TpmCycle - 1 : Fresh(n) \in 0 .. TpmCycle - 1 /\ Fresh(n) # n
  /\ \A n \in 0 .. CallerCycle - 1 : FreshCaller(n) \in 0 .. CallerCycle - 1
<1>1. TpmCycle \in Nat /\ TpmCycle >= 2 /\ CallerCycle \in Nat /\ CallerCycle >= 1
  BY EsysSessionsAssumption
<1>2. ASSUME NEW k \in Nat, k >= 1, NEW n \in 0 .. k - 1
      PROVE  (n + 1) % k = IF n + 1 = k THEN 0 ELSE n + 1
  BY <1>2
<1>. QED  BY <1>1, <1>2 DEF Fresh, FreshCaller

(* No nonce is NoNonce. *)
LEMMA NonceIsOne ==
  /\ NoNonce \notin 0 .. TpmCycle - 1 /\ NoNonce \notin 0 .. CallerCycle - 1
  /\ FirstNonceTPM \in 0 .. TpmCycle - 1 /\ FirstNonceCaller \in 0 .. CallerCycle - 1
BY EsysSessionsAssumption DEF NoNonce, FirstNonceTPM, FirstNonceCaller

(* The fields of HMACs and ciphertexts. *)
LEMMA HmacFields ==
  ASSUME NEW key, NEW hash, NEW newer, NEW older, NEW dec, NEW enc, NEW attributes
  PROVE  LET h == Hmac(key, hash, newer, older, dec, enc, attributes)
         IN  h.newer = newer /\ h.hash = hash
BY DEF Hmac

(* A password is an HMAC without nonces. *)
LEMMA ClearFields == ASSUME NEW v PROVE Clear(v).newer = NoNonce
BY DEF Clear, Hmac

(* No ciphertext of the TPM is the one that corruption puts in its place. *)
LEMMA CipherFields ==
  ASSUME NEW key, NEW newer, NEW older, newer # NoNonce
  PROVE  Cipher(key, newer, older) # NoResult
<1>1. Cipher(key, newer, older)[1].newer = newer /\ NoResult[1].newer = NoNonce
  BY DEF Cipher, NoResult
<1>. QED  BY <1>1
-----------------------------------------------------------------------------
(* Nodes.                                                                   *)

(* What the proofs need of a node stays. *)
Alike(new, node) ==
  /\ IsNode(new)
  /\ new.nonceTPM = node.nonceTPM /\ new.type_policy_session = node.type_policy_session

(* Computing a session value changes neither nonces nor policy. *)
LEMMA SessionValueAlike ==
  ASSUME NEW node, IsNode(node), NEW name, NEW value
  PROVE  /\ Alike(compute_session_value(node, name, value), node)
         /\ Alike(compute_session_value_NULL(node), node)
<1>1. ASSUME NEW x, NEW y, NEW z
      PROVE  Alike([node EXCEPT !.sessionValue = x, !.sizeSessionValue = y, !.sizeHmacValue = z],
                   node)
  BY DEF Alike, IsNode, NodeFields
<1>2. ASSUME NEW x, NEW y
      PROVE  Alike([node EXCEPT !.sessionValue = x, !.sizeSessionValue = y], node)
  BY DEF Alike, IsNode, NodeFields
<1>. QED  BY <1>1, <1>2 DEF compute_session_value, compute_session_value_NULL

(* Nor does submitting a command. *)
LEMMA RenewedAlike ==
  ASSUME BothSides, NEW c
  PROVE  /\ DOMAIN Renewed(c) = DOMAIN sessions
         /\ \A s \in DOMAIN sessions : Alike(Renewed(c)[s], sessions[s])
<1>1. DOMAIN Renewed(c) = DOMAIN sessions
  BY DEF Renewed
<1>2. ASSUME NEW s \in DOMAIN sessions
      PROVE  Alike(Renewed(c)[s], sessions[s])
  <2>1. IsNode(sessions[s])
    BY DEF BothSides
  <2>2. CASE s \notin InSlots(c)
    BY <2>1, <2>2 DEF Renewed, Alike
  <2>3. CASE s \in InSlots(c)
    <3> DEFINE i    == SlotOf(c, s)
               node == IF Authorises(c, i)
                       THEN compute_session_value(sessions[s], c.objects[i], auth[c.objects[i]])
                       ELSE compute_session_value_NULL(sessions[s])
    <3>1. Alike(node, sessions[s])
      BY <2>1, SessionValueAlike
    <3>2. Renewed(c)[s] = [node EXCEPT !.nonceCaller = FreshCaller(@)]
      BY <2>3 DEF Renewed
    <3> HIDE DEF node
    <3>3. DOMAIN node = NodeFields /\ node.nonceCaller \in 0 .. CallerCycle - 1
      BY <3>1 DEF Alike, IsNode
    <3>4. FreshCaller(node.nonceCaller) \in 0 .. CallerCycle - 1
      BY <3>3, FreshNonces
    <3> HIDE DEF i
    <3>5. Alike([node EXCEPT !.nonceCaller = FreshCaller(@)], node)
      BY <3>3, <3>4 DEF Alike, IsNode, NodeFields
    <3>. QED  BY <3>1, <3>2, <3>5 DEF Alike
  <2>. QED  BY <2>2, <2>3
<1>. QED  BY <1>1, <1>2

(* The nodes after ChangeAuth and UndefineSpaceSpecial have recomputed one. *)
LEMMA RecomputedAlike ==
  ASSUME BothSides
  PROVE  /\ DOMAIN Recomputed = DOMAIN sessions
         /\ \A s \in DOMAIN sessions : Alike(Recomputed[s], sessions[s])
<1> DEFINE s1 == Asked.slots[1]
           o1 == Asked.objects[1]
           value == compute_session_value(sessions[s1], o1, Asked.arg)
           size == (sessions[s1].sizeHmacValue - Len(auth[o1])) % 2^16
<1>1. \A s \in DOMAIN sessions : IsNode(sessions[s]) /\ Alike(sessions[s], sessions[s])
  BY DEF BothSides, Alike
<1>2. \/ Recomputed = sessions
      \/ Recomputed = [sessions EXCEPT ![s1] = value]
      \/ Recomputed = [sessions EXCEPT ![s1].sizeHmacValue = size]
  BY DEF Recomputed
<1>3. s1 \in DOMAIN sessions => Alike(value, sessions[s1])
  BY <1>1, SessionValueAlike
<1> HIDE DEF value, size, s1
<1>4. s1 \in DOMAIN sessions => Alike([sessions[s1] EXCEPT !.sizeHmacValue = size], sessions[s1])
  BY <1>1 DEF Alike, IsNode, NodeFields
<1>. QED  BY <1>1, <1>2, <1>3, <1>4

(* A slot is without an HMAC as long as its session keeps its policy. *)
LEMMA SameClear ==
  ASSUME NEW c, NEW i \in DOMAIN c.slots, c.slots \in Seq(Sessions \union {Password}),
         InSlots(c) \subseteq DOMAIN sessions, NEW nodes,
         \A s \in DOMAIN sessions : Alike(nodes[s], sessions[s])
  PROVE  /\ InClear(c, i, nodes) <=> InClear(c, i, sessions)
         /\ c.slots[i] # Password => c.slots[i] \in InSlots(c)
<1>1. c.slots[i] # Password => c.slots[i] \in InSlots(c)
  BY DEF InSlots, Range
<1>. QED  BY <1>1 DEF InClear, Alike
-----------------------------------------------------------------------------
(* Submitting a command.                                                    *)

(* What the slots of a command hold. *)
LEMMA SlotsOfCommand ==
  ASSUME NEW c, NEW nodes
  PROVE  /\ DOMAIN gen_auths(c, nodes) = DOMAIN c.slots
         /\ \A i \in DOMAIN c.slots :
              IF InClear(c, i, nodes) THEN gen_auths(c, nodes)[i].attributes = {}
              ELSE gen_auths(c, nodes)[i].hmac.newer = nodes[c.slots[i]].nonceCaller
<1>1. DOMAIN gen_auths(c, nodes) = DOMAIN c.slots
  BY DEF gen_auths
<1>2. ASSUME NEW i \in DOMAIN c.slots, InClear(c, i, nodes)
      PROVE  gen_auths(c, nodes)[i].attributes = {}
  BY <1>2 DEF gen_auths
<1>3. ASSUME NEW i \in DOMAIN c.slots, ~InClear(c, i, nodes)
      PROVE  gen_auths(c, nodes)[i].hmac.newer = nodes[c.slots[i]].nonceCaller
  <2>1. gen_auths(c, nodes)[i] = compute_hmac(c, i, nodes)
    BY <1>3 DEF gen_auths
  <2>. QED  BY <2>1, HmacFields DEF compute_hmac
<1>. QED  BY <1>1, <1>2, <1>3

(* Submitting a command, or submitting it again, keeps the invariant. *)
LEMMA SubmitStep ==
  ASSUME SessionsInv, state # "INTERNALERROR", SameNonces,
         NEW c, IsCommand(c), InSlots(c) \subseteq DOMAIN sessions,
         c.op = "start" => c.arg.session \notin DOMAIN sessions,
         Submit(c)
  PROVE  SessionsInv'
<1> DEFINE nodes == Renewed(c)
<1>1. /\ sessions' = nodes /\ salt' = NewSalt(c) /\ tpm' = tpm /\ tpmAuth' = tpmAuth
  BY DEF Submit
<1>2. BothSides
  BY DEF SessionsInv
<1>3. /\ DOMAIN nodes = DOMAIN sessions
      /\ \A s \in DOMAIN sessions : Alike(nodes[s], sessions[s])
  BY <1>2, RenewedAlike
<1>4. BothSides' /\ SameNonces'
  <2> HIDE DEF nodes
  <2>. QED  BY <1>1, <1>2, <1>3 DEF BothSides, SameNonces, Alike
<1>5. CASE Unencryptable(c)
  <2>1. state' = "INIT" /\ wire' = Quiet
    BY <1>5 DEF Submit
  <2>2. wire'.phase = "idle"
    BY <2>1 DEF Quiet
  <2>. QED  BY <1>4, <2>1, <2>2 DEF SessionsInv, Phases, Sent, Succeeded, Answer
<1>6. CASE ~Unencryptable(c)
  <2>1. state' = "SENT"
    BY <1>6 DEF Submit
  <2>2. /\ wire'.phase = "sent" /\ wire'.command = c
        /\ wire'.auths = gen_auths(c, nodes)
        /\ wire'.believed = [i \in DOMAIN c.objects |-> auth[c.objects[i]]]
        /\ wire'.right = {o \in Range(c.objects) \cap DOMAIN tpmAuth : auth[o] = tpmAuth[o]}
    BY <1>6 DEF Submit
  <2>3. Asked' = c /\ ~Succeeded'
    BY <2>2 DEF Asked, Succeeded, Answer
  <2>4. UnderWay'
    <3>1. c.op = "start" /\ c.arg.salted => salt' = Salt(c.arg)
      BY <1>1 DEF NewSalt
    <3> HIDE DEF nodes
    <3>2. InSlots(c)' = InSlots(c)
      BY DEF InSlots
    <3>. QED  BY <1>1, <1>3, <2>3, <3>1 DEF UnderWay, IsCommand, InSlots, Salt
  <2>5. StillRight'
    BY <1>1, <2>2, <2>3 DEF StillRight
  <2>6. SlotsSent'
    <3>1. ASSUME NEW i \in DOMAIN c.slots
          PROVE  IF InClear(c, i, nodes) THEN gen_auths(c, nodes)[i].attributes = {}
                 ELSE gen_auths(c, nodes)[i].hmac.newer \in 0 .. CallerCycle - 1
      <4>1. c.slots[i] # Password => c.slots[i] \in InSlots(c)
        BY DEF InSlots, Range, IsCommand
      <4>2. ~InClear(c, i, nodes) => nodes[c.slots[i]].nonceCaller \in 0 .. CallerCycle - 1
        <5> HIDE DEF nodes
        <5>. QED  BY <1>3, <4>1 DEF InClear, Alike, IsNode
      <4> HIDE DEF nodes
      <4>. QED  BY <4>2, SlotsOfCommand
    <3>2. \A i : InClear(c, i, nodes) = InClear(c, i, sessions)'
      BY <1>1 DEF InClear
    <3> HIDE DEF nodes
    <3>3. DOMAIN gen_auths(c, nodes) = DOMAIN c.slots
      BY SlotsOfCommand
    <3>. QED  BY <2>2, <2>3, <3>1, <3>2, <3>3 DEF SlotsSent, Unsigned
  <2>. QED  BY <1>4, <2>1, <2>2, <2>3, <2>4, <2>5, <2>6 DEF SessionsInv, Phases, Sent
<1>. QED  BY <1>5, <1>6

(* A command of the application is one of these. *)
LEMMA AsyncStep ==
  ASSUME SessionsInv, NEW c, IsCommand(c),
         c.op = "start" => c.arg.session \notin DOMAIN sessions, Async(c)
  PROVE  SessionsInv'
<1>1. state = "INIT" /\ InSlots(c) \subseteq DOMAIN sessions /\ Submit(c)
  BY DEF Async
<1>2. SameNonces
  BY <1>1 DEF SessionsInv, Phases, Succeeded, Answer
<1>. QED  BY <1>1, <1>2, SubmitStep

(* The commands the calls make have a form the invariant asks for. *)
LEMMA CommandsOfUsages ==
  ASSUME NEW u \in Usages, NEW op, NEW param, NEW result, NEW arg,
         op \in {"change", "undefine"} => Len(u.objects) = 1
  PROVE  IsCommand(Command(op, u, param, result, arg))
<1>1. u.objects \in Seq(Objects) /\ u.slots \in Seq(Sessions \union {Password})
  BY EsysSessionsAssumption
<1>. QED  BY <1>1 DEF IsCommand, Command

(* So have those without objects and sessions. *)
LEMMA BareCommands ==
  ASSUME NEW op, op \notin {"change", "undefine"}, NEW param, NEW result, NEW arg
  PROVE  IsCommand(Command(op, Bare, param, result, arg))
<1>1. Bare.objects = <<>> /\ Bare.slots = <<>>
  BY DEF Bare
<1>. QED  BY <1>1 DEF IsCommand, Command

(* Every call that begins a command keeps the invariant. *)
LEMMA CommandsStep ==
  ASSUME SessionsInv,
         NEW u \in Usages, NEW s, NEW new, NEW type, NEW f,
         \/ Use(u) \/ UndefineSpecial(u) \/ ChangeAuth(u, new) \/ StartAuthSession(u, f)
         \/ Policy(s, type) \/ FlushContext(s)
  PROVE  SessionsInv'
<1>1. CASE Use(u)
  <2>1. IsCommand(Command("use", u, u.param, u.result, None))
    BY CommandsOfUsages
  <2>. QED  BY <1>1, <2>1, AsyncStep DEF Use, Command
<1>2. CASE UndefineSpecial(u)
  <2>1. IsCommand(Command("undefine", u, "none", FALSE, None))
    BY <1>2, CommandsOfUsages DEF UndefineSpecial
  <2>. QED  BY <1>2, <2>1, AsyncStep DEF UndefineSpecial, Command
<1>3. CASE ChangeAuth(u, new)
  <2>1. IsCommand(Command("change", u, "full", FALSE, new))
    BY <1>3, CommandsOfUsages DEF ChangeAuth
  <2>. QED  BY <1>3, <2>1, AsyncStep DEF ChangeAuth, Command
<1>4. CASE StartAuthSession(u, f)
  <2>1. IsCommand(Command("start", u, "full", TRUE, f))
    BY CommandsOfUsages
  <2>2. Command("start", u, "full", TRUE, f).arg = f
    BY DEF Command
  <2>. QED  BY <1>4, <2>1, <2>2, AsyncStep DEF StartAuthSession
<1>5. CASE Policy(s, type)
  <2>1. IsCommand(Command("policy", Bare, "none", FALSE, [session |-> s, type |-> type]))
    BY BareCommands
  <2>. QED  BY <1>5, <2>1, AsyncStep DEF Policy, Command
<1>6. CASE FlushContext(s)
  <2>1. IsCommand(Command("flush", Bare, "none", FALSE, s))
    BY BareCommands
  <2>. QED  BY <1>6, <2>1, AsyncStep DEF FlushContext, Command
<1>. QED  BY <1>1, <1>2, <1>3, <1>4, <1>5, <1>6
-----------------------------------------------------------------------------
(* Calls that begin no command.                                             *)

(* Nothing the invariant depends on changes. *)
LEMMA StableStep ==
  ASSUME SessionsInv, state' = state, wire' = wire, salt' = salt, tpm' = tpm,
         tpmAuth' = tpmAuth, DOMAIN sessions' = DOMAIN sessions,
         BothSides => \A s \in DOMAIN sessions : Alike(sessions'[s], sessions[s])
  PROVE  SessionsInv'
<1>1. /\ Asked' = Asked /\ Sent' = Sent /\ Succeeded' = Succeeded /\ Answer' = Answer
      /\ Phases'
  BY DEF Asked, Sent, Succeeded, Answer, Phases, SessionsInv
<1>2. CASE state = "INTERNALERROR"
  BY <1>1, <1>2 DEF SessionsInv
<1>3. CASE state # "INTERNALERROR"
  <2>1. BothSides /\ (~Succeeded => SameNonces)
    BY <1>3 DEF SessionsInv
  <2>2. \A s \in DOMAIN sessions : Alike(sessions'[s], sessions[s])
    BY <2>1
  <2>3. BothSides' /\ (SameNonces => SameNonces')
    BY <2>1, <2>2 DEF BothSides, SameNonces, Alike
  <2>4. InSlots(Asked)' = InSlots(Asked)
    BY DEF InSlots, Asked
  <2>5. state = "SENT" => UnderWay' /\ StillRight'
    BY <1>1, <1>3, <2>4 DEF SessionsInv, UnderWay, StillRight, Salt, IsCommand
  <2>6. ASSUME state = "SENT", NEW i \in DOMAIN Asked.slots
        PROVE  Unsigned(i)' <=> Unsigned(i)
    <3>1. UnderWay
      BY <1>3, <2>6 DEF SessionsInv
    <3>2. Asked.slots[i] # Password => Asked.slots[i] \in DOMAIN sessions
      BY <3>1 DEF UnderWay, IsCommand, InSlots, Range
    <3>. QED  BY <1>1, <2>2, <3>2 DEF Unsigned, InClear, Alike
  <2>7. Sent => SlotsSent'
    BY <1>1, <1>3, <2>6 DEF SessionsInv, SlotsSent, Sent, Phases
  <2>8. Succeeded => Done'
    <3>1. Succeeded => Done /\ state = "SENT"
      BY <1>3 DEF SessionsInv, Phases, Succeeded, Answer
    <3>2. Succeeded => (Whole => Whole') /\ (Altered => Altered')
      BY <1>1, <2>6, <3>1 DEF Whole, Altered
    <3>3. Succeeded => SlotsAnswered'
      BY <1>1, <2>6, <3>1, <3>2 DEF Done, SlotsAnswered
    <3>4. TpmStarted(Asked.arg)' = TpmStarted(Asked.arg)
      BY <1>1 DEF TpmStarted
    <3>5. Succeeded => \A s \in (DOMAIN sessions \cap DOMAIN tpm) \ InSlots(Asked) :
                         sessions'[s].nonceTPM = tpm[s].nonceTPM
      BY <2>2, <3>1 DEF Done, Alike
    <3>. QED  BY <1>1, <2>4, <3>1, <3>3, <3>4, <3>5 DEF Done
  <2>. QED  BY <1>1, <2>1, <2>3, <2>5, <2>7, <2>8 DEF SessionsInv
<1>. QED  BY <1>2, <1>3

(* The values of objects are no part of the invariant. *)
LEMMA SetAuthStep ==
  ASSUME SessionsInv, NEW o, NEW value, SetAuth(o, value)
  PROVE  SessionsInv'
<1>1. BothSides => \A s \in DOMAIN sessions : Alike(sessions[s], sessions[s])
  BY DEF BothSides, Alike
<1>. QED  BY <1>1, StableStep DEF SetAuth

(* Attributes are no part of what both sides agree on. *)
LEMMA SetAttributesStep ==
  ASSUME SessionsInv, NEW s, NEW attributes, SetAttributes(s, attributes)
  PROVE  SessionsInv'
<1>1. /\ s \in DOMAIN sessions
      /\ sessions' = [sessions EXCEPT ![s].sessionAttributes = attributes]
  BY DEF SetAttributes
<1>2. ASSUME BothSides, NEW t \in DOMAIN sessions
      PROVE  Alike(sessions'[t], sessions[t])
  <2>1. IsNode(sessions[t])
    BY <1>2 DEF BothSides
  <2>2. Alike(sessions[t], sessions[t])
    BY <2>1 DEF Alike
  <2>3. Alike([sessions[t] EXCEPT !.sessionAttributes = attributes], sessions[t])
    BY <2>1 DEF Alike, IsNode, NodeFields
  <2>. QED  BY <1>1, <2>2, <2>3
<1>3. DOMAIN sessions' = DOMAIN sessions
  BY <1>1
<1>. QED  BY <1>2, <1>3, StableStep DEF SetAttributes

(* A closed session is one less to compare. *)
LEMMA CloseStep ==
  ASSUME SessionsInv, NEW s, Close(s)
  PROVE  SessionsInv'
<1>1. /\ state = "INIT" /\ state' = state /\ wire' = wire /\ tpm' = tpm
      /\ DOMAIN sessions' = DOMAIN sessions \ {s}
      /\ \A t \in DOMAIN sessions' : sessions'[t] = sessions[t]
  BY DEF Close, Restrict
<1>2. wire.phase = "idle" /\ BothSides /\ SameNonces
  BY <1>1 DEF SessionsInv, Phases, Succeeded, Answer
<1>3. BothSides' /\ SameNonces'
  BY <1>1, <1>2 DEF BothSides, SameNonces
<1>4. Phases' /\ ~Succeeded' /\ ~Sent'
  BY <1>1, <1>2 DEF SessionsInv, Phases, Succeeded, Answer, Sent
<1>. QED  BY <1>1, <1>3, <1>4 DEF SessionsInv

(* An error that ends a command leaves the sessions as they are. *)
LEMMA FinishErrorStep ==
  ASSUME SessionsInv, FinishError
  PROVE  SessionsInv'
<1>1. /\ state = "SENT" /\ ~Succeeded /\ state' = "INIT" /\ wire' = Quiet
      /\ sessions' = sessions /\ tpm' = tpm
  BY DEF FinishError, Succeeded
<1>2. BothSides /\ SameNonces
  BY <1>1 DEF SessionsInv
<1>3. BothSides' /\ SameNonces'
  BY <1>1, <1>2 DEF BothSides, SameNonces
<1>4. wire'.phase = "idle"
  BY <1>1 DEF Quiet
<1>. QED  BY <1>1, <1>3, <1>4 DEF SessionsInv, Phases, Succeeded, Answer, Sent

(* A resubmission is a submission by sessions that agree. *)
LEMMA FinishRetryStep ==
  ASSUME SessionsInv, FinishRetry
  PROVE  SessionsInv'
<1>1. state = "SENT" /\ ~Succeeded /\ Submit(Asked)
  BY DEF FinishRetry, Succeeded
<1>2. SameNonces /\ UnderWay
  BY <1>1 DEF SessionsInv
<1>. QED  BY <1>1, <1>2, SubmitStep DEF UnderWay
-----------------------------------------------------------------------------
(* The TPM.                                                                 *)

(* What a response says. *)
LEMMA AnsweredFields ==
  ASSUME NEW rc, NEW result, NEW auths
  PROVE  LET answer == Answered(rc, result, auths)
         IN  /\ answer.phase = "answered" /\ answer.command = Asked /\ answer.rc = rc
             /\ answer.result = result /\ answer.auths = auths /\ answer.intact
             /\ answer.believed = wire.believed /\ answer.right = wire.right
             /\ DOMAIN answer = AnswerFields
BY DEF Answered, AnswerFields

(* The TPM refuses without changing a session. *)
LEMMA TpmRefusesStep ==
  ASSUME SessionsInv, TpmRefuses
  PROVE  SessionsInv'
<1>1. /\ Sent /\ state' = state /\ sessions' = sessions /\ salt' = salt
      /\ tpm' = tpm /\ tpmAuth' = tpmAuth
  BY DEF TpmRefuses
<1>2. /\ wire'.phase = "answered" /\ wire'.command = Asked /\ wire'.rc # "success"
      /\ wire'.believed = wire.believed /\ wire'.right = wire.right
  <2>1. PICK rc \in {"error", "retry"} : wire' = Answered(rc, PlainText, <<>>)
    BY DEF TpmRefuses
  <2>. QED  BY <2>1, AnsweredFields
<1>3. Asked' = Asked /\ ~Succeeded /\ ~Succeeded' /\ ~Sent'
  BY <1>1, <1>2 DEF Asked, Succeeded, Answer, Sent
<1>4. state = "SENT" /\ BothSides /\ SameNonces /\ UnderWay /\ StillRight
  BY <1>1, <1>3 DEF SessionsInv, Phases, Sent
<1>5. BothSides' /\ SameNonces'
  BY <1>1, <1>4 DEF BothSides, SameNonces
<1>6. UnderWay' /\ StillRight'
  BY <1>1, <1>2, <1>3, <1>4 DEF UnderWay, StillRight, IsCommand, InSlots, Salt
<1>. QED  BY <1>1, <1>2, <1>3, <1>4, <1>5, <1>6 DEF SessionsInv, Phases

(* The session of a slot, and the slot where the TPM looks for it. *)
LEMMA SlotOfSession ==
  ASSUME NEW c, NEW s \in InSlots(c)
  PROVE  SlotOf(c, s) \in DOMAIN c.slots /\ c.slots[SlotOf(c, s)] = s
<1>1. \E i \in DOMAIN c.slots : c.slots[i] = s
  BY DEF InSlots, Range
<1>. QED  BY <1>1 DEF SlotOf

(* What the TPM accepts as a password was sent as one. *)
LEMMA NoPasswordAsked ==
  ASSUME Accepts, SlotsSent, NEW i \in DOMAIN Asked.slots, ~Unsigned(i)
  PROVE  ~AsksPassword(i) /\ Asked.slots[i] # Password
<1>1. wire.auths[i].hmac.newer # NoNonce
  BY NonceIsOne DEF SlotsSent
<1>2. wire.auths[i].hmac = Expected(i)
  BY DEF Accepts
<1>3. ASSUME AsksPassword(i) PROVE FALSE
  <2> DEFINE v == IF Authorises(Asked, i) THEN tpmAuth[Asked.objects[i]] ELSE <<>>
  <2>1. Expected(i) = Clear(v)
    BY <1>3 DEF Expected
  <2> HIDE DEF v
  <2>. QED  BY <1>1, <1>2, <2>1, ClearFields
<1>. QED  BY <1>3 DEF AsksPassword

(* The sessions of the TPM after a command: those of slots in the clear have
   ended, the others have a new nonce; one may have started. *)
LEMMA SessionsAfterFacts ==
  ASSUME SessionsInv, Sent, Accepts, Possible
  PROVE  /\ \A s \in DOMAIN SessionsAfter : IsSession(SessionsAfter[s])
         /\ \A s \in DOMAIN SessionsAfter \cap DOMAIN sessions :
              /\ s \in DOMAIN tpm
              /\ SessionsAfter[s].nonceTPM =
                   IF s \in InSlots(Asked) THEN Fresh(tpm[s].nonceTPM) ELSE tpm[s].nonceTPM
         /\ \A i \in DOMAIN Asked.slots :
              Asked.slots[i] \in InSlots(Asked) \cap DOMAIN SessionsAfter => ~Unsigned(i)
         /\ Asked.op = "start" =>
              /\ Asked.arg.session \in DOMAIN SessionsAfter
              /\ SessionsAfter[Asked.arg.session] = TpmStarted(Asked.arg)
<1>1. BothSides /\ UnderWay /\ SlotsSent
  BY DEF SessionsInv, Phases, Sent
<1> DEFINE left == [s \in DOMAIN tpm \ Ended |-> Continued(s)]
<1>2. ASSUME NEW s \in DOMAIN tpm
      PROVE  /\ IsSession(Continued(s))
             /\ Continued(s).nonceTPM =
                  IF s \in InSlots(Asked) THEN Fresh(tpm[s].nonceTPM) ELSE tpm[s].nonceTPM
  <2>1. DOMAIN tpm[s] = SessionFields /\ tpm[s].nonceTPM \in 0 .. TpmCycle - 1
    BY <1>1 DEF BothSides, IsSession
  <2>2. Fresh(tpm[s].nonceTPM) \in 0 .. TpmCycle - 1
    BY <2>1, FreshNonces
  <2> DEFINE nonce == IF s \in InSlots(Asked) THEN Fresh(tpm[s].nonceTPM) ELSE tpm[s].nonceTPM
             policy == IF Asked.op = "policy" /\ Asked.arg.session = s THEN Asked.arg.type
                       ELSE IF s \in InSlots(Asked) /\ Authorises(Asked, SlotOf(Asked, s))
                       THEN "NO_POLICY_AUTH" ELSE tpm[s].policy
  <2>3. Continued(s) = [tpm[s] EXCEPT !.nonceTPM = nonce, !.policy = policy]
    BY <2>1 DEF Continued, SessionFields
  <2>4. nonce \in 0 .. TpmCycle - 1
    BY <2>1, <2>2
  <2>5. nonce = IF s \in InSlots(Asked) THEN Fresh(tpm[s].nonceTPM) ELSE tpm[s].nonceTPM
    OBVIOUS
  <2> HIDE DEF nonce, policy
  <2>6. /\ DOMAIN Continued(s) = DOMAIN tpm[s] /\ Continued(s).nonceTPM = nonce
    BY <2>1, <2>3 DEF SessionFields
  <2>. QED  BY <2>1, <2>4, <2>5, <2>6 DEF IsSession
<1>3. /\ DOMAIN left \subseteq DOMAIN tpm /\ DOMAIN left \cap Ended = {}
      /\ \A s \in DOMAIN left : left[s] = Continued(s)
  OBVIOUS
<1>4. IsSession(TpmStarted(Asked.arg))
  BY NonceIsOne DEF IsSession, TpmStarted, SessionFields
<1>5. IF Asked.op = "start"
      THEN /\ DOMAIN SessionsAfter = DOMAIN left \union {Asked.arg.session}
           /\ Asked.arg.session \notin DOMAIN left
           /\ Asked.arg.session \notin DOMAIN sessions
           /\ \A s \in DOMAIN left : SessionsAfter[s] = left[s]
           /\ SessionsAfter[Asked.arg.session] = TpmStarted(Asked.arg)
      ELSE SessionsAfter = left
  <2>1. Asked.op = "start" => /\ Asked.arg.session \notin DOMAIN tpm
                              /\ Asked.arg.session \notin DOMAIN sessions
    BY <1>1 DEF Possible, UnderWay
  <2>2. SessionsAfter = IF Asked.op = "start"
                        THEN [s \in DOMAIN left \union {Asked.arg.session} |->
                                IF s \in DOMAIN left THEN left[s] ELSE TpmStarted(Asked.arg)]
                        ELSE left
    BY DEF SessionsAfter
  <2>3. Asked.op = "start" => Asked.arg.session \notin DOMAIN left
    BY <1>3, <2>1
  <2> HIDE DEF left
  <2>. QED  BY <2>1, <2>2, <2>3
<1>6. ASSUME NEW i \in DOMAIN Asked.slots, Asked.slots[i] \in InSlots(Asked), Unsigned(i)
      PROVE  Asked.slots[i] \in Ended
  <2> DEFINE s == Asked.slots[i]
             j == SlotOf(Asked, s)
  <2>1. j \in DOMAIN Asked.slots /\ Asked.slots[j] = Asked.slots[i]
    BY <1>6, SlotOfSession
  <2>2. Unsigned(j)
    BY <1>6, <2>1 DEF Unsigned, InClear
  <2>3. wire.auths[j].attributes = {}
    BY <1>1, <2>1, <2>2 DEF SlotsSent
  <2>. QED  BY <1>6, <2>3 DEF Ended
<1> HIDE DEF left
<1>7. \A s \in DOMAIN SessionsAfter : IsSession(SessionsAfter[s])
  BY <1>2, <1>3, <1>4, <1>5
<1>8. \A s \in DOMAIN SessionsAfter \cap DOMAIN sessions : s \in DOMAIN left /\ SessionsAfter[s] = left[s]
  BY <1>5
<1>9. InSlots(Asked) \subseteq DOMAIN sessions
  BY <1>1 DEF UnderWay
<1>10. ASSUME NEW i \in DOMAIN Asked.slots,
              Asked.slots[i] \in InSlots(Asked) \cap DOMAIN SessionsAfter
       PROVE  ~Unsigned(i)
  BY <1>3, <1>6, <1>8, <1>9, <1>10
<1>. QED  BY <1>2, <1>3, <1>5, <1>7, <1>8, <1>10

(* The response of a slot with an HMAC covers the nonce and the result. *)
LEMMA ResponseOfSlot ==
  ASSUME NEW i
  PROVE  /\ DOMAIN Response(i) = AuthFields
         /\ AsksPassword(i) => Response(i).nonce = NoNonce
         /\ ~AsksPassword(i) => /\ Response(i).nonce = Fresh(SlotSession(i).nonceTPM)
                                /\ Response(i).hmac.newer = Response(i).nonce
                                /\ Response(i).hmac.hash = Result
<1>1. CASE AsksPassword(i)
  BY <1>1 DEF Response, AuthFields
<1>2. CASE ~AsksPassword(i)
  <2> DEFINE nonce == Fresh(SlotSession(i).nonceTPM)
             hmac  == Hmac(TpmHmacKey(i, AuthsAfter), Result, nonce, wire.auths[i].nonce,
                           NoNonce, NoNonce, wire.auths[i].attributes)
  <2>1. Response(i) = [nonce |-> nonce, attributes |-> wire.auths[i].attributes, hmac |-> hmac]
    BY <1>2 DEF Response
  <2>2. hmac.newer = nonce /\ hmac.hash = Result
    BY HmacFields
  <2>3. nonce = Fresh(SlotSession(i).nonceTPM)
    OBVIOUS
  <2> HIDE DEF nonce, hmac
  <2>. QED  BY <1>2, <2>1, <2>2, <2>3 DEF AuthFields
<1>. QED  BY <1>1, <1>2

(* The TPM answers with a result of its own. *)
LEMMA ResultWhole ==
  ASSUME SessionsInv, Sent, Accepts
  PROVE  Result # NoResult
<1>1. BothSides /\ UnderWay /\ SlotsSent
  BY DEF SessionsInv, Phases, Sent
<1>2. CASE SlotsWith("encrypt") = {}
  BY <1>2 DEF Result, PlainText, NoResult, Cipher
<1>3. CASE SlotsWith("encrypt") # {}
  <2> DEFINE i == CHOOSE i \in SlotsWith("encrypt") : TRUE
             nonce == Fresh(SlotSession(i).nonceTPM)
  <2>1. i \in DOMAIN Asked.slots /\ "encrypt" \in wire.auths[i].attributes
    BY <1>3 DEF SlotsWith
  <2>2. Result = Cipher(TpmEncryptKey(i, AuthsAfter), nonce, wire.auths[i].nonce)
    BY <1>3 DEF Result
  <2> HIDE DEF i
  <2>3. ~Unsigned(i)
    BY <1>1, <2>1 DEF SlotsSent
  <2>4. Asked.slots[i] # Password
    BY <2>3 DEF Unsigned, InClear
  <2>5. Asked.slots[i] \in DOMAIN tpm
    BY <1>1, <2>1, <2>4 DEF Accepts, Present, InSlots, Range, UnderWay, IsCommand
  <2>6. nonce # NoNonce
    BY <1>1, <2>5, FreshNonces, NonceIsOne DEF BothSides, IsSession, SlotSession
  <2> HIDE DEF nonce
  <2>. QED  BY <2>2, <2>6, CipherFields
<1>. QED  BY <1>2, <1>3

(* What the TPM does with the authorisation values. *)
LEMMA AuthsAfterFacts ==
  ASSUME UnderWay, Present
  PROVE  /\ Asked.op \notin {"change", "undefine"} => AuthsAfter = tpmAuth
         /\ Asked.op = "change" =>
              \A i \in DOMAIN Asked.objects : AuthsAfter[Asked.objects[i]] = Asked.arg
<1>1. Asked.op \notin {"change", "undefine"} => AuthsAfter = tpmAuth
  BY DEF AuthsAfter
<1>2. ASSUME Asked.op = "change", NEW i \in DOMAIN Asked.objects
      PROVE  AuthsAfter[Asked.objects[i]] = Asked.arg
  <2>1. i = 1
    BY <1>2 DEF UnderWay, IsCommand
  <2>2. Asked.objects[i] \in DOMAIN tpmAuth
    BY DEF Present, Range
  <2>3. AuthsAfter = [tpmAuth EXCEPT ![Asked.objects[1]] = Asked.arg]
    BY <1>2 DEF AuthsAfter
  <2>. QED  BY <2>1, <2>2, <2>3
<1>. QED  BY <1>1, <1>2

(* When the TPM has executed a command, its answer covers what it has done. *)
LEMMA TpmExecutesStep ==
  ASSUME SessionsInv, TpmExecutes
  PROVE  SessionsInv'
<1> DEFINE auths == [i \in DOMAIN Asked.slots |-> Response(i)]
<1>1. /\ Sent /\ Accepts /\ Possible /\ Present
      /\ wire' = Answered("success", Result, auths)
      /\ tpm' = SessionsAfter /\ tpmAuth' = AuthsAfter
      /\ state' = state /\ sessions' = sessions /\ salt' = salt
  BY DEF TpmExecutes, Accepts
<1>2. /\ wire'.phase = "answered" /\ wire'.command = Asked /\ wire'.rc = "success"
      /\ wire'.result = Result /\ wire'.auths = auths /\ wire'.intact
      /\ wire'.believed = wire.believed /\ wire'.right = wire.right
      /\ DOMAIN wire' = AnswerFields
  BY <1>1, AnsweredFields
<1>3. Asked' = Asked /\ ~Succeeded /\ Succeeded' /\ ~Sent'
  BY <1>1, <1>2 DEF Asked, Succeeded, Answer, Sent
<1>4. state = "SENT" /\ BothSides /\ SameNonces /\ UnderWay /\ StillRight /\ SlotsSent
  BY <1>1, <1>3 DEF SessionsInv, Phases, Sent
<1>5. /\ \A s \in DOMAIN tpm' : IsSession(tpm'[s])
      /\ \A s \in DOMAIN tpm' \cap DOMAIN sessions :
           /\ s \in DOMAIN tpm
           /\ tpm'[s].nonceTPM =
                IF s \in InSlots(Asked) THEN Fresh(tpm[s].nonceTPM) ELSE tpm[s].nonceTPM
      /\ \A i \in DOMAIN Asked.slots :
           Asked.slots[i] \in InSlots(Asked) \cap DOMAIN tpm' => ~Unsigned(i)
      /\ Asked.op = "start" =>
           /\ Asked.arg.session \in DOMAIN tpm'
           /\ tpm'[Asked.arg.session] = TpmStarted(Asked.arg)
  BY <1>1, SessionsAfterFacts
<1>6. BothSides'
  BY <1>1, <1>4, <1>5 DEF BothSides
<1>7. UnderWay'
  BY <1>1, <1>3, <1>4 DEF UnderWay, IsCommand, InSlots, Salt
<1>8. StillRight'
  <2>1. /\ Asked.op \notin {"change", "undefine"} => tpmAuth' = tpmAuth
        /\ Asked.op = "change" =>
             \A i \in DOMAIN Asked.objects : tpmAuth'[Asked.objects[i]] = Asked.arg
    BY <1>1, <1>4, AuthsAfterFacts
  <2>. QED  BY <1>2, <1>3, <1>4, <2>1 DEF StillRight
<1>9. /\ InSlots(Asked)' = InSlots(Asked)
      /\ \A i : Unsigned(i)' = Unsigned(i)
  BY <1>1, <1>3 DEF Unsigned, InClear, InSlots
<1>10. SlotsAnswered'
  <2>1. DOMAIN auths = DOMAIN Asked.slots /\ \A i \in DOMAIN Asked.slots : auths[i] = Response(i)
    OBVIOUS
  <2> HIDE DEF auths
  <2>2. ASSUME NEW i \in DOMAIN Asked.slots
        PROVE  /\ DOMAIN auths[i] = AuthFields
               /\ auths[i].nonce # NoNonce => ~AsksPassword(i) /\ auths[i].hmac.newer = auths[i].nonce
               /\ ~Unsigned(i) => /\ auths[i].hmac.hash = Result
                                /\ auths[i].hmac.newer = auths[i].nonce
               /\ ~AsksPassword(i) => auths[i].nonce = Fresh(SlotSession(i).nonceTPM)
               /\ ~Unsigned(i) => ~AsksPassword(i)
    BY <1>1, <1>4, <2>1, NoPasswordAsked, ResponseOfSlot
  <2>3. ASSUME NEW i \in DOMAIN Asked.slots, ~AsksPassword(i)
        PROVE  /\ Asked.slots[i] # Password
               /\ Asked.slots[i] \in InSlots(Asked) /\ Asked.slots[i] \in DOMAIN tpm
               /\ Fresh(SlotSession(i).nonceTPM) \in 0 .. TpmCycle - 1
    <3>1. Asked.slots[i] # Password
      BY <2>3 DEF AsksPassword
    <3>2. Asked.slots[i] \in InSlots(Asked) /\ Asked.slots[i] \in DOMAIN tpm
      BY <1>1, <1>4, <3>1 DEF Present, InSlots, Range, UnderWay, IsCommand
    <3>3. SlotSession(i).nonceTPM \in 0 .. TpmCycle - 1
      BY <1>4, <3>2 DEF BothSides, IsSession, SlotSession
    <3>. QED  BY <3>1, <3>2, <3>3, FreshNonces
  <2>4. Whole'
    <3>1. Result # NoResult
      BY <1>1, ResultWhole
    <3>2. NoResult' = NoResult
      BY DEF NoResult, Cipher
    <3>3. ASSUME NEW i \in DOMAIN Asked.slots
          PROVE  /\ auths[i].nonce # NoNonce =>
                      /\ Asked.slots[i] # Password
                      /\ auths[i].nonce \in 0 .. TpmCycle - 1
                      /\ auths[i].hmac.newer = auths[i].nonce
                 /\ ~Unsigned(i) => auths[i].hmac.hash = Result
      BY <2>2, <2>3
    <3>. QED  BY <1>2, <1>3, <1>9, <3>1, <3>2, <3>3 DEF Whole
  <2>5. ASSUME NEW i \in DOMAIN Asked.slots, Asked.slots[i] \in InSlots(Asked) \cap DOMAIN tpm'
        PROVE  ~Unsigned(i) /\ auths[i].hmac.newer = tpm'[Asked.slots[i]].nonceTPM
    <3>1. ~Unsigned(i)
      BY <1>5, <2>5
    <3>2. auths[i].hmac.newer = Fresh(tpm[Asked.slots[i]].nonceTPM)
      BY <2>2, <3>1 DEF SlotSession
    <3>3. Asked.slots[i] \in DOMAIN sessions
      BY <1>4, <2>5 DEF UnderWay
    <3>. QED  BY <1>5, <2>5, <3>1, <3>2, <3>3
  <2>. QED  BY <1>2, <1>3, <1>9, <2>1, <2>2, <2>4, <2>5 DEF SlotsAnswered
<1>11. Done'
  <2>1. Asked.op = "start" => TpmStarted(Asked.arg)' = TpmStarted(Asked.arg)
    <3>1. Asked.op = "start" => tpmAuth' = tpmAuth
      BY <1>1, <1>4, AuthsAfterFacts
    <3>. QED  BY <1>3, <3>1 DEF TpmStarted
  <2>2. \A s \in (DOMAIN sessions \cap DOMAIN tpm') \ InSlots(Asked) :
           sessions[s].nonceTPM = tpm'[s].nonceTPM
    BY <1>4, <1>5 DEF SameNonces
  <2>. QED  BY <1>1, <1>2, <1>3, <1>5, <1>9, <1>10, <2>1, <2>2 DEF Done
<1>. QED  BY <1>1, <1>2, <1>3, <1>4, <1>6, <1>7, <1>8, <1>11 DEF SessionsInv, Phases

(* A corrupted response still names the command, and no longer covers all. *)
LEMMA CorruptStep ==
  ASSUME SessionsInv, Corrupt
  PROVE  SessionsInv'
<1>1. /\ Succeeded /\ wire.intact /\ state' = state /\ sessions' = sessions /\ salt' = salt
      /\ tpm' = tpm /\ tpmAuth' = tpmAuth
  BY DEF Corrupt, Succeeded, Answer
<1>2. state = "SENT" /\ BothSides /\ UnderWay /\ StillRight /\ Done
  BY <1>1 DEF SessionsInv, Phases, Succeeded, Answer
<1>3. PICK result, auths :
        /\ wire' = [wire EXCEPT !.intact = FALSE, !.result = result, !.auths = auths]
        /\ \/ result = NoResult /\ auths = wire.auths
           \/ result = wire.result /\ auths = <<>>
           \/ /\ result = wire.result
              /\ \E i \in DOMAIN wire.auths :
                   /\ wire.auths[i].nonce # NoNonce
                   /\ auths = [wire.auths EXCEPT ![i].nonce = Fresh(@)]
  <2>0. DOMAIN wire = AnswerFields
    BY <1>2 DEF Done
  <2>1. CASE wire' = [wire EXCEPT !.intact = FALSE, !.result = Cipher(<<>>, NoNonce, NoNonce)]
    <3>1. wire' = [wire EXCEPT !.intact = FALSE, !.result = NoResult, !.auths = wire.auths]
      BY <2>0, <2>1 DEF NoResult, AnswerFields
    <3>. QED  BY <3>1
  <2>2. CASE wire' = [wire EXCEPT !.intact = FALSE, !.auths = <<>>]
    <3>1. wire' = [wire EXCEPT !.intact = FALSE, !.result = wire.result, !.auths = <<>>]
      BY <2>0, <2>2 DEF AnswerFields
    <3>. QED  BY <3>1
  <2>3. ASSUME NEW i \in DOMAIN wire.auths, wire.auths[i].nonce # NoNonce,
               wire' = [wire EXCEPT !.intact = FALSE, !.auths[i].nonce = Fresh(@)]
        PROVE  wire' = [wire EXCEPT !.intact = FALSE, !.result = wire.result,
                                    !.auths = [wire.auths EXCEPT ![i].nonce = Fresh(@)]]
    BY <2>0, <2>3 DEF AnswerFields
  <2>. QED  BY <2>1, <2>2, <2>3 DEF Corrupt
<1>4. /\ DOMAIN wire' = AnswerFields /\ wire'.phase = wire.phase /\ wire'.command = wire.command
      /\ wire'.rc = wire.rc /\ wire'.believed = wire.believed /\ wire'.right = wire.right
      /\ ~wire'.intact /\ wire'.result = result /\ wire'.auths = auths
  BY <1>2, <1>3 DEF Done, AnswerFields
<1>5. Asked' = Asked /\ Succeeded' /\ ~Sent'
  BY <1>1, <1>4 DEF Asked, Succeeded, Answer, Sent
<1>6. /\ InSlots(Asked)' = InSlots(Asked)
      /\ \A i : Unsigned(i)' = Unsigned(i)
  BY <1>1, <1>5 DEF Unsigned, InClear, InSlots
<1>7. UnderWay' /\ StillRight'
  BY <1>1, <1>2, <1>4, <1>5, <1>6 DEF UnderWay, StillRight, IsCommand, Salt
<1>8. SlotsAnswered'
  <2>1. CASE auths = <<>>
    BY <1>4, <2>1 DEF SlotsAnswered
  <2>2. CASE auths # <<>>
    <3>1. wire.auths = <<>> => auths = <<>>
      BY <1>3
    <3>2. /\ DOMAIN wire.auths = DOMAIN Asked.slots /\ Whole
          /\ \A i \in DOMAIN Asked.slots : DOMAIN wire.auths[i] = AuthFields
          /\ \A i \in DOMAIN Asked.slots :
               Asked.slots[i] \in InSlots(Asked) \cap DOMAIN tpm =>
                 ~Unsigned(i) /\ wire.auths[i].hmac.newer = tpm[Asked.slots[i]].nonceTPM
      BY <1>1, <1>2, <2>2, <3>1 DEF Done, SlotsAnswered
    <3>3. /\ DOMAIN auths = DOMAIN wire.auths
          /\ \A i \in DOMAIN auths : /\ DOMAIN auths[i] = AuthFields
                                     /\ auths[i].hmac = wire.auths[i].hmac
      <4>1. ASSUME NEW k \in DOMAIN wire.auths,
                   auths = [wire.auths EXCEPT ![k].nonce = Fresh(@)],
                   NEW i \in DOMAIN auths
            PROVE  DOMAIN auths[i] = AuthFields /\ auths[i].hmac = wire.auths[i].hmac
        <5>1. DOMAIN wire.auths[i] = AuthFields
          BY <3>2, <4>1
        <5>2. auths[i] = IF i = k THEN [wire.auths[i] EXCEPT !.nonce = Fresh(@)] ELSE wire.auths[i]
          BY <4>1
        <5>. QED  BY <5>1, <5>2 DEF AuthFields
      <4>2. ASSUME NEW k \in DOMAIN wire.auths,
                   auths = [wire.auths EXCEPT ![k].nonce = Fresh(@)]
            PROVE  DOMAIN auths = DOMAIN wire.auths
        BY <4>2
      <4>3. auths = wire.auths
            \/ \E k \in DOMAIN wire.auths : auths = [wire.auths EXCEPT ![k].nonce = Fresh(@)]
        BY <1>3, <2>2
      <4>. QED  BY <3>2, <4>1, <4>2, <4>3
    <3>4. Altered'
      <4>1. CASE result = NoResult /\ auths = wire.auths
        BY <1>4, <1>5, <1>6, <3>2, <4>1 DEF Altered, Whole
      <4>2. CASE \E i \in DOMAIN wire.auths :
                   /\ wire.auths[i].nonce # NoNonce
                   /\ auths = [wire.auths EXCEPT ![i].nonce = Fresh(@)]
        <5>1. PICK i \in DOMAIN wire.auths :
                /\ wire.auths[i].nonce # NoNonce
                /\ auths = [wire.auths EXCEPT ![i].nonce = Fresh(@)]
          BY <4>2
        <5>2. /\ Asked.slots[i] # Password /\ wire.auths[i].nonce \in 0 .. TpmCycle - 1
              /\ wire.auths[i].hmac.newer = wire.auths[i].nonce
          BY <3>2, <5>1 DEF Whole
        <5>3. auths[i].nonce = Fresh(wire.auths[i].nonce) /\ auths[i].hmac = wire.auths[i].hmac
          BY <3>2, <5>1 DEF AuthFields
        <5>4. auths[i].hmac.newer \notin {NoNonce, auths[i].nonce}
          BY <5>1, <5>2, <5>3, FreshNonces
        <5>. QED  BY <1>4, <1>5, <3>2, <5>2, <5>4 DEF Altered
      <4>. QED  BY <1>3, <2>2, <4>1, <4>2
    <3>. QED  BY <1>1, <1>4, <1>5, <1>6, <3>2, <3>3, <3>4 DEF SlotsAnswered
  <2>. QED  BY <2>1, <2>2
<1>9. Done'
  <2>1. TpmStarted(Asked.arg)' = TpmStarted(Asked.arg)
    BY <1>1, <1>5 DEF TpmStarted
  <2>. QED  BY <1>1, <1>2, <1>4, <1>5, <1>6, <1>8, <2>1 DEF Done
<1>10. BothSides'
  BY <1>1, <1>2 DEF BothSides
<1>. QED  BY <1>1, <1>2, <1>4, <1>5, <1>7, <1>9, <1>10 DEF SessionsInv, Phases
-----------------------------------------------------------------------------
(* Verifying a response.                                                    *)

(* What the session of a slot becomes, and what its HMAC has covered when it is
   the one expected. *)
LEMMA ReceivedFacts ==
  ASSUME SessionsInv, Succeeded, NEW i \in DOMAIN Asked.slots, Asked.slots[i] # Password
  PROVE  /\ IsNode(Received(i))
         /\ ~Unsigned(i) => Received(i).nonceTPM = wire.auths[i].nonce
         /\ Verified(i) =>
              /\ wire.auths[i].hmac.newer \in {NoNonce, wire.auths[i].nonce}
              /\ ~Unsigned(i) => /\ wire.auths[i].hmac.newer = wire.auths[i].nonce
                               /\ wire.auths[i].hmac.hash = wire.result
<1>1. BothSides /\ UnderWay
  BY DEF SessionsInv, Phases, Succeeded, Answer
<1> DEFINE s    == Asked.slots[i]
           node == Recomputed[s]
<1>2. s \in DOMAIN sessions
  BY <1>1 DEF UnderWay, IsCommand, InSlots, Range
<1>3. IsNode(node) /\ node.type_policy_session = sessions[s].type_policy_session
  BY <1>1, <1>2, RecomputedAlike DEF Alike
<1>4. Unsigned(i) <=> node.type_policy_session = "POLICY_PASSWORD"
  BY <1>3 DEF Unsigned, InClear
<1>5. Received(i) = IF node.type_policy_session = "POLICY_PASSWORD" THEN node
                    ELSE [node EXCEPT !.nonceTPM = wire.auths[i].nonce,
                                      !.sessionAttributes = wire.auths[i].attributes]
  BY DEF Received
<1> HIDE DEF node
<1>6. /\ IsNode(Received(i))
      /\ Received(i).type_policy_session = node.type_policy_session
      /\ ~Unsigned(i) => Received(i).nonceTPM = wire.auths[i].nonce
  BY <1>3, <1>4, <1>5 DEF IsNode, NodeFields
<1>7. ASSUME Verified(i), Unsigned(i)
      PROVE  wire.auths[i].hmac.newer = NoNonce
  BY <1>4, <1>6, <1>7, ClearFields DEF Verified
<1>8. ASSUME Verified(i), ~Unsigned(i)
      PROVE  /\ wire.auths[i].hmac.newer = wire.auths[i].nonce
             /\ wire.auths[i].hmac.hash = wire.result
  <2> DEFINE hmac == Hmac(HmacKey(Received(i)), wire.result, Received(i).nonceTPM,
                          Received(i).nonceCaller, NoNonce, NoNonce, wire.auths[i].attributes)
  <2>1. wire.auths[i].hmac = hmac
    BY <1>4, <1>6, <1>8 DEF Verified
  <2>2. hmac.newer = Received(i).nonceTPM /\ hmac.hash = wire.result
    BY HmacFields
  <2> HIDE DEF hmac
  <2>. QED  BY <1>6, <1>8, <2>1, <2>2
<1>. QED  BY <1>6, <1>7, <1>8

(* A response that verifies has all its authorisations, each of them good. *)
LEMMA VerifiedSlots ==
  ASSUME SessionsInv, Succeeded, check_response
  PROVE  /\ Len(wire.auths) = Len(Asked.slots) /\ DOMAIN Asked.slots = 1 .. Len(Asked.slots)
         /\ \A i \in DOMAIN Asked.slots : Asked.slots[i] # Password => Verified(i)
         /\ DOMAIN Asked.slots # {} => wire.auths # <<>>
<1>1. UnderWay /\ SlotsAnswered
  BY DEF SessionsInv, Phases, Succeeded, Answer, Done
<1>2. DOMAIN Asked.slots = 1 .. Len(Asked.slots) /\ Len(Asked.slots) \in Nat
  BY <1>1 DEF UnderWay, IsCommand
<1>3. /\ Len(wire.auths) = Len(Asked.slots)
      /\ \A i \in DOMAIN wire.auths : Asked.slots[i] # Password => Verified(i)
  BY DEF check_response
<1>4. wire.auths = <<>> => DOMAIN Asked.slots = {}
  BY <1>2, <1>3
<1>5. wire.auths # <<>> => DOMAIN wire.auths = DOMAIN Asked.slots
  BY <1>1 DEF SlotsAnswered
<1>. QED  BY <1>2, <1>3, <1>4, <1>5

(* Nothing altered verifies if a slot has an HMAC. *)
LEMMA AlteredFails ==
  ASSUME SessionsInv, Succeeded, ~wire.intact, NEW i \in DOMAIN Asked.slots, ~Unsigned(i)
  PROVE  ~check_response
<1> SUFFICES ASSUME check_response PROVE FALSE
  OBVIOUS
<1>1. /\ \A k \in DOMAIN Asked.slots : Asked.slots[k] # Password => Verified(k)
      /\ wire.auths # <<>>
  BY VerifiedSlots
<1>2. Altered
  BY <1>1 DEF SessionsInv, Phases, Succeeded, Answer, Done, SlotsAnswered
<1>3. Asked.slots[i] # Password
  BY DEF Unsigned, InClear
<1>4. wire.auths[i].hmac.hash = wire.result
  BY <1>1, <1>3, ReceivedFacts
<1>5. ASSUME NEW k \in DOMAIN Asked.slots, Asked.slots[k] # Password
      PROVE  wire.auths[k].hmac.newer \in {NoNonce, wire.auths[k].nonce}
  BY <1>1, <1>5, ReceivedFacts
<1>. QED  BY <1>2, <1>4, <1>5 DEF Altered

(* The sessions after a response that verifies have the nonces of the TPM. *)
LEMMA CheckedFacts ==
  ASSUME SessionsInv, Succeeded, check_response
  PROVE  /\ DOMAIN Checked = DOMAIN sessions
         /\ \A s \in DOMAIN sessions :
              /\ IsNode(Checked[s])
              /\ s \in DOMAIN tpm => Checked[s].nonceTPM = tpm[s].nonceTPM
<1>1. BothSides /\ UnderWay /\ Done
  BY DEF SessionsInv, Phases, Succeeded, Answer
<1>2. /\ DOMAIN Recomputed = DOMAIN sessions
      /\ \A s \in DOMAIN sessions : Alike(Recomputed[s], sessions[s])
  BY <1>1, RecomputedAlike
<1>3. DOMAIN Checked = DOMAIN sessions
  BY <1>2 DEF Checked
<1>4. ASSUME NEW s \in DOMAIN sessions, s \notin InSlots(Asked)
      PROVE  /\ IsNode(Checked[s])
             /\ s \in DOMAIN tpm => Checked[s].nonceTPM = tpm[s].nonceTPM
  <2>1. Checked[s] = Recomputed[s]
    BY <1>2, <1>4 DEF Checked
  <2>2. s \in DOMAIN tpm => sessions[s].nonceTPM = tpm[s].nonceTPM
    BY <1>1, <1>4 DEF Done
  <2>. QED  BY <1>2, <2>1, <2>2 DEF Alike
<1>5. ASSUME NEW s \in DOMAIN sessions, s \in InSlots(Asked)
      PROVE  /\ IsNode(Checked[s])
             /\ s \in DOMAIN tpm => Checked[s].nonceTPM = tpm[s].nonceTPM
  <2> DEFINE i == SlotOf(Asked, s)
  <2>1. i \in DOMAIN Asked.slots /\ Asked.slots[i] = s
    BY <1>5, SlotOfSession
  <2>2. s # Password
    BY <1>5, EsysSessionsAssumption DEF InSlots
  <2>3. /\ Len(wire.auths) = Len(Asked.slots) /\ DOMAIN Asked.slots = 1 .. Len(Asked.slots)
        /\ \A k \in DOMAIN Asked.slots : Asked.slots[k] # Password => Verified(k)
        /\ wire.auths # <<>>
    BY <2>1, VerifiedSlots
  <2>4. Len(Asked.slots) \in Nat
    BY <1>1 DEF UnderWay, IsCommand
  <2>5. \A j \in 1 .. i - 1 : Asked.slots[j] # Password => Verified(j)
    <3> HIDE DEF i
    <3>1. 1 .. i - 1 \subseteq DOMAIN Asked.slots
      BY <2>1, <2>3, <2>4
    <3>. QED  BY <2>3, <3>1
  <2>6. Checked[s] = Received(i)
    BY <1>2, <1>5, <2>3, <2>5 DEF Checked
  <2> HIDE DEF i
  <2>7. /\ IsNode(Received(i))
        /\ ~Unsigned(i) => Received(i).nonceTPM = wire.auths[i].nonce
        /\ ~Unsigned(i) => wire.auths[i].hmac.newer = wire.auths[i].nonce
    BY <2>1, <2>2, <2>3, ReceivedFacts
  <2>8. s \in DOMAIN tpm => ~Unsigned(i) /\ wire.auths[i].hmac.newer = tpm[s].nonceTPM
    BY <1>1, <1>5, <2>1, <2>3 DEF Done, SlotsAnswered
  <2>. QED  BY <2>6, <2>7, <2>8
<1>. QED  BY <1>3, <1>4, <1>5

(* And so they have after the command is complete, a new session included. *)
LEMMA CompletedFacts ==
  ASSUME SessionsInv, Succeeded, check_response
  PROVE  /\ \A s \in DOMAIN Completed :
              /\ IsNode(Completed[s])
              /\ s \in DOMAIN tpm => Completed[s].nonceTPM = tpm[s].nonceTPM
         /\ \A s \in DOMAIN Completed \ DOMAIN sessions :
              /\ Asked.op = "start" /\ s = Asked.arg.session
              /\ Completed[s] = Started(Asked.arg)
<1>1. /\ DOMAIN Checked = DOMAIN sessions
      /\ \A s \in DOMAIN sessions :
           /\ IsNode(Checked[s])
           /\ s \in DOMAIN tpm => Checked[s].nonceTPM = tpm[s].nonceTPM
  BY CheckedFacts
<1>2. UnderWay /\ Done
  BY DEF SessionsInv, Phases, Succeeded, Answer
<1>3. CASE Asked.op = "start"
  <2>1. /\ DOMAIN Completed = DOMAIN sessions \union {Asked.arg.session}
        /\ \A s \in DOMAIN sessions : Completed[s] = Checked[s]
        /\ Asked.arg.session \notin DOMAIN sessions => Completed[Asked.arg.session] = Started(Asked.arg)
    BY <1>1, <1>3 DEF Completed
  <2>2. Asked.arg.session \notin DOMAIN sessions
    BY <1>2, <1>3 DEF UnderWay
  <2>3. IsNode(Started(Asked.arg)) /\ Started(Asked.arg).nonceTPM = FirstNonceTPM
    BY NonceIsOne DEF IsNode, Started, NodeFields
  <2>4. tpm[Asked.arg.session].nonceTPM = FirstNonceTPM
    BY <1>2, <1>3 DEF Done, TpmStarted
  <2>. QED  BY <1>1, <1>3, <2>1, <2>2, <2>3, <2>4
<1>4. CASE Asked.op = "flush"
  <2>1. Completed = Restrict(Checked, DOMAIN Checked \ {Asked.arg})
    BY <1>4 DEF Completed
  <2>2. /\ DOMAIN Completed \subseteq DOMAIN sessions
        /\ \A s \in DOMAIN Completed : Completed[s] = Checked[s]
    BY <1>1, <2>1 DEF Restrict
  <2>. QED  BY <1>1, <2>2
<1>5. CASE Asked.op = "policy" /\ Asked.arg.type # "NO_POLICY_AUTH"
  <2>1. Completed = [Checked EXCEPT ![Asked.arg.session].type_policy_session = Asked.arg.type]
    BY <1>5 DEF Completed
  <2>2. ASSUME NEW s \in DOMAIN sessions
        PROVE  IsNode(Completed[s]) /\ Completed[s].nonceTPM = Checked[s].nonceTPM
    <3>1. IsNode(Checked[s])
      BY <1>1
    <3>2. LET new == [Checked[s] EXCEPT !.type_policy_session = Asked.arg.type]
          IN  IsNode(new) /\ new.nonceTPM = Checked[s].nonceTPM
      BY <3>1 DEF IsNode, NodeFields
    <3>3. Completed[s] \in {Checked[s], [Checked[s] EXCEPT !.type_policy_session = Asked.arg.type]}
      BY <1>1, <2>1
    <3>. QED  BY <3>1, <3>2, <3>3
  <2>3. DOMAIN Completed = DOMAIN sessions
    BY <1>1, <2>1
  <2>. QED  BY <1>1, <2>2, <2>3
<1>6. CASE /\ Asked.op \notin {"start", "flush"}
           /\ ~(Asked.op = "policy" /\ Asked.arg.type # "NO_POLICY_AUTH")
  <2>1. Completed = Checked
    BY <1>6 DEF Completed
  <2>. QED  BY <1>1, <2>1
<1>. QED  BY <1>3, <1>4, <1>5, <1>6

(* The end of a command with a good response keeps the invariant. *)
LEMMA FinishVerifiedStep ==
  ASSUME SessionsInv, FinishVerified
  PROVE  SessionsInv'
<1>1. /\ Succeeded /\ check_response /\ sessions' = Completed /\ tpm' = tpm
      /\ state' \in {"INIT", "INTERNALERROR"} /\ wire' = Quiet
  BY DEF FinishVerified, Succeeded, Answer
<1>2. wire'.phase = "idle"
  BY <1>1 DEF Quiet
<1>3. BothSides
  BY <1>1 DEF SessionsInv, Phases, Succeeded, Answer
<1>4. BothSides' /\ SameNonces'
  BY <1>1, <1>3, CompletedFacts DEF BothSides, SameNonces
<1>. QED  BY <1>1, <1>2, <1>4 DEF SessionsInv, Phases, Succeeded, Answer, Sent

(* A context in INTERNALERROR does nothing more. *)
LEMMA FinishUnverifiedStep ==
  ASSUME SessionsInv, FinishUnverified
  PROVE  SessionsInv'
<1>1. state' = "INTERNALERROR" /\ wire' = Quiet
  BY DEF FinishUnverified
<1>2. wire'.phase = "idle"
  BY <1>1 DEF Quiet
<1>. QED  BY <1>1, <1>2 DEF SessionsInv, Phases, Succeeded, Answer, Sent
-----------------------------------------------------------------------------
(* The theorems.                                                            *)

(* SessionsInv is inductive. *)
LEMMA SessionsInit == Init => SessionsInv
<1> SUFFICES ASSUME Init PROVE SessionsInv
  OBVIOUS
<1>1. /\ state = "INIT" /\ wire = Quiet /\ sessions = <<>> /\ tpm = <<>>
  BY DEF Init
<1>2. wire.phase = "idle" /\ DOMAIN sessions = {} /\ DOMAIN tpm = {}
  BY <1>1 DEF Quiet
<1>. QED  BY <1>1, <1>2 DEF SessionsInv, Phases, BothSides, SameNonces, Succeeded, Answer, Sent

(* One case per action. *)
LEMMA SessionsStep == SessionsInv /\ [Next]_vars => SessionsInv'
<1> SUFFICES ASSUME SessionsInv, [Next]_vars PROVE SessionsInv'
  OBVIOUS
<1>1. CASE UNCHANGED vars
  <2>1. BothSides => \A s \in DOMAIN sessions : Alike(sessions[s], sessions[s])
    BY DEF BothSides, Alike
  <2>. QED  BY <1>1, <2>1, StableStep DEF vars
<1>2. ASSUME NEW u \in Usages, Use(u) \/ UndefineSpecial(u)
      PROVE  SessionsInv'
  BY <1>2, CommandsStep
<1>3. ASSUME NEW u \in Usages, NEW new \in AuthValue, ChangeAuth(u, new)
      PROVE  SessionsInv'
  BY <1>3, CommandsStep
<1>4. ASSUME NEW u \in Usages, NEW f \in Starts, StartAuthSession(u, f)
      PROVE  SessionsInv'
  BY <1>4, CommandsStep
<1>5. ASSUME NEW s \in Sessions, NEW type, Policy(s, type) \/ FlushContext(s)
      PROVE  SessionsInv'
  <2> DEFINE c == IF Policy(s, type)
                  THEN Command("policy", Bare, "none", FALSE, [session |-> s, type |-> type])
                  ELSE Command("flush", Bare, "none", FALSE, s)
  <2>1. Async(c) /\ IsCommand(c) /\ c.op # "start"
    BY <1>5, BareCommands DEF Policy, FlushContext, Command
  <2> HIDE DEF c
  <2>. QED  BY <2>1, AsyncStep
<1>6. ASSUME NEW s \in Sessions, NEW attributes, SetAttributes(s, attributes)
      PROVE  SessionsInv'
  BY <1>6, SetAttributesStep
<1>7. ASSUME NEW s \in Sessions, Close(s)
      PROVE  SessionsInv'
  BY <1>7, CloseStep
<1>8. ASSUME NEW o \in Objects, NEW value \in AuthValue, SetAuth(o, value)
      PROVE  SessionsInv'
  BY <1>8, SetAuthStep
<1>9. CASE TpmExecutes
  BY <1>9, TpmExecutesStep
<1>10. CASE TpmRefuses
  BY <1>10, TpmRefusesStep
<1>11. CASE Corrupt
  BY <1>11, CorruptStep
<1>12. CASE FinishRetry
  BY <1>12, FinishRetryStep
<1>13. CASE FinishError
  BY <1>13, FinishErrorStep
<1>14. CASE FinishVerified
  BY <1>14, FinishVerifiedStep
<1>15. CASE FinishUnverified
  BY <1>15, FinishUnverifiedStep
<1>. QED  BY <1>1, <1>2, <1>3, <1>4, <1>5, <1>6, <1>7, <1>8, <1>9, <1>10, <1>11, <1>12,
             <1>13, <1>14, <1>15 DEF Next

(* The invariant the theorems follow from. *)
LEMMA SessionsInvariant == Spec => []SessionsInv
<1>. QED  BY SessionsInit, SessionsStep, PTL DEF Spec

(* Between commands and while one is under way, both sides of every session
   have the same nonceTPM. *)
THEOREM NoncesOfBothSides == Spec => []NoncesAgree
<1>1. SessionsInv => NoncesAgree
  BY DEF SessionsInv, Phases, NoncesAgree, SameNonces, Succeeded, Answer, Sent
<1>. QED  BY <1>1, SessionsInvariant, PTL

(* Which steps end a command. *)
LEMMA StepsThatEnd ==
  ASSUME [Next]_vars, state = "SENT", state' = "INIT"
  PROVE  FinishRetry \/ FinishError \/ FinishVerified
<1>1. ~UNCHANGED vars
  BY DEF vars
<1>2. ASSUME NEW u, NEW s, NEW o, NEW new, NEW type, NEW f
      PROVE  /\ ~Use(u) /\ ~UndefineSpecial(u) /\ ~ChangeAuth(u, new)
             /\ ~StartAuthSession(u, f) /\ ~Policy(s, type) /\ ~FlushContext(s)
             /\ ~SetAuth(o, new) /\ ~SetAttributes(s, new) /\ ~Close(s)
  <2>1. \A c : ~Async(c)
    BY DEF Async
  <2>2. /\ ~Use(u) /\ ~UndefineSpecial(u) /\ ~ChangeAuth(u, new)
        /\ ~StartAuthSession(u, f) /\ ~Policy(s, type) /\ ~FlushContext(s)
    BY <2>1 DEF Use, UndefineSpecial, ChangeAuth, StartAuthSession, Policy, FlushContext
  <2>3. ~SetAuth(o, new) /\ ~SetAttributes(s, new) /\ ~Close(s)
    BY DEF SetAuth, SetAttributes, Close
  <2>. QED  BY <2>2, <2>3
<1>3. ~TpmExecutes /\ ~TpmRefuses /\ ~Corrupt /\ ~FinishUnverified
  BY DEF TpmExecutes, TpmRefuses, Corrupt, FinishUnverified
<1>. QED  BY <1>1, <1>2, <1>3 DEF Next

(* A response that was corrupted is never delivered when a slot has an HMAC. *)
THEOREM NothingCorruptedDelivered == Spec => CorruptedNotDelivered
<1> DEFINE Body ==
      (/\ wire.phase = "answered" /\ wire.rc = "success" /\ ~wire.intact
       /\ \E i \in DOMAIN Asked.slots : ~InClear(Asked, i, sessions))
      => state' # "INIT"
<1>1. SessionsInv /\ [Next]_vars => Body
  <2> SUFFICES ASSUME SessionsInv, [Next]_vars,
                      wire.phase = "answered", wire.rc = "success", ~wire.intact,
                      NEW i \in DOMAIN Asked.slots, ~InClear(Asked, i, sessions),
                      state' = "INIT"
               PROVE  FALSE
    OBVIOUS
  <2>1. Succeeded /\ state = "SENT"
    BY DEF SessionsInv, Phases, Succeeded, Answer
  <2>2. ~check_response
    BY <2>1, AlteredFails DEF Unsigned
  <2>3. FinishRetry \/ FinishError \/ FinishVerified
    BY <2>1, StepsThatEnd
  <2>. QED  BY <2>1, <2>2, <2>3 DEF FinishRetry, FinishError, FinishVerified, Succeeded
<1>2. SessionsInv /\ [Next]_vars => [Body]_vars
  BY <1>1
<1>. QED  BY <1>2, SessionsInvariant, PTL DEF CorruptedNotDelivered, Spec

(* An authorisation value the library knew before a command it knows after it:
   changed by the command, failed, or submitted again. *)
THEOREM AuthValuesFollow == Spec => AuthsFollow
<1> DEFINE Body ==
      state = "SENT" /\ state' = "INIT" =>
        \A i \in DOMAIN Asked.objects :
          LET o == Asked.objects[i]
          IN  o \in wire.right \cap DOMAIN auth' /\ auth[o] = wire.believed[i]
                => auth'[o] = tpmAuth[o]
<1>1. SessionsInv /\ [Next]_vars => Body
  <2> SUFFICES ASSUME SessionsInv, [Next]_vars, state = "SENT", state' = "INIT",
                      NEW i \in DOMAIN Asked.objects,
                      Asked.objects[i] \in wire.right \cap DOMAIN auth',
                      auth[Asked.objects[i]] = wire.believed[i]
               PROVE  auth'[Asked.objects[i]] = tpmAuth[Asked.objects[i]]
    OBVIOUS
  <2>1. UnderWay /\ StillRight
    BY DEF SessionsInv
  <2>2. CASE FinishRetry \/ FinishError
    <3>1. auth' = auth /\ ~Succeeded
      BY <2>2 DEF FinishRetry, FinishError, Submit, Succeeded
    <3>. QED  BY <2>1, <3>1 DEF StillRight
  <2>3. CASE FinishVerified
    <3>1. Succeeded /\ auth' = ChangedAuth
      BY <2>3 DEF FinishVerified, Succeeded, Answer
    <3>2. CASE Asked.op \notin {"change", "undefine"}
      <4>1. auth' = auth
        BY <3>1, <3>2 DEF ChangedAuth
      <4>. QED  BY <2>1, <3>2, <4>1 DEF StillRight
    <3>3. CASE Asked.op \in {"change", "undefine"}
      <4>1. i = 1
        BY <2>1, <3>3 DEF UnderWay, IsCommand
      <4>2. Asked.op = "undefine" => Asked.objects[1] \notin DOMAIN auth'
        BY <3>1 DEF ChangedAuth, Restrict
      <4>3. Asked.op = "change" => auth' = [auth EXCEPT ![Asked.objects[1]] = Asked.arg]
        BY <3>1 DEF ChangedAuth
      <4>4. Asked.op = "change" => tpmAuth[Asked.objects[i]] = Asked.arg
        BY <2>1, <3>1 DEF StillRight
      <4>. QED  BY <3>3, <4>1, <4>2, <4>3, <4>4
    <3>. QED  BY <3>2, <3>3
  <2>. QED  BY <2>2, <2>3, StepsThatEnd
<1>2. SessionsInv /\ [Next]_vars => [Body]_vars
  BY <1>1
<1>. QED  BY <1>2, SessionsInvariant, PTL DEF AuthsFollow, Spec

(* Only the end of StartAuthSession adds a session. *)
LEMMA StepsThatStart ==
  ASSUME [Next]_vars, NEW s \in DOMAIN sessions' \ DOMAIN sessions, state' = "INIT"
  PROVE  FinishVerified
<1>1. ~UNCHANGED vars
  BY DEF vars
<1>2. \A c : ~Submit(c)
  BY DEF Submit, Renewed
<1>3. \A c : ~Async(c)
  BY <1>2 DEF Async
<1>4. ASSUME NEW u, NEW x, NEW o, NEW new, NEW type, NEW f
      PROVE  /\ ~Use(u) /\ ~UndefineSpecial(u) /\ ~ChangeAuth(u, new)
             /\ ~StartAuthSession(u, f) /\ ~Policy(x, type) /\ ~FlushContext(x)
             /\ ~SetAuth(o, new) /\ ~SetAttributes(x, new) /\ ~Close(x)
  <2>1. /\ ~Use(u) /\ ~UndefineSpecial(u) /\ ~ChangeAuth(u, new)
        /\ ~StartAuthSession(u, f) /\ ~Policy(x, type) /\ ~FlushContext(x)
    BY <1>3 DEF Use, UndefineSpecial, ChangeAuth, StartAuthSession, Policy, FlushContext
  <2>2. ~SetAuth(o, new) /\ ~SetAttributes(x, new)
    BY DEF SetAuth, SetAttributes
  <2>3. ~Close(x)
    BY DEF Close, Restrict
  <2>. QED  BY <2>1, <2>2, <2>3
<1>5. ~TpmExecutes /\ ~TpmRefuses /\ ~Corrupt /\ ~FinishError
  BY DEF TpmExecutes, TpmRefuses, Corrupt, FinishError
<1>6. ~FinishRetry /\ ~FinishUnverified
  BY <1>2 DEF FinishRetry, FinishUnverified
<1>. QED  BY <1>1, <1>4, <1>5, <1>6 DEF Next

(* The key of a new session is the one of the TPM if the value of the object it
   is bound to is right, whatever salt an earlier one has left. *)
LEMMA KeyOfSession ==
  ASSUME NEW f, ~(Keyed(f) /\ Secret(f) = <<>>), f.salted => salt = Salt(f),
         f.bind # None => auth[f.bind] = tpmAuth[f.bind]
  PROVE  /\ Started(f).sessionKey = TpmStarted(f).sessionKey
         /\ Started(f).bound_entity = TpmStarted(f).bound_entity
<1>1. /\ Started(f).sessionKey =
           IF Keyed(f) THEN KDFa(Secret(f), FirstNonceTPM, FirstNonceCaller) ELSE <<>>
      /\ Started(f).bound_entity = IF f.bind = None THEN <<>>
                                   ELSE <<[name |-> f.bind, auth |-> auth[f.bind]]>>
  BY DEF Started
<1> DEFINE secret == (IF f.bind = None THEN <<>> ELSE tpmAuth[f.bind]) \o Salt(f)
<1>2. /\ TpmStarted(f).sessionKey =
           IF f.bind = None /\ ~f.salted THEN <<>>
           ELSE KDFa(secret, FirstNonceTPM, FirstNonceCaller)
      /\ TpmStarted(f).bound_entity = IF f.bind = None THEN <<>>
                                      ELSE <<[name |-> f.bind, auth |-> tpmAuth[f.bind]]>>
  BY DEF TpmStarted
<1>3. (IF f.salted THEN salt ELSE <<>>) = Salt(f)
  BY DEF Salt
<1>4. (IF f.bind = None THEN <<>> ELSE auth[f.bind]) =
        (IF f.bind = None THEN <<>> ELSE tpmAuth[f.bind])
  OBVIOUS
<1>5. Secret(f) = secret
  BY <1>3, <1>4 DEF Secret
<1>6. f.bind = None /\ ~f.salted => ~Keyed(f)
  BY DEF Secret
<1>7. f.salted => Keyed(f)
  BY DEF Keyed, Salt
<1>8. f.bind # None => Keyed(f)
  BY DEF Keyed
<1> HIDE DEF secret
<1>9. Started(f).sessionKey = TpmStarted(f).sessionKey
  BY <1>1, <1>2, <1>5, <1>6, <1>7, <1>8
<1>10. Started(f).bound_entity = TpmStarted(f).bound_entity
  BY <1>1, <1>2
<1>. QED  BY <1>9, <1>10

(* A session starts with the key and the bound entity the TPM has for it. *)
THEOREM SessionKeysAgree == Spec => KeysAgree
<1> DEFINE Body ==
      \A s \in DOMAIN sessions' \ DOMAIN sessions :
        state' = "INIT" /\ (Asked.arg.bind # None => auth[Asked.arg.bind] = tpmAuth[Asked.arg.bind])
          => sessions'[s].sessionKey = tpm[s].sessionKey
             /\ sessions'[s].bound_entity = tpm[s].bound_entity
<1>1. SessionsInv /\ [Next]_vars => Body
  <2> SUFFICES ASSUME SessionsInv, [Next]_vars,
                      NEW s \in DOMAIN sessions' \ DOMAIN sessions, state' = "INIT",
                      Asked.arg.bind # None => auth[Asked.arg.bind] = tpmAuth[Asked.arg.bind]
               PROVE  sessions'[s].sessionKey = tpm[s].sessionKey
                      /\ sessions'[s].bound_entity = tpm[s].bound_entity
    OBVIOUS
  <2>1. FinishVerified
    BY StepsThatStart
  <2>2. Succeeded /\ check_response /\ sessions' = Completed /\ ~Keyless
    BY <2>1 DEF FinishVerified, Succeeded, Answer
  <2>3. UnderWay /\ Done
    BY <2>2 DEF SessionsInv, Phases, Succeeded, Answer
  <2>4. Asked.op = "start" /\ s = Asked.arg.session /\ sessions'[s] = Started(Asked.arg)
    BY <2>2, CompletedFacts
  <2>5. tpm[s] = TpmStarted(Asked.arg)
    BY <2>3, <2>4 DEF Done
  <2>6. /\ ~(Keyed(Asked.arg) /\ Secret(Asked.arg) = <<>>)
        /\ Asked.arg.salted => salt = Salt(Asked.arg)
    BY <2>2, <2>3, <2>4 DEF Keyless, UnderWay
  <2>. QED  BY <2>4, <2>5, <2>6, KeyOfSession
<1>2. SessionsInv /\ [Next]_vars => [Body]_vars
  BY <1>1
<1>. QED  BY <1>2, SessionsInvariant, PTL DEF KeysAgree, Spec

---------------------------------------------------------------------------

Policies == {"NO_POLICY_AUTH", "POLICY_AUTH", "POLICY_PASSWORD"}

(* A key or value is empty or one byte. *)
IsKey(k) == k = <<>> \/ k = <<k[1]>>

(* A node of a session, every field of it. *)
TypedNode(node) ==
  /\ DOMAIN node = NodeFields
  /\ node.nonceCaller \in 0 .. CallerCycle - 1 /\ node.nonceTPM \in 0 .. TpmCycle - 1
  /\ node.sessionAttributes \subseteq Attributes
  /\ IsKey(node.sessionKey)
  /\ node.sessionValue = <<node.sessionValue[1], node.sessionValue[2]>>
  /\ node.sizeSessionValue \in 0..2 /\ node.sizeHmacValue \in 0..2 \union {2^16 - 1}
  /\ node.type_policy_session \in Policies

(* A command as the calls make it. *)
ProperCommand(c) ==
  /\ IsCommand(c)
  /\ DOMAIN c.objects \subseteq DOMAIN c.slots
  /\ \A i, j \in DOMAIN c.slots : i # j => c.slots[i] # c.slots[j] \/ c.slots[i] = Password
  /\ c.op = "start" => c.arg \in Starts
  /\ c.op = "change" => c.arg \in AuthValue
  /\ c.op = "policy" => /\ c.slots = <<>> /\ c.arg.session \in Sessions
                        /\ c.arg.type \in Policies
  /\ c.op = "undefine" => c.slots[1] # Password
  /\ c.op \in {"change", "undefine"} => ~c.result

(* The sessions and values, in every state of the context. *)
Typed ==
  /\ DOMAIN sessions \subseteq Sessions /\ DOMAIN tpm \subseteq Sessions
  /\ DOMAIN auth \subseteq Objects /\ DOMAIN tpmAuth \subseteq Objects
  /\ \A o \in DOMAIN auth : auth[o] \in AuthValue
  /\ \A o \in DOMAIN tpmAuth : tpmAuth[o] \in AuthValue
  /\ \A s \in DOMAIN sessions : TypedNode(sessions[s])
  /\ salt \in {<<>>} \union {<<s>> : s \in Sessions}

(* The two sides of a session: keys of one size, and one bound entity when the
   keys are equal. *)
Paired(node, session) ==
  /\ node.sessionType = session.type
  /\ session.type = "POLICY" \/ session.policy = "NO_POLICY_AUTH"
  /\ IsKey(session.sessionKey) /\ Len(node.sessionKey) = Len(session.sessionKey)
  /\ node.sessionKey = session.sessionKey => node.bound_entity = session.bound_entity
Pairs == \A s \in DOMAIN sessions \cap DOMAIN tpm : Paired(sessions[s], tpm[s])

(* Both sides know the same objects, but for the one the TPM has deleted. *)
SameObjects ==
  DOMAIN tpmAuth = IF Succeeded /\ Asked.op = "undefine" THEN DOMAIN auth \ {Asked.objects[1]}
                   ELSE DOMAIN auth

(* The key and the value are the first bytes of sessionValue. *)
Begins(bytes, k, v) ==
  /\ bytes = <<bytes[1], bytes[2]>>
  /\ SubSeq(bytes, 1, Len(k)) = k
  /\ SubSeq(bytes, 1, Len(k) + Len(v)) = k \o v

(* What iesys_compute_session_value leaves in the session of a slot. *)
AddsValue(node, o, value) ==
  ~(IsBound(node.bound_entity, o, value) /\ node.type_policy_session # "POLICY_AUTH")
Computed(node, value) ==
  /\ Begins(node.sessionValue, node.sessionKey, value)
  /\ node.sizeSessionValue = Len(node.sessionKey) + Len(value)
ValueOf(i) == IF Authorises(Asked, i) THEN wire.believed[i] ELSE <<>>
ValuesComputed ==
  \A i \in DOMAIN Asked.slots : Asked.slots[i] # Password =>
    LET node == sessions[Asked.slots[i]]
    IN  /\ Computed(node, ValueOf(i))
        /\ Authorises(Asked, i) =>
             node.sizeHmacValue =
               Len(node.sessionKey)
               + (IF AddsValue(node, Asked.objects[i], ValueOf(i)) THEN Len(ValueOf(i)) ELSE 0)

(* The command under way. *)
CommandUnderWay ==
  /\ ProperCommand(Asked) /\ Range(Asked.objects) \subseteq DOMAIN auth
  /\ Asked.op = "start" => Asked.arg.bind \in DOMAIN auth \union {None}
  /\ \A i \in DOMAIN Asked.objects : wire.believed[i] \in AuthValue
  /\ ValuesComputed

(* The authorisation of a slot, as it was sent. *)
NonceFor(i, slots) ==
  IF i = 1 /\ slots \ {1} # {}
  THEN sessions[Asked.slots[CHOOSE j \in slots : TRUE]].nonceTPM ELSE NoNonce
SlotSent(i) ==
  LET node == sessions[Asked.slots[i]]
      sent == wire.auths[i]
  IN  IF Unsigned(i)
      THEN sent.nonce = NoNonce /\ sent.attributes = {} /\ sent.hmac = Clear(ValueOf(i))
      ELSE /\ sent.nonce = node.nonceCaller /\ sent.attributes \subseteq Attributes
           /\ "decrypt" \in sent.attributes <=> i \in wire.decrypting
           /\ "encrypt" \in sent.attributes <=> i \in wire.encrypting
           /\ sent.hmac = Hmac(HmacKey(node), wire.param, node.nonceCaller, node.nonceTPM,
                               NonceFor(i, wire.decrypting), NonceFor(i, wire.encrypting),
                               sent.attributes)
SlotsOfSessions(slots) ==
  \A i \in slots : i \in DOMAIN Asked.slots /\ Asked.slots[i] # Password
CommandSent ==
  /\ \A i \in DOMAIN Asked.slots : SlotSent(i)
  /\ SlotsOfSessions(wire.decrypting) /\ SlotsOfSessions(wire.encrypting)
  /\ \A i, j \in wire.encrypting : i = j
  /\ wire.param = IF wire.decrypting = {} \/ Asked.param # "full" THEN PlainText
                  ELSE LET node == sessions[Asked.slots[CHOOSE i \in wire.decrypting : TRUE]]
                       IN  Cipher(EncryptKey(node), node.nonceCaller, node.nonceTPM)
  /\ wire.policies <=> \A s \in InSlots(Asked) \cap DOMAIN tpm :
                         sessions[s].type_policy_session = tpm[s].policy

(* The authorisation of a slot, as the TPM answers it: with the key that
   iesys_check_rp_hmacs will use. *)
Replaced(i) == i = 1 /\ Asked.op \in {"change", "undefine"}
KeyAnswered(i, key) ==
  LET node == sessions[Asked.slots[i]]
  IN  /\ ~Replaced(i) => key = HmacKey(node)
      /\ i = 1 /\ Asked.op = "undefine" => key = node.sessionKey
      /\ /\ i = 1 /\ Asked.op = "change"
         /\ \/ Asked.arg = <<>>
            \/ /\ wire.policies
               /\ node.sessionType = "POLICY" => node.type_policy_session # "NO_POLICY_AUTH"
         => key = HmacKey(compute_session_value(node, Asked.objects[1], Asked.arg))
SlotAnswered(i) ==
  LET node   == sessions[Asked.slots[i]]
      answer == wire.auths[i]
  IN  IF Unsigned(i) THEN answer.hmac = Clear(<<>>)
      ELSE /\ answer.hmac = Hmac(answer.hmac.key, wire.result, answer.nonce, node.nonceCaller,
                                 NoNonce, NoNonce, answer.attributes)
           /\ KeyAnswered(i, answer.hmac.key)
AllSigned == \A i \in DOMAIN Asked.slots : Asked.slots[i] = Password \/ ~Unsigned(i)
ResultAnswered ==
  AllSigned /\ wire.encrypting # {} =>
    LET i    == CHOOSE i \in wire.encrypting : TRUE
        node == sessions[Asked.slots[i]]
    IN  /\ SlotsOfSessions(wire.encrypting) /\ Asked.op \notin {"change", "undefine"}
        /\ wire.result =
             Cipher(node.sessionKey
                    \o (IF Authorises(Asked, i) THEN tpmAuth[Asked.objects[i]] ELSE <<>>),
                    wire.auths[i].nonce, node.nonceCaller)
AnswerTyped ==
  wire.auths # <<>> =>
    \A i \in DOMAIN Asked.slots :
      /\ wire.auths[i].attributes \subseteq Attributes
      /\ ~Unsigned(i) => wire.auths[i].nonce \in 0 .. TpmCycle - 1
CommandAnswered ==
  /\ Asked.op = "policy" => /\ Asked.arg.session \in DOMAIN tpm
                            /\ tpm[Asked.arg.session].type = "POLICY"
  /\ AnswerTyped
  /\ wire.intact => /\ Len(wire.auths) = Len(Asked.slots)
                    /\ \A i \in DOMAIN Asked.slots : SlotAnswered(i)
                    /\ ResultAnswered

HmacsInv ==
  /\ Typed
  /\ state # "INTERNALERROR" =>
       /\ Pairs /\ SameObjects
       /\ state = "SENT" => CommandUnderWay
       /\ Sent => CommandSent
       /\ Succeeded => CommandAnswered
-----------------------------------------------------------------------------
(* Keys and values.                                                         *)

(* An authorisation value is a key. *)
LEMMA ValuesAreKeys ==
  /\ \A v \in AuthValue : IsKey(v)
  /\ IsKey(<<>>)
BY DEF AuthValue, IsKey

(* A key has at most one byte. *)
LEMMA KeySize ==
  ASSUME NEW k, IsKey(k)
  PROVE  /\ Len(k) \in 0..1 /\ DOMAIN k = 1 .. Len(k)
         /\ Len(k) = 0 <=> k = <<>>
         /\ k \o <<>> = k /\ <<>> \o k = k
<1>1. CASE k = <<>>
  BY <1>1
<1>2. CASE k = <<k[1]>>
  <2> DEFINE b == k[1]
  <2>1. k = <<b>>
    BY <1>2
  <2> HIDE DEF b
  <2>2. Len(<<b>>) = 1 /\ DOMAIN <<b>> = 1..1 /\ <<b>> # <<>>
        /\ <<b>> \o <<>> = <<b>> /\ <<>> \o <<b>> = <<b>>
    OBVIOUS
  <2>. QED  BY <2>1, <2>2
<1>. QED  BY <1>1, <1>2 DEF IsKey

(* A key and a value together. *)
LEMMA SmallSizes ==
  ASSUME NEW m \in 0..1, NEW n \in 0..1
  PROVE  m + n \in 0..2 /\ m \in 0..2 /\ m + 0 = m
OBVIOUS

(* The first bytes of two. *)
LEMMA FirstBytes ==
  ASSUME NEW x, NEW y
  PROVE  /\ SubSeq(<<x, y>>, 1, 0) = <<>> /\ SubSeq(<<x, y>>, 1, 1) = <<x>>
         /\ SubSeq(<<x, y>>, 1, 2) = <<x, y>>
<1> DEFINE s == <<x, y>>
           u(n) == IF n = 1 THEN <<x>> ELSE <<x, y>>
<1>1. s \in Seq({x, y}) /\ Len(s) = 2 /\ s[1] = x /\ s[2] = y
  OBVIOUS
<1>2. ASSUME NEW n \in 1..2
      PROVE  u(n) \in Seq({x, y}) /\ Len(u(n)) = n /\ \A i \in 1..n : u(n)[i] = s[i]
  <2>1. CASE n = 1
    BY <2>1
  <2>2. CASE n = 2
    BY <2>2
  <2>. QED  BY <2>1, <2>2
<1>3. SubSeq(s, 1, 0) = <<>>
  BY SubSeqEmpty
<1> HIDE DEF s, u
<1>4. ASSUME NEW n \in 1..2
      PROVE  SubSeq(s, 1, n) = u(n)
  <2>1. \A i \in 1..n : s[i] \in {x, y} /\ 1 + i - 1 = i
    BY <1>1
  <2>2. n - 1 + 1 = n /\ 1 <= n /\ n \in Int /\ 1 \in Int
    OBVIOUS
  <2> DEFINE t == SubSeq(s, 1, n)
  <2>3. t \in Seq({x, y}) /\ Len(t) = n /\ \A i \in 1..n : t[i] = s[i]
    BY <2>1, <2>2, SubSeqProperties
  <2> HIDE DEF t
  <2>4. t = u(n)
    BY <1>2, <2>3, SeqEqual
  <2>. QED  BY <2>4 DEF t
<1>5. SubSeq(s, 1, 1) = <<x>> /\ SubSeq(s, 1, 2) = <<x, y>>
  BY <1>4 DEF u
<1>. QED  BY <1>3, <1>5 DEF s

(* A key and a value of one byte each. *)
LEMMA TwoBytes ==
  ASSUME NEW x, NEW y
  PROVE  <<x>> \o <<y>> = <<x, y>>
<1> DEFINE s == <<x>>
           t == <<y>>
           u == <<x, y>>
<1>1. /\ s \in Seq({x, y}) /\ t \in Seq({x, y}) /\ u \in Seq({x, y})
      /\ Len(s) = 1 /\ Len(t) = 1 /\ Len(u) = 2
      /\ s[1] = x /\ t[1] = y /\ u[1] = x /\ u[2] = y
  OBVIOUS
<1> HIDE DEF s, t, u
<1>2. s \o t \in Seq({x, y}) /\ Len(s \o t) = 2 /\ (s \o t)[1] = x /\ (s \o t)[2] = y
  BY <1>1, ConcatProperties
<1>3. s \o t = u
  BY <1>1, <1>2, SeqEqual
<1>. QED  BY <1>3 DEF s, t, u

(* What iesys_compute_session_value writes. *)
LEMMA OverwrittenBytes ==
  ASSUME NEW b1, NEW b2, NEW k, IsKey(k), NEW v, IsKey(v)
  PROVE  Begins(Overwritten(Overwritten(<<b1, b2>>, 0, k), Len(k), v), k, v)
<1> DEFINE new == Overwritten(Overwritten(<<b1, b2>>, 0, k), Len(k), v)
<1>1. ASSUME k = <<>>, v = <<>>
      PROVE  Begins(new, k, v)
  <2>1. new = <<b1, b2>>
    BY <1>1 DEF Overwritten
  <2>2. Len(k) = 0 /\ Len(k) + Len(v) = 0 /\ k \o v = <<>>
    BY <1>1
  <2> HIDE DEF new
  <2>3. new = <<new[1], new[2]>>
    BY <2>1
  <2>4. SubSeq(new, 1, 0) = <<>>
    BY <2>1, FirstBytes
  <2>. QED  BY <1>1, <2>2, <2>3, <2>4 DEF Begins
<1>2. ASSUME NEW x, k = <<x>>, v = <<>>
      PROVE  Begins(new, k, v)
  <2>1. new = <<x, b2>>
    BY <1>2 DEF Overwritten
  <2>2. Len(k) = 1 /\ Len(k) + Len(v) = 1 /\ k \o v = <<x>>
    BY <1>2
  <2> HIDE DEF new
  <2>3. new = <<new[1], new[2]>>
    BY <2>1
  <2>4. SubSeq(new, 1, 1) = <<x>>
    BY <2>1, FirstBytes
  <2>. QED  BY <1>2, <2>2, <2>3, <2>4 DEF Begins
<1>3. ASSUME NEW y, k = <<>>, v = <<y>>
      PROVE  Begins(new, k, v)
  <2>1. new = <<y, b2>>
    BY <1>3 DEF Overwritten
  <2>2. Len(k) = 0 /\ Len(k) + Len(v) = 1 /\ k \o v = <<y>>
    BY <1>3
  <2> HIDE DEF new
  <2>3. new = <<new[1], new[2]>>
    BY <2>1
  <2>4. SubSeq(new, 1, 0) = <<>> /\ SubSeq(new, 1, 1) = <<y>>
    BY <2>1, FirstBytes
  <2>. QED  BY <1>3, <2>2, <2>3, <2>4 DEF Begins
<1>4. ASSUME NEW x, NEW y, k = <<x>>, v = <<y>>
      PROVE  Begins(new, k, v)
  <2>1. new = <<x, y>>
    BY <1>4 DEF Overwritten
  <2>2. Len(k) = 1 /\ Len(k) + Len(v) = 2 /\ k \o v = <<x, y>>
    <3>1. Len(<<x>>) = 1 /\ Len(<<y>>) = 1
      OBVIOUS
    <3>2. Len(k) + Len(v) = 2
      BY <1>4, <3>1
    <3>. QED  BY <1>4, <3>1, <3>2, TwoBytes
  <2> HIDE DEF new
  <2>3. new = <<new[1], new[2]>>
    BY <2>1
  <2>4. SubSeq(new, 1, 1) = <<x>> /\ SubSeq(new, 1, 2) = <<x, y>>
    BY <2>1, FirstBytes
  <2>. QED  BY <1>4, <2>2, <2>3, <2>4 DEF Begins
<1> HIDE DEF new
<1>5. Begins(new, k, v)
  <2>1. k = <<>> \/ k = <<k[1]>>
    BY DEF IsKey
  <2>2. v = <<>> \/ v = <<v[1]>>
    BY DEF IsKey
  <2>. QED  BY <1>1, <1>2, <1>3, <1>4, <2>1, <2>2, Zenon
<1>. QED  BY <1>5 DEF new

(* The same session, as far as the TPM can tell. *)
SameParty(new, node) ==
  /\ new.sessionType = node.sessionType /\ new.sessionKey = node.sessionKey
  /\ new.bound_entity = node.bound_entity /\ new.nonceTPM = node.nonceTPM
  /\ new.type_policy_session = node.type_policy_session
  /\ new.sessionAttributes = node.sessionAttributes

(* iesys_compute_session_value for a session that authorises an object. *)
LEMMA ValueComputed ==
  ASSUME NEW node, TypedNode(node), NEW o, NEW value, IsKey(value)
  PROVE  LET new == compute_session_value(node, o, value)
         IN  /\ TypedNode(new) /\ SameParty(new, node) /\ Computed(new, value)
             /\ new.sizeHmacValue = Len(new.sessionKey)
                                    + (IF AddsValue(node, o, value) THEN Len(value) ELSE 0)
<1> DEFINE key   == node.sessionKey
           bytes == Overwritten(Overwritten(node.sessionValue, 0, key), Len(key), value)
           bound == IsBound(node.bound_entity, o, value)
                    /\ node.type_policy_session # "POLICY_AUTH"
           hmac  == Len(key) + (IF bound THEN 0 ELSE Len(value))
           new   == [node EXCEPT !.sessionValue = bytes, !.sizeSessionValue = Len(key) + Len(value),
                                 !.sizeHmacValue = hmac]
<1>1. compute_session_value(node, o, value) = new
  BY DEF compute_session_value
<1>2. Begins(bytes, key, value)
  <2>1. node.sessionValue = <<node.sessionValue[1], node.sessionValue[2]>> /\ IsKey(key)
    BY DEF TypedNode
  <2>2. Begins(Overwritten(Overwritten(<<node.sessionValue[1], node.sessionValue[2]>>, 0, key),
                           Len(key), value), key, value)
    BY <2>1, OverwrittenBytes
  <2>. QED  BY <2>1, <2>2
<1>3. Len(key) \in 0..1 /\ Len(value) \in 0..1
  BY KeySize DEF TypedNode
<1>4. hmac \in 0..2 /\ Len(key) + Len(value) \in 0..2
  <2>1. Len(key) + Len(value) \in 0..2 /\ Len(key) \in 0..2 /\ Len(key) + 0 = Len(key)
    BY <1>3, SmallSizes, Zenon
  <2>2. hmac = Len(key) + 0 \/ hmac = Len(key) + Len(value)
    OBVIOUS
  <2> HIDE DEF hmac
  <2>. QED  BY <2>1, <2>2, Zenon
<1>5. hmac = Len(key) + (IF AddsValue(node, o, value) THEN Len(value) ELSE 0)
  BY DEF AddsValue
<1> HIDE DEF bytes, hmac, bound
<1>6. /\ new.sessionValue = bytes /\ new.sizeSessionValue = Len(key) + Len(value)
      /\ new.sizeHmacValue = hmac /\ new.sessionKey = key
      /\ DOMAIN new = NodeFields /\ SameParty(new, node) /\ new.nonceCaller = node.nonceCaller
  BY DEF TypedNode, NodeFields, SameParty
<1> HIDE DEF new
<1>7. TypedNode(new)
  BY <1>2, <1>4, <1>6 DEF TypedNode, SameParty, Begins
<1>. QED  BY <1>1, <1>2, <1>5, <1>6, <1>7 DEF Computed

(* And for one that authorises none. *)
LEMMA NullComputed ==
  ASSUME NEW node, TypedNode(node)
  PROVE  LET new == compute_session_value_NULL(node)
         IN  TypedNode(new) /\ SameParty(new, node) /\ Computed(new, <<>>)
<1> DEFINE key   == node.sessionKey
           bytes == Overwritten(node.sessionValue, 0, key)
           new   == [node EXCEPT !.sessionValue = bytes, !.sizeSessionValue = Len(key)]
<1>1. compute_session_value_NULL(node) = new
  BY DEF compute_session_value_NULL
<1>2. Begins(bytes, key, <<>>)
  <2>1. node.sessionValue = <<node.sessionValue[1], node.sessionValue[2]>> /\ IsKey(key)
    BY DEF TypedNode
  <2>2. Begins(Overwritten(Overwritten(<<node.sessionValue[1], node.sessionValue[2]>>, 0, key),
                           Len(key), <<>>), key, <<>>)
    BY <2>1, OverwrittenBytes, ValuesAreKeys
  <2>3. \A b, n : Overwritten(Overwritten(b, 0, key), n, <<>>) = Overwritten(b, 0, key)
    BY DEF Overwritten
  <2>. QED  BY <2>1, <2>2, <2>3
<1>3. Len(key) \in 0..2 /\ Len(key) = Len(key) + Len(<<>>)
  BY KeySize DEF TypedNode
<1> HIDE DEF bytes
<1>6. /\ new.sessionValue = bytes /\ new.sizeSessionValue = Len(key)
      /\ new.sizeHmacValue = node.sizeHmacValue /\ new.sessionKey = key
      /\ DOMAIN new = NodeFields /\ SameParty(new, node) /\ new.nonceCaller = node.nonceCaller
  BY DEF TypedNode, NodeFields, SameParty
<1> HIDE DEF new
<1>7. TypedNode(new)
  BY <1>2, <1>3, <1>6 DEF TypedNode, SameParty, Begins
<1>. QED  BY <1>1, <1>2, <1>3, <1>6, <1>7 DEF Computed

(* The key of parameter encryption. *)
LEMMA EncryptKeyComputed ==
  ASSUME NEW node, NEW value, Computed(node, value)
  PROVE  EncryptKey(node) = node.sessionKey \o value
BY DEF Computed, Begins, EncryptKey

(* The key of the HMAC, when the value is added and when it is not. *)
LEMMA HmacKeyComputed ==
  ASSUME NEW node, TypedNode(node), NEW value, IsKey(value), Computed(node, value)
  PROVE  /\ node.sizeHmacValue = Len(node.sessionKey) + Len(value) =>
              HmacKey(node) = node.sessionKey \o value
         /\ node.sizeHmacValue = Len(node.sessionKey) => HmacKey(node) = node.sessionKey
<1>1. Len(node.sessionKey) \in 0..1 /\ Len(value) \in 0..1
  BY KeySize DEF TypedNode
<1>2. Len(node.sessionKey) + Len(value) \in 0..2 /\ Len(node.sessionKey) \in 0..2
  BY <1>1, SmallSizes, Zenon
<1>3. node.sizeHmacValue \in 0..2 =>
        HmacKey(node) = SubSeq(node.sessionValue, 1, node.sizeHmacValue)
  BY DEF HmacKey
<1>4. /\ SubSeq(node.sessionValue, 1, Len(node.sessionKey)) = node.sessionKey
      /\ SubSeq(node.sessionValue, 1, Len(node.sessionKey) + Len(value)) = node.sessionKey \o value
  BY DEF Computed, Begins
<1>5. ASSUME node.sizeHmacValue = Len(node.sessionKey) + Len(value)
      PROVE  HmacKey(node) = node.sessionKey \o value
  BY <1>2, <1>3, <1>4, <1>5, Zenon
<1>6. ASSUME node.sizeHmacValue = Len(node.sessionKey)
      PROVE  HmacKey(node) = node.sessionKey
  BY <1>2, <1>3, <1>4, <1>6, Zenon
<1>. QED  BY <1>5, <1>6
-----------------------------------------------------------------------------
(* Submitting a command.                                                    *)

(* The slot of a session is the only one. *)
LEMMA OneSlot ==
  ASSUME NEW c, ProperCommand(c), NEW i \in DOMAIN c.slots, c.slots[i] # Password
  PROVE  c.slots[i] \in InSlots(c) /\ SlotOf(c, c.slots[i]) = i
<1>1. c.slots[i] \in InSlots(c)
  BY DEF ProperCommand, IsCommand, InSlots, Range
<1>2. SlotOf(c, c.slots[i]) \in DOMAIN c.slots /\ c.slots[SlotOf(c, c.slots[i])] = c.slots[i]
  BY <1>1, SlotOfSession
<1>. QED  BY <1>1, <1>2 DEF ProperCommand

(* A new nonce leaves the keys. *)
LEMMA NonceRenewed ==
  ASSUME NEW node, TypedNode(node), NEW value
  PROVE  LET new == [node EXCEPT !.nonceCaller = FreshCaller(@)]
         IN  /\ TypedNode(new) /\ SameParty(new, node)
             /\ Computed(node, value) => Computed(new, value)
             /\ new.sizeHmacValue = node.sizeHmacValue
<1> DEFINE nonce == FreshCaller(node.nonceCaller)
           new   == [node EXCEPT !.nonceCaller = nonce]
<1>1. nonce \in 0 .. CallerCycle - 1
  BY FreshNonces DEF TypedNode
<1>2. [node EXCEPT !.nonceCaller = FreshCaller(@)] = new
  OBVIOUS
<1> HIDE DEF nonce
<1>3. /\ DOMAIN new = NodeFields /\ new.nonceCaller = nonce /\ SameParty(new, node)
      /\ new.sessionValue = node.sessionValue /\ new.sizeSessionValue = node.sizeSessionValue
      /\ new.sizeHmacValue = node.sizeHmacValue
  BY DEF TypedNode, NodeFields, SameParty
<1> HIDE DEF new
<1>4. TypedNode(new)
  BY <1>1, <1>3 DEF TypedNode, SameParty
<1>5. Computed(node, value) => Computed(new, value)
  BY <1>3 DEF Computed, SameParty
<1>. QED  BY <1>2, <1>3, <1>4, <1>5

(* The sessions of a command when it is submitted. *)
ValueFor(c, i) == IF Authorises(c, i) THEN auth[c.objects[i]] ELSE <<>>
LEMMA RenewedComputed ==
  ASSUME Typed, NEW c, ProperCommand(c), InSlots(c) \subseteq DOMAIN sessions,
         Range(c.objects) \subseteq DOMAIN auth
  PROVE  /\ DOMAIN Renewed(c) = DOMAIN sessions
         /\ \A s \in DOMAIN sessions :
              TypedNode(Renewed(c)[s]) /\ SameParty(Renewed(c)[s], sessions[s])
         /\ \A i \in DOMAIN c.slots : c.slots[i] # Password =>
              LET node == Renewed(c)[c.slots[i]]
              IN  /\ Computed(node, ValueFor(c, i))
                  /\ Authorises(c, i) =>
                       node.sizeHmacValue =
                         Len(node.sessionKey)
                         + (IF AddsValue(node, c.objects[i], ValueFor(c, i))
                            THEN Len(ValueFor(c, i)) ELSE 0)
         /\ \A i \in DOMAIN c.slots : IsKey(ValueFor(c, i))
<1>1. DOMAIN Renewed(c) = DOMAIN sessions
  BY DEF Renewed
<1>2. \A i \in DOMAIN c.slots : IsKey(ValueFor(c, i))
  BY ValuesAreKeys DEF ValueFor, Typed, Authorises, Range
<1>3. ASSUME NEW i \in DOMAIN c.slots, c.slots[i] # Password
      PROVE  LET node == Renewed(c)[c.slots[i]]
             IN  /\ TypedNode(node) /\ SameParty(node, sessions[c.slots[i]])
                 /\ Computed(node, ValueFor(c, i))
                 /\ Authorises(c, i) =>
                       node.sizeHmacValue =
                         Len(node.sessionKey)
                         + (IF AddsValue(node, c.objects[i], ValueFor(c, i))
                            THEN Len(ValueFor(c, i)) ELSE 0)
  <2> DEFINE s    == c.slots[i]
             node == IF Authorises(c, i)
                     THEN compute_session_value(sessions[s], c.objects[i], auth[c.objects[i]])
                     ELSE compute_session_value_NULL(sessions[s])
             new  == [node EXCEPT !.nonceCaller = FreshCaller(@)]
  <2>1. s \in InSlots(c) /\ SlotOf(c, s) = i /\ s \in DOMAIN sessions
    BY <1>3, OneSlot
  <2>2. Renewed(c)[s] = new
    BY <2>1 DEF Renewed
  <2>3. TypedNode(sessions[s])
    BY <2>1 DEF Typed
  <2>4. /\ TypedNode(node) /\ SameParty(node, sessions[s]) /\ Computed(node, ValueFor(c, i))
        /\ Authorises(c, i) =>
             node.sizeHmacValue =
               Len(node.sessionKey)
               + (IF AddsValue(sessions[s], c.objects[i], ValueFor(c, i))
                  THEN Len(ValueFor(c, i)) ELSE 0)
    <3>1. CASE Authorises(c, i)
      <4>1. node = compute_session_value(sessions[s], c.objects[i], ValueFor(c, i))
        BY <3>1 DEF ValueFor
      <4>2. IsKey(ValueFor(c, i))
        BY <1>2
      <4> HIDE DEF node, s
      <4>. QED  BY <2>3, <3>1, <4>1, <4>2, ValueComputed
    <3>2. CASE ~Authorises(c, i)
      <4>1. node = compute_session_value_NULL(sessions[s]) /\ ValueFor(c, i) = <<>>
        BY <3>2 DEF ValueFor
      <4> HIDE DEF node, s
      <4>. QED  BY <2>3, <3>2, <4>1, NullComputed
    <3>. QED  BY <3>1, <3>2
  <2> HIDE DEF node
  <2>5. /\ TypedNode(new) /\ SameParty(new, node) /\ Computed(new, ValueFor(c, i))
        /\ new.sizeHmacValue = node.sizeHmacValue
    BY <2>4, NonceRenewed
  <2> HIDE DEF new, s
  <2>6. SameParty(new, sessions[s])
    BY <2>4, <2>5 DEF SameParty
  <2>7. /\ new.sessionKey = node.sessionKey
        /\ AddsValue(new, c.objects[i], ValueFor(c, i))
           <=> AddsValue(sessions[s], c.objects[i], ValueFor(c, i))
    BY <2>5, <2>6 DEF SameParty, AddsValue
  <2>8. Authorises(c, i) =>
             new.sizeHmacValue =
               Len(new.sessionKey)
               + (IF AddsValue(new, c.objects[i], ValueFor(c, i))
                  THEN Len(ValueFor(c, i)) ELSE 0)
    BY <2>4, <2>5, <2>7
  <2>. QED  BY <2>2, <2>5, <2>6, <2>8 DEF s
<1>4. ASSUME NEW s \in DOMAIN sessions
      PROVE  TypedNode(Renewed(c)[s]) /\ SameParty(Renewed(c)[s], sessions[s])
  <2>1. CASE s \in InSlots(c)
    <3>1. PICK i \in DOMAIN c.slots : c.slots[i] = s
      BY <2>1, SlotOfSession
    <3>2. s # Password
      BY <2>1, EsysSessionsAssumption DEF InSlots
    <3>. QED  BY <1>3, <3>1, <3>2
  <2>2. CASE s \notin InSlots(c)
    BY <2>2 DEF Renewed, Typed, SameParty
  <2>. QED  BY <2>1, <2>2
<1>. QED  BY <1>1, <1>2, <1>3, <1>4

(* At most one slot has an attribute when a command is sent. *)
LEMMA OneSlotEach ==
  ASSUME NEW c, ProperCommand(c), ~Unencryptable(c)
  PROVE  \A i, j \in With(c, "encrypt") : i = j
<1> DEFINE W == With(c, "encrypt")
<1>1. W \subseteq 1 .. Len(c.slots) /\ Len(c.slots) \in Nat
  BY DEF With, ProperCommand, IsCommand
<1>2. IsFiniteSet(W)
  <2>1. IsFiniteSet(1 .. Len(c.slots))
    BY <1>1, FS_Interval
  <2> HIDE DEF W
  <2>. QED  BY <1>1, <2>1, FS_Subset
<1>3. Cardinality(W) \in Nat /\ Cardinality(W) <= 1
  BY <1>2, FS_CardinalityType DEF Unencryptable
<1> HIDE DEF W
<1>4. SUFFICES ASSUME NEW i \in W, NEW j \in W, i # j PROVE FALSE
  BY DEF W
<1>5. Cardinality(W \ {i}) = Cardinality(W) - 1 /\ IsFiniteSet(W \ {i})
  BY <1>2, FS_RemoveElement
<1>6. Cardinality(W \ {i}) = 0
  BY <1>3, <1>5, FS_CardinalityType
<1>7. W \ {i} = {}
  BY <1>5, <1>6, FS_EmptySet
<1>. QED  BY <1>4, <1>7

(* What iesys_gen_auths puts in a slot. *)
LEMMA AuthsGenerated ==
  ASSUME NEW c, NEW nodes, NEW i \in DOMAIN c.slots
  PROVE  LET sent == gen_auths(c, nodes)[i]
             node == nodes[c.slots[i]]
         IN  IF InClear(c, i, nodes)
             THEN sent.nonce = NoNonce /\ sent.attributes = {} /\ sent.hmac = Clear(ValueFor(c, i))
             ELSE /\ sent.nonce = node.nonceCaller /\ sent.attributes = node.sessionAttributes
                  /\ sent.hmac = Hmac(HmacKey(node), Param(c, nodes), node.nonceCaller,
                                      node.nonceTPM, OtherNonce(c, "decrypt", i, nodes),
                                      OtherNonce(c, "encrypt", i, nodes), node.sessionAttributes)
<1>1. CASE InClear(c, i, nodes)
  <2>1. gen_auths(c, nodes)[i] =
          [nonce |-> NoNonce, attributes |-> {}, hmac |-> Clear(ValueFor(c, i))]
    BY <1>1 DEF gen_auths, ValueFor
  <2>. QED  BY <1>1, <2>1
<1>2. CASE ~InClear(c, i, nodes)
  <2>1. gen_auths(c, nodes)[i] = compute_hmac(c, i, nodes)
    BY <1>2 DEF gen_auths
  <2>. QED  BY <1>2, <2>1 DEF compute_hmac
<1>. QED  BY <1>1, <1>2

(* Submitting a command, or submitting it again. *)
LEMMA SubmitHmacs ==
  ASSUME SessionsInv, HmacsInv, state # "INTERNALERROR", ~Succeeded,
         NEW c, ProperCommand(c), InSlots(c) \subseteq DOMAIN sessions,
         Range(c.objects) \subseteq DOMAIN auth,
         c.op = "start" => c.arg.bind \in DOMAIN auth \union {None},
         Submit(c)
  PROVE  HmacsInv'
<1> DEFINE nodes == Renewed(c)
<1>1. /\ sessions' = nodes /\ salt' = NewSalt(c)
      /\ auth' = auth /\ tpm' = tpm /\ tpmAuth' = tpmAuth
  BY DEF Submit
<1>2. Typed /\ Pairs /\ SameObjects
  BY DEF HmacsInv
<1>3. /\ DOMAIN nodes = DOMAIN sessions
      /\ \A s \in DOMAIN sessions : TypedNode(nodes[s]) /\ SameParty(nodes[s], sessions[s])
      /\ \A i \in DOMAIN c.slots : c.slots[i] # Password =>
           /\ Computed(nodes[c.slots[i]], ValueFor(c, i))
           /\ Authorises(c, i) =>
                nodes[c.slots[i]].sizeHmacValue =
                  Len(nodes[c.slots[i]].sessionKey)
                  + (IF AddsValue(nodes[c.slots[i]], c.objects[i], ValueFor(c, i))
                     THEN Len(ValueFor(c, i)) ELSE 0)
      /\ \A i \in DOMAIN c.slots : IsKey(ValueFor(c, i))
  BY <1>2, RenewedComputed
<1>4. Typed'
  <2>1. salt' \in {<<>>} \union {<<s>> : s \in Sessions}
    <3>1. c.op = "start" => c.arg.session \in Sessions
      BY EsysSessionsAssumption DEF ProperCommand
    <3>. QED  BY <1>1, <1>2, <3>1 DEF NewSalt, Salt, Typed
  <2> HIDE DEF nodes
  <2>. QED  BY <1>1, <1>2, <1>3, <2>1 DEF Typed, TypedNode
<1>5. Pairs'
  <2> HIDE DEF nodes
  <2>. QED  BY <1>1, <1>2, <1>3 DEF Pairs, Paired, SameParty
<1>6. CASE Unencryptable(c)
  <2>1. state' = "INIT" /\ wire' = Quiet
    BY <1>6 DEF Submit
  <2>2. wire'.phase = "idle"
    BY <2>1 DEF Quiet
  <2>3. SameObjects'
    BY <1>1, <1>2, <2>2 DEF SameObjects, Succeeded, Answer
  <2>. QED  BY <1>4, <1>5, <2>1, <2>2, <2>3 DEF HmacsInv, Sent, Succeeded, Answer
<1>7. CASE ~Unencryptable(c)
  <2>1. /\ state' = "SENT" /\ wire'.phase = "sent" /\ wire'.command = c
        /\ wire'.param = Param(c, nodes) /\ wire'.auths = gen_auths(c, nodes)
        /\ wire'.decrypting = With(c, "decrypt") /\ wire'.encrypting = With(c, "encrypt")
        /\ wire'.believed = [i \in DOMAIN c.objects |-> auth[c.objects[i]]]
        /\ wire'.policies = (\A s \in InSlots(c) \cap DOMAIN tpm :
                               sessions[s].type_policy_session = tpm[s].policy)
    <3> DEFINE agree  == \A s \in InSlots(c) \cap DOMAIN tpm :
                           sessions[s].type_policy_session = tpm[s].policy
               values == [i \in DOMAIN c.objects |-> auth[c.objects[i]]]
               same   == {o \in Range(c.objects) \cap DOMAIN tpmAuth : auth[o] = tpmAuth[o]}
    <3>1. /\ state' = "SENT"
          /\ wire' = [phase |-> "sent", command |-> c, param |-> Param(c, nodes),
                      auths |-> gen_auths(c, nodes), decrypting |-> With(c, "decrypt"),
                      encrypting |-> With(c, "encrypt"), believed |-> values, right |-> same,
                      policies |-> agree]
      BY <1>7 DEF Submit
    <3> HIDE DEF agree, values, same, nodes
    <3>2. wire'.policies = agree
      BY <3>1, Zenon
    <3>3. /\ state' = "SENT" /\ wire'.phase = "sent" /\ wire'.command = c
          /\ wire'.param = Param(c, nodes) /\ wire'.auths = gen_auths(c, nodes)
          /\ wire'.decrypting = With(c, "decrypt") /\ wire'.encrypting = With(c, "encrypt")
          /\ wire'.believed = values
      BY <3>1
    <3>. QED  BY <3>2, <3>3 DEF agree, values, nodes
  <2>2. Asked' = c /\ ~Succeeded' /\ Sent'
    BY <2>1 DEF Asked, Succeeded, Answer, Sent
  <2>3. SameObjects'
    BY <1>1, <1>2, <2>2 DEF SameObjects
  <2>4. \A i : ValueOf(i)' = ValueFor(c, i)
    BY <2>1, <2>2 DEF ValueOf, ValueFor, Authorises
  <2>5. /\ \A i : Unsigned(i)' <=> InClear(c, i, nodes)
        /\ \A i \in DOMAIN c.slots : c.slots[i] # Password => c.slots[i] \in DOMAIN sessions
    <3>1. \A i \in DOMAIN c.slots : c.slots[i] # Password => c.slots[i] \in DOMAIN sessions
      BY OneSlot
    <3> HIDE DEF nodes
    <3>. QED  BY <1>1, <2>2, <3>1 DEF Unsigned, InClear
  <2>6. ValuesComputed'
    <3> HIDE DEF nodes
    <3>1. ASSUME NEW i \in DOMAIN c.slots, c.slots[i] # Password
          PROVE  /\ Computed(nodes[c.slots[i]], ValueFor(c, i))
                 /\ Authorises(c, i) =>
                      nodes[c.slots[i]].sizeHmacValue =
                        Len(nodes[c.slots[i]].sessionKey)
                        + (IF AddsValue(nodes[c.slots[i]], c.objects[i], ValueFor(c, i))
                           THEN Len(ValueFor(c, i)) ELSE 0)
      BY <1>3, <3>1
    <3>. QED  BY <1>1, <2>2, <2>4, <3>1 DEF ValuesComputed
  <2>7. CommandUnderWay'
    <3>1. \A i \in DOMAIN c.objects : wire'.believed[i] \in AuthValue
      BY <1>2, <2>1 DEF Typed, Range
    <3>. QED  BY <1>1, <2>2, <2>6, <3>1 DEF CommandUnderWay, ProperCommand, IsCommand
  <2>8. ASSUME NEW i \in DOMAIN c.slots
        PROVE  SlotSent(i)'
    <3> DEFINE sent == gen_auths(c, nodes)[i]
               node == nodes[c.slots[i]]
    <3>1. IF InClear(c, i, nodes)
          THEN sent.nonce = NoNonce /\ sent.attributes = {} /\ sent.hmac = Clear(ValueFor(c, i))
          ELSE /\ sent.nonce = node.nonceCaller /\ sent.attributes = node.sessionAttributes
               /\ sent.hmac = Hmac(HmacKey(node), Param(c, nodes), node.nonceCaller,
                                   node.nonceTPM, OtherNonce(c, "decrypt", i, nodes),
                                   OtherNonce(c, "encrypt", i, nodes), node.sessionAttributes)
      BY AuthsGenerated
    <3>2. NonceFor(i, wire.decrypting)' = OtherNonce(c, "decrypt", i, nodes)
      <4> HIDE DEF nodes
      <4>. QED  BY <1>1, <2>1, <2>2 DEF NonceFor, OtherNonce
    <3>3. NonceFor(i, wire.encrypting)' = OtherNonce(c, "encrypt", i, nodes)
      <4> HIDE DEF nodes
      <4>. QED  BY <1>1, <2>1, <2>2 DEF NonceFor, OtherNonce
    <3> HIDE DEF nodes
    <3>4. ASSUME ~InClear(c, i, nodes)
          PROVE  /\ node.sessionAttributes \subseteq Attributes
                 /\ \A attribute : attribute \in node.sessionAttributes <=> i \in With(c, attribute)
      <4>1. c.slots[i] # Password
        BY <3>4 DEF InClear
      <4>2. c.slots[i] \in DOMAIN sessions
        BY <2>5, <4>1
      <4>3. node.sessionAttributes = sessions[c.slots[i]].sessionAttributes
        BY <1>3, <4>2 DEF SameParty
      <4>4. node.sessionAttributes \subseteq Attributes
        BY <1>3, <4>2 DEF TypedNode
      <4>. QED  BY <4>2, <4>3, <4>4 DEF With
    <3> HIDE DEF sent
    <3>5. wire'.auths[i] = sent
      BY <2>1 DEF sent
    <3>6. sessions'[c.slots[i]] = node
      BY <1>1
    <3> HIDE DEF node
    <3>. QED  BY <2>1, <2>2, <2>4, <2>5, <3>1, <3>2, <3>3, <3>4, <3>5, <3>6 DEF SlotSent
  <2>9. CommandSent'
    <3>1. /\ SlotsOfSessions(wire.decrypting)' /\ SlotsOfSessions(wire.encrypting)'
      <4>1. \A s \in DOMAIN sessions : s # Password
        BY <1>2, EsysSessionsAssumption DEF Typed
      <4>. QED  BY <2>1, <2>2, <4>1 DEF SlotsOfSessions, With
    <3>2. \A i, j \in wire'.encrypting : i = j
      BY <1>7, <2>1, OneSlotEach
    <3> HIDE DEF nodes
    <3>3. wire'.param = IF wire'.decrypting = {} \/ c.param # "full" THEN PlainText
                        ELSE LET node == nodes[c.slots[CHOOSE i \in wire'.decrypting : TRUE]]
                             IN  Cipher(EncryptKey(node), node.nonceCaller, node.nonceTPM)
      BY <2>1 DEF Param
    <3>4. wire'.policies <=> \A s \in InSlots(c) \cap DOMAIN tpm :
                               nodes[s].type_policy_session = tpm[s].policy
      BY <1>3, <2>1 DEF SameParty
    <3>5. InSlots(Asked)' = InSlots(c)
      BY <2>2 DEF InSlots
    <3>. QED  BY <1>1, <2>2, <2>8, <3>1, <3>2, <3>3, <3>4, <3>5 DEF CommandSent
  <2>. QED  BY <1>4, <1>5, <2>1, <2>2, <2>3, <2>7, <2>9 DEF HmacsInv
<1>. QED  BY <1>6, <1>7

(* A command of the application. *)
LEMMA AsyncHmacs ==
  ASSUME SessionsInv, HmacsInv, NEW c, ProperCommand(c),
         c.op = "start" => c.arg.bind \in DOMAIN auth \union {None}, Async(c)
  PROVE  HmacsInv'
<1>1. /\ state = "INIT" /\ InSlots(c) \subseteq DOMAIN sessions
      /\ Range(c.objects) \subseteq DOMAIN auth /\ Submit(c)
  BY DEF Async
<1>2. ~Succeeded
  BY <1>1 DEF SessionsInv, Phases, Succeeded, Answer
<1>. QED  BY <1>1, <1>2, SubmitHmacs

(* The commands of the calls are proper ones. *)
LEMMA ProperUsages ==
  ASSUME NEW u \in Usages, NEW op, NEW param, NEW result, NEW arg,
         op \in {"change", "undefine"} => Len(u.objects) = 1 /\ ~result,
         op = "start" => arg \in Starts, op = "change" => arg \in AuthValue,
         op # "policy", op = "undefine" => u.slots[1] # Password
  PROVE  ProperCommand(Command(op, u, param, result, arg))
<1> DEFINE c == Command(op, u, param, result, arg)
<1>1. IsCommand(c)
  BY CommandsOfUsages, Zenon
<1>2. /\ c.op = op /\ c.objects = u.objects /\ c.slots = u.slots /\ c.arg = arg
      /\ c.result = result
  BY DEF Command
<1>3. /\ u.objects \in Seq(Objects) /\ u.slots \in Seq(Sessions \union {Password})
      /\ Len(u.objects) <= Len(u.slots)
      /\ \A i, j \in DOMAIN u.slots : i # j => u.slots[i] # u.slots[j] \/ u.slots[i] = Password
  BY EsysSessionsAssumption
<1>4. DOMAIN u.objects \subseteq DOMAIN u.slots
  BY <1>3
<1> HIDE DEF c
<1>5. ProperCommand(c)
  BY <1>1, <1>2, <1>3, <1>4 DEF ProperCommand
<1>. QED  BY <1>5 DEF c

(* Also those that authorise nothing. *)
LEMMA ProperBare ==
  ASSUME NEW s \in Sessions, NEW type \in Policies
  PROVE  /\ ProperCommand(Command("flush", Bare, "none", FALSE, s))
         /\ ProperCommand(Command("policy", Bare, "none", FALSE, [session |-> s, type |-> type]))
<1>1. ASSUME NEW op \in {"flush", "policy"}, NEW arg,
             op = "policy" => arg.session \in Sessions /\ arg.type \in Policies
      PROVE  ProperCommand(Command(op, Bare, "none", FALSE, arg))
  <2> DEFINE c == Command(op, Bare, "none", FALSE, arg)
  <2>1. IsCommand(c)
    BY BareCommands
  <2>2. c.op = op /\ c.objects = <<>> /\ c.slots = <<>> /\ c.arg = arg
    BY DEF Command, Bare
  <2> HIDE DEF c
  <2>3. ProperCommand(c)
    BY <1>1, <2>1, <2>2 DEF ProperCommand
  <2>. QED  BY <2>3 DEF c
<1> DEFINE arg == [session |-> s, type |-> type]
<1>2. arg.session \in Sessions /\ arg.type \in Policies
  OBVIOUS
<1> HIDE DEF arg
<1>3. ProperCommand(Command("policy", Bare, "none", FALSE, arg))
  BY <1>1, <1>2
<1>4. ProperCommand(Command("flush", Bare, "none", FALSE, s))
  BY <1>1
<1>. QED  BY <1>3, <1>4 DEF arg

(* The calls that begin a command. *)
LEMMA CommandsHmacs ==
  ASSUME SessionsInv, HmacsInv
  PROVE  /\ \A u \in Usages : Use(u) \/ UndefineSpecial(u) => HmacsInv'
         /\ \A u \in Usages, new \in AuthValue : ChangeAuth(u, new) => HmacsInv'
         /\ \A u \in Usages, f \in Starts : StartAuthSession(u, f) => HmacsInv'
         /\ \A s \in Sessions, type \in Policies : Policy(s, type) => HmacsInv'
         /\ \A s \in Sessions : FlushContext(s) => HmacsInv'
<1>1. ASSUME NEW u \in Usages, Use(u)
      PROVE  HmacsInv'
  <2> DEFINE c == Command("use", u, u.param, u.result, None)
  <2>1. Async(c) /\ ProperCommand(c) /\ c.op = "use"
    BY <1>1, ProperUsages DEF Use, Command
  <2> HIDE DEF c
  <2>. QED  BY <2>1, AsyncHmacs
<1>2. ASSUME NEW u \in Usages, UndefineSpecial(u)
      PROVE  HmacsInv'
  <2> DEFINE c == Command("undefine", u, "none", FALSE, None)
  <2>1. Async(c) /\ ProperCommand(c) /\ c.op = "undefine"
    BY <1>2, ProperUsages DEF UndefineSpecial, Command
  <2> HIDE DEF c
  <2>. QED  BY <2>1, AsyncHmacs
<1>3. ASSUME NEW u \in Usages, NEW new \in AuthValue, ChangeAuth(u, new)
      PROVE  HmacsInv'
  <2> DEFINE c == Command("change", u, "full", FALSE, new)
  <2>1. Async(c) /\ ProperCommand(c) /\ c.op = "change"
    BY <1>3, ProperUsages DEF ChangeAuth, Command
  <2> HIDE DEF c
  <2>. QED  BY <2>1, AsyncHmacs
<1>4. ASSUME NEW u \in Usages, NEW f \in Starts, StartAuthSession(u, f)
      PROVE  HmacsInv'
  <2> DEFINE c == Command("start", u, "full", TRUE, f)
  <2>1. Async(c) /\ ProperCommand(c) /\ c.arg = f /\ f.bind \in DOMAIN auth \union {None}
    BY <1>4, ProperUsages DEF StartAuthSession, Command
  <2> HIDE DEF c
  <2>. QED  BY <2>1, AsyncHmacs
<1>5. ASSUME NEW s \in Sessions, NEW type \in Policies, Policy(s, type)
      PROVE  HmacsInv'
  <2> DEFINE c == Command("policy", Bare, "none", FALSE, [session |-> s, type |-> type])
  <2>1. Async(c) /\ ProperCommand(c) /\ c.op = "policy"
    BY <1>5, ProperBare DEF Policy, Command
  <2> HIDE DEF c
  <2>. QED  BY <2>1, AsyncHmacs
<1>6. ASSUME NEW s \in Sessions, FlushContext(s)
      PROVE  HmacsInv'
  <2> DEFINE c == Command("flush", Bare, "none", FALSE, s)
  <2>1. Async(c) /\ ProperCommand(c) /\ c.op = "flush"
    BY <1>6, ProperBare DEF FlushContext, Command, Policies
  <2> HIDE DEF c
  <2>. QED  BY <2>1, AsyncHmacs
<1>. QED  BY <1>1, <1>2, <1>3, <1>4, <1>5, <1>6
-----------------------------------------------------------------------------
(* Calls that begin no command.                                             *)

(* The same session with the same keys. *)
SameKeys(new, node) ==
  /\ new.sessionType = node.sessionType /\ new.sessionKey = node.sessionKey
  /\ new.bound_entity = node.bound_entity /\ new.nonceTPM = node.nonceTPM
  /\ new.type_policy_session = node.type_policy_session /\ new.nonceCaller = node.nonceCaller
  /\ new.sessionValue = node.sessionValue /\ new.sizeSessionValue = node.sizeSessionValue
  /\ new.sizeHmacValue = node.sizeHmacValue

(* The key of the HMAC after iesys_compute_session_value. *)
LEMMA HmacKeyOfValue ==
  ASSUME NEW node, TypedNode(node), NEW o, NEW value, IsKey(value)
  PROVE  HmacKey(compute_session_value(node, o, value)) =
           node.sessionKey \o (IF AddsValue(node, o, value) THEN value ELSE <<>>)
<1> DEFINE new == compute_session_value(node, o, value)
<1>1. /\ TypedNode(new) /\ SameParty(new, node) /\ Computed(new, value)
      /\ new.sizeHmacValue = Len(new.sessionKey)
                              + (IF AddsValue(node, o, value) THEN Len(value) ELSE 0)
  BY ValueComputed
<1>2. new.sessionKey = node.sessionKey
  BY <1>1 DEF SameParty
<1>3. /\ Len(new.sessionKey) \in Nat /\ node.sessionKey \o <<>> = node.sessionKey
  BY KeySize DEF TypedNode
<1> HIDE DEF new
<1>4. CASE AddsValue(node, o, value)
  BY <1>1, <1>2, <1>4, HmacKeyComputed DEF new
<1>5. CASE ~AddsValue(node, o, value)
  <2>1. new.sizeHmacValue = Len(new.sessionKey)
    BY <1>1, <1>3, <1>5
  <2>. QED  BY <1>1, <1>2, <1>3, <1>5, <2>1, HmacKeyComputed DEF new
<1>. QED  BY <1>4, <1>5

(* What is computed from sessions with the same keys. *)
LEMMA KeysAlike ==
  ASSUME NEW new, NEW node, SameKeys(new, node)
  PROVE  /\ HmacKey(new) = HmacKey(node) /\ EncryptKey(new) = EncryptKey(node)
         /\ \A value : Computed(new, value) <=> Computed(node, value)
         /\ \A o, value : AddsValue(new, o, value) <=> AddsValue(node, o, value)
         /\ TypedNode(new) /\ TypedNode(node) =>
              \A o, value : IsKey(value) => HmacKey(compute_session_value(new, o, value)) =
                                           HmacKey(compute_session_value(node, o, value))
<1>1. HmacKey(new) = HmacKey(node) /\ EncryptKey(new) = EncryptKey(node)
  BY DEF SameKeys, HmacKey, EncryptKey
<1>2. \A value : Computed(new, value) <=> Computed(node, value)
  BY DEF SameKeys, Computed
<1>3. \A o, value : AddsValue(new, o, value) <=> AddsValue(node, o, value)
  BY DEF SameKeys, AddsValue
<1>4. ASSUME TypedNode(new), TypedNode(node), NEW o, NEW value, IsKey(value)
      PROVE  HmacKey(compute_session_value(new, o, value)) =
               HmacKey(compute_session_value(node, o, value))
  <2>1. new.sessionKey = node.sessionKey
    BY DEF SameKeys
  <2>2. (IF AddsValue(new, o, value) THEN value ELSE <<>>) =
          (IF AddsValue(node, o, value) THEN value ELSE <<>>)
    BY <1>3
  <2>. QED  BY <1>4, <2>1, <2>2, HmacKeyOfValue
<1>. QED  BY <1>1, <1>2, <1>3, <1>4

(* Attributes and values that the application sets, while a command is under
   way or not. *)
LEMMA StableHmacs ==
  ASSUME SessionsInv, HmacsInv,
         state' = state, wire' = wire, salt' = salt, tpm' = tpm, tpmAuth' = tpmAuth,
         DOMAIN auth' = DOMAIN auth, \A o \in DOMAIN auth : auth'[o] \in AuthValue,
         DOMAIN sessions' = DOMAIN sessions,
         \A s \in DOMAIN sessions : SameKeys(sessions'[s], sessions[s]) /\ TypedNode(sessions'[s])
  PROVE  HmacsInv'
<1>1. /\ Asked' = Asked /\ Sent' = Sent /\ Succeeded' = Succeeded
  BY DEF Asked, Sent, Succeeded, Answer
<1>2. Typed /\ Typed'
  BY DEF HmacsInv, Typed
<1>3. CASE state = "INTERNALERROR"
  BY <1>2, <1>3 DEF HmacsInv
<1>4. CASE state # "INTERNALERROR"
  <2>1. Pairs' /\ SameObjects'
    BY <1>1, <1>4 DEF HmacsInv, Pairs, Paired, SameObjects, SameKeys
  <2>2. ASSUME state = "SENT"
        PROVE  /\ CommandUnderWay /\ UnderWay /\ ProperCommand(Asked)
               /\ \A i \in DOMAIN Asked.slots : Asked.slots[i] # Password =>
                    Asked.slots[i] \in DOMAIN sessions
    <3>1. CommandUnderWay /\ UnderWay
      BY <1>4, <2>2 DEF HmacsInv, SessionsInv
    <3>. QED  BY <3>1, OneSlot DEF CommandUnderWay, UnderWay
  <2>3. ASSUME state = "SENT", NEW i \in DOMAIN Asked.slots
        PROVE  /\ Unsigned(i)' <=> Unsigned(i)
               /\ ValueOf(i)' = ValueOf(i)
    BY <1>1, <2>2, <2>3 DEF Unsigned, InClear, SameKeys, ValueOf, Authorises
  <2>4. ASSUME state = "SENT"
        PROVE  CommandUnderWay'
    <3>1. ValuesComputed'
      <4> SUFFICES ASSUME NEW i \in DOMAIN Asked.slots, Asked.slots[i] # Password
                   PROVE  LET node == sessions'[Asked.slots[i]]
                          IN  /\ Computed(node, ValueOf(i))
                              /\ Authorises(Asked, i) =>
                                   node.sizeHmacValue =
                                     Len(node.sessionKey)
                                     + (IF AddsValue(node, Asked.objects[i], ValueOf(i))
                                        THEN Len(ValueOf(i)) ELSE 0)
        BY <1>1, <2>3, <2>4 DEF ValuesComputed
      <4>1. SameKeys(sessions'[Asked.slots[i]], sessions[Asked.slots[i]])
        BY <2>2, <2>4
      <4>. QED  BY <2>2, <2>4, <4>1, KeysAlike DEF CommandUnderWay, ValuesComputed, SameKeys
    <3>. QED  BY <1>1, <2>2, <2>4, <3>1 DEF CommandUnderWay, ProperCommand, IsCommand
  <2>5. ASSUME Sent
        PROVE  CommandSent'
    <3>1. state = "SENT" /\ CommandSent
      BY <1>4, <2>5 DEF HmacsInv, SessionsInv, Phases, Sent
    <3>2. ASSUME NEW slots, SlotsOfSessions(slots), slots # {}
          PROVE  LET s == Asked.slots[CHOOSE j \in slots : TRUE]
                 IN  SameKeys(sessions'[s], sessions[s])
      BY <2>2, <3>1, <3>2 DEF SlotsOfSessions
    <3>3. ASSUME NEW i \in DOMAIN Asked.slots
          PROVE  /\ NonceFor(i, wire.decrypting)' = NonceFor(i, wire.decrypting)
                 /\ NonceFor(i, wire.encrypting)' = NonceFor(i, wire.encrypting)
      BY <1>1, <3>1, <3>2 DEF NonceFor, CommandSent, SameKeys
    <3>4. ASSUME NEW i \in DOMAIN Asked.slots
          PROVE  SlotSent(i)'
      <4>1. CASE Unsigned(i)
        BY <1>1, <2>3, <3>1, <4>1 DEF CommandSent, SlotSent
      <4>2. CASE ~Unsigned(i)
        <5>1. SameKeys(sessions'[Asked.slots[i]], sessions[Asked.slots[i]])
          BY <2>2, <3>1, <4>2 DEF Unsigned, InClear
        <5>2. HmacKey(sessions'[Asked.slots[i]]) = HmacKey(sessions[Asked.slots[i]])
          BY <5>1, KeysAlike
        <5> DEFINE node == sessions[Asked.slots[i]]
                   sent == wire.auths[i]
                   Sends(n, k) ==
                     /\ sent.nonce = n.nonceCaller /\ sent.attributes \subseteq Attributes
                     /\ "decrypt" \in sent.attributes <=> i \in wire.decrypting
                     /\ "encrypt" \in sent.attributes <=> i \in wire.encrypting
                     /\ sent.hmac = Hmac(k, wire.param, n.nonceCaller, n.nonceTPM,
                                         NonceFor(i, wire.decrypting),
                                         NonceFor(i, wire.encrypting), sent.attributes)
        <5>3. Sends(node, HmacKey(node))
          BY <3>1, <4>2 DEF CommandSent, SlotSent
        <5>4. Sends(sessions'[Asked.slots[i]], HmacKey(sessions'[Asked.slots[i]]))
          BY <5>1, <5>2, <5>3 DEF SameKeys
        <5>. QED  BY <1>1, <2>3, <3>1, <3>3, <4>2, <5>4 DEF SlotSent
      <4>. QED  BY <4>1, <4>2
    <3>5. wire'.param = IF wire'.decrypting = {} \/ Asked'.param # "full" THEN PlainText
                        ELSE LET node == sessions'[Asked'.slots[CHOOSE i \in wire'.decrypting : TRUE]]
                             IN  Cipher(EncryptKey(node), node.nonceCaller, node.nonceTPM)
      <4>1. CASE wire.decrypting = {}
        BY <1>1, <3>1, <4>1 DEF CommandSent
      <4>2. CASE wire.decrypting # {}
        <5> DEFINE s == Asked.slots[CHOOSE i \in wire.decrypting : TRUE]
        <5>1. SameKeys(sessions'[s], sessions[s])
          BY <3>1, <3>2, <4>2 DEF CommandSent
        <5>2. EncryptKey(sessions'[s]) = EncryptKey(sessions[s])
          BY <5>1, KeysAlike
        <5>3. sessions'[s].nonceCaller = sessions[s].nonceCaller
              /\ sessions'[s].nonceTPM = sessions[s].nonceTPM
          BY <5>1 DEF SameKeys
        <5>4. wire.param = IF Asked.param # "full" THEN PlainText
                           ELSE Cipher(EncryptKey(sessions[s]), sessions[s].nonceCaller,
                                       sessions[s].nonceTPM)
          BY <3>1, <4>2 DEF CommandSent
        <5>5. Asked'.slots[CHOOSE i \in wire'.decrypting : TRUE] = s /\ Asked'.param = Asked.param
          BY <1>1
        <5> HIDE DEF s
        <5>6. CASE Asked.param # "full"
          BY <5>4, <5>5, <5>6
        <5>7. CASE Asked.param = "full"
          BY <4>2, <5>2, <5>3, <5>4, <5>5, <5>7
        <5>. QED  BY <5>6, <5>7
      <4>. QED  BY <4>1, <4>2
    <3>6. wire'.policies <=> \A s \in InSlots(Asked)' \cap DOMAIN tpm :
                               sessions'[s].type_policy_session = tpm[s].policy
      <4>1. InSlots(Asked)' = InSlots(Asked) /\ InSlots(Asked) \subseteq DOMAIN sessions
        BY <1>1, <2>2, <3>1 DEF InSlots, UnderWay
      <4>. QED  BY <1>1, <3>1, <4>1 DEF CommandSent, SameKeys
    <3>. QED  BY <1>1, <3>1, <3>4, <3>5, <3>6 DEF CommandSent, SlotsOfSessions
  <2>6. ASSUME Succeeded
        PROVE  CommandAnswered'
    <3>1. state = "SENT" /\ CommandAnswered /\ Done
      BY <1>4, <2>6 DEF HmacsInv, SessionsInv, Phases, Succeeded, Answer
    <3>2. AnswerTyped'
      BY <1>1, <2>3, <3>1 DEF CommandAnswered, AnswerTyped
    <3>3. ASSUME wire.intact, NEW i \in DOMAIN Asked.slots
          PROVE  SlotAnswered(i)'
      <4>1. CASE Unsigned(i)
        BY <1>1, <2>3, <3>1, <3>3, <4>1 DEF CommandAnswered, SlotAnswered
      <4>2. CASE ~Unsigned(i)
        <5> DEFINE s == Asked.slots[i]
        <5>1. SameKeys(sessions'[s], sessions[s]) /\ TypedNode(sessions'[s]) /\ TypedNode(sessions[s])
          BY <1>2, <2>2, <3>1, <4>2 DEF Unsigned, InClear, Typed
        <5>2. HmacKey(sessions'[s]) = HmacKey(sessions[s])
          BY <5>1, KeysAlike
        <5>3. Asked.op = "change" =>
                HmacKey(compute_session_value(sessions'[s], Asked.objects[1], Asked.arg)) =
                HmacKey(compute_session_value(sessions[s], Asked.objects[1], Asked.arg))
          <6>1. Asked.op = "change" => IsKey(Asked.arg)
            BY <2>2, <3>1, ValuesAreKeys DEF ProperCommand
          <6>. QED  BY <5>1, <6>1, KeysAlike
        <5>4. SlotAnswered(i)
          BY <3>1, <3>3 DEF CommandAnswered
        <5>5. ASSUME NEW key, KeyAnswered(i, key)
              PROVE  KeyAnswered(i, key)'
          BY <1>1, <5>1, <5>2, <5>3, <5>5 DEF KeyAnswered, Replaced, SameKeys
        <5>. QED  BY <1>1, <2>3, <3>1, <4>2, <5>1, <5>4, <5>5 DEF SlotAnswered, SameKeys
      <4>. QED  BY <4>1, <4>2
    <3>4. wire.intact => ResultAnswered'
      <4>1. AllSigned' <=> AllSigned
        BY <1>1, <2>3, <3>1 DEF AllSigned
      <4>2. ASSUME wire.intact, AllSigned, wire.encrypting # {}
            PROVE  LET s == Asked.slots[CHOOSE j \in wire.encrypting : TRUE]
                   IN  SameKeys(sessions'[s], sessions[s])
        BY <2>2, <3>1, <4>2 DEF CommandAnswered, ResultAnswered, SlotsOfSessions
      <4>. QED  BY <1>1, <3>1, <4>1, <4>2 DEF CommandAnswered, ResultAnswered, SlotsOfSessions,
                                                SameKeys, Authorises
    <3>. QED  BY <1>1, <3>1, <3>2, <3>3, <3>4 DEF CommandAnswered
  <2>. QED  BY <1>1, <1>2, <2>1, <2>4, <2>5, <2>6 DEF HmacsInv
<1>. QED  BY <1>3, <1>4

(* Esys_TR_SetAuth. *)
LEMMA SetAuthHmacs ==
  ASSUME SessionsInv, HmacsInv, NEW o, NEW value \in AuthValue, SetAuth(o, value)
  PROVE  HmacsInv'
<1>1. /\ state' = state /\ wire' = wire /\ salt' = salt /\ tpm' = tpm /\ tpmAuth' = tpmAuth
      /\ sessions' = sessions /\ auth' = [auth EXCEPT ![o] = value]
  BY DEF SetAuth
<1>2. \A s \in DOMAIN sessions : SameKeys(sessions[s], sessions[s]) /\ TypedNode(sessions[s])
  BY DEF SameKeys, HmacsInv, Typed
<1>3. DOMAIN auth' = DOMAIN auth /\ \A x \in DOMAIN auth : auth'[x] \in AuthValue
  BY <1>1 DEF HmacsInv, Typed
<1>. QED  BY <1>1, <1>2, <1>3, StableHmacs

(* Esys_TRSess_SetAttributes. *)
LEMMA SetAttributesHmacs ==
  ASSUME SessionsInv, HmacsInv, NEW s \in Sessions, NEW attributes \in AttributeSets[s],
         SetAttributes(s, attributes)
  PROVE  HmacsInv'
<1>1. /\ state' = state /\ wire' = wire /\ salt' = salt /\ tpm' = tpm /\ tpmAuth' = tpmAuth
      /\ auth' = auth /\ s \in DOMAIN sessions
      /\ sessions' = [sessions EXCEPT ![s].sessionAttributes = attributes]
  BY DEF SetAttributes
<1>2. attributes \subseteq Attributes
  BY EsysSessionsAssumption
<1>3. ASSUME NEW t \in DOMAIN sessions
      PROVE  SameKeys(sessions'[t], sessions[t]) /\ TypedNode(sessions'[t])
  <2>1. TypedNode(sessions[t])
    BY DEF HmacsInv, Typed
  <2> DEFINE new == [sessions[t] EXCEPT !.sessionAttributes = attributes]
  <2>2. /\ SameKeys(new, sessions[t]) /\ DOMAIN new = NodeFields
        /\ new.sessionAttributes = attributes
    BY <2>1 DEF TypedNode, NodeFields, SameKeys
  <2>3. sessions'[t] = IF t = s THEN new ELSE sessions[t]
    BY <1>1
  <2> HIDE DEF new
  <2>4. TypedNode(new)
    BY <1>2, <2>1, <2>2 DEF TypedNode, SameKeys
  <2>5. SameKeys(sessions[t], sessions[t])
    BY DEF SameKeys
  <2>. QED  BY <2>1, <2>2, <2>3, <2>4, <2>5
<1>4. DOMAIN sessions' = DOMAIN sessions /\ \A o \in DOMAIN auth : auth'[o] \in AuthValue
  BY <1>1 DEF HmacsInv, Typed
<1>. QED  BY <1>1, <1>3, <1>4, StableHmacs

(* Esys_TR_Close. *)
LEMMA CloseHmacs ==
  ASSUME SessionsInv, HmacsInv, NEW s, Close(s)
  PROVE  HmacsInv'
<1>1. /\ state = "INIT" /\ state' = state /\ wire' = wire /\ tpm' = tpm /\ salt' = salt
      /\ auth' = auth /\ tpmAuth' = tpmAuth
      /\ DOMAIN sessions' = DOMAIN sessions \ {s}
      /\ \A t \in DOMAIN sessions' : sessions'[t] = sessions[t]
  BY DEF Close, Restrict
<1>2. wire.phase = "idle" /\ ~Sent' /\ ~Succeeded' /\ ~Succeeded
  BY <1>1 DEF SessionsInv, Phases, Sent, Succeeded, Answer
<1>3. Typed' /\ Pairs'
  BY <1>1 DEF HmacsInv, Typed, Pairs
<1>4. SameObjects'
  BY <1>1, <1>2 DEF HmacsInv, SameObjects
<1>. QED  BY <1>1, <1>2, <1>3, <1>4 DEF HmacsInv
-----------------------------------------------------------------------------
(* Answers that change no session.                                          *)

(* An error that ends a command. *)
LEMMA FinishErrorHmacs ==
  ASSUME SessionsInv, HmacsInv, FinishError
  PROVE  HmacsInv'
<1>1. /\ state = "SENT" /\ ~Succeeded /\ state' = "INIT" /\ wire' = Quiet
      /\ sessions' = sessions /\ auth' = auth /\ salt' = salt /\ tpm' = tpm
      /\ tpmAuth' = tpmAuth
  BY DEF FinishError, Succeeded
<1>2. wire'.phase = "idle"
  BY <1>1 DEF Quiet
<1>3. ~Sent' /\ ~Succeeded'
  BY <1>2 DEF Sent, Succeeded, Answer
<1>4. Typed' /\ Pairs' /\ SameObjects'
  BY <1>1, <1>3 DEF HmacsInv, Typed, Pairs, SameObjects
<1>. QED  BY <1>1, <1>3, <1>4 DEF HmacsInv

(* A resubmission. *)
LEMMA FinishRetryHmacs ==
  ASSUME SessionsInv, HmacsInv, FinishRetry
  PROVE  HmacsInv'
<1>1. state = "SENT" /\ ~Succeeded /\ Submit(Asked)
  BY DEF FinishRetry, Succeeded
<1>2. UnderWay /\ CommandUnderWay
  BY <1>1 DEF SessionsInv, HmacsInv
<1>. QED  BY <1>1, <1>2, SubmitHmacs DEF UnderWay, CommandUnderWay

(* The command under way is the same while sessions and values are. *)
LEMMA SameCommand ==
  ASSUME CommandUnderWay, sessions' = sessions, auth' = auth,
         wire'.command = wire.command, wire'.believed = wire.believed
  PROVE  CommandUnderWay'
<1>1. Asked' = Asked
  BY DEF Asked
<1>2. \A i : ValueOf(i)' = ValueOf(i)
  BY <1>1 DEF ValueOf, Authorises
<1>3. ValuesComputed'
  BY <1>1, <1>2 DEF CommandUnderWay, ValuesComputed
<1>. QED  BY <1>1, <1>3 DEF CommandUnderWay, ProperCommand, IsCommand

(* The TPM refuses. *)
LEMMA TpmRefusesHmacs ==
  ASSUME SessionsInv, HmacsInv, TpmRefuses
  PROVE  HmacsInv'
<1>1. /\ Sent /\ state' = state /\ sessions' = sessions /\ salt' = salt /\ auth' = auth
      /\ tpm' = tpm /\ tpmAuth' = tpmAuth
  BY DEF TpmRefuses
<1>2. /\ wire'.phase = "answered" /\ wire'.command = wire.command /\ wire'.rc # "success"
      /\ wire'.believed = wire.believed
  <2>1. PICK rc \in {"error", "retry"} : wire' = Answered(rc, PlainText, <<>>)
    BY DEF TpmRefuses
  <2>. QED  BY <2>1, AnsweredFields DEF Asked
<1>3. ~Succeeded /\ ~Succeeded' /\ ~Sent' /\ state = "SENT"
  BY <1>1, <1>2 DEF SessionsInv, Phases, Succeeded, Answer, Sent
<1>4. Typed' /\ Pairs' /\ SameObjects'
  BY <1>1, <1>3 DEF HmacsInv, Typed, Pairs, SameObjects
<1>5. CommandUnderWay'
  BY <1>1, <1>2, <1>3, SameCommand DEF HmacsInv
<1>. QED  BY <1>1, <1>3, <1>4, <1>5 DEF HmacsInv

(* A corrupted response has attributes and nonces of the same types. *)
LEMMA CorruptHmacs ==
  ASSUME SessionsInv, HmacsInv, Corrupt
  PROVE  HmacsInv'
<1>1. /\ Succeeded /\ wire.intact /\ state' = state /\ sessions' = sessions /\ salt' = salt
      /\ auth' = auth /\ tpm' = tpm /\ tpmAuth' = tpmAuth
  BY DEF Corrupt, Succeeded, Answer
<1>2. state = "SENT" /\ Done /\ UnderWay /\ CommandUnderWay /\ CommandAnswered
  BY <1>1 DEF SessionsInv, HmacsInv, Phases, Succeeded, Answer
<1>3. DOMAIN wire = AnswerFields
  BY <1>2 DEF Done
<1>4. ASSUME NEW field \in {"phase", "command", "rc", "believed"}
      PROVE  wire'[field] = wire[field]
  BY <1>3 DEF Corrupt, AnswerFields
<1>5. wire'.intact = FALSE
  BY <1>3 DEF Corrupt, AnswerFields
<1>6. \/ wire'.auths = wire.auths
      \/ wire'.auths = <<>>
      \/ \E k \in DOMAIN wire.auths : /\ wire.auths[k].nonce # NoNonce
                                      /\ wire'.auths = [wire.auths EXCEPT ![k].nonce = Fresh(@)]
  BY <1>3 DEF Corrupt, AnswerFields
<1>7. /\ Asked' = Asked /\ Succeeded' /\ ~Sent' /\ wire'.command = wire.command
      /\ wire'.believed = wire.believed
  BY <1>1, <1>4 DEF Asked, Succeeded, Answer, Sent
<1>8. \A i : Unsigned(i)' = Unsigned(i)
  BY <1>1, <1>7 DEF Unsigned, InClear
<1>9. AnswerTyped'
  <2>1. CASE wire'.auths = <<>>
    BY <2>1 DEF AnswerTyped
  <2>2. CASE wire'.auths = wire.auths
    BY <1>2, <1>7, <1>8, <2>2 DEF CommandAnswered, AnswerTyped
  <2>3. ASSUME wire.auths # <<>>, NEW k \in DOMAIN wire.auths, wire.auths[k].nonce # NoNonce,
               wire'.auths = [wire.auths EXCEPT ![k].nonce = Fresh(@)]
        PROVE  AnswerTyped'
    <3>1. /\ DOMAIN wire.auths = DOMAIN Asked.slots /\ Whole
          /\ \A i \in DOMAIN Asked.slots : DOMAIN wire.auths[i] = AuthFields
      BY <1>1, <1>2, <2>3 DEF Done, SlotsAnswered
    <3>2. Fresh(wire.auths[k].nonce) \in 0 .. TpmCycle - 1
      BY <2>3, <3>1, FreshNonces DEF Whole
    <3>3. ASSUME NEW i \in DOMAIN Asked.slots
          PROVE  /\ wire'.auths[i].attributes \subseteq Attributes
                 /\ ~Unsigned(i) => wire'.auths[i].nonce \in 0 .. TpmCycle - 1
      <4>1. /\ wire.auths[i].attributes \subseteq Attributes
            /\ ~Unsigned(i) => wire.auths[i].nonce \in 0 .. TpmCycle - 1
        BY <1>2, <2>3 DEF CommandAnswered, AnswerTyped
      <4>2. wire'.auths[i] = IF i = k THEN [wire.auths[i] EXCEPT !.nonce = Fresh(wire.auths[k].nonce)]
                             ELSE wire.auths[i]
        BY <2>3, <3>1
      <4>3. DOMAIN wire.auths[i] = AuthFields
        BY <3>1
      <4>. QED  BY <3>2, <4>1, <4>2, <4>3 DEF AuthFields
    <3>. QED  BY <1>7, <1>8, <3>3 DEF AnswerTyped
  <2>4. wire.auths = <<>> => wire'.auths = <<>>
    BY <1>6
  <2>. QED  BY <1>6, <2>1, <2>2, <2>3, <2>4
<1>10. CommandAnswered'
  BY <1>1, <1>2, <1>5, <1>7, <1>9 DEF CommandAnswered
<1>11. Typed' /\ Pairs' /\ SameObjects'
  <2>1. Typed /\ Pairs /\ SameObjects
    BY <1>2 DEF HmacsInv
  <2>2. Typed' /\ Pairs'
    BY <1>1, <2>1 DEF Typed, Pairs
  <2>3. SameObjects'
    BY <1>1, <1>7, <2>1 DEF SameObjects
  <2>. QED  BY <2>2, <2>3
<1>12. CommandUnderWay'
  BY <1>1, <1>2, <1>7, SameCommand
<1>. QED  BY <1>1, <1>7, <1>10, <1>11, <1>12 DEF HmacsInv
-----------------------------------------------------------------------------
(* The TPM.                                                                 *)

(* The other fields of HMACs. *)
LEMMA KeyFields ==
  ASSUME NEW key, NEW hash, NEW newer, NEW older, NEW dec, NEW enc, NEW attributes
  PROVE  LET h == Hmac(key, hash, newer, older, dec, enc, attributes)
         IN  h.key = key /\ h.older = older
BY DEF Hmac

(* What the invariants say of a command that was sent. *)
LEMMA SentFacts ==
  ASSUME SessionsInv, HmacsInv, Sent
  PROVE  /\ state = "SENT" /\ ~Succeeded
         /\ BothSides /\ SameNonces /\ UnderWay /\ SlotsSent
         /\ Typed /\ Pairs /\ DOMAIN tpmAuth = DOMAIN auth
         /\ CommandUnderWay /\ CommandSent /\ ProperCommand(Asked)
         /\ \A i \in DOMAIN Asked.slots : Asked.slots[i] # Password =>
              /\ Asked.slots[i] \in InSlots(Asked) /\ Asked.slots[i] \in DOMAIN sessions
              /\ TypedNode(sessions[Asked.slots[i]])
         /\ Present => \A i \in DOMAIN Asked.slots : Asked.slots[i] # Password =>
              /\ Asked.slots[i] \in DOMAIN tpm
              /\ IsSession(SlotSession(i)) /\ Paired(sessions[Asked.slots[i]], SlotSession(i))
<1>1. state = "SENT" /\ ~Succeeded
  BY DEF SessionsInv, Phases, Sent, Succeeded, Answer
<1>2. /\ BothSides /\ SameNonces /\ UnderWay /\ SlotsSent
      /\ Typed /\ Pairs /\ CommandUnderWay /\ CommandSent
  BY <1>1 DEF SessionsInv, HmacsInv
<1>3. DOMAIN tpmAuth = DOMAIN auth
  BY <1>1 DEF HmacsInv, SameObjects
<1>4. ProperCommand(Asked)
  BY <1>2 DEF CommandUnderWay
<1>5. ASSUME NEW i \in DOMAIN Asked.slots, Asked.slots[i] # Password
      PROVE  /\ Asked.slots[i] \in InSlots(Asked) /\ Asked.slots[i] \in DOMAIN sessions
             /\ TypedNode(sessions[Asked.slots[i]])
  <2>1. Asked.slots[i] \in InSlots(Asked) /\ Asked.slots[i] \in DOMAIN sessions
    BY <1>2, <1>4, <1>5, OneSlot DEF UnderWay
  <2>. QED  BY <1>2, <2>1 DEF Typed
<1>6. ASSUME Present, NEW i \in DOMAIN Asked.slots, Asked.slots[i] # Password
      PROVE  /\ Asked.slots[i] \in DOMAIN tpm
             /\ IsSession(SlotSession(i)) /\ Paired(sessions[Asked.slots[i]], SlotSession(i))
  BY <1>2, <1>5, <1>6 DEF Present, BothSides, Pairs, SlotSession
<1>. QED  BY <1>1, <1>2, <1>3, <1>4, <1>5, <1>6

(* Equal keys of HMACs begin with equal session keys, if these have one size. *)
LEMMA FirstByte ==
  ASSUME NEW node, TypedNode(node), NEW value, Computed(node, value),
         NEW m, IsKey(m), Len(node.sessionKey) = Len(m), NEW v, IsKey(v),
         HmacKey(node) = m \o v
  PROVE  node.sessionKey = m
<1>1. IsKey(node.sessionKey)
  BY DEF TypedNode
<1>2. CASE node.sessionKey = <<>>
  BY <1>2, KeySize
<1>3. ASSUME NEW a, node.sessionKey = <<a>>, NEW b, m = <<b>>
      PROVE  a = b
  <2> DEFINE bytes == node.sessionValue
  <2>1. bytes = <<bytes[1], bytes[2]>> /\ SubSeq(bytes, 1, Len(<<a>>)) = <<a>>
    BY <1>3 DEF Computed, Begins
  <2>2. Len(<<a>>) = 1
    OBVIOUS
  <2>3. SubSeq(bytes, 1, 1) = <<a>>
    BY <2>1, <2>2
  <2> HIDE DEF bytes
  <2>4. /\ SubSeq(bytes, 1, 0) = <<>> /\ SubSeq(bytes, 1, 1) = <<bytes[1]>>
        /\ SubSeq(bytes, 1, 2) = bytes
    BY <2>1, FirstBytes
  <2>5. bytes[1] = a
    BY <2>3, <2>4
  <2>6. \/ m \o v = <<b>>
        \/ \E y : m \o v = <<b, y>>
    <3>1. CASE v = <<>>
      BY <1>3, <3>1
    <3>2. CASE v = <<v[1]>>
      <4>1. \A y : <<b>> \o <<y>> = <<b, y>>
        BY TwoBytes
      <4>. QED  BY <1>3, <3>2, <4>1
    <3>. QED  BY <3>1, <3>2 DEF IsKey
  <2>7. (m \o v)[1] = b /\ m \o v # <<>>
    <3>1. \A y : <<b, y>>[1] = b /\ <<b>>[1] = b /\ <<b, y>> # <<>> /\ <<b>> # <<>>
      OBVIOUS
    <3>. QED  BY <2>6, <3>1
  <2>8. CASE node.sizeHmacValue \in 0..2
    <3>1. HmacKey(node) = SubSeq(bytes, 1, node.sizeHmacValue)
      BY <2>8 DEF HmacKey, bytes
    <3>2. HmacKey(node) = <<>> \/ HmacKey(node) = <<bytes[1]>> \/ HmacKey(node) = bytes
      BY <2>4, <2>8, <3>1
    <3>3. <<bytes[1]>>[1] = bytes[1]
      OBVIOUS
    <3>. QED  BY <2>5, <2>7, <3>2, <3>3
  <2>9. CASE node.sizeHmacValue \notin 0..2
    <3>1. HmacKey(node) = bytes \o <<NoByte>>
      BY <2>9 DEF HmacKey, bytes
    <3>2. \A x, y, z : (<<x, y>> \o <<z>>)[1] = x
      <4>1. ASSUME NEW x, NEW y, NEW z
            PROVE  (<<x, y>> \o <<z>>)[1] = x
        <5> DEFINE s == <<x, y>>
                   t == <<z>>
        <5>1. s \in Seq({x, y, z}) /\ t \in Seq({x, y, z}) /\ Len(s) = 2 /\ Len(t) = 1 /\ s[1] = x
          OBVIOUS
        <5> HIDE DEF s, t
        <5>2. (s \o t)[1] = x
          BY <5>1, ConcatProperties
        <5>. QED  BY <5>2 DEF s, t
      <4>. QED  BY <4>1
    <3>3. (bytes \o <<NoByte>>)[1] = bytes[1]
      BY <2>1, <3>2
    <3>. QED  BY <2>5, <2>7, <3>1, <3>3
  <2>. QED  BY <2>8, <2>9
<1>4. CASE node.sessionKey # <<>>
  <2>1. /\ node.sessionKey = <<node.sessionKey[1]>> /\ Len(node.sessionKey) # 0
        /\ m # <<>> => m = <<m[1]>>
    BY <1>1, <1>4, KeySize DEF IsKey
  <2>2. m # <<>>
    BY <2>1, KeySize
  <2> DEFINE a == node.sessionKey[1]
             b == m[1]
  <2>3. node.sessionKey = <<a>> /\ m = <<b>>
    BY <2>1, <2>2
  <2> HIDE DEF a, b
  <2>. QED  BY <1>3, <2>3
<1>. QED  BY <1>2, <1>4

(* What the TPM accepts as the HMAC of a slot is computed with the same keys. *)
LEMMA AcceptedSlot ==
  ASSUME SessionsInv, HmacsInv, Sent, Accepts, NEW i \in DOMAIN Asked.slots, ~Unsigned(i)
  PROVE  LET node    == sessions[Asked.slots[i]]
             session == SlotSession(i)
         IN  /\ ~AsksPassword(i) /\ Asked.slots[i] # Password
             /\ TypedNode(node) /\ Paired(node, session) /\ IsSession(session)
             /\ HmacKey(node) = TpmHmacKey(i, tpmAuth)
             /\ node.sessionKey = session.sessionKey /\ node.bound_entity = session.bound_entity
             /\ wire.auths[i].nonce = node.nonceCaller
             /\ wire.auths[i].attributes \subseteq Attributes
<1> DEFINE node    == sessions[Asked.slots[i]]
           session == SlotSession(i)
<1>1. SlotsSent /\ CommandSent /\ CommandUnderWay /\ Present /\ Typed
  BY SentFacts DEF Accepts
<1>2. ~AsksPassword(i) /\ Asked.slots[i] # Password
  BY <1>1, NoPasswordAsked
<1>3. TypedNode(node) /\ Paired(node, session) /\ IsSession(session)
  BY <1>1, <1>2, SentFacts
<1>4. /\ wire.auths[i].nonce = node.nonceCaller
      /\ wire.auths[i].attributes \subseteq Attributes
      /\ wire.auths[i].hmac.key = HmacKey(node)
  <2>1. /\ wire.auths[i].nonce = node.nonceCaller
        /\ wire.auths[i].attributes \subseteq Attributes
        /\ wire.auths[i].hmac = Hmac(HmacKey(node), wire.param, node.nonceCaller, node.nonceTPM,
                                     NonceFor(i, wire.decrypting), NonceFor(i, wire.encrypting),
                                     wire.auths[i].attributes)
    BY <1>1 DEF CommandSent, SlotSent
  <2>. QED  BY <2>1, KeyFields
<1>5. wire.auths[i].hmac.key = TpmHmacKey(i, tpmAuth)
  <2>1. wire.auths[i].hmac =
          Hmac(TpmHmacKey(i, tpmAuth), wire.param, wire.auths[i].nonce, SlotSession(i).nonceTPM,
               TpmOtherNonce(i, SlotsWith("decrypt")),
               TpmOtherNonce(i, SlotsWith("encrypt") \ SlotsWith("decrypt")),
               wire.auths[i].attributes)
    BY <1>2 DEF Accepts, Expected
  <2>. QED  BY <2>1, KeyFields
<1>6. node.sessionKey = session.sessionKey
  <2> DEFINE v == IF AddsAuth(i, tpmAuth) THEN tpmAuth[Asked.objects[i]] ELSE <<>>
  <2>1. IsKey(v)
    BY <1>1, ValuesAreKeys DEF AddsAuth, Typed
  <2>2. TpmHmacKey(i, tpmAuth) = session.sessionKey \o v
    BY DEF TpmHmacKey
  <2> HIDE DEF v
  <2>3. Computed(node, ValueOf(i))
    BY <1>1, <1>2 DEF CommandUnderWay, ValuesComputed
  <2>4. IsKey(session.sessionKey) /\ Len(node.sessionKey) = Len(session.sessionKey)
    BY <1>3 DEF Paired
  <2> HIDE DEF node, session
  <2>5. HmacKey(node) = session.sessionKey \o v
    BY <1>4, <1>5, <2>2
  <2>. QED  BY <1>3, <2>1, <2>3, <2>4, <2>5, FirstByte
<1>7. node.bound_entity = session.bound_entity
  BY <1>3, <1>6 DEF Paired
<1>. QED  BY <1>2, <1>3, <1>4, <1>5, <1>6, <1>7

(* What it accepts in the clear it asked for as a password. *)
LEMMA AcceptedClear ==
  ASSUME SessionsInv, HmacsInv, Sent, Accepts, NEW i \in DOMAIN Asked.slots, Unsigned(i)
  PROVE  AsksPassword(i) /\ wire.auths[i].attributes = {}
<1>1. /\ wire.auths[i].hmac = Clear(ValueOf(i)) /\ wire.auths[i].attributes = {}
  BY SentFacts DEF CommandSent, SlotSent
<1>2. wire.auths[i].hmac = Expected(i) /\ Present
  BY DEF Accepts
<1>3. ASSUME ~AsksPassword(i) PROVE FALSE
  <2>1. Asked.slots[i] # Password
    BY <1>3 DEF AsksPassword
  <2>2. SlotSession(i).nonceTPM # NoNonce
    BY <1>2, <2>1, SentFacts, NonceIsOne DEF IsSession
  <2>3. Expected(i).older = SlotSession(i).nonceTPM
    <3>1. Expected(i) =
            Hmac(TpmHmacKey(i, tpmAuth), wire.param, wire.auths[i].nonce, SlotSession(i).nonceTPM,
                 TpmOtherNonce(i, SlotsWith("decrypt")),
                 TpmOtherNonce(i, SlotsWith("encrypt") \ SlotsWith("decrypt")),
                 wire.auths[i].attributes)
      BY <1>3 DEF Expected
    <3>. QED  BY <3>1, KeyFields
  <2>4. Clear(ValueOf(i)).older = NoNonce
    BY KeyFields DEF Clear
  <2>. QED  BY <1>1, <1>2, <2>2, <2>3, <2>4
<1>. QED  BY <1>1, <1>3

(* The TPM answers with the key that the library will use, as far as it can. *)
LEMMA AnsweredKey ==
  ASSUME SessionsInv, HmacsInv, Sent, Accepts, NEW i \in DOMAIN Asked.slots, ~Unsigned(i)
  PROVE  KeyAnswered(i, TpmHmacKey(i, AuthsAfter))
<1> DEFINE node    == sessions[Asked.slots[i]]
           session == SlotSession(i)
           key     == TpmHmacKey(i, AuthsAfter)
<1>1. /\ Asked.slots[i] # Password /\ TypedNode(node) /\ Paired(node, session)
      /\ HmacKey(node) = TpmHmacKey(i, tpmAuth)
      /\ node.sessionKey = session.sessionKey /\ node.bound_entity = session.bound_entity
  BY AcceptedSlot
<1>2. /\ UnderWay /\ Present /\ ProperCommand(Asked) /\ IsCommand(Asked) /\ CommandSent
      /\ Asked.slots[i] \in InSlots(Asked) /\ Asked.slots[i] \in DOMAIN tpm
      /\ session = tpm[Asked.slots[i]]
  BY <1>1, SentFacts DEF Accepts, UnderWay, SlotSession
<1>3. ASSUME ~Replaced(i)
      PROVE  key = HmacKey(node)
  <2>1. CASE Asked.op \notin {"change", "undefine"}
    BY <1>1, <1>2, <2>1, AuthsAfterFacts
  <2>2. CASE i # 1 /\ Asked.op \in {"change", "undefine"}
    <3>1. ~Authorises(Asked, i)
      BY <1>2, <2>2 DEF Authorises, IsCommand
    <3>2. ~AddsAuth(i, AuthsAfter) /\ ~AddsAuth(i, tpmAuth)
      BY <3>1 DEF AddsAuth
    <3>. QED  BY <1>1, <3>2 DEF TpmHmacKey
  <2>. QED  BY <1>3, <2>1, <2>2 DEF Replaced
<1>4. ASSUME i = 1, Asked.op = "undefine"
      PROVE  key = node.sessionKey
  <2>1. Asked.objects[1] \notin DOMAIN AuthsAfter
    BY <1>4 DEF AuthsAfter, Restrict
  <2>2. ~AddsAuth(i, AuthsAfter)
    BY <1>4, <2>1 DEF AddsAuth
  <2>3. key = session.sessionKey \o <<>>
    BY <2>2 DEF TpmHmacKey
  <2>. QED  BY <1>1, <2>3, KeySize DEF TypedNode
<1>5. ASSUME i = 1, Asked.op = "change",
             \/ Asked.arg = <<>>
             \/ /\ wire.policies
                /\ node.sessionType = "POLICY" => node.type_policy_session # "NO_POLICY_AUTH"
      PROVE  key = HmacKey(compute_session_value(node, Asked.objects[1], Asked.arg))
  <2> DEFINE o == Asked.objects[1]
             new == Asked.arg
  <2>1. /\ IsKey(new) /\ Authorises(Asked, 1) /\ o \in DOMAIN tpmAuth
        /\ AuthsAfter = [tpmAuth EXCEPT ![o] = new]
    <3>1. 1 \in DOMAIN Asked.objects
      BY <1>2, <1>5 DEF IsCommand
    <3>2. AuthsAfter = [tpmAuth EXCEPT ![o] = new]
      BY <1>5 DEF AuthsAfter
    <3>3. o \in DOMAIN tpmAuth
      BY <1>2, <3>1 DEF Present, Range
    <3>4. IsKey(new)
      BY <1>2, <1>5, ValuesAreKeys DEF ProperCommand
    <3>. QED  BY <3>1, <3>2, <3>3, <3>4 DEF Authorises
  <2>2. AuthsAfter[o] = new /\ o \in DOMAIN AuthsAfter
    BY <2>1
  <2>3. key = session.sessionKey \o (IF AddsAuth(i, AuthsAfter) THEN new ELSE <<>>)
    BY <1>5, <2>2 DEF TpmHmacKey
  <2>4. HmacKey(compute_session_value(node, o, new)) =
          node.sessionKey \o (IF AddsValue(node, o, new) THEN new ELSE <<>>)
    BY <1>1, <2>1, HmacKeyOfValue
  <2>5. CASE new = <<>>
    BY <1>1, <2>3, <2>4, <2>5
  <2>6. CASE /\ wire.policies
             /\ node.sessionType = "POLICY" => node.type_policy_session # "NO_POLICY_AUTH"
    <3>1. node.type_policy_session = session.policy
      <4>1. Asked.slots[i] \in InSlots(Asked) \cap DOMAIN tpm
        BY <1>2
      <4>. QED  BY <1>2, <2>6, <4>1 DEF CommandSent
    <3>2. node.type_policy_session \in Policies \ {"POLICY_PASSWORD"}
      BY <1>1 DEF TypedNode, Unsigned, InClear
    <3>3. AddsAuth(i, AuthsAfter) <=>
            IF session.type = "POLICY" THEN session.policy = "POLICY_AUTH"
            ELSE ~IsBound(session.bound_entity, o, new)
      BY <1>5, <2>1, <2>2 DEF AddsAuth
    <3>4. AddsAuth(i, AuthsAfter) <=> AddsValue(node, o, new)
      BY <1>1, <2>6, <3>1, <3>2, <3>3 DEF AddsValue, Paired, Policies
    <3>. QED  BY <1>1, <2>3, <2>4, <3>4
  <2>. QED  BY <1>5, <2>5, <2>6
<1>. QED  BY <1>3, <1>4, <1>5 DEF KeyAnswered

(* The sessions of the TPM after a command keep type, key and bound entity;
   only sessions of policies have one. *)
LEMMA SessionsAfterKeys ==
  ASSUME SessionsInv, HmacsInv, Sent, Accepts, Possible
  PROVE  /\ DOMAIN SessionsAfter \subseteq Sessions
         /\ \A s \in DOMAIN sessions \cap DOMAIN SessionsAfter :
              s \in DOMAIN tpm /\ Paired(sessions[s], SessionsAfter[s])
         /\ Asked.op = "policy" => /\ Asked.arg.session \in DOMAIN SessionsAfter
                                   /\ SessionsAfter[Asked.arg.session].type = "POLICY"
<1>1. BothSides /\ Typed /\ Pairs /\ UnderWay /\ ProperCommand(Asked)
  BY SentFacts
<1> DEFINE left == [s \in DOMAIN tpm \ Ended |-> Continued(s)]
<1>2. ASSUME NEW s \in DOMAIN tpm
      PROVE  /\ Continued(s).type = tpm[s].type
             /\ Continued(s).sessionKey = tpm[s].sessionKey
             /\ Continued(s).bound_entity = tpm[s].bound_entity
             /\ \/ Continued(s).policy \in {tpm[s].policy, "NO_POLICY_AUTH"}
                \/ Asked.op = "policy" /\ Asked.arg.session = s
  <2>1. DOMAIN tpm[s] = SessionFields
    BY <1>1 DEF BothSides, IsSession
  <2> DEFINE nonce == IF s \in InSlots(Asked) THEN Fresh(tpm[s].nonceTPM) ELSE tpm[s].nonceTPM
             policy == IF Asked.op = "policy" /\ Asked.arg.session = s THEN Asked.arg.type
                       ELSE IF s \in InSlots(Asked) /\ Authorises(Asked, SlotOf(Asked, s))
                       THEN "NO_POLICY_AUTH" ELSE tpm[s].policy
  <2>2. Continued(s) = [tpm[s] EXCEPT !.nonceTPM = nonce, !.policy = policy]
    BY <2>1 DEF Continued, SessionFields
  <2>3. \/ policy \in {tpm[s].policy, "NO_POLICY_AUTH"}
        \/ Asked.op = "policy" /\ Asked.arg.session = s
    <3>1. CASE Asked.op = "policy" /\ Asked.arg.session = s
      BY <3>1
    <3>2. CASE ~(Asked.op = "policy" /\ Asked.arg.session = s)
      BY <3>2
    <3>. QED  BY <3>1, <3>2
  <2> HIDE DEF nonce, policy
  <2>4. /\ Continued(s).policy = policy /\ Continued(s).type = tpm[s].type
        /\ Continued(s).sessionKey = tpm[s].sessionKey
        /\ Continued(s).bound_entity = tpm[s].bound_entity
    BY <2>1, <2>2 DEF SessionFields
  <2>. QED  BY <2>3, <2>4
<1>3. /\ DOMAIN left = DOMAIN tpm \ Ended
      /\ \A s \in DOMAIN left : left[s] = Continued(s)
  OBVIOUS
<1>4. /\ Asked.op = "start" => /\ DOMAIN SessionsAfter = DOMAIN left \union {Asked.arg.session}
                               /\ Asked.arg.session \in Sessions
                               /\ Asked.arg.session \notin DOMAIN sessions
                               /\ \A s \in DOMAIN left : SessionsAfter[s] = left[s]
      /\ Asked.op # "start" => SessionsAfter = left
  <2>1. Asked.op = "start" => /\ Asked.arg.session \in Sessions
                              /\ Asked.arg.session \notin DOMAIN sessions
    BY <1>1, EsysSessionsAssumption DEF ProperCommand, UnderWay
  <2>2. SessionsAfter = IF Asked.op = "start"
                        THEN [s \in DOMAIN left \union {Asked.arg.session} |->
                                IF s \in DOMAIN left THEN left[s] ELSE TpmStarted(Asked.arg)]
                        ELSE left
    BY DEF SessionsAfter
  <2> HIDE DEF left
  <2>. QED  BY <2>1, <2>2
<1> HIDE DEF left
<1>5. DOMAIN SessionsAfter \subseteq Sessions
  BY <1>1, <1>3, <1>4 DEF Typed
<1>6. ASSUME NEW s \in DOMAIN sessions \cap DOMAIN SessionsAfter
      PROVE  s \in DOMAIN tpm /\ Paired(sessions[s], SessionsAfter[s])
  <2>1. s \in DOMAIN left /\ SessionsAfter[s] = Continued(s) /\ s \in DOMAIN tpm
    BY <1>3, <1>4
  <2>2. Paired(sessions[s], tpm[s])
    BY <1>1, <2>1 DEF Pairs
  <2>3. Asked.op = "policy" /\ Asked.arg.session = s => tpm[s].type = "POLICY"
    BY DEF Possible
  <2>. QED  BY <1>2, <2>1, <2>2, <2>3 DEF Paired
<1>7. ASSUME Asked.op = "policy"
      PROVE  /\ Asked.arg.session \in DOMAIN SessionsAfter
             /\ SessionsAfter[Asked.arg.session].type = "POLICY"
  <2>1. Asked.arg.session \in DOMAIN tpm /\ tpm[Asked.arg.session].type = "POLICY"
    BY <1>7 DEF Possible
  <2>2. Ended = {}
    <3>1. InSlots(Asked) = {}
      BY <1>1, <1>7 DEF ProperCommand, InSlots, Range
    <3>. QED  BY <1>7, <3>1 DEF Ended
  <2>. QED  BY <1>2, <1>3, <1>4, <1>7, <2>1, <2>2
<1>. QED  BY <1>5, <1>6, <1>7

(* The values in the TPM after a command. *)
LEMMA AuthsAfterTyped ==
  ASSUME SessionsInv, HmacsInv, Sent, Present
  PROVE  /\ DOMAIN AuthsAfter = IF Asked.op = "undefine" THEN DOMAIN auth \ {Asked.objects[1]}
                                ELSE DOMAIN auth
         /\ \A o \in DOMAIN AuthsAfter : AuthsAfter[o] \in AuthValue
<1>1. /\ Typed /\ ProperCommand(Asked) /\ DOMAIN tpmAuth = DOMAIN auth
      /\ \A o \in DOMAIN tpmAuth : tpmAuth[o] \in AuthValue
  BY SentFacts DEF Typed
<1>2. CASE Asked.op = "change"
  BY <1>1, <1>2 DEF AuthsAfter, ProperCommand
<1>3. CASE Asked.op = "undefine"
  BY <1>1, <1>3 DEF AuthsAfter, Restrict
<1>4. CASE Asked.op \notin {"change", "undefine"}
  BY <1>1, <1>4 DEF AuthsAfter
<1>. QED  BY <1>2, <1>3, <1>4

(* Every slot of a command has an answer, of the session of the slot. *)
LEMMA ResponseFacts ==
  ASSUME SessionsInv, HmacsInv, Sent, Accepts, NEW i \in DOMAIN Asked.slots
  PROVE  /\ Response(i).attributes \subseteq Attributes
         /\ Unsigned(i) => Response(i).hmac = Clear(<<>>)
         /\ ~Unsigned(i) =>
              /\ Response(i).nonce \in 0 .. TpmCycle - 1
              /\ Response(i).nonce = Fresh(SlotSession(i).nonceTPM)
              /\ Response(i).hmac =
                   Hmac(Response(i).hmac.key, Result, Response(i).nonce,
                        sessions[Asked.slots[i]].nonceCaller, NoNonce, NoNonce,
                        Response(i).attributes)
              /\ KeyAnswered(i, Response(i).hmac.key)
<1>1. CASE Unsigned(i)
  <2>1. AsksPassword(i) /\ wire.auths[i].attributes = {}
    BY <1>1, AcceptedClear
  <2>2. Response(i) = [nonce |-> NoNonce, attributes |-> wire.auths[i].attributes,
                       hmac |-> Clear(<<>>)]
    BY <2>1 DEF Response
  <2>3. Response(i).attributes = wire.auths[i].attributes /\ Response(i).hmac = Clear(<<>>)
    BY <2>2
  <2>. QED  BY <1>1, <2>1, <2>3
<1>2. CASE ~Unsigned(i)
  <2>1. /\ ~AsksPassword(i) /\ IsSession(SlotSession(i))
        /\ wire.auths[i].nonce = sessions[Asked.slots[i]].nonceCaller
        /\ wire.auths[i].attributes \subseteq Attributes
    BY <1>2, AcceptedSlot
  <2> DEFINE nonce == Fresh(SlotSession(i).nonceTPM)
             key   == TpmHmacKey(i, AuthsAfter)
             hmac  == Hmac(key, Result, nonce, wire.auths[i].nonce, NoNonce, NoNonce,
                           wire.auths[i].attributes)
  <2>2. Response(i) = [nonce |-> nonce, attributes |-> wire.auths[i].attributes, hmac |-> hmac]
    BY <2>1 DEF Response
  <2>3. nonce \in 0 .. TpmCycle - 1
    BY <2>1, FreshNonces DEF IsSession
  <2>4. KeyAnswered(i, key)
    BY <1>2, AnsweredKey
  <2>5. hmac.key = key
    BY KeyFields
  <2>6. hmac = Hmac(hmac.key, Result, nonce, sessions[Asked.slots[i]].nonceCaller, NoNonce, NoNonce,
                    wire.auths[i].attributes)
    BY <2>1, <2>5
  <2>7. nonce = Fresh(SlotSession(i).nonceTPM)
    OBVIOUS
  <2> HIDE DEF nonce, key, hmac
  <2>8. /\ Response(i).nonce = nonce /\ Response(i).attributes = wire.auths[i].attributes
        /\ Response(i).hmac = hmac
    BY <2>2
  <2>9. /\ Response(i).nonce \in 0 .. TpmCycle - 1
        /\ Response(i).nonce = Fresh(SlotSession(i).nonceTPM)
        /\ Response(i).hmac =
              Hmac(Response(i).hmac.key, Result, Response(i).nonce,
                   sessions[Asked.slots[i]].nonceCaller, NoNonce, NoNonce, Response(i).attributes)
        /\ KeyAnswered(i, Response(i).hmac.key)
    BY <2>3, <2>4, <2>5, <2>6, <2>7, <2>8
  <2>. QED  BY <1>2, <2>1, <2>8, <2>9
<1>. QED  BY <1>1, <1>2

(* Which slots the TPM takes to encrypt, and whose parameters to decrypt. *)
LEMMA SignedSlots ==
  ASSUME SessionsInv, HmacsInv, Sent, AllSigned
  PROVE  SlotsWith("encrypt") = wire.encrypting /\ SlotsWith("decrypt") = wire.decrypting
<1>1. CommandSent
  BY SentFacts
<1>2. ASSUME NEW i \in DOMAIN Asked.slots
      PROVE  /\ "encrypt" \in wire.auths[i].attributes <=> i \in wire.encrypting
             /\ "decrypt" \in wire.auths[i].attributes <=> i \in wire.decrypting
  <2>1. CASE Unsigned(i)
    BY <1>1, <2>1 DEF AllSigned, CommandSent, SlotSent, SlotsOfSessions
  <2>2. CASE ~Unsigned(i)
    BY <1>1, <2>2 DEF CommandSent, SlotSent
  <2>. QED  BY <2>1, <2>2
<1>. QED  BY <1>1, <1>2 DEF SlotsWith, CommandSent, SlotsOfSessions

(* The key with which the TPM encrypts and decrypts. *)
LEMMA TpmKey ==
  ASSUME SessionsInv, HmacsInv, Sent, Accepts, NEW i \in DOMAIN Asked.slots, ~Unsigned(i)
  PROVE  TpmEncryptKey(i, tpmAuth) =
           sessions[Asked.slots[i]].sessionKey
           \o (IF Authorises(Asked, i) THEN tpmAuth[Asked.objects[i]] ELSE <<>>)
<1>1. SlotSession(i).sessionKey = sessions[Asked.slots[i]].sessionKey
  BY AcceptedSlot
<1>2. Authorises(Asked, i) => Asked.objects[i] \in DOMAIN tpmAuth
  BY DEF Accepts, Present, Authorises, Range
<1>. QED  BY <1>1, <1>2 DEF TpmEncryptKey

(* The result that the TPM encrypts. *)
LEMMA EncryptedResult ==
  ASSUME SessionsInv, HmacsInv, Sent, Accepts, Possible, AllSigned, wire.encrypting # {}
  PROVE  LET i    == CHOOSE i \in wire.encrypting : TRUE
             node == sessions[Asked.slots[i]]
         IN  /\ i \in DOMAIN Asked.slots /\ SlotsOfSessions(wire.encrypting)
             /\ Asked.op \notin {"change", "undefine"}
             /\ Result = Cipher(node.sessionKey
                                \o (IF Authorises(Asked, i) THEN tpmAuth[Asked.objects[i]]
                                    ELSE <<>>),
                                Response(i).nonce, node.nonceCaller)
<1> DEFINE i == CHOOSE i \in wire.encrypting : TRUE
           node == sessions[Asked.slots[i]]
<1>1. CommandSent /\ UnderWay /\ ProperCommand(Asked) /\ Present
  BY SentFacts DEF Accepts
<1>2. SlotsWith("encrypt") = wire.encrypting
  BY SignedSlots
<1>3. /\ i \in wire.encrypting /\ i \in DOMAIN Asked.slots /\ Asked.slots[i] # Password
      /\ SlotsOfSessions(wire.encrypting)
  BY <1>1 DEF CommandSent, SlotsOfSessions
<1>4. Asked.op \notin {"change", "undefine"}
  BY <1>1, <1>2 DEF Possible, ProperCommand
<1>5. AuthsAfter = tpmAuth
  BY <1>1, <1>4, AuthsAfterFacts
<1>6. ~Unsigned(i)
  BY <1>3 DEF AllSigned
<1>7. Result = Cipher(TpmEncryptKey(i, tpmAuth), Fresh(SlotSession(i).nonceTPM),
                      wire.auths[i].nonce)
  BY <1>2, <1>5 DEF Result
<1> HIDE DEF i
<1>8. /\ wire.auths[i].nonce = node.nonceCaller
      /\ Response(i).nonce = Fresh(SlotSession(i).nonceTPM)
  BY <1>3, <1>6, AcceptedSlot, ResponseFacts
<1>9. Result = Cipher(node.sessionKey
                      \o (IF Authorises(Asked, i) THEN tpmAuth[Asked.objects[i]] ELSE <<>>),
                      Response(i).nonce, node.nonceCaller)
  BY <1>3, <1>6, <1>7, <1>8, TpmKey
<1>. QED  BY <1>3, <1>4, <1>9 DEF i

(* A function over the numbers to a length has this length. *)
LEMMA LengthOf ==
  ASSUME NEW n \in Nat, NEW f, DOMAIN f = 1..n, f = [i \in 1..n |-> f[i]]
  PROVE  Len(f) = n
<1> DEFINE S == {f[i] : i \in 1..n}
<1>1. f \in Seq(S)
  OBVIOUS
<1>2. Len(f) \in Nat /\ DOMAIN f = 1 .. Len(f)
  <2> HIDE DEF S
  <2>. QED  BY <1>1, LenProperties
<1>. QED  BY <1>2

(* When the TPM has executed a command, its response holds what the library
   computes from the same keys. *)
LEMMA TpmExecutesHmacs ==
  ASSUME SessionsInv, HmacsInv, TpmExecutes
  PROVE  HmacsInv'
<1> DEFINE auths == [i \in DOMAIN Asked.slots |-> Response(i)]
<1>1. /\ Sent /\ Accepts /\ Possible /\ Present
      /\ wire' = Answered("success", Result, auths)
      /\ tpm' = SessionsAfter /\ tpmAuth' = AuthsAfter
      /\ state' = state /\ sessions' = sessions /\ salt' = salt /\ auth' = auth
  BY DEF TpmExecutes, Accepts
<1>2. /\ wire'.phase = "answered" /\ wire'.command = Asked /\ wire'.rc = "success"
      /\ wire'.result = Result /\ wire'.auths = auths /\ wire'.intact
      /\ wire'.believed = wire.believed /\ wire'.command = wire.command
  BY <1>1, AnsweredFields DEF Asked
<1>3. wire'.encrypting = wire.encrypting /\ wire'.policies = wire.policies
  <2> HIDE DEF auths
  <2>1. \A a, b, c, d, e, f, g, h, k :
          LET w == [phase |-> a, command |-> b, rc |-> c, result |-> d, auths |-> e,
                    intact |-> f, encrypting |-> g, believed |-> h,
                    right |-> k, policies |-> wire.policies]
          IN  w.encrypting = g
    OBVIOUS
  <2>2. wire'.encrypting = wire.encrypting
    BY <1>1, <2>1 DEF Answered
  <2>3. wire'.policies = wire.policies
    BY <1>1, Zenon DEF Answered
  <2>. QED  BY <2>2, <2>3
<1>4. Asked' = Asked /\ Succeeded' /\ ~Sent'
  BY <1>2 DEF Asked, Succeeded, Answer, Sent
<1>5. /\ state = "SENT" /\ Typed /\ CommandUnderWay /\ CommandSent /\ ProperCommand(Asked)
  BY <1>1, SentFacts
<1>6. \A i : Unsigned(i)' = Unsigned(i)
  BY <1>1, <1>4 DEF Unsigned, InClear
<1>7. DOMAIN auths = DOMAIN Asked.slots /\ \A i \in DOMAIN Asked.slots : auths[i] = Response(i)
  OBVIOUS
<1>8. Len(auths) = Len(Asked.slots)
  <2>1. Len(Asked.slots) \in Nat /\ DOMAIN Asked.slots = 1 .. Len(Asked.slots)
    BY <1>5 DEF ProperCommand, IsCommand
  <2>2. auths = [i \in DOMAIN auths |-> auths[i]]
    OBVIOUS
  <2> HIDE DEF auths
  <2>. QED  BY <1>7, <2>1, <2>2, LengthOf
<1> HIDE DEF auths
<1>9. /\ DOMAIN tpm' \subseteq Sessions
      /\ \A s \in DOMAIN sessions \cap DOMAIN tpm' : Paired(sessions[s], tpm'[s])
      /\ Asked.op = "policy" => /\ Asked.arg.session \in DOMAIN tpm'
                                /\ tpm'[Asked.arg.session].type = "POLICY"
  BY <1>1, SessionsAfterKeys
<1>10. /\ DOMAIN tpmAuth' = IF Asked.op = "undefine" THEN DOMAIN auth \ {Asked.objects[1]}
                            ELSE DOMAIN auth
       /\ \A o \in DOMAIN tpmAuth' : tpmAuth'[o] \in AuthValue
  BY <1>1, AuthsAfterTyped
<1>11. Typed' /\ Pairs' /\ SameObjects'
  <2>1. Typed'
    <3>1. DOMAIN tpmAuth' \subseteq Objects
      BY <1>5, <1>10 DEF Typed
    <3>. QED  BY <1>1, <1>5, <1>9, <1>10, <3>1 DEF Typed
  <2>2. Pairs'
    BY <1>1, <1>9 DEF Pairs
  <2>3. SameObjects'
    BY <1>1, <1>4, <1>10 DEF SameObjects
  <2>. QED  BY <2>1, <2>2, <2>3
<1>12. CommandUnderWay'
  BY <1>1, <1>2, <1>5, SameCommand
<1>13. CommandAnswered'
  <2>1. AnswerTyped'
    <3>1. ASSUME NEW i \in DOMAIN Asked.slots
          PROVE  /\ wire'.auths[i].attributes \subseteq Attributes
                 /\ ~Unsigned(i) => wire'.auths[i].nonce \in 0 .. TpmCycle - 1
      <4>1. wire'.auths[i] = Response(i)
        BY <1>2, <1>7
      <4>2. /\ Response(i).attributes \subseteq Attributes
            /\ ~Unsigned(i) => Response(i).nonce \in 0 .. TpmCycle - 1
        BY <1>1, ResponseFacts
      <4>. QED  BY <4>1, <4>2
    <3>. QED  BY <1>4, <1>6, <3>1 DEF AnswerTyped
  <2>2. ASSUME NEW i \in DOMAIN Asked.slots
        PROVE  SlotAnswered(i)'
    <3>1. CASE Unsigned(i)
      <4>1. wire'.auths[i].hmac = Clear(<<>>)
        BY <1>1, <1>2, <1>7, <3>1, ResponseFacts
      <4>2. Clear(<<>>)' = Clear(<<>>)
        BY DEF Clear, Hmac
      <4>. QED  BY <1>6, <3>1, <4>1, <4>2 DEF SlotAnswered
    <3>2. CASE ~Unsigned(i)
      <4>1. auths[i] = Response(i)
        BY <1>7
      <4>2. KeyAnswered(i, auths[i].hmac.key)
        BY <1>1, <3>2, <4>1, ResponseFacts
      <4>3. \A key : KeyAnswered(i, key)' <=> KeyAnswered(i, key)
        BY <1>1, <1>3, <1>4 DEF KeyAnswered, Replaced
      <4>4. auths[i].hmac = Hmac(auths[i].hmac.key, Result, auths[i].nonce,
                                 sessions[Asked.slots[i]].nonceCaller, NoNonce, NoNonce,
                                 auths[i].attributes)
        BY <1>1, <3>2, <4>1, ResponseFacts
      <4>. QED  BY <1>1, <1>2, <1>4, <1>6, <3>2, <4>2, <4>3, <4>4 DEF SlotAnswered
    <3>. QED  BY <3>1, <3>2
  <2>3. ResultAnswered'
    <3>1. AllSigned' <=> AllSigned
      BY <1>4, <1>6 DEF AllSigned
    <3>2. ASSUME AllSigned, wire.encrypting # {}
          PROVE  LET i    == CHOOSE i \in wire.encrypting : TRUE
                     node == sessions[Asked.slots[i]]
                 IN  /\ SlotsOfSessions(wire.encrypting)' /\ Asked.op \notin {"change", "undefine"}
                     /\ Result = Cipher(node.sessionKey
                                        \o (IF Authorises(Asked, i) THEN tpmAuth'[Asked.objects[i]]
                                            ELSE <<>>),
                                        auths[i].nonce, node.nonceCaller)
      <4> DEFINE i    == CHOOSE i \in wire.encrypting : TRUE
                 node == sessions[Asked.slots[i]]
      <4>1. /\ i \in DOMAIN Asked.slots /\ SlotsOfSessions(wire.encrypting)
            /\ Asked.op \notin {"change", "undefine"}
            /\ Result = Cipher(node.sessionKey
                               \o (IF Authorises(Asked, i) THEN tpmAuth[Asked.objects[i]]
                                   ELSE <<>>),
                               Response(i).nonce, node.nonceCaller)
        BY <1>1, <3>2, EncryptedResult
      <4>2. tpmAuth' = tpmAuth
        BY <1>1, <4>1, SentFacts, AuthsAfterFacts
      <4>3. SlotsOfSessions(wire.encrypting)'
        BY <1>3, <1>4, <4>1 DEF SlotsOfSessions
      <4>4. auths[i] = Response(i)
        BY <1>7, <4>1
      <4>. QED  BY <4>1, <4>2, <4>3, <4>4
    <3>3. \A i : Authorises(Asked, i)' <=> Authorises(Asked, i)
      BY <1>4 DEF Authorises
    <3>. QED  BY <1>1, <1>2, <1>3, <1>4, <3>1, <3>2, <3>3 DEF ResultAnswered
  <2>. QED  BY <1>2, <1>4, <1>8, <1>9, <2>1, <2>2, <2>3 DEF CommandAnswered
<1>. QED  BY <1>1, <1>4, <1>5, <1>11, <1>12, <1>13 DEF HmacsInv
-----------------------------------------------------------------------------
(* The end of a command.                                                    *)

(* What the invariants say of a command that was executed. *)
LEMMA AnsweredFacts ==
  ASSUME SessionsInv, HmacsInv, Succeeded
  PROVE  /\ state = "SENT" /\ ~Sent
         /\ BothSides /\ UnderWay /\ Done /\ Typed /\ Pairs /\ SameObjects
         /\ CommandUnderWay /\ CommandAnswered /\ ProperCommand(Asked)
         /\ DOMAIN Asked.slots = 1 .. Len(Asked.slots) /\ Len(Asked.slots) \in Nat
         /\ \A i \in DOMAIN Asked.slots : Asked.slots[i] # Password =>
              /\ Asked.slots[i] \in InSlots(Asked) /\ SlotOf(Asked, Asked.slots[i]) = i
              /\ Asked.slots[i] \in DOMAIN sessions /\ TypedNode(sessions[Asked.slots[i]])
<1>1. state = "SENT" /\ ~Sent
  BY DEF SessionsInv, Phases, Sent, Succeeded, Answer
<1>2. /\ BothSides /\ UnderWay /\ Done /\ Typed /\ Pairs /\ SameObjects
      /\ CommandUnderWay /\ CommandAnswered
  BY <1>1 DEF SessionsInv, HmacsInv
<1>3. ProperCommand(Asked)
  BY <1>2 DEF CommandUnderWay
<1>4. DOMAIN Asked.slots = 1 .. Len(Asked.slots) /\ Len(Asked.slots) \in Nat
  BY <1>3 DEF ProperCommand, IsCommand
<1>5. ASSUME NEW i \in DOMAIN Asked.slots, Asked.slots[i] # Password
      PROVE  /\ Asked.slots[i] \in InSlots(Asked) /\ SlotOf(Asked, Asked.slots[i]) = i
             /\ Asked.slots[i] \in DOMAIN sessions /\ TypedNode(sessions[Asked.slots[i]])
  <2>1. Asked.slots[i] \in InSlots(Asked) /\ SlotOf(Asked, Asked.slots[i]) = i
    BY <1>3, <1>5, OneSlot
  <2>. QED  BY <1>2, <2>1 DEF Typed, UnderWay
<1>. QED  BY <1>1, <1>2, <1>3, <1>4, <1>5

(* A size, with one byte taken off or not. *)
LEMMA SizeTakenOff ==
  ASSUME NEW m \in 0..2, NEW n \in 0..1
  PROVE  (m - n) % (2^16) \in 0..2 \union {2^16 - 1}
OBVIOUS

(* The same session, whatever its nonces and policy. *)
SameSecrets(new, node) ==
  /\ new.sessionType = node.sessionType /\ new.sessionKey = node.sessionKey
  /\ new.bound_entity = node.bound_entity

(* The first slot of ChangeAuth and UndefineSpaceSpecial. *)
LEMMA FirstSlot ==
  ASSUME ProperCommand(Asked), Asked.op \in {"change", "undefine"}
  PROVE  1 \in DOMAIN Asked.slots /\ Authorises(Asked, 1) /\ DOMAIN Asked.objects = {1}
<1>1. DOMAIN Asked.objects = {1}
  BY DEF ProperCommand, IsCommand
<1>. QED  BY <1>1 DEF ProperCommand, Authorises

(* ChangeAuth and UndefineSpaceSpecial replace the value of one session. *)
LEMMA RecomputedTyped ==
  ASSUME SessionsInv, HmacsInv, Succeeded
  PROVE  /\ DOMAIN Recomputed = DOMAIN sessions
         /\ \A s \in DOMAIN sessions : /\ TypedNode(Recomputed[s])
                                       /\ SameParty(Recomputed[s], sessions[s])
<1> DEFINE s1 == Asked.slots[1]
           o1 == Asked.objects[1]
<1>1. /\ Typed /\ CommandUnderWay /\ ProperCommand(Asked)
      /\ \A s \in DOMAIN sessions : TypedNode(sessions[s])
  BY AnsweredFacts DEF Typed
<1>2. \A s \in DOMAIN sessions : SameParty(sessions[s], sessions[s])
  BY DEF SameParty
<1>3. CASE Asked.op = "change" /\ s1 # Password
  <2> DEFINE new == compute_session_value(sessions[s1], o1, Asked.arg)
  <2>1. s1 \in DOMAIN sessions
    BY <1>1, <1>3, FirstSlot, AnsweredFacts
  <2>2. IsKey(Asked.arg)
    BY <1>1, <1>3, ValuesAreKeys DEF ProperCommand
  <2>3. TypedNode(new) /\ SameParty(new, sessions[s1])
    BY <1>1, <2>1, <2>2, ValueComputed
  <2>4. Recomputed = [sessions EXCEPT ![s1] = new]
    BY <1>3 DEF Recomputed
  <2> HIDE DEF new, s1
  <2>. QED  BY <1>1, <1>2, <2>3, <2>4
<1>4. CASE Asked.op = "undefine"
  <2> DEFINE node == sessions[s1]
             size == (node.sizeHmacValue - Len(auth[o1])) % (2^16)
             new  == [node EXCEPT !.sizeHmacValue = size]
  <2>1. /\ s1 # Password /\ s1 \in DOMAIN sessions
    BY <1>1, <1>4, FirstSlot, AnsweredFacts DEF ProperCommand
  <2>2. TypedNode(node)
    BY <1>1, <2>1
  <2>3. node.sizeHmacValue \in 0..2
    <3> DEFINE v == ValueOf(1)
               n == IF AddsValue(node, o1, v) THEN Len(v) ELSE 0
    <3>1. node.sizeHmacValue = Len(node.sessionKey) + n
      BY <1>1, <1>4, <2>1, FirstSlot DEF CommandUnderWay, ValuesComputed
    <3>2. Len(node.sessionKey) \in 0..1
      BY <2>2, KeySize DEF TypedNode
    <3>3. IsKey(v)
      <4>1. Authorises(Asked, 1)
        BY <1>1, <1>4, FirstSlot
      <4>. QED  BY <1>1, <4>1, ValuesAreKeys DEF ValueOf, CommandUnderWay, Authorises
    <3>4. Len(v) \in 0..1
      BY <3>3, KeySize
    <3> HIDE DEF v
    <3>5. n \in 0..1
      BY <3>4
    <3> HIDE DEF n, node
    <3>6. Len(node.sessionKey) + n \in 0..2
      BY <3>2, <3>5, SmallSizes, Zenon
    <3>. QED  BY <3>1, <3>6
  <2>4. Len(auth[o1]) \in 0..1
    <3>1. o1 \in DOMAIN auth
      BY <1>1, <1>4, FirstSlot DEF CommandUnderWay, Range
    <3>. QED  BY <1>1, <3>1, ValuesAreKeys, KeySize DEF Typed
  <2>5. size \in 0..2 \union {2^16 - 1}
    <3> HIDE DEF node
    <3>. QED  BY <2>3, <2>4, SizeTakenOff
  <2>6. Recomputed = [sessions EXCEPT ![s1] = new]
    <3>1. Recomputed = [sessions EXCEPT ![s1].sizeHmacValue = (@ - Len(auth[o1])) % (2^16)]
      BY <1>4 DEF Recomputed
    <3>. QED  BY <2>1, <3>1
  <2> HIDE DEF size
  <2>7. TypedNode(new) /\ SameParty(new, node)
    <3> HIDE DEF node
    <3>1. /\ DOMAIN new = NodeFields /\ SameParty(new, node) /\ new.nonceCaller = node.nonceCaller
          /\ new.sessionValue = node.sessionValue /\ new.sizeSessionValue = node.sizeSessionValue
          /\ new.sizeHmacValue = size
      BY <2>2 DEF TypedNode, NodeFields, SameParty
    <3> HIDE DEF new
    <3>. QED  BY <2>2, <2>5, <3>1 DEF TypedNode, SameParty
  <2> HIDE DEF new
  <2>. QED  BY <1>1, <1>2, <2>1, <2>6, <2>7
<1>5. CASE Asked.op # "undefine" /\ ~(Asked.op = "change" /\ s1 # Password)
  <2>1. Recomputed = sessions
    BY <1>5 DEF Recomputed
  <2>. QED  BY <1>1, <1>2, <2>1
<1>. QED  BY <1>3, <1>4, <1>5

(* The session of a slot after its nonce and attributes have arrived. *)
LEMMA ReceivedTyped ==
  ASSUME SessionsInv, HmacsInv, Succeeded, NEW i \in DOMAIN Asked.slots, Asked.slots[i] # Password
  PROVE  LET node == Recomputed[Asked.slots[i]]
             new  == Received(i)
         IN  /\ SameSecrets(new, node) /\ new.type_policy_session = node.type_policy_session
             /\ new.nonceCaller = node.nonceCaller /\ HmacKey(new) = HmacKey(node)
             /\ EncryptKey(new) = EncryptKey(node)
             /\ ~Unsigned(i) => new.nonceTPM = wire.auths[i].nonce
             /\ node.type_policy_session = "POLICY_PASSWORD" <=> Unsigned(i)
             /\ wire.auths # <<>> => TypedNode(new)
<1> DEFINE s    == Asked.slots[i]
           node == Recomputed[s]
           new  == Received(i)
<1>1. s \in DOMAIN sessions /\ CommandAnswered
  BY AnsweredFacts
<1>2. TypedNode(node) /\ SameParty(node, sessions[s])
  BY <1>1, RecomputedTyped
<1>3. node.type_policy_session = "POLICY_PASSWORD" <=> Unsigned(i)
  BY <1>2 DEF SameParty, Unsigned, InClear
<1>4. CASE Unsigned(i)
  <2>1. new = node
    BY <1>3, <1>4 DEF Received
  <2>. QED  BY <1>2, <1>3, <1>4, <2>1 DEF SameSecrets
<1>5. CASE ~Unsigned(i)
  <2> DEFINE nonce      == wire.auths[i].nonce
             attributes == wire.auths[i].attributes
  <2>1. new = [node EXCEPT !.nonceTPM = nonce, !.sessionAttributes = attributes]
    BY <1>3, <1>5 DEF Received
  <2>2. wire.auths # <<>> => nonce \in 0 .. TpmCycle - 1 /\ attributes \subseteq Attributes
    BY <1>1, <1>5 DEF CommandAnswered, AnswerTyped
  <2>3. nonce = wire.auths[i].nonce
    OBVIOUS
  <2> HIDE DEF nonce, attributes, new, node
  <2>4. /\ DOMAIN new = NodeFields /\ SameSecrets(new, node)
        /\ new.type_policy_session = node.type_policy_session
        /\ new.nonceCaller = node.nonceCaller /\ new.nonceTPM = nonce
        /\ new.sessionAttributes = attributes /\ new.sessionValue = node.sessionValue
        /\ new.sizeSessionValue = node.sizeSessionValue /\ new.sizeHmacValue = node.sizeHmacValue
    BY <1>2, <2>1 DEF TypedNode, NodeFields, SameSecrets
  <2>5. HmacKey(new) = HmacKey(node) /\ EncryptKey(new) = EncryptKey(node)
    BY <2>4 DEF HmacKey, EncryptKey, SameSecrets
  <2>6. wire.auths # <<>> => TypedNode(new)
    BY <1>2, <2>2, <2>4 DEF TypedNode, SameSecrets
  <2>. QED  BY <1>3, <1>5, <2>3, <2>4, <2>5, <2>6 DEF node, new
<1>. QED  BY <1>4, <1>5

(* The sessions after the check, whatever it has found. *)
LEMMA CheckedTyped ==
  ASSUME SessionsInv, HmacsInv, Succeeded
  PROVE  /\ DOMAIN Checked = DOMAIN sessions
         /\ \A s \in DOMAIN sessions : TypedNode(Checked[s]) /\ SameSecrets(Checked[s], sessions[s])
<1>1. /\ DOMAIN Recomputed = DOMAIN sessions
      /\ \A s \in DOMAIN sessions : /\ TypedNode(Recomputed[s])
                                    /\ SameSecrets(Recomputed[s], sessions[s])
  BY RecomputedTyped DEF SameParty, SameSecrets
<1>2. DOMAIN Checked = DOMAIN sessions
  BY <1>1 DEF Checked
<1>3. ASSUME NEW s \in DOMAIN sessions
      PROVE  TypedNode(Checked[s]) /\ SameSecrets(Checked[s], sessions[s])
  <2>1. CASE Checked[s] = Recomputed[s]
    BY <1>1, <2>1
  <2>2. CASE Checked[s] # Recomputed[s]
    <3>1. /\ s \in InSlots(Asked) /\ Len(wire.auths) = Len(Asked.slots)
          /\ Checked[s] = Received(SlotOf(Asked, s))
      BY <1>1, <2>2 DEF Checked
    <3> DEFINE i == SlotOf(Asked, s)
    <3>2. i \in DOMAIN Asked.slots /\ Asked.slots[i] = s
      BY <3>1, SlotOfSession
    <3>3. s # Password
      BY <3>1, EsysSessionsAssumption DEF InSlots
    <3>4. wire.auths # <<>>
      <4>1. 1 .. Len(Asked.slots) # {}
        BY <3>2, AnsweredFacts
      <4>. QED  BY <3>1, <4>1
    <3> HIDE DEF i
    <3>5. TypedNode(Received(i)) /\ SameSecrets(Received(i), Recomputed[s])
      BY <3>2, <3>3, <3>4, ReceivedTyped
    <3>. QED  BY <1>1, <3>1, <3>5 DEF SameSecrets, i
  <2>. QED  BY <2>1, <2>2
<1>. QED  BY <1>2, <1>3

(* A salt after a value hides nothing of the value. *)
LEMMA CancelSalt ==
  ASSUME NEW k, IsKey(k), NEW m, IsKey(m), NEW x, IsKey(x), k \o x = m \o x
  PROVE  k = m
<1>1. CASE x = <<>>
  <2>1. k \o <<>> = k /\ m \o <<>> = m
    BY KeySize
  <2>. QED  BY <1>1, <2>1
<1>2. CASE x = <<x[1]>>
  <2> DEFINE b == x[1]
  <2>1. <<>> \o <<b>> = <<b>>
    OBVIOUS
  <2>2. \A a, c : <<a>> \o <<b>> = <<a, b>> /\ <<a, b>> # <<b>>
                 /\ (<<a, b>> = <<c, b>> => <<a>> = <<c>>)
    BY TwoBytes
  <2>3. k \o <<b>> = m \o <<b>>
    BY <1>2
  <2>4. (k = <<>> \/ k = <<k[1]>>) /\ (m = <<>> \/ m = <<m[1]>>)
    BY DEF IsKey
  <2> HIDE DEF b
  <2>5. k # <<>> => /\ k \o <<b>> = <<k[1], b>>
                    /\ k = <<k[1]>>
    <3>1. <<k[1]>> \o <<b>> = <<k[1], b>>
      BY <2>2
    <3>. QED  BY <2>4, <3>1
  <2>6. m # <<>> => /\ m \o <<b>> = <<m[1], b>>
                    /\ m = <<m[1]>>
    <3>1. <<m[1]>> \o <<b>> = <<m[1], b>>
      BY <2>2
    <3>. QED  BY <2>4, <3>1
  <2>7. /\ <<k[1], b>> # <<b>> /\ <<m[1], b>> # <<b>>
        /\ <<k[1], b>> = <<m[1], b>> => <<k[1]>> = <<m[1]>>
    BY <2>2
  <2>. QED  BY <2>1, <2>3, <2>5, <2>6, <2>7
<1>. QED  BY <1>1, <1>2 DEF IsKey

(* A new session, with a secret or without. *)
LEMMA StartedTyped == ASSUME NEW f PROVE TypedNode(Started(f))
<1> DEFINE key   == IF Keyed(f) THEN KDFa(Secret(f), FirstNonceTPM, FirstNonceCaller) ELSE <<>>
           bound == IF f.bind = None THEN <<>> ELSE <<[name |-> f.bind, auth |-> auth[f.bind]]>>
<1>1. IsKey(key)
  <2>1. \A x : IsKey(KDFa(x, FirstNonceTPM, FirstNonceCaller))
    BY DEF IsKey, KDFa
  <2>. QED  BY <2>1, ValuesAreKeys
<1>2. Started(f) = [sessionType |-> f.type, type_policy_session |-> "NO_POLICY_AUTH",
                    sessionKey |-> key, sessionValue |-> <<NoByte, NoByte>>,
                    sizeSessionValue |-> 0, sizeHmacValue |-> 0, bound_entity |-> bound,
                    sessionAttributes |-> {"continue"}, nonceCaller |-> FirstNonceCaller,
                    nonceTPM |-> FirstNonceTPM]
  BY DEF Started
<1>3. <<NoByte, NoByte>> = <<<<NoByte, NoByte>>[1], <<NoByte, NoByte>>[2]>>
  OBVIOUS
<1>4. FirstNonceTPM \in 0 .. TpmCycle - 1 /\ FirstNonceCaller \in 0 .. CallerCycle - 1
  BY NonceIsOne
<1> HIDE DEF key, bound
<1>. QED  BY <1>1, <1>2, <1>3, <1>4 DEF TypedNode, NodeFields, Attributes, Policies

(* A new session and the one of the TPM: keys of one size, and if they are
   equal, of one value. *)
LEMMA StartedPair ==
  ASSUME NEW f \in Starts, ~(Keyed(f) /\ Secret(f) = <<>>), f.salted => salt = Salt(f),
         f.bind # None => auth[f.bind] \in AuthValue /\ tpmAuth[f.bind] \in AuthValue
  PROVE  Paired(Started(f), TpmStarted(f))
<1> DEFINE value  == IF f.bind = None THEN <<>> ELSE auth[f.bind]
           known  == IF f.bind = None THEN <<>> ELSE tpmAuth[f.bind]
           key    == IF Keyed(f) THEN KDFa(Secret(f), FirstNonceTPM, FirstNonceCaller) ELSE <<>>
           tpmKey == IF f.bind = None /\ ~f.salted THEN <<>>
                     ELSE KDFa(known \o Salt(f), FirstNonceTPM, FirstNonceCaller)
           bound  == IF f.bind = None THEN <<>> ELSE <<[name |-> f.bind, auth |-> auth[f.bind]]>>
           tpmBound == IF f.bind = None THEN <<>>
                       ELSE <<[name |-> f.bind, auth |-> tpmAuth[f.bind]]>>
<1>1. /\ Started(f).sessionType = f.type /\ Started(f).sessionKey = key
      /\ Started(f).bound_entity = bound
      /\ TpmStarted(f).type = f.type /\ TpmStarted(f).policy = "NO_POLICY_AUTH"
      /\ TpmStarted(f).sessionKey = tpmKey /\ TpmStarted(f).bound_entity = tpmBound
  BY DEF Started, TpmStarted
<1>2. Secret(f) = value \o Salt(f)
  <2>1. (IF f.salted THEN salt ELSE <<>>) = Salt(f)
    BY DEF Salt
  <2>. QED  BY <2>1 DEF Secret
<1>3. Keyed(f) <=> ~(f.bind = None /\ ~f.salted)
  <2>1. f.bind = None /\ ~f.salted => ~Keyed(f)
    BY DEF Secret
  <2>2. f.salted => Keyed(f)
    BY DEF Keyed, Salt
  <2>. QED  BY <2>1, <2>2 DEF Keyed
<1>4. IsKey(value) /\ IsKey(known) /\ IsKey(Salt(f))
  BY ValuesAreKeys DEF Salt, IsKey
<1>5. \A x : /\ IsKey(KDFa(x, FirstNonceTPM, FirstNonceCaller))
             /\ Len(KDFa(x, FirstNonceTPM, FirstNonceCaller)) = 1
  BY DEF IsKey, KDFa
<1>6. \A x, y : KDFa(x, FirstNonceTPM, FirstNonceCaller) = KDFa(y, FirstNonceTPM, FirstNonceCaller)
                => x = y
  <2>1. \A x : KDFa(x, FirstNonceTPM, FirstNonceCaller)[1].secret = x
    BY DEF KDFa
  <2>. QED  BY <2>1
<1> HIDE DEF value, known
<1>7. IsKey(key) /\ IsKey(tpmKey) /\ Len(key) = Len(tpmKey)
  BY <1>3, <1>5, ValuesAreKeys
<1>8. ASSUME key = tpmKey
      PROVE  bound = tpmBound
  <2>1. CASE f.bind = None
    BY <2>1
  <2>2. CASE f.bind # None
    <3>1. Keyed(f)
      BY <2>2 DEF Keyed
    <3>2. Secret(f) = known \o Salt(f)
      BY <1>6, <1>8, <2>2, <3>1
    <3>3. value = known
      BY <1>2, <1>4, <3>2, CancelSalt
    <3>. QED  BY <2>2, <3>3 DEF value, known
  <2>. QED  BY <2>1, <2>2
<1> HIDE DEF key, tpmKey, bound, tpmBound
<1>. QED  BY <1>1, <1>7, <1>8 DEF Paired

(* The sessions when a command is complete. *)
LEMMA CompletedTyped ==
  ASSUME SessionsInv, HmacsInv, Succeeded
  PROVE  /\ DOMAIN Completed \subseteq Sessions
         /\ \A s \in DOMAIN Completed \cap DOMAIN sessions :
              TypedNode(Completed[s]) /\ SameSecrets(Completed[s], sessions[s])
         /\ \A s \in DOMAIN Completed \ DOMAIN sessions :
              /\ Asked.op = "start" /\ s = Asked.arg.session
              /\ Completed[s] = Started(Asked.arg)
<1>1. /\ DOMAIN Checked = DOMAIN sessions
      /\ \A s \in DOMAIN sessions : TypedNode(Checked[s]) /\ SameSecrets(Checked[s], sessions[s])
      /\ Typed /\ UnderWay /\ ProperCommand(Asked)
  BY CheckedTyped, AnsweredFacts
<1>2. CASE Asked.op = "start"
  <2>1. Asked.arg.session \in Sessions /\ Asked.arg.session \notin DOMAIN sessions
    BY <1>1, <1>2, EsysSessionsAssumption DEF ProperCommand, UnderWay
  <2>2. Completed = [s \in DOMAIN Checked \union {Asked.arg.session} |->
                       IF s \in DOMAIN Checked THEN Checked[s] ELSE Started(Asked.arg)]
    BY <1>2 DEF Completed
  <2>. QED  BY <1>1, <1>2, <2>1, <2>2 DEF Typed
<1>3. CASE Asked.op = "flush"
  <2>1. Completed = Restrict(Checked, DOMAIN Checked \ {Asked.arg})
    BY <1>3 DEF Completed
  <2>2. DOMAIN Completed \subseteq DOMAIN sessions /\ \A s \in DOMAIN Completed : Completed[s] = Checked[s]
    BY <1>1, <2>1 DEF Restrict
  <2>. QED  BY <1>1, <2>2 DEF Typed
<1>4. CASE Asked.op = "policy" /\ Asked.arg.type # "NO_POLICY_AUTH"
  <2>1. Completed = [Checked EXCEPT ![Asked.arg.session].type_policy_session = Asked.arg.type]
    BY <1>4 DEF Completed
  <2>2. ASSUME NEW s \in DOMAIN sessions
        PROVE  TypedNode(Completed[s]) /\ SameSecrets(Completed[s], sessions[s])
    <3> DEFINE type == Asked.arg.type
               node == Checked[s]
               new  == [node EXCEPT !.type_policy_session = type]
    <3>1. TypedNode(node) /\ SameSecrets(node, sessions[s]) /\ type \in Policies
      BY <1>1, <1>4 DEF ProperCommand
    <3>2. Completed[s] = new \/ Completed[s] = node
      BY <1>1, <2>1
    <3> HIDE DEF type, node
    <3>3. /\ DOMAIN new = NodeFields /\ new.type_policy_session = type
          /\ SameSecrets(new, node) /\ new.nonceCaller = node.nonceCaller
          /\ new.nonceTPM = node.nonceTPM /\ new.sessionAttributes = node.sessionAttributes
          /\ new.sessionValue = node.sessionValue /\ new.sizeSessionValue = node.sizeSessionValue
          /\ new.sizeHmacValue = node.sizeHmacValue
      BY <3>1 DEF TypedNode, NodeFields, SameSecrets
    <3> HIDE DEF new
    <3>4. TypedNode(new) /\ SameSecrets(new, sessions[s])
      BY <3>1, <3>3 DEF TypedNode, SameSecrets
    <3>. QED  BY <3>1, <3>2, <3>4
  <2>3. DOMAIN Completed = DOMAIN sessions
    BY <1>1, <2>1
  <2>. QED  BY <1>1, <2>2, <2>3 DEF Typed
<1>5. CASE /\ Asked.op \notin {"start", "flush"}
           /\ ~(Asked.op = "policy" /\ Asked.arg.type # "NO_POLICY_AUTH")
  <2>1. Completed = Checked
    BY <1>5 DEF Completed
  <2>. QED  BY <1>1, <2>1 DEF Typed
<1>. QED  BY <1>2, <1>3, <1>4, <1>5

(* The authorisation values of the library after a command. *)
LEMMA ChangedAuthTyped ==
  ASSUME SessionsInv, HmacsInv, Succeeded
  PROVE  /\ DOMAIN ChangedAuth = DOMAIN tpmAuth /\ DOMAIN ChangedAuth \subseteq Objects
         /\ \A o \in DOMAIN ChangedAuth : ChangedAuth[o] \in AuthValue
<1>1. Typed /\ SameObjects /\ ProperCommand(Asked)
  BY AnsweredFacts
<1>2. CASE Asked.op = "change"
  BY <1>1, <1>2 DEF ChangedAuth, ProperCommand, Typed, SameObjects
<1>3. CASE Asked.op = "undefine"
  BY <1>1, <1>3 DEF ChangedAuth, Restrict, Typed, SameObjects
<1>4. CASE Asked.op \notin {"change", "undefine"}
  BY <1>1, <1>4 DEF ChangedAuth, Typed, SameObjects
<1>. QED  BY <1>2, <1>3, <1>4

(* The new session of a command. *)
LEMMA NewSession ==
  ASSUME SessionsInv, HmacsInv, Succeeded, Asked.op = "start", ~Keyless
  PROVE  Paired(Started(Asked.arg), tpm[Asked.arg.session])
<1>1. /\ Typed /\ SameObjects /\ UnderWay /\ Done /\ CommandUnderWay /\ ProperCommand(Asked)
  BY AnsweredFacts
<1>2. DOMAIN tpmAuth = DOMAIN auth /\ Asked.arg.bind \in DOMAIN auth \union {None}
  BY <1>1 DEF SameObjects, CommandUnderWay
<1>3. Asked.arg.bind # None => /\ auth[Asked.arg.bind] \in AuthValue
                               /\ tpmAuth[Asked.arg.bind] \in AuthValue
  BY <1>1, <1>2 DEF Typed
<1>4. /\ Asked.arg \in Starts /\ ~(Keyed(Asked.arg) /\ Secret(Asked.arg) = <<>>)
      /\ Asked.arg.salted => salt = Salt(Asked.arg)
  BY <1>1 DEF ProperCommand, Keyless, UnderWay
<1>5. tpm[Asked.arg.session] = TpmStarted(Asked.arg)
  BY <1>1 DEF Done
<1>. QED  BY <1>3, <1>4, <1>5, StartedPair

(* A response that verifies, to its end or to GENERAL_FAILURE. *)
LEMMA FinishVerifiedHmacs ==
  ASSUME SessionsInv, HmacsInv, FinishVerified
  PROVE  HmacsInv'
<1>1. /\ Succeeded /\ sessions' = Completed /\ auth' = ChangedAuth /\ wire' = Quiet
      /\ state' = IF Keyless THEN "INTERNALERROR" ELSE "INIT"
      /\ salt' = salt /\ tpm' = tpm /\ tpmAuth' = tpmAuth
  BY DEF FinishVerified, Succeeded, Answer
<1>2. wire'.phase = "idle"
  BY <1>1 DEF Quiet
<1>3. ~Sent' /\ ~Succeeded'
  BY <1>2 DEF Sent, Succeeded, Answer
<1>4. Typed /\ Pairs
  BY <1>1, AnsweredFacts
<1>5. /\ DOMAIN sessions' \subseteq Sessions
      /\ \A s \in DOMAIN sessions' : TypedNode(sessions'[s])
  BY <1>1, CompletedTyped, StartedTyped
<1>6. /\ DOMAIN auth' = DOMAIN tpmAuth /\ DOMAIN auth' \subseteq Objects
      /\ \A o \in DOMAIN auth' : auth'[o] \in AuthValue
  BY <1>1, ChangedAuthTyped
<1>7. Typed'
  BY <1>1, <1>4, <1>5, <1>6 DEF Typed
<1>8. CASE Keyless
  BY <1>1, <1>7, <1>8 DEF HmacsInv
<1>9. CASE ~Keyless
  <2>1. Pairs'
    <3> SUFFICES ASSUME NEW s \in DOMAIN sessions' \cap DOMAIN tpm
                 PROVE  Paired(sessions'[s], tpm[s])
      BY <1>1 DEF Pairs
    <3>1. CASE s \in DOMAIN sessions
      BY <1>1, <1>4, <3>1, CompletedTyped DEF Pairs, Paired, SameSecrets
    <3>2. CASE s \notin DOMAIN sessions
      BY <1>1, <1>9, <3>2, CompletedTyped, NewSession
    <3>. QED  BY <3>1, <3>2
  <2>2. SameObjects'
    BY <1>1, <1>3, <1>6 DEF SameObjects
  <2>. QED  BY <1>1, <1>3, <1>7, <1>9, <2>1, <2>2 DEF HmacsInv
<1>. QED  BY <1>8, <1>9

(* One that does not. *)
LEMMA FinishUnverifiedHmacs ==
  ASSUME SessionsInv, HmacsInv, FinishUnverified
  PROVE  HmacsInv'
<1>1. /\ Succeeded /\ sessions' = Checked /\ auth' = ChangedAuth
      /\ state' = "INTERNALERROR" /\ wire' = Quiet
      /\ salt' = salt /\ tpm' = tpm /\ tpmAuth' = tpmAuth
  BY DEF FinishUnverified, Succeeded, Answer
<1>2. wire'.phase = "idle"
  BY <1>1 DEF Quiet
<1>3. ~Sent' /\ ~Succeeded'
  BY <1>2 DEF Sent, Succeeded, Answer
<1>4. Typed
  BY <1>1, AnsweredFacts
<1>5. Typed'
  BY <1>1, <1>4, CheckedTyped, ChangedAuthTyped DEF Typed
<1>. QED  BY <1>1, <1>3, <1>5 DEF HmacsInv
-----------------------------------------------------------------------------
(* The theorems.                                                            *)

(* HmacsInv is inductive, together with SessionsInv. *)
LEMMA HmacsInit == Init => HmacsInv
<1> SUFFICES ASSUME Init PROVE HmacsInv
  OBVIOUS
<1>1. /\ state = "INIT" /\ wire = Quiet /\ sessions = <<>> /\ tpm = <<>> /\ salt = <<>>
      /\ auth = [o \in Objects |-> <<>>] /\ tpmAuth = auth
  BY DEF Init
<1>2. wire.phase = "idle" /\ DOMAIN sessions = {} /\ DOMAIN tpm = {}
  BY <1>1 DEF Quiet
<1>3. DOMAIN auth = Objects /\ \A o \in Objects : auth[o] \in AuthValue
  BY <1>1 DEF AuthValue
<1>4. ~Sent /\ ~Succeeded
  BY <1>2 DEF Sent, Succeeded, Answer
<1>5. Typed /\ Pairs /\ SameObjects
  BY <1>1, <1>2, <1>3, <1>4 DEF Typed, Pairs, SameObjects
<1>. QED  BY <1>1, <1>4, <1>5 DEF HmacsInv

(* One case per action. *)
LEMMA HmacsStep == SessionsInv /\ HmacsInv /\ [Next]_vars => HmacsInv'
<1> SUFFICES ASSUME SessionsInv, HmacsInv, [Next]_vars PROVE HmacsInv'
  OBVIOUS
<1>1. CASE UNCHANGED vars
  <2>1. /\ \A s \in DOMAIN sessions : SameKeys(sessions[s], sessions[s]) /\ TypedNode(sessions[s])
        /\ \A o \in DOMAIN auth : auth[o] \in AuthValue
    BY DEF SameKeys, HmacsInv, Typed
  <2>. QED  BY <1>1, <2>1, StableHmacs DEF vars
<1>2. ASSUME NEW u \in Usages, Use(u) \/ UndefineSpecial(u)
      PROVE  HmacsInv'
  BY <1>2, CommandsHmacs
<1>3. ASSUME NEW u \in Usages, NEW new \in AuthValue, ChangeAuth(u, new)
      PROVE  HmacsInv'
  BY <1>3, CommandsHmacs
<1>4. ASSUME NEW u \in Usages, NEW f \in Starts, StartAuthSession(u, f)
      PROVE  HmacsInv'
  BY <1>4, CommandsHmacs
<1>5. ASSUME NEW s \in Sessions, NEW type \in Policies, Policy(s, type)
      PROVE  HmacsInv'
  BY <1>5, CommandsHmacs
<1>6. ASSUME NEW s \in Sessions, FlushContext(s)
      PROVE  HmacsInv'
  BY <1>6, CommandsHmacs
<1>7. ASSUME NEW s \in Sessions, NEW attributes \in AttributeSets[s], SetAttributes(s, attributes)
      PROVE  HmacsInv'
  BY <1>7, SetAttributesHmacs
<1>8. ASSUME NEW s \in Sessions, Close(s)
      PROVE  HmacsInv'
  BY <1>8, CloseHmacs
<1>9. ASSUME NEW o \in Objects, NEW value \in AuthValue, SetAuth(o, value)
      PROVE  HmacsInv'
  BY <1>9, SetAuthHmacs
<1>10. CASE TpmExecutes
  BY <1>10, TpmExecutesHmacs
<1>11. CASE TpmRefuses
  BY <1>11, TpmRefusesHmacs
<1>12. CASE Corrupt
  BY <1>12, CorruptHmacs
<1>13. CASE FinishRetry
  BY <1>13, FinishRetryHmacs
<1>14. CASE FinishError
  BY <1>14, FinishErrorHmacs
<1>15. CASE FinishVerified
  BY <1>15, FinishVerifiedHmacs
<1>16. CASE FinishUnverified
  BY <1>16, FinishUnverifiedHmacs
<1>. QED  BY <1>1, <1>2, <1>3, <1>4, <1>5, <1>6, <1>7, <1>8, <1>9, <1>10, <1>11, <1>12,
             <1>13, <1>14, <1>15, <1>16 DEF Next, Policies

(* Keys and values on both sides, from SessionsInv. *)
LEMMA HmacsInvariant == Spec => []HmacsInv
<1>. QED  BY HmacsInit, HmacsStep, SessionsInvariant, PTL DEF Spec

(* The state is typed: every variable, the fields of every node, the sizes of
   the keys within its sessionValue. *)
THEOREM TypeCorrect == Spec => []TypeOK
<1>1. SessionsInv /\ HmacsInv => TypeOK
  <2> SUFFICES ASSUME SessionsInv, HmacsInv PROVE TypeOK
    OBVIOUS
  <2>1. Phases /\ Typed
    BY DEF SessionsInv, HmacsInv
  <2>2. ASSUME NEW s \in DOMAIN sessions
        PROVE  LET node == sessions[s]
               IN  /\ node.nonceTPM \in Nonces /\ node.nonceCaller \in Nonces
                   /\ node.sessionAttributes \subseteq Attributes
                   /\ Len(node.sessionKey) <= 1 /\ Len(node.sessionValue) = 2
                   /\ node.sizeSessionValue \in 0..2
                   /\ node.sizeHmacValue \in 0..2 \union {2^16 - 1}
                   /\ node.type_policy_session \in
                        {"NO_POLICY_AUTH", "POLICY_AUTH", "POLICY_PASSWORD"}
    <3>1. TypedNode(sessions[s])
      BY <2>1 DEF Typed
    <3>2. 0 .. TpmCycle - 1 \subseteq Nonces /\ 0 .. CallerCycle - 1 \subseteq Nonces
      <4>1. TpmCycle \in Nat /\ CallerCycle \in Nat
        BY EsysSessionsAssumption
      <4>2. \A m, n \in Nat : 0 .. m - 1 \subseteq 0 .. (m + n) - 1
                              /\ 0 .. n - 1 \subseteq 0 .. (m + n) - 1
        OBVIOUS
      <4>. QED  BY <4>1, <4>2 DEF Nonces
    <3>3. Len(sessions[s].sessionKey) <= 1
      <4>1. Len(sessions[s].sessionKey) \in 0..1
        BY <3>1, KeySize DEF TypedNode
      <4>2. \A n \in 0..1 : n <= 1
        OBVIOUS
      <4>. QED  BY <4>1, <4>2, Zenon
    <3>4. Len(sessions[s].sessionValue) = 2
      <4>1. \A x, y : Len(<<x, y>>) = 2
        OBVIOUS
      <4>. QED  BY <3>1, <4>1 DEF TypedNode
    <3>. QED  BY <3>1, <3>2, <3>3, <3>4 DEF TypedNode, Policies
  <2>. QED  BY <2>1, <2>2 DEF TypeOK, Phases, Typed
<1>. QED  BY <1>1, SessionsInvariant, HmacsInvariant, PTL
-----------------------------------------------------------------------------
(* Commands.                                                                *)

(* What both sides know of the authorisations of a command. *)
Known == \A i \in DOMAIN Asked.slots : AuthKnown(i) /\ SessionShared(i) /\ ~Leftover(i)

(* Then everything the command names is in the TPM. *)
LEMMA KnownIsPresent ==
  ASSUME SessionsInv, HmacsInv, Sent, Known
  PROVE  Present
<1>1. ProperCommand(Asked)
  BY SentFacts
<1>2. InSlots(Asked) \subseteq DOMAIN tpm
  <2> SUFFICES ASSUME NEW s \in InSlots(Asked) PROVE s \in DOMAIN tpm
    OBVIOUS
  <2>1. PICK i \in DOMAIN Asked.slots : Asked.slots[i] = s
    BY SlotOfSession
  <2>2. s # Password
    BY EsysSessionsAssumption DEF InSlots
  <2>. QED  BY <2>1, <2>2 DEF Known, SessionShared
<1>3. Range(Asked.objects) \subseteq DOMAIN tpmAuth
  BY <1>1 DEF ProperCommand, Known, AuthKnown, Authorises, Range
<1>. QED  BY <1>2, <1>3 DEF Present

(* The key of the HMAC of a slot is the one of the TPM. *)
LEMMA KeyKnown ==
  ASSUME SessionsInv, HmacsInv, Sent, Known, wire.policies,
         NEW i \in DOMAIN Asked.slots, ~Unsigned(i)
  PROVE  HmacKey(sessions[Asked.slots[i]]) = TpmHmacKey(i, tpmAuth)
<1> DEFINE node    == sessions[Asked.slots[i]]
           session == SlotSession(i)
           v       == ValueOf(i)
<1>1. /\ Present /\ CommandSent /\ CommandUnderWay /\ Asked.slots[i] # Password
  BY KnownIsPresent, SentFacts DEF Unsigned, InClear
<1>2. /\ TypedNode(node) /\ Paired(node, session)
      /\ Asked.slots[i] \in InSlots(Asked) \cap DOMAIN tpm
  BY <1>1, SentFacts
<1>3. /\ node.sessionKey = session.sessionKey
      /\ (node.sessionType = "POLICY" /\ session.policy = "NO_POLICY_AUTH" /\ Authorises(Asked, i))
           => wire.believed[i] = <<>>
      /\ ~Authorises(Asked, i) => node.sizeHmacValue = Len(node.sessionKey)
      /\ Authorises(Asked, i) => /\ Asked.objects[i] \in DOMAIN tpmAuth
                                 /\ wire.believed[i] = tpmAuth[Asked.objects[i]]
  BY <1>1 DEF Known, SessionShared, Leftover, AuthKnown
<1>4. node.type_policy_session = session.policy
  BY <1>1, <1>2 DEF CommandSent, SlotSession
<1>5. IsKey(v)
  BY <1>1, ValuesAreKeys DEF ValueOf, CommandUnderWay, Authorises
<1>6. /\ Computed(node, v)
      /\ Authorises(Asked, i) =>
           node.sizeHmacValue = Len(node.sessionKey)
                                + (IF AddsValue(node, Asked.objects[i], v) THEN Len(v) ELSE 0)
  BY <1>1 DEF CommandUnderWay, ValuesComputed
<1>7. /\ node.sizeHmacValue = Len(node.sessionKey) + Len(v) => HmacKey(node) = node.sessionKey \o v
      /\ node.sizeHmacValue = Len(node.sessionKey) => HmacKey(node) = node.sessionKey
  BY <1>2, <1>5, <1>6, HmacKeyComputed
<1>8. /\ node.sessionKey \o <<>> = node.sessionKey /\ Len(node.sessionKey) \in Nat
      /\ Len(node.sessionKey) + 0 = Len(node.sessionKey)
  BY <1>2, KeySize DEF TypedNode
<1>9. CASE ~Authorises(Asked, i)
  BY <1>3, <1>7, <1>8, <1>9 DEF TpmHmacKey, AddsAuth
<1>10. CASE Authorises(Asked, i)
  <2> DEFINE o == Asked.objects[i]
  <2>1. o \in DOMAIN tpmAuth /\ v = tpmAuth[o]
    BY <1>3, <1>10 DEF ValueOf
  <2>2. AddsAuth(i, tpmAuth) <=>
          IF session.type = "POLICY" THEN session.policy = "POLICY_AUTH"
          ELSE ~IsBound(session.bound_entity, o, v)
    BY <1>10, <2>1 DEF AddsAuth
  <2>3. node.bound_entity = session.bound_entity
    BY <1>2, <1>3 DEF Paired
  <2>4. node.type_policy_session \in {"NO_POLICY_AUTH", "POLICY_AUTH"}
    BY <1>1, <1>2 DEF TypedNode, Policies, Unsigned, InClear
  <2>5. (AddsAuth(i, tpmAuth) <=> AddsValue(node, o, v)) \/ v = <<>>
    BY <1>2, <1>3, <1>4, <1>10, <2>1, <2>2, <2>3, <2>4 DEF AddsValue, Paired
  <2>6. HmacKey(node) = node.sessionKey \o (IF AddsValue(node, o, v) THEN v ELSE <<>>)
    <3>1. CASE AddsValue(node, o, v)
      BY <1>6, <1>7, <1>10, <3>1
    <3>2. CASE ~AddsValue(node, o, v)
      BY <1>6, <1>7, <1>8, <1>10, <3>2
    <3>. QED  BY <3>1, <3>2
  <2>7. TpmHmacKey(i, tpmAuth) = session.sessionKey \o (IF AddsAuth(i, tpmAuth) THEN v ELSE <<>>)
    BY <2>1 DEF TpmHmacKey
  <2> HIDE DEF node, session, v, o
  <2>8. CASE v = <<>>
    BY <1>3, <2>6, <2>7, <2>8 DEF node, session
  <2>9. CASE AddsAuth(i, tpmAuth) <=> AddsValue(node, o, v)
    BY <1>3, <2>6, <2>7, <2>9 DEF node, session
  <2>. QED  BY <2>5, <2>8, <2>9 DEF node
<1>. QED  BY <1>9, <1>10

(* When no session is counted that the TPM does not see, both count the same. *)
LEMMA SlotsCounted ==
  ASSUME SessionsInv, HmacsInv, Sent, ~CountedInClear, ~Unsigned(1) \/ 1 \notin DOMAIN Asked.slots
  PROVE  SlotsWith("encrypt") = wire.encrypting /\ SlotsWith("decrypt") = wire.decrypting
<1>1. CommandSent
  BY SentFacts
<1>2. ASSUME NEW i \in DOMAIN Asked.slots
      PROVE  /\ "encrypt" \in wire.auths[i].attributes <=> i \in wire.encrypting
             /\ "decrypt" \in wire.auths[i].attributes <=> i \in wire.decrypting
  <2>1. CASE Unsigned(i)
    <3>1. i # 1
      BY <1>2, <2>1
    <3>2. i \notin wire.encrypting /\ i \notin wire.decrypting
      BY <2>1, <3>1 DEF CountedInClear, Unsigned
    <3>. QED  BY <1>1, <2>1, <3>2 DEF CommandSent, SlotSent
  <2>2. CASE ~Unsigned(i)
    BY <1>1, <2>2 DEF CommandSent, SlotSent
  <2>. QED  BY <2>1, <2>2
<1>. QED  BY <1>1, <1>2 DEF SlotsWith, CommandSent, SlotsOfSessions

(* Then the HMAC of the first session covers the nonces the TPM expects. *)
LEMMA NoncesKnown ==
  ASSUME SessionsInv, HmacsInv, Sent, Present, ~CountedTwice, ~CountedInClear,
         NEW i \in DOMAIN Asked.slots, ~Unsigned(i)
  PROVE  /\ NonceFor(i, wire.decrypting) = TpmOtherNonce(i, SlotsWith("decrypt"))
         /\ NonceFor(i, wire.encrypting) =
              TpmOtherNonce(i, SlotsWith("encrypt") \ SlotsWith("decrypt"))
<1>1. CommandSent /\ SameNonces /\ UnderWay
  BY SentFacts
<1>2. CASE i # 1
  BY <1>2 DEF NonceFor, TpmOtherNonce
<1>3. CASE i = 1
  <2>1. SlotsWith("encrypt") = wire.encrypting /\ SlotsWith("decrypt") = wire.decrypting
    BY <1>3, SlotsCounted
  <2>2. ASSUME NEW slots, SlotsOfSessions(slots), slots # {}
        PROVE  LET j == CHOOSE j \in slots : TRUE
               IN  sessions[Asked.slots[j]].nonceTPM = SlotSession(j).nonceTPM
    <3> DEFINE j == CHOOSE j \in slots : TRUE
    <3>1. j \in DOMAIN Asked.slots /\ Asked.slots[j] # Password
      BY <2>2 DEF SlotsOfSessions
    <3> HIDE DEF j
    <3>2. Asked.slots[j] \in DOMAIN sessions \cap DOMAIN tpm
      BY <3>1, SentFacts
    <3>. QED  BY <1>1, <3>2 DEF SameNonces, SlotSession, j
  <2>3. NonceFor(i, wire.decrypting) = TpmOtherNonce(i, SlotsWith("decrypt"))
    <3>1. CASE wire.decrypting \ {1} = {}
      BY <2>1, <3>1 DEF NonceFor, TpmOtherNonce
    <3>2. CASE wire.decrypting \ {1} # {}
      <4> DEFINE D == wire.decrypting
                 j == CHOOSE j \in D : TRUE
      <4>1. sessions[Asked.slots[j]].nonceTPM = SlotSession(j).nonceTPM
        BY <1>1, <2>2, <3>2 DEF CommandSent
      <4>2. NonceFor(i, D) = sessions[Asked.slots[j]].nonceTPM
        BY <1>3, <3>2 DEF NonceFor
      <4>3. TpmOtherNonce(i, D) = SlotSession(j).nonceTPM
        BY <1>3, <3>2 DEF TpmOtherNonce
      <4>. QED  BY <2>1, <4>1, <4>2, <4>3
    <3>. QED  BY <3>1, <3>2
  <2>4. NonceFor(i, wire.encrypting) =
          TpmOtherNonce(i, SlotsWith("encrypt") \ SlotsWith("decrypt"))
    <3>1. CASE wire.encrypting \ {1} = {}
      <4>1. (SlotsWith("encrypt") \ SlotsWith("decrypt")) \ {1} = {}
        BY <2>1, <3>1
      <4>. QED  BY <3>1, <4>1 DEF NonceFor, TpmOtherNonce
    <3>2. CASE wire.encrypting \ {1} # {}
      <4>1. \A j, k \in wire.encrypting : j = k
        BY <1>1 DEF CommandSent
      <4>2. wire.encrypting \ wire.decrypting = wire.encrypting
        BY <2>1, <3>2, <4>1 DEF CountedTwice
      <4>. QED  BY <1>1, <1>3, <2>1, <2>2, <3>2, <4>2 DEF NonceFor, TpmOtherNonce, CommandSent
    <3>. QED  BY <3>1, <3>2
  <2>. QED  BY <2>3, <2>4
<1>. QED  BY <1>2, <1>3

(* The TPM accepts every command whose values, keys and policies it shares with
   the library, whatever has been done with the sessions before: neither nonces
   nor the sizes of the keys within sessionValue are left behind. *)
THEOREM AuthorizationsAreAccepted == Spec => []AuthorizationsAccepted
<1>1. SessionsInv /\ HmacsInv => AuthorizationsAccepted
  <2> SUFFICES ASSUME SessionsInv, HmacsInv, Sent, wire.policies, ~CountedTwice, ~CountedInClear,
                      Known
               PROVE  Accepts
    BY DEF AuthorizationsAccepted, Known
  <2>1. Present /\ CommandSent /\ SameNonces
    BY KnownIsPresent, SentFacts
  <2>2. ASSUME NEW i \in DOMAIN Asked.slots
        PROVE  wire.auths[i].hmac = Expected(i)
    <3> DEFINE node    == sessions[Asked.slots[i]]
               session == SlotSession(i)
    <3>1. ASSUME Asked.slots[i] # Password
          PROVE  /\ node.type_policy_session = session.policy
                 /\ node.nonceTPM = session.nonceTPM
                 /\ ~Authorises(Asked, i) => session.policy = "NO_POLICY_AUTH"
      <4>1. /\ Asked.slots[i] \in InSlots(Asked) \cap DOMAIN tpm
            /\ Asked.slots[i] \in DOMAIN sessions \cap DOMAIN tpm
        BY <2>1, <3>1, SentFacts
      <4>. QED  BY <2>1, <3>1, <4>1 DEF CommandSent, SameNonces, SlotSession, Known, SessionShared
    <3>2. CASE Unsigned(i)
      <4>1. wire.auths[i].hmac = Clear(ValueOf(i))
        BY <2>1, <3>2 DEF CommandSent, SlotSent
      <4>2. AsksPassword(i)
        BY <3>1, <3>2 DEF Unsigned, InClear, AsksPassword
      <4>3. ValueOf(i) = IF Authorises(Asked, i) THEN tpmAuth[Asked.objects[i]] ELSE <<>>
        BY DEF ValueOf, Known, AuthKnown
      <4>. QED  BY <4>1, <4>2, <4>3 DEF Expected
    <3>3. CASE ~Unsigned(i)
      <4>1. ~AsksPassword(i) /\ Asked.slots[i] # Password
        BY <3>1, <3>3 DEF Unsigned, InClear, AsksPassword
      <4>2. /\ wire.auths[i].nonce = node.nonceCaller
            /\ wire.auths[i].hmac =
                 Hmac(HmacKey(node), wire.param, node.nonceCaller, node.nonceTPM,
                      NonceFor(i, wire.decrypting), NonceFor(i, wire.encrypting),
                      wire.auths[i].attributes)
        BY <2>1, <3>3 DEF CommandSent, SlotSent
      <4>3. HmacKey(node) = TpmHmacKey(i, tpmAuth)
        BY <3>3, KeyKnown
      <4>4. /\ NonceFor(i, wire.decrypting) = TpmOtherNonce(i, SlotsWith("decrypt"))
            /\ NonceFor(i, wire.encrypting) =
                 TpmOtherNonce(i, SlotsWith("encrypt") \ SlotsWith("decrypt"))
        BY <2>1, <3>3, NoncesKnown
      <4>. QED  BY <3>1, <4>1, <4>2, <4>3, <4>4 DEF Expected
    <3>. QED  BY <3>2, <3>3
  <2>. QED  BY <2>1, <2>2 DEF Accepts
<1>. QED  BY <1>1, SessionsInvariant, HmacsInvariant, PTL
-----------------------------------------------------------------------------
(* Responses.                                                               *)

(* The key with which a slot of a response is verified. *)
LEMMA RecomputedKey ==
  ASSUME SessionsInv, HmacsInv, Succeeded, wire.intact, ~Miscounted,
         NEW i \in DOMAIN Asked.slots, ~Unsigned(i)
  PROVE  LET s == Asked.slots[i]
         IN  /\ wire.auths[i].hmac.key = HmacKey(Recomputed[s])
             /\ Recomputed[s].nonceCaller = sessions[s].nonceCaller
<1> DEFINE s    == Asked.slots[i]
           node == sessions[s]
           o    == Asked.objects[1]
<1>1. /\ CommandUnderWay /\ ProperCommand(Asked) /\ Typed /\ s # Password
      /\ s \in DOMAIN sessions /\ TypedNode(node)
  BY AnsweredFacts DEF Unsigned, InClear
<1>2. KeyAnswered(i, wire.auths[i].hmac.key)
  BY AnsweredFacts DEF CommandAnswered, SlotAnswered
<1>3. CASE ~Replaced(i)
  <2>1. Asked.op \in {"change", "undefine"} => s # Asked.slots[1]
    BY <1>1, <1>3, FirstSlot DEF Replaced, ProperCommand
  <2>2. Recomputed[s] = sessions[s]
    <3>1. CASE Asked.op = "change"
      BY <1>1, <2>1, <3>1 DEF Recomputed
    <3>2. CASE Asked.op = "undefine"
      BY <1>1, <2>1, <3>2 DEF Recomputed
    <3>3. CASE Asked.op \notin {"change", "undefine"}
      BY <3>3 DEF Recomputed
    <3>. QED  BY <3>1, <3>2, <3>3
  <2>. QED  BY <1>2, <1>3, <2>2 DEF KeyAnswered
<1>4. CASE i = 1 /\ Asked.op = "change"
  <2>1. Recomputed[s] = compute_session_value(node, o, Asked.arg)
    BY <1>1, <1>4 DEF Recomputed
  <2>2. \/ Asked.arg = <<>>
        \/ /\ wire.policies
           /\ node.sessionType = "POLICY" => node.type_policy_session # "NO_POLICY_AUTH"
    BY <1>1, <1>4 DEF Miscounted
  <2>3. wire.auths[i].hmac.key = HmacKey(Recomputed[s])
    BY <1>2, <1>4, <2>1, <2>2 DEF KeyAnswered
  <2>4. compute_session_value(node, o, Asked.arg).nonceCaller = node.nonceCaller
    <3> HIDE DEF node, o
    <3>1. \A x, y, z : [node EXCEPT !.sessionValue = x, !.sizeSessionValue = y,
                                    !.sizeHmacValue = z].nonceCaller = node.nonceCaller
      BY <1>1 DEF TypedNode, NodeFields
    <3>. QED  BY <3>1 DEF compute_session_value
  <2>. QED  BY <2>1, <2>3, <2>4
<1>5. CASE i = 1 /\ Asked.op = "undefine"
  <2> DEFINE v    == ValueOf(1)
             size == (node.sizeHmacValue - Len(auth[o])) % (2^16)
             new  == [node EXCEPT !.sizeHmacValue = size]
  <2>1. Recomputed[s] = new
    <3>1. Recomputed = [sessions EXCEPT ![s].sizeHmacValue = (@ - Len(auth[o])) % (2^16)]
      BY <1>5 DEF Recomputed
    <3>. QED  BY <1>1, <3>1
  <2>2. Authorises(Asked, 1) /\ v = wire.believed[1]
    BY <1>1, <1>5, FirstSlot DEF ValueOf
  <2>3. auth[o] = v /\ AddsValue(node, o, v)
    BY <1>5, <2>2 DEF Miscounted, AddsValue
  <2>4. Computed(node, v) /\ node.sizeHmacValue = Len(node.sessionKey) + Len(v)
    BY <1>1, <1>5, <2>2, <2>3 DEF CommandUnderWay, ValuesComputed
  <2>5. Len(v) \in 0..1 /\ Len(node.sessionKey) \in 0..1
    <3>1. IsKey(v)
      BY <1>1, <2>2, ValuesAreKeys DEF CommandUnderWay, Authorises
    <3>. QED  BY <1>1, <3>1, KeySize DEF TypedNode
  <2>6. size = Len(node.sessionKey) /\ Len(node.sessionKey) \in 0..2
    <3>1. \A m, n \in 0..1 : ((m + n) - n) % (2^16) = m /\ m \in 0..2
      OBVIOUS
    <3>2. size = ((Len(node.sessionKey) + Len(v)) - Len(v)) % (2^16)
      BY <2>3, <2>4
    <3> HIDE DEF v, size, node
    <3>. QED  BY <2>5, <3>1, <3>2
  <2>7. SubSeq(node.sessionValue, 1, Len(node.sessionKey)) = node.sessionKey
    BY <2>4 DEF Computed, Begins
  <2>8. wire.auths[i].hmac.key = node.sessionKey
    BY <1>2, <1>5 DEF KeyAnswered
  <2> HIDE DEF size, node
  <2>9. /\ new.sizeHmacValue = size /\ new.sessionValue = node.sessionValue
        /\ new.nonceCaller = node.nonceCaller
    BY <1>1 DEF TypedNode, NodeFields
  <2> HIDE DEF new
  <2>10. HmacKey(new) = node.sessionKey
    BY <2>6, <2>7, <2>9 DEF HmacKey
  <2>. QED  BY <2>1, <2>8, <2>9, <2>10 DEF node
<1>. QED  BY <1>3, <1>4, <1>5 DEF Replaced

(* Whatever arrives as the TPM sent it verifies. *)
LEMMA ResponseVerifies ==
  ASSUME SessionsInv, HmacsInv, Succeeded, wire.intact, ~Miscounted
  PROVE  check_response
<1>1. /\ CommandAnswered /\ Done /\ DOMAIN Asked.slots = 1 .. Len(Asked.slots)
      /\ Len(wire.auths) = Len(Asked.slots) /\ DOMAIN wire.auths = DOMAIN Asked.slots
  BY AnsweredFacts DEF CommandAnswered, Done, SlotsAnswered
<1>2. ASSUME NEW i \in DOMAIN Asked.slots, Asked.slots[i] # Password
      PROVE  Verified(i)
  <2> DEFINE s    == Asked.slots[i]
             node == Received(i)
  <2>1. /\ node.type_policy_session = "POLICY_PASSWORD" <=> Unsigned(i)
        /\ HmacKey(node) = HmacKey(Recomputed[s])
        /\ node.nonceCaller = Recomputed[s].nonceCaller
        /\ ~Unsigned(i) => node.nonceTPM = wire.auths[i].nonce
    BY <1>2, AnsweredFacts, ReceivedTyped
  <2>2. SlotAnswered(i)
    BY <1>1 DEF CommandAnswered
  <2> HIDE DEF node
  <2>3. CASE Unsigned(i)
    BY <2>1, <2>2, <2>3 DEF SlotAnswered, Verified, node
  <2>4. CASE ~Unsigned(i)
    <3>1. /\ wire.auths[i].hmac.key = HmacKey(Recomputed[s])
          /\ Recomputed[s].nonceCaller = sessions[s].nonceCaller
      BY <2>4, RecomputedKey
    <3>2. wire.auths[i].hmac = Hmac(HmacKey(node), wire.result, node.nonceTPM, node.nonceCaller,
                                    NoNonce, NoNonce, wire.auths[i].attributes)
      BY <2>1, <2>2, <2>4, <3>1 DEF SlotAnswered
    <3>. QED  BY <2>1, <2>4, <3>2 DEF Verified, node
  <2>. QED  BY <2>3, <2>4
<1>. QED  BY <1>1, <1>2 DEF check_response

(* A response that arrives as the TPM sent it verifies, also after ChangeAuth
   has replaced the value in its key or UndefineSpaceSpecial has taken it out. *)
THEOREM VerifiedResponses == Spec => []ResponsesVerify
<1>1. SessionsInv /\ HmacsInv => ResponsesVerify
  BY ResponseVerifies DEF ResponsesVerify, Succeeded, Answer
<1>. QED  BY <1>1, SessionsInvariant, HmacsInvariant, PTL

(* The session of a slot after a response that verifies. *)
LEMMA CheckedSlot ==
  ASSUME SessionsInv, HmacsInv, Succeeded, check_response,
         NEW i \in DOMAIN Asked.slots, Asked.slots[i] # Password
  PROVE  Checked[Asked.slots[i]] = Received(i)
<1> DEFINE s == Asked.slots[i]
<1>1. /\ s \in InSlots(Asked) /\ SlotOf(Asked, s) = i /\ s \in DOMAIN Recomputed
      /\ DOMAIN Asked.slots = 1 .. Len(Asked.slots) /\ Len(Asked.slots) \in Nat
  BY AnsweredFacts, RecomputedTyped
<1>2. /\ Len(wire.auths) = Len(Asked.slots)
      /\ \A k \in DOMAIN Asked.slots : Asked.slots[k] # Password => Verified(k)
  BY VerifiedSlots
<1>3. 1 .. i - 1 \subseteq DOMAIN Asked.slots
  BY <1>1
<1>4. \A j \in 1 .. SlotOf(Asked, s) - 1 : Asked.slots[j] # Password => Verified(j)
  BY <1>1, <1>2, <1>3
<1> HIDE DEF s
<1>5. Checked[s] = Received(SlotOf(Asked, s))
  BY <1>1, <1>2, <1>4 DEF Checked
<1>. QED  BY <1>1, <1>5 DEF s

(* The key of parameter encryption is the session key and the value the TPM
   has, if the library knows it. *)
LEMMA EncryptKeyKnown ==
  ASSUME CommandUnderWay, NEW i \in DOMAIN Asked.slots, Asked.slots[i] # Password, AuthKnown(i)
  PROVE  EncryptKey(sessions[Asked.slots[i]]) =
           sessions[Asked.slots[i]].sessionKey
           \o (IF Authorises(Asked, i) THEN tpmAuth[Asked.objects[i]] ELSE <<>>)
<1>1. Computed(sessions[Asked.slots[i]], ValueOf(i))
  BY DEF CommandUnderWay, ValuesComputed
<1>2. ValueOf(i) = IF Authorises(Asked, i) THEN tpmAuth[Asked.objects[i]] ELSE <<>>
  BY DEF ValueOf, AuthKnown
<1>. QED  BY <1>1, <1>2, EncryptKeyComputed

(* What the library encrypts the TPM decrypts, and the other way round: the key
   is the one of the session both sides take, with the value of the object it
   authorises. *)
THEOREM EncryptionInAgreement == Spec => []EncryptionAgrees
<1>1. SessionsInv /\ HmacsInv => EncryptionAgrees
  <2> SUFFICES ASSUME SessionsInv, HmacsInv, state = "SENT",
                      \A i \in DOMAIN Asked.slots :
                        AuthKnown(i) /\ (Asked.slots[i] = Password \/ ~Unsigned(i))
               PROVE  /\ Sent /\ Accepts => wire.param = TpmParam
                      /\ Succeeded /\ wire.intact /\ wire.encrypting # {}
                           => DecryptedWith = wire.result
    BY DEF EncryptionAgrees, Unsigned, Succeeded, Answer
  <2>1. AllSigned /\ CommandUnderWay
    BY DEF AllSigned, HmacsInv
  <2>2. ASSUME Sent, Accepts
        PROVE  wire.param = TpmParam
    <3>1. SlotsWith("decrypt") = wire.decrypting /\ CommandSent
      BY <2>1, <2>2, SignedSlots, SentFacts
    <3>2. CASE wire.decrypting = {} \/ Asked.param # "full"
      BY <3>1, <3>2 DEF CommandSent, TpmParam
    <3>3. CASE wire.decrypting # {} /\ Asked.param = "full"
      <4> DEFINE i    == CHOOSE i \in wire.decrypting : TRUE
                 node == sessions[Asked.slots[i]]
      <4>1. i \in DOMAIN Asked.slots /\ Asked.slots[i] # Password
        BY <3>1, <3>3 DEF CommandSent, SlotsOfSessions
      <4>2. wire.param = Cipher(EncryptKey(node), node.nonceCaller, node.nonceTPM)
        BY <3>1, <3>3 DEF CommandSent
      <4>3. TpmParam = Cipher(TpmEncryptKey(i, tpmAuth), wire.auths[i].nonce, SlotSession(i).nonceTPM)
        BY <3>1, <3>3 DEF TpmParam
      <4> HIDE DEF i
      <4>4. ~Unsigned(i) /\ AuthKnown(i)
        BY <2>1, <4>1 DEF AllSigned
      <4>5. EncryptKey(node) = TpmEncryptKey(i, tpmAuth)
        BY <2>1, <2>2, <4>1, <4>4, EncryptKeyKnown, TpmKey
      <4>6. wire.auths[i].nonce = node.nonceCaller
        BY <2>2, <4>1, <4>4, AcceptedSlot
      <4>7. node.nonceTPM = SlotSession(i).nonceTPM
        <5>1. Asked.slots[i] \in DOMAIN sessions \cap DOMAIN tpm /\ SameNonces
          BY <2>2, <4>1, SentFacts DEF Accepts
        <5>. QED  BY <5>1 DEF SameNonces, SlotSession
      <4>. QED  BY <4>2, <4>3, <4>5, <4>6, <4>7
    <3>. QED  BY <3>2, <3>3
  <2>3. ASSUME Succeeded, wire.intact, wire.encrypting # {}
        PROVE  DecryptedWith = wire.result
    <3> DEFINE i    == CHOOSE i \in wire.encrypting : TRUE
               s    == Asked.slots[i]
    <3>1. /\ SlotsOfSessions(wire.encrypting) /\ Asked.op \notin {"change", "undefine"}
          /\ wire.result =
               Cipher(sessions[s].sessionKey
                      \o (IF Authorises(Asked, i) THEN tpmAuth[Asked.objects[i]] ELSE <<>>),
                      wire.auths[i].nonce, sessions[s].nonceCaller)
      BY <2>1, <2>3, AnsweredFacts DEF CommandAnswered, ResultAnswered
    <3>2. i \in DOMAIN Asked.slots /\ s # Password
      BY <2>3, <3>1 DEF SlotsOfSessions
    <3>3. DecryptedWith = Cipher(EncryptKey(Checked[s]), Checked[s].nonceTPM, Checked[s].nonceCaller)
      BY DEF DecryptedWith
    <3> HIDE DEF i
    <3>4. ~Unsigned(i) /\ AuthKnown(i)
      BY <2>1, <3>2 DEF AllSigned
    <3>5. check_response
      BY <2>3, <3>1, ResponseVerifies DEF Miscounted
    <3>6. Checked[s] = Received(i)
      BY <2>3, <3>2, <3>5, CheckedSlot
    <3>7. Recomputed[s] = sessions[s]
      BY <3>1 DEF Recomputed
    <3>8. /\ EncryptKey(Received(i)) = EncryptKey(sessions[s])
          /\ Received(i).nonceCaller = sessions[s].nonceCaller
          /\ Received(i).nonceTPM = wire.auths[i].nonce
      BY <2>3, <3>2, <3>4, <3>7, ReceivedTyped
    <3>9. EncryptKey(sessions[s]) =
            sessions[s].sessionKey
            \o (IF Authorises(Asked, i) THEN tpmAuth[Asked.objects[i]] ELSE <<>>)
      BY <2>1, <3>2, <3>4, EncryptKeyKnown
    <3>. QED  BY <3>1, <3>3, <3>6, <3>8, <3>9
  <2>. QED  BY <2>2, <2>3
<1>. QED  BY <1>1, SessionsInvariant, HmacsInvariant, PTL
===========================================================================
