--------------------------- MODULE EsysSessions ---------------------------
(***************************************************************************)
(* The sessions of an ESYS context: session keys, nonces, HMACs, parameter *)
(* encryption and the verification of responses, with a TPM that keeps the *)
(* other half of every session.  Cryptography is symbolic: a key, an HMAC  *)
(* or a ciphertext is a record of what it is computed from, so two of them *)
(* are equal exactly when both sides used the same inputs.  A session key  *)
(* and an authorisation value that is not empty have size 1.               *)
(***************************************************************************)
EXTENDS Integers, Sequences, FiniteSets, Functions

CONSTANTS
  Sessions,        \* ESYS_TR of sessions; also their TPM handles
  Objects,         \* ESYS_TR of objects with authorisation values
  NvIndices,       \* those that NV_UndefineSpaceSpecial deletes
  Secrets,         \* authorisation values that are not empty
  NoByte,          \* a byte that is calloc'd and never written
  Password,        \* ESYS_TR_PASSWORD
  None,            \* no object to bind a session to
  Usages,          \* objects to authorise and sessions of the commands
  Starts,          \* forms of StartAuthSession
  AttributeSets,   \* attributes an application sets of each session
  TpmCycle,        \* bounds: the nonces of the TPM and of the caller before
  CallerCycle,     \* the first is used again
  Faults           \* may a response be corrupted?

AuthValue == {<<>>} \union {<<x>> : x \in Secrets}
Attributes == {"continue", "decrypt", "encrypt"}

ASSUME EsysSessionsAssumption ==
  /\ NvIndices \subseteq Objects /\ None \notin Objects /\ Password \notin Sessions
  /\ \A u \in Usages :
       /\ u.objects \in Seq(Objects)
       /\ u.slots \in Seq(Sessions \union {Password})
       /\ Len(u.objects) <= Len(u.slots) /\ Len(u.slots) <= 3
       /\ \A i \in Len(u.objects) + 1 .. Len(u.slots) : u.slots[i] # Password
       /\ \A i, j \in DOMAIN u.slots : i # j => u.slots[i] # u.slots[j] \/ u.slots[i] = Password
       /\ u.param \in {"none", "empty", "full"} /\ u.result \in BOOLEAN
  /\ Starts \subseteq [session : Sessions, salted : BOOLEAN, bind : Objects \union {None},
                       type : {"HMAC", "POLICY"}]
  /\ AttributeSets \in [Sessions -> SUBSET SUBSET Attributes]
  /\ TpmCycle \in Nat /\ TpmCycle >= 2 /\ CallerCycle \in Nat /\ CallerCycle >= 1
  /\ Faults \in BOOLEAN

VARIABLES
  state,           \* ESYS_CONTEXT.state
  sessions,        \* the IESYS_SESSION of every session that has a node
  auth,            \* RSRC_NODE_T.auth of every object that has a node
  salt,            \* ESYS_CONTEXT.salt
  wire,            \* the command under way, or its response
  tpm,             \* the sessions of the TPM
  tpmAuth          \* the authorisation values in the TPM

vars == <<state, sessions, auth, salt, wire, tpm, tpmAuth>>

(* Random nonces: a new one is not the last one. *)
Nonces         == 0 .. (TpmCycle + CallerCycle) - 1
NoNonce        == (TpmCycle + CallerCycle)
Fresh(n)       == (n + 1) % TpmCycle
FreshCaller(n) == (n + 1) % CallerCycle
FirstNonceCaller == 0
FirstNonceTPM    == 1
Quiet    == [phase |-> "idle"]

Init ==
  /\ state = "INIT"
  /\ sessions = <<>> /\ tpm = <<>>
  /\ auth = [o \in Objects |-> <<>>] /\ tpmAuth = auth
  /\ salt = <<>> /\ wire = Quiet
-----------------------------------------------------------------------------
(* Keys, HMACs and ciphertexts.                                             *)

Overwritten(bytes, at, new) ==
  [i \in DOMAIN bytes |-> IF i - at \in DOMAIN new THEN new[i - at] ELSE bytes[i]]

(* The random salt of a session. *)
Salt(f) == IF f.salted THEN <<f.session>> ELSE <<>>
KDFa(secret, nonceTPM, nonceCaller) ==
  <<[secret |-> secret, nonceTPM |-> nonceTPM, nonceCaller |-> nonceCaller]>>

(* iesys_crypto_authHmac *)
Hmac(key, hash, newer, older, decryptNonce, encryptNonce, attributes) ==
  [key |-> key, hash |-> hash, newer |-> newer, older |-> older,
   decryptNonce |-> decryptNonce, encryptNonce |-> encryptNonce, attributes |-> attributes]
Clear(value) == Hmac(value, <<>>, NoNonce, NoNonce, NoNonce, NoNonce, {})

Cipher(key, newer, older) == <<[key |-> key, newer |-> newer, older |-> older]>>
PlainText == <<>>

(* Past sessionValue there are bytes nobody else knows. *)
HmacKey(node) ==
  IF node.sizeHmacValue \in 0..2 THEN SubSeq(node.sessionValue, 1, node.sizeHmacValue)
  ELSE node.sessionValue \o <<NoByte>>
(* Mutant: the size of the HMAC key. *)
EncryptKey_AsHmac(node) == HmacKey(node)
EncryptKey(node) == SubSeq(node.sessionValue, 1, node.sizeSessionValue)

IsBound(bound_entity, name, value) == bound_entity = <<[name |-> name, auth |-> value]>>

(* Mutant: the size of the last value is not reset. *)
compute_session_value_NoReset(node, name, value) ==
  [node EXCEPT !.sessionValue = Overwritten(@, Len(node.sessionKey), value),
               !.sizeSessionValue = @ + Len(value), !.sizeHmacValue = @ + Len(value)]
(* iesys_compute_session_value for a session that authorises an object ... *)
compute_session_value(node, name, value) ==
  LET keySize == Len(node.sessionKey)
      bound   == IsBound(node.bound_entity, name, value)
                 /\ node.type_policy_session # "POLICY_AUTH"
  IN  [node EXCEPT
         !.sessionValue = Overwritten(Overwritten(@, 0, node.sessionKey), keySize, value),
         !.sizeSessionValue = keySize + Len(value),
         !.sizeHmacValue = keySize + (IF bound THEN 0 ELSE Len(value))]
(* ... and for one that authorises none: it returns before sizeHmacValue. *)
compute_session_value_NULL(node) ==
  [node EXCEPT !.sessionValue = Overwritten(@, 0, node.sessionKey),
               !.sizeSessionValue = Len(node.sessionKey)]
-----------------------------------------------------------------------------
(* A command: what it does (op), the objects it authorises, the sessions in *)
(* its slots, whether it has a first parameter and result to encrypt.       *)

InSlots(c) == Range(c.slots) \cap Sessions
SlotOf(c, s) == CHOOSE i \in DOMAIN c.slots : c.slots[i] = s
Authorises(c, i) == i \in DOMAIN c.objects

(* The sessions after iesys_compute_session_value of every slot and
   iesys_gen_caller_nonces. *)
Renewed(c) ==
  [s \in DOMAIN sessions |->
     IF s \notin InSlots(c) THEN sessions[s]
     ELSE LET i    == SlotOf(c, s)
              node == IF Authorises(c, i)
                      THEN compute_session_value(sessions[s], c.objects[i], auth[c.objects[i]])
                      ELSE compute_session_value_NULL(sessions[s])
          IN  [node EXCEPT !.nonceCaller = FreshCaller(@)]]

(* The slots whose session encrypts the parameter, or has the TPM encrypt
   the result. *)
With(c, attribute) ==
  {i \in DOMAIN c.slots : c.slots[i] \in DOMAIN sessions
                          /\ attribute \in sessions[c.slots[i]].sessionAttributes}

Unencryptable(c) ==
  \/ Cardinality(With(c, "decrypt")) > 1
  \/ Cardinality(With(c, "encrypt")) > 1
  \/ With(c, "decrypt") # {} /\ c.param = "none"

(* iesys_encrypt_param *)
Param(c, nodes) ==
  IF With(c, "decrypt") = {} \/ c.param # "full" THEN PlainText
  ELSE LET node == nodes[c.slots[CHOOSE i \in With(c, "decrypt") : TRUE]]
       IN  Cipher(EncryptKey(node), node.nonceCaller, node.nonceTPM)

(* The nonce of the session with the attribute, for the HMAC of the first
   session when it is another one. *)
OtherNonce(c, attribute, i, nodes) ==
  IF i = 1 /\ With(c, attribute) \ {1} # {}
  THEN nodes[c.slots[CHOOSE j \in With(c, attribute) : TRUE]].nonceTPM ELSE NoNonce

(* Mutant: a session that decrypts is forgotten in the HMAC of the first. *)
compute_hmac_NoNonces(c, i, nodes) ==
  LET node == nodes[c.slots[i]]
  IN  [nonce |-> node.nonceCaller, attributes |-> node.sessionAttributes,
       hmac |-> Hmac(HmacKey(node), Param(c, nodes), node.nonceCaller, node.nonceTPM,
                     NoNonce, NoNonce, node.sessionAttributes)]
(* iesys_compute_hmac *)
compute_hmac(c, i, nodes) ==
  LET node == nodes[c.slots[i]]
  IN  [nonce |-> node.nonceCaller, attributes |-> node.sessionAttributes,
       hmac |-> Hmac(HmacKey(node), Param(c, nodes), node.nonceCaller, node.nonceTPM,
                     OtherNonce(c, "decrypt", i, nodes), OtherNonce(c, "encrypt", i, nodes),
                     node.sessionAttributes)]

InClear(c, i, nodes) ==
  c.slots[i] = Password \/ nodes[c.slots[i]].type_policy_session = "POLICY_PASSWORD"

(* iesys_gen_auths *)
gen_auths(c, nodes) ==
  [i \in DOMAIN c.slots |->
     IF InClear(c, i, nodes)
     THEN [nonce |-> NoNonce, attributes |-> {},
           hmac |-> Clear(IF Authorises(c, i) THEN auth[c.objects[i]] ELSE <<>>)]
     ELSE compute_hmac(c, i, nodes)]

(* iesys_compute_encrypted_salt: without a key, what is left of the last. *)
NewSalt(c) == IF c.op = "start" /\ c.arg.salted THEN Salt(c.arg) ELSE salt

(* What Esys_<command>_Async does once the state allows it; a resubmission
   does it again. *)
Submit(c) ==
  /\ sessions' = Renewed(c) /\ salt' = NewSalt(c)
  /\ IF Unencryptable(c)
     THEN state' = "INIT" /\ wire' = Quiet
     ELSE /\ state' = "SENT"
          /\ wire' = [phase |-> "sent", command |-> c, param |-> Param(c, Renewed(c)),
                      auths |-> gen_auths(c, Renewed(c)),
                      decrypting |-> With(c, "decrypt"), encrypting |-> With(c, "encrypt"),
                      believed |-> [i \in DOMAIN c.objects |-> auth[c.objects[i]]],
                      right |-> {o \in Range(c.objects) \cap DOMAIN tpmAuth : auth[o] = tpmAuth[o]},
                      policies |-> \A s \in InSlots(c) \cap DOMAIN tpm :
                                     sessions[s].type_policy_session = tpm[s].policy]
  /\ UNCHANGED <<auth, tpm, tpmAuth>>

Async(c) ==
  /\ state = "INIT"
  /\ InSlots(c) \subseteq DOMAIN sessions /\ Range(c.objects) \subseteq DOMAIN auth
  /\ Submit(c)

Command(op, u, param, result, arg) ==
  [op |-> op, objects |-> u.objects, slots |-> u.slots, param |-> param, result |-> result,
   arg |-> arg]
Bare == [objects |-> <<>>, slots |-> <<>>]

Use(u) == Async(Command("use", u, u.param, u.result, None))
(* Esys_HierarchyChangeAuth and Esys_NV_ChangeAuth of the object authorised. *)
ChangeAuth(u, new) == Len(u.objects) = 1 /\ Async(Command("change", u, "full", FALSE, new))
(* Esys_NV_UndefineSpaceSpecial, authorised by a policy session. *)
UndefineSpecial(u) ==
  /\ Len(u.objects) = 1 /\ u.objects[1] \in NvIndices /\ u.slots[1] # Password
  /\ Async(Command("undefine", u, "none", FALSE, None))
(* Esys_PolicyAuthValue, Esys_PolicyPassword, Esys_PolicyRestart. *)
Policy(s, type) ==
  s \in DOMAIN sessions /\ Async(Command("policy", Bare, "none", FALSE, [session |-> s, type |-> type]))
FlushContext(s) == s \in DOMAIN sessions /\ Async(Command("flush", Bare, "none", FALSE, s))
StartAuthSession(u, f) ==
  /\ u.objects = <<>> /\ f.session \notin DOMAIN sessions
  /\ f.bind \in DOMAIN auth \union {None}
  /\ Async(Command("start", u, "full", TRUE, f))

(* Esys_TR_SetAuth *)
SetAuth(o, value) ==
  /\ o \in DOMAIN auth /\ value # auth[o]
  /\ auth' = [auth EXCEPT ![o] = value]
  /\ UNCHANGED <<state, sessions, salt, wire, tpm, tpmAuth>>
(* Esys_TRSess_SetAttributes, at any time. *)
SetAttributes(s, attributes) ==
  /\ s \in DOMAIN sessions /\ attributes # sessions[s].sessionAttributes
  /\ sessions' = [sessions EXCEPT ![s].sessionAttributes = attributes]
  /\ UNCHANGED <<state, auth, salt, wire, tpm, tpmAuth>>
(* Esys_TR_Close, of a session the TPM has ended and no command under way
   points to. *)
Close(s) ==
  /\ s \in DOMAIN sessions \ DOMAIN tpm /\ state = "INIT"
  /\ sessions' = Restrict(sessions, DOMAIN sessions \ {s})
  /\ UNCHANGED <<state, auth, salt, wire, tpm, tpmAuth>>
-----------------------------------------------------------------------------
(* The TPM.                                                                 *)

Sent  == wire.phase = "sent"
Asked == wire.command
SlotSession(i) == tpm[Asked.slots[i]]

(* The auth value a session adds to its key for the object it authorises. *)
AddsAuth(i, auths) ==
  /\ Authorises(Asked, i) /\ Asked.objects[i] \in DOMAIN auths
  /\ LET session == SlotSession(i)
         o == Asked.objects[i]
     IN  IF session.type = "POLICY" THEN session.policy = "POLICY_AUTH"
         ELSE ~IsBound(session.bound_entity, o, auths[o])
TpmHmacKey(i, auths) ==
  SlotSession(i).sessionKey \o (IF AddsAuth(i, auths) THEN auths[Asked.objects[i]] ELSE <<>>)
TpmEncryptKey(i, auths) ==
  SlotSession(i).sessionKey
  \o (IF Authorises(Asked, i) /\ Asked.objects[i] \in DOMAIN auths
      THEN auths[Asked.objects[i]] ELSE <<>>)

SlotsWith(attribute) == {i \in DOMAIN Asked.slots : attribute \in wire.auths[i].attributes}
(* A session that both decrypts and encrypts counts once. *)
TpmOtherNonce(i, slots) ==
  IF i = 1 /\ slots \ {1} # {} THEN SlotSession(CHOOSE j \in slots : TRUE).nonceTPM ELSE NoNonce

AsksPassword(i) ==
  \/ Asked.slots[i] = Password
  \/ SlotSession(i).policy = "POLICY_PASSWORD" /\ Authorises(Asked, i)
Expected(i) ==
  IF AsksPassword(i)
  THEN Clear(IF Authorises(Asked, i) THEN tpmAuth[Asked.objects[i]] ELSE <<>>)
  ELSE Hmac(TpmHmacKey(i, tpmAuth), wire.param, wire.auths[i].nonce, SlotSession(i).nonceTPM,
            TpmOtherNonce(i, SlotsWith("decrypt")),
            TpmOtherNonce(i, SlotsWith("encrypt") \ SlotsWith("decrypt")),
            wire.auths[i].attributes)

Present == InSlots(Asked) \subseteq DOMAIN tpm /\ Range(Asked.objects) \subseteq DOMAIN tpmAuth
Accepts == Present /\ \A i \in DOMAIN Asked.slots : wire.auths[i].hmac = Expected(i)

(* The parameter as the TPM decrypts it. *)
TpmParam ==
  IF SlotsWith("decrypt") = {} \/ Asked.param # "full" THEN PlainText
  ELSE LET i == CHOOSE i \in SlotsWith("decrypt") : TRUE
       IN  Cipher(TpmEncryptKey(i, tpmAuth), wire.auths[i].nonce, SlotSession(i).nonceTPM)

Possible ==
  /\ SlotsWith("encrypt") # {} => Asked.result
  /\ Asked.op = "start" => Asked.arg.session \notin DOMAIN tpm
  /\ Asked.op = "policy" => Asked.arg.session \in DOMAIN tpm /\ tpm[Asked.arg.session].type = "POLICY"
  /\ Asked.op = "flush" => Asked.arg \in DOMAIN tpm
  /\ Asked.op = "undefine" => SlotSession(1).type = "POLICY"

AuthsAfter ==
  CASE Asked.op = "change"   -> [tpmAuth EXCEPT ![Asked.objects[1]] = Asked.arg]
    [] Asked.op = "undefine" -> Restrict(tpmAuth, DOMAIN tpmAuth \ {Asked.objects[1]})
    [] OTHER                 -> tpmAuth

(* The key of a new session. *)
TpmStarted(f) ==
  LET bound  == IF f.bind = None THEN <<>> ELSE <<[name |-> f.bind, auth |-> tpmAuth[f.bind]]>>
      secret == (IF f.bind = None THEN <<>> ELSE tpmAuth[f.bind]) \o Salt(f)
  IN  [type |-> f.type, policy |-> "NO_POLICY_AUTH", nonceTPM |-> FirstNonceTPM, bound_entity |-> bound,
       sessionKey |-> IF f.bind = None /\ ~f.salted THEN <<>> ELSE KDFa(secret, FirstNonceTPM, FirstNonceCaller)]

(* Sessions without continueSession end; a policy is used up. *)
Ended == {s \in InSlots(Asked) : "continue" \notin wire.auths[SlotOf(Asked, s)].attributes}
         \union (IF Asked.op = "flush" THEN {Asked.arg} ELSE {})
Continued(s) ==
  [tpm[s] EXCEPT
     !.nonceTPM = IF s \in InSlots(Asked) THEN Fresh(@) ELSE @,
     !.policy = IF Asked.op = "policy" /\ Asked.arg.session = s THEN Asked.arg.type
                ELSE IF s \in InSlots(Asked) /\ Authorises(Asked, SlotOf(Asked, s))
                THEN "NO_POLICY_AUTH" ELSE @]
SessionsAfter ==
  LET left == [s \in DOMAIN tpm \ Ended |-> Continued(s)]
  IN  IF Asked.op = "start"
      THEN [s \in DOMAIN left \union {Asked.arg.session} |->
              IF s \in DOMAIN left THEN left[s] ELSE TpmStarted(Asked.arg)]
      ELSE left

(* The result, encrypted, and the authorisations of the response. *)
Result ==
  IF SlotsWith("encrypt") = {} THEN PlainText
  ELSE LET i == CHOOSE i \in SlotsWith("encrypt") : TRUE
       IN  Cipher(TpmEncryptKey(i, AuthsAfter), Fresh(SlotSession(i).nonceTPM), wire.auths[i].nonce)
Response(i) ==
  IF AsksPassword(i)
  THEN [nonce |-> NoNonce, attributes |-> wire.auths[i].attributes, hmac |-> Clear(<<>>)]
  ELSE LET nonce == Fresh(SlotSession(i).nonceTPM)
       IN  [nonce |-> nonce, attributes |-> wire.auths[i].attributes,
            hmac |-> Hmac(TpmHmacKey(i, AuthsAfter), Result, nonce, wire.auths[i].nonce,
                          NoNonce, NoNonce, wire.auths[i].attributes)]

Answered(rc, result, auths) ==
  [phase |-> "answered", command |-> Asked, rc |-> rc, result |-> result, auths |-> auths,
   intact |-> TRUE, encrypting |-> wire.encrypting, believed |-> wire.believed,
   right |-> wire.right, policies |-> wire.policies]

TpmExecutes ==
  /\ Sent /\ Accepts /\ Possible
  /\ wire' = Answered("success", Result, [i \in DOMAIN Asked.slots |-> Response(i)])
  /\ tpm' = SessionsAfter /\ tpmAuth' = AuthsAfter
  /\ UNCHANGED <<state, sessions, auth, salt>>
TpmRefuses ==
  /\ Sent
  /\ \E rc \in {"error", "retry"} : wire' = Answered(rc, PlainText, <<>>)
  /\ UNCHANGED <<state, sessions, auth, salt, tpm, tpmAuth>>

(* A response is corrupted on its way: its result, a nonce, or it has lost
   its authorisations. *)
Corrupt ==
  /\ Faults /\ wire.phase = "answered" /\ wire.rc = "success" /\ wire.intact
  /\ \/ wire' = [wire EXCEPT !.intact = FALSE, !.result = Cipher(<<>>, NoNonce, NoNonce)]
     \/ wire' = [wire EXCEPT !.intact = FALSE, !.auths = <<>>]
     \/ \E i \in DOMAIN wire.auths :
          wire.auths[i].nonce # NoNonce /\
          wire' = [wire EXCEPT !.intact = FALSE, !.auths[i].nonce = Fresh(@)]
  /\ UNCHANGED <<state, sessions, auth, salt, tpm, tpmAuth>>
-----------------------------------------------------------------------------
(* Esys_<command>_Finish with a response.                                   *)

FinishRetry ==
  /\ state = "SENT" /\ wire.phase = "answered" /\ wire.rc = "retry"
  /\ Submit(Asked)
(* An error of the TPM, or the last resubmission. *)
FinishError ==
  /\ state = "SENT" /\ wire.phase = "answered" /\ wire.rc # "success"
  /\ state' = "INIT" /\ wire' = Quiet
  /\ UNCHANGED <<sessions, auth, salt, tpm, tpmAuth>>

(* Mutant: the node keeps its auth value. *)
ChangedAuth_Kept ==
  IF Asked.op = "undefine" THEN Restrict(auth, DOMAIN auth \ {Asked.objects[1]}) ELSE auth
(* What ChangeAuth and UndefineSpaceSpecial change before they verify. *)
ChangedAuth ==
  CASE Asked.op = "change"   -> [auth EXCEPT ![Asked.objects[1]] = Asked.arg]
    [] Asked.op = "undefine" -> Restrict(auth, DOMAIN auth \ {Asked.objects[1]})
    [] OTHER                 -> auth
(* Mutant: the session value stays. *)
Recomputed_Not == sessions
Recomputed ==
  LET s == Asked.slots[1]
      o == Asked.objects[1]
  IN CASE Asked.op = "change" /\ s # Password ->
            [sessions EXCEPT ![s] = compute_session_value(@, o, Asked.arg)]
       [] Asked.op = "undefine" ->
            [sessions EXCEPT ![s].sizeHmacValue = (@ - Len(auth[o])) % 2^16]
       [] OTHER -> sessions

(* iesys_check_rp_hmacs for the session of a slot, its nonce and attributes
   already replaced. *)
Received(i) ==
  LET node == Recomputed[Asked.slots[i]]
  IN  IF node.type_policy_session = "POLICY_PASSWORD" THEN node
      ELSE [node EXCEPT !.nonceTPM = wire.auths[i].nonce,
                        !.sessionAttributes = wire.auths[i].attributes]
Verified(i) ==
  LET node == Received(i)
  IN  wire.auths[i].hmac =
        IF node.type_policy_session = "POLICY_PASSWORD" THEN Clear(<<>>)
        ELSE Hmac(HmacKey(node), wire.result, node.nonceTPM, node.nonceCaller,
                  NoNonce, NoNonce, wire.auths[i].attributes)
(* Mutant: the number of authorisations of the response is not compared. *)
check_response_AnyCount == \A i \in DOMAIN wire.auths : Asked.slots[i] # Password => Verified(i)
(* iesys_check_response *)
check_response ==
  /\ Len(wire.auths) = Len(Asked.slots)
  /\ \A i \in DOMAIN wire.auths : Asked.slots[i] # Password => Verified(i)

(* Mutant: what is received is checked, not kept. *)
Checked_Only == Recomputed
(* The sessions after the check, which stops at the first HMAC that differs. *)
Checked ==
  [s \in DOMAIN Recomputed |->
     IF s \in InSlots(Asked) /\ Len(wire.auths) = Len(Asked.slots)
        /\ \A j \in 1 .. SlotOf(Asked, s) - 1 : Asked.slots[j] # Password => Verified(j)
     THEN Received(SlotOf(Asked, s)) ELSE Recomputed[s]]

(* iesys_decrypt_param: with the key of the session that asked for it. *)
DecryptedWith ==
  LET i == CHOOSE i \in wire.encrypting : TRUE
      node == Checked[Asked.slots[i]]
  IN  Cipher(EncryptKey(node), node.nonceTPM, node.nonceCaller)

(* Mutant: the salt precedes the authorisation value. *)
Secret_SaltFirst(f) ==
  (IF f.salted THEN salt ELSE <<>>) \o (IF f.bind = None THEN <<>> ELSE auth[f.bind])
(* The secret of Esys_StartAuthSession_Finish. *)
Secret(f) ==
  (IF f.bind = None THEN <<>> ELSE auth[f.bind]) \o (IF f.salted THEN salt ELSE <<>>)
Keyed(f) == f.bind # None \/ salt # <<>>
Started(f) ==
  LET key == IF Keyed(f) THEN KDFa(Secret(f), FirstNonceTPM, FirstNonceCaller) ELSE <<>>
  IN  [sessionType |-> f.type, type_policy_session |-> "NO_POLICY_AUTH",
       sessionKey |-> key, sessionValue |-> <<NoByte, NoByte>>,
       sizeSessionValue |-> 0, sizeHmacValue |-> 0,
       bound_entity |-> IF f.bind = None THEN <<>>
                        ELSE <<[name |-> f.bind, auth |-> auth[f.bind]]>>,
       sessionAttributes |-> {"continue"}, nonceCaller |-> FirstNonceCaller,
       nonceTPM |-> FirstNonceTPM]

(* Without a secret there is GENERAL_FAILURE. *)
Keyless == Asked.op = "start" /\ Keyed(Asked.arg) /\ Secret(Asked.arg) = <<>>

(* The sessions after the commands that start, end or mark one. *)
Completed ==
  CASE Asked.op = "start" ->
         [s \in DOMAIN Checked \union {Asked.arg.session} |->
            IF s \in DOMAIN Checked THEN Checked[s] ELSE Started(Asked.arg)]
    [] Asked.op = "flush" -> Restrict(Checked, DOMAIN Checked \ {Asked.arg})
    [] Asked.op = "policy" /\ Asked.arg.type # "NO_POLICY_AUTH" ->
         [Checked EXCEPT ![Asked.arg.session].type_policy_session = Asked.arg.type]
    [] OTHER -> Checked

FinishVerified ==
  /\ state = "SENT" /\ wire.phase = "answered" /\ wire.rc = "success"
  /\ check_response
  /\ sessions' = Completed /\ auth' = ChangedAuth
  /\ state' = IF Keyless THEN "INTERNALERROR" ELSE "INIT"
  /\ wire' = Quiet
  /\ UNCHANGED <<salt, tpm, tpmAuth>>
FinishUnverified ==
  /\ state = "SENT" /\ wire.phase = "answered" /\ wire.rc = "success"
  /\ ~check_response
  /\ sessions' = Checked /\ auth' = ChangedAuth
  /\ state' = "INTERNALERROR" /\ wire' = Quiet
  /\ UNCHANGED <<salt, tpm, tpmAuth>>

Next ==
  \/ \E u \in Usages :
       \/ Use(u) \/ UndefineSpecial(u)
       \/ \E new \in AuthValue : ChangeAuth(u, new)
       \/ \E f \in Starts : StartAuthSession(u, f)
  \/ \E s \in Sessions :
       \/ \E type \in {"POLICY_AUTH", "POLICY_PASSWORD", "NO_POLICY_AUTH"} : Policy(s, type)
       \/ \E attributes \in AttributeSets[s] : SetAttributes(s, attributes)
       \/ FlushContext(s) \/ Close(s)
  \/ \E o \in Objects, value \in AuthValue : SetAuth(o, value)
  \/ TpmExecutes \/ TpmRefuses \/ Corrupt
  \/ FinishRetry \/ FinishError \/ FinishVerified \/ FinishUnverified

Spec == Init /\ [][Next]_vars
-----------------------------------------------------------------------------
(* Properties.                                                              *)

(* The type of every variable: nodes of sessions and objects, what is on its
   way, and the sizes of the keys within sessionValue. *)
TypeOK ==
  /\ state \in {"INIT", "SENT", "INTERNALERROR"}
  /\ DOMAIN sessions \subseteq Sessions /\ DOMAIN tpm \subseteq Sessions
  /\ DOMAIN auth \subseteq Objects /\ DOMAIN tpmAuth \subseteq Objects
  /\ \A o \in DOMAIN auth : auth[o] \in AuthValue
  /\ \A o \in DOMAIN tpmAuth : tpmAuth[o] \in AuthValue
  /\ \A s \in DOMAIN sessions :
       LET node == sessions[s]
       IN  /\ node.nonceTPM \in Nonces /\ node.nonceCaller \in Nonces
           /\ node.sessionAttributes \subseteq Attributes
           /\ Len(node.sessionKey) <= 1 /\ Len(node.sessionValue) = 2
           /\ node.sizeSessionValue \in 0..2
           \* UndefineSpaceSpecial may subtract one from zero
           /\ node.sizeHmacValue \in 0..2 \union {2^16 - 1}
           /\ node.type_policy_session \in {"NO_POLICY_AUTH", "POLICY_AUTH", "POLICY_PASSWORD"}
  /\ salt \in {<<>>} \union {<<s>> : s \in Sessions}
  /\ wire.phase \in {"idle", "sent", "answered"}
  /\ (wire.phase = "idle") = (state # "SENT")

(* What a command needs so that the TPM can accept the authorisation of a
   slot: the auth value of the object, and a session of which both sides
   agree on key and policy. *)
AuthKnown(i) ==
  Authorises(Asked, i) =>
    Asked.objects[i] \in DOMAIN tpmAuth /\ wire.believed[i] = tpmAuth[Asked.objects[i]]
SessionShared(i) ==
  Asked.slots[i] # Password =>
    /\ Asked.slots[i] \in DOMAIN tpm
    /\ LET node == sessions[Asked.slots[i]]
           session == SlotSession(i)
       IN  /\ node.sessionKey = session.sessionKey
           \* iesys_compute_session_value adds the auth value where a policy does not ask for it
           /\ (node.sessionType = "POLICY" /\ session.policy = "NO_POLICY_AUTH"
               /\ Authorises(Asked, i)) => wire.believed[i] = <<>>
           /\ ~Authorises(Asked, i) => session.policy = "NO_POLICY_AUTH"
(* iesys_compute_session_value leaves sizeHmacValue of a session that
   authorises nothing as it was. *)
Leftover(i) ==
  /\ Asked.slots[i] # Password /\ ~Authorises(Asked, i)
  /\ sessions[Asked.slots[i]].sizeHmacValue # Len(sessions[Asked.slots[i]].sessionKey)
(* iesys_gen_auths counts a later session that decrypts and encrypts twice. *)
CountedTwice == (SlotsWith("decrypt") \cap SlotsWith("encrypt")) \ {1} # {}

(* It also counts one after PolicyPassword, whose attributes it does not send. *)
CountedInClear ==
  \E i \in (wire.decrypting \union wire.encrypting) \ {1} : InClear(Asked, i, sessions)

(* The TPM computes every HMAC, password and nonce of a command as the library
   did, whatever has happened to the sessions before. *)
AuthorizationsAccepted ==
  (/\ Sent /\ wire.policies /\ ~CountedTwice /\ ~CountedInClear
   /\ \A i \in DOMAIN Asked.slots : AuthKnown(i) /\ SessionShared(i) /\ ~Leftover(i))
  => Accepts

(* The comment at esys_iutil.c:945, "The auth value is only used if an
   authorization is necessary": the key of the HMAC of a session that
   authorises no object is the session key. *)
SessionKeyOnly ==
  Sent => \A i \in DOMAIN Asked.slots :
    Asked.slots[i] # Password /\ ~Authorises(Asked, i) /\ ~InClear(Asked, i, sessions) =>
      wire.auths[i].hmac.key = sessions[Asked.slots[i]].sessionKey

(* A response that arrives as the TPM sent it verifies, also after the command
   has changed the auth value in its key, or deleted the object.  Exceptions:
   iesys_compute_session_value adds the new value for a policy that does not
   ask for one, or that the TPM has used up, and UndefineSpaceSpecial subtracts
   an auth value that was not added, or another than was. *)
Miscounted ==
  LET node == sessions[Asked.slots[1]]
      o    == Asked.objects[1]
  IN
  \/ /\ Asked.op = "change" /\ Asked.arg # <<>> /\ Asked.slots[1] # Password
     /\ \/ node.sessionType = "POLICY" /\ node.type_policy_session = "NO_POLICY_AUTH"
        \/ ~wire.policies
  \/ /\ Asked.op = "undefine"
     /\ \/ auth[o] # wire.believed[1]
        \/ /\ IsBound(node.bound_entity, o, wire.believed[1])
           /\ node.type_policy_session # "POLICY_AUTH"
ResponsesVerify ==
  wire.phase = "answered" /\ wire.rc = "success" /\ wire.intact /\ ~Miscounted => check_response

(* Before a command and while it is under way, both sides of a session have
   the same nonceTPM: nothing that fails leaves one of them behind. *)
NoncesAgree ==
  state = "INIT" \/ Sent =>
    \A s \in DOMAIN sessions \cap DOMAIN tpm : sessions[s].nonceTPM = tpm[s].nonceTPM

(* A parameter is encrypted with the key with which the TPM decrypts it, and a
   result is decrypted with the key of the TPM.  Exception: iesys_gen_auths
   tells the TPM nothing of the attributes of a PolicyPassword session. *)
EncryptionAgrees ==
  (state = "SENT" /\ \A i \in DOMAIN Asked.slots :
     AuthKnown(i) /\ (Asked.slots[i] = Password \/ ~InClear(Asked, i, sessions)))
  => /\ Sent /\ Accepts => wire.param = TpmParam
     /\ (wire.phase = "answered" /\ wire.rc = "success" /\ wire.intact /\ wire.encrypting # {})
          => DecryptedWith = wire.result

(* An auth value that was the one of the TPM before a command is so after it,
   when the command changes it, fails, or is submitted again; unless the
   application sets it in the meantime. *)
AuthsFollow == [][
  state = "SENT" /\ state' = "INIT" =>
    \A i \in DOMAIN Asked.objects :
      LET o == Asked.objects[i]
      IN  o \in wire.right \cap DOMAIN auth' /\ auth[o] = wire.believed[i] => auth'[o] = tpmAuth[o]]_vars

(* A session starts with the key the TPM has for it if the auth value of the
   object it is bound to is known. *)
KeysAgree == [][
  \A s \in DOMAIN sessions' \ DOMAIN sessions :
    state' = "INIT" /\ (Asked.arg.bind # None => auth[Asked.arg.bind] = tpmAuth[Asked.arg.bind])
      => sessions'[s].sessionKey = tpm[s].sessionKey
         /\ sessions'[s].bound_entity = tpm[s].bound_entity]_vars

(* What an HMAC session protects is never delivered after it was corrupted. *)
CorruptedNotDelivered == [][
  (/\ wire.phase = "answered" /\ wire.rc = "success" /\ ~wire.intact
   /\ \E i \in DOMAIN Asked.slots : ~InClear(Asked, i, sessions))
  => state' # "INIT"]_vars

(* Esys_TRSess_SetAttributes, esys_tr.c:505, "new_attributes = old_attributes &
   ~mask | flags & mask": they stay until they are set again. *)
AttributesStay == [][
  \A s \in DOMAIN sessions \cap DOMAIN sessions' :
    wire # wire' => sessions'[s].sessionAttributes = sessions[s].sessionAttributes]_vars
=============================================================================
