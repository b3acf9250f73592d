----------------------------- MODULE EsysCrypto -----------------------------
(***************************************************************************)
(* The digests, HMACs and derived keys of ESYS over its two backends.      *)
(* Every computation of esys_crypto.c opens a context of the crypto        *)
(* library, feeds it part by part and finishes it; an error on the way     *)
(* must release the context.  KDFa and the XOR obfuscation run HMACs in a  *)
(* loop.  A step is one call of the backend, which may fail, or one turn   *)
(* of a loop.  What a digest computes is the sequence of parts it was fed. *)
(***************************************************************************)
EXTENDS Integers, Sequences

CONSTANTS
  Backends,        \* the libraries: "ossl", "gcrypt"
  KeyBits,         \* the AES keys of the sessions
  DataSizes        \* the sizes of the parameters under XOR obfuscation

ASSUME CryptoAssumption ==
  /\ Backends \subseteq {"ossl", "gcrypt"}
  /\ KeyBits \subseteq {128, 192, 256} /\ DataSizes \subseteq Nat

VARIABLES
  backend,         \* the library ESYS was built with
  call,            \* the computation: function, algorithm, size and optional parts
  pc,              \* its next step
  todo,            \* the parts that are still to be fed
  context,         \* the variable cryptoContext, and what it points to
  kdf,             \* the local variables of iesys_crypto_KDFa, and outKey
  xor,             \* those of iesys_xor_parameter_obfuscation
  succeeded,       \* has the last computation returned success?
  left             \* what the computation has left allocated

vars == <<backend, call, pc, todo, context, kdf, xor, succeeded, left>>

(* iesys_crypto_hash_get_digest_size *)
DigestSize == [SHA1 |-> 20, SHA256 |-> 32, SHA384 |-> 48, SHA512 |-> 64, SM3_256 |-> 32]
Algorithms == DOMAIN DigestSize

(* Who computes a key with KDFa, or masks a parameter. *)
Derivers == {"session", "CFB", "XOR"}
Functions == {"pHash", "authHmac", "KDFe", "get_name"} \cup Derivers

(* The function that works on the library's context. *)
Digester(fn) == IF fn \in Derivers THEN "KDFaHmac" ELSE fn
KindOf(fn)   == IF fn \in {"pHash", "KDFe", "get_name"} THEN "hash" ELSE "hmac"
-----------------------------------------------------------------------------
(* The backends.  A context is the blob calloc returned, the context of the
   library, and for an OpenSSL HMAC the key made for it.  A call returns one of
   a set of outcomes.                                                        *)

NoContext == [pointer |-> "wild", kind |-> "none", parts |-> {}, fed |-> <<>>]
Opened(kind, parts) ==
  [pointer |-> "set", kind |-> kind, parts |-> parts, fed |-> <<>>]
Closed(c) ==
  [c EXCEPT !.pointer = "NULL", !.parts = @ \ {"blob", "library"}]
Fed(c, part) == [c EXCEPT !.fed = Append(@, part)]

Done(c)  == [ok |-> TRUE, context |-> c]
Fails(c) == [ok |-> FALSE, context |-> c]

ossl_hash_md == {"SHA1", "SHA256", "SHA384", "SHA512"}

ossl_hash_start(c, alg) ==
  {Fails(c)} \cup {Done(Opened("hash", {"blob", "library"})) : a \in {alg} \cap ossl_hash_md}
ossl_hash_update(c, part) ==
  {Fails(c)} \cup IF c.kind = "hash" THEN {Done(Fed(c, part))} ELSE {}
ossl_hash_finish(c) ==
  {Fails(c)} \cup IF c.kind = "hash" THEN {Done(Closed(c))} ELSE {}
ossl_hash_abort(c) ==
  IF c.pointer = "NULL" \/ c.kind # "hash" THEN c ELSE Closed(c)

(* The reference of hkey is not given up: EVP_DigestSignInit takes its own. *)
ossl_hmac_start(c, alg) ==
  {Fails(c)}
    \cup {Done(Opened("hmac", {"blob", "library", "key"})) : a \in {alg} \cap ossl_hash_md}
ossl_hmac_update(c, part) ==
  {Fails(c)} \cup IF c.kind = "hmac" THEN {Done(Fed(c, part))} ELSE {}
(* Mutant: a context that fails is closed, and the caller's pointer stays. *)
ossl_hmac_finish_KeepsPointer(c) ==
  IF c.kind = "hmac" THEN {Fails([Closed(c) EXCEPT !.pointer = "set"]), Done(Closed(c))}
  ELSE {Fails(c)}
(* A context that is of the wrong type is refused, one that fails is closed. *)
ossl_hmac_finish(c) ==
  IF c.kind = "hmac" THEN {Fails(Closed(c)), Done(Closed(c))} ELSE {Fails(c)}
ossl_hmac_abort(c) ==
  IF c.pointer = "NULL" \/ c.kind # "hmac" THEN c ELSE Closed(c)

gcrypt_hash_start(c, alg) ==
  {Fails(c)}
    \cup {Done(Opened("hash", {"blob", "library"})) :
            a \in {alg} \cap {"SHA1", "SHA256", "SHA384"}}
gcrypt_hash_update(c, part) ==
  IF c.kind = "hash" THEN {Done(Fed(c, part))} ELSE {Fails(c)}
gcrypt_hash_finish(c) ==
  {Fails(c)} \cup IF c.kind = "hash" THEN {Done(Closed(c))} ELSE {}
gcrypt_hash_abort(c) ==
  IF c.pointer = "NULL" \/ c.kind # "hash" THEN c ELSE Closed(c)

gcrypt_hmac_start(c, alg) ==
  {Fails(c)}
    \cup {Done(Opened("hmac", {"blob", "library"})) : a \in {alg} \cap {"SHA1", "SHA256"}}
gcrypt_hmac_update(c, part) ==
  {Fails(c)} \cup IF c.kind = "hmac" THEN {Done(Fed(c, part))} ELSE {}
gcrypt_hmac_finish(c) ==
  {Fails(c)} \cup IF c.kind = "hmac" THEN {Done(Closed(c))} ELSE {}
gcrypt_hmac_abort(c) ==
  IF c.pointer = "NULL" \/ c.kind # "hmac" THEN c ELSE Closed(c)

(* AES in mode CFB, in both directions: whether it succeeds, and what it leaves.
   The one handle of gcrypt is closed on success only. *)
ossl_sym_aes == [ok : BOOLEAN, parts : {{}}]
gcrypt_sym_aes_init == {[ok |-> TRUE, parts |-> {"cipher"}], [ok |-> FALSE, parts |-> {}],
                        [ok |-> FALSE, parts |-> {"cipher"}]}
gcrypt_sym_aes ==
  {o \in gcrypt_sym_aes_init : ~o.ok}
    \cup {[ok |-> FALSE, parts |-> {"cipher"}], [ok |-> TRUE, parts |-> {}]}

(* The backend's functions behind the names esys_crypto.c calls. *)
StartOutcomes(kind, c, alg) ==
  CASE backend = "ossl" /\ kind = "hash"   -> ossl_hash_start(c, alg)
    [] backend = "ossl" /\ kind = "hmac"   -> ossl_hmac_start(c, alg)
    [] backend = "gcrypt" /\ kind = "hash" -> gcrypt_hash_start(c, alg)
    [] backend = "gcrypt" /\ kind = "hmac" -> gcrypt_hmac_start(c, alg)
UpdateOutcomes(kind, c, part) ==
  CASE backend = "ossl" /\ kind = "hash"   -> ossl_hash_update(c, part)
    [] backend = "ossl" /\ kind = "hmac"   -> ossl_hmac_update(c, part)
    [] backend = "gcrypt" /\ kind = "hash" -> gcrypt_hash_update(c, part)
    [] backend = "gcrypt" /\ kind = "hmac" -> gcrypt_hmac_update(c, part)
FinishOutcomes(kind, c) ==
  CASE backend = "ossl" /\ kind = "hash"   -> ossl_hash_finish(c)
    [] backend = "ossl" /\ kind = "hmac"   -> ossl_hmac_finish(c)
    [] backend = "gcrypt" /\ kind = "hash" -> gcrypt_hash_finish(c)
    [] backend = "gcrypt" /\ kind = "hmac" -> gcrypt_hmac_finish(c)
hash_abort(c) == IF backend = "ossl" THEN ossl_hash_abort(c) ELSE gcrypt_hash_abort(c)
hmac_abort(c) == IF backend = "ossl" THEN ossl_hmac_abort(c) ELSE gcrypt_hmac_abort(c)
-----------------------------------------------------------------------------
(* What the callers ask for.                                                *)

RoundUp(n, h) == IF n % h > 0 THEN n + h - (n % h) ELSE n

(* Mutant: room for what is read, not for the blocks that are written. *)
SymKeyRoom_NotRounded(alg) == 32 + 16
(* symKey: the longest key and a block, in whole digests. *)
SymKeyRoom(alg) == RoundUp(32 + 16, DigestSize[alg])

(* The buffer each caller of KDFa provides, the bits it asks for and the bytes
   it reads: sessionKey, symKey with key and initialization vector, and
   kdfa_result. *)
Room(c) ==
  CASE c.fn = "session" -> 64
    [] c.fn = "CFB"     -> SymKeyRoom(c.alg)
    [] c.fn = "XOR"     -> 1024
BitLength(c) ==
  CASE c.fn = "session" -> DigestSize[c.alg] * 8
    [] c.fn = "CFB"     -> c.size + 16 * 8
    [] c.fn = "XOR"     -> c.size * 8
Need(c) ==
  CASE c.fn = "session" -> DigestSize[c.alg]
    [] c.fn = "CFB"     -> (c.size + 7) \div 8 + 16
    [] c.fn = "XOR"     -> IF xor.rest < DigestSize[c.alg] THEN xor.rest ELSE DigestSize[c.alg]

Part(what) == [what |-> what, value |-> 0]
Number(what, n) == [what |-> what, value |-> n]

(* The parts of each digest, in order; a part that is NULL is left out. *)
Passed(what, optional) == IF what \in optional THEN <<Part(what)>> ELSE <<>>
pHash_parts(c) ==
  Passed("rc", c.optional) \o <<Part("cc")>> \o Passed("name1", c.optional)
    \o Passed("name2", c.optional) \o Passed("name3", c.optional) \o <<Part("parameters")>>
authHmac_parts(c) ==
  <<Part("pHash"), Part("nonceNewer"), Part("nonceOlder")>>
    \o Passed("nonceDecrypt", c.optional) \o Passed("nonceEncrypt", c.optional)
    \o <<Part("attributes")>>
KDFaHmac_parts(label, counter, bits) ==
  <<Number("counter", counter), Part(label), Part("contextU"), Part("contextV"),
    Number("bitLength", bits)>>
(* The one caller of KDFe asks for one digest: its loop turns once. *)
KDFe_parts == <<Number("counter", 1), Part("Z"), Part("label"), Part("partyUInfo"),
                Part("partyVInfo")>>

Parts(c, counter) ==
  CASE c.fn = "pHash"    -> pHash_parts(c)
    [] c.fn = "authHmac" -> authHmac_parts(c)
    [] c.fn = "KDFe"     -> KDFe_parts
    [] c.fn = "get_name" -> <<Part("publicArea")>>
    [] c.fn \in Derivers -> KDFaHmac_parts(c.fn, counter, BitLength(c))

(* The optional parts the callers pass: cpHash, rpHash; command and response HMAC. *)
Optional(fn) ==
  CASE fn = "pHash"    -> {{"rc"}} \cup {{"name1"}, {"name1", "name2"}, {}}
                            \cup {{"name1", "name2", "name3"}}
    [] fn = "authHmac" -> SUBSET {"nonceDecrypt", "nonceEncrypt"}
    [] OTHER           -> {{}}
Sizes(fn) ==
  CASE fn = "CFB" -> KeyBits
    [] fn = "XOR" -> DataSizes
    [] OTHER      -> {0}

Calls == UNION {[fn : {fn}, alg : Algorithms, size : Sizes(fn), optional : Optional(fn)] :
                  fn \in Functions}

NoKdf == [bytes |-> 0, counter |-> 0, at |-> 0, outKey |-> <<>>]
NoXor == [rest |-> 0, counter |-> 0, masks |-> <<>>]
-----------------------------------------------------------------------------
(* The computations.                                                        *)

(* What the context c still holds when its function is over is lost. *)
Leaving(c, ok) ==
  left \cup {[fn |-> call.fn, ok |-> ok, parts |-> p] : p \in {c.parts} \ {{}}}

Return(c, ok) == pc' = "idle" /\ succeeded' = ok /\ left' = Leaving(c, ok)

(* KDFa: the digest size, the number of bytes, and the counter where one is passed. *)
KDFa_init(fn, alg, bits, counter) ==
  [bytes |-> IF fn = "XOR" THEN DigestSize[alg] ELSE (bits + 7) \div 8,
   counter |-> counter, at |-> 0, outKey |-> <<>>]

Begin(c) ==
  /\ pc = "idle"
  /\ call' = c /\ left' = {} /\ succeeded' = FALSE /\ context' = NoContext
  /\ xor' = IF c.fn = "XOR" THEN [NoXor EXCEPT !.rest = c.size] ELSE NoXor
  /\ kdf' = IF c.fn \in {"session", "CFB"} THEN KDFa_init(c.fn, c.alg, BitLength(c), 0)
            ELSE NoKdf
  /\ todo' = IF c.fn \in Derivers THEN <<>> ELSE Parts(c, 0)
  /\ pc' = CASE c.fn = "XOR" -> "mask" [] c.fn \in {"session", "CFB"} -> "block"
             [] OTHER -> "start"
  /\ UNCHANGED backend

Start ==
  /\ pc = "start"
  /\ \E o \in StartOutcomes(KindOf(call.fn), context, call.alg) :
       /\ context' = o.context
       /\ IF o.ok THEN pc' = "update" /\ UNCHANGED <<succeeded, left>>
          ELSE Return(o.context, FALSE)
  /\ UNCHANGED <<backend, call, todo, kdf, xor>>

Update ==
  /\ pc = "update" /\ todo # <<>>
  /\ \E o \in UpdateOutcomes(KindOf(call.fn), context, Head(todo)) :
       /\ context' = o.context
       /\ pc' = IF o.ok THEN "update" ELSE "error"
  /\ todo' = Tail(todo)
  /\ UNCHANGED <<backend, call, kdf, xor, succeeded, left>>

(* The public area of an object or index is marshalled after the start. *)
MarshalFails ==
  /\ pc = "update" /\ call.fn = "get_name" /\ todo # <<>>
  /\ pc' = "error"
  /\ UNCHANGED <<backend, call, todo, context, kdf, xor, succeeded, left>>

(* The block of a derived key is written where subKey points. *)
Written(k, fed, h) ==
  [k EXCEPT !.outKey = [j \in DOMAIN @ \cup k.at..(k.at + h - 1) |->
                          IF j >= k.at THEN [block |-> fed, offset |-> j - k.at] ELSE @[j]],
            !.at = @ + h, !.bytes = @ - h]

(* A name's context is not aborted when finishing fails. *)
Finish ==
  /\ pc = "update" /\ todo = <<>>
  /\ \E o \in FinishOutcomes(KindOf(call.fn), context) :
       /\ context' = o.context
       /\ IF ~o.ok /\ call.fn # "get_name"
            THEN pc' = "error" /\ UNCHANGED <<kdf, succeeded, left>>
          ELSE IF call.fn \notin Derivers
            THEN Return(o.context, o.ok) /\ UNCHANGED kdf
          ELSE /\ kdf' = Written(kdf, context.fed, DigestSize[call.alg])
               /\ pc' = "block"
               /\ left' = Leaving(o.context, TRUE)
               /\ UNCHANGED succeeded
  /\ UNCHANGED <<backend, call, todo, xor>>

(* The error exits: KDFe calls the abort of an HMAC, a name frees the blob alone. *)
pHash_error(c)    == hash_abort(c)
(* Mutant: the mistake of KDFe, the abort of the other kind. *)
authHmac_error_Hash(c) == hash_abort(c)
authHmac_error(c) == hmac_abort(c)
KDFaHmac_error(c) == hmac_abort(c)
KDFe_error(c)     == hmac_abort(c)
get_name_error(c) == [c EXCEPT !.pointer = "NULL", !.parts = @ \ {"blob"}]

Error ==
  /\ pc = "error"
  /\ context' = CASE Digester(call.fn) = "pHash"    -> pHash_error(context)
                  [] Digester(call.fn) = "authHmac" -> authHmac_error(context)
                  [] Digester(call.fn) = "KDFaHmac" -> KDFaHmac_error(context)
                  [] Digester(call.fn) = "KDFe"     -> KDFe_error(context)
                  [] Digester(call.fn) = "get_name" -> get_name_error(context)
  /\ Return(context', FALSE)
  /\ UNCHANGED <<backend, call, todo, kdf, xor>>

(* Mutant: the counter is increased behind the HMAC. *)
KDFa_block_CountsAfter ==
  /\ pc = "block" /\ kdf.bytes > 0
  /\ kdf' = [kdf EXCEPT !.counter = @ + 1]
  /\ todo' = Parts(call, kdf.counter)
  /\ context' = NoContext /\ pc' = "start"
  /\ UNCHANGED <<backend, call, xor, succeeded, left>>
(* One turn of the loop of KDFa, up to the start of the HMAC. *)
KDFa_block ==
  /\ pc = "block" /\ kdf.bytes > 0
  /\ kdf' = [kdf EXCEPT !.counter = @ + 1]
  /\ todo' = Parts(call, kdf.counter + 1)
  /\ context' = NoContext /\ pc' = "start"
  /\ UNCHANGED <<backend, call, xor, succeeded, left>>

(* The loop is over; the key is the caller's. *)
KDFa_done ==
  /\ pc = "block" /\ kdf.bytes <= 0
  /\ pc' = "derived"
  /\ UNCHANGED <<backend, call, todo, context, kdf, xor, succeeded, left>>

SessionKeyed ==
  /\ pc = "derived" /\ call.fn = "session"
  /\ pc' = "idle" /\ succeeded' = TRUE
  /\ UNCHANGED <<backend, call, todo, context, kdf, xor, left>>

(* A parameter is encrypted or decrypted with the key and the vector behind it. *)
SymAes ==
  /\ pc = "derived" /\ call.fn = "CFB"
  /\ \E o \in (IF backend = "ossl" THEN ossl_sym_aes ELSE gcrypt_sym_aes) :
       Return(o, o.ok)
  /\ UNCHANGED <<backend, call, todo, context, kdf, xor>>

(* Mutants: the rest is reduced by a whole block; the counter is not passed on. *)
masked_block_WholeBlocks(x, n, h) ==
  [rest    |-> x.rest - h,
   counter |-> kdf.counter,
   masks   |-> x.masks \o [j \in 1..n |-> kdf.outKey[j - 1]]]
masked_block_CounterKept(x, n, h) ==
  [rest    |-> IF x.rest < h THEN 0 ELSE x.rest - h,
   counter |-> x.counter,
   masks   |-> x.masks \o [j \in 1..n |-> kdf.outKey[j - 1]]]
(* The next block of the parameter is masked: the counter has moved on. *)
masked_block(x, n, h) ==
  [rest    |-> IF x.rest < h THEN 0 ELSE x.rest - h,
   counter |-> kdf.counter,
   masks   |-> x.masks \o [j \in 1..n |-> kdf.outKey[j - 1]]]

Mask ==
  /\ pc = "derived" /\ call.fn = "XOR"
  /\ xor' = masked_block(xor, Need(call), DigestSize[call.alg])
  /\ pc' = "mask"
  /\ UNCHANGED <<backend, call, todo, context, kdf, succeeded, left>>

(* The loop of iesys_xor_parameter_obfuscation. *)
NextBlock ==
  /\ pc = "mask"
  /\ IF xor.rest > 0
       THEN /\ kdf' = KDFa_init("XOR", call.alg, BitLength(call), xor.counter)
            /\ pc' = "block" /\ UNCHANGED succeeded
       ELSE pc' = "idle" /\ succeeded' = TRUE /\ UNCHANGED kdf
  /\ UNCHANGED <<backend, call, todo, context, xor, left>>

Init ==
  /\ backend \in Backends
  /\ call = [fn |-> "pHash", alg |-> "SHA1", size |-> 0, optional |-> {}]
  /\ pc = "idle" /\ todo = <<>> /\ context = NoContext
  /\ kdf = NoKdf /\ xor = NoXor
  /\ succeeded = FALSE /\ left = {}

Next ==
  \/ \E c \in Calls : Begin(c)
  \/ Start \/ Update \/ MarshalFails \/ Finish \/ Error
  \/ KDFa_block \/ KDFa_done \/ SessionKeyed \/ SymAes \/ Mask \/ NextBlock

Spec == Init /\ [][Next]_vars
-----------------------------------------------------------------------------
(* Properties.                                                              *)

Labels == {"rc", "cc", "name1", "name2", "name3", "parameters", "pHash", "nonceNewer",
           "nonceOlder", "nonceDecrypt", "nonceEncrypt", "attributes", "counter", "contextU",
           "contextV", "bitLength", "Z", "label", "partyUInfo", "partyVInfo",
           "publicArea"} \cup Derivers
Item  == [what : Labels, value : Nat]
Bytes == [block : Seq(Item), offset : Nat]

(* The types of the variables: the rest of a parameter never wraps below zero
   (rest_size is a size_t), and outKey is written from its start on. *)
TypeOK ==
  /\ backend \in Backends /\ call \in Calls /\ succeeded \in BOOLEAN
  /\ pc \in {"idle", "start", "update", "error", "block", "derived", "mask"}
  /\ todo \in Seq(Item)
  /\ context.pointer \in {"wild", "set", "NULL"} /\ context.kind \in {"none", "hash", "hmac"}
  /\ context.parts \subseteq {"blob", "library", "key"}
  /\ kdf.bytes \in Int /\ kdf.counter \in Nat /\ kdf.at \in Nat
  /\ \A j \in DOMAIN kdf.outKey : kdf.outKey[j] \in Bytes
  /\ xor.rest \in Nat /\ xor.counter \in Nat /\ xor.masks \in Seq(Bytes)
  /\ \A l \in left : l.fn \in Functions /\ l.ok \in BOOLEAN

(* No computation uses a context that was freed, was never made or is one of
   the other kind, whichever call of the library has failed before. *)
ContextValid ==
  /\ pc = "update" =>
       /\ context.pointer = "set" /\ {"blob", "library"} \subseteq context.parts
       /\ context.kind = KindOf(call.fn)
  /\ pc = "error" => context.pointer = "NULL" \/ {"blob", "library"} \subseteq context.parts

(* However a computation ends, its contexts are released.  Not so a KDFe that
   fails, a name that fails, the key of every HMAC with OpenSSL, and the
   handle of an AES that fails with gcrypt. *)
ContextsReleased ==
  \A l \in left : \/ l.fn \in {"KDFe", "get_name"} /\ ~l.ok
                  \/ backend = "ossl" /\ l.parts = {"key"}
                  \/ backend = "gcrypt" /\ l.parts = {"cipher"} /\ ~l.ok

(* The blocks of a derived key stay within the buffer of the caller, although
   the last one is written in full. *)
RoomKept == call.fn \in Derivers => \A j \in DOMAIN kdf.outKey : j < Room(call)

(* Every byte the caller reads of a derived key (key and initialization vector)
   is the byte of the block with its number: counter mode from the counter passed. *)
DerivedIsRead ==
  pc = "derived" =>
    LET h     == DigestSize[call.alg]
        first == IF call.fn = "XOR" THEN xor.counter ELSE 0
    IN  \A j \in 0..Need(call) - 1 :
          /\ j \in DOMAIN kdf.outKey
          /\ kdf.outKey[j] =
               [block |-> KDFaHmac_parts(call.fn, first + 1 + j \div h, BitLength(call)),
                offset |-> j % h]

(* An obfuscated parameter is masked once in every byte, and no byte of the
   derived masks is used for two of them. *)
MaskedOnce ==
  call.fn = "XOR" /\ pc = "idle" /\ succeeded =>
    /\ Len(xor.masks) = call.size
    /\ \A i, j \in 1..call.size : xor.masks[i] = xor.masks[j] => i = j

(* What the comment of iesys_cryptossl_hmac_finish says: the resources of the
   HMAC object are released. *)
HmacReleased == call.fn = "authHmac" /\ pc = "idle" /\ succeeded => left = {}
=============================================================================
