-------------------------- MODULE EsysCryptoProofs --------------------------
(***************************************************************************)
(* Proofs about EsysCrypto, for either backend, every algorithm and every  *)
(* size of a parameter.                                                    *)
(***************************************************************************)
EXTENDS EsysCrypto, SequenceTheorems, TLAPS

Contexts == [pointer : {"wild", "set", "NULL"}, kind : {"none", "hash", "hmac"},
             parts : SUBSET {"blob", "library", "key"}, fed : Seq(Item)]

(* The types of TypeOK, of whole records. *)
Types ==
  /\ backend \in Backends /\ call \in Calls /\ succeeded \in BOOLEAN
  /\ pc \in {"idle", "start", "update", "error", "block", "derived", "mask"}
  /\ todo \in Seq(Item) /\ context \in Contexts
  /\ kdf = [bytes |-> kdf.bytes, counter |-> kdf.counter, at |-> kdf.at,
            outKey |-> kdf.outKey]
  /\ kdf.bytes \in Int /\ kdf.counter \in Nat /\ kdf.at \in Nat
  /\ DOMAIN kdf.outKey = 0..kdf.at - 1
  /\ \A j \in DOMAIN kdf.outKey : kdf.outKey[j] \in Bytes
  /\ xor \in [rest : Nat, counter : Nat, masks : Seq(Bytes)]
  /\ left \subseteq [fn : Functions, ok : BOOLEAN,
                     parts : SUBSET {"blob", "library", "key", "cipher"}]

(* Which computations are at which step. *)
Steps ==
  /\ pc \in {"block", "derived"} => call.fn \in Derivers
  /\ pc = "mask" => call.fn = "XOR"
  /\ pc = "start" => context = NoContext

(* A context that is used is whole: the library's key is there with OpenSSL's
   HMACs only, and a context given up keeps at most that. *)
Whole(c, kind) ==
  /\ c.pointer = "set" /\ c.kind = kind
  /\ {"blob", "library"} \subseteq c.parts
  /\ "key" \in c.parts => backend = "ossl" /\ kind = "hmac"
GivenUp(c) ==
  /\ c.pointer = "NULL" /\ c.parts \subseteq {"key"}
  /\ "key" \in c.parts => backend = "ossl"
Contextual ==
  /\ pc = "update" => Whole(context, KindOf(call.fn))
  /\ pc = "error" => Whole(context, KindOf(call.fn)) \/ GivenUp(context)

(* The bytes a derivation is to write, the counter it starts from, and the
   blocks it has written. *)
Total(c) == IF c.fn = "XOR" THEN DigestSize[c.alg] ELSE (BitLength(c) + 7) \div 8
First    == IF call.fn = "XOR" THEN xor.counter ELSE 0
Blocks   == kdf.counter - First - (IF pc \in {"start", "update"} THEN 1 ELSE 0)

(* The byte at place j of a key derived from the counter first. *)
KeyByte(c, first, j) ==
  [block  |-> KDFaHmac_parts(c.fn, first + 1 + j \div DigestSize[c.alg], BitLength(c)),
   offset |-> j % DigestSize[c.alg]]

(* A derivation writes whole blocks, each of its own counter, until it has the
   bytes it is to write; the HMAC under way is fed the parts of the next one. *)
Deriving ==
  call.fn \in Derivers /\ pc \in {"block", "derived", "start", "update"} =>
    /\ Blocks \in Nat
    /\ kdf.at = Blocks * DigestSize[call.alg]
    /\ kdf.at + kdf.bytes = Total(call)
    /\ kdf.bytes > 0 - DigestSize[call.alg]
    /\ pc \in {"start", "update"} => kdf.bytes > 0
    /\ pc = "derived" => kdf.bytes <= 0
    /\ \A j \in 0..kdf.at - 1 : kdf.outKey[j] = KeyByte(call, First, j)
Feeding ==
  call.fn \in Derivers /\ pc \in {"start", "update"} =>
    context.fed \o todo = Parts(call, kdf.counter)

(* An obfuscation has masked the bytes before the rest, each with the byte of
   the same place of the key that one derivation would give. *)
Masking ==
  call.fn = "XOR" =>
    /\ Len(xor.masks) + xor.rest = call.size
    /\ xor.rest > 0 => Len(xor.masks) = xor.counter * DigestSize[call.alg]
    /\ \A i \in 1..Len(xor.masks) : xor.masks[i] = KeyByte(call, 0, i - 1)
    /\ pc \in {"block", "derived", "start", "update"} => xor.rest > 0
    /\ pc = "idle" /\ succeeded => xor.rest = 0

CryptoInv ==
  /\ Types /\ Steps /\ Contextual /\ Deriving /\ Feeding /\ Masking
  /\ ContextsReleased /\ RoomKept
-----------------------------------------------------------------------------
(* What the callers ask for.                                                *)

LEMMA Digests ==
  ASSUME NEW alg \in Algorithms
  PROVE  DigestSize[alg] \in {20, 32, 48, 64}
BY DEF Algorithms, DigestSize

LEMMA CallFacts ==
  ASSUME NEW c \in Calls
  PROVE  /\ c.fn \in Functions /\ c.alg \in Algorithms
         /\ DigestSize[c.alg] \in {20, 32, 48, 64}
         /\ c.fn = "CFB" => c.size \in {128, 192, 256}
         /\ c.fn = "XOR" => c.size \in Nat
         /\ c.fn \in Derivers => BitLength(c) \in Nat /\ Total(c) \in Nat /\ Room(c) \in Nat
<1>1. PICK fn \in Functions :
        c \in [fn : {fn}, alg : Algorithms, size : Sizes(fn), optional : Optional(fn)]
  BY DEF Calls
<1>2. c.fn = fn /\ c.alg \in Algorithms /\ c.size \in Sizes(fn)
  BY <1>1
<1>3. /\ c.fn = "CFB" => c.size \in {128, 192, 256}
      /\ c.fn = "XOR" => c.size \in Nat
  BY <1>2, CryptoAssumption DEF Sizes
<1>4. DigestSize[c.alg] \in {20, 32, 48, 64}
  BY <1>2, Digests
<1>5. ASSUME c.fn \in Derivers
      PROVE  BitLength(c) \in Nat /\ Total(c) \in Nat /\ Room(c) \in Nat
  <2>1. CASE c.fn = "session"
    BY <2>1, <1>4 DEF BitLength, Total, Room
  <2>2. CASE c.fn = "CFB"
    BY <2>2, <1>3, <1>4 DEF BitLength, Total, Room, SymKeyRoom, RoundUp
  <2>3. CASE c.fn = "XOR"
    BY <2>3, <1>3, <1>4 DEF BitLength, Total, Room
  <2>. QED  BY <1>5, <2>1, <2>2, <2>3 DEF Derivers
<1>. QED  BY <1>1, <1>2, <1>3, <1>4, <1>5

(* Whole digests that are begun while bytes are missing fit into the buffer. *)
LEMMA BlocksFit ==
  ASSUME NEW c \in Calls, c.fn \in Derivers, NEW n \in Nat,
         n * DigestSize[c.alg] < Total(c) + DigestSize[c.alg]
  PROVE  n * DigestSize[c.alg] <= Room(c)
<1> DEFINE h == DigestSize[c.alg]
<1>1. /\ h \in {20, 32, 48, 64}
      /\ c.fn = "CFB" => c.size \in {128, 192, 256}
  BY CallFacts
<1>2. CASE c.fn = "session"
  <2>1. Total(c) = h
    BY <1>1, <1>2 DEF Total, BitLength
  <2>2. n * h < h + h /\ h <= Room(c)
    BY <1>1, <1>2, <2>1 DEF Room
  <2>3. n * h <= h
    <3>1. CASE h = 20
      BY <2>2, <3>1
    <3>2. CASE h = 32
      BY <2>2, <3>2
    <3>3. CASE h = 48
      BY <2>2, <3>3
    <3>4. CASE h = 64
      BY <2>2, <3>4
    <3>. QED  BY <1>1, <3>1, <3>2, <3>3, <3>4
  <2>. QED  BY <1>1, <1>2, <2>2, <2>3 DEF Room
<1>3. CASE c.fn = "CFB"
  <2>1. Total(c) \in Nat /\ Total(c) <= 48
    BY <1>1, <1>3 DEF Total, BitLength
  <2>2. CASE h = 20
    BY <1>3, <2>1, <2>2 DEF Room, SymKeyRoom, RoundUp
  <2>3. CASE h = 32
    BY <1>3, <2>1, <2>3 DEF Room, SymKeyRoom, RoundUp
  <2>4. CASE h = 48
    BY <1>3, <2>1, <2>4 DEF Room, SymKeyRoom, RoundUp
  <2>5. CASE h = 64
    BY <1>3, <2>1, <2>5 DEF Room, SymKeyRoom, RoundUp
  <2>. QED  BY <1>1, <2>2, <2>3, <2>4, <2>5
<1>4. CASE c.fn = "XOR"
  <2>1. Total(c) = h
    BY <1>4 DEF Total
  <2>2. CASE h = 20
    BY <1>4, <2>1, <2>2 DEF Room
  <2>3. CASE h = 32
    BY <1>4, <2>1, <2>3 DEF Room
  <2>4. CASE h = 48
    BY <1>4, <2>1, <2>4 DEF Room
  <2>5. CASE h = 64
    BY <1>4, <2>1, <2>5 DEF Room
  <2>. QED  BY <1>1, <2>2, <2>3, <2>4, <2>5
<1>. QED  BY <1>2, <1>3, <1>4 DEF Derivers

(* What is read of a derived key is no more than what the derivation writes. *)
LEMMA NeedIsWritten ==
  ASSUME Types, call.fn \in Derivers
  PROVE  Need(call) \in Nat /\ Need(call) <= Total(call)
<1> DEFINE h == DigestSize[call.alg]
<1>1. /\ h \in {20, 32, 48, 64}
      /\ call.fn = "CFB" => call.size \in {128, 192, 256}
      /\ xor.rest \in Nat
  BY CallFacts DEF Types
<1>2. CASE call.fn = "session"
  BY <1>1, <1>2 DEF Need, Total, BitLength
<1>3. CASE call.fn = "CFB"
  BY <1>1, <1>3 DEF Need, Total, BitLength
<1>4. CASE call.fn = "XOR"
  BY <1>1, <1>4 DEF Need, Total
<1>. QED  BY <1>2, <1>3, <1>4 DEF Derivers

(* The parts of a digest. *)
LEMMA Items ==
  /\ \A what \in Labels : Part(what) \in Item
  /\ \A what \in Labels, n \in Nat : Number(what, n) \in Item
BY DEF Part, Number, Item

LEMMA PassedItems ==
  ASSUME NEW what \in Labels, NEW optional
  PROVE  Passed(what, optional) \in Seq(Item)
<1>1. Part(what) \in Item
  BY Items
<1>2. CASE what \in optional
  BY <1>1, <1>2 DEF Passed
<1>3. CASE what \notin optional
  BY <1>3 DEF Passed
<1>. QED  BY <1>2, <1>3

LEMMA PartsAreItems ==
  ASSUME NEW c \in Calls, NEW n \in Nat
  PROVE  Parts(c, n) \in Seq(Item)
<1>1. CASE c.fn = "pHash"
  <2>1. /\ Passed("rc", c.optional) \in Seq(Item) /\ Passed("name1", c.optional) \in Seq(Item)
        /\ Passed("name2", c.optional) \in Seq(Item)
        /\ Passed("name3", c.optional) \in Seq(Item)
    BY PassedItems DEF Labels
  <2>2. Part("cc") \in Item /\ Part("parameters") \in Item
    BY DEF Part, Item, Labels
  <2>3. <<Part("cc")>> \in Seq(Item) /\ <<Part("parameters")>> \in Seq(Item)
    BY <2>2
  <2>4. pHash_parts(c) \in Seq(Item)
    BY <2>1, <2>3 DEF pHash_parts
  <2>. QED  BY <1>1, <2>4 DEF Parts, Derivers
<1>2. CASE c.fn = "authHmac"
  <2>1. /\ Passed("nonceDecrypt", c.optional) \in Seq(Item)
        /\ Passed("nonceEncrypt", c.optional) \in Seq(Item)
    BY PassedItems DEF Labels
  <2>2. /\ Part("pHash") \in Item /\ Part("nonceNewer") \in Item
        /\ Part("nonceOlder") \in Item /\ Part("attributes") \in Item
    BY DEF Part, Item, Labels
  <2>3. /\ <<Part("pHash"), Part("nonceNewer"), Part("nonceOlder")>> \in Seq(Item)
        /\ <<Part("attributes")>> \in Seq(Item)
    BY <2>2
  <2>4. authHmac_parts(c) \in Seq(Item)
    BY <2>1, <2>3 DEF authHmac_parts
  <2>. QED  BY <1>2, <2>4 DEF Parts, Derivers
<1>3. CASE c.fn = "KDFe"
  BY <1>3 DEF Parts, KDFe_parts, Derivers, Part, Number, Item, Labels
<1>4. CASE c.fn = "get_name"
  BY <1>4 DEF Parts, Derivers, Part, Item, Labels
<1>5. CASE c.fn \in Derivers
  <2>1. BitLength(c) \in Nat /\ c.fn \in Labels
    <3>1. BitLength(c) \in Nat
      BY <1>5, CallFacts
    <3>. QED  BY <1>5, <3>1 DEF Labels
  <2>2. KDFaHmac_parts(c.fn, n, BitLength(c)) \in Seq(Item)
    BY <2>1 DEF KDFaHmac_parts, Part, Number, Item, Labels
  <2>. QED  BY <1>5, <2>2 DEF Parts, Derivers
<1>. QED  BY <1>1, <1>2, <1>3, <1>4, <1>5, CallFacts DEF Functions
-----------------------------------------------------------------------------
(* What the backends return.                                                *)

LEMMA StartOutcome ==
  ASSUME backend \in Backends, NEW kind \in {"hash", "hmac"}, NEW alg,
         NEW o \in StartOutcomes(kind, NoContext, alg)
  PROVE  \/ o.ok = FALSE /\ o.context = NoContext
         \/ /\ o.ok = TRUE /\ Whole(o.context, kind)
            /\ o.context \in Contexts /\ o.context.fed = <<>>
<1>0. <<>> \in Seq(Item)
  OBVIOUS
<1>1. backend \in {"ossl", "gcrypt"}
  BY CryptoAssumption
<1>2. CASE backend = "ossl" /\ kind = "hash"
  <2>1. o \in {Fails(NoContext), Done(Opened("hash", {"blob", "library"}))}
    BY <1>2 DEF StartOutcomes, ossl_hash_start
  <2>2. /\ Opened("hash", {"blob", "library"}) \in Contexts
        /\ Whole(Opened("hash", {"blob", "library"}), kind)
        /\ Opened("hash", {"blob", "library"}).fed = <<>>
    BY <1>2, <1>0 DEF Opened, Whole, Contexts
  <2>. QED  BY <2>1, <2>2 DEF Fails, Done
<1>3. CASE backend = "ossl" /\ kind = "hmac"
  <2>1. o \in {Fails(NoContext), Done(Opened("hmac", {"blob", "library", "key"}))}
    BY <1>3 DEF StartOutcomes, ossl_hmac_start
  <2>2. /\ Opened("hmac", {"blob", "library", "key"}) \in Contexts
        /\ Whole(Opened("hmac", {"blob", "library", "key"}), kind)
        /\ Opened("hmac", {"blob", "library", "key"}).fed = <<>>
    BY <1>3, <1>0 DEF Opened, Whole, Contexts
  <2>. QED  BY <2>1, <2>2 DEF Fails, Done
<1>4. CASE backend = "gcrypt" /\ kind = "hash"
  <2>1. o \in {Fails(NoContext), Done(Opened("hash", {"blob", "library"}))}
    BY <1>4 DEF StartOutcomes, gcrypt_hash_start
  <2>2. /\ Opened("hash", {"blob", "library"}) \in Contexts
        /\ Whole(Opened("hash", {"blob", "library"}), kind)
        /\ Opened("hash", {"blob", "library"}).fed = <<>>
    BY <1>4, <1>0 DEF Opened, Whole, Contexts
  <2>. QED  BY <2>1, <2>2 DEF Fails, Done
<1>5. CASE backend = "gcrypt" /\ kind = "hmac"
  <2>1. o \in {Fails(NoContext), Done(Opened("hmac", {"blob", "library"}))}
    BY <1>5 DEF StartOutcomes, gcrypt_hmac_start
  <2>2. /\ Opened("hmac", {"blob", "library"}) \in Contexts
        /\ Whole(Opened("hmac", {"blob", "library"}), kind)
        /\ Opened("hmac", {"blob", "library"}).fed = <<>>
    BY <1>5, <1>0 DEF Opened, Whole, Contexts
  <2>. QED  BY <2>1, <2>2 DEF Fails, Done
<1>. QED  BY <1>1, <1>2, <1>3, <1>4, <1>5

LEMMA UpdateOutcome ==
  ASSUME backend \in Backends, NEW kind \in {"hash", "hmac"}, NEW c \in Contexts,
         c.kind = kind, NEW part \in Item, NEW o \in UpdateOutcomes(kind, c, part)
  PROVE  \/ o.ok = FALSE /\ o.context = c
         \/ o.ok = TRUE /\ o.context = Fed(c, part)
<1>1. backend \in {"ossl", "gcrypt"}
  BY CryptoAssumption
<1>2. o \in {Fails(c), Done(Fed(c, part))}
  <2>1. CASE backend = "ossl" /\ kind = "hash"
    BY <2>1 DEF UpdateOutcomes, ossl_hash_update
  <2>2. CASE backend = "ossl" /\ kind = "hmac"
    BY <2>2 DEF UpdateOutcomes, ossl_hmac_update
  <2>3. CASE backend = "gcrypt" /\ kind = "hash"
    BY <2>3 DEF UpdateOutcomes, gcrypt_hash_update
  <2>4. CASE backend = "gcrypt" /\ kind = "hmac"
    BY <2>4 DEF UpdateOutcomes, gcrypt_hmac_update
  <2>. QED  BY <1>1, <2>1, <2>2, <2>3, <2>4
<1>. QED  BY <1>2 DEF Fails, Done

LEMMA FinishOutcome ==
  ASSUME backend \in Backends, NEW kind \in {"hash", "hmac"}, NEW c \in Contexts,
         Whole(c, kind), NEW o \in FinishOutcomes(kind, c)
  PROVE  /\ o.ok \in BOOLEAN /\ o.context \in Contexts
         /\ o.ok => GivenUp(o.context)
         /\ ~o.ok => o.context = c \/ (kind = "hmac" /\ GivenUp(o.context))
<1>1. backend \in {"ossl", "gcrypt"}
  BY CryptoAssumption
<1>2. Closed(c) \in Contexts /\ GivenUp(Closed(c))
  BY <1>1 DEF Closed, Contexts, Whole, GivenUp
<1>. c.kind = kind
  BY DEF Whole
<1>3. o \in {Fails(c), Done(Closed(c))} \/ (kind = "hmac" /\ o = Fails(Closed(c)))
  <2>1. CASE backend = "ossl" /\ kind = "hash"
    <3>1. FinishOutcomes(kind, c) = {Fails(c)} \cup {Done(Closed(c))}
      BY <2>1 DEF FinishOutcomes, ossl_hash_finish
    <3>. QED  BY <3>1
  <2>2. CASE backend = "ossl" /\ kind = "hmac"
    <3>1. FinishOutcomes(kind, c) = {Fails(Closed(c)), Done(Closed(c))}
      BY <2>2 DEF FinishOutcomes, ossl_hmac_finish
    <3>. QED  BY <2>2, <3>1
  <2>3. CASE backend = "gcrypt" /\ kind = "hash"
    <3>1. FinishOutcomes(kind, c) = {Fails(c)} \cup {Done(Closed(c))}
      BY <2>3 DEF FinishOutcomes, gcrypt_hash_finish
    <3>. QED  BY <3>1
  <2>4. CASE backend = "gcrypt" /\ kind = "hmac"
    <3>1. FinishOutcomes(kind, c) = {Fails(c)} \cup {Done(Closed(c))}
      BY <2>4 DEF FinishOutcomes, gcrypt_hmac_finish
    <3>. QED  BY <3>1
  <2>. QED  BY <1>1, <2>1, <2>2, <2>3, <2>4
<1>4. CASE o = Fails(c)
  BY <1>4 DEF Fails
<1>5. CASE o = Done(Closed(c))
  BY <1>2, <1>5 DEF Done
<1>6. CASE kind = "hmac" /\ o = Fails(Closed(c))
  BY <1>2, <1>6 DEF Fails
<1>. QED  BY <1>3, <1>4, <1>5, <1>6

(* What the error exit of a function leaves of a context that is whole or given
   up: nothing but OpenSSL's key, and all of it after KDFe, the library's part
   after a name. *)
LEMMA ErrorExit ==
  ASSUME Types, Contextual, Error
  PROVE  /\ context' \in Contexts
         /\ \/ context'.parts = {}
            \/ backend = "ossl" /\ context'.parts = {"key"}
            \/ call.fn \in {"KDFe", "get_name"}
<1>1. /\ context \in Contexts /\ call.fn \in Functions /\ backend \in {"ossl", "gcrypt"}
      /\ Whole(context, KindOf(call.fn)) \/ GivenUp(context)
  BY CallFacts, CryptoAssumption DEF Types, Contextual, Error
<1>2. /\ Closed(context) \in Contexts
      /\ \/ Closed(context).parts = {}
         \/ backend = "ossl" /\ Closed(context).parts = {"key"}
  BY <1>1 DEF Closed, Contexts, Whole, GivenUp
<1>3. GivenUp(context) =>
        context.parts = {} \/ (backend = "ossl" /\ context.parts = {"key"})
  <2>1. CASE "key" \in context.parts
    BY <2>1 DEF GivenUp
  <2>2. CASE "key" \notin context.parts
    BY <2>2 DEF GivenUp
  <2>. QED  BY <2>1, <2>2
<1>4. CASE call.fn = "pHash"
  <2>1. context' = hash_abort(context) /\ KindOf(call.fn) = "hash"
    BY <1>4 DEF Error, Digester, Derivers, KindOf, pHash_error
  <2>2. context' \in {context, Closed(context)}
           /\ (Whole(context, "hash") => context' = Closed(context))
    BY <1>1, <2>1 DEF hash_abort, ossl_hash_abort, gcrypt_hash_abort, Whole
  <2>. QED  BY <1>1, <1>2, <1>3, <2>1, <2>2
<1>5. CASE call.fn = "authHmac" \/ call.fn \in Derivers
  <2>1. context' = hmac_abort(context) /\ KindOf(call.fn) = "hmac"
    BY <1>5 DEF Error, Digester, Derivers, KindOf, authHmac_error, KDFaHmac_error
  <2>2. context' \in {context, Closed(context)}
           /\ (Whole(context, "hmac") => context' = Closed(context))
    BY <1>1, <2>1 DEF hmac_abort, ossl_hmac_abort, gcrypt_hmac_abort, Whole
  <2>. QED  BY <1>1, <1>2, <1>3, <2>1, <2>2
<1>6. CASE call.fn = "KDFe"
  <2>1. context' = hmac_abort(context)
    BY <1>6 DEF Error, Digester, Derivers, KDFe_error
  <2>2. context' \in {context, Closed(context)}
    BY <1>1, <2>1 DEF hmac_abort, ossl_hmac_abort, gcrypt_hmac_abort
  <2>. QED  BY <1>1, <1>2, <1>6, <2>2
<1>7. CASE call.fn = "get_name"
  <2>1. context' = get_name_error(context)
    BY <1>7 DEF Error, Digester, Derivers
  <2>2. context' \in Contexts
    BY <1>1, <2>1 DEF get_name_error, Contexts
  <2>. QED  BY <1>7, <2>2
<1>. QED  BY <1>1, <1>4, <1>5, <1>6, <1>7 DEF Functions
-----------------------------------------------------------------------------
(* Blocks of h bytes, and a sequence that is fed from its head.              *)

LEMMA Multiples ==
  ASSUME NEW n \in Int, NEW h \in {20, 32, 48, 64}
  PROVE  n * h \in Int /\ (n + 1) * h = n * h + h
<1>1. CASE h = 20
  BY <1>1
<1>2. CASE h = 32
  BY <1>2
<1>3. CASE h = 48
  BY <1>3
<1>4. CASE h = 64
  BY <1>4
<1>. QED  BY <1>1, <1>2, <1>3, <1>4

LEMMA PlaceInBlock ==
  ASSUME NEW n \in Nat, NEW h \in {20, 32, 48, 64}, NEW j \in Int,
         n * h <= j, j < n * h + h
  PROVE  j \div h = n /\ j % h = j - n * h
<1>1. CASE h = 20
  BY <1>1
<1>2. CASE h = 32
  BY <1>2
<1>3. CASE h = 48
  BY <1>3
<1>4. CASE h = 64
  BY <1>4
<1>. QED  BY <1>1, <1>2, <1>3, <1>4

LEMMA BlockAndOffset ==
  ASSUME NEW j \in Nat, NEW h \in {20, 32, 48, 64}
  PROVE  /\ j \div h \in Nat /\ j % h \in Nat
         /\ j = h * (j \div h) + (j % h)
<1>1. CASE h = 20
  BY <1>1
<1>2. CASE h = 32
  BY <1>2
<1>3. CASE h = 48
  BY <1>3
<1>4. CASE h = 64
  BY <1>4
<1>. QED  BY <1>1, <1>2, <1>3, <1>4

LEMMA FunctionIsSeq ==
  ASSUME NEW S, NEW n \in Nat, NEW f \in [1..n -> S]
  PROVE  f \in Seq(S) /\ Len(f) = n
OBVIOUS

LEMMA FedOn ==
  ASSUME NEW S, NEW fed \in Seq(S), NEW rest \in Seq(S), rest # <<>>
  PROVE  Append(fed, Head(rest)) \o Tail(rest) = fed \o rest
<1>1. rest = <<Head(rest)>> \o Tail(rest) /\ Head(rest) \in S /\ Tail(rest) \in Seq(S)
  BY HeadTailProperties
<1>2. Append(fed, Head(rest)) = fed \o <<Head(rest)>> /\ <<Head(rest)>> \in Seq(S)
  BY <1>1, AppendIsConcat
<1>3. (fed \o <<Head(rest)>>) \o Tail(rest) = fed \o (<<Head(rest)>> \o Tail(rest))
  BY <1>1, <1>2, ConcatAssociative
<1>. QED  BY <1>1, <1>2, <1>3
-----------------------------------------------------------------------------
(* The steps.                                                               *)

LEMMA BeginStep ==
  ASSUME CryptoInv, NEW c \in Calls, Begin(c)
  PROVE  CryptoInv'
<1>1. /\ call' = c /\ left' = {} /\ succeeded' = FALSE /\ context' = NoContext
      /\ backend' = backend /\ pc' \in {"mask", "block", "start"}
      /\ pc' = "mask" <=> c.fn = "XOR"
      /\ pc' = "block" <=> c.fn \in {"session", "CFB"}
      /\ c.fn = "XOR" => kdf' = NoKdf /\ xor' = [NoXor EXCEPT !.rest = c.size]
      /\ c.fn # "XOR" => xor' = NoXor
      /\ c.fn \in {"session", "CFB"} => kdf' = KDFa_init(c.fn, c.alg, BitLength(c), 0)
      /\ c.fn \notin {"session", "CFB"} => kdf' = NoKdf
      /\ c.fn \in Derivers => todo' = <<>>
      /\ c.fn \notin Derivers => todo' = Parts(c, 0)
  BY DEF Begin
<1>2. /\ DigestSize[c.alg] \in {20, 32, 48, 64} /\ c.fn \in Functions
      /\ c.fn = "XOR" => c.size \in Nat
      /\ c.fn \in Derivers => BitLength(c) \in Nat /\ Total(c) \in Nat /\ Room(c) \in Nat
  BY CallFacts
<1>3. /\ <<>> \in Seq(Item) /\ <<>> \in Seq(Bytes) /\ Len(<<>>) = 0
      /\ Parts(c, 0) \in Seq(Item)
  BY PartsAreItems
<1>4. /\ kdf'.counter = 0 /\ kdf'.at = 0 /\ kdf'.outKey = <<>> /\ kdf'.bytes \in Int
      /\ kdf' = [bytes |-> kdf'.bytes, counter |-> kdf'.counter, at |-> kdf'.at,
                 outKey |-> kdf'.outKey]
      /\ c.fn \in {"session", "CFB"} => kdf'.bytes = Total(c)
  BY <1>1, <1>2 DEF NoKdf, KDFa_init, Total, Derivers
<1>5. DOMAIN kdf'.outKey = {} /\ 0..kdf'.at - 1 = {}
  BY <1>4
<1>6. /\ xor' \in [rest : Nat, counter : Nat, masks : Seq(Bytes)]
      /\ xor'.counter = 0 /\ xor'.masks = <<>>
      /\ c.fn = "XOR" => xor'.rest = c.size
  <2>1. CASE c.fn = "XOR"
    <3>1. xor' = [rest |-> c.size, counter |-> 0, masks |-> <<>>] /\ c.size \in Nat
      BY <1>1, <1>2, <2>1 DEF NoXor
    <3>. QED  BY <1>3, <2>1, <3>1
  <2>2. CASE c.fn # "XOR"
    <3>1. xor' = [rest |-> 0, counter |-> 0, masks |-> <<>>]
      BY <1>1, <2>2 DEF NoXor
    <3>. QED  BY <1>3, <2>2, <3>1
  <2>. QED  BY <2>1, <2>2
<1>7. Types'
  <2>1. context' \in Contexts
    BY <1>1, <1>3 DEF NoContext, Contexts
  <2>. QED  BY <1>1, <1>3, <1>4, <1>5, <1>6, <2>1 DEF CryptoInv, Types
<1>8. Steps' /\ Contextual'
  BY <1>1, <1>2 DEF Steps, Contextual, Derivers
<1>9. Deriving'
  <2>1. SUFFICES ASSUME c.fn \in Derivers, pc' \in {"block", "derived", "start", "update"}
                 PROVE  Deriving'
    BY <1>1 DEF Deriving
  <2>2. pc' = "block" /\ c.fn \in {"session", "CFB"}
    BY <1>1, <2>1 DEF Derivers
  <2>3. Blocks' = 0
    BY <1>1, <1>4, <2>2 DEF Blocks, First
  <2>. QED  BY <1>1, <1>2, <1>4, <1>5, <2>2, <2>3 DEF Deriving, Derivers
<1>10. Feeding'
  BY <1>1 DEF Feeding, Derivers
<1>11. Masking'
  BY <1>1, <1>2, <1>3, <1>6, Multiples DEF Masking
<1>12. ContextsReleased' /\ RoomKept'
  BY <1>1, <1>5 DEF ContextsReleased, RoomKept
<1>. QED  BY <1>7, <1>8, <1>9, <1>10, <1>11, <1>12 DEF CryptoInv

LEMMA StartStep ==
  ASSUME CryptoInv, Start
  PROVE  CryptoInv'
<1>1. PICK o \in StartOutcomes(KindOf(call.fn), context, call.alg) :
        /\ context' = o.context
        /\ IF o.ok THEN pc' = "update" /\ UNCHANGED <<succeeded, left>>
           ELSE Return(o.context, FALSE)
  BY DEF Start
<1>2. /\ pc = "start" /\ context = NoContext /\ KindOf(call.fn) \in {"hash", "hmac"}
      /\ UNCHANGED <<backend, call, todo, kdf, xor>>
  BY DEF Start, CryptoInv, Steps, KindOf
<1>3. CASE o.ok = FALSE /\ o.context = NoContext
  <2>1. /\ context' = context /\ pc' = "idle" /\ succeeded' = FALSE
        /\ left' = Leaving(NoContext, FALSE)
    BY <1>1, <1>2, <1>3 DEF Return
  <2>. left' = left
    <3>1. {NoContext.parts} \ {{}} = {}
      BY DEF NoContext
    <3>. QED  BY <2>1, <3>1 DEF Leaving
  <2>2. Types' /\ Steps' /\ Contextual' /\ ContextsReleased' /\ RoomKept'
    BY <1>2, <2>1 DEF CryptoInv, Types, Steps, Contextual, ContextsReleased, RoomKept
  <2>3. Deriving' /\ Feeding'
    BY <2>1 DEF Deriving, Feeding
  <2>4. Masking'
    BY <1>2, <2>1 DEF CryptoInv, Masking
  <2>. QED  BY <2>2, <2>3, <2>4 DEF CryptoInv
<1>4. CASE /\ o.ok = TRUE /\ Whole(o.context, KindOf(call.fn))
           /\ o.context \in Contexts /\ o.context.fed = <<>>
  <2>1. /\ context' = o.context /\ pc' = "update" /\ UNCHANGED <<succeeded, left>>
    BY <1>1, <1>4
  <2>2. Types' /\ Steps' /\ ContextsReleased' /\ RoomKept'
    BY <1>2, <1>4, <2>1 DEF CryptoInv, Types, Steps, ContextsReleased, RoomKept
  <2>3. Contextual'
    BY <1>2, <1>4, <2>1 DEF Contextual, Whole
  <2>4. Deriving'
    BY <1>2, <2>1 DEF CryptoInv, Deriving, Blocks, First
  <2>5. context'.fed = context.fed
    BY <1>2, <1>4, <2>1 DEF NoContext
  <2>6. Feeding' /\ Masking'
    BY <1>2, <2>1, <2>5 DEF CryptoInv, Feeding, Masking
  <2>. QED  BY <2>2, <2>3, <2>4, <2>6 DEF CryptoInv
<1>. QED
  <2>1. backend \in Backends
    BY DEF CryptoInv, Types
  <2>. QED  BY <1>2, <1>3, <1>4, <2>1, StartOutcome

LEMMA UpdateStep ==
  ASSUME CryptoInv, Update
  PROVE  CryptoInv'
<1>1. PICK o \in UpdateOutcomes(KindOf(call.fn), context, Head(todo)) :
        /\ context' = o.context
        /\ pc' = IF o.ok THEN "update" ELSE "error"
  BY DEF Update
<1>2. /\ pc = "update" /\ todo # <<>> /\ todo' = Tail(todo)
      /\ UNCHANGED <<backend, call, kdf, xor, succeeded, left>>
      /\ KindOf(call.fn) \in {"hash", "hmac"} /\ Whole(context, KindOf(call.fn))
  BY DEF Update, CryptoInv, Contextual, KindOf
<1>3. /\ backend \in Backends /\ context \in Contexts /\ todo \in Seq(Item)
      /\ Head(todo) \in Item /\ Tail(todo) \in Seq(Item) /\ context.kind = KindOf(call.fn)
  BY <1>2 DEF CryptoInv, Types, Whole
<1>4. \/ o.ok = FALSE /\ o.context = context
      \/ o.ok = TRUE /\ o.context = Fed(context, Head(todo))
  BY <1>2, <1>3, UpdateOutcome
<1>. Append(context.fed, Head(todo)) \in Seq(Item)
  BY <1>3, AppendProperties DEF Contexts
<1>5. /\ Fed(context, Head(todo)) \in Contexts
      /\ Whole(Fed(context, Head(todo)), KindOf(call.fn))
      /\ Fed(context, Head(todo)).fed = Append(context.fed, Head(todo))
  BY <1>2, <1>3 DEF Fed, Contexts, Whole
<1>6. /\ context' \in Contexts /\ Whole(context', KindOf(call.fn))
      /\ pc' \in {"update", "error"}
      /\ pc' = "update" => context' = Fed(context, Head(todo))
  BY <1>1, <1>2, <1>3, <1>4, <1>5
<1>7. Types' /\ Steps' /\ ContextsReleased' /\ RoomKept'
  BY <1>2, <1>3, <1>6 DEF CryptoInv, Types, Steps, ContextsReleased, RoomKept
<1>8. Contextual'
  BY <1>2, <1>6 DEF Contextual, Whole
<1>9. Deriving'
  BY <1>2, <1>6 DEF CryptoInv, Deriving, Blocks, First
<1>10. Feeding'
  <2>1. Append(context.fed, Head(todo)) \o Tail(todo) = context.fed \o todo
    BY <1>2, <1>3, FedOn DEF Contexts
  <2>. QED  BY <1>2, <1>5, <1>6, <2>1 DEF CryptoInv, Feeding
<1>11. Masking'
  BY <1>2, <1>6 DEF CryptoInv, Masking
<1>. QED  BY <1>7, <1>8, <1>9, <1>10, <1>11 DEF CryptoInv

(* What a context that is given up leaves behind. *)
LEMMA LeavingGivenUp ==
  ASSUME Types, ContextsReleased, NEW c \in Contexts, NEW ok \in BOOLEAN,
         \/ c.parts = {}
         \/ backend = "ossl" /\ c.parts = {"key"}
         \/ call.fn \in {"KDFe", "get_name"} /\ ~ok
  PROVE  /\ \A l \in Leaving(c, ok) :
              \/ l.fn \in {"KDFe", "get_name"} /\ ~l.ok
              \/ backend = "ossl" /\ l.parts = {"key"}
              \/ backend = "gcrypt" /\ l.parts = {"cipher"} /\ ~l.ok
         /\ Leaving(c, ok) \subseteq
              [fn : Functions, ok : BOOLEAN, parts : SUBSET {"blob", "library", "key", "cipher"}]
<1>1. \A l \in Leaving(c, ok) :
        l \in left \/ (l = [fn |-> call.fn, ok |-> ok, parts |-> c.parts] /\ c.parts # {})
  BY DEF Leaving
<1>2. call.fn \in Functions
  BY CallFacts DEF Types
<1>3. [fn |-> call.fn, ok |-> ok, parts |-> c.parts] \in
        [fn : Functions, ok : BOOLEAN, parts : SUBSET {"blob", "library", "key", "cipher"}]
  BY <1>2 DEF Contexts
<1>4. \A l \in left :
        \/ l.fn \in {"KDFe", "get_name"} /\ ~l.ok
        \/ backend = "ossl" /\ l.parts = {"key"}
        \/ backend = "gcrypt" /\ l.parts = {"cipher"} /\ ~l.ok
  BY DEF ContextsReleased
<1>5. left \subseteq
        [fn : Functions, ok : BOOLEAN, parts : SUBSET {"blob", "library", "key", "cipher"}]
  BY DEF Types
<1>. QED  BY <1>1, <1>3, <1>4, <1>5

(* The block that is written behind the others. *)
LEMMA WrittenBlock ==
  ASSUME CryptoInv, call.fn \in Derivers, pc = "update", context.fed \in Seq(Item),
         context.fed = Parts(call, kdf.counter),
         NEW k, k = Written(kdf, context.fed, DigestSize[call.alg])
  PROVE  /\ k = [bytes |-> k.bytes, counter |-> k.counter, at |-> k.at, outKey |-> k.outKey]
         /\ k.counter = kdf.counter /\ k.at = kdf.at + DigestSize[call.alg]
         /\ k.bytes = kdf.bytes - DigestSize[call.alg]
         /\ DOMAIN k.outKey = 0..k.at - 1
         /\ \A j \in 0..k.at - 1 :
              k.outKey[j] \in Bytes /\ k.outKey[j] = KeyByte(call, First, j)
<1> DEFINE h == DigestSize[call.alg]
<1>1. /\ h \in {20, 32, 48, 64} /\ kdf.at \in Nat /\ kdf.counter \in Nat /\ kdf.bytes \in Int
      /\ kdf = [bytes |-> kdf.bytes, counter |-> kdf.counter, at |-> kdf.at,
                outKey |-> kdf.outKey]
      /\ DOMAIN kdf.outKey = 0..kdf.at - 1
      /\ \A j \in 0..kdf.at - 1 : kdf.outKey[j] \in Bytes
      /\ xor.counter \in Nat
  BY CallFacts DEF CryptoInv, Types
<1>2. /\ Blocks \in Nat /\ Blocks = kdf.counter - First - 1
      /\ kdf.at = Blocks * h
      /\ \A j \in 0..kdf.at - 1 : kdf.outKey[j] = KeyByte(call, First, j)
  BY DEF CryptoInv, Deriving, Blocks
<1> DEFINE out == [j \in DOMAIN kdf.outKey \cup kdf.at..(kdf.at + h - 1) |->
                    IF j >= kdf.at THEN [block |-> context.fed, offset |-> j - kdf.at]
                    ELSE kdf.outKey[j]]
<1>3. k = [bytes |-> kdf.bytes - h, counter |-> kdf.counter, at |-> kdf.at + h, outKey |-> out]
  BY <1>1 DEF Written
<1>4. DOMAIN kdf.outKey \cup kdf.at..(kdf.at + h - 1) = 0..(kdf.at + h - 1)
  BY <1>1
<1>5. DOMAIN out = 0..(kdf.at + h - 1)
  BY <1>4
<1>6. ASSUME NEW j \in 0..(kdf.at + h - 1)
      PROVE  out[j] \in Bytes /\ out[j] = KeyByte(call, First, j)
  <2>1. CASE j >= kdf.at
    <3>1. out[j] = [block |-> context.fed, offset |-> j - kdf.at]
      BY <1>4, <2>1
    <3>2. j \div h = Blocks /\ j % h = j - kdf.at
      <4>1. h \in {20, 32, 48, 64} /\ Blocks \in Nat /\ kdf.at = Blocks * h
        BY <1>1, <1>2
      <4>2. j \in Int /\ kdf.at <= j /\ j < kdf.at + h
        BY <1>1, <2>1
      <4>. HIDE DEF h
      <4>. QED  BY <4>1, <4>2, PlaceInBlock
    <3>3. First + 1 + j \div h = kdf.counter
      BY <1>1, <1>2, <3>2 DEF First
    <3>4. context.fed = KDFaHmac_parts(call.fn, First + 1 + j \div h, BitLength(call))
      BY <3>3 DEF Parts, Derivers
    <3>5. j - kdf.at \in Nat
      BY <1>1, <2>1
    <3>. QED  BY <3>1, <3>2, <3>4, <3>5 DEF KeyByte, Bytes
  <2>2. CASE ~(j >= kdf.at)
    <3>1. out[j] = kdf.outKey[j] /\ j \in 0..kdf.at - 1
      BY <1>1, <1>4, <2>2
    <3>. QED  BY <1>1, <1>2, <3>1
  <2>. QED  BY <2>1, <2>2
<1>7. k.outKey = out /\ k.at = kdf.at + h
  BY <1>3
<1>8. k.at - 1 = kdf.at + h - 1
  BY <1>1, <1>7
<1>. HIDE DEF out
<1>. QED  BY <1>3, <1>5, <1>6, <1>7, <1>8

LEMMA FinishStep ==
  ASSUME CryptoInv, Finish
  PROVE  CryptoInv'
<1> DEFINE h == DigestSize[call.alg]
<1>1. PICK o \in FinishOutcomes(KindOf(call.fn), context) :
        /\ context' = o.context
        /\ IF ~o.ok /\ call.fn # "get_name"
             THEN pc' = "error" /\ UNCHANGED <<kdf, succeeded, left>>
           ELSE IF call.fn \notin Derivers
             THEN Return(o.context, o.ok) /\ UNCHANGED kdf
           ELSE /\ kdf' = Written(kdf, context.fed, h)
                /\ pc' = "block"
                /\ left' = Leaving(o.context, TRUE)
                /\ UNCHANGED succeeded
  BY DEF Finish
<1>2. /\ pc = "update" /\ todo = <<>> /\ UNCHANGED <<backend, call, todo, xor>>
      /\ KindOf(call.fn) \in {"hash", "hmac"} /\ Whole(context, KindOf(call.fn))
      /\ backend \in Backends /\ context \in Contexts /\ call \in Calls
      /\ call.fn \in Functions /\ backend \in {"ossl", "gcrypt"}
      /\ h \in {20, 32, 48, 64}
  BY CallFacts, CryptoAssumption DEF Finish, CryptoInv, Contextual, KindOf, Types
<1>3. /\ o.ok \in BOOLEAN /\ o.context \in Contexts
      /\ o.ok => GivenUp(o.context)
      /\ ~o.ok => o.context = context \/ (KindOf(call.fn) = "hmac" /\ GivenUp(o.context))
  BY <1>2, FinishOutcome
<1>4. \A c \in Contexts : GivenUp(c) => c.parts = {} \/ (backend = "ossl" /\ c.parts = {"key"})
  <2>1. SUFFICES ASSUME NEW c \in Contexts, GivenUp(c)
                 PROVE  c.parts = {} \/ (backend = "ossl" /\ c.parts = {"key"})
    OBVIOUS
  <2>2. CASE "key" \in c.parts
    BY <2>1, <2>2 DEF GivenUp
  <2>3. CASE "key" \notin c.parts
    BY <2>1, <2>3 DEF GivenUp
  <2>. QED  BY <2>2, <2>3
<1>5. CASE ~o.ok /\ call.fn # "get_name"
  <2>1. pc' = "error" /\ context' = o.context /\ UNCHANGED <<kdf, succeeded, left>>
    BY <1>1, <1>5
  <2>2. Types' /\ Steps' /\ ContextsReleased' /\ RoomKept'
    BY <1>2, <1>3, <2>1 DEF CryptoInv, Types, Steps, ContextsReleased, RoomKept
  <2>3. Contextual'
    <3>1. Whole(context', KindOf(call.fn)) \/ GivenUp(context')
      BY <1>2, <1>3, <1>5, <2>1
    <3>. QED  BY <1>2, <2>1, <3>1 DEF Contextual, Whole, GivenUp
  <2>4. Deriving' /\ Feeding'
    BY <2>1 DEF Deriving, Feeding
  <2>5. Masking'
    BY <1>2, <2>1 DEF CryptoInv, Masking
  <2>. QED  BY <2>2, <2>3, <2>4, <2>5 DEF CryptoInv
<1>6. CASE call.fn \notin Derivers /\ (o.ok \/ call.fn = "get_name")
  <2>1. Return(o.context, o.ok) /\ kdf' = kdf /\ context' = o.context
    BY <1>1, <1>6
  <2>2. pc' = "idle" /\ succeeded' = o.ok /\ left' = Leaving(o.context, o.ok)
    BY <2>1 DEF Return
  <2>3. \/ o.context.parts = {}
        \/ backend = "ossl" /\ o.context.parts = {"key"}
        \/ call.fn \in {"KDFe", "get_name"} /\ ~o.ok
    BY <1>3, <1>4, <1>6
  <2>4. Types' /\ ContextsReleased'
    <3>1. Types /\ ContextsReleased
      BY DEF CryptoInv
    <3>2. /\ \A l \in left' :
              \/ l.fn \in {"KDFe", "get_name"} /\ ~l.ok
              \/ backend = "ossl" /\ l.parts = {"key"}
              \/ backend = "gcrypt" /\ l.parts = {"cipher"} /\ ~l.ok
          /\ left' \subseteq
              [fn : Functions, ok : BOOLEAN, parts : SUBSET {"blob", "library", "key", "cipher"}]
      BY <1>3, <2>2, <2>3, <3>1, LeavingGivenUp
    <3>3. Types'
      BY <1>2, <1>3, <2>1, <2>2, <3>1, <3>2 DEF Types
    <3>. QED  BY <1>2, <3>2, <3>3 DEF ContextsReleased
  <2>5. Steps' /\ Contextual' /\ RoomKept' /\ Deriving' /\ Feeding'
    BY <1>2, <2>1, <2>2
       DEF CryptoInv, Steps, Contextual, RoomKept, Deriving, Feeding
  <2>6. Masking'
    BY <1>2, <1>6 DEF Masking, Derivers
  <2>. QED  BY <2>4, <2>5, <2>6 DEF CryptoInv
<1>7. CASE call.fn \in Derivers /\ o.ok
  <2>1. /\ kdf' = Written(kdf, context.fed, h) /\ pc' = "block" /\ context' = o.context
        /\ left' = Leaving(o.context, TRUE) /\ succeeded' = succeeded
    BY <1>1, <1>7
  <2>2. context.fed = Parts(call, kdf.counter) /\ context.fed \in Seq(Item)
    <3>1. context.fed \o todo = Parts(call, kdf.counter) /\ context.fed \in Seq(Item)
      BY <1>2, <1>7 DEF CryptoInv, Feeding, Contexts
    <3>. QED  BY <1>2, <3>1, ConcatEmptySeq
  <2>3. /\ kdf' = [bytes |-> kdf'.bytes, counter |-> kdf'.counter, at |-> kdf'.at,
                   outKey |-> kdf'.outKey]
        /\ kdf'.counter = kdf.counter /\ kdf'.at = kdf.at + h /\ kdf'.bytes = kdf.bytes - h
        /\ DOMAIN kdf'.outKey = 0..kdf'.at - 1
        /\ \A j \in 0..kdf'.at - 1 :
             kdf'.outKey[j] \in Bytes /\ kdf'.outKey[j] = KeyByte(call, First, j)
    BY <1>2, <1>7, <2>1, <2>2, WrittenBlock
  <2>4. Types' /\ ContextsReleased'
    <3>1. Types /\ ContextsReleased
      BY DEF CryptoInv
    <3>2. o.context.parts = {} \/ (backend = "ossl" /\ o.context.parts = {"key"})
      BY <1>3, <1>4, <1>7
    <3>3. /\ \A l \in left' :
              \/ l.fn \in {"KDFe", "get_name"} /\ ~l.ok
              \/ backend = "ossl" /\ l.parts = {"key"}
              \/ backend = "gcrypt" /\ l.parts = {"cipher"} /\ ~l.ok
          /\ left' \subseteq
              [fn : Functions, ok : BOOLEAN, parts : SUBSET {"blob", "library", "key", "cipher"}]
      BY <1>3, <2>1, <3>1, <3>2, LeavingGivenUp
    <3>4. kdf'.bytes \in Int /\ kdf'.counter \in Nat /\ kdf'.at \in Nat
      <4>1. kdf.bytes \in Int /\ kdf.counter \in Nat /\ kdf.at \in Nat /\ h \in Nat
        BY <1>2, <3>1 DEF Types
      <4>. QED  BY <2>3, <4>1
    <3>5. Types'
      BY <1>2, <1>3, <2>1, <2>3, <3>1, <3>3, <3>4 DEF Types
    <3>. QED  BY <1>2, <3>3, <3>5 DEF ContextsReleased
  <2>5. Steps' /\ Contextual' /\ Feeding'
    BY <1>2, <1>7, <2>1 DEF Steps, Contextual, Feeding
  <2>6. /\ Blocks' = Blocks + 1 /\ First' = First /\ Blocks \in Nat
        /\ kdf.at = Blocks * h /\ kdf.at + kdf.bytes = Total(call) /\ kdf.bytes > 0
        /\ kdf.at \in Nat /\ kdf.bytes \in Int /\ Total(call) \in Nat
    <3>1. /\ xor.counter \in Nat /\ kdf.counter \in Nat /\ kdf.at \in Nat /\ kdf.bytes \in Int
      BY DEF CryptoInv, Types
    <3>2. /\ Blocks \in Nat /\ kdf.at = Blocks * h /\ kdf.at + kdf.bytes = Total(call)
          /\ kdf.bytes > 0
      BY <1>2, <1>7 DEF CryptoInv, Deriving
    <3>3. First' = First /\ First \in Nat
      BY <1>2, <3>1 DEF First
    <3>4. Blocks' = Blocks + 1
      BY <1>2, <2>1, <2>3, <3>1, <3>3 DEF Blocks
    <3>. QED  BY <1>2, <1>7, <3>1, <3>2, <3>3, <3>4, CallFacts
  <2>7. kdf'.at = (Blocks + 1) * h
    <3>1. Blocks \in Int /\ h \in {20, 32, 48, 64}
      BY <1>2, <2>6
    <3>2. (Blocks + 1) * h = Blocks * h + h
      BY <3>1, Multiples
    <3>. QED  BY <2>3, <2>6, <3>2
  <2>8. \A j \in 0..kdf'.at - 1 : kdf'.outKey[j] = KeyByte(call', First', j)
    BY <1>2, <2>3, <2>6
  <2>9. Deriving'
    <3>1. Blocks + 1 \in Nat /\ kdf'.bytes > 0 - h /\ kdf'.at + kdf'.bytes = Total(call)
      <4>1. /\ h \in Int /\ Blocks \in Nat /\ kdf.at \in Int /\ kdf.bytes \in Int
            /\ kdf.at + kdf.bytes = Total(call) /\ kdf.bytes > 0
        BY <1>2, <2>6
      <4>2. kdf'.at = kdf.at + h /\ kdf'.bytes = kdf.bytes - h
        BY <2>3
      <4>. HIDE DEF h
      <4>. QED  BY <4>1, <4>2
    <3>. QED  BY <1>2, <2>1, <2>6, <2>7, <2>8, <3>1 DEF Deriving
  <2>10. RoomKept'
    <3>1. (Blocks + 1) * h < Total(call) + h
      BY <1>2, <2>3, <2>6, <2>7
    <3>2. call \in Calls /\ call.fn \in Derivers /\ Blocks + 1 \in Nat
      BY <1>2, <1>7, <2>6
    <3>3. (Blocks + 1) * h <= Room(call)
      BY <3>1, <3>2, BlocksFit
    <3>4. kdf'.at <= Room(call) /\ Room(call) \in Nat /\ kdf'.at \in Nat
      <4>1. kdf.at + h \in Nat
        BY <1>2, <2>6
      <4>. QED  BY <2>3, <2>7, <3>2, <3>3, <4>1, CallFacts
    <3>. QED  BY <1>2, <2>3, <3>4 DEF RoomKept
  <2>11. Masking'
    BY <1>2, <1>7, <2>1 DEF CryptoInv, Masking
  <2>. QED  BY <2>4, <2>5, <2>9, <2>10, <2>11 DEF CryptoInv
<1>. QED  BY <1>3, <1>5, <1>6, <1>7 DEF Derivers

LEMMA ErrorStep ==
  ASSUME CryptoInv, Error
  PROVE  CryptoInv'
<1>1. /\ pc = "error" /\ pc' = "idle" /\ succeeded' = FALSE
      /\ left' = Leaving(context', FALSE)
      /\ UNCHANGED <<backend, call, todo, kdf, xor>>
  BY DEF Error, Return
<1>2. /\ context' \in Contexts
      /\ \/ context'.parts = {}
         \/ backend = "ossl" /\ context'.parts = {"key"}
         \/ call.fn \in {"KDFe", "get_name"} /\ ~FALSE
  BY ErrorExit DEF CryptoInv
<1>3. Types /\ ContextsReleased
  BY DEF CryptoInv
<1>4. /\ \A l \in left' :
           \/ l.fn \in {"KDFe", "get_name"} /\ ~l.ok
           \/ backend = "ossl" /\ l.parts = {"key"}
           \/ backend = "gcrypt" /\ l.parts = {"cipher"} /\ ~l.ok
      /\ left' \subseteq
           [fn : Functions, ok : BOOLEAN, parts : SUBSET {"blob", "library", "key", "cipher"}]
  BY <1>1, <1>2, <1>3, LeavingGivenUp
<1>5. Types' /\ ContextsReleased'
  <2>1. Types'
    BY <1>1, <1>2, <1>3, <1>4 DEF Types
  <2>. QED  BY <1>1, <1>4, <2>1 DEF ContextsReleased
<1>6. Steps' /\ Contextual' /\ RoomKept' /\ Deriving' /\ Feeding' /\ Masking'
  BY <1>1 DEF CryptoInv, Steps, Contextual, RoomKept, Deriving, Feeding, Masking
<1>. QED  BY <1>5, <1>6 DEF CryptoInv

LEMMA MarshalStep ==
  ASSUME CryptoInv, MarshalFails
  PROVE  CryptoInv'
<1>1. /\ pc = "update" /\ pc' = "error" /\ call.fn = "get_name"
      /\ UNCHANGED <<backend, call, todo, context, kdf, xor, succeeded, left>>
  BY DEF MarshalFails
<1>2. Types' /\ Steps' /\ ContextsReleased' /\ RoomKept'
  BY <1>1 DEF CryptoInv, Types, Steps, ContextsReleased, RoomKept
<1>3. Contextual'
  BY <1>1 DEF CryptoInv, Contextual, Whole, GivenUp
<1>4. Deriving' /\ Feeding' /\ Masking'
  BY <1>1 DEF CryptoInv, Deriving, Feeding, Masking
<1>. QED  BY <1>2, <1>3, <1>4 DEF CryptoInv

LEMMA BlockStep ==
  ASSUME CryptoInv, KDFa_block
  PROVE  CryptoInv'
<1>1. /\ pc = "block" /\ kdf.bytes > 0 /\ kdf' = [kdf EXCEPT !.counter = @ + 1]
      /\ todo' = Parts(call, kdf.counter + 1) /\ context' = NoContext /\ pc' = "start"
      /\ UNCHANGED <<backend, call, xor, succeeded, left>>
  BY DEF KDFa_block
<1>2. /\ call \in Calls /\ call.fn \in Derivers /\ kdf.counter \in Nat
      /\ kdf = [bytes |-> kdf.bytes, counter |-> kdf.counter, at |-> kdf.at,
                outKey |-> kdf.outKey]
      /\ xor.counter \in Nat
  BY <1>1 DEF CryptoInv, Types, Steps
<1>3. kdf' = [bytes |-> kdf.bytes, counter |-> kdf.counter + 1, at |-> kdf.at,
              outKey |-> kdf.outKey]
  BY <1>1, <1>2
<1>4. /\ kdf'.bytes = kdf.bytes /\ kdf'.counter = kdf.counter + 1
      /\ kdf'.at = kdf.at /\ kdf'.outKey = kdf.outKey
  BY <1>3
<1>5. todo' \in Seq(Item) /\ NoContext \in Contexts /\ NoContext.fed \o todo' = todo'
  <2>1. <<>> \in Seq(Item)
    OBVIOUS
  <2>2. todo' \in Seq(Item)
    BY <1>1, <1>2, PartsAreItems
  <2>. QED  BY <2>1, <2>2, ConcatEmptySeq DEF NoContext, Contexts
<1>6. Types' /\ Steps' /\ Contextual' /\ ContextsReleased' /\ RoomKept'
  <2>1. Types'
    <3>1. kdf'.bytes \in Int /\ kdf'.counter \in Nat /\ kdf'.at \in Nat
      BY <1>2, <1>4 DEF CryptoInv, Types
    <3>2. kdf' = [bytes |-> kdf'.bytes, counter |-> kdf'.counter, at |-> kdf'.at,
                  outKey |-> kdf'.outKey]
      BY <1>3, <1>4
    <3>. QED  BY <1>1, <1>4, <1>5, <3>1, <3>2 DEF CryptoInv, Types
  <2>2. Steps' /\ Contextual' /\ ContextsReleased'
    BY <1>1 DEF CryptoInv, Steps, Contextual, ContextsReleased
  <2>3. RoomKept'
    BY <1>1, <1>4 DEF CryptoInv, RoomKept
  <2>. QED  BY <2>1, <2>2, <2>3
<1>7. Deriving'
  <2>1. First' = First /\ First \in Nat
    BY <1>1, <1>2 DEF First
  <2>2. Blocks' = Blocks
    BY <1>1, <1>2, <1>4, <2>1 DEF Blocks
  <2>. QED  BY <1>1, <1>2, <1>4, <2>1, <2>2 DEF CryptoInv, Deriving
<1>8. Feeding'
  BY <1>1, <1>4, <1>5 DEF Feeding
<1>9. Masking'
  BY <1>1, <1>2 DEF CryptoInv, Masking
<1>. QED  BY <1>6, <1>7, <1>8, <1>9 DEF CryptoInv

LEMMA DoneStep ==
  ASSUME CryptoInv, KDFa_done \/ SessionKeyed
  PROVE  CryptoInv'
<1>1. /\ UNCHANGED <<backend, call, todo, context, kdf, xor, left>>
      /\ \/ pc = "block" /\ pc' = "derived" /\ kdf.bytes <= 0 /\ succeeded' = succeeded
         \/ /\ pc = "derived" /\ pc' = "idle" /\ succeeded' = TRUE
            /\ call.fn = "session"
  BY DEF KDFa_done, SessionKeyed
<1>2. Types' /\ Steps' /\ Contextual' /\ ContextsReleased' /\ RoomKept'
  BY <1>1 DEF CryptoInv, Types, Steps, Contextual, ContextsReleased, RoomKept
<1>3. Deriving' /\ Feeding'
  BY <1>1 DEF CryptoInv, Deriving, Feeding, Blocks, First
<1>4. Masking'
  BY <1>1 DEF CryptoInv, Masking
<1>. QED  BY <1>2, <1>3, <1>4 DEF CryptoInv

LEMMA AesStep ==
  ASSUME CryptoInv, SymAes
  PROVE  CryptoInv'
<1>1. PICK o \in (IF backend = "ossl" THEN ossl_sym_aes ELSE gcrypt_sym_aes) :
        Return(o, o.ok)
  BY DEF SymAes
<1>2. /\ pc = "derived" /\ call.fn = "CFB"
      /\ UNCHANGED <<backend, call, todo, context, kdf, xor>>
      /\ pc' = "idle" /\ succeeded' = o.ok /\ left' = Leaving(o, o.ok)
      /\ backend \in {"ossl", "gcrypt"}
  BY <1>1, CryptoAssumption DEF SymAes, Return, CryptoInv, Types
<1>3. /\ o.ok \in BOOLEAN
      /\ \/ o.parts = {}
         \/ backend = "gcrypt" /\ o.parts = {"cipher"} /\ ~o.ok
  <2>1. CASE backend = "ossl"
    BY <1>1, <2>1 DEF ossl_sym_aes
  <2>2. CASE backend = "gcrypt"
    <3>1. CASE o \in {i \in gcrypt_sym_aes_init : ~i.ok}
      <4>1. o \in gcrypt_sym_aes_init /\ ~o.ok
        BY <3>1
      <4>2. \/ o = [ok |-> FALSE, parts |-> {}]
            \/ o = [ok |-> FALSE, parts |-> {"cipher"}]
        BY <4>1 DEF gcrypt_sym_aes_init
      <4>3. \/ o.ok = FALSE /\ o.parts = {}
            \/ o.ok = FALSE /\ o.parts = {"cipher"}
        BY <4>2
      <4>. QED  BY <2>2, <4>3
    <3>2. CASE o \in {[ok |-> FALSE, parts |-> {"cipher"}], [ok |-> TRUE, parts |-> {}]}
      <4>1. \/ o = [ok |-> FALSE, parts |-> {"cipher"}]
            \/ o = [ok |-> TRUE, parts |-> {}]
        BY <3>2
      <4>2. \/ o.ok = FALSE /\ o.parts = {"cipher"}
            \/ o.ok = TRUE /\ o.parts = {}
        BY <4>1
      <4>. QED  BY <2>2, <4>2
    <3>. QED  BY <1>1, <2>2, <3>1, <3>2 DEF gcrypt_sym_aes
  <2>. QED  BY <1>2, <2>1, <2>2
<1>4. \A l \in left' :
        \/ l \in left
        \/ /\ l = [fn |-> call.fn, ok |-> o.ok, parts |-> o.parts]
           /\ backend = "gcrypt" /\ o.parts = {"cipher"} /\ ~o.ok
  BY <1>2, <1>3 DEF Leaving
<1>5. left' \subseteq
        [fn : Functions, ok : BOOLEAN, parts : SUBSET {"blob", "library", "key", "cipher"}]
  <2>1. call.fn \in Functions
    BY CallFacts DEF CryptoInv, Types
  <2>2. [fn |-> call.fn, ok |-> o.ok, parts |-> {"cipher"}] \in
          [fn : Functions, ok : BOOLEAN, parts : SUBSET {"blob", "library", "key", "cipher"}]
    BY <1>3, <2>1
  <2>. QED  BY <1>4, <2>2 DEF CryptoInv, Types
<1>6. ContextsReleased'
  BY <1>2, <1>4 DEF CryptoInv, ContextsReleased
<1>7. Types'
  BY <1>2, <1>3, <1>5 DEF CryptoInv, Types
<1>8. Steps' /\ Contextual' /\ RoomKept' /\ Deriving' /\ Feeding' /\ Masking'
  BY <1>2 DEF CryptoInv, Steps, Contextual, RoomKept, Deriving, Feeding, Masking
<1>. QED  BY <1>6, <1>7, <1>8 DEF CryptoInv

(* When a parameter is masked, one block has been derived from the counter
   that was passed. *)
LEMMA OneBlock ==
  ASSUME CryptoInv, pc = "derived", call.fn = "XOR"
  PROVE  /\ kdf.counter = xor.counter + 1 /\ kdf.at = DigestSize[call.alg]
         /\ \A j \in 0..DigestSize[call.alg] - 1 :
              kdf.outKey[j] \in Bytes /\ kdf.outKey[j] = KeyByte(call, xor.counter, j)
<1> DEFINE h == DigestSize[call.alg]
<1>1. /\ h \in {20, 32, 48, 64} /\ kdf.at \in Nat /\ kdf.bytes \in Int
      /\ kdf.counter \in Nat /\ xor.counter \in Nat
      /\ \A j \in 0..kdf.at - 1 : kdf.outKey[j] \in Bytes
  BY CallFacts DEF CryptoInv, Types
<1>2. /\ Blocks \in Nat /\ kdf.at = Blocks * h /\ kdf.at + kdf.bytes = h
      /\ kdf.bytes > 0 - h /\ kdf.bytes <= 0
      /\ \A j \in 0..kdf.at - 1 : kdf.outKey[j] = KeyByte(call, xor.counter, j)
  BY DEF CryptoInv, Deriving, Total, First, Derivers
<1>3. Blocks = kdf.counter - xor.counter
  BY <1>1 DEF Blocks, First
<1>4. Blocks = 1
  <2>1. Blocks * h >= h /\ Blocks * h < h + h
    <3>1. kdf.at >= h /\ kdf.at < h + h
      BY <1>1, <1>2
    <3>. QED  BY <1>2, <3>1
  <2>. HIDE DEF h
  <2>2. CASE h = 20
    BY <1>2, <2>1, <2>2
  <2>3. CASE h = 32
    BY <1>2, <2>1, <2>3
  <2>4. CASE h = 48
    BY <1>2, <2>1, <2>4
  <2>5. CASE h = 64
    BY <1>2, <2>1, <2>5
  <2>. QED  BY <1>1, <2>2, <2>3, <2>4, <2>5
<1>5. kdf.at = h
  BY <1>1, <1>2, <1>4
<1>6. kdf.counter = xor.counter + 1
  BY <1>1, <1>3, <1>4
<1>. QED  BY <1>1, <1>2, <1>5, <1>6

LEMMA MaskStep ==
  ASSUME CryptoInv, Mask
  PROVE  CryptoInv'
<1> DEFINE h == DigestSize[call.alg]
           n == Need(call)
           key == [j \in 1..n |-> kdf.outKey[j - 1]]
<1>1. /\ pc = "derived" /\ call.fn = "XOR" /\ pc' = "mask"
      /\ xor' = [rest    |-> IF xor.rest < h THEN 0 ELSE xor.rest - h,
                 counter |-> kdf.counter,
                 masks   |-> xor.masks \o key]
      /\ UNCHANGED <<backend, call, todo, context, kdf, succeeded, left>>
  BY DEF Mask, masked_block
<1>2. /\ call \in Calls /\ h \in {20, 32, 48, 64} /\ call.size \in Nat
      /\ xor.rest \in Nat /\ xor.counter \in Nat /\ xor.masks \in Seq(Bytes)
      /\ kdf.counter \in Nat
  BY <1>1, CallFacts DEF CryptoInv, Types
<1>3. /\ kdf.counter = xor.counter + 1
      /\ \A j \in 0..h - 1 :
           kdf.outKey[j] \in Bytes /\ kdf.outKey[j] = KeyByte(call, xor.counter, j)
  BY <1>1, OneBlock
<1>4. n = (IF xor.rest < h THEN xor.rest ELSE h) /\ n \in Nat /\ n <= h
  BY <1>1, <1>2 DEF Need
<1>5. key \in Seq(Bytes) /\ Len(key) = n /\ \A j \in 1..n : key[j] = kdf.outKey[j - 1]
  <2>1. \A j \in 1..n : j - 1 \in 0..h - 1
    BY <1>2, <1>4
  <2>. HIDE DEF n
  <2>2. key \in [1..n -> Bytes] /\ \A j \in 1..n : key[j] = kdf.outKey[j - 1]
    BY <1>3, <2>1
  <2>. HIDE DEF key
  <2>. QED  BY <1>4, <2>2, FunctionIsSeq
<1>6. /\ xor.rest > 0 /\ Len(xor.masks) + xor.rest = call.size
      /\ Len(xor.masks) = xor.counter * h
      /\ \A i \in 1..Len(xor.masks) : xor.masks[i] = KeyByte(call, 0, i - 1)
  BY <1>1 DEF CryptoInv, Masking
<1> DEFINE len == Len(xor.masks)
           masks == xor.masks \o key
<1>7. len \in Nat
  BY <1>2, LenProperties
<1>. HIDE DEF n, key
<1>8. /\ masks \in Seq(Bytes) /\ Len(masks) = len + n
      /\ \A i \in 1..len : masks[i] = xor.masks[i]
      /\ \A i \in (len + 1)..(len + n) : masks[i] = key[i - len]
  <2>1. /\ masks \in Seq(Bytes) /\ Len(masks) = len + n
        /\ \A i \in 1..len + n :
             masks[i] = IF i <= len THEN xor.masks[i] ELSE key[i - len]
    <3>1. xor.masks \in Seq(Bytes) /\ key \in Seq(Bytes) /\ Len(key) = n
      BY <1>2, <1>5
    <3>. QED  BY <3>1, ConcatProperties
  <2>. HIDE DEF masks, len
  <2>2. \A i \in 1..len : i \in 1..len + n /\ i <= len
    BY <1>4, <1>7
  <2>3. \A i \in (len + 1)..(len + n) : i \in 1..len + n /\ ~(i <= len)
    BY <1>4, <1>7
  <2>. QED  BY <2>1, <2>2, <2>3
<1>9. \A i \in 1..Len(masks) : masks[i] = KeyByte(call, 0, i - 1)
  <2>1. SUFFICES ASSUME NEW i \in 1..(len + n)
                 PROVE  masks[i] = KeyByte(call, 0, i - 1)
    BY <1>8
  <2>0. i \in Int /\ 1 <= i /\ i <= len + n /\ h \in Nat
    BY <1>2, <1>4, <1>7
  <2>2. CASE i <= len
    BY <1>6, <1>7, <1>8, <2>0, <2>2
  <2>3. CASE i > len
    <3> DEFINE j == i - len - 1
    <3>1. j \in 0..h - 1 /\ j \in 0..n - 1 /\ i - len \in 1..n
      <4>. HIDE DEF h, len
      <4>. QED  BY <1>4, <1>7, <2>0, <2>3
    <3>2. masks[i] = kdf.outKey[j]
      BY <1>5, <1>7, <1>8, <2>3, <3>1
    <3>3. masks[i] = KeyByte(call, xor.counter, j)
      BY <1>3, <3>1, <3>2
    <3>4. j \div h = 0 /\ j % h = j
      <4>1. 0 * h = 0 /\ j \in Int /\ 0 <= j /\ j < 0 + h
        BY <1>2, <3>1
      <4>. HIDE DEF h, j
      <4>. QED  BY <1>2, <4>1, PlaceInBlock
    <3>5. (i - 1) \div h = xor.counter /\ (i - 1) % h = j
      <4>0. xor.counter \in Nat /\ h \in {20, 32, 48, 64}
        BY <1>2
      <4>1. /\ i - 1 \in Int /\ xor.counter * h <= i - 1 /\ i - 1 < xor.counter * h + h
            /\ j = i - 1 - xor.counter * h
        <5>1. j \in Int /\ 0 <= j /\ j < h /\ len = xor.counter * h /\ j = i - len - 1
          BY <1>2, <1>6, <3>1
        <5>. HIDE DEF h, j, len
        <5>. QED  BY <1>7, <2>0, <5>1
      <4>. HIDE DEF h, j
      <4>2. /\ (i - 1) \div h = xor.counter
            /\ (i - 1) % h = i - 1 - xor.counter * h
        BY <4>0, <4>1, PlaceInBlock
      <4>. QED  BY <4>1, <4>2
    <3>6. xor.counter + 1 + j \div h = 0 + 1 + (i - 1) \div h
      BY <1>2, <3>4, <3>5
    <3>. QED  BY <3>3, <3>4, <3>5, <3>6 DEF KeyByte
  <2>. HIDE DEF masks, len
  <2>4. i <= len \/ i > len
    BY <1>7, <2>0
  <2>. QED  BY <2>2, <2>3, <2>4
<1>10. /\ xor'.masks = masks /\ xor'.counter = kdf.counter
       /\ xor'.rest = (IF xor.rest < h THEN 0 ELSE xor.rest - h)
       /\ xor' = [rest |-> xor'.rest, counter |-> xor'.counter, masks |-> xor'.masks]
  BY <1>1
<1>11. xor'.rest \in Nat
  BY <1>2, <1>10
<1>12. Types' /\ Steps' /\ Contextual' /\ ContextsReleased' /\ RoomKept'
  <2>1. xor' \in [rest : Nat, counter : Nat, masks : Seq(Bytes)]
    BY <1>2, <1>8, <1>10, <1>11
  <2>. QED  BY <1>1, <2>1
            DEF CryptoInv, Types, Steps, Contextual, ContextsReleased, RoomKept
<1>13. Deriving' /\ Feeding'
  BY <1>1 DEF Deriving, Feeding
<1>14. Masking'
  <2>1. Len(masks) + xor'.rest = call.size
    BY <1>2, <1>4, <1>6, <1>7, <1>8, <1>10
  <2>2. xor'.rest > 0 => Len(masks) = xor'.counter * h
    <3>1. (xor.counter + 1) * h = xor.counter * h + h
      BY <1>2, Multiples
    <3>. QED  BY <1>2, <1>3, <1>4, <1>6, <1>8, <1>10, <3>1
  <2>. QED  BY <1>1, <1>9, <1>10, <2>1, <2>2 DEF Masking
<1>. QED  BY <1>12, <1>13, <1>14 DEF CryptoInv

LEMMA NextBlockStep ==
  ASSUME CryptoInv, NextBlock
  PROVE  CryptoInv'
<1>1. /\ pc = "mask" /\ call.fn = "XOR"
      /\ UNCHANGED <<backend, call, todo, context, xor, left>>
  BY DEF NextBlock, CryptoInv, Steps
<1>2. /\ call \in Calls /\ DigestSize[call.alg] \in {20, 32, 48, 64}
      /\ xor.counter \in Nat /\ xor.rest \in Nat
  BY CallFacts DEF CryptoInv, Types
<1>3. CASE xor.rest > 0
  <2>1. /\ kdf' = [bytes |-> DigestSize[call.alg], counter |-> xor.counter, at |-> 0,
                   outKey |-> <<>>]
        /\ pc' = "block" /\ succeeded' = succeeded
    BY <1>3 DEF NextBlock, KDFa_init
  <2>2. /\ kdf'.bytes = DigestSize[call.alg] /\ kdf'.counter = xor.counter /\ kdf'.at = 0
        /\ kdf'.outKey = <<>>
    BY <2>1
  <2>3. DOMAIN kdf'.outKey = {} /\ 0..kdf'.at - 1 = {}
    BY <2>2
  <2>4. Types' /\ Steps' /\ Contextual' /\ ContextsReleased' /\ RoomKept'
    <3>1. Types'
      BY <1>1, <1>2, <2>1, <2>2, <2>3 DEF CryptoInv, Types
    <3>2. Steps' /\ Contextual' /\ ContextsReleased'
      BY <1>1, <2>1 DEF CryptoInv, Steps, Contextual, ContextsReleased, Derivers
    <3>3. RoomKept'
      BY <2>3 DEF RoomKept
    <3>. QED  BY <3>1, <3>2, <3>3
  <2>5. Deriving'
    <3>1. Blocks' = 0
      BY <1>1, <1>2, <2>1, <2>2 DEF Blocks, First
    <3>2. Total(call) = DigestSize[call.alg] /\ 0 * DigestSize[call.alg] = 0
      BY <1>1, <1>2 DEF Total
    <3>. QED  BY <1>1, <1>2, <2>1, <2>2, <2>3, <3>1, <3>2 DEF Deriving
  <2>6. Feeding' /\ Masking'
    BY <1>1, <1>3, <2>1 DEF CryptoInv, Feeding, Masking
  <2>. QED  BY <2>4, <2>5, <2>6 DEF CryptoInv
<1>4. CASE ~(xor.rest > 0)
  <2>1. pc' = "idle" /\ succeeded' = TRUE /\ kdf' = kdf
    BY <1>4 DEF NextBlock
  <2>2. xor.rest = 0
    BY <1>2, <1>4
  <2>3. Types' /\ Steps' /\ Contextual' /\ ContextsReleased' /\ RoomKept'
    BY <1>1, <2>1 DEF CryptoInv, Types, Steps, Contextual, ContextsReleased, RoomKept
  <2>4. Deriving' /\ Feeding' /\ Masking'
    BY <1>1, <2>1, <2>2 DEF CryptoInv, Deriving, Feeding, Masking
  <2>. QED  BY <2>3, <2>4 DEF CryptoInv
<1>. QED  BY <1>3, <1>4
-----------------------------------------------------------------------------
(* The theorems.                                                            *)

LEMMA CryptoInvariant == Spec => []CryptoInv
<1>1. Init => CryptoInv
  <2>1. SUFFICES ASSUME Init PROVE CryptoInv
    OBVIOUS
  <2>2. /\ <<>> \in Seq(Item) /\ <<>> \in Seq(Bytes) /\ Len(<<>>) = 0 /\ DOMAIN <<>> = {}
    OBVIOUS
  <2>3. call \in Calls
    <3>1. "SHA1" \in Algorithms /\ "pHash" \in Functions
      BY DEF Algorithms, DigestSize, Functions
    <3>2. 0 \in Sizes("pHash") /\ {} \in Optional("pHash")
      BY DEF Sizes, Optional
    <3>3. call \in [fn : {"pHash"}, alg : Algorithms, size : Sizes("pHash"),
                    optional : Optional("pHash")]
      BY <2>1, <3>1, <3>2 DEF Init
    <3>. QED  BY <3>1, <3>3 DEF Calls
  <2>4. kdf = [bytes |-> 0, counter |-> 0, at |-> 0, outKey |-> <<>>]
    BY <2>1 DEF Init, NoKdf
  <2>5. Types
    <3>1. xor \in [rest : Nat, counter : Nat, masks : Seq(Bytes)] /\ context \in Contexts
      BY <2>1, <2>2 DEF Init, NoXor, NoContext, Contexts
    <3>2. 0..kdf.at - 1 = {} /\ DOMAIN kdf.outKey = {}
      BY <2>2, <2>4
    <3>3. /\ kdf = [bytes |-> kdf.bytes, counter |-> kdf.counter, at |-> kdf.at,
                    outKey |-> kdf.outKey]
          /\ kdf.bytes = 0 /\ kdf.counter = 0 /\ kdf.at = 0
      BY <2>4
    <3>4. left = {} /\ succeeded = FALSE /\ pc = "idle" /\ todo = <<>> /\ backend \in Backends
      BY <2>1 DEF Init
    <3>5. /\ kdf.bytes \in Int /\ kdf.counter \in Nat /\ kdf.at \in Nat
          /\ DOMAIN kdf.outKey = 0..kdf.at - 1
          /\ \A j \in DOMAIN kdf.outKey : kdf.outKey[j] \in Bytes
      BY <3>2, <3>3
    <3>6. todo \in Seq(Item)
      BY <2>2, <3>4
    <3>. QED  BY <2>3, <3>1, <3>3, <3>4, <3>5, <3>6 DEF Types
  <2>6. /\ Steps /\ Contextual /\ Deriving /\ Feeding /\ Masking /\ ContextsReleased
        /\ RoomKept
    BY <2>1 DEF Init, Steps, Contextual, Deriving, Feeding, Masking, ContextsReleased,
                RoomKept, Derivers
  <2>. QED  BY <2>5, <2>6 DEF CryptoInv
<1>2. CryptoInv /\ [Next]_vars => CryptoInv'
  <2>1. SUFFICES ASSUME CryptoInv, [Next]_vars PROVE CryptoInv'
    OBVIOUS
  <2>2. CASE UNCHANGED vars
    <3>1. /\ Types' /\ Steps' /\ Contextual' /\ ContextsReleased' /\ RoomKept'
      BY <2>1, <2>2 DEF CryptoInv, vars, Types, Steps, Contextual, Whole, GivenUp,
                        ContextsReleased, RoomKept
    <3>2. Deriving' /\ Feeding' /\ Masking'
      BY <2>1, <2>2 DEF CryptoInv, vars, Deriving, Feeding, Masking, Blocks, First
    <3>. QED  BY <3>1, <3>2 DEF CryptoInv
  <2>3. ASSUME NEW c \in Calls, Begin(c) PROVE CryptoInv'
    BY <2>1, <2>3, BeginStep
  <2>4. CASE Start \/ Update \/ MarshalFails \/ Finish \/ Error
    BY <2>1, <2>4, StartStep, UpdateStep, MarshalStep, FinishStep, ErrorStep
  <2>5. CASE KDFa_block \/ KDFa_done \/ SessionKeyed \/ SymAes \/ Mask \/ NextBlock
    BY <2>1, <2>5, BlockStep, DoneStep, AesStep, MaskStep, NextBlockStep
  <2>. QED  BY <2>1, <2>2, <2>3, <2>4, <2>5 DEF Next
<1>. QED  BY <1>1, <1>2, PTL DEF Spec

(* The types: the rest of a parameter under XOR never wraps below zero, and every
   byte of a derived key and of a mask is one of an HMAC over whole parts. *)
THEOREM TypeCorrect == Spec => []TypeOK
<1>1. CryptoInv => TypeOK
  BY DEF CryptoInv, Types, TypeOK, Contexts
<1>. QED  BY <1>1, CryptoInvariant, PTL

(* Whatever call of the library fails, no context is used that was freed, was
   never made or is of the other kind (IESYS_CONTEXT of the backends). *)
THEOREM ContextsValid == Spec => []ContextValid
<1>1. CryptoInv => ContextValid
  BY DEF CryptoInv, Contextual, Whole, GivenUp, ContextValid
<1>. QED  BY <1>1, CryptoInvariant, PTL

(* However a computation ends, what it leaves allocated is one of the four leaks
   that ContextsReleased names. *)
THEOREM ContextsAreReleased == Spec => []ContextsReleased
<1>1. CryptoInv => ContextsReleased
  BY DEF CryptoInv
<1>. QED  BY <1>1, CryptoInvariant, PTL

(* The whole blocks iesys_crypto_KDFa writes stay within the buffer of each of
   its callers. *)
THEOREM RoomIsKept == Spec => []RoomKept
<1>1. CryptoInv => RoomKept
  BY DEF CryptoInv
<1>. QED  BY <1>1, CryptoInvariant, PTL

(* Every byte read of a derived key is that of its place in counter mode. *)
THEOREM DerivedBytesAreRead == Spec => []DerivedIsRead
<1>1. ASSUME CryptoInv PROVE DerivedIsRead
  <2>1. SUFFICES ASSUME pc = "derived", NEW j \in 0..Need(call) - 1
                 PROVE  j \in DOMAIN kdf.outKey /\ kdf.outKey[j] = KeyByte(call, First, j)
    BY DEF DerivedIsRead, KeyByte, First
  <2>2. call.fn \in Derivers /\ Types
    BY <1>1, <2>1 DEF CryptoInv, Steps
  <2>3. Need(call) \in Nat /\ Need(call) <= Total(call) /\ Total(call) \in Nat
    BY <2>2, NeedIsWritten, CallFacts DEF Types
  <2>4. kdf.at + kdf.bytes = Total(call) /\ kdf.bytes <= 0 /\ kdf.at \in Nat /\ kdf.bytes \in Int
    BY <1>1, <2>1, <2>2 DEF CryptoInv, Deriving, Types
  <2>5. j \in 0..kdf.at - 1
    BY <2>3, <2>4
  <2>. QED  BY <1>1, <2>1, <2>2, <2>5 DEF CryptoInv, Deriving, Types
<1>. QED  BY <1>1, CryptoInvariant, PTL

(* An obfuscated parameter is masked once in every byte, and two bytes never
   with the same byte of the derived masks. *)
THEOREM ParametersAreMaskedOnce == Spec => []MaskedOnce
<1>1. ASSUME CryptoInv PROVE MaskedOnce
  <2>1. SUFFICES ASSUME call.fn = "XOR", pc = "idle", succeeded
                 PROVE  /\ Len(xor.masks) = call.size
                        /\ \A i, j \in 1..call.size : xor.masks[i] = xor.masks[j] => i = j
    BY DEF MaskedOnce
  <2>2. /\ call \in Calls /\ DigestSize[call.alg] \in {20, 32, 48, 64} /\ call.size \in Nat
        /\ xor.masks \in Seq(Bytes)
    BY <1>1, <2>1, CallFacts DEF CryptoInv, Types
  <2>3. /\ Len(xor.masks) = call.size
        /\ \A i \in 1..call.size : xor.masks[i] = KeyByte(call, 0, i - 1)
    <3>1. /\ Len(xor.masks) + xor.rest = call.size /\ xor.rest = 0
          /\ \A i \in 1..Len(xor.masks) : xor.masks[i] = KeyByte(call, 0, i - 1)
      BY <1>1, <2>1 DEF CryptoInv, Masking
    <3>. QED  BY <2>2, <3>1, LenProperties
  <2>4. ASSUME NEW i \in 1..call.size, NEW j \in 1..call.size,
               xor.masks[i] = xor.masks[j]
        PROVE  i = j
    <3> DEFINE h == DigestSize[call.alg]
    <3>1. KeyByte(call, 0, i - 1) = KeyByte(call, 0, j - 1)
      BY <2>3, <2>4
    <3>2. (i - 1) % h = (j - 1) % h
      BY <3>1 DEF KeyByte
    <3>3. 0 + 1 + (i - 1) \div h = 0 + 1 + (j - 1) \div h
      BY <3>1 DEF KeyByte, KDFaHmac_parts, Number
    <3>4. i - 1 \in Nat /\ j - 1 \in Nat /\ h \in {20, 32, 48, 64}
      BY <2>2
    <3>. HIDE DEF h
    <3>5. /\ (i - 1) \div h \in Nat /\ i - 1 = h * ((i - 1) \div h) + ((i - 1) % h)
          /\ (j - 1) \div h \in Nat /\ j - 1 = h * ((j - 1) \div h) + ((j - 1) % h)
      BY <3>4, BlockAndOffset
    <3>6. (i - 1) \div h = (j - 1) \div h
      BY <3>3, <3>5
    <3>7. i - 1 = j - 1
      BY <3>2, <3>5, <3>6
    <3>. QED  BY <3>4, <3>7
  <2>. QED  BY <2>3, <2>4
<1>. QED  BY <1>1, CryptoInvariant, PTL
=============================================================================
