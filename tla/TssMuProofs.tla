---------------------------- MODULE TssMuProofs ----------------------------
(***************************************************************************)
(* Facts about marshalling and unmarshalling, for buffers of any size and  *)
(* cells of any kind: what is written and read, and what is left alone.    *)
(***************************************************************************)
EXTENDS TssMu, SequenceTheorems, TLAPS

Buffers(S, size) == [0 .. size - 1 -> S]
Cursors(S, size) ==
  [buffer : Buffers(S, size), offset : 0..size, ok : BOOLEAN, read : Seq(S)]

(* The cells lie in the buffer from an offset on. *)
Placed(buffer, offset, cells) ==
  \A i \in 1..Len(cells) : buffer[offset + i - 1] = cells[i]
-----------------------------------------------------------------------------
(* A function on 1..n is a sequence of length n. *)
LEMMA FunctionIsSeq ==
  ASSUME NEW S, NEW n \in Nat, NEW f \in [1..n -> S]
  PROVE  f \in Seq(S) /\ Len(f) = n
OBVIOUS

(* memcpy within the buffer: what is written is there, all else stays. *)
LEMMA WrittenFacts ==
  ASSUME NEW S, NEW size \in Nat, NEW buffer \in Buffers(S, size),
         NEW offset \in Nat, NEW cells \in Seq(S)
  PROVE  /\ Written(buffer, offset, cells) \in Buffers(S, size)
         /\ \A i \in 0 .. size - 1 : i \notin offset .. (offset + Len(cells) - 1) =>
              Written(buffer, offset, cells)[i] = buffer[i]
         /\ offset + Len(cells) <= size => Placed(Written(buffer, offset, cells), offset, cells)
<1>1. \A i \in 0 .. size - 1 : Written(buffer, offset, cells)[i] =
        IF i \in offset .. (offset + Len(cells) - 1) THEN cells[i - offset + 1] ELSE buffer[i]
  BY DEF Written, Buffers
<1>2. Written(buffer, offset, cells) \in Buffers(S, size)
  BY DEF Written, Buffers
<1>3. ASSUME offset + Len(cells) <= size, NEW i \in 1..Len(cells)
      PROVE  Written(buffer, offset, cells)[offset + i - 1] = cells[i]
  <2>1. offset + i - 1 \in 0 .. size - 1 /\ (offset + i - 1) - offset + 1 = i
    BY <1>3
  <2>. QED  BY <1>1, <1>3, <2>1
<1>. QED  BY <1>1, <1>2, <1>3 DEF Placed

(* A slice of the buffer is the sequence of its cells. *)
LEMMA SliceFacts ==
  ASSUME NEW S, NEW size \in Nat, NEW buffer \in Buffers(S, size),
         NEW offset \in Nat, NEW n \in Nat, offset + n <= size
  PROVE  /\ Slice(buffer, offset, n) \in Seq(S) /\ Len(Slice(buffer, offset, n)) = n
         /\ \A i \in 1..n : Slice(buffer, offset, n)[i] = buffer[offset + i - 1]
<1>1. Slice(buffer, offset, n) \in [1..n -> S]
  BY DEF Slice, Buffers
<1>2. \A i \in 1..n : Slice(buffer, offset, n)[i] = buffer[offset + i - 1]
  BY DEF Slice
<1>. QED  BY <1>1, <1>2, FunctionIsSeq

(* A slice is what has been placed there. *)
LEMMA SlicePlaced ==
  ASSUME NEW S, NEW size \in Nat, NEW buffer \in Buffers(S, size),
         NEW offset \in Nat, NEW cells \in Seq(S), offset + Len(cells) <= size,
         Placed(buffer, offset, cells)
  PROVE  Slice(buffer, offset, Len(cells)) = cells
<1>1. /\ Slice(buffer, offset, Len(cells)) \in Seq(S)
      /\ Len(Slice(buffer, offset, Len(cells))) = Len(cells)
      /\ \A i \in 1..Len(cells) :
           Slice(buffer, offset, Len(cells))[i] = buffer[offset + i - 1]
  BY SliceFacts
<1>. QED  BY <1>1, SeqEqual DEF Placed
-----------------------------------------------------------------------------
(* What marshalling promises: it writes from the offset on and within the
   room, and when it succeeds it has written everything. *)
Marshals(S, size, cursor, cells, result) ==
  /\ result \in Cursors(S, size)
  /\ cursor.offset <= result.offset
  /\ \A i \in 0 .. cursor.offset - 1 : result.buffer[i] = cursor.buffer[i]
  /\ result.ok => /\ cursor.ok
                  /\ result.offset = cursor.offset + Len(cells)
                  /\ Placed(result.buffer, cursor.offset, cells)

(* A base type or a plain TPM2B. *)
THEOREM MarshalKeepsPromise ==
  ASSUME NEW S, NEW size \in Nat, NEW cursor \in Cursors(S, size), NEW cells \in Seq(S)
  PROVE  Marshals(S, size, cursor, cells, Marshal(cursor, size, cells))
<1> DEFINE result == Marshal(cursor, size, cells)
<1>1. CASE cursor.ok /\ cursor.offset + Len(cells) <= size
  <2>1. /\ result.buffer = Written(cursor.buffer, cursor.offset, cells)
        /\ result.offset = cursor.offset + Len(cells)
        /\ result.ok = cursor.ok /\ result.read = cursor.read
        /\ result = [buffer |-> result.buffer, offset |-> result.offset,
                     ok |-> result.ok, read |-> result.read]
    BY <1>1 DEF Marshal, Cursors
  <2>2. /\ result.buffer \in Buffers(S, size)
        /\ \A i \in 0 .. size - 1 :
             i \notin cursor.offset .. (cursor.offset + Len(cells) - 1) =>
               result.buffer[i] = cursor.buffer[i]
        /\ Placed(result.buffer, cursor.offset, cells)
    BY <1>1, <2>1, WrittenFacts DEF Cursors
  <2>3. result.offset \in 0..size /\ cursor.offset <= result.offset
    BY <1>1, <2>1 DEF Cursors
  <2>4. result \in Cursors(S, size)
    BY <2>1, <2>2, <2>3 DEF Cursors
  <2>5. \A i \in 0 .. cursor.offset - 1 : result.buffer[i] = cursor.buffer[i]
    BY <2>2 DEF Cursors
  <2>. QED  BY <2>1, <2>2, <2>3, <2>4, <2>5 DEF Marshals
<1>2. CASE ~(cursor.ok /\ cursor.offset + Len(cells) <= size)
  <2>1. /\ result.buffer = cursor.buffer /\ result.offset = cursor.offset
        /\ result.ok = FALSE /\ result \in Cursors(S, size)
    BY <1>2 DEF Marshal, Failed, Cursors
  <2>. QED  BY <2>1 DEF Marshals, Cursors
<1>. QED  BY <1>1, <1>2

(* A row of base types, of which a part may have been written on failure. *)
THEOREM MarshalEachKeepsPromise ==
  ASSUME NEW S, NEW size \in Nat, NEW cursor \in Cursors(S, size), NEW cells \in Seq(S)
  PROVE  Marshals(S, size, cursor, cells, MarshalEach(cursor, size, cells))
<1> DEFINE room == IF cursor.offset > size THEN 0 ELSE size - cursor.offset
           part == Marshal(cursor, size, SubSeq(cells, 1, room))
<1>1. CASE ~cursor.ok \/ Len(cells) <= room
  BY <1>1, MarshalKeepsPromise DEF MarshalEach
<1>2. CASE ~(~cursor.ok \/ Len(cells) <= room)
  <2>1. room \in Nat /\ room < Len(cells)
    BY <1>2 DEF Cursors
  <2>2. SubSeq(cells, 1, room) \in Seq(S)
    BY <2>1, SubSeqProperties
  <2>3. Marshals(S, size, cursor, SubSeq(cells, 1, room), part)
    BY <2>2, MarshalKeepsPromise
  <2>4. MarshalEach(cursor, size, cells) = Failed(part)
    BY <1>2 DEF MarshalEach
  <2>5. /\ Failed(part).buffer = part.buffer /\ Failed(part).offset = part.offset
        /\ Failed(part).ok = FALSE /\ Failed(part) \in Cursors(S, size)
    BY <2>3 DEF Failed, Marshals, Cursors
  <2>. QED  BY <2>3, <2>4, <2>5 DEF Marshals
<1>. QED  BY <1>1, <1>2

(* A structure behind its size. *)
THEOREM MarshalNestedKeepsPromise ==
  ASSUME NEW S, NEW size \in Nat, NEW cursor \in Cursors(S, size), NEW cells \in Seq(S)
  PROVE  Marshals(S, size, cursor, cells, MarshalNested(cursor, size, cells))
<1> DEFINE part == MarshalEach(cursor, size, cells)
<1>1. Marshals(S, size, cursor, cells, part)
  BY MarshalEachKeepsPromise
<1> HIDE DEF part
<1>2. CASE part.ok
  BY <1>1, <1>2 DEF MarshalNested, part
<1>3. CASE ~part.ok
  <2> DEFINE back == [part EXCEPT !.offset = cursor.offset]
  <2>1. /\ back \in Cursors(S, size) /\ back.ok = part.ok
        /\ back.buffer = part.buffer /\ back.offset = cursor.offset
    BY <1>1 DEF Marshals, Cursors
  <2>2. cursor.offset <= back.offset
    BY <2>1 DEF Cursors
  <2>3. MarshalNested(cursor, size, cells) = back
    BY <1>3 DEF MarshalNested, part
  <2> HIDE DEF back
  <2>. QED  BY <1>1, <1>3, <2>1, <2>2, <2>3 DEF Marshals
<1>. QED  BY <1>2, <1>3
-----------------------------------------------------------------------------
Readers(S, size) ==
  [buffer : Buffers(S, size), offset : Nat, ok : BOOLEAN, read : Seq(S)]

(* What unmarshalling promises: it leaves the buffer alone and does not go
   beyond its end. *)
Unmarshals(S, size, cursor, result) ==
  /\ result \in Readers(S, size) /\ result.buffer = cursor.buffer
  /\ result.offset <= size \/ result.offset = cursor.offset

LEMMA TakeFacts ==
  ASSUME NEW S, NEW size \in Nat, NEW cursor \in Readers(S, size), NEW n \in Nat,
         cursor.offset + n <= size
  PROVE  Unmarshals(S, size, cursor, Take(cursor, n))
<1> DEFINE result == Take(cursor, n)
           cells  == Slice(cursor.buffer, cursor.offset, n)
<1>1. cells \in Seq(S)
  BY SliceFacts DEF Readers
<1>2. cursor.read \o cells \in Seq(S)
  BY <1>1, ConcatProperties DEF Readers
<1>3. /\ result.buffer = cursor.buffer /\ result.offset = cursor.offset + n
      /\ result.ok = cursor.ok /\ result.read = cursor.read \o cells
      /\ result = [buffer |-> result.buffer, offset |-> result.offset,
                   ok |-> result.ok, read |-> result.read]
  <2> DEFINE more == cursor.read \o cells
  <2>1. result = [cursor EXCEPT !.offset = cursor.offset + n, !.read = more]
    BY DEF Take
  <2> HIDE DEF result, more, cells
  <2>2. /\ result.buffer = cursor.buffer /\ result.offset = cursor.offset + n
        /\ result.ok = cursor.ok /\ result.read = more
        /\ result = [buffer |-> result.buffer, offset |-> result.offset,
                     ok |-> result.ok, read |-> result.read]
    BY <2>1 DEF Readers
  <2>. QED  BY <2>2 DEF more
<1>4. cursor.offset + n \in Nat
  BY DEF Readers
<1> HIDE DEF cells, result
<1>5. result \in Readers(S, size)
  BY <1>2, <1>3, <1>4 DEF Readers
<1> USE DEF result
<1>. QED  BY <1>3, <1>5 DEF Unmarshals

LEMMA FailedFacts ==
  ASSUME NEW S, NEW size \in Nat, NEW cursor \in Readers(S, size)
  PROVE  Unmarshals(S, size, cursor, Failed(cursor))
<1>1. /\ Failed(cursor).buffer = cursor.buffer /\ Failed(cursor).offset = cursor.offset
      /\ Failed(cursor) \in Readers(S, size)
  BY DEF Failed, Readers
<1>. QED  BY <1>1 DEF Unmarshals

(* A row of base types, a sized buffer and a structure behind its size, whatever
   is in the buffer and wherever it is wanted. *)
THEOREM UnmarshalKeepsPromise ==
  ASSUME NEW S, NEW size \in Nat, NEW cursor \in Readers(S, size), NEW n \in Nat,
         \A cell \in S : cell.value \in Nat, NEW dest
  PROVE  /\ Unmarshals(S, size, cursor, Unmarshal(cursor, size, n))
         /\ Unmarshals(S, size, cursor, UnmarshalSized(cursor, size, dest))
         /\ Unmarshals(S, size, cursor, UnmarshalNested(cursor, size, dest))
<1>1. Unmarshals(S, size, cursor, Unmarshal(cursor, size, n))
  BY TakeFacts, FailedFacts DEF Unmarshal
<1> DEFINE length == cursor.buffer[cursor.offset].value
<1>2. ASSUME HoldsSized(cursor, size, dest)
      PROVE  length \in Nat /\ cursor.offset + 1 <= size /\ cursor.offset + (1 + length) <= size
  <2>1. cursor.offset \in 0 .. size - 1 /\ cursor.buffer \in [0 .. size - 1 -> S]
    BY <1>2 DEF HoldsSized, Readers, Buffers
  <2>2. cursor.buffer[cursor.offset] \in S
    BY <2>1
  <2>3. length \in Nat
    BY <2>2
  <2>. QED  BY <1>2, <2>1, <2>3 DEF HoldsSized
<1>3. Unmarshals(S, size, cursor, UnmarshalSized(cursor, size, dest))
  <2>1. CASE HoldsSized(cursor, size, dest)
    <3>1. 1 + length \in Nat
      BY <1>2, <2>1
    <3>2. Unmarshals(S, size, cursor, Take(cursor, 1 + length))
      BY <1>2, <2>1, <3>1, TakeFacts
    <3>. QED  BY <2>1, <3>2 DEF UnmarshalSized
  <2>2. CASE ~HoldsSized(cursor, size, dest)
    BY <2>2, FailedFacts DEF UnmarshalSized
  <2>. QED  BY <2>1, <2>2
<1>4. Unmarshals(S, size, cursor, UnmarshalNested(cursor, size, dest))
  <2>1. CASE UnmarshalNested(cursor, size, dest) = UnmarshalSized(cursor, size, dest)
    BY <1>3, <2>1
  <2>2. CASE HoldsSized(cursor, size, dest) /\ UnmarshalNested(cursor, size, dest) = Take(cursor, 1)
    BY <1>2, <2>2, TakeFacts
  <2>3. CASE UnmarshalNested(cursor, size, dest) = Failed(cursor)
    BY <2>3, FailedFacts
  <2>. QED  BY <2>1, <2>2, <2>3 DEF UnmarshalNested
<1>. QED  BY <1>1, <1>3, <1>4
=============================================================================
