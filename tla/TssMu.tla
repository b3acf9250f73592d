------------------------------- MODULE TssMu -------------------------------
(***************************************************************************)
(* The marshalling library, on buffers of cells.  A cell stands for a base *)
(* type, a size field, or a unit of the contents of a sized buffer; a      *)
(* buffer is a function from the offsets 0 .. size - 1 to cells.           *)
(***************************************************************************)
EXTENDS Integers, Sequences

Cell(kind, value) == [kind |-> kind, value |-> value]
SizeField(n)      == Cell("size", n)

Plain   == 1   \* contents in clear,
Cipher  == 2   \* encrypted by a session,
Foreign == 3   \* of a structure the library has no unmarshaller for
Contents(n, what) == [i \in 1..n |-> Cell("unit", what)]
Sized(n, what)    == <<SizeField(n)>> \o Contents(n, what)

(* memcpy and memmove of cells to an offset of the buffer. *)
Written(buffer, offset, cells) ==
  [i \in DOMAIN buffer |->
     IF i \in offset .. (offset + Len(cells) - 1) THEN cells[i - offset + 1]
                                                  ELSE buffer[i]]
(* The n cells of the buffer from an offset on. *)
Slice(buffer, offset, n) == [i \in 1..n |-> buffer[offset + i - 1]]

(* What a caller passes from one call to the next: the buffer, the offset,
   whether every call so far has succeeded, and the cells read so far. *)
Cursor(buffer, offset) ==
  [buffer |-> buffer, offset |-> offset, ok |-> TRUE, read |-> <<>>]
Failed(cursor) == [cursor EXCEPT !.ok = FALSE]
-----------------------------------------------------------------------------
(* Marshalling into a buffer of a size.                                     *)

(* Mutant: the room left is not looked at, and the write runs past the end. *)
Marshal_Unchecked(cursor, size, cells) ==
  LET end    == cursor.offset + Len(cells)
      beyond == [i \in DOMAIN cursor.buffer \union cursor.offset .. (end - 1) |->
                   IF i \in DOMAIN cursor.buffer THEN cursor.buffer[i]
                                                ELSE SizeField(0)]
  IN  [cursor EXCEPT !.buffer = Written(beyond, cursor.offset, cells), !.offset = end]
(* A base type or a plain TPM2B is written as a whole, or not at all. *)
Marshal(cursor, size, cells) ==
  IF cursor.ok /\ cursor.offset + Len(cells) <= size
  THEN [cursor EXCEPT !.buffer = Written(@, cursor.offset, cells),
                      !.offset = @ + Len(cells)]
  ELSE Failed(cursor)

(* A row of base types is written up to the first for which there is no room. *)
MarshalEach(cursor, size, cells) ==
  LET room == IF cursor.offset > size THEN 0 ELSE size - cursor.offset
  IN  IF ~cursor.ok \/ Len(cells) <= room THEN Marshal(cursor, size, cells)
      ELSE Failed(Marshal(cursor, size, SubSeq(cells, 1, room)))

(* A TPM2B around a structure: on failure its size field and members stay in the
   buffer, behind an offset that has not moved. *)
MarshalNested(cursor, size, cells) ==
  LET part == MarshalEach(cursor, size, cells)
  IN  IF part.ok THEN part ELSE [part EXCEPT !.offset = cursor.offset]
-----------------------------------------------------------------------------
(* Unmarshalling from a buffer of a size.                                   *)

Take(cursor, n) == [cursor EXCEPT !.offset = @ + n,
                                  !.read = @ \o Slice(cursor.buffer, cursor.offset, n)]

Unmarshal(cursor, size, n) ==
  IF cursor.ok /\ cursor.offset + n <= size THEN Take(cursor, n) ELSE Failed(cursor)

(* Where the caller wants a sized buffer: its type has room for so much, and its
   field "size" says so much beforehand. *)
Destination(said, room) == [size |-> said, room |-> room]

(* The announced size must exceed neither what is left of the buffer nor the
   room of the destination. *)
HoldsSized(cursor, size, dest) ==
  /\ cursor.ok /\ cursor.offset < size
  /\ cursor.offset + 1 + cursor.buffer[cursor.offset].value <= size
  /\ cursor.buffer[cursor.offset].value <= dest.room

UnmarshalSized(cursor, size, dest) ==
  IF HoldsSized(cursor, size, dest)
  THEN Take(cursor, 1 + cursor.buffer[cursor.offset].value) ELSE Failed(cursor)

(* A structure is not unmarshalled over one that is there already.  The result
   of unmarshalling its members is not looked at: when that failed, the call
   succeeds with the offset behind the size field. *)
UnmarshalNested(cursor, size, dest) ==
  LET whole == UnmarshalSized(cursor, size, dest)
  IN  IF dest.size # 0 THEN Failed(cursor)
      ELSE IF HoldsSized(cursor, size, dest) /\ Cell("unit", Foreign) \in
                {whole.read[i] : i \in DOMAIN whole.read}
      THEN Take(cursor, 1) ELSE whole
=============================================================================
