-------------------------- MODULE SysContextProofs --------------------------
(***************************************************************************)
(* Proofs about SysContext, for every set of commands, every size of the   *)
(* buffer and of the parameters, and any number of authorisations.         *)
(***************************************************************************)
EXTENDS SysContext, TssMuProofs

(* What the parts of a packet are and how long they are. *)
LEMMA CellTypes ==
  /\ Value \in Cells
  /\ \A n \in Nat : Tag(n) \in Cells /\ SizeField(n) \in Cells /\ Code(n) \in Cells
BY DEF Value, Tag, SizeField, Code, Cell, Cells

LEMMA HandlesFacts ==
  ASSUME NEW n \in Nat
  PROVE  Handles(n) \in Seq(Cells) /\ Len(Handles(n)) = n
<1>1. Handles(n) \in [1..n -> Cells]
  BY DEF Handles, Cell, Cells
<1>. QED  BY <1>1, FunctionIsSeq

LEMMA AreaFacts ==
  ASSUME NEW n \in Nat
  PROVE  Area(n) \in Seq(Cells) /\ Len(Area(n)) = IF n = 0 THEN 0 ELSE n + 1
<1>1. Auths(n) \in [1..n -> Cells]
  BY DEF Auths, Cell, Cells
<1>2. Auths(n) \in Seq(Cells) /\ Len(Auths(n)) = n
  BY <1>1, FunctionIsSeq
<1>3. <<SizeField(n)>> \in Seq(Cells) /\ Len(<<SizeField(n)>>) = 1
  BY CellTypes
<1>4. CASE n = 0
  BY <1>4, EmptySeq DEF Area
<1>5. CASE n # 0
  BY <1>2, <1>3, <1>5, ConcatProperties DEF Area
<1>. QED  BY <1>4, <1>5

LEMMA SizedFacts ==
  ASSUME NEW n \in Nat, NEW what \in {Plain, Cipher, Foreign}
  PROVE  /\ Contents(n, what) \in Seq(Cells) /\ Len(Contents(n, what)) = n
         /\ Sized(n, what) \in Seq(Cells) /\ Len(Sized(n, what)) = n + 1
         /\ Sized(n, what)[1] = SizeField(n)
<1>1. Contents(n, what) \in [1..n -> Cells]
  BY DEF Contents, Cell, Cells, Plain, Cipher, Foreign
<1>2. Contents(n, what) \in Seq(Cells) /\ Len(Contents(n, what)) = n
  BY <1>1, FunctionIsSeq
<1>3. /\ <<SizeField(n)>> \in Seq(Cells) /\ Len(<<SizeField(n)>>) = 1
      /\ <<SizeField(n)>>[1] = SizeField(n)
  BY CellTypes
<1>. QED  BY <1>2, <1>3, ConcatProperties DEF Sized

LEMMA RestFacts ==
  ASSUME NEW c \in AllCommands
  PROVE  /\ Rest(c) \in Seq(Cells) /\ Len(Rest(c)) = IF c.more THEN 1 ELSE 0
         /\ c.more => Rest(c)[1] = Value
BY CellTypes, EmptySeq DEF Rest

LEMMA FirstFacts ==
  ASSUME NEW c \in AllCommands, NEW n \in Nat
  PROVE  /\ First(c, n) \in Seq(Cells)
         /\ c.param \in {"lax", "optional"} => First(c, n) = Sized(n, Plain)
<1>1. c.param \in {"none", "plain", "lax", "optional"}
  BY CommandsAssumption
<1>2. Sized(n, Plain) \in Seq(Cells)
  BY SizedFacts
<1>. QED  BY <1>1, <1>2, CellTypes, EmptySeq DEF First

LEMMA ResultsFacts ==
  ASSUME NEW c \in AllCommands, NEW n \in Nat, NEW what \in {Plain, Cipher, Foreign}
  PROVE  Results(c, n, what) \in Seq(Cells)
<1>1. Sized(n, what) \in Seq(Cells)
  BY SizedFacts
<1>. QED  BY <1>1, CellTypes, EmptySeq, CommandsAssumption DEF Results
-----------------------------------------------------------------------------
(* Where the parts of a packet lie in it. *)
IsPacket(p, tag, code, handles, rest) ==
  /\ p \in Seq(Cells) /\ Len(p) = HeaderSize + Len(handles) + Len(rest)
  /\ p[1] = Tag(tag) /\ p[2] = SizeField(HeaderSize + Len(handles) + Len(rest))
  /\ p[3] = Code(code)
  /\ \A i \in 1..Len(handles) : p[HeaderSize + i] = handles[i]
  /\ \A i \in 1..Len(rest) : p[HeaderSize + Len(handles) + i] = rest[i]

(* They lie so in a packet that is put together. *)
LEMMA PacketFacts ==
  ASSUME NEW tag, NEW code, Tag(tag) \in Cells, Code(code) \in Cells,
         NEW handles \in Seq(Cells), NEW rest \in Seq(Cells)
  PROVE  IsPacket(Packet(tag, code, handles, rest), tag, code, handles, rest)
<1> DEFINE total == HeaderSize + Len(handles) + Len(rest)
           head  == <<Tag(tag), SizeField(total), Code(code)>>
           p     == Packet(tag, code, handles, rest)
<1>1. /\ head \in Seq(Cells) /\ Len(head) = HeaderSize
      /\ head[1] = Tag(tag) /\ head[2] = SizeField(total) /\ head[3] = Code(code)
  <2>1. total \in Nat
    BY DEF HeaderSize
  <2>2. Tag(tag) \in Cells /\ SizeField(total) \in Cells /\ Code(code) \in Cells
    BY <2>1, CellTypes
  <2>. QED  BY <2>2 DEF HeaderSize
<1>2. /\ head \o handles \in Seq(Cells) /\ Len(head \o handles) = HeaderSize + Len(handles)
      /\ \A i \in 1 .. HeaderSize + Len(handles) :
           (head \o handles)[i] = IF i <= HeaderSize THEN head[i] ELSE handles[i - HeaderSize]
  <2> HIDE DEF head
  <2>. QED  BY <1>1, ConcatProperties
<1>3. p = head \o handles \o rest
  BY DEF Packet
<1>4. /\ p \in Seq(Cells) /\ Len(p) = total
      /\ \A i \in 1..total : p[i] = IF i <= HeaderSize + Len(handles)
           THEN (head \o handles)[i] ELSE rest[i - (HeaderSize + Len(handles))]
  <2> HIDE DEF head, p
  <2>. QED  BY <1>2, <1>3, ConcatProperties
<1>5. p[1] = Tag(tag) /\ p[2] = SizeField(total) /\ p[3] = Code(code)
  <2> HIDE DEF head, p
  <2>. QED  BY <1>1, <1>2, <1>4 DEF HeaderSize
<1>6. \A i \in 1..Len(handles) : p[HeaderSize + i] = handles[i]
  <2> HIDE DEF head, p
  <2>. QED  BY <1>1, <1>2, <1>4 DEF HeaderSize
<1>7. ASSUME NEW i \in 1..Len(rest)
      PROVE  p[HeaderSize + Len(handles) + i] = rest[i]
  <2> DEFINE j == HeaderSize + Len(handles) + i
  <2>1. /\ j \in 1..total /\ ~(j <= HeaderSize + Len(handles))
        /\ j - (HeaderSize + Len(handles)) = i
    BY DEF HeaderSize
  <2> HIDE DEF head, p, j, total
  <2>2. p[j] = rest[j - (HeaderSize + Len(handles))]
    BY <1>4, <2>1
  <2>. QED  BY <2>1, <2>2 DEF j
<1> HIDE DEF p
<1>8. IsPacket(p, tag, code, handles, rest)
  BY <1>4, <1>5, <1>6, <1>7 DEF IsPacket
<1>. QED  BY <1>8 DEF p
-----------------------------------------------------------------------------
(* The inductive invariant of the layout.  A command that is put together
   starts behind the header and fills the buffer up to its size; a response
   under way has a header, of a tag and a code there are. *)
LayoutOK ==
  /\ previousStage = "PREPARE" => commandSize <= MaxCmdSize
  /\ Whole => HeaderSize <= cpBuffer /\ cpBuffer + cpBufferUsedSize = commandSize
AnswerOK ==
  wire.phase = "answered" =>
    /\ HeaderSize <= Len(wire.cells) /\ Len(wire.cells) <= MaxCmdSize
    /\ wire.cells[1].value \in 0..2 /\ wire.cells[3].value \in 0..2
IInv == TypeOK /\ LayoutOK /\ AnswerOK /\ StageAgrees

LEMMA BufferFacts ==
  /\ MaxCmdSize \in Nat /\ HeaderSize = 3 /\ HeaderSize <= MaxCmdSize
  /\ 0 \in 0 .. MaxCmdSize - 1 /\ 1 \in 0 .. MaxCmdSize - 1 /\ 2 \in 0 .. MaxCmdSize - 1
  /\ Buffers(Cells, MaxCmdSize) = [0 .. MaxCmdSize - 1 -> Cells]
BY SysAssumption DEF HeaderSize, Buffers

(* The header of a command in the buffer. *)
LEMMA HeaderFacts ==
  ASSUME NEW buffer \in Buffers(Cells, MaxCmdSize), NEW n \in Nat
  PROVE  /\ WithSize(buffer, n) \in Buffers(Cells, MaxCmdSize)
         /\ WithSize(buffer, n)[1] = SizeField(n)
         /\ \A i \in 0 .. MaxCmdSize - 1 : i # 1 => WithSize(buffer, n)[i] = buffer[i]
         /\ WithTag(buffer, n) \in Buffers(Cells, MaxCmdSize)
         /\ WithTag(buffer, n)[0] = Tag(n)
         /\ \A i \in 0 .. MaxCmdSize - 1 : i # 0 => WithTag(buffer, n)[i] = buffer[i]
         /\ buffer[1].value \in Nat
BY BufferFacts, CellTypes DEF WithSize, WithTag, Cells

(* What Prepare leaves in the buffer. *)
LEMMA MarshalledFacts ==
  ASSUME TypeOK, NEW c \in AllCommands, NEW n \in Nat
  PROVE  LET end == Marshalled(c, n).all
         IN  /\ Marshalled(c, n).handles \in BOOLEAN
             /\ end \in Cursors(Cells, MaxCmdSize) /\ HeaderSize <= end.offset
             /\ end.buffer[0] = Tag(NoSessions) /\ end.buffer[1] = cmdBuffer[1]
             /\ end.buffer[2] = Code(0)
             /\ end.ok =>
                  /\ end.offset = HeaderSize + c.handles + Len(First(c, n) \o Rest(c))
                  /\ Placed(end.buffer, HeaderSize, Handles(c.handles))
                  /\ Placed(end.buffer, HeaderSize + c.handles, First(c, n) \o Rest(c))
<1> DEFINE start   == Cursor(CopyCommandHeader, HeaderSize)
           handles == MarshalEach(start, MaxCmdSize, Handles(c.handles))
           first   == IF c.name \in Structured THEN MarshalNested(handles, MaxCmdSize, First(c, n))
                                               ELSE Marshal(handles, MaxCmdSize, First(c, n))
           rest    == Marshal(first, MaxCmdSize, Rest(c))
<1>0. Marshalled(c, n) = [handles |-> handles.ok, all |-> rest]
  BY DEF Marshalled
<1>1. /\ start \in Cursors(Cells, MaxCmdSize) /\ start.offset = HeaderSize
      /\ start.buffer = CopyCommandHeader /\ start.ok = TRUE
      /\ CopyCommandHeader[0] = Tag(NoSessions) /\ CopyCommandHeader[1] = cmdBuffer[1]
      /\ CopyCommandHeader[2] = Code(0)
  <2>1. /\ CopyCommandHeader \in Buffers(Cells, MaxCmdSize)
        /\ CopyCommandHeader[0] = Tag(NoSessions) /\ CopyCommandHeader[1] = cmdBuffer[1]
        /\ CopyCommandHeader[2] = Code(0)
    BY BufferFacts, CellTypes DEF CopyCommandHeader, TypeOK, NoSessions
  <2>. QED  BY <2>1, BufferFacts, EmptySeq DEF Cursor, Cursors
<1>2. c.handles \in Nat /\ Handles(c.handles) \in Seq(Cells) /\ Len(Handles(c.handles)) = c.handles
  BY CommandsAssumption, HandlesFacts
<1>3. First(c, n) \in Seq(Cells) /\ Rest(c) \in Seq(Cells)
  BY FirstFacts, RestFacts
<1> HIDE DEF start
<1>4. Marshals(Cells, MaxCmdSize, start, Handles(c.handles), handles)
  BY <1>1, <1>2, BufferFacts, MarshalEachKeepsPromise
<1>5. handles \in Cursors(Cells, MaxCmdSize)
  BY <1>4 DEF Marshals
<1> HIDE DEF handles
<1>6. Marshals(Cells, MaxCmdSize, handles, First(c, n), first)
  <2>1. CASE c.name \in Structured
    BY <1>3, <1>5, <2>1, BufferFacts, MarshalNestedKeepsPromise
  <2>2. CASE c.name \notin Structured
    BY <1>3, <1>5, <2>2, BufferFacts, MarshalKeepsPromise
  <2>. QED  BY <2>1, <2>2
<1>7. first \in Cursors(Cells, MaxCmdSize)
  BY <1>6 DEF Marshals
<1> HIDE DEF first
<1>8. Marshals(Cells, MaxCmdSize, first, Rest(c), rest)
  BY <1>3, <1>7, BufferFacts, MarshalKeepsPromise
<1> HIDE DEF rest
<1>9. /\ rest \in Cursors(Cells, MaxCmdSize) /\ handles.offset >= HeaderSize
      /\ first.offset >= handles.offset /\ rest.offset >= first.offset
      /\ handles.offset \in Nat /\ first.offset \in Nat /\ rest.offset \in 0..MaxCmdSize
  BY <1>1, <1>4, <1>5, <1>6, <1>7, <1>8 DEF Marshals, Cursors
<1>10. \A i \in 0 .. HeaderSize - 1 : rest.buffer[i] = CopyCommandHeader[i]
  <2>1. \A i \in 0 .. HeaderSize - 1 : handles.buffer[i] = CopyCommandHeader[i]
    BY <1>1, <1>4, BufferFacts DEF Marshals
  <2>2. \A i \in 0 .. HeaderSize - 1 : first.buffer[i] = handles.buffer[i]
    BY <1>6, <1>9, BufferFacts DEF Marshals
  <2>3. \A i \in 0 .. HeaderSize - 1 : rest.buffer[i] = first.buffer[i]
    BY <1>8, <1>9, BufferFacts DEF Marshals
  <2>. QED  BY <2>1, <2>2, <2>3
<1>11. /\ rest.buffer[0] = Tag(NoSessions) /\ rest.buffer[1] = cmdBuffer[1]
       /\ rest.buffer[2] = Code(0)
  BY <1>1, <1>10, BufferFacts
<1>12. ASSUME rest.ok
       PROVE  /\ rest.offset = HeaderSize + c.handles + Len(First(c, n) \o Rest(c))
              /\ Placed(rest.buffer, HeaderSize, Handles(c.handles))
              /\ Placed(rest.buffer, HeaderSize + c.handles, First(c, n) \o Rest(c))
  <2> DEFINE cells == First(c, n) \o Rest(c)
  <2>1. /\ cells \in Seq(Cells) /\ Len(cells) = Len(First(c, n)) + Len(Rest(c))
        /\ \A i \in 1..Len(cells) : cells[i] =
             IF i <= Len(First(c, n)) THEN First(c, n)[i] ELSE Rest(c)[i - Len(First(c, n))]
    BY <1>3, ConcatProperties
  <2>2. /\ first.ok /\ handles.ok
        /\ handles.offset = HeaderSize + c.handles
        /\ first.offset = HeaderSize + c.handles + Len(First(c, n))
        /\ rest.offset = first.offset + Len(Rest(c))
    BY <1>1, <1>2, <1>4, <1>6, <1>8, <1>12 DEF Marshals
  <2>3. rest.offset = HeaderSize + c.handles + Len(cells)
    BY <2>1, <2>2, <1>2, <1>3, BufferFacts
  <2>4. Placed(rest.buffer, HeaderSize, Handles(c.handles))
    <3>1. ASSUME NEW i \in 1..c.handles
          PROVE  rest.buffer[HeaderSize + i - 1] = Handles(c.handles)[i]
      <4>1. HeaderSize + i - 1 \in 0 .. handles.offset - 1
        BY <1>2, <2>2, BufferFacts
      <4>2. HeaderSize + i - 1 \in 0 .. first.offset - 1
        BY <1>9, <4>1
      <4>3. /\ rest.buffer[HeaderSize + i - 1] = first.buffer[HeaderSize + i - 1]
            /\ first.buffer[HeaderSize + i - 1] = handles.buffer[HeaderSize + i - 1]
        BY <1>6, <1>8, <4>1, <4>2 DEF Marshals
      <4>4. handles.buffer[HeaderSize + i - 1] = Handles(c.handles)[i]
        BY <1>1, <1>2, <1>4, <2>2 DEF Marshals, Placed
      <4>. QED  BY <4>3, <4>4
    <3>. QED  BY <1>2, <3>1 DEF Placed
  <2>5. Placed(rest.buffer, HeaderSize + c.handles, cells)
    <3>1. ASSUME NEW i \in 1..Len(cells), i <= Len(First(c, n))
          PROVE  rest.buffer[HeaderSize + c.handles + i - 1] = cells[i]
      <4>1. HeaderSize + c.handles + i - 1 \in 0 .. first.offset - 1
        BY <1>2, <1>3, <2>2, <3>1, BufferFacts
      <4>2. rest.buffer[HeaderSize + c.handles + i - 1] = first.buffer[HeaderSize + c.handles + i - 1]
        BY <1>8, <4>1 DEF Marshals
      <4>3. i \in 1..Len(First(c, n))
        BY <1>3, <3>1
      <4>4. first.buffer[HeaderSize + c.handles + i - 1] = First(c, n)[i]
        BY <1>6, <2>2, <4>3 DEF Marshals, Placed
      <4>. QED  BY <2>1, <3>1, <4>2, <4>4
    <3>2. ASSUME NEW i \in 1..Len(cells), ~(i <= Len(First(c, n)))
          PROVE  rest.buffer[HeaderSize + c.handles + i - 1] = cells[i]
      <4> DEFINE j == i - Len(First(c, n))
      <4>1. j \in 1..Len(Rest(c)) /\ HeaderSize + c.handles + i - 1 = first.offset + j - 1
        BY <1>2, <1>3, <2>1, <2>2, <3>2, BufferFacts
      <4>2. rest.buffer[first.offset + j - 1] = Rest(c)[j]
        BY <1>8, <1>12, <4>1 DEF Marshals, Placed
      <4>. QED  BY <2>1, <3>2, <4>1, <4>2
    <3>. QED  BY <3>1, <3>2 DEF Placed
  <2>. QED  BY <2>3, <2>4, <2>5
<1>13. handles.ok \in BOOLEAN
  BY <1>5 DEF Cursors
<1>14. Marshalled(c, n).handles = handles.ok /\ Marshalled(c, n).all = rest
  BY <1>0
<1>. QED  BY <1>9, <1>11, <1>12, <1>13, <1>14, BufferFacts
-----------------------------------------------------------------------------
(* Every action keeps the invariant.                                        *)

LEMMA PrepareStep ==
  ASSUME IInv, NEW c \in AllCommands, NEW n \in Nat, Prepare(c, n)
  PROVE  IInv'
<1> DEFINE end == Marshalled(c, n).all
           cells == First(c, n) \o Rest(c)
           cp  == HeaderSize + GetNumCommandHandles(c.name)
<1>1. /\ end \in Cursors(Cells, MaxCmdSize) /\ end.ok
      /\ end.buffer[0] = Tag(NoSessions)
      /\ end.offset = HeaderSize + c.handles + Len(cells)
  BY MarshalledFacts DEF Prepare, IInv
<1>2. /\ previousStage # "SEND_COMMAND" /\ prepares < MaxPrepares
      /\ cmdBuffer' = WithSize(end.buffer, end.offset) /\ nextData' = end.offset
      /\ numResponseHandles' = GetNumResponseHandles(c.name)
      /\ cpBuffer' = cp /\ cpBufferUsedSize' = end.offset - cp
      /\ allowed' = c.allowed /\ decryptNull' = IsNull(c, n)
      /\ previousStage' = "PREPARE"
      /\ asked' = [cmd |-> c, params |-> cells, auths |-> 0]
      /\ reply' = NoReply /\ spoilt' = {} /\ prepares' = prepares + 1
      /\ authsCount' = authsCount /\ rsp_header' = rsp_header /\ wire' = wire
  BY DEF Prepare
<1>3. /\ cells \in Seq(Cells) /\ Len(cells) \in Nat
  BY FirstFacts, RestFacts, ConcatProperties
<1>4. c.handles \in 0..3 /\ cp = HeaderSize + c.handles /\ c.allowed \subseteq AuthInOut
      /\ GetNumResponseHandles(c.name) \in 0..1
  BY CommandsAssumption
<1>5. /\ end.offset \in Nat /\ end.offset <= MaxCmdSize /\ end.buffer \in Buffers(Cells, MaxCmdSize)
      /\ cp \in Nat /\ cp <= MaxCmdSize + HeaderSize /\ end.offset - cp = Len(cells)
      /\ HeaderSize <= cp
  <2> HIDE DEF end, cells
  <2>1. end.offset \in 0..MaxCmdSize /\ end.buffer \in Buffers(Cells, MaxCmdSize)
    BY <1>1 DEF Cursors
  <2>2. end.offset = HeaderSize + c.handles + Len(cells)
    BY <1>1
  <2>3. HeaderSize = 3 /\ MaxCmdSize \in Nat /\ HeaderSize <= MaxCmdSize
    BY BufferFacts
  <2> HIDE DEF cp
  <2>4. cp = HeaderSize + c.handles /\ c.handles \in 0..3
    BY <1>4
  <2>5. cp \in Nat /\ cp <= MaxCmdSize + HeaderSize /\ HeaderSize <= cp
    BY <2>3, <2>4
  <2>6. end.offset - cp = Len(cells)
    BY <1>3, <2>2, <2>3, <2>4
  <2>. QED  BY <2>1, <2>5, <2>6
<1>6. commandSize' = end.offset /\ cmdBuffer' \in Buffers(Cells, MaxCmdSize)
  <2> HIDE DEF end
  <2>1. cmdBuffer' = WithSize(end.buffer, end.offset)
    BY <1>2
  <2>2. cmdBuffer' \in Buffers(Cells, MaxCmdSize) /\ cmdBuffer'[1] = SizeField(end.offset)
    BY <1>5, <2>1, HeaderFacts
  <2>. QED  BY <2>2 DEF commandSize, SizeField, Cell
<1> HIDE DEF end, cells
<1>7. /\ cpBuffer' \in 0 .. MaxCmdSize + HeaderSize /\ cpBufferUsedSize' \in 0..MaxCmdSize
      /\ nextData' \in 0 .. MaxCmdSize + 2
  BY <1>2, <1>3, <1>4, <1>5, BufferFacts
<1>8. asked' \in [cmd : AllCommands, params : Seq(Cells), auths : 0..MaxAuths]
  BY <1>2, <1>3, SysAssumption
<1>9. reply' \in [tag : 0..1, code : 0..2, handles : 0..1, params : Seq(Cells), auths : 0..MaxAuths]
  BY <1>2, SysAssumption, EmptySeq DEF NoReply, NoSessions, Refused
<1>10. decryptNull' \in BOOLEAN /\ prepares' \in 0..MaxPrepares
  BY <1>2, SysAssumption DEF IsNull, IInv, TypeOK
<1>11. TypeOK'
  BY <1>2, <1>4, <1>6, <1>7, <1>8, <1>9, <1>10, BufferFacts DEF IInv, TypeOK
<1>12. LayoutOK'
  BY <1>2, <1>3, <1>5, <1>6 DEF LayoutOK, Whole
<1>13. AnswerOK' /\ StageAgrees'
  BY <1>2 DEF IInv, AnswerOK, StageAgrees
<1>. QED  BY <1>11, <1>12, <1>13 DEF IInv

LEMMA PrepareFailsStep ==
  ASSUME IInv, NEW c \in AllCommands, NEW n \in Nat, PrepareFails(c, n)
  PROVE  IInv'
<1> DEFINE end == Marshalled(c, n).all
           cp  == HeaderSize + GetNumCommandHandles(c.name)
<1>1. /\ end \in Cursors(Cells, MaxCmdSize) /\ end.buffer[1] = cmdBuffer[1]
      /\ Marshalled(c, n).handles \in BOOLEAN
  BY MarshalledFacts DEF IInv
<1>2. /\ previousStage # "SEND_COMMAND" /\ prepares < MaxPrepares
      /\ cmdBuffer' = end.buffer /\ nextData' = end.offset
      /\ numResponseHandles' = GetNumResponseHandles(c.name)
      /\ cpBuffer' = cp /\ allowed' = {}
      /\ decryptNull' = (Marshalled(c, n).handles /\ IsNull(c, n))
      /\ spoilt' = spoilt \union {"mixture"} /\ prepares' = prepares + 1
      /\ UNCHANGED <<previousStage, cpBufferUsedSize, authsCount, rsp_header, wire, asked, reply>>
  BY DEF PrepareFails
<1>3. c.handles \in 0..3 /\ cp = HeaderSize + c.handles /\ GetNumResponseHandles(c.name) \in 0..1
  BY CommandsAssumption
<1>4. /\ cmdBuffer' \in Buffers(Cells, MaxCmdSize) /\ nextData' \in 0 .. MaxCmdSize + 2
      /\ cpBuffer' \in 0 .. MaxCmdSize + HeaderSize
  <2> HIDE DEF end
  <2>. QED  BY <1>1, <1>2, <1>3, BufferFacts DEF Cursors
<1>5. decryptNull' \in BOOLEAN /\ prepares' \in 0..MaxPrepares
  BY <1>1, <1>2, SysAssumption DEF IsNull, IInv, TypeOK
<1> HIDE DEF end
<1>6. TypeOK'
  BY <1>2, <1>3, <1>4, <1>5, BufferFacts DEF IInv, TypeOK
<1>7. LayoutOK'
  BY <1>1, <1>2 DEF IInv, LayoutOK, Whole, commandSize
<1>8. AnswerOK' /\ StageAgrees'
  BY <1>2 DEF IInv, AnswerOK, StageAgrees
<1>. QED  BY <1>6, <1>7, <1>8 DEF IInv

LEMMA FlagsStep ==
  ASSUME IInv, PrepareRefused \/ SetNoAuths \/ Initialize \/ UNCHANGED vars
  PROVE  IInv'
<1>0. 0 \in 0 .. MaxCmdSize + 2 /\ {} \subseteq AuthInOut
  BY SysAssumption
<1>1. CASE PrepareRefused
  <2>1. TypeOK'
    BY <1>0, <1>1 DEF PrepareRefused, layout, IInv, TypeOK
  <2>. QED  BY <1>1, <2>1 DEF PrepareRefused, IInv, LayoutOK, Whole, AnswerOK, StageAgrees
<1>2. CASE SetNoAuths
  <2>1. spoilt' \subseteq spoilt \union {"repeated"} /\ spoilt \subseteq spoilt'
    BY <1>2 DEF SetNoAuths, Repeated
  <2>2. TypeOK'
    <3>1. authsCount' \in 0..MaxAuths
      BY <1>2, SysAssumption DEF SetNoAuths
    <3>2. spoilt' \subseteq {"flags", "mixture", "repeated", "tag", "inserted", "cancelled"}
      BY <2>1 DEF IInv, TypeOK
    <3>3. UNCHANGED <<previousStage, cmdBuffer, nextData, cpBuffer, cpBufferUsedSize,
                      numResponseHandles, allowed, decryptNull, rsp_header, wire, asked,
                      reply, prepares>>
      BY <1>2 DEF SetNoAuths, flags
    <3>. QED  BY <3>1, <3>2, <3>3 DEF IInv, TypeOK
  <2>. QED  BY <1>2, <2>1, <2>2 DEF SetNoAuths, flags, IInv, LayoutOK, Whole, commandSize, AnswerOK, StageAgrees
<1>3. CASE Initialize
  <2>1. TypeOK'
    BY <1>0, <1>3 DEF Initialize, layout, history, IInv, TypeOK
  <2>. QED  BY <1>3, <2>1 DEF Initialize, IInv, LayoutOK, Whole, AnswerOK, StageAgrees
<1>4. CASE UNCHANGED vars
  BY <1>4 DEF vars, context, layout, flags, history, IInv, TypeOK, LayoutOK, Whole, commandSize, AnswerOK, StageAgrees
<1>. QED  BY <1>1, <1>2, <1>3, <1>4

(* Types of the offsets, and where the parameters are. *)
LEMMA OffsetFacts ==
  ASSUME IInv, Whole
  PROVE  /\ cpBuffer \in Nat /\ cpBufferUsedSize \in Nat /\ commandSize \in Nat
         /\ HeaderSize <= cpBuffer /\ cpBuffer + cpBufferUsedSize = commandSize
         /\ commandSize <= MaxCmdSize
         /\ cmdBuffer \in Buffers(Cells, MaxCmdSize)
<1>1. cpBuffer \in Nat /\ cpBufferUsedSize \in Nat /\ cmdBuffer \in Buffers(Cells, MaxCmdSize)
  BY BufferFacts DEF IInv, TypeOK
<1>2. commandSize \in Nat
  BY <1>1, HeaderFacts DEF commandSize
<1>. QED  BY <1>1, <1>2 DEF IInv, LayoutOK, Whole

(* What SetCmdAuths does to the buffer. *)
LEMMA WithAreaFacts ==
  ASSUME IInv, Whole, NEW n \in Nat \ {0}, commandSize + 1 + n <= MaxCmdSize
  PROVE  LET buffer == WithTag(WithArea(n), Sessions)
         IN  /\ buffer \in Buffers(Cells, MaxCmdSize)
             /\ buffer[0] = Tag(Sessions) /\ buffer[1] = SizeField(commandSize + 1 + n)
             /\ \A i \in 2 .. cpBuffer - 1 : buffer[i] = cmdBuffer[i]
             /\ Placed(buffer, cpBuffer, Area(n))
             /\ \A i \in 0 .. cpBufferUsedSize - 1 :
                  buffer[cpBuffer + 1 + n + i] = cmdBuffer[cpBuffer + i]
<1> DEFINE params == Slice(cmdBuffer, cpBuffer, cpBufferUsedSize)
           moved  == Written(cmdBuffer, cpBuffer + 1 + n, params)
           filled == Written(moved, cpBuffer, Area(n))
           buffer == WithTag(WithArea(n), Sessions)
<1>0. /\ cpBuffer \in Nat /\ cpBufferUsedSize \in Nat /\ commandSize \in Nat
      /\ 3 <= cpBuffer /\ cpBuffer + cpBufferUsedSize = commandSize
      /\ cmdBuffer \in Buffers(Cells, MaxCmdSize) /\ MaxCmdSize \in Nat
  BY OffsetFacts, BufferFacts
<1>1. /\ params \in Seq(Cells) /\ Len(params) = cpBufferUsedSize
      /\ \A i \in 1..cpBufferUsedSize : params[i] = cmdBuffer[cpBuffer + i - 1]
  BY <1>0, SliceFacts
<1>2. Area(n) \in Seq(Cells) /\ Len(Area(n)) = n + 1
  BY AreaFacts
<1> HIDE DEF params
<1>3. /\ moved \in Buffers(Cells, MaxCmdSize)
      /\ \A i \in 0 .. MaxCmdSize - 1 : i < cpBuffer + 1 + n => moved[i] = cmdBuffer[i]
      /\ Placed(moved, cpBuffer + 1 + n, params)
  <2>1. cpBuffer + 1 + n \in Nat /\ cpBuffer + 1 + n + Len(params) <= MaxCmdSize
    BY <1>0, <1>1
  <2>2. /\ moved \in Buffers(Cells, MaxCmdSize)
        /\ \A i \in 0 .. MaxCmdSize - 1 :
             i \notin cpBuffer + 1 + n .. (cpBuffer + 1 + n + Len(params) - 1) =>
               moved[i] = cmdBuffer[i]
        /\ Placed(moved, cpBuffer + 1 + n, params)
    BY <1>0, <1>1, <2>1, WrittenFacts
  <2>3. ASSUME NEW i \in 0 .. MaxCmdSize - 1, i < cpBuffer + 1 + n
        PROVE  moved[i] = cmdBuffer[i]
    <3>1. i \notin cpBuffer + 1 + n .. (cpBuffer + 1 + n + Len(params) - 1)
      BY <1>0, <2>3
    <3>. QED  BY <2>2, <3>1
  <2>. QED  BY <2>2, <2>3
<1> HIDE DEF moved
<1>4. /\ filled \in Buffers(Cells, MaxCmdSize)
      /\ \A i \in 0 .. MaxCmdSize - 1 :
           i \notin cpBuffer .. (cpBuffer + (n + 1) - 1) => filled[i] = moved[i]
      /\ Placed(filled, cpBuffer, Area(n))
  BY <1>0, <1>2, <1>3, WrittenFacts
<1>5. buffer = WithTag(WithSize(filled, commandSize + 1 + n), Sessions)
  BY DEF WithArea, filled, moved, params
<1> HIDE DEF filled, buffer
<1>6. /\ buffer \in Buffers(Cells, MaxCmdSize)
      /\ buffer[0] = Tag(Sessions) /\ buffer[1] = SizeField(commandSize + 1 + n)
      /\ \A i \in 2 .. MaxCmdSize - 1 : buffer[i] = filled[i]
  <2>1. commandSize + 1 + n \in Nat /\ Sessions \in Nat
    BY <1>0 DEF Sessions
  <2>2. /\ WithSize(filled, commandSize + 1 + n) \in Buffers(Cells, MaxCmdSize)
        /\ WithSize(filled, commandSize + 1 + n)[1] = SizeField(commandSize + 1 + n)
        /\ \A i \in 0 .. MaxCmdSize - 1 : i # 1 =>
             WithSize(filled, commandSize + 1 + n)[i] = filled[i]
    BY <1>4, <2>1, HeaderFacts
  <2>3. /\ buffer \in Buffers(Cells, MaxCmdSize) /\ buffer[0] = Tag(Sessions)
        /\ \A i \in 0 .. MaxCmdSize - 1 : i # 0 =>
             buffer[i] = WithSize(filled, commandSize + 1 + n)[i]
    BY <1>5, <2>1, <2>2, HeaderFacts
  <2>. QED  BY <2>2, <2>3, BufferFacts
<1>7. \A i \in 2 .. cpBuffer - 1 : buffer[i] = cmdBuffer[i]
  BY <1>0, <1>3, <1>4, <1>6
<1>8. Placed(buffer, cpBuffer, Area(n))
  <2>1. ASSUME NEW i \in 1..Len(Area(n))
        PROVE  buffer[cpBuffer + i - 1] = Area(n)[i]
    <3>1. cpBuffer + i - 1 \in 2 .. MaxCmdSize - 1
      BY <1>0, <1>2
    <3>. QED  BY <1>4, <1>6, <3>1 DEF Placed
  <2>. QED  BY <2>1 DEF Placed
<1>9. ASSUME NEW i \in 0 .. cpBufferUsedSize - 1
      PROVE  buffer[cpBuffer + 1 + n + i] = cmdBuffer[cpBuffer + i]
  <2>1. /\ cpBuffer + 1 + n + i \in 2 .. MaxCmdSize - 1
        /\ cpBuffer + 1 + n + i \notin cpBuffer .. (cpBuffer + (n + 1) - 1)
    BY <1>0
  <2>2. buffer[cpBuffer + 1 + n + i] = moved[cpBuffer + 1 + n + i]
    BY <1>4, <1>6, <2>1
  <2>3. i + 1 \in 1..Len(params) /\ cpBuffer + 1 + n + (i + 1) - 1 = cpBuffer + 1 + n + i
    BY <1>0, <1>1
  <2>4. moved[cpBuffer + 1 + n + i] = params[i + 1]
    BY <1>3, <2>3 DEF Placed
  <2>5. params[i + 1] = cmdBuffer[cpBuffer + (i + 1) - 1] /\ cpBuffer + (i + 1) - 1 = cpBuffer + i
    BY <1>0, <1>1, <2>3
  <2>. QED  BY <2>2, <2>4, <2>5
<1>. QED  BY <1>6, <1>7, <1>8, <1>9 DEF buffer

LEMMA SetCmdAuthsStep ==
  ASSUME IInv, NEW n \in 1..MaxAuths, SetCmdAuths(n) \/ SetCmdAuthsFails(n)
  PROVE  IInv'
<1>0. n \in Nat \ {0} /\ n \in 0..MaxAuths /\ 0 \in 0..MaxAuths
  BY SysAssumption
<1>1. CASE SetCmdAuths(n)
  <2>1. /\ Whole /\ commandSize + 1 + n <= MaxCmdSize
        /\ cmdBuffer' = WithTag(WithArea(n), Sessions)
        /\ cpBuffer' = cpBuffer + 1 + n /\ authsCount' = n
        /\ asked' = [asked EXCEPT !.auths = n] /\ spoilt' = spoilt \union Repeated
        /\ UNCHANGED <<previousStage, nextData, cpBufferUsedSize, numResponseHandles,
                       flags, rsp_header, wire, reply, prepares>>
    BY <1>1 DEF SetCmdAuths, AuthsAllowed
  <2>2. cmdBuffer' \in Buffers(Cells, MaxCmdSize) /\ cmdBuffer'[1] = SizeField(commandSize + 1 + n)
    BY <1>0, <2>1, WithAreaFacts
  <2>3. commandSize' = commandSize + 1 + n
    BY <2>2 DEF commandSize, SizeField, Cell
  <2>4. /\ cpBuffer \in Nat /\ commandSize \in Nat /\ cpBufferUsedSize \in Nat
        /\ HeaderSize <= cpBuffer /\ cpBuffer + cpBufferUsedSize = commandSize
    BY <2>1, OffsetFacts
  <2>5. /\ cpBuffer' \in 0 .. MaxCmdSize + HeaderSize /\ HeaderSize <= cpBuffer'
        /\ cpBuffer' + cpBufferUsedSize = commandSize'
    BY <1>0, <2>1, <2>3, <2>4, BufferFacts
  <2>6. spoilt' \subseteq spoilt \union {"repeated"} /\ spoilt \subseteq spoilt'
    BY <2>1 DEF Repeated
  <2>7. asked' \in [cmd : AllCommands, params : Seq(Cells), auths : 0..MaxAuths]
    BY <1>0, <2>1 DEF IInv, TypeOK
  <2>8. TypeOK'
    BY <1>0, <2>1, <2>2, <2>5, <2>6, <2>7, BufferFacts DEF flags, IInv, TypeOK
  <2>9. LayoutOK'
    BY <2>1, <2>3, <2>5 DEF LayoutOK
  <2>10. AnswerOK' /\ StageAgrees'
    BY <2>1 DEF IInv, AnswerOK, StageAgrees
  <2>. QED  BY <2>8, <2>9, <2>10 DEF IInv
<1>2. CASE SetCmdAuthsFails(n)
  <2>1. /\ Whole /\ cmdBuffer' = WithTag(cmdBuffer, Sessions) /\ authsCount' = 0
        /\ spoilt' = spoilt \union {"tag"}
        /\ UNCHANGED <<previousStage, nextData, cpBuffer, cpBufferUsedSize, numResponseHandles,
                       flags, rsp_header, wire, asked, reply, prepares>>
    BY <1>2 DEF SetCmdAuthsFails, AuthsAllowed
  <2>2. cmdBuffer' \in Buffers(Cells, MaxCmdSize) /\ cmdBuffer'[1] = cmdBuffer[1]
    BY <2>1, OffsetFacts, HeaderFacts, BufferFacts DEF Sessions
  <2>3. commandSize' = commandSize
    BY <2>2 DEF commandSize
  <2>4. TypeOK'
    BY <1>0, <2>1, <2>2, BufferFacts DEF flags, IInv, TypeOK
  <2>5. LayoutOK'
    BY <2>1, <2>3 DEF IInv, LayoutOK, Whole
  <2>6. AnswerOK' /\ StageAgrees'
    BY <2>1 DEF IInv, AnswerOK, StageAgrees
  <2>. QED  BY <2>4, <2>5, <2>6 DEF IInv
<1>. QED  BY <1>1, <1>2

(* What is meant with another first parameter. *)
LEMMA MeantEncryptedFacts ==
  ASSUME IInv, NEW n \in Nat
  PROVE  /\ MeantEncrypted(n) \in [cmd : AllCommands, params : Seq(Cells), auths : 0..MaxAuths]
         /\ MeantEncrypted(n).cmd = asked.cmd /\ MeantEncrypted(n).auths = asked.auths
         /\ MeantEncrypted(n).params = Sized(n, Cipher) \o Rest(asked.cmd)
<1>1. Sized(n, Cipher) \o Rest(asked.cmd) \in Seq(Cells)
  BY SizedFacts, RestFacts, ConcatProperties DEF IInv, TypeOK
<1>. QED  BY <1>1 DEF MeantEncrypted, IInv, TypeOK

(* What SetDecryptParam does to the buffer when it replaces the parameter ... *)
LEMMA ReplacedFacts ==
  ASSUME IInv, Whole, NEW n \in Nat, commandSize + n <= MaxCmdSize, cpBufferUsedSize >= n + 1
  PROVE  LET buffer == Written(cmdBuffer, cpBuffer, Sized(n, Cipher))
         IN  /\ buffer \in Buffers(Cells, MaxCmdSize)
             /\ \A i \in 0 .. cpBuffer - 1 : buffer[i] = cmdBuffer[i]
             /\ Placed(buffer, cpBuffer, Sized(n, Cipher))
             /\ \A i \in cpBuffer + n + 1 .. MaxCmdSize - 1 : buffer[i] = cmdBuffer[i]
<1>1. /\ cpBuffer \in Nat /\ cpBufferUsedSize \in Nat /\ commandSize \in Nat
      /\ 3 <= cpBuffer /\ cpBuffer + cpBufferUsedSize = commandSize /\ commandSize <= MaxCmdSize
      /\ cmdBuffer \in Buffers(Cells, MaxCmdSize) /\ MaxCmdSize \in Nat
  BY OffsetFacts, BufferFacts
<1>2. Sized(n, Cipher) \in Seq(Cells) /\ Len(Sized(n, Cipher)) = n + 1
  BY SizedFacts
<1> DEFINE buffer == Written(cmdBuffer, cpBuffer, Sized(n, Cipher))
<1>3. /\ buffer \in Buffers(Cells, MaxCmdSize)
      /\ \A i \in 0 .. MaxCmdSize - 1 :
           i \notin cpBuffer .. (cpBuffer + (n + 1) - 1) => buffer[i] = cmdBuffer[i]
      /\ Placed(buffer, cpBuffer, Sized(n, Cipher))
  BY <1>1, <1>2, WrittenFacts
<1> HIDE DEF buffer
<1>4. /\ \A i \in 0 .. cpBuffer - 1 : buffer[i] = cmdBuffer[i]
      /\ \A i \in cpBuffer + n + 1 .. MaxCmdSize - 1 : buffer[i] = cmdBuffer[i]
  BY <1>1, <1>3
<1>. QED  BY <1>3, <1>4 DEF buffer

(* ... and when it inserts one. *)
LEMMA InsertedFacts ==
  ASSUME IInv, Whole, NEW n \in Nat, commandSize + n <= MaxCmdSize,
         cpBufferUsedSize >= 1, MovedTo + Len(Others) <= MaxCmdSize
  PROVE  LET buffer == WithDecryptParam(n)
         IN  /\ Others \in Seq(Cells) /\ Len(Others) = cpBufferUsedSize - 1
             /\ buffer \in Buffers(Cells, MaxCmdSize)
             /\ buffer[0] = cmdBuffer[0] /\ buffer[1] = SizeField(commandSize + n)
             /\ \A i \in 2 .. cpBuffer - 1 : buffer[i] = cmdBuffer[i]
             /\ Placed(buffer, cpBuffer, Sized(n, Cipher))
             /\ cpBufferUsedSize = n => Placed(buffer, cpBuffer + n + 1, Others)
<1>1. /\ cpBuffer \in Nat /\ cpBufferUsedSize \in Nat /\ commandSize \in Nat
      /\ 3 <= cpBuffer /\ cpBuffer + cpBufferUsedSize = commandSize /\ commandSize <= MaxCmdSize
      /\ cmdBuffer \in Buffers(Cells, MaxCmdSize) /\ MaxCmdSize \in Nat
      /\ MovedTo = cpBuffer + cpBufferUsedSize + 1 /\ MovedTo \in Nat
  BY OffsetFacts, BufferFacts DEF MovedTo
<1>2. Others \in Seq(Cells) /\ Len(Others) = cpBufferUsedSize - 1
  <2>1. cpBuffer + 1 \in Nat /\ cpBufferUsedSize - 1 \in Nat
        /\ (cpBuffer + 1) + (cpBufferUsedSize - 1) <= MaxCmdSize
    BY <1>1
  <2>2. /\ Slice(cmdBuffer, cpBuffer + 1, cpBufferUsedSize - 1) \in Seq(Cells)
        /\ Len(Slice(cmdBuffer, cpBuffer + 1, cpBufferUsedSize - 1)) = cpBufferUsedSize - 1
    BY <1>1, <2>1, SliceFacts
  <2>. QED  BY <2>2 DEF Others
<1>3. Sized(n, Cipher) \in Seq(Cells) /\ Len(Sized(n, Cipher)) = n + 1
  BY SizedFacts
<1> DEFINE moved  == Written(cmdBuffer, MovedTo, Others)
           filled == Written(moved, cpBuffer, Sized(n, Cipher))
           buffer == WithDecryptParam(n)
<1>4. /\ moved \in Buffers(Cells, MaxCmdSize)
      /\ \A i \in 0 .. MaxCmdSize - 1 :
           i \notin MovedTo .. (MovedTo + Len(Others) - 1) => moved[i] = cmdBuffer[i]
      /\ Placed(moved, MovedTo, Others)
  BY <1>1, <1>2, WrittenFacts
<1>5. buffer = WithSize(filled, commandSize + n)
  BY DEF WithDecryptParam
<1> HIDE DEF moved
<1>6. /\ filled \in Buffers(Cells, MaxCmdSize)
      /\ \A i \in 0 .. MaxCmdSize - 1 :
           i \notin cpBuffer .. (cpBuffer + (n + 1) - 1) => filled[i] = moved[i]
      /\ cpBuffer + (n + 1) <= MaxCmdSize => Placed(filled, cpBuffer, Sized(n, Cipher))
  <2>1. cpBuffer \in Nat /\ MaxCmdSize \in Nat /\ moved \in Buffers(Cells, MaxCmdSize)
    BY <1>1, <1>4
  <2>. QED  BY <1>3, <2>1, WrittenFacts
<1> HIDE DEF filled, buffer
<1>7. /\ buffer \in Buffers(Cells, MaxCmdSize) /\ buffer[1] = SizeField(commandSize + n)
      /\ \A i \in 0 .. MaxCmdSize - 1 : i # 1 => buffer[i] = filled[i]
  <2>1. commandSize + n \in Nat
    BY <1>1
  <2>. QED  BY <1>5, <1>6, <2>1, HeaderFacts
<1>8. ASSUME NEW i \in 0 .. cpBuffer - 1, i # 1
      PROVE  buffer[i] = cmdBuffer[i]
  <2>1. i \in 0 .. MaxCmdSize - 1 /\ i \notin cpBuffer .. (cpBuffer + (n + 1) - 1)
    BY <1>1
  <2>2. i \notin MovedTo .. (MovedTo + Len(Others) - 1)
    BY <1>1
  <2>. QED  BY <1>4, <1>6, <1>7, <1>8, <2>1, <2>2
<1>9. Placed(buffer, cpBuffer, Sized(n, Cipher))
  <2>1. cpBuffer + (n + 1) <= MaxCmdSize
    BY <1>1
  <2>2. ASSUME NEW i \in 1..Len(Sized(n, Cipher))
        PROVE  buffer[cpBuffer + i - 1] = Sized(n, Cipher)[i]
    <3>1. cpBuffer + i - 1 \in 0 .. MaxCmdSize - 1 /\ cpBuffer + i - 1 # 1
      BY <1>1, <1>3, <2>1
    <3>. QED  BY <1>6, <1>7, <2>1, <3>1 DEF Placed
  <2>. QED  BY <2>2 DEF Placed
<1>10. ASSUME cpBufferUsedSize = n, NEW i \in 1..Len(Others)
       PROVE  buffer[cpBuffer + n + 1 + i - 1] = Others[i]
  <2> DEFINE at == cpBuffer + n + 1 + i - 1
  <2>1. /\ at \in 0 .. MaxCmdSize - 1 /\ at # 1 /\ at = MovedTo + i - 1
        /\ at \notin cpBuffer .. (cpBuffer + (n + 1) - 1)
    BY <1>1, <1>2, <1>10
  <2>2. moved[MovedTo + i - 1] = Others[i]
    BY <1>4 DEF Placed
  <2> HIDE DEF at
  <2>3. buffer[at] = Others[i]
    BY <1>6, <1>7, <2>1, <2>2
  <2>. QED  BY <2>3 DEF at
<1>11. buffer[0] = cmdBuffer[0] /\ \A i \in 2 .. cpBuffer - 1 : buffer[i] = cmdBuffer[i]
  BY <1>1, <1>8
<1>. QED  BY <1>2, <1>7, <1>9, <1>10, <1>11 DEF buffer, Placed

LEMMA DecryptParamStep ==
  ASSUME IInv, NEW n \in Sizes, ReplaceDecryptParam(n) \/ InsertDecryptParam(n)
  PROVE  IInv'
<1>0. n \in Nat
  BY SysAssumption
<1>1. Whole /\ commandSize + n <= MaxCmdSize
  BY DEF ReplaceDecryptParam, InsertDecryptParam, DecryptAllowed
<1>2. /\ cpBuffer \in Nat /\ cpBufferUsedSize \in Nat /\ commandSize \in Nat
      /\ 3 <= cpBuffer /\ cpBuffer + cpBufferUsedSize = commandSize /\ commandSize <= MaxCmdSize
      /\ cmdBuffer \in Buffers(Cells, MaxCmdSize) /\ MaxCmdSize \in Nat
  BY <1>1, OffsetFacts, BufferFacts
<1>3. MeantEncrypted(n) \in [cmd : AllCommands, params : Seq(Cells), auths : 0..MaxAuths]
  BY <1>0, MeantEncryptedFacts
<1>4. CASE ReplaceDecryptParam(n)
  <2>1. /\ cmdBuffer' = Written(cmdBuffer, cpBuffer, Sized(n, Cipher))
        /\ asked' = MeantEncrypted(n)
        /\ UNCHANGED <<previousStage, nextData, layout, flags, rsp_header, wire, reply,
                       spoilt, prepares>>
    BY <1>4 DEF ReplaceDecryptParam
  <2>2. Sized(n, Cipher) \in Seq(Cells)
    BY <1>0, SizedFacts
  <2>3. /\ cmdBuffer' \in Buffers(Cells, MaxCmdSize)
        /\ \A i \in 0 .. MaxCmdSize - 1 :
             i \notin cpBuffer .. (cpBuffer + Len(Sized(n, Cipher)) - 1) => cmdBuffer'[i] = cmdBuffer[i]
    BY <1>2, <2>1, <2>2, WrittenFacts
  <2>4. cmdBuffer'[1] = cmdBuffer[1]
    BY <1>2, <2>3, BufferFacts
  <2>5. TypeOK'
    BY <1>3, <2>1, <2>3, BufferFacts DEF layout, flags, IInv, TypeOK
  <2>6. LayoutOK'
    BY <2>1, <2>4 DEF layout, IInv, LayoutOK, Whole, commandSize
  <2>. QED  BY <2>1, <2>5, <2>6 DEF IInv, AnswerOK, StageAgrees
<1>5. CASE InsertDecryptParam(n)
  <2>1. /\ cpBufferUsedSize >= 1 /\ MovedTo + Len(Others) <= MaxCmdSize
        /\ cmdBuffer' = WithDecryptParam(n)
        /\ cpBufferUsedSize' = cpBufferUsedSize + n
        /\ asked' = MeantEncrypted(n)
        /\ UNCHANGED <<previousStage, nextData, cpBuffer, numResponseHandles, authsCount,
                       flags, rsp_header, wire, reply, prepares>>
    BY <1>5 DEF InsertDecryptParam
  <2>2. spoilt \subseteq spoilt' /\ spoilt' \subseteq spoilt \union {"inserted"}
    BY <1>5 DEF InsertDecryptParam
  <2>3. cmdBuffer' \in Buffers(Cells, MaxCmdSize) /\ cmdBuffer'[1] = SizeField(commandSize + n)
    BY <1>0, <1>1, <2>1, InsertedFacts
  <2>4. commandSize' = commandSize + n
    BY <2>3 DEF commandSize, SizeField, Cell
  <2>5. cpBufferUsedSize' \in 0..MaxCmdSize
    BY <1>0, <1>1, <1>2, <2>1
  <2>6. TypeOK'
    BY <1>3, <2>1, <2>2, <2>3, <2>5, BufferFacts DEF flags, IInv, TypeOK
  <2>7. cpBuffer' + cpBufferUsedSize' = commandSize' /\ commandSize' <= MaxCmdSize
    BY <1>0, <1>1, <1>2, <2>1, <2>4
  <2>8. LayoutOK'
    BY <1>2, <2>1, <2>7, BufferFacts DEF LayoutOK
  <2>. QED  BY <2>1, <2>6, <2>8 DEF IInv, AnswerOK, StageAgrees
<1>. QED  BY <1>4, <1>5

(* The command goes out of the buffer. *)
LEMMA ExecuteAsyncStep ==
  ASSUME IInv, ExecuteAsync
  PROVE  IInv'
<1>1. /\ commandSize \in Nat /\ commandSize <= MaxCmdSize /\ MaxCmdSize \in Nat
      /\ cmdBuffer \in Buffers(Cells, MaxCmdSize)
  <2>1. cmdBuffer \in Buffers(Cells, MaxCmdSize)
    BY BufferFacts DEF IInv, TypeOK
  <2>. QED  BY <2>1, HeaderFacts, BufferFacts DEF ExecuteAsync, IInv, LayoutOK, commandSize
<1>2. Slice(cmdBuffer, 0, commandSize) \in Seq(Cells)
  BY <1>1, SliceFacts
<1>3. wire' \in [phase : {"idle", "sent", "answered"}, cells : Seq(Cells)]
  BY <1>2 DEF ExecuteAsync
<1>4. TypeOK'
  BY <1>3 DEF ExecuteAsync, layout, flags, history, IInv, TypeOK
<1>. QED  BY <1>4 DEF ExecuteAsync, IInv, LayoutOK, Whole, AnswerOK, StageAgrees

Replies == [tag : 0..1, code : 0..2, handles : 0..1, params : Seq(Cells), auths : 0..MaxAuths]

(* A response of the TPM has a header and cells of every kind. *)
LEMMA AnswerFacts ==
  ASSUME NEW r \in Replies
  PROVE  /\ Answer(r) \in Seq(Cells) /\ HeaderSize <= Len(Answer(r))
         /\ Answer(r)[1] = Tag(r.tag) /\ Answer(r)[3] = Code(r.code)
<1> DEFINE tag == r.tag
           code == r.code
           handles == Handles(r.handles)
           params == r.params
           rest == <<SizeField(Len(params))>> \o params \o Auths(r.auths)
<1>1. Tag(tag) \in Cells /\ Code(code) \in Cells /\ handles \in Seq(Cells) /\ params \in Seq(Cells)
  <2>1. r.tag \in Nat /\ r.code \in Nat /\ r.handles \in Nat /\ params \in Seq(Cells)
    BY DEF Replies
  <2>. QED  BY <2>1, CellTypes, HandlesFacts
<1>2. rest \in Seq(Cells)
  <2>1. r.auths \in Nat
    BY SysAssumption DEF Replies
  <2>2. Auths(r.auths) \in [1..r.auths -> Cells]
    BY <2>1 DEF Auths, Cell, Cells
  <2>3. Auths(r.auths) \in Seq(Cells)
    BY <2>1, <2>2, FunctionIsSeq
  <2> HIDE DEF params
  <2>4. <<SizeField(Len(params))>> \in Seq(Cells)
    BY <1>1, CellTypes
  <2>5. <<SizeField(Len(params))>> \o params \in Seq(Cells)
    BY <1>1, <2>4, ConcatProperties
  <2>. QED  BY <2>3, <2>5, ConcatProperties
<1>3. Answer(r) = IF tag = Sessions THEN Packet(tag, code, handles, rest)
                                    ELSE Packet(tag, code, handles, params)
  BY DEF Answer
<1> HIDE DEF tag, code, handles, params, rest
<1>4. ASSUME NEW cells \in Seq(Cells)
      PROVE  /\ Packet(tag, code, handles, cells) \in Seq(Cells)
             /\ HeaderSize <= Len(Packet(tag, code, handles, cells))
             /\ Packet(tag, code, handles, cells)[1] = Tag(tag)
             /\ Packet(tag, code, handles, cells)[3] = Code(code)
  <2>1. /\ Packet(tag, code, handles, cells) \in Seq(Cells)
        /\ Len(Packet(tag, code, handles, cells)) = HeaderSize + Len(handles) + Len(cells)
        /\ Packet(tag, code, handles, cells)[1] = Tag(tag)
        /\ Packet(tag, code, handles, cells)[3] = Code(code)
    BY <1>1, <1>4, PacketFacts DEF IsPacket
  <2>2. HeaderSize <= HeaderSize + Len(handles) + Len(cells)
    BY <1>1, <1>4, LenProperties DEF HeaderSize
  <2>. QED  BY <2>1, <2>2
<1>5. /\ Answer(r) \in Seq(Cells) /\ HeaderSize <= Len(Answer(r))
      /\ Answer(r)[1] = Tag(tag) /\ Answer(r)[3] = Code(code)
  BY <1>1, <1>2, <1>3, <1>4
<1>. QED  BY <1>5 DEF tag, code

(* The command the application means, as it should lie in the buffer. *)
LEMMA MeantFacts ==
  ASSUME TypeOK
  PROVE  LET tag  == IF asked.auths = 0 THEN NoSessions ELSE Sessions
             h    == asked.cmd.handles
             area == Area(asked.auths)
             size == HeaderSize + h + Len(area) + Len(asked.params)
         IN  /\ Meant \in Seq(Cells) /\ Len(Meant) = size
             /\ Meant[1] = Tag(tag) /\ Meant[2] = SizeField(size) /\ Meant[3] = Code(0)
             /\ \A i \in 1..h : Meant[HeaderSize + i] = Handles(h)[i]
             /\ \A i \in 1..Len(area) : Meant[HeaderSize + h + i] = area[i]
             /\ \A i \in 1..Len(asked.params) :
                  Meant[HeaderSize + h + Len(area) + i] = asked.params[i]
<1> DEFINE tag  == IF asked.auths = 0 THEN NoSessions ELSE Sessions
           h    == asked.cmd.handles
           handles == Handles(h)
           area == Area(asked.auths)
           params == asked.params
           zero == 0
           rest == area \o params
<1>0. HeaderSize \in Nat
  BY DEF HeaderSize
<1>1. Tag(tag) \in Cells /\ Code(zero) \in Cells
  BY CellTypes DEF NoSessions, Sessions
<1>2. h \in Nat /\ handles \in Seq(Cells) /\ Len(handles) = h
  <2>1. asked.cmd \in AllCommands
    BY DEF TypeOK
  <2>2. h \in Nat
    BY <2>1, CommandsAssumption
  <2> HIDE DEF h
  <2>. QED  BY <2>2, HandlesFacts
<1>3. area \in Seq(Cells) /\ params \in Seq(Cells)
  BY AreaFacts, SysAssumption DEF TypeOK
<1>4. Meant = Packet(tag, zero, handles, rest)
  BY DEF Meant
<1> HIDE DEF tag, h, handles, area, params, zero
<1>5. /\ rest \in Seq(Cells) /\ Len(rest) = Len(area) + Len(params)
      /\ \A i \in 1 .. Len(area) + Len(params) :
           rest[i] = IF i <= Len(area) THEN area[i] ELSE params[i - Len(area)]
  BY <1>3, ConcatProperties
<1> HIDE DEF rest
<1>6. /\ Meant \in Seq(Cells) /\ Len(Meant) = HeaderSize + h + Len(rest)
      /\ Meant[1] = Tag(tag) /\ Meant[2] = SizeField(HeaderSize + h + Len(rest))
      /\ Meant[3] = Code(zero)
      /\ \A i \in 1..h : Meant[HeaderSize + i] = handles[i]
      /\ \A i \in 1..Len(rest) : Meant[HeaderSize + h + i] = rest[i]
  <2>0. handles \in Seq(Cells) /\ rest \in Seq(Cells)
    BY <1>2, <1>5
  <2>1. /\ Meant \in Seq(Cells) /\ Len(Meant) = HeaderSize + Len(handles) + Len(rest)
        /\ Meant[1] = Tag(tag) /\ Meant[2] = SizeField(HeaderSize + Len(handles) + Len(rest))
        /\ Meant[3] = Code(zero)
        /\ \A i \in 1..Len(handles) : Meant[HeaderSize + i] = handles[i]
        /\ \A i \in 1..Len(rest) : Meant[HeaderSize + Len(handles) + i] = rest[i]
    <3> HIDE DEF tag, zero, handles
    <3>1. Meant = Packet(tag, zero, handles, rest)
      BY <1>4
    <3>2. IsPacket(Meant, tag, zero, handles, rest)
      BY <1>1, <2>0, <3>1, PacketFacts
    <3>. QED  BY <3>2 DEF IsPacket
  <2>. QED  BY <1>2, <2>1
<1>7. HeaderSize + h + Len(rest) = HeaderSize + h + Len(area) + Len(params)
  BY <1>0, <1>2, <1>3, <1>5
<1>8. ASSUME NEW i \in 1..Len(area)
      PROVE  Meant[HeaderSize + h + i] = area[i]
  <2>1. i \in 1..Len(rest) /\ i <= Len(area)
    BY <1>3, <1>5
  <2>. QED  BY <1>5, <1>6, <2>1
<1>9. ASSUME NEW i \in 1..Len(params)
      PROVE  Meant[HeaderSize + h + Len(area) + i] = params[i]
  <2> DEFINE j == Len(area) + i
  <2>1. /\ j \in 1..Len(rest) /\ ~(j <= Len(area)) /\ j - Len(area) = i
        /\ HeaderSize + h + Len(area) + i = HeaderSize + h + j
    BY <1>0, <1>2, <1>3, <1>5
  <2>2. Meant[HeaderSize + h + j] = rest[j]
    BY <1>6, <2>1
  <2>3. rest[j] = params[j - Len(area)]
    BY <1>5, <2>1
  <2>. QED  BY <2>1, <2>2, <2>3
<1>. QED  BY <1>6, <1>7, <1>8, <1>9 DEF tag, h, handles, area, params, zero

(* A response of the TPM that has a header. *)
LEMMA AnswersStep ==
  ASSUME IInv, NEW r \in Replies, NEW cells \in Seq(Cells), Answers(r, cells),
         HeaderSize <= Len(cells), cells[1].value \in 0..2, cells[3].value \in 0..2
  PROVE  IInv'
<1>1. /\ wire.phase = "sent" /\ Len(cells) <= MaxCmdSize
      /\ reply' = r /\ wire' = [phase |-> "answered", cells |-> cells]
      /\ UNCHANGED <<context, asked, spoilt, prepares>>
  BY DEF Answers
<1>2. /\ wire' \in [phase : {"idle", "sent", "answered"}, cells : Seq(Cells)]
      /\ wire'.phase = "answered" /\ wire'.cells = cells
  BY <1>1
<1>3. TypeOK'
  BY <1>1, <1>2 DEF Replies, context, layout, flags, IInv, TypeOK
<1>4. LayoutOK'
  BY <1>1 DEF context, layout, flags, IInv, LayoutOK, Whole, commandSize
<1>5. AnswerOK' /\ StageAgrees'
  BY <1>1, <1>2 DEF context, layout, flags, IInv, AnswerOK, StageAgrees
<1>. QED  BY <1>3, <1>4, <1>5 DEF IInv

(* The TPM's answers, regular and not. *)
LEMMA TpmStep ==
  ASSUME IInv, TpmExecutes \/ TpmRefuses \/ TpmStammers
  PROVE  IInv'
<1>1. ASSUME NEW r \in Replies, Answers(r, Answer(r))
      PROVE  IInv'
  <2> DEFINE cells == Answer(r)
  <2>1. /\ cells \in Seq(Cells) /\ HeaderSize <= Len(cells)
        /\ cells[1] = Tag(r.tag) /\ cells[3] = Code(r.code)
    BY AnswerFacts
  <2>2. Tag(r.tag).value = r.tag /\ Code(r.code).value = r.code
    BY DEF Tag, Code, Cell
  <2>3. r.tag \in 0..2 /\ r.code \in 0..2
    BY DEF Replies
  <2>4. Answers(r, cells)
    BY <1>1
  <2> HIDE DEF cells
  <2>5. cells[1].value \in 0..2 /\ cells[3].value \in 0..2
    BY <2>1, <2>2, <2>3
  <2>. QED  BY <2>1, <2>4, <2>5, AnswersStep
<1>2. CASE TpmExecutes
  <2>1. PICK n \in Sizes, what \in Kinds(asked.cmd) :
          Answers(Executed(asked.cmd, n, what), Answer(Executed(asked.cmd, n, what)))
    BY <1>2 DEF TpmExecutes
  <2> DEFINE c == asked.cmd
             r == Executed(c, n, what)
  <2>2. c \in AllCommands /\ asked.auths \in 0..MaxAuths /\ n \in Nat
    BY SysAssumption DEF IInv, TypeOK
  <2>3. what \in {Plain, Cipher, Foreign}
    BY DEF Kinds
  <2>4. Results(c, n, what) \in Seq(Cells)
    <3> HIDE DEF c
    <3>. QED  BY <2>2, <2>3, ResultsFacts
  <2>5. (IF c.moreResults THEN <<Value>> ELSE <<>>) \in Seq(Cells)
    BY CellTypes, EmptySeq
  <2>6. Results(c, n, what) \o (IF c.moreResults THEN <<Value>> ELSE <<>>) \in Seq(Cells)
    BY <2>4, <2>5, ConcatProperties
  <2>7. c.rspHandles \in 0..1
    BY <2>2, CommandsAssumption
  <2>8. wire.cells[1].value \in 0..1
    <3>1. wire.cells = Meant
      BY <1>2 DEF TpmExecutes
    <3>2. Meant[1] = Tag(IF asked.auths = 0 THEN NoSessions ELSE Sessions)
      BY MeantFacts DEF IInv
    <3>3. Meant[1].value = IF asked.auths = 0 THEN NoSessions ELSE Sessions
      BY <3>2 DEF Tag, Cell
    <3>. QED  BY <3>1, <3>3 DEF NoSessions, Sessions
  <2>9. r \in Replies
    BY <2>2, <2>6, <2>7, <2>8 DEF Executed, Replies, Success
  <2>. QED  BY <1>1, <2>1, <2>9
<1>3. CASE TpmRefuses
  <2>1. PICK code \in {Refused, Canceled} :
          Answers([NoReply EXCEPT !.code = code], Answer([NoReply EXCEPT !.code = code]))
    BY <1>3 DEF TpmRefuses
  <2>2. code \in 0..2
    BY <2>1 DEF Refused, Canceled
  <2>3. NoReply \in Replies
    BY SysAssumption, EmptySeq DEF NoReply, Replies, NoSessions, Refused
  <2>4. [NoReply EXCEPT !.code = code] \in Replies
    BY <2>2, <2>3 DEF Replies
  <2>. QED  BY <1>1, <2>1, <2>4
<1>4. CASE TpmStammers
  <2>1. PICK header \in {<<Tag(Invalid), SizeField(HeaderSize)>>,
                         <<Tag(NoSessions), SizeField(MaxCmdSize + 1)>>,
                         <<Tag(NoSessions), SizeField(HeaderSize - 1)>>} :
          Answers(NoReply, header \o <<Code(Success)>>)
    BY <1>4 DEF TpmStammers
  <2>2. PICK tag \in {Invalid, NoSessions}, size \in Nat : header = <<Tag(tag), SizeField(size)>>
    BY BufferFacts
  <2>3. Tag(tag) \in Cells /\ SizeField(size) \in Cells /\ Code(Success) \in Cells
    BY CellTypes DEF Invalid, NoSessions, Success
  <2>4. Tag(tag).value \in 0..2 /\ Code(Success).value \in 0..2
    BY DEF Tag, Code, Cell, Invalid, NoSessions, Success
  <2> DEFINE one   == Tag(tag)
             two   == SizeField(size)
             three == Code(Success)
             cells == <<one, two>> \o <<three>>
  <2>5. Answers(NoReply, cells)
    BY <2>1, <2>2
  <2> HIDE DEF one, two, three
  <2>6. one \in Cells /\ three \in Cells /\ two \in Cells /\ one.value \in 0..2 /\ three.value \in 0..2
    BY <2>3, <2>4 DEF one, two, three
  <2>7. cells \in Seq(Cells) /\ Len(cells) = 3 /\ cells[1] = one /\ cells[3] = three
    BY <2>6, ConcatProperties
  <2>8. NoReply \in Replies
    BY SysAssumption, EmptySeq DEF NoReply, Replies, NoSessions, Refused
  <2> HIDE DEF cells
  <2>. QED  BY <2>5, <2>6, <2>7, <2>8, AnswersStep, BufferFacts
<1>. QED  BY <1>2, <1>3, <1>4

(* The response comes into the buffer. *)
LEMMA ExecuteFinishStep ==
  ASSUME IInv, ExecuteFinish
  PROVE  IInv'
<1> DEFINE buffer == Written(cmdBuffer, 0, wire.cells)
           header == [tag |-> buffer[0].value, responseSize |-> buffer[1].value,
                      responseCode |-> buffer[2].value]
           wrongTag  == header.tag \notin {NoSessions, Sessions}
           wrongSize == header.responseSize > MaxCmdSize
           again     == header.responseSize < HeaderSize \/ header.responseCode = Canceled
<1>1. /\ previousStage = "SEND_COMMAND" /\ wire.phase = "answered"
      /\ cmdBuffer' = buffer /\ wire' = Quiet
      /\ nextData' = (IF wrongTag THEN 1 ELSE IF wrongSize THEN 2 ELSE HeaderSize)
      /\ rsp_header' = (IF wrongTag THEN [rsp_header EXCEPT !.tag = header.tag]
                        ELSE IF wrongSize THEN [header EXCEPT !.responseCode = rsp_header.responseCode]
                        ELSE header)
      /\ previousStage' = (IF wrongTag \/ wrongSize THEN "SEND_COMMAND"
                           ELSE IF again THEN "PREPARE" ELSE "RECEIVE_RESPONSE")
      /\ spoilt' = (IF previousStage' = "PREPARE" THEN spoilt \union {"cancelled"} ELSE spoilt)
      /\ UNCHANGED <<layout, flags, asked, reply, prepares>>
  BY DEF ExecuteFinish
<1>2. /\ wire.cells \in Seq(Cells) /\ Len(wire.cells) \in Nat /\ HeaderSize <= Len(wire.cells)
      /\ Len(wire.cells) <= MaxCmdSize /\ wire.cells[1].value \in 0..2
      /\ wire.cells[3].value \in 0..2
  BY <1>1 DEF IInv, TypeOK, AnswerOK
<1>3. cmdBuffer \in Buffers(Cells, MaxCmdSize) /\ rsp_header \in [tag : 0..2, responseSize : Nat, responseCode : 0..2]
  BY BufferFacts DEF IInv, TypeOK
<1>4. buffer \in Buffers(Cells, MaxCmdSize) /\ Placed(buffer, 0, wire.cells)
  <2>1. 0 + Len(wire.cells) <= MaxCmdSize /\ 0 \in Nat
    BY <1>2
  <2>. QED  BY <1>2, <1>3, <2>1, WrittenFacts, BufferFacts
<1> HIDE DEF buffer
<1>5. buffer[0] = wire.cells[1] /\ buffer[2] = wire.cells[3]
  <2>1. 1 \in 1..Len(wire.cells) /\ 3 \in 1..Len(wire.cells)
    BY <1>2 DEF HeaderSize
  <2>2. buffer[0 + 1 - 1] = wire.cells[1] /\ buffer[0 + 3 - 1] = wire.cells[3]
    BY <1>4, <2>1 DEF Placed
  <2>. QED  BY <2>2
<1>6. buffer[0].value \in 0..2 /\ buffer[2].value \in 0..2 /\ buffer[1].value \in Nat
  BY <1>2, <1>4, <1>5, HeaderFacts
<1>7. header \in [tag : 0..2, responseSize : Nat, responseCode : 0..2]
  BY <1>6
<1>8. header.responseSize = buffer[1].value
  OBVIOUS
<1> HIDE DEF header
<1>9. rsp_header' \in [tag : 0..2, responseSize : Nat, responseCode : 0..2]
  BY <1>1, <1>3, <1>7
<1>10. nextData' \in 0 .. MaxCmdSize + 2
  BY <1>1, BufferFacts
<1>11. /\ wire' \in [phase : {"idle", "sent", "answered"}, cells : Seq(Cells)]
       /\ wire'.phase = "idle"
  BY <1>1, EmptySeq DEF Quiet
<1>12. spoilt \subseteq spoilt' /\ spoilt' \subseteq spoilt \union {"cancelled"}
       /\ (previousStage' = "PREPARE" => "cancelled" \in spoilt')
       /\ previousStage' \in {"PREPARE", "SEND_COMMAND", "RECEIVE_RESPONSE"}
  BY <1>1
<1>13. TypeOK'
  BY <1>1, <1>4, <1>9, <1>10, <1>11, <1>12, BufferFacts DEF layout, flags, IInv, TypeOK
<1>14. previousStage' = "PREPARE" => commandSize' <= MaxCmdSize
  <2>1. previousStage' = "PREPARE" => ~wrongSize
    BY <1>1
  <2>2. commandSize' = buffer[1].value
    BY <1>1 DEF commandSize
  <2>. QED  BY <1>6, <1>8, <2>1, <2>2, BufferFacts
<1>15. LayoutOK'
  BY <1>12, <1>14 DEF LayoutOK, Whole
<1>16. AnswerOK'
  BY <1>11 DEF AnswerOK
<1>17. previousStage' = "SEND_COMMAND" =>
         rsp_header'.tag = Invalid \/ rsp_header'.responseSize > MaxCmdSize
  <2>1. CASE wrongTag
    <3>1. rsp_header'.tag = header.tag
      BY <1>1, <1>3, <2>1
    <3>2. header.tag \in 0..2
      BY <1>7
    <3>. QED  BY <2>1, <3>1, <3>2 DEF NoSessions, Sessions, Invalid
  <2>2. CASE ~wrongTag /\ wrongSize
    <3>1. rsp_header' = [header EXCEPT !.responseCode = rsp_header.responseCode]
      BY <1>1, <2>2
    <3>2. rsp_header'.responseSize = header.responseSize
      BY <1>7, <3>1
    <3>. QED  BY <2>2, <3>2
  <2>3. CASE ~wrongTag /\ ~wrongSize
    BY <1>1, <2>3
  <2>. QED  BY <2>1, <2>2, <2>3
<1>18. StageAgrees'
  BY <1>11, <1>17 DEF StageAgrees
<1>. QED  BY <1>13, <1>15, <1>16, <1>18 DEF IInv

(* The first result, decrypted in place. *)
LEMMA SetEncryptParamStep ==
  ASSUME IInv, NEW n \in Sizes, SetEncryptParam(n)
  PROVE  IInv'
<1>1. /\ previousStage = "RECEIVE_RESPONSE"
      /\ cmdBuffer' = Written(cmdBuffer, EncryptParam + 1, Contents(n, Plain))
      /\ reply' = [reply EXCEPT !.params = Results(asked.cmd, n, Plain) \o
                                SubSeq(@, n + 2, Len(@))]
      /\ UNCHANGED <<previousStage, nextData, layout, flags, rsp_header, wire, asked,
                     spoilt, prepares>>
  BY DEF SetEncryptParam
<1>2. n \in Nat /\ asked.cmd \in AllCommands /\ reply \in Replies
  BY SysAssumption DEF IInv, TypeOK, Replies
<1>3. Contents(n, Plain) \in Seq(Cells) /\ Results(asked.cmd, n, Plain) \in Seq(Cells)
  BY <1>2, SizedFacts, ResultsFacts
<1>4. cmdBuffer' \in Buffers(Cells, MaxCmdSize)
  <2>1. EncryptParam + 1 \in Nat /\ cmdBuffer \in Buffers(Cells, MaxCmdSize)
    BY BufferFacts DEF EncryptParam, IInv, TypeOK
  <2>. QED  BY <1>1, <1>3, <2>1, WrittenFacts, BufferFacts
<1>5. reply' \in Replies
  <2> DEFINE others == SubSeq(reply.params, n + 2, Len(reply.params))
             results == Results(asked.cmd, n, Plain)
  <2>1. others \in Seq(Cells)
    BY <1>2, SubSeqProperties DEF Replies
  <2>2. reply' = [reply EXCEPT !.params = results \o others]
    BY <1>1
  <2> HIDE DEF others, results
  <2>3. results \o others \in Seq(Cells)
    BY <1>3, <2>1, ConcatProperties DEF results
  <2>. QED  BY <1>2, <2>2, <2>3 DEF Replies
<1>6. TypeOK'
  BY <1>1, <1>4, <1>5, BufferFacts DEF layout, flags, IInv, TypeOK, Replies
<1>. QED  BY <1>1, <1>6 DEF IInv, LayoutOK, Whole, AnswerOK, StageAgrees

(* Complete reads the response up to the end of the buffer at most. *)
LEMMA CompletedFacts ==
  ASSUME IInv, NEW dest
  PROVE  Completed(dest).offset \in 0 .. MaxCmdSize + 2
<1> DEFINE B == MaxCmdSize + 2
           R == Readers(Cells, MaxCmdSize)
           c == asked.cmd
           handles == Unmarshal(Cursor(cmdBuffer, nextData), MaxCmdSize, c.rspHandles)
           params  == [handles EXCEPT !.offset = IF handles.ok THEN ParamsStart ELSE @]
           first   == CASE c.result = "none"   -> params
                        [] c.result = "plain"  -> Unmarshal(params, MaxCmdSize, 1)
                        [] c.result = "sized"  -> UnmarshalSized(params, MaxCmdSize, dest)
                        [] c.result = "nested" -> UnmarshalNested(params, MaxCmdSize, dest)
           last    == IF c.moreResults THEN Unmarshal(first, MaxCmdSize, 1) ELSE first
<1>0. \A cell \in Cells : cell.value \in Nat
  BY DEF Cells
<1>1. ASSUME NEW cursor \in R, cursor.offset <= B, NEW n \in Nat
      PROVE  /\ Unmarshal(cursor, MaxCmdSize, n) \in R
             /\ Unmarshal(cursor, MaxCmdSize, n).offset <= B
             /\ UnmarshalSized(cursor, MaxCmdSize, dest) \in R
             /\ UnmarshalSized(cursor, MaxCmdSize, dest).offset <= B
             /\ UnmarshalNested(cursor, MaxCmdSize, dest) \in R
             /\ UnmarshalNested(cursor, MaxCmdSize, dest).offset <= B
  <2>1. ASSUME NEW result, Unmarshals(Cells, MaxCmdSize, cursor, result)
        PROVE  result \in R /\ result.offset <= B
    BY <1>1, <2>1, BufferFacts DEF Unmarshals, Readers
  <2>2. /\ Unmarshals(Cells, MaxCmdSize, cursor, Unmarshal(cursor, MaxCmdSize, n))
        /\ Unmarshals(Cells, MaxCmdSize, cursor, UnmarshalSized(cursor, MaxCmdSize, dest))
        /\ Unmarshals(Cells, MaxCmdSize, cursor, UnmarshalNested(cursor, MaxCmdSize, dest))
    BY <1>0, BufferFacts, UnmarshalKeepsPromise
  <2>. QED  BY <2>1, <2>2
<1>2. /\ c \in AllCommands /\ c.rspHandles \in Nat
      /\ c.result \in {"none", "plain", "sized", "nested"}
  <2>1. c \in AllCommands
    BY DEF IInv, TypeOK
  <2> HIDE DEF c
  <2>. QED  BY <2>1, CommandsAssumption
<1>3. Cursor(cmdBuffer, nextData) \in R /\ Cursor(cmdBuffer, nextData).offset <= B
  BY BufferFacts, EmptySeq DEF Cursor, Readers, IInv, TypeOK
<1>4. handles \in R /\ handles.offset <= B
  BY <1>1, <1>2, <1>3
<1>5. ParamsStart \in Nat /\ ParamsStart <= B
  BY BufferFacts DEF ParamsStart, IInv, TypeOK
<1> HIDE DEF handles
<1>6. params \in R /\ params.offset <= B
  BY <1>4, <1>5 DEF Readers
<1> HIDE DEF params, R, B
<1>7. first \in R /\ first.offset <= B
  BY <1>1, <1>2, <1>6
<1> HIDE DEF first
<1>8. last \in R /\ last.offset <= B
  BY <1>1, <1>7
<1>9. Completed(dest) = last
  BY DEF Completed, handles, params, first
<1> HIDE DEF last
<1>. QED  BY <1>8, <1>9, BufferFacts DEF R, B, Readers

LEMMA CompleteStep ==
  ASSUME IInv, Complete
  PROVE  IInv'
<1>1. /\ previousStage = "RECEIVE_RESPONSE"
      /\ UNCHANGED <<previousStage, cmdBuffer, layout, flags, rsp_header, wire, history>>
  BY DEF Complete
<1>2. nextData' \in 0 .. MaxCmdSize + 2
  <2>1. PICK dest : nextData' = Completed(dest).offset
    BY DEF Complete
  <2>. QED  BY <2>1, CompletedFacts
<1>3. TypeOK'
  BY <1>1, <1>2 DEF layout, flags, history, IInv, TypeOK
<1>. QED  BY <1>1, <1>3 DEF history, IInv, LayoutOK, Whole, AnswerOK, StageAgrees
-----------------------------------------------------------------------------
LEMMA InitInvariant == Init => IInv
<1>1. Nothing \in [cmd : AllCommands, params : Seq(Cells), auths : 0..MaxAuths]
  BY SysAssumption, EmptySeq DEF Nothing, AllCommands
<1>2. NoReply \in Replies
  BY SysAssumption, EmptySeq DEF NoReply, Replies, NoSessions, Refused
<1>3. SizeField(0) \in Cells
  BY CellTypes
<1>4. NoHeader \in [tag : 0..2, responseSize : Nat, responseCode : 0..2]
  BY DEF NoHeader, NoSessions, Success
<1>5. Quiet \in [phase : {"idle", "sent", "answered"}, cells : Seq(Cells)] /\ Quiet.phase = "idle"
  BY EmptySeq DEF Quiet
<1>6. ASSUME Init
      PROVE  TypeOK
  <2>1. cmdBuffer \in [0 .. MaxCmdSize - 1 -> Cells]
    BY <1>3, <1>6 DEF Init
  <2>2. /\ nextData \in 0 .. MaxCmdSize + 2 /\ cpBuffer \in 0 .. MaxCmdSize + HeaderSize
        /\ cpBufferUsedSize \in 0..MaxCmdSize /\ numResponseHandles \in 0..1
        /\ authsCount \in 0..MaxAuths /\ prepares \in 0..MaxPrepares
    BY <1>6, SysAssumption, BufferFacts DEF Init
  <2>3. /\ asked = Nothing /\ reply = NoReply /\ wire = Quiet /\ rsp_header = NoHeader
        /\ spoilt = {} /\ allowed = {} /\ decryptNull = FALSE /\ previousStage = "INITIALIZE"
    BY <1>6 DEF Init
  <2>. QED  BY <1>1, <1>2, <1>4, <1>5, <2>1, <2>2, <2>3 DEF TypeOK, Replies
<1>7. Init => LayoutOK /\ AnswerOK /\ StageAgrees
  BY <1>5 DEF Init, LayoutOK, Whole, AnswerOK, StageAgrees
<1>. QED  BY <1>6, <1>7 DEF IInv

LEMMA StepInvariant == IInv /\ [Next]_vars => IInv'
<1> SUFFICES ASSUME IInv, [Next]_vars
             PROVE  IInv'
  OBVIOUS
<1>1. Commands \subseteq AllCommands /\ Later \subseteq AllCommands
  BY SysAssumption
<1>2. ASSUME NEW c \in Preparable, NEW n \in Units(c), Prepare(c, n) \/ PrepareFails(c, n)
      PROVE  IInv'
  <2>1. c \in AllCommands /\ n \in Nat
    <3>1. n \in Nat
      BY SysAssumption DEF Units
    <3>2. c \in AllCommands
      BY <1>1 DEF Preparable
    <3>. QED  BY <3>1, <3>2
  <2>. QED  BY <1>2, <2>1, PrepareStep, PrepareFailsStep
<1>3. CASE PrepareRefused \/ SetNoAuths \/ Initialize \/ UNCHANGED vars
  BY <1>3, FlagsStep
<1>4. CASE \E n \in 1..MaxAuths : SetCmdAuths(n) \/ SetCmdAuthsFails(n)
  BY <1>4, SetCmdAuthsStep
<1>5. CASE \E n \in Sizes : ReplaceDecryptParam(n) \/ InsertDecryptParam(n)
  BY <1>5, DecryptParamStep
<1>6. CASE ExecuteAsync
  BY <1>6, ExecuteAsyncStep
<1>7. CASE TpmExecutes \/ TpmRefuses \/ TpmStammers
  BY <1>7, TpmStep
<1>8. CASE ExecuteFinish
  BY <1>8, ExecuteFinishStep
<1>9. CASE \E n \in Sizes : SetEncryptParam(n)
  BY <1>9, SetEncryptParamStep
<1>10. CASE Complete
  BY <1>10, CompleteStep
<1>. QED  BY <1>2, <1>3, <1>4, <1>5, <1>6, <1>7, <1>8, <1>9, <1>10 DEF Next

LEMMA Invariant == Spec => []IInv
BY InitInvariant, StepInvariant, PTL DEF Spec

(* Every variable keeps its type: no offset leaves the buffer, but for those of
   parameters for which there was no room. *)
THEOREM TypeCorrect == Spec => []TypeOK
<1>1. IInv => TypeOK
  BY DEF IInv
<1>. QED  BY <1>1, Invariant, PTL

(* While a command is put together, its parameters are where the context says,
   and end where the command ends, within the buffer. *)
THEOREM LayoutInPlace == Spec => []LayoutAgrees
<1>1. IInv => LayoutAgrees
  BY DEF IInv, LayoutOK, LayoutAgrees, Whole
<1>. QED  BY <1>1, Invariant, PTL

(* A context waits for a response exactly while one is under way, or the last
   one was malformed. *)
THEOREM StagesAgree == Spec => []StageAgrees
<1>1. IInv => StageAgrees
  BY DEF IInv
<1>. QED  BY <1>1, Invariant, PTL
-----------------------------------------------------------------------------
(* A context sends the command its application means.                        *)

(* Where the authorisation area of the command is, and how it begins. *)
AreaAt == HeaderSize + asked.cmd.handles
CommandTag == IF asked.auths = 0 THEN NoSessions ELSE Sessions

(* A sized first parameter has the units it announces, and what may follow it
   is one cell, the last. *)
ParamsShape ==
  asked.cmd.param \in {"lax", "optional"} =>
    /\ Len(asked.params) >= 1 /\ asked.params[1].kind = "size"
    /\ Len(asked.params) = 1 + asked.params[1].value + Len(Rest(asked.cmd))
    /\ asked.cmd.more => asked.params[Len(asked.params)] = Value

(* What lies in the buffer while nothing has been done to spoil it: the parts
   of the command that is meant, each at its place. *)
CommandLaid ==
  previousStage = "PREPARE" /\ spoilt = {} =>
    /\ allowed = asked.cmd.allowed
    /\ cpBuffer = AreaAt + Len(Area(asked.auths))
    /\ cpBufferUsedSize = Len(asked.params)
    /\ cmdBuffer[0] = Tag(CommandTag) /\ cmdBuffer[1] = SizeField(commandSize)
    /\ cmdBuffer[2] = Code(0)
    /\ Placed(cmdBuffer, HeaderSize, Handles(asked.cmd.handles))
    /\ Placed(cmdBuffer, AreaAt, Area(asked.auths))
    /\ Placed(cmdBuffer, cpBuffer, asked.params)
    /\ ParamsShape

LaidInv == IInv /\ CommandLaid /\ SentAsMeant
-----------------------------------------------------------------------------
(* Types of the parts of the command that is meant. *)
LEMMA AskedFacts ==
  ASSUME IInv
  PROVE  /\ asked.cmd \in AllCommands /\ asked.cmd.handles \in Nat
         /\ asked.auths \in Nat /\ AreaAt \in Nat /\ AreaAt >= 3
         /\ asked.params \in Seq(Cells) /\ Len(asked.params) \in Nat
         /\ Area(asked.auths) \in Seq(Cells) /\ Len(Area(asked.auths)) \in Nat
         /\ Handles(asked.cmd.handles) \in Seq(Cells)
         /\ Len(Handles(asked.cmd.handles)) = asked.cmd.handles
<1>1. /\ asked.cmd \in AllCommands /\ asked.params \in Seq(Cells) /\ asked.auths \in Nat
  BY SysAssumption DEF IInv, TypeOK
<1>2. asked.cmd.handles \in Nat
  BY <1>1, CommandsAssumption
<1>3. AreaAt \in Nat /\ AreaAt >= 3
  BY <1>2 DEF AreaAt, HeaderSize
<1>. QED  BY <1>1, <1>2, <1>3, AreaFacts, HandlesFacts, LenProperties

(* What is laid so is the command that is meant. *)
LEMMA LaidIsMeant ==
  ASSUME IInv, CommandLaid, previousStage = "PREPARE", spoilt = {}
  PROVE  Slice(cmdBuffer, 0, commandSize) = Meant
<1> DEFINE h    == asked.cmd.handles
           area == Area(asked.auths)
           params == asked.params
           size == HeaderSize + h + Len(area) + Len(params)
<1>1. /\ h \in Nat /\ Len(area) \in Nat /\ Len(params) \in Nat
      /\ Len(Handles(h)) = h /\ AreaAt = 3 + h /\ HeaderSize = 3
  BY AskedFacts DEF AreaAt, HeaderSize
<1>2. /\ Meant \in Seq(Cells) /\ Len(Meant) = size
      /\ Meant[1] = Tag(CommandTag) /\ Meant[2] = SizeField(size) /\ Meant[3] = Code(0)
      /\ \A i \in 1..h : Meant[HeaderSize + i] = Handles(h)[i]
      /\ \A i \in 1..Len(area) : Meant[HeaderSize + h + i] = area[i]
      /\ \A i \in 1..Len(params) : Meant[HeaderSize + h + Len(area) + i] = params[i]
  BY MeantFacts DEF IInv, CommandTag
<1>3. Whole
  BY DEF Whole
<1>4. /\ commandSize = cpBuffer + cpBufferUsedSize /\ commandSize <= MaxCmdSize
      /\ cmdBuffer \in Buffers(Cells, MaxCmdSize)
  BY <1>3, OffsetFacts
<1>5. /\ cpBuffer = AreaAt + Len(area) /\ cpBufferUsedSize = Len(params)
      /\ cmdBuffer[0] = Tag(CommandTag) /\ cmdBuffer[1] = SizeField(commandSize)
      /\ cmdBuffer[2] = Code(0)
      /\ Placed(cmdBuffer, HeaderSize, Handles(h))
      /\ Placed(cmdBuffer, AreaAt, area)
      /\ Placed(cmdBuffer, cpBuffer, params)
  BY DEF CommandLaid
<1> HIDE DEF h, area, params, size
<1>6. size = 3 + h + Len(area) + Len(params) /\ commandSize = size
  BY <1>1, <1>4, <1>5 DEF size
<1>7. ASSUME NEW i \in 1..size
      PROVE  cmdBuffer[i - 1] = Meant[i]
  <2>1. CASE i \in 1..3
    <3>1. i = 1 \/ i = 2 \/ i = 3
      BY <2>1
    <3>2. cmdBuffer[1 - 1] = Meant[1] /\ cmdBuffer[2 - 1] = Meant[2] /\ cmdBuffer[3 - 1] = Meant[3]
      BY <1>2, <1>5, <1>6
    <3>. QED  BY <3>1, <3>2
  <2>2. CASE i \in 4 .. 3 + h
    <3> DEFINE j == i - 3
    <3>1. j \in 1..h /\ 3 + j = i /\ 3 + j - 1 = i - 1
      BY <1>1, <2>2
    <3>2. cmdBuffer[3 + j - 1] = Handles(h)[j] /\ Meant[3 + j] = Handles(h)[j]
      BY <1>1, <1>2, <1>5, <3>1 DEF Placed
    <3>. QED  BY <3>1, <3>2
  <2>3. CASE i \in 4 + h .. 3 + h + Len(area)
    <3> DEFINE j == i - (3 + h)
    <3>1. j \in 1..Len(area) /\ 3 + h + j = i /\ AreaAt + j - 1 = i - 1
      BY <1>1, <2>3
    <3>2. cmdBuffer[AreaAt + j - 1] = area[j] /\ Meant[3 + h + j] = area[j]
      BY <1>1, <1>2, <1>5, <3>1 DEF Placed
    <3>. QED  BY <3>1, <3>2
  <2>4. CASE i \in 4 + h + Len(area) .. size
    <3> DEFINE j == i - (3 + h + Len(area))
    <3>1. j \in 1..Len(params) /\ 3 + h + Len(area) + j = i /\ cpBuffer + j - 1 = i - 1
      BY <1>1, <1>5, <1>6, <2>4
    <3>2. cmdBuffer[cpBuffer + j - 1] = params[j] /\ Meant[3 + h + Len(area) + j] = params[j]
      BY <1>1, <1>2, <1>5, <3>1 DEF Placed
    <3>. QED  BY <3>1, <3>2
  <2>5. i \in 1..3 \/ i \in 4 .. 3 + h \/ i \in 4 + h .. 3 + h + Len(area)
          \/ i \in 4 + h + Len(area) .. size
    BY <1>1, <1>6
  <2>. QED  BY <2>1, <2>2, <2>3, <2>4, <2>5
<1>8. Placed(cmdBuffer, 0, Meant)
  <2>1. ASSUME NEW i \in 1..Len(Meant)
        PROVE  cmdBuffer[0 + i - 1] = Meant[i]
    <3>1. 0 + i - 1 = i - 1 /\ i \in 1..size
      BY <1>2
    <3>. QED  BY <1>7, <3>1
  <2>. QED  BY <2>1 DEF Placed
<1>9. Slice(cmdBuffer, 0, Len(Meant)) = Meant
  <2>1. 0 \in Nat /\ 0 + Len(Meant) <= MaxCmdSize
    BY <1>1, <1>2, <1>4, <1>6
  <2>. QED  BY <1>2, <1>4, <1>8, <2>1, SlicePlaced, BufferFacts
<1>. QED  BY <1>2, <1>6, <1>9
-----------------------------------------------------------------------------
(* Sized parameters and what follows them. *)
LEMMA ShapeFacts ==
  ASSUME NEW c \in AllCommands, NEW n \in Nat, NEW what \in {Plain, Cipher, Foreign}
  PROVE  LET params == Sized(n, what) \o Rest(c)
         IN  /\ params \in Seq(Cells) /\ Len(params) = 1 + n + Len(Rest(c))
             /\ Len(Rest(c)) = IF c.more THEN 1 ELSE 0
             /\ \A i \in 1 .. n + 1 : params[i] = Sized(n, what)[i]
             /\ Len(params) >= 1 /\ params[1].kind = "size" /\ params[1].value = n
             /\ c.more => params[Len(params)] = Value
<1> DEFINE first == Sized(n, what)
           rest  == Rest(c)
           params == first \o rest
<1>1. first \in Seq(Cells) /\ Len(first) = n + 1 /\ first[1] = SizeField(n)
  BY SizedFacts
<1>2. rest \in Seq(Cells) /\ Len(rest) = (IF c.more THEN 1 ELSE 0) /\ (c.more => rest[1] = Value)
  BY RestFacts
<1> HIDE DEF first, rest
<1>3. /\ params \in Seq(Cells) /\ Len(params) = n + 1 + Len(rest)
      /\ \A i \in 1 .. n + 1 + Len(rest) :
           params[i] = IF i <= n + 1 THEN first[i] ELSE rest[i - (n + 1)]
  <2>1. /\ params \in Seq(Cells) /\ Len(params) = Len(first) + Len(rest)
        /\ \A i \in 1 .. Len(first) + Len(rest) :
             params[i] = IF i <= Len(first) THEN first[i] ELSE rest[i - Len(first)]
    BY <1>1, <1>2, ConcatProperties
  <2> HIDE DEF params
  <2>. QED  BY <1>1, <2>1
<1> HIDE DEF params
<1>4. \A i \in 1 .. n + 1 : params[i] = first[i]
  BY <1>2, <1>3
<1>5. params[1] = SizeField(n)
  BY <1>1, <1>4
<1>6. ASSUME c.more
      PROVE  params[Len(params)] = Value
  <2>1. Len(params) = n + 2 /\ (n + 2) - (n + 1) = 1 /\ ~(n + 2 <= n + 1) /\ n + 2 \in 1 .. n + 1 + Len(rest)
    BY <1>2, <1>3, <1>6
  <2>2. params[n + 2] = rest[(n + 2) - (n + 1)]
    BY <1>3, <2>1
  <2>. QED  BY <1>2, <1>6, <2>1, <2>2
<1>7. Len(params) = 1 + n + Len(rest) /\ Len(params) >= 1
  BY <1>2, <1>3
<1>. QED  BY <1>2, <1>3, <1>4, <1>5, <1>6, <1>7 DEF first, rest, params, SizeField, Cell
-----------------------------------------------------------------------------
(* Every action keeps the command laid, once its Prepare has laid it. *)

LEMMA PrepareLays ==
  ASSUME IInv, NEW c \in AllCommands, NEW n \in Nat, Prepare(c, n)
  PROVE  CommandLaid'
<1> DEFINE end == Marshalled(c, n).all
           cells == First(c, n) \o Rest(c)
           cp == HeaderSize + c.handles
<1>1. /\ end \in Cursors(Cells, MaxCmdSize)
      /\ end.buffer[0] = Tag(NoSessions) /\ end.buffer[2] = Code(0)
      /\ end.offset = cp + Len(cells)
      /\ Placed(end.buffer, HeaderSize, Handles(c.handles))
      /\ Placed(end.buffer, cp, cells)
  BY MarshalledFacts DEF Prepare, IInv
<1>2. c.handles \in Nat /\ c.handles = GetNumCommandHandles(c.name)
  BY CommandsAssumption
<1>3. /\ cmdBuffer' = WithSize(end.buffer, end.offset)
      /\ cpBuffer' = cp /\ cpBufferUsedSize' = end.offset - cp
      /\ allowed' = c.allowed
      /\ asked' = [cmd |-> c, params |-> cells, auths |-> 0]
  BY <1>2 DEF Prepare
<1>4. cells \in Seq(Cells) /\ Len(cells) \in Nat
  BY FirstFacts, RestFacts, ConcatProperties
<1>5. end.buffer \in Buffers(Cells, MaxCmdSize) /\ end.offset \in Nat /\ end.offset <= MaxCmdSize
  <2> HIDE DEF end
  <2>. QED  BY <1>1, BufferFacts DEF Cursors
<1>6. c.param \in {"lax", "optional"} =>
        /\ Len(cells) >= 1 /\ cells[1].kind = "size"
        /\ Len(cells) = 1 + cells[1].value + Len(Rest(c))
        /\ c.more => cells[Len(cells)] = Value
  <2>1. c.param \in {"lax", "optional"} => First(c, n) = Sized(n, Plain)
    BY FirstFacts
  <2> DEFINE meant == Sized(n, Plain) \o Rest(c)
  <2>2. /\ Len(meant) >= 1 /\ meant[1].kind = "size" /\ meant[1].value = n
        /\ Len(meant) = 1 + n + Len(Rest(c))
        /\ c.more => meant[Len(meant)] = Value
    BY ShapeFacts DEF Plain
  <2> HIDE DEF meant, cells
  <2>3. c.param \in {"lax", "optional"} => cells = meant
    BY <2>1 DEF meant, cells
  <2>. QED  BY <2>2, <2>3
<1> HIDE DEF end, cells
<1>7. /\ asked'.cmd = c /\ asked'.params = cells /\ asked'.auths = 0
  BY <1>3
<1>8. /\ cmdBuffer'[1] = SizeField(end.offset)
      /\ \A i \in 0 .. MaxCmdSize - 1 : i # 1 => cmdBuffer'[i] = end.buffer[i]
  BY <1>3, <1>5, HeaderFacts
<1>9. commandSize' = end.offset
  BY <1>8 DEF commandSize, SizeField, Cell
<1>10. cmdBuffer'[0] = Tag(NoSessions) /\ cmdBuffer'[2] = Code(0)
  BY <1>1, <1>8, BufferFacts
<1>11. Placed(cmdBuffer', HeaderSize, Handles(c.handles))
  <2>1. Len(Handles(c.handles)) = c.handles /\ HeaderSize = 3 /\ MaxCmdSize \in Nat
    BY <1>2, HandlesFacts, BufferFacts
  <2>2. ASSUME NEW i \in 1..c.handles
        PROVE  cmdBuffer'[HeaderSize + i - 1] = Handles(c.handles)[i]
    <3>1. HeaderSize + i - 1 \in 0 .. MaxCmdSize - 1 /\ HeaderSize + i - 1 # 1
      <4>1. cp = 3 + c.handles /\ cp + Len(cells) <= MaxCmdSize
        BY <1>1, <1>5, <2>1
      <4>. QED  BY <1>2, <1>4, <2>1, <4>1
    <3>. QED  BY <1>1, <1>8, <2>1, <3>1 DEF Placed
  <2>. QED  BY <2>1, <2>2 DEF Placed
<1>12. Placed(cmdBuffer', cp, cells)
  <2>1. ASSUME NEW i \in 1..Len(cells)
        PROVE  cmdBuffer'[cp + i - 1] = cells[i]
    <3>1. cp + i - 1 \in 0 .. MaxCmdSize - 1 /\ cp + i - 1 # 1
      BY <1>1, <1>2, <1>4, <1>5, BufferFacts
    <3>2. end.buffer[cp + i - 1] = cells[i]
      BY <1>1 DEF Placed
    <3>. QED  BY <1>8, <3>1, <3>2
  <2>. QED  BY <2>1 DEF Placed
<1>13. cpBufferUsedSize' = Len(cells)
  <2>1. cp \in Nat
    BY <1>2, BufferFacts
  <2>2. end.offset = cp + Len(cells) /\ cpBufferUsedSize' = end.offset - cp
    BY <1>1, <1>3
  <2> HIDE DEF cp
  <2>. QED  BY <1>4, <2>1, <2>2
<1>14. Area(0) = <<>> /\ Len(Area(0)) = 0
  BY EmptySeq DEF Area
<1>15. cpBuffer' = HeaderSize + c.handles + Len(Area(0))
  BY <1>2, <1>3, <1>14, BufferFacts
<1>16. Placed(cmdBuffer', HeaderSize + c.handles, Area(0))
  BY <1>14 DEF Placed
<1>17. /\ AreaAt' = HeaderSize + c.handles /\ CommandTag' = NoSessions
       /\ ParamsShape'
  BY <1>6, <1>7 DEF ParamsShape, AreaAt, CommandTag
<1>18. allowed' = asked'.cmd.allowed
  BY <1>3, <1>7
<1> HIDE DEF cp
<1>. QED  BY <1>3, <1>7, <1>8, <1>9, <1>10, <1>11, <1>12, <1>13, <1>15, <1>16, <1>17, <1>18
          DEF CommandLaid

LEMMA SetCmdAuthsLays ==
  ASSUME IInv, CommandLaid, NEW n \in 1..MaxAuths, SetCmdAuths(n)
  PROVE  CommandLaid'
<1> SUFFICES ASSUME previousStage' = "PREPARE", spoilt' = {}
             PROVE  CommandLaid'
  BY DEF CommandLaid
<1>1. /\ Whole /\ commandSize + 1 + n <= MaxCmdSize
      /\ cmdBuffer' = WithTag(WithArea(n), Sessions)
      /\ cpBuffer' = cpBuffer + 1 + n
      /\ asked' = [asked EXCEPT !.auths = n] /\ spoilt' = spoilt \union Repeated
      /\ UNCHANGED <<previousStage, cpBufferUsedSize, allowed>>
  BY DEF SetCmdAuths, AuthsAllowed, flags
<1>2. spoilt = {} /\ asked.auths = 0
  BY <1>1 DEF Repeated
<1>3. n \in Nat \ {0}
  BY SysAssumption
<1>4. /\ allowed = asked.cmd.allowed
      /\ cpBuffer = AreaAt + Len(Area(asked.auths)) /\ cpBufferUsedSize = Len(asked.params)
      /\ cmdBuffer[2] = Code(0)
      /\ Placed(cmdBuffer, HeaderSize, Handles(asked.cmd.handles))
      /\ Placed(cmdBuffer, cpBuffer, asked.params)
      /\ ParamsShape
  BY <1>1, <1>2 DEF CommandLaid
<1>5. cpBuffer = AreaAt
  BY <1>2, <1>4, AskedFacts, AreaFacts
<1>6. /\ asked'.cmd = asked.cmd /\ asked'.params = asked.params /\ asked'.auths = n
  BY <1>1 DEF IInv, TypeOK
<1>7. /\ cmdBuffer'[0] = Tag(Sessions) /\ cmdBuffer'[1] = SizeField(commandSize + 1 + n)
      /\ \A i \in 2 .. cpBuffer - 1 : cmdBuffer'[i] = cmdBuffer[i]
      /\ Placed(cmdBuffer', cpBuffer, Area(n))
      /\ \A i \in 0 .. cpBufferUsedSize - 1 :
           cmdBuffer'[cpBuffer + 1 + n + i] = cmdBuffer[cpBuffer + i]
  BY <1>1, <1>3, WithAreaFacts
<1>8. commandSize' = commandSize + 1 + n
  BY <1>7 DEF commandSize, SizeField, Cell
<1>9. Len(Area(n)) = n + 1
  BY <1>3, AreaFacts
<1>10. cpBuffer' = AreaAt + Len(Area(n))
  BY <1>1, <1>3, <1>5, <1>9, AskedFacts
<1>11. cmdBuffer'[2] = Code(0)
  <2>1. 2 \in 2 .. cpBuffer - 1
    BY <1>5, AskedFacts
  <2>. QED  BY <1>4, <1>7, <2>1
<1>12. Placed(cmdBuffer', HeaderSize, Handles(asked.cmd.handles))
  <2>1. ASSUME NEW i \in 1..Len(Handles(asked.cmd.handles))
        PROVE  cmdBuffer'[HeaderSize + i - 1] = Handles(asked.cmd.handles)[i]
    <3>1. HeaderSize + i - 1 \in 2 .. cpBuffer - 1
      <4>1. /\ Len(Handles(asked.cmd.handles)) = asked.cmd.handles
            /\ asked.cmd.handles \in Nat
        BY AskedFacts
      <4>2. cpBuffer = 3 + asked.cmd.handles /\ HeaderSize = 3
        BY <1>5 DEF AreaAt, HeaderSize
      <4>. QED  BY <4>1, <4>2
    <3>. QED  BY <1>4, <1>7, <3>1 DEF Placed
  <2>. QED  BY <2>1 DEF Placed
<1>13. Placed(cmdBuffer', cpBuffer', asked.params)
  <2>1. ASSUME NEW i \in 1..Len(asked.params)
        PROVE  cmdBuffer'[cpBuffer' + i - 1] = asked.params[i]
    <3> DEFINE j == i - 1
    <3>1. j \in 0 .. cpBufferUsedSize - 1 /\ cpBuffer \in Nat /\ j \in Nat
      BY <1>4, <1>5, AskedFacts
    <3>4. cpBuffer + 1 + n + j = cpBuffer' + i - 1 /\ cpBuffer + j = cpBuffer + i - 1
      BY <1>1, <1>3, <3>1
    <3>2. cmdBuffer'[cpBuffer + 1 + n + j] = cmdBuffer[cpBuffer + j]
      BY <1>7, <3>1
    <3>3. cmdBuffer[cpBuffer + i - 1] = asked.params[i]
      BY <1>4 DEF Placed
    <3>. QED  BY <3>2, <3>3, <3>4
  <2>. QED  BY <2>1 DEF Placed
<1>14. AreaAt' = AreaAt /\ ParamsShape' /\ CommandTag' = Sessions
  BY <1>3, <1>4, <1>6 DEF AreaAt, ParamsShape, CommandTag
<1>. QED  BY <1>1, <1>4, <1>5, <1>6, <1>7, <1>8, <1>10, <1>11, <1>12, <1>13, <1>14 DEF CommandLaid

(* The first parameter of a command that may be encrypted is sized, and its
   size is where Tss2_Sys_GetDecryptParam looks for it. *)
LEMMA DecryptParamFacts ==
  ASSUME IInv, CommandLaid, previousStage = "PREPARE", spoilt = {},
         "decrypt" \in allowed, asked.cmd.param # "plain"
  PROVE  /\ asked.cmd.param \in {"lax", "optional"}
         /\ asked.params[1].value \in Nat /\ asked.params[1].kind = "size"
         /\ Len(asked.params) = 1 + asked.params[1].value + Len(Rest(asked.cmd))
         /\ asked.cmd.more => asked.params[Len(asked.params)] = Value
         /\ Len(Rest(asked.cmd)) = IF asked.cmd.more THEN 1 ELSE 0
         /\ DecryptParamSize = asked.params[1].value
         /\ cpBufferUsedSize = Len(asked.params)
<1> DEFINE c == asked.cmd
           params == asked.params
<1>1. c \in AllCommands /\ params \in Seq(Cells) /\ Len(params) \in Nat
  BY AskedFacts
<1>2. /\ allowed = c.allowed /\ cpBufferUsedSize = Len(params)
      /\ Placed(cmdBuffer, cpBuffer, params) /\ ParamsShape
  BY DEF CommandLaid
<1>3. c.param \in {"lax", "optional"}
  <2>1. "decrypt" \in c.allowed /\ c.param # "plain"
    BY <1>2
  <2> HIDE DEF c
  <2>. QED  BY <1>1, <2>1, CommandsAssumption
<1>4. /\ params[1].kind = "size" /\ Len(params) = 1 + params[1].value + Len(Rest(c))
      /\ c.more => params[Len(params)] = Value
  BY <1>2, <1>3 DEF ParamsShape
<1>5. Len(Rest(c)) = IF c.more THEN 1 ELSE 0
  BY <1>1, RestFacts
<1> HIDE DEF c, params
<1>6. Len(params) >= 1
  BY <1>2, <1>3 DEF ParamsShape, c, params
<1>7. params[1] \in Cells
  BY <1>1, <1>6
<1>8. params[1].value \in Nat
  BY <1>7 DEF Cells
<1>9. cmdBuffer[cpBuffer] = params[1]
  <2>1. 1 \in 1..Len(params) /\ cpBuffer + 1 - 1 = cpBuffer
    BY <1>1, <1>6 DEF IInv, TypeOK
  <2>2. cmdBuffer[cpBuffer + 1 - 1] = params[1]
    BY <1>2, <2>1 DEF Placed
  <2>. QED  BY <2>1, <2>2
<1>. QED  BY <1>2, <1>3, <1>4, <1>5, <1>8, <1>9 DEF c, params, DecryptParamSize

(* The first parameter is set: one of the same size is replaced ... *)
LEMMA ReplaceLays ==
  ASSUME IInv, CommandLaid, NEW n \in Sizes, ReplaceDecryptParam(n)
  PROVE  CommandLaid'
<1> SUFFICES ASSUME previousStage' = "PREPARE", spoilt' = {}
             PROVE  CommandLaid'
  BY DEF CommandLaid
<1>1. /\ Whole /\ "decrypt" \in allowed /\ asked.cmd.param # "plain"
      /\ commandSize + n <= MaxCmdSize /\ DecryptParamSize = n
      /\ cmdBuffer' = Written(cmdBuffer, cpBuffer, Sized(n, Cipher))
      /\ asked' = MeantEncrypted(n)
      /\ UNCHANGED <<previousStage, cpBuffer, cpBufferUsedSize, allowed, spoilt>>
  BY DEF ReplaceDecryptParam, DecryptAllowed, layout, flags
<1>2. n \in Nat
  BY SysAssumption
<1> DEFINE c == asked.cmd
           params == asked.params
           fresh == Sized(n, Cipher) \o Rest(c)
<1>3. /\ c.param \in {"lax", "optional"}
      /\ Len(params) = 1 + n + Len(Rest(c))
      /\ c.more => params[Len(params)] = Value
      /\ Len(Rest(c)) = (IF c.more THEN 1 ELSE 0)
      /\ cpBufferUsedSize = Len(params)
  BY <1>1, DecryptParamFacts
<1>4. /\ allowed = c.allowed
      /\ cpBuffer = AreaAt + Len(Area(asked.auths))
      /\ cmdBuffer[0] = Tag(CommandTag) /\ cmdBuffer[1] = SizeField(commandSize)
      /\ cmdBuffer[2] = Code(0)
      /\ Placed(cmdBuffer, HeaderSize, Handles(c.handles))
      /\ Placed(cmdBuffer, AreaAt, Area(asked.auths))
      /\ Placed(cmdBuffer, cpBuffer, params)
  BY <1>1 DEF CommandLaid
<1>5. asked'.cmd = c /\ asked'.auths = asked.auths /\ asked'.params = fresh
  BY <1>1, <1>2, MeantEncryptedFacts
<1>6. /\ fresh \in Seq(Cells) /\ Len(fresh) = 1 + n + Len(Rest(c))
      /\ \A i \in 1 .. n + 1 : fresh[i] = Sized(n, Cipher)[i]
      /\ Len(fresh) >= 1 /\ fresh[1].kind = "size" /\ fresh[1].value = n
      /\ c.more => fresh[Len(fresh)] = Value
  <2>1. c \in AllCommands
    BY AskedFacts
  <2> HIDE DEF c
  <2>. QED  BY <1>2, <2>1, ShapeFacts
<1> HIDE DEF fresh, c, params
<1>7. Len(Rest(c)) \in Nat /\ cpBuffer \in Nat /\ cpBufferUsedSize >= n + 1
      /\ Len(Area(asked.auths)) \in Nat /\ AreaAt \in Nat /\ AreaAt >= 3 /\ MaxCmdSize \in Nat
  BY <1>2, <1>3, <1>4, AskedFacts, BufferFacts
<1>8. cpBuffer + 1 + n + Len(Rest(c)) <= MaxCmdSize
  <2>1. cpBuffer + cpBufferUsedSize = commandSize /\ commandSize <= MaxCmdSize
    BY <1>1, OffsetFacts
  <2> DEFINE r == Len(Rest(c))
  <2>2. cpBufferUsedSize = 1 + n + r /\ r \in Nat /\ cpBuffer \in Nat /\ MaxCmdSize \in Nat
    BY <1>3, <1>7
  <2>3. commandSize \in Nat
    BY <1>1, OffsetFacts
  <2> HIDE DEF r
  <2>4. cpBuffer + 1 + n + r <= MaxCmdSize
    BY <1>2, <2>1, <2>2, <2>3
  <2>. QED  BY <2>4 DEF r
<1>9. /\ \A i \in 0 .. cpBuffer - 1 : cmdBuffer'[i] = cmdBuffer[i]
      /\ Placed(cmdBuffer', cpBuffer, Sized(n, Cipher))
      /\ \A i \in cpBuffer + n + 1 .. MaxCmdSize - 1 : cmdBuffer'[i] = cmdBuffer[i]
  BY <1>1, <1>2, <1>7, ReplacedFacts
<1>10. cmdBuffer'[0] = cmdBuffer[0] /\ cmdBuffer'[1] = cmdBuffer[1] /\ cmdBuffer'[2] = cmdBuffer[2]
  BY <1>4, <1>7, <1>9
<1>11. commandSize' = commandSize
  BY <1>10 DEF commandSize
<1>12. Placed(cmdBuffer', HeaderSize, Handles(c.handles)) /\ Placed(cmdBuffer', AreaAt, Area(asked.auths))
  <2>1. ASSUME NEW i \in 1..Len(Handles(c.handles))
        PROVE  cmdBuffer'[HeaderSize + i - 1] = Handles(c.handles)[i]
    <3>1. HeaderSize + i - 1 \in 0 .. cpBuffer - 1
      <4>1. Len(Handles(c.handles)) = c.handles /\ c.handles \in Nat
        BY AskedFacts DEF c
      <4>2. cpBuffer = 3 + c.handles + Len(Area(asked.auths)) /\ HeaderSize = 3
        BY <1>4 DEF AreaAt, HeaderSize, c
      <4>. QED  BY <1>7, <4>1, <4>2
    <3>. QED  BY <1>4, <1>9, <3>1 DEF Placed
  <2>2. ASSUME NEW i \in 1..Len(Area(asked.auths))
        PROVE  cmdBuffer'[AreaAt + i - 1] = Area(asked.auths)[i]
    <3>1. AreaAt + i - 1 \in 0 .. cpBuffer - 1
      BY <1>4, <1>7
    <3>. QED  BY <1>4, <1>9, <3>1 DEF Placed
  <2>. QED  BY <2>1, <2>2 DEF Placed
<1>13. Placed(cmdBuffer', cpBuffer, fresh)
  <2>1. ASSUME NEW i \in 1 .. n + 1
        PROVE  cmdBuffer'[cpBuffer + i - 1] = fresh[i]
    <3>1. i \in 1..Len(Sized(n, Cipher))
      BY <1>2, SizedFacts
    <3>. QED  BY <1>6, <1>9, <3>1 DEF Placed
  <2>2. ASSUME NEW i \in n + 2 .. Len(fresh)
        PROVE  cmdBuffer'[cpBuffer + i - 1] = fresh[i]
    <3>1. c.more /\ i = Len(fresh) /\ Len(fresh) = Len(params) /\ i = n + 2
      BY <1>2, <1>3, <1>6
    <3>2. i \in 1..Len(params) /\ cpBuffer + i - 1 \in cpBuffer + n + 1 .. MaxCmdSize - 1
      BY <1>2, <1>3, <1>7, <1>8, <3>1
    <3>3. cmdBuffer'[cpBuffer + i - 1] = cmdBuffer[cpBuffer + i - 1]
      BY <1>9, <3>2
    <3>4. cmdBuffer[cpBuffer + i - 1] = params[i]
      BY <1>4, <3>2 DEF Placed
    <3>. QED  BY <1>3, <1>6, <3>1, <3>3, <3>4
  <2>3. \A i \in 1..Len(fresh) : i \in 1 .. n + 1 \/ i \in n + 2 .. Len(fresh)
    BY <1>2, <1>6
  <2>. QED  BY <2>1, <2>2, <2>3 DEF Placed
<1>14. AreaAt' = AreaAt /\ CommandTag' = CommandTag /\ ParamsShape'
  BY <1>5, <1>6 DEF AreaAt, CommandTag, ParamsShape, c
<1>15. /\ allowed' = asked'.cmd.allowed /\ cpBufferUsedSize' = Len(asked'.params)
       /\ cpBuffer' = cpBuffer
  BY <1>1, <1>3, <1>4, <1>5, <1>6
<1>. QED  BY <1>4, <1>5, <1>10, <1>11, <1>12, <1>13, <1>14, <1>15 DEF CommandLaid

(* ... and one is inserted where there was none, when it does not happen to
   be spoilt. *)
LEMMA InsertLays ==
  ASSUME IInv, CommandLaid, NEW n \in Sizes, InsertDecryptParam(n)
  PROVE  CommandLaid'
<1> SUFFICES ASSUME previousStage' = "PREPARE", spoilt' = {}
             PROVE  CommandLaid'
  BY DEF CommandLaid
<1>1. /\ Whole /\ "decrypt" \in allowed /\ asked.cmd.param # "plain"
      /\ commandSize + n <= MaxCmdSize /\ DecryptParamSize = 0
      /\ cpBufferUsedSize >= 1 /\ MovedTo + Len(Others) <= MaxCmdSize
      /\ cmdBuffer' = WithDecryptParam(n)
      /\ cpBufferUsedSize' = cpBufferUsedSize + n
      /\ asked' = MeantEncrypted(n)
      /\ UNCHANGED <<previousStage, cpBuffer, allowed>>
  BY DEF InsertDecryptParam, DecryptAllowed, flags
<1>2. spoilt = {} /\ (Others = <<>> \/ cpBufferUsedSize = n)
  BY DEF InsertDecryptParam
<1>3. n \in Nat
  BY SysAssumption
<1> DEFINE c == asked.cmd
           params == asked.params
           fresh == Sized(n, Cipher) \o Rest(c)
<1>4. /\ Len(params) = 1 + Len(Rest(c))
      /\ c.more => params[Len(params)] = Value
      /\ Len(Rest(c)) = (IF c.more THEN 1 ELSE 0)
      /\ cpBufferUsedSize = Len(params)
  <2>1. /\ Len(params) = 1 + asked.params[1].value + Len(Rest(c))
        /\ asked.params[1].value = 0
        /\ c.more => params[Len(params)] = Value
        /\ Len(Rest(c)) = (IF c.more THEN 1 ELSE 0)
        /\ cpBufferUsedSize = Len(params)
    BY <1>1, <1>2, DecryptParamFacts
  <2> DEFINE v == asked.params[1].value
             r == Len(Rest(c))
             m == Len(params)
  <2>2. r \in Nat /\ v = 0 /\ m = 1 + v + r
    BY <2>1
  <2> HIDE DEF v, r, m
  <2>3. m = 1 + r
    BY <2>2
  <2>. QED  BY <2>1, <2>3 DEF r, m
<1>5. /\ allowed = c.allowed
      /\ cpBuffer = AreaAt + Len(Area(asked.auths))
      /\ cmdBuffer[0] = Tag(CommandTag) /\ cmdBuffer[2] = Code(0)
      /\ Placed(cmdBuffer, HeaderSize, Handles(c.handles))
      /\ Placed(cmdBuffer, AreaAt, Area(asked.auths))
      /\ Placed(cmdBuffer, cpBuffer, params)
  BY <1>1, <1>2 DEF CommandLaid
<1>6. asked'.cmd = c /\ asked'.auths = asked.auths /\ asked'.params = fresh
  BY <1>1, <1>3, MeantEncryptedFacts
<1>7. /\ fresh \in Seq(Cells) /\ Len(fresh) = 1 + n + Len(Rest(c))
      /\ \A i \in 1 .. n + 1 : fresh[i] = Sized(n, Cipher)[i]
      /\ Len(fresh) >= 1 /\ fresh[1].kind = "size" /\ fresh[1].value = n
      /\ c.more => fresh[Len(fresh)] = Value
  <2>1. c \in AllCommands
    BY AskedFacts
  <2> HIDE DEF c
  <2>. QED  BY <1>3, <2>1, ShapeFacts
<1> HIDE DEF fresh, c, params
<1>8. /\ cpBuffer \in Nat /\ commandSize \in Nat /\ Len(Area(asked.auths)) \in Nat
      /\ AreaAt \in Nat /\ AreaAt >= 3 /\ MaxCmdSize \in Nat
  BY <1>1, AskedFacts, BufferFacts, OffsetFacts
<1>9. /\ Others \in Seq(Cells) /\ Len(Others) = cpBufferUsedSize - 1
      /\ cmdBuffer'[0] = cmdBuffer[0] /\ cmdBuffer'[1] = SizeField(commandSize + n)
      /\ \A i \in 2 .. cpBuffer - 1 : cmdBuffer'[i] = cmdBuffer[i]
      /\ Placed(cmdBuffer', cpBuffer, Sized(n, Cipher))
      /\ cpBufferUsedSize = n => Placed(cmdBuffer', cpBuffer + n + 1, Others)
  BY <1>1, <1>3, InsertedFacts
<1>10. commandSize' = commandSize + n
  BY <1>9 DEF commandSize, SizeField, Cell
<1>11. cmdBuffer'[2] = cmdBuffer[2]
  <2>1. 2 \in 2 .. cpBuffer - 1
    BY <1>5, <1>8
  <2>. QED  BY <1>9, <2>1
<1>12. Placed(cmdBuffer', HeaderSize, Handles(c.handles)) /\ Placed(cmdBuffer', AreaAt, Area(asked.auths))
  <2>1. ASSUME NEW i \in 1..Len(Handles(c.handles))
        PROVE  cmdBuffer'[HeaderSize + i - 1] = Handles(c.handles)[i]
    <3>1. HeaderSize + i - 1 \in 2 .. cpBuffer - 1
      <4>1. Len(Handles(c.handles)) = c.handles /\ c.handles \in Nat
        BY AskedFacts DEF c
      <4>2. cpBuffer = 3 + c.handles + Len(Area(asked.auths)) /\ HeaderSize = 3
        BY <1>5 DEF AreaAt, HeaderSize, c
      <4>. QED  BY <1>8, <4>1, <4>2
    <3>. QED  BY <1>5, <1>9, <3>1 DEF Placed
  <2>2. ASSUME NEW i \in 1..Len(Area(asked.auths))
        PROVE  cmdBuffer'[AreaAt + i - 1] = Area(asked.auths)[i]
    <3>1. AreaAt + i - 1 \in 2 .. cpBuffer - 1
      BY <1>5, <1>8
    <3>. QED  BY <1>5, <1>9, <3>1 DEF Placed
  <2>. QED  BY <2>1, <2>2 DEF Placed
<1>13. Placed(cmdBuffer', cpBuffer, fresh)
  <2>1. ASSUME NEW i \in 1 .. n + 1
        PROVE  cmdBuffer'[cpBuffer + i - 1] = fresh[i]
    <3>1. i \in 1..Len(Sized(n, Cipher))
      BY <1>3, SizedFacts
    <3>. QED  BY <1>7, <1>9, <3>1 DEF Placed
  <2>2. ASSUME NEW i \in n + 2 .. Len(fresh)
        PROVE  cmdBuffer'[cpBuffer + i - 1] = fresh[i]
    <3>1. c.more /\ i = Len(fresh) /\ i = n + 2 /\ Len(params) = 2 /\ cpBufferUsedSize = 2
      <4>1. Len(Rest(c)) = 1 /\ c.more
        BY <1>3, <1>4, <1>7
      <4>2. Len(params) = 1 + Len(Rest(c)) /\ cpBufferUsedSize = Len(params)
        BY <1>4
      <4>3. Len(params) = 2 /\ cpBufferUsedSize = 2
        BY <4>1, <4>2
      <4>4. Len(fresh) = 1 + n + 1 /\ i \in n + 2 .. Len(fresh)
        BY <1>7, <4>1
      <4>5. i = Len(fresh) /\ i = n + 2
        BY <1>3, <4>4
      <4>. QED  BY <4>1, <4>3, <4>5
    <3>2. Len(Others) = 1 /\ cpBufferUsedSize = n
      <4>1. Len(Others) = 1
        BY <1>9, <3>1
      <4>2. Len(<<>>) = 0
        BY EmptySeq
      <4>. QED  BY <1>2, <4>1, <4>2
    <3>3. Others[1] = Value
      <4>1. Others[1] = cmdBuffer[cpBuffer + 1 + 1 - 1]
        BY <3>1 DEF Others, Slice
      <4>2. cmdBuffer[cpBuffer + 2 - 1] = params[2]
        BY <1>5, <3>1 DEF Placed
      <4>3. cpBuffer + 1 + 1 - 1 = cpBuffer + 2 - 1
        BY <1>8
      <4>. QED  BY <1>4, <3>1, <4>1, <4>2, <4>3
    <3>4. cmdBuffer'[cpBuffer + n + 1 + 1 - 1] = Others[1]
      <4>1. Placed(cmdBuffer', cpBuffer + n + 1, Others)
        BY <1>9, <3>2
      <4>2. 1 \in 1..Len(Others)
        BY <3>2
      <4>. QED  BY <4>1, <4>2 DEF Placed
    <3>5. cpBuffer + n + 1 + 1 - 1 = cpBuffer + i - 1
      BY <1>3, <1>8, <3>1
    <3>. QED  BY <1>7, <3>1, <3>3, <3>4, <3>5
  <2>3. \A i \in 1..Len(fresh) : i \in 1 .. n + 1 \/ i \in n + 2 .. Len(fresh)
    BY <1>3, <1>7
  <2>. QED  BY <2>1, <2>2, <2>3 DEF Placed
<1>14. AreaAt' = AreaAt /\ CommandTag' = CommandTag /\ ParamsShape'
  BY <1>6, <1>7 DEF AreaAt, CommandTag, ParamsShape, c
<1>15. /\ allowed' = asked'.cmd.allowed /\ cpBuffer' = cpBuffer
  BY <1>1, <1>5, <1>6
<1>16. cpBufferUsedSize' = Len(asked'.params)
  <2>1. Len(Rest(c)) \in Nat
    BY <1>4
  <2> DEFINE r == Len(Rest(c))
  <2>2. cpBufferUsedSize' = cpBufferUsedSize + n /\ cpBufferUsedSize = 1 + r
    BY <1>1, <1>4
  <2>3. Len(asked'.params) = 1 + n + r
    BY <1>6, <1>7
  <2>4. r \in Nat
    BY <2>1
  <2> HIDE DEF r
  <2>5. cpBufferUsedSize' = 1 + n + r
    BY <1>3, <2>2, <2>4
  <2>. QED  BY <2>3, <2>5
<1>. QED  BY <1>5, <1>6, <1>9, <1>10, <1>11, <1>12, <1>13, <1>14, <1>15, <1>16 DEF CommandLaid

(* What the other actions leave of the command. *)
OtherStep ==
  \/ PrepareRefused \/ SetNoAuths \/ Initialize \/ UNCHANGED vars
  \/ \E n \in 1..MaxAuths : SetCmdAuthsFails(n)
  \/ \E c \in AllCommands : \E n \in Nat : PrepareFails(c, n)
  \/ ExecuteAsync \/ TpmExecutes \/ TpmRefuses \/ TpmStammers
  \/ ExecuteFinish \/ Complete
  \/ \E n \in Sizes : SetEncryptParam(n)

LEMMA OthersLay ==
  ASSUME IInv, CommandLaid, OtherStep
  PROVE  CommandLaid'
<1> SUFFICES ASSUME previousStage' = "PREPARE", spoilt' = {}
             PROVE  CommandLaid'
  BY DEF CommandLaid
<1> DEFINE Same == UNCHANGED <<previousStage, cmdBuffer, cpBuffer, cpBufferUsedSize, allowed,
                              asked, spoilt>>
<1>1. CASE Same
  BY <1>1 DEF CommandLaid, commandSize, AreaAt, CommandTag, ParamsShape
<1>2. CASE UNCHANGED vars \/ TpmExecutes \/ TpmRefuses \/ TpmStammers
  <2>1. Same
    BY <1>2 DEF vars, history, context, layout, flags, TpmExecutes, TpmRefuses, TpmStammers, Answers
  <2>. QED  BY <1>1, <2>1
<1>3. CASE SetNoAuths
  <2>1. spoilt = {}
    BY <1>3 DEF SetNoAuths
  <2>2. Same
    BY <1>3, <2>1 DEF SetNoAuths, flags
  <2>. QED  BY <1>1, <2>2
<1>4. ~PrepareRefused /\ ~Initialize /\ ~ExecuteAsync /\ ~Complete
  BY DEF PrepareRefused, Initialize, ExecuteAsync, Complete
<1>5. /\ \A n \in 1..MaxAuths : ~SetCmdAuthsFails(n)
      /\ \A c \in AllCommands : \A n \in Nat : ~PrepareFails(c, n)
      /\ \A n \in Sizes : ~SetEncryptParam(n)
      /\ ~ExecuteFinish
  <2>1. \A n \in 1..MaxAuths : ~SetCmdAuthsFails(n)
    BY DEF SetCmdAuthsFails
  <2>2. \A c \in AllCommands : \A n \in Nat : ~PrepareFails(c, n)
    BY DEF PrepareFails
  <2>3. \A n \in Sizes : ~SetEncryptParam(n)
    BY DEF SetEncryptParam
  <2>4. ~ExecuteFinish
    BY DEF ExecuteFinish
  <2>. QED  BY <2>1, <2>2, <2>3, <2>4
<1>. QED  BY <1>2, <1>3, <1>4, <1>5 DEF OtherStep

(* The command under way stays as it was meant. *)
LEMMA SentStep ==
  ASSUME IInv, CommandLaid, SentAsMeant, Next
  PROVE  SentAsMeant'
<1> SUFFICES ASSUME wire'.phase = "sent", spoilt' = {}
             PROVE  wire'.cells = Meant'
  BY DEF SentAsMeant
<1>1. CASE ExecuteAsync
  <2>1. /\ previousStage = "PREPARE" /\ spoilt = {} /\ asked' = asked
        /\ wire'.cells = Slice(cmdBuffer, 0, commandSize)
    BY <1>1 DEF ExecuteAsync, history
  <2>2. Meant' = Meant
    BY <2>1 DEF Meant
  <2>. QED  BY <2>1, <2>2, LaidIsMeant
<1>2. wire.phase = "sent" => previousStage = "SEND_COMMAND"
  BY DEF IInv, StageAgrees
<1>3. CASE /\ UNCHANGED <<wire, asked>> /\ spoilt \subseteq spoilt'
  <2>1. spoilt = {} /\ Meant' = Meant
    BY <1>3 DEF Meant
  <2>. QED  BY <1>3, <2>1 DEF SentAsMeant
<1>4. CASE PrepareRefused \/ SetNoAuths \/ Initialize \/ Complete
  <2>1. UNCHANGED <<wire, asked>> /\ spoilt \subseteq spoilt'
    BY <1>4 DEF PrepareRefused, SetNoAuths, Initialize, Complete, history
  <2>. QED  BY <1>3, <2>1
<1>5. ASSUME NEW n, SetEncryptParam(n) \/ SetCmdAuthsFails(n)
      PROVE  wire'.cells = Meant'
  <2>1. UNCHANGED <<wire, asked>> /\ spoilt \subseteq spoilt'
    BY <1>5 DEF SetEncryptParam, SetCmdAuthsFails
  <2>. QED  BY <1>3, <2>1
<1>6. ASSUME NEW c, NEW n, Prepare(c, n) \/ PrepareFails(c, n)
      PROVE  FALSE
  BY <1>2, <1>6 DEF Prepare, PrepareFails
<1>7. ASSUME NEW n, SetCmdAuths(n) \/ ReplaceDecryptParam(n) \/ InsertDecryptParam(n)
      PROVE  FALSE
  BY <1>2, <1>7 DEF SetCmdAuths, AuthsAllowed, ReplaceDecryptParam, InsertDecryptParam,
                    DecryptAllowed, Whole
<1>8. CASE TpmExecutes \/ TpmRefuses \/ TpmStammers
  <2>1. wire'.phase = "answered"
    BY <1>8 DEF TpmExecutes, TpmRefuses, TpmStammers, Answers
  <2>. QED  BY <2>1
<1>9. CASE ExecuteFinish
  BY <1>9 DEF ExecuteFinish, Quiet
<1>. QED  BY <1>1, <1>4, <1>5, <1>6, <1>7, <1>8, <1>9 DEF Next
-----------------------------------------------------------------------------
LEMMA LaidInitially == Init => LaidInv
BY InitInvariant DEF Init, LaidInv, CommandLaid, SentAsMeant, Quiet

LEMMA LaidStep == LaidInv /\ [Next]_vars => LaidInv'
<1> SUFFICES ASSUME LaidInv, [Next]_vars
             PROVE  LaidInv'
  OBVIOUS
<1>1. IInv /\ CommandLaid /\ SentAsMeant
  BY DEF LaidInv
<1>2. IInv'
  BY <1>1, StepInvariant
<1>3. CASE UNCHANGED vars
  <2>1. CommandLaid'
    BY <1>1, <1>3, OthersLay DEF OtherStep
  <2>2. SentAsMeant'
    BY <1>1, <1>3 DEF vars, history, SentAsMeant, Meant
  <2>. QED  BY <1>2, <2>1, <2>2 DEF LaidInv
<1>4. CASE Next
  <2>1. SentAsMeant'
    BY <1>1, <1>4, SentStep
  <2>2. Commands \subseteq AllCommands /\ Later \subseteq AllCommands
    BY SysAssumption
  <2>3. ASSUME NEW c \in Preparable, NEW n \in Units(c), Prepare(c, n) \/ PrepareFails(c, n)
        PROVE  CommandLaid'
    <3>1. c \in AllCommands /\ n \in Nat
      BY <2>2, <2>3, SysAssumption DEF Preparable, Units
    <3>2. CASE Prepare(c, n)
      BY <1>1, <3>1, <3>2, PrepareLays
    <3>3. CASE PrepareFails(c, n)
      BY <1>1, <3>1, <3>3, OthersLay DEF OtherStep
    <3>. QED  BY <2>3, <3>2, <3>3
  <2>4. ASSUME NEW n \in 1..MaxAuths, SetCmdAuths(n) \/ SetCmdAuthsFails(n)
        PROVE  CommandLaid'
    <3>1. CASE SetCmdAuths(n)
      BY <1>1, <3>1, SetCmdAuthsLays
    <3>2. CASE SetCmdAuthsFails(n)
      BY <1>1, <3>2, OthersLay DEF OtherStep
    <3>. QED  BY <2>4, <3>1, <3>2
  <2>5. ASSUME NEW n \in Sizes, ReplaceDecryptParam(n) \/ InsertDecryptParam(n)
        PROVE  CommandLaid'
    BY <1>1, <2>5, ReplaceLays, InsertLays
  <2>6. ASSUME \/ PrepareRefused \/ SetNoAuths \/ ExecuteAsync
               \/ TpmExecutes \/ TpmRefuses \/ TpmStammers \/ ExecuteFinish
               \/ (\E n \in Sizes : SetEncryptParam(n)) \/ Complete \/ Initialize
        PROVE  CommandLaid'
    <3>1. OtherStep
      BY <2>6 DEF OtherStep
    <3>. QED  BY <1>1, <3>1, OthersLay
  <2>7. CommandLaid'
    BY <1>4, <2>3, <2>4, <2>5, <2>6 DEF Next
  <2>. QED  BY <1>2, <2>1, <2>7 DEF LaidInv
<1>. QED  BY <1>3, <1>4

LEMMA LaidInvariant == Spec => []LaidInv
BY LaidInitially, LaidStep, PTL DEF Spec

(* The TPM gets the command the application means, whatever authorisations and
   encrypted first parameter were set after its Prepare. *)
THEOREM CommandsSentAsMeant == Spec => []SentAsMeant
<1>1. LaidInv => SentAsMeant
  BY DEF LaidInv
<1>. QED  BY <1>1, LaidInvariant, PTL

(* Tss2_Sys_GetCpBuffer and Tss2_Sys_GetDecryptParam find the parameters of the
   command wherever the authorisation area has moved them to. *)
THEOREM ParametersAreFound == Spec => []ParametersFound
<1>1. ASSUME LaidInv, previousStage = "PREPARE", spoilt = {}
      PROVE  /\ Slice(cmdBuffer, cpBuffer, cpBufferUsedSize) = asked.params
             /\ "decrypt" \in allowed /\ asked.cmd.param # "plain" =>
                  DecryptParamSize = asked.params[1].value
  <2>1. IInv /\ CommandLaid
    BY <1>1 DEF LaidInv
  <2>2. cpBufferUsedSize = Len(asked.params) /\ Placed(cmdBuffer, cpBuffer, asked.params)
    BY <1>1, <2>1 DEF CommandLaid
  <2>3. /\ cpBuffer \in Nat /\ cpBuffer + cpBufferUsedSize <= MaxCmdSize
        /\ cmdBuffer \in Buffers(Cells, MaxCmdSize) /\ asked.params \in Seq(Cells)
    BY <1>1, <2>1, OffsetFacts, AskedFacts DEF Whole
  <2>4. Slice(cmdBuffer, cpBuffer, cpBufferUsedSize) = asked.params
    BY <2>2, <2>3, SlicePlaced, BufferFacts
  <2>. QED  BY <1>1, <2>1, <2>4, DecryptParamFacts
<1>2. LaidInv => ParametersFound
  BY <1>1 DEF ParametersFound
<1>. QED  BY <1>2, LaidInvariant, PTL
-----------------------------------------------------------------------------
(* A context returns what the TPM answered.                                  *)

(* What follows the first result, and where the results begin. *)
More(c)    == IF c.moreResults THEN <<Value>> ELSE <<>>
ResultsAt(r) == HeaderSize + r.handles + (IF r.tag = Sessions THEN 1 ELSE 0)
RspSize(r) == ResultsAt(r) + Len(r.params) + (IF r.tag = Sessions THEN r.auths ELSE 0)

(* The reply is one to the command asked. *)
RepliesToAsked ==
  LET c == asked.cmd
  IN  /\ reply.code = Success /\ reply.tag = CommandTag
      /\ reply.handles = c.rspHandles /\ reply.auths = asked.auths
      /\ \E n \in Nat, what \in {Plain, Cipher} : reply.params = Results(c, n, what) \o More(c)

(* The parts of a response, each at its place in the buffer. *)
ReplyLaid(buffer, r) ==
  /\ buffer[0] = Tag(r.tag)
  /\ Placed(buffer, HeaderSize, Handles(r.handles))
  /\ Placed(buffer, ResultsAt(r), r.params)
  /\ r.tag = Sessions =>
       /\ buffer[HeaderSize + r.handles] = SizeField(Len(r.params))
       /\ Placed(buffer, ResultsAt(r) + Len(r.params), Auths(r.auths))

(* The fields that say what to expect of a response are those of the command
   under way. *)
FieldsAgree ==
  spoilt = {} /\ previousStage # "INITIALIZE" =>
    /\ allowed = asked.cmd.allowed /\ numResponseHandles = asked.cmd.rspHandles
    /\ asked.auths > 0 => authsCount = asked.auths /\ "auth" \in allowed

(* A response with a proper header is the TPM's reply to the command. *)
WellFormed(cells) ==
  /\ cells[1].value \in {NoSessions, Sessions} /\ cells[3].value = Success
  /\ HeaderSize <= cells[2].value /\ cells[2].value <= MaxCmdSize
AnsweredAsked ==
  wire.phase = "answered" /\ WellFormed(wire.cells) =>
    RepliesToAsked /\ wire.cells = Answer(reply)

(* Once received it lies in the buffer, also when its first result has been
   decrypted there. *)
ReplyReceived ==
  previousStage = "RECEIVE_RESPONSE" /\ rsp_header.responseCode = Success /\ spoilt = {} =>
    /\ RepliesToAsked /\ ReplyLaid(cmdBuffer, reply)
    /\ rsp_header.tag = reply.tag /\ rsp_header.responseSize = RspSize(reply)
    /\ RspSize(reply) <= MaxCmdSize

ReadInv == IInv /\ FieldsAgree /\ AnsweredAsked /\ ReplyReceived
-----------------------------------------------------------------------------
(* The results of a command: the first, and what may follow it. *)
LEMMA ResultsShape ==
  ASSUME NEW c \in AllCommands, NEW n \in Nat, NEW what \in {Plain, Cipher}
  PROVE  LET first == Results(c, n, what)
         IN  /\ first \in Seq(Cells) /\ More(c) \in Seq(Cells) /\ first \o More(c) \in Seq(Cells)
             /\ Len(More(c)) = IF c.moreResults THEN 1 ELSE 0
             /\ Len(first \o More(c)) = Len(first) + Len(More(c))
             /\ \A i \in 1..Len(first) : (first \o More(c))[i] = first[i]
             /\ \A i \in 1..Len(More(c)) : (first \o More(c))[Len(first) + i] = More(c)[i]
<1> DEFINE first == Results(c, n, what)
           more  == More(c)
           all   == first \o more
<1>1. first \in Seq(Cells)
  BY ResultsFacts
<1>2. more \in Seq(Cells) /\ Len(more) = IF c.moreResults THEN 1 ELSE 0
  BY CellTypes, EmptySeq DEF More
<1> HIDE DEF first, more
<1>3. /\ all \in Seq(Cells) /\ Len(all) = Len(first) + Len(more)
      /\ \A i \in 1 .. Len(first) + Len(more) :
           all[i] = IF i <= Len(first) THEN first[i] ELSE more[i - Len(first)]
  BY <1>1, <1>2, ConcatProperties
<1> HIDE DEF all
<1>4. Len(first) \in Nat /\ Len(more) \in Nat
  BY <1>1, <1>2, LenProperties
<1>5. \A i \in 1..Len(first) : all[i] = first[i]
  BY <1>3, <1>4
<1>6. ASSUME NEW i \in 1..Len(more)
      PROVE  all[Len(first) + i] = more[i]
  <2> DEFINE j == Len(first) + i
  <2>1. j \in 1 .. Len(first) + Len(more) /\ ~(j <= Len(first)) /\ j - Len(first) = i
    BY <1>4
  <2>. QED  BY <1>3, <2>1
<1>. QED  BY <1>1, <1>2, <1>3, <1>5, <1>6 DEF first, more, all

(* Two rows of cells lie one behind the other when they lie so as one. *)
LEMMA PlacedParts ==
  ASSUME NEW buffer, NEW offset \in Nat, NEW s \in Seq(Cells), NEW t \in Seq(Cells)
  PROVE  Placed(buffer, offset, s \o t) <=>
           Placed(buffer, offset, s) /\ Placed(buffer, offset + Len(s), t)
<1> DEFINE all == s \o t
<1>1. /\ all \in Seq(Cells) /\ Len(all) = Len(s) + Len(t)
      /\ \A i \in 1 .. Len(s) + Len(t) : all[i] = IF i <= Len(s) THEN s[i] ELSE t[i - Len(s)]
      /\ Len(s) \in Nat /\ Len(t) \in Nat
  BY ConcatProperties, LenProperties
<1> HIDE DEF all
<1>2. ASSUME Placed(buffer, offset, all)
      PROVE  Placed(buffer, offset, s) /\ Placed(buffer, offset + Len(s), t)
  <2>1. ASSUME NEW i \in 1..Len(s)
        PROVE  buffer[offset + i - 1] = s[i]
    <3>1. i \in 1..Len(all) /\ i \in 1 .. Len(s) + Len(t) /\ i <= Len(s)
      BY <1>1
    <3>2. buffer[offset + i - 1] = all[i]
      BY <1>2, <3>1 DEF Placed
    <3>. QED  BY <1>1, <3>1, <3>2
  <2>2. ASSUME NEW i \in 1..Len(t)
        PROVE  buffer[offset + Len(s) + i - 1] = t[i]
    <3> DEFINE j == Len(s) + i
    <3>1. /\ j \in 1..Len(all) /\ j \in 1 .. Len(s) + Len(t) /\ ~(j <= Len(s)) /\ j - Len(s) = i
          /\ offset + j - 1 = offset + Len(s) + i - 1
      BY <1>1
    <3>2. buffer[offset + j - 1] = all[j]
      BY <1>2, <3>1 DEF Placed
    <3>3. all[j] = t[j - Len(s)]
      BY <1>1, <3>1
    <3>. QED  BY <3>1, <3>2, <3>3
  <2>. QED  BY <2>1, <2>2 DEF Placed
<1>3. ASSUME Placed(buffer, offset, s), Placed(buffer, offset + Len(s), t)
      PROVE  Placed(buffer, offset, all)
  <2>1. ASSUME NEW i \in 1..Len(all)
        PROVE  buffer[offset + i - 1] = all[i]
    <3>1. CASE i <= Len(s)
      <4>1. i \in 1..Len(s) /\ i \in 1 .. Len(s) + Len(t)
        BY <1>1, <3>1
      <4>2. buffer[offset + i - 1] = s[i]
        BY <1>3, <4>1 DEF Placed
      <4>. QED  BY <1>1, <3>1, <4>1, <4>2
    <3>2. CASE ~(i <= Len(s))
      <4> DEFINE j == i - Len(s)
      <4>1. j \in 1..Len(t) /\ offset + Len(s) + j - 1 = offset + i - 1 /\ i \in 1 .. Len(s) + Len(t)
        BY <1>1, <3>2
      <4>2. buffer[offset + Len(s) + j - 1] = t[j]
        BY <1>3, <4>1 DEF Placed
      <4>3. all[i] = t[j]
        BY <1>1, <3>2, <4>1
      <4>. QED  BY <4>1, <4>2, <4>3
    <3>. QED  BY <3>1, <3>2
  <2>. QED  BY <2>1 DEF Placed
<1>. QED  BY <1>2, <1>3 DEF all

(* One cell at its place. *)
LEMMA PlacedOne ==
  ASSUME NEW buffer, NEW offset \in Nat, NEW cell
  PROVE  Placed(buffer, offset, <<cell>>) <=> buffer[offset] = cell
<1>1. Len(<<cell>>) = 1 /\ <<cell>>[1] = cell /\ offset + 1 - 1 = offset
  OBVIOUS
<1>. QED  BY <1>1 DEF Placed

LEMMA AuthsFacts ==
  ASSUME NEW n \in Nat
  PROVE  Auths(n) \in Seq(Cells) /\ Len(Auths(n)) = n
<1>1. Auths(n) \in [1..n -> Cells]
  BY DEF Auths, Cell, Cells
<1>. QED  BY <1>1, FunctionIsSeq

(* What is sent as a response lies in the buffer part by part. *)
LEMMA AnswerLaid ==
  ASSUME NEW r \in Replies, NEW buffer, Placed(buffer, 0, Answer(r))
  PROVE  /\ Answer(r)[2] = SizeField(RspSize(r)) /\ Len(Answer(r)) = RspSize(r)
         /\ ReplyLaid(buffer, r)
<1> DEFINE tag     == r.tag
           code    == r.code
           handles == Handles(r.handles)
           params  == r.params
           auths   == Auths(r.auths)
           size    == <<SizeField(Len(params))>>
           body    == IF tag = Sessions THEN size \o params \o auths ELSE params
           total   == HeaderSize + Len(handles) + Len(body)
<1>1. /\ r.tag \in Nat /\ r.code \in Nat /\ r.handles \in Nat /\ r.auths \in Nat
      /\ params \in Seq(Cells) /\ Len(params) \in Nat
  BY SysAssumption, LenProperties DEF Replies
<1>2. /\ handles \in Seq(Cells) /\ Len(handles) = r.handles
      /\ auths \in Seq(Cells) /\ Len(auths) = r.auths
      /\ size \in Seq(Cells) /\ Len(size) = 1 /\ size[1] = SizeField(Len(params))
      /\ Tag(tag) \in Cells /\ Code(code) \in Cells
  BY <1>1, HandlesFacts, AuthsFacts, CellTypes
<1>3. Answer(r) = Packet(tag, code, handles, body)
  BY DEF Answer
<1> HIDE DEF handles, params, auths, size, tag, code
<1>4. /\ size \o params \in Seq(Cells) /\ Len(size \o params) = 1 + Len(params)
      /\ size \o params \o auths \in Seq(Cells)
      /\ Len(size \o params \o auths) = 1 + Len(params) + Len(auths)
  <2>0. size \o params \in Seq(Cells) /\ Len(size \o params) = Len(size) + Len(params)
    BY <1>1, <1>2, ConcatProperties
  <2>1. size \o params \in Seq(Cells) /\ Len(size \o params) = 1 + Len(params)
    BY <1>2, <2>0
  <2> DEFINE both == size \o params
  <2> HIDE DEF both
  <2>2. both \o auths \in Seq(Cells) /\ Len(both \o auths) = Len(both) + Len(auths)
    BY <1>2, <2>1, ConcatProperties DEF both
  <2>. QED  BY <2>1, <2>2 DEF both
<1>5. body \in Seq(Cells) /\ Len(body) \in Nat
  BY <1>1, <1>4, LenProperties
<1>6. IsPacket(Answer(r), tag, code, handles, body)
  <2> HIDE DEF body
  <2>. QED  BY <1>2, <1>3, <1>5, PacketFacts
<1>7. /\ Len(Answer(r)) = total /\ Answer(r)[2] = SizeField(total) /\ Answer(r)[1] = Tag(tag)
      /\ \A i \in 1..Len(handles) : Answer(r)[HeaderSize + i] = handles[i]
      /\ \A i \in 1..Len(body) : Answer(r)[HeaderSize + Len(handles) + i] = body[i]
  BY <1>6 DEF IsPacket
<1>8. total = RspSize(r)
  <2>1. CASE tag = Sessions
    <3>1. Len(body) = 1 + Len(params) + r.auths
      BY <1>2, <1>4, <2>1
    <3>2. RspSize(r) = HeaderSize + r.handles + 1 + Len(params) + r.auths
      BY <2>1 DEF RspSize, ResultsAt, params, tag
    <3>3. \A i, j, k \in Nat : 3 + i + 1 + j + k = 3 + i + (1 + j + k)
      OBVIOUS
    <3>4. RspSize(r) = HeaderSize + r.handles + (1 + Len(params) + r.auths)
      BY <1>1, <3>2, <3>3 DEF HeaderSize
    <3> HIDE DEF body
    <3>. QED  BY <1>2, <3>1, <3>4
  <2>2. CASE tag # Sessions
    <3>1. Len(body) = Len(params)
      BY <2>2
    <3>2. RspSize(r) = HeaderSize + r.handles + 0 + Len(params) + 0
      BY <2>2 DEF RspSize, ResultsAt, params, tag
    <3>3. RspSize(r) = HeaderSize + r.handles + Len(params)
      BY <1>1, <3>2 DEF HeaderSize
    <3> HIDE DEF body
    <3>. QED  BY <1>2, <3>1, <3>3
  <2>. QED  BY <2>1, <2>2
<1>9. ASSUME NEW i \in 1..total
      PROVE  buffer[i - 1] = Answer(r)[i]
  <2>1. i \in 1..Len(Answer(r)) /\ 0 + i - 1 = i - 1
    BY <1>7
  <2>. QED  BY <2>1 DEF Placed
<1> HIDE DEF body
<1>10. buffer[0] = Tag(tag)
  <2>1. 1 \in 1..total /\ 1 - 1 = 0
    BY <1>1, <1>2, <1>5 DEF HeaderSize
  <2>. QED  BY <1>7, <1>9, <2>1
<1>11. Placed(buffer, HeaderSize, handles)
  <2>1. ASSUME NEW i \in 1..Len(handles)
        PROVE  buffer[HeaderSize + i - 1] = handles[i]
    <3>1. HeaderSize + i \in 1..total /\ (HeaderSize + i) - 1 = HeaderSize + i - 1
      BY <1>1, <1>2, <1>5 DEF HeaderSize
    <3>. QED  BY <1>7, <1>9, <3>1
  <2>. QED  BY <2>1 DEF Placed
<1>12. Placed(buffer, HeaderSize + r.handles, body)
  <2>1. ASSUME NEW i \in 1..Len(body)
        PROVE  buffer[HeaderSize + r.handles + i - 1] = body[i]
    <3>1. /\ HeaderSize + Len(handles) + i \in 1..total
          /\ (HeaderSize + Len(handles) + i) - 1 = HeaderSize + r.handles + i - 1
      BY <1>1, <1>2, <1>5 DEF HeaderSize
    <3>. QED  BY <1>7, <1>9, <3>1
  <2>. QED  BY <2>1 DEF Placed
<1>13. HeaderSize + r.handles \in Nat /\ HeaderSize + r.handles + 1 \in Nat
  BY <1>1 DEF HeaderSize
<1>14. CASE tag = Sessions
  <2>1. Placed(buffer, HeaderSize + r.handles, (size \o params) \o auths)
    BY <1>12, <1>14 DEF body
  <2>2. /\ Placed(buffer, HeaderSize + r.handles, size \o params)
        /\ Placed(buffer, HeaderSize + r.handles + Len(size \o params), auths)
    BY <1>2, <1>4, <1>13, <2>1, PlacedParts
  <2>3. /\ Placed(buffer, HeaderSize + r.handles, size)
        /\ Placed(buffer, HeaderSize + r.handles + Len(size), params)
    BY <1>1, <1>2, <1>13, <2>2, PlacedParts
  <2>4. buffer[HeaderSize + r.handles] = SizeField(Len(params))
    BY <1>13, <2>3, PlacedOne DEF size
  <2>5. /\ ResultsAt(r) = HeaderSize + r.handles + Len(size)
        /\ ResultsAt(r) + Len(params) = HeaderSize + r.handles + Len(size \o params)
    <3>1. ResultsAt(r) = HeaderSize + r.handles + 1
      BY <1>14 DEF ResultsAt, tag
    <3>2. HeaderSize \in Nat
      BY DEF HeaderSize
    <3>3. Len(size \o params) = 1 + Len(params) /\ Len(size) = 1
      BY <1>2, <1>4
    <3>. QED  BY <1>1, <3>1, <3>2, <3>3
  <2>6. Placed(buffer, ResultsAt(r), params) /\ Placed(buffer, ResultsAt(r) + Len(params), auths)
    BY <2>2, <2>3, <2>5
  <2>7. ReplyLaid(buffer, r)
    BY <1>10, <1>11, <2>4, <2>6 DEF ReplyLaid, tag, handles, params, auths
  <2>. QED  BY <1>7, <1>8, <2>7
<1>15. CASE tag # Sessions
  <2>1. ResultsAt(r) = HeaderSize + r.handles
    BY <1>13, <1>15 DEF ResultsAt, tag
  <2>2. Placed(buffer, ResultsAt(r), params)
    BY <1>12, <1>15, <2>1 DEF body
  <2>3. ReplyLaid(buffer, r)
    BY <1>10, <1>11, <1>15, <2>2 DEF ReplyLaid, tag, handles, params
  <2>. QED  BY <1>7, <1>8, <2>3
<1>. QED  BY <1>14, <1>15

(* What is read of cells that are at the cursor. *)
LEMMA TakePlaced ==
  ASSUME NEW cursor \in Readers(Cells, MaxCmdSize), cursor.ok,
         NEW cells \in Seq(Cells), cursor.offset + Len(cells) <= MaxCmdSize,
         Placed(cursor.buffer, cursor.offset, cells)
  PROVE  LET result == Take(cursor, Len(cells))
         IN  /\ result \in Readers(Cells, MaxCmdSize) /\ result.ok
             /\ result.buffer = cursor.buffer /\ result.offset = cursor.offset + Len(cells)
             /\ result.read = cursor.read \o cells
             /\ Unmarshal(cursor, MaxCmdSize, Len(cells)) = result
<1> DEFINE n == Len(cells)
           result == Take(cursor, n)
           slice  == Slice(cursor.buffer, cursor.offset, n)
<1>1. /\ n \in Nat /\ cursor.buffer \in Buffers(Cells, MaxCmdSize) /\ cursor.offset \in Nat
      /\ cursor.read \in Seq(Cells)
  BY LenProperties DEF Readers
<1>2. slice = cells
  BY <1>1, SlicePlaced, BufferFacts
<1>3. Unmarshals(Cells, MaxCmdSize, cursor, result)
  <2> HIDE DEF n
  <2>. QED  BY <1>1, TakeFacts, BufferFacts DEF n
<1>4. result = [cursor EXCEPT !.offset = cursor.offset + n, !.read = cursor.read \o slice]
  BY DEF Take
<1>5. Unmarshal(cursor, MaxCmdSize, n) = result
  BY DEF Unmarshal
<1> HIDE DEF result, slice, n
<1>6. /\ result.ok = cursor.ok /\ result.offset = cursor.offset + n
      /\ result.read = cursor.read \o cells
  <2> DEFINE more == cursor.read \o cells
  <2>1. result = [cursor EXCEPT !.offset = cursor.offset + n, !.read = more]
    BY <1>2, <1>4
  <2> HIDE DEF more
  <2>2. result.ok = cursor.ok /\ result.offset = cursor.offset + n /\ result.read = more
    BY <2>1 DEF Readers
  <2>. QED  BY <2>2 DEF more
<1>. QED  BY <1>3, <1>5, <1>6 DEF Unmarshals, result, n

(* Parts of a reply that is in the buffer. *)
LEMMA ReplyFacts ==
  ASSUME IInv, RepliesToAsked
  PROVE  /\ reply \in Replies /\ asked.cmd \in AllCommands
         /\ reply.handles \in Nat /\ reply.auths \in Nat /\ reply.tag \in {NoSessions, Sessions}
         /\ reply.params \in Seq(Cells) /\ Len(reply.params) \in Nat
         /\ Handles(reply.handles) \in Seq(Cells) /\ Len(Handles(reply.handles)) = reply.handles
         /\ Auths(reply.auths) \in Seq(Cells) /\ Len(Auths(reply.auths)) = reply.auths
         /\ ResultsAt(reply) \in Nat /\ ResultsAt(reply) + Len(reply.params) <= RspSize(reply)
         /\ reply.tag = Sessions <=> reply.auths > 0
<1>1. reply \in Replies /\ asked.cmd \in AllCommands /\ asked.auths \in 0..MaxAuths
  BY DEF IInv, TypeOK, Replies
<1>2. reply.handles \in Nat /\ reply.auths \in Nat /\ reply.params \in Seq(Cells)
  BY <1>1, SysAssumption DEF Replies
<1>3. Len(reply.params) \in Nat
  BY <1>2, LenProperties
<1>4. reply.tag = CommandTag /\ reply.auths = asked.auths
  BY DEF RepliesToAsked
<1>5. reply.tag \in {NoSessions, Sessions} /\ (reply.tag = Sessions <=> reply.auths > 0)
  BY <1>2, <1>4 DEF CommandTag, NoSessions, Sessions
<1>6. /\ Handles(reply.handles) \in Seq(Cells) /\ Len(Handles(reply.handles)) = reply.handles
      /\ Auths(reply.auths) \in Seq(Cells) /\ Len(Auths(reply.auths)) = reply.auths
  BY <1>2, HandlesFacts, AuthsFacts
<1>7. ResultsAt(reply) \in Nat
  BY <1>2 DEF ResultsAt, HeaderSize
<1>8. ResultsAt(reply) + Len(reply.params) <= RspSize(reply)
  BY <1>2, <1>3, <1>7 DEF RspSize
<1>. QED  BY <1>1, <1>2, <1>3, <1>5, <1>6, <1>7, <1>8

(* The tag in the buffer tells whether the results are behind their size. *)
LEMMA StartFacts ==
  ASSUME IInv, RepliesToAsked, ReplyLaid(cmdBuffer, reply),
         numResponseHandles = asked.cmd.rspHandles
  PROVE  /\ ParamsStart = ResultsAt(reply) /\ numResponseHandles = reply.handles
         /\ reply.tag = Sessions <=> cmdBuffer[0] # Tag(NoSessions)
         /\ reply.tag = Sessions => ResultsAt(reply) = EncryptParam
<1>1. numResponseHandles = reply.handles /\ cmdBuffer[0] = Tag(reply.tag)
  BY DEF RepliesToAsked, ReplyLaid
<1>2. reply.tag \in {NoSessions, Sessions} /\ reply.handles \in Nat
  BY ReplyFacts
<1>3. /\ reply.tag = Sessions <=> cmdBuffer[0] # Tag(NoSessions)
      /\ reply.tag = Sessions <=> cmdBuffer[0] = Tag(Sessions)
  BY <1>1, <1>2 DEF Tag, Cell, NoSessions, Sessions
<1>4. ParamsStart = ResultsAt(reply)
  BY <1>1, <1>3 DEF ParamsStart, ResultsAt
<1>5. reply.tag = Sessions => ResultsAt(reply) = EncryptParam
  BY <1>1 DEF EncryptParam, ResultsAt
<1>. QED  BY <1>1, <1>3, <1>4, <1>5

(* Complete reads the handles and the results of the reply. *)
LEMMA ReplyCompleted ==
  ASSUME IInv, RepliesToAsked, ReplyLaid(cmdBuffer, reply),
         numResponseHandles = asked.cmd.rspHandles,
         RspSize(reply) <= MaxCmdSize, nextData = HeaderSize
  PROVE  Completed(Ample).ok /\ Completed(Ample).read = Handles(reply.handles) \o reply.params
<1> DEFINE R == Readers(Cells, MaxCmdSize)
           c == asked.cmd
           handles == Unmarshal(Cursor(cmdBuffer, nextData), MaxCmdSize, c.rspHandles)
           params  == [handles EXCEPT !.offset = IF handles.ok THEN ParamsStart ELSE @]
           first   == CASE c.result = "none"   -> params
                        [] c.result = "plain"  -> Unmarshal(params, MaxCmdSize, 1)
                        [] c.result = "sized"  -> UnmarshalSized(params, MaxCmdSize, Ample)
                        [] c.result = "nested" -> UnmarshalNested(params, MaxCmdSize, Ample)
           last    == IF c.moreResults THEN Unmarshal(first, MaxCmdSize, 1) ELSE first
           row     == Handles(reply.handles)
           at      == ResultsAt(reply)
<1>1. PICK n \in Nat, what \in {Plain, Cipher} : reply.params = Results(c, n, what) \o More(c)
  BY DEF RepliesToAsked
<1> DEFINE results == Results(c, n, what)
           more    == More(c)
<1>2. /\ c \in AllCommands /\ row \in Seq(Cells) /\ Len(row) = c.rspHandles
      /\ at \in Nat /\ at + Len(reply.params) <= MaxCmdSize /\ MaxCmdSize \in Nat
      /\ Len(reply.params) \in Nat
      /\ reply.handles = c.rspHandles /\ reply.handles \in Nat
      /\ HeaderSize + reply.handles <= at
  <2>1. reply.handles = c.rspHandles
    BY DEF RepliesToAsked
  <2>2. RspSize(reply) \in Nat
    BY ReplyFacts DEF RspSize
  <2>3. HeaderSize + reply.handles <= at
    BY ReplyFacts DEF ResultsAt, HeaderSize
  <2>. QED  BY <2>1, <2>2, <2>3, ReplyFacts, BufferFacts
<1>3. /\ results \in Seq(Cells) /\ more \in Seq(Cells)
      /\ Len(more) = (IF c.moreResults THEN 1 ELSE 0)
      /\ Len(reply.params) = Len(results) + Len(more)
      /\ Len(results) \in Nat
  <2>1. /\ results \in Seq(Cells) /\ more \in Seq(Cells)
        /\ Len(more) = (IF c.moreResults THEN 1 ELSE 0)
        /\ Len(results \o more) = Len(results) + Len(more)
    BY <1>2, ResultsShape
  <2>2. reply.params = results \o more
    BY <1>1
  <2> HIDE DEF results, more
  <2>. QED  BY <2>1, <2>2, LenProperties
<1>4. Placed(cmdBuffer, at, results) /\ Placed(cmdBuffer, at + Len(results), more)
  <2>1. Placed(cmdBuffer, at, results \o more)
    BY <1>1 DEF ReplyLaid
  <2> HIDE DEF at, results, more
  <2>. QED  BY <1>2, <1>3, <2>1, PlacedParts
<1>5. /\ handles \in R /\ handles.ok /\ handles.buffer = cmdBuffer
      /\ handles.read = row
  <2> DEFINE start == Cursor(cmdBuffer, nextData)
  <2>1. /\ start \in R /\ start.ok /\ start.buffer = cmdBuffer /\ start.offset = HeaderSize
        /\ start.read = <<>>
    BY BufferFacts, EmptySeq DEF Cursor, Readers, IInv, TypeOK
  <2>2. Placed(cmdBuffer, HeaderSize, row)
    BY DEF ReplyLaid
  <2>3. HeaderSize + Len(row) <= MaxCmdSize
    BY <1>2, BufferFacts
  <2> HIDE DEF start, row, R
  <2>4. LET result == Take(start, Len(row))
        IN  /\ result \in R /\ result.ok /\ result.buffer = start.buffer
            /\ result.read = start.read \o row
            /\ Unmarshal(start, MaxCmdSize, Len(row)) = result
    BY <1>2, <2>1, <2>2, <2>3, TakePlaced DEF R
  <2>5. <<>> \o row = row
    BY <1>2, ConcatEmptySeq
  <2>6. handles = Unmarshal(start, MaxCmdSize, Len(row))
    BY <1>2 DEF start
  <2>. QED  BY <2>1, <2>4, <2>5, <2>6
<1>6. ParamsStart = at
  BY StartFacts
<1> HIDE DEF handles
<1>7. /\ params \in R /\ params.ok /\ params.buffer = cmdBuffer /\ params.offset = at
      /\ params.read = row
  <2>1. params = [handles EXCEPT !.offset = at]
    BY <1>5, <1>6
  <2> HIDE DEF params, at
  <2>. QED  BY <1>2, <1>5, <2>1 DEF Readers
<1> HIDE DEF params, at, row, results, more
<1>8. /\ Take(params, Len(results)) \in R /\ Take(params, Len(results)).ok
      /\ Take(params, Len(results)).buffer = cmdBuffer
      /\ Take(params, Len(results)).offset = at + Len(results)
      /\ Take(params, Len(results)).read = row \o results
      /\ Unmarshal(params, MaxCmdSize, Len(results)) = Take(params, Len(results))
  <2>1. at + Len(results) <= MaxCmdSize
    BY <1>2, <1>3
  <2> HIDE DEF R
  <2>. QED  BY <1>3, <1>4, <1>7, <2>1, TakePlaced DEF R
<1>9. ASSUME c.result \in {"sized", "nested"}
      PROVE  first = Take(params, Len(results))
  <2>1. results = Sized(n, what)
    BY <1>9 DEF Results, results
  <2>2. /\ Len(results) = n + 1 /\ results[1] = SizeField(n)
    BY <2>1, SizedFacts
  <2>3. cmdBuffer[at] = SizeField(n)
    <3>1. 1 \in 1..Len(results) /\ at + 1 - 1 = at
      BY <1>2, <2>2
    <3>. QED  BY <1>4, <2>2, <3>1 DEF Placed
  <2>4. params.buffer[params.offset].value = n
    BY <1>7, <2>3 DEF SizeField, Cell
  <2>5. HoldsSized(params, MaxCmdSize, Ample)
    <3>1. at + (n + 1) <= MaxCmdSize /\ at < MaxCmdSize /\ at + 1 + n <= MaxCmdSize
      BY <1>2, <1>3, <2>2
    <3>2. n <= Ample.room
      BY <1>2, <3>1 DEF Ample, Destination
    <3>. QED  BY <1>7, <2>4, <3>1, <3>2 DEF HoldsSized
  <2>6. UnmarshalSized(params, MaxCmdSize, Ample) = Take(params, Len(results))
    <3>1. 1 + n = Len(results)
      BY <2>2
    <3>. QED  BY <2>4, <2>5, <3>1 DEF UnmarshalSized
  <2>7. CASE c.result = "sized"
    BY <2>6, <2>7
  <2>8. CASE c.result = "nested"
    <3> DEFINE whole == UnmarshalSized(params, MaxCmdSize, Ample)
    <3>1. whole.read = row \o results
      BY <1>8, <2>6
    <3>2. \A cell : cell \in {whole.read[i] : i \in DOMAIN whole.read} => cell # Cell("unit", Foreign)
      <4>1. ASSUME NEW i \in 1..Len(row)
            PROVE  row[i] # Cell("unit", Foreign)
        <5>1. row[i] = Cell("handle", i)
          BY <1>2, <4>1 DEF row, Handles
        <5>. QED  BY <5>1 DEF Cell
      <4>2. ASSUME NEW i \in 1..Len(results)
            PROVE  results[i] # Cell("unit", Foreign)
        <5>1. CASE i = 1
          BY <2>2, <5>1 DEF SizeField, Cell
        <5>2. CASE i # 1
          <6>1. /\ Contents(n, what) \in Seq(Cells) /\ Len(Contents(n, what)) = n
            BY SizedFacts
          <6> DEFINE head == <<SizeField(n)>>
                     tail == Contents(n, what)
          <6>2. head \in Seq(Cells) /\ Len(head) = 1
            BY CellTypes
          <6>3. i - 1 \in 1..n /\ i \in 1 .. 1 + n /\ ~(i <= 1)
            BY <2>2, <5>2
          <6>4. tail[i - 1] = Cell("unit", what)
            BY <6>3 DEF Contents
          <6>5. results = head \o tail
            BY <2>1 DEF Sized
          <6>7. tail \in Seq(Cells) /\ Len(tail) = n
            BY <6>1
          <6> HIDE DEF head, tail
          <6>8. (head \o tail)[i] = IF i <= Len(head) THEN head[i] ELSE tail[i - Len(head)]
            BY <6>2, <6>3, <6>7, ConcatProperties
          <6>6. results[i] = tail[i - 1]
            BY <6>2, <6>3, <6>5, <6>8
          <6>. QED  BY <6>4, <6>6 DEF Cell, Plain, Cipher, Foreign
        <5>. QED  BY <5>1, <5>2
      <4>3. ASSUME NEW i \in DOMAIN whole.read
            PROVE  whole.read[i] # Cell("unit", Foreign)
        <5>1. /\ row \o results \in Seq(Cells) /\ Len(row \o results) = Len(row) + Len(results)
              /\ \A j \in 1 .. Len(row) + Len(results) :
                   (row \o results)[j] = IF j <= Len(row) THEN row[j] ELSE results[j - Len(row)]
          BY <1>2, <1>3, ConcatProperties
        <5>2. i \in 1 .. Len(row) + Len(results)
          BY <3>1, <4>3, <5>1, LenProperties
        <5>3. CASE i <= Len(row)
          <6>1. i \in 1..Len(row)
            BY <1>2, <1>3, <5>2, <5>3
          <6>. QED  BY <3>1, <4>1, <5>1, <5>2, <5>3, <6>1
        <5>4. CASE ~(i <= Len(row))
          <6>1. i - Len(row) \in 1..Len(results)
            BY <1>2, <1>3, <5>2, <5>4
          <6>. QED  BY <3>1, <4>2, <5>1, <5>2, <5>4, <6>1
        <5>. QED  BY <5>3, <5>4
      <4>. QED  BY <4>3
    <3>3. UnmarshalNested(params, MaxCmdSize, Ample) = whole
      <4>1. ~(Cell("unit", Foreign) \in {whole.read[i] : i \in DOMAIN whole.read})
        BY <3>2
      <4>2. Ample.size = 0
        BY DEF Ample, Destination
      <4> HIDE DEF whole
      <4>. QED  BY <4>1, <4>2 DEF UnmarshalNested, whole
    <3>. QED  BY <2>6, <2>8, <3>3
  <2>. QED  BY <1>9, <2>7, <2>8
<1>10. first \in R /\ first.ok /\ first.buffer = cmdBuffer /\ first.offset = at + Len(results)
       /\ first.read = row \o results
  <2>1. c.result \in {"none", "plain", "sized", "nested"}
    BY <1>2, CommandsAssumption
  <2>2. CASE c.result = "none"
    <3>1. results = <<>>
      BY <2>2 DEF Results, results
    <3>2. row \o results = row /\ at + Len(results) = at
      BY <1>2, <3>1, ConcatEmptySeq, EmptySeq
    <3>3. first = params
      BY <2>2
    <3>. QED  BY <1>7, <3>2, <3>3
  <2>3. CASE c.result = "plain"
    <3>1. results = <<Value>>
      BY <2>3 DEF Results, results
    <3>2. Len(results) = 1
      BY <3>1
    <3>3. first = Unmarshal(params, MaxCmdSize, 1)
      BY <2>3
    <3>. QED  BY <1>8, <3>2, <3>3
  <2>4. CASE c.result \in {"sized", "nested"}
    BY <1>8, <1>9, <2>4
  <2>. QED  BY <2>1, <2>2, <2>3, <2>4
<1> HIDE DEF first
<1>11. last.ok /\ last.read = (row \o results) \o more
  <2>1. row \o results \in Seq(Cells)
    BY <1>2, <1>3, ConcatProperties
  <2>2. CASE c.moreResults
    <3>1. Len(more) = 1
      BY <1>3, <2>2
    <3>2. last = Unmarshal(first, MaxCmdSize, Len(more))
      BY <2>2, <3>1
    <3>3. first.offset + Len(more) <= MaxCmdSize
      BY <1>2, <1>3, <1>10, <3>1
    <3> HIDE DEF last, R
    <3>. QED  BY <1>3, <1>4, <1>10, <3>2, <3>3, TakePlaced DEF R
  <2>3. CASE ~c.moreResults
    <3>1. Len(more) = 0 /\ more = <<>>
      BY <1>3, <2>3 DEF more, More
    <3>2. (row \o results) \o more = row \o results
      BY <2>1, <3>1, ConcatEmptySeq
    <3>3. last = first
      BY <2>3
    <3> HIDE DEF last
    <3>. QED  BY <1>10, <3>2, <3>3
  <2>4. c.moreResults \in BOOLEAN
    BY <1>2, CommandsAssumption
  <2>. QED  BY <2>2, <2>3, <2>4
<1>12. (row \o results) \o more = row \o reply.params
  BY <1>1, <1>2, <1>3, ConcatAssociative DEF results, more
<1>13. Completed(Ample) = last
  BY DEF Completed, handles, params, first
<1> HIDE DEF last
<1>. QED  BY <1>11, <1>12, <1>13 DEF row

(* What the session layer reads of a reply in the buffer. *)
LEMMA ReplyRead ==
  ASSUME IInv, FieldsAgree, ReplyReceived,
         previousStage = "RECEIVE_RESPONSE", rsp_header.responseCode = Success, spoilt = {}
  PROVE  /\ RpBuffer = reply.params
         /\ nextData = HeaderSize =>
              Completed(Ample).ok /\ Completed(Ample).read = Handles(reply.handles) \o reply.params
         /\ reply.auths > 0 => RspAuthsAllowed /\ RspAuths = Auths(reply.auths)
<1> DEFINE at == ResultsAt(reply)
           params == reply.params
           auths == Auths(reply.auths)
           nh == numResponseHandles
<1>1. /\ RepliesToAsked /\ ReplyLaid(cmdBuffer, reply)
      /\ rsp_header.tag = reply.tag /\ rsp_header.responseSize = RspSize(reply)
      /\ RspSize(reply) <= MaxCmdSize
  BY DEF ReplyReceived
<1>2. /\ nh = asked.cmd.rspHandles
      /\ asked.auths > 0 => authsCount = asked.auths /\ "auth" \in allowed
  BY DEF FieldsAgree
<1>3. nh = reply.handles /\ (reply.tag = Sessions => at = EncryptParam)
  BY <1>1, <1>2, StartFacts
<1>4. /\ at \in Nat /\ params \in Seq(Cells) /\ Len(params) \in Nat
      /\ at + Len(params) <= RspSize(reply)
      /\ auths \in Seq(Cells) /\ Len(auths) = reply.auths /\ reply.auths \in Nat
      /\ reply.tag \in {NoSessions, Sessions} /\ (reply.tag = Sessions <=> reply.auths > 0)
      /\ reply.handles \in Nat
  BY <1>1, ReplyFacts
<1>5. cmdBuffer \in Buffers(Cells, MaxCmdSize) /\ MaxCmdSize \in Nat
  BY BufferFacts DEF IInv, TypeOK
<1>6. RspSize(reply) = at + Len(params) + (IF reply.tag = Sessions THEN reply.auths ELSE 0)
  BY DEF RspSize
<1>7. at + Len(params) <= MaxCmdSize
  BY <1>1, <1>4, <1>5, <1>6
<1>8. Slice(cmdBuffer, at, Len(params)) = params
  <2>1. Placed(cmdBuffer, at, params)
    BY <1>1 DEF ReplyLaid
  <2> HIDE DEF at, params
  <2>. QED  BY <1>4, <1>5, <1>7, <2>1, SlicePlaced
<1>9. reply.tag = Sessions => cmdBuffer[HeaderSize + nh].value = Len(params)
  BY <1>1, <1>3 DEF ReplyLaid, SizeField, Cell
<1>10. RpBuffer = params
  <2>1. CASE reply.tag = Sessions
    <3>1. HeaderSize + nh + 1 = at
      BY <1>3, <2>1 DEF EncryptParam
    <3>. QED  BY <1>1, <1>8, <1>9, <2>1, <3>1 DEF RpBuffer
  <2>2. CASE reply.tag # Sessions
    <3>1. at = HeaderSize + nh
      BY <1>3, <1>4, <2>2 DEF ResultsAt, HeaderSize
    <3>2. rsp_header.responseSize = at + Len(params)
      BY <1>1, <1>4, <1>6, <2>2
    <3>3. rsp_header.responseSize - HeaderSize - nh = Len(params)
      <4>1. HeaderSize \in Nat /\ nh \in Nat
        BY <1>3, <1>4 DEF HeaderSize
      <4>2. \A i, j, k \in Nat : (i + j) + k - i - j = k
        OBVIOUS
      <4> HIDE DEF at, params, nh
      <4>. QED  BY <1>4, <3>1, <3>2, <4>1, <4>2
    <3>. QED  BY <1>1, <1>8, <2>2, <3>1, <3>3 DEF RpBuffer
  <2>. QED  BY <2>1, <2>2
<1>11. nextData = HeaderSize =>
         Completed(Ample).ok /\ Completed(Ample).read = Handles(reply.handles) \o reply.params
  BY <1>1, <1>2, ReplyCompleted
<1>12. ASSUME reply.auths > 0
       PROVE  RspAuthsAllowed /\ RspAuths = auths
  <2>1. reply.tag = Sessions /\ asked.auths = reply.auths
    BY <1>1, <1>4, <1>12 DEF RepliesToAsked
  <2>2. authsCount = reply.auths /\ "auth" \in allowed
    BY <1>2, <1>12, <2>1
  <2>3. RspAuthsAllowed
    BY <1>1, <2>1, <2>2 DEF RspAuthsAllowed
  <2>4. RspAuthsStart = at + Len(params)
    BY <1>3, <1>9, <2>1 DEF RspAuthsStart, EncryptParam
  <2>5. RspAuthsStart + authsCount = RspSize(reply)
    BY <1>6, <2>1, <2>2, <2>4
  <2>6. Placed(cmdBuffer, at + Len(params), auths)
    BY <1>1, <2>1 DEF ReplyLaid
  <2>7. Slice(cmdBuffer, at + Len(params), Len(auths)) = auths
    <3>1. at + Len(params) \in Nat /\ at + Len(params) + Len(auths) <= MaxCmdSize
      BY <1>1, <1>4, <1>6, <2>1
    <3> HIDE DEF at, params, auths
    <3>. QED  BY <1>4, <1>5, <2>6, <3>1, SlicePlaced
  <2>8. RspAuthsStart + authsCount <= rsp_header.responseSize
    <3>1. RspSize(reply) \in Nat
      BY <1>4, <1>6
    <3>. QED  BY <1>1, <2>5, <3>1
  <2>9. RspAuths = Slice(cmdBuffer, RspAuthsStart, authsCount)
    BY <2>8 DEF RspAuths
  <2>. QED  BY <1>4, <2>2, <2>3, <2>4, <2>7, <2>9
<1>. QED  BY <1>10, <1>11, <1>12
-----------------------------------------------------------------------------
(* The fields that describe the response follow the command. *)
LEMMA FieldsStep ==
  ASSUME IInv, FieldsAgree, Next
  PROVE  FieldsAgree'
<1> SUFFICES ASSUME spoilt' = {}, previousStage' # "INITIALIZE"
             PROVE  /\ allowed' = asked'.cmd.allowed /\ numResponseHandles' = asked'.cmd.rspHandles
                    /\ asked'.auths > 0 => authsCount' = asked'.auths /\ "auth" \in allowed'
  BY DEF FieldsAgree
<1>1. ASSUME spoilt = {}, previousStage # "INITIALIZE",
             UNCHANGED <<allowed, numResponseHandles, authsCount>>,
             asked'.cmd = asked.cmd, asked'.auths = asked.auths
      PROVE  /\ allowed' = asked'.cmd.allowed /\ numResponseHandles' = asked'.cmd.rspHandles
             /\ asked'.auths > 0 => authsCount' = asked'.auths /\ "auth" \in allowed'
  BY <1>1 DEF FieldsAgree
<1>2. ASSUME NEW c \in AllCommands, NEW n, Prepare(c, n)
      PROVE  /\ allowed' = asked'.cmd.allowed /\ numResponseHandles' = asked'.cmd.rspHandles
             /\ asked'.auths > 0 => authsCount' = asked'.auths /\ "auth" \in allowed'
  <2>1. /\ allowed' = c.allowed /\ numResponseHandles' = GetNumResponseHandles(c.name)
        /\ asked' = [cmd |-> c, params |-> First(c, n) \o Rest(c), auths |-> 0]
    BY <1>2 DEF Prepare
  <2>2. asked'.cmd = c /\ asked'.auths = 0
    BY <2>1
  <2>3. c.rspHandles = GetNumResponseHandles(c.name)
    BY CommandsAssumption
  <2>. QED  BY <2>1, <2>2, <2>3
<1>3. ASSUME NEW n \in 1..MaxAuths, SetCmdAuths(n)
      PROVE  /\ allowed' = asked'.cmd.allowed /\ numResponseHandles' = asked'.cmd.rspHandles
             /\ asked'.auths > 0 => authsCount' = asked'.auths /\ "auth" \in allowed'
  <2>1. /\ "auth" \in allowed /\ authsCount' = n /\ asked' = [asked EXCEPT !.auths = n]
        /\ spoilt = {} /\ previousStage = "PREPARE" /\ UNCHANGED <<allowed, numResponseHandles>>
    BY <1>3 DEF SetCmdAuths, AuthsAllowed, Whole, flags
  <2>2. asked'.cmd = asked.cmd /\ asked'.auths = n
    BY <2>1 DEF IInv, TypeOK
  <2>. QED  BY <2>1, <2>2 DEF FieldsAgree
<1>4. CASE SetNoAuths
  <2>1. /\ spoilt = {} /\ Repeated = {} /\ previousStage = "PREPARE" /\ asked' = asked
        /\ UNCHANGED <<allowed, numResponseHandles>>
    BY <1>4 DEF SetNoAuths, AuthsAllowed, Whole, flags
  <2>2. asked.auths = 0
    BY <2>1 DEF Repeated
  <2>. QED  BY <2>1, <2>2 DEF FieldsAgree
<1>5. ASSUME NEW n \in Sizes, ReplaceDecryptParam(n) \/ InsertDecryptParam(n)
      PROVE  /\ spoilt = {} /\ previousStage # "INITIALIZE"
             /\ UNCHANGED <<allowed, numResponseHandles, authsCount>>
             /\ asked'.cmd = asked.cmd /\ asked'.auths = asked.auths
  <2>1. /\ asked' = MeantEncrypted(n) /\ spoilt \subseteq spoilt' /\ previousStage = "PREPARE"
        /\ UNCHANGED <<allowed, numResponseHandles, authsCount>>
    BY <1>5 DEF ReplaceDecryptParam, InsertDecryptParam, DecryptAllowed, Whole, flags, layout
  <2>2. asked'.cmd = asked.cmd /\ asked'.auths = asked.auths
    BY <2>1 DEF MeantEncrypted, IInv, TypeOK
  <2>. QED  BY <2>1, <2>2
<1>6. ASSUME \/ ExecuteAsync \/ TpmExecutes \/ TpmRefuses \/ TpmStammers \/ ExecuteFinish \/ Complete
             \/ \E n \in Sizes : SetEncryptParam(n)
      PROVE  /\ spoilt = {} /\ previousStage # "INITIALIZE"
             /\ UNCHANGED <<allowed, numResponseHandles, authsCount, asked>>
  <2>1. CASE ExecuteAsync
    BY <2>1 DEF ExecuteAsync, flags, layout, history
  <2>2. CASE TpmExecutes \/ TpmRefuses \/ TpmStammers
    <3>1. wire.phase = "sent" /\ UNCHANGED <<context, asked, spoilt>>
      BY <2>2 DEF TpmExecutes, TpmRefuses, TpmStammers, Answers
    <3>2. previousStage = "SEND_COMMAND"
      BY <3>1 DEF IInv, StageAgrees
    <3>. QED  BY <3>1, <3>2 DEF context, flags, layout
  <2>3. CASE ExecuteFinish
    <3>1. /\ spoilt \subseteq spoilt' /\ previousStage = "SEND_COMMAND"
          /\ UNCHANGED <<layout, flags, asked>>
      BY <2>3 DEF ExecuteFinish
    <3>. QED  BY <3>1 DEF flags, layout
  <2>4. CASE Complete
    BY <2>4 DEF Complete, flags, layout, history
  <2>5. CASE \E n \in Sizes : SetEncryptParam(n)
    BY <2>5 DEF SetEncryptParam, flags, layout
  <2>. QED  BY <1>6, <2>1, <2>2, <2>3, <2>4, <2>5
<1>7. ~PrepareRefused /\ ~Initialize
  BY DEF PrepareRefused, Initialize
<1>8. /\ \A n \in 1..MaxAuths : ~SetCmdAuthsFails(n)
      /\ \A c, n : ~PrepareFails(c, n)
  <2>1. \A n \in 1..MaxAuths : ~SetCmdAuthsFails(n)
    BY DEF SetCmdAuthsFails
  <2>2. \A c, n : ~PrepareFails(c, n)
    BY DEF PrepareFails
  <2>. QED  BY <2>1, <2>2
<1>9. Preparable \subseteq AllCommands
  BY SysAssumption DEF Preparable
<1>. QED  BY <1>1, <1>2, <1>3, <1>4, <1>5, <1>6, <1>7, <1>8, <1>9 DEF Next

(* The TPM answers the command it was sent. *)
LEMMA AnsweredStep ==
  ASSUME ~NewStructures, IInv, TpmExecutes \/ TpmRefuses \/ TpmStammers
  PROVE  AnsweredAsked'
<1> SUFFICES ASSUME WellFormed(wire'.cells)
             PROVE  RepliesToAsked' /\ wire'.cells = Answer(reply')
  BY DEF AnsweredAsked
<1>0. /\ wire'.cells[1].value \in {NoSessions, Sessions} /\ wire'.cells[3].value = Success
      /\ HeaderSize <= wire'.cells[2].value /\ wire'.cells[2].value <= MaxCmdSize
  BY DEF WellFormed
<1>1. CASE TpmExecutes
  <2> DEFINE c == asked.cmd
  <2>1. PICK n \in Sizes, what \in Kinds(c) :
          Answers(Executed(c, n, what), Answer(Executed(c, n, what)))
    BY <1>1 DEF TpmExecutes
  <2>2. /\ reply' = Executed(c, n, what) /\ asked' = asked
        /\ wire' = [phase |-> "answered", cells |-> Answer(Executed(c, n, what))]
    BY <2>1 DEF Answers
  <2>3. wire'.cells = Answer(reply')
    BY <2>2
  <2>4. what \in {Plain, Cipher} /\ n \in Nat
    BY SysAssumption DEF Kinds
  <2>5. wire.cells[1].value = CommandTag
    <3>1. wire.cells = Meant
      BY <1>1 DEF TpmExecutes
    <3>2. Meant[1] = Tag(CommandTag)
      BY MeantFacts DEF IInv, CommandTag
    <3>. QED  BY <3>1, <3>2 DEF Tag, Cell
  <2>6. /\ reply'.code = Success /\ reply'.tag = CommandTag
        /\ reply'.handles = c.rspHandles /\ reply'.auths = asked.auths
        /\ reply'.params = Results(c, n, what) \o More(c)
    BY <2>2, <2>5 DEF Executed, More
  <2>7. RepliesToAsked'
    BY <2>2, <2>4, <2>6 DEF RepliesToAsked, CommandTag
  <2>. QED  BY <2>3, <2>7
<1>2. CASE TpmRefuses
  <2>1. PICK code \in {Refused, Canceled} :
          Answers([NoReply EXCEPT !.code = code], Answer([NoReply EXCEPT !.code = code]))
    BY <1>2 DEF TpmRefuses
  <2> DEFINE r == [NoReply EXCEPT !.code = code]
  <2>2. wire' = [phase |-> "answered", cells |-> Answer(r)]
    BY <2>1 DEF Answers
  <2>3. r \in Replies /\ r.code = code
    <3>1. NoReply \in Replies
      BY SysAssumption, EmptySeq DEF NoReply, Replies, NoSessions, Refused
    <3>. QED  BY <2>1, <3>1 DEF Replies, Refused, Canceled
  <2> HIDE DEF r
  <2>4. wire'.cells[3] = Code(code)
    BY <2>2, <2>3, AnswerFacts
  <2>. QED  BY <1>0, <2>1, <2>4 DEF Code, Cell, Success, Refused, Canceled
<1>3. CASE TpmStammers
  <2>1. PICK header \in {<<Tag(Invalid), SizeField(HeaderSize)>>,
                         <<Tag(NoSessions), SizeField(MaxCmdSize + 1)>>,
                         <<Tag(NoSessions), SizeField(HeaderSize - 1)>>} :
          Answers(NoReply, header \o <<Code(Success)>>)
    BY <1>3 DEF TpmStammers
  <2>2. PICK tag \in {Invalid, NoSessions}, size \in Nat :
          /\ header = <<Tag(tag), SizeField(size)>>
          /\ tag = Invalid \/ size = MaxCmdSize + 1 \/ size = HeaderSize - 1
    BY BufferFacts
  <2> DEFINE one   == Tag(tag)
             two   == SizeField(size)
             three == Code(Success)
             cells == <<one, two>> \o <<three>>
  <2>3. one \in Cells /\ two \in Cells /\ three \in Cells
    BY <2>2, CellTypes DEF Invalid, NoSessions, Success
  <2>4. wire'.cells = cells
    BY <2>1, <2>2 DEF Answers
  <2>5. one.value = tag /\ two.value = size
    BY DEF Tag, SizeField, Cell
  <2> HIDE DEF one, two, three
  <2>6. cells[1] = one /\ cells[2] = two
    BY <2>3, ConcatProperties
  <2> HIDE DEF cells
  <2>7. tag \in {NoSessions, Sessions} /\ HeaderSize <= size /\ size <= MaxCmdSize
    BY <1>0, <2>4, <2>5, <2>6
  <2>. QED  BY <2>2, <2>7, BufferFacts DEF Invalid, NoSessions, Sessions
<1>. QED  BY <1>1, <1>2, <1>3

(* It comes into the buffer as it was sent. *)
LEMMA ReceivedStep ==
  ASSUME IInv, AnsweredAsked, ExecuteFinish
  PROVE  ReplyReceived'
<1> SUFFICES ASSUME previousStage' = "RECEIVE_RESPONSE", rsp_header'.responseCode = Success
             PROVE  /\ RepliesToAsked' /\ ReplyLaid(cmdBuffer', reply')
                    /\ rsp_header'.tag = reply'.tag /\ rsp_header'.responseSize = RspSize(reply')
                    /\ RspSize(reply') <= MaxCmdSize
  BY DEF ReplyReceived
<1> DEFINE buffer == Written(cmdBuffer, 0, wire.cells)
           header == [tag |-> buffer[0].value, responseSize |-> buffer[1].value,
                      responseCode |-> buffer[2].value]
<1>1. /\ wire.phase = "answered" /\ cmdBuffer' = buffer /\ UNCHANGED <<asked, reply>>
      /\ header.tag \in {NoSessions, Sessions} /\ header.responseSize \in Nat
      /\ HeaderSize <= header.responseSize /\ header.responseSize <= MaxCmdSize
      /\ rsp_header' = header
  <2> DEFINE wrongTag  == header.tag \notin {NoSessions, Sessions}
             wrongSize == header.responseSize > MaxCmdSize
             again     == header.responseSize < HeaderSize \/ header.responseCode = Canceled
  <2>1. /\ wire.phase = "answered" /\ cmdBuffer' = buffer /\ UNCHANGED <<asked, reply>>
        /\ previousStage' = (IF wrongTag \/ wrongSize THEN "SEND_COMMAND"
                             ELSE IF again THEN "PREPARE" ELSE "RECEIVE_RESPONSE")
        /\ rsp_header' = (IF wrongTag THEN [rsp_header EXCEPT !.tag = header.tag]
                          ELSE IF wrongSize THEN [header EXCEPT !.responseCode = rsp_header.responseCode]
                          ELSE header)
    BY DEF ExecuteFinish
  <2>2. ~wrongTag /\ ~wrongSize /\ ~again
    <3> HIDE DEF wrongTag, wrongSize, again
    <3>. QED  BY <2>1
  <2>3. buffer[1].value \in Nat
    <3>1. cmdBuffer \in Buffers(Cells, MaxCmdSize) /\ wire.cells \in Seq(Cells)
      BY BufferFacts DEF IInv, TypeOK
    <3>2. buffer \in Buffers(Cells, MaxCmdSize)
      BY <3>1, BufferFacts, WrittenFacts
    <3> HIDE DEF buffer
    <3>. QED  BY <3>2, HeaderFacts
  <2>4. header.responseSize = buffer[1].value
    OBVIOUS
  <2> HIDE DEF header
  <2>. QED  BY <2>1, <2>2, <2>3, <2>4, BufferFacts
<1>2. /\ wire.cells \in Seq(Cells) /\ Len(wire.cells) <= MaxCmdSize /\ HeaderSize <= Len(wire.cells)
      /\ Len(wire.cells) \in Nat
  BY <1>1, LenProperties DEF IInv, TypeOK, AnswerOK
<1>3. Placed(buffer, 0, wire.cells)
  <2>1. 0 + Len(wire.cells) <= MaxCmdSize /\ 0 \in Nat
    BY <1>2
  <2>. QED  BY <1>2, <2>1, WrittenFacts, BufferFacts DEF IInv, TypeOK
<1> HIDE DEF buffer
<1>4. buffer[0] = wire.cells[1] /\ buffer[1] = wire.cells[2] /\ buffer[2] = wire.cells[3]
  <2>1. 1 \in 1..Len(wire.cells) /\ 2 \in 1..Len(wire.cells) /\ 3 \in 1..Len(wire.cells)
    BY <1>2 DEF HeaderSize
  <2>2. /\ buffer[0 + 1 - 1] = wire.cells[1] /\ buffer[0 + 2 - 1] = wire.cells[2]
        /\ buffer[0 + 3 - 1] = wire.cells[3]
    BY <1>3, <2>1 DEF Placed
  <2>. QED  BY <2>2
<1>5. /\ header.tag = wire.cells[1].value /\ header.responseSize = wire.cells[2].value
      /\ header.responseCode = wire.cells[3].value
  BY <1>4
<1> HIDE DEF header
<1>6. WellFormed(wire.cells)
  BY <1>1, <1>5 DEF WellFormed
<1>7. RepliesToAsked /\ wire.cells = Answer(reply)
  BY <1>1, <1>6 DEF AnsweredAsked
<1>8. reply \in Replies
  BY DEF IInv, TypeOK, Replies
<1>9. /\ Answer(reply)[2] = SizeField(RspSize(reply)) /\ ReplyLaid(buffer, reply)
  BY <1>3, <1>7, <1>8, AnswerLaid
<1>10. Answer(reply)[1] = Tag(reply.tag)
  BY <1>8, AnswerFacts
<1>11. header.tag = reply.tag /\ header.responseSize = RspSize(reply)
  BY <1>5, <1>7, <1>9, <1>10 DEF Tag, SizeField, Cell
<1>12. RepliesToAsked'
  BY <1>1, <1>7 DEF RepliesToAsked, CommandTag
<1>. QED  BY <1>1, <1>9, <1>11, <1>12

(* Cells that nothing is written over stay. *)
LEMMA PlacedKept ==
  ASSUME NEW buffer, NEW other, NEW offset \in Nat, NEW cells \in Seq(Cells),
         Placed(buffer, offset, cells),
         \A i \in offset .. offset + Len(cells) - 1 : other[i] = buffer[i]
  PROVE  Placed(other, offset, cells)
<1>1. Len(cells) \in Nat
  BY LenProperties
<1>2. ASSUME NEW i \in 1..Len(cells)
      PROVE  other[offset + i - 1] = cells[i]
  <2>1. offset + i - 1 \in offset .. offset + Len(cells) - 1
    BY <1>1
  <2>2. buffer[offset + i - 1] = cells[i]
    BY DEF Placed
  <2>. QED  BY <2>1, <2>2
<1>. QED  BY <1>2 DEF Placed

(* The result that an application replaces is one of a size. *)
LEMMA SizedResult ==
  ASSUME IInv, RepliesToAsked, ReplyLaid(cmdBuffer, reply),
         numResponseHandles = asked.cmd.rspHandles, RspSize(reply) <= MaxCmdSize,
         NEW m \in Nat, cmdBuffer[0] # Tag(NoSessions), cmdBuffer[EncryptParam] = SizeField(m)
  PROVE  /\ asked.cmd.result \in {"sized", "nested"}
         /\ \E what \in {Plain, Cipher} : reply.params = Sized(m, what) \o More(asked.cmd)
<1> DEFINE c == asked.cmd
           at == ResultsAt(reply)
<1>1. /\ reply.tag = Sessions /\ EncryptParam = at
  BY StartFacts
<1>2. PICK n \in Nat, what \in {Plain, Cipher} : reply.params = Results(c, n, what) \o More(c)
  BY DEF RepliesToAsked
<1>3. c \in AllCommands /\ at \in Nat
  BY ReplyFacts
<1> DEFINE first == Results(c, n, what)
           more  == More(c)
<1>4. /\ first \in Seq(Cells) /\ more \in Seq(Cells) /\ first \o more \in Seq(Cells)
      /\ Placed(cmdBuffer, at, first) /\ Placed(cmdBuffer, at + Len(first), more)
      /\ Len(first) \in Nat
  <2>1. first \in Seq(Cells) /\ more \in Seq(Cells) /\ first \o more \in Seq(Cells)
    BY <1>2, <1>3, ResultsShape
  <2>2. Placed(cmdBuffer, at, first \o more)
    BY <1>2 DEF ReplyLaid
  <2> HIDE DEF first, more, at
  <2>. QED  BY <1>3, <2>1, <2>2, PlacedParts, LenProperties
<1>5. cmdBuffer[at].kind = "size" /\ cmdBuffer[at].value = m
  BY <1>1 DEF SizeField, Cell
<1>6. Value.kind = "value" /\ Cell("auth", 1).kind = "auth"
  BY DEF Value, Cell
<1>7. CASE c.result \in {"sized", "nested"}
  <2>1. first = Sized(n, what)
    BY <1>7 DEF Results
  <2>2. Len(first) = n + 1 /\ first[1] = SizeField(n)
    BY <1>2, <2>1, SizedFacts
  <2>3. cmdBuffer[at] = SizeField(n)
    <3> HIDE DEF first, at
    <3>1. cmdBuffer[at + 1 - 1] = first[1]
      BY <1>2, <1>4, <2>2 DEF Placed
    <3>. QED  BY <1>3, <2>2, <3>1
  <2>4. n = m
    BY <1>5, <2>3 DEF SizeField, Cell
  <2>. QED  BY <1>2, <1>7, <2>1, <2>4
<1>8. CASE c.result = "plain"
  <2>1. first = <<Value>>
    BY <1>8 DEF Results
  <2>2. cmdBuffer[at] = Value
    BY <1>3, <1>4, <2>1, PlacedOne
  <2>. QED  BY <1>5, <1>6, <2>2
<1>9. CASE c.result = "none"
  <2>1. first = <<>> /\ Len(first) = 0
    BY <1>9 DEF Results
  <2>2. CASE c.moreResults
    <3>1. more = <<Value>> /\ at + Len(first) = at
      BY <1>3, <2>1, <2>2 DEF More
    <3>2. cmdBuffer[at] = Value
      BY <1>3, <1>4, <3>1, PlacedOne
    <3>. QED  BY <1>5, <1>6, <3>2
  <2>3. CASE ~c.moreResults
    <3>1. reply.params = <<>> /\ at + Len(reply.params) = at
      BY <1>2, <1>3, <2>1, <2>3 DEF More
    <3>2. Placed(cmdBuffer, at, Auths(reply.auths))
      BY <1>1, <3>1 DEF ReplyLaid
    <3>3. 1 \in 1..Len(Auths(reply.auths)) /\ Auths(reply.auths)[1] = Cell("auth", 1)
      <4>1. reply.auths \in Nat /\ reply.auths > 0 /\ Len(Auths(reply.auths)) = reply.auths
        BY <1>1, ReplyFacts
      <4>. QED  BY <4>1 DEF Auths
    <3>4. cmdBuffer[at] = Cell("auth", 1)
      <4> HIDE DEF at
      <4>1. cmdBuffer[at + 1 - 1] = Auths(reply.auths)[1]
        BY <3>2, <3>3 DEF Placed
      <4>. QED  BY <1>3, <3>3, <4>1
    <3>. QED  BY <1>5, <1>6, <3>4
  <2>. QED  BY <2>2, <2>3
<1>10. c.result \in {"none", "plain", "sized", "nested"}
  BY <1>3, CommandsAssumption
<1>. QED  BY <1>7, <1>8, <1>9, <1>10

(* A result decrypted in the buffer is the same one in clear. *)
LEMMA EncryptParamRead ==
  ASSUME IInv, FieldsAgree, ReplyReceived, NEW m \in Sizes, SetEncryptParam(m)
  PROVE  ReplyReceived'
<1> SUFFICES ASSUME spoilt = {}
             PROVE  /\ RepliesToAsked' /\ ReplyLaid(cmdBuffer', reply')
                    /\ rsp_header'.tag = reply'.tag /\ rsp_header'.responseSize = RspSize(reply')
                    /\ RspSize(reply') <= MaxCmdSize
  BY DEF ReplyReceived, SetEncryptParam
<1> DEFINE c  == asked.cmd
           at == ResultsAt(reply)
           nh == reply.handles
           more == More(c)
           left == SubSeq(reply.params, m + 2, Len(reply.params))
<1>1. /\ previousStage = "RECEIVE_RESPONSE" /\ rsp_header.responseCode = Success
      /\ cmdBuffer[0] # Tag(NoSessions) /\ cmdBuffer[EncryptParam] = SizeField(m)
      /\ EncryptParam + m < MaxCmdSize
      /\ cmdBuffer' = Written(cmdBuffer, EncryptParam + 1, Contents(m, Plain))
      /\ reply' = [reply EXCEPT !.params = Results(c, m, Plain) \o left]
      /\ UNCHANGED <<rsp_header, asked>>
  BY DEF SetEncryptParam
<1>2. m \in Nat
  BY SysAssumption
<1>3. /\ RepliesToAsked /\ ReplyLaid(cmdBuffer, reply)
      /\ rsp_header.tag = reply.tag /\ rsp_header.responseSize = RspSize(reply)
      /\ RspSize(reply) <= MaxCmdSize
  BY <1>1 DEF ReplyReceived
<1>4. numResponseHandles = c.rspHandles
  BY <1>1 DEF FieldsAgree
<1>5. reply.tag = Sessions /\ EncryptParam = at /\ numResponseHandles = nh
  BY <1>1, <1>3, <1>4, StartFacts
<1>6. /\ c.result \in {"sized", "nested"}
      /\ \E what \in {Plain, Cipher} : reply.params = Sized(m, what) \o more
  BY <1>1, <1>2, <1>3, <1>4, SizedResult
<1>7. PICK what \in {Plain, Cipher} : reply.params = Sized(m, what) \o more
  BY <1>6
<1>8. /\ c \in AllCommands /\ at \in Nat /\ nh \in Nat /\ reply \in Replies
      /\ reply.auths \in Nat /\ reply.params \in Seq(Cells) /\ Len(reply.params) \in Nat
      /\ at = HeaderSize + nh + 1 /\ HeaderSize = 3
      /\ Handles(nh) \in Seq(Cells) /\ Len(Handles(nh)) = nh
      /\ Auths(reply.auths) \in Seq(Cells) /\ Len(Auths(reply.auths)) = reply.auths
  BY <1>3, <1>5, ReplyFacts DEF ResultsAt, HeaderSize
<1> DEFINE old == Sized(m, what)
           new == Sized(m, Plain)
<1>9. /\ old \in Seq(Cells) /\ Len(old) = m + 1
      /\ new \in Seq(Cells) /\ Len(new) = m + 1
      /\ more \in Seq(Cells) /\ Len(more) \in Nat
  BY <1>2, <1>7, <1>8, SizedFacts, ResultsShape, LenProperties
<1>10. left = more
  <2> HIDE DEF old, more
  <2>1. /\ Len(reply.params) = m + 1 + Len(more)
        /\ \A i \in 1..Len(more) : reply.params[m + 1 + i] = more[i]
    <3>1. /\ Len(old \o more) = Len(old) + Len(more)
          /\ \A i \in 1 .. Len(old) + Len(more) :
               (old \o more)[i] = IF i <= Len(old) THEN old[i] ELSE more[i - Len(old)]
      BY <1>9, ConcatProperties
    <3>2. reply.params = old \o more
      BY <1>7 DEF old
    <3>3. ASSUME NEW i \in 1..Len(more)
          PROVE  reply.params[m + 1 + i] = more[i]
      <4> DEFINE j == m + 1 + i
      <4>1. j \in 1 .. Len(old) + Len(more) /\ ~(j <= Len(old)) /\ j - Len(old) = i
        BY <1>2, <1>9
      <4> HIDE DEF j
      <4>2. (old \o more)[j] = more[j - Len(old)]
        BY <3>1, <4>1
      <4>. QED  BY <3>2, <4>1, <4>2 DEF j
    <3>. QED  BY <1>9, <3>1, <3>2, <3>3
  <2> DEFINE l == Len(reply.params)
  <2>2. \A i \in m + 2 .. l : reply.params[i] \in Cells
    BY <1>2, <1>8, ElementOfSeq
  <2>3. /\ left \in Seq(Cells) /\ Len(left) = IF m + 2 <= l THEN l - (m + 2) + 1 ELSE 0
        /\ \A i \in 1 .. l - (m + 2) + 1 : left[i] = reply.params[m + 2 + i - 1]
    <3> HIDE DEF l
    <3>1. m + 2 \in Int /\ l \in Int
      BY <1>2, <1>8 DEF l
    <3>2. \A s, k : k \in Int /\ (\A i \in k .. l : s[i] \in Cells) =>
            /\ SubSeq(s, k, l) \in Seq(Cells)
            /\ Len(SubSeq(s, k, l)) = IF k <= l THEN l - k + 1 ELSE 0
            /\ \A i \in 1 .. l - k + 1 : SubSeq(s, k, l)[i] = s[k + i - 1]
      BY <3>1, SubSeqProperties
    <3>. QED  BY <2>2, <3>1, <3>2 DEF l
  <2> HIDE DEF left
  <2>4. Len(left) = Len(more) /\ l - (m + 2) + 1 = Len(more)
    BY <1>2, <1>9, <2>1, <2>3
  <2>5. \A i \in 1..Len(more) : left[i] = more[i]
    <3> SUFFICES ASSUME NEW i \in 1..Len(more)
                 PROVE  left[i] = more[i]
      OBVIOUS
    <3>1. m + 2 + i - 1 = m + 1 + i
      BY <1>2, <1>9
    <3>. QED  BY <2>1, <2>3, <2>4, <3>1
  <2>. QED  BY <1>9, <2>3, <2>4, <2>5, SeqEqual
<1> HIDE DEF left
<1>11. Results(c, m, Plain) = new
  BY <1>6 DEF Results
<1>12. /\ reply' = [reply EXCEPT !.params = new \o more]
       /\ reply'.params = new \o more /\ reply'.tag = reply.tag /\ reply'.auths = reply.auths
       /\ reply'.handles = nh /\ reply'.code = reply.code
  BY <1>1, <1>8, <1>10, <1>11 DEF Replies
<1>13. /\ Len(reply.params) = m + 1 + Len(more) /\ Len(reply'.params) = m + 1 + Len(more)
       /\ reply'.params \in Seq(Cells)
  <2>1. Len(old \o more) = Len(old) + Len(more) /\ Len(new \o more) = Len(new) + Len(more)
        /\ new \o more \in Seq(Cells)
    <3> HIDE DEF old, new, more
    <3>. QED  BY <1>9, ConcatProperties
  <2>. QED  BY <1>7, <1>9, <1>12, <2>1
<1>14. RspSize(reply') = RspSize(reply) /\ ResultsAt(reply') = at
  BY <1>12, <1>13 DEF RspSize, ResultsAt
<1>15. RepliesToAsked'
  <2>1. /\ reply.code = Success /\ reply.tag = CommandTag
        /\ reply.handles = c.rspHandles /\ reply.auths = asked.auths
    BY <1>3 DEF RepliesToAsked
  <2>2. reply'.params = Results(c, m, Plain) \o More(c)
    BY <1>11, <1>12
  <2>3. CommandTag' = CommandTag /\ asked' = asked
    BY <1>1 DEF CommandTag
  <2>. QED  BY <1>2, <1>12, <2>1, <2>2, <2>3 DEF RepliesToAsked
<1> DEFINE units == Contents(m, Plain)
           buffer == Written(cmdBuffer, at + 1, units)
<1>16. /\ cmdBuffer' = buffer /\ units \in Seq(Cells) /\ Len(units) = m
       /\ cmdBuffer \in Buffers(Cells, MaxCmdSize) /\ MaxCmdSize \in Nat
       /\ at + m < MaxCmdSize
  BY <1>1, <1>2, <1>5, SizedFacts, BufferFacts DEF IInv, TypeOK
<1> HIDE DEF at, nh, more, old, new, units, c
<1>17. /\ Placed(buffer, at + 1, units)
       /\ \A i \in 0 .. MaxCmdSize - 1 : ~(at + 1 <= i /\ i <= at + m) => buffer[i] = cmdBuffer[i]
  <2>1. at + 1 \in Nat /\ at + 1 + Len(units) <= MaxCmdSize
    BY <1>2, <1>8, <1>16
  <2>2. /\ \A i \in 0 .. MaxCmdSize - 1 : i \notin at + 1 .. (at + 1 + Len(units) - 1) =>
             buffer[i] = cmdBuffer[i]
        /\ Placed(buffer, at + 1, units)
    BY <1>16, <2>1, WrittenFacts
  <2> HIDE DEF buffer
  <2>3. \A i \in 0 .. MaxCmdSize - 1 :
          ~(at + 1 <= i /\ i <= at + m) => i \notin at + 1 .. (at + 1 + Len(units) - 1)
    BY <1>2, <1>8, <1>16
  <2>. QED  BY <2>2, <2>3
<1> HIDE DEF buffer
<1>18. /\ RspSize(reply) = at + Len(reply.params) + reply.auths
       /\ at + m + 1 + Len(more) + reply.auths <= MaxCmdSize
  BY <1>2, <1>3, <1>5, <1>8, <1>9, <1>13 DEF RspSize, at
<1>19. /\ buffer[0] = Tag(reply'.tag)
       /\ buffer[HeaderSize + nh] = SizeField(Len(reply'.params))
  <2>1. /\ 0 \in 0 .. MaxCmdSize - 1 /\ ~(at + 1 <= 0)
        /\ HeaderSize + nh \in 0 .. MaxCmdSize - 1 /\ ~(at + 1 <= HeaderSize + nh)
    BY <1>2, <1>8, <1>16
  <2>2. cmdBuffer[0] = Tag(reply.tag) /\ cmdBuffer[HeaderSize + nh] = SizeField(Len(reply.params))
    BY <1>3, <1>5 DEF ReplyLaid, nh
  <2>. QED  BY <1>12, <1>13, <1>17, <2>1, <2>2
<1>20. Placed(buffer, HeaderSize, Handles(nh))
  <2>1. Placed(cmdBuffer, HeaderSize, Handles(nh))
    BY <1>3 DEF ReplyLaid, nh
  <2>2. \A i \in HeaderSize .. HeaderSize + Len(Handles(nh)) - 1 :
          i \in 0 .. MaxCmdSize - 1 /\ ~(at + 1 <= i)
    BY <1>2, <1>8, <1>16
  <2>3. \A i \in HeaderSize .. HeaderSize + Len(Handles(nh)) - 1 : buffer[i] = cmdBuffer[i]
    BY <1>17, <2>2
  <2>4. HeaderSize \in Nat
    BY <1>8
  <2>. QED  BY <1>8, <2>1, <2>3, <2>4, PlacedKept
<1>21. Placed(buffer, at, reply'.params)
  <2> DEFINE size == <<SizeField(m)>>
  <2>1. new = size \o units /\ size \in Seq(Cells) /\ Len(size) = 1
    BY <1>2, CellTypes DEF new, units, Sized
  <2>2. Placed(cmdBuffer, at, old \o more)
    BY <1>3, <1>7 DEF ReplyLaid, at, old
  <2>3. Placed(cmdBuffer, at + (m + 1), more)
    BY <1>8, <1>9, <2>2, PlacedParts
  <2>4. Placed(buffer, at + (m + 1), more)
    <3>1. \A i \in at + (m + 1) .. at + (m + 1) + Len(more) - 1 :
            i \in 0 .. MaxCmdSize - 1 /\ ~(i <= at + m)
      BY <1>2, <1>8, <1>9, <1>16, <1>18
    <3>2. \A i \in at + (m + 1) .. at + (m + 1) + Len(more) - 1 : buffer[i] = cmdBuffer[i]
      BY <1>17, <3>1
    <3>3. at + (m + 1) \in Nat
      BY <1>2, <1>8
    <3>. QED  BY <1>9, <2>3, <3>2, <3>3, PlacedKept
  <2>5. buffer[at] = SizeField(m)
    <3>1. at \in 0 .. MaxCmdSize - 1 /\ ~(at + 1 <= at)
      BY <1>2, <1>8, <1>16
    <3>. QED  BY <1>1, <1>5, <1>17, <3>1
  <2>6. Placed(buffer, at, size)
    BY <1>8, <2>5, PlacedOne
  <2> HIDE DEF size
  <2>7. Placed(buffer, at, new)
    BY <1>8, <1>16, <1>17, <2>1, <2>6, PlacedParts
  <2>. QED  BY <1>8, <1>9, <1>12, <2>4, <2>7, PlacedParts
<1>22. Placed(buffer, at + Len(reply'.params), Auths(reply.auths))
  <2> DEFINE from == at + Len(reply.params)
  <2>1. Placed(cmdBuffer, from, Auths(reply.auths))
    BY <1>3, <1>5 DEF ReplyLaid, at
  <2>2. from \in Nat /\ from = at + m + 1 + Len(more)
    BY <1>2, <1>8, <1>9, <1>13
  <2> HIDE DEF from
  <2>3. \A i \in from .. from + Len(Auths(reply.auths)) - 1 :
          i \in 0 .. MaxCmdSize - 1 /\ ~(i <= at + m)
    BY <1>2, <1>8, <1>9, <1>16, <1>18, <2>2
  <2>4. \A i \in from .. from + Len(Auths(reply.auths)) - 1 : buffer[i] = cmdBuffer[i]
    BY <1>17, <2>3
  <2>5. Placed(buffer, from, Auths(reply.auths))
    BY <1>8, <2>1, <2>2, <2>4, PlacedKept
  <2>. QED  BY <1>13, <2>5 DEF from
<1>23. ReplyLaid(cmdBuffer', reply')
  BY <1>12, <1>14, <1>16, <1>19, <1>20, <1>21, <1>22 DEF ReplyLaid
<1>. QED  BY <1>1, <1>3, <1>12, <1>14, <1>15, <1>23

(* No other step changes what was answered before it is received ... *)
LEMMA AnsweredKept ==
  ASSUME IInv, AnsweredAsked, Next, ~(TpmExecutes \/ TpmRefuses \/ TpmStammers)
  PROVE  AnsweredAsked'
<1> SUFFICES ASSUME wire'.phase = "answered"
             PROVE  AnsweredAsked'
  BY DEF AnsweredAsked
<1>1. wire.phase # "idle" => previousStage = "SEND_COMMAND"
  BY DEF IInv, StageAgrees
<1>2. ~ExecuteAsync /\ ~ExecuteFinish
  BY DEF ExecuteAsync, ExecuteFinish, Quiet
<1>3. UNCHANGED wire
  <2>1. \A c, n : Prepare(c, n) \/ PrepareFails(c, n) => UNCHANGED wire
    BY DEF Prepare, PrepareFails
  <2>2. \A n : SetCmdAuths(n) \/ SetCmdAuthsFails(n) \/ ReplaceDecryptParam(n)
               \/ InsertDecryptParam(n) \/ SetEncryptParam(n) => UNCHANGED wire
    BY DEF SetCmdAuths, SetCmdAuthsFails, ReplaceDecryptParam, InsertDecryptParam, SetEncryptParam
  <2>3. PrepareRefused \/ SetNoAuths \/ Complete \/ Initialize => UNCHANGED wire
    BY DEF PrepareRefused, SetNoAuths, Complete, Initialize
  <2>. QED  BY <1>2, <2>1, <2>2, <2>3 DEF Next
<1>4. previousStage = "SEND_COMMAND"
  BY <1>1, <1>3
<1>5. PrepareRefused
  <2>1. \A c, n : ~Prepare(c, n) /\ ~PrepareFails(c, n)
    BY <1>4 DEF Prepare, PrepareFails
  <2>2. \A n : /\ ~SetCmdAuths(n) /\ ~SetCmdAuthsFails(n) /\ ~ReplaceDecryptParam(n)
               /\ ~InsertDecryptParam(n) /\ ~SetEncryptParam(n)
    BY <1>4 DEF SetCmdAuths, SetCmdAuthsFails, ReplaceDecryptParam, InsertDecryptParam,
                SetEncryptParam, AuthsAllowed, DecryptAllowed, Whole
  <2>3. ~SetNoAuths /\ ~Complete /\ ~Initialize
    BY <1>3, <1>4 DEF SetNoAuths, Complete, Initialize, AuthsAllowed, Whole
  <2>. QED  BY <1>2, <2>1, <2>2, <2>3 DEF Next
<1>6. UNCHANGED <<asked, reply>>
  BY <1>5 DEF PrepareRefused
<1>. QED  BY <1>3, <1>6 DEF AnsweredAsked, RepliesToAsked, CommandTag

(* ... and none what was received while the context is as it was. *)
LEMMA ReceivedKept ==
  ASSUME IInv, ReplyReceived, Next, ~ExecuteFinish, \A n \in Sizes : ~SetEncryptParam(n)
  PROVE  ReplyReceived'
<1> SUFFICES ASSUME previousStage' = "RECEIVE_RESPONSE", spoilt' = {}
             PROVE  ReplyReceived'
  BY DEF ReplyReceived
<1>1. Complete
  <2>1. \A c, n : ~Prepare(c, n) /\ ~PrepareFails(c, n)
    BY DEF Prepare, PrepareFails
  <2>2. \A n : /\ ~SetCmdAuths(n) /\ ~SetCmdAuthsFails(n) /\ ~ReplaceDecryptParam(n)
               /\ ~InsertDecryptParam(n)
    BY DEF SetCmdAuths, SetCmdAuthsFails, ReplaceDecryptParam, InsertDecryptParam,
           AuthsAllowed, DecryptAllowed, Whole
  <2>3. ~SetNoAuths /\ ~Initialize /\ ~ExecuteAsync /\ ~PrepareRefused
    BY DEF SetNoAuths, Initialize, ExecuteAsync, PrepareRefused, AuthsAllowed, Whole
  <2>4. ~TpmExecutes /\ ~TpmRefuses /\ ~TpmStammers
    <3> SUFFICES ASSUME TpmExecutes \/ TpmRefuses \/ TpmStammers
                 PROVE  FALSE
      OBVIOUS
    <3>1. wire.phase = "sent" /\ UNCHANGED context
      BY DEF TpmExecutes, TpmRefuses, TpmStammers, Answers
    <3>2. previousStage = "SEND_COMMAND" /\ UNCHANGED previousStage
      BY <3>1 DEF IInv, StageAgrees, context
    <3>. QED  BY <3>2
  <2>. QED  BY <2>1, <2>2, <2>3, <2>4 DEF Next
<1>2. UNCHANGED <<previousStage, cmdBuffer, rsp_header, asked, reply, spoilt>>
  BY <1>1 DEF Complete, history
<1>. QED  BY <1>2 DEF ReplyReceived, RepliesToAsked, ReplyLaid, Placed, CommandTag

LEMMA ReadInitially == Init => ReadInv
<1> SUFFICES ASSUME Init
             PROVE  ReadInv
  OBVIOUS
<1>1. previousStage = "INITIALIZE" /\ wire.phase = "idle"
  BY DEF Init, Quiet
<1>. QED  BY <1>1, InitInvariant DEF ReadInv, FieldsAgree, AnsweredAsked, ReplyReceived

LEMMA ReadStep == ~NewStructures /\ ReadInv /\ [Next]_vars => ReadInv'
<1> SUFFICES ASSUME ~NewStructures, ReadInv, [Next]_vars
             PROVE  ReadInv'
  OBVIOUS
<1>1. IInv /\ FieldsAgree /\ AnsweredAsked /\ ReplyReceived
  BY DEF ReadInv
<1>2. IInv'
  BY <1>1, StepInvariant
<1>3. CASE Next
  <2>1. FieldsAgree'
    BY <1>1, <1>3, FieldsStep
  <2>2. AnsweredAsked'
    BY <1>1, <1>3, AnsweredStep, AnsweredKept
  <2>3. ReplyReceived'
    BY <1>1, <1>3, ReceivedStep, EncryptParamRead, ReceivedKept
  <2>. QED  BY <1>2, <2>1, <2>2, <2>3 DEF ReadInv
<1>4. CASE UNCHANGED vars
  <2>1. UNCHANGED <<previousStage, cmdBuffer, numResponseHandles, authsCount, allowed, rsp_header,
                    wire, asked, reply, spoilt>>
    BY <1>4 DEF vars, context, layout, flags, history
  <2>2. FieldsAgree' /\ AnsweredAsked'
    BY <1>1, <2>1 DEF FieldsAgree, AnsweredAsked, RepliesToAsked, CommandTag
  <2>3. ReplyReceived'
    BY <1>1, <2>1 DEF ReplyReceived, RepliesToAsked, ReplyLaid, Placed, CommandTag
  <2>. QED  BY <1>2, <2>2, <2>3 DEF ReadInv
<1>. QED  BY <1>3, <1>4

(* What Complete, Tss2_Sys_GetRpBuffer and Tss2_Sys_GetRspAuths return is what
   the TPM answered, when it answers with structures the library knows. *)
THEOREM ResponsesAreRead ==
  ASSUME ~NewStructures
  PROVE  Spec => []ResponseRead
<1>1. ReadInv => ResponseRead
  <2> SUFFICES ASSUME ReadInv, previousStage = "RECEIVE_RESPONSE",
                      rsp_header.responseCode = Success, spoilt = {}
               PROVE  /\ RpBuffer = reply.params
                      /\ nextData = HeaderSize =>
                           Completed(Ample).ok /\ Completed(Ample).read = Handles(reply.handles) \o reply.params
                      /\ reply.auths > 0 => RspAuthsAllowed /\ RspAuths = Auths(reply.auths)
    BY DEF ResponseRead
  <2>. QED  BY ReplyRead DEF ReadInv
<1>2. ReadInv /\ [Next]_vars => ReadInv'
  BY ReadStep
<1>. QED  BY <1>1, <1>2, ReadInitially, PTL DEF Spec
=============================================================================
