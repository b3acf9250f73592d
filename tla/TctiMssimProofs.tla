-------------------------- MODULE TctiMssimProofs --------------------------
(***************************************************************************)
(* Proofs about TctiMssim, for any number of commands, cancellations, size *)
(* queries and lost connections: its types, that both streams are read at  *)
(* the boundaries of messages, that cancelling is undone, that a cancelled *)
(* command shifts the responses of those after it by one, and that the     *)
(* context is a TCTI as module Tcti describes it.                          *)
(***************************************************************************)
EXTENDS TctiMssim, SequenceTheorems, FiniteSetTheorems, TLAPS

ToMessage   == [kind : {"setup", "command"}, cmd : Command]
FromMessage == [kind : {"size", "response", "zeros"}, cmd : Command]

(* What follows a message in the stream of the responses, and in that of the
   commands. *)
After(kind) == CASE kind = "size"     -> "response"
                 [] kind = "response" -> "zeros"
                 [] kind = "zeros"    -> "size"
Other(kind) == IF kind = "setup" THEN "command" ELSE "setup"

(* The responses begin where the context will read, and end with a whole one
   unless the connection was lost. *)
ResponsesWhole ==
  /\ fromSim # <<>> => fromSim[1].kind = IF sized THEN "response" ELSE "size"
  /\ \A i \in 1 .. Len(fromSim) - 1 : fromSim[i + 1].kind = After(fromSim[i].kind)
  /\ tpm_sock = "open" =>
       IF fromSim = <<>> THEN ~sized ELSE fromSim[Len(fromSim)].kind = "zeros"

(* The commands begin where the simulator will read, and end with a whole one. *)
CommandsWhole ==
  /\ toSim # <<>> =>
       /\ toSim[1].kind = IF sim.stage = "command" THEN "command" ELSE "setup"
       /\ toSim[Len(toSim)].kind = "command"
  /\ \A i \in 1 .. Len(toSim) - 1 : toSim[i + 1].kind = Other(toSim[i].kind)
  /\ sim.stage = "command" => toSim # <<>>

(* Nothing is left of a connection that has ended. *)
NothingLeft ==
  /\ tpm_sock # "open" => toSim = <<>> /\ sim = Idle
  /\ tpm_sock = "closed" => fromSim = <<>>

StreamInv == TypeOK /\ ResponsesWhole /\ CommandsWhole /\ NothingLeft
-----------------------------------------------------------------------------
(* Types.                                                                   *)

(* The commands a behaviour begins with and sends are commands. *)
LEMMA CommandTypes ==
  /\ NoCommand \in Command
  /\ Idle \in [stage : {"setup", "command", "execute"}, cmd : Command]
  /\ Idle.stage = "setup"
  /\ TypeOK => NewCommand \in Command
BY MssimAssumption DEF NoCommand, Command, Idle, TypeOK, NewCommand

(* What is left of a sequence when its beginning has been read, element by
   element. *)
LEMMA RestOfSeq ==
  ASSUME NEW S, NEW s \in Seq(S), NEW n \in 0..Len(s)
  PROVE  /\ SubSeq(s, n + 1, Len(s)) \in Seq(S)
         /\ Len(SubSeq(s, n + 1, Len(s))) = Len(s) - n
         /\ \A i \in 1 .. Len(s) - n : SubSeq(s, n + 1, Len(s))[i] = s[n + i]
BY SubSeqProperties

(* And of a sequence of which only the beginning is kept. *)
LEMMA BeginningOfSeq ==
  ASSUME NEW S, NEW s \in Seq(S), NEW n \in 0..Len(s)
  PROVE  /\ SubSeq(s, 1, n) \in Seq(S)
         /\ Len(SubSeq(s, 1, n)) = n
         /\ \A i \in 1..n : SubSeq(s, 1, n)[i] = s[i]
BY SubSeqProperties

(* A sequence without its first element. *)
LEMMA TailOfSeq ==
  ASSUME NEW S, NEW s \in Seq(S), s # <<>>
  PROVE  /\ Tail(s) \in Seq(S) /\ Len(Tail(s)) = Len(s) - 1
         /\ \A i \in 1 .. Len(s) - 1 : Tail(s)[i] = s[i + 1]
         /\ Head(s) = s[1]
BY HeadTailProperties

(* Lengths are numbers; only the empty sequence has none. *)
LEMMA LengthOfSeq ==
  ASSUME NEW S, NEW s \in Seq(S)
  PROVE  /\ Len(s) \in Nat /\ (s = <<>> <=> Len(s) = 0)
         /\ \A i \in 1..Len(s) : s[i] \in S
BY EmptySeq, LenProperties

(* A function on 1..n is a sequence. *)
LEMMA FunctionOfMessages ==
  ASSUME NEW S, NEW n \in Nat, NEW f \in [1..n -> S]
  PROVE  f \in Seq(S) /\ Len(f) = n
OBVIOUS

(* A sequence to which another has been written. *)
Continued(whole, s, t) ==
  /\ Len(whole) = Len(s) + Len(t)
  /\ \A i \in 1..Len(s) : whole[i] = s[i]
  /\ \A k \in 1..Len(t) : whole[Len(s) + k] = t[k]

(* The concatenation of two sequences is such a one. *)
LEMMA SeqContinued ==
  ASSUME NEW S, NEW s \in Seq(S), NEW t \in Seq(S)
  PROVE  s \o t \in Seq(S) /\ Continued(s \o t, s, t)
<1>1. /\ s \o t \in Seq(S) /\ Len(s \o t) = Len(s) + Len(t)
      /\ \A i \in 1 .. Len(s) + Len(t) :
           (s \o t)[i] = IF i <= Len(s) THEN s[i] ELSE t[i - Len(s)]
  BY ConcatProperties
<1>2. Len(s) \in Nat /\ Len(t) \in Nat
  BY LenProperties
<1> DEFINE whole == s \o t
<1> HIDE DEF whole
<1>3. ASSUME NEW k \in 1..Len(t)
      PROVE  whole[Len(s) + k] = t[k]
  <2>1. /\ Len(s) + k \in 1 .. Len(s) + Len(t) /\ ~(Len(s) + k <= Len(s))
        /\ (Len(s) + k) - Len(s) = k
    BY <1>2
  <2>. QED  BY <1>1, <2>1 DEF whole
<1>. QED  BY <1>1, <1>2, <1>3 DEF whole, Continued

(* The messages of a request and of a response. *)
LEMMA RequestFacts ==
  ASSUME NEW cmd \in Command
  PROVE  /\ Request(cmd) \in Seq(ToMessage) /\ Len(Request(cmd)) = 2
         /\ Request(cmd)[1].kind = "setup" /\ Request(cmd)[2].kind = "command"
<1>1. Message("setup", cmd) \in ToMessage /\ Message("command", cmd) \in ToMessage
  BY DEF Message, ToMessage
<1>. QED  BY <1>1 DEF Request, Message

ResponseOf(cmd) == [i \in 1..3 |-> Message(<<"size", "response", "zeros">>[i], cmd)]
(* What the simulator writes for a command. *)
LEMMA ResponseFacts ==
  ASSUME NEW cmd \in Command
  PROVE  /\ ResponseOf(cmd) \in Seq(FromMessage) /\ Len(ResponseOf(cmd)) = 3
         /\ ResponseOf(cmd)[1].kind = "size" /\ ResponseOf(cmd)[2].kind = "response"
         /\ ResponseOf(cmd)[3].kind = "zeros"
<1>1. \A i \in 1..3 : <<"size", "response", "zeros">>[i] \in {"size", "response", "zeros"}
  OBVIOUS
<1>2. ResponseOf(cmd) \in [1..3 -> FromMessage]
  BY <1>1 DEF ResponseOf, Message, FromMessage
<1>3. /\ ResponseOf(cmd)[1].kind = "size" /\ ResponseOf(cmd)[2].kind = "response"
      /\ ResponseOf(cmd)[3].kind = "zeros"
  BY DEF ResponseOf, Message
<1>4. ResponseOf(cmd) \in Seq(FromMessage) /\ Len(ResponseOf(cmd)) = 3
  BY <1>2, FunctionOfMessages
<1>. QED  BY <1>3, <1>4

(* Every step keeps the types. *)
LEMMA TypeStep ==
  ASSUME TypeOK, [Next]_vars
  PROVE  TypeOK'
<1>1. /\ toSim \in Seq(ToMessage) /\ fromSim \in Seq(FromMessage)
      /\ sim.cmd \in Command
  BY DEF TypeOK, ToMessage, FromMessage
<1>2. CASE Transmit
  <2>1. NewCommand \in Command
    BY CommandTypes
  <2>2. toSim' \in Seq(ToMessage)
    BY <1>1, <1>2, <2>1, RequestFacts, ConcatProperties DEF Transmit
  <2>. QED  BY <1>2, <2>1, <2>2 DEF Transmit, TypeOK, ToMessage
<1>3. CASE ReceiveSize
  <2>1. fromSim' \in Seq(FromMessage)
    BY <1>1, <1>3, TailOfSeq DEF ReceiveSize
  <2>. QED  BY <1>3, <2>1 DEF ReceiveSize, history, TypeOK, FromMessage
<1>4. CASE ReceiveResponse
  <2>1. Unread \in 2..3 /\ Unread <= Len(fromSim)
    BY <1>4 DEF ReceiveResponse, Unread
  <2>2. Unread \in 0..Len(fromSim) /\ Unread - 1 \in 1..Len(fromSim)
    BY <1>1, <2>1
  <2>3. fromSim' \in Seq(FromMessage)
    BY <1>1, <1>4, <2>2, RestOfSeq DEF ReceiveResponse
  <2>4. fromSim[Unread - 1] \in FromMessage
    BY <1>1, <2>2, ElementOfSeq
  <2>5. answered' \in Command
    BY <1>4, <2>4 DEF ReceiveResponse, FromMessage, TypeOK
  <2>6. platform_sock' \in {"open", "lost", "closed"} /\ cancelOn' \in BOOLEAN
    BY <1>4 DEF ReceiveResponse, CancelOff, CancelOffFails, TypeOK
  <2>. QED  BY <1>4, <2>3, <2>5, <2>6 DEF ReceiveResponse, TypeOK, FromMessage
<1>5. CASE ReceiveFails
  BY <1>5, EmptySeq DEF ReceiveFails, history, TypeOK
<1>6. CASE Cancel
  BY <1>6 DEF Cancel, TypeOK, Command
<1>7. CASE CancelFails
  BY <1>7 DEF CancelFails, context, history, TypeOK
<1>8. ASSUME NEW l \in Localities, SetLocality(l)
      PROVE  TypeOK'
  BY <1>8 DEF SetLocality, history, TypeOK
<1>9. CASE Finalize
  BY <1>9, CommandTypes, EmptySeq DEF Finalize, context, history, TypeOK
<1>10. CASE Initialize
  BY <1>10, MssimAssumption DEF Initialize, TypeOK
<1>11. CASE SimReads
  <2> DEFINE m == Head(toSim)
  <2>1. m \in ToMessage /\ toSim' \in Seq(ToMessage)
    BY <1>1, <1>11, TailOfSeq, ElementOfSeq DEF SimReads
  <2>2. m.cmd \in Command /\ sim.cmd \in Command
    BY <1>1, <2>1 DEF ToMessage
  <2>3. [m.cmd EXCEPT !.locality = sim.cmd.locality] \in Command
    <3> HIDE DEF m
    <3>. QED  BY <2>2 DEF Command
  <2>4. sim' \in [stage : {"setup", "command", "execute"}, cmd : Command]
    BY <1>11, <2>2, <2>3 DEF SimReads
  <2>. QED  BY <1>11, <2>1, <2>4 DEF SimReads, context, history, TypeOK, ToMessage
<1>12. CASE SimAnswers
  <2>1. fromSim' = fromSim \o ResponseOf(sim.cmd)
    BY <1>12 DEF SimAnswers, ResponseOf
  <2>2. fromSim' \in Seq(FromMessage)
    BY <1>1, <2>1, ResponseFacts, ConcatProperties
  <2>. QED  BY <1>12, <2>2, CommandTypes DEF SimAnswers, context, history, TypeOK, FromMessage
<1>13. CASE ConnectionLost
  <2>1. fromSim' \in Seq(FromMessage)
    BY <1>1, <1>13, BeginningOfSeq DEF ConnectionLost
  <2>. QED  BY <1>13, <2>1, CommandTypes, EmptySeq
            DEF ConnectionLost, context, history, TypeOK, FromMessage
<1>14. CASE UNCHANGED vars
  BY <1>14 DEF vars, context, history, TypeOK
<1>. QED  BY <1>2, <1>3, <1>4, <1>5, <1>6, <1>7, <1>8, <1>9, <1>10, <1>11, <1>12, <1>13, <1>14
          DEF Next, Receive, Simulator

(* TypeOK holds in every reachable state. *)
THEOREM TypeCorrect == Spec => []TypeOK
<1>1. Init => TypeOK
  BY CommandTypes, EmptySeq, MssimAssumption DEF Init, TypeOK
<1>2. TypeOK /\ [Next]_vars => TypeOK'
  BY TypeStep
<1>. QED  BY <1>1, <1>2, PTL DEF Spec
-----------------------------------------------------------------------------
(* Whole messages.                                                          *)

(* Every step of context, simulator and connections leaves whole messages in
   both streams, beginning where the next one is read. *)
LEMMA ResponsesStep ==
  ASSUME StreamInv, [Next]_vars
  PROVE  ResponsesWhole'
<1>0. /\ fromSim \in Seq(FromMessage) /\ sim.cmd \in Command /\ sized \in BOOLEAN
      /\ Len(fromSim) \in Nat /\ (fromSim = <<>> <=> Len(fromSim) = 0)
  BY EmptySeq DEF StreamInv, TypeOK, FromMessage
<1>1. CASE UNCHANGED <<sized, fromSim, tpm_sock>>
  BY <1>1 DEF StreamInv, ResponsesWhole
<1>2. CASE ReceiveSize
  <2>1. /\ fromSim' = Tail(fromSim) /\ sized' /\ ~sized /\ fromSim # <<>> /\ tpm_sock' = tpm_sock
    BY <1>2 DEF ReceiveSize
  <2>2. /\ fromSim' \in Seq(FromMessage) /\ Len(fromSim') = Len(fromSim) - 1
        /\ \A i \in 1 .. Len(fromSim) - 1 : fromSim'[i] = fromSim[i + 1]
    BY <1>0, <2>1, TailOfSeq
  <2>3. fromSim[1].kind = "size"
    BY <2>1 DEF StreamInv, ResponsesWhole
  <2>4. ASSUME NEW i \in 1 .. Len(fromSim') - 1
        PROVE  fromSim'[i + 1].kind = After(fromSim'[i].kind)
    <3>1. /\ i \in 1 .. Len(fromSim) - 1 /\ i + 1 \in 1 .. Len(fromSim) - 1
      BY <1>0, <2>2
    <3>. QED  BY <2>2, <3>1 DEF StreamInv, ResponsesWhole
  <2>5. fromSim' # <<>> => fromSim'[1].kind = "response"
    <3>1. fromSim' # <<>> => 1 \in 1 .. Len(fromSim) - 1
      BY <1>0, <2>2, EmptySeq
    <3>2. 1 \in 1 .. Len(fromSim) - 1 => fromSim[1 + 1].kind = After(fromSim[1].kind)
      BY DEF StreamInv, ResponsesWhole
    <3>. QED  BY <2>2, <2>3, <3>1, <3>2 DEF After
  <2>6. tpm_sock = "open" => fromSim' # <<>> /\ fromSim'[Len(fromSim')].kind = "zeros"
    <3>1. tpm_sock = "open" => fromSim[Len(fromSim)].kind = "zeros"
      BY <2>1 DEF StreamInv, ResponsesWhole
    <3>2. tpm_sock = "open" => Len(fromSim) > 1
      BY <1>0, <2>1, <2>3, <3>1
    <3>3. Len(fromSim) > 1 => /\ Len(fromSim') \in 1 .. Len(fromSim) - 1
                              /\ Len(fromSim') + 1 = Len(fromSim) /\ Len(fromSim') # 0
      BY <1>0, <2>2
    <3>. QED  BY <2>2, <3>1, <3>2, <3>3, EmptySeq
  <2>. QED  BY <2>1, <2>4, <2>5, <2>6 DEF ResponsesWhole
<1>3. CASE ReceiveResponse
  <2> DEFINE n == Unread
  <2>1. /\ fromSim' = SubSeq(fromSim, n + 1, Len(fromSim)) /\ ~sized' /\ tpm_sock' = tpm_sock
        /\ n = (IF sized THEN 2 ELSE 3) /\ n <= Len(fromSim)
    BY <1>3 DEF ReceiveResponse, Unread
  <2> HIDE DEF n
  <2>2. n \in 0..Len(fromSim) /\ n \in 2..3
    BY <1>0, <2>1
  <2>3. /\ fromSim' \in Seq(FromMessage) /\ Len(fromSim') = Len(fromSim) - n
        /\ \A i \in 1 .. Len(fromSim) - n : fromSim'[i] = fromSim[n + i]
    <3> DEFINE rest == SubSeq(fromSim, n + 1, Len(fromSim))
    <3>1. /\ rest \in Seq(FromMessage) /\ Len(rest) = Len(fromSim) - n
          /\ \A i \in 1 .. Len(fromSim) - n : rest[i] = fromSim[n + i]
      BY <1>0, <2>2, RestOfSeq
    <3>2. fromSim' = rest
      BY <2>1
    <3> HIDE DEF rest
    <3>. QED  BY <3>1, <3>2
  <2>4. fromSim[n].kind = "zeros"
    <3>1. fromSim[1].kind = IF sized THEN "response" ELSE "size"
      BY <1>0, <2>2 DEF StreamInv, ResponsesWhole
    <3>2. /\ 1 \in 1 .. Len(fromSim) - 1
          /\ fromSim[1 + 1].kind = After(fromSim[1].kind)
      BY <1>0, <2>2 DEF StreamInv, ResponsesWhole
    <3>3. ~sized => fromSim[2 + 1].kind = After(fromSim[2].kind)
      BY <1>0, <2>1 DEF StreamInv, ResponsesWhole
    <3>. QED  BY <2>1, <3>1, <3>2, <3>3 DEF After
  <2>5. ASSUME NEW i \in 1 .. Len(fromSim') - 1
        PROVE  fromSim'[i + 1].kind = After(fromSim'[i].kind)
    <3>1. /\ i \in 1 .. Len(fromSim) - n /\ i + 1 \in 1 .. Len(fromSim) - n
          /\ n + i \in 1 .. Len(fromSim) - 1 /\ n + (i + 1) = (n + i) + 1
      BY <1>0, <2>2, <2>3
    <3>2. fromSim[(n + i) + 1].kind = After(fromSim[n + i].kind)
      BY <3>1 DEF StreamInv, ResponsesWhole
    <3>. QED  BY <2>3, <3>1, <3>2
  <2>6. fromSim' # <<>> => fromSim'[1].kind = "size"
    <3>1. fromSim' # <<>> => 1 \in 1 .. Len(fromSim) - n /\ n \in 1 .. Len(fromSim) - 1
      BY <1>0, <2>2, <2>3, EmptySeq
    <3>2. n \in 1 .. Len(fromSim) - 1 => fromSim[n + 1].kind = After(fromSim[n].kind)
      BY DEF StreamInv, ResponsesWhole
    <3>. QED  BY <2>3, <2>4, <3>1, <3>2 DEF After
  <2>7. tpm_sock = "open" /\ fromSim' # <<>> => fromSim'[Len(fromSim')].kind = "zeros"
    <3>1. tpm_sock = "open" => fromSim[Len(fromSim)].kind = "zeros"
      BY <1>0, <2>2 DEF StreamInv, ResponsesWhole
    <3>2. fromSim' # <<>> => /\ Len(fromSim') \in 1 .. Len(fromSim) - n
                             /\ n + Len(fromSim') = Len(fromSim)
      BY <1>0, <2>2, <2>3, EmptySeq
    <3>. QED  BY <2>3, <3>1, <3>2
  <2>. QED  BY <2>1, <2>5, <2>6, <2>7 DEF ResponsesWhole
<1>4. CASE ReceiveFails \/ Finalize \/ Initialize
  <2>1. fromSim' = <<>> /\ (tpm_sock' = "open" => ~sized')
    BY <1>4 DEF ReceiveFails, Finalize, Initialize, Alive, StreamInv, NothingLeft
  <2>. QED  BY <2>1, EmptySeq DEF ResponsesWhole
<1>5. CASE SimAnswers
  <2> DEFINE new == ResponseOf(sim.cmd)
  <2>1. fromSim' = fromSim \o new /\ sized' = sized /\ tpm_sock' = tpm_sock
    BY <1>5 DEF SimAnswers, ResponseOf, context
  <2>2. /\ new \in Seq(FromMessage) /\ Len(new) = 3
        /\ new[1].kind = "size" /\ new[2].kind = "response" /\ new[3].kind = "zeros"
    BY <1>0, ResponseFacts
  <2>3. tpm_sock = "open"
    BY <1>5 DEF SimAnswers, StreamInv, NothingLeft, Idle
  <2> HIDE DEF new
  <2>4. /\ fromSim' \in Seq(FromMessage) /\ Len(fromSim') = Len(fromSim) + 3
        /\ \A i \in 1..Len(fromSim) : fromSim'[i] = fromSim[i]
        /\ \A k \in 1..3 : fromSim'[Len(fromSim) + k] = new[k]
    <3>1. fromSim' \in Seq(FromMessage) /\ Continued(fromSim', fromSim, new)
      BY <1>0, <2>1, <2>2, SeqContinued
    <3>. QED  BY <2>2, <3>1 DEF Continued
  <2>5. fromSim = <<>> => ~sized
    BY <2>3 DEF StreamInv, ResponsesWhole
  <2>6. fromSim # <<>> => fromSim[Len(fromSim)].kind = "zeros"
    BY <2>3 DEF StreamInv, ResponsesWhole
  <2>7. /\ fromSim'[Len(fromSim) + 1] = new[1] /\ fromSim'[Len(fromSim) + 2] = new[2]
        /\ fromSim'[Len(fromSim) + 3] = new[3]
    BY <2>4
  <2>8. ASSUME NEW i \in 1 .. Len(fromSim') - 1
        PROVE  fromSim'[i + 1].kind = After(fromSim'[i].kind)
    <3>1. CASE i < Len(fromSim)
      <4>1. /\ i \in 1 .. Len(fromSim) - 1 /\ i \in 1..Len(fromSim)
            /\ i + 1 \in 1..Len(fromSim)
        BY <1>0, <2>4, <3>1
      <4>. QED  BY <2>4, <4>1 DEF StreamInv, ResponsesWhole
    <3>2. CASE i = Len(fromSim)
      <4>1. fromSim # <<>> /\ i \in 1..Len(fromSim)
        BY <1>0, <2>4, <3>2
      <4>. QED  BY <2>2, <2>4, <2>6, <2>7, <3>2, <4>1 DEF After
    <3>3. CASE i > Len(fromSim)
      <4>1. i = Len(fromSim) + 1 \/ i = Len(fromSim) + 2
        BY <1>0, <2>4, <3>3
      <4>2. (Len(fromSim) + 1) + 1 = Len(fromSim) + 2 /\ (Len(fromSim) + 2) + 1 = Len(fromSim) + 3
        BY <1>0
      <4>. QED  BY <2>2, <2>7, <4>1, <4>2 DEF After
    <3>. QED  BY <1>0, <2>4, <3>1, <3>2, <3>3
  <2>9. fromSim'[1].kind = IF sized THEN "response" ELSE "size"
    <3>1. CASE fromSim = <<>>
      <4>1. Len(fromSim) + 1 = 1
        BY <1>0, <3>1
      <4>. QED  BY <2>2, <2>5, <2>7, <3>1, <4>1
    <3>2. CASE fromSim # <<>>
      <4>1. 1 \in 1..Len(fromSim)
        BY <1>0, <3>2
      <4>2. fromSim'[1] = fromSim[1]
        BY <2>4, <4>1
      <4>. QED  BY <3>2, <4>2 DEF StreamInv, ResponsesWhole
    <3>. QED  BY <3>1, <3>2
  <2>10. fromSim' # <<>> /\ fromSim'[Len(fromSim')].kind = "zeros"
    BY <1>0, <2>2, <2>4, <2>7, EmptySeq
  <2>. QED  BY <2>1, <2>8, <2>9, <2>10 DEF ResponsesWhole
<1>6. CASE ConnectionLost
  <2>1. PICK n \in 0..Len(fromSim) : fromSim' = SubSeq(fromSim, 1, n)
    BY <1>6 DEF ConnectionLost
  <2>2. tpm_sock' = "lost" /\ sized' = sized
    BY <1>6 DEF ConnectionLost, context
  <2>3. /\ fromSim' \in Seq(FromMessage) /\ Len(fromSim') = n
        /\ \A i \in 1..n : fromSim'[i] = fromSim[i]
    BY <1>0, <2>1, BeginningOfSeq
  <2>4. ASSUME NEW i \in 1 .. n - 1
        PROVE  fromSim'[i + 1].kind = After(fromSim'[i].kind)
    <3>1. i \in 1..n /\ i + 1 \in 1..n /\ i \in 1 .. Len(fromSim) - 1
      BY <1>0
    <3>. QED  BY <2>3, <3>1 DEF StreamInv, ResponsesWhole
  <2>5. fromSim' # <<>> => fromSim'[1].kind = IF sized THEN "response" ELSE "size"
    <3>1. fromSim' # <<>> => 1 \in 1..n /\ fromSim # <<>>
      BY <1>0, <2>3, EmptySeq
    <3>. QED  BY <2>3, <3>1 DEF StreamInv, ResponsesWhole
  <2>. QED  BY <2>2, <2>3, <2>4, <2>5 DEF ResponsesWhole
<1>7. \/ UNCHANGED <<sized, fromSim, tpm_sock>>
      \/ ReceiveSize \/ ReceiveResponse \/ ReceiveFails \/ Finalize \/ Initialize
      \/ SimAnswers \/ ConnectionLost
  BY DEF Next, Receive, Simulator, Transmit, Cancel, CancelFails, SetLocality, SimReads,
         vars, context, history
<1>. QED  BY <1>1, <1>2, <1>3, <1>4, <1>5, <1>6, <1>7

(* The same of the commands. *)
LEMMA CommandsStep ==
  ASSUME StreamInv, [Next]_vars
  PROVE  CommandsWhole'
<1>0. /\ toSim \in Seq(ToMessage) /\ Len(toSim) \in Nat /\ (toSim = <<>> <=> Len(toSim) = 0)
      /\ \A i \in 1..Len(toSim) : toSim[i].kind \in {"setup", "command"}
  <2>1. toSim \in Seq(ToMessage)
    BY DEF StreamInv, TypeOK, ToMessage
  <2>2. /\ Len(toSim) \in Nat /\ (toSim = <<>> <=> Len(toSim) = 0)
        /\ \A i \in 1..Len(toSim) : toSim[i] \in ToMessage
    BY <2>1, LengthOfSeq
  <2>. QED  BY <2>1, <2>2 DEF ToMessage
<1>1. CASE UNCHANGED <<toSim, sim>>
  BY <1>1 DEF StreamInv, CommandsWhole
<1>2. CASE toSim' = <<>> /\ sim' = Idle
  BY <1>2, EmptySeq DEF CommandsWhole, Idle
<1>3. CASE Transmit /\ tpm_sock = "open"
  <2> DEFINE new == Request(NewCommand)
  <2>1. toSim' = toSim \o new /\ sim' = sim
    BY <1>3 DEF Transmit
  <2>2. /\ new \in Seq(ToMessage) /\ Len(new) = 2
        /\ new[1].kind = "setup" /\ new[2].kind = "command"
    BY RequestFacts, CommandTypes DEF StreamInv
  <2> HIDE DEF new
  <2>3. /\ toSim' \in Seq(ToMessage) /\ Len(toSim') = Len(toSim) + 2
        /\ \A i \in 1..Len(toSim) : toSim'[i] = toSim[i]
        /\ \A k \in 1..2 : toSim'[Len(toSim) + k] = new[k]
    <3>1. toSim' \in Seq(ToMessage) /\ Continued(toSim', toSim, new)
      BY <1>0, <2>1, <2>2, SeqContinued
    <3>. QED  BY <2>2, <3>1 DEF Continued
  <2>4. toSim'[Len(toSim) + 1] = new[1] /\ toSim'[Len(toSim) + 2] = new[2]
    BY <2>3
  <2>5. ASSUME NEW i \in 1 .. Len(toSim') - 1
        PROVE  toSim'[i + 1].kind = Other(toSim'[i].kind)
    <3>1. CASE i < Len(toSim)
      <4>1. /\ i \in 1 .. Len(toSim) - 1 /\ i \in 1..Len(toSim)
            /\ i + 1 \in 1..Len(toSim)
        BY <1>0, <2>3, <3>1
      <4>. QED  BY <2>3, <4>1 DEF StreamInv, CommandsWhole
    <3>2. CASE i = Len(toSim)
      <4>1. toSim # <<>> /\ i \in 1..Len(toSim)
        BY <1>0, <2>3, <3>2
      <4>2. toSim[i].kind = "command"
        BY <3>2, <4>1 DEF StreamInv, CommandsWhole
      <4>. QED  BY <2>2, <2>3, <2>4, <3>2, <4>1, <4>2 DEF Other
    <3>3. CASE i > Len(toSim)
      <4>1. i = Len(toSim) + 1 /\ (Len(toSim) + 1) + 1 = Len(toSim) + 2
        BY <1>0, <2>3, <3>3
      <4>. QED  BY <2>2, <2>4, <4>1 DEF Other
    <3>. QED  BY <1>0, <2>3, <3>1, <3>2, <3>3
  <2>6. toSim'[1].kind = IF sim.stage = "command" THEN "command" ELSE "setup"
    <3>1. CASE toSim = <<>>
      <4>1. Len(toSim) + 1 = 1 /\ sim.stage # "command"
        BY <1>0, <3>1 DEF StreamInv, CommandsWhole
      <4>. QED  BY <2>2, <2>4, <4>1
    <3>2. CASE toSim # <<>>
      <4>1. 1 \in 1..Len(toSim)
        BY <1>0, <3>2
      <4>2. toSim'[1] = toSim[1]
        BY <2>3, <4>1
      <4>. QED  BY <3>2, <4>2 DEF StreamInv, CommandsWhole
    <3>. QED  BY <3>1, <3>2
  <2>7. toSim' # <<>> /\ toSim'[Len(toSim')].kind = "command"
    BY <1>0, <2>2, <2>3, <2>4, EmptySeq
  <2>. QED  BY <2>1, <2>5, <2>6, <2>7 DEF CommandsWhole
<1>4. CASE SimReads
  <2>1. /\ toSim # <<>> /\ toSim' = Tail(toSim) /\ toSim[1].kind = sim.stage
        /\ sim'.stage = IF toSim[1].kind = "setup" THEN "command" ELSE "execute"
    BY <1>0, <1>4, TailOfSeq DEF SimReads
  <2>2. /\ toSim' \in Seq(ToMessage) /\ Len(toSim') = Len(toSim) - 1
        /\ \A i \in 1 .. Len(toSim) - 1 : toSim'[i] = toSim[i + 1]
    BY <1>0, <2>1, TailOfSeq
  <2>3. ASSUME NEW i \in 1 .. Len(toSim') - 1
        PROVE  toSim'[i + 1].kind = Other(toSim'[i].kind)
    <3>1. i \in 1 .. Len(toSim) - 1 /\ i + 1 \in 1 .. Len(toSim) - 1
      BY <1>0, <2>2
    <3>. QED  BY <2>2, <3>1 DEF StreamInv, CommandsWhole
  <2>4. toSim' # <<>> => /\ 1 \in 1 .. Len(toSim) - 1
                         /\ Len(toSim') \in 1 .. Len(toSim) - 1
                         /\ Len(toSim') + 1 = Len(toSim)
    BY <1>0, <2>2, EmptySeq
  <2>5. toSim' # <<>> => toSim'[1].kind = Other(toSim[1].kind)
    <3>1. 1 \in 1 .. Len(toSim) - 1 => toSim[1 + 1].kind = Other(toSim[1].kind)
      BY DEF StreamInv, CommandsWhole
    <3>. QED  BY <2>2, <2>4, <3>1
  <2>6. toSim' # <<>> => toSim'[Len(toSim')].kind = "command"
    <3>1. toSim[Len(toSim)].kind = "command"
      BY <2>1 DEF StreamInv, CommandsWhole
    <3>. QED  BY <2>2, <2>4, <3>1
  <2>7. sim'.stage = "command" => toSim' # <<>>
    <3>1. sim'.stage = "command" => toSim[1].kind = "setup"
      BY <2>1
    <3>2. toSim[Len(toSim)].kind = "command"
      BY <2>1 DEF StreamInv, CommandsWhole
    <3>3. sim'.stage = "command" => Len(toSim) # 1
      BY <3>1, <3>2
    <3>4. toSim' = <<>> => Len(toSim') = 0
      BY <2>2, LengthOfSeq
    <3>5. Len(toSim) # 0
      BY <1>0, <2>1
    <3>. QED  BY <1>0, <2>2, <3>3, <3>4, <3>5
  <2>8. toSim[1].kind \in {"setup", "command"}
    BY <1>0, <2>1
  <2>. QED  BY <2>1, <2>3, <2>5, <2>6, <2>7, <2>8 DEF CommandsWhole, Other
<1>5. CASE SimAnswers
  <2>1. toSim' = toSim /\ sim.stage = "execute" /\ sim'.stage = "setup"
    BY <1>5, CommandTypes DEF SimAnswers
  <2>. QED  BY <2>1 DEF StreamInv, CommandsWhole
<1>6. \/ UNCHANGED <<toSim, sim>>
      \/ toSim' = <<>> /\ sim' = Idle
      \/ Transmit /\ tpm_sock = "open"
      \/ SimReads \/ SimAnswers
  BY DEF Next, Receive, Simulator, Transmit, ReceiveSize, ReceiveResponse, ReceiveFails,
         Cancel, CancelFails, SetLocality, Finalize, Initialize, ConnectionLost,
         vars, context, history
<1>. QED  BY <1>1, <1>2, <1>3, <1>4, <1>5, <1>6

(* Nothing is written to a connection that has ended. *)
LEMMA NothingLeftStep ==
  ASSUME StreamInv, [Next]_vars
  PROVE  NothingLeft'
<1>1. CASE UNCHANGED <<tpm_sock, toSim, sim, fromSim>>
  BY <1>1 DEF StreamInv, NothingLeft
<1>2. CASE Transmit \/ SimReads \/ SimAnswers
  BY <1>2 DEF Transmit, SimReads, SimAnswers, Alive, Idle, context, StreamInv, NothingLeft
<1>3. CASE ReceiveSize \/ ReceiveResponse \/ ReceiveFails
  BY <1>3 DEF ReceiveSize, ReceiveResponse, ReceiveFails, Alive, StreamInv, NothingLeft
<1>4. CASE Finalize \/ Initialize \/ ConnectionLost
  BY <1>4 DEF Finalize, Initialize, ConnectionLost, Alive, StreamInv, NothingLeft
<1>5. \/ UNCHANGED <<tpm_sock, toSim, sim, fromSim>>
      \/ Transmit \/ SimReads \/ SimAnswers
      \/ ReceiveSize \/ ReceiveResponse \/ ReceiveFails
      \/ Finalize \/ Initialize \/ ConnectionLost
  BY DEF Next, Receive, Simulator, Cancel, CancelFails, SetLocality, vars, context, history
<1>. QED  BY <1>1, <1>2, <1>3, <1>4, <1>5

(* New streams are empty. *)
LEMMA StreamsBegin == Init => StreamInv
<1> SUFFICES ASSUME Init
             PROVE  StreamInv
  OBVIOUS
<1>1. TypeOK
  BY CommandTypes, EmptySeq, MssimAssumption DEF Init, TypeOK
<1>2. ResponsesWhole /\ CommandsWhole
  BY EmptySeq, CommandTypes DEF Init, ResponsesWhole, CommandsWhole
<1>. QED  BY <1>1, <1>2 DEF Init, StreamInv, NothingLeft

(* What the streams hold is whole in every reachable state. *)
LEMMA StreamsInvariant == Spec => []StreamInv
<1>1. StreamInv /\ [Next]_vars => StreamInv'
  BY TypeStep, ResponsesStep, CommandsStep, NothingLeftStep DEF StreamInv
<1>. QED  BY <1>1, StreamsBegin, PTL DEF Spec

(* Both streams are read at the boundaries of messages, whatever was queried,
   cancelled, refused or lost: header.size is set exactly while the size of the
   next response has been read and the response has not. *)
THEOREM StreamsFramed == Spec => []Framed
<1>1. StreamInv => Framed
  <2> SUFFICES ASSUME StreamInv, tpm_sock = "open"
               PROVE  /\ sized = (fromSim # <<>> /\ Head(fromSim).kind = "response")
                      /\ toSim # <<>> => (Head(toSim).kind = "command") = (sim.stage = "command")
    BY DEF Framed
  <2>1. /\ toSim \in Seq(ToMessage) /\ fromSim \in Seq(FromMessage) /\ sized \in BOOLEAN
    BY DEF StreamInv, TypeOK, ToMessage, FromMessage
  <2>2. /\ fromSim # <<>> => Head(fromSim) = fromSim[1]
        /\ toSim # <<>> => Head(toSim) = toSim[1]
    BY <2>1, TailOfSeq
  <2>3. sized = (fromSim # <<>> /\ Head(fromSim).kind = "response")
    BY <2>1, <2>2 DEF StreamInv, ResponsesWhole
  <2>4. toSim # <<>> => (Head(toSim).kind = "command") = (sim.stage = "command")
    BY <2>2 DEF StreamInv, CommandsWhole
  <2>. QED  BY <2>3, <2>4
<1>. QED  BY <1>1, StreamsInvariant, PTL
-----------------------------------------------------------------------------
(* Cancellation.                                                            *)

(* No call leaves the simulator cancelling on behalf of a context that does not
   know it, while the platform connection works. *)
THEOREM CancellingUndone == Spec => CancelUndone
<1>1. ASSUME TypeOK, [Next]_vars, cancelOn', ~cancel', Alive
      PROVE  (cancelOn /\ ~cancel) \/ platform_sock' # "open"
  <2>1. CASE ReceiveResponse
    BY <1>1, <2>1 DEF ReceiveResponse, CancelOff, CancelOffFails, TypeOK
  <2>2. CASE Cancel \/ Initialize
    BY <1>1, <2>2 DEF Cancel, Initialize
  <2>3. CASE CancelFails \/ Finalize
    BY <2>3 DEF CancelFails, Finalize
  <2>4. CASE UNCHANGED <<cancelOn, cancel>>
    BY <1>1, <2>4
  <2>5. \/ UNCHANGED <<cancelOn, cancel>>
        \/ ReceiveResponse \/ Cancel \/ Initialize \/ CancelFails \/ Finalize
    BY <1>1 DEF Next, Receive, Simulator, Transmit, ReceiveSize, ReceiveFails, SetLocality,
                SimReads, SimAnswers, ConnectionLost, vars, context, history
  <2>. QED  BY <2>1, <2>2, <2>3, <2>4, <2>5
<1>2. TypeOK /\ [Next]_vars =>
        [cancelOn' /\ ~cancel' /\ Alive =>
           (cancelOn /\ ~cancel) \/ platform_sock' # "open"]_vars
  BY <1>1
<1>. QED  BY <1>2, TypeCorrect, PTL DEF Spec, CancelUndone
-----------------------------------------------------------------------------
(* The commands whose responses are still to be read.                       *)

(* The places of the messages of a kind, and how they are counted. *)
LEMMA PlacesFinite ==
  ASSUME NEW S, NEW s \in Seq(S), NEW kind
  PROVE  /\ IsFiniteSet(Places(s, kind)) /\ Cardinality(Places(s, kind)) \in Nat
         /\ Places(s, kind) \subseteq 1..Len(s) /\ Len(s) \in Nat
         /\ \A p : LET upTo == {q \in Places(s, kind) : q <= p}
                   IN  IsFiniteSet(upTo) /\ UpTo(s, kind, p) = Cardinality(upTo)
<1>1. Len(s) \in Nat
  BY LenProperties
<1>2. IsFiniteSet(1..Len(s)) /\ Places(s, kind) \subseteq 1..Len(s)
  BY <1>1, FS_Interval DEF Places
<1>3. IsFiniteSet(Places(s, kind))
  BY <1>2, FS_Subset
<1>4. Cardinality(Places(s, kind)) \in Nat
  BY <1>3, FS_CardinalityType
<1>5. ASSUME NEW p
      PROVE  LET upTo == {q \in Places(s, kind) : q <= p}
             IN  IsFiniteSet(upTo) /\ UpTo(s, kind, p) = Cardinality(upTo)
  <2> DEFINE upTo == {q \in Places(s, kind) : q <= p}
  <2>1. upTo \in SUBSET Places(s, kind)
    OBVIOUS
  <2>2. IsFiniteSet(upTo)
    BY <1>3, <2>1, FS_Subset
  <2>. QED  BY <2>2 DEF UpTo
<1>. QED  BY <1>1, <1>2, <1>3, <1>4, <1>5

(* The places of a kind are numbered, each with a number of its own. *)
LEMMA UpToNumbers ==
  ASSUME NEW S, NEW s \in Seq(S), NEW kind
  PROVE  /\ \A p \in Places(s, kind) : UpTo(s, kind, p) \in 1..Cardinality(Places(s, kind))
         /\ \A p, q \in Places(s, kind) : UpTo(s, kind, p) = UpTo(s, kind, q) => p = q
         /\ \A k \in 1..Cardinality(Places(s, kind)) :
              \E p \in Places(s, kind) : UpTo(s, kind, p) = k
<1> DEFINE places == Places(s, kind)
           total  == Cardinality(places)
           below(p) == {q \in places : q <= p}
<1>1. /\ IsFiniteSet(places) /\ total \in Nat /\ places \subseteq Nat
      /\ \A p : IsFiniteSet(below(p)) /\ UpTo(s, kind, p) = Cardinality(below(p))
  BY PlacesFinite
<1> HIDE DEF places
<1>2. ASSUME NEW p \in places
      PROVE  UpTo(s, kind, p) \in 1..total
  <2>1. below(p) \in SUBSET places /\ p \in below(p) /\ IsFiniteSet(below(p))
    <3>1. p \in Nat
      BY <1>1
    <3>2. p <= p
      BY <3>1
    <3>3. below(p) \in SUBSET places /\ p \in below(p)
      BY <3>2
    <3>4. IsFiniteSet(below(p))
      BY <1>1
    <3>. QED  BY <3>3, <3>4
  <2> DEFINE b == below(p)
  <2>2. UpTo(s, kind, p) = Cardinality(b)
    BY <1>1
  <2> HIDE DEF b, below
  <2>3. Cardinality(b) <= total
    BY <1>1, <2>1, FS_Subset DEF b
  <2>4. Cardinality(b) \in Nat /\ Cardinality(b) # 0
    <3>1. IsFiniteSet(b) /\ p \in b
      BY <2>1 DEF b
    <3>2. Cardinality(b) \in Nat
      BY <3>1, FS_CardinalityType
    <3>3. Cardinality(b) # 0
      BY <3>1, FS_EmptySet
    <3>. QED  BY <3>2, <3>3
  <2>. QED  BY <1>1, <2>2, <2>3, <2>4
<1>3. ASSUME NEW p \in places, NEW q \in places, UpTo(s, kind, p) = UpTo(s, kind, q), p < q
      PROVE  FALSE
  <2> DEFINE small == below(p)
             large == below(q)
  <2>0. p \in Nat /\ q \in Nat
    BY <1>1
  <2>1. small \in SUBSET large /\ q \in large /\ q \notin small
    <3>1. \A r \in places : r <= p => r <= q
      BY <1>1, <1>3, <2>0
    <3>2. q <= q /\ ~(q <= p)
      BY <1>3, <2>0
    <3>. QED  BY <3>1, <3>2
  <2>2. IsFiniteSet(large) /\ Cardinality(small) = Cardinality(large)
    BY <1>1, <1>3
  <2> HIDE DEF small, large
  <2>. QED  BY <2>1, <2>2, FS_Subset
<1>4. ASSUME NEW p \in places, NEW q \in places, UpTo(s, kind, p) = UpTo(s, kind, q)
      PROVE  p = q
  <2>1. p \in Nat /\ q \in Nat
    BY <1>1
  <2>. QED  BY <1>3, <1>4, <2>1
<1>5. ASSUME NEW k \in 1..total
      PROVE  \E p \in places : UpTo(s, kind, p) = k
  <2> DEFINE number == [p \in places |-> UpTo(s, kind, p)]
  <2>1. number \in [places -> 1..total]
    BY <1>2
  <2>2. \A p, q \in places : number[p] = number[q] => p = q
    BY <1>4
  <2>3. number \in Injection(places, 1..total)
    <3> HIDE DEF number
    <3>. QED  BY <2>1, <2>2 DEF Injection, IsInjective
  <2>4. IsFiniteSet(1..total) /\ Cardinality(1..total) = total
    BY <1>1, FS_Interval
  <2> HIDE DEF number, total
  <2>5. number \in Surjection(places, 1..total)
    BY <2>3, <2>4, FS_Injection DEF total
  <2>6. \E p \in places : number[p] = k
    BY <2>5 DEF Surjection
  <2>. QED  BY <2>6 DEF number
<1>. QED  BY <1>2, <1>4, <1>5 DEF places

(* What the commands of a kind are, one by one. *)
LEMMA CommandsOne ==
  ASSUME NEW S, NEW s \in Seq(S), \A m \in S : m.cmd \in Command, NEW kind
  PROVE  /\ CommandsIn(s, kind) \in Seq(Command)
         /\ Len(CommandsIn(s, kind)) = Cardinality(Places(s, kind))
         /\ \A p \in Places(s, kind) : CommandsIn(s, kind)[UpTo(s, kind, p)] = s[p].cmd
<1> DEFINE places == Places(s, kind)
           total  == Cardinality(places)
           at(k)  == CHOOSE p \in places : UpTo(s, kind, p) = k
<1>1. total \in Nat /\ places \subseteq 1..Len(s)
  BY PlacesFinite
<1>2. \A k \in 1..total : at(k) \in places /\ UpTo(s, kind, at(k)) = k
  <2>1. \A k \in 1..total : \E p \in places : UpTo(s, kind, p) = k
    BY UpToNumbers
  <2> HIDE DEF places, total
  <2>. QED  BY <2>1
<1>3. \A i \in 1..Len(s) : s[i].cmd \in Command
  BY ElementOfSeq
<1>4. CommandsIn(s, kind) = [k \in 1..total |-> s[at(k)].cmd]
  BY DEF CommandsIn
<1>5. \A p \in places : UpTo(s, kind, p) \in 1..total /\ at(UpTo(s, kind, p)) = p
  <2>1. \A p \in places : UpTo(s, kind, p) \in 1..total
    BY UpToNumbers
  <2>2. \A p, q \in places : UpTo(s, kind, p) = UpTo(s, kind, q) => p = q
    BY UpToNumbers
  <2> HIDE DEF at, places, total
  <2>. QED  BY <1>2, <2>1, <2>2
<1> HIDE DEF at, places, total
<1>6. CommandsIn(s, kind) \in [1..total -> Command]
  BY <1>1, <1>2, <1>3, <1>4
<1>7. CommandsIn(s, kind) \in Seq(Command) /\ Len(CommandsIn(s, kind)) = total
  BY <1>1, <1>6, FunctionOfMessages
<1>8. \A p \in places : CommandsIn(s, kind)[UpTo(s, kind, p)] = s[p].cmd
  BY <1>4, <1>5
<1>. QED  BY <1>7, <1>8 DEF places, total

(* As many numbers when each is moved by the same. *)
LEMMA MovedCounts ==
  ASSUME NEW T \in SUBSET Nat, IsFiniteSet(T), NEW n \in Nat
  PROVE  LET moved == {n + i : i \in T}
         IN  IsFiniteSet(moved) /\ Cardinality(moved) = Cardinality(T)
<1> DEFINE moved == {n + i : i \in T}
           move  == [i \in T |-> n + i]
<1>1. move \in [T -> moved]
  OBVIOUS
<1>2. \A i, j \in T : move[i] = move[j] => i = j
  OBVIOUS
<1>3. \A m \in moved : \E i \in T : move[i] = m
  OBVIOUS
<1> HIDE DEF moved, move
<1>4. move \in Bijection(T, moved)
  BY <1>1, <1>2, <1>3 DEF Bijection, Injection, Surjection, IsInjective
<1>5. ExistsBijection(T, moved)
  BY <1>4 DEF ExistsBijection
<1>6. IsFiniteSet(moved) /\ Cardinality(moved) = Cardinality(T)
  BY <1>5, FS_Bijection
<1>. QED  BY <1>6 DEF moved

(* The commands of one row of messages behind another are those of the one
   behind those of the other. *)
LEMMA CommandsContinued ==
  ASSUME NEW S, \A m \in S : m.cmd \in Command, NEW s \in Seq(S), NEW t \in Seq(S), NEW kind
  PROVE  CommandsIn(s \o t, kind) = CommandsIn(s, kind) \o CommandsIn(t, kind)
<1> DEFINE n == Len(s)
           w == s \o t
           A == Places(s, kind)
           B == Places(t, kind)
           C == Places(w, kind)
           a == Cardinality(A)
           b == Cardinality(B)
           moved == {n + i : i \in B}
<1>1. /\ w \in Seq(S) /\ Len(w) = n + Len(t) /\ n \in Nat /\ Len(t) \in Nat
      /\ \A i \in 1..n : w[i] = s[i]
      /\ \A k \in 1..Len(t) : w[n + k] = t[k]
  <2>1. w \in Seq(S) /\ Continued(w, s, t)
    BY SeqContinued
  <2>. QED  BY <2>1, LenProperties DEF Continued
<1>2. /\ IsFiniteSet(A) /\ a \in Nat /\ A \subseteq 1..n
      /\ IsFiniteSet(B) /\ b \in Nat /\ B \subseteq 1..Len(t)
      /\ IsFiniteSet(C)
  BY <1>1, PlacesFinite
<1>3. /\ \A i \in 1..n : i \in A <=> s[i].kind = kind
      /\ \A i \in 1..Len(t) : i \in B <=> t[i].kind = kind
      /\ \A i \in 1..Len(w) : i \in C <=> w[i].kind = kind
      /\ C \subseteq 1..Len(w)
  BY DEF Places
<1> HIDE DEF n, w, A, B, C, a, b
<1>4. C = A \union moved
  <2>1. ASSUME NEW i \in 1..n
        PROVE  i \in C <=> i \in A
    <3>1. i \in 1..Len(w)
      BY <1>1
    <3>. QED  BY <1>1, <1>3, <3>1
  <2>2. ASSUME NEW i \in 1..Len(t)
        PROVE  n + i \in C <=> i \in B
    <3>1. n + i \in 1..Len(w)
      BY <1>1
    <3>. QED  BY <1>1, <1>3, <3>1
  <2>3. ASSUME NEW i \in C
        PROVE  i \in A \union moved
    <3>1. i \in 1..Len(w)
      BY <1>3
    <3>2. CASE i <= n
      <4>1. i \in 1..n
        BY <1>1, <3>1, <3>2
      <4>. QED  BY <2>1, <4>1
    <3>3. CASE ~(i <= n)
      <4>1. i - n \in 1..Len(t) /\ n + (i - n) = i
        BY <1>1, <3>1, <3>3
      <4>2. i - n \in B
        BY <2>2, <4>1
      <4>. QED  BY <4>1, <4>2
    <3>. QED  BY <3>2, <3>3
  <2>4. A \subseteq C
    BY <1>2, <2>1
  <2>5. moved \subseteq C
    BY <1>2, <2>2
  <2>. QED  BY <2>3, <2>4, <2>5
<1>5. IsFiniteSet(moved) /\ Cardinality(moved) = b
  <2>1. B \in SUBSET Nat
    BY <1>1, <1>2
  <2>. QED  BY <1>1, <1>2, <2>1, MovedCounts DEF b
<1>6. A \intersect moved = {}
  <2>1. \A i \in B : n + i \notin A
    BY <1>1, <1>2
  <2>. QED  BY <2>1
<1> HIDE DEF moved
<1>7. Cardinality(C) = a + b
  <2>1. Cardinality(A \cap moved) = 0
    BY <1>6, FS_EmptySet
  <2>2. Cardinality(A \cup moved) = Cardinality(A) + Cardinality(moved) - Cardinality(A \cap moved)
    BY <1>2, <1>5, FS_Union
  <2>. QED  BY <1>2, <1>4, <1>5, <2>1, <2>2 DEF a
<1>8. ASSUME NEW p \in A
      PROVE  p \in C /\ UpTo(w, kind, p) = UpTo(s, kind, p) /\ w[p] = s[p]
  <2>1. p \in 1..n
    BY <1>2
  <2>2. \A q \in moved : ~(q <= p)
    BY <1>1, <1>2, <2>1 DEF moved
  <2>3. {q \in C : q <= p} = {q \in A : q <= p}
    BY <1>4, <2>2
  <2>. QED  BY <1>1, <1>4, <2>1, <2>3 DEF UpTo, A, C
<1>9. ASSUME NEW p \in B
      PROVE  n + p \in C /\ UpTo(w, kind, n + p) = a + UpTo(t, kind, p) /\ w[n + p] = t[p]
  <2>1. p \in 1..Len(t)
    BY <1>2
  <2> DEFINE some == {q \in B : q <= p}
             high == {n + i : i \in some}
  <2>2. /\ IsFiniteSet(some) /\ UpTo(t, kind, p) = Cardinality(some)
    BY PlacesFinite DEF B
  <2>3. IsFiniteSet(high) /\ Cardinality(high) = Cardinality(some)
    <3>1. some \in SUBSET Nat
      <4>1. B \in SUBSET Nat
        BY <1>1, <1>2
      <4>. QED  BY <4>1
    <3> HIDE DEF some
    <3>. QED  BY <1>1, <2>2, <3>1, MovedCounts
  <2>4. {q \in C : q <= n + p} = A \union high
    <3>1. \A q \in A : q <= n + p
      BY <1>1, <1>2, <2>1
    <3>2. \A i \in B : n + i <= n + p <=> i <= p
      BY <1>1, <1>2, <2>1
    <3>3. \A q \in moved : q <= n + p <=> q \in high
      <4>1. ASSUME NEW i \in B
            PROVE  n + i <= n + p <=> n + i \in high
        <5>1. ASSUME NEW j \in B, n + i = n + j
              PROVE  i = j
          BY <1>1, <1>2, <5>1
        <5>2. n + i \in high <=> i <= p
          BY <5>1
        <5>. QED  BY <3>2, <5>2
      <4>. QED  BY <4>1 DEF moved
    <3>4. high \subseteq moved
      BY DEF moved
    <3> HIDE DEF high, some
    <3>. QED  BY <1>4, <3>1, <3>3, <3>4
  <2>5. A \cap high = {}
    BY <1>6 DEF moved
  <2> HIDE DEF some, high
  <2>6. Cardinality(A \cup high) = a + Cardinality(some)
    <3>1. Cardinality(A \cap high) = 0
      BY <2>5, FS_EmptySet
    <3>2. Cardinality(A \cup high) = Cardinality(A) + Cardinality(high) - Cardinality(A \cap high)
      BY <1>2, <2>3, FS_Union
    <3>3. Cardinality(high) \in Nat
      BY <2>3, FS_CardinalityType
    <3>. QED  BY <1>2, <2>3, <3>1, <3>2, <3>3 DEF a
  <2>7. UpTo(w, kind, n + p) = a + UpTo(t, kind, p)
    BY <2>2, <2>4, <2>6 DEF UpTo, C
  <2>8. n + p \in C
    BY <1>4 DEF moved
  <2>. QED  BY <1>1, <2>1, <2>7, <2>8
<1> DEFINE cs == CommandsIn(s, kind)
           ct == CommandsIn(t, kind)
           cw == CommandsIn(w, kind)
<1>10. /\ cs \in Seq(Command) /\ Len(cs) = a /\ \A p \in A : cs[UpTo(s, kind, p)] = s[p].cmd
       /\ ct \in Seq(Command) /\ Len(ct) = b /\ \A p \in B : ct[UpTo(t, kind, p)] = t[p].cmd
       /\ cw \in Seq(Command) /\ Len(cw) = a + b /\ \A p \in C : cw[UpTo(w, kind, p)] = w[p].cmd
  <2>1. /\ cs \in Seq(Command) /\ Len(cs) = a /\ \A p \in A : cs[UpTo(s, kind, p)] = s[p].cmd
    BY CommandsOne DEF a, A
  <2>2. /\ ct \in Seq(Command) /\ Len(ct) = b /\ \A p \in B : ct[UpTo(t, kind, p)] = t[p].cmd
    BY CommandsOne DEF b, B
  <2>3. /\ cw \in Seq(Command) /\ Len(cw) = Cardinality(C)
        /\ \A p \in C : cw[UpTo(w, kind, p)] = w[p].cmd
    BY <1>1, CommandsOne DEF C
  <2>. QED  BY <1>7, <2>1, <2>2, <2>3
<1> HIDE DEF cs, ct, cw
<1>11. /\ cs \o ct \in Seq(Command) /\ Len(cs \o ct) = a + b
       /\ \A k \in 1..a : (cs \o ct)[k] = cs[k]
       /\ \A k \in 1..b : (cs \o ct)[a + k] = ct[k]
  <2>1. cs \o ct \in Seq(Command) /\ Continued(cs \o ct, cs, ct)
    BY <1>10, SeqContinued
  <2>. QED  BY <1>10, <2>1 DEF Continued
<1>12. ASSUME NEW k \in 1..a
       PROVE  cw[k] = (cs \o ct)[k]
  <2>1. PICK p \in A : UpTo(s, kind, p) = k
    BY UpToNumbers DEF a, A
  <2>2. p \in C /\ UpTo(w, kind, p) = k /\ w[p] = s[p]
    BY <1>8, <2>1
  <2>3. cw[k] = w[p].cmd /\ cs[k] = s[p].cmd
    BY <1>10, <2>1, <2>2
  <2>. QED  BY <1>11, <2>2, <2>3
<1>13. ASSUME NEW k \in 1..b
       PROVE  cw[a + k] = (cs \o ct)[a + k]
  <2>1. PICK p \in B : UpTo(t, kind, p) = k
    BY UpToNumbers DEF b, B
  <2>2. n + p \in C /\ UpTo(w, kind, n + p) = a + k /\ w[n + p] = t[p]
    BY <1>9, <2>1
  <2>3. cw[a + k] = w[n + p].cmd /\ ct[k] = t[p].cmd
    BY <1>10, <2>1, <2>2
  <2>. QED  BY <1>11, <2>2, <2>3
<1>14. \A k \in 1 .. a + b : cw[k] = (cs \o ct)[k]
  <2> SUFFICES ASSUME NEW k \in 1 .. a + b
               PROVE  cw[k] = (cs \o ct)[k]
    OBVIOUS
  <2>1. CASE k <= a
    <3>1. k \in 1..a
      BY <1>2, <2>1
    <3>. QED  BY <1>12, <3>1
  <2>2. CASE ~(k <= a)
    <3>1. k - a \in 1..b /\ a + (k - a) = k
      BY <1>2, <2>2
    <3>2. cw[a + (k - a)] = (cs \o ct)[a + (k - a)]
      BY <1>13, <3>1
    <3>. QED  BY <3>1, <3>2
  <2>. QED  BY <2>1, <2>2
<1>15. cw = cs \o ct
  BY <1>10, <1>11, <1>14, SeqEqual
<1>. QED  BY <1>15 DEF cw, cs, ct, w

Messages == [kind : {"setup", "command", "size", "response", "zeros"}, cmd : Command]

(* The commands of no message and of one. *)
LEMMA CommandsOfFew ==
  ASSUME NEW kind
  PROVE  /\ CommandsIn(<<>>, kind) = <<>>
         /\ \A m \in Messages :
              CommandsIn(<<m>>, kind) = IF m.kind = kind THEN <<m.cmd>> ELSE <<>>
<1>0. \A m \in Messages : m.cmd \in Command
  BY DEF Messages
<1>1. CommandsIn(<<>>, kind) = <<>>
  <2>1. Places(<<>>, kind) = {}
    BY DEF Places
  <2>2. <<>> \in Seq(Messages)
    BY EmptySeq
  <2>3. CommandsIn(<<>>, kind) \in Seq(Command) /\ Len(CommandsIn(<<>>, kind)) = 0
    BY <1>0, <2>1, <2>2, CommandsOne, FS_EmptySet
  <2>. QED  BY <2>3, LengthOfSeq
<1>2. ASSUME NEW m \in Messages
      PROVE  CommandsIn(<<m>>, kind) = IF m.kind = kind THEN <<m.cmd>> ELSE <<>>
  <2> DEFINE s == <<m>>
             c == CommandsIn(s, kind)
  <2>1. s \in Seq(Messages) /\ Len(s) = 1 /\ s[1] = m
    OBVIOUS
  <2> HIDE DEF s
  <2>2. /\ c \in Seq(Command) /\ Len(c) = Cardinality(Places(s, kind))
        /\ \A p \in Places(s, kind) : c[UpTo(s, kind, p)] = s[p].cmd
    BY <1>0, <2>1, CommandsOne
  <2>3. CASE m.kind = kind
    <3>1. Places(s, kind) = {1}
      BY <2>1, <2>3 DEF Places
    <3>2. UpTo(s, kind, 1) \in 1..Cardinality(Places(s, kind))
      BY <2>1, <3>1, UpToNumbers
    <3>3. Cardinality(Places(s, kind)) = 1
      BY <3>1, FS_Singleton
    <3>4. UpTo(s, kind, 1) = 1
      BY <3>2, <3>3
    <3>5. Len(c) = 1 /\ c[1] = m.cmd
      BY <2>1, <2>2, <3>1, <3>3, <3>4
    <3>6. <<m.cmd>> \in Seq(Command) /\ Len(<<m.cmd>>) = 1 /\ <<m.cmd>>[1] = m.cmd
      BY <1>0
    <3> DEFINE one == <<m.cmd>>
    <3> HIDE DEF c, one
    <3>7. c = one
      BY <2>2, <3>5, <3>6, SeqEqual DEF one
    <3>. QED  BY <2>3, <3>7 DEF c, s, one
  <2>4. CASE m.kind # kind
    <3>1. Places(s, kind) = {}
      BY <2>1, <2>4 DEF Places
    <3>2. Len(c) = 0
      BY <2>2, <3>1, FS_EmptySet
    <3> HIDE DEF c
    <3>3. c = <<>>
      BY <2>2, <3>2, LengthOfSeq
    <3>. QED  BY <2>4, <3>3 DEF c, s
  <2>. QED  BY <2>3, <2>4
<1>. QED  BY <1>1, <1>2

(* What is read from the front of a stream, message by message. *)
LEMMA CommandsFrom ==
  ASSUME NEW s \in Seq(Messages), NEW i \in 1..Len(s), NEW kind
  PROVE  /\ SubSeq(s, i + 1, Len(s)) \in Seq(Messages)
         /\ CommandsIn(SubSeq(s, i, Len(s)), kind) =
              (IF s[i].kind = kind THEN <<s[i].cmd>> ELSE <<>>)
                \o CommandsIn(SubSeq(s, i + 1, Len(s)), kind)
<1> DEFINE rest == SubSeq(s, i + 1, Len(s))
<1>1. Len(s) \in Nat /\ s[i] \in Messages
  BY LenProperties, ElementOfSeq
<1>2. rest \in Seq(Messages)
  <2>1. i \in 0..Len(s)
    BY <1>1
  <2>. QED  BY <2>1, RestOfSeq
<1>3. SubSeq(s, i, Len(s)) = <<s[i]>> \o rest
  <2>1. Len(s) \in i..Len(s)
    BY <1>1
  <2>. QED  BY <2>1, SubSeqRecursiveFirst
<1>4. <<s[i]>> \in Seq(Messages)
  BY <1>1
<1> HIDE DEF rest
<1>5. \A m \in Messages : m.cmd \in Command
  BY DEF Messages
<1>6. CommandsIn(<<s[i]>> \o rest, kind) = CommandsIn(<<s[i]>>, kind) \o CommandsIn(rest, kind)
  <2> DEFINE one == <<s[i]>>
  <2>1. one \in Seq(Messages)
    BY <1>4
  <2> HIDE DEF one
  <2>2. CommandsIn(one \o rest, kind) = CommandsIn(one, kind) \o CommandsIn(rest, kind)
    BY <1>2, <1>5, <2>1, CommandsContinued
  <2>. QED  BY <2>2 DEF one
<1>7. CommandsIn(<<s[i]>>, kind) = IF s[i].kind = kind THEN <<s[i].cmd>> ELSE <<>>
  BY <1>1, CommandsOfFew
<1>. QED  BY <1>2, <1>3, <1>6, <1>7 DEF rest

(* The rest of a stream of which nothing was read, or one message. *)
LEMMA StreamRead ==
  ASSUME NEW s \in Seq(Messages)
  PROVE  /\ SubSeq(s, 1, Len(s)) = s
         /\ s # <<>> => SubSeq(s, 2, Len(s)) = Tail(s)
BY SubSeqFull, TailIsSubSeq

(* They are commands. *)
LEMMA CommandsTyped ==
  ASSUME NEW s \in Seq(Messages), NEW kind
  PROVE  CommandsIn(s, kind) \in Seq(Command)
<1>1. \A m \in Messages : m.cmd \in Command
  BY DEF Messages
<1>. QED  BY <1>1, CommandsOne

(* The commands of a stream that is written to are followed by those written. *)
LEMMA MessagesContinued ==
  ASSUME NEW s \in Seq(Messages), NEW t \in Seq(Messages), NEW kind
  PROVE  CommandsIn(s \o t, kind) = CommandsIn(s, kind) \o CommandsIn(t, kind)
<1>1. \A m \in Messages : m.cmd \in Command
  BY DEF Messages
<1>. QED  BY <1>1, CommandsContinued

(* A queue with one more in front. *)
LEMMA InFront ==
  ASSUME NEW S, NEW e \in S, NEW s \in Seq(S)
  PROVE  LET all == <<e>> \o s
         IN  all # <<>> /\ Head(all) = e /\ Tail(all) = s
<1> DEFINE all == <<e>> \o s
           one == <<e>>
<1>1. one \in Seq(S) /\ Len(one) = 1 /\ one[1] = e
  OBVIOUS
<1>2. /\ all \in Seq(S) /\ Len(all) = 1 + Len(s) /\ all[1] = e
      /\ \A k \in 1..Len(s) : all[1 + k] = s[k]
      /\ Len(s) \in Nat
  <2> HIDE DEF one
  <2>1. one \o s \in Seq(S) /\ Continued(one \o s, one, s)
    BY <1>1, SeqContinued
  <2>2. Len(s) \in Nat
    BY LenProperties
  <2> DEFINE w == one \o s
  <2>3. w[1] = one[1]
    BY <1>1, <2>1 DEF Continued
  <2>4. \A k \in 1..Len(s) : w[1 + k] = s[k]
    BY <1>1, <2>1 DEF Continued
  <2>5. Len(w) = 1 + Len(s)
    BY <1>1, <2>1 DEF Continued
  <2>6. w = all
    BY DEF one
  <2> HIDE DEF w, all
  <2>. QED  BY <1>1, <2>1, <2>2, <2>3, <2>4, <2>5, <2>6 DEF w
<1> HIDE DEF all
<1>3. all # <<>>
  BY <1>2, EmptySeq
<1>4. /\ Tail(all) \in Seq(S) /\ Len(Tail(all)) = Len(all) - 1
      /\ \A i \in 1 .. Len(all) - 1 : Tail(all)[i] = all[i + 1]
      /\ Head(all) = all[1]
  BY <1>2, <1>3, TailOfSeq
<1>5. Len(Tail(all)) = Len(s)
  BY <1>2, <1>4
<1>6. \A i \in 1..Len(s) : Tail(all)[i] = s[i]
  <2> SUFFICES ASSUME NEW i \in 1..Len(s)
               PROVE  Tail(all)[i] = s[i]
    OBVIOUS
  <2>1. i \in 1 .. Len(all) - 1 /\ i + 1 = 1 + i
    BY <1>2
  <2>. QED  BY <1>2, <1>4, <2>1
<1>7. Tail(all) = s
  BY <1>4, <1>5, <1>6, SeqEqual
<1>. QED  BY <1>2, <1>3, <1>4, <1>7 DEF all
-----------------------------------------------------------------------------
(* How each step changes what is under way.                                 *)

(* The parts of Underway. *)
Arriving  == CommandsIn(fromSim, "response")
Executing == IF sim.stage = "execute" THEN <<sim.cmd>> ELSE <<>>
Waiting   == CommandsIn(toSim, "command")

(* A setup message and the command that follows it are of the same command. *)
PairsAgree ==
  /\ sim.stage = "command" => toSim[1].cmd = sim.cmd
  /\ \A i \in 1 .. Len(toSim) - 1 : toSim[i].kind = "setup" => toSim[i + 1].cmd = toSim[i].cmd

PairInv == StreamInv /\ PairsAgree

(* Every part is a queue of commands, and so is the whole. *)
LEMMA UnderwayParts ==
  ASSUME TypeOK
  PROVE  /\ fromSim \in Seq(Messages) /\ toSim \in Seq(Messages)
         /\ Arriving \in Seq(Command) /\ Executing \in Seq(Command) /\ Waiting \in Seq(Command)
         /\ Underway = (Arriving \o Executing) \o Waiting
         /\ Underway \in Seq(Command)
<1>1. fromSim \in Seq(Messages) /\ toSim \in Seq(Messages)
  <2>1. ToMessage \subseteq Messages /\ FromMessage \subseteq Messages
    BY DEF ToMessage, FromMessage, Messages
  <2>2. toSim \in Seq(ToMessage) /\ fromSim \in Seq(FromMessage)
    BY DEF TypeOK, ToMessage, FromMessage
  <2>. QED  BY <2>1, <2>2, SeqMonotonic
<1>2. Arriving \in Seq(Command) /\ Waiting \in Seq(Command)
  BY <1>1, CommandsTyped DEF Arriving, Waiting
<1>3. Executing \in Seq(Command)
  <2>1. sim.cmd \in Command
    BY DEF TypeOK
  <2>. QED  BY <2>1, EmptySeq DEF Executing
<1>4. Underway = (Arriving \o Executing) \o Waiting
  BY DEF Underway, Arriving, Executing, Waiting
<1> HIDE DEF Arriving, Executing, Waiting
<1>5. (Arriving \o Executing) \o Waiting \in Seq(Command)
  BY <1>2, <1>3, ConcatProperties
<1>. QED  BY <1>1, <1>2, <1>3, <1>4, <1>5

(* Steps that leave both streams and the simulator as they are. *)
LEMMA UnderwaySame ==
  ASSUME UNCHANGED <<fromSim, toSim, sim>>
  PROVE  Underway' = Underway
BY DEF Underway, CommandsIn, Places, UpTo

(* Nothing is under way over streams that are empty. *)
LEMMA UnderwayNone ==
  ASSUME fromSim = <<>>, toSim = <<>>, sim.stage = "setup"
  PROVE  Underway = <<>>
<1>1. Arriving = <<>> /\ Executing = <<>> /\ Waiting = <<>>
  BY CommandsOfFew DEF Arriving, Executing, Waiting
<1>2. <<>> \o <<>> \o <<>> = <<>>
  OBVIOUS
<1>. QED  BY <1>1, <1>2 DEF Underway, Arriving, Executing, Waiting

(* A command sent over an open connection is the youngest underway. *)
LEMMA TransmitUnderway ==
  ASSUME StreamInv, TypeOK', Transmit
  PROVE  Underway' = IF tpm_sock = "open" THEN Append(Underway, NewCommand) ELSE Underway
<1>1. /\ toSim' = (IF tpm_sock = "open" THEN toSim \o Request(NewCommand) ELSE toSim)
      /\ UNCHANGED <<fromSim, sim>>
  BY DEF Transmit
<1>2. CASE tpm_sock # "open"
  BY <1>1, <1>2, UnderwaySame
<1>3. CASE tpm_sock = "open"
  <2> DEFINE c == NewCommand
             setup == Message("setup", c)
             cmd   == Message("command", c)
             req   == <<setup>> \o <<cmd>>
  <2>1. c \in Command /\ TypeOK
    BY CommandTypes DEF StreamInv
  <2>2. setup \in Messages /\ cmd \in Messages /\ setup.kind = "setup"
        /\ cmd.kind = "command" /\ cmd.cmd = c
    BY <2>1 DEF Message, Messages
  <2>3. Request(c) = req
    BY <2>2 DEF Request
  <2> HIDE DEF setup, cmd, c
  <2>5. <<setup>> \in Seq(Messages) /\ <<cmd>> \in Seq(Messages)
    BY <2>2
  <2>6. CommandsIn(<<setup>>, "command") = <<>> /\ CommandsIn(<<cmd>>, "command") = <<c>>
    BY <2>2, CommandsOfFew
  <2>7. <<c>> \in Seq(Command)
    BY <2>1
  <2>8. CommandsIn(req, "command") = <<c>> /\ req \in Seq(Messages)
    <3> DEFINE one  == <<setup>>
               two  == <<cmd>>
               none == <<>>
               last == <<c>>
    <3>1. one \in Seq(Messages) /\ two \in Seq(Messages) /\ last \in Seq(Command)
      BY <2>5, <2>7
    <3>2. CommandsIn(one, "command") = none /\ CommandsIn(two, "command") = last
      BY <2>6
    <3>3. req = one \o two
      OBVIOUS
    <3>4. none \o last = last
      <4> HIDE DEF last
      <4>. QED  BY <3>1, ConcatEmptySeq
    <3> HIDE DEF one, two, last, none, req
    <3>5. CommandsIn(one \o two, "command")
            = CommandsIn(one, "command") \o CommandsIn(two, "command")
      BY <3>1, MessagesContinued
    <3>6. one \o two \in Seq(Messages)
      BY <3>1, ConcatProperties
    <3>. QED  BY <3>2, <3>3, <3>4, <3>5, <3>6 DEF last
  <2> HIDE DEF req
  <2>9. Waiting' = Waiting \o <<c>>
    <3>1. toSim \in Seq(Messages)
      BY <2>1, UnderwayParts
    <3>2. CommandsIn(toSim \o req, "command")
            = CommandsIn(toSim, "command") \o CommandsIn(req, "command")
      BY <2>8, <3>1, MessagesContinued
    <3>3. toSim' = toSim \o req
      BY <1>1, <1>3, <2>3 DEF c
    <3>. QED  BY <2>8, <3>2, <3>3 DEF Waiting
  <2>10. Arriving' = Arriving /\ Executing' = Executing
    BY <1>1 DEF Arriving, Executing, CommandsIn, Places, UpTo
  <2>11. /\ Arriving \in Seq(Command) /\ Executing \in Seq(Command) /\ Waiting \in Seq(Command)
         /\ Underway = (Arriving \o Executing) \o Waiting /\ Underway \in Seq(Command)
    BY <2>1, UnderwayParts
  <2>12. Underway' = (Arriving' \o Executing') \o Waiting'
    BY DEF Underway, Arriving, Executing, Waiting
  <2> DEFINE a == Arriving
             e == Executing
             w == Waiting
             front == a \o e
             last == <<c>>
  <2>13. front \in Seq(Command)
    <3> HIDE DEF a, e
    <3>. QED  BY <2>11, ConcatProperties DEF a, e
  <2>14. (front \o w) \o last = front \o (w \o last)
    <3>1. w \in Seq(Command) /\ last \in Seq(Command)
      BY <2>7, <2>11
    <3> HIDE DEF front, w, last
    <3>. QED  BY <2>13, <3>1, ConcatAssociative
  <2>15. Append(Underway, c) = Underway \o last
    BY <2>1, <2>11, AppendIsConcat
  <2>. QED  BY <1>3, <2>9, <2>10, <2>11, <2>12, <2>14, <2>15 DEF c
<1>. QED  BY <1>2, <1>3

(* What the messages after one contribute, and what that one does. *)
LEMMA CommandsPast ==
  ASSUME NEW s \in Seq(Messages), NEW i \in 1..Len(s), NEW kind
  PROVE  LET here  == CommandsIn(SubSeq(s, i, Len(s)), kind)
             after == CommandsIn(SubSeq(s, i + 1, Len(s)), kind)
         IN  /\ SubSeq(s, i + 1, Len(s)) \in Seq(Messages) /\ after \in Seq(Command)
             /\ here = IF s[i].kind = kind THEN <<s[i].cmd>> \o after ELSE after
<1> DEFINE here  == CommandsIn(SubSeq(s, i, Len(s)), kind)
           rest  == SubSeq(s, i + 1, Len(s))
           after == CommandsIn(rest, kind)
           none  == <<>>
<1>1. rest \in Seq(Messages) /\ here = (IF s[i].kind = kind THEN <<s[i].cmd>> ELSE none) \o after
  BY CommandsFrom
<1>2. after \in Seq(Command)
  <2> HIDE DEF rest
  <2>. QED  BY <1>1, CommandsTyped
<1>3. none \o after = after
  <2> HIDE DEF after
  <2>. QED  BY <1>2, ConcatEmptySeq
<1> HIDE DEF here, rest, after, none
<1>4. CASE s[i].kind = kind
  <2>1. here = <<s[i].cmd>> \o after
    BY <1>1, <1>4
  <2>. QED  BY <1>1, <1>2, <1>4, <2>1 DEF here, rest, after
<1>5. CASE s[i].kind # kind
  <2>1. here = after
    BY <1>1, <1>3, <1>5
  <2>. QED  BY <1>1, <1>2, <1>5, <2>1 DEF here, rest, after
<1>. QED  BY <1>4, <1>5

(* A queue in three parts, its head in the first. *)
LEMMA HeadOfParts ==
  ASSUME NEW e \in Command, NEW a \in Seq(Command), NEW b \in Seq(Command),
         NEW c \in Seq(Command)
  PROVE  LET all == ((<<e>> \o a) \o b) \o c
         IN  all # <<>> /\ Head(all) = e /\ Tail(all) = (a \o b) \o c
<1> DEFINE one  == <<e>>
           rest == (a \o b) \o c
<1>1. one \in Seq(Command)
  OBVIOUS
<1> HIDE DEF one
<1>2. a \o b \in Seq(Command) /\ rest \in Seq(Command)
  BY ConcatProperties
<1>3. (one \o a) \o b = one \o (a \o b)
  BY <1>1, ConcatAssociative
<1>4. (one \o (a \o b)) \o c = one \o rest
  BY <1>1, <1>2, ConcatAssociative
<1> HIDE DEF rest
<1>5. LET all == <<e>> \o rest
      IN  all # <<>> /\ Head(all) = e /\ Tail(all) = rest
  BY <1>2, InFront
<1>. QED  BY <1>3, <1>4, <1>5 DEF one, rest

(* Cut where its first part ends, a queue is that part. *)
LEMMA FirstPart ==
  ASSUME NEW S, NEW s \in Seq(S), NEW t \in Seq(S)
  PROVE  Len(s) \in 0..Len(s \o t) /\ SubSeq(s \o t, 1, Len(s)) = s
<1> DEFINE all == s \o t
<1>1. /\ all \in Seq(S) /\ Len(all) = Len(s) + Len(t)
      /\ \A i \in 1..Len(s) : all[i] = s[i]
  BY SeqContinued DEF Continued
<1>2. Len(s) \in Nat /\ Len(t) \in Nat
  BY LenProperties
<1> HIDE DEF all
<1>3. Len(s) \in 0..Len(all)
  BY <1>1, <1>2
<1>4. /\ SubSeq(all, 1, Len(s)) \in Seq(S) /\ Len(SubSeq(all, 1, Len(s))) = Len(s)
      /\ \A i \in 1..Len(s) : SubSeq(all, 1, Len(s))[i] = all[i]
  BY <1>1, <1>3, BeginningOfSeq
<1>5. SubSeq(all, 1, Len(s)) = s
  <2> DEFINE cut == SubSeq(all, 1, Len(s))
  <2>1. cut \in Seq(S) /\ Len(cut) = Len(s) /\ \A i \in 1..Len(s) : cut[i] = s[i]
    BY <1>1, <1>4
  <2> HIDE DEF cut
  <2>2. cut = s
    BY <2>1, SeqEqual
  <2>. QED  BY <2>2 DEF cut
<1>. QED  BY <1>3, <1>5 DEF all

(* To read the size takes no response. *)
LEMMA ReceiveSizeUnderway ==
  ASSUME StreamInv, ReceiveSize
  PROVE  Underway' = Underway
<1>1. fromSim' = Tail(fromSim) /\ ~sized /\ fromSim # <<>> /\ UNCHANGED <<toSim, sim>>
  BY DEF ReceiveSize, history
<1>2. fromSim \in Seq(Messages) /\ 1 \in 1..Len(fromSim)
  BY <1>1, UnderwayParts, LengthOfSeq DEF StreamInv
<1>3. fromSim[1].kind = "size"
  BY <1>1 DEF StreamInv, ResponsesWhole
<1>4. CommandsIn(SubSeq(fromSim, 1, Len(fromSim)), "response")
        = CommandsIn(SubSeq(fromSim, 1 + 1, Len(fromSim)), "response")
  BY <1>2, <1>3, CommandsPast
<1>5. SubSeq(fromSim, 1, Len(fromSim)) = fromSim /\ SubSeq(fromSim, 1 + 1, Len(fromSim)) = fromSim'
  BY <1>1, <1>2, StreamRead
<1>6. Arriving' = Arriving
  BY <1>4, <1>5 DEF Arriving
<1>7. Executing' = Executing /\ Waiting' = Waiting
  BY <1>1 DEF Executing, Waiting, CommandsIn, Places, UpTo
<1>. QED  BY <1>6, <1>7 DEF Underway, Arriving, Executing, Waiting

(* The response that is read is that of the oldest command underway. *)
LEMMA ReceiveResponseUnderway ==
  ASSUME StreamInv, ReceiveResponse
  PROVE  /\ Underway # <<>> /\ Head(Underway) = fromSim[Unread - 1].cmd
         /\ Underway' = Tail(Underway)
<1> DEFINE n == Unread
           len == Len(fromSim)
           from(i) == CommandsIn(SubSeq(fromSim, i, len), "response")
<1>1. /\ fromSim' = SubSeq(fromSim, n + 1, len) /\ UNCHANGED <<toSim, sim>>
      /\ n = (IF sized THEN 2 ELSE 3) /\ n <= len
  BY DEF ReceiveResponse, Unread
<1>2. /\ fromSim \in Seq(Messages) /\ len \in Nat /\ sized \in BOOLEAN
      /\ Executing \in Seq(Command) /\ Waiting \in Seq(Command)
      /\ Underway = (Arriving \o Executing) \o Waiting
  BY UnderwayParts, LengthOfSeq DEF StreamInv, TypeOK
<1>3. /\ fromSim[1].kind = (IF sized THEN "response" ELSE "size")
      /\ \A i \in 1 .. len - 1 : fromSim[i + 1].kind = After(fromSim[i].kind)
  BY <1>1, <1>2, EmptySeq DEF StreamInv, ResponsesWhole
<1>4. \A i \in 1..len : /\ from(i + 1) \in Seq(Command)
                        /\ from(i) = IF fromSim[i].kind = "response"
                                       THEN <<fromSim[i].cmd>> \o from(i + 1) ELSE from(i + 1)
  BY <1>2, CommandsPast
<1>5. from(1) = Arriving /\ from(n + 1) = Arriving'
  BY <1>1, <1>2, StreamRead DEF Arriving
<1>6. \A i \in 1..len : fromSim[i] \in Messages
  BY <1>2, LengthOfSeq
<1> HIDE DEF from, n, len
<1>7. /\ Arriving = <<fromSim[n - 1].cmd>> \o Arriving' /\ Arriving' \in Seq(Command)
      /\ fromSim[n - 1].cmd \in Command
  <2>1. CASE sized
    <3>1. n = 2 /\ 1 \in 1..len /\ 2 \in 1..len /\ 1 \in 1 .. len - 1
      BY <1>1, <1>2, <2>1
    <3>2. fromSim[1].kind = "response" /\ fromSim[2].kind = "zeros" /\ "zeros" # "response"
      BY <1>3, <2>1, <3>1 DEF After
    <3>3. /\ from(1) = <<fromSim[1].cmd>> \o from(2) /\ from(2) = from(3)
          /\ from(3) \in Seq(Command)
      BY <1>4, <3>1, <3>2, 1 + 1 = 2, 2 + 1 = 3, Zenon
    <3>4. fromSim[1].cmd \in Command
      BY <1>6, <3>1 DEF Messages
    <3>. QED  BY <1>5, <3>1, <3>3, <3>4
  <2>2. CASE ~sized
    <3>1. /\ n = 3 /\ 1 \in 1..len /\ 2 \in 1..len /\ 3 \in 1..len
          /\ 1 \in 1 .. len - 1 /\ 2 \in 1 .. len - 1
      BY <1>1, <1>2, <2>2
    <3>2. /\ fromSim[1].kind = "size" /\ fromSim[2].kind = "response" /\ fromSim[3].kind = "zeros"
          /\ "zeros" # "response" /\ "size" # "response"
      BY <1>3, <2>2, <3>1 DEF After
    <3>3. /\ from(1) = from(2) /\ from(2) = <<fromSim[2].cmd>> \o from(3)
          /\ from(3) = from(4) /\ from(4) \in Seq(Command)
      BY <1>4, <3>1, <3>2, 1 + 1 = 2, 2 + 1 = 3, 3 + 1 = 4, Zenon
    <3>4. fromSim[2].cmd \in Command
      BY <1>6, <3>1 DEF Messages
    <3>. QED  BY <1>5, <3>1, <3>3, <3>4
  <2>. QED  BY <1>2, <2>1, <2>2
<1>8. Executing' = Executing /\ Waiting' = Waiting
  BY <1>1 DEF Executing, Waiting, CommandsIn, Places, UpTo
<1>9. Underway' = (Arriving' \o Executing) \o Waiting
  BY <1>8 DEF Underway, Arriving, Executing, Waiting
<1>10. LET all == ((<<fromSim[n - 1].cmd>> \o Arriving') \o Executing) \o Waiting
       IN  /\ all # <<>> /\ Head(all) = fromSim[n - 1].cmd
           /\ Tail(all) = (Arriving' \o Executing) \o Waiting
  <2> DEFINE e == fromSim[n - 1].cmd
             a == Arriving'
             b == Executing
             c == Waiting
  <2>1. e \in Command /\ a \in Seq(Command) /\ b \in Seq(Command) /\ c \in Seq(Command)
    BY <1>2, <1>7
  <2> HIDE DEF e, a, b, c
  <2>2. LET all == ((<<e>> \o a) \o b) \o c
        IN  all # <<>> /\ Head(all) = e /\ Tail(all) = (a \o b) \o c
    BY <2>1, HeadOfParts, SMTT(30)
  <2>. QED  BY <2>2 DEF e, a, b, c
<1>11. Underway = ((<<fromSim[n - 1].cmd>> \o Arriving') \o Executing) \o Waiting
  BY <1>2, <1>7
<1> HIDE DEF Arriving, Executing, Waiting
<1>12. Underway # <<>> /\ Head(Underway) = fromSim[n - 1].cmd /\ Underway' = Tail(Underway)
  BY <1>9, <1>10, <1>11
<1>. QED  BY <1>12 DEF n

(* What the simulator writes for a command holds one response, to it. *)
LEMMA OneResponse ==
  ASSUME NEW c \in Command
  PROVE  /\ ResponseOf(c) \in Seq(Messages)
         /\ CommandsIn(ResponseOf(c), "response") = <<c>>
<1> DEFINE s == ResponseOf(c)
           from(i) == CommandsIn(SubSeq(s, i, Len(s)), "response")
<1>1. s \in Seq(FromMessage) /\ Len(s) = 3 /\ s[1].kind = "size" /\ s[2].kind = "response"
      /\ s[3].kind = "zeros"
  BY ResponseFacts
<1>2. s[2].cmd = c
  BY DEF ResponseOf, Message
<1>3. s \in Seq(Messages)
  <2>1. FromMessage \subseteq Messages
    BY DEF FromMessage, Messages
  <2> HIDE DEF s
  <2>. QED  BY <1>1, <2>1, SeqMonotonic
<1> HIDE DEF s
<1>4. \A i \in 1..Len(s) : from(i) = IF s[i].kind = "response" THEN <<s[i].cmd>> \o from(i + 1)
                                                              ELSE from(i + 1)
  BY <1>3, CommandsPast
<1>5. SubSeq(s, 1, Len(s)) = s
  BY <1>3, StreamRead
<1>6. SubSeq(s, 4, Len(s)) = <<>>
  <2>1. 3 \in 0..Len(s)
    BY <1>1
  <2>2. SubSeq(s, 3 + 1, Len(s)) \in Seq(Messages) /\ Len(SubSeq(s, 3 + 1, Len(s))) = Len(s) - 3
    BY <1>3, <2>1, RestOfSeq
  <2>. QED  BY <1>1, <2>2, LengthOfSeq
<1>7. from(4) = <<>>
  BY <1>6, CommandsOfFew
<1> HIDE DEF from
<1>8. from(1) = <<c>> \o <<>>
  <2>1. 1 \in 1..Len(s) /\ 2 \in 1..Len(s) /\ 3 \in 1..Len(s)
    BY <1>1
  <2>2. "zeros" # "response" /\ "size" # "response"
    OBVIOUS
  <2>3. from(1) = from(2) /\ from(2) = <<c>> \o from(3) /\ from(3) = from(4)
    BY <1>1, <1>2, <1>4, <2>1, <2>2, 1 + 1 = 2, 2 + 1 = 3, 3 + 1 = 4, Zenon
  <2>. QED  BY <1>7, <2>3
<1>9. <<c>> \o <<>> = <<c>>
  OBVIOUS
<1>. QED  BY <1>3, <1>5, <1>8, <1>9 DEF s, from

(* A command moves from the stream to the simulator, whole: what was announced
   by the setup message is what it executes. *)
LEMMA SimReadsUnderway ==
  ASSUME PairInv, SimReads
  PROVE  Underway' = Underway
<1>1. /\ toSim # <<>> /\ toSim' = Tail(toSim) /\ UNCHANGED fromSim
      /\ toSim \in Seq(Messages) /\ 1 \in 1..Len(toSim)
      /\ Head(toSim) = toSim[1] /\ toSim[1] \in Messages
  <2>1. toSim # <<>> /\ toSim' = Tail(toSim) /\ UNCHANGED fromSim
    BY DEF SimReads
  <2>2. toSim \in Seq(Messages)
    BY UnderwayParts DEF PairInv, StreamInv
  <2>3. 1 \in 1..Len(toSim) /\ toSim[1] \in Messages
    BY <2>1, <2>2, LengthOfSeq
  <2>. QED  BY <2>1, <2>2, <2>3, TailOfSeq
<1>2. toSim[1].kind = sim.stage /\ sim.stage \in {"setup", "command"}
  BY <1>1 DEF SimReads
<1>3. /\ CommandsIn(SubSeq(toSim, 1 + 1, Len(toSim)), "command") \in Seq(Command)
      /\ CommandsIn(SubSeq(toSim, 1, Len(toSim)), "command") =
           IF toSim[1].kind = "command"
             THEN <<toSim[1].cmd>> \o CommandsIn(SubSeq(toSim, 1 + 1, Len(toSim)), "command")
             ELSE CommandsIn(SubSeq(toSim, 1 + 1, Len(toSim)), "command")
  BY <1>1, CommandsPast
<1>4. SubSeq(toSim, 1, Len(toSim)) = toSim /\ SubSeq(toSim, 1 + 1, Len(toSim)) = toSim'
  BY <1>1, StreamRead
<1>5. /\ Waiting' \in Seq(Command)
      /\ Waiting = IF toSim[1].kind = "command" THEN <<toSim[1].cmd>> \o Waiting' ELSE Waiting'
  BY <1>3, <1>4 DEF Waiting
<1>6. Arriving' = Arriving
  BY <1>1 DEF Arriving, CommandsIn, Places, UpTo
<1>7. /\ Arriving \in Seq(Command) /\ Underway = (Arriving \o Executing) \o Waiting
      /\ Underway' = (Arriving' \o Executing') \o Waiting'
  BY UnderwayParts DEF PairInv, StreamInv, Underway, Arriving, Executing, Waiting
<1>8. CASE sim.stage = "setup"
  <2>1. sim'.stage = "command"
    BY <1>1, <1>2, <1>8 DEF SimReads
  <2>2. Executing' = Executing /\ Waiting = Waiting'
    BY <1>2, <1>5, <1>8, <2>1 DEF Executing
  <2>. QED  BY <1>6, <1>7, <2>2
<1>9. CASE sim.stage = "command"
  <2> DEFINE c == toSim[1].cmd
  <2>1. c = sim.cmd /\ c \in Command
    BY <1>1, <1>9 DEF PairInv, PairsAgree, Messages
  <2>2. sim' = [stage |-> "execute", cmd |-> [c EXCEPT !.locality = c.locality]]
    BY <1>1, <1>2, <1>9, <2>1 DEF SimReads
  <2>3. [c EXCEPT !.locality = c.locality] = c
    <3> HIDE DEF c
    <3>. QED  BY <2>1 DEF Command
  <2>4. Executing = <<>> /\ Executing' = <<c>> /\ Waiting = <<c>> \o Waiting'
    BY <1>2, <1>5, <1>9, <2>2, <2>3 DEF Executing
  <2> DEFINE a    == Arriving
             w    == Waiting'
             one  == <<c>>
             none == <<>>
  <2>5. a \in Seq(Command) /\ w \in Seq(Command) /\ one \in Seq(Command)
    BY <1>5, <1>7, <2>1
  <2>6. a \o none = a
    <3> HIDE DEF a
    <3>. QED  BY <2>5, ConcatEmptySeq
  <2>7. a \o (one \o w) = (a \o one) \o w
    <3> HIDE DEF a, one, w
    <3>. QED  BY <2>5, ConcatAssociative
  <2>8. Underway = (a \o none) \o (one \o w) /\ Underway' = (a \o one) \o w
    BY <1>6, <1>7, <2>4
  <2> HIDE DEF a, w, one, none
  <2>. QED  BY <2>6, <2>7, <2>8
<1>. QED  BY <1>2, <1>8, <1>9

(* A command executed becomes a response that arrives. *)
LEMMA SimAnswersUnderway ==
  ASSUME StreamInv, SimAnswers
  PROVE  Underway' = Underway
<1> DEFINE c    == sim.cmd
           a    == Arriving
           w    == Waiting
           one  == <<c>>
           none == <<>>
<1>1. /\ fromSim' = fromSim \o ResponseOf(c) /\ UNCHANGED toSim
      /\ sim.stage = "execute" /\ sim'.stage = "setup"
  BY CommandTypes DEF SimAnswers, ResponseOf
<1>2. c \in Command /\ fromSim \in Seq(Messages) /\ a \in Seq(Command) /\ w \in Seq(Command)
  BY UnderwayParts DEF StreamInv, TypeOK
<1>3. /\ Underway = (Arriving \o Executing) \o Waiting
      /\ Underway' = (Arriving' \o Executing') \o Waiting'
  BY DEF Underway, Arriving, Executing, Waiting
<1>4. Executing = one /\ Executing' = none /\ Waiting' = w
  BY <1>1 DEF Executing, Waiting, CommandsIn, Places, UpTo
<1>5. Arriving' = a \o one
  <2> HIDE DEF c
  <2>1. ResponseOf(c) \in Seq(Messages) /\ CommandsIn(ResponseOf(c), "response") = one
    BY <1>2, OneResponse
  <2>2. CommandsIn(fromSim \o ResponseOf(c), "response")
          = CommandsIn(fromSim, "response") \o CommandsIn(ResponseOf(c), "response")
    BY <1>2, <2>1, MessagesContinued
  <2>. QED  BY <1>1, <2>1, <2>2 DEF Arriving
<1>6. (a \o one) \o none = a \o one
  <2>1. one \in Seq(Command)
    BY <1>2
  <2> HIDE DEF a, one
  <2>2. a \o one \in Seq(Command)
    BY <1>2, <2>1, ConcatProperties
  <2>. QED  BY <2>2, ConcatEmptySeq
<1>7. Underway = (a \o one) \o w /\ Underway' = ((a \o one) \o none) \o w
  BY <1>3, <1>4, <1>5
<1> HIDE DEF a, one, none, w
<1>. QED  BY <1>6, <1>7

(* What has been written still arrives, from the oldest on. *)
LEMMA ConnectionLostUnderway ==
  ASSUME StreamInv, ConnectionLost
  PROVE  \E n \in 0..Len(Underway) : Underway' = SubSeq(Underway, 1, n)
<1>1. PICK n \in 0..Len(fromSim) : fromSim' = SubSeq(fromSim, 1, n)
  BY DEF ConnectionLost
<1>2. toSim' = <<>> /\ sim'.stage = "setup"
  BY CommandTypes DEF ConnectionLost
<1> DEFINE some == SubSeq(fromSim, 1, n)
           rest == SubSeq(fromSim, n + 1, Len(fromSim))
           a    == CommandsIn(some, "response")
           b    == CommandsIn(rest, "response")
           e    == Executing
           w    == Waiting
           none == <<>>
<1>3. fromSim \in Seq(Messages) /\ e \in Seq(Command) /\ w \in Seq(Command) /\ Len(fromSim) \in Nat
  BY UnderwayParts, LengthOfSeq DEF StreamInv
<1>4. some \in Seq(Messages) /\ rest \in Seq(Messages) /\ fromSim = some \o rest
  <2>1. some \in Seq(Messages) /\ rest \in Seq(Messages)
    BY <1>3, BeginningOfSeq, RestOfSeq
  <2>2. /\ 1 \in 1 .. Len(fromSim) + 1 /\ n \in 1 - 1 .. Len(fromSim)
        /\ Len(fromSim) \in n..Len(fromSim)
    BY <1>3
  <2>3. some \o rest = SubSeq(fromSim, 1, Len(fromSim))
    BY <1>3, <2>2, ConcatAdjacentSubSeq
  <2>. QED  BY <1>3, <2>1, <2>3, StreamRead
<1>5. Arriving = a \o b /\ a \in Seq(Command) /\ b \in Seq(Command)
  <2> HIDE DEF some, rest
  <2>. QED  BY <1>4, CommandsTyped, MessagesContinued DEF Arriving
<1>6. Arriving' = a /\ Executing' = none /\ Waiting' = none
  BY <1>1, <1>2, CommandsOfFew DEF Arriving, Executing, Waiting
<1>7. /\ Underway = (Arriving \o Executing) \o Waiting
      /\ Underway' = (Arriving' \o Executing') \o Waiting'
  BY DEF Underway, Arriving, Executing, Waiting
<1>8. Underway = ((a \o b) \o e) \o w /\ Underway' = (a \o none) \o none
  BY <1>5, <1>6, <1>7
<1> HIDE DEF a, b, e, w, none
<1> DEFINE be == b \o e
           t  == be \o w
<1>9. be \in Seq(Command)
  BY <1>3, <1>5, ConcatProperties
<1>10. (a \o b) \o e = a \o be
  BY <1>3, <1>5, ConcatAssociative
<1> HIDE DEF be
<1>11. (a \o be) \o w = a \o t
  <2>1. a \in Seq(Command) /\ be \in Seq(Command) /\ w \in Seq(Command)
    BY <1>3, <1>5, <1>9
  <2>. QED  BY <2>1, ConcatAssociative
<1>12. a \o none = a
  BY <1>5, ConcatEmptySeq DEF none
<1>13. Underway = a \o t /\ Underway' = a
  BY <1>8, <1>10, <1>11, <1>12
<1>14. t \in Seq(Command)
  BY <1>3, <1>9, ConcatProperties
<1> HIDE DEF t
<1>15. Len(a) \in 0..Len(a \o t) /\ SubSeq(a \o t, 1, Len(a)) = a
  BY <1>5, <1>14, FirstPart
<1>. QED  BY <1>13, <1>15

(* A connection that has ended, or begins, holds nothing. *)
LEMMA EndUnderway ==
  ASSUME StreamInv, ReceiveFails \/ Finalize \/ Initialize
  PROVE  Underway' = <<>> /\ (Initialize => Underway = <<>>)
<1>1. fromSim' = <<>> /\ toSim' = <<>> /\ sim'.stage = "setup"
  BY CommandTypes DEF ReceiveFails, Finalize, Initialize, Alive, StreamInv, NothingLeft
<1>2. Arriving' = <<>> /\ Executing' = <<>> /\ Waiting' = <<>>
  BY <1>1, CommandsOfFew DEF Arriving, Executing, Waiting
<1>3. <<>> \o <<>> \o <<>> = <<>>
  OBVIOUS
<1>4. Underway' = <<>>
  BY <1>2, <1>3 DEF Underway, Arriving, Executing, Waiting
<1>5. Initialize => Underway = <<>>
  BY UnderwayNone, CommandTypes DEF Initialize, Alive, StreamInv, NothingLeft
<1>. QED  BY <1>4, <1>5

(* Setup messages and commands go out and are read in pairs. *)
LEMMA PairsStep ==
  ASSUME PairInv, [Next]_vars
  PROVE  PairsAgree'
<1>0. /\ toSim \in Seq(ToMessage) /\ Len(toSim) \in Nat /\ (toSim = <<>> <=> Len(toSim) = 0)
      /\ \A i \in 1..Len(toSim) : toSim[i] \in ToMessage
  <2>1. toSim \in Seq(ToMessage)
    BY DEF PairInv, StreamInv, TypeOK, ToMessage
  <2>. QED  BY <2>1, LengthOfSeq
<1>1. CASE UNCHANGED <<toSim, sim>>
  BY <1>1 DEF PairInv, PairsAgree
<1>2. CASE toSim' = <<>> /\ sim' = Idle
  BY <1>2, EmptySeq, CommandTypes DEF PairsAgree
<1>3. CASE Transmit /\ tpm_sock = "open"
  <2> DEFINE new == Request(NewCommand)
  <2>1. toSim' = toSim \o new /\ sim' = sim
    BY <1>3 DEF Transmit
  <2>2. new \in Seq(ToMessage) /\ Len(new) = 2
    BY RequestFacts, CommandTypes DEF PairInv, StreamInv
  <2>3. new[2].cmd = new[1].cmd
    BY DEF Request, Message
  <2> HIDE DEF new
  <2>4. /\ Len(toSim') = Len(toSim) + 2
        /\ \A i \in 1..Len(toSim) : toSim'[i] = toSim[i]
        /\ \A k \in 1..2 : toSim'[Len(toSim) + k] = new[k]
    <3>1. Continued(toSim', toSim, new)
      BY <1>0, <2>1, <2>2, SeqContinued
    <3>. QED  BY <2>2, <3>1 DEF Continued
  <2>5. toSim'[Len(toSim) + 1] = new[1] /\ toSim'[Len(toSim) + 2] = new[2]
    BY <2>4
  <2>6. ASSUME NEW i \in 1 .. Len(toSim') - 1, toSim'[i].kind = "setup"
        PROVE  toSim'[i + 1].cmd = toSim'[i].cmd
    <3>1. CASE i < Len(toSim)
      <4>1. /\ i \in 1 .. Len(toSim) - 1 /\ i \in 1..Len(toSim)
            /\ i + 1 \in 1..Len(toSim)
        BY <1>0, <2>4, <3>1
      <4>. QED  BY <2>4, <2>6, <4>1 DEF PairInv, PairsAgree
    <3>2. CASE i = Len(toSim)
      <4>1. toSim # <<>> /\ i \in 1..Len(toSim)
        BY <1>0, <2>4, <3>2
      <4>2. toSim[i].kind = "command"
        BY <3>2, <4>1 DEF PairInv, StreamInv, CommandsWhole
      <4>. QED  BY <2>4, <2>6, <4>1, <4>2
    <3>3. CASE i > Len(toSim)
      <4>1. i = Len(toSim) + 1 /\ (Len(toSim) + 1) + 1 = Len(toSim) + 2
        BY <1>0, <2>4, <3>3
      <4>. QED  BY <2>3, <2>5, <4>1
    <3>. QED  BY <1>0, <2>4, <3>1, <3>2, <3>3
  <2>7. sim.stage = "command" => toSim'[1] = toSim[1]
    <3>1. sim.stage = "command" => 1 \in 1..Len(toSim)
      BY <1>0 DEF PairInv, StreamInv, CommandsWhole
    <3>. QED  BY <2>4, <3>1
  <2>. QED  BY <2>1, <2>6, <2>7 DEF PairInv, PairsAgree
<1>4. CASE SimReads
  <2>1. /\ toSim # <<>> /\ toSim' = Tail(toSim) /\ toSim[1].kind = sim.stage
        /\ sim'.stage = "command" => toSim[1].kind = "setup" /\ sim'.cmd = toSim[1].cmd
    BY <1>0, <1>4, TailOfSeq DEF SimReads
  <2>2. /\ toSim' \in Seq(ToMessage) /\ Len(toSim') = Len(toSim) - 1
        /\ \A i \in 1 .. Len(toSim) - 1 : toSim'[i] = toSim[i + 1]
    BY <1>0, <2>1, TailOfSeq
  <2>3. ASSUME NEW i \in 1 .. Len(toSim') - 1, toSim'[i].kind = "setup"
        PROVE  toSim'[i + 1].cmd = toSim'[i].cmd
    <3>1. i \in 1 .. Len(toSim) - 1 /\ i + 1 \in 1 .. Len(toSim) - 1
      BY <1>0, <2>2
    <3>. QED  BY <2>2, <2>3, <3>1 DEF PairInv, PairsAgree
  <2>4. sim'.stage = "command" => 1 \in 1 .. Len(toSim) - 1
    <3>1. sim'.stage = "command" => toSim' # <<>>
      BY CommandsStep DEF PairInv, CommandsWhole
    <3>2. Len(toSim') \in Nat /\ (toSim' = <<>> <=> Len(toSim') = 0)
      BY <2>2, LengthOfSeq
    <3>. QED  BY <1>0, <2>2, <3>1, <3>2
  <2>5. sim'.stage = "command" => toSim'[1].cmd = sim'.cmd
    <3>1. 1 \in 1 .. Len(toSim) - 1 /\ toSim[1].kind = "setup" => toSim[1 + 1].cmd = toSim[1].cmd
      BY DEF PairInv, PairsAgree
    <3>2. 1 \in 1 .. Len(toSim) - 1 => toSim'[1] = toSim[1 + 1]
      BY <2>2
    <3>. QED  BY <2>1, <2>4, <3>1, <3>2
  <2>. QED  BY <2>3, <2>5 DEF PairsAgree
<1>5. CASE SimAnswers
  <2>1. toSim' = toSim /\ sim'.stage = "setup"
    BY <1>5, CommandTypes DEF SimAnswers
  <2>. QED  BY <2>1 DEF PairInv, PairsAgree
<1>6. \/ UNCHANGED <<toSim, sim>>
      \/ toSim' = <<>> /\ sim' = Idle
      \/ Transmit /\ tpm_sock = "open"
      \/ SimReads \/ SimAnswers
  BY DEF Next, Receive, Simulator, Transmit, ReceiveSize, ReceiveResponse, ReceiveFails,
         Cancel, CancelFails, SetLocality, Finalize, Initialize, ConnectionLost,
         vars, context, history
<1>. QED  BY <1>1, <1>2, <1>3, <1>4, <1>5, <1>6

(* Every step keeps the whole of it. *)
LEMMA PairInvStep ==
  ASSUME PairInv, [Next]_vars
  PROVE  PairInv'
BY TypeStep, ResponsesStep, CommandsStep, NothingLeftStep, PairsStep DEF PairInv, StreamInv

(* It holds at the beginning. *)
LEMMA PairInvInit == Init => PairInv
<1> SUFFICES ASSUME Init
             PROVE  PairInv
  OBVIOUS
<1>1. StreamInv
  BY StreamsBegin
<1>2. PairsAgree
  BY EmptySeq, CommandTypes DEF Init, PairsAgree
<1>. QED  BY <1>1, <1>2 DEF PairInv

(* The response read is that of the oldest command underway, a command sent
   becomes the youngest; no other step over a connection changes them. *)
LEMMA UnderwayStep ==
  ASSUME PairInv, [Next]_vars
  PROVE  \/ Transmit /\ Underway' = IF tpm_sock = "open" THEN Append(Underway, NewCommand)
                                                          ELSE Underway
         \/ ReceiveResponse /\ Underway # <<>> /\ Underway' = Tail(Underway)
         \/ (ReceiveFails \/ Finalize \/ Initialize) /\ Underway' = <<>>
         \/ ConnectionLost /\ \E n \in 0..Len(Underway) : Underway' = SubSeq(Underway, 1, n)
         \/ /\ \/ ReceiveSize \/ Cancel \/ CancelFails \/ (\E l \in Localities : SetLocality(l))
               \/ SimReads \/ SimAnswers \/ UNCHANGED vars
            /\ Underway' = Underway
<1>0. StreamInv /\ TypeOK'
  BY TypeStep DEF PairInv, StreamInv
<1>1. CASE Transmit
  BY <1>0, <1>1, TransmitUnderway
<1>2. CASE ReceiveResponse
  BY <1>0, <1>2, ReceiveResponseUnderway
<1>3. CASE ReceiveFails \/ Finalize \/ Initialize
  BY <1>0, <1>3, EndUnderway
<1>4. CASE ConnectionLost
  BY <1>0, <1>4, ConnectionLostUnderway
<1>5. CASE Cancel \/ CancelFails \/ UNCHANGED vars
  <2>1. UNCHANGED <<fromSim, toSim, sim>>
    BY <1>5 DEF Cancel, CancelFails, vars
  <2>. QED  BY <1>5, <2>1, UnderwaySame
<1>6. ASSUME NEW l \in Localities, SetLocality(l)
      PROVE  Underway' = Underway
  <2>1. UNCHANGED <<fromSim, toSim, sim>>
    BY <1>6 DEF SetLocality
  <2>. QED  BY <2>1, UnderwaySame
<1>7. CASE ReceiveSize
  BY <1>0, <1>7, ReceiveSizeUnderway
<1>8. CASE SimReads
  BY <1>8, SimReadsUnderway
<1>9. CASE SimAnswers
  BY <1>0, <1>9, SimAnswersUnderway
<1>. QED  BY <1>1, <1>2, <1>3, <1>4, <1>5, <1>6, <1>7, <1>8, <1>9 DEF Next, Receive, Simulator
-----------------------------------------------------------------------------
(* What a cancelled command leaves behind.                                  *)

(* The commands cancelled over the connection were sent before the one that
   waits. *)
CancelsCounted ==
  /\ IsFiniteSet(abandoned)
  /\ \A a \in abandoned : a <= sent.number /\ (state = "RECEIVE" => a < sent.number)
ShiftInv == PairInv /\ CancelsCounted /\ ShiftedByCancels

Shift == Cardinality(abandoned) + (IF state = "RECEIVE" THEN 1 ELSE 0)
(* ShiftedByCancels while the connection is open. *)
LatestUnderway ==
  Len(Underway) = Shift /\ \A i \in 1..Shift : Underway[i].number = sent.number - Shift + i

(* A number is counted as cancelled once, and only when it was sent. *)
LEMMA CancelsCountedStep ==
  ASSUME TypeOK, CancelsCounted, [Next]_vars
  PROVE  CancelsCounted'
<1>1. sent.number \in Nat /\ \A a \in abandoned : a \in Nat
  BY DEF TypeOK, Command
<1>2. CASE Transmit
  <2>1. sent'.number = sent.number + 1 /\ abandoned' = abandoned
    BY <1>2 DEF Transmit, NewCommand
  <2>. QED  BY <1>1, <2>1 DEF CancelsCounted
<1>3. CASE Cancel
  <2>1. abandoned' = abandoned \cup {sent.number} /\ state' = "TRANSMIT" /\ sent' = sent
    BY <1>3 DEF Cancel
  <2>2. IsFiniteSet(abandoned')
    BY <2>1, FS_AddElement DEF CancelsCounted
  <2>. QED  BY <1>1, <2>1, <2>2 DEF CancelsCounted
<1>4. CASE Initialize
  BY <1>4, FS_EmptySet DEF Initialize, CancelsCounted
<1>5. CASE UNCHANGED <<sent, abandoned>> /\ (state' = state \/ state' = "TRANSMIT")
  BY <1>5 DEF CancelsCounted
<1>6. \/ UNCHANGED <<sent, abandoned>> /\ (state' = state \/ state' = "TRANSMIT")
      \/ Transmit \/ Cancel \/ Initialize
  BY DEF Next, Receive, Simulator, ReceiveSize, ReceiveResponse, ReceiveFails, CancelFails,
         SetLocality, Finalize, SimReads, SimAnswers, ConnectionLost, vars, context, history
<1>. QED  BY <1>2, <1>3, <1>4, <1>5, <1>6

(* A command sent adds one response to those still to be read, a response read
   takes one; a command cancelled leaves its own. *)
LEMMA ShiftStep ==
  ASSUME ShiftInv, [Next]_vars, tpm_sock' = "open"
  PROVE  LatestUnderway'
<1>1. /\ sent.number \in Nat /\ state \in {"TRANSMIT", "RECEIVE"}
      /\ IsFiniteSet(abandoned) /\ Cardinality(abandoned) \in Nat
  BY FS_CardinalityType DEF ShiftInv, PairInv, StreamInv, TypeOK, Command, CancelsCounted
<1>2. Underway \in Seq(Command) /\ Shift \in Nat
  BY <1>1, UnderwayParts DEF ShiftInv, PairInv, StreamInv, Shift
<1>3. CASE Initialize
  <2>1. Underway' = <<>>
    BY <1>3, EndUnderway DEF ShiftInv, PairInv
  <2>2. Shift' = 0
    <3>1. abandoned' = {} /\ state' # "RECEIVE"
      BY <1>3 DEF Initialize
    <3>. QED  BY <3>1, FS_EmptySet DEF Shift
  <2>. QED  BY <2>1, <2>2, EmptySeq DEF LatestUnderway
<1>4. ASSUME ~Initialize
      PROVE  LatestUnderway'
  <2>1. tpm_sock = "open"
    BY <1>4 DEF Next, Receive, Simulator, Transmit, ReceiveSize, ReceiveResponse, ReceiveFails,
                Cancel, CancelFails, SetLocality, Finalize, SimReads, SimAnswers,
                ConnectionLost, vars, context, history
  <2>2. Len(Underway) = Shift /\ \A i \in 1..Shift : Underway[i].number = sent.number - Shift + i
    BY <2>1 DEF ShiftInv, ShiftedByCancels, Shift
  <2>3. CASE Transmit
    <3>1. /\ Underway' = Append(Underway, NewCommand) /\ NewCommand \in Command
          /\ NewCommand.number = sent.number + 1
      BY <2>1, <2>3, TransmitUnderway, TypeStep, CommandTypes
         DEF ShiftInv, PairInv, StreamInv, NewCommand
    <3>2. sent'.number = sent.number + 1 /\ Shift' = Shift + 1
      <4>1. abandoned' = abandoned /\ state = "TRANSMIT" /\ state' = "RECEIVE"
            /\ sent'.number = sent.number + 1
        BY <2>3 DEF Transmit, NewCommand
      <4>. QED  BY <1>1, <4>1 DEF Shift
    <3>3. /\ Len(Underway') = Shift + 1 /\ Underway'[Shift + 1] = NewCommand
          /\ \A i \in 1..Shift : Underway'[i] = Underway[i]
      BY <1>2, <2>2, <3>1, AppendProperties
    <3>4. ASSUME NEW i \in 1 .. Shift + 1
          PROVE  Underway'[i].number = (sent.number + 1) - (Shift + 1) + i
      <4>1. CASE i = Shift + 1
        BY <1>1, <1>2, <3>1, <3>3, <4>1
      <4>2. CASE i # Shift + 1
        <5>1. i \in 1..Shift
          BY <1>2, <4>2
        <5>2. Underway'[i].number = sent.number - Shift + i
          BY <2>2, <3>3, <5>1
        <5>. QED  BY <1>1, <1>2, <5>2
      <4>. QED  BY <4>1, <4>2
    <3>. QED  BY <3>2, <3>3, <3>4 DEF LatestUnderway
  <2>4. CASE ReceiveResponse
    <3> DEFINE next == Shift'
    <3>1. Underway # <<>> /\ Underway' = Tail(Underway)
      BY <2>4, ReceiveResponseUnderway DEF ShiftInv, PairInv
    <3>2. sent' = sent /\ Shift = next + 1 /\ next \in Nat
      <4>1. abandoned' = abandoned /\ state = "RECEIVE" /\ state' = "TRANSMIT" /\ sent' = sent
        BY <2>4 DEF ReceiveResponse
      <4>. QED  BY <1>1, <4>1 DEF Shift
    <3> HIDE DEF next
    <3>3. Len(Underway') = next /\ \A i \in 1..next : Underway'[i] = Underway[i + 1]
      <4>1. /\ Len(Tail(Underway)) = Len(Underway) - 1
            /\ \A i \in 1 .. Len(Underway) - 1 : Tail(Underway)[i] = Underway[i + 1]
        BY <1>2, <3>1, TailOfSeq
      <4>2. Len(Underway) - 1 = next
        BY <2>2, <3>2
      <4>. QED  BY <3>1, <4>1, <4>2
    <3>4. ASSUME NEW i \in 1..next
          PROVE  Underway'[i].number = sent.number - next + i
      <4>1. i + 1 \in 1..Shift /\ sent.number - Shift + (i + 1) = sent.number - next + i
        BY <1>1, <3>2
      <4>. QED  BY <2>2, <3>3, <4>1
    <3>. QED  BY <3>2, <3>3, <3>4 DEF LatestUnderway, next
  <2>5. CASE Cancel
    <3>1. Underway' = Underway
      BY <2>5, UnderwaySame DEF Cancel
    <3>2. sent' = sent /\ Shift' = Shift
      <4>1. /\ abandoned' = abandoned \cup {sent.number} /\ sent' = sent
            /\ state = "RECEIVE" /\ state' = "TRANSMIT"
        BY <2>5 DEF Cancel
      <4>2. sent.number \notin abandoned
        BY <1>1, <4>1 DEF ShiftInv, CancelsCounted
      <4>3. Cardinality(abandoned') = Cardinality(abandoned) + 1
        BY <1>1, <4>1, <4>2, FS_AddElement
      <4>. QED  BY <1>1, <4>1, <4>3 DEF Shift
    <3>. QED  BY <2>2, <3>1, <3>2 DEF LatestUnderway
  <2>6. CASE UNCHANGED <<sent, state, abandoned>> /\ Underway' = Underway
    BY <2>2, <2>6 DEF LatestUnderway, Shift
  <2>7. \/ Transmit \/ ReceiveResponse \/ Cancel
        \/ UNCHANGED <<sent, state, abandoned>> /\ Underway' = Underway
    <3>1. ~ReceiveFails /\ ~Finalize /\ ~ConnectionLost
      BY <2>1 DEF ReceiveFails, Finalize, ConnectionLost
    <3>2. ReceiveSize \/ CancelFails \/ (\E l \in Localities : SetLocality(l))
             \/ SimReads \/ SimAnswers \/ UNCHANGED vars => UNCHANGED <<sent, state, abandoned>>
      BY DEF ReceiveSize, CancelFails, SetLocality, SimReads, SimAnswers, vars, context, history
    <3>. QED  BY <1>4, <3>1, <3>2, UnderwayStep DEF ShiftInv
  <2>. QED  BY <2>3, <2>4, <2>5, <2>6, <2>7
<1>. QED  BY <1>3, <1>4

(* The responses still to be read are those of the latest commands in their
   order: one for the command that waits, and one more for every command that
   was cancelled over this connection. *)
THEOREM ResponsesShifted == Spec => []ShiftedByCancels
<1>1. Init => ShiftInv
  <2> SUFFICES ASSUME Init
               PROVE  CancelsCounted /\ ShiftedByCancels
    BY PairInvInit DEF ShiftInv
  <2>1. CancelsCounted
    BY FS_EmptySet DEF Init, CancelsCounted
  <2>2. Underway = <<>>
    BY UnderwayNone, CommandTypes DEF Init
  <2>3. Cardinality(abandoned) + (IF state = "RECEIVE" THEN 1 ELSE 0) = 0
    BY FS_EmptySet DEF Init
  <2>. QED  BY <2>1, <2>2, <2>3, EmptySeq DEF ShiftedByCancels
<1>2. ShiftInv /\ [Next]_vars => ShiftInv'
  <2> SUFFICES ASSUME ShiftInv, [Next]_vars
               PROVE  ShiftInv'
    OBVIOUS
  <2>1. PairInv' /\ CancelsCounted'
    BY PairInvStep, CancelsCountedStep DEF ShiftInv, PairInv, StreamInv
  <2>2. ShiftedByCancels'
    BY ShiftStep DEF ShiftedByCancels, LatestUnderway, Shift
  <2>. QED  BY <2>1, <2>2 DEF ShiftInv
<1>3. ShiftInv => ShiftedByCancels
  BY DEF ShiftInv
<1>. QED  BY <1>1, <1>2, <1>3, PTL DEF Spec
-----------------------------------------------------------------------------
(* The context is a TCTI.                                                   *)

(* Every step of context, simulator and connections is a step of a TCTI, or
   none. *)
LEMMA TctiStep ==
  ASSUME PairInv, [Next]_vars
  PROVE  [Fifo!Next]_Fifo!vars
<1>1. CASE Transmit
  <2>1. Underway' = IF tpm_sock = "open" THEN Append(Underway, sent') ELSE Underway
    BY <1>1, TransmitUnderway, TypeStep DEF PairInv, StreamInv, Transmit
  <2>2. Fifo!Transmit
    BY <1>1, <2>1 DEF Transmit, NewCommand, Alive, Fifo!Transmit
  <2>. QED  BY <2>2 DEF Fifo!Next
<1>2. CASE ReceiveResponse
  <2>1. Underway # <<>> /\ Head(Underway) = fromSim[Unread - 1].cmd /\ Underway' = Tail(Underway)
    BY <1>2, ReceiveResponseUnderway DEF PairInv
  <2>2. Fifo!Receive \/ Fifo!ReceiveFails
    BY <1>2, <2>1 DEF ReceiveResponse, Alive, Fifo!Receive, Fifo!ReceiveFails
  <2>. QED  BY <2>2 DEF Fifo!Next
<1>3. CASE ReceiveFails
  <2>1. Underway' = <<>>
    BY <1>3, EndUnderway DEF PairInv
  <2>2. Fifo!ReceiveFails
    BY <1>3, <2>1 DEF ReceiveFails, Alive, history, Fifo!ReceiveFails
  <2>. QED  BY <2>2 DEF Fifo!Next
<1>4. CASE Cancel
  <2>1. Underway' = Underway
    BY <1>4, UnderwaySame DEF Cancel
  <2>2. Fifo!Cancel
    BY <1>4, <2>1 DEF Cancel, Alive, Fifo!Cancel
  <2>. QED  BY <2>2 DEF Fifo!Next
<1>5. ASSUME NEW l \in Localities, SetLocality(l)
      PROVE  Fifo!Next
  <2>1. Underway' = Underway
    BY <1>5, UnderwaySame DEF SetLocality
  <2>2. Fifo!SetLocality
    BY <1>5, <2>1 DEF SetLocality, Alive, history, Fifo!SetLocality
  <2>. QED  BY <2>2 DEF Fifo!Next
<1>6. CASE Finalize
  <2>1. Underway' = <<>>
    BY <1>6, EndUnderway DEF PairInv
  <2>2. state # "FINAL"
    BY DEF PairInv, StreamInv, TypeOK
  <2>3. Fifo!Finalize
    BY <1>6, <2>1, <2>2 DEF Finalize, Alive, context, history, Fifo!Finalize
  <2>. QED  BY <2>3 DEF Fifo!Next
<1>7. CASE Initialize
  <2>1. Underway' = <<>> /\ Underway = <<>>
    BY <1>7, EndUnderway DEF PairInv
  <2>2. Fifo!Initialize
    BY <1>7, <2>1 DEF Initialize, Alive, Fifo!Initialize
  <2>. QED  BY <2>2 DEF Fifo!Next
<1>8. CASE ConnectionLost
  <2>1. \E n \in 0..Len(Underway) : Underway' = SubSeq(Underway, 1, n)
    BY <1>8, ConnectionLostUnderway DEF PairInv
  <2>2. Fifo!ConnectionLost
    BY <1>8, <2>1 DEF ConnectionLost, Alive, context, history, Fifo!ConnectionLost
  <2>. QED  BY <2>2 DEF Fifo!Next
<1>9. CASE ReceiveSize \/ CancelFails \/ SimReads \/ SimAnswers \/ UNCHANGED vars
  <2>1. Underway' = Underway
    <3>1. StreamInv
      BY DEF PairInv
    <3>2. CancelFails \/ UNCHANGED vars => UNCHANGED <<fromSim, toSim, sim>>
      BY DEF CancelFails, vars
    <3>. QED  BY <1>9, <3>1, <3>2, ReceiveSizeUnderway, SimReadsUnderway, SimAnswersUnderway,
                 UnderwaySame
  <2>2. UNCHANGED <<state, locality, tpm_sock, sent, answered>>
    BY <1>9 DEF ReceiveSize, CancelFails, SimReads, SimAnswers, vars, context, history
  <2>. QED  BY <2>1, <2>2 DEF Alive, Fifo!vars
<1>. QED  BY <1>1, <1>2, <1>3, <1>4, <1>5, <1>6, <1>7, <1>8, <1>9 DEF Next, Receive, Simulator

(* The context and its simulator implement the abstract TCTI: responses come
   back in the order of the commands, each of them once and for the locality of
   its command. *)
THEOREM MssimIsTcti == Spec => IsTcti
<1>1. Init => Fifo!Init
  <2> SUFFICES ASSUME Init
               PROVE  Fifo!Init
    OBVIOUS
  <2>1. Underway = <<>>
    BY UnderwayNone, CommandTypes DEF Init
  <2>. QED  BY <2>1 DEF Init, Alive, NoCommand, Fifo!Init, Fifo!NoCommand
<1>2. PairInv /\ [Next]_vars => PairInv'
  BY PairInvStep
<1>3. PairInv /\ [Next]_vars => [Fifo!Next]_Fifo!vars
  BY TctiStep
<1>. QED  BY <1>1, <1>2, <1>3, PairInvInit, PTL DEF Spec, IsTcti, Fifo!Spec
=============================================================================
