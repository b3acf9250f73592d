-------------------------- MODULE TctiDeviceProofs --------------------------
(***************************************************************************)
(* Proofs about TctiDevice: its types, that context and driver agree, and  *)
(* that the context is a TCTI as module Tcti describes it.                 *)
(***************************************************************************)
EXTENDS TctiDevice, SequenceTheorems, TLAPS

(* A descriptor that is not open has no driver state, and it is closed exactly
   in the state FINAL. *)
Closed ==
  /\ fd # "open" => driver = Empty
  /\ fd = "closed" <=> state = "FINAL"

(* Every step keeps the types. *)
LEMMA TypeStep ==
  ASSUME TypeOK, [Next]_vars
  PROVE  TypeOK'
<1>1. sent.number + 1 \in Nat
  BY DEF TypeOK, Command
<1>2. CASE Transmit
  <2>1. sent' = [number |-> sent.number + 1, locality |-> sent.locality]
    BY <1>2 DEF Transmit, TypeOK, Command
  <2>2. sent' \in Command
    BY <1>1, <2>1 DEF TypeOK, Command
  <2>. QED  BY <1>2, <2>2 DEF Transmit, TypeOK
<1>3. CASE Receive
  BY <1>3 DEF Receive, ReceiveResponse, ReceiveUnusable, ReceiveEndOfFile, TypeOK,
              Empty, NoCommand, Command
<1>4. CASE ReceiveTimesOut \/ ReceiveErrs \/ UNCHANGED vars
  BY <1>4 DEF ReceiveTimesOut, ReceiveErrs, vars, TypeOK, Empty, NoCommand, Command
<1>5. CASE Finalize \/ Initialize \/ HangUp
  BY <1>5 DEF Finalize, Initialize, HangUp, TypeOK, Empty, NoCommand, Command
<1>6. CASE DriverAnswers
  BY <1>6 DEF DriverAnswers, TypeOK
<1>. QED  BY <1>2, <1>3, <1>4, <1>5, <1>6 DEF Next

(* TypeOK holds in every reachable state, with read errors and without. *)
THEOREM TypeCorrect == Spec => []TypeOK
<1>1. Init => TypeOK
  BY DEF Init, TypeOK, Empty, NoCommand, Command
<1>2. TypeOK /\ [Next]_vars => TypeOK'
  BY TypeStep
<1>. QED  BY <1>1, <1>2, PTL DEF Spec

(* Every step of a device whose reads do not fail keeps context and driver in
   agreement, and the descriptor as Closed says. *)
LEMMA AgreementStep ==
  ASSUME ~ReadErrors, TypeOK, DriverAgrees, Closed, [Next]_vars
  PROVE  DriverAgrees' /\ Closed'
<1>1. CASE Transmit
  BY <1>1 DEF Transmit, DriverAgrees, Closed
<1>2. CASE Receive
  BY <1>2 DEF Receive, ReceiveResponse, ReceiveUnusable, ReceiveEndOfFile,
              DriverAgrees, Closed, Empty
<1>3. CASE ReceiveTimesOut \/ ReceiveErrs \/ UNCHANGED vars
  BY <1>3 DEF ReceiveTimesOut, ReceiveErrs, vars, DriverAgrees, Closed
<1>4. CASE Finalize \/ Initialize \/ HangUp
  BY <1>4 DEF Finalize, Initialize, HangUp, DriverAgrees, Closed, Empty
<1>5. CASE DriverAnswers
  BY <1>5 DEF DriverAnswers, TypeOK, DriverAgrees, Closed, Empty
<1>. QED  BY <1>1, <1>2, <1>3, <1>4, <1>5 DEF Next

(* While the device is there, the context waits for a response exactly while
   the driver holds a command or its response. *)
THEOREM DriverInAgreement ==
  ASSUME ~ReadErrors
  PROVE  Spec => []DriverAgrees
<1>1. Init => DriverAgrees /\ Closed
  BY DEF Init, DriverAgrees, Closed, Empty
<1>2. TypeOK /\ DriverAgrees /\ Closed /\ [Next]_vars => DriverAgrees' /\ Closed'
  BY AgreementStep
<1>. QED  BY <1>1, <1>2, TypeCorrect, PTL DEF Spec
-----------------------------------------------------------------------------
(* The context is a TCTI.                                                   *)

(* One command appended to no command is a queue of one. *)
LEMMA AppendToNone ==
  ASSUME NEW e
  PROVE  Append(<<>>, e) = <<e>>
<1>1. <<>> \in Seq({e})
  OBVIOUS
<1>2. /\ Append(<<>>, e) \in Seq({e})
      /\ Len(Append(<<>>, e)) = 1 /\ Append(<<>>, e)[1] = e
  BY <1>1, AppendProperties
<1>3. /\ <<e>> \in Seq({e}) /\ Len(<<e>>) = 1 /\ <<e>>[1] = e
  OBVIOUS
<1>. QED  BY <1>2, <1>3, SeqEqual

(* Every step of the device is a step of a TCTI, or none. *)
LEMMA TctiStep ==
  ASSUME ~ReadErrors, TypeOK, DriverAgrees, Closed, [Next]_vars
  PROVE  [Fifo!Next]_Fifo!vars
<1> DEFINE queue == IF driver.stage = "idle" THEN <<>> ELSE <<driver.cmd>>
<1>1. CASE Transmit
  <2>1. queue = <<>> /\ queue' = <<sent'>>
    BY <1>1 DEF Transmit
  <2>2. Append(queue, sent') = <<sent'>>
    BY <2>1, AppendToNone
  <2>3. sent' = [number |-> sent.number + 1, locality |-> 3]
    BY <1>1 DEF Transmit, TypeOK, Command
  <2>4. Fifo!Transmit
    BY <1>1, <2>1, <2>2, <2>3 DEF Transmit, Fifo!Transmit
  <2>. QED  BY <2>4 DEF Fifo!Next
<1>2. CASE ReceiveResponse
  <2>1. Fifo!Receive
    BY <1>2 DEF ReceiveResponse, Fifo!Receive, Empty
  <2>. QED  BY <2>1 DEF Fifo!Next
<1>3. CASE ReceiveUnusable \/ ReceiveEndOfFile
  <2>1. Fifo!ReceiveFails
    BY <1>3 DEF ReceiveUnusable, ReceiveEndOfFile, Closed, Fifo!ReceiveFails, Empty
  <2>. QED  BY <2>1 DEF Fifo!Next
<1>4. CASE ReceiveTimesOut \/ ReceiveErrs \/ UNCHANGED vars
  BY <1>4 DEF ReceiveTimesOut, ReceiveErrs, vars, Fifo!vars
<1>5. CASE DriverAnswers
  BY <1>5 DEF DriverAnswers, TypeOK, Fifo!vars
<1>6. CASE Finalize
  <2>1. Fifo!Finalize
    BY <1>6 DEF Finalize, Fifo!Finalize, Empty
  <2>. QED  BY <2>1 DEF Fifo!Next
<1>7. CASE Initialize
  <2>1. Fifo!Initialize
    BY <1>7 DEF Initialize, Fifo!Initialize
  <2>. QED  BY <2>1 DEF Fifo!Next
<1>8. CASE HangUp
  <2>1. queue' = <<>>
    BY <1>8 DEF HangUp, Empty
  <2>2. 0 \in 0..Len(queue) /\ SubSeq(queue, 1, 0) = <<>>
    OBVIOUS
  <2>3. Fifo!ConnectionLost
    BY <1>8, <2>1, <2>2 DEF HangUp, Fifo!ConnectionLost
  <2>. QED  BY <2>3 DEF Fifo!Next
<1>. QED  BY <1>1, <1>2, <1>3, <1>4, <1>5, <1>6, <1>7, <1>8 DEF Next, Receive

(* The device implements the abstract TCTI: responses come back once, in the
   order of the commands. *)
THEOREM DeviceIsTcti ==
  ASSUME ~ReadErrors
  PROVE  Spec => IsTcti
<1>1. Init => Fifo!Init
  BY DEF Init, Fifo!Init, Empty, NoCommand, Fifo!NoCommand
<1>2. Init => DriverAgrees /\ Closed
  BY DEF Init, DriverAgrees, Closed, Empty
<1>3. TypeOK /\ DriverAgrees /\ Closed /\ [Next]_vars => DriverAgrees' /\ Closed'
  BY AgreementStep
<1>4. TypeOK /\ DriverAgrees /\ Closed /\ [Next]_vars => [Fifo!Next]_Fifo!vars
  BY TctiStep
<1>. QED  BY <1>1, <1>2, <1>3, <1>4, TypeCorrect, PTL DEF Spec, IsTcti, Fifo!Spec
=============================================================================
