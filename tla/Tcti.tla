------------------------------- MODULE Tcti -------------------------------
(***************************************************************************)
(* What a TCTI context promises to the layer above: commands go out one at *)
(* a time, and responses come back in the order of the commands, each one  *)
(* once and for the locality that was set when its command was sent.  A    *)
(* cancelled command frees the context at once while its response is still *)
(* on the way.  The states are those of tcti_state_t, the guards those of  *)
(* the tcti_common_*_checks.                                               *)
(***************************************************************************)
EXTENDS Naturals, Sequences

CONSTANTS
  Localities,
  FirstLocality,   \* the locality of a new context
  Cancels          \* does this TCTI implement cancel?

VARIABLES
  state,           \* TSS2_TCTI_COMMON_CONTEXT.state
  locality,        \* TSS2_TCTI_COMMON_CONTEXT.locality
  connected,       \* is there somebody at the other end?
  underway,        \* the commands whose responses are still to be read
  sent,            \* the last command transmitted
  answered         \* the command whose response was received last

vars == <<state, locality, connected, underway, sent, answered>>

Command   == [number : Nat, locality : Localities]
NoCommand == [number |-> 0, locality |-> FirstLocality]

Init ==
  /\ state = "TRANSMIT" /\ locality = FirstLocality
  /\ connected = TRUE /\ underway = <<>>
  /\ sent = NoCommand /\ answered = NoCommand

(* A command written to a connection already lost goes nowhere. *)
Transmit ==
  /\ state = "TRANSMIT" /\ state' = "RECEIVE"
  /\ sent' = [number |-> sent.number + 1, locality |-> locality]
  /\ underway' = IF connected THEN Append(underway, sent') ELSE underway
  /\ UNCHANGED <<locality, connected, answered>>

Receive ==
  /\ state = "RECEIVE" /\ state' = "TRANSMIT"
  /\ underway # <<>>
  /\ answered' = Head(underway) /\ underway' = Tail(underway)
  /\ UNCHANGED <<locality, connected, sent>>

(* A receive that fails consumes a response, or meets the end of the stream. *)
ReceiveFails ==
  /\ state = "RECEIVE" /\ state' = "TRANSMIT"
  /\ \/ underway # <<>> /\ underway' = Tail(underway)
     \/ ~connected /\ underway' = <<>>
  /\ UNCHANGED <<locality, connected, sent, answered>>

Cancel ==
  /\ Cancels /\ state = "RECEIVE" /\ state' = "TRANSMIT"
  /\ UNCHANGED <<locality, connected, underway, sent, answered>>

SetLocality ==
  /\ state = "TRANSMIT" /\ locality' \in Localities
  /\ UNCHANGED <<state, connected, underway, sent, answered>>

ConnectionLost ==
  /\ connected' = FALSE
  /\ \E n \in 0..Len(underway) : underway' = SubSeq(underway, 1, n)
  /\ UNCHANGED <<state, locality, sent, answered>>

Finalize ==
  /\ state # "FINAL" /\ state' = "FINAL"
  /\ connected' = FALSE /\ underway' = <<>>
  /\ UNCHANGED <<locality, sent, answered>>

(* A new context over a new connection. *)
Initialize ==
  /\ state = "FINAL" /\ state' = "TRANSMIT"
  /\ locality' = FirstLocality /\ connected' = TRUE
  /\ UNCHANGED <<underway, sent, answered>>

Next ==
  \/ Transmit \/ Receive \/ ReceiveFails \/ Cancel \/ SetLocality
  \/ ConnectionLost \/ Finalize \/ Initialize

Spec == Init /\ [][Next]_vars
=============================================================================
