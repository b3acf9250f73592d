----------------------------- MODULE TctiMssim -----------------------------
(***************************************************************************)
(* The TCTI of the TPM simulator: one context, its two TCP connections and *)
(* the simulator.  Over the first, a command travels as a setup message    *)
(* (with the locality) and the command itself, a response as its size, the *)
(* response and four zero bytes.  Over the second, the platform commands   *)
(* switch the simulator's cancel flag.  Every action is one call of the    *)
(* TCTI, one step of the simulator or the loss of a connection.  A write   *)
(* that fails is taken for the loss of its connection.                     *)
(***************************************************************************)
EXTENDS Integers, Sequences, FiniteSets

CONSTANTS
  Localities,
  FirstLocality,   \* the locality of a new context
  MaxCommands,     \* bound: the commands of a behaviour
  Faults           \* may the connections be lost?

ASSUME MssimAssumption ==
  /\ FirstLocality \in Localities
  /\ MaxCommands \in Nat /\ Faults \in BOOLEAN

VARIABLES
  state,           \* TSS2_TCTI_COMMON_CONTEXT.state
  sized,           \* is TSS2_TCTI_COMMON_CONTEXT.header.size set?
  locality,        \* TSS2_TCTI_COMMON_CONTEXT.locality
  cancel,          \* TSS2_TCTI_MSSIM_CONTEXT.cancel
  tpm_sock,        \* the connection of tpm_sock
  platform_sock,   \* the connection of platform_sock
  toSim, fromSim,  \* the two directions of tpm_sock
  sim,             \* what the simulator does with the TPM connection
  cancelOn,        \* the simulator's cancel flag
  sent,            \* the last command transmitted
  answered,        \* the command whose response was received last
  abandoned        \* numbers of the commands cancelled over this connection

context == <<state, sized, locality, cancel>>
history == <<sent, answered, abandoned>>
vars == <<context, tpm_sock, platform_sock, toSim, fromSim, sim, cancelOn, history>>

Command   == [number : Nat, locality : Localities]
NoCommand == [number |-> 0, locality |-> FirstLocality]
Message(kind, cmd) == [kind |-> kind, cmd |-> cmd]
Idle == [stage |-> "setup", cmd |-> NoCommand]

TypeOK ==
  /\ state \in {"TRANSMIT", "RECEIVE"} /\ sized \in BOOLEAN
  /\ locality \in Localities /\ cancel \in BOOLEAN
  /\ tpm_sock \in {"open", "lost", "closed"}
  /\ platform_sock \in {"open", "lost", "closed"}
  /\ toSim \in Seq([kind : {"setup", "command"}, cmd : Command])
  /\ fromSim \in Seq([kind : {"size", "response", "zeros"}, cmd : Command])
  /\ sim \in [stage : {"setup", "command", "execute"}, cmd : Command]
  /\ cancelOn \in BOOLEAN
  /\ sent \in Command /\ answered \in Command /\ abandoned \subseteq Nat

(* tcti_mssim_init_context_data, after the sockets are connected. *)
Init ==
  /\ state = "TRANSMIT" /\ sized = FALSE /\ locality = FirstLocality
  /\ cancel \in BOOLEAN
  /\ tpm_sock = "open" /\ platform_sock = "open"
  /\ toSim = <<>> /\ fromSim = <<>> /\ sim = Idle /\ cancelOn = FALSE
  /\ sent = NoCommand /\ answered = NoCommand /\ abandoned = {}
-----------------------------------------------------------------------------
(* Calls of the TCTI.                                                       *)

Alive == tpm_sock # "closed"
NewCommand == [number |-> sent.number + 1, locality |-> locality]

(* Mutant: the setup message is forgotten. *)
Request_NoSetup(cmd) == <<Message("command", cmd)>>
(* send_sim_cmd_setup, then the command. *)
Request(cmd) == <<Message("setup", cmd), Message("command", cmd)>>

(* Mutant: the state is not checked. *)
Transmit_Unchecked ==
  /\ Alive /\ sent.number < MaxCommands
  /\ state' = "RECEIVE" /\ sent' = NewCommand
  /\ toSim' = IF tpm_sock = "open" THEN toSim \o Request(NewCommand) ELSE toSim
  /\ UNCHANGED <<sized, locality, cancel, tpm_sock, platform_sock, fromSim, sim,
                 cancelOn, answered, abandoned>>
(* The writes succeed, if only into the buffers of a connection just lost;
   when they fail nothing changes. *)
Transmit ==
  /\ Alive /\ state = "TRANSMIT" /\ sent.number < MaxCommands
  /\ state' = "RECEIVE" /\ sent' = NewCommand
  /\ toSim' = IF tpm_sock = "open" THEN toSim \o Request(NewCommand) ELSE toSim
  /\ UNCHANGED <<sized, locality, cancel, tpm_sock, platform_sock, fromSim, sim,
                 cancelOn, answered, abandoned>>

(* Receive with a NULL buffer reads the size, once. *)
ReceiveSize ==
  /\ Alive /\ state = "RECEIVE" /\ ~sized /\ fromSim # <<>>
  /\ sized' = TRUE /\ fromSim' = Tail(fromSim)
  /\ UNCHANGED <<state, locality, cancel, tpm_sock, platform_sock, toSim, sim,
                 cancelOn, history>>

(* What receive reads: the size unless it is known, the response, the zeros. *)
Unread == IF sized THEN 2 ELSE 3

(* CANCEL_OFF after a cancelled command; its failure is that of receive.  The
   simulator is not known to refuse a platform command. *)
CancelOff(sock, on) ==
  IF ~cancel THEN sock = platform_sock /\ on = cancelOn
  ELSE platform_sock = "open" /\ sock = "open" /\ on = FALSE
CancelOffFails(sock, on) ==
  /\ cancel /\ Faults
  /\ sock = "lost"
  /\ on \in IF platform_sock = "open" THEN {cancelOn, FALSE} ELSE {cancelOn}

(* Mutant: the flag is cleared, the simulator's is not. *)
ReceiveResponse_KeepsCancelling ==
  /\ Alive /\ state = "RECEIVE" /\ Len(fromSim) >= Unread
  /\ state' = "TRANSMIT" /\ sized' = FALSE /\ cancel' = FALSE
  /\ fromSim' = SubSeq(fromSim, Unread + 1, Len(fromSim))
  /\ answered' = fromSim[Unread - 1].cmd
  /\ UNCHANGED <<locality, tpm_sock, platform_sock, cancelOn, toSim, sim, sent, abandoned>>
(* Mutant: the four zero bytes stay in the stream. *)
ReceiveResponse_NoZeros ==
  /\ Alive /\ state = "RECEIVE" /\ Len(fromSim) >= Unread
  /\ state' = "TRANSMIT" /\ sized' = FALSE /\ cancel' = FALSE
  /\ fromSim' = SubSeq(fromSim, Unread, Len(fromSim))
  /\ CancelOff(platform_sock', cancelOn')
  /\ answered' = fromSim[Unread - 1].cmd
  /\ UNCHANGED <<locality, tpm_sock, toSim, sim, sent, abandoned>>
(* The response is read; the cancel flag is cleared even if that fails. *)
ReceiveResponse ==
  /\ Alive /\ state = "RECEIVE" /\ Len(fromSim) >= Unread
  /\ state' = "TRANSMIT" /\ sized' = FALSE /\ cancel' = FALSE
  /\ fromSim' = SubSeq(fromSim, Unread + 1, Len(fromSim))
  /\ \/ /\ CancelOff(platform_sock', cancelOn')
        /\ answered' = fromSim[Unread - 1].cmd
     \/ /\ CancelOffFails(platform_sock', cancelOn')
        /\ UNCHANGED answered
  /\ UNCHANGED <<locality, tpm_sock, toSim, sim, sent, abandoned>>

(* End of file before the response is complete. *)
ReceiveFails ==
  /\ state = "RECEIVE" /\ tpm_sock = "lost" /\ Len(fromSim) < Unread
  /\ state' = "TRANSMIT" /\ sized' = FALSE /\ fromSim' = <<>>
  /\ UNCHANGED <<locality, cancel, tpm_sock, platform_sock, toSim, sim, cancelOn, history>>

(* Mutant: the size already read is forgotten. *)
Cancel_ClearsHeader ==
  /\ Alive /\ state = "RECEIVE" /\ platform_sock = "open"
  /\ state' = "TRANSMIT" /\ cancel' = TRUE /\ cancelOn' = TRUE /\ sized' = FALSE
  /\ abandoned' = abandoned \cup {sent.number}
  /\ UNCHANGED <<locality, tpm_sock, platform_sock, toSim, fromSim, sim,
                 sent, answered>>
(* The simulator is told to cancel; the context is free for another command. *)
Cancel ==
  /\ Alive /\ state = "RECEIVE" /\ platform_sock = "open"
  /\ state' = "TRANSMIT" /\ cancel' = TRUE /\ cancelOn' = TRUE
  /\ abandoned' = abandoned \cup {sent.number}
  /\ UNCHANGED <<sized, locality, tpm_sock, platform_sock, toSim, fromSim, sim,
                 sent, answered>>

(* CANCEL_ON, or the simulator's answer to it, is lost: an I/O error. *)
CancelFails ==
  /\ Alive /\ state = "RECEIVE" /\ platform_sock = "open" /\ Faults
  /\ platform_sock' = "lost" /\ cancelOn' \in {cancelOn, TRUE}
  /\ UNCHANGED <<context, tpm_sock, toSim, fromSim, sim, history>>

SetLocality(l) ==
  /\ Alive /\ state = "TRANSMIT" /\ l # locality /\ locality' = l
  /\ UNCHANGED <<state, sized, cancel, tpm_sock, platform_sock, toSim, fromSim, sim,
                 cancelOn, history>>

(* Both sockets are closed, the state of the context stays. *)
Finalize ==
  /\ Alive
  /\ tpm_sock' = "closed" /\ platform_sock' = "closed"
  /\ toSim' = <<>> /\ fromSim' = <<>> /\ sim' = Idle
  /\ UNCHANGED <<context, cancelOn, history>>

(* Tss2_Tcti_Mssim_Init of a new context: the simulator is powered on, its
   cancel flag stays as it was left.  tcti_mssim_init_context_data does not set
   the one of the context, which is whatever the caller's memory held. *)
Initialize ==
  /\ ~Alive
  /\ tpm_sock' = "open" /\ platform_sock' = "open"
  /\ state' = "TRANSMIT" /\ sized' = FALSE /\ locality' = FirstLocality
  /\ cancel' \in BOOLEAN /\ abandoned' = {}
  /\ UNCHANGED <<toSim, fromSim, sim, cancelOn, sent, answered>>
-----------------------------------------------------------------------------
(* The simulator, and the connections.                                      *)

SimReads ==
  /\ sim.stage \in {"setup", "command"} /\ toSim # <<>>
  /\ LET m == Head(toSim) IN
       /\ m.kind = sim.stage
       /\ sim' = IF m.kind = "setup" THEN [stage |-> "command", cmd |-> m.cmd]
                 ELSE [stage |-> "execute",
                       cmd |-> [m.cmd EXCEPT !.locality = sim.cmd.locality]]
  /\ toSim' = Tail(toSim)
  /\ UNCHANGED <<context, tpm_sock, platform_sock, fromSim, cancelOn, history>>

(* The TPM executes the command, or finds the cancel flag; either way there is
   one response. *)
SimAnswers ==
  /\ sim.stage = "execute"
  /\ fromSim' = fromSim \o [i \in 1..3 |->
                  Message(<<"size", "response", "zeros">>[i], sim.cmd)]
  /\ sim' = Idle
  /\ UNCHANGED <<context, tpm_sock, platform_sock, toSim, cancelOn, history>>

(* What the simulator has written may arrive, in whole or in part. *)
ConnectionLost ==
  /\ Faults /\ tpm_sock = "open" /\ tpm_sock' = "lost"
  /\ \E n \in 0..Len(fromSim) : fromSim' = SubSeq(fromSim, 1, n)
  /\ toSim' = <<>> /\ sim' = Idle
  /\ UNCHANGED <<context, platform_sock, cancelOn, history>>

Simulator == SimReads \/ SimAnswers
Receive   == ReceiveResponse \/ ReceiveFails

Next ==
  \/ Transmit \/ ReceiveSize \/ Receive \/ Cancel \/ CancelFails
  \/ \E l \in Localities : SetLocality(l)
  \/ Finalize \/ Initialize
  \/ Simulator \/ ConnectionLost

(* The simulator serves its connection, and an application that has sent a
   command receives in the end. *)
Spec == Init /\ [][Next]_vars /\ WF_vars(Simulator) /\ WF_vars(Receive)
-----------------------------------------------------------------------------
(* Properties.                                                              *)

(* The commands of the messages of a kind, in their order: the k-th is that of
   the message up to which there are k of them. *)
Places(s, kind)  == {i \in 1..Len(s) : s[i].kind = kind}
UpTo(s, kind, p) == Cardinality({q \in Places(s, kind) : q <= p})
CommandsIn(s, kind) ==
  [k \in 1..Cardinality(Places(s, kind)) |->
     s[CHOOSE p \in Places(s, kind) : UpTo(s, kind, p) = k].cmd]

(* The commands whose responses are still to be read, oldest first. *)
Underway ==
  CommandsIn(fromSim, "response")
    \o (IF sim.stage = "execute" THEN <<sim.cmd>> ELSE <<>>)
    \o CommandsIn(toSim, "command")

(* Both streams are read at the boundaries of messages, whatever was queried,
   cancelled or refused: header.size is set exactly while the size of the next
   response is read and the response is not. *)
Framed ==
  tpm_sock = "open" =>
    /\ sized = (fromSim # <<>> /\ Head(fromSim).kind = "response")
    /\ toSim # <<>> => (Head(toSim).kind = "command") = (sim.stage = "command")

(* The responses still to be read are those of the latest commands in their
   order: one for the command that waits, and one more for every command that
   was cancelled over this connection, whose responses nobody takes out. *)
ShiftedByCancels ==
  tpm_sock = "open" =>
    LET shift == Cardinality(abandoned) + (IF state = "RECEIVE" THEN 1 ELSE 0)
    IN  /\ Len(Underway) = shift
        /\ \A i \in 1..shift : Underway[i].number = sent.number - shift + i

(* No call leaves the simulator cancelling on behalf of a context that does not
   know it, unless the connection for CANCEL_OFF is lost or closed; a context
   made after that inherits the flag. *)
CancelUndone ==
  [][ cancelOn' /\ ~cancel' /\ Alive =>
        (cancelOn /\ ~cancel) \/ platform_sock' # "open" ]_vars

(* Every command that was sent is answered, or fails. *)
EveryCommandEnds == (state = "RECEIVE" /\ Alive) ~> (state = "TRANSMIT" \/ ~Alive)

(* The context is a TCTI: first in, first out, one command at a time. *)
Fifo == INSTANCE Tcti WITH
          Cancels   <- TRUE,
          state     <- IF Alive THEN state ELSE "FINAL",
          connected <- tpm_sock = "open",
          underway  <- Underway
IsTcti == Fifo!Spec
=============================================================================
