----------------------------- MODULE TctiDevice -----------------------------
(***************************************************************************)
(* The TCTI of the kernel's TPM device: one context, its file descriptor   *)
(* and the driver behind it, which keeps one command or its response until *)
(* that is read in one read().  Cancel and SetLocality are refused by this *)
(* TCTI, and a size query answers 4096: none of them changes anything.     *)
(***************************************************************************)
EXTENDS Integers, Sequences

CONSTANTS
  MaxCommands,     \* bound: the commands of a behaviour
  HangUps,         \* may the device go away?
  ReadErrors       \* may read() fail?

ASSUME DeviceAssumption ==
  MaxCommands \in Nat /\ HangUps \in BOOLEAN /\ ReadErrors \in BOOLEAN

VARIABLES
  state,           \* TSS2_TCTI_COMMON_CONTEXT.state
  fd,              \* TSS2_TCTI_DEVICE_CONTEXT.fd
  driver,          \* what the driver holds for this descriptor
  sent,            \* the last command transmitted
  answered         \* the command whose response was received last

vars == <<state, fd, driver, sent, answered>>

Command   == [number : Nat, locality : {3}]
NoCommand == [number |-> 0, locality |-> 3]
Empty     == [stage |-> "idle", cmd |-> NoCommand]

TypeOK ==
  /\ state \in {"FINAL", "TRANSMIT", "RECEIVE"}
  /\ fd \in {"open", "lost", "closed"}
  /\ driver \in [stage : {"idle", "execute", "response"}, cmd : Command]
  /\ sent \in Command /\ answered \in Command

Init ==
  /\ state = "TRANSMIT" /\ fd = "open" /\ driver = Empty
  /\ sent = NoCommand /\ answered = NoCommand
-----------------------------------------------------------------------------
(* The driver takes one command at a time; a write it refuses changes nothing. *)
Transmit ==
  /\ state = "TRANSMIT" /\ fd = "open" /\ driver.stage = "idle"
  /\ sent.number < MaxCommands
  /\ sent' = [sent EXCEPT !.number = @ + 1]
  /\ driver' = [stage |-> "execute", cmd |-> sent'] /\ state' = "RECEIVE"
  /\ UNCHANGED <<fd, answered>>

(* Mutant: the context is given up when the timeout expires. *)
ReceiveTimesOut_GivesUp ==
  /\ state = "RECEIVE" /\ fd = "open" /\ driver.stage # "response"
  /\ state' = "TRANSMIT" /\ UNCHANGED <<fd, driver, sent, answered>>
(* TRY_AGAIN. *)
ReceiveTimesOut ==
  /\ state = "RECEIVE" /\ fd = "open" /\ driver.stage # "response"
  /\ UNCHANGED vars

ReceiveResponse ==
  /\ state = "RECEIVE" /\ fd = "open" /\ driver.stage = "response"
  /\ answered' = driver.cmd /\ driver' = Empty /\ state' = "TRANSMIT"
  /\ UNCHANGED <<fd, sent>>

(* Mutant: a response that cannot be used returns at once. *)
ReceiveUnusable_Returns ==
  /\ state = "RECEIVE" /\ fd = "open" /\ driver.stage = "response"
  /\ driver' = Empty
  /\ UNCHANGED <<state, fd, sent, answered>>
(* Less than a header, or more than the caller's buffer holds. *)
ReceiveUnusable ==
  /\ state = "RECEIVE" /\ fd = "open" /\ driver.stage = "response"
  /\ driver' = Empty /\ state' = "TRANSMIT"
  /\ UNCHANGED <<fd, sent, answered>>

ReceiveEndOfFile ==
  /\ state = "RECEIVE" /\ fd = "lost"
  /\ state' = "TRANSMIT" /\ UNCHANGED <<fd, driver, sent, answered>>

(* poll() fails, or read() reports what went wrong with the command and the
   driver is free again: the state stays. *)
ReceiveErrs ==
  /\ state = "RECEIVE" /\ fd = "open"
  /\ driver' \in IF ReadErrors /\ driver.stage = "response"
                  THEN {driver, Empty} ELSE {driver}
  /\ UNCHANGED <<state, fd, sent, answered>>

Finalize ==
  /\ state # "FINAL" /\ state' = "FINAL"
  /\ fd' = "closed" /\ driver' = Empty
  /\ UNCHANGED <<sent, answered>>

Initialize ==
  /\ state = "FINAL" /\ state' = "TRANSMIT" /\ fd' = "open"
  /\ UNCHANGED <<driver, sent, answered>>

DriverAnswers ==
  /\ driver.stage = "execute" /\ driver' = [driver EXCEPT !.stage = "response"]
  /\ UNCHANGED <<state, fd, sent, answered>>

HangUp ==
  /\ HangUps /\ fd = "open" /\ fd' = "lost" /\ driver' = Empty
  /\ UNCHANGED <<state, sent, answered>>

Receive == ReceiveResponse \/ ReceiveUnusable \/ ReceiveEndOfFile

Next ==
  \/ Transmit \/ Receive \/ ReceiveTimesOut \/ ReceiveErrs
  \/ Finalize \/ Initialize \/ DriverAnswers \/ HangUp

(* The driver answers every command, and an application that has sent one
   receives in the end. *)
Spec == Init /\ [][Next]_vars /\ WF_vars(DriverAnswers) /\ WF_vars(Receive)
-----------------------------------------------------------------------------
(* The context waits for a response exactly while the driver holds a command
   or its response: neither waits for what will not come, nor sends into a
   driver that is busy. *)
DriverAgrees ==
  fd = "open" => (state = "RECEIVE") = (driver.stage # "idle")

(* Every command that was sent is answered, or fails. *)
EveryCommandEnds == (state = "RECEIVE") ~> (state # "RECEIVE")

(* The context is a TCTI. *)
Fifo == INSTANCE Tcti WITH
          Localities <- {3}, FirstLocality <- 3, locality <- 3, Cancels <- FALSE,
          connected  <- fd = "open",
          underway   <- IF driver.stage = "idle" THEN <<>> ELSE <<driver.cmd>>
IsTcti == Fifo!Spec

(* tcti-common.h: a receive that fails, otherwise than by its arguments or by a
   timeout, leaves the state TRANSMIT; so does one that succeeds, and a context
   never waits for a response that was taken out. *)
FailureFreesContext ==
  [][ driver.stage = "response" /\ driver'.stage = "idle" => state' # "RECEIVE" ]_vars
=============================================================================
