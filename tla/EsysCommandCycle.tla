-------------------------- MODULE EsysCommandCycle --------------------------
(***************************************************************************)
(* What an ESYS_CONTEXT promises the application about its commands: one   *)
(* at a time, each either delivered or lost together with the context, and *)
(* nothing but the very same command retried, a bounded number of times.   *)
(***************************************************************************)
EXTENDS Naturals

CONSTANTS Jobs, NoJob, MaxAttempts

VARIABLES phase, job, attempts

vars == <<phase, job, attempts>>

Init == phase = "idle" /\ job = NoJob /\ attempts = 0

Free(p) == phase' = p /\ job' = NoJob /\ attempts' = 0

Submit ==
  /\ phase = "idle"
  /\ phase' = "pending" /\ job' \in Jobs /\ attempts' = 1

Retry ==
  /\ phase = "pending" /\ attempts < MaxAttempts
  /\ attempts' = attempts + 1
  /\ UNCHANGED <<phase, job>>

Deliver == phase = "pending" /\ Free("idle")

(* The context becomes unusable, while or before a command is sent. *)
Break == phase # "dead" /\ Free("dead")

(* A new context. *)
Renew == Free("idle")

Next == Submit \/ Retry \/ Deliver \/ Break \/ Renew

Spec == Init /\ [][Next]_vars
=============================================================================
