------------------------- MODULE MCEsysAllCommands -------------------------
(***************************************************************************)
(* The instance of EsysContext that stands for all 113 commands: two       *)
(* commands with the same profile behave alike, so one of each is issued.  *)
(***************************************************************************)
EXTENDS MCEsysContext

ASSUME ProfilesCovered ==
  { Table!ProfileOf(c) : c \in Table!AllCommands } = { Profile[c] : c \in Commands }
=============================================================================
