--------------------------- MODULE MCEsysContext ---------------------------
(***************************************************************************)
(* Small instances of EsysContext: the profiles come from the table of the *)
(* commands, the TPM has one handle of each range a run needs.             *)
(***************************************************************************)
EXTENDS EsysContext

CONSTANTS t1, t2, s1, n1, p1

Table == INSTANCE EsysCommands

MCProfile == [c \in Commands |-> Table!ProfileOf(c)]
MCKindOf  == [t \in TpmHandle |-> CASE t \in {t1, t2} -> "transient"
                                     [] t = s1 -> "session"
                                     [] t = n1 -> "nv"
                                     [] t = p1 -> "persistent"]
MCGlobals == {0}
MCNoGlobals == {}
=============================================================================
