--------------------------- MODULE MCSysContext ---------------------------
(* Instances of SysContext: a command for every form a command takes. *)
EXTENDS SysContext

Form(c) == [c EXCEPT !.name = <<GetNumCommandHandles(c.name), c.name \in Structured>>]
Forms   == {CHOOSE c \in AllCommands : Form(c) = f : f \in {Form(c) : c \in AllCommands}}

MCLater == {Load, NV_Write, Startup}
MCSizes == {2, 3, 6}
=============================================================================
