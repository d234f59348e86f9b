---------------------------- MODULE MCDiagnostic ----------------------------
(* The device of the entry, which may come back on another port, another one *)
(* at its address, and itself after a reset to an unprotected firmware.      *)
EXTENDS Diagnostic

Dev(n, u, s) == [port |-> n, uid |-> u, protected |-> s]
Answering == {Dev(1, "own", TRUE), Dev(2, "own", TRUE), Dev(1, "other", TRUE),
              Dev(1, "own", FALSE)}
Casts == {{"ring", "command"}, {"media", "flow"}, {"diag", "command"}}
=============================================================================
