---------------------------- MODULE MCSerialLink -----------------------------
(***************************************************************************)
(* An instance of SerialLink that runs either loop.                        *)
(***************************************************************************)
EXTENDS SerialLink

MCModes == {"daemon", "mcp"}
=============================================================================
