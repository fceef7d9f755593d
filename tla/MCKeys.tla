------------------------------- MODULE MCKeys -------------------------------
(***************************************************************************)
(* A deck with one task key and a mic key, a codex-hid card and a session  *)
(* of a desktop app: of ZCode, on the primary controller without a serial  *)
(* link, or of Hermes, on an auxiliary controller with one.                *)
(***************************************************************************)
EXTENDS Keys

MCApps == <<"zcode", "hermes">>
MCSetups == {<<"zcode", FALSE, TRUE>>, <<"hermes", TRUE, FALSE>>}
=============================================================================
