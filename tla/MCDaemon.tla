----------------------------- MODULE MCDaemon -------------------------------
(***************************************************************************)
(* Instances of Sessions.                                                  *)
(***************************************************************************)
EXTENDS Sessions

MCOneAgent == {ZCode}
MCHosts == {Hermes}
MCNone == {}
=============================================================================
