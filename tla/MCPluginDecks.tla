--------------------------- MODULE MCPluginDecks ---------------------------
(***************************************************************************)
(* An instance of PluginDecks: two plugin processes, two connections they  *)
(* share, and a deck of the daemon's own.                                  *)
(***************************************************************************)
EXTENDS PluginDecks

CONSTANTS s1, s2, p1, p2, w1

MCSessions == {s1, s2}
MCPlugins == {p1, p2}
MCWishes == {w1}
=============================================================================
