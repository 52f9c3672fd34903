--------------------------- MODULE MCPluginCache ---------------------------
(* Instances of PluginCache for TLC. *)
EXTENDS PluginCache, TLC
=============================================================================
