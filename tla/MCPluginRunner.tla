-------------------------- MODULE MCPluginRunner --------------------------
(***************************************************************************)
(* Two invokers with requests of two pieces, a pipe for one.               *)
(***************************************************************************)
EXTENDS PluginRunner

CONSTANTS i1, i2

MCInvokers == {i1, i2}
=============================================================================
