--------------------------- MODULE MCPluginServer ---------------------------
(***************************************************************************)
(* PluginServer with a tool whose handler calls a model of the same        *)
(* plugin, whose handler calls another one: over a stream, three requests  *)
(* that need a worker each at the same time.                               *)
(***************************************************************************)
EXTENDS PluginServer, TLC

CONSTANTS tool, model, embedding

MCRequests == {tool, model, embedding}
MCServes == (tool :> None) @@ (model :> tool) @@ (embedding :> model)
=============================================================================
