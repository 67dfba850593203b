---------------------------- MODULE PluginServer ----------------------------
(***************************************************************************)
(* The server of a plugin (Plugin.__init__ in plugin.py).  The method of   *)
(* installation decides how requests come in and where their answers go:   *)
(* over one stream, on which the daemon multiplexes them (IOServer), or    *)
(* over HTTP, where every request has a response and a writer of its own   *)
(* (ServerlessResponse).                                                   *)
(***************************************************************************)
EXTENDS IOServer, ServerlessResponse

VARIABLE install_method  \* config.INSTALL_METHOD

serverVars == <<vars, responseVars, install_method>>

ServerInit ==
  /\ Init
  /\ ResponseInit
  /\ install_method \in {"local", "remote", "serverless"}

(***************************************************************************)
(* Only the reader of the method that was chosen is launched.              *)
(***************************************************************************)
StreamStep ==
  /\ install_method \in {"local", "remote"}
  /\ Next
  /\ UNCHANGED <<responseVars, install_method>>

ServerlessStep ==
  /\ install_method = "serverless"
  /\ ResponseNext
  /\ UNCHANGED <<vars, install_method>>

ServerNext == StreamStep \/ ServerlessStep

(***************************************************************************)
(* A step that the fairness of the other method speaks of is never         *)
(* enabled: nothing has come in for it.                                    *)
(***************************************************************************)
FairServerSpec ==
  ServerInit /\ [][ServerNext]_serverVars /\ Fairness /\ ResponseFairness
=============================================================================
