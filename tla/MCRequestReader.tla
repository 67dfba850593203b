-------------------------- MODULE MCRequestReader --------------------------
(***************************************************************************)
(* RequestReader on a small instance: the request listener, which iterates *)
(* without a timeout and never leaves its reader, and an invocation, which *)
(* polls and is a context manager.  Both want every line, which gives the  *)
(* event loop the most to do; what filters keep apart is checked where     *)
(* they come from, in BackwardsInvocation.                                 *)
(***************************************************************************)
EXTENDS RequestReader, TLC

CONSTANTS listener, invocation, line

MCReaders == {listener, invocation}
MCKinds == {line}
MCWants == [r \in MCReaders |-> MCKinds]
MCTimed == {invocation}
MCScoped == {invocation}
=============================================================================
