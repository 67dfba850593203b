------------------------------ MODULE IOServer ------------------------------
(***************************************************************************)
(* The server between the connection and the plugin's handlers             *)
(* (core/server/io_server.py and Plugin._execute_request in plugin.py): a  *)
(* listener takes the requests off its reader and submits them to a pool   *)
(* of MAX_WORKER workers; a worker runs the handler, streams what it       *)
(* yields, reports what it raises, and says that the request is over.      *)
(*                                                                         *)
(* A handler may call back into Dify, and Dify may serve that call with    *)
(* another request to this very plugin, which needs a worker of its own.   *)
(***************************************************************************)
EXTENDS Naturals, Sequences, FiniteSets

CONSTANTS
  Requests,    \* the requests
  Serves,      \* Serves[r]: the request whose invocation r serves, or None
  MaxWorkers,  \* MAX_WORKER
  MaxItems,    \* bound: the messages a handler yields
  None

ASSUME ServesAssumption ==
  /\ None \notin Requests
  /\ Serves \in [Requests -> Requests \cup {None}]
ASSUME WorkersAssumption == MaxWorkers \in Nat \ {0}
ASSUME ItemsAssumption == MaxItems \in Nat

VARIABLES
  listening,  \* the request reader has not been closed
  inbox,      \* the queue of the listener's FilterReader
  pool,       \* the work queue of the ThreadPoolExecutor
  rpc,        \* where each request is
  generator,  \* the handler's generator: "none", "open" or "closed"
  invoked,    \* the requests whose handler has called back
  out,        \* history: what was written for each request
  raised,     \* history: the requests whose execution raised
  lost        \* history: the requests for which a write raised

vars == <<listening, inbox, pool, rpc, generator, invoked, out, raised, lost>>
queueVars == <<listening, inbox, pool>>
historyVars == <<out, raised, lost>>

Running == {"dispatch", "stream", "invoke", "error", "end", "done"}

TypeOK ==
  /\ listening \in BOOLEAN
  /\ inbox \in Seq(Requests)
  /\ pool \in Seq(Requests)
  /\ rpc \in [Requests -> {"unsent", "inbox", "pool", "finished"} \cup Running]
  /\ generator \in [Requests -> {"none", "open", "closed"}]
  /\ invoked \subseteq Requests
  /\ out \in [Requests -> Seq({"stream", "error", "end"})]
  /\ raised \subseteq Requests
  /\ lost \subseteq Requests

Init ==
  /\ listening = TRUE
  /\ inbox = <<>>
  /\ pool = <<>>
  /\ rpc = [r \in Requests |-> "unsent"]
  /\ generator = [r \in Requests |-> "none"]
  /\ invoked = {}
  /\ out = [r \in Requests |-> <<>>]
  /\ raised = {}
  /\ lost = {}

Goto(r, pc) == rpc' = [rpc EXCEPT ![r] = pc]

-----------------------------------------------------------------------------
(* From the connection to the pool.                                        *)

(***************************************************************************)
(* The daemon sends a request, of its own or to serve an invocation.       *)
(***************************************************************************)
Arrive(r) ==
  /\ listening
  /\ rpc[r] = "unsent"
  /\ Serves[r] # None => rpc[Serves[r]] = "invoke"
  /\ inbox' = Append(inbox, r)
  /\ Goto(r, "inbox")
  /\ UNCHANGED <<listening, pool, generator, invoked, historyVars>>

(***************************************************************************)
(* _setup_instruction_listener: one turn of the loop.  What is queued when *)
(* the reader is closed is still submitted.                                *)
(***************************************************************************)
Submit ==
  /\ inbox # <<>>
  /\ inbox' = Tail(inbox)
  /\ pool' = Append(pool, Head(inbox))
  /\ Goto(Head(inbox), "pool")
  /\ UNCHANGED <<listening, generator, invoked, historyVars>>

CloseReader ==
  /\ listening
  /\ listening' = FALSE
  /\ UNCHANGED <<inbox, pool, rpc, generator, invoked, historyVars>>

(***************************************************************************)
(* A worker that is free takes the oldest work item.                       *)
(***************************************************************************)
Busy == {r \in Requests : rpc[r] \in Running}

Begin ==
  /\ pool # <<>>
  /\ Cardinality(Busy) < MaxWorkers
  /\ pool' = Tail(pool)
  /\ Goto(Head(pool), "dispatch")
  /\ UNCHANGED <<listening, inbox, generator, invoked, historyVars>>

-----------------------------------------------------------------------------
(* _execute_request_in_thread and _execute_request.                        *)

(***************************************************************************)
(* writer.session_message: the message is written, or the writer raises    *)
(* because the connection is gone.                                         *)
(***************************************************************************)
Written(r, m) == out' = [out EXCEPT ![r] = Append(@, m)] /\ lost' = lost
NotWritten(r) == out' = out /\ lost' = lost \cup {r}

(***************************************************************************)
(* The execution raises: the generator has been closed on the way out.     *)
(***************************************************************************)
RaiseOpen(r) ==
  \* mutant: no close() of the generator on the way out
  /\ Goto(r, "error")
  /\ raised' = raised \cup {r}
  /\ generator' = generator

Raise(r) ==
  /\ Goto(r, "error")
  /\ raised' = raised \cup {r}
  /\ generator' = [generator EXCEPT ![r] = IF @ = "open" THEN "closed" ELSE @]

(***************************************************************************)
(* dispatch: no route or no result, a single response, a generator, or an  *)
(* exception.                                                              *)
(***************************************************************************)
Dispatch(r) ==
  /\ rpc[r] = "dispatch"
  /\ \/ /\ Goto(r, "end")
        /\ UNCHANGED <<generator, historyVars>>
     \/ /\ Goto(r, "end")
        /\ Written(r, "stream")
        /\ UNCHANGED <<generator, raised>>
     \/ /\ Raise(r)
        /\ NotWritten(r)
     \/ /\ Goto(r, "stream")
        /\ generator' = [generator EXCEPT ![r] = "open"]
        /\ UNCHANGED historyVars
     \/ /\ Raise(r)
        /\ UNCHANGED <<out, lost>>
  /\ UNCHANGED <<queueVars, invoked>>

(***************************************************************************)
(* The generator yields a message, returns, or raises.                     *)
(***************************************************************************)
Stream(r) ==
  /\ rpc[r] = "stream"
  /\ \/ /\ Len(out[r]) < MaxItems
        /\ Written(r, "stream")
        /\ UNCHANGED <<rpc, generator, raised>>
     \/ /\ Len(out[r]) < MaxItems
        /\ NotWritten(r)
        /\ Raise(r)
     \/ /\ Goto(r, "end")
        /\ generator' = [generator EXCEPT ![r] = "closed"]
        /\ UNCHANGED historyVars
     \/ /\ Raise(r)
        /\ UNCHANGED <<out, lost>>
  /\ UNCHANGED <<queueVars, invoked>>

(***************************************************************************)
(* The handler calls back and waits, its worker with it.                   *)
(***************************************************************************)
Invoke(r) ==
  /\ rpc[r] = "stream"
  /\ r \notin invoked
  /\ r \in {Serves[s] : s \in Requests}
  /\ invoked' = invoked \cup {r}
  /\ Goto(r, "invoke")
  /\ UNCHANGED <<queueVars, generator, historyVars>>

(***************************************************************************)
(* The call comes back: a request that serves it is over, the reader was   *)
(* closed, or nothing came for max_invocation_timeout seconds and the call *)
(* raised, which the handler may or may not catch.                         *)
(***************************************************************************)
InvokeAnswered(r) ==
  /\ rpc[r] = "invoke"
  /\ ~listening \/ \E s \in Requests : Serves[s] = r /\ rpc[s] = "finished"
  /\ Goto(r, "stream")
  /\ UNCHANGED <<queueVars, generator, invoked, historyVars>>


InvokeTimeout(r) ==
  /\ rpc[r] = "invoke"
  /\ \/ /\ Goto(r, "stream")
        /\ UNCHANGED <<generator, raised>>
     \/ Raise(r)
  /\ UNCHANGED <<queueVars, invoked, out, lost>>

(***************************************************************************)
(* The error message, the end message and, in the finally clause, done().  *)
(* An exception of the writer itself leaves only the last.                 *)
(***************************************************************************)
ErrorMessageOnly(r) ==
  \* mutant: the end message is written only after a success
  /\ rpc[r] = "error"
  /\ Written(r, "error") \/ NotWritten(r)
  /\ Goto(r, "done")
  /\ UNCHANGED <<queueVars, generator, invoked, raised>>

ErrorMessage(r) ==
  /\ rpc[r] = "error"
  /\ \/ Written(r, "error") /\ Goto(r, "end")
     \/ NotWritten(r) /\ Goto(r, "done")
  /\ UNCHANGED <<queueVars, generator, invoked, raised>>

EndMessage(r) ==
  /\ rpc[r] = "end"
  /\ Written(r, "end") \/ NotWritten(r)
  /\ Goto(r, "done")
  /\ UNCHANGED <<queueVars, generator, invoked, raised>>

Done(r) ==
  /\ rpc[r] = "done"
  /\ Goto(r, "finished")
  /\ UNCHANGED <<queueVars, generator, invoked, historyVars>>

-----------------------------------------------------------------------------
Worker(r) ==
  \/ Dispatch(r) \/ Stream(r) \/ Invoke(r) \/ InvokeAnswered(r)
  \/ InvokeTimeout(r) \/ ErrorMessage(r) \/ EndMessage(r) \/ Done(r)

Next ==
  \/ \E r \in Requests : Arrive(r) \/ Worker(r)
  \/ Submit
  \/ CloseReader
  \/ Begin

Spec == Init /\ [][Next]_vars

(***************************************************************************)
(* The listener and the workers run, and a handler that is not waiting     *)
(* comes to its end.  The daemon owes nothing.                             *)
(***************************************************************************)
Fairness ==
  /\ WF_vars(Submit) /\ WF_vars(Begin)
  /\ \A r \in Requests : WF_vars(Worker(r))

-----------------------------------------------------------------------------
(***************************************************************************)
(* The daemon is told that a request is over by its last message and by no *)
(* other, and that it failed by the message before it and by no other; and *)
(* it is told so unless a write failed, with an error message if and only  *)
(* if the execution raised.                                                *)
(***************************************************************************)
OutcomeReported ==
  \A r \in Requests :
    /\ \A k \in DOMAIN out[r] :
         /\ out[r][k] = "end" => k = Len(out[r])
         /\ out[r][k] = "error" =>
              r \in raised /\ \A j \in k + 1 .. Len(out[r]) : out[r][j] = "end"
    /\ rpc[r] = "finished" /\ r \notin lost =>
         /\ out[r] # <<>> /\ out[r][Len(out[r])] = "end"
         /\ r \in raised <=> \E k \in DOMAIN out[r] : out[r][k] = "error"

(***************************************************************************)
(* A worker that is past the handler has closed its generator: a write     *)
(* that raises in the middle of a stream does not leave it suspended.      *)
(***************************************************************************)
GeneratorClosed ==
  \A r \in Requests :
    rpc[r] \in {"error", "end", "done", "finished"} => generator[r] # "open"

=============================================================================
