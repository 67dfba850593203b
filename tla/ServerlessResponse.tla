------------------------- MODULE ServerlessResponse -------------------------
(***************************************************************************)
(* The answer to one request of the serverless server: the response        *)
(* generator of the HTTP handler (core/server/serverless/                  *)
(* request_reader.py), the worker of the thread pool that executes the     *)
(* request (core/server/io_server.py), the greenlet it executes it in, and *)
(* the ServerlessResponseWriter between them (serverless/                  *)
(* response_writer.py).                                                    *)
(*                                                                         *)
(* Every method of the writer is one critical section of its lock, and is  *)
(* one step here; close() and execute() go on after theirs.                *)
(***************************************************************************)
EXTENDS Naturals, Sequences

CONSTANTS
  MaxIdle,    \* max_single_connection_lifetime, in rounds of queue.get
  MaxChunks,  \* bound: the chunks the request's handler streams
  EndMarker   \* None, the end marker put by done()

ASSUME MaxIdleAssumption == MaxIdle \in Nat
ASSUME MaxChunksAssumption == MaxChunks \in Nat
ASSUME MarkerAssumption == EndMarker \notin {"chunk", "error", "end"}

VARIABLES
  q,        \* the queue of the writer
  closed,   \* ServerlessResponseWriter.closed
  task,     \* whether ServerlessResponseWriter._task is set
  greenlet, \* the greenlet that executes the request
  killed,   \* task.kill() was called while it ran
  wpc,      \* control of the worker
  gpc,      \* control of the HTTP handler and then of generate()
  started,  \* generate() has been advanced to its first yield
  target,   \* whether close() has found a task to kill
  idle,     \* rounds since refresh_time
  log,      \* history: what was put in the queue, without the marker
  got,      \* history: what the client was sent
  why       \* history: why generate() left its loop

responseVars == <<q, closed, task, greenlet, killed, wpc, gpc, started, target, idle, log, got, why>>

Message == {"chunk", "error", "end"}

ResponseTypeOK ==
  /\ q \in Seq(Message \cup {EndMarker})
  /\ closed \in BOOLEAN
  /\ task \in BOOLEAN
  /\ greenlet \in {"none", "running", "returned", "raised", "killed"}
  /\ killed \in BOOLEAN
  /\ wpc \in {"none", "queued", "execute", "wait", "error", "end", "done", "finished",
              "dropped"}
  /\ gpc \in {"none", "accepted", "client", "get", "close", "kill", "over"}
  /\ started \in BOOLEAN
  /\ target \in BOOLEAN
  /\ idle \in 0 .. MaxIdle
  /\ log \in Seq(Message)
  /\ got \in Seq(Message)
  /\ why \in {"open", "marker", "idle", "gone"}

(***************************************************************************)
(* The request has not come in yet.                                        *)
(***************************************************************************)
ResponseInit ==
  /\ q = <<>>
  /\ closed = FALSE
  /\ task = FALSE
  /\ greenlet = "none"
  /\ killed = FALSE
  /\ wpc = "none"
  /\ gpc = "none"
  /\ started = FALSE
  /\ target = FALSE
  /\ idle = 0
  /\ log = <<>>
  /\ got = <<>>
  /\ why = "open"

writerVars == <<q, closed, log>>
taskVars == <<task, greenlet, killed>>
generatorVars == <<gpc, started, target, idle, got, why>>

-----------------------------------------------------------------------------
(* The HTTP handler.                                                       *)

(***************************************************************************)
(* It queues the request, which a worker may take from now on, ...         *)
(***************************************************************************)
Accept ==
  /\ gpc = "none"
  /\ gpc' = "accepted"
  /\ wpc' = "queued"
  /\ UNCHANGED <<writerVars, taskVars, started, target, idle, got, why>>

(***************************************************************************)
(* ... and advances generate() to its first yield before Flask has it: to  *)
(* close a generator that was never advanced runs no finally clause.       *)
(***************************************************************************)
ArmNot ==
  \* mutant: the generator is returned as it was made
  /\ gpc = "accepted"
  /\ gpc' = "client"
  /\ UNCHANGED <<writerVars, taskVars, wpc, started, target, idle, got, why>>

Arm ==
  /\ gpc = "accepted"
  /\ gpc' = "client"
  /\ started' = TRUE
  /\ UNCHANGED <<writerVars, taskVars, wpc, target, idle, got, why>>

-----------------------------------------------------------------------------
(* generate().                                                             *)

(***************************************************************************)
(* Flask asks for the next chunk, or closes the generator where it stands, *)
(* because the client has gone.                                            *)
(***************************************************************************)
ClientNext ==
  /\ gpc = "client"
  /\ gpc' = "get"
  /\ started' = TRUE
  /\ UNCHANGED <<writerVars, taskVars, wpc, target, idle, got, why>>

ClientGone ==
  /\ gpc = "client"
  /\ gpc' = IF started THEN "close" ELSE "over"
  /\ why' = "gone"
  /\ UNCHANGED <<writerVars, taskVars, wpc, started, target, idle, got>>

(***************************************************************************)
(* queue.get: the end marker returns, a chunk restarts the clock and is    *)
(* yielded.                                                                *)
(***************************************************************************)
GetResponse ==
  /\ gpc = "get"
  /\ q # <<>>
  /\ q' = Tail(q)
  /\ \/ /\ Head(q) = EndMarker
        /\ gpc' = "close"
        /\ why' = "marker"
        /\ UNCHANGED <<idle, got>>
     \/ /\ Head(q) # EndMarker
        /\ gpc' = "client"
        /\ idle' = 0
        /\ got' = Append(got, Head(q))
        /\ why' = why
  /\ UNCHANGED <<closed, log, taskVars, wpc, started, target>>

(***************************************************************************)
(* A round without a chunk; too many of them end the response.             *)
(***************************************************************************)
GetEmpty ==
  /\ gpc = "get"
  /\ q = <<>>
  /\ \/ /\ idle < MaxIdle
        /\ idle' = idle + 1
        /\ UNCHANGED <<gpc, why>>
     \/ /\ idle = MaxIdle
        /\ gpc' = "close"
        /\ why' = "idle"
        /\ idle' = idle
  /\ UNCHANGED <<writerVars, taskVars, wpc, started, target, got>>

(***************************************************************************)
(* ServerlessResponseWriter.close, which the finally clause runs: what is  *)
(* queued is thrown away under the lock, ...                               *)
(***************************************************************************)
Close ==
  /\ gpc = "close"
  /\ closed' = TRUE
  /\ target' = task
  /\ q' = <<>>
  /\ gpc' = "kill"
  /\ UNCHANGED <<log, taskVars, wpc, started, idle, got, why>>

(***************************************************************************)
(* ... and the task found there is killed after it, without waiting.       *)
(***************************************************************************)
CloseKill ==
  /\ gpc = "kill"
  /\ killed' = (killed \/ (target /\ greenlet = "running"))
  /\ gpc' = "over"
  /\ UNCHANGED <<writerVars, task, greenlet, wpc, started, target, idle, got, why>>

-----------------------------------------------------------------------------
(* The worker: _execute_request_in_thread.                                 *)

(***************************************************************************)
(* ServerlessResponseWriter.write and done.                                *)
(***************************************************************************)
WriteUntested(m) ==
  \* mutant: write() does not look at closed
  /\ q' = Append(q, m)
  /\ log' = IF closed THEN log ELSE Append(log, m)
  /\ closed' = closed

Write(m) ==
  /\ q' = IF closed THEN q ELSE Append(q, m)
  /\ log' = IF closed THEN log ELSE Append(log, m)
  /\ closed' = closed

done ==
  /\ q' = IF closed THEN q ELSE Append(q, EndMarker)
  /\ closed' = TRUE
  /\ log' = log

(***************************************************************************)
(* The instruction listener hands the request to the pool, or the server   *)
(* is closed first and nobody ever looks at it.                            *)
(***************************************************************************)
HandOver ==
  /\ wpc = "queued"
  /\ wpc' \in {"execute", "dropped"}
  /\ UNCHANGED <<writerVars, taskVars, generatorVars>>

(***************************************************************************)
(* ServerlessResponseWriter.execute: a greenlet is spawned unless the      *)
(* response is over.                                                       *)
(***************************************************************************)
ExecuteUntested ==
  \* mutant: execute() does not look at closed
  /\ wpc = "execute"
  /\ wpc' = "wait"
  /\ task' = TRUE
  /\ greenlet' = "running"
  /\ UNCHANGED <<writerVars, killed, generatorVars>>

Execute ==
  /\ wpc = "execute"
  /\ \/ /\ closed
        /\ wpc' = "end"
        /\ UNCHANGED <<task, greenlet>>
     \/ /\ ~closed
        /\ wpc' = "wait"
        /\ task' = TRUE
        /\ greenlet' = "running"
  /\ UNCHANGED <<writerVars, killed, generatorVars>>

(***************************************************************************)
(* task.get() returns or raises, and the finally clause forgets the task.  *)
(* A killed greenlet returns its GreenletExit.                             *)
(***************************************************************************)
TaskOver ==
  /\ wpc = "wait"
  /\ greenlet # "running"
  /\ task' = FALSE
  /\ wpc' = IF greenlet = "raised" THEN "error" ELSE "end"
  /\ UNCHANGED <<writerVars, greenlet, killed, generatorVars>>

WriteErrorNot ==
  \* mutant: the exception is only logged
  /\ wpc = "error"
  /\ wpc' = "end"
  /\ UNCHANGED <<writerVars, taskVars, generatorVars>>

WriteError ==
  /\ wpc = "error"
  /\ Write("error")
  /\ wpc' = "end"
  /\ UNCHANGED <<taskVars, generatorVars>>

WriteEnd ==
  /\ wpc = "end"
  /\ Write("end")
  /\ wpc' = "done"
  /\ UNCHANGED <<taskVars, generatorVars>>

PutMarker ==
  /\ wpc = "done"
  /\ done
  /\ wpc' = "finished"
  /\ UNCHANGED <<taskVars, generatorVars>>

-----------------------------------------------------------------------------
(* The greenlet: the plugin's handler, which streams, returns, raises or   *)
(* is killed where it next gives way.                                      *)

TaskWrite ==
  /\ greenlet = "running"
  /\ Len(log) < MaxChunks
  /\ Write("chunk")
  /\ UNCHANGED <<taskVars, wpc, generatorVars>>

TaskEnd ==
  /\ greenlet = "running"
  /\ greenlet' \in {"returned", "raised"}
  /\ UNCHANGED <<writerVars, task, killed, wpc, generatorVars>>

TaskKilled ==
  /\ greenlet = "running"
  /\ killed
  /\ greenlet' = "killed"
  /\ UNCHANGED <<writerVars, task, killed, wpc, generatorVars>>

-----------------------------------------------------------------------------
Client == ClientNext \/ ClientGone
Generator == Arm \/ GetResponse \/ GetEmpty \/ Close \/ CloseKill
ResponseWorker == HandOver \/ Execute \/ TaskOver \/ WriteError \/ WriteEnd \/ PutMarker

ResponseNext ==
  Accept \/ Client \/ Generator \/ ResponseWorker \/ TaskWrite \/ TaskEnd \/ TaskKilled

ResponseSpec == ResponseInit /\ [][ResponseNext]_responseVars

(***************************************************************************)
(* The HTTP server iterates the response or closes it, the workers run,    *)
(* and a kill is delivered; the plugin's handler owes nothing.             *)
(***************************************************************************)
ResponseFairness ==
  /\ WF_responseVars(Client) /\ WF_responseVars(Generator) /\ WF_responseVars(ResponseWorker)
  /\ WF_responseVars(TaskKilled)

-----------------------------------------------------------------------------
(***************************************************************************)
(* Whatever ends the response, the client was sent what the handler had    *)
(* written, in that order, up to some point.  If it was the end marker     *)
(* that is all of it, with one end message at the end, after an error      *)
(* message just in case the handler raised.                                *)
(***************************************************************************)
MarkerMeansComplete ==
  /\ got = SubSeq(log, 1, Len(got))
  /\ why = "marker" =>
       /\ Len(got) = Len(log)
       /\ got # <<>>
       /\ \A i \in DOMAIN got :
            /\ got[i] = "end" <=> i = Len(got)
            /\ got[i] = "error" <=> greenlet = "raised" /\ i = Len(got) - 1

(***************************************************************************)
(* The queue of a response that is over stays empty: late writes and the   *)
(* worker's end message and marker do not pile up in it.                   *)
(***************************************************************************)
NothingAfterClose == gpc \in {"kill", "over"} => q = <<>>

(***************************************************************************)
(* No handler runs on unnoticed: one that is still running when the        *)
(* response is over has been told to stop, whichever of close() and        *)
(* execute() came first.                                                   *)
(***************************************************************************)
NoOrphanTask == gpc = "over" /\ greenlet = "running" => killed

(***************************************************************************)
(* The response to a request that was accepted ends, and its worker is     *)
(* free again, even if the client goes before it has read anything and the *)
(* handler hangs, or if the handler is never run.                          *)
(***************************************************************************)
ResponseEnds ==
  gpc = "accepted" ~> gpc = "over" /\ wpc \in {"finished", "dropped"}
=============================================================================
