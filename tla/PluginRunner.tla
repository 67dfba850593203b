--------------------------- MODULE PluginRunner ---------------------------
(***************************************************************************)
(* A plugin run as a child process for a test (integration/run.py).        *)
(*                                                                         *)
(* The owner constructs the runner and leaves its `with' block; a thread   *)
(* reads the child's standard output and hands each message to the queue   *)
(* of the invocation it is for; another drains standard error; invokers    *)
(* write requests to the child's standard input and wait on their queues.  *)
(* Owner and reader may both run _close(), and only one of them carries it *)
(* out.                                                                    *)
(*                                                                         *)
(* A step is what one thread does between two operations on a lock, a      *)
(* queue, a pipe or another thread. The child is external: it may answer,  *)
(* be silent or exit at any time, and it exits on SIGTERM.                 *)
(***************************************************************************)
EXTENDS Naturals, Sequences

CONSTANTS
  Invokers,   \* the threads that call invoke(), each once
  Pieces,     \* os.write calls that a request takes
  PipeSize,   \* pieces the pipe to the child holds, and messages the one back
  MaxAnswers, \* bound: the responses to one request
  MaxNoise,   \* bound: the messages without an invoke id
  None

ASSUME BoundsAssumption ==
  /\ Pieces \in Nat \ {0} /\ PipeSize \in Nat \ {0}
  /\ MaxAnswers \in Nat /\ MaxNoise \in Nat
  /\ None \notin Invokers

VARIABLES
  pc,          \* control of the owner
  directory, pipes, process, \* what is to be released: package, descriptors, child
  outPc,       \* control of the reader of standard output
  errPc,       \* and of the one that drains standard error
  readerError, \* whether _reader_error is set
  ready,       \* ready_semaphore
  stop,        \* stop_flag
  closePc,     \* control of _close(), for the owner and the reader
  complete,    \* _close_complete
  registered, queue, \* q: the invocations in it and their queues
  ipc,         \* control of each invoker
  written,     \* the pieces of its request it has written
  writing,     \* who has stdin_write_lock
  got,         \* history: the responses each invoker was given
  outcome,     \* history: how its invocation ended
  stdin, stdout, \* what is in the pipes to and from the child
  heard,       \* the pieces of each request the child has read
  answers,     \* the responses it has given to each
  ended,       \* the requests it has given an end or an error
  noise        \* the messages without an id it has sent

resources == <<directory, pipes, process>>
readerVars == <<outPc, errPc, readerError, ready>>
closeVars == <<stop, closePc, complete>>
callVars == <<ipc, written, writing, got, outcome>>
queueVars == <<registered, queue>>
childVars == <<heard, answers, ended, noise>>
vars == <<pc, resources, readerVars, closeVars, callVars, queueVars, stdin, stdout,
          childVars>>

\* What the constructor and _close() leave alone, and the invokers.
outside == <<callVars, registered, stdin, stdout, childVars>>
inside == <<pc, resources, readerVars, closeVars>>

Closers == {"owner", "reader"}

Init ==
  /\ pc = "new" /\ directory = "none" /\ pipes = "none" /\ process = "none"
  /\ outPc = "none" /\ errPc = "none" /\ readerError = FALSE /\ ready = 0
  /\ stop = FALSE /\ closePc = [t \in Closers |-> "no"] /\ complete = FALSE
  /\ registered = {} /\ queue = [i \in Invokers |-> <<>>]
  /\ ipc = [i \in Invokers |-> "idle"] /\ written = [i \in Invokers |-> 0]
  /\ writing = None
  /\ got = [i \in Invokers |-> <<>>] /\ outcome = [i \in Invokers |-> "open"]
  /\ stdin = <<>> /\ stdout = <<>>
  /\ heard = [i \in Invokers |-> 0] /\ answers = [i \in Invokers |-> 0]
  /\ ended = {} /\ noise = 0

-----------------------------------------------------------------------------
(***************************************************************************)
(* The owner. Whatever fails in the constructor runs _close() and is       *)
(* raised again.                                                           *)
(***************************************************************************)

Close(t) == closePc' = [closePc EXCEPT ![t] = "enter"]
Fail == pc' = "failing" /\ Close("owner")

\* The pipes, and the package, which is made of a source directory.
MakePipes ==
  /\ pc = "new"
  /\ pipes' = "open"
  /\ directory' = "made"
  /\ \/ pc' = "spawn" /\ UNCHANGED closePc
     \/ Fail
  /\ UNCHANGED <<process, readerVars, stop, complete, queue, outside>>

Spawn ==
  /\ pc = "spawn"
  /\ \/ process' = "running" /\ pc' = "start reader" /\ UNCHANGED closePc
     \/ Fail /\ UNCHANGED process
  /\ UNCHANGED <<directory, pipes, readerVars, stop, complete, queue, outside>>

StartReader ==
  /\ pc = "start reader"
  /\ \/ outPc' = "reading" /\ pc' = "start drain" /\ UNCHANGED closePc
     \/ Fail /\ UNCHANGED outPc
  /\ UNCHANGED <<resources, errPc, readerError, ready, stop, complete, queue, outside>>

StartDrain ==
  /\ pc = "start drain"
  /\ \/ errPc' = "draining" /\ pc' = "await" /\ UNCHANGED closePc
     \/ Fail /\ UNCHANGED errPc
  /\ UNCHANGED <<resources, outPc, readerError, ready, stop, complete, queue, outside>>

\* The semaphore, or 30 seconds.
AwaitReady ==
  /\ pc = "await"
  /\ \/ ready > 0 /\ ready' = ready - 1 /\ pc' = "open" /\ UNCHANGED closePc
     \/ ready = 0 /\ Fail /\ UNCHANGED ready
  /\ UNCHANGED <<resources, outPc, errPc, readerError, stop, complete, queue, outside>>

Exit ==
  /\ pc = "open"
  /\ pc' = "exiting"
  /\ Close("owner")
  /\ UNCHANGED <<resources, readerVars, stop, complete, queue, outside>>

-----------------------------------------------------------------------------
(***************************************************************************)
(* _close().                                                               *)
(***************************************************************************)

\* mutant: the invocations that wait are ended as by the child
lastWordEnds == [id |-> None, type |-> "end", n |-> 0]

\* self._reader_error or PluginStoppedError()
lastWord == [id |-> None, type |-> IF readerError THEN "broken" ELSE "stopped", n |-> 0]

\* mutant: the reader waits for an owner who may be joining it
CloseEnterWaits(t) ==
  /\ closePc[t] = "enter"
  /\ stop' = TRUE
  /\ closePc' = [closePc EXCEPT ![t] = IF stop THEN "wait complete" ELSE "signal"]
  /\ queue' = [i \in Invokers |-> IF ~stop /\ i \in registered
                                  THEN Append(queue[i], lastWord) ELSE queue[i]]
  /\ UNCHANGED <<pc, resources, readerVars, complete, outside>>

\* Both locks are held: the first to come sets the flag and tells all who wait.
CloseEnter(t) ==
  /\ closePc[t] = "enter"
  /\ stop' = TRUE
  /\ closePc' = [closePc EXCEPT ![t] = IF ~stop THEN "signal"
                                       ELSE IF t = "reader" THEN "done"
                                       ELSE "wait complete"]
  /\ queue' = [i \in Invokers |-> IF ~stop /\ i \in registered
                                  THEN Append(queue[i], lastWord) ELSE queue[i]]
  /\ UNCHANGED <<pc, resources, readerVars, complete, outside>>

\* mutant: whoever comes second does not wait for the first
CloseWaitCompleteNot(t) ==
  /\ closePc[t] = "wait complete"
  /\ closePc' = [closePc EXCEPT ![t] = "done"]
  /\ UNCHANGED <<pc, resources, readerVars, stop, complete, queue, outside>>

CloseWaitComplete(t) ==
  /\ closePc[t] = "wait complete"
  /\ complete
  /\ closePc' = [closePc EXCEPT ![t] = "done"]
  /\ UNCHANGED <<pc, resources, readerVars, stop, complete, queue, outside>>

CloseSignal(t) ==
  /\ closePc[t] = "signal"
  /\ process' = IF process = "running" THEN "terminating" ELSE process
  /\ closePc' = [closePc EXCEPT ![t] = "join"]
  /\ UNCHANGED <<pc, directory, pipes, readerVars, stop, complete, queue, outside>>

(***************************************************************************)
(* The child is waited for, which stays gone, and the two threads are      *)
(* joined: one that was not started is not, nor is this one.               *)
(***************************************************************************)
CloseJoin(t) ==
  /\ closePc[t] = "join"
  /\ process \in {"none", "exited"}
  /\ t = "reader" \/ outPc \in {"none", "ended"}
  /\ errPc \in {"none", "ended"}
  /\ closePc' = [closePc EXCEPT ![t] = "close pipes"]
  /\ UNCHANGED <<pc, resources, readerVars, stop, complete, queue, outside>>

ClosePipes(t) ==
  /\ closePc[t] = "close pipes"
  /\ pipes' = "closed"
  /\ closePc' = [closePc EXCEPT ![t] = "remove"]
  /\ UNCHANGED <<pc, directory, process, readerVars, stop, complete, queue, outside>>

CloseRemove(t) ==
  /\ closePc[t] = "remove"
  /\ directory' = "none"
  /\ complete' = TRUE
  /\ closePc' = [closePc EXCEPT ![t] = "done"]
  /\ UNCHANGED <<pc, pipes, process, readerVars, stop, queue, outside>>

Closing(t) ==
  \/ CloseEnter(t) \/ CloseWaitComplete(t) \/ CloseSignal(t) \/ CloseJoin(t)
  \/ ClosePipes(t) \/ CloseRemove(t)

\* The owner leaves the `with' block, or the constructor with its error.
OwnerLeaves ==
  /\ closePc["owner"] = "done"
  /\ \/ pc = "exiting" /\ pc' = "left"
     \/ pc = "failing" /\ pc' = "raised"
  /\ UNCHANGED <<resources, readerVars, closeVars, queue, outside>>

ReaderLeaves ==
  /\ closePc["reader"] = "done"
  /\ outPc = "closing"
  /\ outPc' = "ended"
  /\ UNCHANGED <<pc, resources, errPc, readerError, ready, closeVars, queue, outside>>

-----------------------------------------------------------------------------
(***************************************************************************)
(* The readers.                                                            *)
(***************************************************************************)

(***************************************************************************)
(* A message without an id is for the runner: the child is ready, or has   *)
(* failed and the reader raises, or it only says something. One with an id *)
(* goes into the queue of its invocation if that is still there.           *)
(***************************************************************************)
Publish(m) ==
  /\ ready' = IF m.id = None /\ m.type = "ready" THEN ready + 1 ELSE ready
  /\ queue' = IF m.id \in registered THEN [queue EXCEPT ![m.id] = Append(@, m)] ELSE queue
  /\ IF m.id = None /\ m.type = "error"
     THEN outPc' = "closing" /\ readerError' = TRUE /\ Close("reader")
     ELSE UNCHANGED <<outPc, readerError, closePc>>

ReadMessage ==
  /\ outPc = "reading"
  /\ stdout # <<>>
  /\ stdout' = Tail(stdout)
  /\ Publish(Head(stdout))
  /\ UNCHANGED <<pc, resources, errPc, stop, complete, registered, callVars, stdin,
                 childVars>>

\* select() has found nothing within its time, ...
ReadNothing ==
  /\ outPc = "reading"
  /\ stdout = <<>>
  /\ outPc' = "polling"
  /\ UNCHANGED <<pc, resources, errPc, readerError, ready, closeVars, queue, outside>>

(***************************************************************************)
(* ... and only then is the child asked for: what it has said and exited   *)
(* after in the meantime is never read.                                    *)
(***************************************************************************)
ReadPoll ==
  /\ outPc = "polling"
  /\ IF process = "exited"
     THEN outPc' = "closing" /\ Close("reader")
     ELSE outPc' = "reading" /\ UNCHANGED closePc
  /\ UNCHANGED <<pc, resources, errPc, readerError, ready, stop, complete, queue, outside>>

\* So ends the other one, or with an OSError if it was started too late.
DrainStopped ==
  /\ errPc = "draining"
  /\ process = "exited" \/ pipes = "closed"
  /\ errPc' = "ended"
  /\ UNCHANGED <<pc, resources, outPc, readerError, ready, closeVars, queue, outside>>

-----------------------------------------------------------------------------
(***************************************************************************)
(* An invoker.                                                             *)
(***************************************************************************)

InvokerGoto(i, step) == ipc' = [ipc EXCEPT ![i] = step]

\* An exception, or the end: the invocation is taken out of q with its queue.
Over(i, how) ==
  /\ outcome' = [outcome EXCEPT ![i] = how]
  /\ registered' = registered \ {i}
  /\ queue' = [queue EXCEPT ![i] = <<>>]
  /\ InvokerGoto(i, "done")

\* The first look at the flag.
Invoke(i) ==
  /\ ipc[i] = "idle"
  /\ pc \in {"open", "exiting", "left"}
  /\ IF stop
     THEN Over(i, "stopped")
     ELSE InvokerGoto(i, "register") /\ UNCHANGED <<outcome, queueVars>>
  /\ UNCHANGED <<inside, written, writing, got, stdin, stdout, childVars>>

\* mutant: the flag is not looked at again
RegisterUnchecked(i) ==
  /\ ipc[i] = "register"
  /\ registered' = registered \cup {i}
  /\ InvokerGoto(i, "lock")
  /\ UNCHANGED <<inside, queue, written, writing, got, outcome, stdin, stdout, childVars>>

\* The second look, under the lock that _close() holds too.
Register(i) ==
  /\ ipc[i] = "register"
  /\ IF stop
     THEN Over(i, "stopped")
     ELSE /\ registered' = registered \cup {i}
          /\ InvokerGoto(i, "lock")
          /\ UNCHANGED <<queue, outcome>>
  /\ UNCHANGED <<inside, written, writing, got, stdin, stdout, childVars>>

LockStdin(i) ==
  /\ ipc[i] = "lock"
  /\ writing = None
  /\ writing' = i
  /\ InvokerGoto(i, "write")
  /\ UNCHANGED <<inside, queueVars, written, got, outcome, stdin, stdout, childVars>>

(***************************************************************************)
(* os.write waits while the pipe is full, also when the child is gone: the *)
(* runner itself holds the other end. It fails once that is closed.        *)
(***************************************************************************)
WritePiece(i) ==
  /\ ipc[i] = "write"
  /\ \/ /\ pipes = "open"
        /\ Len(stdin) < PipeSize
        /\ stdin' = Append(stdin, i)
        /\ written' = [written EXCEPT ![i] = @ + 1]
        /\ IF written'[i] = Pieces
           THEN writing' = None /\ InvokerGoto(i, "get")
           ELSE UNCHANGED <<writing, ipc>>
        /\ UNCHANGED <<outcome, queueVars>>
     \/ /\ pipes = "closed"
        /\ writing' = None
        /\ Over(i, "unsent")
        /\ UNCHANGED <<stdin, written>>
  /\ UNCHANGED <<inside, got, stdout, childVars>>

\* How a message from the queue ends the invocation, if it does.
outcomeOf(m) ==
  CASE m.type = "end" -> "complete"
    [] m.type \in {"stopped", "broken"} -> m.type
    [] m.type = "response" -> "open"
    [] OTHER -> "failed"

Get(i) ==
  /\ ipc[i] = "get"
  /\ queue[i] # <<>>
  /\ LET m == Head(queue[i])
     IN  IF outcomeOf(m) = "open"
         THEN /\ got' = [got EXCEPT ![i] = Append(@, m.n)]
              /\ queue' = [queue EXCEPT ![i] = Tail(@)]
              /\ InvokerGoto(i, "caller")
              /\ UNCHANGED <<registered, outcome>>
         ELSE Over(i, outcomeOf(m)) /\ UNCHANGED got
  /\ UNCHANGED <<inside, written, writing, stdin, stdout, childVars>>

\* The caller goes on, or closes the generator.
CallerStep(i) ==
  /\ ipc[i] = "caller"
  /\ \/ InvokerGoto(i, "get") /\ UNCHANGED <<outcome, queueVars>>
     \/ Over(i, "abandoned")
  /\ UNCHANGED <<inside, written, writing, got, stdin, stdout, childVars>>

-----------------------------------------------------------------------------
(***************************************************************************)
(* The child.                                                              *)
(***************************************************************************)

Alive == process \in {"running", "terminating"}

Say(id, type, n) ==
  /\ Len(stdout) < PipeSize
  /\ stdout' = Append(stdout, [id |-> id, type |-> type, n |-> n])
  /\ UNCHANGED <<inside, callVars, queueVars>>

\* That it is ready, first, or that it has failed.
ChildSpeaks ==
  /\ Alive
  /\ noise < MaxNoise
  /\ noise' = noise + 1
  /\ \/ noise = 0 /\ Say(None, "ready", 0)
     \/ Say(None, "error", 0)
  /\ UNCHANGED <<stdin, heard, answers, ended>>

ChildReads ==
  /\ Alive
  /\ stdin # <<>>
  /\ stdin' = Tail(stdin)
  /\ heard' = [heard EXCEPT ![Head(stdin)] = @ + 1]
  /\ UNCHANGED <<inside, callVars, queueVars, stdout, answers, ended, noise>>

ChildAnswers(i) ==
  /\ Alive
  /\ heard[i] = Pieces
  /\ i \notin ended
  /\ \/ /\ answers[i] < MaxAnswers
        /\ answers' = [answers EXCEPT ![i] = @ + 1]
        /\ Say(i, "response", answers[i] + 1)
        /\ UNCHANGED ended
     \/ /\ ended' = ended \cup {i}
        /\ \E type \in {"end", "error"} : Say(i, type, 0)
        /\ UNCHANGED answers
  /\ UNCHANGED <<stdin, heard, noise>>

ChildExits ==
  /\ Alive
  /\ process' = "exited"
  /\ UNCHANGED <<pc, directory, pipes, readerVars, closeVars, callVars, queueVars, stdin,
                 stdout, childVars>>

-----------------------------------------------------------------------------
Owner ==
  \/ MakePipes \/ Spawn \/ StartReader \/ StartDrain \/ AwaitReady
  \/ Closing("owner") \/ OwnerLeaves

Reader ==
  ReadMessage \/ ReadNothing \/ ReadPoll \/ Closing("reader") \/ ReaderLeaves

\* What an invoker does without its caller.
Invoker(i) == Register(i) \/ LockStdin(i) \/ WritePiece(i) \/ Get(i)

Next ==
  \/ Owner \/ Exit
  \/ Reader \/ DrainStopped
  \/ \E i \in Invokers : Invoke(i) \/ Invoker(i) \/ CallerStep(i) \/ ChildAnswers(i)
  \/ ChildSpeaks \/ ChildReads \/ ChildExits

Spec == Init /\ [][Next]_vars

(***************************************************************************)
(* The threads run, and a child that was told to exits. Nothing is asked   *)
(* of another child, of the owner in his `with' block, or of the callers.  *)
(***************************************************************************)
Fairness ==
  /\ WF_vars(Owner) /\ WF_vars(Reader) /\ WF_vars(DrainStopped)
  /\ \A i \in Invokers : WF_vars(Invoker(i))
  /\ WF_vars(process = "terminating" /\ ChildExits)

FairSpec == Spec /\ Fairness

-----------------------------------------------------------------------------
(***************************************************************************)
(* Properties.                                                             *)
(***************************************************************************)

(***************************************************************************)
(* An invocation is given the child's responses to its own request, in     *)
(* order and without a gap, whatever the others do; it ends without an     *)
(* error only after all of them and the child's own end, so a stopped      *)
(* child never makes half an answer look whole; and it fails as stopped    *)
(* only if somebody closes the runner.                                     *)
(***************************************************************************)
AnswersAreOwn ==
  \A i \in Invokers :
    /\ got[i] = [n \in 1 .. Len(got[i]) |-> n]
    /\ Len(got[i]) <= answers[i]
    /\ outcome[i] = "complete" => i \in ended /\ Len(got[i]) = answers[i]
    /\ outcome[i] \in {"stopped", "broken", "unsent"} => stop

(***************************************************************************)
(* When the `with' block has been left, or the constructor has raised, the *)
(* child has exited and the package and the descriptors are gone, whoever  *)
(* of the two threads did it (run.py: every startup failure must release   *)
(* the process and temporary package).                                     *)
(***************************************************************************)
NothingLeft ==
  pc \in {"left", "raised"} =>
    process \in {"none", "exited"} /\ pipes = "closed" /\ directory = "none"

(***************************************************************************)
(* Once the runner is stopped, no invocation waits for ever, for the pipe, *)
(* for the lock or for an answer: all come back to their callers, or end.  *)
(***************************************************************************)
InvocationEnds ==
  stop ~> \A i \in Invokers : ipc[i] \in {"idle", "caller", "done"}

(***************************************************************************)
(* Who closes the runner gets out of _close(), although owner and reader   *)
(* wait for each other in it; and a child that exits while it is read from *)
(* gets the runner closed.                                                 *)
(***************************************************************************)
CloseReturns ==
  (\/ \E t \in Closers : closePc[t] = "enter"
   \/ process = "exited" /\ outPc \in {"reading", "polling"})
    ~> stop /\ \A t \in Closers : closePc[t] \in {"no", "done"}
=============================================================================
