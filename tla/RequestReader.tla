--------------------------- MODULE RequestReader ---------------------------
(***************************************************************************)
(* The fan-out at the bottom of every plugin server                        *)
(* (core/server/__base/request_reader.py and filter_reader.py).            *)
(*                                                                         *)
(* One event loop reads lines from the daemon and copies each of them to   *)
(* every registered FilterReader whose filter accepts it.  A FilterReader  *)
(* is a queue with a closed flag: its consumer iterates read(), a None in  *)
(* the queue tells it to stop.  Readers are closed by their own consumer   *)
(* (the `with' block of a backwards invocation), or by RequestReader.close,*)
(* which the event loop runs when the stream ends and which any other      *)
(* thread may run too.                                                     *)
(*                                                                         *)
(* A step here is what one thread does between two operations on a lock or *)
(* on a queue.  A line is represented by its position in the stream, and   *)
(* only its kind (what the filters look at) is kept.                       *)
(***************************************************************************)
EXTENDS Naturals, Sequences

CONSTANTS
  Readers,    \* the FilterReaders that read() may create, one per call
  Kinds,      \* what a filter can tell apart about a line
  Wants,      \* Wants[r]: the kinds the filter of r accepts
  Timed,      \* readers iterated with read(timeout_for_round=1)
  Scoped,     \* readers used as a context manager: closed when left
  Closers,    \* the threads that may run RequestReader.close
  MaxLines,   \* bound: the number of lines the stream yields
  None,       \* the end marker put in a queue by close()
  NoReader    \* no FilterReader

ASSUME ReadersAssumption ==
  /\ Wants \in [Readers -> SUBSET Kinds]
  /\ Timed \subseteq Readers
  /\ Scoped \subseteq Readers
  /\ NoReader \notin Readers
ASSUME ClosersAssumption ==
  /\ "loop" \in Closers
  /\ Closers \subseteq {"loop", "ext"}
  /\ Readers \cap Closers = {}
ASSUME NoneAssumption == None \notin Nat
ASSUME MaxLinesAssumption == MaxLines \in Nat

(***************************************************************************)
(* Who may be in FilterReader.close: the event loop and perhaps one other  *)
(* thread, running RequestReader.close, and a consumer, on its own reader. *)
(***************************************************************************)
Actors == Closers \cup Readers

VARIABLES
  closed,     \* RequestReader._closed
  readers,    \* RequestReader.readers
  closeStep,  \* how far FilterReader.close has come, for each reader
  queue,      \* FilterReader.queue, a sequence of line numbers and None
  arrived,    \* history: the kinds of the lines yielded so far
  loopPc,     \* control of the event loop
  matched,    \* matched_readers of _process_line still to be written
  writing,    \* the reader whose write() has passed the closed test
  cpc,        \* control of each reader's consumer
  got,        \* history: the lines read() has yielded to the consumer
  since,      \* history: the last line dispatched without the reader
  toClose,    \* readers_to_close of each running RequestReader.close
  extPc,      \* control of the other thread's RequestReader.close
  busy        \* the reader that each actor is closing

vars == <<closed, readers, closeStep, queue, arrived, loopPc, matched, writing,
          cpc, got, since, toClose, extPc, busy>>

Line == Nat \ {0}

(***************************************************************************)
(* FilterReader._closed: set by the first step of close(), which is        *)
(* followed by the unregistration and by the end marker.                   *)
(***************************************************************************)
readerClosed(r) == closeStep[r] # "open"

TypeOK ==
  /\ closed \in BOOLEAN
  /\ readers \subseteq Readers
  /\ closeStep \in [Readers -> {"open", "remove", "put", "closed"}]
  /\ queue \in [Readers -> Seq(Line \cup {None})]
  /\ arrived \in Seq(Kinds)
  /\ loopPc \in {"read", "copy", "write", "eof", "eofclose",
                 "finally", "close", "stopped"}
  /\ matched \subseteq Readers
  /\ writing \in Readers \cup {NoReader}
  /\ cpc \in [Readers -> {"none", "head", "get", "exit", "done"}]
  /\ got \in [Readers -> Seq(Line)]
  /\ since \in [Readers -> Nat]
  /\ toClose \in [Closers -> SUBSET Readers]
  /\ extPc \in {"idle", "close", "done"}
  /\ busy \in [Actors -> Readers \cup {NoReader}]

Init ==
  /\ closed = FALSE
  /\ readers = {}
  /\ closeStep = [r \in Readers |-> "open"]
  /\ queue = [r \in Readers |-> <<>>]
  /\ arrived = <<>>
  /\ loopPc = "read"
  /\ matched = {}
  /\ writing = NoReader
  /\ cpc = [r \in Readers |-> "none"]
  /\ got = [r \in Readers |-> <<>>]
  /\ since = [r \in Readers |-> 0]
  /\ toClose = [c \in Closers |-> {}]
  /\ extPc = "idle"
  /\ busy = [a \in Actors |-> NoReader]

loopVars == <<arrived, loopPc, matched, writing>>
consumerVars == <<cpc, got, since>>
closerVars == <<toClose, extPc>>

-----------------------------------------------------------------------------
(* Registration and the consumer's side.                                   *)

(***************************************************************************)
(* RequestReader.read: a new FilterReader joins the list under the lock.   *)
(* Nothing stops this after RequestReader.close.                           *)
(***************************************************************************)
Register(r) ==
  /\ cpc[r] = "none"
  /\ readers' = readers \cup {r}
  /\ cpc' = [cpc EXCEPT ![r] = "head"]
  /\ since' = [since EXCEPT ![r] =
                 IF loopPc = "copy" THEN Len(arrived) - 1 ELSE Len(arrived)]
  /\ UNCHANGED <<closed, closeStep, queue, got, busy, loopVars, closerVars>>

(***************************************************************************)
(* The head of the loop of FilterReader.read: a closed reader whose queue  *)
(* has been drained ends the iteration.                                    *)
(***************************************************************************)
ReadHead(r) ==
  /\ cpc[r] = "head"
  /\ cpc' = [cpc EXCEPT ![r] = IF readerClosed(r) /\ queue[r] = <<>>
                               THEN "exit" ELSE "get"]
  /\ UNCHANGED <<closed, readers, closeStep, queue, got, since, busy,
                 loopVars, closerVars>>

(***************************************************************************)
(* queue.get() returns: None breaks out of the loop, a line is yielded.    *)
(***************************************************************************)
ReadGet(r) ==
  /\ cpc[r] = "get"
  /\ queue[r] # <<>>
  /\ queue' = [queue EXCEPT ![r] = Tail(@)]
  /\ \/ /\ Head(queue[r]) = None
        /\ cpc' = [cpc EXCEPT ![r] = "exit"]
        /\ got' = got
     \/ /\ Head(queue[r]) # None
        /\ cpc' = [cpc EXCEPT ![r] = "head"]
        /\ got' = [got EXCEPT ![r] = Append(@, Head(queue[r]))]
  /\ UNCHANGED <<closed, readers, closeStep, since, busy, loopVars, closerVars>>

(***************************************************************************)
(* queue.get(timeout=1) raises Empty: the round yields None and the loop   *)
(* is tried again.                                                         *)
(***************************************************************************)
ReadTimeout(r) ==
  /\ r \in Timed
  /\ cpc[r] = "get"
  /\ queue[r] = <<>>
  /\ cpc' = [cpc EXCEPT ![r] = "head"]
  /\ UNCHANGED <<closed, readers, closeStep, queue, got, since, busy,
                 loopVars, closerVars>>

(***************************************************************************)
(* The consumer leaves the `with' block between two rounds: a return, an   *)
(* exception or the generator being closed.                                *)
(***************************************************************************)
Abandon(r) ==
  /\ r \in Scoped
  /\ cpc[r] = "head"
  /\ cpc' = [cpc EXCEPT ![r] = "exit"]
  /\ UNCHANGED <<closed, readers, closeStep, queue, got, since, busy,
                 loopVars, closerVars>>

-----------------------------------------------------------------------------
(* FilterReader.close, step by step, run by actor a on reader r.           *)

(***************************************************************************)
(* The test and the setting of _closed: a second close() returns at once.  *)
(***************************************************************************)
CloseEnterUntested(a, r) ==
  \* mutant: a second close() goes all the way too
  /\ busy[a] = NoReader
  /\ closeStep' = [closeStep EXCEPT ![r] = "remove"]
  /\ busy' = [busy EXCEPT ![a] = r]

CloseEnter(a, r) ==
  /\ busy[a] = NoReader
  /\ IF readerClosed(r)
     THEN UNCHANGED <<closeStep, busy>>
     ELSE /\ closeStep' = [closeStep EXCEPT ![r] = "remove"]
          /\ busy' = [busy EXCEPT ![a] = r]

(***************************************************************************)
(* The close callback: the reader leaves the list, under the lock.         *)
(***************************************************************************)
CloseRemoveNot(a) ==
  \* mutant: the callback does not find the reader in the list
  /\ busy[a] # NoReader
  /\ closeStep[busy[a]] = "remove"
  /\ closeStep' = [closeStep EXCEPT ![busy[a]] = "put"]
  /\ UNCHANGED <<closed, readers, queue, busy, loopVars, consumerVars, closerVars>>

CloseRemove(a) ==
  /\ busy[a] # NoReader
  /\ closeStep[busy[a]] = "remove"
  /\ readers' = readers \ {busy[a]}
  /\ closeStep' = [closeStep EXCEPT ![busy[a]] = "put"]
  /\ UNCHANGED <<closed, queue, busy, loopVars, consumerVars, closerVars>>

(***************************************************************************)
(* The end marker, put in a finally clause after the callback.             *)
(***************************************************************************)
ClosePut(a) ==
  /\ busy[a] # NoReader
  /\ closeStep[busy[a]] = "put"
  /\ queue' = [queue EXCEPT ![busy[a]] = Append(@, None)]
  /\ closeStep' = [closeStep EXCEPT ![busy[a]] = "closed"]
  /\ busy' = [busy EXCEPT ![a] = NoReader]
  /\ UNCHANGED <<closed, readers, loopVars, consumerVars, closerVars>>

(***************************************************************************)
(* __exit__ of a reader used as a context manager.  The subscription of    *)
(* the request listener is not: its consumer just ends.                    *)
(***************************************************************************)
ConsumerExit(r) ==
  /\ cpc[r] = "exit"
  /\ cpc' = [cpc EXCEPT ![r] = "done"]
  /\ IF r \in Scoped THEN CloseEnter(r, r) ELSE UNCHANGED <<closeStep, busy>>
  /\ UNCHANGED <<closed, readers, queue, got, since, loopVars, closerVars>>

-----------------------------------------------------------------------------
(* RequestReader.close, run by the closer c.                               *)

(***************************************************************************)
(* The critical section: the flag is set and the list is taken over.       *)
(***************************************************************************)
TakeReadersUncopied(c) ==
  \* mutant: readers_to_close is the list itself, which is then cleared
  /\ closed' = TRUE
  /\ toClose' = [toClose EXCEPT ![c] = {}]
  /\ readers' = {}
  /\ UNCHANGED <<closeStep, queue, busy, consumerVars, arrived, matched, writing>>

TakeReaders(c) ==
  /\ closed' = TRUE
  /\ toClose' = [toClose EXCEPT ![c] = readers]
  /\ readers' = {}
  /\ UNCHANGED <<closeStep, queue, busy, consumerVars, arrived, matched, writing>>

(***************************************************************************)
(* The loop over readers_to_close, outside the lock.                       *)
(***************************************************************************)
CloseNextSkipped(c, r) ==
  \* mutant: a reader whose close() raised is skipped
  /\ r \in toClose[c]
  /\ toClose' = [toClose EXCEPT ![c] = @ \ {r}]
  /\ UNCHANGED <<closed, readers, closeStep, queue, busy, extPc, loopVars,
                 consumerVars>>

CloseNext(c, r) ==
  /\ r \in toClose[c]
  /\ CloseEnter(c, r)
  /\ toClose' = [toClose EXCEPT ![c] = @ \ {r}]
  /\ UNCHANGED <<closed, readers, queue, extPc, loopVars, consumerVars>>

CloseDone(c) == toClose[c] = {} /\ busy[c] = NoReader

ExtClose ==
  /\ "ext" \in Closers
  /\ \/ /\ extPc = "idle"
        /\ TakeReaders("ext")
        /\ extPc' = "close"
        /\ UNCHANGED loopPc
     \/ /\ extPc = "close"
        /\ CloseDone("ext")
        /\ extPc' = "done"
        /\ UNCHANGED <<closed, readers, closeStep, queue, toClose, busy,
                       consumerVars, loopVars>>

-----------------------------------------------------------------------------
(* The event loop.                                                         *)

(***************************************************************************)
(* _read_stream yields a line; it is dropped if the reader was closed in   *)
(* the meantime.                                                           *)
(***************************************************************************)
LoopRead(k) ==
  /\ loopPc = "read"
  /\ Len(arrived) < MaxLines
  /\ \/ /\ closed
        /\ loopPc' = "finally"
        /\ arrived' = arrived
     \/ /\ ~closed
        /\ loopPc' = "copy"
        /\ arrived' = Append(arrived, k)
  /\ UNCHANGED <<closed, readers, closeStep, queue, matched, writing, busy,
                 consumerVars, closerVars>>

(***************************************************************************)
(* _process_line: the list is copied under the lock and the filters, which *)
(* only look at the line, pick the readers it goes to.                     *)
(***************************************************************************)
LoopMatch ==
  /\ loopPc = "copy"
  /\ matched' = {r \in readers : arrived[Len(arrived)] \in Wants[r]}
  /\ loopPc' = "write"
  /\ UNCHANGED <<closed, readers, closeStep, queue, arrived, writing, busy,
                 consumerVars, closerVars>>

(***************************************************************************)
(* FilterReader.write: the closed test ...                                 *)
(***************************************************************************)
LoopWriteTestTwice(r) ==
  \* mutant: the reader is matched twice
  /\ loopPc = "write"
  /\ writing = NoReader
  /\ r \in matched
  /\ writing' = IF readerClosed(r) THEN NoReader ELSE r
  /\ UNCHANGED <<closed, readers, closeStep, queue, arrived, loopPc, matched,
                 busy, consumerVars, closerVars>>

LoopWriteTest(r) ==
  /\ loopPc = "write"
  /\ writing = NoReader
  /\ r \in matched
  /\ matched' = matched \ {r}
  /\ writing' = IF readerClosed(r) THEN NoReader ELSE r
  /\ UNCHANGED <<closed, readers, closeStep, queue, arrived, loopPc, busy,
                 consumerVars, closerVars>>

(***************************************************************************)
(* ... and the put, which another thread's close() may have overtaken.     *)
(***************************************************************************)
LoopWritePut ==
  /\ writing # NoReader
  /\ queue' = [queue EXCEPT ![writing] = Append(@, Len(arrived))]
  /\ writing' = NoReader
  /\ UNCHANGED <<closed, readers, closeStep, arrived, loopPc, matched, busy,
                 consumerVars, closerVars>>

LoopNextLineEarly ==
  \* mutant: the loop over the matched readers is left before its end
  /\ loopPc = "write"
  /\ writing = NoReader
  /\ loopPc' = "read"
  /\ UNCHANGED <<closed, readers, closeStep, queue, arrived, matched, writing,
                 busy, consumerVars, closerVars>>

LoopNextLine ==
  /\ loopPc = "write"
  /\ matched = {}
  /\ writing = NoReader
  /\ loopPc' = "read"
  /\ UNCHANGED <<closed, readers, closeStep, queue, arrived, matched, writing,
                 busy, consumerVars, closerVars>>

(***************************************************************************)
(* The stream ends: it closes the reader itself (stdin at end of file), or *)
(* it returns because it has seen the closed flag.                         *)
(***************************************************************************)
LoopStreamEnd ==
  /\ loopPc = "read"
  /\ loopPc' = IF closed THEN "finally" ELSE "eof"
  /\ UNCHANGED <<closed, readers, closeStep, queue, arrived, matched, writing,
                 busy, consumerVars, closerVars>>

(***************************************************************************)
(* The close() of the stream, then the one of event_loop's finally clause. *)
(***************************************************************************)
LoopClose ==
  \/ /\ loopPc \in {"eof", "finally"}
     /\ TakeReaders("loop")
     /\ loopPc' = IF loopPc = "eof" THEN "eofclose" ELSE "close"
     /\ UNCHANGED extPc
  \/ /\ loopPc \in {"eofclose", "close"}
     /\ CloseDone("loop")
     /\ loopPc' = IF loopPc = "eofclose" THEN "finally" ELSE "stopped"
     /\ UNCHANGED <<closed, readers, closeStep, queue, arrived, matched,
                    writing, busy, consumerVars, closerVars>>

-----------------------------------------------------------------------------
Consumer(r) == ReadHead(r) \/ ReadGet(r) \/ ReadTimeout(r) \/ ConsumerExit(r)

Closing(a) ==
  \/ CloseRemove(a)
  \/ ClosePut(a)
  \/ a \in Closers /\ \E r \in Readers : CloseNext(a, r)

LoopDispatch ==
  \/ LoopMatch
  \/ \E r \in Readers : LoopWriteTest(r)
  \/ LoopWritePut
  \/ LoopNextLine

Next ==
  \/ \E r \in Readers : Register(r) \/ Consumer(r) \/ Abandon(r)
  \/ \E a \in Actors : Closing(a)
  \/ ExtClose
  \/ \E k \in Kinds : LoopRead(k)
  \/ LoopDispatch
  \/ LoopStreamEnd
  \/ LoopClose

(***************************************************************************)
(* Threads that hold no lock are scheduled: a consumer keeps iterating and *)
(* a close() once begun is carried through.  The stream owes nothing.      *)
(***************************************************************************)
Fairness ==
  /\ \A r \in Readers : WF_vars(Consumer(r))
  /\ \A a \in Actors : WF_vars(Closing(a))

Spec == Init /\ [][Next]_vars
FairSpec == Spec /\ Fairness
-----------------------------------------------------------------------------
(* What the fan-out promises.                                              *)

(***************************************************************************)
(* What the consumer of r has been given: the lines it has got, and those  *)
(* that wait in its queue, the end marker among them if it is there.       *)
(***************************************************************************)
Delivered(r) == got[r] \o queue[r]

Lines(s) == {s[i] : i \in DOMAIN s} \ {None}

DeliveredSet(r) == Lines(Delivered(r))

(***************************************************************************)
(* The lines of s ascend: none twice, none after a later one.              *)
(***************************************************************************)
Ascending(s) ==
  \A i, j \in DOMAIN s : i < j /\ s[i] # None /\ s[j] # None => s[i] < s[j]

(***************************************************************************)
(* The lines that came after r was registered and that its filter accepts, *)
(* and whether the line in progress has not reached r yet.                 *)
(***************************************************************************)
Due(r) == {i \in since[r] + 1 .. Len(arrived) : arrived[i] \in Wants[r]}

InProgress(r) == loopPc = "copy" \/ r \in matched \/ writing = r

(***************************************************************************)
(* The end marker is in the queue q.                                       *)
(***************************************************************************)
Marked(q) == \E i \in DOMAIN q : q[i] = None

(***************************************************************************)
(* What a reader is given is a prefix of what it is due, however reads,    *)
(* writes, registrations and closes interleave: no line is delivered       *)
(* twice, none overtakes another, none reaches a reader whose filter       *)
(* refuses it, and a reader that is closed early loses a suffix of its     *)
(* lines, never one in the middle.                                         *)
(***************************************************************************)
InOrder ==
  \A r \in Readers :
    /\ Ascending(Delivered(r))
    /\ DeliveredSet(r) \subseteq Due(r)
    /\ \A j \in DeliveredSet(r), i \in Due(r) : i < j => i \in DeliveredSet(r)

(***************************************************************************)
(* An open reader in the list has been given every line that it was        *)
(* registered for, except the one the event loop is handing out.           *)
(***************************************************************************)
NothingMissed ==
  \A r \in readers : ~readerClosed(r) =>
    \A i \in Due(r) \ DeliveredSet(r) : i = Len(arrived) /\ InProgress(r)

(***************************************************************************)
(* After the end marker comes at most one line, the one whose write() had  *)
(* passed the closed test when close() set the flag; and the marker is put *)
(* once, however many threads close the reader.                            *)
(***************************************************************************)
AtMostOneLate ==
  \A r \in Readers : \A i, j \in DOMAIN queue[r] :
    queue[r][i] = None /\ i < j => j = i + 1 /\ queue[r][j] # None

(***************************************************************************)
(* A consumer that would wait on the queue of a closed reader finds the    *)
(* end marker in it, or a thread is about to put it there.                 *)
(***************************************************************************)
NoLostWakeup ==
  \A r \in Readers :
    readerClosed(r) /\ cpc[r] \in {"head", "get"} =>
      (\E a \in Actors : busy[a] = r) \/ Marked(queue[r])

(***************************************************************************)
(* A reader whose unregistration is done never gets back into the list, so *)
(* that the list holds no reader nobody will close: a callback that runs   *)
(* after RequestReader.close has emptied the list is harmless.             *)
(***************************************************************************)
ClosedUnregistered ==
  \A r \in Readers : closeStep[r] \in {"put", "closed"} => r \notin readers

(***************************************************************************)
(* Every reader that was in the list when RequestReader.close took it over *)
(* is closed, or is about to be: close() forgets none of them.             *)
(***************************************************************************)
NoneForgotten ==
  \A r \in Readers : cpc[r] \in {"head", "get"} /\ ~readerClosed(r) =>
    r \in readers \/ \E c \in Closers : r \in toClose[c]

(***************************************************************************)
(* However many threads close a reader, its consumer is not left waiting   *)
(* and the list holds no reader that nobody will close.                    *)
(***************************************************************************)
NobodyStranded == NoLostWakeup /\ ClosedUnregistered /\ NoneForgotten

(***************************************************************************)
(* A consumer whose reader is closed, or was registered when               *)
(* RequestReader.close took the list over, does not stay blocked: its      *)
(* iteration ends, with or without a timeout for the round.                *)
(***************************************************************************)
ClosedReaderEnds ==
  \A r \in Readers :
    readerClosed(r) \/ (\E c \in Closers : r \in toClose[c]) ~> cpc[r] = "done"
=============================================================================
