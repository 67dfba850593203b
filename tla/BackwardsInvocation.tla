------------------------ MODULE BackwardsInvocation ------------------------
(***************************************************************************)
(* Backwards invocations (core/runtime.py, BackwardsInvocation), made by   *)
(* the methods of invocations/*.py.  Over a full-duplex connection a call  *)
(* is composed with RequestReader: it registers a FilterReader for its     *)
(* request id, writes the request, and iterates the reader through         *)
(* _line_converter_wrapper; its answers come in on the stream the event    *)
(* loop reads, in between everybody else's.  A serverless plugin makes a   *)
(* HTTP request instead, and iterates the lines of the response.           *)
(***************************************************************************)
EXTENDS Naturals, Sequences, FiniteSets, InvocationMethods

CONSTANTS
  Invocations,           \* the calls, each with a request id of its own
  Methods,               \* the methods of invocations/*.py that are called
  MaxInvocationTimeout,  \* max_invocation_timeout, in rounds of a second
  Closers,               \* as in RequestReader
  MaxLines,              \* bound: the lines the stream or the responses have
  None, NoReader         \* as in RequestReader

ASSUME MethodsAssumption == Methods \subseteq AllMethods
ASSUME TimeoutAssumption == MaxInvocationTimeout \in Nat \ {0}
ASSUME FanoutAssumption ==
  /\ NoReader \notin Invocations
  /\ "loop" \in Closers
  /\ Closers \subseteq {"loop", "ext"}
  /\ Invocations \cap Closers = {}
  /\ None \notin Nat
  /\ MaxLines \in Nat

VARIABLES
  closed, readers, closeStep, queue, arrived, loopPc, matched, writing, cpc,
  got, since, toClose, extPc, busy,  \* of RequestReader
  ipc,      \* control of each call
  empty,    \* empty_response_count
  outcome,  \* history: how the call is over, as in InvocationChannel
  asked,    \* the calls whose request the daemon has
  talking,  \* the calls the daemon still has answers for
  transport,  \* "full_duplex" or "http", by session.install_method
  method,   \* the method of invocations/*.py that makes the call
  result,   \* what the method gave its caller: "none", "value" or "raised"
  merged,   \* the answers merged into the result
  http,     \* the response: "none", "open", "over" and "lost" as the daemon
            \* left it, "closed" by the call
  body,     \* the answers in the body of the response
  read      \* how many of them the call has read

readerVars == <<closed, readers, closeStep, queue, arrived, loopPc, matched,
                writing, cpc, got, since, toClose, extPc, busy>>
methodVars == <<transport, method>>
resultVars == <<outcome, result, merged>>
callVars == <<ipc, empty, resultVars>>
daemonVars == <<asked, talking>>
httpVars == <<http, body, read>>
vars == <<readerVars, callVars, daemonVars, methodVars, httpVars>>

(***************************************************************************)
(* The filter of a call looks at the request id of a line.                 *)
(***************************************************************************)
Events == {"response", "empty", "end", "error"}
Lines == [id : Invocations, event : Events]
filter == [i \in Invocations |-> {l \in Lines : l.id = i}]

RR == INSTANCE RequestReader WITH
        Readers <- Invocations, Kinds <- Lines, Wants <- filter,
        Timed <- Invocations, Scoped <- Invocations

TypeOK ==
  /\ RR!TypeOK
  /\ ipc \in [Invocations -> {"idle", "send", "poll", "caller", "leave", "left"}]
  /\ empty \in [Invocations -> 0 .. MaxInvocationTimeout]
  /\ outcome \in [Invocations -> {"open", "complete", "failed", "cut", "lost",
                                  "timeout", "unsent", "abandoned"}]
  /\ asked \subseteq Invocations
  /\ talking \subseteq asked
  /\ transport \in {"full_duplex", "http"}
  /\ method \in [Invocations -> Methods]
  /\ result \in [Invocations -> {"none", "value", "raised"}]
  /\ merged \in [Invocations -> 0 .. MaxLines]
  /\ http \in [Invocations -> {"none", "open", "over", "lost", "closed"}]
  /\ body \in [Invocations -> Seq(Events)]
  /\ read \in [Invocations -> 0 .. MaxLines]

Init ==
  /\ RR!Init
  /\ ipc = [i \in Invocations |-> "idle"]
  /\ empty = [i \in Invocations |-> 0]
  /\ outcome = [i \in Invocations |-> "open"]
  /\ asked = {}
  /\ talking = {}
  /\ transport \in {"full_duplex", "http"}
  /\ method \in [Invocations -> Methods]
  /\ result = [i \in Invocations |-> "none"]
  /\ merged = [i \in Invocations |-> 0]
  /\ http = [i \in Invocations |-> "none"]
  /\ body = [i \in Invocations |-> <<>>]
  /\ read = [i \in Invocations |-> 0]

-----------------------------------------------------------------------------
(* The call.                                                               *)

Goto(i, pc) == ipc' = [ipc EXCEPT ![i] = pc]

(***************************************************************************)
(* What the method gives its caller when the generator is exhausted, or    *)
(* when the generator raises.                                              *)
(***************************************************************************)
resultOfNoRaise(m, o) ==
  \* mutant: nothing is raised after the loop
  IF o \in {"complete", "cut"}
  THEN IF m.over = "stop" THEN "none" ELSE "value"
  ELSE "raised"

resultOf(m, o) ==
  IF o \in {"complete", "cut"}
  THEN CASE m.over = "stop" -> "none" [] m.over = "raise" -> "raised" [] OTHER -> "value"
  ELSE "raised"

(***************************************************************************)
(* The loop over the answers is over; o says why.                          *)
(***************************************************************************)
Over(i, o) ==
  /\ outcome' = [outcome EXCEPT ![i] = o]
  /\ result' = [result EXCEPT ![i] = resultOf(method[i], o)]
  /\ merged' = merged

Leave(i, o) == Goto(i, "leave") /\ Over(i, o)

(***************************************************************************)
(* _full_duplex_backwards_invoke: the reader is there before the request   *)
(* is written.                                                             *)
(***************************************************************************)
StartAfterSend(i) ==
  \* mutant: the request is written before the reader is registered
  /\ transport = "full_duplex"
  /\ ipc[i] = "idle"
  /\ \/ /\ i \notin asked
        /\ asked' = asked \cup {i}
        /\ talking' = talking \cup {i}
        /\ UNCHANGED <<callVars, readerVars>>
     \/ /\ i \in asked
        /\ RR!Register(i)
        /\ Goto(i, "poll")
        /\ UNCHANGED <<empty, resultVars, daemonVars>>
  /\ UNCHANGED <<methodVars, httpVars>>

Start(i) ==
  /\ transport = "full_duplex"
  /\ ipc[i] = "idle"
  /\ RR!Register(i)
  /\ Goto(i, "send")
  /\ UNCHANGED <<empty, resultVars, daemonVars, methodVars, httpVars>>

(***************************************************************************)
(* session_message: the request reaches the daemon, or is lost with the    *)
(* connection it was written to and write() returns all the same, or       *)
(* write() raises.                                                         *)
(***************************************************************************)
Send(i) ==
  /\ ipc[i] = "send"
  /\ \/ /\ asked' = asked \cup {i}
        /\ talking' = talking \cup {i}
        /\ Goto(i, "poll")
        /\ UNCHANGED resultVars
     \/ /\ Goto(i, "poll")
        /\ UNCHANGED <<resultVars, daemonVars>>
     \/ /\ Leave(i, "unsent")
        /\ UNCHANGED daemonVars
  /\ UNCHANGED <<empty, readerVars, methodVars, httpVars>>

(***************************************************************************)
(* The round begins; the iteration of a closed reader just ends.           *)
(***************************************************************************)
PollHead(i) ==
  /\ transport = "full_duplex"
  /\ ipc[i] = "poll"
  /\ RR!ReadHead(i)
  /\ IF cpc'[i] = "exit"
     THEN Goto(i, "left") /\ Over(i, "cut")
     ELSE UNCHANGED <<ipc, resultVars>>
  /\ UNCHANGED <<empty, daemonVars, methodVars, httpVars>>

(***************************************************************************)
(* What an answer does to the call: End and an answer without data break   *)
(* out of the loop, Error raises, anything else is for the caller.         *)
(***************************************************************************)
outcomeOfNoRaise(e) ==
  \* mutant: an error ends the call as End does
  IF e = "response" THEN "open" ELSE "complete"

outcomeOf(e) ==
  IF e = "response" THEN "open" ELSE IF e = "error" THEN "failed" ELSE "complete"

(***************************************************************************)
(* The body of the loop over an answer; one that is yielded to the method  *)
(* resets the count.                                                       *)
(***************************************************************************)
Answered(i, e) ==
  LET o == outcomeOf(e) IN
    IF o = "open"
    THEN /\ Goto(i, "caller")
         /\ empty' = [empty EXCEPT ![i] = 0]
         /\ UNCHANGED resultVars
    ELSE /\ Leave(i, o)
         /\ empty' = empty

(***************************************************************************)
(* The end marker of the reader ends the loop like End.                    *)
(***************************************************************************)
PollAnswer(i) ==
  /\ transport = "full_duplex"
  /\ ipc[i] = "poll"
  /\ RR!ReadGet(i)
  /\ LET head == Head(queue[i]) IN
     \/ /\ head = None
        /\ Goto(i, "left")
        /\ Over(i, "cut")
        /\ empty' = empty
     \/ /\ head # None
        /\ Answered(i, arrived[head].event)
  /\ UNCHANGED <<daemonVars, methodVars, httpVars>>


PollEmpty(i) ==
  /\ transport = "full_duplex"
  /\ ipc[i] = "poll"
  /\ RR!ReadTimeout(i)
  /\ empty' = [empty EXCEPT ![i] = @ + 1]
  /\ IF empty'[i] >= MaxInvocationTimeout
     THEN Leave(i, "timeout")
     ELSE UNCHANGED <<ipc, resultVars>>
  /\ UNCHANGED <<daemonVars, methodVars, httpVars>>

(***************************************************************************)
(* The method has an answer.  It merges it and asks for the next, or has   *)
(* its result and drops the generator, which closes it.                    *)
(***************************************************************************)
MethodStep(i) ==
  /\ ipc[i] = "caller"
  /\ \/ /\ method[i].each = "merge"
        /\ merged' = [merged EXCEPT ![i] = @ + 1]
        /\ Goto(i, "poll")
        /\ UNCHANGED <<outcome, result>>
     \/ /\ method[i].each \in {"return", "check"}
        /\ \E v \in IF method[i].each = "check" THEN {"value", "raised"} ELSE {"value"} :
             result' = [result EXCEPT ![i] = v]
        /\ outcome' = [outcome EXCEPT ![i] = "abandoned"]
        /\ Goto(i, "leave")
        /\ merged' = merged
  /\ UNCHANGED <<empty, readerVars, daemonVars, methodVars, httpVars>>

(***************************************************************************)
(* Whoever was handed the generator asks for the next answer, or closes it *)
(* (also when the answer does not parse as its data type).                 *)
(***************************************************************************)
CallerStep(i) ==
  /\ ipc[i] = "caller"
  /\ method[i].each = "yield"
  /\ \/ Goto(i, "poll") /\ outcome' = outcome
     \/ Goto(i, "leave") /\ outcome' = [outcome EXCEPT ![i] = "abandoned"]
  /\ UNCHANGED <<empty, result, merged, readerVars, daemonVars, methodVars, httpVars>>

(***************************************************************************)
(* The `with' block is left, however the loop ended.                       *)
(***************************************************************************)
LeaveWithOpen(i) ==
  \* mutant: no `with', and no close() either
  /\ ipc[i] = "leave"
  /\ Goto(i, "left")
  /\ UNCHANGED <<empty, resultVars, readerVars, daemonVars, methodVars, httpVars>>

LeaveWith(i) ==
  /\ transport = "full_duplex"
  /\ ipc[i] = "leave"
  /\ RR!Abandon(i)
  /\ Goto(i, "left")
  /\ UNCHANGED <<empty, resultVars, daemonVars, methodVars, httpVars>>

CloseReader(i) ==
  /\ RR!ConsumerExit(i) \/ RR!Closing(i)
  /\ UNCHANGED <<callVars, daemonVars, methodVars, httpVars>>

-----------------------------------------------------------------------------
(* _http_backwards_invoke: a request and a response of its own.            *)

(***************************************************************************)
(* The request is made.  It fails (no connection, a timeout, also before   *)
(* the response begins), or there is a response, whatever its status.      *)
(***************************************************************************)
HttpRequest(i) ==
  /\ transport = "http"
  /\ ipc[i] = "idle"
  /\ \/ /\ Goto(i, "left")
        /\ Over(i, "unsent")
        /\ UNCHANGED <<http, daemonVars>>
     \/ /\ http' = [http EXCEPT ![i] = "open"]
        /\ asked' = asked \cup {i}
        /\ talking' = talking \cup {i}
        /\ Goto(i, "poll")
        /\ UNCHANGED resultVars
  /\ UNCHANGED <<empty, readerVars, methodVars, body, read>>

(***************************************************************************)
(* The next line of the body.                                              *)
(***************************************************************************)
HttpLine(i) ==
  /\ transport = "http"
  /\ ipc[i] = "poll"
  /\ read[i] < Len(body[i])
  /\ read' = [read EXCEPT ![i] = @ + 1]
  /\ Answered(i, body[i][read'[i]])
  /\ UNCHANGED <<readerVars, daemonVars, methodVars, http, body>>

(***************************************************************************)
(* No line is left: the body is over, which ends the loop like End, the    *)
(* connection is gone, which raises, or the read timeout of the client     *)
(* passes, max_invocation_timeout seconds too.                             *)
(***************************************************************************)
HttpNoLine(i) ==
  /\ transport = "http"
  /\ ipc[i] = "poll"
  /\ read[i] = Len(body[i])
  /\ \/ http[i] = "over" /\ Leave(i, "cut")
     \/ http[i] = "lost" /\ Leave(i, "lost")
     \/ http[i] = "open" /\ Leave(i, "timeout")
  /\ UNCHANGED <<empty, readerVars, daemonVars, methodVars, httpVars>>

(***************************************************************************)
(* The `with' block closes the response and its client.                    *)
(***************************************************************************)
HttpLeave(i) ==
  /\ transport = "http"
  /\ ipc[i] = "leave"
  /\ http' = [http EXCEPT ![i] = "closed"]
  /\ Goto(i, "left")
  /\ UNCHANGED <<empty, resultVars, readerVars, daemonVars, methodVars, body, read>>

-----------------------------------------------------------------------------
(* The daemon and the event loop.                                          *)

(***************************************************************************)
(* The daemon answers a request it has got, End or Error last; it may as   *)
(* well never answer.  A line that comes in after close() is dropped.  An  *)
(* answer that does not validate raises in the call as Error does.         *)
(***************************************************************************)
Said(l) == IF l.event \in {"end", "error"} THEN talking \ {l.id} ELSE talking

DaemonAnswer(l) ==
  /\ transport = "full_duplex"
  /\ l.id \in talking
  /\ RR!LoopRead(l)
  /\ talking' = Said(l)
  /\ UNCHANGED <<callVars, asked, methodVars, httpVars>>

DaemonLine(l) ==
  /\ l.id \in talking
  /\ http[l.id] = "open"
  /\ Len(body[l.id]) < MaxLines
  /\ body' = [body EXCEPT ![l.id] = Append(@, l.event)]
  /\ talking' = Said(l)
  /\ UNCHANGED <<callVars, asked, readerVars, methodVars, http, read>>

(***************************************************************************)
(* The daemon ends a response, or the connection of one breaks.            *)
(***************************************************************************)
ResponseEnds(i) ==
  /\ http[i] = "open"
  /\ \E h \in {"over", "lost"} : http' = [http EXCEPT ![i] = h]
  /\ UNCHANGED <<callVars, daemonVars, readerVars, methodVars, body, read>>

Fanout ==
  /\ RR!LoopDispatch
  /\ UNCHANGED <<callVars, daemonVars, methodVars, httpVars>>

(***************************************************************************)
(* The connection goes away: the stream ends or somebody closes it.        *)
(***************************************************************************)
Disconnect ==
  /\ transport = "full_duplex"
  /\ RR!LoopStreamEnd \/ RR!LoopClose \/ RR!ExtClose
  /\ UNCHANGED <<callVars, daemonVars, methodVars, httpVars>>

CloseAll(c) ==
  /\ RR!Closing(c)
  /\ UNCHANGED <<callVars, daemonVars, methodVars, httpVars>>

-----------------------------------------------------------------------------
Call(i) ==
  \/ Send(i) \/ PollHead(i) \/ PollAnswer(i) \/ PollEmpty(i)
  \/ LeaveWith(i) \/ CloseReader(i) \/ MethodStep(i)
  \/ HttpLine(i) \/ HttpNoLine(i) \/ HttpLeave(i)

Next ==
  \/ \E i \in Invocations : Start(i) \/ HttpRequest(i) \/ Call(i) \/ CallerStep(i)
  \/ \E l \in Lines : DaemonAnswer(l) \/ DaemonLine(l)
  \/ \E i \in Invocations : ResponseEnds(i)
  \/ Fanout
  \/ Disconnect
  \/ \E c \in Closers : CloseAll(c)

Spec == Init /\ [][Next]_vars

(***************************************************************************)
(* Greenlets that hold no lock are run: a call goes on, a line taken from  *)
(* the stream is handed out and a close() is carried through.  Nothing is  *)
(* asked of the daemon, of the connection or of the caller.                *)
(***************************************************************************)
Fairness ==
  /\ \A i \in Invocations : WF_vars(Call(i))
  /\ WF_vars(Fanout)
  /\ \A c \in Closers : WF_vars(CloseAll(c))

FairSpec == Spec /\ Fairness

-----------------------------------------------------------------------------
(* What the caller may rely on.                                            *)

(***************************************************************************)
(* The answers to a call, in the order they came in (over a full-duplex    *)
(* connection the lines that carry its id, counted), how many of them the  *)
(* call has taken, and which.                                              *)
(***************************************************************************)
Mine(i) == {n \in DOMAIN arrived : arrived[n].id = i}

Rank(S, n) == Cardinality({m \in S : m <= n})

Nth(S, k) == CHOOSE n \in S : Rank(S, n) = k

AnswersTo(i) ==
  IF transport = "http"
  THEN body[i]
  ELSE [k \in 1 .. Cardinality(Mine(i)) |-> arrived[Nth(Mine(i), k)].event]

takenBy(i) == IF transport = "http" THEN read[i] ELSE Len(got[i])

Taken(i) ==
  [n \in 1 .. takenBy(i) |->
     IF transport = "http" THEN body[i][n] ELSE arrived[got[i][n]].event]

Channel == INSTANCE InvocationChannel WITH
             answers <- [i \in Invocations |-> AnswersTo(i)],
             taken <- [i \in Invocations |-> takenBy(i)],
             alive <- {i \in Invocations : IF transport = "http"
                                           THEN http[i] \in {"none", "open"}
                                           ELSE ~closed}

(***************************************************************************)
(* Calls that share one connection, one event loop and one list of readers *)
(* do not notice each other, no more than calls with a response each: each *)
(* takes its own answers in order and once, ends with the daemon's last    *)
(* word, and is cut off without one only when its reader was closed or its *)
(* response was over.                                                      *)
(***************************************************************************)
ImplementsChannel == Channel!Spec

(***************************************************************************)
(* A call does not time out over an answer that the event loop had handed  *)
(* out: registering before writing leaves no moment in which an early      *)
(* answer finds no reader.                                                 *)
(***************************************************************************)
TimeoutOnlyWhenDrained ==
  [][\A i \in Invocations :
       outcome'[i] = "timeout" /\ outcome[i] = "open" =>
         \A n \in DOMAIN arrived : arrived[n].id = i =>
           \/ n \in {got[i][m] : m \in DOMAIN got[i]}
           \/ n = Len(arrived) /\ loopPc # "read"
           \/ closed]_vars

(***************************************************************************)
(* The lines a call has taken from the stream are the first answers to it, *)
(* in order, and none of them is passed over.                              *)
(***************************************************************************)
FirstAnswers(i) ==
  LET taken == {got[i][n] : n \in DOMAIN got[i]}
  IN  /\ \A m, n \in DOMAIN got[i] : m < n => got[i][m] < got[i][n]
      /\ taken \subseteq Mine(i)
      /\ \A m \in Mine(i), n \in taken : m < n => m \in taken

(***************************************************************************)
(* A method that gives its caller a value has it from the daemon's answers *)
(* to this very call: from the first of them, or from all that came before *)
(* an End, with no error passed over and nothing merged twice.  A timeout  *)
(* or a request that was not sent is no value; nor is an exhausted         *)
(* generator, for a method that looks at one answer (storage.py: "If the   *)
(* storage invocation fails", it raises).  Only a method that merges may   *)
(* take the end of the connection for the end of the answers.              *)
(***************************************************************************)
ValueIsAnswered ==
  \A i \in Invocations : result[i] = "value" =>
    LET ended == outcome[i] = "complete"
        answers == takenBy(i) - (IF ended THEN 1 ELSE 0)
    IN  /\ outcome[i] \in {"complete", "abandoned", "cut"}
        /\ FirstAnswers(i)
        /\ \A n \in 1 .. answers : Taken(i)[n] = "response"
        /\ ended => takenBy(i) > 0 /\ Taken(i)[takenBy(i)] \in {"empty", "end"}
        /\ method[i].each \in {"return", "check"} => takenBy(i) = 1 /\ ~ended
        /\ method[i].each = "merge" => merged[i] = answers


(***************************************************************************)
(* A call that is over, on whatever path, leaves no reader behind in the   *)
(* list of the event loop and no response open.                            *)
(***************************************************************************)
ReaderReleased ==
  \A i \in Invocations :
    ipc[i] = "left" ~> i \notin readers /\ http[i] \in {"none", "closed"}
=============================================================================
