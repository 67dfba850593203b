--------------------- MODULE BackwardsInvocationProofs ---------------------
(***************************************************************************)
(* What holds of BackwardsInvocation for any calls, methods, timeout and   *)
(* number of lines.                                                        *)
(*                                                                         *)
(* The calls are composed with the fan-out, and so are the proofs: every   *)
(* step of BackwardsInvocation is one of RequestReader or leaves it alone, *)
(* hence what RequestReaderProofs proves of the fan-out holds of the one   *)
(* the calls use (FanoutRelied), and is not proved again.                  *)
(***************************************************************************)
EXTENDS BackwardsInvocation, FiniteSetTheorems, TLAPS

RRP == INSTANCE RequestReaderProofs WITH
         Readers <- Invocations, Kinds <- Lines, Wants <- filter,
         Timed <- Invocations, Scoped <- Invocations

-----------------------------------------------------------------------------
(* The fan-out inside.                                                     *)

(***************************************************************************)
(* The calls meet what RequestReader assumes of its constants.             *)
(***************************************************************************)
LEMMA FanoutAssumed ==
  /\ RRP!ReadersAssumption
  /\ RRP!ClosersAssumption
  /\ RRP!NoneAssumption
  /\ RRP!MaxLinesAssumption
BY FanoutAssumption
DEF RRP!ReadersAssumption, RRP!ClosersAssumption, RRP!NoneAssumption,
    RRP!MaxLinesAssumption, filter, Lines

(***************************************************************************)
(* A step of a call is a step of its reader's consumer, ...                *)
(***************************************************************************)
LEMMA ConsumerSteps ==
  ASSUME NEW i \in Invocations
  PROVE  /\ RR!Register(i) => RRP!Next
         /\ RR!ReadHead(i) \/ RR!ReadGet(i) \/ RR!ReadTimeout(i) => RRP!Next
         /\ RR!Abandon(i) \/ RR!ConsumerExit(i) => RRP!Next
<1> USE DEF RR!loopVars, RR!closerVars, RRP!loopVars, RRP!closerVars,
            RR!readerClosed, RRP!readerClosed
<1>1. RR!Register(i) => RRP!Register(i)
  BY DEF RR!Register, RRP!Register
<1>2. RR!ReadHead(i) => RRP!ReadHead(i)
  BY DEF RR!ReadHead, RRP!ReadHead
<1>3. RR!ReadGet(i) => RRP!ReadGet(i)
  BY DEF RR!ReadGet, RRP!ReadGet
<1>4. RR!ReadTimeout(i) => RRP!ReadTimeout(i)
  BY DEF RR!ReadTimeout, RRP!ReadTimeout
<1>5. RR!Abandon(i) => RRP!Abandon(i)
  BY DEF RR!Abandon, RRP!Abandon
<1>6. RR!ConsumerExit(i) => RRP!ConsumerExit(i)
  BY DEF RR!ConsumerExit, RRP!ConsumerExit, RR!CloseEnter, RRP!CloseEnter
<1> QED
  BY <1>1, <1>2, <1>3, <1>4, <1>5, <1>6 DEF RRP!Next, RRP!Consumer

(***************************************************************************)
(* ... of somebody who closes readers, ...                                 *)
(***************************************************************************)
LEMMA ClosingSteps ==
  /\ \A a \in Invocations \cup Closers : RR!Closing(a) => RRP!Next
  /\ RR!ExtClose => RRP!Next
<1> USE DEF RR!loopVars, RR!closerVars, RR!consumerVars, RRP!loopVars, RRP!closerVars,
            RRP!consumerVars, RR!readerClosed, RRP!readerClosed
<1>1. ASSUME NEW a \in Invocations \cup Closers, RR!Closing(a) PROVE RRP!Closing(a)
  <2>1. RR!CloseRemove(a) => RRP!CloseRemove(a)
    BY DEF RR!CloseRemove, RRP!CloseRemove
  <2>2. RR!ClosePut(a) => RRP!ClosePut(a)
    BY DEF RR!ClosePut, RRP!ClosePut
  <2>3. \A r \in Invocations : RR!CloseNext(a, r) => RRP!CloseNext(a, r)
    BY DEF RR!CloseNext, RRP!CloseNext, RR!CloseEnter, RRP!CloseEnter
  <2> QED
    BY <1>1, <2>1, <2>2, <2>3 DEF RR!Closing, RRP!Closing
<1>2. \A a \in Invocations \cup Closers : RR!Closing(a) => RRP!Next
  BY <1>1 DEF RRP!Next, RRP!Actors
<1>3. RR!ExtClose => RRP!ExtClose
  BY DEF RR!ExtClose, RRP!ExtClose, RR!TakeReaders, RRP!TakeReaders, RR!CloseDone,
     RRP!CloseDone
<1> QED
  BY <1>2, <1>3 DEF RRP!Next

(***************************************************************************)
(* ... or of the event loop.                                               *)
(***************************************************************************)
LEMMA LoopSteps ==
  /\ \A l \in Lines : RR!LoopRead(l) => RRP!Next
  /\ RR!LoopDispatch \/ RR!LoopStreamEnd \/ RR!LoopClose => RRP!Next
<1> USE DEF RR!loopVars, RR!closerVars, RR!consumerVars, RRP!loopVars, RRP!closerVars,
            RRP!consumerVars, RR!readerClosed, RRP!readerClosed
<1>1. \A l \in Lines : RR!LoopRead(l) => RRP!LoopRead(l)
  BY DEF RR!LoopRead, RRP!LoopRead
<1>2. RR!LoopDispatch => RRP!LoopDispatch
  <2>1. RR!LoopMatch => RRP!LoopMatch
    BY DEF RR!LoopMatch, RRP!LoopMatch
  <2>2. \A r \in Invocations : RR!LoopWriteTest(r) => RRP!LoopWriteTest(r)
    BY DEF RR!LoopWriteTest, RRP!LoopWriteTest
  <2>3. RR!LoopWritePut => RRP!LoopWritePut
    BY DEF RR!LoopWritePut, RRP!LoopWritePut
  <2>4. RR!LoopNextLine => RRP!LoopNextLine
    BY DEF RR!LoopNextLine, RRP!LoopNextLine
  <2> QED
    BY <2>1, <2>2, <2>3, <2>4 DEF RR!LoopDispatch, RRP!LoopDispatch
<1>3. RR!LoopStreamEnd => RRP!LoopStreamEnd
  BY DEF RR!LoopStreamEnd, RRP!LoopStreamEnd
<1>4. RR!LoopClose => RRP!LoopClose
  BY DEF RR!LoopClose, RRP!LoopClose, RR!TakeReaders, RRP!TakeReaders, RR!CloseDone,
     RRP!CloseDone
<1> QED
  BY <1>1, <1>2, <1>3, <1>4 DEF RRP!Next

(***************************************************************************)
(* Every step of the composition is a step of the fan-out or none.         *)
(***************************************************************************)
LEMMA StepInside == [Next]_vars => [RRP!Next]_(RRP!vars)
<1> SUFFICES ASSUME [Next]_vars PROVE RRP!Next \/ UNCHANGED readerVars
  BY DEF RRP!vars, readerVars
<1>1. ASSUME NEW i \in Invocations,
             Start(i) \/ PollHead(i) \/ PollAnswer(i) \/ PollEmpty(i) \/ LeaveWith(i)
      PROVE  RRP!Next
  BY <1>1, ConsumerSteps DEF Start, PollHead, PollAnswer, PollEmpty, LeaveWith
<1>2. ASSUME NEW i \in Invocations, CloseReader(i) PROVE RRP!Next
  BY <1>2, ConsumerSteps, ClosingSteps DEF CloseReader
<1>3. ASSUME NEW i \in Invocations,
             \/ Send(i) \/ MethodStep(i) \/ CallerStep(i) \/ HttpRequest(i)
             \/ HttpLine(i) \/ HttpNoLine(i) \/ HttpLeave(i) \/ ResponseEnds(i)
      PROVE  UNCHANGED readerVars
  BY <1>3 DEF Send, MethodStep, CallerStep, HttpRequest, HttpLine, HttpNoLine,
     HttpLeave, ResponseEnds
<1>4. ASSUME NEW l \in Lines, DaemonAnswer(l) PROVE RRP!Next
  BY <1>4, LoopSteps DEF DaemonAnswer
<1>5. ASSUME NEW l \in Lines, DaemonLine(l) PROVE UNCHANGED readerVars
  BY <1>5 DEF DaemonLine
<1>6. Fanout \/ Disconnect => RRP!Next
  BY LoopSteps, ClosingSteps DEF Fanout, Disconnect
<1>7. ASSUME NEW c \in Closers, CloseAll(c) PROVE RRP!Next
  BY <1>7, ClosingSteps DEF CloseAll
<1>8. UNCHANGED vars => UNCHANGED readerVars
  BY DEF vars
<1> QED
  BY <1>1, <1>2, <1>3, <1>4, <1>5, <1>6, <1>7, <1>8 DEF Next, Call

(***************************************************************************)
(* The calls use the fan-out as it is specified.                           *)
(***************************************************************************)
THEOREM UsesTheFanout == Spec => RRP!Spec
<1>1. Init => RRP!Init
  BY DEF Init, RR!Init, RRP!Init, RR!Actors, RRP!Actors
<1> QED
  BY <1>1, StepInside, PTL DEF Spec, RRP!Spec

(***************************************************************************)
(* So they may rely on it.                                                 *)
(***************************************************************************)
FanoutInv ==
  /\ RRP!TypeOK
  /\ RRP!LoopInv
  /\ RRP!RegInv
  /\ RRP!HandOutInv
  /\ RRP!LateInv
  /\ RRP!InOrder
  /\ RRP!NothingMissed
  /\ RRP!ClosedByItsOwn

LEMMA FanoutRelied == Spec => []FanoutInv
<1>1. RRP!Spec => [](RRP!TypeOK /\ RRP!LoopInv /\ RRP!RegInv /\ RRP!HandOutInv
                     /\ RRP!LateInv /\ RRP!InOrder /\ RRP!NothingMissed
                     /\ RRP!ClosedByItsOwn)
  BY FanoutAssumed, RRP!Relied
<1> QED
  BY <1>1, UsesTheFanout, PTL DEF FanoutInv

-----------------------------------------------------------------------------
(* The invariants of the calls.                                            *)

(***************************************************************************)
(* The part of the type invariant that the proofs below need.              *)
(***************************************************************************)
Places == {"idle", "send", "poll", "caller", "leave", "left"}
Outcomes == {"open", "complete", "failed", "cut", "lost", "timeout", "unsent", "abandoned"}
Results == {"none", "value", "raised"}

CallTypes ==
  /\ ipc \in [Invocations -> Places]
  /\ outcome \in [Invocations -> Outcomes]
  /\ result \in [Invocations -> Results]
  /\ merged \in [Invocations -> Nat]

WireTypes ==
  /\ transport \in {"full_duplex", "http"}
  /\ asked \subseteq Invocations
  /\ talking \subseteq asked
  /\ body \in [Invocations -> Seq(Events)]
  /\ read \in [Invocations -> Nat]
  /\ \A i \in Invocations : read[i] <= Len(body[i])

CallOK == CallTypes /\ WireTypes

(***************************************************************************)
(* Where a call is, its reader's consumer is too; a serverless plugin has  *)
(* no readers, and no lines come in.                                       *)
(***************************************************************************)
PlaceInv ==
  IF transport = "full_duplex"
  THEN \A i \in Invocations :
         /\ ipc[i] = "idle" => cpc[i] = "none"
         /\ ipc[i] \in {"send", "caller", "leave"} => cpc[i] = "head"
         /\ ipc[i] = "poll" => cpc[i] \in {"head", "get"}
         /\ ipc[i] = "left" => cpc[i] \in {"exit", "done"}
  ELSE /\ arrived = <<>>
       /\ \A i \in Invocations : cpc[i] = "none" /\ got[i] = <<>>

(***************************************************************************)
(* The reader is registered before the daemon is asked, and so before the  *)
(* first answer comes in.                                                  *)
(***************************************************************************)
AskedInv ==
  /\ \A i \in asked : ipc[i] # "idle"
  /\ \A n \in DOMAIN arrived :
       arrived[n].id \in asked /\ since[arrived[n].id] < n

(***************************************************************************)
(* The lines that a call has taken are lines that came in.                 *)
(***************************************************************************)
GotInv ==
  /\ arrived \in Seq(Lines)
  /\ got \in [Invocations -> Seq(Nat)]
  /\ \A i \in Invocations : \A n \in DOMAIN got[i] : got[i][n] \in DOMAIN arrived

-----------------------------------------------------------------------------
(* What follows from the fan-out at any time.                              *)

(***************************************************************************)
(* A call takes only lines that came in for it.                            *)
(***************************************************************************)
LEMMA GotIsDue ==
  ASSUME FanoutInv, NEW i \in Invocations
  PROVE  /\ arrived \in Seq(Lines)
         /\ got \in [Invocations -> Seq(Nat)]
         /\ queue[i] \in Seq(Nat \cup {None})
         /\ \A n \in DOMAIN got[i] :
              got[i][n] \in DOMAIN arrived /\ arrived[got[i][n]].id = i
         /\ \A m, n \in DOMAIN got[i] : m < n => got[i][m] < got[i][n]
         /\ \A n \in DOMAIN queue[i] : queue[i][n] # None =>
              queue[i][n] \in DOMAIN arrived /\ arrived[queue[i][n]].id = i
<1>1. /\ arrived \in Seq(Lines)
      /\ got \in [Invocations -> Seq(RRP!Line)]
      /\ queue \in [Invocations -> Seq(RRP!Line \cup {None})]
      /\ since[i] \in Nat
  BY DEF FanoutInv, RRP!TypeOK
<1>2. got \in [Invocations -> Seq(Nat)] /\ queue[i] \in Seq(Nat \cup {None})
  BY <1>1 DEF RRP!Line
<1>3. PICK g : g = got[i]
  OBVIOUS
<1>4. PICK q : q = queue[i]
  OBVIOUS
<1>5. g \in Seq(Nat) /\ q \in Seq(Nat \cup {None}) /\ None \notin Nat
  BY <1>2, <1>3, <1>4, FanoutAssumption
<1>6. RRP!Delivered(i) = g \o q
  BY <1>3, <1>4 DEF RRP!Delivered
<1>7. /\ \A n \in DOMAIN g : n \in DOMAIN (g \o q) /\ (g \o q)[n] = g[n] /\ g[n] # None
      /\ \A n \in DOMAIN q : Len(g) + n \in DOMAIN (g \o q) /\ (g \o q)[Len(g) + n] = q[n]
  BY <1>5
<1>8. RRP!Ascending(g \o q) /\ RRP!Lines(g \o q) \subseteq RRP!Due(i)
  BY <1>6 DEF FanoutInv, RRP!InOrder, RRP!DeliveredSet
<1>9. \A n \in RRP!Due(i) : n \in DOMAIN arrived /\ arrived[n].id = i
  BY <1>1 DEF RRP!Due, filter
<1>10. \A n \in DOMAIN g : g[n] \in RRP!Due(i)
  BY <1>7, <1>8 DEF RRP!Lines
<1>11. \A n \in DOMAIN q : q[n] # None => q[n] \in RRP!Due(i)
  BY <1>7, <1>8 DEF RRP!Lines
<1>12. \A m, n \in DOMAIN g : m < n => g[m] < g[n]
  BY <1>7, <1>8 DEF RRP!Ascending
<1> QED
  BY <1>1, <1>2, <1>3, <1>4, <1>9, <1>10, <1>11, <1>12

(***************************************************************************)
(* The same of all calls at once.                                          *)
(***************************************************************************)
LEMMA GotInside == FanoutInv => GotInv
<1>1. FanoutInv => arrived \in Seq(Lines) /\ got \in [Invocations -> Seq(Nat)]
  BY DEF FanoutInv, RRP!TypeOK, RRP!Line
<1> QED
  BY <1>1, GotIsDue DEF GotInv

-----------------------------------------------------------------------------
(* What the steps leave alone.                                             *)

(***************************************************************************)
(* All that the invariants look at.                                        *)
(***************************************************************************)
callView == <<cpc, got, since, arrived, ipc, outcome, result, merged, asked, talking,
              transport, method, body, read>>

(***************************************************************************)
(* Handing out lines and closing the connection touch no call, and neither *)
(* does the end of a response.                                             *)
(***************************************************************************)
LEMMA QuietSteps ==
  /\ \A a \in Invocations \cup Closers : RR!Closing(a) => UNCHANGED <<cpc, got, since, arrived>>
  /\ Fanout \/ Disconnect => UNCHANGED callView
  /\ \A c \in Closers : CloseAll(c) => UNCHANGED callView
  /\ \A i \in Invocations : ResponseEnds(i) => UNCHANGED callView
  /\ UNCHANGED vars => UNCHANGED callView
<1> USE DEF callView, callVars, resultVars, daemonVars, methodVars, httpVars, readerVars,
            RR!loopVars, RR!closerVars, RR!consumerVars
<1>1. \A a \in Invocations \cup Closers :
        RR!Closing(a) => UNCHANGED <<cpc, got, since, arrived>>
  BY DEF RR!Closing, RR!CloseRemove, RR!ClosePut, RR!CloseNext
<1>2. Fanout => UNCHANGED callView
  BY DEF Fanout, RR!LoopDispatch, RR!LoopMatch, RR!LoopWriteTest, RR!LoopWritePut,
     RR!LoopNextLine
<1>3. Disconnect => UNCHANGED callView
  BY DEF Disconnect, RR!LoopStreamEnd, RR!LoopClose, RR!ExtClose, RR!TakeReaders
<1>4. \A c \in Closers : CloseAll(c) => UNCHANGED callView
  BY <1>1 DEF CloseAll
<1>5. \A i \in Invocations : ResponseEnds(i) => UNCHANGED callView
  BY DEF ResponseEnds
<1>6. UNCHANGED vars => UNCHANGED callView
  BY DEF vars
<1> QED
  BY <1>1, <1>2, <1>3, <1>4, <1>5, <1>6

(***************************************************************************)
(* The reader of a call that has left is closed without the call's doing.  *)
(***************************************************************************)
LEMMA CloseReaderView ==
  ASSUME NEW i \in Invocations, CloseReader(i)
  PROVE  /\ UNCHANGED <<got, since, arrived, callVars, daemonVars, methodVars, httpVars>>
         /\ \/ cpc' = cpc
            \/ cpc[i] = "exit" /\ cpc' = [cpc EXCEPT ![i] = "done"]
<1>1. RR!Closing(i) => UNCHANGED <<cpc, got, since, arrived>>
  BY QuietSteps
<1> QED
  BY <1>1 DEF CloseReader, RR!ConsumerExit, RR!loopVars

-----------------------------------------------------------------------------
(* Types and places.                                                       *)

(***************************************************************************)
(* The invariants depend on what they look at.                             *)
(***************************************************************************)
LEMMA PlaceFrame ==
  ASSUME CallOK, PlaceInv, AskedInv, UNCHANGED callView
  PROVE  CallOK' /\ PlaceInv' /\ AskedInv'
BY DEF CallOK, CallTypes, WireTypes, PlaceInv, AskedInv, callView

(***************************************************************************)
(* The control, the outcome and the result of a call change to proper      *)
(* ones.                                                                   *)
(***************************************************************************)
LEMMA CallMoves ==
  ASSUME CallTypes, NEW i \in Invocations
  PROVE  /\ \A pc \in Places : Goto(i, pc) => ipc' \in [Invocations -> Places]
         /\ \A o \in Outcomes : Over(i, o) =>
              /\ outcome' \in [Invocations -> Outcomes]
              /\ result' \in [Invocations -> Results]
              /\ merged' \in [Invocations -> Nat]
         /\ \A o \in Outcomes : Leave(i, o) => CallTypes'
         /\ \A e : Answered(i, e) => CallTypes'
<1>0. \A m, o : resultOf(m, o) \in Results
  BY DEF resultOf, Results
<1>1. \A pc \in Places : Goto(i, pc) => ipc' \in [Invocations -> Places]
  BY DEF Goto, CallTypes
<1>2. ASSUME NEW o \in Outcomes, Over(i, o)
      PROVE  /\ outcome' \in [Invocations -> Outcomes]
             /\ result' \in [Invocations -> Results]
             /\ merged' \in [Invocations -> Nat]
  <2>1. /\ outcome' = [outcome EXCEPT ![i] = o]
        /\ result' = [result EXCEPT ![i] = resultOf(method[i], o)]
        /\ merged' = merged
    BY <1>2 DEF Over
  <2> QED
    BY <1>0, <2>1 DEF CallTypes
<1>3. "leave" \in Places /\ "caller" \in Places
  BY DEF Places
<1>4. ASSUME NEW o \in Outcomes, Leave(i, o) PROVE CallTypes'
  <2>1. Goto(i, "leave") /\ Over(i, o)
    BY <1>4 DEF Leave
  <2> QED
    BY <1>1, <1>2, <1>3, <2>1 DEF CallTypes
<1>5. ASSUME NEW e, Answered(i, e) PROVE CallTypes'
  <2>1. outcomeOf(e) \in Outcomes
    BY DEF outcomeOf, Outcomes
  <2>2. (Goto(i, "caller") /\ UNCHANGED resultVars) \/ Leave(i, outcomeOf(e))
    BY <1>5 DEF Answered
  <2>3. ASSUME Goto(i, "caller"), UNCHANGED resultVars PROVE CallTypes'
    BY <1>1, <1>3, <2>3 DEF CallTypes, resultVars
  <2> QED
    BY <1>4, <2>1, <2>2, <2>3
<1> QED
  BY <1>1, <1>2, <1>4, <1>5

(***************************************************************************)
(* Every step keeps the types of the calls, ...                            *)
(***************************************************************************)
LEMMA CallTypesStep == CallTypes /\ [Next]_vars => CallTypes'
<1> SUFFICES ASSUME CallTypes, [Next]_vars PROVE CallTypes'
  OBVIOUS
<1>0. /\ {"cut", "unsent", "timeout", "lost", "abandoned"} \subseteq Outcomes
      /\ {"send", "poll", "caller", "leave", "left"} \subseteq Places
      /\ {"value", "raised"} \subseteq Results
  BY DEF Outcomes, Places, Results
<1>a. ASSUME UNCHANGED <<ipc, outcome, result, merged>> PROVE CallTypes'
  BY <1>a DEF CallTypes
<1>b. ASSUME NEW i \in Invocations, NEW pc \in Places, Goto(i, pc),
             UNCHANGED <<outcome, result, merged>>
      PROVE  CallTypes'
  BY <1>b, CallMoves DEF CallTypes
<1>c. ASSUME NEW i \in Invocations, NEW pc \in Places, Goto(i, pc),
             NEW o \in Outcomes, Over(i, o)
      PROVE  CallTypes'
  BY <1>c, CallMoves DEF CallTypes
<1>1. ASSUME NEW i \in Invocations,
             Start(i) \/ LeaveWith(i) \/ HttpLeave(i)
      PROVE  CallTypes'
  BY <1>0, <1>1, <1>b DEF Start, LeaveWith, HttpLeave, resultVars
<1>2. ASSUME NEW i \in Invocations, CloseReader(i) PROVE CallTypes'
  BY <1>a, <1>2 DEF CloseReader, callVars, resultVars
<1>3. ASSUME NEW i \in Invocations, Send(i) PROVE CallTypes'
  BY <1>0, <1>3, <1>b, CallMoves DEF Send, resultVars
<1>4. ASSUME NEW i \in Invocations, HttpRequest(i) PROVE CallTypes'
  BY <1>0, <1>4, <1>b, <1>c DEF HttpRequest, resultVars
<1>5. ASSUME NEW i \in Invocations, PollHead(i) PROVE CallTypes'
  BY <1>0, <1>5, <1>a, <1>c DEF PollHead, resultVars
<1>6. ASSUME NEW i \in Invocations, PollEmpty(i) PROVE CallTypes'
  BY <1>0, <1>6, <1>a, CallMoves DEF PollEmpty, resultVars
<1>7. ASSUME NEW i \in Invocations, PollAnswer(i) PROVE CallTypes'
  BY <1>0, <1>7, <1>c, CallMoves DEF PollAnswer
<1>8. ASSUME NEW i \in Invocations, HttpLine(i) PROVE CallTypes'
  BY <1>8, CallMoves DEF HttpLine
<1>9. ASSUME NEW i \in Invocations, HttpNoLine(i) PROVE CallTypes'
  BY <1>0, <1>9, CallMoves DEF HttpNoLine
<1>10. ASSUME NEW i \in Invocations, MethodStep(i) PROVE CallTypes'
  <2>1. ipc' \in [Invocations -> Places]
    BY <1>0, <1>10, CallMoves DEF MethodStep
  <2>2. outcome' \in [Invocations -> Outcomes] /\ result' \in [Invocations -> Results]
    BY <1>0, <1>10 DEF MethodStep, CallTypes
  <2>3. merged' \in [Invocations -> Nat]
    BY <1>10 DEF MethodStep, CallTypes
  <2> QED
    BY <2>1, <2>2, <2>3 DEF CallTypes
<1>11. ASSUME NEW i \in Invocations, CallerStep(i) PROVE CallTypes'
  <2>1. ipc' \in [Invocations -> Places]
    BY <1>0, <1>11, CallMoves DEF CallerStep
  <2>2. outcome' \in [Invocations -> Outcomes] /\ UNCHANGED <<result, merged>>
    BY <1>0, <1>11 DEF CallerStep, CallTypes
  <2> QED
    BY <2>1, <2>2 DEF CallTypes
<1>12. ASSUME NEW l \in Lines, DaemonAnswer(l) \/ DaemonLine(l) PROVE CallTypes'
  BY <1>a, <1>12 DEF DaemonAnswer, DaemonLine, callVars, resultVars
<1>13. UNCHANGED callView => CallTypes'
  BY <1>a DEF callView
<1> QED
  BY <1>1, <1>2, <1>3, <1>4, <1>5, <1>6, <1>7, <1>8, <1>9, <1>10, <1>11, <1>12, <1>13,
     QuietSteps DEF Next, Call

(***************************************************************************)
(* ... and those of the wire.                                              *)
(***************************************************************************)
LEMMA WireTypesStep == WireTypes /\ [Next]_vars => WireTypes'
<1> SUFFICES ASSUME WireTypes, [Next]_vars PROVE WireTypes'
  OBVIOUS
<1> USE DEF callVars, resultVars, daemonVars, methodVars, httpVars
<1>a. ASSUME UNCHANGED <<transport, asked, talking, body, read>> PROVE WireTypes'
  BY <1>a DEF WireTypes
<1>b. ASSUME NEW i \in Invocations, asked' = asked \cup {i}, talking' = talking \cup {i},
             UNCHANGED <<transport, body, read>>
      PROVE  WireTypes'
  BY <1>b DEF WireTypes
<1>1. ASSUME NEW i \in Invocations,
             \/ Start(i) \/ PollHead(i) \/ PollAnswer(i) \/ PollEmpty(i)
             \/ LeaveWith(i) \/ CloseReader(i)
      PROVE  WireTypes'
  BY <1>1, <1>a DEF Start, PollHead, PollAnswer, PollEmpty, LeaveWith, CloseReader
<1>2. ASSUME NEW i \in Invocations,
             MethodStep(i) \/ CallerStep(i) \/ HttpNoLine(i) \/ HttpLeave(i)
      PROVE  WireTypes'
  BY <1>2, <1>a DEF MethodStep, CallerStep, HttpNoLine, HttpLeave
<1>3. ASSUME NEW i \in Invocations, Send(i) \/ HttpRequest(i) PROVE WireTypes'
  BY <1>3, <1>a, <1>b DEF Send, HttpRequest
<1>4. ASSUME NEW i \in Invocations, HttpLine(i) PROVE WireTypes'
  <2>1. /\ read' = [read EXCEPT ![i] = read[i] + 1] /\ body' = body
        /\ read[i] < Len(body[i]) /\ read[i] \in Nat /\ Len(body[i]) \in Nat
    BY <1>4 DEF HttpLine, WireTypes
  <2>2. read' \in [Invocations -> Nat] /\ \A j \in Invocations : read'[j] <= Len(body'[j])
    BY <2>1 DEF WireTypes
  <2> QED
    BY <1>4, <2>1, <2>2 DEF HttpLine, WireTypes
<1>5. ASSUME NEW l \in Lines, DaemonAnswer(l) PROVE WireTypes'
  BY <1>5 DEF DaemonAnswer, Said, WireTypes
<1>6. ASSUME NEW l \in Lines, DaemonLine(l) PROVE WireTypes'
  <2>1. l.id \in Invocations /\ l.event \in Events
    BY DEF Lines
  <2>2. PICK b : b = body[l.id]
    OBVIOUS
  <2>3. b \in Seq(Events) /\ Append(b, l.event) \in Seq(Events)
        /\ Len(b) \in Nat /\ Len(Append(b, l.event)) = Len(b) + 1
    BY <2>1, <2>2 DEF WireTypes
  <2>4. body' = [body EXCEPT ![l.id] = Append(b, l.event)] /\ read' = read
    BY <1>6, <2>2 DEF DaemonLine
  <2>5. body' \in [Invocations -> Seq(Events)]
    BY <2>1, <2>3, <2>4 DEF WireTypes
  <2>6. read[l.id] \in Nat /\ read[l.id] <= Len(b) /\ body'[l.id] = Append(b, l.event)
    BY <2>1, <2>2, <2>4 DEF WireTypes
  <2>7. \A j \in Invocations : read'[j] <= Len(body'[j])
    <3>1. read'[l.id] <= Len(body'[l.id])
      BY <2>3, <2>4, <2>6
    <3>2. \A j \in Invocations : j # l.id => body'[j] = body[j]
      BY <2>4 DEF WireTypes
    <3> QED
      BY <2>4, <3>1, <3>2 DEF WireTypes
  <2>8. UNCHANGED <<transport, asked>> /\ talking' \subseteq talking
    BY <1>6 DEF DaemonLine, Said
  <2> QED
    BY <2>4, <2>5, <2>7, <2>8 DEF WireTypes
<1>7. UNCHANGED callView => WireTypes'
  BY <1>a DEF callView
<1> QED
  BY <1>1, <1>2, <1>3, <1>4, <1>5, <1>6, <1>7, QuietSteps DEF Next, Call

(***************************************************************************)
(* A call moves together with the consumer of its reader.                  *)
(***************************************************************************)
Steps(i) ==
  \/ Start(i) \/ Send(i) \/ PollHead(i) \/ PollAnswer(i) \/ PollEmpty(i)
  \/ LeaveWith(i) \/ MethodStep(i) \/ CallerStep(i)

LEMMA DuplexPlaces ==
  ASSUME CallOK, GotInv, PlaceInv, transport = "full_duplex",
         NEW i \in Invocations, cpc \in [Invocations -> {"none", "head", "get", "exit", "done"}],
         Steps(i)
  PROVE  /\ transport' = transport
         /\ \A j \in Invocations : j # i => ipc'[j] = ipc[j] /\ cpc'[j] = cpc[j]
         /\ ipc'[i] \in {"send", "caller", "leave"} => cpc'[i] = "head"
         /\ ipc'[i] = "poll" => cpc'[i] \in {"head", "get"}
         /\ ipc'[i] = "left" => cpc'[i] \in {"exit", "done"}
         /\ ipc'[i] # "idle"
<1> USE DEF methodVars, callVars, resultVars, readerVars, Goto, Leave
<1>0. /\ DOMAIN ipc = Invocations /\ DOMAIN cpc = Invocations
      /\ ipc[i] \in {"send", "caller", "leave"} => cpc[i] = "head"
      /\ ipc[i] = "poll" => cpc[i] \in {"head", "get"}
  BY DEF PlaceInv, CallOK, CallTypes
<1>1. CASE Start(i)
  BY <1>0, <1>1 DEF Start, RR!Register
<1>2. CASE Send(i)
  BY <1>0, <1>2 DEF Send
<1>3. CASE PollHead(i)
  BY <1>0, <1>3 DEF PollHead, RR!ReadHead
<1>4. CASE PollAnswer(i)
  <2>1. CASE Head(queue[i]) = None
    BY <1>0, <1>4, <2>1 DEF PollAnswer, RR!ReadGet
  <2>2. CASE Head(queue[i]) # None
    BY <1>0, <1>4, <2>2 DEF PollAnswer, RR!ReadGet, Answered
  <2> QED
    BY <2>1, <2>2
<1>5. CASE PollEmpty(i)
  BY <1>0, <1>5 DEF PollEmpty, RR!ReadTimeout
<1>6. CASE LeaveWith(i)
  BY <1>0, <1>6 DEF LeaveWith, RR!Abandon
<1>7. CASE MethodStep(i)
  BY <1>0, <1>7 DEF MethodStep
<1>8. CASE CallerStep(i)
  BY <1>0, <1>8 DEF CallerStep
<1> QED
  BY <1>1, <1>2, <1>3, <1>4, <1>5, <1>6, <1>7, <1>8 DEF Steps

(***************************************************************************)
(* Every step keeps a call and its consumer together.                      *)
(***************************************************************************)
LEMMA PlaceStep ==
  FanoutInv /\ CallOK /\ GotInv /\ PlaceInv /\ [Next]_vars => PlaceInv'
<1> SUFFICES ASSUME FanoutInv, CallOK, GotInv, PlaceInv, [Next]_vars PROVE PlaceInv'
  OBVIOUS
<1> USE DEF methodVars
<1>0. /\ transport \in {"full_duplex", "http"}
      /\ cpc \in [Invocations -> {"none", "head", "get", "exit", "done"}]
  BY DEF FanoutInv, RRP!TypeOK, CallOK, WireTypes
<1>a. ASSUME UNCHANGED <<transport, arrived, got, cpc, ipc>> PROVE PlaceInv'
  BY <1>a DEF PlaceInv
<1>b. ASSUME transport = "http", UNCHANGED <<transport, arrived, got, cpc>> PROVE PlaceInv'
  BY <1>b DEF PlaceInv
<1>1. ASSUME NEW i \in Invocations, Steps(i), transport = "full_duplex" PROVE PlaceInv'
  <2>1. /\ transport' = transport
        /\ \A j \in Invocations : j # i => ipc'[j] = ipc[j] /\ cpc'[j] = cpc[j]
        /\ ipc'[i] \in {"send", "caller", "leave"} => cpc'[i] = "head"
        /\ ipc'[i] = "poll" => cpc'[i] \in {"head", "get"}
        /\ ipc'[i] = "left" => cpc'[i] \in {"exit", "done"}
        /\ ipc'[i] # "idle"
    BY <1>0, <1>1, DuplexPlaces
  <2> QED
    BY <1>1, <2>1 DEF PlaceInv
<1>2. ASSUME NEW i \in Invocations, Send(i) \/ MethodStep(i) \/ CallerStep(i),
             transport = "http"
      PROVE  PlaceInv'
  BY <1>2, <1>b DEF Send, MethodStep, CallerStep, readerVars
<1>3. ASSUME NEW i \in Invocations,
             Start(i) \/ PollHead(i) \/ PollAnswer(i) \/ PollEmpty(i) \/ LeaveWith(i)
      PROVE  transport = "full_duplex"
  BY <1>3 DEF Start, PollHead, PollAnswer, PollEmpty, LeaveWith
<1>4. ASSUME NEW i \in Invocations, CloseReader(i) PROVE PlaceInv'
  <2>1. /\ UNCHANGED <<transport, arrived, got, ipc>>
        /\ \/ cpc' = cpc
           \/ cpc[i] = "exit" /\ cpc' = [cpc EXCEPT ![i] = "done"]
    BY <1>4, CloseReaderView DEF callVars
  <2>2. ASSUME cpc[i] = "exit", cpc' = [cpc EXCEPT ![i] = "done"] PROVE PlaceInv'
    <3>1. transport = "full_duplex"
      BY <1>0, <2>2 DEF PlaceInv
    <3>2. /\ ipc[i] = "left" \/ ipc[i] \notin Places
          /\ cpc'[i] = "done" /\ \A j \in Invocations : j # i => cpc'[j] = cpc[j]
      BY <1>0, <2>2, <3>1 DEF PlaceInv, Places
    <3>3. ipc[i] \in Places
      BY DEF CallOK, CallTypes
    <3> QED
      BY <2>1, <3>1, <3>2, <3>3 DEF PlaceInv
  <2> QED
    BY <1>a, <2>1, <2>2
<1>5. ASSUME NEW i \in Invocations,
             HttpRequest(i) \/ HttpLine(i) \/ HttpNoLine(i) \/ HttpLeave(i)
      PROVE  PlaceInv'
  BY <1>5, <1>b DEF HttpRequest, HttpLine, HttpNoLine, HttpLeave, readerVars
<1>6. ASSUME NEW l \in Lines, DaemonAnswer(l) PROVE PlaceInv'
  <2>1. transport = "full_duplex" /\ UNCHANGED <<transport, cpc, ipc>>
    BY <1>6 DEF DaemonAnswer, RR!LoopRead, RR!consumerVars, callVars
  <2> QED
    BY <2>1 DEF PlaceInv
<1>7. ASSUME NEW l \in Lines, DaemonLine(l) PROVE PlaceInv'
  BY <1>7, <1>a DEF DaemonLine, readerVars, callVars
<1>8. UNCHANGED callView => PlaceInv'
  BY <1>a DEF callView
<1> QED
  BY <1>0, <1>1, <1>2, <1>3, <1>4, <1>5, <1>6, <1>7, <1>8, QuietSteps
     DEF Next, Call, Steps

(***************************************************************************)
(* Every step keeps the reader ahead of the answers.                       *)
(***************************************************************************)
LEMMA AskedStep ==
  FanoutInv /\ CallOK /\ PlaceInv /\ AskedInv /\ [Next]_vars => AskedInv'
<1> SUFFICES ASSUME FanoutInv, CallOK, PlaceInv, AskedInv, [Next]_vars PROVE AskedInv'
  OBVIOUS
<1> USE DEF methodVars, daemonVars, Goto, Leave
<1>0. /\ arrived \in Seq(Lines)
      /\ since \in [Invocations -> Nat]
      /\ \A i \in Invocations : since[i] <= Len(arrived)
      /\ ipc \in [Invocations -> Places]
      /\ asked \subseteq Invocations /\ talking \subseteq asked
  BY DEF FanoutInv, RRP!TypeOK, RRP!HandOutInv, CallOK, CallTypes, WireTypes
<1>a. ASSUME UNCHANGED <<asked, arrived, since>>,
             \A j \in Invocations : ipc[j] # "idle" => ipc'[j] # "idle"
      PROVE  AskedInv'
  BY <1>0, <1>a DEF AskedInv
<1>1. ASSUME NEW i \in Invocations, Start(i) PROVE AskedInv'
  <2>1. /\ ipc[i] = "idle" /\ ipc' = [ipc EXCEPT ![i] = "send"]
        /\ UNCHANGED <<asked, arrived>>
        /\ \A j \in Invocations : j # i => since'[j] = since[j]
    BY <1>0, <1>1 DEF Start, RR!Register, RR!loopVars
  <2>2. i \notin asked
    BY <2>1 DEF AskedInv
  <2> QED
    BY <1>0, <2>1, <2>2 DEF AskedInv
<1>b. ASSUME NEW i \in Invocations, NEW pc, pc # "idle", Goto(i, pc)
      PROVE  \A j \in Invocations : ipc[j] # "idle" => ipc'[j] # "idle"
  BY <1>0, <1>b
<1>2. ASSUME NEW i \in Invocations, Send(i) PROVE AskedInv'
  <2>1. /\ UNCHANGED <<arrived, since>> /\ asked \subseteq asked'
        /\ asked' \subseteq asked \cup {i} /\ ipc'[i] # "idle"
        /\ \A j \in Invocations : j # i => ipc'[j] = ipc[j]
    BY <1>0, <1>2 DEF Send, readerVars
  <2> QED
    BY <1>0, <2>1 DEF AskedInv
<1>3. ASSUME NEW i \in Invocations, HttpRequest(i) PROVE AskedInv'
  <2>1. /\ UNCHANGED <<arrived, since>> /\ asked \subseteq asked'
        /\ asked' \subseteq asked \cup {i} /\ ipc'[i] # "idle"
        /\ \A j \in Invocations : j # i => ipc'[j] = ipc[j]
    BY <1>0, <1>3 DEF HttpRequest, readerVars
  <2> QED
    BY <1>0, <2>1 DEF AskedInv
<1>4. ASSUME NEW i \in Invocations, PollHead(i) \/ PollEmpty(i) \/ LeaveWith(i)
      PROVE  AskedInv'
  <2>1. UNCHANGED <<asked, arrived, since>>
    BY <1>4 DEF PollHead, PollEmpty, LeaveWith, RR!ReadHead, RR!ReadTimeout,
       RR!Abandon, RR!loopVars
  <2>2. UNCHANGED ipc \/ \E pc : pc # "idle" /\ Goto(i, pc)
    BY <1>4 DEF PollHead, PollEmpty, LeaveWith
  <2> QED
    BY <1>a, <1>b, <2>1, <2>2
<1>5. ASSUME NEW i \in Invocations, PollAnswer(i) PROVE AskedInv'
  <2>1. UNCHANGED <<asked, arrived, since>>
    BY <1>5 DEF PollAnswer, RR!ReadGet, RR!loopVars
  <2>2. \E pc : pc # "idle" /\ Goto(i, pc)
    BY <1>5 DEF PollAnswer, Answered
  <2> QED
    BY <1>a, <1>b, <2>1, <2>2
<1>6. ASSUME NEW i \in Invocations,
             HttpLine(i) \/ HttpNoLine(i) \/ HttpLeave(i) \/ MethodStep(i) \/ CallerStep(i)
      PROVE  AskedInv'
  <2>1. UNCHANGED <<asked, arrived, since>>
    BY <1>6 DEF HttpLine, HttpNoLine, HttpLeave, MethodStep, CallerStep, readerVars
  <2>2. \E pc : pc # "idle" /\ Goto(i, pc)
    BY <1>6 DEF HttpLine, HttpNoLine, HttpLeave, MethodStep, CallerStep, Answered
  <2> QED
    BY <1>a, <1>b, <2>1, <2>2
<1>7. ASSUME NEW i \in Invocations, CloseReader(i) PROVE AskedInv'
  BY <1>7, <1>a, CloseReaderView DEF callVars
<1>8. ASSUME NEW l \in Lines, DaemonAnswer(l) PROVE AskedInv'
  <2>1. /\ l.id \in talking /\ UNCHANGED <<asked, ipc, since>>
        /\ arrived' = arrived \/ arrived' = Append(arrived, l)
    BY <1>8 DEF DaemonAnswer, RR!LoopRead, RR!consumerVars, callVars
  <2>2. ASSUME arrived' = Append(arrived, l) PROVE AskedInv'
    <3>1. /\ Len(arrived) \in Nat /\ DOMAIN arrived = 1 .. Len(arrived)
          /\ DOMAIN arrived' = 1 .. Len(arrived) + 1
          /\ \A n \in DOMAIN arrived : arrived'[n] = arrived[n]
          /\ arrived'[Len(arrived) + 1] = l
      BY <1>0, <2>2
    <3>2. l.id \in asked /\ since[l.id] < Len(arrived) + 1
      BY <1>0, <2>1, <3>1
    <3>3. \A n \in DOMAIN arrived' : n \in DOMAIN arrived \/ n = Len(arrived) + 1
      BY <3>1
    <3>4. \A n \in DOMAIN arrived' : arrived'[n].id \in asked /\ since[arrived'[n].id] < n
      BY <3>1, <3>2, <3>3 DEF AskedInv
    <3> QED
      BY <2>1, <3>4 DEF AskedInv
  <2>3. ASSUME arrived' = arrived PROVE AskedInv'
    BY <1>a, <2>1, <2>3
  <2> QED
    BY <2>1, <2>2, <2>3
<1>9. ASSUME NEW l \in Lines, DaemonLine(l) PROVE AskedInv'
  BY <1>9, <1>a DEF DaemonLine, readerVars, callVars
<1>10. UNCHANGED callView => AskedInv'
  BY <1>a DEF callView
<1> QED
  BY <1>1, <1>2, <1>3, <1>4, <1>5, <1>6, <1>7, <1>8, <1>9, <1>10, QuietSteps
     DEF Next, Call

(***************************************************************************)
(* The invariants hold in the beginning.                                   *)
(***************************************************************************)
LEMMA CallsInit == Init => CallOK /\ PlaceInv /\ AskedInv
<1>1. Init => CallTypes
  BY DEF Init, CallTypes, Places, Outcomes, Results
<1>2. Init => WireTypes
  <2> SUFFICES ASSUME Init PROVE WireTypes
    OBVIOUS
  <2>1. body \in [Invocations -> Seq(Events)] /\ \A i \in Invocations : body[i] = <<>>
    BY DEF Init
  <2>2. \A i \in Invocations : read[i] <= Len(body[i])
    BY <2>1 DEF Init
  <2> QED
    BY <2>1, <2>2 DEF Init, WireTypes
<1>3. Init => PlaceInv /\ AskedInv
  BY DEF Init, RR!Init, PlaceInv, AskedInv
<1> QED
  BY <1>1, <1>2, <1>3 DEF CallOK

(***************************************************************************)
(* They hold for ever, and with them what the fan-out gives.               *)
(***************************************************************************)
LEMMA CallsHold == Spec => [](FanoutInv /\ CallOK /\ GotInv /\ PlaceInv /\ AskedInv)
<1>1. CallOK /\ [Next]_vars => CallOK'
  BY CallTypesStep, WireTypesStep DEF CallOK
<1> QED
  BY <1>1, CallsInit, FanoutRelied, GotInside, PlaceStep, AskedStep, PTL DEF Spec

-----------------------------------------------------------------------------
(* A timeout.                                                              *)

(***************************************************************************)
(* A reader with nothing in its queue that waits on an open connection has *)
(* given its call every answer that came in, but perhaps the one that the  *)
(* event loop is handing out.                                              *)
(***************************************************************************)
LEMMA DrainedIsServed ==
  ASSUME FanoutInv, AskedInv, ~closed,
         NEW i \in Invocations, queue[i] = <<>>, cpc[i] = "get",
         NEW n \in DOMAIN arrived, arrived[n].id = i
  PROVE  \/ n \in {got[i][m] : m \in DOMAIN got[i]}
         \/ n = Len(arrived) /\ loopPc # "read"
<1>1. /\ arrived \in Seq(Lines)
      /\ got \in [Invocations -> Seq(RRP!Line)]
      /\ since[i] \in Nat
  BY DEF FanoutInv, RRP!TypeOK
<1>2. ~RRP!readerClosed(i)
  BY DEF FanoutInv, RRP!ClosedByItsOwn
<1>3. i \in readers
  BY <1>2 DEF FanoutInv, RRP!RegInv, RRP!Live
<1>4. n \in RRP!Due(i)
  <2>1. since[i] < n /\ n \in Nat /\ n <= Len(arrived)
    BY <1>1 DEF AskedInv
  <2>2. arrived[n] \in filter[i]
    BY <1>1 DEF filter
  <2> QED
    BY <1>1, <2>1, <2>2 DEF RRP!Due
<1>5. n \in RRP!DeliveredSet(i) \/ (n = Len(arrived) /\ RRP!InProgress(i))
  BY <1>2, <1>3, <1>4 DEF FanoutInv, RRP!NothingMissed
<1>6. RRP!InProgress(i) => loopPc # "read"
  <2>1. i \in matched => loopPc = "write"
    BY DEF FanoutInv, RRP!HandOutInv
  <2>2. writing = i => loopPc = "write"
    BY FanoutAssumption DEF FanoutInv, RRP!LoopInv
  <2> QED
    BY <2>1, <2>2 DEF RRP!InProgress
<1>7. n \in RRP!DeliveredSet(i) => n \in {got[i][m] : m \in DOMAIN got[i]}
  <2>1. PICK g : g = got[i]
    OBVIOUS
  <2>2. g \in Seq(RRP!Line)
    BY <1>1, <2>1
  <2>3. RRP!Delivered(i) = g
    BY <2>1, <2>2 DEF RRP!Delivered
  <2> QED
    BY <2>1, <2>3 DEF RRP!DeliveredSet, RRP!Lines
<1> QED
  BY <1>5, <1>6, <1>7

(***************************************************************************)
(* What a step may not do, for one call.                                   *)
(***************************************************************************)
DrainedOrLate(i) ==
  outcome'[i] = "timeout" /\ outcome[i] = "open" =>
    \A n \in DOMAIN arrived : arrived[n].id = i =>
      \/ n \in {got[i][m] : m \in DOMAIN got[i]}
      \/ n = Len(arrived) /\ loopPc # "read"
      \/ closed

(***************************************************************************)
(* Only a round without an answer, and a response without a line, time     *)
(* out.                                                                    *)
(***************************************************************************)
LEMMA WhoTimesOut ==
  ASSUME CallOK, [Next]_vars, NEW i \in Invocations,
         outcome'[i] = "timeout", outcome[i] = "open"
  PROVE  PollEmpty(i) \/ HttpNoLine(i)
<1> USE DEF callVars, resultVars
<1>0. outcome \in [Invocations -> Outcomes]
  BY DEF CallOK, CallTypes
<1>a. \A j \in Invocations : \A o : Over(j, o) /\ o # "timeout" => outcome'[i] # "timeout"
  BY <1>0 DEF Over
<1>b. \A j \in Invocations : \A e : Answered(j, e) => outcome'[i] # "timeout"
  BY <1>a DEF Answered, outcomeOf, Leave
<1>1. ASSUME NEW j \in Invocations,
             Start(j) \/ LeaveWith(j) \/ HttpLeave(j) \/ CloseReader(j) \/ ResponseEnds(j)
      PROVE  FALSE
  BY <1>1 DEF Start, LeaveWith, HttpLeave, CloseReader, ResponseEnds
<1>2. ASSUME NEW j \in Invocations, Send(j) \/ HttpRequest(j) PROVE FALSE
  BY <1>a, <1>2 DEF Send, HttpRequest, Leave
<1>3. ASSUME NEW j \in Invocations, PollHead(j) \/ PollAnswer(j) PROVE FALSE
  BY <1>a, <1>b, <1>3 DEF PollHead, PollAnswer
<1>4. ASSUME NEW j \in Invocations, HttpLine(j) PROVE FALSE
  BY <1>b, <1>4 DEF HttpLine
<1>5. ASSUME NEW j \in Invocations, MethodStep(j) \/ CallerStep(j) PROVE FALSE
  BY <1>0, <1>5 DEF MethodStep, CallerStep
<1>6. ASSUME NEW j \in Invocations, PollEmpty(j) \/ HttpNoLine(j) PROVE j = i
  BY <1>0, <1>6 DEF PollEmpty, HttpNoLine, Leave, Over
<1>7. ASSUME NEW l \in Lines, DaemonAnswer(l) \/ DaemonLine(l) PROVE FALSE
  BY <1>7 DEF DaemonAnswer, DaemonLine
<1>8. ~ UNCHANGED callView
  BY DEF callView
<1> QED
  BY <1>1, <1>2, <1>3, <1>4, <1>5, <1>6, <1>7, <1>8, QuietSteps DEF Next, Call

(***************************************************************************)
(* A call does not time out over an answer that the event loop had handed  *)
(* out, however many calls share the connection and whatever the timeout.  *)
(***************************************************************************)
THEOREM DrainedBeforeTimeout == Spec => TimeoutOnlyWhenDrained
<1>1. ASSUME FanoutInv, CallOK, PlaceInv, AskedInv, [Next]_vars,
             NEW i \in Invocations
      PROVE  DrainedOrLate(i)
  <2> SUFFICES ASSUME outcome'[i] = "timeout", outcome[i] = "open",
                      NEW n \in DOMAIN arrived, arrived[n].id = i, ~closed
               PROVE  \/ n \in {got[i][m] : m \in DOMAIN got[i]}
                      \/ n = Len(arrived) /\ loopPc # "read"
    BY DEF DrainedOrLate
  <2>1. CASE PollEmpty(i)
    <3>1. queue[i] = <<>> /\ cpc[i] = "get"
      BY <2>1 DEF PollEmpty, RR!ReadTimeout
    <3> QED
      BY <1>1, <3>1, DrainedIsServed
  <2>2. CASE HttpNoLine(i)
    <3>1. arrived = <<>>
      BY <1>1, <2>2 DEF HttpNoLine, PlaceInv
    <3> QED
      BY <3>1
  <2> QED
    BY <1>1, <2>1, <2>2, WhoTimesOut
<1>2. FanoutInv /\ CallOK /\ PlaceInv /\ AskedInv /\ [Next]_vars
        => [\A i \in Invocations : DrainedOrLate(i)]_vars
  BY <1>1
<1>3. TimeoutOnlyWhenDrained <=> [][\A i \in Invocations : DrainedOrLate(i)]_vars
  BY PTL DEF TimeoutOnlyWhenDrained, DrainedOrLate
<1> QED
  BY <1>2, <1>3, CallsHold, PTL DEF Spec

-----------------------------------------------------------------------------
(* What a call has taken.                                                  *)

(***************************************************************************)
(* The lines that a call has taken from the stream are the first answers   *)
(* to it: they came in after its reader was there, which gives it all that *)
(* it is due.                                                              *)
(***************************************************************************)
LEMMA TakesFirstAnswers ==
  ASSUME FanoutInv, AskedInv, NEW i \in Invocations
  PROVE  FirstAnswers(i)
<1>1. /\ arrived \in Seq(Lines)
      /\ got \in [Invocations -> Seq(RRP!Line)]
      /\ queue \in [Invocations -> Seq(RRP!Line \cup {None})]
      /\ since[i] \in Nat
  BY DEF FanoutInv, RRP!TypeOK
<1>2. PICK g : g = got[i]
  OBVIOUS
<1>3. PICK q : q = queue[i]
  OBVIOUS
<1>4. g \in Seq(Nat) /\ q \in Seq(Nat \cup {None}) /\ None \notin Nat
  BY <1>1, <1>2, <1>3, FanoutAssumption DEF RRP!Line
<1>5. PICK d : d = g \o q
  OBVIOUS
<1>6. /\ RRP!Ascending(d)
      /\ \A m \in RRP!Lines(d), n \in RRP!Due(i) : n < m => n \in RRP!Lines(d)
  BY <1>2, <1>3, <1>5 DEF FanoutInv, RRP!InOrder, RRP!DeliveredSet, RRP!Delivered
<1>7. /\ \A n \in DOMAIN g : n \in DOMAIN d /\ d[n] = g[n] /\ d[n] # None
      /\ \A n \in DOMAIN d : n \notin DOMAIN g => \A m \in DOMAIN g : m < n
      /\ \A n \in DOMAIN g : g[n] \in Nat
      /\ \A n \in DOMAIN d : d[n] \in Nat \cup {None}
  BY <1>4, <1>5
<1>8. ASSUME NEW n \in DOMAIN g, NEW m \in DOMAIN arrived, arrived[m].id = i, m < g[n]
      PROVE  \E k \in DOMAIN g : g[k] = m
  <2>1. m \in RRP!Due(i)
    <3>1. since[i] < m /\ m \in Nat /\ m <= Len(arrived)
      BY <1>1, <1>8 DEF AskedInv
    <3>2. arrived[m] \in filter[i]
      BY <1>1, <1>8 DEF filter
    <3> QED
      BY <1>1, <3>1, <3>2 DEF RRP!Due
  <2>2. g[n] \in RRP!Lines(d)
    BY <1>7 DEF RRP!Lines
  <2>3. m \in RRP!Lines(d)
    BY <1>6, <1>8, <2>1, <2>2
  <2>4. PICK k \in DOMAIN d : d[k] = m /\ m # None
    BY <2>3 DEF RRP!Lines
  <2>5. ASSUME k \notin DOMAIN g PROVE FALSE
    <3>1. n < k /\ n \in DOMAIN d /\ d[n] = g[n] /\ d[n] # None
      BY <1>7, <2>5
    <3>2. g[n] < m
      BY <1>6, <2>4, <3>1 DEF RRP!Ascending
    <3> QED
      BY <1>1, <1>7, <1>8, <3>2
  <2> QED
    BY <1>7, <2>4, <2>5
<1>9. /\ \A n \in DOMAIN g : g[n] \in DOMAIN arrived /\ arrived[g[n]].id = i
      /\ \A m, n \in DOMAIN g : m < n => g[m] < g[n]
  BY <1>2, GotIsDue
<1>10. \A m, n \in DOMAIN got[i] : m < n => got[i][m] < got[i][n]
  BY <1>2, <1>9
<1> DEFINE taken == {got[i][n] : n \in DOMAIN got[i]}
<1>11. taken \subseteq Mine(i)
  BY <1>2, <1>9 DEF Mine
<1>12. \A m \in Mine(i), n \in taken : m < n => m \in taken
  BY <1>2, <1>8 DEF Mine
<1> HIDE DEF taken
<1>13. (\A m, n \in DOMAIN got[i] : m < n => got[i][m] < got[i][n])
       /\ taken \subseteq Mine(i)
       /\ (\A m \in Mine(i), n \in taken : m < n => m \in taken)
  BY <1>10, <1>11, <1>12
<1> QED
  BY <1>13 DEF FirstAnswers, taken

(***************************************************************************)
(* The n-th answer that a call has taken.                                  *)
(***************************************************************************)
answer(i, n) == IF transport = "http" THEN body[i][n] ELSE arrived[got[i][n]].event

(***************************************************************************)
(* How many of them came before the end, if it is over.                    *)
(***************************************************************************)
Answers(i) == takenBy(i) - (IF outcome[i] \in {"complete", "failed"} THEN 1 ELSE 0)

(***************************************************************************)
(* All but the last word are answers with data, and the last word is one   *)
(* that ends the call.                                                     *)
(***************************************************************************)
CleanInv(i) ==
  /\ outcome[i] \in {"complete", "failed"} => takenBy(i) > 0
  /\ outcome[i] = "complete" => answer(i, takenBy(i)) \in {"empty", "end"}
  /\ \A n \in 1 .. Answers(i) : answer(i, n) = "response"

(***************************************************************************)
(* A call that goes on has no result, and one that is over has what its    *)
(* outcome says.                                                           *)
(***************************************************************************)
ResultInv(i) ==
  /\ ipc[i] \in {"idle", "send", "poll", "caller"} =>
       outcome[i] = "open" /\ result[i] = "none"
  /\ outcome[i] \in {"complete", "cut"} => result[i] = resultOf(method[i], outcome[i])
  /\ result[i] = "value" => outcome[i] \in {"complete", "cut", "abandoned"}
  /\ outcome[i] = "abandoned" /\ result[i] = "value" =>
       method[i].each \in {"return", "check"}

(***************************************************************************)
(* A method that returns the first answer takes no second one, and one     *)
(* that merges the answers has merged all of them but the one in its hand. *)
(***************************************************************************)
CountInv(i) ==
  /\ method[i].each \in {"return", "check"} =>
       /\ ipc[i] \in {"idle", "send", "poll"} => takenBy(i) = 0
       /\ ipc[i] = "caller" \/ outcome[i] = "abandoned" => takenBy(i) = 1
  /\ method[i].each = "merge" =>
       merged[i] + (IF ipc[i] = "caller" THEN 1 ELSE 0) = Answers(i)

Heard(i) == CleanInv(i) /\ ResultInv(i) /\ CountInv(i)

HeardInv == \A i \in Invocations : Heard(i)

(***************************************************************************)
(* Which method makes a call is settled from the start.                    *)
(***************************************************************************)
MethodOK == method \in [Invocations -> Methods]

LEMMA MethodKept == Spec => []MethodOK
<1>1. Init => MethodOK
  BY DEF Init, MethodOK
<1>2. MethodOK /\ [Next]_vars => MethodOK'
  <2> SUFFICES ASSUME [Next]_vars PROVE method' = method
    BY DEF MethodOK
  <2> USE DEF methodVars
  <2>1. ASSUME NEW i \in Invocations,
               Start(i) \/ HttpRequest(i) \/ CallerStep(i) \/ ResponseEnds(i)
        PROVE  method' = method
    BY <2>1 DEF Start, HttpRequest, CallerStep, ResponseEnds
  <2>2. ASSUME NEW i \in Invocations, Call(i) PROVE method' = method
    BY <2>2 DEF Call, Send, PollHead, PollAnswer, PollEmpty, LeaveWith, CloseReader,
       MethodStep, HttpLine, HttpNoLine, HttpLeave
  <2>3. ASSUME NEW l \in Lines, DaemonAnswer(l) \/ DaemonLine(l) PROVE method' = method
    BY <2>3 DEF DaemonAnswer, DaemonLine
  <2>4. ASSUME Fanout \/ Disconnect \/ \E c \in Closers : CloseAll(c)
        PROVE  method' = method
    BY <2>4 DEF Fanout, Disconnect, CloseAll
  <2>5. UNCHANGED vars => method' = method
    BY DEF vars
  <2> QED
    BY <2>1, <2>2, <2>3, <2>4, <2>5 DEF Next
<1> QED
  BY <1>1, <1>2, PTL DEF Spec

(***************************************************************************)
(* A method that looks at one answer raises when there is none, except for *)
(* StorageInvocation.set.                                                  *)
(***************************************************************************)
LEMMA LooksAtOne ==
  ASSUME storage_set \notin Methods, NEW m \in Methods, m.each \in {"return", "check"}
  PROVE  m.over = "raise"
<1>1. m \in AllMethods /\ m # storage_set
  BY MethodsAssumption
<1> QED
  BY <1>1 DEF AllMethods, Modes, storage_set, HandedOn, FirstAnswer, FirstChecked,
     AllMerged, tool_invoke, chat_invoke, completion_invoke, workflow_invoke,
     fetch_app_get, llm_invoke, llm_structured_output_invoke, summary_invoke,
     text_embedding_invoke, text_embedding_invoke_multimodal, rerank_invoke,
     rerank_invoke_multimodal, speech2text_invoke, moderation_invoke, tts_invoke,
     question_classifier_invoke, parameter_extractor_invoke, file_upload,
     storage_get, storage_exist, storage_delete

(***************************************************************************)
(* These say what a result stands for.                                     *)
(***************************************************************************)
LEMMA HeardIsAnswered ==
  ASSUME storage_set \notin Methods
  PROVE  FanoutInv /\ CallOK /\ AskedInv /\ MethodOK /\ HeardInv => ValueIsAnswered
<1> SUFFICES ASSUME FanoutInv, CallOK, AskedInv, MethodOK, HeardInv,
                    NEW i \in Invocations, result[i] = "value"
             PROVE  LET ended == outcome[i] = "complete"
                        answers == takenBy(i) - (IF ended THEN 1 ELSE 0)
                    IN  /\ outcome[i] \in {"complete", "abandoned", "cut"}
                        /\ FirstAnswers(i)
                        /\ \A n \in 1 .. answers : Taken(i)[n] = "response"
                        /\ ended => takenBy(i) > 0 /\ Taken(i)[takenBy(i)] \in {"empty", "end"}
                        /\ method[i].each \in {"return", "check"} => takenBy(i) = 1 /\ ~ended
                        /\ method[i].each = "merge" => merged[i] = answers
  BY DEF ValueIsAnswered
<1> DEFINE ended == outcome[i] = "complete"
           answers == takenBy(i) - (IF ended THEN 1 ELSE 0)
<1>1. CleanInv(i) /\ ResultInv(i) /\ CountInv(i)
  BY DEF HeardInv, Heard
<1>2. outcome[i] \in {"complete", "abandoned", "cut"}
  BY <1>1 DEF ResultInv
<1>3. takenBy(i) \in Nat
  <2>1. Len(got[i]) \in Nat
    BY GotIsDue
  <2> QED
    BY <2>1 DEF takenBy, CallOK, WireTypes
<1>4. \A n \in 1 .. takenBy(i) : Taken(i)[n] = answer(i, n)
  BY DEF Taken, answer
<1>5. answers = Answers(i)
  BY <1>2 DEF Answers
<1>6. \A n \in 1 .. answers : Taken(i)[n] = "response"
  BY <1>1, <1>3, <1>4, <1>5 DEF CleanInv
<1>7. ended => takenBy(i) > 0 /\ Taken(i)[takenBy(i)] \in {"empty", "end"}
  BY <1>1, <1>3, <1>4 DEF CleanInv
<1>8. ASSUME method[i].each \in {"return", "check"} PROVE takenBy(i) = 1 /\ ~ended
  <2>1. method[i] \in Methods
    BY DEF MethodOK
  <2>2. method[i].over = "raise"
    BY <1>8, <2>1, LooksAtOne
  <2>3. outcome[i] = "abandoned"
    BY <1>1, <1>2, <2>2 DEF ResultInv, resultOf
  <2> QED
    BY <1>1, <1>8, <2>3 DEF CountInv
<1>9. ASSUME method[i].each = "merge" PROVE merged[i] = answers
  <2>1. ipc[i] # "caller"
    BY <1>1 DEF ResultInv
  <2>2. merged[i] \in Nat
    BY DEF CallOK, CallTypes
  <2> QED
    BY <1>1, <1>5, <1>9, <2>1, <2>2 DEF CountInv
<1> HIDE DEF ended, answers
<1>10. /\ outcome[i] \in {"complete", "abandoned", "cut"}
       /\ FirstAnswers(i)
       /\ \A n \in 1 .. answers : Taken(i)[n] = "response"
       /\ ended => takenBy(i) > 0 /\ Taken(i)[takenBy(i)] \in {"empty", "end"}
       /\ method[i].each \in {"return", "check"} => takenBy(i) = 1 /\ ~ended
       /\ method[i].each = "merge" => merged[i] = answers
  BY <1>2, <1>6, <1>7, <1>8, <1>9, TakesFirstAnswers
<1> QED
  BY <1>10 DEF ended, answers

-----------------------------------------------------------------------------
(* How a step changes what a call has taken.                               *)

(***************************************************************************)
(* i has taken what it had taken before.                                   *)
(***************************************************************************)
SameTaken(i) ==
  /\ takenBy(i)' = takenBy(i)
  /\ \A n \in 1 .. takenBy(i) : answer(i, n)' = answer(i, n)
  /\ method' = method

(***************************************************************************)
(* i has taken e besides.                                                  *)
(***************************************************************************)
TakesNext(i, e) ==
  /\ takenBy(i)' = takenBy(i) + 1
  /\ \A n \in 1 .. takenBy(i) : answer(i, n)' = answer(i, n)
  /\ \A n \in Nat : n = takenBy(i) + 1 => answer(i, n)' = e
  /\ method' = method

(***************************************************************************)
(* A line more on the stream or in the body changes nothing.               *)
(***************************************************************************)
LEMMA GrowsBehind ==
  ASSUME CallOK, GotInv, NEW i \in Invocations,
         UNCHANGED <<transport, method, read, got>>,
         arrived' = arrived \/ \E l : arrived' = Append(arrived, l),
         body'[i] = body[i] \/ \E e : body'[i] = Append(body[i], e)
  PROVE  SameTaken(i)
<1>1. /\ arrived \in Seq(Lines) /\ body[i] \in Seq(Events) /\ read[i] \in Nat
      /\ read[i] <= Len(body[i]) /\ got[i] \in Seq(Nat)
      /\ \A n \in DOMAIN got[i] : got[i][n] \in DOMAIN arrived
  BY DEF GotInv, CallOK, WireTypes
<1>2. \A n \in DOMAIN arrived : arrived'[n] = arrived[n]
  <2>1. ASSUME NEW l, arrived' = Append(arrived, l)
        PROVE  \A n \in DOMAIN arrived : arrived'[n] = arrived[n]
    BY <1>1, <2>1
  <2> QED
    BY <2>1
<1>3. \A n \in 1 .. read[i] : body'[i][n] = body[i][n]
  <2>1. PICK b : b = body[i]
    OBVIOUS
  <2>2. b \in Seq(Events) /\ read[i] <= Len(b)
    BY <1>1, <2>1
  <2>3. ASSUME NEW e, body'[i] = Append(b, e)
        PROVE  \A n \in 1 .. read[i] : body'[i][n] = b[n]
    BY <1>1, <2>2, <2>3
  <2> QED
    BY <2>1, <2>3
<1>4. takenBy(i)' = takenBy(i)
  BY DEF takenBy
<1>5. CASE transport = "http"
  BY <1>3, <1>4, <1>5 DEF takenBy, answer, SameTaken
<1>6. CASE transport # "http"
  <2>1. \A n \in 1 .. Len(got[i]) : got[i][n] \in DOMAIN arrived
    BY <1>1
  <2> QED
    BY <1>2, <1>4, <1>6, <2>1 DEF takenBy, answer, SameTaken
<1> QED
  BY <1>5, <1>6

(***************************************************************************)
(* Nothing is taken by a call unless it takes it itself.                   *)
(***************************************************************************)
LEMMA TakenByNone ==
  ASSUME CallOK, GotInv, GotInv', NEW i \in Invocations,
         UNCHANGED <<transport, method, arrived, body>>,
         read'[i] = read[i], got'[i] = got[i]
  PROVE  SameTaken(i)
BY DEF SameTaken, takenBy, answer

(***************************************************************************)
(* An answer of the reader ...                                             *)
(***************************************************************************)
LEMMA TakesFromReader ==
  ASSUME FanoutInv, CallOK, GotInv, NEW i \in Invocations,
         PollAnswer(i), Head(queue[i]) # None
  PROVE  /\ \E e \in Events : TakesNext(i, e) /\ Answered(i, e)
         /\ \A j \in Invocations : j # i => got'[j] = got[j]
<1>1. PICK h : h = Head(queue[i])
  OBVIOUS
<1>2. /\ transport = "full_duplex" /\ UNCHANGED <<transport, method>>
      /\ queue[i] # <<>> /\ arrived' = arrived
      /\ got' = [got EXCEPT ![i] = Append(got[i], h)]
      /\ Answered(i, arrived[h].event)
  BY <1>1 DEF PollAnswer, RR!ReadGet, RR!loopVars, methodVars
<1>3. /\ queue[i] \in Seq(Nat \cup {None})
      /\ \A n \in DOMAIN queue[i] : queue[i][n] # None => queue[i][n] \in DOMAIN arrived
  BY GotIsDue
<1>4. h \in DOMAIN arrived
  <2>1. PICK q : q = queue[i]
    OBVIOUS
  <2>2. q \in Seq(Nat \cup {None}) /\ q # <<>>
    BY <1>2, <1>3, <2>1
  <2>3. 1 \in DOMAIN q /\ h = q[1]
    BY <1>1, <2>1, <2>2
  <2> QED
    BY <1>1, <1>3, <2>1, <2>3
<1>5. arrived[h].event \in Events
  <2>1. arrived[h] \in Lines
    BY <1>4 DEF GotInv
  <2>2. \A l \in Lines : l.event \in Events
    BY DEF Lines
  <2> QED
    BY <2>1, <2>2
<1>6. TakesNext(i, arrived[h].event)
  <2>1. PICK g : g = got[i]
    OBVIOUS
  <2>2. g \in Seq(Nat) /\ got'[i] = Append(g, h)
    BY <1>2, <2>1 DEF GotInv
  <2>3. h \in Nat
    BY <1>4 DEF GotInv
  <2>4. /\ Len(got'[i]) = Len(g) + 1
        /\ \A n \in 1 .. Len(g) : got'[i][n] = g[n]
        /\ got'[i][Len(g) + 1] = h
    BY <2>2, <2>3
  <2> QED
    BY <1>2, <2>1, <2>4 DEF TakesNext, takenBy, answer
<1>7. \A j \in Invocations : j # i => got'[j] = got[j]
  BY <1>2 DEF GotInv
<1> QED
  BY <1>2, <1>5, <1>6, <1>7

(***************************************************************************)
(* ... and one of the response.                                            *)
(***************************************************************************)
LEMMA TakesFromBody ==
  ASSUME CallOK, NEW i \in Invocations, HttpLine(i)
  PROVE  \E e \in Events : TakesNext(i, e) /\ Answered(i, e)
<1>1. /\ transport = "http" /\ UNCHANGED <<transport, method, body>>
      /\ read' = [read EXCEPT ![i] = read[i] + 1]
      /\ read[i] < Len(body[i])
      /\ Answered(i, body[i][read'[i]])
  BY DEF HttpLine, methodVars
<1>2. read[i] \in Nat /\ body[i] \in Seq(Events) /\ read'[i] = read[i] + 1
  BY <1>1 DEF CallOK, WireTypes
<1>3. PICK b : b = body[i]
  OBVIOUS
<1>4. b[read[i] + 1] \in Events
  <2>1. b \in Seq(Events) /\ read[i] + 1 \in 1 .. Len(b)
    BY <1>1, <1>2, <1>3
  <2> QED
    BY <2>1
<1>5. TakesNext(i, b[read[i] + 1])
  BY <1>1, <1>2, <1>3 DEF TakesNext, takenBy, answer
<1> QED
  BY <1>1, <1>2, <1>3, <1>4, <1>5

-----------------------------------------------------------------------------
(* What a step of a call does to its result.                               *)

SameResult(i) ==
  outcome'[i] = outcome[i] /\ result'[i] = result[i] /\ merged'[i] = merged[i]

(***************************************************************************)
(* The numbers are numbers.                                                *)
(***************************************************************************)
LEMMA TakenIsNat ==
  ASSUME CallOK, GotInv, NEW i \in Invocations
  PROVE  takenBy(i) \in Nat /\ merged[i] \in Nat
BY DEF takenBy, CallOK, CallTypes, WireTypes, GotInv

(***************************************************************************)
(* A call that takes nothing and whose result stays as it is, and that     *)
(* goes where nothing more is asked of it, ...                             *)
(***************************************************************************)
LEMMA HeardStays ==
  ASSUME CallOK, GotInv, NEW i \in Invocations, Heard(i), SameTaken(i), SameResult(i),
         \/ ipc'[i] = ipc[i]
         \/ ipc[i] \in {"idle", "send"} /\ ipc'[i] \in {"send", "poll"}
         \/ ipc[i] = "leave" /\ ipc'[i] = "left"
         \/ ipc[i] = "caller" /\ ipc'[i] = "poll" /\ method[i].each = "yield"
  PROVE  Heard(i)'
<1> USE DEF SameResult, SameTaken
<1>1. takenBy(i) \in Nat /\ merged[i] \in Nat
  BY TakenIsNat
<1>2. Answers(i)' = Answers(i)
  BY DEF Answers
<1>3. CleanInv(i)'
  <2>1. Answers(i) <= takenBy(i)
    BY <1>1 DEF Answers
  <2>2. \A n \in 1 .. Answers(i) : answer(i, n)' = "response"
    <3>1. \A n \in 1 .. Answers(i) : n \in 1 .. takenBy(i)
      BY <1>1, <2>1 DEF Answers
    <3> QED
      BY <3>1 DEF Heard, CleanInv
  <2>3. outcome'[i] = "complete" => answer(i, takenBy(i))' \in {"empty", "end"}
    <3>1. ASSUME outcome[i] = "complete"
          PROVE  answer(i, takenBy(i))' = answer(i, takenBy(i))
      <4>1. takenBy(i) \in 1 .. takenBy(i)
        BY <1>1, <3>1 DEF Heard, CleanInv
      <4>2. \A n : n = takenBy(i) => answer(i, n)' = answer(i, takenBy(i))'
        BY DEF answer
      <4> QED
        BY <4>1, <4>2
    <3> QED
      BY <3>1 DEF Heard, CleanInv
  <2> QED
    BY <1>2, <2>2, <2>3 DEF Heard, CleanInv
<1>4. ResultInv(i)'
  BY DEF Heard, ResultInv
<1>5. CountInv(i)'
  BY <1>1, <1>2 DEF Heard, CountInv
<1> QED
  BY <1>3, <1>4, <1>5 DEF Heard

(***************************************************************************)
(* ... one that is over without an answer, ...                             *)
(***************************************************************************)
LEMMA HeardOver ==
  ASSUME CallOK, GotInv, NEW i \in Invocations, Heard(i), SameTaken(i),
         ipc[i] \in {"idle", "send", "poll"}, ipc'[i] \in {"leave", "left"},
         NEW o \in {"cut", "timeout", "lost", "unsent"}, Over(i, o)
  PROVE  Heard(i)'
<1> USE DEF SameTaken
<1>1. takenBy(i) \in Nat /\ merged[i] \in Nat
  BY TakenIsNat
<1>2. outcome'[i] = o /\ result'[i] = resultOf(method[i], o) /\ merged'[i] = merged[i]
  BY DEF Over, CallOK, CallTypes
<1>3. outcome[i] = "open"
  BY DEF Heard, ResultInv
<1>4. Answers(i)' = Answers(i) /\ Answers(i) = takenBy(i)
  BY <1>1, <1>2, <1>3 DEF Answers
<1>5. CleanInv(i)'
  BY <1>1, <1>2, <1>4 DEF Heard, CleanInv
<1>6. ResultInv(i)'
  BY <1>2 DEF ResultInv, resultOf
<1>7. CountInv(i)'
  BY <1>1, <1>2, <1>4 DEF Heard, CountInv
<1> QED
  BY <1>5, <1>6, <1>7 DEF Heard

(***************************************************************************)
(* ... one that takes an answer, ...                                       *)
(***************************************************************************)
LEMMA HeardAnswer ==
  ASSUME CallOK, GotInv, NEW i \in Invocations, Heard(i), ipc[i] = "poll",
         NEW e \in Events, TakesNext(i, e), Answered(i, e)
  PROVE  Heard(i)'
<1> USE DEF TakesNext
<1>1. takenBy(i) \in Nat /\ merged[i] \in Nat
  BY TakenIsNat
<1>2. outcome[i] = "open" /\ result[i] = "none"
  BY DEF Heard, ResultInv
<1>3. Answers(i) = takenBy(i)
  BY <1>1, <1>2 DEF Answers
<1>4. takenBy(i)' = takenBy(i) + 1
  OBVIOUS
<1>5. answer(i, takenBy(i))' = e
  <2>1. \A n : n = takenBy(i)' => answer(i, n)' = answer(i, takenBy(i))'
    BY DEF answer
  <2>2. takenBy(i) + 1 \in Nat
    BY <1>1
  <2> QED
    BY <1>4, <2>1, <2>2
<1>6. \A n \in 1 .. takenBy(i) : answer(i, n)' = "response"
  BY <1>3 DEF Heard, CleanInv
<1>7. CASE e = "response"
  <2>1. /\ ipc'[i] = "caller"
        /\ outcome'[i] = "open" /\ result'[i] = "none" /\ merged'[i] = merged[i]
    BY <1>2, <1>7 DEF Answered, outcomeOf, Goto, resultVars, CallOK, CallTypes
  <2>2. Answers(i)' = takenBy(i) + 1
    BY <1>1, <1>4, <2>1 DEF Answers
  <2>3. CleanInv(i)'
    <3>1. \A n \in 1 .. takenBy(i) + 1 : n \in 1 .. takenBy(i) \/ n = takenBy(i) + 1
      BY <1>1
    <3>2. \A n \in 1 .. takenBy(i) + 1 : answer(i, n)' = "response"
      BY <1>6, <1>7, <3>1, <1>1
    <3> QED
      BY <2>1, <2>2, <3>2 DEF CleanInv
  <2>4. ResultInv(i)'
    BY <2>1 DEF ResultInv
  <2>5. CountInv(i)'
    BY <1>1, <1>3, <1>4, <2>1, <2>2 DEF Heard, CountInv
  <2> QED
    BY <2>3, <2>4, <2>5 DEF Heard
<1>8. CASE e # "response"
  <2>1. PICK o \in {"complete", "failed"} :
          /\ o = outcomeOf(e) /\ Leave(i, o)
          /\ o = "complete" => e \in {"empty", "end"}
    BY <1>8 DEF Answered, outcomeOf, Events
  <2>2. /\ ipc'[i] = "leave" /\ outcome'[i] = o
        /\ result'[i] = resultOf(method[i], o) /\ merged'[i] = merged[i]
    BY <2>1 DEF Leave, Over, Goto, CallOK, CallTypes
  <2>3. Answers(i)' = takenBy(i)
    BY <1>1, <1>4, <2>2 DEF Answers
  <2>4. CleanInv(i)'
    BY <1>1, <1>4, <1>5, <1>6, <2>1, <2>2, <2>3 DEF CleanInv
  <2>5. ResultInv(i)'
    BY <2>2 DEF ResultInv, resultOf
  <2>6. CountInv(i)'
    BY <1>1, <1>3, <2>2, <2>3 DEF Heard, CountInv
  <2> QED
    BY <2>4, <2>5, <2>6 DEF Heard
<1> QED
  BY <1>7, <1>8

(***************************************************************************)
(* ... and one whose method makes something of an answer.                  *)
(***************************************************************************)
LEMMA HeardMethod ==
  ASSUME CallOK, GotInv, NEW i \in Invocations, Heard(i), SameTaken(i),
         MethodStep(i) \/ CallerStep(i)
  PROVE  Heard(i)'
<1> USE DEF SameTaken
<1>1. takenBy(i) \in Nat /\ merged[i] \in Nat
  BY TakenIsNat
<1>2. ipc[i] = "caller"
  BY DEF MethodStep, CallerStep
<1>3. outcome[i] = "open" /\ result[i] = "none"
  BY <1>2 DEF Heard, ResultInv
<1>4. /\ ipc \in [Invocations -> Places] /\ outcome \in [Invocations -> Outcomes]
      /\ result \in [Invocations -> Results] /\ merged \in [Invocations -> Nat]
  BY DEF CallOK, CallTypes
<1>5. Answers(i) = takenBy(i)
  BY <1>1, <1>3 DEF Answers
<1>a. ASSUME outcome'[i] \in {"open", "abandoned"}
      PROVE  Answers(i)' = takenBy(i) /\ CleanInv(i)'
  <2>1. Answers(i)' = takenBy(i)
    BY <1>1, <1>a DEF Answers
  <2> QED
    BY <1>1, <1>5, <1>a, <2>1 DEF Heard, CleanInv
<1>6. ASSUME method[i].each = "merge", MethodStep(i) PROVE Heard(i)'
  <2>1. /\ ipc'[i] = "poll" /\ merged'[i] = merged[i] + 1
        /\ outcome'[i] = "open" /\ result'[i] = "none"
    BY <1>3, <1>4, <1>6 DEF MethodStep, Goto
  <2>2. CountInv(i)'
    BY <1>1, <1>2, <1>5, <1>6, <1>a, <2>1 DEF Heard, CountInv
  <2>3. ResultInv(i)'
    BY <2>1 DEF ResultInv
  <2> QED
    BY <1>a, <2>1, <2>2, <2>3 DEF Heard
<1>7. ASSUME method[i].each \in {"return", "check"}, MethodStep(i) PROVE Heard(i)'
  <2>1. /\ ipc'[i] = "leave" /\ outcome'[i] = "abandoned" /\ result'[i] \in {"value", "raised"}
    BY <1>4, <1>7 DEF MethodStep, Goto
  <2>2. CountInv(i)'
    BY <1>2, <1>7, <2>1 DEF Heard, CountInv
  <2>3. ResultInv(i)'
    BY <1>7, <2>1 DEF ResultInv
  <2> QED
    BY <1>a, <2>1, <2>2, <2>3 DEF Heard
<1>8. ASSUME method[i].each = "yield", CallerStep(i) PROVE Heard(i)'
  <2>1. /\ result'[i] = "none"
        /\ \/ ipc'[i] = "poll" /\ outcome'[i] = "open"
           \/ ipc'[i] = "leave" /\ outcome'[i] = "abandoned"
    BY <1>3, <1>4, <1>8 DEF CallerStep, Goto
  <2>2. CountInv(i)'
    BY <1>8, <2>1 DEF CountInv
  <2>3. ResultInv(i)'
    BY <2>1 DEF ResultInv
  <2> QED
    BY <1>a, <2>1, <2>2, <2>3 DEF Heard
<1> QED
  BY <1>6, <1>7, <1>8 DEF MethodStep, CallerStep

(***************************************************************************)
(* Every step keeps what the calls have heard.                             *)
(***************************************************************************)
LEMMA HeardStep ==
  FanoutInv /\ CallOK /\ GotInv /\ GotInv' /\ HeardInv /\ [Next]_vars => HeardInv'
<1> SUFFICES ASSUME FanoutInv, CallOK, GotInv, GotInv', HeardInv, [Next]_vars,
                    NEW i \in Invocations
             PROVE  Heard(i)'
  BY DEF HeardInv
<1> USE DEF methodVars, callVars, resultVars, httpVars
<1>0. /\ Heard(i)
      /\ ipc \in [Invocations -> Places] /\ outcome \in [Invocations -> Outcomes]
      /\ result \in [Invocations -> Results] /\ merged \in [Invocations -> Nat]
      /\ read \in [Invocations -> Nat] /\ got \in [Invocations -> Seq(Nat)]
  BY DEF HeardInv, CallOK, CallTypes, WireTypes, GotInv
<1>a. ASSUME SameTaken(i), SameResult(i), ipc'[i] = ipc[i] PROVE Heard(i)'
  BY <1>0, <1>a, HeardStays
<1>b. ASSUME UNCHANGED <<transport, method, arrived, body>>, read'[i] = read[i],
             got'[i] = got[i]
      PROVE  SameTaken(i)
  BY <1>b, TakenByNone
<1>c. \A j \in Invocations : \A o : Over(j, o) /\ j # i => SameResult(i)
  BY <1>0 DEF Over, SameResult
<1>d. \A j \in Invocations : \A pc : Goto(j, pc) =>
        /\ j # i => ipc'[i] = ipc[i]
        /\ j = i => ipc'[i] = pc
  BY <1>0 DEF Goto
<1>e. \A j \in Invocations : \A e : Answered(j, e) /\ j # i => ipc'[i] = ipc[i] /\ SameResult(i)
  BY <1>c, <1>d DEF Answered, Leave, SameResult
<1>1. ASSUME NEW j \in Invocations, Start(j) PROVE Heard(i)'
  <2>1. SameTaken(i) /\ SameResult(i) /\ ipc[j] = "idle" /\ Goto(j, "send")
    BY <1>1, <1>b DEF Start, RR!Register, RR!loopVars, SameResult
  <2> QED
    BY <1>0, <1>d, <2>1, HeardStays
<1>2. ASSUME NEW j \in Invocations, Send(j) PROVE Heard(i)'
  <2>1. SameTaken(i) /\ ipc[j] = "send"
    BY <1>2, <1>b DEF Send, readerVars
  <2>2. CASE Goto(j, "poll") /\ UNCHANGED resultVars
    BY <1>0, <1>d, <2>1, <2>2, HeardStays DEF SameResult
  <2>3. CASE Leave(j, "unsent")
    <3>1. CASE j = i
      BY <1>0, <1>d, <2>1, <2>3, <3>1, HeardOver DEF Leave
    <3>2. CASE j # i
      BY <1>a, <1>c, <1>d, <2>1, <2>3, <3>2 DEF Leave
    <3> QED
      BY <3>1, <3>2
  <2> QED
    BY <1>2, <2>2, <2>3 DEF Send
<1>3. ASSUME NEW j \in Invocations, PollHead(j) PROVE Heard(i)'
  <2>1. SameTaken(i) /\ ipc[j] = "poll"
    BY <1>3, <1>b DEF PollHead, RR!ReadHead, RR!loopVars
  <2>2. CASE UNCHANGED <<ipc, resultVars>>
    BY <1>a, <2>1, <2>2 DEF SameResult
  <2>3. CASE Goto(j, "left") /\ Over(j, "cut")
    <3>1. CASE j = i
      BY <1>0, <1>d, <2>1, <2>3, <3>1, HeardOver
    <3>2. CASE j # i
      BY <1>a, <1>c, <1>d, <2>1, <2>3, <3>2
    <3> QED
      BY <3>1, <3>2
  <2> QED
    BY <1>3, <2>2, <2>3 DEF PollHead
<1>4. ASSUME NEW j \in Invocations, PollAnswer(j) PROVE Heard(i)'
  <2>1. CASE Head(queue[j]) = None
    <3>1. SameTaken(i) /\ ipc[j] = "poll"
      BY <1>4, <1>b, <2>1 DEF PollAnswer, RR!ReadGet, RR!loopVars
    <3>2. Goto(j, "left") /\ Over(j, "cut")
      BY <1>4, <2>1 DEF PollAnswer
    <3>3. CASE j = i
      BY <1>0, <1>d, <3>1, <3>2, <3>3, HeardOver
    <3>4. CASE j # i
      BY <1>a, <1>c, <1>d, <3>1, <3>2, <3>4
    <3> QED
      BY <3>3, <3>4
  <2>2. CASE Head(queue[j]) # None
    <3>1. PICK e \in Events : TakesNext(j, e) /\ Answered(j, e)
      BY <1>4, <2>2, TakesFromReader
    <3>2. CASE j = i
      BY <1>0, <1>4, <3>1, <3>2, HeardAnswer DEF PollAnswer
    <3>3. CASE j # i
      <4>1. got'[i] = got[i]
        BY <1>4, <2>2, <3>3, TakesFromReader
      <4>2. SameTaken(i)
        BY <1>4, <1>b, <4>1 DEF PollAnswer, RR!ReadGet, RR!loopVars
      <4> QED
        BY <1>a, <1>e, <3>1, <3>3, <4>2
    <3> QED
      BY <3>2, <3>3
  <2> QED
    BY <2>1, <2>2
<1>5. ASSUME NEW j \in Invocations, PollEmpty(j) PROVE Heard(i)'
  <2>1. SameTaken(i) /\ ipc[j] = "poll"
    BY <1>5, <1>b DEF PollEmpty, RR!ReadTimeout, RR!loopVars
  <2>2. CASE UNCHANGED <<ipc, resultVars>>
    BY <1>a, <2>1, <2>2 DEF SameResult
  <2>3. CASE Leave(j, "timeout")
    <3>1. CASE j = i
      BY <1>0, <1>d, <2>1, <2>3, <3>1, HeardOver DEF Leave
    <3>2. CASE j # i
      BY <1>a, <1>c, <1>d, <2>1, <2>3, <3>2 DEF Leave
    <3> QED
      BY <3>1, <3>2
  <2> QED
    BY <1>5, <2>2, <2>3 DEF PollEmpty
<1>6. ASSUME NEW j \in Invocations, LeaveWith(j) \/ HttpLeave(j) PROVE Heard(i)'
  <2>1. SameTaken(i) /\ SameResult(i) /\ ipc[j] = "leave" /\ Goto(j, "left")
    BY <1>6, <1>b DEF LeaveWith, HttpLeave, RR!Abandon, RR!loopVars, readerVars, SameResult
  <2> QED
    BY <1>0, <1>d, <2>1, HeardStays
<1>7. ASSUME NEW j \in Invocations, MethodStep(j) \/ CallerStep(j) PROVE Heard(i)'
  <2>1. SameTaken(i)
    BY <1>7, <1>b DEF MethodStep, CallerStep, readerVars
  <2>2. CASE j = i
    BY <1>0, <1>7, <2>1, <2>2, HeardMethod
  <2>3. CASE j # i
    <3>1. SameResult(i)
      BY <1>0, <1>7, <2>3 DEF MethodStep, CallerStep, SameResult
    <3>2. ipc'[i] = ipc[i]
      BY <1>d, <1>7, <2>3 DEF MethodStep, CallerStep
    <3> QED
      BY <1>a, <2>1, <3>1, <3>2
  <2> QED
    BY <2>2, <2>3
<1>8. ASSUME NEW j \in Invocations, CloseReader(j) PROVE Heard(i)'
  <2>1. UNCHANGED <<got, arrived, callVars, methodVars, httpVars>>
    BY <1>8, CloseReaderView
  <2> QED
    BY <1>a, <1>b, <2>1 DEF SameResult
<1>9. ASSUME NEW j \in Invocations, HttpRequest(j) PROVE Heard(i)'
  <2>1. SameTaken(i) /\ ipc[j] = "idle"
    BY <1>9, <1>b DEF HttpRequest, readerVars
  <2>2. CASE Goto(j, "left") /\ Over(j, "unsent")
    <3>1. CASE j = i
      BY <1>0, <1>d, <2>1, <2>2, <3>1, HeardOver
    <3>2. CASE j # i
      BY <1>a, <1>c, <1>d, <2>1, <2>2, <3>2
    <3> QED
      BY <3>1, <3>2
  <2>3. CASE Goto(j, "poll") /\ UNCHANGED resultVars
    BY <1>0, <1>d, <2>1, <2>3, HeardStays DEF SameResult
  <2> QED
    BY <1>9, <2>2, <2>3 DEF HttpRequest
<1>10. ASSUME NEW j \in Invocations, HttpLine(j) PROVE Heard(i)'
  <2>1. PICK e \in Events : TakesNext(j, e) /\ Answered(j, e)
    BY <1>10, TakesFromBody
  <2>2. CASE j = i
    BY <1>0, <1>10, <2>1, <2>2, HeardAnswer DEF HttpLine
  <2>3. CASE j # i
    <3>1. read'[i] = read[i]
      BY <1>0, <1>10, <2>3 DEF HttpLine
    <3>2. SameTaken(i)
      BY <1>10, <1>b, <3>1 DEF HttpLine, readerVars
    <3> QED
      BY <1>a, <1>e, <2>1, <2>3, <3>2
  <2> QED
    BY <2>2, <2>3
<1>11. ASSUME NEW j \in Invocations, HttpNoLine(j) PROVE Heard(i)'
  <2>1. SameTaken(i) /\ ipc[j] = "poll"
    BY <1>11, <1>b DEF HttpNoLine, readerVars
  <2>2. PICK o \in {"cut", "timeout", "lost", "unsent"} : Leave(j, o)
    BY <1>11 DEF HttpNoLine
  <2>3. CASE j = i
    BY <1>0, <1>d, <2>1, <2>2, <2>3, HeardOver DEF Leave
  <2>4. CASE j # i
    BY <1>a, <1>c, <1>d, <2>1, <2>2, <2>4 DEF Leave
  <2> QED
    BY <2>3, <2>4
<1>12. ASSUME NEW l \in Lines, DaemonAnswer(l) PROVE Heard(i)'
  <2>1. /\ UNCHANGED <<transport, method, read, got, body, ipc, outcome, result, merged>>
        /\ arrived' = arrived \/ arrived' = Append(arrived, l)
    BY <1>12 DEF DaemonAnswer, RR!LoopRead, RR!consumerVars
  <2>2. SameTaken(i)
    BY <2>1, GrowsBehind
  <2> QED
    BY <1>a, <2>1, <2>2 DEF SameResult
<1>13. ASSUME NEW l \in Lines, DaemonLine(l) PROVE Heard(i)'
  <2>1. /\ UNCHANGED <<transport, method, read, got, arrived, ipc, outcome, result, merged>>
        /\ body' = [body EXCEPT ![l.id] = Append(body[l.id], l.event)]
    BY <1>13 DEF DaemonLine, readerVars
  <2>2. body'[i] = body[i] \/ \E e : body'[i] = Append(body[i], e)
    BY <2>1 DEF CallOK, WireTypes
  <2>3. SameTaken(i)
    BY <2>1, <2>2, GrowsBehind
  <2> QED
    BY <1>a, <2>1, <2>3 DEF SameResult
<1>14. UNCHANGED callView => Heard(i)'
  BY <1>a, <1>b DEF callView, SameResult
<1> QED
  BY <1>1, <1>2, <1>3, <1>4, <1>5, <1>6, <1>7, <1>8, <1>9, <1>10, <1>11, <1>12, <1>13,
     <1>14, QuietSteps DEF Next, Call

(***************************************************************************)
(* No call has heard anything in the beginning.                            *)
(***************************************************************************)
LEMMA HeardInit == Init => HeardInv
<1> SUFFICES ASSUME Init, NEW i \in Invocations PROVE Heard(i)
  BY DEF HeardInv
<1>1. /\ ipc[i] = "idle" /\ outcome[i] = "open" /\ result[i] = "none" /\ merged[i] = 0
      /\ read[i] = 0 /\ got[i] = <<>>
  BY DEF Init, RR!Init
<1>2. takenBy(i) = 0
  BY <1>1 DEF takenBy
<1>3. Answers(i) = 0
  <2>1. outcome[i] \notin {"complete", "failed"}
    BY <1>1
  <2>2. Answers(i) = takenBy(i) - 0
    BY <2>1 DEF Answers
  <2> QED
    BY <1>2, <2>2
<1> QED
  BY <1>1, <1>2, <1>3 DEF Heard, CleanInv, ResultInv, CountInv

(***************************************************************************)
(* A method that gives its caller a value has it from the daemon's answers *)
(* to this very call, over either transport: from the first of them, with  *)
(* none passed over, no error among them and nothing merged twice.         *)
(* StorageInvocation.set is left out: it returns without an answer too.    *)
(***************************************************************************)
THEOREM ValuesAreAnswered ==
  ASSUME storage_set \notin Methods
  PROVE  Spec => []ValueIsAnswered
<1>1. Spec => []HeardInv
  BY CallsHold, HeardInit, HeardStep, PTL DEF Spec
<1> QED
  BY <1>1, CallsHold, MethodKept, HeardIsAnswered, PTL

-----------------------------------------------------------------------------
(* Counting the lines of a call.                                           *)

(***************************************************************************)
(* Sets of lines, and the lines up to n.                                   *)
(***************************************************************************)
Counted(S) == IsFiniteSet(S) /\ S \subseteq Nat

UpTo(S, n) == {m \in S : m <= n}

(***************************************************************************)
(* The rank of a line is a number, and none is beyond the last.            *)
(***************************************************************************)
LEMMA RankIsNat ==
  ASSUME NEW S, Counted(S), NEW n
  PROVE  /\ IsFiniteSet(UpTo(S, n))
         /\ Rank(S, n) = Cardinality(UpTo(S, n))
         /\ Rank(S, n) \in Nat /\ Cardinality(S) \in Nat /\ Rank(S, n) <= Cardinality(S)
<1>1. UpTo(S, n) \subseteq S /\ IsFiniteSet(S)
  BY DEF UpTo, Counted
<1>2. /\ IsFiniteSet(UpTo(S, n)) /\ Cardinality(UpTo(S, n)) <= Cardinality(S)
  BY <1>1, FS_Subset
<1>3. Cardinality(UpTo(S, n)) \in Nat /\ Cardinality(S) \in Nat
  BY <1>1, <1>2, FS_CardinalityType
<1> QED
  BY <1>2, <1>3 DEF Rank, UpTo

(***************************************************************************)
(* A later line has a higher rank.                                         *)
(***************************************************************************)
LEMMA RankRises ==
  ASSUME NEW S, Counted(S), NEW m \in S, NEW n \in S, m < n
  PROVE  Rank(S, m) < Rank(S, n)
<1>1. /\ IsFiniteSet(UpTo(S, m)) /\ IsFiniteSet(UpTo(S, n))
      /\ Rank(S, m) = Cardinality(UpTo(S, m)) /\ Rank(S, m) \in Nat
      /\ Rank(S, n) = Cardinality(UpTo(S, n)) /\ Rank(S, n) \in Nat
  BY RankIsNat
<1>2. m \in Nat /\ n \in Nat /\ \A k \in S : k \in Nat
  BY DEF Counted
<1>3. n \notin UpTo(S, m) /\ UpTo(S, m) \cup {n} \subseteq UpTo(S, n)
  <2>1. ~(n <= m) /\ n <= n
    BY <1>2
  <2>2. ASSUME NEW k \in UpTo(S, m) PROVE k \in UpTo(S, n)
    <3>1. k \in S /\ k \in Nat /\ k <= m
      BY <1>2, <2>2 DEF UpTo
    <3>2. k <= n
      BY <1>2, <3>1
    <3> QED
      BY <3>1, <3>2 DEF UpTo
  <2>3. n \notin UpTo(S, m) /\ n \in UpTo(S, n)
    BY <2>1 DEF UpTo
  <2> QED
    BY <2>2, <2>3
<1>4. Cardinality(UpTo(S, m) \cup {n}) = Cardinality(UpTo(S, m)) + 1
  BY <1>1, <1>3, FS_AddElement
<1>5. Cardinality(UpTo(S, m) \cup {n}) <= Cardinality(UpTo(S, n))
  BY <1>1, <1>3, FS_Subset
<1> QED
  BY <1>1, <1>4, <1>5

(***************************************************************************)
(* So a line is the one of its rank.                                       *)
(***************************************************************************)
LEMMA NthOfRank ==
  ASSUME NEW S, Counted(S), NEW n \in S, NEW k, Rank(S, n) = k
  PROVE  Nth(S, k) = n
<1>1. ASSUME NEW m \in S, Rank(S, m) = k PROVE m = n
  <2>1. m \in Nat /\ n \in Nat /\ k \in Nat
    BY <1>1, RankIsNat DEF Counted
  <2>2. ~(m < n) /\ ~(n < m)
    BY <1>1, <2>1, RankRises
  <2> QED
    BY <2>1, <2>2
<1> QED
  BY <1>1 DEF Nth

(***************************************************************************)
(* Every rank up to the number of lines is some line's.                    *)
(***************************************************************************)
Ranked(S) == \A k \in 1 .. Cardinality(S) : \E n \in S : Rank(S, n) = k

(***************************************************************************)
(* T has one line more than S, z behind all others; what this changes.     *)
(***************************************************************************)
Behind(S, z, T) ==
  Counted(S) /\ Ranked(S) /\ z \in Nat /\ (\A n \in S : n < z) /\ T = S \cup {z}

Longer(S, z, T) ==
  /\ Counted(T) /\ Ranked(T)
  /\ Cardinality(T) = Cardinality(S) + 1
  /\ \A n \in S : Rank(T, n) = Rank(S, n)
  /\ \A k \in 1 .. Cardinality(S) : Nth(T, k) = Nth(S, k) /\ Nth(S, k) \in S
  /\ Nth(T, Cardinality(S) + 1) = z

(***************************************************************************)
(* One line more behind all others gets the next rank, and the others keep *)
(* theirs.                                                                 *)
(***************************************************************************)
LEMMA OneMore == \A S, z, T : Behind(S, z, T) => Longer(S, z, T)
<1> SUFFICES ASSUME NEW S, NEW z, NEW T, Behind(S, z, T) PROVE Longer(S, z, T)
  OBVIOUS
<1>a. /\ Counted(S) /\ Ranked(S) /\ z \in Nat
      /\ \A n \in S : n < z
      /\ T = S \cup {z}
  BY DEF Behind
<1>0. IsFiniteSet(S) /\ \A n \in S : n \in Nat
  BY <1>a DEF Counted
<1>1. z \notin S
  BY <1>0, <1>a
<1>2. IsFiniteSet(T) /\ Cardinality(T) = Cardinality(S) + 1 /\ Cardinality(S) \in Nat
  BY <1>0, <1>1, <1>a, FS_AddElement, FS_CardinalityType
<1>3. Counted(T)
  BY <1>0, <1>2, <1>a DEF Counted
<1>4. ASSUME NEW n \in S PROVE Rank(T, n) = Rank(S, n)
  <2>1. {m \in T : m <= n} = {m \in S : m <= n}
    BY <1>0, <1>a
  <2> QED
    BY <2>1 DEF Rank
<1>5. Rank(T, z) = Cardinality(S) + 1
  <2>1. {m \in T : m <= z} = T
    BY <1>0, <1>a
  <2> QED
    BY <1>2, <2>1 DEF Rank
<1>6. ASSUME NEW k \in 1 .. Cardinality(S)
      PROVE  Nth(T, k) = Nth(S, k) /\ Nth(S, k) \in S
  <2>1. PICK n \in S : Rank(S, n) = k
    BY <1>a DEF Ranked
  <2>2. Nth(S, k) = n
    BY <1>a, <2>1, NthOfRank
  <2>3. n \in T /\ Rank(T, n) = k
    BY <1>4, <1>a, <2>1
  <2>4. Nth(T, k) = n
    BY <1>3, <2>3, NthOfRank
  <2> QED
    BY <2>2, <2>4
<1>7. Nth(T, Cardinality(S) + 1) = z
  BY <1>3, <1>5, <1>a, NthOfRank
<1>8. Ranked(T)
  <2>1. ASSUME NEW k \in 1 .. Cardinality(T) PROVE \E n \in T : Rank(T, n) = k
    <3>1. CASE k = Cardinality(S) + 1
      BY <1>5, <1>a, <3>1
    <3>2. CASE k # Cardinality(S) + 1
      <4>1. k \in 1 .. Cardinality(S)
        BY <1>2, <3>2
      <4>2. PICK n \in S : Rank(S, n) = k
        BY <1>a, <4>1 DEF Ranked
      <4> QED
        BY <1>4, <1>a, <4>2
    <3> QED
      BY <3>1, <3>2
  <2> QED
    BY <2>1 DEF Ranked
<1> QED
  BY <1>2, <1>3, <1>4, <1>6, <1>7, <1>8 DEF Longer

-----------------------------------------------------------------------------
(* What ties a call to the abstract channel.                               *)

(***************************************************************************)
(* A call that has not sent its request has no answer, and no response     *)
(* before it has made it.                                                  *)
(***************************************************************************)
UnaskedInv ==
  /\ http \in [Invocations -> {"none", "open", "over", "lost", "closed"}]
  /\ \A i \in Invocations :
       /\ ipc[i] \in {"idle", "send"} => i \notin asked /\ body[i] = <<>>
       /\ ipc[i] = "idle" => http[i] = "none"

(***************************************************************************)
(* The lines to a call are counted, and the k-th that it has taken is the  *)
(* k-th of them.                                                           *)
(***************************************************************************)
CountedInv ==
  \A i \in Invocations :
    /\ Ranked(Mine(i))
    /\ \A k \in DOMAIN got[i] : Rank(Mine(i), got[i][k]) = k

(***************************************************************************)
(* Every step keeps the first, ...                                         *)
(***************************************************************************)
LEMMA UnaskedStep == CallOK /\ UnaskedInv /\ [Next]_vars => UnaskedInv'
<1> SUFFICES ASSUME CallOK, UnaskedInv, [Next]_vars PROVE UnaskedInv'
  OBVIOUS
<1> USE DEF methodVars, callVars, resultVars, httpVars, daemonVars
<1>0. /\ ipc \in [Invocations -> Places]
      /\ asked \subseteq Invocations /\ talking \subseteq asked
      /\ body \in [Invocations -> Seq(Events)]
  BY DEF CallOK, CallTypes, WireTypes
<1>a. ASSUME UNCHANGED <<asked, body, http>>,
             \A j \in Invocations : /\ ipc'[j] = "idle" => ipc[j] = "idle"
                                    /\ ipc'[j] = "send" => ipc[j] \in {"idle", "send"}
      PROVE  UnaskedInv'
  BY <1>a DEF UnaskedInv
<1>b. ASSUME NEW i \in Invocations, NEW pc \in {"poll", "caller", "leave", "left"},
             Goto(i, pc)
      PROVE  /\ ipc'[i] = pc
             /\ \A j \in Invocations : j # i => ipc'[j] = ipc[j]
             /\ \A j \in Invocations : /\ ipc'[j] = "idle" => ipc[j] = "idle"
                                       /\ ipc'[j] = "send" => ipc[j] \in {"idle", "send"}
  BY <1>0, <1>b DEF Goto
<1>c. ASSUME UNCHANGED <<asked, body, http>>, NEW i \in Invocations,
             ipc' = ipc \/ \E pc \in {"poll", "caller", "leave", "left"} : Goto(i, pc)
      PROVE  UnaskedInv'
  BY <1>a, <1>b, <1>c
<1>d. \A i \in Invocations : \A e :
        Answered(i, e) => \E pc \in {"poll", "caller", "leave", "left"} : Goto(i, pc)
  BY DEF Answered, Leave
<1>1. ASSUME NEW i \in Invocations, Start(i) PROVE UnaskedInv'
  <2>1. ipc[i] = "idle" /\ ipc' = [ipc EXCEPT ![i] = "send"] /\ UNCHANGED <<asked, body, http>>
    BY <1>1 DEF Start, Goto
  <2> QED
    BY <1>0, <1>a, <2>1
<1>2. ASSUME NEW i \in Invocations, Send(i) PROVE UnaskedInv'
  <2>1. UNCHANGED <<body, http>> /\ (asked' = asked \/ asked' = asked \cup {i})
    BY <1>2 DEF Send
  <2>2. PICK pc \in {"poll", "caller", "leave", "left"} : Goto(i, pc)
    BY <1>2 DEF Send, Leave
  <2> QED
    BY <1>b, <2>1, <2>2 DEF UnaskedInv
<1>3. ASSUME NEW i \in Invocations, PollHead(i) \/ PollEmpty(i) \/ HttpNoLine(i)
      PROVE  UnaskedInv'
  BY <1>3, <1>c DEF PollHead, PollEmpty, HttpNoLine, Leave
<1>4. ASSUME NEW i \in Invocations, PollAnswer(i) \/ HttpLine(i) PROVE UnaskedInv'
  BY <1>4, <1>c, <1>d DEF PollAnswer, HttpLine
<1>5. ASSUME NEW i \in Invocations, LeaveWith(i) \/ MethodStep(i) \/ CallerStep(i)
      PROVE  UnaskedInv'
  BY <1>5, <1>c DEF LeaveWith, MethodStep, CallerStep
<1>6. ASSUME NEW i \in Invocations, CloseReader(i) PROVE UnaskedInv'
  BY <1>6, <1>c, CloseReaderView
<1>7. ASSUME NEW i \in Invocations, HttpRequest(i) PROVE UnaskedInv'
  <2>1. /\ body' = body /\ (asked' = asked \/ asked' = asked \cup {i})
        /\ http' = http \/ http' = [http EXCEPT ![i] = "open"]
    BY <1>7 DEF HttpRequest
  <2>2. PICK pc \in {"poll", "caller", "leave", "left"} : Goto(i, pc)
    BY <1>7 DEF HttpRequest
  <2> QED
    BY <1>b, <2>1, <2>2 DEF UnaskedInv
<1>8. ASSUME NEW i \in Invocations, HttpLeave(i) PROVE UnaskedInv'
  <2>1. Goto(i, "left") /\ UNCHANGED <<asked, body>> /\ http' = [http EXCEPT ![i] = "closed"]
    BY <1>8 DEF HttpLeave
  <2> QED
    BY <1>b, <2>1 DEF UnaskedInv
<1>9. ASSUME NEW i \in Invocations, ResponseEnds(i) PROVE UnaskedInv'
  <2>1. PICK h \in {"over", "lost"} : http' = [http EXCEPT ![i] = h]
    BY <1>9 DEF ResponseEnds
  <2>2. UNCHANGED <<ipc, asked, body>> /\ http[i] = "open"
    BY <1>9 DEF ResponseEnds
  <2> QED
    BY <2>1, <2>2 DEF UnaskedInv
<1>10. ASSUME NEW l \in Lines, DaemonAnswer(l) PROVE UnaskedInv'
  BY <1>10, <1>a DEF DaemonAnswer
<1>11. ASSUME NEW l \in Lines, DaemonLine(l) PROVE UnaskedInv'
  <2>1. /\ UNCHANGED <<ipc, asked, http>> /\ l.id \in asked
        /\ body' = [body EXCEPT ![l.id] = Append(body[l.id], l.event)]
    BY <1>0, <1>11 DEF DaemonLine
  <2> QED
    BY <1>0, <2>1 DEF UnaskedInv
<1>12. ASSUME NEW c \in Closers, CloseAll(c) PROVE UnaskedInv'
  BY <1>12, <1>a DEF CloseAll
<1>13. Fanout \/ Disconnect \/ UNCHANGED vars => UnaskedInv'
  BY <1>a DEF Fanout, Disconnect, vars
<1> QED
  BY <1>1, <1>2, <1>3, <1>4, <1>5, <1>6, <1>7, <1>8, <1>9, <1>10, <1>11, <1>12, <1>13
     DEF Next, Call

(***************************************************************************)
(* ... and for the second: a line that comes in is the last answer to its  *)
(* call, and no answer to any other.                                       *)
(***************************************************************************)
LEMMA LineComesIn ==
  ASSUME GotInv, CountedInv, NEW l \in Lines, transport = "full_duplex",
         arrived' = Append(arrived, l), UNCHANGED <<transport, got>>
  PROVE  /\ CountedInv'
         /\ AnswersTo(l.id)' = Append(AnswersTo(l.id), l.event)
         /\ \A i \in Invocations : i # l.id => AnswersTo(i)' = AnswersTo(i)
<1>1. PICK z \in Nat : z = Len(arrived) + 1
  BY DEF GotInv
<1>2. /\ DOMAIN arrived = 1 .. z - 1 /\ DOMAIN arrived' = 1 .. z
      /\ \A n \in 1 .. z - 1 : arrived'[n] = arrived[n]
      /\ arrived'[z] = l
  BY <1>1 DEF GotInv
<1>3. \A i \in Invocations : Counted(Mine(i)) /\ Mine(i) \subseteq 1 .. z - 1
  <2>1. ASSUME NEW i \in Invocations PROVE Counted(Mine(i)) /\ Mine(i) \subseteq 1 .. z - 1
    <3>1. Mine(i) \subseteq 1 .. z - 1
      BY <1>2 DEF Mine
    <3>a. z - 1 \in Int /\ IsFiniteSet(1 .. z - 1)
      BY FS_Interval
    <3>2. IsFiniteSet(Mine(i))
      BY <3>1, <3>a, FS_Subset
    <3> QED
      BY <3>1, <3>2 DEF Counted
  <2> QED
    BY <2>1
<1>4. \A i \in Invocations : \A k \in DOMAIN got[i] : got[i][k] \in 1 .. z - 1 
  BY <1>2 DEF GotInv
<1>5. ASSUME NEW i \in Invocations, i # l.id
      PROVE  /\ Ranked(Mine(i))'
             /\ \A k \in DOMAIN got'[i] : Rank(Mine(i), got[i][k])' = k
             /\ AnswersTo(i)' = AnswersTo(i)
  <2>1. Mine(i)' = Mine(i)
    BY <1>2, <1>5 DEF Mine
  <2>2. Ranked(Mine(i))' /\ \A k \in DOMAIN got'[i] : Rank(Mine(i), got[i][k])' = k
    BY <2>1 DEF CountedInv, Ranked
  <2>3. \A k \in 1 .. Cardinality(Mine(i)) : Nth(Mine(i), k) \in 1 .. z - 1
    BY <1>3, NthOfRank DEF CountedInv, Ranked
  <2>4. AnswersTo(i)' = [k \in 1 .. Cardinality(Mine(i)) |-> arrived'[Nth(Mine(i), k)].event]
    BY <2>1 DEF AnswersTo
  <2>5. AnswersTo(i) = [k \in 1 .. Cardinality(Mine(i)) |-> arrived[Nth(Mine(i), k)].event]
    BY DEF AnswersTo
  <2> QED
    BY <1>2, <2>2, <2>3, <2>4, <2>5
<1>6. PICK i \in Invocations : i = l.id
  BY DEF Lines
<1>7. Mine(i)' = Mine(i) \cup {z}
  BY <1>2, <1>6 DEF Mine
<1>8. /\ Counted(Mine(i)) /\ Ranked(Mine(i))
      /\ \A n \in Mine(i) : n < z
  BY <1>3 DEF CountedInv
<1>9. PICK S : S = Mine(i)
  OBVIOUS
<1>10. PICK T : T = Mine(i)'
  OBVIOUS
<1>a. Behind(S, z, T)
  BY <1>7, <1>8, <1>9, <1>10 DEF Behind
<1>b. Longer(S, z, T)
  BY <1>a, OneMore
<1>11. /\ Ranked(T) /\ Cardinality(T) = Cardinality(S) + 1
       /\ \A n \in S : Rank(T, n) = Rank(S, n)
       /\ \A k \in 1 .. Cardinality(S) : Nth(T, k) = Nth(S, k) /\ Nth(S, k) \in S
       /\ Nth(T, Cardinality(S) + 1) = z
  BY <1>b DEF Longer
<1>12. Ranked(Mine(i))'
  BY <1>10, <1>11 DEF Ranked
<1>13. \A k \in DOMAIN got'[i] : Rank(Mine(i), got[i][k])' = k
  <2>1. ASSUME NEW k \in DOMAIN got[i] PROVE Rank(T, got[i][k]) = k
    <3>1. Rank(S, got[i][k]) = k
      BY <1>9 DEF CountedInv
    <3>2. got[i][k] \in 1 .. z - 1
      BY <1>4
    <3>3. {m \in T : m <= got[i][k]} = {m \in S : m <= got[i][k]}
      BY <1>7, <1>9, <1>10, <3>2
    <3> QED
      BY <3>1, <3>3 DEF Rank
  <2> QED
    BY <1>10, <2>1 DEF Rank
<1>14. AnswersTo(i)' = Append(AnswersTo(i), l.event)
  <2>1. PICK c \in Nat : c = Cardinality(S)
    BY <1>8, <1>9, FS_CardinalityType DEF Counted
  <2>2. AnswersTo(i)' = [k \in 1 .. c + 1 |-> arrived'[Nth(T, k)].event]
    BY <1>10, <1>11, <2>1 DEF AnswersTo, Nth, Rank
  <2>3. AnswersTo(i) = [k \in 1 .. c |-> arrived[Nth(S, k)].event]
    BY <1>9, <2>1 DEF AnswersTo
  <2>4. \A k \in 1 .. c : arrived'[Nth(T, k)].event = arrived[Nth(S, k)].event
    BY <1>2, <1>3, <1>9, <1>11, <2>1
  <2>5. arrived'[Nth(T, c + 1)].event = l.event
    BY <1>2, <1>11, <2>1
  <2>a. \A k \in 1 .. c : arrived[Nth(S, k)].event \in Events
    <3>1. \A k \in 1 .. c : Nth(S, k) \in 1 .. z - 1
      BY <1>3, <1>9, <1>11, <2>1
    <3>2. \A n \in 1 .. z - 1 : arrived[n] \in Lines
      BY <1>2 DEF GotInv
    <3> QED
      BY <3>1, <3>2 DEF Lines
  <2>6. PICK q \in Seq(Events) :
          /\ q = AnswersTo(i) /\ Len(q) = c
          /\ \A k \in 1 .. c : q[k] = arrived[Nth(S, k)].event
    BY <2>1, <2>3, <2>a
  <2>7. Append(q, l.event) = [k \in 1 .. c + 1 |-> IF k = c + 1 THEN l.event ELSE q[k]]
    BY <2>1, <2>6
  <2>8. \A k \in 1 .. c + 1 :
          arrived'[Nth(T, k)].event = IF k = c + 1 THEN l.event ELSE q[k]
    <3>1. \A k \in 1 .. c : arrived'[Nth(T, k)].event = q[k]
      BY <2>4, <2>6
    <3>2. \A k \in 1 .. c + 1 : k = c + 1 \/ k \in 1 .. c
      OBVIOUS
    <3> QED
      BY <2>5, <3>1, <3>2
  <2>9. AnswersTo(i)' = [k \in 1 .. c + 1 |-> IF k = c + 1 THEN l.event ELSE q[k]]
    BY <2>2, <2>8
  <2> QED
    BY <2>6, <2>7, <2>9
<1> QED
  BY <1>5, <1>6, <1>12, <1>13, <1>14 DEF CountedInv

(***************************************************************************)
(* The line that a call takes is the next of its answers.                  *)
(***************************************************************************)
LEMMA LineIsNext ==
  ASSUME GotInv, CountedInv, NEW i \in Invocations, FirstAnswers(i)',
         transport = "full_duplex", UNCHANGED <<transport, arrived>>,
         NEW h \in Nat, got' = [got EXCEPT ![i] = Append(got[i], h)]
  PROVE  /\ CountedInv'
         /\ Len(got[i]) < Len(AnswersTo(i))
         /\ AnswersTo(i)[Len(got[i]) + 1] = arrived[h].event
<1>1. PICK S : S = Mine(i)
  OBVIOUS
<1>2. Counted(S) /\ Mine(i)' = S
  <2>1. PICK z \in Nat : DOMAIN arrived = 1 .. z
    BY DEF GotInv
  <2>2. IsFiniteSet(1 .. z) /\ S \subseteq 1 .. z
    BY <1>1, <2>1, FS_Interval DEF Mine
  <2>3. IsFiniteSet(S)
    BY <2>2, FS_Subset
  <2> QED
    BY <1>1, <2>2, <2>3 DEF Counted, Mine
<1>3. PICK g \in Seq(Nat) : g = got[i]
  BY DEF GotInv
<1>4. PICK d \in Seq(Nat) : d = got'[i] /\ d = Append(g, h)
  <2>1. got'[i] = Append(g, h)
    BY <1>3 DEF GotInv
  <2>2. Append(g, h) \in Seq(Nat)
    BY <1>3
  <2> QED
    BY <2>1, <2>2
<1>5. PICK n \in Nat : n = Len(g)
  BY <1>3
<1>6. /\ DOMAIN g = 1 .. n /\ DOMAIN d = 1 .. n + 1
      /\ \A k \in 1 .. n : d[k] = g[k]
      /\ d[n + 1] = h
  BY <1>3, <1>4, <1>5
<1>7. /\ \A j, k \in 1 .. n + 1 : j < k => d[j] < d[k]
      /\ \A k \in 1 .. n + 1 : d[k] \in S
      /\ \A m \in S : \A k \in 1 .. n + 1 : m < d[k] => \E j \in 1 .. n + 1 : d[j] = m
  <2>1. /\ \A j, k \in DOMAIN d : j < k => d[j] < d[k]
        /\ {d[k] : k \in DOMAIN d} \subseteq S
        /\ \A m \in S, x \in {d[k] : k \in DOMAIN d} :
             m < x => m \in {d[k] : k \in DOMAIN d}
    BY <1>2, <1>4 DEF FirstAnswers
  <2>2. \A m \in S : \A k \in 1 .. n + 1 : m < d[k] => \E j \in 1 .. n + 1 : d[j] = m
    BY <1>6, <2>1
  <2> QED
    BY <1>6, <2>1, <2>2
<1>8. h \in S
  BY <1>6, <1>7
<1>9. \A k \in 1 .. n : Rank(S, g[k]) = k
  BY <1>1, <1>3, <1>6 DEF CountedInv
<1>10. \A m \in S : m < h => \E j \in 1 .. n : d[j] = m
  <2>1. ASSUME NEW m \in S, m < h PROVE \E j \in 1 .. n : d[j] = m
    <3>1. PICK j \in 1 .. n + 1 : d[j] = m
      BY <1>6, <1>7, <2>1
    <3>2. j # n + 1
      BY <1>6, <2>1, <3>1
    <3> QED
      BY <3>1, <3>2
  <2> QED
    BY <2>1
<1>11. Rank(S, h) = n + 1
  <2>1. CASE n = 0
    <3>1. \A m \in S : m \in Nat /\ ~(m < h)
      <4>1. 1 .. n = {}
        BY <2>1
      <4> QED
        BY <1>2, <1>10, <4>1 DEF Counted
    <3>2. \A m \in S : m <= h <=> m = h
      BY <3>1
    <3>3. UpTo(S, h) = {h}
      BY <1>8, <3>2 DEF UpTo
    <3>4. Cardinality({h}) = 1
      <4>1. IsFiniteSet({}) /\ Cardinality({}) = 0
        BY FS_EmptySet
      <4>2. Cardinality({} \cup {h}) = 0 + 1
        BY <4>1, FS_AddElement
      <4>3. {} \cup {h} = {h}
        OBVIOUS
      <4> QED
        BY <4>2, <4>3
    <3>5. Rank(S, h) = Cardinality(UpTo(S, h))
      BY <1>2, RankIsNat
    <3>6. Rank(S, h) = 1 /\ n + 1 = 1
      BY <2>1, <3>3, <3>4, <3>5
    <3> QED
      BY <3>6
  <2>2. CASE n > 0
    <3>1. PICK p \in S : p = g[n] /\ p < h /\ Rank(S, p) = n
      BY <1>6, <1>7, <1>9, <2>2
    <3>2. p \in Nat /\ \A m \in S : m \in Nat
      BY <1>2 DEF Counted
    <3>3. \A m \in S : m < h => m <= p
      <4>1. ASSUME NEW m \in S, m < h PROVE m <= p
        <5>1. PICK j \in 1 .. n : d[j] = m
          BY <1>10, <4>1
        <5>2. j = n \/ j < n
          BY <5>1
        <5>3. j < n => d[j] < d[n]
          BY <1>7, <2>2
        <5>4. d[n] = p
          BY <1>6, <2>2, <3>1
        <5> QED
          BY <3>2, <5>1, <5>2, <5>3, <5>4
      <4> QED
        BY <4>1
    <3>4. UpTo(S, h) = UpTo(S, p) \cup {h}
      <4>1. \A m \in S : m <= h <=> m <= p \/ m = h
        BY <3>1, <3>2, <3>3
      <4> QED
        BY <1>8, <4>1 DEF UpTo
    <3>5. h \notin UpTo(S, p)
      BY <3>1, <3>2 DEF UpTo
    <3>6. IsFiniteSet(UpTo(S, p)) /\ Cardinality(UpTo(S, p)) = n
      BY <1>2, <3>1, RankIsNat
    <3>7. Cardinality(UpTo(S, h)) = n + 1
      BY <3>4, <3>5, <3>6, FS_AddElement
    <3> QED
      BY <1>2, <3>7, RankIsNat
  <2> QED
    BY <2>1, <2>2
<1>12. \A k \in 1 .. n + 1 : Rank(S, d[k]) = k
  BY <1>6, <1>9, <1>11
<1>13. CountedInv'
  <2>1. Ranked(S)
    BY <1>1 DEF CountedInv
  <2>2. ASSUME NEW j \in Invocations, j # i
        PROVE  Mine(j)' = Mine(j) /\ got'[j] = got[j]
    BY <2>2 DEF Mine, GotInv
  <2>3. ASSUME NEW j \in Invocations
        PROVE  Ranked(Mine(j))' /\ \A k \in DOMAIN got'[j] : Rank(Mine(j), got[j][k])' = k
    <3>1. CASE j = i
      <4>1. \A k \in DOMAIN got'[i] : Rank(S, got'[i][k]) = k
        BY <1>4, <1>6, <1>12
      <4> QED
        BY <1>2, <2>1, <3>1, <4>1 DEF Ranked, Rank
    <3>2. CASE j # i
      <4>1. Ranked(Mine(j)) /\ \A k \in DOMAIN got[j] : Rank(Mine(j), got[j][k]) = k
        BY DEF CountedInv
      <4>2. Mine(j)' = Mine(j) /\ got'[j] = got[j]
        BY <2>2, <3>2
      <4> QED
        BY <4>1, <4>2 DEF Ranked, Rank
    <3> QED
      BY <3>1, <3>2
  <2> QED
    BY <2>3 DEF CountedInv
<1>14. PICK c \in Nat : c = Cardinality(S) /\ n + 1 <= c
  BY <1>2, <1>11, RankIsNat
<1>15. Nth(S, n + 1) = h
  BY <1>2, <1>8, <1>11, NthOfRank
<1>16. AnswersTo(i) = [k \in 1 .. c |-> arrived[Nth(S, k)].event]
  BY <1>1, <1>14 DEF AnswersTo
<1>17. Len(AnswersTo(i)) = c
  BY <1>14, <1>16
<1> QED
  BY <1>3, <1>5, <1>13, <1>14, <1>15, <1>16, <1>17

-----------------------------------------------------------------------------
(* The steps of the channel.                                               *)

SameAnswers(i) == AnswersTo(i)' = AnswersTo(i) /\ takenBy(i)' = takenBy(i)

Alive ==
  {i \in Invocations : IF transport = "http" THEN http[i] \in {"none", "open"} ELSE ~closed}

(***************************************************************************)
(* A step at which no call takes or is given an answer, and none is over,  *)
(* is one of the channel's, ...                                            *)
(***************************************************************************)
LEMMA ChannelQuiet ==
  ASSUME \A i \in Invocations : SameAnswers(i), outcome' = outcome, Alive' \subseteq Alive
  PROVE  Channel!Next
BY DEF SameAnswers, Alive, Channel!Next, Channel!Disconnect

(***************************************************************************)
(* ... so is one at which a call is over without an answer, ...            *)
(***************************************************************************)
LEMMA ChannelGivesUp ==
  ASSUME CallOK, \A j \in Invocations : SameAnswers(j), Alive' = Alive,
         NEW i \in Invocations, outcome[i] = "open",
         NEW o \in {"cut", "lost", "timeout", "unsent", "abandoned"},
         outcome' = [outcome EXCEPT ![i] = o],
         o \in {"cut", "lost"} => i \notin Alive,
         o = "unsent" => AnswersTo(i) = <<>>
  PROVE  Channel!Next
<1>1. /\ [j \in Invocations |-> AnswersTo(j)]' = [j \in Invocations |-> AnswersTo(j)]
      /\ [j \in Invocations |-> takenBy(j)]' = [j \in Invocations |-> takenBy(j)]
  BY DEF SameAnswers
<1>2. Channel!GiveUp(i, o)
  BY <1>1 DEF Alive, Channel!GiveUp
<1>3. o \in Channel!Outcomes
  BY DEF Channel!Outcomes
<1> QED
  BY <1>2, <1>3 DEF Channel!Next

(***************************************************************************)
(* ... one at which a call takes the next of its answers, ...              *)
(***************************************************************************)
LEMMA ChannelTakes ==
  ASSUME CallOK, \A j \in Invocations : AnswersTo(j)' = AnswersTo(j), Alive' = Alive,
         NEW i \in Invocations, outcome[i] = "open",
         takenBy(i) < Len(AnswersTo(i)), takenBy(i)' = takenBy(i) + 1,
         \A j \in Invocations : j # i => takenBy(j)' = takenBy(j),
         NEW e \in Events, AnswersTo(i)[takenBy(i) + 1] = e,
         outcome' = [outcome EXCEPT ![i] = outcomeOf(e)]
  PROVE  Channel!Next
<1>1. /\ [j \in Invocations |-> AnswersTo(j)]' = [j \in Invocations |-> AnswersTo(j)]
      /\ [j \in Invocations |-> takenBy(j)]'
           = [[j \in Invocations |-> takenBy(j)] EXCEPT ![i] = takenBy(i) + 1]
  OBVIOUS
<1>2. Channel!OutcomeOf(e) = outcomeOf(e)
  BY DEF Channel!OutcomeOf, outcomeOf, Events
<1>3. Channel!Take(i)
  BY <1>1, <1>2 DEF Alive, Channel!Take
<1> QED
  BY <1>3 DEF Channel!Next

(***************************************************************************)
(* ... and one at which the daemon answers.                                *)
(***************************************************************************)
LEMMA ChannelAnswers ==
  ASSUME \A j \in Invocations : takenBy(j)' = takenBy(j), Alive' = Alive,
         outcome' = outcome, NEW i \in Invocations, NEW e \in Events,
         AnswersTo(i)' = Append(AnswersTo(i), e),
         \A j \in Invocations : j # i => AnswersTo(j)' = AnswersTo(j)
  PROVE  Channel!Next
<1>1. /\ [j \in Invocations |-> AnswersTo(j)]'
           = [[j \in Invocations |-> AnswersTo(j)] EXCEPT ![i] = Append(AnswersTo(i), e)]
      /\ [j \in Invocations |-> takenBy(j)]' = [j \in Invocations |-> takenBy(j)]
  OBVIOUS
<1>2. Channel!Answer(i, e)
  BY <1>1 DEF Alive, Channel!Answer
<1>3. e \in Channel!Events
  BY DEF Channel!Events, Events
<1> QED
  BY <1>2, <1>3 DEF Channel!Next

(***************************************************************************)
(* The connection of a call does not come back.                            *)
(***************************************************************************)
LEMMA AliveShrinks ==
  ASSUME transport' = transport, closed => closed',
         \A i \in Invocations : http'[i] \in {"none", "open"} => http[i] \in {"none", "open"}
  PROVE  Alive' \subseteq Alive
BY DEF Alive

(***************************************************************************)
(* Where no line has come in, no line has a rank.                          *)
(***************************************************************************)
LEMMA NothingRanked == Ranked({}) /\ \A k : k \notin 1 .. Cardinality({})
<1>1. Cardinality({}) = 0 /\ IsFiniteSet({})
  BY FS_EmptySet
<1>2. 1 .. 0 = {}
  OBVIOUS
<1>3. \A k : k \notin 1 .. Cardinality({})
  BY <1>1, <1>2
<1> QED
  BY <1>1, <1>2, <1>3 DEF Ranked

(***************************************************************************)
(* A step that touches no answer changes none.                             *)
(***************************************************************************)
LEMMA AnswersStay ==
  ASSUME UNCHANGED <<transport, arrived, body, got, read>>
  PROVE  /\ \A i \in Invocations : SameAnswers(i)
         /\ CountedInv => CountedInv'
<1>1. \A i \in Invocations : Mine(i)' = Mine(i)
  BY DEF Mine
<1>2. ASSUME NEW i \in Invocations PROVE AnswersTo(i)' = AnswersTo(i)
  <2>1. PICK S : S = Mine(i) /\ S = Mine(i)'
    BY <1>1
  <2>2. /\ AnswersTo(i) = IF transport = "http" THEN body[i]
                          ELSE [k \in 1 .. Cardinality(S) |-> arrived[Nth(S, k)].event]
        /\ AnswersTo(i)' = IF transport' = "http" THEN body'[i]
                           ELSE [k \in 1 .. Cardinality(S) |-> arrived'[Nth(S, k)].event]
    BY <2>1 DEF AnswersTo, Nth, Rank
  <2> QED
    BY <2>2
<1>3. \A i \in Invocations : takenBy(i)' = takenBy(i)
  BY DEF takenBy
<1>4. ASSUME CountedInv PROVE CountedInv'
  <2>1. ASSUME NEW i \in Invocations
        PROVE  Ranked(Mine(i))' /\ \A k \in DOMAIN got'[i] : Rank(Mine(i), got[i][k])' = k
    <3>1. PICK S : S = Mine(i) /\ S = Mine(i)'
      BY <1>1
    <3>2. Ranked(S) /\ \A k \in DOMAIN got[i] : Rank(S, got[i][k]) = k
      BY <1>4, <3>1 DEF CountedInv
    <3> QED
      BY <3>1, <3>2 DEF Ranked, Rank
  <2> QED
    BY <2>1 DEF CountedInv
<1> QED
  BY <1>2, <1>3, <1>4 DEF SameAnswers

(***************************************************************************)
(* There is no answer to what has not been asked.                          *)
(***************************************************************************)
LEMMA NoAnswerYet ==
  ASSUME GotInv, AskedInv, UnaskedInv, NEW i \in Invocations, ipc[i] \in {"idle", "send"}
  PROVE  AnswersTo(i) = <<>>
<1>1. i \notin asked /\ body[i] = <<>>
  BY DEF UnaskedInv
<1>2. Mine(i) = {}
  BY <1>1 DEF AskedInv, Mine
<1>3. Cardinality(Mine(i)) = 0
  BY <1>2, FS_EmptySet
<1>4. CASE transport # "http"
  <2>1. 1 .. Cardinality(Mine(i)) = {}
    BY <1>3
  <2>2. AnswersTo(i) = [k \in 1 .. Cardinality(Mine(i)) |-> arrived[Nth(Mine(i), k)].event]
    BY <1>4 DEF AnswersTo
  <2> QED
    BY <2>1, <2>2
<1> QED
  BY <1>1, <1>4 DEF AnswersTo

-----------------------------------------------------------------------------
(* Every step of the calls, the daemon and the connection.                 *)

(***************************************************************************)
(* A reader that has come to its end was closed, because the connection    *)
(* was.                                                                    *)
(***************************************************************************)
LEMMA CutWhenClosed ==
  ASSUME FanoutInv, NEW i \in Invocations,
         \/ PollHead(i) /\ cpc'[i] = "exit"
         \/ PollAnswer(i) /\ Head(queue[i]) = None
  PROVE  closed /\ transport = "full_duplex"
<1>1. cpc[i] # "done" /\ transport = "full_duplex"
  BY DEF PollHead, PollAnswer, RR!ReadHead, RR!ReadGet
<1>2. CASE PollHead(i) /\ cpc'[i] = "exit"
  <2>1. RRP!readerClosed(i)
    BY <1>2 DEF PollHead, RR!ReadHead, RR!readerClosed, RRP!readerClosed, FanoutInv,
       RRP!TypeOK
  <2> QED
    BY <1>1, <2>1 DEF FanoutInv, RRP!ClosedByItsOwn
<1>3. CASE PollAnswer(i) /\ Head(queue[i]) = None
  <2>1. PICK q : q = queue[i]
    OBVIOUS
  <2>2. q \in Seq(RRP!Line \cup {None}) /\ q # <<>>
    BY <1>3, <2>1 DEF PollAnswer, RR!ReadGet, FanoutInv, RRP!TypeOK
  <2>3. 1 \in DOMAIN q /\ q[1] = None
    BY <1>3, <2>1, <2>2
  <2>4. RRP!Marked(queue[i])
    BY <2>1, <2>3 DEF RRP!Marked
  <2>5. RRP!readerClosed(i)
    BY <2>4 DEF FanoutInv, RRP!LateInv, RRP!readerClosed
  <2> QED
    BY <1>1, <2>5 DEF FanoutInv, RRP!ClosedByItsOwn
<1> QED
  BY <1>2, <1>3

(***************************************************************************)
(* A call that is polling, or whose caller has an answer, is open.         *)
(***************************************************************************)
LEMMA GoesOn ==
  ASSUME HeardInv, NEW i \in Invocations, ipc[i] \in {"idle", "send", "poll", "caller"}
  PROVE  outcome[i] = "open"
BY DEF HeardInv, Heard, ResultInv

(***************************************************************************)
(* A step of a call over a full-duplex connection.                         *)
(***************************************************************************)
Known ==
  FanoutInv /\ CallOK /\ GotInv /\ AskedInv /\ PlaceInv /\ HeardInv /\ UnaskedInv /\ CountedInv

LEMMA DuplexStep ==
  ASSUME Known, NEW i \in Invocations, FirstAnswers(i)',
         \/ Start(i) \/ Send(i) \/ PollHead(i) \/ PollAnswer(i) \/ PollEmpty(i)
         \/ LeaveWith(i) \/ CloseReader(i)
  PROVE  CountedInv' /\ Channel!Next
<1> USE DEF methodVars, callVars, resultVars, httpVars, daemonVars, Known
<1>0. ASSUME UNCHANGED <<transport, closed, http>> PROVE Alive' = Alive
  BY <1>0 DEF Alive
<1>a. ASSUME UNCHANGED <<transport, closed, http, arrived, body, got, read, outcome>>
      PROVE  CountedInv' /\ Channel!Next
  BY <1>0, <1>a, AnswersStay, ChannelQuiet
<1>b. ASSUME UNCHANGED <<transport, closed, http, arrived, body, got, read>>,
             outcome[i] = "open",
             NEW o \in {"cut", "timeout", "unsent"}, Over(i, o),
             o = "cut" => i \notin Alive, o = "unsent" => AnswersTo(i) = <<>>
      PROVE  CountedInv' /\ Channel!Next
  <2>1. outcome' = [outcome EXCEPT ![i] = o]
    BY <1>b DEF Over
  <2>2. CountedInv' /\ \A j \in Invocations : SameAnswers(j)
    BY <1>b, AnswersStay
  <2> QED
    BY <1>0, <1>b, <2>1, <2>2, ChannelGivesUp
<1>1. CASE Start(i)
  BY <1>1, <1>a DEF Start, RR!Register, RR!loopVars
<1>2. CASE Send(i)
  <2>1. /\ UNCHANGED <<transport, closed, http, arrived, body, got, read>>
        /\ ipc[i] = "send"
        /\ outcome' = outcome \/ Over(i, "unsent")
    BY <1>2 DEF Send, readerVars, Leave
  <2>2. outcome[i] = "open" /\ AnswersTo(i) = <<>>
    BY <2>1, GoesOn, NoAnswerYet
  <2> QED
    BY <1>a, <1>b, <2>1, <2>2
<1>3. CASE PollHead(i)
  <2>1. /\ UNCHANGED <<transport, closed, http, arrived, body, got, read>>
        /\ ipc[i] = "poll"
        /\ outcome' = outcome \/ (Over(i, "cut") /\ cpc'[i] = "exit")
    BY <1>3 DEF PollHead, RR!ReadHead, RR!loopVars
  <2>2. outcome[i] = "open"
    BY <2>1, GoesOn
  <2>3. cpc'[i] = "exit" => i \notin Alive
    BY <1>3, CutWhenClosed DEF Alive
  <2> QED
    BY <1>a, <1>b, <2>1, <2>2, <2>3
<1>4. CASE PollAnswer(i) /\ Head(queue[i]) = None
  <2>1. /\ UNCHANGED <<transport, closed, http, arrived, body, got, read>>
        /\ ipc[i] = "poll" /\ Over(i, "cut")
    BY <1>4 DEF PollAnswer, RR!ReadGet, RR!loopVars
  <2>2. outcome[i] = "open"
    BY <2>1, GoesOn
  <2>3. i \notin Alive
    BY <1>4, CutWhenClosed DEF Alive
  <2> QED
    BY <1>b, <2>1, <2>2, <2>3
<1>5. CASE PollAnswer(i) /\ Head(queue[i]) # None
  <2>1. PICK h : h = Head(queue[i])
    OBVIOUS
  <2>2. /\ UNCHANGED <<transport, closed, http, arrived, body, read>>
        /\ ipc[i] = "poll" /\ transport = "full_duplex" /\ queue[i] # <<>>
        /\ got' = [got EXCEPT ![i] = Append(got[i], h)]
        /\ Answered(i, arrived[h].event)
    BY <1>5, <2>1 DEF PollAnswer, RR!ReadGet, RR!loopVars
  <2>3. h \in Nat /\ arrived[h].event \in Events
    <3>1. PICK q \in Seq(Nat \cup {None}) : q = queue[i]
      BY GotIsDue
    <3>2. 1 \in DOMAIN q /\ h = q[1] /\ h # None
      BY <1>5, <2>1, <2>2, <3>1
    <3>3. h \in DOMAIN arrived
      BY <3>1, <3>2, GotIsDue
    <3>4. h \in Nat /\ arrived[h] \in Lines
      BY <3>3 DEF GotInv
    <3> QED
      BY <3>4 DEF Lines
  <2>4. /\ CountedInv'
        /\ Len(got[i]) < Len(AnswersTo(i))
        /\ AnswersTo(i)[Len(got[i]) + 1] = arrived[h].event
    BY <2>2, <2>3, LineIsNext
  <2>5. outcome[i] = "open"
    BY <2>2, GoesOn
  <2>6. outcome' = [outcome EXCEPT ![i] = outcomeOf(arrived[h].event)]
    BY <2>2, <2>5 DEF Answered, Leave, Over, CallOK, CallTypes
  <2>7. \A j \in Invocations : AnswersTo(j)' = AnswersTo(j)
    BY <2>2 DEF AnswersTo, Mine, Nth, Rank
  <2>8. /\ takenBy(i) = Len(got[i]) /\ takenBy(i)' = takenBy(i) + 1
        /\ \A j \in Invocations : j # i => takenBy(j)' = takenBy(j)
    <3>1. PICK g \in Seq(Nat) : g = got[i]
      BY DEF GotInv
    <3>2. Len(Append(g, h)) = Len(g) + 1
      BY <2>3, <3>1
    <3>3. got'[i] = Append(g, h) /\ \A j \in Invocations : j # i => got'[j] = got[j]
      BY <2>2, <3>1 DEF GotInv
    <3> QED
      BY <2>2, <3>1, <3>2, <3>3 DEF takenBy
  <2>9. Alive' = Alive
    BY <1>0, <2>2
  <2> QED
    BY <2>3, <2>4, <2>5, <2>6, <2>7, <2>8, <2>9, ChannelTakes
<1>6. CASE PollEmpty(i)
  <2>1. /\ UNCHANGED <<transport, closed, http, arrived, body, got, read>>
        /\ ipc[i] = "poll"
        /\ outcome' = outcome \/ Over(i, "timeout")
    BY <1>6 DEF PollEmpty, RR!ReadTimeout, RR!loopVars, Leave
  <2>2. outcome[i] = "open"
    BY <2>1, GoesOn
  <2> QED
    BY <1>a, <1>b, <2>1, <2>2
<1>7. CASE LeaveWith(i)
  BY <1>7, <1>a DEF LeaveWith, RR!Abandon, RR!loopVars
<1>8. CASE CloseReader(i)
  <2>1. UNCHANGED <<got, since, arrived, callVars, daemonVars, methodVars, httpVars>>
    BY <1>8, CloseReaderView
  <2>2. closed' = closed
    BY <1>8 DEF CloseReader, RR!ConsumerExit, RR!Closing, RR!CloseRemove, RR!ClosePut,
       RR!CloseNext
  <2> QED
    BY <1>a, <2>1, <2>2
<1> QED
  BY <1>1, <1>2, <1>3, <1>4, <1>5, <1>6, <1>7, <1>8

(***************************************************************************)
(* A step of a call over HTTP, or of the one it returns to.                *)
(***************************************************************************)
LEMMA HttpStep ==
  ASSUME Known, NEW i \in Invocations,
         \/ HttpRequest(i) \/ HttpLine(i) \/ HttpNoLine(i) \/ HttpLeave(i)
         \/ ResponseEnds(i) \/ MethodStep(i) \/ CallerStep(i)
  PROVE  CountedInv' /\ Channel!Next
<1> USE DEF methodVars, callVars, resultVars, httpVars, daemonVars, Known
<1>0. ASSUME UNCHANGED <<transport, closed, http>> PROVE Alive' = Alive
  BY <1>0 DEF Alive
<1>a. ASSUME UNCHANGED <<transport, closed, arrived, body, got, read, outcome>>,
             \A j \in Invocations :
               http'[j] \in {"none", "open"} => http[j] \in {"none", "open"}
      PROVE  CountedInv' /\ Channel!Next
  BY <1>a, AliveShrinks, AnswersStay, ChannelQuiet
<1>b. ASSUME UNCHANGED <<transport, closed, http, arrived, body, got, read>>,
             outcome[i] = "open",
             NEW o \in {"cut", "lost", "timeout", "unsent", "abandoned"},
             outcome' = [outcome EXCEPT ![i] = o],
             o \in {"cut", "lost"} => i \notin Alive, o = "unsent" => AnswersTo(i) = <<>>
      PROVE  CountedInv' /\ Channel!Next
  <2>1. CountedInv' /\ \A j \in Invocations : SameAnswers(j)
    BY <1>b, AnswersStay
  <2> QED
    BY <1>0, <1>b, <2>1, ChannelGivesUp
<1>1. CASE HttpRequest(i)
  <2>1. /\ UNCHANGED <<transport, closed, arrived, body, got, read>>
        /\ ipc[i] = "idle" /\ http[i] = "none"
        /\ \/ http' = http /\ Over(i, "unsent")
           \/ http' = [http EXCEPT ![i] = "open"] /\ outcome' = outcome
    BY <1>1 DEF HttpRequest, readerVars, UnaskedInv
  <2>2. outcome[i] = "open" /\ AnswersTo(i) = <<>>
    BY <2>1, GoesOn, NoAnswerYet
  <2>3. CASE http' = http /\ Over(i, "unsent")
    BY <1>b, <2>1, <2>2, <2>3 DEF Over
  <2>4. CASE http' = [http EXCEPT ![i] = "open"] /\ outcome' = outcome
    <3>1. \A j \in Invocations : http'[j] \in {"none", "open"} => http[j] \in {"none", "open"}
      BY <2>1, <2>4 DEF UnaskedInv
    <3> QED
      BY <1>a, <2>1, <2>4, <3>1
  <2> QED
    BY <2>1, <2>3, <2>4
<1>2. CASE HttpLine(i)
  <2>1. /\ UNCHANGED <<transport, closed, http, arrived, body, got>>
        /\ transport = "http" /\ ipc[i] = "poll" /\ read[i] < Len(body[i])
        /\ read' = [read EXCEPT ![i] = read[i] + 1]
        /\ Answered(i, body[i][read'[i]])
    BY <1>2 DEF HttpLine, readerVars
  <2>2. outcome[i] = "open"
    BY <2>1, GoesOn
  <2>3. PICK b \in Seq(Events) : b = body[i]
    BY DEF CallOK, WireTypes
  <2>4. PICK n \in Nat : n = read[i] /\ n < Len(b)
    BY <2>1, <2>3 DEF CallOK, WireTypes
  <2>5. read'[i] = n + 1 /\ \A j \in Invocations : j # i => read'[j] = read[j]
    BY <2>1, <2>4 DEF CallOK, WireTypes
  <2>6. PICK e \in Events : e = b[n + 1]
    BY <2>3, <2>4
  <2>7. outcome' = [outcome EXCEPT ![i] = outcomeOf(e)]
    BY <2>1, <2>2, <2>3, <2>5, <2>6 DEF Answered, Leave, Over, CallOK, CallTypes
  <2>8. /\ AnswersTo(i) = b /\ takenBy(i) = n /\ takenBy(i)' = n + 1
        /\ \A j \in Invocations : AnswersTo(j)' = AnswersTo(j)
        /\ \A j \in Invocations : j # i => takenBy(j)' = takenBy(j)
    BY <2>1, <2>3, <2>4, <2>5 DEF AnswersTo, takenBy
  <2>9. CountedInv'
    <3>1. \A j \in Invocations : got'[j] = <<>> /\ Mine(j)' = {}
      BY <2>1 DEF PlaceInv, Mine
    <3>2. ASSUME NEW j \in Invocations
          PROVE  /\ Ranked(Mine(j))'
                 /\ \A k \in DOMAIN got'[j] : Rank(Mine(j), got[j][k])' = k
      <4>1. PICK S : S = Mine(j)' /\ S = {}
        BY <3>1
      <4>2. Ranked(S) /\ DOMAIN got'[j] = {}
        BY <3>1, <4>1, NothingRanked
      <4> QED
        BY <4>1, <4>2 DEF Ranked, Rank
    <3> QED
      BY <3>2 DEF CountedInv
  <2> QED
    BY <1>0, <2>1, <2>2, <2>4, <2>6, <2>7, <2>8, <2>9, ChannelTakes
<1>3. CASE HttpNoLine(i)
  <2>1. /\ UNCHANGED <<transport, closed, http, arrived, body, got, read>>
        /\ transport = "http" /\ ipc[i] = "poll"
    BY <1>3 DEF HttpNoLine, readerVars
  <2>2. PICK o \in {"cut", "lost", "timeout"} :
          /\ Over(i, o)
          /\ o \in {"cut", "lost"} => http[i] \in {"over", "lost"}
    BY <1>3 DEF HttpNoLine, Leave
  <2>3. outcome[i] = "open"
    BY <2>1, GoesOn
  <2>4. o \in {"cut", "lost"} => i \notin Alive
    BY <2>1, <2>2 DEF Alive
  <2> QED
    BY <1>b, <2>1, <2>2, <2>3, <2>4 DEF Over
<1>4. CASE HttpLeave(i)
  <2>1. /\ UNCHANGED <<transport, closed, arrived, body, got, read, outcome>>
        /\ http' = [http EXCEPT ![i] = "closed"]
    BY <1>4 DEF HttpLeave, readerVars
  <2>2. \A j \in Invocations : http'[j] \in {"none", "open"} => http[j] \in {"none", "open"}
    BY <2>1 DEF UnaskedInv
  <2> QED
    BY <1>a, <2>1, <2>2
<1>5. CASE ResponseEnds(i)
  <2>1. UNCHANGED <<transport, closed, arrived, body, got, read, outcome>>
    BY <1>5 DEF ResponseEnds, readerVars
  <2>2. PICK h \in {"over", "lost"} : http' = [http EXCEPT ![i] = h]
    BY <1>5 DEF ResponseEnds
  <2>3. \A j \in Invocations : http'[j] \in {"none", "open"} => http[j] \in {"none", "open"}
    BY <2>2 DEF UnaskedInv
  <2> QED
    BY <1>a, <2>1, <2>3
<1>6. CASE MethodStep(i) \/ CallerStep(i)
  <2>1. /\ UNCHANGED <<transport, closed, http, arrived, body, got, read>>
        /\ ipc[i] = "caller"
        /\ outcome' = outcome \/ outcome' = [outcome EXCEPT ![i] = "abandoned"]
    BY <1>6 DEF MethodStep, CallerStep, readerVars
  <2>2. outcome[i] = "open"
    BY <2>1, GoesOn
  <2> QED
    BY <1>a, <1>b, <2>1, <2>2
<1> QED
  BY <1>1, <1>2, <1>3, <1>4, <1>5, <1>6

(***************************************************************************)
(* A step of the daemon, of the event loop, or of who closes the           *)
(* connection.                                                             *)
(***************************************************************************)
LEMMA WorldStep ==
  ASSUME Known,
         \/ \E l \in Lines : DaemonAnswer(l) \/ DaemonLine(l)
         \/ Fanout \/ Disconnect
         \/ \E c \in Closers : CloseAll(c)
         \/ UNCHANGED vars
  PROVE  CountedInv' /\ Channel!Next
<1> USE DEF methodVars, callVars, resultVars, httpVars, daemonVars, Known
<1>a. ASSUME UNCHANGED <<transport, http, arrived, body, got, read, outcome>>,
             closed => closed'
      PROVE  CountedInv' /\ Channel!Next
  BY <1>a, AliveShrinks, AnswersStay, ChannelQuiet
<1>b. \A i \in Invocations : \A l \in Lines : l.id = i => l.event \in Events /\ l.id \in Invocations
  BY DEF Lines
<1>1. ASSUME NEW l \in Lines, DaemonAnswer(l) PROVE CountedInv' /\ Channel!Next
  <2>1. /\ UNCHANGED <<transport, closed, http, body, got, read, outcome>>
        /\ transport = "full_duplex"
        /\ arrived' = arrived \/ arrived' = Append(arrived, l)
    BY <1>1 DEF DaemonAnswer, RR!LoopRead, RR!consumerVars
  <2>2. CASE arrived' = Append(arrived, l)
    <3>1. /\ CountedInv'
          /\ AnswersTo(l.id)' = Append(AnswersTo(l.id), l.event)
          /\ \A j \in Invocations : j # l.id => AnswersTo(j)' = AnswersTo(j)
      BY <2>1, <2>2, LineComesIn
    <3>2. Alive' = Alive /\ \A j \in Invocations : takenBy(j)' = takenBy(j)
      BY <2>1 DEF Alive, takenBy
    <3>3. l.id \in Invocations /\ l.event \in Events
      BY DEF Lines
    <3> QED
      BY <2>1, <3>1, <3>2, <3>3, ChannelAnswers
  <2> QED
    BY <1>a, <2>1, <2>2
<1>2. ASSUME NEW l \in Lines, DaemonLine(l) PROVE CountedInv' /\ Channel!Next
  <2>1. /\ UNCHANGED <<transport, closed, http, arrived, got, read, outcome>>
        /\ body' = [body EXCEPT ![l.id] = Append(body[l.id], l.event)]
    BY <1>2 DEF DaemonLine, readerVars
  <2>2. l.id \in Invocations /\ l.event \in Events
    BY DEF Lines
  <2>3. CountedInv'
    <3>1. ASSUME NEW i \in Invocations
          PROVE  /\ Ranked(Mine(i))'
                 /\ \A k \in DOMAIN got'[i] : Rank(Mine(i), got[i][k])' = k
      <4>1. PICK S : S = Mine(i) /\ S = Mine(i)'
        BY <2>1 DEF Mine
      <4>2. Ranked(S) /\ \A k \in DOMAIN got[i] : Rank(S, got[i][k]) = k
        BY <4>1 DEF Known, CountedInv
      <4> QED
        BY <2>1, <4>1, <4>2 DEF Ranked, Rank
    <3> QED
      BY <3>1 DEF CountedInv
  <2>4. Alive' = Alive /\ \A j \in Invocations : takenBy(j)' = takenBy(j)
    BY <2>1 DEF Alive, takenBy
  <2>5. CASE transport = "http"
    <3>1. /\ AnswersTo(l.id)' = Append(AnswersTo(l.id), l.event)
          /\ \A j \in Invocations : j # l.id => AnswersTo(j)' = AnswersTo(j)
      BY <2>1, <2>2, <2>5 DEF AnswersTo, CallOK, WireTypes
    <3> QED
      BY <2>1, <2>2, <2>3, <2>4, <3>1, ChannelAnswers
  <2>6. CASE transport # "http"
    <3>1. \A j \in Invocations : AnswersTo(j)' = AnswersTo(j)
      BY <2>1, <2>6 DEF AnswersTo, Mine, Nth, Rank
    <3> QED
      BY <2>1, <2>3, <2>4, <3>1, ChannelQuiet DEF SameAnswers
  <2> QED
    BY <2>5, <2>6
<1>3. CASE Fanout
  BY <1>3, <1>a DEF Fanout, RR!LoopDispatch, RR!LoopMatch, RR!LoopWriteTest,
     RR!LoopWritePut, RR!LoopNextLine, RR!consumerVars
<1>4. CASE Disconnect
  BY <1>4, <1>a DEF Disconnect, RR!LoopStreamEnd, RR!LoopClose, RR!ExtClose,
     RR!TakeReaders, RR!consumerVars, RR!loopVars
<1>5. ASSUME NEW c \in Closers, CloseAll(c) PROVE CountedInv' /\ Channel!Next
  BY <1>5, <1>a DEF CloseAll, RR!Closing, RR!CloseRemove, RR!ClosePut, RR!CloseNext,
     RR!loopVars, RR!consumerVars
<1>6. CASE UNCHANGED vars
  BY <1>6, <1>a DEF vars, readerVars
<1> QED
  BY <1>1, <1>2, <1>3, <1>4, <1>5, <1>6

(***************************************************************************)
(* In the beginning nothing has been said, and no line is there.           *)
(***************************************************************************)
LEMMA ChannelInit == Init => UnaskedInv /\ CountedInv /\ Channel!Init
<1> SUFFICES ASSUME Init PROVE UnaskedInv /\ CountedInv /\ Channel!Init
  OBVIOUS
<1>1. /\ arrived = <<>> /\ got = [i \in Invocations |-> <<>>] /\ ~closed
      /\ body = [i \in Invocations |-> <<>>] /\ read = [i \in Invocations |-> 0]
      /\ http = [i \in Invocations |-> "none"] /\ asked = {}
      /\ outcome = [i \in Invocations |-> "open"]
  BY DEF Init, RR!Init
<1>2. UnaskedInv
  BY <1>1 DEF UnaskedInv
<1>3. \A i \in Invocations : Mine(i) = {}
  BY <1>1 DEF Mine
<1>4. Ranked({}) /\ \A k : k \notin 1 .. Cardinality({})
  BY NothingRanked
<1>5. CountedInv
  <2>1. ASSUME NEW i \in Invocations PROVE Ranked(Mine(i)) /\ DOMAIN got[i] = {}
    <3>1. PICK S : S = Mine(i) /\ S = {}
      BY <1>3
    <3>2. Ranked(S)
      BY <1>4, <3>1
    <3>3. got[i] = <<>>
      BY <1>1
    <3> QED
      BY <3>1, <3>2, <3>3
  <2> QED
    BY <2>1 DEF CountedInv
<1>6. ASSUME NEW i \in Invocations PROVE AnswersTo(i) = <<>> /\ takenBy(i) = 0
  <2>1. [k \in 1 .. Cardinality({}) |-> arrived[Nth({}, k)].event] = <<>>
    BY <1>4
  <2>2. AnswersTo(i) = <<>>
    BY <1>1, <1>3, <1>6, <2>1 DEF AnswersTo
  <2>3. takenBy(i) = 0
    BY <1>1, <1>6 DEF takenBy
  <2> QED
    BY <2>2, <2>3
<1>7. Alive = Invocations
  BY <1>1 DEF Alive
<1>8. Channel!Init
  BY <1>1, <1>6, <1>7 DEF Channel!Init, Alive
<1> QED
  BY <1>2, <1>5, <1>8

(***************************************************************************)
(* The calls implement the channel, over either transport: calls that      *)
(* share a connection, an event loop and a list of readers do not notice   *)
(* each other; each takes its own answers in order and once, and ends as   *)
(* InvocationChannel says.                                                 *)
(***************************************************************************)
THEOREM ChannelImplemented == Spec => ImplementsChannel
<1>1. Spec => [](FanoutInv /\ CallOK /\ GotInv /\ PlaceInv /\ AskedInv)
  BY CallsHold
<1>2. Spec => []HeardInv
  BY CallsHold, HeardInit, HeardStep, PTL DEF Spec
<1>3. Spec => []UnaskedInv
  BY <1>1, ChannelInit, UnaskedStep, PTL DEF Spec
<1> DEFINE First == \A i \in Invocations : FirstAnswers(i)
<1>4. FanoutInv /\ AskedInv => First
  BY TakesFirstAnswers
<1>5. Known /\ First' /\ [Next]_vars => CountedInv' /\ Channel!Next
  BY DuplexStep, HttpStep, WorldStep DEF Next, Call
<1> HIDE DEF First
<1>6. FanoutInv /\ CallOK /\ GotInv /\ PlaceInv /\ AskedInv /\ HeardInv /\ UnaskedInv
        /\ CountedInv => Known
  BY DEF Known
<1>7. Spec => []Known
  BY <1>1, <1>2, <1>3, <1>4, <1>5, <1>6, ChannelInit, PTL DEF Spec
<1>8. Spec => [][Channel!Next]_(Channel!vars)
  BY <1>1, <1>4, <1>5, <1>7, PTL DEF Spec
<1> QED
  BY <1>8, ChannelInit, PTL DEF Spec, ImplementsChannel, Channel!Spec
=============================================================================
