------------------------- MODULE PluginRunnerProofs -------------------------
(***************************************************************************)
(* What holds of PluginRunner for any number of invokers, any size of the  *)
(* pipes and any number of answers.                                        *)
(*                                                                         *)
(* That nothing is left behind rests on who may be where in _close(): the  *)
(* first to come sets the flag and is the only one that releases, and the  *)
(* child is started before there is anyone else who could be first         *)
(* (CloseInv). That an invocation is given its own answers rests on what   *)
(* the pipe and its queue hold for it (StdoutInv, QueueInv): as long as    *)
(* nothing but responses is in the queue, the pipe continues where the     *)
(* queue ends; and when something else is, the invocation ends there.      *)
(***************************************************************************)
EXTENDS PluginRunner, TLAPS

Message == [id : Invokers \cup {None},
            type : {"ready", "error", "response", "end", "stopped", "broken"},
            n : Nat]

FlagsOK == readerError \in BOOLEAN /\ stop \in BOOLEAN /\ complete \in BOOLEAN

PcOK == pc \in {"new", "spawn", "start reader", "start drain", "await", "open",
                "exiting", "failing", "left", "raised"}

ResourcesOK ==
  /\ directory \in {"none", "made"}
  /\ pipes \in {"none", "open", "closed"}
  /\ process \in {"none", "running", "terminating", "exited"}

ThreadsOK ==
  /\ outPc \in {"none", "reading", "polling", "closing", "ended"}
  /\ errPc \in {"none", "draining", "ended"}
  /\ closePc \in [Closers -> {"no", "enter", "wait complete", "signal",
                              "join", "close pipes", "remove", "done"}]

CallsOK ==
  /\ registered \subseteq Invokers
  /\ queue \in [Invokers -> Seq(Message)]
  /\ ipc \in [Invokers -> {"idle", "register", "lock", "write", "get",
                           "caller", "done"}]
  /\ written \in [Invokers -> Nat]
  /\ writing \in Invokers \cup {None}
  /\ got \in [Invokers -> Seq(Nat)]
  /\ outcome \in [Invokers -> {"open", "complete", "stopped", "broken",
                               "unsent", "failed", "abandoned"}]

PipesOK ==
  /\ stdin \in Seq(Invokers) /\ stdout \in Seq(Message)
  /\ heard \in [Invokers -> Nat] /\ answers \in [Invokers -> Nat]
  /\ ended \subseteq Invokers /\ noise \in Nat /\ ready \in Nat

TypeOK == FlagsOK /\ PcOK /\ ResourcesOK /\ ThreadsOK /\ CallsOK /\ PipesOK

-----------------------------------------------------------------------------
(* _close().                                                               *)

(***************************************************************************)
(* The flag is up from the moment that one of them is past the entry, and  *)
(* only that one releases. Nobody is in _close() before the child and the  *)
(* reader have been started, or its owner has failed; the owner waits      *)
(* until everything is released, the reader need not.                      *)
(***************************************************************************)
Outside(t) == closePc[t] \in {"no", "enter"}
Gone(t) == closePc[t] \in {"close pipes", "remove"}
Releasing(t) == closePc[t] \in {"signal", "join"} \/ Gone(t)

FlagInv ==
  /\ stop <=> ~Outside("owner") \/ ~Outside("reader")
  /\ ~(Releasing("owner") /\ Releasing("reader"))
  /\ Releasing("owner") \/ Releasing("reader") => ~complete
  /\ complete => stop
  /\ closePc["owner"] = "done" => complete
  /\ pipes = "closed" => stop
  /\ Gone("owner") \/ Gone("reader") => process \in {"none", "exited"}
  /\ closePc["owner"] = "remove" \/ closePc["reader"] = "remove" => pipes = "closed"
  /\ complete =>
       process \in {"none", "exited"} /\ pipes = "closed" /\ directory = "none"

PlaceInv ==
  /\ pc \in {"new", "spawn", "start reader"} => outPc = "none"
  /\ pc \in {"new", "spawn", "start reader", "start drain", "await", "open"}
       => closePc["owner"] = "no"
  /\ outPc \in {"none", "reading", "polling"} => closePc["reader"] = "no"
  /\ pc \in {"left", "raised"} => closePc["owner"] = "done"

CloseInv == FlagInv /\ PlaceInv

-----------------------------------------------------------------------------
(* What invocation i is told.                                              *)

(***************************************************************************)
(* An invocation is in q from its registration to its end. Before that the *)
(* child has heard and said nothing of it.                                 *)
(***************************************************************************)
CallInv(i) ==
  /\ i \in registered <=> ipc[i] \in {"lock", "write", "get", "caller"}
  /\ i \notin registered => queue[i] = <<>>
  /\ ipc[i] # "done" => outcome[i] = "open"
  /\ ipc[i] \in {"idle", "register"} =>
       /\ heard[i] = 0 /\ answers[i] = 0 /\ i \notin ended
       /\ got[i] = <<>>
       /\ \A p \in DOMAIN stdin : stdin[p] # i
       /\ \A p \in DOMAIN stdout : stdout[p].id # i

(***************************************************************************)
(* In the pipe the responses to i are in order, and nothing comes after    *)
(* their end.                                                              *)
(***************************************************************************)
StdoutInv(i) ==
  /\ \A p \in DOMAIN stdout : stdout[p].id = i =>
       /\ stdout[p].type \in {"response", "end", "error"}
       /\ stdout[p].type = "response" => stdout[p].n \in 1 .. answers[i]
       /\ stdout[p].type # "response" => i \in ended
  /\ \A p, q \in DOMAIN stdout :
       p < q /\ stdout[p].id = i /\ stdout[q].id = i =>
         /\ stdout[p].type = "response"
         /\ stdout[q].type = "response" => stdout[p].n < stdout[q].n

(***************************************************************************)
(* All in q are responses, or all before position j.                       *)
(***************************************************************************)
Responses(q) == \A l \in DOMAIN q : q[l].type = "response"
Plain(q, j) == \A l \in DOMAIN q : l < j => q[l].type = "response"

(***************************************************************************)
(* Up to the first message that ends the invocation, its queue continues   *)
(* what it has been given, and the pipe continues the queue.               *)
(***************************************************************************)
QueueContinues(i) ==
  \A j \in DOMAIN queue[i] : Plain(queue[i], j) =>
    /\ queue[i][j].type = "response" =>
         queue[i][j].n = Len(got[i]) + j /\ Len(got[i]) + j <= answers[i]
    /\ queue[i][j].type = "end" =>
         i \in ended /\ Len(got[i]) + j = answers[i] + 1

StopSeen(i) ==
  \A j \in DOMAIN queue[i] : queue[i][j].type \in {"stopped", "broken"} => stop

ResponseAt(i, p) == stdout[p].id = i /\ stdout[p].type = "response"

PipeContinues(i) ==
  Responses(queue[i]) =>
    /\ Len(got[i]) + Len(queue[i]) <= answers[i]
    /\ \A p \in DOMAIN stdout :
         ResponseAt(i, p) => stdout[p].n > Len(got[i]) + Len(queue[i])
    /\ \A n \in Len(got[i]) + Len(queue[i]) + 1 .. answers[i] :
         \E p \in DOMAIN stdout : ResponseAt(i, p) /\ stdout[p].n = n

QueueInv(i) ==
  i \in registered => QueueContinues(i) /\ StopSeen(i) /\ PipeContinues(i)

OwnInv(i) ==
  /\ got[i] = [n \in 1 .. Len(got[i]) |-> n]
  /\ Len(got[i]) <= answers[i]
  /\ outcome[i] = "complete" => i \in ended /\ Len(got[i]) = answers[i]
  /\ outcome[i] \in {"stopped", "broken", "unsent"} => stop

Answers(i) == CallInv(i) /\ StdoutInv(i) /\ QueueInv(i) /\ OwnInv(i)

IInv == TypeOK /\ CloseInv /\ \A i \in Invokers : Answers(i)

-----------------------------------------------------------------------------
(* Lemmas on sequences.                                                    *)

(***************************************************************************)
(* What Append puts where.                                                 *)
(***************************************************************************)
LEMMA AppendAt ==
  ASSUME NEW S, NEW q \in Seq(S), NEW e \in S
  PROVE  /\ Append(q, e) \in Seq(S)
         /\ Len(q) \in Nat /\ Len(Append(q, e)) = Len(q) + 1
         /\ DOMAIN q = 1 .. Len(q)
         /\ DOMAIN Append(q, e) = 1 .. Len(q) + 1
         /\ \A i \in 1 .. Len(q) : Append(q, e)[i] = q[i]
         /\ Append(q, e)[Len(q) + 1] = e
OBVIOUS

(***************************************************************************)
(* What Head and Tail take from where.                                     *)
(***************************************************************************)
LEMMA TailAt ==
  ASSUME NEW S, NEW q \in Seq(S), q # <<>>
  PROVE  /\ Head(q) \in S /\ Head(q) = q[1] /\ 1 \in DOMAIN q
         /\ Tail(q) \in Seq(S)
         /\ Len(q) \in Nat /\ Len(q) >= 1 /\ Len(Tail(q)) = Len(q) - 1
         /\ DOMAIN q = 1 .. Len(q)
         /\ DOMAIN Tail(q) = 1 .. Len(q) - 1
         /\ \A i \in DOMAIN Tail(q) : i + 1 \in DOMAIN q /\ Tail(q)[i] = q[i + 1]
OBVIOUS

(***************************************************************************)
(* What a sequence holds.                                                  *)
(***************************************************************************)
LEMMA ElementsOf ==
  ASSUME NEW S, NEW q \in Seq(S)
  PROVE  /\ Len(q) \in Nat /\ DOMAIN q = 1 .. Len(q)
         /\ \A i \in DOMAIN q : q[i] \in S
OBVIOUS

-----------------------------------------------------------------------------
(* Types.                                                                  *)

(***************************************************************************)
(* The last word of _close() is a message.                                 *)
(***************************************************************************)
LEMMA LastWordType == lastWord \in Message /\ lastWord.type \in {"stopped", "broken"}
BY DEF lastWord, Message

(***************************************************************************)
(* The variables have their types at the start.                            *)
(***************************************************************************)
LEMMA TypeInit == Init => TypeOK
<1> SUFFICES ASSUME Init PROVE TypeOK
  OBVIOUS
<1> USE DEF Init
<1>0. \A S : <<>> \in Seq(S)
  OBVIOUS
<1>1. PcOK
  BY DEF PcOK
<1>2. ResourcesOK
  BY DEF ResourcesOK
<1>3. ThreadsOK
  BY DEF ThreadsOK
<1>4. FlagsOK
  BY DEF FlagsOK
<1>5. CallsOK
  <2>1. queue \in [Invokers -> Seq(Message)] /\ got \in [Invokers -> Seq(Nat)]
    BY <1>0
  <2>2. written \in [Invokers -> Nat]
    OBVIOUS
  <2> QED
    BY <2>1, <2>2 DEF CallsOK
<1>6. PipesOK
  <2>1. /\ stdin \in Seq(Invokers) /\ stdout \in Seq(Message)
        /\ heard \in [Invokers -> Nat] /\ answers \in [Invokers -> Nat]
    BY <1>0
  <2> QED
    BY <2>1 DEF PipesOK
<1> QED
  BY <1>1, <1>2, <1>3, <1>4, <1>5, <1>6 DEF TypeOK

(***************************************************************************)
(* The end of an invocation keeps the types.                               *)
(***************************************************************************)
LEMMA OverType ==
  ASSUME CallsOK, NEW i \in Invokers,
         NEW how \in {"complete", "stopped", "broken", "unsent", "failed", "abandoned"},
         Over(i, how), written' \in [Invokers -> Nat],
         writing' \in Invokers \cup {None}, got' = got
  PROVE  CallsOK'
<1>1. <<>> \in Seq(Message)
  OBVIOUS
<1> QED
  BY <1>1 DEF Over, InvokerGoto, CallsOK

(***************************************************************************)
(* What the child says keeps the types.                                    *)
(***************************************************************************)
LEMMA SayType ==
  ASSUME stdout \in Seq(Message), NEW id \in Invokers \cup {None},
         NEW type \in {"ready", "error", "response", "end"}, NEW n \in Nat,
         Say(id, type, n)
  PROVE  stdout' \in Seq(Message)
<1>1. [id |-> id, type |-> type, n |-> n] \in Message
  BY DEF Message
<1> QED
  BY <1>1, AppendAt DEF Say

(***************************************************************************)
(* The flags and the control, which only owner and reader change.          *)
(***************************************************************************)
Control == FlagsOK /\ PcOK /\ ResourcesOK /\ ThreadsOK

(***************************************************************************)
(* Every thread is at one of its places.                                   *)
(***************************************************************************)
LEMMA ControlStep == Control /\ [Next]_vars => Control'
<1> SUFFICES ASSUME Control, [Next]_vars PROVE Control'
  OBVIOUS
<1> USE DEF resources, readerVars, closeVars, callVars, queueVars, childVars,
            outside, inside, Control
<1>1. ASSUME UNCHANGED <<inside>> PROVE Control'
  <2>1. FlagsOK'
    BY <1>1 DEF FlagsOK
  <2>2. PcOK'
    BY <1>1 DEF PcOK
  <2>3. ResourcesOK'
    BY <1>1 DEF ResourcesOK
  <2>4. ThreadsOK'
    BY <1>1 DEF ThreadsOK
  <2> QED
    BY <2>1, <2>2, <2>3, <2>4
<1>2. ASSUME MakePipes \/ Spawn \/ StartReader \/ StartDrain \/ AwaitReady \/ Exit
             \/ OwnerLeaves
      PROVE  Control'
  <2> USE DEF MakePipes, Spawn, StartReader, StartDrain, AwaitReady, Exit,
              OwnerLeaves, Fail, Close
  <2>1. FlagsOK'
    BY <1>2 DEF FlagsOK
  <2>2. PcOK'
    BY <1>2 DEF PcOK
  <2>3. ResourcesOK'
    BY <1>2 DEF ResourcesOK
  <2>4. ThreadsOK'
    BY <1>2 DEF ThreadsOK, Closers
  <2> QED
    BY <2>1, <2>2, <2>3, <2>4
<1>3. ASSUME NEW t \in Closers, Closing(t) PROVE Control'
  <2> USE DEF Closing, CloseEnter, CloseWaitComplete, CloseSignal, CloseJoin, ClosePipes,
              CloseRemove
  <2>1. FlagsOK'
    BY <1>3 DEF FlagsOK
  <2>2. PcOK'
    BY <1>3 DEF PcOK
  <2>3. ResourcesOK'
    BY <1>3 DEF ResourcesOK
  <2>4. ThreadsOK'
    BY <1>3 DEF ThreadsOK
  <2> QED
    BY <2>1, <2>2, <2>3, <2>4
<1>4. ASSUME ReadMessage \/ ReadNothing \/ ReadPoll \/ ReaderLeaves \/ DrainStopped
             \/ ChildExits
      PROVE  Control'
  <2> USE DEF ReadMessage, Publish, ReadNothing, ReadPoll, ReaderLeaves, DrainStopped,
              ChildExits, Close
  <2>1. FlagsOK'
    BY <1>4 DEF FlagsOK
  <2>2. PcOK'
    BY <1>4 DEF PcOK
  <2>3. ResourcesOK'
    BY <1>4 DEF ResourcesOK
  <2>4. ThreadsOK'
    BY <1>4 DEF ThreadsOK
  <2> QED
    BY <2>1, <2>2, <2>3, <2>4
<1>5. ASSUME NEW i \in Invokers,
             Invoke(i) \/ Invoker(i) \/ CallerStep(i) \/ ChildAnswers(i)
      PROVE  UNCHANGED inside
  BY <1>5 DEF Invoke, Invoker, Register, LockStdin, WritePiece, Get, CallerStep,
     ChildAnswers, Say
<1>6. ASSUME ChildSpeaks \/ ChildReads PROVE UNCHANGED inside
  BY <1>6 DEF ChildSpeaks, ChildReads, Say
<1>7. UNCHANGED vars => UNCHANGED inside
  BY DEF vars
<1> QED
  BY <1>1, <1>2, <1>3, <1>4, <1>5, <1>6, <1>7 DEF Next, Owner, Reader, Closers

(***************************************************************************)
(* The invocations and the pipes.                                          *)
(***************************************************************************)
Traffic == CallsOK /\ PipesOK

(***************************************************************************)
(* What is in the pipes and queues are pieces and messages.                *)
(***************************************************************************)
LEMMA TrafficStep == Traffic /\ [Next]_vars => Traffic'
<1> SUFFICES ASSUME Traffic, [Next]_vars PROVE Traffic'
  OBVIOUS
<1> USE DEF resources, readerVars, closeVars, callVars, queueVars, childVars,
            outside, inside, Traffic
<1>a. ASSUME UNCHANGED <<callVars, queueVars>> PROVE CallsOK'
  BY <1>a DEF CallsOK
<1>b. ASSUME UNCHANGED <<stdin, stdout, childVars, ready>> PROVE PipesOK'
  BY <1>b DEF PipesOK
<1>1. ASSUME MakePipes \/ Spawn \/ StartReader \/ StartDrain \/ Exit \/ OwnerLeaves
             \/ ReadNothing \/ ReadPoll \/ ReaderLeaves \/ DrainStopped \/ ChildExits
      PROVE  Traffic'
  BY <1>1, <1>a, <1>b DEF MakePipes, Spawn, StartReader, StartDrain, Exit,
     OwnerLeaves, ReadNothing, ReadPoll, ReaderLeaves, DrainStopped, ChildExits
<1>2. ASSUME AwaitReady PROVE Traffic'
  <2>1. ready' \in Nat
    BY <1>2 DEF AwaitReady, PipesOK
  <2>2. UNCHANGED <<callVars, queueVars, stdin, stdout, childVars>>
    BY <1>2 DEF AwaitReady
  <2> QED
    BY <1>a, <2>1, <2>2 DEF PipesOK
<1>3. ASSUME NEW t \in Closers, CloseEnter(t) PROVE Traffic'
  <2>1. queue' \in [Invokers -> Seq(Message)]
    <3>1. \A i \in Invokers : Append(queue[i], lastWord) \in Seq(Message)
      BY LastWordType, AppendAt DEF CallsOK
    <3> QED
      BY <1>3, <3>1 DEF CloseEnter, CallsOK
  <2>2. UNCHANGED <<callVars, registered, stdin, stdout, childVars, ready>>
    BY <1>3 DEF CloseEnter
  <2> QED
    BY <1>b, <2>1, <2>2 DEF CallsOK
<1>4. ASSUME NEW t \in Closers,
             CloseWaitComplete(t) \/ CloseSignal(t) \/ CloseJoin(t) \/ ClosePipes(t)
             \/ CloseRemove(t)
      PROVE  Traffic'
  BY <1>4, <1>a, <1>b DEF CloseWaitComplete, CloseSignal, CloseJoin, ClosePipes,
     CloseRemove
<1>6. ASSUME ReadMessage PROVE Traffic'
  <2>1. /\ Head(stdout) \in Message /\ stdout' \in Seq(Message)
        /\ Publish(Head(stdout))
    BY <1>6, TailAt DEF ReadMessage, PipesOK
  <2>2. queue' \in [Invokers -> Seq(Message)]
    <3>1. \A i \in Invokers : Append(queue[i], Head(stdout)) \in Seq(Message)
      BY <2>1, AppendAt DEF CallsOK
    <3> QED
      BY <2>1, <3>1 DEF Publish, CallsOK
  <2>3. ready' \in Nat
    BY <2>1 DEF Publish, PipesOK
  <2>4. UNCHANGED <<callVars, registered, stdin, childVars>>
    BY <1>6 DEF ReadMessage
  <2> QED
    BY <2>1, <2>2, <2>3, <2>4 DEF CallsOK, PipesOK
<1>7. ASSUME NEW i \in Invokers, Invoke(i) \/ Register(i) PROVE Traffic'
  <2>0. UNCHANGED <<stdin, stdout, childVars, ready, written, writing, got>>
    BY <1>7 DEF Invoke, Register
  <2>1. CASE stop
    <3>1. Over(i, "stopped")
      BY <1>7, <2>1 DEF Invoke, Register
    <3> QED
      BY <1>b, <2>0, <3>1, OverType DEF CallsOK
  <2>2. CASE ~stop
    <3>1. CallsOK'
      BY <1>7, <2>2 DEF Invoke, Register, InvokerGoto, CallsOK
    <3> QED
      BY <1>b, <2>0, <3>1
  <2> QED
    BY <2>1, <2>2
<1>8. ASSUME NEW i \in Invokers, LockStdin(i) PROVE Traffic'
  <2>1. CallsOK'
    BY <1>8 DEF LockStdin, InvokerGoto, CallsOK
  <2> QED
    BY <1>8, <1>b, <2>1 DEF LockStdin
<1>9. ASSUME NEW i \in Invokers, WritePiece(i) PROVE Traffic'
  <2>0. UNCHANGED <<stdout, childVars, ready, got>>
    BY <1>9 DEF WritePiece
  <2>1. CASE pipes = "closed"
    <3>1. Over(i, "unsent") /\ written' = written /\ writing' = None /\ stdin' = stdin
      BY <1>9, <2>1 DEF WritePiece
    <3>2. CallsOK'
      BY <2>0, <3>1, OverType DEF CallsOK
    <3> QED
      BY <1>b, <2>0, <3>1, <3>2
  <2>2. CASE pipes = "open"
    <3>0. stdin' = Append(stdin, i) /\ written' = [written EXCEPT ![i] = @ + 1]
      BY <1>9, <2>2 DEF WritePiece
    <3>1. stdin' \in Seq(Invokers)
      BY <3>0, AppendAt DEF PipesOK
    <3>2. written' \in [Invokers -> Nat]
      BY <3>0 DEF CallsOK
    <3>3. /\ writing' \in Invokers \cup {None}
          /\ ipc' \in [Invokers -> {"idle", "register", "lock", "write", "get",
                                    "caller", "done"}]
          /\ UNCHANGED <<outcome, queueVars>>
      BY <1>9, <2>2 DEF WritePiece, InvokerGoto, CallsOK
    <3>4. CallsOK'
      BY <2>0, <3>2, <3>3 DEF CallsOK
    <3>5. PipesOK'
      BY <2>0, <3>1 DEF PipesOK
    <3> QED
      BY <3>4, <3>5
  <2> QED
    BY <1>9, <2>1, <2>2 DEF WritePiece
<1>10. ASSUME NEW i \in Invokers, Get(i) PROVE Traffic'
  <2> DEFINE m == Head(queue[i])
  <2>0. UNCHANGED <<written, writing, stdin, stdout, childVars, ready>>
    BY <1>10 DEF Get
  <2>1. m \in Message /\ Tail(queue[i]) \in Seq(Message)
    BY <1>10, TailAt DEF Get, CallsOK
  <2>2. CASE outcomeOf(m) = "open"
    <3>1. m.n \in Nat
      BY <2>1 DEF Message
    <3>2. Append(got[i], m.n) \in Seq(Nat)
      BY <3>1, AppendAt DEF CallsOK
    <3>3. got' \in [Invokers -> Seq(Nat)] /\ queue' \in [Invokers -> Seq(Message)]
      BY <1>10, <2>1, <2>2, <3>2 DEF Get, CallsOK
    <3>4. UNCHANGED <<registered, outcome>> /\ InvokerGoto(i, "caller")
      BY <1>10, <2>2 DEF Get
    <3>5. CallsOK'
      BY <2>0, <3>3, <3>4 DEF InvokerGoto, CallsOK
    <3> QED
      BY <1>b, <2>0, <3>5
  <2>3. CASE outcomeOf(m) # "open"
    <3>1. outcomeOf(m) \in {"complete", "stopped", "broken", "failed"}
      BY <2>1, <2>3 DEF outcomeOf, Message
    <3>2. Over(i, outcomeOf(m)) /\ got' = got
      BY <1>10, <2>3 DEF Get
    <3>3. CallsOK'
      BY <2>0, <3>1, <3>2, OverType DEF CallsOK
    <3> QED
      BY <1>b, <2>0, <3>3
  <2> QED
    BY <2>2, <2>3
<1>11. ASSUME NEW i \in Invokers, CallerStep(i) PROVE Traffic'
  <2>0. UNCHANGED <<stdin, stdout, childVars, ready, written, writing, got>>
    BY <1>11 DEF CallerStep
  <2>1. CASE Over(i, "abandoned")
    <3>1. CallsOK'
      BY <2>0, <2>1, OverType DEF CallsOK
    <3> QED
      BY <1>b, <2>0, <3>1
  <2>2. CASE InvokerGoto(i, "get") /\ UNCHANGED <<outcome, queueVars>>
    <3>1. CallsOK'
      BY <2>0, <2>2 DEF InvokerGoto, CallsOK
    <3> QED
      BY <1>b, <2>0, <3>1
  <2> QED
    BY <1>11, <2>1, <2>2 DEF CallerStep
<1>12. ASSUME ChildSpeaks PROVE Traffic'
  <2>1. stdout' \in Seq(Message)
    BY <1>12, SayType DEF ChildSpeaks, PipesOK
  <2>2. noise' \in Nat
    BY <1>12 DEF ChildSpeaks, PipesOK
  <2>3. UNCHANGED <<callVars, queueVars, stdin, heard, answers, ended, ready>>
    BY <1>12 DEF ChildSpeaks, Say
  <2> QED
    BY <1>a, <2>1, <2>2, <2>3 DEF PipesOK
<1>13. ASSUME ChildReads PROVE Traffic'
  <2>1. Head(stdin) \in Invokers /\ stdin' \in Seq(Invokers)
    BY <1>13, TailAt DEF ChildReads, PipesOK
  <2>2. heard' \in [Invokers -> Nat]
    BY <1>13, <2>1 DEF ChildReads, PipesOK
  <2>3. UNCHANGED <<callVars, queueVars, stdout, answers, ended, noise, ready>>
    BY <1>13 DEF ChildReads
  <2> QED
    BY <1>a, <2>1, <2>2, <2>3 DEF PipesOK
<1>14. ASSUME NEW i \in Invokers, ChildAnswers(i) PROVE Traffic'
  <2>0. answers[i] + 1 \in Nat /\ 0 \in Nat /\ i \in Invokers \cup {None}
    BY DEF PipesOK
  <2>1. stdout' \in Seq(Message)
    BY <1>14, <2>0, SayType DEF ChildAnswers, PipesOK
  <2>2. answers' \in [Invokers -> Nat] /\ ended' \subseteq Invokers
    BY <1>14, <2>0 DEF ChildAnswers, PipesOK
  <2>3. UNCHANGED <<callVars, queueVars, stdin, heard, noise, ready>>
    BY <1>14 DEF ChildAnswers, Say
  <2> QED
    BY <1>a, <2>1, <2>2, <2>3 DEF PipesOK
<1>15. UNCHANGED vars => Traffic'
  BY <1>a, <1>b DEF vars
<1> QED
  BY <1>1, <1>2, <1>3, <1>4, <1>6, <1>7, <1>8, <1>9, <1>10, <1>11,
     <1>12, <1>13, <1>14, <1>15 DEF Next, Owner, Reader, Closing, Invoker,
     Closers

(***************************************************************************)
(* The variables keep their types.                                         *)
(***************************************************************************)
LEMMA TypeStep == TypeOK /\ [Next]_vars => TypeOK'
BY ControlStep, TrafficStep DEF TypeOK, Control, Traffic

-----------------------------------------------------------------------------
(***************************************************************************)
(* Nobody is in _close() to begin with.                                    *)
(***************************************************************************)
LEMMA CloseInit == Init => CloseInv
BY DEF Init, CloseInv, FlagInv, PlaceInv, Closers, Outside, Releasing, Gone

(***************************************************************************)
(* One step of the owner, the reader, the child or somebody in _close().   *)
(***************************************************************************)
LEMMA CloseStep == TypeOK /\ CloseInv /\ [Next]_vars => CloseInv'
<1> SUFFICES ASSUME TypeOK, FlagInv, PlaceInv, [Next]_vars
             PROVE  FlagInv' /\ PlaceInv'
  BY DEF CloseInv
<1> USE DEF resources, readerVars, closeVars, callVars, queueVars, childVars,
            outside, inside, Outside, Releasing, Gone
<1>0. /\ "owner" \in Closers /\ "reader" \in Closers /\ "owner" # "reader"
      /\ closePc \in [Closers -> {"no", "enter", "wait complete", "signal",
                                  "join", "close pipes", "remove", "done"}]
      /\ \A t \in Closers : t = "owner" \/ t = "reader"
  BY DEF TypeOK, ThreadsOK, Closers
(***************************************************************************)
(* The owner enters _close(), in the constructor or when he leaves the     *)
(* block, or goes on.                                                      *)
(***************************************************************************)
<1>a. ASSUME closePc["owner"] = "no", UNCHANGED <<stop, complete>>,
             closePc' = closePc \/ Close("owner"),
             \/ UNCHANGED resources
             \/ closePc["reader"] = "no" /\ pipes' # "closed"
      PROVE  FlagInv'
  <2>1. /\ closePc'["reader"] = closePc["reader"]
        /\ closePc'["owner"] \in {"no", "enter"}
    BY <1>0, <1>a DEF Close
  <2> QED
    BY <1>a, <2>1 DEF FlagInv
<1>b. ASSUME pc \in {"new", "spawn", "start reader", "start drain", "await", "open"},
             Close("owner"), pc' \in {"failing", "exiting"}, UNCHANGED outPc
      PROVE  PlaceInv'
  <2>1. closePc'["reader"] = closePc["reader"]
    BY <1>0, <1>b DEF Close
  <2> QED
    BY <1>b, <2>1 DEF PlaceInv
<1>1. ASSUME MakePipes \/ Spawn PROVE FlagInv' /\ PlaceInv'
  <2>1. /\ pc \in {"new", "spawn"} /\ UNCHANGED <<stop, complete, outPc>>
        /\ \/ pc' \in {"spawn", "start reader"} /\ UNCHANGED closePc
           \/ Fail
        /\ pipes' = "open" \/ pipes' = pipes
    BY <1>1 DEF MakePipes, Spawn
  <2>2. /\ outPc = "none" /\ closePc["owner"] = "no" /\ closePc["reader"] = "no"
    BY <2>1 DEF PlaceInv
  <2>3. pipes' # "closed"
    BY <2>1, <2>2 DEF FlagInv
  <2>4. FlagInv'
    BY <1>a, <2>1, <2>2, <2>3 DEF Fail
  <2>5. PlaceInv'
    <3>1. CASE Fail
      BY <1>b, <2>1, <3>1 DEF Fail
    <3>2. CASE pc' \in {"spawn", "start reader"} /\ UNCHANGED closePc
      BY <2>1, <2>2, <3>2 DEF PlaceInv
    <3> QED
      BY <2>1, <3>1, <3>2
  <2> QED
    BY <2>4, <2>5
<1>2. ASSUME StartReader \/ StartDrain \/ AwaitReady \/ Exit PROVE FlagInv' /\ PlaceInv'
  <2>1. /\ pc \in {"start reader", "start drain", "await", "open"}
        /\ UNCHANGED <<stop, complete, resources>>
    BY <1>2 DEF StartReader, StartDrain, AwaitReady, Exit
  <2>2. \/ /\ pc' \in {"start drain", "await", "open"} /\ UNCHANGED closePc
           /\ outPc' = outPc \/ (outPc' = "reading" /\ pc = "start reader")
        \/ /\ Close("owner") /\ pc' \in {"failing", "exiting"} /\ UNCHANGED outPc
    BY <1>2 DEF StartReader, StartDrain, AwaitReady, Exit, Fail
  <2>3. closePc["owner"] = "no"
    BY <2>1 DEF PlaceInv
  <2>4. FlagInv'
    BY <1>a, <2>1, <2>2, <2>3
  <2>5. PlaceInv'
    <3>1. CASE Close("owner") /\ pc' \in {"failing", "exiting"} /\ UNCHANGED outPc
      BY <1>b, <2>1, <3>1
    <3>2. CASE /\ pc' \in {"start drain", "await", "open"} /\ UNCHANGED closePc
               /\ outPc' = outPc \/ (outPc' = "reading" /\ pc = "start reader")
      BY <2>1, <2>3, <3>2 DEF PlaceInv
    <3> QED
      BY <2>2, <3>1, <3>2
  <2> QED
    BY <2>4, <2>5
(***************************************************************************)
(* In _close(): nobody is there who was not before.                        *)
(***************************************************************************)
<1>c. ASSUME NEW t \in Closers, closePc[t] \notin {"no", "done"}, NEW step, step # "no",
             closePc' = [closePc EXCEPT ![t] = step], UNCHANGED <<pc, outPc>>
      PROVE  PlaceInv'
  <2>1. \A u \in Closers : closePc[u] \in {"no", "done"} => closePc'[u] = closePc[u]
    BY <1>0, <1>c
  <2> QED
    BY <1>0, <1>c, <2>1 DEF PlaceInv
<1>3. ASSUME NEW t \in Closers, CloseEnter(t) PROVE FlagInv' /\ PlaceInv'
  <2>1. /\ closePc[t] = "enter" /\ stop'
        /\ UNCHANGED <<pc, resources, outPc, complete>>
    BY <1>3 DEF CloseEnter
  <2>2. CASE ~stop
    <3>1. closePc' = [closePc EXCEPT ![t] = "signal"]
      BY <1>3, <2>2 DEF CloseEnter
    <3>2. FlagInv'
      BY <1>0, <2>1, <2>2, <3>1 DEF FlagInv
    <3> QED
      BY <1>c, <2>1, <3>1, <3>2
  <2>3. CASE stop /\ t = "reader"
    <3>1. closePc' = [closePc EXCEPT ![t] = "done"]
      BY <1>3, <2>3 DEF CloseEnter
    <3>2. FlagInv'
      BY <1>0, <2>1, <2>3, <3>1 DEF FlagInv
    <3> QED
      BY <1>c, <2>1, <3>1, <3>2
  <2>4. CASE stop /\ t = "owner"
    <3>1. closePc' = [closePc EXCEPT ![t] = "wait complete"]
      BY <1>0, <1>3, <2>4 DEF CloseEnter
    <3>2. FlagInv'
      BY <1>0, <2>1, <2>4, <3>1 DEF FlagInv
    <3> QED
      BY <1>c, <2>1, <3>1, <3>2
  <2> QED
    BY <1>0, <2>2, <2>3, <2>4
<1>4. ASSUME NEW t \in Closers, CloseWaitComplete(t) \/ CloseSignal(t)
      PROVE  FlagInv' /\ PlaceInv'
  <2>1. UNCHANGED <<pc, outPc, stop, complete, pipes, directory>>
    BY <1>4 DEF CloseWaitComplete, CloseSignal
  <2>2. CASE CloseWaitComplete(t)
    <3>1. /\ closePc[t] = "wait complete" /\ complete /\ UNCHANGED process
          /\ closePc' = [closePc EXCEPT ![t] = "done"]
      BY <2>2 DEF CloseWaitComplete
    <3>2. FlagInv'
      BY <1>0, <2>1, <3>1 DEF FlagInv
    <3> QED
      BY <1>c, <2>1, <3>1, <3>2
  <2>3. CASE CloseSignal(t)
    <3>1. /\ closePc[t] = "signal"
          /\ process' = IF process = "running" THEN "terminating" ELSE process
          /\ closePc' = [closePc EXCEPT ![t] = "join"]
      BY <2>3 DEF CloseSignal
    <3>2. FlagInv'
      BY <1>0, <2>1, <3>1 DEF FlagInv
    <3> QED
      BY <1>c, <2>1, <3>1, <3>2
  <2> QED
    BY <1>4, <2>2, <2>3
<1>5. ASSUME NEW t \in Closers, CloseJoin(t) \/ ClosePipes(t) \/ CloseRemove(t)
      PROVE  FlagInv' /\ PlaceInv'
  <2>1. UNCHANGED <<pc, process, outPc, stop>>
    BY <1>5 DEF CloseJoin, ClosePipes, CloseRemove
  <2>2. CASE CloseJoin(t)
    <3>1. /\ closePc[t] = "join" /\ process \in {"none", "exited"}
          /\ UNCHANGED <<pipes, directory, complete>>
          /\ closePc' = [closePc EXCEPT ![t] = "close pipes"]
      BY <2>2 DEF CloseJoin
    <3>2. FlagInv'
      BY <1>0, <2>1, <3>1 DEF FlagInv
    <3> QED
      BY <1>c, <2>1, <3>1, <3>2
  <2>3. CASE ClosePipes(t)
    <3>1. /\ closePc[t] = "close pipes" /\ pipes' = "closed"
          /\ UNCHANGED <<directory, complete>>
          /\ closePc' = [closePc EXCEPT ![t] = "remove"]
      BY <2>3 DEF ClosePipes
    <3>2. FlagInv'
      BY <1>0, <2>1, <3>1 DEF FlagInv
    <3> QED
      BY <1>c, <2>1, <3>1, <3>2
  <2>4. CASE CloseRemove(t)
    <3>1. /\ closePc[t] = "remove" /\ directory' = "none" /\ complete'
          /\ UNCHANGED pipes
          /\ closePc' = [closePc EXCEPT ![t] = "done"]
      BY <2>4 DEF CloseRemove
    <3>2. FlagInv'
      BY <1>0, <2>1, <3>1 DEF FlagInv
    <3> QED
      BY <1>c, <2>1, <3>1, <3>2
  <2> QED
    BY <1>5, <2>2, <2>3, <2>4
(***************************************************************************)
(* The reader ends, and the others.                                        *)
(***************************************************************************)
<1>6. ASSUME outPc \in {"reading", "polling"}, outPc' = "closing", Close("reader"),
             UNCHANGED <<pc, resources, stop, complete>>
      PROVE  FlagInv' /\ PlaceInv'
  <2>1. /\ closePc["reader"] = "no" /\ closePc'["reader"] = "enter"
        /\ closePc'["owner"] = closePc["owner"]
    BY <1>0, <1>6 DEF Close, PlaceInv
  <2>2. FlagInv'
    BY <1>6, <2>1 DEF FlagInv
  <2>3. PlaceInv'
    BY <1>6, <2>1 DEF PlaceInv
  <2> QED
    BY <2>2, <2>3
<1>7. ASSUME UNCHANGED <<pc, resources, outPc, stop, closePc, complete>>
      PROVE  FlagInv' /\ PlaceInv'
  <2>1. FlagInv'
    BY <1>7 DEF FlagInv
  <2>2. PlaceInv'
    BY <1>7 DEF PlaceInv
  <2> QED
    BY <2>1, <2>2
<1>8. ASSUME ReadMessage PROVE FlagInv' /\ PlaceInv'
  <2>1. outPc = "reading" /\ Publish(Head(stdout))
        /\ UNCHANGED <<pc, resources, stop, complete>>
    BY <1>8 DEF ReadMessage
  <2>2. \/ outPc' = "closing" /\ Close("reader")
        \/ UNCHANGED <<outPc, closePc>>
    BY <2>1 DEF Publish
  <2> QED
    BY <1>6, <1>7, <2>1, <2>2
<1>9. ASSUME ReadNothing \/ ReadPoll PROVE FlagInv' /\ PlaceInv'
  <2>1. \/ /\ outPc \in {"reading", "polling"} /\ outPc' = "closing" /\ Close("reader")
           /\ UNCHANGED <<pc, resources, stop, complete>>
        \/ /\ outPc \in {"reading", "polling"} /\ outPc' \in {"reading", "polling"}
           /\ UNCHANGED <<pc, resources, stop, complete, closePc>>
    BY <1>9 DEF ReadNothing, ReadPoll
  <2>2. CASE UNCHANGED <<pc, resources, stop, complete, closePc>>
             /\ outPc \in {"reading", "polling"} /\ outPc' \in {"reading", "polling"}
    <3>1. FlagInv'
      BY <2>2 DEF FlagInv
    <3>2. PlaceInv'
      BY <2>2 DEF PlaceInv
    <3> QED
      BY <3>1, <3>2
  <2> QED
    BY <1>6, <2>1, <2>2
<1>10. ASSUME OwnerLeaves \/ ReaderLeaves PROVE FlagInv' /\ PlaceInv'
  <2>1. UNCHANGED <<resources, closeVars>>
    BY <1>10 DEF OwnerLeaves, ReaderLeaves
  <2>2. FlagInv'
    BY <2>1 DEF FlagInv
  <2>3. CASE OwnerLeaves
    <3>1. /\ closePc["owner"] = "done" /\ pc' \in {"left", "raised"} /\ outPc' = outPc
      BY <2>3 DEF OwnerLeaves
    <3> QED
      BY <2>1, <2>2, <3>1 DEF PlaceInv
  <2>4. CASE ReaderLeaves
    <3>1. outPc = "closing" /\ outPc' = "ended" /\ pc' = pc
      BY <2>4 DEF ReaderLeaves
    <3> QED
      BY <2>1, <2>2, <3>1 DEF PlaceInv
  <2> QED
    BY <1>10, <2>3, <2>4
<1>11. ASSUME ChildExits PROVE FlagInv' /\ PlaceInv'
  <2>1. process' = "exited" /\ UNCHANGED <<pc, directory, pipes, outPc, closeVars>>
    BY <1>11 DEF ChildExits
  <2>2. FlagInv'
    BY <2>1 DEF FlagInv
  <2>3. PlaceInv'
    BY <2>1 DEF PlaceInv
  <2> QED
    BY <2>2, <2>3
<1>12. ASSUME NEW i \in Invokers,
              Invoke(i) \/ Invoker(i) \/ CallerStep(i) \/ ChildAnswers(i)
       PROVE  UNCHANGED inside
  BY <1>12 DEF Invoke, Invoker, Register, LockStdin, WritePiece, Get, CallerStep,
     ChildAnswers, Say
<1>13. ASSUME ChildSpeaks \/ ChildReads \/ UNCHANGED vars PROVE UNCHANGED inside
  BY <1>13 DEF ChildSpeaks, ChildReads, Say, vars
<1>14. DrainStopped => UNCHANGED <<pc, resources, outPc, stop, closePc, complete>>
  BY DEF DrainStopped
<1> QED
  BY <1>0, <1>1, <1>2, <1>3, <1>4, <1>5, <1>7, <1>8, <1>9, <1>10, <1>11,
     <1>12, <1>13, <1>14 DEF Next, Owner, Reader, Closing

-----------------------------------------------------------------------------
(* The answers.                                                            *)

(***************************************************************************)
(* Nobody has called, and nothing has been said.                           *)
(***************************************************************************)
LEMMA AnswersInit == Init => \A i \in Invokers : Answers(i)
<1> SUFFICES ASSUME Init, NEW i \in Invokers PROVE Answers(i)
  OBVIOUS
<1> USE DEF Init
<1>1. /\ DOMAIN stdin = {} /\ DOMAIN stdout = {}
      /\ got[i] = <<>> /\ queue[i] = <<>> /\ ipc[i] = "idle"
      /\ i \notin registered /\ i \notin ended /\ outcome[i] = "open"
      /\ heard[i] = 0 /\ answers[i] = 0 /\ Len(got[i]) = 0
  OBVIOUS
<1>2. CallInv(i)
  BY <1>1 DEF CallInv
<1>3. StdoutInv(i)
  BY <1>1 DEF StdoutInv
<1>4. QueueInv(i)
  BY <1>1 DEF QueueInv
<1>5. OwnInv(i)
  <2>1. <<>> = [n \in 1 .. 0 |-> n]
    OBVIOUS
  <2> QED
    BY <1>1, <2>1 DEF OwnInv
<1> QED
  BY <1>2, <1>3, <1>4, <1>5 DEF Answers

(***************************************************************************)
(* What has nothing to do with invocation i, or only moves its invoker     *)
(* along while it is in q.                                                 *)
(***************************************************************************)
LEMMA AnswersFrame ==
  ASSUME NEW i \in Invokers, Answers(i),
         i \in registered' <=> i \in registered,
         i \in ended' <=> i \in ended,
         queue'[i] = queue[i], got'[i] = got[i], outcome'[i] = outcome[i],
         answers'[i] = answers[i], UNCHANGED stdout, stop => stop',
         \/ ipc'[i] = ipc[i]
         \/ {ipc[i], ipc'[i]} \subseteq {"lock", "write", "get", "caller"}
         \/ ipc[i] = "idle" /\ ipc'[i] = "register",
         ipc[i] \in {"idle", "register"} =>
           /\ heard'[i] = heard[i]
           /\ (\A p \in DOMAIN stdin : stdin[p] # i) =>
                (\A p \in DOMAIN stdin' : stdin'[p] # i)
  PROVE  Answers(i)'
<1>1. CallInv(i)'
  BY DEF Answers, CallInv
<1>2. StdoutInv(i)'
  BY DEF Answers, StdoutInv
<1>3. QueueInv(i)'
  <2> SUFFICES ASSUME i \in registered
               PROVE  QueueContinues(i)' /\ StopSeen(i)' /\ PipeContinues(i)'
    BY DEF QueueInv
  <2>1. QueueContinues(i) /\ StopSeen(i) /\ PipeContinues(i)
    BY DEF Answers, QueueInv
  <2>2. QueueContinues(i)'
    BY <2>1 DEF QueueContinues
  <2>3. StopSeen(i)'
    BY <2>1 DEF StopSeen
  <2>4. PipeContinues(i)'
    BY <2>1 DEF PipeContinues, ResponseAt
  <2> QED
    BY <2>2, <2>3, <2>4
<1>4. OwnInv(i)'
  BY DEF Answers, OwnInv
<1> QED
  BY <1>1, <1>2, <1>3, <1>4 DEF Answers

(***************************************************************************)
(* An invocation that ends for a reason that is true has been answered     *)
(* rightly.                                                                *)
(***************************************************************************)
LEMMA AnswersOver ==
  ASSUME NEW i \in Invokers, Answers(i), TypeOK,
         NEW how \in {"complete", "stopped", "broken", "unsent", "failed", "abandoned"},
         Over(i, how), UNCHANGED <<stdout, got, answers, ended>>,
         stop => stop',
         how = "complete" => i \in ended /\ Len(got[i]) = answers[i],
         how \in {"stopped", "broken", "unsent"} => stop
  PROVE  Answers(i)'
<1>1. /\ i \notin registered' /\ queue'[i] = <<>> /\ ipc'[i] = "done"
      /\ outcome'[i] = how
  BY DEF Over, InvokerGoto, TypeOK, CallsOK
<1>2. CallInv(i)'
  BY <1>1 DEF CallInv
<1>3. StdoutInv(i)'
  BY DEF Answers, StdoutInv
<1>4. QueueInv(i)'
  BY <1>1 DEF QueueInv
<1>5. OwnInv(i)'
  BY <1>1 DEF Answers, OwnInv
<1> QED
  BY <1>2, <1>3, <1>4, <1>5 DEF Answers

(***************************************************************************)
(* The end of one invocation is nothing to the others.                     *)
(***************************************************************************)
LEMMA OthersOver ==
  ASSUME NEW i \in Invokers, NEW j \in Invokers, i # j, Answers(j), TypeOK,
         NEW how, Over(i, how), UNCHANGED <<stdin, stdout, got, answers, ended, heard>>,
         stop => stop'
  PROVE  Answers(j)'
<1>1. /\ j \in registered' <=> j \in registered
      /\ queue'[j] = queue[j] /\ ipc'[j] = ipc[j] /\ outcome'[j] = outcome[j]
  BY DEF Over, InvokerGoto, TypeOK, CallsOK
<1> QED
  BY <1>1, AnswersFrame

(***************************************************************************)
(* Putting m in the queue of an invocation that is in q: either it goes on *)
(* where the pipe stands, or it ends the invocation, or something before   *)
(* it does.                                                                *)
(***************************************************************************)
LEMMA QueuePut ==
  ASSUME NEW S, NEW q \in Seq(S), NEW m \in S
  PROVE  /\ Responses(Append(q, m)) => Responses(q) /\ m.type = "response"
         /\ \A j \in DOMAIN Append(q, m) : Plain(Append(q, m), j) =>
              \/ j \in DOMAIN q /\ Plain(q, j) /\ Append(q, m)[j] = q[j]
              \/ j = Len(q) + 1 /\ Responses(q) /\ Append(q, m)[j] = m
         /\ \A j \in DOMAIN Append(q, m) :
              Append(q, m)[j] = m \/ (j \in DOMAIN q /\ Append(q, m)[j] = q[j])
<1> DEFINE t == Append(q, m)
<1>1. /\ Len(q) \in Nat /\ DOMAIN q = 1 .. Len(q) /\ DOMAIN t = 1 .. Len(q) + 1
      /\ \A i \in 1 .. Len(q) : t[i] = q[i]
      /\ t[Len(q) + 1] = m
  BY AppendAt
<1> HIDE DEF t
<1>2. /\ \A i \in DOMAIN q : i \in DOMAIN t /\ t[i] = q[i] /\ i < Len(q) + 1
      /\ Len(q) + 1 \in DOMAIN t
      /\ \A i \in DOMAIN t : i \in DOMAIN q \/ i = Len(q) + 1
  BY <1>1
<1>3. Responses(t) => Responses(q) /\ m.type = "response"
  BY <1>1, <1>2 DEF Responses
<1>4. ASSUME NEW j \in DOMAIN t, Plain(t, j)
      PROVE  \/ j \in DOMAIN q /\ Plain(q, j) /\ t[j] = q[j]
             \/ j = Len(q) + 1 /\ Responses(q) /\ t[j] = m
  <2>1. CASE j \in DOMAIN q
    BY <1>2, <1>4, <2>1 DEF Plain
  <2>2. CASE j = Len(q) + 1
    BY <1>1, <1>2, <1>4, <2>2 DEF Plain, Responses
  <2> QED
    BY <1>2, <2>1, <2>2
<1>5. \A j \in DOMAIN t : t[j] = m \/ (j \in DOMAIN q /\ t[j] = q[j])
  BY <1>1, <1>2
<1> QED
  BY <1>3, <1>4, <1>5 DEF t

(***************************************************************************)
(* The last word of _close() ends every invocation in q, and the flag is   *)
(* up before anybody can read it.                                          *)
(***************************************************************************)
LEMMA AnswersEnter ==
  ASSUME TypeOK, NEW i \in Invokers, Answers(i), NEW t \in Closers, CloseEnter(t)
  PROVE  Answers(i)'
<1>1. /\ stop' /\ UNCHANGED <<ipc, got, outcome, registered, stdin, stdout, heard,
                              answers, ended>>
      /\ queue'[i] = IF ~stop /\ i \in registered
                     THEN Append(queue[i], lastWord) ELSE queue[i]
  BY DEF CloseEnter, outside, callVars, childVars
<1>2. CASE queue'[i] = queue[i]
  BY <1>1, <1>2, AnswersFrame
<1>3. CASE i \in registered /\ queue'[i] = Append(queue[i], lastWord)
  <2> DEFINE q == queue[i]
  <2>1. q \in Seq(Message) /\ lastWord \in Message
        /\ lastWord.type \in {"stopped", "broken"}
    BY LastWordType DEF TypeOK, CallsOK
  <2>2. /\ Responses(queue'[i]) => lastWord.type = "response"
        /\ \A j \in DOMAIN queue'[i] : Plain(queue'[i], j) =>
             \/ j \in DOMAIN q /\ Plain(q, j) /\ queue'[i][j] = q[j]
             \/ queue'[i][j] = lastWord
    BY <1>3, <2>1, QueuePut
  <2>3. ~Responses(queue'[i])
    BY <2>1, <2>2
  <2>4. CallInv(i)'
    BY <1>1, <1>3 DEF Answers, CallInv
  <2>5. StdoutInv(i)'
    BY <1>1 DEF Answers, StdoutInv
  <2>6. QueueContinues(i)'
    <3>1. QueueContinues(i)
      BY <1>3 DEF Answers, QueueInv
    <3> QED
      BY <1>1, <2>1, <2>2, <3>1 DEF QueueContinues
  <2>7. QueueInv(i)'
    BY <1>1, <2>3, <2>6 DEF QueueInv, StopSeen, PipeContinues
  <2>8. OwnInv(i)'
    BY <1>1 DEF Answers, OwnInv
  <2> QED
    BY <2>4, <2>5, <2>7, <2>8 DEF Answers
<1> QED
  BY <1>1, <1>2, <1>3

(***************************************************************************)
(* The message for i at the head of the pipe, when all in its queue are    *)
(* responses: the next one, or the end after the last one.                 *)
(***************************************************************************)
LEMMA HeadAnswer ==
  ASSUME TypeOK, NEW i \in Invokers, StdoutInv(i), PipeContinues(i),
         Responses(queue[i]), stdout # <<>>, Head(stdout).id = i
  PROVE  LET k == Len(got[i]) + Len(queue[i]) IN
           /\ Head(stdout).type = "response" =>
                Head(stdout).n = k + 1 /\ k + 1 <= answers[i]
           /\ Head(stdout).type = "end" => i \in ended /\ k = answers[i]
<1> DEFINE g == got[i]
           q == queue[i]
           k == Len(g) + Len(q)
<1>1. /\ stdout \in Seq(Message) /\ got[i] \in Seq(Nat) /\ queue[i] \in Seq(Message)
      /\ answers[i] \in Nat
  BY DEF TypeOK, CallsOK, PipesOK
<1>2. k \in Nat
  <2>1. g \in Seq(Nat) /\ q \in Seq(Message)
    BY <1>1
  <2> HIDE DEF g, q
  <2> QED
    BY <2>1
<1>3. /\ Head(stdout) = stdout[1] /\ 1 \in DOMAIN stdout
      /\ DOMAIN stdout = 1 .. Len(stdout) /\ Len(stdout) \in Nat
      /\ \A p \in DOMAIN stdout : stdout[p].n \in Nat
  <2>1. \A p \in DOMAIN stdout : stdout[p] \in Message
    BY <1>1, ElementsOf
  <2>2. \A p \in DOMAIN stdout : stdout[p].n \in Nat
    BY <2>1 DEF Message
  <2>3. /\ Head(stdout) = stdout[1] /\ 1 \in DOMAIN stdout
        /\ DOMAIN stdout = 1 .. Len(stdout) /\ Len(stdout) \in Nat
    BY <1>1, TailAt
  <2> QED
    BY <2>2, <2>3
<1>4. /\ k <= answers[i]
      /\ \A p \in DOMAIN stdout : ResponseAt(i, p) => stdout[p].n > k
      /\ \A n \in k + 1 .. answers[i] :
            \E p \in DOMAIN stdout : ResponseAt(i, p) /\ stdout[p].n = n
  BY DEF PipeContinues
<1> HIDE DEF k
<1>5. \A p \in DOMAIN stdout : ResponseAt(i, p) /\ p # 1 =>
        stdout[1].type = "response" /\ stdout[1].n < stdout[p].n
  BY <1>3 DEF StdoutInv, ResponseAt
<1>6. ASSUME stdout[1].type = "response" PROVE stdout[1].n = k + 1 /\ k + 1 <= answers[i]
  <2>1. stdout[1].n > k /\ stdout[1].n <= answers[i]
    BY <1>3, <1>4, <1>6, <1>1 DEF StdoutInv, ResponseAt
  <2>2. k + 1 \in k + 1 .. answers[i]
    BY <1>1, <1>2, <1>3, <2>1
  <2>3. PICK p \in DOMAIN stdout : ResponseAt(i, p) /\ stdout[p].n = k + 1
    BY <1>4, <2>2
  <2>4. CASE p = 1
    BY <1>1, <1>2, <1>3, <2>1, <2>3, <2>4
  <2>5. CASE p # 1
    BY <1>2, <1>3, <1>5, <2>1, <2>3, <2>5
  <2> QED
    BY <2>4, <2>5
<1>7. ASSUME stdout[1].type = "end" PROVE i \in ended /\ k = answers[i]
  <2>1. i \in ended
    BY <1>3, <1>7 DEF StdoutInv
  <2>2. ASSUME k < answers[i] PROVE FALSE
    <3>1. k + 1 \in k + 1 .. answers[i]
      BY <1>1, <1>2, <2>2
    <3>2. PICK p \in DOMAIN stdout : ResponseAt(i, p)
      BY <1>4, <3>1
    <3> QED
      BY <1>5, <1>7, <3>2 DEF ResponseAt
  <2> QED
    BY <1>1, <1>2, <1>4, <2>1, <2>2
<1> QED
  BY <1>3, <1>6, <1>7 DEF k

(***************************************************************************)
(* The reader hands the message to the queue it is for.                    *)
(***************************************************************************)
LEMMA AnswersRead ==
  ASSUME TypeOK, NEW i \in Invokers, Answers(i), ReadMessage
  PROVE  Answers(i)'
<1> DEFINE m == Head(stdout)
           q == queue[i]
           g == got[i]
           k == Len(g) + Len(q)
<1>1. /\ stdout # <<>> /\ stdout' = Tail(stdout)
      /\ UNCHANGED <<stop, ipc, got, outcome, registered, stdin, heard, answers, ended>>
      /\ queue' = IF m.id \in registered THEN [queue EXCEPT ![m.id] = Append(@, m)]
                  ELSE queue
  BY DEF ReadMessage, Publish, callVars, childVars
<1>2. /\ stdout \in Seq(Message) /\ got[i] \in Seq(Nat) /\ q \in Seq(Message)
      /\ answers[i] \in Nat /\ queue \in [Invokers -> Seq(Message)]
      /\ registered \subseteq Invokers
  BY DEF TypeOK, CallsOK, PipesOK
<1>3. /\ m \in Message /\ m = stdout[1] /\ 1 \in DOMAIN stdout
      /\ Len(stdout) \in Nat /\ DOMAIN stdout = 1 .. Len(stdout)
      /\ DOMAIN stdout' = 1 .. Len(stdout) - 1
      /\ \A p \in DOMAIN stdout' : p + 1 \in DOMAIN stdout /\ stdout'[p] = stdout[p + 1]
  BY <1>1, <1>2, TailAt
<1>4. \A p \in DOMAIN stdout : p # 1 =>
        p - 1 \in DOMAIN stdout' /\ stdout'[p - 1] = stdout[p]
  BY <1>3
<1>5. queue'[i] = IF m.id = i /\ i \in registered THEN Append(q, m) ELSE q
  BY <1>1, <1>2
<1>6. CallInv(i) /\ StdoutInv(i) /\ QueueInv(i) /\ OwnInv(i)
  BY DEF Answers
<1> HIDE DEF m, g, q
<1>7. CallInv(i)'
  <2>1. ipc[i] \in {"idle", "register"} => \A p \in DOMAIN stdout' : stdout'[p].id # i
    BY <1>3, <1>6 DEF CallInv
  <2> QED
    BY <1>1, <1>5, <1>6, <2>1 DEF CallInv, q
<1>8. StdoutInv(i)'
  <2>1. \A p \in DOMAIN stdout' : stdout'[p].id = i =>
          /\ stdout'[p].type \in {"response", "end", "error"}
          /\ stdout'[p].type = "response" => stdout'[p].n \in 1 .. answers[i]
          /\ stdout'[p].type # "response" => i \in ended
    BY <1>3, <1>6 DEF StdoutInv
  <2>2. ASSUME NEW p \in DOMAIN stdout', NEW r \in DOMAIN stdout', p < r,
               stdout'[p].id = i, stdout'[r].id = i
        PROVE  /\ stdout'[p].type = "response"
               /\ stdout'[r].type = "response" => stdout'[p].n < stdout'[r].n
    <3>1. p + 1 < r + 1
      BY <1>3, <2>2
    <3> QED
      BY <1>3, <1>6, <2>2, <3>1 DEF StdoutInv
  <2> QED
    BY <1>1, <2>1, <2>2 DEF StdoutInv
<1>9. OwnInv(i)'
  BY <1>1, <1>6 DEF OwnInv
<1>10. QueueInv(i)'
  <2> SUFFICES ASSUME i \in registered
               PROVE  QueueContinues(i)' /\ StopSeen(i)' /\ PipeContinues(i)'
    BY <1>1 DEF QueueInv
  <2>1. QueueContinues(i) /\ StopSeen(i) /\ PipeContinues(i)
    BY <1>6 DEF QueueInv
  <2>2. CASE m.id # i
    <3>1. queue'[i] = queue[i]
      BY <1>5, <2>2 DEF q
    <3>2. QueueContinues(i)' /\ StopSeen(i)'
      BY <1>1, <2>1, <3>1 DEF QueueContinues, StopSeen
    <3>3. ASSUME Responses(queue[i]) PROVE
            /\ \A p \in DOMAIN stdout' :
                 ResponseAt(i, p)' => stdout'[p].n > Len(got[i]) + Len(queue[i])
            /\ \A n \in Len(got[i]) + Len(queue[i]) + 1 .. answers[i] :
                 \E p \in DOMAIN stdout' : ResponseAt(i, p)' /\ stdout'[p].n = n
      <4>1. /\ \A p \in DOMAIN stdout :
                 ResponseAt(i, p) => stdout[p].n > Len(got[i]) + Len(queue[i])
            /\ \A n \in Len(got[i]) + Len(queue[i]) + 1 .. answers[i] :
                 \E p \in DOMAIN stdout : ResponseAt(i, p) /\ stdout[p].n = n
        BY <2>1, <3>3 DEF PipeContinues
      <4>2. \A p \in DOMAIN stdout' :
              ResponseAt(i, p)' => stdout'[p].n > Len(got[i]) + Len(queue[i])
        <5> TAKE p \in DOMAIN stdout'
        <5>1. p + 1 \in DOMAIN stdout /\ stdout'[p] = stdout[p + 1]
          BY <1>3
        <5>2. ResponseAt(i, p)' => ResponseAt(i, p + 1)
          BY <5>1 DEF ResponseAt
        <5> QED
          BY <4>1, <5>1, <5>2
      <4>3. ASSUME NEW n \in Len(got[i]) + Len(queue[i]) + 1 .. answers[i]
            PROVE  \E p \in DOMAIN stdout' : ResponseAt(i, p)' /\ stdout'[p].n = n
        <5>1. PICK p \in DOMAIN stdout : ResponseAt(i, p) /\ stdout[p].n = n
          BY <4>1
        <5>2. p # 1
          BY <1>3, <2>2, <5>1 DEF ResponseAt
        <5>3. p - 1 \in DOMAIN stdout' /\ stdout'[p - 1] = stdout[p]
          BY <1>4, <5>2
        <5>4. ResponseAt(i, p - 1)' /\ stdout'[p - 1].n = n
          BY <5>1, <5>3 DEF ResponseAt
        <5> QED
          BY <5>3, <5>4
      <4> QED
        BY <4>2, <4>3
    <3>4. PipeContinues(i)'
      BY <1>1, <2>1, <3>1, <3>3 DEF PipeContinues
    <3> QED
      BY <3>2, <3>4
  <2>3. CASE m.id = i
    <3>1. queue'[i] = Append(q, m)
      BY <1>5, <2>3
    <3>2. /\ Responses(queue'[i]) => Responses(q) /\ m.type = "response"
          /\ \A j \in DOMAIN queue'[i] : Plain(queue'[i], j) =>
               \/ j \in DOMAIN q /\ Plain(q, j) /\ queue'[i][j] = q[j]
               \/ j = Len(q) + 1 /\ Responses(q) /\ queue'[i][j] = m
          /\ \A j \in DOMAIN queue'[i] :
               queue'[i][j] = m \/ (j \in DOMAIN q /\ queue'[i][j] = q[j])
      BY <1>2, <1>3, <3>1, QueuePut
    <3>3. Responses(q) =>
            /\ m.type = "response" => m.n = k + 1 /\ k + 1 <= answers[i]
            /\ m.type = "end" => i \in ended /\ k = answers[i]
      BY <1>1, <1>6, <2>1, <2>3, HeadAnswer DEF m, g, q
    <3>4. m.type \notin {"stopped", "broken"}
      BY <1>3, <1>6, <2>3 DEF StdoutInv
    <3>5. StopSeen(i)'
      BY <1>1, <2>1, <3>2, <3>4 DEF StopSeen, q
    <3>6. /\ Len(g) \in Nat /\ Len(q) \in Nat
          /\ Len(queue'[i]) = Len(q) + 1
      <4>1. g \in Seq(Nat) /\ q \in Seq(Message)
        BY <1>2 DEF g, q
      <4> QED
        BY <1>3, <3>1, <4>1
    <3>7. QueueContinues(i)'
      <4> SUFFICES ASSUME NEW j \in DOMAIN queue'[i], Plain(queue'[i], j)
                   PROVE  /\ queue'[i][j].type = "response" =>
                               /\ queue'[i][j].n = Len(g) + j
                               /\ Len(g) + j <= answers[i]
                          /\ queue'[i][j].type = "end" =>
                               i \in ended /\ Len(g) + j = answers[i] + 1
        BY <1>1 DEF QueueContinues, g
      <4>1. CASE j \in DOMAIN q /\ Plain(q, j) /\ queue'[i][j] = q[j]
        BY <2>1, <4>1 DEF QueueContinues, q, g
      <4>2. CASE j = Len(q) + 1 /\ Responses(q) /\ queue'[i][j] = m
        <5>1. Len(g) + j = k + 1
          BY <3>6, <4>2
        <5>2. /\ m.type = "response" => m.n = Len(g) + j /\ Len(g) + j <= answers[i]
              /\ m.type = "end" => i \in ended /\ Len(g) + j = answers[i] + 1
          BY <3>3, <4>2, <5>1
        <5> QED
          BY <4>2, <5>2
      <4> QED
        BY <3>2, <4>1, <4>2
    <3>8. ASSUME Responses(queue'[i])
          PROVE  /\ k + 1 <= answers[i]
                 /\ \A p \in DOMAIN stdout' :
                      ResponseAt(i, p)' => stdout'[p].n > k + 1
                 /\ \A n \in k + 2 .. answers[i] :
                      \E p \in DOMAIN stdout' : ResponseAt(i, p)' /\ stdout'[p].n = n
      <4>1. Responses(q) /\ m.type = "response" /\ m.n = k + 1 /\ k + 1 <= answers[i]
        BY <3>2, <3>3, <3>8
      <4>2. ASSUME NEW p \in DOMAIN stdout', ResponseAt(i, p)'
            PROVE  stdout'[p].n > k + 1
        <5>1. p + 1 \in DOMAIN stdout /\ stdout'[p] = stdout[p + 1] /\ 1 < p + 1
          BY <1>3
        <5>2. stdout[1].n < stdout[p + 1].n
          BY <1>3, <1>6, <2>3, <4>2, <5>1 DEF StdoutInv, ResponseAt
        <5>3. stdout[p + 1].n \in Nat
          <6>1. stdout[p + 1] \in Message
            BY <1>2, <5>1, ElementsOf
          <6> QED
            BY <6>1 DEF Message
        <5> QED
          BY <1>3, <3>6, <4>1, <5>1, <5>2, <5>3
      <4>3. ASSUME NEW n \in k + 2 .. answers[i]
            PROVE  \E p \in DOMAIN stdout' : ResponseAt(i, p)' /\ stdout'[p].n = n
        <5>1. n \in k + 1 .. answers[i]
          BY <1>2, <3>6
        <5>2. PICK p \in DOMAIN stdout : ResponseAt(i, p) /\ stdout[p].n = n
          BY <2>1, <4>1, <5>1 DEF PipeContinues, q, g
        <5>3. p # 1
          BY <1>2, <1>3, <3>6, <4>1, <5>2
        <5>4. p - 1 \in DOMAIN stdout' /\ stdout'[p - 1] = stdout[p]
          BY <1>4, <5>3
        <5>5. ResponseAt(i, p - 1)' /\ stdout'[p - 1].n = n
          BY <5>2, <5>4 DEF ResponseAt
        <5> QED
          BY <5>4, <5>5
      <4> QED
        BY <4>1, <4>2, <4>3
    <3>9. PipeContinues(i)'
      <4>1. /\ Len(got'[i]) + Len(queue'[i]) = k + 1
            /\ Len(got'[i]) + Len(queue'[i]) + 1 = k + 2
        <5>1. got'[i] = g
          BY <1>1 DEF g
        <5>2. PICK l \in Nat : l = Len(queue'[i]) /\ l = Len(q) + 1
          BY <3>6
        <5> QED
          BY <3>6, <5>1, <5>2
      <4>2. answers' = answers
        BY <1>1
      <4> QED
        BY <3>8, <4>1, <4>2 DEF PipeContinues
    <3> QED
      BY <3>5, <3>7, <3>9
  <2> QED
    BY <2>2, <2>3
<1> QED
  BY <1>7, <1>8, <1>9, <1>10 DEF Answers

(***************************************************************************)
(* Taking a response from the head of a queue.                             *)
(***************************************************************************)
LEMMA QueueTake ==
  ASSUME NEW S, NEW q \in Seq(S), q # <<>>, q[1].type = "response"
  PROVE  /\ Responses(Tail(q)) => Responses(q)
         /\ \A j \in DOMAIN Tail(q) : Plain(Tail(q), j) =>
              j + 1 \in DOMAIN q /\ Plain(q, j + 1) /\ Tail(q)[j] = q[j + 1]
<1> DEFINE t == Tail(q)
<1>1. /\ Len(q) \in Nat /\ DOMAIN q = 1 .. Len(q) /\ DOMAIN t = 1 .. Len(q) - 1
      /\ \A l \in DOMAIN t : l + 1 \in DOMAIN q /\ t[l] = q[l + 1]
  BY TailAt
<1> HIDE DEF t
<1>2. \A l \in DOMAIN q : l = 1 \/ (l - 1 \in DOMAIN t /\ t[l - 1] = q[l])
  <2> TAKE l \in DOMAIN q
  <2>1. l = 1 \/ l - 1 \in DOMAIN t
    BY <1>1
  <2>2. l - 1 \in DOMAIN t => t[l - 1] = q[(l - 1) + 1]
    BY <1>1
  <2>3. (l - 1) + 1 = l
    BY <1>1
  <2> QED
    BY <2>1, <2>2, <2>3
<1>3. Responses(t) => Responses(q)
  BY <1>2 DEF Responses
<1>4. ASSUME NEW j \in DOMAIN t, Plain(t, j) PROVE Plain(q, j + 1)
  <2> SUFFICES ASSUME NEW l \in DOMAIN q, l < j + 1 PROVE q[l].type = "response"
    BY DEF Plain
  <2>1. l # 1 => l - 1 < j
    BY <1>1
  <2> QED
    BY <1>2, <1>4, <2>1 DEF Plain
<1> QED
  BY <1>1, <1>3, <1>4 DEF t

(***************************************************************************)
(* The invoker is given the next response, or its invocation ends.         *)
(***************************************************************************)
LEMMA AnswersGet ==
  ASSUME TypeOK, NEW i \in Invokers, NEW j \in Invokers, Answers(i), Get(j)
  PROVE  Answers(i)'
<1> DEFINE m == Head(queue[j])
<1>1. /\ ipc[j] = "get" /\ queue[j] # <<>>
      /\ UNCHANGED <<stop, stdin, stdout, heard, answers, ended>>
  BY DEF Get, inside, closeVars, childVars
<1>2. \/ /\ outcomeOf(m) = "open"
         /\ got' = [got EXCEPT ![j] = Append(@, m.n)]
         /\ queue' = [queue EXCEPT ![j] = Tail(@)]
         /\ InvokerGoto(j, "caller")
         /\ UNCHANGED <<registered, outcome>>
      \/ outcomeOf(m) # "open" /\ Over(j, outcomeOf(m)) /\ UNCHANGED got
  BY DEF Get
<1>3. queue[j] \in Seq(Message) /\ m \in Message /\ m = queue[j][1]
      /\ 1 \in DOMAIN queue[j]
  <2>1. queue[j] \in Seq(Message)
    BY DEF TypeOK, CallsOK
  <2> QED
    BY <1>1, <2>1, TailAt
<1>4. /\ m.type = "response" <=> outcomeOf(m) = "open"
      /\ m.type = "end" <=> outcomeOf(m) = "complete"
      /\ outcomeOf(m) \in {"stopped", "broken"} => m.type \in {"stopped", "broken"}
      /\ outcomeOf(m) \in {"open", "complete", "stopped", "broken", "failed"}
  BY <1>3 DEF Message, outcomeOf
<1> HIDE DEF m
<1>5. CASE i # j
  <2>1. CASE Over(j, outcomeOf(m)) /\ UNCHANGED got
    BY <1>1, <1>5, <2>1, OthersOver
  <2>2. CASE /\ got' = [got EXCEPT ![j] = Append(@, m.n)]
             /\ queue' = [queue EXCEPT ![j] = Tail(@)]
             /\ InvokerGoto(j, "caller")
             /\ UNCHANGED <<registered, outcome>>
    <3>1. got'[i] = got[i] /\ queue'[i] = queue[i] /\ ipc'[i] = ipc[i]
      BY <1>5, <2>2 DEF InvokerGoto, TypeOK, CallsOK
    <3> QED
      BY <1>1, <2>2, <3>1, AnswersFrame
  <2> QED
    BY <1>2, <2>1, <2>2
<1>6. CASE i = j
  <2>1. i \in registered /\ QueueContinues(i) /\ StopSeen(i) /\ PipeContinues(i)
    BY <1>1, <1>6 DEF Answers, CallInv, QueueInv
  <2>2. Plain(queue[i], 1)
    <3>1. DOMAIN queue[i] = 1 .. Len(queue[i])
      BY <1>3, <1>6, ElementsOf
    <3>2. \A l \in DOMAIN queue[i] : ~(l < 1)
      BY <3>1
    <3> QED
      BY <3>2 DEF Plain
  <2>3. /\ m.type = "response" => m.n = Len(got[i]) + 1 /\ Len(got[i]) + 1 <= answers[i]
        /\ m.type = "end" => i \in ended /\ Len(got[i]) + 1 = answers[i] + 1
        /\ m.type \in {"stopped", "broken"} => stop
    BY <1>3, <1>6, <2>1, <2>2 DEF QueueContinues, StopSeen
  <2> DEFINE g == got[i]
             q == queue[i]
  <2>4. g \in Seq(Nat) /\ answers[i] \in Nat /\ q \in Seq(Message)
    BY DEF TypeOK, CallsOK, PipesOK
  <2>5. CASE outcomeOf(m) # "open" /\ Over(j, outcomeOf(m)) /\ UNCHANGED got
    <3>1. outcomeOf(m) = "complete" => i \in ended /\ Len(got[i]) = answers[i]
      <4>1. Len(g) \in Nat
        BY <2>4
      <4> HIDE DEF g
      <4>2. m.type = "end" => i \in ended /\ Len(g) = answers[i]
        BY <2>3, <2>4, <4>1 DEF g
      <4> QED
        BY <1>4, <4>2 DEF g
    <3>2. outcomeOf(m) \in {"complete", "stopped", "broken", "failed"}
          /\ (outcomeOf(m) \in {"stopped", "broken", "unsent"} => stop)
      BY <1>4, <2>3, <2>5
    <3> QED
      BY <1>1, <1>6, <2>5, <3>1, <3>2, AnswersOver
  <2>6. CASE /\ outcomeOf(m) = "open"
             /\ got' = [got EXCEPT ![j] = Append(@, m.n)]
             /\ queue' = [queue EXCEPT ![j] = Tail(@)]
             /\ InvokerGoto(j, "caller")
             /\ UNCHANGED <<registered, outcome>>
    <3>1. /\ got'[i] = Append(g, m.n) /\ queue'[i] = Tail(q) /\ ipc'[i] = "caller"
          /\ m.type = "response" /\ m.n = Len(g) + 1 /\ Len(g) + 1 <= answers[i]
      BY <1>4, <1>6, <2>3, <2>6 DEF InvokerGoto, TypeOK, CallsOK
    <3>2. q # <<>> /\ q[1].type = "response"
      BY <1>1, <1>3, <1>6, <3>1
    <3>3. g = [n \in 1 .. Len(g) |-> n] /\ outcome[i] = "open"
      BY <1>1, <1>6 DEF Answers, OwnInv, CallInv
    <3> HIDE DEF g, q
    <3>4. /\ Len(g) \in Nat /\ Len(q) \in Nat /\ Len(got'[i]) = Len(g) + 1
          /\ Len(queue'[i]) = Len(q) - 1
      BY <2>4, <3>1, <3>2
    <3>5. /\ Responses(queue'[i]) => Responses(q)
          /\ \A l \in DOMAIN queue'[i] : Plain(queue'[i], l) =>
               l + 1 \in DOMAIN q /\ Plain(q, l + 1) /\ queue'[i][l] = q[l + 1]
      BY <2>4, <3>1, <3>2, QueueTake
    <3>6. CallInv(i)'
      BY <1>1, <1>6, <2>1, <2>6, <3>1, <3>3 DEF Answers, CallInv
    <3>7. StdoutInv(i)'
      BY <1>1 DEF Answers, StdoutInv
    <3>8. QueueContinues(i)'
      <4> SUFFICES ASSUME NEW l \in DOMAIN queue'[i], Plain(queue'[i], l)
                   PROVE  /\ queue'[i][l].type = "response" =>
                               /\ queue'[i][l].n = Len(got'[i]) + l
                               /\ Len(got'[i]) + l <= answers[i]
                          /\ queue'[i][l].type = "end" =>
                               i \in ended /\ Len(got'[i]) + l = answers[i] + 1
        BY <1>1 DEF QueueContinues
      <4>1. /\ l + 1 \in DOMAIN q /\ Plain(q, l + 1) /\ queue'[i][l] = q[l + 1]
        BY <3>5
      <4>2. /\ q[l + 1].type = "response" =>
                 q[l + 1].n = Len(g) + (l + 1) /\ Len(g) + (l + 1) <= answers[i]
            /\ q[l + 1].type = "end" =>
                 i \in ended /\ Len(g) + (l + 1) = answers[i] + 1
        BY <2>1, <4>1 DEF QueueContinues, q, g
      <4>3. l \in Nat
        <5>1. queue'[i] \in Seq(Message)
          BY <2>4, <3>1, <3>2, TailAt
        <5> QED
          BY <5>1, ElementsOf
      <4>4. Len(got'[i]) + l = Len(g) + (l + 1)
        BY <3>4, <4>3
      <4> QED
        BY <4>1, <4>2, <4>4
    <3>9. PipeContinues(i)'
      <4> DEFINE k == Len(g) + Len(q)
      <4>1. Len(got'[i]) + Len(queue'[i]) = k
        <5>1. PICK l \in Nat : l = Len(queue'[i]) /\ l + 1 = Len(q)
          BY <3>4, <2>4, <3>2
        <5> QED
          BY <3>4, <5>1
      <4>2. Responses(q) =>
              /\ k <= answers[i]
              /\ \A p \in DOMAIN stdout : ResponseAt(i, p) => stdout[p].n > k
              /\ \A n \in k + 1 .. answers[i] :
                    \E p \in DOMAIN stdout : ResponseAt(i, p) /\ stdout[p].n = n
        BY <2>1 DEF PipeContinues, g, q
      <4> HIDE DEF k
      <4>3. stdout' = stdout /\ answers' = answers
        BY <1>1
      <4> QED
        BY <3>5, <4>1, <4>2, <4>3 DEF PipeContinues, ResponseAt
    <3>10. StopSeen(i)'
      <4>1. \A l \in DOMAIN queue'[i] : l + 1 \in DOMAIN q /\ queue'[i][l] = q[l + 1]
        BY <2>4, <3>1, <3>2, TailAt
      <4> QED
        BY <1>1, <2>1, <4>1 DEF StopSeen, q
    <3>11. OwnInv(i)'
      <4>1. Append(g, Len(g) + 1) = [n \in 1 .. Len(g) + 1 |-> n]
        BY <2>4, <3>3, <3>4
      <4>2. got'[i] = [n \in 1 .. Len(got'[i]) |-> n]
        BY <3>1, <3>4, <4>1
      <4>3. Len(got'[i]) <= answers'[i]
        BY <1>1, <3>1, <3>4
      <4>4. outcome'[i] = "open"
        BY <2>6, <3>3
      <4> QED
        BY <4>2, <4>3, <4>4 DEF OwnInv
    <3> QED
      BY <3>6, <3>7, <3>8, <3>9, <3>10, <3>11 DEF Answers, QueueInv
  <2> QED
    BY <1>2, <1>6, <2>5, <2>6
<1> QED
  BY <1>5, <1>6

(***************************************************************************)
(* What the child says comes last in the pipe: something for others, the   *)
(* next response to i, or the end of i.                                    *)
(***************************************************************************)
ForOthers(i, m) ==
  m.id # i /\ answers'[i] = answers[i] /\ (i \in ended' <=> i \in ended)

NextAnswer(i, m) ==
  /\ m.id = i /\ i \notin ended /\ i \notin ended' /\ heard[i] # 0
  /\ m.type = "response" /\ m.n = answers[i] + 1 /\ answers'[i] = answers[i] + 1

LastAnswer(i, m) ==
  /\ m.id = i /\ i \notin ended /\ i \in ended' /\ heard[i] # 0
  /\ m.type \in {"end", "error"} /\ answers'[i] = answers[i]

(***************************************************************************)
(* The child says one message more: to another invoker, the next answer to *)
(* this one, or its last.                                                  *)
(***************************************************************************)
LEMMA AnswersSaid ==
  ASSUME TypeOK, NEW i \in Invokers, Answers(i), NEW m \in Message,
         stdout' = Append(stdout, m),
         UNCHANGED <<stop, ipc, got, outcome, registered, queue, stdin, heard>>,
         ForOthers(i, m) \/ NextAnswer(i, m) \/ LastAnswer(i, m)
  PROVE  Answers(i)'
<1>1. stdout \in Seq(Message) /\ answers[i] \in Nat
  BY DEF TypeOK, PipesOK
<1>0. PICK z \in Nat : z = Len(stdout) + 1
  BY <1>1
<1>2. /\ z \in DOMAIN stdout' /\ stdout'[z] = m
      /\ \A p \in DOMAIN stdout : p \in DOMAIN stdout' /\ stdout'[p] = stdout[p] /\ p < z
      /\ \A p \in DOMAIN stdout' : p \in DOMAIN stdout \/ p = z
      /\ \A p \in DOMAIN stdout' : p \in Nat /\ p <= z
  BY <1>0, <1>1, AppendAt
<1>3. CallInv(i) /\ StdoutInv(i) /\ QueueInv(i) /\ OwnInv(i)
  BY DEF Answers
<1>4. answers'[i] \in Nat /\ answers[i] <= answers'[i] /\ (i \in ended => i \in ended')
      /\ (i \in ended => answers'[i] = answers[i])
  BY <1>1 DEF ForOthers, NextAnswer, LastAnswer
<1>5. CallInv(i)'
  <2>1. ASSUME ipc[i] \in {"idle", "register"} PROVE ForOthers(i, m)
    BY <1>3, <2>1 DEF CallInv, NextAnswer, LastAnswer
  <2>2. ipc[i] \in {"idle", "register"} => \A p \in DOMAIN stdout' : stdout'[p].id # i
    BY <1>2, <1>3, <2>1 DEF CallInv, ForOthers
  <2> QED
    BY <1>3, <2>1, <2>2 DEF CallInv, ForOthers
<1>6. StdoutInv(i)'
  <2>1. ASSUME NEW p \in DOMAIN stdout', stdout'[p].id = i
        PROVE  /\ stdout'[p].type \in {"response", "end", "error"}
               /\ stdout'[p].type = "response" => stdout'[p].n \in 1 .. answers'[i]
               /\ stdout'[p].type # "response" => i \in ended'
    <3>1. CASE p \in DOMAIN stdout
      BY <1>1, <1>2, <1>3, <1>4, <2>1, <3>1 DEF StdoutInv
    <3>2. CASE p = z
      BY <1>1, <1>2, <2>1, <3>2 DEF ForOthers, NextAnswer, LastAnswer
    <3> QED
      BY <1>2, <3>1, <3>2
  <2>2. ASSUME NEW p \in DOMAIN stdout', NEW q \in DOMAIN stdout', p < q,
               stdout'[p].id = i, stdout'[q].id = i
        PROVE  /\ stdout'[p].type = "response"
               /\ stdout'[q].type = "response" => stdout'[p].n < stdout'[q].n
    <3>1. p \in DOMAIN stdout /\ stdout'[p] = stdout[p]
      BY <1>2, <2>2
    <3>2. CASE q \in DOMAIN stdout
      BY <1>2, <1>3, <2>2, <3>1, <3>2 DEF StdoutInv
    <3>3. CASE q = z
      <4>1. i \notin ended /\ (m.type = "response" => m.n = answers[i] + 1)
        BY <1>2, <2>2, <3>3 DEF ForOthers, NextAnswer, LastAnswer
      <4>2. stdout[p].type = "response" /\ stdout[p].n \in 1 .. answers[i]
        BY <1>3, <2>2, <3>1, <4>1 DEF StdoutInv
      <4> QED
        BY <1>1, <1>2, <3>1, <3>3, <4>1, <4>2
    <3> QED
      BY <1>2, <3>2, <3>3
  <2> QED
    BY <2>1, <2>2 DEF StdoutInv
<1>7. QueueInv(i)'
  <2> SUFFICES ASSUME i \in registered
               PROVE  QueueContinues(i)' /\ StopSeen(i)' /\ PipeContinues(i)'
    BY DEF QueueInv
  <2>1. QueueContinues(i) /\ StopSeen(i) /\ PipeContinues(i)
    BY <1>3 DEF QueueInv
  <2>2. StopSeen(i)'
    BY <2>1 DEF StopSeen
  <2> DEFINE g == got[i]
             q == queue[i]
             k == Len(g) + Len(q)
  <2>3. g \in Seq(Nat) /\ q \in Seq(Message)
    BY DEF TypeOK, CallsOK
  <2>4. QueueContinues(i)'
    <3> SUFFICES ASSUME NEW j \in DOMAIN q, Plain(q, j)
                 PROVE  /\ q[j].type = "response" =>
                             q[j].n = Len(g) + j /\ Len(g) + j <= answers'[i]
                        /\ q[j].type = "end" =>
                             i \in ended' /\ Len(g) + j = answers'[i] + 1
      BY DEF QueueContinues
    <3>1. /\ q[j].type = "response" =>
               q[j].n = Len(g) + j /\ Len(g) + j <= answers[i]
          /\ q[j].type = "end" =>
               i \in ended /\ Len(g) + j = answers[i] + 1
      BY <2>1 DEF QueueContinues
    <3>2. j \in Nat
      BY <2>3, ElementsOf
    <3> HIDE DEF g, q
    <3>3. Len(g) \in Nat
      BY <2>3
    <3> QED
      BY <1>1, <1>4, <3>1, <3>2, <3>3
  <2>5. PipeContinues(i)'
    <3> SUFFICES ASSUME Responses(q)
                 PROVE  /\ k <= answers'[i]
                        /\ \A p \in DOMAIN stdout' : ResponseAt(i, p)' => stdout'[p].n > k
                        /\ \A n \in k + 1 .. answers'[i] :
                              \E p \in DOMAIN stdout' : ResponseAt(i, p)' /\ stdout'[p].n = n
      BY DEF PipeContinues
    <3>1. /\ k <= answers[i]
          /\ \A p \in DOMAIN stdout : ResponseAt(i, p) => stdout[p].n > k
          /\ \A n \in k + 1 .. answers[i] :
                \E p \in DOMAIN stdout : ResponseAt(i, p) /\ stdout[p].n = n
      BY <2>1 DEF PipeContinues
    <3> HIDE DEF g, q
    <3>2. k \in Nat
      BY <2>3
    <3> HIDE DEF k
    <3>3. \A p \in DOMAIN stdout :
            p \in DOMAIN stdout' /\ stdout'[p] = stdout[p]
            /\ (ResponseAt(i, p)' <=> ResponseAt(i, p))
      BY <1>2 DEF ResponseAt
    <3>4. ASSUME NEW p \in DOMAIN stdout', ResponseAt(i, p)' PROVE stdout'[p].n > k
      <4>1. CASE p \in DOMAIN stdout
        BY <3>1, <3>3, <3>4, <4>1
      <4>2. CASE p = z
        <5>1. NextAnswer(i, m)
          BY <1>2, <3>4, <4>2 DEF ResponseAt, ForOthers, LastAnswer
        <5>2. m.n = answers[i] + 1
          BY <5>1 DEF NextAnswer
        <5> QED
          BY <1>1, <1>2, <3>1, <3>2, <4>2, <5>2
      <4> QED
        BY <1>2, <4>1, <4>2
    <3>5. ASSUME NEW n \in k + 1 .. answers'[i]
          PROVE  \E p \in DOMAIN stdout' : ResponseAt(i, p)' /\ stdout'[p].n = n
      <4>1. CASE n <= answers[i]
        <5>1. n \in k + 1 .. answers[i]
          BY <1>1, <1>4, <3>2, <4>1
        <5>2. PICK p \in DOMAIN stdout : ResponseAt(i, p) /\ stdout[p].n = n
          BY <3>1, <5>1
        <5> QED
          BY <3>3, <5>2
      <4>2. CASE ~(n <= answers[i])
        <5>1. NextAnswer(i, m)
          BY <1>1, <1>4, <3>2, <4>2 DEF ForOthers, LastAnswer
        <5>2. m.id = i /\ m.type = "response" /\ m.n = answers[i] + 1
              /\ answers'[i] = answers[i] + 1
          BY <5>1 DEF NextAnswer
        <5>3. n = m.n
          BY <1>1, <3>2, <4>2, <5>2
        <5>4. ResponseAt(i, z)' /\ stdout'[z].n = n
          BY <1>2, <5>2, <5>3 DEF ResponseAt
        <5> QED
          BY <1>2, <5>4
      <4> QED
        BY <4>1, <4>2
    <3> QED
      BY <1>1, <1>4, <3>1, <3>2, <3>4, <3>5
  <2> QED
    BY <2>2, <2>4, <2>5
<1>8. OwnInv(i)'
  <2> DEFINE g == got[i]
  <2>1. /\ g = [n \in 1 .. Len(g) |-> n] /\ Len(g) <= answers[i]
        /\ outcome[i] = "complete" => i \in ended /\ Len(g) = answers[i]
        /\ outcome[i] \in {"stopped", "broken", "unsent"} => stop
    BY <1>3 DEF OwnInv
  <2>2. g \in Seq(Nat)
    BY DEF TypeOK, CallsOK
  <2> HIDE DEF g
  <2>3. Len(g) \in Nat
    BY <2>2
  <2>4. Len(g) <= answers'[i]
    BY <1>1, <1>4, <2>1, <2>3
  <2>5. outcome[i] = "complete" => i \in ended' /\ Len(g) = answers'[i]
    BY <1>4, <2>1
  <2> QED
    BY <2>1, <2>4, <2>5 DEF OwnInv, g
<1> QED
  BY <1>5, <1>6, <1>7, <1>8 DEF Answers

(***************************************************************************)
(* The child, when it speaks for itself and when it answers.               *)
(***************************************************************************)
LEMMA AnswersSpoken ==
  ASSUME TypeOK, NEW i \in Invokers, Answers(i),
         ChildSpeaks \/ (\E j \in Invokers : ChildAnswers(j))
  PROVE  Answers(i)'
<1>0. answers \in [Invokers -> Nat] /\ Pieces # 0 /\ None \notin Invokers
  BY BoundsAssumption DEF TypeOK, PipesOK
<1>1. CASE ChildSpeaks
  <2>1. PICK type \in {"ready", "error"} : Say(None, type, 0)
    BY <1>1 DEF ChildSpeaks
  <2> DEFINE m == [id |-> None, type |-> type, n |-> 0]
  <2>2. m \in Message /\ m.id # i
    BY <1>0 DEF Message
  <2>3. stdout' = Append(stdout, m)
    BY <2>1 DEF Say
  <2>4. UNCHANGED <<stop, ipc, got, outcome, registered, queue, stdin, heard, answers, ended>>
    BY <1>1, <2>1 DEF ChildSpeaks, Say, inside, closeVars, callVars, queueVars
  <2> HIDE DEF m
  <2>5. ForOthers(i, m)
    BY <2>2, <2>4 DEF ForOthers
  <2> QED
    BY <2>2, <2>3, <2>4, <2>5, AnswersSaid
<1>2. ASSUME NEW j \in Invokers, ChildAnswers(j) PROVE Answers(i)'
  <2>1. heard[j] # 0 /\ j \notin ended /\ UNCHANGED <<stdin, heard>>
    BY <1>0, <1>2 DEF ChildAnswers
  <2>2. CASE /\ answers' = [answers EXCEPT ![j] = @ + 1]
             /\ Say(j, "response", answers[j] + 1)
             /\ UNCHANGED ended
    <3> DEFINE m == [id |-> j, type |-> "response", n |-> answers[j] + 1]
    <3>1. m \in Message /\ m.id = j /\ m.type = "response" /\ m.n = answers[j] + 1
      BY <1>0 DEF Message
    <3>2. stdout' = Append(stdout, m)
          /\ UNCHANGED <<stop, ipc, got, outcome, registered, queue>>
      BY <2>2 DEF Say, inside, closeVars, callVars, queueVars
    <3> HIDE DEF m
    <3>3. j = i => NextAnswer(i, m)
      BY <1>0, <2>1, <2>2, <3>1 DEF NextAnswer
    <3>4. j # i => ForOthers(i, m)
      BY <1>0, <2>2, <3>1 DEF ForOthers
    <3> QED
      BY <2>1, <3>1, <3>2, <3>3, <3>4, AnswersSaid
  <2>3. CASE /\ ended' = ended \cup {j}
             /\ \E type \in {"end", "error"} : Say(j, type, 0)
             /\ UNCHANGED answers
    <3>0. PICK type \in {"end", "error"} : Say(j, type, 0)
      BY <2>3
    <3> DEFINE m == [id |-> j, type |-> type, n |-> 0]
    <3>1. m \in Message /\ m.id = j /\ m.type \in {"end", "error"}
      BY DEF Message
    <3>2. stdout' = Append(stdout, m)
          /\ UNCHANGED <<stop, ipc, got, outcome, registered, queue>>
      BY <3>0 DEF Say, inside, closeVars, callVars, queueVars
    <3> HIDE DEF m
    <3>3. j = i => LastAnswer(i, m)
      BY <2>1, <2>3, <3>1 DEF LastAnswer
    <3>4. j # i => ForOthers(i, m)
      BY <2>3, <3>1 DEF ForOthers
    <3> QED
      BY <2>1, <3>1, <3>2, <3>3, <3>4, AnswersSaid
  <2> QED
    BY <1>2, <2>2, <2>3 DEF ChildAnswers
<1> QED
  BY <1>1, <1>2

-----------------------------------------------------------------------------
(* The invokers, and the child when it reads.                              *)

(***************************************************************************)
(* An invocation begins: the flag is looked at twice.                      *)
(***************************************************************************)
LEMMA AnswersBegin ==
  ASSUME TypeOK, NEW i \in Invokers, NEW j \in Invokers, Answers(i),
         Invoke(j) \/ Register(j)
  PROVE  Answers(i)'
<1>1. UNCHANGED <<stop, got, stdin, stdout, heard, answers, ended>>
  BY DEF Invoke, Register, inside, closeVars, childVars
<1>2. ASSUME stop, Over(j, "stopped") PROVE Answers(i)'
  <2>1. CASE i = j
    BY <1>1, <1>2, <2>1, AnswersOver
  <2>2. CASE i # j
    BY <1>1, <1>2, <2>2, OthersOver
  <2> QED
    BY <2>1, <2>2
<1>3. CASE Invoke(j) /\ ~stop
  <2>1. /\ ipc[j] = "idle" /\ ipc' = [ipc EXCEPT ![j] = "register"]
        /\ UNCHANGED <<outcome, queueVars>>
    BY <1>3 DEF Invoke, InvokerGoto
  <2>2. ipc'[i] = ipc[i] \/ (ipc[i] = "idle" /\ ipc'[i] = "register")
    BY <2>1 DEF TypeOK, CallsOK
  <2> QED
    BY <1>1, <2>1, <2>2, AnswersFrame DEF queueVars
<1>4. CASE Register(j) /\ ~stop
  <2>1. /\ ipc[j] = "register" /\ ipc' = [ipc EXCEPT ![j] = "lock"]
        /\ registered' = registered \cup {j} /\ UNCHANGED <<outcome, queue>>
    BY <1>4 DEF Register, InvokerGoto
  <2>2. CASE i # j
    <3>1. (i \in registered' <=> i \in registered) /\ ipc'[i] = ipc[i]
      BY <2>1, <2>2 DEF TypeOK, CallsOK
    <3> QED
      BY <1>1, <2>1, <3>1, AnswersFrame
  <2>3. CASE i = j
    <3>1. /\ i \in registered' /\ ipc'[i] = "lock"
      BY <2>1, <2>3 DEF TypeOK, CallsOK
    <3>2. /\ i \notin registered /\ queue[i] = <<>> /\ outcome[i] = "open"
          /\ answers[i] = 0 /\ got[i] = <<>>
          /\ \A p \in DOMAIN stdout : stdout[p].id # i
      BY <2>1, <2>3 DEF Answers, CallInv
    <3>3. CallInv(i)'
      BY <1>1, <2>1, <3>1, <3>2 DEF CallInv
    <3>4. StdoutInv(i)'
      BY <1>1 DEF Answers, StdoutInv
    <3>5. OwnInv(i)'
      BY <1>1, <2>1 DEF Answers, OwnInv
    <3>6. QueueContinues(i)' /\ StopSeen(i)'
      <4>1. DOMAIN queue'[i] = {}
        BY <2>1, <3>2
      <4> QED
        BY <4>1 DEF QueueContinues, StopSeen
    <3>7. PipeContinues(i)'
      <4>1. /\ Len(got'[i]) + Len(queue'[i]) = 0 /\ answers'[i] = 0
            /\ stdout' = stdout
        BY <1>1, <2>1, <3>2
      <4>2. \A p \in DOMAIN stdout : ~ResponseAt(i, p)'
        BY <3>2, <4>1 DEF ResponseAt
      <4>3. 1 .. 0 = {} /\ 0 + 1 = 1 /\ 0 <= 0
        OBVIOUS
      <4> QED
        BY <4>1, <4>2, <4>3 DEF PipeContinues
    <3> QED
      BY <3>3, <3>4, <3>5, <3>6, <3>7 DEF Answers, QueueInv
  <2> QED
    BY <2>2, <2>3
<1> QED
  BY <1>2, <1>3, <1>4 DEF Invoke, Register

(***************************************************************************)
(* The invoker has the lock, writes, or comes back from its caller.        *)
(***************************************************************************)
LEMMA AnswersWrite ==
  ASSUME TypeOK, CloseInv, NEW i \in Invokers, NEW j \in Invokers, Answers(i),
         LockStdin(j) \/ WritePiece(j) \/ CallerStep(j)
  PROVE  Answers(i)'
<1>0. ipc \in [Invokers -> {"idle", "register", "lock", "write", "get",
                            "caller", "done"}]
      /\ stdin \in Seq(Invokers)
  BY DEF TypeOK, CallsOK, PipesOK
<1>1. UNCHANGED <<stop, got, stdout, heard, answers, ended>>
  BY DEF LockStdin, WritePiece, CallerStep, inside, closeVars, childVars
<1>2. ASSUME NEW how \in {"unsent", "abandoned"}, Over(j, how), stdin' = stdin,
             how = "unsent" => stop
      PROVE  Answers(i)'
  <2>1. CASE i = j
    BY <1>1, <1>2, <2>1, AnswersOver
  <2>2. CASE i # j
    BY <1>1, <1>2, <2>2, OthersOver
  <2> QED
    BY <2>1, <2>2
<1>3. ASSUME UNCHANGED <<outcome, queueVars>>,
             NEW step \in {"write", "get"},
             ipc[j] \in {"lock", "write", "caller"},
             ipc' = [ipc EXCEPT ![j] = step] \/ ipc' = ipc,
             stdin' = stdin \/ stdin' = Append(stdin, j)
      PROVE  Answers(i)'
  <2>1. \/ ipc'[i] = ipc[i]
        \/ {ipc[i], ipc'[i]} \subseteq {"lock", "write", "get", "caller"}
    BY <1>0, <1>3
  <2>2. ASSUME ipc[i] \in {"idle", "register"}, NEW p \in DOMAIN stdin',
               \A l \in DOMAIN stdin : stdin[l] # i
        PROVE  stdin'[p] # i
    <3>1. i # j
      BY <1>3, <2>2
    <3>2. CASE stdin' = stdin
      BY <2>2, <3>2
    <3>3. CASE stdin' = Append(stdin, j)
      <4>1. stdin'[p] = j \/ (p \in DOMAIN stdin /\ stdin'[p] = stdin[p])
        BY <1>0, <2>2, <3>3, AppendAt
      <4> QED
        BY <2>2, <3>1, <4>1
    <3> QED
      BY <1>3, <3>2, <3>3
  <2> QED
    BY <1>1, <1>3, <2>1, <2>2, AnswersFrame DEF queueVars
<1>4. CASE LockStdin(j)
  <2>1. /\ ipc[j] = "lock" /\ ipc' = [ipc EXCEPT ![j] = "write"]
        /\ UNCHANGED <<outcome, queueVars, stdin>>
    BY <1>4 DEF LockStdin, InvokerGoto
  <2> QED
    BY <1>3, <2>1
<1>5. CASE WritePiece(j)
  <2>1. \/ /\ stdin' = Append(stdin, j) /\ UNCHANGED <<outcome, queueVars>>
           /\ ipc' = [ipc EXCEPT ![j] = "get"] \/ ipc' = ipc
        \/ pipes = "closed" /\ Over(j, "unsent") /\ UNCHANGED stdin
    BY <1>5 DEF WritePiece, InvokerGoto
  <2>2. pipes = "closed" => stop
    BY DEF CloseInv, FlagInv
  <2>3. ipc[j] = "write"
    BY <1>5 DEF WritePiece
  <2> QED
    BY <1>2, <1>3, <2>1, <2>2, <2>3
<1>6. CASE CallerStep(j)
  <2>1. /\ ipc[j] = "caller" /\ UNCHANGED stdin
        /\ \/ ipc' = [ipc EXCEPT ![j] = "get"] /\ UNCHANGED <<outcome, queueVars>>
           \/ Over(j, "abandoned")
    BY <1>6 DEF CallerStep, InvokerGoto
  <2> QED
    BY <1>2, <1>3, <2>1
<1> QED
  BY <1>4, <1>5, <1>6

(***************************************************************************)
(* The child reads the next piece.                                         *)
(***************************************************************************)
LEMMA AnswersHeard ==
  ASSUME TypeOK, NEW i \in Invokers, Answers(i), ChildReads
  PROVE  Answers(i)'
<1>1. /\ stdin # <<>> /\ stdin' = Tail(stdin)
      /\ heard' = [heard EXCEPT ![Head(stdin)] = @ + 1]
      /\ UNCHANGED <<stop, ipc, got, outcome, registered, queue, stdout, answers, ended>>
  BY DEF ChildReads, inside, closeVars, callVars, queueVars
<1>2. stdin \in Seq(Invokers) /\ heard \in [Invokers -> Nat]
  BY DEF TypeOK, PipesOK
<1>3. /\ Head(stdin) = stdin[1] /\ 1 \in DOMAIN stdin
      /\ \A p \in DOMAIN stdin' : p + 1 \in DOMAIN stdin /\ stdin'[p] = stdin[p + 1]
  BY <1>1, <1>2, TailAt
<1>4. ASSUME ipc[i] \in {"idle", "register"}
      PROVE  /\ heard'[i] = heard[i]
             /\ \A p \in DOMAIN stdin' : stdin'[p] # i
  <2>1. \A p \in DOMAIN stdin : stdin[p] # i
    BY <1>4 DEF Answers, CallInv
  <2> QED
    BY <1>1, <1>2, <1>3, <2>1
<1> QED
  BY <1>1, <1>4, AnswersFrame

(***************************************************************************)
(* Every step keeps every invocation right.                                *)
(***************************************************************************)
LEMMA AnswersStep ==
  ASSUME TypeOK, CloseInv, NEW i \in Invokers, Answers(i), [Next]_vars
  PROVE  Answers(i)'
<1> DEFINE others == <<ipc, got, outcome, registered, queue, stdin, stdout, heard,
                       answers, ended>>
<1>1. ASSUME UNCHANGED others, stop' = stop PROVE Answers(i)'
  BY <1>1, AnswersFrame
<1> USE DEF resources, readerVars, closeVars, callVars, queueVars, childVars,
            outside, inside
<1>2. ASSUME MakePipes \/ Spawn \/ StartReader \/ StartDrain \/ AwaitReady \/ Exit
      PROVE  UNCHANGED others /\ stop' = stop
  BY <1>2 DEF MakePipes, Spawn, StartReader, StartDrain, AwaitReady, Exit
<1>3. ASSUME OwnerLeaves \/ ReadNothing \/ ReadPoll \/ ReaderLeaves \/ DrainStopped
             \/ ChildExits \/ UNCHANGED vars
      PROVE  UNCHANGED others /\ stop' = stop
  BY <1>3 DEF OwnerLeaves, ReadNothing, ReadPoll, ReaderLeaves, DrainStopped, ChildExits, vars
<1>4. ASSUME NEW t \in Closers, CloseWaitComplete(t) \/ CloseSignal(t) \/ CloseJoin(t) \/ ClosePipes(t)
             \/ CloseRemove(t)
      PROVE  UNCHANGED others /\ stop' = stop
  BY <1>4 DEF CloseWaitComplete, CloseSignal, CloseJoin, ClosePipes,
     CloseRemove
<1> HIDE DEF others
<1>5. ASSUME NEW t \in Closers, Closing(t) PROVE Answers(i)'
  BY <1>1, <1>4, <1>5, AnswersEnter DEF Closing
<1>6. ASSUME NEW j \in Invokers,
             Invoke(j) \/ Invoker(j) \/ CallerStep(j) \/ ChildAnswers(j)
      PROVE  Answers(i)'
  BY <1>6, AnswersBegin, AnswersWrite, AnswersGet, AnswersSpoken DEF Invoker
<1> QED
  BY <1>1, <1>2, <1>3, <1>5, <1>6, AnswersRead, AnswersHeard, AnswersSpoken
  DEF Next, Owner, Reader, Closers

-----------------------------------------------------------------------------
(* The theorems.                                                           *)

(***************************************************************************)
(* The invariant is inductive.                                             *)
(***************************************************************************)
LEMMA Inductive == Spec => []IInv
<1>1. Init => IInv
  BY TypeInit, CloseInit, AnswersInit DEF IInv
<1>2. IInv /\ [Next]_vars => IInv'
  BY TypeStep, CloseStep, AnswersStep DEF IInv
<1> QED
  BY <1>1, <1>2, PTL DEF Spec

(***************************************************************************)
(* When the owner has left the `with' block, or the constructor has        *)
(* raised, nothing is left behind, whatever failed and whoever of the two  *)
(* threads ran _close(): pc is there only with closePc["owner"] done, and  *)
(* then everything has been released.                                      *)
(***************************************************************************)
THEOREM NothingIsLeft == Spec => []NothingLeft
<1>1. IInv => NothingLeft
  BY DEF IInv, CloseInv, FlagInv, PlaceInv, NothingLeft
<1> QED
  BY Inductive, <1>1, PTL

(***************************************************************************)
(* Every invocation is given the child's responses to its own request, in  *)
(* order and without a gap; it ends without an error only after all of     *)
(* them, and as stopped only if somebody closes the runner.                *)
(***************************************************************************)
THEOREM InvocationsGetTheirOwn == Spec => []AnswersAreOwn
<1>1. IInv => AnswersAreOwn
  BY DEF IInv, Answers, OwnInv, AnswersAreOwn
<1> QED
  BY Inductive, <1>1, PTL
=============================================================================
