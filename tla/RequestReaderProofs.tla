------------------------ MODULE RequestReaderProofs ------------------------
(***************************************************************************)
(* What holds of RequestReader for any number of readers and lines.        *)
(*                                                                         *)
(* The argument rests on ownership: a reader whose close() is under way is *)
(* held by exactly one actor (CloseInv), so the end marker is put by the   *)
(* actor that set the flag, whoever else calls close(); and on the order   *)
(* of the three steps of close(), which makes the flag visible before the  *)
(* marker is.                                                              *)
(*                                                                         *)
(* The order of the lines rests on that: an open reader is in the list or  *)
(* in the share of a close() under way (RegInv), and once there is such a  *)
(* share no further line is handed out; hence an open reader never waits   *)
(* for more than the last line (HandOutInv), and what is put in its queue  *)
(* always comes after all it is due before.                                *)
(***************************************************************************)
EXTENDS RequestReader, TLAPS

(***************************************************************************)
(* There is a line to hand out whenever the event loop hands one out, and  *)
(* a closer holds readers only while it runs RequestReader.close.          *)
(***************************************************************************)
LoopInv ==
  /\ loopPc \in {"copy", "write"} => arrived # <<>>
  /\ writing # NoReader => loopPc = "write"
  /\ loopPc \notin {"eofclose", "close"} => toClose["loop"] = {}
  /\ extPc = "idle" /\ "ext" \in Closers => toClose["ext"] = {}

(***************************************************************************)
(* Nobody knows a reader that read() has not created yet.                  *)
(***************************************************************************)
FreshInv ==
  \A r \in Readers : cpc[r] = "none" =>
    /\ closeStep[r] = "open"
    /\ r \notin readers
    /\ \A c \in Closers : r \notin toClose[c]

(***************************************************************************)
(* A close() under way belongs to one actor, and one that is over has left *)
(* the end marker where a consumer that still iterates will meet it.       *)
(***************************************************************************)
CloseInv ==
  /\ \A a \in Actors : busy[a] # NoReader =>
       closeStep[busy[a]] \in {"remove", "put"}
  /\ \A a, b \in Actors : busy[a] = busy[b] /\ busy[a] # NoReader => a = b
  /\ \A r \in Readers : closeStep[r] \in {"remove", "put"} =>
       \E a \in Actors : busy[a] = r
  /\ \A r \in Readers : closeStep[r] = "closed" /\ cpc[r] \in {"head", "get"} =>
       Marked(queue[r])

IInv == TypeOK /\ LoopInv /\ FreshInv /\ CloseInv /\ ClosedUnregistered
          /\ NoneForgotten

-----------------------------------------------------------------------------
(* Lemmas on queues.                                                       *)

(***************************************************************************)
(* Putting something in a queue hides no end marker that is in it, and the *)
(* end marker that is put is in it.                                        *)
(***************************************************************************)
LEMMA AppendKeeps ==
  ASSUME NEW S, NEW q \in Seq(S), NEW e \in S
  PROVE  /\ Append(q, e) \in Seq(S)
         /\ e = None => Marked(Append(q, e))
         /\ Marked(q) => Marked(Append(q, e))
<1>1. Append(q, e) \in Seq(S) /\ Len(Append(q, e)) = Len(q) + 1
  OBVIOUS
<1>2. Len(q) + 1 \in DOMAIN Append(q, e) /\ Append(q, e)[Len(q) + 1] = e
  BY <1>1
<1>3. \A i \in DOMAIN q : i \in DOMAIN Append(q, e) /\ Append(q, e)[i] = q[i]
  BY <1>1
<1> QED
  BY <1>1, <1>2, <1>3 DEF Marked

(***************************************************************************)
(* Getting something other than the end marker leaves the marker there.    *)
(***************************************************************************)
LEMMA TailKeeps ==
  ASSUME NEW S, NEW q \in Seq(S), q # <<>>, Head(q) # None, Marked(q)
  PROVE  Marked(Tail(q))
<1>1. PICK i \in DOMAIN q : q[i] = None
  BY DEF Marked
<1>2. i \in 1 .. Len(q) /\ i # 1
  BY <1>1
<1>3. i - 1 \in DOMAIN Tail(q) /\ Tail(q)[i - 1] = None
  BY <1>1, <1>2
<1> QED
  BY <1>3 DEF Marked

-----------------------------------------------------------------------------
(***************************************************************************)
(* The types, and the facts about the control that they need.              *)
(***************************************************************************)
LEMMA TypeInit == Init => TypeOK /\ LoopInv
<1> SUFFICES ASSUME Init PROVE TypeOK /\ LoopInv
  OBVIOUS
<1> USE DEF Init
<1>1. /\ queue \in [Readers -> Seq(Line \cup {None})]
      /\ got \in [Readers -> Seq(Line)]
      /\ arrived \in Seq(Kinds)
  <2>1. \A S : <<>> \in Seq(S)
    OBVIOUS
  <2> QED
    BY <2>1
<1>2. /\ since \in [Readers -> Nat]
      /\ toClose \in [Closers -> SUBSET Readers]
      /\ busy \in [Actors -> Readers \cup {NoReader}]
      /\ closeStep \in [Readers -> {"open", "remove", "put", "closed"}]
      /\ cpc \in [Readers -> {"none", "head", "get", "exit", "done"}]
  OBVIOUS
<1> QED
  BY <1>1, <1>2, ClosersAssumption DEF TypeOK, LoopInv

(***************************************************************************)
(* Every step keeps the types, and the place the event loop has got to.    *)
(***************************************************************************)
LEMMA TypeStep == TypeOK /\ LoopInv /\ [Next]_vars => TypeOK' /\ LoopInv'
<1> SUFFICES ASSUME TypeOK, LoopInv, [Next]_vars PROVE TypeOK' /\ LoopInv'
  OBVIOUS
<1> USE DEF TypeOK, LoopInv, loopVars, consumerVars, closerVars
<1>1. ASSUME NEW r \in Readers, Register(r) PROVE TypeOK' /\ LoopInv'
  <2>1. since' \in [Readers -> Nat]
    BY <1>1 DEF Register
  <2> QED
    BY <1>1, <2>1 DEF Register
<1>2. ASSUME NEW r \in Readers, ReadHead(r) PROVE TypeOK' /\ LoopInv'
  BY <1>2 DEF ReadHead
<1>3. ASSUME NEW r \in Readers, ReadGet(r) PROVE TypeOK' /\ LoopInv'
  <2>1. queue[r] \in Seq(Line \cup {None}) /\ queue[r] # <<>>
    BY <1>3 DEF ReadGet
  <2>2. /\ Tail(queue[r]) \in Seq(Line \cup {None})
        /\ Head(queue[r]) \in Line \cup {None}
    BY <2>1
  <2>3. queue' \in [Readers -> Seq(Line \cup {None})]
    BY <1>3, <2>2 DEF ReadGet
  <2>4. got' \in [Readers -> Seq(Line)]
    <3>1. CASE Head(queue[r]) = None
      BY <1>3, <3>1 DEF ReadGet
    <3>2. CASE Head(queue[r]) # None
      <4>1. Append(got[r], Head(queue[r])) \in Seq(Line)
        BY <2>2, <3>2, AppendKeeps
      <4> QED
        BY <1>3, <3>2, <4>1 DEF ReadGet
    <3> QED
      BY <3>1, <3>2
  <2> QED
    BY <1>3, <2>3, <2>4 DEF ReadGet
<1>4. ASSUME NEW r \in Readers, ReadTimeout(r) PROVE TypeOK' /\ LoopInv'
  BY <1>4 DEF ReadTimeout
<1>5. ASSUME NEW r \in Readers, Abandon(r) PROVE TypeOK' /\ LoopInv'
  BY <1>5 DEF Abandon
<1>6. ASSUME NEW r \in Readers, ConsumerExit(r) PROVE TypeOK' /\ LoopInv'
  BY <1>6 DEF ConsumerExit, CloseEnter, Actors
<1>7. ASSUME NEW a \in Actors, CloseRemove(a) PROVE TypeOK' /\ LoopInv'
  BY <1>7 DEF CloseRemove
<1>8. ASSUME NEW a \in Actors, ClosePut(a) PROVE TypeOK' /\ LoopInv'
  <2>1. busy[a] \in Readers
    BY <1>8 DEF ClosePut
  <2>2. Append(queue[busy[a]], None) \in Seq(Line \cup {None})
    BY <2>1, AppendKeeps
  <2>3. queue' \in [Readers -> Seq(Line \cup {None})]
    BY <1>8, <2>1, <2>2 DEF ClosePut
  <2> QED
    BY <1>8, <2>1, <2>3 DEF ClosePut
<1>9. ASSUME NEW c \in Closers, NEW r \in Readers, CloseNext(c, r)
      PROVE TypeOK' /\ LoopInv'
  <2>1. c \in Actors
    BY DEF Actors
  <2>2. /\ toClose' = [toClose EXCEPT ![c] = @ \ {r}]
        /\ toClose' \in [Closers -> SUBSET Readers]
    BY <1>9 DEF CloseNext
  <2>3. toClose[c] # {} /\ r \in toClose[c]
    BY <1>9 DEF CloseNext
  <2>4. LoopInv'
    BY <1>9, <2>2, <2>3, ClosersAssumption DEF CloseNext
  <2> QED
    BY <1>9, <2>1, <2>2, <2>4 DEF CloseNext, CloseEnter
<1>10. ASSUME ExtClose PROVE TypeOK' /\ LoopInv'
  BY <1>10, ClosersAssumption DEF ExtClose, TakeReaders
<1>11. ASSUME NEW k \in Kinds, LoopRead(k) PROVE TypeOK' /\ LoopInv'
  <2>0. arrived \in Seq(Kinds) /\ k \in Kinds
    BY <1>11
  <2>1. Append(arrived, k) \in Seq(Kinds) /\ Append(arrived, k) # <<>>
    BY ONLY <2>0
  <2> QED
    BY <1>11, <2>1 DEF LoopRead
<1>12. ASSUME LoopMatch PROVE TypeOK' /\ LoopInv'
  BY <1>12 DEF LoopMatch
<1>13. ASSUME NEW r \in Readers, LoopWriteTest(r) PROVE TypeOK' /\ LoopInv'
  BY <1>13 DEF LoopWriteTest
<1>14. ASSUME LoopWritePut PROVE TypeOK' /\ LoopInv'
  <2>1. writing \in Readers /\ Len(arrived) \in Line
    BY <1>14 DEF LoopWritePut, Line
  <2>2. Append(queue[writing], Len(arrived)) \in Seq(Line \cup {None})
    BY <2>1, AppendKeeps
  <2>3. queue' \in [Readers -> Seq(Line \cup {None})]
    BY <1>14, <2>1, <2>2 DEF LoopWritePut
  <2> QED
    BY <1>14, <2>3 DEF LoopWritePut
<1>15. ASSUME LoopNextLine PROVE TypeOK' /\ LoopInv'
  BY <1>15 DEF LoopNextLine
<1>16. ASSUME LoopStreamEnd PROVE TypeOK' /\ LoopInv'
  BY <1>16 DEF LoopStreamEnd
<1>17. ASSUME LoopClose PROVE TypeOK' /\ LoopInv'
  BY <1>17, ClosersAssumption DEF LoopClose, TakeReaders, CloseDone
<1>18. ASSUME UNCHANGED vars PROVE TypeOK' /\ LoopInv'
  BY <1>18 DEF vars
<1> QED
  BY <1>1, <1>2, <1>3, <1>4, <1>5, <1>6, <1>7, <1>8, <1>9, <1>10, <1>11,
     <1>12, <1>13, <1>14, <1>15, <1>16, <1>17, <1>18
     DEF Next, Consumer, Closing, LoopDispatch

-----------------------------------------------------------------------------
(***************************************************************************)
(* The rest of the invariant, one action at a time.                        *)
(***************************************************************************)
CoreInv == FreshInv /\ CloseInv /\ ClosedUnregistered /\ NoneForgotten

(***************************************************************************)
(* The list has the readers that may be registered at the start, and       *)
(* nobody closes one.                                                      *)
(***************************************************************************)
LEMMA CoreInit == Init => CoreInv
BY DEF Init, CoreInv, FreshInv, CloseInv, ClosedUnregistered, NoneForgotten,
       readerClosed

(***************************************************************************)
(* An actor that is closing nothing enters the close() of an open reader.  *)
(***************************************************************************)
LEMMA EnterStep ==
  ASSUME TypeOK, CloseInv, NEW a \in Actors, NEW r \in Readers,
         CloseEnter(a, r), UNCHANGED queue,
         \A s \in Readers : cpc'[s] \in {"head", "get"} =>
                             cpc[s] \in {"head", "get"}
  PROVE  CloseInv'
<1>1. CASE readerClosed(r)
  <2>1. UNCHANGED <<closeStep, busy, queue>>
    BY <1>1 DEF CloseEnter
  <2> QED
    BY <2>1 DEF CloseInv
<1>2. CASE ~readerClosed(r)
  <2>1. /\ closeStep[r] = "open" /\ busy[a] = NoReader /\ r # NoReader
        /\ closeStep' = [closeStep EXCEPT ![r] = "remove"]
        /\ busy' = [busy EXCEPT ![a] = r]
    BY <1>2, ReadersAssumption DEF CloseEnter, readerClosed
  <2>2. \A b \in Actors : busy[b] # r
    BY <2>1 DEF CloseInv
  <2>3. /\ closeStep'[r] = "remove" /\ busy'[a] = r
        /\ \A b \in Actors : b # a => busy'[b] = busy[b]
        /\ \A s \in Readers : s # r => closeStep'[s] = closeStep[s]
    BY <2>1 DEF TypeOK
  <2>4. \A b \in Actors : busy'[b] # NoReader =>
          closeStep'[busy'[b]] \in {"remove", "put"}
    <3> SUFFICES ASSUME NEW b \in Actors, b # a, busy[b] # NoReader
                 PROVE  closeStep'[busy[b]] \in {"remove", "put"}
      BY <2>3
    <3>1. busy[b] \in Readers /\ busy[b] # r
      BY <2>2 DEF TypeOK
    <3> QED
      BY <2>3, <3>1 DEF CloseInv
  <2>5. \A b, c \in Actors :
          busy'[b] = busy'[c] /\ busy'[b] # NoReader => b = c
    BY <2>2, <2>3 DEF CloseInv
  <2>6. \A s \in Readers : closeStep'[s] \in {"remove", "put"} =>
          \E b \in Actors : busy'[b] = s
    <3> SUFFICES ASSUME NEW s \in Readers, s # r,
                        closeStep[s] \in {"remove", "put"}
                 PROVE  \E b \in Actors : busy'[b] = s
      BY <2>3
    <3>1. PICK b \in Actors : busy[b] = s
      BY DEF CloseInv
    <3>2. b # a
      BY <2>1, <3>1, ReadersAssumption
    <3> QED
      BY <2>3, <3>1, <3>2
  <2>7. \A s \in Readers : closeStep'[s] = "closed" /\ cpc'[s] \in {"head", "get"} =>
          Marked(queue'[s])
    BY <2>3 DEF CloseInv
  <2> QED
    BY <2>4, <2>5, <2>6, <2>7 DEF CloseInv
<1> QED
  BY <1>1, <1>2

(***************************************************************************)
(* Every step keeps the invariant of the readers.                          *)
(***************************************************************************)
LEMMA CoreStep ==
  TypeOK /\ LoopInv /\ CoreInv /\ [Next]_vars => CoreInv'
<1> SUFFICES ASSUME TypeOK, LoopInv, CoreInv, [Next]_vars PROVE CoreInv'
  OBVIOUS
<1> USE DEF CoreInv, loopVars, consumerVars, closerVars
(***************************************************************************)
(* The steps that leave closing, unregistering and the end markers alone.  *)
(***************************************************************************)
<1>0. ASSUME UNCHANGED <<readers, closeStep, busy, toClose>>,
             \A r \in Readers :
               /\ cpc'[r] = "none" => cpc[r] = "none"
               /\ cpc'[r] \in {"head", "get"} => cpc[r] \in {"head", "get"}
               /\ cpc'[r] \in {"head", "get"} =>
                    (Marked(queue[r]) => Marked(queue'[r]))
      PROVE  CoreInv'
  BY <1>0 DEF FreshInv, CloseInv, ClosedUnregistered, NoneForgotten, readerClosed
<1>1. ASSUME NEW r \in Readers, Register(r) PROVE CoreInv'
  BY <1>1 DEF Register, TypeOK, FreshInv, CloseInv, ClosedUnregistered,
              NoneForgotten, readerClosed
<1>2. ASSUME NEW r \in Readers, ReadHead(r) \/ ReadTimeout(r) \/ Abandon(r)
      PROVE  CoreInv'
  BY <1>0, <1>2 DEF ReadHead, ReadTimeout, Abandon, TypeOK
<1>3. ASSUME NEW r \in Readers, ReadGet(r) PROVE CoreInv'
  <2>1. queue[r] \in Seq(Line \cup {None}) /\ queue[r] # <<>>
    BY <1>3 DEF ReadGet, TypeOK
  <2>2. CASE Head(queue[r]) = None
    BY <1>0, <1>3, <2>2 DEF ReadGet, TypeOK
  <2>3. CASE Head(queue[r]) # None
    <3>1. Marked(queue[r]) => Marked(Tail(queue[r]))
      BY <2>1, <2>3, TailKeeps
    <3> QED
      BY <1>0, <1>3, <2>3, <3>1 DEF ReadGet, TypeOK
  <2> QED
    BY <2>2, <2>3
<1>4. ASSUME NEW r \in Readers, ConsumerExit(r) PROVE CoreInv'
  <2>1. r \in Actors
    BY DEF Actors
  <2>2. cpc[r] = "exit" /\ cpc' = [cpc EXCEPT ![r] = "done"]
    BY <1>4 DEF ConsumerExit
  <2>3. CASE r \in Scoped
    <3>1. CloseInv'
      BY <1>4, <2>1, <2>2, <2>3, EnterStep DEF ConsumerExit, TypeOK
    <3> QED
      BY <1>4, <2>2, <2>3, <3>1 DEF ConsumerExit, CloseEnter, TypeOK, FreshInv,
           ClosedUnregistered, NoneForgotten, readerClosed
  <2>4. CASE r \notin Scoped
    BY <1>0, <1>4, <2>2, <2>4 DEF ConsumerExit, TypeOK
  <2> QED
    BY <2>3, <2>4
<1>5. ASSUME NEW a \in Actors, CloseRemove(a) PROVE CoreInv'
  <2>1. busy[a] \in Readers
    BY <1>5 DEF CloseRemove, TypeOK
  <2>2. CloseInv'
    BY <1>5, <2>1 DEF CloseRemove, TypeOK, CloseInv
  <2> QED
    BY <1>5, <2>1, <2>2 DEF CloseRemove, TypeOK, FreshInv, ClosedUnregistered,
         NoneForgotten, readerClosed
<1>6. ASSUME NEW a \in Actors, ClosePut(a) PROVE CoreInv'
  <2>1. busy[a] \in Readers /\ queue[busy[a]] \in Seq(Line \cup {None})
    BY <1>6 DEF ClosePut, TypeOK
  <2>2. Marked(queue'[busy[a]])
    <3>1. queue'[busy[a]] = Append(queue[busy[a]], None)
      BY <1>6, <2>1 DEF ClosePut, TypeOK
    <3>2. Marked(Append(queue[busy[a]], None))
      BY <2>1, AppendKeeps
    <3> QED
      BY <3>1, <3>2
  <2>3. /\ busy' = [busy EXCEPT ![a] = NoReader]
        /\ closeStep' = [closeStep EXCEPT ![busy[a]] = "closed"]
        /\ UNCHANGED <<cpc, readers, toClose>>
        /\ \A s \in Readers : s # busy[a] => queue'[s] = queue[s]
    BY <1>6, <2>1 DEF ClosePut, TypeOK
  <2>4. CloseInv'
    BY <2>1, <2>2, <2>3 DEF TypeOK, CloseInv
  <2> QED
    BY <1>6, <2>1, <2>3, <2>4 DEF ClosePut, TypeOK, FreshInv,
         ClosedUnregistered, NoneForgotten, readerClosed
<1>7. ASSUME NEW c \in Closers, NEW r \in Readers, CloseNext(c, r)
      PROVE  CoreInv'
  <2>1. c \in Actors
    BY DEF Actors
  <2>2. CloseInv'
    BY <1>7, <2>1, EnterStep DEF CloseNext
  <2> QED
    BY <1>7, <2>2 DEF CloseNext, CloseEnter, TypeOK, FreshInv,
         ClosedUnregistered, NoneForgotten, readerClosed
<1>8. ASSUME NEW c \in Closers, toClose[c] = {}, TakeReaders(c)
      PROVE  CoreInv'
  BY <1>8 DEF TakeReaders, TypeOK, FreshInv, CloseInv, ClosedUnregistered,
       NoneForgotten, readerClosed
<1>9. ASSUME ExtClose PROVE CoreInv'
  BY <1>0, <1>8, <1>9 DEF ExtClose, LoopInv
<1>10. ASSUME LoopClose PROVE CoreInv'
  BY <1>0, <1>8, <1>10, ClosersAssumption DEF LoopClose, LoopInv
<1>11. ASSUME NEW k \in Kinds, LoopRead(k) PROVE CoreInv'
  BY <1>0, <1>11 DEF LoopRead
<1>12. ASSUME NEW r \in Readers, LoopMatch \/ LoopWriteTest(r) \/ LoopNextLine
       PROVE  CoreInv'
  BY <1>0, <1>12 DEF LoopMatch, LoopWriteTest, LoopNextLine
<1>13. ASSUME LoopWritePut PROVE CoreInv'
  <2>1. writing \in Readers /\ Len(arrived) \in Line
    BY <1>13 DEF LoopWritePut, Line, TypeOK, LoopInv
  <2>2. Marked(queue[writing]) => Marked(queue'[writing])
    <3>1. /\ queue[writing] \in Seq(Line \cup {None})
          /\ queue'[writing] = Append(queue[writing], Len(arrived))
      BY <1>13, <2>1 DEF LoopWritePut, TypeOK
    <3>2. Marked(queue[writing]) => Marked(Append(queue[writing], Len(arrived)))
      BY <2>1, <3>1, AppendKeeps
    <3> QED
      BY <3>1, <3>2
  <2> QED
    BY <1>0, <1>13, <2>1, <2>2 DEF LoopWritePut, TypeOK
<1>14. ASSUME LoopMatch \/ LoopStreamEnd \/ LoopNextLine \/ UNCHANGED vars
       PROVE  CoreInv'
  BY <1>0, <1>14 DEF LoopMatch, LoopStreamEnd, LoopNextLine, vars
<1> QED
  BY <1>1, <1>2, <1>3, <1>4, <1>5, <1>6, <1>7, <1>9, <1>10, <1>11, <1>12,
     <1>13, <1>14 DEF Next, Consumer, Closing, LoopDispatch

-----------------------------------------------------------------------------
(***************************************************************************)
(* The variables keep their types whatever the threads do.                 *)
(***************************************************************************)
THEOREM TypeCorrect == Spec => []TypeOK
<1>1. TypeOK /\ LoopInv /\ [Next]_vars => (TypeOK /\ LoopInv)'
  BY TypeStep
<1> QED
  BY TypeInit, <1>1, PTL DEF Spec

(***************************************************************************)
(* The inductive invariant.                                                *)
(***************************************************************************)
LEMMA Inductive == Spec => []IInv
<1>1. Init => IInv
  BY TypeInit, CoreInit DEF IInv, CoreInv
<1>2. IInv /\ [Next]_vars => IInv'
  BY TypeStep, CoreStep DEF IInv, CoreInv
<1> QED
  BY <1>1, <1>2, PTL DEF Spec

(***************************************************************************)
(* However many threads run RequestReader.close and FilterReader.close, no *)
(* consumer waits on a closed reader without an end marker there or on its *)
(* way, no reader that was unregistered gets back into the list, and each  *)
(* open reader is in the list or in the share of a close() under way.      *)
(***************************************************************************)
THEOREM NobodyIsStranded == Spec => []NobodyStranded
<1>1. IInv => NoLostWakeup
  <2> SUFFICES ASSUME IInv, NEW r \in Readers, closeStep[r] # "open",
                      cpc[r] \in {"head", "get"}
               PROVE  (\E a \in Actors : busy[a] = r) \/ Marked(queue[r])
    BY DEF NoLostWakeup, readerClosed
  <2>1. CASE closeStep[r] \in {"remove", "put"}
    BY <2>1 DEF IInv, CloseInv
  <2>2. CASE closeStep[r] = "closed"
    BY <2>2 DEF IInv, CloseInv
  <2> QED
    BY <2>1, <2>2 DEF IInv, TypeOK
<1>2. IInv => ClosedUnregistered /\ NoneForgotten
  BY DEF IInv
<1>3. IInv => NobodyStranded
  BY <1>1, <1>2 DEF NobodyStranded
<1> QED
  BY Inductive, <1>3, PTL

-----------------------------------------------------------------------------
(***************************************************************************)
(* The order of the lines.  r is live: registered, its close() not begun.  *)
(***************************************************************************)
Live(r) == cpc[r] # "none" /\ ~readerClosed(r)

(***************************************************************************)
(* A live reader is in the list or in the share of a close() under way,    *)
(* which nobody runs before the flag is set; a reader that read() has not  *)
(* created yet is empty.                                                   *)
(***************************************************************************)
RegInv ==
  /\ \A r \in Readers : Live(r) =>
       r \in readers \/ \E c \in Closers : r \in toClose[c]
  /\ ~closed => \A c \in Closers : toClose[c] = {}
  /\ \A r \in Readers : cpc[r] = "none" => got[r] = <<>> /\ queue[r] = <<>>

(***************************************************************************)
(* r has been given every line it is due but the last one that arrived.    *)
(***************************************************************************)
Caught(r) == \A i \in Due(r) : i < Len(arrived) => i \in DeliveredSet(r)

(***************************************************************************)
(* The line in progress is the last one: it is due to the readers that it  *)
(* is still to be written to and none of them has it, a live reader waits  *)
(* for no other line, and one that was not picked does not wait at all.    *)
(***************************************************************************)
HandOutInv ==
  /\ loopPc # "write" => matched = {}
  /\ \A r \in Readers : since[r] <= Len(arrived)
  /\ loopPc = "copy" => \A r \in Readers :
       since[r] < Len(arrived) /\ Len(arrived) \notin DeliveredSet(r)
  /\ \A r \in Readers : r \in matched \/ writing = r =>
       cpc[r] # "none" /\ Len(arrived) \in Due(r) \ DeliveredSet(r)
  /\ writing # NoReader => writing \notin matched /\ Caught(writing)
  /\ \A r \in Readers : Live(r) => Caught(r)
  /\ \A r \in readers : ~readerClosed(r) /\ ~InProgress(r) =>
       Due(r) \subseteq DeliveredSet(r)

(***************************************************************************)
(* No end marker before close() puts it, and while a write() is under way  *)
(* nothing has been put after it.                                          *)
(***************************************************************************)
LateInv ==
  /\ \A r \in Readers : closeStep[r] # "closed" => ~Marked(queue[r])
  /\ writing # NoReader => \A i \in DOMAIN queue[writing] :
       queue[writing][i] = None => i = Len(queue[writing])

-----------------------------------------------------------------------------
(* What the operations on a queue do to the lines that r has been given.   *)

(***************************************************************************)
(* Yielding a line moves it from the queue to what the consumer has got.   *)
(***************************************************************************)
LEMMA GetLine ==
  ASSUME NEW S, NEW g \in Seq(S), NEW q \in Seq(S), q # <<>>
  PROVE  Append(g, Head(q)) \o Tail(q) = g \o q
OBVIOUS

(***************************************************************************)
(* Taking the end marker out of the queue disturbs no line.                *)
(***************************************************************************)
LEMMA GetMarker ==
  ASSUME NEW S, NEW g \in Seq(S), NEW q \in Seq(S), q # <<>>, Head(q) = None
  PROVE  /\ Lines(g \o Tail(q)) = Lines(g \o q)
         /\ Ascending(g \o q) => Ascending(g \o Tail(q))
<1> DEFINE s == g \o q
           t == g \o Tail(q)
           m == Len(g) + 1
<1>1. /\ s \in Seq(S) /\ t \in Seq(S)
      /\ Len(s) = Len(g) + Len(q)
      /\ Len(q) >= 1
      /\ Len(t) = Len(s) - 1
      /\ m \in 1 .. Len(s)
      /\ s[m] = None
      /\ \A i \in 1 .. Len(g) : t[i] = s[i]
      /\ \A i \in m .. Len(t) : t[i] = s[i + 1]
  OBVIOUS
<1>2. Len(s) \in Nat /\ Len(t) \in Nat /\ Len(g) \in Nat
  BY <1>1
<1> HIDE DEF s, t
<1>3. DOMAIN s = 1 .. Len(s) /\ DOMAIN t = 1 .. Len(t)
  BY <1>1
<1>4. ASSUME NEW i \in 1 .. Len(t)
      PROVE  t[i] = s[IF i < m THEN i ELSE i + 1]
  <2>1. CASE i < m
    <3>1. i \in 1 .. Len(g)
      BY <1>2, <2>1
    <3> QED
      BY <1>1, <2>1, <3>1
  <2>2. CASE ~(i < m)
    <3>1. i \in m .. Len(t)
      BY <1>2, <2>2
    <3> QED
      BY <1>1, <2>2, <3>1
  <2> QED
    BY <2>1, <2>2
<1>5. Lines(t) \subseteq Lines(s)
  <2> SUFFICES ASSUME NEW i \in 1 .. Len(t), t[i] # None
               PROVE  \E j \in 1 .. Len(s) : s[j] = t[i]
    BY <1>3 DEF Lines
  <2>1. (IF i < m THEN i ELSE i + 1) \in 1 .. Len(s)
    BY <1>1, <1>2
  <2> QED
    BY <1>4, <2>1
<1>6. Lines(s) \subseteq Lines(t)
  <2> SUFFICES ASSUME NEW i \in 1 .. Len(s), s[i] # None
               PROVE  \E j \in 1 .. Len(t) : t[j] = s[i]
    BY <1>3 DEF Lines
  <2>1. i # m
    BY <1>1
  <2>2. CASE i < m
    <3>1. i \in 1 .. Len(g) /\ i \in 1 .. Len(t)
      BY <1>1, <1>2, <2>2
    <3> QED
      BY <1>1, <3>1
  <2>3. CASE i > m
    <3>1. PICK k \in m .. Len(t) : k + 1 = i
      <4>1. i - 1 \in m .. Len(t) /\ (i - 1) + 1 = i
        BY <1>1, <1>2, <2>3
      <4> QED
        BY <4>1
    <3>2. t[k] = s[i] /\ k \in 1 .. Len(t)
      BY <1>1, <1>2, <3>1
    <3> QED
      BY <3>2
  <2> QED
    BY <1>1, <1>2, <2>1, <2>2, <2>3
<1>7. ASSUME Ascending(s) PROVE Ascending(t)
  <2> SUFFICES ASSUME NEW i \in 1 .. Len(t), NEW j \in 1 .. Len(t), i < j,
                      t[i] # None, t[j] # None
               PROVE  t[i] < t[j]
    BY <1>3 DEF Ascending
  <2> DEFINE f(x) == IF x < m THEN x ELSE x + 1
  <2>1. f(i) \in 1 .. Len(s) /\ f(j) \in 1 .. Len(s) /\ f(i) < f(j)
    BY <1>1, <1>2
  <2>2. t[i] = s[f(i)] /\ t[j] = s[f(j)]
    BY <1>4
  <2> HIDE DEF f
  <2> QED
    BY <1>3, <1>7, <2>1, <2>2 DEF Ascending
<1>8. Lines(t) = Lines(s) /\ (Ascending(s) => Ascending(t))
  BY <1>5, <1>6, <1>7
<1> QED
  BY <1>8 DEF s, t

(***************************************************************************)
(* Putting the end marker disturbs no line either.                         *)
(***************************************************************************)
LEMMA PutMarker ==
  ASSUME NEW S, NEW g \in Seq(S), NEW q \in Seq(S), None \in S
  PROVE  /\ Lines(g \o Append(q, None)) = Lines(g \o q)
         /\ Ascending(g \o q) => Ascending(g \o Append(q, None))
<1> DEFINE s == g \o q
<1>1. s \in Seq(S) /\ g \o Append(q, None) = Append(s, None)
  OBVIOUS
<1> HIDE DEF s
<1> DEFINE t == Append(s, None)
<1>2. /\ Len(t) = Len(s) + 1 /\ Len(s) \in Nat
      /\ DOMAIN s = 1 .. Len(s) /\ DOMAIN t = 1 .. Len(t)
      /\ \A i \in 1 .. Len(s) : t[i] = s[i]
      /\ t[Len(s) + 1] = None
  BY <1>1
<1> HIDE DEF t
<1>3. \A i \in DOMAIN t : t[i] # None => i \in DOMAIN s /\ t[i] = s[i]
  BY <1>2
<1>4. \A i \in DOMAIN s : i \in DOMAIN t /\ t[i] = s[i]
  BY <1>2
<1>5. Lines(t) = Lines(s) /\ (Ascending(s) => Ascending(t))
  BY <1>3, <1>4 DEF Lines, Ascending
<1> QED
  BY <1>1, <1>5 DEF s, t

(***************************************************************************)
(* A line later than those already given is given last.                    *)
(***************************************************************************)
LEMMA PutLine ==
  ASSUME NEW S, NEW g \in Seq(S), NEW q \in Seq(S), NEW n \in S, n # None,
         \A i \in Lines(g \o q) : i < n
  PROVE  /\ Lines(g \o Append(q, n)) = Lines(g \o q) \cup {n}
         /\ Ascending(g \o q) => Ascending(g \o Append(q, n))
<1> DEFINE s == g \o q
<1>1. s \in Seq(S) /\ g \o Append(q, n) = Append(s, n)
  OBVIOUS
<1>0. \A i \in Lines(s) : i < n
  OBVIOUS
<1> HIDE DEF s
<1> DEFINE t == Append(s, n)
<1>2. /\ Len(t) = Len(s) + 1 /\ Len(s) \in Nat
      /\ DOMAIN s = 1 .. Len(s) /\ DOMAIN t = 1 .. Len(t)
      /\ \A i \in 1 .. Len(s) : t[i] = s[i]
      /\ t[Len(s) + 1] = n
  BY <1>1
<1> HIDE DEF t
<1>3. \A i \in DOMAIN t : \/ i \in DOMAIN s /\ t[i] = s[i]
                          \/ i = Len(s) + 1 /\ t[i] = n
  BY <1>2
<1>4. \A i \in DOMAIN s : i \in DOMAIN t /\ t[i] = s[i]
  BY <1>2
<1>5. Lines(t) = Lines(s) \cup {n}
  <2>1. Len(s) + 1 \in DOMAIN t
    BY <1>2
  <2> QED
    BY <1>2, <1>3, <1>4, <2>1 DEF Lines
<1>6. ASSUME Ascending(s) PROVE Ascending(t)
  <2> SUFFICES ASSUME NEW i \in DOMAIN t, NEW j \in DOMAIN t, i < j,
                      t[i] # None, t[j] # None
               PROVE  t[i] < t[j]
    BY DEF Ascending
  <2>1. i \in DOMAIN s /\ t[i] = s[i]
    BY <1>2, <1>3
  <2>2. CASE j \in DOMAIN s /\ t[j] = s[j]
    BY <1>6, <2>1, <2>2 DEF Ascending
  <2>3. CASE t[j] = n
    BY <1>0, <2>1, <2>3 DEF Lines
  <2> QED
    BY <1>3, <2>2, <2>3
<1> QED
  BY <1>1, <1>5, <1>6 DEF s, t

(***************************************************************************)
(* Got and queued are sequences of the same things, and lines are numbers. *)
(***************************************************************************)
LEMMA DeliveredType ==
  ASSUME TypeOK, NEW r \in Readers
  PROVE  /\ got[r] \in Seq(Line \cup {None})
         /\ queue[r] \in Seq(Line \cup {None})
         /\ Delivered(r) \in Seq(Line \cup {None})
         /\ DeliveredSet(r) \subseteq Nat
<1>1. got[r] \in Seq(Line) /\ queue[r] \in Seq(Line \cup {None})
  BY DEF TypeOK
<1>2. got[r] \in Seq(Line \cup {None})
  BY <1>1
<1>3. Delivered(r) \in Seq(Line \cup {None})
  BY <1>1, <1>2 DEF Delivered
<1> QED
  BY <1>1, <1>2, <1>3 DEF DeliveredSet, Lines, Line

-----------------------------------------------------------------------------
(***************************************************************************)
(* Registration.                                                           *)
(***************************************************************************)
LEMMA RegStep ==
  TypeOK /\ LoopInv /\ CoreInv /\ RegInv /\ HandOutInv /\ [Next]_vars => RegInv'
<1> SUFFICES ASSUME TypeOK, LoopInv, CoreInv, RegInv, HandOutInv,
                    [Next]_vars
             PROVE  RegInv'
  OBVIOUS
<1> USE DEF loopVars, consumerVars, closerVars, Live, readerClosed
(***************************************************************************)
(* The steps that only close readers, and queue and yield for others than  *)
(* the readers that do not exist yet.                                      *)
(***************************************************************************)
<1>0. ASSUME UNCHANGED <<closed, readers, toClose>>,
             \A r \in Readers :
               /\ cpc'[r] = "none" <=> cpc[r] = "none"
               /\ closeStep'[r] = "open" => closeStep[r] = "open"
               /\ cpc[r] = "none" => got'[r] = got[r] /\ queue'[r] = queue[r]
      PROVE  RegInv'
  BY <1>0 DEF RegInv
<1>1. ASSUME NEW r \in Readers, Register(r) PROVE RegInv'
  BY <1>1 DEF Register, RegInv, TypeOK
<1>2. ASSUME NEW r \in Readers, ReadHead(r) \/ ReadTimeout(r) \/ Abandon(r)
      PROVE  RegInv'
  BY <1>0, <1>2 DEF ReadHead, ReadTimeout, Abandon, TypeOK
<1>3. ASSUME NEW r \in Readers, ReadGet(r) PROVE RegInv'
  BY <1>0, <1>3 DEF ReadGet, TypeOK
<1>4. ASSUME NEW r \in Readers, ConsumerExit(r) PROVE RegInv'
  BY <1>0, <1>4 DEF ConsumerExit, CloseEnter, TypeOK
<1>5. ASSUME NEW a \in Actors, CloseRemove(a) PROVE RegInv'
  BY <1>5 DEF CloseRemove, RegInv, TypeOK
<1>6. ASSUME NEW a \in Actors, ClosePut(a) PROVE RegInv'
  <2>1. busy[a] \in Readers /\ cpc[busy[a]] # "none"
    BY <1>6 DEF ClosePut, TypeOK, CoreInv, FreshInv
  <2> QED
    BY <1>0, <1>6, <2>1 DEF ClosePut, TypeOK
<1>7. ASSUME NEW c \in Closers, NEW r \in Readers, CloseNext(c, r)
      PROVE  RegInv'
  <2>1. closeStep'[r] # "open"
    BY <1>7 DEF CloseNext, CloseEnter, TypeOK
  <2>2. \A s \in Readers : closeStep'[s] = "open" => closeStep[s] = "open" /\ s # r
    BY <1>7, <2>1 DEF CloseNext, CloseEnter, TypeOK
  <2>3. /\ \A d \in Closers : toClose'[d] \subseteq toClose[d]
        /\ \A s \in Readers, d \in Closers :
             s # r => (s \in toClose[d] => s \in toClose'[d])
        /\ UNCHANGED <<closed, readers, queue, got, cpc>>
    BY <1>7 DEF CloseNext, TypeOK
  <2> QED
    BY <2>2, <2>3 DEF RegInv
<1>8. ASSUME NEW c \in Closers, toClose[c] = {}, TakeReaders(c)
      PROVE  RegInv'
  BY <1>8 DEF TakeReaders, TypeOK, RegInv
<1>9. ASSUME ExtClose PROVE RegInv'
  BY <1>0, <1>8, <1>9 DEF ExtClose, LoopInv
<1>10. ASSUME LoopClose PROVE RegInv'
  BY <1>0, <1>8, <1>10, ClosersAssumption DEF LoopClose, LoopInv
<1>11. ASSUME NEW k \in Kinds, LoopRead(k) PROVE RegInv'
  BY <1>0, <1>11 DEF LoopRead
<1>12. ASSUME NEW r \in Readers, LoopMatch \/ LoopWriteTest(r) \/ LoopNextLine
       PROVE  RegInv'
  BY <1>0, <1>12 DEF LoopMatch, LoopWriteTest, LoopNextLine
<1>13. ASSUME LoopWritePut PROVE RegInv'
  <2>1. writing \in Readers /\ cpc[writing] # "none"
    BY <1>13 DEF LoopWritePut, TypeOK, HandOutInv
  <2> QED
    BY <1>0, <1>13, <2>1 DEF LoopWritePut, TypeOK
<1>14. ASSUME LoopMatch \/ LoopStreamEnd \/ LoopNextLine \/ UNCHANGED vars
       PROVE  RegInv'
  BY <1>0, <1>14 DEF LoopMatch, LoopStreamEnd, LoopNextLine, vars
<1> QED
  BY <1>1, <1>2, <1>3, <1>4, <1>5, <1>6, <1>7, <1>9, <1>10, <1>11, <1>12,
     <1>13, <1>14 DEF Next, Consumer, Closing, LoopDispatch

-----------------------------------------------------------------------------
(* What the readers have been given.                                       *)

HandOut == HandOutInv /\ InOrder

(***************************************************************************)
(* A step that hands nothing out, nor changes the lines anyone was given,  *)
(* at most closing readers.                                                *)
(***************************************************************************)
LEMMA HandOutFrame ==
  ASSUME TypeOK, HandOut,
         UNCHANGED <<arrived, since, matched, writing>>,
         loopPc' = loopPc \/ {loopPc, loopPc'} \cap {"copy", "write"} = {},
         readers' \subseteq readers,
         \A r \in Readers :
           /\ DeliveredSet(r)' = DeliveredSet(r)
           /\ Ascending(Delivered(r)) => Ascending(Delivered(r)')
           /\ cpc[r] # "none" <=> cpc'[r] # "none"
           /\ closeStep'[r] = "open" => closeStep[r] = "open"
  PROVE  HandOut'
<1>1. \A r \in Readers : Due(r)' = Due(r)
  BY DEF Due
<1>2. \A r \in Readers : InProgress(r)' <=> InProgress(r)
  BY DEF InProgress
<1>3. \A r \in Readers : Caught(r) => Caught(r)'
  BY <1>1 DEF Caught
<1>4. \A r \in Readers : Live(r)' => Live(r)
  BY DEF Live, readerClosed
<1>5. InOrder'
  BY <1>1 DEF HandOut, InOrder
<1>6. HandOutInv'
  <2>1. readers \subseteq Readers /\ writing \in Readers \cup {NoReader}
    BY DEF TypeOK
  <2>2. /\ loopPc' # "write" => matched' = {}
        /\ \A r \in Readers : since'[r] <= Len(arrived')
        /\ loopPc' = "copy" => \A r \in Readers :
             since'[r] < Len(arrived') /\ Len(arrived') \notin DeliveredSet(r)'
    BY DEF HandOut, HandOutInv
  <2>3. \A r \in Readers : r \in matched' \/ writing' = r =>
          cpc'[r] # "none" /\ Len(arrived') \in Due(r)' \ DeliveredSet(r)'
    BY <1>1 DEF HandOut, HandOutInv
  <2>4. writing' # NoReader => writing' \notin matched' /\ Caught(writing)'
    BY <1>3, <2>1 DEF HandOut, HandOutInv
  <2>5. \A r \in Readers : Live(r)' => Caught(r)'
    BY <1>3, <1>4 DEF HandOut, HandOutInv
  <2>6. \A r \in readers' : ~readerClosed(r)' /\ ~InProgress(r)' =>
          Due(r)' \subseteq DeliveredSet(r)'
    BY <1>1, <1>2, <2>1 DEF HandOut, HandOutInv, readerClosed
  <2> QED
    BY <2>2, <2>3, <2>4, <2>5, <2>6 DEF HandOutInv, Caught, Due, DeliveredSet,
       Delivered
<1> QED
  BY <1>5, <1>6 DEF HandOut

(***************************************************************************)
(* The same, when no queue and nothing that was yielded changes either.    *)
(***************************************************************************)
LEMMA QuietFrame ==
  ASSUME TypeOK, HandOut,
         UNCHANGED <<arrived, since, matched, writing, queue, got>>,
         loopPc' = loopPc \/ {loopPc, loopPc'} \cap {"copy", "write"} = {},
         readers' \subseteq readers,
         \A r \in Readers :
           /\ cpc[r] # "none" <=> cpc'[r] # "none"
           /\ closeStep'[r] = "open" => closeStep[r] = "open"
  PROVE  HandOut'
<1>1. \A r \in Readers : DeliveredSet(r)' = DeliveredSet(r)
                          /\ Delivered(r)' = Delivered(r)
  BY DEF DeliveredSet, Delivered
<1> QED
  BY <1>1, HandOutFrame

(***************************************************************************)
(* A reader that registers while a line is between the list's copy and its *)
(* arrival is due that line; otherwise it is due nothing yet.              *)
(***************************************************************************)
LEMMA RegisterHandOut ==
  ASSUME TypeOK, LoopInv, FreshInv, RegInv, HandOut,
         NEW r \in Readers, Register(r)
  PROVE  HandOut'
<1> DEFINE n == Len(arrived)
<1>0. n \in Nat /\ (loopPc = "copy" => n >= 1)
  BY DEF TypeOK, LoopInv
<1>1. /\ cpc[r] = "none" /\ closeStep[r] = "open" /\ r \notin readers
      /\ got[r] = <<>> /\ queue[r] = <<>>
      /\ UNCHANGED <<closeStep, queue, got, loopPc, arrived, matched, writing>>
      /\ readers' = readers \cup {r}
      /\ cpc' = [cpc EXCEPT ![r] = "head"]
      /\ cpc'[r] # "none"
      /\ \A s \in Readers : s # r => cpc'[s] = cpc[s] /\ since'[s] = since[s]
  BY DEF Register, FreshInv, RegInv, loopVars, TypeOK
<1>2. since'[r] = IF loopPc = "copy" THEN n - 1 ELSE n
  BY DEF Register, TypeOK
<1>3. \A s \in Readers : /\ DeliveredSet(s)' = DeliveredSet(s)
                         /\ Delivered(s)' = Delivered(s)
                         /\ readerClosed(s)' <=> readerClosed(s)
                         /\ InProgress(s)' <=> InProgress(s)
  BY <1>1 DEF DeliveredSet, Delivered, readerClosed, InProgress
<1>4. DeliveredSet(r) = {}
  <2>1. <<>> \o <<>> = <<>>
    OBVIOUS
  <2> QED
    BY <1>1, <2>1 DEF DeliveredSet, Delivered, Lines
<1>5. \A s \in Readers : s # r => Due(s)' = Due(s)
  BY <1>1 DEF Due
<1>6. \A i \in Due(r)' : i = n /\ loopPc = "copy"
  BY <1>0, <1>1, <1>2 DEF Due
<1>7. r \notin matched /\ writing # r
  BY <1>1 DEF HandOut, HandOutInv
<1>8. InOrder'
  <2>1. \A s \in Readers : s # r =>
          /\ Ascending(Delivered(s))'
          /\ DeliveredSet(s)' \subseteq Due(s)'
          /\ \A j \in DeliveredSet(s)', i \in Due(s)' :
               i < j => i \in DeliveredSet(s)'
    BY <1>3, <1>5 DEF HandOut, InOrder
  <2>2. Ascending(Delivered(r))'
    BY <1>3 DEF HandOut, InOrder
  <2>3. DeliveredSet(r)' = {}
    BY <1>3, <1>4
  <2> QED
    BY <2>1, <2>2, <2>3 DEF InOrder
<1>9. \A s \in Readers : Caught(s)' \/ (s # r /\ (Caught(s)' <=> Caught(s)))
  <2>1. Caught(r)'
    BY <1>0, <1>1, <1>6 DEF Caught
  <2>2. \A s \in Readers : s # r => (Caught(s)' <=> Caught(s))
    BY <1>1, <1>3, <1>5 DEF Caught
  <2> QED
    BY <2>1, <2>2
<1>10. HandOutInv'
  <2>0. readers \subseteq Readers /\ writing \in Readers \cup {NoReader}
    BY DEF TypeOK
  <2>1. /\ loopPc' # "write" => matched' = {}
        /\ \A s \in Readers : since'[s] <= Len(arrived')
    BY <1>0, <1>1, <1>2 DEF HandOut, HandOutInv
  <2>2. loopPc' = "copy" => \A s \in Readers :
          since'[s] < Len(arrived') /\ Len(arrived') \notin DeliveredSet(s)'
    BY <1>0, <1>1, <1>2, <1>3 DEF HandOut, HandOutInv
  <2>3. \A s \in Readers : s \in matched' \/ writing' = s =>
          cpc'[s] # "none" /\ Len(arrived') \in Due(s)' \ DeliveredSet(s)'
    BY <1>1, <1>3, <1>5, <1>7 DEF HandOut, HandOutInv
  <2>4. writing' # NoReader => writing' \notin matched' /\ Caught(writing)'
    BY <1>1, <1>7, <1>9, <2>0 DEF HandOut, HandOutInv
  <2>5. \A s \in Readers : Live(s)' => Caught(s)'
    BY <1>1, <1>3, <1>9 DEF HandOut, HandOutInv, Live
  <2>6. \A s \in readers' : ~readerClosed(s)' /\ ~InProgress(s)' =>
          Due(s)' \subseteq DeliveredSet(s)'
    BY <1>1, <1>3, <1>5, <1>6, <2>0 DEF HandOut, HandOutInv, InProgress
  <2> QED
    BY <2>1, <2>2, <2>3, <2>4, <2>5, <2>6 DEF HandOutInv, Caught, Due,
       DeliveredSet, Delivered
<1> QED
  BY <1>8, <1>10 DEF HandOut

(***************************************************************************)
(* A line is yielded by the stream: everybody in the list has everything   *)
(* that came before it.                                                    *)
(***************************************************************************)
LEMMA ReadHandOut ==
  ASSUME TypeOK, LoopInv, RegInv, HandOut, NEW k \in Kinds, LoopRead(k)
  PROVE  HandOut'
<1>1. CASE closed
  <2>1. UNCHANGED <<arrived, since, matched, writing, queue, got, readers, cpc,
                    closeStep>>
        /\ {loopPc, loopPc'} \cap {"copy", "write"} = {}
    BY <1>1 DEF LoopRead, consumerVars
  <2> QED
    BY <2>1, QuietFrame
<1>2. CASE ~closed
  <2> DEFINE n == Len(arrived)
  <2>1. /\ loopPc = "read" /\ loopPc' = "copy" /\ arrived' = Append(arrived, k)
        /\ UNCHANGED <<closed, readers, closeStep, queue, got, cpc, since,
                       matched, writing, toClose>>
    BY <1>2 DEF LoopRead, consumerVars, closerVars
  <2>2. /\ n \in Nat /\ Len(arrived') = n + 1
        /\ \A i \in 1 .. n : arrived'[i] = arrived[i]
    <3>1. arrived \in Seq(Kinds)
      BY DEF TypeOK
    <3> QED
      BY <2>1, <3>1
  <2>3. matched = {} /\ writing = NoReader
    BY <2>1 DEF HandOut, HandOutInv, LoopInv
  <2>4. \A r \in Readers : DeliveredSet(r)' = DeliveredSet(r)
                           /\ Delivered(r)' = Delivered(r)
    BY <2>1 DEF DeliveredSet, Delivered
  <2>5. \A r \in Readers : Due(r) \subseteq 1 .. n
    BY <2>2 DEF Due, TypeOK
  <2>6. \A r \in Readers : Due(r) \subseteq Due(r)'
    <3> SUFFICES ASSUME NEW r \in Readers, NEW i \in Due(r) PROVE i \in Due(r)'
      OBVIOUS
    <3>1. i \in since[r] + 1 .. n /\ arrived[i] \in Wants[r] /\ i \in 1 .. n
      BY <2>5 DEF Due
    <3>2. i \in since[r] + 1 .. n + 1
      BY <2>2, <3>1 DEF TypeOK
    <3> QED
      BY <2>1, <2>2, <3>1, <3>2 DEF Due
  <2>7. \A r \in Readers : \A i \in Due(r)' : i \in Due(r) \/ i = n + 1
    <3> SUFFICES ASSUME NEW r \in Readers, NEW i \in Due(r)', i # n + 1
                 PROVE  i \in Due(r)
      OBVIOUS
    <3>1. i \in since[r] + 1 .. n + 1 /\ arrived'[i] \in Wants[r]
      BY <2>1, <2>2 DEF Due
    <3>2. i \in since[r] + 1 .. n /\ i \in 1 .. n
      BY <2>2, <3>1 DEF TypeOK
    <3> QED
      BY <2>2, <3>1, <3>2 DEF Due
  <2>8. \A r \in Readers : DeliveredSet(r) \subseteq 1 .. n
    BY <2>5 DEF HandOut, InOrder
  <2>9. InOrder'
    <3>1. \A r \in Readers : Ascending(Delivered(r))'
      BY <2>4 DEF HandOut, InOrder
    <3>2. \A r \in Readers : DeliveredSet(r)' \subseteq Due(r)'
      BY <2>4, <2>6 DEF HandOut, InOrder
    <3>3. ASSUME NEW r \in Readers, NEW j \in DeliveredSet(r), NEW i \in Due(r)',
                 i < j
          PROVE  i \in DeliveredSet(r)
      <4>1. i # n + 1
        BY <2>2, <2>8, <3>3
      <4> QED
        BY <2>7, <3>3, <4>1 DEF HandOut, InOrder
    <3> QED
      BY <2>4, <3>1, <3>2, <3>3 DEF InOrder
  <2>10. ASSUME NEW r \in Readers, Live(r) PROVE Due(r) \subseteq DeliveredSet(r)
    <3>1. r \in readers
      BY <1>2, <2>10 DEF RegInv
    <3>2. ~InProgress(r)
      <4>1. r # NoReader
        BY ReadersAssumption
      <4> QED
        BY <2>1, <2>3, <4>1 DEF InProgress
    <3> QED
      BY <2>10, <3>1, <3>2 DEF HandOut, HandOutInv, Live
  <2>11. HandOutInv'
    <3>1. \A r \in Readers : since[r] <= n /\ since[r] < n + 1 /\ since[r] <= n + 1
      BY <2>2 DEF HandOut, HandOutInv, TypeOK
    <3>2. \A r \in Readers : n + 1 \notin DeliveredSet(r)
      BY <2>2, <2>8
    <3>3. \A r \in Readers : Live(r)' => Caught(r)'
      BY <2>1, <2>2, <2>4, <2>7, <2>10 DEF Caught, Live, readerClosed
    <3>4. readers' \subseteq Readers
      BY <2>1 DEF TypeOK
    <3>5. \A r \in Readers : InProgress(r)'
      BY <2>1 DEF InProgress
    <3>6. \A r \in Readers : r \notin matched' /\ writing' # r
      BY <2>1, <2>3, ReadersAssumption
    <3> QED
      BY <2>1, <2>2, <2>3, <2>4, <3>1, <3>2, <3>3, <3>4, <3>5, <3>6
         DEF HandOutInv, Caught, Due, DeliveredSet, Delivered
  <2> QED
    BY <2>9, <2>11 DEF HandOut
<1> QED
  BY <1>1, <1>2

(***************************************************************************)
(* The list is copied: who is not picked is not due the line.              *)
(***************************************************************************)
LEMMA MatchHandOut ==
  ASSUME TypeOK, LoopInv, FreshInv, HandOut, LoopMatch
  PROVE  HandOut'
<1> DEFINE n == Len(arrived)
<1>1. /\ loopPc = "copy" /\ loopPc' = "write"
      /\ matched' = {r \in readers : arrived[n] \in Wants[r]}
      /\ UNCHANGED <<readers, closeStep, queue, got, cpc, since, arrived, writing>>
      /\ writing = NoReader /\ readers \subseteq Readers
      /\ n \in Nat /\ n >= 1
  BY DEF LoopMatch, consumerVars, LoopInv, TypeOK
<1>2. \A r \in Readers : /\ DeliveredSet(r)' = DeliveredSet(r)
                         /\ Delivered(r)' = Delivered(r)
                         /\ Due(r)' = Due(r)
  BY <1>1 DEF DeliveredSet, Delivered, Due
<1>3. \A r \in Readers : n \in Due(r) <=> arrived[n] \in Wants[r]
  <2> SUFFICES ASSUME NEW r \in Readers
               PROVE  n \in since[r] + 1 .. n
    BY DEF Due
  <2>1. since[r] \in Nat /\ since[r] < n
    BY <1>1 DEF HandOut, HandOutInv, TypeOK
  <2> QED
    BY <1>1, <2>1
<1>4. \A r \in Readers : /\ Caught(r)' <=> Caught(r)
                         /\ Live(r)' <=> Live(r)
                         /\ readerClosed(r)' <=> readerClosed(r)
  BY <1>1, <1>2 DEF Caught, Live, readerClosed
<1>5. \A r \in readers : cpc[r] # "none"
  BY <1>1 DEF FreshInv
<1>6. ASSUME NEW r \in readers, ~readerClosed(r), ~InProgress(r)'
      PROVE  Due(r) \subseteq DeliveredSet(r)
  <2>1. r \notin matched'
    BY <1>6 DEF InProgress
  <2>2. n \notin Due(r)
    BY <1>1, <1>3, <2>1
  <2>3. Caught(r)
    BY <1>1, <1>5, <1>6 DEF HandOut, HandOutInv, Live
  <2>4. \A i \in Due(r) : i \in Nat /\ i <= n
    BY <1>1 DEF Due, TypeOK
  <2>5. \A i \in Due(r) : i < n
    BY <1>1, <2>2, <2>4
  <2> QED
    BY <2>3, <2>5 DEF Caught
<1>7. InOrder'
  BY <1>2 DEF HandOut, InOrder
<1>8. HandOutInv'
  <2>1. \A r \in Readers : since'[r] <= Len(arrived')
    BY <1>1 DEF HandOut, HandOutInv
  <2>2. \A r \in Readers : r \in matched' \/ writing' = r =>
          cpc'[r] # "none" /\ Len(arrived') \in Due(r)' \ DeliveredSet(r)'
    <3> SUFFICES ASSUME NEW r \in Readers, r \in matched' \/ writing' = r
                 PROVE  cpc[r] # "none" /\ n \in Due(r) \ DeliveredSet(r)
      BY <1>1, <1>2
    <3>1. r \in readers /\ arrived[n] \in Wants[r]
      BY <1>1, ReadersAssumption
    <3> QED
      BY <1>1, <1>3, <1>5, <3>1 DEF HandOut, HandOutInv
  <2>3. \A r \in Readers : Live(r)' => Caught(r)'
    BY <1>4 DEF HandOut, HandOutInv
  <2>4. \A r \in readers' : ~readerClosed(r)' /\ ~InProgress(r)' =>
          Due(r)' \subseteq DeliveredSet(r)'
    BY <1>1, <1>2, <1>4, <1>6
  <2> QED
    BY <1>1, <2>1, <2>2, <2>3, <2>4 DEF HandOutInv, Caught, Due, DeliveredSet,
       Delivered
<1> QED
  BY <1>7, <1>8 DEF HandOut

(***************************************************************************)
(* write() passes the closed test, or leaves a closed reader out.          *)
(***************************************************************************)
LEMMA WriteTestHandOut ==
  ASSUME TypeOK, LoopInv, HandOut, NEW r \in Readers, LoopWriteTest(r)
  PROVE  HandOut'
<1>1. /\ loopPc = "write" /\ loopPc' = loopPc
      /\ writing = NoReader /\ r \in matched
      /\ matched' = matched \ {r}
      /\ writing' = IF readerClosed(r) THEN NoReader ELSE r
      /\ UNCHANGED <<readers, closeStep, queue, got, cpc, since, arrived>>
      /\ readers \subseteq Readers
  BY DEF LoopWriteTest, consumerVars, TypeOK
<1>2. \A s \in Readers : /\ DeliveredSet(s)' = DeliveredSet(s)
                         /\ Delivered(s)' = Delivered(s)
                         /\ Due(s)' = Due(s)
  BY <1>1 DEF DeliveredSet, Delivered, Due
<1>3. \A s \in Readers : /\ Caught(s)' <=> Caught(s)
                         /\ Live(s)' <=> Live(s)
                         /\ readerClosed(s)' <=> readerClosed(s)
  BY <1>1, <1>2 DEF Caught, Live, readerClosed
<1>4. InOrder'
  BY <1>2 DEF HandOut, InOrder
<1>5. \A s \in Readers : ~readerClosed(s) /\ ~InProgress(s)' => ~InProgress(s)
  BY <1>1, ReadersAssumption DEF InProgress
<1>6. HandOutInv'
  <2>1. /\ loopPc' = "write"
        /\ \A s \in Readers : since'[s] <= Len(arrived')
    BY <1>1 DEF HandOut, HandOutInv
  <2>2. \A s \in Readers : s \in matched' \/ writing' = s =>
          cpc'[s] # "none" /\ Len(arrived') \in Due(s)' \ DeliveredSet(s)'
    BY <1>1, <1>2, ReadersAssumption DEF HandOut, HandOutInv
  <2>3. writing' # NoReader => writing' \notin matched' /\ Caught(r)' /\ writing' = r
    <3>1. cpc[r] # "none"
      BY <1>1 DEF HandOut, HandOutInv
    <3>2. ~readerClosed(r) => Caught(r)
      BY <3>1 DEF HandOut, HandOutInv, Live
    <3> QED
      BY <1>1, <1>3, <3>2
  <2>4. \A s \in Readers : Live(s)' => Caught(s)'
    BY <1>3 DEF HandOut, HandOutInv
  <2>5. \A s \in readers' : ~readerClosed(s)' /\ ~InProgress(s)' =>
          Due(s)' \subseteq DeliveredSet(s)'
    BY <1>1, <1>2, <1>3, <1>5 DEF HandOut, HandOutInv
  <2> QED
    BY <2>1, <2>2, <2>3, <2>4, <2>5 DEF HandOutInv, Caught, Due, DeliveredSet,
       Delivered
<1> QED
  BY <1>4, <1>6 DEF HandOut

(***************************************************************************)
(* The put: the reader has every earlier line, and this one is the last.   *)
(***************************************************************************)
LEMMA WritePutHandOut ==
  ASSUME TypeOK, LoopInv, HandOut, LoopWritePut
  PROVE  HandOut'
<1> DEFINE n == Len(arrived)
<1>0. PICK w \in Readers : w = writing
  BY DEF LoopWritePut, TypeOK
<1>1. /\ w \in Readers /\ w # NoReader /\ loopPc = "write"
      /\ queue' = [queue EXCEPT ![w] = Append(@, n)]
      /\ writing' = NoReader
      /\ UNCHANGED <<readers, closeStep, got, cpc, since, arrived, loopPc, matched>>
      /\ readers \subseteq Readers
      /\ n \in Nat /\ arrived # <<>>
  BY <1>0 DEF LoopWritePut, consumerVars, TypeOK, LoopInv
<1>2. n \in Line
  BY <1>1 DEF Line, TypeOK
<1>3. /\ n \in Due(w) /\ n \notin DeliveredSet(w) /\ w \notin matched /\ Caught(w)
  BY <1>0, <1>1 DEF HandOut, HandOutInv
<1>4. \A s \in Readers : Due(s)' = Due(s)
  BY <1>1 DEF Due
<1>5. \A s \in Readers : s # w => /\ DeliveredSet(s)' = DeliveredSet(s)
                                  /\ Delivered(s)' = Delivered(s)
  BY <1>1 DEF DeliveredSet, Delivered, TypeOK
<1>6. \A s \in Readers : \A i \in Due(s) : i \in Nat /\ i <= n
  BY <1>1 DEF Due, TypeOK
<1>7. \A i \in DeliveredSet(w) : i < n
  BY <1>1, <1>3, <1>6 DEF HandOut, InOrder
<1>8. /\ DeliveredSet(w)' = DeliveredSet(w) \cup {n}
      /\ Ascending(Delivered(w))'
  <2>1. /\ got[w] \in Seq(Line \cup {None}) /\ queue[w] \in Seq(Line \cup {None})
        /\ n \in Line \cup {None} /\ n # None
    BY <1>1, <1>2, DeliveredType, NoneAssumption
  <2>2. \A i \in Lines(got[w] \o queue[w]) : i < n
    BY <1>7 DEF DeliveredSet, Delivered
  <2>3. /\ Lines(got[w] \o Append(queue[w], n)) = Lines(got[w] \o queue[w]) \cup {n}
        /\ Ascending(got[w] \o queue[w]) => Ascending(got[w] \o Append(queue[w], n))
    BY <2>1, <2>2, PutLine
  <2>4. queue'[w] = Append(queue[w], n)
    BY <1>1 DEF TypeOK
  <2>5. Ascending(got[w] \o queue[w])
    BY <1>1 DEF HandOut, InOrder, Delivered
  <2> QED
    BY <1>1, <2>3, <2>4, <2>5 DEF DeliveredSet, Delivered
<1>9. DeliveredSet(w)' = Due(w)
  <2>1. DeliveredSet(w) \subseteq Due(w)
    BY <1>1 DEF HandOut, InOrder
  <2>2. \A i \in Due(w) : i < n \/ i = n
    BY <1>1, <1>6
  <2> QED
    BY <1>3, <1>8, <2>1, <2>2 DEF Caught
<1>10. InOrder'
  <2> SUFFICES ASSUME NEW s \in Readers
               PROVE  /\ Ascending(Delivered(s))'
                      /\ DeliveredSet(s)' \subseteq Due(s)'
                      /\ \A j \in DeliveredSet(s)', i \in Due(s)' :
                           i < j => i \in DeliveredSet(s)'
    BY DEF InOrder
  <2>1. CASE s = w
    BY <1>1, <1>4, <1>8, <1>9, <2>1
  <2>2. CASE s # w
    BY <1>4, <1>5, <2>2 DEF HandOut, InOrder
  <2> QED
    BY <2>1, <2>2
<1>11. \A s \in Readers : Caught(s) => Caught(s)'
  <2>1. Caught(w)'
    BY <1>1, <1>4, <1>9 DEF Caught
  <2> QED
    BY <1>1, <1>4, <1>5, <2>1 DEF Caught
<1>12. HandOutInv'
  <2>1. /\ loopPc' = "write"
        /\ \A s \in Readers : since'[s] <= Len(arrived')
    BY <1>1 DEF HandOut, HandOutInv
  <2>2. \A s \in Readers : s \in matched' \/ writing' = s =>
          cpc'[s] # "none" /\ Len(arrived') \in Due(s)' \ DeliveredSet(s)'
    BY <1>1, <1>3, <1>4, <1>5, ReadersAssumption DEF HandOut, HandOutInv
  <2>3. \A s \in Readers : Live(s)' => Caught(s)'
    BY <1>1, <1>11 DEF HandOut, HandOutInv, Live, readerClosed
  <2>4. \A s \in readers' : ~readerClosed(s)' /\ ~InProgress(s)' =>
          Due(s)' \subseteq DeliveredSet(s)'
    <3> SUFFICES ASSUME NEW s \in readers, ~readerClosed(s), ~InProgress(s)', s # w
                 PROVE  Due(s) \subseteq DeliveredSet(s)
      BY <1>1, <1>4, <1>5, <1>9 DEF readerClosed
    <3>1. ~InProgress(s)
      BY <1>0, <1>1 DEF InProgress
    <3> QED
      BY <3>1 DEF HandOut, HandOutInv
  <2> QED
    BY <1>1, <2>1, <2>2, <2>3, <2>4 DEF HandOutInv, Caught, Due, DeliveredSet,
       Delivered
<1> QED
  BY <1>10, <1>12 DEF HandOut

(***************************************************************************)
(* What is got or closed leaves the lines and their order alone.           *)
(***************************************************************************)
LEMMA QueueHandOut ==
  ASSUME TypeOK, HandOut, FreshInv
  PROVE  /\ \A r \in Readers : ReadGet(r) => HandOut'
         /\ \A a \in Actors : ClosePut(a) => HandOut'
<1>1. ASSUME NEW r \in Readers, ReadGet(r) PROVE HandOut'
  <2>1. /\ queue[r] # <<>> /\ queue' = [queue EXCEPT ![r] = Tail(@)]
        /\ UNCHANGED <<arrived, since, matched, writing, loopPc, readers, closeStep>>
        /\ \A s \in Readers : cpc'[s] # "none" <=> cpc[s] # "none"
        /\ \A s \in Readers : s # r => got'[s] = got[s] /\ queue'[s] = queue[s]
    BY <1>1 DEF ReadGet, loopVars, TypeOK
  <2>2. got[r] \in Seq(Line \cup {None}) /\ queue[r] \in Seq(Line \cup {None})
    BY DeliveredType
  <2>3. queue'[r] = Tail(queue[r])
    BY <2>1 DEF TypeOK
  <2>4. CASE Head(queue[r]) = None
    <3>1. got' = got
      BY <1>1, <2>4 DEF ReadGet
    <3>2. /\ Lines(got[r] \o Tail(queue[r])) = Lines(got[r] \o queue[r])
          /\ Ascending(got[r] \o queue[r]) => Ascending(got[r] \o Tail(queue[r]))
      BY <2>1, <2>2, <2>4, GetMarker
    <3>3. \A s \in Readers :
            /\ DeliveredSet(s)' = DeliveredSet(s)
            /\ Ascending(Delivered(s)) => Ascending(Delivered(s)')
      BY <2>1, <2>3, <3>1, <3>2 DEF DeliveredSet, Delivered
    <3> QED
      BY <2>1, <3>3, HandOutFrame
  <2>5. CASE Head(queue[r]) # None
    <3>1. got'[r] = Append(got[r], Head(queue[r]))
      BY <1>1, <2>5 DEF ReadGet, TypeOK
    <3>2. got'[r] \o queue'[r] = got[r] \o queue[r]
      BY <2>1, <2>2, <2>3, <3>1, GetLine
    <3>3. \A s \in Readers : got'[s] \o queue'[s] = got[s] \o queue[s]
      BY <2>1, <3>2
    <3>4. \A s \in Readers :
            /\ DeliveredSet(s)' = DeliveredSet(s)
            /\ Ascending(Delivered(s)) => Ascending(Delivered(s)')
      BY <3>3 DEF DeliveredSet, Delivered
    <3> QED
      BY <2>1, <3>4, HandOutFrame
  <2> QED
    BY <2>4, <2>5
<1>2. ASSUME NEW a \in Actors, ClosePut(a) PROVE HandOut'
  <2>0. PICK r \in Readers : r = busy[a]
    BY <1>2 DEF ClosePut, TypeOK
  <2>1. /\ queue'[r] = Append(queue[r], None)
        /\ closeStep'[r] = "closed"
        /\ UNCHANGED <<arrived, since, matched, writing, loopPc, readers, got, cpc>>
        /\ \A s \in Readers : s # r => /\ queue'[s] = queue[s]
                                       /\ closeStep'[s] = closeStep[s]
    BY <1>2, <2>0 DEF ClosePut, loopVars, consumerVars, TypeOK
  <2>2. got[r] \in Seq(Line \cup {None}) /\ queue[r] \in Seq(Line \cup {None})
        /\ None \in Line \cup {None}
    BY DeliveredType
  <2>3. /\ Lines(got[r] \o Append(queue[r], None)) = Lines(got[r] \o queue[r])
        /\ Ascending(got[r] \o queue[r]) => Ascending(got[r] \o Append(queue[r], None))
    BY <2>2, PutMarker
  <2>4. \A s \in Readers :
          /\ DeliveredSet(s)' = DeliveredSet(s)
          /\ Ascending(Delivered(s)) => Ascending(Delivered(s)')
    BY <2>1, <2>3 DEF DeliveredSet, Delivered
  <2> QED
    BY <2>1, <2>4, HandOutFrame
<1> QED
  BY <1>1, <1>2

(***************************************************************************)
(* One action at a time.                                                   *)
(***************************************************************************)
LEMMA HandOutStep ==
  TypeOK /\ LoopInv /\ CoreInv /\ RegInv /\ HandOut /\ [Next]_vars => HandOut'
<1> SUFFICES ASSUME TypeOK, LoopInv, CoreInv, RegInv, HandOut, [Next]_vars
             PROVE  HandOut'
  OBVIOUS
<1> USE DEF CoreInv, loopVars, consumerVars, closerVars
<1>1. ASSUME NEW r \in Readers, ReadHead(r) \/ ReadTimeout(r) \/ Abandon(r)
      PROVE  HandOut'
  BY <1>1, QuietFrame DEF ReadHead, ReadTimeout, Abandon, TypeOK
<1>2. ASSUME NEW r \in Readers, ConsumerExit(r) PROVE HandOut'
  BY <1>2, QuietFrame DEF ConsumerExit, CloseEnter, TypeOK
<1>3. ASSUME NEW a \in Actors, CloseRemove(a) PROVE HandOut'
  BY <1>3, QuietFrame DEF CloseRemove, TypeOK
<1>4. ASSUME NEW c \in Closers, NEW r \in Readers, CloseNext(c, r)
      PROVE  HandOut'
  BY <1>4, QuietFrame DEF CloseNext, CloseEnter, TypeOK
<1>5. ASSUME ExtClose PROVE HandOut'
  BY <1>5, QuietFrame DEF ExtClose, TakeReaders, TypeOK
<1>6. ASSUME LoopClose PROVE HandOut'
  BY <1>6, QuietFrame DEF LoopClose, TakeReaders, TypeOK
<1>7. ASSUME LoopStreamEnd \/ UNCHANGED vars PROVE HandOut'
  BY <1>7, QuietFrame DEF LoopStreamEnd, vars, TypeOK
<1>8. ASSUME LoopNextLine PROVE HandOut'
  <2>1. /\ loopPc = "write" /\ loopPc' = "read" /\ matched = {} /\ writing = NoReader
        /\ UNCHANGED <<readers, closeStep, queue, got, cpc, since, arrived,
                       matched, writing>>
        /\ readers \subseteq Readers
    BY <1>8 DEF LoopNextLine, TypeOK
  <2>2. \A s \in Readers :
          /\ DeliveredSet(s)' = DeliveredSet(s)
          /\ Delivered(s)' = Delivered(s)
          /\ Due(s)' = Due(s)
    BY <2>1 DEF DeliveredSet, Delivered, Due
  <2>3. \A s \in Readers : /\ Caught(s)' <=> Caught(s)
                           /\ InProgress(s)' <=> InProgress(s)
                           /\ Live(s)' <=> Live(s)
                           /\ readerClosed(s)' <=> readerClosed(s)
    BY <2>1, <2>2 DEF Caught, InProgress, Live, readerClosed
  <2>4. InOrder'
    BY <2>2 DEF HandOut, InOrder
  <2>5. HandOutInv'
    <3>1. \A s \in Readers : s \notin matched' /\ writing' # s
      BY <2>1, ReadersAssumption
    <3>2. \A s \in Readers : since'[s] <= Len(arrived')
      BY <2>1 DEF HandOut, HandOutInv
    <3>3. \A s \in Readers : Live(s)' => Caught(s)'
      BY <2>3 DEF HandOut, HandOutInv
    <3>4. \A s \in readers' : ~readerClosed(s)' /\ ~InProgress(s)' =>
            Due(s)' \subseteq DeliveredSet(s)'
      BY <2>1, <2>2, <2>3 DEF HandOut, HandOutInv
    <3> QED
      BY <2>1, <3>1, <3>2, <3>3, <3>4 DEF HandOutInv, Caught, Due,
         DeliveredSet, Delivered
  <2> QED
    BY <2>4, <2>5 DEF HandOut
<1> QED
  BY <1>1, <1>2, <1>3, <1>4, <1>5, <1>6, <1>7, <1>8, RegisterHandOut,
     ReadHandOut, MatchHandOut, WriteTestHandOut, WritePutHandOut, QueueHandOut
     DEF Next, Consumer, Closing, LoopDispatch

-----------------------------------------------------------------------------
(* The end marker and what may come after it.                              *)

(***************************************************************************)
(* The end marker is in the queue once, and at most one line after it.     *)
(***************************************************************************)
OneLate(q) ==
  \A i, j \in DOMAIN q : q[i] = None /\ i < j => j = i + 1 /\ q[j] # None

(***************************************************************************)
(* Getting, putting the marker and putting the line of a write() that had  *)
(* passed the closed test.                                                 *)
(***************************************************************************)
LEMMA OneLateGet ==
  ASSUME NEW S, NEW q \in Seq(S), q # <<>>
  PROVE  /\ OneLate(q) => OneLate(Tail(q))
         /\ ~Marked(q) => ~Marked(Tail(q))
         /\ (\A i \in DOMAIN q : q[i] = None => i = Len(q)) =>
              (\A i \in DOMAIN Tail(q) : Tail(q)[i] = None => i = Len(Tail(q)))
<1> DEFINE t == Tail(q)
<1>1. /\ Len(q) \in Nat /\ Len(q) >= 1 /\ Len(t) = Len(q) - 1
      /\ DOMAIN q = 1 .. Len(q) /\ DOMAIN t = 1 .. Len(t)
      /\ \A i \in 1 .. Len(t) : t[i] = q[i + 1]
  OBVIOUS
<1> HIDE DEF t
<1>2. \A i \in DOMAIN t : i \in Nat /\ i + 1 \in DOMAIN q /\ t[i] = q[i + 1]
  BY <1>1
<1>3. ASSUME OneLate(q) PROVE OneLate(t)
  <2> SUFFICES ASSUME NEW i \in DOMAIN t, NEW j \in DOMAIN t, t[i] = None, i < j
               PROVE  j = i + 1 /\ t[j] # None
    BY DEF OneLate
  <2>1. q[i + 1] = None /\ i + 1 < j + 1 /\ i + 1 \in DOMAIN q /\ j + 1 \in DOMAIN q
    BY <1>2
  <2>2. j + 1 = (i + 1) + 1 /\ q[j + 1] # None
    BY <1>3, <2>1 DEF OneLate
  <2> QED
    BY <1>2, <2>2
<1>4. ASSUME ~Marked(q) PROVE ~Marked(t)
  BY <1>2, <1>4 DEF Marked
<1>5. ASSUME \A i \in DOMAIN q : q[i] = None => i = Len(q), NEW i \in DOMAIN t,
             t[i] = None
      PROVE  i = Len(t)
  <2>1. i + 1 = Len(q)
    BY <1>2, <1>5
  <2> QED
    BY <1>1, <1>2, <2>1
<1> QED
  BY <1>3, <1>4, <1>5 DEF t

(***************************************************************************)
(* What one more entry does to a queue that has no end marker, or that has *)
(* one only at its end.                                                    *)
(***************************************************************************)
LEMMA OneLatePut ==
  ASSUME NEW S, NEW q \in Seq(S), NEW e \in S
  PROVE  /\ ~Marked(q) => OneLate(Append(q, e))
         /\ ~Marked(q) => \A i \in DOMAIN Append(q, e) :
              Append(q, e)[i] = None => i = Len(Append(q, e))
         /\ e # None /\ (\A i \in DOMAIN q : q[i] = None => i = Len(q)) =>
              OneLate(Append(q, e))
         /\ e # None /\ ~Marked(q) => ~Marked(Append(q, e))
<1> DEFINE t == Append(q, e)
<1>1. /\ Len(q) \in Nat /\ Len(t) = Len(q) + 1
      /\ DOMAIN q = 1 .. Len(q) /\ DOMAIN t = 1 .. Len(t)
      /\ \A i \in 1 .. Len(q) : t[i] = q[i]
      /\ t[Len(q) + 1] = e
  OBVIOUS
<1> HIDE DEF t
<1>2. \A i \in DOMAIN t : /\ i \in Nat
                          /\ \/ i \in DOMAIN q /\ t[i] = q[i] /\ i <= Len(q)
                             \/ i = Len(q) + 1 /\ t[i] = e
  BY <1>1
<1>3. ASSUME ~Marked(q), NEW i \in DOMAIN t, t[i] = None PROVE i = Len(q) + 1
  BY <1>2, <1>3 DEF Marked
<1>4. ASSUME ~Marked(q) PROVE OneLate(t)
  <2> SUFFICES ASSUME NEW i \in DOMAIN t, NEW j \in DOMAIN t, t[i] = None, i < j
               PROVE  FALSE
    BY DEF OneLate
  <2>1. i = Len(q) + 1 /\ j <= Len(q) + 1 /\ j \in Nat
    BY <1>1, <1>2, <1>3, <1>4
  <2> QED
    BY <1>1, <2>1
<1>5. ASSUME e # None, \A i \in DOMAIN q : q[i] = None => i = Len(q)
      PROVE  OneLate(t)
  <2> SUFFICES ASSUME NEW i \in DOMAIN t, NEW j \in DOMAIN t, t[i] = None, i < j
               PROVE  j = i + 1 /\ t[j] # None
    BY DEF OneLate
  <2>1. i = Len(q)
    BY <1>2, <1>5
  <2>2. j = Len(q) + 1 /\ t[j] = e
    BY <1>1, <1>2, <2>1
  <2> QED
    BY <1>5, <2>1, <2>2
<1>6. ASSUME e # None, ~Marked(q) PROVE ~Marked(t)
  BY <1>2, <1>6 DEF Marked
<1> QED
  BY <1>1, <1>3, <1>4, <1>5, <1>6 DEF t

Late == LateInv /\ AtMostOneLate

(***************************************************************************)
(* The marker is put by the one actor that set the flag, at the end of a   *)
(* queue that had none; a write() under way then adds the one late line.   *)
(***************************************************************************)
LEMMA LateStep ==
  TypeOK /\ LoopInv /\ CoreInv /\ HandOut /\ Late /\ [Next]_vars => Late'
<1> SUFFICES ASSUME TypeOK, LoopInv, CoreInv, HandOut, Late, [Next]_vars
             PROVE  Late'
  OBVIOUS
<1> USE DEF loopVars, consumerVars, closerVars
<1>a. \A r \in Readers : OneLate(queue[r])
  BY DEF Late, AtMostOneLate, OneLate
<1>b. ASSUME LateInv', \A r \in Readers : OneLate(queue'[r]) PROVE Late'
  BY <1>b DEF Late, AtMostOneLate, OneLate
(***************************************************************************)
(* The steps that touch no queue and start no write().                     *)
(***************************************************************************)
<1>0. ASSUME UNCHANGED <<queue, writing>>,
             \A r \in Readers : closeStep[r] = "closed" => closeStep'[r] = "closed"
      PROVE  Late'
  <2>1. LateInv'
    BY <1>0 DEF Late, LateInv
  <2> QED
    BY <1>0, <1>a, <1>b, <2>1
<1>1. ASSUME NEW r \in Readers, Register(r) \/ ReadHead(r) \/ ReadTimeout(r) \/ Abandon(r)
      PROVE  Late'
  BY <1>0, <1>1 DEF Register, ReadHead, ReadTimeout, Abandon
<1>2. ASSUME NEW r \in Readers, ConsumerExit(r) PROVE Late'
  BY <1>0, <1>2 DEF ConsumerExit, CloseEnter, readerClosed, TypeOK
<1>3. ASSUME NEW a \in Actors, CloseRemove(a) PROVE Late'
  BY <1>0, <1>3 DEF CloseRemove, TypeOK
<1>4. ASSUME NEW c \in Closers, NEW r \in Readers, CloseNext(c, r) PROVE Late'
  BY <1>0, <1>4 DEF CloseNext, CloseEnter, readerClosed, TypeOK
<1>5. ASSUME ExtClose \/ LoopClose PROVE Late'
  BY <1>0, <1>5 DEF ExtClose, LoopClose, TakeReaders
<1>6. ASSUME NEW k \in Kinds, LoopRead(k) PROVE Late'
  BY <1>0, <1>6 DEF LoopRead
<1>7. ASSUME LoopMatch \/ LoopNextLine \/ LoopStreamEnd \/ UNCHANGED vars
      PROVE  Late'
  BY <1>0, <1>7 DEF LoopMatch, LoopNextLine, LoopStreamEnd, vars
<1>8. ASSUME NEW r \in Readers, ReadGet(r) PROVE Late'
  <2>1. /\ queue[r] \in Seq(Line \cup {None}) /\ queue[r] # <<>>
        /\ queue'[r] = Tail(queue[r])
        /\ \A s \in Readers : s # r => queue'[s] = queue[s]
        /\ UNCHANGED <<writing, closeStep>>
    BY <1>8 DEF ReadGet, TypeOK
  <2>2. /\ OneLate(queue[r]) => OneLate(queue'[r])
        /\ ~Marked(queue[r]) => ~Marked(queue'[r])
        /\ (\A i \in DOMAIN queue[r] : queue[r][i] = None => i = Len(queue[r])) =>
             (\A i \in DOMAIN queue'[r] : queue'[r][i] = None => i = Len(queue'[r]))
    BY <2>1, OneLateGet
  <2>3. \A s \in Readers : OneLate(queue'[s])
    BY <1>a, <2>1, <2>2
  <2>4. \A s \in Readers : closeStep'[s] # "closed" => ~Marked(queue'[s])
    BY <2>1, <2>2 DEF Late, LateInv
  <2>5. writing' # NoReader => \A i \in DOMAIN queue'[writing'] :
          queue'[writing'][i] = None => i = Len(queue'[writing'])
    <3> SUFFICES ASSUME writing # NoReader
                 PROVE  \A i \in DOMAIN queue'[writing] :
                          queue'[writing][i] = None => i = Len(queue'[writing])
      BY <2>1
    <3>0. PICK w \in Readers : w = writing
      BY DEF TypeOK
    <3>1. \A i \in DOMAIN queue[w] : queue[w][i] = None => i = Len(queue[w])
      BY <3>0 DEF Late, LateInv
    <3>2. CASE w = r
      BY <2>2, <3>0, <3>1, <3>2
    <3>3. CASE w # r
      <4>1. queue'[w] = queue[w]
        BY <2>1, <3>3
      <4> QED
        BY <3>0, <3>1, <4>1
    <3> QED
      BY <3>2, <3>3
  <2>6. LateInv'
    BY <2>4, <2>5 DEF LateInv
  <2> QED
    BY <1>b, <2>3, <2>6
<1>9. ASSUME NEW a \in Actors, ClosePut(a) PROVE Late'
  <2>0. PICK r \in Readers : r = busy[a]
    BY <1>9 DEF ClosePut, TypeOK
  <2>1. /\ queue[r] \in Seq(Line \cup {None}) /\ None \in Line \cup {None}
        /\ closeStep[r] = "put" /\ closeStep'[r] = "closed"
        /\ queue'[r] = Append(queue[r], None)
        /\ UNCHANGED writing
        /\ \A s \in Readers : s # r => /\ queue'[s] = queue[s]
                                       /\ closeStep'[s] = closeStep[s]
    BY <1>9, <2>0 DEF ClosePut, TypeOK
  <2>2. ~Marked(queue[r])
    BY <2>1 DEF Late, LateInv
  <2>3. /\ OneLate(queue'[r])
        /\ \A i \in DOMAIN queue'[r] : queue'[r][i] = None => i = Len(queue'[r])
    BY <2>1, <2>2, OneLatePut
  <2>4. \A s \in Readers : OneLate(queue'[s])
    BY <1>a, <2>1, <2>3
  <2>5. \A s \in Readers : closeStep'[s] # "closed" => ~Marked(queue'[s])
    BY <2>1 DEF Late, LateInv
  <2>6. writing' # NoReader => \A i \in DOMAIN queue'[writing'] :
          queue'[writing'][i] = None => i = Len(queue'[writing'])
    <3> SUFFICES ASSUME writing # NoReader
                 PROVE  \A i \in DOMAIN queue'[writing] :
                          queue'[writing][i] = None => i = Len(queue'[writing])
      BY <2>1
    <3>0. PICK w \in Readers : w = writing
      BY DEF TypeOK
    <3>1. CASE w = r
      BY <2>3, <3>0, <3>1
    <3>2. CASE w # r
      <4>1. queue'[w] = queue[w]
        BY <2>1, <3>2
      <4>2. \A i \in DOMAIN queue[w] : queue[w][i] = None => i = Len(queue[w])
        BY <3>0 DEF Late, LateInv
      <4> QED
        BY <3>0, <4>1, <4>2
    <3> QED
      BY <3>1, <3>2
  <2>7. LateInv'
    BY <2>5, <2>6 DEF LateInv
  <2> QED
    BY <1>b, <2>4, <2>7
<1>10. ASSUME NEW r \in Readers, LoopWriteTest(r) PROVE Late'
  <2>1. /\ UNCHANGED <<queue, closeStep>>
        /\ writing' = IF readerClosed(r) THEN NoReader ELSE r
    BY <1>10 DEF LoopWriteTest
  <2>2. ~readerClosed(r) => ~Marked(queue[r])
    BY DEF Late, LateInv, readerClosed
  <2>3. LateInv'
    <3>1. CASE readerClosed(r)
      BY <2>1, <3>1 DEF Late, LateInv
    <3>2. CASE ~readerClosed(r)
      BY <2>1, <2>2, <3>2 DEF Late, LateInv, Marked
    <3> QED
      BY <3>1, <3>2
  <2> QED
    BY <1>a, <1>b, <2>1, <2>3
<1>11. ASSUME LoopWritePut PROVE Late'
  <2>0. PICK w \in Readers : w = writing
    BY <1>11 DEF LoopWritePut, TypeOK
  <2>1. /\ queue[w] \in Seq(Line \cup {None}) /\ w # NoReader
        /\ queue'[w] = Append(queue[w], Len(arrived))
        /\ writing' = NoReader
        /\ UNCHANGED closeStep
        /\ \A s \in Readers : s # w => queue'[s] = queue[s]
    BY <1>11, <2>0 DEF LoopWritePut, TypeOK
  <2>2. Len(arrived) \in Line \cup {None} /\ Len(arrived) # None
    <3>1. arrived # <<>> /\ arrived \in Seq(Kinds)
      BY <2>0, <2>1 DEF LoopInv, TypeOK
    <3> QED
      BY <3>1, NoneAssumption DEF Line
  <2>3. \A i \in DOMAIN queue[w] : queue[w][i] = None => i = Len(queue[w])
    BY <2>0, <2>1 DEF Late, LateInv
  <2>4. /\ OneLate(queue'[w])
        /\ ~Marked(queue[w]) => ~Marked(queue'[w])
    BY <2>1, <2>2, <2>3, OneLatePut
  <2>5. \A s \in Readers : OneLate(queue'[s])
    BY <1>a, <2>1, <2>4
  <2>6. \A s \in Readers : closeStep'[s] # "closed" => ~Marked(queue'[s])
    BY <2>1, <2>4 DEF Late, LateInv
  <2>7. LateInv'
    BY <2>1, <2>6 DEF LateInv
  <2> QED
    BY <1>b, <2>5, <2>7
<1> QED
  BY <1>1, <1>2, <1>3, <1>4, <1>5, <1>6, <1>7, <1>8, <1>9, <1>10, <1>11
     DEF Next, Consumer, Closing, LoopDispatch

-----------------------------------------------------------------------------
(***************************************************************************)
(* Nothing has arrived, and nobody is registered.                          *)
(***************************************************************************)
LEMMA OrderInit == Init => RegInv /\ HandOut /\ Late
<1> SUFFICES ASSUME Init PROVE RegInv /\ HandOut /\ Late
  OBVIOUS
<1> USE DEF Init
<1>1. Len(arrived) = 0 /\ writing = NoReader /\ matched = {} /\ readers = {}
      /\ loopPc = "read"
  OBVIOUS
<1>2. \A r \in Readers : got[r] = <<>> /\ queue[r] = <<>> /\ since[r] = 0
                         /\ cpc[r] = "none"
  OBVIOUS
<1>3. <<>> \o <<>> = <<>>
  OBVIOUS
<1>4. \A r \in Readers : Delivered(r) = <<>>
  BY <1>2, <1>3 DEF Delivered
<1>5. \A r \in Readers : DeliveredSet(r) = {} /\ Ascending(Delivered(r))
  <2>1. DOMAIN <<>> = {}
    OBVIOUS
  <2>2. Lines(<<>>) = {} /\ Ascending(<<>>)
    BY <2>1 DEF Lines, Ascending
  <2> QED
    BY <1>4, <2>2 DEF DeliveredSet
<1>6. RegInv
  BY <1>2 DEF RegInv, Live
<1>7. InOrder
  BY <1>5 DEF InOrder
<1>8. HandOutInv
  BY <1>1, <1>2, ReadersAssumption DEF HandOutInv, Live
<1>9. Late
  BY <1>1, <1>2 DEF Late, LateInv, AtMostOneLate, Marked
<1> QED
  BY <1>6, <1>7, <1>8, <1>9 DEF HandOut

(***************************************************************************)
(* The invariant that the order of the lines rests on.                     *)
(***************************************************************************)
LEMMA InductiveOrder == Spec => [](IInv /\ RegInv /\ HandOut /\ Late)
<1>1. Init => RegInv /\ HandOut /\ Late
  BY OrderInit
<1>2. RegInv /\ HandOut /\ Late /\ IInv /\ [Next]_vars => (RegInv /\ HandOut /\ Late)'
  BY RegStep, HandOutStep, LateStep DEF IInv, CoreInv, HandOut
<1> QED
  BY Inductive, <1>1, <1>2, PTL DEF Spec

(***************************************************************************)
(* However reads, writes, registrations and closes interleave, a reader is *)
(* given a prefix of the lines it is due, each once and in order.          *)
(***************************************************************************)
THEOREM LinesInOrder == Spec => []InOrder
<1>1. HandOut => InOrder
  BY DEF HandOut
<1> QED
  BY InductiveOrder, <1>1, PTL

(***************************************************************************)
(* An open reader in the list misses no line: only the one that the event  *)
(* loop is handing out may still be on its way.                            *)
(***************************************************************************)
THEOREM OpenReaderMissesNothing == Spec => []NothingMissed
<1>1. TypeOK /\ FreshInv /\ HandOut => NothingMissed
  <2> SUFFICES ASSUME TypeOK, FreshInv, HandOut, NEW r \in readers,
                      ~readerClosed(r), NEW i \in Due(r) \ DeliveredSet(r)
               PROVE  i = Len(arrived) /\ InProgress(r)
    BY DEF NothingMissed
  <2>1. r \in Readers /\ cpc[r] # "none"
    BY DEF TypeOK, FreshInv
  <2>2. Caught(r)
    BY <2>1 DEF HandOut, HandOutInv, Live
  <2>3. i \in Nat /\ i <= Len(arrived) /\ Len(arrived) \in Nat
    BY <2>1 DEF Due, TypeOK
  <2>4. ~(i < Len(arrived))
    BY <2>2 DEF Caught
  <2>5. InProgress(r)
    BY DEF HandOut, HandOutInv
  <2> QED
    BY <2>3, <2>4, <2>5
<1> QED
  BY InductiveOrder, <1>1, PTL DEF IInv

(***************************************************************************)
(* However many threads close a reader, the end marker is put once, and    *)
(* only the write() that was under way may come after it.                  *)
(***************************************************************************)
THEOREM OneLineLate == Spec => []AtMostOneLate
<1>1. Late => AtMostOneLate
  BY DEF Late
<1> QED
  BY InductiveOrder, <1>1, PTL

-----------------------------------------------------------------------------
(* What those who use the fan-out rely on besides.                         *)

(***************************************************************************)
(* As long as the connection is not closed, a reader is closed only by its *)
(* own consumer, when that leaves.                                         *)
(***************************************************************************)
ClosedByItsOwn == \A r \in Readers : readerClosed(r) => closed \/ cpc[r] = "done"

(***************************************************************************)
(* Every step keeps it so.                                                 *)
(***************************************************************************)
LEMMA OwnStep ==
  TypeOK /\ CloseInv /\ FreshInv /\ RegInv /\ ClosedByItsOwn /\ [Next]_vars
    => ClosedByItsOwn'
<1> SUFFICES ASSUME TypeOK, CloseInv, FreshInv, RegInv, ClosedByItsOwn, [Next]_vars
             PROVE  ClosedByItsOwn'
  OBVIOUS
<1> USE DEF loopVars, consumerVars, closerVars, readerClosed
<1>0. ASSUME closed => closed',
             \A r \in Readers : /\ closeStep'[r] # "open" => closeStep[r] # "open"
                                /\ cpc[r] = "done" => cpc'[r] = "done"
      PROVE  ClosedByItsOwn'
  BY <1>0 DEF ClosedByItsOwn
<1>1. ASSUME NEW r \in Readers,
             Register(r) \/ ReadHead(r) \/ ReadGet(r) \/ ReadTimeout(r) \/ Abandon(r)
      PROVE  ClosedByItsOwn'
  <2>1. UNCHANGED <<closed, closeStep>> /\ cpc[r] # "done"
        /\ \A s \in Readers : s # r => cpc'[s] = cpc[s]
    BY <1>1 DEF Register, ReadHead, ReadGet, ReadTimeout, Abandon, TypeOK
  <2> QED
    BY <1>0, <2>1
<1>2. ASSUME NEW r \in Readers, ConsumerExit(r) PROVE ClosedByItsOwn'
  <2>1. /\ closed' = closed /\ cpc'[r] = "done"
        /\ \A s \in Readers : s # r => cpc'[s] = cpc[s] /\ closeStep'[s] = closeStep[s]
    BY <1>2 DEF ConsumerExit, CloseEnter, TypeOK
  <2> QED
    BY <2>1 DEF ClosedByItsOwn
<1>3. ASSUME NEW a \in Actors, CloseRemove(a) \/ ClosePut(a) PROVE ClosedByItsOwn'
  <2>1. /\ UNCHANGED <<closed, cpc>> /\ busy[a] \in Readers
        /\ closeStep[busy[a]] # "open"
        /\ \A s \in Readers : s # busy[a] => closeStep'[s] = closeStep[s]
    BY <1>3 DEF CloseRemove, ClosePut, TypeOK
  <2> QED
    BY <1>0, <2>1
<1>4. ASSUME NEW c \in Closers, NEW r \in Readers, CloseNext(c, r) PROVE ClosedByItsOwn'
  <2>1. closed /\ closed' = closed
    BY <1>4 DEF CloseNext, RegInv, TypeOK
  <2> QED
    BY <2>1 DEF ClosedByItsOwn
<1>5. ExtClose \/ LoopClose => ClosedByItsOwn'
  BY <1>0 DEF ExtClose, LoopClose, TakeReaders
<1>6. ASSUME NEW k \in Kinds, LoopRead(k) PROVE ClosedByItsOwn'
  BY <1>0, <1>6 DEF LoopRead
<1>7. LoopMatch \/ LoopWritePut \/ LoopNextLine \/ LoopStreamEnd => ClosedByItsOwn'
  BY <1>0 DEF LoopMatch, LoopWritePut, LoopNextLine, LoopStreamEnd
<1>8. ASSUME NEW r \in Readers, LoopWriteTest(r) PROVE ClosedByItsOwn'
  BY <1>0, <1>8 DEF LoopWriteTest
<1>9. UNCHANGED vars => ClosedByItsOwn'
  BY <1>0 DEF vars
<1> QED
  BY <1>1, <1>2, <1>3, <1>4, <1>5, <1>6, <1>7, <1>8, <1>9
     DEF Next, Consumer, Closing, LoopDispatch

(***************************************************************************)
(* All that a user of the fan-out may take from it, at any time.           *)
(***************************************************************************)
LEMMA Relied ==
  Spec => [](TypeOK /\ LoopInv /\ RegInv /\ HandOutInv /\ LateInv /\ InOrder
             /\ NothingMissed /\ ClosedByItsOwn)
<1>1. Init => ClosedByItsOwn
  BY DEF Init, ClosedByItsOwn, readerClosed
<1>2. IInv /\ RegInv /\ HandOut /\ Late /\ ClosedByItsOwn /\ [Next]_vars
        => ClosedByItsOwn'
  BY OwnStep DEF IInv
<1>3. IInv /\ HandOut /\ Late => TypeOK /\ LoopInv /\ HandOutInv /\ LateInv /\ InOrder
  BY DEF IInv, HandOut, Late
<1> QED
  BY <1>1, <1>2, <1>3, InductiveOrder, OpenReaderMissesNothing, PTL DEF Spec
=============================================================================
