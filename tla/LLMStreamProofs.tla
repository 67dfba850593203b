-------------------------- MODULE LLMStreamProofs -------------------------
(***************************************************************************)
(* Theorems about LLMStream: for every set of providers, every number of   *)
(* tool calls and of events, the connection and the clock are released,    *)
(* the final chunk tells all there is to tell, the think tags of the text  *)
(* are well nested, and every tool call is assembled.                      *)
(***************************************************************************)
EXTENDS LLMStream, TLAPS, FiniteSetTheorems, WellFoundedInduction, SequenceTheorems

(***************************************************************************)
(* However a stream ends, neither its connection nor its clock is left     *)
(* behind: ResponseReleased is inductive as it stands.                     *)
(***************************************************************************)
THEOREM NothingLeftBehind == Spec => []ResponseReleased
<1>1. Init => ResponseReleased
  BY DEF Init, ResponseReleased, Over
<1>2. ResponseReleased /\ [Next]_vars => ResponseReleased'
  <2> SUFFICES ASSUME ResponseReleased, [Next]_vars
               PROVE  ResponseReleased'
    OBVIOUS
  <2> USE DEF ResponseReleased, Over
  <2>1. CASE Start
    BY <2>1 DEF Start
  <2>2. CASE Resume
    BY <2>2 DEF Resume
  <2>3. CASE Abandon
    BY <2>3 DEF Abandon, Leave
  <2>4. CASE ReadSkipped
    BY <2>4 DEF ReadSkipped, Receive
  <2>5. CASE ReadUsage
    BY <2>5 DEF ReadUsage, Receive
  <2>6. CASE ReadDelta
    <3>1. /\ pc = "reading" /\ pc' \in {"reading", "yielded"}
          /\ UNCHANGED <<response, timing>>
      BY <2>6 DEF ReadDelta, Receive, Yield
    <3> QED
      BY <3>1
  <2>7. CASE ReadHeadless
    BY <2>7 DEF ReadHeadless, Leave
  <2>8. CASE ReadText
    <3>1. /\ pc = "reading" /\ pc' \in {"reading", "yielded"}
          /\ UNCHANGED <<response, timing>>
      BY <2>8 DEF ReadText, Receive, Yield
    <3> QED
      BY <3>1
  <2>9. CASE ReadError
    BY <2>9 DEF ReadError, Leave
  <2>10. CASE ReadEnd
    BY <2>10 DEF ReadEnd
  <2>11. CASE YieldFinal
    BY <2>11 DEF YieldFinal
  <2>12. CASE UNCHANGED vars
    BY <2>12 DEF vars
  <2> QED
    BY <2>1, <2>2, <2>3, <2>4, <2>5, <2>6, <2>7, <2>8, <2>9, <2>10, <2>11, <2>12 DEF Next
<1> QED
  BY <1>1, <1>2, PTL DEF Spec

-----------------------------------------------------------------------------
(***************************************************************************)
(* The last event with a property, without the CHOOSE.                     *)
(***************************************************************************)

IsSequence(s) == \E S : s \in Seq(S)

IsLast(v, ns) == IF ns = {} THEN v = None ELSE v \in ns /\ \A n \in ns : n <= v

FinishesIn(events) == {n \in DOMAIN events : events[n].finish}
ReportsIn(events, k) == {n \in DOMAIN events : k \in events[n].usage}

\* What Append does to a sequence, whatever it is a sequence of.
LEMMA Appended ==
  ASSUME NEW s, IsSequence(s), NEW e
  PROVE  /\ IsSequence(Append(s, e))
         /\ Len(s) \in Nat
         /\ DOMAIN s = 1 .. Len(s)
         /\ Len(Append(s, e)) = Len(s) + 1
         /\ DOMAIN Append(s, e) = 1 .. Len(s) + 1
         /\ \A i \in 1 .. Len(s) : Append(s, e)[i] = s[i]
         /\ Append(s, e)[Len(s) + 1] = e
         /\ Append(s, e) # <<>>
         /\ Last(Append(s, e)) = e
<1>1. PICK S : s \in Seq(S)
  BY DEF IsSequence
<1> DEFINE T == S \cup {e}
<1>2. s \in Seq(T) /\ e \in T
  BY <1>1
<1>3. Append(s, e) \in Seq(T)
  BY <1>2
<1>4. /\ Len(s) \in Nat
      /\ DOMAIN s = 1 .. Len(s)
      /\ Len(Append(s, e)) = Len(s) + 1
      /\ DOMAIN Append(s, e) = 1 .. Len(s) + 1
      /\ \A i \in 1 .. Len(s) : Append(s, e)[i] = s[i]
      /\ Append(s, e)[Len(s) + 1] = e
  BY <1>2
<1>5. Append(s, e) # <<>> /\ Last(Append(s, e)) = e
  BY <1>4 DEF Last
<1> HIDE DEF T
<1> QED
  BY <1>3, <1>4, <1>5 DEF IsSequence

\* One more event is the last with the property if it has it.
LEMMA LastOfMore ==
  ASSUME NEW events, IsSequence(events), NEW e, NEW v
  PROVE  LET n == Len(events) + 1
             more == Append(events, e)
         IN  /\ IsLast(v, FinishesIn(events)) =>
                  IsLast(IF e.finish THEN n ELSE v, FinishesIn(more))
             /\ \A k : IsLast(v, ReportsIn(events, k)) =>
                  IsLast(IF k \in e.usage THEN n ELSE v, ReportsIn(more, k))
<1> DEFINE n == Len(events) + 1
           more == Append(events, e)
<1>1. /\ Len(events) \in Nat
      /\ DOMAIN events = 1 .. Len(events)
      /\ DOMAIN more = 1 .. n
      /\ \A i \in 1 .. Len(events) : more[i] = events[i]
      /\ more[n] = e
  BY Appended
<1> HIDE DEF n, more
<1>2. n = Len(events) + 1
  BY DEF n
<1>3. ASSUME NEW k
      PROVE  /\ ReportsIn(more, k) = IF k \in e.usage THEN ReportsIn(events, k) \cup {n}
                                     ELSE ReportsIn(events, k)
             /\ \A m \in ReportsIn(events, k) : m \in Nat /\ m <= n
  BY <1>1, <1>2 DEF ReportsIn
<1>4. /\ FinishesIn(more) = IF e.finish THEN FinishesIn(events) \cup {n}
                            ELSE FinishesIn(events)
      /\ \A m \in FinishesIn(events) : m \in Nat /\ m <= n
  BY <1>1, <1>2 DEF FinishesIn
<1>5. n \in Nat
  BY <1>1, <1>2
<1>6. IsLast(v, FinishesIn(events)) => IsLast(IF e.finish THEN n ELSE v, FinishesIn(more))
  BY <1>4, <1>5 DEF IsLast
<1>7. ASSUME NEW k, IsLast(v, ReportsIn(events, k))
      PROVE  IsLast(IF k \in e.usage THEN n ELSE v, ReportsIn(more, k))
  BY <1>3, <1>5, <1>7 DEF IsLast
<1> QED
  BY <1>6, <1>7 DEF n, more

(***************************************************************************)
(* What a chunk was given stays true of what the handler knows: the parts  *)
(* of the inductive invariant.                                             *)
(***************************************************************************)

Ended == {"final", "ended", "abandoned"}

Sequences_ == IsSequence(received) /\ IsSequence(chunks) /\ chunkIndex \in Nat

Numbered ==
  /\ \A i \in DOMAIN chunks :
       /\ chunks[i].index \in Nat
       /\ ~chunks[i].final => chunks[i].index < chunkIndex
  /\ \A i, j \in DOMAIN chunks : i < j => chunks[i].index < chunks[j].index

OneFinal ==
  /\ \A i \in DOMAIN chunks : chunks[i].final => i = Len(chunks) /\ pc \in Ended
  /\ pc \in {"final", "ended"} => chunks # <<>> /\ Last(chunks).final

Known ==
  pc # "raised" =>
    /\ IsLast(finishReason, FinishesIn(received))
    /\ \A k \in Counters : IsLast(usage[k], ReportsIn(received, k))

Told ==
  (chunks # <<>> /\ Last(chunks).final) =>
    /\ Last(chunks).finish = finishReason
    /\ Last(chunks).usage = usage
    /\ Last(chunks).toolCalls = toolCalls

FInv == Sequences_ /\ Numbered /\ OneFinal /\ Known /\ Told

LEMMA FInvInit == Init => FInv
<1> SUFFICES ASSUME Init PROVE FInv
  OBVIOUS
<1> USE DEF Init
<1>1. <<>> \in Seq({}) /\ DOMAIN received = {} /\ DOMAIN chunks = {}
  OBVIOUS
<1>2. Sequences_
  BY <1>1 DEF Sequences_, IsSequence
<1>3. Numbered /\ OneFinal /\ Told
  BY <1>1 DEF Numbered, OneFinal, Told
<1>4. Known
  BY <1>1 DEF Known, IsLast, FinishesIn, ReportsIn
<1> QED
  BY <1>2, <1>3, <1>4 DEF FInv

(***************************************************************************)
(* A step that neither receives nor yields, and stays on one side of the   *)
(* final chunk.                                                            *)
(***************************************************************************)
LEMMA FInvSilent ==
  ASSUME FInv, UNCHANGED <<received, chunks, handler>>,
         \/ pc \notin Ended /\ pc' \notin {"final", "ended"}
         \/ pc \in {"final", "ended"} /\ pc' \in Ended
         \/ pc' = pc,
         pc' = "raised" \/ pc # "raised" \/ pc' = pc
  PROVE  FInv'
<1>1. Sequences_' /\ Numbered' /\ Told'
  BY DEF FInv, Sequences_, Numbered, Told, handler
<1>2. OneFinal'
  BY DEF FInv, OneFinal, Ended
<1>3. Known'
  BY DEF FInv, Known, handler
<1> QED
  BY <1>1, <1>2, <1>3 DEF FInv

\* An event is read: its finish reason and its usage replace the earlier ones.
LEMMA KnownReceive ==
  ASSUME FInv, pc # "raised",
         NEW e, received' = Append(received, e),
         finishReason' = IF e.finish THEN Len(received) + 1 ELSE finishReason,
         \A k \in Counters :
           usage'[k] = IF k \in e.usage THEN Len(received) + 1 ELSE usage[k]
  PROVE  IsSequence(received') /\ Known'
<1>1. IsSequence(received)
  BY DEF FInv, Sequences_
<1>2. IsSequence(received')
  BY <1>1, Appended
<1>3. IsLast(finishReason', FinishesIn(received'))
  BY <1>1, LastOfMore DEF FInv, Known
<1>4. ASSUME NEW k \in Counters
      PROVE  IsLast(usage'[k], ReportsIn(received', k))
  <2>1. IsLast(usage[k], ReportsIn(received, k))
    BY DEF FInv, Known
  <2> QED
    BY <1>1, <2>1, LastOfMore
<1> QED
  BY <1>2, <1>3, <1>4 DEF Known

\* A chunk is yielded before the final one.
LEMMA ChunkYielded ==
  ASSUME FInv, pc \notin Ended, pc' \notin Ended,
         NEW c, chunks' = Append(chunks, c), ~c.final,
         c.index \in Nat, chunkIndex <= c.index,
         chunkIndex' \in Nat, c.index < chunkIndex'
  PROVE  IsSequence(chunks') /\ Numbered' /\ OneFinal' /\ Told'
<1>1. /\ IsSequence(chunks')
      /\ Len(chunks) \in Nat
      /\ DOMAIN chunks = 1 .. Len(chunks)
      /\ DOMAIN chunks' = 1 .. Len(chunks) + 1
      /\ \A i \in 1 .. Len(chunks) : chunks'[i] = chunks[i]
      /\ chunks'[Len(chunks) + 1] = c
      /\ Last(chunks') = c
  BY Appended DEF FInv, Sequences_
<1>2. \A i \in DOMAIN chunks : ~chunks[i].final
  BY DEF FInv, OneFinal
<1>3. \A i \in DOMAIN chunks : chunks[i].index \in Nat /\ chunks[i].index < chunkIndex
  BY <1>2 DEF FInv, Numbered
<1>4. chunkIndex \in Nat
  BY DEF FInv, Sequences_
<1>5. \A i \in DOMAIN chunks' :
        chunks'[i].index \in Nat /\ chunks'[i].index < chunkIndex'
  BY <1>1, <1>3, <1>4
<1>6. \A i, j \in DOMAIN chunks' : i < j => chunks'[i].index < chunks'[j].index
  <2> SUFFICES ASSUME NEW i \in DOMAIN chunks', NEW j \in DOMAIN chunks', i < j
               PROVE  chunks'[i].index < chunks'[j].index
    OBVIOUS
  <2>1. i \in DOMAIN chunks
    BY <1>1
  <2>2. CASE j \in DOMAIN chunks
    BY <1>1, <2>1, <2>2 DEF FInv, Numbered
  <2>3. CASE j = Len(chunks) + 1
    BY <1>1, <1>3, <1>4, <2>1, <2>3
  <2> QED
    BY <1>1, <2>2, <2>3
<1>7. Numbered'
  BY <1>5, <1>6 DEF Numbered
<1>8. \A i \in DOMAIN chunks' : ~chunks'[i].final
  BY <1>1, <1>2
<1>9. OneFinal' /\ Told'
  BY <1>1, <1>8 DEF OneFinal, Told, Ended
<1> QED
  BY <1>1, <1>7, <1>9

\* Or there is nothing to yield.
LEMMA NothingYielded ==
  ASSUME FInv, pc \notin Ended, pc' \notin Ended, UNCHANGED chunks,
         chunkIndex' \in Nat, chunkIndex <= chunkIndex'
  PROVE  IsSequence(chunks') /\ Numbered' /\ OneFinal' /\ Told'
<1>1. IsSequence(chunks') /\ chunkIndex \in Nat
  BY DEF FInv, Sequences_
<1>2. \A i \in DOMAIN chunks : ~chunks[i].final
  BY DEF FInv, OneFinal
<1>3. Numbered'
  <2>1. \A i \in DOMAIN chunks : chunks[i].index \in Nat /\ chunks[i].index < chunkIndex'
    BY <1>1, <1>2 DEF FInv, Numbered
  <2> QED
    BY <2>1 DEF FInv, Numbered
<1>4. OneFinal'
  BY <1>2 DEF OneFinal, Ended
<1>5. Told'
  <2>1. chunks # <<>> => Len(chunks) \in DOMAIN chunks
    <3>1. PICK S : chunks \in Seq(S)
      BY DEF FInv, Sequences_, IsSequence
    <3> QED
      BY <3>1
  <2> QED
    BY <1>2, <2>1 DEF Told, Last
<1> QED
  BY <1>1, <1>3, <1>4, <1>5

\* Both together, for the events that have a text or not.
LEMMA FInvYield ==
  ASSUME FInv, pc = "reading", NEW text, Yield(text)
  PROVE  /\ IsSequence(chunks') /\ chunkIndex' \in Nat
         /\ Numbered' /\ OneFinal' /\ Told'
<1>1. chunkIndex \in Nat /\ pc \notin Ended
  BY DEF FInv, Sequences_, Ended
<1>2. CASE text = <<>>
  <2>1. UNCHANGED chunks /\ chunkIndex' = chunkIndex + 1 /\ pc' = "reading"
    BY <1>2 DEF Yield
  <2> QED
    BY <1>1, <2>1, NothingYielded DEF Ended
<1>3. CASE text # <<>>
  <2> DEFINE c == Chunk(chunkIndex + 1, text)
  <2>1. chunks' = Append(chunks, c) /\ chunkIndex' = chunkIndex + 2 /\ pc' = "yielded"
    BY <1>3 DEF Yield
  <2>2. ~c.final /\ c.index = chunkIndex + 1
    BY DEF Chunk
  <2> HIDE DEF c
  <2>3. /\ pc' \notin Ended /\ c.index \in Nat /\ chunkIndex <= c.index
        /\ chunkIndex' \in Nat /\ c.index < chunkIndex'
    BY <1>1, <2>1, <2>2 DEF Ended
  <2> QED
    BY <1>1, <2>1, <2>2, <2>3, ChunkYielded
<1> QED
  BY <1>2, <1>3

\* The final chunk tells what is known.
LEMMA FInvFinal ==
  ASSUME FInv, YieldFinal
  PROVE  FInv'
<1>1. PICK c :
        /\ chunks' = Append(chunks, c) /\ pc = "closed think" /\ pc' = "final"
        /\ UNCHANGED <<received, handler>>
        /\ c.index = chunkIndex /\ c.final /\ c.toolCalls = toolCalls
        /\ c.finish = finishReason /\ c.usage = usage
  <2> DEFINE d == [index |-> chunkIndex, text |-> <<>>, final |-> TRUE,
                   toolCalls |-> toolCalls, finish |-> finishReason, usage |-> usage]
  <2>1. /\ chunks' = Append(chunks, d) /\ pc = "closed think" /\ pc' = "final"
        /\ UNCHANGED <<received, handler>>
    BY DEF YieldFinal
  <2>2. /\ d.index = chunkIndex /\ d.final /\ d.toolCalls = toolCalls
        /\ d.finish = finishReason /\ d.usage = usage
    OBVIOUS
  <2> HIDE DEF d
  <2> QED
    BY <2>1, <2>2
<1>2. /\ IsSequence(chunks')
      /\ Len(chunks) \in Nat
      /\ DOMAIN chunks = 1 .. Len(chunks)
      /\ DOMAIN chunks' = 1 .. Len(chunks) + 1
      /\ Len(chunks') = Len(chunks) + 1
      /\ \A i \in 1 .. Len(chunks) : chunks'[i] = chunks[i]
      /\ chunks'[Len(chunks) + 1] = c
      /\ chunks' # <<>> /\ Last(chunks') = c
  <2>1. IsSequence(chunks)
    BY DEF FInv, Sequences_
  <2>2. chunks' = Append(chunks, c)
    BY <1>1
  <2>3. /\ IsSequence(chunks')
        /\ Len(chunks) \in Nat
        /\ DOMAIN chunks = 1 .. Len(chunks)
        /\ DOMAIN chunks' = 1 .. Len(chunks) + 1
        /\ \A i \in 1 .. Len(chunks) : chunks'[i] = chunks[i]
        /\ chunks'[Len(chunks) + 1] = c
    BY <2>1, <2>2, Appended
  <2>4. Len(chunks') = Len(chunks) + 1 /\ chunks' # <<>> /\ Last(chunks') = c
    BY <2>1, <2>2, Appended
  <2> QED
    BY <2>3, <2>4
<1>3. chunkIndex \in Nat /\ chunkIndex' = chunkIndex
  BY <1>1 DEF FInv, Sequences_, handler
<1>4. \A i \in DOMAIN chunks :
        ~chunks[i].final /\ chunks[i].index \in Nat /\ chunks[i].index < chunkIndex
  BY <1>1 DEF FInv, OneFinal, Numbered, Ended
<1>5. Sequences_'
  BY <1>1, <1>2, <1>3 DEF FInv, Sequences_
<1>6. Numbered'
  <2>1. \A i \in DOMAIN chunks' :
          chunks'[i].index \in Nat /\ (~chunks'[i].final => chunks'[i].index < chunkIndex')
    <3> SUFFICES ASSUME NEW i \in DOMAIN chunks'
                 PROVE  /\ chunks'[i].index \in Nat
                        /\ ~chunks'[i].final => chunks'[i].index < chunkIndex'
      OBVIOUS
    <3>1. CASE i \in DOMAIN chunks
      BY <1>2, <1>3, <1>4, <3>1
    <3>2. CASE i = Len(chunks) + 1
      BY <1>1, <1>2, <1>3, <3>2
    <3> QED
      BY <1>2, <3>1, <3>2
  <2>2. ASSUME NEW i \in DOMAIN chunks', NEW j \in DOMAIN chunks', i < j
        PROVE  chunks'[i].index < chunks'[j].index
    <3>1. i \in DOMAIN chunks
      BY <1>2, <2>2
    <3>2. CASE j \in DOMAIN chunks
      BY <1>2, <2>2, <3>1, <3>2 DEF FInv, Numbered
    <3>3. CASE j = Len(chunks) + 1
      BY <1>1, <1>2, <1>4, <3>1, <3>3
    <3> QED
      BY <1>2, <2>2, <3>2, <3>3
  <2> QED
    BY <2>1, <2>2 DEF Numbered
<1>7. OneFinal'
  <2>1. \A i \in DOMAIN chunks' : chunks'[i].final => i = Len(chunks')
    BY <1>2, <1>4
  <2>2. chunks' # <<>> /\ Last(chunks').final
    BY <1>1, <1>2
  <2> QED
    BY <1>1, <2>1, <2>2 DEF OneFinal, Ended
<1>8. Known' /\ Told'
  BY <1>1, <1>2 DEF FInv, Known, Told, handler
<1> QED
  BY <1>5, <1>6, <1>7, <1>8 DEF FInv

LEMMA FInvNext == FInv /\ [Next]_vars => FInv'
<1> SUFFICES ASSUME FInv, [Next]_vars
             PROVE  FInv'
  OBVIOUS
<1>1. CASE Start
  BY <1>1, FInvSilent DEF Start, Ended
<1>2. CASE Resume
  BY <1>2, FInvSilent DEF Resume, Ended
<1>3. CASE Abandon
  BY <1>3, FInvSilent DEF Abandon, Leave, Ended
<1>4. CASE ReadSkipped
  <2>1. /\ received' = Append(received, Blank) /\ pc = "reading" /\ pc' = pc
        /\ UNCHANGED <<chunks, handler>>
    BY <1>4 DEF ReadSkipped, Receive
  <2>2. ~Blank.finish /\ Blank.usage = {}
    BY DEF Blank
  <2>3. IsSequence(received') /\ Known'
    BY <2>1, <2>2, KnownReceive DEF handler
  <2>4. chunkIndex' \in Nat /\ chunkIndex <= chunkIndex'
    BY <2>1 DEF FInv, Sequences_, handler
  <2>5. IsSequence(chunks') /\ Numbered' /\ OneFinal' /\ Told'
    BY <2>1, <2>4, NothingYielded DEF Ended
  <2> QED
    BY <2>3, <2>4, <2>5 DEF FInv, Sequences_
<1>5. CASE ReadUsage
  <2>1. PICK k \in Counters : Receive([Blank EXCEPT !.usage = {k}])
    BY <1>5 DEF ReadUsage
  <2> DEFINE e == [Blank EXCEPT !.usage = {k}]
  <2>2. /\ received' = Append(received, e) /\ pc = "reading" /\ pc' = pc
        /\ finishReason' = finishReason /\ chunkIndex' = chunkIndex /\ UNCHANGED chunks
    BY <1>5, <2>1 DEF ReadUsage, Receive
  <2>3. ~e.finish
    BY DEF Blank
  <2> HIDE DEF e
  <2>4. Last(received') = e /\ Len(received') = Len(received) + 1
    BY <2>2, Appended DEF FInv, Sequences_
  <2>5. \A l \in Counters :
          usage'[l] = IF l \in e.usage THEN Len(received) + 1 ELSE usage[l]
    BY <1>5, <2>4 DEF ReadUsage
  <2>6. IsSequence(received') /\ Known'
    BY <2>2, <2>3, <2>5, KnownReceive
  <2>7. chunkIndex' \in Nat /\ chunkIndex <= chunkIndex'
    BY <2>2 DEF FInv, Sequences_
  <2>8. IsSequence(chunks') /\ Numbered' /\ OneFinal' /\ Told'
    BY <2>2, <2>7, NothingYielded DEF Ended
  <2> QED
    BY <2>6, <2>7, <2>8 DEF FInv, Sequences_
<1>6. CASE ReadDelta
  <2>1. PICK e \in Deltas :
          /\ Receive(e)
          /\ finishReason' = IF e.finish THEN Len(received) + 1 ELSE finishReason
          /\ Yield(textOf(e, Len(received) + 1).text)
    BY <1>6 DEF ReadDelta
  <2>2. e.usage = {}
    BY DEF Deltas
  <2>3. received' = Append(received, e) /\ pc = "reading" /\ usage' = usage
    BY <1>6, <2>1 DEF ReadDelta, Receive
  <2>4. IsSequence(received') /\ Known'
    BY <2>1, <2>2, <2>3, KnownReceive
  <2> QED
    BY <2>1, <2>3, <2>4, FInvYield DEF FInv, Sequences_
<1>7. CASE ReadHeadless
  <2>1. PICK e : received' = Append(received, e)
    BY <1>7 DEF ReadHeadless
  <2>2. pc = "reading" /\ pc' = "raised" /\ UNCHANGED <<chunks, handler>>
    BY <1>7 DEF ReadHeadless, Leave
  <2>3. IsSequence(received')
    BY <2>1, Appended DEF FInv, Sequences_
  <2>4. chunkIndex' \in Nat /\ chunkIndex <= chunkIndex'
    BY <2>2 DEF FInv, Sequences_, handler
  <2>5. IsSequence(chunks') /\ Numbered' /\ OneFinal' /\ Told'
    BY <2>2, <2>4, NothingYielded DEF Ended
  <2>6. Known'
    BY <2>2 DEF Known
  <2> QED
    BY <2>3, <2>4, <2>5, <2>6 DEF FInv, Sequences_
<1>8. CASE ReadText
  <2>1. PICK c \in BOOLEAN, f \in May("finish") :
          /\ Receive([Blank EXCEPT !.content = c, !.finish = f])
          /\ finishReason' = IF f THEN Len(received) + 1 ELSE finishReason
          /\ Yield(IF c THEN Text("say", Len(received) + 1) ELSE <<>>)
    BY <1>8 DEF ReadText
  <2> DEFINE e == [Blank EXCEPT !.content = c, !.finish = f]
  <2>2. e.usage = {} /\ e.finish = f
    BY DEF Blank
  <2>3. received' = Append(received, e) /\ pc = "reading" /\ usage' = usage
    BY <1>8, <2>1 DEF ReadText, Receive
  <2> HIDE DEF e
  <2>4. IsSequence(received') /\ Known'
    BY <2>1, <2>2, <2>3, KnownReceive
  <2> QED
    BY <2>1, <2>3, <2>4, FInvYield DEF FInv, Sequences_
<1>9. CASE ReadError
  BY <1>9, FInvSilent DEF ReadError, Leave, Ended
<1>10. CASE ReadEnd
  <2>1. /\ pc = "reading" /\ pc' \notin Ended \cup {"raised"}
        /\ UNCHANGED <<received, finishReason, usage>>
    BY <1>10 DEF ReadEnd, Ended
  <2>2. Known' /\ chunkIndex \in Nat
    BY <2>1 DEF FInv, Known, Sequences_
  <2>3. CASE isReasoning
    <3> DEFINE c == Chunk(chunkIndex, Tag("close"))
    <3>1. chunks' = Append(chunks, c) /\ chunkIndex' = chunkIndex + 1
      BY <1>10, <2>3 DEF ReadEnd
    <3>2. ~c.final /\ c.index = chunkIndex
      BY DEF Chunk
    <3> HIDE DEF c
    <3>3. /\ pc \notin Ended /\ pc' \notin Ended /\ chunkIndex <= c.index
          /\ chunkIndex' \in Nat /\ c.index < chunkIndex'
      BY <2>1, <2>2, <3>1, <3>2 DEF Ended
    <3>4. IsSequence(chunks') /\ Numbered' /\ OneFinal' /\ Told'
      BY <2>2, <3>1, <3>2, <3>3, ChunkYielded
    <3> QED
      BY <2>1, <2>2, <3>3, <3>4 DEF FInv, Sequences_
  <2>4. CASE ~isReasoning
    <3>1. UNCHANGED <<chunks, chunkIndex>>
      BY <1>10, <2>4 DEF ReadEnd
    <3>2. chunkIndex' \in Nat /\ chunkIndex <= chunkIndex'
      BY <2>2, <3>1
    <3>3. IsSequence(chunks') /\ Numbered' /\ OneFinal' /\ Told'
      BY <2>1, <3>1, <3>2, NothingYielded DEF Ended
    <3> QED
      BY <2>1, <2>2, <3>2, <3>3 DEF FInv, Sequences_
  <2> QED
    BY <2>3, <2>4
<1>11. CASE YieldFinal
  BY <1>11, FInvFinal
<1>12. CASE UNCHANGED vars
  BY <1>12, FInvSilent DEF vars, handler
<1> QED
  BY <1>1, <1>2, <1>3, <1>4, <1>5, <1>6, <1>7, <1>8, <1>9, <1>10, <1>11, <1>12 DEF Next

\* The CHOOSE of LastEvent finds what IsLast describes.
LEMMA LastIsChosen ==
  ASSUME NEW ns, ns \subseteq Nat, NEW v, IsLast(v, ns)
  PROVE  /\ ns = {} => v = None
         /\ ns # {} => v = CHOOSE n \in ns : \A m \in ns : m <= n
<1>1. CASE ns = {}
  BY <1>1 DEF IsLast
<1>2. CASE ns # {}
  <2> DEFINE w == CHOOSE n \in ns : \A m \in ns : m <= n
  <2>1. v \in ns /\ \A m \in ns : m <= v
    BY <1>2 DEF IsLast
  <2>2. w \in ns /\ \A m \in ns : m <= w
    BY <2>1
  <2>3. v <= w /\ w <= v /\ v \in Nat /\ w \in Nat
    BY <2>1, <2>2
  <2> HIDE DEF w
  <2>4. v = w
    BY <2>3
  <2>5. v = CHOOSE n \in ns : \A m \in ns : m <= n
    BY <2>4, Zenon DEF w
  <2> QED
    BY <1>2, <2>5, Zenon
<1> QED
  BY <1>1, <1>2

LEMMA FInvTells == FInv => FinalChunkTellsAll
<1> SUFFICES ASSUME FInv
             PROVE  FinalChunkTellsAll
  OBVIOUS
<1>1. DOMAIN received \subseteq Nat
  BY DEF FInv, Sequences_, IsSequence
<1>2. \A i, j \in DOMAIN chunks : i < j => chunks[i].index < chunks[j].index
  BY DEF FInv, Numbered
<1>3. /\ \A i \in DOMAIN chunks :
           chunks[i].final => i = Len(chunks) /\ pc \in {"final", "ended", "abandoned"}
      /\ pc = "ended" => chunks # <<>> /\ Last(chunks).final
  BY DEF FInv, OneFinal, Ended
<1>4. ASSUME chunks # <<>>, Last(chunks).final
      PROVE  /\ Last(chunks).finish = LastEvent(LAMBDA e : e.finish)
             /\ \A k \in Counters : Last(chunks).usage[k] = LastEvent(LAMBDA e : k \in e.usage)
             /\ Last(chunks).toolCalls = toolCalls
  <2>1. /\ Last(chunks).finish = finishReason
        /\ Last(chunks).usage = usage
        /\ Last(chunks).toolCalls = toolCalls
    BY <1>4 DEF FInv, Told
  <2>2. pc # "raised"
    <3>1. Len(chunks) \in DOMAIN chunks /\ Last(chunks) = chunks[Len(chunks)]
      <4>1. PICK S : chunks \in Seq(S)
        BY DEF FInv, Sequences_, IsSequence
      <4> QED
        BY <1>4, <4>1 DEF Last
    <3> QED
      BY <1>3, <1>4, <3>1
  <2>3. finishReason = LastEvent(LAMBDA e : e.finish)
    <3>1. IsLast(finishReason, FinishesIn(received)) /\ FinishesIn(received) \subseteq Nat
      BY <1>1, <2>2 DEF FInv, Known, FinishesIn
    <3>2. finishReason = IF FinishesIn(received) = {} THEN None
                         ELSE CHOOSE n \in FinishesIn(received) :
                                \A m \in FinishesIn(received) : m <= n
      BY <3>1, LastIsChosen
    <3> QED
      BY <3>2 DEF LastEvent, FinishesIn
  <2>4. ASSUME NEW k \in Counters
        PROVE  usage[k] = LastEvent(LAMBDA e : k \in e.usage)
    <3>1. IsLast(usage[k], ReportsIn(received, k)) /\ ReportsIn(received, k) \subseteq Nat
      BY <1>1, <2>2 DEF FInv, Known, ReportsIn
    <3>2. usage[k] = IF ReportsIn(received, k) = {} THEN None
                     ELSE CHOOSE n \in ReportsIn(received, k) :
                            \A m \in ReportsIn(received, k) : m <= n
      BY <3>1, LastIsChosen
    <3> QED
      BY <3>2 DEF LastEvent, ReportsIn
  <2> QED
    BY <2>1, <2>3, <2>4
<1> QED
  BY <1>2, <1>3, <1>4 DEF FinalChunkTellsAll

(***************************************************************************)
(* A stream that ends well ends with one final chunk, that has the last    *)
(* finish reason, the last report of every counter and every tool call; a  *)
(* stream that fails has none.                                             *)
(***************************************************************************)
THEOREM TheLastWord == Spec => []FinalChunkTellsAll
<1>1. Spec => []FInv
  BY FInvInit, FInvNext, PTL DEF Spec
<1> QED
  BY <1>1, FInvTells, PTL

(***************************************************************************)
(* Induction. The library's induction takes an operator as its parameter,  *)
(* which no prover here can instantiate: a set of numbers does instead.    *)
(***************************************************************************)
\* Less-than, as the set of pairs that the library's theorems speak of.
LEMMA Less == \E R : /\ IsWellFoundedOn(R, Nat)
                     /\ \A m, n \in Nat : m < n => <<m, n>> \in R
<1>1. IsWellFoundedOn(OpToRel(<, Nat), Nat)
  BY NatLessThanWellFounded
<1>2. \A m, n \in Nat : m < n => <<m, n>> \in OpToRel(<, Nat)
  BY DEF OpToRel
<1> QED BY <1>1, <1>2

\* A set of numbers that is not empty has a least one.
LEMMA Least ==
  ASSUME NEW S \in SUBSET Nat, S # {}
  PROVE  \E x \in S : \A y \in S : x <= y
<1>1. PICK R : IsWellFoundedOn(R, Nat) /\ \A m, n \in Nat : m < n => <<m, n>> \in R
  BY Less
<1>2. PICK x \in S : \A y \in S : ~ (<<y, x>> \in R)
  <2>1. IsWellFoundedOn(R, Nat) /\ S \subseteq Nat
    BY <1>1
  <2>2. \E x \in S : \A y \in S : ~ (<<y, x>> \in R)
    BY <2>1, WFMin, Zenon
  <2> QED
    BY <2>2
<1>3. ASSUME NEW y \in S PROVE x <= y
  <2>1. x \in Nat /\ y \in Nat /\ ~(y < x)
    BY <1>1, <1>2
  <2> QED
    BY <2>1
<1> QED
  BY <1>3

\* Induction: a set of numbers that has 0 and every successor has them all.
LEMMA SetInduction ==
  ASSUME NEW T \in SUBSET Nat, 0 \in T, \A n \in T : n + 1 \in T
  PROVE  T = Nat
<1>1. SUFFICES ASSUME Nat \ T # {} PROVE FALSE
  OBVIOUS
<1>2. PICK U \in SUBSET Nat : U = Nat \ T
  OBVIOUS
<1>3. PICK x \in U : \A y \in U : x <= y
  BY <1>1, <1>2, Least
<1>4. x \in Nat /\ x # 0
  BY <1>2, <1>3
<1>5. x - 1 \in Nat /\ x - 1 < x /\ (x - 1) + 1 = x
  BY <1>4
<1>6. x - 1 \in T
  BY <1>2, <1>3, <1>5
<1> QED
  BY <1>2, <1>3, <1>5, <1>6

(***************************************************************************)
(* FlattenSeq is a recursive function: what it does with one sequence more *)
(* follows from the concatenations it is built of.                         *)
(***************************************************************************)
\* f[i] is the concatenation of the first i sequences of s.
Partial(s, n, f) == \A i \in 1 .. n : f[i] = IF i = 1 THEN s[i] ELSE f[i - 1] \o s[i]

\* The first n sequences can be concatenated.
LEMMA PartialExists ==
  ASSUME NEW X, NEW s \in Seq(Seq(X)), NEW n \in Nat, n <= Len(s)
  PROVE  \E f \in [1 .. n -> Seq(X)] : Partial(s, n, f)
<1> DEFINE T == {m \in Nat : m <= Len(s) => \E f \in [1 .. m -> Seq(X)] : Partial(s, m, f)}
<1>1. 0 \in T
  <2>1. [i \in 1 .. 0 |-> <<>>] \in [1 .. 0 -> Seq(X)]
    OBVIOUS
  <2>2. Partial(s, 0, [i \in 1 .. 0 |-> <<>>])
    BY DEF Partial
  <2> QED
    BY <2>1, <2>2
<1>2. ASSUME NEW m \in T PROVE m + 1 \in T
  <2>1. SUFFICES ASSUME m + 1 <= Len(s)
                 PROVE  \E f \in [1 .. m + 1 -> Seq(X)] : Partial(s, m + 1, f)
    OBVIOUS
  <2>2. PICK f \in [1 .. m -> Seq(X)] : Partial(s, m, f)
    BY <2>1
  <2>3. PICK y \in Seq(X) : y = IF m = 0 THEN s[1] ELSE f[m] \o s[m + 1]
    <3>1. m + 1 \in 1 .. Len(s) /\ s[m + 1] \in Seq(X)
      BY <2>1
    <3>2. CASE m = 0
      BY <3>1, <3>2
    <3>3. CASE m # 0
      <4>1. m \in 1 .. m /\ f[m] \in Seq(X)
        BY <2>2, <3>3
      <4>2. f[m] \o s[m + 1] \in Seq(X)
        BY <3>1, <4>1
      <4> QED
        BY <3>3, <4>2
    <3> QED
      BY <3>2, <3>3
  <2>4. PICK g : g = [i \in 1 .. m + 1 |-> IF i = m + 1 THEN y ELSE f[i]]
    OBVIOUS
  <2>5. g \in [1 .. m + 1 -> Seq(X)]
    BY <2>4
  <2>6. ASSUME NEW i \in 1 .. m + 1
        PROVE  g[i] = IF i = 1 THEN s[i] ELSE g[i - 1] \o s[i]
    <3>1. CASE i = m + 1
      BY <2>3, <2>4, <3>1
    <3>2. CASE i # m + 1
      <4>1. i \in 1 .. m /\ g[i] = f[i] /\ (i # 1 => g[i - 1] = f[i - 1])
        BY <2>4, <3>2
      <4> QED
        BY <2>2, <4>1 DEF Partial
    <3> QED
      BY <3>1, <3>2
  <2> QED
    BY <2>5, <2>6 DEF Partial
<1>3. T = Nat
  <2> HIDE DEF T
  <2>1. T \in SUBSET Nat
    BY DEF T
  <2> QED
    BY <1>1, <1>2, <2>1, SetInduction
<1> QED
  BY <1>3

\* FlattenSeq is what those concatenations end with.
LEMMA FlattenIs ==
  ASSUME NEW X, NEW s \in Seq(Seq(X)), Len(s) # 0,
         NEW f \in [1 .. Len(s) -> Seq(X)], Partial(s, Len(s), f)
  PROVE  FlattenSeq(s) = f[Len(s)]
<1>1. PICK n \in Nat \ {0} : n = Len(s)
  OBVIOUS
<1> DEFINE G(g) == [i \in 1 .. Len(s) |-> IF i = 1 THEN s[i] ELSE g[i - 1] \o s[i]]
<1>2. f = G(f)
  BY DEF Partial
<1>3. PICK g : g = G(g) /\ FlattenSeq(s) = g[Len(s)]
  <2>1. PICK g : g = CHOOSE h : h = G(h)
    OBVIOUS
  <2>2. g = G(g)
    BY <1>2, <2>1
  <2>3. FlattenSeq(s) = g[Len(s)]
    BY <2>1 DEF FlattenSeq
  <2> QED
    BY <2>2, <2>3
<1> DEFINE T == {m \in Nat : m + 1 \in 1 .. n => f[m + 1] = g[m + 1]}
<1>4. 0 \in T
  BY <1>1, <1>2, <1>3
<1>5. ASSUME NEW m \in T PROVE m + 1 \in T
  <2>1. SUFFICES ASSUME m + 2 \in 1 .. n PROVE f[m + 2] = g[m + 2]
    OBVIOUS
  <2>2. m + 1 \in 1 .. n /\ f[m + 1] = g[m + 1] /\ m + 2 # 1 /\ (m + 2) - 1 = m + 1
    BY <2>1
  <2>3. f[m + 2] = f[m + 1] \o s[m + 2]
    BY <1>1, <2>1, <2>2 DEF Partial
  <2>4. g[m + 2] = g[m + 1] \o s[m + 2]
    BY <1>1, <1>3, <2>1, <2>2
  <2> QED
    BY <2>2, <2>3, <2>4
<1>6. T = Nat
  <2> HIDE DEF T
  <2>1. T \in SUBSET Nat
    BY DEF T
  <2> QED
    BY <1>4, <1>5, <2>1, SetInduction
<1>7. n - 1 \in Nat /\ (n - 1) + 1 = n /\ n \in 1 .. n
  BY <1>1
<1>8. f[n] = g[n]
  BY <1>6, <1>7
<1> QED
  BY <1>1, <1>3, <1>8

\* Nothing to flatten.
LEMMA FlattenEmpty == FlattenSeq(<<>>) = <<>>
BY DEF FlattenSeq

\* One more sequence to flatten.
LEMMA FlattenAppend ==
  ASSUME NEW X, NEW s \in Seq(Seq(X)), NEW x \in Seq(X)
  PROVE  /\ FlattenSeq(s) \in Seq(X)
         /\ FlattenSeq(Append(s, x)) = FlattenSeq(s) \o x
<1>1. PICK n \in Nat : n = Len(s)
  OBVIOUS
<1>2. PICK f \in [1 .. n -> Seq(X)] : Partial(s, n, f)
  BY <1>1, PartialExists
<1>3. PICK y \in Seq(X) : y = FlattenSeq(s) /\ (n # 0 => y = f[n])
  <2>1. CASE n = 0
    <3>1. s = <<>>
      BY <1>1, <2>1, EmptySeq
    <3>2. FlattenSeq(s) = <<>>
      BY <3>1, FlattenEmpty
    <3>3. <<>> \in Seq(X)
      BY EmptySeq
    <3> QED
      BY <2>1, <3>2, <3>3
  <2>2. CASE n # 0
    <3>1. FlattenSeq(s) = f[n]
      BY <1>1, <1>2, <2>2, FlattenIs
    <3>2. f[n] \in Seq(X)
      BY <1>2, <2>2
    <3> QED
      BY <3>1, <3>2
  <2> QED
    BY <2>1, <2>2
<1>4. PICK t \in Seq(Seq(X)) : t = Append(s, x)
  BY AppendProperties
<1>5. PICK g : g = [i \in 1 .. n + 1 |-> IF i = n + 1 THEN y \o x ELSE f[i]]
  OBVIOUS
<1>6. Len(t) = n + 1 /\ t[n + 1] = x /\ \A i \in 1 .. n : t[i] = s[i]
  BY <1>1, <1>4
<1>7. g \in [1 .. Len(t) -> Seq(X)]
  BY <1>5, <1>6
<1>8. ASSUME NEW i \in 1 .. n + 1
      PROVE  g[i] = IF i = 1 THEN t[i] ELSE g[i - 1] \o t[i]
  <2>1. CASE i = n + 1 /\ n # 0
    <3>1. i - 1 = n /\ i # 1 /\ n \in 1 .. n + 1 /\ n # n + 1
      BY <2>1
    <3>2. g[i] = y \o x /\ g[n] = y /\ t[i] = x
      BY <1>3, <1>5, <1>6, <2>1, <3>1
    <3> QED
      BY <3>1, <3>2
  <2>2. CASE i = n + 1 /\ n = 0
    <3>1. y = <<>>
      <4>1. s = <<>>
        BY <1>1, <2>2, EmptySeq
      <4> QED
        BY <1>3, <4>1, FlattenEmpty
    <3>2. y \o x = x
      BY <3>1
    <3> QED
      BY <1>5, <1>6, <2>2, <3>2
  <2>3. CASE i # n + 1
    <3>1. i \in 1 .. n /\ g[i] = f[i] /\ (i # 1 => g[i - 1] = f[i - 1])
      BY <1>5, <2>3
    <3>2. t[i] = s[i]
      BY <1>6, <3>1
    <3> QED
      BY <1>2, <3>1, <3>2 DEF Partial
  <2> QED
    BY <2>1, <2>2, <2>3
<1>9. Partial(t, Len(t), g)
  BY <1>6, <1>8 DEF Partial
<1>10. FlattenSeq(t) = g[n + 1]
  BY <1>6, <1>7, <1>9, FlattenIs
<1>11. g[n + 1] = y \o x
  BY <1>5
<1> QED
  BY <1>3, <1>4, <1>10, <1>11

\* A sequence of sequences that is longer by one.
LEMMA FlattenMore ==
  ASSUME NEW X, NEW s \in Seq(Seq(X)), NEW t \in Seq(Seq(X)),
         Len(t) = Len(s) + 1, \A i \in 1 .. Len(s) : t[i] = s[i]
  PROVE  /\ FlattenSeq(s) \in Seq(X) /\ FlattenSeq(t) \in Seq(X)
         /\ t[Len(s) + 1] \in Seq(X)
         /\ FlattenSeq(t) = FlattenSeq(s) \o t[Len(s) + 1]
<1>1. PICK x \in Seq(X) : x = t[Len(s) + 1]
  BY LenProperties
<1>2. Append(s, x) \in Seq(Seq(X)) /\ Len(Append(s, x)) = Len(s) + 1
  BY AppendProperties
<1>3. \A i \in 1 .. Len(t) : t[i] = Append(s, x)[i]
  BY <1>1, <1>2, AppendProperties
<1>4. t = Append(s, x)
  BY <1>2, <1>3, SeqEqual
<1>5. FlattenSeq(s) \in Seq(X) /\ FlattenSeq(Append(s, x)) = FlattenSeq(s) \o x
  BY FlattenAppend
<1>6. FlattenSeq(t) \in Seq(X)
  BY FlattenAppend
<1> QED
  BY <1>1, <1>4, <1>5, <1>6

(***************************************************************************)
(* The text as it grows, one piece at a time: its words, its tags, and     *)
(* whether a think block is open where it ends.                            *)
(***************************************************************************)
\* A piece of text: a tag, or the word of the n-th event.
Piece == [tag : {"open", "close", "think", "say"}, n : Nat]

\* A text with one more piece.
LEMMA OneMore ==
  ASSUME NEW text \in Seq(Piece), NEW p \in Piece, NEW q, q = Append(text, p)
  PROVE  /\ q \in Seq(Piece) /\ Len(text) \in Nat
         /\ Len(q) = Len(text) + 1
         /\ DOMAIN text = 1 .. Len(text) /\ DOMAIN q = 1 .. Len(text) + 1
         /\ q[Len(text) + 1] = p
         /\ \A i \in 1 .. Len(text) : q[i] = text[i] /\ text[i] \in Piece
BY AppendProperties, LenProperties

\* The piece joins the tags or the words.
LEMMA WordsMore ==
  ASSUME NEW text \in Seq(Piece), NEW p \in Piece, NEW q, q = Append(text, p)
  PROVE  /\ Words(text) \in Seq(Piece) /\ Tags(text) \in Seq(Piece)
         /\ Words(q) = IF IsTag(p) THEN Words(text) ELSE Append(Words(text), p)
         /\ Tags(q) = IF IsTag(p) THEN Append(Tags(text), p) ELSE Tags(text)
<1>1. /\ q \in Seq(Piece) /\ Len(text) \in Nat
      /\ DOMAIN text = 1 .. Len(text) /\ DOMAIN q = 1 .. Len(text) + 1
      /\ q[Len(text) + 1] = p
      /\ \A i \in 1 .. Len(text) : q[i] = text[i] /\ text[i] \in Piece
  BY OneMore
<1>2. /\ Words(text) \in Seq(Piece)
      /\ Words(q) = IF IsTag(p) THEN Words(text) ELSE Append(Words(text), p)
  <2>1. PICK s : s = [i \in DOMAIN text |-> IF IsTag(text[i]) THEN <<>> ELSE <<text[i]>>]
    OBVIOUS
  <2>2. PICK t : t = [i \in DOMAIN q |-> IF IsTag(q[i]) THEN <<>> ELSE <<q[i]>>]
    OBVIOUS
  <2>3. s \in Seq(Seq(Piece)) /\ Len(s) = Len(text)
    <3>1. \A i \in 1 .. Len(text) : (IF IsTag(text[i]) THEN <<>> ELSE <<text[i]>>) \in Seq(Piece)
      BY <1>1
    <3> QED
      BY <1>1, <2>1, <3>1
  <2>4. t \in Seq(Seq(Piece)) /\ Len(t) = Len(text) + 1
    <3>1. \A i \in 1 .. Len(text) + 1 : (IF IsTag(q[i]) THEN <<>> ELSE <<q[i]>>) \in Seq(Piece)
      BY <1>1
    <3> QED
      BY <1>1, <2>2, <3>1
  <2>5. \A i \in 1 .. Len(s) : t[i] = s[i]
    BY <1>1, <2>1, <2>2, <2>3
  <2>6. FlattenSeq(s) \in Seq(Piece) /\ FlattenSeq(t) = FlattenSeq(s) \o t[Len(text) + 1]
    BY <2>3, <2>4, <2>5, FlattenMore
  <2>7. t[Len(text) + 1] = IF IsTag(p) THEN <<>> ELSE <<p>>
    BY <1>1, <2>2
  <2>8. Words(text) = FlattenSeq(s) /\ Words(q) = FlattenSeq(t)
    BY <2>1, <2>2 DEF Words
  <2>9. PICK w \in Seq(Piece) : w = Words(text)
    BY <2>6, <2>8
  <2>10. Append(w, p) = w \o <<p>> /\ w \o <<>> = w
    BY AppendIsConcat, ConcatEmptySeq
  <2> QED
    BY <2>6, <2>7, <2>8, <2>9, <2>10
<1>3. /\ Tags(text) \in Seq(Piece)
      /\ Tags(q) = IF IsTag(p) THEN Append(Tags(text), p) ELSE Tags(text)
  <2>1. PICK s : s = [i \in DOMAIN text |-> IF IsTag(text[i]) THEN <<text[i]>> ELSE <<>>]
    OBVIOUS
  <2>2. PICK t : t = [i \in DOMAIN q |-> IF IsTag(q[i]) THEN <<q[i]>> ELSE <<>>]
    OBVIOUS
  <2>3. s \in Seq(Seq(Piece)) /\ Len(s) = Len(text)
    <3>1. \A i \in 1 .. Len(text) : (IF IsTag(text[i]) THEN <<text[i]>> ELSE <<>>) \in Seq(Piece)
      BY <1>1
    <3> QED
      BY <1>1, <2>1, <3>1
  <2>4. t \in Seq(Seq(Piece)) /\ Len(t) = Len(text) + 1
    <3>1. \A i \in 1 .. Len(text) + 1 : (IF IsTag(q[i]) THEN <<q[i]>> ELSE <<>>) \in Seq(Piece)
      BY <1>1
    <3> QED
      BY <1>1, <2>2, <3>1
  <2>5. \A i \in 1 .. Len(s) : t[i] = s[i]
    BY <1>1, <2>1, <2>2, <2>3
  <2>6. FlattenSeq(s) \in Seq(Piece) /\ FlattenSeq(t) = FlattenSeq(s) \o t[Len(text) + 1]
    BY <2>3, <2>4, <2>5, FlattenMore
  <2>7. t[Len(text) + 1] = IF IsTag(p) THEN <<p>> ELSE <<>>
    BY <1>1, <2>2
  <2>8. Tags(text) = FlattenSeq(s) /\ Tags(q) = FlattenSeq(t)
    BY <2>1, <2>2 DEF Tags
  <2>9. PICK w \in Seq(Piece) : w = Tags(text)
    BY <2>6, <2>8
  <2>10. Append(w, p) = w \o <<p>> /\ w \o <<>> = w
    BY AppendIsConcat, ConcatEmptySeq
  <2> QED
    BY <2>6, <2>7, <2>8, <2>9, <2>10
<1> QED
  BY <1>2, <1>3

\* A think block is open where the text ends.
Thinking(text) == Inside(text, Len(text))

\* Tags open and close a block by turns.
Alternating(tags) == \A i \in DOMAIN tags : tags[i].tag = IF i % 2 = 1 THEN "open" ELSE "close"

\* What is inside a block is thought, what is outside is said.
Nested(text) ==
  /\ Alternating(Tags(text))
  /\ Thinking(text) <=> Len(Tags(text)) % 2 = 1
  /\ \A i \in DOMAIN text : ~IsTag(text[i]) => (text[i].tag = "think" <=> Inside(text, i))

\* One more piece does not move those before it.
LEMMA InsideMore ==
  ASSUME NEW text \in Seq(Piece), NEW p \in Piece, NEW q, q = Append(text, p)
  PROVE  /\ \A i \in 1 .. Len(text) : Inside(q, i) <=> Inside(text, i)
         /\ Thinking(q) <=> \/ p.tag = "open"
                            \/ p.tag # "close" /\ Thinking(text)
<1>1. /\ Len(text) \in Nat /\ Len(q) = Len(text) + 1
      /\ q[Len(text) + 1] = p
      /\ \A i \in 1 .. Len(text) : q[i] = text[i]
  BY OneMore
<1>2. ASSUME NEW i \in 1 .. Len(text) PROVE Inside(q, i) <=> Inside(text, i)
  <2>1. \A j \in 1 .. i : j \in 1 .. Len(text) /\ \A k \in j .. i : k \in 1 .. Len(text)
    BY <1>1
  <2>2. \A j \in 1 .. i : q[j].tag = text[j].tag
    BY <1>1, <2>1
  <2>3. \A j \in 1 .. i : \A k \in j .. i : q[k].tag = text[k].tag
    BY <1>1, <2>1
  <2> QED
    BY <2>2, <2>3 DEF Inside
<1>3. PICK n \in Nat : n = Len(text)
  BY <1>1
<1>4. \A k \in 1 .. n : q[k].tag = text[k].tag
  BY <1>1, <1>3
<1>5. q[n + 1].tag = p.tag
  BY <1>1, <1>3
<1>6. CASE p.tag = "open"
  <2>1. n + 1 \in 1 .. n + 1 /\ \A k \in n + 1 .. n + 1 : k = n + 1
    OBVIOUS
  <2>2. q[n + 1].tag = "open" /\ \A k \in n + 1 .. n + 1 : q[k].tag # "close"
    BY <1>5, <1>6, <2>1
  <2>3. Inside(q, n + 1)
    BY <2>1, <2>2 DEF Inside
  <2> QED
    BY <1>1, <1>2, <1>3, <1>6, <2>3 DEF Thinking
<1>7. CASE p.tag = "close"
  <2>1. \A j \in 1 .. n + 1 : n + 1 \in j .. n + 1
    OBVIOUS
  <2>2. ~Inside(q, n + 1)
    BY <1>5, <1>7, <2>1 DEF Inside
  <2> QED
    BY <1>1, <1>2, <1>3, <1>7, <2>2 DEF Thinking
<1>8. CASE p.tag # "open" /\ p.tag # "close"
  <2>1. ASSUME Inside(q, n + 1) PROVE Inside(text, n)
    <3>1. PICK j \in 1 .. n + 1 : q[j].tag = "open" /\ \A k \in j .. n + 1 : q[k].tag # "close"
      BY <2>1 DEF Inside
    <3>2. j # n + 1
      BY <1>5, <1>8, <3>1
    <3> j \in 1 .. n
      BY <3>2
    <3>3. \A k \in j .. n : k \in j .. n + 1 /\ k \in 1 .. n
      BY <3>2
    <3> QED
      BY <1>4, <3>1, <3>2, <3>3 DEF Inside
  <2>2. ASSUME Inside(text, n) PROVE Inside(q, n + 1)
    <3>1. PICK j \in 1 .. n : text[j].tag = "open" /\ \A k \in j .. n : text[k].tag # "close"
      BY <2>2 DEF Inside
    <3>2. \A k \in j .. n + 1 : (k \in j .. n /\ k \in 1 .. n) \/ k = n + 1
      OBVIOUS
    <3>3. \A k \in j .. n + 1 : q[k].tag # "close"
      BY <1>4, <1>5, <1>8, <3>1, <3>2
    <3>4. j \in 1 .. n + 1
      OBVIOUS
    <3>5. q[j].tag = "open"
      BY <1>4, <3>1
    <3> QED
      BY <3>3, <3>4, <3>5 DEF Inside
  <2> QED
    BY <1>1, <1>2, <1>3, <1>8, <2>1, <2>2 DEF Thinking
<1> QED
  BY <1>6, <1>7, <1>8

\* A tag or a word that fits where the text ends leaves it nested.
LEMMA NestedMore ==
  ASSUME NEW text \in Seq(Piece), NEW p \in Piece, NEW q, q = Append(text, p),
         Nested(text), p.tag \in {"open", "say"} <=> ~Thinking(text)
  PROVE  Nested(q)
<1>1. /\ Len(text) \in Nat /\ DOMAIN text = 1 .. Len(text) /\ DOMAIN q = 1 .. Len(text) + 1
      /\ Len(q) = Len(text) + 1
      /\ q[Len(text) + 1] = p
      /\ \A i \in 1 .. Len(text) : q[i] = text[i]
  BY OneMore
<1>2. /\ \A i \in 1 .. Len(text) : Inside(q, i) <=> Inside(text, i)
      /\ Thinking(q) <=> \/ p.tag = "open"
                         \/ p.tag # "close" /\ Thinking(text)
  BY InsideMore
<1>3. PICK old \in Seq(Piece) : old = Tags(text)
  BY WordsMore
<1>4. Tags(q) = IF IsTag(p) THEN Append(old, p) ELSE old
  BY <1>3, WordsMore
<1>5. /\ Alternating(old)
      /\ Thinking(text) <=> Len(old) % 2 = 1
      /\ \A i \in DOMAIN text : ~IsTag(text[i]) => (text[i].tag = "think" <=> Inside(text, i))
  BY <1>3 DEF Nested
<1>6. p.tag \in {"open", "close", "think", "say"}
  BY DEF Piece
<1>7. Alternating(Tags(q)) /\ (Thinking(q) <=> Len(Tags(q)) % 2 = 1)
  <2>1. CASE IsTag(p)
    <3>1. PICK new : new = Append(old, p)
      OBVIOUS
    <3>2. /\ Len(old) \in Nat /\ Len(new) = Len(old) + 1
          /\ DOMAIN old = 1 .. Len(old) /\ DOMAIN new = 1 .. Len(old) + 1
          /\ new[Len(old) + 1] = p
          /\ \A i \in 1 .. Len(old) : new[i] = old[i]
      BY <3>1, OneMore
    <3>3. PICK n \in Nat : n = Len(old)
      BY <3>2
    <3>4. n % 2 = 1 <=> ~((n + 1) % 2 = 1)
      OBVIOUS
    <3>5. p.tag = IF (n + 1) % 2 = 1 THEN "open" ELSE "close"
      BY <1>5, <2>1, <3>3, <3>4 DEF IsTag
    <3>6. \A i \in 1 .. n : new[i].tag = IF i % 2 = 1 THEN "open" ELSE "close"
      BY <1>5, <3>2, <3>3 DEF Alternating
    <3>7. \A i \in 1 .. n + 1 : i \in 1 .. n \/ i = n + 1
      OBVIOUS
    <3>8. Alternating(new)
      BY <3>2, <3>3, <3>5, <3>6, <3>7 DEF Alternating
    <3>9. Thinking(q) <=> Len(new) % 2 = 1
      BY <1>2, <1>5, <2>1, <3>2, <3>3, <3>4 DEF IsTag
    <3> QED
      BY <1>4, <2>1, <3>1, <3>8, <3>9
  <2>2. CASE ~IsTag(p)
    BY <1>2, <1>4, <1>5, <2>2 DEF IsTag
  <2> QED
    BY <2>1, <2>2
<1>8. ASSUME NEW i \in DOMAIN q, ~IsTag(q[i])
      PROVE  q[i].tag = "think" <=> Inside(q, i)
  <2>1. CASE i \in 1 .. Len(text)
    BY <1>1, <1>2, <1>5, <1>8, <2>1
  <2>2. CASE i = Len(text) + 1
    <3>1. q[i] = p /\ (Inside(q, i) <=> Thinking(q))
      BY <1>1, <2>2 DEF Thinking
    <3> QED
      BY <1>2, <1>6, <1>8, <3>1 DEF IsTag
  <2> QED
    BY <1>1, <2>1, <2>2
<1> QED
  BY <1>7, <1>8 DEF Nested

(***************************************************************************)
(* A block is only closed by an event that shows something: the content,   *)
(* or a fragment of a tool call.                                           *)
(***************************************************************************)
\* The event closes an open block.
Shows(e) == e.content \/ e.fragments # <<>>

\* Two thoughts of two blocks: something was shown from the first to before the second.
Apart(text, events) ==
  \A i, j \in DOMAIN text :
    (i < j /\ text[i].tag = "think" /\ text[j].tag = "think" /\ Parted(text, i, j))
      => \E m \in text[i].n .. text[j].n - 1 : Shows(events[m])

\* Every thought is that of one of the first n events.
Thought(text, n) == \A i \in DOMAIN text : text[i].tag = "think" => text[i].n \in 1 .. n

\* A block that was closed was closed by something shown, at b at the latest.
Shut(text, b, events) ==
  \A i, k \in DOMAIN text :
    (i < k /\ text[i].tag = "think" /\ text[k].tag = "close")
      => \E m \in text[i].n .. b : Shows(events[m])

\* A text that may stand while the n-th event is turned into pieces.
Fit(text, b, n, events) ==
  /\ text \in Seq(Piece)
  /\ Nested(text) /\ Apart(text, events) /\ Thought(text, n) /\ Shut(text, b, events)

\* A thought that follows a closed block is apart from it.
LEMMA ApartMore ==
  ASSUME NEW text \in Seq(Piece), NEW p \in Piece, NEW q, q = Append(text, p),
         NEW events, Apart(text, events), p.tag = "think" => Shut(text, p.n - 1, events)
  PROVE  Apart(q, events)
<1>1. /\ Len(text) \in Nat /\ DOMAIN text = 1 .. Len(text) /\ DOMAIN q = 1 .. Len(text) + 1
      /\ q[Len(text) + 1] = p
      /\ \A i \in 1 .. Len(text) : q[i] = text[i]
  BY OneMore
<1>2. PICK l \in Nat : l = Len(text)
  BY <1>1
<1>3. SUFFICES ASSUME NEW i \in 1 .. l + 1, NEW j \in 1 .. l + 1,
                      i < j, q[i].tag = "think", q[j].tag = "think", Parted(q, i, j)
               PROVE  \E m \in q[i].n .. q[j].n - 1 : Shows(events[m])
  BY <1>1, <1>2 DEF Apart
<1>4. PICK k \in i .. j : q[k].tag = "close"
  BY <1>3 DEF Parted
<1>5. i \in 1 .. l /\ q[i] = text[i] /\ k # j /\ k # i
  BY <1>1, <1>2, <1>3, <1>4
<1>6. k \in 1 .. l /\ i < k /\ q[k] = text[k]
  BY <1>1, <1>2, <1>4, <1>5
<1>7. CASE j = l + 1
  <2>1. q[j] = p
    BY <1>1, <1>2, <1>7
  <2>2. Shut(text, p.n - 1, events)
    BY <1>3, <2>1
  <2>3. \E m \in text[i].n .. p.n - 1 : Shows(events[m])
    BY <1>1, <1>2, <1>3, <1>4, <1>5, <1>6, <2>2 DEF Shut
  <2> QED
    BY <1>5, <2>1, <2>3
<1>8. CASE j # l + 1
  <2>1. j \in 1 .. l /\ q[j] = text[j]
    BY <1>1, <1>2, <1>8
  <2>2. Parted(text, i, j)
    BY <1>4, <1>6 DEF Parted
  <2> QED
    BY <1>1, <1>2, <1>3, <1>5, <2>1, <2>2 DEF Apart
<1> QED
  BY <1>7, <1>8

\* A block is closed by what is shown.
LEMMA ShutMore ==
  ASSUME NEW text \in Seq(Piece), NEW p \in Piece, NEW q, q = Append(text, p),
         NEW events, NEW b \in Int, Shut(text, b, events),
         p.tag = "close" => Thought(text, b) /\ Shows(events[b])
  PROVE  Shut(q, b, events)
<1>1. /\ Len(text) \in Nat /\ DOMAIN text = 1 .. Len(text) /\ DOMAIN q = 1 .. Len(text) + 1
      /\ q[Len(text) + 1] = p
      /\ \A i \in 1 .. Len(text) : q[i] = text[i] /\ text[i] \in Piece
  BY OneMore
<1>2. PICK l \in Nat : l = Len(text)
  BY <1>1
<1>3. SUFFICES ASSUME NEW i \in 1 .. l + 1, NEW k \in 1 .. l + 1,
                      i < k, q[i].tag = "think", q[k].tag = "close"
               PROVE  \E m \in q[i].n .. b : Shows(events[m])
  BY <1>1, <1>2 DEF Shut
<1>4. i \in 1 .. l /\ q[i] = text[i] /\ text[i] \in Piece
  BY <1>1, <1>2, <1>3
<1>5. CASE k = l + 1
  <2>1. q[k] = p
    BY <1>1, <1>2, <1>5
  <2>2. Thought(text, b) /\ Shows(events[b])
    BY <1>3, <2>1
  <2>3. text[i].n <= b /\ text[i].n \in Nat
    BY <1>1, <1>2, <1>3, <1>4, <2>2 DEF Thought, Piece
  <2>4. b \in text[i].n .. b
    BY <2>3
  <2> QED
    BY <1>4, <2>2, <2>4
<1>6. CASE k # l + 1
  <2>1. k \in 1 .. l /\ q[k] = text[k]
    BY <1>1, <1>2, <1>6
  <2> QED
    BY <1>1, <1>2, <1>3, <1>4, <2>1 DEF Shut
<1> QED
  BY <1>5, <1>6

\* The thought of the event that is read.
LEMMA ThoughtMore ==
  ASSUME NEW text \in Seq(Piece), NEW p \in Piece, NEW q, q = Append(text, p),
         NEW n \in Nat, Thought(text, n), p.tag = "think" => p.n \in 1 .. n
  PROVE  Thought(q, n)
<1>1. /\ Len(text) \in Nat /\ DOMAIN text = 1 .. Len(text) /\ DOMAIN q = 1 .. Len(text) + 1
      /\ q[Len(text) + 1] = p
      /\ \A i \in 1 .. Len(text) : q[i] = text[i]
  BY OneMore
<1>2. SUFFICES ASSUME NEW i \in 1 .. Len(text) + 1, q[i].tag = "think" PROVE q[i].n \in 1 .. n
  BY <1>1 DEF Thought
<1>3. CASE i = Len(text) + 1
  BY <1>1, <1>2, <1>3
<1>4. CASE i \in 1 .. Len(text)
  BY <1>1, <1>2, <1>4 DEF Thought
<1> QED
  BY <1>1, <1>3, <1>4

\* What was closed, or thought, before an event was so after it.
LEMMA Longer ==
  ASSUME NEW text \in Seq(Piece), NEW events, NEW n \in Nat \ {0}
  PROVE  /\ Shut(text, n - 1, events) => Shut(text, n, events)
         /\ Thought(text, n - 1) => Thought(text, n)
<1>1. \A i \in DOMAIN text : text[i].n \in Nat
  <2>1. \A i \in DOMAIN text : text[i] \in Piece
    OBVIOUS
  <2> QED
    BY <2>1 DEF Piece
<1>2. ASSUME Shut(text, n - 1, events) PROVE Shut(text, n, events)
  <2>1. \A i \in DOMAIN text : \A m \in text[i].n .. n - 1 : m \in text[i].n .. n
    BY <1>1
  <2> QED
    BY <1>2, <2>1 DEF Shut
<1>3. ASSUME Thought(text, n - 1) PROVE Thought(text, n)
  BY <1>1, <1>3 DEF Thought
<1> QED
  BY <1>2, <1>3

\* The four together.
LEMMA FitMore ==
  ASSUME NEW n \in Nat \ {0}, NEW b, NEW events, NEW text, Fit(text, b, n, events),
         NEW p \in Piece, b = n - 1 \/ b = n,
         p.tag \in {"open", "say"} <=> ~Thinking(text),
         p.tag = "think" => p.n = n /\ b = n - 1,
         p.tag = "close" => b = n /\ Shows(events[n])
  PROVE  /\ Fit(Append(text, p), b, n, events)
         /\ Thinking(Append(text, p)) <=> p.tag \in {"open", "think"}
         /\ Words(Append(text, p)) = IF IsTag(p) THEN Words(text) ELSE Append(Words(text), p)
<1> text \in Seq(Piece)
  BY DEF Fit
<1>10. PICK q : q = Append(text, p)
  OBVIOUS
<1>1. q \in Seq(Piece)
  BY <1>10, OneMore
<1>2. Nested(text) /\ Apart(text, events) /\ Thought(text, n) /\ Shut(text, b, events)
  BY DEF Fit
<1>3. Nested(q)
  BY <1>2, <1>10, NestedMore
<1>4. Apart(q, events)
  BY <1>2, <1>10, ApartMore
<1>5. Thought(q, n)
  <2>1. p.tag = "think" => p.n \in 1 .. n
    OBVIOUS
  <2> QED
    BY <1>2, <1>10, <2>1, ThoughtMore
<1>6. Shut(q, b, events)
  <2>1. b \in Int
    OBVIOUS
  <2>2. p.tag = "close" => Thought(text, b) /\ Shows(events[b])
    BY <1>2
  <2> QED
    BY <1>2, <1>10, <2>1, <2>2, ShutMore
<1>7. Thinking(q) <=> p.tag = "open" \/ (p.tag # "close" /\ Thinking(text))
  BY <1>10, InsideMore
<1>8. p.tag \in {"open", "close", "think", "say"}
  BY DEF Piece
<1>9. Thinking(q) <=> p.tag \in {"open", "think"}
  BY <1>7, <1>8
<1> QED
  BY <1>1, <1>3, <1>4, <1>5, <1>6, <1>9, <1>10, WordsMore DEF Fit

(***************************************************************************)
(* What the n-th event adds to a text: the pieces s, whose words are w. A  *)
(* thought is added while b is n - 1, a closing tag when it is n.          *)
(***************************************************************************)
\* The text fits with the pieces, and they say the words.
Reached(text, s, w, b, n, events) ==
  /\ s \in Seq(Piece) /\ w \in Seq(Piece)
  /\ Fit(text \o s, b, n, events)
  /\ Words(text \o s) = Words(text) \o w

\* One piece further.
LEMMA Further ==
  ASSUME NEW text \in Seq(Piece), NEW n \in Nat \ {0}, NEW b, b = n - 1 \/ b = n, NEW events,
         NEW s, NEW w, Reached(text, s, w, b, n, events),
         NEW p \in Piece,
         p.tag \in {"open", "say"} <=> ~Thinking(text \o s),
         p.tag = "think" => p.n = n /\ b = n - 1,
         p.tag = "close" => b = n /\ Shows(events[n])
  PROVE  /\ Reached(text, s \o <<p>>, IF IsTag(p) THEN w ELSE w \o <<p>>, b, n, events)
         /\ Thinking(text \o (s \o <<p>>)) <=> p.tag \in {"open", "think"}
<1>1. s \in Seq(Piece) /\ w \in Seq(Piece) /\ <<p>> \in Seq(Piece)
  BY DEF Reached
<1>2. PICK t \in Seq(Piece) : t = text \o s
  BY <1>1, ConcatProperties
<1>3. PICK q \in Seq(Piece) : q = Append(t, p)
  BY AppendProperties
<1>4. q = text \o (s \o <<p>>)
  <2>1. q = t \o <<p>>
    BY <1>3, AppendIsConcat
  <2>2. text \o (s \o <<p>>) = (text \o s) \o <<p>>
    BY <1>1, ConcatAssociative
  <2> QED
    BY <1>2, <2>1, <2>2
<1>5. /\ Fit(q, b, n, events)
      /\ Thinking(q) <=> p.tag \in {"open", "think"}
      /\ Words(q) = IF IsTag(p) THEN Words(t) ELSE Append(Words(t), p)
  <2>1. Fit(t, b, n, events)
    BY <1>2 DEF Reached
  <2>2. p.tag \in {"open", "say"} <=> ~Thinking(t)
    BY <1>2
  <2>3. /\ p.tag = "think" => p.n = n /\ b = n - 1
        /\ p.tag = "close" => b = n /\ Shows(events[n])
    OBVIOUS
  <2> QED
    BY <1>3, <2>1, <2>2, <2>3, FitMore
<1>6. PICK v \in Seq(Piece) : v = Words(text)
  BY WordsMore
<1>7. Words(t) = v \o w
  BY <1>2, <1>6 DEF Reached
<1>8. Append(Words(t), p) = v \o (w \o <<p>>)
  <2>1. PICK u \in Seq(Piece) : u = v \o w
    BY <1>1, ConcatProperties
  <2>2. Append(u, p) = u \o <<p>>
    BY AppendIsConcat
  <2>3. (v \o w) \o <<p>> = v \o (w \o <<p>>)
    <3>1. PICK o \in Seq(Piece) : o = <<p>>
      BY <1>1
    <3>2. (v \o w) \o o = v \o (w \o o)
      BY <1>1, ConcatAssociative, SMTT(30)
    <3> QED
      BY <3>1, <3>2
  <2> QED
    BY <1>7, <2>1, <2>2, <2>3
<1>9. s \o <<p>> \in Seq(Piece) /\ w \o <<p>> \in Seq(Piece)
  BY <1>1, ConcatProperties
<1> QED
  BY <1>1, <1>4, <1>5, <1>6, <1>7, <1>8, <1>9 DEF Reached

\* What an event has to be told by.
MeantBy(e, n) ==
  (IF e.reasoning THEN Text("think", n) ELSE <<>>) \o (IF e.content THEN Text("say", n) ELSE <<>>)

\* When the thought of the n-th event is written, what closes the block may follow.
LEMMA ReachedLonger ==
  ASSUME NEW text \in Seq(Piece), NEW n \in Nat \ {0}, NEW events,
         NEW s, NEW w, Reached(text, s, w, n - 1, n, events)
  PROVE  Reached(text, s, w, n, n, events)
<1>1. PICK t \in Seq(Piece) : t = text \o s
  BY ConcatProperties DEF Reached
<1>2. Fit(t, n - 1, n, events)
  BY <1>1 DEF Reached
<1>3. Fit(t, n, n, events)
  BY <1>2, Longer DEF Fit
<1> QED
  BY <1>1, <1>3 DEF Reached

\* The words of a text are pieces.
LEMMA WordsOf ==
  ASSUME NEW text \in Seq(Piece)
  PROVE  Words(text) \in Seq(Piece)
<1>1. [tag |-> "open", n |-> 0] \in Piece
  BY DEF Piece
<1> QED
  BY <1>1, WordsMore

\* No piece yet.
LEMMA ReachedStart ==
  ASSUME NEW text \in Seq(Piece), NEW n, NEW b, NEW events, Fit(text, b, n, events)
  PROVE  Reached(text, <<>>, <<>>, b, n, events)
<1>1. text \o <<>> = text /\ <<>> \in Seq(Piece)
  BY ConcatEmptySeq
<1>2. Words(text) \o <<>> = Words(text)
  BY WordsOf, ConcatEmptySeq
<1> QED
  BY <1>1, <1>2 DEF Reached

(***************************************************************************)
(* _wrap_thinking_by_reasoning_content(): whatever the event brings, the   *)
(* text it makes leaves the tags nested, tells every word of the event,    *)
(* and is_reasoning is whether a block is open where the text ends.        *)
(***************************************************************************)
LEMMA TextReached ==
  ASSUME NEW text \in Seq(Piece), NEW n \in Nat \ {0}, NEW events, NEW e, events[n] = e,
         Fit(text, n - 1, n, events), isReasoning <=> Thinking(text),
         NEW said, said = textOf(e, n)
  PROVE  /\ Reached(text, said.text, MeantBy(e, n), n, n, events)
         /\ said.reasoning <=> Thinking(text \o said.text)
<1> DEFINE open  == [tag |-> "open", n |-> 0]
           close == [tag |-> "close", n |-> 0]
           think == [tag |-> "think", n |-> n]
           say   == [tag |-> "say", n |-> n]
<1>1. /\ open \in Piece /\ open.tag = "open" /\ IsTag(open)
      /\ close \in Piece /\ close.tag = "close" /\ IsTag(close)
      /\ think \in Piece /\ think.tag = "think" /\ think.n = n /\ ~IsTag(think)
      /\ say \in Piece /\ say.tag = "say" /\ ~IsTag(say)
  BY DEF Piece, IsTag
<1>2. /\ Tag("open") = <<open>> /\ Tag("close") = <<close>>
      /\ Text("think", n) = <<think>> /\ Text("say", n) = <<say>>
  BY DEF Tag, Text
<1> HIDE DEF open, close, think, say
<1>3. text \o <<>> = text /\ <<>> \in Seq(Piece)
  BY ConcatEmptySeq
<1>4. Reached(text, <<>>, <<>>, n - 1, n, events)
  BY ReachedStart
<1>5. CASE isReasoning /\ ~e.reasoning /\ ~e.content /\ e.fragments = <<>>
  <2>1. said.text = <<>> /\ said.reasoning
    BY <1>5 DEF textOf
  <2>2. MeantBy(e, n) = <<>>
    BY <1>5 DEF MeantBy
  <2>3. Reached(text, said.text, MeantBy(e, n), n, n, events)
    BY <1>4, <2>1, <2>2, ReachedLonger
  <2> QED
    BY <1>3, <1>5, <2>1, <2>3
<1>6. CASE ~(isReasoning /\ ~e.reasoning /\ ~e.content /\ e.fragments = <<>>)
  <2>1. said = wrapThinking(e, n, isReasoning)
    BY <1>6 DEF textOf
  <2>2. CASE e.reasoning
    <3>1. PICK opening : opening = IF isReasoning THEN <<>> ELSE <<open>>
      OBVIOUS
    <3>2. Reached(text, opening, <<>>, n - 1, n, events) /\ Thinking(text \o opening)
      <4>1. CASE isReasoning
        BY <1>3, <1>4, <3>1, <4>1
      <4>2. CASE ~isReasoning
        <5>1. ~Thinking(text \o <<>>)
          BY <1>3, <4>2
        <5>2. /\ Reached(text, <<>> \o <<open>>, <<>>, n - 1, n, events)
              /\ Thinking(text \o (<<>> \o <<open>>))
          BY <1>1, <1>4, <5>1, Further
        <5>3. <<>> \o <<open>> = <<open>>
          OBVIOUS
        <5> QED
          BY <3>1, <4>2, <5>2, <5>3
      <4> QED
        BY <4>1, <4>2
    <3>3. PICK s2 : s2 = opening \o <<think>>
      OBVIOUS
    <3>4. Reached(text, s2, <<think>>, n - 1, n, events) /\ Thinking(text \o s2)
      <4>1. <<>> \o <<think>> = <<think>>
        OBVIOUS
      <4>2. /\ Reached(text, opening \o <<think>>, <<>> \o <<think>>, n - 1, n, events)
            /\ Thinking(text \o (opening \o <<think>>))
        BY <1>1, <3>2, Further
      <4> QED
        BY <3>3, <4>1, <4>2
    <3>5. CASE ~(e.content \/ e.fragments # <<>>)
      <4>1. said.text = s2 /\ said.reasoning
        <5>1. PICK body : body = (IF isReasoning THEN <<>> ELSE Tag("open")) \o Text("think", n)
          OBVIOUS
        <5>2. said = [text |-> body, reasoning |-> TRUE]
          BY <2>1, <2>2, <3>5, <5>1 DEF wrapThinking
        <5>3. body = s2
          BY <1>2, <3>1, <3>3, <5>1
        <5> QED
          BY <5>2, <5>3
      <4>2. MeantBy(e, n) = <<think>>
        <5>1. <<think>> \o <<>> = <<think>>
          OBVIOUS
        <5> QED
          BY <1>2, <2>2, <3>5, <5>1 DEF MeantBy
      <4> QED
        BY <3>4, <4>1, <4>2, ReachedLonger
    <3>6. CASE e.content \/ e.fragments # <<>>
      <4>1. PICK s3 : s3 = s2 \o <<close>>
        OBVIOUS
      <4>2. Reached(text, s3, <<think>>, n, n, events) /\ ~Thinking(text \o s3)
        <5>1. Reached(text, s2, <<think>>, n, n, events)
          BY <3>4, ReachedLonger
        <5>2. Shows(events[n])
          BY <3>6 DEF Shows
        <5> QED
          BY <1>1, <3>4, <4>1, <5>1, <5>2, Further
      <4>3. ~said.reasoning
        BY <2>1, <2>2, <3>6 DEF wrapThinking
      <4>4. CASE e.content
        <5>1. said.text = s3 \o <<say>>
          <6>1. PICK body : body = (((IF isReasoning THEN <<>> ELSE Tag("open"))
                                      \o Text("think", n)) \o Tag("close"))
                                   \o IF e.content THEN Text("say", n) ELSE <<>>
            OBVIOUS
          <6>2. said = [text |-> body, reasoning |-> FALSE]
            BY <2>1, <2>2, <3>6, <6>1 DEF wrapThinking
          <6>3. said.text = body
            BY <6>2
          <6>4. body = s3 \o <<say>>
            BY <1>2, <3>1, <3>3, <4>1, <4>4, <6>1
          <6> QED
            BY <6>3, <6>4
        <5>2. /\ Reached(text, s3 \o <<say>>, <<think>> \o <<say>>, n, n, events)
              /\ ~Thinking(text \o (s3 \o <<say>>))
          BY <1>1, <4>2, Further
        <5>3. MeantBy(e, n) = <<think>> \o <<say>>
          BY <1>2, <2>2, <4>4 DEF MeantBy
        <5> QED
          BY <4>3, <5>1, <5>2, <5>3
      <4>5. CASE ~e.content
        <5>1. s3 \in Seq(Piece)
          BY <4>2 DEF Reached
        <5>2. said.text = s3 \o <<>>
          <6>1. PICK body : body = (((IF isReasoning THEN <<>> ELSE Tag("open"))
                                      \o Text("think", n)) \o Tag("close"))
                                   \o IF e.content THEN Text("say", n) ELSE <<>>
            OBVIOUS
          <6>2. said = [text |-> body, reasoning |-> FALSE]
            BY <2>1, <2>2, <3>6, <6>1 DEF wrapThinking
          <6>3. said.text = body
            BY <6>2
          <6>4. body = s3 \o <<>>
            BY <1>2, <3>1, <3>3, <4>1, <4>5, <6>1
          <6> QED
            BY <6>3, <6>4
        <5>3. s3 \o <<>> = s3 /\ <<think>> \o <<>> = <<think>>
          BY <5>1, ConcatEmptySeq
        <5>4. MeantBy(e, n) = <<think>> \o <<>>
          BY <1>2, <2>2, <4>5 DEF MeantBy
        <5> QED
          BY <4>2, <4>3, <5>2, <5>3, <5>4
      <4> QED
        BY <4>4, <4>5
    <3> QED
      BY <3>5, <3>6
  <2>3. CASE ~e.reasoning
    <3>1. PICK closing : closing = IF isReasoning THEN <<close>> ELSE <<>>
      OBVIOUS
    <3>2. Reached(text, closing, <<>>, n, n, events) /\ ~Thinking(text \o closing)
      <4>1. Reached(text, <<>>, <<>>, n, n, events)
        BY <1>4, ReachedLonger
      <4>2. CASE isReasoning
        <5>1. Shows(events[n])
          BY <1>6, <2>3, <4>2 DEF Shows
        <5>2. Thinking(text \o <<>>)
          BY <1>3, <4>2
        <5>3. <<>> \o <<close>> = <<close>>
          OBVIOUS
        <5>4. /\ Reached(text, <<>> \o <<close>>, <<>>, n, n, events)
              /\ ~Thinking(text \o (<<>> \o <<close>>))
          BY <1>1, <4>1, <5>1, <5>2, Further
        <5> QED
          BY <3>1, <4>2, <5>3, <5>4
      <4>3. CASE ~isReasoning
        BY <1>3, <3>1, <4>1, <4>3
      <4> QED
        BY <4>2, <4>3
    <3>3. ~said.reasoning
      BY <2>1, <2>3 DEF wrapThinking
    <3>4. CASE e.content
      <4>1. said.text = closing \o <<say>>
        BY <1>2, <2>1, <2>3, <3>1, <3>4 DEF wrapThinking
      <4>2. MeantBy(e, n) = <<>> \o <<say>>
        BY <1>2, <2>3, <3>4 DEF MeantBy
      <4>3. /\ Reached(text, closing \o <<say>>, <<>> \o <<say>>, n, n, events)
            /\ ~Thinking(text \o (closing \o <<say>>))
        BY <1>1, <3>2, Further
      <4> QED
        BY <3>3, <4>1, <4>2, <4>3
    <3>5. CASE ~e.content
      <4>1. said.text = closing \o <<>>
        BY <1>2, <2>1, <2>3, <3>1, <3>5 DEF wrapThinking
      <4>2. closing \o <<>> = closing /\ <<>> \o <<>> = <<>>
        BY <3>2, ConcatEmptySeq DEF Reached
      <4>3. MeantBy(e, n) = <<>> \o <<>>
        BY <2>3, <3>5 DEF MeantBy
      <4> QED
        BY <3>2, <3>3, <4>1, <4>2, <4>3
    <3> QED
      BY <3>4, <3>5
  <2> QED
    BY <2>2, <2>3
<1> QED
  BY <1>5, <1>6

(***************************************************************************)
(* The inductive invariant of the think tags. While the body is read,      *)
(* is_reasoning is whether a block is open; when it was read, none is. A   *)
(* completion never thinks.                                                *)
(***************************************************************************)
\* The body may still bring events.
Live == {"fresh", "reading", "yielded"}
\* The body is read, and the block is closed.
Closed == {"closing", "closed think", "final", "ended"}

\* The texts of the chunks, whose concatenation is Said.
Texts == [i \in DOMAIN chunks |-> chunks[i].text]

\* The text so far is nested, and tells what was received.
ThinkInv ==
  /\ Texts \in Seq(Seq(Piece))
  /\ Said \in Seq(Piece) /\ Nested(Said) /\ Apart(Said, received)
  /\ IF pc = "raised" THEN IsPrefix(Words(Said), Meant) ELSE Words(Said) = Meant
  /\ pc \in Live =>
       /\ isReasoning <=> Thinking(Said)
       /\ Thought(Said, Len(received)) /\ Shut(Said, Len(received), received)
       /\ config.mode = "completion" => ~isReasoning
  /\ pc \in Closed => ~Thinking(Said)

\* One more chunk says more.
LEMMA SaidMore ==
  ASSUME IsSequence(chunks), Texts \in Seq(Seq(Piece)), NEW c, c.text \in Seq(Piece),
         chunks' = Append(chunks, c)
  PROVE  Texts' \in Seq(Seq(Piece)) /\ Said' = Said \o c.text
<1>1. /\ Len(chunks) \in Nat /\ DOMAIN chunks = 1 .. Len(chunks)
      /\ DOMAIN chunks' = 1 .. Len(chunks) + 1
      /\ \A i \in 1 .. Len(chunks) : chunks'[i] = chunks[i]
      /\ chunks'[Len(chunks) + 1] = c
  BY Appended
<1>2. PICK n \in Nat : n = Len(chunks)
  BY <1>1
<1>3. PICK s \in Seq(Seq(Piece)) : s = Texts
  OBVIOUS
<1>4. PICK t : t = Texts'
  OBVIOUS
<1>5. s = [i \in 1 .. n |-> chunks[i].text] /\ t = [i \in 1 .. n + 1 |-> chunks'[i].text]
  BY <1>1, <1>2, <1>3, <1>4 DEF Texts
<1>6. Len(s) = n /\ \A i \in 1 .. n : s[i] \in Seq(Piece)
  BY <1>5
<1>7. (\A i \in 1 .. n : t[i] = s[i]) /\ t[n + 1] = c.text
  BY <1>1, <1>2, <1>5
<1>8. \A i \in 1 .. n + 1 : t[i] \in Seq(Piece)
  BY <1>6, <1>7
<1>9. t \in Seq(Seq(Piece)) /\ Len(t) = n + 1
  <2>1. t \in [1 .. n + 1 -> Seq(Piece)]
    <3>1. DOMAIN t = 1 .. n + 1 /\ t = [i \in 1 .. n + 1 |-> t[i]]
      BY <1>5
    <3> QED
      BY <1>8, <3>1
  <2> QED
    BY <2>1
<1>10. FlattenSeq(t) = FlattenSeq(s) \o c.text
  BY <1>6, <1>7, <1>9, FlattenMore
<1>11. Said = FlattenSeq(s) /\ Said' = FlattenSeq(t)
  BY <1>3, <1>4 DEF Said, Texts
<1> QED
  BY <1>4, <1>9, <1>10, <1>11

\* One more event means more.
LEMMA MeantMore ==
  ASSUME IsSequence(received), NEW e, received' = Append(received, e)
  PROVE  /\ Meant \in Seq(Piece)
         /\ MeantBy(e, Len(received) + 1) \in Seq(Piece)
         /\ Meant' = Meant \o MeantBy(e, Len(received) + 1)
<1>1. /\ Len(received) \in Nat /\ DOMAIN received = 1 .. Len(received)
      /\ DOMAIN received' = 1 .. Len(received) + 1
      /\ \A i \in 1 .. Len(received) : received'[i] = received[i]
      /\ received'[Len(received) + 1] = e
  BY Appended
<1>2. PICK n \in Nat : n = Len(received)
  BY <1>1
<1>3. PICK s : s = [i \in 1 .. n |-> MeantBy(received[i], i)]
  OBVIOUS
<1>4. PICK t : t = [i \in 1 .. n + 1 |-> MeantBy(received'[i], i)]
  OBVIOUS
<1>5. ASSUME NEW i \in Nat, NEW d PROVE MeantBy(d, i) \in Seq(Piece)
  <2>3. PICK p \in Piece : p = [tag |-> "think", n |-> i]
    BY DEF Piece
  <2>4. PICK q \in Piece : q = [tag |-> "say", n |-> i]
    BY DEF Piece
  <2>1. PICK a \in Seq(Piece) : a = IF d.reasoning THEN Text("think", i) ELSE <<>>
    <3> <<p>> \in Seq(Piece) /\ <<>> \in Seq(Piece)
      OBVIOUS
    <3>1. PICK o \in Seq(Piece) : o = <<p>>
      OBVIOUS
    <3>2. Text("think", i) = o
      BY <2>3, <3>1 DEF Text
    <3>3. CASE d.reasoning
      BY <3>2, <3>3
    <3>4. CASE ~d.reasoning
      BY <3>4
    <3> QED
      BY <3>3, <3>4
  <2>2. PICK b \in Seq(Piece) : b = IF d.content THEN Text("say", i) ELSE <<>>
    <3> <<q>> \in Seq(Piece) /\ <<>> \in Seq(Piece)
      OBVIOUS
    <3>1. PICK o \in Seq(Piece) : o = <<q>>
      OBVIOUS
    <3>2. Text("say", i) = o
      BY <2>4, <3>1 DEF Text
    <3>3. CASE d.content
      BY <3>2, <3>3
    <3>4. CASE ~d.content
      BY <3>4
    <3> QED
      BY <3>3, <3>4
  <2> QED
    BY <2>1, <2>2, ConcatProperties DEF MeantBy
<1>6. s \in Seq(Seq(Piece)) /\ Len(s) = n
  BY <1>3, <1>5
<1>7. t \in Seq(Seq(Piece)) /\ Len(t) = n + 1
  BY <1>4, <1>5
<1>8. (\A i \in 1 .. n : t[i] = s[i]) /\ t[n + 1] = MeantBy(e, n + 1)
  BY <1>1, <1>2, <1>3, <1>4
<1>9. FlattenSeq(s) \in Seq(Piece) /\ FlattenSeq(t) = FlattenSeq(s) \o MeantBy(e, n + 1)
  BY <1>6, <1>7, <1>8, FlattenMore
<1>10. Meant = FlattenSeq(s) /\ Meant' = FlattenSeq(t)
  BY <1>1, <1>2, <1>3, <1>4 DEF Meant, MeantBy
<1> QED
  BY <1>2, <1>5, <1>9, <1>10

\* An event after those that a text tells of changes nothing about them.
LEMMA EventsMore ==
  ASSUME NEW text \in Seq(Piece), NEW events, IsSequence(events), NEW e,
         Apart(text, events), Thought(text, Len(events)), Shut(text, Len(events), events)
  PROVE  /\ Apart(text, Append(events, e))
         /\ Shut(text, Len(events), Append(events, e))
<1>1. PICK more : more = Append(events, e)
  OBVIOUS
<1>2. Len(events) \in Nat /\ \A i \in 1 .. Len(events) : more[i] = events[i]
  BY <1>1, Appended
<1>3. PICK l \in Nat : l = Len(events)
  BY <1>2
<1>4. \A i \in DOMAIN text : text[i].tag = "think" => text[i].n \in 1 .. l
  BY <1>3 DEF Thought
<1>5. Apart(text, more)
  <2> SUFFICES ASSUME NEW i \in DOMAIN text, NEW j \in DOMAIN text,
                      i < j, text[i].tag = "think", text[j].tag = "think", Parted(text, i, j)
               PROVE  \E m \in text[i].n .. text[j].n - 1 : Shows(more[m])
    BY DEF Apart
  <2>1. PICK m \in text[i].n .. text[j].n - 1 : Shows(events[m])
    BY DEF Apart
  <2>2. text[i].n \in 1 .. l /\ text[j].n \in 1 .. l
    BY <1>4
  <2>3. m \in 1 .. l
    BY <2>2
  <2>4. more[m] = events[m]
    BY <1>2, <1>3, <2>3
  <2> QED
    BY <2>1, <2>4
<1>6. Shut(text, l, more)
  <2> SUFFICES ASSUME NEW i \in DOMAIN text, NEW k \in DOMAIN text,
                      i < k, text[i].tag = "think", text[k].tag = "close"
               PROVE  \E m \in text[i].n .. l : Shows(more[m])
    BY DEF Shut
  <2>1. PICK m \in text[i].n .. l : Shows(events[m])
    BY <1>3 DEF Shut
  <2>2. text[i].n \in 1 .. l
    BY <1>4
  <2>3. m \in 1 .. l
    BY <2>2
  <2>4. more[m] = events[m]
    BY <1>2, <1>3, <2>3
  <2> QED
    BY <2>1, <2>4
<1> QED
  BY <1>1, <1>3, <1>5, <1>6

\* The event is received before its text is made.
LEMMA Heard ==
  ASSUME ThinkInv, IsSequence(received), pc = "reading", NEW e, received' = Append(received, e)
  PROVE  /\ Len(received) \in Nat /\ Len(received') = Len(received) + 1
         /\ received'[Len(received) + 1] = e
         /\ Fit(Said, Len(received), Len(received) + 1, received')
<1>1. /\ Len(received) \in Nat /\ Len(received') = Len(received) + 1
      /\ received'[Len(received) + 1] = e
  BY Appended
<1>2. /\ Said \in Seq(Piece) /\ Nested(Said) /\ Apart(Said, received)
      /\ Thought(Said, Len(received)) /\ Shut(Said, Len(received), received)
  BY DEF ThinkInv, Live
<1>3. Apart(Said, received') /\ Shut(Said, Len(received), received')
  BY <1>2, EventsMore
<1>4. Thought(Said, Len(received) + 1)
  <2>1. \A i \in 1 .. Len(received) : i \in 1 .. Len(received) + 1
    BY <1>1
  <2> QED
    BY <1>2, <2>1 DEF Thought
<1> QED
  BY <1>1, <1>2, <1>3, <1>4 DEF Fit

\* The text of an event is handed out, or there is none.
LEMMA Spoken ==
  ASSUME ThinkInv, IsSequence(received), pc = "reading", NEW e, received' = Append(received, e),
         Texts' \in Seq(Seq(Piece)), NEW more, Said' = Said \o more,
         Reached(Said, more, MeantBy(e, Len(received) + 1),
                 Len(received) + 1, Len(received) + 1, received'),
         isReasoning' <=> Thinking(Said \o more),
         pc' \in {"reading", "yielded"}, config' = config,
         config.mode = "completion" => ~isReasoning'
  PROVE  ThinkInv'
<1>1. Len(received') = Len(received) + 1
  BY Appended
<1>2. Fit(Said', Len(received'), Len(received'), received')
  BY <1>1 DEF Reached
<1>3. Words(Said') = Words(Said) \o MeantBy(e, Len(received) + 1)
  BY DEF Reached
<1>4. Words(Said) = Meant
  BY DEF ThinkInv
<1>5. Words(Said') = Meant'
  BY <1>3, <1>4, MeantMore
<1>6. (Words(Said) = Meant)'
  BY <1>5 DEF Words, Meant, Said, IsTag
<1> QED
  BY <1>2, <1>6 DEF ThinkInv, Live, Closed, Fit

\* A sequence of words is a prefix of itself and of what continues it.
LEMMA PrefixOfMore ==
  ASSUME NEW w \in Seq(Piece), NEW x \in Seq(Piece)
  PROVE  IsPrefix(w, w) /\ IsPrefix(w, w \o x)
<1>1. IsPrefix(w, w)
  BY DEF IsPrefix
<1>2. PICK v \in Seq(Piece) : v = w \o x
  BY ConcatProperties
<1>3. Len(v) = Len(w) + Len(x) /\ \A i \in 1 .. Len(w) : v[i] = w[i]
  BY <1>2, ConcatProperties
<1>4. PICK l \in Nat : l = Len(w)
  BY LenProperties
<1>5. l <= Len(v)
  BY <1>3, <1>4, LenProperties
<1>6. SubSeq(w, 1, l) = SubSeq(v, 1, l)
  <2>1. PICK a : a = SubSeq(w, 1, l)
    OBVIOUS
  <2>2. PICK b : b = SubSeq(v, 1, l)
    OBVIOUS
  <2>3. a \in Seq(Piece) /\ Len(a) = l /\ \A i \in 1 .. l : a[i] = w[i]
    BY <1>4, <2>1
  <2>4. b \in Seq(Piece) /\ Len(b) = l /\ \A i \in 1 .. l : b[i] = v[i]
    BY <1>5, <2>2
  <2>5. \A i \in 1 .. Len(a) : a[i] = b[i]
    BY <1>3, <1>4, <2>3, <2>4
  <2>6. a = b
    BY <2>3, <2>4, <2>5, SeqEqual
  <2> QED
    BY <2>1, <2>2, <2>6
<1> QED
  BY <1>1, <1>2, <1>4, <1>5, <1>6 DEF IsPrefix

\* No chunk, no text.
LEMMA SameText ==
  ASSUME UNCHANGED chunks PROVE Texts' = Texts /\ Said' = Said
BY DEF Texts, Said

\* A step that neither receives nor says anything.
LEMMA ThinkSilent ==
  ASSUME ThinkInv, UNCHANGED <<received, chunks, isReasoning, config>>,
         pc' \in Live => pc \in Live, pc' \in Closed => pc \in Closed,
         pc = "raised" => pc' = "raised"
  PROVE  ThinkInv'
<1>1. /\ Texts' = Texts /\ Said' = Said /\ Meant' = Meant
  BY SameText DEF Meant
<1>2. Words(Said) \in Seq(Piece)
  BY WordsOf DEF ThinkInv
<1>3. IF pc' = "raised" THEN IsPrefix(Words(Said), Meant) ELSE Words(Said) = Meant
  BY <1>2, PrefixOfMore DEF ThinkInv
<1> QED
  BY <1>1, <1>3 DEF ThinkInv

\* Nothing is said at first.
LEMMA ThinkInit == Init => ThinkInv
<1> SUFFICES ASSUME Init PROVE ThinkInv
  OBVIOUS
<1>1. /\ chunks = <<>> /\ received = <<>> /\ pc = "fresh" /\ ~isReasoning
  BY DEF Init
<1>2. Said = <<>> /\ Texts = <<>> /\ Meant = <<>>
  <2>1. [i \in DOMAIN chunks |-> chunks[i].text] = <<>>
    BY <1>1
  <2>2. [n \in DOMAIN received |->
           (IF received[n].reasoning THEN Text("think", n) ELSE <<>>)
             \o (IF received[n].content THEN Text("say", n) ELSE <<>>)] = <<>>
    BY <1>1
  <2> QED
    BY <2>1, <2>2, FlattenEmpty DEF Said, Texts, Meant
<1>3. Words(<<>>) = <<>> /\ Tags(<<>>) = <<>>
  <2>1. [i \in DOMAIN <<>> |-> IF IsTag(<<>>[i]) THEN <<>> ELSE << <<>>[i] >>] = <<>>
    OBVIOUS
  <2>2. [i \in DOMAIN <<>> |-> IF IsTag(<<>>[i]) THEN << <<>>[i] >> ELSE <<>>] = <<>>
    OBVIOUS
  <2> QED
    BY <2>1, <2>2, FlattenEmpty DEF Words, Tags
<1>4. DOMAIN <<>> = {} /\ Len(<<>>) = 0 /\ <<>> \in Seq(Piece) /\ <<>> \in Seq(Seq(Piece))
  OBVIOUS
<1>5. ~Thinking(<<>>)
  BY <1>4 DEF Thinking, Inside
<1>6. Nested(<<>>)
  BY <1>3, <1>4, <1>5 DEF Nested, Alternating
<1>7. Apart(<<>>, received) /\ Thought(<<>>, Len(received)) /\ Shut(<<>>, Len(received), received)
  BY <1>4 DEF Apart, Thought, Shut
<1> QED
  BY <1>1, <1>2, <1>3, <1>4, <1>5, <1>6, <1>7 DEF ThinkInv, Live, Closed

\* A text is yielded in a chunk, and an empty one is skipped.
LEMMA SaidYielded ==
  ASSUME IsSequence(chunks), ThinkInv, NEW text \in Seq(Piece), Yield(text)
  PROVE  /\ Texts' \in Seq(Seq(Piece)) /\ Said' = Said \o text
         /\ pc' \in {"reading", "yielded"}
<1>1. CASE text = <<>>
  <2>1. UNCHANGED chunks /\ pc' = "reading"
    BY <1>1 DEF Yield
  <2>2. Said \o <<>> = Said
    BY ConcatEmptySeq DEF ThinkInv
  <2> QED
    BY <1>1, <2>1, <2>2, SameText DEF ThinkInv
<1>2. CASE text # <<>>
  <2>1. PICK c : c = Chunk(chunkIndex + 1, text)
    OBVIOUS
  <2>2. chunks' = Append(chunks, c) /\ pc' = "yielded"
    BY <1>2, <2>1 DEF Yield
  <2>3. c.text = text
    BY <2>1 DEF Chunk
  <2> QED
    BY <2>2, <2>3, SaidMore DEF ThinkInv
<1> QED
  BY <1>1, <1>2

\* An event without a word.
LEMMA Wordless ==
  ASSUME ThinkInv, IsSequence(received), pc = "reading", NEW e, received' = Append(received, e),
         ~e.reasoning, ~e.content, UNCHANGED <<pc, chunks, isReasoning, config>>
  PROVE  ThinkInv'
<1>1. PICK n : n = Len(received) + 1
  OBVIOUS
<1>2. /\ n \in Nat \ {0} /\ n - 1 = Len(received)
      /\ Fit(Said, n - 1, n, received')
  BY <1>1, Heard
<1>3. MeantBy(e, n) = <<>>
  BY DEF MeantBy
<1>4. Reached(Said, <<>>, MeantBy(e, n), n, n, received')
  <2>1. Said \in Seq(Piece)
    BY DEF ThinkInv
  <2>2. Reached(Said, <<>>, <<>>, n - 1, n, received')
    BY <1>2, <2>1, ReachedStart
  <2> QED
    BY <1>2, <1>3, <2>1, <2>2, ReachedLonger
<1>5. Said \o <<>> = Said
  BY ConcatEmptySeq DEF ThinkInv
<1>6. Texts' \in Seq(Seq(Piece)) /\ Said' = Said \o <<>>
  BY <1>5, SameText DEF ThinkInv
<1>7. (isReasoning' <=> Thinking(Said \o <<>>)) /\ (config.mode = "completion" => ~isReasoning')
  BY <1>5 DEF ThinkInv, Live
<1> QED
  BY <1>1, <1>4, <1>6, <1>7, Spoken

\* A chat event: its text is what _wrap_thinking_by_reasoning_content() makes of it.
LEMMA ThinkDelta ==
  ASSUME ThinkInv, FInv, ReadDelta PROVE ThinkInv'
<1>1. PICK e \in Deltas :
        /\ Receive(e)
        /\ isReasoning' = textOf(e, Len(received) + 1).reasoning
        /\ Yield(textOf(e, Len(received) + 1).text)
  BY DEF ReadDelta
<1>2. config.mode # "completion"
  BY DEF ReadDelta
<1>3. received' = Append(received, e) /\ pc = "reading" /\ config' = config
  BY <1>1 DEF Receive
<1>4. IsSequence(received) /\ IsSequence(chunks)
  BY DEF FInv, Sequences_
<1>5. PICK n : n = Len(received) + 1
  OBVIOUS
<1>6. /\ n \in Nat \ {0} /\ n - 1 = Len(received) /\ received'[n] = e
      /\ Fit(Said, n - 1, n, received')
  BY <1>3, <1>4, <1>5, Heard
<1>7. Said \in Seq(Piece) /\ (isReasoning <=> Thinking(Said))
  BY <1>3 DEF ThinkInv, Live
<1>8. PICK said : said = textOf(e, n)
  OBVIOUS
<1>9. /\ Reached(Said, said.text, MeantBy(e, n), n, n, received')
      /\ said.reasoning <=> Thinking(Said \o said.text)
  BY <1>6, <1>7, <1>8, TextReached
<1>10. said.text \in Seq(Piece)
  BY <1>9 DEF Reached
<1>11. /\ Texts' \in Seq(Seq(Piece)) /\ Said' = Said \o said.text
       /\ pc' \in {"reading", "yielded"}
  BY <1>1, <1>4, <1>5, <1>8, <1>10, SaidYielded
<1>12. isReasoning' <=> Thinking(Said \o said.text)
  BY <1>1, <1>5, <1>8, <1>9
<1> QED
  BY <1>2, <1>3, <1>4, <1>5, <1>9, <1>11, <1>12, Spoken

\* An event of a completion has no reasoning.
LEMMA ThinkText ==
  ASSUME ThinkInv, FInv, ReadText PROVE ThinkInv'
<1>1. PICK c \in BOOLEAN, f \in May("finish") :
        /\ Receive([Blank EXCEPT !.content = c, !.finish = f])
        /\ Yield(IF c THEN Text("say", Len(received) + 1) ELSE <<>>)
  BY DEF ReadText
<1>2. PICK e : e = [Blank EXCEPT !.content = c, !.finish = f]
  OBVIOUS
<1>3. ~e.reasoning /\ (e.content <=> c)
  BY <1>2 DEF Blank
<1>4. received' = Append(received, e) /\ pc = "reading" /\ config' = config
  BY <1>1, <1>2 DEF Receive
<1>5. UNCHANGED isReasoning /\ config.mode = "completion"
  BY DEF ReadText
<1>6. IsSequence(received) /\ IsSequence(chunks)
  BY DEF FInv, Sequences_
<1>7. PICK n : n = Len(received) + 1
  OBVIOUS
<1>8. /\ n \in Nat \ {0} /\ n - 1 = Len(received)
      /\ Fit(Said, n - 1, n, received')
  BY <1>4, <1>6, <1>7, Heard
<1>9. Said \in Seq(Piece) /\ ~Thinking(Said) /\ ~isReasoning
  BY <1>4, <1>5 DEF ThinkInv, Live
<1>10. Reached(Said, <<>>, <<>>, n, n, received') /\ Said \o <<>> = Said
  BY <1>8, <1>9, ReachedStart, ReachedLonger, ConcatEmptySeq
<1>11. PICK say \in Piece : say = [tag |-> "say", n |-> n]
  BY <1>8 DEF Piece
<1>12. PICK more : more = IF c THEN <<say>> ELSE <<>>
  OBVIOUS
<1>13. /\ Reached(Said, more, MeantBy(e, n), n, n, received')
       /\ ~Thinking(Said \o more)
  <2>1. CASE c
    <3>1. MeantBy(e, n) = <<>> \o <<say>>
      BY <1>3, <1>11, <2>1 DEF MeantBy, Text
    <3>2. <<>> \o <<say>> = <<say>>
      OBVIOUS
    <3>3. say.tag = "say" /\ ~IsTag(say)
      BY <1>11 DEF IsTag
    <3>4. /\ Reached(Said, <<>> \o <<say>>, <<>> \o <<say>>, n, n, received')
          /\ ~Thinking(Said \o (<<>> \o <<say>>))
      <4>1. ~Thinking(Said \o <<>>)
        BY <1>9, <1>10
      <4> QED
        BY <1>8, <1>9, <1>10, <3>3, <4>1, Further
    <3> QED
      BY <1>12, <2>1, <3>1, <3>2, <3>4
  <2>2. CASE ~c
    <3>1. MeantBy(e, n) = <<>>
      BY <1>3, <2>2 DEF MeantBy
    <3> QED
      BY <1>9, <1>10, <1>12, <2>2, <3>1
  <2> QED
    BY <2>1, <2>2
<1>14. more \in Seq(Piece)
  BY <1>13 DEF Reached
<1>15. Yield(more)
  BY <1>1, <1>7, <1>11, <1>12 DEF Text
<1>16. /\ Texts' \in Seq(Seq(Piece)) /\ Said' = Said \o more
       /\ pc' \in {"reading", "yielded"}
  BY <1>6, <1>14, <1>15, SaidYielded
<1> QED
  BY <1>4, <1>5, <1>6, <1>7, <1>9, <1>13, <1>16, Spoken

\* The block that is open when the body ends is closed.
LEMMA ThinkEnd ==
  ASSUME ThinkInv, FInv, ReadEnd PROVE ThinkInv'
<1>1. pc = "reading" /\ pc' \in {"closing", "closed think"} /\ UNCHANGED <<received, config>>
  BY DEF ReadEnd
<1>2. /\ Texts \in Seq(Seq(Piece)) /\ Said \in Seq(Piece)
      /\ Nested(Said) /\ Apart(Said, received)
      /\ Words(Said) = Meant /\ (isReasoning <=> Thinking(Said))
  BY <1>1 DEF ThinkInv, Live
<1>3. IsSequence(chunks)
  BY DEF FInv, Sequences_
<1>4. SUFFICES /\ Texts' \in Seq(Seq(Piece)) /\ Said' \in Seq(Piece)
               /\ Nested(Said') /\ Apart(Said', received)
               /\ Words(Said') = Meant /\ ~Thinking(Said')
  <2>1. Meant' = Meant
    BY <1>1 DEF Meant
  <2> QED
    BY <1>1, <2>1 DEF ThinkInv, Live, Closed
<1>5. CASE isReasoning
  <2>1. PICK close \in Piece : close = [tag |-> "close", n |-> 0]
    BY DEF Piece
  <2>2. close.tag = "close" /\ IsTag(close)
    BY <2>1 DEF IsTag
  <2>3. PICK c : c = Chunk(chunkIndex, Tag("close"))
    OBVIOUS
  <2>4. c.text = <<close>>
    BY <2>1, <2>3 DEF Chunk, Tag
  <2>5. chunks' = Append(chunks, c)
    BY <1>5, <2>3 DEF ReadEnd
  <2>6. c.text \in Seq(Piece)
    BY <2>4
  <2>7. Texts' \in Seq(Seq(Piece)) /\ Said' = Said \o <<close>>
    BY <1>2, <1>3, <2>4, <2>5, <2>6, SaidMore
  <2>8. PICK q : q = Append(Said, close)
    OBVIOUS
  <2>9. Said' = q
    BY <1>2, <2>7, <2>8, AppendIsConcat
  <2>10. q \in Seq(Piece)
    BY <1>2, <2>8, AppendProperties
  <2>11. Thinking(Said) /\ Nested(q)
    BY <1>2, <1>5, <2>2, <2>8, NestedMore
  <2>12. Apart(q, received)
    BY <1>2, <2>2, <2>8, ApartMore
  <2>13. ~Thinking(q)
    BY <1>2, <2>2, <2>8, InsideMore
  <2>14. Words(q) = Words(Said)
    BY <1>2, <2>2, <2>8, WordsMore
  <2> QED
    BY <1>2, <2>7, <2>9, <2>10, <2>11, <2>12, <2>13, <2>14
<1>6. CASE ~isReasoning
  <2>1. UNCHANGED chunks
    BY <1>6 DEF ReadEnd
  <2> QED
    BY <1>2, <1>6, <2>1, SameText
<1> QED
  BY <1>5, <1>6

\* The final chunk has no text.
LEMMA ThinkFinal ==
  ASSUME ThinkInv, FInv, YieldFinal PROVE ThinkInv'
<1>1. PICK c : c.text = <<>> /\ chunks' = Append(chunks, c)
  <2> DEFINE d == [index |-> chunkIndex, text |-> <<>>, final |-> TRUE,
                   toolCalls |-> toolCalls, finish |-> finishReason, usage |-> usage]
  <2>1. d.text = <<>> /\ chunks' = Append(chunks, d)
    BY DEF YieldFinal
  <2> QED
    BY <2>1
<1>2. pc = "closed think" /\ pc' = "final" /\ UNCHANGED <<received, config, handler>>
  BY DEF YieldFinal
<1>3. /\ Texts \in Seq(Seq(Piece)) /\ Said \in Seq(Piece)
      /\ Nested(Said) /\ Apart(Said, received)
      /\ Words(Said) = Meant /\ ~Thinking(Said)
  BY <1>2 DEF ThinkInv, Closed
<1>4. <<>> \in Seq(Piece) /\ Said \o <<>> = Said
  BY <1>3, ConcatEmptySeq
<1>5. Texts' \in Seq(Seq(Piece)) /\ Said' = Said
  BY <1>1, <1>3, <1>4, SaidMore DEF FInv, Sequences_
<1>6. Meant' = Meant
  BY <1>2 DEF Meant
<1> QED
  BY <1>2, <1>3, <1>5, <1>6 DEF ThinkInv, Live, Closed

\* The event that belongs to no call is received, and said by nobody.
LEMMA ThinkHeadless ==
  ASSUME ThinkInv, FInv, ReadHeadless PROVE ThinkInv'
<1>1. PICK e : received' = Append(received, e)
  BY DEF ReadHeadless
<1>2. /\ pc = "reading" /\ pc' = "raised"
      /\ UNCHANGED <<chunks, config, isReasoning>>
  BY DEF ReadHeadless, Leave, handler
<1>3. IsSequence(received)
  BY DEF FInv, Sequences_
<1>4. Texts' = Texts /\ Said' = Said
  BY <1>2, SameText
<1>5. Fit(Said, Len(received), Len(received) + 1, received')
  BY <1>1, <1>2, <1>3, Heard
<1>6. PICK x \in Seq(Piece) : Meant' = Meant \o x
  BY <1>1, <1>3, MeantMore
<1>7. PICK w \in Seq(Piece) : w = Words(Said)
  BY WordsOf DEF ThinkInv
<1>8. IsPrefix(w, Meant')
  <2>1. w = Meant
    BY <1>2, <1>7 DEF ThinkInv
  <2>2. IsPrefix(w, w \o x)
    BY PrefixOfMore
  <2> QED
    BY <1>6, <2>1, <2>2
<1>9. IsPrefix(Words(Said'), Meant')
  BY <1>4, <1>7, <1>8
<1> QED
  BY <1>2, <1>4, <1>5, <1>9 DEF ThinkInv, Fit, Live, Closed

\* Every step keeps it.
LEMMA ThinkNext == ThinkInv /\ FInv /\ [Next]_vars => ThinkInv'
<1> SUFFICES ASSUME ThinkInv, FInv, [Next]_vars
             PROVE  ThinkInv'
  OBVIOUS
<1>1. CASE Start
  BY <1>1, ThinkSilent DEF Start, handler, Live, Closed
<1>2. CASE Resume
  BY <1>2, ThinkSilent DEF Resume, handler, Live, Closed
<1>3. CASE Abandon
  BY <1>3, ThinkSilent DEF Abandon, Leave, handler, Live, Closed
<1>4. CASE ReadSkipped
  <2>1. /\ received' = Append(received, Blank) /\ pc = "reading"
        /\ UNCHANGED <<pc, chunks, isReasoning, config>>
    BY <1>4 DEF ReadSkipped, Receive, handler
  <2>2. ~Blank.reasoning /\ ~Blank.content
    BY DEF Blank
  <2> QED
    BY <2>1, <2>2, Wordless DEF FInv, Sequences_
<1>5. CASE ReadUsage
  <2>1. PICK k \in Counters : Receive([Blank EXCEPT !.usage = {k}])
    BY <1>5 DEF ReadUsage
  <2>2. PICK e : e = [Blank EXCEPT !.usage = {k}]
    OBVIOUS
  <2>3. /\ received' = Append(received, e) /\ pc = "reading"
        /\ UNCHANGED <<pc, chunks, isReasoning, config>>
    BY <1>5, <2>1, <2>2 DEF ReadUsage, Receive
  <2>4. ~e.reasoning /\ ~e.content
    BY <2>2 DEF Blank
  <2> QED
    BY <2>3, <2>4, Wordless DEF FInv, Sequences_
<1>6. CASE ReadDelta
  BY <1>6, ThinkDelta
<1>7. CASE ReadHeadless
  BY <1>7, ThinkHeadless
<1>8. CASE ReadText
  BY <1>8, ThinkText
<1>9. CASE ReadError
  BY <1>9, ThinkSilent DEF ReadError, Leave, handler, Live, Closed
<1>10. CASE ReadEnd
  BY <1>10, ThinkEnd
<1>11. CASE YieldFinal
  BY <1>11, ThinkFinal
<1>12. CASE UNCHANGED vars
  BY <1>12, ThinkSilent DEF vars
<1> QED
  BY <1>1, <1>2, <1>3, <1>4, <1>5, <1>6, <1>7, <1>8, <1>9, <1>10, <1>11, <1>12 DEF Next

\* Which is what the property says.
LEMMA ThinkTells == ThinkInv => ThinkTagsWellNested
<1> SUFFICES ASSUME ThinkInv PROVE ThinkTagsWellNested
  OBVIOUS
<1>1. PICK text : text = Said
  OBVIOUS
<1>2. PICK tags : tags = Tags(text)
  OBVIOUS
<1>3. Alternating(tags)
  BY <1>1, <1>2 DEF ThinkInv, Nested
<1>4. Thinking(text) <=> Len(tags) % 2 = 1
  BY <1>1, <1>2 DEF ThinkInv, Nested
<1>5. tags \in Seq(Piece)
  <2>1. [tag |-> "open", n |-> 0] \in Piece
    BY DEF Piece
  <2> QED
    BY <1>1, <1>2, <2>1, WordsMore DEF ThinkInv
<1>6. pc \in {"closed think", "final", "ended"} => Len(tags) % 2 = 0
  <2>1. PICK l \in Nat : l = Len(tags)
    BY <1>5
  <2>2. l % 2 = 0 \/ l % 2 = 1
    OBVIOUS
  <2>3. pc \in {"closed think", "final", "ended"} => ~Thinking(text)
    BY <1>1 DEF ThinkInv, Closed
  <2> QED
    BY <1>4, <2>1, <2>2, <2>3
<1>7. IF pc = "raised" THEN IsPrefix(Words(text), Meant) ELSE Words(text) = Meant
  BY <1>1 DEF ThinkInv
<1>8. \A i \in DOMAIN text : ~IsTag(text[i]) => (text[i].tag = "think" <=> Inside(text, i))
  BY <1>1 DEF ThinkInv, Nested
<1>9. \A i, j \in DOMAIN text :
        (i < j /\ text[i].tag = "think" /\ text[j].tag = "think" /\ Parted(text, i, j))
          => \E n \in text[i].n .. text[j].n - 1 :
               received[n].content \/ received[n].fragments # <<>>
  BY <1>1 DEF ThinkInv, Apart, Shows
<1> QED
  BY <1>1, <1>2, <1>3, <1>6, <1>7, <1>8, <1>9 DEF ThinkTagsWellNested, Alternating

(***************************************************************************)
(* Think tags alternate, a stream that ended has none open, reasoning is   *)
(* inside a block and content is outside, no word of an event is lost,     *)
(* repeated or moved by the tags, and a block is not closed and opened     *)
(* again between two pieces of reasoning unless something was shown        *)
(* between them: is_reasoning and _wrap_thinking_by_reasoning_content()    *)
(* keep that over every stream.                                            *)
(***************************************************************************)
THEOREM TagsAreWellNested == Spec => []ThinkTagsWellNested
<1>1. Spec => []FInv
  BY FInvInit, FInvNext, PTL DEF Spec
<1> QED
  BY <1>1, ThinkInit, ThinkNext, ThinkTells, PTL DEF Spec

-----------------------------------------------------------------------------
(***************************************************************************)
(* The fragments of a delta. A fold over one or two of them is one or two  *)
(* steps of it: every fold is hidden in an operator of its own, for the    *)
(* provers take no operator as an argument.                                *)
(***************************************************************************)

\* The last index of one element.
LEMMA MaxOfOne == ASSUME NEW k \in Nat PROVE Max({k}) = k
BY DEF Max

\* The last index of two.
LEMMA MaxOfTwo == Max({1, 2}) = 2
<1>1. 2 \in {1, 2} /\ \A y \in {1, 2} : 2 >= y
  OBVIOUS
<1>2. \A x \in {1, 2} : (\A y \in {1, 2} : x >= y) => x = 2
  OBVIOUS
<1> QED
  BY <1>1, <1>2 DEF Max

trackAll(start, fs) == FoldLeft(track, start, fs)

\* Nothing to track.
LEMMA TrackNone == ASSUME NEW start PROVE trackAll(start, <<>>) = start
<1> DEFINE It(g) == [s \in SUBSET {} |->
                       IF s = {} THEN start
                       ELSE track(g[s \ {Max(s)}], <<>>[Max(s)])]
<1>1. PICK g : g = CHOOSE h : h = It(h)
  OBVIOUS
<1>2. DOMAIN <<>> = {}
  OBVIOUS
<1>3. trackAll(start, <<>>) = g[{}]
  BY <1>1, <1>2 DEF trackAll, FoldLeft, MapThenFoldSet
<1>4. [s \in SUBSET {} |-> start] = It([s \in SUBSET {} |-> start])
  OBVIOUS
<1>5. g = It(g)
  BY <1>1, <1>4
<1> QED
  BY <1>3, <1>5

\* One fragment is tracked.
LEMMA TrackOne ==
  ASSUME NEW start, NEW f PROVE trackAll(start, <<f>>) = track(start, f)
<1> DEFINE It(g) == [s \in SUBSET {1} |->
                       IF s = {} THEN start
                       ELSE track(g[s \ {Max(s)}], <<f>>[Max(s)])]
           w == [s \in SUBSET {1} |-> IF s = {} THEN start ELSE track(start, f)]
<1>1. PICK g : g = CHOOSE h : h = It(h)
  OBVIOUS
<1>2. DOMAIN <<f>> = {1}
  OBVIOUS
<1>3. trackAll(start, <<f>>) = g[{1}]
  BY <1>1, <1>2 DEF trackAll, FoldLeft, MapThenFoldSet
<1>4. Max({1}) = 1 /\ <<f>>[1] = f /\ {1} \ {1} = {}
  BY MaxOfOne
<1>5. SUBSET {1} = {{}, {1}}
  OBVIOUS
<1>6. \A s \in SUBSET {1} : w[s] = It(w)[s]
  BY <1>4, <1>5
<1>7. w = It(w)
  BY <1>6
<1>8. g = It(g)
  <2> HIDE DEF w
  <2> QED
    BY <1>1, <1>7
<1>9. g[{}] = start /\ g[{1}] = track(g[{}], <<f>>[1])
  BY <1>4, <1>8
<1> QED
  BY <1>3, <1>4, <1>9

\* Two fragments are tracked, the first one first.
LEMMA TrackTwo ==
  ASSUME NEW start, NEW f, NEW g
  PROVE  trackAll(start, <<f, g>>) = track(track(start, f), g)
<1> DEFINE It(h) == [s \in SUBSET {1, 2} |->
                       IF s = {} THEN start
                       ELSE track(h[s \ {Max(s)}], <<f, g>>[Max(s)])]
           w == [s \in SUBSET {1, 2} |->
                   IF s = {} THEN start
                   ELSE IF s = {1} THEN track(start, f)
                   ELSE IF s = {2} THEN track(start, g)
                   ELSE track(track(start, f), g)]
<1>1. PICK h : h = CHOOSE k : k = It(k)
  OBVIOUS
<1>2. DOMAIN <<f, g>> = {1, 2}
  OBVIOUS
<1>3. trackAll(start, <<f, g>>) = h[{1, 2}]
  BY <1>1, <1>2 DEF trackAll, FoldLeft, MapThenFoldSet
<1>4. /\ Max({1}) = 1 /\ Max({2}) = 2 /\ Max({1, 2}) = 2
      /\ <<f, g>>[1] = f /\ <<f, g>>[2] = g
      /\ {1} \ {1} = {} /\ {2} \ {2} = {} /\ {1, 2} \ {2} = {1}
      /\ {1} # {2} /\ {1} # {1, 2} /\ {2} # {1, 2}
  BY MaxOfOne, MaxOfTwo
<1>5. SUBSET {1, 2} = {{}, {1}, {2}, {1, 2}}
  OBVIOUS
<1>6. \A s \in SUBSET {1, 2} : w[s] = It(w)[s]
  <2>1. It(w)[{}] = start /\ w[{}] = start
    BY <1>5
  <2>2. w[{1}] = track(start, f) /\ w[{2}] = track(start, g)
    BY <1>4, <1>5
  <2>3. w[{1, 2}] = track(track(start, f), g)
    BY <1>4, <1>5
  <2>4. It(w)[{1}] = track(w[{}], f) /\ It(w)[{2}] = track(w[{}], g)
    <3> HIDE DEF w
    <3> QED
      BY <1>4, <1>5
  <2>5. It(w)[{1, 2}] = track(w[{1}], g)
    <3> HIDE DEF w
    <3> QED
      BY <1>4, <1>5
  <2> HIDE DEF w, It
  <2>6. SUFFICES ASSUME NEW s \in SUBSET {1, 2} PROVE w[s] = It(w)[s]
    OBVIOUS
  <2>7. s = {} \/ s = {1} \/ s = {2} \/ s = {1, 2}
    BY <1>5
  <2>8. CASE s = {}
    BY <2>1, <2>8
  <2>9. CASE s = {1}
    BY <2>1, <2>2, <2>4, <2>9
  <2>10. CASE s = {2}
    BY <2>1, <2>2, <2>4, <2>10
  <2>11. CASE s = {1, 2}
    BY <2>2, <2>3, <2>5, <2>11
  <2> QED
    BY <2>7, <2>8, <2>9, <2>10, <2>11
<1>7. w = It(w)
  <2>1. DOMAIN w = SUBSET {1, 2} /\ w = [s \in SUBSET {1, 2} |-> w[s]]
    OBVIOUS
  <2> HIDE DEF w
  <2> QED
    BY <1>6, <2>1
<1>8. h = It(h)
  <2> HIDE DEF w
  <2> QED
    BY <1>1, <1>7
<1>9. h[{}] = start
  BY <1>5, <1>8
<1>10. \A s \in SUBSET {1, 2} : s # {} => h[s] = track(h[s \ {Max(s)}], <<f, g>>[Max(s)])
  BY <1>8
<1>11. h[{1}] = track(h[{}], f) /\ h[{1, 2}] = track(h[{1}], g)
  <2>1. {1} \in SUBSET {1, 2} /\ {1, 2} \in SUBSET {1, 2} /\ {1} # {} /\ {1, 2} # {}
    OBVIOUS
  <2> HIDE DEF It, w
  <2>2. h[{1}] = track(h[{}], f)
    <3>1. h[{1}] = track(h[{1} \ {Max({1})}], <<f, g>>[Max({1})])
      BY <1>10, <2>1
    <3> QED
      BY <1>4, <3>1
  <2>3. h[{1, 2}] = track(h[{1}], g)
    <3>1. h[{1, 2}] = track(h[{1, 2} \ {Max({1, 2})}], <<f, g>>[Max({1, 2})])
      BY <1>10, <2>1
    <3> QED
      BY <1>4, <3>1
  <2> QED
    BY <2>2, <2>3
<1> QED
  BY <1>3, <1>9, <1>11


\* A fragment without a function adds no piece.
merge(state, f, n) == IF f.function THEN increase(state, f, n) ELSE state

mergeAll(start, fs, n) == FoldLeft(LAMBDA state, p : merge(state, p, n), start, fs)

\* Nothing to merge.
LEMMA IncreaseNone == ASSUME NEW start, NEW n PROVE mergeAll(start, <<>>, n) = start
<1> DEFINE It(g) == [s \in SUBSET {} |->
                       IF s = {} THEN start
                       ELSE merge(g[s \ {Max(s)}], <<>>[Max(s)], n)]
<1>1. PICK g : g = CHOOSE h : h = It(h)
  OBVIOUS
<1>2. DOMAIN <<>> = {}
  OBVIOUS
<1>3. mergeAll(start, <<>>, n) = g[{}]
  BY <1>1, <1>2 DEF mergeAll, FoldLeft, MapThenFoldSet
<1>4. [s \in SUBSET {} |-> start] = It([s \in SUBSET {} |-> start])
  OBVIOUS
<1>5. g = It(g)
  BY <1>1, <1>4
<1> QED
  BY <1>3, <1>5

\* One fragment is merged.
LEMMA IncreaseOne ==
  ASSUME NEW start, NEW n, NEW f PROVE mergeAll(start, <<f>>, n) = merge(start, f, n)
<1> DEFINE It(g) == [s \in SUBSET {1} |->
                       IF s = {} THEN start
                       ELSE merge(g[s \ {Max(s)}], <<f>>[Max(s)], n)]
           w == [s \in SUBSET {1} |-> IF s = {} THEN start ELSE merge(start, f, n)]
<1>1. PICK g : g = CHOOSE h : h = It(h)
  OBVIOUS
<1>2. DOMAIN <<f>> = {1}
  OBVIOUS
<1>3. mergeAll(start, <<f>>, n) = g[{1}]
  BY <1>1, <1>2 DEF mergeAll, FoldLeft, MapThenFoldSet
<1>4. Max({1}) = 1 /\ <<f>>[1] = f /\ {1} \ {1} = {}
  BY MaxOfOne
<1>5. SUBSET {1} = {{}, {1}}
  OBVIOUS
<1>6. \A s \in SUBSET {1} : w[s] = It(w)[s]
  BY <1>4, <1>5
<1>7. w = It(w)
  BY <1>6
<1>8. g = It(g)
  <2> HIDE DEF w
  <2> QED
    BY <1>1, <1>7
<1>9. g[{}] = start /\ g[{1}] = merge(g[{}], <<f>>[1], n)
  BY <1>4, <1>8
<1> QED
  BY <1>3, <1>4, <1>9

\* Two fragments are merged, the first one first.
LEMMA IncreaseTwo ==
  ASSUME NEW start, NEW n, NEW f, NEW g
  PROVE  mergeAll(start, <<f, g>>, n) = merge(merge(start, f, n), g, n)
<1> DEFINE It(h) == [s \in SUBSET {1, 2} |->
                       IF s = {} THEN start
                       ELSE merge(h[s \ {Max(s)}], <<f, g>>[Max(s)], n)]
           w == [s \in SUBSET {1, 2} |->
                   IF s = {} THEN start
                   ELSE IF s = {1} THEN merge(start, f, n)
                   ELSE IF s = {2} THEN merge(start, g, n)
                   ELSE merge(merge(start, f, n), g, n)]
<1>1. PICK h : h = CHOOSE k : k = It(k)
  OBVIOUS
<1>2. DOMAIN <<f, g>> = {1, 2}
  OBVIOUS
<1>3. mergeAll(start, <<f, g>>, n) = h[{1, 2}]
  BY <1>1, <1>2 DEF mergeAll, FoldLeft, MapThenFoldSet
<1>4. /\ Max({1}) = 1 /\ Max({2}) = 2 /\ Max({1, 2}) = 2
      /\ <<f, g>>[1] = f /\ <<f, g>>[2] = g
      /\ {1} \ {1} = {} /\ {2} \ {2} = {} /\ {1, 2} \ {2} = {1}
      /\ {1} # {2} /\ {1} # {1, 2} /\ {2} # {1, 2}
  BY MaxOfOne, MaxOfTwo
<1>5. SUBSET {1, 2} = {{}, {1}, {2}, {1, 2}}
  OBVIOUS
<1>6. \A s \in SUBSET {1, 2} : w[s] = It(w)[s]
  <2>1. It(w)[{}] = start /\ w[{}] = start
    BY <1>5
  <2>2. w[{1}] = merge(start, f, n) /\ w[{2}] = merge(start, g, n)
    BY <1>4, <1>5
  <2>3. w[{1, 2}] = merge(merge(start, f, n), g, n)
    BY <1>4, <1>5
  <2>4. It(w)[{1}] = merge(w[{}], f, n) /\ It(w)[{2}] = merge(w[{}], g, n)
    <3> HIDE DEF w
    <3> QED
      BY <1>4, <1>5
  <2>5. It(w)[{1, 2}] = merge(w[{1}], g, n)
    <3> HIDE DEF w
    <3> QED
      BY <1>4, <1>5
  <2> HIDE DEF w, It
  <2>6. SUFFICES ASSUME NEW s \in SUBSET {1, 2} PROVE w[s] = It(w)[s]
    OBVIOUS
  <2>7. s = {} \/ s = {1} \/ s = {2} \/ s = {1, 2}
    BY <1>5
  <2>8. CASE s = {}
    BY <2>1, <2>8
  <2>9. CASE s = {1}
    BY <2>1, <2>2, <2>4, <2>9
  <2>10. CASE s = {2}
    BY <2>1, <2>2, <2>4, <2>10
  <2>11. CASE s = {1, 2}
    BY <2>2, <2>3, <2>5, <2>11
  <2> QED
    BY <2>7, <2>8, <2>9, <2>10, <2>11
<1>7. w = It(w)
  <2>1. DOMAIN w = SUBSET {1, 2} /\ w = [s \in SUBSET {1, 2} |-> w[s]]
    OBVIOUS
  <2> HIDE DEF w
  <2> QED
    BY <1>6, <2>1
<1>8. h = It(h)
  <2> HIDE DEF w
  <2> QED
    BY <1>1, <1>7
<1>9. h[{}] = start
  BY <1>5, <1>8
<1>10. \A s \in SUBSET {1, 2} : s # {} => h[s] = merge(h[s \ {Max(s)}], <<f, g>>[Max(s)], n)
  BY <1>8
<1>11. h[{1}] = merge(h[{}], f, n) /\ h[{1, 2}] = merge(h[{1}], g, n)
  <2>1. {1} \in SUBSET {1, 2} /\ {1, 2} \in SUBSET {1, 2} /\ {1} # {} /\ {1, 2} # {}
    OBVIOUS
  <2> HIDE DEF It, w
  <2>2. h[{1}] = merge(h[{}], f, n)
    <3>1. h[{1}] = merge(h[{1} \ {Max({1})}], <<f, g>>[Max({1})], n)
      BY <1>10, <2>1
    <3> QED
      BY <1>4, <3>1
  <2>3. h[{1, 2}] = merge(h[{1}], g, n)
    <3>1. h[{1, 2}] = merge(h[{1, 2} \ {Max({1, 2})}], <<f, g>>[Max({1, 2})], n)
      BY <1>10, <2>1
    <3> QED
      BY <1>4, <3>1
  <2> QED
    BY <2>2, <2>3
<1> QED
  BY <1>3, <1>9, <1>11

-----------------------------------------------------------------------------
(***************************************************************************)
(* A piece of a function. What increase_tool_call() does to a state, which *)
(* is spelled out field by field: a new call, the call with the id, the    *)
(* last call, or nothing to go to.                                         *)
(***************************************************************************)

\* An assembled call.
Call == [id : Nat, name : Calls, args : Seq(Nat)]

\* get_tool_call() finds a call with the id, if there is one.
LEMMA PositionIs ==
  ASSUME NEW calls, Len(calls) \in Nat, NEW id, id # None
  PROVE  \/ position(calls, id) = 0 /\ \A i \in 1 .. Len(calls) : calls[i].id # id
         \/ /\ position(calls, id) \in 1 .. Len(calls)
            /\ calls[position(calls, id)].id = id
<1>1. PICK I : I = {i \in 1 .. Len(calls) : calls[i].id = id}
  OBVIOUS
<1>2. position(calls, id) = IF I # {} THEN Min(I) ELSE 0
  BY <1>1 DEF position, SelectInSeq
<1>3. CASE I = {}
  BY <1>1, <1>2, <1>3
<1>4. CASE I # {}
  <2>1. I \in SUBSET Nat
    BY <1>1
  <2>2. PICK x \in I : \A y \in I : x <= y
    BY <1>4, <2>1, Least
  <2>3. Min(I) \in I
    BY <2>2 DEF Min
  <2> QED
    BY <1>1, <1>2, <1>4, <2>3
<1> QED
  BY <1>3, <1>4

State(calls, ids, made, fragments, failed) ==
  [calls |-> calls, ids |-> ids, generated |-> made, fragments |-> fragments, failed |-> failed]


\* A call with its first piece.
Started(c, id, n) == [id |-> id, name |-> c, args |-> <<n>>]

\* The i-th call with one more piece.
Grown(calls, i, n) == [calls EXCEPT ![i].args = Append(@, n)]

\* The first piece of a call names it.
LEMMA UpdateNew ==
  ASSUME NEW id, NEW f, f.named, NEW n \in Nat
  PROVE  update([id |-> id, name |-> None, args |-> <<>>], f, n) = Started(f.call, id, n)
<1>1. PICK a : a = <<>>
  OBVIOUS
<1>2. PICK b : b = Append(a, n) /\ b = <<n>>
  <2>1. a \in Seq(Nat)
    BY <1>1
  <2>2. Append(a, n) = <<n>>
    BY <1>1, <2>1
  <2> QED
    BY <2>2
<1>3. PICK old : old = [id |-> id, name |-> None, args |-> a]
  OBVIOUS
<1>4. old.args = a
  BY <1>3
<1>5. [old EXCEPT !.name = f.call] = [id |-> id, name |-> f.call, args |-> a]
  BY <1>3
<1>6. PICK new : new = [id |-> id, name |-> f.call, args |-> a]
  OBVIOUS
<1>7. [new EXCEPT !.args = b] = [id |-> id, name |-> f.call, args |-> b]
  BY <1>6
<1>8. update(old, f, n) = [new EXCEPT !.args = b]
  BY <1>2, <1>4, <1>5, <1>6 DEF update
<1> QED
  BY <1>1, <1>2, <1>3, <1>7, <1>8 DEF Started

\* A later piece is appended to the arguments.
LEMMA UpdateOld ==
  ASSUME NEW calls \in Seq(Call), NEW i \in 1 .. Len(calls), NEW f, ~f.named, NEW n
  PROVE  [calls EXCEPT ![i] = update(@, f, n)] = Grown(calls, i, n)
<1>1. calls[i] \in Call
  OBVIOUS
<1>2. update(calls[i], f, n) = [calls[i] EXCEPT !.args = Append(@, n)]
  BY <1>1 DEF update, Call
<1> QED
  BY <1>2 DEF Grown

With(state, more, m) == [state EXCEPT !.calls = more, !.generated = m]

\* The calls and the counter of a state replaced.
LEMMA StateMore ==
  ASSUME NEW calls, NEW ids, NEW made, NEW fs, NEW failed, NEW more, NEW m
  PROVE  With(State(calls, ids, made, fs, failed), more, m) = State(more, ids, m, fs, failed)
<1>1. PICK s : s = State(more, ids, made, fs, failed)
  OBVIOUS
<1>2. [State(calls, ids, made, fs, failed) EXCEPT !.calls = more] = s
  BY <1>1 DEF State
<1>3. [s EXCEPT !.generated = m] = State(more, ids, m, fs, failed)
  BY <1>1 DEF State
<1> QED
  BY <1>2, <1>3 DEF With

\* A state in which the last call was asked for and there was none.
LEMMA StateFailed ==
  ASSUME NEW calls, NEW ids, NEW made, NEW fs, NEW failed
  PROVE  [State(calls, ids, made, fs, failed) EXCEPT !.failed = TRUE]
           = State(calls, ids, made, fs, TRUE)
<1>1. PICK yes : yes = TRUE
  OBVIOUS
<1>2. [State(calls, ids, made, fs, failed) EXCEPT !.failed = yes]
        = State(calls, ids, made, fs, yes)
  BY DEF State
<1> QED
  BY <1>1, <1>2

\* A piece with an id starts the call or goes to the call that has the id.
LEMMA IncreaseById ==
  ASSUME NEW calls \in Seq(Call), NEW ids, NEW made, NEW fs, NEW failed, NEW n \in Nat,
         NEW f, f.id # None,
         f.named <=> position(calls, f.id) = 0
  PROVE  increase(State(calls, ids, made, fs, failed), f, n)
           = State(IF f.named THEN Append(calls, Started(f.call, f.id, n))
                   ELSE Grown(calls, position(calls, f.id), n), ids, made, fs, failed)
<1>1. PICK i : i = position(calls, f.id)
  OBVIOUS
<1>2. PICK state : state = State(calls, ids, made, fs, failed)
  OBVIOUS
<1>3. state.calls = calls /\ state.generated = made
  BY <1>2 DEF State
<1>4. CASE f.named
  <2>1. PICK new : new = update([id |-> f.id, name |-> None, args |-> <<>>], f, n)
    OBVIOUS
  <2>2. increase(state, f, n) = With(state, Append(calls, new), made)
    BY <1>1, <1>3, <1>4, <2>1 DEF increase, With
  <2>3. new = Started(f.call, f.id, n)
    BY <1>4, <2>1, UpdateNew
  <2> QED
    BY <1>2, <1>4, <2>2, <2>3, StateMore
<1>5. CASE ~f.named
  <2>1. i \in 1 .. Len(calls) /\ i # 0
    BY <1>1, <1>5, PositionIs
  <2>2. increase(state, f, n) = With(state, [calls EXCEPT ![i] = update(@, f, n)], made)
    BY <1>1, <1>3, <1>5, <2>1 DEF increase, With
  <2>3. [calls EXCEPT ![i] = update(@, f, n)] = Grown(calls, i, n)
    BY <1>5, <2>1, UpdateOld
  <2> QED
    BY <1>1, <1>2, <1>5, <2>2, <2>3, StateMore
<1> QED
  BY <1>4, <1>5

\* A name without an id starts a call under a made-up id.
LEMMA IncreaseFresh ==
  ASSUME NEW calls \in Seq(Call), NEW ids, NEW made \in Nat, NEW fs, NEW failed, NEW n \in Nat,
         NEW f, f.id = None, f.named,
         position(calls, NumCalls + made) = 0
  PROVE  increase(State(calls, ids, made, fs, failed), f, n)
           = State(Append(calls, Started(f.call, NumCalls + made, n)),
                   ids, made + 1, fs, failed)
<1>1. PICK id : id = NumCalls + made
  OBVIOUS
<1>2. id # None
  BY <1>1, NumCallsAssumption, NoneAssumption
<1>3. PICK state : state = State(calls, ids, made, fs, failed)
  OBVIOUS
<1>4. state.calls = calls /\ state.generated = made
  BY <1>3 DEF State
<1>5. PICK new : new = update([id |-> id, name |-> None, args |-> <<>>], f, n)
  OBVIOUS
<1>6. increase(state, f, n) = With(state, Append(calls, new), made + 1)
  BY <1>1, <1>2, <1>4, <1>5 DEF increase, With
<1>7. new = Started(f.call, id, n)
  BY <1>5, UpdateNew
<1> QED
  BY <1>1, <1>3, <1>6, <1>7, StateMore

Without(calls) == Len(calls) = 0

Granted(yes) == yes = TRUE

\* A piece without id and name raises when there is no call.
LEMMA IncreaseHeadless ==
  ASSUME NEW calls, Without(calls), NEW ids, NEW made, NEW fs, NEW failed, NEW n,
         NEW f, f.id = None, ~f.named, NEW yes, Granted(yes)
  PROVE  increase(State(calls, ids, made, fs, failed), f, n)
           = State(calls, ids, made, fs, yes)
<1>1. PICK state : state = State(calls, ids, made, fs, failed)
  OBVIOUS
<1>2. state.calls = calls
  BY <1>1 DEF State
<1>3. increase(state, f, n) = [state EXCEPT !.failed = TRUE]
  BY <1>2 DEF increase, Without
<1>4. [state EXCEPT !.failed = TRUE] = State(calls, ids, made, fs, yes)
  BY <1>1, StateFailed DEF Granted
<1> QED
  BY <1>1, <1>3, <1>4

\* A piece without id and name goes to the last call.
LEMMA IncreaseLast ==
  ASSUME NEW calls \in Seq(Call), NEW i \in 1 .. Len(calls), i = Len(calls),
         NEW ids, NEW made, NEW fs, NEW failed, NEW n \in Nat,
         NEW f, f.id = None, ~f.named
  PROVE  increase(State(calls, ids, made, fs, failed), f, n)
           = State(Grown(calls, i, n), ids, made, fs, failed)
<1>1. PICK state : state = State(calls, ids, made, fs, failed)
  OBVIOUS
<1>2. state.calls = calls /\ state.generated = made /\ i # 0
  BY <1>1 DEF State
<1>3. increase(state, f, n) = With(state, [calls EXCEPT ![i] = update(@, f, n)], made)
  BY <1>2 DEF increase, With
<1>4. [calls EXCEPT ![i] = update(@, f, n)] = Grown(calls, i, n)
  BY UpdateOld
<1>5. PICK more : more = Grown(calls, i, n)
  OBVIOUS
<1>6. increase(state, f, n) = With(state, more, made)
  BY <1>3, <1>4, <1>5
<1>7. increase(state, f, n) = State(more, ids, made, fs, failed)
  BY <1>1, <1>6, StateMore
<1> QED
  BY <1>1, <1>5, <1>7

-----------------------------------------------------------------------------
(***************************************************************************)
(* The books that are kept of the calls: P[c] are the numbers of the       *)
(* pieces of call c, O the calls that were opened, A those whose id was    *)
(* announced.                                                              *)
(***************************************************************************)

\* Each opened call is there once, with its own pieces.
Assembled(calls, O, P) ==
  /\ calls \in Seq(Call)
  /\ \A i \in DOMAIN calls : calls[i].name \in O /\ calls[i].args = P[calls[i].name]
  /\ \A c \in O : \E i \in DOMAIN calls : calls[i].name = c
  /\ \A i, j \in DOMAIN calls : calls[i].name = calls[j].name => i = j

\* A call has the announced id, or one that was made up; no two have the same.
Identified(calls, made, A) ==
  /\ made \in Nat
  /\ \A i \in DOMAIN calls :
       IF calls[i].name \in A THEN calls[i].id = calls[i].name
       ELSE calls[i].id \in NumCalls .. NumCalls + made - 1
  /\ \A i, j \in DOMAIN calls : calls[i].id = calls[j].id => i = j

\* One more piece of call c.
More(P, c, n) == [P EXCEPT ![c] = Append(@, n)]

\* Only the arguments of the i-th call change.
LEMMA GrownFields ==
  ASSUME NEW calls \in Seq(Call), NEW i \in 1 .. Len(calls), NEW n \in Nat,
         NEW more, more = Grown(calls, i, n)
  PROVE  /\ more \in Seq(Call) /\ Len(more) = Len(calls) /\ Len(calls) \in Nat
         /\ DOMAIN more = DOMAIN calls /\ DOMAIN calls = 1 .. Len(calls)
         /\ \A j \in DOMAIN calls :
              /\ more[j].id = calls[j].id /\ more[j].name = calls[j].name
              /\ more[j].args = IF j = i THEN Append(calls[j].args, n) ELSE calls[j].args
<1>1. PICK l \in Nat : l = Len(calls)
  OBVIOUS
<1>2. PICK old \in Call : old = calls[i]
  OBVIOUS
<1>3. old.args \in Seq(Nat)
  BY DEF Call
<1>4. PICK args \in Seq(Nat) : args = Append(old.args, n)
  BY <1>3, AppendProperties
<1>9. PICK call : call = [old EXCEPT !.args = args]
  OBVIOUS
<1>5. /\ call \in Call
      /\ call.id = old.id /\ call.name = old.name /\ call.args = args
  BY <1>9 DEF Call
<1>6. more = [calls EXCEPT ![i] = call]
  BY <1>2, <1>4, <1>9 DEF Grown
<1>7. more \in [1 .. l -> Call] /\ calls \in [1 .. l -> Call]
  BY <1>1, <1>5, <1>6
<1>8. \A j \in 1 .. l : more[j] = IF j = i THEN call ELSE calls[j]
  BY <1>1, <1>6, <1>7
<1>10. ASSUME NEW j \in 1 .. l
       PROVE  /\ more[j].id = calls[j].id /\ more[j].name = calls[j].name
              /\ more[j].args = IF j = i THEN Append(calls[j].args, n) ELSE calls[j].args
  <2>1. CASE j = i
    BY <1>2, <1>4, <1>5, <1>8, <2>1
  <2>2. CASE j # i
    BY <1>8, <2>2
  <2> QED
    BY <2>1, <2>2
<1>11. more \in Seq(Call) /\ Len(more) = l /\ DOMAIN more = 1 .. l /\ DOMAIN calls = 1 .. l
  BY <1>7
<1> QED
  BY <1>1, <1>10, <1>11

\* The calls before a new one stay as they are.
LEMMA StartedFields ==
  ASSUME NEW calls \in Seq(Call), NEW id \in Nat, NEW c \in Calls, NEW n \in Nat,
         NEW more, more = Append(calls, Started(c, id, n))
  PROVE  /\ more \in Seq(Call) /\ Len(more) = Len(calls) + 1 /\ Len(calls) \in Nat
         /\ DOMAIN more = 1 .. Len(calls) + 1 /\ DOMAIN calls = 1 .. Len(calls)
         /\ \A j \in 1 .. Len(calls) : more[j] = calls[j]
         /\ more[Len(calls) + 1].id = id /\ more[Len(calls) + 1].name = c
         /\ more[Len(calls) + 1].args = <<n>>
<1>1. PICK call \in Call : call = Started(c, id, n)
  <2>1. <<n>> \in Seq(Nat)
    OBVIOUS
  <2> QED
    BY <2>1 DEF Started, Call
<1>2. call.id = id /\ call.name = c /\ call.args = <<n>>
  BY <1>1 DEF Started
<1>3. more = Append(calls, call)
  BY <1>1
<1> QED
  BY <1>2, <1>3, AppendProperties, LenProperties

\* A piece appended to its call.
LEMMA AssembledGrown ==
  ASSUME NEW calls, NEW O, O \subseteq Calls, NEW P \in [Calls -> Seq(Nat)],
         Assembled(calls, O, P),
         NEW i \in 1 .. Len(calls), NEW n \in Nat, NEW c, c = calls[i].name
  PROVE  Assembled(Grown(calls, i, n), O, More(P, c, n))
<1>1. PICK more : more = Grown(calls, i, n)
  OBVIOUS
<1>2. calls \in Seq(Call)
  BY DEF Assembled
<1>3. /\ more \in Seq(Call) /\ Len(more) = Len(calls) /\ Len(calls) \in Nat
      /\ DOMAIN more = DOMAIN calls /\ DOMAIN calls = 1 .. Len(calls)
      /\ \A j \in DOMAIN calls :
           /\ more[j].id = calls[j].id /\ more[j].name = calls[j].name
           /\ more[j].args = IF j = i THEN Append(calls[j].args, n) ELSE calls[j].args
  BY <1>1, <1>2, GrownFields
<1>4. c \in O /\ c \in Calls
  BY <1>3 DEF Assembled
<1>5. \A d \in Calls : More(P, c, n)[d] = IF d = c THEN Append(P[c], n) ELSE P[d]
  BY <1>4 DEF More
<1>6. ASSUME NEW j \in DOMAIN calls
      PROVE  more[j].name \in O /\ more[j].args = More(P, c, n)[more[j].name]
  <2>1. /\ calls[j].name \in O /\ calls[j].args = P[calls[j].name]
        /\ calls[j].name = c => j = i
    BY <1>3 DEF Assembled
  <2> QED
    BY <1>3, <1>4, <1>5, <2>1
<1>7. ASSUME NEW d \in O PROVE \E j \in DOMAIN more : more[j].name = d
  <2>1. PICK j \in DOMAIN calls : calls[j].name = d
    BY DEF Assembled
  <2> QED
    BY <1>3, <2>1
<1>8. \A j, k \in DOMAIN more : more[j].name = more[k].name => j = k
  BY <1>3 DEF Assembled
<1> QED
  BY <1>1, <1>3, <1>6, <1>7, <1>8 DEF Assembled

\* A call started with its first piece.
LEMMA AssembledStarted ==
  ASSUME NEW calls, NEW O, O \subseteq Calls, NEW P \in [Calls -> Seq(Nat)],
         Assembled(calls, O, P),
         NEW c \in Calls, c \notin O, P[c] = <<>>, NEW id \in Nat, NEW n \in Nat
  PROVE  Assembled(Append(calls, Started(c, id, n)), O \cup {c}, More(P, c, n))
<1>1. PICK more : more = Append(calls, Started(c, id, n))
  OBVIOUS
<1>2. calls \in Seq(Call)
  BY DEF Assembled
<1>3. PICK l \in Nat : l = Len(calls)
  BY <1>2
<1>4. /\ more \in Seq(Call)
      /\ DOMAIN more = 1 .. l + 1 /\ DOMAIN calls = 1 .. l
      /\ \A j \in 1 .. l : more[j] = calls[j]
      /\ more[l + 1].id = id /\ more[l + 1].name = c /\ more[l + 1].args = <<n>>
  BY <1>1, <1>2, <1>3, StartedFields
<1>5. Append(P[c], n) = <<n>>
  <2>1. PICK a \in Seq(Nat) : a = P[c] /\ a = <<>>
    OBVIOUS
  <2> QED
    BY <2>1
<1>6. \A d \in Calls : More(P, c, n)[d] = IF d = c THEN <<n>> ELSE P[d]
  BY <1>5 DEF More
<1>7. \A j \in 1 .. l : calls[j].name \in O /\ calls[j].args = P[calls[j].name]
  BY <1>4 DEF Assembled
<1>8. \A j \in 1 .. l + 1 : j \in 1 .. l \/ j = l + 1
  OBVIOUS
<1>9. ASSUME NEW j \in 1 .. l + 1
      PROVE  more[j].name \in O \cup {c} /\ more[j].args = More(P, c, n)[more[j].name]
  <2>1. CASE j \in 1 .. l
    BY <1>4, <1>6, <1>7, <2>1
  <2>2. CASE j = l + 1
    BY <1>4, <1>6, <2>2
  <2> QED
    BY <1>8, <2>1, <2>2
<1>10. ASSUME NEW d \in O \cup {c} PROVE \E j \in 1 .. l + 1 : more[j].name = d
  <2>1. CASE d = c
    BY <1>4, <2>1
  <2>2. CASE d \in O
    <3>1. PICK j \in 1 .. l : calls[j].name = d
      BY <1>4, <2>2 DEF Assembled
    <3> QED
      BY <1>4, <3>1
  <2> QED
    BY <2>1, <2>2
<1>11. ASSUME NEW j \in 1 .. l + 1, NEW k \in 1 .. l + 1, more[j].name = more[k].name
       PROVE  j = k
  <2>1. CASE j \in 1 .. l /\ k \in 1 .. l
    <3>1. calls[j].name = calls[k].name
      BY <1>4, <1>11, <2>1
    <3> QED
      BY <1>4, <2>1, <3>1 DEF Assembled
  <2>2. CASE j = l + 1 \/ k = l + 1
    BY <1>4, <1>7, <1>8, <1>11, <2>2
  <2> QED
    BY <1>8, <2>1, <2>2
<1> QED
  BY <1>1, <1>4, <1>9, <1>10, <1>11 DEF Assembled

\* Ids and names alone decide how calls are identified.
LEMMA IdentifiedSame ==
  ASSUME NEW calls, NEW more, NEW made, NEW A, Identified(calls, made, A),
         DOMAIN more = DOMAIN calls,
         \A j \in DOMAIN calls : more[j].id = calls[j].id /\ more[j].name = calls[j].name
  PROVE  Identified(more, made, A)
BY DEF Identified

\* A call started under an id nobody has.
LEMMA IdentifiedStarted ==
  ASSUME NEW calls \in Seq(Call), NEW made, NEW A, Identified(calls, made, A),
         NEW m \in Nat, made <= m, NEW c \in Calls, NEW id \in Nat, NEW n \in Nat,
         IF c \in A THEN id = c ELSE id \in NumCalls .. NumCalls + m - 1,
         \A j \in DOMAIN calls : calls[j].id # id
  PROVE  Identified(Append(calls, Started(c, id, n)), m, A)
<1>1. PICK more : more = Append(calls, Started(c, id, n))
  OBVIOUS
<1>2. PICK l \in Nat : l = Len(calls)
  OBVIOUS
<1>3. /\ DOMAIN more = 1 .. l + 1 /\ DOMAIN calls = 1 .. l
      /\ \A j \in 1 .. l : more[j] = calls[j]
      /\ more[l + 1].id = id /\ more[l + 1].name = c
  BY <1>1, <1>2, StartedFields
<1>4. \A j \in 1 .. l + 1 : j \in 1 .. l \/ j = l + 1
  OBVIOUS
<1>5. ASSUME NEW j \in 1 .. l + 1
      PROVE  IF more[j].name \in A THEN more[j].id = more[j].name
             ELSE more[j].id \in NumCalls .. NumCalls + m - 1
  <2>1. CASE j \in 1 .. l
    <3>1. IF calls[j].name \in A THEN calls[j].id = calls[j].name
          ELSE calls[j].id \in NumCalls .. NumCalls + made - 1
      BY <1>3, <2>1 DEF Identified
    <3>2. NumCalls .. NumCalls + made - 1 \subseteq NumCalls .. NumCalls + m - 1
      BY NumCallsAssumption DEF Identified
    <3> QED
      BY <1>3, <2>1, <3>1, <3>2
  <2>2. CASE j = l + 1
    BY <1>3, <2>2
  <2> QED
    BY <1>4, <2>1, <2>2
<1>6. ASSUME NEW j \in 1 .. l + 1, NEW k \in 1 .. l + 1, more[j].id = more[k].id
      PROVE  j = k
  <2>1. CASE j \in 1 .. l /\ k \in 1 .. l
    <3>1. calls[j].id = calls[k].id
      BY <1>3, <1>6, <2>1
    <3> QED
      BY <1>3, <2>1, <3>1 DEF Identified
  <2>2. CASE j = l + 1 \/ k = l + 1
    BY <1>3, <1>4, <1>6, <2>2
  <2> QED
    BY <1>4, <2>1, <2>2
<1> QED
  BY <1>1, <1>3, <1>5, <1>6 DEF Identified

-----------------------------------------------------------------------------
(***************************************************************************)
(* One piece more. The books stay right with a piece that carries an id,   *)
(* with one that starts a call without an id, and with one for the last    *)
(* call.                                                                   *)
(***************************************************************************)

\* The opened calls are those with a piece.
Filled(O, P) == \A c \in Calls : c \notin O <=> P[c] = <<>>

\* The books agree with the calls.
Books(calls, made, A, O, P) ==
  /\ A \subseteq Calls /\ O \subseteq Calls /\ P \in [Calls -> Seq(Nat)]
  /\ Filled(O, P)
  /\ Assembled(calls, O, P) /\ Identified(calls, made, A)

\* The calls stand in the order in which they were opened, up to event n.
InOrder(calls, n) ==
  /\ \A i \in DOMAIN calls : calls[i].args # <<>> /\ Head(calls[i].args) \in 1 .. n
  /\ \A i, j \in DOMAIN calls : i < j => Head(calls[i].args) < Head(calls[j].args)

\* The first piece stays the first.
LEMMA HeadOfMore ==
  ASSUME NEW s \in Seq(Nat), NEW n \in Nat
  PROVE  /\ Append(s, n) # <<>>
         /\ s # <<>> => Head(Append(s, n)) = Head(s)
<1>1. PICK t : t = Append(s, n)
  OBVIOUS
<1>2. t \in Seq(Nat) /\ Len(t) = Len(s) + 1 /\ \A i \in 1 .. Len(s) : t[i] = s[i]
  BY <1>1, AppendProperties
<1>3. ASSUME s # <<>> PROVE Head(t) = Head(s)
  <2>1. 1 \in 1 .. Len(s) /\ Head(s) = s[1]
    BY <1>3
  <2>2. t # <<>> /\ Head(t) = t[1]
    BY <1>2
  <2> QED
    BY <1>2, <2>1, <2>2
<1> QED
  BY <1>1, <1>2, <1>3

\* A piece appended moves no call.
LEMMA InOrderGrown ==
  ASSUME NEW calls \in Seq(Call), NEW i \in 1 .. Len(calls), NEW n \in Nat \ {0},
         InOrder(calls, n - 1)
  PROVE  InOrder(Grown(calls, i, n), n)
<1>1. PICK more : more = Grown(calls, i, n)
  OBVIOUS
<1>2. /\ DOMAIN more = DOMAIN calls
      /\ \A j \in DOMAIN calls :
           more[j].args = IF j = i THEN Append(calls[j].args, n) ELSE calls[j].args
  BY <1>1, GrownFields
<1>3. \A j \in DOMAIN calls : calls[j].args \in Seq(Nat)
  <2>1. \A j \in DOMAIN calls : calls[j] \in Call
    OBVIOUS
  <2> QED
    BY <2>1 DEF Call
<1>4. \A j \in DOMAIN calls : more[j].args # <<>> /\ Head(more[j].args) = Head(calls[j].args)
  BY <1>2, <1>3, HeadOfMore DEF InOrder
<1>5. \A j \in DOMAIN calls : Head(calls[j].args) \in 1 .. n
  <2>1. \A h \in 1 .. n - 1 : h \in 1 .. n
    OBVIOUS
  <2> QED
    BY <2>1 DEF InOrder
<1> QED
  BY <1>1, <1>2, <1>4, <1>5 DEF InOrder

\* The call that is started stands last.
LEMMA InOrderStarted ==
  ASSUME NEW calls \in Seq(Call), NEW c \in Calls, NEW id \in Nat, NEW n \in Nat \ {0},
         InOrder(calls, n - 1)
  PROVE  InOrder(Append(calls, Started(c, id, n)), n)
<1>1. PICK more : more = Append(calls, Started(c, id, n))
  OBVIOUS
<1>2. PICK l \in Nat : l = Len(calls)
  OBVIOUS
<1>3. /\ DOMAIN more = 1 .. l + 1 /\ DOMAIN calls = 1 .. l
      /\ \A j \in 1 .. l : more[j] = calls[j]
      /\ more[l + 1].args = <<n>>
  BY <1>1, <1>2, StartedFields
<1>4. <<n>> # <<>> /\ Head(<<n>>) = n
  OBVIOUS
<1>5. \A j \in 1 .. l + 1 : j \in 1 .. l \/ j = l + 1
  OBVIOUS
<1>6. ASSUME NEW j \in 1 .. l
      PROVE  more[j].args # <<>> /\ Head(more[j].args) \in 1 .. n - 1
  BY <1>3 DEF InOrder
<1>7. ASSUME NEW j \in 1 .. l + 1
      PROVE  more[j].args # <<>> /\ Head(more[j].args) \in 1 .. n
  <2>1. \A h \in 1 .. n - 1 : h \in 1 .. n
    OBVIOUS
  <2>2. n \in 1 .. n
    OBVIOUS
  <2> QED
    BY <1>3, <1>4, <1>5, <1>6, <2>1, <2>2
<1>8. ASSUME NEW j \in 1 .. l + 1, NEW k \in 1 .. l + 1, j < k
      PROVE  Head(more[j].args) < Head(more[k].args)
  <2>1. j \in 1 .. l
    BY <1>8
  <2>2. CASE k \in 1 .. l
    BY <1>3, <1>8, <2>1, <2>2 DEF InOrder
  <2>3. CASE k = l + 1
    <3>1. Head(more[k].args) = n
      BY <1>3, <1>4, <2>3
    <3>2. PICK h \in 1 .. n - 1 : h = Head(more[j].args)
      BY <1>6, <2>1
    <3> QED
      BY <3>1, <3>2
  <2> QED
    BY <1>5, <2>2, <2>3
<1> QED
  BY <1>1, <1>3, <1>7, <1>8 DEF InOrder

\* The pieces and the opened calls after one more piece.
LEMMA MorePieces ==
  ASSUME NEW O, O \subseteq Calls, NEW P \in [Calls -> Seq(Nat)],
         Filled(O, P), NEW c \in Calls, NEW n \in Nat
  PROVE  /\ O \cup {c} \subseteq Calls /\ More(P, c, n) \in [Calls -> Seq(Nat)]
         /\ Filled(O \cup {c}, More(P, c, n))
<1>1. PICK s \in Seq(Nat) : s = Append(P[c], n)
  BY AppendProperties
<1>2. s # <<>>
  BY <1>1, AppendProperties
<1>3. \A d \in Calls : More(P, c, n)[d] = IF d = c THEN s ELSE P[d]
  BY <1>1 DEF More
<1>4. More(P, c, n) \in [Calls -> Seq(Nat)]
  BY <1>1 DEF More
<1> QED
  BY <1>2, <1>3, <1>4 DEF Filled

\* The result has one piece more and agrees with the books.
Grew(result, calls, ids, made, fs, failed, A, O, P, n) ==
  \E more :
    /\ result = State(more, ids, made, fs, failed)
    /\ Books(more, made, A, O, P)
    /\ InOrder(calls, n - 1) => InOrder(more, n)

\* Calls that differ from those before in no name and id but the one of call c.
Alike(more, calls, id, c) ==
  \A j \in DOMAIN more :
    \/ /\ j \in DOMAIN calls
       /\ more[j].id = calls[j].id /\ more[j].name = calls[j].name
    \/ more[j].id = id /\ more[j].name = c

GrewById(result, calls, ids, made, fs, failed, A, O, P, n, id, c) ==
  \E more :
    /\ result = State(more, ids, made, fs, failed)
    /\ Books(more, made, A, O, P)
    /\ InOrder(calls, n - 1) => InOrder(more, n)
    /\ Alike(more, calls, id, c)

\* The id is that of call c and of no other.
Carries(calls, id, c) == \A j \in DOMAIN calls : calls[j].id = id <=> calls[j].name = c

\* The id is the announced one of call c, or may have been made up.
Fits(c, id, m, B) == IF c \in B THEN id = c ELSE id \in NumCalls .. NumCalls + m - 1

\* A piece with an id keeps the books right.
LEMMA PieceById ==
  ASSUME NEW calls, NEW ids, NEW made, NEW fs, NEW failed, NEW A, NEW O, NEW P,
         Books(calls, made, A, O, P), NEW n \in Nat \ {0},
         NEW c \in Calls, NEW id \in Nat, NEW f, f.call = c, f.id = id,
         f.named <=> c \notin O, Carries(calls, id, c),
         c \notin O => Fits(c, id, made, A)
  PROVE  GrewById(increase(State(calls, ids, made, fs, failed), f, n),
                  calls, ids, made, fs, failed, A, O \cup {c}, More(P, c, n), n, id, c)
<1>1. /\ O \subseteq Calls /\ P \in [Calls -> Seq(Nat)] /\ A \subseteq Calls
      /\ Filled(O, P)
      /\ Assembled(calls, O, P) /\ Identified(calls, made, A)
  BY DEF Books
<1>2. calls \in Seq(Call) /\ made \in Nat
  BY <1>1 DEF Assembled, Identified
<1>3. PICK l \in Nat : l = Len(calls) /\ DOMAIN calls = 1 .. l
  BY <1>2
<1>4. id # None
  BY NoneAssumption
<1>5. PICK i : i = position(calls, id)
  OBVIOUS
<1>6. \/ i = 0 /\ \A j \in 1 .. l : calls[j].id # id
      \/ i \in 1 .. l /\ calls[i].id = id
  BY <1>3, <1>4, <1>5, PositionIs
<1>7. f.named <=> i = 0
  <2>1. CASE i = 0
    <3>1. \A j \in 1 .. l : calls[j].name # c
      BY <1>3, <1>6, <2>1 DEF Carries
    <3>2. c \notin O
      BY <1>1, <1>3, <3>1 DEF Assembled
    <3> QED
      BY <2>1, <3>2
  <2>2. CASE i \in 1 .. l /\ calls[i].id = id
    <3>1. calls[i].name = c
      BY <1>3, <2>2 DEF Carries
    <3>2. c \in O
      BY <1>1, <1>3, <2>2, <3>1 DEF Assembled
    <3> QED
      BY <2>2, <3>2
  <2> QED
    BY <1>6, <2>1, <2>2
<1>8. /\ O \cup {c} \subseteq Calls /\ More(P, c, n) \in [Calls -> Seq(Nat)]
      /\ Filled(O \cup {c}, More(P, c, n))
  BY <1>1, MorePieces
<1>9. increase(State(calls, ids, made, fs, failed), f, n)
        = State(IF f.named THEN Append(calls, Started(c, id, n)) ELSE Grown(calls, i, n),
                ids, made, fs, failed)
  BY <1>2, <1>4, <1>5, <1>7, IncreaseById
<1>10. CASE f.named
  <2>1. PICK more : more = Append(calls, Started(c, id, n))
    OBVIOUS
  <2>2. c \notin O /\ P[c] = <<>> /\ \A j \in DOMAIN calls : calls[j].id # id
    BY <1>1, <1>3, <1>6, <1>7, <1>10 DEF Filled
  <2>3. Assembled(more, O \cup {c}, More(P, c, n))
    BY <1>1, <2>1, <2>2, AssembledStarted
  <2>4. Identified(more, made, A)
    <3>1. made <= made /\ IF c \in A THEN id = c ELSE id \in NumCalls .. NumCalls + made - 1
      BY <1>2, <2>2 DEF Fits
    <3> QED
      BY <1>1, <1>2, <2>1, <2>2, <3>1, IdentifiedStarted
  <2>5. \A j \in DOMAIN more :
          \/ /\ j \in DOMAIN calls
             /\ more[j].id = calls[j].id /\ more[j].name = calls[j].name
          \/ more[j].id = id /\ more[j].name = c
    <3>1. /\ DOMAIN more = 1 .. l + 1 /\ \A j \in 1 .. l : more[j] = calls[j]
          /\ more[l + 1].id = id /\ more[l + 1].name = c
      BY <1>2, <1>3, <2>1, StartedFields
    <3>2. \A j \in 1 .. l + 1 : j \in 1 .. l \/ j = l + 1
      OBVIOUS
    <3> QED
      BY <1>3, <3>1, <3>2
  <2>6. Books(more, made, A, O \cup {c}, More(P, c, n))
    BY <1>1, <1>8, <2>3, <2>4 DEF Books
  <2>7. increase(State(calls, ids, made, fs, failed), f, n) = State(more, ids, made, fs, failed)
    BY <1>9, <1>10, <2>1
  <2>8. InOrder(calls, n - 1) => InOrder(more, n)
    BY <1>2, <2>1, InOrderStarted
  <2> QED
    BY <2>5, <2>6, <2>7, <2>8 DEF GrewById, Alike
<1>11. CASE ~f.named
  <2>1. PICK more : more = Grown(calls, i, n)
    OBVIOUS
  <2>2. c \in O /\ i \in 1 .. Len(calls) /\ calls[i].name = c
    BY <1>3, <1>6, <1>7, <1>11 DEF Carries
  <2>3. O \cup {c} = O
    BY <2>2
  <2>4. Assembled(more, O, More(P, c, n))
    BY <1>1, <2>1, <2>2, AssembledGrown
  <2>5. /\ DOMAIN more = DOMAIN calls
        /\ \A j \in DOMAIN calls : more[j].id = calls[j].id /\ more[j].name = calls[j].name
    BY <1>2, <2>1, <2>2, GrownFields
  <2>6. Identified(more, made, A)
    BY <1>1, <2>5, IdentifiedSame
  <2>7. Books(more, made, A, O \cup {c}, More(P, c, n))
    BY <1>1, <1>8, <2>3, <2>4, <2>6 DEF Books
  <2>8. increase(State(calls, ids, made, fs, failed), f, n) = State(more, ids, made, fs, failed)
    BY <1>9, <1>11, <2>1
  <2>9. InOrder(calls, n - 1) => InOrder(more, n)
    BY <1>2, <2>1, <2>2, InOrderGrown
  <2> QED
    BY <2>5, <2>7, <2>8, <2>9 DEF GrewById, Alike
<1> QED
  BY <1>10, <1>11

\* So does a name without an id.
LEMMA PieceFresh ==
  ASSUME NEW calls, NEW ids, NEW made, NEW fs, NEW failed, NEW A, NEW O, NEW P,
         Books(calls, made, A, O, P), NEW n \in Nat \ {0},
         NEW c \in Calls, NEW f, f.call = c, f.id = None, f.named, c \notin O, c \notin A
  PROVE  Grew(increase(State(calls, ids, made, fs, failed), f, n),
              calls, ids, made + 1, fs, failed, A, O \cup {c}, More(P, c, n), n)
<1>1. /\ O \subseteq Calls /\ P \in [Calls -> Seq(Nat)] /\ A \subseteq Calls
      /\ Filled(O, P)
      /\ Assembled(calls, O, P) /\ Identified(calls, made, A)
  BY DEF Books
<1>2. calls \in Seq(Call) /\ made \in Nat
  BY <1>1 DEF Assembled, Identified
<1>3. PICK l \in Nat : l = Len(calls) /\ DOMAIN calls = 1 .. l
  BY <1>2
<1>4. PICK id \in Nat : id = NumCalls + made
  BY <1>2, NumCallsAssumption
<1>5. ASSUME NEW j \in 1 .. l PROVE calls[j].id # id
  <2>1. calls[j] \in Call
    BY <1>2, <1>3
  <2>2. calls[j].name \in 0 .. NumCalls - 1
    BY <2>1 DEF Call, Calls
  <2>3. calls[j].id = calls[j].name \/ calls[j].id \in NumCalls .. NumCalls + made - 1
    BY <1>1, <1>3 DEF Identified
  <2> QED
    BY <1>2, <1>4, <2>2, <2>3, NumCallsAssumption
<1>6. position(calls, id) = 0
  <2>1. id # None
    BY NoneAssumption
  <2> QED
    BY <1>3, <1>5, <2>1, PositionIs
<1>7. PICK more : more = Append(calls, Started(c, id, n))
  OBVIOUS
<1>8. increase(State(calls, ids, made, fs, failed), f, n) = State(more, ids, made + 1, fs, failed)
  BY <1>2, <1>4, <1>6, <1>7, IncreaseFresh
<1>9. /\ O \cup {c} \subseteq Calls /\ More(P, c, n) \in [Calls -> Seq(Nat)]
      /\ Filled(O \cup {c}, More(P, c, n))
  BY <1>1, MorePieces
<1>10. Assembled(more, O \cup {c}, More(P, c, n))
  <2>1. P[c] = <<>>
    BY <1>1 DEF Filled
  <2> QED
    BY <1>1, <1>7, <2>1, AssembledStarted
<1>11. Identified(more, made + 1, A)
  <2>1. PICK m \in Nat : m = made + 1 /\ made <= m
    BY <1>2
  <2>2. IF c \in A THEN id = c ELSE id \in NumCalls .. NumCalls + m - 1
    BY <1>2, <1>4, <2>1, NumCallsAssumption
  <2>3. Identified(more, m, A)
    BY <1>1, <1>2, <1>3, <1>5, <1>7, <2>1, <2>2, IdentifiedStarted
  <2> QED
    BY <2>1, <2>3
<1>12. InOrder(calls, n - 1) => InOrder(more, n)
  BY <1>2, <1>7, InOrderStarted
<1>13. Books(more, made + 1, A, O \cup {c}, More(P, c, n))
  BY <1>1, <1>9, <1>10, <1>11 DEF Books
<1> QED
  BY <1>8, <1>12, <1>13 DEF Grew

\* And a piece for the last call.
LEMMA PieceLast ==
  ASSUME NEW calls, NEW ids, NEW made, NEW fs, NEW failed, NEW A, NEW O, NEW P,
         Books(calls, made, A, O, P), NEW n \in Nat \ {0},
         NEW c \in Calls, NEW f, f.id = None, ~f.named,
         NEW i \in 1 .. Len(calls), i = Len(calls), calls[i].name = c
  PROVE  Grew(increase(State(calls, ids, made, fs, failed), f, n),
              calls, ids, made, fs, failed, A, O \cup {c}, More(P, c, n), n)
<1>1. /\ O \subseteq Calls /\ P \in [Calls -> Seq(Nat)] /\ A \subseteq Calls
      /\ Filled(O, P)
      /\ Assembled(calls, O, P) /\ Identified(calls, made, A)
  BY DEF Books
<1>2. calls \in Seq(Call)
  BY <1>1 DEF Assembled
<1>3. DOMAIN calls = 1 .. Len(calls) /\ Len(calls) # 0
  BY <1>2
<1>4. c \in O
  BY <1>1, <1>3 DEF Assembled
<1>5. O \cup {c} = O
  BY <1>4
<1>6. PICK more : more = Grown(calls, i, n)
  OBVIOUS
<1>7. increase(State(calls, ids, made, fs, failed), f, n) = State(more, ids, made, fs, failed)
  <2>1. n \in Nat
    OBVIOUS
  <2> QED
    BY <1>2, <1>6, <2>1, IncreaseLast
<1>8. /\ O \cup {c} \subseteq Calls /\ More(P, c, n) \in [Calls -> Seq(Nat)]
      /\ Filled(O \cup {c}, More(P, c, n))
  BY <1>1, MorePieces
<1>9. Assembled(more, O, More(P, c, n))
  BY <1>1, <1>6, AssembledGrown
<1>10. /\ DOMAIN more = DOMAIN calls
       /\ \A j \in DOMAIN calls : more[j].id = calls[j].id /\ more[j].name = calls[j].name
  BY <1>2, <1>6, GrownFields
<1>11. Identified(more, made, A)
  BY <1>1, <1>10, IdentifiedSame
<1>12. InOrder(calls, n - 1) => InOrder(more, n)
  BY <1>2, <1>6, InOrderGrown
<1>13. Books(more, made, A, O \cup {c}, More(P, c, n))
  BY <1>1, <1>5, <1>8, <1>9, <1>11 DEF Books
<1> QED
  BY <1>7, <1>12, <1>13 DEF Grew

-----------------------------------------------------------------------------
(***************************************************************************)
(* Indices. The id kept for an index is the call's, whether it was         *)
(* announced or made up; an id that comes late renames the call.           *)
(***************************************************************************)

\* The id of each index is its call's, and no two indices have the same.
Indexed(calls, ids, made, A) ==
  /\ ids \in [Calls -> Nat \cup {None}]
  /\ \A c \in Calls : ids[c] # None =>
       IF c \in A THEN ids[c] = c ELSE ids[c] \in NumCalls .. NumCalls + made - 1
  /\ \A c \in A : ids[c] # None
  /\ \A c, d \in Calls : ids[c] = ids[d] /\ ids[c] # None => c = d
  /\ \A i \in DOMAIN calls : ids[calls[i].name] = calls[i].id

\* The calls with the id of call c replaced.
Renamed(calls, more, c, id) ==
  /\ more \in Seq(Call) /\ DOMAIN more = DOMAIN calls
  /\ \A j \in DOMAIN calls :
       /\ more[j].name = calls[j].name /\ more[j].args = calls[j].args
       /\ more[j].id = IF calls[j].name = c THEN id ELSE calls[j].id

\* No other index has the id.
Unused(ids, c, id) == \A d \in Calls : d # c => ids[d] # id

\* A renamed call agrees with the books and with the indices.
LEMMA BooksRenamed ==
  ASSUME NEW calls, NEW ids, NEW made, NEW A, NEW O, NEW P,
         Books(calls, made, A, O, P), Indexed(calls, ids, made, A),
         NEW c \in Calls, NEW id \in Nat, NEW more, Renamed(calls, more, c, id),
         NEW m \in Nat, made <= m, NEW B, B = A \/ B = A \cup {c},
         Fits(c, id, m, B), Unused(ids, c, id)
  PROVE  /\ Books(more, m, B, O, P)
         /\ Indexed(more, [ids EXCEPT ![c] = id], m, B)
<1>1. /\ O \subseteq Calls /\ P \in [Calls -> Seq(Nat)] /\ A \subseteq Calls
      /\ Filled(O, P)
      /\ Assembled(calls, O, P) /\ Identified(calls, made, A)
  BY DEF Books
<1>2. PICK new : new = [ids EXCEPT ![c] = id]
  OBVIOUS
<1>3. /\ ids \in [Calls -> Nat \cup {None}]
      /\ new \in [Calls -> Nat \cup {None}]
      /\ \A d \in Calls : new[d] = IF d = c THEN id ELSE ids[d]
  BY <1>2 DEF Indexed
<1>4. NumCalls .. NumCalls + made - 1 \subseteq NumCalls .. NumCalls + m - 1
  BY <1>1, NumCallsAssumption DEF Identified
<1>5. B \subseteq Calls /\ \A d \in Calls : d # c => (d \in B <=> d \in A)
  BY <1>1
<1>6. id # None
  BY NoneAssumption
<1>7. ASSUME NEW d \in Calls, new[d] # None
      PROVE  IF d \in B THEN new[d] = d ELSE new[d] \in NumCalls .. NumCalls + m - 1
  <2>1. CASE d = c
    BY <1>3, <2>1 DEF Fits
  <2>2. CASE d # c
    <3>1. IF d \in A THEN ids[d] = d ELSE ids[d] \in NumCalls .. NumCalls + made - 1
      BY <1>3, <1>7, <2>2 DEF Indexed
    <3> QED
      BY <1>3, <1>4, <1>5, <2>2, <3>1
  <2> QED
    BY <2>1, <2>2
<1>8. \A d \in B : new[d] # None
  BY <1>3, <1>5, <1>6 DEF Indexed
<1>9. \A d, e \in Calls : new[d] = new[e] /\ new[d] # None => d = e
  BY <1>3 DEF Indexed, Unused
<1>10. /\ more \in Seq(Call) /\ DOMAIN more = DOMAIN calls
       /\ \A j \in DOMAIN calls :
            /\ more[j].name = calls[j].name /\ more[j].args = calls[j].args
            /\ more[j].id = IF calls[j].name = c THEN id ELSE calls[j].id
  BY DEF Renamed
<1>11. \A j \in DOMAIN calls : calls[j].name \in Calls
  BY <1>1 DEF Assembled
<1>12. \A j \in DOMAIN more : more[j].name \in Calls /\ new[more[j].name] = more[j].id
  BY <1>3, <1>10, <1>11 DEF Indexed
<1>13. Indexed(more, new, m, B)
  BY <1>3, <1>7, <1>8, <1>9, <1>12 DEF Indexed
<1>14. Assembled(more, O, P)
  <2>1. \A j \in DOMAIN more : more[j].name \in O /\ more[j].args = P[more[j].name]
    BY <1>1, <1>10 DEF Assembled
  <2>2. ASSUME NEW d \in O PROVE \E j \in DOMAIN more : more[j].name = d
    <3>1. PICK j \in DOMAIN calls : calls[j].name = d
      BY <1>1 DEF Assembled
    <3> QED
      BY <1>10, <3>1
  <2>3. \A j, k \in DOMAIN more : more[j].name = more[k].name => j = k
    BY <1>1, <1>10 DEF Assembled
  <2> QED
    BY <1>10, <2>1, <2>2, <2>3 DEF Assembled
<1>15. Identified(more, m, B)
  <2>1. \A j \in DOMAIN more : more[j].id # None
    <3>1. \A j \in DOMAIN more : more[j] \in Call
      BY <1>10
    <3> QED
      BY <3>1, NoneAssumption DEF Call
  <2>2. \A j \in DOMAIN more :
          IF more[j].name \in B THEN more[j].id = more[j].name
          ELSE more[j].id \in NumCalls .. NumCalls + m - 1
    BY <1>7, <1>12, <2>1
  <2>3. ASSUME NEW j \in DOMAIN more, NEW k \in DOMAIN more, more[j].id = more[k].id
        PROVE  j = k
    <3>1. more[j].name = more[k].name
      BY <1>9, <1>12, <2>1, <2>3
    <3> QED
      BY <1>14, <3>1 DEF Assembled
  <2> QED
    BY <2>2, <2>3 DEF Identified
<1>16. Books(more, m, B, O, P)
  BY <1>1, <1>5, <1>14, <1>15 DEF Books
<1> QED
  BY <1>2, <1>13, <1>16

\* The call is renamed where it stands.
LEMMA RenamedAt ==
  ASSUME NEW calls \in Seq(Call), NEW i \in 1 .. Len(calls), NEW c \in Calls, NEW id \in Nat,
         \A j \in DOMAIN calls : calls[j].name = c <=> j = i
  PROVE  Renamed(calls, [calls EXCEPT ![i].id = id], c, id)
<1>1. PICK l \in Nat : l = Len(calls) /\ DOMAIN calls = 1 .. l
  OBVIOUS
<1>2. PICK old \in Call : old = calls[i]
  OBVIOUS
<1>3. PICK call : call = [old EXCEPT !.id = id]
  OBVIOUS
<1>4. call \in Call /\ call.id = id /\ call.name = old.name /\ call.args = old.args
  BY <1>3 DEF Call
<1>5. PICK more : more = [calls EXCEPT ![i].id = id]
  OBVIOUS
<1>6. more = [calls EXCEPT ![i] = call]
  BY <1>2, <1>3, <1>5
<1>7. more \in [1 .. l -> Call] /\ calls \in [1 .. l -> Call]
  BY <1>1, <1>4, <1>6
<1>8. \A j \in 1 .. l : more[j] = IF j = i THEN call ELSE calls[j]
  BY <1>1, <1>6, <1>7
<1>9. ASSUME NEW j \in 1 .. l
      PROVE  /\ more[j].name = calls[j].name /\ more[j].args = calls[j].args
             /\ more[j].id = IF calls[j].name = c THEN id ELSE calls[j].id
  <2>1. CASE j = i
    BY <1>1, <1>2, <1>4, <1>8, <2>1
  <2>2. CASE j # i
    BY <1>1, <1>8, <2>2
  <2> QED
    BY <2>1, <2>2
<1>10. more \in Seq(Call) /\ DOMAIN more = 1 .. l
  BY <1>7
<1> QED
  BY <1>1, <1>5, <1>9, <1>10 DEF Renamed

Tracked(state, more, ids, m, fs) ==
  [state EXCEPT !.calls = more, !.ids = ids, !.generated = m, !.fragments = fs]

\* The fields of a state replaced by what is tracked.
LEMMA TrackedIs ==
  ASSUME NEW calls, NEW ids, NEW made, NEW fs, NEW failed, NEW more, NEW new, NEW m, NEW fs2
  PROVE  Tracked(State(calls, ids, made, fs, failed), more, new, m, fs2)
           = State(more, new, m, fs2, failed)
<1>1. PICK s1 : s1 = State(more, ids, made, fs, failed)
  OBVIOUS
<1>2. [State(calls, ids, made, fs, failed) EXCEPT !.calls = more] = s1
  BY <1>1 DEF State
<1>3. PICK s2 : s2 = State(more, new, made, fs, failed)
  OBVIOUS
<1>4. [s1 EXCEPT !.ids = new] = s2
  BY <1>1, <1>3 DEF State
<1>5. PICK s3 : s3 = State(more, new, m, fs, failed)
  OBVIOUS
<1>6. [s2 EXCEPT !.generated = m] = s3
  BY <1>3, <1>5 DEF State
<1>7. [s3 EXCEPT !.fragments = fs2] = State(more, new, m, fs2, failed)
  BY <1>5 DEF State
<1> QED
  BY <1>2, <1>4, <1>6, <1>7 DEF Tracked

\* A fragment without an index is kept as it is.
LEMMA TrackUnindexed ==
  ASSUME NEW calls, NEW ids, NEW made, NEW fs, NEW failed, NEW f, f.index = None
  PROVE  track(State(calls, ids, made, fs, failed), f)
           = State(calls, ids, made, Append(fs, f), failed)
<1>1. PICK state : state = State(calls, ids, made, fs, failed)
  OBVIOUS
<1>2. state.fragments = fs
  BY <1>1 DEF State
<1>3. PICK more : more = Append(fs, f)
  OBVIOUS
<1>4. track(state, f) = [state EXCEPT !.fragments = more]
  BY <1>2, <1>3 DEF track
<1>5. [state EXCEPT !.fragments = more] = State(calls, ids, made, more, failed)
  BY <1>1 DEF State
<1> QED
  BY <1>1, <1>3, <1>4, <1>5

\* A fragment with an index settles the id of the index and of its call.
LEMMA TrackIs ==
  ASSUME NEW calls, NEW ids, NEW made, NEW fs, NEW failed, NEW f, f.index # None,
         NEW id, NEW i, i = position(calls, ids[f.index]),
         id = IF f.id # None THEN f.id
              ELSE IF ids[f.index] # None THEN ids[f.index] ELSE NumCalls + made
  PROVE  track(State(calls, ids, made, fs, failed), f)
           = State(IF i = 0 THEN calls ELSE [calls EXCEPT ![i].id = id],
                   [ids EXCEPT ![f.index] = id],
                   IF id = NumCalls + made THEN made + 1 ELSE made,
                   Append(fs, [f EXCEPT !.id = id]), failed)
<1>1. PICK state : state = State(calls, ids, made, fs, failed)
  OBVIOUS
<1>2. state.calls = calls /\ state.ids = ids /\ state.generated = made /\ state.fragments = fs
  BY <1>1 DEF State
<1>3. track(state, f)
        = Tracked(state, IF i = 0 THEN calls ELSE [calls EXCEPT ![i].id = id],
                  [ids EXCEPT ![f.index] = id],
                  IF id = NumCalls + made THEN made + 1 ELSE made,
                  Append(fs, [f EXCEPT !.id = id]))
  BY <1>2 DEF track, Tracked
<1> QED
  BY <1>1, <1>3, TrackedIs

-----------------------------------------------------------------------------
(***************************************************************************)
(* A fragment with an index, tracked: its call, if there is one, has the   *)
(* id of the index after it, and so has the fragment.                      *)
(***************************************************************************)

\* No id, no call.
LEMMA PositionOfNone == ASSUME NEW calls PROVE position(calls, None) = 0
BY DEF position

\* A call that was not started need not be renamed.
LEMMA RenamedNone ==
  ASSUME NEW calls \in Seq(Call), NEW c, NEW id, \A j \in DOMAIN calls : calls[j].name # c
  PROVE  Renamed(calls, calls, c, id)
BY DEF Renamed

\* The call found by the id of its index is the call of the index.
LEMMA RenamedTracked ==
  ASSUME NEW calls, NEW ids, NEW made, NEW A, NEW O, NEW P,
         Books(calls, made, A, O, P), Indexed(calls, ids, made, A),
         NEW c \in Calls, NEW id \in Nat, NEW i, i = position(calls, ids[c])
  PROVE  Renamed(calls, IF i = 0 THEN calls ELSE [calls EXCEPT ![i].id = id], c, id)
<1>1. calls \in Seq(Call)
  BY DEF Books, Assembled
<1>2. PICK l \in Nat : l = Len(calls) /\ DOMAIN calls = 1 .. l
  BY <1>1
<1>3. \A j \in 1 .. l : calls[j].id # None /\ calls[j].name \in Calls
  <2>1. \A j \in 1 .. l : calls[j] \in Call
    BY <1>1, <1>2
  <2> QED
    BY <2>1, NoneAssumption DEF Call
<1>4. \A j \in 1 .. l : ids[calls[j].name] = calls[j].id
  BY <1>2 DEF Indexed
<1>5. CASE ids[c] = None
  <2>1. i = 0
    BY <1>5, PositionOfNone
  <2>2. \A j \in DOMAIN calls : calls[j].name # c
    BY <1>2, <1>3, <1>4, <1>5
  <2> QED
    BY <1>1, <2>1, <2>2, RenamedNone
<1>6. CASE ids[c] # None
  <2>1. \/ i = 0 /\ \A j \in 1 .. l : calls[j].id # ids[c]
        \/ i \in 1 .. l /\ calls[i].id = ids[c]
    BY <1>2, <1>6, PositionIs
  <2>2. CASE i = 0
    <3>1. \A j \in 1 .. l : calls[j].id # ids[c]
      BY <2>1, <2>2
    <3>2. \A j \in DOMAIN calls : calls[j].name # c
      BY <1>2, <1>4, <3>1
    <3> QED
      BY <1>1, <2>2, <3>2, RenamedNone
  <2>3. CASE i \in 1 .. l /\ calls[i].id = ids[c]
    <3>1. calls[i].name = c
      BY <1>3, <1>4, <1>6, <2>3 DEF Indexed
    <3>2. \A j \in DOMAIN calls : calls[j].name = c <=> j = i
      BY <1>2, <2>3, <3>1 DEF Books, Assembled
    <3>3. Renamed(calls, [calls EXCEPT ![i].id = id], c, id)
      BY <1>1, <1>2, <2>3, <3>2, RenamedAt
    <3>4. i # 0
      BY <2>3
    <3> QED
      BY <3>3, <3>4
  <2> QED
    BY <2>1, <2>2, <2>3
<1> QED
  BY <1>5, <1>6

\* The fragment has the id of its index, and the other indices stay as they are.
TrackedAs(result, c, f, ids, fs, failed, B, O, P) ==
  \E more, new, m :
    /\ result = State(more, new, m, Append(fs, [f EXCEPT !.id = new[c]]), failed)
    /\ Books(more, m, B, O, P) /\ Indexed(more, new, m, B)
    /\ new[c] \in Nat
    /\ \A d \in Calls : d # c => new[d] = ids[d]

\* Tracking keeps the books right, with the id announced or made up.
LEMMA TrackIndexed ==
  ASSUME NEW calls, NEW ids, NEW made, NEW fs, NEW failed, NEW A, NEW O, NEW P,
         Books(calls, made, A, O, P), Indexed(calls, ids, made, A),
         NEW c \in Calls, NEW f, f.index = c, f.id = None \/ f.id = c,
         NEW B, f.id = c => B = A \cup {c}, f.id = None => B = A
  PROVE  TrackedAs(track(State(calls, ids, made, fs, failed), f), c, f, ids, fs, failed, B, O, P)
<1>1. /\ c \in Nat /\ c < NumCalls /\ c # None
      /\ \A d \in Calls : d \in Nat /\ d < NumCalls /\ d # None
  BY NumCallsAssumption, NoneAssumption DEF Calls
<1>2. made \in Nat /\ A \subseteq Calls
  BY DEF Books, Identified
<1>3. PICK made1 \in Nat : made1 = NumCalls + made
  BY <1>2, NumCallsAssumption
<1>4. made1 # None
  BY NoneAssumption
<1>5. ids \in [Calls -> Nat \cup {None}]
  BY DEF Indexed
<1>6. \A d \in Calls : ids[d] # None =>
        IF d \in A THEN ids[d] = d ELSE ids[d] \in NumCalls .. NumCalls + made - 1
  BY DEF Indexed
<1>7. PICK id : id = IF f.id # None THEN f.id
                     ELSE IF ids[c] # None THEN ids[c] ELSE made1
  OBVIOUS
<1>8. PICK m : m = IF id = made1 THEN made + 1 ELSE made
  OBVIOUS
<1>9. /\ id \in Nat /\ m \in Nat /\ made <= m
      /\ B = A \/ B = A \cup {c}
      /\ IF c \in B THEN id = c ELSE id \in NumCalls .. NumCalls + m - 1
      /\ \A d \in Calls : d # c => ids[d] # id
  <2>1. CASE f.id = c
    <3>1. id = c
      BY <1>1, <1>7, <2>1
    <3>2. m = made
      BY <1>1, <1>2, <1>3, <1>8, <3>1, NumCallsAssumption
    <3>3. ASSUME NEW d \in Calls, d # c PROVE ids[d] # id
      <4>1. ids[d] = None \/ ids[d] = d \/ ids[d] \in NumCalls .. NumCalls + made - 1
        BY <1>6
      <4>2. ids[d] \in NumCalls .. NumCalls + made - 1 => ids[d] # c
        BY <1>1, <1>2, NumCallsAssumption
      <4> QED
        BY <1>1, <3>1, <3>3, <4>1, <4>2
    <3> QED
      BY <1>1, <1>2, <2>1, <3>1, <3>2, <3>3
  <2>2. CASE f.id = None /\ ids[c] # None
    <3>1. id = ids[c] /\ id \in Nat
      BY <1>5, <1>7, <2>2
    <3>2. IF c \in A THEN id = c ELSE id \in NumCalls .. NumCalls + made - 1
      BY <1>6, <2>2, <3>1
    <3>3. id # made1
      BY <1>1, <1>2, <1>3, <3>2, NumCallsAssumption
    <3>4. m = made
      BY <1>8, <3>3
    <3>5. \A d \in Calls : d # c => ids[d] # id
      BY <2>2, <3>1 DEF Indexed
    <3> QED
      BY <1>2, <2>2, <3>1, <3>2, <3>4, <3>5
  <2>3. CASE f.id = None /\ ids[c] = None
    <3>1. id = made1
      BY <1>7, <2>3
    <3>2. m = made + 1
      BY <1>8, <3>1
    <3>3. c \notin A
      BY <2>3 DEF Indexed
    <3>4. id \in NumCalls .. NumCalls + m - 1
      BY <1>2, <1>3, <3>1, <3>2, NumCallsAssumption
    <3>5. ASSUME NEW d \in Calls, d # c PROVE ids[d] # id
      <4>1. ids[d] = None \/ ids[d] = d \/ ids[d] \in NumCalls .. NumCalls + made - 1
        BY <1>6
      <4>2. ids[d] \in NumCalls .. NumCalls + made - 1 => ids[d] # made1
        BY <1>2, <1>3, NumCallsAssumption
      <4>3. d # made1
        BY <1>1, <1>2, <1>3, NumCallsAssumption
      <4> QED
        BY <1>4, <3>1, <4>1, <4>2, <4>3
    <3> QED
      BY <1>2, <2>3, <3>1, <3>2, <3>3, <3>4, <3>5
  <2> QED
    BY <2>1, <2>2, <2>3
<1>10. PICK i : i = position(calls, ids[c])
  OBVIOUS
<1>11. PICK more : more = IF i = 0 THEN calls ELSE [calls EXCEPT ![i].id = id]
  OBVIOUS
<1>12. PICK new : new = [ids EXCEPT ![c] = id]
  OBVIOUS
<1>13. Renamed(calls, more, c, id)
  BY <1>9, <1>10, <1>11, RenamedTracked
<1>14. Books(more, m, B, O, P) /\ Indexed(more, new, m, B)
  <2>1. id \in Nat /\ m \in Nat /\ made <= m
    BY <1>9
  <2>2. B = A \/ B = A \cup {c}
    BY <1>9
  <2>3. Fits(c, id, m, B) /\ Unused(ids, c, id)
    BY <1>9 DEF Fits, Unused
  <2> QED
    BY <1>12, <1>13, <2>1, <2>2, <2>3, BooksRenamed
<1>15. new[c] = id /\ \A d \in Calls : d # c => new[d] = ids[d]
  BY <1>5, <1>12
<1>16. track(State(calls, ids, made, fs, failed), f)
         = State(more, new, m, Append(fs, [f EXCEPT !.id = new[c]]), failed)
  <2>1. f.index # None
    BY <1>1
  <2>2. track(State(calls, ids, made, fs, failed), f)
          = State(IF i = 0 THEN calls ELSE [calls EXCEPT ![i].id = id],
                   [ids EXCEPT ![f.index] = id],
                   IF id = NumCalls + made THEN made + 1 ELSE made,
                   Append(fs, [f EXCEPT !.id = id]), failed)
    BY <1>3, <1>7, <1>10, <2>1, TrackIs
  <2> QED
    BY <1>3, <1>8, <1>11, <1>12, <1>15, <2>2
<1> QED
  BY <1>9, <1>14, <1>15, <1>16 DEF TrackedAs

-----------------------------------------------------------------------------
(***************************************************************************)
(* What the provider said about a call: an event more brings a piece of    *)
(* it, announces its id, or leaves it as it was.                           *)
(***************************************************************************)

\* The event brings a piece of call c.
Brings(e, c) ==
  \E i \in DOMAIN e.fragments : e.fragments[i].function /\ e.fragments[i].call = c

\* The event announces the id of call c.
Names(e, c) ==
  \E i \in DOMAIN e.fragments : e.fragments[i].call = c /\ e.fragments[i].id = c

PiecesByCall == [c \in Calls |-> Pieces(c)]

AnnouncedCalls == {c \in Calls : Announced(c)}

PiecesBy(events, c) ==
  [i \in DOMAIN events |-> IF Brings(events[i], c) THEN <<i>> ELSE <<>>]

\* Pieces looks at the events only through Brings.
LEMMA PiecesAre == ASSUME NEW c PROVE Pieces(c) = FlattenSeq(PiecesBy(received, c))
<1>1. ASSUME NEW n \in DOMAIN received
      PROVE  (\E i \in Functions(n) : Fragments(n)[i].call = c) <=> Brings(received[n], c)
  BY DEF Functions, Fragments, Brings
<1>2. [n \in DOMAIN received |->
         IF \E i \in Functions(n) : Fragments(n)[i].call = c THEN <<n>> ELSE <<>>]
        = PiecesBy(received, c)
  BY <1>1 DEF PiecesBy
<1> QED
  BY <1>2 DEF Pieces

\* One event has one piece of a call or none.
LEMMA PiecesByType ==
  ASSUME NEW events, IsSequence(events), NEW c
  PROVE  /\ PiecesBy(events, c) \in Seq(Seq(Nat)) /\ Len(PiecesBy(events, c)) = Len(events)
         /\ \A i \in 1 .. Len(events) :
              PiecesBy(events, c)[i] = IF Brings(events[i], c) THEN <<i>> ELSE <<>>
<1>1. PICK n \in Nat : n = Len(events) /\ DOMAIN events = 1 .. n
  BY Appended
<1>2. PICK s : s = PiecesBy(events, c)
  OBVIOUS
<1>3. ASSUME NEW i \in 1 .. n
      PROVE  /\ s[i] = IF Brings(events[i], c) THEN <<i>> ELSE <<>>
             /\ s[i] \in Seq(Nat)
  <2>1. <<i>> \in Seq(Nat) /\ <<>> \in Seq(Nat)
    OBVIOUS
  <2> QED
    BY <1>1, <1>2, <2>1 DEF PiecesBy
<1>4. s \in [1 .. n -> Seq(Nat)]
  BY <1>1, <1>2, <1>3 DEF PiecesBy
<1>5. s \in Seq(Seq(Nat)) /\ Len(s) = n
  BY <1>4
<1> QED
  BY <1>1, <1>2, <1>3, <1>5

\* One more event: its number is one more piece, or nothing changes.
LEMMA PiecesMore ==
  ASSUME IsSequence(received), NEW e, received' = Append(received, e), NEW c
  PROVE  /\ Pieces(c) \in Seq(Nat)
         /\ Brings(e, c) => Pieces(c)' = Append(Pieces(c), Len(received) + 1)
         /\ ~Brings(e, c) => Pieces(c)' = Pieces(c)
<1>1. PICK more : more = received'
  OBVIOUS
<1>2. PICK n \in Nat : n = Len(received)
  BY Appended
<1>3. /\ IsSequence(more) /\ Len(more) = n + 1
      /\ \A i \in 1 .. n : more[i] = received[i]
      /\ more[n + 1] = e
  BY <1>1, <1>2, Appended
<1>4. PICK s : s = PiecesBy(received, c)
  OBVIOUS
<1>5. PICK t : t = PiecesBy(more, c)
  OBVIOUS
<1>6. /\ s \in Seq(Seq(Nat)) /\ Len(s) = n
      /\ \A i \in 1 .. n : s[i] = IF Brings(received[i], c) THEN <<i>> ELSE <<>>
  BY <1>2, <1>4, PiecesByType
<1>7. /\ t \in Seq(Seq(Nat)) /\ Len(t) = n + 1
      /\ \A i \in 1 .. n + 1 : t[i] = IF Brings(more[i], c) THEN <<i>> ELSE <<>>
  BY <1>3, <1>5, PiecesByType
<1>8. \A i \in 1 .. n : t[i] = s[i]
  <2>1. \A i \in 1 .. n : i \in 1 .. n + 1
    OBVIOUS
  <2> QED
    BY <1>3, <1>6, <1>7, <2>1
<1>9. PICK x : x = t[n + 1]
  OBVIOUS
<1>10. x = IF Brings(e, c) THEN <<n + 1>> ELSE <<>>
  BY <1>3, <1>7, <1>9
<1>11. PICK a \in Seq(Nat) : a = FlattenSeq(s) /\ FlattenSeq(t) = a \o x /\ x \in Seq(Nat)
  BY <1>6, <1>7, <1>8, <1>9, FlattenMore
<1>12. Pieces(c) = a
  BY <1>4, <1>11, PiecesAre
<1>13. Pieces(c)' = a \o x
  <2>1. Pieces(c)' = FlattenSeq(PiecesBy(received', c))
    <3>1. ASSUME NEW i \in DOMAIN received'
          PROVE  (\E j \in Functions(i)' : Fragments(i)'[j].call = c) <=> Brings(received'[i], c)
      BY DEF Functions, Fragments, Brings
    <3>2. [i \in DOMAIN received' |->
             IF \E j \in Functions(i)' : Fragments(i)'[j].call = c THEN <<i>> ELSE <<>>]
            = PiecesBy(received', c)
      BY <3>1 DEF PiecesBy
    <3> QED
      BY <3>2 DEF Pieces
  <2> QED
    BY <1>1, <1>5, <1>11, <2>1
<1>14. a \o <<n + 1>> = Append(a, n + 1) /\ a \o <<>> = a
  OBVIOUS
<1> QED
  BY <1>2, <1>10, <1>12, <1>13, <1>14

\* An id stays announced.
LEMMA AnnouncedMore ==
  ASSUME IsSequence(received), NEW e, received' = Append(received, e), NEW c
  PROVE  Announced(c)' <=> Announced(c) \/ Names(e, c)
<1>1. PICK n \in Nat : n = Len(received)
  BY Appended
<1>2. /\ DOMAIN received = 1 .. n /\ DOMAIN received' = 1 .. n + 1
      /\ \A i \in 1 .. n : received'[i] = received[i]
      /\ received'[n + 1] = e
  BY <1>1, Appended
<1>3. Announced(c) <=> \E i \in 1 .. n : Names(received[i], c)
  BY <1>2 DEF Announced, Names, Fragments
<1>4. Announced(c)' <=> \E i \in 1 .. n + 1 : Names(received'[i], c)
  BY <1>2 DEF Announced, Names, Fragments
<1>5. \A i \in 1 .. n + 1 : i \in 1 .. n \/ i = n + 1
  OBVIOUS
<1>6. n + 1 \in 1 .. n + 1 /\ \A i \in 1 .. n : i \in 1 .. n + 1
  OBVIOUS
<1> QED
  BY <1>2, <1>3, <1>4, <1>5, <1>6

\* The event brings a piece of each call of D.
BringsFor(e, D) == D \subseteq Calls /\ \A c \in Calls : Brings(e, c) <=> c \in D

\* The event announces the ids of the calls of D.
NamesOf(e, D) == D \subseteq Calls /\ \A c \in Calls : Names(e, c) <=> c \in D

MoreFor(P, D, n) == [c \in Calls |-> IF c \in D THEN Append(P[c], n) ELSE P[c]]

\* The pieces after an event that brings some.
LEMMA BroughtSome ==
  ASSUME IsSequence(received), NEW e, received' = Append(received, e),
         NEW D, BringsFor(e, D)
  PROVE  /\ PiecesByCall' = MoreFor(PiecesByCall, D, Len(received) + 1)
         /\ Opened' = Opened \cup D
<1> USE DEF BringsFor
<1>1. ASSUME NEW c \in Calls
      PROVE  /\ Pieces(c)' = IF c \in D THEN Append(Pieces(c), Len(received) + 1) ELSE Pieces(c)
             /\ c \in D => Pieces(c)' # <<>>
  <2>1. Pieces(c) \in Seq(Nat) /\ Len(received) + 1 \in Nat
    BY PiecesMore, Appended
  <2>2. Append(Pieces(c), Len(received) + 1) # <<>>
    BY <2>1, AppendProperties
  <2> QED
    BY <2>2, PiecesMore
<1>2. \A c \in Calls : PiecesByCall[c] = Pieces(c) /\ PiecesByCall'[c] = Pieces(c)'
  BY DEF PiecesByCall
<1>3. PiecesByCall' = MoreFor(PiecesByCall, D, Len(received) + 1)
  BY <1>1, <1>2 DEF PiecesByCall, MoreFor
<1>4. Opened' = {c \in Calls : Pieces(c)' # <<>>}
  BY DEF Opened
<1>5. Opened = {c \in Calls : Pieces(c) # <<>>}
  BY DEF Opened
<1> QED
  BY <1>1, <1>3, <1>4, <1>5

\* An event that brings none.
LEMMA BroughtNone ==
  ASSUME IsSequence(received), NEW e, received' = Append(received, e),
         \A c \in Calls : ~Brings(e, c)
  PROVE  PiecesByCall' = PiecesByCall /\ Opened' = Opened
<1>1. ASSUME NEW c \in Calls PROVE Pieces(c)' = Pieces(c)
  BY PiecesMore
<1>2. PiecesByCall' = [c \in Calls |-> Pieces(c)'] /\ PiecesByCall = [c \in Calls |-> Pieces(c)]
  BY DEF PiecesByCall
<1>3. Opened' = {c \in Calls : Pieces(c)' # <<>>} /\ Opened = {c \in Calls : Pieces(c) # <<>>}
  BY DEF Opened
<1> QED
  BY <1>1, <1>2, <1>3

\* The announced calls after an event that announces some.
LEMMA AnnouncedSome ==
  ASSUME IsSequence(received), NEW e, received' = Append(received, e),
         NEW D, NamesOf(e, D)
  PROVE  AnnouncedCalls' = AnnouncedCalls \cup D
<1> USE DEF NamesOf
<1>1. \A c \in Calls : Announced(c)' <=> Announced(c) \/ c \in D
  BY AnnouncedMore
<1>2. AnnouncedCalls' = {c \in Calls : Announced(c)'}
  BY DEF AnnouncedCalls
<1> QED
  BY <1>1, <1>2 DEF AnnouncedCalls

-----------------------------------------------------------------------------
(***************************************************************************)
(* The fragments a provider sends, style by style.                         *)
(***************************************************************************)

\* A record with the fields of a fragment.
Wired(f) ==
  f = [call |-> f.call, index |-> f.index, id |-> f.id, function |-> f.function,
       named |-> f.named]

\* A fragment for call c: the name comes with the first piece of the function.
IsFragment(f, c, index) ==
  /\ Wired(f) /\ f.call = c /\ f.index = index
  /\ f.named <=> f.function /\ c \notin Opened

\* The records of FragmentOf are fragments.
LEMMA FragmentIs ==
  ASSUME NEW c, NEW index, NEW id, NEW p,
         NEW f, f = [call |-> c, index |-> index, id |-> id, function |-> p,
                     named |-> p /\ c \notin Opened]
  PROVE  IsFragment(f, c, index) /\ f.id = id /\ f.function = p
<1>1. f.call = c /\ f.index = index /\ f.id = id /\ f.function = p
  OBVIOUS
<1>2. f.named = (p /\ c \notin Opened)
  BY Zenon
<1>3. f.named <=> p /\ c \notin Opened
  BY <1>2, Zenon
<1>4. f = [call |-> f.call, index |-> f.index, id |-> f.id, function |-> f.function,
           named |-> f.named]
  BY <1>1, <1>2, Zenon
<1> QED
  BY <1>1, <1>3, <1>4 DEF IsFragment, Wired

\* With an index: the id may be missing, and it may come alone.
LEMMA FragmentIndexed ==
  ASSUME config.style = "indexed", NEW c \in Calls, NEW f \in FragmentOf(c)
  PROVE  /\ IsFragment(f, c, c) /\ f.id \in {None, c} /\ f.function \in BOOLEAN
         /\ ~f.function => f.id = c
<1>1. \/ f \in {[call |-> c, index |-> c, id |-> id, function |-> p,
             named |-> p /\ c \notin Opened] : id \in {None, c}, p \in {TRUE}}
      \/ f \in {[call |-> c, index |-> c, id |-> id, function |-> p,
             named |-> p /\ c \notin Opened] : id \in {c}, p \in {FALSE}}
  BY DEF FragmentOf
<1>2. CASE f \in {[call |-> c, index |-> c, id |-> id, function |-> p,
             named |-> p /\ c \notin Opened] : id \in {None, c}, p \in {TRUE}}
  <2>1. PICK id \in {None, c}, p \in {TRUE} :
          f = [call |-> c, index |-> c, id |-> id, function |-> p,
             named |-> p /\ c \notin Opened]
    BY <1>2
  <2>3. IsFragment(f, c, c) /\ f.id = id /\ f.function = p
    BY <2>1, FragmentIs
  <2> QED
    BY <2>3
<1>3. CASE f \in {[call |-> c, index |-> c, id |-> id, function |-> p,
             named |-> p /\ c \notin Opened] : id \in {c}, p \in {FALSE}}
  <2>1. PICK id \in {c}, p \in {FALSE} :
          f = [call |-> c, index |-> c, id |-> id, function |-> p,
             named |-> p /\ c \notin Opened]
    BY <1>3
  <2>3. IsFragment(f, c, c) /\ f.id = id /\ f.function = p
    BY <2>1, FragmentIs
  <2> QED
    BY <2>3
<1> QED
  BY <1>1, <1>2, <1>3

\* With the id on every fragment, on the first one, or on the only call.
LEMMA FragmentNamed ==
  ASSUME NEW c \in Calls, NEW f \in FragmentOf(c),
         \/ config.style = "everywhere" \/ config.style = "legacy"
         \/ config.style = "anchored" /\ c \notin Opened
  PROVE  IsFragment(f, c, None) /\ f.id = c /\ f.function
<1>1. f \in {[call |-> c, index |-> None, id |-> id, function |-> p,
             named |-> p /\ c \notin Opened] : id \in {c}, p \in {TRUE}}
  BY DEF FragmentOf
<1>2. PICK p \in {TRUE} : f = [call |-> c, index |-> None, id |-> c, function |-> p,
             named |-> p /\ c \notin Opened]
  BY <1>1
<1>4. IsFragment(f, c, None) /\ f.id = c /\ f.function = p
  BY <1>2, FragmentIs
<1> QED
  BY <1>4

\* Without an id: for a new call or for the one opened last.
LEMMA FragmentNameless ==
  ASSUME NEW c \in Calls, NEW f \in FragmentOf(c),
         \/ config.style = "bare"
         \/ config.style = "anchored" /\ c \in Opened
  PROVE  /\ IsFragment(f, c, None) /\ f.id = None /\ f.function
         /\ c \in Opened => Latest(c)
<1>1. f \in {[call |-> c, index |-> None, id |-> id, function |-> p,
             named |-> p /\ c \notin Opened] : id \in {None}, p \in {TRUE}}
  BY DEF FragmentOf
<1>2. PICK p \in {TRUE} : f = [call |-> c, index |-> None, id |-> None, function |-> p,
             named |-> p /\ c \notin Opened]
  BY <1>1
<1>4. IsFragment(f, c, None) /\ f.id = None /\ f.function = p
  BY <1>2, FragmentIs
<1>5. c \in Opened => Latest(c)
  BY DEF FragmentOf
<1> QED
  BY <1>4, <1>5

\* A fragment whose name is taken away.
LEMMA Unnamed ==
  ASSUME NEW h, Wired(h), NEW f, f = [h EXCEPT !.named = FALSE]
  PROVE  f.index = h.index /\ f.id = h.id /\ f.function = h.function /\ ~f.named
BY DEF Wired

\* With neither index, id nor name.
LEMMA FragmentHeadless ==
  ASSUME config.style = "headless", NEW c \in Calls, NEW f \in FragmentOf(c)
  PROVE  f.index = None /\ f.id = None /\ f.function /\ ~f.named
<1>1. PICK h \in {[call |-> c, index |-> None, id |-> id, function |-> p,
             named |-> p /\ c \notin Opened] : id \in {None}, p \in {TRUE}} :
        f = [h EXCEPT !.named = FALSE]
  BY DEF FragmentOf
<1>2. PICK p \in {TRUE} : h = [call |-> c, index |-> None, id |-> None, function |-> p,
             named |-> p /\ c \notin Opened]
  BY <1>1
<1>4. IsFragment(h, c, None) /\ h.id = None /\ h.function = p
  BY <1>2, FragmentIs
<1>5. Wired(h) /\ h.index = None
  BY <1>4 DEF IsFragment
<1>6. f.index = h.index /\ f.id = h.id /\ f.function = h.function /\ ~f.named
  BY <1>1, <1>5, Unnamed
<1> QED
  BY <1>4, <1>5, <1>6

\* A fragment that is given an id keeps the rest.
LEMMA Renumbered ==
  ASSUME NEW f, Wired(f), NEW id, NEW g, g = [f EXCEPT !.id = id]
  PROVE  g.id = id /\ g.call = f.call /\ g.function = f.function /\ g.named = f.named
BY DEF Wired

\* A delta without fragments changes nothing.
LEMMA AssembleNone ==
  ASSUME NEW n
  PROVE  assemble(<<>>, n) = State(toolCalls, toolCallIds, generated, <<>>, FALSE)
<1>1. PICK start : start = State(toolCalls, toolCallIds, generated, <<>>, FALSE)
  OBVIOUS
<1>2. start.fragments = <<>>
  BY <1>1 DEF State
<1>3. trackAll(start, <<>>) = start
  BY TrackNone
<1>4. mergeAll(start, <<>>, n) = start
  BY IncreaseNone
<1>5. mergeAll(trackAll(start, <<>>), trackAll(start, <<>>).fragments, n) = start
  BY <1>2, <1>3, <1>4
<1> QED
  BY <1>1, <1>5 DEF assemble, trackAll, mergeAll, merge, State

-----------------------------------------------------------------------------
(***************************************************************************)
(* A delta is assembled: all ids are settled first, then the pieces are    *)
(* merged one after the other.                                             *)
(***************************************************************************)

Denied(no) == no = FALSE

\* The state a delta starts from.
Start0(no) == State(toolCalls, toolCallIds, generated, <<>>, no)

\* The fragments of a state.
LEMMA FragmentsOf ==
  ASSUME NEW calls, NEW ids, NEW made, NEW fs, NEW failed
  PROVE  State(calls, ids, made, fs, failed).fragments = fs
BY DEF State

\* A delta with one fragment: tracked, then merged.
LEMMA AssembleOne ==
  ASSUME NEW n, NEW no, Denied(no), NEW f, NEW calls, NEW ids, NEW made, NEW g,
         track(Start0(no), f) = State(calls, ids, made, <<g>>, no)
  PROVE  assemble(<<f>>, n) = merge(State(calls, ids, made, <<g>>, no), g, n)
<1>1. PICK start : start = Start0(no)
  OBVIOUS
<1>2. PICK s : s = State(calls, ids, made, <<g>>, no)
  OBVIOUS
<1>3. s.fragments = <<g>>
  BY <1>2, FragmentsOf
<1>4. trackAll(start, <<f>>) = s
  BY <1>1, <1>2, TrackOne
<1>5. mergeAll(s, <<g>>, n) = merge(s, g, n)
  BY IncreaseOne
<1>6. mergeAll(trackAll(start, <<f>>), trackAll(start, <<f>>).fragments, n) = merge(s, g, n)
  BY <1>3, <1>4, <1>5
<1>7. assemble(<<f>>, n)
        = mergeAll(trackAll(start, <<f>>), trackAll(start, <<f>>).fragments, n)
  BY <1>1 DEF assemble, trackAll, mergeAll, merge, State, Start0, Denied
<1> QED
  BY <1>2, <1>6, <1>7

\* A delta with two: both are tracked, then both are merged.
LEMMA AssembleTwo ==
  ASSUME NEW n, NEW no, Denied(no), NEW f1, NEW f2, NEW calls, NEW ids, NEW made, NEW g1, NEW g2,
         track(track(Start0(no), f1), f2) = State(calls, ids, made, <<g1, g2>>, no)
  PROVE  assemble(<<f1, f2>>, n)
           = merge(merge(State(calls, ids, made, <<g1, g2>>, no), g1, n), g2, n)
<1>1. PICK start : start = Start0(no)
  OBVIOUS
<1>2. PICK s : s = State(calls, ids, made, <<g1, g2>>, no)
  OBVIOUS
<1>3. s.fragments = <<g1, g2>>
  BY <1>2, FragmentsOf
<1>4. trackAll(start, <<f1, f2>>) = track(track(start, f1), f2)
  BY TrackTwo
<1>5. mergeAll(s, <<g1, g2>>, n) = merge(merge(s, g1, n), g2, n)
  BY IncreaseTwo
<1>6. trackAll(start, <<f1, f2>>) = s
  BY <1>1, <1>2, <1>4
<1>7. mergeAll(trackAll(start, <<f1, f2>>), trackAll(start, <<f1, f2>>).fragments, n)
        = merge(merge(s, g1, n), g2, n)
  BY <1>3, <1>5, <1>6
<1>8. assemble(<<f1, f2>>, n)
        = mergeAll(trackAll(start, <<f1, f2>>), trackAll(start, <<f1, f2>>).fragments, n)
  BY <1>1 DEF assemble, trackAll, mergeAll, merge, State, Start0, Denied
<1> QED
  BY <1>2, <1>7, <1>8

MergedIndexed(result, ids, made, fs, failed, A, O, P) ==
  \E more :
    /\ result = State(more, ids, made, fs, failed)
    /\ Books(more, made, A, O, P) /\ Indexed(more, ids, made, A)

\* A fragment that has the id of its index is merged into its call.
LEMMA MergeIndexed ==
  ASSUME NEW calls, NEW ids, NEW made, NEW fs, NEW failed, NEW A, NEW O, NEW P,
         Books(calls, made, A, O, P), Indexed(calls, ids, made, A), NEW n \in Nat \ {0},
         NEW c \in Calls, NEW f, f.call = c, f.id = ids[c], ids[c] \in Nat,
         f.function, f.named <=> c \notin O
  PROVE  MergedIndexed(merge(State(calls, ids, made, fs, failed), f, n),
                       ids, made, fs, failed, A, O \cup {c}, More(P, c, n))
<1>1. PICK id \in Nat : id = ids[c]
  OBVIOUS
<1>2. id # None
  BY NoneAssumption
<1>3. /\ ids \in [Calls -> Nat \cup {None}]
      /\ \A d \in Calls : ids[d] # None =>
           IF d \in A THEN ids[d] = d ELSE ids[d] \in NumCalls .. NumCalls + made - 1
      /\ \A d \in A : ids[d] # None
      /\ \A d, e \in Calls : ids[d] = ids[e] /\ ids[d] # None => d = e
      /\ \A i \in DOMAIN calls : ids[calls[i].name] = calls[i].id
  BY DEF Indexed
<1>4. \A j \in DOMAIN calls : calls[j].name \in Calls
  BY DEF Books, Assembled
<1>5. Carries(calls, id, c)
  BY <1>1, <1>2, <1>3, <1>4 DEF Carries
<1>6. c \notin O => Fits(c, id, made, A)
  BY <1>1, <1>2, <1>3 DEF Fits
<1>11. GrewById(increase(State(calls, ids, made, fs, failed), f, n),
                 calls, ids, made, fs, failed, A, O \cup {c}, More(P, c, n), n, id, c)
  BY <1>1, <1>5, <1>6, PieceById
<1>7. PICK more :
        /\ increase(State(calls, ids, made, fs, failed), f, n)
             = State(more, ids, made, fs, failed)
        /\ Books(more, made, A, O \cup {c}, More(P, c, n))
        /\ \A j \in DOMAIN more :
             \/ /\ j \in DOMAIN calls
                /\ more[j].id = calls[j].id /\ more[j].name = calls[j].name
             \/ more[j].id = id /\ more[j].name = c
  BY <1>11 DEF GrewById, Alike
<1>8. \A j \in DOMAIN more : ids[more[j].name] = more[j].id
  BY <1>1, <1>3, <1>7
<1>9. Indexed(more, ids, made, A)
  BY <1>3, <1>8 DEF Indexed
<1>10. merge(State(calls, ids, made, fs, failed), f, n) = State(more, ids, made, fs, failed)
  BY <1>7 DEF merge
<1> QED
  BY <1>7, <1>9, <1>10 DEF MergedIndexed

\* A call that is not opened may be announced.
LEMMA Widened ==
  ASSUME NEW calls, NEW made, NEW A, NEW O, NEW P, Books(calls, made, A, O, P),
         NEW c \in Calls, c \in A \/ c \notin O
  PROVE  Books(calls, made, A \cup {c}, O, P)
<1>1. \A j \in DOMAIN calls : calls[j].name \in A \cup {c} <=> calls[j].name \in A
  BY DEF Books, Assembled
<1>2. Identified(calls, made, A \cup {c})
  BY <1>1 DEF Books, Identified
<1> QED
  BY <1>2 DEF Books

\* A fragment with the provider's id is merged.
LEMMA MergeNamed ==
  ASSUME NEW calls, NEW ids, NEW made, NEW fs, NEW failed, NEW O, NEW P,
         Books(calls, made, O, O, P), NEW n \in Nat \ {0},
         NEW c \in Calls, NEW f, f.call = c, f.id = c, f.function, f.named <=> c \notin O
  PROVE  Grew(merge(State(calls, ids, made, fs, failed), f, n),
              calls, ids, made, fs, failed, O \cup {c}, O \cup {c}, More(P, c, n), n)
<1>1. Books(calls, made, O \cup {c}, O, P)
  BY Widened
<1>2. c \in Nat
  BY NumCallsAssumption DEF Calls
<1>3. \A j \in DOMAIN calls : calls[j].name \in O /\ calls[j].id = calls[j].name
  BY DEF Books, Assembled, Identified
<1>6. Carries(calls, c, c) /\ Fits(c, c, made, O \cup {c})
  BY <1>3 DEF Carries, Fits
<1>7. GrewById(increase(State(calls, ids, made, fs, failed), f, n), calls, ids, made, fs,
               failed, O \cup {c}, O \cup {c}, More(P, c, n), n, c, c)
  BY <1>1, <1>2, <1>6, PieceById
<1>4. merge(State(calls, ids, made, fs, failed), f, n)
        = increase(State(calls, ids, made, fs, failed), f, n)
  BY DEF merge
<1> QED
  BY <1>4, <1>7 DEF Grew, GrewById

\* A name without an id is merged.
LEMMA MergeFresh ==
  ASSUME NEW calls, NEW ids, NEW made, NEW fs, NEW failed, NEW O, NEW P,
         Books(calls, made, {}, O, P), NEW n \in Nat \ {0},
         NEW c \in Calls, c \notin O, NEW f, f.call = c, f.id = None, f.function, f.named
  PROVE  Grew(merge(State(calls, ids, made, fs, failed), f, n),
              calls, ids, made + 1, fs, failed, {}, O \cup {c}, More(P, c, n), n)
<1>1. Grew(increase(State(calls, ids, made, fs, failed), f, n),
           calls, ids, made + 1, fs, failed, {}, O \cup {c}, More(P, c, n), n)
  BY PieceFresh
<1>2. merge(State(calls, ids, made, fs, failed), f, n)
        = increase(State(calls, ids, made, fs, failed), f, n)
  BY DEF merge
<1> QED
  BY <1>1, <1>2

\* The call opened last is the last call, and gets the piece.
LEMMA MergeLast ==
  ASSUME NEW calls, NEW ids, NEW made, NEW fs, NEW failed, NEW A, NEW O, NEW P,
         Books(calls, made, A, O, P), NEW n \in Nat \ {0}, InOrder(calls, n - 1),
         NEW c \in O, \A d \in O : Head(P[d]) <= Head(P[c]),
         NEW f, f.id = None, f.function, ~f.named
  PROVE  Grew(merge(State(calls, ids, made, fs, failed), f, n),
              calls, ids, made, fs, failed, A, O \cup {c}, More(P, c, n), n)
<1>1. calls \in Seq(Call)
  BY DEF Books, Assembled
<1>2. PICK l \in Nat : l = Len(calls) /\ DOMAIN calls = 1 .. l
  BY <1>1
<1>3. PICK i \in 1 .. l : calls[i].name = c
  BY <1>2 DEF Books, Assembled
<1>4. l \in 1 .. l
  BY <1>3
<1>5. calls[l].name = c
  <2>1. CASE i = l
    BY <1>3, <2>1
  <2>2. CASE i # l
    <3>1. i < l
      BY <1>3, <2>2
    <3>2. Head(calls[i].args) < Head(calls[l].args)
      BY <1>2, <1>4, <3>1 DEF InOrder
    <3>3. Head(calls[i].args) \in 1 .. n - 1 /\ Head(calls[l].args) \in 1 .. n - 1
      BY <1>2, <1>4 DEF InOrder
    <3>4. calls[i].args = P[c] /\ calls[l].args = P[calls[l].name] /\ calls[l].name \in O
      BY <1>2, <1>3, <1>4 DEF Books, Assembled
    <3>5. Head(calls[l].args) <= Head(calls[i].args)
      BY <3>4
    <3> QED
      BY <3>2, <3>3, <3>5
  <2> QED
    BY <2>1, <2>2
<1>6. c \in Calls
  BY DEF Books
<1>7. Grew(increase(State(calls, ids, made, fs, failed), f, n),
           calls, ids, made, fs, failed, A, O \cup {c}, More(P, c, n), n)
  BY <1>2, <1>4, <1>5, <1>6, PieceLast
<1>8. merge(State(calls, ids, made, fs, failed), f, n)
        = increase(State(calls, ids, made, fs, failed), f, n)
  BY DEF merge
<1> QED
  BY <1>7, <1>8

-----------------------------------------------------------------------------
(***************************************************************************)
(* What holds between two events, and a delta with one fragment.           *)
(***************************************************************************)

\* What is kept is right, and what the style of the provider relies on.
Sound(style, calls, ids, made, A, O, P, n) ==
  /\ Books(calls, made, A, O, P)
  /\ style = "indexed" => Indexed(calls, ids, made, A)
  /\ style \in {"everywhere", "anchored", "legacy"} => A = O
  /\ style = "bare" => A = {}
  /\ style \in {"anchored", "bare"} => InOrder(calls, n)
  /\ style = "headless" => calls = <<>>

\* The delta raised, or what is kept is right after it.
Progress(style, result, A, O, P, n) ==
  \E calls, ids, made, fs, failed :
    /\ result = State(calls, ids, made, fs, failed)
    /\ ~failed => Sound(style, calls, ids, made, A, O, P, n)

\* It is right before the n-th event.
Now(style, A, O, P, n) ==
  /\ n \in Nat \ {0} /\ O = Opened
  /\ Sound(style, toolCalls, toolCallIds, generated, A, O, P, n - 1)

\* A sequence of one, appended.
LEMMA AppendOne == ASSUME NEW g PROVE Append(<<>>, g) = <<g>>
<1>1. <<>> \in Seq({g})
  OBVIOUS
<1> QED
  BY <1>1

\* A sequence of two, appended.
LEMMA AppendTwo == ASSUME NEW g, NEW h PROVE Append(<<g>>, h) = <<g, h>>
<1>1. <<g>> \in Seq({g, h})
  OBVIOUS
<1>2. <<g, h>> \in Seq({g, h})
  OBVIOUS
<1>3. Len(<<g>>) = 1 /\ <<g>>[1] = g
  OBVIOUS
<1>4. Len(<<g, h>>) = 2 /\ <<g, h>>[1] = g /\ <<g, h>>[2] = h
  OBVIOUS
<1>5. PICK s \in Seq({g, h}) : s = <<g>>
  BY <1>1
<1>6. PICK t \in Seq({g, h}) : t = <<g, h>>
  BY <1>2
<1>7. /\ Append(s, h) \in Seq({g, h}) /\ Len(Append(s, h)) = 2
      /\ Append(s, h)[1] = g /\ Append(s, h)[2] = h
  BY <1>3, <1>5, AppendProperties
<1>8. Len(t) = 2 /\ t[1] = g /\ t[2] = h
  BY <1>4, <1>6
<1>9. \A i \in 1 .. Len(t) : t[i] = Append(s, h)[i]
  BY <1>7, <1>8
<1>10. t = Append(s, h)
  BY <1>7, <1>8, <1>9, SeqEqual
<1> QED
  BY <1>5, <1>6, <1>10

\* A fragment that only announces an id adds no piece.
LEMMA MergeSilent ==
  ASSUME NEW state, NEW f, NEW n, ~f.function PROVE merge(state, f, n) = state
BY DEF merge

StartTracked(result, c, f, no, B, O, P) ==
  \E calls, ids, made, g :
    /\ result = State(calls, ids, made, <<g>>, no)
    /\ Books(calls, made, B, O, P) /\ Indexed(calls, ids, made, B)
    /\ g.call = c /\ g.id = ids[c] /\ ids[c] \in Nat
    /\ g.function = f.function /\ g.named = f.named

\* The only fragment is tracked.
LEMMA OneTracked ==
  ASSUME NEW A, NEW O, NEW P, NEW n, Now("indexed", A, O, P, n), NEW no, Denied(no),
         NEW c \in Calls, NEW f, IsFragment(f, c, c), f.id = None \/ f.id = c,
         NEW B, f.id = c => B = A \cup {c}, f.id = None => B = A
  PROVE  StartTracked(track(Start0(no), f), c, f, no, B, O, P)
<1>1. /\ Books(toolCalls, generated, A, O, P)
      /\ Indexed(toolCalls, toolCallIds, generated, A)
  BY DEF Now, Sound
<1>2. f.index = c /\ Wired(f)
  BY DEF IsFragment
<1>9. TrackedAs(track(State(toolCalls, toolCallIds, generated, <<>>, no), f),
                c, f, toolCallIds, <<>>, no, B, O, P)
  BY <1>1, <1>2, TrackIndexed
<1>3. PICK calls, ids, made :
        /\ track(State(toolCalls, toolCallIds, generated, <<>>, no), f)
             = State(calls, ids, made, Append(<<>>, [f EXCEPT !.id = ids[c]]), no)
        /\ Books(calls, made, B, O, P) /\ Indexed(calls, ids, made, B)
        /\ ids[c] \in Nat
        /\ \A d \in Calls : d # c => ids[d] = toolCallIds[d]
  BY <1>9 DEF TrackedAs
<1>4. PICK g : g = [f EXCEPT !.id = ids[c]]
  OBVIOUS
<1>5. g.id = ids[c] /\ g.call = f.call /\ g.function = f.function /\ g.named = f.named
  BY <1>2, <1>4, Renumbered
<1>6. Append(<<>>, g) = <<g>>
  BY AppendOne
<1>7. track(Start0(no), f) = State(calls, ids, made, <<g>>, no)
  BY <1>3, <1>4, <1>6 DEF Start0
<1>8. g.call = c
  BY <1>5 DEF IsFragment
<1> QED
  BY <1>3, <1>5, <1>7, <1>8 DEF StartTracked

\* One piece with an index.
LEMMA OneIndexed ==
  ASSUME NEW A, NEW O, NEW P, NEW n, Now("indexed", A, O, P, n), NEW no, Denied(no),
         NEW c \in Calls, NEW f, IsFragment(f, c, c), f.id = None \/ f.id = c, f.function,
         NEW B, f.id = c => B = A \cup {c}, f.id = None => B = A
  PROVE  Progress("indexed", assemble(<<f>>, n), B, O \cup {c}, More(P, c, n), n)
<1>6. StartTracked(track(Start0(no), f), c, f, no, B, O, P)
  BY OneTracked
<1>1. PICK calls, ids, made, g :
        /\ track(Start0(no), f) = State(calls, ids, made, <<g>>, no)
        /\ Books(calls, made, B, O, P) /\ Indexed(calls, ids, made, B)
        /\ g.call = c /\ g.id = ids[c] /\ ids[c] \in Nat
        /\ g.function = f.function /\ g.named = f.named
  BY <1>6 DEF StartTracked
<1>2. g.function /\ (g.named <=> c \notin O) /\ n \in Nat \ {0}
  BY <1>1 DEF IsFragment, Now
<1>7. MergedIndexed(merge(State(calls, ids, made, <<g>>, no), g, n),
                    ids, made, <<g>>, no, B, O \cup {c}, More(P, c, n))
  BY <1>1, <1>2, MergeIndexed
<1>3. PICK more :
        /\ merge(State(calls, ids, made, <<g>>, no), g, n)
             = State(more, ids, made, <<g>>, no)
        /\ Books(more, made, B, O \cup {c}, More(P, c, n))
        /\ Indexed(more, ids, made, B)
  BY <1>7 DEF MergedIndexed
<1>4. assemble(<<f>>, n) = merge(State(calls, ids, made, <<g>>, no), g, n)
  BY <1>1, AssembleOne
<1>5. Sound("indexed", more, ids, made, B, O \cup {c}, More(P, c, n), n)
  BY <1>3 DEF Sound
<1> QED
  BY <1>3, <1>4, <1>5 DEF Progress

\* One id that comes alone.
LEMMA OneAnnounced ==
  ASSUME NEW A, NEW O, NEW P, NEW n, Now("indexed", A, O, P, n), NEW no, Denied(no),
         NEW c \in Calls, NEW f, IsFragment(f, c, c), f.id = c, ~f.function
  PROVE  Progress("indexed", assemble(<<f>>, n), A \cup {c}, O, P, n)
<1>1. f.id # None
  BY NumCallsAssumption, NoneAssumption DEF Calls
<1>6. StartTracked(track(Start0(no), f), c, f, no, A \cup {c}, O, P)
  BY <1>1, OneTracked
<1>2. PICK calls, ids, made, g :
        /\ track(Start0(no), f) = State(calls, ids, made, <<g>>, no)
        /\ Books(calls, made, A \cup {c}, O, P) /\ Indexed(calls, ids, made, A \cup {c})
        /\ g.function = f.function
  BY <1>6 DEF StartTracked
<1>3. merge(State(calls, ids, made, <<g>>, no), g, n)
        = State(calls, ids, made, <<g>>, no)
  BY <1>2, MergeSilent
<1>4. assemble(<<f>>, n) = merge(State(calls, ids, made, <<g>>, no), g, n)
  BY <1>2, AssembleOne
<1>5. Sound("indexed", calls, ids, made, A \cup {c}, O, P, n)
  BY <1>2 DEF Sound
<1> QED
  BY <1>3, <1>4, <1>5 DEF Progress

\* A fragment without an index is merged as it came.
LEMMA OneUnindexed ==
  ASSUME NEW f, f.index = None, NEW n, NEW no, Denied(no)
  PROVE  assemble(<<f>>, n)
           = merge(State(toolCalls, toolCallIds, generated, <<f>>, no), f, n)
<1>1. track(Start0(no), f) = State(toolCalls, toolCallIds, generated, <<f>>, no)
  <2>1. track(State(toolCalls, toolCallIds, generated, <<>>, no), f)
          = State(toolCalls, toolCallIds, generated, Append(<<>>, f), no)
    <3>1. PICK nil : nil = <<>>
      OBVIOUS
    <3>2. track(State(toolCalls, toolCallIds, generated, nil, no), f)
            = State(toolCalls, toolCallIds, generated, Append(nil, f), no)
      BY TrackUnindexed
    <3> QED
      BY <3>1, <3>2
  <2>2. Append(<<>>, f) = <<f>>
    BY AppendOne
  <2> QED
    BY <2>1, <2>2 DEF Start0
<1> QED
  BY <1>1, AssembleOne

\* One piece with the provider's id.
LEMMA OneNamed ==
  ASSUME NEW style \in {"everywhere", "anchored", "legacy"},
         NEW A, NEW O, NEW P, NEW n, Now(style, A, O, P, n), NEW no, Denied(no),
         NEW c \in Calls, NEW f, IsFragment(f, c, None), f.id = c, f.function
  PROVE  Progress(style, assemble(<<f>>, n), A \cup {c}, O \cup {c}, More(P, c, n), n)
<1>1. /\ Books(toolCalls, generated, O, O, P) /\ A = O /\ n \in Nat \ {0}
      /\ style = "anchored" => InOrder(toolCalls, n - 1)
  BY DEF Now, Sound
<1>2. f.index = None /\ f.call = c /\ (f.named <=> c \notin O)
  BY DEF IsFragment, Now
<1>6. Grew(merge(State(toolCalls, toolCallIds, generated, <<f>>, no), f, n),
           toolCalls, toolCallIds, generated, <<f>>, no, O \cup {c}, O \cup {c}, More(P, c, n), n)
  BY <1>1, <1>2, MergeNamed
<1>3. PICK more :
        /\ merge(State(toolCalls, toolCallIds, generated, <<f>>, no), f, n)
             = State(more, toolCallIds, generated, <<f>>, no)
        /\ Books(more, generated, O \cup {c}, O \cup {c}, More(P, c, n))
        /\ InOrder(toolCalls, n - 1) => InOrder(more, n)
  BY <1>6 DEF Grew
<1>4. Sound(style, more, toolCallIds, generated, A \cup {c}, O \cup {c}, More(P, c, n), n)
  BY <1>1, <1>3 DEF Sound
<1> QED
  BY <1>2, <1>3, <1>4, OneUnindexed DEF Progress

\* The first piece of a call without an id.
LEMMA OneFresh ==
  ASSUME NEW A, NEW O, NEW P, NEW n, Now("bare", A, O, P, n), NEW no, Denied(no),
         NEW c \in Calls, c \notin O, NEW f, IsFragment(f, c, None), f.id = None, f.function
  PROVE  Progress("bare", assemble(<<f>>, n), A, O \cup {c}, More(P, c, n), n)
<1>1. /\ Books(toolCalls, generated, {}, O, P) /\ A = {} /\ n \in Nat \ {0}
      /\ InOrder(toolCalls, n - 1)
  BY DEF Now, Sound
<1>2. f.index = None /\ f.call = c /\ f.named
  BY DEF IsFragment, Now
<1>6. Grew(merge(State(toolCalls, toolCallIds, generated, <<f>>, no), f, n),
           toolCalls, toolCallIds, generated + 1, <<f>>, no, {}, O \cup {c}, More(P, c, n), n)
  BY <1>1, <1>2, MergeFresh
<1>3. PICK more :
        /\ merge(State(toolCalls, toolCallIds, generated, <<f>>, no), f, n)
             = State(more, toolCallIds, generated + 1, <<f>>, no)
        /\ Books(more, generated + 1, {}, O \cup {c}, More(P, c, n))
        /\ InOrder(toolCalls, n - 1) => InOrder(more, n)
  BY <1>6 DEF Grew
<1>4. Sound("bare", more, toolCallIds, generated + 1, A, O \cup {c}, More(P, c, n), n)
  BY <1>1, <1>3 DEF Sound
<1> QED
  BY <1>2, <1>3, <1>4, OneUnindexed DEF Progress

\* A later piece of the call opened last.
LEMMA OneLast ==
  ASSUME NEW style \in {"anchored", "bare"},
         NEW A, NEW O, NEW P, NEW n, Now(style, A, O, P, n), NEW no, Denied(no),
         NEW c \in O, \A d \in O : Head(P[d]) <= Head(P[c]),
         NEW f, IsFragment(f, c, None), f.id = None, f.function
  PROVE  Progress(style, assemble(<<f>>, n), A, O \cup {c}, More(P, c, n), n)
<1>1. /\ Books(toolCalls, generated, A, O, P) /\ n \in Nat \ {0}
      /\ InOrder(toolCalls, n - 1)
      /\ style = "anchored" => A = O
      /\ style = "bare" => A = {}
  BY DEF Now, Sound
<1>2. f.index = None /\ f.call = c /\ ~f.named
  BY DEF IsFragment, Now
<1>6. Grew(merge(State(toolCalls, toolCallIds, generated, <<f>>, no), f, n),
           toolCalls, toolCallIds, generated, <<f>>, no, A, O \cup {c}, More(P, c, n), n)
  BY <1>1, <1>2, MergeLast
<1>3. PICK more :
        /\ merge(State(toolCalls, toolCallIds, generated, <<f>>, no), f, n)
             = State(more, toolCallIds, generated, <<f>>, no)
        /\ Books(more, generated, A, O \cup {c}, More(P, c, n))
        /\ InOrder(more, n)
  BY <1>1, <1>6 DEF Grew
<1>4. O \cup {c} = O
  OBVIOUS
<1>5. Sound(style, more, toolCallIds, generated, A, O \cup {c}, More(P, c, n), n)
  BY <1>1, <1>3, <1>4 DEF Sound
<1> QED
  BY <1>2, <1>3, <1>5, OneUnindexed DEF Progress

\* A piece that belongs to no call raises.
LEMMA OneHeadless ==
  ASSUME NEW A, NEW O, NEW P, NEW n, Now("headless", A, O, P, n), NEW no, Denied(no),
         NEW A2, NEW O2, NEW P2,
         NEW f, f.index = None, f.id = None, f.function, ~f.named
  PROVE  Progress("headless", assemble(<<f>>, n), A2, O2, P2, n)
<1>0. PICK yes : Granted(yes)
  BY DEF Granted
<1>1. toolCalls = <<>> /\ toolCalls \in Seq(Call)
  BY DEF Now, Sound, Books, Assembled
<1>2. merge(State(toolCalls, toolCallIds, generated, <<f>>, no), f, n)
        = increase(State(toolCalls, toolCallIds, generated, <<f>>, no), f, n)
  BY DEF merge
<1>3. Without(toolCalls)
  BY <1>1 DEF Without
<1>4. increase(State(toolCalls, toolCallIds, generated, <<f>>, no), f, n)
        = State(toolCalls, toolCallIds, generated, <<f>>, yes)
  BY <1>0, <1>3, IncreaseHeadless
<1>5. assemble(<<f>>, n) = State(toolCalls, toolCallIds, generated, <<f>>, yes)
  BY <1>2, <1>4, OneUnindexed
<1> QED
  BY <1>0, <1>5 DEF Progress, Granted

-----------------------------------------------------------------------------
(***************************************************************************)
(* A delta with two fragments, for two calls.                              *)
(***************************************************************************)

BothTracked(result, c, f1, d, f2, no, B, O, P) ==
  \E calls, ids, made, g1, g2 :
    /\ result = State(calls, ids, made, <<g1, g2>>, no)
    /\ Books(calls, made, B, O, P) /\ Indexed(calls, ids, made, B)
    /\ g1.call = c /\ g1.id = ids[c] /\ ids[c] \in Nat
    /\ g1.function = f1.function /\ g1.named = f1.named
    /\ g2.call = d /\ g2.id = ids[d] /\ ids[d] \in Nat
    /\ g2.function = f2.function /\ g2.named = f2.named

\* Both fragments are tracked, and the second leaves the id of the first.
LEMMA TwoTracked ==
  ASSUME NEW A, NEW O, NEW P, NEW n, Now("indexed", A, O, P, n), NEW no, Denied(no),
         NEW c \in Calls, NEW f1, IsFragment(f1, c, c), f1.id = None \/ f1.id = c,
         NEW d \in Calls, c # d, NEW f2, IsFragment(f2, d, d), f2.id = None \/ f2.id = d,
         NEW B1, f1.id = c => B1 = A \cup {c}, f1.id = None => B1 = A,
         NEW B2, f2.id = d => B2 = B1 \cup {d}, f2.id = None => B2 = B1
  PROVE  BothTracked(track(track(Start0(no), f1), f2), c, f1, d, f2, no, B2, O, P)
<1>1. StartTracked(track(Start0(no), f1), c, f1, no, B1, O, P)
  BY OneTracked
<1>2. PICK calls, ids, made, g1 :
        /\ track(Start0(no), f1) = State(calls, ids, made, <<g1>>, no)
        /\ Books(calls, made, B1, O, P) /\ Indexed(calls, ids, made, B1)
        /\ g1.call = c /\ g1.id = ids[c] /\ ids[c] \in Nat
        /\ g1.function = f1.function /\ g1.named = f1.named
  BY <1>1 DEF StartTracked
<1>3. f2.index = d /\ Wired(f2) /\ f2.call = d
  BY DEF IsFragment
<1>4. PICK fs : fs = <<g1>>
  OBVIOUS
<1>5. TrackedAs(track(State(calls, ids, made, fs, no), f2), d, f2, ids, fs, no, B2, O, P)
  BY <1>2, <1>3, TrackIndexed
<1>6. PICK more, new, m :
        /\ track(State(calls, ids, made, fs, no), f2)
             = State(more, new, m, Append(fs, [f2 EXCEPT !.id = new[d]]), no)
        /\ Books(more, m, B2, O, P) /\ Indexed(more, new, m, B2)
        /\ new[d] \in Nat
        /\ \A x \in Calls : x # d => new[x] = ids[x]
  BY <1>5 DEF TrackedAs
<1>7. PICK g2 : g2 = [f2 EXCEPT !.id = new[d]]
  OBVIOUS
<1>8. g2.id = new[d] /\ g2.call = f2.call /\ g2.function = f2.function /\ g2.named = f2.named
  BY <1>3, <1>7, Renumbered
<1>9. Append(fs, g2) = <<g1, g2>>
  BY <1>4, AppendTwo
<1>10. track(track(Start0(no), f1), f2) = State(more, new, m, <<g1, g2>>, no)
  BY <1>2, <1>4, <1>6, <1>7, <1>9
<1>11. new[c] = ids[c]
  BY <1>6
<1> QED
  BY <1>2, <1>3, <1>6, <1>8, <1>10, <1>11 DEF BothTracked

\* The fragment announces the id of call c, or has none.
Announces(f, c, A, B) ==
  /\ f.id = None \/ f.id = c
  /\ f.id = c => B = A \cup {c}
  /\ f.id = None => B = A

\* Two pieces with an index each.
LEMMA TwoIndexed ==
  ASSUME NEW A, NEW O, NEW P, NEW n, Now("indexed", A, O, P, n), NEW no, Denied(no),
         NEW c \in Calls, NEW f1, IsFragment(f1, c, c), f1.function,
         NEW d \in Calls, c # d, NEW f2, IsFragment(f2, d, d), f2.function,
         NEW B1, Announces(f1, c, A, B1), NEW B2, Announces(f2, d, B1, B2)
  PROVE  Progress("indexed", assemble(<<f1, f2>>, n), B2, (O \cup {c}) \cup {d},
                  More(More(P, c, n), d, n), n)
<1>1. BothTracked(track(track(Start0(no), f1), f2), c, f1, d, f2, no, B2, O, P)
  BY TwoTracked DEF Announces
<1>2. PICK calls, ids, made, g1, g2 :
        /\ track(track(Start0(no), f1), f2) = State(calls, ids, made, <<g1, g2>>, no)
        /\ Books(calls, made, B2, O, P) /\ Indexed(calls, ids, made, B2)
        /\ g1.call = c /\ g1.id = ids[c] /\ ids[c] \in Nat
        /\ g1.function = f1.function /\ g1.named = f1.named
        /\ g2.call = d /\ g2.id = ids[d] /\ ids[d] \in Nat
        /\ g2.function = f2.function /\ g2.named = f2.named
  BY <1>1 DEF BothTracked
<1>3. PICK fs : fs = <<g1, g2>>
  OBVIOUS
<1>4. /\ g1.function /\ (g1.named <=> c \notin O)
      /\ g2.function /\ (g2.named <=> d \notin O \cup {c})
      /\ n \in Nat \ {0}
  BY <1>2 DEF IsFragment, Now
<1>5. MergedIndexed(merge(State(calls, ids, made, fs, no), g1, n),
                    ids, made, fs, no, B2, O \cup {c}, More(P, c, n))
  BY <1>2, <1>4, MergeIndexed
<1>6. PICK more :
        /\ merge(State(calls, ids, made, fs, no), g1, n) = State(more, ids, made, fs, no)
        /\ Books(more, made, B2, O \cup {c}, More(P, c, n)) /\ Indexed(more, ids, made, B2)
  BY <1>5 DEF MergedIndexed
<1>7. PICK O1, P1 : O1 = O \cup {c} /\ P1 = More(P, c, n)
  OBVIOUS
<1>8. Books(more, made, B2, O1, P1) /\ (g2.named <=> d \notin O1)
  BY <1>4, <1>6, <1>7
<1>9. MergedIndexed(merge(State(more, ids, made, fs, no), g2, n),
                    ids, made, fs, no, B2, O1 \cup {d}, More(P1, d, n))
  BY <1>2, <1>4, <1>6, <1>8, MergeIndexed
<1>10. PICK most :
        /\ merge(State(more, ids, made, fs, no), g2, n) = State(most, ids, made, fs, no)
        /\ Books(most, made, B2, O1 \cup {d}, More(P1, d, n)) /\ Indexed(most, ids, made, B2)
  BY <1>9 DEF MergedIndexed
<1>11. assemble(<<f1, f2>>, n)
         = merge(merge(State(calls, ids, made, <<g1, g2>>, no), g1, n), g2, n)
  BY <1>2, AssembleTwo
<1>12. assemble(<<f1, f2>>, n) = State(most, ids, made, fs, no)
  BY <1>3, <1>6, <1>10, <1>11
<1>13. Sound("indexed", most, ids, made, B2, O1 \cup {d}, More(P1, d, n), n)
  BY <1>10 DEF Sound
<1>14. Progress("indexed", assemble(<<f1, f2>>, n), B2, O1 \cup {d}, More(P1, d, n), n)
  BY <1>12, <1>13 DEF Progress
<1> QED
  BY <1>7, <1>14

\* Two ids that come alone.
LEMMA TwoAnnounced ==
  ASSUME NEW A, NEW O, NEW P, NEW n, Now("indexed", A, O, P, n), NEW no, Denied(no),
         NEW c \in Calls, NEW f1, IsFragment(f1, c, c), f1.id = c, ~f1.function,
         NEW d \in Calls, c # d, NEW f2, IsFragment(f2, d, d), f2.id = d, ~f2.function
  PROVE  Progress("indexed", assemble(<<f1, f2>>, n), (A \cup {c}) \cup {d}, O, P, n)
<1>1. f1.id # None /\ f2.id # None
  BY NumCallsAssumption, NoneAssumption DEF Calls
<1>2. PICK B1, B2 : B1 = A \cup {c} /\ B2 = B1 \cup {d}
  OBVIOUS
<1>3. BothTracked(track(track(Start0(no), f1), f2), c, f1, d, f2, no, B2, O, P)
  BY <1>1, <1>2, TwoTracked
<1>4. PICK calls, ids, made, g1, g2 :
        /\ track(track(Start0(no), f1), f2) = State(calls, ids, made, <<g1, g2>>, no)
        /\ Books(calls, made, B2, O, P) /\ Indexed(calls, ids, made, B2)
        /\ g1.function = f1.function /\ g2.function = f2.function
  BY <1>3 DEF BothTracked
<1>5. PICK s : s = State(calls, ids, made, <<g1, g2>>, no)
  OBVIOUS
<1>6. merge(s, g1, n) = s /\ merge(s, g2, n) = s
  BY <1>4, MergeSilent
<1>7. assemble(<<f1, f2>>, n)
         = merge(merge(State(calls, ids, made, <<g1, g2>>, no), g1, n), g2, n)
  BY <1>4, AssembleTwo
<1>8. assemble(<<f1, f2>>, n) = s
  BY <1>5, <1>6, <1>7
<1>9. Sound("indexed", calls, ids, made, B2, O, P, n)
  BY <1>4 DEF Sound
<1>10. Progress("indexed", assemble(<<f1, f2>>, n), B2, O, P, n)
  BY <1>5, <1>8, <1>9 DEF Progress
<1> QED
  BY <1>2, <1>10

\* Two fragments without an index are merged as they came.
LEMMA TwoUnindexed ==
  ASSUME NEW f1, f1.index = None, NEW f2, f2.index = None, NEW n, NEW no, Denied(no)
  PROVE  assemble(<<f1, f2>>, n)
           = merge(merge(State(toolCalls, toolCallIds, generated, <<f1, f2>>, no), f1, n), f2, n)
<1>1. PICK nil : nil = <<>>
  OBVIOUS
<1>2. PICK fs : fs = <<f1>>
  OBVIOUS
<1>3. track(State(toolCalls, toolCallIds, generated, nil, no), f1)
        = State(toolCalls, toolCallIds, generated, Append(nil, f1), no)
  BY TrackUnindexed
<1>4. track(State(toolCalls, toolCallIds, generated, fs, no), f2)
        = State(toolCalls, toolCallIds, generated, Append(fs, f2), no)
  BY TrackUnindexed
<1>5. Append(nil, f1) = fs /\ Append(fs, f2) = <<f1, f2>>
  BY <1>1, <1>2, AppendOne, AppendTwo
<1>6. track(track(Start0(no), f1), f2)
        = State(toolCalls, toolCallIds, generated, <<f1, f2>>, no)
  BY <1>1, <1>3, <1>4, <1>5 DEF Start0
<1> QED
  BY <1>6, AssembleTwo

\* Two pieces with the provider's ids.
LEMMA TwoNamed ==
  ASSUME NEW A, NEW O, NEW P, NEW n, Now("everywhere", A, O, P, n), NEW no, Denied(no),
         NEW c \in Calls, NEW f1, IsFragment(f1, c, None), f1.id = c, f1.function,
         NEW d \in Calls, c # d, NEW f2, IsFragment(f2, d, None), f2.id = d, f2.function
  PROVE  Progress("everywhere", assemble(<<f1, f2>>, n), (A \cup {c}) \cup {d},
                  (O \cup {c}) \cup {d}, More(More(P, c, n), d, n), n)
<1>1. Books(toolCalls, generated, O, O, P) /\ A = O /\ n \in Nat \ {0}
  BY DEF Now, Sound
<1>2. /\ f1.index = None /\ f1.call = c /\ (f1.named <=> c \notin O)
      /\ f2.index = None /\ f2.call = d /\ (f2.named <=> d \notin O \cup {c})
  BY DEF IsFragment, Now
<1>3. PICK fs : fs = <<f1, f2>>
  OBVIOUS
<1>4. Grew(merge(State(toolCalls, toolCallIds, generated, fs, no), f1, n),
           toolCalls, toolCallIds, generated, fs, no, O \cup {c}, O \cup {c}, More(P, c, n), n)
  BY <1>1, <1>2, MergeNamed
<1>5. PICK more :
        /\ merge(State(toolCalls, toolCallIds, generated, fs, no), f1, n)
             = State(more, toolCallIds, generated, fs, no)
        /\ Books(more, generated, O \cup {c}, O \cup {c}, More(P, c, n))
  BY <1>4 DEF Grew
<1>6. PICK O1, P1 : O1 = O \cup {c} /\ P1 = More(P, c, n)
  OBVIOUS
<1>7. Books(more, generated, O1, O1, P1) /\ (f2.named <=> d \notin O1)
  BY <1>2, <1>5, <1>6
<1>8. Grew(merge(State(more, toolCallIds, generated, fs, no), f2, n),
           more, toolCallIds, generated, fs, no, O1 \cup {d}, O1 \cup {d}, More(P1, d, n), n)
  BY <1>1, <1>2, <1>7, MergeNamed
<1>9. PICK most :
        /\ merge(State(more, toolCallIds, generated, fs, no), f2, n)
             = State(most, toolCallIds, generated, fs, no)
        /\ Books(most, generated, O1 \cup {d}, O1 \cup {d}, More(P1, d, n))
  BY <1>8 DEF Grew
<1>10. assemble(<<f1, f2>>, n) = State(most, toolCallIds, generated, fs, no)
  BY <1>2, <1>3, <1>5, <1>9, TwoUnindexed
<1>11. Sound("everywhere", most, toolCallIds, generated, O1 \cup {d}, O1 \cup {d},
             More(P1, d, n), n)
  BY <1>9 DEF Sound
<1>12. Progress("everywhere", assemble(<<f1, f2>>, n), O1 \cup {d}, O1 \cup {d},
                More(P1, d, n), n)
  BY <1>10, <1>11 DEF Progress
<1> QED
  BY <1>1, <1>6, <1>12

-----------------------------------------------------------------------------
(***************************************************************************)
(* The books of what was received before and after a delta.                *)
(***************************************************************************)

\* An event without fragments.
LEMMA HeardNone ==
  ASSUME IsSequence(received), NEW e, received' = Append(received, e), e.fragments = <<>>
  PROVE  PiecesByCall' = PiecesByCall /\ Opened' = Opened /\ AnnouncedCalls' = AnnouncedCalls
<1>1. \A x \in Calls : ~Brings(e, x) /\ ~Names(e, x)
  BY DEF Brings, Names
<1>2. PiecesByCall' = PiecesByCall /\ Opened' = Opened
  BY <1>1, BroughtNone
<1>3. PICK D : D = {}
  OBVIOUS
<1>4. AnnouncedCalls' = AnnouncedCalls \cup D
  <2>1. NamesOf(e, D)
    BY <1>1, <1>3 DEF NamesOf
  <2> QED
    BY <2>1, AnnouncedSome
<1> QED
  BY <1>2, <1>3, <1>4

\* An event with one.
LEMMA HeardOne ==
  ASSUME IsSequence(received), NEW e, received' = Append(received, e),
         NEW f, e.fragments = <<f>>, NEW c \in Calls, f.call = c, NEW n, n = Len(received) + 1
  PROVE  /\ f.function => /\ PiecesByCall' = More(PiecesByCall, c, n)
                          /\ Opened' = Opened \cup {c}
         /\ ~f.function => PiecesByCall' = PiecesByCall /\ Opened' = Opened
         /\ f.id = c => AnnouncedCalls' = AnnouncedCalls \cup {c}
         /\ f.id # c => AnnouncedCalls' = AnnouncedCalls
<1>1. DOMAIN <<f>> = {1} /\ <<f>>[1] = f
  OBVIOUS
<1>2. ASSUME NEW x PROVE /\ Brings(e, x) <=> f.function /\ x = c
                         /\ Names(e, x) <=> f.id = x /\ x = c
  BY <1>1 DEF Brings, Names
<1>3. ASSUME f.function
      PROVE  PiecesByCall' = More(PiecesByCall, c, n) /\ Opened' = Opened \cup {c}
  <2>1. PICK D : D = {c} /\ D \subseteq Calls
    OBVIOUS
  <2>2. BringsFor(e, D)
    BY <1>2, <1>3, <2>1 DEF BringsFor
  <2>3. PiecesByCall' = MoreFor(PiecesByCall, D, n) /\ Opened' = Opened \cup D
    BY <2>1, <2>2, BroughtSome
  <2>4. More(PiecesByCall, c, n) = MoreFor(PiecesByCall, D, n)
    BY <2>1 DEF More, MoreFor, PiecesByCall
  <2> QED
    BY <2>1, <2>3, <2>4
<1>4. ASSUME ~f.function PROVE PiecesByCall' = PiecesByCall /\ Opened' = Opened
  BY <1>2, <1>4, BroughtNone
<1>5. ASSUME f.id = c PROVE AnnouncedCalls' = AnnouncedCalls \cup {c}
  <2>1. PICK D : D = {c} /\ D \subseteq Calls
    OBVIOUS
  <2>2. NamesOf(e, D)
    BY <1>2, <1>5, <2>1 DEF NamesOf
  <2> QED
    BY <2>1, <2>2, AnnouncedSome
<1>6. ASSUME f.id # c PROVE AnnouncedCalls' = AnnouncedCalls
  <2>1. PICK D : D = {}
    OBVIOUS
  <2>2. NamesOf(e, D)
    BY <1>2, <1>6, <2>1 DEF NamesOf
  <2>3. AnnouncedCalls' = AnnouncedCalls \cup D
    BY <2>1, <2>2, AnnouncedSome
  <2> QED
    BY <2>1, <2>3
<1> QED
  BY <1>3, <1>4, <1>5, <1>6

\* An event with two, for two calls.
LEMMA HeardTwo ==
  ASSUME IsSequence(received), NEW e, received' = Append(received, e),
         NEW f1, NEW f2, e.fragments = <<f1, f2>>, NEW c \in Calls, f1.call = c,
         NEW d \in Calls, f2.call = d, c # d, NEW n, n = Len(received) + 1
  PROVE  /\ f1.function /\ f2.function =>
              /\ PiecesByCall' = More(More(PiecesByCall, c, n), d, n)
              /\ Opened' = (Opened \cup {c}) \cup {d}
         /\ ~f1.function /\ ~f2.function => PiecesByCall' = PiecesByCall /\ Opened' = Opened
         /\ AnnouncedCalls' = (AnnouncedCalls \cup IF f1.id = c THEN {c} ELSE {})
                                \cup IF f2.id = d THEN {d} ELSE {}
<1>1. DOMAIN <<f1, f2>> = {1, 2} /\ <<f1, f2>>[1] = f1 /\ <<f1, f2>>[2] = f2
  OBVIOUS
<1>2. ASSUME NEW x
      PROVE  /\ Brings(e, x) <=> (f1.function /\ x = c) \/ (f2.function /\ x = d)
             /\ Names(e, x) <=> (f1.id = x /\ x = c) \/ (f2.id = x /\ x = d)
  BY <1>1 DEF Brings, Names
<1>3. ASSUME f1.function, f2.function
      PROVE  /\ PiecesByCall' = More(More(PiecesByCall, c, n), d, n)
             /\ Opened' = (Opened \cup {c}) \cup {d}
  <2>1. PICK D : D = {c, d} /\ D \subseteq Calls
    OBVIOUS
  <2>2. BringsFor(e, D)
    BY <1>2, <1>3, <2>1 DEF BringsFor
  <2>3. PiecesByCall' = MoreFor(PiecesByCall, D, n) /\ Opened' = Opened \cup D
    BY <2>1, <2>2, BroughtSome
  <2>4. PICK P : P = More(PiecesByCall, c, n)
    OBVIOUS
  <2>5. P = [x \in Calls |-> IF x = c THEN Append(PiecesByCall[x], n) ELSE PiecesByCall[x]]
    BY <2>4 DEF More, PiecesByCall
  <2>6. More(P, d, n) = [x \in Calls |-> IF x = d THEN Append(P[x], n) ELSE P[x]]
    BY <2>5 DEF More
  <2>7. \A x \in Calls : More(P, d, n)[x] = MoreFor(PiecesByCall, D, n)[x]
    BY <2>1, <2>5, <2>6 DEF MoreFor
  <2>8. More(P, d, n) = MoreFor(PiecesByCall, D, n)
    BY <2>6, <2>7 DEF MoreFor
  <2> QED
    BY <2>1, <2>3, <2>4, <2>8
<1>4. ASSUME ~f1.function, ~f2.function PROVE PiecesByCall' = PiecesByCall /\ Opened' = Opened
  BY <1>2, <1>4, BroughtNone
<1>5. AnnouncedCalls' = (AnnouncedCalls \cup IF f1.id = c THEN {c} ELSE {})
                          \cup IF f2.id = d THEN {d} ELSE {}
  <2>1. PICK D : D = (IF f1.id = c THEN {c} ELSE {}) \cup (IF f2.id = d THEN {d} ELSE {})
    OBVIOUS
  <2>2. D \subseteq Calls
    BY <2>1
  <2>3. NamesOf(e, D)
    BY <1>2, <2>1 DEF NamesOf
  <2>4. AnnouncedCalls' = AnnouncedCalls \cup D
    BY <2>2, <2>3, AnnouncedSome
  <2> QED
    BY <2>1, <2>4
<1> QED
  BY <1>3, <1>4, <1>5

CallBooks ==
  Sound(config.style, toolCalls, toolCallIds, generated, AnnouncedCalls, Opened, PiecesByCall,
        Len(received))

Styles == {"indexed", "anchored", "everywhere", "bare", "legacy", "headless"}

\* What is right after the last event is right before the next.
LEMMA NowIs ==
  ASSUME IsSequence(received), CallBooks, NEW n, n = Len(received) + 1
  PROVE  Now(config.style, AnnouncedCalls, Opened, PiecesByCall, n)
<1>1. PICK l \in Nat : l = Len(received)
  BY Appended
<1>2. n \in Nat \ {0} /\ n - 1 = l
  BY <1>1
<1> QED
  BY <1>1, <1>2 DEF Now, CallBooks

\* The call opened last has the latest first piece.
LEMMA LatestIs ==
  ASSUME NEW c \in Opened, Latest(c)
  PROVE  \A d \in Opened : Head(PiecesByCall[d]) <= Head(PiecesByCall[c])
BY DEF Latest, PiecesByCall, Opened

\* A delta without fragments keeps it right.
LEMMA ProgressNone ==
  ASSUME IsSequence(received), CallBooks, NEW e, received' = Append(received, e),
         e.fragments = <<>>, NEW n, n = Len(received) + 1, NEW no, Denied(no)
  PROVE  Progress(config.style, assemble(e.fragments, n),
                  AnnouncedCalls', Opened', PiecesByCall', n)
<1>1. Now(config.style, AnnouncedCalls, Opened, PiecesByCall, n)
  BY NowIs
<1>2. assemble(e.fragments, n) = State(toolCalls, toolCallIds, generated, <<>>, no)
  BY AssembleNone DEF Denied
<1>3. PiecesByCall' = PiecesByCall /\ Opened' = Opened /\ AnnouncedCalls' = AnnouncedCalls
  BY HeardNone
<1>4. InOrder(toolCalls, n - 1) => InOrder(toolCalls, n)
  <2>1. \A h \in 1 .. n - 1 : h \in 1 .. n
    BY <1>1 DEF Now
  <2> QED
    BY <2>1 DEF InOrder
<1>5. Sound(config.style, toolCalls, toolCallIds, generated,
            AnnouncedCalls, Opened, PiecesByCall, n)
  BY <1>1, <1>4 DEF Now, Sound
<1> QED
  BY <1>2, <1>3, <1>5 DEF Progress

-----------------------------------------------------------------------------
(***************************************************************************)
(* Whatever the provider may send keeps the books right.                   *)
(***************************************************************************)

\* The n-th event is read.
Hears(e, n, no) ==
  /\ IsSequence(received) /\ CallBooks
  /\ received' = Append(received, e) /\ n = Len(received) + 1
  /\ Denied(no)

\* What is kept is right after it.
Holds(e, n) ==
  Progress(config.style, assemble(e.fragments, n),
           AnnouncedCalls', Opened', PiecesByCall', n)

\* It was right before.
LEMMA HearsNow ==
  ASSUME NEW e, NEW n, NEW no, Hears(e, n, no), NEW style, style = config.style
  PROVE  Now(style, AnnouncedCalls, Opened, PiecesByCall, n)
BY NowIs DEF Hears

\* One fragment, with an index.
LEMMA DeltaIndexed ==
  ASSUME NEW e, NEW n, NEW no, Hears(e, n, no), config.style = "indexed",
         NEW c \in Calls, NEW f \in FragmentOf(c), e.fragments = <<f>>
  PROVE  Holds(e, n)
<1> USE DEF Hears
<1>1. Now("indexed", AnnouncedCalls, Opened, PiecesByCall, n)
  BY HearsNow
<1>2. /\ IsFragment(f, c, c) /\ f.id \in {None, c}
      /\ ~f.function => f.id = c
  BY FragmentIndexed
<1>3. c # None /\ f.call = c
  BY <1>2, NumCallsAssumption, NoneAssumption DEF Calls, IsFragment
<1>4. PICK A, B, O, P, O2, P2 :
        /\ A = AnnouncedCalls /\ B = AnnouncedCalls' /\ O = Opened /\ P = PiecesByCall
        /\ O2 = Opened' /\ P2 = PiecesByCall'
  OBVIOUS
<1>5. /\ f.function => P2 = More(P, c, n) /\ O2 = O \cup {c}
      /\ ~f.function => P2 = P /\ O2 = O
      /\ f.id = c => B = A \cup {c}
      /\ f.id # c => B = A
  BY <1>3, <1>4, HeardOne
<1>6. Now("indexed", A, O, P, n)
  BY <1>1, <1>4
<1>7. PICK result : result = assemble(<<f>>, n)
  OBVIOUS
<1>8. ASSUME f.function PROVE Progress("indexed", result, B, O2, P2, n)
  <2>1. f.id = c => B = A \cup {c}
    BY <1>5
  <2>2. f.id = None => B = A
    BY <1>3, <1>5
  <2>3. f.id = None \/ f.id = c
    BY <1>2
  <2>4. Progress("indexed", assemble(<<f>>, n), B, O \cup {c}, More(P, c, n), n)
    BY <1>2, <1>6, <1>8, <2>1, <2>2, <2>3, OneIndexed
  <2> QED
    BY <1>5, <1>7, <1>8, <2>4
<1>9. ASSUME ~f.function PROVE Progress("indexed", result, B, O2, P2, n)
  <2>1. f.id = c
    BY <1>2, <1>9
  <2>2. Progress("indexed", assemble(<<f>>, n), A \cup {c}, O, P, n)
    BY <1>2, <1>6, <1>9, <2>1, OneAnnounced
  <2> QED
    BY <1>5, <1>7, <1>9, <2>1, <2>2
<1>10. Progress("indexed", result, B, O2, P2, n)
  BY <1>8, <1>9
<1> QED
  BY <1>4, <1>7, <1>10 DEF Holds

\* One fragment, with the provider's id.
LEMMA DeltaNamed ==
  ASSUME NEW e, NEW n, NEW no, Hears(e, n, no),
         config.style \in {"everywhere", "anchored", "legacy"},
         NEW c \in Calls, config.style = "anchored" => c \notin Opened,
         NEW f \in FragmentOf(c), e.fragments = <<f>>
  PROVE  Holds(e, n)
<1> USE DEF Hears
<1>1. PICK style \in {"everywhere", "anchored", "legacy"} : style = config.style
  OBVIOUS
<1>2. IsFragment(f, c, None) /\ f.id = c /\ f.function
  BY FragmentNamed
<1>3. f.call = c
  BY <1>2 DEF IsFragment
<1>4. PICK A, B, O, P, O2, P2 :
        /\ A = AnnouncedCalls /\ B = AnnouncedCalls' /\ O = Opened /\ P = PiecesByCall
        /\ O2 = Opened' /\ P2 = PiecesByCall'
  OBVIOUS
<1>5. P2 = More(P, c, n) /\ O2 = O \cup {c} /\ B = A \cup {c}
  BY <1>2, <1>3, <1>4, HeardOne
<1>6. Now(style, A, O, P, n)
  BY <1>1, <1>4, HearsNow
<1>7. Progress(style, assemble(<<f>>, n), A \cup {c}, O \cup {c}, More(P, c, n), n)
  BY <1>2, <1>6, OneNamed
<1>8. Progress(style, assemble(<<f>>, n), B, O2, P2, n)
  BY <1>5, <1>7
<1> QED
  BY <1>1, <1>4, <1>8 DEF Holds

\* One fragment, without one.
LEMMA DeltaNameless ==
  ASSUME NEW e, NEW n, NEW no, Hears(e, n, no), config.style \in {"anchored", "bare"},
         NEW c \in Calls, config.style = "anchored" => c \in Opened,
         NEW f \in FragmentOf(c), e.fragments = <<f>>
  PROVE  Holds(e, n)
<1> USE DEF Hears
<1>1. PICK style \in {"anchored", "bare"} : style = config.style
  OBVIOUS
<1>2. /\ IsFragment(f, c, None) /\ f.id = None /\ f.function
      /\ c \in Opened => Latest(c)
  BY FragmentNameless
<1>3. f.call = c /\ f.id # c
  BY <1>2, NumCallsAssumption, NoneAssumption DEF Calls, IsFragment
<1>4. PICK A, B, O, P, O2, P2 :
        /\ A = AnnouncedCalls /\ B = AnnouncedCalls' /\ O = Opened /\ P = PiecesByCall
        /\ O2 = Opened' /\ P2 = PiecesByCall'
  OBVIOUS
<1>5. P2 = More(P, c, n) /\ O2 = O \cup {c} /\ B = A
  BY <1>2, <1>3, <1>4, HeardOne
<1>6. Now(style, A, O, P, n)
  BY <1>1, <1>4, HearsNow
<1>7. ASSUME c \in O
      PROVE  Progress(style, assemble(<<f>>, n), A, O \cup {c}, More(P, c, n), n)
  <2>1. \A d \in O : Head(P[d]) <= Head(P[c])
    BY <1>2, <1>4, <1>7, LatestIs
  <2> QED
    BY <1>2, <1>6, <1>7, <2>1, OneLast
<1>8. ASSUME c \notin O
      PROVE  Progress(style, assemble(<<f>>, n), A, O \cup {c}, More(P, c, n), n)
  <2>1. style = "bare"
    BY <1>1, <1>4, <1>8
  <2>2. Now("bare", A, O, P, n)
    BY <1>6, <2>1
  <2>3. Progress("bare", assemble(<<f>>, n), A, O \cup {c}, More(P, c, n), n)
    BY <1>2, <1>8, <2>2, OneFresh
  <2> QED
    BY <2>1, <2>3
<1>9. Progress(style, assemble(<<f>>, n), B, O2, P2, n)
  BY <1>5, <1>7, <1>8
<1> QED
  BY <1>1, <1>4, <1>9 DEF Holds

\* One fragment that says nothing of its call.
LEMMA DeltaHeadless ==
  ASSUME NEW e, NEW n, NEW no, Hears(e, n, no), config.style = "headless",
         NEW c \in Calls, NEW f \in FragmentOf(c), e.fragments = <<f>>
  PROVE  Holds(e, n)
<1> USE DEF Hears
<1>1. f.index = None /\ f.id = None /\ f.function /\ ~f.named
  BY FragmentHeadless
<1>2. PICK A, O, P, B, O2, P2 :
        /\ A = AnnouncedCalls /\ B = AnnouncedCalls' /\ O = Opened /\ P = PiecesByCall
        /\ O2 = Opened' /\ P2 = PiecesByCall'
  OBVIOUS
<1>3. Now("headless", A, O, P, n)
  BY <1>2, HearsNow
<1>4. Progress("headless", assemble(<<f>>, n), B, O2, P2, n)
  BY <1>1, <1>3, OneHeadless
<1> QED
  BY <1>2, <1>4 DEF Holds

\* Two fragments.
LEMMA DeltaTwo ==
  ASSUME NEW e, NEW n, NEW no, Hears(e, n, no), config.style \in {"indexed", "everywhere"},
         NEW c \in Calls, NEW d \in Calls, NEW f1 \in FragmentOf(c), NEW f2 \in FragmentOf(d),
         f1.call # f2.call, f1.function = f2.function, e.fragments = <<f1, f2>>
  PROVE  Holds(e, n)
<1> USE DEF Hears
<1>1. PICK A, B, O, P, O2, P2 :
        /\ A = AnnouncedCalls /\ B = AnnouncedCalls' /\ O = Opened /\ P = PiecesByCall
        /\ O2 = Opened' /\ P2 = PiecesByCall'
  OBVIOUS
<1>2. c # None /\ d # None
  BY NumCallsAssumption, NoneAssumption DEF Calls
<1>3. CASE config.style = "indexed"
  <2>1. /\ IsFragment(f1, c, c) /\ f1.id \in {None, c} /\ f1.function \in BOOLEAN
        /\ ~f1.function => f1.id = c
    BY <1>3, FragmentIndexed
  <2>2. /\ IsFragment(f2, d, d) /\ f2.id \in {None, d}
        /\ ~f2.function => f2.id = d
    BY <1>3, FragmentIndexed
  <2>3. f1.call = c /\ f2.call = d /\ c # d
    BY <2>1, <2>2 DEF IsFragment
  <2>4. /\ f1.function => P2 = More(More(P, c, n), d, n) /\ O2 = (O \cup {c}) \cup {d}
        /\ ~f1.function => P2 = P /\ O2 = O
        /\ B = (A \cup IF f1.id = c THEN {c} ELSE {}) \cup IF f2.id = d THEN {d} ELSE {}
    BY <1>1, <2>3, HeardTwo
  <2>5. Now("indexed", A, O, P, n)
    BY <1>1, <1>3, HearsNow
  <2>6. ASSUME f1.function PROVE Progress("indexed", assemble(<<f1, f2>>, n), B, O2, P2, n)
    <3>1. PICK B1 : B1 = A \cup IF f1.id = c THEN {c} ELSE {}
      OBVIOUS
    <3>2. (f1.id = c => B1 = A \cup {c}) /\ (f1.id = None => B1 = A)
      BY <1>2, <3>1
    <3>3. (f2.id = d => B = B1 \cup {d}) /\ (f2.id = None => B = B1)
      BY <1>2, <2>4, <3>1
    <3>4. f2.function
      BY <2>6
    <3>5. (f1.id = None \/ f1.id = c) /\ (f2.id = None \/ f2.id = d)
      BY <2>1, <2>2
    <3>6. Progress("indexed", assemble(<<f1, f2>>, n), B, (O \cup {c}) \cup {d},
                   More(More(P, c, n), d, n), n)
      <4>1. Announces(f1, c, A, B1) /\ Announces(f2, d, B1, B)
        BY <3>2, <3>3, <3>5 DEF Announces
      <4>2. IsFragment(f1, c, c) /\ IsFragment(f2, d, d)
        BY <2>1, <2>2
      <4> QED
        BY <2>3, <2>5, <2>6, <3>4, <4>1, <4>2, TwoIndexed
    <3> QED
      BY <2>4, <2>6, <3>6
  <2>7. ASSUME ~f1.function PROVE Progress("indexed", assemble(<<f1, f2>>, n), B, O2, P2, n)
    <3>1. ~f2.function
      BY <2>7
    <3>2. f1.id = c /\ f2.id = d
      BY <2>1, <2>2, <2>7, <3>1
    <3>3. Progress("indexed", assemble(<<f1, f2>>, n), (A \cup {c}) \cup {d}, O, P, n)
      BY <2>1, <2>2, <2>3, <2>5, <2>7, <3>1, <3>2, TwoAnnounced
    <3> QED
      BY <2>4, <2>7, <3>2, <3>3
  <2>8. Progress("indexed", assemble(<<f1, f2>>, n), B, O2, P2, n)
    BY <2>6, <2>7
  <2> QED
    BY <1>1, <1>3, <2>8 DEF Holds
<1>4. CASE config.style = "everywhere"
  <2>1. IsFragment(f1, c, None) /\ f1.id = c /\ f1.function
    BY <1>4, FragmentNamed
  <2>2. IsFragment(f2, d, None) /\ f2.id = d /\ f2.function
    BY <1>4, FragmentNamed
  <2>3. f1.call = c /\ f2.call = d /\ c # d
    BY <2>1, <2>2 DEF IsFragment
  <2>4. /\ P2 = More(More(P, c, n), d, n) /\ O2 = (O \cup {c}) \cup {d}
        /\ B = (A \cup {c}) \cup {d}
    BY <1>1, <2>1, <2>2, <2>3, HeardTwo
  <2>5. Now("everywhere", A, O, P, n)
    BY <1>1, <1>4, HearsNow
  <2>6. Progress("everywhere", assemble(<<f1, f2>>, n), (A \cup {c}) \cup {d},
                 (O \cup {c}) \cup {d}, More(More(P, c, n), d, n), n)
    BY <2>1, <2>2, <2>3, <2>5, TwoNamed
  <2> QED
    BY <1>1, <1>4, <2>4, <2>6 DEF Holds
<1> QED
  BY <1>3, <1>4

SomeFragments == UNION {FragmentOf(c) : c \in Open}

AnyFragments == UNION {FragmentOf(c) : c \in Calls}

Singles == UNION {{<<f>> : f \in FragmentOf(c)} : c \in Open}

Pairs ==
  {p \in SomeFragments \X AnyFragments :
     p[1].call # p[2].call /\ p[1].function = p[2].function}

\* No fragment, one, or two.
LEMMA ListsAre ==
  FragmentLists = ({<<>>} \cup Singles)
    \cup IF config.style \notin {"indexed", "everywhere"} THEN {} ELSE Pairs
BY Zenon DEF FragmentLists, Singles, Pairs, SomeFragments, AnyFragments

\* Any delta.
LEMMA DeltaHeard ==
  ASSUME NEW e, NEW n, NEW no, Hears(e, n, no), config.style \in Styles,
         e.fragments \in FragmentLists
  PROVE  Holds(e, n)
<1>1. \/ e.fragments = <<>>
      \/ \E c \in Open : \E f \in FragmentOf(c) : e.fragments = <<f>>
      \/ /\ config.style \in {"indexed", "everywhere"}
         /\ \E p \in SomeFragments \X AnyFragments :
              p[1].call # p[2].call /\ p[1].function = p[2].function /\ e.fragments = p
  <2>1. \/ e.fragments \in {<<>>}
        \/ e.fragments \in Singles
        \/ config.style \in {"indexed", "everywhere"} /\ e.fragments \in Pairs
    BY ListsAre
  <2>2. ASSUME e.fragments \in Singles
        PROVE  \E c \in Open : \E f \in FragmentOf(c) : e.fragments = <<f>>
    <3>1. PICK c \in Open : e.fragments \in {<<f>> : f \in FragmentOf(c)}
      BY <2>2 DEF Singles
    <3> QED
      BY <3>1
  <2> QED
    BY <2>1, <2>2 DEF Pairs
<1>2. Open \subseteq Calls
  BY DEF Open
<1>3. CASE e.fragments = <<>>
  BY <1>3, ProgressNone DEF Hears, Holds
<1>4. ASSUME NEW c \in Calls, NEW f \in FragmentOf(c), e.fragments = <<f>> PROVE Holds(e, n)
  <2>1. CASE config.style = "indexed"
    BY <1>4, <2>1, DeltaIndexed
  <2>2. CASE \/ config.style \in {"everywhere", "legacy"}
             \/ config.style = "anchored" /\ c \notin Opened
    BY <1>4, <2>2, DeltaNamed
  <2>3. CASE \/ config.style = "bare"
             \/ config.style = "anchored" /\ c \in Opened
    BY <1>4, <2>3, DeltaNameless
  <2>4. CASE config.style = "headless"
    BY <1>4, <2>4, DeltaHeadless
  <2> QED
    BY <2>1, <2>2, <2>3, <2>4 DEF Styles
<1>5. ASSUME config.style \in {"indexed", "everywhere"},
             NEW p \in SomeFragments \X AnyFragments,
             p[1].call # p[2].call, p[1].function = p[2].function, e.fragments = p
      PROVE  Holds(e, n)
  <2>1. PICK f1 \in SomeFragments, f2 \in AnyFragments :
          p = <<f1, f2>> /\ f1 = p[1] /\ f2 = p[2]
    OBVIOUS
  <2>2. PICK c \in Calls : f1 \in FragmentOf(c)
    BY <1>2 DEF SomeFragments
  <2>3. PICK d \in Calls : f2 \in FragmentOf(d)
    BY DEF AnyFragments
  <2>4. f1.call # f2.call /\ f1.function = f2.function /\ e.fragments = <<f1, f2>>
    BY <1>5, <2>1
  <2> QED
    BY <1>5, <2>2, <2>3, <2>4, DeltaTwo
<1> QED
  BY <1>1, <1>2, <1>3, <1>4, <1>5

-----------------------------------------------------------------------------
(***************************************************************************)
(* The calls assembled are the calls the provider made.                    *)
(***************************************************************************)

\* The inductive invariant: nobody's calls when none were asked for, else the books.
CallInv ==
  /\ config \in Config
  /\ ~accepted => toolCalls = <<>>
  /\ accepted /\ pc # "raised" => CallBooks

\* There are as many calls as were opened.
LEMMA CountBooks ==
  ASSUME NEW calls, NEW O, NEW P, Assembled(calls, O, P)
  PROVE  Len(calls) = Cardinality(O)
<1>1. PICK l \in Nat : l = Len(calls) /\ DOMAIN calls = 1 .. l
  BY DEF Assembled
<1>2. PICK names : names = [i \in 1 .. l |-> calls[i].name]
  OBVIOUS
<1>3. names \in [1 .. l -> O]
  BY <1>1, <1>2 DEF Assembled
<1>4. \A i, j \in 1 .. l : names[i] = names[j] => i = j
  BY <1>1, <1>2 DEF Assembled
<1>5. \A c \in O : \E i \in 1 .. l : names[i] = c
  BY <1>1, <1>2 DEF Assembled
<1>6. names \in Bijection(1 .. l, O)
  BY <1>3, <1>4, <1>5 DEF Bijection, Injection, Surjection, IsInjective
<1>7. ExistsBijection(1 .. l, O)
  BY <1>6 DEF ExistsBijection
<1> QED
  BY <1>1, <1>7, FS_CountingElements

\* Which is what the property says.
LEMMA CallTells == CallInv => ToolCallsAssembled
<1> SUFFICES ASSUME CallInv PROVE ToolCallsAssembled
  OBVIOUS
<1>1. ASSUME ~accepted PROVE ToolCallsAssembled
  BY <1>1 DEF CallInv, ToolCallsAssembled
<1>2. ASSUME accepted, pc = "raised" PROVE ToolCallsAssembled
  BY <1>2 DEF ToolCallsAssembled
<1>3. ASSUME accepted, pc # "raised" PROVE ToolCallsAssembled
  <2>1. Books(toolCalls, generated, AnnouncedCalls, Opened, PiecesByCall)
    BY <1>3 DEF CallInv, CallBooks, Sound
  <2>2. /\ Assembled(toolCalls, Opened, PiecesByCall)
        /\ Identified(toolCalls, generated, AnnouncedCalls)
    BY <2>1 DEF Books
  <2>3. Len(toolCalls) = Cardinality(Opened)
    BY <2>2, CountBooks
  <2>4. ASSUME NEW c \in Opened
        PROVE  \E i \in DOMAIN toolCalls :
                 /\ toolCalls[i].name = c
                 /\ toolCalls[i].args = Pieces(c)
                 /\ IF Announced(c) THEN toolCalls[i].id = c ELSE toolCalls[i].id >= NumCalls
    <3>1. PICK i \in DOMAIN toolCalls : toolCalls[i].name = c
      BY <2>2 DEF Assembled
    <3>2. c \in Calls
      BY DEF Opened
    <3>3. toolCalls[i].args = Pieces(c)
      BY <2>2, <3>1, <3>2 DEF Assembled, PiecesByCall
    <3>4. Announced(c) <=> c \in AnnouncedCalls
      BY <3>2 DEF AnnouncedCalls
    <3>5. IF c \in AnnouncedCalls THEN toolCalls[i].id = c
          ELSE toolCalls[i].id \in NumCalls .. NumCalls + generated - 1
      BY <2>2, <3>1 DEF Identified
    <3>6. generated \in Nat
      BY <2>2 DEF Identified
    <3>7. IF Announced(c) THEN toolCalls[i].id = c ELSE toolCalls[i].id >= NumCalls
      BY <3>4, <3>5, <3>6, NumCallsAssumption
    <3> QED
      BY <3>1, <3>3, <3>7
  <2>5. \A i, j \in DOMAIN toolCalls : toolCalls[i].id = toolCalls[j].id => i = j
    BY <2>2 DEF Identified
  <2> QED
    BY <1>3, <2>3, <2>4, <2>5 DEF ToolCallsAssembled
<1> QED
  BY <1>1, <1>2, <1>3

\* The order of the calls is known up to any later event.
LEMMA SoundLater ==
  ASSUME NEW style, NEW calls, NEW ids, NEW made, NEW A, NEW O, NEW P, NEW l \in Nat,
         Sound(style, calls, ids, made, A, O, P, l)
  PROVE  Sound(style, calls, ids, made, A, O, P, l + 1)
<1>1. InOrder(calls, l) => InOrder(calls, l + 1)
  <2>1. \A h \in 1 .. l : h \in 1 .. l + 1
    OBVIOUS
  <2> QED
    BY <2>1 DEF InOrder
<1> QED
  BY <1>1 DEF Sound

\* No fragment is received.
Quiet == received' = received \/ \E e : received' = Append(received, e) /\ e.fragments = <<>>

\* A step that receives no fragment and touches no call.
LEMMA CallSilent ==
  ASSUME CallInv, IsSequence(received), Quiet, pc # "raised" \/ pc' = "raised",
         UNCHANGED <<config, toolCalls, toolCallIds, generated>>
  PROVE  CallInv'
<1>1. config' = config /\ (accepted' <=> accepted)
  BY DEF accepted
<1>2. ASSUME accepted, pc' # "raised" PROVE CallBooks'
  <2>1. CallBooks
    BY <1>2 DEF CallInv
  <2>2. PICK calls, ids, made, A, O, P :
          /\ calls = toolCalls /\ ids = toolCallIds /\ made = generated
          /\ A = AnnouncedCalls /\ O = Opened /\ P = PiecesByCall
    OBVIOUS
  <2>3. PICK l \in Nat : l = Len(received)
    BY Appended
  <2>4. Sound(config.style, calls, ids, made, A, O, P, l)
    BY <2>1, <2>2, <2>3 DEF CallBooks
  <2>5. CASE received' = received
    <3>1. PiecesByCall' = PiecesByCall /\ Opened' = Opened /\ AnnouncedCalls' = AnnouncedCalls
      BY <2>5 DEF PiecesByCall, Opened, AnnouncedCalls, Pieces, Announced, Functions, Fragments
    <3> QED
      BY <1>1, <2>2, <2>3, <2>4, <2>5, <3>1 DEF CallBooks
  <2>6. CASE received' # received
    <3>1. PICK e : received' = Append(received, e) /\ e.fragments = <<>>
      BY <2>6 DEF Quiet
    <3>2. PiecesByCall' = PiecesByCall /\ Opened' = Opened /\ AnnouncedCalls' = AnnouncedCalls
      BY <3>1, HeardNone
    <3>3. Len(received') = l + 1
      BY <2>3, <3>1, Appended
    <3>4. Sound(config.style, calls, ids, made, A, O, P, l + 1)
      BY <2>4, SoundLater
    <3> QED
      BY <1>1, <2>2, <3>2, <3>3, <3>4 DEF CallBooks
  <2> QED
    BY <2>5, <2>6
<1> QED
  BY <1>1, <1>2 DEF CallInv

\* A stream that raised owes nothing any more.
LEMMA CallRaised ==
  ASSUME CallInv, UNCHANGED config, pc' = "raised", ~accepted => toolCalls' = toolCalls
  PROVE  CallInv'
<1>1. accepted' <=> accepted
  BY DEF accepted
<1> QED
  BY <1>1 DEF CallInv

\* A delta, whether its fragments are looked at or not.
LEMMA CallDelta ==
  ASSUME CallInv, IsSequence(received), ReadDelta
  PROVE  CallInv'
<1>1. PICK e \in Deltas :
        LET n == Len(received) + 1
            said == textOf(e, n)
            result == assemble(IF accepted THEN e.fragments ELSE <<>>, n)
        IN  /\ Receive(e)
            /\ toolCallIds' = result.ids
            /\ toolCalls' = result.calls
            /\ generated' = result.generated
            /\ ~result.failed
  BY DEF ReadDelta
<1>2. PICK n : n = Len(received) + 1
  OBVIOUS
<1>3. PICK result : result = assemble(IF accepted THEN e.fragments ELSE <<>>, n)
  OBVIOUS
<1>4. /\ received' = Append(received, e) /\ config' = config /\ pc = "reading"
      /\ toolCallIds' = result.ids /\ toolCalls' = result.calls
      /\ generated' = result.generated /\ ~result.failed
  BY <1>1, <1>2, <1>3 DEF Receive
<1>5. accepted' <=> accepted
  BY <1>4 DEF accepted
<1>6. ASSUME ~accepted PROVE toolCalls' = toolCalls
  <2>1. result = State(toolCalls, toolCallIds, generated, <<>>, FALSE)
    BY <1>3, <1>6, AssembleNone
  <2> QED
    BY <1>4, <2>1 DEF State
<1>7. ASSUME accepted PROVE CallBooks'
  <2>1. PICK no : Denied(no)
    BY DEF Denied
  <2>2. CallBooks
    BY <1>4, <1>7 DEF CallInv
  <2>3. Hears(e, n, no)
    BY <1>2, <1>4, <2>1, <2>2 DEF Hears
  <2>4. config.style \in Styles
    BY DEF CallInv, Config, Styles
  <2>5. e.fragments \in FragmentLists
    BY DEF Deltas
  <2>6. Holds(e, n)
    BY <2>3, <2>4, <2>5, DeltaHeard
  <2>7. PICK calls, ids, made, fs, failed :
          /\ result = State(calls, ids, made, fs, failed)
          /\ ~failed => Sound(config.style, calls, ids, made,
                              AnnouncedCalls', Opened', PiecesByCall', n)
    BY <1>3, <1>7, <2>6 DEF Holds, Progress
  <2>8. /\ result.calls = calls /\ result.ids = ids /\ result.generated = made
        /\ result.failed = failed
    BY <2>7 DEF State
  <2>9. Len(received') = n
    BY <1>2, <1>4, Appended
  <2>10. toolCalls' = calls /\ toolCallIds' = ids /\ generated' = made
    BY <1>4, <2>8
  <2>11. Sound(config.style, calls, ids, made, AnnouncedCalls', Opened', PiecesByCall', n)
    BY <1>4, <2>7, <2>8
  <2> QED
    BY <1>4, <2>9, <2>10, <2>11 DEF CallBooks
<1> QED
  BY <1>4, <1>5, <1>6, <1>7 DEF CallInv

\* Nothing is assembled at first.
LEMMA CallInit == Init => CallInv
<1> SUFFICES ASSUME Init PROVE CallInv
  OBVIOUS
<1>1. config \in Config /\ toolCalls = <<>> /\ generated = 0 /\ received = <<>>
  BY ConfigsAssumption DEF Init
<1>2. \A c : Pieces(c) = <<>> /\ ~Announced(c)
  <2>1. DOMAIN received = {}
    BY <1>1
  <2>2. ASSUME NEW c PROVE Pieces(c) = <<>>
    <3>1. PiecesBy(received, c) = <<>>
      BY <1>1 DEF PiecesBy
    <3>2. FlattenSeq(<<>>) = <<>>
      BY FlattenEmpty
    <3> QED
      BY <3>1, <3>2, PiecesAre
  <2> QED
    BY <2>1, <2>2 DEF Announced
<1>3. Opened = {} /\ AnnouncedCalls = {}
  BY <1>2 DEF Opened, AnnouncedCalls
<1>4. PiecesByCall \in [Calls -> Seq(Nat)] /\ \A c \in Calls : PiecesByCall[c] = <<>>
  <2>1. <<>> \in Seq(Nat)
    OBVIOUS
  <2> QED
    BY <1>2, <2>1 DEF PiecesByCall
<1>5. toolCalls \in Seq(Call) /\ DOMAIN toolCalls = {}
  BY <1>1
<1>6. Assembled(toolCalls, Opened, PiecesByCall)
  BY <1>3, <1>5 DEF Assembled
<1>7. Identified(toolCalls, generated, AnnouncedCalls)
  BY <1>1, <1>5 DEF Identified
<1>8. Filled(Opened, PiecesByCall)
  BY <1>3, <1>4 DEF Filled
<1>9. Books(toolCalls, generated, AnnouncedCalls, Opened, PiecesByCall)
  BY <1>3, <1>4, <1>6, <1>7, <1>8 DEF Books
<1>10. Indexed(toolCalls, toolCallIds, generated, AnnouncedCalls)
  <2>1. toolCallIds = [c \in Calls |-> None]
    BY DEF Init
  <2> QED
    BY <1>3, <1>5, <2>1 DEF Indexed
<1>11. \A l : InOrder(toolCalls, l)
  BY <1>5 DEF InOrder
<1>12. CallBooks
  BY <1>1, <1>3, <1>9, <1>10, <1>11 DEF CallBooks, Sound
<1> QED
  BY <1>1, <1>12 DEF CallInv

\* Every step keeps it.
LEMMA CallNext == CallInv /\ FInv /\ [Next]_vars => CallInv'
<1> SUFFICES ASSUME CallInv, FInv, [Next]_vars PROVE CallInv'
  OBVIOUS
<1>0. IsSequence(received)
  BY DEF FInv, Sequences_
<1>1. CASE Start
  BY <1>0, <1>1, CallSilent DEF Start, Quiet, handler
<1>2. CASE Resume
  BY <1>0, <1>2, CallSilent DEF Resume, Quiet, handler
<1>3. CASE Abandon
  BY <1>0, <1>3, CallSilent DEF Abandon, Leave, Quiet, handler
<1>4. CASE ReadSkipped
  <2>1. Quiet
    BY <1>4 DEF ReadSkipped, Receive, Quiet, Blank
  <2> QED
    BY <1>0, <1>4, <2>1, CallSilent DEF ReadSkipped, Receive, handler
<1>5. CASE ReadUsage
  <2>1. PICK k \in Counters : Receive([Blank EXCEPT !.usage = {k}])
    BY <1>5 DEF ReadUsage
  <2>2. [Blank EXCEPT !.usage = {k}].fragments = <<>>
    BY DEF Blank
  <2>3. Quiet
    BY <2>1, <2>2 DEF Receive, Quiet
  <2>4. pc = "reading" /\ config' = config
    BY <2>1 DEF Receive
  <2> QED
    BY <1>0, <1>5, <2>3, <2>4, CallSilent DEF ReadUsage
<1>6. CASE ReadDelta
  BY <1>0, <1>6, CallDelta
<1>7. CASE ReadHeadless
  BY <1>7, CallRaised DEF ReadHeadless, Leave, handler
<1>8. CASE ReadText
  <2>1. PICK c \in BOOLEAN, f \in May("finish") :
          Receive([Blank EXCEPT !.content = c, !.finish = f])
    BY <1>8 DEF ReadText
  <2>2. [Blank EXCEPT !.content = c, !.finish = f].fragments = <<>>
    BY DEF Blank
  <2>3. Quiet
    BY <2>1, <2>2 DEF Receive, Quiet
  <2>4. pc = "reading" /\ config' = config
    BY <2>1 DEF Receive
  <2> QED
    BY <1>0, <1>8, <2>3, <2>4, CallSilent DEF ReadText
<1>9. CASE ReadError
  BY <1>9, CallRaised DEF ReadError, Leave, handler
<1>10. CASE ReadEnd
  BY <1>0, <1>10, CallSilent DEF ReadEnd, Quiet
<1>11. CASE YieldFinal
  BY <1>0, <1>11, CallSilent DEF YieldFinal, Quiet, handler
<1>12. CASE UNCHANGED vars
  BY <1>0, <1>12, CallSilent DEF vars, Quiet
<1> QED
  BY <1>1, <1>2, <1>3, <1>4, <1>5, <1>6, <1>7, <1>8, <1>9, <1>10, <1>11, <1>12 DEF Next

(***************************************************************************)
(* Every call that was opened is assembled once, with its name and all its *)
(* pieces in order and no other's, under the provider's id if it was       *)
(* announced and under one of its own if not, and no two have the same id: *)
(* _extract_response_tool_calls() and _increase_tool_call() do that        *)
(* however the provider names its calls and however it interleaves them.   *)
(***************************************************************************)
THEOREM CallsAreAssembled == Spec => []ToolCallsAssembled
<1>1. Spec => []FInv
  BY FInvInit, FInvNext, PTL DEF Spec
<1> QED
  BY <1>1, CallInit, CallNext, CallTells, PTL DEF Spec
=============================================================================
