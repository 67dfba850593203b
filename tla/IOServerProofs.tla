--------------------------- MODULE IOServerProofs ---------------------------
(***************************************************************************)
(* What holds of IOServer for any number of requests and workers, and of   *)
(* ServerlessResponse, the answer to one of them when the server is a      *)
(* serverless one, for any number of chunks and rounds (at the end).       *)
(*                                                                         *)
(* A request is in at most one queue and there at one place (QueueInv), so *)
(* it is executed once; its generator is open only while the handler is    *)
(* in the loop over it (GeneratorInv); and what was written for it follows *)
(* its control (OutcomeInv).                                               *)
(***************************************************************************)
EXTENDS IOServer, ServerlessResponse, TLAPS

(***************************************************************************)
(* The queues hold the requests that are in them, each of them once.       *)
(***************************************************************************)
Once(s) == \A i, j \in 1 .. Len(s) : s[i] = s[j] => i = j

QueueInv ==
  /\ Once(inbox) /\ \A i \in 1 .. Len(inbox) : rpc[inbox[i]] = "inbox"
  /\ Once(pool) /\ \A i \in 1 .. Len(pool) : rpc[pool[i]] = "pool"

GeneratorInv ==
  \A r \in Requests : generator[r] = "open" => rpc[r] \in {"stream", "invoke"}

(***************************************************************************)
(* What was written for a request: the messages of its handler, then the   *)
(* error message just in case it raised, then the end message.             *)
(***************************************************************************)
Streamed(s, n) == \A k \in 1 .. n : s[k] = "stream"

Reported(r, n) ==
  \/ r \notin raised /\ Streamed(out[r], n)
  \/ r \in raised /\ n > 0 /\ Streamed(out[r], n - 1) /\ out[r][n] = "error"

OutcomeOf(r) ==
  /\ rpc[r] \notin {"error", "end", "done", "finished"} =>
       r \notin raised /\ Streamed(out[r], Len(out[r]))
  /\ rpc[r] = "error" => r \in raised /\ Streamed(out[r], Len(out[r]))
  /\ rpc[r] = "end" => Reported(r, Len(out[r]))
  /\ rpc[r] \in {"done", "finished"} =>
       \/ r \in lost /\ r \in raised /\ Streamed(out[r], Len(out[r]))
       \/ r \in lost /\ Reported(r, Len(out[r]))
       \/ /\ Len(out[r]) > 0
          /\ out[r][Len(out[r])] = "end"
          /\ Reported(r, Len(out[r]) - 1)

OutcomeInv == \A r \in Requests : OutcomeOf(r)

IInv == TypeOK /\ QueueInv /\ GeneratorInv /\ OutcomeInv

-----------------------------------------------------------------------------
(* Lemmas on sequences.                                                    *)

(***************************************************************************)
(* Append puts its element after the others and moves none of them.        *)
(***************************************************************************)
LEMMA AppendAt ==
  ASSUME NEW S, NEW s \in Seq(S), NEW e \in S
  PROVE  /\ Append(s, e) \in Seq(S)
         /\ Len(s) \in Nat
         /\ Len(Append(s, e)) = Len(s) + 1
         /\ Append(s, e)[Len(s) + 1] = e
         /\ \A i \in 1 .. Len(s) : Append(s, e)[i] = s[i]
OBVIOUS

(***************************************************************************)
(* Tail moves every element one place to the front.                        *)
(***************************************************************************)
LEMMA TailAt ==
  ASSUME NEW S, NEW s \in Seq(S), s # <<>>
  PROVE  /\ Head(s) \in S /\ Head(s) = s[1]
         /\ Tail(s) \in Seq(S)
         /\ Len(s) \in Nat /\ Len(s) > 0 /\ Len(Tail(s)) = Len(s) - 1
         /\ \A i \in 1 .. Len(s) - 1 : Tail(s)[i] = s[i + 1]
OBVIOUS

(***************************************************************************)
(* A queue of distinct elements loses its head for good.                   *)
(***************************************************************************)
LEMMA OnceTail ==
  ASSUME NEW S, NEW s \in Seq(S), s # <<>>, Once(s)
  PROVE  /\ Once(Tail(s))
         /\ \A i \in 1 .. Len(Tail(s)) :
              /\ Tail(s)[i] # Head(s)
              /\ \E j \in 1 .. Len(s) : Tail(s)[i] = s[j]
<1>1. /\ Head(s) = s[1]
      /\ Len(s) \in Nat /\ Len(s) > 0 /\ Len(Tail(s)) = Len(s) - 1
      /\ \A i \in 1 .. Len(s) - 1 : Tail(s)[i] = s[i + 1]
  BY TailAt
<1>2. \A i \in 1 .. Len(Tail(s)) :
        i + 1 \in 1 .. Len(s) /\ i + 1 # 1 /\ Tail(s)[i] = s[i + 1]
  BY <1>1
<1>3. 1 \in 1 .. Len(s)
  BY <1>1
<1> QED
  BY <1>1, <1>2, <1>3 DEF Once

(***************************************************************************)
(* A queue of distinct elements takes a new one at its end.                *)
(***************************************************************************)
LEMMA OnceAppend ==
  ASSUME NEW S, NEW s \in Seq(S), NEW e \in S, Once(s),
         \A i \in 1 .. Len(s) : s[i] # e
  PROVE  Once(Append(s, e))
BY AppendAt DEF Once

-----------------------------------------------------------------------------
(* The invariant, one operation at a time.                                 *)

(***************************************************************************)
(* Before the first request there is nothing to report.                    *)
(***************************************************************************)
LEMMA Initially == Init => IInv
<1> SUFFICES ASSUME Init PROVE IInv
  OBVIOUS
<1> USE DEF Init
<1>1. /\ inbox \in Seq(Requests) /\ pool \in Seq(Requests)
      /\ out \in [Requests -> Seq({"stream", "error", "end"})]
      /\ Len(inbox) = 0 /\ Len(pool) = 0
      /\ \A r \in Requests : Len(out[r]) = 0
  <2>1. <<>> \in Seq(Requests) /\ <<>> \in Seq({"stream", "error", "end"})
    OBVIOUS
  <2> QED
    BY <2>1
<1>2. TypeOK
  BY <1>1 DEF TypeOK, Running
<1>3. QueueInv /\ GeneratorInv
  BY <1>1 DEF QueueInv, GeneratorInv, Once
<1>4. OutcomeInv
  BY <1>1 DEF OutcomeInv, OutcomeOf, Streamed
<1> QED
  BY <1>2, <1>3, <1>4 DEF IInv

(***************************************************************************)
(* A step of a worker concerns its own request and no queue.               *)
(***************************************************************************)
LEMMA WorkerFrame ==
  ASSUME QueueInv, GeneratorInv, OutcomeInv, TypeOK,
         NEW r \in Requests, NEW pc, Goto(r, pc),
         rpc[r] \in Running, pc \in Running \cup {"finished"},
         UNCHANGED queueVars,
         generator' = generator \/ \E g : generator' = [generator EXCEPT ![r] = g],
         out' = out \/ \E o : out' = [out EXCEPT ![r] = o],
         raised \subseteq raised' /\ raised' \subseteq raised \cup {r},
         lost \subseteq lost' /\ lost' \subseteq lost \cup {r},
         generator'[r] = "open" => pc \in {"stream", "invoke"},
         OutcomeOf(r)'
  PROVE  QueueInv' /\ GeneratorInv' /\ OutcomeInv'
<1>1. /\ rpc'[r] = pc
      /\ \A s \in Requests : s # r =>
           rpc'[s] = rpc[s] /\ generator'[s] = generator[s] /\ out'[s] = out[s]
  BY DEF Goto, TypeOK
<1>2. QueueInv'
  <2>1. /\ \A i \in 1 .. Len(inbox) : inbox[i] \in Requests
        /\ \A i \in 1 .. Len(pool) : pool[i] \in Requests
    BY DEF TypeOK
  <2>2. rpc[r] # "inbox" /\ rpc[r] # "pool"
    BY DEF Running
  <2> QED
    BY <1>1, <2>1, <2>2 DEF QueueInv, queueVars
<1>3. GeneratorInv'
  BY <1>1 DEF GeneratorInv
<1>4. ASSUME NEW s \in Requests, s # r PROVE OutcomeOf(s)'
  <2>1. OutcomeOf(s)
    BY DEF OutcomeInv
  <2>2. /\ rpc'[s] = rpc[s] /\ out'[s] = out[s]
        /\ s \in raised' <=> s \in raised
        /\ s \in lost' <=> s \in lost
    BY <1>1, <1>4
  <2> QED
    BY <2>1, <2>2 DEF OutcomeOf, Reported
<1>5. OutcomeInv'
  BY <1>4 DEF OutcomeInv
<1> QED
  BY <1>2, <1>3, <1>5

(***************************************************************************)
(* A message that is written keeps the type and what was written before.   *)
(***************************************************************************)
LEMMA WrittenStep ==
  ASSUME TypeOK, NEW r \in Requests, NEW m \in {"stream", "error", "end"},
         Written(r, m)
  PROVE  /\ out' \in [Requests -> Seq({"stream", "error", "end"})]
         /\ out' = [out EXCEPT ![r] = Append(@, m)]
         /\ lost' = lost
         /\ Len(out[r]) \in Nat /\ Len(out'[r]) = Len(out[r]) + 1
         /\ out'[r][Len(out[r]) + 1] = m
         /\ \A k \in 1 .. Len(out[r]) : out'[r][k] = out[r][k]
<1>1. out[r] \in Seq({"stream", "error", "end"})
  BY DEF TypeOK
<1>2. out' = [out EXCEPT ![r] = Append(out[r], m)] /\ lost' = lost
  BY DEF Written
<1>3. out'[r] = Append(out[r], m)
  BY <1>2 DEF TypeOK
<1>4. Append(out[r], m) \in Seq({"stream", "error", "end"})
  BY <1>1, AppendAt
<1>5. out' \in [Requests -> Seq({"stream", "error", "end"})]
  BY <1>2, <1>4 DEF TypeOK
<1> QED
  BY <1>1, <1>2, <1>3, <1>5, AppendAt

(***************************************************************************)
(* The handler raises, having written nothing but messages of its own.     *)
(***************************************************************************)
LEMMA RaiseStep ==
  ASSUME IInv, NEW r \in Requests, Raise(r),
         rpc[r] \in {"dispatch", "stream", "invoke"},
         UNCHANGED <<queueVars, out>>, invoked' \subseteq Requests,
         lost' = lost \/ lost' = lost \cup {r}
  PROVE  IInv'
<1> USE DEF IInv
<1>1. /\ Goto(r, "error") /\ raised' = raised \cup {r}
      /\ \E g : generator' = [generator EXCEPT ![r] = g]
      /\ generator' \in [Requests -> {"none", "open", "closed"}]
      /\ generator'[r] # "open"
  BY DEF Raise, TypeOK
<1>2. TypeOK'
  BY <1>1 DEF Goto, TypeOK, queueVars, Running
<1>3. OutcomeOf(r)'
  <2>1. Streamed(out[r], Len(out[r]))
    BY DEF OutcomeInv, OutcomeOf
  <2> QED
    BY <1>1, <2>1 DEF OutcomeOf, Goto, TypeOK
<1>4. QueueInv' /\ GeneratorInv' /\ OutcomeInv'
  BY <1>1, <1>3, WorkerFrame DEF Running
<1> QED
  BY <1>2, <1>4

(***************************************************************************)
(* A step that goes on without raising.                                    *)
(***************************************************************************)
LEMMA GoOn ==
  ASSUME IInv, NEW r \in Requests, NEW pc \in {"stream", "invoke", "end"},
         Goto(r, pc), rpc[r] \in {"dispatch", "stream", "invoke"},
         UNCHANGED <<queueVars, raised, lost>>, invoked' \subseteq Requests,
         \/ UNCHANGED generator
         \/ pc # "end" /\ generator' = [generator EXCEPT ![r] = "open"]
         \/ generator' = [generator EXCEPT ![r] = "closed"],
         rpc[r] # "dispatch" /\ pc = "end" => generator'[r] # "open",
         UNCHANGED out \/ Written(r, "stream")
  PROVE  IInv'
<1> USE DEF IInv
<1>1. /\ out' = out \/ \E o : out' = [out EXCEPT ![r] = o]
      /\ out' \in [Requests -> Seq({"stream", "error", "end"})]
      /\ r \notin raised
      /\ Streamed(out'[r], Len(out'[r]))
  <2>1. Streamed(out[r], Len(out[r])) /\ r \notin raised
    BY DEF OutcomeInv, OutcomeOf
  <2>2. CASE UNCHANGED out
    BY <2>1, <2>2 DEF TypeOK
  <2>3. CASE Written(r, "stream")
    <3>1. /\ out' \in [Requests -> Seq({"stream", "error", "end"})]
          /\ out' = [out EXCEPT ![r] = Append(@, "stream")]
          /\ Len(out[r]) \in Nat /\ Len(out'[r]) = Len(out[r]) + 1
          /\ out'[r][Len(out[r]) + 1] = "stream"
          /\ \A k \in 1 .. Len(out[r]) : out'[r][k] = out[r][k]
      BY <2>3, WrittenStep
    <3>2. Streamed(out'[r], Len(out'[r]))
      BY <2>1, <3>1 DEF Streamed
    <3> QED
      BY <2>1, <3>1, <3>2
  <2> QED
    BY <2>1, <2>2, <2>3
<1>2. /\ generator' = generator \/ \E g : generator' = [generator EXCEPT ![r] = g]
      /\ generator' \in [Requests -> {"none", "open", "closed"}]
      /\ generator'[r] = "open" => pc \in {"stream", "invoke"}
  BY DEF TypeOK, GeneratorInv
<1>3. TypeOK'
  BY <1>1, <1>2 DEF Goto, TypeOK, queueVars, Running
<1>4. OutcomeOf(r)'
  BY <1>1 DEF OutcomeOf, Reported, Goto, TypeOK
<1>5. QueueInv' /\ GeneratorInv' /\ OutcomeInv'
  BY <1>1, <1>2, <1>4, WorkerFrame DEF Running
<1> QED
  BY <1>3, <1>5

(***************************************************************************)
(* dispatch(): it ends the request, starts its stream or raises.           *)
(***************************************************************************)
LEMMA DispatchStep ==
  ASSUME IInv, NEW r \in Requests, Dispatch(r)
  PROVE  IInv'
<1> USE DEF queueVars, historyVars
<1>1. rpc[r] = "dispatch" /\ UNCHANGED <<queueVars, invoked>>
      /\ invoked' \subseteq Requests
  BY DEF Dispatch, IInv, TypeOK
<1>2. CASE Raise(r) /\ (NotWritten(r) \/ UNCHANGED <<out, lost>>)
  BY <1>1, <1>2, RaiseStep DEF NotWritten
<1>3. CASE Goto(r, "end") /\ UNCHANGED <<generator, raised, lost>>
           /\ (UNCHANGED out \/ Written(r, "stream"))
  BY <1>1, <1>3, GoOn
<1>4. CASE Goto(r, "stream") /\ generator' = [generator EXCEPT ![r] = "open"]
           /\ UNCHANGED historyVars
  BY <1>1, <1>4, GoOn
<1> QED
  BY <1>2, <1>3, <1>4 DEF Dispatch, Written

(***************************************************************************)
(* The loop over the generator: it goes on, ends or raises.                *)
(***************************************************************************)
LEMMA StreamStep ==
  ASSUME IInv, NEW r \in Requests, Stream(r)
  PROVE  IInv'
<1> USE DEF queueVars, historyVars
<1>1. rpc[r] = "stream" /\ UNCHANGED <<queueVars, invoked>>
      /\ invoked' \subseteq Requests
  BY DEF Stream, IInv, TypeOK
<1>2. CASE Raise(r) /\ (NotWritten(r) \/ UNCHANGED <<out, lost>>)
  BY <1>1, <1>2, RaiseStep DEF NotWritten
<1>3. CASE Written(r, "stream") /\ UNCHANGED <<rpc, generator, raised>>
  <2>1. Goto(r, "stream")
    BY <1>1, <1>3 DEF Goto, IInv, TypeOK
  <2>2. lost' = lost
    BY <1>3 DEF Written
  <2> QED
    BY <1>1, <1>3, <2>1, <2>2, GoOn
<1>4. CASE Goto(r, "end") /\ generator' = [generator EXCEPT ![r] = "closed"]
           /\ UNCHANGED historyVars
  <2>1. generator'[r] # "open"
    BY <1>4 DEF IInv, TypeOK
  <2> QED
    BY <1>1, <1>4, <2>1, GoOn
<1> QED
  BY <1>2, <1>3, <1>4 DEF Stream

(***************************************************************************)
(* A handler that calls back, and the call that comes back.                *)
(***************************************************************************)
LEMMA InvokeStep ==
  ASSUME IInv, NEW r \in Requests,
         Invoke(r) \/ InvokeAnswered(r) \/ InvokeTimeout(r)
  PROVE  IInv'
<1> USE DEF queueVars, historyVars
<1>1. /\ rpc[r] \in {"stream", "invoke"} /\ UNCHANGED <<queueVars, out, lost>>
      /\ invoked' \subseteq Requests
  BY DEF Invoke, InvokeAnswered, InvokeTimeout, IInv, TypeOK
<1>2. CASE Raise(r)
  BY <1>1, <1>2, RaiseStep
<1>3. ASSUME NEW pc \in {"stream", "invoke"}, Goto(r, pc),
             UNCHANGED <<generator, raised>>
      PROVE  IInv'
  BY <1>1, <1>3, GoOn
<1> QED
  BY <1>2, <1>3 DEF Invoke, InvokeAnswered, InvokeTimeout

(***************************************************************************)
(* The last messages: after the error message, or the write that raised.   *)
(***************************************************************************)
LEMMA LastStep ==
  ASSUME IInv, NEW r \in Requests,
         ErrorMessage(r) \/ EndMessage(r) \/ Done(r)
  PROVE  IInv'
<1> USE DEF IInv, queueVars, historyVars
<1>1. /\ rpc[r] \in {"error", "end", "done"}
      /\ UNCHANGED <<queueVars, generator, invoked, raised>>
      /\ generator[r] # "open"
  BY DEF ErrorMessage, EndMessage, Done, GeneratorInv
<1>2. OutcomeOf(r)
  BY DEF OutcomeInv
<1>3. ASSUME NEW pc \in {"end", "done", "finished"}, Goto(r, pc),
             out' \in [Requests -> Seq({"stream", "error", "end"})],
             out' = out \/ \E o : out' = [out EXCEPT ![r] = o],
             lost' = lost \/ lost' = lost \cup {r}, OutcomeOf(r)'
      PROVE  IInv'
  <2>1. TypeOK'
    BY <1>1, <1>3 DEF Goto, TypeOK, Running
  <2>2. QueueInv' /\ GeneratorInv' /\ OutcomeInv'
    BY <1>1, <1>3, WorkerFrame DEF Running
  <2> QED
    BY <2>1, <2>2
<1>4. \A pc : Goto(r, pc) => rpc'[r] = pc
  BY DEF Goto, TypeOK
<1>5. CASE rpc[r] = "error" /\ Written(r, "error") /\ Goto(r, "end")
  <2>1. r \in raised /\ Streamed(out[r], Len(out[r]))
    BY <1>2, <1>5 DEF OutcomeOf
  <2>2. Streamed(out'[r], Len(out[r])) /\ Len(out'[r]) = Len(out[r]) + 1
        /\ out'[r][Len(out'[r])] = "error" /\ Len(out[r]) \in Nat
    BY <1>5, <2>1, WrittenStep DEF Streamed
  <2>3. OutcomeOf(r)'
    BY <1>1, <1>4, <1>5, <2>1, <2>2 DEF OutcomeOf, Reported
  <2> QED
    BY <1>3, <1>5, <2>3, WrittenStep
<1>6. CASE rpc[r] = "end" /\ Written(r, "end") /\ Goto(r, "done")
  <2>1. PICK n \in Nat : n = Len(out[r]) /\ Reported(r, n)
    BY <1>2, <1>6, WrittenStep DEF OutcomeOf
  <2>2. /\ Len(out'[r]) = n + 1 /\ out'[r][n + 1] = "end"
        /\ \A k \in 1 .. n : out'[r][k] = out[r][k]
    BY <1>6, <2>1, WrittenStep
  <2>3. Reported(r, n)'
    BY <1>1, <2>1, <2>2 DEF Reported, Streamed
  <2>4. OutcomeOf(r)'
    BY <1>4, <1>6, <2>1, <2>2, <2>3 DEF OutcomeOf
  <2> QED
    BY <1>3, <1>6, <2>4, WrittenStep
<1>7. CASE /\ rpc[r] \in {"error", "end"} /\ NotWritten(r) /\ Goto(r, "done")
  <2>1. OutcomeOf(r)'
    BY <1>1, <1>2, <1>4, <1>7 DEF NotWritten, OutcomeOf, Reported
  <2> QED
    BY <1>3, <1>7, <2>1 DEF NotWritten, TypeOK
<1>8. CASE rpc[r] = "done" /\ Goto(r, "finished") /\ UNCHANGED historyVars
  <2>1. OutcomeOf(r)'
    BY <1>1, <1>2, <1>4, <1>8 DEF OutcomeOf, Reported
  <2> QED
    BY <1>3, <1>8, <2>1 DEF TypeOK
<1> QED
  BY <1>5, <1>6, <1>7, <1>8 DEF ErrorMessage, EndMessage, Done

-----------------------------------------------------------------------------
(* From the connection to the pool.                                        *)

(***************************************************************************)
(* A request that moves on and is not yet executed has written nothing     *)
(* new, and has no open generator.                                         *)
(***************************************************************************)
LEMMA QueueFrame ==
  ASSUME IInv, NEW r \in Requests, NEW pc \in {"inbox", "pool", "dispatch"},
         Goto(r, pc), rpc[r] \in {"unsent", "inbox", "pool"},
         UNCHANGED <<generator, invoked, historyVars>>
  PROVE  /\ rpc' \in [Requests -> {"unsent", "inbox", "pool", "finished"}
                                    \cup Running]
         /\ rpc'[r] = pc
         /\ \A s \in Requests : s # r => rpc'[s] = rpc[s]
         /\ GeneratorInv' /\ OutcomeInv'
<1> USE DEF IInv, historyVars
<1>1. /\ rpc'[r] = pc
      /\ rpc' \in [Requests -> {"unsent", "inbox", "pool", "finished"}
                                 \cup Running]
      /\ \A s \in Requests : s # r => rpc'[s] = rpc[s]
  BY DEF Goto, TypeOK, Running
<1>2. GeneratorInv'
  BY <1>1 DEF GeneratorInv
<1>3. OutcomeInv'
  <2> SUFFICES ASSUME NEW s \in Requests PROVE OutcomeOf(s)'
    BY DEF OutcomeInv
  <2>1. OutcomeOf(s)
    BY DEF OutcomeInv
  <2>2. CASE s = r
    BY <1>1, <2>1, <2>2 DEF OutcomeOf
  <2>3. CASE s # r
    BY <1>1, <2>1, <2>3 DEF OutcomeOf, Reported
  <2> QED
    BY <2>2, <2>3
<1> QED
  BY <1>1, <1>2, <1>3

(***************************************************************************)
(* A request comes in behind those that are queued.                        *)
(***************************************************************************)
LEMMA ArriveStep ==
  ASSUME IInv, NEW r \in Requests, Arrive(r)
  PROVE  IInv'
<1>1. /\ rpc[r] = "unsent" /\ Goto(r, "inbox") /\ inbox' = Append(inbox, r)
      /\ UNCHANGED <<listening, pool, generator, invoked, historyVars>>
  BY DEF Arrive
<1>2. /\ rpc'[r] = "inbox" /\ \A s \in Requests : s # r => rpc'[s] = rpc[s]
      /\ rpc' \in [Requests -> {"unsent", "inbox", "pool", "finished"}
                                 \cup Running]
      /\ GeneratorInv' /\ OutcomeInv'
  BY <1>1, QueueFrame
<1>3. /\ Len(inbox) \in Nat /\ inbox' \in Seq(Requests)
      /\ Len(inbox') = Len(inbox) + 1 /\ inbox'[Len(inbox) + 1] = r
      /\ \A i \in 1 .. Len(inbox) : inbox'[i] = inbox[i]
  BY <1>1, AppendAt DEF IInv, TypeOK
<1>4. /\ \A i \in 1 .. Len(inbox) : inbox[i] \in Requests /\ inbox[i] # r
      /\ \A i \in 1 .. Len(pool) : pool[i] \in Requests /\ pool[i] # r
  BY <1>1 DEF IInv, TypeOK, QueueInv
<1>5. Once(inbox') /\ Once(pool')
  BY <1>1, <1>4, OnceAppend DEF IInv, TypeOK, QueueInv
<1>6. \A i \in 1 .. Len(inbox') : rpc'[inbox'[i]] = "inbox"
  BY <1>2, <1>3, <1>4 DEF IInv, QueueInv
<1>7. \A i \in 1 .. Len(pool') : rpc'[pool'[i]] = "pool"
  BY <1>1, <1>2, <1>4 DEF IInv, QueueInv
<1>8. TypeOK'
  BY <1>1, <1>2, <1>3 DEF IInv, TypeOK, historyVars
<1> QED
  BY <1>2, <1>5, <1>6, <1>7, <1>8 DEF IInv, QueueInv

(***************************************************************************)
(* The oldest request moves from one queue to the end of the other.        *)
(***************************************************************************)
LEMMA SubmitStep ==
  ASSUME IInv, Submit
  PROVE  IInv'
<1> DEFINE h == Head(inbox)
<1>1. /\ inbox # <<>> /\ inbox' = Tail(inbox) /\ pool' = Append(pool, h)
      /\ Goto(h, "pool")
      /\ UNCHANGED <<listening, generator, invoked, historyVars>>
  BY DEF Submit
<1>2. /\ h \in Requests /\ h = inbox[1] /\ inbox' \in Seq(Requests)
      /\ 1 \in 1 .. Len(inbox)
  BY <1>1, TailAt DEF IInv, TypeOK
<1>3. rpc[h] = "inbox"
  BY <1>2 DEF IInv, QueueInv
<1> HIDE DEF h
<1>4. /\ rpc'[h] = "pool" /\ \A s \in Requests : s # h => rpc'[s] = rpc[s]
      /\ rpc' \in [Requests -> {"unsent", "inbox", "pool", "finished"}
                                 \cup Running]
      /\ GeneratorInv' /\ OutcomeInv'
  BY <1>1, <1>2, <1>3, QueueFrame
<1>5. /\ Once(inbox')
      /\ \A i \in 1 .. Len(inbox') :
           inbox'[i] # h /\ \E j \in 1 .. Len(inbox) : inbox'[i] = inbox[j]
  BY <1>1, OnceTail DEF IInv, TypeOK, QueueInv, h
<1>6. \A i \in 1 .. Len(inbox') : rpc'[inbox'[i]] = "inbox"
  <2>1. \A j \in 1 .. Len(inbox) : inbox[j] \in Requests /\ rpc[inbox[j]] = "inbox"
    BY DEF IInv, TypeOK, QueueInv
  <2> QED
    BY <1>4, <1>5, <2>1
<1>7. /\ Len(pool) \in Nat /\ pool' \in Seq(Requests)
      /\ Len(pool') = Len(pool) + 1 /\ pool'[Len(pool) + 1] = h
      /\ \A i \in 1 .. Len(pool) : pool'[i] = pool[i]
  BY <1>1, <1>2, AppendAt DEF IInv, TypeOK
<1>8. \A i \in 1 .. Len(pool) :
        pool[i] \in Requests /\ pool[i] # h /\ rpc[pool[i]] = "pool"
  BY <1>3 DEF IInv, TypeOK, QueueInv
<1>9. Once(pool')
  BY <1>1, <1>2, <1>8, OnceAppend DEF IInv, TypeOK, QueueInv
<1>10. \A i \in 1 .. Len(pool') : rpc'[pool'[i]] = "pool"
  BY <1>4, <1>7, <1>8
<1>11. TypeOK'
  BY <1>1, <1>2, <1>4, <1>7 DEF IInv, TypeOK, historyVars
<1> QED
  BY <1>4, <1>5, <1>6, <1>9, <1>10, <1>11 DEF IInv, QueueInv

(***************************************************************************)
(* The oldest work item leaves the pool's queue for a worker.              *)
(***************************************************************************)
LEMMA BeginStep ==
  ASSUME IInv, Begin
  PROVE  IInv'
<1> DEFINE h == Head(pool)
<1>1. /\ pool # <<>> /\ pool' = Tail(pool) /\ Goto(h, "dispatch")
      /\ UNCHANGED <<listening, inbox, generator, invoked, historyVars>>
  BY DEF Begin
<1>2. /\ h \in Requests /\ h = pool[1] /\ pool' \in Seq(Requests)
      /\ 1 \in 1 .. Len(pool)
  BY <1>1, TailAt DEF IInv, TypeOK
<1>3. rpc[h] = "pool"
  BY <1>2 DEF IInv, QueueInv
<1> HIDE DEF h
<1>4. /\ \A s \in Requests : s # h => rpc'[s] = rpc[s]
      /\ rpc' \in [Requests -> {"unsent", "inbox", "pool", "finished"}
                                 \cup Running]
      /\ GeneratorInv' /\ OutcomeInv'
  BY <1>1, <1>2, <1>3, QueueFrame
<1>5. /\ Once(pool')
      /\ \A i \in 1 .. Len(pool') :
           pool'[i] # h /\ \E j \in 1 .. Len(pool) : pool'[i] = pool[j]
  BY <1>1, OnceTail DEF IInv, TypeOK, QueueInv, h
<1>6. \A i \in 1 .. Len(pool') : rpc'[pool'[i]] = "pool"
  <2>1. \A j \in 1 .. Len(pool) : pool[j] \in Requests /\ rpc[pool[j]] = "pool"
    BY DEF IInv, TypeOK, QueueInv
  <2> QED
    BY <1>4, <1>5, <2>1
<1>7. \A i \in 1 .. Len(inbox) :
        inbox[i] \in Requests /\ inbox[i] # h /\ rpc[inbox[i]] = "inbox"
  BY <1>3 DEF IInv, TypeOK, QueueInv
<1>8. TypeOK'
  BY <1>1, <1>2, <1>4 DEF IInv, TypeOK, historyVars
<1> QED
  BY <1>1, <1>4, <1>5, <1>6, <1>7, <1>8 DEF IInv, QueueInv

-----------------------------------------------------------------------------
(***************************************************************************)
(* The invariant is inductive.                                             *)
(***************************************************************************)
LEMMA Step == IInv /\ [Next]_vars => IInv'
<1> SUFFICES ASSUME IInv, [Next]_vars PROVE IInv'
  OBVIOUS
<1>1. ASSUME NEW r \in Requests, Worker(r) PROVE IInv'
  BY <1>1, DispatchStep, StreamStep, InvokeStep, LastStep DEF Worker
<1>2. CASE CloseReader \/ UNCHANGED vars
  BY <1>2 DEF CloseReader, vars, historyVars, IInv, TypeOK, QueueInv,
     GeneratorInv, OutcomeInv, OutcomeOf, Reported
<1> QED
  BY <1>1, <1>2, ArriveStep, SubmitStep, BeginStep DEF Next

(***************************************************************************)
(* So it holds throughout every run.                                       *)
(***************************************************************************)
LEMMA Inductive == Spec => []IInv
BY Initially, Step, PTL DEF Spec

(***************************************************************************)
(* The daemon is told that a request is over by its last message and that  *)
(* it failed by the message before it, and by no other, for any number of  *)
(* requests and workers, and whatever writes fail on the way.              *)
(***************************************************************************)
THEOREM OutcomeIsReported == Spec => []OutcomeReported
<1>1. IInv => OutcomeReported
  <2> SUFFICES ASSUME IInv, NEW r \in Requests
      PROVE  /\ \A k \in DOMAIN out[r] :
                  /\ out[r][k] = "end" => k = Len(out[r])
                  /\ out[r][k] = "error" =>
                       /\ r \in raised
                       /\ \A j \in k + 1 .. Len(out[r]) : out[r][j] = "end"
             /\ rpc[r] = "finished" /\ r \notin lost =>
                  /\ out[r] # <<>> /\ out[r][Len(out[r])] = "end"
                  /\ r \in raised <=>
                       \E k \in DOMAIN out[r] : out[r][k] = "error"
    BY DEF OutcomeReported
  <2> DEFINE n == Len(out[r])
  <2>1. OutcomeOf(r) /\ n \in Nat /\ DOMAIN out[r] = 1 .. n
    BY DEF IInv, OutcomeInv, TypeOK
  <2>2. CASE Streamed(out[r], n) /\ ~(rpc[r] = "finished" /\ r \notin lost)
    BY <2>1, <2>2 DEF Streamed
  <2>3. CASE Reported(r, n) /\ ~(rpc[r] = "finished" /\ r \notin lost)
    BY <2>1, <2>3 DEF Reported, Streamed
  <2>4. CASE n > 0 /\ out[r][n] = "end" /\ Reported(r, n - 1)
    <3>1. out[r] # <<>> /\ out[r][n] = "end"
      BY <2>1, <2>4
    <3>2. r \in raised <=> \E k \in 1 .. n : out[r][k] = "error"
      BY <2>1, <2>4 DEF Reported, Streamed
    <3>3. \A k \in 1 .. n :
            /\ out[r][k] = "end" => k = n
            /\ out[r][k] = "error" =>
                 r \in raised /\ \A j \in k + 1 .. n : out[r][j] = "end"
      BY <2>1, <2>4 DEF Reported, Streamed
    <3> QED
      BY <2>1, <3>1, <3>2, <3>3
  <2> QED
    BY <2>1, <2>2, <2>3, <2>4 DEF OutcomeOf
<1> QED
  BY Inductive, <1>1, PTL

(***************************************************************************)
(* A worker that is past its handler has left no generator open, whatever  *)
(* raised on the way: the handler, a write or an invocation's timeout.     *)
(***************************************************************************)
THEOREM GeneratorIsClosed == Spec => []GeneratorClosed
<1>1. IInv => GeneratorClosed
  BY DEF IInv, GeneratorInv, GeneratorClosed
<1> QED
  BY Inductive, <1>1, PTL

(***************************************************************************)
(* A request is in one queue at most, at one place of it, so that it is    *)
(* executed once.                                                          *)
(***************************************************************************)
THEOREM QueuedOnce == Spec => []QueueInv
<1>1. IInv => QueueInv
  BY DEF IInv
<1> QED
  BY Inductive, <1>1, PTL
-----------------------------------------------------------------------------
(***************************************************************************)
(* ServerlessResponse.                                                     *)
(*                                                                         *)
(* Before the response is over only done() closes the writer, so the queue *)
(* is what of the log the client still lacks, with the marker after it     *)
(* just in case the worker has finished.  After that nothing is queued,    *)
(* and a greenlet that runs was already there when close() looked.         *)
(***************************************************************************)

(***************************************************************************)
(* Who is where: generate(), the worker and its greenlet.                  *)
(***************************************************************************)
ControlInv ==
  /\ why = "open" <=> gpc \in {"none", "accepted", "client", "get"}
  /\ started <=> gpc \notin {"none", "accepted"}
  /\ wpc = "none" <=> gpc = "none"
  /\ wpc = "finished" => closed
  /\ closed /\ why = "open" => wpc = "finished"
  /\ why = "marker" => wpc = "finished"
  /\ wpc \in {"none", "queued", "execute", "dropped"} => greenlet = "none"
  /\ greenlet = "running" => wpc = "wait"
  /\ wpc = "error" => greenlet = "raised"
  /\ task <=> wpc = "wait"

(***************************************************************************)
(* After close() the writer is closed and its queue empty, and a greenlet  *)
(* that runs is the one that close() has found.                            *)
(***************************************************************************)
CloseInv ==
  /\ gpc \in {"kill", "over"} => closed /\ q = <<>>
  /\ gpc = "kill" /\ greenlet = "running" => target
  /\ gpc = "over" /\ greenlet = "running" => killed

(***************************************************************************)
(* What the client got and what is queued, against what was written.       *)
(***************************************************************************)
Marker == IF wpc = "finished" THEN 1 ELSE 0

StreamInv ==
  /\ Len(got) <= Len(log)
  /\ \A i \in 1 .. Len(got) : got[i] = log[i]
  /\ why = "marker" => Len(got) = Len(log)
  /\ why = "open" =>
       /\ Len(got) + Len(q) = Len(log) + Marker
       /\ \A i \in 1 .. Len(q) :
            q[i] = IF Len(got) + i <= Len(log) THEN log[Len(got) + i] ELSE EndMarker

(***************************************************************************)
(* The error message and the end message are the last the worker writes.   *)
(***************************************************************************)
LastInv ==
  why \in {"open", "marker"} =>
    /\ wpc \in {"done", "finished"} => Len(log) > 0
    /\ \A i \in 1 .. Len(log) :
         /\ log[i] = "end" <=> wpc \in {"done", "finished"} /\ i = Len(log)
         /\ log[i] = "error" <=>
              /\ greenlet = "raised"
              /\ \/ wpc = "end" /\ i = Len(log)
                 \/ wpc \in {"done", "finished"} /\ i = Len(log) - 1

ResponseInv == ResponseTypeOK /\ ControlInv /\ CloseInv /\ StreamInv /\ LastInv

-----------------------------------------------------------------------------
(* The invariant, one operation of the writer at a time.                   *)

(***************************************************************************)
(* Before the request comes in nothing is written and nothing sent.        *)
(***************************************************************************)
LEMMA ResponseInitially == ResponseInit => ResponseInv
<1> SUFFICES ASSUME ResponseInit PROVE ResponseInv
  OBVIOUS
<1> USE DEF ResponseInit
<1>1. ResponseTypeOK
  <2>1. <<>> \in Seq(Message) /\ <<>> \in Seq(Message \cup {EndMarker})
    OBVIOUS
  <2>2. idle \in 0 .. MaxIdle
    BY MaxIdleAssumption
  <2>3. /\ closed \in BOOLEAN /\ task \in BOOLEAN
        /\ killed \in BOOLEAN /\ target \in BOOLEAN /\ started \in BOOLEAN
    OBVIOUS
  <2> QED
    BY <2>1, <2>2, <2>3 DEF ResponseTypeOK
<1>2. ControlInv /\ CloseInv
  BY DEF ControlInv, CloseInv
<1>3. StreamInv /\ LastInv
  <2>1. Len(log) = 0 /\ Len(got) = 0 /\ Len(q) = 0
    OBVIOUS
  <2> QED
    BY <2>1 DEF StreamInv, LastInv, Marker
<1> QED
  BY <1>1, <1>2, <1>3 DEF ResponseInv

(***************************************************************************)
(* write() by somebody who is not past done(): it keeps the queue equal to *)
(* what the client lacks, and leaves a response that is over alone.        *)
(***************************************************************************)
LEMMA WriteStep ==
  ASSUME ResponseTypeOK, ControlInv, StreamInv, NEW m \in Message, Write(m),
         wpc # "finished", wpc' # "finished", UNCHANGED <<got, why>>
  PROVE  /\ q' \in Seq(Message \cup {EndMarker}) /\ log' \in Seq(Message)
         /\ StreamInv'
<1>1. CASE closed
  <2>1. UNCHANGED <<q, log>> /\ why # "open"
    BY <1>1 DEF Write, ControlInv
  <2> QED
    BY <2>1 DEF ResponseTypeOK, StreamInv
<1>2. CASE ~closed
  <2>1. q' = Append(q, m) /\ log' = Append(log, m)
    BY <1>2 DEF Write
  <2>2. /\ q' \in Seq(Message \cup {EndMarker})
        /\ Len(q') = Len(q) + 1 /\ q'[Len(q) + 1] = m
        /\ \A i \in 1 .. Len(q) : q'[i] = q[i]
    BY <2>1, AppendAt DEF ResponseTypeOK
  <2>3. /\ log' \in Seq(Message)
        /\ Len(log') = Len(log) + 1 /\ log'[Len(log) + 1] = m
        /\ \A i \in 1 .. Len(log) : log'[i] = log[i]
    BY <2>1, AppendAt DEF ResponseTypeOK
  <2>4. Len(q) \in Nat /\ Len(log) \in Nat /\ Len(got) \in Nat
    BY DEF ResponseTypeOK
  <2>5. why # "marker"
    BY DEF ControlInv
  <2>6. ASSUME why = "open"
        PROVE  /\ Len(got) + Len(q') = Len(log')
               /\ \A i \in 1 .. Len(q') : q'[i] = log'[Len(got) + i]
    <3>1. /\ Len(got) + Len(q) = Len(log)
          /\ \A i \in 1 .. Len(q) : q[i] = log[Len(got) + i]
      <4>1. Marker = 0
        BY DEF Marker
      <4>2. Len(got) + Len(q) = Len(log)
        BY <2>4, <2>6, <4>1 DEF StreamInv
      <4>3. \A i \in 1 .. Len(q) : Len(got) + i <= Len(log)
        BY <2>4, <4>2
      <4> QED
        BY <2>6, <4>2, <4>3 DEF StreamInv
    <3> QED
      BY <2>2, <2>3, <2>4, <3>1
  <2>7. Len(got) <= Len(log') /\ \A i \in 1 .. Len(got) : got[i] = log'[i]
    BY <2>3, <2>4 DEF StreamInv
  <2> QED
    BY <2>2, <2>3, <2>4, <2>5, <2>6, <2>7 DEF StreamInv, Marker
<1> QED
  BY <1>1, <1>2

(***************************************************************************)
(* done() puts the marker after everything that was written.               *)
(***************************************************************************)
LEMMA DoneStep ==
  ASSUME ResponseTypeOK, ControlInv, StreamInv, PutMarker
  PROVE  q' \in Seq(Message \cup {EndMarker}) /\ StreamInv'
<1>1. /\ wpc = "done" /\ wpc' = "finished" /\ UNCHANGED <<log, got, why>>
      /\ q' = IF closed THEN q ELSE Append(q, EndMarker)
  BY DEF PutMarker, done, generatorVars
<1>2. Len(q) \in Nat /\ Len(log) \in Nat /\ Len(got) \in Nat
  BY DEF ResponseTypeOK
<1>3. CASE closed
  BY <1>1, <1>3 DEF ResponseTypeOK, ControlInv, StreamInv
<1>4. CASE ~closed
  <2>1. /\ q' \in Seq(Message \cup {EndMarker})
        /\ Len(q') = Len(q) + 1 /\ q'[Len(q) + 1] = EndMarker
        /\ \A i \in 1 .. Len(q) : q'[i] = q[i]
    BY <1>1, <1>4, AppendAt DEF ResponseTypeOK
  <2>2. ASSUME why = "open"
        PROVE  /\ Len(got) + Len(q') = Len(log) + 1
               /\ \A i \in 1 .. Len(q') : q'[i] =
                    IF Len(got) + i <= Len(log) THEN log[Len(got) + i] ELSE EndMarker
    <3>1. /\ Len(got) + Len(q) = Len(log)
          /\ \A i \in 1 .. Len(q) : q[i] = log[Len(got) + i]
      <4>1. Marker = 0
        BY <1>1 DEF Marker
      <4>2. Len(got) + Len(q) = Len(log)
        BY <1>2, <2>2, <4>1 DEF StreamInv
      <4>3. \A i \in 1 .. Len(q) : Len(got) + i <= Len(log)
        BY <1>2, <4>2
      <4> QED
        BY <2>2, <4>2, <4>3 DEF StreamInv
    <3> QED
      BY <1>2, <2>1, <3>1
  <2> QED
    BY <1>1, <2>1, <2>2 DEF StreamInv, Marker
<1> QED
  BY <1>3, <1>4

(***************************************************************************)
(* queue.get: what the client is sent next is the next of the log, and the *)
(* marker comes when there is no next.                                     *)
(***************************************************************************)
LEMMA GetStep ==
  ASSUME ResponseTypeOK, ControlInv, StreamInv, GetResponse
  PROVE  /\ q' \in Seq(Message \cup {EndMarker}) /\ got' \in Seq(Message)
         /\ why' = "marker" => wpc = "finished"
         /\ StreamInv'
<1>1. /\ gpc = "get" /\ why = "open" /\ q # <<>> /\ q' = Tail(q)
      /\ UNCHANGED <<log, wpc>>
  BY DEF GetResponse, ControlInv
<1>2. /\ Head(q) \in Message \cup {EndMarker} /\ Head(q) = q[1]
      /\ q' \in Seq(Message \cup {EndMarker})
      /\ Len(q) \in Nat /\ Len(q) > 0 /\ Len(q') = Len(q) - 1
      /\ \A i \in 1 .. Len(q) - 1 : q'[i] = q[i + 1]
  BY <1>1, TailAt DEF ResponseTypeOK
<1>3. /\ Len(log) \in Nat /\ Len(got) \in Nat
      /\ \A i \in 1 .. Len(log) : log[i] \in Message /\ log[i] # EndMarker
  BY MarkerAssumption DEF ResponseTypeOK, Message
<1>4. /\ Len(got) + Len(q) = Len(log) + Marker
      /\ \A i \in 1 .. Len(q) :
           q[i] = IF Len(got) + i <= Len(log) THEN log[Len(got) + i] ELSE EndMarker
      /\ Marker \in {0, 1}
  BY <1>1 DEF StreamInv, Marker
<1>5. CASE Head(q) = EndMarker
  <2>1. why' = "marker" /\ got' = got
    BY <1>5 DEF GetResponse
  <2>2. ~(Len(got) + 1 <= Len(log))
    BY <1>2, <1>3, <1>4, <1>5
  <2>3. Len(got) = Len(log) /\ Marker = 1
    BY <1>2, <1>3, <1>4, <2>2
  <2> QED
    BY <1>1, <1>2, <2>1, <2>3 DEF ResponseTypeOK, StreamInv, Marker
<1>6. CASE Head(q) # EndMarker
  <2>1. why' = "open" /\ got' = Append(got, Head(q)) /\ Head(q) \in Message
    BY <1>1, <1>2, <1>6 DEF GetResponse
  <2>2. /\ got' \in Seq(Message)
        /\ Len(got') = Len(got) + 1 /\ got'[Len(got) + 1] = Head(q)
        /\ \A i \in 1 .. Len(got) : got'[i] = got[i]
    BY <2>1, AppendAt DEF ResponseTypeOK
  <2>3. Len(got) + 1 <= Len(log) /\ Head(q) = log[Len(got) + 1]
    BY <1>2, <1>3, <1>4, <1>6
  <2>4. \A i \in 1 .. Len(got') : got'[i] = log[i]
    BY <1>3, <2>2, <2>3 DEF StreamInv
  <2>5. Len(got') + Len(q') = Len(log) + Marker
    <3>1. /\ Len(got') = Len(got) + 1 /\ Len(q') = Len(q) - 1
          /\ Len(got) \in Nat /\ Len(q) \in Nat
          /\ Len(got) + Len(q) = Len(log) + Marker
      BY <1>2, <1>3, <1>4, <2>2
    <3>2. Len(got') + Len(q') = Len(got) + Len(q)
      BY ONLY <3>1
    <3> QED
      BY <3>1, <3>2
  <2>6. \A i \in 1 .. Len(q') : q'[i] =
          IF Len(got') + i <= Len(log) THEN log[Len(got') + i] ELSE EndMarker
    <3> SUFFICES ASSUME NEW i \in 1 .. Len(q')
                 PROVE  q'[i] = IF Len(got') + i <= Len(log)
                                THEN log[Len(got') + i] ELSE EndMarker
      OBVIOUS
    <3>1. i \in 1 .. Len(q) - 1 /\ i + 1 \in 1 .. Len(q) /\ q'[i] = q[i + 1]
      BY <1>2
    <3>2. Len(got') + i = Len(got) + (i + 1)
      BY <1>3, <2>2, <3>1
    <3> QED
      BY <1>4, <3>1, <3>2
  <2> QED
    BY <1>1, <1>2, <2>1, <2>2, <2>3, <2>4, <2>5, <2>6 DEF StreamInv, Marker
<1> QED
  BY <1>5, <1>6

(***************************************************************************)
(* A chunk comes before the last messages, the error message before the    *)
(* end message, and nothing after that.                                    *)
(***************************************************************************)
LEMMA LastWrite ==
  ASSUME ResponseTypeOK, ControlInv, LastInv, NEW m \in Message, Write(m),
         wpc # "finished", wpc' # "finished", UNCHANGED <<why, greenlet>>,
         \/ m = "chunk" /\ wpc = "wait" /\ wpc' = "wait"
         \/ m = "error" /\ wpc = "error" /\ wpc' = "end"
         \/ m = "end" /\ wpc = "end" /\ wpc' = "done"
  PROVE  LastInv'
<1>1. why # "marker"
  BY DEF ControlInv
<1> SUFFICES ASSUME why = "open" PROVE LastInv'
  BY <1>1 DEF LastInv
<1>2. ~closed
  BY DEF ControlInv
<1>3. /\ log' \in Seq(Message)
      /\ Len(log') = Len(log) + 1 /\ log'[Len(log) + 1] = m
      /\ \A i \in 1 .. Len(log) : log'[i] = log[i]
  BY <1>2, AppendAt DEF Write, ResponseTypeOK
<1>4. Len(log) \in Nat
  BY DEF ResponseTypeOK
<1>5. \A i \in 1 .. Len(log) :
        /\ log[i] # "end"
        /\ log[i] = "error" <=> greenlet = "raised" /\ wpc = "end" /\ i = Len(log)
  BY <1>4 DEF LastInv
<1>6. wpc = "error" => greenlet = "raised"
  BY DEF ControlInv
<1>7. CASE m = "chunk"
  BY <1>3, <1>4, <1>5, <1>7 DEF LastInv
<1>8. CASE m = "error"
  BY <1>3, <1>4, <1>5, <1>6, <1>8 DEF LastInv
<1>9. CASE m = "end"
  BY <1>3, <1>4, <1>5, <1>9 DEF LastInv
<1> QED
  BY <1>7, <1>8, <1>9

(***************************************************************************)
(* The invariant is inductive.                                             *)
(***************************************************************************)
LEMMA ResponseStep == ResponseInv /\ [ResponseNext]_responseVars => ResponseInv'
<1> SUFFICES ASSUME ResponseTypeOK, ControlInv, CloseInv, StreamInv, LastInv,
                    [ResponseNext]_responseVars
             PROVE  ResponseInv'
  BY DEF ResponseInv
<1> USE DEF ResponseInv, writerVars, taskVars, generatorVars
(***************************************************************************)
(* The steps that leave what is written and what is sent alone.            *)
(***************************************************************************)
<1>0. ASSUME UNCHANGED <<log, got, greenlet, wpc>>,
             \/ UNCHANGED <<q, why>>
             \/ why' = "gone"
             \/ why' = "idle"
             \/ why # "open" /\ UNCHANGED why
      PROVE  StreamInv' /\ LastInv'
  BY <1>0 DEF StreamInv, LastInv, Marker
<1>1. CASE ClientNext
  <2>1. StreamInv' /\ LastInv'
    BY <1>0, <1>1 DEF ClientNext
  <2> QED
    BY <1>1, <2>1 DEF ClientNext, ResponseTypeOK, ControlInv, CloseInv
<1>2. CASE ClientGone
  <2>1. StreamInv' /\ LastInv'
    BY <1>0, <1>2 DEF ClientGone
  <2> QED
    BY <1>2, <2>1 DEF ClientGone, ResponseTypeOK, ControlInv, CloseInv
<1>3. CASE GetResponse
  <2>1. q' \in Seq(Message \cup {EndMarker}) /\ got' \in Seq(Message) /\ StreamInv'
    BY <1>3, GetStep
  <2>2. ResponseTypeOK'
    BY <1>3, <2>1, MaxIdleAssumption DEF GetResponse, ResponseTypeOK
  <2>3. ControlInv'
    BY <1>3, GetStep DEF GetResponse, ControlInv
  <2>4. CloseInv'
    BY <1>3 DEF GetResponse, CloseInv
  <2>5. LastInv'
    BY <1>3 DEF GetResponse, LastInv, ControlInv
  <2> QED
    BY <2>1, <2>2, <2>3, <2>4, <2>5
<1>4. CASE GetEmpty
  <2>1. ResponseTypeOK'
    BY <1>4, MaxIdleAssumption DEF GetEmpty, ResponseTypeOK
  <2>2. StreamInv' /\ LastInv'
    BY <1>0, <1>4 DEF GetEmpty
  <2> QED
    BY <1>4, <2>1, <2>2 DEF GetEmpty, ControlInv, CloseInv
<1>5. CASE Close
  <2>1. ResponseTypeOK'
    BY <1>5 DEF Close, ResponseTypeOK
  <2>2. why # "open"
    BY <1>5 DEF Close, ControlInv
  <2>3. ControlInv' /\ CloseInv'
    BY <1>5, <2>2 DEF Close, ControlInv, CloseInv, ResponseTypeOK
  <2>4. StreamInv' /\ LastInv'
    BY <1>0, <1>5, <2>2 DEF Close
  <2> QED
    BY <2>1, <2>3, <2>4
<1>6. CASE CloseKill
  <2>1. StreamInv' /\ LastInv'
    BY <1>0, <1>6 DEF CloseKill
  <2> QED
    BY <1>6, <2>1 DEF CloseKill, ResponseTypeOK, ControlInv, CloseInv
<1>7. CASE HandOver
  <2>1. ResponseTypeOK' /\ ControlInv' /\ CloseInv'
    BY <1>7 DEF HandOver, ResponseTypeOK, ControlInv, CloseInv
  <2>2. StreamInv' /\ LastInv'
    BY <1>7 DEF HandOver, ControlInv, StreamInv, LastInv, Marker
  <2> QED
    BY <2>1, <2>2
<1>8. CASE Execute
  <2>1. ResponseTypeOK' /\ ControlInv' /\ CloseInv'
    <3>1. CASE closed
      BY <1>8, <3>1 DEF Execute, ResponseTypeOK, ControlInv, CloseInv
    <3>2. CASE ~closed
      BY <1>8, <3>2 DEF Execute, ResponseTypeOK, ControlInv, CloseInv
    <3> QED
      BY <3>1, <3>2
  <2>2. StreamInv' /\ LastInv'
    BY <1>8 DEF Execute, ControlInv, StreamInv, LastInv, Marker
  <2> QED
    BY <2>1, <2>2
<1>9. CASE TaskOver
  <2>1. ResponseTypeOK' /\ ControlInv' /\ CloseInv'
    BY <1>9 DEF TaskOver, ResponseTypeOK, ControlInv, CloseInv
  <2>2. StreamInv' /\ LastInv'
    BY <1>9 DEF TaskOver, ControlInv, StreamInv, LastInv, Marker
  <2> QED
    BY <2>1, <2>2
<1>10. CASE WriteError
  <2>1. /\ wpc = "error" /\ wpc' = "end" /\ "error" \in Message
        /\ Write("error") /\ UNCHANGED <<taskVars, generatorVars>>
    BY <1>10 DEF WriteError, Message
  <2>2. /\ q' \in Seq(Message \cup {EndMarker}) /\ log' \in Seq(Message)
        /\ StreamInv' /\ LastInv'
    BY <2>1, WriteStep, LastWrite
  <2> QED
    BY <2>1, <2>2 DEF Write, ResponseTypeOK, ControlInv, CloseInv
<1>11. CASE WriteEnd
  <2>1. /\ wpc = "end" /\ wpc' = "done" /\ "end" \in Message
        /\ Write("end") /\ UNCHANGED <<taskVars, generatorVars>>
    BY <1>11 DEF WriteEnd, Message
  <2>2. /\ q' \in Seq(Message \cup {EndMarker}) /\ log' \in Seq(Message)
        /\ StreamInv' /\ LastInv'
    BY <2>1, WriteStep, LastWrite
  <2> QED
    BY <2>1, <2>2 DEF Write, ResponseTypeOK, ControlInv, CloseInv
<1>12. CASE PutMarker
  <2>1. q' \in Seq(Message \cup {EndMarker}) /\ StreamInv'
    BY <1>12, DoneStep
  <2>2. LastInv'
    BY <1>12 DEF PutMarker, done, ControlInv, LastInv
  <2>3. ResponseTypeOK' /\ ControlInv' /\ CloseInv'
    BY <1>12, <2>1 DEF PutMarker, done, ResponseTypeOK, ControlInv, CloseInv
  <2> QED
    BY <2>1, <2>2, <2>3
<1>13. CASE TaskWrite
  <2>1. /\ wpc = "wait" /\ wpc' = "wait" /\ "chunk" \in Message
        /\ Write("chunk") /\ UNCHANGED <<taskVars, wpc, generatorVars>>
    BY <1>13 DEF TaskWrite, Message, ControlInv
  <2>2. /\ q' \in Seq(Message \cup {EndMarker}) /\ log' \in Seq(Message)
        /\ StreamInv' /\ LastInv'
    BY <2>1, WriteStep, LastWrite
  <2> QED
    BY <2>1, <2>2 DEF Write, ResponseTypeOK, ControlInv, CloseInv
<1>14. CASE TaskEnd \/ TaskKilled
  <2>1. ResponseTypeOK' /\ ControlInv' /\ CloseInv'
    BY <1>14 DEF TaskEnd, TaskKilled, ResponseTypeOK, ControlInv, CloseInv
  <2>2. wpc = "wait" /\ UNCHANGED <<writerVars, wpc, generatorVars>>
    BY <1>14 DEF TaskEnd, TaskKilled, ControlInv
  <2>3. StreamInv' /\ LastInv'
    BY <1>14, <2>2 DEF TaskEnd, TaskKilled, StreamInv, LastInv, Marker
  <2> QED
    BY <2>1, <2>3
<1>15. CASE Accept
  <2>1. ResponseTypeOK' /\ ControlInv' /\ CloseInv'
    BY <1>15 DEF Accept, ResponseTypeOK, ControlInv, CloseInv
  <2>2. StreamInv' /\ LastInv'
    BY <1>15 DEF Accept, ControlInv, StreamInv, LastInv, Marker
  <2> QED
    BY <2>1, <2>2
<1>16. CASE Arm
  <2>1. StreamInv' /\ LastInv'
    BY <1>0, <1>16 DEF Arm
  <2> QED
    BY <1>16, <2>1 DEF Arm, ResponseTypeOK, ControlInv, CloseInv
<1>17. CASE UNCHANGED responseVars
  BY <1>17 DEF responseVars, ResponseTypeOK, ControlInv, CloseInv, StreamInv, LastInv, Marker
<1> QED
  BY <1>1, <1>2, <1>3, <1>4, <1>5, <1>6, <1>7, <1>8, <1>9, <1>10, <1>11,
     <1>12, <1>13, <1>14, <1>15, <1>16, <1>17 DEF ResponseNext, Client, Generator, ResponseWorker

(***************************************************************************)
(* So it holds throughout every run.                                       *)
(***************************************************************************)
LEMMA ResponseInductive == ResponseSpec => []ResponseInv
BY ResponseInitially, ResponseStep, PTL DEF ResponseSpec

-----------------------------------------------------------------------------
(***************************************************************************)
(* The client is sent what the handler wrote, in its order, whichever way  *)
(* the response ends; if it ends with the marker, all of it, with the one  *)
(* end message last and an error message before it just in case the        *)
(* handler raised.                                                         *)
(***************************************************************************)
THEOREM MarkerIsComplete == ResponseSpec => []MarkerMeansComplete
<1>1. ResponseInv => MarkerMeansComplete
  <2> SUFFICES ASSUME ResponseTypeOK, ControlInv, StreamInv, LastInv
               PROVE  MarkerMeansComplete
    BY DEF ResponseInv
  <2>1. /\ got \in Seq(Message) /\ log \in Seq(Message)
        /\ Len(got) \in Nat /\ Len(log) \in Nat
        /\ Len(got) <= Len(log)
        /\ \A i \in 1 .. Len(got) : got[i] = log[i]
    BY DEF ResponseTypeOK, StreamInv
  <2>2. got = SubSeq(log, 1, Len(got))
    BY <2>1
  <2>3. ASSUME why = "marker"
        PROVE  /\ Len(got) = Len(log)
               /\ got # <<>>
               /\ \A i \in DOMAIN got :
                    /\ got[i] = "end" <=> i = Len(got)
                    /\ got[i] = "error" <=>
                         greenlet = "raised" /\ i = Len(got) - 1
    <3>1. Len(got) = Len(log) /\ wpc = "finished"
      BY <2>3 DEF StreamInv, ControlInv
    <3>2. /\ Len(log) > 0
          /\ \A i \in 1 .. Len(log) :
               /\ log[i] = "end" <=> i = Len(log)
               /\ log[i] = "error" <=> greenlet = "raised" /\ i = Len(log) - 1
      BY <2>3, <3>1 DEF LastInv
    <3>3. got # <<>> /\ DOMAIN got = 1 .. Len(got)
      BY <2>1, <3>1, <3>2
    <3> QED
      BY <2>1, <3>1, <3>2, <3>3
  <2> QED
    BY <2>2, <2>3 DEF MarkerMeansComplete
<1> QED
  BY ResponseInductive, <1>1, PTL

(***************************************************************************)
(* Nothing is queued for a response that is over, however late the handler *)
(* and the worker write.                                                   *)
(***************************************************************************)
THEOREM NothingIsLate == ResponseSpec => []NothingAfterClose
<1>1. ResponseInv => NothingAfterClose
  BY DEF ResponseInv, CloseInv, NothingAfterClose
<1> QED
  BY ResponseInductive, <1>1, PTL

(***************************************************************************)
(* A handler that still runs when its response is over has been told to    *)
(* stop: execute() spawns none after close(), and close() kills the one    *)
(* it finds.                                                               *)
(***************************************************************************)
THEOREM NoTaskIsOrphaned == ResponseSpec => []NoOrphanTask
<1>1. ResponseInv => NoOrphanTask
  BY DEF ResponseInv, CloseInv, NoOrphanTask
<1> QED
  BY ResponseInductive, <1>1, PTL
=============================================================================
